-------------------------- MODULE InteractionLease --------------------------
(***************************************************************************)
(* The interaction lease: one thread of one process of a user acts on the  *)
(* desktop at a time.  crates/core/src/interaction_lease.rs,               *)
(* process_lease_guard.rs and file_lock.rs.                                *)
(*                                                                         *)
(* A lease is two locks taken in order: a flag in the memory of the        *)
(* process, which threads spin on, and a flock on interaction.lock, which  *)
(* is polled.  A flock belongs to an open file description, not to a       *)
(* process: it is released when the last descriptor of the description is  *)
(* closed, and any number of processes can have one.  A lease is handed to *)
(* a child in that way (duplicate_inheritable_fd in the parent,            *)
(* AGENT_DESKTOP_INTERACTION_LEASE_FD and adopt_inherited in the child).   *)
(***************************************************************************)
EXTENDS FiniteSets

CONSTANTS
  Procs,      \* process slots: a process that ended may be started again
  Threads,    \* the threads that acquire leases
  ProcOf,     \* the process of each thread
  Descs,      \* open file descriptions of the lock file
  NoDesc      \* none of them

ASSUME LeaseAssumption ==
  /\ ProcOf \in [Threads -> Procs]
  /\ NoDesc \notin Descs

\* The threads spread over the processes, so that each has one at least.
Spread == CHOOSE home \in [Threads -> Procs] : \A p \in Procs : \E t \in Threads : home[t] = p

VARIABLES
  alive,    \* the processes that run
  held,     \* PROCESS_LEASE_HELD of each process
  pc,       \* where each thread is in acquiring or dropping a lease
  desc,     \* the description behind the FileLock of each thread
  owner,    \* the description that owns the flock
  env,      \* the description that the environment of each process names
  given,    \* descriptions each process inherited when it was started
  sealed,   \* those of them that were made close-on-exec
  dups      \* inheritable duplicates each process keeps

threadVars == <<pc, desc>>
procVars == <<alive, held, env, given, sealed, dups>>
vars == <<threadVars, procVars, owner>>

Raw(p) == given[p] \cup dups[p]
Open == {desc[t] : t \in Threads} \cup UNION {Raw(p) : p \in Procs}

Goto(t, label) == pc' = [pc EXCEPT ![t] = label]

\* The flock goes with the last descriptor of its description.
KernelUnlocks == owner' = IF owner \in Open' THEN owner ELSE NoDesc

-----------------------------------------------------------------------------
(* Acquiring *)

Begin(t) ==
  /\ pc[t] = "idle" /\ ProcOf[t] \in alive
  /\ Goto(t, "spinning")
  /\ UNCHANGED <<desc, procVars, owner>>

\* The compare-and-exchange in ProcessLeaseGuard::acquire.
TakeFlag(t) ==
  /\ pc[t] = "spinning" /\ ~ held[ProcOf[t]]
  /\ held' = [held EXCEPT ![ProcOf[t]] = TRUE]
  /\ Goto(t, "flagged")
  /\ UNCHANGED <<desc, alive, env, given, sealed, dups, owner>>

SpinTimeout(t) ==
  /\ pc[t] = "spinning"
  /\ Goto(t, "idle")
  /\ UNCHANGED <<desc, procVars, owner>>

\* FileLock::acquire opens the lock file: a new description.
OpenLock(t) ==
  /\ pc[t] = "flagged" /\ env[ProcOf[t]] = NoDesc
  /\ \E d \in Descs \ Open : desc' = [desc EXCEPT ![t] = d]
  /\ Goto(t, "polling")
  /\ UNCHANGED <<procVars, owner>>

\* A plausible mistake: the inherited descriptor stays inheritable.
AdoptUnsealed(t) ==
  LET p == ProcOf[t]
  IN  /\ pc[t] = "flagged" /\ env[p] \in given[p]
      /\ desc' = [desc EXCEPT ![t] = env[p]]
      /\ Goto(t, "polling")
      /\ UNCHANGED <<procVars, owner>>

\* FileLock::adopt_inherited duplicates the descriptor the environment names
\* and makes the original close-on-exec.
Adopt(t) ==
  LET p == ProcOf[t]
  IN  /\ pc[t] = "flagged" /\ env[p] \in given[p]
      /\ desc' = [desc EXCEPT ![t] = env[p]]
      /\ sealed' = [sealed EXCEPT ![p] = @ \cup {env[p]}]
      /\ Goto(t, "polling")
      /\ UNCHANGED <<alive, held, env, given, dups, owner>>

\* A plausible mistake: an early return leaves the flag set.
RefuseLockKeepsFlag(t) ==
  /\ pc[t] = "flagged"
  /\ Goto(t, "idle")
  /\ UNCHANGED <<desc, procVars, owner>>

\* The environment names a descriptor that is closed or that meanwhile refers
\* to another file; or the lock file cannot be opened, or the deadline was
\* found expired right after the exchange.  An inherited descriptor is made
\* close-on-exec before it is validated, and stays so when it is refused.
RefuseLock(t) ==
  LET p == ProcOf[t]
  IN  /\ pc[t] = "flagged"
      /\ sealed' \in {sealed, [sealed EXCEPT ![p] = @ \cup ({env[p]} \cap given[p])]}
      /\ Goto(t, "unlocked")
      /\ UNCHANGED <<desc, alive, held, env, given, dups, owner>>

\* try_lock.  It succeeds at once on a description that already owns the lock.
TryLock(t) ==
  /\ pc[t] = "polling" /\ owner \in {NoDesc, desc[t]}
  /\ owner' = desc[t]
  /\ Goto(t, "locked")
  /\ UNCHANGED <<desc, procVars>>

\* The lease exists once the deadline has been checked a second time.
Confirm(t) ==
  /\ pc[t] = "locked"
  /\ Goto(t, "leased")
  /\ UNCHANGED <<desc, procVars, owner>>

\* A plausible mistake: a waiter polls the flock for as long as it takes.
CloseLockWhenLocked(t) ==
  /\ pc[t] \in {"locked", "leased"}
  /\ desc' = [desc EXCEPT ![t] = NoDesc]
  /\ Goto(t, "unlocked")
  /\ UNCHANGED procVars
  /\ KernelUnlocks

\* A plausible mistake: the lock is released explicitly, for every descriptor.
CloseLockExplicitly(t) ==
  /\ pc[t] \in {"polling", "locked", "leased"}
  /\ desc' = [desc EXCEPT ![t] = NoDesc]
  /\ Goto(t, "unlocked")
  /\ owner' = IF owner = desc[t] THEN NoDesc ELSE owner
  /\ UNCHANGED procVars

\* The file is dropped: the deadline expired while polling or right after the
\* lock was taken, or the lease goes out of scope.
CloseLock(t) ==
  /\ pc[t] \in {"polling", "locked", "leased"}
  /\ desc' = [desc EXCEPT ![t] = NoDesc]
  /\ Goto(t, "unlocked")
  /\ UNCHANGED procVars
  /\ KernelUnlocks

\* ProcessLeaseGuard is declared after the file lock and dropped after it.
ClearFlag(t) ==
  /\ pc[t] = "unlocked"
  /\ held' = [held EXCEPT ![ProcOf[t]] = FALSE]
  /\ Goto(t, "idle")
  /\ UNCHANGED <<desc, alive, env, given, sealed, dups, owner>>

-----------------------------------------------------------------------------
(* Handing a lease on, and processes *)

Duplicate(t) ==
  /\ pc[t] = "leased" /\ desc[t] \in Descs
  /\ dups' = [dups EXCEPT ![ProcOf[t]] = @ \cup {desc[t]}]
  /\ UNCHANGED <<threadVars, alive, held, env, given, sealed, owner>>

DropDuplicate(p) ==
  /\ dups[p] # {}
  /\ dups' = [dups EXCEPT ![p] = {}]
  /\ UNCHANGED <<threadVars, alive, held, env, given, sealed>>
  /\ KernelUnlocks

\* A user or another program starts a process that inherits nothing.
Launch(q) ==
  /\ q \notin alive
  /\ alive' = alive \cup {q}
  /\ UNCHANGED <<threadVars, held, env, given, sealed, dups, owner>>

\* Process p, a program that uses the lease (src/ has one only as a test,
\* interaction_lock.py), starts q.  Every descriptor that is not close-on-exec is
\* inherited; so is the environment, unless p names a duplicate in it.
Spawn(p, q) ==
  /\ p \in alive /\ q \notin alive
  /\ alive' = alive \cup {q}
  /\ given' = [given EXCEPT ![q] = dups[p] \cup (given[p] \ sealed[p])]
  /\ \E d \in {env[p]} \cup dups[p] : env' = [env EXCEPT ![q] = d]
  /\ UNCHANGED <<threadVars, held, sealed, dups, owner>>

\* A process ends, in whatever state: the kernel closes its descriptors.
Exit(p) ==
  /\ p \in alive
  /\ alive' = alive \ {p}
  /\ held' = [held EXCEPT ![p] = FALSE]
  /\ pc' = [t \in Threads |-> IF ProcOf[t] = p THEN "idle" ELSE pc[t]]
  /\ desc' = [t \in Threads |-> IF ProcOf[t] = p THEN NoDesc ELSE desc[t]]
  /\ env' = [env EXCEPT ![p] = NoDesc]
  /\ given' = [given EXCEPT ![p] = {}]
  /\ sealed' = [sealed EXCEPT ![p] = {}]
  /\ dups' = [dups EXCEPT ![p] = {}]
  /\ KernelUnlocks

-----------------------------------------------------------------------------
Init ==
  /\ alive = {}
  /\ held = [p \in Procs |-> FALSE]
  /\ pc = [t \in Threads |-> "idle"]
  /\ desc = [t \in Threads |-> NoDesc]
  /\ owner = NoDesc
  /\ env = [p \in Procs |-> NoDesc]
  /\ given = [p \in Procs |-> {}]
  /\ sealed = [p \in Procs |-> {}]
  /\ dups = [p \in Procs |-> {}]

\* What a thread does once it has asked for a lease.
Work(t) ==
  \/ TakeFlag(t) \/ SpinTimeout(t)
  \/ OpenLock(t) \/ Adopt(t) \/ RefuseLock(t)
  \/ TryLock(t) \/ Confirm(t) \/ CloseLock(t) \/ ClearFlag(t)

Process(p) ==
  DropDuplicate(p) \/ Launch(p) \/ Exit(p) \/ \E q \in Procs : Spawn(p, q)

Next ==
  \/ \E t \in Threads : Begin(t) \/ Work(t) \/ Duplicate(t)
  \/ \E p \in Procs : Process(p)

Spec == Init /\ [][Next]_vars

\* A thread that runs goes on: polls end at the deadline, and a lease is
\* dropped at the end of its command.
FairSpec == Spec /\ \A t \in Threads : WF_vars(Work(t))
-----------------------------------------------------------------------------
(* Properties *)

Flagged == {"flagged", "polling", "locked", "leased", "unlocked"}
Filed == {"polling", "locked", "leased"}

\* Every variable stays in its domain; a FileLock exists exactly while the
\* thread polls or has the lock.
TypeOK ==
  /\ alive \subseteq Procs
  /\ held \in [Procs -> BOOLEAN]
  /\ pc \in [Threads -> {"idle", "spinning"} \cup Flagged]
  /\ desc \in [Threads -> Descs \cup {NoDesc}]
  /\ \A t \in Threads : desc[t] = NoDesc <=> pc[t] \notin Filed
  /\ owner \in Descs \cup {NoDesc}
  /\ env \in [Procs -> Descs \cup {NoDesc}]
  /\ given \in [Procs -> SUBSET Descs]
  /\ sealed \in [Procs -> SUBSET Descs]
  /\ dups \in [Procs -> SUBSET Descs]

\* Two threads of one process never have a lease at once, two leases always
\* stand for one locked description, and if they are in two processes then one
\* of the two inherited it: nobody else is let in, whoever closes, duplicates,
\* adopts or dies in whatever order.
LeaseIsExclusive ==
  \A t, u \in Threads :
    pc[t] = "leased" /\ pc[u] = "leased" =>
      /\ desc[t] = owner /\ desc[u] = owner
      /\ t # u => ProcOf[t] # ProcOf[u]
      /\ t # u => owner \in given[ProcOf[t]] \cup given[ProcOf[u]]

\* The flag of a process is set exactly while one of its threads has to clear
\* it: it is neither leaked by a failed acquisition nor cleared for another
\* thread, and a process that is started again finds it clear.
FlagHasOwner ==
  /\ \A p \in Procs : held[p] => \E t \in Threads : ProcOf[t] = p /\ pc[t] \in Flagged
  /\ \A t \in Threads : pc[t] \in Flagged => held[ProcOf[t]]
  /\ \A t, u \in Threads :
       ProcOf[t] = ProcOf[u] /\ pc[t] \in Flagged /\ pc[u] \in Flagged => t = u

\* A process that acts under an inherited lease passes its descriptor on to
\* none of its own children by accident: a helper that outlives the command
\* cannot keep the desktop locked.
AdoptedIsSealed ==
  \A t \in Threads :
    desc[t] \in given[ProcOf[t]] => desc[t] \in sealed[ProcOf[t]]

\* Why leases are exclusive: descriptors outside of leases are of the locked
\* description only, and among the processes that have a description all but
\* one inherited it.
Has(p, d) == d \in Raw(p) \/ \E t \in Threads : ProcOf[t] = p /\ desc[t] = d

Family ==
  /\ \A p \in Procs : Raw(p) \subseteq {owner} \ {NoDesc}
  /\ \A t \in Threads : pc[t] \in {"locked", "leased"} => desc[t] = owner
  /\ owner # NoDesc => owner \in Open
  /\ \A p, q \in Procs : \A d \in Descs :
       Has(p, d) /\ Has(q, d) /\ p # q => d \in given[p] \cup given[q]
  /\ \A p \in Procs : sealed[p] \subseteq given[p]
  /\ \A p \in Procs \ alive :
       /\ ~ held[p] /\ Raw(p) = {} /\ sealed[p] = {} /\ env[p] = NoDesc
       /\ \A t \in Threads : ProcOf[t] = p => pc[t] = "idle"

Inv == TypeOK /\ FlagHasOwner /\ Family /\ AdoptedIsSealed /\ LeaseIsExclusive

\* A lease that was handed to a child is never lost on the way: from the start
\* of the child until it ends no other description gets the flock, whatever
\* the parent drops meanwhile and however often the child adopts it.
HandoverHasNoGap ==
  [][\A p \in Procs :
       p \in alive /\ p \in alive' /\ given[p] # {} => owner' = owner]_vars

\* An attempt ends: with a lease or at its deadline, even if some process
\* keeps the lock for ever; and a lease that was obtained is given back.
AttemptEnds == \A t \in Threads : pc[t] # "idle" ~> pc[t] = "idle"
=============================================================================
