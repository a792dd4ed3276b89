-------------------------- MODULE SessionLifecycle --------------------------
(***************************************************************************)
(* One session directory from `session start` to its collection:           *)
(* crates/core/src/session/mod.rs, liveness.rs and gc.rs.                  *)
(*                                                                         *)
(* A command that names a session first takes a liveness lease, a flock on *)
(* a file of its own, and keeps it until it ends.  The garbage collector   *)
(* removes a session of which no lease is held.  Both sides look at the    *)
(* leases under the flock refstore.lock.  That file is in the directory it *)
(* protects: the collector unlinks it too, in whatever order the directory *)
(* lists its files, and who opened it before waits for the old file while  *)
(* others create a new one.                                                *)
(***************************************************************************)
EXTENDS Naturals

CONSTANTS
  Procs,       \* processes that use the session
  MaxFiles,    \* bound: how often refstore.lock is created
  MaxFaults    \* bound: deaths and I/O errors

ASSUME SessionAssumption == MaxFiles \in Nat /\ MaxFaults \in Nat

VARIABLES
  started,    \* whether start_session has named the session
  manifest,   \* session.json: "none", "active" or "ended"
  tree,       \* whether the session directory exists
  rest,       \* whether it holds snapshots or trace segments
  recent,     \* they were written within TRACE_LIVENESS_WINDOW
  young,      \* the session was created within TRACE_LIVENESS_WINDOW
  lockFile,   \* the file refstore.lock is, 0 when there is none
  files,      \* how many such files there have been
  leases,     \* the processes that hold a liveness lease
  pc,         \* where each process is
  op,         \* what each process does
  seen,       \* the manifest as each process read it
  file,       \* the lock file each process has open, 0 for none
  locking,    \* the processes that have the flock of the file they opened
  split,      \* refstore.lock was unlinked before the manifest was
  faults      \* deaths and I/O errors so far

sessionVars == <<started, manifest, tree, rest, recent, young>>
lockVars == <<lockFile, files, file, locking>>
procVars == <<pc, op, seen>>
vars == <<sessionVars, lockVars, procVars, leases, split, faults>>

Operations == {"use", "overlay", "end"}
Collectors == {"gc", "gc_older"}

Goto(p, label) == pc' = [pc EXCEPT ![p] = label]

\* open_private_lock: the file at the path, or a new one in a directory that
\* is created where it is missing.
OpenLockFile(p) ==
  IF lockFile # 0
  THEN /\ file' = [file EXCEPT ![p] = lockFile]
       /\ UNCHANGED <<lockFile, files, tree>>
  ELSE /\ files < MaxFiles
       /\ files' = files + 1 /\ lockFile' = files + 1 /\ tree' = TRUE
       /\ file' = [file EXCEPT ![p] = files + 1]

Unlock(p) ==
  /\ file' = [file EXCEPT ![p] = 0]
  /\ locking' = locking \ {p}
  /\ UNCHANGED <<lockFile, files>>

-----------------------------------------------------------------------------
(* Starting a session *)

\* start_session: a fresh id, which nobody else uses, and its directories.
BeginStart(p) ==
  /\ ~ started /\ ~ tree /\ \A q \in Procs : op[q] = "none"
  /\ tree' = TRUE
  /\ op' = [op EXCEPT ![p] = "start"]
  /\ Goto(p, "starting")
  /\ UNCHANGED <<started, manifest, rest, recent, young, lockVars, seen, leases, split, faults>>

\* The manifest.  With --cursor the settings of the new session are changed
\* next, without a lease.
StartManifest(p) ==
  /\ pc[p] = "starting"
  /\ started' = TRUE /\ tree' = TRUE /\ manifest' = "active" /\ young' = TRUE
  /\ \E next \in {"ready", "leaving"} : Goto(p, next)
  /\ UNCHANGED <<rest, recent, lockVars, op, seen, leases, split, faults>>

-----------------------------------------------------------------------------
(* The liveness lease of a command *)

\* CommandContext::new.  The id is known once the start has printed it and
\* ended; before that it selects a namespace without a manifest.
Begin(p) ==
  /\ pc[p] = "idle" /\ \A q \in Procs : op[q] # "start"
  /\ \E o \in Operations : op' = [op EXCEPT ![p] = o]
  /\ Goto(p, "entering")
  /\ UNCHANGED <<sessionVars, lockVars, seen, leases, split, faults>>

\* A plausible mistake: session end takes no lease of its own.
EnterUnlessEnd(p) ==
  /\ pc[p] = "entering"
  /\ Goto(p, IF tree /\ op[p] # "end" THEN "opening" ELSE "ready")
  /\ UNCHANGED <<sessionVars, lockVars, op, seen, leases, split, faults>>

\* acquire tests for the directory before it opens the lock file.
Enter(p) ==
  /\ pc[p] = "entering"
  /\ Goto(p, IF tree THEN "opening" ELSE "ready")
  /\ UNCHANGED <<sessionVars, lockVars, op, seen, leases, split, faults>>

OpenLock(p) ==
  /\ pc[p] = "opening"
  /\ OpenLockFile(p)
  /\ Goto(p, "waiting")
  /\ UNCHANGED <<started, manifest, rest, recent, young, locking, op, seen, leases,
                 split, faults>>

Lock(p) ==
  /\ pc[p] = "waiting" /\ \A q \in locking : file[q] # file[p]
  /\ locking' = locking \cup {p}
  /\ Goto(p, IF op[p] \in Collectors THEN "vetting" ELSE "joining")
  /\ UNCHANGED <<sessionVars, lockFile, files, file, op, seen, leases, split, faults>>

LockTimeout(p) ==
  /\ pc[p] = "waiting"
  /\ Unlock(p)
  /\ Goto(p, "leaving")
  /\ UNCHANGED <<sessionVars, op, seen, leases, split, faults>>

\* A session without a manifest gets no lease, and the command goes on.
Join(p) ==
  /\ pc[p] = "joining"
  /\ leases' = IF manifest = "none" THEN leases ELSE leases \cup {p}
  /\ Unlock(p)
  /\ Goto(p, "ready")
  /\ UNCHANGED <<sessionVars, op, seen, split, faults>>

-----------------------------------------------------------------------------
(* Commands *)

\* Any command, when it writes to the trace or saves a snapshot.  That a save
\* also takes refstore.lock is RefStore's matter.
Use(p) ==
  /\ pc[p] = "ready" /\ op[p] = "use"
  /\ tree' = TRUE /\ rest' = TRUE /\ recent' = TRUE
  /\ UNCHANGED <<started, manifest, young, lockVars, procVars, leases, split, faults>>

\* set_cursor_overlay refuses a session that has ended.
ReadSettings(p) ==
  /\ pc[p] = "ready" /\ op[p] \in {"overlay", "start"}
  /\ seen' = [seen EXCEPT ![p] = manifest]
  /\ Goto(p, IF manifest = "active" THEN "rewriting" ELSE "leaving")
  /\ UNCHANGED <<sessionVars, lockVars, op, leases, split, faults>>

\* It writes back the manifest that it has read.
WriteSettings(p) ==
  /\ pc[p] = "rewriting"
  /\ tree' = TRUE /\ manifest' = seen[p]
  /\ Goto(p, "leaving")
  /\ UNCHANGED <<started, rest, recent, young, lockVars, op, seen, leases, split, faults>>

ReadEnd(p) ==
  /\ pc[p] = "ready" /\ op[p] = "end"
  /\ seen' = [seen EXCEPT ![p] = manifest]
  /\ Goto(p, IF manifest = "active" THEN "sealing" ELSE "leaving")
  /\ UNCHANGED <<sessionVars, lockVars, op, leases, split, faults>>

\* A session that records screenshots drops duplicated maps as well, which
\* counts as activity.
Seal(p) ==
  /\ pc[p] = "sealing"
  /\ tree' = TRUE /\ manifest' = "ended"
  /\ recent' \in {recent, rest}
  /\ Goto(p, "leaving")
  /\ UNCHANGED <<started, rest, young, lockVars, op, seen, leases, split, faults>>

\* The lease is dropped with the command.
Leave(p) ==
  /\ pc[p] = "leaving" \/ (pc[p] = "ready" /\ op[p] = "use")
  /\ leases' = leases \ {p}
  /\ op' = [op EXCEPT ![p] = "none"]
  /\ seen' = [seen EXCEPT ![p] = "none"]
  /\ Goto(p, "idle")
  /\ UNCHANGED <<sessionVars, lockVars, split, faults>>

-----------------------------------------------------------------------------
(* The garbage collector *)

\* has_recent_activity
Active(m) == recent \/ (young /\ m = "active")

\* A collector that probes a lock has it for a moment.
ProbedBy(q) == pc[q] \in {"probing", "vetting"}

BeginGc(p) ==
  /\ pc[p] = "idle"
  /\ \E o \in Collectors : op' = [op EXCEPT ![p] = o]
  /\ Goto(p, "listing")
  /\ UNCHANGED <<sessionVars, lockVars, seen, leases, split, faults>>

List(p) ==
  /\ pc[p] = "listing"
  /\ seen' = [seen EXCEPT ![p] = manifest]
  /\ Goto(p, IF manifest = "none" THEN "leaving" ELSE "probing")
  /\ UNCHANGED <<sessionVars, lockVars, op, leases, split, faults>>

\* A plausible mistake: a lock file that exists is taken for one that is held.
LiveByLockFile == leases # {} \/ Active(manifest) \/ lockFile # 0

\* is_live, then the filters: without --older-than only what has ended.
Live == leases # {} \/ Active(manifest) \/ (lockFile # 0 /\ \E q \in locking : file[q] = lockFile)
Wanted(p) == seen[p] = "ended" \/ op[p] = "gc_older"

Probe(p) ==
  /\ pc[p] = "probing"
  /\ \/ ~ Live /\ Wanted(p) /\ Goto(p, "opening")
     \/ /\ Live \/ seen[p] # "ended" \/ op[p] = "gc_older" \/ \E q \in Procs \ {p} : ProbedBy(q)
        /\ Goto(p, "leaving")
  /\ UNCHANGED <<sessionVars, lockVars, op, seen, leases, split, faults>>

\* A plausible mistake: the leases are not looked at again under the lock.
VetActivityOnly(p) ==
  /\ pc[p] = "vetting"
  /\ \/ /\ ~ Active(seen[p])
        /\ Goto(p, "removing")
        /\ UNCHANGED lockVars
     \/ Active(seen[p]) /\ Goto(p, "leaving") /\ Unlock(p)
  /\ UNCHANGED <<sessionVars, op, seen, leases, split, faults>>

\* A plausible mistake: an early return on which the lock is kept.
VetKeepsLock(p) ==
  /\ pc[p] = "vetting"
  /\ \/ leases = {} /\ ~ Active(seen[p]) /\ Goto(p, "removing")
     \/ (leases # {} \/ Active(seen[p])) /\ Goto(p, "leaving")
  /\ UNCHANGED <<sessionVars, lockVars, op, seen, leases, split, faults>>

\* Under the lock, the leases and the activity once more, with the manifest
\* that was listed.
Vet(p) ==
  /\ pc[p] = "vetting"
  /\ \/ /\ leases = {} /\ ~ Active(seen[p])
        /\ Goto(p, "removing")
        /\ UNCHANGED lockVars
     \/ /\ leases # {} \/ Active(seen[p]) \/ \E q \in Procs \ {p} : ProbedBy(q)
        /\ Goto(p, "leaving") /\ Unlock(p)
  /\ UNCHANGED <<sessionVars, op, seen, leases, split, faults>>

\* remove_session_dir, one entry of the directory after the other.
RemoveManifest(p) ==
  /\ pc[p] = "removing" /\ manifest # "none"
  /\ manifest' = "none"
  /\ UNCHANGED <<started, tree, rest, recent, young, lockVars, procVars, leases, split, faults>>

RemoveLockFile(p) ==
  /\ pc[p] = "removing" /\ lockFile # 0
  /\ lockFile' = 0
  /\ split' = (split \/ manifest # "none")
  /\ UNCHANGED <<sessionVars, files, file, locking, procVars, leases, faults>>

RemoveRest(p) ==
  /\ pc[p] = "removing" /\ rest
  /\ rest' = FALSE /\ recent' = FALSE
  /\ UNCHANGED <<started, manifest, tree, young, lockVars, procVars, leases, split, faults>>

RemoveTree(p) ==
  /\ pc[p] = "removing" /\ manifest = "none" /\ lockFile = 0 /\ ~ rest
  /\ tree' = FALSE
  /\ Unlock(p)
  /\ Goto(p, "leaving")
  /\ UNCHANGED <<started, manifest, rest, recent, young, op, seen, leases, split, faults>>

\* An entry that cannot be removed, or that appeared meanwhile.
RemoveFails(p) ==
  /\ pc[p] = "removing" /\ faults < MaxFaults
  /\ faults' = faults + 1
  /\ Unlock(p)
  /\ Goto(p, "leaving")
  /\ UNCHANGED <<sessionVars, op, seen, leases, split>>

-----------------------------------------------------------------------------
(* Deaths and time *)

\* The kernel releases every flock of a process that dies.
Die(p) ==
  /\ pc[p] # "idle" /\ faults < MaxFaults
  /\ faults' = faults + 1
  /\ Unlock(p)
  /\ leases' = leases \ {p}
  /\ op' = [op EXCEPT ![p] = "none"]
  /\ seen' = [seen EXCEPT ![p] = "none"]
  /\ Goto(p, "idle")
  /\ UNCHANGED <<sessionVars, split>>

\* TRACE_LIVENESS_WINDOW (300 s) passes; it is taken to be longer than a start.
Age ==
  /\ recent \/ young
  /\ \A p \in Procs : op[p] # "start"
  /\ recent' = FALSE /\ young' = FALSE
  /\ UNCHANGED <<started, manifest, tree, rest, lockVars, procVars, leases, split, faults>>

Init ==
  /\ started = FALSE /\ manifest = "none" /\ tree = FALSE
  /\ rest = FALSE /\ recent = FALSE /\ young = FALSE
  /\ lockFile = 0 /\ files = 0
  /\ leases = {}
  /\ pc = [p \in Procs |-> "idle"]
  /\ op = [p \in Procs |-> "none"]
  /\ seen = [p \in Procs |-> "none"]
  /\ file = [p \in Procs |-> 0]
  /\ locking = {}
  /\ split = FALSE
  /\ faults = 0

Command(p) ==
  \/ StartManifest(p) \/ Enter(p) \/ OpenLock(p) \/ Lock(p) \/ LockTimeout(p) \/ Join(p)
  \/ ReadSettings(p) \/ WriteSettings(p) \/ ReadEnd(p) \/ Seal(p) \/ Leave(p)

Collect(p) ==
  \/ List(p) \/ Probe(p) \/ Vet(p)
  \/ RemoveManifest(p) \/ RemoveLockFile(p) \/ RemoveRest(p) \/ RemoveTree(p) \/ RemoveFails(p)

Next ==
  \/ \E p \in Procs :
       BeginStart(p) \/ Begin(p) \/ BeginGc(p) \/ Use(p) \/ Command(p) \/ Collect(p) \/ Die(p)
  \/ Age

Spec == Init /\ [][Next]_vars

\* Processes run, and a collector that is run again and again is not each time
\* suspended for the two seconds it has for a lock that is free.
FairSpec ==
  Spec /\ \A p \in Procs :
            WF_vars(Command(p) \/ Collect(p)) /\ SF_vars(op[p] = "gc" /\ Lock(p))
-----------------------------------------------------------------------------
(* Properties *)

Manifests == {"none", "active", "ended"}
Locked == {"joining", "vetting", "removing"}

\* Every variable stays in its domain; a lock is held, and a lease kept, only
\* on the way to where it is given back.
TypeOK ==
  /\ started \in BOOLEAN /\ tree \in BOOLEAN /\ rest \in BOOLEAN
  /\ recent \in BOOLEAN /\ young \in BOOLEAN /\ split \in BOOLEAN
  /\ manifest \in Manifests
  /\ files \in 0 .. MaxFiles /\ lockFile \in 0 .. files
  /\ faults \in 0 .. MaxFaults
  /\ op \in [Procs -> {"none", "start"} \cup Operations \cup Collectors]
  /\ seen \in [Procs -> Manifests]
  /\ pc \in [Procs -> {"idle", "starting", "entering", "opening", "waiting", "ready",
                       "rewriting", "sealing", "leaving", "listing", "probing"} \cup Locked]
  /\ file \in [Procs -> 0 .. files]
  /\ locking = {p \in Procs : pc[p] \in Locked}
  /\ leases \subseteq {p \in Procs : pc[p] \in {"ready", "rewriting", "sealing", "leaving"}}

\* skills/agent-desktop/references/commands-system.md (line 545): the collector
\* never reaps a session with a live lock holder.
NeverReapsLive == (\E p \in Procs : pc[p] = "removing") => leases = {}

\* As long as refstore.lock is not unlinked before the manifest, a session is
\* never removed while a command holds a lease of it, and none obtains one
\* while it is removed: both sides decide under one lock.
InUseIsKept == split \/ NeverReapsLive

\* Nor does a session that was removed come back: who writes a manifest it has
\* read before has a lease, or started the session a moment ago.
RemovedStaysRemoved ==
  [][started /\ manifest = "none" /\ ~ split => manifest' = "none"]_vars

\* session_tests.rs, end_seals_the_explicit_manifest, and
\* commands-system.md (line 531): session end seals the manifest.
EndedStaysEnded == [][manifest = "ended" => manifest' # "active"]_vars

\* session_gc_tests.rs, gc_retains_idle_cross_process_owner_and_reaps_after_crash:
\* nothing that commands leave behind, dead or not, keeps a session for ever
\* that has ended and that nobody uses, if the collector is run again and again.
Abandoned(p) ==
  manifest = "ended" /\ ~ recent /\ \A q \in Procs \ {p} : pc[q] = "idle"

AbandonedIsCollected ==
  \A p \in Procs : []<>(pc[p] = "listing" /\ op[p] = "gc") => []<>~ Abandoned(p)
-----------------------------------------------------------------------------
(* What makes InUseIsKept and RemovedStaysRemoved inductive *)

\* A process has a file open while it waits for its lock or has it, and one
\* process has the lock of a file.
FilesInv == \A p \in Procs : file[p] # 0 <=> pc[p] \in Locked \cup {"waiting"}
MutexInv == \A p, q \in locking : p # q => file[p] # file[q]

\* What each kind of process may be doing; a lease belongs to a command.
OpsInv == \A p \in Procs :
  /\ op[p] = "none" <=> pc[p] = "idle"
  /\ op[p] \in Collectors =>
       pc[p] \in {"listing", "probing", "opening", "waiting", "vetting", "removing", "leaving"}
  /\ op[p] = "start" => pc[p] \in {"starting", "ready", "rewriting", "leaving"}
  /\ op[p] \in Operations =>
       pc[p] \in {"entering", "opening", "waiting", "joining", "ready", "rewriting", "sealing", "leaving"}
  /\ pc[p] = "rewriting" => seen[p] = "active"
  /\ p \in leases => op[p] \in Operations

\* No command runs beside a start, and no collector that has listed the session
\* finds it inactive.
StartInv == \A p \in Procs : op[p] = "start" =>
  /\ \A q \in Procs \ {p} : op[q] \in {"none"} \cup Collectors
  /\ pc[p] = "starting" =>
       /\ ~ started /\ manifest = "none"
       /\ \A q \in Procs \ {p} : pc[q] \in {"idle", "listing", "leaving"}
  /\ pc[p] # "starting" =>
       /\ young /\ manifest = "active"
       /\ \A q \in Procs \ {p} :
            /\ pc[q] # "removing"
            /\ pc[q] \in {"probing", "opening", "waiting", "vetting"} => seen[q] = "active"

\* Only a directory has a manifest.
TreeInv == ~ tree => manifest = "none"

\* Who waits for the lock of a session with a manifest waits for the lock that
\* the others have, so leases and removals exclude each other; who may write
\* the manifest has a lease or has just started the session.
WholeInv == ~ split =>
  /\ manifest # "none" => \A p \in Procs : file[p] \in {0, lockFile}
  /\ leases # {} => manifest # "none"
  /\ NeverReapsLive
  /\ \A p \in Procs :
       /\ op[p] \in Operations /\ pc[p] = "ready" /\ p \notin leases => manifest = "none"
       /\ pc[p] \in {"rewriting", "sealing"} => p \in leases \/ op[p] = "start"

Inv == TypeOK /\ FilesInv /\ MutexInv /\ OpsInv /\ StartInv /\ TreeInv /\ WholeInv
=============================================================================
