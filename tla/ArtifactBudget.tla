--------------------------- MODULE ArtifactBudget ---------------------------
(***************************************************************************)
(* The artifacts of one recorded session and the ledger that bounds them:  *)
(* crates/core/src/trace_artifact_budget.rs.                               *)
(*                                                                         *)
(* A writer takes the lock of the trace directory, reads the ledger,       *)
(* reserves room in it, writes the artifact and keeps the reservation      *)
(* unless the artifact is known not to be there.  A ledger that cannot be  *)
(* read is rebuilt from the directory, which counts the temporary files of *)
(* interrupted writes as well.                                             *)
(***************************************************************************)
EXTENDS Naturals

CONSTANTS
  Procs,       \* processes that record
  NoOne,       \* stands for no process and for no map
  NoLedger,    \* stands for a missing or unreadable ledger
  Maps,        \* ids of snapshots, the names of refmap copies
  Contents,    \* what a refmap copy may contain
  Sizes,       \* sizes of artifacts
  MaxSize,     \* the largest of them
  ShotBytes,   \* SCREENSHOT_BYTE_BUDGET
  ShotCount,   \* SCREENSHOT_COUNT_BUDGET
  MapBytes,    \* REFMAP_BYTE_BUDGET
  MaxFaults    \* bound: deaths and I/O errors

ASSUME BudgetAssumption ==
  /\ NoOne \notin Procs /\ NoOne \notin Maps
  /\ NoLedger \notin [shots : Nat, count : Nat, maps : Nat]
  /\ MaxSize \in Nat /\ Sizes \subseteq 1 .. MaxSize
  /\ Contents \subseteq Nat \ {0}
  /\ ShotBytes \in Nat /\ ShotCount \in Nat /\ MapBytes \in Nat /\ MaxFaults \in Nat

VARIABLES
  ledger,    \* .artifact-usage.json, NoLedger when there is none
  stored,    \* what the artifacts in screens/ and refmaps/ add up to
  litter,    \* what the temporary files there add up to
  copies,    \* the content of refmaps/<id>.json, 0 when there is none
  holder,    \* who has .artifact-budget.lock
  at,        \* where each writer is
  want,      \* what each writer writes
  usage,     \* the usage each writer started from
  faults     \* deaths and I/O errors so far

budgetVars == <<ledger, stored, litter, copies, holder, at, want, usage, faults>>

Usage == [shots : Nat, count : Nat, maps : Nat]
NoUsage == [shots |-> 0, count |-> 0, maps |-> 0]

Shot(s) == [kind |-> "shot", map |-> NoOne, content |-> 0, size |-> s]
Copy(d, c, s) == [kind |-> "map", map |-> d, content |-> c, size |-> s]
Artifacts == [kind : {"shot", "map"}, map : Maps \cup {NoOne}, content : Contents \cup {0},
              size : Sizes]
NoArtifact == [kind |-> "none", map |-> NoOne, content |-> 0, size |-> 0]

\* A usage with artifact a counted in.
Plus(u, a) ==
  IF a.kind = "shot"
  THEN [u EXCEPT !.shots = @ + a.size, !.count = @ + 1]
  ELSE [u EXCEPT !.maps = @ + a.size]

\* The usage of a directory with these artifacts and these temporary files.
Scan == [shots |-> stored.shots + litter.shots, count |-> stored.count + litter.count,
         maps |-> stored.maps + litter.maps]

\* The budget checks of write_screenshot and write_refmap_if_absent.
Fits(u, a) ==
  IF a.kind = "shot"
  THEN u.count < ShotCount /\ u.shots + a.size <= ShotBytes
  ELSE u.maps + a.size <= MapBytes

GotoAt(p, label) == at' = [at EXCEPT ![p] = label]

\* The end of a writer, which drops the lock: stored, skipped or failed alike.
Finish(p) ==
  /\ GotoAt(p, "idle")
  /\ want' = [want EXCEPT ![p] = NoArtifact]
  /\ usage' = [usage EXCEPT ![p] = NoUsage]
  /\ holder' = NoOne

Fault == faults < MaxFaults /\ faults' = faults + 1

-----------------------------------------------------------------------------
(* A writer *)

\* capture_action_screenshot and copy_refmap_if_full, up to the lock.
BeginWrite(p, a) ==
  /\ at[p] = "idle"
  /\ GotoAt(p, "locking")
  /\ want' = [want EXCEPT ![p] = a]

LockBudget(p) ==
  /\ at[p] = "locking" /\ holder = NoOne
  /\ holder' = p
  /\ GotoAt(p, "loading")
  /\ UNCHANGED <<ledger, stored, litter, copies, want, usage, faults>>

\* lock_failed: another writer has the lock for as long as this one waits, or
\* the lock file cannot be opened.
LockBudgetFails(p) ==
  /\ at[p] = "locking"
  /\ GotoAt(p, "idle")
  /\ want' = [want EXCEPT ![p] = NoArtifact]
  /\ UNCHANGED <<ledger, stored, litter, copies, holder, usage, faults>>

\* A map that was copied before is not copied again, whatever it contains.
SkipCopied(p) ==
  /\ at[p] = "loading" /\ want[p].kind = "map" /\ copies[want[p].map] # 0
  /\ Finish(p)
  /\ UNCHANGED <<ledger, stored, litter, copies, faults>>

Loading(p) ==
  /\ at[p] = "loading"
  /\ want[p].kind = "map" => copies[want[p].map] = 0

LoadUsage(p) ==
  /\ Loading(p) /\ ledger # NoLedger
  /\ usage' = [usage EXCEPT ![p] = ledger]
  /\ GotoAt(p, "reserving")
  /\ UNCHANGED <<ledger, stored, litter, copies, holder, want, faults>>

\* The ledger is missing, or an error keeps it from being read.
RebuildUsage(p) ==
  /\ Loading(p)
  /\ IF ledger = NoLedger THEN UNCHANGED faults ELSE Fault
  /\ usage' = [usage EXCEPT ![p] = Scan]
  /\ ledger' = Scan
  /\ GotoAt(p, "reserving")
  /\ UNCHANGED <<stored, litter, copies, holder, want>>

\* scan_failed, or ledger_failed before or after the rename of the ledger.
RebuildFails(p) ==
  /\ Loading(p) /\ Fault
  /\ ledger' \in {ledger, Scan}
  /\ Finish(p)
  /\ UNCHANGED <<stored, litter, copies>>

Refuse(p) ==
  /\ at[p] = "reserving" /\ ~ Fits(usage[p], want[p])
  /\ Finish(p)
  /\ UNCHANGED <<ledger, stored, litter, copies, faults>>

\* A plausible mistake: the room is reserved before it is looked for.
ReserveFirst(p) ==
  /\ at[p] = "reserving"
  /\ ledger' = Plus(usage[p], want[p])
  /\ IF Fits(usage[p], want[p])
     THEN GotoAt(p, "writing") /\ UNCHANGED <<holder, want, usage>>
     ELSE Finish(p)
  /\ UNCHANGED <<stored, litter, copies, faults>>

Reserve(p) ==
  /\ at[p] = "reserving" /\ Fits(usage[p], want[p])
  /\ ledger' = Plus(usage[p], want[p])
  /\ GotoAt(p, "writing")
  /\ UNCHANGED <<stored, litter, copies, holder, want, usage, faults>>

ReserveFails(p) ==
  /\ at[p] = "reserving" /\ Fits(usage[p], want[p]) /\ Fault
  /\ ledger' \in {ledger, Plus(usage[p], want[p])}
  /\ Finish(p)
  /\ UNCHANGED <<stored, litter, copies>>

\* The artifact p writes is in place.
Appear(p) ==
  /\ stored' = Plus(stored, want[p])
  /\ copies' = IF want[p].kind = "map"
               THEN [copies EXCEPT ![want[p].map] = want[p].content] ELSE copies

\* What p wrote so far stays as a temporary file, or nothing of it does.
Interrupted(p) ==
  /\ litter' \in {litter, Plus(litter, want[p])}
  /\ UNCHANGED <<stored, copies>>

Write(p) ==
  /\ at[p] = "writing"
  /\ Appear(p) /\ Finish(p)
  /\ UNCHANGED <<ledger, litter, faults>>

\* A plausible mistake: the reservation is given back although the artifact
\* may be there.
WriteFailsBlindly(p) ==
  /\ at[p] = "writing" /\ Fault
  /\ \/ Appear(p) /\ UNCHANGED litter
     \/ Interrupted(p)
  /\ GotoAt(p, "undoing")
  /\ UNCHANGED <<ledger, holder, want, usage>>

\* write_failed: after the rename the artifact is there and so is the
\* reservation; before it the reservation is rolled back.
WriteFails(p) ==
  /\ at[p] = "writing" /\ Fault
  /\ \/ Appear(p) /\ Finish(p) /\ UNCHANGED litter
     \/ Interrupted(p) /\ GotoAt(p, "undoing") /\ UNCHANGED <<holder, want, usage>>
  /\ UNCHANGED ledger

Undo(p) ==
  /\ at[p] = "undoing"
  /\ ledger' = usage[p]
  /\ Finish(p)
  /\ UNCHANGED <<stored, litter, copies, faults>>

UndoFails(p) ==
  /\ at[p] = "undoing" /\ Fault
  /\ ledger' \in {ledger, usage[p]}
  /\ Finish(p)
  /\ UNCHANGED <<stored, litter, copies>>

\* The kernel releases the lock of a process that dies.
WriterDies(p) ==
  /\ at[p] # "idle" /\ Fault
  /\ GotoAt(p, "idle")
  /\ want' = [want EXCEPT ![p] = NoArtifact]
  /\ usage' = [usage EXCEPT ![p] = NoUsage]
  /\ holder' = IF holder = p THEN NoOne ELSE holder
  /\ IF at[p] = "writing" THEN Interrupted(p) ELSE UNCHANGED <<stored, litter, copies>>
  /\ UNCHANGED ledger

BudgetInit ==
  /\ ledger = NoLedger /\ stored = NoUsage /\ litter = NoUsage
  /\ copies = [d \in Maps |-> 0]
  /\ holder = NoOne
  /\ at = [p \in Procs |-> "idle"]
  /\ want = [p \in Procs |-> NoArtifact]
  /\ usage = [p \in Procs |-> NoUsage]
  /\ faults = 0

WriterStep(p) ==
  \/ LockBudget(p) \/ LockBudgetFails(p) \/ SkipCopied(p)
  \/ LoadUsage(p) \/ RebuildUsage(p) \/ RebuildFails(p)
  \/ Refuse(p) \/ Reserve(p) \/ ReserveFails(p)
  \/ Write(p) \/ WriteFails(p) \/ Undo(p) \/ UndoFails(p) \/ WriterDies(p)

BudgetNext ==
  \E p \in Procs :
    \/ WriterStep(p)
    \/ \E a \in Artifacts :
         /\ a.kind = "map" <=> a.map # NoOne
         /\ a.kind = "map" <=> a.content # 0
         /\ BeginWrite(p, a)
         /\ UNCHANGED <<ledger, stored, litter, copies, holder, usage, faults>>

BudgetSpec == BudgetInit /\ [][BudgetNext]_budgetVars

-----------------------------------------------------------------------------
(* Properties *)

BudgetTypeOK ==
  /\ ledger \in Usage \cup {NoLedger}
  /\ stored \in Usage /\ litter \in Usage
  /\ copies \in [Maps -> Contents \cup {0}]
  /\ holder \in Procs \cup {NoOne}
  /\ at \in [Procs -> {"idle", "locking", "loading", "reserving", "writing", "undoing"}]
  /\ want \in [Procs -> Artifacts \cup {NoArtifact}]
  /\ usage \in [Procs -> Usage]
  /\ faults \in 0 .. MaxFaults

\* The budget is a limit on what is stored, whatever fails or dies: a file
\* appears whole and once, and never beyond the budget, although the ledger
\* and the files are written one after the other.
Quota == INSTANCE ArtifactQuota
ImplementsQuota == Quota!Spec

\* What one of a pair of amounts exceeds the other by is at most n.
AtMostOver(u, v, n) ==
  /\ u.shots <= v.shots + n * MaxSize
  /\ u.count <= v.count + n
  /\ u.maps <= v.maps + n * MaxSize

\* Room in the ledger is lost to nothing but a death or an error, and at most
\* one artifact's worth to each of them.
RoomLostToFaultsOnly ==
  ledger # NoLedger /\ holder = NoOne => AtMostOver(ledger, stored, faults)

\* A usage that accounts for what is stored, and for little more.
Accounts(u, v, n) ==
  /\ v.shots <= u.shots /\ v.count <= u.count /\ v.maps <= u.maps
  /\ AtMostOver(u, v, n)

\* One writer at a time works on the ledger and the files.
OneWriter == \A p \in Procs : at[p] \notin {"idle", "locking"} <=> holder = p

WantsArtifact(p) ==
  at[p] # "idle" =>
    /\ want[p] \in Artifacts
    /\ want[p].kind = "map" => want[p].map \in Maps /\ want[p].content # 0

\* What the writer that has the lock knows: its artifact is not there yet, and
\* the ledger is what it read, or that and its reservation.
WriterKnows(p) ==
  at[p] \in {"reserving", "writing", "undoing"} =>
    /\ ledger # NoLedger /\ Accounts(usage[p], stored, faults)
    /\ want[p].kind = "map" => copies[want[p].map] = 0
    /\ IF at[p] = "reserving"
       THEN ledger = usage[p]
       ELSE Fits(usage[p], want[p]) /\ ledger = Plus(usage[p], want[p])

LedgerAccounts ==
  ledger # NoLedger /\ (\A p \in Procs : at[p] \notin {"writing", "undoing"}) =>
    Accounts(ledger, stored, faults)

\* Why the budget holds: what dies or fails leaves one artifact each in the
\* ledger or in a temporary file.
BudgetInv ==
  /\ BudgetTypeOK
  /\ OneWriter
  /\ \A p \in Procs : WantsArtifact(p) /\ WriterKnows(p)
  /\ AtMostOver(litter, NoUsage, faults)
  /\ LedgerAccounts
=============================================================================
