-------------------------- MODULE SessionRecording --------------------------
(***************************************************************************)
(* A session that records with full artifacts: the maps of the snapshot    *)
(* store, their copies in the trace, and the end of the session, which     *)
(* discards the maps of which there are copies                             *)
(* (discard_duplicated_ref_scaffolding).                                   *)
(*                                                                         *)
(* A map is saved or drilled into under the lock of the store and copied   *)
(* afterwards, under the lock of the artifacts.  The end of the session    *)
(* takes neither.  Contents are versions: 1 when a map is saved, one more  *)
(* with each drill-down.                                                   *)
(***************************************************************************)
EXTENDS ArtifactBudget

\* Ids are numbered in the order of the saves; Maps and Contents bound how many
\* maps are saved and how often they are drilled into.
ASSUME RecordingAssumption ==
  /\ Maps \subseteq Nat \ {0} /\ \A d \in Maps : 1 .. d \subseteq Maps
  /\ 1 \in Contents

VARIABLES
  snap,     \* the version of each map in the store, 0 when there is none
  latest,   \* the id in latest_snapshot_id, 0 when there is none
  saved,    \* how many maps have been saved
  evicted,  \* the maps that made room for later ones
  writer,   \* who has the lock of the store
  ended,    \* whether the manifest says that the session has ended
  pc,       \* where each command is
  full,     \* whether each command copies maps: the manifest as it found it
  id,       \* the map each command works on, 0 for none
  version,  \* the version of it that the command has
  todo,     \* the directories an end has still to look at
  torn      \* whether an end died before it was done

storeVars == <<snap, latest, saved, evicted, writer>>
cmdVars == <<full, id, version, todo>>
vars == <<budgetVars, storeVars, cmdVars, ended, pc, torn>>

Goto(p, label) == pc' = [pc EXCEPT ![p] = label]

\* The end of a command.
Done(p) ==
  /\ Goto(p, "idle")
  /\ full' = [full EXCEPT ![p] = FALSE]
  /\ id' = [id EXCEPT ![p] = 0]
  /\ version' = [version EXCEPT ![p] = 0]
  /\ todo' = [todo EXCEPT ![p] = {}]

Kept == {d \in Maps : snap[d] # 0}

\* session_trace_state: whether to copy is decided once, as a command starts.
Start(p) ==
  /\ pc[p] = "idle"
  /\ full' = [full EXCEPT ![p] = ~ ended]
  /\ \E label \in {"saving", "drilling", "capturing", "ending"} : Goto(p, label)
  /\ UNCHANGED <<budgetVars, storeVars, id, version, todo, ended, torn>>

-----------------------------------------------------------------------------
(* Saving and drilling *)

\* save_snapshot_unlocked: a fresh id and its map.
Save(p) ==
  /\ pc[p] = "saving" /\ writer = NoOne /\ saved + 1 \in Maps
  /\ saved' = saved + 1
  /\ snap' = [snap EXCEPT ![saved + 1] = 1]
  /\ id' = [id EXCEPT ![p] = saved + 1]
  /\ version' = [version EXCEPT ![p] = 1]
  /\ writer' = p
  /\ Goto(p, "pointing")
  /\ UNCHANGED <<budgetVars, latest, evicted, full, todo, ended, torn>>

\* set_latest_unlocked, and the eviction of another map where the store is full.
Point(p) ==
  /\ pc[p] = "pointing"
  /\ latest' = id[p]
  /\ \/ UNCHANGED <<snap, evicted>>
     \/ \E d \in Kept \ {id[p]} :
          snap' = [snap EXCEPT ![d] = 0] /\ evicted' = evicted \cup {d}
  /\ writer' = NoOne
  /\ Goto(p, "copying")
  /\ UNCHANGED <<budgetVars, saved, cmdVars, ended, torn>>

\* update_existing_snapshot reads the map it is to change ...
ReadMap(p) ==
  /\ pc[p] = "drilling" /\ writer = NoOne
  /\ \E d \in Kept :
       /\ snap[d] + 1 \in Contents
       /\ id' = [id EXCEPT ![p] = d]
       /\ version' = [version EXCEPT ![p] = snap[d] + 1]
  /\ writer' = p
  /\ Goto(p, "rewriting")
  /\ UNCHANGED <<budgetVars, snap, latest, saved, evicted, full, todo, ended, torn>>

\* ... and writes it, in a directory that is created where it is missing.
Rewrite(p) ==
  /\ pc[p] = "rewriting"
  /\ snap' = [snap EXCEPT ![id[p]] = version[p]]
  /\ writer' = NoOne
  /\ Goto(p, "copying")
  /\ UNCHANGED <<budgetVars, latest, saved, evicted, cmdVars, ended, torn>>

\* The save or the drill-down fails, a drill-down before or after the rename
\* of the map, or there is nothing to drill into.
GiveUp(p) ==
  /\ pc[p] \in {"saving", "pointing", "drilling", "rewriting"}
  /\ \/ UNCHANGED snap
     \/ pc[p] = "rewriting" /\ snap' = [snap EXCEPT ![id[p]] = version[p]]
  /\ writer' = IF writer = p THEN NoOne ELSE writer
  /\ Done(p)
  /\ UNCHANGED <<budgetVars, latest, saved, evicted, ended, torn>>

\* copy_refmap_if_full.
CopyMap(p) ==
  /\ pc[p] = "copying"
  /\ IF full[p]
     THEN /\ \E s \in Sizes : BeginWrite(p, Copy(id[p], version[p], s))
          /\ Goto(p, "recording") /\ UNCHANGED cmdVars
     ELSE Done(p) /\ UNCHANGED <<at, want>>
  /\ UNCHANGED <<ledger, stored, litter, copies, holder, usage, faults, storeVars, ended, torn>>

\* capture_action_screenshot.
Capture(p) ==
  /\ pc[p] = "capturing"
  /\ IF full[p]
     THEN /\ \E s \in Sizes : BeginWrite(p, Shot(s))
          /\ Goto(p, "recording") /\ UNCHANGED cmdVars
     ELSE Done(p) /\ UNCHANGED <<at, want>>
  /\ UNCHANGED <<ledger, stored, litter, copies, holder, usage, faults, storeVars, ended, torn>>

Record(p) ==
  /\ pc[p] = "recording"
  /\ WriterStep(p)
  /\ IF at'[p] = "idle" THEN Done(p) ELSE UNCHANGED <<pc, cmdVars>>
  /\ UNCHANGED <<storeVars, ended, torn>>

-----------------------------------------------------------------------------
(* The end of the session *)

\* end_session reads the manifest; of a session that has ended nothing more is
\* discarded.
ReadEnd(p) ==
  /\ pc[p] = "ending"
  /\ IF ended THEN Done(p) ELSE Goto(p, "sealing") /\ UNCHANGED cmdVars
  /\ UNCHANGED <<budgetVars, storeVars, ended, torn>>

Seal(p) ==
  /\ pc[p] = "sealing"
  /\ ended' = TRUE
  /\ Goto(p, "listing")
  /\ UNCHANGED <<budgetVars, storeVars, cmdVars, torn>>

List(p) ==
  /\ pc[p] = "listing"
  /\ todo' = [todo EXCEPT ![p] = Kept]
  /\ Goto(p, "discarding")
  /\ UNCHANGED <<budgetVars, storeVars, full, id, version, ended, torn>>

\* A plausible mistake: full artifacts are taken for a proof of a copy.
DiscardAll(p) ==
  /\ pc[p] = "discarding"
  /\ \E d \in todo[p] :
       /\ todo' = [todo EXCEPT ![p] = @ \ {d}]
       /\ snap' = [snap EXCEPT ![d] = 0]
  /\ UNCHANGED <<budgetVars, latest, saved, evicted, writer, full, id, version, ended, pc, torn>>

\* A map goes when there is a copy of it, whatever the copy contains.  A
\* removal that fails leaves the map and is not reported.
Discard(p) ==
  /\ pc[p] = "discarding"
  /\ \E d \in todo[p] :
       /\ todo' = [todo EXCEPT ![p] = @ \ {d}]
       /\ \/ snap' = IF copies[d] # 0 THEN [snap EXCEPT ![d] = 0] ELSE snap
          \/ UNCHANGED snap
  /\ UNCHANGED <<budgetVars, latest, saved, evicted, writer, full, id, version, ended, pc, torn>>

\* A plausible mistake: a map that was discarded counts as there because there
\* is a copy of it.
TestPointerCopied(p) ==
  /\ pc[p] = "discarding" /\ todo[p] = {}
  /\ IF latest # 0 /\ snap[latest] = 0 /\ copies[latest] = 0
     THEN Goto(p, "unpointing") /\ UNCHANGED cmdVars
     ELSE Done(p)
  /\ UNCHANGED <<budgetVars, storeVars, ended, torn>>

TestPointer(p) ==
  /\ pc[p] = "discarding" /\ todo[p] = {}
  /\ IF latest # 0 /\ snap[latest] = 0
     THEN Goto(p, "unpointing") /\ UNCHANGED cmdVars
     ELSE Done(p)
  /\ UNCHANGED <<budgetVars, storeVars, ended, torn>>

\* The pointer goes, whatever it contains by now.
Unpoint(p) ==
  /\ pc[p] = "unpointing"
  /\ \/ latest' = 0 /\ UNCHANGED torn
     \/ torn' = TRUE /\ UNCHANGED latest
  /\ Done(p)
  /\ UNCHANGED <<budgetVars, snap, saved, evicted, writer, ended>>

-----------------------------------------------------------------------------

\* A command dies anywhere but in the middle of a recording, which
\* WriterDies covers; the kernel releases its locks.
Die(p) ==
  /\ pc[p] \notin {"idle", "recording"} /\ Fault
  /\ Done(p)
  /\ writer' = IF writer = p THEN NoOne ELSE writer
  /\ torn' = (torn \/ pc[p] \in {"listing", "discarding", "unpointing"})
  /\ UNCHANGED <<ledger, stored, litter, copies, holder, at, want, usage,
                 snap, latest, saved, evicted, ended>>

Init ==
  /\ BudgetInit
  /\ snap = [d \in Maps |-> 0] /\ latest = 0 /\ saved = 0 /\ evicted = {}
  /\ writer = NoOne
  /\ ended = FALSE /\ torn = FALSE
  /\ pc = [p \in Procs |-> "idle"]
  /\ full = [p \in Procs |-> FALSE]
  /\ id = [p \in Procs |-> 0]
  /\ version = [p \in Procs |-> 0]
  /\ todo = [p \in Procs |-> {}]

Next ==
  \E p \in Procs :
    \/ Start(p) \/ Save(p) \/ Point(p) \/ ReadMap(p) \/ Rewrite(p) \/ GiveUp(p)
    \/ CopyMap(p) \/ Capture(p) \/ Record(p)
    \/ ReadEnd(p) \/ Seal(p) \/ List(p) \/ Discard(p) \/ TestPointer(p) \/ Unpoint(p)
    \/ Die(p)

Spec == Init /\ [][Next]_vars

-----------------------------------------------------------------------------
(* Properties *)

TypeOK ==
  /\ BudgetTypeOK
  /\ snap \in [Maps -> Contents \cup {0}]
  /\ latest \in Maps \cup {0} /\ saved \in Maps \cup {0} /\ evicted \subseteq Maps
  /\ writer \in Procs \cup {NoOne}
  /\ ended \in BOOLEAN /\ torn \in BOOLEAN
  /\ pc \in [Procs -> {"idle", "saving", "pointing", "drilling", "rewriting", "copying",
                       "capturing", "recording", "ending", "sealing", "listing",
                       "discarding", "unpointing"}]
  /\ full \in [Procs -> BOOLEAN]
  /\ id \in [Procs -> Maps \cup {0}]
  /\ version \in [Procs -> Contents \cup {0}]
  /\ todo \in [Procs -> SUBSET Maps]

\* A snapshot of which there is no copy stays in the store, unless later ones took
\* its place (refs_store_prune.rs 39-43): a copy that the budget refused, that failed,
\* was rolled back or is still being written must not cost the map.  What the copy of
\* a map contains is another matter: see DiscardsOnlyDuplicates.
UncopiedIsKept ==
  \A d \in 1 .. saved : copies[d] = 0 => d \in Kept \/ d \in evicted

\* When the end of a session is through, `latest` does not name a map that it
\* has discarded, whoever saves or drills meanwhile.
EndLeavesNoDanglingPointer ==
  /\ ended /\ ~ torn
  /\ \A p \in Procs : pc[p] \notin {"listing", "discarding", "unpointing"}
  => latest = 0 \/ latest \in Kept

\* What a command that is under way works on: a map that was saved, a version
\* that exists; what it records it has at hand.
CommandsAgree ==
  \A p \in Procs :
    /\ id[p] \in 0 .. saved
    /\ pc[p] \in {"pointing", "rewriting", "copying"} => id[p] # 0 /\ version[p] \in Contents
    /\ pc[p] \in {"pointing", "rewriting"} => writer = p
    /\ pc[p] = "recording" <=> at[p] # "idle"
    /\ at[p] # "idle" /\ want[p].kind = "map" => want[p].map \in 1 .. saved

\* Nobody but its writer knows a map before the pointer names it, so no end of
\* the session can find a copy of it and discard it.
PointerFollowsMap ==
  \A p \in Procs :
    pc[p] = "pointing" =>
      /\ id[p] = saved
      /\ snap[saved] # 0 /\ copies[saved] = 0
      /\ \A q \in Procs : /\ q # p => id[q] # saved
                          /\ at[q] # "idle" /\ want[q].kind = "map" => want[q].map # saved

\* A pointer to a map that is gone is still to be looked at by an end, unless
\* that end died.
DanglingIsSeen ==
  \/ latest = 0 \/ latest \in Kept \/ torn
  \/ \E p \in Procs : pc[p] \in {"discarding", "unpointing"}

OnlySavedMaps == \A d \in Maps : snap[d] # 0 \/ copies[d] # 0 => d <= saved

\* Why no map goes without a copy and no pointer is left dangling.
RecordingInv ==
  /\ TypeOK /\ BudgetInv
  /\ OnlySavedMaps
  /\ CommandsAgree /\ PointerFollowsMap /\ DanglingIsSeen
  /\ UncopiedIsKept

\* refs_store_prune.rs (line 38): the end of a session "drops only the refmaps the
\* trace already holds a copy of".  The copy is of the map as it was first copied
\* (write_refmap_if_absent): of a map that was drilled into since it is none.
DiscardsOnlyDuplicates ==
  [][\A d \in Maps :
       snap[d] # 0 /\ snap'[d] = 0 /\ d \notin evicted' => copies[d] = snap[d]]_vars
=============================================================================
