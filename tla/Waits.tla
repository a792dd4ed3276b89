------------------------------- MODULE Waits -------------------------------
(***************************************************************************)
(* The waits of core: commands/wait.rs, wait_element.rs, wait_selector.rs  *)
(* and ref_resolve_deadline.rs.                                            *)
(*                                                                         *)
(* One wait polls a desktop that changes between its reads until what it   *)
(* waits for is there or its deadline has passed.  What it found is saved  *)
(* as a snapshot that other commands use; they take snapshots, too.        *)
(***************************************************************************)
EXTENDS Naturals, Sequences, FiniteSets

CONSTANTS
  MaxMatches,   \* bound: elements that match at the same time
  MaxNotes,     \* bound: notifications, numbered as they arrive
  MaxSnapshots  \* bound: snapshots of this wait and of others

VARIABLES
  mode,       \* what is waited for
  wanted,     \* the count of a wait for a count
  phase,      \* where the wait is
  overdue,    \* whether its deadline has passed
  result,     \* "none", "found", "absent", "timeout" or "error"
  matching,   \* how many elements on the desktop match
  running,    \* whether the application runs
  notes,      \* the notifications that are shown
  arrived,    \* how many have come so far
  baseline,   \* the notifications at the first list, NoList before it
  tree,       \* the tree the wait has built last, NoTree for none
  evidence,   \* what was there when the wait last looked
  snapshots,  \* the snapshots of the store
  latest,     \* the latest of them
  mine        \* the snapshot in the answer of the wait, 0 for none

deskVars == <<matching, running, notes, arrived>>
storeVars == <<snapshots, latest, mine>>
vars == <<mode, wanted, phase, overdue, result, deskVars, baseline, tree, evidence, storeVars>>

Modes == {"selector", "gone", "text", "count", "element", "window", "notification"}

NoTree == [matches |-> 0, complete |-> FALSE, built |-> FALSE]
NoList == [notes |-> {}, listed |-> FALSE]
Nothing == [matches |-> 0, late |-> FALSE, looked |-> FALSE]

\* snapshot::build: a tree that is not complete may miss matches.
Buildable ==
  {[matches |-> matching, complete |-> TRUE, built |-> TRUE]} \cup
  {[matches |-> m, complete |-> FALSE, built |-> TRUE] : m \in 0 .. matching}

Present == IF running THEN matching ELSE 0
Look == evidence' = [matches |-> Present, late |-> overdue, looked |-> TRUE]

End(r) == phase' = "done" /\ result' = r
Sleep == phase' = "polling" /\ UNCHANGED result

\* The loop goes to sleep, or ends where its deadline has passed.
SleepOrTimeOut == IF overdue THEN End("timeout") ELSE Sleep

-----------------------------------------------------------------------------
(* The desktop, other commands, and the clock *)

\* What the wait does not look at is left alone.
DesktopChanges ==
  /\ phase \notin {"new", "done"}
  /\ IF mode = "notification"
     THEN /\ \/ arrived < MaxNotes /\ arrived' = arrived + 1 /\ notes' = notes \cup {arrived + 1}
             \/ \E n \in notes : notes' = notes \ {n} /\ UNCHANGED arrived
          /\ UNCHANGED <<matching, running>>
     ELSE /\ \/ running /\ matching' \in 0 .. MaxMatches /\ UNCHANGED running
             \/ running' = ~ running /\ matching' = 0
          /\ UNCHANGED <<notes, arrived>>
  /\ UNCHANGED <<mode, wanted, phase, overdue, result, baseline, tree, evidence, storeVars>>

Save(matches) ==
  /\ Len(snapshots) < MaxSnapshots
  /\ snapshots' = Append(snapshots, matches)

OtherSnapshot ==
  /\ phase \notin {"new", "done"} /\ mode \in {"selector", "text", "count"}
  /\ Len(snapshots) + 1 < MaxSnapshots
  /\ Save(0) /\ latest' = Len(snapshots) + 1 /\ UNCHANGED mine
  /\ UNCHANGED <<mode, wanted, phase, overdue, result, deskVars, baseline, tree, evidence>>

DeadlinePasses ==
  /\ phase \notin {"new", "done"} /\ ~ overdue
  /\ overdue' = TRUE
  /\ UNCHANGED <<mode, wanted, phase, result, deskVars, baseline, tree, evidence, storeVars>>

-----------------------------------------------------------------------------

Begin ==
  /\ phase = "new"
  /\ mode' \in Modes /\ wanted' \in 0 .. MaxMatches
  /\ matching' \in 0 .. MaxMatches /\ running' = TRUE
  /\ phase' = "polling"
  /\ UNCHANGED <<overdue, result, notes, arrived, baseline, tree, evidence, storeVars>>

(* A wait for a selector, or until it is gone *)

\* observe_selector: an observation that is not complete says nothing.
Observe ==
  /\ phase = "polling" /\ mode \in {"selector", "gone"}
  /\ Look
  /\ \/ CASE mode = "gone" /\ Present = 0 -> End("absent")
          [] mode = "selector" /\ Present > 0 -> phase' = "building" /\ UNCHANGED result
          [] OTHER -> phase' = "sleeping" /\ UNCHANGED result
     \/ phase' = "sleeping" /\ UNCHANGED result
     \/ overdue /\ phase' = "expiring" /\ UNCHANGED result
     \/ End("error")
  /\ UNCHANGED <<mode, wanted, overdue, deskVars, baseline, tree, storeVars>>

\* A plausible mistake: what was observed is taken for what is in the tree.
MaterializeUnread ==
  /\ phase = "building"
  /\ \/ running /\ tree' \in Buildable /\ phase' = "saving" /\ UNCHANGED result
     \/ phase' = (IF overdue THEN "expiring" ELSE "sleeping") /\ UNCHANGED <<tree, result>>
     \/ End("error") /\ UNCHANGED tree
  /\ UNCHANGED <<mode, wanted, overdue, deskVars, baseline, evidence, storeVars>>

\* build_materialization: the match is looked for once more, in the tree.
Materialize ==
  /\ phase = "building"
  /\ \/ /\ running /\ tree' \in Buildable
        /\ phase' = (IF tree'.matches > 0 THEN "saving" ELSE "sleeping") /\ UNCHANGED result
     \/ phase' = (IF overdue THEN "expiring" ELSE "sleeping") /\ UNCHANGED <<tree, result>>
     \/ End("error") /\ UNCHANGED tree
  /\ UNCHANGED <<mode, wanted, overdue, deskVars, baseline, evidence, storeVars>>

\* A plausible mistake: only what was observed ends the wait, not its deadline.
SelectorSleepsOn ==
  /\ phase = "sleeping" /\ mode \in {"selector", "gone"}
  /\ \/ phase' = "polling" /\ UNCHANGED tree
     \/ ~ overdue /\ ~ tree.built /\ running /\ tree' \in Buildable /\ phase' = "polling"
  /\ UNCHANGED <<mode, wanted, overdue, result, deskVars, baseline, evidence, storeVars>>

\* Shortly before the deadline a tree is built for the report of the time-out.
SelectorSleeps ==
  /\ phase = "sleeping" /\ mode \in {"selector", "gone"}
  /\ \/ overdue /\ phase' = "expiring" /\ UNCHANGED tree
     \/ ~ overdue /\ phase' = "polling" /\ UNCHANGED tree
     \/ ~ overdue /\ ~ tree.built /\ running /\ tree' \in Buildable /\ phase' = "polling"
  /\ UNCHANGED <<mode, wanted, overdue, result, deskVars, baseline, evidence, storeVars>>

\* timeout_response: the snapshot of the report is saved detached.  Without a
\* tree one is built, in 600 ms of its own.
TimeOut ==
  /\ phase = "expiring"
  /\ \E t \in IF tree.built THEN {tree} ELSE {NoTree} \cup (IF running THEN Buildable ELSE {}) :
       IF t.built
       THEN Save(t.matches) /\ mine' = Len(snapshots) + 1 /\ UNCHANGED latest
       ELSE UNCHANGED storeVars
  /\ End("timeout")
  /\ UNCHANGED <<mode, wanted, overdue, deskVars, baseline, tree, evidence>>

\* materialized_response, and the end of wait_for_text; the store may fail.
SaveFound ==
  /\ phase = "saving"
  /\ \/ /\ Save(tree.matches)
        /\ mine' = Len(snapshots) + 1 /\ latest' = mine'
        /\ End("found")
     \/ End("error") /\ UNCHANGED storeVars
  /\ UNCHANGED <<mode, wanted, overdue, deskVars, baseline, tree, evidence>>

-----------------------------------------------------------------------------
(* The other waits *)

\* Whether the tree satisfies wait_for_text.
Counts(t) == IF mode = "count" THEN t.complete /\ t.matches = wanted ELSE t.matches > 0

\* The deadline is looked at after the tree: there is always one look.
PollText ==
  /\ phase = "polling" /\ mode \in {"text", "count"}
  /\ Look
  /\ \/ /\ running /\ tree' \in Buildable
        /\ IF Counts(tree') THEN phase' = "saving" /\ UNCHANGED result ELSE SleepOrTimeOut
     \/ running /\ (SleepOrTimeOut \/ End("error")) /\ UNCHANGED tree
     \/ ~ running /\ End("error") /\ UNCHANGED tree
  /\ UNCHANGED <<mode, wanted, overdue, deskVars, baseline, storeVars>>

\* resolve_within_deadline
Resolve ==
  /\ phase = "polling" /\ mode = "element"
  /\ \/ overdue /\ End("timeout")
     \/ ~ overdue /\ matching > 0 /\ phase' = "reading" /\ UNCHANGED result
     \/ ~ overdue /\ (Sleep \/ End("error"))
  /\ UNCHANGED <<mode, wanted, overdue, deskVars, baseline, tree, evidence, storeVars>>

ReadElement ==
  /\ phase = "reading"
  /\ Look
  /\ (phase' \in {"judging", "polling"} /\ UNCHANGED result) \/ End("error")
  /\ UNCHANGED <<mode, wanted, overdue, deskVars, baseline, tree, storeVars>>

\* The deadline counts more than what was read.
Judge ==
  /\ phase = "judging"
  /\ CASE overdue -> End("timeout")
       [] ~ overdue /\ evidence.matches > 0 -> End("found")
       [] OTHER -> Sleep
  /\ UNCHANGED <<mode, wanted, overdue, deskVars, baseline, tree, evidence, storeVars>>

\* These two look at the deadline before they look at the desktop.
StartLook ==
  /\ phase = "polling" /\ mode \in {"window", "notification"}
  /\ IF overdue THEN End("timeout") ELSE phase' = "looking" /\ UNCHANGED result
  /\ UNCHANGED <<mode, wanted, overdue, deskVars, baseline, tree, evidence, storeVars>>

LookForWindow ==
  /\ phase = "looking" /\ mode = "window"
  /\ Look
  /\ IF Present > 0 THEN End("found") \/ Sleep ELSE Sleep \/ End("error")
  /\ UNCHANGED <<mode, wanted, overdue, deskVars, baseline, tree, storeVars>>

\* The notifications have the same text: only their number tells them apart.
ListNotifications ==
  /\ phase = "looking" /\ mode = "notification"
  /\ \/ ~ baseline.listed /\ baseline' = [notes |-> notes, listed |-> TRUE] /\ SleepOrTimeOut
     \/ /\ baseline.listed
        /\ IF Cardinality(notes) > Cardinality(baseline.notes) THEN End("found") ELSE SleepOrTimeOut
        /\ UNCHANGED baseline
     \/ (SleepOrTimeOut \/ End("error")) /\ UNCHANGED baseline
  /\ UNCHANGED <<mode, wanted, overdue, deskVars, tree, evidence, storeVars>>

-----------------------------------------------------------------------------

Init ==
  /\ mode = "window" /\ wanted = 0 /\ phase = "new" /\ overdue = FALSE /\ result = "none"
  /\ matching = 0 /\ running = TRUE /\ notes = {1} /\ arrived = 1
  /\ baseline = NoList /\ tree = NoTree /\ evidence = Nothing
  /\ snapshots = <<>> /\ latest = 0 /\ mine = 0

Step ==
  \/ Observe \/ Materialize \/ SelectorSleeps \/ TimeOut \/ SaveFound
  \/ PollText \/ Resolve \/ ReadElement \/ Judge \/ StartLook \/ LookForWindow
  \/ ListNotifications

Next == Begin \/ Step \/ DesktopChanges \/ OtherSnapshot \/ DeadlinePasses

\* The clock runs, and so does the wait.
Spec == Init /\ [][Next]_vars /\ WF_vars(DeadlinePasses) /\ WF_vars(Step)

-----------------------------------------------------------------------------
(* Properties *)

TypeOK ==
  /\ mode \in Modes /\ wanted \in 0 .. MaxMatches
  /\ phase \in {"new", "polling", "building", "sleeping", "expiring", "saving", "reading",
                "judging", "looking", "done"}
  /\ overdue \in BOOLEAN
  /\ result \in {"none", "found", "absent", "timeout", "error"}
  /\ matching \in 0 .. MaxMatches /\ running \in BOOLEAN
  /\ notes \subseteq 1 .. arrived /\ arrived \in 1 .. MaxNotes
  /\ tree \in [matches : 0 .. MaxMatches, complete : BOOLEAN, built : BOOLEAN]
  /\ snapshots \in Seq(0 .. MaxMatches)
  /\ latest \in 0 .. Len(snapshots) /\ mine \in 0 .. Len(snapshots)

\* A wait is believed for what it answers: the snapshot of an answer holds
\* what was found, a target that is gone was not there when the wait looked,
\* a notification that is reported came after the wait began, an element was
\* there before the deadline, and a time-out leaves the latest snapshot alone.
WaitAnswersTruly ==
  /\ result = "found" /\ mode \in {"selector", "text"} => snapshots[mine] > 0 /\ latest >= mine
  /\ result = "found" /\ mode = "count" => snapshots[mine] = wanted /\ evidence.matches = wanted
  /\ result = "found" /\ mode \in {"element", "window"} => evidence.matches > 0
  /\ result = "found" /\ mode = "element" => ~ evidence.late
  /\ result = "found" /\ mode = "notification" => notes \ baseline.notes # {}
  /\ result = "absent" => evidence.matches = 0
  /\ result = "timeout" => overdue /\ (mine = 0 \/ latest # mine)

\* A wait ends, whatever the desktop does.
WaitEnds == phase # "new" ~> phase = "done"
=============================================================================
