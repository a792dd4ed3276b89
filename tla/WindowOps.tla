----------------------------- MODULE WindowOps -----------------------------
(***************************************************************************)
(* Acting on a window: focus-window, move, resize, minimize and restore,   *)
(* maximize, and the focusing that precedes headed input                   *)
(* (headed_focus.rs).  The window is chosen from an inventory, checked     *)
(* again under the lease, looked up among the accessibility windows of its *)
(* process, changed, and observed until it is as asked.  Meanwhile windows *)
(* close, the process is replaced, the user brings other windows to the    *)
(* front, and the application refuses, ignores or delays what it is told.  *)
(*                                                                         *)
(* Window 1 is the one that is meant, window 2 another one of the process, *)
(* window 3 one of the process that may replace it.                        *)
(***************************************************************************)
EXTENDS Naturals, FiniteSets

CONSTANT MaxUserSteps   \* bound: what happens on the desktop meanwhile

VARIABLES
  op,             \* "focus", "headed", "change" or "maximize"
  published,      \* the windows that accessibility shows, while they are open
  bridge,         \* accessibility knows the window numbers
  twin,           \* all the windows have one title
  fate,           \* of window 1: "open", "closed", or its process is "replaced"
  front,          \* the process is in front
  main,           \* its main window, or 0
  effects,        \* what the command has brought about
  userSteps,
  stage,
  target,         \* the window that is acted upon, or 0
  delivered,      \* how many changes were delivered before this one
  confirmations,  \* how often in a row the focus was seen on the window
  report,         \* how the command ended: ok, and what it says of the delivery
  sightings       \* what window 1 was since the command began: "main", and "focused"
                  \* when its process was in front at the same moment

choiceVars == <<op, published, bridge, twin>>
deskVars == <<fate, front, main, effects, sightings>>
vars == <<choiceVars, deskVars, userSteps, stage, target, delivered, confirmations, report>>

Effects == {"front", "main", "position", "size"}
NoReport == [ok |-> FALSE, delivery |-> "none"]

Alive(w) ==
  CASE w = 1 -> fate = "open"
    [] w = 2 -> fate # "replaced"
    [] w = 3 -> fate = "replaced"
Same(w) == w = 1 \/ twin

-----------------------------------------------------------------------------
(* The desktop *)

Sights(f, m) == IF m # 1 THEN {} ELSE IF f THEN {"main", "focused"} ELSE {"main"}
Saw(f, m) == sightings' = sightings \cup Sights(f, m)

\* A window that closes is not the main one; another application is in front
\* when a process ends.
UserStep ==
  /\ report = NoReport /\ userSteps < MaxUserSteps /\ userSteps' = userSteps + 1
  /\ \/ /\ front' \in BOOLEAN /\ main' \in {w \in {1, 2} : Alive(w)} \cup {main}
        /\ UNCHANGED fate
     \/ /\ fate = "open"
        /\ \/ fate' = "closed" /\ main' = (IF main = 1 THEN 2 ELSE main) /\ UNCHANGED front
           \/ fate' = "replaced" /\ main' = 3 /\ front' \in {FALSE, front}
  /\ Saw(front', main')
  /\ UNCHANGED <<choiceVars, effects, stage, target, delivered, confirmations, report>>

-----------------------------------------------------------------------------
(* How a command ends (DeliveryTracker) *)

End(ok, delivery) ==
  /\ report' = [ok |-> ok, delivery |-> delivery] /\ stage' = "done"
  /\ UNCHANGED <<choiceVars, userSteps, target, delivered, confirmations>>

\* annotate: an error that says nothing, or that nothing was delivered, is one
\* after a delivery when something was delivered before.
Annotated(delivery) ==
  IF delivery \in {"unknown", "not_delivered"}
  THEN IF delivered = 0 THEN "not_delivered" ELSE "delivered_unverified"
  ELSE delivery

Goto(s) == stage' = s /\ UNCHANGED <<choiceVars, userSteps, report>>
Stay == UNCHANGED <<target, delivered, confirmations>>

\* The deadline passes, or a read fails, before anything was told to the window.
Fail(delivery) == End(FALSE, delivery) /\ UNCHANGED deskVars

-----------------------------------------------------------------------------
(* Choosing the window *)

\* resolve_window_strict, locate_verified_record_until: the window server shows
\* the window, of the same process instance.
Verify(from, to) ==
  /\ stage = from
  /\ \/ fate = "open" /\ Goto(to) /\ Stay /\ UNCHANGED deskVars
     \/ Fail("unknown")

\* revalidate_window_for_mutation, focus_exact_window: under the lease.
Revalidate == op # "focus" /\ Verify("start", "locate")
Start == op = "focus" /\ stage = "start" /\ Goto("locate") /\ Stay /\ UNCHANGED deskVars
Locate == Verify("locate", "lookup")

Shown == {w \in published : Alive(w)}

\* ax_window_element_for_number: by the number, else by the title.
LookUp ==
  /\ stage = "lookup"
  /\ LET found == IF bridge /\ 1 \in Shown THEN {1} ELSE {w \in Shown : Same(w)}
     IN  \/ /\ Cardinality(found) = 1 /\ target' \in found
            /\ Goto(IF op \in {"focus", "headed"} THEN "front" ELSE "position")
            /\ UNCHANGED <<delivered, confirmations, deskVars>>
         \/ Cardinality(found) = 0 /\ Fail("unknown")
         \/ Cardinality(found) = 2 /\ Fail("not_delivered")
         \/ Fail("unknown")

-----------------------------------------------------------------------------
(* Telling the application (ax_mutation.rs, finish_mutation) *)

\* What the application does when it is told to change something, and how the
\* call ends: "done" may be said of what is not done yet, or never.
Brings(effect) ==
  /\ effects' = effects \cup {effect}
  /\ CASE effect = "front" -> front' = TRUE /\ UNCHANGED main
       [] effect = "main" -> main' = target /\ UNCHANGED front
       [] OTHER -> UNCHANGED <<front, main>>
  /\ Saw(front', main') /\ UNCHANGED fate

Tell(effect, answer) ==
  CASE answer \in {"done", "unsure"} ->
         /\ Alive(target)
         /\ Brings(effect) \/ UNCHANGED deskVars
    [] answer \in {"unsupported", "refused"} -> UNCHANGED deskVars

\* What was told but not done yet is done late.
Late ==
  /\ stage \in {"front wait", "raise wait", "uncertain wait", "position wait", "size wait"}
  /\ Alive(target)
  /\ LET effect == CASE stage = "front wait" -> "front"
                     [] stage = "position wait" -> "position"
                     [] stage = "size wait" -> "size"
                     [] OTHER -> "main"
     IN  effect \notin effects /\ Brings(effect)
  /\ UNCHANGED <<choiceVars, userSteps, stage, target, delivered, confirmations, report>>

\* A call that ends is followed by `next`, unless the deadline passed meanwhile.
Told(effect, next) ==
  \/ /\ Tell(effect, "done")
     /\ \/ Goto(next) /\ Stay
        \/ End(FALSE, "delivered_unverified")
  \/ Tell(effect, "unsure") /\ End(FALSE, "uncertain")
  \/ \E answer \in {"unsupported", "refused"} :
       Tell(effect, answer) /\ End(FALSE, Annotated("not_delivered"))

-----------------------------------------------------------------------------
(* focus_window_impl *)

\* focus_app: nothing is told to an application that is in front.
FocusApp ==
  /\ stage = "front"
  /\ \/ front /\ Goto("raise") /\ Stay /\ UNCHANGED deskVars
     \/ ~ front /\ Told("front", "front wait")
     \/ Fail("not_delivered")

\* wait_until AXFrontmost, at most half a second.
AppFocused ==
  /\ stage = "front wait"
  /\ \/ /\ front /\ Goto("raise") /\ delivered' = 1
        /\ UNCHANGED <<target, confirmations, deskVars>>
     \/ Fail("delivered_unverified")

\* raise_window, needs_main_fallback: only a window that cannot be raised is made
\* the main one.
Raise ==
  /\ stage = "raise"
  /\ \/ Tell("main", "done") /\ Goto("raise wait") /\ Stay
     \/ Tell("main", "unsure") /\ Goto("uncertain wait") /\ Stay
     \/ Tell("main", "unsupported") /\ Goto("main") /\ Stay
     \/ Tell("main", "refused") /\ End(FALSE, Annotated("not_delivered"))

MakeMain == stage = "main" /\ Told("main", "raise wait")

\* wait_until_main.
Raised ==
  /\ stage \in {"raise wait", "uncertain wait"}
  /\ \/ main = target /\ Goto("verify") /\ Stay /\ UNCHANGED deskVars
     \/ Fail(IF stage = "uncertain wait" THEN "uncertain" ELSE "delivered_unverified")

\* verify_app_focused; headed input goes on from here.
VerifyFocused ==
  /\ stage = "verify"
  /\ \/ front /\ op = "focus" /\ Goto("confirm") /\ Stay /\ UNCHANGED deskVars
     \/ front /\ op = "headed" /\ End(TRUE, "verified") /\ UNCHANGED deskVars
     \/ Fail("delivered_unverified")

\* focused_window: by number, or by a title that no other window of the process
\* has.
ObservedFocused == front /\ main = 1 /\ (bridge \/ ~ twin)

\* wait_for_focused_window_with_poll_interval: a failed observation counts as one
\* of another window.
Confirm ==
  /\ stage = "confirm" /\ UNCHANGED deskVars
  /\ \/ /\ ObservedFocused /\ confirmations = 0
        /\ confirmations' = 1 /\ Goto("confirm") /\ UNCHANGED <<target, delivered>>
     \/ ObservedFocused /\ confirmations = 1 /\ End(TRUE, "verified")
     \/ confirmations' = 0 /\ Goto("confirm") /\ UNCHANGED <<target, delivered>>
     \/ End(FALSE, "unknown")

-----------------------------------------------------------------------------
(* set_position, set_size, set_minimized, maximize_to_main_display *)

\* "position" stands for any single change.
SetPosition ==
  /\ stage = "position"
  /\ Told("position", "position wait") \/ (op = "maximize" /\ Fail("unknown"))

\* wait_for_geometry, wait_for_minimized: to maximize takes a second change.
Positioned ==
  /\ stage = "position wait"
  /\ \/ /\ "position" \in effects /\ Alive(target) /\ UNCHANGED deskVars
        /\ \/ op = "change" /\ End(TRUE, "verified")
           \/ /\ op = "maximize" /\ Goto("size") /\ delivered' = 1
              /\ UNCHANGED <<target, confirmations>>
     \/ Fail("delivered_unverified")

SetSize == stage = "size" /\ Told("size", "size wait")

Sized ==
  /\ stage = "size wait"
  /\ \/ "size" \in effects /\ Alive(target) /\ End(TRUE, "verified") /\ UNCHANGED deskVars
     \/ Fail("delivered_unverified")

-----------------------------------------------------------------------------

Init ==
  /\ op \in {"focus", "headed", "change", "maximize"}
  /\ published \in {S \cup {3} : S \in SUBSET {1, 2}}
  /\ bridge \in BOOLEAN /\ twin \in BOOLEAN
  /\ fate = "open" /\ front \in BOOLEAN /\ main \in {1, 2}
  /\ sightings = Sights(front, main)
  /\ effects = {} /\ userSteps = 0 /\ stage = "start" /\ target = 0 /\ delivered = 0
  /\ confirmations = 0 /\ report = NoReport

Next ==
  \/ UserStep \/ Late
  \/ Revalidate \/ Start \/ Locate \/ LookUp
  \/ FocusApp \/ AppFocused \/ Raise \/ MakeMain \/ Raised \/ VerifyFocused \/ Confirm
  \/ SetPosition \/ Positioned \/ SetSize \/ Sized

Spec == Init /\ [][Next]_vars

-----------------------------------------------------------------------------
(* Properties *)

\* The values the state takes.
TypeOK ==
  /\ fate \in {"open", "closed", "replaced"} /\ main \in 0 .. 3 /\ target \in 0 .. 3
  /\ effects \subseteq Effects /\ delivered \in 0 .. 1 /\ confirmations \in 0 .. 1
  /\ report.delivery \in {"none", "unknown", "not_delivered", "uncertain",
                          "delivered_unverified", "verified"}
  /\ (stage = "done") = (report # NoReport)

\* Another window is acted upon only when accessibility does not tell the one
\* that is meant from it: it is not shown, or its number is not known, and both
\* have the same title (window_resolve.rs:200-262).  Of the windows that are shown
\* only one has that title, or the command fails.  It is not claimed that the exact
\* window is the one that is acted upon (README.md:334): the window server shows
\* windows that accessibility does not.
OthersOnlyByTitle ==
  target \notin {0, 1} => twin /\ ~ (bridge /\ 1 \in published /\ fate = "open")

\* What is reported as done was done, all of it, and what is reported as not
\* delivered left the desktop as it was, although the application acts late or
\* never, and the user does something meanwhile.  Headed input goes on with its
\* process in front and a window that was the main one before; the user may have
\* brought another to the front since (verify_app_focused looks at the process only).
ReportsAreTrue ==
  /\ report.delivery = "not_delivered" => effects = {}
  /\ report.ok => CASE op = "change" -> "position" \in effects
                    [] op = "maximize" -> {"position", "size"} \subseteq effects
                    [] op = "focus" -> "focused" \in sightings
                    [] op = "headed" -> front /\ (target = 1 => "main" \in sightings)

WindowsAreHonest == OthersOnlyByTitle /\ ReportsAreTrue

-----------------------------------------------------------------------------
(* The inductive invariant *)

Before == {"start", "locate", "lookup"}
FocusStages == {"front", "front wait", "raise", "main", "raise wait", "uncertain wait", "verify",
                "confirm"}
ChangeStages == {"position", "position wait", "size", "size wait"}

\* Each command has its stages.
StagesAreOfTheCommand ==
  /\ stage \in Before \cup FocusStages \cup ChangeStages \cup {"done"}
  /\ stage \in FocusStages => op \in {"focus", "headed"}
  /\ stage = "confirm" => op = "focus"
  /\ stage \in ChangeStages => op \in {"change", "maximize"}
  /\ stage \in {"size", "size wait"} => op = "maximize"
  /\ stage \in FocusStages \cup ChangeStages => target # 0

\* Where a refusal may be said to have delivered nothing, nothing was done; and a
\* second change follows the first.
EffectsAreCounted ==
  /\ stage \in Before \cup {"front", "position"} => effects = {} /\ delivered = 0
  /\ stage \in {"raise", "main"} /\ delivered = 0 => effects = {}
  /\ stage \in {"size", "size wait"} => delivered = 1 /\ "position" \in effects

\* What was seen: the main window now was seen as it is, and one that is verified
\* was the main one before.
SightingsAreKept ==
  /\ main = 1 => "main" \in sightings
  /\ front /\ main = 1 => "focused" \in sightings
  /\ stage \in {"verify", "confirm"} /\ target = 1 => "main" \in sightings

WindowInv ==
  /\ op \in {"focus", "headed", "change", "maximize"}
  /\ fate \in {"open", "closed", "replaced"} /\ main \in 1 .. 3 /\ target \in 0 .. 3
  /\ published \subseteq 1 .. 3
  /\ delivered \in 0 .. 1 /\ confirmations \in 0 .. 1
  /\ (stage = "done") = (report # NoReport)
  /\ StagesAreOfTheCommand /\ EffectsAreCounted /\ SightingsAreKept
  /\ WindowsAreHonest
=============================================================================
