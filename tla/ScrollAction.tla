---------------------------- MODULE ScrollAction ----------------------------
(***************************************************************************)
(* Scrolling on macOS (actions/scroll.rs, scroll_into_view.rs,             *)
(* scroll_read.rs): the content of a scroll area is moved by an amount,    *)
(* with the wheel or by the first of several semantic ways that the area   *)
(* supports; or it is moved until an element shows, by asking the element  *)
(* and then by scrolling what is around it.  The application may answer    *)
(* late or unclearly, and move late, or not at all.                        *)
(***************************************************************************)
EXTENDS Integers

CONSTANTS
  Amount,       \* how many units are asked for
  MaxAttempts   \* MAX_ANCESTOR_SCROLLS

VARIABLES
  goal,      \* "scroll" down by Amount, or "view": until the element shows
  headed,    \* the policy is headed
  at,        \* how far the content is scrolled
  start,     \* how far it was at first
  landing,   \* how far the application is going to move it yet
  coming,    \* it is going to show the element yet
  lost,      \* something is going on that is not looked for any more, see Lose
  step,      \* "start", "area", "bar", "value", "sub", "page", "wheel", "to visible",
             \* "settle", "look", "done"
  count,     \* the units of the present way that were carried out
  attempts,  \* how often what is around the element was scrolled
  report     \* see Report

contentVars == <<at, landing, coming>>
callVars == <<goal, headed, start>>
vars == <<callVars, contentVars, lost, step, count, attempts, report>>

Edge == 5    \* the content ends here
Shown == 1   \* here the element shows

\* What the call reports: an outcome ("none" as long as it runs, "satisfied": nothing
\* was to be done), whether it was verified, and the disposition of the delivery.
Report(outcome, verified, disposition) ==
  [outcome |-> outcome, verified |-> verified, disposition |-> disposition]
Running == Report("none", FALSE, "none")

\* direction_for_visibility, shifted_value: never beyond the ends.
Within(x) == IF x > Edge THEN Edge ELSE IF x < 0 THEN 0 ELSE x
Units == IF goal = "scroll" THEN Amount ELSE 1
Direction == IF goal = "scroll" \/ at < Shown THEN 1 ELSE -1

-----------------------------------------------------------------------------
(* The application *)

Land ==
  /\ \/ landing # 0 /\ at' = Within(at + landing) /\ landing' = 0 /\ UNCHANGED coming
     \/ coming /\ at' = Shown /\ coming' = FALSE /\ UNCHANGED landing
  /\ UNCHANGED <<callVars, lost, step, count, attempts, report>>

\* What it answers to a mutation: "yes", "no" (it does not support it) or "unclear"
\* (a failure, or no answer in time); it may carry out, now, later or never, what it
\* does not refuse.
Answers == {"yes", "no", "unclear"}
Moves(units, answer) ==
  IF answer = "no" THEN UNCHANGED <<at, landing>>
  ELSE \/ at' = Within(at + units) /\ UNCHANGED landing
       \/ landing' = landing + units /\ UNCHANGED at
       \/ UNCHANGED <<at, landing>>

-----------------------------------------------------------------------------
(* Steps and reports *)

Goto(next) == step' = next /\ UNCHANGED report
Done(outcome, verified, disposition) ==
  step' = "done" /\ report' = Report(outcome, verified, disposition)

\* DeliveryTracker::annotate: the disposition of a failure; what was scrolled before
\* counts, and it never takes back what an error says of its own delivery.
Fail(disposition) ==
  Done("failed", FALSE,
       IF goal = "scroll" \/ disposition \notin {"none", "not_delivered"} THEN disposition
       ELSE IF attempts = 0 THEN "not_delivered" ELSE "delivered_unverified")
\* An attribute that cannot be read, or not in time (read_error).
Unread == Fail("none")

\* The content was scrolled: that was the call, or the element is looked at again.
Finish(verified) ==
  IF goal = "scroll" THEN Done("ok", verified, "none") /\ UNCHANGED attempts
  ELSE attempts' = attempts + 1 /\ Goto("look")

\* What a mutation that is over time is said to have done (ensure_budget): an answer
\* that was unclear is forgotten.
OverTime(answer) == IF answer = "yes" THEN "delivered_unverified" ELSE "not_delivered"
Lose(answer) == lost' = (lost \/ answer = "unclear")

Still == UNCHANGED callVars
NothingMoves == Still /\ UNCHANGED <<contentVars, lost>>

-----------------------------------------------------------------------------
(* One scroll (scroll.rs) *)

\* validate_amount; a call to show an element asks the element first.
Start ==
  /\ step = "start" /\ NothingMoves /\ UNCHANGED <<count, attempts>>
  /\ \/ Goto(IF goal = "scroll" THEN "area" ELSE "to visible")
     \/ goal = "scroll" /\ Fail("none")

\* find_scroll_area, and the scroll bar of it: what cannot be read in time is an error.
Area ==
  /\ step = "area" /\ NothingMoves /\ count' = 0 /\ UNCHANGED attempts
  /\ \/ Goto(IF headed THEN "wheel" ELSE "bar")
     \/ ~ headed /\ Goto("page")
     \/ Unread

\* partial_scroll_error
Stopped(disposition) == IF count = 0 THEN disposition ELSE "delivered_unverified"

\* repeat_action: one unit after the other; a way that is not supported is left for
\* the next only before the first of them.
Repeat(next) ==
  /\ Still /\ UNCHANGED coming
  /\ \E answer \in Answers, late \in BOOLEAN :
       /\ Moves(Direction, answer)
       /\ IF late THEN
            /\ IF count = 0 THEN Lose(answer) ELSE UNCHANGED lost
            /\ Fail(Stopped(OverTime(answer))) /\ UNCHANGED <<count, attempts>>
          ELSE
            /\ UNCHANGED lost
            /\ \/ /\ answer = "yes" /\ count' = count + 1
                  /\ IF count' = Units THEN Finish(FALSE) ELSE UNCHANGED attempts /\ Goto(step)
               \/ /\ answer = "no" /\ UNCHANGED <<count, attempts>>
                  /\ IF count = 0 /\ next # "none" THEN Goto(next) ELSE Fail(Stopped("none"))
               \/ /\ answer = "unclear" /\ UNCHANGED <<count, attempts>>
                  /\ Fail(Stopped("uncertain"))

\* perform_repeated_action: AXIncrement or AXDecrement of the scroll bar.
Bar == step = "bar" /\ Repeat("value")

\* try_value_shift: the value of the bar is written, and must have moved when it is
\* read again; one that is at its end, or cannot be written, is left as it is.
Value ==
  /\ step = "value" /\ Still /\ UNCHANGED <<coming, count>>
  /\ \/ NothingMoves /\ UNCHANGED attempts /\ (Goto("sub") \/ Unread)
     \/ /\ Within(at + Direction * Units) # at
        /\ \E answer \in Answers, late \in BOOLEAN :
             /\ Moves(Direction * Units, answer)
             /\ IF late THEN Lose(answer) /\ Fail(OverTime(answer)) /\ UNCHANGED attempts
                ELSE
                  /\ UNCHANGED lost
                  /\ \/ answer = "yes" /\ at' # at /\ Finish(TRUE)
                     \/ answer = "yes" /\ UNCHANGED attempts /\ Fail("delivered_unverified")
                     \/ answer = "no" /\ UNCHANGED attempts /\ Goto("sub")
                     \/ answer = "unclear" /\ UNCHANGED attempts /\ Fail("uncertain")

\* try_sub_elements: the page and arrow buttons of the bar, if it has them.
Sub ==
  /\ step = "sub"
  /\ \/ Repeat("page")
     \/ NothingMoves /\ UNCHANGED <<count, attempts>> /\ (Goto("page") \/ Unread)

\* page_action, of the area itself: the last way.
Page == step = "page" /\ Repeat("none")

\* physical_wheel: the target is made ready and must be under the pointer.
Wheel ==
  /\ step = "wheel" /\ Still /\ UNCHANGED <<coming, lost, count>>
  /\ \/ Moves(Direction * Units, "yes") /\ Finish(FALSE)
     \/ Moves(Direction * Units, "yes") /\ Fail("delivered_unverified") /\ UNCHANGED attempts
     \/ UNCHANGED <<at, landing, attempts>> /\ Fail("none")

-----------------------------------------------------------------------------
(* Until the element shows (scroll_into_view.rs) *)

\* scroll_to_verified: AXScrollToVisible of the element.
ToVisible ==
  /\ step = "to visible" /\ Still /\ UNCHANGED <<landing, lost, count, attempts>>
  /\ \/ UNCHANGED <<at, coming>> /\ Fail("not_delivered")
     \/ \E answer \in Answers :
          /\ \/ answer # "no" /\ at' = Shown /\ UNCHANGED coming
             \/ answer # "no" /\ UNCHANGED at /\ coming' = TRUE
             \/ UNCHANGED <<at, coming>>
          /\ \/ answer = "yes" /\ (Goto("settle") \/ Fail("delivered_unverified"))
             \/ answer = "no" /\ Goto("look")
             \/ answer = "unclear" /\ Fail("uncertain")

\* For 800 ms the element may show; then either nothing has changed and it is treated
\* as not supported, or it is an error (settled_scroll_outcome).
Settle ==
  /\ step = "settle" /\ Still /\ UNCHANGED <<contentVars, count, attempts>>
  /\ \/ at = Shown /\ Done("ok", TRUE, "none") /\ UNCHANGED lost
     \/ Fail("delivered_unverified") /\ UNCHANGED lost
     \/ at = start /\ Goto("look") /\ lost' = coming

\* scroll_ancestor_until_visible: in the direction of the element, one unit at a time;
\* an element within the area may still be clipped.
Look ==
  /\ step = "look" /\ NothingMoves /\ UNCHANGED <<count, attempts>>
  /\ \/ attempts < MaxAttempts /\ at # Shown /\ Goto("area")
     \/ /\ attempts < MaxAttempts /\ at = Shown
        /\ Done(IF attempts = 0 THEN "satisfied" ELSE "ok", attempts > 0, "none")
     \/ attempts < MaxAttempts /\ Unread
     \/ attempts = MaxAttempts /\ Fail("delivered_unverified")

-----------------------------------------------------------------------------

Init ==
  /\ goal \in {"scroll", "view"} /\ headed \in BOOLEAN /\ (headed => goal = "scroll")
  /\ at \in IF goal = "scroll" THEN {0, Edge - 1, Edge} ELSE 0 .. 2 * Shown
  /\ start = at /\ landing = 0 /\ coming = FALSE /\ lost = FALSE
  /\ step = "start" /\ count = 0 /\ attempts = 0 /\ report = Running

Next ==
  \/ Land
  \/ Start \/ Area \/ Bar \/ Value \/ Sub \/ Page \/ Wheel
  \/ ToVisible \/ Settle \/ Look

Spec == Init /\ [][Next]_vars

-----------------------------------------------------------------------------
(* Properties *)

\* The values the state takes.
TypeOK ==
  /\ at \in 0 .. Edge /\ landing \in Int /\ count \in 0 .. Amount
  /\ attempts \in 0 .. MaxAttempts
  /\ report.disposition \in {"none", "not_delivered", "uncertain", "delivered_unverified"}

\* Whatever is tried, and however late it happens, the content moves no further than
\* it was asked to, and not back (repeat_action, try_value_shift).
NeverTooFar ==
  goal = "scroll" => at >= start /\ Within(at + landing) <= Within(start + Amount)

\* What is said not to have been delivered has not moved anything and will not, and
\* nothing was to be done only where nothing was done, but for two cases, `lost`:
\* - the deadline passed and the answer was unclear: ensure_budget (scroll.rs:111,
\*   297-306) then says "not_delivered", although the application may have scrolled;
\* - the application accepted to show the element, nothing changed for 800 ms, and
\*   it shows later (scroll_into_view.rs:138-170).
\* There an agent that trusts "Only `not_delivered` is `safe`" (SKILL.md:117) may
\* scroll twice.
NotDeliveredIsTrue ==
  report.disposition = "not_delivered" \/ report.outcome = "satisfied" =>
    lost \/ (at = start /\ landing = 0 /\ ~ coming)

\* A scroll is reported only when every unit was carried out, and as verified only
\* when the content moved (try_value_shift).
ReportedIsScrolled ==
  /\ goal = "scroll" /\ report.outcome = "ok" => report.verified \/ headed \/ count = Amount
  /\ goal = "scroll" /\ report.verified => at > start

ScrollIsHonest == NeverTooFar /\ NotDeliveredIsTrue /\ ReportedIsScrolled
-----------------------------------------------------------------------------
(* The inductive invariant *)

\* The ways to move the content.
Ways == {"bar", "value", "sub", "page", "wheel"}

\* The content of an area has moved, and will move, no more than the units that were
\* carried out; the way that is tried has units left.
ScrollIsCounted ==
  goal = "scroll" =>
    /\ ~ coming /\ attempts = 0 /\ at >= start /\ landing >= 0
    /\ at + landing <= start + Amount
    /\ step # "done" => at + landing <= start + count
    /\ step \in {"start", "area", "value", "wheel"} => count = 0
    /\ step \in Ways => count < Amount
    /\ step \notin {"to visible", "settle", "look"}

\* Until something around the element was scrolled nothing has moved, except what
\* the element itself was asked for, which is waited for, or lost.
ViewIsUntouched ==
  goal = "view" =>
    /\ ~ headed
    /\ attempts = 0 /\ step \notin {"settle", "done"} => lost \/ (at = start /\ landing = 0 /\ ~ coming)
    /\ step \in {"start", "to visible", "settle"} => attempts = 0 /\ ~ lost /\ landing = 0
    /\ step \in Ways => count = 0
    /\ step \in Ways \cup {"area"} => attempts < MaxAttempts

ScrollInv ==
  /\ at \in 0 .. Edge /\ start \in 0 .. Edge /\ landing \in Int /\ count \in 0 .. Amount
  /\ attempts \in 0 .. MaxAttempts
  /\ goal \in {"scroll", "view"} /\ headed \in BOOLEAN /\ coming \in BOOLEAN /\ lost \in BOOLEAN
  /\ step # "done" => report = Running
  /\ step = "wheel" => headed
  /\ ScrollIsCounted /\ ViewIsUntouched
  /\ ScrollIsHonest
=============================================================================
