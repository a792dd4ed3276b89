--------------------------- MODULE PhysicalInput ---------------------------
(***************************************************************************)
(* The physical input of the macOS adapter: drags, clicks, wheel, key      *)
(* presses and text, crates/macos/src/input/{mouse*,keyboard*}.rs and      *)
(* actions/{physical_click,physical_keyboard,delivery_tracker}.rs.         *)
(*                                                                         *)
(* A gesture is a sequence of events that nobody can take back.  It can    *)
(* fail between any two of them: a deadline, an event that cannot be       *)
(* created, a target that has changed.  A guard that is armed when a       *)
(* button or a key goes down releases it then.                             *)
(***************************************************************************)
EXTENDS Naturals

CONSTANT MaxUnits   \* bound: drag steps, clicks, wheel events, keys or chunks

VARIABLES
  gesture,   \* what is to be done
  units,     \* how many units of it
  stage,     \* where it is
  unit,      \* the units that are done
  moves,     \* the moves of the pointer that are still to come
  armed,     \* whether the guard is armed
  held,      \* whether a button or a key is down
  releases,  \* where it was released, in the end: "none", "source", "target"
  tracked,   \* the units that the delivery tracker knows of
  posted,    \* the events that were posted, and the focus that was set
  verdict    \* how the gesture ended

plan == <<gesture, units>>
progress == <<unit, moves>>
button == <<armed, held, releases>>
count == <<tracked, posted>>
inputVars == <<plan, stage, progress, button, count, verdict>>

Keys == {"press", "type"}
Pointing == {"click", "scroll"}

Deliver == tracked' = tracked + 1 /\ posted' = posted + 1

\* DeliveryTracker::annotate, of an error that does not say more.
Annotated == IF tracked = 0 THEN "not_delivered" ELSE "delivered_unverified"

Report(v) == stage' = "done" /\ verdict' = v

-----------------------------------------------------------------------------

Begin ==
  /\ stage = "new"
  /\ gesture' \in {"drag"} \cup Pointing \cup Keys
  /\ units' \in 1 .. MaxUnits
  /\ stage' = CASE gesture' = "drag" -> "pressing"
                [] gesture' \in Pointing -> "moving"
                [] gesture' \in Keys -> "focusing"
  /\ UNCHANGED <<progress, button, count, verdict>>

\* ax_focus_or_err, for the keyboard.
Focus ==
  /\ stage = "focusing"
  /\ Deliver
  /\ stage' = "verifying"
  /\ UNCHANGED <<plan, progress, button, verdict>>

\* post_move_events: one point beside the target, and then the target; the
\* position is verified in the end.
MovePointer ==
  /\ stage = "moving" /\ moves > 0
  /\ Deliver
  /\ moves' = moves - 1
  /\ UNCHANGED <<plan, stage, unit, button, verdict>>

Arrive ==
  /\ stage = "moving" /\ moves = 0
  /\ stage' = IF gesture = "scroll" THEN "scrolling" ELSE "verifying"
  /\ UNCHANGED <<plan, progress, button, count, verdict>>

\* A plausible mistake: the chunks are counted from zero to the last one, too.
ScrollOnceMore ==
  /\ stage = "scrolling"
  /\ Deliver
  /\ unit' = unit + 1
  /\ stage' = IF unit' > units THEN "finishing" ELSE "scrolling"
  /\ UNCHANGED <<plan, moves, button, verdict>>

\* synthesize_scroll_at: a large amount is sent in several wheel events.
Scroll ==
  /\ stage = "scrolling"
  /\ Deliver
  /\ unit' = unit + 1
  /\ stage' = IF unit' = units THEN "finishing" ELSE "scrolling"
  /\ UNCHANGED <<plan, moves, button, verdict>>

\* The target of a click is verified before every one of them.
VerifyPointer ==
  /\ stage = "verifying" /\ gesture = "click"
  /\ stage' = "pressing"
  /\ UNCHANGED <<plan, progress, button, count, verdict>>

\* verify_delivery_target: so is the focus, before every key and every chunk.
VerifyFocus ==
  /\ stage = "verifying" /\ gesture \in Keys
  /\ stage' = "pressing"
  /\ UNCHANGED <<plan, progress, button, count, verdict>>

\* The event for the release exists before the one that needs it is posted.
Press(next) ==
  /\ stage = "pressing"
  /\ Deliver
  /\ armed' = TRUE /\ held' = TRUE /\ UNCHANGED releases
  /\ stage' = next
  /\ UNCHANGED <<plan, progress, verdict>>

StartDrag == gesture = "drag" /\ Press("dragging")
ClickDown == gesture = "click" /\ Press("pressed")
KeyDown == gesture \in Keys /\ Press("pressed")

Drag ==
  /\ stage = "dragging" /\ unit < units
  /\ Deliver
  /\ unit' = unit + 1
  /\ UNCHANGED <<plan, stage, moves, button, verdict>>

\* dwell_over_destination
Dwell ==
  /\ stage = "dragging" /\ unit = units
  /\ stage' = "dropping"
  /\ UNCHANGED count \/ Deliver
  /\ UNCHANGED <<plan, progress, button, verdict>>

\* release_at_destination
Drop ==
  /\ stage = "dropping"
  /\ held' = FALSE /\ armed' = FALSE /\ releases' = "target"
  /\ posted' = posted + 1 /\ UNCHANGED tracked
  /\ stage' = "finishing"
  /\ UNCHANGED <<plan, progress, verdict>>

\* The key or the button goes up where it went down.
Release ==
  /\ stage = "pressed"
  /\ held' = FALSE /\ armed' = FALSE /\ UNCHANGED releases
  /\ posted' = posted + 1 /\ UNCHANGED tracked
  /\ unit' = unit + 1
  /\ stage' = IF unit' = units THEN "finishing" ELSE "verifying"
  /\ UNCHANGED <<plan, moves, verdict>>

ClickUp == gesture = "click" /\ Release
KeyUp == gesture \in Keys /\ Release

\* An error leaves the function at any point, also after the last event when
\* the deadline has passed meanwhile; a guard that is armed posts its release,
\* that of a drag after the pointer went back to the source.
Fail ==
  /\ stage \notin {"new", "done"}
  /\ IF armed THEN /\ held' = FALSE /\ armed' = FALSE /\ posted' = posted + 1
                   /\ releases' = IF gesture = "drag" THEN "source" ELSE releases
              ELSE UNCHANGED <<button, posted>>
  /\ Report(Annotated)
  /\ UNCHANGED <<plan, progress, tracked>>

Succeed ==
  /\ stage = "finishing"
  /\ Report("ok")
  /\ UNCHANGED <<plan, progress, button, count>>

-----------------------------------------------------------------------------

Init ==
  /\ gesture = "drag" /\ units = 1 /\ stage = "new" /\ unit = 0 /\ moves = 2
  /\ armed = FALSE /\ held = FALSE /\ releases = "none"
  /\ tracked = 0 /\ posted = 0 /\ verdict = "none"

Next ==
  \/ Begin \/ Focus \/ MovePointer \/ Arrive \/ Scroll \/ VerifyPointer \/ VerifyFocus
  \/ StartDrag \/ ClickDown \/ KeyDown \/ Drag \/ Dwell \/ Drop \/ ClickUp \/ KeyUp
  \/ Fail \/ Succeed

Spec == Init /\ [][Next]_inputVars

-----------------------------------------------------------------------------
(* Properties *)

TypeOK ==
  /\ gesture \in {"drag"} \cup Pointing \cup Keys
  /\ units \in 1 .. MaxUnits /\ unit \in 0 .. units /\ moves \in 0 .. 2
  /\ stage \in {"new", "focusing", "moving", "scrolling", "verifying", "pressing", "pressed",
                "dragging", "dropping", "finishing", "done"}
  /\ armed \in BOOLEAN /\ held \in BOOLEAN /\ releases \in {"none", "source", "target"}
  /\ tracked \in Nat /\ posted \in Nat
  /\ verdict \in {"none", "not_delivered", "delivered_unverified", "ok"}

\* However a gesture ends, it leaves no button and no key down, an interrupted
\* drag drops nothing at the target, and the report is true: what was not
\* delivered has posted nothing, and success means all of it.
InputEndsClean ==
  verdict # "none" =>
    /\ ~ held
    /\ gesture = "drag" /\ releases = "target" => unit = units
    /\ gesture = "drag" /\ verdict = "ok" => releases = "target"
    /\ verdict = "not_delivered" <=> posted = 0
    /\ verdict = "ok" => unit = units
-----------------------------------------------------------------------------
(* The inductive invariant *)

\* Each stage is one of certain gestures; a button or a key is down between its
\* press and its release, with the guard armed, and what is posted is tracked.
GestureInv ==
  /\ TypeOK
  /\ stage = "focusing" => gesture \in Keys
  /\ stage = "moving" => gesture \in Pointing
  /\ stage = "scrolling" => gesture = "scroll"
  /\ stage \in {"verifying", "pressed"} => gesture \in {"click"} \cup Keys
  /\ stage = "pressing" => gesture # "scroll"
  /\ stage \in {"dragging", "dropping"} => gesture = "drag"
  /\ (armed <=> held) /\ (held => stage \in {"pressed", "dragging", "dropping"})
  /\ stage \in {"new", "focusing", "moving"} => unit = 0
  /\ stage \in {"verifying", "scrolling", "pressing", "pressed"} => unit < units
  /\ stage \in {"dropping", "finishing"} => unit = units
  /\ stage \in {"pressed", "dragging", "dropping", "finishing"} => tracked > 0
  /\ stage = "new" => posted = 0
  /\ tracked = 0 <=> posted = 0
  /\ releases = "target" => gesture = "drag" /\ unit = units /\ stage \in {"finishing", "done"}
  /\ stage = "finishing" /\ gesture = "drag" => releases = "target"
  /\ verdict # "none" <=> stage = "done"
  /\ InputEndsClean
=============================================================================
