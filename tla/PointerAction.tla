--------------------------- MODULE PointerAction ---------------------------
(***************************************************************************)
(* The commands that act with the pointer (commands/hover.rs, drag.rs,     *)
(* mouse_click.rs, pointer_action.rs, context.rs): where the elements are   *)
(* that it is to act on is waited for without the lease, then looked up     *)
(* twice under it, hit-tested, and acted on after the agent's own cursor   *)
(* has travelled there; a condition may be waited for after it.  The        *)
(* elements move, hide and are covered meanwhile.  The gesture itself is in *)
(* PhysicalInput, and how a ref is resolved in RefResolution.               *)
(***************************************************************************)
EXTENDS Naturals, FiniteSets, Sequences

CONSTANTS
  MaxMoves       \* bound: how often the elements move, change or are scrolled

VARIABLES
  kind,      \* "hover", "drag" or "click"
  refs,      \* the ends of the gesture that are elements; others are coordinates
  auto,      \* it waits for the elements, until its deadline
  places,    \* where each element is: its position and its size, as versions
  looks,     \* how each element is: "plain", "hidden" or "covered" by another
  moves,     \* how often that changed
  step,      \* "start", "wait", "scroll", "lease", "look", "hit", "travel",
             \* "dispatch", "settle" or "done"
  todo,      \* the looks that are left, each an end and its number
  half,      \* the position that was read before the size
  first,     \* where each element was when it was last looked at
  moments,   \* where and how the elements were since the lease was taken
  doubt,     \* the elements of which the last hit test could not tell
  leased,    \* this command holds the lease
  overlay,   \* what the agent's own cursor shows: "idle", "travel", "drag" or "effect"
  tracking,  \* that it shows where it travels was acknowledged
  acted,     \* the gesture was carried out
  report     \* what the command reports: an outcome, and a disposition

callVars == <<kind, refs, auto>>
elementVars == <<places, looks, moves>>
lookVars == <<todo, half, first, doubt>>
vars == <<callVars, elementVars, step, lookVars, moments, leased, overlay, tracking, acted, report>>

Ends == {"from", "to"}
EndsOf(k) == IF k = "drag" THEN Ends ELSE {"from"}
Nowhere == <<0, 0>>
Report(outcome, delivery) == [outcome |-> outcome, delivery |-> delivery]

Moment(ps, ls) == [place |-> ps, plain |-> {e \in refs : ls[e] = "plain"}]

-----------------------------------------------------------------------------
(* The desktop *)

\* An element moves, and may be resized, or it is hidden, covered or shown.
Change ==
  /\ moves < MaxMoves /\ moves' = moves + 1
  /\ step \in {"look", "hit"}
  /\ \E e \in refs :
       \/ /\ \E by \in {<<1, 0>>, <<1, 1>>} :
               places' = [places EXCEPT ![e] = <<@[1] + by[1], @[2] + by[2]>>]
          /\ UNCHANGED looks
       \/ /\ \E how \in {"plain", "hidden", "covered"} \ {looks[e]} :
               looks' = [looks EXCEPT ![e] = how]
          /\ UNCHANGED places
  /\ moments' = IF leased THEN moments \union {Moment(places', looks')} ELSE moments
  /\ UNCHANGED <<callVars, step, lookVars, leased, overlay, tracking, acted, report>>

\* An element is scrolled into view, or not quite; what scrolls with it moves as well.
Scrolled(e) ==
  \/ UNCHANGED elementVars
  \/ /\ moves < MaxMoves /\ moves' = moves + 1
     /\ \E with \in {S \in SUBSET refs : e \in S}, hidden \in SUBSET (refs \ {e}) :
          /\ places' = [x \in Ends |-> IF x \in with THEN <<places[x][1] + 1, places[x][2]>>
                                       ELSE places[x]]
          /\ looks' = [x \in Ends |-> IF x \in with \intersect hidden THEN "hidden"
                                      ELSE IF x = e THEN "plain" ELSE looks[x]]

-----------------------------------------------------------------------------
(* The command *)

\* The looks at the elements before the lease, and under it: at both before either is
\* looked at again, without anything in between.
Waits == CASE refs = Ends -> <<<<"from", 1>>, <<"to", 1>>>>
           [] refs = {"from"} -> <<<<"from", 1>>>>
           [] refs = {"to"} -> <<<<"to", 1>>>>
           [] OTHER -> <<>>
Leased == CASE refs = Ends -> <<<<"from", 1>>, <<"to", 1>>, <<"from", 2>>, <<"to", 2>>>>
            [] refs = {"from"} -> <<<<"from", 1>>, <<"from", 2>>>>
            [] refs = {"to"} -> <<<<"to", 1>>, <<"to", 2>>>>
            [] OTHER -> <<>>
End == Head(todo)[1]
Nth == Head(todo)[2]

Unseen == [e \in Ends |-> Nowhere]
Forget == half' = 0 /\ first' = Unseen /\ doubt' = {}
\* How the elements are does not matter any more.
Rest ==
  /\ places' = [e \in Ends |-> <<1, 1>>] /\ looks' = [e \in Ends |-> "plain"] /\ moves' = 0
Stop(r) ==
  /\ report' = r /\ step' = "done" /\ leased' = FALSE /\ todo' = <<>> /\ Forget
  /\ moments' = {} /\ Rest
\* An error before the gesture, or the deadline has passed: both at any step.
Fail == Stop(Report("error", "unknown"))
Quiet == UNCHANGED <<callVars, overlay, tracking, acted>>

\* command_scope: a trace that must be written and cannot be is an error, before and
\* after the command.
Start ==
  /\ step = "start" /\ Quiet
  /\ \/ Stop(Report("error", "not_delivered"))
     \/ /\ UNCHANGED elementVars
        /\ step' = IF auto /\ refs # {} THEN "wait" ELSE "lease"
        /\ todo' = IF auto THEN Waits ELSE <<>>
        /\ UNCHANGED <<half, first, doubt, moments, leased, report>>

\* wait_for_point_with_deadline: until an element is seen twice at the same place; one
\* that is not visible is scrolled there.  What cannot be read is read again.
Wait ==
  /\ step = "wait" /\ Quiet
  /\ \/ /\ UNCHANGED <<elementVars, half, doubt, moments, leased, report>>
        /\ CASE looks[End] = "hidden" ->
                  step' = "scroll" /\ UNCHANGED <<todo, first>>
             [] looks[End] # "hidden" /\ first[End] # places[End] ->
                  first' = [first EXCEPT ![End] = places[End]] /\ UNCHANGED <<step, todo>>
             [] OTHER ->
                  /\ todo' = Tail(todo) /\ first' = [first EXCEPT ![End] = Nowhere]
                  /\ step' = IF todo' = <<>> THEN "lease" ELSE step
     \/ Fail

\* scroll_point_target takes the lease for itself; under the lease, an element is
\* scrolled only if it was not waited for, and once.
Scroll ==
  /\ step = "scroll" /\ Quiet
  /\ \/ /\ Scrolled(End)
        /\ moments' = IF leased THEN moments \union {Moment(places', looks')} ELSE moments
        /\ IF leased THEN step' = "look" /\ todo' = [todo EXCEPT ![1] = <<End, 0>>] /\ half' = 0
                          /\ UNCHANGED <<first, doubt>>
                     ELSE step' = "wait" /\ UNCHANGED lookVars
        /\ UNCHANGED <<leased, report>>
     \/ Fail

\* The lease, and the focus of the window of the first end.
Acquire ==
  /\ step = "lease" /\ Quiet
  /\ \/ /\ leased' = TRUE /\ moments' = {Moment(places, looks)}
        /\ todo' = Leased /\ Forget
        /\ step' = IF Leased = <<>> THEN "travel" ELSE "look"
        /\ UNCHANGED <<elementVars, report>>
     \/ Fail

\* An attempt under the lease fails (retry_leased_point_phase): one that waits is made
\* again, without what was seen and after the lease was given back.
Retry(delivery) ==
  \/ /\ auto /\ step' = "lease" /\ leased' = FALSE /\ todo' = <<>> /\ Forget /\ moments' = {}
     /\ UNCHANGED <<elementVars, report>>
  \/ auto /\ Fail
  \/ ~ auto /\ Stop(Report("error", delivery))

\* The ref is resolved and its position read (read_bounds_with_deadline) ...
Position ==
  /\ step = "look" /\ half = 0 /\ Quiet
  /\ \/ /\ half' = places[End][1]
        /\ UNCHANGED <<elementVars, step, todo, first, doubt, moments, leased, report>>
     \/ Retry("unknown")
     \/ Fail

\* ... then its size, and whether it is visible (resolve_point_from_entry).
Offscreen(e) == looks[e] = "hidden"      \* ancestor_viewport
Visible(e) == ~ Offscreen(e)
Bounds(e) == <<half, places[e][2]>>
Stable(e, n) == n = 2 => first[e] = Bounds(e)

Size ==
  /\ step = "look" /\ half # 0 /\ Quiet
  /\ CASE ~ Visible(End) /\ Nth = 1 /\ ~ auto ->
            /\ step' = "scroll" /\ half' = 0
            /\ UNCHANGED <<elementVars, todo, first, doubt, moments, leased, report>>
       [] ~ Visible(End) /\ ~ (Nth = 1 /\ ~ auto) -> Retry("unknown")
       [] Visible(End) /\ ~ Stable(End, Nth) -> Retry("unknown")
       [] OTHER ->
            /\ step' = "hit" /\ first' = [first EXCEPT ![End] = Bounds(End)] /\ half' = 0
            /\ UNCHANGED <<elementVars, todo, doubt, moments, leased, report>>

\* What is at the middle of the bounds, if the element and what clips it are still there
\* (clipping_is_complete): the element or a part of it, another one in front, or what
\* contains it; in that case the application is asked instead (hit_test_in_application).
Within(e) == places[e] = first[e] /\ Visible(e)
AtPoint(e) ==
  IF ~ Within(e) THEN {}
  ELSE IF looks[e] = "covered" THEN {"unrelated"} ELSE {"reaches", "ancestor"}
InApplication(e) == {"reaches"}
Answers(e) ==
  {"unknown"} \union (AtPoint(e) \ {"ancestor"})
    \union (IF "ancestor" \in AtPoint(e) THEN InApplication(e) ELSE {})

\* require_receives_events
Hit ==
  /\ step = "hit" /\ Quiet
  /\ \/ \E answer \in Answers(End) :
       IF answer = "unrelated" THEN Retry("not_delivered")
       ELSE /\ doubt' = IF answer = "unknown" THEN doubt \union {End} ELSE doubt \ {End}
            /\ todo' = Tail(todo)
            /\ step' = IF todo' = <<>> THEN "travel" ELSE "look"
            /\ UNCHANGED <<elementVars, half, first, moments, leased, report>>
     \/ Fail

\* The agent's cursor travels there, or starts to show the drag, if there is time for it
\* and a helper that shows it; whether that was acknowledged is known.
Travel ==
  /\ step = "travel" /\ UNCHANGED <<callVars, acted>>
  /\ \/ /\ step' = "dispatch"
        /\ LET shows == IF kind = "drag" THEN "drag" ELSE "travel"
           IN  /\ tracking' \in BOOLEAN
               /\ overlay' \in IF tracking' THEN {shows} ELSE {"idle", shows}
        /\ UNCHANGED <<elementVars, lookVars, moments, leased, report>>
     \/ Fail /\ UNCHANGED <<overlay, tracking>>

\* What the agent's cursor shows then: the effect, if input was delivered; after a drag
\* that failed, nothing (submit_drag_effect, cancel_drag, dispatch_mouse_event_with_cursor).
Confirmed(r) == r.outcome = "ok" \/ r.delivery \in {"uncertain", "delivered"}
CursorAfter(r) ==
  CASE kind = "drag" -> IF r.outcome = "ok" THEN "effect" ELSE "idle"
    [] OTHER -> IF Confirmed(r) THEN "effect" ELSE overlay

\* adapter.drag or mouse_event; an error says itself what was delivered.
Dispatch ==
  /\ step = "dispatch" /\ UNCHANGED callVars
  /\ \E r \in {Report("ok", "delivered"), Report("error", "not_delivered"),
               Report("error", "uncertain"), Report("error", "delivered")} :
       /\ acted' \in CASE r.delivery = "not_delivered" -> {FALSE}
                       [] r.delivery = "uncertain" -> BOOLEAN
                       [] OTHER -> {TRUE}
       /\ overlay' = CursorAfter(r) /\ tracking' = FALSE
       /\ report' = r
  /\ leased' = FALSE /\ step' = "settle" /\ Forget /\ moments' = {} /\ Rest /\ UNCHANGED todo

\* apply_post_action_wait: an error of the wait is one after the gesture.
Settled(r) ==
  {r} \union
    (IF r.outcome = "ok" /\ kind # "click" THEN {Report("error", "delivered")} ELSE {})

\* CommandScope::complete: so is a trace that cannot be written, unless nothing was done.
Completed(r) == {r, Report("error", r.delivery)}

Settle ==
  /\ step = "settle" /\ UNCHANGED <<callVars, elementVars, moments, overlay, tracking, acted>>
  /\ \E r \in Settled(report) : \E s \in Completed(r) : report' = s
  /\ step' = "done" /\ UNCHANGED <<lookVars, leased>>

-----------------------------------------------------------------------------

Init ==
  /\ kind \in {"hover", "drag", "click"} /\ refs \in SUBSET EndsOf(kind)
  /\ auto \in BOOLEAN /\ (kind = "click" => refs = {} /\ ~ auto)
  /\ places = [e \in Ends |-> <<1, 1>>] /\ moves = 0
  /\ looks \in [Ends -> {"plain", "hidden", "covered"}]
  /\ \A e \in Ends \ refs : looks[e] = "plain"
  /\ step = "start" /\ todo = <<>> /\ half = 0 /\ first = Unseen /\ doubt = {}
  /\ moments = {} /\ leased = FALSE
  /\ overlay = "idle" /\ tracking = FALSE /\ acted = FALSE
  /\ report = Report("none", "unknown")

Next ==
  \/ Change
  \/ Start \/ Wait \/ Scroll \/ Acquire \/ Position \/ Size \/ Hit \/ Travel \/ Dispatch
  \/ Settle

Spec == Init /\ [][Next]_vars

-----------------------------------------------------------------------------
(* Properties *)

\* The values the state takes.
TypeOK ==
  /\ step \in {"start", "wait", "scroll", "lease", "look", "hit", "travel", "dispatch",
               "settle", "done"}
  /\ moves \in 0 .. MaxMoves /\ doubt \subseteq refs /\ half \in 0 .. MaxMoves + 1
  /\ \A e \in Ends : first[e] = Nowhere \/ first[e] \in (1 .. MaxMoves + 1) \X (1 .. MaxMoves + 1)
  /\ {leased, tracking, acted} \subseteq BOOLEAN /\ overlay \in {"idle", "travel", "drag", "effect"}
  /\ report.delivery \in {"unknown", "not_delivered", "uncertain", "delivered"}

\* The places a gesture is carried out at are places the elements had at one and the same
\* moment since the lease was taken, neither torn apart by a move between two reads nor put
\* together from two moments (drag.rs, hover.rs).
PointsAreOfOneMoment ==
  step = "dispatch" /\ refs # {} =>
    \E m \in moments : \A e \in refs : m.place[e] = first[e]

\* An element that is acted on was at that place, visible and not covered, unless the hit
\* test could not tell (require_receives_events).
ElementsAreReached ==
  step = "dispatch" =>
    \A e \in refs \ doubt : \E m \in moments : m.place[e] = first[e] /\ e \in m.plain

\* A gesture that was carried out is never reported as one that was not, whatever fails
\* after it, and one that is reported as carried out was (helpers.rs, context.rs).
GestureIsOwned ==
  step = "done" =>
    /\ acted => report.delivery \in {"delivered", "uncertain"}
    /\ report.outcome = "ok" \/ report.delivery = "delivered" => acted

\* The agent's cursor is not left dragging, though the control that started it may not have
\* been acknowledged, and shows an effect only of what may have been delivered (cancel_drag,
\* input_was_delivered).  It is there, and loses none of its controls.
CursorIsSettled ==
  step = "done" => overlay # "drag" /\ (overlay = "effect" => Confirmed(report))

PointerIsHonest ==
  PointsAreOfOneMoment /\ ElementsAreReached /\ GestureIsOwned /\ CursorIsSettled

-----------------------------------------------------------------------------
(* What the looks under the lease establish *)

\* The looks that may be left, and the ends of which the first look, or both, are over.
Agendas ==
  CASE refs = Ends -> {<<<<"from", n>>, <<"to", 1>>, <<"from", 2>>, <<"to", 2>>>> : n \in 0 .. 1}
                      \union {<<<<"to", n>>, <<"from", 2>>, <<"to", 2>>>> : n \in 0 .. 1}
                      \union {<<<<"from", 2>>, <<"to", 2>>>>, <<<<"to", 2>>>>, <<>>}
    [] refs = {} -> {<<>>}
    [] OTHER -> {<<<<e, n>>, <<e, 2>>>> : e \in refs, n \in 0 .. 1}
                \union {<<<<e, 2>>>> : e \in refs} \union {<<>>}
Before == IF refs = Ends /\ End = "to" THEN {"from"} ELSE {}
Looked == IF todo = <<>> \/ Nth = 2 THEN refs ELSE Before
Twice == IF todo = <<>> THEN refs ELSE IF Nth = 2 THEN Before ELSE {}
Now == IF step = "hit" THEN {End} ELSE {}

Pairs == [Ends -> Nat \X Nat]

\* The versions only grow.  A place that was pieced together from two reads is older
\* than the place the element is at.
KnownPlace(e) == first[e][1] <= places[e][1] /\ (first[e][1] = places[e][1] => first[e] = places[e])

\* A moment at which all the first looks were over: what is seen at the second look, and
\* is the same, was so at that moment.
Between(m, e) ==
  /\ first[e][1] <= m.place[e][1]
  /\ first[e][1] = m.place[e][1] => first[e] = m.place[e]
  /\ todo # <<>> /\ half # 0 /\ e = End => m.place[e][1] <= half
  /\ e \in Twice \/ (Nth = 2 /\ e \in Now) => m.place[e] = first[e]

ReachedAt(m, e) == m.place[e] = first[e] /\ e \in m.plain

LooksAreSound ==
  /\ todo \in Agendas /\ first \in Pairs
  /\ step \in {"look", "hit", "scroll"} => todo # <<>>
  /\ step \in {"travel", "dispatch"} => todo = <<>>
  /\ step = "scroll" => Nth = 1
  /\ step # "look" => half = 0
  /\ todo # <<>> => half <= places[End][1]
  /\ Moment(places, looks) \in moments
  /\ \A m \in moments : m.place \in Pairs /\ \A e \in Ends : m.place[e][1] <= places[e][1]
  /\ \A e \in Looked \union Now : KnownPlace(e)
  /\ todo = <<>> \/ Nth = 2 => \E m \in moments : \A e \in refs : Between(m, e)
  /\ \A e \in Looked \ doubt : \E m \in moments : ReachedAt(m, e)

PointerInv ==
  /\ refs \subseteq Ends /\ places \in Pairs /\ half \in Nat
  /\ looks \in [Ends -> {"plain", "hidden", "covered"}]
  /\ step \in {"start", "wait", "scroll", "lease", "look", "hit", "travel", "dispatch", "settle", "done"}
  /\ step \in {"look", "hit", "travel", "dispatch"} => leased
  /\ leased => step \in {"look", "hit", "scroll", "travel", "dispatch"} /\ LooksAreSound
  /\ step \notin {"settle", "done"} => ~ acted
  /\ step \notin {"dispatch", "settle", "done"} => overlay = "idle"
  /\ step = "dispatch" => overlay \in {"idle", IF kind = "drag" THEN "drag" ELSE "travel"}
  /\ step \in {"settle", "done"} =>
       /\ acted => report.delivery \in {"delivered", "uncertain"}
       /\ report.outcome = "ok" => report.delivery = "delivered"
       /\ report.delivery = "delivered" => acted
       /\ overlay # "drag" /\ (overlay = "effect" => Confirmed(report))
=============================================================================
