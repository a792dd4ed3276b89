---------------------------- MODULE Actionability ----------------------------
(***************************************************************************)
(* What makes a target actionable and what makes an action verified.       *)
(* crates/core/src/actionability/ and post_action.rs, with what the macOS  *)
(* adapter tells of the live element (actions/post_state.rs).              *)
(*                                                                         *)
(* RefAction takes both as given; here they are the subject.  A command    *)
(* reads the element in several calls: its attributes, its place in the    *)
(* window, three times its bounds while it may be moving, then everything  *)
(* again, and what lies at up to five of its points.  The element changes  *)
(* in between.  Then the adapter acts, at once, late or never, and the     *)
(* state is read until it is as wanted or time is up.                      *)
(***************************************************************************)
EXTENDS Naturals, FiniteSets

CONSTANTS
  MaxShakes,   \* bound: changes of the element that the command does not make
  Spots        \* the points of the element that are tried, the centre first: 1 .. n

VARIABLES
  plan,      \* what is asked for
  element,   \* the element
  shakes,    \* changes of it
  turn,      \* the step the command is at
  evidence,  \* what was read of the element
  strict,    \* the position was found stable
  samples,   \* equal bounds read one after the other, and the last of them
  spot,      \* the next point to test
  tally,     \* answers of the hit tests
  target,    \* the point that was found to reach the element, 0 without one
  held,      \* history: what was true of the element at a moment since the last check began
  prior,     \* the value read before acting
  answer,    \* what the adapter answered
  pending,   \* the effect is still to come
  effected,  \* history: the adapter changed the element
  met,       \* history: the element was as wanted at a moment after the action began
  verdict    \* what the caller is told

looking == <<evidence, strict, samples, spot, tally, target, held>>
acting == <<prior, answer, pending, effected, met>>
vars == <<plan, element, shakes, turn, looking, acting, verdict>>

\* Values: off, on, neither.  NoValue: not readable.
Values == 0 .. 2
NoValue == 3
NoBounds == 0
Flat == 1

\* The element is the one of the ref, enabled, not hidden, in its window.
Gates == {"same", "enabled", "shown", "inside"}
NoEvidence == [same |-> FALSE, enabled |-> FALSE, hidden |-> FALSE, place |-> NoBounds,
               off |-> "unknown"]
NotYet == [ok |-> FALSE, disposition |-> "none"]
Told(ok, d) == [ok |-> ok, disposition |-> d]

\* A click, typing, a toggle or a check, with --headed or without, of an element that
\* offers the action or does not, and is a text field or not.
Plans == {p \in [action : {"click", "type", "toggle", "check"},
                 headed : BOOLEAN, offers : BOOLEAN, text : BOOLEAN] :
            ~ p.text => p.action = "type"}

-----------------------------------------------------------------------------
(* What an action asks for *)

Requires(a) ==
  CASE a = "click" -> {"visible", "stable", "enabled", "events"}
    [] a = "type" -> {"visible", "enabled", "editable"}
    [] OTHER -> {"visible", "stable", "enabled"}

Headed(p) == p.headed /\ p.action = "click"

Semantic(p) == p.action = "click" /\ p.offers

\* How a pointer action is delivered.
Delivery(p) ==
  IF "events" \notin Requires(p.action) THEN "none"
  ELSE IF ~ Headed(p) /\ Semantic(p) THEN "semantic"
  ELSE "physical"

\* Without a pointer, an element of a closed menu needs no place on the screen.
NeedsGeometry(p) == p.headed \/ ~ (Semantic(p) \/ (p.action = "type" /\ p.offers))

NeedsStability(p) == "stable" \in Requires(p.action) /\ Delivery(p) # "semantic"

ReadsBack(a) == a \in {"type", "toggle", "check"}

-----------------------------------------------------------------------------
(* The gates: pass, fail, unknown, or denied, which no waiting changes *)

Visible(p, e) ==
  IF e.hidden \/ e.off = "yes" THEN "fail"
  ELSE IF ~ NeedsGeometry(p) /\ e.off = "unknown" /\ e.place # NoBounds THEN "pass"
  ELSE CASE e.place = NoBounds -> "unknown"
         [] e.place = Flat -> "fail"
         [] OTHER -> "pass"

\* The bounds of the snapshot are those that the element had at first.
Stable(e) ==
  IF e.place = NoBounds THEN "unknown"
  ELSE IF strict THEN IF e.place = samples.place THEN "pass" ELSE "fail"
  ELSE IF e.place = Flat + 1 THEN "pass" ELSE "unknown"

Enabled(e) == IF e.enabled THEN "pass" ELSE "fail"

Editable(p) == IF p.text THEN "pass" ELSE "denied"

\* A click without a press, and typing without a capability, need a pointer or the
\* keyboard, which a headless command does not have.
Supported(p) == IF p.offers \/ (p.headed /\ p.action \in {"click", "type"})
                THEN "pass" ELSE "denied"

\* The checks in their order.
Checks(p, e) ==
  << Visible(p, e),
     IF NeedsStability(p) THEN Stable(e) ELSE "pass",
     Enabled(e),
     IF "editable" \in Requires(p.action) THEN Editable(p) ELSE "pass",
     Supported(p) >>

\* A plausible mistake: any check that no waiting changes decides.
AnyDenied(s) == \E i \in DOMAIN s : s[i] = "denied"

\* The first check that is in the way decides whether waiting helps.
Terminal(s) == \E i \in DOMAIN s : s[i] = "denied" /\ \A j \in 1 .. i - 1 : s[j] = "pass"

OnlyStabilityPending(s) == s[2] # "pass" /\ \A i \in DOMAIN s \ {2} : s[i] = "pass"

Passed(s) == \A i \in DOMAIN s : s[i] = "pass"

-----------------------------------------------------------------------------
Truly(e) == {g \in Gates : CASE g = "same" -> e.same
                              [] g = "enabled" -> e.enabled
                              [] g = "shown" -> ~ e.hidden
                              [] OTHER -> ~ e.out}

Sampled(n, place) == [count |-> n, place |-> place]

\* Once more the same bounds, other ones, or none.
Observe(s, place) ==
  IF place = NoBounds THEN Sampled(0, NoBounds)
  ELSE IF place = s.place THEN Sampled(s.count + 1, place)
  ELSE Sampled(1, place)

Init ==
  /\ plan \in Plans
  /\ element \in [same : {TRUE}, enabled : {TRUE}, hidden : {FALSE}, out : {FALSE},
                  place : Flat .. Flat + 2 \cup {NoBounds}, covered : {{}, {1}}, value : {0}]
  /\ (element.covered # {} => Delivery(plan) = "physical")
  /\ shakes = 0 /\ turn = "look"
  /\ evidence = NoEvidence /\ strict = FALSE /\ samples = Sampled(0, NoBounds)
  /\ spot = 1 /\ tally = {} /\ target = 0 /\ held = {}
  /\ prior = NoValue /\ answer = NotYet /\ pending = FALSE /\ effected = FALSE /\ met = FALSE
  /\ verdict = NotYet

Forget ==
  /\ evidence' = NoEvidence /\ strict' = FALSE /\ samples' = Sampled(0, NoBounds)
  /\ spot' = 1 /\ tally' = {} /\ target' = 0 /\ held' = {}

Refuse ==
  /\ turn' = "done" /\ verdict' = Told(FALSE, "not_delivered") /\ Forget
  /\ UNCHANGED <<plan, element, shakes, acting>>

\* The attributes of the element, in one call.  What is read of an element that is
\* another by now is refused.
Look ==
  /\ turn = "look"
  /\ IF element.same
     THEN /\ evidence' = [same |-> TRUE, enabled |-> element.enabled, hidden |-> element.hidden,
                          place |-> element.place, off |-> "unknown"]
          /\ held' = Truly(element)
          /\ turn' = "judge"
          /\ UNCHANGED <<plan, element, shakes, strict, samples, spot, tally, target,
                         acting, verdict>>
     ELSE Refuse

\* No answer, an incomplete one, or no time left.
Unanswered == turn \in {"look", "judge", "sample", "hit"} /\ Refuse

\* The bounds of the window the element is in, which may have none: whether what
\* was read lies in it.
Viewport(off) == [evidence EXCEPT !.off = off]

\* What follows a check that passed.
Onward == IF NeedsStability(plan) /\ ~ strict THEN "sample" ELSE "act"

\* The gates, and then the hit tests, or the samples, or the action.
Judge ==
  /\ turn = "judge"
  /\ \E known \in BOOLEAN :
       LET off == IF known /\ evidence.place # NoBounds
                  THEN IF element.out THEN "yes" ELSE "no" ELSE "unknown"
           checks == Checks(plan, Viewport(off))
       IN /\ evidence' = Viewport(off)
          /\ \/ /\ Passed(checks)
                /\ turn' = IF Delivery(plan) = "physical" THEN "hit" ELSE Onward
                /\ UNCHANGED verdict
             \/ /\ OnlyStabilityPending(checks) /\ ~ strict
                /\ turn' = "sample"
                /\ UNCHANGED verdict
             \/ /\ ~ Passed(checks) /\ (OnlyStabilityPending(checks) => strict)
                /\ turn' = "done"
                /\ verdict' = Told(FALSE, IF Terminal(checks) THEN "denied" ELSE "not_delivered")
  /\ UNCHANGED <<plan, element, shakes, strict, samples, spot, tally, target, held, acting>>

\* A plausible mistake: what passed before the samples is good enough after them.
ActOnceStable ==
  /\ turn = "sample"
  /\ samples' = Observe(samples, element.place)
  /\ strict' = (samples'.count = 3)
  /\ turn' = IF strict' THEN "act" ELSE "sample"
  /\ held' = IF strict' THEN Truly(element) ELSE held
  /\ spot' = 1 /\ tally' = {} /\ target' = 0
  /\ UNCHANGED <<plan, element, shakes, evidence, acting, verdict>>

\* Three equal bounds in a row, after which everything is looked at again.
Sample ==
  /\ turn = "sample"
  /\ samples' = Observe(samples, element.place)
  /\ strict' = (samples'.count = 3)
  /\ turn' = IF strict' THEN "look" ELSE "sample"
  /\ spot' = 1 /\ tally' = {} /\ target' = 0 /\ held' = {}
  /\ UNCHANGED <<plan, element, shakes, evidence, acting, verdict>>

-----------------------------------------------------------------------------
(* Does it receive events *)

Answers(n) == {"unknown", IF n \notin element.covered /\ element.place = evidence.place
                          THEN "reaches" ELSE "occluded"}

\* A point that reaches the element ends the tests; when none does, an answer that
\* names another element blocks, and no answer at all does not.
Hit ==
  /\ turn = "hit"
  /\ \E a \in Answers(spot) :
       \/ /\ a = "reaches"
          /\ target' = spot /\ tally' = tally
          /\ turn' = Onward
          /\ UNCHANGED <<spot, verdict>>
       \/ /\ a # "reaches"
          /\ tally' = tally \cup {a}
          /\ IF spot + 1 \in Spots
             THEN spot' = spot + 1 /\ UNCHANGED <<turn, verdict>>
             ELSE /\ UNCHANGED spot
                  /\ IF "occluded" \in tally'
                     THEN turn' = "done" /\ verdict' = Told(FALSE, "not_delivered")
                     ELSE /\ turn' = Onward
                          /\ UNCHANGED verdict
          /\ UNCHANGED target
  /\ UNCHANGED <<plan, element, shakes, evidence, strict, samples, held, acting>>

-----------------------------------------------------------------------------
(* Acting *)

\* The value before a toggle or before typing, if it can be read, and for typing
\* also where the text will go.
Before ==
  /\ turn = "act" /\ plan.action \in {"type", "toggle"}
  /\ prior' \in {element.value, NoValue}
  /\ turn' = "execute"
  /\ UNCHANGED <<plan, element, shakes, looking, answer, pending, effected, met, verdict>>

\* What the element must be like afterwards: on, not what it was, or with the text.
Wanted(v) ==
  CASE plan.action = "check" -> v = 1
    [] plan.action = "toggle" -> prior \in {0, 1} /\ v \in {0, 1} /\ v # prior
    [] OTHER -> prior = 0 /\ v = 1

\* What the adapter can do to the value.
Effect(v) == CASE plan.action = "toggle" -> 1 - v
               [] OTHER -> 1

\* The adapter acts, now, later or not; it says "not delivered" only of nothing.
Execute ==
  /\ \/ turn = "execute"
     \/ turn = "act" /\ plan.action \in {"click", "check"}
  /\ \E ok \in BOOLEAN, d \in {"not_delivered", "unknown", "delivery_uncertain",
                               "delivered_unverified", "delivered_verified"} :
       /\ ok => d \notin {"unknown", "delivery_uncertain"}
       /\ ~ ok => d # "delivered_verified"
       /\ answer' = Told(ok, d)
       /\ \/ /\ d # "not_delivered" /\ effected' = TRUE /\ pending' = FALSE
             /\ element' = IF ReadsBack(plan.action) /\ element.value # 2
                           THEN [element EXCEPT !.value = Effect(@)] ELSE element
          \/ /\ d # "not_delivered" /\ ReadsBack(plan.action) /\ pending' = TRUE
             /\ UNCHANGED <<element, effected>>
          \/ UNCHANGED <<element, effected, pending>>
       /\ IF ReadsBack(plan.action) /\ (ok \/ d # "not_delivered")
          THEN turn' = "readback" /\ UNCHANGED verdict
          ELSE turn' = "done" /\ verdict' = answer'
       /\ met' = (Wanted(element.value) \/ Wanted(element'.value))
  /\ Forget
  /\ UNCHANGED <<plan, shakes, prior>>

-----------------------------------------------------------------------------
(* Reading back *)

\* A plausible mistake: what the adapter says it verified is not read again.
BelieveAdapter(v) ==
  IF answer.disposition = "delivered_verified" \/ Wanted(v) THEN "yes" ELSE "no"

\* Whether what was read is what was wanted: yes, no, or it cannot be told.
Judged(v) ==
  CASE v = NoValue \/ (plan.action # "type" /\ v = 2) -> "unknown"
    [] plan.action = "toggle" /\ prior \notin {0, 1} -> "unknown"
    [] plan.action = "type" /\ prior # 0 -> "unknown"
    [] OTHER -> IF Wanted(v) THEN "yes" ELSE "no"

WithVerified == IF answer.disposition = "delivered_unverified"
                THEN Told(TRUE, "delivered_verified") ELSE answer
WithUnverified == IF answer.disposition = "delivered_verified"
                  THEN Told(TRUE, "delivered_unverified") ELSE answer

\* A plausible mistake: a state that is not as wanted means that nothing was done.
NotDelivered == Told(FALSE, "not_delivered")

\* An error after the action does not say that it was not made.
VerificationError == Told(FALSE, IF answer.disposition = "not_delivered"
                                 THEN "not_delivered" ELSE "delivered_unverified")

\* An error of the adapter stays what it is, with the state beside it; otherwise the
\* state is read until it is as wanted or the time to settle is over.
Readback ==
  /\ turn = "readback"
  /\ turn' = "done"
  /\ \/ /\ ~ answer.ok /\ verdict' = answer
     \/ /\ answer.ok
        /\ \E v \in {element.value, NoValue} :
             verdict' = CASE Judged(v) = "yes" -> WithVerified
                          [] Judged(v) = "no" -> VerificationError
                          [] OTHER -> WithUnverified
     \/ answer.ok /\ verdict' = VerificationError
  /\ UNCHANGED <<plan, element, shakes, looking, acting>>

-----------------------------------------------------------------------------
(* The element *)

\* What the command will still read of it, while nothing of the action is under way.
Changes ==
  CASE turn \in {"act", "readback"} /\ ReadsBack(plan.action) -> {[element EXCEPT !.value = v] : v \in Values}
    [] turn = "sample" \/ (turn = "look" /\ strict) ->
         IF element.place = NoBounds THEN {}
         ELSE {[element EXCEPT !.place = @ + 1], [element EXCEPT !.same = FALSE],
               [element EXCEPT !.enabled = ~ @], [element EXCEPT !.hidden = ~ @]}
    [] turn = "judge" -> {[element EXCEPT !.out = ~ @], [element EXCEPT !.hidden = ~ @]}
    [] turn = "hit" -> {[element EXCEPT !.place = @ + 1]}
                       \cup {[element EXCEPT !.covered = S] : S \in SUBSET Spots}
    [] OTHER -> {}

Shake ==
  /\ shakes < MaxShakes /\ ~ pending
  /\ \E e \in Changes \ {element} :
       /\ element' = e
       /\ held' = IF turn \in {"judge", "hit"} THEN held \cup Truly(e) ELSE held
       /\ met' = (met \/ (turn = "readback" /\ Wanted(e.value)))
  /\ shakes' = shakes + 1
  /\ UNCHANGED <<plan, turn, evidence, strict, samples, spot, tally, target,
                 prior, answer, pending, effected, verdict>>

EffectComes ==
  /\ pending /\ turn = "readback"
  /\ pending' = FALSE /\ effected' = TRUE
  /\ element' = IF element.value = 2 THEN element ELSE [element EXCEPT !.value = Effect(@)]
  /\ met' = (met \/ Wanted(element'.value))
  /\ UNCHANGED <<plan, shakes, turn, looking, prior, answer, verdict>>

Next ==
  \/ Look \/ Unanswered \/ Judge \/ Sample \/ Hit
  \/ Before \/ Execute \/ Readback
  \/ Shake \/ EffectComes

Spec == Init /\ [][Next]_vars

-----------------------------------------------------------------------------
Dispositions == {"none", "denied", "not_delivered", "unknown", "delivery_uncertain",
                 "delivered_unverified", "delivered_verified"}

\* The steps, what was read, and what is told.
TypeOK ==
  /\ plan \in Plans /\ shakes \in 0 .. MaxShakes
  /\ turn \in {"look", "judge", "sample", "hit", "act", "execute", "readback", "done"}
  /\ element.covered \subseteq Spots /\ element.value \in Values
  /\ evidence.off \in {"yes", "no", "unknown"}
  /\ strict \in BOOLEAN /\ samples.count \in 0 .. 3
  /\ spot \in Spots /\ tally \subseteq {"unknown", "occluded"} /\ target \in Spots \cup {0}
  /\ held \subseteq Gates /\ prior \in Values \cup {NoValue}
  /\ {pending, effected, met} \subseteq BOOLEAN
  /\ {answer.disposition, verdict.disposition} \subseteq Dispositions

\* An action goes out only to the element of the ref that, since its last check began,
\* was enabled, was shown and, if its window is known, was inside of it; that was seen
\* where it had come to rest, in three samples and once more; and, for the pointer,
\* with --headed only and at a point that no other element was seen to cover.
ReadyWhenActedOn ==
  turn \in {"act", "execute"} =>
    /\ {"same", "enabled", "shown"} \subseteq held
    /\ evidence.off = "no" => "inside" \in held
    /\ NeedsStability(plan) => samples.count >= 3 /\ samples.place = evidence.place
    /\ Delivery(plan) = "physical" =>
         plan.headed /\ evidence.place > Flat /\ (target = 0 => tally = {"unknown"})

\* Waiting is given up only when nothing that may pass was in the way.
GivenUpForGood ==
  turn = "done" /\ verdict.disposition = "denied" =>
    evidence.enabled /\ ~ evidence.hidden /\ evidence.off # "yes"

\* "Not delivered" means that nothing was done and nothing is still to come; "verified"
\* that the element was as wanted at a moment after the action began.
VerdictIsTrue ==
  turn = "done" =>
    /\ verdict.disposition \in {"denied", "not_delivered"} => ~ effected /\ ~ pending
    /\ verdict = Told(TRUE, "delivered_verified") /\ ReadsBack(plan.action) => met

\* The target is actionable when it is acted on, and the outcome is what came of it.
ActionabilityIsHonest == ReadyWhenActedOn /\ GivenUpForGood /\ VerdictIsTrue

\* What the steps keep: `held` covers what was read and what is; a check that was
\* passed stays passed until everything is read again; nothing is done before the
\* adapter acts, and from then on `met` covers the element.
Elements == [same : BOOLEAN, enabled : BOOLEAN, hidden : BOOLEAN, out : BOOLEAN, place : Nat,
             covered : SUBSET (Spots \cup {1}), value : Values]
Evidences == [same : BOOLEAN, enabled : BOOLEAN, hidden : BOOLEAN, place : Nat,
              off : {"yes", "no", "unknown"}]
HeldCoversTheEvidence ==
  /\ turn \in {"judge", "hit"} => Truly(element) \subseteq held
  /\ turn \in {"judge", "hit", "act", "execute"} =>
       /\ "same" \in held
       /\ evidence.enabled => "enabled" \in held
       /\ ~ evidence.hidden => "shown" \in held
  /\ turn \in {"hit", "act", "execute"} => (evidence.off = "no" => "inside" \in held)
ChecksArePassed ==
  /\ strict => samples.count = 3
  /\ turn \in {"hit", "act", "execute"} =>
       /\ evidence.enabled /\ ~ evidence.hidden
       /\ NeedsStability(plan) /\ strict => samples.place = evidence.place
       /\ Delivery(plan) = "physical" => plan.headed /\ evidence.place > Flat
  /\ turn \in {"act", "execute"} =>
       /\ NeedsStability(plan) => strict
       /\ Delivery(plan) = "physical" => (target = 0 => tally = {"unknown"})
EffectsAreAnswered ==
  /\ turn \notin {"readback", "done"} => ~ effected /\ ~ pending
  /\ turn = "readback" =>
       /\ answer.disposition = "not_delivered" => ~ effected /\ ~ pending
       /\ answer.disposition # "denied" /\ ReadsBack(plan.action)
       /\ Wanted(element.value) => met
ActInv ==
  /\ ActionabilityIsHonest /\ HeldCoversTheEvidence /\ ChecksArePassed /\ EffectsAreAnswered
  /\ plan \in Plans /\ element \in Elements /\ evidence \in Evidences
  /\ samples \in [count : Nat, place : Nat]
  /\ spot \in Nat \ {0} /\ tally \subseteq {"unknown", "occluded"}
  /\ answer.disposition \in Dispositions
=============================================================================
