-------------------------- MODULE ActivationChain --------------------------
(***************************************************************************)
(* How the macOS adapter delivers an action to an element: a chain of      *)
(* steps that are tried until one is delivered, crates/macos/src/actions/  *)
(* {chain,chain_defs,chain_step_exec,ax_perform,ax_mutation,press_         *)
(* selection,activate_descendant,container_select,chain_menu_steps,chain_  *)
(* value_write}.rs.                                                        *)
(*                                                                         *)
(* The application is not to be trusted: it may answer "success" and do    *)
(* nothing, answer a failure and do it, do it later, or do something that  *)
(* no attribute shows.  Only an answer that refuses or does not know the   *)
(* request is believed.                                                    *)
(***************************************************************************)
EXTENDS Naturals, Sequences

CONSTANT MaxTries   \* bound: candidates, and increments, tried within a step

VARIABLES
  chain,     \* the chain that is executed
  headed,    \* whether the policy allows physical input
  at,        \* the step
  tries,     \* the candidates of the step that were tried
  stage,     \* "new", "step", "answered", "selection", "done"
  answer,    \* what the application answered
  effects,   \* what it has done, or will do: none, one, or more than one (2)
  coming,    \* of these, what it will do
  shown,     \* of these, what an attribute or a menu shows
  base,      \* what was shown before the last request
  already,   \* what is asked for, a selection or a value, was there to begin with
  readable,  \* the target publishes its selection
  meddled,   \* focus, selection, menus or the value were changed by the user meanwhile
  recorded,  \* the deliveries in the steps so far: "none", "verified", "unverified"
  earlier,   \* effects, as this step began
  denied,    \* the selection was read after a press, and was off
  missed,    \* a menu was requested when one was open or under way, unseen
  marked,    \* an item was selected, for its menu
  verdict    \* how the chain ended

given == <<chain, headed, already, readable, meddled>>
position == <<at, tries, earlier>>
world == <<effects, coming, shown>>
seen == <<denied, missed, marked>>
chainVars == <<given, position, stage, answer, world, base, recorded, seen, verdict>>

\* The static definitions: what each step does.
Chains ==
  [click |-> <<"physical", "press", "act", "descend", "select", "act">>,
   menubar_click |-> <<"act">>,
   semantic_click |-> <<"act", "act", "descend", "select", "act">>,
   right_click |-> <<"physical", "menu", "item_menu", "item_menu", "menus", "menus">>,
   set_value |-> <<"write", "increment">>,
   clear |-> <<"physical", "write">>]

Current == Chains[chain][at]
Observed == {"press", "act", "descend"}        \* perform_observed_action
Menu == {"menu", "item_menu", "menus"}
Several == {"descend", "select", "menus"}

Answers == {"yes", "no", "vague", "failed", "refused"}
Believed == {"no", "refused"}
Incrementing == at <= Len(Chains[chain]) /\ Current = "increment" /\ tries > 0
Cap(n) == IF n > 2 THEN 2 ELSE n

-----------------------------------------------------------------------------
(* How a chain ends *)

End(v) == stage' = "done" /\ verdict' = v /\ UNCHANGED <<given, position, world, base, seen>>

\* after_steps and DeliveryTracker::annotate: an error keeps what it says of
\* its own delivery, unless it says "not delivered" after one that was.
Fail(v) ==
  /\ End(IF v = "failed_not_delivered" /\ (recorded # "none" \/ Incrementing)
           THEN "failed_unverified" ELSE v)
  /\ UNCHANGED <<answer, recorded>>

\* delivery_summary, over the steps that were delivered.
With(verified) ==
  IF verified /\ recorded # "unverified" THEN "verified" ELSE "unverified"

\* terminates_chain: the action is delivered and the chain ends.
Finish(verified) ==
  /\ recorded' = With(verified)
  /\ End(With(verified))
  /\ UNCHANGED answer

NextStep ==
  /\ at' = at + 1 /\ tries' = 0 /\ earlier' = effects
  /\ stage' = "step" /\ answer' = "yes"
  /\ UNCHANGED <<given, world, base, verdict>>

\* The step was not delivered: another candidate, or the next step.
GoOn ==
  \/ NextStep
  \/ /\ Current \in Several /\ tries < MaxTries
     /\ tries' = tries + 1
     /\ stage' = "step" /\ answer' = "yes"
     /\ UNCHANGED <<given, at, earlier, world, base, verdict>>

-----------------------------------------------------------------------------

Begin ==
  /\ stage = "new"
  /\ chain' \in DOMAIN Chains /\ headed' \in BOOLEAN
  /\ chain' = "menubar_click" => headed'
  /\ already' \in BOOLEAN /\ readable' \in BOOLEAN
  /\ stage' = "step"
  /\ UNCHANGED <<meddled, position, answer, world, base, recorded, seen, verdict>>

\* ensure_budget, or an error in front of the request.
Expire ==
  /\ stage = "step" /\ at <= Len(Chains[chain])
  /\ Fail("failed_not_delivered")

\* exhaustion_error
Exhaust ==
  /\ stage = "step" /\ at > Len(Chains[chain])
  /\ End(IF recorded = "none" THEN "failed_not_delivered" ELSE "failed_unverified")
  /\ UNCHANGED <<answer, recorded>>

\* step_allowed
SkipPhysical ==
  /\ stage = "step" /\ at <= Len(Chains[chain])
  /\ Current = "physical" /\ ~ headed
  /\ NextStep
  /\ UNCHANGED <<recorded, seen>>

\* The action is not advertised, the attribute cannot be set, or there is no
\* candidate, or no menu is wanted any more.
NotOffered ==
  /\ stage = "step" /\ at <= Len(Chains[chain])
  /\ Current # "physical" /\ ~ Incrementing
  /\ GoOn
  /\ UNCHANGED <<recorded, seen>>

\* select_containing_item, before its menu is asked for; an error of it tells
\* of this one write.
MarkItem ==
  /\ stage = "step" /\ at <= Len(Chains[chain])
  /\ Current = "item_menu" /\ tries = 0
  /\ marked' = TRUE /\ UNCHANGED <<denied, missed>>
  /\ \/ /\ tries' = 1
        /\ UNCHANGED <<given, at, earlier, stage, answer, world, base, recorded, verdict>>
     \/ NextStep /\ UNCHANGED recorded

\* The value to set is the value that is there.
AlreadyThere ==
  /\ stage = "step" /\ at <= Len(Chains[chain])
  /\ Current = "increment" /\ tries = 0
  /\ already \/ meddled
  /\ End("satisfied")
  /\ UNCHANGED <<answer, recorded>>

\* What the application may do when it gives an answer.  A write that the
\* attribute does not support is not done either.
Believe(a) == a \in Believed \/ (a = "vague" /\ Current \in {"select", "write"})

\* One request.  An open menu that the probe sees is enough (menu_probe); the
\* probe sees none also when it is not answered.
Ask ==
  /\ stage = "step" /\ at <= Len(Chains[chain])
  /\ Current = "physical" => headed
  /\ Current = "item_menu" => tries = 1
  /\ answer' \in IF Current = "physical" THEN {"yes", "failed", "refused"} ELSE Answers
  /\ \E probed \in BOOLEAN :
       /\ Current \in Menu /\ probed => shown = 0
       /\ missed' = (missed \/ (Current \in Menu /\ effects > 0 /\ (~ probed \/ shown = 0)))
  /\ UNCHANGED <<denied, marked>>
  /\ \/ UNCHANGED world
     \/ /\ ~ Believe(answer')
        /\ effects' = Cap(effects + 1)
        /\ \/ coming' = Cap(coming + 1) /\ UNCHANGED shown
           \/ shown' = Cap(shown + 1) /\ UNCHANGED coming
           \/ UNCHANGED <<coming, shown>>
  /\ base' = shown
  /\ stage' = "answered"
  /\ UNCHANGED <<given, position, recorded, verdict>>

\* What was to come is there.
Arrive ==
  /\ stage # "done" /\ coming > 0
  /\ coming' = coming - 1 /\ shown' = Cap(shown + 1)
  /\ UNCHANGED <<given, position, stage, answer, effects, base, recorded, seen, verdict>>

\* The user, or the application of itself, changes what the readings below
\* read: none of them can tell whose doing it is.
Meddle ==
  /\ stage \notin {"new", "done"} /\ ~ meddled
  /\ meddled' = TRUE
  /\ UNCHANGED <<chain, headed, already, readable, position, stage, answer, world, base,
                 recorded, seen, verdict>>

-----------------------------------------------------------------------------
(* What is made of the answer (ax_mutation.rs) *)

Answered(kinds, answers) == stage = "answered" /\ Current \in kinds /\ answer \in answers

Refused ==
  /\ stage = "answered" /\ answer = "refused"
  /\ Fail("failed_not_delivered")

\* An action that is not supported leaves it to the next; a value that cannot
\* be written is an error.
Unsupported ==
  /\ \/ Answered(Observed \cup Menu \cup {"increment"}, {"no"})
     \/ Answered({"select"}, {"no", "vague"})
  /\ ~ Incrementing
  /\ GoOn
  /\ UNCHANGED <<recorded, seen>>

Unwritable ==
  /\ Answered({"write"}, {"no", "vague"})
  /\ Fail("failed_not_delivered")

\* The events of a click or of keys were posted, all or some of them.
Posted ==
  /\ Answered({"physical"}, {"yes", "failed"})
  /\ IF answer = "failed" THEN Fail("failed_unverified")
     ELSE IF chain = "right_click"
            THEN NextStep /\ recorded' = "unverified" /\ UNCHANGED seen
            ELSE Finish(FALSE)

\* perform_observed_action: a change that is seen afterwards, of focus,
\* selection or menus, verifies the delivery, whoever made it.
SeenAfter ==
  /\ Answered(Observed, {"yes", "vague", "failed"})
  /\ shown > base \/ meddled
  /\ Finish(TRUE)

\* Success that is not seen is delivered; the selection is to be read after a press.
UnseenSuccess ==
  /\ Answered(Observed, {"yes"})
  /\ IF Current = "press"
       THEN stage' = "selection" /\ UNCHANGED <<given, position, answer, world, base,
                                                recorded, seen, verdict>>
       ELSE Finish(FALSE)

\* A plausible mistake: an effect that is not seen is no effect.
UnseenFailureGoesOn ==
  /\ Answered(Observed, {"vague", "failed"})
  /\ GoOn
  /\ UNCHANGED <<recorded, seen>>

\* settle_uninformative_perform: an effect that is not seen may still be one.
UnseenFailure ==
  /\ Answered(Observed, {"vague", "failed"})
  /\ Fail("failed_uncertain")

\* outcome_from_selection, at the end of the settle time: on, ...
SelectionOn ==
  /\ stage = "selection" /\ readable
  /\ already \/ shown > base \/ meddled
  /\ Finish(TRUE)

\* ... unpublished or not readable, ...
SelectionUnknown ==
  /\ stage = "selection"
  /\ Finish(FALSE)

\* ... or off: the press is a delivery without effect, and the chain goes on.
SelectionOff ==
  /\ stage = "selection" /\ readable
  /\ recorded' = "unverified"
  /\ denied' = TRUE /\ UNCHANGED <<missed, marked>>
  /\ NextStep

\* The selection that was written is read back (verify_selection).
SelectionWritten ==
  /\ Answered({"select"}, {"yes"})
  /\ \/ (already \/ shown > base \/ meddled) /\ Finish(TRUE)
     \/ Fail("failed_unverified")

\* wait_for_new_menu: a menu that is not seen leaves it to the next step.  The
\* deadline may pass between two looks at it; that error says nothing of its
\* delivery, and only the steps before are counted.
MenuAsked ==
  /\ Answered(Menu, {"yes"})
  /\ \/ (shown > 0 \/ meddled) /\ Finish(TRUE)
     \/ NextStep /\ recorded' = "unverified" /\ UNCHANGED seen
     \/ Fail("failed_not_delivered")
     \/ Fail("failed_unverified")

\* set_dynamic_verified: the value is read back; an equal value verifies it,
\* the one that was there before included.
ValueWritten ==
  /\ Answered({"write"}, {"yes", "failed"})
  /\ \/ (already \/ shown > base \/ meddled) /\ Finish(TRUE)
     \/ IF answer = "failed" THEN Fail("failed_uncertain")
        ELSE Finish(FALSE) \/ Fail("failed_unverified")

\* increment_to_value: at the target, on the way, not getting on, or not read;
\* so it ends, too, if the control does not take another increment.
Incremented ==
  /\ Answered({"increment"}, {"yes"}) \/ (Incrementing /\ Answered({"increment"}, {"no"}))
  /\ \/ (shown > base \/ meddled) /\ Finish(TRUE)
     \/ /\ answer = "yes" /\ (shown > base \/ meddled) /\ tries < MaxTries
        /\ tries' = tries + 1 /\ stage' = "step"
        /\ UNCHANGED <<given, at, earlier, answer, world, base, recorded, seen, verdict>>
     \/ Fail("failed_unverified")
     \/ Finish(FALSE)

\* Any other answer is uncertain.
Uncertain ==
  /\ \/ Answered(Menu \cup {"increment"}, {"vague", "failed"})
     \/ Answered({"select"}, {"failed"})
  /\ Fail("failed_uncertain")

-----------------------------------------------------------------------------

Init ==
  /\ chain = "click" /\ headed = FALSE /\ at = 1 /\ tries = 0 /\ stage = "new"
  /\ answer = "yes" /\ effects = 0 /\ coming = 0 /\ shown = 0 /\ base = 0
  /\ already = FALSE /\ readable = FALSE /\ meddled = FALSE
  /\ recorded = "none" /\ earlier = 0
  /\ denied = FALSE /\ missed = FALSE /\ marked = FALSE /\ verdict = "none"

Next ==
  \/ Begin \/ Expire \/ Exhaust \/ SkipPhysical \/ NotOffered \/ MarkItem \/ AlreadyThere \/ Ask
  \/ Arrive \/ Meddle
  \/ Refused \/ Unsupported \/ Unwritable \/ Posted \/ SeenAfter \/ UnseenSuccess
  \/ UnseenFailure \/ SelectionOn \/ SelectionUnknown \/ SelectionOff \/ SelectionWritten
  \/ MenuAsked \/ ValueWritten \/ Incremented \/ Uncertain

Spec == Init /\ [][Next]_chainVars

-----------------------------------------------------------------------------
(* Properties *)

TypeOK ==
  /\ chain \in DOMAIN Chains /\ headed \in BOOLEAN /\ at \in 1 .. 7 /\ tries \in 0 .. MaxTries
  /\ stage \in {"new", "step", "answered", "selection", "done"} /\ answer \in Answers
  /\ {effects, coming, shown, base, earlier} \subseteq 0 .. 2
  /\ {already, readable, meddled} \subseteq BOOLEAN
  /\ recorded \in {"none", "verified", "unverified"}
  /\ {denied, missed, marked} \subseteq BOOLEAN
  /\ verdict \in {"none", "verified", "unverified", "satisfied", "failed_not_delivered",
                  "failed_unverified", "failed_uncertain"}

\* A chain goes on to another request only where it must be unaware of what the
\* one before did: the selection was read after the press, and was off; a menu
\* was requested, and no probe saw it; or a value is raised step by step.  The
\* code takes such a reading for the absence of an effect (chain_delivery.rs:35-42);
\* an effect that comes later than the reading makes two: see OneEffect.
ActsAgainOnlyUnseen ==
  effects > 1 => \/ chain = "click" /\ denied
                 \/ chain = "right_click" /\ missed
                 \/ chain = "set_value" /\ at = 2

\* chain_defs.rs:53-56 says that a right click cannot raise a second menu, because
\* every step looks for an open one first, and chain_delivery.rs:30-34 that the
\* chain goes on only after a step that provably changed nothing, because a second
\* mutation could double-act.  So nothing but increments would be done twice.
OneEffect == chain # "set_value" => effects <= 1

\* "Not delivered", after which SKILL.md:117 calls a retry safe, is said only when
\* nothing was done, but for one case: the application accepted the first request
\* for a menu, and the deadline passed between two looks at whether it is open.
\* (That the item of the menu was selected for it is not counted.)  "Verified" is
\* said when the effect shows, what is asked for was there before, or someone else
\* changed what is read; "satisfied" only when nothing was done.
ReportIsTrue ==
  /\ verdict = "failed_not_delivered" /\ effects > 0 =>
       earlier = 0 /\ answer = "yes" /\ Current \in Menu
  /\ verdict = "verified" => shown > 0 \/ already \/ meddled
  /\ verdict = "satisfied" => effects = 0 /\ recorded = "none" /\ (already \/ meddled)

\* What was done in the steps before was counted by them, and what is done in
\* this one was not refused; increments only repeat what may be repeated.
Repeating == chain = "set_value" /\ at = 2 /\ tries > 0
EffectsAreCounted ==
  /\ earlier > 0 => recorded = "unverified" /\ at > 1 /\ chain \in {"click", "right_click"}
  /\ earlier > 0 /\ chain = "click" => denied
  /\ chain \notin {"click", "right_click"} => recorded = "none"
  /\ stage = "new" => at = 1 /\ tries = 0 /\ earlier = 0 /\ recorded = "none"
  /\ stage \in {"new", "step"} => effects = earlier \/ Repeating
  /\ stage = "answered" =>
       effects = earlier \/ Repeating \/ (effects = Cap(earlier + 1) /\ ~ Believe(answer))
  /\ stage = "selection" => effects \in {earlier, Cap(earlier + 1)}
ChainInv ==
  /\ ActsAgainOnlyUnseen /\ ReportIsTrue
  /\ chain \in DOMAIN Chains /\ at \in Nat \ {0} /\ tries \in Nat
  /\ effects \in 0 .. 2 /\ coming \in 0 .. 2 /\ shown \in 0 .. 2 /\ base \in 0 .. 2
  /\ earlier \in 0 .. 2
  /\ recorded \in {"none", "verified", "unverified"}
  /\ (stage = "done") = (verdict # "none")
  /\ stage # "done" => recorded # "verified" /\ EffectsAreCounted
  /\ stage \in {"answered", "selection"} => at <= Len(Chains[chain])
  /\ stage = "selection" => chain = "click" /\ at > 1
=============================================================================
