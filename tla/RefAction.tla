----------------------------- MODULE RefAction ------------------------------
(***************************************************************************)
(* One ref action: from the poll for an actionable target to the verdict.  *)
(* crates/core/src/ref_action_wait.rs, ref_action_poll.rs, ref_action.rs   *)
(* and post_action.rs.                                                     *)
(*                                                                         *)
(* A client first polls without the interaction lease, then takes it,      *)
(* resolves the ref again, checks the element, may scroll it into view,    *)
(* and makes one input.  The application changes by itself at any time, in *)
(* answer to what clients do to it, and may destroy the element a handle   *)
(* stands for or show another in its place.  The agent behind a client     *)
(* repeats a failed call if it was told that this is safe.                 *)
(*                                                                         *)
(* The platform adapter is external.  Of its errors the model assumes what *)
(* core does: an error that says "not delivered" comes from a call that    *)
(* did nothing to the application.                                         *)
(***************************************************************************)
EXTENDS Naturals

CONSTANTS
  Clients,      \* concurrent commands, of any processes
  Handles,      \* native elements
  Requests,     \* what the clients may have been asked for, None for nothing
  MaxCalls,     \* bound: calls of all clients together
  None          \* no client, no element, no verdict

\* What a command asks for: its action and the policy it is run with.
Kinds ==
  [wait : BOOLEAN,        \* a positive --timeout-ms
   headed : BOOLEAN,      \* the window is focused first
   scrolls : BOOLEAN,     \* it must be visible: Action::requires_scroll_into_view
   settles : BOOLEAN,     \* its position must be stable: never if semantic
   pointer : {"semantic", "physical", "none"},
   readback : BOOLEAN]    \* Action::requires_state_readback

ASSUME RefActionAssumption ==
  /\ None \notin Clients /\ None \notin Handles /\ None \notin Kinds
  /\ MaxCalls \in Nat \ {0}
  /\ Requests \subseteq [Clients -> Kinds \cup {None}]

VARIABLES
  shown,      \* the element that the ref resolves to
  cond,       \* the condition it is in
  lease,      \* the client that has the interaction lease
  pc,         \* the step each client is at
  request,    \* what each client was asked for
  calls,      \* the calls that were made
  handle,     \* the element each client resolved the ref to
  expired,    \* the deadline of the call has passed
  scrolled,   \* the call scrolled the element into view
  drifted,    \* the application changed by itself since the check before the input passed
  landed,     \* inputs of each client that the application saw
  result      \* what the adapter returned, then what the caller is told

Asked(wait, headed, scrolls, settles, pointer, readback) ==
  [wait |-> wait, headed |-> headed, scrolls |-> scrolls, settles |-> settles,
   pointer |-> pointer, readback |-> readback]

HeadlessClick == Asked(TRUE, FALSE, TRUE, FALSE, "semantic", FALSE)
HeadedClick == Asked(TRUE, TRUE, TRUE, TRUE, "physical", FALSE)
SetValueAtOnce == Asked(FALSE, FALSE, TRUE, FALSE, "none", TRUE)
Toggle == Asked(TRUE, FALSE, TRUE, TRUE, "none", TRUE)
ScrollTo == Asked(FALSE, FALSE, FALSE, TRUE, "none", FALSE)

\* One client alone, asked for an action of any kind, and clients that contend.
Alone ==
  {[c \in Clients |-> IF c = CHOOSE d \in Clients : TRUE THEN q ELSE None] :
     q \in {HeadlessClick, HeadedClick, SetValueAtOnce, Toggle, ScrollTo}}
AloneAndTogether == Alone \cup {[c \in Clients |-> HeadedClick]}

app == <<shown, cond>>
vars == <<app, lease, pc, request, calls, handle, expired, scrolled, drifted,
          landed, result>>

Contract == INSTANCE DeliveryContract WITH
              verdict <- [c \in Clients |-> IF pc[c] = "done" THEN result[c] ELSE None]

\* An element that is gone, ambiguous or disabled is one of the failures that
\* any resolution and any check can end with.
Conditions == {"ready", "moving", "covered", "offscreen"}

Leased == {"focus", "resolve", "check", "settle", "recheck", "scroll", "trace",
           "input", "readback", "confirm"}
Steps == {"idle", "poll", "polled", "acquire", "after", "done", "dead"} \cup Leased

\* Dispositions that the errors of the adapter carry.
Failures == {"unknown", "not_delivered", "delivery_uncertain", "delivered_unverified"}

Told(ok, d) == [ok |-> ok, disposition |-> d]

Goto(c, step) == pc' = [pc EXCEPT ![c] = step]

-----------------------------------------------------------------------------
(* Helpers of the code *)

\* mark_pre_dispatch_resolution_failure
MarkPreDispatch(d) == IF d = "unknown" THEN "not_delivered" ELSE d

\* after_scroll, where the call has scrolled
AfterScroll(c, d) ==
  IF scrolled[c] /\ d \in {"not_delivered", "unknown"} THEN "delivery_uncertain" ELSE d

\* The gates of actionability::check_with_stability, with strict stability.
Actionable(q, k) ==
  \/ k = "ready"
  \/ k = "covered" /\ q.pointer # "physical"
  \/ k = "moving" /\ ~ q.settles
  \/ k = "offscreen" /\ ~ q.scrolls

\* should_scroll_after_preflight
NeedsScroll(q, k) == q.scrolls /\ k = "offscreen"

Verifies(r) ==
  IF r.disposition = "delivered_unverified" THEN Told(r.ok, "delivered_verified") ELSE r

Unverifies(r) ==
  IF r.disposition = "delivered_verified" THEN Told(r.ok, "delivered_unverified") ELSE r

\* A plausible mistake: an early return on which the lease is not dropped.
FailKeepsLease(c, d) ==
  /\ Goto(c, "done")
  /\ result' = [result EXCEPT ![c] = Told(FALSE, d)]
  /\ handle' = [handle EXCEPT ![c] = None]
  /\ drifted' = [drifted EXCEPT ![c] = FALSE]
  /\ UNCHANGED <<app, lease, request, calls, expired, scrolled, landed>>

\* A call ends with an error, and with it the scope that owns the lease.
Fail(c, d) ==
  /\ Goto(c, "done")
  /\ result' = [result EXCEPT ![c] = Told(FALSE, d)]
  /\ lease' = IF lease = c THEN None ELSE lease
  /\ handle' = [handle EXCEPT ![c] = None]
  /\ drifted' = [drifted EXCEPT ![c] = FALSE]
  /\ UNCHANGED <<app, request, calls, expired, scrolled, landed>>

\* The step a client takes that neither ends the call nor touches the
\* application, the lease or the result.
Proceed(c, step, h) ==
  /\ Goto(c, step)
  /\ handle' = [handle EXCEPT ![c] = h]
  /\ UNCHANGED <<app, lease, request, calls, expired, scrolled, landed, result>>

\* The application answers in whatever way it likes.
Reacts == shown' \in Handles /\ cond' \in Conditions

-----------------------------------------------------------------------------
(* Polling, without the lease *)

Start(c) ==
  /\ pc[c] = "idle" /\ request[c] # None /\ calls < MaxCalls
  /\ Goto(c, IF request[c].wait THEN "poll" ELSE "acquire")
  /\ calls' = calls + 1
  /\ UNCHANGED <<app, lease, request, handle, expired, scrolled, drifted, landed, result>>

\* A failure that may pass by itself is polled again: a stuttering step.
Poll(c) ==
  /\ pc[c] = "poll"
  /\ \/ ~ expired[c] /\ Proceed(c, "polled", shown) /\ UNCHANGED drifted
     \/ expired[c] /\ Fail(c, "not_delivered")

\* Whether polling ends: focusing the window may uncover the element and
\* scrolling may show it, so these two failures do not keep the loop.
Approachable(q, k) ==
  Actionable(q, k) \/ NeedsScroll(q, k) \/ (q.headed /\ k = "covered")

PollCheck(c) ==
  LET seen == shown = handle[c] IN
  /\ pc[c] = "polled"
  /\ \/ /\ ~ expired[c] /\ seen /\ Approachable(request[c], cond)
        /\ Proceed(c, "acquire", None) /\ UNCHANGED drifted
     \/ ~ expired[c] /\ Proceed(c, "poll", None) /\ UNCHANGED drifted
     \/ expired[c] /\ Fail(c, "not_delivered")

-----------------------------------------------------------------------------
(* Under the lease *)

Acquire(c) ==
  /\ pc[c] = "acquire" /\ lease = None
  /\ lease' = c
  /\ Goto(c, IF request[c].headed THEN "focus" ELSE "resolve")
  /\ UNCHANGED <<app, request, calls, handle, expired, scrolled, drifted, landed, result>>

\* The lease came too late, or not at all.
RefuseLease(c) ==
  /\ pc[c] = "acquire" /\ expired[c]
  /\ Fail(c, "unknown")

Focus(c) ==
  /\ pc[c] = "focus"
  /\ Goto(c, "resolve") /\ Reacts
  /\ UNCHANGED <<lease, request, calls, handle, expired, scrolled, drifted, landed, result>>

Resolve(c) ==
  /\ pc[c] = "resolve"
  /\ Proceed(c, "check", shown) /\ UNCHANGED drifted

\* An element that cannot be acted on: scrolled once into view if that may
\* help, otherwise the end of the call.  A recycled handle fails here too.
NotActionable(c) ==
  \/ /\ shown = handle[c] /\ NeedsScroll(request[c], cond) /\ ~ scrolled[c]
     /\ Proceed(c, "scroll", handle[c]) /\ UNCHANGED drifted
  \/ /\ shown # handle[c] \/ ~ Actionable(request[c], cond)
     /\ shown = handle[c] => ~ NeedsScroll(request[c], cond) \/ scrolled[c]
     /\ Fail(c, AfterScroll(c, "not_delivered"))

Passes(c) ==
  /\ shown = handle[c] /\ Actionable(request[c], cond)
  /\ Proceed(c, "trace", handle[c])
  /\ drifted' = [drifted EXCEPT ![c] = FALSE]

\* The permissive check: a moving or a still unproven position is sampled.
Check(c) ==
  /\ pc[c] = "check"
  /\ \/ ~ request[c].settles /\ Passes(c)
     \/ /\ request[c].settles /\ shown = handle[c]
        /\ Actionable(request[c], cond) \/ cond = "moving"
        /\ Proceed(c, "settle", handle[c]) /\ UNCHANGED drifted
     \/ (cond # "moving" \/ shown # handle[c]) /\ NotActionable(c)

\* A plausible mistake: sampling goes on for as long as the element moves.
SettleUnbounded(c) ==
  /\ pc[c] = "settle"
  /\ shown # handle[c] \/ cond # "moving"
  /\ Proceed(c, "recheck", handle[c]) /\ UNCHANGED drifted

\* Equal samples end the loop, also those of an element in the target's place.
Settle(c) ==
  /\ pc[c] = "settle"
  /\ \/ /\ shown # handle[c] \/ cond # "moving"
        /\ Proceed(c, "recheck", handle[c]) /\ UNCHANGED drifted
     \/ expired[c] /\ Fail(c, AfterScroll(c, "not_delivered"))

Recheck(c) == pc[c] = "recheck" /\ (Passes(c) \/ NotActionable(c))

\* A plausible mistake: what was checked before the scroll is acted on.
ScrollTrusted(c) ==
  /\ pc[c] = "scroll"
  /\ Goto(c, "trace") /\ Reacts
  /\ scrolled' = [scrolled EXCEPT ![c] = TRUE]
  /\ UNCHANGED <<lease, request, calls, handle, expired, drifted, landed, result>>

Scroll(c) ==
  /\ pc[c] = "scroll"
  /\ Goto(c, "resolve") /\ Reacts
  /\ scrolled' = [scrolled EXCEPT ![c] = TRUE]
  /\ UNCHANGED <<lease, request, calls, handle, expired, drifted, landed, result>>

\* What becomes of an adapter's error, by the step that meets it.
Reported(c, d) ==
  CASE pc[c] \in {"poll", "polled"} -> MarkPreDispatch(d)
    [] pc[c] \in {"resolve", "check", "recheck"} -> AfterScroll(c, MarkPreDispatch(d))
    [] pc[c] = "settle" -> AfterScroll(c, d)
    [] OTHER -> d

\* Any call of the adapter before the input may fail.
AdapterFails(c) ==
  /\ pc[c] \in {"poll", "polled", "acquire", "focus", "resolve", "check", "settle",
                "recheck", "scroll"}
  /\ \E d \in Failures : Fail(c, Reported(c, d))

\* Errors that nobody marks: those of a strict trace, and of an entry that
\* names no process instance.
UnmarkedFails(c) ==
  /\ pc[c] \in {"polled", "focus", "resolve", "check", "recheck"}
  /\ \E d \in {"unknown", "not_delivered"} : Fail(c, AfterScroll(c, d))

\* action.dispatch.start: only a strict trace can fail.
TraceStart(c) ==
  /\ pc[c] = "trace"
  /\ \/ Proceed(c, "input", handle[c]) /\ UNCHANGED drifted
     \/ \E d \in {"unknown", "not_delivered"} : Fail(c, d)

-----------------------------------------------------------------------------
(* The input *)

\* What the adapter may answer when the input was made, and when it was not:
\* the element may have been in the wanted state already.
Delivered ==
  {Told(TRUE, "delivered_unverified"), Told(TRUE, "delivered_verified")} \cup
  {Told(FALSE, d) : d \in Failures \ {"not_delivered"}}

NotDelivered ==
  {Told(TRUE, "not_delivered")} \cup {Told(FALSE, d) : d \in Failures \ {"delivered_unverified"}}

\* execute_verified_action: what was not delivered is not read back, nor are
\* actions that leave no state to read.
Answered(c, r) ==
  /\ result' = [result EXCEPT ![c] = r]
  /\ Goto(c, IF request[c].readback /\ r # Told(FALSE, "not_delivered")
             THEN "readback" ELSE "confirm")

\* A plausible mistake: an action whose effect cannot be read back is repeated.
ExecuteAgain(c) ==
  /\ pc[c] = "input"
  /\ \E r \in Delivered :
       IF r.ok THEN Answered(c, r) ELSE UNCHANGED <<pc, result>>
  /\ Reacts
  /\ landed' = [landed EXCEPT ![c] = @ + 1]
  /\ drifted' = [drifted EXCEPT ![c] = FALSE]
  /\ UNCHANGED <<lease, request, calls, handle, expired, scrolled>>

Execute(c) ==
  /\ pc[c] = "input"
  /\ \/ /\ \E r \in Delivered : Answered(c, r)
        /\ Reacts
        /\ landed' = [landed EXCEPT ![c] = @ + 1]
     \/ /\ \E r \in NotDelivered : Answered(c, r)
        /\ UNCHANGED <<app, landed>>
  /\ drifted' = [drifted EXCEPT ![c] = FALSE]
  /\ UNCHANGED <<lease, request, calls, handle, expired, scrolled>>

\* What the state read after the input makes of the result: a confirmation,
\* no evidence, or an error when it contradicts the result or cannot be read.
\* An error of the execution stays what it was.
Verified(r) ==
  IF r.ok
  THEN {Verifies(r), Unverifies(r),
        Told(FALSE, IF r.disposition = "not_delivered" THEN "not_delivered"
                    ELSE "delivered_unverified")}
  ELSE {r}

Readback(c) ==
  /\ pc[c] = "readback"
  /\ \E r \in Verified(result[c]) : result' = [result EXCEPT ![c] = r]
  /\ Goto(c, "confirm")
  /\ UNCHANGED <<app, lease, request, calls, handle, expired, scrolled, drifted, landed>>

\* A plausible mistake: the trace error after the input is not marked.
ConfirmUnmarked(c) ==
  /\ pc[c] = "confirm"
  /\ Fail(c, IF result[c].ok THEN "not_delivered" ELSE result[c].disposition)

\* An error is returned; otherwise action.dispatch.ok, and the lease is dropped.
Confirm(c) ==
  /\ pc[c] = "confirm"
  /\ \/ ~ result[c].ok /\ Fail(c, result[c].disposition)
     \/ /\ result[c].ok
        /\ Goto(c, "after")
        /\ lease' = None
        /\ handle' = [handle EXCEPT ![c] = None]
        /\ UNCHANGED <<app, request, calls, expired, scrolled, drifted, landed, result>>
     \/ result[c].ok /\ Fail(c, "delivered_unverified")

\* --wait after the action, without the lease.
AfterWait(c) ==
  /\ pc[c] = "after"
  /\ \/ Proceed(c, "done", None) /\ UNCHANGED drifted
     \/ Fail(c, "delivered_unverified")

-----------------------------------------------------------------------------
(* The caller, the clock, the application *)

\* The agent repeats a call that failed if it was told that this is safe.
Retry(c) ==
  /\ pc[c] = "done" /\ calls < MaxCalls
  /\ Contract!RetryIsSafe(result[c])
  /\ Goto(c, "idle")
  /\ expired' = [expired EXCEPT ![c] = FALSE]
  /\ scrolled' = [scrolled EXCEPT ![c] = FALSE]
  /\ drifted' = [drifted EXCEPT ![c] = FALSE]
  /\ result' = [result EXCEPT ![c] = None]
  /\ UNCHANGED <<app, lease, request, calls, handle, landed>>

Expire(c) ==
  /\ pc[c] \notin {"idle", "done", "dead"} /\ ~ expired[c]
  /\ expired' = [expired EXCEPT ![c] = TRUE]
  /\ UNCHANGED <<app, lease, pc, request, calls, handle, scrolled, drifted, landed, result>>

\* The process is killed: the kernel releases the lease.
Die(c) ==
  /\ pc[c] \notin {"idle", "done", "dead"}
  /\ Goto(c, "dead")
  /\ lease' = IF lease = c THEN None ELSE lease
  /\ handle' = [handle EXCEPT ![c] = None]
  /\ result' = [result EXCEPT ![c] = None]
  /\ drifted' = [drifted EXCEPT ![c] = FALSE]
  /\ UNCHANGED <<app, request, calls, expired, scrolled, landed>>

\* Nobody's doing but the application's, or its user's: one change at a time.
AppChanges ==
  /\ \/ shown' \in Handles /\ UNCHANGED cond
     \/ cond' \in Conditions /\ UNCHANGED shown
  /\ drifted' = [c \in Clients |-> pc[c] \in {"trace", "input"} \/ drifted[c]]
  /\ UNCHANGED <<lease, pc, request, calls, handle, expired, scrolled, landed, result>>

Init ==
  /\ shown \in Handles /\ cond \in Conditions
  /\ lease = None
  /\ pc = [c \in Clients |-> "idle"]
  /\ request \in Requests
  /\ calls = 0
  /\ handle = [c \in Clients |-> None]
  /\ expired = [c \in Clients |-> FALSE]
  /\ scrolled = [c \in Clients |-> FALSE]
  /\ drifted = [c \in Clients |-> FALSE]
  /\ landed = [c \in Clients |-> 0]
  /\ result = [c \in Clients |-> None]

Step(c) ==
  \/ Start(c) \/ Poll(c) \/ PollCheck(c) \/ Acquire(c) \/ RefuseLease(c)
  \/ Focus(c) \/ Resolve(c) \/ Check(c) \/ Settle(c) \/ Recheck(c) \/ Scroll(c)
  \/ TraceStart(c) \/ Execute(c) \/ Readback(c) \/ Confirm(c) \/ AfterWait(c)

Next ==
  \/ \E c \in Clients : Step(c) \/ AdapterFails(c) \/ UnmarkedFails(c) \/ Retry(c) \/ Expire(c) \/ Die(c)
  \/ AppChanges

Spec == Init /\ [][Next]_vars

\* Clients run, native calls return, and time passes.  Nothing is assumed of
\* the application, of errors, of the agents' retries or of crashes.
Fairness == \A c \in Clients : WF_vars(Step(c)) /\ WF_vars(Expire(c))

LiveSpec == Spec /\ Fairness

-----------------------------------------------------------------------------
(* Properties *)

\* Every variable keeps its type; in particular, whatever a client retries, the
\* application sees at most one input of it (execute_verified_action calls the
\* adapter once, and a retry is safe only if it did nothing).
TypeOK ==
  /\ shown \in Handles
  /\ cond \in Conditions
  /\ lease \in Clients \cup {None}
  /\ pc \in [Clients -> Steps]
  /\ request \in Requests
  /\ calls \in 0 .. MaxCalls
  /\ handle \in [Clients -> Handles \cup {None}]
  /\ expired \in [Clients -> BOOLEAN]
  /\ scrolled \in [Clients -> BOOLEAN]
  /\ drifted \in [Clients -> BOOLEAN]
  /\ landed \in [Clients -> 0 .. 1]
  /\ result \in [Clients -> Contract!Verdicts \cup {None}]

\* The lease is held through exactly the steps that may touch the application:
\* no return, failure or death of a call leaves it taken.
LeaseCoversAction == \A c \in Clients : lease = c <=> pc[c] \in Leased

\* ref_action_poll.rs (line 24), "the second resolve is the correctness
\* boundary": when the input is made the handle still is the element of the
\* ref and still passes every check, whatever other commands did between the
\* poll and the lease, unless the application itself moved on.
InputHitsTarget ==
  \A c \in Clients :
    pc[c] \in {"trace", "input"} =>
      drifted[c] \/ (shown = handle[c] /\ Actionable(request[c], cond))

\* What an inductive proof needs besides: a client makes no input before the input
\* step, and from then on carries a result that is true of what the application saw.
Answering == {"readback", "confirm", "after", "done"}

NoInputYet == \A c \in Clients : pc[c] \notin Answering \cup {"dead"} => landed[c] = 0

ResultIsTrue ==
  \A c \in Clients :
    IF pc[c] \in Answering
    THEN result[c] \in Contract!Verdicts /\ Contract!Truthful(result[c], landed[c])
    ELSE result[c] = None

Inv ==
  /\ TypeOK /\ LeaseCoversAction /\ InputHitsTarget
  /\ NoInputYet /\ ResultIsTrue

\* skills/agent-desktop/SKILL.md (line 115): an agent that repeats a call only
\* when that is said to be safe makes no input twice, and is never told that
\* nothing was delivered when something was: see DeliveryContract.
KeepsContract == Contract!Spec

\* A call ends by its deadline, whatever holds the lease and however the
\* application behaves.
CallEnds == \A c \in Clients : pc[c] \notin {"idle", "done", "dead"} ~> pc[c] \in {"done", "dead"}

\* docs/json-output.md (line 48): failures after preparatory scrolling do not
\* authorize automatic retry.
NoRetryAfterScroll ==
  \A c \in Clients :
    pc[c] = "done" /\ scrolled[c] => ~ Contract!RetryIsSafe(result[c])
=============================================================================
