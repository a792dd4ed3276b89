-------------------------- MODULE DeliveryContract --------------------------
(***************************************************************************)
(* What a ref action promises the agent that calls it.  A call makes at    *)
(* most one input; "not delivered" is said only of a call that made none;  *)
(* any other success, and "delivered and verified", only of one that made  *)
(* it; and an agent that repeats a failed call when, and only when, it was *)
(* told that this is safe never makes the input twice.                     *)
(***************************************************************************)
EXTENDS Naturals

CONSTANTS Clients, None

VARIABLES landed,     \* inputs of each client that the application saw
          verdict     \* what the last call of each client told, None while it runs

\* DeliverySemantics
Dispositions ==
  {"unknown", "not_delivered", "delivery_uncertain", "delivered_unverified",
   "delivered_verified"}

Verdicts == [ok : BOOLEAN, disposition : Dispositions]

\* RetryDisposition::Safe: retry() of a failed call's disposition.
RetryIsSafe(v) == ~ v.ok /\ v.disposition = "not_delivered"

Truthful(v, inputs) ==
  /\ v.disposition = "not_delivered" => inputs = 0
  /\ v.ok /\ v.disposition # "not_delivered" => inputs > 0
  /\ v.disposition = "delivered_verified" => inputs > 0

Init ==
  /\ landed = [c \in Clients |-> 0]
  /\ verdict = [c \in Clients |-> None]

Land(c) ==
  /\ verdict[c] = None /\ landed[c] = 0
  /\ landed' = [landed EXCEPT ![c] = 1]
  /\ UNCHANGED verdict

Tell(c, v) ==
  /\ verdict[c] = None /\ Truthful(v, landed[c])
  /\ verdict' = [verdict EXCEPT ![c] = v]
  /\ UNCHANGED landed

Again(c) ==
  /\ verdict[c] \in Verdicts /\ RetryIsSafe(verdict[c])
  /\ verdict' = [verdict EXCEPT ![c] = None]
  /\ UNCHANGED landed

Next == \E c \in Clients : Land(c) \/ Again(c) \/ \E v \in Verdicts : Tell(c, v)

Spec == Init /\ [][Next]_<<landed, verdict>>
=============================================================================
