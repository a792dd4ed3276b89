-------------------------- MODULE RefActionProofs ---------------------------
(***************************************************************************)
(* A ref action makes its input on the element it checked, and keeps its   *)
(* contract with the agent, for any number of clients, elements, requests  *)
(* and calls: RefAction!Inv is inductive.                                  *)
(***************************************************************************)
EXTENDS RefAction, TLAPS

LEMMA NobodyIsNone == None \notin Clients /\ None \notin Handles
BY RefActionAssumption DEF RefActionAssumption

USE NobodyIsNone

\* A call that fails keeps the invariant if what it reports is true.
LEMMA FailKeepsInv ==
  ASSUME Inv, NEW c \in Clients, NEW d \in Contract!Dispositions, Fail(c, d),
         pc[c] \notin {"idle", "done", "dead"},
         Contract!Truthful(Told(FALSE, d), landed[c])
  PROVE  Inv'
<1>1. /\ pc' = [pc EXCEPT ![c] = "done"]
      /\ result' = [result EXCEPT ![c] = Told(FALSE, d)]
      /\ handle' = [handle EXCEPT ![c] = None]
      /\ lease' = IF lease = c THEN None ELSE lease
      /\ shown' = shown /\ cond' = cond /\ request' = request /\ calls' = calls
      /\ expired' = expired /\ scrolled' = scrolled
      /\ drifted' = [drifted EXCEPT ![c] = FALSE]
      /\ landed' = landed
  BY DEF Fail, Goto, app
<1>2. Told(FALSE, d) \in Contract!Verdicts
  BY DEF Told, Contract!Verdicts
<1>3. TypeOK'
  BY <1>1, <1>2 DEF Inv, TypeOK, Steps
<1>4. \A e \in Clients : /\ pc'[e] = IF e = c THEN "done" ELSE pc[e]
                         /\ result'[e] = IF e = c THEN Told(FALSE, d) ELSE result[e]
                         /\ handle'[e] = IF e = c THEN None ELSE handle[e]
                         /\ drifted'[e] = IF e = c THEN FALSE ELSE drifted[e]
  BY <1>1 DEF Inv, TypeOK
<1>5. LeaseCoversAction'
  <2> SUFFICES ASSUME NEW e \in Clients
               PROVE  lease' = e <=> pc'[e] \in Leased
    BY DEF LeaseCoversAction
  <2>1. lease = e <=> pc[e] \in Leased
    BY DEF Inv, LeaseCoversAction
  <2>2. CASE e = c
    <3>1. lease' # c
      BY <1>1
    <3>2. pc'[c] = "done"
      BY <1>4
    <3> QED
      BY <2>2, <3>1, <3>2 DEF Leased
  <2>3. CASE e # c
    BY <1>1, <1>4, <2>1, <2>3
  <2> QED
    BY <2>2, <2>3
<1>6. InputHitsTarget'
  <2> SUFFICES ASSUME NEW e \in Clients, pc'[e] \in {"trace", "input"}
               PROVE  drifted'[e] \/ (shown' = handle'[e] /\ Actionable(request'[e], cond'))
    BY DEF InputHitsTarget
  <2>1. e # c
    BY <1>4
  <2> QED
    BY <1>1, <1>4, <2>1 DEF Inv, InputHitsTarget
<1>7. NoInputYet'
  BY <1>1, <1>4 DEF Inv, NoInputYet, Answering
<1>8. ResultIsTrue'
  BY <1>1, <1>2, <1>4 DEF Inv, ResultIsTrue, Answering
<1> QED
  BY <1>3, <1>5, <1>6, <1>7, <1>8 DEF Inv

\* A step within a call that touches neither the application nor the lease.
LEMMA ProceedKeepsInv ==
  ASSUME Inv, NEW c \in Clients, NEW step \in Steps, NEW h \in Handles \cup {None},
         Proceed(c, step, h),
         drifted' \in [Clients -> BOOLEAN],
         \A e \in Clients : e # c => drifted'[e] = drifted[e],
         pc[c] \notin {"dead"} \cup Answering,
         step \notin {"idle", "dead"} \cup Answering,
         step \in Leased <=> pc[c] \in Leased,
         step \in {"trace", "input"} =>
           drifted'[c] \/ (shown = h /\ Actionable(request[c], cond))
  PROVE  Inv'
<1>1. /\ pc' = [pc EXCEPT ![c] = step]
      /\ handle' = [handle EXCEPT ![c] = h]
      /\ lease' = lease /\ result' = result
      /\ shown' = shown /\ cond' = cond /\ request' = request /\ calls' = calls
      /\ expired' = expired /\ scrolled' = scrolled /\ landed' = landed
  BY DEF Proceed, Goto, app
<1>2. TypeOK'
  BY <1>1 DEF Inv, TypeOK
<1>3. \A e \in Clients : /\ pc'[e] = IF e = c THEN step ELSE pc[e]
                         /\ handle'[e] = IF e = c THEN h ELSE handle[e]
  BY <1>1 DEF Inv, TypeOK
<1>4. LeaseCoversAction'
  BY <1>1, <1>3 DEF Inv, LeaseCoversAction
<1>5. InputHitsTarget'
  BY <1>1, <1>3 DEF Inv, InputHitsTarget
<1>6. NoInputYet' /\ ResultIsTrue'
  BY <1>1, <1>3 DEF Inv, NoInputYet, ResultIsTrue
<1> QED
  BY <1>2, <1>4, <1>5, <1>6 DEF Inv

\* A step that lets the application react: the client has the lease, so no
\* other client is about to make an input.
LEMMA ReactionKeepsInv ==
  ASSUME Inv, NEW c \in Clients, NEW step \in {"resolve", "readback", "confirm"},
         pc[c] \in Leased, Goto(c, step), Reacts, UNCHANGED <<lease, request, calls, handle>>,
         scrolled' \in [Clients -> BOOLEAN], expired' = expired, drifted' \in [Clients -> BOOLEAN],
         landed' \in [Clients -> 0 .. 1],
         result' \in [Clients -> Contract!Verdicts \cup {None}],
         \A e \in Clients : e # c => landed'[e] = landed[e] /\ result'[e] = result[e],
         step = "resolve" => landed'[c] = 0 /\ result'[c] = None,
         step # "resolve" => result'[c] \in Contract!Verdicts
                             /\ Contract!Truthful(result'[c], landed'[c])
  PROVE  Inv'
<1>1. /\ pc' = [pc EXCEPT ![c] = step]
      /\ lease' = lease /\ request' = request /\ calls' = calls /\ handle' = handle
      /\ shown' \in Handles /\ cond' \in Conditions
  BY DEF Goto, Reacts
<1>2. TypeOK'
  BY <1>1 DEF Inv, TypeOK, Steps, Leased
<1>3. \A e \in Clients : pc'[e] = IF e = c THEN step ELSE pc[e]
  BY <1>1 DEF Inv, TypeOK
<1>4. LeaseCoversAction'
  BY <1>1, <1>3 DEF Inv, LeaseCoversAction, Leased
<1>5. \A e \in Clients : pc'[e] \notin {"trace", "input"}
  BY <1>3 DEF Inv, LeaseCoversAction, Leased
<1>6. InputHitsTarget'
  BY <1>5 DEF InputHitsTarget
<1>7. NoInputYet' /\ ResultIsTrue'
  BY <1>1, <1>3 DEF Inv, NoInputYet, ResultIsTrue, Answering
<1> QED
  BY <1>2, <1>4, <1>6, <1>7 DEF Inv

\* Dispositions that the code puts in an error stay dispositions, and none of
\* them is "delivered and verified".
LEMMA ReportedIsTruthful ==
  ASSUME Inv, NEW c \in Clients, pc[c] \notin Answering \cup {"dead"},
         NEW d \in Failures \cup {MarkPreDispatch(x) : x \in Failures}
  PROVE  /\ d \in Contract!Dispositions
         /\ Contract!Truthful(Told(FALSE, d), landed[c])
         /\ AfterScroll(c, d) \in Failures
         /\ MarkPreDispatch(d) \in Failures
<1>1. landed[c] = 0
  BY DEF Inv, NoInputYet
<1>2. d \in Failures
  BY DEF Failures, MarkPreDispatch
<1> QED
  BY <1>1, <1>2 DEF Failures, MarkPreDispatch, AfterScroll, Told,
                    Contract!Dispositions, Contract!Truthful

LEMMA PollingKeepsInv ==
  ASSUME Inv, NEW c \in Clients,
         Start(c) \/ Poll(c) \/ PollCheck(c) \/ RefuseLease(c) \/ Resolve(c)
  PROVE  Inv'
<1>1. CASE Start(c)
  <2>1. /\ pc' = [pc EXCEPT ![c] = IF request[c].wait THEN "poll" ELSE "acquire"]
        /\ calls' = calls + 1 /\ calls < MaxCalls
        /\ shown' = shown /\ cond' = cond /\ lease' = lease /\ request' = request
        /\ handle' = handle /\ expired' = expired /\ scrolled' = scrolled
        /\ drifted' = drifted /\ landed' = landed /\ result' = result
        /\ pc[c] = "idle"
    BY <1>1 DEF Start, Goto, app
  <2>2. calls + 1 \in 0 .. MaxCalls
    BY <2>1, RefActionAssumption DEF Inv, TypeOK, RefActionAssumption
  <2>3. \A e \in Clients : pc'[e] = IF e = c THEN pc'[c] ELSE pc[e]
    BY <2>1 DEF Inv, TypeOK
  <2>4. pc'[c] \in {"poll", "acquire"}
    BY <2>1 DEF Inv, TypeOK
  <2>5. TypeOK'
    BY <2>1, <2>2, <2>4 DEF Inv, TypeOK, Steps
  <2>6. LeaseCoversAction'
    BY <2>1, <2>3, <2>4 DEF Inv, LeaseCoversAction, Leased
  <2>7. InputHitsTarget'
    BY <2>1, <2>3, <2>4 DEF Inv, InputHitsTarget
  <2>9. NoInputYet' /\ ResultIsTrue'
    BY <2>1, <2>3, <2>4 DEF Inv, NoInputYet, ResultIsTrue, Answering
  <2> QED
    BY <2>5, <2>6, <2>7, <2>9 DEF Inv
<1>2. ASSUME pc[c] \in {"poll", "polled", "acquire", "resolve"},
             NEW d \in {"not_delivered", "unknown"}, Fail(c, d)
      PROVE  Inv'
  <2>1. d \in Contract!Dispositions /\ Contract!Truthful(Told(FALSE, d), landed[c])
    BY <1>2, ReportedIsTruthful DEF Failures, Answering
  <2> QED
    BY <1>2, <2>1, FailKeepsInv
<1>3. ASSUME NEW step \in {"poll", "polled", "acquire", "check"},
             NEW h \in Handles \cup {None}, Proceed(c, step, h), drifted' = drifted,
             pc[c] \in {"poll", "polled", "resolve"},
             step = "check" <=> pc[c] = "resolve"
      PROVE  Inv'
  <2>1. drifted' \in [Clients -> BOOLEAN] /\ step \in Steps
    BY <1>3 DEF Inv, TypeOK, Steps, Leased
  <2> QED
    BY <1>3, <2>1, ProceedKeepsInv DEF Answering, Leased
<1>4. shown \in Handles
  BY DEF Inv, TypeOK
<1>5. CASE Poll(c)
  BY <1>2, <1>3, <1>4, <1>5 DEF Poll
<1>6. CASE PollCheck(c)
  BY <1>2, <1>3, <1>6 DEF PollCheck
<1>7. CASE RefuseLease(c)
  BY <1>2, <1>7 DEF RefuseLease
<1>8. CASE Resolve(c)
  BY <1>3, <1>4, <1>8 DEF Resolve
<1> QED
  BY <1>1, <1>5, <1>6, <1>7, <1>8

LEMMA AcquireKeepsInv ==
  ASSUME Inv, NEW c \in Clients, Acquire(c)
  PROVE  Inv'
<1>1. /\ pc' = [pc EXCEPT ![c] = IF request[c].headed THEN "focus" ELSE "resolve"]
      /\ lease = None /\ lease' = c /\ pc[c] = "acquire"
      /\ shown' = shown /\ cond' = cond /\ request' = request /\ calls' = calls
      /\ handle' = handle /\ expired' = expired /\ scrolled' = scrolled
      /\ drifted' = drifted /\ landed' = landed /\ result' = result
  BY DEF Acquire, Goto, app
<1>2. pc'[c] \in {"focus", "resolve"}
  BY <1>1 DEF Inv, TypeOK
<1>3. \A e \in Clients : e # c => pc'[e] = pc[e]
  BY <1>1 DEF Inv, TypeOK
<1>4. TypeOK'
  BY <1>1 DEF Inv, TypeOK, Steps, Leased
<1>5. \A e \in Clients : pc[e] \notin Leased
  BY <1>1 DEF Inv, LeaseCoversAction
<1>6. LeaseCoversAction'
  BY <1>1, <1>2, <1>3, <1>5 DEF LeaseCoversAction, Leased
<1>7. InputHitsTarget'
  BY <1>2, <1>3, <1>5 DEF InputHitsTarget, Leased
<1>8. NoInputYet' /\ ResultIsTrue'
  BY <1>1, <1>2, <1>3 DEF Inv, NoInputYet, ResultIsTrue, Answering
<1> QED
  BY <1>4, <1>6, <1>7, <1>8 DEF Inv

LEMMA PreparingKeepsInv ==
  ASSUME Inv, NEW c \in Clients, Focus(c) \/ Scroll(c)
  PROVE  Inv'
<1>1. /\ pc[c] \in {"focus", "scroll"} /\ Goto(c, "resolve") /\ Reacts
      /\ UNCHANGED <<lease, request, calls, handle>>
      /\ expired' = expired /\ drifted' = drifted /\ landed' = landed /\ result' = result
  BY DEF Focus, Scroll
<1>2. scrolled' \in [Clients -> BOOLEAN] /\ drifted' \in [Clients -> BOOLEAN]
  BY <1>1 DEF Inv, TypeOK, Focus, Scroll
<1>3. landed[c] = 0 /\ result[c] = None
  BY <1>1 DEF Inv, NoInputYet, ResultIsTrue, Answering
<1>4. landed' \in [Clients -> 0 .. 1] /\ result' \in [Clients -> Contract!Verdicts \cup {None}]
  BY <1>1 DEF Inv, TypeOK
<1> QED
  BY <1>1, <1>2, <1>3, <1>4, ReactionKeepsInv DEF Leased

LEMMA CheckingKeepsInv ==
  ASSUME Inv, NEW c \in Clients, Check(c) \/ Settle(c) \/ Recheck(c)
  PROVE  Inv'
<1>1. pc[c] \in {"check", "settle", "recheck"}
  BY DEF Check, Settle, Recheck
<1>2. ASSUME Fail(c, AfterScroll(c, "not_delivered"))
      PROVE  Inv'
  <2>1. AfterScroll(c, "not_delivered") \in Failures
    BY DEF AfterScroll, Failures
  <2>2. /\ AfterScroll(c, "not_delivered") \in Contract!Dispositions
        /\ Contract!Truthful(Told(FALSE, AfterScroll(c, "not_delivered")), landed[c])
    BY <1>1, <2>1, ReportedIsTruthful DEF Answering
  <2> QED
    BY <1>1, <1>2, <2>2, FailKeepsInv
<1>3. handle[c] \in Handles \cup {None}
  BY DEF Inv, TypeOK
<1>4. ASSUME NEW step \in {"scroll", "settle", "recheck"},
             Proceed(c, step, handle[c]), drifted' = drifted
      PROVE  Inv'
  <2>1. drifted' \in [Clients -> BOOLEAN] /\ step \in Steps
    BY <1>4 DEF Inv, TypeOK, Steps, Leased
  <2> QED
    BY <1>1, <1>3, <1>4, <2>1, ProceedKeepsInv DEF Answering, Leased
<1>5. ASSUME Passes(c)
      PROVE  Inv'
  <2>1. /\ Proceed(c, "trace", handle[c])
        /\ shown = handle[c] /\ Actionable(request[c], cond)
        /\ drifted' = [drifted EXCEPT ![c] = FALSE]
    BY <1>5 DEF Passes
  <2>2. /\ drifted' \in [Clients -> BOOLEAN] /\ "trace" \in Steps
        /\ \A e \in Clients : e # c => drifted'[e] = drifted[e]
    BY <2>1 DEF Inv, TypeOK, Steps, Leased
  <2> QED
    BY <1>1, <1>3, <2>1, <2>2, ProceedKeepsInv DEF Answering, Leased
<1>6. CASE Check(c)
  BY <1>2, <1>4, <1>5, <1>6 DEF Check, NotActionable
<1>7. CASE Settle(c)
  BY <1>2, <1>4, <1>7 DEF Settle
<1>8. CASE Recheck(c)
  BY <1>2, <1>4, <1>5, <1>8 DEF Recheck, NotActionable
<1> QED
  BY <1>6, <1>7, <1>8

\* What the adapter answers is true of the input, and stays so when the state
\* is read back.
LEMMA AnswersAreTruthful ==
  /\ \A r \in Delivered : r \in Contract!Verdicts /\ Contract!Truthful(r, 1)
  /\ \A r \in NotDelivered : r \in Contract!Verdicts /\ Contract!Truthful(r, 0)
  /\ \A r \in Contract!Verdicts, n \in Nat :
       Contract!Truthful(r, n) =>
         \A v \in Verified(r) : v \in Contract!Verdicts /\ Contract!Truthful(v, n)
<1>1. \A ok \in BOOLEAN, d \in Contract!Dispositions :
        Told(ok, d) \in Contract!Verdicts
  BY DEF Told, Contract!Verdicts
<1>2. \A r \in Contract!Verdicts : r.ok \in BOOLEAN /\ r.disposition \in Contract!Dispositions
  BY DEF Contract!Verdicts
<1>3. ASSUME NEW r \in Delivered
      PROVE  r \in Contract!Verdicts /\ Contract!Truthful(r, 1)
  <2>1. PICK ok \in BOOLEAN, d \in Contract!Dispositions :
          r = Told(ok, d) /\ d # "not_delivered"
    BY <1>3 DEF Delivered, Failures, Contract!Dispositions
  <2>2. r.ok = ok /\ r.disposition = d
    BY <2>1 DEF Told
  <2> QED
    BY <1>1, <2>1, <2>2 DEF Contract!Truthful
<1>4. ASSUME NEW r \in NotDelivered
      PROVE  r \in Contract!Verdicts /\ Contract!Truthful(r, 0)
  <2>1. PICK ok \in BOOLEAN, d \in Contract!Dispositions :
          /\ r = Told(ok, d) /\ d # "delivered_verified"
          /\ ok => d = "not_delivered"
    BY <1>4 DEF NotDelivered, Failures, Contract!Dispositions
  <2>2. r.ok = ok /\ r.disposition = d
    BY <2>1 DEF Told
  <2> QED
    BY <1>1, <2>1, <2>2 DEF Contract!Truthful
<1>5. ASSUME NEW r \in Contract!Verdicts, NEW n \in Nat, Contract!Truthful(r, n),
             NEW v \in Verified(r)
      PROVE  v \in Contract!Verdicts /\ Contract!Truthful(v, n)
  <2>1. ASSUME r.ok
        PROVE  Verifies(r) \in Contract!Verdicts /\ Contract!Truthful(Verifies(r), n)
    BY <1>1, <1>2, <1>5, <2>1 DEF Verifies, Told, Contract!Truthful, Contract!Dispositions
  <2>2. Unverifies(r) \in Contract!Verdicts /\ Contract!Truthful(Unverifies(r), n)
    BY <1>1, <1>2, <1>5 DEF Unverifies, Told, Contract!Truthful, Contract!Dispositions
  <2>3. CASE v = Told(FALSE, IF r.disposition = "not_delivered" THEN "not_delivered"
                             ELSE "delivered_unverified")
    BY <1>1, <1>5, <2>3 DEF Told, Contract!Truthful, Contract!Dispositions
  <2> QED
    BY <1>5, <2>1, <2>2, <2>3 DEF Verified
<1> QED
  BY <1>3, <1>4, <1>5

LEMMA ExecuteKeepsInv ==
  ASSUME Inv, NEW c \in Clients, Execute(c)
  PROVE  Inv'
<1>1. /\ pc[c] = "input" /\ landed[c] = 0
      /\ UNCHANGED <<lease, request, calls, handle>>
      /\ expired' = expired /\ scrolled' = scrolled
      /\ drifted' = [drifted EXCEPT ![c] = FALSE]
  BY DEF Execute, Inv, NoInputYet, Answering
<1>2. ASSUME NEW r \in Contract!Verdicts, NEW n \in {0, 1}, Answered(c, r),
             Contract!Truthful(r, n), Reacts, landed' = [landed EXCEPT ![c] = n]
      PROVE  Inv'
  <2> DEFINE step == IF request[c].readback /\ r # Told(FALSE, "not_delivered")
                     THEN "readback" ELSE "confirm"
  <2>1. Goto(c, step) /\ result' = [result EXCEPT ![c] = r] /\ step \in {"readback", "confirm"}
    BY <1>2 DEF Answered
  <2>2. /\ landed' \in [Clients -> 0 .. 1] /\ landed'[c] = n
        /\ result' \in [Clients -> Contract!Verdicts \cup {None}] /\ result'[c] = r
        /\ \A e \in Clients : e # c => landed'[e] = landed[e] /\ result'[e] = result[e]
        /\ scrolled' \in [Clients -> BOOLEAN] /\ drifted' \in [Clients -> BOOLEAN]
    BY <1>1, <1>2, <2>1 DEF Inv, TypeOK
  <2> HIDE DEF step
  <2> QED
    BY <1>1, <1>2, <2>1, <2>2, ReactionKeepsInv DEF Leased
<1>3. CASE \E r \in Delivered : Answered(c, r) /\ Reacts /\ landed' = [landed EXCEPT ![c] = @ + 1]
  <2>1. landed' = [landed EXCEPT ![c] = 1]
    BY <1>1, <1>3
  <2> QED
    BY <1>2, <1>3, <2>1, AnswersAreTruthful
<1>4. CASE \E r \in NotDelivered : Answered(c, r) /\ UNCHANGED <<app, landed>>
  <2>1. landed' = [landed EXCEPT ![c] = 0]
    BY <1>1, <1>4 DEF Inv, TypeOK
  <2>2. Reacts
    BY <1>4 DEF Inv, TypeOK, Reacts, app
  <2> QED
    BY <1>2, <1>4, <2>1, <2>2, AnswersAreTruthful
<1> QED
  BY <1>3, <1>4 DEF Execute

LEMMA ReadbackKeepsInv ==
  ASSUME Inv, NEW c \in Clients, Readback(c)
  PROVE  Inv'
<1>1. /\ pc[c] = "readback" /\ Goto(c, "confirm")
      /\ UNCHANGED <<lease, request, calls, handle>>
      /\ expired' = expired /\ scrolled' = scrolled /\ drifted' = drifted
      /\ landed' = landed
  BY DEF Readback
<1>2. PICK r \in Verified(result[c]) : result' = [result EXCEPT ![c] = r]
  BY DEF Readback
<1>3. /\ result[c] \in Contract!Verdicts /\ Contract!Truthful(result[c], landed[c])
      /\ landed[c] \in Nat
  BY <1>1 DEF Inv, TypeOK, ResultIsTrue, Answering
<1>4. r \in Contract!Verdicts /\ Contract!Truthful(r, landed[c])
  BY <1>3, AnswersAreTruthful
<1>5. /\ result' \in [Clients -> Contract!Verdicts \cup {None}] /\ result'[c] = r
      /\ \A e \in Clients : e # c => result'[e] = result[e]
      /\ landed' \in [Clients -> 0 .. 1] /\ scrolled' \in [Clients -> BOOLEAN]
      /\ drifted' \in [Clients -> BOOLEAN]
  BY <1>1, <1>2, <1>4 DEF Inv, TypeOK
<1>6. Reacts
  BY DEF Inv, TypeOK, Readback, Reacts, app
<1> QED
  BY <1>1, <1>4, <1>5, <1>6, ReactionKeepsInv DEF Leased

LEMMA EndingKeepsInv ==
  ASSUME Inv, NEW c \in Clients, Confirm(c) \/ AfterWait(c)
  PROVE  Inv'
<1>1. pc[c] \in {"confirm", "after"}
  BY DEF Confirm, AfterWait
<1>2. /\ result[c] \in Contract!Verdicts /\ Contract!Truthful(result[c], landed[c])
      /\ landed[c] \in Nat
  BY <1>1 DEF Inv, TypeOK, ResultIsTrue, Answering
<1>3. ASSUME Fail(c, "delivered_unverified")
      PROVE  Inv'
  BY <1>1, <1>3, FailKeepsInv DEF Told, Contract!Truthful, Contract!Dispositions
<1>4. ASSUME ~ result[c].ok, Fail(c, result[c].disposition)
      PROVE  Inv'
  <2>1. result[c].disposition \in Contract!Dispositions
    BY <1>2 DEF Contract!Verdicts
  <2>2. Contract!Truthful(Told(FALSE, result[c].disposition), landed[c])
    BY <1>2 DEF Told, Contract!Truthful
  <2> QED
    BY <1>1, <1>4, <2>1, <2>2, FailKeepsInv
<1>5. ASSUME NEW step \in {"after", "done"},
             pc' = [pc EXCEPT ![c] = step], lease' = IF lease = c THEN None ELSE lease,
             handle' = [handle EXCEPT ![c] = None],
             UNCHANGED <<shown, cond, request, calls, expired, scrolled, drifted, landed, result>>
      PROVE  Inv'
  <2>1. TypeOK'
    BY <1>5 DEF Inv, TypeOK, Steps
  <2>2. \A e \in Clients : /\ pc'[e] = IF e = c THEN step ELSE pc[e]
                           /\ handle'[e] = IF e = c THEN None ELSE handle[e]
    BY <1>5 DEF Inv, TypeOK
  <2>3. LeaseCoversAction'
    BY <1>5, <2>2 DEF Inv, LeaseCoversAction, Leased
  <2>4. InputHitsTarget'
    BY <1>5, <2>2 DEF Inv, InputHitsTarget
  <2>5. NoInputYet' /\ ResultIsTrue'
    BY <1>1, <1>5, <2>2 DEF Inv, NoInputYet, ResultIsTrue, Answering
  <2> QED
    BY <2>1, <2>3, <2>4, <2>5 DEF Inv
<1>6. CASE Confirm(c)
  <2>1. lease = c
    BY <1>6 DEF Inv, LeaseCoversAction, Confirm, Leased
  <2> QED
    BY <1>3, <1>4, <1>5, <1>6, <2>1 DEF Confirm, Goto, app
<1>7. CASE AfterWait(c)
  <2>1. lease # c
    BY <1>7 DEF Inv, LeaseCoversAction, AfterWait, Leased
  <2> QED
    BY <1>3, <1>5, <1>7, <2>1 DEF AfterWait, Proceed, Goto, app
<1> QED
  BY <1>6, <1>7

LEMMA FailuresKeepInv ==
  ASSUME Inv, NEW c \in Clients, AdapterFails(c) \/ UnmarkedFails(c) \/ TraceStart(c)
  PROVE  Inv'
<1>1. ASSUME NEW d \in Failures, pc[c] \notin Answering \cup {"idle", "dead"}, Fail(c, d)
      PROVE  Inv'
  <2>1. d \in Contract!Dispositions /\ Contract!Truthful(Told(FALSE, d), landed[c])
    BY <1>1, ReportedIsTruthful
  <2> QED
    BY <1>1, <2>1, FailKeepsInv DEF Answering
<1>2. CASE AdapterFails(c)
  <2>1. PICK d \in Failures : Fail(c, Reported(c, d))
    BY <1>2 DEF AdapterFails
  <2>2. pc[c] \notin Answering \cup {"idle", "dead"}
    BY <1>2 DEF AdapterFails, Answering
  <2>3. Reported(c, d) \in Failures
    BY DEF Reported, MarkPreDispatch, AfterScroll, Failures
  <2> QED
    BY <1>1, <2>1, <2>2, <2>3
<1>3. CASE TraceStart(c) /\ ~ \E d \in {"unknown", "not_delivered"} : Fail(c, d)
  <2>1. /\ pc[c] = "trace" /\ Proceed(c, "input", handle[c]) /\ drifted' = drifted
        /\ drifted' \in [Clients -> BOOLEAN] /\ handle[c] \in Handles \cup {None}
    BY <1>3 DEF Inv, TypeOK, TraceStart
  <2>2. drifted'[c] \/ (shown = handle[c] /\ Actionable(request[c], cond))
    BY <2>1 DEF Inv, InputHitsTarget
  <2>3. "input" \in Steps
    BY DEF Steps, Leased
  <2> QED
    BY <2>1, <2>2, <2>3, ProceedKeepsInv DEF Leased, Answering
<1>4. CASE TraceStart(c) /\ \E d \in {"unknown", "not_delivered"} : Fail(c, d)
  BY <1>1, <1>4 DEF TraceStart, Failures, Answering
<1>5. CASE UnmarkedFails(c)
  <2>1. PICK d \in {"unknown", "not_delivered"} : Fail(c, AfterScroll(c, d))
    BY <1>5 DEF UnmarkedFails
  <2>2. AfterScroll(c, d) \in Failures
    BY DEF AfterScroll, Failures
  <2> QED
    BY <1>1, <1>5, <2>1, <2>2 DEF UnmarkedFails, Answering
<1> QED
  BY <1>2, <1>3, <1>4, <1>5

LEMMA RetryKeepsInv ==
  ASSUME Inv, NEW c \in Clients, Retry(c)
  PROVE  Inv'
<1>1. /\ pc[c] = "done" /\ calls < MaxCalls
      /\ pc' = [pc EXCEPT ![c] = "idle"]
      /\ expired' = [expired EXCEPT ![c] = FALSE]
      /\ scrolled' = [scrolled EXCEPT ![c] = FALSE]
      /\ drifted' = [drifted EXCEPT ![c] = FALSE]
      /\ result' = [result EXCEPT ![c] = None]
      /\ shown' = shown /\ cond' = cond /\ lease' = lease /\ request' = request
      /\ calls' = calls /\ handle' = handle /\ landed' = landed
  BY DEF Retry, Goto, app
<1>2. landed[c] = 0
  BY <1>1 DEF Inv, ResultIsTrue, Retry, Answering, Contract!RetryIsSafe, Contract!Truthful
<1>3. TypeOK'
  BY <1>1 DEF Inv, TypeOK, Steps
<1>4. \A e \in Clients : /\ pc'[e] = IF e = c THEN "idle" ELSE pc[e]
                         /\ result'[e] = IF e = c THEN None ELSE result[e]
                         /\ e # c => drifted'[e] = drifted[e]
  BY <1>1 DEF Inv, TypeOK
<1>5. LeaseCoversAction' /\ InputHitsTarget'
  BY <1>1, <1>4 DEF Inv, LeaseCoversAction, Leased, InputHitsTarget
<1>6. NoInputYet'
  BY <1>1, <1>2, <1>4 DEF Inv, NoInputYet
<1>7. ASSUME NEW e \in Clients
      PROVE  IF pc'[e] \in Answering
             THEN result'[e] \in Contract!Verdicts /\ Contract!Truthful(result'[e], landed'[e])
             ELSE result'[e] = None
  <2>1. CASE e = c
    BY <1>4, <2>1 DEF Answering
  <2>2. CASE e # c
    BY <1>1, <1>4, <2>2 DEF Inv, ResultIsTrue
  <2> QED
    BY <2>1, <2>2
<1>8. ResultIsTrue'
  BY <1>7 DEF ResultIsTrue
<1> QED
  BY <1>3, <1>5, <1>6, <1>8 DEF Inv

LEMMA DieKeepsInv ==
  ASSUME Inv, NEW c \in Clients, Die(c)
  PROVE  Inv'
<1>1. /\ pc' = [pc EXCEPT ![c] = "dead"]
      /\ lease' = IF lease = c THEN None ELSE lease
      /\ handle' = [handle EXCEPT ![c] = None]
      /\ result' = [result EXCEPT ![c] = None]
      /\ shown' = shown /\ cond' = cond /\ request' = request /\ calls' = calls
      /\ expired' = expired /\ scrolled' = scrolled
      /\ drifted' = [drifted EXCEPT ![c] = FALSE]
      /\ landed' = landed
  BY DEF Die, Goto, app
<1>2. TypeOK'
  BY <1>1 DEF Inv, TypeOK, Steps
<1>3. \A e \in Clients : /\ pc'[e] = IF e = c THEN "dead" ELSE pc[e]
                         /\ result'[e] = IF e = c THEN None ELSE result[e]
                         /\ handle'[e] = IF e = c THEN None ELSE handle[e]
  BY <1>1 DEF Inv, TypeOK
<1>4. lease' # c
  BY <1>1
<1>5. LeaseCoversAction'
  BY <1>1, <1>3, <1>4 DEF Inv, LeaseCoversAction, Leased
<1>6. InputHitsTarget'
  <2>1. \A e \in Clients : e # c => drifted'[e] = drifted[e]
    BY <1>1 DEF Inv, TypeOK
  <2> QED
    BY <1>1, <1>3, <2>1 DEF Inv, InputHitsTarget
<1>7. NoInputYet'
  BY <1>1, <1>3 DEF Inv, NoInputYet
<1>8. ResultIsTrue'
  BY <1>1, <1>3 DEF Inv, ResultIsTrue, Answering
<1> QED
  BY <1>2, <1>5, <1>6, <1>7, <1>8 DEF Inv

LEMMA EnvironmentKeepsInv ==
  ASSUME Inv, AppChanges \/ \E c \in Clients : Expire(c)
  PROVE  Inv'
<1>1. CASE AppChanges
  <2>1. /\ lease' = lease /\ pc' = pc /\ request' = request /\ calls' = calls
        /\ handle' = handle /\ expired' = expired /\ scrolled' = scrolled
        /\ landed' = landed /\ result' = result
    BY <1>1 DEF AppChanges
  <2>2. TypeOK'
    BY <1>1, <2>1 DEF Inv, TypeOK, AppChanges, Reacts
  <2>3. InputHitsTarget'
    BY <1>1, <2>1 DEF AppChanges, InputHitsTarget
  <2>4. LeaseCoversAction' /\ NoInputYet' /\ ResultIsTrue'
    BY <2>1 DEF Inv, LeaseCoversAction, NoInputYet, ResultIsTrue
  <2> QED
    BY <2>2, <2>3, <2>4 DEF Inv
<1>2. ASSUME NEW c \in Clients, Expire(c)
      PROVE  Inv'
  <2>1. /\ shown' = shown /\ cond' = cond /\ drifted' = drifted
        /\ lease' = lease /\ pc' = pc /\ request' = request /\ calls' = calls
        /\ handle' = handle /\ scrolled' = scrolled /\ landed' = landed /\ result' = result
    BY <1>2 DEF Expire, app
  <2>2. TypeOK'
    BY <1>2, <2>1 DEF Inv, TypeOK, Expire
  <2>3. /\ LeaseCoversAction' /\ InputHitsTarget'
        /\ NoInputYet' /\ ResultIsTrue'
    BY <2>1 DEF Inv, LeaseCoversAction, InputHitsTarget, NoInputYet, ResultIsTrue
  <2> QED
    BY <2>2, <2>3 DEF Inv
<1> QED
  BY <1>1, <1>2

-----------------------------------------------------------------------------
(* The theorems *)

\* The invariant holds of every ref action, whatever clients, errors and the
\* application do.
THEOREM RefActionInvHolds == Spec => []Inv
<1>1. Init => Inv
  <2> SUFFICES ASSUME Init
               PROVE  Inv
    OBVIOUS
  <2>1. TypeOK
    BY RefActionAssumption DEF Init, TypeOK, Steps, RefActionAssumption
  <2>2. LeaseCoversAction /\ InputHitsTarget
    BY DEF Init, LeaseCoversAction, InputHitsTarget, Leased
  <2>3. NoInputYet /\ ResultIsTrue
    BY RefActionAssumption
       DEF Init, NoInputYet, ResultIsTrue, Answering, RefActionAssumption
  <2> QED
    BY <2>1, <2>2, <2>3 DEF Inv
<1>2. Inv /\ [Next]_vars => Inv'
  <2> SUFFICES ASSUME Inv, [Next]_vars
               PROVE  Inv'
    OBVIOUS
  <2>1. CASE UNCHANGED vars
    <3>1. /\ shown' = shown /\ cond' = cond /\ drifted' = drifted
          /\ lease' = lease /\ pc' = pc /\ request' = request /\ calls' = calls
          /\ handle' = handle /\ expired' = expired /\ scrolled' = scrolled
          /\ landed' = landed /\ result' = result
      BY <2>1 DEF vars, app
    <3> QED
      BY <3>1 DEF Inv, TypeOK, LeaseCoversAction, InputHitsTarget,
                  NoInputYet, ResultIsTrue
  <2>2. ASSUME NEW c \in Clients, Step(c)
        PROVE  Inv'
    BY <2>2, PollingKeepsInv, AcquireKeepsInv, PreparingKeepsInv, CheckingKeepsInv,
       FailuresKeepInv, ExecuteKeepsInv, ReadbackKeepsInv, EndingKeepsInv DEF Step
  <2>3. ASSUME NEW c \in Clients, AdapterFails(c) \/ UnmarkedFails(c) \/ Retry(c) \/ Die(c)
        PROVE  Inv'
    BY <2>3, FailuresKeepInv, RetryKeepsInv, DieKeepsInv
  <2>4. CASE AppChanges \/ \E c \in Clients : Expire(c)
    BY <2>4, EnvironmentKeepsInv
  <2> QED
    BY <2>1, <2>2, <2>3, <2>4 DEF Next
<1> QED
  BY <1>1, <1>2, PTL DEF Spec

\* Every variable keeps its type; in particular the bound on calls holds.
THEOREM RefActionTypeCorrect == Spec => []TypeOK
BY RefActionInvHolds, PTL DEF Inv

\* No path through a call, its failures and its death leaves the lease taken,
\* and none acts without it.
THEOREM LeaseCoversEveryAction == Spec => []LeaseCoversAction
BY RefActionInvHolds, PTL DEF Inv

\* What was verified under the lease is what the input meets, for any number
\* of commands that act on the same application.
THEOREM InputsHitTheirTarget == Spec => []InputHitsTarget
BY RefActionInvHolds, PTL DEF Inv

-----------------------------------------------------------------------------
(* The contract *)

Heard == [c \in Clients |-> IF pc[c] = "done" THEN result[c] ELSE None]

ContractStep == Contract!Next \/ UNCHANGED <<landed, Heard>>

\* A call that fails tells its caller something true.
LEMMA FailTells ==
  ASSUME Inv, NEW c \in Clients, NEW d \in Contract!Dispositions, Fail(c, d),
         pc[c] # "done", Contract!Truthful(Told(FALSE, d), landed[c])
  PROVE  ContractStep
<1>1. /\ pc' = [pc EXCEPT ![c] = "done"]
      /\ result' = [result EXCEPT ![c] = Told(FALSE, d)]
      /\ landed' = landed
  BY DEF Fail, Goto
<1>2. Told(FALSE, d) \in Contract!Verdicts
  BY DEF Told, Contract!Verdicts
<1>3. \A e \in Clients : /\ pc'[e] = IF e = c THEN "done" ELSE pc[e]
                         /\ result'[e] = IF e = c THEN Told(FALSE, d) ELSE result[e]
  BY <1>1 DEF Inv, TypeOK
<1>4. Heard[c] = None
  BY DEF Heard
<1>5. Heard' = [Heard EXCEPT ![c] = Told(FALSE, d)]
  BY <1>3 DEF Heard
<1>6. Contract!Tell(c, Told(FALSE, d))
  BY <1>1, <1>4, <1>5 DEF Contract!Tell, Heard
<1> QED
  BY <1>2, <1>6 DEF ContractStep, Contract!Next

\* A step within a call is invisible to the caller.
LEMMA StepIsSilent ==
  ASSUME Inv, NEW c \in Clients, NEW step \in Steps \ {"done"}, Goto(c, step),
         pc[c] # "done", landed' = landed,
         \A e \in Clients : e # c => result'[e] = result[e]
  PROVE  ContractStep
<1>1. \A e \in Clients : pc'[e] = IF e = c THEN step ELSE pc[e]
  BY DEF Inv, TypeOK, Goto
<1>2. Heard' = Heard
  BY <1>1 DEF Heard
<1> QED
  BY <1>2 DEF ContractStep

LEMMA FailuresTell ==
  ASSUME Inv, NEW c \in Clients, NEW d \in Failures, Fail(c, d),
         pc[c] \notin Answering \cup {"dead"}
  PROVE  ContractStep
<1>1. d \in Contract!Dispositions /\ Contract!Truthful(Told(FALSE, d), landed[c])
  BY ReportedIsTruthful
<1> QED
  BY <1>1, FailTells DEF Answering

LEMMA ProceedIsSilent ==
  ASSUME Inv, NEW c \in Clients, NEW step \in Steps \ {"done"}, NEW h, Proceed(c, step, h),
         pc[c] # "done"
  PROVE  ContractStep
BY StepIsSilent DEF Proceed

\* The steps before the input tell nothing, or a failure.
LEMMA PollingKeepsContract ==
  ASSUME Inv, NEW c \in Clients,
         Start(c) \/ Poll(c) \/ PollCheck(c) \/ Acquire(c) \/ RefuseLease(c)
         \/ Focus(c) \/ Resolve(c) \/ Scroll(c)
  PROVE  ContractStep
<1>1. {"not_delivered", "unknown"} \subseteq Failures
  BY DEF Failures
<1>2. {"poll", "polled", "acquire", "focus", "resolve", "check"} \subseteq Steps \ {"done"}
  BY DEF Steps, Leased
<1>3. CASE Start(c)
  <2>1. PICK step \in {"poll", "acquire"} : Goto(c, step)
    BY <1>3 DEF Start
  <2> QED
    BY <1>2, <1>3, <2>1, StepIsSilent DEF Start
<1>4. CASE Poll(c)
  BY <1>1, <1>2, <1>4, FailuresTell, ProceedIsSilent DEF Poll, Answering
<1>5. CASE PollCheck(c)
  BY <1>1, <1>2, <1>5, FailuresTell, ProceedIsSilent DEF PollCheck, Answering
<1>6. CASE Acquire(c)
  <2>1. PICK step \in {"focus", "resolve"} : Goto(c, step)
    BY <1>6 DEF Acquire
  <2> QED
    BY <1>2, <1>6, <2>1, StepIsSilent DEF Acquire
<1>7. CASE RefuseLease(c)
  BY <1>1, <1>7, FailuresTell DEF RefuseLease, Answering
<1>8. CASE Focus(c) \/ Scroll(c)
  BY <1>2, <1>8, StepIsSilent DEF Focus, Scroll
<1>9. CASE Resolve(c)
  BY <1>2, <1>9, ProceedIsSilent DEF Resolve
<1> QED
  BY <1>3, <1>4, <1>5, <1>6, <1>7, <1>8, <1>9

LEMMA CheckingKeepsContract ==
  ASSUME Inv, NEW c \in Clients,
         Check(c) \/ Settle(c) \/ Recheck(c)
         \/ TraceStart(c) \/ AdapterFails(c) \/ UnmarkedFails(c)
  PROVE  ContractStep
<1>1. {"scroll", "settle", "recheck", "trace", "input"} \subseteq Steps \ {"done"}
  BY DEF Steps, Leased
<1>2. AfterScroll(c, "not_delivered") \in Failures
  BY DEF AfterScroll, Failures
<1>3. CASE Check(c)
  BY <1>1, <1>2, <1>3, FailuresTell, ProceedIsSilent DEF Check, Passes, NotActionable, Answering
<1>4. CASE Settle(c)
  BY <1>1, <1>2, <1>4, FailuresTell, ProceedIsSilent DEF Settle, Answering
<1>5. CASE Recheck(c)
  BY <1>1, <1>2, <1>5, FailuresTell, ProceedIsSilent DEF Recheck, Passes, NotActionable, Answering
<1>6. CASE TraceStart(c)
  BY <1>1, <1>6, FailuresTell, ProceedIsSilent DEF TraceStart, Failures, Answering
<1>7. CASE AdapterFails(c)
  <2>1. PICK d \in Failures : Fail(c, Reported(c, d))
    BY <1>7 DEF AdapterFails
  <2>2. Reported(c, d) \in Failures
    BY DEF Reported, MarkPreDispatch, AfterScroll, Failures
  <2> QED
    BY <1>7, <2>1, <2>2, FailuresTell DEF AdapterFails, Answering
<1>8. CASE UnmarkedFails(c)
  <2>1. PICK d \in {"unknown", "not_delivered"} : Fail(c, AfterScroll(c, d))
    BY <1>8 DEF UnmarkedFails
  <2>2. AfterScroll(c, d) \in Failures
    BY DEF AfterScroll, Failures
  <2> QED
    BY <1>8, <2>1, <2>2, FailuresTell DEF UnmarkedFails, Answering
<1> QED
  BY <1>3, <1>4, <1>5, <1>6, <1>7, <1>8

\* An input lands once, before anything is told of it.
LEMMA ExecuteKeepsContract ==
  ASSUME Inv, NEW c \in Clients, Execute(c)
  PROVE  ContractStep
<1>1. pc[c] = "input" /\ landed[c] = 0
  BY DEF Execute, Inv, NoInputYet, Answering
<1>2. PICK r : Answered(c, r)
  BY DEF Execute
<1>3. PICK step \in {"readback", "confirm"} : Goto(c, step)
  BY <1>2 DEF Answered
<1>4. \A e \in Clients : /\ pc'[e] = IF e = c THEN step ELSE pc[e]
                         /\ e # c => result'[e] = result[e]
  BY <1>2, <1>3 DEF Inv, TypeOK, Goto, Answered
<1>5. Heard' = Heard
  BY <1>1, <1>4 DEF Heard
<1>6. Heard[c] = None
  BY <1>1 DEF Heard
<1>7. CASE landed' = [landed EXCEPT ![c] = @ + 1]
  <2>1. landed' = [landed EXCEPT ![c] = 1]
    BY <1>1, <1>7
  <2>2. Contract!Land(c)
    BY <1>1, <1>5, <1>6, <2>1 DEF Contract!Land, Heard
  <2> QED
    BY <2>2 DEF ContractStep, Contract!Next
<1>8. CASE landed' = landed
  BY <1>5, <1>8 DEF ContractStep
<1> QED
  BY <1>7, <1>8 DEF Execute

\* What is told of a delivered input, or of a call that ends well, is what the
\* call carried since the input.
LEMMA EndingKeepsContract ==
  ASSUME Inv, NEW c \in Clients, Readback(c) \/ Confirm(c) \/ AfterWait(c)
  PROVE  ContractStep
<1>1. pc[c] \in {"readback", "confirm", "after"}
  BY DEF Readback, Confirm, AfterWait
<1>2. result[c] \in Contract!Verdicts /\ Contract!Truthful(result[c], landed[c])
  BY <1>1 DEF Inv, ResultIsTrue, Answering
<1>3. ASSUME Fail(c, "delivered_unverified")
      PROVE  ContractStep
  BY <1>1, <1>3, FailTells DEF Told, Contract!Truthful, Contract!Dispositions
<1>4. ASSUME ~ result[c].ok, Fail(c, result[c].disposition)
      PROVE  ContractStep
  <2>1. result[c].disposition \in Contract!Dispositions
    BY <1>2 DEF Contract!Verdicts
  <2>2. Contract!Truthful(Told(FALSE, result[c].disposition), landed[c])
    BY <1>2 DEF Told, Contract!Truthful
  <2> QED
    BY <1>1, <1>4, <2>1, <2>2, FailTells
<1>5. {"confirm", "after"} \subseteq Steps \ {"done"}
  BY DEF Steps, Leased
<1>6. CASE Readback(c)
  <2>1. PICK r : result' = [result EXCEPT ![c] = r]
    BY <1>6 DEF Readback
  <2>2. \A e \in Clients : e # c => result'[e] = result[e]
    BY <2>1 DEF Inv, TypeOK
  <2> QED
    BY <1>1, <1>5, <1>6, <2>2, StepIsSilent DEF Readback
<1>7. CASE Confirm(c)
  <2>1. CASE Goto(c, "after") /\ UNCHANGED <<landed, result>>
    BY <1>1, <1>5, <2>1, StepIsSilent
  <2> QED
    BY <1>3, <1>4, <1>7, <2>1 DEF Confirm
<1>8. ASSUME Proceed(c, "done", None), pc[c] = "after"
      PROVE  ContractStep
  <2>1. pc' = [pc EXCEPT ![c] = "done"] /\ result' = result /\ landed' = landed
    BY <1>8 DEF Proceed, Goto
  <2>2. \A e \in Clients : pc'[e] = IF e = c THEN "done" ELSE pc[e]
    BY <2>1 DEF Inv, TypeOK
  <2>3. Heard[c] = None
    BY <1>1 DEF Heard
  <2>4. Heard' = [Heard EXCEPT ![c] = result[c]]
    BY <2>1, <2>2 DEF Heard
  <2>5. \E v \in Contract!Verdicts : Contract!Tell(c, v)
    BY <1>2, <2>1, <2>3, <2>4 DEF Contract!Tell, Heard
  <2> QED
    BY <2>5 DEF ContractStep, Contract!Next
<1>9. CASE AfterWait(c)
  BY <1>3, <1>8, <1>9 DEF AfterWait
<1> QED
  BY <1>6, <1>7, <1>9

LEMMA RetryKeepsContract ==
  ASSUME Inv, NEW c \in Clients, Retry(c)
  PROVE  ContractStep
<1>1. /\ pc[c] = "done" /\ Contract!RetryIsSafe(result[c])
      /\ pc' = [pc EXCEPT ![c] = "idle"]
      /\ result' = [result EXCEPT ![c] = None]
      /\ landed' = landed
  BY DEF Retry, Goto
<1>2. \A e \in Clients : /\ pc'[e] = IF e = c THEN "idle" ELSE pc[e]
                         /\ result'[e] = IF e = c THEN None ELSE result[e]
  BY <1>1 DEF Inv, TypeOK
<1>3. Heard[c] = result[c] /\ result[c] \in Contract!Verdicts
  BY <1>1 DEF Heard, Inv, ResultIsTrue, Answering
<1>4. Heard' = [Heard EXCEPT ![c] = None]
  BY <1>2 DEF Heard
<1>5. Contract!Again(c)
  BY <1>1, <1>3, <1>4 DEF Contract!Again, Heard
<1> QED
  BY <1>5 DEF ContractStep, Contract!Next

LEMMA SurroundingsKeepContract ==
  ASSUME Inv, AppChanges \/ \E c \in Clients : Expire(c) \/ Die(c)
  PROVE  ContractStep
<1>1. CASE AppChanges \/ \E c \in Clients : Expire(c)
  <2>1. pc' = pc /\ result' = result /\ landed' = landed
    BY <1>1 DEF AppChanges, Expire
  <2>2. Heard' = Heard
    BY <2>1 DEF Heard
  <2> QED
    BY <2>1, <2>2 DEF ContractStep
<1>2. ASSUME NEW c \in Clients, Die(c)
      PROVE  ContractStep
  <2>1. /\ Goto(c, "dead") /\ pc[c] # "done" /\ landed' = landed
        /\ \A e \in Clients : e # c => result'[e] = result[e]
    BY <1>2 DEF Die, Inv, TypeOK
  <2>2. "dead" \in Steps \ {"done"}
    BY DEF Steps
  <2> QED
    BY <2>1, <2>2, StepIsSilent
<1> QED
  BY <1>1, <1>2

\* What an agent is told of its calls, and what the application sees of them,
\* is what the contract allows: RefAction implements DeliveryContract.
THEOREM KeepsItsContract == Spec => KeepsContract
<1>1. Init => Contract!Init
  BY DEF Init, Contract!Init
<1>2. Inv /\ [Next]_vars => ContractStep
  <2> SUFFICES ASSUME Inv, [Next]_vars
               PROVE  ContractStep
    OBVIOUS
  <2>1. CASE UNCHANGED vars
    <3>1. pc' = pc /\ result' = result /\ landed' = landed
      BY <2>1 DEF vars
    <3>2. Heard' = Heard
      BY <3>1 DEF Heard
    <3> QED
      BY <3>1, <3>2 DEF ContractStep
  <2>2. ASSUME NEW c \in Clients,
               Step(c) \/ AdapterFails(c) \/ UnmarkedFails(c) \/ Retry(c)
        PROVE  ContractStep
    BY <2>2, PollingKeepsContract, CheckingKeepsContract, ExecuteKeepsContract,
       EndingKeepsContract, RetryKeepsContract DEF Step
  <2>3. CASE AppChanges \/ \E c \in Clients : Expire(c) \/ Die(c)
    BY <2>3, SurroundingsKeepContract
  <2> QED
    BY <2>1, <2>2, <2>3 DEF Next
<1>3. ContractStep <=> [Contract!Next]_<<landed, Heard>>
  BY DEF ContractStep
<1> QED
  BY <1>1, <1>2, <1>3, RefActionInvHolds, PTL DEF Spec, KeepsContract, Contract!Spec, Heard
=============================================================================
