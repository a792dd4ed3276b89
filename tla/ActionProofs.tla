---------------------------- MODULE ActionProofs ----------------------------
(***************************************************************************)
(* What acts on the desktop: scrolling, the pointer, the checks before an  *)
(* action, windows, the choice of a value, the agent's own cursor, the     *)
(* library's boundary and the programs that are run.  The invariants of    *)
(* their components, for any number of units, attempts, helpers, calls and *)
(* adapters, and of steps of the user or the desktop.                      *)
(*                                                                         *)
(* ScrollInv, ActInv, WindowInv, SelectInv and RunInv say that what may    *)
(* still be reported is true of what was done.  PointerInv says at which   *)
(* moment the elements were where they were seen; OverlayInv that the      *)
(* helper that runs is at the socket or is started under the lock;         *)
(* BoundaryInv counts who uses what a handle stands for.                   *)
(***************************************************************************)
EXTENDS CommandState, Naturals, Sequences, FiniteSets, FiniteSetTheorems,
        SequenceTheorems, TLAPS

E == INSTANCE ScrollAction
U == INSTANCE PointerAction
Z == INSTANCE Actionability
X == INSTANCE WindowOps
S == INSTANCE SelectValue
O == INSTANCE CursorOverlay
F == INSTANCE FfiBoundary
Y == INSTANCE Subprocess

-----------------------------------------------------------------------------
(* Scrolling *)

\* An amount is asked for, and the ancestors are scrolled a number of times at most.
ASSUME AmountAssumption == Amount \in Nat \ {0} /\ MaxAttempts \in Nat

LEMMA ReportSays ==
  ASSUME NEW o, NEW v, NEW d
  PROVE  /\ E!Report(o, v, d).outcome = o
         /\ E!Report(o, v, d).verified = v
         /\ E!Report(o, v, d).disposition = d
BY Zenon DEF E!Report

\* A call that goes on says nothing yet.
LEMMA GotoIsHonest ==
  ASSUME E!ScrollInv, step # "done", NEW next, E!Goto(next)
  PROVE  /\ step' = next /\ report' = E!Running
         /\ E!NotDeliveredIsTrue' /\ E!ReportedIsScrolled'
<1>1. step' = next /\ report' = E!Running
  BY DEF E!Goto, E!ScrollInv
<1>2. /\ report'.outcome = "none" /\ report'.verified = FALSE
      /\ report'.disposition = "none"
  BY <1>1 DEF E!Running, E!Report
<1>3. E!NotDeliveredIsTrue'
  BY <1>2 DEF E!NotDeliveredIsTrue
<1>4. E!ReportedIsScrolled'
  BY <1>2 DEF E!ReportedIsScrolled
<1> QED
  BY <1>1, <1>3, <1>4

\* A call that fails claims that nothing was delivered only if that is said of it,
\* or nothing was scrolled before.
LEMMA FailIsHonest ==
  ASSUME NEW d, E!Fail(d),
         /\ d \in {"none", "not_delivered"} /\ (goal = "scroll" => d = "not_delivered")
         /\ goal # "scroll" => attempts = 0
         => lost' \/ (at' = start' /\ landing' = 0 /\ ~ coming')
  PROVE  step' = "done" /\ E!NotDeliveredIsTrue' /\ E!ReportedIsScrolled'
<1>1. PICK said : /\ step' = "done" /\ report' = E!Report("failed", FALSE, said)
                  /\ said = IF goal = "scroll" \/ d \notin {"none", "not_delivered"} THEN d
                            ELSE IF attempts = 0 THEN "not_delivered" ELSE "delivered_unverified"
  BY DEF E!Fail, E!Done
<1>2. report'.outcome = "failed" /\ report'.verified = FALSE /\ report'.disposition = said
  BY <1>1 DEF E!Report
<1>3. E!NotDeliveredIsTrue'
  <2>1. ASSUME said = "not_delivered"
        PROVE  lost' \/ (at' = start' /\ landing' = 0 /\ ~ coming')
    BY <1>1, <2>1
  <2> QED
    BY <1>2, <2>1, Zenon DEF E!NotDeliveredIsTrue
<1>4. E!ReportedIsScrolled'
  BY <1>2, Zenon DEF E!ReportedIsScrolled
<1> QED
  BY <1>1, <1>3, <1>4

\* A call that succeeds.
LEMMA DoneIsHonest ==
  ASSUME NEW o \in {"ok", "satisfied"}, NEW v \in BOOLEAN, E!Done(o, v, "none"),
         o = "satisfied" => lost' \/ (at' = start' /\ landing' = 0 /\ ~ coming'),
         goal' = "scroll" => /\ v \/ headed' \/ count' = Amount
                             /\ v => at' > start'
  PROVE  step' = "done" /\ E!NotDeliveredIsTrue' /\ E!ReportedIsScrolled'
<1>1. step' = "done" /\ report' = E!Report(o, v, "none")
  BY DEF E!Done
<1>2. report'.outcome = o /\ report'.verified = v /\ report'.disposition = "none"
  BY <1>1 DEF E!Report
<1>3. E!NotDeliveredIsTrue'
  BY <1>2, Zenon DEF E!NotDeliveredIsTrue
<1>4. E!ReportedIsScrolled'
  BY <1>2, Zenon DEF E!ReportedIsScrolled
<1> QED
  BY <1>1, <1>3, <1>4

LEMMA ScrollInvStarts ==
  ASSUME E!Init
  PROVE  E!ScrollInv
<1>1. report.outcome = "none" /\ report.verified = FALSE /\ report.disposition = "none"
  BY DEF E!Init, E!Running, E!Report
<1>2. E!NotDeliveredIsTrue /\ E!ReportedIsScrolled
  BY <1>1 DEF E!NotDeliveredIsTrue, E!ReportedIsScrolled
<1>3. E!NeverTooFar
  BY AmountAssumption DEF E!Init, E!NeverTooFar, E!Within, E!Edge
<1>4. E!ScrollIsCounted
  BY AmountAssumption DEF E!Init, E!ScrollIsCounted, E!Ways, E!Edge
<1>5. E!ViewIsUntouched
  BY DEF E!Init, E!ViewIsUntouched, E!Ways
<1>6. headed \in BOOLEAN /\ coming \in BOOLEAN /\ lost \in BOOLEAN
  BY Zenon DEF E!Init
<1> QED
  BY <1>2, <1>3, <1>4, <1>5, <1>6, AmountAssumption
     DEF E!Init, E!ScrollInv, E!ScrollIsHonest, E!Edge, E!Shown

\* The content stays within its ends, and goes no further than it is moved.
LEMMA WithinTheEnds ==
  ASSUME NEW x \in 0 .. 5, NEW d \in Int
  PROVE  /\ E!Within(x + d) \in 0 .. 5
         /\ d >= 0 => E!Within(x + d) >= x /\ E!Within(x + d) <= x + d
BY DEF E!Within, E!Edge

LEMMA WithinGrows ==
  ASSUME NEW x \in Int, NEW y \in Int, x <= y
  PROVE  E!Within(x) <= E!Within(y)
BY DEF E!Within, E!Edge

LEMMA NeverTooFarKept ==
  ASSUME start \in 0 .. 5, start' = start, goal' = goal, at' \in 0 .. 5, landing' \in Int,
         goal = "scroll" => at' >= start /\ at' + landing' <= start + Amount
  PROVE  E!NeverTooFar'
<1>1. CASE goal = "scroll"
  <2>1. at' + landing' \in Int /\ start + Amount \in Int
    BY AmountAssumption
  <2>2. E!Within(at' + landing') <= E!Within(start + Amount)
    BY <1>1, <2>1, WithinGrows
  <2> QED
    BY <1>1, <2>2 DEF E!NeverTooFar
<1>2. CASE goal # "scroll"
  BY <1>2 DEF E!NeverTooFar
<1> QED
  BY <1>1, <1>2

LEMMA MovesAreBounded ==
  ASSUME at \in 0 .. 5, landing \in Int, NEW d \in Int, NEW yes, E!Moves(d, yes)
  PROVE  /\ at' \in 0 .. 5 /\ landing' \in Int
         /\ yes = "no" => at' = at /\ landing' = landing
         /\ d >= 0 => at' >= at /\ landing' >= landing /\ at' + landing' <= at + landing + d
<1>1. CASE at' = at /\ landing' = landing
  BY <1>1
<1>2. CASE yes # "no" /\ at' = E!Within(at + d) /\ landing' = landing
  <2>1. /\ E!Within(at + d) \in 0 .. 5
        /\ d >= 0 => E!Within(at + d) >= at /\ E!Within(at + d) <= at + d
    BY WithinTheEnds
  <2> QED
    BY <1>2, <2>1
<1>3. CASE yes # "no" /\ landing' = landing + d /\ at' = at
  BY <1>3
<1> QED
  BY <1>1, <1>2, <1>3 DEF E!Moves

\* The invariant after a step of the call, from its parts.
LEMMA ScrollParts ==
  ASSUME E!ScrollInv, UNCHANGED E!callVars,
         at' \in 0 .. 5, landing' \in Int, count' \in 0 .. Amount, attempts' \in 0 .. MaxAttempts,
         coming' \in BOOLEAN, lost' \in BOOLEAN,
         step' # "done" => report' = E!Running,
         step' = "wheel" => headed,
         goal = "scroll" =>
           /\ ~ coming' /\ attempts' = 0 /\ at' >= start /\ landing' >= 0
           /\ at' + landing' <= start + Amount
           /\ step' # "done" => at' + landing' <= start + count'
           /\ step' \in {"start", "area", "value", "wheel"} => count' = 0
           /\ step' \in E!Ways => count' < Amount
           /\ step' \notin {"to visible", "settle", "look"},
         goal = "view" =>
           /\ attempts' = 0 /\ step' \notin {"settle", "done"}
              => lost' \/ (at' = start /\ landing' = 0 /\ ~ coming')
           /\ step' \in {"start", "to visible", "settle"}
              => attempts' = 0 /\ ~ lost' /\ landing' = 0
           /\ step' \in E!Ways => count' = 0
           /\ step' \in E!Ways \cup {"area"} => attempts' < MaxAttempts,
         E!NotDeliveredIsTrue', E!ReportedIsScrolled'
  PROVE  E!ScrollInv'
<1>1. goal' = goal /\ headed' = headed /\ start' = start
  BY DEF E!callVars
<1>2. E!ScrollIsCounted'
  BY <1>1 DEF E!ScrollIsCounted, E!Ways
<1>3. E!ViewIsUntouched'
  BY <1>1 DEF E!ViewIsUntouched, E!Ways, E!ScrollInv
<1>4. E!NeverTooFar'
  <2>1. start \in 0 .. 5
    BY DEF E!ScrollInv, E!Edge
  <2>2. goal = "scroll" => at' >= start /\ at' + landing' <= start + Amount
    OBVIOUS
  <2> QED
    BY <1>1, <2>1, <2>2, NeverTooFarKept
<1>5. headed' \in BOOLEAN
  BY <1>1, Zenon DEF E!ScrollInv
<1> QED
  BY <1>1, <1>2, <1>3, <1>4, <1>5 DEF E!ScrollInv, E!ScrollIsHonest, E!Edge, E!Running, E!Report

LEMMA UnitsAndDirection ==
  ASSUME E!ScrollInv
  PROVE  /\ E!Direction \in {1, -1} /\ E!Units \in Nat /\ E!Direction * E!Units \in Int
         /\ goal = "scroll" => E!Direction = 1 /\ E!Units = Amount
                               /\ E!Direction * E!Units = Amount
         /\ goal # "scroll" => E!Units = 1
BY AmountAssumption DEF E!ScrollInv, E!Direction, E!Units, E!Shown

\* One unit of a way.
LEMMA RepeatIsKept ==
  ASSUME E!ScrollInv, step \in {"bar", "sub", "page"}, NEW next \in {"value", "page", "none"},
         E!Repeat(next)
  PROVE  E!ScrollInv'
<1>1. PICK yes \in E!Answers, tardy \in BOOLEAN :
        /\ E!Moves(E!Direction, yes)
        /\ tardy =>
             /\ IF count = 0 THEN E!Lose(yes) ELSE UNCHANGED lost
             /\ E!Fail(E!Stopped(E!OverTime(yes))) /\ UNCHANGED <<count, attempts>>
        /\ ~ tardy =>
             /\ UNCHANGED lost
             /\ \/ /\ yes = "yes" /\ count' = count + 1
                   /\ IF count' = E!Units THEN E!Finish(FALSE)
                                          ELSE UNCHANGED attempts /\ E!Goto(step)
                \/ /\ yes = "no" /\ UNCHANGED <<count, attempts>>
                   /\ IF count = 0 /\ next # "none" THEN E!Goto(next) ELSE E!Fail(E!Stopped("none"))
                \/ /\ yes = "unclear" /\ UNCHANGED <<count, attempts>>
                   /\ E!Fail(E!Stopped("uncertain"))
  BY DEF E!Repeat
<1>2. UNCHANGED E!callVars /\ coming' = coming
  BY DEF E!Repeat, E!Still
<1>3. goal' = goal /\ headed' = headed /\ start' = start
  BY <1>2 DEF E!callVars
<1>4. /\ at' \in 0 .. 5 /\ landing' \in Int /\ (yes = "no" => at' = at /\ landing' = landing)
      /\ goal = "scroll" => /\ at' >= at /\ landing' >= landing
                            /\ at' + landing' <= at + landing + 1
  <2>1. at \in 0 .. 5 /\ landing \in Int /\ E!Direction \in Int
        /\ (goal = "scroll" => E!Direction = 1)
    BY UnitsAndDirection DEF E!ScrollInv, E!Edge
  <2> QED
    BY <1>1, <2>1, MovesAreBounded
<1>5. /\ goal = "scroll" =>
           /\ ~ coming /\ attempts = 0 /\ at >= start /\ landing >= 0
           /\ at + landing <= start + count /\ count < Amount
      /\ goal = "view" =>
           /\ count = 0 /\ attempts < MaxAttempts
           /\ attempts = 0 => lost \/ (at = start /\ landing = 0 /\ ~ coming)
  BY DEF E!ScrollInv, E!ScrollIsCounted, E!ViewIsUntouched, E!Ways
<1>6. /\ count \in 0 .. Amount /\ attempts \in 0 .. MaxAttempts /\ goal \in {"scroll", "view"}
      /\ start \in 0 .. 5 /\ at \in 0 .. 5 /\ landing \in Int
  BY DEF E!ScrollInv, E!Edge
<1>7. coming \in BOOLEAN /\ lost \in BOOLEAN
  BY Zenon DEF E!ScrollInv
<1>9. goal = "scroll" =>
        /\ at' >= start /\ landing' >= 0 /\ attempts = 0
        /\ at' + landing' <= start + count + 1 /\ at' + landing' <= start + Amount
  <2>1. ASSUME goal = "scroll"
        PROVE  /\ at' >= start /\ landing' >= 0 /\ attempts = 0
               /\ at' + landing' <= start + count + 1 /\ at' + landing' <= start + Amount
    <3>1. /\ at' >= at /\ landing' >= landing /\ at' + landing' <= at + landing + 1
          /\ at >= start /\ landing >= 0 /\ attempts = 0
          /\ at + landing <= start + count /\ count < Amount
      BY <1>4, <1>5, <2>1
    <3>2. /\ at \in Int /\ landing \in Int /\ at' \in Int /\ landing' \in Int
          /\ start \in Int /\ count \in Int /\ Amount \in Int
      BY <1>4, <1>6, AmountAssumption
    <3>3. at' >= start /\ landing' >= 0
      BY <3>1, <3>2
    <3> DEFINE after == at' + landing'
               soonest == at + landing
    <3>7. after \in Int /\ soonest \in Int
      BY <3>2
    <3>8. after <= soonest + 1
      BY <3>1, Zenon
    <3>9. soonest <= start + count
      BY <3>1, Zenon
    <3>6. after \in Int /\ soonest \in Int /\ after <= soonest + 1 /\ soonest <= start + count
      BY <3>7, <3>8, <3>9
    <3> HIDE DEF after, soonest
    <3>4. after <= start + count + 1
      BY <3>6, <3>2
    <3>5. after <= start + Amount
      BY <3>1, <3>6, <3>2
    <3> QED
      BY <3>1, <3>3, <3>4, <3>5 DEF after
  <2> QED
    BY <2>1
<1>10. coming' \in BOOLEAN
  BY <1>2, <1>7, Zenon
\* A way that fails.
<1>8. ASSUME NEW d, E!Fail(d), UNCHANGED <<count, attempts>>, lost' \in BOOLEAN,
             /\ d \in {"none", "not_delivered"} /\ (goal = "scroll" => d = "not_delivered")
             /\ goal # "scroll" => attempts = 0
             => lost' \/ (at' = start' /\ landing' = 0 /\ ~ coming')
      PROVE  E!ScrollInv'
  <2>1. step' = "done" /\ E!NotDeliveredIsTrue' /\ E!ReportedIsScrolled'
    BY <1>8, FailIsHonest
  <2>2. count' \in 0 .. Amount /\ attempts' \in 0 .. MaxAttempts /\ attempts' = attempts
    BY <1>6, <1>8
  <2> QED
    BY <1>2, <1>4, <1>5, <1>8, <1>9, <1>10, <2>1, <2>2, ScrollParts DEF E!Ways
\* A way that is left for the next, or goes on.
<1>11. ASSUME NEW to \in E!Ways \ {"wheel"}, E!Goto(to), attempts' = attempts, lost' = lost,
              count' \in 0 .. Amount,
              goal = "scroll" => /\ at' + landing' <= start + count' /\ count' < Amount
                                 /\ to = "value" => count' = 0,
              goal = "view" => /\ count' = 0
                               /\ attempts = 0 => lost \/ (at' = start /\ landing' = 0 /\ ~ coming')
       PROVE  E!ScrollInv'
  <2>1. /\ step' = to /\ report' = E!Running
        /\ E!NotDeliveredIsTrue' /\ E!ReportedIsScrolled'
    BY <1>11, GotoIsHonest
  <2>2. attempts' \in 0 .. MaxAttempts /\ lost' \in BOOLEAN
    BY <1>6, <1>7, <1>11, Zenon
  <2>3. step' \notin {"start", "area", "wheel", "to visible", "settle", "look", "done"}
    BY <1>11, <2>1 DEF E!Ways
  <2>4. goal = "scroll" =>
          /\ ~ coming' /\ attempts' = 0 /\ at' >= start /\ landing' >= 0
          /\ at' + landing' <= start + Amount
          /\ step' # "done" => at' + landing' <= start + count'
          /\ step' \in {"start", "area", "value", "wheel"} => count' = 0
          /\ step' \in E!Ways => count' < Amount
          /\ step' \notin {"to visible", "settle", "look"}
    <3>1. ASSUME goal = "scroll"
          PROVE  /\ ~ coming' /\ attempts' = 0 /\ at' >= start /\ landing' >= 0
                 /\ at' + landing' <= start + Amount /\ at' + landing' <= start + count'
                 /\ count' < Amount /\ (to = "value" => count' = 0)
      BY <1>2, <1>5, <1>9, <1>11, <3>1, Zenon
    <3> QED
      BY <2>1, <2>3, <3>1, Zenon
  <2>5. goal = "view" =>
          /\ attempts' = 0 /\ step' \notin {"settle", "done"}
             => lost' \/ (at' = start /\ landing' = 0 /\ ~ coming')
          /\ step' \in {"start", "to visible", "settle"}
             => attempts' = 0 /\ ~ lost' /\ landing' = 0
          /\ step' \in E!Ways => count' = 0
          /\ step' \in E!Ways \cup {"area"} => attempts' < MaxAttempts
    BY <1>5, <1>11, <2>3
  <2> QED
    BY <1>2, <1>4, <1>10, <1>11, <2>1, <2>2, <2>3, <2>4, <2>5, ScrollParts
\* What was not moved was not moved.
<1>12. ASSUME yes = "no", count = 0, goal = "scroll" \/ attempts = 0
       PROVE  lost \/ (at' = start' /\ landing' = 0 /\ ~ coming')
  <2>1. CASE goal = "scroll"
    <3>1. /\ at >= start /\ landing >= 0 /\ ~ coming /\ at + landing <= start + 0
          /\ at \in Int /\ landing \in Int /\ start \in Int
      BY <1>5, <1>6, <1>12, <2>1
    <3>2. at = start /\ landing = 0
      BY <3>1
    <3> QED
      BY <1>2, <1>3, <1>4, <1>12, <3>1, <3>2
  <2>2. CASE goal = "view"
    BY <1>2, <1>3, <1>4, <1>5, <1>12, <2>2
  <2> QED
    BY <1>6, <2>1, <2>2
\* One unit was carried out.
<1>13. CASE ~ tardy /\ yes = "yes"
  <2>1. lost' = lost /\ count' = count + 1
    BY <1>1, <1>13
  <2>2. lost' \in BOOLEAN
    BY <1>7, <2>1, Zenon
  <2>3. CASE count' = E!Units /\ goal = "scroll"
    <3>1. E!Done("ok", FALSE, "none") /\ attempts' = attempts /\ count' = Amount
      BY <1>1, <1>13, <2>3, UnitsAndDirection DEF E!Finish
    <3>2. step' = "done" /\ E!NotDeliveredIsTrue' /\ E!ReportedIsScrolled'
      BY <3>1, DoneIsHonest, Zenon
    <3>3. count' \in 0 .. Amount /\ attempts' \in 0 .. MaxAttempts
      BY <1>6, <3>1, AmountAssumption
    <3> QED
      BY <1>2, <1>4, <1>5, <1>9, <1>10, <2>2, <2>3, <3>1, <3>2, <3>3, ScrollParts DEF E!Ways
  <2>4. CASE count' = E!Units /\ goal = "view"
    <3>1. E!Goto("look") /\ attempts' = attempts + 1
      BY <1>1, <1>13, <2>4 DEF E!Finish
    <3>2. /\ step' = "look" /\ report' = E!Running
          /\ E!NotDeliveredIsTrue' /\ E!ReportedIsScrolled'
      BY <3>1, GotoIsHonest
    <3>3. count' \in 0 .. Amount /\ attempts' \in 1 .. MaxAttempts
      BY <1>5, <1>6, <2>1, <2>4, <3>1, AmountAssumption
    <3> QED
      BY <1>2, <1>4, <1>10, <2>2, <2>4, <3>2, <3>3, ScrollParts DEF E!Ways
  <2>5. CASE count' # E!Units
    <3>1. E!Goto(step) /\ attempts' = attempts
      BY <1>1, <1>13, <2>5
    <3>2. goal = "scroll"
      BY <1>5, <1>6, <2>1, <2>5, UnitsAndDirection
    <3>3. count' \in 0 .. Amount /\ count' < Amount
      BY <1>5, <1>6, <2>1, <2>5, <3>2, UnitsAndDirection, AmountAssumption
    <3>4. at' + landing' <= start + count'
      <4>1. start + count' = start + count + 1
        BY <1>6, <2>1
      <4> QED
        BY <1>9, <3>2, <4>1
    <3>5. step \in E!Ways \ {"wheel"} /\ step # "value"
      BY DEF E!Ways
    <3> QED
      BY <1>11, <2>1, <3>1, <3>2, <3>3, <3>4, <3>5
  <2> QED
    BY <1>6, <2>3, <2>4, <2>5
\* The way is not supported.
<1>14. CASE ~ tardy /\ yes = "no"
  <2>1. UNCHANGED <<lost, count, attempts>> /\ at' = at /\ landing' = landing
    BY <1>1, <1>4, <1>14
  <2>2. lost' \in BOOLEAN
    BY <1>7, <2>1, Zenon
  <2>3. CASE count = 0 /\ next # "none"
    <3>1. E!Goto(next) /\ next \in E!Ways \ {"wheel"}
      BY <1>1, <1>14, <2>3 DEF E!Ways
    <3>2. goal = "scroll" => /\ at' + landing' <= start + count' /\ count' < Amount
                             /\ next = "value" => count' = 0
      BY <1>5, <2>1, <2>3
    <3>3. goal = "view" => /\ count' = 0
                           /\ attempts = 0 => lost \/ (at' = start /\ landing' = 0 /\ ~ coming')
      BY <1>2, <1>5, <2>1
    <3>4. count' \in 0 .. Amount
      BY <1>6, <2>1
    <3> QED
      BY <1>11, <2>1, <3>1, <3>2, <3>3, <3>4
  <2>4. CASE ~ (count = 0 /\ next # "none")
    <3>1. E!Fail(E!Stopped("none"))
      BY <1>1, <1>14, <2>4
    <3>2. ASSUME E!Stopped("none") \in {"none", "not_delivered"},
                 goal = "scroll" => E!Stopped("none") = "not_delivered",
                 goal # "scroll" => attempts = 0
          PROVE  lost' \/ (at' = start' /\ landing' = 0 /\ ~ coming')
      BY <1>12, <1>14, <2>1, <3>2 DEF E!Stopped
    <3> QED
      BY <1>8, <2>1, <2>2, <3>1, <3>2
  <2> QED
    BY <2>3, <2>4
<1>15. CASE ~ tardy /\ yes = "unclear"
  <2>1. UNCHANGED <<lost, count, attempts>> /\ E!Fail(E!Stopped("uncertain"))
    BY <1>1, <1>15
  <2>2. E!Stopped("uncertain") \notin {"none", "not_delivered"}
    BY DEF E!Stopped
  <2>3. lost' \in BOOLEAN
    BY <1>7, <2>1, Zenon
  <2> QED
    BY <1>8, <2>1, <2>2, <2>3
\* The answer comes too late.
<1>16. CASE tardy
  <2>1. E!Fail(E!Stopped(E!OverTime(yes))) /\ UNCHANGED <<count, attempts>>
        /\ IF count = 0 THEN E!Lose(yes) ELSE UNCHANGED lost
    BY <1>1, <1>16
  <2>2. lost' \in BOOLEAN
    BY <1>7, <2>1, Zenon DEF E!Lose
  <2>3. ASSUME E!Stopped(E!OverTime(yes)) \in {"none", "not_delivered"},
               goal = "scroll" => E!Stopped(E!OverTime(yes)) = "not_delivered",
               goal # "scroll" => attempts = 0
        PROVE  lost' \/ (at' = start' /\ landing' = 0 /\ ~ coming')
    <3>1. count = 0 /\ yes # "yes"
      BY <2>3 DEF E!Stopped, E!OverTime
    <3>2. CASE yes = "no"
      BY <1>12, <2>1, <2>3, <3>1, <3>2 DEF E!Lose
    <3>3. CASE yes = "unclear"
      BY <2>1, <3>1, <3>3 DEF E!Lose
    <3> QED
      BY <3>1, <3>2, <3>3 DEF E!Answers
  <2> QED
    BY <1>8, <2>1, <2>2, <2>3
<1> QED
  BY <1>13, <1>14, <1>15, <1>16 DEF E!Answers

\* What holds before a step of the call.
LEMMA ScrollNumbers ==
  ASSUME E!ScrollInv
  PROVE  /\ count \in 0 .. Amount /\ attempts \in 0 .. MaxAttempts
         /\ start \in 0 .. 5 /\ at \in 0 .. 5 /\ landing \in Int
         /\ count \in Int /\ start \in Int /\ at \in Int /\ Amount \in Int
BY AmountAssumption DEF E!ScrollInv, E!Edge

LEMMA ScrollFacts ==
  ASSUME E!ScrollInv
  PROVE  /\ goal \in {"scroll", "view"}
         /\ (step # "done" => report = E!Running) /\ (step = "wheel" => headed)
         /\ goal = "scroll" =>
              /\ ~ coming /\ attempts = 0 /\ at >= start /\ landing >= 0
              /\ at + landing <= start + Amount
              /\ step # "done" => at + landing <= start + count
              /\ step \in {"start", "area", "value", "wheel"} => count = 0
              /\ step \in E!Ways => count < Amount
              /\ step \notin {"to visible", "settle", "look"}
         /\ goal = "view" =>
              /\ ~ headed
              /\ attempts = 0 /\ step \notin {"settle", "done"}
                 => lost \/ (at = start /\ landing = 0 /\ ~ coming)
              /\ step \in {"start", "to visible", "settle"} => attempts = 0 /\ ~ lost /\ landing = 0
              /\ step \in E!Ways => count = 0
              /\ step \in E!Ways \cup {"area"} => attempts < MaxAttempts
BY Zenon DEF E!ScrollInv, E!ScrollIsCounted, E!ViewIsUntouched

LEMMA ScrollTruths ==
  ASSUME E!ScrollInv
  PROVE  headed \in BOOLEAN /\ coming \in BOOLEAN /\ lost \in BOOLEAN
BY Zenon DEF E!ScrollInv

\* A call that fails without a step of its own says nothing that is not so.
LEMMA StillFails ==
  ASSUME E!ScrollInv, step \notin {"settle", "done"}, E!NothingMoves, attempts' = attempts,
         count' \in {0, count}, NEW d \in {"none", "delivered_unverified"}, E!Fail(d)
  PROVE  E!ScrollInv'
<1>1. UNCHANGED E!callVars /\ at' = at /\ landing' = landing /\ coming' = coming /\ lost' = lost
  BY DEF E!NothingMoves, E!Still, E!contentVars
<1>2. start' = start
  BY <1>1 DEF E!callVars
<1>3. coming' \in BOOLEAN /\ lost' \in BOOLEAN
  BY <1>1, ScrollTruths, Zenon
<1>4. count' \in 0 .. Amount /\ attempts' \in 0 .. MaxAttempts /\ at' \in 0 .. 5 /\ landing' \in Int
  BY <1>1, ScrollNumbers, AmountAssumption
<1>5. ASSUME d \in {"none", "not_delivered"}, goal = "scroll" => d = "not_delivered",
             goal # "scroll" => attempts = 0
      PROVE  lost' \/ (at' = start' /\ landing' = 0 /\ ~ coming')
  BY <1>1, <1>2, <1>5, ScrollFacts
<1>6. step' = "done" /\ E!NotDeliveredIsTrue' /\ E!ReportedIsScrolled'
  BY <1>5, FailIsHonest
<1> QED
  BY <1>1, <1>3, <1>4, <1>6, ScrollFacts, ScrollParts DEF E!Ways

\* A call that goes on to the next step.
LEMMA StillGoes ==
  ASSUME E!ScrollInv, step \notin {"settle", "done"}, E!NothingMoves, attempts' = attempts,
         count' \in {0, count}, NEW to, E!Goto(to), to # "done", to = "wheel" => headed,
         goal = "scroll" =>
           /\ at + landing <= start + count'
           /\ to \in {"start", "area", "value", "wheel"} => count' = 0
           /\ to \in E!Ways => count' < Amount
           /\ to \notin {"to visible", "settle", "look"},
         goal = "view" =>
           /\ to \in {"start", "to visible", "settle"} => attempts = 0 /\ ~ lost /\ landing = 0
           /\ to \in E!Ways => count' = 0
           /\ to \in E!Ways \cup {"area"} => attempts < MaxAttempts
  PROVE  E!ScrollInv'
<1>1. UNCHANGED E!callVars /\ at' = at /\ landing' = landing /\ coming' = coming /\ lost' = lost
  BY DEF E!NothingMoves, E!Still, E!contentVars
<1>3. coming' \in BOOLEAN /\ lost' \in BOOLEAN
  BY <1>1, ScrollTruths, Zenon
<1>4. count' \in 0 .. Amount /\ attempts' \in 0 .. MaxAttempts /\ at' \in 0 .. 5 /\ landing' \in Int
  <2>1. count' \in 0 .. Amount
    BY ONLY count' \in {0, count}, ScrollNumbers, E!ScrollInv, AmountAssumption
  <2>2. attempts' \in 0 .. MaxAttempts
    BY ScrollNumbers
  <2> QED
    BY <1>1, <2>1, <2>2, ScrollNumbers
<1>5. /\ step' = to /\ report' = E!Running
      /\ E!NotDeliveredIsTrue' /\ E!ReportedIsScrolled'
  BY GotoIsHonest
<1> QED
  BY <1>1, <1>3, <1>4, <1>5, ScrollFacts, ScrollParts

LEMMA PlusNothing ==
  ASSUME NEW x \in Int
  PROVE  x + 0 = x /\ 0 >= 0
OBVIOUS

LEMMA LandIsKept ==
  ASSUME E!ScrollInv, E!Land
  PROVE  E!ScrollInv'
<1>1. /\ UNCHANGED E!callVars /\ goal' = goal /\ start' = start /\ headed' = headed
      /\ lost' = lost /\ step' = step /\ count' = count /\ attempts' = attempts
      /\ report' = report
      /\ \/ landing # 0 /\ at' = E!Within(at + landing) /\ landing' = 0 /\ coming' = coming
         \/ coming /\ at' = 1 /\ coming' = FALSE /\ landing' = landing
  BY DEF E!Land, E!callVars, E!Shown
<1>2. /\ at' \in 0 .. 5 /\ landing' \in Int
      /\ goal = "scroll" => at' >= at /\ landing' = 0 /\ at' <= at + landing
  <2>1. CASE landing # 0 /\ at' = E!Within(at + landing) /\ landing' = 0
    <3>1. /\ E!Within(at + landing) \in 0 .. 5
          /\ landing >= 0 => E!Within(at + landing) >= at /\ E!Within(at + landing) <= at + landing
      BY ScrollNumbers, WithinTheEnds
    <3>2. goal = "scroll" => landing >= 0
      BY ScrollFacts, Zenon
    <3> QED
      BY <2>1, <3>1, <3>2
  <2>2. CASE coming /\ at' = 1 /\ landing' = landing
    <3>1. goal # "scroll"
      BY <2>2, ScrollFacts
    <3> QED
      BY <2>2, <3>1, ScrollNumbers
  <2> QED
    BY <1>1, <2>1, <2>2
<1>3. coming' \in BOOLEAN /\ lost' \in BOOLEAN
  BY <1>1, ScrollTruths, Zenon
<1>4. count' \in 0 .. Amount /\ attempts' \in 0 .. MaxAttempts
  BY <1>1, ScrollNumbers
<1>5. E!NotDeliveredIsTrue'
  BY <1>1 DEF E!ScrollInv, E!ScrollIsHonest, E!NotDeliveredIsTrue
<1>6. E!ReportedIsScrolled'
  <2>1. goal = "scroll" /\ report.verified => at > start
    BY DEF E!ScrollInv, E!ScrollIsHonest, E!ReportedIsScrolled
  <2>2. goal = "scroll" /\ report.verified => at' > start
    BY <1>2, <2>1, ScrollNumbers
  <2>3. goal = "scroll" /\ report.outcome = "ok" => report.verified \/ headed \/ count = Amount
    BY DEF E!ScrollInv, E!ScrollIsHonest, E!ReportedIsScrolled
  <2> QED
    BY <1>1, <2>2, <2>3, Zenon DEF E!ReportedIsScrolled
<1>7. goal = "scroll" =>
        /\ ~ coming' /\ attempts' = 0 /\ at' >= start /\ landing' >= 0
        /\ at' + landing' <= start + Amount
        /\ step' # "done" => at' + landing' <= start + count'
        /\ step' \in {"start", "area", "value", "wheel"} => count' = 0
        /\ step' \in E!Ways => count' < Amount
        /\ step' \notin {"to visible", "settle", "look"}
  <2>1. ASSUME goal = "scroll"
        PROVE  /\ ~ coming' /\ attempts' = 0 /\ at' >= start /\ landing' = 0
               /\ at' <= start + Amount /\ (step' # "done" => at' <= start + count')
    <3>1. ~ coming /\ attempts = 0 /\ ~ coming'
      <4>1. ~ coming /\ attempts = 0
        BY <2>1, ScrollFacts, Zenon
      <4> QED
        BY <1>1, <4>1
    <3>2. /\ at' \in Int /\ at' >= at /\ landing' = 0 /\ at' <= at + landing
          /\ at \in Int /\ landing \in Int /\ start \in Int /\ count \in Int /\ Amount \in Int
          /\ at >= start
      <4>1. at >= start
        BY <2>1, ScrollFacts, Zenon
      <4> QED
        BY <1>2, <2>1, <4>1, ScrollNumbers
    <3>3. at' <= start + Amount
      <4>1. at + landing <= start + Amount
        BY <2>1, ScrollFacts, Zenon
      <4> QED
        BY ONLY <3>2, <4>1
    <3>4. step' # "done" => at' <= start + count'
      <4>1. ASSUME step # "done"
            PROVE  at + landing <= start + count
        BY <2>1, <4>1, ScrollFacts, Zenon
      <4>2. ASSUME step # "done"
            PROVE  at' <= start + count
        <5>1. at + landing <= start + count
          BY <4>1, <4>2
        <5> QED
          BY ONLY <3>2, <5>1
      <4> QED
        BY <1>1, <4>2
    <3>5. at' >= start
      BY ONLY <3>2
    <3> QED
      BY <1>1, <3>1, <3>2, <3>3, <3>4, <3>5
  <2>2. ASSUME goal = "scroll"
        PROVE  /\ step' \in {"start", "area", "value", "wheel"} => count' = 0
               /\ step' \in E!Ways => count' < Amount
               /\ step' \notin {"to visible", "settle", "look"}
    BY <1>1, <2>2, ScrollFacts
  <2>3. ASSUME goal = "scroll"
        PROVE  at' + landing' = at' /\ landing' >= 0
    <3>1. landing' = 0 /\ at' \in Int
      BY <1>2, <2>3
    <3>2. at' + 0 = at' /\ 0 >= 0
      BY <3>1, PlusNothing, Zenon
    <3> QED
      BY <3>1, <3>2, Zenon
  <2> QED
    BY <2>1, <2>2, <2>3
<1>8. goal = "view" =>
        /\ attempts' = 0 /\ step' \notin {"settle", "done"}
           => lost' \/ (at' = start /\ landing' = 0 /\ ~ coming')
        /\ step' \in {"start", "to visible", "settle"}
           => attempts' = 0 /\ ~ lost' /\ landing' = 0
        /\ step' \in E!Ways => count' = 0
        /\ step' \in E!Ways \cup {"area"} => attempts' < MaxAttempts
  BY <1>1, ScrollFacts
<1>9. (step' # "done" => report' = E!Running) /\ (step' = "wheel" => headed)
  BY <1>1, ScrollFacts
<1> QED
  BY <1>1, <1>2, <1>3, <1>4, <1>5, <1>6, <1>7, <1>8, <1>9, ScrollParts

LEMMA StartIsKept ==
  ASSUME E!ScrollInv, E!Start
  PROVE  E!ScrollInv'
<1>1. step = "start" /\ E!NothingMoves /\ count' = count /\ attempts' = attempts
  BY DEF E!Start
<1>2. CASE goal = "scroll" /\ E!Goto("area")
  BY <1>1, <1>2, ScrollFacts, StillGoes DEF E!Ways
<1>3. CASE goal = "view" /\ E!Goto("to visible")
  BY <1>1, <1>3, ScrollFacts, StillGoes DEF E!Ways
<1>4. CASE E!Fail("none")
  BY <1>1, <1>4, StillFails
<1> QED
  BY <1>2, <1>3, <1>4, ScrollFacts DEF E!Start

LEMMA AreaIsKept ==
  ASSUME E!ScrollInv, E!Area
  PROVE  E!ScrollInv'
<1>1. step = "area" /\ E!NothingMoves /\ count' = 0 /\ attempts' = attempts
  BY DEF E!Area
<1>2. goal = "scroll" => at + landing <= start + count' /\ count' < Amount
  <2>1. goal = "scroll" => count = 0 /\ at + landing <= start + count
    BY <1>1, ScrollFacts, Zenon
  <2>2. 0 < Amount
    BY AmountAssumption
  <2> QED
    BY <1>1, <2>1, <2>2, Zenon
<1>3. goal = "view" => ~ headed /\ attempts < MaxAttempts
  BY <1>1, ScrollFacts
<1>4. ASSUME NEW to \in {"wheel", "bar", "page"}, E!Goto(to), to = "wheel" => headed
      PROVE  E!ScrollInv'
  BY <1>1, <1>2, <1>3, <1>4, StillGoes DEF E!Ways
<1>5. CASE E!Goto(IF headed THEN "wheel" ELSE "bar")
  BY <1>4, <1>5, ScrollTruths
<1>6. CASE E!Goto("page")
  BY <1>4, <1>6
<1>7. CASE E!Unread
  BY <1>1, <1>7, StillFails DEF E!Unread
<1> QED
  BY <1>5, <1>6, <1>7 DEF E!Area

LEMMA SubIsKept ==
  ASSUME E!ScrollInv, E!Sub
  PROVE  E!ScrollInv'
<1>1. CASE E!Repeat("page")
  BY <1>1, RepeatIsKept DEF E!Sub
<1>2. CASE E!NothingMoves /\ UNCHANGED <<count, attempts>> /\ E!Goto("page")
  <2>1. step = "sub" /\ E!NothingMoves /\ count' = count /\ attempts' = attempts
    BY <1>2 DEF E!Sub
  <2>2. goal = "scroll" => at + landing <= start + count' /\ count' < Amount
    BY <2>1, ScrollFacts, Zenon DEF E!Ways
  <2>3. goal = "view" => count' = 0 /\ attempts < MaxAttempts
    BY <2>1, ScrollFacts DEF E!Ways
  <2> QED
    BY <1>2, <2>1, <2>2, <2>3, StillGoes DEF E!Ways
<1>3. CASE E!NothingMoves /\ UNCHANGED <<count, attempts>> /\ E!Unread
  BY <1>3, StillFails DEF E!Unread, E!Sub
<1> QED
  BY <1>1, <1>2, <1>3 DEF E!Sub

LEMMA ToVisibleIsKept ==
  ASSUME E!ScrollInv, E!ToVisible
  PROVE  E!ScrollInv'
<1>1. /\ step = "to visible" /\ UNCHANGED E!callVars /\ start' = start /\ landing' = landing
      /\ lost' = lost /\ count' = count /\ attempts' = attempts
  BY DEF E!ToVisible, E!Still, E!callVars
<1>2. goal = "view" /\ attempts = 0 /\ ~ lost /\ landing = 0 /\ at = start /\ ~ coming
  BY <1>1, ScrollFacts
<1>3. at' \in 0 .. 5 /\ coming' \in BOOLEAN
  <2>1. at' = at \/ at' = 1
    BY DEF E!ToVisible, E!Shown
  <2>2. at' \in 0 .. 5
    BY <2>1, ScrollNumbers
  <2>3. coming' = coming \/ coming' = TRUE
    BY DEF E!ToVisible
  <2>4. coming' \in BOOLEAN
    BY <2>3, ScrollTruths, Zenon
  <2> QED
    BY <2>2, <2>4
<1>4. lost' \in BOOLEAN /\ landing' \in Int
  <2>1. lost' \in BOOLEAN
    BY <1>1, ScrollTruths, Zenon
  <2> QED
    BY <1>1, <2>1, ScrollNumbers
<1>5. count' \in 0 .. Amount /\ attempts' \in 0 .. MaxAttempts
  BY <1>1, ScrollNumbers
<1>6. ASSUME NEW d, E!Fail(d),
             d \in {"none", "not_delivered"} => at' = at /\ coming' = coming
      PROVE  E!ScrollInv'
  <2>1. step' = "done" /\ E!NotDeliveredIsTrue' /\ E!ReportedIsScrolled'
    <3>1. d \in {"none", "not_delivered"} => at' = start' /\ landing' = 0 /\ ~ coming'
      <4>1. d \in {"none", "not_delivered"} => ~ coming'
        BY <1>2, <1>6
      <4>2. d \in {"none", "not_delivered"} => at' = start' /\ landing' = 0
        BY <1>1, <1>2, <1>6
      <4> QED
        BY <4>1, <4>2, Zenon
    <3> QED
      BY <1>6, <3>1, FailIsHonest
  <2> QED
    BY <1>1, <1>2, <1>3, <1>4, <1>5, <2>1, ScrollParts DEF E!Ways
<1>7. CASE E!Goto("settle")
  <2>1. step' = "settle" /\ report' = E!Running /\ E!NotDeliveredIsTrue' /\ E!ReportedIsScrolled'
    BY <1>1, <1>7, GotoIsHonest
  <2> QED
    BY <1>1, <1>2, <1>3, <1>4, <1>5, <2>1, ScrollParts DEF E!Ways
<1>8. CASE E!Goto("look") /\ at' = at /\ coming' = coming
  <2>1. step' = "look" /\ report' = E!Running /\ E!NotDeliveredIsTrue' /\ E!ReportedIsScrolled'
    BY <1>1, <1>8, GotoIsHonest
  <2> QED
    BY <1>1, <1>2, <1>3, <1>4, <1>5, <1>8, <2>1, ScrollParts DEF E!Ways
<1>9. \/ at' = at /\ coming' = coming /\ E!Fail("not_delivered")
      \/ E!Goto("settle") \/ E!Fail("delivered_unverified") \/ E!Fail("uncertain")
      \/ E!Goto("look") /\ at' = at /\ coming' = coming
  BY DEF E!ToVisible
<1> QED
  BY <1>6, <1>7, <1>8, <1>9

LEMMA SettleIsKept ==
  ASSUME E!ScrollInv, E!Settle
  PROVE  E!ScrollInv'
<1>1. /\ step = "settle" /\ UNCHANGED E!callVars /\ start' = start /\ at' = at
      /\ landing' = landing /\ coming' = coming /\ count' = count /\ attempts' = attempts
  BY DEF E!Settle, E!Still, E!callVars, E!contentVars
<1>2. goal = "view" /\ attempts = 0 /\ landing = 0
  BY <1>1, ScrollFacts
<1>3. at' \in 0 .. 5 /\ landing' \in Int /\ count' \in 0 .. Amount /\ attempts' \in 0 .. MaxAttempts
  BY <1>1, ScrollNumbers
<1>4. coming' \in BOOLEAN
  BY <1>1, ScrollTruths, Zenon
<1>5. lost' \in BOOLEAN
  BY ScrollTruths, Zenon DEF E!Settle
<1>6. CASE E!Done("ok", TRUE, "none")
  <2>1. goal' # "scroll"
    BY <1>1, <1>2 DEF E!callVars
  <2>2. step' = "done" /\ E!NotDeliveredIsTrue' /\ E!ReportedIsScrolled'
    BY <1>6, <2>1, DoneIsHonest
  <2> QED
    BY <1>1, <1>2, <1>3, <1>4, <1>5, <2>2, ScrollParts DEF E!Ways
<1>7. CASE E!Fail("delivered_unverified")
  <2>1. step' = "done" /\ E!NotDeliveredIsTrue' /\ E!ReportedIsScrolled'
    BY <1>7, FailIsHonest
  <2> QED
    BY <1>1, <1>2, <1>3, <1>4, <1>5, <2>1, ScrollParts DEF E!Ways
<1>8. CASE at = start /\ E!Goto("look") /\ lost' = coming
  <2>1. step' = "look" /\ report' = E!Running /\ E!NotDeliveredIsTrue' /\ E!ReportedIsScrolled'
    BY <1>1, <1>8, GotoIsHonest
  <2>2. lost' \/ ~ coming'
    BY <1>1, <1>8, ScrollTruths
  <2> QED
    BY <1>1, <1>2, <1>3, <1>4, <1>5, <1>8, <2>1, <2>2, ScrollParts DEF E!Ways
<1> QED
  BY <1>6, <1>7, <1>8 DEF E!Settle

LEMMA LookIsKept ==
  ASSUME E!ScrollInv, E!Look
  PROVE  E!ScrollInv'
<1>1. step = "look" /\ E!NothingMoves /\ count' = count /\ attempts' = attempts
  BY DEF E!Look
<1>2. goal = "view"
  BY <1>1, ScrollFacts
<1>3. CASE attempts < MaxAttempts /\ E!Goto("area")
  BY <1>1, <1>2, <1>3, StillGoes DEF E!Ways
<1>4. CASE E!Done(IF attempts = 0 THEN "satisfied" ELSE "ok", attempts > 0, "none")
  <2>1. PICK o \in {"ok", "satisfied"}, v \in BOOLEAN :
          E!Done(o, v, "none") /\ (o = "satisfied" => attempts = 0)
    <3>1. CASE attempts = 0
      <4>1. E!Done("satisfied", attempts > 0, "none") /\ (attempts > 0) \in BOOLEAN
        BY <1>4, <3>1
      <4> QED
        BY <3>1, <4>1, Zenon
    <3>2. CASE attempts # 0
      <4>1. E!Done("ok", attempts > 0, "none") /\ (attempts > 0) \in BOOLEAN
        BY <1>4, <3>2
      <4> QED
        BY <4>1, Zenon
    <3> QED
      BY <3>1, <3>2
  <2>2. /\ UNCHANGED E!callVars /\ at' = at /\ landing' = landing /\ coming' = coming
        /\ lost' = lost /\ goal' = goal /\ start' = start
    BY <1>1 DEF E!NothingMoves, E!Still, E!contentVars, E!callVars
  <2>3. o = "satisfied" => lost' \/ (at' = start' /\ landing' = 0 /\ ~ coming')
    BY <1>1, <1>2, <2>1, <2>2, ScrollFacts
  <2>4. step' = "done" /\ E!NotDeliveredIsTrue' /\ E!ReportedIsScrolled'
    BY <1>2, <2>1, <2>2, <2>3, DoneIsHonest
  <2>5. at' \in 0 .. 5 /\ landing' \in Int /\ count' \in 0 .. Amount /\ attempts' \in 0 .. MaxAttempts
    BY <1>1, <2>2, ScrollNumbers
  <2>6. coming' \in BOOLEAN /\ lost' \in BOOLEAN
    BY <2>2, ScrollTruths, Zenon
  <2> QED
    BY <1>2, <2>2, <2>4, <2>5, <2>6, ScrollParts DEF E!Ways
<1>5. CASE E!Unread \/ E!Fail("delivered_unverified")
  BY <1>1, <1>5, StillFails DEF E!Unread
<1> QED
  BY <1>3, <1>4, <1>5 DEF E!Look

\* All units at once.
LEMMA AllUnitsAreBounded ==
  ASSUME E!ScrollInv, step \in {"value", "wheel"}, E!Still, count' = count,
         NEW yes, E!Moves(E!Direction * E!Units, yes)
  PROVE  /\ UNCHANGED E!callVars /\ goal' = goal /\ start' = start /\ headed' = headed
         /\ at' \in 0 .. 5 /\ landing' \in Int /\ count' \in 0 .. Amount
         /\ yes = "no" => at' = at /\ landing' = landing
         /\ goal = "scroll" => /\ at' >= start /\ landing' >= 0 /\ at' >= at
                               /\ at' + landing' <= start + Amount
<1>1. UNCHANGED E!callVars /\ goal' = goal /\ start' = start /\ headed' = headed
  BY DEF E!Still, E!callVars
<1>2. /\ at' \in 0 .. 5 /\ landing' \in Int /\ (yes = "no" => at' = at /\ landing' = landing)
      /\ goal = "scroll" => /\ at' >= at /\ landing' >= landing
                            /\ at' + landing' <= at + landing + Amount
  <2>1. /\ E!Direction * E!Units \in Int
        /\ (goal = "scroll" => E!Direction * E!Units = Amount /\ E!Direction * E!Units >= 0)
    BY UnitsAndDirection, AmountAssumption
  <2>2. E!Direction * E!Units >= 0 =>
          /\ at' >= at /\ landing' >= landing
          /\ at' + landing' <= at + landing + E!Direction * E!Units
    BY <2>1, ScrollNumbers, MovesAreBounded
  <2>3. at' \in 0 .. 5 /\ landing' \in Int /\ (yes = "no" => at' = at /\ landing' = landing)
    BY <2>1, ScrollNumbers, MovesAreBounded
  <2> QED
    BY <2>1, <2>2, <2>3, Zenon
<1>3. count' \in 0 .. Amount
  BY ScrollNumbers
<1>4. ASSUME goal = "scroll"
      PROVE  /\ at' >= start /\ landing' >= 0 /\ at' >= at
             /\ at' + landing' <= start + Amount
  <2>1. /\ at >= start /\ landing >= 0 /\ count = 0 /\ at + landing <= start + count
    BY <1>4, ScrollFacts, Zenon
  <2>2. at' >= at /\ landing' >= landing /\ at' + landing' <= at + landing + Amount
    BY <1>2, <1>4, Zenon
  <2>3. at' \in Int /\ landing' \in Int /\ at \in Int /\ start \in Int /\ landing \in Int
        /\ Amount \in Int
    BY <1>2, ScrollNumbers
  <2>4. at' >= start /\ landing' >= 0
    BY ONLY <2>1, <2>2, <2>3
  <2>5. at + landing + Amount <= start + 0 + Amount /\ at' + landing' \in Int
        /\ at + landing + Amount \in Int
    BY ONLY <2>1, <2>3
  <2>6. at' + landing' <= start + Amount
    <3> DEFINE after == at' + landing'
               most == at + landing + Amount
    <3>1. after <= most /\ most <= start + 0 + Amount /\ after \in Int /\ most \in Int
      BY <2>2, <2>5, Zenon
    <3> HIDE DEF after, most
    <3>2. after <= start + Amount
      BY <2>3, <3>1
    <3> QED
      BY <3>2, Zenon DEF after
  <2> QED
    BY <2>2, <2>4, <2>6, Zenon
<1> QED
  BY <1>1, <1>2, <1>3, <1>4

\* A call that fails after all units at once, and one that succeeds.
LEMMA AllUnitsFail ==
  ASSUME E!ScrollInv, step \in {"value", "wheel"}, E!Still, count' = count, coming' = coming,
         attempts' = attempts, lost' \in BOOLEAN,
         NEW yes, E!Moves(E!Direction * E!Units, yes),
         NEW d, E!Fail(d),
         d \in {"none", "not_delivered"} => lost' \/ (yes = "no" /\ lost' = lost)
  PROVE  E!ScrollInv'
<1>1. /\ UNCHANGED E!callVars /\ goal' = goal /\ start' = start /\ headed' = headed
      /\ at' \in 0 .. 5 /\ landing' \in Int /\ count' \in 0 .. Amount
      /\ yes = "no" => at' = at /\ landing' = landing
      /\ goal = "scroll" => /\ at' >= start /\ landing' >= 0 /\ at' >= at
                            /\ at' + landing' <= start + Amount
  BY AllUnitsAreBounded
<1>2. coming' \in BOOLEAN
  BY ScrollTruths, Zenon
<1>3. attempts' \in 0 .. MaxAttempts
  BY ScrollNumbers
<1>4. ASSUME d \in {"none", "not_delivered"}, goal # "scroll" => attempts = 0
      PROVE  lost' \/ (at' = start' /\ landing' = 0 /\ ~ coming')
  <2>1. CASE lost'
    BY <2>1
  <2>2. CASE yes = "no" /\ lost' = lost
    <3>1. at' = at /\ landing' = landing
      BY <1>1, <2>2
    <3>2. lost \/ (at = start /\ landing = 0 /\ ~ coming)
      <4>1. CASE goal = "scroll"
        <5>1. /\ at >= start /\ landing >= 0 /\ count = 0 /\ at + landing <= start + count
              /\ ~ coming
          BY <4>1, ScrollFacts, Zenon
        <5>2. at = start /\ landing = 0
          BY ONLY <5>1, ScrollNumbers, E!ScrollInv
        <5> QED
          BY <5>1, <5>2
      <4>2. CASE goal = "view"
        BY <1>4, <4>2, ScrollFacts
      <4> QED
        BY <4>1, <4>2, ScrollFacts
    <3> QED
      BY <1>1, <2>2, <3>1, <3>2
  <2> QED
    BY <1>4, <2>1, <2>2
<1>5. step' = "done" /\ E!NotDeliveredIsTrue' /\ E!ReportedIsScrolled'
  BY <1>4, FailIsHonest
<1>6. goal = "scroll" => ~ coming' /\ attempts' = 0
  BY ScrollFacts
<1> QED
  BY <1>1, <1>2, <1>3, <1>5, <1>6, ScrollParts DEF E!Ways

LEMMA AllUnitsFinish ==
  ASSUME E!ScrollInv, step \in {"value", "wheel"}, E!Still, count' = count, coming' = coming,
         lost' = lost, NEW yes, E!Moves(E!Direction * E!Units, yes),
         NEW v \in BOOLEAN, E!Finish(v), v => at' # at, v \/ headed
  PROVE  E!ScrollInv'
<1>1. /\ UNCHANGED E!callVars /\ goal' = goal /\ start' = start /\ headed' = headed
      /\ at' \in 0 .. 5 /\ landing' \in Int /\ count' \in 0 .. Amount
      /\ goal = "scroll" => /\ at' >= start /\ landing' >= 0 /\ at' >= at
                            /\ at' + landing' <= start + Amount
  BY AllUnitsAreBounded
<1>2. coming' \in BOOLEAN /\ lost' \in BOOLEAN
  BY ScrollTruths, Zenon
<1>3. CASE goal = "scroll"
  <2>1. E!Done("ok", v, "none") /\ attempts' = attempts
    BY <1>3 DEF E!Finish
  <2>2. ~ coming' /\ attempts' = 0
    BY <1>3, <2>1, ScrollFacts
  <2>3. attempts' \in 0 .. MaxAttempts
    BY <2>1, ScrollNumbers
  <2>4. v => at' > start'
    <3>1. at >= start
      BY <1>3, ScrollFacts, Zenon
    <3>2. at' >= at
      BY <1>1, <1>3
    <3>3. at' # at => at' > start
      BY ONLY <1>1, <3>1, <3>2, ScrollNumbers, E!ScrollInv
    <3> QED
      BY <1>1, <3>3
  <2>5. v \/ headed'
    BY <1>1
  <2>6. step' = "done" /\ E!NotDeliveredIsTrue' /\ E!ReportedIsScrolled'
    BY <2>1, <2>4, <2>5, DoneIsHonest
  <2> QED
    BY <1>1, <1>2, <1>3, <2>2, <2>3, <2>6, ScrollParts DEF E!Ways
<1>4. CASE goal = "view"
  <2>1. E!Goto("look") /\ attempts' = attempts + 1
    BY <1>4 DEF E!Finish
  <2>2. /\ step' = "look" /\ report' = E!Running
        /\ E!NotDeliveredIsTrue' /\ E!ReportedIsScrolled'
    BY <2>1, GotoIsHonest
  <2>3. attempts < MaxAttempts
    BY <1>4, ScrollFacts DEF E!Ways
  <2>4. attempts' \in 1 .. MaxAttempts
    BY <2>1, <2>3, ScrollNumbers, AmountAssumption
  <2> QED
    BY <1>1, <1>2, <1>4, <2>2, <2>4, ScrollParts DEF E!Ways
<1> QED
  BY <1>3, <1>4, ScrollFacts

LEMMA ValueIsKept ==
  ASSUME E!ScrollInv, E!Value
  PROVE  E!ScrollInv'
<1>1. step = "value" /\ E!Still /\ coming' = coming /\ count' = count
  BY DEF E!Value
<1>2. /\ goal = "scroll" => at + landing <= start + count' /\ count' < Amount
      /\ goal = "view" => count' = 0 /\ attempts < MaxAttempts
  BY <1>1, ScrollFacts, Zenon DEF E!Ways
<1>3. ASSUME E!NothingMoves, attempts' = attempts, E!Goto("sub")
      PROVE  E!ScrollInv'
  BY <1>1, <1>2, <1>3, StillGoes DEF E!Ways
<1>4. CASE E!NothingMoves /\ attempts' = attempts /\ E!Unread
  BY <1>1, <1>4, StillFails DEF E!Unread
<1>5. ASSUME NEW yes \in E!Answers, NEW tardy \in BOOLEAN,
             E!Moves(E!Direction * E!Units, yes),
             IF tardy THEN E!Lose(yes) /\ E!Fail(E!OverTime(yes)) /\ UNCHANGED attempts
             ELSE
               /\ UNCHANGED lost
               /\ \/ yes = "yes" /\ at' # at /\ E!Finish(TRUE)
                  \/ yes = "yes" /\ UNCHANGED attempts /\ E!Fail("delivered_unverified")
                  \/ yes = "no" /\ UNCHANGED attempts /\ E!Goto("sub")
                  \/ yes = "unclear" /\ UNCHANGED attempts /\ E!Fail("uncertain")
      PROVE  E!ScrollInv'
  <2>1. CASE tardy
    <3>1. lost' \in BOOLEAN
      BY <1>5, <2>1, ScrollTruths, Zenon DEF E!Lose
    <3>2. E!OverTime(yes) \in {"none", "not_delivered"} => lost' \/ (yes = "no" /\ lost' = lost)
      <4>1. CASE yes = "unclear"
        BY <1>5, <2>1, <4>1 DEF E!Lose
      <4>2. CASE yes = "no"
        BY <1>5, <2>1, <4>2, ScrollTruths DEF E!Lose
      <4>3. CASE yes = "yes"
        BY <4>3 DEF E!OverTime
      <4> QED
        BY <4>1, <4>2, <4>3 DEF E!Answers
    <3>3. E!Fail(E!OverTime(yes)) /\ attempts' = attempts
      BY <1>5, <2>1
    <3> QED
      BY <1>1, <1>5, <3>1, <3>2, <3>3, AllUnitsFail
  <2>2. CASE ~ tardy /\ yes = "yes" /\ at' # at /\ E!Finish(TRUE)
    BY <1>1, <1>5, <2>2, AllUnitsFinish
  <2>3. ASSUME ~ tardy, attempts' = attempts, NEW d \in {"delivered_unverified", "uncertain"},
               E!Fail(d)
        PROVE  E!ScrollInv'
    <3>1. lost' \in BOOLEAN
      BY <1>5, <2>3, ScrollTruths, Zenon
    <3> QED
      BY <1>1, <1>5, <2>3, <3>1, AllUnitsFail
  <2>4. CASE ~ tardy /\ yes = "no" /\ attempts' = attempts /\ E!Goto("sub")
    <3>1. lost' = lost /\ at' = at /\ landing' = landing
      BY <1>1, <1>5, <2>4, AllUnitsAreBounded
    <3>2. E!NothingMoves
      BY <1>1, <3>1 DEF E!NothingMoves, E!contentVars
    <3> QED
      BY <1>3, <2>4, <3>2
  <2> QED
    BY <1>5, <2>1, <2>2, <2>3, <2>4
<1> QED
  BY <1>3, <1>4, <1>5 DEF E!Value

LEMMA WheelIsKept ==
  ASSUME E!ScrollInv, E!Wheel
  PROVE  E!ScrollInv'
<1>1. /\ step = "wheel" /\ E!Still /\ coming' = coming /\ lost' = lost /\ count' = count
  BY DEF E!Wheel
<1>2. headed
  BY <1>1, ScrollFacts
<1>3. CASE E!Moves(E!Direction * E!Units, "yes") /\ E!Finish(FALSE)
  BY <1>1, <1>2, <1>3, AllUnitsFinish
<1>4. CASE /\ E!Moves(E!Direction * E!Units, "yes") /\ E!Fail("delivered_unverified")
           /\ UNCHANGED attempts
  <2>1. lost' \in BOOLEAN
    BY <1>1, ScrollTruths, Zenon
  <2> QED
    BY <1>1, <1>4, <2>1, AllUnitsFail
<1>5. CASE UNCHANGED <<at, landing, attempts>> /\ E!Fail("none")
  <2>1. E!NothingMoves
    BY <1>1, <1>5 DEF E!NothingMoves, E!contentVars
  <2> QED
    BY <1>1, <1>5, <2>1, StillFails
<1> QED
  BY <1>3, <1>4, <1>5 DEF E!Wheel

LEMMA ScrollInvIsKept ==
  ASSUME E!ScrollInv, [E!Next]_(E!vars)
  PROVE  E!ScrollInv'
<1>1. CASE UNCHANGED E!vars
  BY <1>1 DEF E!vars, E!callVars, E!contentVars, E!ScrollInv, E!ScrollIsCounted,
              E!ViewIsUntouched, E!ScrollIsHonest, E!NeverTooFar, E!NotDeliveredIsTrue,
              E!ReportedIsScrolled, E!Ways, E!Within, E!Running, E!Report, E!Edge
<1>2. CASE E!Land
  BY <1>2, LandIsKept
<1>3. CASE E!Start \/ E!Area
  BY <1>3, StartIsKept, AreaIsKept
<1>4. CASE E!Bar \/ E!Page
  BY <1>4, RepeatIsKept DEF E!Bar, E!Page
<1>5. CASE E!Value \/ E!Sub \/ E!Wheel
  BY <1>5, ValueIsKept, SubIsKept, WheelIsKept
<1>6. CASE E!ToVisible \/ E!Settle \/ E!Look
  BY <1>6, ToVisibleIsKept, SettleIsKept, LookIsKept
<1> QED
  BY <1>1, <1>2, <1>3, <1>4, <1>5, <1>6 DEF E!Next

-----------------------------------------------------------------------------
(* Pointer actions *)

\* What follows from the ends that are elements, and the looks that are left.
LEMMA AgendaStarts ==
  ASSUME refs \subseteq U!Ends
  PROVE  /\ U!Leased \in U!Agendas
         /\ U!Leased = <<>> => refs = {}
         /\ U!Leased # <<>> => Head(U!Leased)[2] = 1 /\ (refs = U!Ends => Head(U!Leased)[1] = "from")
<1>1. refs \in {{}, {"from"}, {"to"}, {"from", "to"}}
  BY DEF U!Ends
<1>2. /\ {"from"} # {"to"} /\ {"from"} # {"from", "to"} /\ {"to"} # {"from", "to"}
      /\ {} # {"from"} /\ {} # {"to"} /\ {} # {"from", "to"}
  OBVIOUS
<1>3. CASE refs = {}
  <2>1. U!Leased = <<>>
    BY <1>2, <1>3 DEF U!Leased, U!Ends
  <2> QED
    BY <1>2, <1>3, <2>1 DEF U!Agendas, U!Ends
<1>4. ASSUME NEW e \in {"from", "to"}, refs = {e}
      PROVE  U!Leased = <<<<e, 1>>, <<e, 2>>>> /\ U!Leased \in U!Agendas
  <2>2. U!Leased = <<<<e, 1>>, <<e, 2>>>>
    BY <1>2, <1>4 DEF U!Leased, U!Ends
  <2>3. refs # U!Ends /\ refs # {} /\ 1 \in 0 .. 1 /\ e \in refs
    BY <1>2, <1>4 DEF U!Ends
  <2>4. U!Agendas = {<<<<f, n>>, <<f, 2>>>> : f \in refs, n \in 0 .. 1}
                    \union {<<<<f, 2>>>> : f \in refs} \union {<<>>}
    BY <2>3 DEF U!Agendas
  <2>5. U!Leased \in {<<<<f, n>>, <<f, 2>>>> : f \in refs, n \in 0 .. 1}
    BY <2>2, <2>3
  <2> QED
    BY <2>2, <2>4, <2>5
<1>5. CASE refs = {"from", "to"}
  <2>2. U!Leased = <<<<"from", 1>>, <<"to", 1>>, <<"from", 2>>, <<"to", 2>>>>
    BY <1>2, <1>5 DEF U!Leased, U!Ends
  <2>3. 1 \in 0 .. 1 /\ refs = U!Ends
    BY <1>5 DEF U!Ends
  <2>4. U!Leased \in {<<<<"from", n>>, <<"to", 1>>, <<"from", 2>>, <<"to", 2>>>> : n \in 0 .. 1}
    BY <2>2, <2>3
  <2>5. U!Leased \in U!Agendas
    BY <1>2, <1>5, <2>3, <2>4 DEF U!Agendas
  <2>6. U!Leased # <<>> /\ Head(U!Leased) = <<"from", 1>>
    BY <2>2
  <2> QED
    BY <2>5, <2>6
<1> QED
  BY <1>1, <1>2, <1>3, <1>4, <1>5 DEF U!Ends

LEMMA AgendasAre ==
  ASSUME refs \subseteq U!Ends, todo \in U!Agendas, todo # <<>>
  PROVE  \/ refs = U!Ends /\ \E n \in 0 .. 1 : todo = <<<<"from", n>>, <<"to", 1>>, <<"from", 2>>, <<"to", 2>>>>
         \/ refs = U!Ends /\ \E n \in 0 .. 1 : todo = <<<<"to", n>>, <<"from", 2>>, <<"to", 2>>>>
         \/ refs = U!Ends /\ todo = <<<<"from", 2>>, <<"to", 2>>>>
         \/ refs = U!Ends /\ todo = <<<<"to", 2>>>>
         \/ \E e \in refs : refs = {e} /\ \E n \in 0 .. 1 : todo = <<<<e, n>>, <<e, 2>>>>
         \/ \E e \in refs : refs = {e} /\ todo = <<<<e, 2>>>>
<1>1. CASE refs = U!Ends
  BY <1>1 DEF U!Agendas
<1>2. CASE refs # U!Ends
  <2>1. refs # {}
    BY <1>2 DEF U!Agendas
  <2>2. todo \in {<<<<e, n>>, <<e, 2>>>> : e \in refs, n \in 0 .. 1} \union {<<<<e, 2>>>> : e \in refs}
    BY <1>2, <2>1 DEF U!Agendas
  <2>3. \A e \in refs : refs = {e}
    BY <1>2, <2>1 DEF U!Ends
  <2> QED
    BY <2>2, <2>3
<1> QED
  BY <1>1, <1>2

\* The look that is next, and what is left after it.
LEMMA NextLook ==
  ASSUME refs \subseteq U!Ends, todo \in U!Agendas, todo # <<>>
  PROVE  /\ U!End \in refs /\ U!Nth \in 0 .. 2
         /\ Tail(todo) \in U!Agendas
         /\ U!Nth # 2 => Tail(todo) # <<>>
         /\ U!Nth = 2 /\ Tail(todo) # <<>> => Head(Tail(todo))[2] = 2 /\ refs = U!Ends
                                             /\ U!End = "from" /\ Head(Tail(todo))[1] = "to"
         /\ U!Nth = 2 /\ Tail(todo) = <<>> => refs \subseteq U!Before \cup {U!End}
         /\ U!Nth # 2 /\ Head(Tail(todo))[2] = 2 => refs \subseteq U!Before \cup {U!End}
                                                   /\ (refs = U!Ends => Head(Tail(todo))[1] = "from")
         /\ U!Nth # 2 /\ Head(Tail(todo))[2] # 2 => refs = U!Ends /\ U!End = "from"
                                                   /\ Head(Tail(todo))[1] = "to"
         /\ U!Nth = 1 => [todo EXCEPT ![1] = <<U!End, 0>>] \in U!Agendas
<1>1. ASSUME refs = U!Ends, NEW n \in 0 .. 1,
             todo = <<<<"from", n>>, <<"to", 1>>, <<"from", 2>>, <<"to", 2>>>>
      PROVE  /\ U!End = "from" /\ U!Nth = n /\ n # 2 /\ U!End \in refs
             /\ Tail(todo) = <<<<"to", 1>>, <<"from", 2>>, <<"to", 2>>>>
             /\ Tail(todo) \in U!Agendas
             /\ [todo EXCEPT ![1] = <<U!End, 0>>] \in U!Agendas
  <2>1. U!End = "from" /\ U!Nth = n /\ n # 2
    BY <1>1 DEF U!End, U!Nth
  <2>2. Tail(todo) = <<<<"to", 1>>, <<"from", 2>>, <<"to", 2>>>>
    BY <1>1
  <2>3. [todo EXCEPT ![1] = <<"from", 0>>] = <<<<"from", 0>>, <<"to", 1>>, <<"from", 2>>, <<"to", 2>>>>
    BY <1>1
  <2>4. 0 \in 0 .. 1 /\ 1 \in 0 .. 1
    OBVIOUS
  <2>5. Tail(todo) \in U!Agendas
    BY <1>1, <2>2, <2>4 DEF U!Agendas
  <2>6. [todo EXCEPT ![1] = <<"from", 0>>] \in U!Agendas
    BY <1>1, <2>3, <2>4 DEF U!Agendas
  <2> QED
    BY <1>1, <2>1, <2>2, <2>5, <2>6 DEF U!Ends
<1>2. ASSUME refs = U!Ends, NEW n \in 0 .. 1,
             todo = <<<<"to", n>>, <<"from", 2>>, <<"to", 2>>>>
      PROVE  /\ U!End = "to" /\ U!Nth = n /\ n # 2 /\ U!End \in refs
             /\ Tail(todo) = <<<<"from", 2>>, <<"to", 2>>>>
             /\ Tail(todo) \in U!Agendas /\ refs = U!Before \cup {U!End}
             /\ [todo EXCEPT ![1] = <<U!End, 0>>] \in U!Agendas
  <2>1. U!End = "to" /\ U!Nth = n /\ n # 2
    BY <1>2 DEF U!End, U!Nth
  <2>2. Tail(todo) = <<<<"from", 2>>, <<"to", 2>>>>
    BY <1>2
  <2>3. [todo EXCEPT ![1] = <<"to", 0>>] = <<<<"to", 0>>, <<"from", 2>>, <<"to", 2>>>>
    BY <1>2
  <2>4. 0 \in 0 .. 1
    OBVIOUS
  <2>5. Tail(todo) \in U!Agendas
    BY <1>2, <2>2 DEF U!Agendas
  <2>6. [todo EXCEPT ![1] = <<"to", 0>>] \in U!Agendas
    BY <1>2, <2>3, <2>4 DEF U!Agendas
  <2> QED
    BY <1>2, <2>1, <2>2, <2>5, <2>6 DEF U!Ends, U!Before
<1>3. ASSUME refs = U!Ends, todo = <<<<"from", 2>>, <<"to", 2>>>>
      PROVE  /\ U!End = "from" /\ U!Nth = 2 /\ U!End \in refs
             /\ Tail(todo) = <<<<"to", 2>>>> /\ Tail(todo) \in U!Agendas
  <2>1. U!End = "from" /\ U!Nth = 2
    BY <1>3 DEF U!End, U!Nth
  <2>2. Tail(todo) = <<<<"to", 2>>>>
    BY <1>3
  <2> QED
    BY <1>3, <2>1, <2>2 DEF U!Ends, U!Agendas
<1>4. ASSUME refs = U!Ends, todo = <<<<"to", 2>>>>
      PROVE  /\ U!End = "to" /\ U!Nth = 2 /\ U!End \in refs
             /\ Tail(todo) = <<>> /\ Tail(todo) \in U!Agendas /\ refs = U!Before \cup {U!End}
  <2>1. U!End = "to" /\ U!Nth = 2
    BY <1>4 DEF U!End, U!Nth
  <2>2. Tail(todo) = <<>>
    BY <1>4
  <2> QED
    BY <1>4, <2>1, <2>2 DEF U!Ends, U!Agendas, U!Before
<1>5. \A e \in refs : refs = {e} => refs # U!Ends /\ refs # {}
  BY DEF U!Ends
<1>6. ASSUME NEW e \in refs, refs = {e}, NEW n \in 0 .. 1, todo = <<<<e, n>>, <<e, 2>>>>
      PROVE  /\ U!End = e /\ U!Nth = n /\ n # 2 /\ U!End \in refs
             /\ Tail(todo) = <<<<e, 2>>>> /\ Tail(todo) \in U!Agendas
             /\ [todo EXCEPT ![1] = <<U!End, 0>>] \in U!Agendas
  <2>1. U!End = e /\ U!Nth = n /\ n # 2
    BY <1>6 DEF U!End, U!Nth
  <2>2. Tail(todo) = <<<<e, 2>>>>
    BY <1>6
  <2>3. [todo EXCEPT ![1] = <<e, 0>>] = <<<<e, 0>>, <<e, 2>>>> /\ 0 \in 0 .. 1
    BY <1>6
  <2>4. U!Agendas = {<<<<f, k>>, <<f, 2>>>> : f \in refs, k \in 0 .. 1}
                    \union {<<<<f, 2>>>> : f \in refs} \union {<<>>}
    BY <1>5, <1>6 DEF U!Agendas
  <2>5. <<<<e, 2>>>> \in {<<<<f, 2>>>> : f \in refs}
    BY <1>6
  <2>6. <<<<e, 0>>, <<e, 2>>>> \in {<<<<f, k>>, <<f, 2>>>> : f \in refs, k \in 0 .. 1}
    BY <1>6, <2>3
  <2> QED
    BY <1>6, <2>1, <2>2, <2>3, <2>4, <2>5, <2>6
<1>7. ASSUME NEW e \in refs, refs = {e}, todo = <<<<e, 2>>>>
      PROVE  /\ U!End = e /\ U!Nth = 2 /\ U!End \in refs
             /\ Tail(todo) = <<>> /\ Tail(todo) \in U!Agendas
  <2>1. U!End = e /\ U!Nth = 2
    BY <1>7 DEF U!End, U!Nth
  <2>2. Tail(todo) = <<>>
    BY <1>7
  <2>3. <<>> \in U!Agendas
    BY <1>5, <1>7 DEF U!Agendas
  <2> QED
    BY <1>7, <2>1, <2>2, <2>3
<1>8. /\ 0 \in 0 .. 2 /\ 1 \in 0 .. 2 /\ 2 \in 0 .. 2 /\ 1 # 2
      /\ \A n \in 0 .. 1 : n \in 0 .. 2
  OBVIOUS
<1>9. /\ Head(<<<<"to", 1>>, <<"from", 2>>, <<"to", 2>>>>) = <<"to", 1>>
      /\ Head(<<<<"from", 2>>, <<"to", 2>>>>) = <<"from", 2>>
      /\ Head(<<<<"to", 2>>>>) = <<"to", 2>>
      /\ \A e : Head(<<<<e, 2>>>>) = <<e, 2>>
      /\ \A e, n : <<e, n>>[1] = e /\ <<e, n>>[2] = n
      /\ <<<<"to", 1>>, <<"from", 2>>, <<"to", 2>>>> # <<>>
      /\ <<<<"from", 2>>, <<"to", 2>>>> # <<>> /\ <<<<"to", 2>>>> # <<>>
      /\ \A e : <<<<e, 2>>>> # <<>>
  OBVIOUS
<1>11. CASE refs = U!Ends /\ \E n \in 0 .. 1 : todo = <<<<"from", n>>, <<"to", 1>>, <<"from", 2>>, <<"to", 2>>>>
  BY <1>1, <1>8, <1>9, <1>11
<1>12. CASE refs = U!Ends /\ \E n \in 0 .. 1 : todo = <<<<"to", n>>, <<"from", 2>>, <<"to", 2>>>>
  BY <1>2, <1>8, <1>9, <1>12
<1>13. CASE refs = U!Ends /\ todo = <<<<"from", 2>>, <<"to", 2>>>>
  BY <1>3, <1>8, <1>9, <1>13
<1>14. CASE refs = U!Ends /\ todo = <<<<"to", 2>>>>
  BY <1>4, <1>8, <1>9, <1>14
<1>15. CASE \E e \in refs : refs = {e} /\ \E n \in 0 .. 1 : todo = <<<<e, n>>, <<e, 2>>>>
  BY <1>5, <1>6, <1>8, <1>9, <1>15
<1>16. CASE \E e \in refs : refs = {e} /\ todo = <<<<e, 2>>>>
  BY <1>5, <1>7, <1>8, <1>9, <1>16
<1> QED
  BY <1>11, <1>12, <1>13, <1>14, <1>15, <1>16, AgendasAre

LEMMA LookReplaced ==
  ASSUME refs \subseteq U!Ends, todo \in U!Agendas, todo # <<>>, NEW x,
         todo' = [todo EXCEPT ![1] = x]
  PROVE  Head(todo') = x /\ todo' # <<>>
BY AgendasAre

LEMMA NextLookLater ==
  ASSUME refs' \subseteq U!Ends, todo' \in U!Agendas', todo' # <<>>
  PROVE  U!End' \in U!Ends
<1>1. U!Agendas' = CASE refs' = U!Ends -> {<<<<"from", n>>, <<"to", 1>>, <<"from", 2>>, <<"to", 2>>>> : n \in 0 .. 1}
                      \union {<<<<"to", n>>, <<"from", 2>>, <<"to", 2>>>> : n \in 0 .. 1}
                      \union {<<<<"from", 2>>, <<"to", 2>>>>, <<<<"to", 2>>>>, <<>>}
                   [] refs' = {} -> {<<>>}
                   [] OTHER -> {<<<<e, n>>, <<e, 2>>>> : e \in refs', n \in 0 .. 1}
                               \union {<<<<e, 2>>>> : e \in refs'} \union {<<>>}
  BY DEF U!Agendas
<1>2. CASE refs' = U!Ends
  <2>1. \/ \E n \in 0 .. 1 : todo' = <<<<"from", n>>, <<"to", 1>>, <<"from", 2>>, <<"to", 2>>>>
        \/ \E n \in 0 .. 1 : todo' = <<<<"to", n>>, <<"from", 2>>, <<"to", 2>>>>
        \/ todo' \in {<<<<"from", 2>>, <<"to", 2>>>>, <<<<"to", 2>>>>}
    BY <1>1, <1>2 DEF U!Ends
  <2>2. Head(todo')[1] \in {"from", "to"}
    BY <2>1
  <2> QED
    BY <2>2 DEF U!End, U!Ends
<1>3. CASE refs' # U!Ends
  <2>1. refs' # {}
    BY <1>1, <1>3
  <2>2. todo' \in {<<<<e, n>>, <<e, 2>>>> : e \in refs', n \in 0 .. 1} \union {<<<<e, 2>>>> : e \in refs'}
    BY <1>1, <1>3, <2>1
  <2>3. \/ \E e \in refs', n \in 0 .. 1 : todo' = <<<<e, n>>, <<e, 2>>>>
        \/ \E e \in refs' : todo' = <<<<e, 2>>>>
    BY <2>2
  <2>4. \E e \in refs' : Head(todo')[1] = e
    BY <2>3
  <2> QED
    BY <2>4 DEF U!End
<1> QED
  BY <1>2, <1>3

LEMMA PointerInvStarts ==
  ASSUME U!Init
  PROVE  U!PointerInv
<1>1. refs \subseteq U!Ends
  BY DEF U!Init, U!EndsOf, U!Ends
<1>2. places \in U!Pairs /\ half \in Nat
  BY DEF U!Init, U!Pairs
<1> QED
  BY <1>1, <1>2 DEF U!Init, U!PointerInv

LEMMA PointerInvSuffices ==
  ASSUME U!PointerInv
  PROVE  U!PointerIsHonest
<1>1. ASSUME step = "dispatch"
      PROVE  U!LooksAreSound /\ todo = <<>> /\ U!Looked = refs /\ U!Twice = refs
  BY <1>1 DEF U!PointerInv, U!LooksAreSound, U!Looked, U!Twice
<1>2. U!PointsAreOfOneMoment
  <2>1. ASSUME step = "dispatch"
        PROVE  \E m \in moments : \A e \in refs : m.place[e] = first[e]
    <3>1. PICK m \in moments : \A e \in refs : U!Between(m, e)
      BY <1>1, <2>1 DEF U!LooksAreSound
    <3> QED
      BY <1>1, <2>1, <3>1 DEF U!Between
  <2> QED
    BY <2>1 DEF U!PointsAreOfOneMoment
<1>3. U!ElementsAreReached
  BY <1>1 DEF U!LooksAreSound, U!ElementsAreReached, U!ReachedAt
<1>4. U!GestureIsOwned /\ U!CursorIsSettled
  BY DEF U!PointerInv, U!GestureIsOwned, U!CursorIsSettled
<1> QED
  BY <1>2, <1>3, <1>4 DEF U!PointerIsHonest

\* The command ends, goes on without the lease, and with it.
LEMMA StopOnPointer ==
  ASSUME U!PointerInv, step \notin {"dispatch", "settle", "done"},
         NEW d \in {"unknown", "not_delivered"}, U!Stop(U!Report("error", d)),
         UNCHANGED <<kind, refs, overlay, acted>>
  PROVE  U!PointerInv'
<1>1. /\ step' = "done" /\ leased' = FALSE /\ half' = 0 /\ report' = U!Report("error", d)
      /\ places' = [e \in U!Ends |-> <<1, 1>>] /\ looks' = [e \in U!Ends |-> "plain"]
  BY DEF U!Stop, U!Forget, U!Rest
<1>2. report'.outcome = "error" /\ report'.delivery = d
  BY <1>1 DEF U!Report
<1>3. places' \in U!Pairs /\ looks' \in [U!Ends -> {"plain", "hidden", "covered"}]
  BY <1>1 DEF U!Pairs
<1>4. ~ acted' /\ overlay' = "idle" /\ refs' \subseteq U!Ends
  BY DEF U!PointerInv
<1> QED
  BY <1>1, <1>2, <1>3, <1>4 DEF U!PointerInv

LEMMA UnleasedOnPointer ==
  ASSUME U!PointerInv, step \notin {"dispatch", "settle", "done"}, ~ leased',
         step' \in {"start", "wait", "scroll", "lease"}, UNCHANGED <<kind, refs, overlay, acted>>,
         places' \in U!Pairs, half' \in Nat, looks' \in [U!Ends -> {"plain", "hidden", "covered"}]
  PROVE  U!PointerInv'
BY DEF U!PointerInv

LEMMA LeasedOnPointer ==
  ASSUME U!PointerInv, step \notin {"dispatch", "settle", "done"}, leased',
         step' \in {"look", "hit", "scroll", "travel"}, UNCHANGED <<kind, refs, overlay, acted>>,
         places' \in U!Pairs, half' \in Nat, looks' \in [U!Ends -> {"plain", "hidden", "covered"}],
         U!LooksAreSound'
  PROVE  U!PointerInv'
BY DEF U!PointerInv

LEMMA QuietIs ==
  ASSUME U!Quiet
  PROVE  UNCHANGED <<kind, refs, auto, overlay, tracking, acted>>
BY DEF U!Quiet, U!callVars

\* How the elements may have changed: the versions grow.
LEMMA PairsAre ==
  ASSUME NEW p \in U!Pairs, NEW e \in U!Ends
  PROVE  p[e][1] \in Nat /\ p[e][2] \in Nat /\ p[e] = <<p[e][1], p[e][2]>>
BY DEF U!Pairs

LEMMA ChangeGrows ==
  ASSUME U!PointerInv, U!Change
  PROVE  /\ places' \in U!Pairs /\ looks' \in [U!Ends -> {"plain", "hidden", "covered"}]
         /\ \A e \in U!Ends : /\ places[e][1] <= places'[e][1]
                              /\ places'[e][1] = places[e][1] => places'[e] = places[e]
<1>1. /\ places \in U!Pairs /\ looks \in [U!Ends -> {"plain", "hidden", "covered"}]
      /\ refs \subseteq U!Ends
  BY DEF U!PointerInv
<1>2. PICK e \in refs :
        \/ /\ \E by \in {<<1, 0>>, <<1, 1>>} :
                places' = [places EXCEPT ![e] = <<@[1] + by[1], @[2] + by[2]>>]
           /\ UNCHANGED looks
        \/ /\ \E how \in {"plain", "hidden", "covered"} \ {looks[e]} :
                looks' = [looks EXCEPT ![e] = how]
           /\ UNCHANGED places
  BY DEF U!Change
<1>3. CASE UNCHANGED places
  <2>1. looks' \in [U!Ends -> {"plain", "hidden", "covered"}]
    BY <1>1, <1>2
  <2> QED
    BY <1>1, <1>3, <2>1, PairsAre
<1>4. ASSUME UNCHANGED looks, NEW by \in {<<1, 0>>, <<1, 1>>},
             places' = [places EXCEPT ![e] = <<@[1] + by[1], @[2] + by[2]>>]
      PROVE  /\ places' \in U!Pairs
             /\ \A f \in U!Ends : /\ places[f][1] <= places'[f][1]
                                  /\ places'[f][1] = places[f][1] => places'[f] = places[f]
  <2>1. by[1] = 1 /\ by[2] \in Nat
    BY <1>4
  <2>2. places[e][1] \in Nat /\ places[e][2] \in Nat
    BY <1>1, PairsAre
  <2>3. /\ places'[e] = <<places[e][1] + 1, places[e][2] + by[2]>>
        /\ \A f \in U!Ends : f # e => places'[f] = places[f]
    BY <1>1, <1>4, <2>1 DEF U!Pairs
  <2>4. places[e][1] + 1 \in Nat /\ places[e][2] + by[2] \in Nat
    BY <2>1, <2>2
  <2>5. places' \in U!Pairs
    BY <1>1, <1>4, <2>1, <2>4 DEF U!Pairs
  <2>6. places'[e][1] = places[e][1] + 1
    BY <2>3
  <2>7. \A f \in U!Ends : places[f][1] \in Nat
    BY <1>1, PairsAre
  <2> QED
    BY <2>2, <2>3, <2>5, <2>6, <2>7
<1> QED
  BY <1>1, <1>2, <1>3, <1>4

LEMMA ScrollGrows ==
  ASSUME U!PointerInv, NEW e, U!Scrolled(e)
  PROVE  /\ places' \in U!Pairs /\ looks' \in [U!Ends -> {"plain", "hidden", "covered"}]
         /\ \A f \in U!Ends : /\ places[f][1] <= places'[f][1]
                              /\ places'[f][1] = places[f][1] => places'[f] = places[f]
<1>1. /\ places \in U!Pairs /\ looks \in [U!Ends -> {"plain", "hidden", "covered"}]
  BY DEF U!PointerInv
<1>2. \A f \in U!Ends : places[f][1] \in Nat /\ places[f][2] \in Nat
  BY <1>1, PairsAre
<1>3. CASE UNCHANGED U!elementVars
  BY <1>1, <1>2, <1>3 DEF U!elementVars
<1>4. CASE ~ UNCHANGED U!elementVars
  <2>1. PICK with \in {S0 \in SUBSET refs : e \in S0}, hidden \in SUBSET (refs \ {e}) :
          /\ places' = [x \in U!Ends |-> IF x \in with THEN <<places[x][1] + 1, places[x][2]>>
                                         ELSE places[x]]
          /\ looks' = [x \in U!Ends |-> IF x \in with \intersect hidden THEN "hidden"
                                        ELSE IF x = e THEN "plain" ELSE looks[x]]
    BY <1>4 DEF U!Scrolled
  <2>2. looks' \in [U!Ends -> {"plain", "hidden", "covered"}]
    BY <1>1, <2>1
  <2>3. \A f \in U!Ends : places[f][1] + 1 \in Nat
    BY <1>2
  <2>4. \A f \in U!Ends :
          places'[f] = IF f \in with THEN <<places[f][1] + 1, places[f][2]>> ELSE places[f]
    BY <2>1
  <2>5. ASSUME NEW f \in U!Ends
        PROVE  /\ places'[f] \in Nat \X Nat
               /\ f \in with => places'[f][1] = places[f][1] + 1
    <3>1. CASE f \in with
      <4>1. places'[f] = <<places[f][1] + 1, places[f][2]>>
        BY <2>4, <3>1
      <4>2. places[f][1] + 1 \in Nat /\ places[f][2] \in Nat
        BY <1>2, <2>3
      <4>3. <<places[f][1] + 1, places[f][2]>> \in Nat \X Nat
        BY <4>2
      <4> QED
        BY <4>1, <4>3
    <3>2. CASE f \notin with
      BY <1>1, <2>4, <3>2 DEF U!Pairs
    <3> QED
      BY <3>1, <3>2
  <2>6. places' \in U!Pairs
    <3>1. places' = [x \in U!Ends |-> places'[x]]
      BY <2>1
    <3> QED
      BY <2>5, <3>1 DEF U!Pairs
  <2>7. \A f \in U!Ends : f \in with => places'[f][1] = places[f][1] + 1
    BY <2>5
  <2>8. \A f \in U!Ends : f \notin with => places'[f] = places[f]
    BY <2>4
  <2> QED
    BY <1>2, <2>2, <2>6, <2>7, <2>8
<1> QED
  BY <1>3, <1>4

\* What is known of the moments stays known when the elements change.
LEMMA MomentsGrow ==
  ASSUME U!PointerInv, U!LooksAreSound, refs' = refs, places' \in U!Pairs,
         \A e \in U!Ends : /\ places[e][1] <= places'[e][1]
                           /\ places'[e][1] = places[e][1] => places'[e] = places[e],
         moments' = moments \union {U!Moment(places', looks')}
  PROVE  /\ U!Moment(places, looks)' \in moments' /\ moments \subseteq moments'
         /\ \A m \in moments' : m.place \in U!Pairs /\ \A e \in U!Ends : m.place[e][1] <= places'[e][1]
         /\ first' = first => \A e \in U!Ends : U!KnownPlace(e) => U!KnownPlace(e)'
<1>1. U!Moment(places, looks)' = U!Moment(places', looks')
  BY DEF U!Moment
<1>2. U!Moment(places', looks').place = places'
  BY DEF U!Moment
<1>3. \A e \in U!Ends : places'[e][1] \in Nat /\ places[e][1] \in Nat
  BY PairsAre DEF U!PointerInv
<1>4. ASSUME NEW m \in moments'
      PROVE  m.place \in U!Pairs /\ \A e \in U!Ends : m.place[e][1] <= places'[e][1]
  <2>1. CASE m \in moments
    <3>1. m.place \in U!Pairs /\ \A e \in U!Ends : m.place[e][1] <= places[e][1]
      BY <2>1 DEF U!LooksAreSound
    <3>2. \A e \in U!Ends : m.place[e][1] \in Nat
      BY <3>1, PairsAre
    <3> QED
      BY <1>3, <3>1, <3>2
  <2>2. CASE m = U!Moment(places', looks')
    BY <1>2, <1>3, <2>2
  <2> QED
    BY <2>1, <2>2
<1>5. ASSUME first' = first, NEW e \in U!Ends, U!KnownPlace(e)
      PROVE  U!KnownPlace(e)'
  <2>1. first[e][1] \in Nat
    BY PairsAre DEF U!LooksAreSound
  <2>2. first[e][1] <= places[e][1] /\ (first[e][1] = places[e][1] => first[e] = places[e])
    BY <1>5 DEF U!KnownPlace
  <2>3. first[e][1] <= places'[e][1]
    BY <1>3, <2>1, <2>2
  <2>4. first[e][1] = places'[e][1] => first[e][1] = places[e][1] /\ places'[e][1] = places[e][1]
    BY <1>3, <2>1, <2>2
  <2>5. first[e][1] = places'[e][1] => first[e] = places'[e]
    BY <2>2, <2>4
  <2> QED
    BY <1>5, <2>3, <2>5 DEF U!KnownPlace
<1> QED
  BY <1>1, <1>4, <1>5

LEMMA ChangeOnPointer ==
  ASSUME U!PointerInv, U!Change
  PROVE  U!PointerInv'
<1>1. /\ UNCHANGED <<kind, refs, auto, step, todo, half, first, doubt, leased, overlay, tracking,
                     acted, report>>
      /\ step \in {"look", "hit"} /\ leased
      /\ moments' = moments \union {U!Moment(places', looks')}
  BY DEF U!Change, U!callVars, U!lookVars, U!PointerInv
<1>2. U!LooksAreSound /\ refs \subseteq U!Ends /\ half \in Nat
  BY <1>1 DEF U!PointerInv
<1>3. /\ places' \in U!Pairs /\ looks' \in [U!Ends -> {"plain", "hidden", "covered"}]
      /\ \A e \in U!Ends : /\ places[e][1] <= places'[e][1]
                           /\ places'[e][1] = places[e][1] => places'[e] = places[e]
  BY ChangeGrows
<1>4. /\ U!Moment(places, looks)' \in moments' /\ moments \subseteq moments'
      /\ \A m \in moments' : m.place \in U!Pairs /\ \A e \in U!Ends : m.place[e][1] <= places'[e][1]
      /\ \A e \in U!Ends : U!KnownPlace(e) => U!KnownPlace(e)'
  BY <1>1, <1>2, <1>3, MomentsGrow
<1>5. /\ U!End' = U!End /\ U!Nth' = U!Nth /\ U!Agendas' = U!Agendas /\ U!Looked' = U!Looked
      /\ U!Now' = U!Now
  BY <1>1 DEF U!End, U!Nth, U!Agendas, U!Looked, U!Now, U!Before
<1>6. /\ todo \in U!Agendas /\ todo # <<>> /\ U!End \in refs /\ first \in U!Pairs
      /\ step # "look" => half = 0
      /\ half <= places[U!End][1]
      /\ \A e \in U!Looked \union U!Now : U!KnownPlace(e)
      /\ U!Looked \union U!Now \subseteq U!Ends
  <2>1. todo \in U!Agendas /\ todo # <<>> /\ U!End \in refs /\ first \in U!Pairs
        /\ (step # "look" => half = 0) /\ half <= places[U!End][1]
        /\ \A e \in U!Looked \union U!Now : U!KnownPlace(e)
    BY <1>1, <1>2, NextLook DEF U!LooksAreSound
  <2>2. U!Looked \subseteq U!Ends
    BY <1>2 DEF U!Looked, U!Before, U!Ends
  <2>3. U!Now \subseteq U!Ends
    BY <1>2, <2>1 DEF U!Now
  <2> QED
    BY <2>1, <2>2, <2>3
<1>7. half <= places'[U!End][1]
  BY <1>2, <1>3, <1>6, PairsAre DEF U!PointerInv
<1>8. \A e \in U!Looked \union U!Now : U!KnownPlace(e)'
  BY <1>4, <1>6
<1>9. U!Nth = 2 => \E m \in moments' : \A e \in refs : U!Between(m, e)'
  <2>1. \A m, e : U!Between(m, e) => U!Between(m, e)'
    BY <1>1 DEF U!Between, U!Twice, U!Now, U!Before, U!End, U!Nth
  <2> QED
    BY <1>2, <1>4, <2>1 DEF U!LooksAreSound
<1>10. \A e \in U!Looked \ doubt : \E m \in moments' : U!ReachedAt(m, e)'
  <2>1. \A m, e : U!ReachedAt(m, e) => U!ReachedAt(m, e)'
    BY <1>1 DEF U!ReachedAt
  <2> QED
    BY <1>2, <1>4, <2>1 DEF U!LooksAreSound
<1>11. U!LooksAreSound'
  BY <1>1, <1>4, <1>5, <1>6, <1>7, <1>8, <1>9, <1>10 DEF U!LooksAreSound
<1> QED
  BY <1>1, <1>2, <1>3, <1>11, LeasedOnPointer

LEMMA StartOnPointer ==
  ASSUME U!PointerInv, U!Start
  PROVE  U!PointerInv'
<1>1. step = "start" /\ UNCHANGED <<kind, refs, auto, overlay, tracking, acted>> /\ ~ leased
  BY QuietIs DEF U!Start, U!PointerInv
<1>2. CASE U!Stop(U!Report("error", "not_delivered"))
  BY <1>1, <1>2, StopOnPointer
<1>3. CASE ~ U!Stop(U!Report("error", "not_delivered"))
  <2>1. /\ UNCHANGED <<places, looks, half, leased>> /\ step' \in {"wait", "lease"}
    BY <1>3 DEF U!Start, U!elementVars
  <2> QED
    BY <1>1, <2>1, UnleasedOnPointer DEF U!PointerInv
<1> QED
  BY <1>2, <1>3

LEMMA WaitOnPointer ==
  ASSUME U!PointerInv, U!Wait
  PROVE  U!PointerInv'
<1>1. step = "wait" /\ UNCHANGED <<kind, refs, auto, overlay, tracking, acted>> /\ ~ leased
  BY QuietIs DEF U!Wait, U!PointerInv
<1>2. CASE U!Fail
  BY <1>1, <1>2, StopOnPointer DEF U!Fail
<1>3. CASE ~ U!Fail
  <2>1. /\ UNCHANGED <<places, looks, half, leased>>
    BY <1>3 DEF U!Wait, U!elementVars
  <2>2. step' \in {"scroll", "wait", "lease"}
    BY <1>1, <1>3 DEF U!Wait
  <2> QED
    BY <1>1, <2>1, <2>2, UnleasedOnPointer DEF U!PointerInv
<1> QED
  BY <1>2, <1>3

LEMMA ScrollOnPointer ==
  ASSUME U!PointerInv, U!Scroll
  PROVE  U!PointerInv'
<1>1. step = "scroll" /\ UNCHANGED <<kind, refs, auto, overlay, tracking, acted>>
  BY QuietIs DEF U!Scroll
<1>2. CASE U!Fail
  BY <1>1, <1>2, StopOnPointer DEF U!Fail
<1>3. CASE ~ U!Fail /\ ~ leased
  <2>1. U!Scrolled(U!End) /\ leased' = leased /\ step' = "wait" /\ half' = half
    BY <1>3 DEF U!Scroll, U!lookVars
  <2>2. places' \in U!Pairs /\ looks' \in [U!Ends -> {"plain", "hidden", "covered"}]
    BY <2>1, ScrollGrows
  <2> QED
    BY <1>1, <1>3, <2>1, <2>2, UnleasedOnPointer DEF U!PointerInv
<1>4. CASE ~ U!Fail /\ leased
  <2>1. /\ U!Scrolled(U!End) /\ leased' = leased /\ step' = "look" /\ half' = 0
        /\ todo' = [todo EXCEPT ![1] = <<U!End, 0>>] /\ UNCHANGED <<first, doubt>>
        /\ moments' = moments \union {U!Moment(places', looks')}
    BY <1>4 DEF U!Scroll
  <2>2. U!LooksAreSound /\ refs \subseteq U!Ends
    BY <1>4 DEF U!PointerInv
  <2>3. /\ places' \in U!Pairs /\ looks' \in [U!Ends -> {"plain", "hidden", "covered"}]
        /\ \A e \in U!Ends : /\ places[e][1] <= places'[e][1]
                             /\ places'[e][1] = places[e][1] => places'[e] = places[e]
    BY <2>1, ScrollGrows
  <2>4. /\ U!Moment(places, looks)' \in moments' /\ moments \subseteq moments'
        /\ \A m \in moments' : m.place \in U!Pairs /\ \A e \in U!Ends : m.place[e][1] <= places'[e][1]
        /\ \A e \in U!Ends : U!KnownPlace(e) => U!KnownPlace(e)'
    BY <1>1, <2>1, <2>2, <2>3, MomentsGrow
  <2>5. /\ todo \in U!Agendas /\ todo # <<>> /\ U!Nth = 1 /\ U!End \in refs /\ first \in U!Pairs
        /\ todo' \in U!Agendas
    BY <1>1, <2>1, <2>2, NextLook DEF U!LooksAreSound
  <2>6. todo' # <<>> /\ U!End' = U!End /\ U!Nth' = 0
    <3>1. \A e : <<e, 0>>[1] = e /\ <<e, 0>>[2] = 0
      OBVIOUS
    <3>2. PICK n : todo = n /\ n \in U!Agendas
      BY <2>5
    <3>3. Head(todo') = <<U!End, 0>> /\ todo' # <<>>
      BY <2>1, <2>2, <2>5, LookReplaced
    <3> QED
      BY <3>1, <3>3 DEF U!End, U!Nth
  <2>7. U!Looked' = U!Looked /\ U!Now' = {} /\ U!Now = {} /\ U!Agendas' = U!Agendas
        /\ U!Looked \subseteq U!Ends
    BY <1>1, <2>1, <2>5, <2>6 DEF U!Looked, U!Now, U!Before, U!Agendas, U!Ends
  <2>8. \A e \in U!Looked : U!KnownPlace(e)'
    BY <2>2, <2>4, <2>7 DEF U!LooksAreSound
  <2>9. \A e \in U!Looked \ doubt : \E m \in moments' : U!ReachedAt(m, e)'
    <3>1. \A m, e : U!ReachedAt(m, e) => U!ReachedAt(m, e)'
      BY <2>1 DEF U!ReachedAt
    <3> QED
      BY <2>2, <2>4, <3>1 DEF U!LooksAreSound
  <2>10. 0 <= places'[U!End][1]
    BY <2>2, <2>3, <2>5, PairsAre
  <2>11. U!LooksAreSound'
    BY <2>1, <2>4, <2>5, <2>6, <2>7, <2>8, <2>9, <2>10 DEF U!LooksAreSound
  <2> QED
    BY <1>1, <1>4, <2>1, <2>3, <2>11, LeasedOnPointer
<1> QED
  BY <1>2, <1>3, <1>4

LEMMA AcquireOnPointer ==
  ASSUME U!PointerInv, U!Acquire
  PROVE  U!PointerInv'
<1>1. step = "lease" /\ UNCHANGED <<kind, refs, auto, overlay, tracking, acted>>
  BY QuietIs DEF U!Acquire
<1>2. CASE U!Fail
  BY <1>1, <1>2, StopOnPointer DEF U!Fail
<1>3. CASE ~ U!Fail
  <2>1. /\ leased' = TRUE /\ moments' = {U!Moment(places, looks)} /\ todo' = U!Leased
        /\ half' = 0 /\ first' = U!Unseen /\ doubt' = {}
        /\ step' = IF U!Leased = <<>> THEN "travel" ELSE "look"
        /\ UNCHANGED <<places, looks>>
    BY <1>3 DEF U!Acquire, U!Forget, U!elementVars
  <2>2. /\ refs \subseteq U!Ends /\ places \in U!Pairs
        /\ looks \in [U!Ends -> {"plain", "hidden", "covered"}]
    BY DEF U!PointerInv
  <2>3. /\ U!Leased \in U!Agendas
        /\ U!Leased = <<>> => refs = {}
        /\ U!Leased # <<>> => Head(U!Leased)[2] = 1 /\ (refs = U!Ends => Head(U!Leased)[1] = "from")
    BY <2>2, AgendaStarts
  <2>4. U!Agendas' = U!Agendas /\ U!Moment(places, looks)' = U!Moment(places, looks)
        /\ U!Moment(places, looks).place = places
    BY <1>1, <2>1 DEF U!Agendas, U!Moment
  <2>5. first' \in U!Pairs
    BY <2>1 DEF U!Unseen, U!Nowhere, U!Pairs
  <2>6. todo' # <<>> => U!Nth' = 1 /\ (refs = U!Ends => U!End' = "from")
    BY <2>1, <2>3 DEF U!Nth, U!End
  <2>7. U!Looked' = {} /\ U!Now' = {}
    BY <1>1, <2>1, <2>3, <2>6 DEF U!Looked, U!Now, U!Before
  <2>8. \A e \in U!Ends : places[e][1] \in Nat
    BY <2>2, PairsAre
  <2>9. todo' # <<>> => 0 <= places[U!End'][1]
    <3>1. ASSUME todo' # <<>>
          PROVE  U!End' \in U!Ends
      <4>1. /\ todo' \in U!Agendas' /\ refs' \subseteq U!Ends
        BY <1>1, <2>1, <2>2, <2>3, <2>4
      <4> QED
        BY <3>1, <4>1, NextLookLater
    <3> QED
      BY <2>8, <3>1
  <2>10. todo' = <<>> \/ U!Nth' = 2 => \E m \in moments' : \A e \in refs' : U!Between(m, e)'
    BY <1>1, <2>1, <2>3, <2>6
  <2>11. /\ \A m \in moments' : m.place \in U!Pairs /\ \A e \in U!Ends : m.place[e][1] <= places'[e][1]
         /\ U!Moment(places, looks)' \in moments'
    BY <2>1, <2>2, <2>4, <2>8
  <2>12. U!LooksAreSound'
    BY <2>1, <2>3, <2>4, <2>5, <2>6, <2>7, <2>9, <2>10, <2>11 DEF U!LooksAreSound
  <2> QED
    BY <1>1, <2>1, <2>2, <2>12, LeasedOnPointer
<1> QED
  BY <1>2, <1>3

\* An attempt is given up, or made again.
LEMMA RetryOnPointer ==
  ASSUME U!PointerInv, step \in {"look", "hit"}, NEW d \in {"unknown", "not_delivered"},
         U!Retry(d) \/ U!Fail, UNCHANGED <<kind, refs, overlay, acted>>
  PROVE  U!PointerInv'
<1>1. CASE U!Fail \/ U!Stop(U!Report("error", d))
  BY <1>1, StopOnPointer DEF U!Fail
<1>2. CASE step' = "lease" /\ leased' = FALSE /\ U!Forget /\ UNCHANGED U!elementVars
  BY <1>2, UnleasedOnPointer DEF U!Forget, U!elementVars, U!PointerInv
<1> QED
  BY <1>1, <1>2 DEF U!Retry

LEMMA PositionOnPointer ==
  ASSUME U!PointerInv, U!Position
  PROVE  U!PointerInv'
<1>1. step = "look" /\ half = 0 /\ UNCHANGED <<kind, refs, auto, overlay, tracking, acted>>
  BY QuietIs DEF U!Position
<1>2. CASE U!Retry("unknown") \/ U!Fail
  BY <1>1, <1>2, RetryOnPointer
<1>3. CASE ~ (U!Retry("unknown") \/ U!Fail)
  <2>1. /\ half' = places[U!End][1]
        /\ UNCHANGED <<places, looks, step, todo, first, doubt, moments, leased>>
    BY <1>3 DEF U!Position, U!elementVars
  <2>2. /\ U!LooksAreSound /\ refs \subseteq U!Ends /\ leased /\ places \in U!Pairs
        /\ looks \in [U!Ends -> {"plain", "hidden", "covered"}]
    BY <1>1 DEF U!PointerInv
  <2>3. /\ U!End' = U!End /\ U!Nth' = U!Nth /\ U!Agendas' = U!Agendas /\ U!Looked' = U!Looked
        /\ U!Now' = U!Now /\ U!Moment(places, looks)' = U!Moment(places, looks)
    BY <1>1, <2>1 DEF U!End, U!Nth, U!Agendas, U!Looked, U!Now, U!Before, U!Moment
  <2>4. todo # <<>> /\ U!End \in refs /\ todo \in U!Agendas
    BY <1>1, <2>2, NextLook DEF U!LooksAreSound
  <2>5. half' \in Nat /\ half' <= places'[U!End][1]
    BY <2>1, <2>2, <2>4, PairsAre
  <2>6. U!Nth = 2 => \E m \in moments : \A e \in refs : U!Between(m, e)'
    <3>1. ASSUME NEW m \in moments, NEW e \in refs, U!Between(m, e)
          PROVE  U!Between(m, e)'
      <4>1. m.place[e][1] <= places[e][1]
        BY <2>2 DEF U!LooksAreSound
      <4>2. e = U!End' => m.place[e][1] <= half'
        BY <2>1, <2>3, <4>1
      <4> QED
        BY <1>1, <2>1, <3>1, <4>2 DEF U!Between, U!Twice, U!Now, U!Before, U!End, U!Nth
    <3> QED
      BY <2>2, <3>1 DEF U!LooksAreSound
  <2>7. \A e : U!KnownPlace(e)' <=> U!KnownPlace(e)
    BY <2>1 DEF U!KnownPlace
  <2>8. \A m, e : U!ReachedAt(m, e)' <=> U!ReachedAt(m, e)
    BY <2>1 DEF U!ReachedAt
  <2>9. U!LooksAreSound'
    BY <1>1, <2>1, <2>2, <2>3, <2>4, <2>5, <2>6, <2>7, <2>8 DEF U!LooksAreSound
  <2> QED
    BY <1>1, <2>1, <2>2, <2>5, <2>9, LeasedOnPointer
<1> QED
  BY <1>2, <1>3

LEMMA SizeOnPointer ==
  ASSUME U!PointerInv, U!Size
  PROVE  U!PointerInv'
<1>1. step = "look" /\ half # 0 /\ UNCHANGED <<kind, refs, auto, overlay, tracking, acted>>
  BY QuietIs DEF U!Size
<1>2. /\ U!LooksAreSound /\ refs \subseteq U!Ends /\ leased /\ places \in U!Pairs /\ half \in Nat
      /\ looks \in [U!Ends -> {"plain", "hidden", "covered"}]
  BY <1>1 DEF U!PointerInv
<1>3. /\ todo # <<>> /\ U!End \in refs /\ todo \in U!Agendas /\ first \in U!Pairs
      /\ half <= places[U!End][1]
  BY <1>1, <1>2, NextLook DEF U!LooksAreSound
<1>4. CASE U!Retry("unknown")
  BY <1>1, <1>4, RetryOnPointer
<1>5. CASE /\ U!Nth = 1 /\ step' = "scroll" /\ half' = 0
           /\ UNCHANGED <<U!elementVars, todo, first, doubt, moments, leased, report>>
  <2>1. UNCHANGED <<places, looks>>
    BY <1>5 DEF U!elementVars
  <2>2. /\ U!End' = U!End /\ U!Nth' = U!Nth /\ U!Agendas' = U!Agendas /\ U!Looked' = U!Looked
        /\ U!Now' = {} /\ U!Moment(places, looks)' = U!Moment(places, looks)
    BY <1>1, <1>5, <2>1 DEF U!End, U!Nth, U!Agendas, U!Looked, U!Now, U!Before, U!Moment
  <2>3. \A e : U!KnownPlace(e)' <=> U!KnownPlace(e)
    BY <1>5, <2>1 DEF U!KnownPlace
  <2>4. \A m, e : U!ReachedAt(m, e)' <=> U!ReachedAt(m, e)
    BY <1>5 DEF U!ReachedAt
  <2>5. 0 <= places'[U!End][1]
    BY <1>2, <1>3, <2>1, PairsAre
  <2>6. U!LooksAreSound'
    BY <1>1, <1>2, <1>3, <1>5, <2>1, <2>2, <2>3, <2>4, <2>5 DEF U!LooksAreSound
  <2> QED
    BY <1>1, <1>2, <1>5, <2>1, <2>6, LeasedOnPointer
<1>6. CASE /\ U!Stable(U!End, U!Nth)
           /\ step' = "hit" /\ first' = [first EXCEPT ![U!End] = U!Bounds(U!End)] /\ half' = 0
           /\ UNCHANGED <<U!elementVars, todo, doubt, moments, leased, report>>
  <2>1. UNCHANGED <<places, looks>> /\ U!End \in U!Ends
    BY <1>2, <1>3, <1>6 DEF U!elementVars
  <2>2. /\ U!End' = U!End /\ U!Nth' = U!Nth /\ U!Agendas' = U!Agendas /\ U!Looked' = U!Looked
        /\ U!Now' = {U!End} /\ U!Now = {} /\ U!Moment(places, looks)' = U!Moment(places, looks)
        /\ U!Before' = U!Before /\ U!Twice' = U!Twice
    BY <1>1, <1>6, <2>1 DEF U!End, U!Nth, U!Agendas, U!Looked, U!Now, U!Before, U!Moment, U!Twice
  <2>3. U!Bounds(U!End) = <<half, places[U!End][2]>> /\ places[U!End][2] \in Nat
    BY <1>2, <2>1, PairsAre DEF U!Bounds
  <2>4. first'[U!End] = <<half, places[U!End][2]>> /\ first' \in U!Pairs
    BY <1>2, <1>3, <1>6, <2>1, <2>3 DEF U!Pairs
  <2>5. \A e \in U!Ends : e # U!End => first'[e] = first[e]
    BY <1>3, <1>6 DEF U!Pairs
  <2>6. ASSUME NEW e, e = U!End
        PROVE  U!KnownPlace(e)'
    <3>1. places[U!End] = <<places[U!End][1], places[U!End][2]>>
      BY <1>2, <2>1, PairsAre
    <3>2. first'[U!End][1] = half
      BY <2>4
    <3>3. first'[U!End][1] <= places'[U!End][1]
      BY <1>3, <2>1, <3>2
    <3>4. first'[U!End][1] = places'[U!End][1] => first'[U!End] = places'[U!End]
      BY <2>1, <2>4, <3>1, <3>2
    <3> QED
      BY <2>2, <2>6, <3>3, <3>4 DEF U!KnownPlace
  <2>7. U!Looked \subseteq U!Ends
    BY <1>2 DEF U!Looked, U!Before, U!Ends
  <2>8. \A e \in U!Looked \union {U!End} : U!KnownPlace(e)'
    <3>1. \A e \in U!Looked : e # U!End => (U!KnownPlace(e)' <=> U!KnownPlace(e))
      BY <2>1, <2>5, <2>7 DEF U!KnownPlace
    <3>2. \A e \in U!Looked : U!KnownPlace(e)
      BY <1>2 DEF U!LooksAreSound
    <3> QED
      BY <2>6, <3>1, <3>2
  <2>9. U!Nth = 2 => first' = first
    <3>1. U!Nth = 2 => first[U!End] = U!Bounds(U!End)
      BY <1>6 DEF U!Stable
    <3> QED
      BY <1>3, <1>6, <3>1 DEF U!Pairs
  <2>10. U!Nth = 2 => \E m \in moments : \A e \in refs : U!Between(m, e)'
    <3>1. ASSUME U!Nth = 2, NEW m \in moments, NEW e \in refs, U!Between(m, e)
          PROVE  U!Between(m, e)'
      <4>1. first[e][1] \in Nat /\ m.place[e][1] \in Nat
        BY <1>2, <1>3, PairsAre DEF U!LooksAreSound
      <4>2. /\ first[e][1] <= m.place[e][1]
            /\ first[e][1] = m.place[e][1] => first[e] = m.place[e]
            /\ e = U!End => m.place[e][1] <= half
            /\ e \in U!Twice => m.place[e] = first[e]
        BY <1>1, <1>3, <3>1 DEF U!Between
      <4>3. e = U!End => first[e][1] = half
        BY <2>4, <2>9, <3>1
      <4>4. e = U!End => m.place[e] = first[e]
        BY <1>2, <4>1, <4>2, <4>3
      <4>5. e \in U!Twice' \/ e \in U!Now' => m.place[e] = first[e]
        BY <2>2, <4>2, <4>4
      <4> QED
        BY <1>6, <2>9, <3>1, <4>2, <4>5 DEF U!Between
    <3> QED
      BY <1>2, <3>1 DEF U!LooksAreSound
  <2>11. \A e \in U!Looked \ doubt : \E m \in moments : U!ReachedAt(m, e)'
    <3>1. \A e \in U!Looked : first'[e] = first[e]
      <4>1. CASE U!Nth = 2
        BY <2>9, <4>1
      <4>2. CASE U!Nth # 2
        BY <1>3, <2>5, <4>2 DEF U!Looked, U!Before, U!Ends
      <4> QED
        BY <4>1, <4>2
    <3>2. \A m : \A e \in U!Looked : U!ReachedAt(m, e)' <=> U!ReachedAt(m, e)
      BY <3>1 DEF U!ReachedAt
    <3> QED
      BY <1>2, <3>2 DEF U!LooksAreSound
  <2>12. 0 <= places'[U!End][1]
    BY <1>2, <2>1, PairsAre
  <2>13. /\ \A m \in moments' : m.place \in U!Pairs /\ \A e \in U!Ends : m.place[e][1] <= places'[e][1]
         /\ U!Moment(places, looks)' \in moments'
    BY <1>2, <1>6, <2>1, <2>2 DEF U!LooksAreSound
  <2>14. U!LooksAreSound'
    BY <1>1, <1>3, <1>6, <2>2, <2>4, <2>8, <2>10, <2>11, <2>12, <2>13 DEF U!LooksAreSound
  <2> QED
    BY <1>1, <1>2, <1>6, <2>1, <2>14, LeasedOnPointer
<1> QED
  BY <1>4, <1>5, <1>6 DEF U!Size

LEMMA ReachesAtOnce ==
  ASSUME NEW e, NEW a \in U!Answers(e), a \notin {"unknown", "unrelated"}
  PROVE  U!Within(e) /\ looks[e] # "covered"
BY DEF U!Answers, U!AtPoint, U!InApplication

LEMMA HitOnPointer ==
  ASSUME U!PointerInv, U!Hit
  PROVE  U!PointerInv'
<1>1. step = "hit" /\ UNCHANGED <<kind, refs, auto, overlay, tracking, acted>>
  BY QuietIs DEF U!Hit
<1>2. /\ U!LooksAreSound /\ refs \subseteq U!Ends /\ leased /\ places \in U!Pairs
      /\ looks \in [U!Ends -> {"plain", "hidden", "covered"}]
  BY <1>1 DEF U!PointerInv
<1>3. /\ todo # <<>> /\ todo \in U!Agendas /\ first \in U!Pairs /\ half = 0
  BY <1>1, <1>2 DEF U!LooksAreSound
<1>4. CASE U!Retry("not_delivered") \/ U!Fail
  BY <1>1, <1>4, RetryOnPointer
<1>5. ASSUME NEW a \in U!Answers(U!End), a # "unrelated",
             doubt' = IF a = "unknown" THEN doubt \union {U!End} ELSE doubt \ {U!End},
             todo' = Tail(todo), step' = IF todo' = <<>> THEN "travel" ELSE "look",
             UNCHANGED <<U!elementVars, half, first, moments, leased, report>>
      PROVE  U!PointerInv'
  <2>1. UNCHANGED <<places, looks>> /\ step' # "hit"
    BY <1>5 DEF U!elementVars
  <2>2. /\ U!End \in refs /\ todo' \in U!Agendas
        /\ U!Nth # 2 => todo' # <<>>
        /\ U!Nth = 2 /\ todo' # <<>> => U!Nth' = 2 /\ refs = U!Ends
                                        /\ U!End = "from" /\ U!End' = "to"
        /\ U!Nth = 2 /\ todo' = <<>> => refs \subseteq U!Before \cup {U!End}
        /\ U!Nth # 2 /\ U!Nth' = 2 => refs \subseteq U!Before \cup {U!End}
                                      /\ (refs = U!Ends => U!End' = "from")
        /\ U!Nth # 2 /\ U!Nth' # 2 => refs = U!Ends /\ U!End = "from" /\ U!End' = "to"
    BY <1>2, <1>3, <1>5, NextLook DEF U!End, U!Nth
  <2>3. /\ U!Agendas' = U!Agendas /\ U!Now' = {} /\ U!Now = {U!End}
        /\ U!Moment(places, looks)' = U!Moment(places, looks)
        /\ U!Moment(places, looks).place = places
        /\ U!Moment(places, looks).plain = {e \in refs : looks[e] = "plain"}
    BY <1>1, <2>1 DEF U!Agendas, U!Now, U!Moment
  <2>4. U!Looked' \subseteq U!Looked \union {U!End}
    <3>1. U!Looked' = IF todo' = <<>> \/ U!Nth' = 2 THEN refs ELSE U!Before'
      BY <1>1 DEF U!Looked
    <3>2. U!Looked = IF U!Nth = 2 THEN refs ELSE U!Before
      BY <1>3 DEF U!Looked
    <3>3. U!Before' = IF refs = U!Ends /\ U!End' = "to" THEN {"from"} ELSE {}
      BY <1>1 DEF U!Before
    <3> QED
      BY <2>2, <3>1, <3>2, <3>3
  <2>5. U!Looked' \subseteq U!Ends
    BY <1>1, <1>2 DEF U!Looked, U!Before, U!Ends
  <2>6. \A e : U!KnownPlace(e)' <=> U!KnownPlace(e)
    BY <1>5, <2>1 DEF U!KnownPlace
  <2>7. \A e \in U!Looked \union {U!End} : U!KnownPlace(e)
    BY <1>2, <2>3 DEF U!LooksAreSound
  <2>8. \A m, e : U!ReachedAt(m, e)' <=> U!ReachedAt(m, e)
    BY <1>5 DEF U!ReachedAt
  <2>9. \A e \in U!Looked' \ doubt' : \E m \in moments : U!ReachedAt(m, e)
    <3>1. ASSUME NEW e \in U!Looked' \ doubt', e # U!End
          PROVE  \E m \in moments : U!ReachedAt(m, e)
      <4>1. e \in U!Looked \ doubt
        BY <1>5, <2>4, <3>1
      <4> QED
        BY <1>2, <4>1 DEF U!LooksAreSound
    <3>2. ASSUME U!End \notin doubt'
          PROVE  \E m \in moments : U!ReachedAt(m, U!End)
      <4>1. a \notin {"unknown", "unrelated"}
        BY <1>5, <3>2
      <4>2. U!Within(U!End) /\ looks[U!End] # "covered"
        BY <1>5, <4>1, ReachesAtOnce
      <4>3. places[U!End] = first[U!End] /\ looks[U!End] # "hidden"
        BY <4>2 DEF U!Within, U!Visible, U!Offscreen
      <4>4. looks[U!End] = "plain"
        BY <1>2, <2>2, <4>2, <4>3
      <4>5. U!ReachedAt(U!Moment(places, looks), U!End)
        BY <2>2, <2>3, <4>3, <4>4 DEF U!ReachedAt
      <4> QED
        BY <1>2, <4>5 DEF U!LooksAreSound
    <3> QED
      BY <3>1, <3>2
  <2>10. todo' = <<>> \/ U!Nth' = 2 => \E m \in moments : \A e \in refs : U!Between(m, e)'
    <3>1. U!Twice' = IF todo' = <<>> THEN refs ELSE IF U!Nth' = 2 THEN U!Before' ELSE {}
      BY <1>1 DEF U!Twice
    <3>2. U!Before' = IF refs = U!Ends /\ U!End' = "to" THEN {"from"} ELSE {}
      BY <1>1 DEF U!Before
    <3>3. U!Twice = IF U!Nth = 2 THEN U!Before ELSE {}
      BY <1>3 DEF U!Twice
    <3>4. CASE U!Nth = 2
      <4>1. U!Twice' \subseteq U!Twice \union {U!End}
        BY <2>2, <3>1, <3>2, <3>3, <3>4
      <4>2. \A m : \A e \in refs : U!Between(m, e) => U!Between(m, e)'
        BY <1>3, <1>5, <2>3, <3>4, <4>1 DEF U!Between
      <4> QED
        BY <1>2, <3>4, <4>2 DEF U!LooksAreSound
    <3>5. CASE U!Nth # 2 /\ U!Nth' = 2
      <4>1. U!Twice' = {}
        BY <2>2, <3>1, <3>2, <3>5
      <4>2. \A e \in refs : U!KnownPlace(e)
        <5>1. U!Looked = U!Before
          BY <1>3, <3>5 DEF U!Looked
        <5> QED
          BY <2>2, <2>7, <3>5, <5>1
      <4> DEFINE now == U!Moment(places, looks)
      <4>3. \A m : m = now => \A e \in refs : U!Between(m, e)'
        BY <1>3, <1>5, <2>1, <2>3, <4>1, <4>2 DEF U!Between, U!KnownPlace
      <4>4. U!Moment(places, looks) \in moments
        BY <1>2 DEF U!LooksAreSound
      <4> QED
        BY <4>3, <4>4
    <3> QED
      BY <2>2, <3>4, <3>5
  <2>11. todo' # <<>> => 0 <= places'[U!End'][1]
    <3>1. todo' # <<>> => U!End' \in U!Ends
      <4>1. todo' \in U!Agendas' /\ refs' \subseteq U!Ends
        BY <1>1, <1>2, <2>2, <2>3
      <4> QED
        BY <4>1, NextLookLater
    <3> QED
      BY <1>2, <2>1, <3>1, PairsAre
  <2>12. /\ \A m \in moments' : m.place \in U!Pairs /\ \A e \in U!Ends : m.place[e][1] <= places'[e][1]
         /\ U!Moment(places, looks)' \in moments'
    BY <1>2, <1>5, <2>1, <2>3 DEF U!LooksAreSound
  <2>13. \A e \in U!Looked' \union U!Now' : U!KnownPlace(e)'
    BY <2>3, <2>4, <2>6, <2>7
  <2>14. U!LooksAreSound'
    BY <1>1, <1>3, <1>5, <2>2, <2>3, <2>8, <2>9, <2>10, <2>11, <2>12, <2>13 DEF U!LooksAreSound
  <2> QED
    BY <1>1, <1>2, <1>3, <1>5, <2>1, <2>14, LeasedOnPointer
<1> QED
  BY <1>4, <1>5 DEF U!Hit

LEMMA TravelOnPointer ==
  ASSUME U!PointerInv, U!Travel
  PROVE  U!PointerInv'
<1>1. step = "travel" /\ UNCHANGED <<kind, refs, acted>>
  BY DEF U!Travel, U!callVars
<1>2. CASE U!Fail /\ UNCHANGED <<overlay, tracking>>
  BY <1>1, <1>2, StopOnPointer DEF U!Fail
<1>3. CASE /\ step' = "dispatch"
           /\ overlay' \in IF tracking' THEN {IF kind = "drag" THEN "drag" ELSE "travel"}
                          ELSE {"idle", IF kind = "drag" THEN "drag" ELSE "travel"}
           /\ UNCHANGED <<U!elementVars, U!lookVars, moments, leased, report>>
  <2>1. /\ step' = "dispatch" /\ UNCHANGED <<places, looks, todo, half, first, doubt, moments, leased>>
    BY <1>3 DEF U!elementVars, U!lookVars
  <2>2. overlay' \in {"idle", IF kind = "drag" THEN "drag" ELSE "travel"}
    BY <1>3
  <2>3. U!LooksAreSound /\ leased
    BY <1>1 DEF U!PointerInv
  <2>4. U!LooksAreSound'
    <3>1. /\ U!Agendas' = U!Agendas /\ U!Looked' = U!Looked /\ U!Now' = U!Now
          /\ U!Moment(places, looks)' = U!Moment(places, looks)
      BY <1>1, <2>1 DEF U!Nth, U!End, U!Agendas, U!Looked, U!Now, U!Before, U!Moment
    <3>2. \A m, e : /\ U!ReachedAt(m, e)' <=> U!ReachedAt(m, e)
                    /\ U!Between(m, e)' <=> U!Between(m, e)
                    /\ U!KnownPlace(e)' <=> U!KnownPlace(e)
      BY <1>1, <2>1
         DEF U!Nth, U!End, U!Twice, U!Now, U!Before, U!ReachedAt, U!Between, U!KnownPlace
    <3> QED
      BY <1>1, <2>1, <2>3, <3>1, <3>2 DEF U!LooksAreSound
  <2>5. ~ acted'
    BY <1>1 DEF U!PointerInv
  <2> QED
    BY <1>1, <2>1, <2>2, <2>3, <2>4, <2>5 DEF U!PointerInv
<1> QED
  BY <1>2, <1>3 DEF U!Travel

\* The gesture, and what is reported of it.
LEMMA DispatchOnPointer ==
  ASSUME U!PointerInv, U!Dispatch
  PROVE  U!PointerInv'
<1>1. /\ step = "dispatch" /\ UNCHANGED <<kind, refs>> /\ leased' = FALSE /\ step' = "settle"
      /\ half' = 0 /\ places' = [e \in U!Ends |-> <<1, 1>>] /\ looks' = [e \in U!Ends |-> "plain"]
  BY DEF U!Dispatch, U!callVars, U!Forget, U!Rest
<1>2. places' \in U!Pairs /\ looks' \in [U!Ends -> {"plain", "hidden", "covered"}] /\ half' \in Nat
      /\ refs' \subseteq U!Ends
  BY <1>1 DEF U!Pairs, U!PointerInv
<1>3. PICK r \in {U!Report("ok", "delivered"), U!Report("error", "not_delivered"),
                  U!Report("error", "uncertain"), U!Report("error", "delivered")} :
        /\ acted' \in CASE r.delivery = "not_delivered" -> {FALSE}
                        [] r.delivery = "uncertain" -> BOOLEAN
                        [] OTHER -> {TRUE}
        /\ overlay' = U!CursorAfter(r) /\ tracking' = FALSE
        /\ report' = r
  BY DEF U!Dispatch
<1>4. \A o, d : U!Report(o, d).outcome = o /\ U!Report(o, d).delivery = d
  BY DEF U!Report
<1>5. /\ r.delivery \in {"not_delivered", "uncertain", "delivered"} /\ r.outcome \in {"ok", "error"}
      /\ r.outcome = "ok" => r.delivery = "delivered"
  BY <1>3, <1>4
<1>6. /\ acted' => r.delivery \in {"delivered", "uncertain"}
      /\ r.delivery = "delivered" => acted'
  BY <1>3, <1>5
<1>7. overlay' # "drag" /\ (overlay' = "effect" => U!Confirmed(r))
  <2>1. overlay \in {"idle", IF kind = "drag" THEN "drag" ELSE "travel"}
    BY <1>1 DEF U!PointerInv
  <2> QED
    BY <1>3, <2>1 DEF U!CursorAfter, U!Confirmed
<1>8. U!Confirmed(report)' = U!Confirmed(r)
  BY <1>3 DEF U!Confirmed
<1> QED
  BY <1>1, <1>2, <1>3, <1>5, <1>6, <1>7, <1>8 DEF U!PointerInv

LEMMA SettleOnPointer ==
  ASSUME U!PointerInv, U!Settle
  PROVE  U!PointerInv'
<1>1. /\ step = "settle" /\ step' = "done"
      /\ UNCHANGED <<kind, refs, places, looks, overlay, acted, half, leased>>
  BY DEF U!Settle, U!callVars, U!elementVars, U!lookVars
<1>2. PICK r \in U!Settled(report) : \E s \in U!Completed(r) : report' = s
  BY DEF U!Settle
<1>3. \A o, d : U!Report(o, d).outcome = o /\ U!Report(o, d).delivery = d
  BY DEF U!Report
<1>4. /\ r.delivery = report.delivery \/ (report.outcome = "ok" /\ r.delivery = "delivered")
      /\ r.outcome = "ok" => r = report
  BY <1>2, <1>3 DEF U!Settled
<1>5. /\ report'.delivery = r.delivery
      /\ report'.outcome = "ok" => report' = r
  BY <1>2, <1>3 DEF U!Completed
<1>6. /\ acted => report.delivery \in {"delivered", "uncertain"}
      /\ report.outcome = "ok" => report.delivery = "delivered"
      /\ report.delivery = "delivered" => acted
      /\ overlay # "drag" /\ (overlay = "effect" => U!Confirmed(report))
      /\ ~ leased
  BY <1>1 DEF U!PointerInv
<1>7. /\ report'.delivery = report.delivery
      /\ report'.outcome = "ok" => report'.delivery = "delivered"
  BY <1>4, <1>5, <1>6
<1>8. U!Confirmed(report) => U!Confirmed(report)'
  BY <1>6, <1>7 DEF U!Confirmed
<1> QED
  BY <1>1, <1>6, <1>7, <1>8 DEF U!PointerInv

LEMMA PointerInvIsKept ==
  ASSUME U!PointerInv, [U!Next]_U!vars
  PROVE  U!PointerInv'
<1>1. CASE UNCHANGED U!vars
  <2>1. /\ UNCHANGED <<kind, refs, auto, places, looks, moves, step, todo, half, first, doubt>>
        /\ UNCHANGED <<moments, leased, overlay, tracking, acted, report>>
    BY <1>1 DEF U!vars, U!callVars, U!elementVars, U!lookVars
  <2>2. U!LooksAreSound => U!LooksAreSound'
    BY <2>1
       DEF U!LooksAreSound, U!Agendas, U!Looked, U!Now, U!Before, U!Nth, U!End, U!Moment, U!Twice,
           U!ReachedAt, U!Between, U!KnownPlace
  <2>3. U!Confirmed(report)' = U!Confirmed(report)
    BY <2>1 DEF U!Confirmed
  <2> QED
    BY <2>1, <2>2, <2>3 DEF U!PointerInv
<1>2. CASE U!Next
  BY <1>2, ChangeOnPointer, StartOnPointer, WaitOnPointer, ScrollOnPointer, AcquireOnPointer,
     PositionOnPointer, SizeOnPointer, HitOnPointer, TravelOnPointer, DispatchOnPointer,
     SettleOnPointer DEF U!Next
<1> QED
  BY <1>1, <1>2

-----------------------------------------------------------------------------
(* Actionability *)

LEMMA TrulyTells ==
  ASSUME NEW e
  PROVE  /\ "same" \in Z!Truly(e) <=> e.same
         /\ "enabled" \in Z!Truly(e) <=> e.enabled
         /\ "shown" \in Z!Truly(e) <=> ~ e.hidden
         /\ "inside" \in Z!Truly(e) <=> ~ e.out
BY DEF Z!Truly, Z!Gates

LEMMA FiveChecks ==
  ASSUME NEW a, NEW b, NEW c, NEW d, NEW f
  PROVE  /\ Z!Passed(<<a, b, c, d, f>>)
              => a = "pass" /\ b = "pass" /\ c = "pass" /\ d = "pass" /\ f = "pass"
         /\ Z!Terminal(<<a, b, c, d, f>>) /\ a # "denied" /\ b # "denied" /\ c # "denied"
              => a = "pass" /\ c = "pass"
<1> DEFINE s == <<a, b, c, d, f>>
<1>1. /\ DOMAIN s = 1 .. 5
      /\ s[1] = a /\ s[2] = b /\ s[3] = c /\ s[4] = d /\ s[5] = f
  OBVIOUS
<1> HIDE DEF s
<1>2. Z!Passed(s) => a = "pass" /\ b = "pass" /\ c = "pass" /\ d = "pass" /\ f = "pass"
  <2>1. 1 \in 1 .. 5 /\ 2 \in 1 .. 5 /\ 3 \in 1 .. 5 /\ 4 \in 1 .. 5 /\ 5 \in 1 .. 5
    OBVIOUS
  <2> QED
    BY <1>1, <2>1 DEF Z!Passed
<1>3. ASSUME Z!Terminal(s), a # "denied", b # "denied", c # "denied"
      PROVE  a = "pass" /\ c = "pass"
  <2>1. PICK i \in 1 .. 5 : s[i] = "denied" /\ \A j \in 1 .. i - 1 : s[j] = "pass"
    BY <1>1, <1>3 DEF Z!Terminal
  <2>2. i \in 4 .. 5
    BY <1>1, <1>3, <2>1
  <2>3. 1 \in 1 .. i - 1 /\ 3 \in 1 .. i - 1
    BY <2>2
  <2> QED
    BY <1>1, <2>1, <2>3
<1> QED
  BY <1>2, <1>3 DEF s

\* What the checks say of what was read.
LEMMA ChecksTell ==
  ASSUME plan \in Z!Plans, NEW e, e \in Z!Evidences
  PROVE  /\ Z!Passed(Z!Checks(plan, e)) =>
              /\ e.enabled /\ ~ e.hidden
              /\ Z!NeedsStability(plan) /\ strict => samples.place = e.place
              /\ Z!Delivery(plan) = "physical" => plan.headed /\ e.place > Z!Flat
         /\ Z!Terminal(Z!Checks(plan, e)) => e.enabled /\ ~ e.hidden /\ e.off # "yes"
<1>1. /\ e.enabled \in BOOLEAN /\ e.hidden \in BOOLEAN /\ e.place \in Nat
      /\ e.off \in {"yes", "no", "unknown"}
  BY DEF Z!Evidences
<1>2. /\ plan.action \in {"click", "type", "toggle", "check"} /\ plan.headed \in BOOLEAN
      /\ plan.offers \in BOOLEAN /\ plan.text \in BOOLEAN
  BY DEF Z!Plans
<1>3. /\ Z!Visible(plan, e) \in {"pass", "fail", "unknown"}
      /\ Z!Visible(plan, e) = "pass" => ~ e.hidden /\ e.off # "yes"
      /\ Z!Visible(plan, e) = "pass" /\ plan.headed => e.place > Z!Flat
  <2>1. plan.headed => Z!NeedsGeometry(plan)
    BY DEF Z!NeedsGeometry
  <2>2. /\ Z!Visible(plan, e) = "pass" /\ Z!NeedsGeometry(plan) => e.place # 0 /\ e.place # 1
        /\ Z!Visible(plan, e) \in {"pass", "fail", "unknown"}
        /\ Z!Visible(plan, e) = "pass" => ~ e.hidden /\ e.off # "yes"
    BY DEF Z!Visible, Z!NoBounds, Z!Flat
  <2>3. e.place # 0 /\ e.place # 1 => e.place > Z!Flat
    BY <1>1 DEF Z!Flat
  <2> QED
    BY <2>1, <2>2, <2>3
<1>4. /\ Z!Stable(e) \in {"pass", "fail", "unknown"}
      /\ Z!Stable(e) = "pass" /\ strict => e.place = samples.place
  BY <1>1 DEF Z!Stable
<1>5. Z!Enabled(e) \in {"pass", "fail"} /\ (Z!Enabled(e) = "pass" => e.enabled)
  BY <1>1 DEF Z!Enabled
<1>6. Z!Delivery(plan) = "physical" /\ Z!Supported(plan) = "pass" => plan.headed
  BY <1>2 DEF Z!Delivery, Z!Supported, Z!Requires, Z!Headed, Z!Semantic
<1> DEFINE b == IF Z!NeedsStability(plan) THEN Z!Stable(e) ELSE "pass"
           d == IF "editable" \in Z!Requires(plan.action) THEN Z!Editable(plan) ELSE "pass"
<1>7. Z!Checks(plan, e) = <<Z!Visible(plan, e), b, Z!Enabled(e), d, Z!Supported(plan)>>
  BY DEF Z!Checks
<1>8. b \in {"pass", "fail", "unknown"}
  BY <1>4
<1>9. b = "pass" /\ Z!NeedsStability(plan) /\ strict => samples.place = e.place
  BY <1>4
<1> HIDE DEF b, d
<1>10. /\ Z!Passed(Z!Checks(plan, e)) => Z!Visible(plan, e) = "pass" /\ b = "pass"
                                         /\ Z!Enabled(e) = "pass" /\ Z!Supported(plan) = "pass"
       /\ Z!Terminal(Z!Checks(plan, e)) => Z!Visible(plan, e) = "pass" /\ Z!Enabled(e) = "pass"
  <2>1. Z!Visible(plan, e) # "denied" /\ b # "denied" /\ Z!Enabled(e) # "denied"
    BY <1>3, <1>5, <1>8
  <2> QED
    BY <1>7, <2>1, FiveChecks
<1> QED
  BY <1>3, <1>5, <1>6, <1>9, <1>10

LEMMA ActInvStarts ==
  ASSUME Z!Init
  PROVE  Z!ActInv
<1>1. element \in Z!Elements
  <2>1. element \in [same : {TRUE}, enabled : {TRUE}, hidden : {FALSE}, out : {FALSE},
                     place : Z!Flat .. Z!Flat + 2 \cup {Z!NoBounds}, covered : {{}, {1}}, value : {0}]
    BY DEF Z!Init
  <2>2. /\ \A n \in Z!Flat .. Z!Flat + 2 \cup {Z!NoBounds} : n \in Nat
        /\ \A c \in {{}, {1}} : c \in SUBSET (Spots \cup {1})
        /\ 0 \in Z!Values
    BY DEF Z!Flat, Z!NoBounds, Z!Values
  <2> QED
    BY <2>1, <2>2 DEF Z!Elements
<1>2. evidence \in Z!Evidences /\ samples \in [count : Nat, place : Nat]
  BY DEF Z!Init, Z!Evidences, Z!NoEvidence, Z!Sampled, Z!NoBounds
<1>3. answer.disposition = "none"
  BY DEF Z!Init, Z!NotYet
<1>4. Z!ActionabilityIsHonest
  BY DEF Z!Init, Z!ActionabilityIsHonest, Z!ReadyWhenActedOn, Z!GivenUpForGood, Z!VerdictIsTrue
<1>5. Z!HeldCoversTheEvidence /\ Z!ChecksArePassed /\ Z!EffectsAreAnswered
  BY DEF Z!Init, Z!HeldCoversTheEvidence, Z!ChecksArePassed, Z!EffectsAreAnswered
<1> QED
  BY <1>1, <1>2, <1>3, <1>4, <1>5 DEF Z!Init, Z!ActInv, Z!Dispositions

\* Ready, from the parts.
LEMMA ReadyFromParts ==
  ASSUME Z!HeldCoversTheEvidence, Z!ChecksArePassed
  PROVE  Z!ReadyWhenActedOn
<1>1. strict => samples.count >= 3
  BY DEF Z!ChecksArePassed
<1> QED
  BY <1>1 DEF Z!HeldCoversTheEvidence, Z!ChecksArePassed, Z!ReadyWhenActedOn

LEMMA ForgottenTypes ==
  ASSUME Z!Forget
  PROVE  /\ evidence' \in Z!Evidences /\ samples' \in [count : Nat, place : Nat]
         /\ spot' \in Nat \ {0} /\ tally' \subseteq {"unknown", "occluded"} /\ ~ strict'
<1>1. evidence' \in Z!Evidences
  BY DEF Z!Forget, Z!Evidences, Z!NoEvidence, Z!NoBounds
<1>2. samples' \in [count : Nat, place : Nat]
  BY DEF Z!Forget, Z!Sampled, Z!NoBounds
<1> QED
  BY <1>1, <1>2 DEF Z!Forget

\* Nothing was done, and that is what is told.
LEMMA RefuseOnActs ==
  ASSUME Z!ActInv, turn \notin {"readback", "done"}, Z!Refuse
  PROVE  Z!ActInv'
<1>1. /\ turn' = "done" /\ verdict' = Z!Told(FALSE, "not_delivered")
      /\ UNCHANGED <<plan, element, answer, effected, pending, met>>
      /\ ~ effected /\ ~ pending
  BY DEF Z!Refuse, Z!acting, Z!ActInv, Z!EffectsAreAnswered
<1>2. verdict'.disposition = "not_delivered" /\ verdict'.ok = FALSE
  BY <1>1 DEF Z!Told
<1>3. verdict' # Z!Told(TRUE, "delivered_verified")
  BY <1>2 DEF Z!Told
<1>4. Z!ActionabilityIsHonest'
  BY <1>1, <1>2, <1>3
     DEF Z!ActionabilityIsHonest, Z!ReadyWhenActedOn, Z!GivenUpForGood, Z!VerdictIsTrue
<1>5. Z!Forget
  BY DEF Z!Refuse
<1>6. Z!HeldCoversTheEvidence' /\ Z!ChecksArePassed' /\ Z!EffectsAreAnswered'
  BY <1>1, <1>5, ForgottenTypes DEF Z!HeldCoversTheEvidence, Z!ChecksArePassed, Z!EffectsAreAnswered
<1> QED
  BY <1>1, <1>4, <1>5, <1>6, ForgottenTypes DEF Z!ActInv

\* A step of the checks, from its parts.
LEMMA CheckParts ==
  ASSUME Z!ActInv, turn \notin {"readback", "done"},
         turn' \in {"look", "judge", "sample", "hit", "act", "execute"},
         UNCHANGED <<plan, answer, effected, pending>>, element' \in Z!Elements,
         Z!HeldCoversTheEvidence', Z!ChecksArePassed',
         evidence' \in Z!Evidences, samples' \in [count : Nat, place : Nat],
         spot' \in Nat \ {0}, tally' \subseteq {"unknown", "occluded"}
  PROVE  Z!ActInv'
<1>1. Z!ReadyWhenActedOn'
  <2>1. strict' => samples'.count >= 3
    BY DEF Z!ChecksArePassed
  <2> QED
    BY <2>1 DEF Z!HeldCoversTheEvidence, Z!ChecksArePassed, Z!ReadyWhenActedOn
<1>2. Z!EffectsAreAnswered' /\ Z!GivenUpForGood' /\ Z!VerdictIsTrue'
  BY DEF Z!ActInv, Z!EffectsAreAnswered, Z!GivenUpForGood, Z!VerdictIsTrue
<1> QED
  BY <1>1, <1>2 DEF Z!ActInv, Z!ActionabilityIsHonest

LEMMA LookOnActs ==
  ASSUME Z!ActInv, Z!Look
  PROVE  Z!ActInv'
<1>1. turn = "look"
  BY DEF Z!Look
<1>2. CASE Z!Refuse
  BY <1>1, <1>2, RefuseOnActs
<1>3. ASSUME element.same,
             evidence' = [same |-> TRUE, enabled |-> element.enabled, hidden |-> element.hidden,
                          place |-> element.place, off |-> "unknown"],
             held' = Z!Truly(element), turn' = "judge",
             UNCHANGED <<plan, element, shakes, strict, samples, spot, tally, target,
                         Z!acting, verdict>>
      PROVE  Z!ActInv'
  <2>1. /\ element.enabled \in BOOLEAN /\ element.hidden \in BOOLEAN /\ element.place \in Nat
        /\ element \in Z!Elements
    BY DEF Z!ActInv, Z!Elements
  <2>2. evidence' \in Z!Evidences
    BY <1>3, <2>1 DEF Z!Evidences
  <2>3. evidence'.enabled = element.enabled /\ evidence'.hidden = element.hidden
    BY <1>3
  <2>4. Z!Truly(element)' = Z!Truly(element)
    BY <1>3
  <2>5. Z!HeldCoversTheEvidence'
    BY <1>3, <2>3, <2>4, TrulyTells DEF Z!HeldCoversTheEvidence
  <2>6. Z!ChecksArePassed'
    BY <1>3 DEF Z!ActInv, Z!ChecksArePassed
  <2>7. /\ samples' \in [count : Nat, place : Nat]
        /\ spot' \in Nat \ {0} /\ tally' \subseteq {"unknown", "occluded"}
        /\ UNCHANGED <<plan, answer, effected, pending>>
    BY <1>3 DEF Z!ActInv, Z!acting
  <2>8. element' \in Z!Elements
    BY <1>3, <2>1
  <2> QED
    BY <1>1, <1>3, <2>2, <2>5, <2>6, <2>7, <2>8, CheckParts
<1> QED
  BY <1>2, <1>3 DEF Z!Look

\* Where the command goes when a check is passed.
LEMMA OnwardIs ==
  /\ Z!Onward \in {"sample", "act"}
  /\ Z!Onward = "act" => (Z!NeedsStability(plan) => strict)
BY DEF Z!Onward

LEMMA JudgeOnActs ==
  ASSUME Z!ActInv, Z!Judge
  PROVE  Z!ActInv'
<1>1. /\ turn = "judge" /\ plan \in Z!Plans
      /\ UNCHANGED <<plan, element, shakes, strict, samples, spot, tally, target, held, Z!acting>>
      /\ UNCHANGED <<answer, effected, pending, prior, met>>
  BY DEF Z!Judge, Z!ActInv, Z!acting
<1>2. PICK sees \in BOOLEAN :
        LET off == IF sees /\ evidence.place # Z!NoBounds
                   THEN IF element.out THEN "yes" ELSE "no" ELSE "unknown"
            checks == Z!Checks(plan, Z!Viewport(off))
        IN /\ evidence' = Z!Viewport(off)
           /\ \/ /\ Z!Passed(checks)
                 /\ turn' = IF Z!Delivery(plan) = "physical" THEN "hit" ELSE Z!Onward
                 /\ UNCHANGED verdict
              \/ /\ Z!OnlyStabilityPending(checks) /\ ~ strict
                 /\ turn' = "sample"
                 /\ UNCHANGED verdict
              \/ /\ ~ Z!Passed(checks) /\ (Z!OnlyStabilityPending(checks) => strict)
                 /\ turn' = "done"
                 /\ verdict' = Z!Told(FALSE, IF Z!Terminal(checks) THEN "denied" ELSE "not_delivered")
  BY DEF Z!Judge
<1> DEFINE off == IF sees /\ evidence.place # Z!NoBounds
                  THEN IF element.out THEN "yes" ELSE "no" ELSE "unknown"
<1>3. off \in {"yes", "no", "unknown"} /\ (off = "no" => ~ element.out)
  OBVIOUS
<1>4. /\ evidence' = Z!Viewport(off)
      /\ \/ /\ Z!Passed(Z!Checks(plan, Z!Viewport(off)))
            /\ turn' = IF Z!Delivery(plan) = "physical" THEN "hit" ELSE Z!Onward
            /\ UNCHANGED verdict
         \/ /\ turn' = "sample"
            /\ UNCHANGED verdict
         \/ /\ turn' = "done"
            /\ verdict' = Z!Told(FALSE, IF Z!Terminal(Z!Checks(plan, Z!Viewport(off)))
                                        THEN "denied" ELSE "not_delivered")
  BY <1>2
<1> HIDE DEF off
<1>5. /\ Z!Viewport(off) \in Z!Evidences
      /\ Z!Viewport(off).off = off /\ Z!Viewport(off).enabled = evidence.enabled
      /\ Z!Viewport(off).hidden = evidence.hidden /\ Z!Viewport(off).place = evidence.place
  BY <1>3 DEF Z!Viewport, Z!Evidences, Z!ActInv
<1>6. /\ evidence' \in Z!Evidences /\ evidence'.off = off
      /\ evidence'.enabled = evidence.enabled /\ evidence'.hidden = evidence.hidden
      /\ evidence'.place = evidence.place
  BY <1>4, <1>5
<1>7. /\ Z!Truly(element) \subseteq held /\ "same" \in held
      /\ evidence.enabled => "enabled" \in held
      /\ ~ evidence.hidden => "shown" \in held
      /\ ~ element.out => "inside" \in held
  BY <1>1, TrulyTells DEF Z!ActInv, Z!HeldCoversTheEvidence
<1>8. Z!Truly(element)' = Z!Truly(element) /\ held' = held
  BY <1>1
<1>9. Z!HeldCoversTheEvidence'
  BY <1>3, <1>6, <1>7, <1>8 DEF Z!HeldCoversTheEvidence
<1>10. /\ samples' \in [count : Nat, place : Nat] /\ element' \in Z!Elements
       /\ spot' \in Nat \ {0} /\ tally' \subseteq {"unknown", "occluded"}
       /\ strict' => samples'.count = 3
  BY <1>1 DEF Z!ActInv, Z!ChecksArePassed
<1>11. CASE Z!Passed(Z!Checks(plan, Z!Viewport(off)))
            /\ turn' = IF Z!Delivery(plan) = "physical" THEN "hit" ELSE Z!Onward
  <2>1. /\ evidence'.enabled /\ ~ evidence'.hidden
        /\ Z!NeedsStability(plan) /\ strict => samples.place = evidence'.place
        /\ Z!Delivery(plan) = "physical" => plan.headed /\ evidence'.place > Z!Flat
    BY <1>1, <1>4, <1>5, <1>11, ChecksTell
  <2>2. turn' \in {"hit", "sample", "act"}
        /\ (turn' = "act" => Z!Delivery(plan) # "physical" /\ (Z!NeedsStability(plan) => strict))
    BY <1>11, OnwardIs
  <2>3. Z!NeedsStability(plan)' = Z!NeedsStability(plan) /\ Z!Delivery(plan)' = Z!Delivery(plan)
    BY <1>1
  <2>4. Z!ChecksArePassed'
    BY <1>1, <1>10, <2>1, <2>2, <2>3 DEF Z!ChecksArePassed
  <2> QED
    BY <1>1, <1>6, <1>9, <1>10, <2>2, <2>4, CheckParts
<1>12. CASE turn' = "sample"
  <2>1. Z!ChecksArePassed'
    BY <1>10, <1>12 DEF Z!ChecksArePassed
  <2> QED
    BY <1>1, <1>6, <1>9, <1>10, <1>12, <2>1, CheckParts
<1>13. CASE /\ turn' = "done"
            /\ verdict' = Z!Told(FALSE, IF Z!Terminal(Z!Checks(plan, Z!Viewport(off)))
                                        THEN "denied" ELSE "not_delivered")
  <2>1. /\ verdict'.ok = FALSE /\ verdict'.disposition \in {"denied", "not_delivered"}
        /\ verdict'.disposition = "denied" => Z!Terminal(Z!Checks(plan, Z!Viewport(off)))
    BY <1>13 DEF Z!Told
  <2>2. verdict'.disposition = "denied" =>
          evidence'.enabled /\ ~ evidence'.hidden /\ evidence'.off # "yes"
    BY <1>1, <1>4, <1>5, <2>1, ChecksTell
  <2>3. verdict' # Z!Told(TRUE, "delivered_verified")
    BY <2>1 DEF Z!Told
  <2>4. ~ effected' /\ ~ pending'
    BY <1>1 DEF Z!ActInv, Z!EffectsAreAnswered
  <2>5. Z!ActionabilityIsHonest'
    BY <1>13, <2>2, <2>3, <2>4
       DEF Z!ActionabilityIsHonest, Z!ReadyWhenActedOn, Z!GivenUpForGood, Z!VerdictIsTrue
  <2>6. Z!ChecksArePassed' /\ Z!EffectsAreAnswered'
    BY <1>10, <1>13 DEF Z!ChecksArePassed, Z!EffectsAreAnswered
  <2> QED
    BY <1>1, <1>6, <1>9, <1>10, <2>5, <2>6 DEF Z!ActInv
<1> QED
  BY <1>4, <1>11, <1>12, <1>13

LEMMA SampleOnActs ==
  ASSUME Z!ActInv, Z!Sample
  PROVE  Z!ActInv'
<1>1. /\ turn = "sample" /\ turn' \in {"look", "sample"}
      /\ UNCHANGED <<plan, element, evidence, answer, effected, pending>>
      /\ samples' = Z!Observe(samples, element.place) /\ strict' = (samples'.count = 3)
      /\ spot' = 1 /\ tally' = {}
  BY DEF Z!Sample, Z!acting
<1>2. element.place \in Nat /\ samples.count + 1 \in Nat
  BY DEF Z!ActInv, Z!Elements
<1>3. samples' \in [count : Nat, place : Nat]
  BY <1>1, <1>2 DEF Z!Observe, Z!Sampled, Z!NoBounds
<1>4. Z!HeldCoversTheEvidence' /\ Z!ChecksArePassed'
  BY <1>1 DEF Z!HeldCoversTheEvidence, Z!ChecksArePassed
<1> QED
  BY <1>1, <1>3, <1>4, CheckParts DEF Z!ActInv

LEMMA HitOnActs ==
  ASSUME Z!ActInv, Z!Hit
  PROVE  Z!ActInv'
<1>1. /\ turn = "hit" /\ plan \in Z!Plans
      /\ UNCHANGED <<plan, element, shakes, evidence, strict, samples, held, Z!acting>>
      /\ UNCHANGED <<answer, effected, pending, prior, met>>
  BY DEF Z!Hit, Z!ActInv, Z!acting
<1>2. /\ spot \in Nat \ {0} /\ tally \subseteq {"unknown", "occluded"} /\ 0 # spot
      /\ evidence' \in Z!Evidences /\ samples' \in [count : Nat, place : Nat] /\ element' \in Z!Elements
  BY <1>1 DEF Z!ActInv
<1>3. /\ Z!NeedsStability(plan)' = Z!NeedsStability(plan) /\ Z!Delivery(plan)' = Z!Delivery(plan)
      /\ Z!Truly(element)' = Z!Truly(element)
  BY <1>1
<1>4. /\ Z!Truly(element) \subseteq held /\ "same" \in held
      /\ evidence.enabled => "enabled" \in held
      /\ ~ evidence.hidden => "shown" \in held
      /\ evidence.off = "no" => "inside" \in held
  BY <1>1 DEF Z!ActInv, Z!HeldCoversTheEvidence
<1>5. Z!HeldCoversTheEvidence'
  BY <1>1, <1>3, <1>4 DEF Z!HeldCoversTheEvidence
<1>6. /\ strict => samples.count = 3
      /\ evidence.enabled /\ ~ evidence.hidden
      /\ Z!NeedsStability(plan) /\ strict => samples.place = evidence.place
      /\ Z!Delivery(plan) = "physical" => plan.headed /\ evidence.place > Z!Flat
  BY <1>1 DEF Z!ActInv, Z!ChecksArePassed
<1>7. ASSUME turn' \in {"hit", "sample", "act"},
             turn' = "act" => (Z!NeedsStability(plan) => strict) /\ (target' = 0 => tally' = {"unknown"}),
             spot' \in Nat \ {0}, tally' \subseteq {"unknown", "occluded"}
      PROVE  Z!ActInv'
  <2>1. Z!ChecksArePassed'
    BY <1>1, <1>3, <1>6, <1>7 DEF Z!ChecksArePassed
  <2> QED
    BY <1>1, <1>2, <1>5, <1>7, <2>1, CheckParts
<1>8. PICK a \in Z!Answers(spot) :
       \/ /\ a = "reaches"
          /\ target' = spot /\ tally' = tally
          /\ turn' = Z!Onward
          /\ UNCHANGED <<spot, verdict>>
       \/ /\ a # "reaches"
          /\ tally' = tally \cup {a}
          /\ IF spot + 1 \in Spots
             THEN spot' = spot + 1 /\ UNCHANGED <<turn, verdict>>
             ELSE /\ UNCHANGED spot
                  /\ IF "occluded" \in tally'
                     THEN turn' = "done" /\ verdict' = Z!Told(FALSE, "not_delivered")
                     ELSE /\ turn' = Z!Onward
                          /\ UNCHANGED verdict
          /\ UNCHANGED target
  BY DEF Z!Hit
<1>9. a \in {"unknown", "reaches", "occluded"}
  BY DEF Z!Answers
<1>10. CASE a = "reaches"
  <2>1. target' = spot /\ tally' = tally /\ turn' = Z!Onward /\ spot' = spot
    BY <1>8, <1>10
  <2>2. turn' \in {"hit", "sample", "act"} /\ (turn' = "act" => (Z!NeedsStability(plan) => strict))
    BY <2>1, OnwardIs
  <2>3. target' # 0 /\ spot' \in Nat \ {0} /\ tally' \subseteq {"unknown", "occluded"}
    BY <1>2, <2>1
  <2> QED
    BY <1>7, <2>2, <2>3
<1>11. CASE a # "reaches" /\ spot + 1 \in Spots
  <2>1. spot' = spot + 1 /\ turn' = "hit" /\ tally' = tally \cup {a}
    BY <1>1, <1>8, <1>11
  <2>2. spot' \in Nat \ {0} /\ tally' \subseteq {"unknown", "occluded"}
    BY <1>2, <1>9, <1>11, <2>1
  <2> QED
    BY <1>7, <2>1, <2>2
<1>12. CASE a # "reaches" /\ spot + 1 \notin Spots
  <2>1. spot' = spot /\ tally' = tally \cup {a} /\ tally' \subseteq {"unknown", "occluded"}
    BY <1>2, <1>8, <1>9, <1>12
  <2>2. CASE turn' = Z!Onward /\ "occluded" \notin tally'
    <3>1. tally' = {"unknown"}
      BY <1>9, <1>12, <2>1, <2>2
    <3> QED
      BY <1>2, <1>7, <2>1, <2>2, <3>1, OnwardIs
  <2>3. CASE turn' = "done" /\ verdict' = Z!Told(FALSE, "not_delivered")
    <3>1. verdict'.disposition = "not_delivered" /\ verdict'.ok = FALSE
      BY <2>3 DEF Z!Told
    <3>2. verdict' # Z!Told(TRUE, "delivered_verified")
      BY <3>1 DEF Z!Told
    <3>3. ~ effected' /\ ~ pending'
      BY <1>1 DEF Z!ActInv, Z!EffectsAreAnswered
    <3>4. Z!ActionabilityIsHonest'
      BY <2>3, <3>1, <3>2, <3>3
         DEF Z!ActionabilityIsHonest, Z!ReadyWhenActedOn, Z!GivenUpForGood, Z!VerdictIsTrue
    <3>5. Z!ChecksArePassed' /\ Z!EffectsAreAnswered'
      BY <1>1, <1>6, <2>3 DEF Z!ChecksArePassed, Z!EffectsAreAnswered
    <3> QED
      BY <1>1, <1>2, <1>5, <2>1, <3>4, <3>5 DEF Z!ActInv
  <2> QED
    BY <1>8, <1>12, <2>2, <2>3
<1> QED
  BY <1>10, <1>11, <1>12

LEMMA BeforeOnActs ==
  ASSUME Z!ActInv, Z!Before
  PROVE  Z!ActInv'
<1>1. /\ turn = "act" /\ turn' = "execute"
      /\ UNCHANGED <<plan, element, evidence, strict, samples, spot, tally, target, held, answer,
                     effected, pending>>
  BY DEF Z!Before, Z!looking
<1>2. Z!HeldCoversTheEvidence' /\ Z!ChecksArePassed'
  BY <1>1 DEF Z!ActInv, Z!HeldCoversTheEvidence, Z!ChecksArePassed
<1> QED
  BY <1>1, <1>2, CheckParts DEF Z!ActInv

\* The verdict when the command is done, and its effects.
LEMMA DoneOnActs ==
  ASSUME Z!ActInv, turn' = "done", UNCHANGED plan, element' \in Z!Elements,
         evidence' \in Z!Evidences, samples' \in [count : Nat, place : Nat],
         spot' \in Nat \ {0}, tally' \subseteq {"unknown", "occluded"},
         strict' => samples'.count = 3, answer'.disposition \in Z!Dispositions,
         verdict'.disposition # "denied",
         verdict'.disposition = "not_delivered" => ~ effected' /\ ~ pending',
         verdict' = Z!Told(TRUE, "delivered_verified") /\ Z!ReadsBack(plan.action) => met'
  PROVE  Z!ActInv'
<1>1. Z!ActionabilityIsHonest'
  BY DEF Z!ActionabilityIsHonest, Z!ReadyWhenActedOn, Z!GivenUpForGood, Z!VerdictIsTrue
<1>2. Z!HeldCoversTheEvidence' /\ Z!ChecksArePassed' /\ Z!EffectsAreAnswered'
  BY DEF Z!HeldCoversTheEvidence, Z!ChecksArePassed, Z!EffectsAreAnswered
<1> QED
  BY <1>1, <1>2 DEF Z!ActInv

LEMMA EffectIsAValue ==
  ASSUME Z!ActInv, element.value # 2
  PROVE  [element EXCEPT !.value = Z!Effect(@)] \in Z!Elements
<1>1. element.value \in {0, 1} /\ element \in Z!Elements
  BY DEF Z!ActInv, Z!Elements, Z!Values
<1>2. Z!Effect(element.value) \in Z!Values
  BY <1>1 DEF Z!Effect, Z!Values
<1> QED
  BY <1>1, <1>2 DEF Z!Elements

LEMMA ExecuteOnActs ==
  ASSUME Z!ActInv, Z!Execute
  PROVE  Z!ActInv'
<1>1. turn \in {"execute", "act"} /\ Z!Forget /\ UNCHANGED <<plan, prior>>
  BY DEF Z!Execute
<1>2. ~ effected /\ ~ pending
  BY <1>1 DEF Z!ActInv, Z!EffectsAreAnswered
<1>3. PICK ok \in BOOLEAN, d \in {"not_delivered", "unknown", "delivery_uncertain",
                                  "delivered_unverified", "delivered_verified"} :
       /\ ok => d \notin {"unknown", "delivery_uncertain"}
       /\ ~ ok => d # "delivered_verified"
       /\ answer' = Z!Told(ok, d)
       /\ \/ /\ d # "not_delivered" /\ effected' = TRUE /\ pending' = FALSE
             /\ element' = IF Z!ReadsBack(plan.action) /\ element.value # 2
                           THEN [element EXCEPT !.value = Z!Effect(@)] ELSE element
          \/ /\ d # "not_delivered" /\ Z!ReadsBack(plan.action) /\ pending' = TRUE
             /\ UNCHANGED <<element, effected>>
          \/ UNCHANGED <<element, effected, pending>>
       /\ IF Z!ReadsBack(plan.action) /\ (ok \/ d # "not_delivered")
          THEN turn' = "readback" /\ UNCHANGED verdict
          ELSE turn' = "done" /\ verdict' = answer'
       /\ met' = (Z!Wanted(element.value) \/ Z!Wanted(element'.value))
  BY DEF Z!Execute
<1>4. answer'.disposition = d /\ answer'.ok = ok /\ d \in Z!Dispositions /\ d # "denied"
  BY <1>3 DEF Z!Told, Z!Dispositions
<1>5. element' \in Z!Elements
  BY <1>3, EffectIsAValue DEF Z!ActInv
<1>6. d = "not_delivered" => ~ effected' /\ ~ pending'
  BY <1>2, <1>3
<1>7. CASE turn' = "done" /\ verdict' = answer'
  <2>1. Z!ReadsBack(plan.action) => ok = FALSE
    BY <1>3, <1>7
  <2>2. verdict'.disposition = d /\ verdict'.ok = ok
    BY <1>4, <1>7
  <2>3. verdict' = Z!Told(TRUE, "delivered_verified") => verdict'.ok = TRUE
    BY DEF Z!Told
  <2> QED
    BY <1>1, <1>4, <1>5, <1>6, <1>7, <2>1, <2>2, <2>3, ForgottenTypes, DoneOnActs
<1>8. CASE Z!ReadsBack(plan.action) /\ turn' = "readback"
  <2>1. Z!Wanted(element.value)' = Z!Wanted(element'.value)
    BY <1>1 DEF Z!Wanted
  <2>2. Z!EffectsAreAnswered'
    BY <1>1, <1>3, <1>4, <1>6, <1>8, <2>1 DEF Z!EffectsAreAnswered
  <2>3. Z!HeldCoversTheEvidence' /\ Z!ChecksArePassed' /\ Z!ActionabilityIsHonest'
    BY <1>1, <1>8, ForgottenTypes
       DEF Z!HeldCoversTheEvidence, Z!ChecksArePassed, Z!ActionabilityIsHonest, Z!ReadyWhenActedOn,
           Z!GivenUpForGood, Z!VerdictIsTrue
  <2>4. plan' \in Z!Plans /\ answer'.disposition \in Z!Dispositions
    BY <1>1, <1>4 DEF Z!ActInv
  <2> QED
    BY <1>1, <1>5, <2>2, <2>3, <2>4, ForgottenTypes DEF Z!ActInv
<1> QED
  BY <1>3, <1>7, <1>8

LEMMA ReadbackOnActs ==
  ASSUME Z!ActInv, Z!Readback
  PROVE  Z!ActInv'
<1>1. /\ turn = "readback" /\ turn' = "done"
      /\ UNCHANGED <<plan, element, evidence, strict, samples, spot, tally, answer, effected,
                     pending, met>>
  BY DEF Z!Readback, Z!looking, Z!acting
<1>2. /\ answer.disposition = "not_delivered" => ~ effected /\ ~ pending
      /\ answer.disposition # "denied"
      /\ Z!Wanted(element.value) => met
  BY <1>1 DEF Z!ActInv, Z!EffectsAreAnswered
<1>3. ASSUME verdict'.disposition # "denied",
             verdict'.disposition = "not_delivered" => answer.disposition = "not_delivered",
             verdict' = Z!Told(TRUE, "delivered_verified") => met
      PROVE  Z!ActInv'
  <2>1. /\ element' \in Z!Elements /\ evidence' \in Z!Evidences
        /\ samples' \in [count : Nat, place : Nat]
        /\ spot' \in Nat \ {0} /\ tally' \subseteq {"unknown", "occluded"}
        /\ strict' => samples'.count = 3
        /\ answer'.disposition \in Z!Dispositions
    BY <1>1 DEF Z!ActInv, Z!ChecksArePassed
  <2> QED
    BY <1>1, <1>2, <1>3, <2>1, DoneOnActs
<1>4. \A x \in {"denied", "none", "not_delivered", "unknown", "delivery_uncertain", "delivered_unverified",
                "delivered_verified"} :
        /\ Z!Told(TRUE, x).disposition = x /\ Z!Told(TRUE, x).ok = TRUE
        /\ Z!Told(FALSE, x).disposition = x /\ Z!Told(FALSE, x).ok = FALSE
  BY DEF Z!Told
<1>5. /\ Z!VerificationError.disposition \in {"not_delivered", "delivered_unverified"}
      /\ Z!VerificationError.disposition = "not_delivered" => answer.disposition = "not_delivered"
      /\ Z!VerificationError.ok = FALSE
  BY DEF Z!VerificationError, Z!Told
<1>6. CASE ~ answer.ok /\ verdict' = answer
  BY <1>2, <1>3, <1>4, <1>6
<1>7. CASE verdict' = Z!VerificationError
  BY <1>3, <1>4, <1>5, <1>7
<1>8. CASE verdict' = Z!WithVerified /\ Z!Judged(element.value) = "yes"
  <2>1. Z!Wanted(element.value)
    BY <1>8 DEF Z!Judged
  <2>2. verdict'.disposition \in {"delivered_verified", answer.disposition}
    BY <1>4, <1>8 DEF Z!WithVerified
  <2> QED
    BY <1>2, <1>3, <2>1, <2>2
<1>9. CASE verdict' = Z!WithUnverified
  <2>1. verdict'.disposition # "delivered_verified"
        /\ verdict'.disposition \in {"delivered_unverified", answer.disposition}
    BY <1>4, <1>9 DEF Z!WithUnverified
  <2> QED
    BY <1>2, <1>3, <1>4, <2>1
<1>10. Z!Judged(Z!NoValue) = "unknown"
  BY DEF Z!Judged
<1>11. \A v : Z!Judged(v) \in {"yes", "no", "unknown"}
  BY DEF Z!Judged
<1> QED
  BY <1>6, <1>7, <1>8, <1>9, <1>10, <1>11 DEF Z!Readback

\* The element changes by itself.
LEMMA ShakesAreElements ==
  ASSUME Z!ActInv, NEW e \in Z!Changes
  PROVE  /\ e \in Z!Elements
         /\ turn \in {"look", "judge", "sample", "hit", "act", "readback"}
<1>1. element \in Z!Elements
  BY DEF Z!ActInv
<1>2. CASE turn \in {"act", "readback"} /\ Z!ReadsBack(plan.action)
  BY <1>1, <1>2 DEF Z!Changes, Z!Elements
<1>3. CASE turn = "sample" \/ (turn = "look" /\ strict)
  <2>1. e \in {[element EXCEPT !.place = @ + 1], [element EXCEPT !.same = FALSE],
               [element EXCEPT !.enabled = ~ @], [element EXCEPT !.hidden = ~ @]}
    BY <1>3 DEF Z!Changes
  <2>2. [element EXCEPT !.place = @ + 1] \in Z!Elements
    BY <1>1 DEF Z!Elements
  <2>4. \A b \in BOOLEAN : [element EXCEPT !.same = b] \in Z!Elements
    BY <1>1 DEF Z!Elements
  <2>5. [element EXCEPT !.same = FALSE] \in Z!Elements
    BY <2>4
  <2>3. /\ [element EXCEPT !.enabled = ~ @] \in Z!Elements
        /\ [element EXCEPT !.hidden = ~ @] \in Z!Elements
    BY <1>1 DEF Z!Elements
  <2> QED
    BY <1>3, <2>1, <2>2, <2>3, <2>5
<1>4. CASE turn = "judge"
  <2>1. e \in {[element EXCEPT !.out = ~ @], [element EXCEPT !.hidden = ~ @]}
    BY <1>4 DEF Z!Changes
  <2> QED
    BY <1>1, <1>4, <2>1 DEF Z!Elements
<1>5. CASE turn = "hit"
  <2>1. \/ e = [element EXCEPT !.place = @ + 1]
        \/ \E S0 \in SUBSET Spots : e = [element EXCEPT !.covered = S0]
    BY <1>5 DEF Z!Changes
  <2>2. \A S0 \in SUBSET Spots : S0 \in SUBSET (Spots \cup {1})
    OBVIOUS
  <2> QED
    BY <1>1, <1>5, <2>1, <2>2 DEF Z!Elements
<1> QED
  BY <1>2, <1>3, <1>4, <1>5 DEF Z!Changes

LEMMA ShakeOnActs ==
  ASSUME Z!ActInv, Z!Shake
  PROVE  Z!ActInv'
<1>1. /\ UNCHANGED <<plan, turn, evidence, strict, samples, spot, tally, target,
                     prior, answer, pending, effected, verdict>>
      /\ element' \in Z!Changes
      /\ held' = IF turn \in {"judge", "hit"} THEN held \cup Z!Truly(element') ELSE held
      /\ met' = (met \/ (turn = "readback" /\ Z!Wanted(element'.value)))
  BY DEF Z!Shake
<1>2. element' \in Z!Elements /\ turn \in {"look", "judge", "sample", "hit", "act", "readback"}
  BY <1>1, ShakesAreElements
<1>3. held \subseteq held'
  BY <1>1
<1>4. Z!HeldCoversTheEvidence'
  <2>1. Z!Truly(element)' = Z!Truly(element')
    OBVIOUS
  <2> QED
    BY <1>1, <1>3, <2>1 DEF Z!ActInv, Z!HeldCoversTheEvidence
<1>5. Z!ChecksArePassed'
  BY <1>1 DEF Z!ActInv, Z!ChecksArePassed
<1>6. CASE turn # "readback"
  BY <1>1, <1>2, <1>4, <1>5, <1>6, CheckParts DEF Z!ActInv
<1>7. CASE turn = "readback"
  <2>1. Z!Wanted(element.value)' = Z!Wanted(element'.value)
    BY <1>1 DEF Z!Wanted
  <2>2. Z!EffectsAreAnswered'
    BY <1>1, <1>7, <2>1 DEF Z!ActInv, Z!EffectsAreAnswered
  <2>3. Z!ActionabilityIsHonest'
    BY <1>1, <1>7
       DEF Z!ActionabilityIsHonest, Z!ReadyWhenActedOn, Z!GivenUpForGood, Z!VerdictIsTrue
  <2> QED
    BY <1>1, <1>2, <1>4, <1>5, <2>2, <2>3 DEF Z!ActInv
<1> QED
  BY <1>6, <1>7

LEMMA EffectComesOnActs ==
  ASSUME Z!ActInv, Z!EffectComes
  PROVE  Z!ActInv'
<1>1. /\ UNCHANGED <<plan, turn, evidence, strict, samples, spot, tally, target, held,
                     prior, answer, verdict>>
      /\ turn = "readback" /\ pending
      /\ element' = IF element.value = 2 THEN element ELSE [element EXCEPT !.value = Z!Effect(@)]
      /\ met' = (met \/ Z!Wanted(element'.value))
  BY DEF Z!EffectComes, Z!looking
<1>2. element' \in Z!Elements
  BY <1>1, EffectIsAValue DEF Z!ActInv
<1>3. Z!HeldCoversTheEvidence' /\ Z!ChecksArePassed' /\ Z!ActionabilityIsHonest'
  BY <1>1
     DEF Z!ActInv, Z!HeldCoversTheEvidence, Z!ChecksArePassed, Z!ActionabilityIsHonest,
         Z!ReadyWhenActedOn, Z!GivenUpForGood, Z!VerdictIsTrue
<1>4. Z!Wanted(element.value)' = Z!Wanted(element'.value)
  BY <1>1 DEF Z!Wanted
<1>5. Z!EffectsAreAnswered'
  BY <1>1, <1>4 DEF Z!ActInv, Z!EffectsAreAnswered
<1> QED
  BY <1>1, <1>2, <1>3, <1>5 DEF Z!ActInv

LEMMA ActInvIsKept ==
  ASSUME Z!ActInv, [Z!Next]_Z!vars
  PROVE  Z!ActInv'
<1>1. CASE UNCHANGED Z!vars
  <2>1. /\ UNCHANGED <<plan, element, shakes, turn, evidence, strict, samples, spot, tally, target>>
        /\ UNCHANGED <<held, prior, answer, pending, effected, met, verdict>>
    BY <1>1 DEF Z!vars, Z!looking, Z!acting
  <2>2. Z!HeldCoversTheEvidence' /\ Z!ChecksArePassed'
    BY <2>1 DEF Z!ActInv, Z!HeldCoversTheEvidence, Z!ChecksArePassed
  <2>3. Z!EffectsAreAnswered'
    BY <2>1 DEF Z!ActInv, Z!EffectsAreAnswered, Z!Wanted
  <2>4. Z!ActionabilityIsHonest'
    BY <2>1
       DEF Z!ActInv, Z!ActionabilityIsHonest, Z!ReadyWhenActedOn, Z!GivenUpForGood, Z!VerdictIsTrue
  <2> QED
    BY <2>1, <2>2, <2>3, <2>4 DEF Z!ActInv
<1>2. CASE Z!Unanswered
  BY <1>2, RefuseOnActs DEF Z!Unanswered
<1>3. CASE Z!Next /\ ~ Z!Unanswered
  BY <1>3, LookOnActs, JudgeOnActs, SampleOnActs, HitOnActs, BeforeOnActs, ExecuteOnActs,
     ReadbackOnActs, ShakeOnActs, EffectComesOnActs DEF Z!Next
<1> QED
  BY <1>1, <1>2, <1>3

-----------------------------------------------------------------------------
(* Windows *)

ASSUME UserStepsAssumption == MaxUserSteps \in Nat

LEMMA NothingIsReported ==
  X!NoReport.ok = FALSE /\ X!NoReport.delivery = "none"
BY DEF X!NoReport

LEMMA WindowInvStarts ==
  ASSUME X!Init
  PROVE  X!WindowInv
<1>1. X!ReportsAreTrue
  BY NothingIsReported DEF X!Init, X!ReportsAreTrue
<1>2. X!SightingsAreKept
  BY DEF X!Init, X!SightingsAreKept, X!Sights
<1>3. published \subseteq 1 .. 3
  <2>1. PICK W \in SUBSET {1, 2} : published = W \cup {3}
    BY DEF X!Init
  <2> QED
    BY <2>1
<1> QED
  BY <1>1, <1>2, <1>3
     DEF X!Init, X!WindowInv, X!StagesAreOfTheCommand, X!EffectsAreCounted, X!WindowsAreHonest,
         X!OthersOnlyByTitle, X!Before, X!FocusStages, X!ChangeStages

\* A command that fails, one that goes on, and one that is done.
LEMMA FailedTruly ==
  ASSUME NEW d, d # "none", X!End(FALSE, d), d = "not_delivered" => effects' = {}
  PROVE  stage' = "done" /\ report' # X!NoReport /\ X!ReportsAreTrue'
<1>1. stage' = "done" /\ report' = [ok |-> FALSE, delivery |-> d]
  BY DEF X!End
<1>2. report'.ok = FALSE /\ report'.delivery = d
  BY <1>1
<1>3. report' # X!NoReport
  BY <1>2, NothingIsReported
<1> QED
  BY <1>1, <1>2, <1>3 DEF X!ReportsAreTrue

LEMMA GoesOnTruly ==
  ASSUME X!WindowInv, stage # "done", report' = report
  PROVE  report' = X!NoReport /\ X!ReportsAreTrue'
<1>1. report' = X!NoReport
  BY DEF X!WindowInv
<1> QED
  BY <1>1, NothingIsReported DEF X!ReportsAreTrue

LEMMA DoneTruly ==
  ASSUME X!End(TRUE, "verified"),
         op' = "change" => "position" \in effects',
         op' = "maximize" => {"position", "size"} \subseteq effects',
         op' = "focus" => "focused" \in sightings',
         op' = "headed" => front' /\ (target' = 1 => "main" \in sightings'),
         op' \in {"change", "maximize", "focus", "headed"}
  PROVE  stage' = "done" /\ report' # X!NoReport /\ X!ReportsAreTrue'
<1>1. stage' = "done" /\ report' = [ok |-> TRUE, delivery |-> "verified"]
  BY DEF X!End
<1>2. report'.ok = TRUE /\ report'.delivery = "verified"
  BY <1>1
<1>3. report' # X!NoReport
  BY <1>2, NothingIsReported
<1> QED
  BY <1>1, <1>2, <1>3 DEF X!ReportsAreTrue

\* What is seen now counts from now on.
LEMMA SawIsKept ==
  ASSUME X!SightingsAreKept, X!Saw(front', main'), target' = target,
         stage' \in {"verify", "confirm"} => stage = stage'
  PROVE  X!SightingsAreKept'
BY DEF X!SightingsAreKept, X!Saw, X!Sights

\* What the application does when it is told something.
LEMMA TellIsKept ==
  ASSUME X!WindowInv, target # 0, NEW e, NEW yes, X!Tell(e, yes), target' = target,
         yes \in {"done", "unsure", "unsupported", "refused"},
         stage' \in {"verify", "confirm"} => stage = stage'
  PROVE  /\ main' \in 1 .. 3 /\ fate' = fate /\ effects' \in {effects, effects \cup {e}}
         /\ yes \in {"unsupported", "refused"} => effects' = effects
         /\ X!SightingsAreKept'
<1>1. target \in 1 .. 3 /\ main \in 1 .. 3
  BY DEF X!WindowInv
<1>2. CASE UNCHANGED X!deskVars
  BY <1>1, <1>2 DEF X!deskVars, X!WindowInv, X!SightingsAreKept
<1>3. CASE X!Brings(e) /\ yes \in {"done", "unsure"}
  <2>1. effects' = effects \cup {e} /\ fate' = fate /\ X!Saw(front', main')
    BY <1>3 DEF X!Brings
  <2>2. main' = target \/ main' = main
    BY <1>3 DEF X!Brings
  <2>3. X!SightingsAreKept'
    BY <2>1, SawIsKept DEF X!WindowInv
  <2> QED
    BY <1>1, <1>3, <2>1, <2>2, <2>3
<1> QED
  BY <1>2, <1>3 DEF X!Tell

\* The invariant after a step, from its parts.
LEMMA WindowParts ==
  ASSUME X!WindowInv, UNCHANGED <<op, published, bridge, twin>>, target' = target,
         fate' \in {"open", "closed", "replaced"}, fate' = "open" => fate = "open",
         main' \in 1 .. 3, delivered' \in 0 .. 1, confirmations' \in 0 .. 1,
         (stage' = "done") = (report' # X!NoReport),
         X!StagesAreOfTheCommand', X!EffectsAreCounted', X!SightingsAreKept', X!ReportsAreTrue'
  PROVE  X!WindowInv'
<1>1. X!OthersOnlyByTitle'
  BY DEF X!WindowInv, X!WindowsAreHonest, X!OthersOnlyByTitle
<1> QED
  BY <1>1 DEF X!WindowInv, X!WindowsAreHonest

LEMMA UserStepOnWindows ==
  ASSUME X!WindowInv, X!UserStep
  PROVE  X!WindowInv'
<1>1. /\ UNCHANGED <<op, published, bridge, twin>> /\ target' = target /\ stage' = stage
      /\ delivered' = delivered /\ confirmations' = confirmations /\ report' = report
      /\ effects' = effects /\ report = X!NoReport /\ X!Saw(front', main')
  BY DEF X!UserStep, X!choiceVars
<1>2. /\ fate' \in {"open", "closed", "replaced"} /\ (fate' = "open" => fate = "open")
      /\ main' \in 1 .. 3
  <2>1. fate' \in {"open", "closed", "replaced"} /\ (fate' = "open" => fate = "open")
    BY DEF X!UserStep, X!WindowInv
  <2>2. main' \in {1, 2, 3, main}
    BY DEF X!UserStep
  <2>3. main \in 1 .. 3
    BY DEF X!WindowInv
  <2> QED
    BY <2>1, <2>2, <2>3
<1>3. stage # "done"
  BY <1>1 DEF X!WindowInv
<1>4. report' = X!NoReport /\ X!ReportsAreTrue'
  BY <1>1, <1>3, GoesOnTruly
<1>5. X!StagesAreOfTheCommand' /\ X!EffectsAreCounted'
  BY <1>1 DEF X!WindowInv, X!StagesAreOfTheCommand, X!EffectsAreCounted
<1>6. X!SightingsAreKept'
  BY <1>1, SawIsKept DEF X!WindowInv
<1>7. delivered' \in 0 .. 1 /\ confirmations' \in 0 .. 1
  BY <1>1 DEF X!WindowInv
<1>8. (stage' = "done") = (report' # X!NoReport)
  BY <1>1, <1>3, <1>4
<1> QED
  BY <1>1, <1>2, <1>4, <1>5, <1>6, <1>7, <1>8, WindowParts

LEMMA LateOnWindows ==
  ASSUME X!WindowInv, X!Late
  PROVE  X!WindowInv'
<1>1. /\ UNCHANGED <<op, published, bridge, twin>> /\ target' = target /\ stage' = stage
      /\ delivered' = delivered /\ confirmations' = confirmations /\ report' = report
      /\ stage \in {"front wait", "raise wait", "uncertain wait", "position wait", "size wait"}
  BY DEF X!Late, X!choiceVars
<1>2. PICK e : X!Brings(e)
  BY DEF X!Late
<1>3. target # 0
  BY <1>1 DEF X!WindowInv, X!StagesAreOfTheCommand, X!FocusStages, X!ChangeStages
<1>4. X!Tell(e, "done")
  BY <1>2 DEF X!Tell, X!Late
<1>5. /\ main' \in 1 .. 3 /\ fate' = fate /\ effects' \in {effects, effects \cup {e}}
      /\ X!SightingsAreKept'
  BY <1>1, <1>3, <1>4, TellIsKept
<1>6. report' = X!NoReport /\ X!ReportsAreTrue'
  BY <1>1, GoesOnTruly
<1>7. X!StagesAreOfTheCommand' /\ X!EffectsAreCounted'
  BY <1>1, <1>5
     DEF X!WindowInv, X!StagesAreOfTheCommand, X!EffectsAreCounted, X!Before
<1>8. /\ delivered' \in 0 .. 1 /\ confirmations' \in 0 .. 1
      /\ fate' \in {"open", "closed", "replaced"}
  BY <1>1, <1>5 DEF X!WindowInv
<1>9. (stage' = "done") = (report' # X!NoReport)
  BY <1>1, <1>6
<1> QED
  BY <1>1, <1>5, <1>6, <1>7, <1>8, <1>9, WindowParts

\* A command that ends, and one that goes on, when nothing is told.
LEMMA EndOnWindows ==
  ASSUME X!WindowInv, NEW b, NEW d, X!End(b, d), report' # X!NoReport, X!ReportsAreTrue',
         fate' = fate, main' \in 1 .. 3, X!SightingsAreKept'
  PROVE  X!WindowInv'
<1>1. /\ UNCHANGED <<op, published, bridge, twin>> /\ target' = target /\ stage' = "done"
      /\ delivered' = delivered /\ confirmations' = confirmations
  BY DEF X!End, X!choiceVars
<1>2. X!StagesAreOfTheCommand' /\ X!EffectsAreCounted'
  BY <1>1 DEF X!StagesAreOfTheCommand, X!EffectsAreCounted, X!Before, X!FocusStages, X!ChangeStages
<1>3. /\ delivered' \in 0 .. 1 /\ confirmations' \in 0 .. 1
      /\ fate' \in {"open", "closed", "replaced"}
  BY <1>1 DEF X!WindowInv
<1>4. (stage' = "done") = (report' # X!NoReport)
  BY <1>1
<1> QED
  BY <1>1, <1>2, <1>3, <1>4, WindowParts

LEMMA DeskIsKept ==
  ASSUME X!WindowInv, UNCHANGED X!deskVars, target' = target,
         stage' \in {"verify", "confirm"} /\ target = 1 => "main" \in sightings
  PROVE  /\ fate' = fate /\ main' \in 1 .. 3 /\ effects' = effects /\ front' = front
         /\ sightings' = sightings /\ X!SightingsAreKept'
BY DEF X!deskVars, X!WindowInv, X!SightingsAreKept

LEMMA FailOnWindows ==
  ASSUME X!WindowInv, NEW d, d # "none", X!Fail(d), d = "not_delivered" => effects = {}
  PROVE  X!WindowInv'
<1>1. X!End(FALSE, d) /\ UNCHANGED X!deskVars /\ stage' = "done" /\ target' = target
  BY DEF X!Fail, X!End
<1>2. fate' = fate /\ main' \in 1 .. 3 /\ effects' = effects /\ X!SightingsAreKept'
  BY <1>1, DeskIsKept
<1>3. report' # X!NoReport /\ X!ReportsAreTrue'
  BY <1>1, <1>2, FailedTruly
<1> QED
  BY <1>1, <1>2, <1>3, EndOnWindows

LEMMA GotoOnWindows ==
  ASSUME X!WindowInv, stage # "done", NEW s, s # "done", X!Goto(s), target' = target,
         UNCHANGED X!deskVars, s \in {"verify", "confirm"} /\ target = 1 => "main" \in sightings,
         delivered' \in 0 .. 1, confirmations' \in 0 .. 1,
         X!StagesAreOfTheCommand', X!EffectsAreCounted'
  PROVE  X!WindowInv'
<1>1. /\ UNCHANGED <<op, published, bridge, twin>> /\ stage' = s /\ report' = report
  BY DEF X!Goto, X!choiceVars
<1>2. fate' = fate /\ main' \in 1 .. 3 /\ X!SightingsAreKept'
  BY <1>1, DeskIsKept
<1>3. report' = X!NoReport /\ X!ReportsAreTrue'
  BY <1>1, GoesOnTruly
<1>4. (stage' = "done") = (report' # X!NoReport) /\ fate' \in {"open", "closed", "replaced"}
  BY <1>1, <1>2, <1>3 DEF X!WindowInv
<1> QED
  BY <1>1, <1>2, <1>3, <1>4, WindowParts

\* A change that is told.
LEMMA ToldOnWindows ==
  ASSUME X!WindowInv, stage # "done", target # 0, NEW e, NEW next, X!Told(e, next),
         delivered = 0 => effects = {},
         next \in {"front wait", "raise wait", "position wait", "size wait"},
         next \in {"front wait", "raise wait"} => op \in {"focus", "headed"},
         next = "position wait" => op \in {"change", "maximize"},
         next = "size wait" => op = "maximize" /\ delivered = 1 /\ "position" \in effects
  PROVE  X!WindowInv'
<1>1. CASE X!Tell(e, "done") /\ X!Goto(next) /\ X!Stay
  <2>1. /\ UNCHANGED <<op, published, bridge, twin>> /\ stage' = next /\ report' = report
        /\ target' = target /\ delivered' = delivered /\ confirmations' = confirmations
    BY <1>1 DEF X!Goto, X!Stay, X!choiceVars
  <2>2. /\ main' \in 1 .. 3 /\ fate' = fate /\ effects' \in {effects, effects \cup {e}}
        /\ X!SightingsAreKept'
    BY <1>1, <2>1, TellIsKept
  <2>3. report' = X!NoReport /\ X!ReportsAreTrue'
    BY <2>1, GoesOnTruly
  <2>4. X!StagesAreOfTheCommand' /\ X!EffectsAreCounted'
    BY <2>1, <2>2
       DEF X!StagesAreOfTheCommand, X!EffectsAreCounted, X!Before, X!FocusStages, X!ChangeStages
  <2>5. /\ (stage' = "done") = (report' # X!NoReport) /\ fate' \in {"open", "closed", "replaced"}
        /\ delivered' \in 0 .. 1 /\ confirmations' \in 0 .. 1
    BY <2>1, <2>2, <2>3 DEF X!WindowInv
  <2> QED
    BY <2>1, <2>2, <2>3, <2>4, <2>5, WindowParts
<1>2. ASSUME NEW yes \in {"done", "unsure", "unsupported", "refused"}, X!Tell(e, yes),
             NEW d, d # "none", X!End(FALSE, d),
             d = "not_delivered" => delivered = 0 /\ yes \in {"unsupported", "refused"}
      PROVE  X!WindowInv'
  <2>1. stage' = "done" /\ target' = target
    BY <1>2 DEF X!End
  <2>2. /\ main' \in 1 .. 3 /\ fate' = fate /\ X!SightingsAreKept'
        /\ yes \in {"unsupported", "refused"} => effects' = effects
    BY <1>2, <2>1, TellIsKept
  <2>3. report' # X!NoReport /\ X!ReportsAreTrue'
    BY <1>2, <2>2, FailedTruly
  <2> QED
    BY <1>2, <2>2, <2>3, EndOnWindows
<1>3. X!Annotated("not_delivered") = IF delivered = 0 THEN "not_delivered" ELSE "delivered_unverified"
  BY DEF X!Annotated
<1> QED
  BY <1>1, <1>2, <1>3 DEF X!Told

\* What is known at each stage.
LEMMA WindowFacts ==
  ASSUME X!WindowInv
  PROVE  /\ target \in 0 .. 3 /\ delivered \in 0 .. 1 /\ confirmations \in 0 .. 1
         /\ published \subseteq 1 .. 3 /\ main \in 1 .. 3
         /\ stage \in {"start", "locate", "lookup", "front", "position"}
            => effects = {} /\ delivered = 0
         /\ stage \in {"raise", "main"} /\ delivered = 0 => effects = {}
         /\ stage \in {"size", "size wait"}
            => delivered = 1 /\ "position" \in effects /\ op = "maximize"
         /\ stage \in {"front", "front wait", "raise", "main", "raise wait", "uncertain wait", "verify",
                       "confirm"} => op \in {"focus", "headed"} /\ target # 0
         /\ stage \in {"position", "position wait", "size", "size wait"}
            => op \in {"change", "maximize"} /\ target # 0
         /\ stage = "confirm" => op = "focus"
         /\ main = 1 => "main" \in sightings
         /\ front /\ main = 1 => "focused" \in sightings
         /\ stage \in {"verify", "confirm"} /\ target = 1 => "main" \in sightings
BY DEF X!WindowInv, X!StagesAreOfTheCommand, X!EffectsAreCounted, X!SightingsAreKept, X!Before,
       X!FocusStages, X!ChangeStages

\* A stage that follows another, in the same command.
LEMMA StageFollows ==
  ASSUME X!WindowInv, UNCHANGED <<op, effects>>, target' = target,
         \/ stage' \in {"start", "locate", "lookup"} /\ effects = {} /\ delivered' = 0
         \/ /\ stage' \in {"front", "front wait", "raise", "main", "raise wait", "uncertain wait",
                           "verify"}
            /\ op \in {"focus", "headed"} /\ target # 0
            /\ stage' \in {"raise", "main"} /\ delivered' = 0 => effects = {}
            /\ stage' = "front" => effects = {} /\ delivered' = 0
         \/ stage' = "confirm" /\ op = "focus" /\ target # 0
         \/ /\ stage' = "size" /\ op = "maximize" /\ target # 0
            /\ delivered' = 1 /\ "position" \in effects
  PROVE  X!StagesAreOfTheCommand' /\ X!EffectsAreCounted'
BY DEF X!StagesAreOfTheCommand, X!EffectsAreCounted, X!Before, X!FocusStages, X!ChangeStages

LEMMA VerifyOnWindows ==
  ASSUME X!WindowInv, NEW from, NEW to, X!Verify(from, to), from \in {"start", "locate"},
         to \in {"locate", "lookup"}
  PROVE  X!WindowInv'
<1>1. CASE X!Goto(to) /\ X!Stay /\ UNCHANGED X!deskVars
  <2>1. /\ UNCHANGED <<op, effects>> /\ target' = target /\ stage' = to /\ delivered' = 0
        /\ effects = {} /\ delivered' \in 0 .. 1 /\ confirmations' \in 0 .. 1 /\ stage = from
    BY <1>1, WindowFacts DEF X!Verify, X!Goto, X!Stay, X!choiceVars, X!deskVars
  <2> QED
    BY <1>1, <2>1, StageFollows, GotoOnWindows
<1>2. CASE X!Fail("unknown")
  BY <1>2, FailOnWindows
<1> QED
  BY <1>1, <1>2 DEF X!Verify

LEMMA ChoosingWindows ==
  ASSUME X!WindowInv, X!Revalidate \/ X!Start \/ X!Locate
  PROVE  X!WindowInv'
<1>1. CASE X!Start
  <2>1. /\ UNCHANGED <<op, effects>> /\ target' = target /\ stage' = "locate" /\ delivered' = 0
        /\ effects = {} /\ delivered' \in 0 .. 1 /\ confirmations' \in 0 .. 1 /\ stage = "start"
        /\ X!Goto("locate") /\ UNCHANGED X!deskVars
    BY <1>1, WindowFacts DEF X!Start, X!Goto, X!Stay, X!choiceVars, X!deskVars
  <2> QED
    BY <2>1, StageFollows, GotoOnWindows
<1>2. CASE X!Revalidate \/ X!Locate
  BY <1>2, VerifyOnWindows DEF X!Revalidate, X!Locate
<1> QED
  BY <1>1, <1>2

LEMMA LookUpOnWindows ==
  ASSUME X!WindowInv, X!LookUp
  PROVE  X!WindowInv'
<1>1. stage = "lookup" /\ effects = {} /\ delivered = 0
  BY WindowFacts DEF X!LookUp
<1> DEFINE candidates == IF bridge /\ 1 \in X!Shown THEN {1} ELSE {w \in X!Shown : X!Same(w)}
<1>2. CASE /\ target' \in candidates
           /\ X!Goto(IF op \in {"focus", "headed"} THEN "front" ELSE "position")
           /\ UNCHANGED <<delivered, confirmations>> /\ UNCHANGED X!deskVars
  <2>1. /\ UNCHANGED <<op, published, bridge, twin>> /\ report' = report
        /\ stage' = IF op \in {"focus", "headed"} THEN "front" ELSE "position"
    BY <1>2 DEF X!Goto, X!choiceVars
  <2>2. target' \in 1 .. 3 /\ target' \in X!Shown
    <3>1. X!Shown \subseteq published
      BY DEF X!Shown
    <3>2. target' \in X!Shown
      BY <1>2
    <3> QED
      BY <3>1, <3>2, WindowFacts
  <2>3. X!OthersOnlyByTitle'
    <3>1. ASSUME target' # 1
          PROVE  twin /\ ~ (bridge /\ 1 \in published /\ fate = "open")
      <4>1. ~ (bridge /\ 1 \in X!Shown) /\ X!Same(target')
        BY <1>2, <3>1
      <4>2. twin
        BY <3>1, <4>1 DEF X!Same
      <4>3. X!Alive(1) <=> fate = "open"
        BY DEF X!Alive
      <4> QED
        BY <4>1, <4>2, <4>3 DEF X!Shown
    <3> QED
      BY <1>2, <2>1, <3>1 DEF X!OthersOnlyByTitle, X!deskVars
  <2>4. report' = X!NoReport /\ X!ReportsAreTrue'
    BY <1>1, <2>1, GoesOnTruly
  <2>5. op \in {"focus", "headed", "change", "maximize"}
    BY DEF X!WindowInv
  <2>6. X!StagesAreOfTheCommand' /\ X!EffectsAreCounted'
    BY <1>1, <1>2, <2>1, <2>2, <2>5
       DEF X!StagesAreOfTheCommand, X!EffectsAreCounted, X!Before, X!FocusStages, X!ChangeStages,
           X!deskVars
  <2>7. X!SightingsAreKept' /\ main' \in 1 .. 3 /\ fate' \in {"open", "closed", "replaced"}
    BY <1>2, <2>1 DEF X!WindowInv, X!SightingsAreKept, X!deskVars
  <2>8. /\ (stage' = "done") = (report' # X!NoReport) /\ delivered' \in 0 .. 1
        /\ confirmations' \in 0 .. 1 /\ published' \subseteq 1 .. 3 /\ target' \in 0 .. 3
    <3>1. delivered' \in 0 .. 1 /\ confirmations' \in 0 .. 1 /\ published' \subseteq 1 .. 3
      BY <1>2, <2>1 DEF X!WindowInv
    <3>2. target' \in 0 .. 3
      BY <2>2
    <3> QED
      BY <2>1, <2>4, <3>1, <3>2
  <2> QED
    BY <2>1, <2>3, <2>4, <2>5, <2>6, <2>7, <2>8 DEF X!WindowInv, X!WindowsAreHonest
<1>3. CASE X!Fail("unknown") \/ X!Fail("not_delivered")
  BY <1>1, <1>3, FailOnWindows
<1> QED
  BY <1>2, <1>3 DEF X!LookUp

LEMMA FocusAppOnWindows ==
  ASSUME X!WindowInv, X!FocusApp
  PROVE  X!WindowInv'
<1>1. /\ stage = "front" /\ effects = {} /\ delivered = 0 /\ op \in {"focus", "headed"}
      /\ target # 0
  BY WindowFacts DEF X!FocusApp
<1>2. CASE X!Goto("raise") /\ X!Stay /\ UNCHANGED X!deskVars
  <2>1. /\ UNCHANGED <<op, effects>> /\ target' = target /\ stage' = "raise"
        /\ delivered' \in 0 .. 1 /\ confirmations' \in 0 .. 1
    BY <1>2, WindowFacts DEF X!Goto, X!Stay, X!choiceVars, X!deskVars
  <2> QED
    BY <1>1, <1>2, <2>1, StageFollows, GotoOnWindows
<1>3. CASE X!Told("front", "front wait")
  BY <1>1, <1>3, ToldOnWindows
<1>4. CASE X!Fail("not_delivered")
  BY <1>1, <1>4, FailOnWindows
<1> QED
  BY <1>2, <1>3, <1>4 DEF X!FocusApp

LEMMA AppFocusedOnWindows ==
  ASSUME X!WindowInv, X!AppFocused
  PROVE  X!WindowInv'
<1>1. stage = "front wait" /\ op \in {"focus", "headed"} /\ target # 0
  BY WindowFacts DEF X!AppFocused
<1>2. CASE /\ X!Goto("raise") /\ delivered' = 1 /\ UNCHANGED <<target, confirmations>>
           /\ UNCHANGED X!deskVars
  <2>1. /\ UNCHANGED <<op, effects>> /\ target' = target /\ stage' = "raise"
    BY <1>2 DEF X!Goto, X!choiceVars, X!deskVars
  <2>2. delivered' \in 0 .. 1 /\ delivered' # 0
    BY <1>2
  <2>3. confirmations' \in 0 .. 1
    BY <1>2 DEF X!WindowInv
  <2>4. X!StagesAreOfTheCommand' /\ X!EffectsAreCounted'
    BY <1>1, <2>1, <2>2, StageFollows
  <2> QED
    BY <1>1, <1>2, <2>1, <2>2, <2>3, <2>4, GotoOnWindows
<1>3. CASE X!Fail("delivered_unverified")
  BY <1>3, FailOnWindows
<1> QED
  BY <1>2, <1>3 DEF X!AppFocused

LEMMA RaiseOnWindows ==
  ASSUME X!WindowInv, X!Raise
  PROVE  X!WindowInv'
<1>1. /\ stage = "raise" /\ (delivered = 0 => effects = {}) /\ op \in {"focus", "headed"}
      /\ target # 0
  BY WindowFacts DEF X!Raise
<1>2. ASSUME NEW yes \in {"done", "unsure", "unsupported"}, X!Tell("main", yes),
             NEW s \in {"raise wait", "uncertain wait", "main"}, X!Goto(s), X!Stay,
             s = "main" => yes = "unsupported"
      PROVE  X!WindowInv'
  <2>1. /\ UNCHANGED <<op, published, bridge, twin>> /\ stage' = s /\ report' = report
        /\ target' = target /\ delivered' = delivered /\ confirmations' = confirmations
    BY <1>2 DEF X!Goto, X!Stay, X!choiceVars
  <2>2. /\ main' \in 1 .. 3 /\ fate' = fate /\ effects' \in {effects, effects \cup {"main"}}
        /\ X!SightingsAreKept' /\ (s = "main" => effects' = effects)
    BY <1>1, <1>2, <2>1, TellIsKept
  <2>3. report' = X!NoReport /\ X!ReportsAreTrue'
    BY <1>1, <2>1, GoesOnTruly
  <2>4. X!StagesAreOfTheCommand' /\ X!EffectsAreCounted'
    BY <1>1, <2>1, <2>2
       DEF X!StagesAreOfTheCommand, X!EffectsAreCounted, X!Before, X!FocusStages, X!ChangeStages
  <2>5. /\ (stage' = "done") = (report' # X!NoReport) /\ fate' \in {"open", "closed", "replaced"}
        /\ delivered' \in 0 .. 1 /\ confirmations' \in 0 .. 1
    BY <2>1, <2>2, <2>3 DEF X!WindowInv
  <2> QED
    BY <2>1, <2>2, <2>3, <2>4, <2>5, WindowParts
<1>3. CASE X!Tell("main", "refused") /\ X!End(FALSE, X!Annotated("not_delivered"))
  <2>1. X!Told("main", "raise wait")
    BY <1>3 DEF X!Told
  <2> QED
    BY <1>1, <2>1, ToldOnWindows
<1> QED
  BY <1>2, <1>3 DEF X!Raise

LEMMA TellingChanges ==
  ASSUME X!WindowInv, X!MakeMain \/ X!SetPosition \/ X!SetSize
  PROVE  X!WindowInv'
<1>1. CASE X!MakeMain
  BY <1>1, WindowFacts, ToldOnWindows DEF X!MakeMain
<1>2. CASE stage = "position" /\ X!Told("position", "position wait")
  BY <1>2, WindowFacts, ToldOnWindows
<1>3. CASE X!Fail("unknown")
  BY <1>3, FailOnWindows
<1>4. CASE X!SetSize
  <2>1. /\ stage = "size" /\ X!Told("size", "size wait") /\ target # 0
        /\ delivered = 1 /\ "position" \in effects /\ op = "maximize"
    BY <1>4, WindowFacts DEF X!SetSize
  <2>2. delivered # 0
    <3>1. 1 # 0
      OBVIOUS
    <3> QED
      BY <2>1, <3>1, Zenon
  <2> QED
    BY <2>1, <2>2, ToldOnWindows
<1> QED
  BY <1>1, <1>2, <1>3, <1>4 DEF X!SetPosition

LEMMA RaisedOnWindows ==
  ASSUME X!WindowInv, X!Raised
  PROVE  X!WindowInv'
<1>1. stage \in {"raise wait", "uncertain wait"} /\ op \in {"focus", "headed"} /\ target # 0
  BY WindowFacts DEF X!Raised
<1>2. CASE main = target /\ X!Goto("verify") /\ X!Stay /\ UNCHANGED X!deskVars
  <2>1. /\ UNCHANGED <<op, effects>> /\ target' = target /\ stage' = "verify"
        /\ delivered' \in 0 .. 1 /\ confirmations' \in 0 .. 1
        /\ target = 1 => "main" \in sightings
    BY <1>2, WindowFacts DEF X!Goto, X!Stay, X!choiceVars, X!deskVars
  <2> QED
    BY <1>1, <1>2, <2>1, StageFollows, GotoOnWindows
<1>3. CASE X!Fail(IF stage = "uncertain wait" THEN "uncertain" ELSE "delivered_unverified")
  BY <1>3, FailOnWindows
<1> QED
  BY <1>2, <1>3 DEF X!Raised

LEMMA VerifyFocusedOnWindows ==
  ASSUME X!WindowInv, X!VerifyFocused
  PROVE  X!WindowInv'
<1>1. /\ stage = "verify" /\ op \in {"focus", "headed"} /\ target # 0
      /\ target = 1 => "main" \in sightings
  BY WindowFacts DEF X!VerifyFocused
<1>2. CASE op = "focus" /\ X!Goto("confirm") /\ X!Stay /\ UNCHANGED X!deskVars
  <2>1. /\ UNCHANGED <<op, effects>> /\ target' = target /\ stage' = "confirm"
        /\ delivered' \in 0 .. 1 /\ confirmations' \in 0 .. 1
    BY <1>2, WindowFacts DEF X!Goto, X!Stay, X!choiceVars, X!deskVars
  <2> QED
    BY <1>1, <1>2, <2>1, StageFollows, GotoOnWindows
<1>3. CASE front /\ op = "headed" /\ X!End(TRUE, "verified") /\ UNCHANGED X!deskVars
  <2>1. /\ op' = op /\ target' = target /\ stage' = "done"
    BY <1>3 DEF X!End, X!choiceVars
  <2>2. /\ fate' = fate /\ main' \in 1 .. 3 /\ front' = front /\ sightings' = sightings
        /\ X!SightingsAreKept'
    BY <1>3, <2>1, DeskIsKept
  <2>3. report' # X!NoReport /\ X!ReportsAreTrue'
    BY <1>1, <1>3, <2>1, <2>2, DoneTruly
  <2> QED
    BY <1>3, <2>2, <2>3, EndOnWindows
<1>4. CASE X!Fail("delivered_unverified")
  BY <1>4, FailOnWindows
<1> QED
  BY <1>2, <1>3, <1>4 DEF X!VerifyFocused

LEMMA ConfirmOnWindows ==
  ASSUME X!WindowInv, X!Confirm
  PROVE  X!WindowInv'
<1>1. stage = "confirm" /\ op = "focus" /\ target # 0 /\ UNCHANGED X!deskVars
      /\ (target = 1 => "main" \in sightings)
  BY WindowFacts DEF X!Confirm
<1>2. CASE /\ confirmations' \in 0 .. 1 /\ X!Goto("confirm") /\ UNCHANGED <<target, delivered>>
  <2>1. /\ UNCHANGED <<op, effects>> /\ target' = target /\ stage' = "confirm"
        /\ delivered' \in 0 .. 1
    BY <1>1, <1>2, WindowFacts DEF X!Goto, X!choiceVars, X!deskVars
  <2> QED
    BY <1>1, <1>2, <2>1, StageFollows, GotoOnWindows
<1>3. CASE X!ObservedFocused /\ X!End(TRUE, "verified")
  <2>1. /\ op' = op /\ target' = target /\ stage' = "done"
    BY <1>3 DEF X!End, X!choiceVars
  <2>2. /\ fate' = fate /\ main' \in 1 .. 3 /\ sightings' = sightings /\ X!SightingsAreKept'
    BY <1>1, <2>1, DeskIsKept
  <2>3. "focused" \in sightings
    BY <1>3, WindowFacts DEF X!ObservedFocused
  <2>4. report' # X!NoReport /\ X!ReportsAreTrue'
    BY <1>1, <1>3, <2>1, <2>2, <2>3, DoneTruly
  <2> QED
    BY <1>3, <2>2, <2>4, EndOnWindows
<1>4. CASE X!End(FALSE, "unknown")
  <2>1. X!Fail("unknown")
    BY <1>1, <1>4 DEF X!Fail
  <2> QED
    BY <2>1, FailOnWindows
<1> QED
  <2>1. 0 \in 0 .. 1 /\ 1 \in 0 .. 1
    OBVIOUS
  <2>2. CASE /\ confirmations' \in {0, 1} /\ X!Goto("confirm") /\ UNCHANGED <<target, delivered>>
    BY <1>2, <2>1, <2>2
  <2> QED
    BY <1>3, <1>4, <2>2 DEF X!Confirm

LEMMA ObservingChanges ==
  ASSUME X!WindowInv, X!Positioned \/ X!Sized
  PROVE  X!WindowInv'
<1>1. CASE X!Fail("delivered_unverified")
  BY <1>1, FailOnWindows
<1>2. CASE /\ stage = "position wait" /\ "position" \in effects /\ UNCHANGED X!deskVars
           /\ op = "maximize" /\ X!Goto("size") /\ delivered' = 1
           /\ UNCHANGED <<target, confirmations>>
  <2>1. /\ UNCHANGED <<op, effects>> /\ target' = target /\ stage' = "size"
    BY <1>2 DEF X!Goto, X!choiceVars, X!deskVars
  <2>2. delivered' \in 0 .. 1
    <3>1. 1 \in 0 .. 1
      OBVIOUS
    <3> QED
      BY <1>2, <3>1, Zenon
  <2>3. confirmations' \in 0 .. 1 /\ target # 0
    BY <1>2, WindowFacts
  <2>4. X!StagesAreOfTheCommand' /\ X!EffectsAreCounted'
    BY <1>2, <2>1, <2>3, StageFollows
  <2> QED
    BY <1>2, <2>1, <2>2, <2>3, <2>4, GotoOnWindows
<1>3. ASSUME X!End(TRUE, "verified"), UNCHANGED X!deskVars,
             \/ op = "change" /\ "position" \in effects
             \/ op = "maximize" /\ {"position", "size"} \subseteq effects
      PROVE  X!WindowInv'
  <2>1. /\ op' = op /\ target' = target /\ stage' = "done"
    BY <1>3 DEF X!End, X!choiceVars
  <2>2. /\ fate' = fate /\ main' \in 1 .. 3 /\ effects' = effects /\ X!SightingsAreKept'
    BY <1>3, <2>1, DeskIsKept
  <2>3. report' # X!NoReport /\ X!ReportsAreTrue'
    BY <1>3, <2>1, <2>2, DoneTruly
  <2> QED
    BY <1>3, <2>2, <2>3, EndOnWindows
<1> QED
  BY <1>1, <1>2, <1>3, WindowFacts DEF X!Positioned, X!Sized

LEMMA WindowInvIsKept ==
  ASSUME X!WindowInv, [X!Next]_(X!vars)
  PROVE  X!WindowInv'
<1>1. CASE UNCHANGED X!vars
  <2>1. X!StagesAreOfTheCommand' /\ X!EffectsAreCounted' /\ X!SightingsAreKept'
    BY <1>1 DEF X!vars, X!choiceVars, X!deskVars, X!WindowInv, X!StagesAreOfTheCommand,
                X!EffectsAreCounted, X!SightingsAreKept
  <2>2. X!OthersOnlyByTitle' /\ X!ReportsAreTrue'
    BY <1>1 DEF X!vars, X!choiceVars, X!deskVars, X!WindowInv, X!WindowsAreHonest,
                X!OthersOnlyByTitle, X!ReportsAreTrue
  <2> QED
    BY <1>1, <2>1, <2>2 DEF X!vars, X!choiceVars, X!deskVars, X!WindowInv, X!WindowsAreHonest
<1>2. CASE X!UserStep \/ X!Late
  BY <1>2, UserStepOnWindows, LateOnWindows
<1>3. CASE X!Revalidate \/ X!Start \/ X!Locate \/ X!LookUp
  BY <1>3, ChoosingWindows, LookUpOnWindows
<1>4. CASE X!FocusApp \/ X!AppFocused \/ X!Raise \/ X!MakeMain \/ X!Raised
  BY <1>4, FocusAppOnWindows, AppFocusedOnWindows, RaiseOnWindows, TellingChanges, RaisedOnWindows
<1>5. CASE X!VerifyFocused \/ X!Confirm
  BY <1>5, VerifyFocusedOnWindows, ConfirmOnWindows
<1>6. CASE X!SetPosition \/ X!Positioned \/ X!SetSize \/ X!Sized
  BY <1>6, TellingChanges, ObservingChanges
<1> QED
  BY <1>1, <1>2, <1>3, <1>4, <1>5, <1>6 DEF X!Next

-----------------------------------------------------------------------------
(* Selecting *)

ASSUME UserMenusAssumption == MaxUserMenus \in Nat

LEMMA SelectInvStarts ==
  ASSUME S!Init
  PROVE  S!SelectInv
<1>1. report.verified = FALSE /\ report.disposition = "none"
  BY DEF S!Init, S!Running, S!Report
<1>2. nodes \subseteq S!Node
  BY DEF S!Init
<1>3. shown \in {"none", "users"} /\ (family = "collection" => shown = "none")
  BY DEF S!Init
<1> QED
  BY <1>1, <1>2, <1>3
     DEF S!Init, S!SelectInv, S!StepsAreOfTheFamily, S!MenusAreKnown, S!MenuSteps,
         S!CollectionSteps, S!SelectionIsHonest, S!OnlyTheAsked, S!VerifiedIsSelected,
         S!NotDeliveredIsTrue

\* A selection that fails, and says nothing of the delivery or that it is not certain;
\* one that goes on; one that is done.
LEMMA FailedIsHonest ==
  ASSUME NEW d, d # "not_delivered", S!Done("failed", FALSE, d)
  PROVE  step' = "done" /\ S!VerifiedIsSelected' /\ S!NotDeliveredIsTrue'
<1> DEFINE said == IF fallback /\ "failed" = "failed" THEN "delivered_unverified" ELSE d
<1>1. step' = "done" /\ report' = S!Report("failed", FALSE, said) /\ said # "not_delivered"
  BY DEF S!Done
<1> HIDE DEF said
<1>2. report'.verified = FALSE /\ report'.disposition # "not_delivered"
  BY <1>1 DEF S!Report
<1> QED
  BY <1>1, <1>2 DEF S!VerifiedIsSelected, S!NotDeliveredIsTrue

LEMMA GoesOnIsHonest ==
  ASSUME S!SelectInv, step # "done", NEW next, S!Goto(next)
  PROVE  step' = next /\ report' = S!Running /\ S!VerifiedIsSelected' /\ S!NotDeliveredIsTrue'
<1>1. step' = next /\ report' = S!Running
  BY DEF S!Goto, S!SelectInv
<1>2. report'.verified = FALSE /\ report'.disposition = "none"
  BY <1>1 DEF S!Running, S!Report
<1> QED
  BY <1>1, <1>2 DEF S!VerifiedIsSelected, S!NotDeliveredIsTrue

LEMMA VerifiedIsHonest ==
  ASSUME NEW v \in BOOLEAN, S!Done("done", v, "none"),
         v /\ (exposed' \/ family' = "collection") => "asked" \in {value', landing'}
  PROVE  step' = "done" /\ S!VerifiedIsSelected' /\ S!NotDeliveredIsTrue'
<1>1. step' = "done" /\ report' = S!Report("done", v, "none")
  BY DEF S!Done
<1>2. report'.verified = v /\ report'.disposition = "none"
  BY <1>1 DEF S!Report
<1> QED
  BY <1>1, <1>2, Zenon DEF S!VerifiedIsSelected, S!NotDeliveredIsTrue

LEMMA NamedStays ==
  ASSUME UNCHANGED S!controlVars
  PROVE  /\ S!Named' = S!Named /\ family' = family /\ exposed' = exposed /\ has' = has
         /\ nodes' = nodes
BY DEF S!controlVars, S!Named

LEMMA SelectLandIsKept ==
  ASSUME S!SelectInv, S!Land
  PROVE  S!SelectInv'
<1>1. UNCHANGED S!controlVars
  BY DEF S!Land, S!Still, S!NothingMoves, S!Unchanged
<1>2. S!VerifiedIsSelected' /\ S!NotDeliveredIsTrue'
  BY <1>1, NamedStays
     DEF S!Land, S!Unchanged, S!SelectInv, S!SelectionIsHonest, S!VerifiedIsSelected,
         S!NotDeliveredIsTrue, S!OnlyTheAsked
<1>3. S!StepsAreOfTheFamily' /\ S!MenusAreKnown' /\ S!OnlyTheAsked'
  BY <1>1, NamedStays
     DEF S!SelectInv, S!StepsAreOfTheFamily, S!MenusAreKnown, S!MenuSteps, S!CollectionSteps,
         S!SelectionIsHonest, S!OnlyTheAsked, S!Land, S!Unchanged
<1> QED
  BY <1>2, <1>3, <1>1, NamedStays DEF S!SelectInv, S!SelectionIsHonest, S!Land, S!Unchanged

LEMMA MenuOpensIsKept ==
  ASSUME S!SelectInv, S!MenuOpens
  PROVE  S!SelectInv'
<1>1. UNCHANGED S!controlVars
  BY DEF S!MenuOpens, S!Still, S!NothingMoves, S!Unchanged
<1>2. S!VerifiedIsSelected' /\ S!NotDeliveredIsTrue'
  BY <1>1, NamedStays
     DEF S!MenuOpens, S!Unchanged, S!SelectInv, S!SelectionIsHonest, S!VerifiedIsSelected,
         S!NotDeliveredIsTrue, S!OnlyTheAsked
<1>3. S!StepsAreOfTheFamily' /\ S!MenusAreKnown' /\ S!OnlyTheAsked'
  BY <1>1, NamedStays
     DEF S!SelectInv, S!StepsAreOfTheFamily, S!MenusAreKnown, S!MenuSteps, S!CollectionSteps,
         S!SelectionIsHonest, S!OnlyTheAsked, S!MenuOpens, S!Unchanged
<1> QED
  BY <1>2, <1>3, <1>1, NamedStays
     DEF S!SelectInv, S!SelectionIsHonest, S!MenuOpens, S!Unchanged

LEMMA MenuClosesIsKept ==
  ASSUME S!SelectInv, S!MenuCloses
  PROVE  S!SelectInv'
<1>1. UNCHANGED S!controlVars
  BY DEF S!MenuCloses, S!Still, S!NothingMoves, S!Unchanged
<1>2. S!VerifiedIsSelected' /\ S!NotDeliveredIsTrue'
  BY <1>1, NamedStays
     DEF S!MenuCloses, S!Unchanged, S!SelectInv, S!SelectionIsHonest, S!VerifiedIsSelected,
         S!NotDeliveredIsTrue, S!OnlyTheAsked
<1>3. S!StepsAreOfTheFamily' /\ S!MenusAreKnown' /\ S!OnlyTheAsked'
  BY <1>1, NamedStays
     DEF S!SelectInv, S!StepsAreOfTheFamily, S!MenusAreKnown, S!MenuSteps, S!CollectionSteps,
         S!SelectionIsHonest, S!OnlyTheAsked, S!MenuCloses, S!Unchanged
<1> QED
  BY <1>2, <1>3, <1>1, NamedStays
     DEF S!SelectInv, S!SelectionIsHonest, S!MenuCloses, S!Unchanged

LEMMA SelectStartIsKept ==
  ASSUME S!SelectInv, S!Start
  PROVE  S!SelectInv'
<1>1. UNCHANGED S!controlVars
  BY DEF S!Start, S!Still, S!NothingMoves, S!Unchanged
<1>2. S!VerifiedIsSelected' /\ S!NotDeliveredIsTrue'
  BY <1>1, NamedStays, FailedIsHonest, GoesOnIsHonest, VerifiedIsHonest
     DEF S!Start, S!NothingMoves, S!SelectInv
<1>3. S!StepsAreOfTheFamily' /\ S!MenusAreKnown' /\ S!OnlyTheAsked'
  BY <1>1, NamedStays
     DEF S!SelectInv, S!StepsAreOfTheFamily, S!MenusAreKnown, S!MenuSteps, S!CollectionSteps,
         S!SelectionIsHonest, S!OnlyTheAsked, S!Start, S!Still, S!NothingMoves, S!Unchanged,
         S!Goto, S!Done
<1> QED
  BY <1>2, <1>3, <1>1, NamedStays
     DEF S!SelectInv, S!SelectionIsHonest, S!Start, S!Still, S!NothingMoves, S!Unchanged,
         S!Goto, S!Done

LEMMA MenuIsKept ==
  ASSUME S!SelectInv, S!Menu
  PROVE  S!SelectInv'
<1>1. UNCHANGED S!controlVars
  BY DEF S!Menu, S!Still, S!NothingMoves, S!Unchanged
<1>2. S!VerifiedIsSelected' /\ S!NotDeliveredIsTrue'
  BY <1>1, NamedStays, FailedIsHonest, GoesOnIsHonest, VerifiedIsHonest
     DEF S!Menu, S!NothingMoves, S!SelectInv
<1>3. S!StepsAreOfTheFamily' /\ S!MenusAreKnown' /\ S!OnlyTheAsked'
  BY <1>1, NamedStays
     DEF S!SelectInv, S!StepsAreOfTheFamily, S!MenusAreKnown, S!MenuSteps, S!CollectionSteps,
         S!SelectionIsHonest, S!OnlyTheAsked, S!Menu, S!Still, S!NothingMoves, S!Unchanged,
         S!Goto, S!Done
<1> QED
  BY <1>2, <1>3, <1>1, NamedStays
     DEF S!SelectInv, S!SelectionIsHonest, S!Menu, S!Still, S!NothingMoves, S!Unchanged,
         S!Goto, S!Done

LEMMA SelectVerifyIsKept ==
  ASSUME S!SelectInv, S!Verify
  PROVE  S!SelectInv'
<1>1. UNCHANGED S!controlVars
  BY DEF S!Verify, S!Still, S!NothingMoves, S!Unchanged
<1>2. S!VerifiedIsSelected' /\ S!NotDeliveredIsTrue'
  BY <1>1, NamedStays, FailedIsHonest, GoesOnIsHonest, VerifiedIsHonest
     DEF S!Verify, S!NothingMoves, S!SelectInv
<1>3. S!StepsAreOfTheFamily' /\ S!MenusAreKnown' /\ S!OnlyTheAsked'
  BY <1>1, NamedStays
     DEF S!SelectInv, S!StepsAreOfTheFamily, S!MenusAreKnown, S!MenuSteps, S!CollectionSteps,
         S!SelectionIsHonest, S!OnlyTheAsked, S!Verify, S!Still, S!NothingMoves, S!Unchanged,
         S!Goto, S!Done
<1> QED
  BY <1>2, <1>3, <1>1, NamedStays
     DEF S!SelectInv, S!SelectionIsHonest, S!Verify, S!Still, S!NothingMoves, S!Unchanged,
         S!Goto, S!Done

LEMMA SeekIsKept ==
  ASSUME S!SelectInv, S!Seek
  PROVE  S!SelectInv'
<1>1. UNCHANGED S!controlVars
  BY DEF S!Seek, S!Still, S!NothingMoves, S!Unchanged
<1>2. S!VerifiedIsSelected' /\ S!NotDeliveredIsTrue'
  BY <1>1, NamedStays, FailedIsHonest, GoesOnIsHonest, VerifiedIsHonest
     DEF S!Seek, S!NothingMoves, S!SelectInv, S!Cancel
<1>3. S!StepsAreOfTheFamily' /\ S!MenusAreKnown' /\ S!OnlyTheAsked'
  BY <1>1, NamedStays
     DEF S!SelectInv, S!StepsAreOfTheFamily, S!MenusAreKnown, S!MenuSteps, S!CollectionSteps,
         S!SelectionIsHonest, S!OnlyTheAsked, S!Seek, S!Still, S!NothingMoves, S!Unchanged,
         S!Goto, S!Done, S!Cancel
<1> QED
  BY <1>2, <1>3, <1>1, NamedStays
     DEF S!SelectInv, S!SelectionIsHonest, S!Seek, S!Still, S!NothingMoves, S!Unchanged,
         S!Goto, S!Done, S!Cancel

LEMMA CheckIsKept ==
  ASSUME S!SelectInv, S!Check
  PROVE  S!SelectInv'
<1>1. UNCHANGED S!controlVars
  BY DEF S!Check, S!Still, S!NothingMoves, S!Unchanged
<1>2. S!VerifiedIsSelected' /\ S!NotDeliveredIsTrue'
  BY <1>1, NamedStays, FailedIsHonest, GoesOnIsHonest, VerifiedIsHonest
     DEF S!Check, S!NothingMoves, S!SelectInv
<1>3. S!StepsAreOfTheFamily' /\ S!MenusAreKnown' /\ S!OnlyTheAsked'
  BY <1>1, NamedStays
     DEF S!SelectInv, S!StepsAreOfTheFamily, S!MenusAreKnown, S!MenuSteps, S!CollectionSteps,
         S!SelectionIsHonest, S!OnlyTheAsked, S!Check, S!Still, S!NothingMoves, S!Unchanged,
         S!Goto, S!Done
<1> QED
  BY <1>2, <1>3, <1>1, NamedStays
     DEF S!SelectInv, S!SelectionIsHonest, S!Check, S!Still, S!NothingMoves, S!Unchanged,
         S!Goto, S!Done

LEMMA WriteIsKept ==
  ASSUME S!SelectInv, S!Write
  PROVE  S!SelectInv'
<1>1. UNCHANGED S!controlVars
  BY DEF S!Write, S!Still, S!NothingMoves, S!Unchanged
<1>2. PICK yes \in S!Answers :
        /\ S!Selects("asked", yes)
        /\ \/ yes = "yes" /\ S!Goto("check")
           \/ yes = "yes" /\ S!Done("failed", FALSE, "delivered_unverified")
           \/ yes = "no" /\ S!Goto("menu")
           \/ yes = "unclear" /\ S!Done("failed", FALSE, "uncertain")
  BY DEF S!Write
<1>3. CASE yes = "yes"
  <2>1. S!VerifiedIsSelected' /\ S!NotDeliveredIsTrue'
    BY <1>1, <1>2, <1>3, NamedStays, FailedIsHonest, GoesOnIsHonest, VerifiedIsHonest
       DEF S!Write, S!SelectInv, S!Selects
  <2>2. S!StepsAreOfTheFamily' /\ S!MenusAreKnown' /\ S!OnlyTheAsked'
    BY <1>1, <1>2, <1>3, NamedStays
       DEF S!SelectInv, S!StepsAreOfTheFamily, S!MenusAreKnown, S!MenuSteps,
           S!CollectionSteps, S!SelectionIsHonest, S!OnlyTheAsked, S!Write, S!Still,
           S!NothingMoves, S!Unchanged, S!Goto, S!Done, S!Selects
  <2> QED
    BY <2>1, <2>2, <1>1, <1>2, <1>3, NamedStays
       DEF S!SelectInv, S!SelectionIsHonest, S!Write, S!Still, S!NothingMoves, S!Unchanged,
           S!Goto, S!Done, S!Selects
<1>4. CASE yes = "no"
  <2>1. S!VerifiedIsSelected' /\ S!NotDeliveredIsTrue'
    BY <1>1, <1>2, <1>4, NamedStays, FailedIsHonest, GoesOnIsHonest, VerifiedIsHonest
       DEF S!Write, S!SelectInv, S!Selects
  <2>2. S!StepsAreOfTheFamily' /\ S!MenusAreKnown' /\ S!OnlyTheAsked'
    BY <1>1, <1>2, <1>4, NamedStays
       DEF S!SelectInv, S!StepsAreOfTheFamily, S!MenusAreKnown, S!MenuSteps,
           S!CollectionSteps, S!SelectionIsHonest, S!OnlyTheAsked, S!Write, S!Still,
           S!NothingMoves, S!Unchanged, S!Goto, S!Done, S!Selects
  <2> QED
    BY <2>1, <2>2, <1>1, <1>2, <1>4, NamedStays
       DEF S!SelectInv, S!SelectionIsHonest, S!Write, S!Still, S!NothingMoves, S!Unchanged,
           S!Goto, S!Done, S!Selects
<1>5. CASE yes = "unclear"
  <2>1. S!VerifiedIsSelected' /\ S!NotDeliveredIsTrue'
    BY <1>1, <1>2, <1>5, NamedStays, FailedIsHonest, GoesOnIsHonest, VerifiedIsHonest
       DEF S!Write, S!SelectInv, S!Selects
  <2>2. S!StepsAreOfTheFamily' /\ S!MenusAreKnown' /\ S!OnlyTheAsked'
    BY <1>1, <1>2, <1>5, NamedStays
       DEF S!SelectInv, S!StepsAreOfTheFamily, S!MenusAreKnown, S!MenuSteps,
           S!CollectionSteps, S!SelectionIsHonest, S!OnlyTheAsked, S!Write, S!Still,
           S!NothingMoves, S!Unchanged, S!Goto, S!Done, S!Selects
  <2> QED
    BY <2>1, <2>2, <1>1, <1>2, <1>5, NamedStays
       DEF S!SelectInv, S!SelectionIsHonest, S!Write, S!Still, S!NothingMoves, S!Unchanged,
           S!Goto, S!Done, S!Selects
<1> QED
  BY <1>2, <1>3, <1>4, <1>5 DEF S!Answers

LEMMA OpenIsKept ==
  ASSUME S!SelectInv, S!Open
  PROVE  S!SelectInv'
<1>1. UNCHANGED S!controlVars
  BY DEF S!Open, S!Still, S!NothingMoves, S!Unchanged
<1>2. PICK yes \in S!Answers :
        /\ IF yes = "no" THEN UNCHANGED <<shown, coming>>
           ELSE \/ shown' = "ours" /\ coming' = FALSE
                \/ shown' = shown /\ coming' \in BOOLEAN
        /\ \/ yes = "yes" /\ S!Goto("seek")
           \/ yes = "no" /\ S!Done("failed", FALSE, "none")
           \/ yes = "unclear" /\ S!Done("failed", FALSE, "uncertain")
  BY DEF S!Open
<1>3. CASE yes = "yes"
  <2>1. S!VerifiedIsSelected' /\ S!NotDeliveredIsTrue'
    BY <1>1, <1>2, <1>3, NamedStays, FailedIsHonest, GoesOnIsHonest, VerifiedIsHonest
       DEF S!Open, S!SelectInv
  <2>2. S!StepsAreOfTheFamily' /\ S!MenusAreKnown' /\ S!OnlyTheAsked'
    BY <1>1, <1>2, <1>3, NamedStays
       DEF S!SelectInv, S!StepsAreOfTheFamily, S!MenusAreKnown, S!MenuSteps,
           S!CollectionSteps, S!SelectionIsHonest, S!OnlyTheAsked, S!Open, S!Still,
           S!NothingMoves, S!Unchanged, S!Goto, S!Done
  <2> QED
    BY <2>1, <2>2, <1>1, <1>2, <1>3, NamedStays
       DEF S!SelectInv, S!SelectionIsHonest, S!Open, S!Still, S!NothingMoves, S!Unchanged,
           S!Goto, S!Done
<1>4. CASE yes = "no"
  <2>1. S!VerifiedIsSelected' /\ S!NotDeliveredIsTrue'
    BY <1>1, <1>2, <1>4, NamedStays, FailedIsHonest, GoesOnIsHonest, VerifiedIsHonest
       DEF S!Open, S!SelectInv
  <2>2. S!StepsAreOfTheFamily' /\ S!MenusAreKnown' /\ S!OnlyTheAsked'
    BY <1>1, <1>2, <1>4, NamedStays
       DEF S!SelectInv, S!StepsAreOfTheFamily, S!MenusAreKnown, S!MenuSteps,
           S!CollectionSteps, S!SelectionIsHonest, S!OnlyTheAsked, S!Open, S!Still,
           S!NothingMoves, S!Unchanged, S!Goto, S!Done
  <2> QED
    BY <2>1, <2>2, <1>1, <1>2, <1>4, NamedStays
       DEF S!SelectInv, S!SelectionIsHonest, S!Open, S!Still, S!NothingMoves, S!Unchanged,
           S!Goto, S!Done
<1>5. CASE yes = "unclear"
  <2>1. S!VerifiedIsSelected' /\ S!NotDeliveredIsTrue'
    BY <1>1, <1>2, <1>5, NamedStays, FailedIsHonest, GoesOnIsHonest, VerifiedIsHonest
       DEF S!Open, S!SelectInv
  <2>2. S!StepsAreOfTheFamily' /\ S!MenusAreKnown' /\ S!OnlyTheAsked'
    BY <1>1, <1>2, <1>5, NamedStays
       DEF S!SelectInv, S!StepsAreOfTheFamily, S!MenusAreKnown, S!MenuSteps,
           S!CollectionSteps, S!SelectionIsHonest, S!OnlyTheAsked, S!Open, S!Still,
           S!NothingMoves, S!Unchanged, S!Goto, S!Done
  <2> QED
    BY <2>1, <2>2, <1>1, <1>2, <1>5, NamedStays
       DEF S!SelectInv, S!SelectionIsHonest, S!Open, S!Still, S!NothingMoves, S!Unchanged,
           S!Goto, S!Done
<1> QED
  BY <1>2, <1>3, <1>4, <1>5 DEF S!Answers

LEMMA SelectIsKept ==
  ASSUME S!SelectInv, S!Select
  PROVE  S!SelectInv'
<1>1. UNCHANGED S!controlVars
  BY DEF S!Select, S!Still, S!NothingMoves, S!Unchanged
<1>2. PICK yes \in S!Answers :
        /\ S!Selects("asked", yes)
        /\ \/ yes = "yes" /\ value' = "asked" /\ S!Done("done", TRUE, "none")
           \/ yes = "yes" /\ value' # "asked" /\ S!Done("failed", FALSE, "delivered_unverified")
           \/ yes = "unclear" /\ S!Done("failed", FALSE, "uncertain")
           \/ yes = "no" /\ (S!Goto("select") \/ S!Goto("press item"))
  BY DEF S!Select
<1>3. CASE yes = "yes"
  <2>1. S!VerifiedIsSelected' /\ S!NotDeliveredIsTrue'
    BY <1>1, <1>2, <1>3, NamedStays, FailedIsHonest, GoesOnIsHonest, VerifiedIsHonest
       DEF S!Select, S!SelectInv, S!Selects
  <2>2. S!StepsAreOfTheFamily' /\ S!MenusAreKnown' /\ S!OnlyTheAsked'
    BY <1>1, <1>2, <1>3, NamedStays
       DEF S!SelectInv, S!StepsAreOfTheFamily, S!MenusAreKnown, S!MenuSteps,
           S!CollectionSteps, S!SelectionIsHonest, S!OnlyTheAsked, S!Select, S!Still,
           S!NothingMoves, S!Unchanged, S!Goto, S!Done, S!Selects
  <2> QED
    BY <2>1, <2>2, <1>1, <1>2, <1>3, NamedStays
       DEF S!SelectInv, S!SelectionIsHonest, S!Select, S!Still, S!NothingMoves, S!Unchanged,
           S!Goto, S!Done, S!Selects
<1>4. CASE yes = "no"
  <2>1. S!VerifiedIsSelected' /\ S!NotDeliveredIsTrue'
    BY <1>1, <1>2, <1>4, NamedStays, FailedIsHonest, GoesOnIsHonest, VerifiedIsHonest
       DEF S!Select, S!SelectInv, S!Selects
  <2>2. S!StepsAreOfTheFamily' /\ S!MenusAreKnown' /\ S!OnlyTheAsked'
    BY <1>1, <1>2, <1>4, NamedStays
       DEF S!SelectInv, S!StepsAreOfTheFamily, S!MenusAreKnown, S!MenuSteps,
           S!CollectionSteps, S!SelectionIsHonest, S!OnlyTheAsked, S!Select, S!Still,
           S!NothingMoves, S!Unchanged, S!Goto, S!Done, S!Selects
  <2> QED
    BY <2>1, <2>2, <1>1, <1>2, <1>4, NamedStays
       DEF S!SelectInv, S!SelectionIsHonest, S!Select, S!Still, S!NothingMoves, S!Unchanged,
           S!Goto, S!Done, S!Selects
<1>5. CASE yes = "unclear"
  <2>1. S!VerifiedIsSelected' /\ S!NotDeliveredIsTrue'
    BY <1>1, <1>2, <1>5, NamedStays, FailedIsHonest, GoesOnIsHonest, VerifiedIsHonest
       DEF S!Select, S!SelectInv, S!Selects
  <2>2. S!StepsAreOfTheFamily' /\ S!MenusAreKnown' /\ S!OnlyTheAsked'
    BY <1>1, <1>2, <1>5, NamedStays
       DEF S!SelectInv, S!StepsAreOfTheFamily, S!MenusAreKnown, S!MenuSteps,
           S!CollectionSteps, S!SelectionIsHonest, S!OnlyTheAsked, S!Select, S!Still,
           S!NothingMoves, S!Unchanged, S!Goto, S!Done, S!Selects
  <2> QED
    BY <2>1, <2>2, <1>1, <1>2, <1>5, NamedStays
       DEF S!SelectInv, S!SelectionIsHonest, S!Select, S!Still, S!NothingMoves, S!Unchanged,
           S!Goto, S!Done, S!Selects
<1> QED
  BY <1>2, <1>3, <1>4, <1>5 DEF S!Answers

LEMMA UserOpensMenuIsKept ==
  ASSUME S!SelectInv, S!UserOpensMenu
  PROVE  S!SelectInv'
<1>1. UNCHANGED S!controlVars
  BY DEF S!UserOpensMenu, S!Unchanged
<1>2. opened' \in Nat /\ opened' > 0
  BY DEF S!UserOpensMenu, S!SelectInv
<1>3. /\ shown' = "users" /\ family # "collection" /\ value' = value /\ landing' = landing
      /\ target' = target /\ step' = step /\ report' = report /\ step # "done"
  BY DEF S!UserOpensMenu, S!Unchanged
<1>4. S!VerifiedIsSelected' /\ S!NotDeliveredIsTrue'
  <2>1. report'.verified = FALSE /\ report'.disposition = "none"
    BY <1>3 DEF S!SelectInv, S!Running, S!Report
  <2> QED
    BY <2>1 DEF S!VerifiedIsSelected, S!NotDeliveredIsTrue
<1>5. S!StepsAreOfTheFamily' /\ S!MenusAreKnown'
  BY <1>1, <1>2, <1>3, NamedStays
     DEF S!SelectInv, S!StepsAreOfTheFamily, S!MenusAreKnown, S!MenuSteps, S!CollectionSteps
<1>6. S!OnlyTheAsked'
  BY <1>1, <1>2, <1>3, NamedStays DEF S!SelectInv, S!SelectionIsHonest, S!OnlyTheAsked
<1> QED
  BY <1>1, <1>2, <1>3, <1>4, <1>5, <1>6, NamedStays DEF S!SelectInv, S!SelectionIsHonest

LEMMA CloseIsKept ==
  ASSUME S!SelectInv, S!Close
  PROVE  S!SelectInv'
<1>1. /\ UNCHANGED S!controlVars /\ step = "close" /\ value' = value /\ landing' = landing
      /\ coming' = coming /\ target' = target /\ opened' = opened
  BY DEF S!Close, S!Still
<1>2. /\ S!VerifiedIsSelected' /\ S!NotDeliveredIsTrue' /\ step' \in {"verify", "done"}
      /\ shown' \in {"none", shown} /\ (step' # "done" => report' = S!Running)
  <2>1. CASE UNCHANGED shown /\ exposed /\ S!Goto("verify")
    BY <1>1, <2>1, GoesOnIsHonest
  <2>2. CASE UNCHANGED shown /\ ~ exposed /\ S!Done("done", shown = "none", "none")
    <3>1. (shown = "none") \in BOOLEAN
      OBVIOUS
    <3>2. ~ (exposed' \/ family' = "collection")
      BY <1>1, <2>2, NamedStays DEF S!SelectInv, S!StepsAreOfTheFamily, S!MenuSteps
    <3> QED
      BY <2>2, <3>1, <3>2, VerifiedIsHonest
  <2>3. CASE S!Cancel
    BY <2>3, FailedIsHonest DEF S!Cancel
  <2> QED
    BY <2>1, <2>2, <2>3 DEF S!Close
<1>3. S!StepsAreOfTheFamily' /\ S!MenusAreKnown' /\ S!OnlyTheAsked'
  BY <1>1, <1>2, NamedStays
     DEF S!SelectInv, S!StepsAreOfTheFamily, S!MenusAreKnown, S!MenuSteps, S!CollectionSteps,
         S!SelectionIsHonest, S!OnlyTheAsked
<1> QED
  BY <1>1, <1>2, <1>3, NamedStays DEF S!SelectInv, S!SelectionIsHonest

LEMMA PressIsKept ==
  ASSUME S!SelectInv, S!Press
  PROVE  S!SelectInv'
<1>1. /\ UNCHANGED S!controlVars /\ step = "press" /\ coming' = coming /\ target' = target
      /\ opened' = opened
  BY DEF S!Press, S!Still
<1>2. /\ S!VerifiedIsSelected' /\ S!NotDeliveredIsTrue' /\ step' \in {"close", "done"}
      /\ shown' \in {"none", shown} /\ (step' # "done" => report' = S!Running)
  <2>1. CASE UNCHANGED shown /\ S!Goto("close")
    BY <1>1, <2>1, GoesOnIsHonest
  <2>2. CASE S!Cancel
    BY <2>2, FailedIsHonest DEF S!Cancel
  <2> QED
    BY <2>1, <2>2 DEF S!Press
<1>3. /\ value' \in {value, IF target = "ours" THEN "asked" ELSE "other"}
      /\ landing' \in {landing, "none", IF target = "ours" THEN "asked" ELSE "other"}
  BY DEF S!Press, S!Selects
<1>4. S!StepsAreOfTheFamily' /\ S!MenusAreKnown'
  BY <1>1, <1>2, NamedStays
     DEF S!SelectInv, S!StepsAreOfTheFamily, S!MenusAreKnown, S!MenuSteps, S!CollectionSteps
<1>5. S!OnlyTheAsked'
  BY <1>1, <1>3, NamedStays
     DEF S!SelectInv, S!StepsAreOfTheFamily, S!MenusAreKnown, S!MenuSteps, S!SelectionIsHonest,
         S!OnlyTheAsked
<1> QED
  BY <1>1, <1>2, <1>3, <1>4, <1>5, NamedStays DEF S!SelectInv, S!SelectionIsHonest

\* A press of an item may be refused, and then nothing was delivered.
LEMMA PressItemIsKept ==
  ASSUME S!SelectInv, S!PressItem
  PROVE  S!SelectInv'
<1>1. /\ UNCHANGED S!controlVars /\ step = "press item" /\ coming' = coming /\ target' = target
      /\ opened' = opened /\ shown' = shown
  BY DEF S!PressItem, S!Still
<1>2. /\ family = "collection" /\ value = "old" /\ landing = "none" /\ shown = "none" /\ ~ coming
      /\ S!Cardinality(S!Named) = 1 /\ target = "none"
  BY <1>1 DEF S!SelectInv, S!StepsAreOfTheFamily, S!CollectionSteps
<1>3. S!VerifiedIsSelected' /\ S!NotDeliveredIsTrue' /\ step' = "done"
  <2>1. CASE S!Done("done", FALSE, "none")
    BY <2>1, VerifiedIsHonest
  <2>2. CASE S!Done("failed", FALSE, "uncertain")
    BY <2>2, FailedIsHonest
  <2>3. CASE S!Done("failed", FALSE, "not_delivered") /\ S!Selects("asked", "no")
    <3>1. value' = "old" /\ landing' = "none" /\ shown' # "ours" /\ ~ coming'
      BY <1>1, <1>2, <2>3 DEF S!Selects
    <3>2. step' = "done" /\ report'.verified = FALSE
      BY <2>3 DEF S!Done, S!Report
    <3> QED
      BY <3>1, <3>2 DEF S!VerifiedIsSelected, S!NotDeliveredIsTrue
  <2> QED
    BY <2>1, <2>2, <2>3 DEF S!PressItem
<1>4. value' \in {"old", "asked"} /\ landing' \in {"none", "asked"}
  BY <1>2 DEF S!PressItem, S!Selects
<1>5. S!StepsAreOfTheFamily' /\ S!MenusAreKnown' /\ S!OnlyTheAsked'
  BY <1>1, <1>2, <1>3, <1>4, NamedStays
     DEF S!StepsAreOfTheFamily, S!MenusAreKnown, S!MenuSteps, S!CollectionSteps, S!OnlyTheAsked
<1> QED
  BY <1>1, <1>2, <1>3, <1>4, <1>5, NamedStays DEF S!SelectInv, S!SelectionIsHonest

\* What is not unclear and may have the name has it.
LEMMA TheNamedAreOwners ==
  ASSUME nodes \subseteq S!Node, \A n \in nodes : ~ S!Unclear(n)
  PROVE  S!Named = S!Owners
<1>1. ASSUME NEW n \in nodes
      PROVE  n.text # "other" /\ n.clicks # "no" <=> S!Matches(n)
  <2>1. /\ n.text \in {"asked", "other", "unknown"}
        /\ n.clicks \in {"yes", "no", "unknown", "text field"}
    BY DEF S!Node
  <2> QED
    BY <2>1 DEF S!Unclear, S!Matches
<1>2. {n \in nodes : n.text # "other" /\ n.clicks # "no"} = {n \in nodes : S!Matches(n)}
  BY <1>1
<1> QED
  BY <1>2 DEF S!Named, S!Owners

LEMMA SelectSearchIsKept ==
  ASSUME S!SelectInv, S!Search
  PROVE  S!SelectInv'
<1>1. /\ UNCHANGED S!controlVars /\ step = "search" /\ coming' = coming /\ target' = target
      /\ opened' = opened /\ shown' = shown /\ value' = value /\ landing' = landing
  BY DEF S!Search, S!Still, S!NothingMoves
<1>2. /\ family = "collection" /\ value = "old" /\ landing = "none" /\ shown = "none" /\ ~ coming
      /\ target = "none" /\ nodes \subseteq S!Node
  BY <1>1 DEF S!SelectInv, S!StepsAreOfTheFamily, S!CollectionSteps
<1>3. CASE /\ S!Cardinality(S!Owners) = 1 /\ ~ \E n \in nodes : S!Unclear(n)
           /\ S!Goto("select")
  <2>1. S!Cardinality(S!Named) = 1
    BY <1>2, <1>3, TheNamedAreOwners
  <2>2. step' = "select" /\ report' = S!Running /\ S!VerifiedIsSelected' /\ S!NotDeliveredIsTrue'
    BY <1>1, <1>3, GoesOnIsHonest
  <2>3. S!StepsAreOfTheFamily' /\ S!MenusAreKnown' /\ S!OnlyTheAsked'
    BY <1>1, <1>2, <2>1, <2>2, NamedStays
       DEF S!StepsAreOfTheFamily, S!MenusAreKnown, S!MenuSteps, S!CollectionSteps, S!OnlyTheAsked
  <2> QED
    BY <1>1, <1>2, <2>2, <2>3, NamedStays DEF S!SelectInv, S!SelectionIsHonest
<1>4. CASE S!Done("failed", FALSE, "not_delivered")
  <2>1. step' = "done" /\ report'.verified = FALSE
    BY <1>4 DEF S!Done, S!Report
  <2>2. S!VerifiedIsSelected' /\ S!NotDeliveredIsTrue'
    BY <1>1, <1>2, <2>1 DEF S!VerifiedIsSelected, S!NotDeliveredIsTrue
  <2>3. S!StepsAreOfTheFamily' /\ S!MenusAreKnown' /\ S!OnlyTheAsked'
    BY <1>1, <1>2, <2>1, NamedStays
       DEF S!StepsAreOfTheFamily, S!MenusAreKnown, S!MenuSteps, S!CollectionSteps, S!OnlyTheAsked
  <2> QED
    BY <1>1, <1>2, <2>1, <2>2, <2>3, NamedStays DEF S!SelectInv, S!SelectionIsHonest
<1> QED
  BY <1>3, <1>4 DEF S!Search

LEMMA SelectInvIsKept ==
  ASSUME S!SelectInv, [S!Next]_(S!vars)
  PROVE  S!SelectInv'
<1>1. CASE UNCHANGED S!vars
  <2>1. UNCHANGED S!controlVars
    BY <1>1 DEF S!vars
  <2>2. S!StepsAreOfTheFamily' /\ S!MenusAreKnown'
    BY <1>1, <2>1, NamedStays
       DEF S!vars, S!SelectInv, S!StepsAreOfTheFamily, S!MenusAreKnown, S!MenuSteps,
           S!CollectionSteps
  <2>3. S!OnlyTheAsked' /\ S!VerifiedIsSelected' /\ S!NotDeliveredIsTrue'
    BY <1>1, <2>1, NamedStays
       DEF S!vars, S!SelectInv, S!SelectionIsHonest, S!OnlyTheAsked, S!VerifiedIsSelected,
           S!NotDeliveredIsTrue
  <2> QED
    BY <1>1, <2>1, <2>2, <2>3, NamedStays DEF S!vars, S!SelectInv, S!SelectionIsHonest
<1>2. CASE S!Land \/ S!MenuOpens \/ S!MenuCloses \/ S!UserOpensMenu
  BY <1>2, SelectLandIsKept, MenuOpensIsKept, MenuClosesIsKept, UserOpensMenuIsKept
<1>3. CASE S!Start \/ S!Write \/ S!Check
  BY <1>3, SelectStartIsKept, WriteIsKept, CheckIsKept
<1>4. CASE S!Menu \/ S!Open \/ S!Seek \/ S!Press \/ S!Close \/ S!Verify
  BY <1>4, MenuIsKept, OpenIsKept, SeekIsKept, PressIsKept, CloseIsKept, SelectVerifyIsKept
<1>5. CASE S!Search \/ S!Select \/ S!PressItem
  BY <1>5, SelectSearchIsKept, SelectIsKept, PressItemIsKept
<1> QED
  BY <1>1, <1>2, <1>3, <1>4, <1>5 DEF S!Next

-----------------------------------------------------------------------------
(* The overlay of the cursor *)

\* What a backlog is after a control was appended, and after the first was taken.
LEMMA AppendIndexed ==
  ASSUME NEW T, NEW s \in Seq(T), NEW r \in T
  PROVE  /\ Append(s, r) \in Seq(T) /\ Len(s) \in Nat /\ Len(Append(s, r)) = Len(s) + 1
         /\ \A i \in 1 .. Len(s) : Append(s, r)[i] = s[i]
         /\ Append(s, r)[Len(s) + 1] = r
OBVIOUS

LEMMA TailIndexed ==
  ASSUME NEW T, NEW s \in Seq(T), s # <<>>
  PROVE  /\ Tail(s) \in Seq(T) /\ Len(s) \in Nat \ {0} /\ Len(Tail(s)) = Len(s) - 1
         /\ Head(s) = s[1] /\ Head(s) \in T
         /\ \A i \in 1 .. Len(Tail(s)) : Tail(s)[i] = s[i + 1]
OBVIOUS

\* The controls of each command, and what a backlog holds.
LEMMA KindsAre ==
  /\ O!Commands = {"click", "drag", "end"}
  /\ O!Kinds("click") = {"travel"} /\ O!Kinds("drag") = {"drag", "effect", "hide"}
  /\ O!Kinds("end") = {"disable"}
  /\ \A c \in O!Commands : \A k : k \in O!Kinds(c) => [from |-> c, kind |-> k] \in O!Requests
  /\ \A q \in O!Requests : q.from \in O!Commands /\ q.kind \in O!Kinds(q.from)
<1>1. O!Commands = {"click", "drag", "end"}
  BY DEF O!Commands
<1>2. /\ O!Kinds("click") = {"travel"} /\ O!Kinds("drag") = {"drag", "effect", "hide"}
      /\ O!Kinds("end") = {"disable"}
  BY DEF O!Kinds
<1>3. \A c \in O!Commands : \A k : k \in O!Kinds(c) => [from |-> c, kind |-> k] \in O!Requests
  BY <1>1, <1>2 DEF O!Requests, O!Controls
<1>4. \A q \in O!Requests : q.from \in O!Commands /\ q.kind \in O!Kinds(q.from)
  BY DEF O!Requests
<1> QED
  BY <1>1, <1>2, <1>3, <1>4

\* A control of a command ends.
LEMMA AnswerEffect ==
  ASSUME O!Shapes, NEW c \in O!Commands, NEW a \in O!Answers, O!Answer(c, a)
  PROVE  /\ stage' \in [O!Commands -> {"ready", "update", "lock", "starting", "wait"}]
         /\ control' \in [O!Commands -> {"none"} \union O!Controls] /\ sent' \in [O!Commands -> Nat]
         /\ answer' \in [O!Commands -> O!Answers] /\ helper' \in [O!Commands -> {0} \union O!Helpers]
         /\ stage'[c] = "ready" /\ control'[c] = "none" /\ sent'[c] = sent[c] + 1
         /\ answer'[c] = a /\ sent[c] \in Nat
         /\ \A d \in O!Commands : d # c => /\ stage'[d] = stage[d] /\ control'[d] = control[d]
                                          /\ sent'[d] = sent[d] /\ answer'[d] = answer[d]
                                          /\ helper'[d] = helper[d]
         /\ startLock' = IF startLock = c THEN "nobody" ELSE startLock
<1>1. /\ sent' = [sent EXCEPT ![c] = @ + 1] /\ answer' = [answer EXCEPT ![c] = a]
      /\ stage' = [stage EXCEPT ![c] = "ready"] /\ control' = [control EXCEPT ![c] = "none"]
      /\ helper' = [helper EXCEPT ![c] = 0]
      /\ startLock' = IF startLock = c THEN "nobody" ELSE startLock
  BY DEF O!Answer, O!Release, O!Holds
<1>2. /\ stage \in [O!Commands -> {"ready", "update", "lock", "starting", "wait"}]
      /\ control \in [O!Commands -> {"none"} \union O!Controls] /\ sent \in [O!Commands -> Nat]
      /\ answer \in [O!Commands -> O!Answers] /\ helper \in [O!Commands -> {0} \union O!Helpers]
  BY DEF O!Shapes
<1>3. stage' \in [O!Commands -> {"ready", "update", "lock", "starting", "wait"}]
  BY <1>1, <1>2
<1>4. control' \in [O!Commands -> {"none"} \union O!Controls] /\ answer' \in [O!Commands -> O!Answers]
  <2>2. control' \in [O!Commands -> {"none"} \union O!Controls]
    BY <1>1, <1>2
  <2>3. answer' \in [O!Commands -> O!Answers]
    BY <1>1, <1>2
  <2> QED
    BY <2>2, <2>3
<1>5. sent[c] \in Nat /\ sent[c] + 1 \in Nat
  BY <1>2
<1>6. sent' \in [O!Commands -> Nat] /\ helper' \in [O!Commands -> {0} \union O!Helpers]
  BY <1>1, <1>2, <1>5
<1> QED
  BY <1>1, <1>2, <1>3, <1>4, <1>5, <1>6

LEMMA AnswerControl ==
  ASSUME O!Shapes, O!ControlInv, NEW c \in O!Commands, NEW a \in O!Answers, O!Answer(c, a)
  PROVE  O!ControlInv'
<1>1. /\ stage'[c] = "ready" /\ control'[c] = "none" /\ sent'[c] = sent[c] + 1 /\ sent[c] \in Nat
      /\ \A d \in O!Commands : d # c => /\ stage'[d] = stage[d] /\ control'[d] = control[d]
                                       /\ sent'[d] = sent[d] /\ answer'[d] = answer[d]
      /\ startLock' = IF startLock = c THEN "nobody" ELSE startLock
  BY AnswerEffect
<1>2. \A d \in O!Commands :
        control'[d] \in O!Kinds(d) \/ (control'[d] = "none" /\ stage'[d] = "ready")
  BY <1>1 DEF O!ControlInv
<1>3. \A d \in O!Commands : stage'[d] = "starting" => startLock' = d /\ ~ O!Broadcast(control'[d])
  BY <1>1 DEF O!ControlInv
<1>4. /\ control'["drag"] = "drag" => sent'["drag"] = 0
      /\ O!EndsADrag(control'["drag"]) => sent'["drag"] = 1
  BY <1>1, KindsAre DEF O!ControlInv, O!EndsADrag
<1>5. answer'["end"] = "ok" => sent'["end"] # 0
  BY <1>1, KindsAre DEF O!ControlInv
<1> QED
  BY <1>2, <1>3, <1>4, <1>5 DEF O!ControlInv, O!Broadcast, O!Kinds, O!EndsADrag

\* A control ends, and the helpers go on as they are.
LEMMA AnswerKeeps ==
  ASSUME O!OverlayInv, NEW c \in O!Commands, NEW a \in O!Answers, O!Answer(c, a),
         stage[c] # "ready",
         UNCHANGED <<on, O!overlayVars>>, killed' = {} => killed = {},
         killed' = {} /\ stage[c] = "starting" => \A h \in O!Running : O!Listening(h),
         killed' = {} /\ c = "drag" /\ a = "ok" /\ O!EndsADrag(control[c]) =>
           \A h \in O!Running : O!Settled(h),
         c = "end" => a # "ok"
  PROVE  O!OverlayInv'
<1>1. O!Shapes /\ O!ControlInv /\ O!BacklogInv /\ O!HelpersInv
  BY DEF O!OverlayInv
<1>2. UNCHANGED <<on, life, first, socket, backlog, dragging>>
  BY DEF O!overlayVars
<1>3. /\ stage'[c] = "ready" /\ control'[c] = "none" /\ sent'[c] = sent[c] + 1 /\ sent[c] \in Nat
      /\ answer'[c] = a
      /\ \A d \in O!Commands : d # c => /\ stage'[d] = stage[d] /\ control'[d] = control[d]
                                       /\ sent'[d] = sent[d] /\ answer'[d] = answer[d]
                                       /\ helper'[d] = helper[d]
      /\ startLock' = IF startLock = c THEN "nobody" ELSE startLock
  BY <1>1, AnswerEffect
<1>4. O!Shapes' /\ O!ControlInv'
  BY <1>1, <1>2, AnswerEffect, AnswerControl DEF O!Shapes
<1>5. O!BacklogInv'
  <2>1. sent["drag"] # 0 => sent'["drag"] # 0
    BY <1>3, KindsAre
  <2>2. O!Running' = O!Running
    BY <1>2 DEF O!Running
  <2> QED
    BY <1>1, <1>2, <2>1, <2>2 DEF O!BacklogInv, O!Listening
<1>6. O!Running' = O!Running
  BY <1>2 DEF O!Running
<1>7. ASSUME killed' = {}, NEW h \in O!Running
      PROVE  O!Lone(h)'
  <2>1. O!Lone(h) /\ O!Listening(h)' = O!Listening(h)
    BY <1>1, <1>2, <1>7 DEF O!HelpersInv, O!Listening
  <2>2. CASE O!Listening(h) /\ socket.of = h
    BY <1>2, <1>6, <2>1, <2>2 DEF O!Lone
  <2>3. CASE ~ O!Listening(h)
    <3>1. stage[c] # "starting"
      BY <1>7, <2>3
    <3>2. startLock # c /\ startLock \in O!Commands
      BY <2>1, <2>3, <3>1 DEF O!Lone
    <3> QED
      BY <1>2, <1>3, <1>6, <2>1, <2>3, <3>2 DEF O!Lone
  <2> QED
    BY <2>1, <2>2, <2>3 DEF O!Lone
<1>8. ASSUME killed' = {}, (O!DragIsOver \/ O!EndIsStarting)', NEW h \in O!Running
      PROVE  O!Settled(h)'
  <2>1. O!Settled(h)' = O!Settled(h)
    BY <1>2 DEF O!Settled
  <2>2. CASE c # "drag"
    <3>1. O!DragIsOver \/ O!EndIsStarting
      BY <1>3, <1>8, <2>2, KindsAre DEF O!DragIsOver, O!EndIsStarting
    <3> QED
      BY <1>1, <1>8, <2>1, <3>1 DEF O!HelpersInv
  <2>3. CASE c = "drag"
    <3>1. a = "ok" /\ sent["drag"] = 1
      BY <1>3, <1>8, <2>3 DEF O!DragIsOver, O!EndIsStarting
    <3>2. CASE control["drag"] \in O!Kinds("drag")
      <4>1. O!EndsADrag(control["drag"])
        BY <1>1, <3>1, <3>2, KindsAre DEF O!ControlInv, O!EndsADrag
      <4> QED
        BY <1>8, <2>1, <2>3, <3>1, <4>1
    <3> QED
      BY <1>1, <2>3, <3>2 DEF O!ControlInv
  <2> QED
    BY <2>2, <2>3
<1>9. ASSUME killed' = {}, answer'["end"] = "ok"
      PROVE  on' \/ O!Running' = {}
  <2>1. answer["end"] = "ok"
    BY <1>3, <1>9, KindsAre
  <2> QED
    BY <1>1, <1>2, <1>6, <1>9, <2>1 DEF O!HelpersInv
<1>10. O!HelpersInv'
  BY <1>6, <1>7, <1>8, <1>9 DEF O!HelpersInv
<1> QED
  BY <1>4, <1>5, <1>10 DEF O!OverlayInv

\* A command goes on to another step, and nothing else changes.
LEMMA GotoKeeps ==
  ASSUME O!OverlayInv, NEW c \in O!Commands, stage[c] \notin {"ready", "starting"},
         O!Goto(c, "lock"),
         UNCHANGED <<on, O!overlayVars, startLock, control, sent, answer, helper, killed>>
  PROVE  O!OverlayInv'
<1>1. O!Shapes /\ O!ControlInv /\ O!BacklogInv /\ O!HelpersInv
  BY DEF O!OverlayInv
<1>2. UNCHANGED <<on, life, first, socket, backlog, dragging, startLock, control, sent, answer,
                  helper, killed>>
  BY DEF O!overlayVars
<1>3. /\ stage' \in [O!Commands -> {"ready", "update", "lock", "starting", "wait"}]
      /\ stage'[c] = "lock"
      /\ \A d \in O!Commands : d # c => stage'[d] = stage[d]
  BY <1>1 DEF O!Goto, O!Shapes
<1>4. O!Shapes'
  BY <1>1, <1>2, <1>3 DEF O!Shapes
<1>5. O!ControlInv'
  <2>1. \A d \in O!Commands : /\ stage'[d] = "starting" => stage[d] = "starting"
                              /\ stage[d] = "ready" => stage'[d] = "ready"
    BY <1>3
  <2>2. /\ \A d \in O!Commands : control[d] \in O!Kinds(d) \/ (control[d] = "none" /\ stage'[d] = "ready")
        /\ \A d \in O!Commands : stage'[d] = "starting" => startLock = d /\ ~ O!Broadcast(control[d])
    BY <1>1, <2>1 DEF O!ControlInv
  <2> QED
    BY <1>1, <1>2, <2>2 DEF O!ControlInv, O!Broadcast, O!Kinds, O!EndsADrag
<1>6. O!BacklogInv' /\ O!Running' = O!Running
  BY <1>1, <1>2 DEF O!BacklogInv, O!Running, O!Listening
<1>7. \A h : O!Lone(h) => O!Lone(h)'
  BY <1>2, <1>3, <1>6 DEF O!Lone, O!Listening
<1>8. \A h : O!Settled(h)' <=> O!Settled(h)
  BY <1>2 DEF O!Settled
<1>9. (O!DragIsOver \/ O!EndIsStarting)' => O!DragIsOver \/ O!EndIsStarting
  BY <1>2, <1>3, KindsAre DEF O!DragIsOver, O!EndIsStarting
<1>10. O!HelpersInv'
  BY <1>1, <1>2, <1>6, <1>7, <1>8, <1>9 DEF O!HelpersInv
<1> QED
  BY <1>4, <1>5, <1>6, <1>10 DEF O!OverlayInv

\* A command sends its next control.
LEMMA BeginOverlay ==
  ASSUME O!OverlayInv, NEW c \in O!Commands, O!Begin(c)
  PROVE  O!OverlayInv'
<1>1. O!Shapes /\ O!ControlInv /\ O!BacklogInv /\ O!HelpersInv
  BY DEF O!OverlayInv
<1>2. UNCHANGED <<life, first, socket, backlog, dragging, startLock, sent, answer, helper, killed>>
      /\ stage[c] = "ready" /\ on' = (on /\ c # "end")
  BY DEF O!Begin, O!overlayVars
<1>3. PICK s \in O!Script(c) : sent[c] < Len(s) /\ control' = [control EXCEPT ![c] = s[sent[c] + 1]]
  BY DEF O!Begin
<1>4. /\ stage' \in [O!Commands -> {"ready", "update", "lock", "starting", "wait"}]
      /\ stage'[c] = "update"
      /\ \A d \in O!Commands : d # c => stage'[d] = stage[d]
  BY <1>1 DEF O!Begin, O!Goto, O!Shapes
<1>5. sent[c] \in Nat
  BY <1>1 DEF O!Shapes
<1>6. s[sent[c] + 1] \in O!Kinds(c)
      /\ (c = "drag" => IF sent[c] = 0 THEN s[sent[c] + 1] = "drag"
                        ELSE sent[c] = 1 /\ O!EndsADrag(s[sent[c] + 1]))
      /\ (c = "end" => sent[c] = 0)
  <2>1. CASE c = "click"
    <3>1. s = <<"travel">>
      BY <1>3, <2>1 DEF O!Script
    <3>2. sent[c] = 0
      BY <1>3, <1>5, <3>1
    <3> QED
      BY <2>1, <3>1, <3>2, KindsAre
  <2>2. CASE c = "drag"
    <3>1. s = <<"drag", "effect">> \/ s = <<"drag", "hide">>
      BY <1>3, <2>2 DEF O!Script
    <3>2. sent[c] = 0 \/ sent[c] = 1
      <4>1. Len(s) = 2
        BY <3>1
      <4> QED
        BY <1>3, <1>5, <4>1
    <3> QED
      BY <2>2, <3>1, <3>2, KindsAre DEF O!EndsADrag
  <2>3. CASE c = "end"
    <3>1. s = <<"disable">>
      BY <1>3, <2>3 DEF O!Script
    <3>2. sent[c] = 0
      BY <1>3, <1>5, <3>1
    <3> QED
      BY <2>3, <3>1, <3>2, KindsAre
  <2> QED
    BY <2>1, <2>2, <2>3, KindsAre
<1>7. O!Kinds(c) \subseteq O!Controls
  BY KindsAre DEF O!Controls
<1>8. /\ control' \in [O!Commands -> {"none"} \union O!Controls]
      /\ control'[c] = s[sent[c] + 1]
      /\ \A d \in O!Commands : d # c => control'[d] = control[d]
  BY <1>1, <1>3, <1>6, <1>7 DEF O!Shapes
<1>9. O!Shapes'
  BY <1>1, <1>2, <1>4, <1>8 DEF O!Shapes
<1>10. O!ControlInv'
  <2>1. \A d \in O!Commands :
          control'[d] \in O!Kinds(d) \/ (control'[d] = "none" /\ stage'[d] = "ready")
    BY <1>1, <1>4, <1>6, <1>8 DEF O!ControlInv
  <2>2. \A d \in O!Commands : stage'[d] = "starting" => startLock' = d /\ ~ O!Broadcast(control'[d])
    BY <1>1, <1>2, <1>4, <1>8 DEF O!ControlInv
  <2>3. /\ control'["drag"] = "drag" => sent'["drag"] = 0
        /\ O!EndsADrag(control'["drag"]) => sent'["drag"] = 1
    BY <1>1, <1>2, <1>6, <1>8, KindsAre DEF O!ControlInv, O!EndsADrag
  <2>4. answer'["end"] = "ok" => sent'["end"] # 0
    BY <1>1, <1>2 DEF O!ControlInv
  <2> QED
    BY <2>1, <2>2, <2>3, <2>4 DEF O!ControlInv, O!Broadcast, O!Kinds, O!EndsADrag
<1>11. O!BacklogInv' /\ O!Running' = O!Running
  BY <1>1, <1>2 DEF O!BacklogInv, O!Running, O!Listening
<1>12. ASSUME NEW h, O!Lone(h)
       PROVE  O!Lone(h)'
  <2>1. startLock \in O!Commands /\ stage[startLock] = "starting" => startLock # c
    BY <1>2
  <2> QED
    BY <1>2, <1>4, <1>8, <1>11, <1>12, <2>1 DEF O!Lone, O!Listening
<1>13. \A h : O!Settled(h)' <=> O!Settled(h)
  BY <1>2 DEF O!Settled
<1>14. (O!DragIsOver \/ O!EndIsStarting)' => O!DragIsOver \/ O!EndIsStarting
  BY <1>2, <1>4, <1>8, KindsAre DEF O!DragIsOver, O!EndIsStarting
<1>15. answer["end"] = "ok" => c # "end"
  BY <1>1, <1>6 DEF O!ControlInv
<1>16. O!HelpersInv'
  BY <1>1, <1>2, <1>11, <1>12, <1>13, <1>14, <1>15 DEF O!HelpersInv
<1> QED
  BY <1>9, <1>10, <1>11, <1>16 DEF O!OverlayInv

\* A control reaches the helper at the socket.
LEMMA DeliverOverlay ==
  ASSUME O!OverlayInv, NEW c \in O!Commands, stage[c] \notin {"ready", "starting"},
         O!Reachable, O!Deliver(c),
         startLock' = startLock \/ (startLock' = c /\ startLock = "nobody")
  PROVE  O!OverlayInv'
<1> DEFINE q == [from |-> c, kind |-> control[c]]
           t == socket.of
<1>1. O!Shapes /\ O!ControlInv /\ O!BacklogInv /\ O!HelpersInv
  BY DEF O!OverlayInv
<1>2. /\ UNCHANGED <<on, life, first, socket, dragging, control, sent, answer, killed>>
      /\ backlog' = [backlog EXCEPT ![t] = Append(@, q)]
      /\ helper' = [helper EXCEPT ![c] = t]
      /\ stage' = [stage EXCEPT ![c] = "wait"]
  BY DEF O!Deliver, O!Goto
<1>3. t \in O!Helpers /\ O!Listening(t)
  BY <1>1 DEF O!Reachable, O!Shapes
<1>4. control[c] \in O!Kinds(c) /\ q \in O!Requests
  BY <1>1, KindsAre DEF O!ControlInv
<1>5. backlog[t] \in Seq(O!Requests)
  BY <1>1, <1>3 DEF O!Shapes
<1>6. /\ Append(backlog[t], q) \in Seq(O!Requests) /\ Len(backlog[t]) \in Nat
      /\ Len(Append(backlog[t], q)) = Len(backlog[t]) + 1
      /\ \A i \in 1 .. Len(backlog[t]) : Append(backlog[t], q)[i] = backlog[t][i]
      /\ Append(backlog[t], q)[Len(backlog[t]) + 1] = q
  BY <1>4, <1>5, AppendIndexed
<1>7. q.kind = control[c]
  OBVIOUS
<1> HIDE DEF q
<1>8. /\ backlog' \in [O!Helpers -> Seq(O!Requests)]
      /\ backlog'[t] = Append(backlog[t], q)
      /\ \A h \in O!Helpers : h # t => backlog'[h] = backlog[h]
  BY <1>1, <1>2, <1>3, <1>6 DEF O!Shapes
<1>9. /\ stage' \in [O!Commands -> {"ready", "update", "lock", "starting", "wait"}]
      /\ helper' \in [O!Commands -> {0} \union O!Helpers]
      /\ stage'[c] = "wait"
      /\ \A d \in O!Commands : d # c => stage'[d] = stage[d] /\ helper'[d] = helper[d]
  BY <1>1, <1>2, <1>3 DEF O!Shapes
<1>10. O!Shapes'
  BY <1>1, <1>2, <1>8, <1>9 DEF O!Shapes
<1>11. O!ControlInv'
  <2>1. \A d \in O!Commands : stage'[d] = "starting" => startLock' = d /\ ~ O!Broadcast(control'[d])
    BY <1>1, <1>2, <1>9, KindsAre DEF O!ControlInv
  <2>2. \A d \in O!Commands :
          control'[d] \in O!Kinds(d) \/ (control'[d] = "none" /\ stage'[d] = "ready")
    BY <1>1, <1>2, <1>4, <1>9 DEF O!ControlInv
  <2> QED
    BY <1>1, <1>2, <2>1, <2>2 DEF O!ControlInv, O!Broadcast, O!Kinds, O!EndsADrag
<1>12. O!Running' = O!Running /\ t \in O!Running /\ \A h : O!Listening(h)' <=> O!Listening(h)
  BY <1>2, <1>3 DEF O!Running, O!Listening
<1>13. O!BacklogInv'
  <2>1. /\ \A h \in O!Helpers : ~ O!Listening(h)' => backlog'[h] = <<>>
        /\ \A h \in O!Helpers \ O!Running' : h \notin dragging'
        /\ \A h \in O!Helpers : life'[h] = "starting" => h \notin dragging'
    BY <1>1, <1>2, <1>3, <1>8, <1>12 DEF O!BacklogInv
  <2>2. ASSUME NEW h \in O!Helpers, NEW i \in 1 .. Len(backlog'[h]),
               O!EndsADrag(backlog'[h][i].kind)
        PROVE  /\ sent["drag"] # 0
               /\ \A j \in 1 .. Len(backlog'[h]) : backlog'[h][j].kind = "drag" => j < i
    <3>1. CASE h # t
      BY <1>1, <1>8, <2>2, <3>1 DEF O!BacklogInv
    <3>2. CASE h = t /\ i \in 1 .. Len(backlog[t])
      <4>1. backlog'[h][i] = backlog[t][i]
        BY <1>6, <1>8, <3>2
      <4>2. /\ sent["drag"] # 0
            /\ \A j \in 1 .. Len(backlog[t]) : backlog[t][j].kind = "drag" => j < i
        BY <1>1, <1>3, <2>2, <3>2, <4>1 DEF O!BacklogInv
      <4>3. control[c] # "drag"
        BY <1>1, <1>4, <4>2, KindsAre DEF O!ControlInv
      <4>4. ASSUME NEW j \in 1 .. Len(backlog'[h]), backlog'[h][j].kind = "drag"
            PROVE  j < i
        <5>1. j # Len(backlog[t]) + 1
          BY <1>6, <1>7, <1>8, <3>2, <4>3, <4>4
        <5>2. j \in 1 .. Len(backlog[t]) /\ backlog'[h][j] = backlog[t][j]
          BY <1>6, <1>8, <3>2, <5>1
        <5> QED
          BY <4>2, <4>4, <5>2
      <4> QED
        BY <4>2, <4>4
    <3>3. CASE h = t /\ i = Len(backlog[t]) + 1
      <4>1. O!EndsADrag(control[c])
        BY <1>6, <1>7, <1>8, <2>2, <3>3
      <4>2. c = "drag" /\ control["drag"] # "drag" /\ sent["drag"] = 1
        BY <1>1, <1>4, <4>1, KindsAre DEF O!ControlInv, O!EndsADrag
      <4>3. ASSUME NEW j \in 1 .. Len(backlog'[h]), backlog'[h][j].kind = "drag"
            PROVE  j < i
        <5>1. j # Len(backlog[t]) + 1
          BY <1>6, <1>7, <1>8, <3>3, <4>2, <4>3
        <5> QED
          BY <1>6, <1>8, <3>3, <5>1
      <4> QED
        BY <4>2, <4>3
    <3> QED
      BY <1>6, <1>8, <3>1, <3>2, <3>3
  <2> QED
    BY <1>2, <2>1, <2>2 DEF O!BacklogInv, O!EndsADrag, O!Listening
<1>14. ASSUME killed = {}, NEW h \in O!Running
       PROVE  h = t /\ O!Lone(h)'
  <2>1. O!Lone(t)
    BY <1>1, <1>12, <1>14 DEF O!HelpersInv
  <2>2. h = t
    BY <1>14, <2>1 DEF O!Lone
  <2> QED
    BY <1>2, <1>3, <1>12, <2>1, <2>2 DEF O!Lone
<1>15. ASSUME killed = {}, (O!DragIsOver \/ O!EndIsStarting)', NEW h \in O!Running
       PROVE  O!Settled(h)'
  <2>1. O!DragIsOver \/ O!EndIsStarting
    BY <1>2, <1>9, <1>15, KindsAre DEF O!DragIsOver, O!EndIsStarting
  <2>2. O!Settled(h) /\ h = t
    BY <1>1, <1>14, <1>15, <2>1 DEF O!HelpersInv
  <2>3. control[c] # "drag"
    <3>1. control[c] = "drag" => c = "drag" /\ sent["drag"] = 0
      BY <1>1, <1>4, KindsAre DEF O!ControlInv
    <3> QED
      BY <2>1, <3>1 DEF O!DragIsOver, O!EndIsStarting
  <2>4. \A i \in 1 .. Len(backlog'[h]) : backlog'[h][i].kind # "drag"
    <3>1. \A i \in 1 .. Len(backlog[t]) : backlog[t][i].kind # "drag"
      BY <2>2 DEF O!Settled
    <3>2. ASSUME NEW i \in 1 .. Len(backlog'[h])
          PROVE  backlog'[h][i].kind # "drag"
      <4>1. CASE i = Len(backlog[t]) + 1
        BY <1>6, <1>7, <1>8, <2>2, <2>3, <4>1
      <4>2. CASE i # Len(backlog[t]) + 1
        <5>1. i \in 1 .. Len(backlog[t]) /\ backlog'[h][i] = backlog[t][i]
          BY <1>6, <1>8, <2>2, <4>2
        <5> QED
          BY <3>1, <5>1
      <4> QED
        BY <4>1, <4>2
    <3> QED
      BY <3>2
  <2> QED
    BY <1>2, <2>2, <2>4 DEF O!Settled
<1>16. O!HelpersInv'
  BY <1>1, <1>2, <1>12, <1>14, <1>15 DEF O!HelpersInv
<1> QED
  BY <1>10, <1>11, <1>13, <1>16 DEF O!OverlayInv

\* A command starts a helper.
LEMMA SpawnOverlay ==
  ASSUME O!OverlayInv, NEW c \in O!Commands, stage[c] = "lock", startLock = "nobody",
         ~ O!Broadcast(control[c]), ~ O!Reachable, on, O!Spawn(c), startLock' = c
  PROVE  O!OverlayInv'
<1>1. O!Shapes /\ O!ControlInv /\ O!BacklogInv /\ O!HelpersInv
  BY DEF O!OverlayInv
<1>2. PICK h \in O!Unused :
        /\ life' = [life EXCEPT ![h] = "starting"]
        /\ first' = [first EXCEPT ![h] = control[c]]
        /\ helper' = [helper EXCEPT ![c] = h]
  BY DEF O!Spawn
<1>3. /\ stage' = [stage EXCEPT ![c] = "starting"]
      /\ UNCHANGED <<on, socket, backlog, dragging, control, sent, answer, killed>>
  BY DEF O!Spawn, O!Goto
<1>4. h \in O!Helpers /\ life[h] = "unused" /\ h \notin O!Running /\ ~ O!Listening(h)
  BY <1>2 DEF O!Unused, O!Running, O!Listening
<1>5. /\ life' \in [O!Helpers -> {"unused", "starting", "drawing", "bound", "serving", "gone"}]
      /\ life'[h] = "starting"
      /\ \A g \in O!Helpers : g # h => life'[g] = life[g]
  BY <1>1, <1>2, <1>4 DEF O!Shapes
<1>6. first' \in [O!Helpers -> {"none"} \union O!Controls] /\ first'[h] = control[c]
  BY <1>1, <1>2, <1>4 DEF O!Shapes
<1>7. /\ stage' \in [O!Commands -> {"ready", "update", "lock", "starting", "wait"}]
      /\ helper' \in [O!Commands -> {0} \union O!Helpers]
      /\ stage'[c] = "starting" /\ helper'[c] = h
      /\ \A d \in O!Commands : d # c => stage'[d] = stage[d]
  BY <1>1, <1>2, <1>3, <1>4 DEF O!Shapes
<1>8. O!Shapes'
  BY <1>1, <1>3, <1>5, <1>6, <1>7 DEF O!Shapes
<1>9. O!ControlInv'
  <2>1. \A d \in O!Commands : stage'[d] = "starting" => startLock' = d /\ ~ O!Broadcast(control'[d])
    BY <1>1, <1>3, <1>7, KindsAre DEF O!ControlInv
  <2>2. \A d \in O!Commands :
          control'[d] \in O!Kinds(d) \/ (control'[d] = "none" /\ stage'[d] = "ready")
    BY <1>1, <1>3, <1>7 DEF O!ControlInv
  <2> QED
    BY <1>1, <1>3, <2>1, <2>2 DEF O!ControlInv, O!Broadcast, O!Kinds, O!EndsADrag
<1>10. O!Running' = O!Running \union {h}
  BY <1>4, <1>5 DEF O!Running
<1>11. O!BacklogInv'
  <2>1. \A g \in O!Helpers : O!Listening(g)' <=> O!Listening(g)
    BY <1>4, <1>5 DEF O!Listening
  <2> QED
    BY <1>1, <1>3, <1>4, <1>5, <1>10, <2>1 DEF O!BacklogInv, O!EndsADrag, O!Listening
<1>12. ASSUME killed = {}, NEW g \in O!Running
       PROVE  FALSE
  <2>1. O!Lone(g)
    BY <1>1, <1>12 DEF O!HelpersInv
  <2>2. ~ (O!Listening(g) /\ socket.of = g)
    <3>1. g \in O!Helpers /\ 0 \notin O!Helpers
      BY <1>12 DEF O!Running, O!Helpers
    <3> QED
      BY <3>1 DEF O!Reachable
  <2>3. startLock \notin O!Commands
    BY KindsAre
  <2> QED
    BY <2>1, <2>2, <2>3 DEF O!Lone
<1>13. ASSUME killed = {}
       PROVE  O!Running' = {h} /\ O!Lone(h)'
  <2>1. O!Running' = {h}
    BY <1>10, <1>12, <1>13
  <2>2. ~ O!Listening(h)'
    BY <1>5 DEF O!Listening
  <2>3. startLock' \in O!Commands /\ stage'[startLock'] = "starting" /\ helper'[startLock'] = h
    BY <1>7
  <2> QED
    BY <1>3, <1>5, <1>6, <2>1, <2>2, <2>3 DEF O!Lone, O!Listening
<1>14. ASSUME killed = {}, (O!DragIsOver \/ O!EndIsStarting)'
       PROVE  O!Settled(h)'
  <2>1. h \notin dragging' /\ backlog'[h] = <<>>
    BY <1>1, <1>3, <1>4 DEF O!BacklogInv
  <2>2. control[c] # "drag"
    <3>1. control[c] = "drag" => c = "drag" /\ sent["drag"] = 0
      BY <1>1, <1>7, KindsAre DEF O!ControlInv
    <3> QED
      BY <1>3, <1>14, <3>1 DEF O!DragIsOver, O!EndIsStarting
  <2>3. 1 .. Len(backlog'[h]) = {}
    BY <2>1
  <2> QED
    BY <1>6, <2>1, <2>2, <2>3 DEF O!Settled
<1>15. O!HelpersInv'
  BY <1>3, <1>13, <1>14 DEF O!HelpersInv
<1> QED
  BY <1>8, <1>9, <1>11, <1>15 DEF O!OverlayInv

\* A helper ends.
LEMMA EndEffect ==
  ASSUME O!Shapes, O!BacklogInv, NEW h, O!End(h), sent["drag"] # 0 => sent'["drag"] # 0
  PROVE  /\ life' \in [O!Helpers -> {"unused", "starting", "drawing", "bound", "serving", "gone"}]
         /\ backlog' \in [O!Helpers -> Seq(O!Requests)]
         /\ O!Running' = O!Running \ {h}
         /\ \A g \in O!Running' : /\ life'[g] = life[g] /\ backlog'[g] = backlog[g]
                                  /\ g \in dragging' <=> g \in dragging
         /\ O!BacklogInv'
<1>1. /\ life' = [life EXCEPT ![h] = "gone"] /\ backlog' = [backlog EXCEPT ![h] = <<>>]
      /\ dragging' = dragging \ {h}
  BY DEF O!End
<1>2. /\ life \in [O!Helpers -> {"unused", "starting", "drawing", "bound", "serving", "gone"}]
      /\ backlog \in [O!Helpers -> Seq(O!Requests)]
  BY DEF O!Shapes
<1>3. life' \in [O!Helpers -> {"unused", "starting", "drawing", "bound", "serving", "gone"}]
  BY <1>1, <1>2
<1>4. <<>> \in Seq(O!Requests)
  OBVIOUS
<1>5. backlog' \in [O!Helpers -> Seq(O!Requests)]
  BY <1>1, <1>2, <1>4
<1>6. \A g \in O!Helpers : IF g = h THEN life'[g] = "gone" /\ backlog'[g] = <<>>
                           ELSE life'[g] = life[g] /\ backlog'[g] = backlog[g]
  BY <1>1, <1>2
<1>7. O!Running' = O!Running \ {h}
  BY <1>6 DEF O!Running
<1>8. O!BacklogInv'
  <2>1. \A g \in O!Helpers : ~ O!Listening(g)' => backlog'[g] = <<>>
    BY <1>6 DEF O!BacklogInv, O!Listening
  <2>2. /\ \A g \in O!Helpers \ O!Running' : g \notin dragging'
        /\ \A g \in O!Helpers : life'[g] = "starting" => g \notin dragging'
    BY <1>1, <1>6, <1>7 DEF O!BacklogInv
  <2>3. ASSUME NEW g \in O!Helpers, NEW i \in 1 .. Len(backlog'[g]),
               O!EndsADrag(backlog'[g][i].kind)
        PROVE  /\ sent'["drag"] # 0
               /\ \A j \in 1 .. Len(backlog'[g]) : backlog'[g][j].kind = "drag" => j < i
    <3>1. g # h /\ backlog'[g] = backlog[g]
      <4>1. g = h => Len(backlog'[g]) = 0
        BY <1>6
      <4>2. g # h
        BY <2>3, <4>1
      <4> QED
        BY <1>6, <4>2
    <3> QED
      BY <2>3, <3>1 DEF O!BacklogInv
  <2> QED
    BY <2>1, <2>2, <2>3 DEF O!BacklogInv, O!EndsADrag, O!Listening
<1>9. \A g \in O!Running' : /\ life'[g] = life[g] /\ backlog'[g] = backlog[g]
                            /\ g \in dragging' <=> g \in dragging
  <2>1. \A g \in O!Running' : g \in O!Helpers /\ g # h
    BY <1>7 DEF O!Running
  <2> QED
    BY <1>1, <1>6, <2>1
<1> QED
  BY <1>3, <1>5, <1>7, <1>8, <1>9

\* The helper that runs ends: unless a command was killed, none is left.
LEMMA EndKeeps ==
  ASSUME O!OverlayInv, NEW h \in O!Running, O!End(h), killed' = killed,
         first' \in [O!Helpers -> {"none"} \union O!Controls],
         socket' \in [of : {0} \union O!Helpers, private : BOOLEAN],
         O!Shapes => /\ stage' \in [O!Commands -> {"ready", "update", "lock", "starting", "wait"}]
                     /\ control' \in [O!Commands -> {"none"} \union O!Controls]
                     /\ sent' \in [O!Commands -> Nat] /\ answer' \in [O!Commands -> O!Answers]
                     /\ helper' \in [O!Commands -> {0} \union O!Helpers],
         O!ControlInv', sent["drag"] # 0 => sent'["drag"] # 0
  PROVE  O!OverlayInv'
<1>1. O!Shapes /\ O!BacklogInv /\ O!HelpersInv
  BY DEF O!OverlayInv
<1>2. /\ life' \in [O!Helpers -> {"unused", "starting", "drawing", "bound", "serving", "gone"}]
      /\ backlog' \in [O!Helpers -> Seq(O!Requests)]
      /\ O!Running' = O!Running \ {h} /\ O!BacklogInv'
  BY <1>1, EndEffect
<1>3. O!Shapes'
  BY <1>1, <1>2 DEF O!Shapes
<1>4. killed = {} => O!Running' = {}
  BY <1>1, <1>2 DEF O!HelpersInv, O!Lone
<1>5. O!HelpersInv'
  BY <1>4 DEF O!HelpersInv
<1> QED
  BY <1>2, <1>3, <1>5 DEF O!OverlayInv

LEMMA EndAlone ==
  ASSUME O!OverlayInv, NEW h \in O!Running, O!End(h), UNCHANGED O!commandVars,
         first' \in [O!Helpers -> {"none"} \union O!Controls],
         socket' \in [of : {0} \union O!Helpers, private : BOOLEAN]
  PROVE  O!OverlayInv'
<1>1. UNCHANGED <<stage, control, startLock, sent, answer, helper, killed>>
  BY DEF O!commandVars
<1>2. O!ControlInv'
  BY <1>1 DEF O!OverlayInv, O!ControlInv, O!Broadcast, O!Kinds, O!EndsADrag
<1> QED
  BY <1>1, <1>2, EndKeeps DEF O!Shapes

\* The steps of a command.
LEMMA UpdateOverlay ==
  ASSUME O!OverlayInv, NEW c \in O!Commands, O!Update(c)
  PROVE  O!OverlayInv'
<1>1. stage[c] = "update"
  BY DEF O!Update
<1>2. CASE O!Broadcast(control[c]) \/ (on /\ socket = O!NoSocket)
  BY <1>1, <1>2, GotoKeeps DEF O!Update
<1>3. CASE ~ O!Broadcast(control[c]) /\ ~ on
  <2>1. O!Answer(c, "skipped") /\ UNCHANGED <<on, O!overlayVars, killed>>
    BY <1>3 DEF O!Update
  <2>2. "skipped" \in O!Answers
    BY DEF O!Answers
  <2> QED
    BY <1>1, <2>1, <2>2, AnswerKeeps
<1>4. CASE ~ O!Broadcast(control[c]) /\ on /\ socket # O!NoSocket
  <2>1. \/ O!Answer(c, "failed") /\ UNCHANGED <<on, O!overlayVars, killed>>
        \/ O!Reachable /\ O!Deliver(c) /\ UNCHANGED startLock
        \/ O!Goto(c, "lock")
           /\ UNCHANGED <<on, O!overlayVars, startLock, control, sent, answer, helper, killed>>
    BY <1>4 DEF O!Update
  <2>2. "failed" \in O!Answers
    BY DEF O!Answers
  <2>3. CASE O!Answer(c, "failed") /\ UNCHANGED <<on, O!overlayVars, killed>>
    BY <1>1, <2>2, <2>3, AnswerKeeps
  <2>4. CASE O!Reachable /\ O!Deliver(c) /\ UNCHANGED startLock
    BY <1>1, <2>4, DeliverOverlay
  <2>5. CASE O!Goto(c, "lock")
             /\ UNCHANGED <<on, O!overlayVars, startLock, control, sent, answer, helper, killed>>
    BY <1>1, <2>5, GotoKeeps
  <2> QED
    BY <2>1, <2>3, <2>4, <2>5
<1> QED
  BY <1>2, <1>3, <1>4

LEMMA SendAllOverlay ==
  ASSUME O!OverlayInv, NEW c \in O!Commands, O!SendAll(c)
  PROVE  O!OverlayInv'
<1>1. stage[c] = "lock" /\ startLock = "nobody"
  BY DEF O!SendAll
<1>2. CASE O!Reachable /\ O!Deliver(c) /\ startLock' = c
  BY <1>1, <1>2, DeliverOverlay
<1>3. CASE O!Answer(c, "nobody") /\ UNCHANGED <<on, O!overlayVars, killed>>
  <2>1. "nobody" \in O!Answers
    BY DEF O!Answers
  <2> QED
    BY <1>1, <1>3, <2>1, AnswerKeeps
<1> QED
  BY <1>2, <1>3 DEF O!SendAll

LEMMA SendOrSpawnOverlay ==
  ASSUME O!OverlayInv, NEW c \in O!Commands, O!SendOrSpawn(c)
  PROVE  O!OverlayInv'
<1>1. stage[c] = "lock" /\ startLock = "nobody" /\ ~ O!Broadcast(control[c])
  BY DEF O!SendOrSpawn
<1>2. CASE O!Reachable /\ O!Deliver(c) /\ startLock' = c
  BY <1>1, <1>2, DeliverOverlay
<1>3. CASE O!Answer(c, "skipped") /\ UNCHANGED <<on, O!overlayVars, killed>>
  <2>1. "skipped" \in O!Answers
    BY DEF O!Answers
  <2> QED
    BY <1>1, <1>3, <2>1, AnswerKeeps
<1>4. CASE ~ O!Reachable /\ on /\ O!Spawn(c) /\ startLock' = c
  BY <1>1, <1>4, SpawnOverlay
<1> QED
  BY <1>2, <1>3, <1>4 DEF O!SendOrSpawn

LEMMA StartedOverlay ==
  ASSUME O!OverlayInv, NEW c \in O!Commands, O!Started(c)
  PROVE  O!OverlayInv'
<1>1. /\ stage[c] = "starting" /\ O!Reachable /\ O!Answer(c, "ok")
      /\ UNCHANGED <<on, O!overlayVars, killed>>
  BY DEF O!Started
<1>2. O!Shapes /\ O!ControlInv /\ O!HelpersInv
  BY DEF O!OverlayInv
<1>3. "ok" \in O!Answers
  BY DEF O!Answers
<1>4. socket.of \in O!Running /\ O!Listening(socket.of)
  BY <1>1, <1>2 DEF O!Reachable, O!Listening, O!Running, O!Shapes
<1>5. killed = {} => \A h \in O!Running : O!Listening(h)
  BY <1>2, <1>4 DEF O!HelpersInv, O!Lone
<1>6. killed = {} /\ c = "drag" /\ O!EndsADrag(control[c]) => \A h \in O!Running : O!Settled(h)
  <2>1. c = "drag" /\ O!EndsADrag(control[c]) => O!EndIsStarting
    BY <1>1 DEF O!EndIsStarting, O!EndsADrag
  <2> QED
    BY <1>2, <2>1 DEF O!HelpersInv
<1>7. c # "end"
  BY <1>1, <1>2, KindsAre DEF O!ControlInv, O!Broadcast
<1> QED
  BY <1>1, <1>3, <1>5, <1>6, <1>7, AnswerKeeps

LEMMA GiveUpOverlay ==
  ASSUME O!OverlayInv, NEW c \in O!Commands, O!GiveUp(c) \/ O!Kill(c)
  PROVE  O!OverlayInv'
<1>1. "failed" \in O!Answers
  BY DEF O!Answers
<1>2. CASE O!GiveUp(c)
  <2>1. stage[c] \in {"lock", "wait"} /\ O!Answer(c, "failed")
        /\ UNCHANGED <<on, O!overlayVars, killed>>
    BY <1>2 DEF O!GiveUp
  <2> QED
    BY <1>1, <2>1, AnswerKeeps
<1>3. CASE O!Kill(c)
  <2>1. stage[c] = "starting" /\ O!Answer(c, "failed") /\ UNCHANGED <<on, O!overlayVars>>
        /\ killed' # {}
    BY <1>3 DEF O!Kill
  <2> QED
    BY <1>1, <2>1, AnswerKeeps
<1> QED
  BY <1>2, <1>3

LEMMA GiveUpStartingOverlay ==
  ASSUME O!OverlayInv, NEW c \in O!Commands, O!GiveUpStarting(c)
  PROVE  O!OverlayInv'
<1>1. /\ stage[c] = "starting" /\ O!End(helper[c]) /\ O!Answer(c, "failed")
      /\ UNCHANGED <<on, first, socket, killed>>
  BY DEF O!GiveUpStarting
<1>2. O!Shapes /\ O!ControlInv /\ O!BacklogInv /\ O!HelpersInv
  BY DEF O!OverlayInv
<1>3. "failed" \in O!Answers
  BY DEF O!Answers
<1>4. /\ stage' \in [O!Commands -> {"ready", "update", "lock", "starting", "wait"}]
      /\ control' \in [O!Commands -> {"none"} \union O!Controls] /\ sent' \in [O!Commands -> Nat]
      /\ answer' \in [O!Commands -> O!Answers] /\ helper' \in [O!Commands -> {0} \union O!Helpers]
      /\ stage'[c] = "ready" /\ sent'[c] = sent[c] + 1
      /\ answer'[c] = "failed" /\ sent[c] \in Nat
      /\ \A d \in O!Commands : d # c => /\ stage'[d] = stage[d] /\ control'[d] = control[d]
                                       /\ sent'[d] = sent[d] /\ answer'[d] = answer[d]
  BY <1>1, <1>2, <1>3, AnswerEffect
<1>5. O!ControlInv'
  BY <1>1, <1>2, <1>3, AnswerControl
<1>6. sent["drag"] # 0 => sent'["drag"] # 0
  BY <1>4, KindsAre
<1>7. /\ life' \in [O!Helpers -> {"unused", "starting", "drawing", "bound", "serving", "gone"}]
      /\ backlog' \in [O!Helpers -> Seq(O!Requests)]
      /\ O!Running' = O!Running \ {helper[c]}
      /\ \A g \in O!Running' : /\ life'[g] = life[g] /\ backlog'[g] = backlog[g]
                               /\ g \in dragging' <=> g \in dragging
      /\ O!BacklogInv'
  BY <1>1, <1>2, <1>6, EndEffect
<1>8. O!Shapes'
  BY <1>1, <1>2, <1>4, <1>7 DEF O!Shapes
<1>9. ASSUME killed = {}, NEW g \in O!Running'
      PROVE  O!Lone(g)'
  <2>1. g \in O!Running /\ g # helper[c] /\ O!Lone(g)
    BY <1>2, <1>7, <1>9 DEF O!HelpersInv
  <2>2. startLock = c
    BY <1>1, <1>2 DEF O!ControlInv
  <2>3. O!Listening(g) /\ socket.of = g
    BY <2>1, <2>2 DEF O!Lone
  <2>4. O!Listening(g)'
    BY <1>7, <1>9, <2>3 DEF O!Listening
  <2>5. \A f \in O!Running' : f = g
    BY <1>7, <2>1 DEF O!Lone
  <2> QED
    BY <1>1, <2>3, <2>4, <2>5 DEF O!Lone
<1>10. ASSUME killed = {}, (O!DragIsOver \/ O!EndIsStarting)', NEW g \in O!Running'
       PROVE  O!Settled(g)'
  <2>1. O!DragIsOver \/ O!EndIsStarting
    BY <1>4, <1>10, KindsAre DEF O!DragIsOver, O!EndIsStarting
  <2>2. O!Settled(g)
    BY <1>2, <1>7, <1>10, <2>1 DEF O!HelpersInv
  <2> QED
    BY <1>1, <1>7, <1>10, <2>2 DEF O!Settled
<1>11. ASSUME killed = {}, answer'["end"] = "ok"
       PROVE  on' \/ O!Running' = {}
  <2>1. answer["end"] = "ok"
    BY <1>4, <1>11, KindsAre
  <2> QED
    BY <1>1, <1>2, <1>7, <1>11, <2>1 DEF O!HelpersInv
<1>12. O!HelpersInv'
  BY <1>1, <1>9, <1>10, <1>11 DEF O!HelpersInv
<1> QED
  BY <1>5, <1>7, <1>8, <1>12 DEF O!OverlayInv

\* The steps of a helper.  It draws, binds its socket and protects it: the helper that runs
\* stays the only one.
LEMMA StartOverlay ==
  ASSUME O!OverlayInv, NEW h \in O!Helpers, O!Start(h)
  PROVE  O!OverlayInv'
<1>1. /\ life[h] = "starting" /\ first' = [first EXCEPT ![h] = "none"]
      /\ UNCHANGED <<on, O!commandVars>>
  BY DEF O!Start
<1>2. O!Shapes /\ O!ControlInv /\ O!BacklogInv /\ O!HelpersInv
  BY DEF O!OverlayInv
<1>3. first' \in [O!Helpers -> {"none"} \union O!Controls]
  BY <1>1, <1>2 DEF O!Shapes
<1>4. h \in O!Running /\ ~ O!Listening(h)
  BY <1>1 DEF O!Running, O!Listening
<1>5. CASE O!End(h) /\ UNCHANGED socket
  <2>1. socket' \in [of : {0} \union O!Helpers, private : BOOLEAN]
    BY <1>2, <1>5 DEF O!Shapes
  <2> QED
    BY <1>1, <1>3, <1>4, <1>5, <2>1, EndAlone
<1>6. CASE /\ life' = [life EXCEPT ![h] = "drawing"] /\ socket' = O!NoSocket
           /\ O!Handle(h, first[h]) /\ UNCHANGED backlog
  <2>1. /\ life' \in [O!Helpers -> {"unused", "starting", "drawing", "bound", "serving", "gone"}]
        /\ life'[h] = "drawing" /\ \A g \in O!Helpers : g # h => life'[g] = life[g]
    BY <1>2, <1>6 DEF O!Shapes
  <2>2. UNCHANGED <<stage, control, startLock, sent, answer, helper, killed, on, backlog>>
    BY <1>1, <1>6 DEF O!commandVars
  <2>3. socket' \in [of : {0} \union O!Helpers, private : BOOLEAN]
    BY <1>6 DEF O!NoSocket
  <2>4. O!Shapes' /\ O!ControlInv'
    <3>1. O!Shapes'
      BY <1>2, <1>3, <2>1, <2>2, <2>3 DEF O!Shapes
    <3>2. O!ControlInv'
      BY <1>2, <2>2 DEF O!ControlInv, O!Broadcast, O!Kinds, O!EndsADrag
    <3> QED
      BY <3>1, <3>2
  <2>5. O!Running' = O!Running
    BY <1>4, <2>1 DEF O!Running
  <2>6. /\ dragging' \subseteq dragging \union {h}
        /\ first[h] # "drag" => dragging' \subseteq dragging
    BY <1>6 DEF O!Handle
  <2>7. O!BacklogInv'
    <3>1. /\ \A g \in O!Helpers : ~ O!Listening(g)' => backlog'[g] = <<>>
          /\ \A g \in O!Helpers \ O!Running' : g \notin dragging'
          /\ \A g \in O!Helpers : life'[g] = "starting" => g \notin dragging'
      <4>1. \A g \in O!Helpers : O!Listening(g)' <=> O!Listening(g)
        BY <1>4, <2>1 DEF O!Listening
      <4> QED
        BY <1>2, <1>4, <2>1, <2>2, <2>5, <2>6, <4>1 DEF O!BacklogInv
    <3> QED
      BY <1>2, <2>2, <3>1 DEF O!BacklogInv, O!EndsADrag, O!Listening
  <2>8. ASSUME killed = {}
        PROVE  O!Running' = {h} /\ O!Lone(h)'
    <3>1. O!Lone(h)
      BY <1>2, <1>4, <2>8 DEF O!HelpersInv
    <3>2. O!Running' = {h}
      BY <1>4, <2>5, <3>1 DEF O!Lone
    <3>3. ~ O!Listening(h)'
      BY <2>1 DEF O!Listening
    <3> QED
      BY <1>4, <1>6, <2>1, <2>2, <3>1, <3>2, <3>3 DEF O!Lone, O!NoSocket
  <2>9. ASSUME killed = {}, (O!DragIsOver \/ O!EndIsStarting)'
        PROVE  O!Settled(h)'
    <3>1. O!DragIsOver \/ O!EndIsStarting
      BY <2>2, <2>9 DEF O!DragIsOver, O!EndIsStarting
    <3>2. O!Settled(h)
      BY <1>2, <1>4, <2>9, <3>1 DEF O!HelpersInv
    <3> QED
      BY <1>1, <2>1, <2>2, <2>6, <3>2 DEF O!Settled
  <2>10. O!HelpersInv'
    BY <1>2, <1>4, <2>2, <2>8, <2>9 DEF O!HelpersInv
  <2> QED
    BY <2>4, <2>7, <2>10 DEF O!OverlayInv
<1> QED
  BY <1>5, <1>6 DEF O!Start

\* A helper goes on to listen, at a socket that is its own.
LEMMA ListenKeeps ==
  ASSUME O!OverlayInv, NEW h \in O!Running, life[h] # "starting", NEW s \in {"bound", "serving"},
         life' = [life EXCEPT ![h] = s],
         socket' \in [of : {0} \union O!Helpers, private : BOOLEAN],
         killed = {} => socket'.of = h,
         UNCHANGED <<on, first, O!commandVars, backlog, dragging>>
  PROVE  O!OverlayInv'
<1>1. O!Shapes /\ O!ControlInv /\ O!BacklogInv /\ O!HelpersInv /\ h \in O!Helpers
  BY DEF O!OverlayInv, O!Running
<1>2. UNCHANGED <<on, first, stage, control, startLock, sent, answer, helper, killed, backlog,
                  dragging>>
  BY DEF O!commandVars
<1>3. /\ life' \in [O!Helpers -> {"unused", "starting", "drawing", "bound", "serving", "gone"}]
      /\ life'[h] = s /\ \A g \in O!Helpers : g # h => life'[g] = life[g]
  BY <1>1 DEF O!Shapes
<1>4. O!Shapes'
  BY <1>1, <1>2, <1>3 DEF O!Shapes
<1>5. O!ControlInv'
  BY <1>1, <1>2 DEF O!ControlInv, O!Broadcast, O!Kinds, O!EndsADrag
<1>6. O!Running' = O!Running /\ O!Listening(h)'
  BY <1>1, <1>3 DEF O!Running, O!Listening
<1>7. O!BacklogInv'
  <2>1. \A g \in O!Helpers : ~ O!Listening(g)' => ~ O!Listening(g)
    BY <1>3 DEF O!Listening
  <2>2. /\ \A g \in O!Helpers : ~ O!Listening(g)' => backlog'[g] = <<>>
        /\ \A g \in O!Helpers \ O!Running' : g \notin dragging'
        /\ \A g \in O!Helpers : life'[g] = "starting" => g \notin dragging'
    BY <1>1, <1>2, <1>3, <1>6, <2>1 DEF O!BacklogInv
  <2> QED
    BY <1>1, <1>2, <2>2 DEF O!BacklogInv, O!EndsADrag, O!Listening
<1>8. ASSUME killed = {}
      PROVE  O!Running' = {h} /\ O!Lone(h)'
  <2>1. O!Running' = {h}
    BY <1>1, <1>6, <1>8 DEF O!HelpersInv, O!Lone
  <2> QED
    BY <1>6, <1>8, <2>1 DEF O!Lone
<1>9. ASSUME killed = {}, (O!DragIsOver \/ O!EndIsStarting)'
      PROVE  O!Settled(h)'
  <2>1. O!DragIsOver \/ O!EndIsStarting
    BY <1>2, <1>9 DEF O!DragIsOver, O!EndIsStarting
  <2>2. O!Settled(h)
    BY <1>1, <1>9, <2>1 DEF O!HelpersInv
  <2> QED
    BY <1>2, <1>3, <2>2 DEF O!Settled
<1>10. O!HelpersInv'
  BY <1>1, <1>2, <1>6, <1>8, <1>9 DEF O!HelpersInv
<1> QED
  BY <1>4, <1>5, <1>7, <1>10 DEF O!OverlayInv

LEMMA BindOverlay ==
  ASSUME O!OverlayInv, NEW h \in O!Helpers, O!Bind(h) \/ O!Protect(h) \/ O!CheckOwnSession(h)
  PROVE  O!OverlayInv'
<1>1. O!Shapes /\ O!HelpersInv
  BY DEF O!OverlayInv
<1>2. h \in O!Running /\ life[h] # "starting" /\ UNCHANGED <<on, first, O!commandVars>>
  BY DEF O!Bind, O!Protect, O!CheckOwnSession, O!Running
<1>3. /\ first' \in [O!Helpers -> {"none"} \union O!Controls]
      /\ socket \in [of : {0} \union O!Helpers, private : BOOLEAN]
  BY <1>1, <1>2 DEF O!Shapes
<1>4. O!NoSocket \in [of : {0} \union O!Helpers, private : BOOLEAN]
  BY DEF O!NoSocket
<1>5. CASE O!End(h) /\ (socket' = socket \/ socket' = O!NoSocket)
  BY <1>2, <1>3, <1>4, <1>5, EndAlone
<1>6. CASE /\ life' = [life EXCEPT ![h] = "bound"] /\ socket' = [of |-> h, private |-> FALSE]
           /\ UNCHANGED <<backlog, dragging>>
  <2>1. socket' \in [of : {0} \union O!Helpers, private : BOOLEAN] /\ socket'.of = h
    BY <1>6
  <2> QED
    BY <1>2, <1>6, <2>1, ListenKeeps
<1>7. CASE /\ life[h] = "bound"
           /\ life' = [life EXCEPT ![h] = "serving"] /\ socket' = [socket EXCEPT !.private = TRUE]
           /\ UNCHANGED <<backlog, dragging>>
  <2>1. socket' \in [of : {0} \union O!Helpers, private : BOOLEAN] /\ socket'.of = socket.of
    BY <1>3, <1>7
  <2>2. killed = {} => socket.of = h
    BY <1>1, <1>2, <1>7 DEF O!HelpersInv, O!Lone, O!Listening
  <2> QED
    BY <1>2, <1>7, <2>1, <2>2, ListenKeeps
<1> QED
  BY <1>5, <1>6, <1>7 DEF O!Bind, O!Protect, O!CheckOwnSession

\* It handles a control.
LEMMA ServeOverlay ==
  ASSUME O!OverlayInv, NEW h \in O!Helpers, O!Serve(h)
  PROVE  O!OverlayInv'
<1> DEFINE q == Head(backlog[h])
<1>1. O!Shapes /\ O!ControlInv /\ O!BacklogInv /\ O!HelpersInv
  BY DEF O!OverlayInv
<1>2. /\ life[h] = "serving" /\ backlog[h] # <<>> /\ backlog[h] \in Seq(O!Requests)
      /\ UNCHANGED <<on, first, killed>>
  BY <1>1 DEF O!Serve, O!Shapes
<1>3. /\ Tail(backlog[h]) \in Seq(O!Requests) /\ Len(backlog[h]) \in Nat \ {0}
      /\ Len(Tail(backlog[h])) = Len(backlog[h]) - 1
      /\ q = backlog[h][1] /\ q \in O!Requests
      /\ \A i \in 1 .. Len(Tail(backlog[h])) : Tail(backlog[h])[i] = backlog[h][i + 1]
  BY <1>2, TailIndexed
<1>4. \/ q.kind = "disable" /\ O!End(h) /\ socket' = O!NoSocket
      \/ /\ q.kind # "disable" /\ O!Handle(h, q.kind)
         /\ backlog' = [backlog EXCEPT ![h] = Tail(@)]
         /\ UNCHANGED <<life, socket>>
  BY DEF O!Serve
<1>5. \/ /\ stage[q.from] = "wait" /\ control[q.from] = q.kind /\ O!Answer(q.from, "ok")
      \/ UNCHANGED <<stage, control, startLock, sent, answer, helper>>
  BY DEF O!Serve
<1>6. q.from \in O!Commands /\ q.kind \in O!Kinds(q.from) /\ "ok" \in O!Answers
  BY <1>3, KindsAre DEF O!Answers
<1> HIDE DEF q
<1>7. h \in O!Running /\ O!Listening(h)
  BY <1>2 DEF O!Running, O!Listening
<1>8. /\ stage' \in [O!Commands -> {"ready", "update", "lock", "starting", "wait"}]
      /\ control' \in [O!Commands -> {"none"} \union O!Controls] /\ sent' \in [O!Commands -> Nat]
      /\ answer' \in [O!Commands -> O!Answers] /\ helper' \in [O!Commands -> {0} \union O!Helpers]
      /\ O!ControlInv' /\ (sent["drag"] # 0 => sent'["drag"] # 0)
  <2>1. CASE O!Answer(q.from, "ok")
    <3>1. /\ stage' \in [O!Commands -> {"ready", "update", "lock", "starting", "wait"}]
          /\ control' \in [O!Commands -> {"none"} \union O!Controls] /\ sent' \in [O!Commands -> Nat]
          /\ answer' \in [O!Commands -> O!Answers] /\ helper' \in [O!Commands -> {0} \union O!Helpers]
          /\ sent'[q.from] = sent[q.from] + 1 /\ sent[q.from] \in Nat
          /\ \A d \in O!Commands : d # q.from => sent'[d] = sent[d]
      BY <1>1, <1>6, <2>1, AnswerEffect
    <3>2. O!ControlInv'
      BY <1>1, <1>6, <2>1, AnswerControl
    <3>3. sent["drag"] # 0 => sent'["drag"] # 0
      BY <3>1, KindsAre
    <3> QED
      BY <3>1, <3>2, <3>3
  <2>2. CASE UNCHANGED <<stage, control, startLock, sent, answer, helper>>
    <3>1. O!ControlInv'
      BY <1>1, <2>2 DEF O!ControlInv, O!Broadcast, O!Kinds, O!EndsADrag
    <3> QED
      BY <1>1, <2>2, <3>1 DEF O!Shapes
  <2> QED
    BY <1>5, <2>1, <2>2
<1>9. CASE q.kind = "disable" /\ O!End(h) /\ socket' = O!NoSocket
  <2>1. O!NoSocket \in [of : {0} \union O!Helpers, private : BOOLEAN]
    BY DEF O!NoSocket
  <2>2. first' \in [O!Helpers -> {"none"} \union O!Controls] /\ killed' = killed
    BY <1>1, <1>2 DEF O!Shapes
  <2> QED
    BY <1>7, <1>8, <1>9, <2>1, <2>2, EndKeeps
<1>10. CASE /\ q.kind # "disable" /\ O!Handle(h, q.kind)
            /\ backlog' = [backlog EXCEPT ![h] = Tail(@)]
            /\ UNCHANGED <<life, socket>>
  <2>1. /\ backlog' \in [O!Helpers -> Seq(O!Requests)]
        /\ backlog'[h] = Tail(backlog[h])
        /\ \A g \in O!Helpers : g # h => backlog'[g] = backlog[g]
    BY <1>1, <1>3, <1>10 DEF O!Shapes
  <2>2. O!Shapes'
    BY <1>1, <1>2, <1>8, <1>10, <2>1 DEF O!Shapes
  <2>3. O!Running' = O!Running /\ \A g : O!Listening(g)' <=> O!Listening(g)
    BY <1>10 DEF O!Running, O!Listening
  <2>4. /\ dragging' \subseteq dragging \union {h}
        /\ q.kind # "drag" => dragging' \subseteq dragging
        /\ O!EndsADrag(q.kind) => h \notin dragging'
    BY <1>10 DEF O!Handle, O!EndsADrag
  <2>5. \A i \in 1 .. Len(backlog'[h]) :
          i + 1 \in 1 .. Len(backlog[h]) /\ backlog'[h][i] = backlog[h][i + 1]
    BY <1>3, <2>1
  <2>6. O!BacklogInv'
    <3>1. /\ \A g \in O!Helpers : ~ O!Listening(g)' => backlog'[g] = <<>>
          /\ \A g \in O!Helpers \ O!Running' : g \notin dragging'
          /\ \A g \in O!Helpers : life'[g] = "starting" => g \notin dragging'
      BY <1>1, <1>2, <1>7, <1>10, <2>1, <2>3, <2>4 DEF O!BacklogInv
    <3>2. ASSUME NEW g \in O!Helpers, NEW i \in 1 .. Len(backlog'[g]),
                 O!EndsADrag(backlog'[g][i].kind)
          PROVE  /\ sent'["drag"] # 0
                 /\ \A j \in 1 .. Len(backlog'[g]) : backlog'[g][j].kind = "drag" => j < i
      <4>1. CASE g # h
        BY <1>1, <1>8, <2>1, <3>2, <4>1 DEF O!BacklogInv
      <4>2. CASE g = h
        <5>1. i + 1 \in 1 .. Len(backlog[h]) /\ O!EndsADrag(backlog[h][i + 1].kind)
          BY <2>5, <3>2, <4>2
        <5>2. /\ sent["drag"] # 0
              /\ \A j \in 1 .. Len(backlog[h]) : backlog[h][j].kind = "drag" => j < i + 1
          BY <1>1, <5>1 DEF O!BacklogInv
        <5>3. ASSUME NEW j \in 1 .. Len(backlog'[h]), backlog'[h][j].kind = "drag"
              PROVE  j < i
          <6>1. j + 1 < i + 1
            BY <2>5, <5>2, <5>3
          <6>2. j \in Nat /\ i \in Nat
            BY <3>2, <4>2, <5>3
          <6> QED
            BY <6>1, <6>2
        <5> QED
          BY <1>8, <4>2, <5>2, <5>3
      <4> QED
        BY <4>1, <4>2
    <3> QED
      BY <3>1, <3>2 DEF O!BacklogInv, O!EndsADrag, O!Listening
  <2>7. ASSUME killed = {}
        PROVE  O!Running' = {h} /\ O!Lone(h)'
    <3>1. O!Running' = {h} /\ socket.of = h
      BY <1>1, <1>7, <2>3, <2>7 DEF O!HelpersInv, O!Lone
    <3> QED
      BY <1>7, <1>10, <2>3, <3>1 DEF O!Lone
  <2>8. ASSUME killed = {}, (O!DragIsOver \/ O!EndIsStarting)'
        PROVE  O!Settled(h)'
    <3>1. CASE O!DragIsOver \/ O!EndIsStarting
      <4>1. O!Settled(h)
        BY <1>1, <1>7, <2>8, <3>1 DEF O!HelpersInv
      <4>2. \A i \in 1 .. Len(backlog[h]) : backlog[h][i].kind # "drag"
        BY <4>1 DEF O!Settled
      <4>3. q.kind # "drag"
        BY <1>3, <4>2
      <4> QED
        BY <1>2, <1>10, <2>4, <2>5, <4>1, <4>2, <4>3 DEF O!Settled
    <3>2. CASE ~ (O!DragIsOver \/ O!EndIsStarting)
      <4>1. ~ UNCHANGED <<stage, control, startLock, sent, answer, helper>>
        BY <2>8, <3>2 DEF O!DragIsOver, O!EndIsStarting
      <4>2. control[q.from] = q.kind /\ O!Answer(q.from, "ok")
        BY <1>5, <4>1
      <4>3. /\ stage'[q.from] = "ready" /\ sent'[q.from] = sent[q.from] + 1 /\ sent[q.from] \in Nat
            /\ \A d \in O!Commands : d # q.from => /\ stage'[d] = stage[d] /\ control'[d] = control[d]
                                                  /\ sent'[d] = sent[d] /\ answer'[d] = answer[d]
        BY <1>1, <1>6, <4>2, AnswerEffect
      <4>4. q.from = "drag"
        BY <2>8, <3>2, <4>3, KindsAre DEF O!DragIsOver, O!EndIsStarting
      <4>5. sent["drag"] = 1
        BY <2>8, <4>3, <4>4 DEF O!DragIsOver, O!EndIsStarting
      <4>6. O!EndsADrag(q.kind)
        BY <1>1, <1>6, <4>2, <4>4, <4>5, KindsAre DEF O!ControlInv, O!EndsADrag
      <4>7. \A j \in 1 .. Len(backlog[h]) : backlog[h][j].kind = "drag" => j < 1
        BY <1>1, <1>3, <4>6 DEF O!BacklogInv
      <4>8. ASSUME NEW i \in 1 .. Len(backlog'[h])
            PROVE  backlog'[h][i].kind # "drag"
        <5>1. i + 1 \in 1 .. Len(backlog[h]) /\ backlog'[h][i] = backlog[h][i + 1] /\ ~ (i + 1 < 1)
          BY <2>5, <4>8
        <5> QED
          BY <4>7, <5>1
      <4> QED
        BY <1>2, <1>10, <2>4, <4>6, <4>8 DEF O!Settled
    <3> QED
      BY <3>1, <3>2
  <2>9. ASSUME killed = {}, answer'["end"] = "ok"
        PROVE  on' \/ O!Running' = {}
    <3>1. answer'["end"] = answer["end"]
      <4>1. CASE UNCHANGED <<stage, control, startLock, sent, answer, helper>>
        BY <4>1
      <4>2. CASE O!Answer(q.from, "ok")
        <5>1. q.from # "end"
          BY <1>6, <1>10, KindsAre
        <5> QED
          BY <1>1, <1>6, <4>2, <5>1, AnswerEffect, KindsAre
      <4> QED
        BY <1>5, <4>1, <4>2
    <3> QED
      BY <1>1, <1>2, <2>3, <2>9, <3>1 DEF O!HelpersInv
  <2>10. O!HelpersInv'
    BY <1>2, <2>7, <2>8, <2>9 DEF O!HelpersInv
  <2> QED
    BY <1>8, <2>2, <2>6, <2>10 DEF O!OverlayInv
<1> QED
  BY <1>4, <1>9, <1>10

\* The overlay is enabled again, or nothing happens.
LEMMA EnableOverlay ==
  ASSUME O!OverlayInv, O!Enable \/ UNCHANGED O!vars
  PROVE  O!OverlayInv'
<1>1. /\ UNCHANGED <<life, first, socket, backlog, dragging, stage, control, startLock, sent, answer,
                     helper, killed>>
      /\ on => on'
  BY DEF O!Enable, O!vars, O!overlayVars, O!commandVars
<1>2. O!Shapes /\ O!ControlInv /\ O!BacklogInv /\ O!HelpersInv
  BY DEF O!OverlayInv
<1>3. O!Shapes'
  BY <1>1, <1>2 DEF O!Shapes
<1>4. O!ControlInv'
  BY <1>1, <1>2 DEF O!ControlInv, O!Broadcast, O!Kinds, O!EndsADrag
<1>5. O!Running' = O!Running /\ O!BacklogInv'
  BY <1>1, <1>2 DEF O!BacklogInv, O!Running, O!Listening
<1>6. \A h : (O!Lone(h)' <=> O!Lone(h)) /\ (O!Settled(h)' <=> O!Settled(h))
  BY <1>1, <1>5 DEF O!Lone, O!Settled, O!Listening
<1>7. O!HelpersInv'
  BY <1>1, <1>2, <1>5, <1>6 DEF O!HelpersInv, O!DragIsOver, O!EndIsStarting
<1> QED
  BY <1>3, <1>4, <1>5, <1>7 DEF O!OverlayInv

LEMMA OverlayInvStarts ==
  ASSUME O!Init
  PROVE  O!OverlayInv
<1>1. <<>> \in Seq(O!Requests) /\ Len(<<>>) = 0
  OBVIOUS
<1>2. O!Shapes
  BY <1>1 DEF O!Init, O!Shapes, O!NoSocket, O!Answers
<1>3. O!ControlInv
  BY KindsAre DEF O!Init, O!ControlInv, O!EndsADrag
<1>4. O!Running = {}
  BY DEF O!Init, O!Running
<1>5. O!BacklogInv
  BY <1>1 DEF O!Init, O!BacklogInv
<1>6. O!HelpersInv
  BY <1>4 DEF O!HelpersInv
<1> QED
  BY <1>2, <1>3, <1>5, <1>6 DEF O!OverlayInv

LEMMA OverlayInvIsKept ==
  ASSUME O!OverlayInv, [O!Next]_(O!vars)
  PROVE  O!OverlayInv'
<1>1. ASSUME NEW c \in O!Commands, O!Begin(c) \/ O!CommandStep(c) \/ O!Kill(c)
      PROVE  O!OverlayInv'
  BY <1>1, BeginOverlay, UpdateOverlay, SendAllOverlay, SendOrSpawnOverlay, StartedOverlay,
     GiveUpStartingOverlay, GiveUpOverlay DEF O!CommandStep
<1>2. ASSUME NEW h \in O!Helpers, O!HelperStep(h)
      PROVE  O!OverlayInv'
  BY <1>2, StartOverlay, BindOverlay, ServeOverlay DEF O!HelperStep
<1> QED
  BY <1>1, <1>2, EnableOverlay DEF O!Next

\* What the invariant says of the overlays that are shown.
LEMMA OverlayInvSuffices ==
  ASSUME O!OverlayInv
  PROVE  O!OneOverlay /\ O!AcknowledgedEndsAreReal
<1>1. O!HelpersInv /\ O!BacklogInv
  BY DEF O!OverlayInv
<1>2. O!Shown \subseteq O!Running
  BY DEF O!Shown, O!Running
<1>3. O!OneOverlay
  BY <1>1, <1>2 DEF O!OneOverlay, O!HelpersInv, O!Lone
<1>4. ASSUME killed = {}, sent["drag"] = 2, answer["drag"] = "ok"
      PROVE  dragging \cap O!Shown = {}
  BY <1>1, <1>2, <1>4 DEF O!HelpersInv, O!DragIsOver, O!Settled
<1>5. ASSUME killed = {}, ~ on, answer["end"] = "ok"
      PROVE  O!Shown = {}
  BY <1>1, <1>2, <1>5 DEF O!HelpersInv
<1> QED
  BY <1>3, <1>4, <1>5 DEF O!AcknowledgedEndsAreReal

-----------------------------------------------------------------------------
(* The C interface *)

\* The bounds are numbers.
ASSUME CallsAssumption == MaxCalls \in Nat /\ MaxAdapters \in Nat

LEMMA TwoThreads == F!Threads = {1, 2}
BY DEF F!Threads

\* A call that starts becomes an owner, one that ends gives up what it owned.
LEMMA OwnersFollow ==
  ASSUME F!OwnersAreCounted, NEW t \in F!Threads, NEW a \in 0 .. made, NEW d,
         a # 0 => (d = 1 /\ held[t] = 0 /\ held' = [held EXCEPT ![t] = a])
                  \/ (d = -1 /\ held[t] = a /\ held' = [held EXCEPT ![t] = 0]),
         a # 0, owners' = [owners EXCEPT ![a] = @ + d],
         UNCHANGED <<adapters, made>>
  PROVE  F!OwnersAreCounted'
<1> USE TwoThreads, CallsAssumption
<1>1. made \in 0 .. MaxAdapters /\ a \in F!Ids
  BY DEF F!OwnersAreCounted, F!Ids
<1>2. d \in {1, -1}
  OBVIOUS
<1>3. held \in [F!Threads -> 0 .. made] /\ held' \in [F!Threads -> 0 .. made]
  BY DEF F!OwnersAreCounted
<1>4. ASSUME NEW b \in F!Ids
      PROVE  owners'[b] = F!One(held'[1] = b) + F!One(held'[2] = b) + F!One(b \in adapters)
  <2>1. owners[b] = F!One(held[1] = b) + F!One(held[2] = b) + F!One(b \in adapters)
    BY DEF F!OwnersAreCounted
  <2>2. owners'[b] = IF b = a THEN owners[b] + d ELSE owners[b]
    BY <1>1 DEF F!OwnersAreCounted
  <2>3. b # 0
    BY DEF F!Ids
  <2>4. CASE d = 1
    <3>1. held[t] = 0 /\ held' = [held EXCEPT ![t] = a]
      BY <2>4
    <3> QED
      BY <1>1, <1>3, <2>1, <2>2, <2>3, <2>4, <3>1 DEF F!One
  <2>5. CASE d = -1
    <3>1. held[t] = a /\ held' = [held EXCEPT ![t] = 0]
      BY <2>5
    <3> QED
      BY <1>1, <1>3, <2>1, <2>2, <2>3, <2>5, <3>1 DEF F!One
  <2> QED
    BY <1>2, <2>4, <2>5
<1>5. owners' \in [F!Ids -> 0 .. 3]
  <2>1. \A b \in F!Ids : owners'[b] \in 0 .. 3
    BY <1>4 DEF F!One
  <2>2. DOMAIN owners' = F!Ids /\ owners' = [b \in F!Ids |-> owners'[b]]
    BY DEF F!OwnersAreCounted
  <2> QED
    BY <2>1, <2>2
<1>6. made' \in 0 .. MaxAdapters /\ adapters' \subseteq 1 .. made' /\ made' = made
  BY DEF F!OwnersAreCounted
<1>7. F!Ids' = F!Ids /\ F!Threads' = F!Threads
  BY DEF F!Ids, F!Threads
<1> QED
  BY <1>3, <1>4, <1>5, <1>6, <1>7 DEF F!OwnersAreCounted, F!One

\* An adapter is registered by its only owner, or gives up one.
LEMMA OwnersOfCreated ==
  ASSUME F!OwnersAreCounted, made < MaxAdapters, made' = made + 1,
         adapters' = adapters \cup {made + 1}, owners' = [owners EXCEPT ![made + 1] = 1],
         UNCHANGED held
  PROVE  F!OwnersAreCounted'
<1> USE TwoThreads, CallsAssumption DEF F!OwnersAreCounted, F!One, F!Ids
<1>1. made \in Nat /\ made + 1 \in 1 .. MaxAdapters /\ made + 1 \notin adapters
      /\ held \in [F!Threads -> 0 .. made]
  OBVIOUS
<1>2. held[1] # made + 1 /\ held[2] # made + 1
  BY <1>1
<1>3. \A a \in 1 .. MaxAdapters :
        owners'[a] = F!One(held[1] = a) + F!One(held[2] = a) + F!One(a \in adapters')
  BY <1>1, <1>2
<1>4. \A a \in 1 .. MaxAdapters : owners'[a] \in 0 .. 3
  BY <1>3
<1>5. owners' \in [1 .. MaxAdapters -> 0 .. 3]
  BY <1>4
<1>6. adapters' \subseteq 1 .. made' /\ held' \in [F!Threads -> 0 .. made']
  BY <1>1
<1> QED
  BY <1>1, <1>3, <1>5, <1>6

LEMMA OwnersOfDestroyed ==
  ASSUME F!OwnersAreCounted, NEW a \in adapters, adapters' = adapters \ {a},
         owners' = [owners EXCEPT ![a] = @ - 1], UNCHANGED <<made, held>>
  PROVE  F!OwnersAreCounted'
<1> USE TwoThreads, CallsAssumption DEF F!OwnersAreCounted, F!One, F!Ids
<1>1. a \in 1 .. MaxAdapters
  OBVIOUS
<1>4. \A b \in 1 .. MaxAdapters : owners'[b] = IF b = a THEN owners[b] - 1 ELSE owners[b]
  BY <1>1
<1>2. \A b \in 1 .. MaxAdapters :
        owners'[b] = F!One(held[1] = b) + F!One(held[2] = b) + F!One(b \in adapters')
  <2>1. \A b \in 1 .. MaxAdapters :
          owners[b] = F!One(held[1] = b) + F!One(held[2] = b) + F!One(b \in adapters)
    OBVIOUS
  <2>2. \A b \in 1 .. MaxAdapters : b # a => (b \in adapters' <=> b \in adapters)
    OBVIOUS
  <2>3. a \in adapters /\ a \notin adapters' /\ held[1] \in Nat /\ held[2] \in Nat
    OBVIOUS
  <2> QED
    BY ONLY <1>1, <1>4, <2>1, <2>2, <2>3 DEF F!One
<1>3. ASSUME NEW b \in 1 .. MaxAdapters
      PROVE  owners'[b] \in 0 .. 3
  <2>1. owners'[b] = F!One(held[1] = b) + F!One(held[2] = b) + F!One(b \in adapters')
    BY <1>2
  <2> QED
    BY ONLY <2>1 DEF F!One
<1> QED
  BY <1>1, <1>2, <1>3

LEMMA SharersOfUnchanged ==
  ASSUME F!SharersAreCounted, UNCHANGED <<handles, tokens, sharers, maker, using>>,
         made \in Nat, made' \in Nat, made <= made',
         \A t \in F!Threads : using[t] # 0 => held'[t] = held[t]
  PROVE  F!SharersAreCounted'
<1> USE CallsAssumption
<1>1. F!Ids' = F!Ids /\ F!Threads' = F!Threads /\ 1 .. made \subseteq 1 .. made'
  BY DEF F!Ids, F!Threads
<1>2. \A t \in F!Threads : using[t] # 0 => maker[using[t]] = <<t, held'[t]>>
  BY DEF F!SharersAreCounted
<1> QED
  BY <1>1, <1>2 DEF F!SharersAreCounted, F!One

\* Tables lose elements and calls change: it is enough that the counts follow.
LEMMA SharersFollow ==
  ASSUME F!SharersAreCounted, UNCHANGED <<tokens, maker, made>>,
         DOMAIN handles' = F!Threads, \A t \in F!Threads : handles'[t] \subseteq handles[t],
         using' \in [F!Threads -> 0 .. tokens],
         \A t \in F!Threads : using'[t] # 0 => maker[using'[t]] = <<t, held'[t]>>,
         sharers' = [k \in F!Ids |-> sharers'[k]],
         \A k \in F!Ids : k \notin 1 .. tokens => sharers'[k] = sharers[k],
         \A k \in 1 .. tokens :
           sharers'[k] = F!One(<<k, maker[k][2]>> \in handles'[maker[k][1]])
                         + F!One(using'[maker[k][1]] = k)
  PROVE  F!SharersAreCounted'
<1> USE CallsAssumption
<1>1. F!Ids' = F!Ids /\ F!Threads' = F!Threads
  BY DEF F!Ids, F!Threads
<1>2. ASSUME NEW k \in F!Ids
      PROVE  sharers'[k] \in 0 .. 2
  <2>1. CASE k \in 1 .. tokens
    <3>1. sharers'[k] = F!One(<<k, maker[k][2]>> \in handles'[maker[k][1]])
                        + F!One(using'[maker[k][1]] = k)
      BY <2>1
    <3> QED
      BY ONLY <3>1 DEF F!One
  <2>2. CASE k \notin 1 .. tokens
    BY <2>2 DEF F!SharersAreCounted
  <2> QED
    BY <2>1, <2>2
<1>3. sharers' \in [F!Ids -> 0 .. 2]
  BY <1>2
<1> QED
  BY <1>1, <1>3 DEF F!SharersAreCounted, F!One

\* An element is acquired by a call, in the thread that resolved it.
LEMMA SharersOfAcquired ==
  ASSUME F!SharersAreCounted, NEW t \in F!Threads, NEW h \in F!Ids, NEW a \in F!Ids,
         using[t] = 0, <<h, a>> \in handles[t],
         sharers' = [sharers EXCEPT ![h] = @ + 1], using' = [using EXCEPT ![t] = h],
         held' = [held EXCEPT ![t] = a], held \in [F!Threads -> 0 .. made],
         UNCHANGED <<handles, tokens, maker, made>>
  PROVE  F!SharersAreCounted'
<1> USE CallsAssumption
<1>1. h \in 1 .. tokens /\ maker[h] = <<t, a>> /\ tokens \in 0 .. MaxAdapters
  BY DEF F!SharersAreCounted
<1>2. ASSUME NEW k \in 1 .. tokens
      PROVE  sharers'[k] = F!One(<<k, maker[k][2]>> \in handles[maker[k][1]])
                           + F!One(using'[maker[k][1]] = k)
  BY <1>1 DEF F!SharersAreCounted, F!One, F!Ids
<1>3. /\ using' \in [F!Threads -> 0 .. tokens]
      /\ \A u \in F!Threads : using'[u] # 0 => maker[using'[u]] = <<u, held'[u]>>
  BY <1>1 DEF F!SharersAreCounted
<1>4. DOMAIN sharers = F!Ids /\ DOMAIN handles = F!Threads
  BY DEF F!SharersAreCounted
<1> QED
  BY <1>1, <1>2, <1>3, <1>4, SharersFollow

\* The call returns.
LEMMA SharersOfReleased ==
  ASSUME F!SharersAreCounted, NEW t \in F!Threads, using[t] # 0,
         sharers' = [sharers EXCEPT ![using[t]] = @ - 1], using' = [using EXCEPT ![t] = 0],
         held' = [held EXCEPT ![t] = 0], held \in [F!Threads -> 0 .. made],
         UNCHANGED <<handles, tokens, maker, made>>
  PROVE  F!SharersAreCounted'
<1> USE CallsAssumption
<1>1. tokens \in 0 .. MaxAdapters /\ using[t] \in 1 .. tokens /\ maker[using[t]] = <<t, held[t]>>
  BY DEF F!SharersAreCounted
<1>2. ASSUME NEW k \in 1 .. tokens
      PROVE  sharers'[k] = F!One(<<k, maker[k][2]>> \in handles[maker[k][1]])
                           + F!One(using'[maker[k][1]] = k)
  BY <1>1 DEF F!SharersAreCounted, F!One, F!Ids
<1>3. /\ using' \in [F!Threads -> 0 .. tokens]
      /\ \A u \in F!Threads : using'[u] # 0 => maker[using'[u]] = <<u, held'[u]>>
  BY <1>1 DEF F!SharersAreCounted
<1>4. DOMAIN sharers = F!Ids /\ DOMAIN handles = F!Threads
  BY DEF F!SharersAreCounted
<1> QED
  BY <1>1, <1>2, <1>3, <1>4, SharersFollow

\* The host frees an element.
LEMMA SharersOfFreed ==
  ASSUME F!SharersAreCounted, NEW t \in F!Threads, NEW h \in F!Ids, NEW a \in F!Ids,
         <<h, a>> \in handles[t],
         handles' = [handles EXCEPT ![t] = @ \ {<<h, a>>}],
         sharers' = [sharers EXCEPT ![h] = @ - 1],
         UNCHANGED <<tokens, maker, made, using, held>>
  PROVE  F!SharersAreCounted'
<1> USE CallsAssumption
<1>1. h \in 1 .. tokens /\ maker[h] = <<t, a>> /\ tokens \in 0 .. MaxAdapters
  BY DEF F!SharersAreCounted
<1>2. ASSUME NEW k \in 1 .. tokens
      PROVE  sharers'[k] = F!One(<<k, maker[k][2]>> \in handles'[maker[k][1]])
                           + F!One(using[maker[k][1]] = k)
  <2>1. handles'[maker[k][1]] = IF maker[k][1] = t THEN handles[t] \ {<<h, a>>}
                                ELSE handles[maker[k][1]]
    BY DEF F!SharersAreCounted
  <2> QED
    BY <1>1, <2>1 DEF F!SharersAreCounted, F!One, F!Ids
<1>3. /\ using \in [F!Threads -> 0 .. tokens]
      /\ \A u \in F!Threads : using[u] # 0 => maker[using[u]] = <<u, held[u]>>
  BY <1>1 DEF F!SharersAreCounted
<1>4. DOMAIN sharers = F!Ids /\ DOMAIN handles = F!Threads
  BY DEF F!SharersAreCounted
<1> QED
  BY <1>1, <1>2, <1>3, <1>4, SharersFollow

\* A thread ends, and its table with it.
LEMMA SharersOfEnded ==
  ASSUME F!SharersAreCounted, F!OwnersAreCounted, NEW t \in F!Threads, F!ThreadEnds(t)
  PROVE  F!SharersAreCounted'
<1> USE CallsAssumption
<1>1. /\ handles' = [handles EXCEPT ![t] = {}]
      /\ sharers' = [h \in F!Ids |-> IF \E a \in F!Ids : <<h, a>> \in handles[t]
                                     THEN sharers[h] - 1 ELSE sharers[h]]
      /\ UNCHANGED <<tokens, maker, made, using, held>>
  BY DEF F!ThreadEnds, F!adapterVars
<1>2. \A k \in 1 .. tokens : k \in F!Ids /\ maker[k][1] \in F!Threads /\ maker[k][2] \in F!Ids
  <2>1. tokens \in 0 .. MaxAdapters /\ made \in 0 .. MaxAdapters
    BY DEF F!SharersAreCounted, F!OwnersAreCounted
  <2>2. \A k \in 1 .. tokens : maker[k][1] \in F!Threads /\ maker[k][2] \in 1 .. made
    BY DEF F!SharersAreCounted
  <2> QED
    BY <2>1, <2>2 DEF F!Ids
<1>3. \A h \in F!Ids, a \in F!Ids :
        <<h, a>> \in handles[t] => h \in 1 .. tokens /\ maker[h] = <<t, a>>
  BY DEF F!SharersAreCounted
<1>4. ASSUME NEW k \in 1 .. tokens
      PROVE  sharers'[k] = F!One(<<k, maker[k][2]>> \in handles'[maker[k][1]])
                           + F!One(using[maker[k][1]] = k)
  <2>1. sharers[k] = F!One(<<k, maker[k][2]>> \in handles[maker[k][1]])
                     + F!One(using[maker[k][1]] = k)
    BY DEF F!SharersAreCounted
  <2>2. CASE maker[k][1] = t /\ <<k, maker[k][2]>> \in handles[t]
    <3>1. sharers'[k] = sharers[k] - 1 /\ handles'[maker[k][1]] = {}
      BY <1>1, <1>2, <2>2 DEF F!SharersAreCounted
    <3> QED
      BY <2>1, <2>2, <3>1 DEF F!One
  <2>3. CASE maker[k][1] = t /\ <<k, maker[k][2]>> \notin handles[t]
    <3>2. ASSUME NEW a \in F!Ids, <<k, a>> \in handles[t]
          PROVE  FALSE
      <4>1. maker[k] = <<t, a>>
        BY <1>2, <1>3, <3>2
      <4> QED
        BY <2>3, <3>2, <4>1
    <3>1. sharers'[k] = sharers[k] /\ handles'[maker[k][1]] = {}
      BY <1>1, <1>2, <2>3, <3>2 DEF F!SharersAreCounted
    <3> QED
      BY <2>1, <2>3, <3>1 DEF F!One
  <2>4. CASE maker[k][1] # t
    <3>2. ASSUME NEW a \in F!Ids, <<k, a>> \in handles[t]
          PROVE  FALSE
      <4>1. maker[k] = <<t, a>>
        BY <1>2, <1>3, <3>2
      <4> QED
        BY <2>4, <3>2, <4>1
    <3>1. sharers'[k] = sharers[k] /\ handles'[maker[k][1]] = handles[maker[k][1]]
      BY <1>1, <1>2, <2>4, <3>2 DEF F!SharersAreCounted
    <3> QED
      BY <2>1, <3>1
  <2> QED
    BY <2>2, <2>3, <2>4
<1>5. \A k \in F!Ids : k \notin 1 .. tokens => sharers'[k] = sharers[k]
  BY <1>1, <1>3
<1>6. /\ using \in [F!Threads -> 0 .. tokens]
      /\ \A u \in F!Threads : using[u] # 0 => maker[using[u]] = <<u, held[u]>>
      /\ DOMAIN handles = F!Threads
  BY DEF F!SharersAreCounted
<1>7. /\ DOMAIN handles' = F!Threads
      /\ \A u \in F!Threads : handles'[u] \subseteq handles[u]
      /\ sharers' = [k \in F!Ids |-> sharers'[k]]
  BY <1>1, <1>6
<1> QED
  BY <1>1, <1>4, <1>5, <1>6, <1>7, SharersFollow

\* An element is resolved: its token is new.
LEMMA SharersOfResolved ==
  ASSUME F!SharersAreCounted, F!OwnersAreCounted, NEW t \in F!Threads, using[t] = 0,
         held[t] # 0, tokens < MaxAdapters, tokens' = tokens + 1,
         handles' = [handles EXCEPT ![t] = @ \cup {<<tokens + 1, held[t]>>}],
         sharers' = [sharers EXCEPT ![tokens + 1] = 1],
         maker' = [maker EXCEPT ![tokens + 1] = <<t, held[t]>>],
         held' = [held EXCEPT ![t] = 0],
         UNCHANGED <<made, using>>
  PROVE  F!SharersAreCounted'
<1> USE CallsAssumption
<1>1. /\ tokens \in 0 .. MaxAdapters /\ held[t] \in 1 .. made /\ tokens + 1 \in F!Ids
      /\ held \in [F!Threads -> 0 .. made] /\ using \in [F!Threads -> 0 .. tokens]
  BY DEF F!SharersAreCounted, F!OwnersAreCounted, F!Ids
<1>2. F!Ids' = F!Ids /\ F!Threads' = F!Threads
  BY DEF F!Ids, F!Threads
<1>3. tokens' \in 0 .. MaxAdapters /\ using' \in [F!Threads -> 0 .. tokens']
  BY <1>1
<1>4. /\ sharers' \in [F!Ids -> 0 .. 2] /\ DOMAIN maker' = F!Ids
      /\ DOMAIN handles' = F!Threads
  BY <1>1 DEF F!SharersAreCounted
<1>5. ASSUME NEW u \in F!Threads, using'[u] # 0
      PROVE  maker'[using'[u]] = <<u, held'[u]>>
  <2>1. u # t /\ using[u] \in 1 .. tokens
    BY <1>1, <1>5
  <2> QED
    BY <1>1, <2>1 DEF F!SharersAreCounted, F!Ids
<1>6. ASSUME NEW u \in F!Threads, NEW e \in handles'[u]
      PROVE  e[1] \in 1 .. tokens' /\ maker'[e[1]] = <<u, e[2]>> /\ e = <<e[1], e[2]>>
  <2>1. CASE e \in handles[u]
    <3>1. e[1] \in 1 .. tokens /\ maker[e[1]] = <<u, e[2]>> /\ e = <<e[1], e[2]>>
      BY <2>1 DEF F!SharersAreCounted
    <3> QED
      BY <1>1, <3>1 DEF F!SharersAreCounted, F!Ids
  <2>2. CASE e \notin handles[u]
    <3>1. u = t /\ e = <<tokens + 1, held[t]>>
      BY <2>2 DEF F!SharersAreCounted
    <3> QED
      BY <1>1, <3>1 DEF F!SharersAreCounted, F!Ids
  <2> QED
    BY <2>1, <2>2
<1>7. ASSUME NEW k \in 1 .. tokens'
      PROVE  /\ maker'[k][1] \in F!Threads /\ maker'[k][2] \in 1 .. made
             /\ sharers'[k] = F!One(<<k, maker'[k][2]>> \in handles'[maker'[k][1]])
                              + F!One(using[maker'[k][1]] = k)
  <2>1. CASE k = tokens + 1
    <3>1. maker'[k] = <<t, held[t]>> /\ sharers'[k] = 1 /\ using[t] # k
      BY <1>1, <2>1 DEF F!SharersAreCounted, F!Ids
    <3>2. <<k, held[t]>> \in handles'[t]
      BY <2>1 DEF F!SharersAreCounted
    <3> QED
      BY <1>1, <3>1, <3>2 DEF F!One
  <2>2. CASE k \in 1 .. tokens
    <3>1. maker'[k] = maker[k] /\ sharers'[k] = sharers[k] /\ k # tokens + 1
      BY <1>1, <2>2 DEF F!SharersAreCounted, F!Ids
    <3>2. <<k, maker[k][2]>> \in handles'[maker[k][1]]
            <=> <<k, maker[k][2]>> \in handles[maker[k][1]]
      BY <3>1, <2>2 DEF F!SharersAreCounted
    <3>3. /\ maker[k][1] \in F!Threads /\ maker[k][2] \in 1 .. made
          /\ sharers[k] = F!One(<<k, maker[k][2]>> \in handles[maker[k][1]])
                          + F!One(using[maker[k][1]] = k)
      BY <2>2 DEF F!SharersAreCounted
    <3> QED
      BY <3>1, <3>2, <3>3 DEF F!One
  <2> QED
    BY <1>1, <2>1, <2>2
<1>8. made' = made /\ using' = using
  OBVIOUS
<1> QED
  BY <1>2, <1>3, <1>4, <1>5, <1>6, <1>7, <1>8 DEF F!SharersAreCounted, F!One

\* A string is allocated, handed over to the host, given back by it and freed.
LEMMA StringsFollow ==
  ASSUME F!StringsAreSomebodys, NEW t \in F!Threads,
         \/ /\ block[t] = 0
            /\ \E a \in F!Addresses \ allocated :
                 allocated' = allocated \cup {a} /\ block' = [block EXCEPT ![t] = a]
            /\ UNCHANGED <<known, hosted>>
         \/ /\ block[t] # 0 /\ block' = [block EXCEPT ![t] = 0]
            /\ known' = known \cup {block[t]} /\ hosted' = hosted \cup {block[t]}
            /\ UNCHANGED allocated
         \/ /\ block[t] = 0
            /\ \E a \in known :
                 /\ known' = known \ {a} /\ hosted' = hosted \ {a}
                 /\ block' = [block EXCEPT ![t] = a]
            /\ UNCHANGED allocated
         \/ /\ block[t] # 0 /\ block' = [block EXCEPT ![t] = 0]
            /\ allocated' = allocated \ {block[t]}
            /\ UNCHANGED <<known, hosted>>
         \/ UNCHANGED <<allocated, known, hosted, block>>
  PROVE  F!StringsAreSomebodys'
<1> USE TwoThreads DEF F!StringsAreSomebodys, F!Addresses
<1>1. ASSUME block[t] = 0, NEW a \in F!Addresses \ allocated,
             allocated' = allocated \cup {a}, block' = [block EXCEPT ![t] = a],
             UNCHANGED <<known, hosted>>
      PROVE  F!StringsAreSomebodys'
  BY <1>1
<1>2. ASSUME block[t] # 0, block' = [block EXCEPT ![t] = 0],
             known' = known \cup {block[t]}, hosted' = hosted \cup {block[t]},
             UNCHANGED allocated
      PROVE  F!StringsAreSomebodys'
  <2>1. block[t] \in allocated \ known /\ block' \in [F!Threads -> {0} \cup F!Addresses]
    BY <1>2
  <2>2. \A a \in allocated' \ known' : \E u \in F!Threads : block'[u] = a
    BY <1>2
  <2>3. \A u \in F!Threads : block'[u] # 0 => block'[u] \in allocated' \ known'
    BY <1>2
  <2>4. block'[1] = block'[2] => block'[1] = 0
    BY <1>2
  <2>5. hosted' = known' /\ known' \subseteq allocated' /\ allocated' \subseteq F!Addresses
    BY <1>2, <2>1
  <2>6. F!Threads' = F!Threads /\ F!Addresses' = F!Addresses
    BY DEF F!Threads
  <2> QED
    BY ONLY <2>1, <2>2, <2>3, <2>4, <2>5, <2>6 DEF F!StringsAreSomebodys
<1>3. ASSUME block[t] = 0, NEW a \in known,
             known' = known \ {a}, hosted' = hosted \ {a}, block' = [block EXCEPT ![t] = a],
             UNCHANGED allocated
      PROVE  F!StringsAreSomebodys'
  BY <1>3
<1>4. ASSUME block[t] # 0, block' = [block EXCEPT ![t] = 0],
             allocated' = allocated \ {block[t]}, UNCHANGED <<known, hosted>>
      PROVE  F!StringsAreSomebodys'
  BY <1>4
<1>5. ASSUME UNCHANGED <<allocated, known, hosted, block>>
      PROVE  F!StringsAreSomebodys'
  BY <1>5
<1> QED
  BY <1>1, <1>2, <1>3, <1>4, <1>5

\* What the other thread has is its own.
LEMMA CallsFollow ==
  ASSUME F!CallsHaveTheirOwn, NEW t \in F!Threads, NEW now,
         doing' = [doing EXCEPT ![t] = now],
         now \in {"idle", "act", "resolve", "command", "hand over", "free"},
         \A u \in F!Threads :
           u # t => held'[u] = held[u] /\ using'[u] = using[u] /\ block'[u] = block[u],
         held'[t] # 0 <=> now \in {"act", "resolve", "command", "hand over"},
         using'[t] # 0 <=> now = "act",
         block'[t] # 0 <=> now \in {"hand over", "free"}
  PROVE  F!CallsHaveTheirOwn'
BY TwoThreads DEF F!CallsHaveTheirOwn, F!Threads

LEMMA CallsOfUnchanged ==
  ASSUME F!CallsHaveTheirOwn, UNCHANGED <<doing, held, using, block>>
  PROVE  F!CallsHaveTheirOwn'
BY DEF F!CallsHaveTheirOwn, F!Threads

LEMMA OwnersOfUnchanged ==
  ASSUME F!OwnersAreCounted, UNCHANGED <<adapters, made, owners, held>>
  PROVE  F!OwnersAreCounted'
BY DEF F!OwnersAreCounted, F!Threads, F!Ids, F!One

\* A failure is set where it is read.
LEMMA ErrorsFollow ==
  ASSUME F!ErrorsAreKept,
         \/ UNCHANGED <<lastError, failure>>
         \/ \E t, code : F!FailWith(t, code)
         \/ \E t \in F!Threads : F!ThreadEnds(t)
  PROVE  F!ErrorsAreKept'
BY DEF F!ErrorsAreKept, F!Threads, F!FailWith, F!ThreadEnds

\* A call that is refused changes the error alone.
LEMMA RefusedIsSound ==
  ASSUME F!BoundaryInv, NEW t \in F!Threads, F!Refuse(t)
  PROVE  F!BoundaryInv'
<1>1. /\ UNCHANGED <<adapters, made, owners, handles, tokens, sharers, maker>>
      /\ UNCHANGED <<allocated, known, hosted, block, doing, held, using>>
      /\ F!FailWith(t, "invalid")
  BY DEF F!Refuse, F!adapterVars, F!handleVars, F!stringVars
<1>2. made \in Nat
  BY CallsAssumption DEF F!BoundaryInv, F!OwnersAreCounted
<1> QED
  BY <1>1, <1>2, OwnersOfUnchanged, SharersOfUnchanged, StringsFollow, CallsOfUnchanged, ErrorsFollow
     DEF F!BoundaryInv

LEMMA BoundaryParts ==
  ASSUME F!BoundaryInv
  PROVE  /\ made \in Nat /\ adapters \subseteq 1 .. made /\ held \in [F!Threads -> 0 .. made]
         /\ doing \in [F!Threads -> {"idle", "act", "resolve", "command", "hand over", "free"}]
         /\ using \in [F!Threads -> 0 .. tokens] /\ DOMAIN block = F!Threads
         /\ \A t \in F!Threads :
              /\ held[t] # 0 <=> doing[t] \in {"act", "resolve", "command", "hand over"}
              /\ using[t] # 0 <=> doing[t] = "act"
              /\ block[t] # 0 <=> doing[t] \in {"hand over", "free"}
<1>1. made \in Nat /\ adapters \subseteq 1 .. made /\ held \in [F!Threads -> 0 .. made]
  BY CallsAssumption DEF F!BoundaryInv, F!OwnersAreCounted
<1>2. using \in [F!Threads -> 0 .. tokens] /\ DOMAIN block = F!Threads
  BY DEF F!BoundaryInv, F!SharersAreCounted, F!StringsAreSomebodys
<1> QED
  BY <1>1, <1>2 DEF F!BoundaryInv, F!CallsHaveTheirOwn

\* A call that looks up its adapter.
LEMMA LookUpIsSound ==
  ASSUME F!BoundaryInv, NEW t \in F!Threads, NEW a, NEW now \in {"resolve", "command"},
         doing[t] = "idle", F!LookUp(t, a), F!Share(a), doing' = [doing EXCEPT ![t] = now],
         UNCHANGED F!handleVars, UNCHANGED F!stringVars, UNCHANGED F!errorVars, UNCHANGED using
  PROVE  F!BoundaryInv'
<1>0. a \in 0 .. made /\ a # 0 /\ held[t] = 0 /\ using[t] = 0 /\ block[t] = 0
  <2>1. a \in adapters /\ adapters \subseteq 1 .. made /\ made \in Nat
    BY BoundaryParts DEF F!LookUp
  <2>2. held[t] = 0 /\ using[t] = 0 /\ block[t] = 0
    BY BoundaryParts, doing[t] \notin {"act", "resolve", "command", "hand over", "free"}
  <2> QED
    BY <2>1, <2>2
<1>1. /\ held' = [held EXCEPT ![t] = a]
      /\ owners' = [owners EXCEPT ![a] = @ + 1]
      /\ UNCHANGED <<adapters, made, handles, tokens, sharers, maker, using>>
      /\ UNCHANGED <<allocated, known, hosted, block, lastError, failure>>
  BY DEF F!LookUp, F!Share, F!handleVars, F!stringVars, F!errorVars
<1>2. F!OwnersAreCounted'
  BY <1>0, <1>1, OwnersFollow DEF F!BoundaryInv
<1>3. F!SharersAreCounted'
  <2>1. \A u \in F!Threads : using[u] # 0 => held'[u] = held[u]
    BY <1>0, <1>1, BoundaryParts
  <2>2. made \in Nat
    BY BoundaryParts
  <2> QED
    BY <1>1, <2>1, <2>2, SharersOfUnchanged DEF F!BoundaryInv
<1>4. F!CallsHaveTheirOwn'
  <2>1. held'[t] # 0 /\ using'[t] = 0 /\ block'[t] = 0
    BY <1>0, <1>1, BoundaryParts
  <2>2. \A u \in F!Threads :
          u # t => held'[u] = held[u] /\ using'[u] = using[u] /\ block'[u] = block[u]
    BY <1>1, BoundaryParts
  <2> QED
    BY <2>1, <2>2, CallsFollow DEF F!BoundaryInv
<1> QED
  BY <1>1, <1>2, <1>3, <1>4, StringsFollow, ErrorsFollow DEF F!BoundaryInv

LEMMA CreateIsSound ==
  ASSUME F!BoundaryInv, NEW t \in F!Threads, F!Create(t)
  PROVE  F!BoundaryInv'
<1>1. CASE F!Refuse(t)
  BY <1>1, RefusedIsSound
<1>2. CASE ~ F!Refuse(t)
  <2>1. /\ made < MaxAdapters /\ made' = made + 1 /\ adapters' = adapters \cup {made + 1}
        /\ owners' = [owners EXCEPT ![made + 1] = 1]
        /\ UNCHANGED <<handles, tokens, sharers, maker, using, held, doing>>
        /\ UNCHANGED <<allocated, known, hosted, block, lastError, failure>>
    BY <1>2 DEF F!Create, F!handleVars, F!stringVars, F!errorVars
  <2>2. F!OwnersAreCounted'
    BY <2>1, OwnersOfCreated DEF F!BoundaryInv
  <2>3. F!SharersAreCounted'
    <3>1. made \in Nat
      BY BoundaryParts
    <3>2. made' \in Nat /\ made <= made'
      BY <2>1, <3>1
    <3> QED
      BY <2>1, <3>1, <3>2, SharersOfUnchanged DEF F!BoundaryInv
  <2> QED
    BY <2>1, <2>2, <2>3, CallsOfUnchanged, StringsFollow, ErrorsFollow DEF F!BoundaryInv
<1> QED
  BY <1>1, <1>2

LEMMA DestroyIsSound ==
  ASSUME F!BoundaryInv, NEW t \in F!Threads, NEW a \in F!Ids, F!Destroy(t, a)
  PROVE  F!BoundaryInv'
<1>1. CASE F!Refuse(t)
  BY <1>1, RefusedIsSound
<1>2. CASE ~ F!Refuse(t)
  <2>1. /\ a \in adapters /\ adapters' = adapters \ {a} /\ owners' = [owners EXCEPT ![a] = @ - 1]
        /\ UNCHANGED <<made, handles, tokens, sharers, maker, using, held, doing>>
        /\ UNCHANGED <<allocated, known, hosted, block, lastError, failure>>
    BY <1>2 DEF F!Destroy, F!handleVars, F!stringVars, F!errorVars
  <2>2. F!OwnersAreCounted'
    BY <2>1, OwnersOfDestroyed DEF F!BoundaryInv
  <2>3. F!SharersAreCounted'
    <3>1. made \in Nat
      BY BoundaryParts
    <3> QED
      BY <2>1, <3>1, SharersOfUnchanged DEF F!BoundaryInv
  <2> QED
    BY <2>1, <2>2, <2>3, CallsOfUnchanged, StringsFollow, ErrorsFollow DEF F!BoundaryInv
<1> QED
  BY <1>1, <1>2

LEMMA ResolveIsSound ==
  ASSUME F!BoundaryInv, NEW t \in F!Threads, NEW a \in F!Ids, F!Resolve(t, a) \/ F!Command(t, a)
  PROVE  F!BoundaryInv'
<1>1. CASE F!Refuse(t)
  BY <1>1, RefusedIsSound
<1>2. CASE ~ F!Refuse(t)
  BY <1>2, LookUpIsSound DEF F!Resolve, F!Command, F!Call
<1> QED
  BY <1>1, <1>2

\* A call that ends.
LEMMA UnshareIsSound ==
  ASSUME F!BoundaryInv, NEW t \in F!Threads, held[t] # 0, F!Unshare(t)
  PROVE  /\ F!OwnersAreCounted' /\ UNCHANGED <<adapters, made>>
         /\ held' = [held EXCEPT ![t] = 0] /\ held'[t] = 0
         /\ \A u \in F!Threads : u # t => held'[u] = held[u]
<1>1. /\ held[t] \in 0 .. made /\ held' = [held EXCEPT ![t] = 0]
      /\ owners' = [owners EXCEPT ![held[t]] = @ - 1] /\ UNCHANGED <<adapters, made>>
  BY BoundaryParts DEF F!Unshare
<1>2. owners' = [owners EXCEPT ![held[t]] = owners[held[t]] + -1]
  <2>1. made \in 0 .. MaxAdapters /\ owners \in [F!Ids -> 0 .. 3]
    BY DEF F!BoundaryInv, F!OwnersAreCounted
  <2>2. held[t] \in F!Ids
    <3>1. held[t] \in 0 .. made
      BY BoundaryParts
    <3> QED
      BY <2>1, <3>1, CallsAssumption DEF F!Ids
  <2> QED
    BY <1>1, <2>1, <2>2
<1>3. F!OwnersAreCounted'
  BY <1>1, <1>2, OwnersFollow DEF F!BoundaryInv
<1>4. held'[t] = 0 /\ \A u \in F!Threads : u # t => held'[u] = held[u]
  BY <1>1, BoundaryParts
<1> QED
  BY <1>1, <1>3, <1>4

LEMMA ResolvedIsSound ==
  ASSUME F!BoundaryInv, NEW t \in F!Threads, F!Resolved(t)
  PROVE  F!BoundaryInv'
<1>1. /\ doing[t] = "resolve" /\ doing' = [doing EXCEPT ![t] = "idle"] /\ F!Unshare(t)
      /\ UNCHANGED <<using, allocated, known, hosted, block>>
      /\ held[t] # 0 /\ using[t] = 0 /\ block[t] = 0
  BY BoundaryParts DEF F!Resolved, F!stringVars
<1>2. F!CallsHaveTheirOwn'
  BY <1>1, UnshareIsSound, CallsFollow DEF F!BoundaryInv
<1>3. F!SharersAreCounted'
  <2>1. CASE UNCHANGED F!handleVars
    <3>1. \A u \in F!Threads : using[u] # 0 => held'[u] = held[u]
      BY <1>1, UnshareIsSound
    <3>2. UNCHANGED <<handles, tokens, sharers, maker, using, made>>
      BY <1>1, <2>1, UnshareIsSound DEF F!handleVars
    <3>3. made \in Nat
      BY BoundaryParts
    <3> QED
      BY <3>1, <3>2, <3>3, SharersOfUnchanged DEF F!BoundaryInv
  <2>2. CASE ~ UNCHANGED F!handleVars
    BY <1>1, <2>2, UnshareIsSound, SharersOfResolved DEF F!BoundaryInv, F!Resolved
  <2> QED
    BY <2>1, <2>2
<1>4. F!ErrorsAreKept'
  BY ErrorsFollow DEF F!BoundaryInv, F!Resolved, F!Failing, F!errorVars
<1> QED
  BY <1>1, <1>2, <1>3, <1>4, UnshareIsSound, StringsFollow DEF F!BoundaryInv

LEMMA ActIsSound ==
  ASSUME F!BoundaryInv, NEW t \in F!Threads, NEW a \in F!Ids, NEW h \in F!Ids, F!Act(t, a, h)
  PROVE  F!BoundaryInv'
<1>1. CASE F!Refuse(t)
  BY <1>1, RefusedIsSound
<1>2. CASE ~ F!Refuse(t)
  <2>1. /\ doing[t] = "idle" /\ a \in adapters /\ held' = [held EXCEPT ![t] = a]
        /\ <<h, a>> \in handles[t] /\ owners' = [owners EXCEPT ![a] = @ + 1]
        /\ sharers' = [sharers EXCEPT ![h] = @ + 1] /\ using' = [using EXCEPT ![t] = h]
        /\ doing' = [doing EXCEPT ![t] = "act"]
        /\ UNCHANGED <<adapters, made, handles, tokens, maker>>
        /\ UNCHANGED <<allocated, known, hosted, block, lastError, failure>>
    BY <1>2 DEF F!Act, F!Call, F!LookUp, F!Share, F!Acquire, F!stringVars, F!errorVars
  <2>2. a \in 0 .. made /\ a # 0 /\ h # 0
    <3>1. adapters \subseteq 1 .. made /\ made \in Nat
      BY BoundaryParts
    <3> QED
      BY <2>1, <3>1 DEF F!Ids
  <2>3. held[t] = 0 /\ using[t] = 0 /\ block[t] = 0
    BY <2>1, BoundaryParts
  <2>4. F!OwnersAreCounted'
    BY <2>1, <2>2, <2>3, OwnersFollow DEF F!BoundaryInv
  <2>5. F!SharersAreCounted'
    <3>1. held \in [F!Threads -> 0 .. made]
      BY BoundaryParts
    <3> QED
      BY <2>1, <2>3, <3>1, SharersOfAcquired DEF F!BoundaryInv
  <2>6. F!CallsHaveTheirOwn'
    <3>1. held'[t] # 0 /\ using'[t] # 0 /\ block'[t] = 0
      BY <2>1, <2>2, <2>3, BoundaryParts
    <3>2. \A u \in F!Threads :
            u # t => held'[u] = held[u] /\ using'[u] = using[u] /\ block'[u] = block[u]
      BY <2>1, BoundaryParts
    <3> QED
      BY <2>1, <3>1, <3>2, CallsFollow DEF F!BoundaryInv
  <2> QED
    BY <2>1, <2>4, <2>5, <2>6, StringsFollow, ErrorsFollow DEF F!BoundaryInv
<1> QED
  BY <1>1, <1>2

LEMMA ActedIsSound ==
  ASSUME F!BoundaryInv, NEW t \in F!Threads, F!Acted(t)
  PROVE  F!BoundaryInv'
<1>1. /\ doing[t] = "act" /\ doing' = [doing EXCEPT ![t] = "idle"] /\ F!Unshare(t)
      /\ sharers' = [sharers EXCEPT ![using[t]] = @ - 1] /\ using' = [using EXCEPT ![t] = 0]
      /\ UNCHANGED <<handles, tokens, maker, allocated, known, hosted, block>>
  BY DEF F!Acted, F!stringVars
<1>2. held[t] # 0 /\ using[t] # 0 /\ block[t] = 0
  BY <1>1, BoundaryParts
<1>3. /\ F!OwnersAreCounted' /\ UNCHANGED <<adapters, made>>
      /\ held' = [held EXCEPT ![t] = 0] /\ held'[t] = 0
      /\ \A u \in F!Threads : u # t => held'[u] = held[u]
  BY <1>1, <1>2, UnshareIsSound
<1>4. F!SharersAreCounted'
  <2>1. held \in [F!Threads -> 0 .. made]
    BY BoundaryParts
  <2> QED
    BY <1>1, <1>2, <1>3, <2>1, SharersOfReleased DEF F!BoundaryInv
<1>5. F!CallsHaveTheirOwn'
  <2>1. using'[t] = 0 /\ \A u \in F!Threads : u # t => using'[u] = using[u]
    BY <1>1, BoundaryParts
  <2> QED
    BY <1>1, <1>2, <1>3, <2>1, CallsFollow DEF F!BoundaryInv
<1>6. F!ErrorsAreKept'
  BY ErrorsFollow DEF F!BoundaryInv, F!Acted, F!Failing, F!errorVars
<1> QED
  BY <1>1, <1>3, <1>4, <1>5, <1>6, StringsFollow DEF F!BoundaryInv

LEMMA FreeHandleIsSound ==
  ASSUME F!BoundaryInv, NEW t \in F!Threads, NEW a \in F!Ids, NEW h \in F!Ids,
         F!FreeHandle(t, a, h)
  PROVE  F!BoundaryInv'
<1>1. CASE F!Refuse(t)
  BY <1>1, RefusedIsSound
<1>2. CASE ~ F!Refuse(t)
  <2>1. /\ <<h, a>> \in handles[t] /\ handles' = [handles EXCEPT ![t] = @ \ {<<h, a>>}]
        /\ sharers' = [sharers EXCEPT ![h] = @ - 1]
        /\ UNCHANGED <<adapters, made, owners, tokens, maker, doing, held, using>>
        /\ UNCHANGED <<allocated, known, hosted, block, lastError, failure>>
    BY <1>2 DEF F!FreeHandle, F!adapterVars, F!stringVars, F!errorVars
  <2>2. F!SharersAreCounted'
    BY <2>1, SharersOfFreed DEF F!BoundaryInv
  <2> QED
    BY <2>1, <2>2, OwnersOfUnchanged, CallsOfUnchanged, StringsFollow, ErrorsFollow
       DEF F!BoundaryInv
<1> QED
  BY <1>1, <1>2

LEMMA ThreadEndsIsSound ==
  ASSUME F!BoundaryInv, NEW t \in F!Threads, F!ThreadEnds(t)
  PROVE  F!BoundaryInv'
<1>1. /\ UNCHANGED <<adapters, made, owners, doing, held, using>>
      /\ UNCHANGED <<allocated, known, hosted, block>>
  BY DEF F!ThreadEnds, F!adapterVars, F!stringVars
<1>2. F!SharersAreCounted'
  BY SharersOfEnded DEF F!BoundaryInv
<1> QED
  BY <1>1, <1>2, OwnersOfUnchanged, CallsOfUnchanged, StringsFollow, ErrorsFollow
     DEF F!BoundaryInv

LEMMA CommandedIsSound ==
  ASSUME F!BoundaryInv, NEW t \in F!Threads, F!Commanded(t)
  PROVE  F!BoundaryInv'
<1>1. doing[t] = "command" /\ UNCHANGED <<handles, tokens, sharers, maker, known, hosted, using>>
  BY DEF F!Commanded, F!handleVars
<1>2. held[t] # 0 /\ using[t] = 0 /\ block[t] = 0
  BY <1>1, BoundaryParts
<1>3. made \in Nat
  BY BoundaryParts
<1>4. F!ErrorsAreKept'
  BY ErrorsFollow DEF F!BoundaryInv, F!Commanded, F!Failing, F!errorVars
<1>5. ASSUME NEW a \in F!Addresses \ allocated,
             allocated' = allocated \cup {a}, block' = [block EXCEPT ![t] = a],
             doing' = [doing EXCEPT ![t] = "hand over"],
             UNCHANGED <<adapters, made, owners, held>>
      PROVE  F!BoundaryInv'
  <2>1. F!SharersAreCounted'
    <3>1. made' = made
      BY <1>5
    <3>2. made' \in Nat /\ made <= made'
      BY <1>3, <3>1
    <3> QED
      BY <1>1, <1>3, <1>5, <3>2, SharersOfUnchanged DEF F!BoundaryInv
  <2>2. F!StringsAreSomebodys'
    BY <1>1, <1>2, <1>5, StringsFollow DEF F!BoundaryInv
  <2>3. F!CallsHaveTheirOwn'
    <3>1. a # 0
      BY DEF F!Addresses
    <3>2. block'[t] # 0 /\ \A u \in F!Threads : u # t => block'[u] = block[u]
      BY <1>5, <3>1, BoundaryParts
    <3> QED
      BY <1>1, <1>2, <1>5, <3>2, CallsFollow DEF F!BoundaryInv
  <2> QED
    BY <1>4, <1>5, <2>1, <2>2, <2>3, OwnersOfUnchanged DEF F!BoundaryInv
<1>6. ASSUME doing' = [doing EXCEPT ![t] = "idle"], F!Unshare(t), UNCHANGED <<allocated, block>>
      PROVE  F!BoundaryInv'
  <2>1. F!CallsHaveTheirOwn'
    BY <1>1, <1>2, <1>6, UnshareIsSound, CallsFollow DEF F!BoundaryInv
  <2>2. F!SharersAreCounted'
    <3>1. \A u \in F!Threads : using[u] # 0 => held'[u] = held[u]
      BY <1>2, <1>6, UnshareIsSound
    <3> QED
      BY <1>1, <1>2, <1>3, <1>6, <3>1, UnshareIsSound, SharersOfUnchanged DEF F!BoundaryInv
  <2> QED
    BY <1>1, <1>2, <1>4, <1>6, <2>1, <2>2, UnshareIsSound, StringsFollow DEF F!BoundaryInv
<1> QED
  BY <1>5, <1>6 DEF F!Commanded, F!adapterVars

LEMMA HandOverIsSound ==
  ASSUME F!BoundaryInv, NEW t \in F!Threads, F!HandOver(t)
  PROVE  F!BoundaryInv'
<1>1. /\ doing[t] = "hand over" /\ doing' = [doing EXCEPT ![t] = "idle"] /\ F!Unshare(t)
      /\ known' = known \cup {block[t]} /\ hosted' = hosted \cup {block[t]}
      /\ block' = [block EXCEPT ![t] = 0]
      /\ UNCHANGED <<handles, tokens, sharers, maker, allocated, lastError, failure, using>>
  BY DEF F!HandOver, F!handleVars, F!errorVars
<1>2. held[t] # 0 /\ using[t] = 0 /\ block[t] # 0
  BY <1>1, BoundaryParts
<1>3. /\ F!OwnersAreCounted' /\ UNCHANGED <<adapters, made>>
      /\ held' = [held EXCEPT ![t] = 0] /\ held'[t] = 0
      /\ \A u \in F!Threads : u # t => held'[u] = held[u]
  BY <1>1, <1>2, UnshareIsSound
<1>4. F!CallsHaveTheirOwn'
  <2>1. block'[t] = 0 /\ \A u \in F!Threads : u # t => block'[u] = block[u]
    BY <1>1, BoundaryParts
  <2> QED
    BY <1>1, <1>2, <1>3, <2>1, CallsFollow DEF F!BoundaryInv
<1>5. F!SharersAreCounted'
  <2>1. made \in Nat
    BY BoundaryParts
  <2>2. \A u \in F!Threads : using[u] # 0 => held'[u] = held[u]
    BY <1>2, <1>3
  <2>3. made' \in Nat /\ made <= made'
    BY <1>3, <2>1
  <2> QED
    BY <1>1, <2>1, <2>2, <2>3, SharersOfUnchanged DEF F!BoundaryInv
<1>6. F!StringsAreSomebodys'
  BY <1>1, <1>2, StringsFollow DEF F!BoundaryInv
<1> QED
  BY <1>1, <1>3, <1>4, <1>5, <1>6, ErrorsFollow DEF F!BoundaryInv

LEMMA FreeStringIsSound ==
  ASSUME F!BoundaryInv, NEW t \in F!Threads, NEW a \in F!Addresses, F!FreeString(t, a)
  PROVE  F!BoundaryInv'
<1>1. /\ doing[t] = "idle" /\ hosted' = hosted \ {a} /\ F!Take(t, a)
      /\ UNCHANGED <<adapters, made, owners, handles, tokens, sharers, maker>>
      /\ UNCHANGED <<allocated, lastError, failure, held, using>>
  BY DEF F!FreeString, F!Call, F!adapterVars, F!handleVars, F!errorVars
<1>2. held[t] = 0 /\ using[t] = 0 /\ block[t] = 0
  BY <1>1, BoundaryParts
<1>3. made \in Nat
  BY BoundaryParts
<1>4. CASE a \in known
  <2>1. /\ known' = known \ {a} /\ block' = [block EXCEPT ![t] = a]
        /\ doing' = [doing EXCEPT ![t] = "free"]
    BY <1>1, <1>4 DEF F!Take
  <2>2. F!CallsHaveTheirOwn'
    <3>1. a # 0
      BY DEF F!Addresses
    <3>2. block'[t] # 0 /\ \A u \in F!Threads : u # t => block'[u] = block[u]
      BY <2>1, <3>1, BoundaryParts
    <3> QED
      BY <1>1, <1>2, <2>1, <3>2, CallsFollow DEF F!BoundaryInv
  <2>3. F!StringsAreSomebodys'
    BY <1>1, <1>2, <1>4, <2>1, StringsFollow DEF F!BoundaryInv
  <2> QED
    BY <1>1, <1>3, <2>2, <2>3, OwnersOfUnchanged, SharersOfUnchanged, ErrorsFollow
       DEF F!BoundaryInv
<1>5. CASE a \notin known
  <2>1. UNCHANGED <<known, block, doing>>
    BY <1>1, <1>5 DEF F!Take
  <2>2. hosted' = hosted
    BY <1>1, <1>5 DEF F!BoundaryInv, F!StringsAreSomebodys
  <2> QED
    BY <1>1, <1>3, <2>1, <2>2, OwnersOfUnchanged, SharersOfUnchanged, CallsOfUnchanged,
       StringsFollow, ErrorsFollow
       DEF F!BoundaryInv
<1> QED
  BY <1>4, <1>5

LEMMA FreedIsSound ==
  ASSUME F!BoundaryInv, NEW t \in F!Threads, F!Freed(t)
  PROVE  F!BoundaryInv'
<1>1. /\ doing[t] = "free" /\ doing' = [doing EXCEPT ![t] = "idle"]
      /\ allocated' = allocated \ {block[t]} /\ block' = [block EXCEPT ![t] = 0]
      /\ UNCHANGED <<adapters, made, owners, handles, tokens, sharers, maker>>
      /\ UNCHANGED <<known, hosted, lastError, failure, held, using>>
  BY DEF F!Freed, F!adapterVars, F!handleVars, F!errorVars
<1>2. held[t] = 0 /\ using[t] = 0 /\ block[t] # 0
  BY <1>1, BoundaryParts
<1>3. made \in Nat
  BY BoundaryParts
<1>4. F!CallsHaveTheirOwn'
  <2>1. block'[t] = 0 /\ \A u \in F!Threads : u # t => block'[u] = block[u]
    BY <1>1, BoundaryParts
  <2> QED
    BY <1>1, <1>2, <2>1, CallsFollow DEF F!BoundaryInv
<1>5. F!StringsAreSomebodys'
  BY <1>1, <1>2, StringsFollow DEF F!BoundaryInv
<1> QED
  BY <1>1, <1>3, <1>4, <1>5, OwnersOfUnchanged, SharersOfUnchanged, ErrorsFollow
     DEF F!BoundaryInv

LEMMA BoundaryInvStarts ==
  ASSUME F!Init
  PROVE  F!BoundaryInv
<1> USE TwoThreads, CallsAssumption DEF F!Init
<1>1. F!CallsHaveTheirOwn
  BY DEF F!CallsHaveTheirOwn
<1>2. F!OwnersAreCounted
  BY DEF F!OwnersAreCounted, F!One, F!Ids
<1>3. F!SharersAreCounted
  BY DEF F!SharersAreCounted
<1>4. F!StringsAreSomebodys /\ F!ErrorsAreKept
  BY DEF F!StringsAreSomebodys, F!ErrorsAreKept
<1> QED
  BY <1>1, <1>2, <1>3, <1>4 DEF F!BoundaryInv

LEMMA BoundaryInvIsKept ==
  ASSUME F!BoundaryInv, [F!Next]_(F!vars)
  PROVE  F!BoundaryInv'
<1>1. CASE F!Next
  BY <1>1, CreateIsSound, DestroyIsSound, ResolveIsSound, ResolvedIsSound, ActIsSound,
     ActedIsSound, FreeHandleIsSound, ThreadEndsIsSound, CommandedIsSound, HandOverIsSound,
     FreeStringIsSound, FreedIsSound
     DEF F!Next
<1>2. CASE UNCHANGED F!vars
  <2>1. made \in Nat
    BY BoundaryParts
  <2> QED
    BY <1>2, <2>1, OwnersOfUnchanged, SharersOfUnchanged, CallsOfUnchanged, StringsFollow,
       ErrorsFollow, TwoThreads
       DEF F!BoundaryInv, F!vars, F!adapterVars, F!handleVars, F!stringVars, F!errorVars
<1> QED
  BY <1>1, <1>2

\* The elements of a set of threads, counted.
LEMMA CountOfTwo ==
  ASSUME NEW T, T \subseteq {1, 2}
  PROVE  F!Cardinality(T) = F!One(1 \in T) + F!One(2 \in T)
<1>1. F!Cardinality(T) = Cardinality(T)
  BY DEF F!Cardinality, Cardinality
<1>6. Cardinality({1}) = 1 /\ Cardinality({2}) = 1 /\ Cardinality({}) = 0
  BY FS_Singleton, FS_EmptySet
<1>2. CASE 1 \in T /\ 2 \in T
  <2>1. T = {1} \cup {2}
    BY <1>2
  <2>2. IsFiniteSet({1}) /\ Cardinality({1}) = 1
    BY FS_Singleton
  <2>3. Cardinality({1} \cup {2}) = 2
    BY <2>2, FS_AddElement
  <2> QED
    BY <1>1, <1>2, <2>1, <2>3 DEF F!One
<1>3. CASE 1 \in T /\ 2 \notin T
  <2>1. T = {1}
    BY <1>3
  <2> QED
    BY <1>1, <1>3, <1>6, <2>1 DEF F!One
<1>4. CASE 1 \notin T /\ 2 \in T
  <2>1. T = {2}
    BY <1>4
  <2> QED
    BY <1>1, <1>4, <1>6, <2>1 DEF F!One
<1>5. CASE 1 \notin T /\ 2 \notin T
  <2>1. T = {}
    BY <1>5
  <2> QED
    BY <1>1, <1>5, <1>6, <2>1 DEF F!One
<1> QED
  BY <1>2, <1>3, <1>4, <1>5

LEMMA BoundaryInvSuffices ==
  ASSUME F!BoundaryInv
  PROVE  F!BoundaryIsSound
<1>1. F!AdaptersLiveLongEnough
  <2>1. ASSUME NEW a \in 1 .. made
        PROVE  owners[a] = F!Cardinality({t \in F!Threads : held[t] = a})
                           + (IF a \in adapters THEN 1 ELSE 0)
    <3>1. F!Cardinality({t \in F!Threads : held[t] = a}) = F!One(held[1] = a) + F!One(held[2] = a)
      <4> DEFINE T == {t \in F!Threads : held[t] = a}
      <4>1. T \subseteq {1, 2} /\ (1 \in T <=> held[1] = a) /\ (2 \in T <=> held[2] = a)
        BY TwoThreads
      <4> HIDE DEF T
      <4>2. F!Cardinality(T) = F!One(held[1] = a) + F!One(held[2] = a)
        BY <4>1, CountOfTwo DEF F!One
      <4> QED
        BY <4>2 DEF T
    <3>2. owners[a] = F!One(held[1] = a) + F!One(held[2] = a) + F!One(a \in adapters)
      BY CallsAssumption DEF F!BoundaryInv, F!OwnersAreCounted, F!Ids
    <3> QED
      BY <3>1, <3>2 DEF F!One
  <2> QED
    BY <2>1 DEF F!AdaptersLiveLongEnough
<1>2. F!HandlesAreTheirOwners
  <2>1. ASSUME NEW t \in F!Threads, using[t] # 0
        PROVE  maker[using[t]] = <<t, held[t]>> /\ sharers[using[t]] > 0
    <3>1. maker[using[t]] = <<t, held[t]>> /\ using[t] \in 1 .. tokens /\ tokens \in Nat
      BY <2>1, CallsAssumption DEF F!BoundaryInv, F!SharersAreCounted
    <3>2. sharers[using[t]] = F!One(<<using[t], held[t]>> \in handles[t]) + F!One(using[t] = using[t])
      BY <3>1 DEF F!BoundaryInv, F!SharersAreCounted
    <3> QED
      BY <3>1, <3>2 DEF F!One
  <2> QED
    BY <2>1 DEF F!HandlesAreTheirOwners
<1>3. F!StringsAreFreedOnce
  <2>1. hosted = known /\ known \subseteq allocated /\ allocated \subseteq F!Addresses
    BY DEF F!BoundaryInv, F!StringsAreSomebodys
  <2>2. ASSUME NEW a \in allocated \ hosted
        PROVE  F!Cardinality({t \in F!Threads : block[t] = a}) = 1
    <3> DEFINE T == {t \in F!Threads : block[t] = a}
    <3>1. T \subseteq {1, 2} /\ (1 \in T <=> block[1] = a) /\ (2 \in T <=> block[2] = a)
      BY TwoThreads
    <3>2. a # 0 /\ (block[1] = a \/ block[2] = a) /\ ~ (block[1] = a /\ block[2] = a)
      BY <2>1, TwoThreads DEF F!BoundaryInv, F!StringsAreSomebodys, F!Addresses
    <3> HIDE DEF T
    <3>3. F!Cardinality(T) = F!One(1 \in T) + F!One(2 \in T)
      BY <3>1, CountOfTwo
    <3>4. F!Cardinality(T) = 1
      <4>1. CASE block[1] = a
        BY <3>1, <3>2, <3>3, <4>1 DEF F!One
      <4>2. CASE block[2] = a
        BY <3>1, <3>2, <3>3, <4>2 DEF F!One
      <4> QED
        BY <3>2, <4>1, <4>2
    <3> QED
      BY <3>4 DEF T
  <2> QED
    BY <2>1, <2>2 DEF F!StringsAreFreedOnce, F!BoundaryInv, F!StringsAreSomebodys
<1>4. F!ErrorsAreOfTheThread
  BY DEF F!ErrorsAreOfTheThread, F!BoundaryInv, F!ErrorsAreKept
<1> QED
  BY <1>1, <1>2, <1>3, <1>4 DEF F!BoundaryIsSound

-----------------------------------------------------------------------------
(* Programs that are run *)

\* The prompts there are.
LEMMA ThreePrompts ==
  /\ Y!ToSet(Y!Operations) = {"accessibility", "screen_recording", "automation"}
  /\ Y!Prompted = {"accessibility", "screen_recording", "automation"}
  /\ DOMAIN Y!Operations = 1 .. 3
  /\ \A i \in 1 .. 3 : Y!Operations[i] \in Y!Prompted
<1>1. Y!Operations = <<"accessibility", "screen_recording", "automation">>
  BY DEF Y!Operations
<1>2. DOMAIN Y!Operations = 1 .. 3
  BY <1>1
<1>3. Y!ToSet(Y!Operations) = {"accessibility", "screen_recording", "automation"}
  BY <1>1, <1>2 DEF Y!ToSet
<1> QED
  BY <1>1, <1>2, <1>3 DEF Y!Prompted

\* The group of the program is signalled while it is its own, and is gone at the end.
LEMMA RunGroupHolds ==
  ASSUME Y!RunInv, [Y!Next]_(Y!vars)
  PROVE  Y!GroupInv'
<1>1. Y!GroupInv /\ Y!CaptureInv /\ Y!PromptsInv
  BY DEF Y!RunInv
<1>2. ASSUME Y!Fail, stage \in {"find", "spawn", "ended", "verify", "report"}
      PROVE  Y!GroupInv'
  BY <1>1, <1>2, ThreePrompts
     DEF Y!Fail, Y!Cleared, Y!running, Y!cleanup, Y!capture, Y!prompts, Y!GroupInv, Y!CaptureInv, Y!PromptsInv, Y!Alive, Y!Nothing, Y!Shots
<1>3. CASE Y!NotFound
  BY <1>2, <1>3 DEF Y!NotFound
<1>4. CASE Y!SpawnFails
  BY <1>2, <1>4 DEF Y!SpawnFails
<1>5. CASE Y!Flooded
  BY <1>2, <1>5 DEF Y!Flooded
<1>6. CASE Y!CaptureFailed
  BY <1>2, <1>6 DEF Y!CaptureFailed
<1>7. CASE Y!HelperFailed
  BY <1>2, <1>7 DEF Y!HelperFailed
<1>8. CASE Y!OutOfTime
  BY <1>2, <1>8 DEF Y!OutOfTime
<1>9. CASE Y!BeginShot
  BY <1>1, <1>9, ThreePrompts
     DEF Y!BeginShot, Y!running, Y!cleanup, Y!capture, Y!prompts, Y!GroupInv, Y!CaptureInv, Y!PromptsInv, Y!Alive, Y!Nothing, Y!Shots
<1>10. CASE Y!BeginPrompts
  BY <1>1, <1>10, ThreePrompts
     DEF Y!BeginPrompts, Y!running, Y!cleanup, Y!capture, Y!prompts, Y!GroupInv, Y!CaptureInv, Y!PromptsInv, Y!Alive, Y!Nothing, Y!Shots
<1>11. CASE Y!Find
  BY <1>1, <1>11, ThreePrompts
     DEF Y!Find, Y!running, Y!cleanup, Y!capture, Y!prompts, Y!GroupInv, Y!CaptureInv, Y!PromptsInv, Y!Alive, Y!Nothing, Y!Shots
<1>12. CASE Y!SpawnCapture
  BY <1>1, <1>12, ThreePrompts
     DEF Y!SpawnCapture, Y!Spawn, Y!running, Y!cleanup, Y!capture, Y!prompts, Y!GroupInv, Y!CaptureInv, Y!PromptsInv, Y!Alive, Y!Nothing, Y!Shots
<1>13. CASE Y!SpawnHelper
  BY <1>1, <1>13, ThreePrompts
     DEF Y!SpawnHelper, Y!Spawn, Y!running, Y!cleanup, Y!capture, Y!prompts, Y!GroupInv, Y!CaptureInv, Y!PromptsInv, Y!Alive, Y!Nothing, Y!Shots
<1>14. CASE Y!Drain
  BY <1>1, <1>14, ThreePrompts
     DEF Y!Drain, Y!running, Y!cleanup, Y!capture, Y!prompts, Y!GroupInv, Y!CaptureInv, Y!PromptsInv, Y!Alive, Y!Nothing, Y!Shots
<1>15. CASE Y!Status
  BY <1>1, <1>15, ThreePrompts
     DEF Y!Status, Y!running, Y!cleanup, Y!capture, Y!prompts, Y!GroupInv, Y!CaptureInv, Y!PromptsInv, Y!Alive, Y!Nothing, Y!Shots
<1>16. CASE Y!Overdue
  BY <1>1, <1>16, ThreePrompts
     DEF Y!Overdue, Y!running, Y!cleanup, Y!capture, Y!prompts, Y!GroupInv, Y!CaptureInv, Y!PromptsInv, Y!Alive, Y!Nothing, Y!Shots
<1>17. CASE Y!Term
  BY <1>1, <1>17, ThreePrompts
     DEF Y!Term, Y!Strikes, Y!InGroup, Y!running, Y!cleanup, Y!capture, Y!prompts, Y!GroupInv, Y!CaptureInv, Y!PromptsInv, Y!Alive, Y!Nothing, Y!Shots
<1>18. CASE Y!Kill
  BY <1>1, <1>18, ThreePrompts
     DEF Y!Kill, Y!Strikes, Y!running, Y!cleanup, Y!capture, Y!prompts, Y!GroupInv, Y!CaptureInv, Y!PromptsInv, Y!Alive, Y!Nothing, Y!Shots
<1>19. CASE Y!Reap
  BY <1>1, <1>19, ThreePrompts
     DEF Y!Reap, Y!Cleared, Y!running, Y!cleanup, Y!capture, Y!prompts, Y!GroupInv, Y!CaptureInv, Y!PromptsInv, Y!Alive, Y!Nothing, Y!Shots
<1>20. CASE Y!ReadImage
  BY <1>1, <1>20, ThreePrompts
     DEF Y!ReadImage, Y!Cleared, Y!running, Y!cleanup, Y!capture, Y!prompts, Y!GroupInv, Y!CaptureInv, Y!PromptsInv, Y!Alive, Y!Nothing, Y!Shots
<1>21. CASE Y!VerifyImage
  BY <1>1, <1>21, ThreePrompts
     DEF Y!VerifyImage, Y!running, Y!cleanup, Y!capture, Y!prompts, Y!GroupInv, Y!CaptureInv, Y!PromptsInv, Y!Alive, Y!Nothing, Y!Shots
<1>22. CASE Y!NextPrompt
  BY <1>1, <1>22, ThreePrompts
     DEF Y!NextPrompt, Y!running, Y!cleanup, Y!capture, Y!prompts, Y!GroupInv, Y!CaptureInv, Y!PromptsInv, Y!Alive, Y!Nothing, Y!Shots
<1>23. CASE Y!Report
  BY <1>1, <1>23, ThreePrompts
     DEF Y!Report, Y!StateOf, Y!AutomationState, Y!running, Y!cleanup, Y!capture, Y!prompts, Y!GroupInv, Y!CaptureInv, Y!PromptsInv, Y!Alive, Y!Nothing, Y!Shots
<1>24. CASE Y!Capture
  BY <1>1, <1>24, ThreePrompts
     DEF Y!Capture, Y!running, Y!cleanup, Y!capture, Y!prompts, Y!GroupInv, Y!CaptureInv, Y!PromptsInv, Y!Alive, Y!Nothing, Y!Shots
<1>25. CASE Y!CheckParent
  BY <1>1, <1>25, ThreePrompts
     DEF Y!CheckParent, Y!running, Y!cleanup, Y!capture, Y!prompts, Y!GroupInv, Y!CaptureInv, Y!PromptsInv, Y!Alive, Y!Nothing, Y!Shots
<1>26. CASE Y!Prompt
  BY <1>1, <1>26, ThreePrompts
     DEF Y!Prompt, Y!running, Y!cleanup, Y!capture, Y!prompts, Y!GroupInv, Y!CaptureInv, Y!PromptsInv, Y!Alive, Y!Nothing, Y!Shots
<1>27. CASE Y!Exit
  BY <1>1, <1>27, ThreePrompts
     DEF Y!Exit, Y!running, Y!cleanup, Y!capture, Y!prompts, Y!GroupInv, Y!CaptureInv, Y!PromptsInv, Y!Alive, Y!Nothing, Y!Shots
<1>28. CASE Y!StartAnother
  BY <1>1, <1>28, ThreePrompts
     DEF Y!StartAnother, Y!running, Y!cleanup, Y!capture, Y!prompts, Y!GroupInv, Y!CaptureInv, Y!PromptsInv, Y!Alive, Y!Nothing, Y!Shots
<1>29. CASE Y!CloseStreams
  BY <1>1, <1>29, ThreePrompts
     DEF Y!CloseStreams, Y!running, Y!cleanup, Y!capture, Y!prompts, Y!GroupInv, Y!CaptureInv, Y!PromptsInv, Y!Alive, Y!Nothing, Y!Shots
<1>30. CASE Y!AnotherEnds
  BY <1>1, <1>30, ThreePrompts
     DEF Y!AnotherEnds, Y!running, Y!cleanup, Y!capture, Y!prompts, Y!GroupInv, Y!CaptureInv, Y!PromptsInv, Y!Alive, Y!Nothing, Y!Shots
<1>31. CASE Y!TimePasses
  BY <1>1, <1>31, ThreePrompts
     DEF Y!TimePasses, Y!running, Y!cleanup, Y!capture, Y!prompts, Y!GroupInv, Y!CaptureInv, Y!PromptsInv, Y!Alive, Y!Nothing, Y!Shots
<1>32. CASE Y!ScreenChanges
  BY <1>1, <1>32, ThreePrompts
     DEF Y!ScreenChanges, Y!running, Y!cleanup, Y!capture, Y!prompts, Y!GroupInv, Y!CaptureInv, Y!PromptsInv, Y!Alive, Y!Nothing, Y!Shots
<1>33. CASE Y!UserAnswers
  BY <1>1, <1>33, ThreePrompts
     DEF Y!UserAnswers, Y!running, Y!cleanup, Y!capture, Y!prompts, Y!GroupInv, Y!CaptureInv, Y!PromptsInv, Y!Alive, Y!Nothing, Y!Shots
<1>34. CASE Y!CommandDies
  BY <1>1, <1>34, ThreePrompts
     DEF Y!CommandDies, Y!running, Y!cleanup, Y!capture, Y!prompts, Y!GroupInv, Y!CaptureInv, Y!PromptsInv, Y!Alive, Y!Nothing, Y!Shots
<1>35. CASE UNCHANGED Y!vars
  BY <1>1, <1>35 DEF Y!vars, Y!running, Y!cleanup, Y!capture, Y!prompts, Y!GroupInv, Y!CaptureInv, Y!PromptsInv, Y!Alive, Y!Nothing, Y!Shots
<1> QED
  BY <1>3, <1>4, <1>5, <1>6, <1>7, <1>8, <1>9, <1>10, <1>11, <1>12, <1>13, <1>14, <1>15, <1>16, <1>17, <1>18, <1>19, <1>20, <1>21, <1>22, <1>23, <1>24, <1>25, <1>26, <1>27, <1>28, <1>29, <1>30, <1>31, <1>32, <1>33, <1>34, <1>35 DEF Y!Next, Y!CommandStep

\* The image is of what was asked for, and nothing stays behind.
LEMMA RunCaptureHolds ==
  ASSUME Y!RunInv, [Y!Next]_(Y!vars)
  PROVE  Y!CaptureInv'
<1>1. Y!GroupInv /\ Y!CaptureInv /\ Y!PromptsInv
  BY DEF Y!RunInv
<1>2. ASSUME Y!Fail, stage \in {"find", "spawn", "ended", "verify", "report"}
      PROVE  Y!CaptureInv'
  BY <1>1, <1>2, ThreePrompts
     DEF Y!Fail, Y!Cleared, Y!running, Y!cleanup, Y!capture, Y!prompts, Y!CaptureInv, Y!GroupInv, Y!PromptsInv, Y!AtIndex, Y!ShowsTheAsked, Y!Captured, Y!Nothing, Y!Shots
<1>3. CASE Y!NotFound
  BY <1>2, <1>3 DEF Y!NotFound
<1>4. CASE Y!SpawnFails
  BY <1>2, <1>4 DEF Y!SpawnFails
<1>5. CASE Y!Flooded
  BY <1>2, <1>5 DEF Y!Flooded
<1>6. CASE Y!CaptureFailed
  BY <1>2, <1>6 DEF Y!CaptureFailed
<1>7. CASE Y!HelperFailed
  BY <1>2, <1>7 DEF Y!HelperFailed
<1>8. CASE Y!OutOfTime
  BY <1>2, <1>8 DEF Y!OutOfTime
<1>9. CASE Y!BeginShot
  BY <1>1, <1>9, ThreePrompts
     DEF Y!BeginShot, Y!running, Y!cleanup, Y!capture, Y!prompts, Y!CaptureInv, Y!GroupInv, Y!PromptsInv, Y!AtIndex, Y!ShowsTheAsked, Y!Captured, Y!Nothing, Y!Shots
<1>10. CASE Y!BeginPrompts
  BY <1>1, <1>10, ThreePrompts
     DEF Y!BeginPrompts, Y!running, Y!cleanup, Y!capture, Y!prompts, Y!CaptureInv, Y!GroupInv, Y!PromptsInv, Y!AtIndex, Y!ShowsTheAsked, Y!Captured, Y!Nothing, Y!Shots
<1>11. CASE Y!Find
  BY <1>1, <1>11, ThreePrompts
     DEF Y!Find, Y!running, Y!cleanup, Y!capture, Y!prompts, Y!CaptureInv, Y!GroupInv, Y!PromptsInv, Y!AtIndex, Y!ShowsTheAsked, Y!Captured, Y!Nothing, Y!Shots
<1>12. CASE Y!SpawnCapture
  BY <1>1, <1>12, ThreePrompts
     DEF Y!SpawnCapture, Y!Spawn, Y!running, Y!cleanup, Y!capture, Y!prompts, Y!CaptureInv, Y!GroupInv, Y!PromptsInv, Y!AtIndex, Y!ShowsTheAsked, Y!Captured, Y!Nothing, Y!Shots
<1>13. CASE Y!SpawnHelper
  BY <1>1, <1>13, ThreePrompts
     DEF Y!SpawnHelper, Y!Spawn, Y!running, Y!cleanup, Y!capture, Y!prompts, Y!CaptureInv, Y!GroupInv, Y!PromptsInv, Y!AtIndex, Y!ShowsTheAsked, Y!Captured, Y!Nothing, Y!Shots
<1>14. CASE Y!Drain
  BY <1>1, <1>14, ThreePrompts
     DEF Y!Drain, Y!running, Y!cleanup, Y!capture, Y!prompts, Y!CaptureInv, Y!GroupInv, Y!PromptsInv, Y!AtIndex, Y!ShowsTheAsked, Y!Captured, Y!Nothing, Y!Shots
<1>15. CASE Y!Status
  BY <1>1, <1>15, ThreePrompts
     DEF Y!Status, Y!running, Y!cleanup, Y!capture, Y!prompts, Y!CaptureInv, Y!GroupInv, Y!PromptsInv, Y!AtIndex, Y!ShowsTheAsked, Y!Captured, Y!Nothing, Y!Shots
<1>16. CASE Y!Overdue
  BY <1>1, <1>16, ThreePrompts
     DEF Y!Overdue, Y!running, Y!cleanup, Y!capture, Y!prompts, Y!CaptureInv, Y!GroupInv, Y!PromptsInv, Y!AtIndex, Y!ShowsTheAsked, Y!Captured, Y!Nothing, Y!Shots
<1>17. CASE Y!Term
  BY <1>1, <1>17, ThreePrompts
     DEF Y!Term, Y!Strikes, Y!InGroup, Y!running, Y!cleanup, Y!capture, Y!prompts, Y!CaptureInv, Y!GroupInv, Y!PromptsInv, Y!AtIndex, Y!ShowsTheAsked, Y!Captured, Y!Nothing, Y!Shots
<1>18. CASE Y!Kill
  BY <1>1, <1>18, ThreePrompts
     DEF Y!Kill, Y!Strikes, Y!running, Y!cleanup, Y!capture, Y!prompts, Y!CaptureInv, Y!GroupInv, Y!PromptsInv, Y!AtIndex, Y!ShowsTheAsked, Y!Captured, Y!Nothing, Y!Shots
<1>19. CASE Y!Reap
  BY <1>1, <1>19, ThreePrompts
     DEF Y!Reap, Y!Cleared, Y!running, Y!cleanup, Y!capture, Y!prompts, Y!CaptureInv, Y!GroupInv, Y!PromptsInv, Y!AtIndex, Y!ShowsTheAsked, Y!Captured, Y!Nothing, Y!Shots
<1>20. CASE Y!ReadImage
  BY <1>1, <1>20, ThreePrompts
     DEF Y!ReadImage, Y!Cleared, Y!running, Y!cleanup, Y!capture, Y!prompts, Y!CaptureInv, Y!GroupInv, Y!PromptsInv, Y!AtIndex, Y!ShowsTheAsked, Y!Captured, Y!Nothing, Y!Shots
<1>21. CASE Y!VerifyImage
  BY <1>1, <1>21, ThreePrompts
     DEF Y!VerifyImage, Y!running, Y!cleanup, Y!capture, Y!prompts, Y!CaptureInv, Y!GroupInv, Y!PromptsInv, Y!AtIndex, Y!ShowsTheAsked, Y!Captured, Y!Nothing, Y!Shots
<1>22. CASE Y!NextPrompt
  BY <1>1, <1>22, ThreePrompts
     DEF Y!NextPrompt, Y!running, Y!cleanup, Y!capture, Y!prompts, Y!CaptureInv, Y!GroupInv, Y!PromptsInv, Y!AtIndex, Y!ShowsTheAsked, Y!Captured, Y!Nothing, Y!Shots
<1>23. CASE Y!Report
  BY <1>1, <1>23, ThreePrompts
     DEF Y!Report, Y!StateOf, Y!AutomationState, Y!running, Y!cleanup, Y!capture, Y!prompts, Y!CaptureInv, Y!GroupInv, Y!PromptsInv, Y!AtIndex, Y!ShowsTheAsked, Y!Captured, Y!Nothing, Y!Shots
<1>24. CASE Y!Capture
  BY <1>1, <1>24, ThreePrompts
     DEF Y!Capture, Y!running, Y!cleanup, Y!capture, Y!prompts, Y!CaptureInv, Y!GroupInv, Y!PromptsInv, Y!AtIndex, Y!ShowsTheAsked, Y!Captured, Y!Nothing, Y!Shots
<1>25. CASE Y!CheckParent
  BY <1>1, <1>25, ThreePrompts
     DEF Y!CheckParent, Y!running, Y!cleanup, Y!capture, Y!prompts, Y!CaptureInv, Y!GroupInv, Y!PromptsInv, Y!AtIndex, Y!ShowsTheAsked, Y!Captured, Y!Nothing, Y!Shots
<1>26. CASE Y!Prompt
  BY <1>1, <1>26, ThreePrompts
     DEF Y!Prompt, Y!running, Y!cleanup, Y!capture, Y!prompts, Y!CaptureInv, Y!GroupInv, Y!PromptsInv, Y!AtIndex, Y!ShowsTheAsked, Y!Captured, Y!Nothing, Y!Shots
<1>27. CASE Y!Exit
  BY <1>1, <1>27, ThreePrompts
     DEF Y!Exit, Y!running, Y!cleanup, Y!capture, Y!prompts, Y!CaptureInv, Y!GroupInv, Y!PromptsInv, Y!AtIndex, Y!ShowsTheAsked, Y!Captured, Y!Nothing, Y!Shots
<1>28. CASE Y!StartAnother
  BY <1>1, <1>28, ThreePrompts
     DEF Y!StartAnother, Y!running, Y!cleanup, Y!capture, Y!prompts, Y!CaptureInv, Y!GroupInv, Y!PromptsInv, Y!AtIndex, Y!ShowsTheAsked, Y!Captured, Y!Nothing, Y!Shots
<1>29. CASE Y!CloseStreams
  BY <1>1, <1>29, ThreePrompts
     DEF Y!CloseStreams, Y!running, Y!cleanup, Y!capture, Y!prompts, Y!CaptureInv, Y!GroupInv, Y!PromptsInv, Y!AtIndex, Y!ShowsTheAsked, Y!Captured, Y!Nothing, Y!Shots
<1>30. CASE Y!AnotherEnds
  BY <1>1, <1>30, ThreePrompts
     DEF Y!AnotherEnds, Y!running, Y!cleanup, Y!capture, Y!prompts, Y!CaptureInv, Y!GroupInv, Y!PromptsInv, Y!AtIndex, Y!ShowsTheAsked, Y!Captured, Y!Nothing, Y!Shots
<1>31. CASE Y!TimePasses
  BY <1>1, <1>31, ThreePrompts
     DEF Y!TimePasses, Y!running, Y!cleanup, Y!capture, Y!prompts, Y!CaptureInv, Y!GroupInv, Y!PromptsInv, Y!AtIndex, Y!ShowsTheAsked, Y!Captured, Y!Nothing, Y!Shots
<1>32. CASE Y!ScreenChanges
  BY <1>1, <1>32, ThreePrompts
     DEF Y!ScreenChanges, Y!running, Y!cleanup, Y!capture, Y!prompts, Y!CaptureInv, Y!GroupInv, Y!PromptsInv, Y!AtIndex, Y!ShowsTheAsked, Y!Captured, Y!Nothing, Y!Shots
<1>33. CASE Y!UserAnswers
  BY <1>1, <1>33, ThreePrompts
     DEF Y!UserAnswers, Y!running, Y!cleanup, Y!capture, Y!prompts, Y!CaptureInv, Y!GroupInv, Y!PromptsInv, Y!AtIndex, Y!ShowsTheAsked, Y!Captured, Y!Nothing, Y!Shots
<1>34. CASE Y!CommandDies
  BY <1>1, <1>34, ThreePrompts
     DEF Y!CommandDies, Y!running, Y!cleanup, Y!capture, Y!prompts, Y!CaptureInv, Y!GroupInv, Y!PromptsInv, Y!AtIndex, Y!ShowsTheAsked, Y!Captured, Y!Nothing, Y!Shots
<1>35. CASE UNCHANGED Y!vars
  BY <1>1, <1>35 DEF Y!vars, Y!running, Y!cleanup, Y!capture, Y!prompts, Y!CaptureInv, Y!GroupInv, Y!PromptsInv, Y!AtIndex, Y!ShowsTheAsked, Y!Captured, Y!Nothing, Y!Shots
<1> QED
  BY <1>3, <1>4, <1>5, <1>6, <1>7, <1>8, <1>9, <1>10, <1>11, <1>12, <1>13, <1>14, <1>15, <1>16, <1>17, <1>18, <1>19, <1>20, <1>21, <1>22, <1>23, <1>24, <1>25, <1>26, <1>27, <1>28, <1>29, <1>30, <1>31, <1>32, <1>33, <1>34, <1>35 DEF Y!Next, Y!CommandStep

\* The prompts are made for a command that is alive, and the report follows the answers.
LEMMA RunPromptsHolds ==
  ASSUME Y!RunInv, [Y!Next]_(Y!vars)
  PROVE  Y!PromptsInv'
<1>1. Y!GroupInv /\ Y!CaptureInv /\ Y!PromptsInv
  BY DEF Y!RunInv
<1>2. ASSUME Y!Fail, stage \in {"find", "spawn", "ended", "verify", "report"}
      PROVE  Y!PromptsInv'
  BY <1>1, <1>2, ThreePrompts
     DEF Y!Fail, Y!Cleared, Y!running, Y!cleanup, Y!capture, Y!prompts, Y!PromptsInv, Y!CaptureInv, Y!GroupInv, Y!Unanswered, Y!Nothing, Y!Shots
<1>3. CASE Y!NotFound
  BY <1>2, <1>3 DEF Y!NotFound
<1>4. CASE Y!SpawnFails
  BY <1>2, <1>4 DEF Y!SpawnFails
<1>5. CASE Y!Flooded
  BY <1>2, <1>5 DEF Y!Flooded
<1>6. CASE Y!CaptureFailed
  BY <1>2, <1>6 DEF Y!CaptureFailed
<1>7. CASE Y!HelperFailed
  BY <1>2, <1>7 DEF Y!HelperFailed
<1>8. CASE Y!OutOfTime
  BY <1>2, <1>8 DEF Y!OutOfTime
<1>9. CASE Y!BeginShot
  BY <1>1, <1>9, ThreePrompts
     DEF Y!BeginShot, Y!running, Y!cleanup, Y!capture, Y!prompts, Y!PromptsInv, Y!CaptureInv, Y!GroupInv, Y!Unanswered, Y!Nothing, Y!Shots
<1>10. CASE Y!BeginPrompts
  BY <1>1, <1>10, ThreePrompts
     DEF Y!BeginPrompts, Y!running, Y!cleanup, Y!capture, Y!prompts, Y!PromptsInv, Y!CaptureInv, Y!GroupInv, Y!Unanswered, Y!Nothing, Y!Shots
<1>11. CASE Y!Find
  BY <1>1, <1>11, ThreePrompts
     DEF Y!Find, Y!running, Y!cleanup, Y!capture, Y!prompts, Y!PromptsInv, Y!CaptureInv, Y!GroupInv, Y!Unanswered, Y!Nothing, Y!Shots
<1>12. CASE Y!SpawnCapture
  BY <1>1, <1>12, ThreePrompts
     DEF Y!SpawnCapture, Y!Spawn, Y!running, Y!cleanup, Y!capture, Y!prompts, Y!PromptsInv, Y!CaptureInv, Y!GroupInv, Y!Unanswered, Y!Nothing, Y!Shots
<1>13. CASE Y!SpawnHelper
  BY <1>1, <1>13, ThreePrompts
     DEF Y!SpawnHelper, Y!Spawn, Y!running, Y!cleanup, Y!capture, Y!prompts, Y!PromptsInv, Y!CaptureInv, Y!GroupInv, Y!Unanswered, Y!Nothing, Y!Shots
<1>14. CASE Y!Drain
  BY <1>1, <1>14, ThreePrompts
     DEF Y!Drain, Y!running, Y!cleanup, Y!capture, Y!prompts, Y!PromptsInv, Y!CaptureInv, Y!GroupInv, Y!Unanswered, Y!Nothing, Y!Shots
<1>15. CASE Y!Status
  BY <1>1, <1>15, ThreePrompts
     DEF Y!Status, Y!running, Y!cleanup, Y!capture, Y!prompts, Y!PromptsInv, Y!CaptureInv, Y!GroupInv, Y!Unanswered, Y!Nothing, Y!Shots
<1>16. CASE Y!Overdue
  BY <1>1, <1>16, ThreePrompts
     DEF Y!Overdue, Y!running, Y!cleanup, Y!capture, Y!prompts, Y!PromptsInv, Y!CaptureInv, Y!GroupInv, Y!Unanswered, Y!Nothing, Y!Shots
<1>17. CASE Y!Term
  BY <1>1, <1>17, ThreePrompts
     DEF Y!Term, Y!Strikes, Y!InGroup, Y!running, Y!cleanup, Y!capture, Y!prompts, Y!PromptsInv, Y!CaptureInv, Y!GroupInv, Y!Unanswered, Y!Nothing, Y!Shots
<1>18. CASE Y!Kill
  BY <1>1, <1>18, ThreePrompts
     DEF Y!Kill, Y!Strikes, Y!running, Y!cleanup, Y!capture, Y!prompts, Y!PromptsInv, Y!CaptureInv, Y!GroupInv, Y!Unanswered, Y!Nothing, Y!Shots
<1>19. CASE Y!Reap
  BY <1>1, <1>19, ThreePrompts
     DEF Y!Reap, Y!Cleared, Y!running, Y!cleanup, Y!capture, Y!prompts, Y!PromptsInv, Y!CaptureInv, Y!GroupInv, Y!Unanswered, Y!Nothing, Y!Shots
<1>20. CASE Y!ReadImage
  BY <1>1, <1>20, ThreePrompts
     DEF Y!ReadImage, Y!Cleared, Y!running, Y!cleanup, Y!capture, Y!prompts, Y!PromptsInv, Y!CaptureInv, Y!GroupInv, Y!Unanswered, Y!Nothing, Y!Shots
<1>21. CASE Y!VerifyImage
  BY <1>1, <1>21, ThreePrompts
     DEF Y!VerifyImage, Y!running, Y!cleanup, Y!capture, Y!prompts, Y!PromptsInv, Y!CaptureInv, Y!GroupInv, Y!Unanswered, Y!Nothing, Y!Shots
<1>22. CASE Y!NextPrompt
  BY <1>1, <1>22, ThreePrompts
     DEF Y!NextPrompt, Y!running, Y!cleanup, Y!capture, Y!prompts, Y!PromptsInv, Y!CaptureInv, Y!GroupInv, Y!Unanswered, Y!Nothing, Y!Shots
<1>23. CASE Y!Report
  BY <1>1, <1>23, ThreePrompts
     DEF Y!Report, Y!StateOf, Y!AutomationState, Y!running, Y!cleanup, Y!capture, Y!prompts, Y!PromptsInv, Y!CaptureInv, Y!GroupInv, Y!Unanswered, Y!Nothing, Y!Shots
<1>24. CASE Y!Capture
  BY <1>1, <1>24, ThreePrompts
     DEF Y!Capture, Y!running, Y!cleanup, Y!capture, Y!prompts, Y!PromptsInv, Y!CaptureInv, Y!GroupInv, Y!Unanswered, Y!Nothing, Y!Shots
<1>25. CASE Y!CheckParent
  BY <1>1, <1>25, ThreePrompts
     DEF Y!CheckParent, Y!running, Y!cleanup, Y!capture, Y!prompts, Y!PromptsInv, Y!CaptureInv, Y!GroupInv, Y!Unanswered, Y!Nothing, Y!Shots
<1>26. CASE Y!Prompt
  BY <1>1, <1>26, ThreePrompts
     DEF Y!Prompt, Y!running, Y!cleanup, Y!capture, Y!prompts, Y!PromptsInv, Y!CaptureInv, Y!GroupInv, Y!Unanswered, Y!Nothing, Y!Shots
<1>27. CASE Y!Exit
  BY <1>1, <1>27, ThreePrompts
     DEF Y!Exit, Y!running, Y!cleanup, Y!capture, Y!prompts, Y!PromptsInv, Y!CaptureInv, Y!GroupInv, Y!Unanswered, Y!Nothing, Y!Shots
<1>28. CASE Y!StartAnother
  BY <1>1, <1>28, ThreePrompts
     DEF Y!StartAnother, Y!running, Y!cleanup, Y!capture, Y!prompts, Y!PromptsInv, Y!CaptureInv, Y!GroupInv, Y!Unanswered, Y!Nothing, Y!Shots
<1>29. CASE Y!CloseStreams
  BY <1>1, <1>29, ThreePrompts
     DEF Y!CloseStreams, Y!running, Y!cleanup, Y!capture, Y!prompts, Y!PromptsInv, Y!CaptureInv, Y!GroupInv, Y!Unanswered, Y!Nothing, Y!Shots
<1>30. CASE Y!AnotherEnds
  BY <1>1, <1>30, ThreePrompts
     DEF Y!AnotherEnds, Y!running, Y!cleanup, Y!capture, Y!prompts, Y!PromptsInv, Y!CaptureInv, Y!GroupInv, Y!Unanswered, Y!Nothing, Y!Shots
<1>31. CASE Y!TimePasses
  BY <1>1, <1>31, ThreePrompts
     DEF Y!TimePasses, Y!running, Y!cleanup, Y!capture, Y!prompts, Y!PromptsInv, Y!CaptureInv, Y!GroupInv, Y!Unanswered, Y!Nothing, Y!Shots
<1>32. CASE Y!ScreenChanges
  BY <1>1, <1>32, ThreePrompts
     DEF Y!ScreenChanges, Y!running, Y!cleanup, Y!capture, Y!prompts, Y!PromptsInv, Y!CaptureInv, Y!GroupInv, Y!Unanswered, Y!Nothing, Y!Shots
<1>33. CASE Y!UserAnswers
  BY <1>1, <1>33, ThreePrompts
     DEF Y!UserAnswers, Y!running, Y!cleanup, Y!capture, Y!prompts, Y!PromptsInv, Y!CaptureInv, Y!GroupInv, Y!Unanswered, Y!Nothing, Y!Shots
<1>34. CASE Y!CommandDies
  BY <1>1, <1>34, ThreePrompts
     DEF Y!CommandDies, Y!running, Y!cleanup, Y!capture, Y!prompts, Y!PromptsInv, Y!CaptureInv, Y!GroupInv, Y!Unanswered, Y!Nothing, Y!Shots
<1>35. CASE UNCHANGED Y!vars
  BY <1>1, <1>35 DEF Y!vars, Y!running, Y!cleanup, Y!capture, Y!prompts, Y!PromptsInv, Y!CaptureInv, Y!GroupInv, Y!Unanswered, Y!Nothing, Y!Shots
<1> QED
  BY <1>3, <1>4, <1>5, <1>6, <1>7, <1>8, <1>9, <1>10, <1>11, <1>12, <1>13, <1>14, <1>15, <1>16, <1>17, <1>18, <1>19, <1>20, <1>21, <1>22, <1>23, <1>24, <1>25, <1>26, <1>27, <1>28, <1>29, <1>30, <1>31, <1>32, <1>33, <1>34, <1>35 DEF Y!Next, Y!CommandStep

LEMMA RunInvStarts ==
  ASSUME Y!Init
  PROVE  Y!RunInv
BY ThreePrompts
   DEF Y!Init, Y!RunInv, Y!GroupInv, Y!CaptureInv, Y!PromptsInv, Y!AtIndex, Y!ShowsTheAsked,
       Y!Captured, Y!Nothing, Y!Shots, Y!Alive, Y!Unanswered

LEMMA RunInvIsKept ==
  ASSUME Y!RunInv, [Y!Next]_(Y!vars)
  PROVE  Y!RunInv'
BY RunGroupHolds, RunCaptureHolds, RunPromptsHolds DEF Y!RunInv

\* What the invariant says of a run: its group, its image and its prompts.
LEMMA RunInvSuffices ==
  ASSUME Y!RunInv
  PROVE  Y!SubprocessIsContained
<1>1. Y!GroupIsGone
  BY DEF Y!RunInv, Y!GroupInv, Y!GroupIsGone
<1>2. Y!ImageIsOfTheAsked
  BY DEF Y!RunInv, Y!CaptureInv, Y!ImageIsOfTheAsked, Y!ShowsTheAsked
<1>3. Y!PromptsAreWanted
  <2>1. Y!PromptsInv /\ Y!ToSet(Y!Operations) = Y!Prompted
    BY DEF Y!RunInv, Y!Prompted
  <2>2. outcome = "report" => prompted = Y!Prompted
    BY <2>1 DEF Y!PromptsInv
  <2> QED
    BY <2>1, <2>2 DEF Y!PromptsInv, Y!PromptsAreWanted
<1> QED
  BY <1>1, <1>2, <1>3 DEF Y!SubprocessIsContained
=============================================================================
