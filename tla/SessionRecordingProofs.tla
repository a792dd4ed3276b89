----------------------- MODULE SessionRecordingProofs -----------------------
(***************************************************************************)
(* Proofs about SessionRecording and the ArtifactBudget it is built on.    *)
(* The budget comes first: BudgetInv says what a writer that has the lock  *)
(* knows of the ledger, and that every reservation nobody will take back   *)
(* is owed to a fault.  RecordingInv adds what the commands know of the    *)
(* maps: that nobody but its writer knows a map before the pointer names   *)
(* it, and that a dangling pointer is still to be looked at.               *)
(***************************************************************************)
EXTENDS SessionRecording, TLAPS

-----------------------------------------------------------------------------
(* Usages *)

LEMMA Multiples ==
  ASSUME NEW n \in Nat
  PROVE  /\ MaxSize \in Nat /\ n * MaxSize \in Nat
         /\ (n + 1) * MaxSize = n * MaxSize + MaxSize
BY BudgetAssumption

\* Counting an artifact in.
LEMMA PlusFields ==
  ASSUME NEW u \in Usage, NEW a \in Artifacts
  PROVE  /\ Plus(u, a) \in Usage
         /\ a.size \in Nat /\ a.size <= MaxSize /\ a.kind \in {"shot", "map"}
         /\ a.kind = "shot" => /\ Plus(u, a).shots = u.shots + a.size
                               /\ Plus(u, a).count = u.count + 1
                               /\ Plus(u, a).maps = u.maps
         /\ a.kind = "map" => /\ Plus(u, a).shots = u.shots
                              /\ Plus(u, a).count = u.count
                              /\ Plus(u, a).maps = u.maps + a.size
<1>1. a.kind \in {"shot", "map"} /\ a.size \in Sizes
  BY DEF Artifacts
<1>2. a.size \in Nat /\ a.size <= MaxSize
  <2>1. \A s \in 1 .. MaxSize : s \in Nat /\ s <= MaxSize
    BY BudgetAssumption
  <2>2. Sizes \subseteq 1 .. MaxSize
    BY BudgetAssumption
  <2> QED
    BY <1>1, <2>1, <2>2
<1>3. u.shots \in Nat /\ u.count \in Nat /\ u.maps \in Nat
  BY DEF Usage
<1>4. CASE a.kind = "shot"
  <2>1. Plus(u, a) = [u EXCEPT !.shots = u.shots + a.size, !.count = u.count + 1]
    BY <1>4 DEF Plus
  <2>2. u.shots + a.size \in Nat /\ u.count + 1 \in Nat
    BY <1>2, <1>3
  <2> QED
    BY <1>2, <1>4, <2>1, <2>2 DEF Usage
<1>5. CASE a.kind = "map"
  <2>1. Plus(u, a) = [u EXCEPT !.maps = u.maps + a.size]
    BY <1>5 DEF Plus
  <2>2. u.maps + a.size \in Nat
    BY <1>2, <1>3
  <2> QED
    BY <1>2, <1>5, <2>1, <2>2 DEF Usage
<1> QED
  BY <1>1, <1>4, <1>5

LEMMA UsageFields ==
  ASSUME NEW u \in Usage
  PROVE  u.shots \in Nat /\ u.count \in Nat /\ u.maps \in Nat
BY DEF Usage

\* One more fault excuses one more artifact in the ledger.
LEMMA AccountsAfterFault ==
  ASSUME NEW u \in Usage, NEW v \in Usage, NEW n \in Nat, NEW a \in Artifacts,
         Accounts(u, v, n)
  PROVE  /\ Accounts(u, v, n + 1)
         /\ Accounts(Plus(u, a), v, n + 1)
         /\ Accounts(Plus(u, a), Plus(v, a), n)
         /\ Accounts(Plus(u, a), Plus(v, a), n + 1)
<1> DEFINE room == n * MaxSize
           more == (n + 1) * MaxSize
<1>1. room \in Nat /\ MaxSize \in Nat /\ more = room + MaxSize
  BY Multiples
<1>2. /\ v.shots <= u.shots /\ v.count <= u.count /\ v.maps <= u.maps
      /\ u.shots <= v.shots + room /\ u.count <= v.count + n /\ u.maps <= v.maps + room
  BY DEF Accounts, AtMostOver
<1> HIDE DEF room, more
<1>3. /\ u.shots <= v.shots + more /\ u.count <= v.count + (n + 1) /\ u.maps <= v.maps + more
  BY <1>1, <1>2, UsageFields
<1>4. CASE a.kind = "shot"
  <2>1. /\ Plus(u, a).shots = u.shots + a.size /\ Plus(v, a).shots = v.shots + a.size
        /\ Plus(u, a).count = u.count + 1 /\ Plus(v, a).count = v.count + 1
        /\ Plus(u, a).maps = u.maps /\ Plus(v, a).maps = v.maps
        /\ a.size \in Nat /\ a.size <= MaxSize
    BY <1>4, PlusFields
  <2> QED
    BY <1>1, <1>2, <1>3, <2>1, UsageFields DEF Accounts, AtMostOver, room, more
<1>5. CASE a.kind = "map"
  <2>1. /\ Plus(u, a).shots = u.shots /\ Plus(v, a).shots = v.shots
        /\ Plus(u, a).count = u.count /\ Plus(v, a).count = v.count
        /\ Plus(u, a).maps = u.maps + a.size /\ Plus(v, a).maps = v.maps + a.size
        /\ a.size \in Nat /\ a.size <= MaxSize
    BY <1>5, PlusFields
  <2> QED
    BY <1>1, <1>2, <1>3, <2>1, UsageFields DEF Accounts, AtMostOver, room, more
<1> QED
  BY <1>4, <1>5, PlusFields

LEMMA AccountsType ==
  ASSUME NEW u \in Usage, NEW v \in Usage, NEW n \in Nat, Accounts(u, v, n)
  PROVE  Accounts(u, v, n + 1)
<1> DEFINE room == n * MaxSize
           more == (n + 1) * MaxSize
<1>1. room \in Nat /\ MaxSize \in Nat /\ more = room + MaxSize
  BY Multiples
<1>2. /\ v.shots <= u.shots /\ v.count <= u.count /\ v.maps <= u.maps
      /\ u.shots <= v.shots + room /\ u.count <= v.count + n /\ u.maps <= v.maps + room
  BY DEF Accounts, AtMostOver
<1> HIDE DEF room, more
<1>3. /\ u.shots <= v.shots + more /\ u.count <= v.count + (n + 1) /\ u.maps <= v.maps + more
  BY <1>1, <1>2, UsageFields
<1> QED
  BY <1>2, <1>3 DEF Accounts, AtMostOver, more

\* A rebuilt ledger counts the temporary files of interrupted writes.
LEMMA ScanAccounts ==
  ASSUME NEW v \in Usage, NEW l \in Usage, NEW n \in Nat, AtMostOver(l, NoUsage, n)
  PROVE  LET scan == [shots |-> v.shots + l.shots, count |-> v.count + l.count,
                      maps |-> v.maps + l.maps]
         IN  scan \in Usage /\ Accounts(scan, v, n)
<1>1. /\ v.shots \in Nat /\ v.count \in Nat /\ v.maps \in Nat
      /\ l.shots \in Nat /\ l.count \in Nat /\ l.maps \in Nat /\ n * MaxSize \in Nat
  BY UsageFields, Multiples
<1>2. l.shots <= 0 + n * MaxSize /\ l.count <= 0 + n /\ l.maps <= 0 + n * MaxSize
  BY DEF AtMostOver, NoUsage
<1> QED
  BY <1>1, <1>2 DEF Accounts, AtMostOver, Usage

LEMMA LitterAfterFault ==
  ASSUME NEW l \in Usage, NEW n \in Nat, AtMostOver(l, NoUsage, n)
  PROVE  /\ AtMostOver(l, NoUsage, n + 1)
         /\ \A a \in Artifacts : AtMostOver(Plus(l, a), NoUsage, n + 1)
<1> DEFINE room == n * MaxSize
           more == (n + 1) * MaxSize
<1>1. room \in Nat /\ MaxSize \in Nat /\ more = room + MaxSize
  BY Multiples
<1>2. /\ l.shots \in Nat /\ l.count \in Nat /\ l.maps \in Nat
      /\ l.shots <= 0 + room /\ l.count <= 0 + n /\ l.maps <= 0 + room
  BY UsageFields DEF AtMostOver, NoUsage
<1> HIDE DEF room, more
<1>3. l.shots <= 0 + more /\ l.count <= 0 + (n + 1) /\ l.maps <= 0 + more
  BY <1>1, <1>2
<1>4. ASSUME NEW a \in Artifacts PROVE AtMostOver(Plus(l, a), NoUsage, n + 1)
  <2>1. /\ Plus(l, a).shots <= 0 + more /\ Plus(l, a).count <= 0 + (n + 1)
        /\ Plus(l, a).maps <= 0 + more
    BY <1>1, <1>2, <1>3, PlusFields
  <2> QED
    BY <2>1 DEF AtMostOver, NoUsage, more
<1> QED
  BY <1>3, <1>4 DEF AtMostOver, NoUsage, more

-----------------------------------------------------------------------------
(* A writer *)

LEMMA BudgetTypes ==
  ASSUME BudgetInv
  PROVE  /\ stored \in Usage /\ litter \in Usage /\ ledger \in Usage \cup {NoLedger}
         /\ faults \in Nat /\ NoLedger \notin Usage
         /\ \A p \in Procs : usage[p] \in Usage
         /\ Scan \in Usage /\ Accounts(Scan, stored, faults)
<1>1. stored \in Usage /\ litter \in Usage /\ AtMostOver(litter, NoUsage, faults)
  BY DEF BudgetInv, BudgetTypeOK
<1>2. faults \in Nat
  BY BudgetAssumption DEF BudgetInv, BudgetTypeOK
<1>3. Scan \in Usage /\ Accounts(Scan, stored, faults)
  BY <1>1, <1>2, ScanAccounts DEF Scan
<1> QED
  BY <1>1, <1>2, <1>3, BudgetAssumption DEF BudgetInv, BudgetTypeOK, Usage

\* While p works under the lock the others are idle or waiting for it.
LEMMA OthersAreOut ==
  ASSUME BudgetInv, NEW p \in Procs, at[p] \notin {"idle", "locking"}, NEW q \in Procs, q # p
  PROVE  at[q] \in {"idle", "locking"}
BY DEF BudgetInv, OneWriter, BudgetTypeOK

LEMMA NoUsageType == NoUsage \in Usage
BY DEF NoUsage, Usage

\* A writer that is through has dropped the lock and wants nothing.
LEMMA FinishTypes ==
  ASSUME BudgetTypeOK, NEW p \in Procs, Finish(p)
  PROVE  /\ holder' \in Procs \cup {NoOne}
         /\ at' \in [Procs -> {"idle", "locking", "loading", "reserving", "writing", "undoing"}]
         /\ want' \in [Procs -> Artifacts \cup {NoArtifact}]
         /\ usage' \in [Procs -> Usage]
         /\ at'[p] = "idle"
         /\ \A q \in Procs : q # p => /\ at'[q] = at[q] /\ want'[q] = want[q]
                                      /\ usage'[q] = usage[q]
BY NoUsageType DEF BudgetTypeOK, Finish, GotoAt

\* What a writer that finishes under the lock has to leave in order.
LEMMA FinishKeeps ==
  ASSUME BudgetInv, NEW p \in Procs, at[p] \notin {"idle", "locking"}, Finish(p),
         ledger' \in Usage \cup {NoLedger}, stored' \in Usage, litter' \in Usage,
         copies' \in [Maps -> Contents \cup {0}], faults' \in 0 .. MaxFaults,
         AtMostOver(litter', NoUsage, faults'),
         ledger' # NoLedger => Accounts(ledger', stored', faults')
  PROVE  BudgetInv'
<1>1. BudgetTypeOK'
  BY FinishTypes DEF BudgetInv, BudgetTypeOK
<1>2. \A q \in Procs : q # p => at[q] \in {"idle", "locking"}
  BY OthersAreOut
<1>3. /\ at'[p] = "idle" /\ holder' = NoOne
      /\ \A q \in Procs : q # p => at'[q] = at[q] /\ want'[q] = want[q] /\ usage'[q] = usage[q]
  BY FinishTypes DEF BudgetInv, Finish
<1>4. OneWriter'
  BY <1>2, <1>3, BudgetAssumption DEF OneWriter
<1>5. \A q \in Procs : WantsArtifact(q)' /\ WriterKnows(q)'
  BY <1>2, <1>3 DEF BudgetInv, WantsArtifact, WriterKnows
<1>6. LedgerAccounts'
  BY DEF LedgerAccounts
<1> QED
  BY <1>1, <1>4, <1>5, <1>6 DEF BudgetInv

\* While p is loading or reserving the ledger accounts for what is stored.
LEMMA LedgerIsGood ==
  ASSUME BudgetInv, NEW p \in Procs, at[p] \in {"loading", "reserving"}, ledger # NoLedger
  PROVE  Accounts(ledger, stored, faults)
<1>1. \A q \in Procs : at[q] \notin {"writing", "undoing"}
  BY OthersAreOut
<1> QED
  BY <1>1 DEF BudgetInv, LedgerAccounts

LEMMA FaultTypes ==
  ASSUME BudgetInv, Fault
  PROVE  faults' = faults + 1 /\ faults' \in 0 .. MaxFaults
BY BudgetAssumption DEF BudgetInv, BudgetTypeOK, Fault

LEMMA WantType ==
  ASSUME BudgetInv, NEW p \in Procs, at[p] # "idle"
  PROVE  /\ want[p] \in Artifacts /\ want[p].kind \in {"shot", "map"}
         /\ want[p].kind = "map" => want[p].map \in Maps /\ want[p].content \in Contents
<1>1. want[p] \in Artifacts
  BY DEF BudgetInv, WantsArtifact
<1>2. want[p].kind \in {"shot", "map"} /\ want[p].content \in Contents \cup {0}
  BY <1>1 DEF Artifacts
<1> QED
  BY <1>1, <1>2 DEF BudgetInv, WantsArtifact

\* A request for the lock, a lock that is taken, and one that is not.
LEMMA WaitKeeps ==
  ASSUME BudgetInv, NEW p \in Procs,
         \/ LockBudget(p)
         \/ LockBudgetFails(p)
         \/ /\ UNCHANGED <<ledger, stored, litter, copies, holder, usage, faults>>
            /\ \E a \in Artifacts : /\ a.kind = "map" => a.map \in Maps /\ a.content # 0
                                    /\ BeginWrite(p, a)
  PROVE  BudgetInv'
<1>1. /\ UNCHANGED <<ledger, stored, litter, copies, usage, faults>>
      /\ at' \in [Procs -> {"idle", "locking", "loading", "reserving", "writing", "undoing"}]
      /\ want' \in [Procs -> Artifacts \cup {NoArtifact}]
      /\ holder' \in Procs \cup {NoOne}
      /\ at[p] \in {"idle", "locking"} /\ at'[p] \in {"idle", "locking", "loading"}
      /\ \A q \in Procs : q # p => at'[q] = at[q] /\ want'[q] = want[q]
  BY DEF LockBudget, LockBudgetFails, BeginWrite, GotoAt, BudgetInv, BudgetTypeOK
<1>2. BudgetTypeOK'
  BY <1>1 DEF BudgetInv, BudgetTypeOK
<1>3. OneWriter'
  BY BudgetAssumption DEF LockBudget, LockBudgetFails, BeginWrite, GotoAt, BudgetInv, BudgetTypeOK, OneWriter
<1>4. WantsArtifact(p)'
  BY DEF LockBudget, LockBudgetFails, BeginWrite, GotoAt, BudgetInv, BudgetTypeOK, WantsArtifact
<1>5. \A q \in Procs : WantsArtifact(q)'
  BY <1>1, <1>4 DEF BudgetInv, WantsArtifact
<1>6. ASSUME NEW q \in Procs PROVE WriterKnows(q)'
  BY <1>1 DEF BudgetInv, WriterKnows
<1>7. LedgerAccounts'
  BY <1>1 DEF BudgetInv, LedgerAccounts
<1>8. AtMostOver(litter, NoUsage, faults)'
  BY <1>1 DEF BudgetInv
<1> QED
  BY <1>2, <1>3, <1>5, <1>6, <1>7, <1>8 DEF BudgetInv

LEMMA SkipCopiedKeeps ==
  ASSUME BudgetInv, NEW p \in Procs, SkipCopied(p) \/ Refuse(p)
  PROVE  BudgetInv'
<1>1. /\ at[p] \in {"loading", "reserving"} /\ Finish(p)
      /\ UNCHANGED <<ledger, stored, litter, copies, faults>>
  BY DEF SkipCopied, Refuse
<1> QED
  BY <1>1, FinishKeeps, LedgerIsGood DEF BudgetInv, BudgetTypeOK

LEMMA RebuildFailsKeeps ==
  ASSUME BudgetInv, NEW p \in Procs, RebuildFails(p)
  PROVE  BudgetInv'
<1>1. /\ at[p] = "loading" /\ Finish(p) /\ Fault /\ ledger' \in {ledger, Scan}
      /\ UNCHANGED <<stored, litter, copies>>
  BY DEF RebuildFails, Loading
<1>2. faults' = faults + 1 /\ faults' \in 0 .. MaxFaults
  BY <1>1, FaultTypes
<1>3. ledger' \in Usage \cup {NoLedger}
  BY <1>1, BudgetTypes
<1>4. ASSUME ledger' # NoLedger PROVE Accounts(ledger', stored', faults')
  <2>1. ledger' \in Usage /\ Accounts(ledger', stored, faults)
    BY <1>1, <1>3, <1>4, BudgetTypes, LedgerIsGood
  <2> QED
    BY <1>1, <1>2, <2>1, AccountsType, BudgetTypes
<1>5. AtMostOver(litter', NoUsage, faults')
  BY <1>1, <1>2, BudgetTypes, LitterAfterFault DEF BudgetInv
<1> QED
  BY <1>1, <1>2, <1>3, <1>4, <1>5, FinishKeeps DEF BudgetInv, BudgetTypeOK

\* The ledger as it was read or rebuilt accounts for what is stored.
LEMMA LoadKeeps ==
  ASSUME BudgetInv, NEW p \in Procs, LoadUsage(p) \/ RebuildUsage(p)
  PROVE  BudgetInv'
<1>1. /\ at[p] = "loading" /\ at'[p] = "reserving"
      /\ at' \in [Procs -> {"idle", "locking", "loading", "reserving", "writing", "undoing"}]
      /\ UNCHANGED <<stored, litter, copies, holder, want>>
      /\ \A q \in Procs : q # p => at'[q] = at[q]
      /\ want[p].kind = "map" => copies[want[p].map] = 0
  BY DEF LoadUsage, RebuildUsage, Loading, GotoAt, BudgetInv, BudgetTypeOK
<1>2. /\ \/ faults' = faults
         \/ faults' = faults + 1
      /\ faults' \in 0 .. MaxFaults /\ faults' \in Nat
  BY FaultTypes, BudgetTypes DEF LoadUsage, RebuildUsage, BudgetInv, BudgetTypeOK
<1>3. usage'[p] = ledger' /\ ledger' \in Usage /\ Accounts(ledger', stored, faults)
  BY <1>1, BudgetTypes, LedgerIsGood DEF LoadUsage, RebuildUsage, BudgetInv, BudgetTypeOK
<1>4. usage' \in [Procs -> Usage]
  BY BudgetTypes DEF LoadUsage, RebuildUsage, BudgetInv, BudgetTypeOK
<1>5. Accounts(ledger', stored', faults')
  BY <1>1, <1>2, <1>3, AccountsType, BudgetTypes
<1>6. AtMostOver(litter', NoUsage, faults')
  BY <1>1, <1>2, BudgetTypes, LitterAfterFault DEF BudgetInv
<1>7. BudgetTypeOK'
  BY <1>1, <1>2, <1>3, <1>4 DEF BudgetInv, BudgetTypeOK
<1>8. OneWriter'
  BY <1>1 DEF BudgetInv, OneWriter
<1>9. \A q \in Procs : WantsArtifact(q)'
  BY <1>1 DEF BudgetInv, WantsArtifact
<1>10. ASSUME NEW q \in Procs PROVE WriterKnows(q)'
  <2>1. CASE q = p
    BY <1>1, <1>3, <1>5, <2>1, BudgetTypes DEF WriterKnows
  <2>2. CASE q # p
    BY <1>1, <2>2, OthersAreOut DEF WriterKnows
  <2> QED
    BY <2>1, <2>2
<1>11. LedgerAccounts'
  BY <1>5 DEF LedgerAccounts
<1> QED
  BY <1>6, <1>7, <1>8, <1>9, <1>10, <1>11 DEF BudgetInv

LEMMA ReserveKeeps ==
  ASSUME BudgetInv, NEW p \in Procs, Reserve(p)
  PROVE  BudgetInv'
<1>1. /\ at[p] = "reserving" /\ at'[p] = "writing" /\ Fits(usage[p], want[p])
      /\ at' \in [Procs -> {"idle", "locking", "loading", "reserving", "writing", "undoing"}]
      /\ UNCHANGED <<stored, litter, copies, holder, want, usage, faults>>
      /\ \A q \in Procs : q # p => at'[q] = at[q]
      /\ ledger' = Plus(usage[p], want[p])
  BY DEF Reserve, GotoAt, BudgetInv, BudgetTypeOK
<1>2. ledger' \in Usage
  BY <1>1, BudgetTypes, WantType, PlusFields
<1>3. BudgetTypeOK'
  BY <1>1, <1>2 DEF BudgetInv, BudgetTypeOK
<1>4. OneWriter'
  BY <1>1 DEF BudgetInv, OneWriter
<1>5. \A q \in Procs : WantsArtifact(q)'
  BY <1>1 DEF BudgetInv, WantsArtifact
<1>6. ASSUME NEW q \in Procs PROVE WriterKnows(q)'
  <2>1. CASE q = p
    <3>1. WriterKnows(p)
      BY DEF BudgetInv
    <3> QED
      BY <1>1, <1>2, <2>1, <3>1, BudgetTypes DEF WriterKnows
  <2>2. CASE q # p
    BY <1>1, <2>2, OthersAreOut DEF WriterKnows
  <2> QED
    BY <2>1, <2>2
<1>7. LedgerAccounts'
  BY <1>1 DEF LedgerAccounts
<1> QED
  BY <1>1, <1>3, <1>4, <1>5, <1>6, <1>7 DEF BudgetInv

\* An error while the ledger is written leaves the reservation or not.
LEMMA ReserveFailsKeeps ==
  ASSUME BudgetInv, NEW p \in Procs, ReserveFails(p) \/ UndoFails(p)
  PROVE  BudgetInv'
<1>1. /\ at[p] \in {"reserving", "undoing"} /\ Finish(p) /\ Fault
      /\ ledger' \in {usage[p], Plus(usage[p], want[p])}
      /\ UNCHANGED <<stored, litter, copies>>
  BY DEF ReserveFails, UndoFails, BudgetInv, WriterKnows
<1>2. faults' = faults + 1 /\ faults' \in 0 .. MaxFaults
  BY <1>1, FaultTypes
<1>3. want[p] \in Artifacts /\ usage[p] \in Usage /\ Accounts(usage[p], stored, faults)
  BY <1>1, BudgetTypes, WantType DEF BudgetInv, WriterKnows
<1>4. ledger' \in Usage
  BY <1>1, <1>3, PlusFields
<1>5. Accounts(ledger', stored', faults')
  BY <1>1, <1>2, <1>3, BudgetTypes, AccountsAfterFault
<1>6. AtMostOver(litter', NoUsage, faults')
  BY <1>1, <1>2, BudgetTypes, LitterAfterFault DEF BudgetInv
<1> QED
  BY <1>1, <1>2, <1>4, <1>5, <1>6, FinishKeeps DEF BudgetInv, BudgetTypeOK

LEMMA UndoKeeps ==
  ASSUME BudgetInv, NEW p \in Procs, Undo(p)
  PROVE  BudgetInv'
<1>1. /\ at[p] = "undoing" /\ Finish(p) /\ ledger' = usage[p]
      /\ UNCHANGED <<stored, litter, copies, faults>>
  BY DEF Undo
<1>2. usage[p] \in Usage /\ Accounts(usage[p], stored, faults)
  BY <1>1, BudgetTypes DEF BudgetInv, WriterKnows
<1> QED
  BY <1>1, <1>2, FinishKeeps DEF BudgetInv, BudgetTypeOK

\* The artifact appears with its reservation.
LEMMA AppearKeeps ==
  ASSUME BudgetInv, NEW p \in Procs, at[p] = "writing", Appear(p), Finish(p),
         UNCHANGED <<ledger, litter>>, \/ UNCHANGED faults
                                       \/ Fault
  PROVE  BudgetInv'
<1>1. /\ faults' = faults \/ faults' = faults + 1
      /\ faults' \in 0 .. MaxFaults
  BY FaultTypes DEF BudgetInv, BudgetTypeOK
<1>2. /\ ledger = Plus(usage[p], want[p]) /\ want[p] \in Artifacts /\ usage[p] \in Usage
      /\ Accounts(usage[p], stored, faults)
  BY BudgetTypes, WantType DEF BudgetInv, WriterKnows
<1>3. stored' = Plus(stored, want[p]) /\ stored' \in Usage
  BY <1>2, BudgetTypes, PlusFields DEF Appear
<1>4. Accounts(ledger', stored', faults')
  BY <1>1, <1>2, <1>3, BudgetTypes, AccountsAfterFault
<1>5. AtMostOver(litter', NoUsage, faults')
  BY <1>1, BudgetTypes, LitterAfterFault DEF BudgetInv
<1>6. copies' \in [Maps -> Contents \cup {0}]
  BY WantType DEF Appear, BudgetInv, BudgetTypeOK
<1> QED
  BY <1>1, <1>3, <1>4, <1>5, <1>6, FinishKeeps DEF BudgetInv, BudgetTypeOK

\* What an interrupted writer wrote so far stays as a temporary file at most.
LEMMA InterruptedLitter ==
  ASSUME BudgetInv, NEW p \in Procs, at[p] = "writing", Interrupted(p), Fault
  PROVE  litter' \in Usage /\ AtMostOver(litter', NoUsage, faults')
<1>1. want[p] \in Artifacts /\ litter' \in {litter, Plus(litter, want[p])}
  BY WantType DEF Interrupted
<1>2. faults' = faults + 1
  BY FaultTypes
<1> QED
  BY <1>1, <1>2, BudgetTypes, PlusFields, LitterAfterFault DEF BudgetInv

LEMMA WriteFailsKeeps ==
  ASSUME BudgetInv, NEW p \in Procs, at[p] = "writing", Fault, Interrupted(p),
         GotoAt(p, "undoing"), UNCHANGED <<ledger, holder, want, usage>>
  PROVE  BudgetInv'
<1>1. /\ at'[p] = "undoing" /\ UNCHANGED <<stored, copies>>
      /\ at' \in [Procs -> {"idle", "locking", "loading", "reserving", "writing", "undoing"}]
      /\ \A q \in Procs : q # p => at'[q] = at[q]
  BY DEF GotoAt, Interrupted, BudgetInv, BudgetTypeOK
<1>2. faults' = faults + 1 /\ faults' \in 0 .. MaxFaults
  BY FaultTypes
<1>3. BudgetTypeOK'
  BY <1>1, <1>2, InterruptedLitter DEF BudgetInv, BudgetTypeOK
<1>4. OneWriter'
  BY <1>1 DEF BudgetInv, OneWriter
<1>5. \A q \in Procs : WantsArtifact(q)'
  BY <1>1 DEF BudgetInv, WantsArtifact
<1>6. ASSUME NEW q \in Procs PROVE WriterKnows(q)'
  <2>1. CASE q = p
    <3>1. WriterKnows(p)
      BY DEF BudgetInv
    <3>2. Accounts(usage[p], stored, faults + 1)
      BY <3>1, BudgetTypes, AccountsType DEF WriterKnows
    <3> QED
      BY <1>1, <1>2, <2>1, <3>1, <3>2 DEF WriterKnows
  <2>2. CASE q # p
    BY <1>1, <2>2, OthersAreOut DEF WriterKnows
  <2> QED
    BY <2>1, <2>2
<1>7. LedgerAccounts'
  BY <1>1 DEF LedgerAccounts
<1> QED
  BY <1>3, <1>4, <1>5, <1>6, <1>7, InterruptedLitter DEF BudgetInv

\* A writer that dies costs the room of its artifact at most.
LEMMA DeathKeeps ==
  ASSUME BudgetInv, NEW p \in Procs, WriterDies(p)
  PROVE  BudgetInv'
<1>1. /\ at[p] # "idle" /\ at'[p] = "idle" /\ Fault /\ UNCHANGED <<ledger, stored, copies>>
      /\ at' \in [Procs -> {"idle", "locking", "loading", "reserving", "writing", "undoing"}]
      /\ want' \in [Procs -> Artifacts \cup {NoArtifact}]
      /\ usage' \in [Procs -> Usage]
      /\ holder' = IF holder = p THEN NoOne ELSE holder
      /\ \A q \in Procs : q # p => at'[q] = at[q] /\ want'[q] = want[q] /\ usage'[q] = usage[q]
  BY NoUsageType DEF WriterDies, GotoAt, Interrupted, BudgetInv, BudgetTypeOK
<1>2. faults' = faults + 1 /\ faults' \in 0 .. MaxFaults
  BY <1>1, FaultTypes
<1>3. litter' \in Usage /\ AtMostOver(litter', NoUsage, faults')
  <2>1. CASE at[p] = "writing"
    BY <1>1, <2>1, InterruptedLitter DEF WriterDies
  <2>2. CASE at[p] # "writing"
    <3>1. litter' = litter
      BY <2>2 DEF WriterDies
    <3> QED
      BY <1>2, <3>1, BudgetTypes, LitterAfterFault DEF BudgetInv
  <2> QED
    BY <2>1, <2>2
<1>4. BudgetTypeOK'
  BY <1>1, <1>2, <1>3 DEF BudgetInv, BudgetTypeOK
<1>5. OneWriter'
  BY <1>1, BudgetAssumption DEF BudgetInv, BudgetTypeOK, OneWriter
<1>6. \A q \in Procs : WantsArtifact(q)'
  BY <1>1 DEF BudgetInv, WantsArtifact
<1>7. ASSUME NEW q \in Procs PROVE WriterKnows(q)'
  <2>1. CASE q = p
    BY <1>1, <2>1 DEF WriterKnows
  <2>2. CASE q # p
    <3>1. WriterKnows(q) /\ usage[q] \in Usage
      BY BudgetTypes DEF BudgetInv
    <3>2. at[q] \in {"reserving", "writing", "undoing"} => Accounts(usage[q], stored, faults + 1)
      BY <3>1, BudgetTypes, AccountsType DEF WriterKnows
    <3> QED
      BY <1>1, <1>2, <2>2, <3>1, <3>2 DEF WriterKnows
  <2> QED
    BY <2>1, <2>2
<1>8. ASSUME ledger' # NoLedger, \A q \in Procs : at'[q] \notin {"writing", "undoing"}
      PROVE  Accounts(ledger', stored', faults')
  <2>1. CASE at[p] \in {"writing", "undoing"}
    <3>1. /\ ledger = Plus(usage[p], want[p]) /\ want[p] \in Artifacts /\ usage[p] \in Usage
          /\ Accounts(usage[p], stored, faults)
      BY <2>1, BudgetTypes, WantType DEF BudgetInv, WriterKnows
    <3> QED
      BY <1>1, <1>2, <3>1, BudgetTypes, AccountsAfterFault
  <2>2. CASE at[p] \notin {"writing", "undoing"}
    <3>1. \A q \in Procs : at[q] \notin {"writing", "undoing"}
      BY <1>1, <1>8, <2>2
    <3>2. ledger \in Usage /\ Accounts(ledger, stored, faults)
      BY <1>1, <1>8, <3>1, BudgetTypes DEF BudgetInv, LedgerAccounts
    <3> QED
      BY <1>1, <1>2, <3>2, BudgetTypes, AccountsType
  <2> QED
    BY <2>1, <2>2
<1>9. LedgerAccounts'
  BY <1>8 DEF LedgerAccounts
<1> QED
  BY <1>3, <1>4, <1>5, <1>6, <1>7, <1>9 DEF BudgetInv

LEMMA WriterKeepsBudget ==
  ASSUME BudgetInv, NEW p \in Procs, WriterStep(p)
  PROVE  BudgetInv'
<1>1. ASSUME Write(p) PROVE BudgetInv'
  BY <1>1, AppearKeeps DEF Write
<1>2. ASSUME WriteFails(p) PROVE BudgetInv'
  BY <1>2, AppearKeeps, WriteFailsKeeps DEF WriteFails
<1> QED
  BY <1>1, <1>2, WaitKeeps, SkipCopiedKeeps, LoadKeeps, RebuildFailsKeeps, ReserveKeeps,
     ReserveFailsKeeps, UndoKeeps, DeathKeeps DEF WriterStep

\* A step that leaves the artifacts alone.
LEMMA BudgetStutters ==
  ASSUME BudgetInv, UNCHANGED budgetVars
  PROVE  BudgetInv'
<1>1. UNCHANGED <<ledger, stored, litter, copies, holder, at, want, usage, faults>>
  BY DEF budgetVars
<1>2. BudgetTypeOK' /\ OneWriter'
  BY <1>1 DEF BudgetInv, BudgetTypeOK, OneWriter
<1>3. \A q \in Procs : WantsArtifact(q)' /\ WriterKnows(q)'
  BY <1>1 DEF BudgetInv, WantsArtifact, WriterKnows
<1>4. LedgerAccounts'
  BY <1>1 DEF BudgetInv, LedgerAccounts
<1> QED
  BY <1>1, <1>2, <1>3, <1>4 DEF BudgetInv

-----------------------------------------------------------------------------
(* The maps and the commands *)

LEMMA MapNumbers ==
  /\ Maps \subseteq Nat /\ 0 \notin Maps
  /\ \A c \in Contents : c \in Nat /\ c # 0
  /\ 1 \in Contents /\ NoOne \notin Procs /\ NoOne \notin Maps
  /\ \A d \in Maps : 1 .. d \subseteq Maps
<1>1. \A c \in Contents : c \in Nat /\ c # 0
  BY BudgetAssumption
<1> QED
  BY <1>1, BudgetAssumption, RecordingAssumption

LEMMA SavedIsNumber == TypeOK => saved \in Nat
<1>1. saved \in Maps \cup {0} => saved \in Nat
  BY MapNumbers
<1> QED
  BY <1>1 DEF TypeOK

\* The end of a command.
LEMMA DoneTypes ==
  ASSUME TypeOK, NEW p \in Procs, Done(p)
  PROVE  /\ pc' = [pc EXCEPT ![p] = "idle"]
         /\ full' \in [Procs -> BOOLEAN]
         /\ id' \in [Procs -> Maps \cup {0}] /\ id'[p] = 0
         /\ version' \in [Procs -> Contents \cup {0}]
         /\ todo' \in [Procs -> SUBSET Maps]
         /\ \A q \in Procs : q # p => id'[q] = id[q] /\ version'[q] = version[q] /\ todo'[q] = todo[q]
<1>1. full' \in [Procs -> BOOLEAN]
  BY Zenon DEF TypeOK, Done
<1> QED
  BY <1>1 DEF TypeOK, Done, Goto

\* What a writer of artifacts does to the copies.
LEMMA CopySteps ==
  ASSUME BudgetInv, NEW p \in Procs, WriterStep(p)
  PROVE  /\ \A d \in Maps :
              /\ copies[d] # 0 => copies'[d] # 0
              /\ copies'[d] # copies[d] => /\ at[p] # "idle" /\ want[p].kind = "map"
                                           /\ d = want[p].map
         /\ at'[p] # "idle" => at[p] # "idle" /\ want'[p] = want[p]
         /\ \A q \in Procs : q # p => at'[q] = at[q] /\ want'[q] = want[q]
<1>1. CASE UNCHANGED copies
  <2>1. /\ at'[p] # "idle" => at[p] # "idle" /\ want'[p] = want[p]
        /\ \A q \in Procs : q # p => at'[q] = at[q] /\ want'[q] = want[q]
    BY DEF BudgetInv, BudgetTypeOK, WriterStep, LockBudget, LockBudgetFails, SkipCopied,
       LoadUsage, RebuildUsage, RebuildFails, Loading, Refuse, Reserve, ReserveFails, Write,
       WriteFails, Undo, UndoFails, WriterDies, Finish, GotoAt
  <2> QED
    BY <1>1, <2>1
<1>2. CASE at[p] = "writing" /\ Appear(p) /\ Finish(p)
  <2>1. want[p].kind = "map" => want[p].map \in Maps /\ want[p].content # 0
    BY <1>2 DEF BudgetInv, WantsArtifact
  <2>2. \A d \in Maps :
          /\ copies[d] # 0 => copies'[d] # 0
          /\ copies'[d] # copies[d] => want[p].kind = "map" /\ d = want[p].map
    BY <1>2, <2>1 DEF Appear, BudgetInv, BudgetTypeOK
  <2>3. at'[p] = "idle" /\ \A q \in Procs : q # p => at'[q] = at[q] /\ want'[q] = want[q]
    BY <1>2, FinishTypes DEF BudgetInv
  <2> QED
    BY <1>2, <2>2, <2>3
<1> QED
  BY <1>1, <1>2 DEF WriterStep, LockBudget, LockBudgetFails, SkipCopied,
     LoadUsage, RebuildUsage, RebuildFails, Refuse, Reserve, ReserveFails, Write,
     WriteFails, Undo, UndoFails, WriterDies, Interrupted

\* A command that dies outside the artifacts leaves them alone.
LEMMA BudgetAfterFault ==
  ASSUME BudgetInv, Fault, UNCHANGED <<ledger, stored, litter, copies, holder, at, want, usage>>
  PROVE  BudgetInv'
<1>1. faults' = faults + 1 /\ faults' \in 0 .. MaxFaults
  BY FaultTypes
<1>2. BudgetTypeOK' /\ OneWriter'
  BY <1>1 DEF BudgetInv, BudgetTypeOK, OneWriter
<1>3. AtMostOver(litter', NoUsage, faults')
  BY <1>1, BudgetTypes, LitterAfterFault DEF BudgetInv
<1>4. ASSUME NEW q \in Procs PROVE WantsArtifact(q)' /\ WriterKnows(q)'
  <2>1. WriterKnows(q) /\ WantsArtifact(q) /\ usage[q] \in Usage
    BY BudgetTypes DEF BudgetInv
  <2>2. at[q] \in {"reserving", "writing", "undoing"} => Accounts(usage[q], stored, faults + 1)
    BY <2>1, BudgetTypes, AccountsType DEF WriterKnows
  <2> QED
    BY <1>1, <2>1, <2>2 DEF WantsArtifact, WriterKnows
<1>5. LedgerAccounts'
  <2>1. ledger # NoLedger /\ (\A q \in Procs : at[q] \notin {"writing", "undoing"}) =>
          Accounts(ledger, stored, faults + 1)
    BY BudgetTypes, AccountsType DEF BudgetInv, LedgerAccounts
  <2> QED
    BY <1>1, <2>1 DEF LedgerAccounts
<1> QED
  BY <1>2, <1>3, <1>4, <1>5 DEF BudgetInv

LEMMA StartKeeps ==
  ASSUME RecordingInv, NEW p \in Procs, Start(p)
  PROVE  RecordingInv'
<1> USE DEF Start, Goto, budgetVars, storeVars, cmdVars
<1>1. BudgetInv'
  BY BudgetStutters DEF RecordingInv
<1>2. TypeOK'
  <2>1. full' \in [Procs -> BOOLEAN] /\ ended' \in BOOLEAN /\ torn' \in BOOLEAN
    BY Zenon DEF RecordingInv, TypeOK
  <2>2. /\ snap' \in [Maps -> Contents \cup {0}]
        /\ latest' \in Maps \cup {0} /\ saved' \in Maps \cup {0} /\ evicted' \subseteq Maps
        /\ writer' \in Procs \cup {NoOne}
        /\ id' \in [Procs -> Maps \cup {0}]
        /\ version' \in [Procs -> Contents \cup {0}]
        /\ todo' \in [Procs -> SUBSET Maps]
    BY MapNumbers DEF RecordingInv, TypeOK
  <2>3. pc' \in [Procs -> {"idle", "saving", "pointing", "drilling", "rewriting", "copying",
                       "capturing", "recording", "ending", "sealing", "listing",
                       "discarding", "unpointing"}]
    BY Zenon DEF RecordingInv, TypeOK
  <2> QED
    BY <1>1, <2>1, <2>2, <2>3 DEF TypeOK, BudgetInv
<1>3. OnlySavedMaps'
  BY MapNumbers DEF RecordingInv, TypeOK, OnlySavedMaps, CommandsAgree
<1>4. CommandsAgree'
  BY MapNumbers DEF RecordingInv, TypeOK, CommandsAgree
<1>5. PointerFollowsMap'
  BY MapNumbers DEF RecordingInv, TypeOK, CommandsAgree, PointerFollowsMap
<1>6. DanglingIsSeen'
  BY MapNumbers DEF RecordingInv, TypeOK, DanglingIsSeen, PointerFollowsMap, Kept
<1>7. UncopiedIsKept'
  BY MapNumbers DEF RecordingInv, TypeOK, CommandsAgree, UncopiedIsKept, Kept
<1> QED
  BY <1>1, <1>2, <1>3, <1>4, <1>5, <1>6, <1>7 DEF RecordingInv

LEMMA SaveKeeps ==
  ASSUME RecordingInv, NEW p \in Procs, Save(p)
  PROVE  RecordingInv'
<1> USE DEF Save, Goto, budgetVars, storeVars, cmdVars
<1>1. BudgetInv'
  BY BudgetStutters DEF RecordingInv
<1>2. TypeOK'
  <2>1. full' \in [Procs -> BOOLEAN] /\ ended' \in BOOLEAN /\ torn' \in BOOLEAN
    BY Zenon DEF RecordingInv, TypeOK
  <2>2. /\ snap' \in [Maps -> Contents \cup {0}]
        /\ latest' \in Maps \cup {0} /\ saved' \in Maps \cup {0} /\ evicted' \subseteq Maps
        /\ writer' \in Procs \cup {NoOne}
        /\ id' \in [Procs -> Maps \cup {0}]
        /\ version' \in [Procs -> Contents \cup {0}]
        /\ todo' \in [Procs -> SUBSET Maps]
    BY MapNumbers DEF RecordingInv, TypeOK
  <2>3. pc' \in [Procs -> {"idle", "saving", "pointing", "drilling", "rewriting", "copying",
                       "capturing", "recording", "ending", "sealing", "listing",
                       "discarding", "unpointing"}]
    BY Zenon DEF RecordingInv, TypeOK
  <2> QED
    BY <1>1, <2>1, <2>2, <2>3 DEF TypeOK, BudgetInv
<1>3. OnlySavedMaps'
  BY MapNumbers DEF RecordingInv, TypeOK, OnlySavedMaps, CommandsAgree
<1>4. CommandsAgree'
  BY MapNumbers DEF RecordingInv, TypeOK, CommandsAgree
<1>5. PointerFollowsMap'
  <2>1. /\ saved \in Nat /\ saved' = saved + 1 /\ saved' \in Maps /\ saved' # saved
        /\ id'[p] = saved' /\ snap'[saved'] # 0 /\ copies'[saved'] = copies[saved']
        /\ UNCHANGED <<copies, at, want>>
        /\ \A q \in Procs : q # p => pc'[q] = pc[q] /\ id'[q] = id[q]
    BY MapNumbers DEF RecordingInv, TypeOK
  <2>2. copies[saved'] = 0
    BY <2>1 DEF RecordingInv, OnlySavedMaps
  <2>3. \A q \in Procs : id[q] # saved' /\ (at[q] # "idle" /\ want[q].kind = "map" => want[q].map # saved')
    BY <2>1 DEF RecordingInv, CommandsAgree
  <2>4. \A q \in Procs : pc[q] # "pointing"
    BY MapNumbers DEF RecordingInv, CommandsAgree
  <2> HIDE DEF Save
  <2> QED
    BY <2>1, <2>2, <2>3, <2>4 DEF PointerFollowsMap
<1>6. DanglingIsSeen'
  BY MapNumbers DEF RecordingInv, TypeOK, DanglingIsSeen, PointerFollowsMap, Kept
<1>7. UncopiedIsKept'
  BY MapNumbers DEF RecordingInv, TypeOK, CommandsAgree, UncopiedIsKept, Kept
<1> QED
  BY <1>1, <1>2, <1>3, <1>4, <1>5, <1>6, <1>7 DEF RecordingInv

LEMMA PointKeeps ==
  ASSUME RecordingInv, NEW p \in Procs, Point(p)
  PROVE  RecordingInv'
<1> USE DEF Point, Kept, Goto, budgetVars, storeVars, cmdVars
<1>1. BudgetInv'
  BY BudgetStutters DEF RecordingInv
<1>2. TypeOK'
  <2>1. full' \in [Procs -> BOOLEAN] /\ ended' \in BOOLEAN /\ torn' \in BOOLEAN
    BY Zenon DEF RecordingInv, TypeOK
  <2>2. /\ snap' \in [Maps -> Contents \cup {0}]
        /\ latest' \in Maps \cup {0} /\ saved' \in Maps \cup {0} /\ evicted' \subseteq Maps
        /\ writer' \in Procs \cup {NoOne}
        /\ id' \in [Procs -> Maps \cup {0}]
        /\ version' \in [Procs -> Contents \cup {0}]
        /\ todo' \in [Procs -> SUBSET Maps]
    BY MapNumbers DEF RecordingInv, TypeOK
  <2>3. pc' \in [Procs -> {"idle", "saving", "pointing", "drilling", "rewriting", "copying",
                       "capturing", "recording", "ending", "sealing", "listing",
                       "discarding", "unpointing"}]
    BY Zenon DEF RecordingInv, TypeOK
  <2> QED
    BY <1>1, <2>1, <2>2, <2>3 DEF TypeOK, BudgetInv
<1>3. OnlySavedMaps'
  BY MapNumbers DEF RecordingInv, TypeOK, OnlySavedMaps, CommandsAgree
<1>4. CommandsAgree'
  BY MapNumbers DEF RecordingInv, TypeOK, CommandsAgree
<1>5. PointerFollowsMap'
  BY MapNumbers DEF RecordingInv, TypeOK, CommandsAgree, PointerFollowsMap
<1>6. DanglingIsSeen'
  BY MapNumbers DEF RecordingInv, TypeOK, DanglingIsSeen, PointerFollowsMap, Kept
<1>7. UncopiedIsKept'
  BY MapNumbers DEF RecordingInv, TypeOK, CommandsAgree, UncopiedIsKept, Kept
<1> QED
  BY <1>1, <1>2, <1>3, <1>4, <1>5, <1>6, <1>7 DEF RecordingInv

LEMMA ReadMapKeeps ==
  ASSUME RecordingInv, NEW p \in Procs, ReadMap(p)
  PROVE  RecordingInv'
<1> USE DEF ReadMap, Kept, Goto, budgetVars, storeVars, cmdVars
<1>1. BudgetInv'
  BY BudgetStutters DEF RecordingInv
<1>2. TypeOK'
  <2>1. full' \in [Procs -> BOOLEAN] /\ ended' \in BOOLEAN /\ torn' \in BOOLEAN
    BY Zenon DEF RecordingInv, TypeOK
  <2>2. /\ snap' \in [Maps -> Contents \cup {0}]
        /\ latest' \in Maps \cup {0} /\ saved' \in Maps \cup {0} /\ evicted' \subseteq Maps
        /\ writer' \in Procs \cup {NoOne}
        /\ id' \in [Procs -> Maps \cup {0}]
        /\ version' \in [Procs -> Contents \cup {0}]
        /\ todo' \in [Procs -> SUBSET Maps]
    BY MapNumbers DEF RecordingInv, TypeOK
  <2>3. pc' \in [Procs -> {"idle", "saving", "pointing", "drilling", "rewriting", "copying",
                       "capturing", "recording", "ending", "sealing", "listing",
                       "discarding", "unpointing"}]
    BY Zenon DEF RecordingInv, TypeOK
  <2> QED
    BY <1>1, <2>1, <2>2, <2>3 DEF TypeOK, BudgetInv
<1>3. OnlySavedMaps'
  BY MapNumbers DEF RecordingInv, TypeOK, OnlySavedMaps, CommandsAgree
<1>4. CommandsAgree'
  BY MapNumbers DEF RecordingInv, TypeOK, CommandsAgree, OnlySavedMaps
<1>5. PointerFollowsMap'
  BY MapNumbers DEF RecordingInv, TypeOK, CommandsAgree, PointerFollowsMap
<1>6. DanglingIsSeen'
  BY MapNumbers DEF RecordingInv, TypeOK, DanglingIsSeen, PointerFollowsMap, Kept
<1>7. UncopiedIsKept'
  BY MapNumbers DEF RecordingInv, TypeOK, CommandsAgree, UncopiedIsKept, Kept
<1> QED
  BY <1>1, <1>2, <1>3, <1>4, <1>5, <1>6, <1>7 DEF RecordingInv

LEMMA RewriteKeeps ==
  ASSUME RecordingInv, NEW p \in Procs, Rewrite(p)
  PROVE  RecordingInv'
<1> USE DEF Rewrite, Goto, budgetVars, storeVars, cmdVars
<1>1. BudgetInv'
  BY BudgetStutters DEF RecordingInv
<1>2. TypeOK'
  <2>1. full' \in [Procs -> BOOLEAN] /\ ended' \in BOOLEAN /\ torn' \in BOOLEAN
    BY Zenon DEF RecordingInv, TypeOK
  <2>2. /\ snap' \in [Maps -> Contents \cup {0}]
        /\ latest' \in Maps \cup {0} /\ saved' \in Maps \cup {0} /\ evicted' \subseteq Maps
        /\ writer' \in Procs \cup {NoOne}
        /\ id' \in [Procs -> Maps \cup {0}]
        /\ version' \in [Procs -> Contents \cup {0}]
        /\ todo' \in [Procs -> SUBSET Maps]
    BY MapNumbers DEF RecordingInv, TypeOK
  <2>3. pc' \in [Procs -> {"idle", "saving", "pointing", "drilling", "rewriting", "copying",
                       "capturing", "recording", "ending", "sealing", "listing",
                       "discarding", "unpointing"}]
    BY Zenon DEF RecordingInv, TypeOK
  <2> QED
    BY <1>1, <2>1, <2>2, <2>3 DEF TypeOK, BudgetInv
<1>3. OnlySavedMaps'
  BY MapNumbers DEF RecordingInv, TypeOK, OnlySavedMaps, CommandsAgree
<1>4. CommandsAgree'
  BY MapNumbers DEF RecordingInv, TypeOK, CommandsAgree
<1>5. PointerFollowsMap'
  BY MapNumbers DEF RecordingInv, TypeOK, CommandsAgree, PointerFollowsMap
<1>6. DanglingIsSeen'
  <2>1. UNCHANGED <<latest, torn>> /\ version[p] # 0
    BY MapNumbers DEF RecordingInv, CommandsAgree
  <2>2. Kept \subseteq Kept'
    BY <2>1 DEF RecordingInv, TypeOK, Kept
  <2>3. \A q \in Procs : pc[q] \in {"discarding", "unpointing"} => pc'[q] = pc[q]
    BY DEF RecordingInv, TypeOK
  <2> HIDE DEF Rewrite
  <2> QED
    BY <2>1, <2>2, <2>3 DEF RecordingInv, DanglingIsSeen
<1>7. UncopiedIsKept'
  BY MapNumbers DEF RecordingInv, TypeOK, CommandsAgree, UncopiedIsKept, Kept
<1> QED
  BY <1>1, <1>2, <1>3, <1>4, <1>5, <1>6, <1>7 DEF RecordingInv

LEMMA GiveUpKeeps ==
  ASSUME RecordingInv, NEW p \in Procs, GiveUp(p)
  PROVE  RecordingInv'
<1> USE DEF GiveUp, Goto, budgetVars, storeVars, cmdVars
<1>1. BudgetInv'
  BY BudgetStutters DEF RecordingInv
<1>2. TypeOK'
  <2>1. full' \in [Procs -> BOOLEAN] /\ ended' \in BOOLEAN /\ torn' \in BOOLEAN
    BY DoneTypes, Zenon DEF RecordingInv, TypeOK
  <2>2. /\ snap' \in [Maps -> Contents \cup {0}]
        /\ latest' \in Maps \cup {0} /\ saved' \in Maps \cup {0} /\ evicted' \subseteq Maps
        /\ writer' \in Procs \cup {NoOne}
        /\ id' \in [Procs -> Maps \cup {0}]
        /\ version' \in [Procs -> Contents \cup {0}]
        /\ todo' \in [Procs -> SUBSET Maps]
    BY DoneTypes, MapNumbers DEF RecordingInv, TypeOK
  <2>3. pc' \in [Procs -> {"idle", "saving", "pointing", "drilling", "rewriting", "copying",
                       "capturing", "recording", "ending", "sealing", "listing",
                       "discarding", "unpointing"}]
    BY DoneTypes DEF RecordingInv, TypeOK
  <2> QED
    BY <1>1, <2>1, <2>2, <2>3 DEF TypeOK, BudgetInv
<1>3. OnlySavedMaps'
  BY DoneTypes, MapNumbers DEF RecordingInv, TypeOK, OnlySavedMaps, CommandsAgree
<1>4. CommandsAgree'
  BY DoneTypes, MapNumbers DEF RecordingInv, TypeOK, CommandsAgree
<1>5. PointerFollowsMap'
  BY DoneTypes, MapNumbers DEF RecordingInv, TypeOK, CommandsAgree, PointerFollowsMap
<1>6. DanglingIsSeen'
  <2>1. UNCHANGED <<latest, torn>>
    OBVIOUS
  <2>2. pc[p] = "rewriting" => version[p] # 0
    BY MapNumbers DEF RecordingInv, CommandsAgree
  <2>3. Kept \subseteq Kept'
    BY <2>2 DEF RecordingInv, TypeOK, Kept
  <2>4. \A q \in Procs : pc[q] \in {"discarding", "unpointing"} => pc'[q] = pc[q]
    BY DoneTypes DEF RecordingInv, TypeOK
  <2> HIDE DEF GiveUp
  <2> QED
    BY <2>1, <2>3, <2>4 DEF RecordingInv, DanglingIsSeen
<1>7. UncopiedIsKept'
  BY DoneTypes, MapNumbers DEF RecordingInv, TypeOK, CommandsAgree, UncopiedIsKept, Kept
<1> QED
  BY <1>1, <1>2, <1>3, <1>4, <1>5, <1>6, <1>7 DEF RecordingInv

LEMMA ReadEndKeeps ==
  ASSUME RecordingInv, NEW p \in Procs, ReadEnd(p)
  PROVE  RecordingInv'
<1> USE DEF ReadEnd, Goto, budgetVars, storeVars, cmdVars
<1>1. BudgetInv'
  BY BudgetStutters DEF RecordingInv
<1>2. TypeOK'
  <2>1. full' \in [Procs -> BOOLEAN] /\ ended' \in BOOLEAN /\ torn' \in BOOLEAN
    BY DoneTypes, Zenon DEF RecordingInv, TypeOK
  <2>2. /\ snap' \in [Maps -> Contents \cup {0}]
        /\ latest' \in Maps \cup {0} /\ saved' \in Maps \cup {0} /\ evicted' \subseteq Maps
        /\ writer' \in Procs \cup {NoOne}
        /\ id' \in [Procs -> Maps \cup {0}]
        /\ version' \in [Procs -> Contents \cup {0}]
        /\ todo' \in [Procs -> SUBSET Maps]
    BY DoneTypes, MapNumbers DEF RecordingInv, TypeOK
  <2>3. pc' \in [Procs -> {"idle", "saving", "pointing", "drilling", "rewriting", "copying",
                       "capturing", "recording", "ending", "sealing", "listing",
                       "discarding", "unpointing"}]
    BY DoneTypes, Zenon DEF RecordingInv, TypeOK
  <2> QED
    BY <1>1, <2>1, <2>2, <2>3 DEF TypeOK, BudgetInv
<1>3. OnlySavedMaps'
  BY DoneTypes, MapNumbers DEF RecordingInv, TypeOK, OnlySavedMaps, CommandsAgree
<1>4. CommandsAgree'
  BY DoneTypes, MapNumbers DEF RecordingInv, TypeOK, CommandsAgree
<1>5. PointerFollowsMap'
  BY DoneTypes, MapNumbers DEF RecordingInv, TypeOK, CommandsAgree, PointerFollowsMap
<1>6. DanglingIsSeen'
  BY DoneTypes, MapNumbers DEF RecordingInv, TypeOK, DanglingIsSeen, PointerFollowsMap, Kept
<1>7. UncopiedIsKept'
  BY DoneTypes, MapNumbers DEF RecordingInv, TypeOK, CommandsAgree, UncopiedIsKept, Kept
<1> QED
  BY <1>1, <1>2, <1>3, <1>4, <1>5, <1>6, <1>7 DEF RecordingInv

LEMMA SealKeeps ==
  ASSUME RecordingInv, NEW p \in Procs, Seal(p)
  PROVE  RecordingInv'
<1> USE DEF Seal, Goto, budgetVars, storeVars, cmdVars
<1>1. BudgetInv'
  BY BudgetStutters DEF RecordingInv
<1>2. TypeOK'
  <2>1. full' \in [Procs -> BOOLEAN] /\ ended' \in BOOLEAN /\ torn' \in BOOLEAN
    BY Zenon DEF RecordingInv, TypeOK
  <2>2. /\ snap' \in [Maps -> Contents \cup {0}]
        /\ latest' \in Maps \cup {0} /\ saved' \in Maps \cup {0} /\ evicted' \subseteq Maps
        /\ writer' \in Procs \cup {NoOne}
        /\ id' \in [Procs -> Maps \cup {0}]
        /\ version' \in [Procs -> Contents \cup {0}]
        /\ todo' \in [Procs -> SUBSET Maps]
    BY MapNumbers DEF RecordingInv, TypeOK
  <2>3. pc' \in [Procs -> {"idle", "saving", "pointing", "drilling", "rewriting", "copying",
                       "capturing", "recording", "ending", "sealing", "listing",
                       "discarding", "unpointing"}]
    BY Zenon DEF RecordingInv, TypeOK
  <2> QED
    BY <1>1, <2>1, <2>2, <2>3 DEF TypeOK, BudgetInv
<1>3. OnlySavedMaps'
  BY MapNumbers DEF RecordingInv, TypeOK, OnlySavedMaps, CommandsAgree
<1>4. CommandsAgree'
  BY MapNumbers DEF RecordingInv, TypeOK, CommandsAgree
<1>5. PointerFollowsMap'
  BY MapNumbers DEF RecordingInv, TypeOK, CommandsAgree, PointerFollowsMap
<1>6. DanglingIsSeen'
  BY MapNumbers DEF RecordingInv, TypeOK, DanglingIsSeen, PointerFollowsMap, Kept
<1>7. UncopiedIsKept'
  BY MapNumbers DEF RecordingInv, TypeOK, CommandsAgree, UncopiedIsKept, Kept
<1> QED
  BY <1>1, <1>2, <1>3, <1>4, <1>5, <1>6, <1>7 DEF RecordingInv

LEMMA ListKeeps ==
  ASSUME RecordingInv, NEW p \in Procs, List(p)
  PROVE  RecordingInv'
<1> USE DEF List, Kept, Goto, budgetVars, storeVars, cmdVars
<1>1. BudgetInv'
  BY BudgetStutters DEF RecordingInv
<1>2. TypeOK'
  <2>1. full' \in [Procs -> BOOLEAN] /\ ended' \in BOOLEAN /\ torn' \in BOOLEAN
    BY Zenon DEF RecordingInv, TypeOK
  <2>2. /\ snap' \in [Maps -> Contents \cup {0}]
        /\ latest' \in Maps \cup {0} /\ saved' \in Maps \cup {0} /\ evicted' \subseteq Maps
        /\ writer' \in Procs \cup {NoOne}
        /\ id' \in [Procs -> Maps \cup {0}]
        /\ version' \in [Procs -> Contents \cup {0}]
        /\ todo' \in [Procs -> SUBSET Maps]
    BY MapNumbers DEF RecordingInv, TypeOK
  <2>3. pc' \in [Procs -> {"idle", "saving", "pointing", "drilling", "rewriting", "copying",
                       "capturing", "recording", "ending", "sealing", "listing",
                       "discarding", "unpointing"}]
    BY Zenon DEF RecordingInv, TypeOK
  <2> QED
    BY <1>1, <2>1, <2>2, <2>3 DEF TypeOK, BudgetInv
<1>3. OnlySavedMaps'
  BY MapNumbers DEF RecordingInv, TypeOK, OnlySavedMaps, CommandsAgree
<1>4. CommandsAgree'
  BY MapNumbers DEF RecordingInv, TypeOK, CommandsAgree
<1>5. PointerFollowsMap'
  BY MapNumbers DEF RecordingInv, TypeOK, CommandsAgree, PointerFollowsMap
<1>6. DanglingIsSeen'
  BY MapNumbers DEF RecordingInv, TypeOK, DanglingIsSeen, PointerFollowsMap, Kept
<1>7. UncopiedIsKept'
  BY MapNumbers DEF RecordingInv, TypeOK, CommandsAgree, UncopiedIsKept, Kept
<1> QED
  BY <1>1, <1>2, <1>3, <1>4, <1>5, <1>6, <1>7 DEF RecordingInv

LEMMA DiscardKeeps ==
  ASSUME RecordingInv, NEW p \in Procs, Discard(p)
  PROVE  RecordingInv'
<1> USE DEF Discard, Goto, budgetVars, storeVars, cmdVars
<1>1. BudgetInv'
  BY BudgetStutters DEF RecordingInv
<1>2. TypeOK'
  <2>1. full' \in [Procs -> BOOLEAN] /\ ended' \in BOOLEAN /\ torn' \in BOOLEAN
    BY Zenon DEF RecordingInv, TypeOK
  <2>2. /\ snap' \in [Maps -> Contents \cup {0}]
        /\ latest' \in Maps \cup {0} /\ saved' \in Maps \cup {0} /\ evicted' \subseteq Maps
        /\ writer' \in Procs \cup {NoOne}
        /\ id' \in [Procs -> Maps \cup {0}]
        /\ version' \in [Procs -> Contents \cup {0}]
        /\ todo' \in [Procs -> SUBSET Maps]
    BY MapNumbers DEF RecordingInv, TypeOK
  <2>3. pc' \in [Procs -> {"idle", "saving", "pointing", "drilling", "rewriting", "copying",
                       "capturing", "recording", "ending", "sealing", "listing",
                       "discarding", "unpointing"}]
    BY Zenon DEF RecordingInv, TypeOK
  <2> QED
    BY <1>1, <2>1, <2>2, <2>3 DEF TypeOK, BudgetInv
<1>3. OnlySavedMaps'
  BY MapNumbers DEF RecordingInv, TypeOK, OnlySavedMaps, CommandsAgree
<1>4. CommandsAgree'
  BY MapNumbers DEF RecordingInv, TypeOK, CommandsAgree
<1>5. PointerFollowsMap'
  BY MapNumbers DEF RecordingInv, TypeOK, CommandsAgree, PointerFollowsMap
<1>6. DanglingIsSeen'
  BY MapNumbers DEF RecordingInv, TypeOK, DanglingIsSeen, PointerFollowsMap, Kept
<1>7. UncopiedIsKept'
  BY MapNumbers DEF RecordingInv, TypeOK, CommandsAgree, UncopiedIsKept, Kept
<1> QED
  BY <1>1, <1>2, <1>3, <1>4, <1>5, <1>6, <1>7 DEF RecordingInv

LEMMA TestPointerKeeps ==
  ASSUME RecordingInv, NEW p \in Procs, TestPointer(p)
  PROVE  RecordingInv'
<1> USE DEF TestPointer, Goto, budgetVars, storeVars, cmdVars
<1>1. BudgetInv'
  BY BudgetStutters DEF RecordingInv
<1>2. TypeOK'
  <2>1. full' \in [Procs -> BOOLEAN] /\ ended' \in BOOLEAN /\ torn' \in BOOLEAN
    BY DoneTypes, Zenon DEF RecordingInv, TypeOK
  <2>2. /\ snap' \in [Maps -> Contents \cup {0}]
        /\ latest' \in Maps \cup {0} /\ saved' \in Maps \cup {0} /\ evicted' \subseteq Maps
        /\ writer' \in Procs \cup {NoOne}
        /\ id' \in [Procs -> Maps \cup {0}]
        /\ version' \in [Procs -> Contents \cup {0}]
        /\ todo' \in [Procs -> SUBSET Maps]
    BY DoneTypes, MapNumbers DEF RecordingInv, TypeOK
  <2>3. pc' \in [Procs -> {"idle", "saving", "pointing", "drilling", "rewriting", "copying",
                       "capturing", "recording", "ending", "sealing", "listing",
                       "discarding", "unpointing"}]
    BY DoneTypes, Zenon DEF RecordingInv, TypeOK
  <2> QED
    BY <1>1, <2>1, <2>2, <2>3 DEF TypeOK, BudgetInv
<1>3. OnlySavedMaps'
  BY DoneTypes, MapNumbers DEF RecordingInv, TypeOK, OnlySavedMaps, CommandsAgree
<1>4. CommandsAgree'
  BY DoneTypes, MapNumbers DEF RecordingInv, TypeOK, CommandsAgree
<1>5. PointerFollowsMap'
  BY DoneTypes, MapNumbers DEF RecordingInv, TypeOK, CommandsAgree, PointerFollowsMap
<1>6. DanglingIsSeen'
  BY DoneTypes, MapNumbers DEF RecordingInv, TypeOK, DanglingIsSeen, PointerFollowsMap, Kept
<1>7. UncopiedIsKept'
  BY DoneTypes, MapNumbers DEF RecordingInv, TypeOK, CommandsAgree, UncopiedIsKept, Kept
<1> QED
  BY <1>1, <1>2, <1>3, <1>4, <1>5, <1>6, <1>7 DEF RecordingInv

LEMMA UnpointKeeps ==
  ASSUME RecordingInv, NEW p \in Procs, Unpoint(p)
  PROVE  RecordingInv'
<1> USE DEF Unpoint, Goto, budgetVars, storeVars, cmdVars
<1>1. BudgetInv'
  BY BudgetStutters DEF RecordingInv
<1>2. TypeOK'
  <2>1. full' \in [Procs -> BOOLEAN] /\ ended' \in BOOLEAN /\ torn' \in BOOLEAN
    BY DoneTypes, Zenon DEF RecordingInv, TypeOK
  <2>2. /\ snap' \in [Maps -> Contents \cup {0}]
        /\ latest' \in Maps \cup {0} /\ saved' \in Maps \cup {0} /\ evicted' \subseteq Maps
        /\ writer' \in Procs \cup {NoOne}
        /\ id' \in [Procs -> Maps \cup {0}]
        /\ version' \in [Procs -> Contents \cup {0}]
        /\ todo' \in [Procs -> SUBSET Maps]
    BY DoneTypes, MapNumbers DEF RecordingInv, TypeOK
  <2>3. pc' \in [Procs -> {"idle", "saving", "pointing", "drilling", "rewriting", "copying",
                       "capturing", "recording", "ending", "sealing", "listing",
                       "discarding", "unpointing"}]
    BY DoneTypes, Zenon DEF RecordingInv, TypeOK
  <2> QED
    BY <1>1, <2>1, <2>2, <2>3 DEF TypeOK, BudgetInv
<1>3. OnlySavedMaps'
  BY DoneTypes, MapNumbers DEF RecordingInv, TypeOK, OnlySavedMaps, CommandsAgree
<1>4. CommandsAgree'
  BY DoneTypes, MapNumbers DEF RecordingInv, TypeOK, CommandsAgree
<1>5. PointerFollowsMap'
  BY DoneTypes, MapNumbers DEF RecordingInv, TypeOK, CommandsAgree, PointerFollowsMap
<1>6. DanglingIsSeen'
  BY DoneTypes, MapNumbers DEF RecordingInv, TypeOK, DanglingIsSeen, PointerFollowsMap, Kept
<1>7. UncopiedIsKept'
  BY DoneTypes, MapNumbers DEF RecordingInv, TypeOK, CommandsAgree, UncopiedIsKept, Kept
<1> QED
  BY <1>1, <1>2, <1>3, <1>4, <1>5, <1>6, <1>7 DEF RecordingInv

LEMMA DieKeeps ==
  ASSUME RecordingInv, NEW p \in Procs, Die(p)
  PROVE  RecordingInv'
<1> USE DEF Die, Fault, Goto, budgetVars, storeVars, cmdVars
<1>1. BudgetInv'
  BY BudgetAfterFault DEF RecordingInv
<1>2. TypeOK'
  <2>1. full' \in [Procs -> BOOLEAN] /\ ended' \in BOOLEAN /\ torn' \in BOOLEAN
    BY DoneTypes, Zenon DEF RecordingInv, TypeOK
  <2>2. /\ snap' \in [Maps -> Contents \cup {0}]
        /\ latest' \in Maps \cup {0} /\ saved' \in Maps \cup {0} /\ evicted' \subseteq Maps
        /\ writer' \in Procs \cup {NoOne}
        /\ id' \in [Procs -> Maps \cup {0}]
        /\ version' \in [Procs -> Contents \cup {0}]
        /\ todo' \in [Procs -> SUBSET Maps]
    BY DoneTypes, MapNumbers DEF RecordingInv, TypeOK
  <2>3. pc' \in [Procs -> {"idle", "saving", "pointing", "drilling", "rewriting", "copying",
                       "capturing", "recording", "ending", "sealing", "listing",
                       "discarding", "unpointing"}]
    BY DoneTypes, Zenon DEF RecordingInv, TypeOK
  <2> QED
    BY <1>1, <2>1, <2>2, <2>3 DEF TypeOK, BudgetInv
<1>3. OnlySavedMaps'
  BY DoneTypes, MapNumbers DEF RecordingInv, TypeOK, OnlySavedMaps, CommandsAgree
<1>4. CommandsAgree'
  BY DoneTypes, MapNumbers DEF RecordingInv, TypeOK, CommandsAgree
<1>5. PointerFollowsMap'
  BY DoneTypes, MapNumbers DEF RecordingInv, TypeOK, CommandsAgree, PointerFollowsMap
<1>6. DanglingIsSeen'
  <2>1. UNCHANGED <<latest, snap>> /\ (torn => torn')
    BY Zenon
  <2>2. pc[p] \in {"discarding", "unpointing"} => torn'
    BY Zenon
  <2>3. \A q \in Procs : q # p => pc'[q] = pc[q]
    BY DoneTypes DEF RecordingInv, TypeOK
  <2> HIDE DEF Die
  <2> QED
    BY <2>1, <2>2, <2>3, Zenon DEF RecordingInv, DanglingIsSeen, Kept
<1>7. UncopiedIsKept'
  BY DoneTypes, MapNumbers DEF RecordingInv, TypeOK, CommandsAgree, UncopiedIsKept, Kept
<1> QED
  BY <1>1, <1>2, <1>3, <1>4, <1>5, <1>6, <1>7 DEF RecordingInv

\* A command that hands an artifact to the budget, or is not to record.
LEMMA RequestKeeps ==
  ASSUME RecordingInv, NEW p \in Procs, CopyMap(p) \/ Capture(p)
  PROVE  RecordingInv'
<1> USE DEF Goto
<1>1. /\ UNCHANGED <<ledger, stored, litter, copies, holder, usage, faults>>
      /\ UNCHANGED <<snap, latest, saved, evicted, writer, ended, torn>>
      /\ pc[p] \in {"copying", "capturing"}
  BY DEF CopyMap, Capture, storeVars
<1>2. \/ /\ UNCHANGED cmdVars /\ pc' = [pc EXCEPT ![p] = "recording"]
         /\ \E a \in Artifacts : /\ a.kind = "map" => a.map \in Maps /\ a.map \in 1 .. saved
                                                      /\ a.map = id[p] /\ a.content # 0
                                 /\ BeginWrite(p, a)
      \/ Done(p) /\ UNCHANGED <<at, want>>
  <2>1. CASE Capture(p) /\ full[p]
    <3>1. PICK s \in Sizes : BeginWrite(p, Shot(s))
      BY <2>1 DEF Capture
    <3>2. Shot(s) \in Artifacts /\ Shot(s).kind = "shot"
      BY DEF Shot, Artifacts
    <3> QED
      BY <2>1, <3>1, <3>2 DEF Capture
  <2>2. CASE CopyMap(p) /\ full[p]
    <3>1. PICK s \in Sizes : BeginWrite(p, Copy(id[p], version[p], s))
      BY <2>2 DEF CopyMap
    <3>2. id[p] \in Maps /\ id[p] \in 1 .. saved /\ version[p] \in Contents /\ version[p] # 0
      BY <2>2, MapNumbers DEF CopyMap, RecordingInv, TypeOK, CommandsAgree
    <3> DEFINE a == Copy(id[p], version[p], s)
    <3>3. a \in Artifacts /\ a.map = id[p] /\ a.content = version[p]
      BY <3>2 DEF Copy, Artifacts
    <3> QED
      BY <2>2, <3>1, <3>2, <3>3 DEF CopyMap
  <2>3. CASE ~ full[p]
    BY <2>3 DEF CopyMap, Capture
  <2> QED
    BY <2>1, <2>2, <2>3
<1>3. CASE Done(p) /\ UNCHANGED <<at, want>>
  <2> USE <1>1, <1>3
  <2>1. BudgetInv'
    BY BudgetStutters DEF RecordingInv, budgetVars
  <2>2. TypeOK'
    <3>1. ended' \in BOOLEAN /\ torn' \in BOOLEAN
      BY Zenon DEF RecordingInv, TypeOK
    <3> QED
      BY <2>1, <3>1, DoneTypes DEF RecordingInv, TypeOK, BudgetInv
  <2>3. CommandsAgree'
    <3>1. /\ pc'[p] = "idle" /\ id'[p] = 0 /\ at[p] = "idle" /\ saved \in Nat
          /\ \A q \in Procs : q # p => pc'[q] = pc[q] /\ id'[q] = id[q] /\ version'[q] = version[q]
      <4>1. at[p] = "idle"
        BY DEF RecordingInv, CommandsAgree
      <4>2. saved \in Nat
        BY SavedIsNumber, Zenon DEF RecordingInv
      <4>3. pc'[p] = "idle" /\ \A q \in Procs : q # p => pc'[q] = pc[q]
        BY DoneTypes DEF RecordingInv, TypeOK
      <4>4. id'[p] = 0 /\ \A q \in Procs : q # p => id'[q] = id[q] /\ version'[q] = version[q]
        BY DoneTypes DEF RecordingInv, TypeOK, Done
      <4> QED
        BY <4>1, <4>2, <4>3, <4>4
    <3> HIDE <1>3
    <3>2. UNCHANGED <<at, want, saved, writer>>
      BY <1>3
    <3>3. 0 \in 0 .. saved
      BY <3>1
    <3> QED
      BY <3>1, <3>2, <3>3, Zenon DEF RecordingInv, CommandsAgree
  <2>4. OnlySavedMaps' /\ UncopiedIsKept'
    BY DEF RecordingInv, OnlySavedMaps, UncopiedIsKept, Kept
  <2>5. PointerFollowsMap'
    BY DoneTypes, MapNumbers DEF RecordingInv, TypeOK, CommandsAgree, PointerFollowsMap
  <2>6. DanglingIsSeen'
    BY DoneTypes DEF RecordingInv, TypeOK, DanglingIsSeen, Kept
  <2> QED
    BY <2>1, <2>2, <2>3, <2>4, <2>5, <2>6 DEF RecordingInv
<1>4. CASE /\ UNCHANGED cmdVars /\ pc' = [pc EXCEPT ![p] = "recording"]
           /\ \E a \in Artifacts : /\ a.kind = "map" => a.map \in Maps /\ a.map \in 1 .. saved
                                                        /\ a.map = id[p] /\ a.content # 0
                                   /\ BeginWrite(p, a)
  <2>1. PICK a \in Artifacts : /\ a.kind = "map" => a.map \in Maps /\ a.map \in 1 .. saved
                                                    /\ a.map = id[p] /\ a.content # 0
                               /\ BeginWrite(p, a)
    BY <1>4
  <2> USE <1>1
  <2>2. BudgetInv'
    BY <2>1, WaitKeeps DEF RecordingInv
  <2>3. UNCHANGED <<full, id, version, todo>>
    BY <1>4 DEF cmdVars
  <2>4. TypeOK'
    <3>1. ended' \in BOOLEAN /\ torn' \in BOOLEAN /\ full' \in [Procs -> BOOLEAN]
      BY <2>3, Zenon DEF RecordingInv, TypeOK
    <3> QED
      BY <1>4, <2>2, <2>3, <3>1 DEF RecordingInv, TypeOK, BudgetInv
  <2>5. /\ at'[p] = "locking" /\ want'[p] = a /\ at[p] = "idle"
        /\ \A q \in Procs : q # p => at'[q] = at[q] /\ want'[q] = want[q]
    BY <2>1 DEF BeginWrite, GotoAt, RecordingInv, BudgetInv, BudgetTypeOK
  <2>6. /\ pc'[p] = "recording"
        /\ \A q \in Procs : q # p => pc'[q] = pc[q]
    BY <1>4 DEF RecordingInv, TypeOK
  <2>7. CommandsAgree'
    <3> DEFINE agrees(q) == /\ id[q] \in 0 .. saved
                            /\ pc[q] \in {"pointing", "rewriting", "copying"} =>
                                 id[q] # 0 /\ version[q] \in Contents
                            /\ pc[q] \in {"pointing", "rewriting"} => writer = q
                            /\ pc[q] = "recording" <=> at[q] # "idle"
                            /\ at[q] # "idle" /\ want[q].kind = "map" => want[q].map \in 1 .. saved
    <3>1. \A q \in Procs : agrees(q)
      BY DEF RecordingInv, CommandsAgree
    <3>2. agrees(p)'
      BY <2>1, <2>3, <2>5, <2>6, <3>1
    <3>3. \A q \in Procs : q # p => agrees(q)'
      BY <2>3, <2>5, <2>6, <3>1
    <3> QED
      BY <3>2, <3>3 DEF CommandsAgree
  <2>8. OnlySavedMaps' /\ UncopiedIsKept'
    BY DEF RecordingInv, OnlySavedMaps, UncopiedIsKept, Kept
  <2>9. PointerFollowsMap'
    BY <2>1, <2>3, <2>5, <2>6 DEF RecordingInv, PointerFollowsMap
  <2>10. DanglingIsSeen'
    BY <2>6 DEF RecordingInv, DanglingIsSeen, Kept
  <2> QED
    BY <2>2, <2>4, <2>7, <2>8, <2>9, <2>10 DEF RecordingInv
<1> QED
  BY <1>2, <1>3, <1>4

\* Only copies change, and only towards there being one.
LEMMA RecordKeeps ==
  ASSUME RecordingInv, NEW p \in Procs, Record(p)
  PROVE  RecordingInv'
<1>1. /\ WriterStep(p) /\ pc[p] = "recording"
      /\ UNCHANGED <<snap, latest, saved, evicted, writer, ended, torn>>
      /\ \/ at'[p] = "idle" /\ Done(p)
         \/ at'[p] # "idle" /\ UNCHANGED <<pc, full, id, version, todo>>
  BY DEF Record, storeVars, cmdVars
<1>2. BudgetInv'
  BY <1>1, WriterKeepsBudget DEF RecordingInv
<1>3. /\ \A d \in Maps :
           /\ copies[d] # 0 => copies'[d] # 0
           /\ copies'[d] # copies[d] => /\ at[p] # "idle" /\ want[p].kind = "map"
                                        /\ d = want[p].map
      /\ at'[p] # "idle" => at[p] # "idle" /\ want'[p] = want[p]
      /\ \A q \in Procs : q # p => at'[q] = at[q] /\ want'[q] = want[q]
  BY <1>1, CopySteps DEF RecordingInv
<1>4. TypeOK'
  <2>1. ended' \in BOOLEAN /\ torn' \in BOOLEAN /\ full' \in [Procs -> BOOLEAN]
    BY <1>1, DoneTypes, Zenon DEF RecordingInv, TypeOK
  <2> QED
    BY <1>1, <1>2, <2>1, DoneTypes DEF RecordingInv, TypeOK, BudgetInv
<1>5. /\ \A q \in Procs : q # p => pc'[q] = pc[q] /\ id'[q] = id[q] /\ version'[q] = version[q]
      /\ \/ at'[p] = "idle" /\ pc'[p] = "idle" /\ id'[p] = 0
         \/ at'[p] # "idle" /\ pc'[p] = "recording" /\ id'[p] = id[p]
  BY <1>1, DoneTypes DEF RecordingInv, TypeOK
<1>6. CommandsAgree'
  BY <1>1, <1>3, <1>5, MapNumbers DEF RecordingInv, TypeOK, CommandsAgree
<1>7. \A d \in Maps : copies'[d] # 0 => copies[d] # 0 \/ d <= saved
  <2>1. at[p] # "idle" /\ want[p].kind = "map" => want[p].map \in 1 .. saved
    BY DEF RecordingInv, CommandsAgree
  <2>2. saved \in Nat
    BY MapNumbers DEF RecordingInv, TypeOK
  <2>3. want[p].map \in 1 .. saved => want[p].map <= saved
    BY <2>2
  <2> QED
    BY <1>3, <2>1, <2>3, Zenon
<1>8. OnlySavedMaps'
  BY <1>1, <1>7 DEF RecordingInv, OnlySavedMaps
<1>9. UncopiedIsKept'
  <2>1. saved \in Maps \cup {0} /\ 1 .. saved \subseteq Maps
    BY MapNumbers DEF RecordingInv, TypeOK
  <2> QED
    BY <1>1, <1>3, <2>1 DEF RecordingInv, UncopiedIsKept, Kept
<1>10. PointerFollowsMap'
  <2>1. ASSUME NEW q \in Procs, pc'[q] = "pointing"
        PROVE  /\ q # p /\ pc[q] = "pointing" /\ saved \in Maps
               /\ want[p].kind = "map" => want[p].map # saved
    BY <1>1, <1>5, <2>1, MapNumbers DEF RecordingInv, TypeOK, CommandsAgree, PointerFollowsMap
  <2> QED
    BY <1>1, <1>3, <1>5, <2>1, MapNumbers DEF RecordingInv, TypeOK, CommandsAgree, PointerFollowsMap
<1>11. DanglingIsSeen'
  BY <1>1, <1>5, Zenon DEF RecordingInv, DanglingIsSeen, Kept
<1> QED
  BY <1>2, <1>4, <1>6, <1>8, <1>9, <1>10, <1>11 DEF RecordingInv

LEMMA RecordingStutters ==
  ASSUME RecordingInv, UNCHANGED vars
  PROVE  RecordingInv'
<1>1. /\ UNCHANGED budgetVars
      /\ UNCHANGED <<at, want, copies, snap, latest, saved, evicted, writer>>
      /\ UNCHANGED <<ended, pc, full, id, version, todo, torn>>
  BY DEF vars, storeVars, cmdVars, budgetVars
<1>2. BudgetInv'
  BY <1>1, BudgetStutters DEF RecordingInv
<1>3. TypeOK'
  <2>1. ended' \in BOOLEAN /\ torn' \in BOOLEAN /\ full' \in [Procs -> BOOLEAN]
    BY <1>1, Zenon DEF RecordingInv, TypeOK
  <2> QED
    BY <1>1, <1>2, <2>1 DEF RecordingInv, TypeOK, BudgetInv
<1>4. OnlySavedMaps' /\ CommandsAgree' /\ PointerFollowsMap' /\ UncopiedIsKept'
  BY <1>1 DEF RecordingInv, OnlySavedMaps, CommandsAgree, PointerFollowsMap,
     UncopiedIsKept, Kept
<1>5. DanglingIsSeen'
  BY <1>1, Zenon DEF RecordingInv, DanglingIsSeen, Kept
<1> QED
  BY <1>2, <1>3, <1>4, <1>5 DEF RecordingInv

\* The inductive invariant of a session that records.
THEOREM RecordingInvHolds == Spec => []RecordingInv
<1>1. Init => RecordingInv
  <2> SUFFICES ASSUME Init PROVE RecordingInv
    OBVIOUS
  <2>1. BudgetTypeOK
    BY NoUsageType, BudgetAssumption DEF Init, BudgetInit, BudgetTypeOK
  <2>2. AtMostOver(NoUsage, NoUsage, 0)
    BY Multiples, 0 * MaxSize = 0 DEF AtMostOver, NoUsage
  <2>3. BudgetInv
    BY <2>1, <2>2, BudgetAssumption DEF Init, BudgetInit, BudgetInv, OneWriter,
       WantsArtifact, WriterKnows, LedgerAccounts
  <2>4. TypeOK
    <3>1. ended \in BOOLEAN /\ torn \in BOOLEAN /\ full \in [Procs -> BOOLEAN]
      BY Zenon DEF Init
    <3> QED
      BY <2>1, <3>1 DEF Init, TypeOK
  <2>5. CommandsAgree /\ OnlySavedMaps /\ PointerFollowsMap
    BY DEF Init, BudgetInit, CommandsAgree, OnlySavedMaps, PointerFollowsMap
  <2>6. UncopiedIsKept /\ DanglingIsSeen
    BY DEF Init, UncopiedIsKept, DanglingIsSeen
  <2> QED
    BY <2>3, <2>4, <2>5, <2>6 DEF RecordingInv
<1>2. RecordingInv /\ [Next]_vars => RecordingInv'
  <2> SUFFICES ASSUME RecordingInv, [Next]_vars PROVE RecordingInv'
    OBVIOUS
  <2>1. CASE Next
    BY <2>1, StartKeeps, SaveKeeps, PointKeeps, ReadMapKeeps, RewriteKeeps, GiveUpKeeps,
       RequestKeeps, RecordKeeps, ReadEndKeeps, SealKeeps, ListKeeps, DiscardKeeps,
       TestPointerKeeps, UnpointKeeps, DieKeeps DEF Next
  <2> QED
    BY <2>1, RecordingStutters
<1> QED
  BY <1>1, <1>2, PTL DEF Spec

\* Artifacts, versions and map numbers stay in their domains.
THEOREM RecordingTypes == Spec => []TypeOK
<1>1. RecordingInv => TypeOK
  BY DEF RecordingInv
<1> QED
  BY <1>1, RecordingInvHolds, PTL

\* What the budget refuses, and what fails on the way to the trace, never
\* costs the map (discard_duplicated_ref_scaffolding).
THEOREM UncopiedMapsAreKept == Spec => []UncopiedIsKept
<1>1. RecordingInv => UncopiedIsKept
  BY DEF RecordingInv
<1> QED
  BY <1>1, RecordingInvHolds, PTL

\* Whoever saves or drills while a session ends, the pointer is in order when
\* the end is through (end_session, clear_latest).
THEOREM EndKeepsPointers == Spec => []EndLeavesNoDanglingPointer
<1>1. RecordingInv => EndLeavesNoDanglingPointer
  BY Zenon DEF RecordingInv, DanglingIsSeen, EndLeavesNoDanglingPointer
<1> QED
  BY <1>1, RecordingInvHolds, PTL

\* A reservation is lost to a death or an error only (write_failed, the
\* rebuilding of the ledger).
THEOREM RoomIsAccountedFor == Spec => []RoomLostToFaultsOnly
<1>1. RecordingInv => RoomLostToFaultsOnly
  <2> SUFFICES ASSUME RecordingInv, ledger # NoLedger, holder = NoOne
               PROVE  AtMostOver(ledger, stored, faults)
    BY DEF RoomLostToFaultsOnly
  <2>1. \A p \in Procs : at[p] \in {"idle", "locking"}
    BY BudgetAssumption DEF RecordingInv, BudgetInv, OneWriter
  <2> QED
    BY <2>1 DEF RecordingInv, BudgetInv, LedgerAccounts, Accounts
<1> QED
  BY <1>1, RecordingInvHolds, PTL

-----------------------------------------------------------------------------
(* The quota *)

\* A writer stores one artifact that fits, or nothing.
LEMMA WriterMeetsQuota ==
  ASSUME BudgetInv, NEW p \in Procs, WriterStep(p)
  PROVE  [Quota!Next]_<<stored, copies>>
<1>1. CASE at[p] = "writing" /\ Appear(p)
  <2> DEFINE a == want[p]
             u == usage[p]
  <2>1. /\ Accounts(u, stored, faults) /\ Fits(u, a)
        /\ a.kind = "map" => copies[a.map] = 0
    BY <1>1 DEF BudgetInv, WriterKnows
  <2>2. /\ a \in Artifacts /\ u \in Usage /\ stored \in Usage
        /\ a.kind \in {"shot", "map"} /\ a.size \in Sizes /\ a.size \in Nat
        /\ a.kind = "map" => a.map \in Maps /\ a.content \in Contents
    <3>1. a \in Artifacts
      BY <1>1, WantType
    <3>2. a.size \in Sizes
      BY <3>1 DEF Artifacts
    <3> QED
      BY <1>1, <3>1, <3>2, WantType, BudgetTypes, PlusFields
  <2>3. /\ stored.shots <= u.shots /\ stored.count <= u.count /\ stored.maps <= u.maps
        /\ stored.shots \in Nat /\ stored.count \in Nat /\ stored.maps \in Nat
        /\ u.shots \in Nat /\ u.count \in Nat /\ u.maps \in Nat
    BY <2>1, <2>2, UsageFields DEF Accounts
  <2>4. CASE a.kind = "shot"
    <3>1. stored.shots + a.size <= ShotBytes /\ stored.count + 1 <= ShotCount
      BY <2>1, <2>2, <2>3, <2>4, BudgetAssumption DEF Fits
    <3>2. /\ stored' = [stored EXCEPT !.shots = @ + a.size, !.count = @ + 1]
          /\ UNCHANGED copies
      BY <1>1, <2>4 DEF Appear, Plus
    <3>3. Quota!AddShot(a.size)
      BY <3>1, <3>2 DEF Quota!AddShot
    <3> QED
      BY <2>2, <3>3 DEF Quota!Next
  <2>5. CASE a.kind = "map"
    <3>1. stored.maps + a.size <= MapBytes
      BY <2>1, <2>2, <2>3, <2>5, BudgetAssumption DEF Fits
    <3>2. /\ stored' = [stored EXCEPT !.maps = @ + a.size]
          /\ copies' = [copies EXCEPT ![a.map] = a.content]
      BY <1>1, <2>5 DEF Appear, Plus
    <3>3. Quota!AddMap(a.map, a.content, a.size)
      BY <2>1, <2>5, <3>1, <3>2 DEF Quota!AddMap
    <3> QED
      BY <2>2, <2>5, <3>3 DEF Quota!Next
  <2> QED
    BY <2>2, <2>4, <2>5
<1>2. CASE UNCHANGED <<stored, copies>>
  BY <1>2
<1> QED
  BY <1>1, <1>2 DEF WriterStep, LockBudget, LockBudgetFails, SkipCopied,
     LoadUsage, RebuildUsage, RebuildFails, Refuse, Reserve, ReserveFails, Write,
     WriteFails, Undo, UndoFails, WriterDies, Interrupted

\* What is stored never exceeds the quota, and a copy is never replaced:
\* SessionRecording implements ArtifactQuota.
THEOREM BudgetImplementsQuota == Spec => ImplementsQuota
<1>1. Init => Quota!Init
  BY DEF Init, BudgetInit, NoUsage, Quota!Init
<1>2. RecordingInv /\ [Next]_vars => [Quota!Next]_<<stored, copies>>
  <2> SUFFICES ASSUME RecordingInv, [Next]_vars PROVE [Quota!Next]_<<stored, copies>>
    OBVIOUS
  <2>1. ASSUME NEW p \in Procs, Record(p) PROVE [Quota!Next]_<<stored, copies>>
    BY <2>1, WriterMeetsQuota DEF Record, RecordingInv
  <2>2. ASSUME NEW p \in Procs,
               \/ Start(p) \/ Save(p) \/ Point(p) \/ ReadMap(p) \/ Rewrite(p) \/ GiveUp(p)
               \/ CopyMap(p) \/ Capture(p)
               \/ ReadEnd(p) \/ Seal(p) \/ List(p) \/ Discard(p) \/ TestPointer(p) \/ Unpoint(p)
               \/ Die(p)
        PROVE  UNCHANGED <<stored, copies>>
    BY <2>2 DEF Start, Save, Point, ReadMap, Rewrite, GiveUp, CopyMap, Capture, ReadEnd, Seal,
       List, Discard, TestPointer, Unpoint, Die, budgetVars
  <2>3. ASSUME UNCHANGED vars PROVE UNCHANGED <<stored, copies>>
    BY <2>3 DEF vars, budgetVars
  <2> QED
    BY <2>1, <2>2, <2>3 DEF Next
<1> QED
  BY <1>1, <1>2, RecordingInvHolds, PTL DEF Spec, Quota!Spec, ImplementsQuota
=============================================================================
