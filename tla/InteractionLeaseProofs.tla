----------------------- MODULE InteractionLeaseProofs -----------------------
(***************************************************************************)
(* Leases are exclusive for any number of processes, threads and           *)
(* descriptions: InteractionLease!Inv is inductive.                        *)
(***************************************************************************)
EXTENDS InteractionLease, TLAPS

\* What an attempt or a release that touches one thread and no descriptor
\* leaves as it was.
LEMMA BeginKeepsInv ==
  ASSUME Inv, NEW t \in Threads, Begin(t)
  PROVE  Inv'
<1> USE LeaseAssumption DEF Inv
<1>1. TypeOK'
  BY DEF TypeOK, Begin, Goto, procVars, Flagged, Filed
<1>2. FlagHasOwner'
  BY DEF TypeOK, FlagHasOwner, Begin, Goto, procVars, Flagged
<1>3. Family'
  BY DEF TypeOK, Family, Begin, Goto, procVars, Has, Raw, Open
<1>4. AdoptedIsSealed' /\ LeaseIsExclusive'
  BY DEF TypeOK, AdoptedIsSealed, LeaseIsExclusive, Begin, Goto, procVars
<1> QED
  BY <1>1, <1>2, <1>3, <1>4

LEMMA TakeFlagKeepsInv ==
  ASSUME Inv, NEW t \in Threads, TakeFlag(t)
  PROVE  Inv'
<1> USE LeaseAssumption DEF Inv
<1>1. TypeOK'
  BY DEF TypeOK, TakeFlag, Goto, Flagged, Filed
<1>2. FlagHasOwner'
  <2>1. \A u \in Threads : ProcOf[u] = ProcOf[t] => pc[u] \notin Flagged
    BY DEF FlagHasOwner, TakeFlag
  <2>2. /\ pc' = [pc EXCEPT ![t] = "flagged"]
        /\ held' = [held EXCEPT ![ProcOf[t]] = TRUE]
    BY DEF TakeFlag, Goto
  <2>3. \A u \in Threads : pc'[u] \in Flagged <=> u = t \/ pc[u] \in Flagged
    BY <2>2 DEF TypeOK, Flagged
  <2>4. \A p \in Procs : held'[p] <=> p = ProcOf[t] \/ held[p]
    BY <2>2 DEF TypeOK
  <2> QED
    BY <2>1, <2>3, <2>4 DEF FlagHasOwner
<1>3. ProcOf[t] \in alive
  BY DEF TypeOK, Family, TakeFlag
<1>4. Family'
  BY <1>3 DEF TypeOK, Family, TakeFlag, Goto, Has, Raw, Open
<1>5. AdoptedIsSealed' /\ LeaseIsExclusive'
  BY DEF TypeOK, AdoptedIsSealed, LeaseIsExclusive, TakeFlag, Goto
<1> QED
  BY <1>1, <1>2, <1>4, <1>5

LEMMA SpinTimeoutKeepsInv ==
  ASSUME Inv, NEW t \in Threads, SpinTimeout(t)
  PROVE  Inv'
<1> USE LeaseAssumption DEF Inv
<1>1. TypeOK'
  BY DEF TypeOK, SpinTimeout, Goto, procVars, Flagged, Filed
<1>2. FlagHasOwner'
  BY DEF TypeOK, FlagHasOwner, SpinTimeout, Goto, procVars, Flagged
<1>3. Family'
  BY DEF TypeOK, Family, SpinTimeout, Goto, procVars, Has, Raw, Open
<1>4. AdoptedIsSealed' /\ LeaseIsExclusive'
  BY DEF TypeOK, AdoptedIsSealed, LeaseIsExclusive, SpinTimeout, Goto, procVars
<1> QED
  BY <1>1, <1>2, <1>3, <1>4

LEMMA OpenLockKeepsInv ==
  ASSUME Inv, NEW t \in Threads, OpenLock(t)
  PROVE  Inv'
<1> USE LeaseAssumption DEF Inv
<1>1. PICK d \in Descs \ Open : desc' = [desc EXCEPT ![t] = d]
  BY DEF OpenLock
<1>2. TypeOK'
  BY <1>1 DEF TypeOK, OpenLock, Goto, procVars, Flagged, Filed
<1>3. FlagHasOwner'
  BY DEF TypeOK, FlagHasOwner, OpenLock, Goto, procVars, Flagged
<1>4. \A p \in Procs : ~ Has(p, d)
  BY <1>1 DEF Has, Open
<1>5. Family'
  <2>1. owner # NoDesc => owner \in Open'
    BY <1>1 DEF TypeOK, Family, OpenLock, procVars, Open, Raw, Filed, Goto
  <2>2. ASSUME NEW p \in Procs, NEW q \in Procs, NEW e \in Descs,
               Has(p, e)', Has(q, e)', p # q
        PROVE  e \in given[p] \cup given[q]
    <3>1. CASE e = d
      BY <1>1, <1>4, <2>2, <3>1 DEF TypeOK, OpenLock, procVars, Has, Raw
    <3>2. CASE e # d
      BY <1>1, <2>2, <3>2 DEF TypeOK, Family, OpenLock, procVars, Has, Raw
    <3> QED
      BY <3>1, <3>2
  <2>3. \A p \in Procs : Raw(p)' = Raw(p)
    BY DEF OpenLock, procVars, Raw
  <2>4. \A u \in Threads : pc'[u] \in {"locked", "leased"} => desc'[u] = owner
    BY <1>1 DEF TypeOK, Family, OpenLock, Goto
  <2>5. ProcOf[t] \in alive
    BY DEF TypeOK, Family, OpenLock
  <2> QED
    BY <2>1, <2>2, <2>3, <2>4, <2>5 DEF TypeOK, Family, OpenLock, Goto, procVars
<1>6. AdoptedIsSealed'
  <2>1. d \notin given[ProcOf[t]]
    BY <1>4 DEF Has, Raw
  <2> QED
    BY <1>1, <2>1 DEF TypeOK, AdoptedIsSealed, OpenLock, procVars
<1>7. LeaseIsExclusive'
  BY <1>1 DEF TypeOK, LeaseIsExclusive, OpenLock, Goto, procVars
<1> QED
  BY <1>2, <1>3, <1>5, <1>6, <1>7

LEMMA AdoptKeepsInv ==
  ASSUME Inv, NEW t \in Threads, Adopt(t)
  PROVE  Inv'
<1> USE LeaseAssumption DEF Inv
<1> DEFINE p == ProcOf[t]
           d == env[p]
<1>1. p \in Procs /\ d \in Descs /\ d \in given[p] /\ d = owner
  BY DEF TypeOK, Family, Adopt, Raw
<1>2. TypeOK'
  BY <1>1 DEF TypeOK, Adopt, Goto, Flagged, Filed
<1>3. FlagHasOwner'
  BY DEF TypeOK, FlagHasOwner, Adopt, Goto, Flagged
<1>4. Family'
  <2>1. owner # NoDesc => owner \in Open'
    BY <1>1 DEF Adopt, Open, Raw
  <2>2. ASSUME NEW q \in Procs, NEW e \in Descs PROVE Has(q, e)' <=> Has(q, e)
    <3>1. given' = given /\ dups' = dups /\ desc' = [desc EXCEPT ![t] = d]
      BY DEF Adopt
    <3>2. desc[t] = NoDesc
      BY DEF TypeOK, Adopt, Filed
    <3>3. CASE q = p /\ e = d
      BY <1>1, <3>1, <3>3 DEF Has, Raw
    <3>4. CASE ~ (q = p /\ e = d)
      BY <1>1, <3>1, <3>2, <3>4 DEF TypeOK, Has, Raw
    <3> QED
      BY <3>3, <3>4
  <2>3. \A q \in Procs : Raw(q)' = Raw(q)
    BY DEF Adopt, Raw
  <2>4. \A u \in Threads : pc'[u] \in {"locked", "leased"} => desc'[u] = owner
    BY DEF TypeOK, Family, Adopt, Goto
  <2>5. p \in alive
    BY <1>1 DEF TypeOK, Family, Adopt
  <2>6. \A q \in Procs : sealed'[q] \subseteq given[q]
    BY <1>1 DEF TypeOK, Family, Adopt
  <2> QED
    BY <2>1, <2>2, <2>3, <2>4, <2>5, <2>6 DEF TypeOK, Family, Adopt, Goto
<1>5. AdoptedIsSealed' /\ LeaseIsExclusive'
  BY DEF TypeOK, AdoptedIsSealed, LeaseIsExclusive, Adopt, Goto
<1> QED
  BY <1>2, <1>3, <1>4, <1>5

LEMMA RefuseLockKeepsInv ==
  ASSUME Inv, NEW t \in Threads, RefuseLock(t)
  PROVE  Inv'
<1> USE LeaseAssumption DEF Inv
<1>1. \A q \in Procs : sealed[q] \subseteq sealed'[q] /\ sealed'[q] \subseteq given[q]
  BY DEF TypeOK, Family, RefuseLock
<1>2. sealed' \in [Procs -> SUBSET Descs]
  BY DEF TypeOK, RefuseLock
<1>3. TypeOK'
  BY <1>2 DEF TypeOK, RefuseLock, Goto, Flagged, Filed
<1>4. FlagHasOwner'
  BY DEF TypeOK, FlagHasOwner, RefuseLock, Goto, Flagged
<1>5. ProcOf[t] \in alive
  BY DEF TypeOK, Family, RefuseLock
<1>6. Family'
  <2>1. \A q \in Procs \ alive : sealed'[q] = {}
    BY <1>1 DEF Family, Raw
  <2> QED
    BY <1>1, <1>5, <2>1 DEF TypeOK, Family, RefuseLock, Goto, Has, Raw, Open
<1>7. AdoptedIsSealed'
  <2>1. desc' = desc /\ given' = given /\ \A u \in Threads : ProcOf[u] \in Procs
    BY DEF RefuseLock
  <2> QED
    BY <1>1, <2>1 DEF AdoptedIsSealed
<1>8. LeaseIsExclusive'
  BY DEF TypeOK, LeaseIsExclusive, RefuseLock, Goto
<1> QED
  BY <1>3, <1>4, <1>6, <1>7, <1>8

LEMMA TryLockKeepsInv ==
  ASSUME Inv, NEW t \in Threads, TryLock(t)
  PROVE  Inv'
<1> USE LeaseAssumption DEF Inv
<1>1. desc[t] \in Descs /\ owner' = desc[t]
  BY DEF TypeOK, TryLock, Filed
<1>2. TypeOK'
  BY <1>1 DEF TypeOK, TryLock, Goto, procVars, Flagged, Filed
<1>3. FlagHasOwner'
  BY DEF TypeOK, FlagHasOwner, TryLock, Goto, procVars, Flagged
<1>4. Family'
  <2>1. \A p \in Procs : Raw(p)' = Raw(p)
    BY DEF TryLock, procVars, Raw
  <2>2. \A u \in Threads : pc[u] \in {"locked", "leased"} => owner = desc[t]
    BY <1>1 DEF TypeOK, Family, TryLock, Filed
  <2>3. \A u \in Threads : pc'[u] \in {"locked", "leased"} => desc'[u] = owner'
    BY <1>1, <2>2 DEF TypeOK, Family, TryLock, Goto
  <2>4. owner' \in Open'
    BY <1>1 DEF TryLock, Open
  <2>5. \A p \in Procs : Raw(p)' \subseteq {owner'} \ {NoDesc}
    BY <1>1, <2>1 DEF TypeOK, Family, TryLock
  <2>6. \A p \in Procs : \A d \in Descs : Has(p, d)' <=> Has(p, d)
    BY <2>1 DEF TryLock, Has
  <2>7. ProcOf[t] \in alive
    BY DEF TypeOK, Family, TryLock
  <2> QED
    BY <1>1, <2>1, <2>3, <2>4, <2>5, <2>6, <2>7 DEF TypeOK, Family, TryLock, Goto, procVars
<1>5. AdoptedIsSealed'
  BY DEF AdoptedIsSealed, TryLock, procVars
<1>6. LeaseIsExclusive'
  <2>1. \A u \in Threads : pc'[u] = "leased" => pc[u] = "leased" /\ owner = desc[u]
    BY DEF TypeOK, TryLock, Goto, LeaseIsExclusive
  <2>2. ASSUME NEW u \in Threads, pc'[u] = "leased" PROVE owner' = owner
    BY <1>1, <2>1, <2>2 DEF TypeOK, TryLock, Filed
  <2>3. desc' = desc /\ given' = given
    BY DEF TryLock, procVars
  <2> QED
    BY <2>1, <2>2, <2>3 DEF LeaseIsExclusive
<1> QED
  BY <1>2, <1>3, <1>4, <1>5, <1>6

\* The step after which a lease exists: two leases are of one description, so
\* of two processes, one of which inherited it.
LEMMA ConfirmKeepsInv ==
  ASSUME Inv, NEW t \in Threads, Confirm(t)
  PROVE  Inv'
<1> USE LeaseAssumption DEF Inv
<1>1. TypeOK'
  BY DEF TypeOK, Confirm, Goto, procVars, Flagged, Filed
<1>2. FlagHasOwner'
  BY DEF TypeOK, FlagHasOwner, Confirm, Goto, procVars, Flagged
<1>3. ProcOf[t] \in alive
  BY DEF TypeOK, Family, Confirm
<1>4. Family'
  BY <1>3 DEF TypeOK, Family, Confirm, Goto, procVars, Has, Raw, Open
<1>5. AdoptedIsSealed'
  BY DEF AdoptedIsSealed, Confirm, procVars
<1>6. LeaseIsExclusive'
  <2>1. SUFFICES ASSUME NEW u \in Threads, NEW v \in Threads,
                        pc'[u] = "leased", pc'[v] = "leased"
                 PROVE  /\ desc[u] = owner /\ desc[v] = owner
                        /\ u # v => ProcOf[u] # ProcOf[v]
                        /\ u # v => owner \in given[ProcOf[u]] \cup given[ProcOf[v]]
    BY DEF LeaseIsExclusive, Confirm, procVars
  <2>2. pc[u] \in {"locked", "leased"} /\ pc[v] \in {"locked", "leased"}
    BY <2>1 DEF TypeOK, Confirm, Goto
  <2>3. desc[u] = owner /\ desc[v] = owner /\ owner \in Descs
    BY <2>2 DEF TypeOK, Family, Filed
  <2>4. u # v => ProcOf[u] # ProcOf[v]
    BY <2>2 DEF FlagHasOwner, Flagged
  <2>5. Has(ProcOf[u], owner) /\ Has(ProcOf[v], owner)
    BY <2>3 DEF Has
  <2> QED
    BY <2>3, <2>4, <2>5 DEF Family
<1> QED
  BY <1>1, <1>2, <1>4, <1>5, <1>6

\* Closing descriptors.  What is still open keeps its owner.
LEMMA CloseLockKeepsInv ==
  ASSUME Inv, NEW t \in Threads, CloseLock(t)
  PROVE  Inv'
<1> USE LeaseAssumption DEF Inv
<1>1. /\ pc' = [pc EXCEPT ![t] = "unlocked"]
      /\ desc' = [desc EXCEPT ![t] = NoDesc]
      /\ UNCHANGED <<alive, held, env, given, sealed, dups>>
      /\ owner' = IF owner \in Open' THEN owner ELSE NoDesc
  BY DEF CloseLock, Goto, procVars, KernelUnlocks
<1>2. TypeOK'
  BY <1>1 DEF TypeOK, CloseLock, Flagged, Filed
<1>3. FlagHasOwner'
  BY <1>1 DEF TypeOK, FlagHasOwner, CloseLock, Flagged
<1>4. \A p \in Procs : Raw(p)' = Raw(p)
  BY <1>1 DEF Raw
<1>5. \A u \in Threads : pc'[u] \in {"locked", "leased"} =>
        /\ u # t /\ pc[u] = pc'[u] /\ desc'[u] = desc[u]
        /\ desc[u] = owner /\ owner' = owner
  BY <1>1 DEF TypeOK, Family, Open
<1>6. Family'
  <2>1. \A p \in Procs : Raw(p)' # {} => owner' = owner
    BY <1>1, <1>4 DEF TypeOK, Family, Open
  <2>2. \A p \in Procs : Raw(p)' \subseteq {owner'} \ {NoDesc}
    BY <1>4, <2>1 DEF Family
  <2>3. \A p \in Procs : \A d \in Descs : Has(p, d)' => Has(p, d)
    BY <1>1, <1>4 DEF TypeOK, Has
  <2>4. ProcOf[t] \in alive
    BY DEF TypeOK, Family, CloseLock
  <2> QED
    BY <1>1, <1>4, <1>5, <2>2, <2>3, <2>4 DEF TypeOK, Family
<1>7. AdoptedIsSealed'
  BY <1>1 DEF TypeOK, AdoptedIsSealed
<1>8. LeaseIsExclusive'
  BY <1>1, <1>5 DEF LeaseIsExclusive
<1> QED
  BY <1>2, <1>3, <1>6, <1>7, <1>8

LEMMA ClearFlagKeepsInv ==
  ASSUME Inv, NEW t \in Threads, ClearFlag(t)
  PROVE  Inv'
<1> USE LeaseAssumption DEF Inv
<1>1. /\ pc' = [pc EXCEPT ![t] = "idle"]
      /\ held' = [held EXCEPT ![ProcOf[t]] = FALSE]
      /\ UNCHANGED <<desc, alive, env, given, sealed, dups, owner>>
  BY DEF ClearFlag, Goto
<1>2. TypeOK'
  BY <1>1 DEF TypeOK, ClearFlag, Flagged, Filed
<1>3. FlagHasOwner'
  <2>1. \A u \in Threads : pc'[u] \in Flagged <=> u # t /\ pc[u] \in Flagged
    BY <1>1 DEF TypeOK, Flagged
  <2>2. \A p \in Procs : held'[p] <=> p # ProcOf[t] /\ held[p]
    BY <1>1 DEF TypeOK
  <2>3. pc[t] \in Flagged
    BY DEF ClearFlag, Flagged
  <2> QED
    BY <2>1, <2>2, <2>3 DEF FlagHasOwner
<1>4. Family'
  BY <1>1 DEF TypeOK, Family, Has, Raw, Open
<1>5. AdoptedIsSealed' /\ LeaseIsExclusive'
  BY <1>1 DEF TypeOK, AdoptedIsSealed, LeaseIsExclusive
<1> QED
  BY <1>2, <1>3, <1>4, <1>5

LEMMA DuplicateKeepsInv ==
  ASSUME Inv, NEW t \in Threads, Duplicate(t)
  PROVE  Inv'
<1> USE LeaseAssumption DEF Inv
<1> DEFINE p == ProcOf[t]
<1>1. /\ dups' = [dups EXCEPT ![p] = @ \cup {desc[t]}]
      /\ UNCHANGED <<pc, desc, alive, held, env, given, sealed, owner>>
      /\ desc[t] \in Descs /\ desc[t] = owner
  BY DEF Duplicate, threadVars, Family
<1>2. TypeOK'
  BY <1>1 DEF TypeOK
<1>3. FlagHasOwner'
  BY <1>1 DEF FlagHasOwner
<1>4. Family'
  <2>1. \A q \in Procs : Raw(q)' \subseteq Raw(q) \cup {owner}
    BY <1>1 DEF TypeOK, Raw
  <2>2. \A q \in Procs : Raw(q)' \subseteq {owner'} \ {NoDesc}
    BY <1>1, <2>1 DEF TypeOK, Family
  <2>3. \A q \in Procs : \A d \in Descs : Has(q, d)' => Has(q, d)
    BY <1>1 DEF TypeOK, Has, Raw
  <2>4. owner' \in Open'
    BY <1>1 DEF Open
  <2>5. p \in alive
    BY DEF TypeOK, Family, Duplicate
  <2>6. \A q \in Procs : q # p => Raw(q)' = Raw(q)
    BY <1>1 DEF TypeOK, Raw
  <2> QED
    BY <1>1, <2>2, <2>3, <2>4, <2>5, <2>6 DEF Family
<1>5. AdoptedIsSealed' /\ LeaseIsExclusive'
  BY <1>1 DEF AdoptedIsSealed, LeaseIsExclusive
<1> QED
  BY <1>2, <1>3, <1>4, <1>5

LEMMA DropDuplicateKeepsInv ==
  ASSUME Inv, NEW p \in Procs, DropDuplicate(p)
  PROVE  Inv'
<1> USE LeaseAssumption DEF Inv
<1>1. /\ dups' = [dups EXCEPT ![p] = {}]
      /\ UNCHANGED <<pc, desc, alive, held, env, given, sealed>>
      /\ owner' = IF owner \in Open' THEN owner ELSE NoDesc
  BY DEF DropDuplicate, threadVars, KernelUnlocks
<1>2. TypeOK'
  BY <1>1 DEF TypeOK
<1>3. FlagHasOwner'
  BY <1>1 DEF FlagHasOwner
<1>4. \A q \in Procs : Raw(q)' \subseteq Raw(q)
  BY <1>1 DEF TypeOK, Raw
<1>5. \A u \in Threads : pc[u] \in {"locked", "leased"} => desc[u] = owner /\ owner' = owner
  BY <1>1 DEF Family, Open
<1>6. Family'
  <2>1. \A q \in Procs : Raw(q)' # {} => owner' = owner
    BY <1>1, <1>4 DEF TypeOK, Family, Open
  <2>2. \A q \in Procs : Raw(q)' \subseteq {owner'} \ {NoDesc}
    BY <1>4, <2>1 DEF Family
  <2>3. \A q \in Procs : \A d \in Descs : Has(q, d)' => Has(q, d)
    BY <1>1, <1>4 DEF Has
  <2> QED
    BY <1>1, <1>4, <1>5, <2>2, <2>3 DEF Family
<1>7. AdoptedIsSealed' /\ LeaseIsExclusive'
  BY <1>1, <1>5 DEF AdoptedIsSealed, LeaseIsExclusive
<1> QED
  BY <1>2, <1>3, <1>6, <1>7

LEMMA LaunchKeepsInv ==
  ASSUME Inv, NEW q \in Procs, Launch(q)
  PROVE  Inv'
<1> USE LeaseAssumption DEF Inv
<1>1. /\ alive' = alive \cup {q}
      /\ UNCHANGED <<pc, desc, held, env, given, sealed, dups, owner>>
  BY DEF Launch, threadVars
<1>2. TypeOK' /\ FlagHasOwner' /\ AdoptedIsSealed' /\ LeaseIsExclusive'
  BY <1>1 DEF TypeOK, FlagHasOwner, AdoptedIsSealed, LeaseIsExclusive
<1>3. Family'
  BY <1>1 DEF TypeOK, Family, Has, Raw, Open
<1> QED
  BY <1>2, <1>3

\* A process that is started inherits every description it has.
LEMMA SpawnKeepsInv ==
  ASSUME Inv, NEW p \in Procs, NEW q \in Procs, Spawn(p, q)
  PROVE  Inv'
<1> USE LeaseAssumption DEF Inv
<1> DEFINE passed == dups[p] \cup (given[p] \ sealed[p])
<1>1. PICK d \in {env[p]} \cup dups[p] : env' = [env EXCEPT ![q] = d]
  BY DEF Spawn
<1>2. /\ alive' = alive \cup {q} /\ q \notin alive
      /\ given' = [given EXCEPT ![q] = passed]
      /\ UNCHANGED <<pc, desc, held, sealed, dups, owner>>
  BY DEF Spawn, threadVars
<1>3. TypeOK'
  BY <1>1, <1>2 DEF TypeOK
<1>4. FlagHasOwner'
  BY <1>2 DEF FlagHasOwner
<1>5. /\ passed \subseteq Raw(p) /\ passed \subseteq {owner} \ {NoDesc}
      /\ Raw(q) = {} /\ sealed[q] = {}
      /\ \A t \in Threads : ProcOf[t] = q => desc[t] = NoDesc
  BY <1>2 DEF TypeOK, Family, Raw, Filed
<1>6. /\ Raw(q)' = passed
      /\ \A r \in Procs : r # q => Raw(r)' = Raw(r) /\ given'[r] = given[r]
      /\ given'[q] = passed
  BY <1>2, <1>5 DEF TypeOK, Raw
<1>7. Family'
  <2>1. \A r \in Procs : Raw(r)' \subseteq {owner'} \ {NoDesc}
    BY <1>2, <1>5, <1>6 DEF Family
  <2>2. owner' # NoDesc => owner' \in Open'
    <3>1. \A r \in Procs : Raw(r) \subseteq Raw(r)'
      BY <1>5, <1>6
    <3> QED
      BY <1>2, <3>1 DEF Family, Open
  <2>3. \A r \in Procs : \A e \in Descs : r # q => (Has(r, e)' <=> Has(r, e))
    BY <1>2, <1>6 DEF Has
  <2>4. \A e \in Descs : Has(q, e)' => e \in given'[q]
    BY <1>2, <1>5, <1>6 DEF TypeOK, Has
  <2>5. \A r \in Procs : sealed'[r] \subseteq given'[r]
    BY <1>2, <1>5, <1>6 DEF Family
  <2>6. \A r, s \in Procs : \A e \in Descs :
          Has(r, e)' /\ Has(s, e)' /\ r # s => e \in given'[r] \cup given'[s]
    BY <1>6, <2>3, <2>4 DEF Family
  <2>7. \A r \in Procs \ alive' :
          /\ r # q /\ ~ held'[r] /\ Raw(r)' = {} /\ sealed'[r] = {} /\ env'[r] = NoDesc
          /\ \A t \in Threads : ProcOf[t] = r => pc'[t] = "idle"
    BY <1>1, <1>2, <1>6 DEF TypeOK, Family
  <2>8. \A t \in Threads : pc'[t] \in {"locked", "leased"} => desc'[t] = owner'
    BY <1>2 DEF Family
  <2> QED
    BY <2>1, <2>2, <2>5, <2>6, <2>7, <2>8 DEF Family
<1>8. AdoptedIsSealed'
  BY <1>2, <1>5, <1>6 DEF TypeOK, AdoptedIsSealed
<1>9. LeaseIsExclusive'
  <2>1. \A t \in Threads : pc[t] = "leased" => ProcOf[t] # q
    BY <1>2 DEF Family
  <2> QED
    BY <1>2, <1>6, <2>1 DEF LeaseIsExclusive
<1> QED
  BY <1>3, <1>4, <1>7, <1>8, <1>9

LEMMA ExitKeepsInv ==
  ASSUME Inv, NEW p \in Procs, Exit(p)
  PROVE  Inv'
<1> USE LeaseAssumption DEF Inv
<1>1. /\ alive' = alive \ {p}
      /\ held' = [held EXCEPT ![p] = FALSE]
      /\ pc' = [t \in Threads |-> IF ProcOf[t] = p THEN "idle" ELSE pc[t]]
      /\ desc' = [t \in Threads |-> IF ProcOf[t] = p THEN NoDesc ELSE desc[t]]
      /\ env' = [env EXCEPT ![p] = NoDesc]
      /\ given' = [given EXCEPT ![p] = {}]
      /\ sealed' = [sealed EXCEPT ![p] = {}]
      /\ dups' = [dups EXCEPT ![p] = {}]
      /\ owner' = IF owner \in Open' THEN owner ELSE NoDesc
  BY DEF Exit, KernelUnlocks
<1>2. TypeOK'
  BY <1>1 DEF TypeOK, Filed
<1>3. FlagHasOwner'
  <2>1. \A t \in Threads : pc'[t] \in Flagged <=> ProcOf[t] # p /\ pc[t] \in Flagged
    BY <1>1 DEF Flagged
  <2>2. \A q \in Procs : held'[q] <=> q # p /\ held[q]
    BY <1>1 DEF TypeOK
  <2> QED
    BY <2>1, <2>2 DEF FlagHasOwner
<1>4. /\ Raw(p)' = {} /\ given'[p] = {}
      /\ \A q \in Procs : q # p =>
           Raw(q)' = Raw(q) /\ given'[q] = given[q] /\ sealed'[q] = sealed[q]
  BY <1>1 DEF TypeOK, Raw
<1>5. \A t \in Threads : pc'[t] \in {"locked", "leased"} =>
        /\ ProcOf[t] # p /\ pc[t] = pc'[t] /\ desc'[t] = desc[t]
        /\ desc[t] = owner /\ owner' = owner
  BY <1>1 DEF Family, Open
<1>6. Family'
  <2>1. \A q \in Procs : Raw(q)' # {} => owner' = owner
    BY <1>1, <1>4 DEF TypeOK, Family, Open
  <2>2. \A q \in Procs : Raw(q)' \subseteq {owner'} \ {NoDesc}
    BY <1>4, <2>1 DEF Family
  <2>3. \A q \in Procs : \A d \in Descs : Has(q, d)' => q # p /\ Has(q, d)
    BY <1>1, <1>4 DEF Has
  <2>4. \A q \in Procs : sealed'[q] \subseteq given'[q]
    BY <1>1 DEF TypeOK, Family
  <2>5. \A q, r \in Procs : \A d \in Descs :
          Has(q, d)' /\ Has(r, d)' /\ q # r => d \in given'[q] \cup given'[r]
    BY <1>4, <2>3 DEF Family
  <2>6. \A q \in Procs \ alive' :
          /\ ~ held'[q] /\ Raw(q)' = {} /\ sealed'[q] = {} /\ env'[q] = NoDesc
          /\ \A t \in Threads : ProcOf[t] = q => pc'[t] = "idle"
    BY <1>1, <1>4 DEF TypeOK, Family
  <2>7. owner' # NoDesc => owner' \in Open'
    BY <1>1
  <2> QED
    BY <1>5, <2>2, <2>4, <2>5, <2>6, <2>7 DEF Family
<1>7. AdoptedIsSealed'
  BY <1>1, <1>4 DEF TypeOK, AdoptedIsSealed
<1>8. LeaseIsExclusive'
  BY <1>4, <1>5 DEF LeaseIsExclusive
<1> QED
  BY <1>2, <1>3, <1>6, <1>7, <1>8

LEMMA InitHasInv == Init => Inv
BY LeaseAssumption
   DEF Init, Inv, TypeOK, FlagHasOwner, Family, AdoptedIsSealed, LeaseIsExclusive,
       Flagged, Filed, Has, Raw, Open

LEMMA NextKeepsInv == Inv /\ [Next]_vars => Inv'
<1>1. SUFFICES ASSUME Inv, [Next]_vars PROVE Inv'
  OBVIOUS
<1>2. ASSUME NEW t \in Threads, Begin(t) \/ Work(t) \/ Duplicate(t) PROVE Inv'
  BY <1>1, <1>2, BeginKeepsInv, TakeFlagKeepsInv, SpinTimeoutKeepsInv, OpenLockKeepsInv,
     AdoptKeepsInv, RefuseLockKeepsInv, TryLockKeepsInv, ConfirmKeepsInv,
     CloseLockKeepsInv, ClearFlagKeepsInv, DuplicateKeepsInv
     DEF Work
<1>3. ASSUME NEW p \in Procs, Process(p) PROVE Inv'
  BY <1>1, <1>3, DropDuplicateKeepsInv, LaunchKeepsInv, SpawnKeepsInv, ExitKeepsInv
     DEF Process
<1>4. CASE UNCHANGED vars
  <2>1. UNCHANGED <<alive, held, pc, desc, owner, env, given, sealed, dups>>
    BY <1>4 DEF vars, threadVars, procVars
  <2> QED
    BY <1>1, <2>1 DEF Inv, TypeOK, FlagHasOwner, Family, AdoptedIsSealed,
       LeaseIsExclusive, Has, Raw, Open
<1> QED
  BY <1>1, <1>2, <1>3, <1>4 DEF Next

\* The inductive invariant of the lease.
THEOREM LeaseInvHolds == Spec => []Inv
BY InitHasInv, NextKeepsInv, PTL DEF Spec

\* Type correctness of the lease (TypeOK).
THEOREM LeaseTypeCorrect == Spec => []TypeOK
<1>1. Inv => TypeOK
  BY DEF Inv
<1> QED
  BY <1>1, LeaseInvHolds, PTL

\* interaction_lease.rs: leases exclude each other, however many processes and
\* threads there are and however often a lease is handed on.
THEOREM LeasesExcludeEachOther == Spec => []LeaseIsExclusive
<1>1. Inv => LeaseIsExclusive
  BY DEF Inv
<1> QED
  BY <1>1, LeaseInvHolds, PTL

\* process_lease_guard.rs: the flag of a process is never leaked and never
\* cleared for another thread.
THEOREM FlagsHaveOwners == Spec => []FlagHasOwner
<1>1. Inv => FlagHasOwner
  BY DEF Inv
<1> QED
  BY <1>1, LeaseInvHolds, PTL

\* FileLock::adopt_inherited: the descriptor that a process adopts is not
\* inherited by the processes it starts, but for a duplicate made for one.
THEOREM AdoptedLeasesAreSealed == Spec => []AdoptedIsSealed
<1>1. Inv => AdoptedIsSealed
  BY DEF Inv
<1> QED
  BY <1>1, LeaseInvHolds, PTL

\* file_lock.rs: a lease handed to a child passes over to it without a moment
\* in which another description could take the lock.
THEOREM HandoversHaveNoGap == Spec => HandoverHasNoGap
<1>1. Inv /\ Inv' /\ [Next]_vars =>
        [\A p \in Procs :
          p \in alive /\ p \in alive' /\ given[p] # {} => owner' = owner]_vars
  <2>1. SUFFICES ASSUME Inv, Inv', [Next]_vars, NEW p \in Procs,
                        p \in alive, p \in alive', given[p] # {}
                 PROVE  owner' = owner
    OBVIOUS
  <2>2. PICK d : d \in given[p]
    BY <2>1
  <2>3. d = owner /\ d # NoDesc
    BY <2>1, <2>2 DEF Inv, Family, Raw
  <2>4. d \in given'[p]
    <3>1. ASSUME NEW q \in Procs, Exit(q) PROVE d \in given'[p]
      BY <2>1, <2>2, <3>1 DEF Exit, Inv, TypeOK
    <3>2. ASSUME NEW q \in Procs, NEW r \in Procs, Spawn(q, r) PROVE d \in given'[p]
      BY <2>1, <2>2, <3>2 DEF Spawn, Inv, TypeOK
    <3>3. CASE given' = given
      BY <2>2, <3>3
    <3>4. ASSUME NEW t \in Threads, Begin(t) \/ Work(t) \/ Duplicate(t) PROVE given' = given
      BY <3>4 DEF Begin, Work, Duplicate, TakeFlag, SpinTimeout, OpenLock, Adopt, RefuseLock,
         TryLock, Confirm, CloseLock, ClearFlag, procVars
    <3>5. ASSUME NEW q \in Procs, DropDuplicate(q) \/ Launch(q) PROVE given' = given
      BY <3>5 DEF DropDuplicate, Launch
    <3>6. CASE UNCHANGED vars
      BY <3>3, <3>6 DEF vars, procVars
    <3> QED
      BY <2>1, <3>1, <3>2, <3>3, <3>4, <3>5, <3>6 DEF Next, Process
  <2>5. d = owner'
    BY <2>1, <2>4 DEF Inv, Family, Raw
  <2> QED
    BY <2>3, <2>5
<1> QED
  BY <1>1, LeaseInvHolds, PTL DEF Spec, HandoverHasNoGap
=============================================================================
