--------------------------- MODULE RefStoreProofs ---------------------------
(***************************************************************************)
(* What the operations on ref maps return, for every tree and every limit; *)
(* then type correctness of RefStore, the readability of the latest        *)
(* snapshot, and the atomicity of its operations; the size of its maps;    *)
(* how many snapshot directories there are, and which ones an eviction     *)
(* removes.  All of it for every number of processes and snapshots, every  *)
(* tree and every limit, and every number of crashes and I/O errors.       *)
(***************************************************************************)
EXTENDS RefStore, FiniteSetTheorems, TLAPS

-----------------------------------------------------------------------------
(* Ref maps *)

\* A missing refmap.json is not confused with any map that can be read.
LEMMA NoMapIsNoRefMap == NoMap \notin RefMaps /\ EmptyMap \in RefMaps
<1>1. NoEntry \notin Entries
  BY DEF NoEntry, Entries, Refs
<1>2. \A m \in RefMaps : NoEntry \notin m.entries
  BY <1>1 DEF RefMaps
<1>3. NoEntry \in NoMap.entries
  BY DEF NoMap
<1>4. EmptyMap \in RefMaps
  BY TreeAssumption DEF EmptyMap, RefMaps, Refs
<1> QED
  BY <1>2, <1>3, <1>4

\* What an observation counts up to a node: at least the node itself, at most
\* the whole observation (the traversal order of allocate_refs).
LEMMA RankInObservation ==
  ASSUME NEW observed \in SUBSET Nodes
  PROVE  /\ IsFiniteSet(observed)
         /\ Cardinality(observed) \in Nat
         /\ \A n \in observed :
              /\ Cardinality({m \in observed : m <= n}) \in Nat
              /\ Cardinality({m \in observed : m <= n}) >= 1
              /\ Cardinality({m \in observed : m <= n}) <= Cardinality(observed)
<1>1. IsFiniteSet(observed)
  BY TreeAssumption, FS_Subset
<1>2. Cardinality(observed) \in Nat
  BY <1>1, FS_CardinalityType
<1>3. ASSUME NEW n \in observed
      PROVE  /\ Cardinality({m \in observed : m <= n}) \in Nat
             /\ Cardinality({m \in observed : m <= n}) >= 1
             /\ Cardinality({m \in observed : m <= n}) <= Cardinality(observed)
  <2> DEFINE upTo == {m \in observed : m <= n}
  <2>1. upTo \in SUBSET observed
    OBVIOUS
  <2>2. IsFiniteSet(upTo) /\ Cardinality(upTo) <= Cardinality(observed)
    BY <1>1, <2>1, FS_Subset
  <2>3. Cardinality(upTo) \in Nat
    BY <2>2, FS_CardinalityType
  <2>4. n \in upTo
    BY TreeAssumption
  <2>5. Cardinality(upTo) # 0
    BY <2>2, <2>4, FS_EmptySet
  <2> QED
    BY <2>2, <2>3, <2>5
<1> QED
  BY <1>1, <1>2, <1>3

\* Allocation that passed the limit yields a map: every ref it hands out is a
\* ref (allocate_validated never overflows its counter).
LEMMA AllocateRefsType ==
  ASSUME NEW map \in RefMaps, NEW observed \in SUBSET Nodes,
         NEW root \in Refs \cup {0}, Fits(map, observed)
  PROVE  AllocateRefs(map, observed, root) \in RefMaps
<1>1. map.counter \in Nat /\ MaxRefs \in Nat
  BY TreeAssumption DEF RefMaps, Refs
<1>2. map.counter + Cardinality(observed) \in Refs \cup {0}
  BY <1>1, RankInObservation DEF Fits, Refs
<1>3. ASSUME NEW n \in observed
      PROVE  map.counter + Cardinality({m \in observed : m <= n}) \in Refs
  <2> DEFINE rank == Cardinality({m \in observed : m <= n})
  <2>1. rank \in Nat /\ rank >= 1 /\ rank <= Cardinality(observed)
    BY RankInObservation
  <2>2. Cardinality(observed) \in Nat
    BY RankInObservation
  <2> HIDE DEF rank
  <2>3. map.counter + rank \in Refs
    BY <1>1, <2>1, <2>2 DEF Fits, Refs
  <2> QED
    BY <2>3 DEF rank
<1>4. {[ref  |-> map.counter + Cardinality({m \in observed : m <= n}),
        node |-> n, root |-> root] : n \in observed} \subseteq Entries
  <2> DEFINE number(n) == map.counter + Cardinality({m \in observed : m <= n})
  <2>1. \A n \in observed : number(n) \in Refs
    BY <1>3
  <2> HIDE DEF number
  <2>2. {[ref |-> number(n), node |-> n, root |-> root] : n \in observed}
          \subseteq Entries
    BY <2>1 DEF Entries
  <2> QED
    BY <2>2 DEF number
<1>5. map.entries \subseteq Entries
  BY DEF RefMaps
<1> QED
  BY <1>2, <1>4, <1>5 DEF AllocateRefs, RefMaps

\* Removal yields a map with the same counter and no entry it did not have.
LEMMA RemoveByRootRefType ==
  ASSUME NEW map \in RefMaps, NEW top \in Entries
  PROVE  /\ RemoveByRootRef(map, top) \in RefMaps
         /\ RemoveByRootRef(map, top).counter = map.counter
         /\ RemoveByRootRef(map, top).entries \subseteq map.entries
BY DEF RemoveByRootRef, RefMaps

\* Refs are never reused: whatever allocation adds is numbered above the old
\* counter and at most the new one.
THEOREM AllocationIsFresh ==
  ASSUME NEW map \in RefMaps, NEW observed \in SUBSET Nodes, NEW root
  PROVE  /\ map.entries \subseteq AllocateRefs(map, observed, root).entries
         /\ AllocateRefs(map, observed, root).counter >= map.counter
         /\ \A e \in AllocateRefs(map, observed, root).entries \ map.entries :
              /\ e.ref > map.counter
              /\ e.ref <= AllocateRefs(map, observed, root).counter
              /\ e.node \in observed
<1>1. map.counter \in Nat
  BY TreeAssumption DEF RefMaps, Refs
<1>2. ASSUME NEW n \in observed
      PROVE  /\ map.counter + Cardinality({m \in observed : m <= n}) > map.counter
             /\ map.counter + Cardinality({m \in observed : m <= n})
                  <= map.counter + Cardinality(observed)
  BY <1>1, RankInObservation
<1>3. map.counter + Cardinality(observed) >= map.counter
  BY <1>1, RankInObservation
<1>4. AllocateRefs(map, observed, root).counter = map.counter + Cardinality(observed)
  BY DEF AllocateRefs
<1> DEFINE number(n) == map.counter + Cardinality({m \in observed : m <= n})
<1>5. AllocateRefs(map, observed, root).entries =
        map.entries \cup {[ref |-> number(n), node |-> n, root |-> root] : n \in observed}
  BY DEF AllocateRefs
<1>6. \A n \in observed :
        number(n) > map.counter /\ number(n) <= map.counter + Cardinality(observed)
  BY <1>2
<1> HIDE DEF number
<1> QED
  BY <1>3, <1>4, <1>5, <1>6

\* A drill-down drops nothing outside the subtree of the drilled element, and
\* nothing that entry's earlier drill-downs recorded survives in it, provided
\* whatever was drilled from the entry lies below it.
THEOREM RemovalStaysInSubtree ==
  ASSUME NEW map \in RefMaps, NEW top \in map.entries,
         \A e \in map.entries : e.root = top.ref => e.node \in Subtree(top.node)
  PROVE  /\ top \in RemoveByRootRef(map, top).entries
         /\ \A e \in map.entries \ RemoveByRootRef(map, top).entries :
              e.node \in Subtree(top.node)
         /\ \A e \in RemoveByRootRef(map, top).entries :
              e.node \in Subtree(top.node) /\ e.node > top.node =>
                e.ref = top.ref
BY DEF RemoveByRootRef, RefMaps

-----------------------------------------------------------------------------
(* What drill-downs keep true of a map *)

\* Nodes that come later in the traversal rank higher.
LEMMA RankIsStrict ==
  ASSUME NEW observed \in SUBSET Nodes, NEW m \in observed, NEW n \in observed, m < n
  PROVE  Cardinality({k \in observed : k <= m}) < Cardinality({k \in observed : k <= n})
<1> DEFINE low == {k \in observed : k <= m}
           high == {k \in observed : k <= n}
<1>1. m \in Nat /\ n \in Nat /\ observed \subseteq Nat
  BY TreeAssumption
<1>2. low \subseteq high /\ n \in high /\ n \notin low
  <2>1. \A k \in observed : k <= m => k <= n
    BY <1>1
  <2>2. n <= n /\ ~ n <= m
    BY <1>1
  <2> QED
    BY <2>1, <2>2
<1>3. IsFiniteSet(high)
  BY RankInObservation, FS_Subset, high \subseteq observed
<1>4. Cardinality(low) <= Cardinality(high) /\ Cardinality(high) # Cardinality(low)
  BY <1>2, <1>3, FS_Subset
<1>5. Cardinality(low) \in Nat /\ Cardinality(high) \in Nat
  BY RankInObservation
<1> QED
  BY <1>4, <1>5

\* The ref that allocation gives to a node.
Number(map, observed, n) == map.counter + Cardinality({m \in observed : m <= n})

\* What allocation adds is numbered above the counter, one number for each node.
LEMMA Allocated ==
  ASSUME NEW map \in RefMaps, NEW observed \in SUBSET Nodes, NEW root
  PROVE  /\ map.counter \in Nat /\ Cardinality(observed) \in Nat
         /\ \A n \in observed :
              /\ Number(map, observed, n) \in Nat
              /\ Number(map, observed, n) > map.counter
              /\ Number(map, observed, n) <= map.counter + Cardinality(observed)
         /\ \A m, n \in observed : Number(map, observed, m) = Number(map, observed, n) => m = n
         /\ AllocateRefs(map, observed, root).entries =
              map.entries \cup {[ref |-> Number(map, observed, n), node |-> n, root |-> root] :
                                  n \in observed}
         /\ AllocateRefs(map, observed, root).counter = map.counter + Cardinality(observed)
<1> DEFINE rank(n) == Cardinality({m \in observed : m <= n})
<1>1. map.counter \in Nat /\ Cardinality(observed) \in Nat
  BY TreeAssumption, RankInObservation DEF RefMaps, Refs
<1>2. \A n \in observed : rank(n) \in Nat /\ rank(n) >= 1 /\ rank(n) <= Cardinality(observed)
  BY RankInObservation
<1>3. \A m, n \in observed : m < n => rank(m) < rank(n)
  BY RankIsStrict
<1>4. observed \subseteq Nat
  BY TreeAssumption
<1>5. /\ AllocateRefs(map, observed, root).entries =
           map.entries \cup {[ref |-> Number(map, observed, n), node |-> n, root |-> root] :
                               n \in observed}
      /\ AllocateRefs(map, observed, root).counter = map.counter + Cardinality(observed)
  BY DEF AllocateRefs, Number
<1>6. \A n \in observed : Number(map, observed, n) = map.counter + rank(n)
  BY DEF Number
<1> HIDE DEF rank
<1>7. \A n \in observed :
        /\ Number(map, observed, n) \in Nat
        /\ Number(map, observed, n) > map.counter
        /\ Number(map, observed, n) <= map.counter + Cardinality(observed)
  BY <1>1, <1>2, <1>6
<1>8. \A m, n \in observed : Number(map, observed, m) = Number(map, observed, n) => m = n
  BY <1>1, <1>2, <1>3, <1>4, <1>6
<1> QED
  BY <1>1, <1>5, <1>7, <1>8

\* Allocation keeps refs unique; what a drill-down adds lies in the subtree of
\* the entry it was drilled from.
LEMMA AllocateWellNumbered ==
  ASSUME NEW map \in RefMaps, NEW observed \in SUBSET Nodes, NEW root \in Refs \cup {0},
         WellNumbered(map),
         root # 0 => \E top \in map.entries : root = top.ref /\ observed \subseteq Subtree(top.node)
  PROVE  WellNumbered(AllocateRefs(map, observed, root))
<1> DEFINE new == AllocateRefs(map, observed, root)
<1> DEFINE number(n) == Number(map, observed, n)
<1>1. /\ map.counter \in Nat /\ Cardinality(observed) \in Nat
      /\ \A n \in observed :
           /\ number(n) \in Nat
           /\ number(n) > map.counter /\ number(n) <= map.counter + Cardinality(observed)
      /\ \A m, n \in observed : number(m) = number(n) => m = n
      /\ new.entries = map.entries \cup {[ref |-> number(n), node |-> n, root |-> root] : n \in observed}
      /\ new.counter = map.counter + Cardinality(observed)
  BY Allocated
<1> HIDE DEF number
<1>2. \A e \in map.entries : e.ref \in Nat /\ e.ref >= 1 /\ e.root \in Nat
  BY TreeAssumption DEF RefMaps, Entries, Refs
<1>3. root \in Nat /\ root <= map.counter
  BY <1>1, <1>2, TreeAssumption DEF WellNumbered, Refs
<1> HIDE DEF new
<1>4. \A e \in new.entries : \/ e \in map.entries
                             \/ \E n \in observed : e = [ref |-> number(n), node |-> n, root |-> root]
  BY <1>1
<1>5. \A e \in new.entries : e.ref <= new.counter /\ e.root <= new.counter
  <2> SUFFICES ASSUME NEW e \in new.entries
               PROVE  e.ref <= new.counter /\ e.root <= new.counter
    OBVIOUS
  <2>1. CASE e \in map.entries
    BY <2>1, <1>1, <1>2 DEF WellNumbered
  <2>2. CASE \E n \in observed : e = [ref |-> number(n), node |-> n, root |-> root]
    BY <2>2, <1>1, <1>3
  <2> QED
    BY <2>1, <2>2, <1>4
<1>6. ASSUME NEW e \in new.entries, NEW f \in new.entries
      PROVE  /\ e.ref = f.ref => e = f
             /\ e.root = f.ref => e.node \in Subtree(f.node)
  <2>1. CASE e \in map.entries /\ f \in map.entries
    BY <2>1 DEF WellNumbered
  <2>2. CASE e \in map.entries /\ \E n \in observed : f = [ref |-> number(n), node |-> n, root |-> root]
    BY <2>2, <1>1, <1>2 DEF WellNumbered
  <2>3. CASE f \in map.entries /\ \E n \in observed : e = [ref |-> number(n), node |-> n, root |-> root]
    <3>1. PICK n \in observed : e = [ref |-> number(n), node |-> n, root |-> root]
      BY <2>3
    <3>2. e.ref # f.ref
      BY <2>3, <3>1, <1>1, <1>2 DEF WellNumbered
    <3>3. ASSUME e.root = f.ref PROVE e.node \in Subtree(f.node)
      <4>1. root = f.ref /\ root # 0 /\ e.node = n
        BY <3>3, <3>1, <2>3, <1>2
      <4>2. PICK top \in map.entries : root = top.ref /\ observed \subseteq Subtree(top.node)
        BY <4>1
      <4>3. top = f
        BY <4>1, <4>2, <2>3 DEF WellNumbered
      <4> QED
        BY <4>1, <4>2, <4>3
    <3> QED
      BY <3>2, <3>3
  <2>4. CASE /\ \E n \in observed : e = [ref |-> number(n), node |-> n, root |-> root]
             /\ \E n \in observed : f = [ref |-> number(n), node |-> n, root |-> root]
    <3>1. PICK m \in observed : e = [ref |-> number(m), node |-> m, root |-> root]
      BY <2>4
    <3>2. PICK n \in observed : f = [ref |-> number(n), node |-> n, root |-> root]
      BY <2>4
    <3> QED
      BY <3>1, <3>2, <1>1, <1>3
  <2> QED
    BY <2>1, <2>2, <2>3, <2>4, <1>4
<1> QED
  BY <1>5, <1>6 DEF WellNumbered, new

\* So does removal, which never drops the drilled entry.
LEMMA RemoveWellNumbered ==
  ASSUME NEW map \in RefMaps, NEW top \in map.entries, WellNumbered(map)
  PROVE  /\ WellNumbered(RemoveByRootRef(map, top))
         /\ top \in RemoveByRootRef(map, top).entries
<1>1. top \in Entries
  BY DEF RefMaps
<1> QED
  BY <1>1, RemoveByRootRefType DEF WellNumbered, RemoveByRootRef, RefMaps

\* A map holds one entry for each ref it has handed out at most.
LEMMA WellNumberedIsFinite ==
  ASSUME NEW map \in RefMaps, WellNumbered(map)
  PROVE  IsFiniteSet(map.entries)
<1> DEFINE number == [e \in map.entries |-> e.ref]
<1>1. number \in Injection(map.entries, Refs)
  BY DEF Injection, IsInjective, WellNumbered, RefMaps, Entries
<1>2. IsFiniteSet(Refs)
  BY FS_Interval, TreeAssumption DEF Refs
<1> QED
  BY <1>1, <1>2, FS_Injection

\* Three names stand for three elements at most.
LEMMA ThreeAtMost ==
  ASSUME NEW a, NEW b, NEW c, NEW S, S \subseteq {a, b, c}
  PROVE  Cardinality(S) <= 3
<1>1. IsFiniteSet({a}) /\ Cardinality({a}) = 1
  BY FS_Singleton
<1>2. IsFiniteSet({a} \cup {b}) /\ Cardinality({a} \cup {b}) \in {1, 2}
  BY <1>1, FS_AddElement
<1>3. /\ IsFiniteSet(({a} \cup {b}) \cup {c})
      /\ Cardinality(({a} \cup {b}) \cup {c}) \in {1, 2, 3}
  BY <1>2, FS_AddElement
<1>4. S \in SUBSET (({a} \cup {b}) \cup {c})
  OBVIOUS
<1>5. Cardinality(S) <= Cardinality(({a} \cup {b}) \cup {c}) /\ Cardinality(S) \in Nat
  BY <1>3, <1>4, FS_Subset, FS_CardinalityType
<1> QED
  BY <1>3, <1>5

\* A new snapshot has one entry for each node it observed.
LEMMA SaveHasFewAliases ==
  ASSUME NEW observed \in SUBSET Nodes
  PROVE  FewAliases(AllocateRefs(EmptyMap, observed, 0))
<1> DEFINE number(n) == Number(EmptyMap, observed, n)
           entry(n) == [ref |-> number(n), node |-> n, root |-> 0]
           new == AllocateRefs(EmptyMap, observed, 0).entries
<1>1. new = {entry(n) : n \in observed}
  BY DEF AllocateRefs, EmptyMap, Number
<1>2. ASSUME NEW n \in Nodes
      PROVE  {e \in new : e.node = n} \subseteq {entry(n), entry(n), entry(n)}
  <2> HIDE DEF number
  <2> QED
    BY <1>1
<1> HIDE DEF new, entry
<1>3. \A n \in Nodes : Cardinality({e \in new : e.node = n}) <= 3
  BY <1>2, ThreeAtMost
<1>4. \A n \in Nodes : \A e, f \in new : e.node = n /\ f.node = n => e = f
  BY <1>2
<1> QED
  BY <1>3, <1>4 DEF FewAliases, new

\* A drill-down leaves at the drilled node its entry, the one of the snapshot
\* and a new one; below it only new ones; and elsewhere it adds nothing.
LEMMA DrillHasFewAliases ==
  ASSUME NEW map \in RefMaps, WellNumbered(map), FewAliases(map),
         NEW top \in map.entries, NEW observed \in SUBSET Subtree(top.node)
  PROVE  FewAliases(AllocateRefs(RemoveByRootRef(map, top), observed, top.ref))
<1> DEFINE kept == RemoveByRootRef(map, top)
           number(n) == Number(kept, observed, n)
           entry(n) == [ref |-> number(n), node |-> n, root |-> top.ref]
           new == AllocateRefs(kept, observed, top.ref).entries
<1>1. /\ new = kept.entries \cup {entry(n) : n \in observed}
      /\ kept.entries = {e \in map.entries :
           \/ e.ref = top.ref
           \/ /\ e.root # top.ref
              /\ ~ (/\ e.node \in Subtree(top.node)
                    /\ e.node > top.node \/ e.root # 0)}
  BY DEF AllocateRefs, Number, RemoveByRootRef, RefMaps
<1>2. /\ top.ref \in Refs /\ top.ref # 0 /\ top.node \in Nodes
      /\ \A e \in map.entries : e.ref = top.ref => e = top
      /\ \A e \in map.entries : e.node \in Nat /\ e.root \in Nat
  <2>1. map.entries \subseteq Entries
    BY DEF RefMaps
  <2>2. \A e \in map.entries : /\ e.ref \in Nat /\ e.ref # 0 /\ e.ref \in Refs
                               /\ e.node \in Nat /\ e.node \in Nodes /\ e.root \in Nat
    <3>1. \A e \in map.entries : e.ref \in Refs /\ e.node \in Nodes /\ e.root \in Refs \cup {0}
      BY <2>1 DEF Entries
    <3>2. (\A r \in Refs : r \in Nat /\ r # 0) /\ (\A n \in Nodes : n \in Nat)
      BY TreeAssumption DEF Refs
    <3> QED
      BY <3>1, <3>2
  <2> QED
    BY <2>2 DEF WellNumbered
<1>3. \A n \in observed : n \in Subtree(top.node) /\ n >= top.node
  BY DEF Subtree
<1>4. top.node \in Subtree(top.node)
  BY <1>2, TreeAssumption DEF Subtree
<1> HIDE DEF number
<1>5. \A n \in Nodes : \A e \in new : e.node = n =>
         \/ e \in kept.entries
         \/ n \in observed /\ e = entry(n)
  BY <1>1
<1>6. \A n \in observed : entry(n).root # 0
  BY <1>2
<1> HIDE DEF new, entry, kept
<1>7. ASSUME NEW n \in Nodes
      PROVE  \A e, f \in new : e.node = n /\ f.node = n /\ e.root = 0 /\ f.root = 0 => e = f
  <2>1. \A e \in new : e.node = n /\ e.root = 0 => e \in map.entries
    BY <1>1, <1>5, <1>6
  <2> QED
    BY <2>1 DEF FewAliases
<1>8. ASSUME NEW n \in Nodes
      PROVE  Cardinality({e \in new : e.node = n}) <= 3
  <2>1. CASE n \notin Subtree(top.node)
    <3>1. {e \in new : e.node = n} \in SUBSET {e \in map.entries : e.node = n}
      BY <1>1, <1>3, <1>5, <2>1
    <3>2. IsFiniteSet({e \in map.entries : e.node = n})
      BY WellNumberedIsFinite, FS_Subset, {e \in map.entries : e.node = n} \in SUBSET map.entries
    <3>3. Cardinality({e \in map.entries : e.node = n}) \in Nat
      BY <3>2, FS_CardinalityType
    <3>4. /\ Cardinality({e \in new : e.node = n}) <= Cardinality({e \in map.entries : e.node = n})
          /\ Cardinality({e \in new : e.node = n}) \in Nat
      BY <3>1, <3>2, FS_Subset, FS_CardinalityType
    <3> QED
      BY <3>3, <3>4 DEF FewAliases
  <2>2. CASE n \in Subtree(top.node) /\ n # top.node
    <3>1. n > top.node
      BY <1>2, <2>2, TreeAssumption DEF Subtree
    <3>2. \A e \in kept.entries : e.node # n
      BY <1>1, <1>2, <2>2, <3>1
    <3>3. {e \in new : e.node = n} \subseteq {entry(n), entry(n), entry(n)}
      BY <1>5, <3>2
    <3> QED
      BY <3>3, ThreeAtMost
  <2>3. CASE n = top.node
    <3>1. \A e \in kept.entries : e.node = n => e = top \/ e.root = 0
      BY <1>1, <1>2, <1>4, <2>3
    <3>2. \A e, f \in kept.entries : e.node = n /\ f.node = n /\ e.root = 0 /\ f.root = 0 => e = f
      BY <1>1 DEF FewAliases
    <3>3. \E e : \A f \in kept.entries : f.node = n /\ f.root = 0 => f = e
      BY <3>2
    <3>4. PICK e : \A f \in kept.entries : f.node = n /\ f.root = 0 => f = e
      BY <3>3
    <3>5. {f \in new : f.node = n} \subseteq {top, e, entry(n)}
      BY <1>5, <3>1, <3>4
    <3> QED
      BY <3>5, ThreeAtMost
  <2> QED
    BY <2>1, <2>2, <2>3
<1> QED
  BY <1>7, <1>8 DEF FewAliases, new, kept

\* What a drill-down makes of a map: new entries are numbered above the old
\* counter, only the subtree of the drilled entry loses entries, and nothing
\* but new entries is left below it.
LEMMA DrilledMap ==
  ASSUME NEW map \in RefMaps, WellNumbered(map), NEW top \in map.entries,
         NEW observed \in SUBSET Subtree(top.node)
  PROVE  LET new == AllocateRefs(RemoveByRootRef(map, top), observed, top.ref)
         IN  /\ new.counter >= map.counter
             /\ top \in new.entries
             /\ \A e \in new.entries \ map.entries : e.ref > map.counter
             /\ \A e \in map.entries \ new.entries : e.node \in Subtree(top.node)
             /\ \A e \in new.entries :
                  e.node \in Subtree(top.node) /\ e.node > top.node => e.ref > map.counter
<1> DEFINE kept == RemoveByRootRef(map, top)
           new == AllocateRefs(kept, observed, top.ref)
<1>1. top \in Entries /\ observed \in SUBSET Nodes
  BY DEF RefMaps, Subtree
<1>2. kept \in RefMaps /\ kept.counter = map.counter /\ kept.entries \subseteq map.entries
  BY <1>1, RemoveByRootRefType
<1>3. /\ top \in kept.entries
      /\ \A e \in map.entries \ kept.entries : e.node \in Subtree(top.node)
      /\ \A e \in kept.entries :
           e.node \in Subtree(top.node) /\ e.node > top.node => e.ref = top.ref
  BY RemovalStaysInSubtree DEF WellNumbered
<1>4. \A e \in kept.entries : e.ref = top.ref => e = top
  BY <1>2 DEF WellNumbered
<1>5. ~ (top.node > top.node)
  <2>1. top.node \in Nat
    BY <1>1, TreeAssumption DEF Entries
  <2> QED
    BY <2>1
<1>6. /\ kept.entries \subseteq new.entries
      /\ new.counter >= kept.counter
      /\ \A e \in new.entries \ kept.entries : e.ref > kept.counter
  BY <1>1, <1>2, AllocationIsFresh
<1> HIDE DEF kept, new
<1>7. \A e \in new.entries : e.node \in Subtree(top.node) /\ e.node > top.node => e.ref > map.counter
  BY <1>2, <1>3, <1>4, <1>5, <1>6
<1>8. /\ new.counter >= map.counter
      /\ top \in new.entries
      /\ \A e \in new.entries \ map.entries : e.ref > map.counter
      /\ \A e \in map.entries \ new.entries : e.node \in Subtree(top.node)
  BY <1>2, <1>3, <1>6
<1> QED
  BY <1>7, <1>8 DEF kept, new


-----------------------------------------------------------------------------
(* Types *)

LEMMA BoundsTypes == MaxIds \in Nat /\ MaxFaults \in Nat /\ MaxRefs \in Nat
BY BoundsAssumption, TreeAssumption

LEMMA NoCallType == NoCall \in Calls
BY DEF NoCall, Calls

\* What every call carries, whatever its operation.
LEMMA CallFields ==
  ASSUME NEW c \in Calls
  PROVE  /\ c.observed \in SUBSET Nodes
         /\ c.id \in Ids \cup {0}
         /\ c.op = "drill" => c.id \in Ids /\ c.top \in Entries
BY DEF Calls

\* Going idle keeps the types of the process's variables.
LEMMA ResetType ==
  ASSUME TypeOK, NEW p \in Procs, Reset(p)
  PROVE  /\ pc' \in [Procs -> {"idle", "want", "held", "staged", "published",
                               "advanced", "evicting", "done"}]
         /\ call' \in [Procs -> Calls]
         /\ \A q \in Procs : pc'[q] \in Writing => call'[q].id \in Ids
         /\ draft' \in [Procs -> RefMaps \cup {NoMap}]
         /\ victims' \in [Procs -> SUBSET Ids]
BY NoCallType DEF TypeOK, Reset, Goto, Writing

\* Writing to directories keeps the types of the clock and the times.
LEMMA TouchType ==
  ASSUME TypeOK, NEW ds, Touch(ds)
  PROVE  mtime' \in [Ids -> Nat] /\ clock' \in Nat
BY DEF TypeOK, Touch

\* The parts of TypeOK a removal touches.
FilesTyped ==
  /\ snap \in [Ids -> RefMaps \cup {NoMap}]
  /\ mtime \in [Ids -> Nat]
  /\ orphans \subseteq Ids
  /\ clock \in Nat

\* A removal that stops half way keeps the types.
LEMMA DismantleType ==
  ASSUME TypeOK, NEW d \in Ids, Dismantle(d)
  PROVE  FilesTyped'
<1>1. mtime' \in [Ids -> Nat] /\ clock' \in Nat
  BY TouchType DEF Dismantle
<1> QED
  BY <1>1 DEF Dismantle, TypeOK, FilesTyped

\* The maps both kinds of writer stage can be read.
LEMMA StagedSaveType ==
  ASSUME TypeOK, NEW p \in Procs, StageSave(p)
  PROVE  AllocateRefs(EmptyMap, call[p].observed, 0) \in RefMaps
<1>1. call[p].observed \in SUBSET Nodes /\ Fits(EmptyMap, call[p].observed)
  BY CallFields DEF StageSave, TypeOK
<1> QED
  BY <1>1, AllocateRefsType, NoMapIsNoRefMap

LEMMA StagedDrillType ==
  ASSUME TypeOK, NEW p \in Procs, StageDrill(p)
  PROVE  AllocateRefs(RemoveByRootRef(snap[call[p].id], call[p].top),
                      call[p].observed, call[p].top.ref) \in RefMaps
<1> DEFINE c == call[p]
           pruned == RemoveByRootRef(snap[c.id], c.top)
<1>1. c.top \in snap[c.id].entries /\ Fits(pruned, c.observed) /\ c.op = "drill"
  BY DEF StageDrill
<1>2. c.observed \in SUBSET Nodes /\ c.id \in Ids /\ c.top \in Entries
  BY <1>1, CallFields DEF TypeOK
<1>3. c.top.ref \in Refs
  BY <1>2 DEF Entries
<1>4. snap[c.id] \in RefMaps
  <2>1. NoEntry \notin Entries
    BY DEF NoEntry, Entries, Refs
  <2> QED
    BY <1>1, <1>2, <2>1 DEF TypeOK, NoMap
<1>5. pruned \in RefMaps
  BY <1>2, <1>4, RemoveByRootRefType
<1> QED
  BY <1>1, <1>2, <1>3, <1>5, AllocateRefsType

LEMMA InitTypeOK == Init => TypeOK
BY BoundsTypes, NoCallType, NoMapIsNoRefMap DEF Init, TypeOK, Ids, Writing

\* TypeOK is inductive: allocation never numbers past the limit, because both
\* kinds of writer check it first.
LEMMA NextTypeOK == TypeOK /\ [Next]_vars => TypeOK'
<1> SUFFICES ASSUME TypeOK, [Next]_vars PROVE TypeOK'
  OBVIOUS
<1> USE DEF Goto, Writing
<1>1. ASSUME NEW p \in Procs, Begin(p) PROVE TypeOK'
  <2>1. ASSUME NEW c \in Calls, Start(p, c)
        PROVE  TypeOK'
    BY <2>1 DEF Start, TypeOK, diskVars
  <2>2. CASE BeginSave(p)
    BY <2>1, <2>2 DEF BeginSave, Calls
  <2>3. CASE BeginInventory(p)
    BY <2>1, <2>3 DEF BeginInventory, Calls
  <2>4. CASE BeginDrill(p)
    <3>1. PICK id \in Ids :
            /\ snap[id] # NoMap
            /\ \E top \in snap[id].entries : \E seen \in SUBSET Subtree(top.node) :
                 Start(p, [op |-> "drill", id |-> id, top |-> top, observed |-> seen])
      BY <2>4 DEF BeginDrill
    <3>2. PICK top \in snap[id].entries :
            \E seen \in SUBSET Subtree(top.node) :
              Start(p, [op |-> "drill", id |-> id, top |-> top, observed |-> seen])
      BY <3>1
    <3>3. PICK seen \in SUBSET Subtree(top.node) :
            Start(p, [op |-> "drill", id |-> id, top |-> top, observed |-> seen])
      BY <3>2
    <3>4. top \in Entries
      BY <3>1 DEF TypeOK, RefMaps
    <3>5. seen \in SUBSET Nodes
      BY DEF Subtree
    <3> QED
      BY <2>1, <3>3, <3>4, <3>5 DEF Calls
  <2> QED
    BY <1>1, <2>2, <2>3, <2>4 DEF Begin
<1>2. ASSUME NEW p \in Procs, Work(p) PROVE TypeOK'
  <2>1. CASE Acquire(p)
    BY <2>1 DEF Acquire, TypeOK, diskVars
  <2>2. CASE LockTimeout(p)
    BY <2>2, ResetType DEF LockTimeout, TypeOK, diskVars
  <2>3. CASE Release(p)
    BY <2>3, ResetType DEF Release, TypeOK, diskVars
  <2>4. CASE StageSave(p)
    <3>1. nextId \in Ids /\ nextId' \in 1 .. MaxIds + 1
      BY <2>4, BoundsTypes DEF StageSave, TypeOK, Ids
    <3>2. mtime' \in [Ids -> Nat] /\ clock' \in Nat
      BY <2>4, TouchType DEF StageSave
    <3>4. AllocateRefs(EmptyMap, call[p].observed, 0) \in RefMaps
      BY <2>4, StagedSaveType
    <3>5. draft' \in [Procs -> RefMaps \cup {NoMap}]
      BY <2>4, <3>4 DEF StageSave, TypeOK
    <3>6. call' \in [Procs -> Calls]
      BY <2>4, <3>1 DEF StageSave, TypeOK, Calls
    <3> QED
      BY <2>4, <3>1, <3>2, <3>5, <3>6 DEF StageSave, TypeOK
  <2>5. CASE RefuseSave(p)
    BY <2>5 DEF RefuseSave, TypeOK, diskVars
  <2>6. CASE Publish(p)
    <3>1. mtime' \in [Ids -> Nat] /\ clock' \in Nat
      BY <2>6, TouchType DEF Publish
    <3> QED
      BY <2>6, <3>1 DEF Publish, TypeOK
  <2>7. CASE SetLatest(p)
    BY <2>7 DEF SetLatest, TypeOK
  <2>8. CASE Prune(p)
    <3>1. CASE ~ OverCap
      BY <2>8, <3>1 DEF Prune, TypeOK
    <3>2. CASE OverCap
      <4>1. PICK swept \in SUBSET orphans :
              /\ IF swept = {} THEN UNCHANGED <<mtime, clock>> ELSE Touch(swept)
              /\ orphans' = orphans \ swept
              /\ victims' = [victims EXCEPT ![p] =
                   OldestBut(call[p].id, mtime', Cardinality(Dirs) - LowWater)]
              /\ Goto(p, "evicting")
        BY <2>8, <3>2 DEF Prune
      <4>2. mtime' \in [Ids -> Nat] /\ clock' \in Nat
        BY <4>1, TouchType DEF TypeOK
      <4>3. OldestBut(call[p].id, mtime', Cardinality(Dirs) - LowWater) \subseteq Ids
        BY DEF OldestBut
      <4> QED
        BY <2>8, <4>1, <4>2, <4>3 DEF Prune, TypeOK
    <3> QED
      BY <3>1, <3>2
  <2>9. CASE Evict(p)
    BY <2>9 DEF Evict, Forget, TypeOK
  <2>10. CASE StageDrill(p)
    <3>1. mtime' \in [Ids -> Nat] /\ clock' \in Nat
      BY <2>10, TouchType DEF StageDrill
    <3>2. draft' \in [Procs -> RefMaps \cup {NoMap}]
      BY <2>10, StagedDrillType DEF StageDrill, TypeOK
    <3>3. call[p].id \in Ids
      BY <2>10, CallFields DEF StageDrill, TypeOK
    <3> QED
      BY <2>10, <3>1, <3>2, <3>3 DEF StageDrill, TypeOK
  <2>11. CASE RefuseDrill(p)
    BY <2>11 DEF RefuseDrill, TypeOK, diskVars
  <2>12. CASE Inventory(p)
    BY <2>12 DEF Inventory, TypeOK, diskVars
  <2> QED
    BY <1>2, <2>1, <2>2, <2>3, <2>4, <2>5, <2>6, <2>7, <2>8, <2>9, <2>10,
       <2>11, <2>12 DEF Work
<1>3. ASSUME NEW p \in Procs, Break(p) PROVE TypeOK'
  <2>1. faults' \in 0 .. MaxFaults
    BY <1>3, BoundsTypes
    DEF Break, FailPublish, FailSetLatest, FailEvict, Crash, Fault, TypeOK
  <2>2. CASE FailPublish(p)
    <3>1. mtime' \in [Ids -> Nat] /\ clock' \in Nat
      BY <2>2, TouchType DEF FailPublish
    <3>2. snap' \in [Ids -> RefMaps \cup {NoMap}]
      BY <2>2 DEF FailPublish, TypeOK
    <3> QED
      BY <2>1, <2>2, <3>1, <3>2 DEF FailPublish, TypeOK
  <2>3. CASE FailSetLatest(p)
    <3>1. latest' \in Ids \cup {0}
      BY <2>3 DEF FailSetLatest, TypeOK, Writing
    <3> QED
      BY <2>1, <2>3, <3>1 DEF FailSetLatest, TypeOK
  <2>4. CASE FailEvict(p)
    <3>1. PICK d \in victims[p] :
            /\ Dismantle(d) \/ UNCHANGED <<snap, mtime, orphans, clock>>
            /\ victims' = [victims EXCEPT ![p] = @ \ {d}]
            /\ Goto(p, IF victims[p] = {d} THEN "done" ELSE "evicting")
      BY <2>4 DEF FailEvict
    <3>2. FilesTyped'
      BY <3>1, DismantleType DEF TypeOK, FilesTyped
    <3>3. UNCHANGED <<lock, call, draft, latest, nextId>> /\ pc[p] = "evicting"
      BY <2>4 DEF FailEvict
    <3> QED
      BY <2>1, <3>1, <3>2, <3>3 DEF TypeOK, FilesTyped, Goto, Writing
  <2>5. CASE Crash(p)
    <3>1. FilesTyped'
      BY <2>5, DismantleType DEF Crash, TypeOK, FilesTyped, Writing
    <3>2. lock' \in Procs \cup {NoProc}
      BY <2>5 DEF Crash, TypeOK
    <3> QED
      BY <2>1, <2>5, <3>1, <3>2, ResetType DEF Crash, TypeOK, FilesTyped
  <2> QED
    BY <1>3, <2>2, <2>3, <2>4, <2>5 DEF Break
<1>4. CASE UNCHANGED vars
  BY <1>4 DEF vars, procVars, diskVars, TypeOK
<1> QED
  BY <1>1, <1>2, <1>3, <1>4 DEF Next

\* Refs, ids and times stay in the ranges the code gives them.
THEOREM TypeCorrect == Spec => []TypeOK
<1>1. Init => TypeOK
  BY InitTypeOK
<1>2. TypeOK /\ [Next]_vars => TypeOK'
  BY NextTypeOK
<1> QED
  BY <1>1, <1>2, PTL DEF Spec

-----------------------------------------------------------------------------
(* The latest snapshot can always be read *)

\* What Inv adds to TypeOK, one step at a time.
Rest ==
  /\ LockOwner
  /\ \A d \in Ids : d >= nextId => snap[d] = NoMap
  /\ \A p \in Procs : StagedFromCurrent(p) /\ VictimsSpareLatest(p)
  /\ LatestReadable

\* While p owns the lock every other process is idle or waiting for it.
LEMMA OthersWait ==
  ASSUME Inv, NEW p \in Procs, pc[p] \notin {"idle", "want"}, NEW q \in Procs, q # p
  PROVE  pc[q] \in {"idle", "want"}
BY DEF Inv, LockOwner

\* A staged file belongs to a directory that was created before, and holds a
\* map that can be read.
LEMMA StagedFile ==
  ASSUME Inv, NEW p \in Procs, pc[p] = "staged"
  PROVE  /\ call[p].id \in Ids /\ call[p].id < nextId
         /\ draft[p] \in RefMaps /\ draft[p] # NoMap
<1>1. draft[p] \in RefMaps /\ draft[p] # NoMap
  BY NoMapIsNoRefMap DEF Inv, StagedFromCurrent
<1>2. call[p].id \in Ids
  BY DEF Inv, TypeOK, Writing
<1>3. CASE call[p].op = "save"
  BY <1>1, <1>2, <1>3 DEF Inv, StagedFromCurrent
<1>4. CASE call[p].op = "drill"
  <2>1. call[p].top \in Entries /\ call[p].top \in snap[call[p].id].entries
    BY <1>4, CallFields DEF Inv, TypeOK, StagedFromCurrent
  <2>2. snap[call[p].id] # NoMap
    BY <2>1 DEF NoMap, NoEntry, Entries, Refs
  <2>3. ~ (call[p].id >= nextId)
    BY <1>2, <2>2 DEF Inv
  <2> QED
    BY <1>1, <1>2, <2>3 DEF Inv, TypeOK, Ids
<1> QED
  BY <1>3, <1>4 DEF Inv, StagedFromCurrent

LEMMA AcquireKeepsInv ==
  ASSUME Inv, TypeOK', NEW p \in Procs, Acquire(p)
  PROVE  Rest'
<1> USE DEF Acquire, Goto, diskVars
<1>1. LockOwner'
  BY ProcsAssumption DEF Inv, TypeOK, LockOwner
<1>2. \A d \in Ids : d >= nextId' => snap'[d] = NoMap
  BY BoundsTypes DEF Inv, TypeOK, Ids, Writing
<1>3. \A q \in Procs : StagedFromCurrent(q)'
  BY OthersWait DEF Inv, TypeOK, StagedFromCurrent, Writing
<1>4. \A q \in Procs : VictimsSpareLatest(q)'
  BY OthersWait DEF Inv, TypeOK, VictimsSpareLatest, Writing
<1>5. LatestReadable'
  BY DEF Inv, TypeOK, LatestReadable, VictimsSpareLatest, Writing
<1> QED
  BY <1>1, <1>2, <1>3, <1>4, <1>5 DEF Rest

LEMMA LockTimeoutKeepsInv ==
  ASSUME Inv, TypeOK', NEW p \in Procs, LockTimeout(p)
  PROVE  Rest'
<1> USE DEF LockTimeout, Goto, Reset, diskVars
<1>1. LockOwner'
  BY ProcsAssumption DEF Inv, TypeOK, LockOwner
<1>2. \A d \in Ids : d >= nextId' => snap'[d] = NoMap
  BY BoundsTypes DEF Inv, TypeOK, Ids, Writing
<1>3. \A q \in Procs : StagedFromCurrent(q)'
  BY OthersWait DEF Inv, TypeOK, StagedFromCurrent, Writing
<1>4. \A q \in Procs : VictimsSpareLatest(q)'
  BY OthersWait DEF Inv, TypeOK, VictimsSpareLatest, Writing
<1>5. LatestReadable'
  BY DEF Inv, TypeOK, LatestReadable, VictimsSpareLatest, Writing
<1> QED
  BY <1>1, <1>2, <1>3, <1>4, <1>5 DEF Rest

LEMMA ReleaseKeepsInv ==
  ASSUME Inv, TypeOK', NEW p \in Procs, Release(p)
  PROVE  Rest'
<1> USE DEF Release, Goto, Reset, diskVars
<1>1. LockOwner'
  BY ProcsAssumption DEF Inv, TypeOK, LockOwner
<1>2. \A d \in Ids : d >= nextId' => snap'[d] = NoMap
  BY BoundsTypes DEF Inv, TypeOK, Ids, Writing
<1>3. \A q \in Procs : StagedFromCurrent(q)'
  BY OthersWait DEF Inv, TypeOK, StagedFromCurrent, Writing
<1>4. \A q \in Procs : VictimsSpareLatest(q)'
  BY OthersWait DEF Inv, TypeOK, VictimsSpareLatest, Writing
<1>5. LatestReadable'
  BY DEF Inv, TypeOK, LatestReadable, VictimsSpareLatest, Writing
<1> QED
  BY <1>1, <1>2, <1>3, <1>4, <1>5 DEF Rest

LEMMA StageSaveKeepsInv ==
  ASSUME Inv, TypeOK', NEW p \in Procs, StageSave(p)
  PROVE  Rest'
<1> USE DEF StageSave, Goto, Touch
<1>1. LockOwner'
  BY ProcsAssumption DEF Inv, TypeOK, LockOwner
<1>2. \A d \in Ids : d >= nextId' => snap'[d] = NoMap
  BY BoundsTypes DEF Inv, TypeOK, Ids, Writing
<1>3. ASSUME NEW q \in Procs PROVE StagedFromCurrent(q)'
  <2>1. CASE q = p
    <3>1. /\ nextId \in Ids /\ snap[nextId] = NoMap /\ nextId' = nextId + 1
          /\ call'[p].op = "save" /\ call'[p].id = nextId
          /\ call'[p].observed = call[p].observed
      BY DEF Inv, TypeOK, Ids
    <3>2. draft'[p] = AllocateRefs(EmptyMap, call[p].observed, 0)
      BY DEF Inv, TypeOK
    <3>3. snap'[call'[p].id] = NoMap /\ call'[p].id < nextId'
      BY <3>1 DEF Ids
    <3>4. draft'[p] \in RefMaps
      BY <3>2, StagedSaveType DEF Inv
    <3> HIDE DEF StageSave
    <3> QED
      BY <2>1, <3>1, <3>2, <3>3, <3>4 DEF StagedFromCurrent
  <2>2. CASE q # p
    BY <2>2, OthersWait DEF Inv, TypeOK, StagedFromCurrent
  <2> QED
    BY <2>1, <2>2
<1>4. \A q \in Procs : VictimsSpareLatest(q)'
  BY OthersWait DEF Inv, TypeOK, VictimsSpareLatest, Writing
<1>5. LatestReadable'
  BY DEF Inv, TypeOK, LatestReadable, VictimsSpareLatest, Writing
<1> QED
  BY <1>1, <1>2, <1>3, <1>4, <1>5 DEF Rest

LEMMA RefuseSaveKeepsInv ==
  ASSUME Inv, TypeOK', NEW p \in Procs, RefuseSave(p)
  PROVE  Rest'
<1> USE DEF RefuseSave, Goto, diskVars
<1>1. LockOwner'
  BY ProcsAssumption DEF Inv, TypeOK, LockOwner
<1>2. \A d \in Ids : d >= nextId' => snap'[d] = NoMap
  BY BoundsTypes DEF Inv, TypeOK, Ids, Writing
<1>3. \A q \in Procs : StagedFromCurrent(q)'
  BY OthersWait DEF Inv, TypeOK, StagedFromCurrent, Writing
<1>4. \A q \in Procs : VictimsSpareLatest(q)'
  BY OthersWait DEF Inv, TypeOK, VictimsSpareLatest, Writing
<1>5. LatestReadable'
  BY DEF Inv, TypeOK, LatestReadable, VictimsSpareLatest, Writing
<1> QED
  BY <1>1, <1>2, <1>3, <1>4, <1>5 DEF Rest

LEMMA PublishKeepsInv ==
  ASSUME Inv, TypeOK', NEW p \in Procs, Publish(p)
  PROVE  Rest'
<1> USE DEF Publish, Goto, Touch
<1>1. LockOwner'
  BY ProcsAssumption DEF Inv, TypeOK, LockOwner
<1>2. \A d \in Ids : d >= nextId' => snap'[d] = NoMap
  BY StagedFile DEF Inv, TypeOK, Ids
<1>3. \A q \in Procs : StagedFromCurrent(q)'
  BY OthersWait DEF Inv, TypeOK, StagedFromCurrent, Writing
<1>4. \A q \in Procs : VictimsSpareLatest(q)'
  BY StagedFile, OthersWait DEF Inv, TypeOK, VictimsSpareLatest, Writing
<1>5. LatestReadable'
  BY StagedFile DEF Inv, TypeOK, LatestReadable
<1> QED
  BY <1>1, <1>2, <1>3, <1>4, <1>5 DEF Rest

LEMMA SetLatestKeepsInv ==
  ASSUME Inv, TypeOK', NEW p \in Procs, SetLatest(p)
  PROVE  Rest'
<1> USE DEF SetLatest, Goto
<1>1. LockOwner'
  BY ProcsAssumption DEF Inv, TypeOK, LockOwner
<1>2. \A d \in Ids : d >= nextId' => snap'[d] = NoMap
  BY BoundsTypes DEF Inv, TypeOK, Ids, Writing
<1>3. \A q \in Procs : StagedFromCurrent(q)'
  BY OthersWait DEF Inv, TypeOK, StagedFromCurrent, Writing
<1>4. \A q \in Procs : VictimsSpareLatest(q)'
  BY OthersWait DEF Inv, TypeOK, VictimsSpareLatest, Writing
<1>5. LatestReadable'
  BY DEF Inv, TypeOK, LatestReadable, VictimsSpareLatest, Writing
<1> QED
  BY <1>1, <1>2, <1>3, <1>4, <1>5 DEF Rest

LEMMA PruneKeepsInv ==
  ASSUME Inv, TypeOK', NEW p \in Procs, Prune(p)
  PROVE  Rest'
<1> USE DEF Prune, Goto, Touch, OldestBut
<1>1. LockOwner'
  BY ProcsAssumption DEF Inv, TypeOK, LockOwner
<1>2. \A d \in Ids : d >= nextId' => snap'[d] = NoMap
  BY BoundsTypes DEF Inv, TypeOK, Ids, Writing
<1>3. \A q \in Procs : StagedFromCurrent(q)'
  BY OthersWait DEF Inv, TypeOK, StagedFromCurrent, Writing
<1>4. ASSUME NEW q \in Procs PROVE VictimsSpareLatest(q)'
  <2>1. CASE q = p
    <3>1. latest' = call'[p].id /\ latest = call[p].id /\ victims[p] = {}
      BY DEF Inv, VictimsSpareLatest
    <3>2. latest' \notin victims'[p]
      <4>1. CASE OverCap
        <5>1. victims'[p] = OldestBut(call[p].id, mtime', Cardinality(Dirs) - LowWater)
          BY <4>1 DEF Inv, TypeOK
        <5>2. \A times, count : call[p].id \notin OldestBut(call[p].id, times, count)
          OBVIOUS
        <5> QED
          BY <3>1, <5>1, <5>2
      <4>2. CASE ~ OverCap
        BY <3>1, <4>2
      <4> QED
        BY <4>1, <4>2
    <3>3. (pc'[p] = "done" /\ victims'[p] = {}) \/ pc'[p] = "evicting"
      BY <3>1 DEF Inv, TypeOK
    <3> HIDE DEF Prune
    <3> QED
      BY <2>1, <3>1, <3>2, <3>3 DEF VictimsSpareLatest
  <2>2. CASE q # p
    BY <2>2, OthersWait DEF Inv, TypeOK, VictimsSpareLatest
  <2> QED
    BY <2>1, <2>2
<1>5. LatestReadable'
  BY DEF Inv, TypeOK, LatestReadable, VictimsSpareLatest, Writing
<1> QED
  BY <1>1, <1>2, <1>3, <1>4, <1>5 DEF Rest

LEMMA EvictKeepsInv ==
  ASSUME Inv, TypeOK', NEW p \in Procs, Evict(p)
  PROVE  Rest'
<1> USE DEF Evict, Goto, Forget
<1>1. LockOwner'
  BY ProcsAssumption DEF Inv, TypeOK, LockOwner
<1>2. \A d \in Ids : d >= nextId' => snap'[d] = NoMap
  BY BoundsTypes DEF Inv, TypeOK, Ids, Writing
<1>3. \A q \in Procs : StagedFromCurrent(q)'
  BY OthersWait DEF Inv, TypeOK, StagedFromCurrent, Writing
<1>4. \A q \in Procs : VictimsSpareLatest(q)'
  BY OthersWait DEF Inv, TypeOK, VictimsSpareLatest, Writing
<1>5. LatestReadable'
  BY DEF Inv, TypeOK, LatestReadable, VictimsSpareLatest, Writing
<1> QED
  BY <1>1, <1>2, <1>3, <1>4, <1>5 DEF Rest

LEMMA StageDrillKeepsInv ==
  ASSUME Inv, TypeOK', NEW p \in Procs, StageDrill(p)
  PROVE  Rest'
<1> USE DEF StageDrill, Goto, Touch
<1>1. LockOwner'
  BY ProcsAssumption DEF Inv, TypeOK, LockOwner
<1>2. \A d \in Ids : d >= nextId' => snap'[d] = NoMap
  BY BoundsTypes DEF Inv, TypeOK, Ids, Writing
<1>3. ASSUME NEW q \in Procs PROVE StagedFromCurrent(q)'
  <2>1. CASE q = p
    <3>1. draft'[p] = AllocateRefs(RemoveByRootRef(snap[call[p].id], call[p].top),
                                   call[p].observed, call[p].top.ref)
      BY DEF Inv, TypeOK
    <3> QED
      BY <2>1, <3>1, StagedDrillType DEF Inv, StagedFromCurrent
  <2>2. CASE q # p
    BY <2>2, OthersWait DEF Inv, TypeOK, StagedFromCurrent
  <2> QED
    BY <2>1, <2>2
<1>4. \A q \in Procs : VictimsSpareLatest(q)'
  BY OthersWait DEF Inv, TypeOK, VictimsSpareLatest, Writing
<1>5. LatestReadable'
  BY DEF Inv, TypeOK, LatestReadable, VictimsSpareLatest, Writing
<1> QED
  BY <1>1, <1>2, <1>3, <1>4, <1>5 DEF Rest

LEMMA RefuseDrillKeepsInv ==
  ASSUME Inv, TypeOK', NEW p \in Procs, RefuseDrill(p)
  PROVE  Rest'
<1> USE DEF RefuseDrill, Goto, diskVars
<1>1. LockOwner'
  BY ProcsAssumption DEF Inv, TypeOK, LockOwner
<1>2. \A d \in Ids : d >= nextId' => snap'[d] = NoMap
  BY BoundsTypes DEF Inv, TypeOK, Ids, Writing
<1>3. \A q \in Procs : StagedFromCurrent(q)'
  BY OthersWait DEF Inv, TypeOK, StagedFromCurrent, Writing
<1>4. \A q \in Procs : VictimsSpareLatest(q)'
  BY OthersWait DEF Inv, TypeOK, VictimsSpareLatest, Writing
<1>5. LatestReadable'
  BY DEF Inv, TypeOK, LatestReadable, VictimsSpareLatest, Writing
<1> QED
  BY <1>1, <1>2, <1>3, <1>4, <1>5 DEF Rest

LEMMA InventoryKeepsInv ==
  ASSUME Inv, TypeOK', NEW p \in Procs, Inventory(p)
  PROVE  Rest'
<1> USE DEF Inventory, Goto, diskVars
<1>1. LockOwner'
  BY ProcsAssumption DEF Inv, TypeOK, LockOwner
<1>2. \A d \in Ids : d >= nextId' => snap'[d] = NoMap
  BY BoundsTypes DEF Inv, TypeOK, Ids, Writing
<1>3. \A q \in Procs : StagedFromCurrent(q)'
  BY OthersWait DEF Inv, TypeOK, StagedFromCurrent, Writing
<1>4. \A q \in Procs : VictimsSpareLatest(q)'
  BY OthersWait DEF Inv, TypeOK, VictimsSpareLatest, Writing
<1>5. LatestReadable'
  BY DEF Inv, TypeOK, LatestReadable, VictimsSpareLatest, Writing
<1> QED
  BY <1>1, <1>2, <1>3, <1>4, <1>5 DEF Rest

LEMMA FailPublishKeepsInv ==
  ASSUME Inv, TypeOK', NEW p \in Procs, FailPublish(p)
  PROVE  Rest'
<1> USE DEF FailPublish, Goto, Touch, Fault
<1>1. LockOwner'
  BY ProcsAssumption DEF Inv, TypeOK, LockOwner
<1>2. \A d \in Ids : d >= nextId' => snap'[d] = NoMap
  BY StagedFile DEF Inv, TypeOK, Ids
<1>3. \A q \in Procs : StagedFromCurrent(q)'
  BY OthersWait DEF Inv, TypeOK, StagedFromCurrent, Writing
<1>4. \A q \in Procs : VictimsSpareLatest(q)'
  BY StagedFile, OthersWait DEF Inv, TypeOK, VictimsSpareLatest, Writing
<1>5. LatestReadable'
  BY StagedFile DEF Inv, TypeOK, LatestReadable
<1> QED
  BY <1>1, <1>2, <1>3, <1>4, <1>5 DEF Rest

LEMMA FailSetLatestKeepsInv ==
  ASSUME Inv, TypeOK', NEW p \in Procs, FailSetLatest(p)
  PROVE  Rest'
<1> USE DEF FailSetLatest, Goto, Fault
<1>1. LockOwner'
  BY ProcsAssumption DEF Inv, TypeOK, LockOwner
<1>2. \A d \in Ids : d >= nextId' => snap'[d] = NoMap
  BY BoundsTypes DEF Inv, TypeOK, Ids, Writing
<1>3. \A q \in Procs : StagedFromCurrent(q)'
  BY OthersWait DEF Inv, TypeOK, StagedFromCurrent, Writing
<1>4. \A q \in Procs : VictimsSpareLatest(q)'
  BY OthersWait DEF Inv, TypeOK, VictimsSpareLatest, Writing
<1>5. LatestReadable'
  BY DEF Inv, TypeOK, LatestReadable, VictimsSpareLatest, Writing
<1> QED
  BY <1>1, <1>2, <1>3, <1>4, <1>5 DEF Rest

LEMMA FailEvictKeepsInv ==
  ASSUME Inv, TypeOK', NEW p \in Procs, FailEvict(p)
  PROVE  Rest'
<1> USE DEF FailEvict, Dismantle, Goto, Fault
<1>1. LockOwner'
  BY ProcsAssumption DEF Inv, TypeOK, LockOwner
<1>2. \A d \in Ids : d >= nextId' => snap'[d] = NoMap
  BY BoundsTypes DEF Inv, TypeOK, Ids, Writing
<1>3. \A q \in Procs : StagedFromCurrent(q)'
  BY OthersWait DEF Inv, TypeOK, StagedFromCurrent, Writing
<1>4. \A q \in Procs : VictimsSpareLatest(q)'
  BY OthersWait DEF Inv, TypeOK, VictimsSpareLatest, Writing
<1>5. LatestReadable'
  BY DEF Inv, TypeOK, LatestReadable, VictimsSpareLatest, Writing
<1> QED
  BY <1>1, <1>2, <1>3, <1>4, <1>5 DEF Rest

LEMMA CrashKeepsInv ==
  ASSUME Inv, TypeOK', NEW p \in Procs, Crash(p)
  PROVE  Rest'
<1> USE DEF Crash, Dismantle, Goto, Fault, Reset
<1>1. LockOwner'
  BY ProcsAssumption DEF Inv, TypeOK, LockOwner
<1>2. \A d \in Ids : d >= nextId' => snap'[d] = NoMap
  BY BoundsTypes DEF Inv, TypeOK, Ids, Writing
<1>3. ASSUME NEW q \in Procs PROVE StagedFromCurrent(q)'
  <2>1. CASE q = p
    BY <2>1 DEF Inv, TypeOK, StagedFromCurrent
  <2>2. CASE q # p /\ pc[p] = "want"
    BY <2>2 DEF Inv, TypeOK, StagedFromCurrent, VictimsSpareLatest
  <2>3. CASE q # p /\ pc[p] # "want"
    BY <2>3, OthersWait DEF Inv, TypeOK, StagedFromCurrent
  <2> QED
    BY <2>1, <2>2, <2>3
<1>4. /\ \A d \in Ids \ victims[p] : snap'[d] = snap[d]
      /\ UNCHANGED latest
      /\ pc[p] # "evicting" => snap' = snap
  <2>1. snap' = snap \/ \E d \in victims[p] : snap' = [snap EXCEPT ![d] = NoMap]
    OBVIOUS
  <2>2. /\ \A d \in Ids \ victims[p] : snap'[d] = snap[d]
        /\ victims[p] = {} => snap' = snap
    BY <2>1 DEF Inv, TypeOK
  <2>3. pc[p] # "evicting" => victims[p] = {}
    BY DEF Inv, Rest, VictimsSpareLatest
  <2>4. UNCHANGED latest
    OBVIOUS
  <2> QED
    BY <2>2, <2>3, <2>4
<1>5. ASSUME NEW q \in Procs PROVE VictimsSpareLatest(q)'
  <2>1. CASE q = p
    BY <1>4, <2>1 DEF Inv, TypeOK, VictimsSpareLatest
  <2>2. CASE q # p /\ pc[p] # "evicting"
    BY <1>4, <2>2 DEF Inv, TypeOK, VictimsSpareLatest
  <2>3. CASE q # p /\ pc[p] = "evicting"
    <3>1. pc[q] \in {"idle", "want"}
      BY <2>3, OthersWait
    <3> QED
      BY <1>4, <2>3, <3>1 DEF Inv, TypeOK, VictimsSpareLatest
  <2> QED
    BY <2>1, <2>2, <2>3
<1>6. LatestReadable'
  BY <1>4 DEF Inv, TypeOK, LatestReadable, VictimsSpareLatest
<1> QED
  BY <1>1, <1>2, <1>3, <1>5, <1>6 DEF Rest

LEMMA BeginKeepsInv ==
  ASSUME Inv, NEW p \in Procs, Begin(p)
  PROVE  Rest'
<1>1. /\ pc[p] = "idle" /\ pc' = [pc EXCEPT ![p] = "want"]
      /\ \A q \in Procs : q # p => call'[q] = call[q]
      /\ UNCHANGED <<lock, draft, victims, diskVars, faults>>
  BY DEF Begin, BeginSave, BeginDrill, BeginInventory, Start, Inv, TypeOK
<1> USE <1>1 DEF diskVars
<1>2. LockOwner'
  BY DEF Inv, TypeOK, LockOwner
<1>3. \A q \in Procs : StagedFromCurrent(q)' /\ VictimsSpareLatest(q)'
  BY DEF Inv, TypeOK, StagedFromCurrent, VictimsSpareLatest
<1> QED
  BY <1>2, <1>3 DEF Inv, Rest, LatestReadable

\* The inductive invariant.
THEOREM InvHolds == Spec => []Inv
<1>1. Init => Inv
  BY InitTypeOK, ProcsAssumption
  DEF Init, Inv, LockOwner, StagedFromCurrent, VictimsSpareLatest, LatestReadable, Ids
<1>2. Inv /\ [Next]_vars => Inv'
  <2> SUFFICES ASSUME Inv, [Next]_vars PROVE Inv'
    OBVIOUS
  <2>1. TypeOK'
    BY NextTypeOK DEF Inv
  <2>2. ASSUME NEW p \in Procs, Begin(p) PROVE Rest'
    BY <2>2, BeginKeepsInv
  <2>3. ASSUME NEW p \in Procs, Work(p) PROVE Rest'
    BY <2>1, <2>3, AcquireKeepsInv, LockTimeoutKeepsInv, ReleaseKeepsInv,
       StageSaveKeepsInv, RefuseSaveKeepsInv, PublishKeepsInv, SetLatestKeepsInv,
       PruneKeepsInv, EvictKeepsInv, StageDrillKeepsInv, RefuseDrillKeepsInv,
       InventoryKeepsInv DEF Work
  <2>4. ASSUME NEW p \in Procs, Break(p) PROVE Rest'
    BY <2>1, <2>4, FailPublishKeepsInv, FailSetLatestKeepsInv, FailEvictKeepsInv,
       CrashKeepsInv DEF Break
  <2>5. ASSUME UNCHANGED vars PROVE Rest'
    <3>1. UNCHANGED <<lock, pc, call, draft, victims, snap, latest, nextId>>
      BY <2>5 DEF vars, procVars, diskVars
    <3>2. LockOwner'
      BY <3>1 DEF Inv, LockOwner
    <3>3. ASSUME NEW p \in Procs PROVE StagedFromCurrent(p)' /\ VictimsSpareLatest(p)'
      BY <3>1 DEF Inv, StagedFromCurrent, VictimsSpareLatest
    <3>4. LatestReadable' /\ \A d \in Ids : d >= nextId' => snap'[d] = NoMap
      BY <3>1 DEF Inv, LatestReadable
    <3> QED
      BY <3>2, <3>3, <3>4 DEF Rest
  <2>6. Rest'
    BY <2>2, <2>3, <2>4, <2>5 DEF Next
  <2> QED
    BY <2>1, <2>6 DEF Inv, Rest
<1> QED
  BY <1>1, <1>2, PTL DEF Spec

\* Whatever is interrupted, the latest-snapshot file names a snapshot that can
\* be read.
THEOREM LatestAlwaysReadable == Spec => []LatestReadable
<1>1. Inv => LatestReadable
  BY DEF Inv
<1> QED
  BY <1>1, InvHolds, PTL

-----------------------------------------------------------------------------
(* The operations are atomic *)

\* The abstract specification has the same maps.
LEMMA SameMaps ==
  /\ Abstract!NoMap = NoMap /\ Abstract!EmptyMap = EmptyMap
  /\ Abstract!Entries = Entries /\ Abstract!Ids = Ids
  /\ \A map, observed, root :
       Abstract!AllocateRefs(map, observed, root) = AllocateRefs(map, observed, root)
  /\ \A map, top : Abstract!RemoveByRootRef(map, top) = RemoveByRootRef(map, top)
<1>1. Abstract!NoMap = NoMap /\ Abstract!EmptyMap = EmptyMap
  BY DEF Abstract!NoMap, Abstract!EmptyMap, NoMap, EmptyMap, Abstract!NoEntry, NoEntry
<1>2. Abstract!Entries = Entries /\ Abstract!Ids = Ids
  BY DEF Abstract!Entries, Entries, Abstract!Refs, Refs, Abstract!Ids, Ids
<1>3. ASSUME NEW map, NEW observed, NEW root
      PROVE  Abstract!AllocateRefs(map, observed, root) = AllocateRefs(map, observed, root)
  BY DEF Abstract!AllocateRefs, AllocateRefs, Abstract!Cardinality, Cardinality
<1>4. ASSUME NEW map, NEW top
      PROVE  Abstract!RemoveByRootRef(map, top) = RemoveByRootRef(map, top)
  BY DEF Abstract!RemoveByRootRef, RemoveByRootRef, Abstract!Subtree, Subtree
<1> QED
  BY <1>1, <1>2, <1>3, <1>4

\* Publishing what was staged under the lock is an atomic save or drill-down.
LEMMA PublishIsAtomic ==
  ASSUME Inv, NEW p \in Procs, pc[p] = "staged", UNCHANGED latest,
         snap' = [snap EXCEPT ![call[p].id] = draft[p]]
  PROVE  Abstract!Next
<1> DEFINE c == call[p]
<1>1. c.id \in Ids /\ c.observed \in SUBSET Nodes
  BY StagedFile, CallFields DEF Inv, TypeOK
<1>2. CASE c.op = "save"
  <2>1. Abstract!Store(c.id, c.observed)
    BY <1>2, SameMaps DEF Inv, StagedFromCurrent, Abstract!Store
  <2> QED
    BY <1>1, <2>1, SameMaps DEF Abstract!Next
<1>3. CASE c.op = "drill"
  <2>1. c.top \in Entries
    BY <1>3, CallFields DEF Inv, TypeOK
  <2>2. Abstract!DrillDown(c.id, c.top, c.observed)
    BY <1>3, SameMaps DEF Inv, StagedFromCurrent, Abstract!DrillDown
  <2> QED
    BY <1>1, <2>1, <2>2, SameMaps DEF Abstract!Next
<1> QED
  BY <1>2, <1>3 DEF Inv, StagedFromCurrent

\* Removing the map of a victim is an atomic drop.
LEMMA EvictionIsADrop ==
  ASSUME Inv, NEW p \in Procs, NEW d \in victims[p], UNCHANGED latest,
         snap' = [snap EXCEPT ![d] = NoMap]
  PROVE  Abstract!Next
<1>1. d \in Ids /\ d # latest
  BY DEF Inv, TypeOK, VictimsSpareLatest
<1>2. Abstract!Drop(d)
  BY <1>1, SameMaps DEF Abstract!Drop
<1> QED
  BY <1>1, <1>2, SameMaps DEF Abstract!Next

\* Moving the pointer under the lock is an atomic step.
LEMMA PointerMoveIsAtomic ==
  ASSUME Inv, NEW p \in Procs, pc[p] = "published", UNCHANGED snap,
         latest' = call[p].id
  PROVE  Abstract!Next
<1>1. call[p].id \in Ids /\ snap[call[p].id] # NoMap
  BY DEF Inv, TypeOK, Writing, VictimsSpareLatest
<1>2. Abstract!Point(call[p].id)
  BY <1>1, SameMaps DEF Abstract!Point
<1> QED
  BY <1>1, <1>2, SameMaps DEF Abstract!Next

\* RefStore implements SnapshotNamespace: no interleaving and no fault shows a
\* client anything but whole operations.
THEOREM OperationsAreAtomic == Spec => ImplementsNamespace
<1>1. Init => Abstract!Init
  BY SameMaps DEF Init, Abstract!Init
<1>2. Inv /\ [Next]_vars => [Abstract!Next]_<<snap, latest>>
  <2> SUFFICES ASSUME Inv, [Next]_vars PROVE [Abstract!Next]_<<snap, latest>>
    OBVIOUS
  <2>1. ASSUME NEW p \in Procs, Begin(p) PROVE UNCHANGED <<snap, latest>>
    BY <2>1 DEF Begin, BeginSave, BeginDrill, BeginInventory, Start, diskVars
  <2>2. ASSUME NEW p \in Procs, Work(p) PROVE [Abstract!Next]_<<snap, latest>>
    <3>1. CASE Publish(p)
      BY <3>1, PublishIsAtomic DEF Publish
    <3>2. CASE SetLatest(p)
      BY <3>2, PointerMoveIsAtomic DEF SetLatest
    <3>3. CASE Evict(p)
      BY <3>3, EvictionIsADrop DEF Evict, Forget
    <3>4. CASE ~ (Publish(p) \/ SetLatest(p) \/ Evict(p))
      BY <2>2, <3>4 DEF Work, Acquire, LockTimeout, Release, StageSave, RefuseSave,
         Prune, StageDrill, RefuseDrill, Inventory, diskVars
    <3> QED
      BY <3>1, <3>2, <3>3, <3>4
  <2>3. ASSUME NEW p \in Procs, Break(p) PROVE [Abstract!Next]_<<snap, latest>>
    <3>1. CASE FailPublish(p)
      <4>1. \/ snap' = [snap EXCEPT ![call[p].id] = draft[p]]
            \/ snap' = [snap EXCEPT ![call[p].id] = snap[call[p].id]]
        BY <3>1 DEF FailPublish
      <4>2. pc[p] = "staged" /\ UNCHANGED latest
        BY <3>1 DEF FailPublish
      <4>3. CASE snap' = [snap EXCEPT ![call[p].id] = draft[p]]
        BY <4>2, <4>3, PublishIsAtomic
      <4>4. CASE snap' = [snap EXCEPT ![call[p].id] = snap[call[p].id]]
        BY <4>2, <4>4 DEF Inv, TypeOK
      <4> QED
        BY <4>1, <4>3, <4>4
    <3>2. CASE FailSetLatest(p)
      BY <3>2, PointerMoveIsAtomic DEF FailSetLatest
    <3>3. CASE FailEvict(p)
      BY <3>3, EvictionIsADrop DEF FailEvict, Dismantle
    <3>4. CASE Crash(p)
      BY <3>4, EvictionIsADrop DEF Crash, Dismantle
    <3> QED
      BY <2>3, <3>1, <3>2, <3>3, <3>4 DEF Break
  <2>4. CASE UNCHANGED vars
    BY <2>4 DEF vars, diskVars
  <2> QED
    BY <2>1, <2>2, <2>3, <2>4 DEF Next
<1> QED
  BY <1>1, <1>2, InvHolds, PTL DEF Spec, Abstract!Spec, ImplementsNamespace

-----------------------------------------------------------------------------
(* The maps in the store *)

\* The map a writer has staged is numbered as every map is.
LEMMA StagedIsWellNumbered ==
  ASSUME Inv, MapsInv, NEW p \in Procs, pc[p] = "staged"
  PROVE  WellNumbered(draft[p]) /\ FewAliases(draft[p])
<1> DEFINE c == call[p]
<1>1. c \in Calls /\ c.observed \in SUBSET Nodes
  BY CallFields DEF Inv, TypeOK
<1>2. CASE c.op = "save"
  <2>1. draft[p] = AllocateRefs(EmptyMap, c.observed, 0)
    BY <1>2 DEF Inv, StagedFromCurrent
  <2>2. WellNumbered(EmptyMap)
    BY DEF WellNumbered, EmptyMap
  <2>3. WellNumbered(AllocateRefs(EmptyMap, c.observed, 0))
    BY <1>1, <2>2, NoMapIsNoRefMap, AllocateWellNumbered
  <2> QED
    BY <1>1, <2>1, <2>3, SaveHasFewAliases
<1>3. CASE c.op = "drill"
  <2> DEFINE map == snap[c.id]
  <2>1. /\ c.top \in map.entries
        /\ draft[p] = AllocateRefs(RemoveByRootRef(map, c.top), c.observed, c.top.ref)
    BY <1>3 DEF Inv, StagedFromCurrent
  <2>2. c.id \in Ids /\ c.top \in Entries /\ map \in RefMaps \cup {NoMap}
    BY <1>1, <1>3, CallFields DEF Inv, TypeOK
  <2>3. map # NoMap
    BY <2>1, <2>2 DEF NoMap, NoEntry, Entries, Refs
  <2>4. map \in RefMaps /\ WellNumbered(map) /\ FewAliases(map)
    BY <2>2, <2>3 DEF MapsInv
  <2>5. c.observed \in SUBSET Subtree(c.top.node)
    BY <1>3 DEF MapsInv
  <2> HIDE DEF map, c
  <2>6. FewAliases(draft[p])
    BY <2>1, <2>4, <2>5, DrillHasFewAliases
  <2> DEFINE kept == RemoveByRootRef(map, c.top)
  <2>7. kept \in RefMaps /\ WellNumbered(kept) /\ c.top \in kept.entries
    BY <2>1, <2>2, <2>4, RemoveWellNumbered, RemoveByRootRefType
  <2>8. c.top.ref \in Refs
    BY <2>2 DEF Entries
  <2> HIDE DEF kept
  <2>9. WellNumbered(AllocateRefs(kept, c.observed, c.top.ref))
    <3>1. \E top \in kept.entries : c.top.ref = top.ref /\ c.observed \subseteq Subtree(top.node)
      BY <2>5, <2>7
    <3> QED
      BY <1>1, <2>7, <2>8, <3>1, AllocateWellNumbered DEF c
  <2> QED
    BY <2>1, <2>6, <2>9 DEF kept
<1> QED
  BY <1>2, <1>3 DEF Inv, StagedFromCurrent

\* A map appears or changes only when a writer publishes what it staged.
LEMMA MapSteps ==
  ASSUME Inv, [Next]_vars, NEW d \in Ids
  PROVE  \/ snap'[d] \in {snap[d], NoMap}
         \/ \E p \in Procs : /\ pc[p] = "staged" /\ call[p].id = d /\ snap'[d] = draft[p]
                             /\ UNCHANGED call /\ UNCHANGED nextId
<1>1. ASSUME NEW p \in Procs, Begin(p) PROVE snap' = snap
  BY <1>1 DEF Begin, BeginSave, BeginDrill, BeginInventory, Start, diskVars
<1>2. ASSUME NEW p \in Procs, Publish(p) \/ FailPublish(p)
      PROVE  \/ snap'[d] \in {snap[d], NoMap}
             \/ /\ pc[p] = "staged" /\ call[p].id = d /\ snap'[d] = draft[p]
                /\ UNCHANGED call /\ UNCHANGED nextId
  BY <1>2 DEF Publish, FailPublish, Inv, TypeOK
<1>3. ASSUME NEW p \in Procs, Evict(p) \/ FailEvict(p) \/ Crash(p)
      PROVE  snap'[d] \in {snap[d], NoMap}
  BY <1>3 DEF Evict, FailEvict, Crash, Dismantle, Forget, Inv, TypeOK
<1>4. ASSUME NEW p \in Procs, Work(p), ~ (Publish(p) \/ Evict(p)) PROVE snap' = snap
  BY <1>4 DEF Work, Acquire, LockTimeout, Release, StageSave, RefuseSave, SetLatest,
     Prune, StageDrill, RefuseDrill, Inventory, diskVars
<1>5. ASSUME NEW p \in Procs, FailSetLatest(p) PROVE snap' = snap
  BY <1>5 DEF FailSetLatest
<1>6. ASSUME UNCHANGED vars PROVE snap' = snap
  BY <1>6 DEF vars, diskVars
<1> QED
  BY <1>1, <1>2, <1>3, <1>4, <1>5, <1>6 DEF Next, Break

\* A call keeps what it was started with; a save learns its id when it stages.
LEMMA CallSteps ==
  ASSUME Inv, MapsInv, [Next]_vars, NEW q \in Procs
  PROVE  /\ call'[q].op = "drill" => call'[q].observed \subseteq Subtree(call'[q].top.node)
         /\ pc'[q] = "staged" /\ call'[q].op = "save" => call'[q].id = nextId' - 1
<1> USE DEF Goto
<1>1. ASSUME UNCHANGED call, UNCHANGED nextId, pc'[q] # "staged" \/ pc'[q] = pc[q]
      PROVE  /\ call'[q].op = "drill" => call'[q].observed \subseteq Subtree(call'[q].top.node)
             /\ pc'[q] = "staged" /\ call'[q].op = "save" => call'[q].id = nextId' - 1
  BY <1>1 DEF MapsInv
<1>2. ASSUME NEW p \in Procs, Begin(p)
      PROVE  /\ call'[q].op = "drill" => call'[q].observed \subseteq Subtree(call'[q].top.node)
             /\ pc'[q] = "staged" /\ call'[q].op = "save" => call'[q].id = nextId' - 1
  <2>1. /\ pc' = [pc EXCEPT ![p] = "want"] /\ UNCHANGED nextId
        /\ p # q => call'[q] = call[q]
    BY <1>2 DEF Begin, BeginSave, BeginDrill, BeginInventory, Start, Inv, TypeOK, diskVars
  <2>2. CASE BeginDrill(p)
    <3>1. PICK id \in Ids :
            \E top \in snap[id].entries : \E seen \in SUBSET Subtree(top.node) :
                 Start(p, [op |-> "drill", id |-> id, top |-> top, observed |-> seen])
      BY <2>2 DEF BeginDrill
    <3>2. PICK top \in snap[id].entries :
            \E seen \in SUBSET Subtree(top.node) :
              Start(p, [op |-> "drill", id |-> id, top |-> top, observed |-> seen])
      BY <3>1
    <3>3. PICK seen \in SUBSET Subtree(top.node) :
            Start(p, [op |-> "drill", id |-> id, top |-> top, observed |-> seen])
      BY <3>2
    <3>4. call'[p] = [op |-> "drill", id |-> id, top |-> top, observed |-> seen]
      BY <3>3 DEF Start, Inv, TypeOK
    <3> QED
      BY <2>1, <3>4 DEF MapsInv, Inv, TypeOK
  <2>3. CASE BeginSave(p) \/ BeginInventory(p)
    <3>1. call'[p].op \in {"save", "inventory"}
      BY <2>3 DEF BeginSave, BeginInventory, Start, Inv, TypeOK
    <3> QED
      BY <2>1, <3>1 DEF MapsInv, Inv, TypeOK
  <2> QED
    BY <1>2, <2>2, <2>3 DEF Begin
<1>3. ASSUME NEW p \in Procs, StageSave(p)
      PROVE  /\ call'[q].op = "drill" => call'[q].observed \subseteq Subtree(call'[q].top.node)
             /\ pc'[q] = "staged" /\ call'[q].op = "save" => call'[q].id = nextId' - 1
  <2>1. CASE p = q
    BY <1>3, <2>1 DEF StageSave, Inv, TypeOK
  <2>2. CASE p # q
    <3>1. pc[q] \in {"idle", "want"} /\ pc'[q] = pc[q] /\ call'[q] = call[q]
      BY <1>3, <2>2, OthersWait DEF StageSave, Inv, TypeOK
    <3> QED
      BY <3>1 DEF MapsInv
  <2> QED
    BY <2>1, <2>2
<1>4. ASSUME NEW p \in Procs, StageDrill(p)
      PROVE  /\ call'[q].op = "drill" => call'[q].observed \subseteq Subtree(call'[q].top.node)
             /\ pc'[q] = "staged" /\ call'[q].op = "save" => call'[q].id = nextId' - 1
  <2>1. UNCHANGED call /\ UNCHANGED nextId /\ (p # q => pc'[q] = pc[q]) /\ call[p].op = "drill"
    BY <1>4 DEF StageDrill, Inv, TypeOK
  <2> QED
    BY <2>1 DEF MapsInv
<1>5. ASSUME NEW p \in Procs, Reset(p), UNCHANGED nextId
      PROVE  /\ call'[q].op = "drill" => call'[q].observed \subseteq Subtree(call'[q].top.node)
             /\ pc'[q] = "staged" /\ call'[q].op = "save" => call'[q].id = nextId' - 1
  BY <1>5 DEF Reset, MapsInv, Inv, TypeOK, NoCall
<1>6. ASSUME NEW p \in Procs,
             \/ Acquire(p) \/ RefuseSave(p) \/ Publish(p) \/ SetLatest(p) \/ Evict(p)
             \/ RefuseDrill(p) \/ Inventory(p)
             \/ FailPublish(p) \/ FailSetLatest(p) \/ FailEvict(p)
      PROVE  UNCHANGED call /\ UNCHANGED nextId /\ (pc'[q] # "staged" \/ pc'[q] = pc[q])
  BY <1>6 DEF Acquire, RefuseSave, Publish, SetLatest, Evict, RefuseDrill,
     Inventory, FailPublish, FailSetLatest, FailEvict, diskVars, Inv, TypeOK
<1>7. ASSUME NEW p \in Procs, Prune(p)
      PROVE  UNCHANGED call /\ UNCHANGED nextId /\ (pc'[q] # "staged" \/ pc'[q] = pc[q])
  BY <1>7 DEF Prune, Inv, TypeOK
<1>8. ASSUME NEW p \in Procs, LockTimeout(p) \/ Release(p) \/ Crash(p)
      PROVE  Reset(p) /\ UNCHANGED nextId
  BY <1>8 DEF LockTimeout, Release, Crash, diskVars
<1>9. ASSUME UNCHANGED vars
      PROVE  UNCHANGED call /\ UNCHANGED nextId /\ pc'[q] = pc[q]
  BY <1>9 DEF vars, procVars, diskVars
<1> QED
  BY <1>1, <1>2, <1>3, <1>4, <1>5, <1>6, <1>7, <1>8, <1>9 DEF Next, Work, Break

\* Every map in the store is well numbered and has few entries for a node: what
\* is staged was made by allocation and removal from one that was.
THEOREM MapsInvHolds == Spec => []MapsInv
<1>1. Init => MapsInv
  BY DEF Init, MapsInv, NoCall
<1>2. Inv /\ MapsInv /\ [Next]_vars => MapsInv'
  <2> SUFFICES ASSUME Inv, MapsInv, [Next]_vars PROVE MapsInv'
    OBVIOUS
  <2>1. ASSUME NEW d \in Ids, snap'[d] # NoMap
        PROVE  WellNumbered(snap'[d]) /\ FewAliases(snap'[d])
    BY <2>1, MapSteps, StagedIsWellNumbered DEF MapsInv
  <2> QED
    BY <2>1, CallSteps DEF MapsInv
<1> QED
  BY <1>1, <1>2, InvHolds, PTL DEF Spec

\* Drill-downs of drill-downs do not make a map grow without bound
\* (allocate_refs after remove_by_root_ref in snapshot_ref.rs).
THEOREM AliasesStayBounded == Spec => []AliasesBounded
<1>1. Inv /\ MapsInv => AliasesBounded
  <2> SUFFICES ASSUME Inv, MapsInv, NEW d \in Ids, NEW n \in Nodes, snap[d] # NoMap
               PROVE  /\ Cardinality({e \in snap[d].entries : e.node = n}) <= 3
                      /\ Cardinality({e \in snap[d].entries : e.node = n /\ e.root = 0}) <= 1
    BY DEF AliasesBounded
  <2>1. FewAliases(snap[d])
    BY DEF MapsInv
  <2> DEFINE own == {e \in snap[d].entries : e.node = n /\ e.root = 0}
  <2>2. \A e, f \in own : e = f
    BY <2>1 DEF FewAliases
  <2>3. Cardinality(own) <= 1
    <3>1. CASE own = {}
      BY <3>1, FS_EmptySet
    <3>2. CASE own # {}
      <4>1. PICK e \in own : TRUE
        BY <3>2
      <4>2. own = {e}
        BY <4>1, <2>2
      <4>3. Cardinality(own) = 1
        BY <4>2, FS_Singleton
      <4> QED
        BY <4>3
    <3> QED
      BY <3>1, <3>2
  <2> QED
    BY <2>1, <2>3 DEF FewAliases
<1> QED
  BY <1>1, InvHolds, MapsInvHolds, PTL

\* A map that can be read is only ever rewritten by a drill-down into it.
LEMMA ChangedByDrill ==
  ASSUME Inv, MapsInv, [Next]_vars, NEW d \in Ids, Changed(d)
  PROVE  \E p \in Procs :
           /\ pc[p] = "staged" /\ call[p].op = "drill" /\ call[p].id = d
           /\ snap[d] \in RefMaps /\ WellNumbered(snap[d])
           /\ call[p].top \in snap[d].entries
           /\ call[p].observed \in SUBSET Subtree(call[p].top.node)
           /\ snap'[d] = AllocateRefs(RemoveByRootRef(snap[d], call[p].top),
                                      call[p].observed, call[p].top.ref)
<1>1. PICK p \in Procs : pc[p] = "staged" /\ call[p].id = d /\ snap'[d] = draft[p]
  BY MapSteps DEF Changed
<1>2. call[p].op # "save"
  BY <1>1 DEF Inv, StagedFromCurrent, Changed
<1>3. /\ call[p].op = "drill" /\ call[p].top \in snap[d].entries
      /\ snap'[d] = AllocateRefs(RemoveByRootRef(snap[d], call[p].top),
                                 call[p].observed, call[p].top.ref)
  BY <1>1, <1>2 DEF Inv, StagedFromCurrent
<1>4. snap[d] \in RefMaps /\ WellNumbered(snap[d])
  BY DEF Changed, Inv, TypeOK, MapsInv
<1>5. call[p].observed \in SUBSET Subtree(call[p].top.node)
  BY <1>3 DEF MapsInv
<1> QED
  BY <1>1, <1>3, <1>4, <1>5

\* A ref token never denotes a second element, whoever drills meanwhile
\* (RefMap::allocate numbers on from the counter).
THEOREM RefsAreNeverRedefined == Spec => NeverRedefined
<1>1. Inv /\ MapsInv /\ [Next]_vars =>
        [\A d \in Ids :
           /\ Changed(d) =>
                /\ snap'[d].counter >= snap[d].counter
                /\ \A e \in snap'[d].entries \ snap[d].entries : e.ref > snap[d].counter
           /\ snap[d] = NoMap /\ snap'[d] # NoMap => d = nextId - 1]_vars
  <2> SUFFICES ASSUME Inv, MapsInv, [Next]_vars, NEW d \in Ids
               PROVE  /\ Changed(d) =>
                           /\ snap'[d].counter >= snap[d].counter
                           /\ \A e \in snap'[d].entries \ snap[d].entries : e.ref > snap[d].counter
                      /\ snap[d] = NoMap /\ snap'[d] # NoMap => d = nextId - 1
    OBVIOUS
  <2>1. ASSUME Changed(d)
        PROVE  /\ snap'[d].counter >= snap[d].counter
               /\ \A e \in snap'[d].entries \ snap[d].entries : e.ref > snap[d].counter
    <3>1. PICK p \in Procs :
           /\ snap[d] \in RefMaps /\ WellNumbered(snap[d])
           /\ call[p].top \in snap[d].entries
           /\ call[p].observed \in SUBSET Subtree(call[p].top.node)
           /\ snap'[d] = AllocateRefs(RemoveByRootRef(snap[d], call[p].top),
                                      call[p].observed, call[p].top.ref)
      BY <2>1, ChangedByDrill
    <3> QED
      BY <3>1, DrilledMap
  <2>2. ASSUME snap[d] = NoMap, snap'[d] # NoMap
        PROVE  d = nextId - 1
    <3>1. PICK p \in Procs : pc[p] = "staged" /\ call[p].id = d
      BY <2>2, MapSteps
    <3>2. CASE call[p].op = "drill"
      <4>1. call[p].top \in Entries /\ call[p].top \in snap[d].entries
        BY <3>1, <3>2, CallFields DEF Inv, TypeOK, StagedFromCurrent
      <4> QED
        BY <2>2, <4>1 DEF NoMap, NoEntry, Entries, Refs
    <3>3. CASE call[p].op = "save"
      BY <3>1, <3>3 DEF MapsInv
    <3> QED
      BY <3>1, <3>2, <3>3 DEF Inv, StagedFromCurrent
  <2> QED
    BY <2>1, <2>2
<1> QED
  BY <1>1, InvHolds, MapsInvHolds, PTL DEF Spec, NeverRedefined

\* A drill-down replaces what lies at or below the drilled entry, and nothing
\* else (update_existing_snapshot reloads the map under the lock).
THEOREM DrillsReplaceSubtrees == Spec => DrillReplacesSubtree
<1>1. Inv /\ MapsInv /\ [Next]_vars =>
        [\A d \in Ids :
           Changed(d) =>
             \E p \in Procs :
               LET top == call[p].top
               IN  /\ lock = p /\ call[p].id = d
                   /\ top \in snap[d].entries \cap snap'[d].entries
                   /\ \A e \in snap[d].entries \ snap'[d].entries :
                        e.node \in Subtree(top.node)
                   /\ \A e \in snap'[d].entries :
                        e.node \in Subtree(top.node) /\ e.node > top.node
                          => e.ref > snap[d].counter]_vars
  <2> SUFFICES ASSUME Inv, MapsInv, [Next]_vars, NEW d \in Ids, Changed(d)
               PROVE  \E p \in Procs :
                        /\ lock = p /\ call[p].id = d
                        /\ call[p].top \in snap[d].entries \cap snap'[d].entries
                        /\ \A e \in snap[d].entries \ snap'[d].entries :
                             e.node \in Subtree(call[p].top.node)
                        /\ \A e \in snap'[d].entries :
                             e.node \in Subtree(call[p].top.node) /\ e.node > call[p].top.node
                               => e.ref > snap[d].counter
    OBVIOUS
  <2>1. PICK p \in Procs :
           /\ pc[p] = "staged" /\ call[p].op = "drill" /\ call[p].id = d
           /\ snap[d] \in RefMaps /\ WellNumbered(snap[d])
           /\ call[p].top \in snap[d].entries
           /\ call[p].observed \in SUBSET Subtree(call[p].top.node)
           /\ snap'[d] = AllocateRefs(RemoveByRootRef(snap[d], call[p].top),
                                      call[p].observed, call[p].top.ref)
    BY ChangedByDrill
  <2>2. lock = p
    BY <2>1 DEF Inv, LockOwner
  <2>3. /\ call[p].top \in snap'[d].entries
        /\ \A e \in snap[d].entries \ snap'[d].entries :
             e.node \in Subtree(call[p].top.node)
        /\ \A e \in snap'[d].entries :
             e.node \in Subtree(call[p].top.node) /\ e.node > call[p].top.node
               => e.ref > snap[d].counter
    BY <2>1, DrilledMap
  <2> QED
    BY <2>1, <2>2, <2>3
<1> QED
  BY <1>1, InvHolds, MapsInvHolds, PTL DEF Spec, DrillReplacesSubtree

-----------------------------------------------------------------------------
(* The directories an eviction chooses *)

\* Directories are compared by time, then by name: a total order.
LEMMA OlderIsTotal ==
  ASSUME NEW times \in [Ids -> Nat]
  PROVE  /\ \A d \in Ids : ~ Older(times, d, d)
         /\ \A d, e \in Ids : d = e \/ Older(times, d, e) \/ Older(times, e, d)
         /\ \A d, e, f \in Ids :
              Older(times, d, e) /\ Older(times, e, f) => Older(times, d, f)
<1>1. \A d \in Ids : d \in Nat /\ times[d] \in Nat
  BY BoundsAssumption DEF Ids
<1> QED
  BY <1>1 DEF Older

\* How many of a set of directories are older than d.
Age(times, old, d) == Cardinality({e \in old : Older(times, e, d)})

\* The older directories number each one, from none to all others.
LEMMA AgeIsRank ==
  ASSUME NEW times \in [Ids -> Nat], NEW old \in SUBSET Ids
  PROVE  /\ IsFiniteSet(old) /\ Cardinality(old) \in Nat
         /\ \A d \in old : Age(times, old, d) \in 0 .. Cardinality(old) - 1
         /\ \A d, e \in old : Older(times, d, e) => Age(times, old, d) < Age(times, old, e)
         /\ \A d, e \in old : Age(times, old, d) = Age(times, old, e) => d = e
<1> DEFINE lower(d) == {e \in old : Older(times, e, d)}
<1>1. IsFiniteSet(old) /\ Cardinality(old) \in Nat
  <2>1. IsFiniteSet(Ids)
    BY FS_Interval, BoundsAssumption DEF Ids
  <2> QED
    BY <2>1, FS_Subset, FS_CardinalityType
<1>2. ASSUME NEW d \in old
      PROVE  IsFiniteSet(lower(d)) /\ Cardinality(lower(d)) \in 0 .. Cardinality(old) - 1
  <2>1. lower(d) \in SUBSET old /\ d \notin lower(d)
    BY OlderIsTotal
  <2>2. IsFiniteSet(lower(d)) /\ Cardinality(lower(d)) \in Nat
    BY <1>1, <2>1, FS_Subset, FS_CardinalityType
  <2>3. Cardinality(lower(d)) <= Cardinality(old) /\ Cardinality(lower(d)) # Cardinality(old)
    BY <1>1, <2>1, FS_Subset
  <2> QED
    BY <1>1, <2>2, <2>3
<1>3. ASSUME NEW d \in old, NEW e \in old, Older(times, d, e)
      PROVE  Cardinality(lower(d)) < Cardinality(lower(e))
  <2>1. lower(d) \in SUBSET lower(e) /\ d \in lower(e) /\ d \notin lower(d)
    BY <1>3, OlderIsTotal
  <2>2. Cardinality(lower(d)) <= Cardinality(lower(e)) /\ Cardinality(lower(d)) # Cardinality(lower(e))
    BY <1>2, <2>1, FS_Subset
  <2>3. Cardinality(lower(d)) \in Nat /\ Cardinality(lower(e)) \in Nat
    BY <1>2, FS_CardinalityType
  <2> HIDE DEF lower
  <2> QED
    BY <2>2, <2>3
<1>4. \A d \in old : Age(times, old, d) = Cardinality(lower(d))
  BY DEF Age
<1> HIDE DEF lower
<1>5. \A d \in old : Age(times, old, d) \in 0 .. Cardinality(old) - 1
  BY <1>2, <1>4
<1>6. \A d, e \in old : Older(times, d, e) => Age(times, old, d) < Age(times, old, e)
  BY <1>3, <1>4
<1>7. \A d, e \in old : Age(times, old, d) = Age(times, old, e) => d = e
  <2>1. \A d, e \in old : d = e \/ Older(times, d, e) \/ Older(times, e, d)
    BY OlderIsTotal
  <2> QED
    BY <1>1, <1>5, <1>6, <2>1
<1> QED
  BY <1>1, <1>5, <1>6, <1>7

\* As many directories are chosen as were asked for, and every other one but
\* the spared one is newer than each of them.
LEMMA OldestAreChosen ==
  ASSUME NEW times \in [Ids -> Nat], NEW keep, NEW count \in Nat,
         count <= Cardinality({d \in Ids : times[d] > 0} \ {keep})
  PROVE  LET old == {d \in Ids : times[d] > 0} \ {keep}
             chosen == OldestBut(keep, times, count)
         IN  /\ chosen \subseteq old
             /\ Cardinality(chosen) = count
             /\ \A d \in chosen, e \in old \ chosen : Older(times, d, e)
<1> DEFINE old == {d \in Ids : times[d] > 0} \ {keep}
           chosen == OldestBut(keep, times, count)
           size == Cardinality(old)
           age(d) == Age(times, old, d)
           ages == [d \in old |-> age(d)]
<1>1. chosen = {d \in old : age(d) < count} /\ old \in SUBSET Ids
  BY DEF OldestBut, Age
<1> HIDE DEF old, chosen
<1>2. /\ IsFiniteSet(old) /\ size \in Nat
      /\ \A d \in old : age(d) \in 0 .. size - 1
      /\ \A d, e \in old : Older(times, d, e) => age(d) < age(e)
      /\ \A d, e \in old : age(d) = age(e) => d = e
  BY <1>1, AgeIsRank
<1> HIDE DEF age, size
<1>3. ages \in Injection(old, 0 .. size - 1)
  BY <1>2 DEF Injection, IsInjective
<1>4. IsFiniteSet(0 .. size - 1) /\ Cardinality(0 .. size - 1) = size
  BY <1>2, FS_Interval
<1>5. ages \in Surjection(old, 0 .. size - 1)
  <2> HIDE DEF ages
  <2> QED
    BY <1>2, <1>3, <1>4, FS_Injection DEF size
<1>6. \A k \in 0 .. size - 1 : \E d \in old : age(d) = k
  BY <1>5 DEF Surjection
<1> DEFINE few == [d \in chosen |-> age(d)]
<1>7. count <= size
  BY DEF size, old
<1>8. few \in Injection(chosen, 0 .. count - 1)
  BY <1>1, <1>2 DEF Injection, IsInjective
<1>9. few \in Surjection(chosen, 0 .. count - 1)
  <2>1. \A k \in 0 .. count - 1 : \E d \in chosen : age(d) = k
    BY <1>1, <1>2, <1>6, <1>7
  <2>2. few \in [chosen -> 0 .. count - 1]
    BY <1>8 DEF Injection
  <2> QED
    BY <2>1, <2>2 DEF Surjection
<1>10. IsFiniteSet(0 .. count - 1) /\ Cardinality(0 .. count - 1) = count
  BY FS_Interval
<1>11. Cardinality(chosen) = count
  <2> HIDE DEF few
  <2> QED
    BY <1>8, <1>9, <1>10, FS_Injection
<1>12. ASSUME NEW d \in chosen, NEW e \in old \ chosen PROVE Older(times, d, e)
  <2>1. age(d) < count /\ ~ (age(e) < count) /\ age(d) \in Nat /\ age(e) \in Nat /\ d \in old
    BY <1>1, <1>2
  <2>2. d # e /\ ~ (age(e) < age(d))
    BY <2>1
  <2>3. ~ Older(times, e, d)
    BY <1>2, <2>1, <2>2
  <2> QED
    BY <1>1, <2>1, <2>2, <2>3, OlderIsTotal
<1> QED
  BY <1>1, <1>11, <1>12 DEF old, chosen

-----------------------------------------------------------------------------
(* The directories there are *)

\* There are finitely many directories.
LEMMA DirsCount ==
  /\ IsFiniteSet(Dirs) /\ Cardinality(Dirs) \in Nat
  /\ IsFiniteSet(Dirs') /\ Cardinality(Dirs') \in Nat
  /\ MaxSaved \in Nat /\ LowWater \in Nat /\ LowWater >= 1 /\ LowWater <= MaxSaved
<1>1. IsFiniteSet(Ids)
  BY FS_Interval, BoundsAssumption DEF Ids
<1>2. Dirs \in SUBSET Ids /\ Dirs' \in SUBSET Ids
  BY DEF Dirs
<1>3. /\ MaxSaved \in Nat /\ LowWater \in Nat /\ LowWater >= 1 /\ LowWater <= MaxSaved
  BY BoundsAssumption
<1> QED
  BY <1>1, <1>2, <1>3, FS_Subset, FS_CardinalityType

\* Writing to directories creates those that are missing.
LEMMA TouchDirs ==
  ASSUME TypeOK, NEW ds \in SUBSET Ids, Touch(ds)
  PROVE  /\ Dirs' = Dirs \cup ds
         /\ \A d \in Ids \ ds : mtime'[d] = mtime[d]
         /\ \A d \in Ids : mtime[d] > 0 => mtime'[d] > 0
         /\ \A d \in ds : mtime'[d] > 0
<1>1. clock + 1 > 0 /\ \A d \in Ids : mtime'[d] = IF d \in ds THEN clock + 1 ELSE mtime[d]
  BY DEF TypeOK, Touch
<1> QED
  BY <1>1 DEF Dirs

\* A removal that stops half way leaves the same directories, and only the one
\* it was removing is modified.
LEMMA DismantleDirs ==
  ASSUME TypeOK, NEW d0 \in Dirs, Dismantle(d0)
  PROVE  /\ Dirs' = Dirs
         /\ \A d \in Ids \ {d0} : mtime'[d] = mtime[d]
         /\ \A d \in Ids : mtime'[d] > 0 <=> mtime[d] > 0
         /\ orphans' \subseteq orphans
         /\ \A d \in Ids : snap'[d] # NoMap => snap[d] # NoMap
<1>1. d0 \in Ids /\ {d0} \in SUBSET Ids /\ Touch({d0})
  BY DEF Dirs, Dismantle
<1>2. /\ Dirs' = Dirs
      /\ \A d \in Ids \ {d0} : mtime'[d] = mtime[d]
      /\ mtime'[d0] > 0 /\ mtime[d0] > 0
  BY <1>1, TouchDirs DEF Dirs
<1> QED
  BY <1>1, <1>2 DEF Dismantle, TypeOK

\* While a writer works nobody else stages, saves or evicts.
LEMMA OneWriter ==
  ASSUME Inv, NEW p \in Procs, pc[p] \notin {"idle", "want"}, NEW q \in Procs, q # p
  PROVE  pc[q] \notin Writing /\ ~ Saving(q) /\ pc[q] # "evicting"
BY OthersWait DEF Writing, Saving

\* A step outside the writing part that changes no directory.
LEMMA QuietKeepsRoom ==
  ASSUME RoomInv, TypeOK, NEW p \in Procs,
         UNCHANGED <<snap, mtime, orphans, faults>>,
         pc[p] \notin Writing, pc'[p] \notin Writing,
         \A q \in Procs : q # p => /\ pc'[q] = pc[q] /\ call'[q] = call[q]
                                   /\ victims'[q] = victims[q]
  PROVE  RoomInv'
<1>1. Dirs' = Dirs
  BY DEF Dirs
<1>2. FilesInDirs'
  BY <1>1 DEF RoomInv, FilesInDirs, Writing
<1>3. \A q \in Procs : Saving(q)' <=> Saving(q)
  BY DEF Saving, Writing
<1>4. ASSUME NEW q \in Procs, pc'[q] = "evicting" PROVE VictimsAreOldest(q)'
  <2>1. pc[q] = "evicting" /\ victims'[q] = victims[q]
    BY <1>4 DEF Writing
  <2>2. VictimsAreOldest(q)
    BY <2>1 DEF RoomInv
  <2> QED
    BY <1>1, <2>1, <2>2 DEF VictimsAreOldest
<1>5. ASSUME faults' = 0, NEW d \in Dirs'
      PROVE  snap'[d] # NoMap \/ \E q \in Procs : pc'[q] = "staged" /\ call'[q].id = d
  <2>1. CASE snap[d] # NoMap
    BY <2>1
  <2>2. CASE \E q \in Procs : pc[q] = "staged" /\ call[q].id = d
    BY <2>2 DEF Writing
  <2> QED
    BY <1>1, <1>5, <2>1, <2>2 DEF RoomInv
<1> QED
  BY <1>1, <1>2, <1>3, <1>4, <1>5 DEF RoomInv

\* Starting, waiting, refusing and reading change no directory.
LEMMA QuietActions ==
  ASSUME Inv, RoomInv, NEW p \in Procs,
         \/ Begin(p) \/ Acquire(p) \/ LockTimeout(p) \/ Release(p)
         \/ RefuseSave(p) \/ RefuseDrill(p) \/ Inventory(p)
  PROVE  RoomInv'
<1>1. UNCHANGED <<snap, mtime, orphans, faults>>
  BY DEF Begin, BeginSave, BeginDrill, BeginInventory, Start, Acquire, LockTimeout,
     Release, RefuseSave, RefuseDrill, Inventory, diskVars
<1>2. /\ pc[p] \notin Writing /\ pc'[p] \notin Writing
      /\ \A q \in Procs : q # p => /\ pc'[q] = pc[q] /\ call'[q] = call[q]
                                   /\ victims'[q] = victims[q]
  BY DEF Begin, BeginSave, BeginDrill, BeginInventory, Start, Acquire, LockTimeout,
     Release, RefuseSave, RefuseDrill, Inventory, Reset, Goto, Inv, TypeOK, Writing
<1> QED
  BY <1>1, <1>2, QuietKeepsRoom DEF Inv

\* A save makes the one directory that may be above the cap.
LEMMA StageSaveKeepsRoom ==
  ASSUME Inv, RoomInv, NEW p \in Procs, StageSave(p)
  PROVE  RoomInv'
<1>1. /\ nextId \in Ids /\ Touch({nextId}) /\ UNCHANGED <<snap, orphans, faults, victims>>
      /\ pc[p] = "held" /\ pc'[p] = "staged" /\ call'[p].id = nextId /\ call'[p].op = "save"
      /\ \A q \in Procs : q # p => pc'[q] = pc[q] /\ call'[q] = call[q]
  BY BoundsTypes DEF StageSave, Goto, Inv, TypeOK, Ids
<1>2. Dirs' = Dirs \cup {nextId} /\ \A d \in Ids : mtime[d] > 0 => mtime'[d] > 0
  BY <1>1, TouchDirs DEF Inv
<1>3. mtime'[nextId] > 0
  BY <1>1, <1>2 DEF Dirs
<1>4. \A q \in Procs : ~ Saving(q) /\ (q # p => pc[q] \notin Writing)
  BY <1>1, OneWriter DEF Saving
<1>5. FilesInDirs'
  BY <1>1, <1>2, <1>3, <1>4 DEF RoomInv, FilesInDirs, Writing
<1>6. Cardinality(Dirs') <= MaxSaved + 1 + faults'
  <2>1. Cardinality(Dirs') <= Cardinality(Dirs) + 1
    BY <1>2, DirsCount, FS_AddElement
  <2>2. Cardinality(Dirs) <= MaxSaved + faults /\ faults \in Nat
    BY <1>4, BoundsTypes DEF RoomInv, Inv, TypeOK
  <2> QED
    BY <1>1, <2>1, <2>2, DirsCount
<1>7. Saving(p)'
  BY <1>1 DEF Saving
<1>8. \A q \in Procs : pc'[q] # "evicting"
  BY <1>1, <1>4 DEF Writing
<1>9. ASSUME faults' = 0, NEW d \in Dirs'
      PROVE  snap'[d] # NoMap \/ \E q \in Procs : pc'[q] = "staged" /\ call'[q].id = d
  <2>1. CASE d = nextId
    BY <1>1, <2>1
  <2>2. CASE d \in Dirs
    BY <1>1, <1>4, <1>9, <2>2 DEF RoomInv, Writing
  <2> QED
    BY <1>2, <2>1, <2>2
<1> QED
  BY <1>5, <1>6, <1>7, <1>8, <1>9 DEF RoomInv

\* A drill-down and a rename write to a directory that is there.
LEMMA StageDrillKeepsRoom ==
  ASSUME Inv, RoomInv, NEW p \in Procs, StageDrill(p)
  PROVE  RoomInv'
<1> DEFINE d0 == call[p].id
<1>1. /\ Touch({d0}) /\ UNCHANGED <<snap, orphans, faults, victims, call>>
      /\ pc[p] = "held" /\ pc'[p] = "staged" /\ call[p].op = "drill"
      /\ call[p].top \in snap[d0].entries
      /\ \A q \in Procs : q # p => pc'[q] = pc[q]
  BY DEF StageDrill, Goto, Inv, TypeOK
<1>2. d0 \in Ids /\ call[p].top \in Entries
  BY <1>1, CallFields DEF Inv, TypeOK
<1>3. snap[d0] # NoMap
  BY <1>1, <1>2 DEF NoMap, NoEntry, Entries, Refs
<1>4. d0 \in Dirs
  BY <1>2, <1>3 DEF RoomInv, FilesInDirs, Dirs
<1> HIDE DEF d0
<1>5. Dirs' = Dirs /\ \A d \in Ids : mtime[d] > 0 => mtime'[d] > 0
  BY <1>1, <1>2, <1>4, TouchDirs DEF Inv
<1>6. \A q \in Procs : ~ Saving(q) /\ (q # p => pc[q] \notin Writing)
  BY <1>1, OneWriter DEF Saving
<1>7. FilesInDirs'
  <2>1. mtime'[call'[p].id] > 0
    BY <1>1, <1>4, <1>5 DEF Dirs, d0
  <2> QED
    BY <1>1, <1>5, <1>6, <2>1 DEF RoomInv, FilesInDirs, Writing
<1>8. Cardinality(Dirs') <= MaxSaved + faults'
  BY <1>1, <1>5, <1>6 DEF RoomInv
<1>9. Cardinality(Dirs') <= MaxSaved + 1 + faults'
  BY <1>1, <1>5 DEF RoomInv
<1>10. \A q \in Procs : pc'[q] # "evicting"
  BY <1>1, <1>6 DEF Writing
<1>11. ASSUME faults' = 0, NEW d \in Dirs'
       PROVE  snap'[d] # NoMap
  BY <1>1, <1>5, <1>6, <1>11 DEF RoomInv, Writing
<1> QED
  BY <1>7, <1>8, <1>9, <1>10, <1>11 DEF RoomInv

\* A rename that succeeds makes the directory readable; one that fails may
\* leave a directory above the cap, for one fault.
LEMMA RenameKeepsRoom ==
  ASSUME Inv, RoomInv, NEW p \in Procs, Publish(p) \/ FailPublish(p)
  PROVE  RoomInv'
<1> DEFINE d0 == call[p].id
<1>1. /\ Touch({d0}) /\ UNCHANGED <<orphans, victims, call>>
      /\ pc[p] = "staged" /\ pc'[p] \in {"published", "done"}
      /\ \A q \in Procs : q # p => pc'[q] = pc[q]
  BY DEF Publish, FailPublish, Goto, Inv, TypeOK
<1>2. d0 \in Ids /\ draft[p] # NoMap
  BY <1>1, StagedFile
<1>3. /\ \A d \in Ids \ {d0} : snap'[d] = snap[d]
      /\ Publish(p) => snap'[d0] # NoMap
  BY <1>2 DEF Publish, FailPublish, Inv, TypeOK
<1>4. d0 \in Dirs
  BY <1>1, <1>2 DEF RoomInv, FilesInDirs, Dirs
<1>5. \/ Publish(p) /\ faults' = faults
         /\ pc'[p] = IF call[p].op = "save" THEN "published" ELSE "done"
      \/ FailPublish(p) /\ faults' = faults + 1 /\ pc'[p] = "done"
  BY DEF Publish, FailPublish, Fault, Goto, Inv, TypeOK
<1>6. faults \in Nat /\ call[p].op \in {"save", "drill"}
  BY <1>1, BoundsTypes DEF Inv, TypeOK, StagedFromCurrent
<1> HIDE DEF d0
<1>7. Dirs' = Dirs /\ \A d \in Ids : mtime[d] > 0 => mtime'[d] > 0
  BY <1>1, <1>2, <1>4, TouchDirs DEF Inv
<1>8. \A q \in Procs : q # p => ~ Saving(q) /\ pc[q] \notin Writing
  BY <1>1, OneWriter
<1>9. FilesInDirs'
  <2>1. \A d \in Ids : snap'[d] # NoMap => mtime'[d] > 0
    BY <1>3, <1>4, <1>7 DEF RoomInv, FilesInDirs, Dirs
  <2>2. \A q \in Procs : pc'[q] # "staged"
    BY <1>1, <1>8 DEF Writing
  <2> QED
    BY <1>1, <1>7, <2>1, <2>2 DEF RoomInv, FilesInDirs
<1>10. Cardinality(Dirs') <= MaxSaved + 1 + faults'
  BY <1>5, <1>6, <1>7, DirsCount DEF RoomInv
<1>11. ASSUME \A q \in Procs : ~ Saving(q)'
       PROVE  Cardinality(Dirs') <= MaxSaved + faults'
  <2>1. CASE FailPublish(p) /\ faults' = faults + 1
    BY <1>6, <1>7, <2>1, DirsCount DEF RoomInv
  <2>2. CASE Publish(p) /\ faults' = faults /\ call[p].op = "save" /\ pc'[p] = "published"
    BY <1>11, <2>2 DEF Saving
  <2>3. CASE Publish(p) /\ faults' = faults /\ call[p].op = "drill"
    <3>1. \A q \in Procs : ~ Saving(q)
      BY <1>1, <1>8, <2>3 DEF Saving
    <3> QED
      BY <1>7, <2>3, <3>1 DEF RoomInv
  <2> QED
    BY <1>5, <1>6, <2>1, <2>2, <2>3
<1>12. \A q \in Procs : pc'[q] # "evicting"
  BY <1>1, <1>8 DEF Writing
<1>13. ASSUME faults' = 0, NEW d \in Dirs'
       PROVE  snap'[d] # NoMap
  <2>1. Publish(p) /\ faults = 0
    BY <1>5, <1>6, <1>13
  <2>2. d \in Ids /\ d \in Dirs
    BY <1>7 DEF Dirs
  <2>3. CASE d = d0
    BY <1>3, <2>1, <2>3
  <2>4. CASE d # d0
    <3>1. ~ \E q \in Procs : pc[q] = "staged" /\ call[q].id = d
      BY <1>8, <2>4 DEF Writing, d0
    <3> QED
      BY <1>3, <2>1, <2>2, <2>4, <3>1 DEF RoomInv
  <2> QED
    BY <2>3, <2>4
<1> QED
  BY <1>9, <1>10, <1>11, <1>12, <1>13 DEF RoomInv

\* The pointer is no directory; where it cannot be moved, no eviction follows.
LEMMA PointerKeepsRoom ==
  ASSUME Inv, RoomInv, NEW p \in Procs, SetLatest(p) \/ FailSetLatest(p)
  PROVE  RoomInv'
<1>1. /\ UNCHANGED <<snap, mtime, orphans, victims, call>>
      /\ pc[p] = "published" /\ pc'[p] \in {"advanced", "done"}
      /\ \A q \in Procs : q # p => pc'[q] = pc[q]
      /\ \/ pc'[p] = "advanced" /\ faults' = faults
         \/ faults' = faults + 1
  BY DEF SetLatest, FailSetLatest, Fault, Goto, Inv, TypeOK
<1>2. Dirs' = Dirs
  BY <1>1 DEF Dirs
<1>3. faults \in Nat
  BY BoundsTypes DEF Inv, TypeOK
<1>4. \A q \in Procs : q # p => ~ Saving(q) /\ pc[q] \notin Writing
  BY <1>1, OneWriter
<1>5. \A q \in Procs : pc'[q] # "evicting" /\ pc'[q] # "staged" /\ pc[q] # "staged"
  BY <1>1, <1>4 DEF Writing
<1>6. FilesInDirs'
  BY <1>1, <1>2, <1>5 DEF RoomInv, FilesInDirs
<1>7. Cardinality(Dirs') <= MaxSaved + 1 + faults'
  BY <1>1, <1>2, <1>3, DirsCount DEF RoomInv
<1>8. ASSUME \A q \in Procs : ~ Saving(q)'
      PROVE  Cardinality(Dirs') <= MaxSaved + faults'
  <2>1. faults' = faults + 1
    BY <1>1, <1>8 DEF Saving
  <2> QED
    BY <1>2, <1>3, <2>1, DirsCount DEF RoomInv
<1>9. ASSUME faults' = 0 PROVE \A d \in Dirs' : snap'[d] # NoMap
  BY <1>1, <1>2, <1>3, <1>5, <1>9 DEF RoomInv
<1> QED
  BY <1>5, <1>6, <1>7, <1>8, <1>9 DEF RoomInv

\* An eviction leaves LowWater directories: the newest ones and its own.
LEMMA PruneKeepsRoom ==
  ASSUME Inv, RoomInv, NEW p \in Procs, Prune(p)
  PROVE  RoomInv'
<1> DEFINE d0 == call[p].id
<1>1. /\ UNCHANGED <<snap, call, faults>>
      /\ pc[p] = "advanced" /\ pc'[p] \in {"evicting", "done"}
      /\ \A q \in Procs : q # p => pc'[q] = pc[q]
  BY DEF Prune, Goto, Inv, TypeOK
<1>2. faults \in Nat /\ mtime \in [Ids -> Nat] /\ orphans \subseteq Dirs
  BY BoundsTypes DEF Inv, TypeOK, RoomInv, FilesInDirs
<1>3. \A q \in Procs : q # p => ~ Saving(q) /\ pc[q] \notin Writing
  BY <1>1, OneWriter
<1>4. \A q \in Procs : pc'[q] # "staged" /\ pc[q] # "staged" /\ (q # p => pc'[q] # "evicting")
  BY <1>1, <1>3 DEF Writing
<1>5. d0 \in Ids /\ snap[d0] # NoMap
  BY <1>1 DEF Inv, TypeOK, Writing, VictimsSpareLatest, LatestReadable, Ids
<1>6. d0 \in Dirs
  BY <1>5 DEF RoomInv, FilesInDirs, Dirs
<1> HIDE DEF d0
<1>7. CASE ~ OverCap
  <2>1. UNCHANGED <<mtime, orphans>> /\ pc'[p] = "done"
    BY <1>7 DEF Prune, Goto, Inv, TypeOK
  <2>2. Dirs' = Dirs
    BY <2>1 DEF Dirs
  <2>3. FilesInDirs'
    BY <1>1, <1>4, <2>1, <2>2 DEF RoomInv, FilesInDirs
  <2>4. Cardinality(Dirs') <= MaxSaved + faults'
    BY <1>1, <1>2, <1>7, <2>2, DirsCount DEF OverCap
  <2>5. Cardinality(Dirs') <= MaxSaved + 1 + faults'
    BY <1>1, <2>2 DEF RoomInv
  <2>6. ASSUME faults' = 0 PROVE \A d \in Dirs' : snap'[d] # NoMap
    BY <1>1, <1>4, <2>2, <2>6 DEF RoomInv
  <2> QED
    BY <1>4, <2>1, <2>3, <2>4, <2>5, <2>6 DEF RoomInv
<1>8. CASE OverCap
  <2>1. PICK swept \in SUBSET orphans :
          /\ IF swept = {} THEN UNCHANGED <<mtime, clock>> ELSE Touch(swept)
          /\ orphans' = orphans \ swept
          /\ victims' = [victims EXCEPT ![p] =
               OldestBut(call[p].id, mtime', Cardinality(Dirs) - LowWater)]
          /\ Goto(p, "evicting")
    BY <1>8 DEF Prune
  <2>2. Dirs' = Dirs
    <3>1. CASE swept = {}
      BY <2>1, <3>1 DEF Dirs
    <3>2. CASE swept # {}
      <4>1. swept \in SUBSET Ids /\ swept \subseteq Dirs
        BY <1>2 DEF Dirs
      <4> QED
        BY <2>1, <3>2, <4>1, TouchDirs DEF Inv
    <3> QED
      BY <3>1, <3>2
  <2>3. mtime' \in [Ids -> Nat]
    BY NextTypeOK, <1>2, <2>1, TouchType DEF Inv, TypeOK
  <2> DEFINE old == {d \in Ids : mtime'[d] > 0} \ {d0}
             count == Cardinality(Dirs) - LowWater
  <2>4. old = Dirs \ {d0}
    BY <2>2 DEF Dirs
  <2>5. Cardinality(old) = Cardinality(Dirs) - 1
    BY <1>6, <2>4, DirsCount, FS_RemoveElement
  <2>6. count \in Nat /\ count <= Cardinality(old)
    BY <1>8, <2>5, DirsCount DEF OverCap
  <2>7. pc'[p] = "evicting" /\ victims'[p] = OldestBut(d0, mtime', count)
    BY <2>1 DEF Goto, d0, Inv, TypeOK
  <2> HIDE DEF count
  <2>8. /\ victims'[p] \subseteq old
        /\ Cardinality(victims'[p]) = count
        /\ \A d \in victims'[p], e \in old \ victims'[p] : Older(mtime', d, e)
    BY <2>3, <2>6, <2>7, OldestAreChosen
  <2> HIDE DEF old
  <2> DEFINE kept == Dirs' \ victims'[p]
             spared == old \ victims'[p]
  <2>9. kept = Dirs \ victims'[p] /\ Dirs \cap victims'[p] = victims'[p]
    BY <2>2, <2>4, <2>8
  <2>10. Cardinality(kept) = LowWater
    <3>1. Cardinality(kept) = Cardinality(Dirs) - Cardinality(victims'[p])
      BY <2>9, DirsCount, FS_Difference
    <3> QED
      BY <2>8, <3>1, DirsCount DEF count
  <2>11. IsFiniteSet(kept) /\ IsFiniteSet(old)
    BY <2>4, <2>9, DirsCount, FS_Difference
  <2>12. Cardinality(spared) = LowWater - 1
    <3>1. old \cap victims'[p] = victims'[p]
      BY <2>8
    <3>2. Cardinality(spared) = Cardinality(old) - Cardinality(victims'[p])
      BY <2>11, <3>1, FS_Difference
    <3> QED
      BY <2>5, <2>8, <3>2, DirsCount DEF count
  <2>13. ASSUME NEW d \in victims'[p]
         PROVE  Cardinality({e \in kept : Older(mtime', d, e)}) >= LowWater - 1
    <3> DEFINE newer == {e \in kept : Older(mtime', d, e)}
    <3>1. spared \in SUBSET newer
      BY <2>4, <2>8, <2>9
    <3>2. IsFiniteSet(newer) /\ newer \in SUBSET kept
      BY <2>11, FS_Subset, newer \in SUBSET kept
    <3>3. Cardinality(spared) <= Cardinality(newer) /\ Cardinality(newer) \in Nat
      BY <3>1, <3>2, FS_Subset, FS_CardinalityType
    <3> HIDE DEF newer, spared
    <3>4. Cardinality(newer) >= LowWater - 1
      BY <2>12, <3>3, DirsCount
    <3> QED
      BY <3>4 DEF newer
  <2>14. victims'[p] \subseteq Dirs'
    BY <2>2, <2>4, <2>8
  <2>15. VictimsAreOldest(p)'
    <3>1. Cardinality(kept) \in LowWater .. MaxSaved + faults'
      BY <1>1, <1>2, <2>10, DirsCount
    <3> QED
      BY <2>13, <2>14, <3>1 DEF VictimsAreOldest
  <2>16. FilesInDirs'
    BY <1>1, <1>4, <2>1, <2>2 DEF RoomInv, FilesInDirs, Dirs
  <2>17. Saving(p)'
    BY <2>7 DEF Saving
  <2>18. Cardinality(Dirs') <= MaxSaved + 1 + faults'
    BY <1>1, <2>2 DEF RoomInv
  <2>19. ASSUME faults' = 0 PROVE \A d \in Dirs' : snap'[d] # NoMap
    BY <1>1, <1>4, <2>2, <2>19 DEF RoomInv
  <2> QED
    BY <1>4, <2>15, <2>16, <2>17, <2>18, <2>19 DEF RoomInv
<1> QED
  BY <1>7, <1>8

\* Removing a victim leaves what the eviction was to leave.
LEMMA EvictKeepsRoom ==
  ASSUME Inv, RoomInv, NEW p \in Procs, Evict(p)
  PROVE  RoomInv'
<1>1. PICK d0 \in victims[p] :
        /\ Forget(d0)
        /\ victims' = [victims EXCEPT ![p] = @ \ {d0}]
        /\ Goto(p, IF victims[p] = {d0} THEN "done" ELSE "evicting")
  BY DEF Evict
<1>2. /\ UNCHANGED <<call, faults>>
      /\ pc[p] = "evicting"
      /\ pc'[p] = IF victims[p] = {d0} THEN "done" ELSE "evicting"
      /\ victims'[p] = victims[p] \ {d0}
      /\ \A q \in Procs : q # p => pc'[q] = pc[q]
  BY <1>1 DEF Evict, Goto, Inv, TypeOK
<1>3. /\ victims[p] \subseteq Dirs
      /\ Cardinality(Dirs \ victims[p]) \in LowWater .. MaxSaved + faults
      /\ \A d \in victims[p] :
           Cardinality({e \in Dirs \ victims[p] : Older(mtime, d, e)}) >= LowWater - 1
  BY <1>2 DEF RoomInv, VictimsAreOldest
<1>4. d0 \in Ids /\ d0 \in Dirs
  BY <1>3 DEF Dirs
<1>5. /\ \A d \in Ids : d # d0 => snap'[d] = snap[d] /\ mtime'[d] = mtime[d]
      /\ snap'[d0] = NoMap /\ mtime'[d0] = 0 /\ orphans' = orphans \ {d0}
  BY <1>1, <1>4 DEF Forget, Inv, TypeOK
<1>6. Dirs' = Dirs \ {d0}
  <2>1. \A d \in Ids : mtime'[d] > 0 <=> mtime[d] > 0 /\ d # d0
    BY <1>5
  <2> QED
    BY <2>1 DEF Dirs
<1>7. Dirs' \ victims'[p] = Dirs \ victims[p]
  BY <1>1, <1>2, <1>6
<1>8. \A q \in Procs : q # p => ~ Saving(q) /\ pc[q] \notin Writing
  BY <1>2, OneWriter
<1>9. \A q \in Procs : pc'[q] # "staged" /\ pc[q] # "staged" /\ (q # p => pc'[q] # "evicting")
  BY <1>2, <1>8 DEF Writing
<1>10. FilesInDirs'
  BY <1>5, <1>6, <1>9 DEF RoomInv, FilesInDirs
<1>11. faults \in Nat
  BY BoundsTypes DEF Inv, TypeOK
<1>12. Cardinality(Dirs') <= MaxSaved + 1 + faults'
  <2>1. Cardinality(Dirs') <= Cardinality(Dirs)
    BY <1>6, DirsCount, FS_Subset
  <2>2. Cardinality(Dirs) <= MaxSaved + 1 + faults
    BY DEF RoomInv
  <2> QED
    BY <1>2, <1>11, <2>1, <2>2, DirsCount
<1>13. ASSUME \A q \in Procs : ~ Saving(q)'
       PROVE  Cardinality(Dirs') <= MaxSaved + faults'
  <2>1. victims[p] = {d0}
    BY <1>2, <1>13 DEF Saving
  <2>2. Dirs' = Dirs \ victims[p]
    BY <1>6, <2>1
  <2> QED
    BY <1>2, <1>3, <1>11, <2>2, DirsCount
<1>14. ASSUME pc'[p] = "evicting" PROVE VictimsAreOldest(p)'
  <2>1. victims'[p] \subseteq Dirs'
    BY <1>2, <1>3, <1>6
  <2>2. ASSUME NEW d \in victims'[p]
        PROVE  Cardinality({e \in Dirs' \ victims'[p] : Older(mtime', d, e)}) >= LowWater - 1
    <3>1. d \in victims[p] /\ d # d0 /\ d \in Ids
      BY <1>2, <1>3 DEF Dirs
    <3>2. \A e \in Dirs \ victims[p] : e \in Ids /\ e # d0
      BY <1>1 DEF Dirs
    <3>3. \A e \in Dirs \ victims[p] : Older(mtime', d, e) <=> Older(mtime, d, e)
      BY <1>5, <3>1, <3>2 DEF Older
    <3>4. {e \in Dirs' \ victims'[p] : Older(mtime', d, e)} =
            {e \in Dirs \ victims[p] : Older(mtime, d, e)}
      BY <1>7, <3>3
    <3> QED
      BY <1>3, <3>1, <3>4
  <2> QED
    BY <1>2, <1>3, <1>7, <2>1, <2>2 DEF VictimsAreOldest
<1>15. ASSUME faults' = 0, NEW d \in Dirs' PROVE snap'[d] # NoMap
  <2>1. d \in Dirs /\ d # d0 /\ d \in Ids
    BY <1>6 DEF Dirs
  <2> QED
    BY <1>2, <1>5, <1>9, <1>15, <2>1 DEF RoomInv
<1> QED
  BY <1>9, <1>10, <1>12, <1>13, <1>14, <1>15 DEF RoomInv

\* A victim that cannot be removed stays above the cap, for one fault.
LEMMA FailEvictKeepsRoom ==
  ASSUME Inv, RoomInv, NEW p \in Procs, FailEvict(p)
  PROVE  RoomInv'
<1>1. PICK d0 \in victims[p] :
        /\ Dismantle(d0) \/ UNCHANGED <<snap, mtime, orphans, clock>>
        /\ victims' = [victims EXCEPT ![p] = @ \ {d0}]
        /\ Goto(p, IF victims[p] = {d0} THEN "done" ELSE "evicting")
  BY DEF FailEvict
<1>2. /\ UNCHANGED call /\ faults' = faults + 1
      /\ pc[p] = "evicting" /\ pc'[p] \in {"evicting", "done"}
      /\ pc'[p] = "done" => victims[p] = {d0}
      /\ victims'[p] = victims[p] \ {d0}
      /\ \A q \in Procs : q # p => pc'[q] = pc[q]
  BY <1>1 DEF FailEvict, Fault, Goto, Inv, TypeOK
<1>3. /\ victims[p] \subseteq Dirs
      /\ Cardinality(Dirs \ victims[p]) \in LowWater .. MaxSaved + faults
      /\ \A d \in victims[p] :
           Cardinality({e \in Dirs \ victims[p] : Older(mtime, d, e)}) >= LowWater - 1
  BY <1>2 DEF RoomInv, VictimsAreOldest
<1>4. /\ Dirs' = Dirs
      /\ \A d \in Ids \ {d0} : mtime'[d] = mtime[d]
      /\ orphans' \subseteq orphans
      /\ \A d \in Ids : snap'[d] # NoMap => snap[d] # NoMap
  <2>1. d0 \in Dirs /\ d0 \in Ids
    BY <1>1, <1>3 DEF Dirs
  <2> QED
    BY <1>1, <2>1, DismantleDirs DEF Dirs, Inv, TypeOK
<1>5. faults \in Nat
  BY BoundsTypes DEF Inv, TypeOK
<1> DEFINE kept == Dirs \ victims[p]
           kept2 == Dirs' \ victims'[p]
<1>6. kept2 = kept \cup {d0} /\ d0 \notin kept
  BY <1>1, <1>2, <1>3, <1>4
<1>7. IsFiniteSet(kept) /\ IsFiniteSet(kept2)
  BY <1>6, DirsCount, FS_Difference, FS_AddElement
<1>8. Cardinality(kept2) = Cardinality(kept) + 1
  BY <1>6, <1>7, FS_AddElement
<1>9. Cardinality(kept2) \in LowWater .. MaxSaved + faults'
  <2>1. Cardinality(kept) \in LowWater .. MaxSaved + faults
    BY <1>3
  <2> HIDE DEF kept, kept2
  <2> QED
    BY <1>2, <1>5, <1>8, <2>1, DirsCount
<1>10. \A q \in Procs : q # p => ~ Saving(q) /\ pc[q] \notin Writing
  BY <1>2, OneWriter
<1>11. \A q \in Procs : pc'[q] # "staged" /\ (q # p => pc'[q] # "evicting")
  BY <1>2, <1>10 DEF Writing
<1>12. FilesInDirs'
  <2>1. \A d \in Ids : mtime'[d] > 0 <=> mtime[d] > 0
    BY <1>4 DEF Dirs
  <2> QED
    BY <1>2, <1>4, <1>11, <2>1 DEF RoomInv, FilesInDirs
<1>13. Cardinality(Dirs') <= MaxSaved + 1 + faults'
  BY <1>2, <1>4, <1>5, DirsCount DEF RoomInv
<1>14. ASSUME \A q \in Procs : ~ Saving(q)'
       PROVE  Cardinality(Dirs') <= MaxSaved + faults'
  <2>1. pc'[p] = "done"
    BY <1>2, <1>14 DEF Saving
  <2>2. kept2 = Dirs'
    BY <1>2, <2>1
  <2>3. Cardinality(Dirs') \in LowWater .. MaxSaved + faults'
    BY <1>9, <2>2
  <2> QED
    BY <1>2, <1>5, <2>3, DirsCount
<1>15. VictimsAreOldest(p)'
  <2>1. ASSUME NEW d \in victims'[p]
        PROVE  Cardinality({e \in kept2 : Older(mtime', d, e)}) >= LowWater - 1
    <3> DEFINE newer == {e \in kept : Older(mtime, d, e)}
               newer2 == {e \in kept2 : Older(mtime', d, e)}
    <3>0. d # d0 /\ d \in Ids /\ \A e \in kept : e # d0 /\ e \in Ids
      BY <1>2, <1>3, <1>6, <2>1 DEF Dirs
    <3>1. newer \in SUBSET newer2 /\ newer2 \in SUBSET kept2
      BY <1>4, <1>6, <3>0 DEF Older
    <3>2. IsFiniteSet(newer2) /\ IsFiniteSet(newer)
      BY <1>7, <3>1, FS_Subset
    <3>3. Cardinality(newer) <= Cardinality(newer2) /\ Cardinality(newer2) \in Nat
          /\ Cardinality(newer) \in Nat
      BY <3>1, <3>2, FS_Subset, FS_CardinalityType
    <3>4. Cardinality(newer) >= LowWater - 1
      BY <1>2, <1>3
    <3> HIDE DEF newer, newer2
    <3>5. Cardinality(newer2) >= LowWater - 1
      BY <3>3, <3>4, DirsCount
    <3> QED
      BY <3>5 DEF newer2
  <2>2. victims'[p] \subseteq Dirs'
    BY <1>2, <1>3, <1>4
  <2> QED
    BY <1>9, <2>1, <2>2 DEF VictimsAreOldest
<1>16. faults' # 0
  BY <1>2, <1>5
<1> QED
  BY <1>11, <1>12, <1>13, <1>14, <1>15, <1>16 DEF RoomInv

\* What a process that dies leaves behind costs one fault.
LEMMA CrashKeepsRoom ==
  ASSUME Inv, RoomInv, NEW p \in Procs, Crash(p)
  PROVE  RoomInv'
<1>1. /\ faults' = faults + 1
      /\ pc'[p] = "idle"
      /\ \A q \in Procs : q # p => /\ pc'[q] = pc[q] /\ call'[q] = call[q]
                                   /\ victims'[q] = victims[q]
  BY DEF Crash, Fault, Reset, Goto, Inv, TypeOK
<1>2. \/ /\ orphans' = IF pc[p] = "staged" THEN orphans \cup {call[p].id} ELSE orphans
         /\ UNCHANGED <<snap, mtime>>
      \/ pc[p] = "evicting" /\ \E d \in victims[p] : Dismantle(d)
  BY DEF Crash, Inv, VictimsSpareLatest
<1>3. /\ Dirs' = Dirs
      /\ \A d \in Ids : mtime'[d] > 0 <=> mtime[d] > 0
      /\ \A d \in Ids : snap'[d] # NoMap => snap[d] # NoMap
  <2>1. CASE UNCHANGED <<snap, mtime>>
    BY <2>1 DEF Dirs
  <2>2. CASE pc[p] = "evicting" /\ \E d \in victims[p] : Dismantle(d)
    <3>1. victims[p] \subseteq Dirs
      BY <2>2 DEF RoomInv, VictimsAreOldest
    <3> QED
      BY <2>2, <3>1, DismantleDirs DEF Dirs, Inv
  <2> QED
    BY <1>2, <2>1, <2>2
<1>4. faults \in Nat /\ faults' # 0
  BY <1>1, BoundsTypes DEF Inv, TypeOK
<1>5. FilesInDirs'
  <2>1. orphans' \subseteq Dirs'
    <3>1. orphans' \subseteq orphans \cup {call[p].id}
          /\ (orphans' \subseteq orphans \/ pc[p] = "staged")
      BY <1>2 DEF Dismantle
    <3> QED
      BY <1>3, <3>1 DEF RoomInv, FilesInDirs, Inv, TypeOK, Writing, Dirs
  <2>2. \A q \in Procs : pc'[q] = "staged" => mtime'[call'[q].id] > 0
    BY <1>1, <1>3 DEF RoomInv, FilesInDirs, Inv, TypeOK, Writing
  <2> QED
    BY <1>1, <1>3, <2>1, <2>2 DEF RoomInv, FilesInDirs
<1>6. Cardinality(Dirs') <= MaxSaved + faults' /\ Cardinality(Dirs') <= MaxSaved + 1 + faults'
  BY <1>1, <1>3, <1>4, DirsCount DEF RoomInv
<1>7. ASSUME NEW q \in Procs, pc'[q] = "evicting" PROVE VictimsAreOldest(q)'
  <2>1. q # p /\ pc[q] = "evicting" /\ victims'[q] = victims[q]
    BY <1>1, <1>7
  <2>2. /\ victims[q] \subseteq Dirs
        /\ Cardinality(Dirs \ victims[q]) \in LowWater .. MaxSaved + faults
        /\ \A d \in victims[q] :
             Cardinality({e \in Dirs \ victims[q] : Older(mtime, d, e)}) >= LowWater - 1
    BY <2>1 DEF RoomInv, VictimsAreOldest
  <2>3. Cardinality(Dirs \ victims[q]) \in LowWater .. MaxSaved + faults'
    BY <1>1, <1>4, <2>2, DirsCount
  <2>4. UNCHANGED mtime
    <3>1. pc[p] # "evicting"
      BY <2>1, OneWriter
    <3> QED
      BY <1>2, <3>1
  <2> QED
    BY <1>1, <1>3, <2>1, <2>2, <2>3, <2>4 DEF VictimsAreOldest
<1> QED
  BY <1>4, <1>5, <1>6, <1>7 DEF RoomInv

LEMMA StutterKeepsRoom ==
  ASSUME RoomInv, UNCHANGED vars
  PROVE  RoomInv'
<1>1. UNCHANGED <<pc, call, victims, snap, mtime, orphans, faults>>
  BY DEF vars, procVars, diskVars
<1>2. Dirs' = Dirs
  BY <1>1 DEF Dirs
<1>3. \A q \in Procs : Saving(q)' <=> Saving(q)
  BY <1>1 DEF Saving
<1>4. ASSUME NEW q \in Procs, pc[q] = "evicting" PROVE VictimsAreOldest(q)'
  <2>1. VictimsAreOldest(q)
    BY <1>4 DEF RoomInv
  <2> QED
    BY <1>1, <1>2, <2>1 DEF VictimsAreOldest
<1>5. FilesInDirs'
  BY <1>1, <1>2 DEF RoomInv, FilesInDirs
<1> QED
  BY <1>1, <1>2, <1>3, <1>4, <1>5 DEF RoomInv

\* The room an eviction makes is kept by every step.
THEOREM RoomInvHolds == Spec => []RoomInv
<1>1. Init => RoomInv
  <2> SUFFICES ASSUME Init PROVE RoomInv
    OBVIOUS
  <2>1. Dirs = {} /\ Cardinality(Dirs) = 0 /\ faults = 0
    <3>1. \A d \in Ids : ~ (mtime[d] > 0)
      BY DEF Init
    <3>2. Dirs = {}
      BY <3>1 DEF Dirs
    <3> QED
      BY <3>2, FS_EmptySet DEF Init
  <2>2. FilesInDirs
    BY DEF Init, FilesInDirs
  <2>3. \A q \in Procs : pc[q] = "idle"
    BY DEF Init
  <2> QED
    BY <2>1, <2>2, <2>3, DirsCount DEF RoomInv
<1>2. Inv /\ RoomInv /\ [Next]_vars => RoomInv'
  <2> SUFFICES ASSUME Inv, RoomInv, [Next]_vars PROVE RoomInv'
    OBVIOUS
  <2>1. ASSUME NEW p \in Procs, Begin(p) \/ Work(p) \/ Break(p) PROVE RoomInv'
    BY <2>1, QuietActions, StageSaveKeepsRoom, StageDrillKeepsRoom, RenameKeepsRoom,
       PointerKeepsRoom, PruneKeepsRoom, EvictKeepsRoom, FailEvictKeepsRoom, CrashKeepsRoom
    DEF Work, Break
  <2> QED
    BY <2>1, StutterKeepsRoom DEF Next
<1> QED
  BY <1>1, <1>2, InvHolds, PTL DEF Spec

\* Interrupted saves leave one directory each above the cap at most
\* (write_atomic creates the directory before its file).
THEOREM LeftoversStayBounded == Spec => []LeftoversBounded
<1>1. RoomInv => LeftoversBounded
  BY DEF RoomInv, LeftoversBounded
<1> QED
  BY <1>1, RoomInvHolds, PTL

\* retained_object_tokens finds every directory readable and the cap observed
\* as long as nothing has died or failed.
THEOREM InventoryIsComplete == Spec => []InventoryComplete
<1>1. Inv /\ RoomInv => InventoryComplete
  <2> SUFFICES ASSUME Inv, RoomInv, NEW p \in Procs, pc[p] = "held", faults = 0
               PROVE  /\ \A d \in Dirs : snap[d] # NoMap
                      /\ Cardinality(Dirs) <= MaxSaved
    BY DEF InventoryComplete
  <2>1. \A q \in Procs : ~ Saving(q) /\ pc[q] # "staged"
    BY OneWriter DEF Saving, Writing
  <2> QED
    BY <2>1, DirsCount DEF RoomInv
<1> QED
  BY <1>1, InvHolds, RoomInvHolds, PTL

\* prune_old_snapshots_unlocked removes the oldest directories, never the latest, and
\* leaves LowWater of them.
THEOREM OldestAreEvicted == Spec => EvictsOldest
<1>1. Inv /\ RoomInv /\ [Next]_vars =>
        [\A d \in Dirs :
           d \notin Dirs' =>
             /\ Cardinality(Dirs') >= LowWater
             /\ Cardinality({e \in Dirs' : Older(mtime, d, e)}) >= LowWater - 1
             /\ d # latest]_vars
  <2> SUFFICES ASSUME Inv, RoomInv, [Next]_vars, NEW d \in Dirs, d \notin Dirs'
               PROVE  /\ Cardinality(Dirs') >= LowWater
                      /\ Cardinality({e \in Dirs' : Older(mtime, d, e)}) >= LowWater - 1
                      /\ d # latest
    OBVIOUS
  <2>1. d \in Ids /\ mtime[d] > 0 /\ ~ (mtime'[d] > 0)
    BY DEF Dirs
  <2>2. ASSUME NEW ds \in SUBSET Ids PROVE ~ Touch(ds)
    BY <2>1, TouchDirs DEF Inv
  <2>3. mtime' # mtime
    BY <2>1
  <2>4. PICK p \in Procs : Evict(p)
    <3>1. ASSUME NEW p \in Procs, StageSave(p) \/ StageDrill(p) \/ Publish(p) \/ FailPublish(p)
          PROVE  FALSE
      <4>1. CASE StageSave(p)
        <5>1. nextId \in Ids /\ Touch({nextId})
          BY <4>1, BoundsTypes DEF StageSave, Inv, TypeOK, Ids
        <5> QED
          BY <5>1, <2>2
      <4>2. CASE StageDrill(p) \/ Publish(p) \/ FailPublish(p)
        <5>1. Touch({call[p].id})
          BY <4>2 DEF StageDrill, Publish, FailPublish
        <5>2. call[p].id \in Ids
          BY <4>2, CallFields DEF StageDrill, Publish, FailPublish, Inv, TypeOK, Writing
        <5> QED
          BY <5>1, <5>2, <2>2
      <4> QED
        BY <3>1, <4>1, <4>2
    <3>2. ASSUME NEW p \in Procs, Prune(p) PROVE FALSE
      BY <3>2, <2>2, <2>3 DEF Prune, Inv, TypeOK
    <3>3. ASSUME NEW p \in Procs,
                 \/ Begin(p) \/ Acquire(p) \/ LockTimeout(p) \/ Release(p) \/ RefuseSave(p)
                 \/ SetLatest(p) \/ RefuseDrill(p) \/ Inventory(p)
                 \/ FailSetLatest(p)
          PROVE  mtime' = mtime
      BY <3>3 DEF Begin, BeginSave, BeginDrill, BeginInventory, Start, Acquire, LockTimeout,
         Release, RefuseSave, SetLatest, RefuseDrill, Inventory, FailSetLatest,
         diskVars
    <3>4. ASSUME UNCHANGED vars PROVE mtime' = mtime
      BY <3>4 DEF vars, diskVars
    <3>5. ASSUME NEW p \in Procs, FailEvict(p) \/ Crash(p) PROVE mtime' = mtime \/ Dirs' = Dirs
      <4>1. mtime' = mtime \/ \E d0 \in victims[p] : Dismantle(d0) /\ pc[p] = "evicting"
        BY <3>5 DEF FailEvict, Crash, Inv, VictimsSpareLatest
      <4> QED
        BY <4>1, DismantleDirs DEF RoomInv, VictimsAreOldest, Inv
    <3> QED
      BY <2>2, <2>3, <3>1, <3>2, <3>3, <3>4, <3>5 DEF Next, Work, Break
  <2>5. PICK d0 \in victims[p] : Forget(d0) /\ pc[p] = "evicting"
    BY <2>4 DEF Evict
  <2>6. d0 \in Ids /\ VictimsAreOldest(p)
    BY <2>5 DEF Inv, TypeOK, RoomInv
  <2>7. /\ \A e \in Ids : e # d0 => mtime'[e] = mtime[e]
        /\ d = d0
    BY <2>1, <2>5 DEF Forget
  <2> DEFINE kept == Dirs \ victims[p]
             newer == {e \in kept : Older(mtime, d, e)}
             newer2 == {e \in Dirs' : Older(mtime, d, e)}
  <2>8. kept \in SUBSET Dirs' /\ newer \in SUBSET newer2 /\ newer2 \in SUBSET Dirs'
    BY <2>5, <2>7 DEF Dirs
  <2>9. /\ Cardinality(kept) \in Nat /\ Cardinality(kept) >= LowWater
        /\ Cardinality(newer) >= LowWater - 1
    BY <2>5, <2>6, <2>7, DirsCount DEF VictimsAreOldest
  <2>10. IsFiniteSet(newer2) /\ IsFiniteSet(newer)
    BY <2>8, DirsCount, FS_Subset
  <2>11. /\ Cardinality(newer) \in Nat /\ Cardinality(newer2) \in Nat
         /\ Cardinality(newer) <= Cardinality(newer2)
         /\ Cardinality(kept) <= Cardinality(Dirs')
    BY <2>8, <2>10, DirsCount, FS_Subset, FS_CardinalityType
  <2> HIDE DEF kept, newer, newer2
  <2>12. Cardinality(Dirs') >= LowWater /\ Cardinality(newer2) >= LowWater - 1
    BY <2>9, <2>11, DirsCount
  <2>13. d # latest
    BY <2>5, <2>7 DEF Inv, VictimsSpareLatest
  <2> QED
    BY <2>12, <2>13 DEF newer2
<1> QED
  BY <1>1, InvHolds, RoomInvHolds, PTL DEF Spec, EvictsOldest
=============================================================================
