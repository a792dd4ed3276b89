------------------------------- MODULE RefMap -------------------------------
(***************************************************************************)
(* The map from refs (@e1, @e2, ...) to elements that one snapshot holds:  *)
(* crates/core/src/refs.rs, and the numbering done by ref_alloc.rs.        *)
(*                                                                         *)
(* A node of the accessibility tree is its pre-order number; the nodes at  *)
(* or below n are n .. LastBelow[n], which is what "path starts with" says *)
(* of two paths in the code.  An entry is represented by where its element *)
(* is and by the ref it was drilled from: the code never edits an entry,   *)
(* so nothing else about it matters to who may drop it.                    *)
(***************************************************************************)
EXTENDS Naturals, FiniteSets

CONSTANTS
  Nodes,       \* pre-order numbers of the accessibility tree
  LastBelow,   \* the last node of the subtree of each node
  MaxRefs      \* refs one snapshot can hold (1 MiB file, u32 counter)

ASSUME TreeAssumption ==
  /\ MaxRefs \in Nat \ {0}
  /\ Nodes \subseteq Nat /\ IsFiniteSet(Nodes)
  /\ LastBelow \in [Nodes -> Nodes]
  /\ \A n \in Nodes : n <= LastBelow[n]

Refs == 1 .. MaxRefs
Subtree(n) == {m \in Nodes : n <= m /\ m <= LastBelow[n]}

\* root is the ref whose drill-down allocated the entry, 0 for an entry of the
\* snapshot itself (scope.root_ref and scope.path_is_absolute).
Entries == [ref : Refs, node : Nodes, root : Refs \cup {0}]
NoEntry == [ref |-> 0, node |-> 0, root |-> 0]
RefMaps == [counter : Refs \cup {0}, entries : SUBSET Entries]
NoMap == [counter |-> 0, entries |-> {NoEntry}]
EmptyMap == [counter |-> 0, entries |-> {}]

\* A plausible mistake: numbering resumes after the highest live ref instead of the counter.
AllocateAfterLiveRefs(map, observed, root) ==
  LET live == {0} \cup {e.ref : e \in map.entries}
      top == CHOOSE r \in live : \A q \in live : q <= r
  IN  [counter |-> top + Cardinality(observed),
       entries |-> map.entries \cup
         {[ref  |-> top + Cardinality({m \in observed : m <= n}),
           node |-> n,
           root |-> root] : n \in observed}]

\* One ref per observed node, numbered on from the counter in traversal order.
AllocateRefs(map, observed, root) ==
  [counter |-> map.counter + Cardinality(observed),
   entries |-> map.entries \cup
     {[ref  |-> map.counter + Cardinality({m \in observed : m <= n}),
       node |-> n,
       root |-> root] : n \in observed}]

\* A plausible mistake: entries at the drilled path itself are never dropped.
RemoveStrictlyBelow(map, top) ==
  [map EXCEPT !.entries =
    {e \in @ : \/ e.ref = top.ref
               \/ /\ e.root # top.ref
                  /\ ~ (e.node \in Subtree(top.node) /\ e.node > top.node)}]

\* A plausible mistake: only what the same ref had drilled before is dropped.
RemoveOwnedOnly(map, top) ==
  [map EXCEPT !.entries = {e \in @ : e.ref = top.ref \/ e.root # top.ref}]

\* Drops what an earlier drill-down of the entry, or the snapshot, recorded
\* for the nodes below it; the entry itself stays.
RemoveByRootRef(map, top) ==
  [map EXCEPT !.entries =
    {e \in @ : \/ e.ref = top.ref
               \/ /\ e.root # top.ref
                  /\ ~ (/\ e.node \in Subtree(top.node)
                        /\ e.node > top.node \/ e.root # 0)}]

\* A plausible mistake: the limit tested before the new entries are counted.
FitsBeforeAllocation(map, observed) == map.counter < MaxRefs

\* The 1 MiB limit of the serialized map (refs.rs:137-148) and the u32 counter both
\* refuse an oversized map; its size is the number of refs that were numbered.
Fits(map, observed) == map.counter + Cardinality(observed) < MaxRefs
-----------------------------------------------------------------------------
(* What drill-downs keep true of a map *)

\* Refs are numbered up to the counter, each once, and what was drilled from an
\* entry lies in its subtree.
WellNumbered(map) ==
  /\ \A e \in map.entries : e.ref <= map.counter /\ e.root <= map.counter
  /\ \A e, f \in map.entries :
       /\ e.ref = f.ref => e = f
       /\ e.root = f.ref => e.node \in Subtree(f.node)

\* A node has few entries, and one of the snapshot itself at most.
FewAliases(map) ==
  \A n \in Nodes :
    /\ Cardinality({e \in map.entries : e.node = n}) <= 3
    /\ \A e, f \in map.entries : e.node = n /\ f.node = n /\ e.root = 0 /\ f.root = 0 => e = f
=============================================================================
