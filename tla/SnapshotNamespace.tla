-------------------------- MODULE SnapshotNamespace --------------------------
(***************************************************************************)
(* What the snapshot store promises its callers, with every operation a    *)
(* single step: a snapshot appears whole, a drill-down rewrites the map it *)
(* finds and no older one, the pointer moves only to a readable snapshot,  *)
(* and a snapshot that is dropped is not the one the pointer names.        *)
(***************************************************************************)
EXTENDS RefMap

CONSTANT MaxIds

VARIABLES held,     \* the map of each snapshot
          latest    \* the id of the latest snapshot, 0 when there is none

Ids == 1 .. MaxIds

Init == held = [d \in Ids |-> NoMap] /\ latest = 0

Store(d, observed) ==
  /\ held[d] = NoMap
  /\ held' = [held EXCEPT ![d] = AllocateRefs(EmptyMap, observed, 0)]
  /\ UNCHANGED latest

DrillDown(d, top, observed) ==
  /\ top \in held[d].entries
  /\ held' = [held EXCEPT ![d] =
       AllocateRefs(RemoveByRootRef(held[d], top), observed, top.ref)]
  /\ UNCHANGED latest

Point(d) ==
  /\ held[d] # NoMap
  /\ latest' = d
  /\ UNCHANGED held

Drop(d) ==
  /\ d # latest
  /\ held' = [held EXCEPT ![d] = NoMap]
  /\ UNCHANGED latest

Next ==
  \E d \in Ids :
    \/ Point(d) \/ Drop(d)
    \/ \E observed \in SUBSET Nodes :
         \/ Store(d, observed)
         \/ \E top \in Entries : DrillDown(d, top, observed)

Spec == Init /\ [][Next]_<<held, latest>>
=============================================================================
