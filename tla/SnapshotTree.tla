---------------------------- MODULE SnapshotTree ----------------------------
(***************************************************************************)
(* From the tree an application shows to the refs of a snapshot and back   *)
(* (core snapshot.rs, snapshot_ref.rs, ref_alloc.rs, live_locator/         *)
(* observed_tree.rs, hydrate.rs, materialize.rs): a window is observed to  *)
(* some depth, nodes that cannot be read left out; refs are given to what  *)
(* can be acted on and to anchors above what was cut off; wrappers are     *)
(* collapsed and inert leaves pruned from what is shown; a drill-down      *)
(* observes again from a ref; a query reads what it selected once more.    *)
(***************************************************************************)
EXTENDS Integers, Sequences, FiniteSets, SequencesExt

CONSTANTS
  MaxDrills   \* bound: drill-downs into one snapshot

Nodes == 1 .. 4
Inner == Nodes \ {1}

VARIABLES
  parent,    \* the parent of each node but the root; nodes are in document order
  kind,      \* what each node is: "button" (an action), "odd" (an action, an unknown
             \* role), "named" (a name, no action), "bare" (a wrapper without anything)
  gone,      \* the nodes the application removed since
  windows,   \* how many windows there are still to look at
  step,      \* "resolve", "observe", "allocate", "save", "saved", "find window",
             \* "observe ref", "merge", "select", "hydrate", "done"
  observed,  \* the last observation: see Observation
  root,      \* the ref drilled into, 0 for a snapshot
  map,       \* the refs: a set of Entry
  counter,   \* the last ref given
  whole,     \* the snapshot is of all of the window (SnapshotResult.complete)
  drills,    \* how many drill-downs there were
  match,     \* what the query selected: the evidence its ref would carry
  reread,    \* what was read of it again
  result     \* "none", "ok", "failed"

applicationVars == <<parent, kind, gone>>
treeVars == <<observed, whole, root, map, counter>>
queryVars == <<match, reread>>
vars == <<applicationVars, windows, step, treeVars, drills, queryVars, result>>

-----------------------------------------------------------------------------
(* Trees *)

Kids(n) == {m \in Inner : parent[m] = n}
Below(n) == LET below[m \in Nodes] == {m} \cup UNION {below[k] : k \in Kids(m)}
            IN below[n]
Above(n) == LET above[m \in Nodes] == {m} \cup IF m = 1 THEN {} ELSE above[parent[m]]
            IN above[n]
DepthOf(n) == Cardinality(Above(n)) - 1

\* What can be acted on is given a ref (is_ref_able), if its role is known
\* (can_receive_observed_ref); what has a name can be found again
\* (is_resolvable_skeleton_anchor).
RefAble(n) == kind[n] \in {"button", "odd"}
CanReceiveRef(n) == kind[n] # "odd"
Resolvable(n) == CanReceiveRef(n) /\ kind[n] # "bare"

\* An observation from `top`: the nodes read, those whose children were left out
\* because they are too deep (children_count), and whether that was all of it.
Observation(top, nodes, cut, complete) ==
  [top |-> top, nodes |-> nodes, cut |-> cut, complete |-> complete]
Nothing == Observation(1, {}, {}, FALSE)

\* LocatorTraversal::visit: nodes too deep are not visited; one that cannot be read
\* is left out with what is below it, and the observation is not complete.
Observe(top, depth, unread) ==
  LET live == Below(top) \ gone
      near == {n \in live : DepthOf(n) - DepthOf(top) <= depth}
      read == {n \in near : Above(n) \cap Below(top) \cap unread = {}}
  IN Observation(top, read, {n \in read : ~ (Kids(n) \cap live \subseteq near)}, near = read)

KidsRead(n) == Kids(n) \cap observed.nodes
\* ObservedTree::project: a node's place among the children that were read.
Place(n) == Cardinality({m \in KidsRead(parent[n]) : m < n})
\* The place it has in the application's own list of children.
NativePlace(n) == Cardinality({m \in Kids(parent[n]) \ gone : m < n})

PathIn(n, top) ==
  LET path[m \in Nodes] == IF m = top THEN <<>> ELSE path[parent[m]] \o <<Place(m)>>
  IN path[n]
NativePath(n) ==
  LET path[m \in Nodes] == IF m = 1 THEN <<>> ELSE path[parent[m]] \o <<NativePlace(m)>>
  IN path[n]

-----------------------------------------------------------------------------
(* Refs (ref_alloc.rs) *)

Entry(ref, node, path, from) == [ref |-> ref, node |-> node, path |-> path, root |-> from]

\* plan_skeleton_anchors: whether something is cut off at or below n that no ref
\* reaches yet; it is then reached from n, if n can be an anchor.
Uncovered(n) ==
  LET uncovered[m \in Nodes] ==
        /\ m \in observed.cut \/ \E k \in KidsRead(m) : uncovered[k]
        /\ ~ (CanReceiveRef(m) /\ RefAble(m))
        /\ ~ (m # observed.top /\ Resolvable(m))
  IN uncovered[n]

Anchors ==
  {n \in observed.nodes \ {observed.top} :
     /\ Resolvable(n) /\ ~ RefAble(n)
     /\ n \in observed.cut \/ \E m \in KidsRead(n) : Uncovered(m)}

\* allocate_refs_at_path, in document order; the refs of a drill-down are told from
\* its root, and have no anchors.
Allocated(prefix, from) ==
  LET given == {n \in observed.nodes : CanReceiveRef(n) /\ RefAble(n)}
                 \cup IF from = 0 THEN Anchors ELSE {}
  IN {Entry(counter + Cardinality({m \in given : m <= n}), n,
            prefix \o PathIn(n, observed.top), from) : n \in given}

\* is_collapsible: a wrapper without anything, with one child.
Collapsible(n) ==
  kind[n] = "bare" /\ n \notin observed.cut /\ Cardinality(KidsRead(n)) = 1

\* What is left of a node's children when wrappers are collapsed and leaves that
\* have nothing to act on pruned.
Options == [compact : BOOLEAN, interactive : BOOLEAN]
Kept(n, refs, options) ==
  LET kept[m \in Nodes] ==
        LET below == UNION {kept[k] : k \in KidsRead(m)}
        IN IF m # observed.top /\ options.compact /\ Collapsible(m) THEN below
           ELSE IF /\ m # observed.top /\ options.interactive
                   /\ ~ RefAble(m) /\ ~ \E e \in refs : e.node = m
                   /\ below = {} /\ m \notin observed.cut
                THEN {}
           ELSE {m} \cup below
  IN kept[n]

-----------------------------------------------------------------------------
(* The application *)

\* A leaf is removed between a snapshot and a drill-down.
Vanish(n) ==
  /\ step = "saved" /\ gone = {} /\ n # 1 /\ Kids(n) = {} /\ gone' = gone \cup {n}
  /\ UNCHANGED <<parent, kind, windows, step, treeVars, drills, queryVars, result>>

-----------------------------------------------------------------------------
(* A snapshot (snapshot.rs) *)

Goto(next) == step' = next /\ UNCHANGED result
End(outcome) == step' = "done" /\ result' = outcome
Untouched == UNCHANGED <<applicationVars, drills, queryVars>>

\* select_window, surface_owner_order: one window, beyond doubt, or those of the
\* application, the focused one first.
Candidates == 1 .. 2

\* surface_windows: a sheet may be on any accessible window of the application, any
\* other surface belongs to the one window that is resolved.
Resolve ==
  /\ step = "resolve" /\ Untouched /\ UNCHANGED treeVars
  /\ \/ windows' \in Candidates /\ Goto("observe")
     \/ windows' = windows /\ End("failed")

\* observe_first_owner: the next window is looked at only if this one says that it
\* does not have the surface; what else fails, or fails of the last, ends it.
ObserveOwner ==
  /\ step = "observe" /\ Untouched /\ UNCHANGED <<whole, root, map, counter>>
  /\ \/ /\ \E unread \in {{}} \cup {{n} : n \in Inner}, depth \in {1, 2} :
             observed' = Observe(1, depth, unread)
        /\ Goto("allocate") /\ UNCHANGED windows
     \/ windows > 1 /\ windows' = windows - 1 /\ UNCHANGED observed /\ Goto("observe")
     \/ UNCHANGED <<windows, observed>> /\ End("failed")

\* build: refs are given to what was read.
Allocate ==
  /\ step = "allocate" /\ Untouched /\ UNCHANGED <<observed, root, windows>> /\ Goto("save")
  /\ map' = Allocated(<<>>, 0) /\ counter' = Cardinality(map') /\ whole' = observed.complete

\* run_with_context: the map is saved under a new id.
Save ==
  /\ step = "save" /\ Untouched /\ UNCHANGED <<treeVars, windows>>
  /\ Goto("saved") \/ End("failed")

-----------------------------------------------------------------------------
(* A drill-down (snapshot_ref.rs) *)

\* A ref of the map that is loaded.
Drill ==
  /\ step = "saved" /\ drills < MaxDrills /\ drills' = drills + 1
  /\ UNCHANGED <<applicationVars, windows, queryVars, observed, whole, map, counter>>
  /\ \E e \in map : root' = e.ref
  /\ Goto("find window")

Top == CHOOSE e \in map : e.ref = root
Abandon == observed' = Nothing /\ root' = 0 /\ Goto("saved")

\* resolve_result_window: the very window that the ref was read in, and then the
\* element; one that is gone is not found (resolve_element_strict).
FindWindow ==
  /\ step = "find window" /\ Untouched /\ UNCHANGED <<whole, map, counter, windows>>
  /\ \/ Top.node \notin gone /\ UNCHANGED <<observed, root>> /\ Goto("observe ref")
     \/ Abandon

\* remove_by_root_ref: what the root's earlier drill-downs told, and what the map
\* has below its path.
KeptBesides(top) ==
  {e \in map : \/ e.ref = top.ref
               \/ /\ e.root # top.ref
                  /\ ~ (/\ IsPrefix(top.path, e.path)
                        /\ Len(e.path) > Len(top.path) \/ e.root # 0)}

\* into_accessibility_tree: what was not observed completely changes nothing.
ObserveRef ==
  /\ step = "observe ref" /\ Untouched /\ UNCHANGED <<whole, map, counter, windows>>
  /\ \/ /\ \E depth \in {0, 3} : observed' = Observe(Top.node, depth, {})
        /\ UNCHANGED root /\ Goto("merge")
     \/ Abandon

\* update_existing_snapshot: neither does a map that cannot be saved.
Merge ==
  /\ step = "merge" /\ Untouched /\ UNCHANGED <<whole, windows>>
  /\ LET refs == Allocated(Top.path, root)
     IN \/ /\ map' = KeptBesides(Top) \cup refs /\ counter' = counter + Cardinality(refs)
           /\ UNCHANGED <<observed, root>> /\ Goto("saved")
        \/ UNCHANGED <<map, counter>> /\ Abandon

-----------------------------------------------------------------------------
(* The refs of a query (hydrate.rs, materialize.rs) *)

\* What is known of an element: the native object that is retained (0 for none), the
\* label and the bounds, as compared with what was selected.
Evidence == [is : {"it", "other"}, object : 0 .. 2, label : {"same", "other", "unknown"},
             box : BOOLEAN, known : BOOLEAN, verdict : {"match", "no match", "unknown"}]
NoEvidence == [is |-> "it", object |-> 0, label |-> "unknown", box |-> FALSE,
               known |-> FALSE, verdict |-> "unknown"]
Matches == [object : 0 .. 1, label : BOOLEAN, box : BOOLEAN, named : BOOLEAN, again : BOOLEAN]
NoMatch == [object |-> 0, label |-> FALSE, box |-> FALSE, named |-> FALSE, again |-> FALSE]

\* What may be read of the element that the anchor is resolved to: the object that is
\* retained is one element's only.
MayRead(m, e) ==
  /\ m.object = 1 /\ e.is = "it" => e.object \in 0 .. 1
  /\ e.is = "other" => e.object # 1
  /\ ~ e.known => e.label = "unknown"

\* identity_match, then the bounds where it cannot tell (anchor_matches).
AnchorMatches(m, e) ==
  CASE m.object > 0 -> e.object = m.object
    [] m.object = 0 /\ m.label ->
         e.label = "same" \/ (e.label = "unknown" /\ (m.box => e.box))
    [] OTHER -> m.box /\ e.box

\* evidence_complete: what the query asks of the element must be known of it.
EvidenceComplete(m, e) == e.known /\ (m.named => e.label # "unknown")

\* An element that neither has a name nor bounds is not selected with a ref.
Select ==
  /\ step = "select" /\ UNCHANGED <<applicationVars, windows, treeVars, drills, reread>>
  /\ \/ match' \in {m \in Matches : m.again = match.again /\ (m.object > 0 \/ m.label \/ m.box)}
        /\ Goto("hydrate")
     \/ match' = match /\ End("failed")

\* Once, the query is tried again.
Refuse ==
  IF match.again THEN UNCHANGED match /\ End("failed")
  ELSE match' = [match EXCEPT !.again = TRUE] /\ Goto("select")

\* selected_matches: the element is resolved and read again; it gets its ref only if
\* all that was asked is known, it is the one that was selected, and the query still
\* selects it.
Hydrate ==
  /\ step = "hydrate" /\ UNCHANGED <<applicationVars, windows, treeVars, drills>>
  /\ \E e \in Evidence :
       /\ MayRead(match, e) /\ reread' = e
       /\ IF EvidenceComplete(match, e) /\ AnchorMatches(match, e) /\ e.verdict = "match"
          THEN UNCHANGED match /\ End("ok")
          ELSE Refuse

-----------------------------------------------------------------------------

Trees == {p \in [Inner -> Nodes] :
            p[2] = 1 /\ p[3] \in {1, 2} /\ p[4] \in {1, p[3], 3}}

NothingShown ==
  /\ parent = [n \in Inner |-> 1] /\ kind = [n \in Nodes |-> "bare"]

Init ==
  /\ \/ /\ step = "resolve" /\ parent \in Trees
        /\ kind \in [Nodes -> {"button", "odd", "named", "bare"}] /\ kind[1] = "named"
        /\ \A n \in Inner : kind[n] = "odd" => n = 3
     \/ step = "select" /\ NothingShown
  /\ gone = {} /\ windows = 1 /\ observed = Nothing /\ whole = FALSE /\ root = 0
  /\ map = {} /\ counter = 0 /\ drills = 0
  /\ match = NoMatch /\ reread = NoEvidence /\ result = "none"

Next ==
  \/ \E n \in Nodes : Vanish(n)
  \/ Resolve \/ ObserveOwner \/ Allocate \/ Save
  \/ Drill \/ FindWindow \/ ObserveRef \/ Merge
  \/ Select \/ Hydrate

Spec == Init /\ [][Next]_vars

-----------------------------------------------------------------------------
(* Properties *)

\* The values the state takes.
TypeOK ==
  /\ gone \subseteq Inner /\ windows \in 1 .. 2 /\ drills \in 0 .. MaxDrills
  /\ \A e \in map : e.ref \in 1 .. counter /\ e.node \in Nodes
  /\ match \in Matches /\ reread \in Evidence /\ result \in {"none", "ok", "failed"}

\* The path of a ref leads to the node it was made for, however much of the tree is
\* collapsed or pruned away and from wherever it was drilled, as long as the window
\* was read completely and stays as it is (allocate_refs_at_path).
PathsLead ==
  step = "saved" /\ whole /\ gone = {} =>
    \A e \in map : e.path = NativePath(e.node)

\* What is cut off can be drilled into: the nearest node above it that can have a ref
\* has one, and nothing else that cannot be acted on has (plan_skeleton_anchors).
Nearest(n) == LET can == {m \in Above(n) \ {1} : Resolvable(m)}
              IN {m \in can : \A k \in can : DepthOf(k) <= DepthOf(m)}
CutIsReachable ==
  step = "saved" /\ drills = 0 =>
    {e.node : e \in map} =
      {n \in observed.nodes : kind[n] = "button"} \cup UNION {Nearest(n) : n \in observed.cut}

\* Every ref of what was read is shown, and every part that was cut off.
RefsAreShown ==
  step = "saved" /\ observed # Nothing =>
    LET refs == {e \in map : e.root = root}
    IN \A options \in Options :
         observed.cut \cup {e.node : e \in refs} \subseteq Kept(observed.top, refs, options)

\* A drill-down that is merged leaves one ref for each element below its root that
\* is there, and none for one that is not; what is beside it stays
\* (remove_by_root_ref).
DrillReplaces ==
  step = "saved" /\ root # 0 /\ (\E e \in map : e.root = root) =>
    LET below == {e \in map : e.ref # root /\ e.node \in Below(Top.node)}
    IN /\ \A e \in below : e.root = root /\ e.node \in observed.nodes
       /\ \A e, f \in below : e.node = f.node => e = f

\* A query gives a ref only to the element it selected, when that has a native object
\* to tell it by; an element with another name is never taken for it otherwise; and
\* only while the query selects it (selected_matches).
HydratedIsSelected ==
  result = "ok" /\ match # NoMatch =>
    /\ match.object > 0 => reread.is = "it"
    /\ reread.label = "other" /\ match.label => match.object > 0
    /\ reread.verdict = "match" /\ (match.named => reread.label # "unknown")

SnapshotIsTrue ==
  /\ PathsLead /\ CutIsReachable /\ RefsAreShown /\ DrillReplaces /\ HydratedIsSelected
=============================================================================
