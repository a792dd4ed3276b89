---------------------------- MODULE LiveLocator ----------------------------
(***************************************************************************)
(* A locator resolved against a live accessibility tree                    *)
(* (core/src/live_locator, the walk of crates/macos/src/tree/query, the    *)
(* callers find and ad_find).  The walk may miss nodes, child lists and    *)
(* attributes; verdicts are three-valued and every node carries what is    *)
(* known of its completeness.                                              *)
(*                                                                         *)
(* Nodes are numbered in document order.  A query tests a node itself      *)
(* ("own") and, by `clause`, the texts of its subtree or the nodes below   *)
(* it; both tests of a node are given by the real tree.  The tree does not *)
(* change while a query runs.                                              *)
(***************************************************************************)
EXTENDS Naturals, Sequences, FiniteSets

CONSTANTS
  MaxNodes,   \* bound: nodes of the tree (one fewer when there is a clause)
  MaxDepth,   \* bound: max_logical_depth of a request (1 to 50)
  Limit       \* of the selection "all" (10 for the candidates of "strict")

VARIABLES
  parent,     \* the tree: the parent of each node but the root
  passes,     \* what is true: the nodes in reach that pass the tests "own" and "inner"
  query,      \* [clause, selection, depth: the max_logical_depth of the request]
  answer      \* what the caller gets, or Pending

vars == <<parent, passes, query, answer>>

Clauses == {"none", "text", "has", "has_not"}
Selections == {"strict", "first", "last", "second", "all", "count"}
Queries == [clause : Clauses, selection : Selections, depth : 1..MaxDepth]
Pending == [kind |-> "pending"]

Nodes == {1} \cup DOMAIN parent
Depth == LET depth[n \in Nodes] == IF n = 1 THEN 0 ELSE depth[parent[n]] + 1 IN depth

\* What the walk can reach, and the children of a node that are visited: none at
\* max_logical_depth (visit), where the list of children is read for its length.
Reach == {n \in Nodes : Depth[n] <= query.depth}
Kids(n) == IF Depth[n] < query.depth THEN {c \in DOMAIN parent : parent[c] = n} ELSE {}
InOrder(S) == SelectSeq([i \in 1..MaxNodes |-> i], LAMBDA i : i \in S)

Least(a, b) == IF a < b THEN a ELSE b

-----------------------------------------------------------------------------
(* The walk *)

\* An observation misses nodes with all below them (a deadline, a node budget,
\* an invalid element, a cycle, the limit of the raw depth), the lists of children
\* that were not read for certain, and attributes that could not be read; here at
\* most one list or attribute.  What lies below max_logical_depth is not missed:
\* a node there is complete although its children were not visited.
Tests == IF query.clause = "none" THEN {"own"} ELSE {"own", "inner"}
AtMostOne(S) == {{}} \cup {{x} : x \in S}
Kept(lost) ==
  LET kept[n \in Reach] == n \notin lost /\ (n = 1 \/ kept[parent[n]])
  IN  {n \in Reach : kept[n]}
GapsOf(lost) ==
  [lost : {lost}, uncertain : AtMostOne(Kept(lost)), blind : {{}}]
    \cup [lost : {lost}, uncertain : {{}}, blind : AtMostOne(Kept(lost) \X Tests)]
Gaps == UNION {GapsOf(lost) : lost \in {l \in SUBSET (Reach \ {1}) :
                                        \A n \in l : parent[n] \in Kept(l)}}

\* The tree as observed; subtree_complete folds the completeness of the
\* children into that of the parent, predecessors_complete is lost from the
\* first sibling on that was not kept (retained_edge_certainty).
Observed(g) ==
  LET kept == Kept(g.lost)
      complete[n \in Reach] == /\ n \notin g.uncertain
                               /\ \A c \in Kids(n) : c \in kept /\ complete[c]
      Seen(n, test) == IF <<n, test>> \in g.blind THEN "unknown"
                       ELSE IF n \in passes[test] THEN "match" ELSE "no"
  IN  [nodes |-> kept,
       subtree_complete |-> complete,
       predecessors_complete |->
         [n \in Reach |-> n = 1 \/ /\ parent[n] \notin g.uncertain
                                   /\ \A s \in Kids(parent[n]) : s < n => s \in kept],
       own |-> [n \in Reach |-> Seen(n, "own")],
       inner |-> [n \in Reach |-> Seen(n, "inner")]]

-----------------------------------------------------------------------------
(* The evaluation *)

\* MatchVerdict::and, or, negate, over sets of verdicts.
And(verdicts) == IF "no" \in verdicts THEN "no"
                 ELSE IF "unknown" \in verdicts THEN "unknown" ELSE "match"
Or(verdicts) == IF "match" \in verdicts THEN "match"
                ELSE IF "unknown" \in verdicts THEN "unknown" ELSE "no"
Negate(v) == CASE v = "match" -> "no" [] v = "no" -> "match" [] OTHER -> "unknown"

\* A plausible mistake: what is not found below a node is absent.
UnlessHiddenForgotten(v, complete) == v

\* What is not found below a node is only absent when all below was seen.
UnlessHidden(v, complete) == IF v = "no" /\ ~complete THEN "unknown" ELSE v

\* The verdicts of the inner test over a subtree (aggregate_subtree).
Subtree(tree) ==
  LET sub[n \in tree.nodes] ==
        UnlessHidden(Or({tree.inner[n]} \cup {sub[c] : c \in Kids(n) \cap tree.nodes}),
                     tree.subtree_complete[n])
  IN  sub

\* evaluate_node: the verdict of the query on a node.
Evaluate(tree) ==
  LET sub == Subtree(tree)
      Below(n) == UnlessHidden(Or({sub[c] : c \in Kids(n) \cap tree.nodes}),
                               tree.subtree_complete[n])
      Clause(n) == CASE query.clause = "none" -> "match"
                     [] query.clause = "text" -> sub[n]
                     [] query.clause = "has" -> Below(n)
                     [] query.clause = "has_not" -> Negate(Below(n))
  IN  [n \in tree.nodes |-> And({tree.own[n], Clause(n)})]

\* first_is_authoritative: nothing that comes before the target in document
\* order, seen or hidden, can match.
FirstIsAuthoritative(tree, verdicts, target) ==
  LET settled[n \in tree.nodes] ==      \* subtree_is_authoritative
        /\ tree.subtree_complete[n] /\ tree.predecessors_complete[n]
        /\ verdicts[n] # "unknown"
        /\ \A c \in Kids(n) \cap tree.nodes : settled[c]
      certain[n \in tree.nodes] ==      \* the chain from the root to the target
        /\ tree.predecessors_complete[n]
        /\ n = 1 \/ /\ verdicts[parent[n]] # "unknown"
                    /\ \A s \in Kids(parent[n]) \cap tree.nodes : s < n => settled[s]
                    /\ certain[parent[n]]
  IN  certain[target]

\* selected_indices.
Selected(matches, selection) ==
  CASE selection = "strict" -> SubSeq(matches, 1, Least(Len(matches), 10))
    [] selection = "all" -> SubSeq(matches, 1, Least(Len(matches), Limit))
    [] selection = "count" -> <<>>
    [] selection = "first" -> SubSeq(matches, 1, Least(Len(matches), 1))
    [] selection = "last" -> SubSeq(matches, IF matches = <<>> THEN 1 ELSE Len(matches), Len(matches))
    [] selection = "second" -> SubSeq(matches, 2, Least(Len(matches), 2))

\* evaluate_locator_tree.
Resolution(tree) ==
  LET verdicts == Evaluate(tree)
      matched == InOrder({n \in tree.nodes : verdicts[n] = "match"})
      complete == /\ tree.subtree_complete[1]
                  /\ \A n \in tree.nodes : verdicts[n] # "unknown"
  IN  [matches |-> Selected(matched, query.selection),
       total |-> Len(matched),
       complete |-> complete,
       selection_complete |->
         \/ complete
         \/ /\ query.selection = "first" /\ matched # <<>>
            /\ FirstIsAuthoritative(tree, verdicts, matched[1])]

-----------------------------------------------------------------------------
(* The query *)

Refuse(code) == answer' = [kind |-> "error", code |-> code]

\* require_unique (ad_find, ad_is) over classify_query_result; an incomplete
\* result has been refused before it gets here.
RequireUnique(r) ==
  \/ r.total >= 2 /\ answer' = [kind |-> "ambiguous", matches |-> r.matches,
                                total |-> r.total, exact |-> r.complete]
  \/ r.total = 0 /\ r.complete /\ answer' = [kind |-> "not_found"]
  \/ r.total = 1 /\ r.complete /\ answer' = [kind |-> "found", matches |-> r.matches, total |-> 1]

\* An attempt of resolve_query: an observation, its evaluation, and what the
\* caller makes of it.  A selection that something hid is refused when a budget
\* hid it or nobody knows why, and tried again (no answer) when a read failed or
\* a list changed, which may go well next time.
\* Without refs, an incomplete "count" or "all" is returned as such and refused
\* by find (require_complete).
Attempt ==
  /\ answer = Pending
  /\ \E r \in {Resolution(Observed(g)) : g \in Gaps} :
       \/ /\ ~r.selection_complete
          /\ \/ Refuse("budget_limit")
             \/ Refuse("incomplete")
             \/ UNCHANGED answer
       \/ /\ r.selection_complete
          /\ IF query.selection = "strict" THEN RequireUnique(r)
             ELSE answer' = [kind |-> "found", matches |-> r.matches, total |-> r.total]
  /\ UNCHANGED <<parent, passes, query>>

\* The deadline passes before an attempt gives an answer, or the walk lost the
\* root of the tree.
GiveUp ==
  /\ answer = Pending
  /\ \E code \in {"timeout", "root_lost"} : Refuse(code)
  /\ UNCHANGED <<parent, passes, query>>

-----------------------------------------------------------------------------
\* Trees in document order: the parent of a node is the node before it or one
\* of that node's ancestors.
InDocumentOrder(p) ==
  LET ancestors[n \in {1} \cup DOMAIN p] == IF n = 1 THEN {1} ELSE {n} \cup ancestors[p[n]]
  IN  \A n \in DOMAIN p : p[n] \in ancestors[n - 1]

Trees(size) == {p \in [2..size -> 1..size] : (\A n \in DOMAIN p : p[n] < n) /\ InDocumentOrder(p)}

Init ==
  /\ query \in Queries
  /\ parent \in Trees(IF query.clause = "none" THEN MaxNodes ELSE MaxNodes - 1)
  /\ passes \in [own : SUBSET Reach,     \* nobody tests the others
                 inner : IF query.clause = "none" THEN {{}} ELSE SUBSET Reach]
  /\ answer = Pending

Next == Attempt \/ GiveUp

Spec == Init /\ [][Next]_vars

-----------------------------------------------------------------------------
\* The values the state takes.
TypeOK ==
  /\ DOMAIN parent = 2..Cardinality(Nodes) /\ \A n \in DOMAIN parent : parent[n] < n
  /\ passes.own \subseteq Nodes /\ passes.inner \subseteq Nodes
  /\ query \in Queries
  /\ answer.kind \in {"pending", "error", "found", "not_found", "ambiguous"}

\* What really matches the query, of the tree down to the depth asked for.
RealMatches ==
  LET below[n \in Reach] == Kids(n) \cup UNION {below[c] : c \in Kids(n)}
  IN  {n \in passes.own \cap Reach :
         CASE query.clause = "none" -> TRUE
           [] query.clause = "text" -> ({n} \cup below[n]) \cap passes.inner # {}
           [] query.clause = "has" -> below[n] \cap passes.inner # {}
           [] query.clause = "has_not" -> below[n] \cap passes.inner = {}}

\* However much an observation missed of the tree down to the depth asked for, an
\* answer that is given is the one all of that would give: the selected element is
\* that element, the count is that count, an element found to be unique is unique,
\* one reported missing does not exist, and one refused as ambiguous is ambiguous
\* (evaluate.rs, selection_completeness.rs, cardinality.rs).  Of the whole tree it
\* need not be true: what lies deeper is not visited, and the answer does not say so
\* (traversal.rs:136-145).
SelectionIsTrue ==
  LET real == RealMatches
      InReal(m) == m \in real
  IN  /\ answer.kind = "found" =>
           /\ answer.matches = Selected(InOrder(real), query.selection)
           /\ query.selection # "first" => answer.total = Cardinality(real)
           /\ query.selection = "strict" => Cardinality(real) = 1
      /\ answer.kind = "not_found" => real = {}
      /\ answer.kind = "ambiguous" =>
           /\ Cardinality(real) >= answer.total
           /\ answer.exact => Cardinality(real) = answer.total
           /\ \A i \in DOMAIN answer.matches : InReal(answer.matches[i])
=============================================================================
