--------------------------- MODULE RefResolution ---------------------------
(***************************************************************************)
(* Strict resolution of a saved ref to a live element (macOS,              *)
(* crates/macos/src/tree/resolve*.rs, retained*.rs; core ref_identity.rs): *)
(* the saved path first, then a search of the saved scope, both closed to  *)
(* anything that is not certain.                                           *)
(*                                                                         *)
(* Elements are numbered; element 1 is the one the ref was saved for, in   *)
(* window "w".  What an element says of itself is one of Looks.  A window  *)
(* lists its elements; the index in the list is the path, the index and    *)
(* the scrolling of the window are the bounds.                             *)
(***************************************************************************)
EXTENDS Naturals, Sequences, SequencesExt, FiniteSets

CONSTANTS
  None,
  MaxChanges   \* bound: changes of the application after the ref was saved

VARIABLES
  entry,      \* the ref: scope, look, path, bounds, token
  shown,      \* the elements of each window
  look,       \* what each element says of itself
  scrolled,   \* how far each window is scrolled
  titled,     \* the windows that have the title of the saved window
  process,    \* "same", "gone", or another one has the pid: "reused"
  held,       \* the retained object of the ref is in the store of this process
  changes,
  phase,      \* "verify", "path", "search" or "done"
  result

uiVars == <<shown, look, scrolled, titled, process, held, changes>>
vars == <<entry, uiVars, phase, result>>

AppWindows == {"w", "v"}
Elements == 1..4                  \* 4 is created later, in the likeness of 1
Look(role, label, native) == [role |-> role, label |-> label, native |-> native]
Looks == {Look("button", "a", None), Look("button", "b", None), Look("button", None, None),
          Look("button", "a", "n"), Look("cell", "b", "n")}
Pending == [kind |-> "pending"]

Listed(w) == ToSet(shown[w])
Bounds(w, i) == <<w, i + scrolled[w]>>
SavedBounds == <<"w", entry.path>>
InPlace(e) == \E w \in AppWindows : \E i \in DOMAIN shown[w] :
                shown[w][i] = e /\ Bounds(w, i) = SavedBounds

-----------------------------------------------------------------------------
(* Identity (ref_identity.rs, retained.rs) *)

HasMeaningfulIdentity == entry.token \/ entry.look.native # None \/ entry.look.label # None

\* provisional_geometry_candidate: nothing but the bounds tells the element.
Provisional == entry.bounds /\ ~HasMeaningfulIdentity

\* A plausible mistake: a retained ref falls back to what the element says.
IdentityMatchHeuristic(e, blind) ==
  IF blind THEN "unknown" ELSE IF look[e] = entry.look THEN "yes" ELSE "no"

\* candidate_match and identity_match: "yes", "no" or "unknown"; `blind` when
\* the attributes of the element could not be read.  A retained object is
\* compared with the object itself, never by what it says.
IdentityMatch(e, blind) ==
  LET same(expected, actual) == IF blind THEN "unknown" ELSE IF actual = expected THEN "yes" ELSE "no"
  IN  CASE entry.token -> IF e = 1 THEN "yes" ELSE "no"
        [] ~entry.token /\ entry.look.native # None -> same(entry.look.native, look[e].native)
        [] ~entry.token /\ entry.look.native = None /\ entry.look.label # None ->
             same(entry.look.label, look[e].label)
        [] OTHER -> IF blind \/ look[e].label = None THEN "unknown" ELSE "no"

\* native_identifier_reused_by_different_role.
RoleReused(e) == /\ entry.look.native # None /\ look[e].native = entry.look.native
                 /\ look[e].role # entry.look.role

\* candidate_identity and the match in collect_elements_recursive: whether an
\* element is the saved one, by its role and its identity.  Where nothing but the
\* bounds can tell, what is not known to differ is a candidate.
CandidateIdentity(e, blind) ==
  LET identity == IdentityMatch(e, blind = "identity")
  IN  IF blind = "role" THEN "unknown"
      ELSE IF look[e].role # entry.look.role THEN "no"
      ELSE IF identity = "unknown" /\ Provisional THEN "yes" ELSE identity

-----------------------------------------------------------------------------
(* Scope (resolve_roots.rs): what a scope yields, as a set of windows, or an error *)

Open == {w \in AppWindows : shown[w] # <<>>}

Verified == entry.scope = "id"    \* the window was found by its number

Roots ==
  CASE entry.scope = "id" -> Open \cap {"w"}
    [] entry.scope = "title" -> Open \cap titled
    [] entry.scope = "app" -> Open

ScopeError ==
  CASE entry.scope = "id" -> IF Roots = {} THEN "window_not_found" ELSE None
    [] entry.scope = "title" -> IF Cardinality(Roots) > 1 THEN "ambiguous" ELSE None
    [] entry.scope = "app" -> None

-----------------------------------------------------------------------------
(* The resolution *)

Fail(kind) == phase' = "done" /\ result' = [kind |-> kind]
Found(e) == phase' = "done" /\ result' = [kind |-> "found", element |-> e]

\* verify_process_instance: the retained object must still be held here
\* (retained::validate) and the process must be the one of the snapshot.
Verify ==
  /\ phase = "verify"
  /\ \/ (entry.token => held) /\ process = "same" /\ phase' = "path" /\ UNCHANGED result
     \/ ((entry.token /\ ~held) \/ process # "same") /\ Fail("stale")
  /\ UNCHANGED <<entry, uiVars>>

\* classify_candidates: what the elements found amount to, given that nothing
\* was missed.  One candidate without a verified window, or without an identity
\* of its own, must be in its place; of several, one alone must be.
Classify(candidates) ==
  LET placed == {e \in candidates : InPlace(e)}
      needsPlace == ~Verified \/ ~HasMeaningfulIdentity
  IN  CASE candidates = {} -> [kind |-> "absent"]
        [] Cardinality(candidates) = 1 ->
             IF needsPlace /\ ~(entry.bounds /\ placed # {}) THEN [kind |-> "absent"]
             ELSE [kind |-> "found", element |-> CHOOSE e \in candidates : TRUE]
        [] Cardinality(candidates) > 1 ->
             IF entry.bounds /\ placed = {} THEN [kind |-> "stale"]
             ELSE IF entry.bounds /\ Cardinality(placed) = 1
             THEN [kind |-> "found", element |-> CHOOSE e \in placed : TRUE]
             ELSE [kind |-> "ambiguous"]

\* find_entry_by_path succeeds or fails; an element that is not there leads to
\* the search (resolve_once).  The anchor of a match that a query selected is followed
\* in the same way, but there is no search after it (resolve_locator_anchor_once);
\* that variant is left out.
CanUsePath == entry.scope \in {"id", "title"} /\ (entry.bounds \/ HasMeaningfulIdentity)

AtPath == {shown[w][entry.path] : w \in {w \in Roots : entry.path <= Len(shown[w])}}

FollowPath ==
  /\ phase = "path"
  /\ IF ~CanUsePath THEN phase' = "search" /\ UNCHANGED result
     ELSE IF ScopeError # None THEN Fail(ScopeError)
     ELSE \E blind \in {"nothing", "role", "identity"} :
       LET matches == {e \in AtPath : CandidateIdentity(e, blind) = "yes"}
           answer == Classify(matches)
       IN  \/ /\ \E e \in AtPath : CandidateIdentity(e, blind) = "unknown"   \* tried again
              /\ UNCHANGED <<phase, result>>
           \/ /\ \A e \in AtPath : CandidateIdentity(e, blind) # "unknown"
              /\ IF answer.kind = "absent" THEN phase' = "search" /\ UNCHANGED result
                 ELSE phase' = "done" /\ result' = answer
  /\ UNCHANGED <<entry, uiVars>>

\* The search is incomplete when a list of children was cut short, an element
\* was invalid, or one could not be told from the saved one.
Incomplete(lost, seen, blind) ==
  lost # {} \/ \E e \in seen : CandidateIdentity(e, blind[e]) = "unknown"

\* find_entry_in_roots, when one element at most is not seen as it is.  Two
\* candidates that no bounds can tell apart end the search; otherwise anything
\* that was missed makes it worthless, and it is tried again with the path
\* (retry_incomplete_until).
Search ==
  /\ phase = "search"
  /\ IF ~entry.bounds /\ ~HasMeaningfulIdentity THEN Fail("stale")
     ELSE IF ScopeError # None THEN Fail(ScopeError)
     ELSE LET all == UNION {Listed(w) : w \in Roots}
          IN  \E missed \in all \cup {None}, how \in {"lost", "role", "identity"} :
       LET blind == [e \in all |-> IF e = missed THEN how ELSE "nothing"]
           lost == {e \in all : blind[e] = "lost"}
           seen == all \ lost
           matches == {e \in seen : CandidateIdentity(e, blind[e]) = "yes"}
           answer == Classify(matches)
       IN  \/ Cardinality(matches) > 1 /\ ~entry.bounds /\ Fail("ambiguous")
           \/ /\ Cardinality(matches) <= 1 \/ entry.bounds
              /\ IF Incomplete(lost, seen, blind) THEN phase' = "path" /\ UNCHANGED result
                 ELSE IF matches = {} /\ \E e \in seen : RoleReused(e) THEN Fail("stale")
                 ELSE IF answer.kind = "absent" THEN Fail("stale")
                 ELSE phase' = "done" /\ result' = answer
  /\ UNCHANGED <<entry, uiVars>>

\* The deadline passes.
TimeOut == phase \in {"path", "search"} /\ Fail("timeout") /\ UNCHANGED <<entry, uiVars>>

-----------------------------------------------------------------------------
(* The application and the host, before the ref is resolved and between the *)
(* walk along the path and the search; only what the scope of the ref sees  *)

Change == /\ phase \in {"verify", "search"} /\ changes < MaxChanges /\ process = "same"
          /\ changes' = changes + 1
          /\ UNCHANGED <<entry, phase, result>>

Around == IF entry.scope = "id" THEN {"w"} ELSE AppWindows

\* An element disappears; those after it move up.
Vanish == /\ Change
          /\ \E w \in Around : \E i \in DOMAIN shown[w] :
               shown' = [shown EXCEPT ![w] = RemoveAt(shown[w], i)]
          /\ UNCHANGED <<look, scrolled, titled, process, held>>

\* An element appears that looks like another, anywhere.
Create == /\ Change
          /\ \A w \in AppWindows : 4 \notin Listed(w)
          /\ \E w \in Around, e \in Elements \ {4} : \E i \in 1..Len(shown[w]) + 1 :
               /\ shown' = [shown EXCEPT ![w] = InsertAt(shown[w], i, 4)]
               /\ look' = [look EXCEPT ![4] = look[e]]
          /\ UNCHANGED <<scrolled, titled, process, held>>

\* An element is taken away and another put in its place that looks the same.
Replace == /\ Change
           /\ \A w \in AppWindows : 4 \notin Listed(w)
           /\ \E w \in Around : \E i \in DOMAIN shown[w] :
                /\ shown' = [shown EXCEPT ![w][i] = 4]
                /\ look' = [look EXCEPT ![4] = look[shown[w][i]]]
           /\ UNCHANGED <<scrolled, titled, process, held>>

Relabel == /\ Change
           /\ \E w \in Around : \E e \in Listed(w), l \in {look[2], Look("button", "b", None)} :
                look' = [look EXCEPT ![e] = l]
           /\ UNCHANGED <<shown, scrolled, titled, process, held>>

Scroll == /\ Change
          /\ \E w \in Around : scrolled' = [scrolled EXCEPT ![w] = 1 - @]
          /\ UNCHANGED <<shown, look, titled, process, held>>

Retitle == /\ Change
           /\ entry.scope = "title"
           /\ \E t \in SUBSET AppWindows : titled' = t
           /\ UNCHANGED <<shown, look, scrolled, process, held>>

Close == /\ Change
         /\ \E w \in Around : shown' = [shown EXCEPT ![w] = <<>>]
         /\ UNCHANGED <<look, scrolled, titled, process, held>>

\* The application quits; its pid may be given away before a resolution starts.
Quit == /\ Change
        /\ process' \in (IF phase = "verify" THEN {"gone", "reused"} ELSE {"gone"})
        /\ shown' = IF process' = "gone" THEN [w \in AppWindows |-> <<>>] ELSE shown
        /\ UNCHANGED <<look, scrolled, titled, held>>

\* The host that retained the objects ended: its tokens are nobody's.
HostEnds == /\ Change
            /\ phase = "verify" /\ held
            /\ held' = FALSE
            /\ UNCHANGED <<shown, look, scrolled, titled, process>>

-----------------------------------------------------------------------------
Init ==
  /\ shown \in {[w |-> <<1, 2>>, v |-> <<3>>], [w |-> <<2, 1>>, v |-> <<3>>]}
  /\ look \in {f \in [Elements -> Looks] : f[4] = f[1] /\ f[3] \in {f[1], f[2]}}
  /\ scrolled = [w \in AppWindows |-> 0]
  /\ entry \in [scope : {"id", "title", "app"}, look : {look[1]},
                path : {CHOOSE i \in DOMAIN shown.w : shown.w[i] = 1},
                bounds : BOOLEAN, token : BOOLEAN]
  /\ (titled = {"w"} \/ (entry.scope = "title" /\ titled = AppWindows))
  /\ held = entry.token
  /\ process = "same"
  /\ changes = 0
  /\ phase = "verify"
  /\ result = Pending

Next ==
  \/ Verify \/ FollowPath \/ Search \/ TimeOut
  \/ Vanish \/ Create \/ Replace \/ Relabel \/ Scroll \/ Retitle \/ Close \/ Quit \/ HostEnds

Spec == Init /\ [][Next]_vars

-----------------------------------------------------------------------------
\* The values the state takes.
TypeOK ==
  /\ entry \in [scope : {"id", "title", "app"}, look : Looks, path : 1..2,
                bounds : BOOLEAN, token : BOOLEAN]
  /\ shown \in [AppWindows -> Seq(Elements)] /\ look \in [Elements -> Looks]
  /\ scrolled \in [AppWindows -> 0..1]
  /\ titled \subseteq AppWindows /\ process \in {"same", "gone", "reused"}
  /\ held \in BOOLEAN
  /\ phase \in {"verify", "path", "search", "done"}
  /\ result.kind \in {"pending", "found", "stale", "ambiguous", "timeout", "window_not_found"}
  /\ (phase = "done") = (result # Pending)

\* What still looks like the saved element, in the windows of its scope.
InScope == UNION {Listed(w) : w \in Roots}
Alike == {e \in InScope : /\ look[e].role = entry.look.role
                          /\ CASE entry.look.native # None -> look[e].native = entry.look.native
                               [] entry.look.native = None /\ entry.look.label # None ->
                                    look[e].label = entry.look.label
                               [] OTHER -> TRUE}

\* A ref resolves to an element only when that is beyond doubt: to the very
\* object when it was retained (a removed one "cannot resolve to another object
\* with identical attributes", docs/plans/2026-09-20-retained-native-ref-identity.md),
\* and otherwise to an element of the same process, in scope, that looks like
\* the saved one and is the only such one, the only such one in its place, or
\* the one at its path in its own window; a partial view is never evidence.
BeyondDoubt(answer) ==
  answer.kind = "found" =>
    LET e == answer.element
    IN  /\ process # "reused" /\ e \in InScope
        /\ entry.token => e = 1 /\ held
        /\ ~entry.token =>
             /\ e \in Alike
             /\ \/ Alike = {e}
                \/ {x \in Alike : InPlace(x)} = {e}
                \/ Verified /\ shown["w"][entry.path] = e
        /\ ~Verified => InPlace(e)
ResolvesBeyondDoubt == BeyondDoubt(result)

\* A ref whose element is where it was and what it was is not reported stale or
\* ambiguous with the other elements that look alike (classify_candidates,
\* stale_ref_error claims a complete search).
StaleIsGone(answer) ==
  answer.kind = "stale" =>
    ~(/\ process = "same" /\ entry.token = held
      /\ 1 \in InScope /\ look[1] = entry.look /\ InPlace(1)
      /\ entry.bounds)
UnchangedIsNotStale == StaleIsGone(result)

-----------------------------------------------------------------------------
\* Why resolution is strict: what was verified stays true while it looks, as a
\* process that ends takes its elements with it; and the verdicts are as said.
ResolveInv ==
  /\ TypeOK
  /\ phase \in {"path", "search"} => process # "reused" /\ (entry.token => held)
  /\ ResolvesBeyondDoubt /\ UnchangedIsNotStale
=============================================================================
