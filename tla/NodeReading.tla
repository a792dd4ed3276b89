---------------------------- MODULE NodeReading ----------------------------
(***************************************************************************)
(* Reading one element of an accessibility tree: its children, page by     *)
(* page between two reads of their number (query/child_read.rs), from the  *)
(* first attribute that has any (child_source.rs), and its name, which may *)
(* come from the children (node_read.rs, evidence_fields.rs).  Meanwhile   *)
(* the application adds and removes children, and any read may fail.       *)
(***************************************************************************)
EXTENDS Naturals, Sequences, SequencesExt

CONSTANTS
  MaxKids,         \* bound: children at the start
  MaxKidChanges,   \* bound: children added or removed
  PageSize,        \* how many children one call returns at most
  ReadAttempts     \* how often a read that is incomplete is tried

VARIABLES
  home,      \* the attribute that lists the children, or "none"
  kids,      \* the children, in order
  changed,   \* how many of them came and went since this attribute is read
  fresh,     \* the next child that may come
  wanted,    \* how many children are asked for, or the position of the only one
  mode,      \* "list" (read_children) or "at" (read_child_at)
  boundary,  \* the children are beyond the depth asked for
  step,      \* "count", "pages", "again" (the number is read again), "name", "done"
  source,    \* the attribute being read
  tries,     \* how often the attributes were tried before
  certain,   \* the attributes before it certainly had nothing
  number,    \* how many children there are said to be, or Uncounted
  elements,  \* the children that were read
  read,      \* what a read says: see Read
  name,      \* where the name comes from: "unknown", "absent", "own", "label",
             \* "placeholder"
  texts,     \* what the element says of itself: "own", "placeholder" or "none"
  bearer     \* the child with a text, or 0

elementVars == <<home, kids, changed, fresh>>
planVars == <<wanted, mode, boundary>>
vars == <<elementVars, planVars, step, source, tries, certain, number, elements, read, name,
          texts, bearer>>

Uncounted == MaxKids + MaxKidChanges + 1

\* ChildRead: the children, how many there are, whether these are all that were
\* asked for, and whether the attribute exists.
Read(list, total, complete, available) ==
  [list |-> list, total |-> total, complete |-> complete, available |-> available]
Failed == Read(<<>>, 0, FALSE, "unknown")
Unavailable == Read(<<>>, 0, TRUE, "no")

Smaller(a, b) == IF a < b THEN a ELSE b

-----------------------------------------------------------------------------
(* The application *)

Without(i) == SubSeq(kids, 1, i - 1) \o SubSeq(kids, i + 1, Len(kids))
With(i) == SubSeq(kids, 1, i) \o <<fresh>> \o SubSeq(kids, i + 1, Len(kids))

KidsChange ==
  /\ step \notin {"name", "done"} /\ home # "none" /\ fresh <= MaxKids + MaxKidChanges
  /\ \/ \E i \in 1 .. Len(kids) : kids' = Without(i)
     \/ \E i \in 0 .. Len(kids) : kids' = With(i)
  /\ fresh' = fresh + 1 /\ changed' = changed + 1
  /\ UNCHANGED <<home, planVars, step, source, tries, certain, number, elements, read, name,
                 texts, bearer>>

-----------------------------------------------------------------------------
(* From attribute to attribute, and again (child_source.rs) *)

\* A read that is about to start.
Begin(attribute, try, sure) ==
  /\ step' = "count" /\ source' = attribute /\ tries' = try /\ certain' = sure
  /\ changed' = 0 /\ elements' = <<>> /\ number' = 0
  /\ UNCHANGED <<home, kids, fresh, planVars, read, name, texts, bearer>>

\* read_resilient: what is not complete is read again, all of it, unless the
\* element is gone, accessibility disabled, or the deadline passed.
Settle(result, terminal) ==
  \/ /\ ~ result.complete /\ ~ terminal /\ tries + 1 < ReadAttempts
     /\ Begin("children", tries + 1, TRUE)
  \/ /\ read' = result /\ step' = IF mode = "list" THEN "name" ELSE "done"
     /\ tries' = 0 /\ certain' = TRUE /\ elements' = <<>>
     /\ UNCHANGED <<elementVars, planVars, source, number, name, texts, bearer>>

\* read_first_nonempty: an empty AXChildren is the answer, any other attribute
\* that is empty is passed over.
Select(result, terminal) ==
  LET sure == certain /\ result.complete
      selected == result.available = "yes" /\ (result.total > 0 \/ source = "children")
      last == source = "contents" \/ terminal
  IN  CASE selected -> Settle([result EXCEPT !.complete = sure], terminal)
        [] ~ selected /\ ~ last -> Begin("contents", tries, sure)
        [] ~ selected /\ last ->
             Settle(Read(<<>>, 0, sure, IF result.available = "yes" THEN "yes"
                                        ELSE IF sure THEN "no" ELSE "unknown"), terminal)

\* A call to the application fails, for good when the element is gone or
\* accessibility is disabled.
Fails(result) == \E terminal \in BOOLEAN : Select(result, terminal)

-----------------------------------------------------------------------------
(* One attribute (child_read.rs) *)

Reading(next, n, list) ==
  /\ step' = next /\ number' = n /\ elements' = list
  /\ UNCHANGED <<elementVars, planVars, source, tries, certain, read, name, texts, bearer>>

\* attribute_value_count: without a number the children can still be listed.
Count ==
  /\ step = "count"
  /\ \/ home # source /\ Select(Unavailable, FALSE)
     \/ home = source /\ Reading("pages", Len(kids), <<>>)
     \/ home = source /\ mode = "list" /\ wanted > 0 /\ Reading("pages", Uncounted, <<>>)
     \/ Fails(Failed)

Requested == IF number = Uncounted THEN wanted ELSE Smaller(number, wanted)

\* read_without_count: a full page leaves open whether there are more.
Listed(list) ==
  LET full == Len(list) = wanted
  IN  Read(list, Len(list) + (IF full THEN 1 ELSE 0), ~ full, "yes")

\* The pages are read; what was counted is counted again.
PagesEnd(list) ==
  IF number = Uncounted THEN Select(Listed(list), FALSE) ELSE Reading("again", number, list)

\* read_paged_prefix, copy_page.
Page ==
  /\ step = "pages" /\ mode = "list"
  /\ LET from == Len(elements)
         to == Smaller(from + Smaller(Requested - from, PageSize), Len(kids))
         list == elements \o SubSeq(kids, from + 1, to)
     IN  IF from >= Requested \/ to <= from THEN PagesEnd(elements)
         ELSE IF Len(list) = Requested THEN PagesEnd(list)
         ELSE Reading("pages", number, list)

PageFails ==
  /\ step = "pages" /\ mode = "list" /\ Requested > 0
  /\ IF number = Uncounted THEN Fails(Failed) ELSE Reading("again", number, <<>>)

\* read_attribute_child_at: a page of one.
Pick ==
  /\ step = "pages" /\ mode = "at"
  /\ \/ Reading("again", number, SubSeq(kids, wanted, Smaller(wanted, Len(kids))))
     \/ Reading("again", number, <<>>)

\* stable_count: children that came or went make the read incomplete.
CountAgain ==
  /\ step = "again"
  /\ LET left == SubSeq(elements, 1, Smaller(Len(elements), Len(kids)))
         expected == IF mode = "list" THEN Requested ELSE IF wanted <= number THEN 1 ELSE 0
         all == Len(elements) = expected
     IN  \/ Select(Read(left, Len(kids), all /\ Len(kids) = number, "yes"), FALSE)
         \/ mode = "list" /\ Fails(Read(elements, number, FALSE, "yes"))
         \/ mode = "at" /\ Fails(Failed)

-----------------------------------------------------------------------------
(* The name (evidence_fields.rs, child_labels.rs) *)

\* unplanned_truncation
Truncated == ~ boundary /\ Len(read.list) < read.total

\* The children's label is known when all of them were read, and their texts.
LabelKnown(labelsRead) == labelsRead /\ read.complete /\ ~ Truncated

\* name_field: the first source with a text, unless one before it is unknown.  An
\* own text that was read leaves the children alone (should_read_child_label);
\* theirs may be read in part.
NameFrom(ownKnown, own, labelKnown, label, restKnown, rest) ==
  CASE ownKnown /\ own -> "own"
    [] ownKnown /\ ~ own /\ labelKnown /\ label -> "label"
    [] ownKnown /\ ~ own /\ labelKnown /\ ~ label /\ restKnown /\ rest -> "placeholder"
    [] ownKnown /\ ~ own /\ labelKnown /\ ~ label /\ restKnown /\ ~ rest -> "absent"
    [] OTHER -> "unknown"

Name ==
  /\ step = "name" /\ step' = "done"
  /\ \E ownKnown \in BOOLEAN, restKnown \in BOOLEAN, labelsRead \in BOOLEAN :
       /\ texts' \in {"own", "placeholder", "none"}
       /\ bearer' \in {0} \cup ToSet(kids)
       /\ name' = NameFrom(ownKnown, texts' = "own",
                           LabelKnown(labelsRead), bearer' \in ToSet(read.list),
                           restKnown, texts' = "placeholder")
  /\ UNCHANGED <<elementVars, planVars, source, tries, certain, number, elements, read>>

-----------------------------------------------------------------------------

Init ==
  /\ home \in {"children", "contents", "none"}
  /\ kids \in {[i \in 1 .. n |-> i] : n \in 0 .. IF home = "none" THEN 0 ELSE MaxKids}
  /\ changed = 0 /\ fresh = MaxKids + 1
  /\ mode \in {"list", "at"} /\ boundary \in BOOLEAN
  /\ wanted \in IF boundary THEN 0 .. 1 ELSE IF mode = "at" THEN 1 .. 2 ELSE {1, MaxKids + 1}
  /\ mode = "at" => ~ boundary
  /\ step = "count" /\ source = "children" /\ tries = 0 /\ certain = TRUE
  /\ number = 0 /\ elements = <<>> /\ read = Failed /\ name = "unknown" /\ texts = "none"
  /\ bearer = 0

Next == KidsChange \/ Count \/ Page \/ PageFails \/ Pick \/ CountAgain \/ Name

Spec == Init /\ [][Next]_vars

-----------------------------------------------------------------------------
(* Properties *)

\* The values the state takes.
TypeOK ==
  /\ Len(kids) <= MaxKids + MaxKidChanges /\ number \in 0 .. Uncounted
  /\ tries \in 0 .. ReadAttempts - 1 /\ changed <= MaxKidChanges
  /\ read.available \in {"yes", "no", "unknown"}
  /\ name \in {"unknown", "absent", "own", "label", "placeholder"}

\* A read that is called complete shows the children that are there, although
\* they come and go between its pages.  Two changes that cancel out, and a change
\* while children are listed that were not counted, are not noticed.
CompleteReadsAreTrue ==
  /\ step \in {"name", "done"} /\ read.complete /\ changed < 2
  /\ number = Uncounted => changed = 0
  => read.list = IF mode = "at" THEN SubSeq(kids, wanted, Smaller(wanted, Len(kids)))
                 ELSE SubSeq(kids, 1, Smaller(wanted, Len(kids)))

\* A name that is known is the one that counts: no stronger source has another
\* text, though its read may have failed, or the children not all been read.
NamesAreTrue ==
  step = "done" /\ mode = "list" =>
    /\ name = "own" => texts = "own"
    /\ name = "label" => texts # "own" /\ bearer \in ToSet(read.list)
    /\ name \in {"placeholder", "absent"} =>
         /\ texts = IF name = "absent" THEN "none" ELSE "placeholder"
         /\ changed = 0 /\ ~ boundary => bearer = 0

NodesAreReadTruly == CompleteReadsAreTrue /\ NamesAreTrue
=============================================================================
