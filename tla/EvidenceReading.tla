-------------------------- MODULE EvidenceReading --------------------------
(***************************************************************************)
(* Reading what one element of an application says of itself, and what can *)
(* be done with it (node_attribute_fetch.rs, query/node_read.rs,           *)
(* action_list.rs, post_state.rs): one call for most attributes, and       *)
(* further ones for the text of its label, its value, the number of its    *)
(* characters, whether it is editable, and its actions.  Any call may fail,  *)
(* and the element may change or go between two of them; what is not       *)
(* certain is to be reported as unknown.  Children are in NodeReading.     *)
(***************************************************************************)
EXTENDS Naturals, FiniteSets, Sequences

CONSTANTS
  MaxReads,      \* how often it is read for an action (3 in the code)
  MaxEdits,      \* bound: how often the element changes
  MaxSpoiled     \* bound: how many attributes of the first call fail

VARIABLES
  role,      \* what the element is: "field" for text, "static" text or "check"
  shows,     \* what it says of itself, see Features
  value,     \* what is in it: "text", "empty" or "none"
  before,    \* what it was like before it changed
  edits,     \* how often it changed
  wants,     \* what is asked for: "name", "value", "states", "actions"
  live,      \* it is read for an action (post_state.rs), not for a query
  step,      \* "batch", one of Order, or "done"
  got,       \* what was read of each attribute: "yes", "no" or "unknown", see Fields
  busy,      \* a call was not answered in time
  over,      \* the deadline has passed
  attempt,   \* how often it was read
  report     \* see Report

elementVars == <<role, shows, value, before, edits>>
callVars == <<wants, live>>
vars == <<elementVars, callVars, step, got, busy, over, attempt, report>>

\* It has a "title", a "label" or one that is "veiled" as it shows a secret; it keeps its
\* value "secure", is "editable", and can be "press"ed.
Features == {"title", "label", "veiled", "secure", "editable", "press"}
\* The attributes; "state" stands for its other states and its bounds, "settable" for
\* the second time that is asked whether it is editable.
Fields == {"role", "secure", "title", "label", "state", "value", "editable", "settable",
           "press"}

\* A snapshot asks for all of it; its halves have only the value in common.
Plans == {{"name", "value"}, {"value", "states", "actions"}}
Relevant(f) ==
  CASE f \in {"title", "label", "veiled"} -> "name" \in wants
    [] f = "secure" -> role = "field" /\ "value" \in wants
    [] f = "editable" -> role # "static" /\ "states" \in wants
    [] f = "press" -> "actions" \in wants

Values == {"text", "none"} \union (IF role = "field" THEN {"empty"} ELSE {})
Now == [shows |-> shows, value |-> value]

\* What is reported: an outcome ("none" while it runs, "ok", or the error), and of the
\* name, the value, the states and the actions what is known; "read only" stands for the
\* states, and `complete` says that the children were read as well.
Report(outcome, name, content, states, actions, complete) ==
  [outcome |-> outcome, name |-> name, content |-> content, states |-> states,
   actions |-> actions, complete |-> complete]
Nothing(outcome) == Report(outcome, "unknown", "unknown", {"unknown"}, {"unknown"}, FALSE)

-----------------------------------------------------------------------------
(* The application *)

\* Before the call that the change matters to: the next one reads it, or reads the value.
Changeable ==
  CASE step = "label" -> {"label"}
    [] step = "value" -> {"secure"}
    [] step \in {"editable", "settable"} -> {"editable"}
    [] OTHER -> {}
Change ==
  /\ edits < MaxEdits /\ edits' = edits + 1
  /\ before' = Now
  /\ \/ \E f \in Changeable :
          /\ Relevant(f) /\ UNCHANGED value
          /\ shows' = IF f \in shows THEN shows \ {f} ELSE shows \union {f}
          /\ ~ {"label", "veiled"} \subseteq shows'
     \/ /\ step \in {"value", "count"} /\ UNCHANGED shows
        /\ value' \in Values \ {value}
  /\ UNCHANGED <<role, callVars, step, got, busy, over, attempt, report>>

\* A call is answered, not in time ("busy"), or with another failure, which makes a
\* difference only to what is read again; past the deadline there is no call at all
\* (ax_ipc).
Answers == IF over THEN {"busy"} ELSE {"answered", "busy"} \union (IF live THEN {"failed"} ELSE {})
Has(feature) == IF feature \in shows THEN "yes" ELSE "no"
Heard(answer, content) == IF answer = "answered" THEN content ELSE "unknown"

-----------------------------------------------------------------------------
(* What is read, and in which order *)

\* The role of the element as far as it is known.
Role(g) == IF g.role = "yes" THEN role ELSE "unknown"
RoleKnown(g) == g.role = "yes" /\ g.secure # "unknown"

\* should_read_value
ValueIsRead(g) ==
  /\ RoleKnown(g) /\ g.secure = "no"
  /\ \/ "value" \in wants
     \/ "name" \in wants /\ role = "static"
     \/ "states" \in wants /\ role = "check"

BearsValue(g) == Role(g) \in {"field", "check"}

Order == <<"label", "value", "count", "editable", "press", "settable", "children">>
Needed(s, g) ==
  CASE s = "label" -> g.label = "yes"
    [] s = "value" -> ValueIsRead(g)
    [] s = "count" -> g.value = "blank"
    [] s = "editable" -> "states" \in wants /\ Role(g) = "field"
    [] s = "press" -> "actions" \in wants
    [] s = "settable" -> "actions" \in wants /\ BearsValue(g) /\ g.editable \notin {"yes", "no"}
    [] s = "children" -> TRUE

\* The next call that is needed.
Proceed ==
  LET at == IF step = "batch" THEN 0 ELSE CHOOSE i \in DOMAIN Order : Order[i] = step
      rest == {i \in DOMAIN Order : i > at /\ Needed(Order[i], got')}
  IN  step' = Order[CHOOSE i \in rest : \A j \in rest : i <= j]

\* One call: how it is answered, and what is then known of an attribute.
Call(field, content) ==
  \E answer \in Answers :
    /\ got' = [got EXCEPT ![field] = Heard(answer, content)]
    /\ busy' = (busy \/ (live /\ answer = "busy"))
    /\ Proceed /\ UNCHANGED <<over, report>>

\* A call that is tried three times if need be, and whose answer is not used if it comes
\* past the deadline (read_recovery), is as good as one.
Recovered(field, content) == Call(field, content)

\* What is not read is neither known nor unknown.
Unread == [f \in Fields |-> IF f \in {"editable", "settable"} THEN "unread" ELSE "no"]

\* Of what was read, the end keeps whether the role was known.
Done(r) ==
  /\ report' = r /\ step' = "done" /\ busy' = FALSE /\ attempt' = 1
  /\ got' = [Unread EXCEPT !.role = got.role, !.secure = got.secure]
  /\ UNCHANGED before

-----------------------------------------------------------------------------
(* One attempt (fetch_node_attrs_with_status_for, read_node) *)

\* attribute_mask, without the value: that is only read of what is known not to be secure.
Asked == {"role", "secure"}
  \union (IF "name" \in wants THEN {"title", "label"} ELSE {})
  \union (IF "states" \in wants THEN {"state"} ELSE {})

Content(f) ==
  CASE f \in {"role", "state"} -> "yes"
    [] f = "label" -> IF {"label", "veiled"} \intersect shows # {} THEN "yes" ELSE "no"
    [] OTHER -> Has(f)

\* A value that would be wanted, but not of an element of which so little is known.
Withheld(g) ==
  [g EXCEPT !.value = IF "value" \in wants /\ ~ RoleKnown(g) THEN "unknown" ELSE "no"]

Batch ==
  /\ step = "batch" /\ UNCHANGED <<elementVars, callVars, attempt, report>>
  /\ \E answer \in Answers, spoiled \in SUBSET Asked :
       /\ IF answer = "answered" THEN Cardinality(spoiled) <= MaxSpoiled ELSE spoiled = Asked
       /\ got' = Withheld([f \in Fields |-> IF f \in spoiled THEN "unknown"
                                            ELSE IF f \in Asked THEN Content(f) ELSE Unread[f]])
       /\ busy' \in IF live /\ answer = "answered" /\ spoiled # {} THEN {busy, TRUE}
                    ELSE {busy \/ (live /\ answer = "busy")}
  /\ Proceed /\ UNCHANGED over

\* title_ui_element_text: its title, else its value where it is text and not secure,
\* else its description.
TextOfLabel == Has("label")

Label ==
  /\ step = "label" /\ UNCHANGED <<elementVars, callVars, attempt>>
  /\ Call("label", TextOfLabel)

Value ==
  /\ step = "value" /\ UNCHANGED <<elementVars, callVars, attempt>>
  /\ Call("value", IF value = "text" THEN "yes" ELSE IF role = "field" THEN "blank" ELSE "no")

\* A text field without a value is empty if it has no characters (empty_text.rs).
Count ==
  /\ step = "count" /\ UNCHANGED <<elementVars, callVars, attempt>>
  /\ Call("value", IF value = "empty" THEN "empty" ELSE "no")

\* read_readonly; if there is no time left, it is not even asked.
Editable ==
  /\ step = "editable" /\ UNCHANGED <<elementVars, callVars, attempt>>
  /\ \/ over' = TRUE /\ UNCHANGED <<got, busy, report>> /\ Proceed
     \/ Recovered("editable", Has("editable"))

\* read_platform_available_actions: the names of the actions, and whether the value can
\* be set where that was not found out before.
Press ==
  /\ step = "press" /\ UNCHANGED <<elementVars, callVars, attempt>>
  /\ Recovered("press", Has("press"))

Settable ==
  /\ step = "settable" /\ UNCHANGED <<elementVars, callVars, attempt>>
  /\ Recovered("settable", Has("editable"))

\* One of the calls says that the element is gone, or the permission to read it.
Fails ==
  /\ step # "done" /\ ~ over /\ Done(Nothing("gone"))
  /\ UNCHANGED <<role, shows, value, edits, callVars, over>>

-----------------------------------------------------------------------------
(* What is made of it (evidence_fields.rs, node_read.rs) *)

\* stronger_name_sources, then the children; the title stands for what is read with it.
Sources == <<"label", "title">> \o (IF Role(got) = "static" THEN <<"value">> ELSE <<>>)
Name(complete) ==
  LET telling == {i \in DOMAIN Sources : got[Sources[i]] \in {"yes", "unknown"}}
      first == CHOOSE i \in telling : \A j \in telling : i <= j
  IN  CASE "name" \notin wants -> "unknown"
        [] telling = {} -> IF complete THEN "absent" ELSE "unknown"
        [] OTHER -> IF got[Sources[first]] = "yes" THEN Sources[first] ELSE "unknown"

ValueField == IF "value" \in wants THEN got.value ELSE "unknown"

\* states_unknown
States ==
  IF "states" \notin wants \/ ~ RoleKnown(got)
     \/ "unknown" \in {got.state, got.value, got.editable} THEN {"unknown"}
  ELSE IF got.editable = "no" THEN {"read only"} ELSE {}

\* Without one of the answers the actions are not known.
Actions ==
  IF "actions" \notin wants \/ "unknown" \in {got.press, got.settable} THEN {"unknown"}
  ELSE {a \in {"click", "set value"} :
          IF a = "click" THEN got.press = "yes"
          ELSE BearsValue(got) /\ "yes" \in {got.editable, got.settable}}

Evidence(complete) ==
  Report("ok", Name(complete), ValueField, States, Actions, complete)

\* essential_live_evidence_complete
Essential(e) ==
  RoleKnown(got) /\ e.content # "unknown" /\ "unknown" \notin e.states \union e.actions

\* read_live_observation: evidence that is not complete is read again a few
\* times if a call was not answered in time.
Observed(e, late) ==
  \/ /\ late \/ Essential(e) \/ attempt = MaxReads \/ ~ busy
     /\ Done(IF late THEN Nothing("timeout")
             ELSE IF Essential(e) THEN e ELSE Nothing("incomplete"))
  \/ /\ ~ late /\ ~ Essential(e) /\ attempt < MaxReads /\ busy
     /\ attempt' = attempt + 1 /\ got' = Unread /\ busy' = FALSE /\ step' = "batch"
     /\ before' = Now /\ UNCHANGED report

\* The children are read as well (child_read.rs).
Finish ==
  /\ step = "children" /\ UNCHANGED <<role, shows, value, edits, callVars, over>>
  /\ \E complete \in BOOLEAN, late \in {over, TRUE} :
       /\ IF live THEN complete ELSE late => ~ complete
       /\ IF live THEN Observed(Evidence(complete), late) ELSE Done(Evidence(complete))

-----------------------------------------------------------------------------

Init ==
  /\ live \in BOOLEAN /\ wants \in Plans /\ (live => "actions" \in wants)
  /\ role \in {"field", "static", "check"}
  /\ shows \in SUBSET {f \in Features : Relevant(f)} /\ ~ {"label", "veiled"} \subseteq shows
  /\ value \in Values /\ before = Now /\ edits = 0
  /\ step = "batch" /\ got = Unread /\ busy = FALSE /\ over = FALSE /\ attempt = 1
  /\ report = Nothing("none")

Next ==
  \/ Change
  \/ Batch \/ Label \/ Value \/ Count \/ Editable \/ Press \/ Settable \/ Fails \/ Finish

Spec == Init /\ [][Next]_vars

-----------------------------------------------------------------------------
(* Properties *)

\* The values the state takes.
TypeOK ==
  /\ shows \subseteq Features /\ edits \in 0 .. MaxEdits /\ attempt \in 1 .. MaxReads
  /\ \A f \in Fields : got[f] \in {"yes", "no", "unknown", "unread", "blank", "empty"}
  /\ report.outcome \in {"none", "ok", "gone", "timeout", "incomplete"}

\* The strongest name an element like t has.
NameOf(t) ==
  CASE "label" \in t.shows -> "label"
    [] "title" \in t.shows -> "title"
    [] role = "static" /\ t.value = "text" -> "value"
    [] OTHER -> "absent"

\* What is reported as known is what the element was like at some moment of the read, and
\* as one state of it; a source that could not be read never makes way for a weaker one
\* (name_field, should_read_value).  The exception is a role that could not be read: the
\* name and the actions are then those of an element of no known role.
KnownIsTrue ==
  report.outcome = "ok" =>
    \E t \in {before, Now} :
      /\ RoleKnown(got) /\ report.name # "unknown" => report.name = NameOf(t)
      /\ report.content = "yes" => t.value = "text"
      /\ report.content = "empty" => t.value = "empty"
      /\ report.content = "no" => t.value # "text" \/ "secure" \in t.shows
      /\ RoleKnown(got) /\ "unknown" \notin report.actions =>
           report.actions = {a \in {"click", "set value"} :
                               IF a = "click" THEN "press" \in t.shows
                               ELSE role # "static" /\ "editable" \in t.shows}

\* A field is never said to be editable that is not, as long as the read was complete
\* (read_readonly gives no error when it has no time left).
ReadOnlyIsSeen ==
  report.outcome = "ok" /\ report.complete /\ role = "field" /\ "unknown" \notin report.states =>
    \E t \in {before, Now} : ("read only" \in report.states) = ("editable" \notin t.shows)

\* The value of an element that was secure when its role was read is not read, nor is it
\* ever part of a name (should_read_value, title_ui_element_text).
SecretsAreKept == got.value \in {"yes", "blank", "empty"} => "secure" \notin before.shows

\* What is read for an action is complete, or an error says that it is not, however often
\* it was read (read_live_observation).
LiveIsComplete ==
  live /\ report.outcome = "ok" =>
    RoleKnown(got) /\ "unknown" \notin {report.content} \union report.states \union report.actions

EvidenceIsTrue == KnownIsTrue /\ ReadOnlyIsSeen /\ SecretsAreKept /\ LiveIsComplete
=============================================================================
