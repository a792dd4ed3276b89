---------------------------- MODULE SelectValue ----------------------------
(***************************************************************************)
(* The select action on macOS (actions/extras.rs, select_menu.rs,          *)
(* select_name.rs, container_select.rs): a combo box is given the value,   *)
(* and its menu used if the value does not show; a pop-up button's menu is *)
(* opened, searched and one item pressed; an item of a list is looked for, *)
(* selected through its container, or pressed.  The application may act    *)
(* late, or not at all, and the user may open a menu meanwhile.            *)
(***************************************************************************)
EXTENDS Naturals, FiniteSets

CONSTANTS
  MaxUserMenus   \* bound: menus the user opens

VARIABLES
  family,     \* select_role_family: "value_or_menu", "menu" or "collection"
  exposed,    \* the control shows its value (exposes_value)
  value,      \* what is selected: "old", "asked" or "other"
  landing,    \* what the application has been told to select and has not yet, or "none"
  shown,      \* the menu on the screen: "none", "ours" or "users"
  coming,     \* our menu is about to open
  has,        \* which menus have an item of the name that is asked for
  nodes,      \* what the collection's nodes say, and the item each belongs to
  opened,     \* how often the user opened a menu
  step,       \* "start", "write", "check", "menu", "open", "seek", "press", "verify",
              \* "close", "search", "select", "press item", "done"
  target,     \* the menu whose item was found, or "none"
  fallback,   \* the menu is used after a written value did not show
  report      \* see Report

controlVars == <<family, exposed, has, nodes>>
vars == <<controlVars, value, landing, shown, coming, opened, step, target, fallback, report>>

\* What the action reports: an outcome ("none" as long as it runs), whether it was
\* verified, and the disposition of the delivery.
Report(outcome, verified, disposition) ==
  [outcome |-> outcome, verified |-> verified, disposition |-> disposition]
Running == Report("none", FALSE, "none")

-----------------------------------------------------------------------------
(* The application and the user *)

Unchanged == UNCHANGED <<controlVars, step, target, fallback, report>>

\* What was asked for happens after all.
Land ==
  /\ landing # "none" /\ value' = landing /\ landing' = "none"
  /\ Unchanged /\ UNCHANGED <<shown, coming, opened>>

MenuOpens ==
  /\ coming /\ coming' = FALSE /\ shown' = "ours"
  /\ Unchanged /\ UNCHANGED <<value, landing, opened>>

\* A menu that was pressed, or that the user has done with, goes.
MenuCloses ==
  /\ step \in {"seek", "press", "verify", "close", "done"} /\ shown # "none" /\ shown' = "none"
  /\ shown = "users" \/ target = "ours"
  /\ Unchanged /\ UNCHANGED <<value, landing, coming, opened>>

UserOpensMenu ==
  /\ step \notin {"start", "done"} /\ family # "collection" /\ opened < MaxUserMenus
  /\ opened' = opened + 1 /\ shown' = "users"
  /\ Unchanged /\ UNCHANGED <<value, landing, coming>>

\* A mutation that the application carries out, now, later or never, and what it
\* answers: "yes", "no" (unsupported: it did nothing) or "unclear" (a failure, or
\* no answer in time).
Answers == {"yes", "no", "unclear"}
Selects(what, answer) ==
  IF answer = "no" THEN UNCHANGED <<value, landing>>
  ELSE \/ value' = what /\ landing' = "none"
       \/ value' = value /\ landing' = what
       \/ UNCHANGED <<value, landing>>

-----------------------------------------------------------------------------
(* Reports *)

Goto(next) == step' = next /\ UNCHANGED report

\* after_delivery: what fails once the value was written was delivered.
Done(outcome, verified, disposition) ==
  /\ step' = "done"
  /\ report' = Report(outcome, verified,
                      IF fallback /\ outcome = "failed" THEN "delivered_unverified"
                      ELSE disposition)

Still == UNCHANGED <<controlVars, opened>>
NothingMoves == Still /\ UNCHANGED <<value, landing, shown, coming>>

-----------------------------------------------------------------------------
(* A combo box (extras.rs) *)

\* select_value
Start ==
  /\ step = "start" /\ NothingMoves /\ UNCHANGED <<target, fallback>>
  /\ \/ family = "value_or_menu" /\ Goto("write")
     \/ family = "menu" /\ Goto("menu")
     \/ family = "collection" /\ Goto("search")
     \/ Done("failed", FALSE, "none")

\* select_combobox: a value that cannot be written is looked for in the menu.
Write ==
  /\ step = "write" /\ Still /\ UNCHANGED <<shown, coming, target, fallback>>
  /\ \E answer \in Answers :
       /\ Selects("asked", answer)
       /\ \/ answer = "yes" /\ Goto("check")
          \/ answer = "yes" /\ Done("failed", FALSE, "delivered_unverified")    \* too late
          \/ answer = "no" /\ Goto("menu")
          \/ answer = "unclear" /\ Done("failed", FALSE, "uncertain")

\* verify_value: the value may be read before it changes.
Check ==
  /\ step = "check" /\ NothingMoves /\ UNCHANGED target
  /\ \/ value = "asked" /\ Done("done", TRUE, "none") /\ UNCHANGED fallback
     \/ value # "asked" /\ Goto("menu") /\ fallback' = TRUE
     \/ Done("failed", FALSE, "delivered_unverified") /\ UNCHANGED fallback

-----------------------------------------------------------------------------
(* A menu (select_menu.rs) *)

\* select_from_menu: a menu that is open already is not used.
Menu ==
  /\ step = "menu" /\ NothingMoves /\ UNCHANGED <<target, fallback>>
  /\ \/ shown = "none" /\ Goto("open")
     \/ Done("failed", FALSE, "none")

\* open_menu: AXShowMenu, or AXPress where that is unsupported.
Open ==
  /\ step = "open" /\ Still /\ UNCHANGED <<value, landing, target, fallback>>
  /\ \E answer \in Answers :
       /\ IF answer = "no" THEN UNCHANGED <<shown, coming>>
          ELSE \/ shown' = "ours" /\ coming' = FALSE
               \/ shown' = shown /\ coming' \in BOOLEAN
       /\ \/ answer = "yes" /\ Goto("seek")
          \/ answer = "no" /\ Done("failed", FALSE, "none")
          \/ answer = "unclear" /\ Done("failed", FALSE, "uncertain")

\* Whatever fails while the menu is open cancels it, and what opened it was
\* delivered; a control may refuse to cancel.
Cancel ==
  /\ shown' \in {"none", shown} /\ (shown # "ours" => shown' = shown)
  /\ Done("failed", FALSE, "delivered_unverified")

\* select_open_menu_item: the menu the application shows is searched for the name
\* until it is found; it may be another menu than the one that was opened.
Seek ==
  /\ step = "seek" /\ Still /\ UNCHANGED <<value, landing, coming, fallback>>
  /\ \/ shown \in has /\ target' = shown /\ Goto("press") /\ UNCHANGED shown
     \/ UNCHANGED target /\ Cancel

\* activate_menu_item: an item whose menu has gone is not pressed.
Press ==
  /\ step = "press" /\ Still /\ UNCHANGED <<coming, target, fallback>>
  /\ \/ /\ shown = target
        /\ \E answer \in Answers :
             /\ Selects(IF target = "ours" THEN "asked" ELSE "other", answer)
             /\ \/ answer = "yes" /\ Goto("close") /\ UNCHANGED shown
                \/ answer # "yes" /\ Cancel
     \/ shown # target /\ UNCHANGED <<value, landing>> /\ Cancel

\* wait_for_menu_to_close, and verify_selected_value where there is a value: the
\* menu is given some time, the value too.
Close ==
  /\ step = "close" /\ Still /\ UNCHANGED <<value, landing, coming, target, fallback>>
  /\ \/ UNCHANGED shown
        /\ IF exposed THEN Goto("verify") ELSE Done("done", shown = "none", "none")
     \/ Cancel

Verify ==
  /\ step = "verify" /\ NothingMoves /\ UNCHANGED <<target, fallback>>
  /\ \/ value = "asked" /\ Done("done", TRUE, "none")
     \/ Done("failed", FALSE, "delivered_unverified")

-----------------------------------------------------------------------------
(* A collection (select_menu.rs, select_name.rs, container_select.rs) *)

Node == [item : 1 .. 2, text : {"asked", "other", "unknown"},
         clicks : {"yes", "no", "unknown", "text field"}]

\* matches_evidence, text_value_matches: a node that can be clicked counts by its
\* name, a text field by its value too; what is not known is not passed over.
Matches(n) == n.text = "asked" /\ n.clicks \in {"yes", "text field"}
Unclear(n) == n.clicks = "unknown" \/ (n.text = "unknown" /\ n.clicks # "no")

\* collection_owner: the items that the matching nodes belong to.
Owners == {n.item : n \in {n \in nodes : Matches(n)}}

\* find_named_descendant: all of it is searched; what cannot be read, or is too
\* large, makes the search fail, as does a second item of the name.
Search ==
  /\ step = "search" /\ NothingMoves /\ UNCHANGED <<target, fallback>>
  /\ \/ /\ Cardinality(Owners) = 1 /\ ~ \E n \in nodes : Unclear(n)
        /\ Goto("select")
     \/ Done("failed", FALSE, "not_delivered")

\* select_within_container: AXSelected of the item, then the selections of its
\* containers; what was written must show, or there is no going on.
Select ==
  /\ step = "select" /\ Still /\ UNCHANGED <<shown, coming, target, fallback>>
  /\ \E answer \in Answers :
       /\ Selects("asked", answer)
       /\ \/ answer = "yes" /\ value' = "asked" /\ Done("done", TRUE, "none")
          \/ answer = "yes" /\ value' # "asked" /\ Done("failed", FALSE, "delivered_unverified")
          \/ answer = "unclear" /\ Done("failed", FALSE, "uncertain")
          \/ answer = "no" /\ (Goto("select") \/ Goto("press item"))

\* deliver_candidate: a press cannot be verified.
PressItem ==
  /\ step = "press item" /\ Still /\ UNCHANGED <<shown, coming, target, fallback>>
  /\ \E answer \in Answers :
       /\ Selects("asked", answer)
       /\ \/ answer = "yes" /\ Done("done", FALSE, "none")
          \/ answer = "no" /\ Done("failed", FALSE, "not_delivered")
          \/ answer = "unclear" /\ Done("failed", FALSE, "uncertain")

-----------------------------------------------------------------------------

Init ==
  /\ family \in {"value_or_menu", "menu", "collection"} /\ exposed \in BOOLEAN
  /\ has \in SUBSET {"ours", "users"}
  /\ family = "collection" => has = {} /\ ~ exposed
  /\ nodes \in IF family = "collection" THEN {{m, n} : m \in Node, n \in Node} ELSE {{}}
  /\ value = "old" /\ landing = "none"
  /\ shown \in IF family = "collection" THEN {"none"} ELSE {"none", "users"}
  /\ coming = FALSE /\ opened = 0
  /\ step = "start" /\ target = "none" /\ fallback = FALSE /\ report = Running

Next ==
  \/ Land \/ MenuOpens \/ MenuCloses \/ UserOpensMenu
  \/ Start \/ Write \/ Check
  \/ Menu \/ Open \/ Seek \/ Press \/ Close \/ Verify
  \/ Search \/ Select \/ PressItem

Spec == Init /\ [][Next]_vars

-----------------------------------------------------------------------------
(* Properties *)

\* The values the state takes.
TypeOK ==
  /\ value \in {"old", "asked", "other"} /\ landing \in {"none", "asked", "other"}
  /\ shown \in {"none", "ours", "users"} /\ target \in {"none", "ours", "users"}
  /\ report.disposition \in {"none", "not_delivered", "uncertain", "delivered_unverified"}

\* The items that may have the name: not all of it was read.
Named == {n.item : n \in {n \in nodes : n.text # "other" /\ n.clicks # "no"}}

\* Nothing but what was asked for is selected, however many items have its name,
\* unless an item of that name is in a menu the user opens meanwhile
\* (find_named_descendant, select_from_menu).
OnlyTheAsked ==
  /\ "other" \in {value, landing} => target = "users"
  /\ target = "users" => opened > 0
  /\ family = "collection" /\ Cardinality(Named) # 1 => value = "old" /\ landing = "none"

\* A selection is reported as verified only when it showed, where there is a value
\* or a selection to look at (verify_selected_value, verify_selection).
VerifiedIsSelected ==
  report.verified /\ (exposed \/ family = "collection") =>
    "asked" \in {value, landing} \/ target = "users"

\* What is reported as not delivered did nothing, now or later, and a failure says
\* so of nothing else: neither a value written before nor a menu that was opened.
NotDeliveredIsTrue ==
  report.disposition = "not_delivered" =>
    value = "old" /\ landing = "none" /\ shown # "ours" /\ ~ coming

SelectionIsHonest == OnlyTheAsked /\ VerifiedIsSelected /\ NotDeliveredIsTrue

-----------------------------------------------------------------------------
(* The inductive invariant *)

\* The steps of a control that has a menu, and those of a collection, where nothing
\* is selected until one answer of the application ends the call.
MenuSteps == {"write", "check", "menu", "open", "seek", "press", "close", "verify"}
CollectionSteps == {"search", "select", "press item"}

StepsAreOfTheFamily ==
  /\ step \in MenuSteps => family # "collection"
  /\ step \in CollectionSteps => family = "collection"
  /\ family = "collection" => shown = "none" /\ ~ coming /\ target = "none"
  /\ step \in CollectionSteps \cup {"start"} => value = "old" /\ landing = "none"
  /\ step \in {"select", "press item"} => Cardinality(Named) = 1

\* A menu that is searched is the one that was opened, or one the user opened since.
MenusAreKnown ==
  /\ step \in {"open", "seek", "press", "close", "verify"} /\ shown = "users" => opened > 0
  /\ target # "none" => step \in {"press", "close", "verify", "done"}
  /\ step = "press" => target # "none"

SelectInv ==
  /\ nodes \subseteq Node /\ has \subseteq {"ours", "users"} /\ opened \in Nat
  /\ value \in {"old", "asked", "other"} /\ landing \in {"none", "asked", "other"}
  /\ shown \in {"none", "ours", "users"} /\ target \in {"none", "ours", "users"}
  /\ step # "done" => report = Running
  /\ StepsAreOfTheFamily /\ MenusAreKnown /\ SelectionIsHonest
=============================================================================
