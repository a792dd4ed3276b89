---------------------------- MODULE Inventories ----------------------------
(***************************************************************************)
(* The inventories of the macOS adapter: list-windows of all applications  *)
(* (window_inventory_global.rs) or of one (window_inventory.rs), the       *)
(* focused window, and list-apps (app_inventory.rs).  Each joins sources   *)
(* that are read one after the other (the window server, the workspace,    *)
(* ps, libproc, accessibility) while windows open and close, another       *)
(* application comes to the front, and a process ends and another one gets *)
(* its pid.                                                                *)
(*                                                                         *)
(* Process 1 may be replaced by another with its pid; process 2 stays.     *)
(* Bounds, visibility and what accessibility says of single windows are    *)
(* left out.                                                               *)
(***************************************************************************)
EXTENDS Naturals, FiniteSets

CONSTANT MaxDesktopChanges   \* bound: what happens on the desktop meanwhile

VARIABLES
  inventory,   \* which one is taken
  desk,        \* the desktop: who runs, which windows are open, who is in front
  happened,    \* how many changes there were
  dated,       \* the workspace knows the launch date of process 1
  alike,       \* the process that gets the pid has the name of the former one
  stage,
  owners,      \* the workspace as it was read first
  records,     \* the windows (or applications) that this capture found
  prior,       \* those of the capture before it, if there was one
  focusIn,     \* the window that was found focused, and whether by its number
  listed,      \* what is reported
  verdict,     \* "none", "listed" or "failed"
  wasFocused   \* the windows that the user saw focused since the start

choiceVars == <<inventory, dated, alike>>
deskVars == <<desk, happened, wasFocused>>
readVars == <<stage, owners, records, prior, focusIn>>
vars == <<choiceVars, deskVars, readVars, listed, verdict>>

Pids == {1, 2}
AllWindows == 1 .. 4
\* Windows 1 and 2 are of the first process 1, 3 of the one that replaces it; a
\* number is not used again.
Pid(w) == IF w = 4 THEN 2 ELSE 1
Life(w) == IF w = 3 THEN 2 ELSE 1
Name(p, life) ==
  IF p = 2 THEN "browser" ELSE IF life = 1 \/ alike THEN "editor" ELSE "other"
\* The windows of process 1 have the same title.
Title(w) == IF w = 4 THEN "page" ELSE "document"

Nothing == [taken |-> FALSE, found |-> {}]
NoFocus == [window |-> 0, byNumber |-> TRUE]
Captured(found) == [taken |-> TRUE, found |-> found]

Running == {p \in Pids : desk.alive[p] # 0}

-----------------------------------------------------------------------------
(* What happens on the desktop *)

FocusOf(d) == IF d.front = 0 THEN {} ELSE {d.focus[d.front]} \ {0}

Becomes(d) ==
  /\ desk' = d /\ happened' = happened + 1
  /\ wasFocused' = wasFocused \cup FocusOf(d)

Replaced(d, life, new, to) ==
  [d EXCEPT !.alive[1] = life, !.open = (@ \ {1, 2, 3}) \cup new, !.front = to,
            !.focus[1] = IF new = {} THEN 0 ELSE 3]

Changes(d) ==
  {Replaced(d, 0, {}, IF d.front = 1 THEN 2 ELSE d.front)}
    \cup {Replaced(d, 2, new, to) : new \in {{}, {3}}, to \in {d.front, 1}}
    \cup {[d EXCEPT !.open = @ \cup {2}, !.focus[1] = f] : f \in {d.focus[1], 2}}
    \cup {[d EXCEPT !.open = @ \ {w}, !.focus[1] = IF @ = w THEN 0 ELSE @] : w \in {1, 2}}
    \cup {[d EXCEPT !.focus[1] = w] : w \in {1, 2}}
    \cup {[d EXCEPT !.front = p] : p \in Pids}

\* Windows are those of the process that runs, the focused one is open.
Possible(d) ==
  /\ \A w \in d.open : d.alive[Pid(w)] = Life(w)
  /\ \A p \in Pids : d.focus[p] = 0 \/ (d.focus[p] \in d.open /\ Pid(d.focus[p]) = p)
  /\ d.front # 0 => d.alive[d.front] # 0

\* A process that ended does not run again, and a window that closed stays closed.
Change ==
  /\ verdict = "none" /\ happened < MaxDesktopChanges
  /\ \E d \in Changes(desk) :
       /\ d # desk /\ Possible(d)
       /\ desk.alive[1] = 2 => d.alive[1] # 1
       /\ Becomes(d)
  /\ UNCHANGED <<choiceVars, readVars, listed, verdict>>

-----------------------------------------------------------------------------
(* Reading the sources *)

Read(s) == stage' = s /\ UNCHANGED <<choiceVars, deskVars, listed, verdict>>
Retry(s) == /\ Read(s) /\ UNCHANGED owners
            /\ records' = {} /\ prior' = Nothing /\ focusIn' = NoFocus

Conclude(v, found) ==
  /\ verdict' = v /\ listed' = found /\ stage' = "done"
  /\ UNCHANGED <<choiceVars, deskVars, owners, records, prior>>

Generation(p) == IF dated \/ p = 2 THEN desk.alive[p] ELSE 0
Snapshot ==
  [apps |-> {[pid |-> p, name |-> Name(p, desk.alive[p]), launch |-> Generation(p)] : p \in Running},
   front |-> desk.front]

\* eligible_pids, matching_pids: for the inventory of one application, those of
\* its name.
Selected(s) ==
  IF inventory = "scoped" THEN {a \in s.apps : a.name = "editor"} ELSE s.apps
PidsOf(apps) == {a.pid : a \in apps}

\* window_owner_snapshot_until, focused_application_pid.
ReadOwners ==
  /\ stage = "owners"
  /\ owners' = Snapshot
  /\ Read("windows") /\ UNCHANGED <<records, prior, focusIn>>

\* The application of the inventory has to run; there is no focused window when
\* no application is focused.
Refused ==
  /\ stage = "windows"
  /\ \/ inventory = "scoped" /\ Selected(owners) = {} /\ Conclude("failed", {})
     \/ inventory = "focused" /\ owners.front = 0 /\ Conclude("listed", {})
  /\ focusIn' = NoFocus

\* records_from_dictionaries.
ReadWindows ==
  /\ stage = "windows"
  /\ inventory = "scoped" => Selected(owners) # {}
  /\ inventory = "focused" => owners.front # 0
  /\ LET pids == IF inventory = "focused" THEN {owners.front} ELSE PidsOf(Selected(owners))
         found == {w \in desk.open : Pid(w) \in pids}
     IN  records' = {[window |-> w, instance |-> 0] : w \in found}
  /\ Read("tokens") /\ UNCHANGED <<owners, prior, focusIn>>

\* stabilize_records_until: until two captures agree.
Agreed(found, next) ==
  \/ prior = Captured(found) /\ Read(next) /\ prior' = Nothing
  \/ prior # Captured(found) /\ Read("windows") /\ prior' = Captured(found)

\* capture_process_instances: which process has the pid now.
ReadTokens ==
  /\ stage = "tokens"
  /\ LET found == {[r EXCEPT !.instance = desk.alive[Pid(r.window)]] : r \in records}
     IN  \/ /\ \E r \in found : r.instance = 0
            /\ Retry("windows")
         \/ /\ \A r \in found : r.instance # 0
            /\ records' = found /\ Agreed(found, "front") /\ UNCHANGED <<owners, focusIn>>

\* validate_record_generations; without a launch date the process that has the
\* pid now is compared.
SameGeneration(r, apps) ==
  \E a \in apps : /\ a.pid = Pid(r.window)
                  /\ r.instance = IF a.launch # 0 THEN a.launch ELSE desk.alive[a.pid]

Owned(apps) == \A r \in records : SameGeneration(r, apps)
Alive == \A r \in records : desk.alive[Pid(r.window)] = r.instance

\* The inventory of one application, and of the focused window, looks at all the
\* processes it found; that of all at the one that was in front.
Looked ==
  {p \in {Pid(r.window) : r \in records} : inventory = "global" => p = owners.front}

\* A source that contradicts another: all is read again, or the command fails.
Contradicted ==
  IF inventory = "focused" THEN Conclude("failed", {}) /\ focusIn' = NoFocus ELSE Retry("owners")

\* is_frontmost; a read that fails says no.
ReadFront ==
  /\ stage = "front"
  /\ LET valid == IF inventory = "global" THEN Owned(owners.apps) ELSE Alive
     IN  \/ ~ valid /\ Contradicted
         \/ /\ valid
            /\ \/ desk.front \in Looked /\ Read("focus")
               \/ Read("validate")
            /\ UNCHANGED <<owners, records, prior, focusIn>>

\* The records that the focused window joins: by number, else by title.
Joined(w, p, byNumber) ==
  IF byNumber THEN {r \in records : r.window = w}
  ELSE {r \in records : Pid(r.window) = p /\ Title(r.window) = Title(w)}

\* focused_identity, matching_focus_windows, matches_focused_window.  In the
\* inventory of all, a focused window that joins no record contradicts it.
ReadFocus ==
  /\ stage = "focus"
  /\ \E p \in Looked, byNumber \in BOOLEAN :
       LET w == desk.focus[p]
           joined == IF w = 0 THEN {} ELSE Joined(w, p, byNumber)
       IN  IF inventory = "global" /\ w # 0 /\ joined = {} THEN Contradicted
           ELSE /\ \/ Cardinality(joined) # 1 /\ focusIn' = NoFocus
                   \/ \E r \in joined : /\ joined = {r}
                                       /\ focusIn' = [window |-> r.window, byNumber |-> byNumber]
                /\ Read("validate") /\ UNCHANGED <<owners, records, prior>>

\* validate_snapshot_pair, validate_scoped_snapshot_pair, and the second look at
\* the focused application.
Confirmed ==
  LET now == Snapshot
  IN  CASE inventory = "global" -> now = owners /\ Owned(now.apps)
        [] inventory = "focused" -> Alive /\ desk.front = owners.front
        [] inventory = "scoped" ->
             /\ Alive /\ Owned(now.apps)
             /\ {[a EXCEPT !.name = ""] : a \in Selected(now)}
                  = {[a EXCEPT !.name = ""] : a \in Selected(owners)}

Validate ==
  /\ stage = "validate"
  /\ \/ ~ Confirmed /\ Contradicted
     \/ /\ Confirmed /\ UNCHANGED focusIn
        /\ Conclude("listed", IF inventory = "focused"
                              THEN {r \in records : r.window = focusIn.window} ELSE records)

-----------------------------------------------------------------------------
(* list-apps: the workspace and ps *)

Listing == {[pid |-> p, name |-> Name(p, desk.alive[p]), instance |-> 0] : p \in Running}
Tokens(apps) == {[a EXCEPT !.instance = desk.alive[a.pid]] : a \in apps}

ReadWorkspace ==
  /\ stage = "workspace" /\ records' = Listing
  /\ Read("workspace tokens") /\ UNCHANGED <<owners, prior, focusIn>>

ReadWorkspaceTokens ==
  /\ stage = "workspace tokens"
  /\ \/ /\ PidsOf(records) \subseteq Running
        /\ records' = Tokens(records) /\ Read("ps") /\ UNCHANGED <<owners, prior, focusIn>>
     \/ ~ PidsOf(records) \subseteq Running /\ Retry("workspace")

ReadPs ==
  /\ stage = "ps" /\ owners' = [apps |-> Listing, front |-> 0]
  /\ Read("ps tokens") /\ UNCHANGED <<records, prior, focusIn>>

\* merge_apps: what both name must be of one instance, and has the name of the
\* workspace.
Merge(apps) ==
  records \cup {a \in apps : a.pid \notin PidsOf(records)}
OneInstance(apps) == \A a \in apps, b \in records : a.pid = b.pid => a.instance = b.instance

\* ps leaves out a process that is gone by now; validate_app_instances comes at
\* once, and stabilize_apps_until takes two captures that agree.
ReadPsTokens ==
  /\ stage = "ps tokens"
  /\ LET apps == {a \in Tokens(owners.apps) : a.instance # 0}
     IN  \/ ~ OneInstance(apps) /\ Retry("workspace")
         \/ /\ OneInstance(apps) /\ records' = Merge(apps)
            /\ Read("instances") /\ UNCHANGED <<owners, prior, focusIn>>

ValidateInstances ==
  /\ stage = "instances"
  /\ \/ (\E a \in records : desk.alive[a.pid] # a.instance) /\ Retry("workspace")
     \/ /\ \A a \in records : desk.alive[a.pid] = a.instance
        /\ \/ prior = Captured(records) /\ Conclude("listed", records) /\ UNCHANGED focusIn
           \/ /\ prior # Captured(records) /\ prior' = Captured(records) /\ Read("workspace")
              /\ UNCHANGED <<owners, records, focusIn>>

\* The deadline.
TimeOut ==
  /\ stage \notin {"done"} /\ Conclude("failed", {}) /\ focusIn' = NoFocus

-----------------------------------------------------------------------------

Init ==
  /\ inventory \in {"global", "scoped", "focused", "apps"}
  /\ alike \in BOOLEAN
  /\ dated \in IF inventory \in {"global", "scoped"} THEN BOOLEAN ELSE {TRUE}
  /\ desk = [alive |-> [p \in Pids |-> 1], open |-> {1, 4}, front |-> 1,
             focus |-> [p \in Pids |-> IF p = 1 THEN 1 ELSE 4]]
  /\ happened = 0 /\ wasFocused = FocusOf(desk)
  /\ stage = IF inventory = "apps" THEN "workspace" ELSE "owners"
  /\ owners = [apps |-> {}, front |-> 0] /\ records = {} /\ prior = Nothing
  /\ focusIn = NoFocus
  /\ listed = {} /\ verdict = "none"

WindowStep ==
  \/ ReadOwners \/ Refused \/ ReadWindows \/ ReadTokens
  \/ ReadFront \/ ReadFocus \/ Validate
AppStep ==
  ReadWorkspace \/ ReadWorkspaceTokens \/ ReadPs \/ ReadPsTokens \/ ValidateInstances

Next == Change \/ WindowStep \/ AppStep \/ TimeOut

Spec == Init /\ [][Next]_vars

-----------------------------------------------------------------------------
(* Properties *)

\* The values the state takes.
TypeOK ==
  /\ desk.alive \in [Pids -> 0 .. 2] /\ desk.open \subseteq AllWindows /\ Possible(desk)
  /\ happened \in 0 .. MaxDesktopChanges /\ verdict \in {"none", "listed", "failed"}
  /\ focusIn.window \in {0} \cup AllWindows /\ wasFocused \subseteq AllWindows

\* What is listed is listed with the process it really belongs to, although the
\* process is looked up by its pid later than the window, or its name, was read.
OwnersAreReal ==
  verdict = "listed" =>
    \A r \in listed :
      IF inventory = "apps" THEN r.name = Name(r.pid, r.instance)
      ELSE r.instance = Life(r.window)

\* What is there all the time is listed.
NothingSteadyIsMissed ==
  verdict = "listed" =>
    CASE inventory = "apps" -> {p \in Pids : desk.alive[p] = 1} \subseteq PidsOf(listed)
      [] inventory = "global" -> desk.open \cap {1, 4} \subseteq {r.window : r \in listed}
      [] inventory = "scoped" -> desk.open \cap {1} \subseteq {r.window : r \in listed}
      [] inventory = "focused" -> TRUE

\* The window that is reported as focused was, meanwhile, the focused window of
\* the application in front; unless it had to be told by its title, and except in
\* the inventory of one application, which does not look again who is in front.
FocusIsReal ==
  verdict = "listed" /\ inventory # "scoped" /\ focusIn.window # 0 /\ focusIn.byNumber =>
    focusIn.window \in wasFocused

InventoryIsTrue == OwnersAreReal /\ NothingSteadyIsMissed /\ FocusIsReal
=============================================================================
