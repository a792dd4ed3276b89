------------------------- MODULE NotificationCenter -------------------------
(***************************************************************************)
(* Notification Center of macOS, crates/macos/src/notifications/: a        *)
(* session opens the center when it is closed and puts everything back;    *)
(* in between, notifications are listed, dismissed or acted upon by index. *)
(*                                                                         *)
(* Notifications are numbered in the order of their arrival, the newest is *)
(* shown first; two of equal parity look alike (app, title and body).      *)
(* `hindered` says that the user closed or opened the center or changed    *)
(* the frontmost application, or that the accessibility API gave a wrong   *)
(* picture, or that the center stayed open after the Escape that was to    *)
(* close it, which close_nc does not look at (nc_session.rs:304-321):      *)
(* nothing is promised then of the center or of the count.                 *)
(***************************************************************************)
EXTENDS Naturals, Sequences, SequencesExt, FiniteSets

CONSTANTS
  MaxNotes,   \* bound: notifications that ever arrive
  Strategies  \* ways to dismiss a notification: four in the code

VARIABLES
  request,    \* the command: op, headed, index, kind
  phase,      \* where it is
  outcome,    \* the result of the operation, before and after the cleanup
  center,     \* "closed", "opening" or "open"
  front,      \* who is frontmost: "work" or "center"
  session,    \* what is to be undone: close, restore; attempts made, error of the last
  found,      \* center and front when the command began
  hindered,   \* see above
  notes,      \* what the center shows, newest first
  arrived,    \* how many notifications have arrived
  queue,      \* what dismiss_all still has to do
  target,     \* the entry that is being dismissed, 0 when there is none
  before,     \* how many looked like it before
  strategy,   \* the way that is being tried
  dismissed,  \* the entries reported as dismissed
  touched     \* the notifications the command acted upon

desktopVars == <<center, front, hindered>>
noteVars == <<notes, arrived>>
workVars == <<queue, target, before, strategy>>
reportVars == <<dismissed, touched>>
vars == <<request, phase, outcome, session, found, desktopVars, noteVars, workVars, reportVars>>

Ops == {"list", "dismiss", "dismiss_all", "action"}
Kind(n) == n % 2

\* matching_count
Alike(list, n) == Cardinality({i \in DOMAIN list : Kind(list[i]) = Kind(n)})

\* The operation is over; the session is closed (close_session), or a session
\* that could not be opened is cleaned up and dropped (open_with).
Leave(result) == phase' = "closing" /\ outcome' = result

\* list_entries: a center that is closed has no windows and so no entries.
Shown == IF center = "open" THEN notes ELSE <<>>

-----------------------------------------------------------------------------
(* The session *)

\* A mutation in headless mode is refused before it looks (mutation_policy).
Allowed == request.headed \/ request.op = "list"

\* NcSession::open finds the center open.
FindOpen ==
  /\ phase = "new" /\ Allowed /\ center = "open"
  /\ phase' = "listing"
  /\ UNCHANGED <<request, outcome, session, found, desktopVars, noteVars, workVars, reportVars>>

\* In headless mode a center that is closed stays closed.
RefuseHeadless ==
  /\ phase = "new" /\ ~ request.headed
  /\ request.op # "list" \/ center # "open"
  /\ phase' = "done" /\ outcome' = "error"
  /\ UNCHANGED <<request, session, found, desktopVars, noteVars, workVars, reportVars>>

\* pgrep, the frontmost application or the automation permission fail.
OpenFails ==
  /\ phase = "new"
  /\ phase' = "done" /\ outcome' = "error"
  /\ UNCHANGED <<request, session, found, desktopVars, noteVars, workVars, reportVars>>

\* open_with; a center whose windows cannot be read counts as closed.
Prepare ==
  /\ phase = "new" /\ request.headed
  /\ session' = [session EXCEPT !.close = TRUE, !.restore = front = "work"]
  /\ hindered' = (hindered \/ center = "open")
  /\ phase' = "opening"
  /\ UNCHANGED <<request, outcome, found, center, front, noteVars, workVars, reportVars>>

\* open_nc: a click on the clock, which closes a center that is open.  The
\* script may fail before the click or after it.
ClickClock ==
  /\ phase = "opening"
  /\ \/ /\ center' = IF center = "closed" THEN "opening" ELSE "closed"
        /\ \/ phase' = "awaiting" /\ UNCHANGED outcome
           \/ Leave("error")
     \/ Leave("error") /\ UNCHANGED center
  /\ UNCHANGED <<request, session, found, front, hindered, noteVars, workVars, reportVars>>

\* The center comes up and takes the focus, at some time after the click.
CenterAppears ==
  /\ center = "opening"
  /\ center' = "open" /\ front' = "center"
  /\ UNCHANGED <<request, phase, outcome, session, found, hindered, noteVars, workVars,
                 reportVars>>

\* wait_for_nc_ready
AwaitReady ==
  /\ phase = "awaiting"
  /\ \/ center = "open" /\ phase' = "listing" /\ UNCHANGED outcome
     \/ Leave("error")
  /\ UNCHANGED <<request, session, found, desktopVars, noteVars, workVars, reportVars>>

\* The notifications are not looked at again, nor is what was done to them.
ForgetNotes ==
  /\ notes' = <<>> /\ arrived' = 0 /\ dismissed' = {} /\ touched' = {}
  /\ queue' = <<>> /\ target' = 0 /\ before' = 0 /\ strategy' = 0

\* cleanup_with, the first half: close_nc types Escape when it sees the center
\* open.  Nobody looks whether that helped.
CloseCenter ==
  /\ phase = "closing"
  /\ IF ~ session.close
       THEN UNCHANGED <<session, desktopVars>>
       ELSE \/ session' = [session EXCEPT !.error = TRUE] /\ UNCHANGED desktopVars
            \/ /\ center # "open"
               /\ session' = [session EXCEPT !.close = FALSE]
               /\ UNCHANGED desktopVars
            \/ /\ center = "open"
               /\ session' = [session EXCEPT !.close = FALSE]
               /\ \/ center' = "closed" /\ UNCHANGED hindered
                  \/ hindered' = TRUE /\ UNCHANGED center
               /\ UNCHANGED front
  /\ phase' = "restoring" /\ ForgetNotes
  /\ UNCHANGED <<request, outcome, found>>

\* cleanup_with, the second half, whatever became of the first: reactivate_app.
RestoreFocus ==
  /\ phase = "restoring"
  /\ IF ~ session.restore
       THEN UNCHANGED <<session, front>>
       ELSE \/ session' = [session EXCEPT !.restore = FALSE] /\ front' = "work"
            \/ session' = [session EXCEPT !.error = TRUE] /\ UNCHANGED front
  /\ phase' = "settling"
  /\ UNCHANGED <<request, outcome, found, center, hindered, noteVars, workVars, reportVars>>

\* close_with tries what is pending a second time, as does Drop after a failed
\* open; then merge_session_result.
Finish ==
  /\ phase = "settling"
  /\ IF session.error /\ session.attempts = 0
       THEN /\ session' = [session EXCEPT !.attempts = 1, !.error = FALSE]
            /\ phase' = "closing" /\ UNCHANGED outcome
       ELSE /\ phase' = "done"
            /\ outcome' = IF session.error THEN "error" ELSE outcome
            /\ UNCHANGED session
  /\ UNCHANGED <<request, found, desktopVars, noteVars, workVars, reportVars>>

-----------------------------------------------------------------------------
(* The operations *)

\* A listing or a read fails, or the deadline passes.
Fail ==
  /\ phase \in {"listing", "pressing", "next"}
  /\ Leave("error")
  /\ UNCHANGED <<request, session, found, desktopVars, noteVars, workVars, reportVars>>

Choose(n) == target' = n /\ before' = Alike(Shown, n) /\ strategy' = 1

\* The entry at the index has to be the one that was meant (verify_identity).
List ==
  /\ phase = "listing"
  /\ \/ request.op = "list" /\ Leave("ok") /\ UNCHANGED queue
     \/ request.op = "dismiss_all" /\ phase' = "next" /\ queue' = Reverse(Shown)
        /\ UNCHANGED outcome
     \/ /\ request.op \in {"dismiss", "action"}
        /\ request.index \in DOMAIN Shown /\ Kind(Shown[request.index]) = request.kind
        /\ queue' = <<Shown[request.index]>>
        /\ phase' = IF request.op = "dismiss" THEN "acting" ELSE "pressing"
        /\ UNCHANGED outcome
  /\ IF phase' = "acting" THEN Choose(Head(queue'))
                           ELSE UNCHANGED <<target, before, strategy>>
  /\ UNCHANGED <<request, session, found, desktopVars, noteVars, reportVars>>

\* action_impl: the button of the element that was listed, whatever is at its
\* index now.
PressAction ==
  /\ phase = "pressing"
  /\ touched' = touched \cup {Head(queue)}
  /\ Leave("ok")
  /\ UNCHANGED <<request, session, found, desktopVars, noteVars, workVars, dismissed>>

\* The first entry of the list that looks like n.
FirstLike(n, i) == Kind(Shown[i]) = Kind(n) /\ \A j \in 1 .. i - 1 : Kind(Shown[j]) # Kind(n)

\* A plausible mistake: what the first listing counted is still true.
NextEntryCountedOnce ==
  /\ phase = "next" /\ queue # <<>>
  /\ \E i \in DOMAIN Shown : FirstLike(Head(queue), i) /\ target' = Shown[i]
  /\ strategy' = 1
  /\ before' = Alike(queue \o SetToSeq(dismissed), Head(queue))
  /\ phase' = "acting"
  /\ UNCHANGED <<request, outcome, session, found, desktopVars, noteVars, queue, reportVars>>

\* dismiss_all_impl: the list is read again for each entry, and the first that
\* looks like it is taken.
NextEntry ==
  /\ phase = "next" /\ queue # <<>>
  /\ \E i \in DOMAIN Shown : FirstLike(Head(queue), i) /\ Choose(Shown[i])
  /\ phase' = "acting"
  /\ UNCHANGED <<request, outcome, session, found, desktopVars, noteVars, queue, reportVars>>

\* It is not there any more: one of the failures.
EntryGone ==
  /\ phase = "next" /\ queue # <<>>
  /\ \A i \in DOMAIN Shown : Kind(Shown[i]) # Kind(Head(queue))
  /\ queue' = Tail(queue)
  /\ UNCHANGED <<request, phase, outcome, session, found, desktopVars, noteVars, target, before,
                 strategy, reportVars>>

AllDone ==
  /\ phase = "next" /\ queue = <<>>
  /\ Leave("ok")
  /\ UNCHANGED <<request, session, found, desktopVars, noteVars, workVars, reportVars>>

\* dismiss_entry: one strategy, whose own outcome is not trusted; what it does
\* to the element takes effect at once, later or never.
TryStrategy ==
  /\ phase = "acting"
  /\ touched' = touched \cup {target}
  /\ phase' = "verifying"
  /\ UNCHANGED <<request, outcome, session, found, desktopVars, noteVars, workVars, dismissed>>

\* The entry is done with.
Release ==
  /\ queue' = Tail(queue) /\ target' = 0 /\ before' = 0 /\ strategy' = 0
  /\ IF request.op = "dismiss_all" THEN phase' = "next" /\ UNCHANGED outcome
     ELSE Leave(IF dismissed' = dismissed THEN "error" ELSE "ok")

\* strategy_verified: disappeared polls until fewer look like it; the entry of
\* the first listing is reported.
Verified ==
  /\ phase = "verifying" /\ Alike(Shown, target) < before
  /\ dismissed' = dismissed \cup {Head(queue)}
  /\ Release
  /\ UNCHANGED <<request, session, found, desktopVars, noteVars, touched>>

\* A quarter of a second later it is still there.
TryAnother ==
  /\ phase = "verifying" /\ Alike(Shown, target) >= before /\ strategy < Strategies
  /\ strategy' = strategy + 1 /\ phase' = "acting"
  /\ UNCHANGED <<request, outcome, session, found, desktopVars, noteVars, queue, target, before,
                 reportVars>>

\* All strategies failed, or an error ends dismiss_entry: one of the failures of
\* dismiss_all.
GiveUpEntry ==
  /\ phase \in {"acting", "verifying"}
  /\ UNCHANGED dismissed
  /\ Release
  /\ UNCHANGED <<request, session, found, desktopVars, noteVars, touched>>

-----------------------------------------------------------------------------
(* The desktop *)

\* Only while the command looks at notifications does it matter what comes and
\* goes.
Watched ==
  phase \in {"listing", "pressing", "next", "acting", "verifying"} /\ request.op # "list"

Arrive ==
  /\ Watched /\ arrived < MaxNotes
  /\ arrived' = arrived + 1
  /\ notes' = <<arrived'>> \o notes
  /\ UNCHANGED <<request, phase, outcome, session, found, desktopVars, workVars, reportVars>>

\* A dismissal takes effect, or the application withdraws a notification.
Vanish ==
  /\ Watched
  /\ \E i \in DOMAIN notes : notes' = RemoveAt(notes, i)
  /\ UNCHANGED <<request, phase, outcome, session, found, desktopVars, arrived, workVars,
                 reportVars>>

\* The user closes the center, or goes to another application.
Meddle ==
  /\ phase \notin {"new", "done"} /\ ~ hindered
  /\ hindered' = TRUE
  /\ center' \in {center, "closed"} /\ front' \in {front, "work"}
  /\ UNCHANGED <<request, phase, outcome, session, found, noteVars, workVars, reportVars>>

-----------------------------------------------------------------------------

Requests ==
  {r \in [op : Ops, headed : BOOLEAN, index : 1 .. 2, kind : 0 .. 1] :
     r.op \in {"list", "dismiss_all"} => r.index = 1 /\ r.kind = 0}

Init ==
  /\ request \in Requests
  /\ phase = "new" /\ outcome = "none"
  /\ center \in {"closed", "open"}
  /\ front \in IF center = "closed" THEN {"work"} ELSE {"work", "center"}
  /\ session = [close |-> FALSE, restore |-> FALSE, attempts |-> 0, error |-> FALSE]
  /\ found = [center |-> center, front |-> front]
  /\ hindered = FALSE
  /\ arrived \in 0 .. MaxNotes
  /\ notes = Reverse([i \in 1 .. arrived |-> i])
  /\ queue = <<>> /\ target = 0 /\ before = 0 /\ strategy = 0
  /\ dismissed = {} /\ touched = {}

Next ==
  \/ FindOpen \/ RefuseHeadless \/ OpenFails \/ Prepare \/ ClickClock \/ AwaitReady
  \/ CloseCenter \/ RestoreFocus \/ Finish
  \/ Fail \/ List \/ PressAction \/ NextEntry \/ EntryGone \/ AllDone
  \/ TryStrategy \/ Verified \/ TryAnother \/ GiveUpEntry
  \/ CenterAppears \/ Arrive \/ Vanish \/ Meddle

Spec == Init /\ [][Next]_vars

-----------------------------------------------------------------------------
(* Properties *)

TypeOK ==
  /\ request \in Requests
  /\ phase \in {"new", "opening", "awaiting", "listing", "pressing", "next", "acting",
               "verifying", "closing", "restoring", "settling", "done"}
  /\ outcome \in {"none", "ok", "error"}
  /\ center \in {"closed", "opening", "open"} /\ front \in {"work", "center"}
  /\ session \in [close : BOOLEAN, restore : BOOLEAN, attempts : 0 .. 1, error : BOOLEAN]
  /\ found \in [center : {"closed", "open"}, front : {"work", "center"}]
  /\ hindered \in BOOLEAN
  /\ arrived \in 0 .. MaxNotes /\ notes \in Seq(1 .. arrived)
  /\ queue \in Seq(1 .. arrived) /\ target \in 0 .. arrived
  /\ before \in 0 .. MaxNotes /\ strategy \in 0 .. Strategies
  /\ dismissed \subseteq 1 .. arrived /\ touched \subseteq 1 .. arrived

\* A command that reports success has put everything back: a center it opened
\* is closed and the application of the user is in front again, although each
\* step of the cleanup may fail and is then tried once more.  A center that was
\* open stays open, and headless mode changes nothing, whatever fails.  Nothing is
\* said of a command that was hindered, nor where the Escape did not close the center:
\* the command reports success then, with the center open.
CenterLeftAsFound ==
  phase = "done" /\ ~ hindered
    /\ (outcome = "ok" \/ found.center = "open" \/ ~ request.headed)
  => center = found.center /\ front = found.front

\* How many of some notifications are of kind k.
Count(some, k) == Cardinality({n \in some : Kind(n) = k})

\* As many notifications of a kind are gone as are reported as dismissed, also
\* when twins of them are there, new ones arrive and strategies work late.  A kind is
\* an application, a title and a body: which of two alike is gone is not known.
DismissalsAreReal ==
  ~ hindered =>
    \A k \in {0, 1} : Count(dismissed, k) <= Count((1 .. arrived) \ ToSet(notes), k)

\* A dismissal or an action touches one notification, of the kind that was
\* meant, however the list has moved since the index was read.  It is told by its
\* application and title, when the caller gives them: nothing is said of one that has
\* the same and another body.
TouchesOnlyTheMeant ==
  /\ request.op \in {"dismiss", "action"} =>
       Cardinality(touched) <= 1 /\ \A n \in touched : Kind(n) = request.kind
  /\ request.op = "list" => touched = {}

-----------------------------------------------------------------------------
(* The inductive invariant *)

Working == {"listing", "pressing", "next", "acting", "verifying"}

\* Unless somebody hinders it: the center is left alone when it was open or in
\* headless mode, and otherwise opened, closed and followed by the application.
CenterIsKept ==
  /\ phase = "new" => ~ session.close /\ ~ session.restore /\ ~ session.error
  /\ phase = "restoring" /\ ~ session.error => ~ session.close
  /\ phase = "settling" /\ ~ session.error => ~ session.close /\ ~ session.restore
  /\ found.center = "closed" => found.front = "work"
  /\ outcome = "ok" => phase \in {"closing", "restoring", "settling", "done"}
  /\ outcome = "ok" /\ phase = "done" => ~ session.close /\ ~ session.restore
  /\ ~ hindered =>
       /\ phase = "new" => center = found.center /\ front = found.front
       /\ found.center = "open" \/ ~ request.headed =>
            /\ center = found.center /\ front = found.front
            /\ ~ session.close /\ ~ session.restore
            /\ phase \notin {"opening", "awaiting"}
       /\ phase = "opening" => center = "closed"
       /\ phase \in Working => center = "open"
       /\ found.center = "closed" /\ request.headed =>
            /\ phase \in Working \cup {"opening", "awaiting"} => session.close /\ session.restore
            /\ outcome = "ok" => center = IF session.close THEN "open" ELSE "closed"
            /\ outcome = "ok" /\ ~ session.restore => front = "work"

\* A command goes through the phases of its operation, and works on the entry
\* at the head of its queue or one that looks like it.
WorkIsKept ==
  /\ phase \in {"new", "opening", "awaiting", "listing"} => touched = {} /\ dismissed = {}
  /\ phase = "pressing" => request.op = "action" /\ touched = {}
  /\ phase = "next" => request.op = "dismiss_all"
  /\ phase \in {"acting", "verifying"} =>
       /\ request.op \in {"dismiss", "dismiss_all"}
       /\ target # 0 /\ Kind(target) = Kind(Head(queue))
       /\ request.op = "dismiss" => touched \subseteq {target}
  /\ phase \in {"acting", "verifying", "pressing"} =>
       /\ queue # <<>>
       /\ request.op \in {"dismiss", "action"} => Kind(Head(queue)) = request.kind

\* No notification is shown twice.  Of the kind of the entry that is being
\* dismissed there are those reported as dismissed and those that were counted.
CountIsKept ==
  /\ \A i, j \in DOMAIN notes : i # j => notes[i] # notes[j]
  /\ phase \in {"acting", "verifying"} /\ ~ hindered =>
       Count(dismissed, Kind(target)) + before <= Count(1 .. arrived, Kind(target))

NoticeInv ==
  /\ TypeOK /\ CenterIsKept /\ WorkIsKept /\ CountIsKept
  /\ DismissalsAreReal /\ TouchesOnlyTheMeant
=============================================================================
