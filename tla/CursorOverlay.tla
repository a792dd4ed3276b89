--------------------------- MODULE CursorOverlay ---------------------------
(***************************************************************************)
(* The cursor overlay of a session (cursor_overlay of core and the helper  *)
(* in crates/macos/src/system/cursor_overlay): a command shows where it    *)
(* acts through a helper process, which it reaches by the socket of the    *)
(* session and starts when nobody answers.  Ending the session, or its     *)
(* overlay, stops the helper.                                              *)
(*                                                                         *)
(* A command sends one control after the other; the one it waits for may   *)
(* still be handled after it stopped waiting.  Commands and helpers may    *)
(* be killed.                                                              *)
(***************************************************************************)
EXTENDS Naturals, Sequences, FiniteSets

CONSTANTS
  MaxHelpers,  \* bound: helpers that are started
  MaxKills     \* bound: commands that are killed

VARIABLES
  on,          \* the manifest: the session is active and its overlay enabled
  stage,       \* of each command's current control
  control,     \* the control that each command sends, or "none"
  startLock,   \* who holds .cursor-overlay-start.lock, or "nobody"
  sent,        \* how many controls of each command ended
  answer,      \* how the last one of each ended
  helper,      \* the helper that a command started or reached, or 0
  life,        \* of each helper: "unused", "starting", "drawing", "bound", "serving", "gone"
  first,       \* the control that a helper was started with
  socket,      \* the socket file: whose it is (0: none) and whether it is private
  backlog,     \* the controls that wait at each helper
  dragging,    \* the helpers that follow the pointer
  killed       \* the commands that were killed

overlayVars == <<life, first, socket, backlog, dragging>>
commandVars == <<stage, control, startLock, sent, answer, helper, killed>>
vars == <<on, overlayVars, commandVars>>

Commands == {"click", "drag", "end"}
Helpers == 1 .. MaxHelpers
NoSocket == [of |-> 0, private |-> FALSE]

\* The controls of a command, in order; what a drag ends with is up to the drag.
Script(c) ==
  CASE c = "click" -> {<<"travel">>}
    [] c = "drag" -> {<<"drag", "effect">>, <<"drag", "hide">>}
    [] c = "end" -> {<<"disable">>}

\* is_transient without an agent, is_disable: sent to what is there, never
\* starting a helper.
Broadcast(k) == k \in {"hide", "disable"}

-----------------------------------------------------------------------------
(* Sending a control (spawn.rs) *)

Listening(h) == life[h] \in {"bound", "serving"}
Reachable == socket.of # 0 /\ Listening(socket.of)

Holds(c) == startLock = c
Release(c) == startLock' = IF Holds(c) THEN "nobody" ELSE startLock

\* "ok" is an acknowledgement, "nobody" and "skipped" a success without one.
\* A control that failed changes nothing in what its command does (submit.rs,
\* update); only the end of a session reports it.
Answer(c, a) ==
  /\ sent' = [sent EXCEPT ![c] = @ + 1] /\ answer' = [answer EXCEPT ![c] = a]
  /\ stage' = [stage EXCEPT ![c] = "ready"]
  /\ control' = [control EXCEPT ![c] = "none"]
  /\ helper' = [helper EXCEPT ![c] = 0]
  /\ Release(c)

Goto(c, s) == stage' = [stage EXCEPT ![c] = s]

\* session end writes the manifest before it sends anything.  A session whose
\* overlay was disabled may have it enabled again.
Begin(c) ==
  /\ stage[c] = "ready" /\ c \notin killed
  /\ \E s \in Script(c) :
       /\ sent[c] < Len(s)
       /\ control' = [control EXCEPT ![c] = s[sent[c] + 1]]
  /\ on' = (on /\ c # "end")
  /\ Goto(c, "update")
  /\ UNCHANGED <<overlayVars, startLock, sent, answer, helper, killed>>

Enable ==
  /\ ~ on /\ stage["end"] = "ready" /\ on' = TRUE
  /\ UNCHANGED <<overlayVars, commandVars>>

\* send_until, once it is connected.
Deliver(c) ==
  /\ backlog' = [backlog EXCEPT ![socket.of] = Append(@, [from |-> c, kind |-> control[c]])]
  /\ helper' = [helper EXCEPT ![c] = socket.of]
  /\ Goto(c, "wait")
  /\ UNCHANGED <<on, life, first, socket, dragging, control, sent, answer, killed>>

\* update: the session must be active and a file at the socket private.
Update(c) ==
  /\ stage[c] = "update"
  /\ CASE Broadcast(control[c]) \/ (on /\ socket = NoSocket) ->
            /\ Goto(c, "lock")
            /\ UNCHANGED <<on, overlayVars, startLock, control, sent, answer, helper, killed>>
       [] ~ Broadcast(control[c]) /\ ~ on ->
            Answer(c, "skipped") /\ UNCHANGED <<on, overlayVars, killed>>
       [] ~ Broadcast(control[c]) /\ on /\ socket # NoSocket ->
            \/ ~ socket.private /\ Answer(c, "failed") /\ UNCHANGED <<on, overlayVars, killed>>
            \/ socket.private /\ Reachable /\ Deliver(c) /\ UNCHANGED startLock
            \/ /\ socket.private /\ ~ Reachable
               /\ Goto(c, "lock")
               /\ UNCHANGED <<on, overlayVars, startLock, control, sent, answer, helper, killed>>

\* What a process leaves when it ends is the socket file.
End(h) == /\ life' = [life EXCEPT ![h] = "gone"]
          /\ backlog' = [backlog EXCEPT ![h] = <<>>]
          /\ dragging' = dragging \ {h}

Unused == {h \in Helpers : life[h] = "unused"}

Spawn(c) ==
  /\ \E h \in Unused :
       /\ \A g \in Unused : h <= g
       /\ life' = [life EXCEPT ![h] = "starting"]
       /\ first' = [first EXCEPT ![h] = control[c]]
       /\ helper' = [helper EXCEPT ![c] = h]
  /\ Goto(c, "starting")
  /\ UNCHANGED <<on, socket, backlog, dragging, control, sent, answer, killed>>

\* broadcast, to the private sockets that discover finds: one that was bound a
\* moment ago is not private yet, and is passed over.
SendAll(c) ==
  /\ stage[c] = "lock" /\ startLock = "nobody" /\ Broadcast(control[c])
  /\ \/ Reachable /\ socket.private /\ Deliver(c) /\ startLock' = c
     \/ ~ (Reachable /\ socket.private) /\ Answer(c, "nobody") /\ UNCHANGED <<on, overlayVars, killed>>

\* Somebody may have started a helper, or ended the session, while this command
\* waited for the lock.
SendOrSpawn(c) ==
  /\ stage[c] = "lock" /\ startLock = "nobody" /\ ~ Broadcast(control[c])
  /\ \/ Reachable /\ Deliver(c) /\ startLock' = c
     \/ ~ Reachable /\ ~ on /\ Answer(c, "skipped") /\ UNCHANGED <<on, overlayVars, killed>>
     \/ ~ Reachable /\ on /\ Spawn(c) /\ startLock' = c

\* It is ready when somebody answers at the socket.
Started(c) ==
  /\ stage[c] = "starting" /\ Reachable
  /\ Answer(c, "ok") /\ UNCHANGED <<on, overlayVars, killed>>

\* terminate_child, at the deadline; it leaves the socket file.
GiveUpStarting(c) ==
  /\ stage[c] = "starting"
  /\ End(helper[c])
  /\ Answer(c, "failed")
  /\ UNCHANGED <<on, first, socket, killed>>

\* The deadline passes, or the helper ends without an answer.
GiveUp(c) ==
  /\ stage[c] \in {"lock", "wait"}
  /\ Answer(c, "failed") /\ UNCHANGED <<on, overlayVars, killed>>

\* A command is killed: the lock is free, and a helper that it started goes on.
\* Killed elsewhere it does what one does that gives up.
Kill(c) ==
  /\ stage[c] = "starting" /\ Cardinality(killed) < MaxKills
  /\ killed' = killed \cup {c}
  /\ Answer(c, "failed") /\ UNCHANGED <<on, overlayVars>>

-----------------------------------------------------------------------------
(* The helper (child.rs) *)

\* begin_drag, end_drag and hide, which ends the tracking.
Handle(h, kind) ==
  dragging' = CASE kind = "drag" -> dragging \cup {h}
                [] kind \in {"effect", "hide"} -> dragging \ {h}
                [] OTHER -> dragging

\* run: a socket file that is there is taken to be stale; the first control is
\* handled before the socket is bound.
Start(h) ==
  /\ life[h] = "starting"
  /\ \/ End(h) /\ UNCHANGED socket             \* off, or the control was not read
     \/ /\ on
        /\ life' = [life EXCEPT ![h] = "drawing"] /\ socket' = NoSocket
        /\ Handle(h, first[h]) /\ UNCHANGED backlog
  /\ first' = [first EXCEPT ![h] = "none"]
  /\ UNCHANGED <<on, commandVars>>

Bind(h) ==
  /\ life[h] = "drawing"
  /\ \/ /\ socket = NoSocket
        /\ life' = [life EXCEPT ![h] = "bound"] /\ socket' = [of |-> h, private |-> FALSE]
        /\ UNCHANGED <<backlog, dragging>>
     \/ socket # NoSocket /\ End(h) /\ UNCHANGED socket
  /\ UNCHANGED <<on, first, commandVars>>

\* The mode of the file is set by its path, which another may have taken.
Protect(h) ==
  /\ life[h] = "bound"
  /\ \/ /\ socket # NoSocket
        /\ life' = [life EXCEPT ![h] = "serving"] /\ socket' = [socket EXCEPT !.private = TRUE]
        /\ UNCHANGED <<backlog, dragging>>
     \/ socket = NoSocket /\ End(h) /\ UNCHANGED socket
  /\ UNCHANGED <<on, first, commandVars>>

\* One control, and its acknowledgement to the command if it still waits; that
\* of "disable" comes after the file was removed.
Serve(h) ==
  /\ life[h] = "serving" /\ backlog[h] # <<>>
  /\ LET request == Head(backlog[h])
         c == request.from
         waits == stage[c] = "wait" /\ helper[c] = h /\ control[c] = request.kind
     IN  /\ \/ request.kind = "disable" /\ End(h) /\ socket' = NoSocket
            \/ /\ request.kind # "disable" /\ Handle(h, request.kind)
               /\ backlog' = [backlog EXCEPT ![h] = Tail(@)]
               /\ UNCHANGED <<life, socket>>
         /\ \/ waits /\ Answer(c, "ok")
            \/ ~ waits /\ UNCHANGED <<stage, control, startLock, sent, answer, helper>>
  /\ UNCHANGED <<on, first, killed>>

\* Every second it looks whether the session is still active.
CheckOwnSession(h) ==
  /\ life[h] = "serving" /\ ~ on
  /\ End(h) /\ socket' = NoSocket
  /\ UNCHANGED <<on, first, commandVars>>

-----------------------------------------------------------------------------

Init ==
  /\ on = TRUE
  /\ stage = [c \in Commands |-> "ready"] /\ control = [c \in Commands |-> "none"]
  /\ startLock = "nobody" /\ sent = [c \in Commands |-> 0] /\ answer = [c \in Commands |-> "none"]
  /\ helper = [c \in Commands |-> 0] /\ killed = {}
  /\ life = [h \in Helpers |-> "unused"] /\ first = [h \in Helpers |-> "none"]
  /\ socket = NoSocket /\ backlog = [h \in Helpers |-> <<>>] /\ dragging = {}

CommandStep(c) ==
  Update(c) \/ SendAll(c) \/ SendOrSpawn(c) \/ Started(c) \/ GiveUpStarting(c) \/ GiveUp(c)

HelperStep(h) == Start(h) \/ Bind(h) \/ Protect(h) \/ Serve(h) \/ CheckOwnSession(h)

Next ==
  \/ \E c \in Commands : Begin(c) \/ CommandStep(c) \/ Kill(c)
  \/ \E h \in Helpers : HelperStep(h)
  \/ Enable

\* Helpers run until they end; a command that waits has a deadline.
Fairness == /\ \A h \in Helpers : WF_vars(HelperStep(h))
            /\ \A c \in Commands : WF_vars(CommandStep(c))

Spec == Init /\ [][Next]_vars /\ Fairness

-----------------------------------------------------------------------------
(* Properties *)

\* The values the state takes.
TypeOK ==
  /\ on \in BOOLEAN /\ killed \subseteq Commands /\ dragging \subseteq Helpers
  /\ \A c \in Commands : /\ stage[c] \in {"ready", "update", "lock", "starting", "wait"}
                         /\ (stage[c] = "ready") = (control[c] = "none")
                         /\ helper[c] \in {0} \cup Helpers
  /\ startLock \in Commands \cup {"nobody"}
  /\ socket.of \in {0} \cup Helpers
  /\ \A h \in Helpers :
       life[h] \in {"unused", "starting", "drawing", "bound", "serving", "gone"}

Shown == {h \in Helpers : life[h] \in {"drawing", "bound", "serving"}}

\* A session has one overlay, unless a command is killed while it starts one.
OneOverlay == killed = {} => \A g, h \in Shown : g = h

\* A drag whose end was acknowledged is not followed any more, although the
\* control that showed it may be handled after its command stopped waiting; and
\* no overlay is left when the end of the session was acknowledged: unless a
\* command is killed while it starts a helper.
AcknowledgedEndsAreReal ==
  killed = {} =>
    /\ sent["drag"] = 2 /\ answer["drag"] = "ok" => dragging \cap Shown = {}
    /\ ~ on /\ answer["end"] = "ok" => Shown = {}

\* The overlay of a session that ends, ends, whatever was acknowledged and
\* whoever was killed.
OverlaysEnd == (~ on) ~> (on \/ Shown = {})

-----------------------------------------------------------------------------
(* What holds while commands and helpers interleave *)

Running == {h \in Helpers : life[h] \in {"starting", "drawing", "bound", "serving"}}
Kinds(c) == CASE c = "click" -> {"travel"}
              [] c = "drag" -> {"drag", "effect", "hide"}
              [] c = "end" -> {"disable"}
EndsADrag(k) == k \in {"effect", "hide"}
Controls == {"travel", "drag", "effect", "hide", "disable"}
Requests == {r \in [from : Commands, kind : Controls] : r.kind \in Kinds(r.from)}
Answers == {"none", "ok", "nobody", "skipped", "failed"}

\* A command that starts a helper holds the lock; a drag sends its two controls in order.
ControlInv ==
  /\ \A c \in Commands : control[c] \in Kinds(c) \/ (control[c] = "none" /\ stage[c] = "ready")
  /\ \A c \in Commands : stage[c] = "starting" => startLock = c /\ ~ Broadcast(control[c])
  /\ control["drag"] = "drag" => sent["drag"] = 0
  /\ EndsADrag(control["drag"]) => sent["drag"] = 1
  /\ answer["end"] = "ok" => sent["end"] # 0

\* Only a helper that listens has a backlog, where a drag is not behind its end.
BacklogInv ==
  /\ \A h \in Helpers : ~ Listening(h) => backlog[h] = <<>>
  /\ \A h \in Helpers \ Running : h \notin dragging
  /\ \A h \in Helpers : life[h] = "starting" => h \notin dragging
  /\ \A h \in Helpers : \A i \in 1 .. Len(backlog[h]) :
       EndsADrag(backlog[h][i].kind) =>
         /\ sent["drag"] # 0
         /\ \A j \in 1 .. Len(backlog[h]) : backlog[h][j].kind = "drag" => j < i

\* The helper that runs, if any, is at the socket, or is being started under the lock.
Lone(h) ==
  /\ \A g \in Running : g = h
  /\ \/ Listening(h) /\ socket.of = h
     \/ /\ ~ Listening(h) /\ startLock \in Commands
        /\ stage[startLock] = "starting" /\ helper[startLock] = h
        /\ life[h] = "drawing" => socket = NoSocket
        /\ life[h] = "starting" => first[h] = control[startLock]

\* Nothing will be dragged at a helper, and nothing is.
Settled(h) ==
  /\ h \notin dragging
  /\ life[h] = "starting" => first[h] # "drag"
  /\ \A i \in 1 .. Len(backlog[h]) : backlog[h][i].kind # "drag"
DragIsOver == sent["drag"] = 2 /\ answer["drag"] = "ok"
EndIsStarting == stage["drag"] = "starting" /\ control["drag"] # "drag"

Shapes ==
  /\ stage \in [Commands -> {"ready", "update", "lock", "starting", "wait"}]
  /\ control \in [Commands -> {"none"} \union Controls] /\ sent \in [Commands -> Nat]
  /\ answer \in [Commands -> Answers] /\ helper \in [Commands -> {0} \union Helpers]
  /\ life \in [Helpers -> {"unused", "starting", "drawing", "bound", "serving", "gone"}]
  /\ first \in [Helpers -> {"none"} \union Controls] /\ backlog \in [Helpers -> Seq(Requests)]
  /\ socket \in [of : {0} \union Helpers, private : BOOLEAN]

\* Unless a command is killed while it starts a helper.
HelpersInv ==
  killed = {} =>
    /\ \A h \in Running : Lone(h)
    /\ DragIsOver \/ EndIsStarting => \A h \in Running : Settled(h)
    /\ answer["end"] = "ok" => on \/ Running = {}

OverlayInv == Shapes /\ ControlInv /\ BacklogInv /\ HelpersInv
=============================================================================
