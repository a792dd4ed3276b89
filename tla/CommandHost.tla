---------------------------- MODULE CommandHost ----------------------------
(***************************************************************************)
(* The command host: one process per snapshot namespace that executes the  *)
(* commands of short-lived clients, src/command_host*.rs.                  *)
(*                                                                         *)
(* A client connects to the private socket of the host, or starts a host   *)
(* under the lock start.lock and polls until it can connect; then it sends *)
(* one request and waits for one reply.  A host serves one connection at a *)
(* time for as long as it has the lock owner.lock.                         *)
(*                                                                         *)
(* Time is a flag: a client's budget runs out at any moment (Expire) and   *)
(* stays run out.                                                          *)
(***************************************************************************)
EXTENDS Naturals, FiniteSets

CONSTANTS
  Clients,   \* processes that forward a command
  Hosts,     \* host processes, each started at most once
  NoPeer     \* stands for no client and no host

VARIABLES
  endpoint,  \* the host that bound the socket file, NoPeer when there is no file
  private,   \* whether the mode of the socket file is 0600 yet
  owner,     \* the host that has owner.lock
  starter,   \* the client that has start.lock
  hpc,       \* where each host is
  backlog,   \* the connections each host has not accepted yet
  serving,   \* the connection each host serves
  cpc,       \* where each client is
  child,     \* the host each client has started
  link,      \* the host each client is connected to
  payload,   \* how much of its request each client has written
  answer,    \* the reply on each connection
  expired,   \* the clients whose budget has run out
  runs,      \* how often the command of each client was executed
  verdict    \* what each client reports

fileVars == <<endpoint, private>>
hostVars == <<owner, hpc, backlog, serving>>
clientVars == <<starter, cpc, child, verdict>>
wireVars == <<link, payload, answer>>
vars == <<fileVars, hostVars, clientVars, wireVars, expired, runs>>

\* The host listens: a connect succeeds.
Listening(h) == hpc[h] \in {"bound", "accepting", "leaving", "reading", "ready", "running",
                            "replying"}

\* What the client sees of its connection.
HungUp(c) == c \notin backlog[link[c]] /\ serving[link[c]] # c

GotoClient(c, label) == cpc' = [cpc EXCEPT ![c] = label]
GotoHost(h, label) == hpc' = [hpc EXCEPT ![h] = label]

\* The client is done; start.lock goes with the frame of connect_or_start.
Report(c, v) ==
  /\ GotoClient(c, "done")
  /\ verdict' = [verdict EXCEPT ![c] = v]
  /\ starter' = IF starter = c THEN NoPeer ELSE starter

\* Host h is gone: the kernel closes its sockets and releases its lock.
Vanish(h) ==
  /\ GotoHost(h, "gone")
  /\ backlog' = [backlog EXCEPT ![h] = {}]
  /\ serving' = [serving EXCEPT ![h] = NoPeer]
  /\ owner' = IF owner = h THEN NoPeer ELSE owner

-----------------------------------------------------------------------------
(* The client *)

\* The deadline of the request and that of the startup, which is no later.
Expire(c) ==
  /\ c \notin expired
  /\ expired' = expired \cup {c}
  /\ UNCHANGED <<fileVars, hostVars, clientVars, wireVars, runs>>

Begin(c) ==
  /\ cpc[c] = "new"
  /\ IF c \in expired THEN Report(c, "not_delivered")
                      ELSE GotoClient(c, "connecting") /\ UNCHANGED <<starter, verdict>>
  /\ UNCHANGED <<fileVars, hostVars, child, wireVars, expired, runs>>

\* connect: there is a listener behind a private socket file, or there is none;
\* a file that is not private yet is an error (StartFails).
Connected(c) ==
  /\ endpoint # NoPeer /\ private /\ Listening(endpoint)
  /\ link' = [link EXCEPT ![c] = endpoint]
  /\ backlog' = [backlog EXCEPT ![endpoint] = @ \cup {c}]
Absent == endpoint = NoPeer \/ (private /\ ~ Listening(endpoint))

Connect(c) ==
  /\ cpc[c] \in {"connecting", "checking", "polling"}
  /\ c \notin expired
  /\ Connected(c)
  /\ GotoClient(c, "connected")
  /\ starter' = IF starter = c THEN NoPeer ELSE starter
  /\ UNCHANGED <<fileVars, owner, hpc, serving, child, verdict, payload, answer, expired, runs>>

FindNobody(c) ==
  /\ cpc[c] = "connecting" /\ Absent
  /\ GotoClient(c, "locking")
  /\ UNCHANGED <<fileVars, hostVars, starter, child, verdict, wireVars, expired, runs>>

LockStartup(c) ==
  /\ cpc[c] = "locking" /\ starter = NoPeer /\ c \notin expired
  /\ starter' = c
  /\ GotoClient(c, "checking")
  /\ UNCHANGED <<fileVars, hostVars, child, verdict, wireVars, expired, runs>>

StartHost(c) ==
  /\ cpc[c] = "checking" /\ Absent
  /\ \E h \in Hosts :
       /\ hpc[h] = "off"
       /\ GotoHost(h, "starting")
       /\ child' = [child EXCEPT ![c] = h]
  /\ GotoClient(c, "polling")
  /\ UNCHANGED <<fileVars, owner, backlog, serving, starter, verdict, wireVars, expired, runs>>

\* connect_or_start fails: its five seconds or the budget are over, the
\* endpoint is not private, the child cannot be started or has exited.  Time
\* passes anywhere, so there is no guard.  A child that was started is killed.
StartFails(c) ==
  /\ cpc[c] \in {"connecting", "locking", "checking", "polling"}
  /\ Report(c, "not_delivered")
  /\ IF cpc[c] = "polling" THEN Vanish(child[c]) ELSE UNCHANGED hostVars
  /\ UNCHANGED <<fileVars, child, wireVars, expired, runs>>

\* forward looks at the budget once more before it writes.
GiveUpUnsent(c) ==
  /\ cpc[c] = "connected" /\ c \in expired
  /\ Report(c, "not_delivered")
  /\ UNCHANGED <<fileVars, hostVars, child, wireVars, expired, runs>>

Exchange(c) ==
  /\ cpc[c] = "connected" /\ c \notin expired
  /\ GotoClient(c, "sending")
  /\ UNCHANGED <<fileVars, hostVars, starter, child, verdict, wireVars, expired, runs>>

Send(c) ==
  /\ cpc[c] = "sending" /\ ~ HungUp(c)
  /\ payload' = [payload EXCEPT ![c] = "whole"]
  /\ GotoClient(c, "awaiting")
  /\ UNCHANGED <<fileVars, hostVars, starter, child, verdict, link, answer, expired, runs>>

\* The host hung up, or the write did not finish within five seconds or the
\* budget: by then the host may have all of the request or none.
SendFails(c) ==
  /\ cpc[c] = "sending"
  /\ payload' \in {payload, [payload EXCEPT ![c] = "whole"]}
  /\ Report(c, "uncertain")
  /\ UNCHANGED <<fileVars, hostVars, child, link, answer, expired, runs>>

Receive(c) ==
  /\ cpc[c] = "awaiting" /\ answer[c] # "none"
  /\ Report(c, answer[c])
  /\ UNCHANGED <<fileVars, hostVars, child, wireVars, expired, runs>>

\* The connection ends without a reply, the reply does not come in time, or it
\* begins and does not end.
ReplyLost(c) ==
  /\ cpc[c] = "awaiting"
  /\ \/ HungUp(c) /\ answer[c] = "none"
     \/ c \in expired
     \/ serving[link[c]] = c /\ hpc[link[c]] = "replying"
  /\ Report(c, "uncertain")
  /\ UNCHANGED <<fileVars, hostVars, child, wireVars, expired, runs>>

\* The client is killed; a host it has started goes on.
ClientDies(c) ==
  /\ cpc[c] \notin {"new", "done"}
  /\ Report(c, "none")
  /\ UNCHANGED <<fileVars, hostVars, child, wireVars, expired, runs>>

-----------------------------------------------------------------------------
(* The host *)

\* A plausible mistake: the endpoint is cleared before the lock is taken.
OwnUnlocked(h) ==
  /\ hpc[h] = "starting"
  /\ owner' = IF owner = NoPeer THEN h ELSE owner
  /\ GotoHost(h, "owning")
  /\ UNCHANGED <<fileVars, backlog, serving, clientVars, wireVars, expired, runs>>

Own(h) ==
  /\ hpc[h] = "starting" /\ owner = NoPeer
  /\ owner' = h
  /\ GotoHost(h, "owning")
  /\ UNCHANGED <<fileVars, backlog, serving, clientVars, wireVars, expired, runs>>

ClearEndpoint(h) ==
  /\ hpc[h] = "owning"
  /\ endpoint # NoPeer => private
  /\ endpoint' = NoPeer /\ private' = FALSE
  /\ GotoHost(h, "cleared")
  /\ UNCHANGED <<owner, backlog, serving, clientVars, wireVars, expired, runs>>

Bind(h) ==
  /\ hpc[h] = "cleared"
  /\ endpoint' = h /\ private' = FALSE
  /\ GotoHost(h, "bound")
  /\ UNCHANGED <<owner, backlog, serving, clientVars, wireVars, expired, runs>>

Protect(h) ==
  /\ hpc[h] = "bound"
  /\ private' = TRUE
  /\ GotoHost(h, "accepting")
  /\ UNCHANGED <<endpoint, owner, backlog, serving, clientVars, wireVars, expired, runs>>

\* The lock was not free in time, the endpoint is not a private socket, or a
\* host that nobody asked for fifteen minutes leaves.  The file stays.
Exit(h) ==
  /\ \/ hpc[h] = "starting" /\ owner # NoPeer
     \/ hpc[h] = "owning" /\ endpoint # NoPeer /\ ~ private
     \/ hpc[h] = "leaving"
  /\ Vanish(h)
  /\ UNCHANGED <<fileVars, clientVars, wireVars, expired, runs>>

\* poll timed out; the listener is closed later.
GoIdle(h) ==
  /\ hpc[h] = "accepting" /\ backlog[h] = {}
  /\ GotoHost(h, "leaving")
  /\ UNCHANGED <<fileVars, owner, backlog, serving, clientVars, wireVars, expired, runs>>

Accept(h) ==
  /\ hpc[h] = "accepting"
  /\ \E c \in backlog[h] :
       /\ backlog' = [backlog EXCEPT ![h] = @ \ {c}]
       /\ serving' = [serving EXCEPT ![h] = c]
  /\ GotoHost(h, "reading")
  /\ UNCHANGED <<fileVars, owner, clientVars, wireVars, expired, runs>>

HangUp(h) ==
  /\ serving' = [serving EXCEPT ![h] = NoPeer]
  /\ GotoHost(h, "accepting")

\* read_frame: the whole frame, or an end of the connection before it, or no
\* frame in five seconds; nothing is executed of the latter two.
ReadFrame(h) ==
  /\ hpc[h] = "reading"
  /\ \/ /\ payload[serving[h]] = "whole"
        /\ GotoHost(h, "ready") /\ UNCHANGED serving
     \/ HangUp(h)
  /\ UNCHANGED <<fileVars, owner, backlog, clientVars, wireVars, expired, runs>>

\* prepare and execute_with_deadline: a request that expired in the queue is
\* refused, as is one with another identity or directory.
Refuse(h) ==
  /\ hpc[h] = "ready"
  /\ GotoHost(h, "replying")
  /\ UNCHANGED <<fileVars, owner, backlog, serving, clientVars, wireVars, expired, runs>>

Dispatch(h) ==
  /\ hpc[h] = "ready" /\ serving[h] \notin expired
  /\ runs' = [runs EXCEPT ![serving[h]] = @ + 1]
  /\ GotoHost(h, "running")
  /\ UNCHANGED <<fileVars, owner, backlog, serving, clientVars, wireVars, expired>>

Finish(h) ==
  /\ hpc[h] = "running"
  /\ GotoHost(h, "replying")
  /\ UNCHANGED <<fileVars, owner, backlog, serving, clientVars, wireVars, expired, runs>>

\* A reply that cannot be written in time is dropped with its connection.
Reply(h) ==
  /\ hpc[h] = "replying"
  /\ \/ /\ cpc[serving[h]] # "done"
        /\ answer' = [answer EXCEPT ![serving[h]] =
                        IF runs[serving[h]] > 0 THEN "ran" ELSE "not_delivered"]
     \/ UNCHANGED answer
  /\ HangUp(h)
  /\ UNCHANGED <<fileVars, owner, backlog, clientVars, link, payload, expired, runs>>

\* The host is killed or crashes.
HostDies(h) ==
  /\ hpc[h] \notin {"off", "gone"}
  /\ Vanish(h)
  /\ UNCHANGED <<fileVars, clientVars, wireVars, expired, runs>>

-----------------------------------------------------------------------------

Init ==
  /\ endpoint = NoPeer /\ private = FALSE /\ owner = NoPeer /\ starter = NoPeer
  /\ hpc = [h \in Hosts |-> "off"]
  /\ backlog = [h \in Hosts |-> {}]
  /\ serving = [h \in Hosts |-> NoPeer]
  /\ cpc = [c \in Clients |-> "new"]
  /\ child = [c \in Clients |-> NoPeer]
  /\ link = [c \in Clients |-> NoPeer]
  /\ payload = [c \in Clients |-> "none"]
  /\ answer = [c \in Clients |-> "none"]
  /\ expired = {}
  /\ runs = [c \in Clients |-> 0]
  /\ verdict = [c \in Clients |-> "none"]

ClientStep(c) ==
  \/ Begin(c) \/ Connect(c) \/ FindNobody(c) \/ LockStartup(c) \/ StartHost(c) \/ StartFails(c)
  \/ GiveUpUnsent(c) \/ Exchange(c) \/ Send(c) \/ SendFails(c) \/ Receive(c) \/ ReplyLost(c)

HostStep(h) ==
  \/ Own(h) \/ ClearEndpoint(h) \/ Bind(h) \/ Protect(h) \/ Exit(h) \/ GoIdle(h) \/ Accept(h)
  \/ ReadFrame(h) \/ Refuse(h) \/ Dispatch(h) \/ Finish(h) \/ Reply(h)

Next ==
  \/ \E c \in Clients : ClientStep(c) \/ Expire(c) \/ ClientDies(c)
  \/ \E h \in Hosts : HostStep(h) \/ HostDies(h)

\* The clock runs, and a client takes its steps; hosts may hang at any point.
Fairness == \A c \in Clients : WF_vars(Expire(c)) /\ WF_vars(ClientStep(c))

Spec == Init /\ [][Next]_vars /\ Fairness

-----------------------------------------------------------------------------
(* Properties *)

TypeOK ==
  /\ endpoint \in Hosts \cup {NoPeer} /\ private \in BOOLEAN
  /\ owner \in Hosts \cup {NoPeer} /\ starter \in Clients \cup {NoPeer}
  /\ hpc \in [Hosts -> {"off", "starting", "owning", "cleared", "bound", "accepting", "leaving",
                        "reading", "ready", "running", "replying", "gone"}]
  /\ backlog \in [Hosts -> SUBSET Clients]
  /\ serving \in [Hosts -> Clients \cup {NoPeer}]
  /\ cpc \in [Clients -> {"new", "connecting", "locking", "checking", "polling", "connected",
                          "sending", "awaiting", "done"}]
  /\ child \in [Clients -> Hosts \cup {NoPeer}]
  /\ link \in [Clients -> Hosts \cup {NoPeer}]
  /\ payload \in [Clients -> {"none", "whole"}]
  /\ answer \in [Clients -> {"none", "not_delivered", "ran"}]
  /\ expired \subseteq Clients
  /\ runs \in [Clients -> 0 .. 2]
  /\ verdict \in [Clients -> {"none", "not_delivered", "uncertain", "ran"}]

\* What a client reports can be acted upon: a command reported as not
\* delivered has not run and will not, whatever died, expired or was killed on
\* the way; and no command runs twice.
VerdictIsHonest ==
  \A c \in Clients :
    /\ verdict[c] = "not_delivered" => runs[c] = 0
    /\ verdict[c] = "ran" => runs[c] = 1
    /\ runs[c] <= 1

\* Concurrent startup has one winner: of all hosts only one listens, has the
\* lock, and the socket file leads to it; no newcomer takes its file away.
OneHostListens ==
  \A h \in Hosts : Listening(h) => owner = h /\ endpoint = h

\* The lock is held from the moment a host has it until it is gone, and the
\* socket file leads to the host that listens: nobody else clears or binds it.
LockIsKept ==
  \A h \in Hosts : /\ hpc[h] \notin {"off", "starting", "gone"} <=> owner = h
                   /\ Listening(h) => endpoint = h
                   /\ hpc[h] \in {"reading", "ready", "running", "replying"} <=> serving[h] # NoPeer

\* What a host has of client c: a connection of that client, the request as far
\* as it was read, and no answer yet.
ServedOnce(c, h) ==
  /\ c \in backlog[h] => link[c] = h /\ serving[h] # c /\ runs[c] = 0 /\ answer[c] = "none"
  /\ serving[h] = c => /\ link[c] = h /\ answer[c] = "none"
                       /\ hpc[h] \in {"reading", "ready"} => runs[c] = 0
                       /\ hpc[h] = "running" => runs[c] = 1
                       /\ hpc[h] # "reading" => payload[c] = "whole"

\* What a client knows: of a command that runs it has sent all, and an answer
\* says whether it ran.
AnsweredTruly(c) ==
  /\ cpc[c] # "done" =>
       (link[c] = NoPeer <=> cpc[c] \in {"new", "connecting", "locking", "checking", "polling"})
  /\ link[c] = NoPeer => payload[c] = "none" /\ answer[c] = "none"
  /\ cpc[c] \in {"connected", "sending"} => payload[c] = "none"
  /\ cpc[c] = "polling" => child[c] \in Hosts
  /\ cpc[c] # "done" => verdict[c] = "none"
  /\ payload[c] = "none" => runs[c] = 0 /\ answer[c] # "ran"
  /\ answer[c] = "not_delivered" => runs[c] = 0
  /\ answer[c] = "ran" => runs[c] = 1
  /\ verdict[c] = "not_delivered" => payload[c] = "none" \/ answer[c] = "not_delivered"
  /\ verdict[c] = "ran" => runs[c] = 1
  /\ runs[c] <= 1

\* Why verdicts are honest and one host listens.
HostInv ==
  /\ TypeOK /\ LockIsKept
  /\ \A c \in Clients : AnsweredTruly(c) /\ \A h \in Hosts : ServedOnce(c, h)

\* A client always comes back, also from a host that hangs.
ForwardEnds == \A c \in Clients : cpc[c] # "new" ~> cpc[c] = "done"
=============================================================================
