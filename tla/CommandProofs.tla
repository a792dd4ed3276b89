--------------------------- MODULE CommandProofs ---------------------------
(***************************************************************************)
(* Forwarded commands, batches, the clipboard, the resolution of saved     *)
(* references, Notification Center, gestures, activation, desired states   *)
(* and applications: the invariants of their components, for any number of *)
(* clients and hosts, for batches of any length on any number of windows,  *)
(* for any number of versions of the pasteboard, of changes to the tree,   *)
(* of notifications and of ways to dismiss them, of units of a gesture,    *)
(* and of attempts, applications and events.                               *)
(*                                                                         *)
(* HostInv follows a command over its connection: a client that has not    *)
(* sent all of its request has nothing that can run, a connection is in    *)
(* one backlog or with one host, and it is there only until it ran.        *)
(* BatchInv follows a baseline from its capture to the wait that gets it.  *)
(* ClipboardInv follows what the helper knows of the pasteboard.           *)
(* ResolveInv says that the process that was verified is the one looked    *)
(* into.  NoticeInv follows a session with Notification Center, and weighs *)
(* what is reported as dismissed against what is gone.  GestureInv says    *)
(* whether the button is down; ChainInv, DesireInv and AppInv that what    *)
(* the command may still report is true of what was done, at every step at *)
(* which it could end.                                                     *)
(***************************************************************************)
EXTENDS CommandState, Naturals, Sequences, FiniteSets, FiniteSetTheorems,
        SequenceTheorems, TLAPS

H == INSTANCE CommandHost
B == INSTANCE Batch
C == INSTANCE Clipboard
R == INSTANCE RefResolution
N == INSTANCE NotificationCenter
P == INSTANCE PhysicalInput
A == INSTANCE ActivationChain
D == INSTANCE DesiredState
K == INSTANCE AppLifecycle

\* "No one" is told from every process.
ASSUME PeerAssumption == NoPeer \notin Clients \cup Hosts

\* Batches may have an entry; a missing baseline or finding is told from any.
ASSUME EntriesAssumption == MaxEntries \in Nat \ {0}
ASSUME BaselineAssumption == NoBaseline \notin B!Observed \cup Windows \cup 0 .. 2

\* The pasteboard has a version.
ASSUME VersionsAssumption == MaxVersions \in Nat \ {0}

\* "No failure" is told from the failures.
ASSUME NoneAssumption == None \notin {"window_not_found", "ambiguous"}

\* There is a way to dismiss a notification.
ASSUME NotesAssumption == MaxNotes \in Nat /\ Strategies \in Nat \ {0}


-----------------------------------------------------------------------------
(* The steps of a client *)

\* A client that has not connected has sent nothing: nothing of it can run.
LEMMA BeginKeeps ==
  ASSUME H!HostInv, NEW c \in Clients, H!Begin(c)
  PROVE  H!HostInv'
<1> USE PeerAssumption DEF H!Begin, H!Report, H!GotoClient, H!fileVars, H!hostVars, H!wireVars
<1>1. H!TypeOK'
  BY DEF H!HostInv, H!TypeOK, H!LockIsKept, H!ServedOnce
<1>2. H!LockIsKept'
  BY DEF H!HostInv, H!TypeOK, H!LockIsKept, H!Listening, H!AnsweredTruly
<1>3. \A d \in Clients : H!AnsweredTruly(d)'
  BY DEF H!HostInv, H!TypeOK, H!LockIsKept, H!AnsweredTruly, H!ServedOnce
<1>4. \A d \in Clients, g \in Hosts : H!ServedOnce(d, g)'
  BY DEF H!HostInv, H!TypeOK, H!LockIsKept, H!AnsweredTruly, H!ServedOnce
<1> QED
  BY <1>1, <1>2, <1>3, <1>4 DEF H!HostInv

\* A connection is new to the host: its client has none yet.
LEMMA ConnectKeeps ==
  ASSUME H!HostInv, NEW c \in Clients, H!Connect(c)
  PROVE  H!HostInv'
<1> USE PeerAssumption DEF H!Connect, H!GotoClient, H!Connected, H!fileVars
<1>1. H!TypeOK'
  BY DEF H!HostInv, H!TypeOK, H!LockIsKept, H!ServedOnce
<1>2. H!LockIsKept'
  BY DEF H!HostInv, H!TypeOK, H!LockIsKept, H!Listening, H!AnsweredTruly
<1>3. \A d \in Clients : H!AnsweredTruly(d)'
  BY DEF H!HostInv, H!TypeOK, H!LockIsKept, H!AnsweredTruly, H!ServedOnce
<1>4. \A d \in Clients, g \in Hosts : H!ServedOnce(d, g)'
  BY DEF H!HostInv, H!TypeOK, H!LockIsKept, H!AnsweredTruly, H!ServedOnce
<1> QED
  BY <1>1, <1>2, <1>3, <1>4 DEF H!HostInv

LEMMA FindNobodyKeeps ==
  ASSUME H!HostInv, NEW c \in Clients, H!FindNobody(c)
  PROVE  H!HostInv'
<1> USE PeerAssumption DEF H!FindNobody, H!GotoClient, H!fileVars, H!hostVars, H!wireVars
<1>1. H!TypeOK'
  BY DEF H!HostInv, H!TypeOK, H!LockIsKept, H!ServedOnce
<1>2. H!LockIsKept'
  BY DEF H!HostInv, H!TypeOK, H!LockIsKept, H!Listening, H!AnsweredTruly
<1>3. \A d \in Clients : H!AnsweredTruly(d)'
  BY DEF H!HostInv, H!TypeOK, H!LockIsKept, H!AnsweredTruly, H!ServedOnce
<1>4. \A d \in Clients, g \in Hosts : H!ServedOnce(d, g)'
  BY DEF H!HostInv, H!TypeOK, H!LockIsKept, H!AnsweredTruly, H!ServedOnce
<1> QED
  BY <1>1, <1>2, <1>3, <1>4 DEF H!HostInv

LEMMA LockStartupKeeps ==
  ASSUME H!HostInv, NEW c \in Clients, H!LockStartup(c)
  PROVE  H!HostInv'
<1> USE PeerAssumption DEF H!LockStartup, H!GotoClient, H!fileVars, H!hostVars, H!wireVars
<1>1. H!TypeOK'
  BY DEF H!HostInv, H!TypeOK, H!LockIsKept, H!ServedOnce
<1>2. H!LockIsKept'
  BY DEF H!HostInv, H!TypeOK, H!LockIsKept, H!Listening, H!AnsweredTruly
<1>3. \A d \in Clients : H!AnsweredTruly(d)'
  BY DEF H!HostInv, H!TypeOK, H!LockIsKept, H!AnsweredTruly, H!ServedOnce
<1>4. \A d \in Clients, g \in Hosts : H!ServedOnce(d, g)'
  BY DEF H!HostInv, H!TypeOK, H!LockIsKept, H!AnsweredTruly, H!ServedOnce
<1> QED
  BY <1>1, <1>2, <1>3, <1>4 DEF H!HostInv

LEMMA StartHostKeeps ==
  ASSUME H!HostInv, NEW c \in Clients, H!StartHost(c)
  PROVE  H!HostInv'
<1> USE PeerAssumption DEF H!StartHost, H!GotoClient, H!GotoHost, H!fileVars, H!wireVars
<1>1. H!TypeOK'
  BY DEF H!HostInv, H!TypeOK, H!LockIsKept, H!ServedOnce
<1>2. H!LockIsKept'
  BY DEF H!HostInv, H!TypeOK, H!LockIsKept, H!Listening, H!AnsweredTruly
<1>3. \A d \in Clients : H!AnsweredTruly(d)'
  BY DEF H!HostInv, H!TypeOK, H!LockIsKept, H!AnsweredTruly, H!ServedOnce
<1>4. \A d \in Clients, g \in Hosts : H!ServedOnce(d, g)'
  BY DEF H!HostInv, H!TypeOK, H!LockIsKept, H!AnsweredTruly, H!ServedOnce
<1> QED
  BY <1>1, <1>2, <1>3, <1>4 DEF H!HostInv

\* The host that a client gives up may serve others; they see it hang up.
LEMMA StartFailsKeeps ==
  ASSUME H!HostInv, NEW c \in Clients, H!StartFails(c)
  PROVE  H!HostInv'
<1> USE PeerAssumption DEF H!StartFails, H!Report, H!GotoClient, H!GotoHost, H!Vanish, H!fileVars, H!hostVars, H!wireVars
<1>1. H!TypeOK'
  BY DEF H!HostInv, H!TypeOK, H!LockIsKept, H!ServedOnce
<1>2. H!LockIsKept'
  BY DEF H!HostInv, H!TypeOK, H!LockIsKept, H!Listening, H!AnsweredTruly
<1>3. \A d \in Clients : H!AnsweredTruly(d)'
  BY DEF H!HostInv, H!TypeOK, H!LockIsKept, H!AnsweredTruly, H!ServedOnce
<1>4. \A d \in Clients, g \in Hosts : H!ServedOnce(d, g)'
  BY DEF H!HostInv, H!TypeOK, H!LockIsKept, H!AnsweredTruly, H!ServedOnce
<1> QED
  BY <1>1, <1>2, <1>3, <1>4 DEF H!HostInv

\* Nothing was written, so the frame is never whole.
LEMMA GiveUpUnsentKeeps ==
  ASSUME H!HostInv, NEW c \in Clients, H!GiveUpUnsent(c)
  PROVE  H!HostInv'
<1> USE PeerAssumption DEF H!GiveUpUnsent, H!Report, H!GotoClient, H!fileVars, H!hostVars, H!wireVars
<1>1. H!TypeOK'
  BY DEF H!HostInv, H!TypeOK, H!LockIsKept, H!ServedOnce
<1>2. H!LockIsKept'
  BY DEF H!HostInv, H!TypeOK, H!LockIsKept, H!Listening, H!AnsweredTruly
<1>3. \A d \in Clients : H!AnsweredTruly(d)'
  BY DEF H!HostInv, H!TypeOK, H!LockIsKept, H!AnsweredTruly, H!ServedOnce
<1>4. \A d \in Clients, g \in Hosts : H!ServedOnce(d, g)'
  BY DEF H!HostInv, H!TypeOK, H!LockIsKept, H!AnsweredTruly, H!ServedOnce
<1> QED
  BY <1>1, <1>2, <1>3, <1>4 DEF H!HostInv

LEMMA ExchangeKeeps ==
  ASSUME H!HostInv, NEW c \in Clients, H!Exchange(c)
  PROVE  H!HostInv'
<1> USE PeerAssumption DEF H!Exchange, H!GotoClient, H!fileVars, H!hostVars, H!wireVars
<1>1. H!TypeOK'
  BY DEF H!HostInv, H!TypeOK, H!LockIsKept, H!ServedOnce
<1>2. H!LockIsKept'
  BY DEF H!HostInv, H!TypeOK, H!LockIsKept, H!Listening, H!AnsweredTruly
<1>3. \A d \in Clients : H!AnsweredTruly(d)'
  BY DEF H!HostInv, H!TypeOK, H!LockIsKept, H!AnsweredTruly, H!ServedOnce
<1>4. \A d \in Clients, g \in Hosts : H!ServedOnce(d, g)'
  BY DEF H!HostInv, H!TypeOK, H!LockIsKept, H!AnsweredTruly, H!ServedOnce
<1> QED
  BY <1>1, <1>2, <1>3, <1>4 DEF H!HostInv

\* From here on the command may run; the client will not say otherwise.
LEMMA SendKeeps ==
  ASSUME H!HostInv, NEW c \in Clients, H!Send(c)
  PROVE  H!HostInv'
<1> USE PeerAssumption DEF H!Send, H!GotoClient, H!fileVars, H!hostVars
<1>1. H!TypeOK'
  BY DEF H!HostInv, H!TypeOK, H!LockIsKept, H!ServedOnce
<1>2. H!LockIsKept'
  BY DEF H!HostInv, H!TypeOK, H!LockIsKept, H!Listening, H!AnsweredTruly
<1>3. \A d \in Clients : H!AnsweredTruly(d)'
  BY DEF H!HostInv, H!TypeOK, H!LockIsKept, H!AnsweredTruly, H!ServedOnce
<1>4. \A d \in Clients, g \in Hosts : H!ServedOnce(d, g)'
  BY DEF H!HostInv, H!TypeOK, H!LockIsKept, H!AnsweredTruly, H!ServedOnce
<1> QED
  BY <1>1, <1>2, <1>3, <1>4 DEF H!HostInv

LEMMA SendFailsKeeps ==
  ASSUME H!HostInv, NEW c \in Clients, H!SendFails(c)
  PROVE  H!HostInv'
<1> USE PeerAssumption DEF H!SendFails, H!Report, H!GotoClient, H!fileVars, H!hostVars
<1>1. H!TypeOK'
  BY DEF H!HostInv, H!TypeOK, H!LockIsKept, H!ServedOnce
<1>2. H!LockIsKept'
  BY DEF H!HostInv, H!TypeOK, H!LockIsKept, H!Listening, H!AnsweredTruly
<1>3. \A d \in Clients : H!AnsweredTruly(d)'
  BY DEF H!HostInv, H!TypeOK, H!LockIsKept, H!AnsweredTruly, H!ServedOnce
<1>4. \A d \in Clients, g \in Hosts : H!ServedOnce(d, g)'
  BY DEF H!HostInv, H!TypeOK, H!LockIsKept, H!AnsweredTruly, H!ServedOnce
<1> QED
  BY <1>1, <1>2, <1>3, <1>4 DEF H!HostInv

LEMMA ReceiveKeeps ==
  ASSUME H!HostInv, NEW c \in Clients, H!Receive(c)
  PROVE  H!HostInv'
<1> USE PeerAssumption DEF H!Receive, H!Report, H!GotoClient, H!fileVars, H!hostVars, H!wireVars
<1>1. H!TypeOK'
  BY DEF H!HostInv, H!TypeOK, H!LockIsKept, H!ServedOnce
<1>2. H!LockIsKept'
  BY DEF H!HostInv, H!TypeOK, H!LockIsKept, H!Listening, H!AnsweredTruly
<1>3. \A d \in Clients : H!AnsweredTruly(d)'
  BY DEF H!HostInv, H!TypeOK, H!LockIsKept, H!AnsweredTruly, H!ServedOnce
<1>4. \A d \in Clients, g \in Hosts : H!ServedOnce(d, g)'
  BY DEF H!HostInv, H!TypeOK, H!LockIsKept, H!AnsweredTruly, H!ServedOnce
<1> QED
  BY <1>1, <1>2, <1>3, <1>4 DEF H!HostInv

LEMMA ReplyLostKeeps ==
  ASSUME H!HostInv, NEW c \in Clients, H!ReplyLost(c)
  PROVE  H!HostInv'
<1> USE PeerAssumption DEF H!ReplyLost, H!Report, H!GotoClient, H!fileVars, H!hostVars, H!wireVars
<1>1. H!TypeOK'
  BY DEF H!HostInv, H!TypeOK, H!LockIsKept, H!ServedOnce
<1>2. H!LockIsKept'
  BY DEF H!HostInv, H!TypeOK, H!LockIsKept, H!Listening, H!AnsweredTruly
<1>3. \A d \in Clients : H!AnsweredTruly(d)'
  BY DEF H!HostInv, H!TypeOK, H!LockIsKept, H!AnsweredTruly, H!ServedOnce
<1>4. \A d \in Clients, g \in Hosts : H!ServedOnce(d, g)'
  BY DEF H!HostInv, H!TypeOK, H!LockIsKept, H!AnsweredTruly, H!ServedOnce
<1> QED
  BY <1>1, <1>2, <1>3, <1>4 DEF H!HostInv

LEMMA ClientDiesKeeps ==
  ASSUME H!HostInv, NEW c \in Clients, H!ClientDies(c)
  PROVE  H!HostInv'
<1> USE PeerAssumption DEF H!ClientDies, H!Report, H!GotoClient, H!fileVars, H!hostVars, H!wireVars
<1>1. H!TypeOK'
  BY DEF H!HostInv, H!TypeOK, H!LockIsKept, H!ServedOnce
<1>2. H!LockIsKept'
  BY DEF H!HostInv, H!TypeOK, H!LockIsKept, H!Listening, H!AnsweredTruly
<1>3. \A d \in Clients : H!AnsweredTruly(d)'
  BY DEF H!HostInv, H!TypeOK, H!LockIsKept, H!AnsweredTruly, H!ServedOnce
<1>4. \A d \in Clients, g \in Hosts : H!ServedOnce(d, g)'
  BY DEF H!HostInv, H!TypeOK, H!LockIsKept, H!AnsweredTruly, H!ServedOnce
<1> QED
  BY <1>1, <1>2, <1>3, <1>4 DEF H!HostInv

LEMMA ExpireKeeps ==
  ASSUME H!HostInv, NEW c \in Clients, H!Expire(c)
  PROVE  H!HostInv'
<1> USE PeerAssumption DEF H!Expire, H!fileVars, H!hostVars, H!clientVars, H!wireVars
<1>1. H!TypeOK'
  BY DEF H!HostInv, H!TypeOK, H!LockIsKept, H!ServedOnce
<1>2. H!LockIsKept'
  BY DEF H!HostInv, H!TypeOK, H!LockIsKept, H!Listening, H!AnsweredTruly
<1>3. \A d \in Clients : H!AnsweredTruly(d)'
  BY DEF H!HostInv, H!TypeOK, H!LockIsKept, H!AnsweredTruly, H!ServedOnce
<1>4. \A d \in Clients, g \in Hosts : H!ServedOnce(d, g)'
  BY DEF H!HostInv, H!TypeOK, H!LockIsKept, H!AnsweredTruly, H!ServedOnce
<1> QED
  BY <1>1, <1>2, <1>3, <1>4 DEF H!HostInv

-----------------------------------------------------------------------------
(* The steps of a host *)

\* Whoever has the lock has it alone.
LEMMA OwnKeeps ==
  ASSUME H!HostInv, NEW h \in Hosts, H!Own(h)
  PROVE  H!HostInv'
<1> USE PeerAssumption DEF H!Own, H!GotoHost, H!fileVars, H!clientVars, H!wireVars
<1>1. H!TypeOK'
  BY DEF H!HostInv, H!TypeOK, H!LockIsKept, H!ServedOnce
<1>2. H!LockIsKept'
  BY DEF H!HostInv, H!TypeOK, H!LockIsKept, H!Listening, H!AnsweredTruly
<1>3. \A d \in Clients : H!AnsweredTruly(d)'
  BY DEF H!HostInv, H!TypeOK, H!LockIsKept, H!AnsweredTruly, H!ServedOnce
<1>4. \A d \in Clients, g \in Hosts : H!ServedOnce(d, g)'
  BY DEF H!HostInv, H!TypeOK, H!LockIsKept, H!AnsweredTruly, H!ServedOnce
<1> QED
  BY <1>1, <1>2, <1>3, <1>4 DEF H!HostInv

\* No host listens but the owner, which does not yet: nobody loses its file.
LEMMA ClearEndpointKeeps ==
  ASSUME H!HostInv, NEW h \in Hosts, H!ClearEndpoint(h)
  PROVE  H!HostInv'
<1> USE PeerAssumption DEF H!ClearEndpoint, H!GotoHost, H!clientVars, H!wireVars
<1>1. H!TypeOK'
  BY DEF H!HostInv, H!TypeOK, H!LockIsKept, H!ServedOnce
<1>2. H!LockIsKept'
  BY DEF H!HostInv, H!TypeOK, H!LockIsKept, H!Listening, H!AnsweredTruly
<1>3. \A d \in Clients : H!AnsweredTruly(d)'
  BY DEF H!HostInv, H!TypeOK, H!LockIsKept, H!AnsweredTruly, H!ServedOnce
<1>4. \A d \in Clients, g \in Hosts : H!ServedOnce(d, g)'
  BY DEF H!HostInv, H!TypeOK, H!LockIsKept, H!AnsweredTruly, H!ServedOnce
<1> QED
  BY <1>1, <1>2, <1>3, <1>4 DEF H!HostInv

LEMMA BindKeeps ==
  ASSUME H!HostInv, NEW h \in Hosts, H!Bind(h)
  PROVE  H!HostInv'
<1> USE PeerAssumption DEF H!Bind, H!GotoHost, H!clientVars, H!wireVars
<1>1. H!TypeOK'
  BY DEF H!HostInv, H!TypeOK, H!LockIsKept, H!ServedOnce
<1>2. H!LockIsKept'
  BY DEF H!HostInv, H!TypeOK, H!LockIsKept, H!Listening, H!AnsweredTruly
<1>3. \A d \in Clients : H!AnsweredTruly(d)'
  BY DEF H!HostInv, H!TypeOK, H!LockIsKept, H!AnsweredTruly, H!ServedOnce
<1>4. \A d \in Clients, g \in Hosts : H!ServedOnce(d, g)'
  BY DEF H!HostInv, H!TypeOK, H!LockIsKept, H!AnsweredTruly, H!ServedOnce
<1> QED
  BY <1>1, <1>2, <1>3, <1>4 DEF H!HostInv

LEMMA ProtectKeeps ==
  ASSUME H!HostInv, NEW h \in Hosts, H!Protect(h)
  PROVE  H!HostInv'
<1> USE PeerAssumption DEF H!Protect, H!GotoHost, H!clientVars, H!wireVars
<1>1. H!TypeOK'
  BY DEF H!HostInv, H!TypeOK, H!LockIsKept, H!ServedOnce
<1>2. H!LockIsKept'
  BY DEF H!HostInv, H!TypeOK, H!LockIsKept, H!Listening, H!AnsweredTruly
<1>3. \A d \in Clients : H!AnsweredTruly(d)'
  BY DEF H!HostInv, H!TypeOK, H!LockIsKept, H!AnsweredTruly, H!ServedOnce
<1>4. \A d \in Clients, g \in Hosts : H!ServedOnce(d, g)'
  BY DEF H!HostInv, H!TypeOK, H!LockIsKept, H!AnsweredTruly, H!ServedOnce
<1> QED
  BY <1>1, <1>2, <1>3, <1>4 DEF H!HostInv

\* The lock goes with the host.
LEMMA ExitKeeps ==
  ASSUME H!HostInv, NEW h \in Hosts, H!Exit(h)
  PROVE  H!HostInv'
<1> USE PeerAssumption DEF H!Exit, H!GotoHost, H!Vanish, H!fileVars, H!clientVars, H!wireVars
<1>1. H!TypeOK'
  BY DEF H!HostInv, H!TypeOK, H!LockIsKept, H!ServedOnce
<1>2. H!LockIsKept'
  BY DEF H!HostInv, H!TypeOK, H!LockIsKept, H!Listening, H!AnsweredTruly
<1>3. \A d \in Clients : H!AnsweredTruly(d)'
  BY DEF H!HostInv, H!TypeOK, H!LockIsKept, H!AnsweredTruly, H!ServedOnce
<1>4. \A d \in Clients, g \in Hosts : H!ServedOnce(d, g)'
  BY DEF H!HostInv, H!TypeOK, H!LockIsKept, H!AnsweredTruly, H!ServedOnce
<1> QED
  BY <1>1, <1>2, <1>3, <1>4 DEF H!HostInv

LEMMA GoIdleKeeps ==
  ASSUME H!HostInv, NEW h \in Hosts, H!GoIdle(h)
  PROVE  H!HostInv'
<1> USE PeerAssumption DEF H!GoIdle, H!GotoHost, H!fileVars, H!clientVars, H!wireVars
<1>1. H!TypeOK'
  BY DEF H!HostInv, H!TypeOK, H!LockIsKept, H!ServedOnce
<1>2. H!LockIsKept'
  BY DEF H!HostInv, H!TypeOK, H!LockIsKept, H!Listening, H!AnsweredTruly
<1>3. \A d \in Clients : H!AnsweredTruly(d)'
  BY DEF H!HostInv, H!TypeOK, H!LockIsKept, H!AnsweredTruly, H!ServedOnce
<1>4. \A d \in Clients, g \in Hosts : H!ServedOnce(d, g)'
  BY DEF H!HostInv, H!TypeOK, H!LockIsKept, H!AnsweredTruly, H!ServedOnce
<1> QED
  BY <1>1, <1>2, <1>3, <1>4 DEF H!HostInv

\* A connection leaves the backlog once.
LEMMA AcceptKeeps ==
  ASSUME H!HostInv, NEW h \in Hosts, H!Accept(h)
  PROVE  H!HostInv'
<1> USE PeerAssumption DEF H!Accept, H!GotoHost, H!fileVars, H!clientVars, H!wireVars
<1>1. H!TypeOK'
  BY DEF H!HostInv, H!TypeOK, H!LockIsKept, H!ServedOnce
<1>2. H!LockIsKept'
  BY DEF H!HostInv, H!TypeOK, H!LockIsKept, H!Listening, H!AnsweredTruly
<1>3. \A d \in Clients : H!AnsweredTruly(d)'
  BY DEF H!HostInv, H!TypeOK, H!LockIsKept, H!AnsweredTruly, H!ServedOnce
<1>4. \A d \in Clients, g \in Hosts : H!ServedOnce(d, g)'
  BY DEF H!HostInv, H!TypeOK, H!LockIsKept, H!AnsweredTruly, H!ServedOnce
<1> QED
  BY <1>1, <1>2, <1>3, <1>4 DEF H!HostInv

\* Of a frame that is not whole nothing is executed.
LEMMA ReadFrameKeeps ==
  ASSUME H!HostInv, NEW h \in Hosts, H!ReadFrame(h)
  PROVE  H!HostInv'
<1> USE PeerAssumption DEF H!ReadFrame, H!GotoHost, H!HangUp, H!fileVars, H!clientVars, H!wireVars
<1>1. H!TypeOK'
  BY DEF H!HostInv, H!TypeOK, H!LockIsKept, H!ServedOnce
<1>2. H!LockIsKept'
  BY DEF H!HostInv, H!TypeOK, H!LockIsKept, H!Listening, H!AnsweredTruly
<1>3. \A d \in Clients : H!AnsweredTruly(d)'
  BY DEF H!HostInv, H!TypeOK, H!LockIsKept, H!AnsweredTruly, H!ServedOnce
<1>4. \A d \in Clients, g \in Hosts : H!ServedOnce(d, g)'
  BY DEF H!HostInv, H!TypeOK, H!LockIsKept, H!AnsweredTruly, H!ServedOnce
<1> QED
  BY <1>1, <1>2, <1>3, <1>4 DEF H!HostInv

LEMMA RefuseKeeps ==
  ASSUME H!HostInv, NEW h \in Hosts, H!Refuse(h)
  PROVE  H!HostInv'
<1> USE PeerAssumption DEF H!Refuse, H!GotoHost, H!fileVars, H!clientVars, H!wireVars
<1>1. H!TypeOK'
  BY DEF H!HostInv, H!TypeOK, H!LockIsKept, H!ServedOnce
<1>2. H!LockIsKept'
  BY DEF H!HostInv, H!TypeOK, H!LockIsKept, H!Listening, H!AnsweredTruly
<1>3. \A d \in Clients : H!AnsweredTruly(d)'
  BY DEF H!HostInv, H!TypeOK, H!LockIsKept, H!AnsweredTruly, H!ServedOnce
<1>4. \A d \in Clients, g \in Hosts : H!ServedOnce(d, g)'
  BY DEF H!HostInv, H!TypeOK, H!LockIsKept, H!AnsweredTruly, H!ServedOnce
<1> QED
  BY <1>1, <1>2, <1>3, <1>4 DEF H!HostInv

\* The connection is served by this host alone and has not run: it runs once.
LEMMA DispatchKeeps ==
  ASSUME H!HostInv, NEW h \in Hosts, H!Dispatch(h)
  PROVE  H!HostInv'
<1> USE PeerAssumption DEF H!Dispatch, H!GotoHost, H!fileVars, H!clientVars, H!wireVars
<1>1. H!TypeOK'
  BY DEF H!HostInv, H!TypeOK, H!LockIsKept, H!ServedOnce
<1>2. H!LockIsKept'
  BY DEF H!HostInv, H!TypeOK, H!LockIsKept, H!Listening, H!AnsweredTruly
<1>3. \A d \in Clients : H!AnsweredTruly(d)'
  BY DEF H!HostInv, H!TypeOK, H!LockIsKept, H!AnsweredTruly, H!ServedOnce
<1>4. \A d \in Clients, g \in Hosts : H!ServedOnce(d, g)'
  BY DEF H!HostInv, H!TypeOK, H!LockIsKept, H!AnsweredTruly, H!ServedOnce
<1> QED
  BY <1>1, <1>2, <1>3, <1>4 DEF H!HostInv

LEMMA FinishKeeps ==
  ASSUME H!HostInv, NEW h \in Hosts, H!Finish(h)
  PROVE  H!HostInv'
<1> USE PeerAssumption DEF H!Finish, H!GotoHost, H!fileVars, H!clientVars, H!wireVars
<1>1. H!TypeOK'
  BY DEF H!HostInv, H!TypeOK, H!LockIsKept, H!ServedOnce
<1>2. H!LockIsKept'
  BY DEF H!HostInv, H!TypeOK, H!LockIsKept, H!Listening, H!AnsweredTruly
<1>3. \A d \in Clients : H!AnsweredTruly(d)'
  BY DEF H!HostInv, H!TypeOK, H!LockIsKept, H!AnsweredTruly, H!ServedOnce
<1>4. \A d \in Clients, g \in Hosts : H!ServedOnce(d, g)'
  BY DEF H!HostInv, H!TypeOK, H!LockIsKept, H!AnsweredTruly, H!ServedOnce
<1> QED
  BY <1>1, <1>2, <1>3, <1>4 DEF H!HostInv

\* The answer tells what was done on the connection, which ends with it.
LEMMA ReplyKeeps ==
  ASSUME H!HostInv, NEW h \in Hosts, H!Reply(h)
  PROVE  H!HostInv'
<1> USE PeerAssumption DEF H!Reply, H!GotoHost, H!HangUp, H!fileVars, H!clientVars
<1>1. H!TypeOK'
  BY DEF H!HostInv, H!TypeOK, H!LockIsKept, H!ServedOnce
<1>2. H!LockIsKept'
  BY DEF H!HostInv, H!TypeOK, H!LockIsKept, H!Listening, H!AnsweredTruly
<1>3. \A d \in Clients : H!AnsweredTruly(d)'
  BY DEF H!HostInv, H!TypeOK, H!LockIsKept, H!AnsweredTruly, H!ServedOnce
<1>4. \A d \in Clients, g \in Hosts : H!ServedOnce(d, g)'
  BY DEF H!HostInv, H!TypeOK, H!LockIsKept, H!AnsweredTruly, H!ServedOnce
<1> QED
  BY <1>1, <1>2, <1>3, <1>4 DEF H!HostInv

\* What was read and not answered is lost, and nobody is told that it did not run.
LEMMA HostDiesKeeps ==
  ASSUME H!HostInv, NEW h \in Hosts, H!HostDies(h)
  PROVE  H!HostInv'
<1> USE PeerAssumption DEF H!HostDies, H!GotoHost, H!Vanish, H!fileVars, H!clientVars, H!wireVars
<1>1. H!TypeOK'
  BY DEF H!HostInv, H!TypeOK, H!LockIsKept, H!ServedOnce
<1>2. H!LockIsKept'
  BY DEF H!HostInv, H!TypeOK, H!LockIsKept, H!Listening, H!AnsweredTruly
<1>3. \A d \in Clients : H!AnsweredTruly(d)'
  BY DEF H!HostInv, H!TypeOK, H!LockIsKept, H!AnsweredTruly, H!ServedOnce
<1>4. \A d \in Clients, g \in Hosts : H!ServedOnce(d, g)'
  BY DEF H!HostInv, H!TypeOK, H!LockIsKept, H!AnsweredTruly, H!ServedOnce
<1> QED
  BY <1>1, <1>2, <1>3, <1>4 DEF H!HostInv

-----------------------------------------------------------------------------
(* All steps of clients and hosts *)

\* At the start nobody has connected to anything.
LEMMA HostInvStarts ==
  ASSUME H!Init
  PROVE  H!HostInv
<1> USE PeerAssumption
<1>1. H!TypeOK
  <2>1. runs \in [Clients -> 0 .. 2]
    BY DEF H!Init
  <2>2. private \in BOOLEAN
    BY Zenon DEF H!Init
  <2>3. /\ hpc \in [Hosts -> {"off", "starting", "owning", "cleared", "bound", "accepting",
                          "leaving", "reading", "ready", "running", "replying", "gone"}]
        /\ cpc \in [Clients -> {"new", "connecting", "locking", "checking", "polling",
                            "connected", "sending", "awaiting", "done"}]
    BY DEF H!Init
  <2> QED
    BY <2>1, <2>2, <2>3 DEF H!Init, H!TypeOK
<1>2. H!LockIsKept
  BY DEF H!Init, H!LockIsKept, H!Listening
<1>3. ASSUME NEW c \in Clients
      PROVE  H!AnsweredTruly(c) /\ \A h \in Hosts : H!ServedOnce(c, h)
  <2>1. /\ cpc[c] = "new" /\ link[c] = NoPeer /\ payload[c] = "none" /\ answer[c] = "none"
        /\ runs[c] = 0 /\ verdict[c] = "none"
    BY DEF H!Init
  <2>2. \A h \in Hosts : c \notin backlog[h] /\ serving[h] # c
    BY DEF H!Init
  <2> QED
    BY <2>1, <2>2 DEF H!AnsweredTruly, H!ServedOnce
<1> QED
  BY <1>1, <1>2, <1>3 DEF H!HostInv

\* The steps of clients and hosts, in any order, and their deaths.
LEMMA HostInvIsKept ==
  ASSUME H!HostInv, [H!Next]_(H!vars)
  PROVE  H!HostInv'
<1> USE PeerAssumption
<1>1. ASSUME NEW c \in Clients, H!ClientStep(c) \/ H!Expire(c) \/ H!ClientDies(c) PROVE H!HostInv'
  BY <1>1, BeginKeeps, ConnectKeeps, FindNobodyKeeps, LockStartupKeeps, StartHostKeeps, StartFailsKeeps, GiveUpUnsentKeeps,
     ExchangeKeeps, SendKeeps, SendFailsKeeps, ReceiveKeeps, ReplyLostKeeps, ClientDiesKeeps, ExpireKeeps
     DEF H!ClientStep
<1>2. ASSUME NEW h \in Hosts, H!HostStep(h) \/ H!HostDies(h) PROVE H!HostInv'
  BY <1>2, OwnKeeps, ClearEndpointKeeps, BindKeeps, ProtectKeeps, ExitKeeps, GoIdleKeeps, AcceptKeeps,
     ReadFrameKeeps, RefuseKeeps, DispatchKeeps, FinishKeeps, ReplyKeeps, HostDiesKeeps DEF H!HostStep
<1>3. ASSUME UNCHANGED H!vars PROVE H!HostInv'
  BY <1>3 DEF H!vars, H!fileVars, H!hostVars, H!clientVars, H!wireVars, H!HostInv, H!TypeOK, H!LockIsKept,
     H!Listening, H!ServedOnce, H!AnsweredTruly
<1> QED
  BY <1>1, <1>2, <1>3 DEF H!Next

-----------------------------------------------------------------------------
(* Batch *)

\* A batch is a sequence of at most MaxEntries entries.
LEMMA EntriesAreASequence ==
  ASSUME B!TypeOK
  PROVE  /\ Len(entries) \in 0 .. MaxEntries /\ DOMAIN entries = 1 .. Len(entries)
         /\ \A i \in 1 .. Len(entries) : entries[i] \in B!Kinds
<1>1. PICK n \in 0 .. MaxEntries : entries \in [1 .. n -> B!Kinds]
  BY DEF B!TypeOK
<1>2. n \in Nat
  BY EntriesAssumption
<1>3. entries \in Seq(B!Kinds)
  BY <1>1, <1>2, SeqDef
<1>4. DOMAIN entries = 1 .. Len(entries) /\ Len(entries) \in Nat
  BY <1>3, LenProperties
<1>5. Len(entries) = n
  BY <1>1, <1>2, <1>4
<1> QED
  BY <1>1, <1>4, <1>5, EntriesAssumption

\* What is appended to the results.
LEMMA ResultsGrow ==
  ASSUME B!TypeOK, NEW e \in [index : 1 .. MaxEntries, execution : {"completed", "not_started"}],
         results' = Append(results, e)
  PROVE  /\ results' \in Seq([index : 1 .. MaxEntries, execution : {"completed", "not_started"}])
         /\ Len(results) \in Nat /\ DOMAIN results = 1 .. Len(results)
         /\ DOMAIN results' = 1 .. Len(results) + 1
         /\ \A k \in 1 .. Len(results) : results'[k] = results[k]
         /\ results'[Len(results) + 1] = e
         /\ \A k \in 1 .. Len(results) : /\ results[k].index \in 1 .. MaxEntries
                                         /\ results[k] = B!Entry(results[k].index, results[k].execution)
<1> DEFINE rows == [index : 1 .. MaxEntries, execution : {"completed", "not_started"}]
<1>1. results \in Seq(rows)
  BY DEF B!TypeOK
<1> HIDE DEF rows
<1>2. Len(results) \in Nat /\ DOMAIN results = 1 .. Len(results)
      /\ \A k \in 1 .. Len(results) : results[k] \in rows
  BY <1>1, LenProperties, ElementOfSeq
<1> USE DEF rows
<1>3. results' \in Seq(rows) /\ Len(results') = Len(results) + 1
  BY <1>1
<1>4. DOMAIN results' = 1 .. Len(results) + 1
  BY <1>3, <1>2
<1>5. \A k \in 1 .. Len(results) : results'[k] = results[k]
  BY <1>1, <1>2
<1>6. results'[Len(results) + 1] = e
  BY <1>1, <1>2
<1> QED
  BY <1>2, <1>3, <1>4, <1>5, <1>6 DEF B!Entry

\* The entry that ends is the last one of the results.
LEMMA AccountGrows ==
  ASSUME B!BatchInv, NEW x \in {"completed", "not_started"},
         index <= Len(entries), entries' = entries, ran' = ran,
         at \notin {"start", "done"},
         x = "completed" <=> index \in ran,
         results' = Append(results, B!Entry(index, x)),
         \/ at' = "done" /\ index' = index
         \/ at' = "checking" /\ index' = index + 1
  PROVE  B!AccountIsKept' /\ results' \in Seq([index : 1 .. MaxEntries, execution : {"completed", "not_started"}])
<1> DEFINE n == Len(results)
<1> DEFINE e == B!Entry(index, x)
<1>1. Len(entries) \in 0 .. MaxEntries /\ index \in 1 .. MaxEntries /\ index \in Nat /\ MaxEntries \in Nat
  BY EntriesAreASequence, EntriesAssumption DEF B!BatchInv, B!TypeOK
<1>2. e \in [index : 1 .. MaxEntries, execution : {"completed", "not_started"}] /\ e.index = index
  BY <1>1 DEF B!Entry
<1>3. /\ results' \in Seq([index : 1 .. MaxEntries, execution : {"completed", "not_started"}])
      /\ n \in Nat /\ DOMAIN results = 1 .. n /\ DOMAIN results' = 1 .. n + 1
      /\ \A k \in 1 .. n : results'[k] = results[k]
      /\ results'[n + 1] = e
      /\ \A k \in 1 .. n : /\ results[k].index \in 1 .. MaxEntries
                           /\ results[k] = B!Entry(results[k].index, results[k].execution)
  BY <1>2, ResultsGrow DEF B!BatchInv
<1>4. \A k \in 1 .. n : results[k].index < index
  BY <1>1, <1>3 DEF B!BatchInv, B!AccountIsKept
<1> HIDE DEF n, e
<1>5. \A k \in DOMAIN results' : results'[k].index <= index' /\ (at' # "done" => results'[k].index # index')
  <2> TAKE k \in DOMAIN results'
  <2>1. k \in 1 .. n \/ k = n + 1
    BY <1>3
  <2>2. results'[k].index <= index /\ results'[k].index \in 1 .. MaxEntries
    BY <1>1, <1>2, <1>3, <1>4, <2>1
  <2> QED
    BY <2>2, <1>1
<1>6. \A i \in 1 .. Len(entries) : i \in ran <=> \E k \in DOMAIN results' : results'[k] = B!Entry(i, "completed")
  <2> TAKE i \in 1 .. Len(entries)
  <2>1. CASE i = index
    <3>1. \A k \in 1 .. n : results[k] # B!Entry(i, "completed")
      BY <2>1, <1>3, <1>4, <1>1 DEF B!Entry
    <3>2. i \in ran <=> e = B!Entry(i, "completed")
      BY <2>1 DEF B!Entry, e
    <3> QED
      BY <3>1, <3>2, <1>3
  <2>2. CASE i # index
    <3>1. e # B!Entry(i, "completed")
      BY <2>2 DEF B!Entry, e
    <3>2. i \in ran <=> \E k \in DOMAIN results : results[k] = B!Entry(i, "completed")
      BY <2>2 DEF B!BatchInv, B!AccountIsKept
    <3> QED
      BY <3>1, <3>2, <1>3
  <2> QED
    BY <2>1, <2>2
<1>7. \A j, k \in DOMAIN results' : j < k => results'[j].index < results'[k].index
  <2> SUFFICES ASSUME NEW j \in DOMAIN results', NEW k \in DOMAIN results', j < k
               PROVE  results'[j].index < results'[k].index
    OBVIOUS
  <2>1. j \in 1 .. n /\ (k \in 1 .. n \/ k = n + 1)
    BY <1>3
  <2>2. CASE k \in 1 .. n
    BY <2>1, <2>2, <1>3 DEF B!BatchInv, B!AccountIsKept
  <2>3. CASE k = n + 1
    BY <2>1, <2>3, <1>2, <1>3, <1>4
  <2> QED
    BY <2>1, <2>2, <2>3
<1> QED
  BY <1>3, <1>5, <1>6, <1>7 DEF B!AccountIsKept

\* Nothing that is counted changes.
LEMMA AccountStays ==
  ASSUME B!BatchInv, UNCHANGED <<results, entries, index, ran>>,
         at = "done" => at' = "done", at' \in {"running", "polling"} <=> at \in {"running", "polling"},
         at' = "done" => at = "done"
  PROVE  B!AccountIsKept'
BY DEF B!BatchInv, B!AccountIsKept

\* The desktop moves on: a window that has opened is not unborn again, one that
\* closed does not come back, and an instance follows an earlier one.
DesktopMovesOn ==
  /\ \A w \in Windows : /\ status[w] # "unborn" => status'[w] # "unborn"
                        /\ status[w] # "unborn" /\ status'[w] = "open" => status[w] = "open"
                        /\ status[w] = "gone" => status'[w] = "gone"
  /\ instance <= instance'


\* A step of the desktop types its state, and moves it on.
LEMMA DesktopStep ==
  ASSUME B!BatchInv, B!Desktop
  PROVE  /\ status' \in [Windows -> {"unborn", "open", "gone"}] /\ instance' \in {1, 2}
         /\ focused' \in B!Open' \cup {0}
         /\ DesktopMovesOn
<1> DEFINE Goal == /\ status' \in [Windows -> {"unborn", "open", "gone"}] /\ instance' \in {1, 2}
                   /\ focused' \in B!Open' \cup {0}
                   /\ DesktopMovesOn
<1> USE DEF B!BatchInv, B!TypeOK, B!DeskIsKept, B!Open, DesktopMovesOn
<1>1. ASSUME NEW w \in Windows, B!WindowOpens(w) PROVE Goal
  BY <1>1 DEF B!WindowOpens
<1>2. ASSUME NEW w \in Windows, B!WindowCloses(w) PROVE Goal
  BY <1>2 DEF B!WindowCloses
<1>3. ASSUME B!FocusMoves PROVE Goal
  BY <1>3 DEF B!FocusMoves
<1>4. ASSUME B!AppRestarts PROVE Goal
  BY <1>4 DEF B!AppRestarts
<1> HIDE DEF Goal
<1>5. Goal
  BY <1>1, <1>2, <1>3, <1>4 DEF B!Desktop
<1> QED
  BY <1>5 DEF Goal

\* What an adapter answers when it is asked for the desktop.
LEMMA ObservablesAreTrue ==
  ASSUME B!BatchInv, NEW o \in B!Observable
  PROVE  /\ o \in B!Observed /\ o # NoBaseline /\ B!SeenTruly(o)
         /\ o.complete => /\ o.windows = B!Open /\ o.actual = B!Open /\ o.process = instance
                          /\ o.focus = focused /\ o.front = focused
<1> USE DEF B!BatchInv, B!TypeOK, B!DeskIsKept
<1>1. B!Open \subseteq Windows /\ focused \in B!Open \cup {0} /\ instance \in 1 .. 2
  BY DEF B!Open
<1>2. PICK ws \in SUBSET B!Open, p \in {0, instance}, complete \in BOOLEAN :
        /\ o = B!Observation(ws, p, complete)
        /\ complete => ws = B!Open /\ p = instance
  BY Zenon DEF B!Observable
<1>3. o \in B!Observed
  BY <1>1, <1>2 DEF B!Observed, B!Observation
<1>4. o # NoBaseline
  BY <1>3, BaselineAssumption
<1>5. B!SeenTruly(o)
  BY <1>1, <1>2 DEF B!SeenTruly, B!Observation, B!Open
<1>6. o.complete => /\ o.windows = B!Open /\ o.actual = B!Open /\ o.process = instance
                    /\ o.focus = focused /\ o.front = focused
  BY <1>1, <1>2 DEF B!Observation
<1> QED
  BY <1>3, <1>4, <1>5, <1>6

\* What was observed stays true, and what was there at a dispatch still was.
LEMMA ObservationsStayTrue ==
  ASSUME NEW b \in B!Observed, B!SeenTruly(b), DesktopMovesOn, B!TypeOK, instance' \in {1, 2}
  PROVE  /\ \A w \in b.actual : status'[w] # "unborn"
         /\ b.process <= instance'
         /\ b.complete => b.windows = b.actual
<1>1. b # NoBaseline /\ b.actual \subseteq Windows /\ b.process \in 0 .. 2
  BY BaselineAssumption DEF B!Observed
<1> QED
  BY <1>1 DEF B!SeenTruly, DesktopMovesOn, B!TypeOK

\* No step of the desktop unsays a baseline or a finding.
LEMMA DesktopKeeps ==
  ASSUME B!BatchInv, B!Desktop
  PROVE  B!BatchInv'
<1>1. /\ status' \in [Windows -> {"unborn", "open", "gone"}] /\ instance' \in {1, 2}
      /\ focused' \in B!Open' \cup {0} /\ focused' \in Windows \cup {0} /\ DesktopMovesOn
      /\ B!Open' \subseteq Windows
  BY DesktopStep DEF B!Open
<1>2. /\ UNCHANGED <<entries, stopOnError, index, pending, at, seed, scope, want, found, last, results,
                     ran, verdict, expired, sessionOver, dispatched>>
      /\ at \notin {"start", "done"}
  BY DEF B!Desktop, B!loopVars, B!waitVars, B!reportVars
<1> USE DEF B!BatchInv
<1>3. B!TypeOK'
  BY <1>1, <1>2 DEF B!TypeOK
<1>4. ASSUME NEW b \in B!Observed, B!SeenTruly(b)
      PROVE  B!SeenTruly(b)'
  BY <1>1, <1>4, ObservationsStayTrue DEF B!SeenTruly
<1>5. B!DeskIsKept'
  <2>1. B!SeenTruly(pending)'
    BY <1>2, <1>4 DEF B!SeenTruly, B!DeskIsKept, B!TypeOK
  <2>2. B!SeenTruly(seed)'
    BY <1>2, <1>4 DEF B!SeenTruly, B!DeskIsKept, B!TypeOK
  <2> QED
    BY <1>1, <2>1, <2>2 DEF B!DeskIsKept
<1>6. B!LoopIsKept'
  BY <1>2 DEF B!LoopIsKept, B!Kind
<1>7. ASSUME NEW b \in B!Observed, B!SeenTruly(b), B!AllDispatched(b)
      PROVE  B!AllDispatched(b)'
  <2>1. b # NoBaseline /\ b.windows \subseteq Windows
    BY BaselineAssumption DEF B!Observed
  <2> QED
    BY <1>1, <1>2, <1>7, <2>1 DEF B!AllDispatched, B!SeenTruly, DesktopMovesOn
<1>8. B!BaselineIsKept'
  <2>1. pending # NoBaseline /\ B!AllDispatched(pending) => B!AllDispatched(pending)'
    BY <1>2, <1>7 DEF B!AllDispatched, B!DeskIsKept, B!TypeOK
  <2>2. seed # NoBaseline /\ B!AllDispatched(seed) => B!AllDispatched(seed)'
    BY <1>2, <1>7 DEF B!AllDispatched, B!DeskIsKept, B!TypeOK
  <2>3. B!NextIsWait' <=> B!NextIsWait
    BY <1>2 DEF B!NextIsWait
  <2>4. B!AfterCommand' <=> B!AfterCommand
    BY <1>2 DEF B!AfterCommand
  <2> QED
    BY <1>2, <2>1, <2>2, <2>3, <2>4 DEF B!BaselineIsKept
<1>9. B!EventIsKept'
  <2> SUFFICES ASSUME found # NoBaseline PROVE B!EventIsKept'
    BY <1>2 DEF B!EventIsKept, B!EventIsReal
  <2>1. seed \in B!Observed /\ seed.complete /\ B!SeenTruly(seed) /\ seed # NoBaseline
    BY DEF B!EventIsKept, B!DeskIsKept, B!TypeOK
  <2>2. seed.actual \subseteq Windows /\ seed.process \in 0 .. 2
    BY <2>1 DEF B!Observed
  <2>3. B!EventIsReal'
    <3>1. want \in {"opened", "closed", "focused", "launched"} /\ B!EventIsReal
      BY DEF B!TypeOK, B!Events, B!EventIsKept
    <3>2. CASE want \in {"opened", "focused"}
      BY <1>2, <3>1, <3>2 DEF B!EventIsReal
    <3>3. CASE want = "closed"
      BY <1>1, <1>2, <2>2, <3>1, <3>3 DEF B!EventIsReal, DesktopMovesOn
    <3>4. CASE want = "launched"
      <4>1. found = instance /\ found # seed.process
        BY <3>1, <3>4 DEF B!EventIsReal
      <4>2. seed.process # 0 /\ seed.process <= instance /\ instance \in {1, 2} /\ seed.process \in 0 .. 2
        BY <2>1, <2>2 DEF B!SeenTruly, B!TypeOK
      <4>3. instance' = instance
        BY <1>1, <4>1, <4>2 DEF DesktopMovesOn
      <4> QED
        BY <1>2, <3>4, <4>1, <4>3 DEF B!EventIsReal
    <3> QED
      BY <3>1, <3>2, <3>3, <3>4
  <2> QED
    BY <1>2, <2>1, <2>3 DEF B!EventIsKept
<1>10. B!AccountIsKept'
  BY <1>2, AccountStays
<1> QED
  BY <1>3, <1>5, <1>6, <1>8, <1>9, <1>10

\* What happens besides the loop.
LEMMA BatchExpireKeeps ==
  ASSUME B!BatchInv, B!Expire
  PROVE  B!BatchInv'
<1> USE DEF B!BatchInv, B!Expire, B!loopVars, B!waitVars, B!reportVars, B!deskVars
<1>1. B!TypeOK'
  <2>1. expired' \in BOOLEAN /\ sessionOver' \in BOOLEAN /\ stopOnError' \in BOOLEAN
    BY Zenon DEF B!TypeOK
  <2> QED
    BY <2>1 DEF B!TypeOK
<1>2. B!DeskIsKept' /\ B!LoopIsKept' /\ B!EventIsKept'
  BY DEF B!DeskIsKept, B!SeenTruly, B!Open, B!LoopIsKept, B!Kind, B!EventIsKept, B!EventIsReal
<1>3. B!BaselineIsKept'
  BY DEF B!BaselineIsKept, B!NextIsWait, B!AllDispatched, B!AfterCommand
<1>4. B!AccountIsKept'
  BY AccountStays
<1> QED
  BY <1>1, <1>2, <1>3, <1>4

\* The end of the session is nobody's evidence.
LEMMA EndElsewhereKeeps ==
  ASSUME B!BatchInv, B!EndElsewhere
  PROVE  B!BatchInv'
<1> USE DEF B!BatchInv, B!EndElsewhere, B!loopVars, B!waitVars, B!reportVars, B!deskVars
<1>1. B!TypeOK'
  <2>1. expired' \in BOOLEAN /\ sessionOver' \in BOOLEAN /\ stopOnError' \in BOOLEAN
    BY Zenon DEF B!TypeOK
  <2> QED
    BY <2>1 DEF B!TypeOK
<1>2. B!DeskIsKept' /\ B!LoopIsKept' /\ B!EventIsKept'
  BY DEF B!DeskIsKept, B!SeenTruly, B!Open, B!LoopIsKept, B!Kind, B!EventIsKept, B!EventIsReal
<1>3. B!BaselineIsKept'
  BY DEF B!BaselineIsKept, B!NextIsWait, B!AllDispatched, B!AfterCommand
<1>4. B!AccountIsKept'
  BY AccountStays
<1> QED
  BY <1>1, <1>2, <1>3, <1>4

\* The batch is valid, or nothing of it runs.
LEMMA PrepareBatchKeeps ==
  ASSUME B!BatchInv, B!Prepare
  PROVE  B!BatchInv'
<1> USE DEF B!BatchInv
<1>1. /\ entries = <<>> /\ index = 1 /\ results = <<>> /\ ran = {} /\ pending = NoBaseline
      /\ seed = NoBaseline /\ found = NoBaseline /\ last = NoBaseline /\ focused = 0
      /\ at = "start"
  BY DEF B!Prepare, B!LoopIsKept
<1>2. /\ UNCHANGED <<index, pending, seed, scope, found, last, results, ran, expired, sessionOver,
                     instance, focused, dispatched>>
      /\ at' \in {"checking", "done"}
      /\ at' = "done" => entries' = entries
  BY DEF B!Prepare, B!Stop
<1>3. B!TypeOK'
  <2>1. expired' \in BOOLEAN /\ sessionOver' \in BOOLEAN
    BY Zenon, <1>2 DEF B!TypeOK
  <2>2. stopOnError' \in BOOLEAN
    BY Zenon DEF B!TypeOK, B!Prepare, B!Stop
  <2>3. entries' \in UNION {[1 .. n -> B!Kinds] : n \in 0 .. MaxEntries}
    <3>1. ASSUME NEW n \in 1 .. MaxEntries, entries' \in [1 .. n -> B!Kinds]
          PROVE  entries' \in UNION {[1 .. m -> B!Kinds] : m \in 0 .. MaxEntries}
      <4>1. n \in 0 .. MaxEntries
        BY EntriesAssumption
      <4> QED
        BY <3>1, <4>1
    <3> QED
      BY <3>1 DEF B!TypeOK, B!Prepare, B!Stop
  <2>4. /\ want' \in B!Events /\ status' \in [Windows -> {"unborn", "open", "gone"}]
        /\ verdict' \in {"none", "invalid", "complete", "deadline", "stop_on_error", "baseline",
                         "output_limit", "response_limit"}
    BY DEF B!TypeOK, B!Prepare, B!Stop
  <2> QED
    BY <1>2, <2>1, <2>2, <2>3, <2>4 DEF B!TypeOK
<1>4. Len(entries') \in Nat /\ (at' = "checking" => Len(entries') >= 1)
  <2>1. ASSUME NEW n \in 1 .. MaxEntries, entries' \in [1 .. n -> B!Kinds]
        PROVE  Len(entries') \in Nat /\ Len(entries') >= 1
    <3>1. n \in Nat /\ n >= 1
      BY EntriesAssumption
    <3>2. entries' \in Seq(B!Kinds)
      BY <2>1, <3>1, SeqDef
    <3>3. Len(entries') \in Nat /\ DOMAIN entries' = 1 .. Len(entries')
      BY <3>2, LenProperties
    <3> QED
      BY <2>1, <3>1, <3>3
  <2>2. at' = "done" => Len(entries') = 0
    BY <1>1, <1>2
  <2> QED
    BY <2>1, <2>2 DEF B!Prepare, B!Stop
<1>5. B!DeskIsKept'
  BY <1>1, <1>2 DEF B!DeskIsKept, B!SeenTruly
<1>6. B!LoopIsKept'
  BY <1>1, <1>2, <1>4 DEF B!LoopIsKept
<1>7. B!BaselineIsKept'
  BY <1>1, <1>2 DEF B!BaselineIsKept, B!AfterCommand
<1>8. B!EventIsKept'
  BY <1>1, <1>2 DEF B!EventIsKept, B!EventIsReal
<1>9. B!AccountIsKept'
  BY <1>1, <1>2, <1>4 DEF B!AccountIsKept
<1> QED
  BY <1>3, <1>5, <1>6, <1>7, <1>8, <1>9

\* The loop goes on, or the batch ends, once the outcome of an entry is known.
EntryEnds(x) ==
  /\ at \notin {"start", "done"} /\ x \in {"completed", "not_started"}
  /\ x = "completed" <=> index \in ran
  /\ results' = Append(results, B!Entry(index, x))
  /\ UNCHANGED <<entries, ran>>
  /\ verdict' \in {"none", "invalid", "complete", "deadline", "stop_on_error", "baseline",
                   "output_limit", "response_limit"}
  /\ \/ at' = "done" /\ index' = index
     \/ at' = "checking" /\ index' = index + 1 /\ index < Len(entries)

\* What is known of the loop when an entry has ended.
LEMMA EntryEndKeeps ==
  ASSUME B!BatchInv, NEW x, EntryEnds(x)
  PROVE  /\ B!LoopIsKept' /\ B!AccountIsKept'
         /\ results' \in Seq([index : 1 .. MaxEntries, execution : {"completed", "not_started"}])
         /\ index' \in 1 .. MaxEntries /\ at' \in {"checking", "done"}
<1> USE DEF B!BatchInv, EntryEnds
<1>1. /\ Len(entries) \in 0 .. MaxEntries /\ index \in 1 .. MaxEntries /\ MaxEntries \in Nat
      /\ index <= Len(entries)
  BY EntriesAreASequence, EntriesAssumption DEF B!TypeOK, B!LoopIsKept
<1>2. /\ B!AccountIsKept'
      /\ results' \in Seq([index : 1 .. MaxEntries, execution : {"completed", "not_started"}])
  BY <1>1, AccountGrows
<1>3. index' \in 1 .. MaxEntries
  BY <1>1
<1>4. B!LoopIsKept'
  BY <1>1 DEF B!LoopIsKept
<1> QED
  BY <1>2, <1>3, <1>4

\* Going on is one of the two ways in which an entry ends.
LEMMA AdvanceEnds ==
  ASSUME B!Advance, index \in Nat, Len(entries) \in Nat, index <= Len(entries)
  PROVE  /\ verdict' \in {verdict, "complete", "response_limit"}
         /\ \/ at' = "done" /\ index' = index
            \/ at' = "checking" /\ index' = index + 1 /\ index < Len(entries)
BY DEF B!Advance, B!Stop

\* So is what follows the outcome of an entry that was dispatched.
LEMMA RecordEnds ==
  ASSUME B!BatchInv, NEW failed \in BOOLEAN, B!Record(failed), UNCHANGED <<entries, ran>>,
         at \in {"running", "polling"}
  PROVE  EntryEnds("completed")
<1>1. /\ Len(entries) \in Nat /\ index \in Nat /\ index <= Len(entries) /\ index \in ran
  BY EntriesAreASequence DEF B!BatchInv, B!TypeOK, B!LoopIsKept
<1>2. verdict \in {"none", "invalid", "complete", "deadline", "stop_on_error", "baseline",
                   "output_limit", "response_limit"}
  BY DEF B!BatchInv, B!TypeOK
<1> QED
  BY <1>1, <1>2, AdvanceEnds DEF B!Record, B!Stop, EntryEnds

\* An entry that comes too late is not started.
LEMMA RefuseLateKeeps ==
  ASSUME B!BatchInv, B!RefuseLate
  PROVE  B!BatchInv'
<1> USE DEF B!BatchInv, B!RefuseLate, B!Stop, B!loopVars, B!waitVars, B!deskVars
<1>1. EntryEnds("not_started")
  BY DEF EntryEnds, B!LoopIsKept
<1>2. B!LoopIsKept' /\ B!AccountIsKept'
  BY <1>1, EntryEndKeeps
<1>3. B!TypeOK'
  <2>1. expired' \in BOOLEAN /\ sessionOver' \in BOOLEAN /\ stopOnError' \in BOOLEAN
    BY Zenon DEF B!TypeOK
  <2> QED
    BY <1>1, <2>1, EntryEndKeeps DEF B!TypeOK
<1>4. B!DeskIsKept' /\ B!EventIsKept'
  BY DEF B!DeskIsKept, B!SeenTruly, B!Open, B!EventIsKept, B!EventIsReal
<1>5. B!BaselineIsKept'
  BY DEF B!BaselineIsKept, B!LoopIsKept
<1> QED
  BY <1>2, <1>3, <1>4, <1>5

\* Nor is one whose baseline cannot be had.
LEMMA CaptureFailsKeeps ==
  ASSUME B!BatchInv, B!CaptureFails
  PROVE  B!BatchInv'
<1> USE DEF B!BatchInv, B!CaptureFails, B!Stop, B!loopVars, B!waitVars, B!deskVars
<1>1. EntryEnds("not_started")
  BY DEF EntryEnds, B!LoopIsKept
<1>2. B!LoopIsKept' /\ B!AccountIsKept'
  BY <1>1, EntryEndKeeps
<1>3. B!TypeOK'
  <2>1. expired' \in BOOLEAN /\ sessionOver' \in BOOLEAN /\ stopOnError' \in BOOLEAN
    BY Zenon DEF B!TypeOK
  <2> QED
    BY <1>1, <2>1, EntryEndKeeps DEF B!TypeOK
<1>4. B!DeskIsKept' /\ B!EventIsKept'
  BY DEF B!DeskIsKept, B!SeenTruly, B!Open, B!EventIsKept, B!EventIsReal
<1>5. B!BaselineIsKept'
  BY DEF B!BaselineIsKept, B!LoopIsKept
<1> QED
  BY <1>2, <1>3, <1>4, <1>5

\* The wait takes the baseline; a command of the session is refused once it is over.
LEMMA CheckSessionKeeps ==
  ASSUME B!BatchInv, B!CheckSession
  PROVE  B!BatchInv'
<1> USE DEF B!BatchInv
<1>1. /\ at = "checking" /\ pending' = NoBaseline /\ seed' = pending /\ found' = NoBaseline
      /\ last' = NoBaseline
      /\ UNCHANGED <<scope, entries, stopOnError, want, ran, expired, sessionOver, status, instance,
                     focused, dispatched>>
  BY DEF B!CheckSession, B!deskVars
<1>2. Len(entries) \in 0 .. MaxEntries /\ MaxEntries \in Nat /\ index \in 1 .. Len(entries) /\ index \notin ran
  BY <1>1, EntriesAreASequence, EntriesAssumption DEF B!TypeOK, B!LoopIsKept
<1>3. \/ EntryEnds("not_started")
      \/ /\ UNCHANGED <<index, results, verdict>> /\ at' \in {"capturing", "dispatching"}
         /\ at' = "dispatching" => ~ B!NextIsWait
  <2>1. CASE B!Kind = "scoped" /\ sessionOver
    <3>1. results' = Append(results, B!Entry(index, "not_started"))
      BY <2>1 DEF B!CheckSession
    <3>2. \/ at' = "done" /\ verdict' \in {"stop_on_error", "response_limit"} /\ UNCHANGED index
          \/ B!Advance
      BY <2>1 DEF B!CheckSession, B!Stop
    <3>3. /\ verdict' \in {"none", "invalid", "complete", "deadline", "stop_on_error", "baseline",
                           "output_limit", "response_limit"}
          /\ \/ at' = "done" /\ index' = index
             \/ at' = "checking" /\ index' = index + 1 /\ index < Len(entries)
      BY <1>2, <3>2, AdvanceEnds DEF B!TypeOK
    <3> QED
      BY <1>1, <1>2, <3>1, <3>3 DEF EntryEnds
  <2>2. CASE ~ (B!Kind = "scoped" /\ sessionOver)
    BY <2>2 DEF B!CheckSession
  <2> QED
    BY <2>1, <2>2
<1>4. B!LoopIsKept' /\ B!AccountIsKept'
  <2>1. CASE EntryEnds("not_started")
    BY <2>1, EntryEndKeeps
  <2>2. CASE UNCHANGED <<index, results, verdict>> /\ at' \in {"capturing", "dispatching"}
    BY <1>1, <2>2, AccountStays DEF B!LoopIsKept
  <2> QED
    BY <1>3, <2>1, <2>2
<1>5. B!TypeOK'
  <2>1. expired' \in BOOLEAN /\ sessionOver' \in BOOLEAN /\ stopOnError' \in BOOLEAN
    BY Zenon, <1>1 DEF B!TypeOK
  <2>2. /\ results' \in Seq([index : 1 .. MaxEntries, execution : {"completed", "not_started"}])
        /\ index' \in 1 .. MaxEntries /\ at' \in {"checking", "done", "capturing", "dispatching"}
        /\ verdict' \in {"none", "invalid", "complete", "deadline", "stop_on_error", "baseline",
                         "output_limit", "response_limit"}
    BY <1>3, EntryEndKeeps DEF B!TypeOK, EntryEnds
  <2> QED
    BY <1>1, <2>1, <2>2 DEF B!TypeOK
<1>6. B!DeskIsKept' /\ B!EventIsKept'
  BY <1>1 DEF B!DeskIsKept, B!SeenTruly, B!Open, B!EventIsKept, B!EventIsReal
<1>7. B!BaselineIsKept'
  <2>1. CASE EntryEnds("not_started")
    <3>1. at' = "done" => index' \notin ran'
      BY <1>1, <1>2, <2>1 DEF EntryEnds
    <3>2. at' = "checking" => ~ B!AfterCommand'
      BY <1>1, <1>2, <2>1 DEF EntryEnds, B!AfterCommand
    <3> QED
      BY <2>1, <3>1, <3>2 DEF EntryEnds, B!BaselineIsKept
  <2>2. CASE /\ UNCHANGED <<index, results, verdict>> /\ at' \in {"capturing", "dispatching"}
             /\ at' = "dispatching" => ~ B!NextIsWait
    <3>1. (B!AfterCommand' <=> B!AfterCommand) /\ (B!NextIsWait' <=> B!NextIsWait)
      BY <1>1, <2>2 DEF B!AfterCommand, B!NextIsWait
    <3>2. B!AfterCommand => seed' # NoBaseline /\ B!AllDispatched(seed)'
      BY <1>1 DEF B!BaselineIsKept, B!AllDispatched
    <3> QED
      BY <1>1, <2>2, <3>1, <3>2 DEF B!BaselineIsKept
  <2> QED
    BY <1>3, <2>1, <2>2
<1> QED
  BY <1>4, <1>5, <1>6, <1>7

\* The baseline is taken before the command is dispatched.
LEMMA CaptureKeeps ==
  ASSUME B!BatchInv, B!Capture
  PROVE  B!BatchInv'
<1> USE DEF B!BatchInv
<1>1. PICK o \in B!Observable : pending' = o
  BY DEF B!Capture
<1>2. /\ at = "capturing" /\ at' = "dispatching"
      /\ UNCHANGED <<entries, stopOnError, index, seed, scope, want, found, last, results, ran, verdict,
                     expired, sessionOver, status, instance, focused, dispatched>>
  BY DEF B!Capture, B!waitVars, B!reportVars, B!deskVars
<1>3. o \in B!Observed /\ o # NoBaseline /\ B!SeenTruly(o)
  BY ObservablesAreTrue
<1>4. B!TypeOK'
  <2>1. expired' \in BOOLEAN /\ sessionOver' \in BOOLEAN /\ stopOnError' \in BOOLEAN
    BY Zenon, <1>2 DEF B!TypeOK
  <2> QED
    BY <1>1, <1>2, <1>3, <2>1 DEF B!TypeOK
<1>5. B!DeskIsKept' /\ B!EventIsKept'
  BY <1>1, <1>2, <1>3 DEF B!DeskIsKept, B!SeenTruly, B!Open, B!EventIsKept, B!EventIsReal
<1>6. B!LoopIsKept' /\ B!AccountIsKept'
  BY <1>2, AccountStays DEF B!LoopIsKept
<1>7. B!BaselineIsKept'
  <2>1. B!AfterCommand' <=> B!AfterCommand
    BY <1>2 DEF B!AfterCommand
  <2>2. B!AllDispatched(seed)' <=> B!AllDispatched(seed)
    BY <1>2 DEF B!AllDispatched
  <2> QED
    BY <1>1, <1>2, <1>3, <2>1, <2>2 DEF B!BaselineIsKept
<1> QED
  BY <1>4, <1>5, <1>6, <1>7

\* What is open when a command is dispatched was there before it.
LEMMA DispatchEntryKeeps ==
  ASSUME B!BatchInv, B!Dispatch
  PROVE  B!BatchInv'
<1> USE DEF B!BatchInv
<1>1. /\ at = "dispatching" /\ ran' = ran \cup {index}
      /\ UNCHANGED <<entries, stopOnError, index, pending, seed, want, found, last, results, verdict,
                     expired, sessionOver, status, instance, focused>>
  BY DEF B!Dispatch, B!loopVars, B!deskVars
<1>2. \/ B!Kind = "wait" /\ at' = "polling" /\ scope' = B!Scope(seed, want) /\ UNCHANGED dispatched
      \/ /\ B!Kind # "wait" /\ at' = "running" /\ UNCHANGED scope
         /\ dispatched' = (IF want = "opened" THEN B!Open ELSE {})
  BY DEF B!Dispatch
<1>3. /\ Len(entries) \in 0 .. MaxEntries /\ MaxEntries \in Nat /\ index \in 1 .. Len(entries)
      /\ index \notin ran
  BY <1>1, EntriesAreASequence, EntriesAssumption DEF B!TypeOK, B!LoopIsKept
<1>4. B!TypeOK'
  <2>1. expired' \in BOOLEAN /\ sessionOver' \in BOOLEAN /\ stopOnError' \in BOOLEAN
    BY Zenon, <1>1 DEF B!TypeOK
  <2>2. B!Scope(seed, want) \in 0 .. 2
    <3>1. seed # NoBaseline => seed.process \in 0 .. 2
      BY DEF B!TypeOK, B!Observed
    <3>2. want \in {"opened", "closed", "focused", "launched"} /\ instance \in 0 .. 2
      BY DEF B!TypeOK, B!Events
    <3>3. CASE want = "launched"
      BY <3>3 DEF B!Scope
    <3>4. CASE want # "launched" /\ seed # NoBaseline /\ seed.process # 0
      BY <3>1, <3>4 DEF B!Scope
    <3>5. CASE want # "launched" /\ ~ (seed # NoBaseline /\ seed.process # 0)
      <4>1. B!Scope(seed, want) = instance
        BY <3>5 DEF B!Scope
      <4> QED
        BY <4>1, <3>2
    <3> QED
      BY <3>3, <3>4, <3>5
  <2>3. B!Open \subseteq Windows
    BY DEF B!Open
  <2> QED
    BY <1>1, <1>2, <1>3, <2>1, <2>2, <2>3 DEF B!TypeOK
<1>5. B!DeskIsKept' /\ B!EventIsKept'
  BY <1>1 DEF B!DeskIsKept, B!SeenTruly, B!Open, B!EventIsKept, B!EventIsReal
<1>6. B!LoopIsKept'
  <2>1. B!Kind' = B!Kind
    BY <1>1 DEF B!Kind
  <2> QED
    BY <1>1, <1>2, <1>3, <2>1 DEF B!LoopIsKept
<1>7. B!BaselineIsKept'
  <2>1. B!NextIsWait' <=> B!NextIsWait
    BY <1>1 DEF B!NextIsWait
  <2>2. CASE at' = "polling"
    <3>1. B!AfterCommand' <=> B!AfterCommand
      BY <1>1, <1>3 DEF B!AfterCommand
    <3>2. B!AllDispatched(seed)' <=> B!AllDispatched(seed)
      BY <1>1, <1>2, <2>2 DEF B!AllDispatched
    <3>3. UNCHANGED dispatched
      BY <1>2, <2>2
    <3> QED
      BY <1>1, <2>1, <2>2, <3>1, <3>2, <3>3 DEF B!BaselineIsKept
  <2>3. CASE at' = "running"
    <3>1. B!NextIsWait => pending # NoBaseline
      BY <1>1 DEF B!BaselineIsKept
    <3>2. pending # NoBaseline => pending.windows \subseteq Windows
      BY DEF B!TypeOK, B!Observed
    <3>3. B!NextIsWait => B!AllDispatched(pending)'
      BY <1>1, <1>2, <2>3, <3>1, <3>2 DEF B!AllDispatched, B!Open
    <3> QED
      BY <1>1, <2>1, <2>3, <3>1, <3>3 DEF B!BaselineIsKept
  <2> QED
    BY <1>2, <2>2, <2>3
<1>8. B!AccountIsKept'
  <2>1. \A i \in 1 .. Len(entries') :
          i \in ran' /\ i # index' <=> \E k \in DOMAIN results' : results'[k] = B!Entry(i, "completed")
    BY <1>1, <1>3 DEF B!AccountIsKept
  <2> QED
    BY <1>1, <1>2, <2>1 DEF B!AccountIsKept
<1> QED
  BY <1>4, <1>5, <1>6, <1>7, <1>8

\* A command that has run leaves its baseline to the wait after it.
LEMMA RunKeeps ==
  ASSUME B!BatchInv, B!Run
  PROVE  B!BatchInv'
<1> USE DEF B!BatchInv
<1>1. PICK failed \in BOOLEAN : /\ sessionOver' = (sessionOver \/ (B!Kind = "end" /\ ~ failed))
                                /\ B!Record(failed)
  BY Zenon DEF B!Run
<1>2. /\ at = "running"
      /\ UNCHANGED <<entries, stopOnError, pending, seed, scope, want, found, last, ran, expired,
                     status, instance, focused, dispatched>>
  BY DEF B!Run, B!waitVars, B!deskVars
<1>3. EntryEnds("completed")
  BY <1>1, <1>2, RecordEnds
<1>4. B!LoopIsKept' /\ B!AccountIsKept'
  BY <1>3, EntryEndKeeps
<1>5. B!TypeOK'
  <2>1. expired' \in BOOLEAN /\ sessionOver' \in BOOLEAN /\ stopOnError' \in BOOLEAN
    BY Zenon, <1>1, <1>2 DEF B!TypeOK
  <2> QED
    BY <1>2, <1>3, <2>1, EntryEndKeeps DEF B!TypeOK, EntryEnds
<1>6. B!DeskIsKept' /\ B!EventIsKept'
  BY <1>2 DEF B!DeskIsKept, B!SeenTruly, B!Open, B!EventIsKept, B!EventIsReal
<1>7. B!BaselineIsKept'
  <2>1. Len(entries) \in Nat /\ index \in Nat /\ index \in ran /\ entries[index] # "wait"
    BY <1>2, EntriesAreASequence DEF B!TypeOK, B!LoopIsKept, B!Kind
  <2>2. at' = "done" => ~ B!AfterCommand'
    BY <1>2, <1>3, <2>1 DEF EntryEnds, B!AfterCommand
  <2>3. at' = "checking" /\ B!AfterCommand' => B!NextIsWait
    BY <1>2, <1>3, <2>1 DEF EntryEnds, B!AfterCommand, B!NextIsWait
  <2>4. B!NextIsWait => pending' # NoBaseline /\ B!AllDispatched(pending)'
    BY <1>2 DEF B!BaselineIsKept, B!AllDispatched
  <2> QED
    BY <1>3, <2>2, <2>3, <2>4 DEF EntryEnds, B!BaselineIsKept
<1> QED
  BY <1>4, <1>5, <1>6, <1>7

\* A wait that ends reports what it found, or has missed nothing.
LEMMA WaitFailsKeeps ==
  ASSUME B!BatchInv, B!WaitFails
  PROVE  B!BatchInv'
<1> USE DEF B!BatchInv
<1>1. /\ at = "polling" /\ B!Record(TRUE)
      /\ UNCHANGED <<entries, stopOnError, pending, seed, scope, want, found, last, ran, expired,
                     sessionOver, status, instance, focused, dispatched>>
  BY DEF B!WaitFails, B!waitVars, B!deskVars
<1>2. EntryEnds("completed")
  BY <1>1, RecordEnds
<1>3. B!LoopIsKept' /\ B!AccountIsKept'
  BY <1>2, EntryEndKeeps
<1>4. B!TypeOK'
  <2>1. expired' \in BOOLEAN /\ sessionOver' \in BOOLEAN /\ stopOnError' \in BOOLEAN
    BY Zenon, <1>1 DEF B!TypeOK
  <2> QED
    BY <1>1, <1>2, <2>1, EntryEndKeeps DEF B!TypeOK, EntryEnds
<1>5. B!DeskIsKept' /\ B!EventIsKept'
  BY <1>1 DEF B!DeskIsKept, B!SeenTruly, B!Open, B!EventIsKept, B!EventIsReal
<1>6. B!BaselineIsKept'
  <2>1. Len(entries) \in Nat /\ index \in Nat /\ entries[index] = "wait"
    BY <1>1, EntriesAreASequence DEF B!TypeOK, B!LoopIsKept, B!Kind
  <2>2. at' = "checking" => ~ B!AfterCommand'
    BY <1>1, <1>2, <2>1 DEF EntryEnds, B!AfterCommand
  <2>3. at' = "done" => (B!AfterCommand' <=> B!AfterCommand)
    BY <1>1, <1>2 DEF EntryEnds, B!AfterCommand
  <2>4. B!AllDispatched(seed)' <=> B!AllDispatched(seed)
    BY <1>1 DEF B!AllDispatched
  <2> QED
    BY <1>1, <1>2, <2>2, <2>3, <2>4 DEF EntryEnds, B!BaselineIsKept
<1> QED
  BY <1>3, <1>4, <1>5, <1>6

\* What two complete observations differ in has happened between them.
LEMMA DifferenceIsReal ==
  ASSUME B!BatchInv, NEW o \in B!Observable, seed # NoBaseline, NEW x \in B!Diff(seed, o, want)
  PROVE  /\ seed.complete /\ o.complete
         /\ x \in Windows \cup 0 .. 2
         /\ want = "opened" => x \in Windows \ seed.actual
         /\ want = "closed" => x \in seed.actual /\ status[x] = "gone"
         /\ want = "focused" => x # seed.front
         /\ want = "launched" => x = instance /\ x # seed.process
<1> USE DEF B!BatchInv
<1>1. seed.complete /\ o.complete
  BY DEF B!Diff
<1>2. want \in {"opened", "closed", "focused", "launched"}
  BY DEF B!TypeOK, B!Events
<1>3. seed.actual \subseteq Windows /\ seed.process \in 0 .. 2
  BY DEF B!TypeOK, B!Observed
<1>4. /\ seed.windows = seed.actual /\ seed.focus = seed.front
      /\ \A w \in seed.actual : status[w] # "unborn"
  BY <1>1 DEF B!DeskIsKept, B!SeenTruly
<1>5. o.windows = B!Open /\ o.process = instance /\ o.focus = focused
  BY <1>1, ObservablesAreTrue
<1>6. CASE want = "opened"
  BY <1>1, <1>4, <1>5, <1>6 DEF B!Diff, B!Open
<1>7. CASE want = "closed"
  <2>1. x \in seed.actual \ B!Open
    BY <1>1, <1>4, <1>5, <1>7 DEF B!Diff
  <2> QED
    BY <1>1, <1>3, <1>4, <1>7, <2>1 DEF B!Open, B!TypeOK
<1>8. CASE want = "focused"
  <2>1. x \in {focused} \ {seed.front}
    BY <1>1, <1>4, <1>5, <1>8 DEF B!Diff, B!FocusChange
  <2>2. focused \in Windows \cup {0}
    BY DEF B!TypeOK
  <2> QED
    BY <1>1, <1>8, <2>1, <2>2
<1>9. CASE want = "launched"
  <2>1. x \in {instance} \ {seed.process, 0}
    BY <1>1, <1>5, <1>9 DEF B!Diff, B!Launches
  <2> QED
    BY <1>1, <1>9, <2>1 DEF B!TypeOK
<1> QED
  BY <1>2, <1>6, <1>7, <1>8, <1>9

\* A wait finds something new, or has missed nothing.
LEMMA PollKeeps ==
  ASSUME B!BatchInv, B!Poll
  PROVE  B!BatchInv'
<1> USE DEF B!BatchInv
<1>1. PICK o \in B!Observable :
        IF seed = NoBaseline
        THEN seed' = o /\ UNCHANGED <<index, at, results, verdict, found, last>>
        ELSE /\ last' = IF o.complete /\ want = "opened" THEN o.windows ELSE last
             /\ IF B!Diff(seed, o, want) = {}
                THEN UNCHANGED <<index, at, results, verdict, found>>
                ELSE found' \in B!Diff(seed, o, want) /\ B!Record(FALSE)
             /\ UNCHANGED seed
  BY DEF B!Poll
<1>2. /\ at = "polling"
      /\ UNCHANGED <<entries, stopOnError, pending, scope, want, ran, expired, sessionOver, status,
                     instance, focused, dispatched>>
  BY DEF B!Poll, B!deskVars
<1>3. /\ o \in B!Observed /\ o # NoBaseline /\ B!SeenTruly(o)
      /\ o.complete => o.windows = B!Open
  BY ObservablesAreTrue
<1>4. o.windows \subseteq Windows
  BY <1>3 DEF B!Observed
<1>5. expired' \in BOOLEAN /\ sessionOver' \in BOOLEAN /\ stopOnError' \in BOOLEAN
  BY Zenon, <1>2 DEF B!TypeOK
<1>6. Len(entries) \in Nat /\ index \in Nat /\ index \in ran /\ entries[index] = "wait"
  BY <1>2, EntriesAreASequence DEF B!TypeOK, B!LoopIsKept, B!Kind
<1>7. CASE seed = NoBaseline
  <2>1. seed' = o /\ UNCHANGED <<index, at, results, verdict, found, last>>
    BY <1>1, <1>7
  <2>2. B!TypeOK'
    BY <1>2, <1>3, <1>5, <2>1 DEF B!TypeOK
  <2>3. B!DeskIsKept'
    BY <1>2, <1>3, <2>1 DEF B!DeskIsKept, B!SeenTruly, B!Open
  <2>4. B!EventIsKept'
    BY <1>2, <1>7, <2>1 DEF B!EventIsKept, B!EventIsReal
  <2>5. B!LoopIsKept' /\ B!AccountIsKept'
    BY <1>2, <2>1, AccountStays DEF B!LoopIsKept, B!Kind
  <2>6. B!BaselineIsKept'
    <3>1. ~ B!AfterCommand
      BY <1>2, <1>7 DEF B!BaselineIsKept
    <3>2. ~ B!AfterCommand'
      BY <1>2, <2>1, <3>1 DEF B!AfterCommand
    <3> QED
      BY <1>2, <2>1, <3>2 DEF B!BaselineIsKept
  <2> QED
    BY <2>2, <2>3, <2>4, <2>5, <2>6
<1>8. CASE seed # NoBaseline /\ B!Diff(seed, o, want) = {}
  <2>1. /\ last' = IF o.complete /\ want = "opened" THEN o.windows ELSE last
        /\ UNCHANGED <<index, at, results, verdict, found, seed>>
    BY <1>1, <1>8
  <2>2. B!TypeOK'
    BY <1>2, <1>4, <1>5, <2>1 DEF B!TypeOK
  <2>3. B!DeskIsKept' /\ B!EventIsKept'
    BY <1>2, <2>1 DEF B!DeskIsKept, B!SeenTruly, B!Open, B!EventIsKept, B!EventIsReal
  <2>4. B!LoopIsKept' /\ B!AccountIsKept'
    BY <1>2, <2>1, AccountStays DEF B!LoopIsKept, B!Kind
  <2>5. B!BaselineIsKept'
    <3>1. B!AfterCommand' <=> B!AfterCommand
      BY <1>2, <2>1 DEF B!AfterCommand
    <3>2. B!AllDispatched(seed)' <=> B!AllDispatched(seed)
      BY <1>2, <2>1 DEF B!AllDispatched
    <3>3. ASSUME B!AfterCommand, want = "opened", seed.complete, o.complete
          PROVE  o.windows \subseteq dispatched
      <4>1. B!AllDispatched(seed)
        BY <1>2, <3>3 DEF B!BaselineIsKept
      <4>2. B!Open \subseteq seed.windows
        BY <1>3, <1>8, <3>3 DEF B!Diff
      <4> QED
        BY <1>3, <3>3, <4>1, <4>2 DEF B!AllDispatched, B!Open
    <3> QED
      BY <1>2, <2>1, <3>1, <3>2, <3>3 DEF B!BaselineIsKept
  <2> QED
    BY <2>2, <2>3, <2>4, <2>5
<1>9. CASE seed # NoBaseline /\ B!Diff(seed, o, want) # {}
  <2>1. /\ last' = IF o.complete /\ want = "opened" THEN o.windows ELSE last
        /\ found' \in B!Diff(seed, o, want) /\ B!Record(FALSE) /\ UNCHANGED seed
    BY <1>1, <1>9
  <2>2. EntryEnds("completed")
    BY <1>2, <2>1, RecordEnds
  <2>3. B!LoopIsKept' /\ B!AccountIsKept'
    BY <2>2, EntryEndKeeps
  <2>4. /\ seed.complete /\ o.complete /\ found' \in Windows \cup 0 .. 2
        /\ want = "opened" => found' \in Windows \ seed.actual
        /\ want = "closed" => found' \in seed.actual /\ status[found'] = "gone"
        /\ want = "focused" => found' # seed.front
        /\ want = "launched" => found' = instance /\ found' # seed.process
    BY <1>9, <2>1, DifferenceIsReal
  <2>5. B!TypeOK'
    BY <1>2, <1>4, <1>5, <2>1, <2>2, <2>4, EntryEndKeeps DEF B!TypeOK, EntryEnds
  <2>6. B!DeskIsKept'
    BY <1>2, <2>1 DEF B!DeskIsKept, B!SeenTruly, B!Open
  <2>7. B!EventIsKept'
    <3>1. want \in {"opened", "closed", "focused", "launched"}
      BY DEF B!TypeOK, B!Events
    <3> QED
      BY <1>2, <1>9, <2>1, <2>4, <3>1 DEF B!EventIsKept, B!EventIsReal
  <2>8. B!BaselineIsKept'
    <3>1. at' = "checking" => ~ B!AfterCommand'
      BY <1>2, <1>6, <2>2 DEF EntryEnds, B!AfterCommand
    <3>2. at' = "done" => (B!AfterCommand' <=> B!AfterCommand)
      BY <1>2, <2>2 DEF EntryEnds, B!AfterCommand
    <3>3. B!AllDispatched(seed)' <=> B!AllDispatched(seed)
      BY <1>2, <2>1 DEF B!AllDispatched
    <3>4. found' # NoBaseline
      BY <2>4, BaselineAssumption
    <3> QED
      BY <1>2, <2>1, <2>2, <3>1, <3>2, <3>3, <3>4 DEF EntryEnds, B!BaselineIsKept
  <2> QED
    BY <2>3, <2>5, <2>6, <2>7, <2>8
<1> QED
  BY <1>7, <1>8, <1>9

\* At the start nothing has been observed or done.
LEMMA BatchInvStarts ==
  ASSUME B!Init
  PROVE  B!BatchInv
<1> USE DEF B!Init
<1>1. B!TypeOK
  <2>1. expired \in BOOLEAN /\ sessionOver \in BOOLEAN /\ stopOnError \in BOOLEAN
    BY Zenon
  <2>2. entries \in UNION {[1 .. n -> B!Kinds] : n \in 0 .. MaxEntries}
    <3>1. entries \in [1 .. 0 -> B!Kinds] /\ 0 \in 0 .. MaxEntries
      BY EntriesAssumption
    <3> QED
      BY <3>1
  <2> QED
    BY <2>1, <2>2, EntriesAssumption DEF B!TypeOK, B!Events
<1>2. B!DeskIsKept /\ B!LoopIsKept /\ B!EventIsKept
  BY DEF B!DeskIsKept, B!SeenTruly, B!LoopIsKept, B!EventIsKept, B!EventIsReal
<1>3. B!BaselineIsKept
  BY DEF B!BaselineIsKept, B!AfterCommand
<1>4. B!AccountIsKept
  BY DEF B!AccountIsKept
<1> QED
  BY <1>1, <1>2, <1>3, <1>4 DEF B!BatchInv

\* All steps of the loop and of the desktop.
LEMMA BatchInvIsKept ==
  ASSUME B!BatchInv, [B!Next]_(B!vars)
  PROVE  B!BatchInv'
<1>1. CASE B!Next
  BY <1>1, DesktopKeeps, BatchExpireKeeps, EndElsewhereKeeps, PrepareBatchKeeps, RefuseLateKeeps,
     CheckSessionKeeps, CaptureKeeps, CaptureFailsKeeps, DispatchEntryKeeps, RunKeeps, PollKeeps,
     WaitFailsKeeps DEF B!Next
<1>2. CASE UNCHANGED B!vars
  <2> USE <1>2 DEF B!BatchInv, B!vars, B!loopVars, B!waitVars, B!reportVars, B!deskVars
  <2>1. B!TypeOK'
    <3>1. expired' \in BOOLEAN /\ sessionOver' \in BOOLEAN /\ stopOnError' \in BOOLEAN
      BY Zenon DEF B!TypeOK
    <3> QED
      BY <3>1 DEF B!TypeOK
  <2>2. B!DeskIsKept' /\ B!LoopIsKept' /\ B!EventIsKept'
    BY DEF B!DeskIsKept, B!SeenTruly, B!Open, B!LoopIsKept, B!Kind, B!EventIsKept, B!EventIsReal
  <2>3. B!BaselineIsKept'
    BY DEF B!BaselineIsKept, B!NextIsWait, B!AllDispatched, B!AfterCommand
  <2>4. B!AccountIsKept'
    BY AccountStays
  <2> QED
    BY <2>1, <2>2, <2>3, <2>4
<1> QED
  BY <1>1, <1>2

\* What the invariant says when the batch is done.
LEMMA BatchInvSuffices ==
  ASSUME B!BatchInv
  PROVE  B!EventIsReal /\ B!EffectIsNotMissed /\ B!ResponseAccounts
<1> USE DEF B!BatchInv
<1>1. B!EventIsReal
  BY DEF B!EventIsKept
<1>2. B!ResponseAccounts
  BY DEF B!AccountIsKept, B!ResponseAccounts
<1>3. B!EffectIsNotMissed
  <2> SUFFICES ASSUME at = "done", entries[index] = "wait", index \in ran, index - 1 \in ran,
                      entries[index - 1] # "wait", want = "opened", seed.complete,
                      last # NoBaseline, found = NoBaseline
               PROVE  last \subseteq dispatched
    BY DEF B!EffectIsNotMissed
  <2>1. index \in 1 .. MaxEntries /\ ran \subseteq 1 .. MaxEntries /\ MaxEntries \in Nat
    BY EntriesAssumption DEF B!TypeOK
  <2>2. index > 1
    BY <2>1
  <2>3. index <= Len(entries)
    BY DEF B!LoopIsKept
  <2> QED
    BY <2>2, <2>3 DEF B!AfterCommand, B!BaselineIsKept
<1> QED
  BY <1>1, <1>2, <1>3

-----------------------------------------------------------------------------
(* The clipboard *)

\* The version that the helper knew is not the current one any more.
LEMMA OthersClearKeeps ==
  ASSUME C!ClipboardInv, C!OthersClear
  PROVE  C!ClipboardInv'
<1> USE VersionsAssumption DEF C!ClipboardInv, C!TypeOK, C!Contents, C!Outcomes, C!Owned, C!boardVars, C!helperVars, C!OthersClear, C!NewVersion
<1>0. \A v \in 1 .. version : held[v] \subseteq held'[v]
  OBVIOUS
<1>1. C!TypeOK'
  <2>1. touched' \in BOOLEAN
    BY Zenon
  <2> QED
    BY <2>1, <1>0
<1>2. C!BoardIsKept'
  BY <1>0 DEF C!BoardIsKept
<1>3. C!HelperIsKept'
  BY <1>0 DEF C!HelperIsKept, C!BoardIsKept
<1>4. C!AnswerIsKept'
  <2>1. ownership >= 1 => held[ownership] \subseteq held'[ownership]
    BY <1>0 DEF C!BoardIsKept
  <2>2. ownership >= 1 /\ C!Backed => C!Backed'
    BY <2>1 DEF C!Backed
  <2> QED
    BY <2>2 DEF C!AnswerIsKept
<1>5. C!ClipboardIsHonest'
  BY <1>0 DEF C!ClipboardIsHonest, C!AnswerIsKept, C!Backed
<1> QED
  BY <1>1, <1>2, <1>3, <1>4, <1>5

\* What another application adds belongs to its own version.
LEMMA OthersPutKeeps ==
  ASSUME C!ClipboardInv, C!OthersPut
  PROVE  C!ClipboardInv'
<1> USE VersionsAssumption DEF C!ClipboardInv, C!TypeOK, C!Contents, C!Outcomes, C!Owned, C!boardVars, C!helperVars, C!OthersPut, C!Put, C!Owned
<1>0. \A v \in 1 .. version : held[v] \subseteq held'[v]
  OBVIOUS
<1>1. C!TypeOK'
  <2>1. touched' \in BOOLEAN
    BY Zenon
  <2> QED
    BY <2>1, <1>0
<1>2. C!BoardIsKept'
  BY <1>0 DEF C!BoardIsKept
<1>3. C!HelperIsKept'
  BY <1>0 DEF C!HelperIsKept, C!BoardIsKept
<1>4. C!AnswerIsKept'
  <2>1. ownership >= 1 => held[ownership] \subseteq held'[ownership]
    BY <1>0 DEF C!BoardIsKept
  <2>2. ownership >= 1 /\ C!Backed => C!Backed'
    BY <2>1 DEF C!Backed
  <2> QED
    BY <2>2 DEF C!AnswerIsKept
<1>5. C!ClipboardIsHonest'
  BY <1>0 DEF C!ClipboardIsHonest, C!AnswerIsKept, C!Backed
<1> QED
  BY <1>1, <1>2, <1>3, <1>4, <1>5

\* The clock changes nothing that was read or put.
LEMMA TimePassesKeeps ==
  ASSUME C!ClipboardInv, C!TimePasses
  PROVE  C!ClipboardInv'
<1> USE VersionsAssumption DEF C!ClipboardInv, C!TypeOK, C!Contents, C!Outcomes, C!Owned, C!boardVars, C!helperVars, C!TimePasses
<1>1. C!TypeOK'
  <2>1. touched' \in BOOLEAN
    BY Zenon
  <2> QED
    BY <2>1
<1>2. C!BoardIsKept'
  BY DEF C!BoardIsKept
<1>3. C!HelperIsKept'
  BY DEF C!HelperIsKept, C!BoardIsKept
<1>4. C!AnswerIsKept'
  BY DEF C!AnswerIsKept, C!Backed, C!HelperIsKept, C!BoardIsKept
<1>5. C!ClipboardIsHonest'
  BY DEF C!ClipboardIsHonest, C!AnswerIsKept, C!Backed
<1> QED
  BY <1>1, <1>2, <1>3, <1>4, <1>5

\* Nothing was touched before.
LEMMA StartKeeps ==
  ASSUME C!ClipboardInv, C!Start
  PROVE  C!ClipboardInv'
<1> USE VersionsAssumption DEF C!ClipboardInv, C!TypeOK, C!Contents, C!Outcomes, C!Owned, C!boardVars, C!helperVars, C!Start, C!Done
<1>1. C!TypeOK'
  <2>1. touched' \in BOOLEAN
    BY Zenon
  <2> QED
    BY <2>1
<1>2. C!BoardIsKept'
  BY DEF C!BoardIsKept
<1>3. C!HelperIsKept'
  BY DEF C!HelperIsKept, C!BoardIsKept
<1>4. C!AnswerIsKept'
  BY DEF C!AnswerIsKept, C!Backed, C!HelperIsKept, C!BoardIsKept
<1>5. C!ClipboardIsHonest'
  BY DEF C!ClipboardIsHonest, C!AnswerIsKept, C!Backed, C!HelperIsKept, C!BoardIsKept
<1> QED
  BY <1>1, <1>2, <1>3, <1>4, <1>5

\* A caller that kills its helper claims nothing.
LEMMA KillKeeps ==
  ASSUME C!ClipboardInv, C!Kill
  PROVE  C!ClipboardInv'
<1> USE VersionsAssumption DEF C!ClipboardInv, C!TypeOK, C!Contents, C!Outcomes, C!Owned, C!boardVars, C!helperVars, C!Kill, C!Done, C!Unanswered
<1>1. C!TypeOK'
  <2>1. touched' \in BOOLEAN
    BY Zenon
  <2> QED
    BY <2>1
<1>2. C!BoardIsKept'
  BY DEF C!BoardIsKept
<1>3. C!HelperIsKept'
  BY DEF C!HelperIsKept, C!BoardIsKept
<1>4. C!AnswerIsKept'
  BY DEF C!AnswerIsKept, C!Backed, C!HelperIsKept, C!BoardIsKept
<1>5. C!ClipboardIsHonest'
  BY DEF C!ClipboardIsHonest, C!AnswerIsKept, C!Backed
<1> QED
  BY <1>1, <1>2, <1>3, <1>4, <1>5

\* A caller reports what the helper answered, or claims nothing.
LEMMA CollectKeeps ==
  ASSUME C!ClipboardInv, C!Collect
  PROVE  C!ClipboardInv'
<1> USE VersionsAssumption DEF C!ClipboardInv, C!TypeOK, C!Contents, C!Outcomes, C!Owned, C!boardVars, C!helperVars, C!Collect, C!Done, C!Unanswered
<1>1. C!TypeOK'
  <2>1. touched' \in BOOLEAN
    BY Zenon
  <2> QED
    BY <2>1
<1>2. C!BoardIsKept'
  BY DEF C!BoardIsKept
<1>3. C!HelperIsKept'
  BY DEF C!HelperIsKept, C!BoardIsKept
<1>4. C!AnswerIsKept'
  BY DEF C!AnswerIsKept, C!Backed, C!HelperIsKept, C!BoardIsKept
<1>5. C!ClipboardIsHonest'
  BY DEF C!ClipboardIsHonest, C!AnswerIsKept, C!Backed
<1> QED
  BY <1>1, <1>2, <1>3, <1>4, <1>5

\* A helper that refuses has touched nothing.
LEMMA PrepareKeeps ==
  ASSUME C!ClipboardInv, caller = "waiting", C!Prepare
  PROVE  C!ClipboardInv'
<1> USE VersionsAssumption DEF C!ClipboardInv, C!TypeOK, C!Contents, C!Outcomes, C!Owned, C!boardVars, C!helperVars, C!Prepare, C!Answer
<1>1. C!TypeOK'
  <2>1. touched' \in BOOLEAN
    BY Zenon
  <2> QED
    BY <2>1
<1>2. C!BoardIsKept'
  BY DEF C!BoardIsKept
<1>3. C!HelperIsKept'
  BY DEF C!HelperIsKept, C!BoardIsKept
<1>4. C!AnswerIsKept'
  BY DEF C!AnswerIsKept, C!Backed, C!HelperIsKept, C!BoardIsKept
<1>5. C!ClipboardIsHonest'
  BY DEF C!ClipboardIsHonest, C!AnswerIsKept, C!Backed
<1> QED
  BY <1>1, <1>2, <1>3, <1>4, <1>5

\* The helper owns the version that it began.
LEMMA ClearKeeps ==
  ASSUME C!ClipboardInv, caller = "waiting", C!Clear
  PROVE  C!ClipboardInv'
<1> USE VersionsAssumption DEF C!ClipboardInv, C!TypeOK, C!Contents, C!Outcomes, C!Owned, C!boardVars, C!helperVars, C!Clear, C!NewVersion, C!Answer
<1>0. \A v \in 1 .. version : held[v] \subseteq held'[v]
  OBVIOUS
<1>1. C!TypeOK'
  <2>1. touched' \in BOOLEAN
    BY Zenon
  <2> QED
    BY <2>1, <1>0
<1>2. C!BoardIsKept'
  BY <1>0 DEF C!BoardIsKept
<1>3. C!HelperIsKept'
  BY <1>0 DEF C!HelperIsKept, C!BoardIsKept
<1>4. C!AnswerIsKept'
  BY <1>0 DEF C!AnswerIsKept, C!Backed, C!HelperIsKept, C!BoardIsKept
<1>5. C!ClipboardIsHonest'
  BY <1>0 DEF C!ClipboardIsHonest, C!AnswerIsKept, C!Backed
<1> QED
  BY <1>1, <1>2, <1>3, <1>4, <1>5

\* That version has been empty.
LEMMA CheckClearedKeeps ==
  ASSUME C!ClipboardInv, caller = "waiting", C!CheckCleared
  PROVE  C!ClipboardInv'
<1> USE VersionsAssumption DEF C!ClipboardInv, C!TypeOK, C!Contents, C!Outcomes, C!Owned, C!boardVars, C!helperVars, C!CheckCleared, C!Answer
<1>0. \/ request = "clear" /\ C!Answer(IF ~ C!Owned THEN "uncertain"
                                     ELSE IF lateness = 2 THEN "delivered_verified" ELSE "ok")
      \/ request = "write" /\ ~ C!Owned /\ C!Answer("delivered_unverified")
      \/ /\ request = "write" /\ C!Owned
         /\ helper' \in {"failing", "writing"} /\ UNCHANGED response
  BY DEF C!HelperIsKept
<1>1. C!TypeOK'
  <2>1. touched' \in BOOLEAN
    BY Zenon
  <2> QED
    BY <2>1, <1>0
<1>2. C!BoardIsKept'
  BY <1>0 DEF C!BoardIsKept
<1>3. C!HelperIsKept'
  BY <1>0 DEF C!HelperIsKept, C!BoardIsKept
<1>4. C!AnswerIsKept'
  BY <1>0 DEF C!AnswerIsKept, C!Backed, C!HelperIsKept, C!BoardIsKept
<1>5. C!ClipboardIsHonest'
  BY <1>0 DEF C!ClipboardIsHonest, C!AnswerIsKept, C!Backed
<1> QED
  BY <1>1, <1>2, <1>3, <1>4, <1>5

\* Only the owner puts content on a version.
LEMMA WriteKeeps ==
  ASSUME C!ClipboardInv, caller = "waiting", C!Write
  PROVE  C!ClipboardInv'
<1> USE VersionsAssumption DEF C!ClipboardInv, C!TypeOK, C!Contents, C!Outcomes, C!Owned, C!boardVars, C!helperVars, C!Write, C!Put
<1>0. \A v \in 1 .. version : held[v] \subseteq held'[v]
  OBVIOUS
<1>1. C!TypeOK'
  <2>1. touched' \in BOOLEAN
    BY Zenon
  <2> QED
    BY <2>1, <1>0
<1>2. C!BoardIsKept'
  BY <1>0 DEF C!BoardIsKept
<1>3. C!HelperIsKept'
  BY <1>0 DEF C!HelperIsKept, C!BoardIsKept
<1>4. C!AnswerIsKept'
  BY <1>0 DEF C!AnswerIsKept, C!Backed, C!HelperIsKept, C!BoardIsKept
<1>5. C!ClipboardIsHonest'
  BY <1>0 DEF C!ClipboardIsHonest, C!AnswerIsKept, C!Backed
<1> QED
  BY <1>1, <1>2, <1>3, <1>4, <1>5

\* The change count is looked at before the content is.
LEMMA CheckWrittenKeeps ==
  ASSUME C!ClipboardInv, caller = "waiting", C!CheckWritten
  PROVE  C!ClipboardInv'
<1> USE VersionsAssumption DEF C!ClipboardInv, C!TypeOK, C!Contents, C!Outcomes, C!Owned, C!boardVars, C!helperVars, C!CheckWritten, C!Answer
<1>1. C!TypeOK'
  <2>1. touched' \in BOOLEAN
    BY Zenon
  <2> QED
    BY <2>1
<1>2. C!BoardIsKept'
  BY DEF C!BoardIsKept
<1>3. C!HelperIsKept'
  BY DEF C!HelperIsKept, C!BoardIsKept
<1>4. C!AnswerIsKept'
  BY DEF C!AnswerIsKept, C!Backed, C!HelperIsKept, C!BoardIsKept
<1>5. C!ClipboardIsHonest'
  BY DEF C!ClipboardIsHonest, C!AnswerIsKept, C!Backed
<1> QED
  BY <1>1, <1>2, <1>3, <1>4, <1>5

\* What is read while the version is owned is on that version.
LEMMA VerifyKeeps ==
  ASSUME C!ClipboardInv, caller = "waiting", C!Verify
  PROVE  C!ClipboardInv'
<1> USE VersionsAssumption DEF C!ClipboardInv, C!TypeOK, C!Contents, C!Outcomes, C!Owned, C!boardVars, C!helperVars, C!Verify, C!Answer
<1>1. C!TypeOK'
  <2>1. touched' \in BOOLEAN
    BY Zenon
  <2> QED
    BY <2>1
<1>2. C!BoardIsKept'
  BY DEF C!BoardIsKept
<1>3. C!HelperIsKept'
  BY DEF C!HelperIsKept, C!BoardIsKept
<1>4. C!AnswerIsKept'
  BY DEF C!AnswerIsKept, C!Backed, C!HelperIsKept, C!BoardIsKept
<1>5. C!ClipboardIsHonest'
  BY DEF C!ClipboardIsHonest, C!AnswerIsKept, C!Backed
<1> QED
  BY <1>1, <1>2, <1>3, <1>4, <1>5

\* Success is claimed only of a version that is still owned.
LEMMA ConcludeKeeps ==
  ASSUME C!ClipboardInv, caller = "waiting", C!Conclude
  PROVE  C!ClipboardInv'
<1> USE VersionsAssumption DEF C!ClipboardInv, C!TypeOK, C!Contents, C!Outcomes, C!Owned, C!boardVars, C!helperVars, C!Conclude, C!Answer
<1>0. \/ ~ C!Owned /\ C!Answer("delivered_unverified")
      \/ C!Owned /\ reading # "mine" /\ helper' = "failing" /\ UNCHANGED response
      \/ /\ C!Owned /\ reading = "mine"
         /\ C!Answer(IF lateness = 2 THEN "delivered_verified" ELSE "ok")
  OBVIOUS
<1>1. C!TypeOK'
  <2>1. touched' \in BOOLEAN
    BY Zenon
  <2> QED
    BY <2>1, <1>0
<1>2. C!BoardIsKept'
  BY <1>0 DEF C!BoardIsKept
<1>3. C!HelperIsKept'
  BY <1>0 DEF C!HelperIsKept, C!BoardIsKept
<1>4. C!AnswerIsKept'
  BY <1>0 DEF C!AnswerIsKept, C!Backed, C!HelperIsKept, C!BoardIsKept
<1>5. C!ClipboardIsHonest'
  BY <1>0 DEF C!ClipboardIsHonest, C!AnswerIsKept, C!Backed
<1> QED
  BY <1>1, <1>2, <1>3, <1>4, <1>5

\* A failed write is undone only by the owner.
LEMMA CheckCleanupKeeps ==
  ASSUME C!ClipboardInv, caller = "waiting", C!CheckCleanup
  PROVE  C!ClipboardInv'
<1> USE VersionsAssumption DEF C!ClipboardInv, C!TypeOK, C!Contents, C!Outcomes, C!Owned, C!boardVars, C!helperVars, C!CheckCleanup, C!Answer
<1>0. \/ ~ C!Owned /\ C!Answer("delivered_unverified")
      \/ C!Owned /\ C!Answer("uncertain")
      \/ C!Owned /\ helper' = "erasing" /\ UNCHANGED response
  <2>1. lateness = 2 \/ lateness < 2
    OBVIOUS
  <2> QED
    BY <2>1
<1>1. C!TypeOK'
  <2>1. touched' \in BOOLEAN
    BY Zenon
  <2> QED
    BY <2>1, <1>0
<1>2. C!BoardIsKept'
  BY <1>0 DEF C!BoardIsKept
<1>3. C!HelperIsKept'
  BY <1>0 DEF C!HelperIsKept, C!BoardIsKept
<1>4. C!AnswerIsKept'
  BY <1>0 DEF C!AnswerIsKept, C!Backed, C!HelperIsKept, C!BoardIsKept
<1>5. C!ClipboardIsHonest'
  BY <1>0 DEF C!ClipboardIsHonest, C!AnswerIsKept, C!Backed
<1> QED
  BY <1>1, <1>2, <1>3, <1>4, <1>5

\* Undoing a write begins another version.
LEMMA EraseKeeps ==
  ASSUME C!ClipboardInv, caller = "waiting", C!Erase
  PROVE  C!ClipboardInv'
<1> USE VersionsAssumption DEF C!ClipboardInv, C!TypeOK, C!Contents, C!Outcomes, C!Owned, C!boardVars, C!helperVars, C!Erase, C!NewVersion, C!Answer
<1>0. \A v \in 1 .. version : held[v] \subseteq held'[v]
  OBVIOUS
<1>1. C!TypeOK'
  <2>1. touched' \in BOOLEAN
    BY Zenon
  <2> QED
    BY <2>1, <1>0
<1>2. C!BoardIsKept'
  BY <1>0 DEF C!BoardIsKept
<1>3. C!HelperIsKept'
  BY <1>0 DEF C!HelperIsKept, C!BoardIsKept
<1>4. C!AnswerIsKept'
  BY <1>0 DEF C!AnswerIsKept, C!Backed, C!HelperIsKept, C!BoardIsKept
<1>5. C!ClipboardIsHonest'
  BY <1>0 DEF C!ClipboardIsHonest, C!AnswerIsKept, C!Backed
<1> QED
  BY <1>1, <1>2, <1>3, <1>4, <1>5

\* An undone write is reported as delivered, or uncertain.
LEMMA CheckErasedKeeps ==
  ASSUME C!ClipboardInv, caller = "waiting", C!CheckErased
  PROVE  C!ClipboardInv'
<1> USE VersionsAssumption DEF C!ClipboardInv, C!TypeOK, C!Contents, C!Outcomes, C!Owned, C!boardVars, C!helperVars, C!CheckErased, C!Answer
<1>1. C!TypeOK'
  <2>1. touched' \in BOOLEAN
    BY Zenon
  <2> QED
    BY <2>1
<1>2. C!BoardIsKept'
  BY DEF C!BoardIsKept
<1>3. C!HelperIsKept'
  BY DEF C!HelperIsKept, C!BoardIsKept
<1>4. C!AnswerIsKept'
  BY DEF C!AnswerIsKept, C!Backed, C!HelperIsKept, C!BoardIsKept
<1>5. C!ClipboardIsHonest'
  BY DEF C!ClipboardIsHonest, C!AnswerIsKept, C!Backed
<1> QED
  BY <1>1, <1>2, <1>3, <1>4, <1>5

\* A read notes the version before it looks.
LEMMA MarkKeeps ==
  ASSUME C!ClipboardInv, caller = "waiting", C!Mark
  PROVE  C!ClipboardInv'
<1> USE VersionsAssumption DEF C!ClipboardInv, C!TypeOK, C!Contents, C!Outcomes, C!Owned, C!boardVars, C!helperVars, C!Mark
<1>1. C!TypeOK'
  <2>1. touched' \in BOOLEAN
    BY Zenon
  <2> QED
    BY <2>1
<1>2. C!BoardIsKept'
  BY DEF C!BoardIsKept
<1>3. C!HelperIsKept'
  BY DEF C!HelperIsKept, C!BoardIsKept
<1>4. C!AnswerIsKept'
  BY DEF C!AnswerIsKept, C!Backed, C!HelperIsKept, C!BoardIsKept
<1>5. C!ClipboardIsHonest'
  BY DEF C!ClipboardIsHonest, C!AnswerIsKept, C!Backed
<1> QED
  BY <1>1, <1>2, <1>3, <1>4, <1>5

\* What is read first is on the version that was noted, if that is the current one.
LEMMA ReadFilesKeeps ==
  ASSUME C!ClipboardInv, caller = "waiting", C!ReadFiles
  PROVE  C!ClipboardInv'
<1> USE VersionsAssumption DEF C!ClipboardInv, C!TypeOK, C!Contents, C!Outcomes, C!Owned, C!boardVars, C!helperVars, C!ReadFiles
<1>1. C!TypeOK'
  <2>1. touched' \in BOOLEAN
    BY Zenon
  <2> QED
    BY <2>1
<1>2. C!BoardIsKept'
  BY DEF C!BoardIsKept
<1>3. C!HelperIsKept'
  BY DEF C!HelperIsKept, C!BoardIsKept
<1>4. C!AnswerIsKept'
  BY DEF C!AnswerIsKept, C!Backed, C!HelperIsKept, C!BoardIsKept
<1>5. C!ClipboardIsHonest'
  BY DEF C!ClipboardIsHonest, C!AnswerIsKept, C!Backed
<1> QED
  BY <1>1, <1>2, <1>3, <1>4, <1>5

\* So is what is read then: files that came in between met an empty pasteboard.
LEMMA ReadTextKeeps ==
  ASSUME C!ClipboardInv, caller = "waiting", C!ReadText
  PROVE  C!ClipboardInv'
<1> USE VersionsAssumption DEF C!ClipboardInv, C!TypeOK, C!Contents, C!Outcomes, C!Owned, C!boardVars, C!helperVars, C!ReadText
<1>1. C!TypeOK'
  <2>1. touched' \in BOOLEAN
    BY Zenon
  <2> QED
    BY <2>1
<1>2. C!BoardIsKept'
  BY DEF C!BoardIsKept
<1>3. C!HelperIsKept'
  BY DEF C!HelperIsKept, C!BoardIsKept
<1>4. C!AnswerIsKept'
  BY DEF C!AnswerIsKept, C!Backed, C!HelperIsKept, C!BoardIsKept
<1>5. C!ClipboardIsHonest'
  BY DEF C!ClipboardIsHonest, C!AnswerIsKept, C!Backed
<1> QED
  BY <1>1, <1>2, <1>3, <1>4, <1>5

\* A read that saw two versions is not answered.
LEMMA SettleKeeps ==
  ASSUME C!ClipboardInv, caller = "waiting", C!Settle
  PROVE  C!ClipboardInv'
<1> USE VersionsAssumption DEF C!ClipboardInv, C!TypeOK, C!Contents, C!Outcomes, C!Owned, C!boardVars, C!helperVars, C!Settle, C!Answer
<1>0. \/ C!Answer("failed") /\ UNCHANGED attempt
      \/ C!Owned /\ C!Answer("ok") /\ UNCHANGED attempt
      \/ attempt' = 2 /\ helper' = "marking" /\ UNCHANGED response
  <2>1. lateness = 2 \/ lateness < 2
    OBVIOUS
  <2>2. attempt = 1 \/ attempt = 2
    OBVIOUS
  <2> QED
    BY <2>1, <2>2
<1>1. C!TypeOK'
  <2>1. touched' \in BOOLEAN
    BY Zenon
  <2> QED
    BY <2>1, <1>0
<1>2. C!BoardIsKept'
  BY <1>0 DEF C!BoardIsKept
<1>3. C!HelperIsKept'
  BY <1>0 DEF C!HelperIsKept, C!BoardIsKept
<1>4. C!AnswerIsKept'
  BY <1>0 DEF C!AnswerIsKept, C!Backed, C!HelperIsKept, C!BoardIsKept
<1>5. C!ClipboardIsHonest'
  BY <1>0 DEF C!ClipboardIsHonest, C!AnswerIsKept, C!Backed
<1> QED
  BY <1>1, <1>2, <1>3, <1>4, <1>5

\* A helper that dies claims nothing.
LEMMA HelperFailsKeeps ==
  ASSUME C!ClipboardInv, C!HelperFails
  PROVE  C!ClipboardInv'
<1> USE VersionsAssumption DEF C!ClipboardInv, C!TypeOK, C!Contents, C!Outcomes, C!Owned, C!boardVars, C!helperVars, C!HelperFails, C!Answer
<1>1. C!TypeOK'
  <2>1. touched' \in BOOLEAN
    BY Zenon
  <2> QED
    BY <2>1
<1>2. C!BoardIsKept'
  BY DEF C!BoardIsKept
<1>3. C!HelperIsKept'
  BY DEF C!HelperIsKept, C!BoardIsKept
<1>4. C!AnswerIsKept'
  BY DEF C!AnswerIsKept, C!Backed, C!HelperIsKept, C!BoardIsKept
<1>5. C!ClipboardIsHonest'
  BY DEF C!ClipboardIsHonest, C!AnswerIsKept, C!Backed
<1> QED
  BY <1>1, <1>2, <1>3, <1>4, <1>5

\* At the start the pasteboard has one version, and no helper runs.
LEMMA ClipboardInvStarts ==
  ASSUME C!Init
  PROVE  C!ClipboardInv
<1> USE VersionsAssumption DEF C!Init
<1>1. C!TypeOK
  <2>1. touched \in BOOLEAN
    BY Zenon
  <2> QED
    BY <2>1 DEF C!TypeOK, C!Contents, C!Outcomes
<1>2. C!BoardIsKept
  BY DEF C!BoardIsKept
<1>3. C!HelperIsKept /\ C!AnswerIsKept /\ C!ClipboardIsHonest
  BY DEF C!HelperIsKept, C!AnswerIsKept, C!ClipboardIsHonest
<1> QED
  BY <1>1, <1>2, <1>3 DEF C!ClipboardInv

\* All steps of the caller, its helper and other applications.
LEMMA ClipboardInvIsKept ==
  ASSUME C!ClipboardInv, [C!Next]_(C!vars)
  PROVE  C!ClipboardInv'
<1>1. CASE C!HelperStep
  BY <1>1, PrepareKeeps, ClearKeeps, CheckClearedKeeps, WriteKeeps, CheckWrittenKeeps,
     VerifyKeeps, ConcludeKeeps, CheckCleanupKeeps, EraseKeeps, CheckErasedKeeps,
     MarkKeeps, ReadFilesKeeps, ReadTextKeeps, SettleKeeps DEF C!HelperStep
<1>2. CASE C!Next /\ ~ C!HelperStep
  BY <1>2, OthersClearKeeps, OthersPutKeeps, TimePassesKeeps, StartKeeps, KillKeeps,
     CollectKeeps, HelperFailsKeeps DEF C!Next
<1>3. CASE UNCHANGED C!vars
  <2> USE <1>3 DEF C!vars, C!helperVars, C!boardVars, C!ClipboardInv
  <2>1. C!TypeOK'
    <3>1. touched' \in BOOLEAN
      BY Zenon DEF C!TypeOK
    <3> QED
      BY <3>1 DEF C!TypeOK
  <2>2. C!BoardIsKept' /\ C!HelperIsKept'
    BY DEF C!BoardIsKept, C!HelperIsKept, C!Owned
  <2>3. C!AnswerIsKept'
    BY DEF C!AnswerIsKept, C!Backed
  <2>4. C!ClipboardIsHonest'
    BY DEF C!ClipboardIsHonest
  <2> QED
    BY <2>1, <2>2, <2>3, <2>4
<1> QED
  BY <1>1, <1>2, <1>3

-----------------------------------------------------------------------------
(* The resolution of a saved reference *)

\* The counts of a component are those of the theorems.
LEMMA ResolveCounts ==
  \A S : R!Cardinality(S) = Cardinality(S)
BY DEF R!Cardinality, Cardinality

\* A few elements, one or none.
LEMMA FewElements ==
  ASSUME NEW S \in SUBSET R!Elements
  PROVE  /\ Cardinality(S) \in Nat
         /\ Cardinality(S) = 0 <=> S = {}
         /\ Cardinality(S) = 1 <=> \E x : S = {x}
         /\ Cardinality(S) > 1 => \E x, y \in S : x # y
<1>1. IsFiniteSet(R!Elements)
  <2>1. R!Elements = 1 .. 4
    BY DEF R!Elements
  <2>2. IsFiniteSet(1 .. 4)
    BY FS_Interval, 1 \in Int, 4 \in Int
  <2> QED
    BY <2>1, <2>2
<1>2. IsFiniteSet(S)
  BY <1>1, FS_Subset
<1>3. Cardinality(S) \in Nat /\ (Cardinality(S) = 0 <=> S = {}) /\ (Cardinality(S) = 1 <=> \E x : S = {x})
  BY <1>2, FS_CardinalityType, FS_EmptySet, FS_Singleton
<1>4. ASSUME Cardinality(S) > 1
      PROVE  \E x, y \in S : x # y
  <2>1. Cardinality(S) # 0 /\ Cardinality(S) # 1
    BY <1>4
  <2>2. S # {} /\ ~ \E x : S = {x}
    BY <1>3, <2>1, Zenon
  <2> QED
    <3>1. PICK x : x \in S
      BY <2>2
    <3>2. S # {x}
      BY <2>2
    <3>3. PICK y : y \in S /\ y # x
      BY <3>1, <3>2
    <3> QED
      BY <3>1, <3>3
<1> QED
  BY <1>3, <1>4

\* There are few windows.
LEMMA FewWindows ==
  ASSUME NEW S \in SUBSET R!AppWindows
  PROVE  Cardinality(S) \in Nat /\ (Cardinality(S) <= 1 => \A v, w \in S : v = w)
<1>1. IsFiniteSet({"w", "v"})
  <2>1. IsFiniteSet({"w"} \cup {"v"})
    BY FS_EmptySet, FS_AddElement, FS_Singleton
  <2> QED
    BY <2>1
<1>2. IsFiniteSet(S)
  BY <1>1, FS_Subset DEF R!AppWindows
<1> QED
  BY <1>2, FS_CardinalityType, FS_EmptySet, FS_Singleton

\* There is room for one element in a place.
LEMMA OneInPlace ==
  ASSUME R!TypeOK, NEW x, NEW y, R!InPlace(x), R!InPlace(y)
  PROVE  x = y
BY DEF R!TypeOK, R!InPlace, R!Bounds, R!SavedBounds, R!AppWindows

\* What the candidates amount to.
LEMMA ClassifyIsStrict ==
  ASSUME R!TypeOK, NEW S \in SUBSET R!Elements
  PROVE  LET reply == R!Classify(S) IN
         /\ reply.kind \in {"absent", "found", "ambiguous", "stale"}
         /\ reply.kind = "found" =>
              /\ reply.element \in S /\ (S = {reply.element} \/ R!InPlace(reply.element))
              /\ R!InPlace(reply.element) \/ (R!Verified /\ R!HasMeaningfulIdentity)
         /\ reply.kind \in {"absent", "stale"} => \A e \in S : ~ (entry.bounds /\ R!InPlace(e))
         /\ reply.kind = "stale" => \E x, y \in S : x # y
<1> DEFINE placed == {e \in S : R!InPlace(e)}
<1> DEFINE needsPlace == ~ R!Verified \/ ~ R!HasMeaningfulIdentity
<1>1. /\ Cardinality(S) \in Nat
      /\ Cardinality(S) = 0 <=> S = {}
      /\ Cardinality(S) = 1 <=> \E x : S = {x}
      /\ Cardinality(S) > 1 => \E x, y \in S : x # y
  BY FewElements
<1>2. placed \in SUBSET R!Elements
  OBVIOUS
<1>3. Cardinality(placed) = 1 <=> \E x : placed = {x}
  BY <1>2, FewElements
<1> DEFINE reply == R!Classify(S)
<1>4. CASE S = {}
  <2>1. reply = [kind |-> "absent"]
    BY <1>1, <1>4, ResolveCounts DEF R!Classify
  <2> QED
    BY <2>1, <1>4
<1>5. CASE Cardinality(S) = 1
  <2>1. PICK x : S = {x}
    BY <1>1, <1>5
  <2>2. S # {} /\ (CHOOSE e \in S : TRUE) = x
    BY <2>1
  <2>3. reply = IF needsPlace /\ ~ (entry.bounds /\ placed # {}) THEN [kind |-> "absent"]
                 ELSE [kind |-> "found", element |-> x]
    BY <1>5, <2>1, <2>2, ResolveCounts DEF R!Classify
  <2>4. CASE needsPlace /\ ~ (entry.bounds /\ placed # {})
    BY <2>3, <2>4, <2>1
  <2>5. CASE ~ (needsPlace /\ ~ (entry.bounds /\ placed # {}))
    <3>1. reply = [kind |-> "found", element |-> x]
      BY <2>3, <2>5
    <3>2. R!InPlace(x) \/ ~ needsPlace
      BY <2>5, <2>1
    <3>3. reply.kind = "found" /\ reply.element = x
      BY <3>1
    <3>4. x \in S /\ S = {x} /\ reply.kind \notin {"absent", "stale"}
      BY <2>1, <3>3
    <3> QED
      BY <3>2, <3>3, <3>4, Zenon
  <2> QED
    BY <2>4, <2>5
<1>6. CASE Cardinality(S) > 1
  <2>0. S # {} /\ Cardinality(S) # 1
    BY <1>1, <1>6
  <2>1. CASE ~ entry.bounds
    <3>1. reply = [kind |-> "ambiguous"]
      BY <1>6, <2>0, <2>1, ResolveCounts DEF R!Classify
    <3> QED
      BY <3>1
  <2>2. CASE entry.bounds /\ placed = {}
    <3>1. reply = [kind |-> "stale"]
      BY <1>6, <2>0, <2>2, ResolveCounts DEF R!Classify
    <3> QED
      BY <3>1, <2>2, <1>1, <1>6
  <2>3. CASE entry.bounds /\ placed # {} /\ Cardinality(placed) = 1
    <3>1. PICK x : placed = {x}
      BY <1>3, <2>3
    <3>2. (CHOOSE e \in placed : TRUE) = x
      BY <3>1
    <3>3. reply = [kind |-> "found", element |-> x]
      BY <1>6, <2>0, <2>3, <3>2, ResolveCounts DEF R!Classify
    <3> QED
      <4>1. x \in S /\ R!InPlace(x)
        BY <3>1
      <4>2. reply.kind = "found" /\ reply.element = x
        BY <3>3
      <4>3. reply.kind \notin {"absent", "stale"}
        BY <4>2
      <4> QED
        BY <4>1, <4>2, <4>3, Zenon
  <2>4. CASE entry.bounds /\ placed # {} /\ Cardinality(placed) # 1
    <3>1. reply = [kind |-> "ambiguous"]
      BY <1>6, <2>0, <2>4, ResolveCounts DEF R!Classify
    <3> QED
      BY <3>1
  <2> QED
    BY <2>1, <2>2, <2>3, <2>4
<1> QED
  BY <1>1, <1>4, <1>5, <1>6
\* What is taken for the saved element is that object, or looks like it; and the
\* element itself, unchanged, is.
LEMMA IdentityIsStrict ==
  ASSUME R!TypeOK, NEW e \in R!Elements, NEW blind \in {"nothing", "role", "identity"}
  PROVE  LET decision == R!CandidateIdentity(e, blind) IN
         /\ decision \in {"yes", "no", "unknown"}
         /\ decision = "yes" => (entry.token => e = 1)
         /\ decision = "yes" /\ ~ entry.token /\ e \in R!InScope => e \in R!Alike
         /\ e \in R!Alike /\ ~ entry.token /\ R!HasMeaningfulIdentity /\ decision # "unknown"
              => decision = "yes"
         /\ e = 1 /\ look[1] = entry.look /\ decision # "unknown" => decision = "yes"
<1> DEFINE identity == R!IdentityMatch(e, blind = "identity")
<1>1. CASE entry.token
  <2>1. identity = IF e = 1 THEN "yes" ELSE "no"
    BY <1>1 DEF R!IdentityMatch
  <2> QED
    BY <2>1, <1>1 DEF R!CandidateIdentity
<1>2. CASE ~ entry.token /\ entry.look.native # None
  <2>1. identity = IF blind = "identity" THEN "unknown"
                   ELSE IF look[e].native = entry.look.native THEN "yes" ELSE "no"
    BY <1>2 DEF R!IdentityMatch
  <2>2. ~ R!Provisional
    BY <1>2 DEF R!Provisional, R!HasMeaningfulIdentity
  <2> QED
    BY <2>1, <2>2, <1>2 DEF R!CandidateIdentity, R!Alike
<1>3. CASE ~ entry.token /\ entry.look.native = None /\ entry.look.label # None
  <2>1. identity = IF blind = "identity" THEN "unknown"
                   ELSE IF look[e].label = entry.look.label THEN "yes" ELSE "no"
    BY <1>3 DEF R!IdentityMatch
  <2>2. ~ R!Provisional
    BY <1>3 DEF R!Provisional, R!HasMeaningfulIdentity
  <2> QED
    BY <2>1, <2>2, <1>3 DEF R!CandidateIdentity, R!Alike
<1>4. CASE ~ entry.token /\ entry.look.native = None /\ entry.look.label = None
  <2>1. identity = IF blind = "identity" \/ look[e].label = None THEN "unknown" ELSE "no"
    BY <1>4 DEF R!IdentityMatch
  <2>2. ~ R!HasMeaningfulIdentity
    BY <1>4 DEF R!HasMeaningfulIdentity
  <2> QED
    BY <2>1, <2>2, <1>4 DEF R!CandidateIdentity, R!Alike
<1> QED
  BY <1>1, <1>2, <1>3, <1>4

\* A decision is about what was there when it was given.
LEMMA VerdictIsKept ==
  ASSUME UNCHANGED <<entry, R!uiVars>>, NEW reply, result' = reply,
         R!BeyondDoubt(reply), R!StaleIsGone(reply)
  PROVE  R!ResolvesBeyondDoubt' /\ R!UnchangedIsNotStale'
<1>1. /\ entry' = entry /\ shown' = shown /\ look' = look /\ scrolled' = scrolled
      /\ titled' = titled /\ process' = process /\ held' = held
  BY DEF R!uiVars
<1>2. R!Roots' = R!Roots /\ (R!Verified' <=> R!Verified)
  BY <1>1 DEF R!Roots, R!Open, R!Verified
<1>3. R!InScope' = R!InScope
  BY <1>1, <1>2 DEF R!InScope, R!Listed
<1>4. R!Alike' = R!Alike
  BY <1>1, <1>3 DEF R!Alike
<1>5. \A x : R!InPlace(x)' <=> R!InPlace(x)
  BY <1>1 DEF R!InPlace, R!Bounds, R!SavedBounds
<1> QED
  BY <1>1, <1>2, <1>3, <1>4, <1>5
     DEF R!BeyondDoubt, R!StaleIsGone, R!ResolvesBeyondDoubt, R!UnchangedIsNotStale
\* The windows of a scope and their elements are among those there are.
LEMMA ScopeIsSmall ==
  ASSUME R!TypeOK
  PROVE  R!Roots \in SUBSET R!AppWindows /\ R!InScope \in SUBSET R!Elements
<1>1. R!Roots \in SUBSET R!AppWindows
  BY DEF R!TypeOK, R!Roots, R!Open
<1>2. \A w \in R!AppWindows : R!Listed(w) \in SUBSET R!Elements
  BY DEF R!TypeOK, R!Listed, R!ToSet
<1> QED
  BY <1>1, <1>2 DEF R!InScope

\* The resolution is over.
LEMMA ResolveEnds ==
  ASSUME R!ResolveInv, UNCHANGED <<entry, R!uiVars>>, phase' = "done", NEW reply, result' = reply,
         reply.kind \in {"found", "stale", "ambiguous", "timeout", "window_not_found"},
         R!BeyondDoubt(reply), R!StaleIsGone(reply)
  PROVE  R!ResolveInv'
<1>1. R!ResolvesBeyondDoubt' /\ R!UnchangedIsNotStale'
  BY VerdictIsKept
<1>2. R!TypeOK'
  BY DEF R!ResolveInv, R!TypeOK, R!uiVars, R!Pending
<1> QED
  BY <1>1, <1>2 DEF R!ResolveInv

\* It goes on, in the state that was verified.
LEMMA ResolveGoesOn ==
  ASSUME R!ResolveInv, UNCHANGED <<entry, R!uiVars, result>>, phase' \in {"path", "search"},
         phase # "done", process # "reused", entry.token => held
  PROVE  R!ResolveInv'
<1>1. result.kind = "pending"
  BY DEF R!ResolveInv, R!TypeOK, R!Pending
<1>2. R!ResolvesBeyondDoubt' /\ R!UnchangedIsNotStale'
  <2>1. R!BeyondDoubt(result) /\ R!StaleIsGone(result)
    BY <1>1 DEF R!BeyondDoubt, R!StaleIsGone
  <2> QED
    BY <1>1 DEF R!ResolvesBeyondDoubt, R!UnchangedIsNotStale, R!BeyondDoubt, R!StaleIsGone
<1>3. R!TypeOK' /\ process' # "reused" /\ (entry'.token => held')
  BY DEF R!ResolveInv, R!TypeOK, R!uiVars
<1> QED
  BY <1>2, <1>3 DEF R!ResolveInv

\* The process is verified, once, before anything is looked at.
LEMMA VerifyIsKept ==
  ASSUME R!ResolveInv, R!Verify
  PROVE  R!ResolveInv'
<1>1. UNCHANGED <<entry, R!uiVars>> /\ phase = "verify"
  BY DEF R!Verify
<1>2. CASE (entry.token => held) /\ process = "same" /\ phase' = "path" /\ UNCHANGED result
  BY <1>1, <1>2, ResolveGoesOn
<1>3. CASE ((entry.token /\ ~ held) \/ process # "same") /\ R!Fail("stale")
  <2> DEFINE reply == [kind |-> "stale"]
  <2>1. phase' = "done" /\ result' = reply
    BY <1>3 DEF R!Fail
  <2>2. reply.kind = "stale" /\ R!BeyondDoubt(reply) /\ R!StaleIsGone(reply)
    BY <1>3 DEF R!BeyondDoubt, R!StaleIsGone, R!ResolveInv, R!TypeOK
  <2> HIDE DEF reply
  <2> QED
    BY <1>1, <2>1, <2>2, ResolveEnds
<1> QED
  BY <1>2, <1>3 DEF R!Verify

\* A failure other than "stale" says nothing that could be doubted.
LEMMA FailureIsKept ==
  ASSUME R!ResolveInv, UNCHANGED <<entry, R!uiVars>>,
         NEW why \in {"ambiguous", "timeout", "window_not_found"}, R!Fail(why)
  PROVE  R!ResolveInv'
<1> DEFINE reply == [kind |-> why]
<1>1. phase' = "done" /\ result' = reply
  BY DEF R!Fail
<1>2. reply.kind = why /\ R!BeyondDoubt(reply) /\ R!StaleIsGone(reply)
  BY DEF R!BeyondDoubt, R!StaleIsGone
<1> HIDE DEF reply
<1> QED
  BY <1>1, <1>2, ResolveEnds

\* A path leads to one element at most.
LEMMA FollowPathIsKept ==
  ASSUME R!ResolveInv, R!FollowPath
  PROVE  R!ResolveInv'
<1>1. /\ UNCHANGED <<entry, R!uiVars>> /\ phase = "path" /\ R!TypeOK
      /\ process # "reused" /\ (entry.token => held)
  BY DEF R!FollowPath, R!ResolveInv
<1>2. CASE ~ R!CanUsePath
  <2>1. phase' = "search" /\ UNCHANGED result
    BY <1>2 DEF R!FollowPath
  <2> QED
    BY <1>1, <2>1, ResolveGoesOn
<1>3. CASE R!CanUsePath /\ R!ScopeError # None
  <2>1. R!Fail(R!ScopeError)
    BY <1>3 DEF R!FollowPath
  <2>2. R!ScopeError \in {"ambiguous", "window_not_found"}
    BY <1>1, <1>3 DEF R!ScopeError, R!TypeOK
  <2> QED
    BY <1>1, <2>1, <2>2, FailureIsKept
<1>4. CASE R!CanUsePath /\ R!ScopeError = None
  <2>1. PICK blind \in {"nothing", "role", "identity"} :
          LET matches == {e \in R!AtPath : R!CandidateIdentity(e, blind) = "yes"}
              reply == R!Classify(matches)
          IN  \/ UNCHANGED <<phase, result>>
              \/ IF reply.kind = "absent" THEN phase' = "search" /\ UNCHANGED result
                 ELSE phase' = "done" /\ result' = reply
    BY <1>4 DEF R!FollowPath
  <2> DEFINE matches == {e \in R!AtPath : R!CandidateIdentity(e, blind) = "yes"}
  <2> DEFINE reply == R!Classify(matches)
  <2>2. \A v, w \in R!Roots : v = w
    BY <1>1, <1>4, ScopeIsSmall, FewWindows, ResolveCounts, NoneAssumption
       DEF R!CanUsePath, R!ScopeError, R!Roots
  <2>3. /\ R!AtPath \in SUBSET R!InScope
        /\ \A x, y \in R!AtPath : x = y
        /\ R!Verified => \A x \in R!AtPath : x = shown["w"][entry.path]
    BY <1>1, <2>2, ScopeIsSmall
       DEF R!AtPath, R!InScope, R!Listed, R!ToSet, R!TypeOK, R!Verified, R!Roots
  <2>4. matches \in SUBSET R!InScope /\ matches \in SUBSET R!Elements
    BY <1>1, <2>3, ScopeIsSmall
  <2>5. CASE phase' \in {"path", "search"} /\ UNCHANGED result
    BY <1>1, <2>5, ResolveGoesOn
  <2>6. CASE reply.kind # "absent" /\ phase' = "done" /\ result' = reply
    <3>1. /\ reply.kind \in {"found", "ambiguous", "stale"}
          /\ reply.kind = "found" => reply.element \in matches
                                      /\ (R!Verified \/ R!InPlace(reply.element))
          /\ reply.kind = "stale" => \E x, y \in matches : x # y
      BY <1>1, <2>4, <2>6, ClassifyIsStrict
    <3> HIDE DEF reply
    <3>2. R!StaleIsGone(reply)
      BY <3>1, <2>3 DEF R!StaleIsGone
    <3>3. ASSUME reply.kind = "found"
          PROVE  R!BeyondDoubt(reply)
      <4> DEFINE x == reply.element
      <4>1. x \in R!AtPath /\ x \in R!InScope /\ x \in R!Elements /\ (R!Verified \/ R!InPlace(x))
        BY <3>1, <3>3, <2>4
      <4>2. /\ entry.token => x = 1
            /\ ~ entry.token => x \in R!Alike
        BY <1>1, <3>1, <3>3, <4>1, IdentityIsStrict
      <4>3. ASSUME R!InPlace(x), x \in R!Alike
            PROVE  {y \in R!Alike : R!InPlace(y)} = {x}
        BY <1>1, <4>3, OneInPlace
      <4> QED
        BY <1>1, <4>1, <4>2, <4>3, <2>3 DEF R!BeyondDoubt
    <3>4. R!BeyondDoubt(reply)
      BY <3>3 DEF R!BeyondDoubt
    <3> QED
      BY <1>1, <2>6, <3>1, <3>2, <3>4, ResolveEnds
  <2> QED
    BY <1>1, <2>1, <2>5, <2>6
<1> QED
  BY <1>2, <1>3, <1>4
\* A search counts only when it has seen all there is.
LEMMA SearchIsKept ==
  ASSUME R!ResolveInv, R!Search
  PROVE  R!ResolveInv'
<1>1. /\ UNCHANGED <<entry, R!uiVars>> /\ phase = "search" /\ R!TypeOK
      /\ process # "reused" /\ (entry.token => held)
  BY DEF R!Search, R!ResolveInv
<1> DEFINE gone == [kind |-> "stale"]
<1>2. CASE ~ entry.bounds /\ ~ R!HasMeaningfulIdentity
  <2>1. phase' = "done" /\ result' = gone
    BY <1>2 DEF R!Search, R!Fail
  <2>2. gone.kind = "stale" /\ R!BeyondDoubt(gone) /\ R!StaleIsGone(gone)
    BY <1>2 DEF R!BeyondDoubt, R!StaleIsGone
  <2> HIDE DEF gone
  <2> QED
    BY <1>1, <2>1, <2>2, ResolveEnds
<1>3. CASE ~ (~ entry.bounds /\ ~ R!HasMeaningfulIdentity) /\ R!ScopeError # None
  <2>1. R!Fail(R!ScopeError)
    BY <1>3 DEF R!Search
  <2>2. R!ScopeError \in {"ambiguous", "window_not_found"}
    BY <1>1, <1>3 DEF R!ScopeError, R!TypeOK
  <2> QED
    BY <1>1, <2>1, <2>2, FailureIsKept
<1>4. CASE ~ (~ entry.bounds /\ ~ R!HasMeaningfulIdentity) /\ R!ScopeError = None
  <2> DEFINE all == R!InScope
  <2>1. PICK skip \in all \cup {None}, how \in {"lost", "role", "identity"} :
          LET blind == [e \in all |-> IF e = skip THEN how ELSE "nothing"]
              dropped == {e \in all : blind[e] = "lost"}
              seen == all \ dropped
              matches == {e \in seen : R!CandidateIdentity(e, blind[e]) = "yes"}
              reply == R!Classify(matches)
          IN  \/ R!Cardinality(matches) > 1 /\ ~ entry.bounds /\ R!Fail("ambiguous")
              \/ IF R!Incomplete(dropped, seen, blind) THEN phase' = "path" /\ UNCHANGED result
                 ELSE IF matches = {} /\ \E e \in seen : R!RoleReused(e) THEN R!Fail("stale")
                 ELSE IF reply.kind = "absent" THEN R!Fail("stale")
                 ELSE phase' = "done" /\ result' = reply
    BY <1>4 DEF R!Search, R!InScope
  <2> DEFINE blind == [e \in all |-> IF e = skip THEN how ELSE "nothing"]
  <2> DEFINE dropped == {e \in all : blind[e] = "lost"}
  <2> DEFINE seen == all \ dropped
  <2> DEFINE matches == {e \in seen : R!CandidateIdentity(e, blind[e]) = "yes"}
  <2> DEFINE reply == R!Classify(matches)
  <2>2. CASE R!Fail("ambiguous")
    BY <1>1, <2>2, FailureIsKept
  <2>3. CASE phase' = "path" /\ UNCHANGED result
    BY <1>1, <2>3, ResolveGoesOn
  <2>4. ASSUME ~ R!Incomplete(dropped, seen, blind)
        PROVE  /\ matches \in SUBSET all /\ matches \in SUBSET R!Elements
               /\ \A e \in all : /\ blind[e] \in {"nothing", "role", "identity"}
                                 /\ R!CandidateIdentity(e, blind[e]) # "unknown"
                                 /\ R!CandidateIdentity(e, blind[e]) = "yes" <=> e \in matches
    <3>1. dropped = {} /\ \A e \in seen : R!CandidateIdentity(e, blind[e]) # "unknown"
      BY <2>4 DEF R!Incomplete
    <3>2. seen = all /\ \A e \in all : blind[e] # "lost"
      BY <3>1
    <3> QED
      BY <1>1, <3>1, <3>2, ScopeIsSmall
  <2>5. ASSUME ~ R!Incomplete(dropped, seen, blind)
        PROVE  1 \in R!InScope /\ look[1] = entry.look => 1 \in matches
    BY <1>1, <2>4, <2>5, ScopeIsSmall, IdentityIsStrict
  <2>6. CASE ~ R!Incomplete(dropped, seen, blind) /\ R!Fail("stale")
             /\ (matches = {} \/ reply.kind = "absent")
    <3>1. phase' = "done" /\ result' = gone
      BY <2>6 DEF R!Fail
    <3>2. \A e \in matches : ~ (entry.bounds /\ R!InPlace(e))
      BY <1>1, <2>4, <2>6, ClassifyIsStrict
    <3>3. gone.kind = "stale" /\ R!BeyondDoubt(gone) /\ R!StaleIsGone(gone)
      BY <2>5, <2>6, <3>2 DEF R!BeyondDoubt, R!StaleIsGone
    <3> HIDE DEF gone
    <3> QED
      BY <1>1, <3>1, <3>3, ResolveEnds
  <2>7. CASE ~ R!Incomplete(dropped, seen, blind) /\ reply.kind # "absent"
             /\ phase' = "done" /\ result' = reply
    <3>1. /\ reply.kind \in {"found", "ambiguous", "stale"}
          /\ reply.kind = "found" =>
               /\ reply.element \in matches
               /\ matches = {reply.element} \/ R!InPlace(reply.element)
               /\ R!InPlace(reply.element) \/ (R!Verified /\ R!HasMeaningfulIdentity)
          /\ reply.kind = "stale" => \A e \in matches : ~ (entry.bounds /\ R!InPlace(e))
      BY <1>1, <2>4, <2>7, ClassifyIsStrict
    <3> HIDE DEF reply
    <3>2. R!StaleIsGone(reply)
      BY <3>1, <2>5, <2>7 DEF R!StaleIsGone
    <3>3. ASSUME reply.kind = "found"
          PROVE  R!BeyondDoubt(reply)
      <4> DEFINE x == reply.element
      <4>1. x \in matches /\ x \in R!InScope /\ x \in R!Elements
        BY <3>1, <3>3, <2>4, <2>7
      <4>2. /\ entry.token => x = 1
            /\ ~ entry.token => x \in R!Alike
        BY <1>1, <2>4, <2>7, <4>1, IdentityIsStrict
      <4>3. ASSUME R!InPlace(x), x \in R!Alike
            PROVE  {y \in R!Alike : R!InPlace(y)} = {x}
        BY <1>1, <4>3, OneInPlace
      <4>4. ASSUME R!HasMeaningfulIdentity, ~ entry.token
            PROVE  R!Alike \subseteq matches
        <5>1. R!Alike \subseteq all /\ all \in SUBSET R!Elements
          BY <1>1, ScopeIsSmall DEF R!Alike
        <5> QED
          BY <1>1, <4>4, <5>1, <2>4, <2>7, IdentityIsStrict
      <4>5. CASE R!InPlace(x)
        BY <1>1, <4>1, <4>2, <4>3, <4>5 DEF R!BeyondDoubt
      <4>6. CASE ~ R!InPlace(x)
        <5>1. matches = {x} /\ R!Verified /\ R!HasMeaningfulIdentity
          BY <3>1, <3>3, <4>6
        <5>2. ~ entry.token => R!Alike = {x}
          BY <4>2, <4>4, <5>1
        <5> QED
          BY <1>1, <4>1, <4>2, <5>1, <5>2 DEF R!BeyondDoubt
      <4> QED
        BY <4>5, <4>6
    <3>4. R!BeyondDoubt(reply)
      BY <3>3 DEF R!BeyondDoubt
    <3> QED
      BY <1>1, <2>7, <3>1, <3>2, <3>4, ResolveEnds
  <2> QED
    BY <2>1, <2>2, <2>3, <2>6, <2>7
<1> QED
  BY <1>2, <1>3, <1>4

\* What the application does leaves sequences of elements, and ends a search only
\* by taking its elements away.
LEMMA ChangeIsKept ==
  ASSUME R!ResolveInv, R!Change,
         shown' \in [R!AppWindows -> Seq(R!Elements)], look' \in [R!Elements -> R!Looks],
         scrolled' \in [R!AppWindows -> 0 .. 1], titled' \subseteq R!AppWindows,
         process' \in {"same", "gone", "reused"}, held' \in BOOLEAN,
         phase = "verify" \/ (process' # "reused" /\ held' = held)
  PROVE  R!ResolveInv'
<1>1. phase \in {"verify", "search"} /\ UNCHANGED <<entry, phase, result>>
  BY DEF R!Change
<1>2. result.kind = "pending"
  BY <1>1 DEF R!ResolveInv, R!TypeOK, R!Pending
<1>3. R!ResolvesBeyondDoubt' /\ R!UnchangedIsNotStale'
  BY <1>1, <1>2 DEF R!ResolvesBeyondDoubt, R!UnchangedIsNotStale, R!BeyondDoubt, R!StaleIsGone
<1>4. R!TypeOK'
  BY <1>1 DEF R!ResolveInv, R!TypeOK
<1> QED
  BY <1>1, <1>3, <1>4 DEF R!ResolveInv

\* What the application does to its tree, it does to the elements it has.
LEMMA AppIsKept ==
  ASSUME R!ResolveInv,
         R!Vanish \/ R!Create \/ R!Replace \/ R!Relabel \/ R!Scroll \/ R!Retitle \/ R!Close
           \/ R!Quit \/ R!HostEnds
  PROVE  R!ResolveInv'
<1>1. R!TypeOK /\ \A w \in R!Around : w \in R!AppWindows
  BY DEF R!ResolveInv, R!Around, R!AppWindows
<1>2. 4 \in R!Elements /\ <<4>> \in Seq(R!Elements) /\ <<>> \in Seq(R!Elements)
  BY DEF R!Elements
<1>3. CASE R!Vanish
  <2>1. PICK w \in R!Around : \E i \in DOMAIN shown[w] :
          shown' = [shown EXCEPT ![w] = R!RemoveAt(shown[w], i)]
    BY <1>3 DEF R!Vanish
  <2>2. PICK i \in DOMAIN shown[w] : shown' = [shown EXCEPT ![w] = R!RemoveAt(shown[w], i)]
    BY <2>1
  <2>3. shown[w] \in Seq(R!Elements)
    BY <1>1 DEF R!TypeOK
  <2>4. i \in 1 .. Len(shown[w]) /\ Len(shown[w]) \in Nat
    BY <2>3
  <2>5. R!RemoveAt(shown[w], i) \in Seq(R!Elements)
    BY <2>3, <2>4 DEF R!RemoveAt
  <2>6. shown' \in [R!AppWindows -> Seq(R!Elements)]
    BY <1>1, <2>2, <2>5 DEF R!TypeOK
  <2> QED
    BY <1>1, <1>3, <2>6, ChangeIsKept DEF R!Vanish, R!Change, R!TypeOK
<1>4. CASE R!Create
  <2>1. PICK w \in R!Around, e \in R!Elements \ {4} : \E i \in 1 .. Len(shown[w]) + 1 :
          /\ shown' = [shown EXCEPT ![w] = R!InsertAt(shown[w], i, 4)]
          /\ look' = [look EXCEPT ![4] = look[e]]
    BY <1>4 DEF R!Create
  <2>2. PICK i \in 1 .. Len(shown[w]) + 1 :
          /\ shown' = [shown EXCEPT ![w] = R!InsertAt(shown[w], i, 4)]
          /\ look' = [look EXCEPT ![4] = look[e]]
    BY <2>1
  <2>3. shown[w] \in Seq(R!Elements) /\ Len(shown[w]) \in Nat
    BY <1>1 DEF R!TypeOK
  <2>4. /\ SubSeq(shown[w], 1, i - 1) \in Seq(R!Elements)
        /\ SubSeq(shown[w], i, Len(shown[w])) \in Seq(R!Elements)
    BY <2>3
  <2>5. R!InsertAt(shown[w], i, 4) \in Seq(R!Elements)
    BY <1>2, <2>4 DEF R!InsertAt
  <2>6. shown' \in [R!AppWindows -> Seq(R!Elements)] /\ look' \in [R!Elements -> R!Looks]
    BY <1>1, <2>2, <2>5 DEF R!TypeOK
  <2> QED
    BY <1>1, <1>4, <2>6, ChangeIsKept DEF R!Create, R!Change, R!TypeOK
<1>5. CASE R!Replace
  <2>1. PICK w \in R!Around : \E i \in DOMAIN shown[w] :
          /\ shown' = [shown EXCEPT ![w][i] = 4]
          /\ look' = [look EXCEPT ![4] = look[shown[w][i]]]
    BY <1>5 DEF R!Replace
  <2>2. PICK i \in DOMAIN shown[w] :
          /\ shown' = [shown EXCEPT ![w][i] = 4]
          /\ look' = [look EXCEPT ![4] = look[shown[w][i]]]
    BY <2>1
  <2>3. shown[w] \in Seq(R!Elements)
    BY <1>1 DEF R!TypeOK
  <2>4. [shown[w] EXCEPT ![i] = 4] \in Seq(R!Elements) /\ shown[w][i] \in R!Elements
    BY <1>2, <2>2, <2>3
  <2>5. shown' \in [R!AppWindows -> Seq(R!Elements)] /\ look' \in [R!Elements -> R!Looks]
    BY <1>1, <2>2, <2>4 DEF R!TypeOK
  <2> QED
    BY <1>1, <1>5, <2>5, ChangeIsKept DEF R!Replace, R!Change, R!TypeOK
<1>6. CASE R!Relabel
  <2>1. R!Look("button", "b", None) \in R!Looks
    BY DEF R!Looks
  <2>2. look' \in [R!Elements -> R!Looks]
    <3>1. look[2] \in R!Looks
      BY <1>1 DEF R!TypeOK, R!Elements
    <3>2. PICK e, l : /\ l \in {look[2], R!Look("button", "b", None)}
                             /\ look' = [look EXCEPT ![e] = l]
      BY <1>6 DEF R!Relabel
    <3>3. l \in R!Looks
      BY <2>1, <3>1, <3>2
    <3> QED
      BY <1>1, <3>2, <3>3 DEF R!TypeOK
  <2> QED
    BY <1>1, <1>6, <2>2, ChangeIsKept DEF R!Relabel, R!Change, R!TypeOK
<1>7. CASE R!Scroll
  <2>1. scrolled' \in [R!AppWindows -> 0 .. 1]
    BY <1>1, <1>7 DEF R!Scroll, R!TypeOK
  <2> QED
    BY <1>1, <1>7, <2>1, ChangeIsKept DEF R!Scroll, R!Change, R!TypeOK
<1>8. CASE R!Retitle
  BY <1>1, <1>8, ChangeIsKept DEF R!Retitle, R!Change, R!TypeOK
<1>9. CASE R!Close
  <2>1. shown' \in [R!AppWindows -> Seq(R!Elements)]
    BY <1>1, <1>2, <1>9 DEF R!Close, R!TypeOK
  <2> QED
    BY <1>1, <1>9, <2>1, ChangeIsKept DEF R!Close, R!Change, R!TypeOK
<1>10. CASE R!Quit
  <2>1. shown' \in [R!AppWindows -> Seq(R!Elements)]
    BY <1>1, <1>2, <1>10 DEF R!Quit, R!TypeOK
  <2>2. process' \in {"gone", "reused"} /\ (phase = "verify" \/ process' = "gone")
    BY <1>10 DEF R!Quit
  <2> QED
    BY <1>1, <1>10, <2>1, <2>2, ChangeIsKept DEF R!Quit, R!Change, R!TypeOK
<1>11. CASE R!HostEnds
  BY <1>1, <1>11, ChangeIsKept DEF R!HostEnds, R!Change, R!TypeOK
<1> QED
  BY <1>3, <1>4, <1>5, <1>6, <1>7, <1>8, <1>9, <1>10, <1>11

\* At first nothing is answered, and the reference is of an element that was there.
LEMMA ResolveInvStarts ==
  ASSUME R!Init
  PROVE  R!ResolveInv
<1>1. shown \in [R!AppWindows -> Seq(R!Elements)] /\ shown["w"] \in {<<1, 2>>, <<2, 1>>}
  <2>1. PICK s \in {<<1, 2>>, <<2, 1>>} : shown = [w |-> s, v |-> <<3>>]
    BY DEF R!Init
  <2>2. s \in Seq(1 .. 4) /\ <<3>> \in Seq(1 .. 4)
    OBVIOUS
  <2>3. /\ DOMAIN shown = {"w", "v"}
        /\ shown = [x \in DOMAIN shown |-> shown[x]]
        /\ shown["w"] = s /\ shown["v"] = <<3>>
    BY <2>1
  <2> QED
    BY <2>2, <2>3 DEF R!AppWindows, R!Elements
<1>2. look \in [R!Elements -> R!Looks] /\ look[1] \in R!Looks
  BY DEF R!Init, R!Elements
<1>3. (CHOOSE i \in DOMAIN shown.w : shown.w[i] = 1) \in 1 .. 2
  <2>1. DOMAIN shown.w = 1 .. 2 /\ \E i \in 1 .. 2 : shown.w[i] = 1
    BY <1>1
  <2> QED
    BY <2>1
<1>4. R!TypeOK
  BY <1>1, <1>2, <1>3 DEF R!Init, R!TypeOK, R!Pending, R!AppWindows
<1> QED
  BY <1>4 DEF R!Init, R!ResolveInv, R!ResolvesBeyondDoubt, R!UnchangedIsNotStale, R!BeyondDoubt,
              R!StaleIsGone, R!Pending

\* Every step of a resolution, and of the application, keeps the invariant.
LEMMA ResolveInvIsKept ==
  ASSUME R!ResolveInv, [R!Next]_(R!vars)
  PROVE  R!ResolveInv'
<1>1. CASE R!TimeOut
  BY <1>1, FailureIsKept DEF R!TimeOut
<1>2. CASE UNCHANGED R!vars
  <2>1. UNCHANGED <<entry, R!uiVars, phase, result>>
    BY <1>2 DEF R!vars
  <2>2. R!BeyondDoubt(result) /\ R!StaleIsGone(result)
    BY DEF R!ResolveInv, R!ResolvesBeyondDoubt, R!UnchangedIsNotStale
  <2>3. R!ResolvesBeyondDoubt' /\ R!UnchangedIsNotStale'
    BY <2>1, <2>2, VerdictIsKept
  <2> QED
    BY <2>1, <2>3 DEF R!ResolveInv, R!TypeOK, R!uiVars
<1> QED
  BY <1>1, <1>2, VerifyIsKept, FollowPathIsKept, SearchIsKept, AppIsKept DEF R!Next

-----------------------------------------------------------------------------
(* Notification Center *)

\* The counts of a component are those of the theorems.
LEMMA NoticeCounts ==
  \A S : N!Cardinality(S) = Cardinality(S)
BY DEF N!Cardinality, Cardinality

\* A smaller set has fewer notifications of a kind.
LEMMA CountGrows ==
  ASSUME NEW S, NEW T, IsFiniteSet(T), S \subseteq T, NEW k
  PROVE  N!Count(S, k) \in Nat /\ N!Count(T, k) \in Nat /\ N!Count(S, k) <= N!Count(T, k)
<1> DEFINE few == {n \in S : N!Kind(n) = k}
<1> DEFINE many == {n \in T : N!Kind(n) = k}
<1>1. many \in SUBSET T /\ few \in SUBSET many
  OBVIOUS
<1>2. IsFiniteSet(many) /\ IsFiniteSet(few)
  BY <1>1, FS_Subset
<1>3. Cardinality(few) <= Cardinality(many)
  BY <1>1, <1>2, FS_Subset
<1> QED
  BY <1>2, <1>3, FS_CardinalityType, NoticeCounts DEF N!Count

\* One notification more adds one to its kind at most.
LEMMA CountOneMore ==
  ASSUME NEW S, IsFiniteSet(S), NEW x
  PROVE  /\ N!Count(S, N!Kind(x)) \in Nat
         /\ N!Count(S \cup {x}, N!Kind(x)) \in Nat
         /\ N!Count(S \cup {x}, N!Kind(x)) <= N!Count(S, N!Kind(x)) + 1
         /\ \A k : k # N!Kind(x) => N!Count(S \cup {x}, k) = N!Count(S, k)
<1> DEFINE k == N!Kind(x)
<1> DEFINE some == {n \in S : N!Kind(n) = k}
<1>1. some \in SUBSET S
  OBVIOUS
<1>2. IsFiniteSet(some) /\ Cardinality(some) \in Nat
  BY <1>1, FS_Subset, FS_CardinalityType
<1>3. {n \in S \cup {x} : N!Kind(n) = k} = some \cup {x}
  OBVIOUS
<1>4. Cardinality(some \cup {x}) \in Nat /\ Cardinality(some \cup {x}) <= Cardinality(some) + 1
  <2> HIDE DEF some
  <2>1. Cardinality(some \cup {x}) = IF x \in some THEN Cardinality(some) ELSE Cardinality(some) + 1
    BY <1>2, FS_AddElement
  <2> QED
    BY <1>2, <2>1
<1>5. \A j : j # k => {n \in S \cup {x} : N!Kind(n) = j} = {n \in S : N!Kind(n) = j}
  OBVIOUS
<1>6. \A j : j # k => N!Count(S \cup {x}, j) = N!Count(S, j)
  BY <1>5 DEF N!Count
<1> QED
  BY <1>2, <1>3, <1>4, <1>6, NoticeCounts DEF N!Count

\* What arrived is shown or gone.
LEMMA CountSplits ==
  ASSUME NEW S, IsFiniteSet(S), NEW T \in SUBSET S, NEW k
  PROVE  N!Count(S, k) = N!Count(T, k) + N!Count(S \ T, k)
<1> DEFINE all == {n \in S : N!Kind(n) = k}
<1> DEFINE there == {n \in T : N!Kind(n) = k}
<1> DEFINE gone == {n \in S \ T : N!Kind(n) = k}
<1>1. all \in SUBSET S /\ there \in SUBSET S /\ gone \in SUBSET S
  OBVIOUS
<1>2. IsFiniteSet(all) /\ IsFiniteSet(there) /\ IsFiniteSet(gone)
  BY <1>1, FS_Subset
<1>3. there \cup gone = all /\ there \cap gone = {}
  OBVIOUS
<1>4. Cardinality(all) = Cardinality(there) + Cardinality(gone) - Cardinality({})
  BY <1>2, <1>3, FS_Union
<1> QED
  BY <1>2, <1>4, FS_EmptySet, FS_CardinalityType, NoticeCounts DEF N!Count

\* matching_count counts entries, of which each shows another notification.
LEMMA AlikeCounts ==
  ASSUME NEW S, NEW list \in Seq(S), \A i, j \in DOMAIN list : i # j => list[i] # list[j], NEW n
  PROVE  /\ N!Alike(list, n) = N!Count(N!ToSet(list), N!Kind(n))
         /\ IsFiniteSet(N!ToSet(list))
<1> DEFINE indices == {i \in DOMAIN list : N!Kind(list[i]) = N!Kind(n)}
<1> DEFINE some == {m \in N!ToSet(list) : N!Kind(m) = N!Kind(n)}
<1> DEFINE map == [i \in indices |-> list[i]]
<1> DEFINE whole == [i \in DOMAIN list |-> list[i]]
<1>1. IsFiniteSet(DOMAIN list)
  BY FS_Interval
<1>2. IsFiniteSet(indices)
  BY <1>1, FS_Subset
<1>3. map \in Bijection(indices, some)
  BY DEF Bijection, Injection, IsInjective, Surjection, N!ToSet
<1>4. Cardinality(some) = Cardinality(indices)
  BY <1>2, <1>3, FS_Bijection DEF ExistsBijection
<1>5. whole \in Surjection(DOMAIN list, N!ToSet(list))
  BY DEF Surjection, N!ToSet
<1>6. IsFiniteSet(N!ToSet(list))
  BY <1>1, <1>5, FS_Surjection
<1> QED
  BY <1>4, <1>6, NoticeCounts DEF N!Alike, N!Count

\* Where no notification comes or goes and no entry is taken up, nothing is counted.
LEMMA CountsAreLeft ==
  ASSUME N!NoticeInv, UNCHANGED <<notes, arrived, dismissed>>, hindered => hindered',
         phase' \in {"acting", "verifying"} =>
           phase \in {"acting", "verifying"} /\ UNCHANGED <<target, before>>
  PROVE  N!CountIsKept' /\ N!DismissalsAreReal'
<1>1. N!CountIsKept /\ N!DismissalsAreReal /\ hindered \in BOOLEAN
  BY DEF N!NoticeInv, N!TypeOK
<1>2. \A k : N!Count((1 .. arrived) \ N!ToSet(notes), k)' = N!Count((1 .. arrived) \ N!ToSet(notes), k)
  BY DEF N!Count, N!Kind, N!ToSet
<1>3. \A k : N!Count(dismissed, k)' = N!Count(dismissed, k)
  BY DEF N!Count, N!Kind
<1>4. N!DismissalsAreReal'
  BY <1>1, <1>2, <1>3 DEF N!DismissalsAreReal
<1>5. ASSUME phase' \in {"acting", "verifying"}, ~ hindered'
      PROVE  (N!Count(dismissed, N!Kind(target)) + before <= N!Count(1 .. arrived, N!Kind(target)))'
  <2>1. target' = target /\ before' = before /\ phase \in {"acting", "verifying"} /\ ~ hindered
    BY <1>5
  <2>2. N!Count(dismissed, N!Kind(target))' = N!Count(dismissed, N!Kind(target))
    BY <2>1 DEF N!Count, N!Kind
  <2>3. N!Count(1 .. arrived, N!Kind(target))' = N!Count(1 .. arrived, N!Kind(target))
    BY <2>1 DEF N!Count, N!Kind
  <2> QED
    BY <1>1, <2>1, <2>2, <2>3 DEF N!CountIsKept
<1>6. (\A i, j \in DOMAIN notes : i # j => notes[i] # notes[j])'
  BY <1>1 DEF N!CountIsKept
<1> QED
  BY <1>4, <1>5, <1>6 DEF N!CountIsKept

\* A center that is open is found and left alone.
LEMMA FindOpenIsKept ==
  ASSUME N!NoticeInv, N!FindOpen
  PROVE  N!NoticeInv'
<1>1. N!CountIsKept' /\ N!DismissalsAreReal'
  BY CountsAreLeft DEF N!FindOpen, N!desktopVars, N!noteVars, N!workVars, N!reportVars
<1>2. N!TypeOK'
  BY DEF N!NoticeInv, N!TypeOK, N!FindOpen, N!desktopVars, N!noteVars, N!workVars, N!reportVars
<1>3. N!CenterIsKept'
  BY DEF N!NoticeInv, N!TypeOK, N!CenterIsKept, N!Working, N!FindOpen, N!Allowed, N!desktopVars
<1>4. N!WorkIsKept' /\ N!TouchesOnlyTheMeant'
  BY DEF N!NoticeInv, N!WorkIsKept, N!TouchesOnlyTheMeant, N!FindOpen, N!workVars, N!reportVars
<1> QED
  BY <1>1, <1>2, <1>3, <1>4 DEF N!NoticeInv

\* What is refused has changed nothing.
LEMMA RefuseHeadlessIsKept ==
  ASSUME N!NoticeInv, N!RefuseHeadless
  PROVE  N!NoticeInv'
<1>1. N!CountIsKept' /\ N!DismissalsAreReal'
  BY CountsAreLeft DEF N!RefuseHeadless, N!desktopVars, N!noteVars, N!workVars, N!reportVars
<1>2. N!TypeOK'
  BY DEF N!NoticeInv, N!TypeOK, N!RefuseHeadless, N!desktopVars, N!noteVars, N!workVars, N!reportVars
<1>3. N!CenterIsKept'
  BY DEF N!NoticeInv, N!TypeOK, N!CenterIsKept, N!Working, N!RefuseHeadless, N!Allowed, N!desktopVars
<1>4. N!WorkIsKept' /\ N!TouchesOnlyTheMeant'
  BY DEF N!NoticeInv, N!WorkIsKept, N!TouchesOnlyTheMeant, N!RefuseHeadless, N!workVars, N!reportVars
<1> QED
  BY <1>1, <1>2, <1>3, <1>4 DEF N!NoticeInv

\* Nor has what fails before it begins.
LEMMA OpenFailsIsKept ==
  ASSUME N!NoticeInv, N!OpenFails
  PROVE  N!NoticeInv'
<1>1. N!CountIsKept' /\ N!DismissalsAreReal'
  BY CountsAreLeft DEF N!OpenFails, N!desktopVars, N!noteVars, N!workVars, N!reportVars
<1>2. N!TypeOK'
  BY DEF N!NoticeInv, N!TypeOK, N!OpenFails, N!desktopVars, N!noteVars, N!workVars, N!reportVars
<1>3. N!CenterIsKept'
  BY DEF N!NoticeInv, N!TypeOK, N!CenterIsKept, N!Working, N!OpenFails, N!Allowed, N!desktopVars
<1>4. N!WorkIsKept' /\ N!TouchesOnlyTheMeant'
  BY DEF N!NoticeInv, N!WorkIsKept, N!TouchesOnlyTheMeant, N!OpenFails, N!workVars, N!reportVars
<1> QED
  BY <1>1, <1>2, <1>3, <1>4 DEF N!NoticeInv

\* Before the center is opened it is noted what is to be put back.
LEMMA PrepareIsKept ==
  ASSUME N!NoticeInv, N!Prepare
  PROVE  N!NoticeInv'
<1>1. N!CountIsKept' /\ N!DismissalsAreReal'
  BY CountsAreLeft DEF N!Prepare, N!desktopVars, N!noteVars, N!workVars, N!reportVars
<1>2. N!TypeOK'
  BY DEF N!NoticeInv, N!TypeOK, N!Prepare, N!desktopVars, N!noteVars, N!workVars, N!reportVars
<1>3. N!CenterIsKept'
  BY DEF N!NoticeInv, N!TypeOK, N!CenterIsKept, N!Working, N!Prepare, N!Allowed, N!desktopVars
<1>4. N!WorkIsKept' /\ N!TouchesOnlyTheMeant'
  BY DEF N!NoticeInv, N!WorkIsKept, N!TouchesOnlyTheMeant, N!Prepare, N!workVars, N!reportVars
<1> QED
  BY <1>1, <1>2, <1>3, <1>4 DEF N!NoticeInv

\* The click opens a center that is closed.
LEMMA ClickClockIsKept ==
  ASSUME N!NoticeInv, N!ClickClock
  PROVE  N!NoticeInv'
<1>1. N!CountIsKept' /\ N!DismissalsAreReal'
  BY CountsAreLeft DEF N!ClickClock, N!Leave, N!desktopVars, N!noteVars, N!workVars, N!reportVars
<1>2. N!TypeOK'
  BY DEF N!NoticeInv, N!TypeOK, N!ClickClock, N!Leave, N!desktopVars, N!noteVars, N!workVars, N!reportVars
<1>3. N!CenterIsKept'
  BY DEF N!NoticeInv, N!TypeOK, N!CenterIsKept, N!Working, N!ClickClock, N!Leave, N!Allowed, N!desktopVars
<1>4. N!WorkIsKept' /\ N!TouchesOnlyTheMeant'
  BY DEF N!NoticeInv, N!WorkIsKept, N!TouchesOnlyTheMeant, N!ClickClock, N!Leave, N!workVars, N!reportVars
<1> QED
  BY <1>1, <1>2, <1>3, <1>4 DEF N!NoticeInv

\* The center comes up only after the click.
LEMMA CenterAppearsIsKept ==
  ASSUME N!NoticeInv, N!CenterAppears
  PROVE  N!NoticeInv'
<1>1. N!CountIsKept' /\ N!DismissalsAreReal'
  BY CountsAreLeft DEF N!CenterAppears, N!desktopVars, N!noteVars, N!workVars, N!reportVars
<1>2. N!TypeOK'
  BY DEF N!NoticeInv, N!TypeOK, N!CenterAppears, N!desktopVars, N!noteVars, N!workVars, N!reportVars
<1>3. N!CenterIsKept'
  BY DEF N!NoticeInv, N!TypeOK, N!CenterIsKept, N!Working, N!CenterAppears, N!Allowed, N!desktopVars
<1>4. N!WorkIsKept' /\ N!TouchesOnlyTheMeant'
  BY DEF N!NoticeInv, N!WorkIsKept, N!TouchesOnlyTheMeant, N!CenterAppears, N!workVars, N!reportVars
<1> QED
  BY <1>1, <1>2, <1>3, <1>4 DEF N!NoticeInv

\* The command works only with a center that is open.
LEMMA AwaitReadyIsKept ==
  ASSUME N!NoticeInv, N!AwaitReady
  PROVE  N!NoticeInv'
<1>1. N!CountIsKept' /\ N!DismissalsAreReal'
  BY CountsAreLeft DEF N!AwaitReady, N!Leave, N!desktopVars, N!noteVars, N!workVars, N!reportVars
<1>2. N!TypeOK'
  BY DEF N!NoticeInv, N!TypeOK, N!AwaitReady, N!Leave, N!desktopVars, N!noteVars, N!workVars, N!reportVars
<1>3. N!CenterIsKept'
  BY DEF N!NoticeInv, N!TypeOK, N!CenterIsKept, N!Working, N!AwaitReady, N!Leave, N!Allowed, N!desktopVars
<1>4. N!WorkIsKept' /\ N!TouchesOnlyTheMeant'
  BY DEF N!NoticeInv, N!WorkIsKept, N!TouchesOnlyTheMeant, N!AwaitReady, N!Leave, N!workVars, N!reportVars
<1> QED
  BY <1>1, <1>2, <1>3, <1>4 DEF N!NoticeInv

\* The application comes back, or that is still to be done.
LEMMA RestoreFocusIsKept ==
  ASSUME N!NoticeInv, N!RestoreFocus
  PROVE  N!NoticeInv'
<1>1. N!CountIsKept' /\ N!DismissalsAreReal'
  BY CountsAreLeft DEF N!RestoreFocus, N!desktopVars, N!noteVars, N!workVars, N!reportVars
<1>2. N!TypeOK'
  BY DEF N!NoticeInv, N!TypeOK, N!RestoreFocus, N!desktopVars, N!noteVars, N!workVars, N!reportVars
<1>3. N!CenterIsKept'
  BY DEF N!NoticeInv, N!TypeOK, N!CenterIsKept, N!Working, N!RestoreFocus, N!Allowed, N!desktopVars
<1>4. N!WorkIsKept' /\ N!TouchesOnlyTheMeant'
  BY DEF N!NoticeInv, N!WorkIsKept, N!TouchesOnlyTheMeant, N!RestoreFocus, N!workVars, N!reportVars
<1> QED
  BY <1>1, <1>2, <1>3, <1>4 DEF N!NoticeInv

\* Success is reported only when nothing is left to be undone.
LEMMA FinishIsKept ==
  ASSUME N!NoticeInv, N!Finish
  PROVE  N!NoticeInv'
<1>1. N!CountIsKept' /\ N!DismissalsAreReal'
  BY CountsAreLeft DEF N!Finish, N!desktopVars, N!noteVars, N!workVars, N!reportVars
<1>2. N!TypeOK'
  <2>1. session \in [close : BOOLEAN, restore : BOOLEAN, attempts : 0 .. 1, error : BOOLEAN]
    BY DEF N!NoticeInv, N!TypeOK
  <2>2. CASE session' = session
    BY <2>1, <2>2 DEF N!NoticeInv, N!TypeOK, N!Finish, N!desktopVars, N!noteVars, N!workVars, N!reportVars
  <2>3. CASE session' = [session EXCEPT !.attempts = 1, !.error = FALSE] /\ phase' = "closing"
             /\ UNCHANGED outcome
    <3> DEFINE once == [session EXCEPT !.attempts = 1]
    <3>a. once \in [close : BOOLEAN, restore : BOOLEAN, attempts : 0 .. 1, error : BOOLEAN]
      BY <2>1
    <3>b. session' = [once EXCEPT !.error = FALSE]
      BY <2>1, <2>3
    <3>1. session' \in [close : BOOLEAN, restore : BOOLEAN, attempts : 0 .. 1, error : BOOLEAN]
      <4> HIDE DEF once
      <4> QED
        BY <3>a, <3>b
    <3> QED
      BY <2>3, <3>1 DEF N!NoticeInv, N!TypeOK, N!Finish, N!desktopVars, N!noteVars, N!workVars,
                        N!reportVars
  <2> QED
    BY <2>2, <2>3 DEF N!Finish
<1>3. N!CenterIsKept'
  BY DEF N!NoticeInv, N!TypeOK, N!CenterIsKept, N!Working, N!Finish, N!Allowed, N!desktopVars
<1>4. N!WorkIsKept' /\ N!TouchesOnlyTheMeant'
  BY DEF N!NoticeInv, N!WorkIsKept, N!TouchesOnlyTheMeant, N!Finish, N!workVars, N!reportVars
<1> QED
  BY <1>1, <1>2, <1>3, <1>4 DEF N!NoticeInv

\* A failure promises nothing of the operation.
LEMMA FailIsKept ==
  ASSUME N!NoticeInv, N!Fail
  PROVE  N!NoticeInv'
<1>1. N!CountIsKept' /\ N!DismissalsAreReal'
  BY CountsAreLeft DEF N!Fail, N!Leave, N!desktopVars, N!noteVars, N!workVars, N!reportVars
<1>2. N!TypeOK'
  BY DEF N!NoticeInv, N!TypeOK, N!Fail, N!Leave, N!desktopVars, N!noteVars, N!workVars, N!reportVars
<1>3. N!CenterIsKept'
  BY DEF N!NoticeInv, N!TypeOK, N!CenterIsKept, N!Working, N!Fail, N!Leave, N!Allowed, N!desktopVars
<1>4. N!WorkIsKept' /\ N!TouchesOnlyTheMeant'
  BY DEF N!NoticeInv, N!WorkIsKept, N!TouchesOnlyTheMeant, N!Fail, N!Leave, N!workVars, N!reportVars
<1> QED
  BY <1>1, <1>2, <1>3, <1>4 DEF N!NoticeInv

\* The one notification that is acted upon is the one that was listed.
LEMMA PressActionIsKept ==
  ASSUME N!NoticeInv, N!PressAction
  PROVE  N!NoticeInv'
<1>1. N!CountIsKept' /\ N!DismissalsAreReal'
  BY CountsAreLeft DEF N!PressAction, N!Leave, N!desktopVars, N!noteVars, N!workVars, N!reportVars
<1>2. N!TypeOK'
  <2>1. queue \in Seq(1 .. arrived) /\ queue # <<>>
    BY DEF N!NoticeInv, N!TypeOK, N!WorkIsKept, N!PressAction
  <2>2. Head(queue) \in 1 .. arrived
    BY <2>1, HeadTailProperties
  <2> QED
    BY <2>2 DEF N!NoticeInv, N!TypeOK, N!PressAction, N!Leave, N!desktopVars, N!noteVars, N!workVars, N!reportVars
<1>3. N!CenterIsKept'
  BY DEF N!NoticeInv, N!TypeOK, N!CenterIsKept, N!Working, N!PressAction, N!Leave, N!Allowed, N!desktopVars
<1>4. N!WorkIsKept' /\ N!TouchesOnlyTheMeant'
  <2>1. touched' = {Head(queue)} /\ N!Kind(Head(queue)) = request.kind /\ request.op = "action"
    BY DEF N!NoticeInv, N!WorkIsKept, N!PressAction
  <2>2. N!Cardinality(touched') = 1 /\ N!Kind(Head(queue))' = N!Kind(Head(queue))
    BY <2>1, FS_Singleton, NoticeCounts DEF N!PressAction, N!workVars, N!Kind
  <2> QED
    BY <2>1, <2>2 DEF N!NoticeInv, N!WorkIsKept, N!TouchesOnlyTheMeant, N!PressAction, N!Leave, N!workVars, N!reportVars
<1> QED
  BY <1>1, <1>2, <1>3, <1>4 DEF N!NoticeInv

\* An entry that is not there any more is left out.
LEMMA EntryGoneIsKept ==
  ASSUME N!NoticeInv, N!EntryGone
  PROVE  N!NoticeInv'
<1>1. N!CountIsKept' /\ N!DismissalsAreReal'
  BY CountsAreLeft DEF N!EntryGone, N!desktopVars, N!noteVars, N!workVars, N!reportVars
<1>2. N!TypeOK'
  BY DEF N!NoticeInv, N!TypeOK, N!EntryGone, N!desktopVars, N!noteVars, N!workVars, N!reportVars
<1>3. N!CenterIsKept'
  BY DEF N!NoticeInv, N!TypeOK, N!CenterIsKept, N!Working, N!EntryGone, N!Allowed, N!desktopVars
<1>4. N!WorkIsKept' /\ N!TouchesOnlyTheMeant'
  BY DEF N!NoticeInv, N!WorkIsKept, N!TouchesOnlyTheMeant, N!EntryGone, N!workVars, N!reportVars
<1> QED
  BY <1>1, <1>2, <1>3, <1>4 DEF N!NoticeInv

\* With the queue empty the command is done.
LEMMA AllDoneIsKept ==
  ASSUME N!NoticeInv, N!AllDone
  PROVE  N!NoticeInv'
<1>1. N!CountIsKept' /\ N!DismissalsAreReal'
  BY CountsAreLeft DEF N!AllDone, N!Leave, N!desktopVars, N!noteVars, N!workVars, N!reportVars
<1>2. N!TypeOK'
  BY DEF N!NoticeInv, N!TypeOK, N!AllDone, N!Leave, N!desktopVars, N!noteVars, N!workVars, N!reportVars
<1>3. N!CenterIsKept'
  BY DEF N!NoticeInv, N!TypeOK, N!CenterIsKept, N!Working, N!AllDone, N!Leave, N!Allowed, N!desktopVars
<1>4. N!WorkIsKept' /\ N!TouchesOnlyTheMeant'
  BY DEF N!NoticeInv, N!WorkIsKept, N!TouchesOnlyTheMeant, N!AllDone, N!Leave, N!workVars, N!reportVars
<1> QED
  BY <1>1, <1>2, <1>3, <1>4 DEF N!NoticeInv

\* A strategy touches the target alone.
LEMMA TryStrategyIsKept ==
  ASSUME N!NoticeInv, N!TryStrategy
  PROVE  N!NoticeInv'
<1>1. N!CountIsKept' /\ N!DismissalsAreReal'
  BY CountsAreLeft DEF N!TryStrategy, N!desktopVars, N!noteVars, N!workVars, N!reportVars
<1>2. N!TypeOK'
  <2>1. target \in 1 .. arrived
    BY DEF N!NoticeInv, N!TypeOK, N!WorkIsKept, N!TryStrategy
  <2> QED
    BY <2>1 DEF N!NoticeInv, N!TypeOK, N!TryStrategy, N!desktopVars, N!noteVars, N!workVars, N!reportVars
<1>3. N!CenterIsKept'
  BY DEF N!NoticeInv, N!TypeOK, N!CenterIsKept, N!Working, N!TryStrategy, N!Allowed, N!desktopVars
<1>4. N!WorkIsKept' /\ N!TouchesOnlyTheMeant'
  <2>1. /\ request.op \in {"dismiss", "dismiss_all"} /\ N!Kind(target) = N!Kind(Head(queue))
        /\ request.op = "dismiss" => touched' = {target} /\ N!Kind(Head(queue)) = request.kind
    BY DEF N!NoticeInv, N!WorkIsKept, N!TryStrategy
  <2>2. N!Cardinality({target}) = 1
    BY FS_Singleton, NoticeCounts
  <2>3. N!WorkIsKept'
    BY <2>1 DEF N!NoticeInv, N!WorkIsKept, N!Kind, N!TryStrategy, N!workVars
  <2>4. N!TouchesOnlyTheMeant'
    BY <2>1, <2>2 DEF N!NoticeInv, N!TouchesOnlyTheMeant, N!Kind, N!TryStrategy, N!workVars
  <2> QED
    BY <2>3, <2>4
<1> QED
  BY <1>1, <1>2, <1>3, <1>4 DEF N!NoticeInv

\* Another strategy is for the same target.
LEMMA TryAnotherIsKept ==
  ASSUME N!NoticeInv, N!TryAnother
  PROVE  N!NoticeInv'
<1>1. N!CountIsKept' /\ N!DismissalsAreReal'
  BY CountsAreLeft DEF N!TryAnother, N!desktopVars, N!noteVars, N!workVars, N!reportVars
<1>2. N!TypeOK'
  BY NotesAssumption DEF N!NoticeInv, N!TypeOK, N!TryAnother, N!desktopVars, N!noteVars, N!workVars, N!reportVars
<1>3. N!CenterIsKept'
  BY DEF N!NoticeInv, N!TypeOK, N!CenterIsKept, N!Working, N!TryAnother, N!Allowed, N!desktopVars
<1>4. N!WorkIsKept' /\ N!TouchesOnlyTheMeant'
  BY DEF N!NoticeInv, N!WorkIsKept, N!TouchesOnlyTheMeant, N!TryAnother, N!workVars, N!reportVars
<1> QED
  BY <1>1, <1>2, <1>3, <1>4 DEF N!NoticeInv

\* With the notifications forgotten nothing is counted any more.
LEMMA CloseCenterIsKept ==
  ASSUME N!NoticeInv, N!CloseCenter
  PROVE  N!NoticeInv'
<1>1. /\ phase' = "restoring" /\ notes' = <<>> /\ arrived' = 0 /\ dismissed' = {} /\ touched' = {}
      /\ queue' = <<>> /\ target' = 0 /\ before' = 0 /\ strategy' = 0
  BY DEF N!CloseCenter, N!ForgetNotes
<1>2. /\ session' \in [close : BOOLEAN, restore : BOOLEAN, attempts : 0 .. 1, error : BOOLEAN]
      /\ center' \in {"closed", "opening", "open"} /\ front' = front
  BY DEF N!NoticeInv, N!TypeOK, N!CloseCenter, N!desktopVars
<1>3. N!TypeOK'
  <2>1. (<<>> \in Seq(1 .. 0)) /\ 0 \in 0 .. MaxNotes /\ 0 \in 0 .. Strategies
    BY NotesAssumption
  <2>2. hindered' \in BOOLEAN
    BY Zenon DEF N!NoticeInv, N!TypeOK, N!CloseCenter, N!desktopVars
  <2> QED
    BY <1>1, <1>2, <2>1, <2>2 DEF N!NoticeInv, N!TypeOK, N!CloseCenter
<1>4. N!CenterIsKept'
  BY DEF N!NoticeInv, N!TypeOK, N!CenterIsKept, N!Working, N!CloseCenter, N!desktopVars
<1>5. N!CountIsKept'
  BY <1>1 DEF N!CountIsKept
<1>6. N!DismissalsAreReal'
  <2>1. \A k : {n \in {} : N!Kind(n) = k} = {}
    OBVIOUS
  <2>2. IsFiniteSet(1 .. 0)
    BY FS_Interval
  <2>3. \A k : N!Count({}, k) <= N!Count((1 .. 0) \ N!ToSet(<<>>), k)
    <3>1. IsFiniteSet((1 .. 0) \ N!ToSet(<<>>))
      BY <2>2, FS_Subset
    <3> QED
      BY <3>1, CountGrows
  <2>4. \A k : N!Count(dismissed, k)' = N!Count({}, k)
    BY <1>1 DEF N!Count, N!Kind
  <2>5. \A k : N!Count((1 .. arrived) \ N!ToSet(notes), k)' = N!Count((1 .. 0) \ N!ToSet(<<>>), k)
    BY <1>1 DEF N!Count, N!Kind, N!ToSet
  <2> QED
    BY <2>3, <2>4, <2>5 DEF N!DismissalsAreReal
<1>7. N!WorkIsKept' /\ N!TouchesOnlyTheMeant'
  <2>1. N!Cardinality({}) = 0
    BY NoticeCounts, FS_EmptySet
  <2> QED
    BY <1>1, <2>1 DEF N!NoticeInv, N!WorkIsKept, N!TouchesOnlyTheMeant
<1> QED
  BY <1>3, <1>4, <1>5, <1>6, <1>7 DEF N!NoticeInv

\* Somebody who meddles only takes promises away.
LEMMA MeddleIsKept ==
  ASSUME N!NoticeInv, N!Meddle
  PROVE  N!NoticeInv'
<1>1. N!CountIsKept' /\ N!DismissalsAreReal'
  BY CountsAreLeft DEF N!Meddle, N!noteVars, N!workVars, N!reportVars
<1>2. N!TypeOK'
  BY DEF N!NoticeInv, N!TypeOK, N!Meddle, N!noteVars, N!workVars, N!reportVars
<1>3. N!CenterIsKept'
  BY DEF N!NoticeInv, N!CenterIsKept, N!Meddle
<1>4. N!WorkIsKept' /\ N!TouchesOnlyTheMeant'
  BY DEF N!NoticeInv, N!WorkIsKept, N!TouchesOnlyTheMeant, N!Meddle, N!workVars, N!reportVars
<1> QED
  BY <1>1, <1>2, <1>3, <1>4 DEF N!NoticeInv

\* What is given up is not reported.
LEMMA GiveUpEntryIsKept ==
  ASSUME N!NoticeInv, N!GiveUpEntry
  PROVE  N!NoticeInv'
<1>1. \/ phase' = "next" /\ UNCHANGED outcome
      \/ phase' = "closing" /\ outcome' = "error"
  BY DEF N!GiveUpEntry, N!Release, N!Leave
<1>2. N!CountIsKept' /\ N!DismissalsAreReal'
  BY <1>1, CountsAreLeft DEF N!GiveUpEntry, N!desktopVars, N!noteVars
<1>3. N!TypeOK'
  <2>1. queue \in Seq(1 .. arrived) /\ queue # <<>>
    BY DEF N!NoticeInv, N!TypeOK, N!WorkIsKept, N!GiveUpEntry
  <2>2. queue' \in Seq(1 .. arrived)
    BY <2>1, HeadTailProperties DEF N!GiveUpEntry, N!Release
  <2> QED
    BY <1>1, <2>2, NotesAssumption
    DEF N!NoticeInv, N!TypeOK, N!GiveUpEntry, N!Release, N!desktopVars, N!noteVars
<1>4. N!CenterIsKept'
  BY <1>1 DEF N!NoticeInv, N!TypeOK, N!CenterIsKept, N!Working, N!GiveUpEntry, N!desktopVars
<1>5. N!WorkIsKept' /\ N!TouchesOnlyTheMeant'
  BY <1>1 DEF N!NoticeInv, N!WorkIsKept, N!TouchesOnlyTheMeant, N!GiveUpEntry, N!Release, N!Leave
<1> QED
  BY <1>2, <1>3, <1>4, <1>5 DEF N!NoticeInv

\* Another component may take a step.
LEMMA StutterIsKept ==
  ASSUME N!NoticeInv, UNCHANGED N!vars
  PROVE  N!NoticeInv'
<1>1. N!CountIsKept' /\ N!DismissalsAreReal'
  BY CountsAreLeft DEF N!vars, N!desktopVars, N!noteVars, N!workVars, N!reportVars
<1>2. N!TypeOK'
  BY DEF N!NoticeInv, N!TypeOK, N!vars, N!desktopVars, N!noteVars, N!workVars, N!reportVars
<1>3. N!CenterIsKept'
  BY DEF N!NoticeInv, N!CenterIsKept, N!vars, N!desktopVars
<1>4. N!WorkIsKept' /\ N!TouchesOnlyTheMeant'
  BY DEF N!NoticeInv, N!WorkIsKept, N!TouchesOnlyTheMeant, N!vars, N!workVars, N!reportVars
<1> QED
  BY <1>1, <1>2, <1>3, <1>4 DEF N!NoticeInv

\* There are no more that look alike than notifications.
LEMMA AlikeIsBounded ==
  ASSUME N!NoticeInv, NEW n
  PROVE  N!Alike(N!Shown, n) \in 0 .. MaxNotes
<1>1. /\ arrived \in 0 .. MaxNotes /\ notes \in Seq(1 .. arrived)
      /\ \A i, j \in DOMAIN notes : i # j => notes[i] # notes[j]
  BY DEF N!NoticeInv, N!TypeOK, N!CountIsKept
<1>2. CASE center = "open"
  <2>1. N!Alike(N!Shown, n) = N!Count(N!ToSet(notes), N!Kind(n))
    BY <1>1, <1>2, AlikeCounts DEF N!Shown
  <2>2. IsFiniteSet(1 .. arrived) /\ Cardinality(1 .. arrived) = arrived
    BY <1>1, FS_Interval, NotesAssumption
  <2>3. {m \in N!ToSet(notes) : N!Kind(m) = N!Kind(n)} \in SUBSET (1 .. arrived)
    BY <1>1 DEF N!ToSet
  <2>4. N!Count(N!ToSet(notes), N!Kind(n)) \in Nat /\ N!Count(N!ToSet(notes), N!Kind(n)) <= arrived
    BY <2>2, <2>3, FS_Subset, FS_CardinalityType, NoticeCounts DEF N!Count
  <2> QED
    BY <1>1, <2>1, <2>4, NotesAssumption
<1>3. CASE center # "open"
  <2>1. {i \in DOMAIN N!Shown : N!Kind(N!Shown[i]) = N!Kind(n)} = {}
    BY <1>3 DEF N!Shown
  <2> QED
    BY <2>1, FS_EmptySet, NoticeCounts, NotesAssumption DEF N!Alike
<1> QED
  BY <1>2, <1>3

\* While nobody hinders it, what is reported as dismissed is not counted any more.
LEMMA AlikeIsApart ==
  ASSUME N!NoticeInv, ~ hindered, center = "open", NEW n \in Nat
  PROVE  N!Count(dismissed, N!Kind(n)) + N!Alike(N!Shown, n) <= N!Count(1 .. arrived, N!Kind(n))
<1> DEFINE k == N!Kind(n)
<1> DEFINE gone == (1 .. arrived) \ N!ToSet(notes)
<1>1. /\ arrived \in Nat /\ notes \in Seq(1 .. arrived) /\ dismissed \subseteq 1 .. arrived
      /\ \A i, j \in DOMAIN notes : i # j => notes[i] # notes[j]
  BY NotesAssumption DEF N!NoticeInv, N!TypeOK, N!CountIsKept
<1>2. N!Alike(N!Shown, n) = N!Count(N!ToSet(notes), k)
  BY <1>1, AlikeCounts DEF N!Shown
<1>3. N!Count(dismissed, k) <= N!Count(gone, k)
  <2>1. k \in {0, 1}
    BY DEF N!Kind
  <2> QED
    BY <2>1 DEF N!NoticeInv, N!DismissalsAreReal
<1>4. IsFiniteSet(1 .. arrived) /\ N!ToSet(notes) \in SUBSET (1 .. arrived)
  BY <1>1, FS_Interval DEF N!ToSet
<1>5. N!Count(1 .. arrived, k) = N!Count(N!ToSet(notes), k) + N!Count(gone, k)
  <2> HIDE DEF k
  <2>1. \A j : N!Count(1 .. arrived, j) = N!Count(N!ToSet(notes), j) + N!Count((1 .. arrived) \ N!ToSet(notes), j)
    BY <1>4, CountSplits
  <2> QED
    BY <2>1
<1>6. /\ N!Count(dismissed, k) \in Nat /\ N!Count(N!ToSet(notes), k) \in Nat /\ N!Count(gone, k) \in Nat
  BY <1>1, <1>4, CountGrows
<1> QED
  BY <1>2, <1>3, <1>5, <1>6

\* Taking up an entry counts again.
LEMMA ChosenIsCounted ==
  ASSUME N!NoticeInv, center = "open", UNCHANGED <<hindered, notes, arrived, dismissed>>,
         NEW one \in 1 .. arrived,
         target' = one, before' = N!Alike(N!Shown, one)
  PROVE  N!CountIsKept' /\ N!DismissalsAreReal'
<1>1. N!DismissalsAreReal'
  <2>1. \A k : N!Count((1 .. arrived) \ N!ToSet(notes), k)' = N!Count((1 .. arrived) \ N!ToSet(notes), k)
    BY DEF N!Count, N!Kind, N!ToSet
  <2>2. \A k : N!Count(dismissed, k)' = N!Count(dismissed, k)
    BY DEF N!Count, N!Kind
  <2> QED
    BY <2>1, <2>2 DEF N!NoticeInv, N!DismissalsAreReal
<1>2. N!CountIsKept'
  <2>1. ~ hindered =>
          N!Count(dismissed, N!Kind(one)) + N!Alike(N!Shown, one) <= N!Count(1 .. arrived, N!Kind(one))
    <3>1. one \in Nat
      BY NotesAssumption DEF N!NoticeInv, N!TypeOK
    <3> QED
      BY <3>1, AlikeIsApart
  <2>2. N!Count(dismissed, N!Kind(target))' = N!Count(dismissed, N!Kind(one))
    BY DEF N!Count, N!Kind
  <2>3. N!Count(1 .. arrived, N!Kind(target))' = N!Count(1 .. arrived, N!Kind(one))
    BY DEF N!Count, N!Kind
  <2> QED
    BY <2>1, <2>2, <2>3 DEF N!NoticeInv, N!CountIsKept
<1> QED
  BY <1>1, <1>2

\* The entry that is taken up was listed, and is of the kind that was meant.
LEMMA ListIsKept ==
  ASSUME N!NoticeInv, N!List
  PROVE  N!NoticeInv'
<1> USE DEF N!desktopVars, N!noteVars, N!reportVars
<1>1. /\ N!TypeOK /\ N!CenterIsKept /\ N!WorkIsKept /\ N!TouchesOnlyTheMeant
      /\ phase = "listing" /\ touched = {} /\ dismissed = {}
      /\ UNCHANGED <<request, session, found, N!desktopVars, N!noteVars, N!reportVars>>
  BY DEF N!NoticeInv, N!WorkIsKept, N!List
<1>2. CASE request.op = "list" /\ N!Leave("ok") /\ UNCHANGED <<queue, target, before, strategy>>
  <2>1. N!CountIsKept' /\ N!DismissalsAreReal'
    BY <1>1, <1>2, CountsAreLeft DEF N!Leave
  <2>2. N!TypeOK'
    BY <1>1, <1>2 DEF N!TypeOK, N!Leave
  <2>3. N!CenterIsKept'
    BY <1>1, <1>2 DEF N!TypeOK, N!CenterIsKept, N!Working, N!Leave
  <2>4. N!WorkIsKept' /\ N!TouchesOnlyTheMeant'
    BY <1>1, <1>2 DEF N!WorkIsKept, N!TouchesOnlyTheMeant, N!Leave
  <2> QED
    BY <2>1, <2>2, <2>3, <2>4 DEF N!NoticeInv
<1>3. CASE /\ request.op = "dismiss_all" /\ phase' = "next" /\ queue' = N!Reverse(N!Shown)
           /\ UNCHANGED <<outcome, target, before, strategy>>
  <2>1. N!CountIsKept' /\ N!DismissalsAreReal'
    BY <1>1, <1>3, CountsAreLeft
  <2>2. queue' \in Seq(1 .. arrived)
    BY <1>1, <1>3 DEF N!TypeOK, N!Shown, N!Reverse
  <2>3. N!TypeOK'
    BY <1>1, <1>3, <2>2 DEF N!TypeOK
  <2>4. N!CenterIsKept'
    BY <1>1, <1>3 DEF N!TypeOK, N!CenterIsKept, N!Working
  <2>5. N!WorkIsKept' /\ N!TouchesOnlyTheMeant'
    BY <1>1, <1>3 DEF N!WorkIsKept, N!TouchesOnlyTheMeant
  <2> QED
    BY <2>1, <2>3, <2>4, <2>5 DEF N!NoticeInv
<1>4. ASSUME /\ request.op \in {"dismiss", "action"}
             /\ request.index \in DOMAIN N!Shown
             /\ N!Kind(N!Shown[request.index]) = request.kind
             /\ queue' = <<N!Shown[request.index]>>
             /\ UNCHANGED outcome
      PROVE  /\ center = "open" /\ N!Shown[request.index] \in 1 .. arrived
             /\ queue' \in Seq(1 .. arrived) /\ queue' # <<>>
             /\ Head(queue') = N!Shown[request.index] /\ N!Kind(Head(queue')) = request.kind
  <2>1. center = "open" /\ N!Shown = notes
    BY <1>4 DEF N!Shown
  <2>2. notes \in Seq(1 .. arrived)
    BY <1>1 DEF N!TypeOK
  <2>3. N!Shown[request.index] \in 1 .. arrived
    <3>1. request.index \in DOMAIN notes /\ DOMAIN notes = 1 .. Len(notes)
      BY <1>4, <2>1, <2>2
    <3>2. notes[request.index] \in 1 .. arrived
      BY <2>2, <3>1, ElementOfSeq
    <3> QED
      BY <2>1, <3>2
  <2> HIDE DEF N!Shown
  <2>4. Head(queue') = N!Shown[request.index]
    BY <1>4
  <2>5. queue' \in Seq(1 .. arrived) /\ queue' # <<>>
    BY <1>4, <2>3
  <2> QED
    BY <1>4, <2>1, <2>3, <2>4, <2>5 DEF N!Kind
<1>5. CASE /\ request.op = "action"
           /\ request.index \in DOMAIN N!Shown
           /\ N!Kind(N!Shown[request.index]) = request.kind
           /\ queue' = <<N!Shown[request.index]>>
           /\ phase' = "pressing" /\ UNCHANGED <<outcome, target, before, strategy>>
  <2>1. N!CountIsKept' /\ N!DismissalsAreReal'
    BY <1>1, <1>5, CountsAreLeft
  <2>2. N!TypeOK'
    BY <1>1, <1>4, <1>5 DEF N!TypeOK
  <2>3. N!CenterIsKept'
    BY <1>1, <1>5 DEF N!TypeOK, N!CenterIsKept, N!Working
  <2>4. N!WorkIsKept' /\ N!TouchesOnlyTheMeant'
    BY <1>1, <1>4, <1>5 DEF N!WorkIsKept, N!TouchesOnlyTheMeant
  <2> QED
    BY <2>1, <2>2, <2>3, <2>4 DEF N!NoticeInv
<1>6. CASE /\ request.op = "dismiss"
           /\ request.index \in DOMAIN N!Shown
           /\ N!Kind(N!Shown[request.index]) = request.kind
           /\ queue' = <<N!Shown[request.index]>>
           /\ phase' = "acting" /\ UNCHANGED outcome /\ N!Choose(Head(queue'))
  <2> DEFINE one == N!Shown[request.index]
  <2>1. center = "open" /\ one \in 1 .. arrived /\ one \in Nat /\ Head(queue') = one
    BY <1>1, <1>4, <1>6 DEF N!TypeOK
  <2>2. target' = one /\ before' = N!Alike(N!Shown, one) /\ strategy' = 1
    BY <1>6, <2>1 DEF N!Choose
  <2>3. N!TypeOK'
    <3>1. before' \in 0 .. MaxNotes /\ strategy' \in 0 .. Strategies
      BY <2>2, AlikeIsBounded, NotesAssumption
    <3> QED
      BY <1>1, <1>4, <1>6, <2>1, <2>2, <3>1 DEF N!TypeOK
  <2>4. N!CenterIsKept'
    BY <1>1, <1>6 DEF N!TypeOK, N!CenterIsKept, N!Working
  <2>5. N!WorkIsKept' /\ N!TouchesOnlyTheMeant'
    <3>1. target' # 0 /\ target' = Head(queue')
      BY <2>1, <2>2
    <3> QED
      BY <1>1, <1>4, <1>6, <3>1 DEF N!WorkIsKept, N!TouchesOnlyTheMeant, N!Kind
  <2>6. N!CountIsKept' /\ N!DismissalsAreReal'
    BY <1>1, <1>6, <2>1, <2>2, ChosenIsCounted
  <2> QED
    BY <2>3, <2>4, <2>5, <2>6 DEF N!NoticeInv
<1> QED
  BY <1>2, <1>3, <1>5, <1>6, Zenon DEF N!List, N!Leave

\* The next entry is one that looks like the head of the queue.
LEMMA NextEntryIsKept ==
  ASSUME N!NoticeInv, N!NextEntry
  PROVE  N!NoticeInv'
<1> USE DEF N!desktopVars, N!noteVars, N!reportVars
<1>1. /\ N!TypeOK /\ N!CenterIsKept /\ N!WorkIsKept /\ N!TouchesOnlyTheMeant
      /\ phase = "next" /\ phase' = "acting" /\ queue # <<>>
      /\ UNCHANGED <<request, outcome, session, found, N!desktopVars, N!noteVars, queue, N!reportVars>>
  BY DEF N!NoticeInv, N!NextEntry
<1>2. PICK i \in DOMAIN N!Shown : N!FirstLike(Head(queue), i) /\ N!Choose(N!Shown[i])
  BY DEF N!NextEntry
<1> DEFINE one == N!Shown[i]
<1>3. center = "open" /\ N!Shown = notes
  BY <1>2 DEF N!Shown
<1>4. one \in 1 .. arrived /\ one \in Nat
  <2>1. notes \in Seq(1 .. arrived) /\ arrived \in Nat
    BY <1>1, NotesAssumption DEF N!TypeOK
  <2>2. i \in 1 .. Len(notes)
    BY <1>2, <1>3, <2>1
  <2>3. notes[i] \in 1 .. arrived
    BY <2>1, <2>2, ElementOfSeq
  <2> QED
    BY <1>3, <2>1, <2>3
<1>5. /\ target' = one /\ before' = N!Alike(N!Shown, one) /\ strategy' = 1
      /\ N!Kind(one) = N!Kind(Head(queue))
  BY <1>2 DEF N!Choose, N!FirstLike
<1> HIDE DEF one
<1>6. N!CountIsKept' /\ N!DismissalsAreReal'
  BY <1>1, <1>3, <1>4, <1>5, ChosenIsCounted
<1>7. N!TypeOK'
  <2>1. before' \in 0 .. MaxNotes /\ strategy' \in 0 .. Strategies
    BY <1>5, AlikeIsBounded, NotesAssumption
  <2> QED
    BY <1>1, <1>4, <1>5, <2>1 DEF N!TypeOK
<1>8. N!CenterIsKept'
  BY <1>1 DEF N!TypeOK, N!CenterIsKept, N!Working
<1>9. N!WorkIsKept' /\ N!TouchesOnlyTheMeant'
  <2>1. target' # 0 /\ N!Kind(target') = N!Kind(Head(queue)) /\ request.op = "dismiss_all"
    BY <1>1, <1>4, <1>5 DEF N!WorkIsKept
  <2> QED
    BY <1>1, <2>1 DEF N!WorkIsKept, N!TouchesOnlyTheMeant, N!Kind
<1> QED
  BY <1>6, <1>7, <1>8, <1>9 DEF N!NoticeInv

\* Fewer than before look like the target, so that one more is gone than is
\* reported: the entry can be reported too.
LEMMA VerifiedIsKept ==
  ASSUME N!NoticeInv, N!Verified
  PROVE  N!NoticeInv'
<1> USE DEF N!desktopVars, N!noteVars
<1> DEFINE one == Head(queue)
<1> DEFINE gone == (1 .. arrived) \ N!ToSet(notes)
<1>1. /\ N!TypeOK /\ N!CenterIsKept /\ N!WorkIsKept /\ N!CountIsKept /\ N!DismissalsAreReal
      /\ N!TouchesOnlyTheMeant
      /\ phase = "verifying" /\ N!Alike(N!Shown, target) < before
      /\ queue # <<>> /\ target # 0 /\ N!Kind(target) = N!Kind(one)
      /\ dismissed' = dismissed \cup {one}
      /\ queue' = Tail(queue) /\ target' = 0 /\ before' = 0 /\ strategy' = 0
      /\ UNCHANGED <<request, session, found, N!desktopVars, N!noteVars, touched>>
  BY DEF N!NoticeInv, N!WorkIsKept, N!Verified, N!Release
<1>2. \/ phase' = "next" /\ UNCHANGED outcome /\ request.op = "dismiss_all"
      \/ phase' = "closing" /\ outcome' \in {"ok", "error"}
  BY Zenon DEF N!Verified, N!Release, N!Leave
<1>3. /\ arrived \in Nat /\ notes \in Seq(1 .. arrived) /\ one \in 1 .. arrived
      /\ queue' \in Seq(1 .. arrived) /\ target \in Nat /\ before \in Nat
      /\ dismissed \subseteq 1 .. arrived
  <2>1. queue \in Seq(1 .. arrived) /\ queue # <<>>
    BY <1>1 DEF N!TypeOK
  <2>2. one \in 1 .. arrived /\ Tail(queue) \in Seq(1 .. arrived)
    BY <2>1, HeadTailProperties
  <2> QED
    BY <1>1, <2>2, NotesAssumption DEF N!TypeOK
<1>4. N!CountIsKept'
  BY <1>1, <1>2 DEF N!CountIsKept
<1>5. N!DismissalsAreReal'
  <2> DEFINE k == N!Kind(one)
  <2> SUFFICES ASSUME ~ hindered, NEW j \in {0, 1}
               PROVE  N!Count(dismissed \cup {one}, j) <= N!Count(gone, j)
    <3>1. \A j : N!Count(dismissed, j)' = N!Count(dismissed \cup {one}, j)
      BY <1>1 DEF N!Count, N!Kind
    <3>2. \A j : N!Count((1 .. arrived) \ N!ToSet(notes), j)' = N!Count(gone, j)
      BY <1>1 DEF N!Count, N!Kind, N!ToSet
    <3> QED
      BY <1>1, <3>1, <3>2 DEF N!DismissalsAreReal
  <2>1. IsFiniteSet(1 .. arrived) /\ IsFiniteSet(dismissed) /\ N!ToSet(notes) \in SUBSET (1 .. arrived)
    <3>1. IsFiniteSet(1 .. arrived)
      BY <1>3, FS_Interval
    <3>2. N!ToSet(notes) \in SUBSET (1 .. arrived)
      BY <1>3 DEF N!ToSet
    <3>3. IsFiniteSet(dismissed)
      BY <1>3, <3>1, FS_Subset
    <3> QED
      BY <3>1, <3>2, <3>3
  <2>2. N!Count(dismissed, j) <= N!Count(gone, j)
    BY <1>1 DEF N!DismissalsAreReal
  <2>3. CASE j # k
    BY <2>1, <2>2, <2>3, CountOneMore
  <2>4. CASE j = k
    <3>1. N!Alike(N!Shown, target) = N!Count(N!ToSet(notes), k)
      <4>1. N!Shown = notes
        BY <1>1 DEF N!CenterIsKept, N!Working, N!Shown
      <4> QED
        BY <1>1, <1>3, <4>1, AlikeCounts DEF N!CountIsKept
    <3>2. N!Count(dismissed, k) + before <= N!Count(1 .. arrived, k)
      BY <1>1 DEF N!CountIsKept
    <3>3. \A m : N!Count(1 .. arrived, m) = N!Count(N!ToSet(notes), m) + N!Count((1 .. arrived) \ N!ToSet(notes), m)
      <4> HIDE DEF k
      <4> QED
        BY <2>1, CountSplits
    <3>4. /\ N!Count(dismissed, k) \in Nat
          /\ N!Count(dismissed \cup {one}, k) \in Nat
          /\ N!Count(dismissed \cup {one}, k) <= N!Count(dismissed, k) + 1
      BY <2>1, CountOneMore
    <3>5. N!Count(N!ToSet(notes), k) \in Nat /\ N!Count(gone, k) \in Nat
      BY <2>1, CountGrows
    <3> HIDE DEF k
    <3>6. N!Count(1 .. arrived, k) = N!Count(N!ToSet(notes), k) + N!Count(gone, k)
      BY <3>3
    <3> HIDE DEF gone
    <3> QED
      BY <1>1, <1>3, <2>4, <3>1, <3>2, <3>4, <3>5, <3>6
  <2> QED
    BY <2>3, <2>4
<1>6. N!TypeOK'
  <2> HIDE DEF one
  <2>1. dismissed' \subseteq 1 .. arrived
    BY <1>1, <1>3
  <2>2. 0 \in 0 .. arrived /\ 0 \in 0 .. MaxNotes /\ 0 \in 0 .. Strategies
    BY <1>3, NotesAssumption
  <2> QED
    BY <1>1, <1>2, <1>3, <2>1, <2>2 DEF N!TypeOK
<1>7. N!CenterIsKept'
  BY <1>1, <1>2 DEF N!TypeOK, N!CenterIsKept, N!Working
<1>8. N!WorkIsKept' /\ N!TouchesOnlyTheMeant'
  BY <1>1, <1>2 DEF N!WorkIsKept, N!TouchesOnlyTheMeant
<1> QED
  BY <1>4, <1>5, <1>6, <1>7, <1>8 DEF N!NoticeInv

\* The newest notification is another one than those that are shown.
LEMMA ArriveIsKept ==
  ASSUME N!NoticeInv, N!Arrive
  PROVE  N!NoticeInv'
<1> USE DEF N!desktopVars, N!workVars, N!reportVars
<1>1. /\ N!TypeOK /\ N!CenterIsKept /\ N!WorkIsKept /\ N!CountIsKept /\ N!DismissalsAreReal
      /\ N!TouchesOnlyTheMeant
      /\ arrived < MaxNotes /\ arrived' = arrived + 1 /\ notes' = <<arrived'>> \o notes
      /\ UNCHANGED <<request, phase, outcome, session, found, N!desktopVars, N!workVars, N!reportVars>>
  BY DEF N!NoticeInv, N!Arrive
<1>2. /\ arrived \in Nat /\ notes \in Seq(1 .. arrived) /\ queue \in Seq(1 .. arrived)
      /\ 1 .. arrived \subseteq 1 .. arrived'
  BY <1>1, NotesAssumption DEF N!TypeOK
<1>3. notes \in Seq(1 .. arrived') /\ queue \in Seq(1 .. arrived')
  BY <1>2, SeqMonotonic
<1>4. /\ notes' \in Seq(1 .. arrived') /\ Len(notes') = Len(notes) + 1 /\ notes'[1] = arrived'
      /\ \A i \in 2 .. Len(notes') : i - 1 \in 1 .. Len(notes) /\ notes'[i] = notes[i - 1]
  <2>1. <<arrived'>> \in Seq(1 .. arrived') /\ Len(<<arrived'>>) = 1 /\ <<arrived'>>[1] = arrived'
    BY <1>1, <1>2
  <2> DEFINE newest == <<arrived'>>
  <2>2. notes' = newest \o notes
    BY <1>1
  <2> HIDE DEF newest
  <2>3. newest \in Seq(1 .. arrived') /\ Len(newest) = 1 /\ newest[1] = arrived'
    BY <2>1 DEF newest
  <2> QED
    <3>1. Len(notes) \in Nat
      BY <1>3, LenProperties
    <3>2. /\ notes' \in Seq(1 .. arrived') /\ Len(notes') = 1 + Len(notes)
          /\ \A i \in 1 .. 1 + Len(notes) : notes'[i] = IF i <= 1 THEN newest[i] ELSE notes[i - 1]
      <4>1. newest \in Seq(1 .. arrived') /\ notes \in Seq(1 .. arrived')
        BY <1>3, <2>3
      <4>2. /\ newest \o notes \in Seq(1 .. arrived')
            /\ Len(newest \o notes) = Len(newest) + Len(notes)
            /\ \A i \in 1 .. Len(newest) + Len(notes) :
                  (newest \o notes)[i] = IF i <= Len(newest) THEN newest[i] ELSE notes[i - Len(newest)]
        BY <4>1, ConcatProperties, Zenon
      <4> QED
        BY <2>2, <2>3, <4>2
    <3> QED
      BY <2>3, <3>1, <3>2
<1>5. \A i \in 1 .. Len(notes) : notes[i] \in 1 .. arrived /\ notes[i] # arrived'
  <2>1. \A i \in 1 .. Len(notes) : notes[i] \in 1 .. arrived
    BY <1>2, ElementOfSeq
  <2> QED
    BY <1>1, <1>2, <2>1
<1>6. (\A i, j \in DOMAIN notes : i # j => notes[i] # notes[j])'
  <2>1. DOMAIN notes = 1 .. Len(notes) /\ DOMAIN notes' = 1 .. Len(notes') /\ Len(notes) \in Nat
    BY <1>2, <1>4
  <2>2. \A i, j \in 1 .. Len(notes) : i # j => notes[i] # notes[j]
    BY <1>1, <2>1 DEF N!CountIsKept
  <2>3. SUFFICES ASSUME NEW i \in 1 .. Len(notes'), NEW j \in 1 .. Len(notes'), i # j
                 PROVE  notes'[i] # notes'[j]
    BY <2>1
  <2>4. CASE i = 1
    <3>1. j \in 2 .. Len(notes')
      BY <1>4, <2>1, <2>3, <2>4
    <3>2. notes'[i] = arrived' /\ notes'[j] # arrived'
      BY <1>4, <1>5, <2>4, <3>1
    <3> QED
      BY <3>2
  <2>5. CASE j = 1
    <3>1. i \in 2 .. Len(notes')
      BY <1>4, <2>1, <2>3, <2>5
    <3>2. notes'[j] = arrived' /\ notes'[i] # arrived'
      BY <1>4, <1>5, <2>5, <3>1
    <3> QED
      BY <3>2
  <2>6. CASE i # 1 /\ j # 1
    <3>1. i \in 2 .. Len(notes') /\ j \in 2 .. Len(notes')
      BY <1>4, <2>1, <2>6
    <3>2. /\ i - 1 \in 1 .. Len(notes) /\ notes'[i] = notes[i - 1]
          /\ j - 1 \in 1 .. Len(notes) /\ notes'[j] = notes[j - 1]
      BY <1>4, <3>1
    <3>3. i - 1 # j - 1
      BY <3>1, <2>1, <2>3
    <3> QED
      BY <2>2, <3>2, <3>3
  <2> QED
    BY <2>4, <2>5, <2>6
<1>7. ((1 .. arrived) \ N!ToSet(notes))' = (1 .. arrived) \ N!ToSet(notes)
  <2>1. N!ToSet(notes)' = N!ToSet(notes) \cup {arrived'}
    <3>1. DOMAIN notes = 1 .. Len(notes) /\ DOMAIN notes' = 1 .. Len(notes') /\ Len(notes) \in Nat
      BY <1>2, <1>4
    <3>2. ASSUME NEW i \in DOMAIN notes
          PROVE  \E j \in DOMAIN notes' : notes'[j] = notes[i]
      <4>1. i + 1 \in 2 .. Len(notes') /\ (i + 1) - 1 = i /\ i + 1 \in DOMAIN notes'
        BY <1>4, <3>1, <3>2
      <4> QED
        BY <1>4, <4>1
    <3>3. ASSUME NEW j \in DOMAIN notes'
          PROVE  notes'[j] = arrived' \/ \E i \in DOMAIN notes : notes[i] = notes'[j]
      <4>1. j = 1 \/ j \in 2 .. Len(notes')
        BY <3>1, <3>3
      <4> QED
        BY <1>4, <3>1, <4>1
    <3>4. 1 \in DOMAIN notes'
      BY <1>4, <3>1
    <3> QED
      <4>1. N!ToSet(notes)' \subseteq N!ToSet(notes) \cup {arrived'}
        BY <3>3 DEF N!ToSet
      <4>2. N!ToSet(notes) \subseteq N!ToSet(notes)'
        BY <3>2 DEF N!ToSet
      <4>3. arrived' \in N!ToSet(notes)'
        BY <1>4, <3>4 DEF N!ToSet
      <4> QED
        BY <4>1, <4>2, <4>3
  <2>2. 1 .. arrived' = (1 .. arrived) \cup {arrived'}
    BY <1>1, <1>2
  <2>3. arrived' \notin 1 .. arrived
    BY <1>1, <1>2
  <2> QED
    BY <2>1, <2>2, <2>3
<1>8. N!DismissalsAreReal'
  <2>1. \A k : N!Count((1 .. arrived) \ N!ToSet(notes), k)' = N!Count((1 .. arrived) \ N!ToSet(notes), k)
    BY <1>7 DEF N!Count, N!Kind
  <2>2. \A k : N!Count(dismissed, k)' = N!Count(dismissed, k)
    BY <1>1 DEF N!Count, N!Kind
  <2> QED
    BY <1>1, <2>1, <2>2 DEF N!DismissalsAreReal
<1>9. N!CountIsKept'
  <2>1. N!Count(dismissed, N!Kind(target))' = N!Count(dismissed, N!Kind(target))
    BY <1>1 DEF N!Count, N!Kind
  <2>2. N!Count(1 .. arrived, N!Kind(target))' = N!Count(1 .. arrived', N!Kind(target))
    BY <1>1 DEF N!Count, N!Kind
  <2>3. IsFiniteSet(1 .. arrived') /\ IsFiniteSet(1 .. arrived) /\ dismissed \subseteq 1 .. arrived
    BY <1>1, <1>2, FS_Interval DEF N!TypeOK
  <2>4. /\ N!Count(1 .. arrived, N!Kind(target)) <= N!Count(1 .. arrived', N!Kind(target))
        /\ N!Count(1 .. arrived, N!Kind(target)) \in Nat /\ N!Count(1 .. arrived', N!Kind(target)) \in Nat
        /\ N!Count(dismissed, N!Kind(target)) \in Nat
    BY <1>2, <2>3, CountGrows
  <2>5. before \in Nat
    BY <1>1, NotesAssumption DEF N!TypeOK
  <2>6. phase \in {"acting", "verifying"} /\ ~ hindered =>
          N!Count(dismissed, N!Kind(target)) + before <= N!Count(1 .. arrived', N!Kind(target))
    BY <1>1, <2>4, <2>5 DEF N!CountIsKept
  <2> QED
    BY <1>1, <1>6, <2>1, <2>2, <2>6 DEF N!CountIsKept
<1>10. N!TypeOK'
  <2>1. /\ arrived' \in 0 .. MaxNotes /\ target \in 0 .. arrived'
        /\ dismissed \subseteq 1 .. arrived' /\ touched \subseteq 1 .. arrived'
    BY <1>1, <1>2, NotesAssumption DEF N!TypeOK
  <2> QED
    BY <1>1, <1>3, <1>4, <2>1 DEF N!TypeOK
<1>11. N!CenterIsKept'
  BY <1>1 DEF N!CenterIsKept
<1>12. N!WorkIsKept' /\ N!TouchesOnlyTheMeant'
  BY <1>1 DEF N!WorkIsKept, N!TouchesOnlyTheMeant, N!Kind
<1> QED
  BY <1>8, <1>9, <1>10, <1>11, <1>12 DEF N!NoticeInv

\* A list without one of its entries shows nothing twice.
LEMMA WithoutOne ==
  ASSUME NEW S, NEW list \in Seq(S), NEW i \in DOMAIN list,
         \A a, b \in DOMAIN list : a # b => list[a] # list[b]
  PROVE  /\ N!RemoveAt(list, i) \in Seq(S)
         /\ N!ToSet(N!RemoveAt(list, i)) \subseteq N!ToSet(list)
         /\ \A a, b \in DOMAIN N!RemoveAt(list, i) :
              a # b => N!RemoveAt(list, i)[a] # N!RemoveAt(list, i)[b]
<1> DEFINE ahead == SubSeq(list, 1, i - 1)
<1> DEFINE back == SubSeq(list, i + 1, Len(list))
<1> DEFINE rest == N!RemoveAt(list, i)
<1>1. Len(list) \in Nat /\ DOMAIN list = 1 .. Len(list) /\ i \in 1 .. Len(list)
  BY LenProperties
<1>2. \A a \in 1 .. Len(list) : list[a] \in S
  BY ElementOfSeq
<1>3. /\ ahead \in Seq(S) /\ Len(ahead) = i - 1
      /\ \A a \in 1 .. i - 1 : ahead[a] = list[a]
  <2>1. 1 \in Int /\ i - 1 \in Int /\ \A a \in 1 .. i - 1 : list[a] \in S
    BY <1>1, <1>2
  <2>2. /\ ahead \in Seq(S) /\ Len(ahead) = IF 1 <= i - 1 THEN (i - 1) - 1 + 1 ELSE 0
        /\ \A a \in 1 .. (i - 1) - 1 + 1 : ahead[a] = list[1 + a - 1]
    BY <2>1, SubSeqProperties
  <2> HIDE DEF ahead
  <2>3. (i - 1) - 1 + 1 = i - 1 /\ (i - 1 = 0 \/ 1 <= i - 1) /\ \A a \in 1 .. i - 1 : 1 + a - 1 = a
    BY <1>1
  <2> QED
    BY <1>1, <2>2, <2>3
<1>4. /\ back \in Seq(S) /\ Len(back) = Len(list) - i
      /\ \A a \in 1 .. Len(list) - i : back[a] = list[i + a]
  <2>1. i + 1 \in Int /\ Len(list) \in Int /\ \A a \in i + 1 .. Len(list) : list[a] \in S
    BY <1>1, <1>2
  <2>2. /\ back \in Seq(S)
        /\ Len(back) = IF i + 1 <= Len(list) THEN Len(list) - (i + 1) + 1 ELSE 0
        /\ \A a \in 1 .. Len(list) - (i + 1) + 1 : back[a] = list[(i + 1) + a - 1]
    BY <2>1, SubSeqProperties
  <2> HIDE DEF back
  <2>3. /\ Len(list) - (i + 1) + 1 = Len(list) - i
        /\ i = Len(list) \/ i + 1 <= Len(list)
        /\ \A a \in 1 .. Len(list) - i : (i + 1) + a - 1 = i + a
    BY <1>1
  <2> QED
    BY <1>1, <2>2, <2>3
<1>5. rest = ahead \o back
  BY DEF N!RemoveAt
<1> HIDE DEF ahead, back
<1>6. /\ rest \in Seq(S) /\ Len(rest) = Len(ahead) + Len(back)
      /\ \A a \in 1 .. Len(ahead) + Len(back) :
           rest[a] = IF a <= Len(ahead) THEN ahead[a] ELSE back[a - Len(ahead)]
  <2>1. ahead \in Seq(S) /\ back \in Seq(S)
    BY <1>3, <1>4
  <2>2. /\ ahead \o back \in Seq(S) /\ Len(ahead \o back) = Len(ahead) + Len(back)
        /\ \A a \in 1 .. Len(ahead) + Len(back) :
             (ahead \o back)[a] = IF a <= Len(ahead) THEN ahead[a] ELSE back[a - Len(ahead)]
    BY <2>1, ConcatProperties, Zenon
  <2> HIDE DEF rest
  <2> QED
    BY <1>5, <2>2
<1> HIDE DEF rest
<1> DEFINE place(a) == IF a < i THEN a ELSE a + 1
<1>7. DOMAIN rest = 1 .. Len(list) - 1
  <2>1. DOMAIN rest = 1 .. Len(rest)
    BY <1>6, LenProperties
  <2> QED
    BY <1>1, <1>3, <1>4, <1>6, <2>1
<1>8. \A a \in DOMAIN rest : place(a) \in 1 .. Len(list) /\ rest[a] = list[place(a)]
  <2> SUFFICES ASSUME NEW a \in DOMAIN rest
               PROVE  place(a) \in 1 .. Len(list) /\ rest[a] = list[place(a)]
    OBVIOUS
  <2>1. a \in 1 .. Len(ahead) + Len(back)
    BY <1>1, <1>3, <1>4, <1>7
  <2>2. CASE a < i
    <3>1. a \in 1 .. i - 1 /\ a <= Len(ahead)
      BY <1>1, <1>3, <2>1, <2>2
    <3>2. rest[a] = ahead[a] /\ ahead[a] = list[a]
      BY <1>3, <1>6, <2>1, <3>1
    <3> QED
      BY <1>1, <2>2, <3>1, <3>2
  <2>3. CASE ~ (a < i)
    <3>1. a - (i - 1) \in 1 .. Len(list) - i /\ ~ (a <= Len(ahead)) /\ i + (a - (i - 1)) = a + 1
      BY <1>1, <1>3, <1>7, <2>3
    <3>2. rest[a] = back[a - (i - 1)]
      BY <1>3, <1>6, <2>1, <3>1
    <3>3. back[a - (i - 1)] = list[a + 1]
      BY <1>4, <3>1
    <3> QED
      BY <1>1, <1>7, <2>3, <3>2, <3>3
  <2> QED
    BY <2>2, <2>3
<1>9. \A a, b \in DOMAIN rest : a # b => place(a) # place(b)
  BY <1>1, <1>7
<1> HIDE DEF place
<1>10. N!ToSet(rest) \subseteq N!ToSet(list)
  BY <1>1, <1>8 DEF N!ToSet
<1>11. \A a, b \in DOMAIN rest : a # b => rest[a] # rest[b]
  BY <1>1, <1>8, <1>9
<1>12. rest = N!RemoveAt(list, i)
  BY DEF rest
<1> QED
  BY <1>6, <1>10, <1>11, <1>12

\* What vanishes is gone: more may be reported.
LEMMA VanishIsKept ==
  ASSUME N!NoticeInv, N!Vanish
  PROVE  N!NoticeInv'
<1> USE DEF N!desktopVars, N!workVars, N!reportVars
<1>1. /\ N!TypeOK /\ N!CenterIsKept /\ N!WorkIsKept /\ N!CountIsKept /\ N!DismissalsAreReal
      /\ N!TouchesOnlyTheMeant
      /\ UNCHANGED <<request, phase, outcome, session, found, N!desktopVars, arrived, N!workVars,
                     N!reportVars>>
  BY DEF N!NoticeInv, N!Vanish
<1>2. PICK i \in DOMAIN notes : notes' = N!RemoveAt(notes, i)
  BY DEF N!Vanish
<1>3. arrived \in Nat /\ notes \in Seq(1 .. arrived) /\ dismissed \subseteq 1 .. arrived
  BY <1>1, NotesAssumption DEF N!TypeOK
<1>4. /\ notes' \in Seq(1 .. arrived) /\ N!ToSet(notes') \subseteq N!ToSet(notes)
      /\ \A a, b \in DOMAIN notes' : a # b => notes'[a] # notes'[b]
  <2>1. \A a, b \in DOMAIN notes : a # b => notes[a] # notes[b]
    BY <1>1 DEF N!CountIsKept
  <2> QED
    BY <1>2, <1>3, <2>1, WithoutOne
<1>5. N!DismissalsAreReal'
  <2>1. IsFiniteSet(1 .. arrived)
    BY <1>3, FS_Interval
  <2>2. /\ (1 .. arrived) \ N!ToSet(notes) \subseteq (1 .. arrived) \ N!ToSet(notes')
        /\ (1 .. arrived) \ N!ToSet(notes') \in SUBSET (1 .. arrived)
    BY <1>4
  <2>3. IsFiniteSet((1 .. arrived) \ N!ToSet(notes')) /\ IsFiniteSet(dismissed)
    BY <1>3, <2>1, <2>2, FS_Subset
  <2>4. \A k : /\ N!Count((1 .. arrived) \ N!ToSet(notes), k) <= N!Count((1 .. arrived) \ N!ToSet(notes'), k)
               /\ N!Count((1 .. arrived) \ N!ToSet(notes), k) \in Nat
               /\ N!Count((1 .. arrived) \ N!ToSet(notes'), k) \in Nat
    BY <2>2, <2>3, CountGrows
  <2>5. \A k : N!Count(dismissed, k) \in Nat
    BY <2>3, CountGrows
  <2>6. \A k : N!Count(dismissed, k)' = N!Count(dismissed, k)
    BY <1>1 DEF N!Count, N!Kind
  <2>7. \A k : N!Count((1 .. arrived) \ N!ToSet(notes), k)' = N!Count((1 .. arrived) \ N!ToSet(notes'), k)
    BY <1>1 DEF N!Count, N!Kind, N!ToSet
  <2>8. ~ hindered => \A k \in {0, 1} : N!Count(dismissed, k) <= N!Count((1 .. arrived) \ N!ToSet(notes'), k)
    BY <1>1, <2>4, <2>5 DEF N!DismissalsAreReal
  <2> QED
    BY <1>1, <2>6, <2>7, <2>8 DEF N!DismissalsAreReal
<1>6. N!CountIsKept'
  <2>1. N!Count(dismissed, N!Kind(target))' = N!Count(dismissed, N!Kind(target))
    BY <1>1 DEF N!Count, N!Kind
  <2>2. N!Count(1 .. arrived, N!Kind(target))' = N!Count(1 .. arrived, N!Kind(target))
    BY <1>1 DEF N!Count, N!Kind
  <2> QED
    BY <1>1, <1>4, <2>1, <2>2 DEF N!CountIsKept
<1>7. N!TypeOK'
  BY <1>1, <1>4 DEF N!TypeOK
<1>8. N!CenterIsKept'
  BY <1>1 DEF N!CenterIsKept
<1>9. N!WorkIsKept' /\ N!TouchesOnlyTheMeant'
  BY <1>1 DEF N!WorkIsKept, N!TouchesOnlyTheMeant, N!Kind
<1> QED
  BY <1>5, <1>6, <1>7, <1>8, <1>9 DEF N!NoticeInv

\* At first the center shows what has arrived, and nothing is reported.
LEMMA NoticeInvStarts ==
  ASSUME N!Init
  PROVE  N!NoticeInv
<1>1. /\ arrived \in 0 .. MaxNotes /\ arrived \in Nat
      /\ notes = N!Reverse([i \in 1 .. arrived |-> i])
      /\ dismissed = {} /\ touched = {} /\ phase = "new" /\ outcome = "none"
      /\ queue = <<>> /\ target = 0 /\ before = 0 /\ strategy = 0
      /\ session = [close |-> FALSE, restore |-> FALSE, attempts |-> 0, error |-> FALSE]
      /\ found = [center |-> center, front |-> front]
  BY NotesAssumption DEF N!Init
<1> DEFINE all == [i \in 1 .. arrived |-> i]
<1>2. all \in Seq(1 .. arrived) /\ Len(all) = arrived
  BY <1>1
<1>3. notes = [i \in 1 .. arrived |-> (arrived - i) + 1]
  <2>1. \A i \in 1 .. arrived : (arrived - i) + 1 \in 1 .. arrived
    BY <1>1
  <2>2. \A i \in 1 .. arrived : all[(arrived - i) + 1] = (arrived - i) + 1
    BY <2>1
  <2>3. notes = [i \in 1 .. arrived |-> all[(arrived - i) + 1]]
    BY <1>1, <1>2 DEF N!Reverse
  <2> QED
    BY <2>2, <2>3
<1>4. notes \in Seq(1 .. arrived) /\ DOMAIN notes = 1 .. arrived
  BY <1>1, <1>3
<1>5. N!TypeOK
  <2>1. (<<>> \in Seq(1 .. arrived)) /\ 0 \in 0 .. arrived /\ 0 \in 0 .. MaxNotes /\ 0 \in 0 .. Strategies
    BY <1>1, NotesAssumption
  <2>2. request \in N!Requests /\ center \in {"closed", "open"} /\ front \in {"work", "center"}
        /\ hindered = FALSE
    BY DEF N!Init
  <2>3. /\ session \in [close : BOOLEAN, restore : BOOLEAN, attempts : 0 .. 1, error : BOOLEAN]
        /\ found \in [center : {"closed", "open"}, front : {"work", "center"}]
    BY <1>1, <2>2
  <2> QED
    BY <1>1, <1>4, <2>1, <2>2, <2>3 DEF N!TypeOK
<1>6. N!CenterIsKept
  BY <1>1 DEF N!Init, N!CenterIsKept, N!Working
<1>7. N!WorkIsKept
  BY <1>1 DEF N!WorkIsKept
<1>8. N!CountIsKept
  <2>1. \A i, j \in 1 .. arrived : i # j => notes[i] # notes[j]
    BY <1>1, <1>3
  <2> QED
    BY <1>1, <1>4, <2>1 DEF N!CountIsKept
<1>9. N!DismissalsAreReal
  <2>1. IsFiniteSet(1 .. arrived) /\ (1 .. arrived) \ N!ToSet(notes) \in SUBSET (1 .. arrived)
    BY <1>1, FS_Interval
  <2>2. IsFiniteSet((1 .. arrived) \ N!ToSet(notes))
    BY <2>1, FS_Subset
  <2>3. \A k : N!Count({}, k) <= N!Count((1 .. arrived) \ N!ToSet(notes), k)
    BY <2>2, CountGrows
  <2> QED
    BY <1>1, <2>3 DEF N!DismissalsAreReal
<1>10. N!TouchesOnlyTheMeant
  <2>1. N!Cardinality({}) = 0
    BY NoticeCounts, FS_EmptySet
  <2> QED
    BY <1>1, <2>1 DEF N!TouchesOnlyTheMeant
<1> QED
  BY <1>5, <1>6, <1>7, <1>8, <1>9, <1>10 DEF N!NoticeInv

\* Every step of a command on notifications keeps the invariant.
LEMMA NoticeInvIsKept ==
  ASSUME N!NoticeInv, [N!Next]_(N!vars)
  PROVE  N!NoticeInv'
<1>1. CASE N!FindOpen \/ N!RefuseHeadless \/ N!OpenFails \/ N!Prepare \/ N!ClickClock \/ N!AwaitReady
  BY <1>1, FindOpenIsKept, RefuseHeadlessIsKept, OpenFailsIsKept, PrepareIsKept, ClickClockIsKept,
     AwaitReadyIsKept
<1>2. CASE N!CloseCenter \/ N!RestoreFocus \/ N!Finish
  BY <1>2, CloseCenterIsKept, RestoreFocusIsKept, FinishIsKept
<1>3. CASE N!Fail \/ N!List \/ N!PressAction \/ N!NextEntry \/ N!EntryGone \/ N!AllDone
  BY <1>3, FailIsKept, ListIsKept, PressActionIsKept, NextEntryIsKept, EntryGoneIsKept, AllDoneIsKept
<1>4. CASE N!TryStrategy \/ N!Verified \/ N!TryAnother \/ N!GiveUpEntry
  BY <1>4, TryStrategyIsKept, VerifiedIsKept, TryAnotherIsKept, GiveUpEntryIsKept
<1>5. CASE N!CenterAppears \/ N!Arrive \/ N!Vanish \/ N!Meddle
  BY <1>5, CenterAppearsIsKept, ArriveIsKept, VanishIsKept, MeddleIsKept
<1>6. CASE UNCHANGED N!vars
  BY <1>6, StutterIsKept
<1> QED
  BY <1>1, <1>2, <1>3, <1>4, <1>5, <1>6 DEF N!Next

\* The invariant says of a command that is done that it left the center as found.
LEMMA NoticeInvSuffices ==
  ASSUME N!NoticeInv
  PROVE  N!CenterLeftAsFound /\ N!DismissalsAreReal /\ N!TouchesOnlyTheMeant
<1>1. N!CenterLeftAsFound
  BY DEF N!NoticeInv, N!TypeOK, N!CenterIsKept, N!CenterLeftAsFound, N!Requests
<1> QED
  BY <1>1 DEF N!NoticeInv

-----------------------------------------------------------------------------
(* Gestures *)

\* A gesture has a unit.
ASSUME UnitsAssumption == MaxUnits \in Nat \ {0}

LEMMA GestureInvStarts ==
  ASSUME P!Init
  PROVE  P!GestureInv
<1>1. held \in BOOLEAN /\ armed \in BOOLEAN /\ ~ held /\ ~ armed
  BY Zenon DEF P!Init
<1> QED
  BY <1>1, UnitsAssumption DEF P!Init, P!GestureInv, P!TypeOK, P!InputEndsClean, P!Pointing, P!Keys

LEMMA GestureInvIsKept ==
  ASSUME P!GestureInv, [P!Next]_(P!inputVars)
  PROVE  P!GestureInv'
<1> USE UnitsAssumption DEF P!GestureInv, P!TypeOK, P!InputEndsClean, P!Pointing, P!Keys, P!plan,
                            P!progress, P!button, P!count, P!Deliver, P!Report
<1>1. CASE P!Begin
  BY <1>1 DEF P!Begin
<1>2. CASE P!Focus
  BY <1>2 DEF P!Focus
<1>3. CASE P!MovePointer
  BY <1>3 DEF P!MovePointer
<1>4. CASE P!Arrive
  BY <1>4 DEF P!Arrive
<1>5. CASE P!Scroll
  BY <1>5 DEF P!Scroll
<1>6. CASE P!VerifyPointer
  BY <1>6 DEF P!VerifyPointer
<1>7. CASE P!VerifyFocus
  BY <1>7 DEF P!VerifyFocus
<1>8. CASE P!StartDrag
  BY <1>8 DEF P!StartDrag, P!Press
<1>9. CASE P!ClickDown
  BY <1>9 DEF P!ClickDown, P!Press
<1>10. CASE P!KeyDown
  BY <1>10 DEF P!KeyDown, P!Press
<1>11. CASE P!Drag
  BY <1>11 DEF P!Drag
<1>12. CASE P!Dwell
  BY <1>12 DEF P!Dwell
<1>13. CASE P!Drop
  <2>1. held' \in BOOLEAN /\ armed' \in BOOLEAN /\ ~ held' /\ ~ armed'
    BY <1>13, Zenon DEF P!Drop
  <2> QED
    BY <1>13, <2>1 DEF P!Drop
<1>14. CASE P!ClickUp
  <2>1. held' \in BOOLEAN /\ armed' \in BOOLEAN /\ ~ held' /\ ~ armed'
    BY <1>14, Zenon DEF P!ClickUp, P!Release
  <2> QED
    BY <1>14, <2>1 DEF P!ClickUp, P!Release
<1>15. CASE P!KeyUp
  <2>1. held' \in BOOLEAN /\ armed' \in BOOLEAN /\ ~ held' /\ ~ armed'
    BY <1>15, Zenon DEF P!KeyUp, P!Release
  <2> QED
    BY <1>15, <2>1 DEF P!KeyUp, P!Release
<1>16. CASE P!Fail
  <2>1. held' \in BOOLEAN /\ armed' \in BOOLEAN /\ ~ held' /\ ~ armed'
    BY <1>16, Zenon DEF P!Fail, P!Annotated
  <2> QED
    BY <1>16, <2>1 DEF P!Fail, P!Annotated
<1>17. CASE P!Succeed
  BY <1>17 DEF P!Succeed
<1>18. CASE UNCHANGED P!inputVars
  BY <1>18 DEF P!inputVars
<1> QED
  BY <1>1, <1>2, <1>3, <1>4, <1>5, <1>6, <1>7, <1>8, <1>9, <1>10, <1>11, <1>12, <1>13, <1>14,
     <1>15, <1>16, <1>17, <1>18 DEF P!Next

-----------------------------------------------------------------------------
(* Activation chains *)

\* Where each step stands in the chains.
LEMMA ChainSteps ==
  /\ A!Chains["click"] = <<"physical", "press", "act", "descend", "select", "act">>
  /\ A!Chains["menubar_click"] = <<"act">>
  /\ A!Chains["semantic_click"] = <<"act", "act", "descend", "select", "act">>
  /\ A!Chains["right_click"] = <<"physical", "menu", "item_menu", "item_menu", "menus", "menus">>
  /\ A!Chains["set_value"] = <<"write", "increment">>
  /\ A!Chains["clear"] = <<"physical", "write">>
  /\ DOMAIN A!Chains = {"click", "menubar_click", "semantic_click", "right_click", "set_value", "clear"}
BY DEF A!Chains

LEMMA StepsOfTheChain ==
  ASSUME chain \in DOMAIN A!Chains, at \in Nat \ {0}, at <= Len(A!Chains[chain])
  PROVE  /\ A!Current \in A!Menu => chain = "right_click" /\ at > 1
         /\ A!Current = "physical" => at = 1
         /\ A!Current = "press" => chain = "click" /\ at > 1
         /\ A!Current = "increment" => chain = "set_value" /\ at = 2
         /\ chain = "set_value" /\ at = 2 => A!Current = "increment"
         /\ A!Current = "write" => chain \in {"set_value", "clear"}
<1>1. CASE chain = "click"
  <2>1. A!Chains[chain] = <<"physical", "press", "act", "descend", "select", "act">>
    BY <1>1, ChainSteps
  <2>2. at \in 1 .. 6
    BY <2>1
  <2> QED
    BY <1>1, <2>1, <2>2 DEF A!Current, A!Menu
<1>2. CASE chain = "menubar_click"
  <2>1. A!Chains[chain] = <<"act">>
    BY <1>2, ChainSteps
  <2> QED
    BY <1>2, <2>1 DEF A!Current, A!Menu
<1>3. CASE chain = "semantic_click"
  <2>1. A!Chains[chain] = <<"act", "act", "descend", "select", "act">>
    BY <1>3, ChainSteps
  <2>2. at \in 1 .. 5
    BY <2>1
  <2> QED
    BY <1>3, <2>1, <2>2 DEF A!Current, A!Menu
<1>4. CASE chain = "right_click"
  <2>1. A!Chains[chain] = <<"physical", "menu", "item_menu", "item_menu", "menus", "menus">>
    BY <1>4, ChainSteps
  <2>2. at \in 1 .. 6
    BY <2>1
  <2> QED
    BY <1>4, <2>1, <2>2 DEF A!Current, A!Menu
<1>5. CASE chain = "set_value"
  <2>1. A!Chains[chain] = <<"write", "increment">>
    BY <1>5, ChainSteps
  <2>2. at \in 1 .. 2
    BY <2>1
  <2> QED
    BY <1>5, <2>1, <2>2 DEF A!Current, A!Menu
<1>6. CASE chain = "clear"
  <2>1. A!Chains[chain] = <<"physical", "write">>
    BY <1>6, ChainSteps
  <2>2. at \in 1 .. 2
    BY <2>1
  <2> QED
    BY <1>6, <2>1, <2>2 DEF A!Current, A!Menu
<1> QED
  BY <1>1, <1>2, <1>3, <1>4, <1>5, <1>6, ChainSteps

LEMMA IncrementsRepeat ==
  ASSUME chain \in DOMAIN A!Chains, at \in Nat \ {0}
  PROVE  A!Incrementing <=> A!Repeating
<1>1. A!Incrementing => A!Repeating
  BY StepsOfTheChain DEF A!Incrementing, A!Repeating
<1>2. ASSUME A!Repeating
      PROVE  A!Incrementing
  <2>1. chain = "set_value" /\ at = 2 /\ tries > 0
    BY <1>2 DEF A!Repeating
  <2>2. A!Chains[chain] = <<"write", "increment">>
    BY <2>1, ChainSteps
  <2> QED
    BY <2>1, <2>2 DEF A!Incrementing, A!Current
<1> QED
  BY <1>1, <1>2

LEMMA ChainInvStarts ==
  ASSUME A!Init
  PROVE  A!ChainInv
<1>1. chain \in DOMAIN A!Chains
  BY ChainSteps DEF A!Init
<1> QED
  BY <1>1 DEF A!Init, A!ChainInv, A!EffectsAreCounted, A!Repeating, A!ActsAgainOnlyUnseen, A!ReportIsTrue

\* Another step, or the end, after what was done so far.
LEMMA NextStepInChain ==
  ASSUME A!ChainInv, stage \in {"step", "answered", "selection"}, A!NextStep,
         recorded' \in {recorded, "unverified"}, missed => missed', denied => denied',
         effects > 0 => recorded' = "unverified" /\ chain \in {"click", "right_click"},
         effects > 0 /\ chain = "click" => denied',
         chain \notin {"click", "right_click"} => recorded' = recorded
  PROVE  A!ChainInv'
<1>1. /\ UNCHANGED <<chain, headed, already, readable, meddled, effects, coming, shown, base, verdict>>
      /\ at' = at + 1 /\ tries' = 0 /\ earlier' = effects /\ stage' = "step"
  BY DEF A!NextStep, A!given, A!world
<1>2. recorded' \in {"none", "unverified"} /\ verdict' = "none" /\ at' > 1 /\ at' \in Nat \ {0}
  BY <1>1 DEF A!ChainInv
<1>3. A!EffectsAreCounted'
  BY <1>1, <1>2 DEF A!ChainInv, A!EffectsAreCounted
<1>4. A!ActsAgainOnlyUnseen' /\ A!ReportIsTrue'
  BY <1>1, <1>2 DEF A!ChainInv, A!ActsAgainOnlyUnseen, A!ReportIsTrue
<1> QED
  BY <1>1, <1>2, <1>3, <1>4 DEF A!ChainInv

LEMMA EndsTheChain ==
  ASSUME A!ChainInv, stage # "done", NEW v, v # "none", A!End(v), UNCHANGED answer,
         recorded' \in {"none", "verified", "unverified"},
         v = "failed_not_delivered" /\ effects > 0 =>
           A!Current \in A!Menu /\ answer = "yes" /\ earlier = 0,
         v = "verified" => shown > 0 \/ already \/ meddled,
         v = "satisfied" => effects = 0 /\ recorded' = "none" /\ (already \/ meddled)
  PROVE  A!ChainInv'
<1>1. /\ UNCHANGED <<chain, headed, already, readable, meddled, at, tries, earlier, effects, coming, shown, base,
                     denied, missed, marked>>
      /\ stage' = "done" /\ verdict' = v
  BY DEF A!End, A!given, A!position, A!world, A!seen
<1>2. A!ActsAgainOnlyUnseen'
  BY <1>1 DEF A!ChainInv, A!ActsAgainOnlyUnseen
<1>3. A!Current' = A!Current
  BY <1>1 DEF A!Current
<1>4. A!ReportIsTrue'
  BY <1>1, <1>3 DEF A!ReportIsTrue, A!Menu
<1> QED
  BY <1>1, <1>2, <1>4 DEF A!ChainInv

LEMMA FailsTheChain ==
  ASSUME A!ChainInv, stage # "done",
         NEW v \in {"failed_not_delivered", "failed_unverified", "failed_uncertain"}, A!Fail(v),
         v = "failed_not_delivered" /\ recorded = "none" /\ ~ A!Repeating /\ effects > 0
           => A!Current \in A!Menu /\ answer = "yes" /\ earlier = 0
  PROVE  A!ChainInv'
<1>1. chain \in DOMAIN A!Chains /\ at \in Nat \ {0} /\ recorded' \in {"none", "verified", "unverified"}
  BY DEF A!ChainInv, A!Fail
<1>2. CASE v = "failed_not_delivered" /\ (recorded # "none" \/ A!Incrementing)
  BY <1>1, <1>2, EndsTheChain DEF A!Fail
<1>3. CASE ~ (v = "failed_not_delivered" /\ (recorded # "none" \/ A!Incrementing))
  BY <1>1, <1>3, EndsTheChain, IncrementsRepeat DEF A!Fail
<1> QED
  BY <1>2, <1>3

LEMMA FinishesTheChain ==
  ASSUME A!ChainInv, stage # "done", NEW verified \in BOOLEAN, A!Finish(verified),
         verified => shown > 0 \/ already \/ meddled
  PROVE  A!ChainInv'
<1>1. A!With(verified) \in {"verified", "unverified"} /\ (A!With(verified) = "verified" => verified)
  BY DEF A!With
<1> QED
  BY <1>1, EndsTheChain DEF A!Finish

\* At a step nothing was done since it began, but for increments.
LEMMA StepFacts ==
  ASSUME A!ChainInv, stage = "step"
  PROVE  /\ A!EffectsAreCounted /\ (effects = earlier \/ A!Repeating) /\ verdict = "none"
         /\ chain \in DOMAIN A!Chains /\ at \in Nat \ {0} /\ tries \in Nat
         /\ recorded \in {"none", "unverified"} /\ effects \in 0 .. 2
         /\ earlier > 0 => recorded = "unverified" /\ chain \in {"click", "right_click"}
         /\ earlier > 0 /\ chain = "click" => denied
         /\ earlier > 0 => at > 1
         /\ chain \notin {"click", "right_click"} => recorded = "none"
         /\ A!Repeating => chain = "set_value" /\ at = 2 /\ tries > 0
BY DEF A!ChainInv, A!EffectsAreCounted, A!Repeating

LEMMA BeginsTheChain ==
  ASSUME A!ChainInv, A!Begin
  PROVE  A!ChainInv'
<1>1. /\ UNCHANGED <<at, tries, earlier, effects, coming, shown, base, recorded, verdict>>
      /\ UNCHANGED <<denied, missed, marked>>
      /\ chain' \in DOMAIN A!Chains /\ stage' = "step" /\ stage = "new"
  BY DEF A!Begin, A!position, A!world, A!seen
<1>2. at = 1 /\ tries = 0 /\ earlier = 0 /\ recorded = "none" /\ effects = 0 /\ verdict = "none"
  BY <1>1 DEF A!ChainInv, A!EffectsAreCounted, A!Repeating
<1>3. A!ActsAgainOnlyUnseen' /\ A!ReportIsTrue' /\ A!EffectsAreCounted'
  BY <1>1, <1>2 DEF A!ActsAgainOnlyUnseen, A!ReportIsTrue, A!EffectsAreCounted
<1> QED
  BY <1>1, <1>2, <1>3 DEF A!ChainInv

LEMMA StopsBefore ==
  ASSUME A!ChainInv, A!Expire \/ A!Exhaust \/ A!AlreadyThere
  PROVE  A!ChainInv'
<1>1. stage = "step"
  BY DEF A!Expire, A!Exhaust, A!AlreadyThere
<1>2. CASE A!Expire
  BY <1>1, <1>2, StepFacts, FailsTheChain DEF A!Expire
<1>3. CASE A!Exhaust
  <2>1. A!Repeating => FALSE
    <3>1. A!Incrementing => at <= Len(A!Chains[chain])
      BY DEF A!Incrementing
    <3>2. chain \in DOMAIN A!Chains /\ at \in Nat \ {0}
      BY <1>1, StepFacts
    <3>3. A!Repeating => A!Incrementing
      BY <3>2, IncrementsRepeat
    <3>4. ASSUME A!Repeating
          PROVE  FALSE
      <4>1. A!Chains[chain] = <<"write", "increment">> /\ at = 2
        BY <3>4, ChainSteps DEF A!Repeating
      <4> QED
        BY <1>3, <4>1 DEF A!Exhaust
    <3> QED
      BY <3>4
  <2>2. recorded = "none" => effects = 0
    BY <1>1, <2>1, StepFacts DEF A!ChainInv
  <2>3. recorded' \in {"none", "verified", "unverified"}
    BY <1>1, <1>3, StepFacts DEF A!Exhaust
  <2>4. CASE recorded = "none"
    BY <1>1, <1>3, <2>2, <2>3, <2>4, EndsTheChain DEF A!Exhaust
  <2>5. CASE recorded # "none"
    BY <1>1, <1>3, <2>3, <2>5, EndsTheChain DEF A!Exhaust
  <2> QED
    BY <2>4, <2>5
<1>4. CASE A!AlreadyThere
  <2>1. chain = "set_value" /\ tries = 0
    BY <1>1, <1>4, StepFacts, StepsOfTheChain DEF A!AlreadyThere
  <2>2. effects = 0 /\ recorded' = "none" /\ UNCHANGED answer /\ (already \/ meddled)
    BY <1>1, <1>4, <2>1, StepFacts DEF A!AlreadyThere, A!ChainInv
  <2> QED
    BY <1>1, <1>4, <2>2, EndsTheChain DEF A!AlreadyThere
<1> QED
  BY <1>2, <1>3, <1>4

\* Another candidate, or the next step, when nothing was done in this one.
LEMMA GoesOnInChain ==
  ASSUME A!ChainInv, stage \in {"step", "answered"}, A!GoOn, effects = earlier,
         ~ A!Repeating, recorded' = recorded, UNCHANGED A!seen,
         A!Current # "increment", at <= Len(A!Chains[chain])
  PROVE  A!ChainInv'
<1>1. UNCHANGED <<denied, missed, marked>>
  BY DEF A!seen
<1>2. /\ earlier > 0 => recorded = "unverified" /\ chain \in {"click", "right_click"}
      /\ earlier > 0 /\ chain = "click" => denied
  BY DEF A!ChainInv, A!EffectsAreCounted
<1>3. CASE A!NextStep
  BY <1>1, <1>2, <1>3, NextStepInChain
<1>4. CASE /\ A!Current \in A!Several /\ tries < MaxTries
           /\ tries' = tries + 1
           /\ stage' = "step" /\ answer' = "yes"
           /\ UNCHANGED <<A!given, at, earlier, A!world, base, verdict>>
  <2>1. /\ UNCHANGED <<chain, headed, already, readable, meddled, at, earlier, effects, coming, shown, base, verdict>>
        /\ stage' = "step" /\ tries' = tries + 1
    BY <1>4 DEF A!given, A!world
  <2>2. A!EffectsAreCounted'
    BY <1>1, <2>1 DEF A!ChainInv, A!EffectsAreCounted
  <2>3. A!ActsAgainOnlyUnseen' /\ A!ReportIsTrue' /\ tries' \in Nat
    BY <1>1, <2>1 DEF A!ChainInv, A!ActsAgainOnlyUnseen, A!ReportIsTrue
  <2> QED
    BY <1>1, <2>1, <2>2, <2>3 DEF A!ChainInv
<1> QED
  BY <1>3, <1>4 DEF A!GoOn

LEMMA LastStepOfSetValue ==
  ASSUME A!ChainInv, stage \in {"step", "answered"}, A!GoOn, effects = earlier,
         ~ A!Repeating, recorded' = recorded, UNCHANGED A!seen,
         A!Current = "increment"
  PROVE  A!ChainInv'
<1>1. A!NextStep
  BY DEF A!GoOn, A!Several
<1>2. /\ earlier > 0 => recorded = "unverified" /\ chain \in {"click", "right_click"}
      /\ earlier > 0 /\ chain = "click" => denied
  BY DEF A!ChainInv, A!EffectsAreCounted
<1> QED
  BY <1>1, <1>2, NextStepInChain DEF A!seen

LEMMA NotOfferedInChain ==
  ASSUME A!ChainInv, A!SkipPhysical \/ A!NotOffered
  PROVE  A!ChainInv'
<1>1. stage = "step" /\ at <= Len(A!Chains[chain]) /\ recorded' = recorded /\ UNCHANGED A!seen
  BY DEF A!SkipPhysical, A!NotOffered
<1>2. CASE A!SkipPhysical
  <2>1. at = 1
    BY <1>1, <1>2, StepFacts, StepsOfTheChain DEF A!SkipPhysical
  <2>2. effects = 0
    BY <1>1, <2>1, StepFacts DEF A!ChainInv, A!Repeating
  <2> QED
    BY <1>1, <1>2, <2>2, NextStepInChain DEF A!SkipPhysical, A!seen
<1>3. CASE A!NotOffered
  <2>1. ~ A!Repeating
    BY <1>1, <1>3, StepFacts, IncrementsRepeat DEF A!NotOffered
  <2>2. effects = earlier
    BY <1>1, <2>1, StepFacts
  <2> QED
    BY <1>1, <1>3, <2>1, <2>2, GoesOnInChain, LastStepOfSetValue DEF A!NotOffered
<1> QED
  BY <1>2, <1>3

LEMMA MarksAnItem ==
  ASSUME A!ChainInv, A!MarkItem
  PROVE  A!ChainInv'
<1>1. stage = "step" /\ chain = "right_click" /\ tries = 0 /\ at > 1 /\ denied' = denied /\ missed' = missed
  BY StepFacts, StepsOfTheChain DEF A!MarkItem, A!Menu
<1>2. effects = earlier /\ ~ A!Repeating
  BY <1>1, StepFacts
<1>3. CASE A!NextStep /\ recorded' = recorded
  BY <1>1, <1>2, <1>3, StepFacts, NextStepInChain
<1>4. CASE tries' = 1 /\ UNCHANGED <<A!given, at, earlier, stage, answer, A!world, base, recorded, verdict>>
  <2>1. /\ UNCHANGED <<chain, headed, already, readable, meddled, at, earlier, effects, coming, shown, base, verdict,
                       stage, recorded>>
        /\ tries' \in Nat
    BY <1>4 DEF A!given, A!world
  <2>2. A!EffectsAreCounted'
    BY <1>1, <1>2, <2>1 DEF A!ChainInv, A!EffectsAreCounted
  <2>3. A!ActsAgainOnlyUnseen' /\ A!ReportIsTrue'
    BY <1>1, <2>1 DEF A!ChainInv, A!ActsAgainOnlyUnseen, A!ReportIsTrue
  <2> QED
    BY <1>1, <2>1, <2>2, <2>3 DEF A!ChainInv
<1> QED
  BY <1>3, <1>4 DEF A!MarkItem

LEMMA CapAdds ==
  ASSUME NEW n \in 0 .. 2
  PROVE  A!Cap(n + 1) \in 1 .. 2 /\ (A!Cap(n + 1) > 1 => n > 0)
BY DEF A!Cap

LEMMA AsksInChain ==
  ASSUME A!ChainInv, A!Ask
  PROVE  A!ChainInv'
<1>1. /\ stage = "step" /\ at <= Len(A!Chains[chain]) /\ stage' = "answered" /\ base' = shown
      /\ UNCHANGED <<chain, headed, already, readable, meddled, at, tries, earlier, recorded, verdict, denied, marked>>
      /\ A!Current = "physical" => at = 1
  BY StepFacts, StepsOfTheChain DEF A!Ask, A!given, A!position
<1>2. /\ effects = earlier \/ A!Repeating
      /\ verdict = "none" /\ recorded # "verified"
      /\ A!EffectsAreCounted
  BY <1>1, StepFacts
<1>3. PICK probed \in BOOLEAN :
        /\ A!Current \in A!Menu /\ probed => shown = 0
        /\ missed' = (missed \/ (A!Current \in A!Menu /\ effects > 0 /\ (~ probed \/ shown = 0)))
  BY DEF A!Ask
<1>4. /\ missed => missed'
      /\ A!Current \in A!Menu /\ effects > 0 => missed'
  BY <1>3
<1>5. chain = "right_click" /\ at > 1 => A!Current \in A!Menu
  <2> SUFFICES ASSUME chain = "right_click", at > 1
               PROVE  A!Current \in A!Menu
    OBVIOUS
  <2>1. A!Chains[chain] = <<"physical", "menu", "item_menu", "item_menu", "menus", "menus">>
    BY ChainSteps
  <2>2. at \in 2 .. 6
    BY <1>1, <2>1 DEF A!ChainInv
  <2> QED
    BY <2>1, <2>2 DEF A!Current, A!Menu
<1>6. A!Repeating' = A!Repeating /\ A!Believe(answer)' = A!Believe(answer')
  BY <1>1 DEF A!Repeating, A!Believe, A!Current
<1>7. CASE UNCHANGED A!world
  <2>1. UNCHANGED <<effects, coming, shown>>
    BY <1>7 DEF A!world
  <2>2. A!EffectsAreCounted'
    BY <1>1, <1>2, <1>6, <2>1 DEF A!EffectsAreCounted
  <2>3. A!ActsAgainOnlyUnseen' /\ A!ReportIsTrue'
    BY <1>1, <1>2, <1>4, <2>1 DEF A!ChainInv, A!ActsAgainOnlyUnseen, A!ReportIsTrue
  <2> QED
    BY <1>1, <1>2, <2>1, <2>2, <2>3 DEF A!ChainInv
<1>8. CASE /\ ~ A!Believe(answer')
           /\ effects' = A!Cap(effects + 1)
           /\ \/ coming' = A!Cap(coming + 1) /\ UNCHANGED shown
              \/ shown' = A!Cap(shown + 1) /\ UNCHANGED coming
              \/ UNCHANGED <<coming, shown>>
  <2>1. effects \in 0 .. 2 /\ coming \in 0 .. 2 /\ shown \in 0 .. 2
    BY DEF A!ChainInv
  <2>2. /\ effects' \in 0 .. 2 /\ coming' \in 0 .. 2 /\ shown' \in 0 .. 2
        /\ effects' > 1 => effects > 0
    BY <1>8, <2>1, CapAdds
  <2>3. A!EffectsAreCounted'
    <3>1. effects' = A!Cap(earlier' + 1) \/ A!Repeating'
      BY <1>1, <1>2, <1>6, <1>8
    <3>2. ~ A!Believe(answer)'
      BY <1>6, <1>8
    <3>3. stage' # "new" /\ stage' # "step" /\ stage' # "selection"
      BY <1>1
    <3>4. A!Cap(earlier' + 1) = A!Cap(earlier + 1)'
      BY <1>1
    <3> QED
      BY <1>1, <1>2, <3>1, <3>2, <3>3, <3>4 DEF A!EffectsAreCounted
  <2>4. A!ActsAgainOnlyUnseen'
    <3>1. ASSUME effects' > 1
          PROVE  \/ chain = "click" /\ denied
                 \/ chain = "right_click" /\ missed'
                 \/ chain = "set_value" /\ at = 2
      <4>1. CASE A!Repeating
        BY <4>1 DEF A!Repeating
      <4>2. CASE effects = earlier
        <5>1. earlier > 0
          BY <2>2, <3>1, <4>2
        <5>2. at > 1 /\ chain \in {"click", "right_click"} /\ (chain = "click" => denied)
          BY <1>2, <5>1 DEF A!EffectsAreCounted
        <5> QED
          BY <1>4, <1>5, <2>2, <3>1, <5>2
      <4> QED
        BY <1>2, <4>1, <4>2
    <3> QED
      BY <1>1, <3>1 DEF A!ActsAgainOnlyUnseen
  <2>5. A!ReportIsTrue'
    BY <1>1, <1>2 DEF A!ReportIsTrue
  <2> QED
    BY <1>1, <1>2, <2>1, <2>2, <2>3, <2>4, <2>5 DEF A!ChainInv
<1> QED
  BY <1>7, <1>8 DEF A!Ask

LEMMA ArrivesInChain ==
  ASSUME A!ChainInv, A!Arrive
  PROVE  A!ChainInv'
<1>1. /\ UNCHANGED <<chain, headed, already, readable, meddled, at, tries, earlier, stage, answer, effects, base,
                     recorded, denied, missed, marked, verdict>>
      /\ stage # "done" /\ coming > 0 /\ coming' = coming - 1 /\ shown' = A!Cap(shown + 1)
  BY DEF A!Arrive, A!given, A!position, A!seen
<1>2. coming' \in 0 .. 2 /\ shown' \in 0 .. 2
  BY <1>1, CapAdds DEF A!ChainInv
<1>3. A!EffectsAreCounted' /\ A!ActsAgainOnlyUnseen'
  BY <1>1 DEF A!ChainInv, A!EffectsAreCounted, A!ActsAgainOnlyUnseen, A!Repeating, A!Believe, A!Current, A!Cap
<1>4. A!ReportIsTrue'
  BY <1>1 DEF A!ChainInv, A!ReportIsTrue
<1> QED
  BY <1>1, <1>2, <1>3, <1>4 DEF A!ChainInv

\* What others change is not counted as done.
LEMMA MeddlesInChain ==
  ASSUME A!ChainInv, A!Meddle
  PROVE  A!ChainInv'
<1>1. /\ UNCHANGED <<chain, headed, at, tries, earlier, stage, answer, effects, coming, shown, base,
                     recorded, denied, missed, marked, verdict>>
      /\ stage # "done"
  BY DEF A!Meddle, A!position, A!world, A!seen
<1>2. A!EffectsAreCounted' /\ A!ActsAgainOnlyUnseen'
  BY <1>1 DEF A!ChainInv, A!EffectsAreCounted, A!ActsAgainOnlyUnseen, A!Repeating, A!Believe, A!Current
<1>3. A!ReportIsTrue'
  BY <1>1 DEF A!ChainInv, A!ReportIsTrue
<1> QED
  BY <1>1, <1>2, <1>3 DEF A!ChainInv

\* What is made of an answer.
LEMMA AnswerFacts ==
  ASSUME A!ChainInv, stage = "answered"
  PROVE  /\ chain \in DOMAIN A!Chains /\ at \in Nat \ {0} /\ at <= Len(A!Chains[chain])
         /\ shown \in 0 .. 2 /\ base \in 0 .. 2 /\ effects \in 0 .. 2 /\ earlier \in 0 .. 2
         /\ recorded \in {"none", "unverified"}
         /\ earlier > 0 => recorded = "unverified" /\ chain \in {"click", "right_click"}
         /\ earlier > 0 /\ chain = "click" => denied
         /\ earlier > 0 => at > 1
         /\ ~ A!Repeating => effects = earlier \/ effects = A!Cap(earlier + 1)
         /\ ~ A!Repeating /\ A!Believe(answer) => effects = earlier
BY DEF A!ChainInv, A!EffectsAreCounted

LEMMA RefusesInChain ==
  ASSUME A!ChainInv, A!Refused \/ A!Unwritable
  PROVE  A!ChainInv'
<1>1. stage = "answered" /\ A!Fail("failed_not_delivered") /\ A!Believe(answer)
  BY DEF A!Refused, A!Unwritable, A!Answered, A!Believe, A!Believed
<1>2. recorded = "none" /\ ~ A!Repeating => effects = 0
  BY <1>1, AnswerFacts
<1> QED
  BY <1>1, <1>2, FailsTheChain

LEMMA UnsupportedInChain ==
  ASSUME A!ChainInv, A!Unsupported
  PROVE  A!ChainInv'
<1>1. /\ stage = "answered" /\ A!Believe(answer) /\ A!GoOn /\ recorded' = recorded /\ UNCHANGED A!seen
      /\ ~ A!Incrementing
  BY DEF A!Unsupported, A!Answered, A!Believe, A!Believed
<1>2. ~ A!Repeating /\ effects = earlier /\ at <= Len(A!Chains[chain])
  BY <1>1, AnswerFacts, IncrementsRepeat
<1> QED
  BY <1>1, <1>2, GoesOnInChain, LastStepOfSetValue

LEMMA PostsInChain ==
  ASSUME A!ChainInv, A!Posted
  PROVE  A!ChainInv'
<1>1. stage = "answered" /\ A!Current = "physical" /\ at = 1
  BY AnswerFacts, StepsOfTheChain DEF A!Posted, A!Answered
<1>2. CASE A!Fail("failed_unverified")
  BY <1>1, <1>2, FailsTheChain
<1>3. CASE A!Finish(FALSE)
  BY <1>1, <1>3, FinishesTheChain
<1>4. CASE chain = "right_click" /\ A!NextStep /\ recorded' = "unverified" /\ UNCHANGED A!seen
  BY <1>1, <1>4, NextStepInChain DEF A!seen
<1> QED
  BY <1>2, <1>3, <1>4 DEF A!Posted

LEMMA SeesInChain ==
  ASSUME A!ChainInv, A!SeenAfter \/ A!UnseenFailure \/ A!UnseenSuccess \/ A!Uncertain
  PROVE  A!ChainInv'
<1>1. stage = "answered"
  BY DEF A!SeenAfter, A!UnseenFailure, A!UnseenSuccess, A!Uncertain, A!Answered
<1>2. CASE A!SeenAfter
  <2>1. shown > 0 \/ meddled
    BY <1>1, <1>2, AnswerFacts DEF A!SeenAfter
  <2> QED
    BY <1>1, <1>2, <2>1, FinishesTheChain DEF A!SeenAfter
<1>3. CASE A!UnseenFailure \/ A!Uncertain
  BY <1>1, <1>3, FailsTheChain DEF A!UnseenFailure, A!Uncertain
<1>4. CASE A!Finish(FALSE)
  BY <1>1, <1>4, FinishesTheChain
<1>5. CASE /\ A!Current = "press" /\ stage' = "selection"
           /\ UNCHANGED <<A!given, A!position, answer, A!world, base, recorded, A!seen, verdict>>
  <2>1. chain = "click" /\ at > 1
    BY <1>1, <1>5, AnswerFacts, StepsOfTheChain
  <2>2. UNCHANGED <<chain, headed, already, readable, meddled, at, tries, earlier, effects, coming, shown, base,
                    recorded, denied, missed, marked, verdict>>
    BY <1>5 DEF A!given, A!position, A!world, A!seen
  <2>3. effects = earlier \/ effects = A!Cap(earlier + 1)
    BY <1>1, <2>1, AnswerFacts DEF A!Repeating
  <2>4. A!EffectsAreCounted'
    <3>1. A!Cap(earlier + 1)' = A!Cap(earlier + 1)
      BY <2>2 DEF A!Cap
    <3> QED
      BY <1>1, <1>5, <2>1, <2>2, <2>3, <3>1 DEF A!ChainInv, A!EffectsAreCounted
  <2>5. A!ActsAgainOnlyUnseen' /\ A!ReportIsTrue'
    BY <1>1, <2>2 DEF A!ChainInv, A!ActsAgainOnlyUnseen, A!ReportIsTrue
  <2> QED
    BY <1>1, <1>5, <2>1, <2>2, <2>4, <2>5 DEF A!ChainInv
<1> QED
  BY <1>2, <1>3, <1>4, <1>5 DEF A!UnseenSuccess

LEMMA SelectionInChain ==
  ASSUME A!ChainInv, A!SelectionOn \/ A!SelectionUnknown \/ A!SelectionOff
  PROVE  A!ChainInv'
<1>1. stage = "selection" /\ chain = "click" /\ shown \in 0 .. 2 /\ base \in 0 .. 2
  BY DEF A!SelectionOn, A!SelectionUnknown, A!SelectionOff, A!ChainInv
<1>2. CASE A!SelectionOn
  <2>1. shown > 0 \/ already \/ meddled
    BY <1>1, <1>2 DEF A!SelectionOn
  <2> QED
    BY <1>1, <1>2, <2>1, FinishesTheChain DEF A!SelectionOn
<1>3. CASE A!SelectionUnknown
  BY <1>1, <1>3, FinishesTheChain DEF A!SelectionUnknown
<1>4. CASE A!SelectionOff
  BY <1>1, <1>4, NextStepInChain DEF A!SelectionOff
<1> QED
  BY <1>2, <1>3, <1>4

LEMMA WritesInChain ==
  ASSUME A!ChainInv, A!SelectionWritten \/ A!ValueWritten \/ A!MenuAsked
  PROVE  A!ChainInv'
<1>1. stage = "answered" /\ shown \in 0 .. 2 /\ base \in 0 .. 2
  BY DEF A!SelectionWritten, A!ValueWritten, A!MenuAsked, A!Answered, A!ChainInv
<1>2. CASE A!Finish(TRUE) /\ (already \/ shown > base \/ shown > 0 \/ meddled)
  <2>1. shown > 0 \/ already \/ meddled
    BY <1>1, <1>2
  <2> QED
    BY <1>1, <1>2, <2>1, FinishesTheChain
<1>3. CASE A!Finish(FALSE)
  BY <1>1, <1>3, FinishesTheChain
<1>4. CASE A!Fail("failed_unverified") \/ A!Fail("failed_uncertain")
  BY <1>1, <1>4, FailsTheChain
<1>5. CASE A!MenuAsked
  <2>1. chain = "right_click"
    BY <1>1, <1>5, AnswerFacts, StepsOfTheChain DEF A!MenuAsked, A!Answered
  <2>2. CASE A!NextStep /\ recorded' = "unverified" /\ UNCHANGED A!seen
    BY <1>1, <2>1, <2>2, NextStepInChain DEF A!seen
  <2>3. CASE A!Fail("failed_not_delivered")
    <3>1. recorded = "none" => earlier = 0
      BY <1>1, AnswerFacts
    <3>2. A!Current \in A!Menu /\ answer = "yes"
      BY <1>5 DEF A!MenuAsked, A!Answered
    <3> QED
      BY <1>1, <2>3, <3>1, <3>2, FailsTheChain
  <2> QED
    BY <1>2, <1>4, <1>5, <2>2, <2>3 DEF A!MenuAsked
<1> QED
  BY <1>2, <1>3, <1>4, <1>5 DEF A!SelectionWritten, A!ValueWritten

LEMMA IncrementsInChain ==
  ASSUME A!ChainInv, A!Incremented
  PROVE  A!ChainInv'
<1>1. stage = "answered" /\ shown \in 0 .. 2 /\ base \in 0 .. 2 /\ A!Current = "increment"
  BY DEF A!Incremented, A!Answered, A!ChainInv
<1>2. chain = "set_value" /\ at = 2
  BY <1>1, AnswerFacts, StepsOfTheChain
<1>3. CASE A!Finish(TRUE) /\ (shown > base \/ meddled)
  <2>1. shown > 0 \/ meddled
    BY <1>1, <1>3
  <2> QED
    BY <1>1, <1>3, <2>1, FinishesTheChain
<1>4. CASE A!Finish(FALSE)
  BY <1>1, <1>4, FinishesTheChain
<1>5. CASE A!Fail("failed_unverified")
  BY <1>1, <1>5, FailsTheChain
<1>6. CASE /\ tries' = tries + 1 /\ stage' = "step"
           /\ UNCHANGED <<A!given, at, earlier, answer, A!world, base, recorded, A!seen, verdict>>
  <2>1. UNCHANGED <<chain, headed, already, readable, meddled, at, earlier, effects, coming, shown, base,
                    recorded, denied, missed, marked, verdict>>
    BY <1>6 DEF A!given, A!world, A!seen
  <2>2. A!Repeating' /\ tries' \in Nat /\ stage' = "step"
    BY <1>2, <1>6, <2>1 DEF A!Repeating, A!ChainInv
  <2>3. A!EffectsAreCounted'
    BY <1>1, <2>1, <2>2 DEF A!ChainInv, A!EffectsAreCounted
  <2>4. A!ActsAgainOnlyUnseen' /\ A!ReportIsTrue'
    BY <1>1, <2>1 DEF A!ChainInv, A!ActsAgainOnlyUnseen, A!ReportIsTrue
  <2> QED
    BY <1>1, <2>1, <2>2, <2>3, <2>4 DEF A!ChainInv
<1> QED
  BY <1>3, <1>4, <1>5, <1>6 DEF A!Incremented

LEMMA ChainInvIsKept ==
  ASSUME A!ChainInv, [A!Next]_A!chainVars
  PROVE  A!ChainInv'
<1>1. CASE UNCHANGED A!chainVars
  BY <1>1
     DEF A!chainVars, A!given, A!position, A!world, A!seen, A!ChainInv, A!EffectsAreCounted,
         A!Repeating, A!ActsAgainOnlyUnseen, A!ReportIsTrue, A!Believe, A!Current
<1>2. CASE A!Next
  BY <1>2, BeginsTheChain, StopsBefore, NotOfferedInChain, MarksAnItem, AsksInChain, ArrivesInChain,
     MeddlesInChain,
     RefusesInChain, UnsupportedInChain, PostsInChain, SeesInChain, SelectionInChain, WritesInChain,
     IncrementsInChain DEF A!Next
<1> QED
  BY <1>1, <1>2

-----------------------------------------------------------------------------
(* A state that is asked for *)

LEMMA DesireInvStarts ==
  ASSUME D!Init
  PROVE  D!DesireInv
BY DEF D!Init, D!DesireInv, D!StateIsAsReported

LEMMA DesireInvIsKept ==
  ASSUME D!DesireInv, [D!Next]_(D!desiredVars)
  PROVE  D!DesireInv'
<1> USE DEF D!DesireInv, D!StateIsAsReported, D!target, D!control, D!tried, D!End, D!GoTo, D!Shows
<1>1. CASE D!Begin
  BY <1>1 DEF D!Begin
<1>2. CASE D!Arrive
  BY <1>2 DEF D!Arrive, D!Apply
<1>3. CASE D!GiveUp
  BY <1>3 DEF D!GiveUp, D!Failed
<1>4. CASE D!Satisfied
  BY <1>4 DEF D!Satisfied
<1>5. CASE D!Read
  BY <1>5 DEF D!Read
<1>6. CASE D!Write
  BY <1>6 DEF D!Write, D!Effect, D!Apply
<1>7. CASE D!WriteRefused
  BY <1>7 DEF D!WriteRefused
<1>8. CASE D!Spent
  BY <1>8 DEF D!Spent
<1>9. CASE D!Verified
  BY <1>9 DEF D!Verified
<1>10. CASE D!Unseen
  BY <1>10 DEF D!Unseen
<1>11. CASE D!Reread
  BY <1>11 DEF D!Reread
<1>12. CASE D!Flip
  BY <1>12 DEF D!Flip, D!Effect, D!Apply
<1>13. CASE D!FlipUndue
  BY <1>13 DEF D!FlipUndue
<1>14. CASE D!Toggled
  BY <1>14 DEF D!Toggled
<1>15. CASE D!Unsettled
  BY <1>15 DEF D!Unsettled
<1>16. CASE UNCHANGED D!desiredVars
  BY <1>16 DEF D!desiredVars
<1> QED
  BY <1>1, <1>2, <1>3, <1>4, <1>5, <1>6, <1>7, <1>8, <1>9, <1>10, <1>11, <1>12, <1>13,
     <1>14, <1>15, <1>16
     DEF D!Next

-----------------------------------------------------------------------------
(* Applications *)

LEMMA AppInvStarts ==
  ASSUME K!Init
  PROVE  K!AppInv
BY DEF K!Init, K!AppInv, K!AppStages, K!LaunchIsHonest, K!CloseIsHonest, K!LaunchStages,
       K!CloseStages

\* What does not depend on the instances that run, while the command is not over.
LEMMA AppParts ==
  ASSUME K!AppInv, stage # "done", K!AppStages',
         UNCHANGED <<K!call, stage, verdict, doomed, window>>,
         born' \in Nat, 0 \notin alive', 0 \notin baseline', expected' = expected,
         begun' => callback' \in {"failed", "running"},
         callback' = "running" => given' # 0
  PROVE  K!AppInv'
BY DEF K!AppInv, K!LaunchIsHonest, K!CloseIsHonest, K!call

LEMMA AddedApps ==
  ASSUME K!Add, born \in Nat, 0 \notin alive
  PROVE  born' \in Nat /\ 0 \notin alive' /\ born' # 0
BY DEF K!Add

\* Instances come and go.
LEMMA OthersOnApps ==
  ASSUME K!AppInv, K!Quit \/ K!StartedByOthers \/ K!EndDoomed
  PROVE  K!AppInv'
<1>1. /\ stage # "done"
      /\ UNCHANGED <<K!call, stage, K!choice, K!launched, K!look, doomed, verdict>>
      /\ K!Add \/ \E i \in alive : K!Remove(i)
  BY DEF K!Quit, K!StartedByOthers, K!EndDoomed, K!Running
<1>2. /\ UNCHANGED <<K!call, stage, verdict, doomed, window, expected, baseline, given, callback,
                     begun>>
      /\ UNCHANGED <<verb, options>>
  BY <1>1 DEF K!choice, K!launched, K!look, K!call
<1>3. born' \in Nat /\ 0 \notin alive'
  BY <1>1, AddedApps DEF K!AppInv, K!Remove
<1>4. K!AppStages'
  BY <1>2 DEF K!AppInv, K!AppStages, K!TheMeant
<1> QED
  BY <1>1, <1>2, <1>3, <1>4, AppParts DEF K!AppInv

LEMMA BeginOnApps ==
  ASSUME K!AppInv, K!Begin
  PROVE  K!AppInv'
<1>0. /\ verdict' = verdict /\ stage = "new" /\ verb' \in {"launch", "close"}
      /\ verb' = "close" => stage' = "resolving"
      /\ verb' = "launch" => stage' = IF options'.cdp THEN "checking" ELSE "listing"
  BY DEF K!Begin, K!Goto
<1>1. /\ \/ verb' = "close" /\ stage' = "resolving"
         \/ verb' = "launch" /\ stage' \in {"checking", "listing"}
      /\ verdict' = verdict /\ stage = "new"
  BY <1>0
<1>2. PICK n \in 0 .. 2 : alive' = 1 .. n /\ born' = n
  BY DEF K!Begin
<1>3. born' \in Nat /\ 0 \notin alive'
  BY <1>2
<1>4. UNCHANGED <<doomed, window, expected, baseline, given, callback, begun>>
  BY DEF K!Begin, K!choice, K!launched, K!look
<1>5. K!AppStages'
  BY <1>1, <1>4 DEF K!AppInv, K!AppStages, K!LaunchStages, K!CloseStages
<1> QED
  BY <1>1, <1>3, <1>4, <1>5 DEF K!AppInv, K!LaunchIsHonest, K!CloseIsHonest

\* The command goes on, or ends, and no instance is touched by it.
LEMMA GoesOnInApps ==
  ASSUME K!AppInv, stage # "done", NEW s, s # "done", K!Goto(s), K!AppStages',
         UNCHANGED <<K!instances, K!call>>, window' = window,
         0 \notin baseline', begun' = begun, callback' = "running" => given' # 0,
         begun' => callback' \in {"failed", "running"},
         doomed' = doomed \/ (verb = "close" /\ s = "exiting"), doomed' \subseteq {expected'},
         doomed = {}
  PROVE  K!AppInv'
BY DEF K!AppInv, K!LaunchIsHonest, K!CloseIsHonest, K!Goto, K!call, K!instances

LEMMA EndsInApps ==
  ASSUME K!AppInv, stage # "done", NEW v, v # "none", K!End(v),
         UNCHANGED <<K!instances, K!call, K!choice, K!launched>>,
         window' \in {0, given},
         doomed' = doomed \/ (verb = "close" /\ v \notin {"failed_not_delivered", "failed_unknown"}
                              /\ doomed' \subseteq {expected}),
         v \in {"failed_not_delivered", "failed_unknown"} => doomed = {} /\ ~ begun,
         v = "ok" /\ verb = "launch" => K!TheMeant,
         v = "ok" /\ verb = "close" => expected \notin alive
  PROVE  K!AppInv'
<1>1. K!AppStages'
  BY DEF K!AppStages, K!End, K!LaunchStages, K!CloseStages
<1>2. K!LaunchIsHonest'
  BY DEF K!LaunchIsHonest, K!TheMeant, K!End, K!call, K!choice, K!launched
<1>3. K!CloseIsHonest'
  BY DEF K!CloseIsHonest, K!AppInv, K!End, K!call, K!choice, K!instances
<1> QED
  BY <1>1, <1>2, <1>3 DEF K!AppInv, K!End, K!call, K!choice, K!instances, K!launched

LEMMA EarlyInApps ==
  ASSUME K!AppInv,
         stage \in {"new", "checking", "listing", "deciding", "attaching", "opening", "resolving",
                    "revalidating", "terminating", "requesting", "rejected"}
  PROVE  ~ begun /\ doomed = {} /\ callback = "none" /\ window = 0
BY DEF K!AppInv, K!AppStages

\* Before Launch Services is asked, and before the instance is.
LEMMA BeforeOnApps ==
  ASSUME K!AppInv, K!FailBefore \/ K!CheckFresh \/ K!NotAccepted \/ K!Revalidate
  PROVE  K!AppInv'
<1>1. stage # "done" /\ ~ begun /\ doomed = {} /\ callback = "none" /\ window = 0
  BY EarlyInApps DEF K!FailBefore, K!CheckFresh, K!NotAccepted, K!Revalidate
<1>2. /\ UNCHANGED <<K!instances, K!call, K!choice, K!launched, K!look, doomed>>
      /\ window' = window
  BY DEF K!FailBefore, K!CheckFresh, K!NotAccepted, K!Revalidate, K!look
<1>3. CASE \/ K!End("failed_not_delivered")
           \/ K!End("failed_unknown")
  BY <1>1, <1>2, <1>3, EndsInApps
<1>4. CASE K!CheckFresh /\ K!Goto("listing")
  <2>1. K!AppStages'
    BY <1>2, <1>4
       DEF K!AppInv, K!AppStages, K!CheckFresh, K!Goto, K!call, K!choice, K!launched,
           K!LaunchStages, K!CloseStages
  <2> QED
    BY <1>1, <1>2, <1>4, <2>1, GoesOnInApps DEF K!choice, K!launched, K!AppInv
<1>5. CASE K!Revalidate /\ K!Goto("terminating")
  <2>1. K!AppStages'
    BY <1>2, <1>5
       DEF K!AppInv, K!AppStages, K!Revalidate, K!Goto, K!call, K!choice, K!launched,
           K!LaunchStages, K!CloseStages
  <2> QED
    BY <1>1, <1>2, <1>5, <2>1, GoesOnInApps DEF K!choice, K!launched, K!AppInv
<1> QED
  BY <1>3, <1>4, <1>5 DEF K!FailBefore, K!CheckFresh, K!NotAccepted, K!Revalidate

LEMMA ListOnApps ==
  ASSUME K!AppInv, K!ListApps
  PROVE  K!AppInv'
<1>1. stage = "listing" /\ ~ begun /\ doomed = {} /\ callback = "none" /\ window = 0
  BY EarlyInApps DEF K!ListApps
<1>2. /\ UNCHANGED <<K!instances, K!call, given, callback, begun, expected, window, doomed>>
      /\ baseline' = alive /\ K!Goto("deciding")
  BY DEF K!ListApps, K!launched, K!look
<1>3. K!AppStages'
  BY <1>1, <1>2 DEF K!AppInv, K!AppStages, K!Goto, K!call, K!LaunchStages, K!CloseStages
<1> QED
  BY <1>1, <1>2, <1>3, GoesOnInApps DEF K!AppInv

LEMMA DecideOnApps ==
  ASSUME K!AppInv, K!Decide
  PROVE  K!AppInv'
<1>1. stage = "deciding" /\ ~ begun /\ doomed = {} /\ callback = "none" /\ window = 0
  BY EarlyInApps DEF K!Decide
<1>2. /\ UNCHANGED <<K!instances, K!call, callback, begun, baseline, window, doomed>>
      /\ UNCHANGED <<verb, options>>
  BY DEF K!Decide, K!look, K!call
<1>3. CASE (~ options.attach \/ baseline = {}) /\ K!Goto("opening") /\ UNCHANGED <<expected, given>>
  <2>1. K!AppStages'
    BY <1>1, <1>2, <1>3 DEF K!AppInv, K!AppStages, K!Goto, K!LaunchStages, K!CloseStages
  <2> QED
    BY <1>1, <1>2, <1>3, <2>1, GoesOnInApps DEF K!AppInv
<1>4. CASE K!End("failed_not_delivered") /\ UNCHANGED <<expected, given>>
  BY <1>1, <1>2, <1>4, EndsInApps DEF K!choice, K!launched
<1>5. ASSUME NEW i \in baseline, baseline = {i}, options.attach, expected' \in baseline,
             \/ K!Goto("opening") /\ given' = given
             \/ K!Goto("attaching") /\ given' = expected'
      PROVE  K!AppInv'
  <2>1. baseline' = {expected'} /\ expected' # 0 /\ baseline # {} /\ callback' = "none"
        /\ stage' \in {"opening", "attaching"}
    BY <1>1, <1>2, <1>5 DEF K!AppInv, K!Goto
  <2>2. K!AppStages'
    BY <1>1, <1>2, <1>5, <2>1 DEF K!AppInv, K!AppStages, K!Goto, K!LaunchStages, K!CloseStages
  <2> QED
    BY <1>1, <1>2, <1>5, <2>1, <2>2, GoesOnInApps DEF K!AppInv
<1> QED
  BY <1>3, <1>4, <1>5 DEF K!Decide

LEMMA AttachOnApps ==
  ASSUME K!AppInv, K!Attach
  PROVE  K!AppInv'
<1>1. stage = "attaching" /\ ~ begun /\ doomed = {} /\ callback = "none" /\ window = 0
  BY EarlyInApps DEF K!Attach
<1>2. UNCHANGED <<K!instances, K!call, K!choice, K!launched, doomed>>
  BY DEF K!Attach
<1>3. K!TheMeant /\ verb = "launch"
  BY <1>1 DEF K!AppInv, K!AppStages, K!TheMeant, K!LaunchStages
<1>4. \/ K!Launched /\ window' \in {0, given}
      \/ K!End("failed_not_delivered") /\ window' = window
  BY <1>1 DEF K!Attach
<1> QED
  BY <1>1, <1>2, <1>3, <1>4, EndsInApps DEF K!Launched

LEMMA AskOnApps ==
  ASSUME K!AppInv, K!Open
  PROVE  K!AppInv'
<1>1. stage = "opening" /\ ~ begun /\ doomed = {} /\ callback = "none" /\ window = 0
  BY EarlyInApps DEF K!Open
<1>2. /\ UNCHANGED <<K!instances, K!call, begun, expected, baseline, window, doomed>>
      /\ callback' = "pending" /\ K!Goto("waiting")
  BY DEF K!Open, K!look, K!choice
<1>3. K!AppStages'
  BY <1>1, <1>2 DEF K!AppInv, K!AppStages, K!Goto, K!call, K!LaunchStages, K!CloseStages
<1> QED
  BY <1>1, <1>2, <1>3, GoesOnInApps DEF K!AppInv

\* What Launch Services does while it is waited for, or has been given up.
LEMMA AnswersOnApps ==
  ASSUME K!AppInv, K!Unknown \/ K!LaunchServices
  PROVE  K!AppInv'
<1>1. /\ stage = "waiting" /\ callback = "pending" /\ ~ begun
  BY DEF K!Unknown, K!LaunchServices, K!Running, K!AppInv, K!AppStages
<1>2. /\ UNCHANGED <<K!call, stage, verdict, doomed, window, expected, baseline>>
      /\ UNCHANGED <<verb, options>>
  BY DEF K!Unknown, K!LaunchServices, K!choice, K!look, K!call
<1>3. /\ callback' \in {"refused", "failed", "running"}
      /\ born' \in Nat /\ 0 \notin alive' /\ (callback' = "running" => given' # 0)
      /\ begun' => callback' \in {"failed", "running"}
  <2>1. CASE K!Unknown
    BY <1>1, <2>1 DEF K!Unknown, K!AppInv, K!instances
  <2>2. CASE K!Add /\ K!LaunchServices
    <3>1. born' \in Nat /\ 0 \notin alive' /\ born' # 0
      BY <2>2, AddedApps DEF K!AppInv
    <3>3. /\ \/ given' = born' /\ callback' = "running"
             \/ callback' = "failed"
             \/ given' \in alive /\ callback' = "running"
      BY <2>2 DEF K!LaunchServices
    <3> QED
      BY <3>1, <3>3 DEF K!AppInv
  <2>3. CASE ~ K!Add /\ K!LaunchServices
    BY <2>3 DEF K!LaunchServices, K!AppInv, K!instances
  <2> QED
    BY <2>1, <2>2, <2>3
<1>4. K!AppStages'
  BY <1>1, <1>2, <1>3 DEF K!AppInv, K!AppStages, K!TheMeant
<1> QED
  BY <1>1, <1>2, <1>3, <1>4, AppParts DEF K!AppInv

LEMMA AnsweredOnApps ==
  ASSUME K!AppInv, K!GiveUpWaiting \/ K!Answered \/ K!Validate \/ K!SettleForNone
  PROVE  K!AppInv'
<1>1. /\ UNCHANGED <<K!instances, K!call, K!choice, K!launched, K!look, doomed>>
      /\ UNCHANGED <<given, callback, begun, expected, baseline, window, verb, options>>
      /\ stage \in {"waiting", "validating", "pausing"}
  BY DEF K!GiveUpWaiting, K!Answered, K!Validate, K!SettleForNone, K!choice, K!launched, K!look,
         K!call
<1>2. /\ verb = "launch" /\ window = 0 /\ doomed = {} /\ stage # "done"
      /\ stage \in {"validating", "pausing"} => callback = "running"
      /\ stage = "pausing" => K!TheMeant
      /\ stage \in {"waiting", "validating"} =>
           IF options.attach /\ baseline # {} THEN baseline = {expected} ELSE expected = 0
      /\ callback = "running" => given # 0
      /\ begun => callback \in {"failed", "running"}
      /\ 0 \notin baseline
  BY <1>1 DEF K!AppInv, K!AppStages, K!LaunchStages
<1>3. CASE \/ K!End("failed_uncertain")
           \/ K!End("failed_unverified")
  BY <1>1, <1>2, <1>3, EndsInApps
<1>4. CASE K!Answered /\ callback = "refused" /\ K!End("failed_not_delivered")
  BY <1>1, <1>2, <1>4, EndsInApps
<1>5. CASE K!SettleForNone /\ K!Launched
  <2>1. K!TheMeant
    BY <1>2, <1>5 DEF K!SettleForNone
  <2>2. CASE K!End("ok")
    BY <1>1, <1>2, <2>1, <2>2, EndsInApps
  <2>3. CASE K!End("failed_unverified")
    BY <1>3, <2>3
  <2> QED
    BY <1>5, <2>2, <2>3 DEF K!Launched
<1>6. CASE K!Answered /\ callback = "running" /\ K!Goto("validating")
  <2>1. K!AppStages'
    BY <1>1, <1>2, <1>6
       DEF K!Answered, K!AppStages, K!Goto, K!LaunchStages, K!CloseStages
  <2> QED
    BY <1>1, <1>2, <1>6, <2>1, GoesOnInApps
<1>7. CASE K!Validate /\ K!Goto("settling") /\ IF expected # 0 THEN given = expected ELSE given \notin baseline
  <2>1. K!TheMeant
    BY <1>2, <1>7 DEF K!Validate, K!TheMeant
  <2>2. stage' = "settling" /\ callback' = "running" /\ K!TheMeant' /\ verb' = "launch"
    BY <1>1, <1>2, <1>7, <2>1 DEF K!Validate, K!TheMeant, K!Goto
  <2>3. K!AppStages'
    BY <2>2 DEF K!AppStages, K!LaunchStages, K!CloseStages
  <2> QED
    BY <1>1, <1>2, <1>7, <2>3, GoesOnInApps
<1> QED
  BY <1>3, <1>4, <1>5, <1>6, <1>7 DEF K!GiveUpWaiting, K!Answered, K!Validate, K!SettleForNone

\* The window of the instance is waited for.
LEMMA SettlingOnApps ==
  ASSUME K!AppInv, K!Settle \/ K!GraceOver \/ K!Poll
  PROVE  K!AppInv'
<1>1. /\ UNCHANGED <<K!instances, K!call, K!choice, K!launched, doomed>>
      /\ UNCHANGED <<given, callback, begun, expected, baseline, verb, options>>
      /\ stage \in {"settling", "pausing"}
  BY DEF K!Settle, K!GraceOver, K!Poll, K!choice, K!launched, K!call
<1>2. /\ verb = "launch" /\ window = 0 /\ doomed = {} /\ stage # "done"
      /\ callback = "running" /\ K!TheMeant
      /\ callback = "running" => given # 0
      /\ begun => callback \in {"failed", "running"}
      /\ 0 \notin baseline
  BY <1>1 DEF K!AppInv, K!AppStages, K!LaunchStages
<1>3. stage' \in {"settling", "pausing"} => K!AppStages'
  BY <1>1, <1>2 DEF K!AppStages, K!TheMeant, K!LaunchStages, K!CloseStages
<1>4. CASE K!GraceOver
  BY <1>1, <1>2, <1>3, <1>4, AppParts DEF K!GraceOver, K!AppInv, K!instances
<1>5. ASSUME NEW s \in {"settling", "pausing"}, K!Goto(s), window' = window
      PROVE  K!AppInv'
  BY <1>1, <1>2, <1>3, <1>5, GoesOnInApps DEF K!Goto
<1>6. CASE K!Launched /\ window' \in {0, given}
  BY <1>1, <1>2, <1>6, EndsInApps DEF K!Launched
<1>7. CASE K!End("failed_unverified") /\ window' = window
  BY <1>1, <1>2, <1>7, EndsInApps
<1>8. K!Settle => \/ window' = window /\ K!Goto("pausing")
                  \/ K!Launched /\ window' \in {0, given}
                  \/ K!End("failed_unverified") /\ window' = window
  BY DEF K!Settle
<1>9. K!Poll => window' = window /\ (K!Goto("settling") \/ K!End("failed_unverified"))
  BY DEF K!Poll
<1> QED
  BY <1>4, <1>5, <1>6, <1>7, <1>8, <1>9

LEMMA ResolveOnApps ==
  ASSUME K!AppInv, K!Resolve
  PROVE  K!AppInv'
<1>1. stage = "resolving" /\ ~ begun /\ doomed = {} /\ callback = "none" /\ window = 0
  BY EarlyInApps DEF K!Resolve
<1>2. /\ UNCHANGED <<K!instances, K!call, baseline, K!launched, doomed, window>>
      /\ UNCHANGED <<verb, options, given, callback, begun>>
  BY DEF K!Resolve, K!look, K!call, K!launched
<1>3. CASE K!Goto("revalidating")
  <2>1. K!AppStages'
    BY <1>1, <1>2, <1>3 DEF K!AppInv, K!AppStages, K!Goto, K!LaunchStages, K!CloseStages
  <2> QED
    BY <1>1, <1>2, <1>3, <2>1, GoesOnInApps DEF K!AppInv
<1>4. CASE K!End("failed_not_delivered") /\ UNCHANGED expected
  BY <1>1, <1>2, <1>4, EndsInApps DEF K!choice
<1> QED
  BY <1>3, <1>4 DEF K!Resolve

LEMMA ClosingOnApps ==
  ASSUME K!AppInv, K!AlreadyGone \/ K!Matches \/ K!Terminate \/ K!WaitForExit
  PROVE  K!AppInv'
<1>1. /\ UNCHANGED <<K!instances, K!call, K!choice, K!launched, K!look>>
      /\ UNCHANGED <<given, callback, begun, expected, baseline, verb, options, window, alive>>
      /\ stage \in {"terminating", "rejected", "requesting", "exiting"}
  BY DEF K!AlreadyGone, K!Matches, K!Terminate, K!WaitForExit, K!choice, K!launched, K!call, K!look,
         K!instances
<1>2. /\ verb = "close" /\ window = 0 /\ stage # "done" /\ ~ begun /\ callback = "none"
      /\ stage # "exiting" => doomed = {}
      /\ doomed \subseteq {expected} /\ 0 \notin baseline
  BY <1>1 DEF K!AppInv, K!AppStages, K!CloseStages, K!CloseIsHonest
<1>3. stage' \in {"requesting", "rejected", "exiting"} => K!AppStages'
  BY <1>1, <1>2 DEF K!AppStages, K!LaunchStages, K!CloseStages
<1>4. CASE K!End("ok") /\ expected \notin alive /\ doomed' = doomed
  BY <1>1, <1>2, <1>4, EndsInApps
<1>5. CASE K!End("failed_unverified") /\ doomed' = doomed
  BY <1>1, <1>2, <1>5, EndsInApps
<1>6. CASE K!Matches
  BY <1>1, <1>2, <1>3, <1>6, GoesOnInApps DEF K!Matches, K!Goto
<1>7. CASE K!Terminate
  <2>1. CASE K!Goto("exiting") /\ doomed' = {expected}
    BY <1>1, <1>2, <1>3, <1>7, <2>1, GoesOnInApps DEF K!Goto, K!Terminate
  <2>2. CASE K!End("failed_uncertain") /\ doomed' \subseteq {expected}
    BY <1>1, <1>2, <1>7, <2>2, EndsInApps DEF K!Terminate
  <2>3. CASE K!Goto("rejected") /\ doomed' = doomed
    BY <1>1, <1>2, <1>3, <1>7, <2>3, GoesOnInApps DEF K!Goto, K!Terminate
  <2>4. CASE K!End("failed_not_delivered") /\ doomed' = doomed
    BY <1>1, <1>2, <1>7, <2>4, EndsInApps DEF K!Terminate
  <2> QED
    BY <1>7, <2>1, <2>2, <2>3, <2>4 DEF K!Terminate
<1> QED
  BY <1>4, <1>5, <1>6, <1>7 DEF K!AlreadyGone, K!WaitForExit

LEMMA AppInvIsKept ==
  ASSUME K!AppInv, [K!Next]_K!appVars
  PROVE  K!AppInv'
<1>1. CASE UNCHANGED K!appVars
  BY <1>1
     DEF K!appVars, K!call, K!instances, K!choice, K!launched, K!look, K!AppInv, K!AppStages,
         K!LaunchIsHonest, K!CloseIsHonest, K!TheMeant
<1>2. CASE K!Next
  BY <1>2, OthersOnApps, BeginOnApps, BeforeOnApps, ListOnApps, DecideOnApps, AttachOnApps,
     AskOnApps, AnswersOnApps, AnsweredOnApps, SettlingOnApps, ResolveOnApps, ClosingOnApps
     DEF K!Next
<1> QED
  BY <1>1, <1>2
=============================================================================
