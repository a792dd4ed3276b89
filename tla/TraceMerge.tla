----------------------------- MODULE TraceMerge -----------------------------
(***************************************************************************)
(* The trace of a session: every process appends the events of its         *)
(* commands to a segment of its own (trace.rs), and a reader merges the    *)
(* segments by wall clock (trace_read/{mod,segment,merge}.rs).             *)
(*                                                                         *)
(* A write may stop in the middle: the process dies or the disk is full.   *)
(* The reader takes no lock and reads the segments one after the other,    *)
(* while the others go on writing.  The clock may be set back.             *)
(***************************************************************************)
EXTENDS Naturals, Sequences, FiniteSets, SequencesExt

CONSTANTS
  MaxWriters,  \* bound: processes that write, numbered as the kernel numbers them
  MaxEvents,   \* bound: events of each
  MaxClock     \* bound: the latest time

VARIABLES
  clock,     \* the wall clock when the last event was written
  setBack,   \* whether it was set back
  segments,  \* the lines of each segment: an event, or what is left of one (Broken)
  open,      \* whether the last line of a segment is not terminated
  emitted,   \* the events that each process emitted, in order, with their times
  failing,   \* the processes whose write failed, and which may go on
  stage,     \* the reader: "new", "reading", "merging", "done"
  before,    \* how many events each process had emitted when the reader began
  streams,   \* what was read of each segment
  skipped,   \* the segments of which a line was skipped
  merged     \* the events in the order of the trace

log == <<segments, open, emitted, failing>>
time == <<clock, setBack>>
reader == <<stage, before, streams, skipped, merged>>
traceVars == <<time, log, reader>>

Writers == 1 .. MaxWriters
Event(p, n, t) == [writer |-> p, number |-> n, at |-> t]
Broken == Event(0, 0, 0)
IsEvent(line) == line # Broken

\* The reader has yet to come to the segment.
Unread(p) == streams[p] = <<>> /\ p \notin skipped

-----------------------------------------------------------------------------
(* Writing *)

\* The wall clock when an event is written, which may have been set back once.
\* A segment that was read is not looked at again.
At(p, t) ==
  /\ stage \in {"new", "reading"} /\ Unread(p) /\ Len(emitted[p]) < MaxEvents
  /\ clock <= t \/ ~ setBack
  /\ clock' = t /\ setBack' = (setBack \/ t < clock)

\* The event that a process writes next: one that could not be written counts,
\* since the command goes on without it (unless its trace is strict).
Number(p) == Len(emitted[p]) + IF p \in failing THEN 2 ELSE 1

\* write_event_locked: the time is taken under the lock.  The header of the
\* segment is written like an event.  What is appended to a line that was not
\* terminated is lost with it.
Emit(p, t) ==
  /\ At(p, t)
  /\ LET event == Event(p, Number(p), t)
     IN /\ emitted' = [emitted EXCEPT ![p] = Append(@, event)]
        /\ segments' = [segments EXCEPT ![p] = IF open[p] THEN @ ELSE Append(@, event)]
  /\ open' = [open EXCEPT ![p] = FALSE]
  /\ UNCHANGED <<failing, reader>>

\* The write stops in the middle, that of the header included: its event is not
\* emitted, a part of it stays in the file.  The process goes on with its next.
EmitPart(p, t) ==
  /\ At(p, t) /\ failing = {}
  /\ failing' = {p}
  /\ segments' = [segments EXCEPT ![p] = Append(@, Broken)]
  /\ open' = [open EXCEPT ![p] = TRUE]
  /\ UNCHANGED <<emitted, reader>>

-----------------------------------------------------------------------------
(* Reading *)

Begin ==
  /\ stage = "new"
  /\ stage' = "reading"
  /\ before' = [p \in Writers |-> Len(emitted[p])]
  /\ UNCHANGED <<time, log, streams, skipped, merged>>

\* read_segment_events: a line that is not terminated or does not parse is
\* skipped, and counted.
ReadSegment(p) ==
  /\ stage = "reading" /\ Unread(p)
  /\ streams' = [streams EXCEPT ![p] = SelectSeq(segments[p], IsEvent)]
  /\ skipped' = IF Broken \in ToSet(segments[p]) THEN skipped \cup {p} ELSE skipped
  /\ UNCHANGED <<time, log, stage, before, merged>>

\* read_dir showed every file that was there to begin with.
StartMerge ==
  /\ stage = "reading"
  /\ \A p \in Writers : before[p] > 0 => ~ Unread(p)
  /\ stage' = "merging"
  /\ UNCHANGED <<time, log, before, streams, skipped, merged>>

\* stream_head_key: the time, then the process.
Earlier(a, b) == a.at < b.at \/ (a.at = b.at /\ a.writer <= b.writer)

\* merge_segments: the earliest of the heads is next.
Merge(p) ==
  /\ stage = "merging" /\ streams[p] # <<>>
  /\ \A q \in Writers : streams[q] # <<>> => Earlier(Head(streams[p]), Head(streams[q]))
  /\ merged' = Append(merged, Head(streams[p]))
  /\ streams' = [streams EXCEPT ![p] = Tail(@)]
  /\ UNCHANGED <<time, log, stage, before, skipped>>

Finish ==
  /\ stage = "merging" /\ \A p \in Writers : streams[p] = <<>>
  /\ stage' = "done"
  /\ UNCHANGED <<time, log, before, streams, skipped, merged>>

-----------------------------------------------------------------------------
(* What is said of the trace *)

\* A process runs its commands one after the other: its events are the start
\* and the end of one in turn.
Starts(event) == event.number % 2 = 1
Other(event) == IF Starts(event) THEN event.number + 1 ELSE event.number - 1

\* A start is kept until the end of the same command in the same segment, or
\* the next start, comes.
Pair(state, event) ==
  LET mine == {s \in state.started : s.writer = event.writer} IN
  IF Starts(event)
  THEN [state EXCEPT !.started = (@ \ mine) \cup {event}]
  ELSE [started |-> state.started \ mine,
        alone |-> state.alone \cup IF mine = {} THEN {event} ELSE {}]

\* detect_unpaired_commands
Unpaired(events) ==
  LET last == FoldLeft(Pair, [started |-> {}, alone |-> {}], events)
  IN  last.started \cup last.alone

-----------------------------------------------------------------------------

Init ==
  /\ clock = 0 /\ setBack = FALSE
  /\ segments = [p \in Writers |-> <<>>] /\ open = [p \in Writers |-> FALSE]
  /\ emitted = [p \in Writers |-> <<>>] /\ failing = {}
  /\ stage = "new" /\ before = [p \in Writers |-> 0] /\ streams = [p \in Writers |-> <<>>]
  /\ skipped = {} /\ merged = <<>>

Write == \E p \in Writers, t \in 0 .. MaxClock : Emit(p, t) \/ EmitPart(p, t)
Read == Begin \/ StartMerge \/ Finish \/ \E p \in Writers : ReadSegment(p) \/ Merge(p)

Next == Write \/ Read

Spec == Init /\ [][Next]_traceVars

-----------------------------------------------------------------------------
(* Properties *)

TypeOK ==
  /\ clock \in 0 .. MaxClock /\ setBack \in BOOLEAN
  /\ \A p \in Writers :
       /\ \A i \in 1 .. Len(segments[p]) : segments[p][i] \in ToSet(emitted[p]) \cup {Broken}
       /\ \A i \in 1 .. Len(emitted[p]) : emitted[p][i].writer = p /\ emitted[p][i].number \in {i, i + 1}
       /\ open[p] \in BOOLEAN /\ before[p] \in 0 .. MaxEvents
  /\ failing \subseteq Writers /\ skipped \subseteq Writers
  /\ stage \in {"new", "reading", "merging", "done"}
  /\ ToSet(merged) \subseteq UNION {ToSet(emitted[p]) : p \in Writers}

Position(e) == CHOOSE i \in 1 .. Len(merged) : merged[i] = e

\* The trace has every event that was emitted before it was read, once, but
\* for one behind a write that stopped in the middle, and then says that a
\* line was skipped.
TraceIsComplete ==
  stage = "done" =>
    /\ \A i, j \in 1 .. Len(merged) : merged[i] = merged[j] => i = j
    /\ \A p \in Writers : \A n \in 1 .. before[p] :
         \/ emitted[p][n] \in ToSet(merged)
         \/ p \in skipped /\ p \in failing
    /\ \A p \in Writers : Cardinality({n \in 1 .. before[p] : emitted[p][n] \notin ToSet(merged)}) <= 1

\* The events of a process are in the order in which it emitted them, whatever
\* the clock says; those of two are in the order of the clock, unless it was
\* set back.
TraceIsInOrder ==
  stage = "done" =>
    \A a, b \in ToSet(merged) :
      /\ a.writer = b.writer /\ a.number < b.number => Position(a) < Position(b)
      /\ ~ setBack /\ a.at < b.at => Position(a) < Position(b)

\* The reader warns of a command only where the other half of it is missing
\* from the trace: it had not ended yet, or its events were lost.
WarningsAreTrue ==
  stage = "done" =>
    \A e \in Unpaired(merged), f \in ToSet(merged) :
      ~ (f.writer = e.writer /\ f.number = Other(e))
=============================================================================
