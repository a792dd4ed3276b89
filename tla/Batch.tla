------------------------------- MODULE Batch -------------------------------
(***************************************************************************)
(* A batch of commands, src/batch/{preparation,execution,result_entry}.rs, *)
(* and the waits for an event in it, core's commands/wait_event.rs and     *)
(* signals.rs.                                                             *)
(*                                                                         *)
(* Entries run one after the other.  Before the entry that precedes a wait *)
(* for an event the batch observes the desktop; the wait compares what it  *)
(* observes with that baseline.  The desktop changes on its own, also as   *)
(* the effect of an entry.                                                 *)
(***************************************************************************)
EXTENDS Naturals, Sequences, FiniteSets

CONSTANTS
  Windows,     \* windows, each of which opens at most once
  NoBaseline,  \* stands for a missing baseline and a missing finding
  MaxEntries   \* bound: the length of a batch

VARIABLES
  entries,     \* the kinds of the entries of the batch
  stopOnError, \* the flag of the batch
  index,       \* the entry the loop is at
  at,          \* where the batch is
  pending,     \* the baseline for the next entry, as pending_baseline
  seed,        \* the baseline of the wait that runs
  scope,       \* the process the wait watches
  want,        \* the kind of event it waits for
  results,     \* the entries of the response
  ran,         \* the entries that were dispatched
  verdict,     \* how the batch ended
  expired,     \* whether the deadline of the batch has passed
  sessionOver, \* whether the manifest of the session says that it has ended
  status,      \* each window: "unborn", "open" or "gone"
  instance,    \* the process of the application that is watched
  focused,     \* its window that has the focus, 0 for none
  dispatched,  \* what was open when the entry before was dispatched
  found,       \* the event that the last wait reported, NoBaseline for none
  last         \* the last complete observation of the last wait

loopVars == <<entries, stopOnError, index, pending>>
waitVars == <<seed, scope, want, found, last>>
reportVars == <<results, ran, verdict>>
deskVars == <<status, instance, focused>>
vars == <<loopVars, at, waitVars, reportVars, expired, sessionOver, deskVars, dispatched>>

\* A command outside the session, one in the session, the end of the session,
\* and a wait for an event.
Kinds == {"act", "scoped", "end", "wait"}

Events == {"opened", "closed", "focused", "launched"}

Open == {w \in Windows : status[w] = "open"}

\* capture_signal_baseline: complete on macOS, where a part that cannot be read
\* fails the capture; other adapters may say that something may be missing.
\* What is really there goes with it for the properties.
Observation(ws, p, complete) ==
  [windows |-> ws, process |-> p, complete |-> complete,
   focus |-> IF focused \in ws THEN focused ELSE 0, actual |-> Open, front |-> focused]

Observable ==
  {Observation(Open, instance, TRUE)} \cup
  {Observation(ws, instance, FALSE) : ws \in SUBSET Open} \cup {Observation({}, 0, FALSE)}

\* diff_focus: the window that has the focus now, or none that has.
FocusChange(base, cur) == {cur.focus} \ {base.focus}

\* diff_apps
Launches(base, cur) == {cur.process} \ {base.process, 0}

\* diff_signals and find_match: what the events of a kind are about.
Diff(base, cur, kind) ==
  CASE ~ base.complete \/ ~ cur.complete -> {}
    [] OTHER -> CASE kind = "opened" -> cur.windows \ base.windows
                  [] kind = "closed" -> base.windows \ cur.windows
                  [] kind = "focused" -> FocusChange(base, cur)
                  [] kind = "launched" -> Launches(base, cur)

\* signal_filter: a wait for an application watches no process, the others
\* that of the baseline, or the one that runs.
Scope(base, kind) ==
  CASE kind = "launched" -> 0
    [] kind # "launched" /\ base # NoBaseline /\ base.process # 0 -> base.process
    [] OTHER -> instance

Entry(i, execution) == [index |-> i, execution |-> execution]
Kind == entries[index]
NextIsWait == index < Len(entries) /\ entries[index + 1] = "wait"

\* The batch ends; a response that is too large as a whole (results, and what is said
\* of the batch) is replaced by an error that keeps the number of completed entries.
Stop(reason) ==
  /\ at' = "done"
  /\ \/ verdict' = reason
     \/ reason # "invalid" /\ verdict' = "response_limit"

\* The loop goes on to the entry after this one, or ends.
Advance ==
  IF index = Len(entries)
  THEN Stop("complete") /\ UNCHANGED index
  ELSE at' = "checking" /\ index' = index + 1 /\ UNCHANGED verdict

-----------------------------------------------------------------------------
(* The desktop *)

WindowOpens(w) ==
  /\ want = "opened" /\ status[w] = "unborn"
  /\ status' = [status EXCEPT ![w] = "open"]
  /\ UNCHANGED <<instance, focused>>

WindowCloses(w) ==
  /\ want # "launched" /\ status[w] = "open"
  /\ status' = [status EXCEPT ![w] = "gone"]
  /\ focused' = IF focused = w THEN 0 ELSE focused
  /\ UNCHANGED instance

FocusMoves ==
  /\ want = "focused"
  /\ focused' \in (Open \cup {0}) \ {focused}
  /\ UNCHANGED <<status, instance>>

AppRestarts ==
  /\ instance = 1 /\ instance' = 2
  /\ status' = [w \in Windows |-> IF status[w] = "open" THEN "gone" ELSE status[w]]
  /\ focused' = 0

\* What no wait looks at is left alone.
Desktop ==
  /\ at \notin {"start", "done"} /\ \E i \in index .. Len(entries) : entries[i] = "wait"
  /\ (\E w \in Windows : WindowOpens(w) \/ WindowCloses(w)) \/ FocusMoves \/ AppRestarts
  /\ UNCHANGED <<loopVars, at, waitVars, reportVars, expired, sessionOver, dispatched>>

Expire ==
  /\ at \notin {"start", "done"} /\ ~ expired
  /\ expired' = TRUE
  /\ UNCHANGED <<loopVars, at, waitVars, reportVars, sessionOver, deskVars, dispatched>>

\* Another process ends the session.
EndElsewhere ==
  /\ at \notin {"start", "done"} /\ ~ sessionOver
  /\ sessionOver' = TRUE
  /\ UNCHANGED <<loopVars, at, waitVars, reportVars, expired, deskVars, dispatched>>

-----------------------------------------------------------------------------
(* The loop *)

\* prepare: every entry is valid, or none is run.
Prepare ==
  /\ at = "start"
  /\ \/ /\ \E n \in 1 .. MaxEntries : entries' \in [1 .. n -> Kinds]
        /\ stopOnError' \in BOOLEAN
        /\ want' \in IF \E i \in DOMAIN entries' : entries'[i] = "wait" THEN Events ELSE {want}
        /\ status' \in [Windows -> IF want' = "launched" THEN {"unborn"} ELSE {"unborn", "open"}]
        /\ at' = "checking" /\ UNCHANGED verdict
     \/ Stop("invalid") /\ UNCHANGED <<entries, stopOnError, want, status>>
  /\ UNCHANGED <<index, pending, seed, scope, found, last, results, ran, expired, sessionOver,
                 instance, focused, dispatched>>

RefuseLate ==
  /\ at = "checking" /\ expired
  /\ results' = Append(results, Entry(index, "not_started"))
  /\ Stop("deadline")
  /\ UNCHANGED <<loopVars, waitVars, ran, expired, sessionOver, deskVars, dispatched>>

\* A plausible mistake: the wait does not get the baseline that was taken for it.
CheckSessionUnseeded ==
  /\ at = "checking" /\ ~ expired
  /\ pending' = NoBaseline
  /\ seed' = NoBaseline
  /\ found' = NoBaseline /\ last' = NoBaseline
  /\ UNCHANGED scope
  /\ IF Kind = "scoped" /\ sessionOver
     THEN /\ results' = Append(results, Entry(index, "not_started"))
          /\ IF stopOnError THEN Stop("stop_on_error") /\ UNCHANGED index ELSE Advance
     ELSE /\ at' = IF NextIsWait THEN "capturing" ELSE "dispatching"
          /\ UNCHANGED <<index, results, verdict>>
  /\ UNCHANGED <<entries, stopOnError, want, ran, expired, sessionOver, deskVars, dispatched>>

\* pending_baseline.take(): the wait, if this is one, has the baseline now.
CheckSession ==
  /\ at = "checking" /\ ~ expired
  /\ pending' = NoBaseline
  /\ seed' = pending
  /\ found' = NoBaseline /\ last' = NoBaseline
  /\ UNCHANGED scope
  /\ IF Kind = "scoped" /\ sessionOver
     THEN /\ results' = Append(results, Entry(index, "not_started"))
          /\ IF stopOnError THEN Stop("stop_on_error") /\ UNCHANGED index ELSE Advance
     ELSE /\ at' = IF NextIsWait THEN "capturing" ELSE "dispatching"
          /\ UNCHANGED <<index, results, verdict>>
  /\ UNCHANGED <<entries, stopOnError, want, ran, expired, sessionOver, deskVars, dispatched>>

Capture ==
  /\ at = "capturing"
  /\ \E o \in Observable : pending' = o
  /\ at' = "dispatching"
  /\ UNCHANGED <<entries, stopOnError, index, waitVars, reportVars, expired, sessionOver, deskVars,
                 dispatched>>

\* pre_action_baseline_failed.
CaptureFails ==
  /\ at = "capturing"
  /\ results' = Append(results, Entry(index, "not_started"))
  /\ Stop("baseline")
  /\ UNCHANGED <<loopVars, waitVars, ran, expired, sessionOver, deskVars, dispatched>>

Dispatch ==
  /\ at = "dispatching"
  /\ ran' = ran \cup {index}
  /\ IF Kind = "wait"
     THEN at' = "polling" /\ scope' = Scope(seed, want) /\ UNCHANGED dispatched
     ELSE at' = "running" /\ dispatched' = (IF want = "opened" THEN Open ELSE {}) /\ UNCHANGED scope
  /\ UNCHANGED <<loopVars, seed, want, found, last, results, verdict, expired, sessionOver, deskVars>>

\* bounded_entry, and what the loop does after it.
Record(failed) ==
  /\ results' = Append(results, Entry(index, "completed"))
  /\ \/ Stop("output_limit") /\ UNCHANGED index
     \/ /\ failed /\ stopOnError
        /\ Stop("stop_on_error") /\ UNCHANGED index
     \/ /\ ~ (failed /\ stopOnError) /\ expired /\ index < Len(entries)
        /\ Stop("deadline") /\ UNCHANGED index
     \/ /\ ~ (failed /\ stopOnError) /\ ~ (expired /\ index < Len(entries))
        /\ Advance

Run ==
  /\ at = "running"
  /\ \E failed \in BOOLEAN :
       /\ sessionOver' = (sessionOver \/ (Kind = "end" /\ ~ failed))
       /\ Record(failed)
  /\ UNCHANGED <<entries, stopOnError, pending, waitVars, ran, expired, deskVars, dispatched>>

-----------------------------------------------------------------------------
(* wait_for_event *)

\* The first observation of a wait without a baseline is its baseline.
Poll ==
  /\ at = "polling" /\ ~ expired
  /\ \E o \in Observable :
       /\ scope # 0 => o.process \in {0, scope}
       /\ IF seed = NoBaseline
          THEN /\ seed' = o
               /\ UNCHANGED <<index, at, results, verdict, found, last>>
          ELSE /\ last' = IF o.complete /\ want = "opened" THEN o.windows ELSE last
               /\ IF Diff(seed, o, want) = {}
                  THEN UNCHANGED <<index, at, results, verdict, found>>
                  ELSE found' \in Diff(seed, o, want) /\ Record(FALSE)
               /\ UNCHANGED seed
  /\ UNCHANGED <<entries, stopOnError, pending, scope, want, ran, expired, sessionOver, deskVars,
                 dispatched>>

\* The application was restarted (validate_signal_scope), an observation fails
\* for good, or the deadline of the wait or of the batch passes.
WaitFails ==
  /\ at = "polling"
  /\ Record(TRUE)
  /\ UNCHANGED <<entries, stopOnError, pending, waitVars, ran, expired, sessionOver, deskVars,
                 dispatched>>

-----------------------------------------------------------------------------

Init ==
  /\ entries = <<>> /\ stopOnError = FALSE /\ index = 1 /\ at = "start"
  /\ pending = NoBaseline /\ seed = NoBaseline /\ scope = 0 /\ want = "opened"
  /\ results = <<>> /\ ran = {} /\ verdict = "none"
  /\ expired = FALSE /\ sessionOver = FALSE
  /\ status = [w \in Windows |-> "unborn"] /\ instance = 1 /\ focused = 0
  /\ dispatched = {}
  /\ found = NoBaseline /\ last = NoBaseline

Next ==
  \/ Desktop \/ Expire \/ EndElsewhere
  \/ Prepare \/ RefuseLate \/ CheckSession \/ Capture \/ CaptureFails \/ Dispatch \/ Run
  \/ Poll \/ WaitFails

Spec == Init /\ [][Next]_vars

-----------------------------------------------------------------------------
(* Properties *)

Observed == [windows : SUBSET Windows, complete : BOOLEAN, process : 0 .. 2, actual : SUBSET Windows,
             focus : Windows \cup {0}, front : Windows \cup {0}]

TypeOK ==
  /\ entries \in UNION {[1 .. n -> Kinds] : n \in 0 .. MaxEntries}
  /\ stopOnError \in BOOLEAN /\ index \in 1 .. MaxEntries
  /\ at \in {"start", "checking", "capturing", "dispatching", "running", "polling", "done"}
  /\ pending \in Observed \cup {NoBaseline} /\ seed \in Observed \cup {NoBaseline}
  /\ scope \in 0 .. 2 /\ want \in Events
  /\ results \in Seq([index : 1 .. MaxEntries, execution : {"completed", "not_started"}])
  /\ ran \subseteq 1 .. MaxEntries
  /\ verdict \in {"none", "invalid", "complete", "deadline", "stop_on_error", "baseline",
                  "output_limit", "response_limit"}
  /\ expired \in BOOLEAN /\ sessionOver \in BOOLEAN
  /\ status \in [Windows -> {"unborn", "open", "gone"}] /\ instance \in {1, 2}
  /\ focused \in Windows \cup {0}
  /\ dispatched \subseteq Windows
  /\ found \in Windows \cup {NoBaseline} \cup (0 .. 2) /\ last \in (SUBSET Windows) \cup {NoBaseline}

\* An event that a wait reports has happened since the baseline: a window that
\* was missing from a list has not opened, nor got the focus, and the process
\* that was launched is not the one that ran.
EventIsReal ==
  found # NoBaseline =>
    CASE want = "opened" -> found \in Windows \ seed.actual
      [] want = "closed" -> found \in seed.actual /\ status[found] = "gone"
      [] want = "focused" -> found # seed.front
      [] want = "launched" -> found = instance /\ found # seed.process

\* An event that the entry before has caused is not missed by the wait after
\* it, however fast: a window that came after the entry was dispatched, and
\* that the wait has seen, is reported.
EffectIsNotMissed ==
  at = "done" /\ ran # {} /\ entries[index] = "wait" /\ index \in ran /\ index - 1 \in ran
    /\ entries[index - 1] # "wait" /\ want = "opened"
    /\ seed # NoBaseline /\ seed.complete /\ last # NoBaseline /\ found = NoBaseline
  => last \subseteq dispatched

\* The results account for what was done, however the batch ends: an entry
\* counts as completed if and only if it was dispatched, and the results are
\* in the order of the batch.  The response gives them, or, when it would be too
\* large, how many of them are completed (execution.rs:122-164).
ResponseAccounts ==
  at = "done" =>
    /\ \A i \in 1 .. Len(entries) :
         i \in ran <=> \E k \in DOMAIN results : results[k] = Entry(i, "completed")
    /\ \A j, k \in DOMAIN results : j < k => results[j].index < results[k].index

-----------------------------------------------------------------------------
(* The inductive invariant *)

\* A baseline that says it is complete is what was there: windows that have
\* opened, the focused one among them, and an instance that is not to come.
SeenTruly(base) ==
  base # NoBaseline =>
    /\ \A w \in base.actual : status[w] # "unborn"
    /\ base.process <= instance
    /\ base.complete => /\ base.windows = base.actual /\ base.process # 0
                        /\ base.focus = base.front

DeskIsKept == focused \in Open \cup {0} /\ SeenTruly(pending) /\ SeenTruly(seed)

\* Nothing has happened before the batch is prepared; an entry is in `ran` from
\* its dispatch on.
LoopIsKept ==
  /\ at = "start" => /\ entries = <<>> /\ index = 1 /\ results = <<>> /\ ran = {}
                     /\ pending = NoBaseline /\ seed = NoBaseline /\ found = NoBaseline
                     /\ last = NoBaseline /\ focused = 0
  /\ at \notin {"start", "done"} => index <= Len(entries)
  /\ ran \subseteq 1 .. index /\ \A i \in ran : i <= Len(entries)
  /\ at \in {"checking", "capturing", "dispatching"} => index \notin ran
  /\ at \in {"running", "polling"} => index \in ran
  /\ at = "running" => Kind # "wait"
  /\ at = "polling" => Kind = "wait"

\* What a baseline shows and is still open was there when the entry before the
\* wait was dispatched: what came after it is missing from the baseline.
AllDispatched(base) ==
  want = "opened" /\ base.complete =>
    \A w \in base.windows : status[w] = "open" => w \in dispatched

\* The entry is a wait, and the one before it was a command that was dispatched.
AfterCommand ==
  /\ index > 1 /\ index <= Len(entries) /\ index - 1 \in ran
  /\ entries[index] = "wait" /\ entries[index - 1] # "wait"

\* The wait after a command has the baseline that was taken before the command.
BaselineIsKept ==
  /\ at \in {"dispatching", "running"} /\ NextIsWait => pending # NoBaseline
  /\ at = "running" /\ NextIsWait => AllDispatched(pending)
  /\ at = "checking" /\ AfterCommand => pending # NoBaseline /\ AllDispatched(pending)
  /\ /\ at \in {"capturing", "dispatching", "polling", "done"} /\ AfterCommand
     /\ at = "done" => index \in ran
     => /\ seed # NoBaseline /\ AllDispatched(seed)
        /\ want = "opened" /\ seed.complete /\ last # NoBaseline /\ found = NoBaseline
             => last \subseteq dispatched

EventIsKept == EventIsReal /\ (found # NoBaseline => seed # NoBaseline /\ seed.complete)

\* All entries before this one are accounted for; this one is when it ends.
AccountIsKept ==
  /\ \A k \in DOMAIN results : results[k].index <= index /\ (at # "done" => results[k].index # index)
  /\ \A i \in 1 .. Len(entries) :
       i \in ran /\ (at \in {"running", "polling"} => i # index)
         <=> \E k \in DOMAIN results : results[k] = Entry(i, "completed")
  /\ \A j, k \in DOMAIN results : j < k => results[j].index < results[k].index

BatchInv == TypeOK /\ DeskIsKept /\ LoopIsKept /\ BaselineIsKept /\ EventIsKept /\ AccountIsKept
=============================================================================
