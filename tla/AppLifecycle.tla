---------------------------- MODULE AppLifecycle ----------------------------
(***************************************************************************)
(* Launching and closing an application: crates/macos/src/system/{launch,  *)
(* launch_workspace,launch_completion,app_ops}.rs and, before and after    *)
(* them, core's commands/{launch,close_app}.rs and app_lookup.rs.          *)
(*                                                                         *)
(* Instances of the application come and go meanwhile, and the number of a *)
(* process that ended is given to another.  Launch Services answers late,  *)
(* with another instance than the one that was asked for, or not at all.   *)
(***************************************************************************)
EXTENDS Naturals

CONSTANTS
  MaxApps,    \* bound: instances of the application there ever are
  MaxEvents   \* bound: instances that end or are started by others

VARIABLES
  verb,       \* "launch", "close"
  options,    \* of a launch: attach, activate, wait, cdp
  alive,      \* the instances that run
  born,       \* the instances there were: 1 .. born
  number,     \* the process number of each instance
  events,     \* what others did
  stage,      \* where the command is
  baseline,   \* the instances that were listed to begin with
  expected,   \* the instance that is to be attached to or closed, if any (0)
  given,      \* the instance that Launch Services gave, or was attached to
  callback,   \* its answer: "none", "pending", "refused", "failed", "running"
  unread,     \* the last attempt to read the windows failed
  grace,      \* the time after startup: "none", "running", "over"
  window,     \* the instance whose window is reported, if any (0)
  begun,      \* Launch Services started or activated an instance for us
  doomed,     \* the instances that were asked to end
  verdict     \* how the command ended

call == <<verb, options>>
instances == <<alive, born, number>>
choice == <<baseline, expected>>
launched == <<given, callback, begun>>
look == <<unread, grace, window>>
appVars == <<call, instances, events, stage, choice, launched, look, doomed, verdict>>

Instances == 1 .. MaxApps
Owner(n) == {i \in alive : number[i] = n}   \* at most one

End(v) == stage' = "done" /\ verdict' = v
Goto(s) == stage' = s /\ UNCHANGED verdict

-----------------------------------------------------------------------------
(* The instances *)

Remove(i) ==
  /\ alive' = alive \ {i} /\ UNCHANGED <<born, number>>

\* A new instance gets a new number, or that of one that ended.
Add ==
  /\ born < MaxApps
  /\ born' = born + 1 /\ alive' = alive \cup {born'}
  /\ \E i \in (1 .. born') \ alive : /\ Owner(number[i]) = {}
                                   /\ number' = [number EXCEPT ![born'] = number[i]]

Running == stage \notin {"new", "done"}

Quit ==
  /\ Running /\ events < MaxEvents
  /\ events' = events + 1
  /\ \E i \in alive : Remove(i)
  /\ UNCHANGED <<call, stage, choice, launched, look, doomed, verdict>>

StartedByOthers ==
  /\ Running /\ events < MaxEvents
  /\ events' = events + 1
  /\ Add
  /\ UNCHANGED <<call, stage, choice, launched, look, doomed, verdict>>

EndDoomed ==
  /\ Running
  /\ \E i \in doomed \cap alive : Remove(i)
  /\ UNCHANGED <<call, events, stage, choice, launched, look, doomed, verdict>>

-----------------------------------------------------------------------------

Begin ==
  /\ stage = "new"
  /\ verb' \in {"launch", "close"}
  /\ options' \in [attach : BOOLEAN, activate : BOOLEAN, wait : BOOLEAN, cdp : BOOLEAN]
  /\ verb' = "close" => options' = options
  /\ \E n \in 0 .. 2 : alive' = 1 .. n /\ born' = n
  /\ Goto(CASE verb' = "close" -> "resolving"
            [] verb' = "launch" /\ options'.cdp -> "checking"
            [] OTHER -> "listing")
  /\ UNCHANGED <<number, events, choice, launched, look, doomed>>

\* Arguments, ports, inventories, the lease or the deadline fail.
FailBefore ==
  /\ stage \in {"checking", "listing", "deciding", "attaching", "opening", "resolving",
                "terminating"}
  /\ End("failed_not_delivered")
  /\ UNCHANGED <<call, instances, events, choice, launched, look, doomed>>

\* reject_if_already_running
CheckFresh ==
  /\ stage = "checking"
  /\ IF alive = {} THEN Goto("listing") ELSE End("failed_not_delivered")
  /\ UNCHANGED <<call, instances, events, choice, launched, look, doomed>>

\* matching_apps
ListApps ==
  /\ stage = "listing"
  /\ baseline' = alive /\ UNCHANGED expected
  /\ Goto("deciding")
  /\ UNCHANGED <<call, instances, events, launched, look, doomed>>

\* launch_app_impl, launch_target
Decide ==
  /\ stage = "deciding"
  /\ UNCHANGED <<call, instances, events, baseline, callback, begun, look, doomed>>
  /\ IF ~ options.attach \/ baseline = {}
       THEN Goto("opening") /\ UNCHANGED <<expected, given>>
     ELSE IF \A i \in baseline : baseline # {i}
       THEN End("failed_not_delivered") /\ UNCHANGED <<expected, given>>
     ELSE /\ expected' \in baseline
          /\ IF options.activate THEN Goto("opening") /\ UNCHANGED given
             ELSE Goto("attaching") /\ given' = expected'

\* The launch is over: what is left is the probe of its DevTools.
Launched == End("ok") \/ (options.cdp /\ End("failed_unverified"))

\* exact_window: the windows of the process with this number, which must still
\* be the instance.  It may have opened one by now, or not.
Shown(i) == {{}, Owner(number[i])}

Attach ==
  /\ stage = "attaching"
  /\ \E shown \in Shown(given) :
       CASE shown = {} -> Launched /\ UNCHANGED window
         [] shown = {given} -> Launched /\ window' \in shown
         [] OTHER -> End("failed_not_delivered") /\ UNCHANGED window
  /\ UNCHANGED <<call, instances, events, choice, launched, unread, grace, doomed>>

\* openApplicationAtURL
Open ==
  /\ stage = "opening"
  /\ callback' = "pending" /\ UNCHANGED <<given, begun>>
  /\ Goto("waiting")
  /\ UNCHANGED <<call, instances, events, choice, look, doomed>>

\* Launch Services does not know the application, ...
Unknown ==
  /\ Running /\ callback = "pending" /\ callback' = "refused"
  /\ UNCHANGED <<call, instances, events, stage, choice, given, begun, look, doomed, verdict>>

\* ... starts an instance, or gives one that runs; or fails on the way.
LaunchServices ==
  /\ Running /\ callback = "pending"
  /\ begun' = TRUE
  /\ \/ Add /\ given' = born' /\ callback' = "running"
     \/ Add /\ callback' = "failed" /\ UNCHANGED given
     \/ given' \in alive /\ callback' = "running" /\ UNCHANGED instances
     \/ callback' = "failed" /\ UNCHANGED <<instances, given>>
  /\ UNCHANGED <<call, events, stage, choice, look, doomed, verdict>>

\* LaunchCompletion::wait: the answer may still come, later.
GiveUpWaiting ==
  /\ stage = "waiting" /\ callback = "pending"
  /\ End("failed_uncertain")
  /\ UNCHANGED <<call, instances, events, choice, launched, look, doomed>>

\* validate_result, callback_error: an instance counts only if it still runs
\* and its number is still its own.
Answered ==
  /\ stage = "waiting" /\ callback # "pending"
  /\ CASE callback = "refused" -> End("failed_not_delivered")
       [] callback = "failed" -> End("failed_uncertain")
       [] callback = "running" /\ given \in alive -> Goto("validating")
       [] OTHER -> End("failed_unverified")
  /\ UNCHANGED <<call, instances, events, choice, launched, look, doomed>>

\* validate_launched_target
Validate ==
  /\ stage = "validating"
  /\ IF IF expected # 0 THEN given = expected ELSE given \notin baseline
       THEN Goto("settling") ELSE End("failed_unverified")
  /\ UNCHANGED <<call, instances, events, choice, launched, look, doomed>>

\* settled_window: the windows are read; some failures are "not ready yet".
Settle ==
  /\ stage = "settling"
  /\ \/ \E shown \in Shown(given) :
          CASE shown = {} -> Goto("pausing") /\ unread' = FALSE /\ UNCHANGED window
            [] shown = {given} -> Launched /\ window' \in shown /\ UNCHANGED unread
            [] OTHER -> End("failed_unverified") /\ UNCHANGED <<window, unread>>
     \/ End("failed_unverified") /\ UNCHANGED <<window, unread>>
     \/ unread' = TRUE /\ Goto("pausing") /\ UNCHANGED window
  /\ UNCHANGED <<call, instances, events, choice, launched, grace, doomed>>

GraceOver ==
  /\ grace = "running" /\ stage \in {"settling", "pausing"} /\ grace' = "over"
  /\ UNCHANGED <<call, instances, events, stage, choice, launched, unread, window, doomed,
                 verdict>>

\* It is not waited for a window, or not any longer; or the deadline passed.
SettleForNone ==
  /\ stage = "pausing"
  /\ IF unread THEN End("failed_unverified") ELSE Launched
  /\ UNCHANGED <<call, instances, events, choice, launched, look, doomed>>

\* startup_finished; an instance that is gone will never open a window.
Poll ==
  /\ stage = "pausing" /\ options.wait
  /\ options.activate \/ grace # "over"
  /\ \/ given \in alive /\ Goto("settling")
        /\ grace' \in IF grace = "none" THEN {"none", "running"} ELSE {grace}
     \/ given \notin alive /\ grace # "none" /\ Goto("settling") /\ UNCHANGED grace
     \/ given \notin alive /\ grace = "none" /\ End("failed_unverified") /\ UNCHANGED grace
  /\ UNCHANGED <<call, instances, events, choice, launched, unread, window, doomed>>

-----------------------------------------------------------------------------
(* Closing *)

\* resolve_app
Resolve ==
  /\ stage = "resolving"
  /\ IF \E i \in alive : alive = {i}
       THEN expected' \in alive /\ Goto("revalidating")
       ELSE End("failed_not_delivered") /\ UNCHANGED expected
  /\ UNCHANGED <<call, instances, events, baseline, launched, look, doomed>>

\* revalidate_app_for_mutation, and then require_core: the error says nothing
\* of the delivery.
Revalidate ==
  /\ stage = "revalidating"
  /\ IF expected \in alive THEN Goto("terminating") ELSE End("failed_unknown")
  /\ UNCHANGED <<call, instances, events, choice, launched, look, doomed>>

\* still_matches, and then the request for what has the number now.
AlreadyGone ==
  /\ stage \in {"terminating", "rejected"} /\ expected \notin alive
  /\ End("ok")
  /\ UNCHANGED <<call, instances, events, choice, launched, look, doomed>>

Matches ==
  /\ stage = "terminating" /\ expected \in alive
  /\ Goto("requesting")
  /\ UNCHANGED <<call, instances, events, choice, launched, look, doomed>>

\* terminate: the launch date tells the instance from another.
Terminate ==
  /\ stage = "requesting"
  /\ \/ /\ Owner(number[expected]) = {expected}
        /\ \/ doomed' = Owner(number[expected]) /\ Goto("exiting")
           \/ doomed' \in {{}, Owner(number[expected])} /\ End("failed_uncertain")
     \/ /\ Owner(number[expected]) \in {{}, {expected}}
        /\ Goto("rejected") /\ UNCHANGED doomed
     \/ /\ Owner(number[expected]) \notin {{}, {expected}}
        /\ End("failed_not_delivered") /\ UNCHANGED doomed
  /\ UNCHANGED <<call, instances, events, choice, launched, look>>

\* Missing, Rejected
NotAccepted ==
  /\ stage = "rejected"
  /\ End("failed_not_delivered")
  /\ UNCHANGED <<call, instances, events, choice, launched, look, doomed>>

\* wait_for_exit
WaitForExit ==
  /\ stage = "exiting"
  /\ IF expected \notin alive THEN End("ok") ELSE End("failed_unverified")
  /\ UNCHANGED <<call, instances, events, choice, launched, look, doomed>>

-----------------------------------------------------------------------------

Init ==
  /\ verb = "launch" /\ options = [attach |-> TRUE, activate |-> FALSE, wait |-> TRUE, cdp |-> FALSE]
  /\ alive = {} /\ born = 0 /\ number = [i \in Instances |-> i]
  /\ events = 0 /\ stage = "new" /\ baseline = {} /\ expected = 0 /\ given = 0
  /\ callback = "none" /\ begun = FALSE /\ unread = FALSE /\ grace = "none" /\ window = 0
  /\ doomed = {} /\ verdict = "none"

Next ==
  \/ Quit \/ StartedByOthers \/ EndDoomed
  \/ Begin \/ FailBefore \/ CheckFresh \/ ListApps \/ Decide \/ Attach \/ Open \/ Unknown
  \/ LaunchServices \/ GiveUpWaiting \/ Answered \/ Validate \/ Settle \/ GraceOver
  \/ SettleForNone \/ Poll
  \/ Resolve \/ Revalidate \/ AlreadyGone \/ Matches \/ Terminate \/ NotAccepted \/ WaitForExit

Spec == Init /\ [][Next]_appVars

-----------------------------------------------------------------------------
(* Properties *)

TypeOK ==
  /\ verb \in {"launch", "close"}
  /\ options \in [attach : BOOLEAN, activate : BOOLEAN, wait : BOOLEAN, cdp : BOOLEAN]
  /\ alive \subseteq 1 .. born /\ born \in 0 .. MaxApps /\ number \in [Instances -> Instances]
  /\ \A i, j \in alive : number[i] = number[j] => i = j
  /\ events \in 0 .. MaxEvents
  /\ stage \in {"new", "checking", "listing", "deciding", "attaching", "opening", "waiting",
                "validating", "settling", "pausing", "resolving", "revalidating",
                "terminating", "requesting", "rejected", "exiting", "done"}
  /\ baseline \subseteq Instances /\ {expected, given, window} \subseteq 0 .. MaxApps
  /\ callback \in {"none", "pending", "refused", "failed", "running"}
  /\ unread \in BOOLEAN /\ grace \in {"none", "running", "over"} /\ begun \in BOOLEAN
  /\ doomed \subseteq Instances
  /\ verdict \in {"none", "ok", "failed_not_delivered", "failed_uncertain", "failed_unverified",
                  "failed_unknown"}

\* A launch reports the instance that was asked for: the one that ran, or one
\* that did not run when it began; and a window of no other.  It says that
\* nothing was delivered only if Launch Services did nothing.
LaunchIsHonest ==
  verb = "launch" /\ verdict # "none" =>
    /\ verdict = "ok" => IF options.attach /\ baseline # {} THEN baseline = {given}
                                                            ELSE given \notin baseline \cup {0}
    /\ window \in {0, given}
    /\ verdict = "failed_not_delivered" => ~ begun

\* Only the instance that was meant is closed, whoever has its number now; it
\* is reported as closed when it is gone, and as not delivered when it was not
\* asked to go.
CloseIsHonest ==
  /\ doomed \subseteq {expected}
  /\ verb = "close" /\ verdict = "ok" => expected \notin alive
  /\ verb = "close" /\ verdict \in {"failed_not_delivered", "failed_unknown"} => doomed = {}

LaunchStages == {"checking", "listing", "deciding", "attaching", "opening", "waiting",
                 "validating", "settling", "pausing"}
CloseStages == {"resolving", "revalidating", "terminating", "requesting", "rejected", "exiting"}

\* What holds at each stage: what was listed, which instance is meant, and what
\* Launch Services or the instance was asked for.
TheMeant == IF options.attach /\ baseline # {} THEN baseline = {given} ELSE given \notin baseline \cup {0}
AppStages ==
  /\ stage \in LaunchStages => verb = "launch"
  /\ stage \in CloseStages => verb = "close"
  /\ stage \notin {"waiting", "validating", "settling", "pausing", "done"} => callback = "none"
  /\ stage \in {"validating", "settling", "pausing"} => callback = "running"
  /\ stage \in {"new", "checking", "listing", "deciding"} => expected = 0
  /\ stage \in {"opening", "attaching", "waiting", "validating"} =>
       IF options.attach /\ baseline # {} THEN baseline = {expected} ELSE expected = 0
  /\ stage = "attaching" => given = expected /\ expected # 0
  /\ stage \in {"settling", "pausing"} => TheMeant
AppInv ==
  /\ LaunchIsHonest /\ CloseIsHonest /\ AppStages
  /\ born \in Nat /\ 0 \notin alive /\ 0 \notin baseline
  /\ (stage = "done") = (verdict # "none")
  /\ stage # "done" => window = 0
  /\ begun => callback \in {"failed", "running"}
  /\ callback = "running" => given # 0
  /\ doomed # {} => verb = "close" /\ stage \in {"exiting", "done"}
=============================================================================
