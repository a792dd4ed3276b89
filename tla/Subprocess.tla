----------------------------- MODULE Subprocess -----------------------------
(***************************************************************************)
(* The programs that the macOS adapter runs, and the two commands that     *)
(* run them: `screenshot` (screencapture, into a private directory) and    *)
(* `permissions --request` (one helper for each prompt, for a prompt must  *)
(* not hang the command).  crates/macos/src/system/process.rs,             *)
(* screenshot.rs, permissions.rs and permission_helper.rs.                 *)
(*                                                                         *)
(* A run has a deadline for its work and a later one for its cleanup.  It  *)
(* ends when the program closed its streams and exited, or when its        *)
(* process group was told to stop, killed and reaped.  Meanwhile the       *)
(* program may start a program of its own, ignore a signal or hang, a      *)
(* display may come and go, a window change its title, the user answer a   *)
(* prompt, and the command itself be killed.                               *)
(***************************************************************************)
EXTENDS Naturals, Sequences, SequencesExt

CONSTANT MaxScreenChanges   \* bound: changes of what is on the screen

VARIABLES
  job,       \* the command, none before it starts
  stage,     \* the step it is at
  clock,     \* 0, then 1 when the time for work is over, then 2 at the deadline
  child,     \* the program: none, running, a zombie, reaped
  spawned,   \* a program that it started and that has its streams still runs
  streams,   \* the streams of the program are open
  exit,      \* how the program exited
  killed,    \* SIGKILL was sent to the group
  refused,   \* SIGKILL was refused: there was nothing but a zombie
  failures,  \* the cleanup reported that it failed
  struck,    \* a signal was sent to the number of a group that may be another's
  screen,    \* what each index shows: displays, or the one window
  shifts,    \* changes of it
  asked,     \* what to capture
  index,     \* where it was found
  since,     \* `shifts` when it was found
  temp,      \* the private directory: none, empty or holding what was captured
  image,     \* what the image that was read shows
  answers,   \* what the user answered to each prompt
  prompted,  \* prompts that were made
  helper,    \* the helper's check of its parent: none, passed, late (it was dead)
  parent,    \* the command is alive
  orphaned,  \* a prompt was made for a command that was dead before the check
  report,    \* the state of each permission that was found
  outcome    \* what the command answered

running == <<child, spawned, streams, exit>>
cleanup == <<killed, refused, failures, struck>>
capture == <<screen, shifts, asked, index, since, temp, image>>
prompts == <<answers, prompted, helper, parent, orphaned, report>>
vars == <<job, stage, clock, running, cleanup, capture, prompts, outcome>>

Operations == <<"accessibility", "screen_recording", "automation">>
Displays == {<<"a", "b">>, <<"b", "a">>, <<"a">>, <<"b">>}
Titles == {<<"w">>, <<"v">>, <<>>}
Shots == {"display", "window"}
Nothing == "none"
Unanswered == [p \in ToSet(Operations) |-> Nothing]

Init ==
  /\ job = Nothing /\ stage = "begin" /\ clock = 0
  /\ child = Nothing /\ spawned = FALSE /\ streams = FALSE /\ exit = Nothing
  /\ killed = FALSE /\ refused = FALSE /\ failures = FALSE /\ struck = FALSE
  /\ screen = <<>> /\ shifts = 0 /\ asked = Nothing /\ index = 0 /\ since = 0
  /\ temp = Nothing /\ image = Nothing
  /\ answers = Unanswered /\ prompted = {} /\ helper = Nothing /\ parent = TRUE
  /\ orphaned = FALSE /\ report = Unanswered
  /\ outcome = Nothing

-----------------------------------------------------------------------------
(* The command *)

\* What is left of a screenshot is removed on every way out.
Cleared == IF temp = Nothing THEN Nothing ELSE "removed"

Fail ==
  /\ stage' = "done" /\ outcome' = "error" /\ temp' = Cleared
  /\ UNCHANGED <<job, clock, running, cleanup, screen, shifts, asked, index, since, image, prompts>>

\* The caller lists displays or windows and asks for one of them.
BeginShot ==
  /\ job = Nothing
  /\ job' \in Shots
  /\ screen' \in (IF job' = "display" THEN Displays ELSE {<<"w">>})
  /\ asked' \in ToSet(screen')
  /\ stage' = "find"
  /\ UNCHANGED <<clock, running, cleanup, shifts, index, since, temp, image, prompts, outcome>>

BeginPrompts ==
  /\ job = Nothing
  /\ job' = "permissions"
  /\ stage' = "spawn"
  /\ UNCHANGED <<clock, running, cleanup, capture, prompts, outcome>>

\* A display is found by its identifier, wherever it is now; a window must
\* have its process and its title.
Find ==
  /\ stage = "find"
  /\ asked \in ToSet(screen)
  /\ \E i \in DOMAIN screen : screen[i] = asked /\ index' = i
  /\ since' = shifts
  /\ stage' = "spawn"
  /\ UNCHANGED <<job, clock, running, cleanup, screen, shifts, asked, temp, image, prompts, outcome>>

NotFound == stage = "find" /\ asked \notin ToSet(screen) /\ Fail

\* The program is the leader of a process group of its own.
Spawn ==
  /\ stage = "spawn"
  /\ child' = "running" /\ streams' = TRUE /\ exit' = Nothing
  /\ stage' = "drain"
  /\ UNCHANGED <<job, clock, spawned, cleanup, screen, shifts, asked, index, since, image,
                 answers, prompted, parent, orphaned, report, outcome>>

\* screencapture, with a directory that only it and the command can reach.
SpawnCapture == job \in Shots /\ temp' = "empty" /\ UNCHANGED helper /\ Spawn

\* The helper, which is told who asks for which prompt.
SpawnHelper == job = "permissions" /\ helper' = Nothing /\ UNCHANGED temp /\ Spawn

\* No time is left, or the program cannot be started.
SpawnFails == stage = "spawn" /\ Fail

\* Both streams are read to their ends by threads of their own.
Drain ==
  /\ stage = "drain" /\ clock = 0 /\ ~ streams
  /\ stage' = "status"
  /\ UNCHANGED <<job, clock, running, cleanup, capture, prompts, outcome>>

\* wait_for_status: the deadline is looked at before the program is.
Status ==
  /\ stage = "status" /\ clock = 0 /\ child = "zombie"
  /\ child' = "reaped"
  /\ stage' = "ended"
  /\ UNCHANGED <<job, clock, spawned, streams, exit, cleanup, capture, prompts, outcome>>

Overdue ==
  /\ stage \in {"drain", "status"} /\ clock > 0
  /\ stage' = "term"
  /\ UNCHANGED <<job, clock, running, cleanup, capture, prompts, outcome>>

\* It wrote more than is kept.
Flooded == stage = "ended" /\ exit = "flooded" /\ Fail

\* It says that it failed; a helper may also answer something else than it was asked.
CaptureFailed == stage = "ended" /\ job \in Shots /\ exit = "failed" /\ Fail
HelperFailed == stage = "ended" /\ job = "permissions" /\ exit = "failed" /\ Fail

-----------------------------------------------------------------------------
(* terminate_process_group *)

InGroup == child \in {"running", "zombie"} \/ spawned
Alive == child = "running" \/ spawned

\* kill(-group): refused where only a zombie is left; and the number of a group
\* whose leader was reaped may be another's.
Strikes == struck' = (struck \/ child = "reaped")

\* SIGTERM, which any of the group may ignore.
Term ==
  /\ stage = "term"
  /\ stage' = "grace"
  /\ failures' = (failures \/ (InGroup /\ ~ Alive))
  /\ Strikes
  /\ \E heeds \in BOOLEAN, follows \in BOOLEAN :
       /\ child' = IF child = "running" /\ heeds THEN "zombie" ELSE child
       /\ spawned' = (spawned /\ ~ follows)
       /\ streams' = (streams /\ (child' = "running" \/ spawned'))
  /\ exit' = IF child' # child THEN "failed" ELSE exit
  /\ UNCHANGED <<job, clock, killed, refused, capture, prompts, outcome>>

\* A plausible mistake: the program is reaped during the grace, and the kill
\* goes to a number that is free again.
KillAfterReap ==
  /\ stage = "grace"
  /\ stage' = "reap"
  /\ child' = IF child = "zombie" THEN "reaped" ELSE child
  /\ struck' = (struck \/ child' = "reaped")
  /\ killed' = (killed \/ Alive)
  /\ refused' = (InGroup /\ ~ Alive)
  /\ UNCHANGED <<job, clock, spawned, streams, exit, failures, capture, prompts, outcome>>

\* SIGKILL, before anything of the group is reaped.
Kill ==
  /\ stage = "grace"
  /\ stage' = "reap"
  /\ killed' = (killed \/ Alive)
  /\ refused' = (InGroup /\ ~ Alive)
  /\ Strikes
  /\ UNCHANGED <<job, clock, running, failures, capture, prompts, outcome>>

\* A refusal does not count if the program is reaped and the group is gone (its
\* number may by now be another's group); without a reaped program it does.
\* Then the error is reported.
Reap ==
  /\ stage = "reap"
  /\ \/ child \in {"zombie", "reaped"} /\ child' = "reaped"
     \/ child = "running" /\ clock = 2 /\ UNCHANGED child
  /\ \E another \in BOOLEAN :
       failures' = \/ failures
                   \/ child' # "reaped"
                   \/ refused /\ (spawned \/ another)
  /\ stage' = "done" /\ outcome' = "error" /\ temp' = Cleared
  /\ UNCHANGED <<job, clock, spawned, streams, exit, killed, refused, struck,
                 screen, shifts, asked, index, since, image, prompts>>

-----------------------------------------------------------------------------
(* After the run *)

\* The file is read; its directory goes when `capture` returns.
ReadImage ==
  /\ stage = "ended" /\ job \in Shots /\ exit = "ok"
  /\ IF temp \in {"a", "b", "w", "v"}
     THEN /\ image' = temp
          /\ stage' = "verify"
          /\ UNCHANGED outcome
     ELSE /\ stage' = "done" /\ outcome' = "error"
          /\ UNCHANGED image
  /\ temp' = Cleared
  /\ UNCHANGED <<job, clock, running, cleanup, screen, shifts, asked, index, since, prompts>>

\* A plausible mistake: the display or window is not looked at again.
BelieveImage ==
  /\ stage = "verify"
  /\ stage' = "done"
  /\ outcome' = "image"
  /\ UNCHANGED <<job, clock, running, cleanup, capture, prompts>>

\* What is there now must be what was there before the capture.
VerifyImage ==
  /\ stage = "verify"
  /\ stage' = "done"
  /\ outcome' = IF index \in DOMAIN screen /\ screen[index] = asked THEN "image" ELSE "error"
  /\ UNCHANGED <<job, clock, running, cleanup, capture, prompts>>

\* The helper's answer counts only as proof that it ran: the next prompt follows,
\* and after the last the permissions are looked at.
NextPrompt ==
  /\ stage = "ended" /\ job = "permissions" /\ exit = "ok"
  /\ stage' = IF prompted = ToSet(Operations) THEN "report" ELSE "spawn"
  /\ child' = Nothing /\ exit' = Nothing
  /\ UNCHANGED <<job, clock, spawned, streams, cleanup, capture, prompts, outcome>>

\* Automation is looked up without asking the user, who may not have been asked.
AutomationState == CASE answers["automation"] = "granted" -> "granted"
                     [] answers["automation"] = "refused" -> "denied"
                     [] OTHER -> "unknown"

StateOf(p) == IF p = "automation" THEN AutomationState
              ELSE IF answers[p] = "granted" THEN "granted" ELSE "denied"

\* The permissions are looked at, not what the helpers answered.
Report ==
  /\ stage = "report"
  /\ report' = [p \in ToSet(Operations) |-> StateOf(p)]
  /\ stage' = "done" /\ outcome' = "report"
  /\ UNCHANGED <<job, clock, running, cleanup, capture, answers, prompted, helper, parent,
                 orphaned>>

\* Out of time between two steps.
OutOfTime == stage \in {"find", "verify", "report"} /\ clock = 2 /\ Fail

CommandStep ==
  /\ parent
  /\ \/ BeginShot \/ BeginPrompts \/ Find \/ NotFound \/ SpawnCapture \/ SpawnHelper
     \/ SpawnFails \/ Drain \/ Status \/ Overdue \/ Flooded \/ CaptureFailed
     \/ HelperFailed \/ Term \/ Kill \/ Reap \/ ReadImage \/ VerifyImage \/ NextPrompt
     \/ Report \/ OutOfTime

-----------------------------------------------------------------------------
(* The program *)

\* screencapture is given an index and writes what it finds there, or nothing.
Capture ==
  /\ child = "running" /\ job \in Shots /\ temp = "empty" /\ ~ killed
  /\ index \in DOMAIN screen
  /\ temp' = screen[index]
  /\ UNCHANGED <<job, stage, clock, running, cleanup, screen, shifts, asked, index, since,
                 image, prompts, outcome>>

\* A plausible mistake: the helper does not look for its parent.
TrustParent ==
  /\ child = "running" /\ job = "permissions" /\ helper = Nothing /\ ~ killed
  /\ helper' = IF parent THEN "passed" ELSE "late"
  /\ UNCHANGED <<job, stage, clock, running, cleanup, capture, answers, prompted, parent,
                 orphaned, report, outcome>>

\* validate_request: the helper's parent is the process that asked for it.
CheckParent ==
  /\ child = "running" /\ job = "permissions" /\ helper = Nothing /\ ~ killed
  /\ parent
  /\ helper' = "passed"
  /\ UNCHANGED <<job, stage, clock, running, cleanup, capture, answers, prompted, parent,
                 orphaned, report, outcome>>

\* The prompt of the operation the helper was started for.
Prompt ==
  /\ child = "running" /\ helper \in {"passed", "late"} /\ ~ killed
  /\ \E i \in DOMAIN Operations :
       /\ prompted = {Operations[k] : k \in 1 .. i - 1}
       /\ prompted' = prompted \cup {Operations[i]}
  /\ orphaned' = (orphaned \/ helper = "late")
  /\ helper' = "prompted"
  /\ UNCHANGED <<job, stage, clock, running, cleanup, capture, answers, parent, report, outcome>>

\* It exits, having done what it was to do or not; a helper that made no prompt
\* says so.
Exit ==
  /\ child = "running"
  /\ child' = "zombie"
  /\ exit' \in {"ok", "failed", "flooded"}
  /\ exit' = "ok" => job # "permissions" \/ helper = "prompted"
  /\ streams' = spawned
  /\ UNCHANGED <<job, stage, clock, spawned, cleanup, capture, prompts, outcome>>

\* It starts another that holds its streams; it closes its streams before the end.
StartAnother ==
  /\ child = "running" /\ stage = "drain" /\ ~ spawned /\ streams /\ ~ killed
  /\ job # "permissions"
  /\ spawned' = TRUE
  /\ UNCHANGED <<job, stage, clock, child, streams, exit, cleanup, capture, prompts, outcome>>

CloseStreams ==
  /\ stage = "drain" /\ child = "running" /\ streams /\ ~ spawned
  /\ streams' = FALSE
  /\ UNCHANGED <<job, stage, clock, child, spawned, exit, cleanup, capture, prompts, outcome>>

AnotherEnds ==
  /\ spawned
  /\ spawned' = FALSE
  /\ streams' = (streams /\ child = "running")
  /\ UNCHANGED <<job, stage, clock, child, exit, cleanup, capture, prompts, outcome>>

-----------------------------------------------------------------------------
(* The world *)

TimePasses ==
  /\ clock < 2 /\ stage \notin {"begin", "spawn", "ended", "done"}
  /\ clock' = clock + 1
  /\ UNCHANGED <<job, stage, running, cleanup, capture, prompts, outcome>>

ScreenChanges ==
  /\ job \in Shots /\ stage # "done" /\ shifts < MaxScreenChanges
  /\ screen' \in (IF job = "display" THEN Displays ELSE Titles) \ {screen}
  /\ shifts' = shifts + 1
  /\ UNCHANGED <<job, stage, clock, running, cleanup, asked, index, since, temp, image,
                 prompts, outcome>>

UserAnswers ==
  /\ job = "permissions" /\ stage # "done"
  /\ \E p \in prompted, a \in {"granted", "refused"} :
       /\ answers[p] = Nothing
       /\ answers' = [answers EXCEPT ![p] = a]
  /\ UNCHANGED <<job, stage, clock, running, cleanup, capture, prompted, helper, parent,
                 orphaned, report, outcome>>

\* The command is killed while a helper of it runs.
CommandDies ==
  /\ parent /\ job = "permissions" /\ child = "running" /\ stage = "drain"
  /\ parent' = FALSE
  /\ UNCHANGED <<job, stage, clock, running, cleanup, capture, answers, prompted, helper,
                 orphaned, report, outcome>>

Next ==
  \/ CommandStep
  \/ Capture \/ CheckParent \/ Prompt \/ Exit \/ StartAnother \/ CloseStreams \/ AnotherEnds
  \/ TimePasses \/ ScreenChanges \/ UserAnswers \/ CommandDies

Spec == Init /\ [][Next]_vars

-----------------------------------------------------------------------------
(* Properties *)

TypeOK ==
  /\ job \in Shots \cup {Nothing, "permissions"}
  /\ stage \in {"begin", "find", "spawn", "drain", "status", "ended", "term", "grace", "reap",
                "verify", "report", "done"}
  /\ clock \in 0 .. 2
  /\ child \in {Nothing, "running", "zombie", "reaped"}
  /\ exit \in {Nothing, "ok", "failed", "flooded"}
  /\ {spawned, streams, killed, refused, failures, struck, parent, orphaned} \subseteq BOOLEAN
  /\ screen \in Displays \cup Titles /\ shifts \in 0 .. MaxScreenChanges
  /\ {asked, image} \subseteq {Nothing, "a", "b", "w", "v"}
  /\ index \in 0 .. 2 /\ since \in 0 .. MaxScreenChanges
  /\ temp \in {Nothing, "empty", "removed", "a", "b", "w", "v"}
  /\ answers \in [ToSet(Operations) -> {Nothing, "granted", "refused"}]
  /\ report \in [ToSet(Operations) -> {Nothing, "granted", "denied", "unknown"}]
  /\ prompted \subseteq ToSet(Operations)
  /\ helper \in {Nothing, "passed", "late", "prompted"}
  /\ outcome \in {Nothing, "error", "image", "report"}

\* A command that answers leaves no program running that was not killed, unless
\* it says that the cleanup failed; and nothing was sent to a group that may be
\* another's (process.rs, terminate_process_group_with).
GroupIsGone ==
  /\ ~ struck
  /\ stage = "done" /\ ~ failures /\ Alive => killed
  /\ stage = "done" /\ ~ failures => child \in {Nothing, "reaped"}

\* The image is of the display or the window that was asked for, unless the
\* screen changed twice between the looks before and after (screenshot.rs);
\* nothing of a capture stays behind.
ImageIsOfTheAsked ==
  /\ outcome = "image" => image = asked \/ shifts - since >= 2
  /\ stage = "done" => temp \in {Nothing, "removed"}

\* A report follows all three prompts, and no prompt is made for a command that
\* was dead when the helper looked; what is reported is what the user answered
\* (permissions.rs, permission_helper.rs).
PromptsAreWanted ==
  /\ outcome = "report" => prompted = ToSet(Operations)
  /\ \A p \in ToSet(Operations) : report[p] = "granted" => answers[p] = "granted"
  /\ report["automation"] = "denied" => answers["automation"] = "refused"
  /\ ~ orphaned

SubprocessIsContained == GroupIsGone /\ ImageIsOfTheAsked /\ PromptsAreWanted

-----------------------------------------------------------------------------
(* What holds between the steps of a run *)

Prompted == ToSet(Operations)
Captured == {"a", "b", "w", "v"}

\* What was asked for is where it was found.
AtIndex == index \in DOMAIN screen /\ screen[index] = asked

\* A picture of something else was taken after one change of the screen; if what was asked
\* for is in its place now, there was a second.
ShowsTheAsked(what) == what = asked \/ (since < shifts /\ (AtIndex => since + 1 < shifts))

\* While the group may be signalled its leader is not reaped, and after the kill whatever
\* is left of it was killed.
GroupInv ==
  /\ ~ struck
  /\ stage \in {"begin", "find", "spawn", "report"} => child = Nothing
  /\ stage \in {"drain", "status", "term", "grace", "reap"} => child \in {"running", "zombie"}
  /\ stage \in {"ended", "verify"} => child = "reaped"
  /\ stage \in {"drain", "term", "grace", "reap", "done"} \/ ~ spawned
  /\ spawned => streams
  /\ stage = "reap" /\ Alive => killed
  /\ stage = "done" /\ ~ failures => (Alive => killed) /\ child \in {Nothing, "reaped"}

CaptureInv ==
  /\ shifts \in Nat /\ since \in Nat /\ since <= shifts
  /\ job = Nothing <=> stage = "begin"
  /\ stage \in {"begin", "find"} \/ job \notin Shots => temp = Nothing
  /\ job \in Shots /\ stage \notin {"find", "done"} => AtIndex \/ since < shifts
  /\ temp \in Captured => ShowsTheAsked(temp)
  /\ stage = "verify" => job \in Shots /\ ShowsTheAsked(image)
  /\ outcome = "image" => stage = "done" /\ ShowsTheAsked(image) /\ AtIndex
  /\ stage \in {"verify", "done"} => temp \in {Nothing, "removed"}

PromptsInv ==
  /\ helper # "late" /\ ~ orphaned
  /\ prompted \subseteq Prompted
  /\ stage = "report" => job = "permissions"
  /\ stage = "report" \/ outcome = "report" => Prompted \subseteq prompted
  /\ stage # "done" => outcome = Nothing /\ report = Unanswered
  /\ \A p \in Prompted : report[p] = "granted" => answers[p] = "granted"
  /\ report["automation"] = "denied" => answers["automation"] = "refused"

RunInv == GroupInv /\ CaptureInv /\ PromptsInv
=============================================================================
