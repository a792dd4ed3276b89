----------------------------- MODULE Clipboard -----------------------------
(***************************************************************************)
(* The clipboard commands on macOS, crates/macos/src/input/clipboard*.rs.  *)
(*                                                                         *)
(* The caller starts a helper process for one read, write or clear, waits  *)
(* for its answer and kills it when time is up.  The helper works on the   *)
(* pasteboard of the system, which any application changes at any time.    *)
(* The pasteboard counts its versions: clearContents begins a new one and  *)
(* makes the caller its owner, and only the owner can add content to it.   *)
(***************************************************************************)
EXTENDS Naturals

CONSTANT MaxVersions   \* bound: how often the pasteboard is cleared

VARIABLES
  request,    \* "read", "write" or "clear", "none" before the start
  caller,     \* where the caller is
  helper,     \* where the helper is
  ownership,  \* the version the helper owns, or has seen before it reads
  attempt,    \* the attempts of a read
  reading,    \* what the helper has read
  lateness,   \* 1: the mutation deadline has passed, 2: that of the helper, too
  response,   \* the answer of the helper, "none" for no valid answer
  outcome,    \* what the caller reports
  touched,    \* whether the helper has changed the pasteboard
  version,    \* the change count of the pasteboard
  content,    \* what is on it
  held        \* what was on it, for each version

boardVars == <<version, content, held>>
helperVars == <<helper, ownership, attempt, reading, response, touched>>
vars == <<request, caller, lateness, outcome, helperVars, boardVars>>

\* "mine" is what a write is to put there; another application may copy it, too.
Contents == {"empty", "mine", "text", "files"}

Owned == version = ownership

Put(c) ==
  /\ content' = c
  /\ held' = [held EXCEPT ![version] = @ \cup {c}]

\* clearContents
NewVersion ==
  /\ version < MaxVersions
  /\ version' = version + 1
  /\ content' = "empty"
  /\ held' = [held EXCEPT ![version + 1] = {"empty"}]

Answer(r) == helper' = "exited" /\ response' = r

-----------------------------------------------------------------------------
(* Other applications, and the clock *)

OthersClear ==
  /\ caller = "waiting"
  /\ NewVersion
  /\ UNCHANGED <<request, caller, lateness, outcome, helperVars>>

\* The application that has cleared the pasteboard adds its content.
OthersPut ==
  /\ caller = "waiting"
  /\ content = "empty" /\ ~ (touched /\ Owned) /\ version > 1
  /\ \E c \in Contents \ {"empty"} : Put(c)
  /\ UNCHANGED <<request, caller, lateness, outcome, helperVars, version>>

TimePasses ==
  /\ caller = "waiting" /\ lateness < 2
  /\ lateness' = lateness + 1
  /\ UNCHANGED <<request, caller, outcome, helperVars, boardVars>>

-----------------------------------------------------------------------------
(* The helper: clipboard_transaction and get_content_direct *)

\* protocol_context, read_input and what is checked before the pasteboard is
\* touched: an error without a disposition is one that delivered nothing.
Prepare ==
  /\ helper = "preparing"
  /\ \/ Answer("not_delivered")
     \/ /\ request = "write" => lateness = 0
        /\ request # "write" => lateness < 2
        /\ helper' = IF request = "read" THEN "marking" ELSE "clearing"
        /\ UNCHANGED response
  /\ UNCHANGED <<request, caller, lateness, outcome, ownership, attempt, reading, touched, boardVars>>

\* The token of the new version may be invalid.
Clear ==
  /\ helper = "clearing"
  /\ NewVersion
  /\ touched' = TRUE
  /\ \/ ownership' = version + 1 /\ helper' = "cleared" /\ UNCHANGED response
     \/ Answer("uncertain") /\ UNCHANGED ownership
  /\ UNCHANGED <<request, caller, lateness, outcome, attempt, reading>>

CheckCleared ==
  /\ helper = "cleared"
  /\ CASE request = "clear" ->
            Answer(IF ~ Owned THEN "uncertain" ELSE IF lateness = 2 THEN "delivered_verified" ELSE "ok")
       [] request = "write" /\ ~ Owned -> Answer("delivered_unverified")
       [] request = "write" /\ Owned ->
            helper' = (IF lateness > 0 THEN "failing" ELSE "writing") /\ UNCHANGED response
  /\ UNCHANGED <<request, caller, lateness, outcome, ownership, attempt, reading, touched, boardVars>>

\* A write that reports success need not retain the content, and one that
\* fails may have added it.  It fails for a helper that is not the owner.
Write ==
  /\ helper = "writing"
  /\ helper' \in {"failing"} \cup (IF Owned THEN {"written"} ELSE {})
  /\ UNCHANGED boardVars \/ (Owned /\ Put("mine") /\ UNCHANGED version)
  /\ UNCHANGED <<request, caller, lateness, outcome, ownership, attempt, reading, touched, response>>

CheckWritten ==
  /\ helper = "written"
  /\ \/ Owned /\ helper' = "verifying" /\ UNCHANGED response
     \/ ~ Owned /\ Answer("delivered_unverified")
  /\ UNCHANGED <<request, caller, lateness, outcome, ownership, attempt, reading, touched, boardVars>>

Verify ==
  /\ helper = "verifying"
  /\ \/ Answer("delivered_unverified") /\ UNCHANGED reading
     \/ lateness = 0 /\ reading' = content /\ helper' = "verified" /\ UNCHANGED response
  /\ UNCHANGED <<request, caller, lateness, outcome, ownership, attempt, touched, boardVars>>

\* A plausible mistake: what was read is believed without another look at the
\* change count.
ConcludeUnowned ==
  /\ helper = "verified"
  /\ CASE reading # "mine" -> helper' = "failing" /\ UNCHANGED response
       [] reading = "mine" -> Answer(IF lateness = 2 THEN "delivered_verified" ELSE "ok")
  /\ UNCHANGED <<request, caller, lateness, outcome, ownership, attempt, reading, touched, boardVars>>

Conclude ==
  /\ helper = "verified"
  /\ CASE ~ Owned -> Answer("delivered_unverified")
       [] Owned /\ reading # "mine" -> helper' = "failing" /\ UNCHANGED response
       [] Owned /\ reading = "mine" -> Answer(IF lateness = 2 THEN "delivered_verified" ELSE "ok")
  /\ UNCHANGED <<request, caller, lateness, outcome, ownership, attempt, reading, touched, boardVars>>

\* post_clear_failure: what is left of the write is cleared, unless the
\* pasteboard is no longer the helper's.
CheckCleanup ==
  /\ helper = "failing"
  /\ CASE ~ Owned -> Answer("delivered_unverified")
       [] Owned /\ lateness = 2 -> Answer("uncertain")
       [] Owned /\ lateness < 2 -> helper' = "erasing" /\ UNCHANGED response
  /\ UNCHANGED <<request, caller, lateness, outcome, ownership, attempt, reading, touched, boardVars>>

Erase ==
  /\ helper = "erasing"
  /\ NewVersion
  /\ \/ ownership' = version + 1 /\ helper' = "erased" /\ UNCHANGED response
     \/ Answer("uncertain") /\ UNCHANGED ownership
  /\ UNCHANGED <<request, caller, lateness, outcome, attempt, reading, touched>>

CheckErased ==
  /\ helper = "erased"
  /\ Answer(IF Owned THEN "delivered_unverified" ELSE "uncertain")
  /\ UNCHANGED <<request, caller, lateness, outcome, ownership, attempt, reading, touched, boardVars>>

Mark ==
  /\ helper = "marking"
  /\ ownership' = version
  /\ helper' = "reading_files"
  /\ UNCHANGED <<request, caller, lateness, outcome, attempt, reading, response, touched, boardVars>>

\* auto_content: file URLs come first, then an image, then text.
ReadFiles ==
  /\ helper = "reading_files"
  /\ IF content = "files" THEN reading' = "files" /\ helper' = "read"
                          ELSE helper' = "reading_text" /\ UNCHANGED reading
  /\ UNCHANGED <<request, caller, lateness, outcome, ownership, attempt, response, touched, boardVars>>

ReadText ==
  /\ helper = "reading_text"
  /\ reading' = IF content = "files" THEN "empty" ELSE content
  /\ helper' = "read"
  /\ UNCHANGED <<request, caller, lateness, outcome, ownership, attempt, response, touched, boardVars>>

\* The version must be the one before the read; there are two attempts.
Settle ==
  /\ helper = "read"
  /\ CASE lateness = 2 \/ (~ Owned /\ attempt = 2) -> Answer("failed") /\ UNCHANGED attempt
       [] lateness < 2 /\ Owned -> Answer("ok") /\ UNCHANGED attempt
       [] lateness < 2 /\ ~ Owned /\ attempt = 1 ->
            attempt' = 2 /\ helper' = "marking" /\ UNCHANGED response
  /\ UNCHANGED <<request, caller, lateness, outcome, ownership, reading, touched, boardVars>>

\* The helper crashes, or its answer cannot be written or does not come whole.
HelperFails ==
  /\ helper \notin {"off", "exited"} \/ (helper = "exited" /\ response # "none")
  /\ Answer("none")
  /\ caller = "waiting"
  /\ UNCHANGED <<request, caller, lateness, outcome, ownership, attempt, reading, touched, boardVars>>

-----------------------------------------------------------------------------
(* The caller: clipboard_helper_client and clipboard_helper_process *)

Done(v) == caller' = "done" /\ outcome' = v

\* classify_mutation_failure
Unanswered == IF request = "read" THEN "failed" ELSE "uncertain"

Start ==
  /\ caller = "new"
  /\ request' \in {"read", "write", "clear"}
  /\ content' \in Contents /\ held' = [held EXCEPT ![1] = {content'}]
  /\ \/ helper' = "preparing" /\ caller' = "waiting" /\ UNCHANGED outcome
     \/ Done("not_delivered") /\ UNCHANGED helper
  /\ UNCHANGED <<lateness, ownership, attempt, reading, response, touched, version>>

\* The work deadline, an identity of the helper's file that has changed, or an
\* error of the pipes: the process group is killed.
Kill ==
  /\ caller = "waiting"
  /\ helper' = "exited"
  /\ Done(Unanswered)
  /\ UNCHANGED <<request, lateness, ownership, attempt, reading, response, touched, boardVars>>

Collect ==
  /\ caller = "waiting" /\ helper = "exited"
  /\ Done(IF response = "none" THEN Unanswered ELSE response)
  /\ UNCHANGED <<request, lateness, helperVars, boardVars>>

-----------------------------------------------------------------------------

Init ==
  /\ request = "none" /\ caller = "new" /\ helper = "off"
  /\ ownership = 0 /\ attempt = 1 /\ reading = "empty" /\ lateness = 0
  /\ response = "none" /\ outcome = "none" /\ touched = FALSE
  /\ version = 1 /\ content = "empty"
  /\ held = [v \in 1 .. MaxVersions |-> IF v = 1 THEN {"empty"} ELSE {}]

HelperStep ==
  /\ caller = "waiting"
  /\ \/ Prepare \/ Clear \/ CheckCleared \/ Write \/ CheckWritten \/ Verify \/ Conclude
     \/ CheckCleanup \/ Erase \/ CheckErased \/ Mark \/ ReadFiles \/ ReadText \/ Settle

Next ==
  \/ OthersClear \/ OthersPut \/ TimePasses
  \/ Start \/ Kill \/ Collect \/ HelperStep \/ HelperFails

Spec == Init /\ [][Next]_vars

-----------------------------------------------------------------------------
(* Properties *)

Outcomes == {"not_delivered", "delivered_unverified", "delivered_verified", "uncertain", "ok",
             "failed"}

TypeOK ==
  /\ request \in {"none", "read", "write", "clear"}
  /\ caller \in {"new", "waiting", "done"}
  /\ helper \in {"off", "preparing", "clearing", "cleared", "writing", "written", "verifying",
                 "verified", "failing", "erasing", "erased", "marking", "reading_files",
                 "reading_text", "read", "exited"}
  /\ ownership \in 0 .. MaxVersions /\ attempt \in 1 .. 2 /\ reading \in Contents
  /\ lateness \in 0 .. 2
  /\ response \in Outcomes \cup {"none"} /\ outcome \in Outcomes \cup {"none"}
  /\ touched \in BOOLEAN
  /\ version \in 1 .. MaxVersions /\ content \in Contents
  /\ held \in [1 .. MaxVersions -> SUBSET Contents]

\* What the caller reports is true, whatever other applications do and
\* whenever the helper dies: what was not delivered has changed nothing; a
\* write that was verified has put its content on a version that it owned; and
\* a read returns what one version has held, not parts of two.
ClipboardIsHonest ==
  /\ outcome = "not_delivered" => ~ touched
  /\ outcome \in {"delivered_unverified", "delivered_verified"} => touched
  /\ outcome \in {"ok", "delivered_verified"} =>
       CASE request = "write" -> "mine" \in held[ownership]
         [] request = "clear" -> "empty" \in held[ownership]
         [] request = "read" -> reading \in held[ownership]

-----------------------------------------------------------------------------
(* The inductive invariant *)

\* What is on the pasteboard belongs to its version; a helper owns, or has
\* seen, no version that is still to come.
BoardIsKept ==
  /\ content \in held[version] /\ ownership <= version
  /\ caller = "new" => version = 1 /\ helper = "off"

\* An answer that claims a success is backed by what a version has held.
Backed ==
  /\ request # "none"
  /\ request = "write" => "mine" \in held[ownership]
  /\ request = "clear" => "empty" \in held[ownership]
  /\ request = "read" => reading \in held[ownership]

\* What the helper knows of the pasteboard at each of its steps.
HelperIsKept ==
  /\ helper # "exited" => response = "none"
  /\ helper \in {"off", "preparing", "clearing", "marking", "reading_files", "reading_text", "read"}
       => ~ touched
  /\ helper \in {"cleared", "writing", "written", "verifying", "verified", "failing", "erasing",
                 "erased"} => touched
  /\ helper = "preparing" => request # "none"
  /\ helper = "clearing" => request \in {"write", "clear"}
  /\ helper \in {"writing", "written", "verifying", "verified", "failing", "erasing", "erased"}
       => request = "write"
  /\ helper \in {"marking", "reading_files", "reading_text", "read"} => request = "read"
  /\ helper \in {"cleared", "writing", "written", "verifying", "verified", "reading_files",
                 "reading_text", "read"} => ownership >= 1
  /\ helper = "cleared" => request \in {"write", "clear"} /\ "empty" \in held[ownership]
  /\ helper = "reading_text" /\ Owned /\ content = "files" => "empty" \in held[version]
  /\ helper \in {"verified", "read"} /\ Owned => reading \in held[version]

AnswerIsKept ==
  /\ caller # "done" => outcome = "none"
  /\ response = "not_delivered" => ~ touched
  /\ response \in {"delivered_unverified", "delivered_verified"} => touched
  /\ response \in {"ok", "delivered_verified"} => ownership >= 1 /\ Backed

ClipboardInv == TypeOK /\ BoardIsKept /\ HelperIsKept /\ AnswerIsKept /\ ClipboardIsHonest
=============================================================================
