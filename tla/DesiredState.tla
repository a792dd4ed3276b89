---------------------------- MODULE DesiredState ----------------------------
(***************************************************************************)
(* The actions that ask for a state and not for an event: check, uncheck   *)
(* and toggle, crates/macos/src/actions/toggle_state{,_radio}.rs, expand   *)
(* and collapse, chain_disclosure_steps.rs.                                *)
(*                                                                         *)
(* Such an action reads the state, and tries in turn to have it written    *)
(* and to have it flipped by a press.  A flip that is asked for when the   *)
(* state is already the wanted one undoes it.  The application does what   *)
(* it is asked at once, later, or never, as in ActivationChain.            *)
(***************************************************************************)
EXTENDS Naturals, Sequences

VARIABLES
  action,     \* "check", "toggle", "disclose"
  want,       \* the state that is asked for
  radio,      \* whether the control is a radio button
  published,  \* whether the application shows the state
  on,         \* the state
  late,       \* what is still to be done to it
  initially,  \* the state it began with
  phase,      \* where the action is
  wrote,      \* the application accepted a write or a native action
  refused,    \* the application did not take the write
  mayFlip,    \* the state that was read to begin with was the other one
  done        \* how the action ended

target == <<action, want, radio, published, initially>>
control == <<on, late>>
tried == <<wrote, refused, mayFlip>>
desiredVars == <<target, control, phase, tried, done>>

End(v) == phase' = "done" /\ done' = v /\ UNCHANGED <<target, control, tried>>
GoTo(p) == phase' = p /\ UNCHANGED <<target, control, done>>

\* What a request does to the state.
Apply(what, s) == IF what = "set" THEN want ELSE ~ s
Effect(what) == \/ UNCHANGED control
                \/ on' = Apply(what, on) /\ UNCHANGED late
                \/ late' = Append(late, what) /\ UNCHANGED on

Shows(s) == published /\ on = s

\* after_delivery: what comes after a delivery is reported as one.
Failed == IF wrote THEN "failed_unverified" ELSE "failed_not_delivered"

-----------------------------------------------------------------------------

Begin ==
  /\ phase = "new"
  /\ action' \in {"check", "toggle", "disclose"}
  /\ want' \in BOOLEAN /\ radio' \in BOOLEAN /\ published' \in BOOLEAN /\ on' \in BOOLEAN
  /\ radio' => action' # "disclose"
  /\ initially' = on' /\ phase' = "reading"
  /\ UNCHANGED <<late, tried, done>>

Arrive ==
  /\ phase \notin {"new", "done"} /\ late # <<>>
  /\ on' = Apply(Head(late), on) /\ late' = Tail(late)
  /\ UNCHANGED <<target, phase, tried, done>>

\* A read fails, the deadline passes, or the press is not delivered.
GiveUp ==
  /\ phase \notin {"new", "done"}
  /\ End(Failed)

\* The state is there: "already in state", "satisfied without delivery".
Satisfied ==
  /\ phase = "reading" /\ action # "toggle"
  /\ Shows(want)
  /\ End("satisfied")

\* disclosure_plan: only a state that was read as the other one may be flipped.
Read ==
  /\ phase = "reading"
  /\ action # "toggle" => ~ Shows(want)
  /\ mayFlip' = Shows(~ want) /\ UNCHANGED <<wrote, refused>>
  /\ GoTo(IF action = "toggle" THEN "flipping" ELSE "writing")

\* set_ax_bool_or_err of the value; the native action of a disclosure, and its
\* attribute when there is no such action.
Write ==
  /\ phase = "writing"
  /\ Effect("set")
  /\ \/ wrote' = TRUE /\ phase' = "verifying" /\ UNCHANGED done
     \/ wrote' = wrote /\ phase' = "done" /\ done' = "failed_uncertain"
  /\ UNCHANGED <<target, refused, mayFlip>>

\* The value cannot be set, or the write is not taken.
WriteRefused ==
  /\ phase = "writing"
  /\ refused' \in BOOLEAN /\ UNCHANGED <<wrote, mayFlip>>
  /\ GoTo(CASE action = "disclose" -> IF mayFlip THEN "flipping" ELSE "spent"
            [] action = "check" /\ radio /\ ~ want -> "spent"
            [] OTHER -> "flipping")

\* Nothing is left to try (exhaustion_error, refuse_uncheck): a radio button
\* whose state is the wanted one after a refused write has it from elsewhere.
Spent ==
  /\ phase = "spent"
  /\ IF action = "check" /\ refused
       THEN CASE Shows(want) -> End("verified")
              [] Shows(~ want) -> End("failed_not_delivered")
              [] ~ published -> End("failed_unverified")
       ELSE End("failed_not_delivered")

\* settle_checked_state, verify_disclosure: the wanted state is seen ...
Verified ==
  /\ phase \in {"verifying", "settling"} /\ action # "toggle"
  /\ Shows(want)
  /\ End("verified")

\* ... or it is not seen in time.  A check is then flipped by a press, if the
\* other state is read once more.
Unseen ==
  /\ phase = "verifying"
  /\ IF action = "check"
       THEN GoTo("rereading") /\ UNCHANGED tried
       ELSE End(IF published THEN "failed_unverified" ELSE "unverified")

Reread ==
  /\ phase = "rereading"
  /\ CASE Shows(want) -> End("verified")
       [] Shows(~ want) /\ ~ (radio /\ ~ want) -> GoTo("flipping") /\ UNCHANGED tried
       [] OTHER -> End("failed_unverified")

\* semantic_click: the press; that of a disclosure only if it is read as the
\* other state once more.
Flip ==
  /\ phase = "flipping"
  /\ action = "disclose" => Shows(~ want)
  /\ Effect("flip")
  /\ \/ wrote' = TRUE /\ phase' = "settling" /\ UNCHANGED done
     \/ /\ wrote' = wrote /\ phase' = "done"
        /\ done' = IF wrote THEN "failed_unverified" ELSE "failed_uncertain"
  /\ UNCHANGED <<target, refused, mayFlip>>

FlipUndue ==
  /\ phase = "flipping" /\ action = "disclose" /\ ~ Shows(~ want)
  /\ End("failed_not_delivered")

\* wait_for_value_change: the value is another one, and stays so for a while.
Toggled ==
  /\ phase = "settling" /\ action = "toggle"
  /\ End(CASE Shows(~ initially) -> "verified"
           [] Shows(initially) -> "failed_unverified"
           [] ~ published -> "unverified")

Unsettled ==
  /\ phase = "settling" /\ action # "toggle"
  /\ End(IF action = "disclose" /\ ~ published THEN "unverified" ELSE "failed_unverified")

-----------------------------------------------------------------------------

Init ==
  /\ action = "check" /\ want = TRUE /\ radio = FALSE /\ published = TRUE
  /\ on = FALSE /\ initially = FALSE /\ late = <<>> /\ phase = "new"
  /\ wrote = FALSE /\ refused = FALSE /\ mayFlip = FALSE /\ done = "none"

Next ==
  \/ Begin \/ Arrive \/ GiveUp \/ Satisfied \/ Read \/ Write \/ WriteRefused \/ Spent
  \/ Verified \/ Unseen \/ Reread \/ Flip \/ FlipUndue \/ Toggled \/ Unsettled

Spec == Init /\ [][Next]_desiredVars

-----------------------------------------------------------------------------
(* Properties *)

TypeOK ==
  /\ action \in {"check", "toggle", "disclose"}
  /\ {want, radio, published, on, initially, wrote, refused, mayFlip} \subseteq BOOLEAN
  /\ late \in {<<>>, <<"set">>, <<"flip">>, <<"set", "flip">>}
  /\ phase \in {"new", "reading", "writing", "verifying", "rereading", "flipping", "settling",
                "spent", "done"}
  /\ done \in {"none", "satisfied", "verified", "unverified", "failed_not_delivered",
               "failed_unverified", "failed_uncertain"}

\* When nothing is under way any more, an action that reports its state has
\* it, and one that reports that nothing was delivered has changed nothing.
StateIsAsReported ==
  late = <<>> =>
    /\ done \in {"satisfied", "verified"} /\ action # "toggle" => on = want
    /\ done = "verified" /\ action = "toggle" => on # initially
    /\ done \in {"satisfied", "failed_not_delivered"} => on = initially
-----------------------------------------------------------------------------
(* The inductive invariant *)

\* As long as no request was accepted and the action runs, the control is as it was
\* found and nothing is under way; a disclosure is flipped only then.
DesireInv ==
  /\ want \in BOOLEAN /\ on \in BOOLEAN /\ initially \in BOOLEAN /\ wrote \in BOOLEAN
  /\ phase = "done" <=> done # "none"
  /\ phase # "done" /\ ~ wrote => late = <<>> /\ on = initially
  /\ phase \in {"new", "reading", "writing", "spent"} => ~ wrote
  /\ phase = "flipping" /\ action = "disclose" => ~ wrote
  /\ phase = "rereading" => action = "check"
  /\ StateIsAsReported
=============================================================================
