--------------------------- MODULE RendererAccess ---------------------------
(***************************************************************************)
(* Observing the window of an application whose renderer builds its        *)
(* accessibility tree only when it is asked to (renderer_accessibility.rs, *)
(* macos query/mod.rs, renderer_probe.rs, renderer_activation.rs): the     *)
(* tree is read, an attribute of the application is switched on under the  *)
(* interaction lease, once, and the tree is read again until the renderer  *)
(* shows it.  The time of the lease is not charged to the observation,     *)
(* whose deadline it moves, unless the command inherited one (deadline.rs).*)
(***************************************************************************)
EXTENDS Naturals

CONSTANTS
  Budget,        \* how long the observation may take
  LeaseBudget,   \* how long the interaction lease is asked for (Deadline::standard)
  Settling,      \* how long ENHANCED takes to settle (ENHANCED_ACTIVATION_DELAY)
  Scopes         \* the deadlines a command may have inherited

VARIABLES
  now,        \* the time
  scope,      \* INHERITED_DEADLINE
  deadline,   \* when the observation ends
  lease,      \* when the interaction lease ends that was asked for
  started,    \* when the activation was started
  paused,     \* how long it took
  step,       \* "observe", "probe", "lease", "switch", "set", "settle", "sleep", "done"
  activated,  \* the activation was carried out
  delay,      \* how long to sleep before the next observation
  seen,       \* what the observation saw: see Saw
  mode,       \* the attribute the application has: "manual", "enhanced" or "none"
  on,         \* the attribute is set
  published,  \* the renderer shows its tree
  taken,      \* another process holds the interaction lease
  sets,       \* how often the attribute was written
  effective,  \* a write took effect
  result,     \* "none", "tree", "timeout", "failed"
  cause,      \* why it took the time: "none", "observation", "lease" or "probe"
  said        \* what the activation that failed said of the delivery

timeVars == <<now, scope, deadline, lease, started, paused>>
applicationVars == <<mode, on, published, taken>>
outcomeVars == <<result, cause, said>>
writes == <<sets, effective>>
vars == <<timeVars, step, activated, delay, seen, applicationVars, writes, outcomeVars>>

MaxDelay == 2

\* choose_attribute: what an application has of MANUAL and ENHANCED, in that order.
Modes == {"manual", "enhanced", "none"}
Saw(web, complete, deep) == [web |-> web, complete |-> complete, deep |-> deep]

Earlier(a, b) == IF a < b THEN a ELSE b

\* Deadline::after and extended_by: never beyond the inherited deadline.
After(from, time) == Earlier(from + time, scope)
Extended(d, pause) == Earlier(d + pause, scope)
Remaining(d) == IF d > now THEN d - now ELSE 0

-----------------------------------------------------------------------------
(* The application, and the others who use the desktop *)

\* A renderer shows its tree some time after its attribute was set.
Publish ==
  /\ ~ published /\ on /\ step # "done"
  /\ published' = TRUE
  /\ UNCHANGED <<timeVars, step, activated, delay, seen, mode, on, taken, writes, outcomeVars>>

-----------------------------------------------------------------------------
(* The observation (renderer_accessibility::observe_tree, query::observe_tree) *)

Nothing == Saw(FALSE, FALSE, FALSE)

Finish(r, why, delivery) ==
  /\ step' = "done" /\ result' = r /\ cause' = why /\ said' = delivery
  /\ seen' = IF r = "tree" THEN seen ELSE Nothing
  /\ started' = 0 /\ lease' = 0 /\ delay' = 1
  /\ UNCHANGED <<scope, deadline, activated, mode, published>>

\* The observation ends on its own, not during an activation.
End(r, why) == Finish(r, why, "none") /\ UNCHANGED <<paused, on, taken, writes>>

\* A call to the application takes some time, a slice of what remains at most
\* (ax_ipc::prepare).
Takes(d) == \E time \in 0 .. Earlier(1, Remaining(d)) : now' = now + time

\* A walk that is cut short, or does not go deep enough, may miss the page.
Observe ==
  /\ step = "observe"
  /\ \/ Remaining(deadline) = 0 /\ now' = now /\ End("timeout", "observation")
     \/ /\ Remaining(deadline) > 0 /\ Takes(deadline) /\ step' = "probe"
        /\ seen' \in {Saw(web, complete, deep) :
                        web \in {FALSE, published}, complete \in BOOLEAN, deep \in BOOLEAN}
        /\ seen'.complete /\ seen'.deep => seen'.web = published
        /\ UNCHANGED <<scope, deadline, lease, started, paused, activated, delay,
                       applicationVars, writes, outcomeVars>>

\* The window, the element or its process cannot be found or read (resolve_root).
ObserveFails == step = "observe" /\ now' = now /\ End("failed", "probe")

\* activation_needed: `value` is what was read of the attribute.
Needed(value) ==
  \/ mode = "manual" /\ ~ seen.web /\ seen.complete /\ seen.deep
  \/ mode = "enhanced" /\ seen.web /\ value # "on"
  \/ mode = "enhanced" /\ ~ seen.web /\ value = "off"

Values == {IF on THEN "on" ELSE "off", "unread"}

\* activation_required: nobody looks unless there is a page, or the walk missed
\* nothing.
Probe ==
  /\ step = "probe"
  /\ \/ ~ seen.web /\ ~ seen.complete /\ now' = now /\ End("tree", "none")
     \/ /\ seen.web \/ seen.complete
        /\ Takes(deadline)
        /\ \E value \in Values :
             \/ ~ Needed(value) /\ End("tree", "none")
             \/ /\ Needed(value)
                /\ step' = (IF activated THEN "sleep" ELSE "lease") /\ seen' = Nothing
                /\ started' = (IF activated THEN 0 ELSE now')
                /\ lease' = IF activated THEN 0 ELSE After(now', LeaseBudget)
                /\ UNCHANGED <<scope, deadline, paused, activated, delay, applicationVars,
                               writes, outcomeVars>>
     \/ (seen.web \/ seen.complete) /\ now' = now /\ End("failed", "probe")

\* The wait backs off.
Sleep ==
  /\ step = "sleep"
  /\ \/ Remaining(deadline) = 0 /\ now' = now /\ End("timeout", "observation")
     \/ /\ Remaining(deadline) > 0 /\ step' = "observe"
        /\ now' = now + Earlier(Remaining(deadline), delay)
        /\ delay' = Earlier(2 * delay, MaxDelay)
        /\ UNCHANGED <<scope, deadline, lease, started, paused, activated, seen,
                       applicationVars, writes, outcomeVars>>

-----------------------------------------------------------------------------
(* The activation (renderer_accessibility::activate, renderer_activation.rs) *)

\* The command gives up: the observation's time-out is what it reports of the
\* time-outs of the activation.
GiveUp(r, why, delivery) == paused' = now' - started /\ Finish(r, why, delivery)

Go(next) ==
  /\ step' = next
  /\ UNCHANGED <<scope, deadline, lease, started, paused, activated, delay, seen, mode,
                 published, outcomeVars>>

\* acquire_interaction_lease
Lease ==
  /\ step = "lease" /\ UNCHANGED <<on, writes>>
  /\ \/ taken /\ Remaining(lease) > 0 /\ now' = now + 1 /\ taken' \in BOOLEAN /\ Go("lease")
     \/ taken /\ Remaining(lease) = 0 /\ UNCHANGED <<now, taken>>
        /\ GiveUp("timeout", "lease", "not_delivered")
     \/ ~ taken /\ UNCHANGED <<now, taken>> /\ Go("switch")

\* extended_by moves the deadline by the time the activation took.
Activated ==
  /\ step' = "sleep" /\ activated' = TRUE
  /\ paused' = now' - started /\ deadline' = Extended(deadline, now' - started)
  /\ started' = 0 /\ lease' = 0
  /\ UNCHANGED <<scope, delay, seen, mode, published, outcomeVars>>

SettlingTime == IF mode = "enhanced" THEN Settling ELSE 0

\* Before anything is written the process and its attribute are looked up, and
\* what is on already is left alone, or what could not settle in time.
Switch ==
  /\ step = "switch" /\ UNCHANGED <<on, taken, writes>>
  /\ \/ \E r \in {"timeout", "failed"} : now' = now /\ GiveUp(r, "probe", "not_delivered")
     \/ Remaining(lease) = 0 /\ now' = now /\ GiveUp("timeout", "lease", "not_delivered")
     \/ /\ Remaining(lease) > 0 /\ Takes(lease)
        /\ \E value \in Values :
             \/ value = "on" /\ Activated
             \/ /\ value # "on" /\ lease - now' > SettlingTime /\ Go("set")
             \/ /\ value # "on" /\ lease - now' <= SettlingTime
                /\ GiveUp("timeout", "lease", "not_delivered")

\* set_attribute_value; then the value is read back (activation_delivered).  What
\* an application calls unsupported, and cannot be read back, it did not do.
Set ==
  /\ step = "set" /\ sets' = sets + 1 /\ Takes(lease) /\ UNCHANGED taken
  /\ \E answer \in {"done", "unsupported", "unclear", "not sent"}, readable \in BOOLEAN :
       /\ on' \in IF answer = "not sent" THEN {on} ELSE {TRUE, on}
       /\ on' /\ ~ on => answer # "unsupported" \/ readable
       /\ LET delivered == (answer # "not sent" /\ readable /\ on') \/ answer = "done"
          IN  \/ delivered /\ (mode = "manual" \/ on' \/ ~ readable) /\ Go("settle")
              \/ delivered /\ mode = "enhanced" /\ readable /\ ~ on'
                 /\ GiveUp("failed", "probe", "delivered_unverified")
              \/ ~ delivered /\ answer \in {"unsupported", "not sent"}
                 /\ GiveUp("failed", "probe", "not_delivered")
              \/ ~ delivered /\ answer = "unclear" /\ GiveUp("failed", "probe", "uncertain")
              \/ ~ readable /\ answer # "not sent"           \* or the read fails
                 /\ \E r \in {"timeout", "failed"} : GiveUp(r, "probe", "uncertain")
       /\ effective' = (on' /\ ~ on)

Settle ==
  /\ step = "settle" /\ UNCHANGED <<on, taken, writes>>
  /\ now' = now + Earlier(Remaining(lease), SettlingTime)
  /\ \/ now' < lease /\ Activated
     \/ now' >= lease /\ GiveUp("timeout", "lease", "delivered_unverified")

-----------------------------------------------------------------------------

Init ==
  /\ now = 0 /\ scope \in Scopes /\ deadline = After(0, Budget)
  /\ lease = 0 /\ started = 0 /\ paused = 0
  /\ step = "observe" /\ activated = FALSE /\ delay = 1 /\ seen = Nothing
  /\ mode \in Modes /\ on \in {FALSE, mode # "none"}
  /\ published \in BOOLEAN /\ taken \in BOOLEAN
  /\ sets = 0 /\ effective = FALSE /\ result = "none" /\ cause = "none" /\ said = "none"

Next == Publish \/ Observe \/ ObserveFails \/ Probe \/ Sleep \/ Lease \/ Switch \/ Set \/ Settle

Spec == Init /\ [][Next]_vars

-----------------------------------------------------------------------------
(* Properties *)

\* The values the state takes.
TypeOK ==
  /\ now <= Budget + LeaseBudget /\ deadline <= Budget + LeaseBudget
  /\ result \in {"none", "tree", "timeout", "failed"}
  /\ step \in {"observe", "probe", "lease", "switch", "set", "settle", "sleep", "done"}

\* The observation ends with its own time, to which the activation's is added,
\* and with the inherited deadline in any case; it is not called too late before
\* that, unless the lease ran out or the application did not answer
\* (renderer_accessibility::activate, Deadline::extended_by).
TimeIsKept ==
  step = "done" =>
    /\ now <= scope /\ now <= Budget + paused
    /\ result = "timeout" /\ cause = "observation" => now = scope \/ now = Budget + paused

\* A walk that missed nothing does not pass for the window while its renderer
\* sleeps: with an attribute that must be set, it shows the page, or the
\* attribute was not readable (activation_required).
NoSleepingTree ==
  result = "tree" /\ seen.complete /\ seen.deep /\ mode = "manual" => seen.web

\* The attribute is written once at most, however often the observation is
\* repeated, and an activation that says nothing was delivered wrote nothing that
\* took effect (renderer_activation.rs).
SwitchedOnce == sets <= 1 /\ (said = "not_delivered" => ~ effective)

RendererIsSeen == TimeIsKept /\ NoSleepingTree /\ SwitchedOnce
=============================================================================
