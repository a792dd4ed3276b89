---------------------------- MODULE CommandState ----------------------------
(***************************************************************************)
(* The constants and the variables of the commands whose invariants are    *)
(* proved in CommandProofs and ActionProofs.  The components share no      *)
(* state: a variable with the name of another component's is listed with   *)
(* the first of them, and the two never run together (see MCCommands).     *)
(***************************************************************************)

CONSTANTS
  Clients, Hosts, NoPeer,              \* CommandHost
  Windows, NoBaseline, MaxEntries,     \* Batch
  MaxVersions,                         \* Clipboard
  None, MaxChanges,                    \* RefResolution
  MaxNotes, Strategies,                \* NotificationCenter
  MaxUnits,                            \* PhysicalInput
  MaxTries,                            \* ActivationChain
  MaxApps, MaxEvents,                  \* AppLifecycle
  Amount, MaxAttempts,                 \* ScrollAction
  MaxMoves,                            \* PointerAction
  MaxShakes, Spots,                    \* Actionability
  MaxUserSteps,                        \* WindowOps
  MaxUserMenus,                        \* SelectValue
  MaxHelpers, MaxKills,                \* CursorOverlay
  MaxCalls, MaxAdapters,               \* FfiBoundary
  MaxScreenChanges                     \* Subprocess

VARIABLES
  \* CommandHost
  endpoint, private, owner, starter, hpc, backlog, serving, cpc, child, link, payload,
  answer, expired, runs, verdict,
  \* Batch (and verdict, expired)
  entries, stopOnError, index, at, pending, seed, scope, want, results, ran,
  sessionOver, status, instance, focused, dispatched, found, last,
  \* Clipboard
  request, caller, helper, ownership, attempt, reading, lateness, response, outcome,
  touched, version, content, held,
  \* RefResolution (and held)
  entry, shown, look, scrolled, titled, process, changes, phase, result,
  \* NotificationCenter (and request, phase, outcome, found, touched)
  center, front, session, hindered, notes, arrived, queue, target, before, strategy,
  dismissed,
  \* PhysicalInput (and held, verdict)
  gesture, units, stage, unit, moves, armed, releases, tracked, posted,
  \* ActivationChain (and at, stage, answer, shown, verdict)
  chain, headed, tries, effects, coming, base, already, readable, meddled, recorded,
  earlier, denied, missed, marked,
  \* DesiredState (and want, phase)
  action, radio, published, on, late, initially, wrote, refused, mayFlip, done,
  \* AppLifecycle (and stage, verdict)
  verb, options, alive, born, number, events, baseline, expected, given, callback,
  unread, grace, window, begun, doomed,
  \* ScrollAction (and headed, at, coming)
  goal, start, landing, lost, step, count, attempts, report,
  \* PointerAction (and moves, step, report)
  kind, refs, auto, places, looks, todo, half, first, moments, doubt, leased, overlay,
  tracking, acted,
  \* Actionability (and target, held, answer, pending, verdict)
  plan, element, shakes, turn, evidence, strict, samples, spot, tally, prior, effected,
  met,
  \* WindowOps (and published, front, effects, stage, target, report)
  op, bridge, twin, fate, main, userSteps, delivered, confirmations, sightings,
  \* SelectValue (and landing, shown, coming, step, target, report)
  family, exposed, value, has, nodes, opened, fallback,
  \* CursorOverlay (and on, stage, answer, helper, first, backlog)
  control, startLock, sent, life, socket, dragging, killed,
  \* FfiBoundary (and held)
  adapters, made, owners, handles, tokens, sharers, maker, allocated, known, hosted,
  lastError, failure, doing, using, block, calls,
  \* Subprocess (and stage, child, killed, refused, index, helper, report, outcome)
  job, clock, spawned, streams, exit, failures, struck, screen, shifts, asked, since,
  temp, image, answers, prompted, parent, orphaned
=============================================================================
