# A verification project for agent-desktop

agent-desktop is a command-line program (with a C FFI) that lets software agents
observe desktop applications through the accessibility tree and act on them.
Most of its commands are short-lived processes.  They share a state directory:
snapshots of what was observed, session manifests, traces, artifacts, and lock
files.  What makes the program hard is what happens between those processes,
and between the program and an application that changes under it.  This
directory holds TLA+ models of those parts, TLC runs over small instances and
TLAPS proofs about every instance.

All source paths below are relative to the repository; `core/` stands for
`crates/core/src/`.

## 1. Inventory

| Part | Where | State | Operations | Interacts with |
|---|---|---|---|---|
| Snapshot store | `core/refs_store*.rs`, `refs.rs`, `snapshot*.rs`, `ref_alloc.rs` | one directory per snapshot with `refmap.json`, `latest_snapshot_id`, `refstore.lock` | observe and allocate refs, save a snapshot, drill down into a ref, inventory, prune | every command that observes; session end and gc |
| Interaction lease | `core/interaction_lease.rs`, `process_lease_guard.rs`, `file_lock.rs` | a flag per process, a flock per user | acquire, release, pass to a child process | every command that acts |
| Ref action | `core/ref_action*.rs`, `post_action.rs`, `commands/{hover,drag}.rs` | resolved element, delivery disposition | poll, resolve, check, focus, scroll, dispatch, verify | lease, adapter, application |
| Actionability, stability | `core/actionability/` | evidence about a live element, equal samples of its bounds | read, gate, hit-test, sample | ref action |
| Delivery semantics | `core/delivery_semantics.rs`, `adapter_error.rs` | disposition and retry advice of an error | classify, mark, combine | everything that acts |
| Deadlines | `core/deadline.rs`, `wait_budget.rs` | absolute instants, a thread-local inherited one | after, detached, capped, extended, scope | everything |
| Session lifecycle | `core/session/` | manifest, liveness files, directory tree | start, end, set overlay, gc, acquire liveness | snapshot store, trace |
| Artifact budget | `core/trace_artifact*.rs` | usage ledger, artifact files | reserve, write, roll back, rescan | trace, session end |
| Trace | `core/trace*.rs`, `trace_read/` | one segment per process | append, read, merge, warn | every command |
| Waits | `core/commands/wait*.rs`, `signals.rs` | last observation, baseline, tree to be saved | poll, materialise, time out, save | snapshot store, adapter |
| Batch and policy | `src/src/batch`, `dispatch`, `command_policy` | index, pending baseline, results, shared deadline | prepare, run entries, capture, stop | every command |
| Command host | `src/src/command_host*.rs` | socket file, two lock files, one connection at a time | start, connect, serve a frame, time out | every forwarded command |
| Cursor overlay | `core/cursor_overlay`, `macos/system/cursor_overlay` | helper process, its socket | start, control, acknowledge, stop | ref action, session end |
| Live locator | `core/live_locator`, `macos/tree/query` | observed tree with its completeness | observe, evaluate, select, hydrate | find, waits, snapshot |
| Ref resolution | `macos/tree/resolve*.rs`, `retained*.rs` | retained elements, saved path and identity | verify, follow the path, search | ref action |
| Activation and input | `macos/actions`, `macos/input` | steps tried, units delivered, buttons held | chains, desired states, select, scroll, gestures | application |
| Clipboard, notifications | `macos/input/clipboard*.rs`, `macos/notifications` | pasteboard version, Notification Center | read, replace, clear; list, dismiss, act | other applications, user |
| Applications and windows | `macos/system`, `core/commands/{launch,close_app,focus_window}.rs` | inventories, launch completion | launch, close, list, focus, move, resize | window server, Launch Services |
| Helper programs | `macos/system/{process,screenshot,permissions}.rs` | process group, temporary directory | run, stop, kill, reap | screencapture, permission prompts |
| FFI adapter | `crates/ffi` | tables of adapters, handles and strings, last error | create, call, free | core commands |
| Linux, Windows adapters | `crates/linux`, `crates/windows` | none (stubs) | report unsupported | - |
| Packaging, scripts, inspector | `npm`, `scripts`, `tools` | none | install, bench, inspect | - |

### What makes each part correct

* **Snapshot store.** The pointer to the latest snapshot can always be followed.
  A ref once handed out never denotes another element.  Two parallel
  drill-downs lose nothing of each other's.  Eviction takes the oldest.  A
  writer that dies costs bounded space and never blocks the next one.
* **Interaction lease.** One thread of one process of a user acts at a time; a
  lease can be handed to a child without a gap; a dead holder frees it.
* **Ref action.** An action is dispatched at most once, only under the lease,
  only after the element was resolved again under the lease; an error that says
  "retrying is safe" means that the application saw no input.
* **Session lifecycle.** A session somebody uses is never collected; an ended
  session stays ended; nothing readable is lost when a session ends.
* **Artifact budget.** The files never exceed the budget; a crash leaks at most
  the reservation it had made.
* **Observation** (locator, readings, inventories, waits, trace).  Nothing is
  claimed that was not seen: a list that was cut off rules nothing out, an
  attribute that could not be read is unknown, an event is one that happened.
* **Resolution.** A saved ref is never resolved to a lookalike, and an element
  that did not change is never called stale.
* **Activation, input, scrolling, windows.** An effect is not asked for twice
  when it may already have come; an error says whether something was changed;
  no button, key, menu or center stays as the command put it.
* **Processes** (host, overlay, helpers, FFI calls).  A command runs at most
  once and its client is told what is known of it; what is started ends.

### How the parts interact

Commands are processes.  They meet in five places:

* the **state directory**: a save, a drill-down and an inventory of the snapshot
  store serialise on the flock `refstore.lock` of the namespace; `session gc`
  takes the same lock, and so does a command for the moment in which it
  acquires its liveness lease;
* the **interaction lease**: a flag in the process, then a flock per user; a
  command holds it from the second resolution of its target to the end of the
  post-action wait, and hands it to helpers it starts;
* the **application**, which changes in answer to what commands do and by
  itself;
* **helpers** they start or find: the command host, the overlay, screencapture,
  the clipboard helper, which end, hang and die on their own;
* the **agent**, which reads the disposition and the retry advice of an error
  and repeats the command or does not.

What is hard, then: a writer that dies between two file operations; state that
was read before a lock was taken; a lock file that is removed with what it
protects; descriptors that outlive the process that opened them; an element
that is verified at one moment and clicked at another; a failure after the
input was made; time-outs that race with all of these.  PROJECT.json lists the
hazards line by line, with the properties that cover them.

## 2. Modules

| Module | What it is |
|---|---|
| `RefMap` | the map of one snapshot: allocation of refs, removal below a root, the size limit |
| `SnapshotNamespace` | what the store promises: atomic operations on a namespace of maps |
| `RefStore` | the store as file operations under a flock, with crashes and I/O errors |
| `SnapshotTree` | observation of a window, allocation of refs, what is shown, drill-downs, hydration |
| `InteractionLease` | the flag, the flock, and the descriptors that carry it between processes |
| `DeliveryContract` | what a ref action promises the agent that calls it |
| `RefAction` | one ref action from the first poll to the verdict, several clients |
| `Actionability` | the gates and the sampler in detail, from the evidence read to the verdict after the action |
| `PointerAction` | hover, drag and click at points that are computed from two elements |
| `SessionLifecycle` | one session from start to collection |
| `SessionRecording` | saves, drill-downs, copies into the trace, and the end of the session that discards maps |
| `ArtifactQuota`, `ArtifactBudget` | a quota, and the ledger, reservation, write and roll back that implement it |
| `TraceMerge` | segments of several processes, torn lines, merge by clock and number, unpaired commands |
| `CommandHost` | a command forwarded to a host: start, lock files, socket, one frame, time-outs |
| `Batch` | prepared waits with their baselines, entries, stop flag, deadline, response |
| `Waits` | the polling loops and what they save and answer |
| `LiveLocator` | three-valued evaluation and selection over a tree seen in part |
| `NodeReading`, `EvidenceReading` | reading the children, and the attributes, of one element while it changes |
| `RendererAccess` | waking a sleeping renderer under the lease, and the time that takes |
| `Inventories` | lists of windows and applications joined from sources read one after another |
| `RefResolution` | a saved ref to a live element: retained object, path, search |
| `ActivationChain`, `DesiredState`, `SelectValue`, `ScrollAction` | what an element is asked to do, in steps that may answer late, wrongly or not |
| `PhysicalInput` | gestures event by event, with the guards that release what was pressed |
| `Clipboard`, `NotificationCenter` | one command each, beside other applications and the user |
| `AppLifecycle`, `WindowOps` | launching, closing, focusing, moving, while processes are replaced |
| `Subprocess` | programs that are run: groups, deadlines, kill, reap; screenshots and permission prompts |
| `CursorOverlay` | the overlay helper, its socket, commands that control it, the end of the session |
| `FfiBoundary` | handles, strings, errors and panics at the C interface, with several threads |
| `MCCommands` | the 25 components that a command runs, composed for one run |
| `CommandState` | the constants and variables of the 17 components of `commands` whose invariants are proved |
| `CommandProofs`, `ActionProofs` | instances of those 17 components, with the lemmas about them; `MCCommands` extends both and adds the other 8 |
| `MCRefStore` | the trees the configurations of the store use; no definitions of the system |
| `*Proofs` (other) | theorems about the module they extend |

`RefStore` implements `SnapshotNamespace`, `RefAction` implements
`DeliveryContract` and `SessionRecording`, which extends `ArtifactBudget`,
implements `ArtifactQuota`, each as a property of a run and as a
theorem.  `RefAction` has the lease as one variable: that acquiring and
dropping it is atomic to others is what `InteractionLease!LeaseIsExclusive`
says; it takes a check of an element as one step and what the adapter does as
another, which `Actionability` and `ActivationChain`, `DesiredState`,
`SelectValue`, `ScrollAction` and `PhysicalInput` take apart.
`SessionLifecycle` has of the store only whether it holds anything.

Names ending in a verb phrase that a comment calls "a plausible mistake"
(`StageDrillUnchecked`, `FailKeepsLease`, ...) are not used by any
specification.  Each is a definition with a realistic bug; put in place of the
correct one it violates a property, and PROJECT.json says which ("mutants").

### RefMap and RefStore

| Variable | In the code |
|---|---|
| `snap[d]` | the `refmap.json` that can be read in directory `d`; `NoMap` when there is none |
| `mtime[d]`, `clock` | modification time of the directory; 0 when there is no directory |
| `orphans` | directories with the `*.tmp` file of an interrupted `write_atomic` |
| `latest` | content of `latest_snapshot_id` |
| `lock`, `pc`, `call`, `draft`, `victims` | owner of the flock; place, arguments, map to be written and directories to evict of each process |

A save is `BeginSave`, `Acquire`, `StageSave` (directory and temporary file),
`Publish` (rename), `SetLatest`, `Prune` (sweep of temporary files, list, sort),
`Evict` once per directory, `Release`.  A removal that fails or is interrupted
half-way (`Dismantle`) leaves a directory that is newly modified.  A drill-down
reads the map, compares the entry it started from, allocates and publishes, all
under the lock (`update_existing_snapshot`).  `Inventory` is
`retained_object_tokens`.  `FailPublish`, `FailSetLatest` and `FailEvict` are
the `?` of each file operation; `FailPublish` includes the case that the rename
has happened and the sync after it fails.  `Crash` may follow every step.

Data are abstracted to what the properties tell apart: an entry is a ref, a
node of the tree and the root it was drilled from.  The trees are given by
pre-order numbers and the last node of each subtree.

### InteractionLease

`pc[t]` is the place of a thread in `acquire_unix_interaction_lease` or in the
drop of the guard; `held[p]` is `PROCESS_LEASE_HELD`; `owner` is the open file
description that has the flock; `desc`, `given`, `sealed` and `dups` are the
descriptors of it: the one of a `FileLock`, those a process was started with,
those of them made close-on-exec by `adopt_inherited`, and the inheritable
duplicates.  `Spawn` passes on every inheritable descriptor whether the
environment names it or not, as `exec` does; `Exit` closes all.

### RefAction

The steps follow `execute_with_deadline`: `Poll` and `PollCheck` without the
lease, `Acquire`, `Focus` if headed, `Resolve`, `Check`, `Settle` and `Recheck`
(sampling until the position is stable), `Scroll`, a second `Resolve` and
`Check`, `TraceStart`, `Execute`, `Readback`, `Confirm`, `AfterWait`.  Every
early return is `Fail` with the disposition that the code puts on it:
`MarkPreDispatch`, `AfterScroll` or none (`UnmarkedFails`).  `AdapterFails` lets
any call into the adapter fail with any disposition.

`shown` and `cond` are the application: the element behind the ref and whether
it is ready, moving, covered or off screen.  `AppChanges` may change both at
any time.  `drifted[c]` records whether that happened, without any client
acting, after the last check of client `c` passed; no program can exclude it,
and `InputHitsTarget` excuses exactly it.  A client that changes the
application does not set `drifted`: another client's click between check and
input would violate the property, and the lease is what prevents it.

One assumption is made about the adapter, which is not modelled: an error of
`execute_action` that says "not delivered" comes from a call that made no
input.  Core has no way to find out.

### SessionLifecycle

`manifest`, `tree`, `rest`, `recent` and `young` are the directory of the
session: `session.json`, whether it exists, whether there is anything else in
it, and the two tests of `has_recent_activity`.  `lockFile` is the file that
`refstore.lock` is at present, `file[p]` the one process `p` has open;
`locking` has the processes that hold the flock of what they opened.  `leases`
has the processes with a liveness lease; its files are not modelled, because a
file whose owner is dead is not locked, which is all that `any_held` looks at.

A command is `Begin`, `Enter`, `OpenLock`, `Lock`, `Join`, what it does
(`Use`, `ReadSettings` and `WriteSettings`, `ReadEnd` and `Seal`), and `Leave`.
A collection is `BeginGc`, `List`, `Probe`, `OpenLock`, `Lock`, `Vet`, and the
entries of the directory in any order.  `session start --cursor` changes the
settings of the new session without a lease; its id is unknown to others until
it is printed, so no command runs beside it, but `gc` may.  `split` records
that `refstore.lock` was unlinked while `session.json` was still there.

### Recording: SessionRecording and ArtifactBudget

`ledger` is `.artifact-usage.json`; `stored` and `litter` are what the artifacts
and the temporary files of interrupted writes add up to; `at[p]`, `want[p]` and
`usage[p]` are a writer's place, artifact and reservation under
`.artifact-budget.lock`.  A ledger that cannot be read is rebuilt by `Scan`.
`SessionRecording` adds the maps of the store as versions (`snap`), the pointer,
and the end of the session: `Seal`, `List`, `Discard` map by map, `TestPointer`
and `Unpoint`, all without the lock of the store, as in the code.
`ImplementsQuota`: whoever dies or fails wherever, artifacts are stored whole
and within the quota.  `RoomLostToFaultsOnly`: a fault costs the room of one
artifact at most.  `UncopiedIsKept`: a refused or failed copy never costs
the map.  `DiscardsOnlyDuplicates`, which looks at what the copy contains, is
violated: see section 4.  `EndLeavesNoDanglingPointer` says that no pointer
dangles, not that every pointer survives.
A failing removal leaves the map; eviction drops at most one other map; an error
reading the ledger leads to the rebuilding of it; `LockBudgetFails` may happen
at any time.

### The command components and MCCommands

A command is one process that runs one component.  `command` says which; it is
chosen in `Init`, and the variables of the others are `Off`.  In
the model they share no state: each talks to an application, a helper or a file,
and what other commands do to it is part of its world.  So one run explores the
sum, not the product, of them.
Where commands do meet, they have a run of their own (store, lease, ref action,
session, recording), or the component itself has several (`CommandHost`,
`CursorOverlay`, `FfiBoundary`, `TraceMerge`).

In each, the actions are the calls of the code, in order, with each early
return; the world (application, user, other processes, the clock, the window
server) has actions of its own that come between any two of them.

| Module | State and actions | What is checked |
|---|---|---|
| `CommandHost` | `endpoint`, `private`, `owner`, `starter` are the socket file, its mode, `owner.lock`, `start.lock`; `cpc`, `hpc` the places of clients and hosts, which start, connect, send one frame, hang, expire and die | `VerdictIsHonest`: "not delivered" means that it has not run and will not; nothing runs twice. `OneHostListens`. `CommandsEnd` |
| `Batch` | `pending_baseline` and `seed` are the baselines; `Capture` before an entry that precedes a wait, `Dispatch`, `Run`, `Poll`; events are a window opened, closed or focused, an application launched | `EventIsReal`, `EffectIsNotMissed`, `ResponseAccounts` |
| `Clipboard` | caller, helper and pasteboard with its change count; a helper is killed at its deadline at any step; reads are tried again when the count moved | `ClipboardIsHonest` |
| `Waits` | one loop per `mode`: poll, build the tree, sleep, expire, save, read, judge | `WaitAnswersTruly`, `CommandsEnd` |
| `LiveLocator` | tree and tests are real, an `Attempt` sees part of them; evaluation and selection follow `evaluate.rs`; a query has a depth, and the walk reads the length of the lists there, not the children (`Reach`) | `SelectionIsTrue`: any answer given is that of the whole tree down to the depth asked for |
| `NodeReading` | count, pages, count again; source attributes in order; name from children | `NodesAreReadTruly` |
| `EvidenceReading` | the batch call and each further call, with what was read of each attribute | `EvidenceIsTrue`: what is reported as known is one state that the element had, read-only fields are seen as such, the value of a secure field is not read |
| `SnapshotTree` | observation, allocation, `Merge` of a drill-down, hydration of a match | `SnapshotIsTrue`: a saved path leads to the node, what was cut off hangs below a ref, refs are shown, a drill-down replaces its subtree, a hydrated match is the selected one |
| `RendererAccess` | clock, deadline of the observation, lease, the attribute and the tree of the renderer | `RendererIsSeen`: lease time is not charged, a sleeping tree is not reported as the tree, the attribute is written once at most |
| `Inventories` | the sources in the order they are read, over a desktop that changes | `InventoryIsTrue` |
| `TraceMerge` | segments with torn lines, a clock that can be set back, the merge and `detect_unpaired_commands` | `TraceIsComplete`, `TraceIsInOrder`, `WarningsAreTrue` |
| `RefResolution` | `phase` is the stage of `resolve.rs`; elements have looks, paths and bounds; a look may miss one of them | `ResolvesBeyondDoubt`, `UnchangedIsNotStale` |
| `Actionability` | evidence, gates, samples, hit points, pre-read, execution, readback | `ActionabilityIsHonest`: at dispatch each gate was true at some moment since the last check began, an action is given up early only for what cannot pass, the verdict is what came of it |
| `PointerAction` | position and size are separate reads of each end; scroll, hit test, travel of the cursor, dispatch, settle | `PointerIsHonest` |
| `ActivationChain` | the steps of the chain that is executed (`at`), candidates (`tries`), the answer and what it did (`effects`); what is read may be so already, or be changed by others (`Meddle`) | `ActsAgainOnlyUnseen`, `ReportIsTrue`; `OneEffect` in a run of its own |
| `DesiredState` | read, write, reread, flip, with what is under way in `late` | `StateIsAsReported` |
| `SelectValue` | written value, our and the user's menus, nodes of a collection | `SelectionIsHonest` |
| `ScrollAction` | the ways in order, units carried out, what the content will still do (`landing`) | `ScrollIsHonest` |
| `PhysicalInput` | events one by one, the guard (`armed`), the tracker | `InputEndsClean` |
| `NotificationCenter` | the session (`session` is what is to be undone), notes, strategies | `DismissalsAreReal`, `TouchesOnlyTheMeant`, `CenterLeftAsFound` |
| `AppLifecycle` | instances with process numbers that are given again, the callback of Launch Services | `LaunchIsHonest`, `CloseIsHonest` |
| `WindowOps` | windows of one process with numbers or only titles, the front process, deliveries and confirmations | `WindowsAreHonest` |
| `Subprocess` | the program, its group and streams, two deadlines, the temporary directory, prompts | `SubprocessIsContained` |
| `CursorOverlay` | helpers with their place in life, the socket file, the start lock, controls | `OneOverlay`, `AcknowledgedEndsAreReal`, `CommandsEnd` |
| `FfiBoundary` | the three tables, owners of an adapter, errors per thread, what each thread is in | `BoundaryIsSound` |

## 3. Runs

| Run | What it shows | Bounds |
|---|---|---|
| `refstore_drill` | a ref never changes its meaning, no drill-down undoes another, maps do not grow without bound, file operations implement atomic ones | 2 processes, a tree of 3 nodes (a branch, its child, a sibling), 1 snapshot, 8 refs, 8 ticks, 1 fault |
| `refstore_full` | pointer always readable; eviction takes the oldest and leaves enough; inventory cannot fail after undisturbed writers; leftovers bounded; every call ends; the lock is freed | 2 processes, 1 node, 4 snapshots with a cap of 2, 8 ticks, 1 fault |
| `lease_handover` | exclusive leases, no leaked flag or descriptor, no gap in a handover, every attempt ends | a parent with 2 threads, a child with 1, 4 descriptions |
| `action` | each step that touches the application holds the lease, the input meets its target, verdicts are true and a trusted retry never repeats an input, every call ends | 2 elements and 2 calls per client; one client with each of 5 kinds of request, or two with a headed click, which goes through every step |
| `action_scroll` | **violation** of `NoRetryAfterScroll` | 1 client, 1 call |
| `session_gc` | no session in use is removed, none comes back, an abandoned one is collected | 2 processes, 2 lock files, 1 death or I/O error |
| `session_reap` | **violation** of `NeverReapsLive` | as above, no faults |
| `session_sealed` | **violation** of `EndedStaysEnded` | as above, no faults |
| `recording` | artifacts keep to the quota, faults cost bounded room, no map without a copy is discarded at the end of a session, the pointer does not dangle | 2 processes, 2 maps of 2 versions, artifacts of 2 sizes, room for 1 screenshot and 2 units of maps, 1 fault |
| `recording_discard` | **violation** of `DiscardsOnlyDuplicates` | 1 process, 1 map of 2 versions, no faults |
| `activation` | **violation** of `OneEffect` | 2 candidates or increments per step |
| `commands` | what each command reports is true of the desktop, whatever changes meanwhile, but for the cases that the properties name; forwarded commands, waits and overlays end | see below |

The runs of the lease, the ref action, the session, the recording and the
activation take the module itself; those of the store and `commands` take
`MCRefStore` and `MCCommands`.

**Bounds of the older runs, and why they are enough.**  Two writers are the
fewest that interleave, and the flock leaves no third one a part to play but
waiting.  The tree of three nodes has what `remove_by_root_ref` distinguishes: a
drilled node, one below it and one beside it; eight refs allow two drill-downs
of the branch after the snapshot, and a third that is refused.  One snapshot
over the cap starts an eviction; a fourth is evicted after a drill-down has
changed the order.  One fault is enough for the first leftover, and
`LeftoversBounded` counts them.  Two threads of one process compete for the flag
while the child competes for the flock.  In `action` the second element is the
one that takes the place of the first behind a ref, before, between and after
the checks of either client, and the second call is the repetition that a
verdict allowed.  Two processes are a command and a collector, or an end and a
change of settings; a second lock file is the one a command creates after the
first was unlinked.  In `recording` a writer of artifacts or a saver meets the
end of the session; the second map is the one that `latest` must not lose, and
the second version the one that a copy may miss.

**Bounds of `commands`** (`MCCommands.cfg`; about 1,065,000 states):

* `CommandHost`: two clients and two hosts, so that each may start one, lose the
  race, and be served by the other's; `CursorOverlay`: two helpers, one killed
  command.
* World: 3 changes of the desktop in a batch (an effect, a change beside it and
  one that undoes it), 2 of the window between observations of a drag or a
  screen, 2 of an element under actionability, 1 of an element while its
  attributes are read, 1 child that comes or goes while children are read, 2
  steps of the user on windows, 1 menu of the user.  One change puts a stale read
  between any two calls; where a second one can restore what the first broke,
  and so deceive a comparison, there are two.
* `LiveLocator`: queries of depth 1 and 2, so that a node, its child list and its
  children can each lie at the depth where the walk stops.
* Data: 4 nodes make the shapes of trees that differ (chain, branch, both); 3
  instances of an application are the old one, ours and another's with a used
  process number; 3 notes are a twin pair and one other; 3 versions of the
  pasteboard are the one before, ours and another's; 2 events and 2 writers make
  every merge order of a trace; 3 units let a gesture fail at its first, a middle
  and its last one; 2 scroll attempts and 3 units do so for a scroll.
* Time is counted only where the arithmetic is the point (`RendererAccess`:
  observation of 4, lease of 3, inherited deadlines of 3, 6 and none); elsewhere
  a deadline is a flag that may be set between any two steps.

Deadlock is not an error where the system may stop: `RefStore` when the clock
has reached its bound, `RefAction` when every call is done, `SessionLifecycle`
after a start died between the directory and the manifest, which leaves
something nobody can name, a command of `MCCommands` when it has answered.
`InteractionLease` never stops, and is checked for deadlock.

### Fairness

Liveness assumes only that a process that runs goes on: `WF(Work(p))` in
`RefStore`, `WF(Work(t))` in `InteractionLease`, `WF(Step(c))` and the passing
of the deadline, `WF(Expire(c))`, in `RefAction`, `WF` of the steps of a
command or a collection in `SessionLifecycle`.  Those steps include the
time-outs: a call ends although the lock it wants is never free.  Nothing is
assumed of crashes, errors, retries, the application, or of calls being made.
`SessionLifecycle` adds `SF` of a collector obtaining a free lock.  The code
gives each collection two seconds for it; without the assumption a collector
that is suspended for those two seconds, every time, collects nothing.

`MCCommands` assumes the steps and the clock of a client of the host
(`WF(ClientStep(c))`, `WF(Expire(c))`), not those of a host, which may hang for
ever; the step of a wait and the passing of its deadline; and the steps of
overlay helpers and of the commands that control them, which are loops of the
code with time-outs.  `CommandsEnd` says for these three that what began comes
back.  In each conjunct the subscript names the variables of the component
only, as its actions change no other.

## 4. Findings

* `action_scroll`: a failure between a preparatory scroll and the input (the
  strict trace, or an execution that delivered nothing) keeps "not delivered,
  retry safe", although the view has moved.
* `session_reap`: `gc` holds `refstore.lock` while it removes the directory
  that has `refstore.lock` in it.  Once that entry is gone a new command
  creates another lock file, still finds the manifest, and has a lease of a
  session that is being removed.  What holds up to that moment is `InUseIsKept`.
* `session_sealed`: a change of the cursor settings reads, tests and rewrites
  the manifest without a lock; `session end` in between is undone.
* `recording_discard`: the end of a session discards a map when the trace has a
  file of its number.  That file is written once; the drill-downs since are in the
  map only.  `refs_store_prune.rs` (38) says "Drops only the refmaps the trace
  already holds a copy of".
* `activation`: a chain goes on to its next step because it saw no effect of the
  last one, and the effect comes later, or was there and a failed probe missed it.
  The run shows a right click by the mouse and then a menu asked for once more,
  against `chain_defs.rs` (53-56), "continuing cannot raise a second one".  The
  same happens to a click whose press turns the selection on after it was read
  (`press_selection.rs` 51-77), which `chain_delivery.rs` (30) calls a press that
  "provably changed nothing".  What does hold is `ActsAgainOnlyUnseen`: an action
  is asked for twice in these two cases only, and where a value is raised step by
  step.

### Observed while modelling

The following was met while the source was translated.  Where a model contains
it, the property concerned states the exception in its comment or leaves the
case open; none has a run of its own.

* *Store and recording.*  `refs_store_prune.rs` (15-16) says that a snapshot
  directory is never rewritten; drill-downs rewrite it.  The comment at 38-45 of
  the same file says that the pointer stays unless its snapshot is gone; one that a
  save sets between the test (66) and the removal (68) does not.  The sweep of
  temporary files (96) runs before modification times are read (103), so the empty
  directory of a save that crashed becomes the newest and may outlive a readable
  snapshot; `EvictsOldest` speaks of times, not of the order of saves, which no
  document promises.
* *Snapshot tree.*  Refs of a snapshot save a node's place among the children
  that were read, not its native index, so after a partial read the path leads
  elsewhere (refs of `find` use native paths).  A drill-down prefixes the saved
  path even when the element was found elsewhere.
* *Locator.*  At the logical depth asked for (50 unless given), `traversal.rs`
  (136-145) takes the subtree as complete when its child list was, although the
  children are unread; the guard of the raw depth (184-189) does not.
  `SelectionIsTrue` therefore speaks of the tree down to that depth: "not found"
  and "the only one" are not claimed below it, and nothing in the answer says so.
* *Readings.*  `child_read.rs` (236-262) calls a short list complete without
  counting again; two changes that cancel out within a counted read go
  unnoticed.  A role that cannot be read makes `name_field` skip a static text's
  value as if it were absent.  `kAXErrorFailure` means absence to
  `action_list` and uncertainty to the settable probe, against the "One
  definition" of `ax_absence.rs` (8).  A label element that goes away makes its
  whole, existing element stale.
* *Resolution.*  Without a retained object a lookalike that moved into the saved
  path is taken for the element; "complete absence" is also said of a single
  candidate that failed only the bounds.
* *Activation chains.*  A physical right click whose menu opened is followed by
  further steps, whose probe sees a menu open, and the chain ends as "exhausted";
  so does an `AXShowMenu` whose menu needs more than 600 ms.
  `select_then_show_menu` may report "not delivered" after it set the selection,
  and so may a deadline right after `AXShowMenu` was accepted.  The application or
  the user may change the focus, the selection or the menus that `changed_now`
  compares, and a press is then reported as verified; so is one on a row that was
  selected already, and a value that was there before it was written.
  `ReportIsTrue` names these cases.
* *Desired state, select, scroll.*  A verified check can be undone by a late
  press after a late write.  Without an exposed value, "verified" means only that
  the menu closed, and whatever menu is shown is searched.  An uncertain answer
  of a scroll at the deadline becomes a "not delivered" time-out (`scroll.rs` 111,
  297-306), and an `AXScrollToVisible` without effect within 800 ms counts as not
  delivered, although the content may have moved or still move
  (`skills/agent-desktop/SKILL.md` 117 lets an agent repeat it).
  `NotDeliveredIsTrue` excepts these two (`lost`).
* *Pointer.*  Between the last hit test and the dispatch the cursor travels; the
  element may have moved by then.  Scrolling the second end of a drag into view
  may move or hide the first.  Under the lease an auto-waiting command does not
  scroll and repeats until its time is over.
* *Windows.*  `window_resolve.rs` (200-262) falls back to the title even when the
  number of every window is known and differs, so the operation is carried out
  on another window of the same title (`OthersOnlyByTitle` names the case).
  `README.md` (334) says "bring exact window to front".
  Before headed input the window is found to be the main one, and then its process
  to be in front; the user can see to it that the two are never so together.
* *Notifications.*  A center that the user closes during a dismissal shortens the
  list, which counts as success; `is_nc_open` takes an error for "closed"; a
  center that opens after the time-out stays open; `dismiss_all` that runs out of
  time loses the list of what it dismissed (`actions.rs` 87).  An Escape that does
  not close the center is not noticed (`nc_session.rs` 304-321); `hindered` in
  `NotificationCenter` excepts it.  Notifications are told apart by application and
  title.
* *Clipboard.*  `clear_if_owned` tests the owner and then clears; content that
  another application puts in between is lost.
* *Applications.*  Between `reject_if_already_running` and the listing of the
  launch itself another instance may appear; errors of revalidation carry no
  disposition.
* *Helpers.*  Killing a group with nothing but a zombie is reported as a failed
  cleanup; a successful run does not end programs of its group that closed their
  streams; a killed command leaves its temporary directory.
* *Host and overlay.*  Both bind the socket before its mode is set.  In between,
  the starter's own poll fails; one that dies in between leaves a file that makes
  later clients fail until it is removed.  `phase.rs` (9) calls the overlay's
  effect "fire-and-forget", `control.rs` (166-174) waits for its acknowledgement.
  A starter that is killed can lead to two helpers (`OneOverlay` excludes it).
* *Trace.*  `detect_unpaired_commands` keys by segment, process and command, so
  two threads that run one command are warned of, and a start that is followed by
  another start of the same command is not.  A torn header is never rewritten.
* *FFI.*  A failure of `complete_scope` reports an error and no envelope although
  the command ran.  Addresses are reused, so a second free may be of another
  string.
* *Renderer.*  A time-out of the activation is reported as the observation's own.
  No caller observes while it holds the lease, so the guard that is not reentrant
  (`renderer_accessibility.rs` 60) is not asked for twice.
* *Batch.*  All waits of a batch look for one kind of event; a focus gained and
  lost between two looks is missed.

## 5. Proofs

The runs show the properties on the instances above; the theorems hold for any
number of processes, threads, descriptions, clients, hosts, snapshots, refs,
windows, entries of a batch, versions of the pasteboard, changes of an
application, notifications, ways to dismiss them, units of a gesture or a
scroll, attempts, instances of applications, overlay helpers, adapters, calls
and faults, and any number of steps of the user.  What a module fixes, the
theorems about it do not vary: `RefResolution` has four elements and their
windows, `NotificationCenter` two kinds, `PointerAction` the two ends of a drag,
`CursorOverlay` three commands, `FfiBoundary` two threads, `WindowOps` three
windows.

**Assumptions.**  They say what the constants are, never what the system does.

* `TreeAssumption`: nodes are a finite set of numbers, each with a last node
  below it.  `BoundsAssumption`: the cap and the low-water mark are positive and
  ordered (`refs_store.rs` has 128 and 96), the bounds are numbers.
* `ProcsAssumption`, `LeaseAssumption`, `RefActionAssumption`, `PeerAssumption`,
  `BaselineAssumption`, and the first lines of `BudgetAssumption`: the values
  that stand for "none", an `Option` in the code, are none of the others; each
  thread has a process, requests are records of the five flags and the kind of
  pointer.  `SessionAssumption`: the bounds are numbers.
* `BudgetAssumption`, `RecordingAssumption`: artifacts have a positive size and
  maps a positive version, the first version is one of them, and maps are
  numbered from 1 without a gap.
* `EntriesAssumption`, `VersionsAssumption`, `NotesAssumption`: a batch may have
  an entry, the pasteboard has a version, and there is a way to dismiss a
  notification.  `NoneAssumption`: "no failure" is none of two failures.
* `UnitsAssumption`, `AmountAssumption`: a gesture has a unit, and a scroll is
  asked for an amount.  `UserStepsAssumption`, `UserMenusAssumption`,
  `CallsAssumption`: the bounds are numbers, 0 included.

| Module | Theorem | Property |
|---|---|---|
| `RefStoreProofs` | `AllocationIsFresh`, `RemovalStaysInSubtree` | lemmas about the map, of use to any store |
| | `TypeCorrect` | `TypeOK` |
| | `LatestAlwaysReadable` | `LatestReadable` |
| | `OperationsAreAtomic` | `ImplementsNamespace` |
| | `RefsAreNeverRedefined`, `DrillsReplaceSubtrees` | `NeverRedefined`, `DrillReplacesSubtree` |
| | `AliasesStayBounded`, `LeftoversStayBounded` | `AliasesBounded`, `LeftoversBounded` |
| | `InventoryIsComplete`, `OldestAreEvicted` | `InventoryComplete`, `EvictsOldest` |
| `InteractionLeaseProofs` | `LeaseTypeCorrect`, `FlagsHaveOwners` | `TypeOK`, `FlagHasOwner` |
| | `LeasesExcludeEachOther` | `LeaseIsExclusive` |
| | `HandoversHaveNoGap` | `HandoverHasNoGap` |
| | `AdoptedLeasesAreSealed` | `AdoptedIsSealed` |
| `RefActionProofs` | `RefActionTypeCorrect`, `LeaseCoversEveryAction` | `TypeOK`, `LeaseCoversAction` |
| | `InputsHitTheirTarget` | `InputHitsTarget` |
| | `KeepsItsContract` | `KeepsContract` |
| `SessionLifecycleProofs` | `SessionTypeCorrect` | `TypeOK` |
| | `SessionsInUseAreKept` | `InUseIsKept` |
| | `RemovedSessionsStayRemoved` | `RemovedStaysRemoved` |
| `SessionRecordingProofs` | `RecordingTypes` | `TypeOK` |
| | `UncopiedMapsAreKept` | `UncopiedIsKept` |
| | `EndKeepsPointers` | `EndLeavesNoDanglingPointer` |
| | `RoomIsAccountedFor` | `RoomLostToFaultsOnly` |
| | `BudgetImplementsQuota` | `ImplementsQuota` |
| `MCCommandsProofs` | `ForwardedCommandsAreHonest` | `ForwardingIsHonest` |
| | `BatchesAreHonest` | `BatchIsHonest` |
| | `ClipboardCommandsAreHonest` | `ClipboardIsHonest` |
| | `SavedReferencesResolveStrictly` | `RefsResolveStrictly` |
| | `NotificationCommandsAreHonest` | `NotificationsAreHonest` |
| | `ElementActionsAreHonest` | `ActionsAreHonest` (seven components) |
| | `ProgramsStayHonest` | `ProgramsAreHonest` (five components) |

`TypeOK` of the lease and of the recording is proved and has no run.

Each rests on an inductive invariant, a conjunction of named parts; the proofs
have one lemma per action that says that it keeps the invariant.

* `RefStore!Inv`.  `LatestReadable` alone is not inductive: a step that renames,
  points or evicts relies on what the process read before.  Added are that the
  lock has one owner (`LockOwner`), that an id not yet given out has no map,
  that what the owner staged was computed from the map that is still there
  (`StagedFromCurrent`), and that no victim is the latest snapshot
  (`VictimsSpareLatest`).  With `StagedFromCurrent` each rename is one abstract
  `Store` or `DrillDown`; every other step leaves the abstract state alone or
  is a `Point` or a `Drop`.
* `RefStore!MapsInv`, on top of it: refs are numbered up to the counter of their
  map, entries of a drill-down lie below the one they were drilled from, a node
  has at most three (`WellNumbered`, `FewAliases`), and an observation stays in
  the subtree it was made of.  Allocation then numbers above everything
  (`AllocationIsFresh`), so a ref is kept or dropped and never means something
  else, and a drill-down removes what an earlier one of the same root put there
  (`RemovalStaysInSubtree`), so aliases do not pile up.
* `RefStore!RoomInv`, on top of it, counts directories.  The one above the cap is
  that of a save under way, which holds the lock, or each is paid for by a
  fault; the victims of an eviction are the oldest by the clock as it was, and
  what is written since is newer.  Without a fault every directory is readable
  or being written, which is what the inventory needs.
* `InteractionLease!Inv`.  Exclusion follows from `Family`: descriptors outside
  of a lease are of the locked description only, and of the processes that have
  a description all but one inherited it.  `FlagHasOwner` gives one thread per
  process.
* `RefAction!Inv`.  `InputHitsTarget` needs `LeaseCoversAction`: any other
  client that could change the application would hold the lease too.  The
  refinement needs that a client before its input has made none
  (`NoInputYet`) and that the result it carries after it is true
  (`ResultIsTrue`).
* `SessionLifecycle!Inv`.  While there is a manifest and `refstore.lock` was not
  unlinked before it, every process that has the lock file open has the same
  one (`WholeInv`); with `MutexInv`, whoever joins and whoever removes exclude
  each other.  That nobody writes a manifest back needs that a writer has a
  lease or is the start itself, beside which no command runs (`StartInv`).
* `SessionRecording!RecordingInv`.  Nobody but its writer knows a map before
  the pointer names it (`PointerFollowsMap`), so no end of the session can find
  a copy of it and discard it; a pointer whose map is gone is still to be looked
  at by an end, unless that end died (`DanglingIsSeen`).  Part of it is
  `ArtifactBudget!BudgetInv`: one writer, which knows the ledger it read
  (`WriterKnows`); whatever dies or fails leaves one artifact each in the ledger
  or in a temporary file (`AtMostOver`, `LedgerAccounts`).  The refinement maps
  each step of the ledger and the files to a step of the quota or a stutter.
* `CommandHost!HostInv`.  A client that has not sent its whole request has
  nothing that can run; a connection is in one backlog or with one host, and
  only until it ran (`ServedOnce`), which makes a second run impossible; answers
  on the wire and verdicts are read off that (`AnsweredTruly`).  The host that
  listens has the lock (`LockIsKept`).
* `Batch!BatchInv`.  A baseline is followed from its capture before the
  command to the wait that gets it (`BaselineIsKept`): all it has not seen was
  dispatched later (`AllDispatched`), and the desktop only adds to that.
  `AccountIsKept` relates the entries that ran to those of the response in each
  step of the loop, with its stop flag, its deadline and a session that ends.
* `Clipboard!ClipboardInv`.  What the helper knows of the pasteboard in each
  step (`HelperIsKept`): a version it read may be older than that of the board,
  never newer, and one that it made has its content (`Backed`).
* `RefResolution!ResolveInv`.  A verdict is about the moment it is given, so the
  invariant says what makes it right then and what later steps leave of it: the
  number of the process that was verified is not another one's while its elements
  are looked at (section 6), and a retained handle is held.  The weight is on what
  a search may conclude (`ClassifyIsStrict`, `IdentityIsStrict`): one candidate,
  or one in its old place, and "stale" only after everything was seen.
* `NotificationCenter!NoticeInv`.  `CenterIsKept` follows the session: whether
  what it opened is still to be closed, and what it put behind still to be
  brought back, so that a success finds nothing left.  `CountIsKept` is what
  makes a dismissal real: of a kind there arrived at least as many as are
  reported plus those that were counted before the strategy (`AlikeIsApart`), so
  that when fewer are counted, one more is gone than was reported.  It needs
  that no notification is shown twice.

`ActionsAreHonest` and `ProgramsAreHonest` are the conjunctions of what twelve
components promise, with the exceptions that the code makes (a right click by
`AXShowMenu`, a scroll whose answer was lost or whose effect is late, a window
known by its title only); each is named in the property of its component.  Neither
says that an activation acts once: it need not, as `activation` shows.  Ten of
them report something when they end, and the report may come at almost any step,
so the invariant says at each step what a report from there could claim.

* `PointerAction!PointerInv`.  That the points are those of one moment is said in
  the code by a second look at each end, whose two reads may straddle a change.
  The invariant keeps the moments since the lease was taken (`moments`) and which
  ends were looked at, and says of each that a moment exists in which it was
  where it was seen, and of an end without doubt that it could be reached there
  (`LooksAreSound`).  It holds with any number of moves because positions only
  grow: a position seen twice was the position in between (`Between`).
* `Actionability!ActInv`.  What was read to be so has held at some moment since
  the last check began (`HeldCoversTheEvidence`), the gates that were passed
  stay passed until the action (`ChecksArePassed`), and before the readback
  nothing has happened that the answer denies (`EffectsAreAnswered`).
* `ScrollAction!ScrollInv`.  The content never moves, now or later, further than
  the units that were carried out (`ScrollIsCounted`); for an element that is to
  be shown, nothing around it moved until an attempt was counted, unless an
  answer was lost (`ViewIsUntouched`).
* `ActivationChain!ChainInv`.  Before a step nothing was done but what the steps
  before have recorded, and only a step that may be repeated adds to it
  (`EffectsAreCounted`).  With `DesiredState!DesireInv` (nothing was written:
  the control is as it was), `SelectValue!SelectInv` (a menu that is searched is
  the one that was opened, or one the user opened since) and
  `WindowOps!WindowInv` (where "not delivered" may be said nothing was done;
  what is reported as focused was seen so) this is the same thought for each way
  to act.
* `AppLifecycle!AppInv`.  At each stage of a launch, which instances were listed
  before it and which one is meant (`AppStages`); so the one that is reported is
  not an older one, and the one that is closed is the one that was looked up.
* `PhysicalInput!GestureInv`.  The button is down only where the guard that
  releases it is armed, and a gesture that has posted something tracks it.
* `Subprocess!RunInv`.  The leader of a group is not reaped while the group may
  be signalled, and what is left after the kill was killed (`GroupInv`); the
  image on disk shows what was asked for unless the screen changed since
  (`CaptureInv`); a prompt is shown only for what was asked (`PromptsInv`).
* `CursorOverlay!OverlayInv`.  As long as no starter was killed, a helper that
  runs is alone: it is at the socket, or it is being started under the lock by
  the one command that has it (`HelpersInv`).  That an acknowledged end of a
  drag is real needs that a drag is never behind its end in a backlog
  (`BacklogInv`), which the order of the two controls gives (`ControlInv`).
* `FfiBoundary!BoundaryInv` counts.  An adapter has as many owners as there are
  calls in it, and one more while it is in the table (`OwnersAreCounted`); a
  handle, as many as the table of its thread and the call that uses it
  (`SharersAreCounted`); a string that is not the host's belongs to one call
  that is under way (`StringsAreSomebodys`); the last error of a thread is that
  of its last failure (`ErrorsAreKept`).
* `MCCommandsProofs!CommandInv` and `ActionInv` lift these seventeen to the
  composition: one command is chosen, steps are those of its component, and a
  component that does not run keeps its variables.

TLC checked `CommandInv` on the instance of `commands`, `BatchInv` with a third
entry and a second window, `ResolveInv` with two changes of the application,
`NoticeInv` with four notifications, `OverlayInv` with a third helper and with a
second killed command, and each of the other invariants on the instance of
`commands`, before they were proved.

**What the proofs changed in the models.**  `WindowsAreHonest` said that headed
input goes on only after its window was the focused one at some moment.  With
one step of the user it held; with two it does not, because "is main" and "its
process is in front" are checked one after the other (section 4).  The property
now says what the code establishes, `sightings` tells the two apart, and the run
has two steps of the user.  `Actionability` decided some cases by `CASE` with
overlapping guards, of which TLC takes the first and TLA+ any; they are ordered
now.  `CursorOverlay` picked the slot of a new helper with `CHOOSE`, and stated
`OneOverlay` with `Cardinality`; both are said with quantifiers, which mean the
same for the finite sets of the runs.

**Only model-checked.**  The liveness properties (`EveryCallEnds`,
`LockIsFreed`, `AttemptEnds`, `CallEnds`, `AbandonedIsCollected`,
`CommandsEnd`): fairness and ENABLED are out of the prover's reach.  Of
`commands` also `TypeOK`, `ObservationsAreTrue` and `QueriesAreTrue`.  `TypeOK`
joins the types of all 25 components, 8 of which have no inductive invariant.
They are those of `ObservationsAreTrue` (waits, trace, inventories) and
`QueriesAreTrue` (locator, readings, evidence, renderer, snapshot tree), most of
which say that a walk over a tree or a merge of sequences gives what a reference
definition gives.  No module has a RECURSIVE operator; but what the recursive
functions over trees and sequences compute takes induction over data, which the
prover cannot do.

## 6. Not modelled

* What is data without control: sanitising, formatting, the HTML viewer, search
  text, command-line parsing, images, key names, bounds as numbers (versions and
  positions stand for them).
* Linux and Windows are stubs; packaging, scripts and the inspector have no
  state of the system.
* Store: the limit of 1 MiB on a serialised map (`RefMap!Fits` counts refs),
  migration of the legacy store and symlinked directories; reading the latest
  snapshot without the lock, which a rename makes atomic; nodes that were
  skipped as invalid below a boundary.
* Session: the contents of the settings, names, several sessions in one
  collection.
* Deadlines: the arithmetic (rounding up to a millisecond, `deadline.rs` 136)
  except for what `RendererAccess` does with it.
* Ref action: several elements per client; what moves between the check and the
  input is in `Actionability` and `PointerAction`, with the window itself still,
  capabilities constant, and every other action standing for one of its kind.
* Host: pruning of retained tokens (`command_host.rs` 50-61).  Overlay: one
  route; the lease descriptor it inherits (`spawn.rs` 113), which
  `InteractionLease` has for children in general; deaths of helpers that serve.
* Waits: for a menu or a surface, plain sleeping; a tree is built at one instant.
  Batch: surfaces and terminations as events.  Trace: one command at a time per
  process, a failed start write that does not stop the command (not strict).
* Locator and resolution: a process number that is given away during a
  resolution (it is verified once, at the start); the tree stands still during a
  query; the limit of raw depth; the anchor of a match
  (`resolve_locator_anchor_once`), which is followed like a path, with no search
  after it; more than one uncertain list or attribute per observation; other
  surfaces.
* Activation: the chains for focus and scroll-to, double and triple clicks;
  process identity during a select.  Physical input: a death of the command
  skips the guard, and the button stays down.
* Applications: launch dates compared exactly (the code allows 5 s), the
  DevTools listener being of the launched process (`cdp_endpoint.rs` 33-36 calls
  the gap inherent), the quota of outstanding launches.
* Inventories and windows: bounds, visibility, minimised windows, labels of
  accessibility, other users' processes, the work area of displays.
* Helpers: validation of images, the numbering of screencapture.  FFI:
  marshalling, and calls from the log callback while the lease is held.
* Renderer: a process number given again between `require_core` and the write.

## 7. Plan

Done, in this order: the snapshot store, the interaction lease, the ref action,
the session lifecycle; recording and artifact budget; the command components;
all safety and action properties of the store, the lease, the ref action, the
session and the recording as theorems, and the seventeen components of
`commands` that act.  Next:

1. Of `ObservationsAreTrue` and `QueriesAreTrue`, the components that walk no
   tree (`RendererAccess`, `EvidenceReading`, `Inventories`, `Waits`), with an
   inductive invariant each, and the types of the seventeen as theorems.
2. Models: deadline arithmetic, retained tokens of the host on the inventory of
   `RefStore`, waits for menus and surfaces, the overlay's inherited descriptor.

Runs are few on purpose: one instance per question, with the safety and the
liveness of a module in one run where its size allows; the theorems cover larger
instances.
