----------------------------- MODULE MCCommands -----------------------------
(***************************************************************************)
(* The commands, model-checked together: a process is asked for one        *)
(* `command` and runs the component of that command; the components share  *)
(* no state, so that one run explores each of them alone.  A variable is   *)
(* Off when the component it belongs to does not run; two components that  *)
(* use the same name for a variable never run together.  CommandState      *)
(* declares the constants and the variables of the components whose        *)
(* invariants are proved; CommandProofs and ActionProofs instantiate them. *)
(***************************************************************************)
EXTENDS CommandProofs, ActionProofs, TLC

CONSTANTS
  MaxMatches, MaxSnapshots,            \* Waits (and MaxNotes)
  MaxNodes, MaxDepth, Limit,      \* LiveLocator
  MaxWriters, MaxClock,                \* TraceMerge (and MaxEvents)
  MaxDesktopChanges,                   \* Inventories
  MaxKids, MaxKidChanges, PageSize, ReadAttempts, \* NodeReading
  Budget, LeaseBudget, Settling, Scopes, \* RendererAccess
  MaxDrills,                           \* SnapshotTree
  MaxReads, MaxEdits, MaxSpoiled,      \* EvidenceReading
  Off

VARIABLES
  command, mode, wanted, overdue, matching, running, tree, snapshots, latest, mine,
  passes, query, setBack, segments, open, emitted, failing, skipped, merged,
  inventory, desk, happened, dated, alike, records, focusIn, listed, wasFocused, home,
  kids, changed, fresh, boundary, source, certain, elements, read, name, texts,
  bearer, now, deadline, lease, started, paused, activated, delay, seen, taken, sets,
  effective, cause, said, gone, windows, observed, root, map, counter, whole, drills,
  match, reread, role, shows, edits, wants, live, got, busy, over

forwardVars == <<endpoint, private, owner, starter, hpc, serving, cpc, link, payload,
                 runs>>
batchVars == <<entries, stopOnError, seed, results, ran, sessionOver, status, instance,
               focused, dispatched, last>>
clipboardVars == <<caller, ownership, reading, lateness, response, version, content>>
waitVars == <<overdue, matching, running, tree, snapshots, latest, mine>>
gestureVars == <<gesture, units, unit, armed, releases, tracked, posted>>
notificationVars == <<center, session, hindered, queue, strategy, dismissed>>
findVars == <<passes, query>>
resolveVars == <<entry, look, scrolled, titled, process, changes>>
activateVars == <<chain, base, already, readable, meddled, recorded, earlier, denied, missed,
                  marked>>
desireVars == <<action, radio, late, initially, wrote, mayFlip, done>>
appVars == <<verb, options, alive, born, events, expected, given, callback, unread,
             grace, window, begun, doomed>>
traceVars == <<setBack, segments, open, emitted, failing, skipped, merged>>
overlayVars == <<control, startLock, sent, life, socket, dragging>>
inventoryVars == <<inventory, desk, happened, dated, alike, records, focusIn, listed,
                   wasFocused>>
windowVars == <<op, bridge, twin, fate, main, userSteps, delivered, confirmations,
                sightings>>
libraryVars == <<adapters, made, handles, tokens, sharers, maker, allocated, known,
                 hosted, lastError, failure, doing, using, block, calls>>
readingVars == <<home, kids, changed, fresh, boundary, source, certain, elements, read,
                 name, texts, bearer>>
rendererVars == <<now, deadline, lease, started, paused, activated, delay, seen, taken,
                  sets, effective, cause, said>>
selectVars == <<family, exposed, has, nodes, opened, fallback>>
snapshotVars == <<gone, windows, observed, root, map, counter, whole, drills, match,
                  reread>>
scrollVars == <<goal, start, lost, count, attempts>>
evidenceVars == <<role, shows, edits, wants, live, got, busy, over>>
pointerVars == <<refs, auto, places, looks, todo, half, moments, doubt, leased,
                 overlay, tracking, acted>>
programVars == <<job, spawned, exit, failures, struck, screen, shifts, asked, since,
                 temp, image, answers, prompted, orphaned>>
actVars == <<plan, element, shakes, turn, strict, samples, spot, tally, effected, met>>
vars == <<command, forwardVars, batchVars, clipboardVars, waitVars, gestureVars,
          notificationVars, findVars, resolveVars, activateVars, desireVars, appVars,
          traceVars, overlayVars, inventoryVars, windowVars, libraryVars, readingVars,
          rendererVars, selectVars, snapshotVars, scrollVars, evidenceVars,
          pointerVars, programVars, actVars, backlog, child, answer, expired, verdict,
          index, at, pending, scope, want, found, request, helper, attempt, outcome,
          touched, held, mode, wanted, phase, result, notes, arrived, baseline,
          evidence, stage, moves, front, target, before, parent, shown, headed, tries,
          effects, coming, published, on, refused, number, clock, streams, first,
          killed, owners, prior, report, step, value, landing, kind>>

W == INSTANCE Waits
L == INSTANCE LiveLocator
T == INSTANCE TraceMerge
I == INSTANCE Inventories
Q == INSTANCE NodeReading
V == INSTANCE RendererAccess
G == INSTANCE SnapshotTree
J == INSTANCE EvidenceReading

-----------------------------------------------------------------------------
\* The variables of a component that does not run.
NoForward == /\ endpoint = Off /\ private = Off /\ owner = Off /\ starter = Off
             /\ hpc = Off /\ serving = Off /\ cpc = Off /\ link = Off /\ payload = Off
             /\ runs = Off
NoBatch == /\ entries = Off /\ stopOnError = Off /\ seed = Off /\ results = Off
           /\ ran = Off /\ sessionOver = Off /\ status = Off /\ instance = Off
           /\ focused = Off /\ dispatched = Off /\ last = Off
NoClipboard == /\ caller = Off /\ ownership = Off /\ reading = Off /\ lateness = Off
               /\ response = Off /\ version = Off /\ content = Off
NoWait == /\ overdue = Off /\ matching = Off /\ running = Off /\ tree = Off
          /\ snapshots = Off /\ latest = Off /\ mine = Off
NoGesture == /\ gesture = Off /\ units = Off /\ unit = Off /\ armed = Off
             /\ releases = Off /\ tracked = Off /\ posted = Off
NoNotification == /\ center = Off /\ session = Off /\ hindered = Off /\ queue = Off
                  /\ strategy = Off /\ dismissed = Off
NoFind == /\ passes = Off /\ query = Off
NoResolve == /\ entry = Off /\ look = Off /\ scrolled = Off /\ titled = Off
             /\ process = Off /\ changes = Off
NoActivate == /\ chain = Off /\ base = Off /\ already = Off /\ readable = Off
              /\ meddled = Off /\ recorded = Off
              /\ earlier = Off /\ denied = Off /\ missed = Off /\ marked = Off
NoDesire == /\ action = Off /\ radio = Off /\ late = Off /\ initially = Off
            /\ wrote = Off /\ mayFlip = Off /\ done = Off
NoApp == /\ verb = Off /\ options = Off /\ alive = Off /\ born = Off /\ events = Off
         /\ expected = Off /\ given = Off /\ callback = Off /\ unread = Off
         /\ grace = Off /\ window = Off /\ begun = Off /\ doomed = Off
NoTrace == /\ setBack = Off /\ segments = Off /\ open = Off /\ emitted = Off
           /\ failing = Off /\ skipped = Off /\ merged = Off
NoOverlay == /\ control = Off /\ startLock = Off /\ sent = Off /\ life = Off
             /\ socket = Off /\ dragging = Off
NoInventory == /\ inventory = Off /\ desk = Off /\ happened = Off /\ dated = Off
               /\ alike = Off /\ records = Off /\ focusIn = Off /\ listed = Off
               /\ wasFocused = Off
NoWindow == /\ op = Off /\ bridge = Off /\ twin = Off /\ fate = Off /\ main = Off
            /\ userSteps = Off /\ delivered = Off /\ confirmations = Off
            /\ sightings = Off
NoLibrary == /\ adapters = Off /\ made = Off /\ handles = Off /\ tokens = Off
             /\ sharers = Off /\ maker = Off /\ allocated = Off /\ known = Off
             /\ hosted = Off /\ lastError = Off /\ failure = Off /\ doing = Off
             /\ using = Off /\ block = Off /\ calls = Off
NoReading == /\ home = Off /\ kids = Off /\ changed = Off /\ fresh = Off
             /\ boundary = Off /\ source = Off /\ certain = Off /\ elements = Off
             /\ read = Off /\ name = Off /\ texts = Off /\ bearer = Off
NoRenderer == /\ now = Off /\ deadline = Off /\ lease = Off /\ started = Off
              /\ paused = Off /\ activated = Off /\ delay = Off /\ seen = Off
              /\ taken = Off /\ sets = Off /\ effective = Off /\ cause = Off
              /\ said = Off
NoSelect == /\ family = Off /\ exposed = Off /\ has = Off /\ nodes = Off /\ opened = Off
            /\ fallback = Off
NoSnapshot == /\ gone = Off /\ windows = Off /\ observed = Off /\ root = Off
              /\ map = Off /\ counter = Off /\ whole = Off /\ drills = Off
              /\ match = Off /\ reread = Off
NoScroll == /\ goal = Off /\ start = Off /\ lost = Off /\ count = Off /\ attempts = Off
NoEvidence == /\ role = Off /\ shows = Off /\ edits = Off /\ wants = Off /\ live = Off
              /\ got = Off /\ busy = Off /\ over = Off
NoPointer == /\ refs = Off /\ auto = Off /\ places = Off /\ looks = Off /\ todo = Off
             /\ half = Off /\ moments = Off /\ doubt = Off /\ leased = Off
             /\ overlay = Off /\ tracking = Off /\ acted = Off
NoProgram == /\ job = Off /\ spawned = Off /\ exit = Off /\ failures = Off
             /\ struck = Off /\ screen = Off /\ shifts = Off /\ asked = Off
             /\ since = Off /\ temp = Off /\ image = Off /\ answers = Off
             /\ prompted = Off /\ orphaned = Off
NoAct == /\ plan = Off /\ element = Off /\ shakes = Off /\ turn = Off /\ strict = Off
         /\ samples = Off /\ spot = Off /\ tally = Off /\ effected = Off /\ met = Off

(* One command at a time: how each starts, and its steps *)

ForwardInit == /\ command = "forward" /\ H!Init /\ NoBatch /\ NoClipboard /\ NoWait
               /\ NoGesture /\ NoNotification /\ NoFind /\ NoResolve /\ NoActivate
               /\ NoDesire /\ NoApp /\ NoTrace /\ NoOverlay /\ NoInventory /\ NoWindow
               /\ NoLibrary /\ NoReading /\ NoRenderer /\ NoSelect /\ NoSnapshot
               /\ NoScroll /\ NoEvidence /\ NoPointer /\ NoProgram /\ NoAct
               /\ index = Off /\ at = Off /\ pending = Off /\ scope = Off /\ want = Off
               /\ found = Off /\ request = Off /\ helper = Off /\ attempt = Off
               /\ outcome = Off /\ touched = Off /\ held = Off /\ mode = Off
               /\ wanted = Off /\ phase = Off /\ result = Off /\ notes = Off
               /\ arrived = Off /\ baseline = Off /\ evidence = Off /\ stage = Off
               /\ moves = Off /\ front = Off /\ target = Off /\ before = Off
               /\ parent = Off /\ shown = Off /\ headed = Off /\ tries = Off
               /\ effects = Off /\ coming = Off /\ published = Off /\ on = Off
               /\ refused = Off /\ number = Off /\ clock = Off /\ streams = Off
               /\ first = Off /\ killed = Off /\ owners = Off /\ prior = Off
               /\ report = Off /\ step = Off /\ value = Off /\ landing = Off
               /\ kind = Off
BatchInit == /\ command = "batch" /\ B!Init /\ NoForward /\ NoClipboard /\ NoWait
             /\ NoGesture /\ NoNotification /\ NoFind /\ NoResolve /\ NoActivate
             /\ NoDesire /\ NoApp /\ NoTrace /\ NoOverlay /\ NoInventory /\ NoWindow
             /\ NoLibrary /\ NoReading /\ NoRenderer /\ NoSelect /\ NoSnapshot
             /\ NoScroll /\ NoEvidence /\ NoPointer /\ NoProgram /\ NoAct
             /\ backlog = Off /\ child = Off /\ answer = Off /\ request = Off
             /\ helper = Off /\ attempt = Off /\ outcome = Off /\ touched = Off
             /\ held = Off /\ mode = Off /\ wanted = Off /\ phase = Off /\ result = Off
             /\ notes = Off /\ arrived = Off /\ baseline = Off /\ evidence = Off
             /\ stage = Off /\ moves = Off /\ front = Off /\ target = Off
             /\ before = Off /\ parent = Off /\ shown = Off /\ headed = Off
             /\ tries = Off /\ effects = Off /\ coming = Off /\ published = Off
             /\ on = Off /\ refused = Off /\ number = Off /\ clock = Off
             /\ streams = Off /\ first = Off /\ killed = Off /\ owners = Off
             /\ prior = Off /\ report = Off /\ step = Off /\ value = Off
             /\ landing = Off /\ kind = Off
ClipboardInit == /\ command = "clipboard" /\ C!Init /\ NoForward /\ NoBatch /\ NoWait
                 /\ NoGesture /\ NoNotification /\ NoFind /\ NoResolve /\ NoActivate
                 /\ NoDesire /\ NoApp /\ NoTrace /\ NoOverlay /\ NoInventory /\ NoWindow
                 /\ NoLibrary /\ NoReading /\ NoRenderer /\ NoSelect /\ NoSnapshot
                 /\ NoScroll /\ NoEvidence /\ NoPointer /\ NoProgram /\ NoAct
                 /\ backlog = Off /\ child = Off /\ answer = Off /\ expired = Off
                 /\ verdict = Off /\ index = Off /\ at = Off /\ pending = Off
                 /\ scope = Off /\ want = Off /\ found = Off /\ mode = Off
                 /\ wanted = Off /\ phase = Off /\ result = Off /\ notes = Off
                 /\ arrived = Off /\ baseline = Off /\ evidence = Off /\ stage = Off
                 /\ moves = Off /\ front = Off /\ target = Off /\ before = Off
                 /\ parent = Off /\ shown = Off /\ headed = Off /\ tries = Off
                 /\ effects = Off /\ coming = Off /\ published = Off /\ on = Off
                 /\ refused = Off /\ number = Off /\ clock = Off /\ streams = Off
                 /\ first = Off /\ killed = Off /\ owners = Off /\ prior = Off
                 /\ report = Off /\ step = Off /\ value = Off /\ landing = Off
                 /\ kind = Off
WaitInit == /\ command = "wait" /\ W!Init /\ NoForward /\ NoBatch /\ NoClipboard
            /\ NoGesture /\ NoNotification /\ NoFind /\ NoResolve /\ NoActivate
            /\ NoDesire /\ NoApp /\ NoTrace /\ NoOverlay /\ NoInventory /\ NoWindow
            /\ NoLibrary /\ NoReading /\ NoRenderer /\ NoSelect /\ NoSnapshot
            /\ NoScroll /\ NoEvidence /\ NoPointer /\ NoProgram /\ NoAct
            /\ backlog = Off /\ child = Off /\ answer = Off /\ expired = Off
            /\ verdict = Off /\ index = Off /\ at = Off /\ pending = Off /\ scope = Off
            /\ want = Off /\ found = Off /\ request = Off /\ helper = Off
            /\ attempt = Off /\ outcome = Off /\ touched = Off /\ held = Off
            /\ stage = Off /\ moves = Off /\ front = Off /\ target = Off /\ before = Off
            /\ parent = Off /\ shown = Off /\ headed = Off /\ tries = Off
            /\ effects = Off /\ coming = Off /\ published = Off /\ on = Off
            /\ refused = Off /\ number = Off /\ clock = Off /\ streams = Off
            /\ first = Off /\ killed = Off /\ owners = Off /\ prior = Off
            /\ report = Off /\ step = Off /\ value = Off /\ landing = Off /\ kind = Off
GestureInit == /\ command = "gesture" /\ P!Init /\ NoForward /\ NoBatch /\ NoClipboard
               /\ NoWait /\ NoNotification /\ NoFind /\ NoResolve /\ NoActivate
               /\ NoDesire /\ NoApp /\ NoTrace /\ NoOverlay /\ NoInventory /\ NoWindow
               /\ NoLibrary /\ NoReading /\ NoRenderer /\ NoSelect /\ NoSnapshot
               /\ NoScroll /\ NoEvidence /\ NoPointer /\ NoProgram /\ NoAct
               /\ backlog = Off /\ child = Off /\ answer = Off /\ expired = Off
               /\ index = Off /\ at = Off /\ pending = Off /\ scope = Off /\ want = Off
               /\ found = Off /\ request = Off /\ helper = Off /\ attempt = Off
               /\ outcome = Off /\ touched = Off /\ mode = Off /\ wanted = Off
               /\ phase = Off /\ result = Off /\ notes = Off /\ arrived = Off
               /\ baseline = Off /\ evidence = Off /\ front = Off /\ target = Off
               /\ before = Off /\ parent = Off /\ shown = Off /\ headed = Off
               /\ tries = Off /\ effects = Off /\ coming = Off /\ published = Off
               /\ on = Off /\ refused = Off /\ number = Off /\ clock = Off
               /\ streams = Off /\ first = Off /\ killed = Off /\ owners = Off
               /\ prior = Off /\ report = Off /\ step = Off /\ value = Off
               /\ landing = Off /\ kind = Off
NotificationInit == /\ command = "notification" /\ N!Init /\ NoForward /\ NoBatch
                    /\ NoClipboard /\ NoWait /\ NoGesture /\ NoFind /\ NoResolve
                    /\ NoActivate /\ NoDesire /\ NoApp /\ NoTrace /\ NoOverlay
                    /\ NoInventory /\ NoWindow /\ NoLibrary /\ NoReading /\ NoRenderer
                    /\ NoSelect /\ NoSnapshot /\ NoScroll /\ NoEvidence /\ NoPointer
                    /\ NoProgram /\ NoAct /\ backlog = Off /\ child = Off
                    /\ answer = Off /\ expired = Off /\ verdict = Off /\ index = Off
                    /\ at = Off /\ pending = Off /\ scope = Off /\ want = Off
                    /\ helper = Off /\ attempt = Off /\ held = Off /\ mode = Off
                    /\ wanted = Off /\ result = Off /\ baseline = Off /\ evidence = Off
                    /\ stage = Off /\ moves = Off /\ parent = Off /\ shown = Off
                    /\ headed = Off /\ tries = Off /\ effects = Off /\ coming = Off
                    /\ published = Off /\ on = Off /\ refused = Off /\ number = Off
                    /\ clock = Off /\ streams = Off /\ first = Off /\ killed = Off
                    /\ owners = Off /\ prior = Off /\ report = Off /\ step = Off
                    /\ value = Off /\ landing = Off /\ kind = Off
FindInit == /\ command = "find" /\ L!Init /\ NoForward /\ NoBatch /\ NoClipboard
            /\ NoWait /\ NoGesture /\ NoNotification /\ NoResolve /\ NoActivate
            /\ NoDesire /\ NoApp /\ NoTrace /\ NoOverlay /\ NoInventory /\ NoWindow
            /\ NoLibrary /\ NoReading /\ NoRenderer /\ NoSelect /\ NoSnapshot
            /\ NoScroll /\ NoEvidence /\ NoPointer /\ NoProgram /\ NoAct
            /\ backlog = Off /\ child = Off /\ expired = Off /\ verdict = Off
            /\ index = Off /\ at = Off /\ pending = Off /\ scope = Off /\ want = Off
            /\ found = Off /\ request = Off /\ helper = Off /\ attempt = Off
            /\ outcome = Off /\ touched = Off /\ held = Off /\ mode = Off
            /\ wanted = Off /\ phase = Off /\ result = Off /\ notes = Off
            /\ arrived = Off /\ baseline = Off /\ evidence = Off /\ stage = Off
            /\ moves = Off /\ front = Off /\ target = Off /\ before = Off /\ shown = Off
            /\ headed = Off /\ tries = Off /\ effects = Off /\ coming = Off
            /\ published = Off /\ on = Off /\ refused = Off /\ number = Off
            /\ clock = Off /\ streams = Off /\ first = Off /\ killed = Off
            /\ owners = Off /\ prior = Off /\ report = Off /\ step = Off /\ value = Off
            /\ landing = Off /\ kind = Off
ResolveInit == /\ command = "resolve" /\ R!Init /\ NoForward /\ NoBatch /\ NoClipboard
               /\ NoWait /\ NoGesture /\ NoNotification /\ NoFind /\ NoActivate
               /\ NoDesire /\ NoApp /\ NoTrace /\ NoOverlay /\ NoInventory /\ NoWindow
               /\ NoLibrary /\ NoReading /\ NoRenderer /\ NoSelect /\ NoSnapshot
               /\ NoScroll /\ NoEvidence /\ NoPointer /\ NoProgram /\ NoAct
               /\ backlog = Off /\ child = Off /\ answer = Off /\ expired = Off
               /\ verdict = Off /\ index = Off /\ at = Off /\ pending = Off
               /\ scope = Off /\ want = Off /\ found = Off /\ request = Off
               /\ helper = Off /\ attempt = Off /\ outcome = Off /\ touched = Off
               /\ mode = Off /\ wanted = Off /\ notes = Off /\ arrived = Off
               /\ baseline = Off /\ evidence = Off /\ stage = Off /\ moves = Off
               /\ front = Off /\ target = Off /\ before = Off /\ parent = Off
               /\ headed = Off /\ tries = Off /\ effects = Off /\ coming = Off
               /\ published = Off /\ on = Off /\ refused = Off /\ number = Off
               /\ clock = Off /\ streams = Off /\ first = Off /\ killed = Off
               /\ owners = Off /\ prior = Off /\ report = Off /\ step = Off
               /\ value = Off /\ landing = Off /\ kind = Off
ActivateInit == /\ command = "activate" /\ A!Init /\ NoForward /\ NoBatch /\ NoClipboard
                /\ NoWait /\ NoGesture /\ NoNotification /\ NoFind /\ NoResolve
                /\ NoDesire /\ NoApp /\ NoTrace /\ NoOverlay /\ NoInventory /\ NoWindow
                /\ NoLibrary /\ NoReading /\ NoRenderer /\ NoSelect /\ NoSnapshot
                /\ NoScroll /\ NoEvidence /\ NoPointer /\ NoProgram /\ NoAct
                /\ backlog = Off /\ child = Off /\ expired = Off /\ index = Off
                /\ pending = Off /\ scope = Off /\ want = Off /\ found = Off
                /\ request = Off /\ helper = Off /\ attempt = Off /\ outcome = Off
                /\ touched = Off /\ held = Off /\ mode = Off /\ wanted = Off
                /\ phase = Off /\ result = Off /\ notes = Off /\ arrived = Off
                /\ baseline = Off /\ evidence = Off /\ moves = Off /\ front = Off
                /\ target = Off /\ before = Off /\ parent = Off /\ published = Off
                /\ on = Off /\ refused = Off /\ number = Off /\ clock = Off
                /\ streams = Off /\ first = Off /\ killed = Off /\ owners = Off
                /\ prior = Off /\ report = Off /\ step = Off /\ value = Off
                /\ landing = Off /\ kind = Off
DesireInit == /\ command = "desire" /\ D!Init /\ NoForward /\ NoBatch /\ NoClipboard
              /\ NoWait /\ NoGesture /\ NoNotification /\ NoFind /\ NoResolve
              /\ NoActivate /\ NoApp /\ NoTrace /\ NoOverlay /\ NoInventory /\ NoWindow
              /\ NoLibrary /\ NoReading /\ NoRenderer /\ NoSelect /\ NoSnapshot
              /\ NoScroll /\ NoEvidence /\ NoPointer /\ NoProgram /\ NoAct
              /\ backlog = Off /\ child = Off /\ answer = Off /\ expired = Off
              /\ verdict = Off /\ index = Off /\ at = Off /\ pending = Off
              /\ scope = Off /\ found = Off /\ request = Off /\ helper = Off
              /\ attempt = Off /\ outcome = Off /\ touched = Off /\ held = Off
              /\ mode = Off /\ wanted = Off /\ result = Off /\ notes = Off
              /\ arrived = Off /\ baseline = Off /\ evidence = Off /\ stage = Off
              /\ moves = Off /\ front = Off /\ target = Off /\ before = Off
              /\ parent = Off /\ shown = Off /\ headed = Off /\ tries = Off
              /\ effects = Off /\ coming = Off /\ number = Off /\ clock = Off
              /\ streams = Off /\ first = Off /\ killed = Off /\ owners = Off
              /\ prior = Off /\ report = Off /\ step = Off /\ value = Off
              /\ landing = Off /\ kind = Off
AppInit == /\ command = "app" /\ K!Init /\ NoForward /\ NoBatch /\ NoClipboard /\ NoWait
           /\ NoGesture /\ NoNotification /\ NoFind /\ NoResolve /\ NoActivate
           /\ NoDesire /\ NoTrace /\ NoOverlay /\ NoInventory /\ NoWindow /\ NoLibrary
           /\ NoReading /\ NoRenderer /\ NoSelect /\ NoSnapshot /\ NoScroll
           /\ NoEvidence /\ NoPointer /\ NoProgram /\ NoAct /\ backlog = Off
           /\ child = Off /\ answer = Off /\ expired = Off /\ index = Off /\ at = Off
           /\ pending = Off /\ scope = Off /\ want = Off /\ found = Off /\ request = Off
           /\ helper = Off /\ attempt = Off /\ outcome = Off /\ touched = Off
           /\ held = Off /\ mode = Off /\ wanted = Off /\ phase = Off /\ result = Off
           /\ notes = Off /\ arrived = Off /\ evidence = Off /\ moves = Off
           /\ front = Off /\ target = Off /\ before = Off /\ parent = Off /\ shown = Off
           /\ headed = Off /\ tries = Off /\ effects = Off /\ coming = Off
           /\ published = Off /\ on = Off /\ refused = Off /\ clock = Off
           /\ streams = Off /\ first = Off /\ killed = Off /\ owners = Off
           /\ prior = Off /\ report = Off /\ step = Off /\ value = Off /\ landing = Off
           /\ kind = Off
TraceInit == /\ command = "trace" /\ T!Init /\ NoForward /\ NoBatch /\ NoClipboard
             /\ NoWait /\ NoGesture /\ NoNotification /\ NoFind /\ NoResolve
             /\ NoActivate /\ NoDesire /\ NoApp /\ NoOverlay /\ NoInventory /\ NoWindow
             /\ NoLibrary /\ NoReading /\ NoRenderer /\ NoSelect /\ NoSnapshot
             /\ NoScroll /\ NoEvidence /\ NoPointer /\ NoProgram /\ NoAct
             /\ backlog = Off /\ child = Off /\ answer = Off /\ expired = Off
             /\ verdict = Off /\ index = Off /\ at = Off /\ pending = Off /\ scope = Off
             /\ want = Off /\ found = Off /\ request = Off /\ helper = Off
             /\ attempt = Off /\ outcome = Off /\ touched = Off /\ held = Off
             /\ mode = Off /\ wanted = Off /\ phase = Off /\ result = Off /\ notes = Off
             /\ arrived = Off /\ baseline = Off /\ evidence = Off /\ moves = Off
             /\ front = Off /\ target = Off /\ parent = Off /\ shown = Off
             /\ headed = Off /\ tries = Off /\ effects = Off /\ coming = Off
             /\ published = Off /\ on = Off /\ refused = Off /\ number = Off
             /\ first = Off /\ killed = Off /\ owners = Off /\ prior = Off
             /\ report = Off /\ step = Off /\ value = Off /\ landing = Off /\ kind = Off
OverlayInit == /\ command = "overlay" /\ O!Init /\ NoForward /\ NoBatch /\ NoClipboard
               /\ NoWait /\ NoGesture /\ NoNotification /\ NoFind /\ NoResolve
               /\ NoActivate /\ NoDesire /\ NoApp /\ NoTrace /\ NoInventory /\ NoWindow
               /\ NoLibrary /\ NoReading /\ NoRenderer /\ NoSelect /\ NoSnapshot
               /\ NoScroll /\ NoEvidence /\ NoPointer /\ NoProgram /\ NoAct
               /\ child = Off /\ expired = Off /\ verdict = Off /\ index = Off
               /\ at = Off /\ pending = Off /\ scope = Off /\ want = Off /\ found = Off
               /\ request = Off /\ attempt = Off /\ outcome = Off /\ touched = Off
               /\ held = Off /\ mode = Off /\ wanted = Off /\ phase = Off
               /\ result = Off /\ notes = Off /\ arrived = Off /\ baseline = Off
               /\ evidence = Off /\ moves = Off /\ front = Off /\ target = Off
               /\ before = Off /\ parent = Off /\ shown = Off /\ headed = Off
               /\ tries = Off /\ effects = Off /\ coming = Off /\ published = Off
               /\ refused = Off /\ number = Off /\ clock = Off /\ streams = Off
               /\ owners = Off /\ prior = Off /\ report = Off /\ step = Off
               /\ value = Off /\ landing = Off /\ kind = Off
InventoryInit == /\ command = "inventory" /\ I!Init /\ NoForward /\ NoBatch
                 /\ NoClipboard /\ NoWait /\ NoGesture /\ NoNotification /\ NoFind
                 /\ NoResolve /\ NoActivate /\ NoDesire /\ NoApp /\ NoTrace /\ NoOverlay
                 /\ NoWindow /\ NoLibrary /\ NoReading /\ NoRenderer /\ NoSelect
                 /\ NoSnapshot /\ NoScroll /\ NoEvidence /\ NoPointer /\ NoProgram
                 /\ NoAct /\ backlog = Off /\ child = Off /\ answer = Off
                 /\ expired = Off /\ index = Off /\ at = Off /\ pending = Off
                 /\ scope = Off /\ want = Off /\ found = Off /\ request = Off
                 /\ helper = Off /\ attempt = Off /\ outcome = Off /\ touched = Off
                 /\ held = Off /\ mode = Off /\ wanted = Off /\ phase = Off
                 /\ result = Off /\ notes = Off /\ arrived = Off /\ baseline = Off
                 /\ evidence = Off /\ moves = Off /\ front = Off /\ target = Off
                 /\ before = Off /\ parent = Off /\ shown = Off /\ headed = Off
                 /\ tries = Off /\ effects = Off /\ coming = Off /\ published = Off
                 /\ on = Off /\ refused = Off /\ number = Off /\ clock = Off
                 /\ streams = Off /\ first = Off /\ killed = Off /\ report = Off
                 /\ step = Off /\ value = Off /\ landing = Off /\ kind = Off
WindowInit == /\ command = "window" /\ X!Init /\ NoForward /\ NoBatch /\ NoClipboard
              /\ NoWait /\ NoGesture /\ NoNotification /\ NoFind /\ NoResolve
              /\ NoActivate /\ NoDesire /\ NoApp /\ NoTrace /\ NoOverlay /\ NoInventory
              /\ NoLibrary /\ NoReading /\ NoRenderer /\ NoSelect /\ NoSnapshot
              /\ NoScroll /\ NoEvidence /\ NoPointer /\ NoProgram /\ NoAct
              /\ backlog = Off /\ child = Off /\ answer = Off /\ expired = Off
              /\ verdict = Off /\ index = Off /\ at = Off /\ pending = Off
              /\ scope = Off /\ want = Off /\ found = Off /\ request = Off
              /\ helper = Off /\ attempt = Off /\ outcome = Off /\ touched = Off
              /\ held = Off /\ mode = Off /\ wanted = Off /\ phase = Off /\ result = Off
              /\ notes = Off /\ arrived = Off /\ baseline = Off /\ evidence = Off
              /\ moves = Off /\ before = Off /\ parent = Off /\ shown = Off
              /\ headed = Off /\ tries = Off /\ coming = Off /\ on = Off
              /\ refused = Off /\ number = Off /\ clock = Off /\ streams = Off
              /\ first = Off /\ killed = Off /\ owners = Off /\ prior = Off
              /\ step = Off /\ value = Off /\ landing = Off /\ kind = Off
LibraryInit == /\ command = "library" /\ F!Init /\ NoForward /\ NoBatch /\ NoClipboard
               /\ NoWait /\ NoGesture /\ NoNotification /\ NoFind /\ NoResolve
               /\ NoActivate /\ NoDesire /\ NoApp /\ NoTrace /\ NoOverlay /\ NoInventory
               /\ NoWindow /\ NoReading /\ NoRenderer /\ NoSelect /\ NoSnapshot
               /\ NoScroll /\ NoEvidence /\ NoPointer /\ NoProgram /\ NoAct
               /\ backlog = Off /\ child = Off /\ answer = Off /\ expired = Off
               /\ verdict = Off /\ index = Off /\ at = Off /\ pending = Off
               /\ scope = Off /\ want = Off /\ found = Off /\ request = Off
               /\ helper = Off /\ attempt = Off /\ outcome = Off /\ touched = Off
               /\ mode = Off /\ wanted = Off /\ phase = Off /\ result = Off
               /\ notes = Off /\ arrived = Off /\ baseline = Off /\ evidence = Off
               /\ stage = Off /\ moves = Off /\ front = Off /\ target = Off
               /\ before = Off /\ parent = Off /\ shown = Off /\ headed = Off
               /\ tries = Off /\ effects = Off /\ coming = Off /\ published = Off
               /\ on = Off /\ refused = Off /\ number = Off /\ clock = Off
               /\ streams = Off /\ first = Off /\ killed = Off /\ prior = Off
               /\ report = Off /\ step = Off /\ value = Off /\ landing = Off
               /\ kind = Off
ReadingInit == /\ command = "reading" /\ Q!Init /\ NoForward /\ NoBatch /\ NoClipboard
               /\ NoWait /\ NoGesture /\ NoNotification /\ NoFind /\ NoResolve
               /\ NoActivate /\ NoDesire /\ NoApp /\ NoTrace /\ NoOverlay /\ NoInventory
               /\ NoWindow /\ NoLibrary /\ NoRenderer /\ NoSelect /\ NoSnapshot
               /\ NoScroll /\ NoEvidence /\ NoPointer /\ NoProgram /\ NoAct
               /\ backlog = Off /\ child = Off /\ answer = Off /\ expired = Off
               /\ verdict = Off /\ index = Off /\ at = Off /\ pending = Off
               /\ scope = Off /\ want = Off /\ found = Off /\ request = Off
               /\ helper = Off /\ attempt = Off /\ outcome = Off /\ touched = Off
               /\ held = Off /\ phase = Off /\ result = Off /\ notes = Off
               /\ arrived = Off /\ baseline = Off /\ evidence = Off /\ stage = Off
               /\ moves = Off /\ front = Off /\ target = Off /\ before = Off
               /\ parent = Off /\ shown = Off /\ headed = Off /\ effects = Off
               /\ coming = Off /\ published = Off /\ on = Off /\ refused = Off
               /\ clock = Off /\ streams = Off /\ first = Off /\ killed = Off
               /\ owners = Off /\ prior = Off /\ report = Off /\ value = Off
               /\ landing = Off /\ kind = Off
RendererInit == /\ command = "renderer" /\ V!Init /\ NoForward /\ NoBatch /\ NoClipboard
                /\ NoWait /\ NoGesture /\ NoNotification /\ NoFind /\ NoResolve
                /\ NoActivate /\ NoDesire /\ NoApp /\ NoTrace /\ NoOverlay
                /\ NoInventory /\ NoWindow /\ NoLibrary /\ NoReading /\ NoSelect
                /\ NoSnapshot /\ NoScroll /\ NoEvidence /\ NoPointer /\ NoProgram
                /\ NoAct /\ backlog = Off /\ child = Off /\ answer = Off
                /\ expired = Off /\ verdict = Off /\ index = Off /\ at = Off
                /\ pending = Off /\ want = Off /\ found = Off /\ request = Off
                /\ helper = Off /\ attempt = Off /\ outcome = Off /\ touched = Off
                /\ held = Off /\ wanted = Off /\ phase = Off /\ notes = Off
                /\ arrived = Off /\ baseline = Off /\ evidence = Off /\ stage = Off
                /\ moves = Off /\ front = Off /\ target = Off /\ before = Off
                /\ parent = Off /\ shown = Off /\ headed = Off /\ tries = Off
                /\ effects = Off /\ coming = Off /\ refused = Off /\ number = Off
                /\ clock = Off /\ streams = Off /\ first = Off /\ killed = Off
                /\ owners = Off /\ prior = Off /\ report = Off /\ value = Off
                /\ landing = Off /\ kind = Off
SelectInit == /\ command = "select" /\ S!Init /\ NoForward /\ NoBatch /\ NoClipboard
              /\ NoWait /\ NoGesture /\ NoNotification /\ NoFind /\ NoResolve
              /\ NoActivate /\ NoDesire /\ NoApp /\ NoTrace /\ NoOverlay /\ NoInventory
              /\ NoWindow /\ NoLibrary /\ NoReading /\ NoRenderer /\ NoSnapshot
              /\ NoScroll /\ NoEvidence /\ NoPointer /\ NoProgram /\ NoAct
              /\ backlog = Off /\ child = Off /\ answer = Off /\ expired = Off
              /\ verdict = Off /\ index = Off /\ at = Off /\ pending = Off
              /\ scope = Off /\ want = Off /\ found = Off /\ request = Off
              /\ helper = Off /\ attempt = Off /\ outcome = Off /\ touched = Off
              /\ held = Off /\ mode = Off /\ wanted = Off /\ phase = Off /\ result = Off
              /\ notes = Off /\ arrived = Off /\ baseline = Off /\ evidence = Off
              /\ stage = Off /\ moves = Off /\ front = Off /\ before = Off
              /\ parent = Off /\ headed = Off /\ tries = Off /\ effects = Off
              /\ published = Off /\ on = Off /\ refused = Off /\ number = Off
              /\ clock = Off /\ streams = Off /\ first = Off /\ killed = Off
              /\ owners = Off /\ prior = Off /\ kind = Off
SnapshotInit == /\ command = "snapshot" /\ G!Init /\ NoForward /\ NoBatch /\ NoClipboard
                /\ NoWait /\ NoGesture /\ NoNotification /\ NoFind /\ NoResolve
                /\ NoActivate /\ NoDesire /\ NoApp /\ NoTrace /\ NoOverlay
                /\ NoInventory /\ NoWindow /\ NoLibrary /\ NoReading /\ NoRenderer
                /\ NoSelect /\ NoScroll /\ NoEvidence /\ NoPointer /\ NoProgram /\ NoAct
                /\ backlog = Off /\ child = Off /\ answer = Off /\ expired = Off
                /\ verdict = Off /\ index = Off /\ at = Off /\ pending = Off
                /\ scope = Off /\ want = Off /\ found = Off /\ request = Off
                /\ helper = Off /\ attempt = Off /\ outcome = Off /\ touched = Off
                /\ held = Off /\ mode = Off /\ wanted = Off /\ phase = Off
                /\ notes = Off /\ arrived = Off /\ baseline = Off /\ evidence = Off
                /\ stage = Off /\ moves = Off /\ front = Off /\ target = Off
                /\ before = Off /\ shown = Off /\ headed = Off /\ tries = Off
                /\ effects = Off /\ coming = Off /\ published = Off /\ on = Off
                /\ refused = Off /\ number = Off /\ clock = Off /\ streams = Off
                /\ first = Off /\ killed = Off /\ owners = Off /\ prior = Off
                /\ report = Off /\ value = Off /\ landing = Off
ScrollInit == /\ command = "scroll" /\ E!Init /\ NoForward /\ NoBatch /\ NoClipboard
              /\ NoWait /\ NoGesture /\ NoNotification /\ NoFind /\ NoResolve
              /\ NoActivate /\ NoDesire /\ NoApp /\ NoTrace /\ NoOverlay /\ NoInventory
              /\ NoWindow /\ NoLibrary /\ NoReading /\ NoRenderer /\ NoSelect
              /\ NoSnapshot /\ NoEvidence /\ NoPointer /\ NoProgram /\ NoAct
              /\ backlog = Off /\ child = Off /\ answer = Off /\ expired = Off
              /\ verdict = Off /\ index = Off /\ pending = Off /\ scope = Off
              /\ want = Off /\ found = Off /\ request = Off /\ helper = Off
              /\ attempt = Off /\ outcome = Off /\ touched = Off /\ held = Off
              /\ mode = Off /\ wanted = Off /\ phase = Off /\ result = Off
              /\ notes = Off /\ arrived = Off /\ baseline = Off /\ evidence = Off
              /\ stage = Off /\ moves = Off /\ front = Off /\ target = Off
              /\ before = Off /\ parent = Off /\ shown = Off /\ tries = Off
              /\ effects = Off /\ published = Off /\ on = Off /\ refused = Off
              /\ number = Off /\ clock = Off /\ streams = Off /\ first = Off
              /\ killed = Off /\ owners = Off /\ prior = Off /\ value = Off
              /\ kind = Off
EvidenceInit == /\ command = "evidence" /\ J!Init /\ NoForward /\ NoBatch /\ NoClipboard
                /\ NoWait /\ NoGesture /\ NoNotification /\ NoFind /\ NoResolve
                /\ NoActivate /\ NoDesire /\ NoApp /\ NoTrace /\ NoOverlay
                /\ NoInventory /\ NoWindow /\ NoLibrary /\ NoReading /\ NoRenderer
                /\ NoSelect /\ NoSnapshot /\ NoScroll /\ NoPointer /\ NoProgram /\ NoAct
                /\ backlog = Off /\ child = Off /\ answer = Off /\ expired = Off
                /\ verdict = Off /\ index = Off /\ at = Off /\ pending = Off
                /\ scope = Off /\ want = Off /\ found = Off /\ request = Off
                /\ helper = Off /\ outcome = Off /\ touched = Off /\ held = Off
                /\ mode = Off /\ wanted = Off /\ phase = Off /\ result = Off
                /\ notes = Off /\ arrived = Off /\ baseline = Off /\ evidence = Off
                /\ stage = Off /\ moves = Off /\ front = Off /\ target = Off
                /\ parent = Off /\ shown = Off /\ headed = Off /\ tries = Off
                /\ effects = Off /\ coming = Off /\ published = Off /\ on = Off
                /\ refused = Off /\ number = Off /\ clock = Off /\ streams = Off
                /\ first = Off /\ killed = Off /\ owners = Off /\ prior = Off
                /\ landing = Off /\ kind = Off
PointerInit == /\ command = "pointer" /\ U!Init /\ NoForward /\ NoBatch /\ NoClipboard
               /\ NoWait /\ NoGesture /\ NoNotification /\ NoFind /\ NoResolve
               /\ NoActivate /\ NoDesire /\ NoApp /\ NoTrace /\ NoOverlay /\ NoInventory
               /\ NoWindow /\ NoLibrary /\ NoReading /\ NoRenderer /\ NoSelect
               /\ NoSnapshot /\ NoScroll /\ NoEvidence /\ NoProgram /\ NoAct
               /\ backlog = Off /\ child = Off /\ answer = Off /\ expired = Off
               /\ verdict = Off /\ index = Off /\ at = Off /\ pending = Off
               /\ scope = Off /\ want = Off /\ found = Off /\ request = Off
               /\ helper = Off /\ attempt = Off /\ outcome = Off /\ touched = Off
               /\ held = Off /\ mode = Off /\ wanted = Off /\ phase = Off
               /\ result = Off /\ notes = Off /\ arrived = Off /\ baseline = Off
               /\ evidence = Off /\ stage = Off /\ front = Off /\ target = Off
               /\ before = Off /\ parent = Off /\ shown = Off /\ headed = Off
               /\ tries = Off /\ effects = Off /\ coming = Off /\ published = Off
               /\ on = Off /\ refused = Off /\ number = Off /\ clock = Off
               /\ streams = Off /\ killed = Off /\ owners = Off /\ prior = Off
               /\ value = Off /\ landing = Off
ProgramInit == /\ command = "program" /\ Y!Init /\ NoForward /\ NoBatch /\ NoClipboard
               /\ NoWait /\ NoGesture /\ NoNotification /\ NoFind /\ NoResolve
               /\ NoActivate /\ NoDesire /\ NoApp /\ NoTrace /\ NoOverlay /\ NoInventory
               /\ NoWindow /\ NoLibrary /\ NoReading /\ NoRenderer /\ NoSelect
               /\ NoSnapshot /\ NoScroll /\ NoEvidence /\ NoPointer /\ NoAct
               /\ backlog = Off /\ answer = Off /\ expired = Off /\ verdict = Off
               /\ at = Off /\ pending = Off /\ scope = Off /\ want = Off /\ found = Off
               /\ request = Off /\ attempt = Off /\ touched = Off /\ held = Off
               /\ mode = Off /\ wanted = Off /\ phase = Off /\ result = Off
               /\ notes = Off /\ arrived = Off /\ baseline = Off /\ evidence = Off
               /\ moves = Off /\ front = Off /\ target = Off /\ before = Off
               /\ shown = Off /\ headed = Off /\ tries = Off /\ effects = Off
               /\ coming = Off /\ published = Off /\ on = Off /\ number = Off
               /\ first = Off /\ owners = Off /\ prior = Off /\ step = Off
               /\ value = Off /\ landing = Off /\ kind = Off
ActInit == /\ command = "act" /\ Z!Init /\ NoForward /\ NoBatch /\ NoClipboard /\ NoWait
           /\ NoGesture /\ NoNotification /\ NoFind /\ NoResolve /\ NoActivate
           /\ NoDesire /\ NoApp /\ NoTrace /\ NoOverlay /\ NoInventory /\ NoWindow
           /\ NoLibrary /\ NoReading /\ NoRenderer /\ NoSelect /\ NoSnapshot /\ NoScroll
           /\ NoEvidence /\ NoPointer /\ NoProgram /\ backlog = Off /\ child = Off
           /\ expired = Off /\ index = Off /\ at = Off /\ scope = Off /\ want = Off
           /\ found = Off /\ request = Off /\ helper = Off /\ attempt = Off
           /\ outcome = Off /\ touched = Off /\ mode = Off /\ wanted = Off
           /\ phase = Off /\ result = Off /\ notes = Off /\ arrived = Off
           /\ baseline = Off /\ stage = Off /\ moves = Off /\ front = Off
           /\ before = Off /\ parent = Off /\ shown = Off /\ headed = Off /\ tries = Off
           /\ effects = Off /\ coming = Off /\ published = Off /\ on = Off
           /\ refused = Off /\ number = Off /\ clock = Off /\ streams = Off
           /\ first = Off /\ killed = Off /\ owners = Off /\ report = Off /\ step = Off
           /\ value = Off /\ landing = Off /\ kind = Off

ForwardNext ==
  /\ command = "forward" /\ H!Next
  /\ UNCHANGED <<command, batchVars, clipboardVars, waitVars, gestureVars,
                 notificationVars, findVars, resolveVars, activateVars, desireVars,
                 appVars, traceVars, overlayVars, inventoryVars, windowVars,
                 libraryVars, readingVars, rendererVars, selectVars, snapshotVars,
                 scrollVars, evidenceVars, pointerVars, programVars, actVars, index,
                 at, pending, scope, want, found, request, helper, attempt, outcome,
                 touched, held, mode, wanted, phase, result, notes, arrived, baseline,
                 evidence, stage, moves, front, target, before, parent, shown, headed,
                 tries, effects, coming, published, on, refused, number, clock,
                 streams, first, killed, owners, prior, report, step, value, landing,
                 kind>>
BatchNext ==
  /\ command = "batch" /\ B!Next
  /\ UNCHANGED <<command, forwardVars, clipboardVars, waitVars, gestureVars,
                 notificationVars, findVars, resolveVars, activateVars, desireVars,
                 appVars, traceVars, overlayVars, inventoryVars, windowVars,
                 libraryVars, readingVars, rendererVars, selectVars, snapshotVars,
                 scrollVars, evidenceVars, pointerVars, programVars, actVars, backlog,
                 child, answer, request, helper, attempt, outcome, touched, held, mode,
                 wanted, phase, result, notes, arrived, baseline, evidence, stage,
                 moves, front, target, before, parent, shown, headed, tries, effects,
                 coming, published, on, refused, number, clock, streams, first, killed,
                 owners, prior, report, step, value, landing, kind>>
ClipboardNext ==
  /\ command = "clipboard" /\ C!Next
  /\ UNCHANGED <<command, forwardVars, batchVars, waitVars, gestureVars,
                 notificationVars, findVars, resolveVars, activateVars, desireVars,
                 appVars, traceVars, overlayVars, inventoryVars, windowVars,
                 libraryVars, readingVars, rendererVars, selectVars, snapshotVars,
                 scrollVars, evidenceVars, pointerVars, programVars, actVars, backlog,
                 child, answer, expired, verdict, index, at, pending, scope, want,
                 found, mode, wanted, phase, result, notes, arrived, baseline,
                 evidence, stage, moves, front, target, before, parent, shown, headed,
                 tries, effects, coming, published, on, refused, number, clock,
                 streams, first, killed, owners, prior, report, step, value, landing,
                 kind>>
WaitNext ==
  /\ command = "wait" /\ W!Next
  /\ UNCHANGED <<command, forwardVars, batchVars, clipboardVars, gestureVars,
                 notificationVars, findVars, resolveVars, activateVars, desireVars,
                 appVars, traceVars, overlayVars, inventoryVars, windowVars,
                 libraryVars, readingVars, rendererVars, selectVars, snapshotVars,
                 scrollVars, evidenceVars, pointerVars, programVars, actVars, backlog,
                 child, answer, expired, verdict, index, at, pending, scope, want,
                 found, request, helper, attempt, outcome, touched, held, stage, moves,
                 front, target, before, parent, shown, headed, tries, effects, coming,
                 published, on, refused, number, clock, streams, first, killed, owners,
                 prior, report, step, value, landing, kind>>
GestureNext ==
  /\ command = "gesture" /\ P!Next
  /\ UNCHANGED <<command, forwardVars, batchVars, clipboardVars, waitVars,
                 notificationVars, findVars, resolveVars, activateVars, desireVars,
                 appVars, traceVars, overlayVars, inventoryVars, windowVars,
                 libraryVars, readingVars, rendererVars, selectVars, snapshotVars,
                 scrollVars, evidenceVars, pointerVars, programVars, actVars, backlog,
                 child, answer, expired, index, at, pending, scope, want, found,
                 request, helper, attempt, outcome, touched, mode, wanted, phase,
                 result, notes, arrived, baseline, evidence, front, target, before,
                 parent, shown, headed, tries, effects, coming, published, on, refused,
                 number, clock, streams, first, killed, owners, prior, report, step,
                 value, landing, kind>>
NotificationNext ==
  /\ command = "notification" /\ N!Next
  /\ UNCHANGED <<command, forwardVars, batchVars, clipboardVars, waitVars, gestureVars,
                 findVars, resolveVars, activateVars, desireVars, appVars, traceVars,
                 overlayVars, inventoryVars, windowVars, libraryVars, readingVars,
                 rendererVars, selectVars, snapshotVars, scrollVars, evidenceVars,
                 pointerVars, programVars, actVars, backlog, child, answer, expired,
                 verdict, index, at, pending, scope, want, helper, attempt, held, mode,
                 wanted, result, baseline, evidence, stage, moves, parent, shown,
                 headed, tries, effects, coming, published, on, refused, number, clock,
                 streams, first, killed, owners, prior, report, step, value, landing,
                 kind>>
FindNext ==
  /\ command = "find" /\ L!Next
  /\ UNCHANGED <<command, forwardVars, batchVars, clipboardVars, waitVars, gestureVars,
                 notificationVars, resolveVars, activateVars, desireVars, appVars,
                 traceVars, overlayVars, inventoryVars, windowVars, libraryVars,
                 readingVars, rendererVars, selectVars, snapshotVars, scrollVars,
                 evidenceVars, pointerVars, programVars, actVars, backlog, child,
                 expired, verdict, index, at, pending, scope, want, found, request,
                 helper, attempt, outcome, touched, held, mode, wanted, phase, result,
                 notes, arrived, baseline, evidence, stage, moves, front, target,
                 before, shown, headed, tries, effects, coming, published, on, refused,
                 number, clock, streams, first, killed, owners, prior, report, step,
                 value, landing, kind>>
ResolveNext ==
  /\ command = "resolve" /\ R!Next
  /\ UNCHANGED <<command, forwardVars, batchVars, clipboardVars, waitVars, gestureVars,
                 notificationVars, findVars, activateVars, desireVars, appVars,
                 traceVars, overlayVars, inventoryVars, windowVars, libraryVars,
                 readingVars, rendererVars, selectVars, snapshotVars, scrollVars,
                 evidenceVars, pointerVars, programVars, actVars, backlog, child,
                 answer, expired, verdict, index, at, pending, scope, want, found,
                 request, helper, attempt, outcome, touched, mode, wanted, notes,
                 arrived, baseline, evidence, stage, moves, front, target, before,
                 parent, headed, tries, effects, coming, published, on, refused,
                 number, clock, streams, first, killed, owners, prior, report, step,
                 value, landing, kind>>
ActivateNext ==
  /\ command = "activate" /\ A!Next
  /\ UNCHANGED <<command, forwardVars, batchVars, clipboardVars, waitVars, gestureVars,
                 notificationVars, findVars, resolveVars, desireVars, appVars,
                 traceVars, overlayVars, inventoryVars, windowVars, libraryVars,
                 readingVars, rendererVars, selectVars, snapshotVars, scrollVars,
                 evidenceVars, pointerVars, programVars, actVars, backlog, child,
                 expired, index, pending, scope, want, found, request, helper, attempt,
                 outcome, touched, held, mode, wanted, phase, result, notes, arrived,
                 baseline, evidence, moves, front, target, before, parent, published,
                 on, refused, number, clock, streams, first, killed, owners, prior,
                 report, step, value, landing, kind>>
DesireNext ==
  /\ command = "desire" /\ D!Next
  /\ UNCHANGED <<command, forwardVars, batchVars, clipboardVars, waitVars, gestureVars,
                 notificationVars, findVars, resolveVars, activateVars, appVars,
                 traceVars, overlayVars, inventoryVars, windowVars, libraryVars,
                 readingVars, rendererVars, selectVars, snapshotVars, scrollVars,
                 evidenceVars, pointerVars, programVars, actVars, backlog, child,
                 answer, expired, verdict, index, at, pending, scope, found, request,
                 helper, attempt, outcome, touched, held, mode, wanted, result, notes,
                 arrived, baseline, evidence, stage, moves, front, target, before,
                 parent, shown, headed, tries, effects, coming, number, clock, streams,
                 first, killed, owners, prior, report, step, value, landing, kind>>
AppNext ==
  /\ command = "app" /\ K!Next
  /\ UNCHANGED <<command, forwardVars, batchVars, clipboardVars, waitVars, gestureVars,
                 notificationVars, findVars, resolveVars, activateVars, desireVars,
                 traceVars, overlayVars, inventoryVars, windowVars, libraryVars,
                 readingVars, rendererVars, selectVars, snapshotVars, scrollVars,
                 evidenceVars, pointerVars, programVars, actVars, backlog, child,
                 answer, expired, index, at, pending, scope, want, found, request,
                 helper, attempt, outcome, touched, held, mode, wanted, phase, result,
                 notes, arrived, evidence, moves, front, target, before, parent, shown,
                 headed, tries, effects, coming, published, on, refused, clock,
                 streams, first, killed, owners, prior, report, step, value, landing,
                 kind>>
TraceNext ==
  /\ command = "trace" /\ T!Next
  /\ UNCHANGED <<command, forwardVars, batchVars, clipboardVars, waitVars, gestureVars,
                 notificationVars, findVars, resolveVars, activateVars, desireVars,
                 appVars, overlayVars, inventoryVars, windowVars, libraryVars,
                 readingVars, rendererVars, selectVars, snapshotVars, scrollVars,
                 evidenceVars, pointerVars, programVars, actVars, backlog, child,
                 answer, expired, verdict, index, at, pending, scope, want, found,
                 request, helper, attempt, outcome, touched, held, mode, wanted, phase,
                 result, notes, arrived, baseline, evidence, moves, front, target,
                 parent, shown, headed, tries, effects, coming, published, on, refused,
                 number, first, killed, owners, prior, report, step, value, landing,
                 kind>>
OverlayNext ==
  /\ command = "overlay" /\ O!Next
  /\ UNCHANGED <<command, forwardVars, batchVars, clipboardVars, waitVars, gestureVars,
                 notificationVars, findVars, resolveVars, activateVars, desireVars,
                 appVars, traceVars, inventoryVars, windowVars, libraryVars,
                 readingVars, rendererVars, selectVars, snapshotVars, scrollVars,
                 evidenceVars, pointerVars, programVars, actVars, child, expired,
                 verdict, index, at, pending, scope, want, found, request, attempt,
                 outcome, touched, held, mode, wanted, phase, result, notes, arrived,
                 baseline, evidence, moves, front, target, before, parent, shown,
                 headed, tries, effects, coming, published, refused, number, clock,
                 streams, owners, prior, report, step, value, landing, kind>>
InventoryNext ==
  /\ command = "inventory" /\ I!Next
  /\ UNCHANGED <<command, forwardVars, batchVars, clipboardVars, waitVars, gestureVars,
                 notificationVars, findVars, resolveVars, activateVars, desireVars,
                 appVars, traceVars, overlayVars, windowVars, libraryVars, readingVars,
                 rendererVars, selectVars, snapshotVars, scrollVars, evidenceVars,
                 pointerVars, programVars, actVars, backlog, child, answer, expired,
                 index, at, pending, scope, want, found, request, helper, attempt,
                 outcome, touched, held, mode, wanted, phase, result, notes, arrived,
                 baseline, evidence, moves, front, target, before, parent, shown,
                 headed, tries, effects, coming, published, on, refused, number, clock,
                 streams, first, killed, report, step, value, landing, kind>>
WindowNext ==
  /\ command = "window" /\ X!Next
  /\ UNCHANGED <<command, forwardVars, batchVars, clipboardVars, waitVars, gestureVars,
                 notificationVars, findVars, resolveVars, activateVars, desireVars,
                 appVars, traceVars, overlayVars, inventoryVars, libraryVars,
                 readingVars, rendererVars, selectVars, snapshotVars, scrollVars,
                 evidenceVars, pointerVars, programVars, actVars, backlog, child,
                 answer, expired, verdict, index, at, pending, scope, want, found,
                 request, helper, attempt, outcome, touched, held, mode, wanted, phase,
                 result, notes, arrived, baseline, evidence, moves, before, parent,
                 shown, headed, tries, coming, on, refused, number, clock, streams,
                 first, killed, owners, prior, step, value, landing, kind>>
LibraryNext ==
  /\ command = "library" /\ F!Next
  /\ UNCHANGED <<command, forwardVars, batchVars, clipboardVars, waitVars, gestureVars,
                 notificationVars, findVars, resolveVars, activateVars, desireVars,
                 appVars, traceVars, overlayVars, inventoryVars, windowVars,
                 readingVars, rendererVars, selectVars, snapshotVars, scrollVars,
                 evidenceVars, pointerVars, programVars, actVars, backlog, child,
                 answer, expired, verdict, index, at, pending, scope, want, found,
                 request, helper, attempt, outcome, touched, mode, wanted, phase,
                 result, notes, arrived, baseline, evidence, stage, moves, front,
                 target, before, parent, shown, headed, tries, effects, coming,
                 published, on, refused, number, clock, streams, first, killed, prior,
                 report, step, value, landing, kind>>
ReadingNext ==
  /\ command = "reading" /\ Q!Next
  /\ UNCHANGED <<command, forwardVars, batchVars, clipboardVars, waitVars, gestureVars,
                 notificationVars, findVars, resolveVars, activateVars, desireVars,
                 appVars, traceVars, overlayVars, inventoryVars, windowVars,
                 libraryVars, rendererVars, selectVars, snapshotVars, scrollVars,
                 evidenceVars, pointerVars, programVars, actVars, backlog, child,
                 answer, expired, verdict, index, at, pending, scope, want, found,
                 request, helper, attempt, outcome, touched, held, phase, result,
                 notes, arrived, baseline, evidence, stage, moves, front, target,
                 before, parent, shown, headed, effects, coming, published, on,
                 refused, clock, streams, first, killed, owners, prior, report, value,
                 landing, kind>>
RendererNext ==
  /\ command = "renderer" /\ V!Next
  /\ UNCHANGED <<command, forwardVars, batchVars, clipboardVars, waitVars, gestureVars,
                 notificationVars, findVars, resolveVars, activateVars, desireVars,
                 appVars, traceVars, overlayVars, inventoryVars, windowVars,
                 libraryVars, readingVars, selectVars, snapshotVars, scrollVars,
                 evidenceVars, pointerVars, programVars, actVars, backlog, child,
                 answer, expired, verdict, index, at, pending, want, found, request,
                 helper, attempt, outcome, touched, held, wanted, phase, notes,
                 arrived, baseline, evidence, stage, moves, front, target, before,
                 parent, shown, headed, tries, effects, coming, refused, number, clock,
                 streams, first, killed, owners, prior, report, value, landing, kind>>
SelectNext ==
  /\ command = "select" /\ S!Next
  /\ UNCHANGED <<command, forwardVars, batchVars, clipboardVars, waitVars, gestureVars,
                 notificationVars, findVars, resolveVars, activateVars, desireVars,
                 appVars, traceVars, overlayVars, inventoryVars, windowVars,
                 libraryVars, readingVars, rendererVars, snapshotVars, scrollVars,
                 evidenceVars, pointerVars, programVars, actVars, backlog, child,
                 answer, expired, verdict, index, at, pending, scope, want, found,
                 request, helper, attempt, outcome, touched, held, mode, wanted, phase,
                 result, notes, arrived, baseline, evidence, stage, moves, front,
                 before, parent, headed, tries, effects, published, on, refused,
                 number, clock, streams, first, killed, owners, prior, kind>>
SnapshotNext ==
  /\ command = "snapshot" /\ G!Next
  /\ UNCHANGED <<command, forwardVars, batchVars, clipboardVars, waitVars, gestureVars,
                 notificationVars, findVars, resolveVars, activateVars, desireVars,
                 appVars, traceVars, overlayVars, inventoryVars, windowVars,
                 libraryVars, readingVars, rendererVars, selectVars, scrollVars,
                 evidenceVars, pointerVars, programVars, actVars, backlog, child,
                 answer, expired, verdict, index, at, pending, scope, want, found,
                 request, helper, attempt, outcome, touched, held, mode, wanted, phase,
                 notes, arrived, baseline, evidence, stage, moves, front, target,
                 before, shown, headed, tries, effects, coming, published, on, refused,
                 number, clock, streams, first, killed, owners, prior, report, value,
                 landing>>
ScrollNext ==
  /\ command = "scroll" /\ E!Next
  /\ UNCHANGED <<command, forwardVars, batchVars, clipboardVars, waitVars, gestureVars,
                 notificationVars, findVars, resolveVars, activateVars, desireVars,
                 appVars, traceVars, overlayVars, inventoryVars, windowVars,
                 libraryVars, readingVars, rendererVars, selectVars, snapshotVars,
                 evidenceVars, pointerVars, programVars, actVars, backlog, child,
                 answer, expired, verdict, index, pending, scope, want, found, request,
                 helper, attempt, outcome, touched, held, mode, wanted, phase, result,
                 notes, arrived, baseline, evidence, stage, moves, front, target,
                 before, parent, shown, tries, effects, published, on, refused, number,
                 clock, streams, first, killed, owners, prior, value, kind>>
EvidenceNext ==
  /\ command = "evidence" /\ J!Next
  /\ UNCHANGED <<command, forwardVars, batchVars, clipboardVars, waitVars, gestureVars,
                 notificationVars, findVars, resolveVars, activateVars, desireVars,
                 appVars, traceVars, overlayVars, inventoryVars, windowVars,
                 libraryVars, readingVars, rendererVars, selectVars, snapshotVars,
                 scrollVars, pointerVars, programVars, actVars, backlog, child, answer,
                 expired, verdict, index, at, pending, scope, want, found, request,
                 helper, outcome, touched, held, mode, wanted, phase, result, notes,
                 arrived, baseline, evidence, stage, moves, front, target, parent,
                 shown, headed, tries, effects, coming, published, on, refused, number,
                 clock, streams, first, killed, owners, prior, landing, kind>>
PointerNext ==
  /\ command = "pointer" /\ U!Next
  /\ UNCHANGED <<command, forwardVars, batchVars, clipboardVars, waitVars, gestureVars,
                 notificationVars, findVars, resolveVars, activateVars, desireVars,
                 appVars, traceVars, overlayVars, inventoryVars, windowVars,
                 libraryVars, readingVars, rendererVars, selectVars, snapshotVars,
                 scrollVars, evidenceVars, programVars, actVars, backlog, child,
                 answer, expired, verdict, index, at, pending, scope, want, found,
                 request, helper, attempt, outcome, touched, held, mode, wanted, phase,
                 result, notes, arrived, baseline, evidence, stage, front, target,
                 before, parent, shown, headed, tries, effects, coming, published, on,
                 refused, number, clock, streams, killed, owners, prior, value,
                 landing>>
ProgramNext ==
  /\ command = "program" /\ Y!Next
  /\ UNCHANGED <<command, forwardVars, batchVars, clipboardVars, waitVars, gestureVars,
                 notificationVars, findVars, resolveVars, activateVars, desireVars,
                 appVars, traceVars, overlayVars, inventoryVars, windowVars,
                 libraryVars, readingVars, rendererVars, selectVars, snapshotVars,
                 scrollVars, evidenceVars, pointerVars, actVars, backlog, answer,
                 expired, verdict, at, pending, scope, want, found, request, attempt,
                 touched, held, mode, wanted, phase, result, notes, arrived, baseline,
                 evidence, moves, front, target, before, shown, headed, tries, effects,
                 coming, published, on, number, first, owners, prior, step, value,
                 landing, kind>>
ActNext ==
  /\ command = "act" /\ Z!Next
  /\ UNCHANGED <<command, forwardVars, batchVars, clipboardVars, waitVars, gestureVars,
                 notificationVars, findVars, resolveVars, activateVars, desireVars,
                 appVars, traceVars, overlayVars, inventoryVars, windowVars,
                 libraryVars, readingVars, rendererVars, selectVars, snapshotVars,
                 scrollVars, evidenceVars, pointerVars, programVars, backlog, child,
                 expired, index, at, scope, want, found, request, helper, attempt,
                 outcome, touched, mode, wanted, phase, result, notes, arrived,
                 baseline, stage, moves, front, before, parent, shown, headed, tries,
                 effects, coming, published, on, refused, number, clock, streams,
                 first, killed, owners, report, step, value, landing, kind>>

Init == ForwardInit \/ BatchInit \/ ClipboardInit \/ WaitInit \/ GestureInit \/
        NotificationInit \/ FindInit \/ ResolveInit \/ ActivateInit \/ DesireInit \/
        AppInit \/ TraceInit \/ OverlayInit \/ InventoryInit \/ WindowInit \/
        LibraryInit \/ ReadingInit \/ RendererInit \/ SelectInit \/ SnapshotInit \/
        ScrollInit \/ EvidenceInit \/ PointerInit \/ ProgramInit \/ ActInit
Next == ForwardNext \/ BatchNext \/ ClipboardNext \/ WaitNext \/ GestureNext \/
        NotificationNext \/ FindNext \/ ResolveNext \/ ActivateNext \/ DesireNext \/
        AppNext \/ TraceNext \/ OverlayNext \/ InventoryNext \/ WindowNext \/
        LibraryNext \/ ReadingNext \/ RendererNext \/ SelectNext \/ SnapshotNext \/
        ScrollNext \/ EvidenceNext \/ PointerNext \/ ProgramNext \/ ActNext


\* The fairness of CommandHost, Waits and CursorOverlay (H!Fairness, W!Spec, O!Fairness).
hostVars == H!vars
waitingVars == W!vars
overlayingVars == O!vars
Fairness ==
  /\ \A c \in Clients :
       /\ WF_hostVars(command = "forward" /\ H!Expire(c))
       /\ WF_hostVars(command = "forward" /\ H!ClientStep(c))
  /\ WF_waitingVars(command = "wait" /\ W!DeadlinePasses)
  /\ WF_waitingVars(command = "wait" /\ W!Step)
  /\ \A h \in O!Helpers : WF_overlayingVars(command = "overlay" /\ O!HelperStep(h))
  /\ \A c \in O!Commands : WF_overlayingVars(command = "overlay" /\ O!CommandStep(c))

Spec == Init /\ [][Next]_vars /\ Fairness

-----------------------------------------------------------------------------
\* The values the state of each component takes.
TypeOK ==
  CASE command = "forward" -> H!TypeOK
    [] command = "batch" -> B!TypeOK
    [] command = "clipboard" -> C!TypeOK
    [] command = "wait" -> W!TypeOK
    [] command = "gesture" -> P!TypeOK
    [] command = "notification" -> N!TypeOK
    [] command = "find" -> L!TypeOK
    [] command = "resolve" -> R!TypeOK
    [] command = "activate" -> A!TypeOK
    [] command = "desire" -> D!TypeOK
    [] command = "app" -> K!TypeOK
    [] command = "trace" -> T!TypeOK
    [] command = "overlay" -> O!TypeOK
    [] command = "inventory" -> I!TypeOK
    [] command = "window" -> X!TypeOK
    [] command = "library" -> F!TypeOK
    [] command = "reading" -> Q!TypeOK
    [] command = "renderer" -> V!TypeOK
    [] command = "select" -> S!TypeOK
    [] command = "snapshot" -> G!TypeOK
    [] command = "scroll" -> E!TypeOK
    [] command = "evidence" -> J!TypeOK
    [] command = "pointer" -> U!TypeOK
    [] command = "program" -> Y!TypeOK
    [] command = "act" -> Z!TypeOK

\* A forwarded command runs at most once and what its client reports of it is
\* true; one host at a time listens on the socket (command_host, socket.rs).
ForwardingIsHonest == command = "forward" => H!VerdictIsHonest /\ H!OneHostListens

\* A forwarded command and a wait come back, whatever the host or the desktop
\* does, and the overlay of an ended session goes (H!ForwardEnds, W!WaitEnds,
\* O!OverlaysEnd).  The clients are alike: one stands for all.
OneClient == CHOOSE c \in Clients : TRUE
Started == CASE command = "forward" -> cpc[OneClient] # "new"
             [] command = "wait" -> phase # "new"
             [] command = "overlay" -> ~ on
             [] OTHER -> FALSE
Returned == CASE command = "forward" -> cpc[OneClient] = "done"
              [] command = "wait" -> phase = "done"
              [] command = "overlay" -> on \/ O!Shown = {}
              [] OTHER -> TRUE
CommandsEnd == Started ~> Returned

\* A wait of a batch reports what happened since the entry before it, and the
\* response accounts for every entry (batch/execution.rs).
BatchIsHonest == command = "batch" => B!EventIsReal /\ B!EffectIsNotMissed /\ B!ResponseAccounts

\* What a clipboard command reports is true of the pasteboard
\* (clipboard_transaction.rs, clipboard_helper_*.rs).
ClipboardIsHonest == command = "clipboard" => C!ClipboardIsHonest

\* A wait says "found" and "timeout" only when that is what it saw, the trace shows
\* what was done, in order, and an inventory of applications and windows only what
\* was there (commands/wait*.rs, trace_read, list_windows and list_apps).
ObservationsAreTrue == /\ command = "wait" => W!WaitAnswersTruly
                       /\ command = "trace" => T!TraceIsComplete /\ T!TraceIsInOrder /\ T!WarningsAreTrue
                       /\ command = "inventory" => I!InventoryIsTrue

\* What is read of a tree holds of it: a query selects, counts or rules out only what
\* it saw all of, down to the depth it was asked for; and so do the values and lists
\* of its nodes, the refs of a snapshot and what is known of a renderer (live_locator,
\* tree/node_*.rs, snapshot_engine.rs, renderer_accessibility.rs).
QueriesAreTrue == /\ command = "find" => L!SelectionIsTrue
                  /\ command = "reading" => Q!NodesAreReadTruly
                  /\ command = "renderer" => V!RendererIsSeen
                  /\ command = "snapshot" => G!SnapshotIsTrue
                  /\ command = "evidence" => J!EvidenceIsTrue

\* What acts on an element, or at a point, leaves no button or key down, acts on an
\* element only while it is actionable, and what it reports is true of the desktop,
\* whatever the application answers and however late it acts, and whatever the user
\* does meanwhile (mouse_drag.rs, chain*.rs, toggle_state.rs, select_dispatch.rs,
\* scroll.rs, drag.rs, actionability, post_action.rs).
\*
\* Where the code goes on, or answers, before it can know, less is claimed.  An
\* activation asks a second time only where its readings show no effect of the
\* request before, which need not mean that there is none: that it acts at most once
\* is OneEffect, which is violated (see ActivationChain).  That nothing was
\* delivered is not claimed of a right click by AXShowMenu (A!ReportIsTrue), nor of a
\* scroll whose answer was lost at the deadline or that shows after the settling
\* time (E!NotDeliveredIsTrue); each property names its cases.
ActionsAreHonest == /\ command = "gesture" => P!InputEndsClean
                    /\ command = "activate" => A!ActsAgainOnlyUnseen /\ A!ReportIsTrue
                    /\ command = "desire" => D!StateIsAsReported
                    /\ command = "select" => S!SelectionIsHonest
                    /\ command = "scroll" => E!ScrollIsHonest
                    /\ command = "pointer" => U!PointerIsHonest
                    /\ command = "act" => Z!ActionabilityIsHonest

\* What is reported of an application launched or closed, of a window that is moved or
\* brought to the front, of the overlay and of a program that is run is true; another
\* window is acted upon only by a title that no other window shown has
\* (X!OthersOnlyByTitle); no program is left behind, and no handle, string or adapter
\* of the C interface is used after it was freed (launch*.rs, app_ops.rs,
\* window_ops.rs, cursor_overlay, system/process.rs, crates/ffi).
ProgramsAreHonest == /\ command = "app" => K!LaunchIsHonest /\ K!CloseIsHonest
                     /\ command = "overlay" => O!OneOverlay /\ O!AcknowledgedEndsAreReal
                     /\ command = "window" => X!WindowsAreHonest
                     /\ command = "library" => F!BoundaryIsSound
                     /\ command = "program" => Y!SubprocessIsContained

\* Only the notifications that were meant are acted upon, what is reported as
\* dismissed is gone, and the center and the frontmost application are left as
\* they were found (notifications/actions.rs, nc_session.rs).
NotificationsAreHonest ==
  command = "notification" =>
    N!DismissalsAreReal /\ N!TouchesOnlyTheMeant /\ N!CenterLeftAsFound

\* A saved ref resolves to an element only beyond doubt, and an element that did
\* not change is never called stale (tree/resolve*.rs).
RefsResolveStrictly == command = "resolve" => R!ResolvesBeyondDoubt /\ R!UnchangedIsNotStale
=============================================================================
