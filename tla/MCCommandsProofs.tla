-------------------------- MODULE MCCommandsProofs --------------------------
(***************************************************************************)
(* What CommandProofs and ActionProofs show of the components, carried     *)
(* over to the specification that the commands are checked with: a process *)
(* runs one command, and only the component of that command takes steps.   *)
(***************************************************************************)
EXTENDS MCCommands

\* A process is asked for one command.
LEMMA OneCommand ==
  ASSUME [Next]_vars
  PROVE  command' = command
BY DEF Next, ForwardNext, BatchNext, ClipboardNext, WaitNext, GestureNext,
       NotificationNext, FindNext, ResolveNext, ActivateNext, DesireNext, AppNext,
       TraceNext, OverlayNext, InventoryNext, WindowNext, LibraryNext, ReadingNext,
       RendererNext, SelectNext, SnapshotNext, ScrollNext, EvidenceNext, PointerNext,
       ProgramNext, ActNext, vars

\* It starts the component of that command.
LEMMA CommandStarts ==
  ASSUME Init
  PROVE  /\ command = "forward" => H!Init
         /\ command = "batch" => B!Init
         /\ command = "clipboard" => C!Init
         /\ command = "resolve" => R!Init
         /\ command = "notification" => N!Init
BY DEF Init, ForwardInit, BatchInit, ClipboardInit, WaitInit, GestureInit,
       NotificationInit, FindInit, ResolveInit, ActivateInit, DesireInit, AppInit,
       TraceInit, OverlayInit, InventoryInit, WindowInit, LibraryInit, ReadingInit,
       RendererInit, SelectInit, SnapshotInit, ScrollInit, EvidenceInit, PointerInit,
       ProgramInit, ActInit

\* Only that component takes steps.
LEMMA CommandSteps ==
  ASSUME [Next]_vars
  PROVE  /\ command = "forward" => [H!Next]_(H!vars)
         /\ command = "batch" => [B!Next]_(B!vars)
         /\ command = "clipboard" => [C!Next]_(C!vars)
         /\ command = "resolve" => [R!Next]_(R!vars)
         /\ command = "notification" => [N!Next]_(N!vars)
<1>1. ASSUME Next
      PROVE  /\ command = "forward" => H!Next
             /\ command = "batch" => B!Next
             /\ command = "clipboard" => C!Next
             /\ command = "resolve" => R!Next
             /\ command = "notification" => N!Next
  BY <1>1
     DEF Next, ForwardNext, BatchNext, ClipboardNext, WaitNext, GestureNext,
         NotificationNext, FindNext, ResolveNext, ActivateNext, DesireNext, AppNext,
         TraceNext, OverlayNext, InventoryNext, WindowNext, LibraryNext, ReadingNext,
         RendererNext, SelectNext, SnapshotNext, ScrollNext, EvidenceNext, PointerNext,
         ProgramNext, ActNext
<1>2. ASSUME UNCHANGED vars
      PROVE  /\ UNCHANGED H!vars /\ UNCHANGED B!vars /\ UNCHANGED C!vars
             /\ UNCHANGED R!vars /\ UNCHANGED N!vars
  BY <1>2 DEF vars, forwardVars, batchVars, clipboardVars, resolveVars, notificationVars,
              H!vars, H!fileVars, H!hostVars, H!wireVars, H!clientVars, B!vars,
              B!loopVars, B!waitVars, B!reportVars, B!deskVars, C!vars, C!boardVars,
              C!helperVars, R!vars, R!uiVars, N!vars, N!desktopVars, N!noteVars,
              N!workVars, N!reportVars
<1> QED
  BY <1>1, <1>2

\* The invariant of the component that runs.
CommandInv == /\ command = "forward" => H!HostInv
              /\ command = "batch" => B!BatchInv
              /\ command = "clipboard" => C!ClipboardInv
              /\ command = "resolve" => R!ResolveInv
              /\ command = "notification" => N!NoticeInv

\* The component that runs keeps its invariant.
THEOREM CommandInvHolds == Spec => []CommandInv
<1>1. Init => CommandInv
  BY CommandStarts, HostInvStarts, BatchInvStarts, ClipboardInvStarts, ResolveInvStarts,
     NoticeInvStarts
     DEF CommandInv
<1>2. CommandInv /\ [Next]_vars => CommandInv'
  BY OneCommand, CommandSteps, HostInvIsKept, BatchInvIsKept, ClipboardInvIsKept,
     ResolveInvIsKept, NoticeInvIsKept
     DEF CommandInv
<1> QED
  BY <1>1, <1>2, PTL DEF Spec

\* A client reports "not delivered" only of a command that has not run and never
\* will, "ran" only of one that did, and no command runs twice, whichever processes
\* are killed; of any number of hosts that start together one listens, and it keeps
\* its socket file (command_host.rs, command_host_socket.rs).
THEOREM ForwardedCommandsAreHonest == Spec => []ForwardingIsHonest
<1>1. CommandInv => ForwardingIsHonest
  BY DEF CommandInv, ForwardingIsHonest, H!HostInv, H!AnsweredTruly, H!LockIsKept,
         H!Listening, H!VerdictIsHonest, H!OneHostListens
<1> QED
  BY <1>1, CommandInvHolds, PTL

\* A wait in a batch reports only what happened since its baseline, it misses no
\* window that the command before it opened, and the response of the batch accounts
\* for the entries that were dispatched, however the batch ends (batch/execution.rs).
THEOREM BatchesAreHonest == Spec => []BatchIsHonest
<1>1. CommandInv => BatchIsHonest
  BY BatchInvSuffices DEF CommandInv, BatchIsHonest
<1> QED
  BY <1>1, CommandInvHolds, PTL

\* What a clipboard command reports is true of the pasteboard, whatever other
\* applications do and whenever the helper dies (clipboard_transaction.rs).
THEOREM ClipboardCommandsAreHonest == Spec => []ClipboardIsHonest
<1>1. CommandInv => ClipboardIsHonest
  BY DEF CommandInv, ClipboardIsHonest, C!ClipboardInv
<1> QED
  BY <1>1, CommandInvHolds, PTL

\* A saved reference resolves to an element that is beyond doubt the one that was
\* saved, or to none: not to one of two that look alike, nor to what a process shows
\* that was given the process number before the resolution began; and an element that
\* has not changed is not called stale, whatever becomes of the application
\* meanwhile (resolve_search.rs, resolve_classify.rs).
THEOREM SavedReferencesResolveStrictly == Spec => []RefsResolveStrictly
<1>1. CommandInv => RefsResolveStrictly
  BY DEF CommandInv, RefsResolveStrictly, R!ResolveInv
<1> QED
  BY <1>1, CommandInvHolds, PTL

\* A command on notifications that reports success leaves Notification Center and
\* the front application as it found them, reports no more notifications of a kind
\* as dismissed than are gone, and acts upon what was meant alone
\* (notifications/nc_session.rs, notifications/actions.rs).
THEOREM NotificationCommandsAreHonest == Spec => []NotificationsAreHonest
<1>1. CommandInv => NotificationsAreHonest
  BY NoticeInvSuffices DEF CommandInv, NotificationsAreHonest
<1> QED
  BY <1>1, CommandInvHolds, PTL

-----------------------------------------------------------------------------
(* The commands that act on the desktop *)

LEMMA ActionStarts ==
  ASSUME Init
  PROVE  /\ command = "gesture" => P!Init
         /\ command = "activate" => A!Init
         /\ command = "desire" => D!Init
         /\ command = "app" => K!Init
         /\ command = "overlay" => O!Init
         /\ command = "window" => X!Init
         /\ command = "library" => F!Init
         /\ command = "select" => S!Init
         /\ command = "scroll" => E!Init
         /\ command = "pointer" => U!Init
         /\ command = "program" => Y!Init
         /\ command = "act" => Z!Init
BY DEF Init, ForwardInit, BatchInit, ClipboardInit, WaitInit, GestureInit,
       NotificationInit, FindInit, ResolveInit, ActivateInit, DesireInit, AppInit,
       TraceInit, OverlayInit, InventoryInit, WindowInit, LibraryInit, ReadingInit,
       RendererInit, SelectInit, SnapshotInit, ScrollInit, EvidenceInit, PointerInit,
       ProgramInit, ActInit

LEMMA ActionSteps ==
  ASSUME [Next]_vars
  PROVE  /\ command = "gesture" => [P!Next]_(P!inputVars)
         /\ command = "activate" => [A!Next]_(A!chainVars)
         /\ command = "desire" => [D!Next]_(D!desiredVars)
         /\ command = "app" => [K!Next]_(K!appVars)
         /\ command = "overlay" => [O!Next]_(O!vars)
         /\ command = "window" => [X!Next]_(X!vars)
         /\ command = "library" => [F!Next]_(F!vars)
         /\ command = "select" => [S!Next]_(S!vars)
         /\ command = "scroll" => [E!Next]_(E!vars)
         /\ command = "pointer" => [U!Next]_(U!vars)
         /\ command = "program" => [Y!Next]_(Y!vars)
         /\ command = "act" => [Z!Next]_(Z!vars)
<1>1. ASSUME Next
      PROVE  /\ command = "gesture" => P!Next
             /\ command = "activate" => A!Next
             /\ command = "desire" => D!Next
             /\ command = "app" => K!Next
             /\ command = "overlay" => O!Next
             /\ command = "window" => X!Next
             /\ command = "library" => F!Next
             /\ command = "select" => S!Next
             /\ command = "scroll" => E!Next
             /\ command = "pointer" => U!Next
             /\ command = "program" => Y!Next
             /\ command = "act" => Z!Next
  BY <1>1
     DEF Next, ForwardNext, BatchNext, ClipboardNext, WaitNext, GestureNext,
         NotificationNext, FindNext, ResolveNext, ActivateNext, DesireNext, AppNext,
         TraceNext, OverlayNext, InventoryNext, WindowNext, LibraryNext, ReadingNext,
         RendererNext, SelectNext, SnapshotNext, ScrollNext, EvidenceNext, PointerNext,
         ProgramNext, ActNext
<1>2. ASSUME UNCHANGED vars
      PROVE  /\ UNCHANGED P!inputVars
             /\ UNCHANGED A!chainVars
             /\ UNCHANGED D!desiredVars
             /\ UNCHANGED K!appVars
             /\ UNCHANGED O!vars
             /\ UNCHANGED X!vars
             /\ UNCHANGED F!vars
             /\ UNCHANGED S!vars
             /\ UNCHANGED E!vars
             /\ UNCHANGED U!vars
             /\ UNCHANGED Y!vars
             /\ UNCHANGED Z!vars
  BY <1>2 DEF vars, gestureVars, activateVars, desireVars, appVars, overlayVars, windowVars,
              libraryVars, selectVars, scrollVars, pointerVars, programVars, actVars,
              P!inputVars, P!plan, P!progress, P!button, P!count, A!chainVars, A!given,
              A!position, A!world, A!seen, D!desiredVars, D!target, D!control, D!tried,
              K!appVars, K!call, K!instances, K!choice, K!launched, K!look, O!vars,
              O!overlayVars, O!commandVars, X!vars, X!choiceVars, X!deskVars, F!vars,
              F!adapterVars, F!handleVars, F!stringVars, F!errorVars, S!vars,
              S!controlVars, E!vars, E!callVars, E!contentVars, U!vars, U!callVars,
              U!elementVars, U!lookVars, Y!vars, Y!running, Y!cleanup, Y!capture,
              Y!prompts, Z!vars, Z!looking, Z!acting
<1> QED
  BY <1>1, <1>2

\* The invariant of the component that runs.
ActionInv == /\ command = "gesture" => P!GestureInv
             /\ command = "activate" => A!ChainInv
             /\ command = "desire" => D!DesireInv
             /\ command = "app" => K!AppInv
             /\ command = "overlay" => O!OverlayInv
             /\ command = "window" => X!WindowInv
             /\ command = "library" => F!BoundaryInv
             /\ command = "select" => S!SelectInv
             /\ command = "scroll" => E!ScrollInv
             /\ command = "pointer" => U!PointerInv
             /\ command = "program" => Y!RunInv
             /\ command = "act" => Z!ActInv

\* The component that runs keeps its invariant.
THEOREM ActionInvHolds == Spec => []ActionInv
<1>1. Init => ActionInv
  BY ActionStarts, GestureInvStarts, ChainInvStarts, DesireInvStarts, AppInvStarts, OverlayInvStarts,
     WindowInvStarts, BoundaryInvStarts, SelectInvStarts, ScrollInvStarts,
     PointerInvStarts, RunInvStarts, ActInvStarts
     DEF ActionInv
<1>2. ActionInv /\ [Next]_vars => ActionInv'
  BY OneCommand, ActionSteps,
     GestureInvIsKept, ChainInvIsKept, DesireInvIsKept, AppInvIsKept, OverlayInvIsKept,
     WindowInvIsKept, BoundaryInvIsKept, SelectInvIsKept, ScrollInvIsKept,
     PointerInvIsKept, RunInvIsKept, ActInvIsKept
     DEF ActionInv
<1> QED
  BY <1>1, <1>2, PTL DEF Spec

\* For any number of units, attempts and reads, and of changes of the desktop: a
\* gesture leaves no button or key down; an activation asks again only where its
\* readings show no effect of what it asked before, and what it reports is true, but
\* that a menu was not shown after AXShowMenu; a control has the state that is
\* reported; a value is reported as selected when it is; content scrolls as reported
\* and never too far, and what is said not to be delivered has no effect unless an
\* answer was lost at the deadline or the content shows after the settling time; the
\* pointer acts where the element was seen and found still; and an element that is
\* acted upon passed its checks (PhysicalInput, ActivationChain, DesiredState,
\* SelectValue, ScrollAction, PointerAction and Actionability name the code).
THEOREM ElementActionsAreHonest == Spec => []ActionsAreHonest
<1>1. ActionInv => ActionsAreHonest
  BY PointerInvSuffices
     DEF ActionInv, ActionsAreHonest, P!GestureInv, A!ChainInv, D!DesireInv, S!SelectInv,
         E!ScrollInv, Z!ActInv
<1> QED
  BY <1>1, ActionInvHolds, PTL

\* For any number of applications, helpers, adapters and calls: an application is the
\* one that was launched or closed, one overlay shows and an acknowledged end is real,
\* what is reported of a window is so, and another window is touched only through a
\* title that it alone shows, a handle and a string of the library outlive their uses,
\* and a program leaves no group behind (AppLifecycle, CursorOverlay, WindowOps,
\* FfiBoundary and Subprocess name the code).
THEOREM ProgramsStayHonest == Spec => []ProgramsAreHonest
<1>1. ActionInv => ProgramsAreHonest
  BY OverlayInvSuffices, BoundaryInvSuffices, RunInvSuffices
     DEF ActionInv, ProgramsAreHonest, K!AppInv, X!WindowInv
<1> QED
  BY <1>1, ActionInvHolds, PTL
=============================================================================
