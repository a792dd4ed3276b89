------------------------------ MODULE RefStore ------------------------------
(***************************************************************************)
(* The snapshot store of one namespace (the state root or one session      *)
(* directory): crates/core/src/refs_store.rs, refs_store_prune.rs,         *)
(* refs_lock.rs, refs.rs, and the callers of its write paths in            *)
(* snapshot.rs (a new snapshot) and snapshot_ref.rs (a drill-down into one *)
(* ref of a saved snapshot).                                               *)
(*                                                                         *)
(* Every write path takes the flock refstore.lock and then performs a      *)
(* series of file operations, each of which another process can observe    *)
(* and after each of which the writer can die.  A snapshot is a directory  *)
(* holding one refmap.json that is replaced by rename; a second file names *)
(* the latest snapshot.  Directories are evicted by modification time.     *)
(***************************************************************************)
EXTENDS RefMap

CONSTANTS
  Procs,       \* the processes that use the store
  NoProc,      \* the owner of a free lock
  MaxIds,      \* bound: how many snapshot directories are ever created
  MaxSaved,    \* MAX_SAVED_SNAPSHOTS
  LowWater,    \* PRUNE_LOW_WATER
  MaxClock,    \* bound: calls start only while the clock is below it
  MaxFaults    \* bound: crashes and I/O errors

ASSUME BoundsAssumption ==
  /\ MaxIds \in Nat /\ MaxClock \in Nat /\ MaxFaults \in Nat
  /\ MaxSaved \in Nat /\ LowWater \in Nat \ {0} /\ LowWater <= MaxSaved
ASSUME ProcsAssumption == NoProc \notin Procs

VARIABLES
  lock,      \* owner of the flock on refstore.lock
  pc,        \* where each process is in its call
  call,      \* the operation each process performs and its arguments
  draft,     \* the refmap each process is about to write
  victims,   \* directories each process still has to evict
  snap,      \* the readable refmap.json of each snapshot directory
  mtime,     \* modification time of each directory, 0 when there is none
  orphans,   \* directories holding the *.tmp file of a writer that died
  latest,    \* the id in the latest-snapshot file, 0 when there is none
  nextId,    \* the next fresh snapshot id
  clock,     \* file-system time
  faults     \* crashes and I/O errors so far

procVars == <<pc, call, draft, victims>>
diskVars == <<snap, mtime, orphans, latest, nextId, clock>>
vars == <<lock, procVars, diskVars, faults>>

-----------------------------------------------------------------------------
(* Snapshot directories *)

Ids == 1 .. MaxIds
Dirs == {d \in Ids : mtime[d] > 0}

Older(times, d, e) == times[d] < times[e] \/ (times[d] = times[e] /\ d < e)

\* A plausible mistake: the list is sorted the other way round.
NewestBut(keep, times, count) ==
  LET old == {d \in Ids : times[d] > 0} \ {keep}
  IN  {d \in old : Cardinality({e \in old : Older(times, d, e)}) < count}

\* The directories an eviction removes: the count oldest other than keep.
OldestBut(keep, times, count) ==
  LET old == {d \in Ids : times[d] > 0} \ {keep}
  IN  {d \in old : Cardinality({e \in old : Older(times, e, d)}) < count}

Touch(ds) ==
  /\ clock' = clock + 1
  /\ mtime' = [d \in Ids |-> IF d \in ds THEN clock + 1 ELSE mtime[d]]

-----------------------------------------------------------------------------
(* Calls.  The observation a call stores is made before the lock is taken. *)

Calls ==
  [op : {"none", "inventory"}, id : {0}, top : {NoEntry}, observed : {{}}]
    \cup [op : {"save"}, id : Ids \cup {0}, top : {NoEntry}, observed : SUBSET Nodes]
    \cup [op : {"drill"}, id : Ids, top : Entries, observed : SUBSET Nodes]
NoCall == [op |-> "none", id |-> 0, top |-> NoEntry, observed |-> {}]

Start(p, c) ==
  /\ pc[p] = "idle"
  /\ clock < MaxClock
  /\ pc' = [pc EXCEPT ![p] = "want"]
  /\ call' = [call EXCEPT ![p] = c]
  /\ UNCHANGED <<lock, draft, victims, diskVars, faults>>

BeginSave(p) ==
  \E seen \in SUBSET Nodes :
    Start(p, [op |-> "save", id |-> 0, top |-> NoEntry, observed |-> seen])

\* snapshot_ref.rs reads the map, observes the element of one entry and only
\* then takes the lock.
BeginDrill(p) ==
  \E id \in Ids :
    /\ snap[id] # NoMap
    /\ \E top \in snap[id].entries : \E seen \in SUBSET Subtree(top.node) :
         Start(p, [op |-> "drill", id |-> id, top |-> top, observed |-> seen])

BeginInventory(p) ==
  Start(p, [op |-> "inventory", id |-> 0, top |-> NoEntry, observed |-> {}])

Goto(p, label) == pc' = [pc EXCEPT ![p] = label]

Reset(p) ==
  /\ Goto(p, "idle")
  /\ call' = [call EXCEPT ![p] = NoCall]
  /\ draft' = [draft EXCEPT ![p] = NoMap]
  /\ victims' = [victims EXCEPT ![p] = {}]

Acquire(p) ==
  /\ pc[p] = "want"
  /\ lock = NoProc
  /\ lock' = p
  /\ Goto(p, "held")
  /\ UNCHANGED <<call, draft, victims, diskVars, faults>>

\* The 2 s budget, or the deadline the command inherited, ran out.
LockTimeout(p) ==
  /\ pc[p] = "want"
  /\ Reset(p)
  /\ UNCHANGED <<lock, diskVars, faults>>

\* Dropping RefStoreLock at the end of with_write_lock.
Release(p) ==
  /\ pc[p] = "done"
  /\ lock' = NoProc
  /\ Reset(p)
  /\ UNCHANGED <<diskVars, faults>>

\* A plausible mistake: the pointer moves before the map is there.
StageSavePointerFirst(p) ==
  /\ pc[p] = "held" /\ call[p].op = "save"
  /\ Fits(EmptyMap, call[p].observed) /\ nextId <= MaxIds
  /\ nextId' = nextId + 1
  /\ call' = [call EXCEPT ![p].id = nextId]
  /\ draft' = [draft EXCEPT ![p] = AllocateRefs(EmptyMap, call[p].observed, 0)]
  /\ Touch({nextId})
  /\ latest' = nextId
  /\ Goto(p, "staged")
  /\ UNCHANGED <<lock, victims, snap, orphans, faults>>

\* write_atomic creates the directory and a temporary file in it.
StageSave(p) ==
  /\ pc[p] = "held" /\ call[p].op = "save"
  /\ Fits(EmptyMap, call[p].observed) /\ nextId <= MaxIds
  /\ nextId' = nextId + 1
  /\ call' = [call EXCEPT ![p].id = nextId]
  /\ draft' = [draft EXCEPT ![p] = AllocateRefs(EmptyMap, call[p].observed, 0)]
  /\ Touch({nextId})
  /\ Goto(p, "staged")
  /\ UNCHANGED <<lock, victims, snap, orphans, latest, faults>>

\* A map over its limit is refused before anything is written.  The bound on
\* ids is treated alike.
RefuseSave(p) ==
  /\ pc[p] = "held" /\ call[p].op = "save"
  /\ ~ Fits(EmptyMap, call[p].observed) \/ nextId > MaxIds
  /\ Goto(p, "done")
  /\ UNCHANGED <<lock, call, draft, victims, diskVars, faults>>

\* A plausible mistake: the drilled entry is not compared again.
StageDrillUnchecked(p) ==
  LET c == call[p]
      pruned == RemoveByRootRef(snap[c.id], c.top)
  IN  /\ pc[p] = "held" /\ c.op = "drill"
      /\ Fits(pruned, c.observed)
      /\ draft' = [draft EXCEPT ![p] = AllocateRefs(pruned, c.observed, c.top.ref)]
      /\ Touch({c.id})
      /\ Goto(p, "staged")
      /\ UNCHANGED <<lock, call, victims, snap, orphans, latest, nextId, faults>>

\* update_existing_snapshot: reload under the lock, and go on only if the
\* drilled entry is still what the observation was made from.
StageDrill(p) ==
  LET c == call[p]
      pruned == RemoveByRootRef(snap[c.id], c.top)
  IN  /\ pc[p] = "held" /\ c.op = "drill"
      /\ c.top \in snap[c.id].entries
      /\ Fits(pruned, c.observed)
      /\ draft' = [draft EXCEPT ![p] = AllocateRefs(pruned, c.observed, c.top.ref)]
      /\ Touch({c.id})
      /\ Goto(p, "staged")
      /\ UNCHANGED <<lock, call, victims, snap, orphans, latest, nextId, faults>>

\* SNAPSHOT_NOT_FOUND, STALE_REF or a map over its limit: nothing is written.
RefuseDrill(p) ==
  LET c == call[p]
  IN  /\ pc[p] = "held" /\ c.op = "drill"
      /\ \/ c.top \notin snap[c.id].entries
         \/ ~ Fits(RemoveByRootRef(snap[c.id], c.top), c.observed)
      /\ Goto(p, "done")
      /\ UNCHANGED <<lock, call, draft, victims, diskVars, faults>>

\* retained_object_tokens only reads.
Inventory(p) ==
  /\ pc[p] = "held" /\ call[p].op = "inventory"
  /\ Goto(p, "done")
  /\ UNCHANGED <<lock, call, draft, victims, diskVars, faults>>

\* The rename in write_atomic.
Publish(p) ==
  /\ pc[p] = "staged"
  /\ snap' = [snap EXCEPT ![call[p].id] = draft[p]]
  /\ Touch({call[p].id})
  /\ Goto(p, IF call[p].op = "save" THEN "published" ELSE "done")
  /\ UNCHANGED <<lock, call, draft, victims, orphans, latest, nextId, faults>>

SetLatest(p) ==
  /\ pc[p] = "published"
  /\ latest' = call[p].id
  /\ Goto(p, "advanced")
  /\ UNCHANGED <<lock, call, draft, victims, snap, mtime, orphans, nextId, clock, faults>>

\* A plausible mistake: eviction starts one directory late.
OverCapLate == Cardinality(Dirs) > MaxSaved + 1

OverCap == Cardinality(Dirs) > MaxSaved

\* Below the cap nothing is evicted.  Above it, stale temporary files are
\* deleted from every directory first (which touches those directories), and
\* the victims are chosen by the modification times that leaves.
Prune(p) ==
  /\ pc[p] = "advanced"
  /\ IF ~ OverCap
     THEN /\ Goto(p, "done")
          /\ UNCHANGED <<victims, mtime, orphans, clock>>
     ELSE \E swept \in SUBSET orphans :
            /\ IF swept = {} THEN UNCHANGED <<mtime, clock>> ELSE Touch(swept)
            /\ orphans' = orphans \ swept
            /\ victims' = [victims EXCEPT ![p] =
                 OldestBut(call[p].id, mtime', Cardinality(Dirs) - LowWater)]
            /\ Goto(p, "evicting")
  /\ UNCHANGED <<lock, call, draft, snap, latest, nextId, faults>>

Forget(d) ==
  /\ snap' = [snap EXCEPT ![d] = NoMap]
  /\ mtime' = [mtime EXCEPT ![d] = 0]
  /\ orphans' = orphans \ {d}

\* A plausible mistake: the loop over the victims has no exit.
EvictWithoutEnd(p) ==
  /\ pc[p] = "evicting"
  /\ \E d \in victims[p] :
       /\ \A e \in victims[p] \ {d} : Older(mtime, d, e)
       /\ Forget(d)
       /\ victims' = [victims EXCEPT ![p] = @ \ {d}]
       /\ Goto(p, "evicting")
  /\ UNCHANGED <<lock, call, draft, latest, nextId, clock, faults>>

\* Removes the victims one by one, oldest first.
Evict(p) ==
  /\ pc[p] = "evicting"
  /\ \E d \in victims[p] :
       /\ \A e \in victims[p] \ {d} : Older(mtime, d, e)
       /\ Forget(d)
       /\ victims' = [victims EXCEPT ![p] = @ \ {d}]
       /\ Goto(p, IF victims[p] = {d} THEN "done" ELSE "evicting")
  /\ UNCHANGED <<lock, call, draft, latest, nextId, clock, faults>>

-----------------------------------------------------------------------------
(* Faults *)

Fault == faults < MaxFaults /\ faults' = faults + 1

\* write_atomic fails.  Its temporary file is removed; the rename either had
\* not happened or had (the directory sync failed), and the call returns the
\* error either way.
FailPublish(p) ==
  /\ pc[p] = "staged"
  /\ Fault
  /\ \E content \in {draft[p], snap[call[p].id]} :
       snap' = [snap EXCEPT ![call[p].id] = content]
  /\ Touch({call[p].id})
  /\ Goto(p, "done")
  /\ UNCHANGED <<lock, call, draft, victims, orphans, latest, nextId>>

FailSetLatest(p) ==
  /\ pc[p] = "published"
  /\ Fault
  /\ latest' \in {latest, call[p].id}
  /\ Goto(p, "done")
  /\ UNCHANGED <<lock, call, draft, victims, snap, mtime, orphans, nextId, clock>>

\* A removal that stops half way: files of the directory are gone, in any
\* order, and the directory itself remains, newly modified.
Dismantle(d) ==
  /\ snap' \in {snap, [snap EXCEPT ![d] = NoMap]}
  /\ orphans' \in {orphans, orphans \ {d}}
  /\ snap' # snap \/ d \in orphans
  /\ Touch({d})

\* remove_dir_all fails, before or after it has removed a file: the error is
\* ignored and the loop goes on to the next victim.
FailEvict(p) ==
  /\ pc[p] = "evicting"
  /\ Fault
  /\ \E d \in victims[p] :
       /\ \A e \in victims[p] \ {d} : Older(mtime, d, e)
       /\ Dismantle(d) \/ UNCHANGED <<snap, mtime, orphans, clock>>
       /\ victims' = [victims EXCEPT ![p] = @ \ {d}]
       /\ Goto(p, IF victims[p] = {d} THEN "done" ELSE "evicting")
  /\ UNCHANGED <<lock, call, draft, latest, nextId>>

\* A plausible mistake: a lock file that outlives its owner instead of a flock.
CrashKeepsLock(p) ==
  /\ pc[p] # "idle"
  /\ Fault
  /\ orphans' = IF pc[p] = "staged" THEN orphans \cup {call[p].id} ELSE orphans
  /\ Reset(p)
  /\ UNCHANGED <<lock, snap, mtime, latest, nextId, clock>>

\* The process dies.  The kernel drops its flock; a staged temporary file
\* stays behind, and a directory being removed may be half dismantled.
Crash(p) ==
  /\ pc[p] # "idle"
  /\ Fault
  /\ lock' = IF lock = p THEN NoProc ELSE lock
  /\ \/ /\ orphans' = IF pc[p] = "staged" THEN orphans \cup {call[p].id} ELSE orphans
        /\ UNCHANGED <<snap, mtime, clock>>
     \/ \E d \in victims[p] :
          /\ \A e \in victims[p] \ {d} : Older(mtime, d, e)
          /\ Dismantle(d)
  /\ Reset(p)
  /\ UNCHANGED <<latest, nextId>>

-----------------------------------------------------------------------------
Init ==
  /\ lock = NoProc
  /\ pc = [p \in Procs |-> "idle"]
  /\ call = [p \in Procs |-> NoCall]
  /\ draft = [p \in Procs |-> NoMap]
  /\ victims = [p \in Procs |-> {}]
  /\ snap = [d \in Ids |-> NoMap]
  /\ mtime = [d \in Ids |-> 0]
  /\ orphans = {}
  /\ latest = 0
  /\ nextId = 1
  /\ clock = 0
  /\ faults = 0

\* What a process does once it has started a call.
Work(p) ==
  \/ Acquire(p) \/ LockTimeout(p) \/ Release(p)
  \/ StageSave(p) \/ RefuseSave(p) \/ Publish(p) \/ SetLatest(p) \/ Prune(p) \/ Evict(p)
  \/ StageDrill(p) \/ RefuseDrill(p) \/ Inventory(p)

Begin(p) == BeginSave(p) \/ BeginDrill(p) \/ BeginInventory(p)

Break(p) == FailPublish(p) \/ FailSetLatest(p) \/ FailEvict(p) \/ Crash(p)

Next == \E p \in Procs : Begin(p) \/ Work(p) \/ Break(p)

Spec == Init /\ [][Next]_vars

\* A process that runs keeps running, and the deadline of its wait for the
\* lock passes; nothing is assumed of a process that is idle, and nothing
\* prevents it from dying.
Fairness == \A p \in Procs : WF_vars(Work(p))
FairSpec == Spec /\ Fairness
-----------------------------------------------------------------------------
(* Properties *)

\* The steps of a writer that has chosen its directory.
Writing == {"staged", "published", "advanced", "evicting"}

\* Every variable stays in its domain: ids, refs and clock values never leave
\* the ranges the code's formats allow.
TypeOK ==
  /\ lock \in Procs \cup {NoProc}
  /\ pc \in [Procs -> {"idle", "want", "held", "staged", "published",
                       "advanced", "evicting", "done"}]
  /\ call \in [Procs -> Calls]
  /\ \A p \in Procs : pc[p] \in Writing => call[p].id \in Ids
  /\ draft \in [Procs -> RefMaps \cup {NoMap}]
  /\ victims \in [Procs -> SUBSET Ids]
  /\ snap \in [Ids -> RefMaps \cup {NoMap}]
  /\ mtime \in [Ids -> Nat]
  /\ orphans \subseteq Ids
  /\ latest \in Ids \cup {0}
  /\ nextId \in 1 .. MaxIds + 1
  /\ clock \in Nat
  /\ faults \in 0 .. MaxFaults

\* The latest-snapshot pointer always names a snapshot whose map can be read,
\* whatever was interrupted: the map is renamed into place before the pointer
\* moves, and eviction spares the id it was called with even when sweeping
\* other directories has made it the oldest.
LatestReadable == latest # 0 => snap[latest] # NoMap

\* Why the pointer stays readable, step by step: the lock has one owner; what
\* the owner has staged was computed from the map that is still there; the
\* pointer names the owner's snapshot once it has moved; no victim is latest.
LockOwner == \A p \in Procs : lock = p <=> pc[p] \notin {"idle", "want"}

StagedFromCurrent(p) ==
  LET c == call[p]
  IN  pc[p] = "staged" =>
        /\ draft[p] \in RefMaps
        /\ \/ /\ c.op = "save"
              /\ snap[c.id] = NoMap /\ c.id < nextId
              /\ draft[p] = AllocateRefs(EmptyMap, c.observed, 0)
           \/ /\ c.op = "drill"
              /\ c.top \in snap[c.id].entries
              /\ draft[p] = AllocateRefs(RemoveByRootRef(snap[c.id], c.top),
                                        c.observed, c.top.ref)

VictimsSpareLatest(p) ==
  /\ pc[p] = "published" => snap[call[p].id] # NoMap
  /\ pc[p] \in {"advanced", "evicting"} => latest = call[p].id
  /\ pc[p] # "evicting" => victims[p] = {}
  /\ latest \notin victims[p]

Inv ==
  /\ TypeOK
  /\ LockOwner
  /\ \A d \in Ids : d >= nextId => snap[d] = NoMap
  /\ \A p \in Procs : StagedFromCurrent(p) /\ VictimsSpareLatest(p)
  /\ LatestReadable

\* What every map in the store satisfies, and why: an observation stays in the
\* subtree it was made of, and a save writes to the directory it has just made.
MapsInv ==
  /\ \A d \in Ids : snap[d] # NoMap => WellNumbered(snap[d]) /\ FewAliases(snap[d])
  /\ \A p \in Procs :
       /\ call[p].op = "drill" => call[p].observed \subseteq Subtree(call[p].top.node)
       /\ pc[p] = "staged" /\ call[p].op = "save" => call[p].id = nextId - 1

\* A save from the moment its directory exists until the eviction is over.
Saving(p) ==
  \/ pc[p] = "staged" /\ call[p].op = "save"
  \/ pc[p] \in {"published", "advanced", "evicting"}

\* What an eviction under way will leave, and that its victims are the oldest.
VictimsAreOldest(p) ==
  LET kept == Dirs \ victims[p]
  IN  /\ victims[p] \subseteq Dirs
      /\ Cardinality(kept) \in LowWater .. MaxSaved + faults
      /\ \A d \in victims[p] : Cardinality({e \in kept : Older(mtime, d, e)}) >= LowWater - 1

\* Maps, temporary files and staged maps are in directories that exist.
FilesInDirs ==
  /\ \A d \in Ids : snap[d] # NoMap => mtime[d] > 0
  /\ orphans \subseteq Dirs
  /\ \A p \in Procs : pc[p] = "staged" => mtime[call[p].id] > 0

\* The directory above the cap is the one of a save under way, or was paid for
\* by a fault; without faults every directory is readable or being written.
RoomInv ==
  /\ FilesInDirs
  /\ Cardinality(Dirs) <= MaxSaved + 1 + faults
  /\ (\A p \in Procs : ~ Saving(p)) => Cardinality(Dirs) <= MaxSaved + faults
  /\ \A p \in Procs : pc[p] = "evicting" => VictimsAreOldest(p)
  /\ faults = 0 =>
       \A d \in Dirs : snap[d] # NoMap \/ \E p \in Procs : pc[p] = "staged" /\ call[p].id = d

\* A writer that holds the lock and was never disturbed finds every directory
\* readable and the store within its cap, so retained_object_tokens (which
\* rejects a directory without a map, and more than the cap) cannot fail.
InventoryComplete ==
  \A p \in Procs :
    pc[p] = "held" /\ faults = 0 =>
      /\ \A d \in Dirs : snap[d] # NoMap
      /\ Cardinality(Dirs) <= MaxSaved

\* What interrupted saves leave behind is bounded: each crash or I/O error
\* costs at most one directory above the cap, until the next eviction.
LeftoversBounded == Cardinality(Dirs) <= MaxSaved + 1 + faults

\* Drill-downs of drill-downs do not make a map grow without bound: one node
\* has at most the entry of the snapshot, the drilled entry it was observed
\* through and the newest observation of it.
AliasesBounded ==
  \A d \in Ids : \A n \in Nodes :
    snap[d] # NoMap =>
      /\ Cardinality({e \in snap[d].entries : e.node = n}) <= 3
      /\ Cardinality({e \in snap[d].entries : e.node = n /\ e.root = 0}) <= 1

Changed(d) == snap[d] # NoMap /\ snap'[d] # NoMap /\ snap[d] # snap'[d]

\* A ref token (snapshot id and ref) never denotes a second element: a rewrite
\* keeps an entry as it is or drops it, numbers new entries above the old
\* counter, and an id that has left the store never comes back.
NeverRedefined ==
  [][\A d \in Ids :
       /\ Changed(d) =>
            /\ snap'[d].counter >= snap[d].counter
            /\ \A e \in snap'[d].entries \ snap[d].entries :
                 e.ref > snap[d].counter
       /\ snap[d] = NoMap /\ snap'[d] # NoMap => d = nextId - 1]_vars

\* A drill-down replaces exactly what lies at or below the drilled entry.  Two
\* drill-downs of one snapshot that observed in parallel therefore lose
\* nothing of each other's unless one element contains the other: the closure
\* runs on the map reloaded under the lock, not on the one observed from.
DrillReplacesSubtree ==
  [][\A d \in Ids :
       Changed(d) =>
         \E p \in Procs :
           LET top == call[p].top
           IN  /\ lock = p /\ call[p].id = d
               /\ top \in snap[d].entries \cap snap'[d].entries
               /\ \A e \in snap[d].entries \ snap'[d].entries :
                    e.node \in Subtree(top.node)
               /\ \A e \in snap'[d].entries :
                    e.node \in Subtree(top.node) /\ e.node > top.node
                      => e.ref > snap[d].counter]_vars

\* Eviction keeps the LowWater most recently modified directories, give or
\* take the latest one: a directory goes only while LowWater - 1 others are
\* newer, and LowWater directories always remain.
EvictsOldest ==
  [][\A d \in Dirs :
       d \notin Dirs' =>
         /\ Cardinality(Dirs') >= LowWater
         /\ Cardinality({e \in Dirs' : Older(mtime, d, e)}) >= LowWater - 1
         /\ d # latest]_vars

\* Every call ends, even when the process that holds the lock dies or keeps it
\* longer than a waiter's budget.
EveryCallEnds == \A p \in Procs : pc[p] # "idle" ~> pc[p] = "idle"

\* A process that holds the lock gives it back: no sequence of evictions and
\* I/O errors keeps a writer in its critical section.
LockIsFreed == \A p \in Procs : lock = p ~> lock # p

\* The locked read-modify-write of several file operations is atomic to every
\* other process: see SnapshotNamespace.
Abstract == INSTANCE SnapshotNamespace WITH held <- snap
ImplementsNamespace == Abstract!Spec
=============================================================================
