----------------------- MODULE SessionLifecycleProofs -----------------------
(***************************************************************************)
(* However many processes share a session, the lock in its directory keeps *)
(* leases and removals apart until it is unlinked: Inv is inductive.       *)
(* One lemma per action; each has a step per conjunct of Inv.              *)
(***************************************************************************)
EXTENDS SessionLifecycle, TLAPS

\* Who opens refstore.lock where there is none creates it, and the directory.
LEMMA OpenKeepsType ==
  ASSUME Inv, NEW p \in Procs, OpenLock(p)
  PROVE  TypeOK'
<1> USE SessionAssumption DEF Inv
<1>1. /\ pc[p] = "opening" /\ pc' = [pc EXCEPT ![p] = "waiting"]
      /\ file' \in [Procs -> 0 .. files'] /\ files' \in 0 .. MaxFiles /\ lockFile' \in 0 .. files'
  BY DEF TypeOK, OpenLock, OpenLockFile, Goto
<1>2. UNCHANGED <<started, rest, recent, young, split, manifest, locking, op, seen, leases, faults>>
  BY Zenon DEF OpenLock
<1>3. tree' = tree \/ tree' = TRUE
  BY Zenon DEF OpenLock, OpenLockFile
<1>4. /\ started' \in BOOLEAN /\ tree' \in BOOLEAN /\ rest' \in BOOLEAN
      /\ recent' \in BOOLEAN /\ young' \in BOOLEAN /\ split' \in BOOLEAN
  BY Zenon, <1>2, <1>3 DEF TypeOK
<1>5. locking' = {q \in Procs : pc'[q] \in Locked}
  BY <1>1, <1>2 DEF TypeOK, Locked
<1>6. leases' \subseteq {q \in Procs : pc'[q] \in {"ready", "rewriting", "sealing", "leaving"}}
  BY <1>1, <1>2 DEF TypeOK
<1> QED
  BY <1>1, <1>2, <1>4, <1>5, <1>6 DEF TypeOK

\* Removing what a session holds changes no process.
LEMMA RemoveRestKeepsType ==
  ASSUME Inv, NEW p \in Procs, RemoveRest(p)
  PROVE  TypeOK'
<1>1. /\ rest' = FALSE /\ recent' = FALSE
      /\ UNCHANGED <<started, tree, young, split, manifest, files, lockFile, file, locking,
                     pc, op, seen, leases, faults>>
  BY Zenon DEF RemoveRest, lockVars, procVars
<1>2. /\ started' \in BOOLEAN /\ tree' \in BOOLEAN /\ rest' \in BOOLEAN
      /\ recent' \in BOOLEAN /\ young' \in BOOLEAN /\ split' \in BOOLEAN
  BY Zenon, <1>1 DEF Inv, TypeOK
<1> QED
  BY <1>1, <1>2 DEF Inv, TypeOK

\* The collector ends with the directory and its lock.
LEMMA RemoveTreeKeepsType ==
  ASSUME Inv, NEW p \in Procs, RemoveTree(p)
  PROVE  TypeOK'
<1> USE DEF Inv
<1>1. /\ pc[p] = "removing" /\ pc' = [pc EXCEPT ![p] = "leaving"]
      /\ file' = [file EXCEPT ![p] = 0] /\ locking' = locking \ {p}
      /\ tree' = FALSE
      /\ UNCHANGED <<started, rest, recent, young, split, manifest, files, lockFile, op, seen,
                     leases, faults>>
  BY Zenon DEF RemoveTree, Unlock, Goto
<1>2. /\ started' \in BOOLEAN /\ tree' \in BOOLEAN /\ rest' \in BOOLEAN
      /\ recent' \in BOOLEAN /\ young' \in BOOLEAN /\ split' \in BOOLEAN
  BY Zenon, <1>1 DEF TypeOK
<1>3. locking' = {q \in Procs : pc'[q] \in Locked}
  BY <1>1 DEF TypeOK, Locked
<1>4. leases' \subseteq {q \in Procs : pc'[q] \in {"ready", "rewriting", "sealing", "leaving"}}
  BY <1>1 DEF TypeOK
<1> QED
  BY <1>1, <1>2, <1>3, <1>4 DEF TypeOK

\* Nobody else is at work when a session starts.
LEMMA BeginStartKeepsInv ==
  ASSUME Inv, NEW p \in Procs, BeginStart(p)
  PROVE  Inv'
<1> USE DEF Inv
<1>1. /\ \A q \in Procs : op[q] = "none"
      /\ op' = [op EXCEPT ![p] = "start"]
      /\ pc' = [pc EXCEPT ![p] = "starting"]
      /\ UNCHANGED <<started, rest, recent, young, split, manifest, lockFile, files, file, locking, seen, leases, faults>>
  BY Zenon DEF BeginStart, Goto, lockVars
<1>2. ~ started /\ tree' = TRUE
  BY DEF BeginStart
<1>3. manifest = "none"
  BY DEF BeginStart, TreeInv
<1>4. \A q \in Procs : pc[q] = "idle"
  BY <1>1 DEF OpsInv
<1>5. TypeOK'
  <2>1. /\ started' \in BOOLEAN /\ tree' \in BOOLEAN /\ rest' \in BOOLEAN
        /\ recent' \in BOOLEAN /\ young' \in BOOLEAN /\ split' \in BOOLEAN
    BY Zenon, <1>1, <1>2 DEF TypeOK
  <2>2. locking' = {q \in Procs : pc'[q] \in Locked}
    BY <1>1, <1>4 DEF TypeOK, Locked
  <2>3. leases' \subseteq {q \in Procs : pc'[q] \in {"ready", "rewriting", "sealing", "leaving"}}
    BY <1>1, <1>4 DEF TypeOK
  <2> QED
    BY <1>1, <2>1, <2>2, <2>3 DEF TypeOK
<1>6. FilesInv'
  BY <1>1, <1>4 DEF TypeOK, FilesInv, Locked
<1>7. MutexInv' /\ TreeInv'
  BY <1>1, <1>2 DEF MutexInv, TreeInv
<1>8. OpsInv'
  BY <1>1, <1>4 DEF TypeOK, OpsInv, Operations, Collectors
<1>9. StartInv'
  BY <1>1, <1>2, <1>3, <1>4 DEF TypeOK, StartInv, Operations, Collectors
<1>10. WholeInv'
  BY <1>1, <1>2, <1>3, <1>4 DEF TypeOK, WholeInv, NeverReapsLive, Operations
<1> QED
  BY <1>5, <1>6, <1>7, <1>8, <1>9, <1>10

LEMMA StartManifestKeepsInv ==
  ASSUME Inv, NEW p \in Procs, StartManifest(p)
  PROVE  Inv'
<1> USE DEF Inv
<1>1. TypeOK'
  BY SessionAssumption DEF TypeOK, StartManifest, Manifests, Operations, Collectors,
     Locked, Goto, lockVars
<1>2. FilesInv'
  BY DEF FilesInv, TypeOK, StartManifest, Locked, Goto, lockVars
<1>3. MutexInv'
  BY DEF MutexInv, TypeOK, FilesInv, StartManifest, Locked, Goto, lockVars
<1>4. OpsInv'
  BY DEF OpsInv, TypeOK, StartManifest, Collectors, Operations, Goto, lockVars
<1>5. StartInv'
  BY DEF StartInv, TypeOK, OpsInv, StartManifest, Collectors, Operations, Goto,
     lockVars
<1>6. TreeInv'
  BY DEF TreeInv, TypeOK, StartManifest, Goto, lockVars
<1>7. WholeInv'
  BY DEF WholeInv, TypeOK, FilesInv, MutexInv, OpsInv, StartInv, TreeInv,
     StartManifest, NeverReapsLive, Operations, Locked, Collectors, Goto, lockVars
<1> QED
  BY <1>1, <1>2, <1>3, <1>4, <1>5, <1>6, <1>7

LEMMA BeginKeepsInv ==
  ASSUME Inv, NEW p \in Procs, Begin(p)
  PROVE  Inv'
<1> USE DEF Inv
<1>1. TypeOK'
  BY SessionAssumption DEF TypeOK, Begin, Manifests, Operations, Collectors, Locked,
     Goto, sessionVars, lockVars
<1>2. FilesInv'
  BY DEF FilesInv, TypeOK, Begin, Locked, Operations, Goto, sessionVars, lockVars
<1>3. MutexInv'
  BY DEF MutexInv, TypeOK, FilesInv, Begin, Locked, Operations, Goto, sessionVars,
     lockVars
<1>4. OpsInv'
  BY DEF OpsInv, TypeOK, Begin, Collectors, Operations, Goto, sessionVars, lockVars
<1>5. StartInv'
  BY DEF StartInv, TypeOK, OpsInv, Begin, Collectors, Operations, Goto, sessionVars,
     lockVars
<1>6. TreeInv'
  BY DEF TreeInv, TypeOK, Begin, Operations, Goto, sessionVars, lockVars
<1>7. WholeInv'
  BY DEF WholeInv, TypeOK, FilesInv, MutexInv, OpsInv, StartInv, TreeInv, Begin,
     NeverReapsLive, Operations, Locked, Collectors, Goto, sessionVars, lockVars
<1> QED
  BY <1>1, <1>2, <1>3, <1>4, <1>5, <1>6, <1>7

LEMMA EnterKeepsInv ==
  ASSUME Inv, NEW p \in Procs, Enter(p)
  PROVE  Inv'
<1> USE DEF Inv
<1>1. TypeOK'
  BY SessionAssumption DEF TypeOK, Enter, Manifests, Operations, Collectors, Locked,
     Goto, sessionVars, lockVars
<1>2. FilesInv'
  BY DEF FilesInv, TypeOK, Enter, Locked, Goto, sessionVars, lockVars
<1>3. MutexInv'
  BY DEF MutexInv, TypeOK, FilesInv, Enter, Locked, Goto, sessionVars, lockVars
<1>4. OpsInv'
  BY DEF OpsInv, TypeOK, Enter, Collectors, Operations, Goto, sessionVars, lockVars
<1>5. StartInv'
  BY DEF StartInv, TypeOK, OpsInv, Enter, Collectors, Operations, Goto, sessionVars,
     lockVars
<1>6. TreeInv'
  BY DEF TreeInv, TypeOK, Enter, Goto, sessionVars, lockVars
<1>7. WholeInv'
  BY DEF WholeInv, TypeOK, FilesInv, MutexInv, OpsInv, StartInv, TreeInv, Enter,
     NeverReapsLive, Operations, Locked, Collectors, Goto, sessionVars, lockVars
<1> QED
  BY <1>1, <1>2, <1>3, <1>4, <1>5, <1>6, <1>7

LEMMA OpenLockKeepsInv ==
  ASSUME Inv, NEW p \in Procs, OpenLock(p)
  PROVE  Inv'
<1> USE DEF Inv
<1>1. TypeOK'
  BY OpenKeepsType
<1>2. FilesInv'
  BY DEF FilesInv, TypeOK, OpenLock, Locked, OpenLockFile, Goto
<1>3. MutexInv'
  BY DEF MutexInv, TypeOK, FilesInv, OpenLock, Locked, OpenLockFile, Goto
<1>4. OpsInv'
  BY DEF OpsInv, TypeOK, OpenLock, Collectors, Operations, OpenLockFile, Goto
<1>5. StartInv'
  BY DEF StartInv, TypeOK, OpsInv, OpenLock, Collectors, Operations, OpenLockFile,
     Goto
<1>6. TreeInv'
  BY DEF TreeInv, TypeOK, OpenLock, OpenLockFile, Goto
<1>7. WholeInv'
  BY DEF WholeInv, TypeOK, FilesInv, MutexInv, OpsInv, StartInv, TreeInv, OpenLock,
     NeverReapsLive, Operations, Locked, Collectors, OpenLockFile, Goto
<1> QED
  BY <1>1, <1>2, <1>3, <1>4, <1>5, <1>6, <1>7

LEMMA LockKeepsInv ==
  ASSUME Inv, NEW p \in Procs, Lock(p)
  PROVE  Inv'
<1> USE DEF Inv
<1>1. TypeOK'
  BY SessionAssumption DEF TypeOK, Lock, Manifests, Operations, Collectors, Locked,
     Goto, sessionVars
<1>2. FilesInv'
  BY DEF FilesInv, TypeOK, Lock, Locked, Goto, Collectors, sessionVars
<1>3. MutexInv'
  BY DEF MutexInv, TypeOK, FilesInv, Lock, Locked, Goto, Collectors, sessionVars
<1>4. OpsInv'
  BY DEF OpsInv, TypeOK, Lock, Collectors, Operations, Goto, sessionVars
<1>5. StartInv'
  BY DEF StartInv, TypeOK, OpsInv, Lock, Collectors, Operations, Goto, sessionVars
<1>6. TreeInv'
  BY DEF TreeInv, TypeOK, Lock, Goto, Collectors, sessionVars
<1>7. WholeInv'
  BY DEF WholeInv, TypeOK, FilesInv, MutexInv, OpsInv, StartInv, TreeInv, Lock,
     NeverReapsLive, Operations, Locked, Collectors, Goto, sessionVars
<1> QED
  BY <1>1, <1>2, <1>3, <1>4, <1>5, <1>6, <1>7

LEMMA LockTimeoutKeepsInv ==
  ASSUME Inv, NEW p \in Procs, LockTimeout(p)
  PROVE  Inv'
<1> USE DEF Inv
<1>1. TypeOK'
  BY SessionAssumption DEF TypeOK, LockTimeout, Manifests, Operations, Collectors,
     Locked, Unlock, Goto, sessionVars
<1>2. FilesInv'
  BY DEF FilesInv, TypeOK, LockTimeout, Locked, Unlock, Goto, sessionVars
<1>3. MutexInv'
  BY DEF MutexInv, TypeOK, FilesInv, LockTimeout, Locked, Unlock, Goto, sessionVars
<1>4. OpsInv'
  BY DEF OpsInv, TypeOK, LockTimeout, Collectors, Operations, Unlock, Goto,
     sessionVars
<1>5. StartInv'
  BY DEF StartInv, TypeOK, OpsInv, LockTimeout, Collectors, Operations, Unlock,
     Goto, sessionVars
<1>6. TreeInv'
  BY DEF TreeInv, TypeOK, LockTimeout, Unlock, Goto, sessionVars
<1>7. WholeInv'
  BY DEF WholeInv, TypeOK, FilesInv, MutexInv, OpsInv, StartInv, TreeInv,
     LockTimeout, NeverReapsLive, Operations, Locked, Collectors, Unlock, Goto,
     sessionVars
<1> QED
  BY <1>1, <1>2, <1>3, <1>4, <1>5, <1>6, <1>7

LEMMA JoinKeepsInv ==
  ASSUME Inv, NEW p \in Procs, Join(p)
  PROVE  Inv'
<1> USE DEF Inv
<1>1. TypeOK'
  BY SessionAssumption DEF TypeOK, Join, Manifests, Operations, Collectors, Locked,
     Unlock, Goto, sessionVars
<1>2. FilesInv'
  BY DEF FilesInv, TypeOK, Join, Locked, Unlock, Goto, sessionVars
<1>3. MutexInv'
  BY DEF MutexInv, TypeOK, FilesInv, Join, Locked, Unlock, Goto, sessionVars
<1>4. OpsInv'
  BY DEF OpsInv, TypeOK, Join, Collectors, Operations, Unlock, Goto, sessionVars
<1>5. StartInv'
  BY DEF StartInv, TypeOK, OpsInv, Join, Collectors, Operations, Unlock, Goto,
     sessionVars
<1>6. TreeInv'
  BY DEF TreeInv, TypeOK, Join, Unlock, Goto, sessionVars
<1>7. WholeInv'
  BY DEF WholeInv, TypeOK, FilesInv, MutexInv, OpsInv, StartInv, TreeInv, Join,
     NeverReapsLive, Operations, Locked, Collectors, Unlock, Goto, sessionVars
<1> QED
  BY <1>1, <1>2, <1>3, <1>4, <1>5, <1>6, <1>7

LEMMA UseKeepsInv ==
  ASSUME Inv, NEW p \in Procs, Use(p)
  PROVE  Inv'
<1> USE DEF Inv
<1>1. TypeOK'
  BY SessionAssumption DEF TypeOK, Use, Manifests, Operations, Collectors, Locked,
     lockVars, procVars
<1>2. FilesInv'
  BY DEF FilesInv, TypeOK, Use, Locked, lockVars, procVars
<1>3. MutexInv'
  BY DEF MutexInv, TypeOK, FilesInv, Use, Locked, lockVars, procVars
<1>4. OpsInv'
  BY DEF OpsInv, TypeOK, Use, Collectors, Operations, lockVars, procVars
<1>5. StartInv'
  BY DEF StartInv, TypeOK, OpsInv, Use, Collectors, Operations, lockVars, procVars
<1>6. TreeInv'
  BY DEF TreeInv, TypeOK, Use, lockVars, procVars
<1>7. WholeInv'
  BY DEF WholeInv, TypeOK, FilesInv, MutexInv, OpsInv, StartInv, TreeInv, Use,
     NeverReapsLive, Operations, Locked, Collectors, lockVars, procVars
<1> QED
  BY <1>1, <1>2, <1>3, <1>4, <1>5, <1>6, <1>7

LEMMA ReadSettingsKeepsInv ==
  ASSUME Inv, NEW p \in Procs, ReadSettings(p)
  PROVE  Inv'
<1> USE DEF Inv
<1>1. TypeOK'
  BY SessionAssumption DEF TypeOK, ReadSettings, Manifests, Operations, Collectors,
     Locked, Goto, sessionVars, lockVars
<1>2. FilesInv'
  BY DEF FilesInv, TypeOK, ReadSettings, Locked, Goto, sessionVars, lockVars
<1>3. MutexInv'
  BY DEF MutexInv, TypeOK, FilesInv, ReadSettings, Locked, Goto, sessionVars,
     lockVars
<1>4. OpsInv'
  BY DEF OpsInv, TypeOK, ReadSettings, Collectors, Operations, Goto, sessionVars,
     lockVars
<1>5. StartInv'
  BY DEF StartInv, TypeOK, OpsInv, ReadSettings, Collectors, Operations, Goto,
     sessionVars, lockVars
<1>6. TreeInv'
  BY DEF TreeInv, TypeOK, ReadSettings, Goto, sessionVars, lockVars
<1>7. WholeInv'
  BY DEF WholeInv, TypeOK, FilesInv, MutexInv, OpsInv, StartInv, TreeInv,
     ReadSettings, NeverReapsLive, Operations, Locked, Collectors, Goto,
     sessionVars, lockVars
<1> QED
  BY <1>1, <1>2, <1>3, <1>4, <1>5, <1>6, <1>7

LEMMA WriteSettingsKeepsInv ==
  ASSUME Inv, NEW p \in Procs, WriteSettings(p)
  PROVE  Inv'
<1> USE DEF Inv
<1>1. TypeOK'
  BY SessionAssumption DEF TypeOK, WriteSettings, Manifests, Operations, Collectors,
     Locked, Goto, lockVars
<1>2. FilesInv'
  BY DEF FilesInv, TypeOK, WriteSettings, Locked, Goto, lockVars
<1>3. MutexInv'
  BY DEF MutexInv, TypeOK, FilesInv, WriteSettings, Locked, Goto, lockVars
<1>4. OpsInv'
  BY DEF OpsInv, TypeOK, WriteSettings, Collectors, Operations, Goto, lockVars
<1>5. StartInv'
  BY DEF StartInv, TypeOK, OpsInv, WriteSettings, Collectors, Operations, Goto,
     lockVars
<1>6. TreeInv'
  BY DEF TreeInv, TypeOK, WriteSettings, Goto, lockVars
<1>7. WholeInv'
  BY DEF WholeInv, TypeOK, FilesInv, MutexInv, OpsInv, StartInv, TreeInv,
     WriteSettings, NeverReapsLive, Operations, Locked, Collectors, Goto, lockVars
<1> QED
  BY <1>1, <1>2, <1>3, <1>4, <1>5, <1>6, <1>7

LEMMA ReadEndKeepsInv ==
  ASSUME Inv, NEW p \in Procs, ReadEnd(p)
  PROVE  Inv'
<1> USE DEF Inv
<1>1. TypeOK'
  BY SessionAssumption DEF TypeOK, ReadEnd, Manifests, Operations, Collectors,
     Locked, Goto, sessionVars, lockVars
<1>2. FilesInv'
  BY DEF FilesInv, TypeOK, ReadEnd, Locked, Goto, sessionVars, lockVars
<1>3. MutexInv'
  BY DEF MutexInv, TypeOK, FilesInv, ReadEnd, Locked, Goto, sessionVars, lockVars
<1>4. OpsInv'
  BY DEF OpsInv, TypeOK, ReadEnd, Collectors, Operations, Goto, sessionVars,
     lockVars
<1>5. StartInv'
  BY DEF StartInv, TypeOK, OpsInv, ReadEnd, Collectors, Operations, Goto,
     sessionVars, lockVars
<1>6. TreeInv'
  BY DEF TreeInv, TypeOK, ReadEnd, Goto, sessionVars, lockVars
<1>7. WholeInv'
  BY DEF WholeInv, TypeOK, FilesInv, MutexInv, OpsInv, StartInv, TreeInv, ReadEnd,
     NeverReapsLive, Operations, Locked, Collectors, Goto, sessionVars, lockVars
<1> QED
  BY <1>1, <1>2, <1>3, <1>4, <1>5, <1>6, <1>7

LEMMA SealKeepsInv ==
  ASSUME Inv, NEW p \in Procs, Seal(p)
  PROVE  Inv'
<1> USE DEF Inv
<1>1. TypeOK'
  BY SessionAssumption DEF TypeOK, Seal, Manifests, Operations, Collectors, Locked,
     Goto, lockVars
<1>2. FilesInv'
  BY DEF FilesInv, TypeOK, Seal, Locked, Goto, lockVars
<1>3. MutexInv'
  BY DEF MutexInv, TypeOK, FilesInv, Seal, Locked, Goto, lockVars
<1>4. OpsInv'
  BY DEF OpsInv, TypeOK, Seal, Collectors, Operations, Goto, lockVars
<1>5. StartInv'
  BY DEF StartInv, TypeOK, OpsInv, Seal, Collectors, Operations, Goto, lockVars
<1>6. TreeInv'
  BY DEF TreeInv, TypeOK, Seal, Goto, lockVars
<1>7. WholeInv'
  BY DEF WholeInv, TypeOK, FilesInv, MutexInv, OpsInv, StartInv, TreeInv, Seal,
     NeverReapsLive, Operations, Locked, Collectors, Goto, lockVars
<1> QED
  BY <1>1, <1>2, <1>3, <1>4, <1>5, <1>6, <1>7

LEMMA LeaveKeepsInv ==
  ASSUME Inv, NEW p \in Procs, Leave(p)
  PROVE  Inv'
<1> USE DEF Inv
<1>1. TypeOK'
  BY SessionAssumption DEF TypeOK, Leave, Manifests, Operations, Collectors, Locked,
     Goto, sessionVars, lockVars
<1>2. FilesInv'
  BY DEF FilesInv, TypeOK, Leave, Locked, Goto, sessionVars, lockVars
<1>3. MutexInv'
  BY DEF MutexInv, TypeOK, FilesInv, Leave, Locked, Goto, sessionVars, lockVars
<1>4. OpsInv'
  BY DEF OpsInv, TypeOK, Leave, Collectors, Operations, Goto, sessionVars, lockVars
<1>5. StartInv'
  BY DEF StartInv, TypeOK, OpsInv, Leave, Collectors, Operations, Goto, sessionVars,
     lockVars
<1>6. TreeInv'
  BY DEF TreeInv, TypeOK, Leave, Goto, sessionVars, lockVars
<1>7. WholeInv'
  BY DEF WholeInv, TypeOK, FilesInv, MutexInv, OpsInv, StartInv, TreeInv, Leave,
     NeverReapsLive, Operations, Locked, Collectors, Goto, sessionVars, lockVars
<1> QED
  BY <1>1, <1>2, <1>3, <1>4, <1>5, <1>6, <1>7

LEMMA BeginGcKeepsInv ==
  ASSUME Inv, NEW p \in Procs, BeginGc(p)
  PROVE  Inv'
<1> USE DEF Inv
<1>1. TypeOK'
  BY SessionAssumption DEF TypeOK, BeginGc, Manifests, Operations, Collectors,
     Locked, Goto, sessionVars, lockVars
<1>2. FilesInv'
  BY DEF FilesInv, TypeOK, BeginGc, Locked, Collectors, Goto, sessionVars, lockVars
<1>3. MutexInv'
  BY DEF MutexInv, TypeOK, FilesInv, BeginGc, Locked, Collectors, Goto, sessionVars,
     lockVars
<1>4. OpsInv'
  BY DEF OpsInv, TypeOK, BeginGc, Collectors, Operations, Goto, sessionVars,
     lockVars
<1>5. StartInv'
  BY DEF StartInv, TypeOK, OpsInv, BeginGc, Collectors, Operations, Goto,
     sessionVars, lockVars
<1>6. TreeInv'
  BY DEF TreeInv, TypeOK, BeginGc, Collectors, Goto, sessionVars, lockVars
<1>7. WholeInv'
  BY DEF WholeInv, TypeOK, FilesInv, MutexInv, OpsInv, StartInv, TreeInv, BeginGc,
     NeverReapsLive, Operations, Locked, Collectors, Goto, sessionVars, lockVars
<1> QED
  BY <1>1, <1>2, <1>3, <1>4, <1>5, <1>6, <1>7

LEMMA ListKeepsInv ==
  ASSUME Inv, NEW p \in Procs, List(p)
  PROVE  Inv'
<1> USE DEF Inv
<1>1. TypeOK'
  BY SessionAssumption DEF TypeOK, List, Manifests, Operations, Collectors, Locked,
     Goto, sessionVars, lockVars
<1>2. FilesInv'
  BY DEF FilesInv, TypeOK, List, Locked, Goto, sessionVars, lockVars
<1>3. MutexInv'
  BY DEF MutexInv, TypeOK, FilesInv, List, Locked, Goto, sessionVars, lockVars
<1>4. OpsInv'
  BY DEF OpsInv, TypeOK, List, Collectors, Operations, Goto, sessionVars, lockVars
<1>5. StartInv'
  BY DEF StartInv, TypeOK, OpsInv, List, Collectors, Operations, Goto, sessionVars,
     lockVars
<1>6. TreeInv'
  BY DEF TreeInv, TypeOK, List, Goto, sessionVars, lockVars
<1>7. WholeInv'
  BY DEF WholeInv, TypeOK, FilesInv, MutexInv, OpsInv, StartInv, TreeInv, List,
     NeverReapsLive, Operations, Locked, Collectors, Goto, sessionVars, lockVars
<1> QED
  BY <1>1, <1>2, <1>3, <1>4, <1>5, <1>6, <1>7

LEMMA ProbeKeepsInv ==
  ASSUME Inv, NEW p \in Procs, Probe(p)
  PROVE  Inv'
<1> USE DEF Inv
<1>1. TypeOK'
  BY SessionAssumption DEF TypeOK, Probe, Manifests, Operations, Collectors, Locked,
     Live, Wanted, Goto, ProbedBy, sessionVars, lockVars, Active
<1>2. FilesInv'
  BY DEF FilesInv, TypeOK, Probe, Locked, Live, Wanted, Goto, ProbedBy, sessionVars,
     lockVars, Active
<1>3. MutexInv'
  BY DEF MutexInv, TypeOK, FilesInv, Probe, Locked, Live, Wanted, Goto, ProbedBy,
     sessionVars, lockVars, Active
<1>4. OpsInv'
  BY DEF OpsInv, TypeOK, Probe, Collectors, Operations, Live, Wanted, Goto,
     ProbedBy, sessionVars, lockVars, Active
<1>5. StartInv'
  BY DEF StartInv, TypeOK, OpsInv, Probe, Collectors, Operations, Live, Wanted,
     Goto, ProbedBy, sessionVars, lockVars, Active
<1>6. TreeInv'
  BY DEF TreeInv, TypeOK, Probe, Live, Wanted, Goto, ProbedBy, sessionVars,
     lockVars, Active
<1>7. WholeInv'
  BY DEF WholeInv, TypeOK, FilesInv, MutexInv, OpsInv, StartInv, TreeInv, Probe,
     NeverReapsLive, Operations, Locked, Collectors, Live, Wanted, Goto, ProbedBy,
     sessionVars, lockVars, Active
<1> QED
  BY <1>1, <1>2, <1>3, <1>4, <1>5, <1>6, <1>7

LEMMA VetKeepsInv ==
  ASSUME Inv, NEW p \in Procs, Vet(p)
  PROVE  Inv'
<1> USE DEF Inv
<1>1. TypeOK'
  BY SessionAssumption DEF TypeOK, Vet, Manifests, Operations, Collectors, Locked,
     Active, Goto, lockVars, ProbedBy, Unlock, sessionVars
<1>2. FilesInv'
  BY DEF FilesInv, TypeOK, Vet, Locked, Active, Goto, lockVars, ProbedBy, Unlock,
     sessionVars
<1>3. MutexInv'
  BY DEF MutexInv, TypeOK, FilesInv, Vet, Locked, Active, Goto, lockVars, ProbedBy,
     Unlock, sessionVars
<1>4. OpsInv'
  BY DEF OpsInv, TypeOK, Vet, Collectors, Operations, Active, Goto, lockVars,
     ProbedBy, Unlock, sessionVars
<1>5. StartInv'
  BY DEF StartInv, TypeOK, OpsInv, Vet, Collectors, Operations, Active, Goto,
     lockVars, ProbedBy, Unlock, sessionVars
<1>6. TreeInv'
  BY DEF TreeInv, TypeOK, Vet, Active, Goto, lockVars, ProbedBy, Unlock, sessionVars
<1>7. WholeInv'
  BY DEF WholeInv, TypeOK, FilesInv, MutexInv, OpsInv, StartInv, TreeInv, Vet,
     NeverReapsLive, Operations, Locked, Collectors, Active, Goto, lockVars,
     ProbedBy, Unlock, sessionVars
<1> QED
  BY <1>1, <1>2, <1>3, <1>4, <1>5, <1>6, <1>7

LEMMA RemoveManifestKeepsInv ==
  ASSUME Inv, NEW p \in Procs, RemoveManifest(p)
  PROVE  Inv'
<1> USE DEF Inv
<1>1. TypeOK'
  BY SessionAssumption DEF TypeOK, RemoveManifest, Manifests, Operations,
     Collectors, Locked, lockVars, procVars
<1>2. FilesInv'
  BY DEF FilesInv, TypeOK, RemoveManifest, Locked, lockVars, procVars
<1>3. MutexInv'
  BY DEF MutexInv, TypeOK, FilesInv, RemoveManifest, Locked, lockVars, procVars
<1>4. OpsInv'
  BY DEF OpsInv, TypeOK, RemoveManifest, Collectors, Operations, lockVars, procVars
<1>5. StartInv'
  BY DEF StartInv, TypeOK, OpsInv, RemoveManifest, Collectors, Operations, lockVars,
     procVars
<1>6. TreeInv'
  BY DEF TreeInv, TypeOK, RemoveManifest, lockVars, procVars
<1>7. WholeInv'
  BY DEF WholeInv, TypeOK, FilesInv, MutexInv, OpsInv, StartInv, TreeInv,
     RemoveManifest, NeverReapsLive, Operations, Locked, Collectors, lockVars,
     procVars
<1> QED
  BY <1>1, <1>2, <1>3, <1>4, <1>5, <1>6, <1>7

LEMMA RemoveLockFileKeepsInv ==
  ASSUME Inv, NEW p \in Procs, RemoveLockFile(p)
  PROVE  Inv'
<1> USE DEF Inv
<1>1. TypeOK'
  BY SessionAssumption DEF TypeOK, RemoveLockFile, Manifests, Operations,
     Collectors, Locked, sessionVars, procVars
<1>2. FilesInv'
  BY DEF FilesInv, TypeOK, RemoveLockFile, Locked, sessionVars, procVars
<1>3. MutexInv'
  BY DEF MutexInv, TypeOK, FilesInv, RemoveLockFile, Locked, sessionVars, procVars
<1>4. OpsInv'
  BY DEF OpsInv, TypeOK, RemoveLockFile, Collectors, Operations, sessionVars,
     procVars
<1>5. StartInv'
  BY DEF StartInv, TypeOK, OpsInv, RemoveLockFile, Collectors, Operations,
     sessionVars, procVars
<1>6. TreeInv'
  BY DEF TreeInv, TypeOK, RemoveLockFile, sessionVars, procVars
<1>7. WholeInv'
  BY DEF WholeInv, TypeOK, FilesInv, MutexInv, OpsInv, StartInv, TreeInv,
     RemoveLockFile, NeverReapsLive, Operations, Locked, Collectors, sessionVars,
     procVars
<1> QED
  BY <1>1, <1>2, <1>3, <1>4, <1>5, <1>6, <1>7

LEMMA RemoveRestKeepsInv ==
  ASSUME Inv, NEW p \in Procs, RemoveRest(p)
  PROVE  Inv'
<1> USE DEF Inv
<1>1. TypeOK'
  BY RemoveRestKeepsType
<1>2. FilesInv'
  BY DEF FilesInv, TypeOK, RemoveRest, Locked, lockVars, procVars
<1>3. MutexInv'
  BY DEF MutexInv, TypeOK, FilesInv, RemoveRest, Locked, lockVars, procVars
<1>4. OpsInv'
  BY DEF OpsInv, TypeOK, RemoveRest, Collectors, Operations, lockVars, procVars
<1>5. StartInv'
  BY DEF StartInv, TypeOK, OpsInv, RemoveRest, Collectors, Operations, lockVars,
     procVars
<1>6. TreeInv'
  BY DEF TreeInv, TypeOK, RemoveRest, lockVars, procVars
<1>7. WholeInv'
  BY DEF WholeInv, TypeOK, FilesInv, MutexInv, OpsInv, StartInv, TreeInv,
     RemoveRest, NeverReapsLive, Operations, Locked, Collectors, lockVars, procVars
<1> QED
  BY <1>1, <1>2, <1>3, <1>4, <1>5, <1>6, <1>7

LEMMA RemoveTreeKeepsInv ==
  ASSUME Inv, NEW p \in Procs, RemoveTree(p)
  PROVE  Inv'
<1> USE DEF Inv
<1>1. TypeOK'
  BY RemoveTreeKeepsType
<1>2. FilesInv'
  BY DEF FilesInv, TypeOK, RemoveTree, Locked, Unlock, Goto
<1>3. MutexInv'
  BY DEF MutexInv, TypeOK, FilesInv, RemoveTree, Locked, Unlock, Goto
<1>4. OpsInv'
  BY DEF OpsInv, TypeOK, RemoveTree, Collectors, Operations, Unlock, Goto
<1>5. StartInv'
  BY DEF StartInv, TypeOK, OpsInv, RemoveTree, Collectors, Operations, Unlock, Goto
<1>6. TreeInv'
  BY DEF TreeInv, TypeOK, RemoveTree, Unlock, Goto
<1>7. WholeInv'
  BY DEF WholeInv, TypeOK, FilesInv, MutexInv, OpsInv, StartInv, TreeInv,
     RemoveTree, NeverReapsLive, Operations, Locked, Collectors, Unlock, Goto
<1> QED
  BY <1>1, <1>2, <1>3, <1>4, <1>5, <1>6, <1>7

LEMMA RemoveFailsKeepsInv ==
  ASSUME Inv, NEW p \in Procs, RemoveFails(p)
  PROVE  Inv'
<1> USE DEF Inv
<1>1. TypeOK'
  BY SessionAssumption DEF TypeOK, RemoveFails, Manifests, Operations, Collectors,
     Locked, Unlock, Goto, sessionVars
<1>2. FilesInv'
  BY DEF FilesInv, TypeOK, RemoveFails, Locked, Unlock, Goto, sessionVars
<1>3. MutexInv'
  BY DEF MutexInv, TypeOK, FilesInv, RemoveFails, Locked, Unlock, Goto, sessionVars
<1>4. OpsInv'
  BY DEF OpsInv, TypeOK, RemoveFails, Collectors, Operations, Unlock, Goto,
     sessionVars
<1>5. StartInv'
  BY DEF StartInv, TypeOK, OpsInv, RemoveFails, Collectors, Operations, Unlock,
     Goto, sessionVars
<1>6. TreeInv'
  BY DEF TreeInv, TypeOK, RemoveFails, Unlock, Goto, sessionVars
<1>7. WholeInv'
  BY DEF WholeInv, TypeOK, FilesInv, MutexInv, OpsInv, StartInv, TreeInv,
     RemoveFails, NeverReapsLive, Operations, Locked, Collectors, Unlock, Goto,
     sessionVars
<1> QED
  BY <1>1, <1>2, <1>3, <1>4, <1>5, <1>6, <1>7

LEMMA DieKeepsInv ==
  ASSUME Inv, NEW p \in Procs, Die(p)
  PROVE  Inv'
<1> USE DEF Inv
<1>1. TypeOK'
  BY SessionAssumption DEF TypeOK, Die, Manifests, Operations, Collectors, Locked,
     Unlock, Goto, sessionVars
<1>2. FilesInv'
  BY DEF FilesInv, TypeOK, Die, Locked, Unlock, Goto, sessionVars
<1>3. MutexInv'
  BY DEF MutexInv, TypeOK, FilesInv, Die, Locked, Unlock, Goto, sessionVars
<1>4. OpsInv'
  BY DEF OpsInv, TypeOK, Die, Collectors, Operations, Unlock, Goto, sessionVars
<1>5. StartInv'
  BY DEF StartInv, TypeOK, OpsInv, Die, Collectors, Operations, Unlock, Goto,
     sessionVars
<1>6. TreeInv'
  BY DEF TreeInv, TypeOK, Die, Unlock, Goto, sessionVars
<1>7. WholeInv'
  BY DEF WholeInv, TypeOK, FilesInv, MutexInv, OpsInv, StartInv, TreeInv, Die,
     NeverReapsLive, Operations, Locked, Collectors, Unlock, Goto, sessionVars
<1> QED
  BY <1>1, <1>2, <1>3, <1>4, <1>5, <1>6, <1>7

LEMMA AgeKeepsInv ==
  ASSUME Inv, Age
  PROVE  Inv'
<1> USE DEF Inv
<1>1. /\ \A p \in Procs : op[p] # "start"
      /\ recent' = FALSE /\ young' = FALSE
      /\ UNCHANGED <<started, tree, rest, split, manifest, files, lockFile, file, locking,
                     pc, op, seen, leases, faults>>
  BY Zenon DEF Age, lockVars, procVars
<1>2. /\ started' \in BOOLEAN /\ tree' \in BOOLEAN /\ rest' \in BOOLEAN
      /\ recent' \in BOOLEAN /\ young' \in BOOLEAN /\ split' \in BOOLEAN
  BY Zenon, <1>1 DEF TypeOK
<1>3. TypeOK'
  BY <1>1, <1>2 DEF TypeOK
<1>4. FilesInv' /\ MutexInv' /\ OpsInv'
  BY <1>1 DEF FilesInv, MutexInv, OpsInv
<1>5. StartInv'
  BY <1>1 DEF StartInv
<1>6. TreeInv' /\ WholeInv'
  BY <1>1 DEF TreeInv, WholeInv, NeverReapsLive
<1> QED
  BY <1>3, <1>4, <1>5, <1>6

\* Every step keeps the invariant, whoever makes it.
LEMMA NextKeepsInv ==
  ASSUME Inv, [Next]_vars
  PROVE  Inv'
<1>1. ASSUME NEW p \in Procs, BeginStart(p) \/ Begin(p) \/ BeginGc(p) \/ Use(p) \/ Die(p)
      PROVE  Inv'
  BY <1>1, BeginStartKeepsInv, BeginKeepsInv, BeginGcKeepsInv, UseKeepsInv, DieKeepsInv
<1>2. ASSUME NEW p \in Procs, Command(p)
      PROVE  Inv'
  BY <1>2, StartManifestKeepsInv, EnterKeepsInv, OpenLockKeepsInv, LockKeepsInv,
     LockTimeoutKeepsInv, JoinKeepsInv, ReadSettingsKeepsInv, WriteSettingsKeepsInv,
     ReadEndKeepsInv, SealKeepsInv, LeaveKeepsInv DEF Command
<1>3. ASSUME NEW p \in Procs, Collect(p)
      PROVE  Inv'
  BY <1>3, ListKeepsInv, ProbeKeepsInv, VetKeepsInv, RemoveManifestKeepsInv,
     RemoveLockFileKeepsInv, RemoveRestKeepsInv, RemoveTreeKeepsInv, RemoveFailsKeepsInv
     DEF Collect
<1>4. CASE UNCHANGED vars
  BY <1>4 DEF vars, sessionVars, lockVars, procVars, Inv, TypeOK, FilesInv, MutexInv, OpsInv,
     StartInv, TreeInv, WholeInv, NeverReapsLive
<1> QED
  BY <1>1, <1>2, <1>3, <1>4, AgeKeepsInv DEF Next

LEMMA InitHasInv == Init => Inv
<1> SUFFICES ASSUME Init
             PROVE  Inv
  OBVIOUS
<1> USE SessionAssumption DEF Init
<1>1. TypeOK
  <2>1. /\ started \in BOOLEAN /\ tree \in BOOLEAN /\ rest \in BOOLEAN
        /\ recent \in BOOLEAN /\ young \in BOOLEAN /\ split \in BOOLEAN
    BY Zenon
  <2> QED
    BY <2>1 DEF TypeOK, Manifests, Locked
<1>2. FilesInv /\ MutexInv
  BY DEF FilesInv, MutexInv, Locked
<1>3. OpsInv
  BY DEF OpsInv, Collectors, Operations
<1>4. StartInv
  BY DEF StartInv
<1>5. TreeInv /\ WholeInv
  BY DEF TreeInv, WholeInv, NeverReapsLive, Operations
<1> QED
  BY <1>1, <1>2, <1>3, <1>4, <1>5 DEF Inv

\* The inductive invariant of gc and the liveness leases.
THEOREM SessionInvHolds == Spec => []Inv
<1>1. Init => Inv
  BY InitHasInv
<1>2. Inv /\ [Next]_vars => Inv'
  BY NextKeepsInv
<1> QED
  BY <1>1, <1>2, PTL DEF Spec

\* Each variable of SessionLifecycle keeps its type, and each lock has a process
\* that is on the way to giving it back.
THEOREM SessionTypeCorrect == Spec => []TypeOK
<1>1. Inv => TypeOK
  BY DEF Inv
<1> QED
  BY <1>1, SessionInvHolds, PTL

\* Until refstore.lock is unlinked before the manifest, gc removes no session
\* of which a command holds a lease.
THEOREM SessionsInUseAreKept == Spec => []InUseIsKept
<1>1. Inv => InUseIsKept
  BY DEF Inv, WholeInv, InUseIsKept
<1> QED
  BY <1>1, SessionInvHolds, PTL

\* Only who has a lease, or is starting the session, writes a manifest.
LEMMA NoStepBringsBack ==
  ASSUME Inv, [Next]_vars, started, manifest = "none", ~ split
  PROVE  manifest' = "none"
<1>1. ASSUME NEW p \in Procs, StartManifest(p)
      PROVE  FALSE
  <2>1. op[p] = "start" /\ pc[p] = "starting"
    BY <1>1 DEF StartManifest, Inv, TypeOK, OpsInv, Operations, Collectors
  <2> QED
    BY <2>1 DEF Inv, StartInv
<1>2. ASSUME NEW p \in Procs, WriteSettings(p) \/ Seal(p)
      PROVE  FALSE
  <2>1. pc[p] \in {"rewriting", "sealing"}
    BY <1>2 DEF WriteSettings, Seal
  <2>2. p \in leases \/ op[p] = "start"
    BY <2>1 DEF Inv, WholeInv
  <2>3. leases = {}
    BY DEF Inv, WholeInv
  <2>4. op[p] = "start"
    BY <2>2, <2>3
  <2> QED
    BY <2>1, <2>4 DEF Inv, StartInv
<1>3. ASSUME NEW p \in Procs, Command(p)
      PROVE  manifest' = "none"
  BY <1>1, <1>2, <1>3 DEF Command, Enter, OpenLock, Lock, LockTimeout, Join, ReadSettings,
     ReadEnd, Leave, sessionVars
<1>4. ASSUME NEW p \in Procs, Collect(p)
      PROVE  manifest' = "none"
  BY <1>4 DEF Collect, List, Probe, Vet, RemoveManifest, RemoveLockFile, RemoveRest, RemoveTree,
     RemoveFails, sessionVars
<1>5. ASSUME NEW p \in Procs, BeginStart(p) \/ Begin(p) \/ BeginGc(p) \/ Use(p) \/ Die(p)
      PROVE  manifest' = "none"
  BY <1>5 DEF BeginStart, Begin, BeginGc, Use, Die, sessionVars
<1>6. Age \/ UNCHANGED vars => manifest' = "none"
  BY DEF Age, vars, sessionVars
<1> QED
  BY <1>3, <1>4, <1>5, <1>6 DEF Next

\* Until then, no session that gc removed comes back.
THEOREM RemovedSessionsStayRemoved == Spec => RemovedStaysRemoved
<1>1. Inv /\ [Next]_vars => [started /\ manifest = "none" /\ ~ split => manifest' = "none"]_vars
  BY NoStepBringsBack
<1> QED
  BY <1>1, SessionInvHolds, PTL DEF Spec, RemovedStaysRemoved
=============================================================================
