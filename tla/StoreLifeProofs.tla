-------------------------- MODULE StoreLifeProofs --------------------------
(***************************************************************************)
(* The task tables stay in order across any number of crashes, for every   *)
(* set of tasks and Clients.  While requests are served the argument is    *)
(* that of TaskStoreProofs; during a restart only an active parent may be  *)
(* ahead of its targets, and the second UPDATE puts exactly those right.   *)
(***************************************************************************)
EXTENDS StoreLife, TaskStoreProofs


(* Between the two UPDATEs of a restart no target of an active task is      *)
(* active; then every active task has only terminal targets.               *)
NoActiveTarget ==
  process = "targets failed" =>
    \A t \in Tasks : \A c \in Targets[t] :
      dbTarget[t][c] \in TerminalStatus \cup {"none"}

LifeInv == LifeTypeOK /\ NoStrayRows /\ RowsAgreeAcrossCrashes /\ NoActiveTarget

Interrupted(t) ==
  /\ storeTaskActive(t)
  /\ \A c \in Targets[t] : dbTarget[t][c] \in TerminalStatus
  /\ \E c \in Targets[t] : dbTarget[t][c] = "failed"

(* While requests are served, LifeInv is the invariant of the store. *)
LEMMA ServingAgrees ==
  ASSUME LifeInv, process = "serving" PROVE StoreInv
  BY DEF LifeInv, LifeTypeOK, RowsAgreeAcrossCrashes, StoreInv, ParentAgrees

(* The empty tables satisfy LifeInv. *)
LEMMA LifeInvInit ==
  ASSUME LifeInit PROVE LifeInv
<1>1. StoreInv
  BY StoreInvInit DEF LifeInit
<1> QED
  BY <1>1 DEF LifeInit, LifeInv, LifeTypeOK, RowsAgreeAcrossCrashes, NoActiveTarget,
              StoreInv, ParentAgrees

(* A transaction while serving keeps LifeInv. *)
LEMMA LifeServe ==
  ASSUME LifeInv, Serve PROVE LifeInv'
<1>1. StoreInv'
  BY ServingAgrees, StoreInvStep DEF Serve
<1> QED
  BY <1>1 DEF Serve, LifeInv, LifeTypeOK, RowsAgreeAcrossCrashes, NoActiveTarget,
              StoreInv, ParentAgrees

(* A crash, and any step that keeps the rows and stays out of the restart,  *)
(* keeps LifeInv.                                                          *)
LEMMA LifeUnchanged ==
  ASSUME LifeInv, UNCHANGED store, process' \in {process, "down"} PROVE LifeInv'
<1>1. \A t \in Tasks : ParentOK(t) => ParentOK(t)'
  BY ParentOKFrame DEF store
<1>2. \A t \in Tasks : Interrupted(t) => Interrupted(t)'
  BY DEF store, Interrupted, storeTaskActive
<1>3. RowsAgreeAcrossCrashes'
  BY <1>1, <1>2 DEF LifeInv, RowsAgreeAcrossCrashes, Interrupted
<1> QED
  BY <1>3 DEF store, LifeInv, LifeTypeOK, StoreTypeOK, NoStrayRows, NoActiveTarget

(* The first UPDATE of the restart leaves no target active. *)
LEMMA LifeMigrateTargets ==
  ASSUME LifeInv, migrateTargets PROVE LifeInv'
<1>0. StoreTypeOK /\ \A t \in Tasks : Targets[t] \subseteq Clients
  BY TargetsAssumption DEF LifeInv, LifeTypeOK
<1>1. LifeTypeOK' /\ NoStrayRows'
  <2>1. dbTarget' \in [Tasks -> [Clients -> RowStatus]]
    BY <1>0 DEF migrateTargets, StoreTypeOK, RowStatus, TerminalStatus
  <2>2. NoStrayRows'
    BY <1>0 DEF migrateTargets, LifeInv, NoStrayRows
  <2> QED
    BY <1>0, <2>1, <2>2 DEF migrateTargets, LifeTypeOK, StoreTypeOK
<1>2. ASSUME NEW t \in Tasks, ~storeTaskActive(t)
      PROVE  /\ ParentOK(t)'
             /\ \A c \in Targets[t] : dbTarget'[t][c] \in TerminalStatus \cup {"none"}
  <2>1. ParentOK(t)
    BY <1>2 DEF LifeInv, RowsAgreeAcrossCrashes
  <2>2. dbTask'[t] = dbTask[t] /\ dbTarget'[t] = dbTarget[t]
    BY <1>0, <1>2 DEF migrateTargets, StoreTypeOK
  <2>3. \A c \in Targets[t] : dbTarget[t][c] \in TerminalStatus \cup {"none"}
    BY <1>0, <1>2, <2>1
    DEF ParentOK, StoreTypeOK, TaskStatus, TaskTerminal, TerminalStatus, storeTaskActive
  <2> QED
    BY <2>1, <2>2, <2>3, ParentOKFrame
<1>3. ASSUME NEW t \in Tasks, storeTaskActive(t)
      PROVE  Interrupted(t)'
  <2>1. \A c \in Targets[t] :
          dbTarget'[t][c] = IF dbTarget[t][c] \in {"queued", "running"} THEN "failed"
                            ELSE dbTarget[t][c]
    BY <1>0, <1>3 DEF migrateTargets
  <2>2. \A c \in Targets[t] : dbTarget[t][c] # "none"
    BY <1>3 DEF LifeInv, RowsAgreeAcrossCrashes, ParentOK, storeTaskActive, TerminalStatus
  <2>3. \E c \in Targets[t] : dbTarget[t][c] \in {"queued", "running", "failed"}
    BY <1>3 DEF LifeInv, RowsAgreeAcrossCrashes, ParentOK, storeTaskActive
  <2>4. storeTaskActive(t)'
    BY <1>3 DEF migrateTargets, storeTaskActive
  <2> QED
    BY <1>0, <2>1, <2>2, <2>3, <2>4
    DEF Interrupted, StoreTypeOK, RowStatus, TerminalStatus
<1>4. process' = "targets failed"
  BY DEF migrateTargets
<1>5. RowsAgreeAcrossCrashes'
  BY <1>2, <1>3, <1>4 DEF RowsAgreeAcrossCrashes, Interrupted
<1>6. NoActiveTarget'
  BY <1>2, <1>3 DEF NoActiveTarget, Interrupted
<1> QED
  BY <1>1, <1>5, <1>6 DEF LifeInv

(* The second UPDATE restores the agreement of every parent. *)
LEMMA LifeMigrateTasks ==
  ASSUME LifeInv, migrateTasks PROVE LifeInv'
<1>0. StoreTypeOK /\ process = "targets failed"
  BY DEF LifeInv, LifeTypeOK, migrateTasks
<1>1. LifeTypeOK' /\ NoStrayRows' /\ NoActiveTarget'
  BY <1>0 DEF migrateTasks, LifeInv, LifeTypeOK, StoreTypeOK, NoStrayRows,
              NoActiveTarget, TaskStatus, TaskTerminal, TerminalStatus
<1>2. ASSUME NEW t \in Tasks, ~storeTaskActive(t)
      PROVE  ParentOK(t)'
  <2>1. ParentOK(t)
    BY <1>2 DEF LifeInv, RowsAgreeAcrossCrashes
  <2>2. dbTask'[t] = dbTask[t] /\ dbTarget'[t] = dbTarget[t]
    BY <1>0, <1>2 DEF migrateTasks, StoreTypeOK
  <2> QED
    BY <2>1, <2>2, ParentOKFrame
<1>3. ASSUME NEW t \in Tasks, storeTaskActive(t)
      PROVE  ParentOK(t)'
  <2>1. ~\E c \in Targets[t] : dbTarget[t][c] \in {"queued", "running"}
    BY <1>0 DEF LifeInv, NoActiveTarget, TerminalStatus
  <2>2. Interrupted(t)
    BY <1>3, <2>1 DEF LifeInv, RowsAgreeAcrossCrashes, ParentOK, Interrupted
  <2>3. dbTask'[t] = "failed" /\ dbTarget' = dbTarget
    BY <1>3 DEF migrateTasks
  <2> QED
    BY <2>2, <2>3
    DEF Interrupted, ParentOK, storeTaskActive, TerminalStatus, TaskTerminal
<1>4. RowsAgreeAcrossCrashes'
  BY <1>2, <1>3 DEF RowsAgreeAcrossCrashes
<1> QED
  BY <1>1, <1>4 DEF LifeInv

(* Every step of the process keeps LifeInv. *)
LEMMA LifeInvStep ==
  ASSUME LifeInv, [LifeNext]_life PROVE LifeInv'
<1>1. CASE UNCHANGED life
  BY <1>1, LifeUnchanged DEF life
<1>2. CASE Crash
  BY <1>2, LifeUnchanged DEF Crash
<1> QED
  BY <1>1, <1>2, LifeServe, LifeMigrateTargets, LifeMigrateTasks DEF LifeNext

(* The strengthening: types, stray rows, agreement, and what holds between  *)
(* the two UPDATEs of a restart.                                           *)
THEOREM LifeInvariant == LifeSpec => []LifeInv
<1>1. LifeInv /\ [LifeNext]_life => LifeInv'
  BY LifeInvStep
<1> QED
  BY <1>1, LifeInvInit, PTL DEF LifeSpec

(* The rows only ever hold statuses, across crashes and restarts. *)
THEOREM LifeTypeCorrect == LifeSpec => []LifeTypeOK
<1>1. LifeInv => LifeTypeOK
  BY DEF LifeInv
<1> QED
  BY <1>1, LifeInvariant, PTL

(* The rows of a task agree with each other whenever requests are served,   *)
(* for any number of crashes at any moment, the restart included.          *)
THEOREM RowsAgreeTheorem == LifeSpec => []RowsAgreeAcrossCrashes
<1>1. LifeInv => RowsAgreeAcrossCrashes
  BY DEF LifeInv
<1> QED
  BY <1>1, LifeInvariant, PTL

(* A restart ends every task that was under way, resumes none, and leaves   *)
(* what had ended before the crash as it was.                              *)
THEOREM RestartEndsTheorem == LifeSpec => RestartEndsEveryTask
<1> DEFINE Ends ==
      process # "serving" /\ process' = "serving" =>
        \A t \in Tasks :
          /\ dbTask'[t] \in TaskTerminal \cup {"none"}
          /\ \A c \in Targets[t] : dbTarget'[t][c] \in TerminalStatus \cup {"none"}
          /\ dbTask[t] \in TaskTerminal => dbTask'[t] = dbTask[t]
<1>1. LifeInv /\ [LifeNext]_life => [Ends]_life
  <2> SUFFICES ASSUME LifeInv, LifeNext, process # "serving", process' = "serving",
                      NEW t \in Tasks
               PROVE  /\ dbTask'[t] \in TaskTerminal \cup {"none"}
                      /\ \A c \in Targets[t] :
                           dbTarget'[t][c] \in TerminalStatus \cup {"none"}
                      /\ dbTask[t] \in TaskTerminal => dbTask'[t] = dbTask[t]
    OBVIOUS
  <2>1. migrateTasks
    BY DEF LifeNext, Serve, Crash, migrateTargets
  <2>2. dbTarget' = dbTarget /\ NoActiveTarget /\ process = "targets failed"
    BY <2>1 DEF migrateTasks, LifeInv
  <2>3. dbTask'[t] = IF storeTaskActive(t) THEN "failed" ELSE dbTask[t]
    BY <2>1 DEF migrateTasks
  <2> QED
    BY <2>2, <2>3 DEF LifeInv, LifeTypeOK, StoreTypeOK, NoActiveTarget, TaskStatus,
                      TaskTerminal, TerminalStatus, storeTaskActive
<1> QED
  BY <1>1, LifeInvariant, PTL DEF LifeSpec, RestartEndsEveryTask

(* No step of the process rewrites a terminal row. *)
LEMMA LifeKeepsTerminal ==
  ASSUME LifeInv, LifeNext
  PROVE  store' = store \/ \A t \in Tasks : KeepsTerminal(t)
<1>1. StoreTypeOK
  BY DEF LifeInv, LifeTypeOK
<1>2. CASE Serve
  BY <1>2, ServingAgrees, TransactionsKeepTerminal DEF Serve
<1>3. CASE migrateTargets
  BY <1>1, <1>3 DEF migrateTargets, KeepsTerminal, StoreTypeOK, storeTaskActive,
                    TerminalStatus, TaskTerminal
<1>4. CASE migrateTasks
  BY <1>1, <1>4 DEF migrateTasks, KeepsTerminal, StoreTypeOK, storeTaskActive,
                    TerminalStatus, TaskTerminal
<1>5. CASE Crash
  BY <1>5 DEF Crash
<1> QED
  BY <1>2, <1>3, <1>4, <1>5 DEF LifeNext

(* A terminal row survives crashes and restarts unchanged. *)
THEOREM TerminalRowsSurvive == LifeSpec => TerminalIsFinal
<1>1. LifeInv /\ [LifeNext]_life => [\A t \in Tasks : KeepsTerminal(t)]_store
  BY LifeKeepsTerminal DEF life, store
<1> QED
  BY <1>1, LifeInvariant, PTL DEF LifeSpec, TerminalIsFinal, KeepsTerminal

=============================================================================
