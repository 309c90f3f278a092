----------------------------- MODULE StoreLife -----------------------------
(***************************************************************************)
(* The task tables over the life of the server process: transactions while *)
(* it serves, a crash at any moment, and the restart that fails the tasks  *)
(* left behind (src/internal/store/migration.go:145-158).  The proxies of  *)
(* a task live in memory only, so no task survives a restart.  The two     *)
(* UPDATEs of the restart are two transactions, and the process may die    *)
(* between them.                                                           *)
(***************************************************************************)
EXTENDS TaskStore

VARIABLE process    \* "serving", "down", or between the two UPDATEs

life == <<store, process>>

LifeTypeOK ==
  /\ StoreTypeOK
  /\ process \in {"serving", "down", "targets failed"}

LifeInit == StoreInit /\ process = "serving"

Serve == process = "serving" /\ StoreNext /\ UNCHANGED process

Crash == process' = "down" /\ UNCHANGED store

(* Active targets of active tasks fail ... *)
migrateTargets ==
  /\ process = "down"
  /\ process' = "targets failed"
  /\ dbTarget' = [t \in Tasks |-> [c \in Clients |->
        IF storeTaskActive(t) /\ dbTarget[t][c] \in {"queued", "running"}
        THEN "failed" ELSE dbTarget[t][c]]]
  /\ UNCHANGED dbTask

(* ... then the active tasks do, and the server opens its port. *)
migrateTasks_running_only ==
  /\ process = "targets failed"
  /\ process' = "serving"
  /\ dbTask' = [t \in Tasks |->
        IF dbTask[t] = "running" THEN "failed" ELSE dbTask[t]]
  /\ UNCHANGED dbTarget
migrateTasks_again ==
  /\ process = "targets failed"
  /\ process' = "serving"
  /\ dbTask' = [t \in Tasks |->
        IF dbTask[t] \in {"queued", "running", "partial"} THEN "failed" ELSE dbTask[t]]
  /\ UNCHANGED dbTarget
migrateTasks ==
  /\ process = "targets failed"
  /\ process' = "serving"
  /\ dbTask' = [t \in Tasks |->
        IF storeTaskActive(t) THEN "failed" ELSE dbTask[t]]
  /\ UNCHANGED dbTarget

LifeNext == Serve \/ Crash \/ migrateTargets \/ migrateTasks

LifeSpec == LifeInit /\ [][LifeNext]_life

----------------------------------------------------------------------------
(* Properties. *)

(* Whatever was interrupted, and however often the restart itself was, the  *)
(* rows of a task agree with each other whenever requests are served; while *)
(* a restart is under way only an active parent may be ahead of its targets,*)
(* which then failed.                                                       *)
RowsAgreeAcrossCrashes ==
  \A t \in Tasks :
    ParentOK(t) \/ /\ process # "serving"
                   /\ storeTaskActive(t)
                   /\ \A c \in Targets[t] : dbTarget[t][c] \in TerminalStatus
                   /\ \E c \in Targets[t] : dbTarget[t][c] = "failed"

(* A restart ends every task that was under way and resumes none: when the *)
(* server starts to serve again no row is active, and what had ended before *)
(* the crash reads as it did.                                              *)
RestartEndsEveryTask ==
  [][process # "serving" /\ process' = "serving" =>
       \A t \in Tasks :
         /\ dbTask'[t] \in TaskTerminal \cup {"none"}
         /\ \A c \in Targets[t] : dbTarget'[t][c] \in TerminalStatus \cup {"none"}
         /\ dbTask[t] \in TaskTerminal => dbTask'[t] = dbTask[t]]_life

=============================================================================
