----------------------------- MODULE TaskStore -----------------------------
(***************************************************************************)
(* The rows of the tables tasks and task_targets and the transactions that *)
(* change them (src/internal/store/tasks.go, task_transitions.go,          *)
(* task_termination.go).  Each definition of a transaction is one SQLite   *)
(* transaction; SQLite runs them one at a time.  StoreSpec lets them be    *)
(* called in any order: it is what every caller may rely on, and what the  *)
(* Hub is shown to implement.  A definition named X_... is a faulty variant *)
(* of X that the properties are tested against; no specification uses it.   *)
(***************************************************************************)
EXTENDS Naturals, FiniteSets

CONSTANTS
  Tasks,      \* task identifiers
  Clients,    \* registered Clients
  Targets     \* Targets[t]: the Clients task t is created for

ASSUME TargetsAssumption == Targets \in [Tasks -> (SUBSET Clients) \ {{}}]

VARIABLES
  dbTask,     \* tasks.status; "none" is no row
  dbTarget    \* task_targets.status; "none" is no row

store == <<dbTask, dbTarget>>

TerminalStatus == {"completed", "failed", "canceled"}    \* isTargetTerminal
TaskTerminal   == TerminalStatus \cup {"partial"}        \* isTaskTerminal
RowStatus  == {"none", "queued", "running"} \cup TerminalStatus
TaskStatus == {"none", "queued", "running"} \cup TaskTerminal

StoreTypeOK ==
  /\ dbTask \in [Tasks -> TaskStatus]
  /\ dbTarget \in [Tasks -> [Clients -> RowStatus]]

StoreInit ==
  /\ dbTask = [t \in Tasks |-> "none"]
  /\ dbTarget = [t \in Tasks |-> [c \in Clients |-> "none"]]

storeTaskActive(t) == dbTask[t] \in {"queued", "running"}

(* A task and one queued row for each of its targets. *)
CreateTask(t) ==
  /\ dbTask[t] = "none"
  /\ dbTask' = [dbTask EXCEPT ![t] = "queued"]
  /\ dbTarget' = [dbTarget EXCEPT ![t] =
        [c \in Clients |-> IF c \in Targets[t] THEN "queued" ELSE "none"]]

(* The UPDATE of StartTarget changes a row. *)
CanStart(t, c) == storeTaskActive(t) /\ dbTarget[t][c] = "queued"
StartTarget(t, c) ==
  /\ CanStart(t, c)
  /\ dbTarget' = [dbTarget EXCEPT ![t][c] = "running"]
  /\ dbTask' = [dbTask EXCEPT ![t] = "running"]

(* The UPDATE of RequeueTarget changes a row.  The parent stays running. *)
CanRequeue(t, c) == storeTaskActive(t) /\ dbTarget[t][c] = "running"
RequeueTarget_as_assigned(t, c) ==
  /\ CanRequeue(t, c)
  /\ dbTarget' = [dbTarget EXCEPT ![t][c] = "assigned"]
  /\ UNCHANGED dbTask
RequeueTarget_without_update(t, c) == CanRequeue(t, c) /\ UNCHANGED store
RequeueTarget(t, c) ==
  /\ CanRequeue(t, c)
  /\ dbTarget' = [dbTarget EXCEPT ![t][c] = "queued"]
  /\ UNCHANGED dbTask

aggregateTaskStatus_any_failed(t, row) ==
  IF \E c \in Targets[t] : row[c] \in {"failed", "canceled"} THEN "failed"
  ELSE "completed"
aggregateTaskStatus(t, row) ==
  IF \A c \in Targets[t] : row[c] = "canceled" THEN "canceled"
  ELSE IF \A c \in Targets[t] : row[c] = "failed" THEN "failed"
  ELSE IF \E c \in Targets[t] : row[c] \in {"failed", "canceled"} THEN "partial"
  ELSE "completed"

(* The target rows of t after FinishTarget(t, c, s): a terminal target or   *)
(* task keeps what it has.                                                 *)
FinishedRow(t, c, s) ==
  IF storeTaskActive(t) /\ dbTarget[t][c] \notin TerminalStatus
  THEN [dbTarget[t] EXCEPT ![c] = s] ELSE dbTarget[t]
AllTerminal(t, row) == \A c \in Targets[t] : row[c] \in TerminalStatus
FinishTarget_target_only(t, c, s) ==
  /\ dbTask[t] # "none" /\ c \in Targets[t]
  /\ dbTarget' = [dbTarget EXCEPT ![t] = FinishedRow(t, c, s)]
  /\ UNCHANGED dbTask
FinishTarget(t, c, s) ==
  LET row == FinishedRow(t, c, s) IN
  /\ dbTask[t] # "none" /\ c \in Targets[t]
  /\ dbTarget' = [dbTarget EXCEPT ![t] = row]
  /\ dbTask' = IF storeTaskActive(t) /\ AllTerminal(t, row)
               THEN [dbTask EXCEPT ![t] = aggregateTaskStatus(t, row)]
               ELSE dbTask

(* terminateTask: CancelTask (s = "canceled") and FailTask (s = "failed").  *)
(* The terminal state it asks for is accepted when it is already there.    *)
CanTerminate(t, s) == storeTaskActive(t) \/ dbTask[t] = s
terminateTask_every_target(t, s) ==
  /\ CanTerminate(t, s)
  /\ dbTarget' = [dbTarget EXCEPT ![t] =
        [c \in Clients |-> IF storeTaskActive(t) /\ c \in Targets[t] THEN s
                           ELSE dbTarget[t][c]]]
  /\ dbTask' = [dbTask EXCEPT ![t] = s]
terminateTask(t, s) ==
  /\ CanTerminate(t, s)
  /\ dbTarget' = [dbTarget EXCEPT ![t] =
        [c \in Clients |->
           IF storeTaskActive(t) /\ dbTarget[t][c] \in {"queued", "running"}
           THEN s ELSE dbTarget[t][c]]]
  /\ dbTask' = [dbTask EXCEPT ![t] = s]

StoreNext ==
  \E t \in Tasks :
    \/ CreateTask(t)
    \/ \E c \in Targets[t] :
         \/ StartTarget(t, c) \/ RequeueTarget(t, c)
         \/ \E s \in TerminalStatus : FinishTarget(t, c, s)
    \/ \E s \in {"canceled", "failed"} : terminateTask(t, s)

StoreSpec == StoreInit /\ [][StoreNext]_store

----------------------------------------------------------------------------
(* Properties. *)

(* A parent row always tells the truth about its targets: it is active      *)
(* exactly while a target is, "completed" exactly when all are, "partial"   *)
(* only for a mixture, and "failed" or "canceled" only with such a target;  *)
(* it is never still "queued" once a target was started.                   *)
ParentOK(t) ==
  LET row == dbTarget[t]
      some(S) == \E c \in Targets[t] : row[c] \in S
      all(S) == \A c \in Targets[t] : row[c] \in S IN
  /\ dbTask[t] = "none" => all({"none"})
  /\ dbTask[t] # "none" => ~some({"none"})
  /\ dbTask[t] = "queued" => ~some({"running"})
  /\ storeTaskActive(t) => some({"queued", "running"})
  /\ dbTask[t] \in TaskTerminal => all(TerminalStatus)
  /\ dbTask[t] # "none" => (dbTask[t] = "completed" <=> all({"completed"}))
  /\ dbTask[t] = "partial" => some({"failed", "canceled"})
                              /\ ~all({"failed"}) /\ ~all({"canceled"})
  /\ dbTask[t] = "failed" => some({"failed"})
  /\ dbTask[t] = "canceled" => some({"canceled"})
ParentAgrees == \A t \in Tasks : ParentOK(t)

(* A terminal row is final: no transaction, however late, rewrites it. *)
TerminalIsFinal ==
  [][\A t \in Tasks :
       /\ dbTask[t] \in TaskTerminal => dbTask'[t] = dbTask[t]
       /\ \A c \in Clients : dbTarget[t][c] \in TerminalStatus =>
                               dbTarget'[t][c] = dbTarget[t][c]]_store

=============================================================================
