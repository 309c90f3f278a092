-------------------------- MODULE TaskStoreProofs --------------------------
(***************************************************************************)
(* What the task tables promise for every set of tasks and Clients and     *)
(* every choice of targets.  The argument: a transaction touches one task; *)
(* rows that agreed (ParentOK) agree again afterwards, because the parent  *)
(* is recomputed exactly when the last active target is gone; and no row   *)
(* that is terminal is in the domain of any UPDATE.                        *)
(***************************************************************************)
EXTENDS TaskStore, TLAPS

(* A Client that is no target of a task has no row in it; without this a    *)
(* creation could overwrite a terminal row.                                *)
NoStrayRows ==
  \A t \in Tasks : \A c \in Clients \ Targets[t] : dbTarget[t][c] = "none"

StoreInv == StoreTypeOK /\ ParentAgrees /\ NoStrayRows

----------------------------------------------------------------------------
(* One task. *)

(* The statuses aggregateTaskStatus may answer. *)
LEMMA AggregateIsTerminal ==
  ASSUME NEW t \in Tasks, NEW row \in [Clients -> RowStatus]
  PROVE  aggregateTaskStatus(t, row) \in TaskTerminal
  BY DEF aggregateTaskStatus, TaskTerminal, TerminalStatus

(* FinishedRow is a row of statuses and differs from the row it is made of  *)
(* at most in the target that finishes.                                    *)
LEMMA FinishedRowFacts ==
  ASSUME StoreTypeOK, NEW t \in Tasks, NEW c \in Clients, NEW s \in TerminalStatus
  PROVE  /\ FinishedRow(t, c, s) \in [Clients -> RowStatus]
         /\ \A d \in Clients \ {c} : FinishedRow(t, c, s)[d] = dbTarget[t][d]
         /\ storeTaskActive(t) => FinishedRow(t, c, s)[c] \in TerminalStatus
         /\ ~storeTaskActive(t) => FinishedRow(t, c, s) = dbTarget[t]
         /\ \A d \in Clients : dbTarget[t][d] \in TerminalStatus =>
                                 FinishedRow(t, c, s)[d] = dbTarget[t][d]
  BY DEF StoreTypeOK, FinishedRow, RowStatus, TerminalStatus

(* No transaction leaves the types. *)
LEMMA StoreTypeStep ==
  ASSUME StoreTypeOK, StoreNext
  PROVE  StoreTypeOK'
<1> USE TargetsAssumption DEF StoreTypeOK
<1>1. PICK t \in Tasks :
        \/ CreateTask(t)
        \/ \E c \in Targets[t] :
             \/ StartTarget(t, c) \/ RequeueTarget(t, c)
             \/ \E s \in TerminalStatus : FinishTarget(t, c, s)
        \/ \E s \in {"canceled", "failed"} : terminateTask(t, s)
  BY DEF StoreNext
<1>2. CASE CreateTask(t)
  BY <1>2 DEF CreateTask, RowStatus, TaskStatus
<1>3. ASSUME NEW c \in Targets[t], StartTarget(t, c)
      PROVE  StoreTypeOK'
  BY <1>3 DEF StartTarget, RowStatus, TaskStatus
<1>4. ASSUME NEW c \in Targets[t], RequeueTarget(t, c)
      PROVE  StoreTypeOK'
  BY <1>4 DEF RequeueTarget, RowStatus, TaskStatus
<1>5. ASSUME NEW c \in Targets[t], NEW s \in TerminalStatus, FinishTarget(t, c, s)
      PROVE  StoreTypeOK'
  <2> c \in Clients
    OBVIOUS
  <2>1. FinishedRow(t, c, s) \in [Clients -> RowStatus]
    BY FinishedRowFacts
  <2>2. aggregateTaskStatus(t, FinishedRow(t, c, s)) \in TaskStatus
    BY <2>1, AggregateIsTerminal DEF TaskStatus
  <2> QED
    BY <1>5, <2>1, <2>2 DEF FinishTarget
<1>6. ASSUME NEW s \in {"canceled", "failed"}, terminateTask(t, s)
      PROVE  StoreTypeOK'
  BY <1>6 DEF terminateTask, RowStatus, TaskStatus, TaskTerminal, TerminalStatus
<1> QED
  BY <1>1, <1>2, <1>3, <1>4, <1>5, <1>6

(* A task whose rows a step leaves alone agrees as before. *)
LEMMA ParentOKFrame ==
  ASSUME NEW t \in Tasks, ParentOK(t),
         dbTask'[t] = dbTask[t], dbTarget'[t] = dbTarget[t]
  PROVE  ParentOK(t)'
  BY DEF ParentOK, storeTaskActive

(* Every transaction on t leaves its rows agreeing. *)
LEMMA ParentCreate ==
  ASSUME StoreTypeOK, NEW t \in Tasks, ParentOK(t), CreateTask(t)
  PROVE  ParentOK(t)'
<1>1. Targets[t] \subseteq Clients /\ Targets[t] # {}
  BY TargetsAssumption
<1>2. dbTask'[t] = "queued" /\ \A c \in Targets[t] : dbTarget'[t][c] = "queued"
  BY <1>1 DEF StoreTypeOK, CreateTask
<1> QED
  BY <1>1, <1>2 DEF ParentOK, storeTaskActive, TerminalStatus, TaskTerminal

(* Starting a queued target leaves the parent running beside it. *)
LEMMA ParentStart ==
  ASSUME StoreTypeOK, NEW t \in Tasks, NEW c \in Targets[t], ParentOK(t),
         StartTarget(t, c)
  PROVE  ParentOK(t)'
  BY TargetsAssumption
  DEF StoreTypeOK, StartTarget, CanStart, ParentOK, storeTaskActive,
      TerminalStatus, TaskTerminal

(* A requeued target is still active, so its parent stays running. *)
LEMMA ParentRequeue ==
  ASSUME StoreTypeOK, NEW t \in Tasks, NEW c \in Targets[t], ParentOK(t),
         RequeueTarget(t, c)
  PROVE  ParentOK(t)'
  BY TargetsAssumption
  DEF StoreTypeOK, RequeueTarget, CanRequeue, ParentOK, storeTaskActive,
      TerminalStatus, TaskTerminal

(* The last target to finish decides the parent; an earlier one leaves it. *)
LEMMA ParentFinish ==
  ASSUME StoreTypeOK, NEW t \in Tasks, NEW c \in Targets[t],
         NEW s \in TerminalStatus, ParentOK(t), FinishTarget(t, c, s)
  PROVE  ParentOK(t)'
<1> DEFINE row == FinishedRow(t, c, s)
<1> HIDE DEF row
<1>0. c \in Clients /\ Targets[t] \subseteq Clients /\ Targets[t] # {}
  BY TargetsAssumption
<1>1. /\ row \in [Clients -> RowStatus]
      /\ \A d \in Clients \ {c} : row[d] = dbTarget[t][d]
      /\ storeTaskActive(t) => row[c] \in TerminalStatus
      /\ ~storeTaskActive(t) => row = dbTarget[t]
  BY <1>0, FinishedRowFacts DEF row
<1>2. dbTarget'[t] = row
  BY DEF FinishTarget, StoreTypeOK, row
<1>3. CASE ~storeTaskActive(t)
  <2>1. dbTask'[t] = dbTask[t] /\ dbTarget'[t] = dbTarget[t]
    BY <1>1, <1>2, <1>3 DEF FinishTarget
  <2> QED
    BY <2>1, ParentOKFrame
<1>4. CASE storeTaskActive(t) /\ ~AllTerminal(t, row)
  <2>1. dbTask'[t] = dbTask[t]
    BY <1>4 DEF FinishTarget, row
  <2>2. \E d \in Targets[t] : row[d] \in {"queued", "running"}
    BY <1>0, <1>1, <1>4
    DEF AllTerminal, ParentOK, RowStatus, TerminalStatus, storeTaskActive
  <2> QED
    BY <1>0, <1>1, <1>2, <1>4, <2>1, <2>2
    DEF ParentOK, storeTaskActive, TerminalStatus, TaskTerminal
<1>5. CASE storeTaskActive(t) /\ AllTerminal(t, row)
  <2>1. dbTask'[t] = aggregateTaskStatus(t, row)
    BY <1>5 DEF FinishTarget, StoreTypeOK, row
  <2>2. \A d \in Targets[t] : row[d] \in TerminalStatus
    BY <1>5 DEF AllTerminal
  <2> QED
    BY <1>0, <1>2, <2>1, <2>2
    DEF aggregateTaskStatus, ParentOK, storeTaskActive, TerminalStatus, TaskTerminal
<1> QED
  BY <1>3, <1>4, <1>5

(* Ending a task ends its active targets with it. *)
LEMMA ParentTerminate ==
  ASSUME StoreTypeOK, NEW t \in Tasks, NEW s \in {"canceled", "failed"},
         ParentOK(t), terminateTask(t, s)
  PROVE  ParentOK(t)'
<1>0. Targets[t] \subseteq Clients /\ Targets[t] # {}
  BY TargetsAssumption
<1>1. CASE ~storeTaskActive(t)
  <2>1. dbTask'[t] = dbTask[t] /\ dbTarget'[t] = dbTarget[t]
    BY <1>1 DEF terminateTask, CanTerminate, StoreTypeOK
  <2> QED
    BY <2>1, ParentOKFrame
<1>2. CASE storeTaskActive(t)
  <2>1. /\ dbTask'[t] = s
        /\ \A c \in Targets[t] :
             dbTarget'[t][c] = IF dbTarget[t][c] \in {"queued", "running"} THEN s
                               ELSE dbTarget[t][c]
    BY <1>0, <1>2 DEF terminateTask, StoreTypeOK
  <2>2. \E c \in Targets[t] : dbTarget[t][c] \in {"queued", "running"}
    BY <1>2 DEF ParentOK
  <2>3. \A c \in Targets[t] : dbTarget'[t][c] \in TerminalStatus
    BY <1>0, <1>2, <2>1 DEF ParentOK, StoreTypeOK, RowStatus, TerminalStatus, storeTaskActive
  <2> QED
    BY <1>0, <2>1, <2>2, <2>3
    DEF ParentOK, storeTaskActive, TerminalStatus, TaskTerminal
<1> QED
  BY <1>1, <1>2

----------------------------------------------------------------------------
(* The transactions. *)

(* The empty tables satisfy StoreInv. *)
LEMMA StoreInvInit ==
  ASSUME StoreInit PROVE StoreInv
  BY TargetsAssumption
  DEF StoreInit, StoreInv, StoreTypeOK, ParentAgrees, ParentOK, NoStrayRows,
      storeTaskActive, RowStatus, TaskStatus, TerminalStatus, TaskTerminal

(* A step of the store is one transaction on one task. *)
StoreStep(t) ==
  \/ CreateTask(t)
  \/ \E c \in Targets[t] :
       \/ StartTarget(t, c) \/ RequeueTarget(t, c)
       \/ \E s \in TerminalStatus : FinishTarget(t, c, s)
  \/ \E s \in {"canceled", "failed"} : terminateTask(t, s)

(* A transaction changes the rows of one task only. *)
LEMMA OtherTasksKeep ==
  ASSUME StoreTypeOK, NEW t \in Tasks, NEW u \in Tasks \ {t}, StoreStep(t)
  PROVE  dbTask'[u] = dbTask[u] /\ dbTarget'[u] = dbTarget[u]
  BY DEF StoreStep, StoreTypeOK, CreateTask, StartTarget, RequeueTarget,
         FinishTarget, terminateTask

(* Every transaction leaves every parent agreeing with its targets. *)
LEMMA ParentStep ==
  ASSUME StoreTypeOK, NEW t \in Tasks, ParentOK(t), StoreStep(t)
  PROVE  ParentOK(t)'
  BY ParentCreate, ParentStart, ParentRequeue, ParentFinish, ParentTerminate
  DEF StoreStep

(* No transaction gives a row to a Client the task was not created for. *)
LEMMA StrayStep ==
  ASSUME StoreInv, NEW t \in Tasks, StoreStep(t)
  PROVE  \A d \in Clients \ Targets[t] : dbTarget'[t][d] = "none"
<1> TAKE d \in Clients \ Targets[t]
<1>0. Targets[t] \subseteq Clients /\ dbTarget[t][d] = "none" /\ StoreTypeOK
  BY TargetsAssumption DEF StoreInv, NoStrayRows
<1>1. ASSUME NEW c \in Targets[t], NEW s \in TerminalStatus, FinishTarget(t, c, s)
      PROVE  dbTarget'[t][d] = "none"
  <2>1. c \in Clients /\ d \in Clients \ {c}
    BY <1>0
  <2>2. FinishedRow(t, c, s)[d] = dbTarget[t][d]
    BY <1>0, <2>1, FinishedRowFacts
  <2> QED
    BY <1>0, <1>1, <2>2 DEF FinishTarget, StoreTypeOK
<1> QED
  BY <1>0, <1>1
  DEF StoreStep, StoreTypeOK, CreateTask, StartTarget, RequeueTarget, terminateTask

(* Every transaction keeps StoreInv. *)
LEMMA StoreInvStep ==
  ASSUME StoreInv, [StoreNext]_store
  PROVE  StoreInv'
<1>1. CASE UNCHANGED store
  BY <1>1
  DEF store, StoreInv, StoreTypeOK, ParentAgrees, ParentOK, NoStrayRows, storeTaskActive
<1>2. ASSUME NEW t \in Tasks, StoreStep(t)
      PROVE  ParentAgrees' /\ NoStrayRows'
  <2>1. StoreTypeOK /\ ParentAgrees /\ NoStrayRows
    BY DEF StoreInv
  <2>2. ParentOK(t)'
    BY <1>2, <2>1, ParentStep DEF ParentAgrees
  <2>3. ASSUME NEW u \in Tasks \ {t}
        PROVE  ParentOK(u)' /\ dbTarget'[u] = dbTarget[u]
    BY <1>2, <2>1, OtherTasksKeep, ParentOKFrame DEF ParentAgrees
  <2>4. \A d \in Clients \ Targets[t] : dbTarget'[t][d] = "none"
    BY <1>2, StrayStep
  <2>5. ParentAgrees'
    BY <2>2, <2>3 DEF ParentAgrees
  <2>6. NoStrayRows'
    BY <2>1, <2>3, <2>4 DEF NoStrayRows
  <2> QED
    BY <2>5, <2>6
<1>3. CASE StoreNext
  <2>1. StoreTypeOK'
    BY <1>3, StoreTypeStep DEF StoreInv
  <2> QED
    BY <1>2, <1>3, <2>1 DEF StoreInv, StoreNext, StoreStep
<1> QED
  BY <1>1, <1>3

(* The rows only hold statuses, a parent row agrees with its targets, and   *)
(* only targets have rows, whatever transactions are called in whatever    *)
(* order.                                                                  *)
THEOREM StoreInvariant == StoreSpec => []StoreInv
<1>1. StoreInv /\ [StoreNext]_store => StoreInv'
  BY StoreInvStep
<1> QED
  BY <1>1, StoreInvInit, PTL DEF StoreSpec

(* A parent row always agrees with its targets. *)
THEOREM ParentRowsAgree == StoreSpec => []ParentAgrees
<1>1. StoreInv => ParentAgrees
  BY DEF StoreInv
<1> QED
  BY <1>1, StoreInvariant, PTL

----------------------------------------------------------------------------
(* Terminal rows are final. *)

KeepsTerminal(t) ==
  /\ dbTask[t] \in TaskTerminal => dbTask'[t] = dbTask[t]
  /\ \A c \in Clients :
       dbTarget[t][c] \in TerminalStatus => dbTarget'[t][c] = dbTarget[t][c]

(* FinishTarget on a terminal target or task changes nothing of it. *)
LEMMA FinishKeepsTerminal ==
  ASSUME StoreInv, NEW t \in Tasks, NEW c \in Targets[t],
         NEW s \in TerminalStatus, FinishTarget(t, c, s)
  PROVE  KeepsTerminal(t)
<1>1. c \in Clients /\ StoreTypeOK
  BY TargetsAssumption DEF StoreInv
<1>2. \A d \in Clients : dbTarget[t][d] \in TerminalStatus =>
                           FinishedRow(t, c, s)[d] = dbTarget[t][d]
  BY <1>1, FinishedRowFacts
<1> QED
  BY <1>1, <1>2
  DEF FinishTarget, KeepsTerminal, StoreTypeOK, storeTaskActive, TaskTerminal,
      TerminalStatus

(* No transaction rewrites a terminal row. *)
LEMMA StepKeepsTerminal ==
  ASSUME StoreInv, NEW t \in Tasks, StoreStep(t)
  PROVE  KeepsTerminal(t)
<1>0. StoreTypeOK /\ ParentOK(t) /\ NoStrayRows /\ Targets[t] \subseteq Clients
  BY TargetsAssumption DEF StoreInv, ParentAgrees
<1>1. CASE CreateTask(t)
  <2>1. \A c \in Clients : dbTarget[t][c] = "none"
    BY <1>0, <1>1 DEF CreateTask, ParentOK, NoStrayRows
  <2> QED
    BY <1>1, <2>1 DEF CreateTask, KeepsTerminal, TerminalStatus, TaskTerminal
<1>2. ASSUME NEW c \in Targets[t], StartTarget(t, c) \/ RequeueTarget(t, c)
      PROVE  KeepsTerminal(t)
  BY <1>0, <1>2
  DEF StartTarget, CanStart, RequeueTarget, CanRequeue, KeepsTerminal, StoreTypeOK,
      storeTaskActive, TerminalStatus, TaskTerminal
<1>3. ASSUME NEW s \in {"canceled", "failed"}, terminateTask(t, s)
      PROVE  KeepsTerminal(t)
  BY <1>0, <1>3
  DEF terminateTask, CanTerminate, KeepsTerminal, StoreTypeOK, storeTaskActive,
      TerminalStatus, TaskTerminal
<1> QED
  BY <1>1, <1>2, <1>3, FinishKeepsTerminal DEF StoreStep

(* From StoreInv, a step of StoreSpec keeps terminal rows. *)
LEMMA TransactionsKeepTerminal ==
  ASSUME StoreInv, StoreNext
  PROVE  \A t \in Tasks : KeepsTerminal(t)
<1>1. PICK t \in Tasks : StoreStep(t)
  BY DEF StoreNext, StoreStep
<1>2. KeepsTerminal(t)
  BY <1>1, StepKeepsTerminal
<1>3. ASSUME NEW u \in Tasks \ {t} PROVE KeepsTerminal(u)
  BY <1>1, OtherTasksKeep DEF KeepsTerminal, StoreInv
<1> QED
  BY <1>2, <1>3

(* No transaction, however late it is called, rewrites a terminal row. *)
THEOREM TerminalRowsAreFinal == StoreSpec => TerminalIsFinal
<1>1. StoreInv /\ [StoreNext]_store =>
        [\A t \in Tasks : KeepsTerminal(t)]_store
  BY TransactionsKeepTerminal
<1> QED
  BY <1>1, StoreInvariant, PTL DEF StoreSpec, TerminalIsFinal, KeepsTerminal

=============================================================================
