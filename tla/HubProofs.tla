----------------------------- MODULE HubProofs -----------------------------
(***************************************************************************)
(* What holds of the Hub for every set of tasks, Clients, connections and  *)
(* proxies, in the order of what rests on what:                            *)
(*   types; every step is a transaction of the store or leaves it alone,   *)
(*   which carries the theorems of TaskStoreProofs over to the Hub;        *)
(*   the exclusivity of leases, inductive by itself because every path     *)
(*   gives leases up through releaseActiveWork and only Reserve adds one;  *)
(*   statuses and leases; expired tasks;                                   *)
(*   memory and rows (MemInv: what each kind of open section has committed *)
(*   and memory does not know yet), and the writing of results;            *)
(*   completed targets (TestedInv); revoked Clients (RevokedSettling);     *)
(*   and the waking of the scheduler (WakeInv).                            *)
(***************************************************************************)
EXTENDS Hub, TaskStoreProofs, FiniteSetTheorems

----------------------------------------------------------------------------
(* Types. *)

(* The initial state is well typed. *)
LEMMA TypeInit ==
  ASSUME Init PROVE TypeOK
<1>1. StoreTypeOK
  BY StoreInvInit DEF Init, StoreInv
<1> QED
  BY <1>1, HubAssumption DEF Init, TypeOK, TaskTypeOK, WorkTypeOK, SectionTypeOK,
        ConnTypeOK, PhaseTypeOK, CallTypeOK, AccessTypeOK, Section, Free, TargetStatus

(* Writing one target status keeps their type. *)
LEMMA SetStatusType ==
  ASSUME status \in [Tasks -> [Clients -> TargetStatus]],
         NEW t \in Tasks, NEW c \in Clients, NEW s \in TargetStatus,
         SetStatus(t, c, s) \/ UNCHANGED status
  PROVE  status' \in [Tasks -> [Clients -> TargetStatus]]
  BY DEF SetStatus

(* Of what the other parts of the Hub see, Shutdown's steps between its     *)
(* transactions change nothing.                                            *)
LEMMA OfShutdown ==
  ASSUME ShutdownStep
  PROVE  UNCHANGED <<store, disabled, revoked, closing, results, runtime, status, done,
                    work, links, issued, tx, timer, calls, frames, wake, sched>>
  BY DEF ShutdownStep, WaitForHandlers, ShutdownDeadline, ShutdownRefused,
         ShutdownSkips, Shutting, gates

(* No step leaves the types, given that the rows keep theirs. *)
LEMMA TypeStep ==
  ASSUME TypeOK, StoreTypeOK', Next
  PROVE  TypeOK'
<1> USE HubAssumption DEF TypeOK, TaskTypeOK, WorkTypeOK, SectionTypeOK,
        ConnTypeOK, PhaseTypeOK, CallTypeOK, AccessTypeOK, store, work, calls, frames, sched, links, access,
        gates
<1>1. ASSUME NEW t \in Tasks, startTask(t) PROVE TypeOK'
  BY <1>1 DEF startTask
<1>2. ASSUME NEW t \in Tasks, AddTask(t) PROVE TypeOK'
  BY <1>2, TargetsAssumption DEF AddTask, RevokedTargets, TargetStatus, ActiveStatus, TerminalStatus
<1>3. ASSUME NEW t \in Tasks, CancelBegin(t) PROVE TypeOK'
  BY <1>3 DEF CancelBegin, Enter, Section, Free, TargetStatus
<1>4. ASSUME NEW t \in Tasks, CancelEnd(t) PROVE TypeOK'
  BY <1>4 DEF CancelEnd, Leave, RemoveTask, releaseActiveWork, Section, Free, TargetStatus, TerminalStatus
<1>5. ASSUME NEW t \in Tasks, ExpireBegin(t) PROVE TypeOK'
  BY <1>5 DEF ExpireBegin, Enter, Section, Free, TargetStatus
<1>6. ASSUME NEW t \in Tasks, ExpireStoreFails(t) PROVE TypeOK'
  BY <1>6 DEF ExpireStoreFails, scheduleExpiryRetry, Leave, Section, Free, TargetStatus
<1>7. ASSUME NEW t \in Tasks, ExpireStore(t) PROVE TypeOK'
  BY <1>7 DEF ExpireStore, Enter, Section, Free, TargetStatus
<1>8. ASSUME NEW t \in Tasks, ExpireEnd(t) PROVE TypeOK'
  BY <1>8 DEF ExpireEnd, Enter, RemoveTask, releaseActiveWork, Section, Free, TargetStatus
<1>9. ASSUME NEW t \in Tasks, ExpireSchedule(t) PROVE TypeOK'
  BY <1>9 DEF ExpireSchedule, Leave, Section, Free, TargetStatus
<1>10. ASSUME NEW t \in Tasks, FlushBegin(t) PROVE TypeOK'
  BY <1>10 DEF FlushBegin, Enter, Section, Free, TargetStatus
<1>11. ASSUME NEW t \in Tasks, FlushEnd(t) PROVE TypeOK'
  BY <1>11 DEF FlushEnd, Leave, RemoveTask, releaseActiveWork, Section, Free, TargetStatus
<1>12. ASSUME NEW t \in Tasks, RequeueEnd(t) PROVE TypeOK'
  <2>1. tx[t].client \in Clients /\ tx[t] \in Section
    BY <1>12 DEF RequeueEnd
  <2>2. status' \in [Tasks -> [Clients -> TargetStatus]]
    <3>1. SetStatus(t, tx[t].client, "queued") \/ UNCHANGED status
      BY <1>12 DEF RequeueEnd
    <3> QED
      BY <2>1, <3>1, SetStatusType DEF TargetStatus, ActiveStatus
  <2>3. SectionTypeOK'
    BY <1>12 DEF RequeueEnd, Leave, Section, Free, TargetStatus
  <2>4. WorkTypeOK'
    BY <1>12 DEF RequeueEnd, releaseActiveWork
  <2>5. TaskTypeOK'
    BY <1>12, <2>2 DEF RequeueEnd
  <2>6. ConnTypeOK' /\ CallTypeOK' /\ AccessTypeOK'
    BY <1>12 DEF RequeueEnd
  <2> HIDE DEF TaskTypeOK, WorkTypeOK, SectionTypeOK, ConnTypeOK, CallTypeOK, AccessTypeOK
  <2> QED
    BY <2>3, <2>4, <2>5, <2>6
<1>13. ASSUME NEW t \in Tasks, AckEnd(t) PROVE TypeOK'
  <2>1. tx[t].client \in Clients /\ tx[t].conn \in Conns
    BY <1>13 DEF AckEnd
  <2>2. status' \in [Tasks -> [Clients -> TargetStatus]] /\ started' \subseteq Ref
    <3>1. SetStatus(t, tx[t].client, "running") \/ UNCHANGED status
      BY <1>13 DEF AckEnd
    <3>2. started' \subseteq Ref
      BY <1>13 DEF AckEnd, Matching, ActiveWork
    <3> QED
      BY <2>1, <3>1, <3>2, SetStatusType DEF TargetStatus, ActiveStatus
  <2>3. SectionTypeOK'
    BY <1>13 DEF AckEnd, Leave, Section, Free, TargetStatus
  <2>4. PhaseTypeOK'
    BY <1>13 DEF AckEnd, SetPhase
  <2>5. TaskTypeOK' /\ WorkTypeOK'
    BY <1>13, <2>2 DEF AckEnd
  <2>6. ConnTypeOK' /\ CallTypeOK' /\ AccessTypeOK'
    BY <1>13, <2>4 DEF AckEnd
  <2> HIDE DEF TaskTypeOK, WorkTypeOK, SectionTypeOK, ConnTypeOK, CallTypeOK, AccessTypeOK
  <2> QED
    BY <2>3, <2>5, <2>6
<1>14. ASSUME NEW t \in Tasks, FinishEnd(t) PROVE TypeOK'
  <2>1. tx[t].client \in Clients /\ tx[t].to \in TargetStatus
    BY <1>14 DEF FinishEnd, Section
  <2>2. status' \in [Tasks -> [Clients -> TargetStatus]]
    <3>1. SetStatus(t, tx[t].client, tx[t].to) \/ UNCHANGED status
      BY <1>14 DEF FinishEnd
    <3> QED
      BY <2>1, <3>1, SetStatusType
  <2>3. SectionTypeOK'
    BY <1>14 DEF FinishEnd, Leave, Section, Free, TargetStatus
  <2>4. PhaseTypeOK'
    BY <1>14 DEF FinishEnd
  <2>5. WorkTypeOK'
    BY <1>14 DEF FinishEnd, RemoveTask, releaseActiveWork
  <2>6. TaskTypeOK'
    BY <1>14, <2>2 DEF FinishEnd, RemoveTask
  <2>7. ConnTypeOK' /\ CallTypeOK' /\ AccessTypeOK'
    BY <1>14, <2>4 DEF FinishEnd
  <2> HIDE DEF TaskTypeOK, WorkTypeOK, SectionTypeOK, ConnTypeOK, CallTypeOK, AccessTypeOK
  <2> QED
    BY <2>3, <2>5, <2>6, <2>7
<1>15. ASSUME NEW k \in Conns, Register(k) PROVE TypeOK'
  BY <1>15 DEF Register, SetPhase, NeedingRequeue
<1>16. ASSUME NEW k \in Conns, Registered(k) PROVE TypeOK'
  BY <1>16 DEF Registered, SetPhase
<1>17. ASSUME NEW k \in Conns, Unregister(k) PROVE TypeOK'
  BY <1>17 DEF Unregister, SetPhase, NeedingRequeue
<1>18. ASSUME NEW k \in Conns, Unregistered(k) PROVE TypeOK'
  BY <1>18 DEF Unregistered, SetPhase
<1>19. ASSUME NEW c \in Clients, DisableClient(c) PROVE TypeOK'
  BY <1>19 DEF DisableClient
<1>20. ASSUME NEW c \in Clients, RevokeClient(c) PROVE TypeOK'
  BY <1>20 DEF RevokeClient, TerminalStatus
<1>21. ASSUME NEW q \in requeuing, RequeueDropped(q) PROVE TypeOK'
  BY <1>21 DEF RequeueDropped
<1>22. ASSUME NEW q \in requeuing, RequeueBegin(q) PROVE TypeOK'
  <2>1. /\ q.task \in Tasks /\ Owner[q.conn] \in Clients /\ q.conn \in Conns
        /\ status[q.task][Owner[q.conn]] \in TargetStatus
    OBVIOUS
  <2>2. /\ tx' \in [Tasks -> Section]
        /\ tx'[q.task].client = Owner[q.conn] /\ tx'[q.task].op = "requeue"
        /\ \A u \in Tasks \ {q.task} : tx'[u] = tx[u]
    BY <1>22, <2>1 DEF RequeueBegin, Enter, Section, Free
  <2>3. requeuing' \subseteq [task : Tasks, conn : Conns]
    BY <1>22 DEF RequeueBegin
  <2> QED
    BY <1>22, <2>1, <2>2, <2>3 DEF RequeueBegin
<1>23. ASSUME NEW f \in finishing, FinishDropped(f) PROVE TypeOK'
  BY <1>23 DEF FinishDropped
<1>24. ASSUME NEW f \in finishing, FinishBegin(f) PROVE TypeOK'
  <2> DEFINE row == FinishedRow(f.task, f.client, f.to)
  <2>1. /\ f.task \in Tasks /\ f.client \in Clients /\ f.to \in TerminalStatus
        /\ f.conn \in Conns \cup {None}
    OBVIOUS
  <2>2. row[f.client] \in TargetStatus \ {"assigned"}
    BY <2>1, FinishedRowFacts DEF RowStatus, TargetStatus, ActiveStatus, TerminalStatus
  <2> HIDE DEF row
  <2>3. /\ tx' \in [Tasks -> Section]
        /\ tx'[f.task].client = f.client /\ tx'[f.task].op = "finish"
        /\ tx'[f.task].to # "assigned"
        /\ \A u \in Tasks \ {f.task} : tx'[u] = tx[u]
    <3> DEFINE section == [Free EXCEPT !.op = "finish", !.client = f.client,
                             !.conn = f.conn, !.to = row[f.client],
                             !.last = ~storeTaskActive(f.task) \/ AllTerminal(f.task, row)]
    <3>1. tx' = [tx EXCEPT ![f.task] = section]
      BY <1>24 DEF FinishBegin, Enter, row
    <3>2. section \in Section /\ section.client = f.client /\ section.op = "finish"
          /\ section.to # "assigned"
      BY <2>1, <2>2 DEF Section, Free
    <3> HIDE DEF section
    <3> QED
      BY <2>1, <3>1, <3>2
  <2>4. finishing' \subseteq finishing
    BY <1>24 DEF FinishBegin
  <2> QED
    BY <1>24, <2>1, <2>3, <2>4 DEF FinishBegin
<1>25. ASSUME NEW f \in offered, AckDropped(f) PROVE TypeOK'
  BY <1>25 DEF AckDropped
<1>26. ASSUME NEW f \in offered, AckBegin(f) PROVE TypeOK'
  BY <1>26 DEF AckBegin, Enter, SetPhase, Section, Free, TargetStatus, Ref
<1>27. ASSUME NEW f \in working, saveResult(f) PROVE TypeOK'
  BY <1>27 DEF saveResult, Ref
<1>28. ASSUME NEW f \in working, UnitReportDropped(f) PROVE TypeOK'
  BY <1>28 DEF UnitReportDropped
<1>29. ASSUME NEW f \in working, completeWork(f) PROVE TypeOK'
  <2>1. /\ f.ref.task \in Tasks /\ f.ref.client \in Clients /\ f.ref.proxy \in Proxies
        /\ f.conn \in Conns
    BY DEF Ref
  <2>2. done' \in [Tasks -> [Clients -> SUBSET Proxies]]
    BY <1>29, <2>1 DEF completeWork
  <2>3. WorkTypeOK'
    BY <1>29 DEF completeWork, releaseActiveWork, FinishFromPeer
  <2>4. CallTypeOK' /\ PhaseTypeOK'
    <3>1. \/ UNCHANGED <<requeuing, finishing, phase>>
          \/ FinishFromPeer(f, "completed") /\ UNCHANGED requeuing
      BY <1>29 DEF completeWork
    <3>2. CASE UNCHANGED <<requeuing, finishing, phase>>
      BY <3>2
    <3>3. CASE FinishFromPeer(f, "completed") /\ UNCHANGED requeuing
      BY <2>1, <3>3 DEF FinishFromPeer, SetPhase, TerminalStatus
    <3> QED
      BY <3>1, <3>2, <3>3
  <2>5. TaskTypeOK' /\ SectionTypeOK'
    BY <1>29, <2>2 DEF completeWork
  <2>6. ConnTypeOK' /\ AccessTypeOK'
    BY <1>29, <2>4 DEF completeWork, FinishFromPeer
  <2> HIDE DEF TaskTypeOK, WorkTypeOK, SectionTypeOK, ConnTypeOK, CallTypeOK, AccessTypeOK
  <2> QED
    BY <1>29, <2>3, <2>4, <2>5, <2>6 
<1>30. ASSUME NEW f \in working, failWork(f) PROVE TypeOK'
  BY <1>30 DEF failWork, releaseActiveWork, FinishFromPeer, SetPhase, Ref, TerminalStatus
<1>31. CASE PassBegin
  BY <1>31 DEF PassBegin
<1>32. CASE PassEnd
  BY <1>32 DEF PassEnd
<1>33. ASSUME NEW t \in Tasks, NEW c \in Clients, NEW p \in Proxies, Reserve(t, c, p)
       PROVE  TypeOK'
  BY <1>33 DEF Reserve, Eligible, Ref, TargetStatus, ActiveStatus
<1>34. ASSUME NEW v \in reserved, SendSkipped(v) PROVE TypeOK'
  BY <1>34 DEF SendSkipped
<1>35. ASSUME NEW v \in reserved, SendBegin(v) PROVE TypeOK'
  BY <1>35 DEF SendBegin, Enter, Section, Free, TargetStatus
<1>36. ASSUME NEW v \in reserved, SendEnd(v) PROVE TypeOK'
  BY <1>36 DEF SendEnd, Leave, Section, Free, TargetStatus
<1>37. ASSUME NEW v \in reserved, SendFails(v) PROVE TypeOK'
  <2>1. v.ref.task \in Tasks /\ v.ref.client \in Clients /\ v.conn \in Conns
    BY DEF Ref
  <2>2. status' \in [Tasks -> [Clients -> TargetStatus]]
    <3>1. SetStatus(v.ref.task, v.ref.client, "queued") \/ UNCHANGED status
      BY <1>37 DEF SendFails, SetStatus
    <3> QED
      BY <2>1, <3>1, SetStatusType DEF TargetStatus, ActiveStatus
  <2>3. SectionTypeOK'
    BY <1>37 DEF SendFails, Leave, Section, Free, TargetStatus
  <2>4. WorkTypeOK'
    BY <1>37 DEF SendFails, releaseActiveWork
  <2>5. TaskTypeOK'
    BY <1>37, <2>2 DEF SendFails
  <2>6. ConnTypeOK' /\ CallTypeOK' /\ AccessTypeOK'
    BY <1>37, <2>1 DEF SendFails
  <2> HIDE DEF TaskTypeOK, WorkTypeOK, SectionTypeOK, ConnTypeOK, CallTypeOK, AccessTypeOK
  <2> QED
    BY <2>3, <2>4, <2>5, <2>6
<1>38. CASE BeginShutdown
  <2>1. timer' \subseteq Tasks
    BY <1>38 DEF BeginShutdown
  <2> QED
    BY <1>38, <2>1 DEF BeginShutdown
<1>39. CASE ShutdownStep
  BY <1>39 DEF ShutdownStep, WaitForHandlers, ShutdownDeadline, ShutdownRefused,
               ShutdownSkips, Shutting
<1> HIDE DEF TypeOK
<1> QED
  BY <1>1, <1>2, <1>3, <1>4, <1>5, <1>6, <1>7, <1>8, <1>9, <1>10, <1>11, <1>12,
     <1>13, <1>14, <1>15, <1>16, <1>17, <1>18, <1>19, <1>20, <1>21, <1>22, <1>23,
     <1>24, <1>25, <1>26, <1>27, <1>28, <1>29, <1>30, <1>31, <1>32, <1>33, <1>34,
     <1>35, <1>36, <1>37, <1>38, <1>39
  DEF Next, TaskStep, ConnStep, CallStep, MessageStep, PassStep

----------------------------------------------------------------------------
(* The Hub uses the store as StoreSpec says. *)

(* A row that is not "none" belongs to a target. *)
LEMMA RowsOfTargets ==
  ASSUME StoreInv, NEW t \in Tasks, NEW c \in Clients, dbTarget[t][c] # "none"
  PROVE  c \in Targets[t]
  BY DEF StoreInv, NoStrayRows

(* Every step is one transaction or leaves the rows alone. *)
LEMMA HubStoreStep ==
  ASSUME TypeOK, StoreInv, Next
  PROVE  StoreNext \/ UNCHANGED store
<1> USE DEF store
<1>1. ASSUME NEW t \in Tasks, startTask(t) PROVE StoreNext
  BY <1>1 DEF startTask, StoreNext
<1>2. ASSUME NEW t \in Tasks, CancelBegin(t) \/ ExpireStore(t) \/ FlushBegin(t)
      PROVE  StoreNext
  <2>1. \E s \in {"canceled", "failed"} : terminateTask(t, s)
    BY <1>2 DEF CancelBegin, ExpireStore, FlushBegin
  <2> QED
    BY <2>1 DEF StoreNext
<1>3. ASSUME NEW q \in requeuing, RequeueBegin(q) PROVE StoreNext \/ UNCHANGED store
  <2> DEFINE t == q.task  c == Owner[q.conn]
  <2>1. t \in Tasks /\ c \in Clients
    BY HubAssumption DEF TypeOK, CallTypeOK
  <2>2. RequeueTarget(t, c) \/ UNCHANGED store
    BY <1>3 DEF RequeueBegin
  <2>3. RequeueTarget(t, c) => c \in Targets[t]
    BY <2>1, RowsOfTargets DEF RequeueTarget, CanRequeue
  <2> QED
    BY <2>1, <2>2, <2>3 DEF StoreNext
<1>4. ASSUME NEW f \in offered, AckBegin(f) PROVE StoreNext \/ UNCHANGED store
  <2> DEFINE t == f.ref.task  c == f.ref.client
  <2>1. t \in Tasks /\ c \in Clients
    BY DEF TypeOK, WorkTypeOK, Ref
  <2>2. StartTarget(t, c) \/ UNCHANGED store
    BY <1>4 DEF AckBegin
  <2>3. StartTarget(t, c) => c \in Targets[t]
    BY <2>1, RowsOfTargets DEF StartTarget, CanStart
  <2> QED
    BY <2>1, <2>2, <2>3 DEF StoreNext
<1>5. ASSUME NEW f \in finishing, FinishBegin(f) PROVE StoreNext
  <2>1. f.task \in Tasks /\ f.to \in TerminalStatus
    BY DEF TypeOK, CallTypeOK
  <2>2. FinishTarget(f.task, f.client, f.to)
    BY <1>5 DEF FinishBegin
  <2>3. f.client \in Targets[f.task]
    BY <2>2 DEF FinishTarget
  <2> QED
    BY <2>1, <2>2, <2>3 DEF StoreNext
<1>6. ASSUME NEW t \in Tasks,
             \/ AddTask(t) \/ ExpireBegin(t) \/ ExpireStoreFails(t) \/ RequeueEnd(t)
             \/ AckEnd(t) \/ FinishEnd(t) \/ CancelEnd(t) \/ ExpireEnd(t)
             \/ ExpireSchedule(t) \/ FlushEnd(t)
      PROVE  UNCHANGED store
  BY <1>6 DEF AddTask, ExpireBegin, ExpireStoreFails, RequeueEnd, AckEnd, FinishEnd,
              CancelEnd, ExpireEnd, ExpireSchedule, FlushEnd
<1>7. ASSUME NEW k \in Conns,
             Register(k) \/ Registered(k) \/ Unregister(k) \/ Unregistered(k)
      PROVE  UNCHANGED store
  BY <1>7 DEF Register, Registered, Unregister, Unregistered
<1>8. ASSUME NEW c \in Clients, DisableClient(c) \/ RevokeClient(c)
      PROVE  UNCHANGED store
  BY <1>8 DEF DisableClient, RevokeClient
<1>9. ASSUME \/ \E q \in requeuing : RequeueDropped(q)
             \/ \E f \in finishing : FinishDropped(f)
             \/ \E f \in offered : AckDropped(f)
      PROVE  UNCHANGED store
  BY <1>9 DEF RequeueDropped, FinishDropped, AckDropped
<1>10. ASSUME NEW f \in working,
              saveResult(f) \/ UnitReportDropped(f) \/ completeWork(f) \/ failWork(f)
       PROVE  UNCHANGED store
  BY <1>10 DEF saveResult, UnitReportDropped, completeWork, failWork
<1>11. ASSUME PassStep PROVE UNCHANGED store
  BY <1>11 DEF PassStep, PassBegin, PassEnd, Reserve, SendSkipped, SendBegin, SendEnd,
               SendFails
<1>12. ASSUME BeginShutdown \/ ShutdownStep PROVE UNCHANGED store
  BY <1>12, OfShutdown DEF BeginShutdown
<1> QED
  BY <1>1, <1>2, <1>3, <1>4, <1>5, <1>6, <1>7, <1>8, <1>9, <1>10, <1>11, <1>12
  DEF Next, TaskStep, ConnStep, CallStep, MessageStep

TypedInv == TypeOK /\ StoreInv

(* Each step keeps the types and the agreement of the rows. *)
LEMMA TypedInvStep ==
  ASSUME TypedInv, [Next]_vars
  PROVE  TypedInv' /\ [StoreNext]_store
<1>1. CASE UNCHANGED vars
  <2>1. UNCHANGED store
    BY <1>1 DEF vars, store
  <2>2. StoreInv'
    BY <2>1, StoreInvStep DEF TypedInv
  <2> QED
    BY <1>1, <2>1, <2>2
    DEF vars, TypedInv, TypeOK, StoreInv, TaskTypeOK, WorkTypeOK, SectionTypeOK,
        ConnTypeOK, PhaseTypeOK, CallTypeOK, AccessTypeOK
<1>2. CASE Next
  <2>1. [StoreNext]_store
    BY <1>2, HubStoreStep DEF TypedInv
  <2>2. StoreInv'
    BY <2>1, StoreInvStep DEF TypedInv
  <2>3. TypeOK'
    BY <1>2, <2>2, TypeStep DEF TypedInv, StoreInv
  <2> QED
    BY <2>1, <2>2, <2>3 DEF TypedInv
<1> QED
  BY <1>1, <1>2

(* The empty tables and the empty Hub satisfy TypedInv. *)
LEMMA TypedInvInit ==
  ASSUME Init PROVE TypedInv /\ StoreInit
  BY TypeInit, StoreInvInit DEF Init, TypedInv

(* The types of memory and rows, and the agreement of the rows. *)
THEOREM TypedInvariant == Spec => []TypedInv
<1>1. Init => TypedInv
  BY TypedInvInit
<1>2. TypedInv /\ [Next]_vars => TypedInv'
  BY TypedInvStep
<1> QED
  BY <1>1, <1>2, PTL DEF Spec

(* Every variable of the Hub keeps its type, whatever the interleaving of   *)
(* requests, connections, timers and scheduler passes.                     *)
THEOREM TypeCorrect == Spec => []TypeOK
<1>1. TypedInv => TypeOK
  BY DEF TypedInv
<1> QED
  BY <1>1, TypedInvariant, PTL

(* The Hub changes the rows by the store's transactions only, each on an    *)
(* existing task and a target of it: Hub implements TaskStore.             *)
THEOREM HubImplementsStore == Spec => StoreSpec
<1>1. Init => StoreInit
  BY TypedInvInit
<1>2. TypedInv /\ [Next]_vars => [StoreNext]_store
  BY TypedInvStep
<1> QED
  BY <1>1, <1>2, TypedInvariant, PTL DEF Spec, StoreSpec

(* In every run of the Hub a parent row agrees with its targets ... *)
THEOREM HubParentsAgree == Spec => []ParentAgrees
  BY HubImplementsStore, ParentRowsAgree, PTL

(* ... and a late message, timer or cancellation never rewrites a terminal  *)
(* row.                                                                    *)
THEOREM HubTerminalFinal == Spec => TerminalIsFinal
  BY HubImplementsStore, TerminalRowsAreFinal, PTL

----------------------------------------------------------------------------
(* Leases. *)

(* Giving leases up cannot make two of them meet. *)
LEMMA ReleaseKeepsExclusive ==
  ASSUME LeasesExclusive, NEW S, releaseActiveWork(S)
  PROVE  LeasesExclusive'
  BY DEF LeasesExclusive, releaseActiveWork

(* A step that touches no lease cannot make two of them meet. *)
LEMMA UnchangedKeepsExclusive ==
  ASSUME LeasesExclusive, UNCHANGED <<leases, clientWork, proxyWork>>
  PROVE  LeasesExclusive'
  BY DEF LeasesExclusive

(* A reservation takes an idle Client and a proxy nobody tests. *)
LEMMA ReserveKeepsExclusive ==
  ASSUME LeasesExclusive, NEW t, NEW c, NEW p, Reserve(t, c, p)
  PROVE  LeasesExclusive'
<1> DEFINE ref == [task |-> t, client |-> c, proxy |-> p, work |-> issued[c] + 1]
<1>1. /\ \A r \in leases : r.client # c /\ r.proxy # p
      /\ ref.client = c /\ ref.proxy = p
  BY DEF Reserve, Eligible, LeasesExclusive
<1>2. /\ leases' = leases \cup {ref} /\ clientWork' = clientWork \cup {ref}
      /\ proxyWork' = proxyWork \cup {ref}
  BY DEF Reserve
<1> HIDE DEF ref
<1> QED
  BY <1>1, <1>2 DEF LeasesExclusive

(* Every step of the Hub keeps the leases exclusive. *)
LEMMA ExclusiveStep ==
  ASSUME LeasesExclusive, [Next]_vars
  PROVE  LeasesExclusive'
<1> USE DEF work
<1>1. CASE UNCHANGED vars
  BY <1>1, UnchangedKeepsExclusive DEF vars
<1>2. ASSUME NEW t \in Tasks, TaskStep(t) PROVE LeasesExclusive'
  <2>1. (\E S : releaseActiveWork(S)) \/ UNCHANGED <<leases, clientWork, proxyWork>>
    BY <1>2 DEF TaskStep, RequeueEnd, AckEnd, FinishEnd, CancelEnd, ExpireStore,
                ExpireEnd, ExpireSchedule, FlushEnd, RemoveTask
  <2> QED
    BY <2>1, ReleaseKeepsExclusive, UnchangedKeepsExclusive
<1>3. ASSUME NEW t \in Tasks,
             \/ startTask(t) \/ AddTask(t) \/ CancelBegin(t) \/ ExpireBegin(t)
             \/ ExpireStoreFails(t) \/ FlushBegin(t)
      PROVE  UNCHANGED <<leases, clientWork, proxyWork>>
  BY <1>3 DEF startTask, AddTask, CancelBegin, ExpireBegin, ExpireStoreFails, FlushBegin
<1>4. ASSUME NEW k \in Conns,
             Register(k) \/ Registered(k) \/ Unregister(k) \/ Unregistered(k)
      PROVE  UNCHANGED <<leases, clientWork, proxyWork>>
  BY <1>4 DEF Register, Registered, Unregister, Unregistered
<1>5. ASSUME NEW c \in Clients, DisableClient(c) \/ RevokeClient(c)
      PROVE  UNCHANGED <<leases, clientWork, proxyWork>>
  BY <1>5 DEF DisableClient, RevokeClient
<1>6. ASSUME CallStep PROVE UNCHANGED <<leases, clientWork, proxyWork>>
  BY <1>6 DEF CallStep, RequeueDropped, RequeueBegin, FinishDropped, FinishBegin
<1>7. ASSUME MessageStep PROVE LeasesExclusive'
  <2>1. (\E S : releaseActiveWork(S)) \/ UNCHANGED <<leases, clientWork, proxyWork>>
    BY <1>7 DEF MessageStep, AckDropped, AckBegin, saveResult, UnitReportDropped,
                completeWork, failWork
  <2> QED
    BY <2>1, ReleaseKeepsExclusive, UnchangedKeepsExclusive
<1>8. ASSUME PassStep PROVE LeasesExclusive'
  <2>1. \/ \E t, c, p : Reserve(t, c, p)
        \/ \E S : releaseActiveWork(S)
        \/ UNCHANGED <<leases, clientWork, proxyWork>>
    BY <1>8 DEF PassStep, PassBegin, PassEnd, SendSkipped, SendBegin, SendEnd, SendFails
  <2> QED
    BY <2>1, ReserveKeepsExclusive, ReleaseKeepsExclusive, UnchangedKeepsExclusive
<1>9. ASSUME BeginShutdown \/ ShutdownStep
      PROVE  UNCHANGED <<leases, clientWork, proxyWork>>
  BY <1>9, OfShutdown DEF BeginShutdown
<1> QED
  BY <1>1, <1>2, <1>3, <1>4, <1>5, <1>6, <1>7, <1>8, <1>9, UnchangedKeepsExclusive
  DEF Next, ConnStep

(* No two leases share a Client or a proxy, and the target records, the     *)
(* busy-Client table and the busy-proxy table hold the same leases, for     *)
(* any number of Clients, proxies and tasks.                               *)
THEOREM LeasesAreExclusive == Spec => []LeasesExclusive
<1>1. Init => LeasesExclusive
  BY DEF Init, LeasesExclusive
<1>2. LeasesExclusive /\ [Next]_vars => LeasesExclusive'
  BY ExclusiveStep
<1> QED
  BY <1>1, <1>2, PTL DEF Spec

----------------------------------------------------------------------------
(* Statuses and leases. *)

LeaseInv == TypeOK /\ LeasesExclusive /\ StatusMatchesLease

(* Steps that touch neither a lease nor a status nor the set of tasks. *)
LEMMA QuietKeepsMatch ==
  ASSUME StatusMatchesLease, UNCHANGED <<leases, started, status>>,
         \A t \in Tasks : InHub(t)' = InHub(t), leases \subseteq Ref
  PROVE  StatusMatchesLease'
  BY DEF StatusMatchesLease, ActiveWork, Ref

(* A task that leaves the Hub takes all its leases with it. *)
LEMMA RemoveKeepsMatch ==
  ASSUME LeaseInv, NEW t \in Tasks, RemoveTask(t),
         \A u \in Tasks \ {t} : status'[u] = status[u]
  PROVE  StatusMatchesLease'
<1>1. leases \subseteq Ref /\ runtime \in [Tasks -> {"new", "created", "live", "pending", "gone"}]
  BY DEF LeaseInv, TypeOK, WorkTypeOK, TaskTypeOK
<1>2. leases' = {r \in leases : r.task # t} /\ started' = {r \in started : r.task # t}
  BY DEF RemoveTask, releaseActiveWork, TaskWork, LeaseInv, StatusMatchesLease
<1>3. ~InHub(t)' /\ \A u \in Tasks \ {t} : InHub(u)' = InHub(u)
  BY <1>1 DEF RemoveTask, InHub
<1>4. \A u \in Tasks \ {t}, c \in Clients : ActiveWork(u, c)' = ActiveWork(u, c)
  BY <1>2 DEF ActiveWork
<1> QED
  BY <1>1, <1>2, <1>3, <1>4 DEF LeaseInv, StatusMatchesLease, Ref

(* A target that gives up all its leases may take any status that stands    *)
(* for none.                                                               *)
LEMMA ReleaseTargetKeepsMatch ==
  ASSUME LeaseInv, NEW t \in Tasks, NEW c \in Clients, NEW s, s # "assigned",
         releaseActiveWork(ActiveWork(t, c)), SetStatus(t, c, s), UNCHANGED runtime
  PROVE  StatusMatchesLease'
<1>1. leases \subseteq Ref /\ status \in [Tasks -> [Clients -> TargetStatus]]
  BY DEF LeaseInv, TypeOK, WorkTypeOK, TaskTypeOK
<1>2. /\ leases' = leases \ ActiveWork(t, c) /\ started' = started \ ActiveWork(t, c)
      /\ \A u \in Tasks : InHub(u)' = InHub(u)
  BY DEF releaseActiveWork, InHub
<1>3. /\ status'[t][c] = s
      /\ \A u \in Tasks, d \in Clients : <<u, d>> # <<t, c>> => status'[u][d] = status[u][d]
  BY <1>1 DEF SetStatus
<1>4. \A u \in Tasks, d \in Clients : <<u, d>> # <<t, c>> =>
                                        ActiveWork(u, d)' = ActiveWork(u, d)
  BY <1>2 DEF ActiveWork
<1>5. \A r \in leases' : r \in leases /\ r.task \in Tasks /\ r.client \in Clients
                         /\ <<r.task, r.client>> # <<t, c>>
  BY <1>1, <1>2 DEF ActiveWork, Ref
<1>6. \A r \in leases' : /\ InHub(r.task)'
                         /\ status'[r.task][r.client] \in {"assigned", "running"}
                         /\ r \in started' => status'[r.task][r.client] = "running"
  BY <1>2, <1>3, <1>5 DEF LeaseInv, StatusMatchesLease
<1>7. started' \subseteq leases'
  BY <1>2 DEF LeaseInv, StatusMatchesLease
<1>8. \A u \in Tasks, d \in Clients :
        InHub(u)' /\ status'[u][d] = "assigned" => ActiveWork(u, d)' # {}
  BY <1>2, <1>3, <1>4 DEF LeaseInv, StatusMatchesLease
<1> QED
  BY <1>6, <1>7, <1>8 DEF StatusMatchesLease

(* A running target that gives up one lease stays running. *)
LEMMA ReleaseRunningKeepsMatch ==
  ASSUME LeaseInv, NEW r \in Ref, releaseActiveWork({r}),
         status[r.task][r.client] = "running", UNCHANGED <<status, runtime>>
  PROVE  StatusMatchesLease'
<1>1. leases \subseteq Ref
  BY DEF LeaseInv, TypeOK, WorkTypeOK
<1>2. leases' = leases \ {r} /\ started' = started \ {r} /\ \A u \in Tasks : InHub(u)' = InHub(u)
  BY DEF releaseActiveWork, InHub
<1>3. \A u \in Tasks, d \in Clients : status[u][d] = "assigned" =>
                                        ActiveWork(u, d)' = ActiveWork(u, d)
  BY <1>2 DEF ActiveWork
<1> QED
  BY <1>1, <1>2, <1>3 DEF LeaseInv, StatusMatchesLease, Ref

(* The second halves of the sections keep leases and statuses in step. *)
LEMMA MatchTaskStep ==
  ASSUME LeaseInv, NEW t \in Tasks, TaskStep(t)
  PROVE  StatusMatchesLease'
<1> USE DEF work
<1>0. leases \subseteq Ref /\ status \in [Tasks -> [Clients -> TargetStatus]]
      /\ SectionTypeOK /\ StatusMatchesLease
  BY DEF LeaseInv, TypeOK, WorkTypeOK, TaskTypeOK
<1>1. CASE RequeueEnd(t)
  <2>1. tx[t].client \in Clients
    BY <1>0, <1>1 DEF RequeueEnd, SectionTypeOK
  <2>2. UNCHANGED runtime
    BY <1>1 DEF RequeueEnd
  <2>3. \/ releaseActiveWork(ActiveWork(t, tx[t].client)) /\ SetStatus(t, tx[t].client, "queued")
        \/ UNCHANGED <<leases, started, status>>
    BY <1>1 DEF RequeueEnd
  <2> QED
    BY <1>0, <2>1, <2>2, <2>3, ReleaseTargetKeepsMatch, QuietKeepsMatch DEF InHub
<1>2. CASE AckEnd(t)
  <2> DEFINE c == tx[t].client
             refs == Matching(t, c, tx[t].work) \ started
  <2>1. c \in Clients
    BY <1>0, <1>2 DEF AckEnd, SectionTypeOK
  <2>2. /\ UNCHANGED <<leases, runtime>>
        /\ \A u \in Tasks : InHub(u)' = InHub(u)
    BY <1>2 DEF AckEnd, InHub
  <2>3. CASE refs = {}
    <3>1. UNCHANGED <<leases, started, status>>
      BY <1>2, <2>3 DEF AckEnd
    <3> QED
      BY <1>0, <2>2, <3>1, QuietKeepsMatch
  <2>4. CASE refs # {} /\ ~InHub(t)
    <3>1. UNCHANGED <<leases, started, status>>
      BY <1>2, <2>4 DEF AckEnd
    <3> QED
      BY <1>0, <2>2, <3>1, QuietKeepsMatch
  <2>5. CASE refs # {} /\ InHub(t)
    <3>1. /\ SetStatus(t, c, "running") /\ started' = started \cup refs
          /\ refs \subseteq leases
          /\ \A r \in refs : r.task = t /\ r.client = c
      BY <1>2, <2>5 DEF AckEnd, Matching, ActiveWork
    <3> HIDE DEF refs, c
    <3>2. /\ status'[t][c] = "running"
          /\ \A u \in Tasks, d \in Clients : <<u, d>> # <<t, c>> => status'[u][d] = status[u][d]
      BY <1>0, <2>1, <3>1 DEF SetStatus
    <3>3. \A u \in Tasks, d \in Clients : ActiveWork(u, d)' = ActiveWork(u, d)
      BY <2>2 DEF ActiveWork
    <3> QED
      BY <1>0, <2>1, <2>2, <3>1, <3>2, <3>3 DEF StatusMatchesLease, Ref
  <2> QED
    BY <2>3, <2>4, <2>5
<1>3. CASE FinishEnd(t)
  <2>1. tx[t].client \in Clients /\ tx[t].to # "assigned"
    BY <1>0, <1>3 DEF FinishEnd, SectionTypeOK
  <2>2. CASE ~InHub(t)
    BY <1>0, <1>3, <2>2, QuietKeepsMatch DEF FinishEnd, InHub
  <2>3. CASE InHub(t) /\ tx[t].last
    BY <1>0, <1>3, <2>1, <2>3, RemoveKeepsMatch DEF FinishEnd, SetStatus
  <2>4. CASE InHub(t) /\ ~tx[t].last
    BY <1>0, <1>3, <2>1, <2>4, ReleaseTargetKeepsMatch DEF FinishEnd
  <2> QED
    BY <2>2, <2>3, <2>4
<1>4. CASE CancelEnd(t)
  BY <1>0, <1>4, RemoveKeepsMatch DEF CancelEnd
<1>5. CASE ExpireEnd(t) \/ FlushEnd(t)
  BY <1>0, <1>5, RemoveKeepsMatch DEF ExpireEnd, FlushEnd
<1>6. CASE ExpireStore(t) \/ ExpireSchedule(t)
  BY <1>0, <1>6, QuietKeepsMatch DEF ExpireStore, ExpireSchedule, InHub
<1> QED
  BY <1>1, <1>2, <1>3, <1>4, <1>5, <1>6 DEF TaskStep

(* A task that enters the Hub is new to it and has no lease. *)
LEMMA MatchAddTask ==
  ASSUME LeaseInv, NEW t \in Tasks, AddTask(t)
  PROVE  StatusMatchesLease'
<1>1. /\ leases \subseteq Ref /\ status \in [Tasks -> [Clients -> TargetStatus]]
      /\ runtime \in [Tasks -> {"new", "created", "live", "pending", "gone"}]
      /\ StatusMatchesLease
  BY DEF LeaseInv, TypeOK, WorkTypeOK, TaskTypeOK
<1>2. ~InHub(t) /\ \A u \in Tasks \ {t} : InHub(u)' = InHub(u)
  BY <1>1 DEF AddTask, InHub
<1>3. UNCHANGED <<leases, started>>
  BY DEF AddTask, work
<1>4. /\ \A c \in Clients : status'[t][c] # "assigned"
      /\ \A u \in Tasks \ {t} : status'[u] = status[u]
  BY <1>1 DEF AddTask
<1>5. \A u \in Tasks, c \in Clients : ActiveWork(u, c)' = ActiveWork(u, c)
  BY <1>3 DEF ActiveWork
<1> QED
  BY <1>1, <1>2, <1>3, <1>4, <1>5 DEF StatusMatchesLease, Ref

(* A reservation marks a queued target as assigned and hands it a lease. *)
LEMMA MatchReserve ==
  ASSUME LeaseInv, NEW t \in Tasks, NEW c \in Clients, NEW p \in Proxies,
         Reserve(t, c, p)
  PROVE  StatusMatchesLease'
<1> DEFINE ref == [task |-> t, client |-> c, proxy |-> p, work |-> issued[c] + 1]
<1>1. /\ leases \subseteq Ref /\ status \in [Tasks -> [Clients -> TargetStatus]]
      /\ StatusMatchesLease
  BY DEF LeaseInv, TypeOK, WorkTypeOK, TaskTypeOK
<1>2. /\ ref.task = t /\ ref.client = c
      /\ leases' = leases \cup {ref} /\ UNCHANGED <<started, runtime>>
      /\ ActiveWork(t, c) = {} /\ status[t][c] \in {"queued", "running"} /\ Active(t)
      /\ status' = IF status[t][c] = "queued"
                   THEN [status EXCEPT ![t][c] = "assigned"] ELSE status
  BY DEF Reserve, Eligible
<1> HIDE DEF ref
<1>3. /\ status'[t][c] = IF status[t][c] = "queued" THEN "assigned" ELSE "running"
      /\ \A u \in Tasks, d \in Clients : <<u, d>> # <<t, c>> => status'[u][d] = status[u][d]
  BY <1>1, <1>2
<1>4. /\ ref \in ActiveWork(t, c)'
      /\ \A u \in Tasks, d \in Clients : ActiveWork(u, d) \subseteq ActiveWork(u, d)'
  BY <1>2 DEF ActiveWork
<1>5. \A u \in Tasks : InHub(u)' = InHub(u)
  BY <1>2 DEF InHub
<1>6. \A r \in leases : <<r.task, r.client>> # <<t, c>>
  BY <1>2 DEF ActiveWork
<1>7. \A r \in leases' : /\ InHub(r.task)'
                         /\ status'[r.task][r.client] \in {"assigned", "running"}
                         /\ r \in started' => status'[r.task][r.client] = "running"
  <2> SUFFICES ASSUME NEW r \in leases'
               PROVE  /\ InHub(r.task)'
                      /\ status'[r.task][r.client] \in {"assigned", "running"}
                      /\ r \in started' => status'[r.task][r.client] = "running"
    OBVIOUS
  <2>1. CASE r \in leases
    BY <1>1, <1>2, <1>3, <1>5, <1>6, <2>1 DEF StatusMatchesLease, Ref
  <2>2. CASE r = ref /\ r \notin leases
    BY <1>1, <1>2, <1>3, <1>5, <2>2 DEF StatusMatchesLease, Active, InHub
  <2> QED
    BY <1>2, <2>1, <2>2
<1>8. started' \subseteq leases'
  BY <1>1, <1>2 DEF StatusMatchesLease
<1>9. \A u \in Tasks, d \in Clients :
        InHub(u)' /\ status'[u][d] = "assigned" => ActiveWork(u, d)' # {}
  BY <1>1, <1>2, <1>3, <1>4, <1>5 DEF StatusMatchesLease
<1> QED
  BY <1>7, <1>8, <1>9 DEF StatusMatchesLease

(* A failed send gives back the only lease its Client has. *)
LEMMA MatchSendFails ==
  ASSUME LeaseInv, NEW v \in reserved, SendFails(v)
  PROVE  StatusMatchesLease'
<1> DEFINE t == v.ref.task  c == v.ref.client
<1> USE DEF work
<1>1. /\ leases \subseteq Ref /\ status \in [Tasks -> [Clients -> TargetStatus]]
      /\ StatusMatchesLease /\ LeasesExclusive /\ v.ref \in Ref
      /\ t \in Tasks /\ c \in Clients
  BY DEF LeaseInv, TypeOK, WorkTypeOK, TaskTypeOK, Ref
<1>2. UNCHANGED runtime
  BY DEF SendFails
<1>3. CASE ~(InHub(t) /\ v.ref \in leases)
  BY <1>1, <1>2, <1>3, QuietKeepsMatch DEF SendFails, InHub
<1>4. CASE InHub(t) /\ v.ref \in leases /\ status[t][c] = "assigned"
  <2>1. releaseActiveWork({v.ref}) /\ SetStatus(t, c, "queued")
    BY <1>4 DEF SendFails, SetStatus
  <2>2. ActiveWork(t, c) = {v.ref}
    BY <1>1, <1>4 DEF ActiveWork, LeasesExclusive
  <2> QED
    BY <1>1, <1>2, <2>1, <2>2, ReleaseTargetKeepsMatch
<1>5. CASE InHub(t) /\ v.ref \in leases /\ status[t][c] # "assigned"
  <2>1. releaseActiveWork({v.ref}) /\ UNCHANGED status
    BY <1>5 DEF SendFails
  <2>2. status[t][c] = "running"
    BY <1>1, <1>5 DEF StatusMatchesLease
  <2> QED
    BY <1>1, <1>2, <2>1, <2>2, ReleaseRunningKeepsMatch
<1> QED
  BY <1>3, <1>4, <1>5

(* Every step of the Hub keeps leases and statuses in step. *)
LEMMA MatchStep ==
  ASSUME LeaseInv, [Next]_vars
  PROVE  StatusMatchesLease'
<1> USE DEF work
<1>0. leases \subseteq Ref /\ StatusMatchesLease
      /\ runtime \in [Tasks -> {"new", "created", "live", "pending", "gone"}]
  BY DEF LeaseInv, TypeOK, WorkTypeOK, TaskTypeOK
<1>1. CASE UNCHANGED vars
  BY <1>0, <1>1, QuietKeepsMatch DEF vars, InHub
<1>2. ASSUME NEW t \in Tasks,
             \/ startTask(t) \/ CancelBegin(t) \/ ExpireBegin(t)
             \/ ExpireStoreFails(t) \/ FlushBegin(t)
      PROVE  StatusMatchesLease'
  <2>1. /\ UNCHANGED <<leases, started, status>>
        /\ \A u \in Tasks : InHub(u)' = InHub(u)
    BY <1>0, <1>2 DEF startTask, CancelBegin, ExpireBegin, ExpireStoreFails, FlushBegin, InHub
  <2> QED
    BY <1>0, <2>1, QuietKeepsMatch
<1>3. ASSUME NEW k \in Conns,
             Register(k) \/ Registered(k) \/ Unregister(k) \/ Unregistered(k)
      PROVE  StatusMatchesLease'
  BY <1>0, <1>3, QuietKeepsMatch DEF Register, Registered, Unregister, Unregistered, InHub
<1>4. ASSUME NEW c \in Clients, DisableClient(c) \/ RevokeClient(c)
      PROVE  StatusMatchesLease'
  BY <1>0, <1>4, QuietKeepsMatch DEF DisableClient, RevokeClient, InHub
<1>5. CASE CallStep
  <2>1. UNCHANGED <<leases, started, status, runtime>>
    BY <1>5 DEF CallStep, RequeueDropped, RequeueBegin, FinishDropped, FinishBegin
  <2> QED
    BY <1>0, <2>1, QuietKeepsMatch DEF InHub
<1>6. CASE MessageStep
  <2>1. ASSUME NEW f \in working, completeWork(f) \/ failWork(f)
        PROVE  StatusMatchesLease'
    <3>1. f.ref \in Ref
      BY DEF LeaseInv, TypeOK, WorkTypeOK
    <3>2. /\ releaseActiveWork({f.ref}) /\ UNCHANGED <<status, runtime>>
          /\ status[f.ref.task][f.ref.client] = "running"
      BY <2>1 DEF completeWork, failWork, UnitRunning
    <3> QED
      BY <3>1, <3>2, ReleaseRunningKeepsMatch
  <2>2. ASSUME \/ \E f \in offered : AckDropped(f) \/ AckBegin(f)
               \/ \E f \in working : saveResult(f) \/ UnitReportDropped(f)
        PROVE  UNCHANGED <<leases, started, status, runtime>>
    BY <2>2 DEF AckDropped, AckBegin, saveResult, UnitReportDropped
  <2> QED
    BY <1>0, <1>6, <2>1, <2>2, QuietKeepsMatch DEF MessageStep, InHub
<1>7. CASE PassStep
  <2>1. ASSUME \/ PassBegin \/ PassEnd
               \/ \E v \in reserved : SendSkipped(v) \/ SendBegin(v) \/ SendEnd(v)
        PROVE  UNCHANGED <<leases, started, status, runtime>>
    BY <2>1 DEF PassBegin, PassEnd, SendSkipped, SendBegin, SendEnd
  <2> QED
    BY <1>0, <1>7, <2>1, QuietKeepsMatch, MatchReserve, MatchSendFails DEF PassStep, InHub
<1>8. CASE BeginShutdown \/ ShutdownStep
  BY <1>0, <1>8, QuietKeepsMatch, OfShutdown DEF BeginShutdown, InHub
<1> QED
  BY <1>1, <1>2, <1>3, <1>4, <1>5, <1>6, <1>7, <1>8, MatchTaskStep, MatchAddTask
  DEF Next, ConnStep

(* A target holds a lease exactly as its status says, whichever of          *)
(* requeue, ACK, failed send, completion, cancellation and expiry came last;*)
(* a task that left the Hub holds none.                                    *)
THEOREM StatusFollowsLease == Spec => []StatusMatchesLease
<1>1. Init => StatusMatchesLease
  BY DEF Init, StatusMatchesLease
<1>2. LeaseInv /\ [Next]_vars => StatusMatchesLease'
  BY MatchStep
<1> QED
  BY <1>1, <1>2, TypeCorrect, LeasesAreExclusive, PTL DEF Spec, LeaseInv

----------------------------------------------------------------------------
(* An expired task. *)

(* What a step leaves of a task whose failure is decided. *)
Failing(t) ==
  /\ TaskWork(t)' \subseteq TaskWork(t)
  /\ dbTask'[t] \in {dbTask[t], "failed"}
  /\ \A c \in Clients : dbTarget'[t][c] \in {dbTarget[t][c], "failed"}

(* A step that takes no lease and writes no row of t. *)
LEMMA QuietFailing ==
  ASSUME NEW t \in Tasks, leases' \subseteq leases,
         dbTask'[t] = dbTask[t], dbTarget'[t] = dbTarget[t]
  PROVE  Failing(t)
  BY DEF Failing, TaskWork

(* A transaction on another task. *)
LEMMA OtherFailing ==
  ASSUME TypeOK, NEW u \in Tasks, NEW t \in Tasks \ {u}, leases' \subseteq leases,
         \/ CreateTask(u)
         \/ \E c \in Clients : StartTarget(u, c) \/ RequeueTarget(u, c)
         \/ \E c \in Clients, s \in TerminalStatus : FinishTarget(u, c, s)
         \/ \E s \in TerminalStatus : terminateTask(u, s)
         \/ UNCHANGED store
  PROVE  Failing(t)
<1>1. dbTask'[t] = dbTask[t] /\ dbTarget'[t] = dbTarget[t]
  BY DEF TypeOK, StoreTypeOK, CreateTask, StartTarget, RequeueTarget, FinishTarget,
         terminateTask, store
<1> QED
  BY <1>1, QuietFailing

(* The failure itself. *)
LEMMA TerminateFailing ==
  ASSUME TypeOK, NEW t \in Tasks, terminateTask(t, "failed"), leases' \subseteq leases
  PROVE  Failing(t)
  BY DEF TypeOK, StoreTypeOK, terminateTask, Failing, TaskWork

(* Every step of the Hub does no more than that to a pending task. *)
LEMMA ExpiredStep ==
  ASSUME TypeOK, Next, NEW t \in Tasks, runtime[t] = "pending"
  PROVE  Failing(t)
<1> USE DEF work, store
<1>1. ASSUME NEW u \in Tasks, startTask(u) \/ CancelBegin(u) PROVE Failing(t)
  <2>1. u # t
    BY <1>1 DEF startTask, CancelBegin, CancelAllowed, Active
  <2>2. /\ leases' \subseteq leases
        /\ CreateTask(u) \/ terminateTask(u, "canceled")
    BY <1>1 DEF startTask, CancelBegin
  <2> QED
    BY <2>1, <2>2, OtherFailing DEF TerminalStatus
<1>2. ASSUME NEW u \in Tasks, ExpireStore(u) \/ FlushBegin(u) PROVE Failing(t)
  <2>1. terminateTask(u, "failed") /\ leases' \subseteq leases
    BY <1>2 DEF ExpireStore, FlushBegin
  <2> QED
    BY <2>1, OtherFailing, TerminateFailing DEF TerminalStatus
<1>3. ASSUME NEW u \in Tasks,
             \/ AddTask(u) \/ ExpireBegin(u) \/ ExpireStoreFails(u) \/ RequeueEnd(u)
             \/ AckEnd(u) \/ FinishEnd(u) \/ CancelEnd(u) \/ ExpireEnd(u)
             \/ ExpireSchedule(u) \/ FlushEnd(u)
      PROVE  Failing(t)
  <2>1. leases' \subseteq leases /\ UNCHANGED store
    BY <1>3 DEF AddTask, ExpireBegin, ExpireStoreFails, RequeueEnd, AckEnd, FinishEnd,
                CancelEnd, ExpireEnd, ExpireSchedule, FlushEnd, RemoveTask, releaseActiveWork
  <2> QED
    BY <2>1, QuietFailing
<1>4. ASSUME NEW k \in Conns,
             Register(k) \/ Registered(k) \/ Unregister(k) \/ Unregistered(k)
      PROVE  Failing(t)
  <2>1. leases' \subseteq leases /\ UNCHANGED store
    BY <1>4 DEF Register, Registered, Unregister, Unregistered
  <2> QED
    BY <2>1, QuietFailing
<1>5. ASSUME NEW c \in Clients, DisableClient(c) \/ RevokeClient(c) PROVE Failing(t)
  <2>1. leases' \subseteq leases /\ UNCHANGED store
    BY <1>5 DEF DisableClient, RevokeClient
  <2> QED
    BY <2>1, QuietFailing
<1>6. ASSUME NEW q \in requeuing, RequeueBegin(q) PROVE Failing(t)
  <2>1. q.task \in Tasks \ {t} /\ Owner[q.conn] \in Clients
    BY <1>6, HubAssumption
    DEF TypeOK, CallTypeOK, RequeueBegin, RequeueNeeded, Active
  <2>2. /\ leases' \subseteq leases
        /\ RequeueTarget(q.task, Owner[q.conn]) \/ UNCHANGED store
    BY <1>6 DEF RequeueBegin
  <2> QED
    BY <2>1, <2>2, OtherFailing
<1>7. ASSUME NEW f \in finishing, FinishBegin(f) PROVE Failing(t)
  <2>1. f.task \in Tasks \ {t} /\ f.client \in Clients /\ f.to \in TerminalStatus
    BY <1>7 DEF TypeOK, CallTypeOK, FinishBegin, FinishAllowed, Active
  <2>2. leases' \subseteq leases /\ FinishTarget(f.task, f.client, f.to)
    BY <1>7 DEF FinishBegin
  <2> QED
    BY <2>1, <2>2, OtherFailing
<1>8. ASSUME NEW f \in offered, AckBegin(f) PROVE Failing(t)
  <2>1. f.ref.task \in Tasks \ {t} /\ f.ref.client \in Clients
    BY <1>8 DEF TypeOK, WorkTypeOK, Ref, AckBegin, AckValid, Active
  <2>2. /\ leases' \subseteq leases
        /\ StartTarget(f.ref.task, f.ref.client) \/ UNCHANGED store
    BY <1>8 DEF AckBegin
  <2> QED
    BY <2>1, <2>2, OtherFailing
<1>9. ASSUME \/ \E q \in requeuing : RequeueDropped(q)
             \/ \E f \in finishing : FinishDropped(f)
             \/ \E f \in offered : AckDropped(f)
             \/ \E f \in working : \/ saveResult(f) \/ UnitReportDropped(f)
                                   \/ completeWork(f) \/ failWork(f)
             \/ BeginShutdown \/ ShutdownStep
      PROVE  Failing(t)
  <2>1. leases' \subseteq leases /\ UNCHANGED store
    BY <1>9, OfShutdown DEF RequeueDropped, FinishDropped, AckDropped, saveResult, UnitReportDropped,
                completeWork, failWork, releaseActiveWork, BeginShutdown
  <2> QED
    BY <2>1, QuietFailing
<1>10. ASSUME \/ PassBegin \/ PassEnd
              \/ \E v \in reserved : SendSkipped(v) \/ SendBegin(v) \/ SendEnd(v)
                                     \/ SendFails(v)
       PROVE  Failing(t)
  <2>1. leases' \subseteq leases /\ UNCHANGED store
    BY <1>10 DEF PassBegin, PassEnd, SendSkipped, SendBegin, SendEnd, SendFails,
                 releaseActiveWork
  <2> QED
    BY <2>1, QuietFailing
<1>11. ASSUME NEW u \in Tasks, NEW c \in Clients, NEW p \in Proxies, Reserve(u, c, p)
       PROVE  Failing(t)
  <2> DEFINE ref == [task |-> u, client |-> c, proxy |-> p, work |-> issued[c] + 1]
  <2>1. u # t /\ ref.task = u
    BY <1>11 DEF Reserve, Eligible, Active
  <2>2. leases' = leases \cup {ref} /\ UNCHANGED store
    BY <1>11 DEF Reserve
  <2> HIDE DEF ref
  <2> QED
    BY <2>1, <2>2 DEF Failing, TaskWork
<1> QED
  BY <1>1, <1>2, <1>3, <1>4, <1>5, <1>6, <1>7, <1>8, <1>9, <1>10, <1>11
  DEF Next, TaskStep, ConnStep, CallStep, MessageStep, PassStep

(* Once its expiry is decided, a task gains no lease, and "failed" is the   *)
(* only thing its rows can still become, however often the store refuses    *)
(* and whoever cancels or shuts down meanwhile.                            *)
THEOREM ExpiredTasksOnlyFail == Spec => ExpiredOnlyFails
<1>1. TypeOK /\ [Next]_vars =>
        [\A t \in Tasks : runtime[t] = "pending" => Failing(t)]_vars
  BY ExpiredStep
<1> QED
  BY <1>1, TypeCorrect, PTL DEF Spec, ExpiredOnlyFails, Failing

----------------------------------------------------------------------------
(* Memory and rows.  Between the two halves of a section the rows are ahead *)
(* of memory by what the section has committed: the invariant says by what, *)
(* for each kind of section.                                               *)

(* Memory and SQLite agree on every target of t outside S. *)
Agree(t, S) ==
  \A c \in Targets[t] \ S : dbTarget[t][c] = Persisted(status[t][c])

(* Nobody is in a section of t. *)
SettledOK(t) ==
  /\ runtime[t] = "new" => dbTask[t] = "none"
  /\ runtime[t] = "created" =>
       dbTask[t] = "queued" /\ \A c \in Targets[t] : dbTarget[t][c] = "queued"
  /\ InHub(t) => storeTaskActive(t) /\ Agree(t, {})
  /\ runtime[t] = "gone" => dbTask[t] \in TaskTerminal

(* A section that has committed rows its second half will copy to memory. *)
AckOK(t) ==
  LET c == tx[t].client IN
  /\ Active(t) /\ storeTaskActive(t) /\ Agree(t, {c})
  /\ c \in Targets[t] /\ dbTarget[t][c] = "running"
  /\ Matching(t, c, tx[t].work) \ started # {}
RequeueOK(t) ==
  LET c == tx[t].client IN
  /\ Active(t) /\ storeTaskActive(t) /\ Agree(t, {c})
  /\ c \in Targets[t] /\ dbTarget[t][c] = "queued"
  /\ status[t][c] = tx[t].to /\ tx[t].to \in {"assigned", "running"}
FinishOK(t) ==
  LET c == tx[t].client IN
  /\ Active(t) /\ c \in Targets[t]
  /\ tx[t].to \in TerminalStatus /\ dbTarget[t][c] = tx[t].to
  /\ IF tx[t].last THEN dbTask[t] \in TaskTerminal
     ELSE storeTaskActive(t) /\ Agree(t, {c})

SectionOK(t) ==
  /\ tx[t].op = "free" => SettledOK(t)
  /\ tx[t].op = "send" => Active(t) /\ storeTaskActive(t) /\ Agree(t, {})
  /\ tx[t].op = "expire" =>
       runtime[t] = "pending" /\ storeTaskActive(t) /\ Agree(t, {})
  /\ tx[t].op = "ack" => AckOK(t)
  /\ tx[t].op = "requeue" => RequeueOK(t)
  /\ tx[t].op = "finish" => FinishOK(t)
  /\ tx[t].op = "cancel" => Active(t) /\ dbTask[t] \in TaskTerminal
  /\ tx[t].op \in {"expiring", "flush"} =>
       runtime[t] = "pending" /\ dbTask[t] \in TaskTerminal
  /\ tx[t].op = "expired" => runtime[t] = "gone" /\ dbTask[t] \in TaskTerminal

(* Only targets have a status in memory. *)
StatusOK(t) == \A c \in Clients : status[t][c] # "none" => c \in Targets[t]

MemOK(t) == SectionOK(t) /\ StatusOK(t)
MemInv == \A t \in Tasks : MemOK(t)

(* What MemOK(u) reads. *)
Same(u) ==
  /\ dbTask'[u] = dbTask[u] /\ dbTarget'[u] = dbTarget[u]
  /\ runtime'[u] = runtime[u] /\ status'[u] = status[u] /\ tx'[u] = tx[u]
  /\ \A r \in leases \ started : r.task = u => r \in leases' \ started'

(* A step that leaves all of that alone. *)
LEMMA MemFrame ==
  ASSUME NEW u \in Tasks, MemOK(u), Same(u)
  PROVE  MemOK(u)'
<1>1. AckOK(u) => AckOK(u)'
  <2>1. SUFFICES ASSUME AckOK(u) PROVE AckOK(u)'
    OBVIOUS
  <2>2. PICK r \in Matching(u, tx[u].client, tx[u].work) \ started : TRUE
    BY <2>1 DEF AckOK
  <2>3. r \in (Matching(u, tx[u].client, tx[u].work) \ started)'
    BY <2>2 DEF Matching, ActiveWork, Same
  <2> QED
    BY <2>1, <2>3 DEF AckOK, Same, Active, storeTaskActive, Agree
<1>2. /\ SettledOK(u) => SettledOK(u)'
      /\ RequeueOK(u) => RequeueOK(u)'
      /\ FinishOK(u) => FinishOK(u)'
  BY DEF SettledOK, RequeueOK, FinishOK, Same, Active, InHub, storeTaskActive, Agree
<1>3. StatusOK(u)'
  BY DEF MemOK, StatusOK, Same
<1> QED
  BY <1>1, <1>2, <1>3 DEF MemOK, SectionOK, Same, Active, storeTaskActive, Agree

(* A step about t leaves the other tasks alone. *)
LEMMA MemOthers ==
  ASSUME MemInv, NEW t \in Tasks, MemOK(t)', \A u \in Tasks \ {t} : Same(u)
  PROVE  MemInv'
  BY MemFrame DEF MemInv

(* A step about no task. *)
LEMMA MemQuiet ==
  ASSUME MemInv, UNCHANGED <<dbTask, dbTarget, runtime, status, tx>>,
         \A r \in leases \ started : r \in leases' \ started'
  PROVE  MemInv'
  BY MemFrame DEF MemInv, Same

(* The types MemInv's proofs use. *)
LEMMA MemTypes ==
  ASSUME TypeOK
  PROVE  /\ StoreTypeOK /\ tx \in [Tasks -> Section]
         /\ runtime \in [Tasks -> {"new", "created", "live", "pending", "gone"}]
         /\ status \in [Tasks -> [Clients -> TargetStatus]]
         /\ leases \subseteq Ref /\ started \subseteq Ref
         /\ \A t \in Tasks : Targets[t] \subseteq Clients
  BY TargetsAssumption DEF TypeOK, TaskTypeOK, SectionTypeOK, WorkTypeOK

(* What a second half that only leaves its section does. *)
LEMMA LeaveSame ==
  ASSUME TypeOK, NEW t \in Tasks, NEW section, Enter(t, section)
  PROVE  tx'[t] = section /\ \A u \in Tasks \ {t} : tx'[u] = tx[u]
  BY DEF TypeOK, SectionTypeOK, Enter

(* Creation. *)
LEMMA MemStartTask ==
  ASSUME TypeOK, MemInv, NEW t \in Tasks, startTask(t)
  PROVE  MemInv'
<1> USE DEF work
<1>1. /\ StoreTypeOK /\ Targets[t] \subseteq Clients /\ MemOK(t)
      /\ runtime \in [Tasks -> {"new", "created", "live", "pending", "gone"}]
  BY MemTypes DEF MemInv
<1>2. /\ dbTask'[t] = "queued" /\ \A c \in Targets[t] : dbTarget'[t][c] = "queued"
      /\ runtime[t] = "new" /\ runtime'[t] = "created"
      /\ UNCHANGED <<status, tx, leases, started>>
  BY <1>1 DEF startTask, CreateTask, StoreTypeOK
<1>3. \A u \in Tasks \ {t} : Same(u)
  BY <1>1 DEF startTask, CreateTask, StoreTypeOK, Same
<1>4. tx[t].op = "free"
  BY <1>1, <1>2, MemTypes DEF MemOK, SectionOK, AckOK, RequeueOK, FinishOK, Active, Section
<1>5. MemOK(t)'
  BY <1>1, <1>2, <1>4 DEF MemOK, SectionOK, SettledOK, StatusOK, InHub
<1> QED
  BY <1>3, <1>5, MemOthers

(* Registration of a created task. *)
LEMMA MemAddTask ==
  ASSUME TypeOK, MemInv, NEW t \in Tasks, AddTask(t)
  PROVE  MemInv'
<1> USE DEF work, store
<1>1. /\ StoreTypeOK /\ Targets[t] \subseteq Clients /\ MemOK(t)
      /\ runtime \in [Tasks -> {"new", "created", "live", "pending", "gone"}]
      /\ status \in [Tasks -> [Clients -> TargetStatus]]
  BY MemTypes DEF MemInv
<1>2. /\ UNCHANGED <<dbTask, dbTarget, tx, leases, started>>
      /\ runtime[t] = "created" /\ runtime'[t] = "live"
      /\ \A c \in Clients : status'[t][c] = IF c \in Targets[t] THEN "queued" ELSE "none"
  BY <1>1 DEF AddTask
<1>3. \A u \in Tasks \ {t} : Same(u)
  BY <1>1 DEF AddTask, Same
<1>4. tx[t].op = "free"
  BY <1>1, <1>2, MemTypes DEF MemOK, SectionOK, AckOK, RequeueOK, FinishOK, Active, Section
<1>5. dbTask[t] = "queued" /\ \A c \in Targets[t] : dbTarget[t][c] = "queued"
  BY <1>1, <1>2, <1>4 DEF MemOK, SectionOK, SettledOK
<1>6. MemOK(t)'
  BY <1>1, <1>2, <1>4, <1>5
  DEF MemOK, SectionOK, SettledOK, StatusOK, InHub, storeTaskActive, Agree, Persisted
<1> QED
  BY <1>3, <1>6, MemOthers

(* A termination commits and enters a section that removes the task. *)
LEMMA MemTerminateBegin ==
  ASSUME TypeOK, MemInv, NEW t \in Tasks,
         CancelBegin(t) \/ ExpireStore(t) \/ FlushBegin(t)
  PROVE  MemInv'
<1> USE DEF work
<1>1. StoreTypeOK /\ MemOK(t) /\ tx \in [Tasks -> Section]
  BY MemTypes DEF MemInv
<1>2. PICK s \in {"canceled", "failed"}, op \in {"cancel", "expiring", "flush"} :
        /\ terminateTask(t, s) /\ Enter(t, [Free EXCEPT !.op = op])
        /\ UNCHANGED <<runtime, status, leases, started>>
        /\ op = "cancel" => Active(t)
        /\ op # "cancel" => runtime[t] = "pending"
  BY <1>1 DEF CancelBegin, CancelAllowed, ExpireStore, FlushBegin, FlushDue, MemOK, SectionOK
<1>3. tx'[t] = [Free EXCEPT !.op = op] /\ \A u \in Tasks \ {t} : tx'[u] = tx[u]
  BY <1>2, LeaveSame
<1>4. tx'[t].op = op
  BY <1>3 DEF Free
<1>5. /\ dbTask'[t] \in TaskTerminal
      /\ \A u \in Tasks \ {t} : dbTask'[u] = dbTask[u] /\ dbTarget'[u] = dbTarget[u]
  BY <1>1, <1>2 DEF terminateTask, StoreTypeOK, TaskTerminal, TerminalStatus
<1>6. \A u \in Tasks \ {t} : Same(u)
  BY <1>2, <1>3, <1>5 DEF Same
<1>7. MemOK(t)'
  BY <1>1, <1>2, <1>4, <1>5 DEF MemOK, SectionOK, StatusOK, Active
<1> QED
  BY <1>6, <1>7, MemOthers

(* A task leaves the Hub after it became terminal in SQLite. *)
LEMMA MemRemove ==
  ASSUME TypeOK, MemInv, NEW t \in Tasks, RemoveTask(t),
         dbTask[t] \in TaskTerminal, UNCHANGED <<dbTask, dbTarget>>,
         \A u \in Tasks \ {t} : status'[u] = status[u], StatusOK(t)',
         NEW section, Enter(t, section), section.op \in {"free", "expired"}
  PROVE  MemInv'
<1>1. /\ runtime \in [Tasks -> {"new", "created", "live", "pending", "gone"}]
      /\ leases \subseteq Ref
  BY MemTypes
<1>2. tx'[t] = section /\ \A u \in Tasks \ {t} : tx'[u] = tx[u]
  BY LeaveSame
<1>3. runtime'[t] = "gone" /\ \A u \in Tasks \ {t} : runtime'[u] = runtime[u]
  BY <1>1 DEF RemoveTask
<1>4. \A r \in leases \ started : r.task # t => r \in leases' \ started'
  BY DEF RemoveTask, releaseActiveWork, TaskWork
<1>5. \A u \in Tasks \ {t} : Same(u)
  BY <1>2, <1>3, <1>4 DEF Same
<1>6. MemOK(t)'
  BY <1>2, <1>3 DEF MemOK, SectionOK, SettledOK, InHub
<1> QED
  BY <1>5, <1>6, MemOthers

(* The second halves of cancellation, expiry and Shutdown's flush. *)
LEMMA MemTerminateEnd ==
  ASSUME TypeOK, MemInv, NEW t \in Tasks, CancelEnd(t) \/ ExpireEnd(t) \/ FlushEnd(t)
  PROVE  MemInv'
<1> USE DEF store
<1>1. MemOK(t) /\ status \in [Tasks -> [Clients -> TargetStatus]]
  BY MemTypes DEF MemInv
<1>2. /\ RemoveTask(t) /\ dbTask[t] \in TaskTerminal /\ UNCHANGED <<dbTask, dbTarget>>
      /\ \A u \in Tasks \ {t} : status'[u] = status[u]
  BY <1>1 DEF CancelEnd, ExpireEnd, FlushEnd, MemOK, SectionOK
<1>3. \A c \in Clients : status'[t][c] = status[t][c] \/ status[t][c] \in ActiveStatus
  BY <1>1 DEF CancelEnd, ExpireEnd, FlushEnd
<1>4. StatusOK(t)'
  BY <1>1, <1>3 DEF MemOK, StatusOK, ActiveStatus
<1>5. PICK section : Enter(t, section) /\ section.op \in {"free", "expired"}
  BY DEF CancelEnd, ExpireEnd, FlushEnd, Leave, Enter, Free
<1> QED
  BY <1>2, <1>4, <1>5, MemRemove

(* Expiry: the decision, a refusal of the store, and the release of the     *)
(* section.                                                                *)
LEMMA MemExpire ==
  ASSUME TypeOK, MemInv, NEW t \in Tasks,
         ExpireBegin(t) \/ ExpireStoreFails(t) \/ ExpireSchedule(t)
  PROVE  MemInv'
<1> USE DEF store, work
<1>1. /\ runtime \in [Tasks -> {"new", "created", "live", "pending", "gone"}]
      /\ tx \in [Tasks -> Section] /\ MemOK(t)
  BY MemTypes DEF MemInv
<1>2. UNCHANGED <<dbTask, dbTarget, status, leases, started>>
  BY DEF ExpireBegin, ExpireStoreFails, ExpireSchedule
<1>3. \A u \in Tasks \ {t} : tx'[u] = tx[u] /\ runtime'[u] = runtime[u]
  BY <1>1 DEF ExpireBegin, ExpireStoreFails, ExpireSchedule, Enter, Leave
<1>4. \A u \in Tasks \ {t} : Same(u)
  BY <1>2, <1>3 DEF Same
<1>5. CASE ExpireBegin(t)
  <2>1. tx'[t].op = "expire" /\ runtime'[t] = "pending" /\ InHub(t) /\ tx[t].op = "free"
    BY <1>1, <1>5 DEF ExpireBegin, Enter, Free, Unlocked
  <2> QED
    BY <1>1, <1>2, <1>4, <2>1, MemOthers
    DEF MemOK, SectionOK, SettledOK, StatusOK, Agree, storeTaskActive
<1>6. CASE ExpireStoreFails(t)
  <2>1. tx'[t].op = "free" /\ runtime'[t] = runtime[t] /\ tx[t].op = "expire"
    BY <1>1, <1>6 DEF ExpireStoreFails, Leave, Free
  <2> QED
    BY <1>1, <1>2, <1>4, <2>1, MemOthers
    DEF MemOK, SectionOK, SettledOK, StatusOK, InHub, Agree, storeTaskActive
<1>7. CASE ExpireSchedule(t)
  <2>1. tx'[t].op = "free" /\ runtime'[t] = runtime[t] /\ tx[t].op = "expired"
    BY <1>1, <1>7 DEF ExpireSchedule, Leave, Free
  <2> QED
    BY <1>1, <1>2, <1>4, <2>1, MemOthers
    DEF MemOK, SectionOK, SettledOK, StatusOK, InHub
<1> QED
  BY <1>5, <1>6, <1>7

(* A requeue commits "queued" for a running target and leaves memory for    *)
(* its second half; an assigned target is queued in SQLite already.        *)
LEMMA MemRequeueBegin ==
  ASSUME TypeOK, MemInv, NEW q \in requeuing, RequeueBegin(q)
  PROVE  MemInv'
<1> DEFINE t == q.task  c == Owner[q.conn]
<1> USE DEF work, store
<1>1. t \in Tasks /\ c \in Clients
  BY HubAssumption DEF TypeOK, CallTypeOK
<1>2. /\ StoreTypeOK /\ MemOK(t) /\ Targets[t] \subseteq Clients
      /\ status[t][c] \in {"assigned", "running"} /\ Active(t) /\ tx[t].op = "free"
      /\ UNCHANGED <<runtime, status, leases, started>>
  BY <1>1, MemTypes DEF MemInv, RequeueBegin, RequeueNeeded, targetNeedsRequeue, Unlocked
<1>3. /\ storeTaskActive(t) /\ Agree(t, {}) /\ c \in Targets[t]
  BY <1>1, <1>2 DEF MemOK, SectionOK, SettledOK, StatusOK, Active, InHub
<1>4. /\ tx'[t].op = "requeue" /\ tx'[t].client = c /\ tx'[t].to = status[t][c]
      /\ \A u \in Tasks \ {t} : tx'[u] = tx[u]
  <2> DEFINE section == [Free EXCEPT !.op = "requeue", !.client = c, !.conn = q.conn,
                                     !.to = status[t][c]]
  <2>1. Enter(t, section) /\ section.op = "requeue" /\ section.client = c
        /\ section.to = status[t][c]
    BY DEF RequeueBegin, Free
  <2> HIDE DEF section
  <2> QED
    BY <1>1, <2>1, LeaveSame
<1>5. RequeueTarget(t, c) \/ (status[t][c] = "assigned" /\ UNCHANGED <<dbTask, dbTarget>>)
  BY <1>2 DEF RequeueBegin
<1> HIDE DEF t, c
<1>6. /\ UNCHANGED dbTask /\ dbTarget'[t][c] = "queued"
      /\ \A d \in Clients \ {c} : dbTarget'[t][d] = dbTarget[t][d]
      /\ \A u \in Tasks \ {t} : dbTarget'[u] = dbTarget[u]
  BY <1>1, <1>2, <1>3, <1>5 DEF RequeueTarget, StoreTypeOK, Agree, Persisted
<1>7. \A u \in Tasks \ {t} : Same(u)
  BY <1>2, <1>4, <1>6 DEF Same
<1>8. MemOK(t)'
  BY <1>1, <1>2, <1>3, <1>4, <1>6
  DEF MemOK, SectionOK, RequeueOK, StatusOK, Active, storeTaskActive, Agree
<1> QED
  BY <1>1, <1>7, <1>8, MemOthers

(* The second half of a requeue. *)
LEMMA MemRequeueEnd ==
  ASSUME TypeOK, MemInv, NEW t \in Tasks, RequeueEnd(t)
  PROVE  MemInv'
<1> DEFINE c == tx[t].client
<1> USE DEF work, store
<1>1. /\ MemOK(t) /\ RequeueOK(t) /\ Targets[t] \subseteq Clients
      /\ status \in [Tasks -> [Clients -> TargetStatus]]
  BY MemTypes DEF MemInv, MemOK, SectionOK, RequeueEnd
<1>2. /\ c \in Clients /\ c \in Targets[t] /\ InHub(t) /\ status[t][c] = tx[t].to
  BY <1>1 DEF RequeueOK, Active, InHub
<1>3. /\ releaseActiveWork(ActiveWork(t, c)) /\ SetStatus(t, c, "queued")
      /\ UNCHANGED <<dbTask, dbTarget, runtime>>
  BY <1>2 DEF RequeueEnd
<1>4. tx'[t].op = "free" /\ \A u \in Tasks \ {t} : tx'[u] = tx[u]
  BY MemTypes DEF RequeueEnd, Leave, Free
<1>5. /\ status'[t][c] = "queued"
      /\ \A d \in Clients \ {c} : status'[t][d] = status[t][d]
      /\ \A u \in Tasks \ {t} : status'[u] = status[u]
  BY <1>1, <1>2, <1>3 DEF SetStatus
<1>6. \A u \in Tasks \ {t} : Same(u)
  BY <1>3, <1>4, <1>5 DEF Same, releaseActiveWork, ActiveWork
<1> HIDE DEF c
<1>7. MemOK(t)'
  <2>1. Agree(t, {})'
    BY <1>1, <1>2, <1>3, <1>5 DEF RequeueOK, Agree, Persisted, c
  <2> QED
    BY <1>1, <1>2, <1>3, <1>4, <1>5, <2>1
    DEF MemOK, SectionOK, SettledOK, StatusOK, RequeueOK, Active, InHub, storeTaskActive
<1> QED
  BY <1>6, <1>7, MemOthers

(* An ACK that is accepted finds the lease it names; SQLite is brought to   *)
(* "running" unless it is there.                                           *)
LEMMA MemAckBegin ==
  ASSUME TypeOK, MemInv, NEW f \in offered, AckBegin(f)
  PROVE  MemInv'
<1> DEFINE t == f.ref.task  c == f.ref.client  w == f.ref.work
<1> USE DEF work, store
<1>1. t \in Tasks /\ c \in Clients
  BY DEF TypeOK, WorkTypeOK, Ref
<1>2. /\ StoreTypeOK /\ MemOK(t) /\ Targets[t] \subseteq Clients
      /\ status[t][c] \in {"assigned", "running"} /\ Active(t) /\ tx[t].op = "free"
      /\ f.ref \in leases \ started
      /\ UNCHANGED <<runtime, status, leases, started>>
  BY <1>1, MemTypes DEF MemInv, AckBegin, AckValid, Unlocked
<1>3. /\ storeTaskActive(t) /\ Agree(t, {}) /\ c \in Targets[t]
  BY <1>1, <1>2 DEF MemOK, SectionOK, SettledOK, StatusOK, Active, InHub
<1>4. /\ tx'[t].op = "ack" /\ tx'[t].client = c /\ tx'[t].work = w
      /\ \A u \in Tasks \ {t} : tx'[u] = tx[u]
  <2> DEFINE section == [Free EXCEPT !.op = "ack", !.client = c, !.conn = f.conn,
                                     !.work = w]
  <2>1. Enter(t, section) /\ section.op = "ack" /\ section.client = c /\ section.work = w
    BY DEF AckBegin, Free
  <2> HIDE DEF section
  <2> QED
    BY <1>1, <2>1, LeaveSame
<1>5. StartTarget(t, c) \/ (status[t][c] = "running" /\ UNCHANGED <<dbTask, dbTarget>>)
  BY <1>2 DEF AckBegin
<1>6. f.ref \in (Matching(t, c, w) \ started)'
  BY <1>2 DEF Matching, ActiveWork
<1> HIDE DEF t, c, w
<1>7. /\ storeTaskActive(t)' /\ dbTarget'[t][c] = "running"
      /\ \A d \in Clients \ {c} : dbTarget'[t][d] = dbTarget[t][d]
      /\ \A u \in Tasks \ {t} : dbTarget'[u] = dbTarget[u] /\ dbTask'[u] = dbTask[u]
  BY <1>1, <1>2, <1>3, <1>5
  DEF StartTarget, StoreTypeOK, Agree, Persisted, storeTaskActive
<1>8. \A u \in Tasks \ {t} : Same(u)
  BY <1>2, <1>4, <1>7 DEF Same
<1>9. (Matching(t, tx[t].client, tx[t].work) \ started)' # {}
  BY <1>4, <1>6 DEF Matching, ActiveWork
<1>10. MemOK(t)'
  BY <1>1, <1>2, <1>3, <1>4, <1>7, <1>9
  DEF MemOK, SectionOK, AckOK, StatusOK, Active, Agree
<1> QED
  BY <1>1, <1>8, <1>10, MemOthers

(* The lease is still there when the second half of the ACK looks for it. *)
LEMMA MemAckEnd ==
  ASSUME TypeOK, MemInv, NEW t \in Tasks, AckEnd(t)
  PROVE  MemInv'
<1> DEFINE c == tx[t].client
           refs == Matching(t, c, tx[t].work) \ started
<1> USE DEF work, store
<1>1. /\ MemOK(t) /\ AckOK(t) /\ Targets[t] \subseteq Clients
      /\ status \in [Tasks -> [Clients -> TargetStatus]]
  BY MemTypes DEF MemInv, MemOK, SectionOK, AckEnd
<1>2. /\ c \in Clients /\ c \in Targets[t] /\ InHub(t) /\ refs # {}
  BY <1>1 DEF AckOK, Active, InHub
<1>3. /\ SetStatus(t, c, "running") /\ started' = started \cup refs
      /\ UNCHANGED <<dbTask, dbTarget, runtime, leases>>
  BY <1>2 DEF AckEnd
<1>4. tx'[t].op = "free" /\ \A u \in Tasks \ {t} : tx'[u] = tx[u]
  BY MemTypes DEF AckEnd, Leave, Free
<1>5. /\ status'[t][c] = "running"
      /\ \A d \in Clients \ {c} : status'[t][d] = status[t][d]
      /\ \A u \in Tasks \ {t} : status'[u] = status[u]
  BY <1>1, <1>2, <1>3 DEF SetStatus
<1>6. \A u \in Tasks \ {t} : Same(u)
  BY <1>3, <1>4, <1>5 DEF Same, Matching, ActiveWork
<1>7. MemOK(t)'
  <2>1. Agree(t, {})'
    BY <1>1, <1>2, <1>3, <1>5 DEF AckOK, Agree, Persisted
  <2> QED
    BY <1>1, <1>2, <1>3, <1>4, <1>5, <2>1
    DEF MemOK, SectionOK, SettledOK, StatusOK, AckOK, Active, InHub, storeTaskActive
<1> QED
  BY <1>6, <1>7, MemOthers

(* FinishTarget writes the terminal state it was asked for, and the parent  *)
(* with the last target.                                                   *)
LEMMA MemFinishBegin ==
  ASSUME TypeOK, MemInv, NEW f \in finishing, FinishBegin(f)
  PROVE  MemInv'
<1> DEFINE t == f.task  c == f.client  row == FinishedRow(t, c, f.to)
           last == ~storeTaskActive(t) \/ AllTerminal(t, row)
<1> USE DEF work, store
<1>1. t \in Tasks /\ c \in Clients /\ f.to \in TerminalStatus
  BY DEF TypeOK, CallTypeOK
<1>2. /\ StoreTypeOK /\ MemOK(t) /\ Targets[t] \subseteq Clients
      /\ status[t][c] \in ActiveStatus /\ Active(t) /\ tx[t].op = "free"
      /\ UNCHANGED <<runtime, status, leases, started>>
      /\ FinishTarget(t, c, f.to)
  BY <1>1, MemTypes DEF MemInv, FinishBegin, FinishAllowed, Unlocked, ActiveStatus
<1>3. /\ storeTaskActive(t) /\ Agree(t, {}) /\ c \in Targets[t]
  BY <1>1, <1>2 DEF MemOK, SectionOK, SettledOK, StatusOK, Active, InHub, ActiveStatus
<1>4. dbTarget[t][c] \notin TerminalStatus
  BY <1>2, <1>3 DEF Agree, Persisted, ActiveStatus, TerminalStatus
<1>5. /\ row[c] = f.to /\ row \in [Clients -> RowStatus]
      /\ \A d \in Clients \ {c} : row[d] = dbTarget[t][d]
  BY <1>1, <1>2, <1>3, <1>4, FinishedRowFacts DEF FinishedRow, StoreTypeOK
<1>6. /\ tx'[t].op = "finish" /\ tx'[t].client = c /\ tx'[t].to = row[c]
      /\ tx'[t].last = last
      /\ \A u \in Tasks \ {t} : tx'[u] = tx[u]
  <2> DEFINE section == [Free EXCEPT !.op = "finish", !.client = c, !.conn = f.conn,
                                     !.to = row[c], !.last = last]
  <2>1. Enter(t, section) /\ section.op = "finish" /\ section.client = c
        /\ section.to = row[c] /\ section.last = last
    BY DEF FinishBegin, Free
  <2> HIDE DEF section
  <2> QED
    BY <1>1, <2>1, LeaveSame
<1>7. aggregateTaskStatus(t, row) \in TaskTerminal
  BY <1>1, <1>5, AggregateIsTerminal
<1>8. /\ dbTarget' = [dbTarget EXCEPT ![t] = row]
      /\ dbTask' = IF storeTaskActive(t) /\ AllTerminal(t, row)
                   THEN [dbTask EXCEPT ![t] = aggregateTaskStatus(t, row)] ELSE dbTask
      /\ last <=> AllTerminal(t, row)
  BY <1>2, <1>3 DEF FinishTarget
<1> HIDE DEF t, c, row, last
<1>9. /\ dbTarget'[t] = row
      /\ \A u \in Tasks \ {t} : dbTarget'[u] = dbTarget[u] /\ dbTask'[u] = dbTask[u]
      /\ IF last THEN dbTask'[t] \in TaskTerminal ELSE storeTaskActive(t)'
  BY <1>1, <1>2, <1>3, <1>7, <1>8 DEF StoreTypeOK, storeTaskActive
<1>10. \A u \in Tasks \ {t} : Same(u)
  BY <1>2, <1>6, <1>9 DEF Same
<1>11. Agree(t, {c})'
  BY <1>2, <1>3, <1>5, <1>9 DEF Agree
<1>12. FinishOK(t)'
  BY <1>1, <1>2, <1>3, <1>5, <1>6, <1>9, <1>11 DEF FinishOK, Active, Agree
<1>13. MemOK(t)'
  BY <1>2, <1>6, <1>12 DEF MemOK, SectionOK, StatusOK
<1> QED
  BY <1>1, <1>10, <1>13, MemOthers

(* The second half of finishing takes the status over, or removes the task. *)
LEMMA MemFinishEnd ==
  ASSUME TypeOK, MemInv, NEW t \in Tasks, FinishEnd(t)
  PROVE  MemInv'
<1> DEFINE c == tx[t].client  to == tx[t].to
<1> USE DEF work, store
<1>1. /\ MemOK(t) /\ FinishOK(t) /\ Targets[t] \subseteq Clients
      /\ status \in [Tasks -> [Clients -> TargetStatus]]
      /\ tx \in [Tasks -> Section]
  BY MemTypes DEF MemInv, MemOK, SectionOK, FinishEnd
<1>2. /\ c \in Clients /\ c \in Targets[t] /\ InHub(t) /\ to \in TerminalStatus
  BY <1>1 DEF FinishOK, Active, InHub
<1>3. SetStatus(t, c, to) /\ UNCHANGED <<dbTask, dbTarget>> /\ Leave(t)
  BY <1>2 DEF FinishEnd
<1>4. tx'[t].op = "free" /\ \A u \in Tasks \ {t} : tx'[u] = tx[u]
  BY <1>1, <1>3 DEF Leave, Free
<1>5. /\ status'[t][c] = to
      /\ \A d \in Clients \ {c} : status'[t][d] = status[t][d]
      /\ \A u \in Tasks \ {t} : status'[u] = status[u]
  BY <1>1, <1>2, <1>3 DEF SetStatus
<1>6. StatusOK(t)'
  BY <1>1, <1>2, <1>5 DEF MemOK, StatusOK
<1>7. CASE tx[t].last
  <2>1. RemoveTask(t) /\ dbTask[t] \in TaskTerminal
    BY <1>1, <1>2, <1>7 DEF FinishEnd, FinishOK
  <2>2. Enter(t, Free) /\ Free.op \in {"free", "expired"}
    BY <1>3 DEF Leave, Enter, Free
  <2> QED
    BY <1>3, <1>5, <1>6, <2>1, <2>2, MemRemove
<1>8. CASE ~tx[t].last
  <2>1. releaseActiveWork(ActiveWork(t, c)) /\ UNCHANGED runtime
    BY <1>2, <1>8 DEF FinishEnd
  <2>2. storeTaskActive(t) /\ Agree(t, {c}) /\ dbTarget[t][c] = to /\ Active(t)
    BY <1>1, <1>8 DEF FinishOK
  <2>3. \A u \in Tasks \ {t} : Same(u)
    BY <1>3, <1>4, <1>5, <2>1 DEF Same, releaseActiveWork, ActiveWork
  <2> HIDE DEF c, to
  <2>4. Agree(t, {})'
    BY <1>1, <1>2, <1>3, <1>5, <2>2 DEF Agree, Persisted, TerminalStatus
  <2>5. MemOK(t)'
    BY <1>2, <1>3, <1>4, <1>6, <2>1, <2>2, <2>4
    DEF MemOK, SectionOK, SettledOK, Active, InHub, storeTaskActive
  <2> QED
    BY <2>3, <2>5, MemOthers
<1> QED
  BY <1>7, <1>8

(* A reservation turns a queued target into an assigned one, which SQLite   *)
(* does not tell apart; inside an open ACK its Client is not idle.          *)
LEMMA MemReserve ==
  ASSUME TypeOK, MemInv, NEW t \in Tasks, NEW c \in Clients, NEW p \in Proxies,
         Reserve(t, c, p)
  PROVE  MemInv'
<1> DEFINE ref == [task |-> t, client |-> c, proxy |-> p, work |-> issued[c] + 1]
<1> USE DEF store
<1>1. /\ MemOK(t) /\ Targets[t] \subseteq Clients
      /\ status \in [Tasks -> [Clients -> TargetStatus]]
      /\ started \subseteq Ref /\ leases \subseteq Ref
  BY MemTypes DEF MemInv
<1>2. /\ UNCHANGED <<dbTask, dbTarget, runtime, tx, started>>
      /\ leases' = leases \cup {ref}
      /\ ActiveWork(t, c) = {} /\ status[t][c] \in {"queued", "running"}
  BY DEF Reserve, Eligible
<1>3. /\ status'[t][c] = IF status[t][c] = "queued" THEN "assigned" ELSE status[t][c]
      /\ \A d \in Clients \ {c} : status'[t][d] = status[t][d]
      /\ \A u \in Tasks \ {t} : status'[u] = status[u]
  BY <1>1 DEF Reserve
<1> HIDE DEF ref
<1>4. \A u \in Tasks \ {t} : Same(u)
  BY <1>2, <1>3 DEF Same
<1>5. \A d \in Clients : Persisted(status'[t][d]) = Persisted(status[t][d])
  BY <1>2, <1>3 DEF Persisted
<1>6. \A S : Agree(t, S) => Agree(t, S)'
  BY <1>1, <1>2, <1>5 DEF Agree
<1>7. AckOK(t) => AckOK(t)'
  <2> SUFFICES ASSUME AckOK(t) PROVE AckOK(t)'
    OBVIOUS
  <2>1. (Matching(t, tx[t].client, tx[t].work) \ started)' # {}
    BY <1>2 DEF AckOK, Matching, ActiveWork
  <2>2. Agree(t, {tx[t].client})'
    BY <1>1, <1>2, <1>5 DEF AckOK, Agree
  <2> QED
    BY <1>2, <2>1, <2>2 DEF AckOK, Active, storeTaskActive
<1>8. RequeueOK(t) => RequeueOK(t)'
  <2> SUFFICES ASSUME RequeueOK(t) PROVE RequeueOK(t)'
    OBVIOUS
  <2>1. Agree(t, {tx[t].client})'
    BY <1>1, <1>2, <1>5 DEF RequeueOK, Agree
  <2>2. status'[t][tx[t].client] = tx[t].to
    BY <1>1, <1>2, <1>3 DEF RequeueOK
  <2> QED
    BY <1>2, <2>1, <2>2 DEF RequeueOK, Active, storeTaskActive
<1>9. FinishOK(t) => FinishOK(t)'
  <2> SUFFICES ASSUME FinishOK(t) PROVE FinishOK(t)'
    OBVIOUS
  <2>1. Agree(t, {tx[t].client}) => Agree(t, {tx[t].client})'
    BY <1>1, <1>2, <1>5 DEF Agree
  <2> QED
    BY <1>2, <2>1 DEF FinishOK, Active, storeTaskActive
<1>10. MemOK(t)'
  BY <1>1, <1>2, <1>3, <1>6, <1>7, <1>8, <1>9
  DEF MemOK, SectionOK, SettledOK, StatusOK, Active, InHub, storeTaskActive
<1> QED
  BY <1>4, <1>10, MemOthers

(* The sending section writes no row; a failed send gives back the lease    *)
(* and with it the assignment.                                             *)
LEMMA MemSend ==
  ASSUME TypeOK, MemInv, NEW v \in reserved, SendBegin(v) \/ SendEnd(v) \/ SendFails(v)
  PROVE  MemInv'
<1> DEFINE t == v.ref.task  c == v.ref.client
<1> USE DEF work, store
<1>1. /\ t \in Tasks /\ c \in Clients /\ MemOK(t) /\ Targets[t] \subseteq Clients
      /\ tx \in [Tasks -> Section]
      /\ status \in [Tasks -> [Clients -> TargetStatus]]
  BY MemTypes DEF MemInv, TypeOK, WorkTypeOK, Ref
<1>2. /\ UNCHANGED <<dbTask, dbTarget, runtime>>
      /\ \A u \in Tasks \ {t} : tx'[u] = tx[u] /\ status'[u] = status[u]
      /\ \A r \in leases \ started : r.task # t => r \in leases' \ started'
  BY <1>1 DEF SendBegin, SendEnd, SendFails, Enter, Leave, releaseActiveWork
<1>3. \A u \in Tasks \ {t} : Same(u)
  BY <1>2 DEF Same
<1>4. \/ tx[t].op = "free" /\ tx'[t].op = "send" /\ Active(t)
      \/ tx[t].op = "send" /\ tx'[t].op = "free"
  <2>1. CASE SendBegin(v)
    <3>1. tx[t].op = "free" /\ Active(t) /\ Enter(t, [Free EXCEPT !.op = "send"])
      BY <2>1 DEF SendBegin, reservationActive, Unlocked
    <3>2. tx'[t] = [Free EXCEPT !.op = "send"]
      BY <1>1, <3>1, LeaveSame
    <3> QED
      BY <3>1, <3>2 DEF Free
  <2>2. CASE SendEnd(v) \/ SendFails(v)
    BY <1>1, <2>2 DEF SendEnd, SendFails, Leave, Free
  <2> QED
    BY <2>1, <2>2
<1>5. \A d \in Clients : \/ status'[t][d] = status[t][d]
                         \/ status[t][d] = "assigned" /\ status'[t][d] = "queued"
  <2>1. \/ UNCHANGED status
        \/ status[t][c] = "assigned" /\ status' = [status EXCEPT ![t][c] = "queued"]
    BY DEF SendBegin, SendEnd, SendFails
  <2> QED
    BY <1>1, <2>1
<1> HIDE DEF t, c
<1>6. /\ Active(t) /\ storeTaskActive(t) /\ Agree(t, {})
  BY <1>1, <1>4 DEF MemOK, SectionOK, SettledOK, Active, InHub
<1>7. Agree(t, {})'
  BY <1>1, <1>2, <1>5, <1>6 DEF Agree, Persisted
<1>8. StatusOK(t)'
  BY <1>1, <1>5 DEF MemOK, StatusOK
<1>9. MemOK(t)'
  BY <1>2, <1>4, <1>6, <1>7, <1>8
  DEF MemOK, SectionOK, SettledOK, Active, InHub, storeTaskActive
<1> QED
  BY <1>1, <1>3, <1>9, MemOthers

(* Every step of the Hub keeps memory and rows in step. *)
LEMMA MemStep ==
  ASSUME TypeOK, MemInv, [Next]_vars
  PROVE  MemInv'
<1> USE DEF work, store
<1>1. CASE UNCHANGED vars
  BY <1>1, MemQuiet DEF vars
<1>2. ASSUME NEW k \in Conns,
             Register(k) \/ Registered(k) \/ Unregister(k) \/ Unregistered(k)
      PROVE  MemInv'
  BY <1>2, MemQuiet DEF Register, Registered, Unregister, Unregistered
<1>3. ASSUME NEW c \in Clients, DisableClient(c) \/ RevokeClient(c) PROVE MemInv'
  BY <1>3, MemQuiet DEF DisableClient, RevokeClient
<1>4. ASSUME \/ \E q \in requeuing : RequeueDropped(q)
             \/ \E f \in finishing : FinishDropped(f)
             \/ \E f \in offered : AckDropped(f)
             \/ \E f \in working : saveResult(f) \/ UnitReportDropped(f)
      PROVE  MemInv'
  BY <1>4, MemQuiet
  DEF RequeueDropped, FinishDropped, AckDropped, saveResult, UnitReportDropped
<1>5. ASSUME NEW f \in working, completeWork(f) \/ failWork(f) PROVE MemInv'
  <2>1. f.ref \in started /\ releaseActiveWork({f.ref})
        /\ UNCHANGED <<dbTask, dbTarget, runtime, status, tx>>
    BY <1>5 DEF completeWork, failWork, UnitRunning
  <2>2. \A r \in leases \ started : r \in leases' \ started'
    BY <2>1 DEF releaseActiveWork
  <2> QED
    BY <2>1, <2>2, MemQuiet
<1>6. ASSUME \/ PassBegin \/ PassEnd \/ BeginShutdown \/ ShutdownStep
             \/ \E v \in reserved : SendSkipped(v)
      PROVE  MemInv'
  BY <1>6, MemQuiet, OfShutdown DEF PassBegin, PassEnd, BeginShutdown, SendSkipped
<1> QED
  BY <1>1, <1>2, <1>3, <1>4, <1>5, <1>6, MemStartTask, MemAddTask, MemTerminateBegin,
     MemTerminateEnd, MemExpire, MemRequeueBegin, MemRequeueEnd, MemAckBegin, MemAckEnd,
     MemFinishBegin, MemFinishEnd, MemReserve, MemSend
  DEF Next, TaskStep, ConnStep, CallStep, MessageStep, PassStep

(* MemInv holds in every state of every run. *)
THEOREM MemInvariant == Spec => []MemInv
<1>1. Init => MemInv
  BY DEF Init, StoreInit, MemInv, MemOK, SectionOK, SettledOK, StatusOK, Free, InHub
<1>2. TypeOK /\ MemInv /\ [Next]_vars => MemInv'
  BY MemStep
<1> QED
  BY <1>1, <1>2, TypeCorrect, PTL DEF Spec

(* With nobody inside a transition, memory and SQLite tell the same story   *)
(* of every task, whichever sections ran, failed or were overtaken.         *)
THEOREM MemoryAgreesWithStore == Spec => []MemoryMatchesStore
<1>1. MemInv => MemoryMatchesStore
  BY DEF MemInv, MemOK, SectionOK, SettledOK, MemoryMatchesStore, Unlocked, Agree
<1> QED
  BY <1>1, MemInvariant, PTL

(* A result is stored only for a target that SQLite, too, has running. *)
THEOREM ResultsNeedRunning == Spec => ResultsOnlyWhileRunning
<1>1. TypedInv /\ MemInv /\ [Next]_vars =>
        [\A x \in results' \ results :
           dbTask[x[1]] = "running" /\ dbTarget[x[1]][x[2]] = "running"]_vars
  <2> SUFFICES ASSUME TypedInv, MemInv, Next, NEW x \in results' \ results
               PROVE  dbTask[x[1]] = "running" /\ dbTarget[x[1]][x[2]] = "running"
    OBVIOUS
  <2>1. PICK f \in working : saveResult(f)
    BY OfShutdown DEF Next, TaskStep, ConnStep, CallStep, MessageStep, PassStep, startTask, AddTask,
           CancelBegin, ExpireBegin, ExpireStoreFails, FlushBegin, RequeueEnd, AckEnd,
           FinishEnd, CancelEnd, ExpireStore, ExpireEnd, ExpireSchedule, FlushEnd, Register,
           Registered, Unregister, Unregistered, DisableClient, RevokeClient,
           RequeueDropped, RequeueBegin, FinishDropped, FinishBegin, AckDropped, AckBegin,
           UnitReportDropped, completeWork, failWork, PassBegin, PassEnd, Reserve,
           SendSkipped, SendBegin, SendEnd, SendFails, BeginShutdown
  <2> DEFINE t == f.ref.task  c == f.ref.client
  <2>2. t \in Tasks /\ c \in Clients /\ x[1] = t /\ x[2] = c
    BY <2>1 DEF saveResult, TypedInv, TypeOK, WorkTypeOK, Ref
  <2>3. tx[t].op = "free" /\ runtime[t] = "live" /\ status[t][c] = "running"
    BY <2>1 DEF saveResult, ReadsUnit, UnitRunning, Unlocked, Active
  <2> HIDE DEF t, c
  <2>4. c \in Targets[t] /\ dbTarget[t][c] = "running" /\ storeTaskActive(t)
    BY <2>2, <2>3
    DEF MemInv, MemOK, SectionOK, SettledOK, StatusOK, InHub, Agree, Persisted
  <2>5. dbTask[t] # "queued"
    BY <2>2, <2>4 DEF TypedInv, StoreInv, ParentAgrees, ParentOK
  <2> QED
    BY <2>2, <2>4, <2>5 DEF storeTaskActive
<1> QED
  BY <1>1, TypedInvariant, MemInvariant, PTL DEF Spec, ResultsOnlyWhileRunning

----------------------------------------------------------------------------
(* Completed targets.                                                      *)

(* A Client works through the plan only: what it has tested, and what it is *)
(* leased, is planned, and a target is reported or stored as completed with *)
(* the whole plan tested.                                                  *)
TestedInv ==
  /\ \A t \in Tasks, c \in Clients :
       /\ done[t][c] \subseteq Plan[t]
       /\ dbTarget[t][c] = "completed" => done[t][c] = Plan[t]
  /\ \A r \in leases : r.proxy \in Plan[r.task]
  /\ \A f \in finishing : f.to = "completed" => done[f.task][f.client] = Plan[f.task]

(* What a transaction other than FinishTarget makes of a row is not         *)
(* "completed".                                                            *)
LEMMA NoRowCompletes ==
  ASSUME StoreTypeOK, NEW t \in Tasks,
         \/ CreateTask(t)
         \/ \E c \in Clients : StartTarget(t, c) \/ RequeueTarget(t, c)
         \/ \E s \in {"canceled", "failed"} : terminateTask(t, s),
         NEW u \in Tasks, NEW d \in Clients, dbTarget'[u][d] = "completed"
  PROVE  dbTarget[u][d] = "completed"
<1>1. CASE CreateTask(t)
  BY <1>1 DEF StoreTypeOK, CreateTask
<1>2. ASSUME NEW c \in Clients, StartTarget(t, c) \/ RequeueTarget(t, c)
      PROVE  dbTarget[u][d] = "completed"
  BY <1>2 DEF StoreTypeOK, StartTarget, RequeueTarget
<1>3. ASSUME NEW s \in {"canceled", "failed"}, terminateTask(t, s)
      PROVE  dbTarget[u][d] = "completed"
  BY <1>3 DEF StoreTypeOK, terminateTask
<1> QED
  BY <1>1, <1>2, <1>3

(* FinishTarget completes at most the target it is called for. *)
LEMMA FinishCompletes ==
  ASSUME StoreTypeOK, NEW t \in Tasks, NEW c \in Clients, NEW s \in TerminalStatus,
         FinishTarget(t, c, s), NEW u \in Tasks, NEW d \in Clients,
         dbTarget'[u][d] = "completed", dbTarget[u][d] # "completed"
  PROVE  u = t /\ d = c /\ s = "completed"
<1>1. dbTarget' = [dbTarget EXCEPT ![t] = FinishedRow(t, c, s)]
  BY DEF FinishTarget
<1>2. /\ \A e \in Clients \ {c} : FinishedRow(t, c, s)[e] = dbTarget[t][e]
      /\ FinishedRow(t, c, s)[c] \in {s, dbTarget[t][c]}
  BY FinishedRowFacts DEF FinishedRow, StoreTypeOK
<1> QED
  BY <1>1, <1>2 DEF StoreTypeOK

(* A step that tests no unit, takes no lease, completes no row and orders   *)
(* no completion.                                                          *)
LEMMA TestedFrame ==
  ASSUME TestedInv, UNCHANGED done, leases' \subseteq leases,
         \A t \in Tasks, c \in Clients :
           dbTarget'[t][c] = "completed" => dbTarget[t][c] = "completed",
         \A f \in finishing' : f \in finishing \/ f.to # "completed"
  PROVE  TestedInv'
  BY DEF TestedInv

(* Testing a planned unit more. *)
LEMMA TestedComplete ==
  ASSUME TypeOK, TestedInv, StatusMatchesLease, NEW f \in working, completeWork(f)
  PROVE  TestedInv'
<1> DEFINE t == f.ref.task  c == f.ref.client  p == f.ref.proxy
           tested == done[t][c] \cup {p}
<1> USE DEF work, store
<1>1. /\ t \in Tasks /\ c \in Clients /\ p \in Plan[t]
      /\ done \in [Tasks -> [Clients -> SUBSET Proxies]]
  BY DEF TypeOK, WorkTypeOK, TaskTypeOK, Ref, completeWork, UnitRunning,
         StatusMatchesLease, TestedInv
<1>2. tested \subseteq Plan[t]
  BY <1>1 DEF TestedInv
<1>3. /\ done' = [done EXCEPT ![t][c] = tested] /\ leases' \subseteq leases
      /\ UNCHANGED dbTarget
  BY DEF completeWork, releaseActiveWork
<1>4. \A g \in finishing' : \/ g \in finishing
                            \/ g.task = t /\ g.client = c /\ AllTested(t, tested)
  BY DEF completeWork, FinishFromPeer
<1>5. AllTested(t, tested) => tested = Plan[t]
  BY <1>1, <1>2, PlanAssumption, FS_Subset DEF AllTested
<1>6. done[t][c] = Plan[t] => tested = Plan[t]
  BY <1>1
<1>7. finishing \subseteq [task : Tasks, client : Clients,
                           conn : Conns \cup {None}, to : TerminalStatus]
  BY DEF TypeOK, CallTypeOK
<1> HIDE DEF t, c, p, tested
<1>8. /\ done'[t][c] = tested
      /\ \A u \in Tasks, d \in Clients : <<u, d>> # <<t, c>> => done'[u][d] = done[u][d]
  BY <1>1, <1>3
<1>9. \A u \in Tasks, d \in Clients :
        /\ done'[u][d] \subseteq Plan[u]
        /\ dbTarget'[u][d] = "completed" => done'[u][d] = Plan[u]
  BY <1>2, <1>3, <1>6, <1>8 DEF TestedInv
<1>10. \A g \in finishing' : g.to = "completed" => done'[g.task][g.client] = Plan[g.task]
  BY <1>1, <1>4, <1>5, <1>6, <1>7, <1>8 DEF TestedInv
<1> QED
  BY <1>3, <1>9, <1>10 DEF TestedInv

(* Storing a completion that was ordered. *)
LEMMA TestedFinish ==
  ASSUME TypeOK, TestedInv, NEW f \in finishing, FinishBegin(f)
  PROVE  TestedInv'
<1> USE DEF work
<1>1. /\ StoreTypeOK /\ f.task \in Tasks /\ f.client \in Clients /\ f.to \in TerminalStatus
  BY DEF TypeOK, CallTypeOK
<1>2. /\ FinishTarget(f.task, f.client, f.to)
      /\ UNCHANGED <<done, leases>> /\ finishing' \subseteq finishing
  BY DEF FinishBegin
<1>3. \A u \in Tasks, d \in Clients :
        dbTarget'[u][d] = "completed" =>
          dbTarget[u][d] = "completed" \/ (u = f.task /\ d = f.client /\ f.to = "completed")
  BY <1>1, <1>2, FinishCompletes
<1> QED
  BY <1>2, <1>3 DEF TestedInv

(* Every step of the Hub. *)
LEMMA TestedStep ==
  ASSUME TypeOK, TestedInv, StatusMatchesLease, [Next]_vars
  PROVE  TestedInv'
<1> USE DEF work, store, calls
<1>0. StoreTypeOK
  BY DEF TypeOK
<1>1. CASE UNCHANGED vars
  BY <1>1, TestedFrame DEF vars
<1>2. ASSUME NEW t \in Tasks,
             \/ startTask(t) \/ CancelBegin(t) \/ ExpireStore(t) \/ FlushBegin(t)
      PROVE  TestedInv'
  <2>1. /\ UNCHANGED <<done, leases, finishing>>
        /\ CreateTask(t) \/ \E s \in {"canceled", "failed"} : terminateTask(t, s)
    BY <1>2 DEF startTask, CancelBegin, ExpireStore, FlushBegin
  <2>2. \A u \in Tasks, d \in Clients :
          dbTarget'[u][d] = "completed" => dbTarget[u][d] = "completed"
    BY <1>0, <2>1, NoRowCompletes
  <2> QED
    BY <2>1, <2>2, TestedFrame
<1>3. ASSUME NEW t \in Tasks,
             \/ AddTask(t) \/ ExpireBegin(t) \/ ExpireStoreFails(t) \/ RequeueEnd(t)
             \/ AckEnd(t) \/ FinishEnd(t) \/ CancelEnd(t) \/ ExpireEnd(t)
             \/ ExpireSchedule(t) \/ FlushEnd(t)
      PROVE  TestedInv'
  <2>1. /\ UNCHANGED <<done, dbTarget>> /\ leases' \subseteq leases
        /\ \A f \in finishing' : f \in finishing \/ f.to # "completed"
    BY <1>3 DEF AddTask, ExpireBegin, ExpireStoreFails, RequeueEnd, AckEnd, FinishEnd,
                CancelEnd, ExpireEnd, ExpireSchedule, FlushEnd, RemoveTask, releaseActiveWork
  <2> QED
    BY <2>1, TestedFrame
<1>4. ASSUME NEW k \in Conns,
             Register(k) \/ Registered(k) \/ Unregister(k) \/ Unregistered(k)
      PROVE  TestedInv'
  BY <1>4, TestedFrame DEF Register, Registered, Unregister, Unregistered
<1>5. ASSUME NEW c \in Clients, DisableClient(c) \/ RevokeClient(c) PROVE TestedInv'
  <2>1. /\ UNCHANGED <<done, dbTarget, leases>>
        /\ \A f \in finishing' : f \in finishing \/ f.to # "completed"
    BY <1>5 DEF DisableClient, RevokeClient
  <2> QED
    BY <2>1, TestedFrame
<1>6. ASSUME NEW q \in requeuing, RequeueBegin(q) PROVE TestedInv'
  <2>1. q.task \in Tasks /\ Owner[q.conn] \in Clients
    BY HubAssumption DEF TypeOK, CallTypeOK
  <2>2. /\ UNCHANGED <<done, leases, finishing>>
        /\ RequeueTarget(q.task, Owner[q.conn]) \/ UNCHANGED dbTarget
    BY <1>6 DEF RequeueBegin
  <2>3. \A u \in Tasks, d \in Clients :
          dbTarget'[u][d] = "completed" => dbTarget[u][d] = "completed"
    BY <1>0, <2>1, <2>2, NoRowCompletes
  <2> QED
    BY <2>2, <2>3, TestedFrame
<1>7. ASSUME NEW f \in offered, AckBegin(f) PROVE TestedInv'
  <2>1. f.ref.task \in Tasks /\ f.ref.client \in Clients
    BY DEF TypeOK, WorkTypeOK, Ref
  <2>2. /\ UNCHANGED <<done, leases, finishing>>
        /\ StartTarget(f.ref.task, f.ref.client) \/ UNCHANGED dbTarget
    BY <1>7 DEF AckBegin
  <2>3. \A u \in Tasks, d \in Clients :
          dbTarget'[u][d] = "completed" => dbTarget[u][d] = "completed"
    BY <1>0, <2>1, <2>2, NoRowCompletes
  <2> QED
    BY <2>2, <2>3, TestedFrame
<1>8. ASSUME \/ \E q \in requeuing : RequeueDropped(q)
             \/ \E f \in finishing : FinishDropped(f)
             \/ \E f \in offered : AckDropped(f)
             \/ \E f \in working : saveResult(f) \/ UnitReportDropped(f) \/ failWork(f)
             \/ BeginShutdown \/ ShutdownStep
      PROVE  TestedInv'
  <2>1. /\ UNCHANGED <<done, dbTarget>> /\ leases' \subseteq leases
        /\ \A f \in finishing' : f \in finishing \/ f.to # "completed"
    BY <1>8, OfShutdown DEF RequeueDropped, FinishDropped, AckDropped, saveResult, UnitReportDropped,
                failWork, FinishFromPeer, releaseActiveWork, BeginShutdown
  <2> QED
    BY <2>1, TestedFrame
<1>9. ASSUME \/ PassBegin \/ PassEnd
             \/ \E v \in reserved : SendSkipped(v) \/ SendBegin(v) \/ SendEnd(v)
                                    \/ SendFails(v)
      PROVE  TestedInv'
  <2>1. UNCHANGED <<done, dbTarget, finishing>> /\ leases' \subseteq leases
    BY <1>9 DEF PassBegin, PassEnd, SendSkipped, SendBegin, SendEnd, SendFails,
                releaseActiveWork
  <2> QED
    BY <2>1, TestedFrame
<1>10. ASSUME NEW t \in Tasks, NEW c \in Clients, NEW p \in Proxies, Reserve(t, c, p)
       PROVE  TestedInv'
  <2> DEFINE ref == [task |-> t, client |-> c, proxy |-> p, work |-> issued[c] + 1]
  <2>1. ref.task = t /\ ref.proxy = p /\ p \in Plan[t]
    BY <1>10 DEF Reserve, Eligible
  <2>2. leases' = leases \cup {ref} /\ UNCHANGED <<done, dbTarget, finishing>>
    BY <1>10 DEF Reserve
  <2> HIDE DEF ref
  <2> QED
    BY <2>1, <2>2 DEF TestedInv
<1> QED
  BY <1>1, <1>2, <1>3, <1>4, <1>5, <1>6, <1>7, <1>8, <1>9, <1>10, TestedFinish,
     TestedComplete
  DEF Next, TaskStep, ConnStep, CallStep, MessageStep, PassStep

(* A target stored as completed has had every proxy of its task tested by   *)
(* its own Client, however often it was requeued, retried or reconnected.   *)
THEOREM CompletedIsTested == Spec => []CompletedMeansTested
<1>1. Init => TestedInv
  BY HubAssumption DEF Init, StoreInit, TestedInv
<1>2. TypeOK /\ TestedInv /\ StatusMatchesLease /\ [Next]_vars => TestedInv'
  BY TestedStep
<1>3. TestedInv => CompletedMeansTested
  BY TargetsAssumption DEF TestedInv, CompletedMeansTested
<1> QED
  BY <1>1, <1>2, <1>3, TypeCorrect, StatusFollowsLease, PTL DEF Spec

----------------------------------------------------------------------------
(* Revoked Clients. *)

RevokedOffline == \A c \in revoked : peers[c] = None

(* The failure of c in t is ordered or being stored, if c is active in t. *)
Settling(t, c) ==
  Active(t) /\ status[t][c] \in ActiveStatus =>
    \/ [task |-> t, client |-> c, conn |-> None, to |-> "failed"] \in finishing
    \/ tx[t].op = "finish" /\ tx[t].client = c
RevokedSettling == \A c \in revoked, t \in Tasks : Settling(t, c)

(* A revoked Client never gets a connection again. *)
LEMMA OfflineStep ==
  ASSUME TypeOK, RevokedOffline, [Next]_vars
  PROVE  RevokedOffline'
<1> USE DEF links, access, gates
<1>0. peers \in [Clients -> Conns \cup {None}] /\ revoked \subseteq Clients
      /\ Owner \in [Conns -> Clients]
  BY HubAssumption DEF TypeOK, ConnTypeOK, AccessTypeOK
<1>1. CASE UNCHANGED vars
  BY <1>1 DEF vars, RevokedOffline
<1>2. ASSUME NEW k \in Conns, Register(k) PROVE RevokedOffline'
  BY <1>0, <1>2 DEF Register, RevokedOffline
<1>3. ASSUME NEW k \in Conns, Registered(k) \/ Unregister(k) \/ Unregistered(k)
      PROVE  RevokedOffline'
  BY <1>0, <1>3 DEF Registered, Unregister, Unregistered, RevokedOffline
<1>4. ASSUME NEW c \in Clients, RevokeClient(c) \/ DisableClient(c) PROVE RevokedOffline'
  BY <1>0, <1>4 DEF RevokeClient, DisableClient, RevokedOffline
<1>5. ASSUME NEW t \in Tasks,
             \/ startTask(t) \/ AddTask(t) \/ CancelBegin(t) \/ ExpireBegin(t)
             \/ ExpireStoreFails(t) \/ FlushBegin(t) \/ TaskStep(t)
      PROVE  RevokedOffline'
  <2>1. UNCHANGED <<peers, revoked>>
    BY <1>5 DEF startTask, AddTask, CancelBegin, ExpireBegin, ExpireStoreFails, FlushBegin,
                TaskStep, RequeueEnd, AckEnd, FinishEnd, CancelEnd, ExpireStore, ExpireEnd,
                ExpireSchedule, FlushEnd
  <2> QED
    BY <2>1 DEF RevokedOffline
<1>6. CASE CallStep \/ MessageStep
  <2>1. UNCHANGED <<peers, revoked>>
    BY <1>6 DEF CallStep, RequeueDropped, RequeueBegin, FinishDropped, FinishBegin,
                MessageStep, AckDropped, AckBegin, saveResult, UnitReportDropped,
                completeWork, failWork, FinishFromPeer
  <2> QED
    BY <2>1 DEF RevokedOffline
<1>7. CASE PassStep
  <2>1. UNCHANGED <<peers, revoked>>
    BY <1>7 DEF PassStep, PassBegin, PassEnd, Reserve, SendSkipped, SendBegin, SendEnd,
                SendFails
  <2> QED
    BY <2>1 DEF RevokedOffline
<1>8. CASE BeginShutdown \/ ShutdownStep
  BY <1>0, <1>8, OfShutdown DEF BeginShutdown, RevokedOffline
<1> QED
  BY <1>1, <1>2, <1>3, <1>4, <1>5, <1>6, <1>7, <1>8 DEF Next, ConnStep

(* A step that revokes nobody, adds no task, revives no target, and         *)
(* neither drops an order nor touches a finishing section.                  *)
LEMMA SettlingFrame ==
  ASSUME RevokedSettling, revoked \subseteq Clients, UNCHANGED revoked,
         finishing \subseteq finishing',
         \A t \in Tasks : Active(t)' => Active(t),
         \A t \in Tasks, c \in Clients :
           status'[t][c] \in ActiveStatus => status[t][c] \in ActiveStatus,
         \A t \in Tasks : tx[t].op = "finish" => tx'[t] = tx[t]
  PROVE  RevokedSettling'
  BY DEF RevokedSettling, Settling, ActiveStatus

(* A task that arrives with a revoked target brings the order along. *)
LEMMA SettlingAddTask ==
  ASSUME TypeOK, RevokedSettling, NEW t \in Tasks, AddTask(t)
  PROVE  RevokedSettling'
<1> USE DEF access, gates
<1>1. /\ status \in [Tasks -> [Clients -> TargetStatus]] /\ revoked \subseteq Clients
      /\ runtime \in [Tasks -> {"new", "created", "live", "pending", "gone"}]
  BY DEF TypeOK, TaskTypeOK, AccessTypeOK
<1>2. SUFFICES ASSUME NEW c \in revoked, NEW u \in Tasks PROVE Settling(u, c)'
  BY DEF AddTask, RevokedSettling
<1>3. CASE u = t
  <2>1. c \in Targets[t] =>
          [task |-> t, client |-> c, conn |-> None, to |-> "failed"] \in finishing'
    BY DEF AddTask, RevokedTargets
  <2>2. c \notin Targets[t] => status'[t][c] = "none"
    BY <1>1, <1>2 DEF AddTask
  <2> QED
    BY <1>3, <2>1, <2>2 DEF Settling, ActiveStatus
<1>4. CASE u # t
  BY <1>1, <1>4 DEF AddTask, RevokedSettling, Settling, Active, ActiveStatus
<1> QED
  BY <1>3, <1>4

(* A revocation orders the failure of every target of its Client. *)
LEMMA SettlingRevoke ==
  ASSUME TypeOK, RevokedSettling, NEW c \in Clients, RevokeClient(c)
  PROVE  RevokedSettling'
<1>1. SUFFICES ASSUME NEW d \in revoked \cup {c}, NEW u \in Tasks PROVE Settling(u, d)'
  BY DEF RevokeClient, RevokedSettling
<1>2. CASE d = c
  BY <1>2 DEF RevokeClient, Settling, Active, InHub
<1>3. CASE d \in revoked
  BY <1>3 DEF RevokeClient, RevokedSettling, Settling, Active
<1> QED
  BY <1>2, <1>3

(* An order is dropped only when there is nothing left to do (the store     *)
(* does not fail), or turns into a section.                                *)
LEMMA SettlingCalls ==
  ASSUME "store" \notin Env, TypeOK, RevokedSettling,
         NEW f \in finishing, FinishDropped(f) \/ FinishBegin(f)
  PROVE  RevokedSettling'
<1> USE DEF access, gates
<1>1. f.task \in Tasks /\ f.client \in Clients
      /\ tx \in [Tasks -> Section]
  BY DEF TypeOK, CallTypeOK, SectionTypeOK
<1>2. SUFFICES ASSUME NEW c \in revoked, NEW u \in Tasks PROVE Settling(u, c)'
  BY DEF FinishDropped, FinishBegin, RevokedSettling
<1> DEFINE order == [task |-> u, client |-> c, conn |-> None, to |-> "failed"]
<1>3. /\ UNCHANGED <<runtime, status>> /\ finishing' = finishing \ {f}
      /\ Settling(u, c)
  BY DEF FinishDropped, FinishBegin, RevokedSettling
<1>4. order.task = u /\ order.client = c /\ order.conn = None
  OBVIOUS
<1> HIDE DEF order
<1>5. CASE FinishDropped(f)
  <2>1. f = order => ~(Active(u) /\ status[u][c] \in ActiveStatus)
    BY <1>4, <1>5 DEF FinishDropped, FinishAllowed
  <2>2. tx' = tx
    BY <1>5 DEF FinishDropped
  <2> QED
    BY <1>3, <2>1, <2>2 DEF Settling, Active, order
<1>6. CASE FinishBegin(f)
  <2>1. /\ tx[f.task].op = "free" /\ tx'[f.task].op = "finish" /\ tx'[f.task].client = f.client
        /\ \A v \in Tasks \ {f.task} : tx'[v] = tx[v]
    <3> DEFINE row == FinishedRow(f.task, f.client, f.to)
               section == [Free EXCEPT !.op = "finish", !.client = f.client,
                 !.conn = f.conn, !.to = row[f.client],
                 !.last = ~storeTaskActive(f.task) \/ AllTerminal(f.task, row)]
    <3>1. tx[f.task].op = "free" /\ Enter(f.task, section)
      BY <1>6 DEF FinishBegin, Unlocked
    <3>2. section.op = "finish" /\ section.client = f.client
      BY DEF Free
    <3> HIDE DEF section
    <3> QED
      BY <1>1, <3>1, <3>2, LeaveSame
  <2> QED
    BY <1>1, <1>3, <1>4, <2>1 DEF Settling, Active, order
<1> QED
  BY <1>5, <1>6

(* The section that stored a terminal status hands it to memory. *)
LEMMA SettlingFinishEnd ==
  ASSUME TypeOK, MemInv, RevokedSettling, NEW t \in Tasks, FinishEnd(t)
  PROVE  RevokedSettling'
<1> USE DEF access, gates
<1>1. /\ status \in [Tasks -> [Clients -> TargetStatus]] /\ tx \in [Tasks -> Section]
      /\ runtime \in [Tasks -> {"new", "created", "live", "pending", "gone"}]
      /\ FinishOK(t) /\ revoked \subseteq Clients
  BY MemTypes DEF TypeOK, AccessTypeOK, MemInv, MemOK, SectionOK, FinishEnd
<1>2. SUFFICES ASSUME NEW c \in revoked, NEW u \in Tasks PROVE Settling(u, c)'
  BY DEF FinishEnd, RevokedSettling
<1>3. /\ UNCHANGED finishing /\ InHub(t) /\ tx[t].to \in TerminalStatus
      /\ status' = [status EXCEPT ![t][tx[t].client] = tx[t].to]
      /\ \A v \in Tasks \ {t} : tx'[v] = tx[v]
      /\ Active(u)' => Active(u)
  BY <1>1 DEF FinishEnd, calls, FinishOK, Active, InHub, SetStatus, Leave, RemoveTask
<1>4. Settling(u, c)
  BY DEF RevokedSettling
<1> QED
  BY <1>1, <1>3, <1>4 DEF Settling, ActiveStatus, TerminalStatus

(* Every step of the Hub, if the store does not fail. *)
LEMMA SettlingStep ==
  ASSUME "store" \notin Env, TypeOK, MemInv, StatusMatchesLease, RevokedSettling,
         [Next]_vars
  PROVE  RevokedSettling'
<1> USE DEF access, gates, calls
<1>0. /\ status \in [Tasks -> [Clients -> TargetStatus]] /\ tx \in [Tasks -> Section]
      /\ runtime \in [Tasks -> {"new", "created", "live", "pending", "gone"}]
      /\ revoked \subseteq Clients
  BY MemTypes DEF TypeOK, AccessTypeOK
<1>1. CASE UNCHANGED vars
  BY <1>0, <1>1, SettlingFrame DEF vars, Active
<1>2. ASSUME NEW t \in Tasks,
             \/ startTask(t) \/ CancelBegin(t) \/ ExpireBegin(t) \/ ExpireStore(t)
             \/ ExpireStoreFails(t) \/ FlushBegin(t) \/ ExpireSchedule(t)
      PROVE  RevokedSettling'
  <2>1. UNCHANGED <<revoked, finishing, status>>
    BY <1>2 DEF startTask, CancelBegin, ExpireBegin, ExpireStore, ExpireStoreFails,
                FlushBegin, ExpireSchedule
  <2>2. \A u \in Tasks : Active(u)' => Active(u)
    BY <1>0, <1>2
    DEF startTask, CancelBegin, ExpireBegin, ExpireStore, ExpireStoreFails, FlushBegin,
        ExpireSchedule, Active
  <2>3. \A u \in Tasks : tx[u].op = "finish" => tx'[u] = tx[u]
    BY <1>0, <1>2
    DEF startTask, CancelBegin, CancelAllowed, ExpireBegin, ExpireStore, ExpireStoreFails,
        FlushBegin, FlushDue, ExpireSchedule, Unlocked, Enter, Leave
  <2> QED
    BY <1>0, <2>1, <2>2, <2>3, SettlingFrame
<1>3. ASSUME NEW t \in Tasks, CancelEnd(t) \/ ExpireEnd(t) \/ FlushEnd(t)
      PROVE  RevokedSettling'
  <2>1. UNCHANGED <<revoked, finishing>>
    BY <1>3 DEF CancelEnd, ExpireEnd, FlushEnd
  <2>2. \A u \in Tasks : Active(u)' => Active(u)
    BY <1>0, <1>3 DEF CancelEnd, ExpireEnd, FlushEnd, RemoveTask, Active
  <2>3. \A u \in Tasks : tx[u].op = "finish" => tx'[u] = tx[u]
    BY <1>0, <1>3 DEF CancelEnd, ExpireEnd, FlushEnd, Enter, Leave
  <2>4. \A u \in Tasks, c \in Clients :
          status'[u][c] \in ActiveStatus => status[u][c] \in ActiveStatus
    BY <1>0, <1>3 DEF CancelEnd, ExpireEnd, FlushEnd, ActiveStatus
  <2> QED
    BY <1>0, <2>1, <2>2, <2>3, <2>4, SettlingFrame
<1>4. ASSUME NEW t \in Tasks, RequeueEnd(t) \/ AckEnd(t) PROVE RevokedSettling'
  <2>1. UNCHANGED <<revoked, finishing, runtime>>
    BY <1>4 DEF RequeueEnd, AckEnd
  <2>2. \A u \in Tasks : tx[u].op = "finish" => tx'[u] = tx[u]
    BY <1>0, <1>4 DEF RequeueEnd, AckEnd, Leave
  <2>3. status[t][tx[t].client] \in ActiveStatus
    <3>1. CASE RequeueEnd(t)
      <4>1. RequeueOK(t)
        BY <3>1 DEF RequeueEnd, MemInv, MemOK, SectionOK
      <4> QED
        BY <4>1 DEF RequeueOK, ActiveStatus
    <3>2. CASE AckEnd(t)
      <4>1. AckOK(t)
        BY <3>2 DEF AckEnd, MemInv, MemOK, SectionOK
      <4>2. PICK r \in leases : r.task = t /\ r.client = tx[t].client
        BY <4>1 DEF AckOK, Matching, ActiveWork
      <4> QED
        BY <4>2 DEF StatusMatchesLease, ActiveStatus
    <3> QED
      BY <1>4, <3>1, <3>2
  <2>4. \A u \in Tasks, c \in Clients :
          status'[u][c] \in ActiveStatus => status[u][c] \in ActiveStatus
    <3>1. \/ UNCHANGED status
          \/ \E s : status' = [status EXCEPT ![t][tx[t].client] = s]
      BY <1>4 DEF RequeueEnd, AckEnd, SetStatus
    <3> QED
      BY <1>0, <2>3, <3>1
  <2> QED
    BY <1>0, <2>1, <2>2, <2>4, SettlingFrame DEF Active
<1>5. ASSUME NEW k \in Conns,
             Register(k) \/ Registered(k) \/ Unregister(k) \/ Unregistered(k)
      PROVE  RevokedSettling'
  BY <1>0, <1>5, SettlingFrame DEF Register, Registered, Unregister, Unregistered, Active
<1>6. ASSUME NEW c \in Clients, DisableClient(c) PROVE RevokedSettling'
  BY <1>0, <1>6, SettlingFrame DEF DisableClient, Active
<1>7. ASSUME NEW q \in requeuing, RequeueDropped(q) \/ RequeueBegin(q)
      PROVE  RevokedSettling'
  <2>1. UNCHANGED <<revoked, finishing, status, runtime>>
    BY <1>7 DEF RequeueDropped, RequeueBegin
  <2>2. \A u \in Tasks : tx[u].op = "finish" => tx'[u] = tx[u]
    BY <1>0, <1>7 DEF RequeueDropped, RequeueBegin, Unlocked, Enter
  <2> QED
    BY <1>0, <2>1, <2>2, SettlingFrame DEF Active
<1>8. CASE MessageStep
  <2>1. UNCHANGED <<revoked, status, runtime>> /\ finishing \subseteq finishing'
    BY <1>8 DEF MessageStep, AckDropped, AckBegin, saveResult, UnitReportDropped,
                completeWork, failWork, FinishFromPeer
  <2>2. \A u \in Tasks : tx[u].op = "finish" => tx'[u] = tx[u]
    BY <1>0, <1>8 DEF MessageStep, AckDropped, AckBegin, saveResult, UnitReportDropped,
                completeWork, failWork, Unlocked, Enter
  <2> QED
    BY <1>0, <2>1, <2>2, SettlingFrame DEF Active
<1>9. CASE PassStep
  <2>1. UNCHANGED <<revoked, runtime, finishing>>
    BY <1>9 DEF PassStep, PassBegin, PassEnd, Reserve, SendSkipped, SendBegin, SendEnd,
                SendFails
  <2>2. \A u \in Tasks : tx[u].op = "finish" => tx'[u] = tx[u]
    BY <1>0, <1>9 DEF PassStep, PassBegin, PassEnd, Reserve, SendSkipped, SendBegin,
                      SendEnd, SendFails, Unlocked, Enter, Leave
  <2>3. \A u \in Tasks, c \in Clients :
          status'[u][c] \in ActiveStatus => status[u][c] \in ActiveStatus
    <3>1. \/ UNCHANGED status
          \/ \E t \in Tasks, c \in Clients, s \in {"assigned", "queued"} :
               status[t][c] \in ActiveStatus /\ status' = [status EXCEPT ![t][c] = s]
      <4>1. ASSUME NEW t \in Tasks, NEW c \in Clients, NEW p \in Proxies, Reserve(t, c, p)
            PROVE  \/ UNCHANGED status
                   \/ /\ status[t][c] \in ActiveStatus
                      /\ status' = [status EXCEPT ![t][c] = "assigned"]
        BY <4>1 DEF Reserve, ActiveStatus
      <4>2. ASSUME NEW v \in reserved, SendFails(v)
            PROVE  \/ UNCHANGED status
                   \/ /\ status[v.ref.task][v.ref.client] \in ActiveStatus
                      /\ status' = [status EXCEPT ![v.ref.task][v.ref.client] = "queued"]
        BY <4>2 DEF SendFails, ActiveStatus
      <4>3. \A v \in reserved : v.ref.task \in Tasks /\ v.ref.client \in Clients
        BY DEF TypeOK, WorkTypeOK, Ref
      <4>4. ASSUME \/ PassBegin \/ PassEnd
                   \/ \E v \in reserved : SendSkipped(v) \/ SendBegin(v) \/ SendEnd(v)
            PROVE  UNCHANGED status
        BY <4>4 DEF PassBegin, PassEnd, SendSkipped, SendBegin, SendEnd
      <4> DEFINE Moves(t, c, s) ==
             status[t][c] \in ActiveStatus /\ status' = [status EXCEPT ![t][c] = s]
      <4>5. \A t \in Tasks, c \in Clients, p \in Proxies : Reserve(t, c, p) =>
              UNCHANGED status \/ Moves(t, c, "assigned")
        BY <4>1
      <4>6. \A v \in reserved : SendFails(v) =>
              UNCHANGED status \/ Moves(v.ref.task, v.ref.client, "queued")
        BY <4>2
      <4> HIDE DEF Moves
      <4>7. \/ UNCHANGED status
            \/ \E t \in Tasks, c \in Clients, s \in {"assigned", "queued"} : Moves(t, c, s)
        BY <1>9, <4>3, <4>4, <4>5, <4>6 DEF PassStep
      <4> QED
        BY <4>7 DEF Moves
    <3> QED
      BY <1>0, <3>1
  <2> QED
    BY <1>0, <2>1, <2>2, <2>3, SettlingFrame DEF Active
<1>10. CASE BeginShutdown \/ ShutdownStep
  BY <1>0, <1>10, SettlingFrame, OfShutdown DEF BeginShutdown, Active
<1> QED
  BY <1>1, <1>2, <1>3, <1>4, <1>5, <1>6, <1>7, <1>8, <1>9, <1>10, SettlingAddTask,
     SettlingRevoke, SettlingCalls, SettlingFinishEnd
  DEF Next, TaskStep, ConnStep, CallStep

(* A revoked Client is offline in every run. *)
THEOREM RevokedStayOffline == Spec => []RevokedOffline
<1>1. Init => RevokedOffline
  BY DEF Init, RevokedOffline
<1>2. TypeOK /\ RevokedOffline /\ [Next]_vars => RevokedOffline'
  BY OfflineStep
<1> QED
  BY <1>1, <1>2, TypeCorrect, PTL DEF Spec

(* Unless the store fails, no share of a revoked Client is forgotten: it is *)
(* finished, or its failure is ordered or being stored, whatever creation,  *)
(* requeue, ACK or reservation the revocation met half way.                 *)
THEOREM RevokedSharesSettle ==
  ASSUME "store" \notin Env
  PROVE  Spec => []RevokedSettled
<1>1. Init => RevokedSettling
  BY DEF Init, RevokedSettling
<1>2. TypeOK /\ MemInv /\ StatusMatchesLease /\ RevokedSettling /\ [Next]_vars
        => RevokedSettling'
  BY SettlingStep
<1>3. RevokedOffline /\ RevokedSettling => RevokedSettled
  BY DEF RevokedOffline, RevokedSettling, Settling, RevokedSettled
<1> QED
  BY <1>1, <1>2, <1>3, RevokedStayOffline, TypeCorrect, MemInvariant, StatusFollowsLease,
     PTL DEF Spec

----------------------------------------------------------------------------
(* Waking the scheduler. *)

(* Somebody will call schedule() before all goroutines rest: a second half  *)
(* that ends with it, a registration, or a report of a peer.                *)
WillSchedule ==
  \/ wake \/ passing
  \/ \E t \in Tasks : tx[t].op \in {"finish", "expired"}
  \/ \E k \in Conns : phase[k] = "registering"
  \/ \E f \in finishing : f.conn # None
NothingWaits ==
  ~WillSchedule => \A t \in Tasks, c \in Clients, p \in Proxies :
                     Eligible(t, c, p) => peers[c] \in closed

(* Client c is looked at again, or has no connection. *)
Served(c) == wake \/ peers[c] = None \/ phase[peers[c]] = "registering"

(* A pass gives up only on Clients that are served again or whose           *)
(* connection it has closed, and its reservation is for the connection of   *)
(* its Client unless that one is served again.                             *)
PassOK ==
  /\ reserved # {} \/ excluded # {} => passing
  /\ \A c \in excluded : Served(c) \/ peers[c] \in closed
  /\ \A v \in reserved : Served(v.ref.client) \/ peers[v.ref.client] = v.conn

(* A connection whose message is being handled has been registered. *)
Past(k) == phase[k] \notin {"off", "registering"}
CallersRegistered ==
  /\ \A f \in finishing, k \in Conns : f.conn = k => Past(k)
  /\ \A t \in Tasks, k \in Conns :
       tx[t].op \in {"ack", "finish"} /\ tx[t].conn = k => Past(k)

(* What a step does to the connections as the scheduler sees them. *)
LinkOK ==
  /\ \A k \in Conns : Past(k) => Past(k)'
  /\ \A k \in Conns : phase[k] = "registering" => phase'[k] = "registering" \/ wake'
  /\ \A c \in Clients : peers'[c] \in {peers[c], None} \/ phase'[peers'[c]] = "registering"
  /\ closed \subseteq closed'
  /\ wake => wake' \/ PassBegin

LEMMA LinkQuiet ==
  ASSUME UNCHANGED <<phase, peers>>, closed \subseteq closed', wake => wake'
  PROVE  LinkOK
  BY DEF LinkOK, Past

(* A connection is registered once and wakes the scheduler when it is; a    *)
(* Client loses its connection, or gets one that is being registered.       *)
LEMMA LinkStep ==
  ASSUME TypeOK, CallersRegistered, [Next]_vars
  PROVE  LinkOK
<1> USE DEF links
<1>0. /\ phase \in [Conns -> {"off", "registering", "reading", "handling", "leaving", "gone"}]
      /\ peers \in [Clients -> Conns \cup {None}] /\ None \notin Conns
      /\ Owner \in [Conns -> Clients] /\ wake \in BOOLEAN
  BY HubAssumption DEF TypeOK, ConnTypeOK, PhaseTypeOK, AccessTypeOK
<1>1. CASE UNCHANGED vars
  BY <1>1, LinkQuiet DEF vars
<1>2. ASSUME NEW t \in Tasks,
             \/ startTask(t) \/ AddTask(t) \/ CancelBegin(t) \/ ExpireBegin(t)
             \/ ExpireStoreFails(t) \/ FlushBegin(t) \/ RequeueEnd(t) \/ CancelEnd(t)
             \/ ExpireStore(t) \/ ExpireEnd(t) \/ ExpireSchedule(t) \/ FlushEnd(t)
      PROVE  LinkOK
  <2>1. UNCHANGED <<phase, peers, closed>> /\ (wake => wake')
    BY <1>0, <1>2
    DEF startTask, AddTask, CancelBegin, ExpireBegin, ExpireStoreFails, FlushBegin,
                RequeueEnd, CancelEnd, ExpireStore, ExpireEnd, ExpireSchedule, FlushEnd
  <2> QED
    BY <2>1, LinkQuiet
<1>3. ASSUME NEW t \in Tasks, AckEnd(t) PROVE LinkOK
  <2>1. tx[t].conn \in Conns /\ Past(tx[t].conn)
    BY <1>0, <1>3 DEF AckEnd, TypeOK, SectionTypeOK, CallersRegistered
  <2>2. phase' = [phase EXCEPT ![tx[t].conn] = "reading"] /\ UNCHANGED <<peers, closed, wake>>
    BY <1>3 DEF AckEnd, SetPhase
  <2> QED
    BY <1>0, <2>1, <2>2 DEF LinkOK, Past
<1>4. ASSUME NEW t \in Tasks, FinishEnd(t) PROVE LinkOK
  BY <1>0, <1>4 DEF FinishEnd, LinkOK, Past
<1>5. ASSUME NEW k \in Conns, Register(k) PROVE LinkOK
  <2>1. /\ Owner[k] \in Clients /\ phase' = [phase EXCEPT ![k] = "registering"]
        /\ peers' = [peers EXCEPT ![Owner[k]] = k]
        /\ phase[k] = "off" /\ UNCHANGED <<closed, wake>>
    BY <1>0, <1>5 DEF Register, SetPhase
  <2> QED
    BY <1>0, <2>1 DEF LinkOK, Past
<1>6. ASSUME NEW k \in Conns, Registered(k) \/ Unregistered(k) PROVE LinkOK
  BY <1>0, <1>6 DEF Registered, Unregistered, SetPhase, LinkOK, Past
<1>7. ASSUME NEW k \in Conns, Unregister(k) PROVE LinkOK
  <2>1. /\ Owner[k] \in Clients /\ phase' = [phase EXCEPT ![k] = "leaving"]
        /\ \A c \in Clients : peers'[c] \in {peers[c], None}
        /\ phase[k] = "reading" /\ UNCHANGED <<closed, wake>>
    BY <1>0, <1>7 DEF Unregister, SetPhase
  <2> QED
    BY <1>0, <2>1 DEF LinkOK, Past
<1>8. ASSUME NEW c \in Clients, DisableClient(c) \/ RevokeClient(c) PROVE LinkOK
  BY <1>0, <1>8 DEF DisableClient, RevokeClient, LinkOK, Past
<1>9. ASSUME \/ \E q \in requeuing : RequeueDropped(q) \/ RequeueBegin(q)
             \/ \E f \in finishing : FinishBegin(f)
             \/ \E f \in offered : AckDropped(f)
             \/ \E f \in working : saveResult(f) \/ UnitReportDropped(f)
      PROVE  LinkOK
  BY <1>0, <1>9, LinkQuiet DEF RequeueDropped, RequeueBegin, FinishBegin, AckDropped, saveResult,
                         UnitReportDropped
<1>10. ASSUME NEW f \in finishing, FinishDropped(f) PROVE LinkOK
  <2>1. /\ phase' = IF f.conn = None THEN phase ELSE [phase EXCEPT ![f.conn] = "reading"]
        /\ UNCHANGED <<peers, closed>>
        /\ (wake => wake') /\ (f.conn # None => wake')
    BY <1>10 DEF FinishDropped
  <2> QED
    BY <1>0, <2>1 DEF LinkOK, Past
<1>11. ASSUME NEW f \in offered, AckBegin(f) PROVE LinkOK
  <2>1. phase[f.conn] = "reading" /\ phase' = [phase EXCEPT ![f.conn] = "handling"]
        /\ UNCHANGED <<peers, closed, wake>>
    BY <1>11 DEF AckBegin, Reads, SetPhase
  <2> QED
    BY <1>0, <2>1 DEF LinkOK, Past
<1>12. ASSUME NEW f \in working, completeWork(f) \/ failWork(f) PROVE LinkOK
  <2>1. /\ phase[f.conn] = "reading" /\ UNCHANGED <<peers, closed>> /\ (wake => wake')
        /\ phase' = [phase EXCEPT ![f.conn] = "handling"] \/ UNCHANGED phase
    BY <1>12 DEF completeWork, failWork, FinishFromPeer, ReadsUnit, Reads, SetPhase
  <2> QED
    BY <1>0, <2>1 DEF LinkOK, Past
<1>13. CASE PassBegin
  BY <1>0, <1>13 DEF PassBegin, LinkOK, Past
<1>14. ASSUME \/ PassEnd
              \/ \E t \in Tasks, c \in Clients, p \in Proxies : Reserve(t, c, p)
              \/ \E v \in reserved : SendSkipped(v) \/ SendBegin(v) \/ SendEnd(v)
                                     \/ SendFails(v)
       PROVE  LinkOK
  <2>1. ASSUME NEW v \in reserved, SendFails(v)
        PROVE  UNCHANGED <<phase, peers, wake>> /\ closed \subseteq closed'
    BY <2>1 DEF SendFails
  <2>2. ASSUME \/ PassEnd
               \/ \E t \in Tasks, c \in Clients, p \in Proxies : Reserve(t, c, p)
               \/ \E v \in reserved : SendSkipped(v) \/ SendBegin(v) \/ SendEnd(v)
        PROVE  UNCHANGED <<phase, peers, wake, closed>>
    BY <2>2 DEF PassEnd, Reserve, SendSkipped, SendBegin, SendEnd
  <2>3. UNCHANGED <<phase, peers, wake>> /\ closed \subseteq closed'
    BY <1>14, <2>1, <2>2
  <2> QED
    BY <2>3, LinkQuiet
<1>15. CASE BeginShutdown \/ ShutdownStep
  BY <1>0, <1>15, OfShutdown DEF BeginShutdown, LinkOK, Past
<1> QED
  BY <1>1, <1>2, <1>3, <1>4, <1>5, <1>6, <1>7, <1>8, <1>9, <1>10, <1>11, <1>12, <1>13,
     <1>14, <1>15
  DEF Next, TaskStep, ConnStep, CallStep, MessageStep, PassStep

(* The calls and sections a step adds belong to connections that read. *)
LEMMA CallersStep ==
  ASSUME TypeOK, CallersRegistered, [Next]_vars
  PROVE  CallersRegistered'
<1> USE DEF calls
<1>0. /\ tx \in [Tasks -> Section] /\ None \notin Conns
      /\ finishing \subseteq [task : Tasks, client : Clients,
                              conn : Conns \cup {None}, to : TerminalStatus]
      /\ \A t \in Tasks : tx[t].conn \in Conns \cup {None}
  BY HubAssumption DEF TypeOK, SectionTypeOK, CallTypeOK, Section
<1>1. \A k \in Conns : Past(k) => Past(k)'
  BY LinkStep DEF LinkOK
<1>2. \A f \in finishing, k \in Conns : f.conn = k => Past(k)'
  BY <1>0, <1>1 DEF CallersRegistered
<1>3. \A t \in Tasks, k \in Conns :
        tx[t].op \in {"ack", "finish"} /\ tx[t].conn = k => Past(k)'
  BY <1>0, <1>1 DEF CallersRegistered
<1> DEFINE TxOK == \A t \in Tasks, k \in Conns :
                     tx'[t].op \in {"ack", "finish"} /\ tx'[t].conn = k => Past(k)'
           FinOK == \A f \in finishing', k \in Conns : f.conn = k => Past(k)'
<1>4. CASE UNCHANGED vars
  BY <1>2, <1>3, <1>4 DEF vars, CallersRegistered, Past
<1>5. ASSUME NEW t \in Tasks,
             \/ startTask(t) \/ AddTask(t) \/ CancelBegin(t) \/ ExpireBegin(t)
             \/ ExpireStoreFails(t) \/ FlushBegin(t) \/ TaskStep(t)
      PROVE  TxOK /\ FinOK
  <2>1. \A f \in finishing' : f \in finishing \/ f.conn = None
    BY <1>5 DEF startTask, AddTask, CancelBegin, ExpireBegin, ExpireStoreFails, FlushBegin,
                TaskStep, RequeueEnd, AckEnd, FinishEnd, CancelEnd, ExpireStore, ExpireEnd,
                ExpireSchedule, FlushEnd
  <2>2. \/ UNCHANGED tx
        \/ \E section : Enter(t, section) /\ section.op \notin {"ack", "finish"}
    BY <1>5 DEF startTask, AddTask, CancelBegin, ExpireBegin, ExpireStoreFails, FlushBegin,
                TaskStep, RequeueEnd, AckEnd, FinishEnd, CancelEnd, ExpireStore, ExpireEnd,
                ExpireSchedule, FlushEnd, Enter, Leave, Free
  <2>3. \A u \in Tasks : tx'[u] = tx[u] \/ tx'[u].op \notin {"ack", "finish"}
    BY <2>2, LeaveSame
  <2> QED
    BY <1>0, <1>2, <1>3, <2>1, <2>3
<1>6. ASSUME NEW k \in Conns,
             Register(k) \/ Registered(k) \/ Unregister(k) \/ Unregistered(k)
      PROVE  TxOK /\ FinOK
  BY <1>2, <1>3, <1>6 DEF Register, Registered, Unregister, Unregistered
<1>7. ASSUME NEW c \in Clients, DisableClient(c) \/ RevokeClient(c) PROVE TxOK /\ FinOK
  <2>1. UNCHANGED tx /\ \A f \in finishing' : f \in finishing \/ f.conn = None
    BY <1>7 DEF DisableClient, RevokeClient
  <2> QED
    BY <1>0, <1>2, <1>3, <2>1
<1>8. ASSUME NEW q \in requeuing, RequeueDropped(q) \/ RequeueBegin(q) PROVE TxOK /\ FinOK
  <2>1. UNCHANGED finishing /\ q.task \in Tasks
    BY <1>8 DEF RequeueDropped, RequeueBegin, TypeOK, CallTypeOK
  <2> DEFINE section == [Free EXCEPT !.op = "requeue", !.client = Owner[q.conn],
                           !.conn = q.conn, !.to = status[q.task][Owner[q.conn]]]
  <2>2. UNCHANGED tx \/ Enter(q.task, section)
    BY <1>8 DEF RequeueDropped, RequeueBegin
  <2>3. section.op = "requeue"
    BY DEF Free
  <2> HIDE DEF section
  <2>4. \A u \in Tasks : tx'[u] = tx[u] \/ tx'[u].op = "requeue"
    BY <2>1, <2>2, <2>3, LeaveSame
  <2> QED
    BY <1>2, <1>3, <2>1, <2>4
<1>9. ASSUME NEW f \in finishing, FinishDropped(f) PROVE TxOK /\ FinOK
  BY <1>2, <1>3, <1>9 DEF FinishDropped
<1>10. ASSUME NEW f \in finishing, FinishBegin(f) PROVE TxOK /\ FinOK
  <2>1. finishing' \subseteq finishing /\ f.task \in Tasks
    BY <1>0, <1>10 DEF FinishBegin
  <2> DEFINE row == FinishedRow(f.task, f.client, f.to)
             section == [Free EXCEPT !.op = "finish", !.client = f.client,
               !.conn = f.conn, !.to = row[f.client],
               !.last = ~storeTaskActive(f.task) \/ AllTerminal(f.task, row)]
  <2>2. Enter(f.task, section)
    BY <1>10 DEF FinishBegin
  <2>3. section.conn = f.conn
    BY DEF Free
  <2> HIDE DEF section
  <2>4. \A u \in Tasks : tx'[u] = tx[u] \/ tx'[u].conn = f.conn
    BY <2>1, <2>2, <2>3, LeaveSame
  <2> QED
    BY <1>2, <1>3, <2>1, <2>4
<1>11. ASSUME NEW f \in offered, AckDropped(f) \/ AckBegin(f) PROVE TxOK /\ FinOK
  <2>1. UNCHANGED finishing /\ f.ref.task \in Tasks /\ f.conn \in Conns
    BY <1>11 DEF AckDropped, AckBegin, TypeOK, WorkTypeOK, Ref
  <2>2. Past(f.conn)'
    BY <1>1, <1>11, <2>1 DEF AckDropped, AckBegin, Reads, Past
  <2> DEFINE section == [Free EXCEPT !.op = "ack", !.client = f.ref.client,
                           !.conn = f.conn, !.work = f.ref.work]
  <2>3. UNCHANGED tx \/ Enter(f.ref.task, section)
    BY <1>11 DEF AckDropped, AckBegin
  <2>4. section.conn = f.conn
    BY DEF Free
  <2> HIDE DEF section
  <2>5. \A u \in Tasks : tx'[u] = tx[u] \/ tx'[u].conn = f.conn
    BY <2>1, <2>3, <2>4, LeaveSame
  <2> QED
    BY <1>2, <1>3, <2>1, <2>2, <2>5
<1>12. ASSUME NEW f \in working,
              saveResult(f) \/ UnitReportDropped(f) \/ completeWork(f) \/ failWork(f)
       PROVE  TxOK /\ FinOK
  <2>1. UNCHANGED tx /\ f.conn \in Conns
        /\ \A g \in finishing' : g \in finishing \/ g.conn = f.conn
    BY <1>12 DEF saveResult, UnitReportDropped, completeWork, failWork, FinishFromPeer,
                 TypeOK, WorkTypeOK
  <2>2. Past(f.conn)'
    BY <1>1, <1>12, <2>1
    DEF saveResult, UnitReportDropped, completeWork, failWork, ReadsUnit, Reads, Past
  <2> QED
    BY <1>2, <1>3, <2>1, <2>2
<1>13. CASE PassStep
  <2>1. UNCHANGED finishing
    BY <1>13 DEF PassStep, PassBegin, PassEnd, Reserve, SendSkipped, SendBegin, SendEnd,
                 SendFails
  <2>2. \/ UNCHANGED tx
        \/ \E t \in Tasks : \/ Enter(t, [Free EXCEPT !.op = "send"])
                           \/ Enter(t, Free)
    <3>1. \A v \in reserved : v.ref.task \in Tasks
      BY DEF TypeOK, WorkTypeOK, Ref
    <3>2. ASSUME NEW v \in reserved, SendBegin(v) \/ SendEnd(v) \/ SendFails(v)
          PROVE  \/ Enter(v.ref.task, [Free EXCEPT !.op = "send"])
                 \/ Enter(v.ref.task, Free)
      BY <3>2 DEF SendBegin, SendEnd, SendFails, Leave, Enter
    <3>3. ASSUME \/ PassBegin \/ PassEnd
                 \/ \E t \in Tasks, c \in Clients, p \in Proxies : Reserve(t, c, p)
                 \/ \E v \in reserved : SendSkipped(v)
          PROVE  UNCHANGED tx
      BY <3>3 DEF PassBegin, PassEnd, Reserve, SendSkipped
    <3> QED
      BY <1>13, <3>1, <3>2, <3>3 DEF PassStep
  <2>3. \A u \in Tasks : tx'[u] = tx[u] \/ tx'[u].op \in {"free", "send"}
    <3>1. Free.op = "free" /\ [Free EXCEPT !.op = "send"].op = "send"
      BY DEF Free
    <3> QED
      BY <2>2, <3>1, LeaveSame
  <2> QED
    BY <1>2, <1>3, <2>1, <2>3 DEF CallersRegistered
<1>14. CASE BeginShutdown \/ ShutdownStep
  BY <1>2, <1>3, <1>14, OfShutdown DEF BeginShutdown, CallersRegistered
<1>15. TxOK /\ FinOK => CallersRegistered'
  BY DEF CallersRegistered
<1> QED
  BY <1>4, <1>5, <1>6, <1>7, <1>8, <1>9, <1>10, <1>11, <1>12, <1>13, <1>14, <1>15
  DEF Next, TaskStep, ConnStep, CallStep, MessageStep

(* A Client that is looked at again stays so until the next pass begins. *)
LEMMA ServedStays ==
  ASSUME TypeOK, LinkOK, ~PassBegin, NEW c \in Clients, Served(c)
  PROVE  Served(c)'
<1>1. peers[c] \in Conns \cup {None}
  BY DEF TypeOK, ConnTypeOK
<1>2. CASE wake
  BY <1>2 DEF LinkOK, Served
<1>3. CASE peers[c] = None
  BY <1>3 DEF LinkOK, Served
<1>4. CASE peers[c] # None /\ phase[peers[c]] = "registering"
  <2>1. phase'[peers[c]] = "registering" \/ wake'
    BY <1>1, <1>4 DEF LinkOK
  <2> QED
    BY <2>1 DEF LinkOK, Served
<1> QED
  BY <1>2, <1>3, <1>4 DEF Served

(* So does one that is served again or cut off ... *)
LEMMA ExcusedStays ==
  ASSUME TypeOK, LinkOK, ~PassBegin, NEW c \in Clients, Served(c) \/ peers[c] \in closed
  PROVE  Served(c)' \/ peers'[c] \in closed'
<1>1. CASE Served(c)
  BY <1>1, ServedStays
<1>2. CASE peers[c] \in closed
  BY <1>2 DEF LinkOK, Served
<1> QED
  BY <1>1, <1>2

(* ... or connected as the reservation has it. *)
LEMMA ReservedStays ==
  ASSUME TypeOK, LinkOK, ~PassBegin, NEW c \in Clients, NEW k, Served(c) \/ peers[c] = k
  PROVE  Served(c)' \/ peers'[c] = k
<1>1. CASE Served(c)
  BY <1>1, ServedStays
<1>2. CASE peers[c] = k
  BY <1>2 DEF LinkOK, Served
<1> QED
  BY <1>1, <1>2

(* A step that neither begins a pass nor adds a Client to those given up or *)
(* a reservation.                                                          *)
LEMMA PassFrame ==
  ASSUME TypeOK, PassOK, LinkOK, ~PassBegin, UNCHANGED passing,
         excluded' \subseteq excluded, reserved' \subseteq reserved
  PROVE  PassOK'
<1>1. excluded \subseteq Clients /\ \A v \in reserved : v.ref.client \in Clients
  BY DEF TypeOK, AccessTypeOK, WorkTypeOK, Ref
<1>2. \A c \in excluded' : Served(c)' \/ peers'[c] \in closed'
  BY <1>1, ExcusedStays DEF PassOK
<1>3. \A v \in reserved' : Served(v.ref.client)' \/ peers'[v.ref.client] = v.conn
  BY <1>1, ReservedStays DEF PassOK
<1> QED
  BY <1>2, <1>3 DEF PassOK

(* A step with none of the pass's variables in it. *)
LEMMA PassUntouched ==
  ASSUME TypeOK, PassOK, LinkOK, ~PassStep, [Next]_vars
  PROVE  PassOK'
<1>1. UNCHANGED sched
  BY OfShutdown DEF Next, TaskStep, ConnStep, CallStep, MessageStep, vars, sched, startTask, AddTask,
         CancelBegin, ExpireBegin, ExpireStoreFails, FlushBegin, RequeueEnd, AckEnd,
         FinishEnd, CancelEnd, ExpireStore, ExpireEnd, ExpireSchedule, FlushEnd, Register,
         Registered, Unregister, Unregistered, DisableClient, RevokeClient,
         RequeueDropped, RequeueBegin, FinishDropped, FinishBegin, AckDropped, AckBegin,
         saveResult, UnitReportDropped, completeWork, failWork, BeginShutdown
<1> QED
  BY <1>1, PassFrame DEF sched, PassStep

(* The pass's own steps. *)
LEMMA PassStepOK ==
  ASSUME TypeOK, PassOK, LinkOK, PassStep
  PROVE  PassOK'
<1>0. /\ excluded \subseteq Clients
      /\ \A v \in reserved : v.ref.client \in Clients
  BY DEF TypeOK, AccessTypeOK, WorkTypeOK, Ref
<1>1. CASE PassBegin
  <2>1. reserved = {} /\ UNCHANGED reserved /\ excluded' = {}
    BY <1>1 DEF PassBegin, PassOK
  <2> QED
    BY <2>1 DEF PassOK
<1>2. CASE PassEnd
  <2>1. reserved' = {} /\ excluded' = {}
    BY <1>2 DEF PassEnd
  <2> QED
    BY <2>1 DEF PassOK
<1>3. ASSUME NEW t \in Tasks, NEW c \in Clients, NEW p \in Proxies, Reserve(t, c, p),
             ~PassBegin
      PROVE  PassOK'
  <2> DEFINE ref == [task |-> t, client |-> c, proxy |-> p, work |-> issued[c] + 1]
             v == [conn |-> peers[c], ref |-> ref]
  <2>1. v.ref.client = c /\ v.conn = peers[c]
    OBVIOUS
  <2>2. /\ passing /\ UNCHANGED <<passing, excluded, peers, closed>>
        /\ reserved' = {v}
    BY <1>3 DEF Reserve, links
  <2> HIDE DEF v
  <2>3. \A d \in excluded' : Served(d)' \/ peers'[d] \in closed'
    BY <1>0, <1>3, <2>2, ExcusedStays DEF PassOK
  <2>4. \A w \in reserved' : peers'[w.ref.client] = w.conn
    BY <2>1, <2>2
  <2> QED
    BY <2>2, <2>3, <2>4 DEF PassOK
<1>4. ASSUME NEW v \in reserved, SendSkipped(v) \/ SendBegin(v) \/ SendEnd(v), ~PassBegin
      PROVE  PassOK'
  <2>1. UNCHANGED <<passing, excluded>> /\ reserved' \subseteq reserved
    BY <1>4 DEF SendSkipped, SendBegin, SendEnd, sched
  <2> QED
    BY <1>4, <2>1, PassFrame
<1>5. ASSUME NEW v \in reserved, SendFails(v), ~PassBegin PROVE PassOK'
  <2> DEFINE c == v.ref.client
  <2>1. /\ UNCHANGED <<passing, peers>> /\ reserved' = {} /\ v.conn \in closed'
        /\ excluded' = excluded \cup {c}
    BY <1>5 DEF SendFails
  <2>2. Served(c)' \/ peers'[c] = v.conn
    BY <1>0, <1>5, ReservedStays DEF PassOK
  <2> HIDE DEF c
  <2>3. \A d \in excluded' : Served(d)' \/ peers'[d] \in closed'
    BY <1>0, <1>5, <2>1, <2>2, ExcusedStays DEF PassOK
  <2>4. excluded' # {} => passing'
    BY <2>1 DEF PassOK
  <2> QED
    BY <2>1, <2>3, <2>4 DEF PassOK
<1> QED
  BY <1>1, <1>2, <1>3, <1>4, <1>5 DEF PassStep

(* Only the end of a pass may leave nobody to call schedule(). *)
LEMMA WillScheduleStays ==
  ASSUME TypeOK, LinkOK, CallersRegistered, Next, ~PassEnd, WillSchedule
  PROVE  WillSchedule'
<1>0. /\ tx \in [Tasks -> Section] /\ wake \in BOOLEAN /\ passing \in BOOLEAN
      /\ None \notin Conns
      /\ finishing \subseteq [task : Tasks, client : Clients,
                              conn : Conns \cup {None}, to : TerminalStatus]
  BY HubAssumption DEF TypeOK, SectionTypeOK, AccessTypeOK, CallTypeOK
<1>1. CASE wake
  BY <1>1 DEF LinkOK, PassBegin, WillSchedule
<1>2. ASSUME NEW k \in Conns, phase[k] = "registering" PROVE WillSchedule'
  BY <1>2 DEF LinkOK, WillSchedule
<1>3. CASE passing
  <2>1. passing'
    BY <1>3, OfShutdown DEF Next, TaskStep, ConnStep, CallStep, MessageStep, PassStep, sched, startTask,
         AddTask,
         CancelBegin, ExpireBegin, ExpireStoreFails, FlushBegin, RequeueEnd, AckEnd,
         FinishEnd, CancelEnd, ExpireStore, ExpireEnd, ExpireSchedule, FlushEnd, Register,
         Registered, Unregister, Unregistered, DisableClient, RevokeClient,
         RequeueDropped, RequeueBegin, FinishDropped, FinishBegin, AckDropped, AckBegin,
         saveResult, UnitReportDropped, completeWork, failWork, BeginShutdown,
         PassBegin, Reserve, SendSkipped, SendBegin, SendEnd, SendFails
  <2> QED
    BY <2>1 DEF WillSchedule
<1>4. ASSUME NEW t \in Tasks, tx[t].op \in {"finish", "expired"} PROVE WillSchedule'
  <2>1. tx'[t] = tx[t] \/ wake'
    <3>1. ASSUME NEW u \in Tasks,
                 \/ startTask(u) \/ AddTask(u) \/ CancelBegin(u) \/ ExpireBegin(u)
                 \/ ExpireStoreFails(u) \/ FlushBegin(u) \/ TaskStep(u)
          PROVE  tx'[t] = tx[t] \/ wake'
      BY <1>0, <1>4, <3>1
      DEF startTask, AddTask, CancelBegin, CancelAllowed, ExpireBegin, ExpireStoreFails,
          FlushBegin, FlushDue, TaskStep, RequeueEnd, AckEnd, FinishEnd, CancelEnd,
          ExpireStore, ExpireEnd, ExpireSchedule, FlushEnd, Unlocked, Enter, Leave
    <3>2. ASSUME \/ \E q \in requeuing : RequeueDropped(q) \/ RequeueBegin(q)
                 \/ \E f \in finishing : FinishDropped(f) \/ FinishBegin(f)
          PROVE  tx'[t] = tx[t]
      BY <1>0, <1>4, <3>2
      DEF RequeueDropped, RequeueBegin, FinishDropped, FinishBegin, Unlocked, Enter
    <3>3. ASSUME MessageStep PROVE tx'[t] = tx[t]
      BY <1>0, <1>4, <3>3
      DEF MessageStep, AckDropped, AckBegin, saveResult, UnitReportDropped,
          completeWork, failWork, Unlocked, Enter
    <3>4. ASSUME PassStep PROVE tx'[t] = tx[t]
      BY <1>0, <1>4, <3>4
      DEF PassStep, PassBegin, PassEnd, Reserve, SendSkipped, SendBegin, SendEnd,
          SendFails, Unlocked, Enter, Leave
    <3>5. ASSUME \/ \E k \in Conns : Register(k) \/ Unregister(k) \/ ConnStep(k)
                 \/ \E c \in Clients : DisableClient(c) \/ RevokeClient(c)
                 \/ BeginShutdown \/ ShutdownStep
          PROVE  tx'[t] = tx[t]
      BY <3>5, OfShutdown DEF Register, Unregister, ConnStep, Registered, Unregistered, DisableClient,
                  RevokeClient, BeginShutdown
    <3> QED
      BY <3>1, <3>2, <3>3, <3>4, <3>5 DEF Next, CallStep
  <2> QED
    BY <1>4, <2>1 DEF WillSchedule
<1>5. ASSUME NEW f \in finishing, f.conn # None PROVE WillSchedule'
  <2>1. CASE f \in finishing'
    BY <1>5, <2>1 DEF WillSchedule
  <2>2. CASE f \notin finishing'
    <3>1. FinishDropped(f) \/ FinishBegin(f)
      <4>1. ASSUME NEW u \in Tasks,
                   \/ startTask(u) \/ AddTask(u) \/ CancelBegin(u) \/ ExpireBegin(u)
                   \/ ExpireStoreFails(u) \/ FlushBegin(u) \/ TaskStep(u)
            PROVE  finishing \subseteq finishing'
        BY <4>1 DEF calls, startTask, AddTask, CancelBegin, ExpireBegin, ExpireStoreFails,
                    FlushBegin, TaskStep, RequeueEnd, AckEnd, FinishEnd, CancelEnd,
                    ExpireStore, ExpireEnd, ExpireSchedule, FlushEnd
      <4>2. ASSUME CallStep
            PROVE  FinishDropped(f) \/ FinishBegin(f) \/ f \in finishing'
        BY <4>2 DEF CallStep, RequeueDropped, RequeueBegin, FinishDropped, FinishBegin
      <4>3. ASSUME MessageStep PROVE finishing \subseteq finishing'
        BY <4>3 DEF calls, MessageStep, AckDropped, AckBegin, saveResult,
                    UnitReportDropped, completeWork, failWork, FinishFromPeer
      <4>4. ASSUME PassStep PROVE finishing \subseteq finishing'
        BY <4>4 DEF calls, PassStep, PassBegin, PassEnd, Reserve, SendSkipped, SendBegin,
                    SendEnd, SendFails
      <4>5. ASSUME \/ \E k \in Conns : Register(k) \/ Unregister(k) \/ ConnStep(k)
                   \/ \E c \in Clients : DisableClient(c) \/ RevokeClient(c)
                   \/ BeginShutdown \/ ShutdownStep
            PROVE  finishing \subseteq finishing'
        BY <4>5, OfShutdown DEF calls, Register, Unregister, ConnStep, Registered, Unregistered,
                    DisableClient, RevokeClient, BeginShutdown
      <4> QED
        BY <2>2, <4>1, <4>2, <4>3, <4>4, <4>5 DEF Next
    <3>2. CASE FinishDropped(f)
      BY <1>0, <1>5, <3>2 DEF FinishDropped, WillSchedule
    <3>3. CASE FinishBegin(f)
      <4>1. f.task \in Tasks
        BY <1>0
      <4>2. tx'[f.task].op = "finish"
        <5> DEFINE row == FinishedRow(f.task, f.client, f.to)
                   section == [Free EXCEPT !.op = "finish", !.client = f.client,
                     !.conn = f.conn, !.to = row[f.client],
                     !.last = ~storeTaskActive(f.task) \/ AllTerminal(f.task, row)]
        <5>1. Enter(f.task, section)
          BY <3>3 DEF FinishBegin
        <5>2. section.op = "finish"
          BY DEF Free
        <5> HIDE DEF section
        <5> QED
          BY <4>1, <5>1, <5>2, LeaveSame
      <4> QED
        BY <4>1, <4>2 DEF WillSchedule
    <3> QED
      BY <3>1, <3>2, <3>3
  <2> QED
    BY <2>1, <2>2
<1> QED
  BY <1>1, <1>2, <1>3, <1>4, <1>5 DEF WillSchedule

(* What was eligible after a step that frees no lease, revives no task and  *)
(* connects nobody was so before it.                                       *)
LEMMA EligibleFrame ==
  ASSUME NEW t \in Tasks, NEW c \in Clients, NEW p \in Proxies, Eligible(t, c, p)',
         excluded = {}, Active(t)' => Active(t), peers'[c] \in {peers[c], None},
         leases \subseteq leases', clientWork \subseteq clientWork',
         proxyWork \subseteq proxyWork', UNCHANGED <<done, issued>>,
         status'[t][c] = status[t][c]
  PROVE  Eligible(t, c, p) /\ peers'[c] = peers[c]
  BY DEF Eligible, ActiveWork

(* A task that arrives is announced, or none of its targets is online. *)
LEMMA EligibleAddTask ==
  ASSUME TypeOK, RevokedOffline, excluded = {}, ~wake', NEW u \in Tasks, AddTask(u),
         NEW t \in Tasks, NEW c \in Clients, NEW p \in Proxies, Eligible(t, c, p)'
  PROVE  Eligible(t, c, p) /\ peers'[c] = peers[c]
<1> USE DEF work, links, access, gates
<1>1. /\ status \in [Tasks -> [Clients -> TargetStatus]]
      /\ runtime \in [Tasks -> {"new", "created", "live", "pending", "gone"}]
  BY DEF TypeOK, TaskTypeOK
<1>2. /\ Targets[u] \subseteq revoked
      /\ UNCHANGED <<leases, clientWork, proxyWork, done, issued, peers>>
  BY DEF AddTask
<1>3. t # u
  <2> SUFFICES ASSUME t = u PROVE FALSE
    OBVIOUS
  <2>1. c \in Targets[u] /\ peers'[c] # None
    BY DEF Eligible
  <2> QED
    BY <1>2, <2>1 DEF RevokedOffline
<1>4. status'[t] = status[t] /\ (Active(t)' => Active(t))
  BY <1>1, <1>3 DEF AddTask, Active
<1> QED
  BY <1>2, <1>4, EligibleFrame

(* An ACK marks a target as running that keeps the lease it was ACKed for. *)
LEMMA EligibleAckEnd ==
  ASSUME TypeOK, excluded = {}, NEW u \in Tasks, AckEnd(u),
         NEW t \in Tasks, NEW c \in Clients, NEW p \in Proxies, Eligible(t, c, p)'
  PROVE  Eligible(t, c, p) /\ peers'[c] = peers[c]
<1> DEFINE d == tx[u].client  refs == Matching(u, d, tx[u].work) \ started
<1>1. /\ status \in [Tasks -> [Clients -> TargetStatus]] /\ d \in Clients
  BY DEF TypeOK, TaskTypeOK, SectionTypeOK, AckEnd
<1>2. UNCHANGED <<runtime, leases, clientWork, proxyWork, done, issued, peers>>
  BY DEF AckEnd
<1>3. ActiveWork(t, c) = {}
  BY <1>2 DEF Eligible, ActiveWork
<1>4. refs = {} \/ <<u, d>> # <<t, c>>
  BY <1>3 DEF Matching
<1>5. UNCHANGED status \/ (refs # {} /\ status' = [status EXCEPT ![u][d] = "running"])
  BY DEF AckEnd, SetStatus
<1> HIDE DEF d, refs
<1>6. status'[t][c] = status[t][c]
  BY <1>1, <1>4, <1>5
<1> QED
  BY <1>2, <1>6, EligibleFrame DEF Active

(* Between two states in which nobody will call schedule(), no step makes   *)
(* work eligible.                                                          *)
LEMMA EligibleBefore ==
  ASSUME TypeOK, PassOK, RevokedOffline, Next, ~WillSchedule, ~WillSchedule',
         NEW t \in Tasks, NEW c \in Clients, NEW p \in Proxies, Eligible(t, c, p)'
  PROVE  Eligible(t, c, p) /\ peers'[c] = peers[c]
<1> USE DEF work, links, access, gates, store
<1>0. /\ runtime \in [Tasks -> {"new", "created", "live", "pending", "gone"}]
      /\ tx \in [Tasks -> Section] /\ None \notin Conns
      /\ phase \in [Conns -> {"off", "registering", "reading", "handling", "leaving", "gone"}]
      /\ peers \in [Clients -> Conns \cup {None}] /\ Owner \in [Conns -> Clients]
  BY HubAssumption
  DEF TypeOK, TaskTypeOK, SectionTypeOK, ConnTypeOK, PhaseTypeOK
<1>1. ~wake /\ ~passing /\ excluded = {} /\ reserved = {} /\ ~wake'
  BY DEF WillSchedule, PassOK
<1>2. ~PassStep
  BY <1>1 DEF PassStep, PassBegin, PassEnd, Reserve
<1>3. ASSUME NEW u \in Tasks,
             \/ startTask(u) \/ CancelBegin(u) \/ ExpireBegin(u) \/ ExpireStore(u)
             \/ ExpireStoreFails(u) \/ FlushBegin(u)
      PROVE  Eligible(t, c, p) /\ peers'[c] = peers[c]
  <2>1. UNCHANGED <<leases, clientWork, proxyWork, done, issued, status, peers>>
    BY <1>3 DEF startTask, CancelBegin, ExpireBegin, ExpireStore, ExpireStoreFails, FlushBegin
  <2>2. Active(t)' => Active(t)
    BY <1>0, <1>3
    DEF startTask, CancelBegin, ExpireBegin, ExpireStore, ExpireStoreFails, FlushBegin, Active
  <2> QED
    BY <1>1, <2>1, <2>2, EligibleFrame
<1>4. ASSUME NEW u \in Tasks,
             \/ RequeueEnd(u) \/ FinishEnd(u) \/ CancelEnd(u) \/ ExpireSchedule(u)
             \/ FlushEnd(u) \/ ExpireEnd(u)
      PROVE  FALSE
  <2>1. ~ExpireEnd(u)
    <3> SUFFICES ASSUME ExpireEnd(u) PROVE FALSE
      OBVIOUS
    <3>1. tx'[u].op = "expired"
      BY <1>0 DEF ExpireEnd, Enter, Free
    <3> QED
      BY <3>1 DEF WillSchedule
  <2> QED
    BY <1>1, <1>4, <2>1 DEF RequeueEnd, FinishEnd, CancelEnd, ExpireSchedule, FlushEnd
<1>5. ASSUME NEW k \in Conns, Register(k) \/ Registered(k) \/ Unregistered(k) PROVE FALSE
  <2>1. Register(k) => phase'[k] = "registering"
    BY <1>0 DEF Register, SetPhase
  <2> QED
    BY <1>1, <1>5, <2>1 DEF Registered, Unregistered, WillSchedule
<1>6. ASSUME NEW k \in Conns, Unregister(k)
      PROVE  Eligible(t, c, p) /\ peers'[c] = peers[c]
  <2>1. UNCHANGED <<runtime, leases, clientWork, proxyWork, done, issued, status>>
        /\ peers'[c] \in {peers[c], None}
    BY <1>0, <1>6 DEF Unregister
  <2> QED
    BY <1>1, <2>1, EligibleFrame DEF Active
<1>7. ASSUME NEW d \in Clients, DisableClient(d) \/ RevokeClient(d)
      PROVE  Eligible(t, c, p) /\ peers'[c] = peers[c]
  <2>1. UNCHANGED <<runtime, leases, clientWork, proxyWork, done, issued, status>>
        /\ peers'[c] \in {peers[c], None}
    BY <1>0, <1>7 DEF DisableClient, RevokeClient
  <2> QED
    BY <1>1, <2>1, EligibleFrame DEF Active
<1>8. ASSUME CallStep
      PROVE  Eligible(t, c, p) /\ peers'[c] = peers[c]
  <2>1. UNCHANGED <<runtime, leases, clientWork, proxyWork, done, issued, status, peers>>
    BY <1>8 DEF CallStep, RequeueDropped, RequeueBegin, FinishDropped, FinishBegin
  <2> QED
    BY <1>1, <2>1, EligibleFrame DEF Active
<1>9. ASSUME \/ \E f \in offered : AckDropped(f) \/ AckBegin(f)
             \/ \E f \in working : saveResult(f) \/ UnitReportDropped(f)
      PROVE  Eligible(t, c, p) /\ peers'[c] = peers[c]
  <2>1. UNCHANGED <<runtime, leases, clientWork, proxyWork, done, issued, status, peers>>
    BY <1>9 DEF AckDropped, AckBegin, saveResult, UnitReportDropped
  <2> QED
    BY <1>1, <2>1, EligibleFrame DEF Active
<1>10. ASSUME NEW f \in working, completeWork(f) \/ failWork(f) PROVE FALSE
  <2> DEFINE g(to) == [task |-> f.ref.task, client |-> f.ref.client, conn |-> f.conn,
                       to |-> to]
  <2>1. g("completed") \in finishing' \/ g("failed") \in finishing'
    BY <1>1, <1>10 DEF completeWork, failWork, FinishFromPeer
  <2>2. \A to : g(to).conn = f.conn
    OBVIOUS
  <2>3. f.conn # None
    BY <1>0 DEF TypeOK, WorkTypeOK
  <2> HIDE DEF g
  <2> QED
    BY <2>1, <2>2, <2>3 DEF WillSchedule
<1>11. ASSUME BeginShutdown \/ ShutdownStep
       PROVE  Eligible(t, c, p) /\ peers'[c] = peers[c]
  <2>1. UNCHANGED <<runtime, leases, clientWork, proxyWork, done, issued, status>>
        /\ peers'[c] \in {peers[c], None}
    BY <1>11, OfShutdown DEF BeginShutdown
  <2> QED
    BY <1>1, <2>1, EligibleFrame DEF Active
<1> QED
  BY <1>1, <1>2, <1>3, <1>4, <1>5, <1>6, <1>7, <1>8, <1>9, <1>10, <1>11,
     EligibleAddTask, EligibleAckEnd
  DEF Next, TaskStep, ConnStep, MessageStep

(* A pass ends with nothing left to reserve but for the Clients it gave up  *)
(* on, and those are served again or cut off.                              *)
LEMMA PassEndLeavesNothing ==
  ASSUME TypeOK, PassOK, PassEnd, ~WillSchedule',
         NEW t \in Tasks, NEW c \in Clients, NEW p \in Proxies, Eligible(t, c, p)'
  PROVE  peers'[c] \in closed'
<1> USE DEF work, links
<1>1. ~Eligible(t, c, p)
  BY DEF PassEnd, NothingToReserve
<1>2. /\ UNCHANGED <<runtime, leases, clientWork, proxyWork, done, issued, status, peers,
                     closed, phase, wake>>
  BY DEF PassEnd
<1>3. c \in excluded
  BY <1>1, <1>2 DEF Eligible, Active, ActiveWork
<1>4. ~Served(c)
  <2>1. peers'[c] # None /\ peers[c] \in Conns \cup {None}
    BY DEF Eligible, TypeOK, ConnTypeOK
  <2> QED
    BY <1>2, <2>1 DEF Served, WillSchedule
<1> QED
  BY <1>2, <1>3, <1>4 DEF PassOK

WakeInv == NothingWaits /\ PassOK /\ CallersRegistered

(* Every step of the Hub. *)
LEMMA WakeStep ==
  ASSUME TypeOK, RevokedOffline, WakeInv, [Next]_vars
  PROVE  WakeInv'
<1>1. LinkOK /\ CallersRegistered'
  BY LinkStep, CallersStep DEF WakeInv
<1>2. PassOK'
  BY <1>1, PassUntouched, PassStepOK DEF WakeInv, PassStep
<1>3. NothingWaits'
  <2>1. CASE UNCHANGED vars
    BY <2>1 DEF WakeInv, vars, NothingWaits, WillSchedule, Eligible, Active, ActiveWork
  <2>2. CASE Next
    <3> SUFFICES ASSUME ~WillSchedule', NEW t \in Tasks, NEW c \in Clients,
                        NEW p \in Proxies, Eligible(t, c, p)'
                 PROVE  peers'[c] \in closed'
      BY DEF NothingWaits
    <3>1. CASE PassEnd
      BY <3>1, PassEndLeavesNothing DEF WakeInv
    <3>2. CASE ~PassEnd
      <4>1. ~WillSchedule
        BY <1>1, <2>2, <3>2, WillScheduleStays DEF WakeInv
      <4>2. Eligible(t, c, p) /\ peers'[c] = peers[c]
        BY <2>2, <4>1, EligibleBefore DEF WakeInv
      <4> QED
        BY <1>1, <4>1, <4>2 DEF WakeInv, NothingWaits, LinkOK
    <3> QED
      BY <3>1, <3>2
  <2> QED
    BY <2>1, <2>2
<1> QED
  BY <1>1, <1>2, <1>3 DEF WakeInv

(* Whatever woke the scheduler is never lost: with every goroutine at rest, *)
(* no connected Client is left without a unit it could be given, for any    *)
(* number of Clients, tasks, proxies and connections.                      *)
THEOREM WorkIsNotMissed == Spec => []NoMissedWork
<1>1. Init => WakeInv
  BY DEF Init, WakeInv, NothingWaits, Eligible, Active, PassOK, CallersRegistered, Free
<1>2. TypeOK /\ RevokedOffline /\ WakeInv /\ [Next]_vars => WakeInv'
  BY WakeStep
<1>3. WakeInv => NoMissedWork
  <2>1. WillSchedule => ScheduleExpected
    BY DEF WillSchedule, ScheduleExpected, Unlocked
  <2> QED
    BY <2>1 DEF WakeInv, NothingWaits, NoMissedWork
<1> QED
  BY <1>1, <1>2, <1>3, TypeCorrect, RevokedStayOffline, PTL DEF Spec

=============================================================================
