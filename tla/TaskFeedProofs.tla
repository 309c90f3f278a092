--------------------------- MODULE TaskFeedProofs ---------------------------
(***************************************************************************)
(* The Hub of TaskFeed, with its events, its locks and those who watch, is *)
(* a StoreLife; and what a watcher is shown is true, for every set of      *)
(* tasks, Clients and keys, whatever is lost, late or out of order.        *)
(*                                                                         *)
(* The argument is one about sets.  TrueEvents and TrueStatus are what may *)
(* be said of the task at a moment; they only grow, because an end is      *)
(* final and a result is never deleted.  So an event or an answer that was *)
(* true when it was made is true whenever it arrives.                      *)
(***************************************************************************)
EXTENDS TaskFeed, StoreLifeProofs, FiniteSetTheorems, SequenceTheorems

(* What may be said of the followed task. *)
TrueStatus == {s \in TaskStatus : s \in TaskTerminal => s = status}
TrueEvents == {Result(k) : k \in rows} \cup {TargetEnd}
              \cup {Status(s) : s \in {"running"} \cup (TaskTerminal \cap {status})}
LateEvents == TrueEvents \ {Status("running")}

Told ==
  /\ rows \subseteq Keys /\ recorded \subseteq Keys /\ unsure \in 0..MaxUnsure
  /\ IsFiniteSet(rows)
  /\ held \in Seq(TrueEvents) /\ feed \in Seq(TrueEvents)
  /\ late \subseteq Seq(LateEvents) \ {<<>>}

(* An event is published under a lock only while the process serves, and    *)
(* "running" only before the task has ended.                               *)
Quiet ==
  /\ process # "serving" => held = <<>>
  /\ ended => held \in Seq(LateEvents)

Pages ==
  [stage : PageStage, open : BOOLEAN, status : TrueStatus,
   live : TrueStatus \ {"queued"}, results : SUBSET rows, dirty : BOOLEAN,
   forced : BOOLEAN, snap : TrueStatus, snapResults : SUBSET rows]
Waits ==
  [stage : WaitOver \cup WaitStage, status : TaskStatus, total : Nat,
   results : SUBSET Keys]
WaitIsTrue ==
  /\ wait.stage \in {"counting", "listing", "done"} => ended /\ wait.status = status
  /\ wait.stage \in {"listing", "done"} => wait.total = Cardinality(rows)
  /\ wait.stage = "done" => /\ wait.results \subseteq rows
                            /\ Cardinality(wait.results) = Listed(wait.total)

FeedInv == LifeInv /\ Told /\ Quiet /\ page \in Pages /\ wait \in Waits /\ WaitIsTrue

----------------------------------------------------------------------------
(* The Hub implements StoreLife. *)

(* A transaction of the Hub is one of the store. *)
LEMMA TransactServes ==
  ASSUME Transact PROVE Serve
<1>1. PICK t \in Tasks :
        \/ Create(t) \/ Cancel(t) \/ Expire(t)
        \/ \E c \in Targets[t] :
             \/ Acknowledge(t, c) \/ Requeue(t, c)
             \/ \E s \in TerminalStatus : Finish(t, c, s)
  BY DEF Transact
<1>2. process = "serving" /\ UNCHANGED process
  BY <1>1 DEF Transact, Create, Cancel, Expire, Acknowledge, Requeue, Finish, Unlocked
<1>3. \/ CreateTask(t)
      \/ \E c \in Targets[t] :
           \/ StartTarget(t, c) \/ RequeueTarget(t, c)
           \/ \E s \in TerminalStatus : FinishTarget(t, c, s)
      \/ \E s \in {"canceled", "failed"} : terminateTask(t, s)
  BY <1>1 DEF Create, Cancel, Expire, Acknowledge, Requeue, Finish
<1> QED
  BY <1>2, <1>3 DEF Serve, StoreNext

(* The steps of the page leave the Hub alone. *)
LEMMA PageApart ==
  ASSUME PageNext PROVE UNCHANGED <<life, quota, publishers, wait>>
  BY DEF PageNext, OpenPage, ReadTask, ReadResults, Arrive, LoadFails, Poll, Refresh,
         Receive, ReceiveProgress, Reconnect, ReceiveResult, ReceiveTargetEnd,
         ReceiveStatus, Page

(* So do those of the Bot's wait. *)
LEMMA WaitApart ==
  ASSUME WaitNext PROVE UNCHANGED <<life, quota, publishers, page>>
  BY DEF WaitNext, Subscribe, readCompletion, countResults, completedSnapshot, ReadFails, Wakes,
         StopWaiting, Wait

(* Every step of TaskFeed is one of StoreLife, or leaves its state alone. *)
LEMMA StepIsLife ==
  ASSUME [FeedNext]_all PROVE [LifeNext]_life
<1>1. CASE UNCHANGED all
  BY <1>1 DEF all
<1>2. CASE Transact
  BY <1>2, TransactServes DEF LifeNext
<1>3. CASE \E k \in Keys : saveResult(k)
  BY <1>3 DEF saveResult
<1>4. CASE PublishFromHeld \/ PublishFromLate
  BY <1>4 DEF PublishFromHeld, PublishFromLate
<1>5. CASE Die \/ Restart
  BY <1>5 DEF Die, Restart, LifeNext
<1>6. CASE PageNext \/ WaitNext
  BY <1>6, PageApart, WaitApart
<1> QED
  BY <1>1, <1>2, <1>3, <1>4, <1>5, <1>6 DEF FeedNext

(* The Hub with its watchers does to the tables what StoreLife allows. *)
THEOREM FeedIsLife == FeedSpec => LifeSpec
<1>1. FeedInit => LifeInit
  BY DEF FeedInit
<1>2. [FeedNext]_all => [LifeNext]_life
  BY StepIsLife
<1> QED
  BY <1>1, <1>2, PTL DEF FeedSpec, LifeSpec

(* So the rows of a task agree whenever requests are served, with events,  *)
(* watchers and crashes.                                                   *)
THEOREM FeedRowsAgree == FeedSpec => []RowsAgreeAcrossCrashes
  BY FeedIsLife, RowsAgreeTheorem, PTL

(* A restart ends every task that was under way and resumes none, whoever  *)
(* watches.                                                                *)
THEOREM FeedRestartEnds == FeedSpec => RestartEndsEveryTask
  BY FeedIsLife, RestartEndsTheorem, PTL

(* An end is final once it is stored, whoever watches and whatever crashes. *)
THEOREM FeedEndsAreFinal == FeedSpec => TerminalIsFinal
  BY FeedIsLife, TerminalRowsSurvive, PTL

----------------------------------------------------------------------------
(* What may be said only grows. *)

(* While the process serves, a running target belongs to an active task. *)
LEMMA RunningTaskIsActive ==
  ASSUME LifeInv, process = "serving", dbTarget[Followed][Reporter] = "running"
  PROVE  storeTaskActive(Followed) /\ ~ended /\ status # "none"
<1>1. ParentOK(Followed) /\ Reporter \in Targets[Followed] /\ Followed \in Tasks
  BY ServingAgrees, FeedAssumption DEF StoreInv, ParentAgrees
<1>2. dbTask[Followed] # "none" /\ dbTask[Followed] \notin TaskTerminal
  BY <1>1 DEF ParentOK, TerminalStatus
<1>3. dbTask[Followed] \in TaskStatus
  BY <1>1 DEF LifeInv, LifeTypeOK, StoreTypeOK
<1> QED
  BY <1>2, <1>3 DEF storeTaskActive, ended, status, TaskStatus

(* No step takes a result away; after the end none is added, and the end   *)
(* stays what it is.                                                       *)
Grows ==
  /\ rows \subseteq rows' /\ rows' \subseteq Keys
  /\ ended => ended' /\ status' = status /\ rows' = rows
  /\ status' \in TaskStatus

LEMMA StepGrows ==
  ASSUME FeedInv, [FeedNext]_all PROVE Grows
<1>1. ended => status' = status
  <2>1. store' = store \/ \A t \in Tasks : KeepsTerminal(t)
    BY StepIsLife, LifeKeepsTerminal DEF FeedInv, life
  <2> QED
    BY <2>1, FeedAssumption DEF store, KeepsTerminal, ended, status
<1>2. status' \in TaskStatus
  BY StepIsLife, LifeInvStep, FeedAssumption
  DEF FeedInv, LifeInv, LifeTypeOK, StoreTypeOK, status
<1>3. rows' = rows \/ \E k \in Keys : rows' = rows \cup {k} /\ ~ended
  <2>1. CASE \E k \in Keys : saveResult(k)
    BY <2>1, RunningTaskIsActive DEF FeedInv, saveResult, Unlocked
  <2>2. CASE Transact
    BY <2>2 DEF Transact, quota
  <2>3. CASE PublishFromHeld \/ PublishFromLate \/ Die \/ Restart
    BY <2>3 DEF PublishFromHeld, PublishFromLate, Die, Restart, quota
  <2>4. CASE PageNext \/ WaitNext
    BY <2>4, PageApart, WaitApart DEF quota
  <2>5. CASE UNCHANGED all
    BY <2>5 DEF all, quota
  <2> QED
    BY <2>1, <2>2, <2>3, <2>4, <2>5 DEF FeedNext
<1> QED
  BY <1>1, <1>2, <1>3 DEF Grows, FeedInv, Told, ended

(* A sequence over a set is one over any larger set. *)
LEMMA SeqGrows ==
  ASSUME NEW S, NEW T, S \subseteq T PROVE Seq(S) \subseteq Seq(T)
  OBVIOUS

(* So what was true remains true. *)
LEMMA TruthGrows ==
  ASSUME Grows
  PROVE  /\ TrueStatus \subseteq TrueStatus'
         /\ TrueEvents \subseteq TrueEvents'
         /\ Seq(TrueEvents) \subseteq Seq(TrueEvents)'
         /\ Seq(LateEvents) \subseteq Seq(LateEvents)'
         /\ Pages \subseteq Pages'
<1>1. TrueStatus \subseteq TrueStatus'
  BY DEF Grows, TrueStatus, ended
<1>2. TrueEvents \subseteq TrueEvents'
  BY DEF Grows, TrueEvents, ended, Result, Status, TargetEnd
<1>3. LateEvents \subseteq LateEvents'
  BY <1>2 DEF LateEvents, Status
<1>4. Pages \subseteq Pages'
  <2>1. SUBSET rows \subseteq SUBSET rows' /\ TrueStatus \ {"queued"} \subseteq TrueStatus' \ {"queued"}
    BY <1>1 DEF Grows
  <2> QED
    BY <1>1, <2>1 DEF Pages
<1> QED
  BY <1>1, <1>2, <1>3, <1>4, SeqGrows

----------------------------------------------------------------------------
(* The Hub tells the truth. *)

(* The end of a task may be said, by whoever, from then on. *)
LEMMA EndMayBeSaid ==
  ASSUME dbTask'[Followed] \in TaskTerminal
  PROVE  Status(dbTask'[Followed]) \in LateEvents'
<1>1. Status(dbTask'[Followed]) \in TrueEvents'
  BY DEF TrueEvents, status
<1>2. Status(dbTask'[Followed]) # Status("running")
  BY DEF Status, TaskTerminal, TerminalStatus
<1> QED
  BY <1>1, <1>2 DEF LateEvents, Status

(* That a target has ended may always be said. *)
LEMMA TargetEndMayBeSaid == TargetEnd \in LateEvents'
  BY DEF LateEvents, TrueEvents, TargetEnd, Status

(* A transaction on another task leaves the followed one alone. *)
LEMMA OtherTask ==
  ASSUME dbTask \in [Tasks -> TaskStatus], NEW t \in Tasks, t # Followed,
         \/ CreateTask(t)
         \/ \E c \in Targets[t] :
              \/ StartTarget(t, c) \/ RequeueTarget(t, c)
              \/ \E s \in TerminalStatus : FinishTarget(t, c, s)
         \/ \E s \in {"canceled", "failed"} : terminateTask(t, s)
  PROVE  status' = status
<1>1. dbTask' = dbTask \/ \E s : dbTask' = [dbTask EXCEPT ![t] = s]
  BY DEF CreateTask, StartTarget, RequeueTarget, FinishTarget, terminateTask
<1> QED
  BY <1>1, FeedAssumption DEF status

(* The events of a transaction are true once it is committed. *)
LEMMA NewEvents ==
  ASSUME FeedInv, Transact
  PROVE  /\ \/ held' = held /\ (status' = status \/ held = <<>>)
            \/ held' \in Seq(LateEvents)'
            \/ held' = <<Status("running")>> /\ ~ended'
         /\ \/ late' = late
            \/ \E events \in Seq(LateEvents)' \ {<<>>} : late' = late \cup {events}
<1>0. /\ Followed \in Tasks
      /\ dbTask \in [Tasks -> TaskStatus]
  BY FeedAssumption DEF FeedInv, LifeInv, LifeTypeOK, StoreTypeOK
<1>1. PICK t \in Tasks :
        \/ Create(t) \/ Cancel(t) \/ Expire(t)
        \/ \E c \in Targets[t] :
             \/ Acknowledge(t, c) \/ Requeue(t, c)
             \/ \E s \in TerminalStatus : Finish(t, c, s)
  BY DEF Transact
<1>2. CASE t # Followed
  <2>1. held' = held /\ late' = late
    BY <1>1, <1>2 DEF Create, Cancel, Expire, Acknowledge, Requeue, Finish,
                      PublishHeld, PublishLater, publishers
  <2>2. status' = status
    BY <1>0, <1>1, <1>2, OtherTask
    DEF Create, Cancel, Expire, Acknowledge, Requeue, Finish
  <2> QED
    BY <2>1, <2>2
<1>3. CASE t = Followed
  <2>1. held = <<>>
    BY <1>1, <1>3 DEF Create, Cancel, Expire, Acknowledge, Requeue, Finish, Unlocked
  <2>2. CASE Create(t) \/ \E c \in Targets[t] : Requeue(t, c)
    BY <2>1, <2>2 DEF Create, Requeue, publishers
  <2>3. CASE Cancel(t) \/ Expire(t)
    <3>1. dbTask'[Followed] \in {"canceled", "failed"}
      BY <1>0, <1>3, <2>3 DEF Cancel, Expire, terminateTask
    <3>2. Status(dbTask'[Followed]) \in LateEvents'
      BY <3>1, EndMayBeSaid DEF TaskTerminal, TerminalStatus
    <3>3. EndOf(Followed) \in Seq(LateEvents)'
      BY <3>2 DEF EndOf
    <3> QED
      BY <1>3, <2>1, <2>3, <3>3 DEF Cancel, Expire, PublishHeld, PublishLater
  <2>4. CASE \E c \in Targets[t] : Acknowledge(t, c)
    <3>1. dbTask'[Followed] = "running"
      BY <1>0, <1>3, <2>4 DEF Acknowledge, StartTarget
    <3>2. ~ended'
      BY <3>1 DEF ended, status, TaskTerminal, TerminalStatus
    <3> QED
      BY <1>3, <2>4, <3>2 DEF Acknowledge, PublishHeld
  <2>5. ASSUME NEW c \in Targets[t], NEW s \in TerminalStatus, Finish(t, c, s)
        PROVE  held' = held /\ \/ late' = late
                               \/ \E events \in Seq(LateEvents)' \ {<<>>} :
                                    late' = late \cup {events}
    <3>1. dbTask'[t] = dbTask[t] \/ dbTask'[t] \in TaskTerminal
      BY <1>0, <2>5 DEF Finish, FinishTarget, aggregateTaskStatus, TaskTerminal,
                        TerminalStatus
    <3>2. EndsOf(t, c) \in Seq(LateEvents)'
      <4>1. <<>> \in Seq(LateEvents)' /\ <<TargetEnd>> \in Seq(LateEvents)'
        BY TargetEndMayBeSaid
      <4>2. dbTask'[t] # dbTask[t] => <<TargetEnd, Status(dbTask'[t])>> \in Seq(LateEvents)'
        BY <1>3, <3>1, TargetEndMayBeSaid, EndMayBeSaid
      <4> QED
        BY <4>1, <4>2 DEF EndsOf
    <3> QED
      BY <1>3, <2>5, <3>2 DEF Finish, PublishLater
  <2> QED
    BY <1>1, <2>1, <2>2, <2>3, <2>4, <2>5
<1> QED
  BY <1>2, <1>3

(* A watcher takes the first event, or all of them, or none. *)
LEMMA WatcherTakes ==
  ASSUME PageNext \/ WaitNext
  PROVE  feed' = feed \/ feed' = <<>> \/ (feed # <<>> /\ feed' = Tail(feed))
<1>1. CASE PageNext
  <2>1. CASE Arrive
    BY <2>1 DEF Arrive
  <2> QED
    BY <1>1, <2>1
    DEF PageNext, OpenPage, ReadTask, ReadResults, LoadFails, Poll, Refresh, Receive,
        ReceiveProgress, Reconnect
<1>2. CASE WaitNext
  BY <1>2 DEF WaitNext, Subscribe, readCompletion, countResults, completedSnapshot, ReadFails, Wakes,
              StopWaiting
<1> QED
  BY <1>1, <1>2

(* A sequence that is not empty has its head in its set, and a tail. *)
LEMMA TailOfSeq ==
  ASSUME NEW S, NEW q \in Seq(S), q # <<>>
  PROVE  Head(q) \in S /\ Tail(q) \in Seq(S) /\ (Len(q) # 1 => Tail(q) # <<>>)
<1>1. Tail(q) \in Seq(S) /\ Len(Tail(q)) = Len(q) - 1
  BY HeadTailProperties
<1>2. Head(q) \in S
  BY HeadTailProperties
<1>3. Len(q) # 1 => Tail(q) # <<>>
  <2>1. Len(q) \in Nat /\ (Tail(q) = <<>> => Len(Tail(q)) = 0)
    BY LenProperties, EmptySeq
  <2> QED
    BY <1>1, <2>1
<1> QED
  BY <1>1, <1>2, <1>3

(* Appending an element of the set gives a sequence over the set. *)
LEMMA AppendToSeq ==
  ASSUME NEW S, NEW q \in Seq(S), NEW e \in S PROVE Append(q, e) \in Seq(S)
  OBVIOUS

(* Whatever is published, held back or under way stays true. *)
LEMMA ToldStep ==
  ASSUME FeedInv, [FeedNext]_all PROVE Told'
<1>0. /\ Grows
      /\ Seq(TrueEvents) \subseteq Seq(TrueEvents)'
      /\ Seq(LateEvents) \subseteq Seq(LateEvents)'
      /\ Told
  BY StepGrows, TruthGrows DEF FeedInv
<1> USE DEF Told
<1>1. /\ rows' \subseteq Keys /\ recorded' \subseteq Keys /\ unsure' \in 0..MaxUnsure
      /\ IsFiniteSet(rows')
  <2>1. CASE \E k \in Keys : saveResult(k)
    <3>1. PICK k \in Keys : saveResult(k)
      BY <2>1
    <3>2. rows' = rows \/ rows' = rows \cup {k}
      BY <3>1 DEF saveResult
    <3>3. IsFiniteSet(rows')
      BY <1>0, <3>2, FS_AddElement
    <3> QED
      BY <1>0, <2>1, <3>3, FeedAssumption DEF Grows, saveResult, recordResultKey
  <2>2. CASE Die
    BY <1>0, <2>2 DEF Die
  <2>3. CASE UNCHANGED quota
    BY <1>0, <2>3 DEF quota
  <2>4. \/ UNCHANGED quota \/ Die \/ \E k \in Keys : saveResult(k)
    BY PageApart, WaitApart
    DEF FeedNext, Transact, PublishFromHeld, PublishFromLate, Restart, all
  <2> QED
    BY <2>1, <2>2, <2>3, <2>4
<1>2. CASE UNCHANGED <<publishers, feed>>
  BY <1>0, <1>1, <1>2 DEF publishers
<1>3. CASE Transact
  <2>1. feed' = feed
    BY <1>3 DEF Transact
  <2>2. <<Status("running")>> \in Seq(TrueEvents)'
    BY DEF TrueEvents
  <2>3. Seq(LateEvents)' \subseteq Seq(TrueEvents)'
    BY SeqGrows DEF LateEvents
  <2>4. held' \in Seq(TrueEvents)'
    BY <1>0, <1>3, <2>2, <2>3, NewEvents
  <2>5. late' \subseteq Seq(LateEvents)' \ {<<>>}
    BY <1>0, <1>3, NewEvents
  <2> QED
    BY <1>0, <1>1, <2>1, <2>4, <2>5
<1>4. CASE \E k \in Keys : saveResult(k)
  <2>1. PICK k \in Keys : saveResult(k)
    BY <1>4
  <2>2. Result(k) \in TrueEvents'
    BY <2>1 DEF saveResult, TrueEvents
  <2>3. <<Result(k)>> \in Seq(TrueEvents)'
    BY <2>2
  <2>4. held' = held \/ held' = <<Result(k)>>
    BY <2>1 DEF saveResult
  <2> QED
    BY <1>0, <1>1, <2>1, <2>3, <2>4 DEF saveResult
<1>5. CASE PublishFromHeld
  <2>1. Head(held) \in TrueEvents /\ Tail(held) \in Seq(TrueEvents)
    BY <1>0, <1>5, TailOfSeq DEF PublishFromHeld
  <2>2. feed' \in Seq(TrueEvents)
    BY <1>0, <1>5, <2>1, AppendToSeq DEF PublishFromHeld, publish
  <2> QED
    BY <1>0, <1>1, <1>5, <2>1, <2>2 DEF PublishFromHeld
<1>6. CASE PublishFromLate
  <2>1. PICK events \in late :
          /\ publish(Head(events))
          /\ late' = (late \ {events})
                     \cup (IF Len(events) = 1 THEN {} ELSE {Tail(events)})
    BY <1>6 DEF PublishFromLate
  <2>2. events \in Seq(LateEvents) /\ events # <<>>
    BY <1>0, <2>1
  <2>3. Head(events) \in TrueEvents
    BY <2>2, TailOfSeq DEF LateEvents
  <2>4. feed' \in Seq(TrueEvents)
    BY <1>0, <2>1, <2>3, AppendToSeq DEF publish
  <2>5. late' \subseteq Seq(LateEvents) \ {<<>>}
    <3>1. Len(events) # 1 => Tail(events) \in Seq(LateEvents) \ {<<>>}
      BY <2>2, TailOfSeq
    <3> QED
      BY <1>0, <2>1, <3>1
  <2> QED
    BY <1>0, <1>1, <1>6, <2>4, <2>5 DEF PublishFromLate
<1>7. CASE PageNext \/ WaitNext
  <2>1. held' = held /\ late' = late
    BY <1>7, PageApart, WaitApart DEF publishers
  <2>2. feed' \in Seq(TrueEvents)
    <3>1. feed # <<>> => Tail(feed) \in Seq(TrueEvents)
      BY <1>0, TailOfSeq
    <3>2. <<>> \in Seq(TrueEvents)
      OBVIOUS
    <3> QED
      BY <1>0, <1>7, <3>1, <3>2, WatcherTakes
  <2> QED
    BY <1>0, <1>1, <2>1, <2>2
<1>8. CASE Die
  BY <1>0, <1>1, <1>8 DEF Die
<1>9. CASE Restart
  BY <1>2, <1>9 DEF Restart
<1> QED
  BY <1>2, <1>3, <1>4, <1>5, <1>6, <1>7, <1>8, <1>9 DEF FeedNext, all

(* Nothing is held back by a process that is down, nor "running" after the *)
(* end: the lock of the task is held from the commit to the publication.   *)
LEMMA QuietStep ==
  ASSUME FeedInv, [FeedNext]_all PROVE Quiet'
<1>0. /\ Grows
      /\ Seq(LateEvents) \subseteq Seq(LateEvents)'
      /\ Told /\ Quiet
  BY StepGrows, TruthGrows DEF FeedInv
<1> USE DEF Quiet
<1>1. CASE UNCHANGED <<life, held>>
  BY <1>0, <1>1 DEF life, store, ended, status
<1>2. CASE Transact
  <2>1. process' = "serving"
    BY <1>2, TransactServes DEF Serve
  <2>2. <<>> \in Seq(LateEvents)'
    OBVIOUS
  <2>3. status' = status => (ended' <=> ended)
    BY DEF ended
  <2> QED
    BY <1>0, <1>2, <2>1, <2>2, <2>3, NewEvents
<1>3. CASE \E k \in Keys : saveResult(k)
  <2>1. process = "serving" /\ ~ended /\ UNCHANGED life
    BY <1>3, RunningTaskIsActive DEF saveResult, Unlocked, FeedInv
  <2> QED
    BY <2>1 DEF life, store, ended, status
<1>4. CASE PublishFromHeld
  <2>1. ended => Tail(held) \in Seq(LateEvents)
    BY <1>0, <1>4, TailOfSeq DEF PublishFromHeld
  <2>2. process = "serving" /\ UNCHANGED life
    BY <1>0, <1>4 DEF PublishFromHeld
  <2> QED
    BY <1>0, <1>4, <2>1, <2>2 DEF PublishFromHeld, life, store, ended, status
<1>5. CASE Die
  BY <1>5 DEF Die
<1>6. CASE Restart
  <2>1. held' = held /\ process # "serving"
    BY <1>6 DEF Restart, migrateTargets, migrateTasks, publishers
  <2> QED
    BY <1>0, <2>1
<1>7. CASE PublishFromLate \/ PageNext \/ WaitNext
  BY <1>1, <1>7, PageApart, WaitApart DEF PublishFromLate, publishers
<1> QED
  BY <1>1, <1>2, <1>3, <1>4, <1>5, <1>6, <1>7 DEF FeedNext, all, publishers

----------------------------------------------------------------------------
(* The page shows the truth. *)

(* A page that makes a request is as true as before. *)
LEMMA AskingIsTrue ==
  ASSUME NEW p \in Pages PROVE Asking(p) \in Pages
<1>1. [p EXCEPT !.stage = "asked"] \in Pages
  BY DEF Pages, PageStage
<1> QED
  BY <1>1 DEF Asking, Pages

(* So is one whose request has ended, *)
LEMMA EndedIsTrue ==
  ASSUME NEW p \in Pages PROVE Ended(p) \in Pages
<1>1. "none" \in TrueStatus
  BY DEF TrueStatus, TaskStatus, TaskTerminal, TerminalStatus
<1> DEFINE q == [p EXCEPT !.stage = "idle", !.dirty = FALSE, !.snap = "none",
                          !.snapResults = {}]
<1>2. q \in Pages
  BY <1>1 DEF Pages, PageStage
<1> HIDE DEF q
<1>3. Asking(q) \in Pages
  BY <1>2, AskingIsTrue
<1> QED
  BY <1>2, <1>3 DEF Ended, q

(* one whose request is marked as older than an event, *)
LEMMA MarkedIsTrue ==
  ASSUME NEW p \in Pages PROVE Marked(p) \in Pages
  BY DEF Marked, Pages

(* and one that is asked to load. *)
LEMMA LoadingIsTrue ==
  ASSUME NEW p \in Pages PROVE loadTask(p) \in Pages /\ loadForced(p) \in Pages
<1>1. [p EXCEPT !.forced = TRUE] \in Pages
  BY DEF Pages
<1> QED
  BY <1>1, AskingIsTrue DEF loadTask, loadForced

(* An answer is made of what was true when it was read. *)
LEMMA AnswerIsTrue ==
  ASSUME page \in Pages
  PROVE  arrivedStatus \in TrueStatus /\ arrivedResults \in SUBSET rows
  BY DEF arrivedStatus, arrivedResults, current, Pages

(* Every step of the page leaves it true. *)
LEMMA PageStep ==
  ASSUME FeedInv, PageNext PROVE page' \in Pages
<1>0. /\ page \in Pages /\ Told
      /\ status \in TaskStatus
  BY FeedAssumption DEF FeedInv, LifeInv, LifeTypeOK, StoreTypeOK, status
<1>1. CASE OpenPage
  <2>1. "none" \in TrueStatus
    BY DEF TrueStatus, TaskStatus, TaskTerminal, TerminalStatus
  <2>2. [NoPage EXCEPT !.open = TRUE] \in Pages
    BY <2>1 DEF NoPage, Pages, PageStage
  <2> QED
    BY <1>1, <2>2, AskingIsTrue DEF OpenPage, Page
<1>2. CASE ReadTask
  <2>1. status \in TrueStatus
    BY <1>0 DEF TrueStatus
  <2> QED
    BY <1>0, <1>2, <2>1 DEF ReadTask, Page, Pages, PageStage
<1>3. CASE ReadResults
  BY <1>0, <1>3 DEF ReadResults, Page, Pages, PageStage
<1>4. CASE Arrive
  <2> DEFINE stillOpen == page.open /\ arrivedStatus \notin TaskTerminal
             p == [page EXCEPT !.status = arrivedStatus]
             q == [p EXCEPT !.results = arrivedResults]
             r == [q EXCEPT !.open = stillOpen]
  <2>1. page' = Ended(r)
    BY <1>4 DEF Arrive, Page
  <2>2. p \in Pages
    BY <1>0, AnswerIsTrue DEF Pages
  <2> HIDE DEF p
  <2>3. q \in Pages
    BY <1>0, <2>2, AnswerIsTrue DEF Pages
  <2>4. stillOpen \in BOOLEAN
    OBVIOUS
  <2> HIDE DEF q, stillOpen
  <2>5. r \in Pages
    BY <2>3, <2>4 DEF Pages
  <2> HIDE DEF r
  <2> QED
    BY <2>1, <2>5, EndedIsTrue
<1>5. CASE LoadFails
  BY <1>0, <1>5, EndedIsTrue DEF LoadFails, Page
<1>6. CASE Poll \/ Refresh
  BY <1>0, <1>6, AskingIsTrue DEF Poll, Refresh, Page
<1>7. CASE Receive
  <2>1. Head(feed) \in TrueEvents
    BY <1>0, <1>7, TailOfSeq DEF Receive, Told
  <2>2. CASE Head(feed).type = "result" /\ ReceiveResult(Head(feed).of)
    <3>1. Head(feed).of \in rows
      BY <2>1, <2>2 DEF TrueEvents, Result, TargetEnd, Status
    <3>2. [page EXCEPT !.results = @ \cup {Head(feed).of}] \in Pages
      BY <1>0, <3>1 DEF Pages
    <3> QED
      BY <2>2, <3>2, MarkedIsTrue DEF ReceiveResult, Page
  <2>3. CASE ReceiveTargetEnd
    BY <1>0, <2>3, MarkedIsTrue, LoadingIsTrue DEF ReceiveTargetEnd, Page
  <2>4. CASE Head(feed).type = "status" /\ ReceiveStatus(Head(feed).of)
    <3> DEFINE s == Head(feed).of
               p == [page EXCEPT !.live = s]
               q == [p EXCEPT !.status = IF @ = "none" THEN @ ELSE s]
    <3>1. s \in TrueStatus \ {"queued"}
      BY <2>1, <2>4 DEF TrueEvents, Result, TargetEnd, Status, TrueStatus, TaskStatus,
                        TaskTerminal, TerminalStatus
    <3>2. page' = loadTask(Marked(q))
      BY <2>4 DEF ReceiveStatus, Page
    <3> HIDE DEF s
    <3>3. p \in Pages
      BY <1>0, <3>1 DEF Pages
    <3> HIDE DEF p
    <3>4. q \in Pages
      BY <3>1, <3>3 DEF Pages
    <3> HIDE DEF q
    <3> QED
      BY <3>2, <3>4, MarkedIsTrue, LoadingIsTrue
  <2> QED
    BY <1>7, <2>2, <2>3, <2>4 DEF Receive
<1>8. CASE ReceiveProgress
  BY <1>0, <1>8, MarkedIsTrue DEF ReceiveProgress, Page
<1>9. CASE Reconnect
  BY <1>0, <1>9 DEF Reconnect, Page
<1> QED
  BY <1>1, <1>2, <1>3, <1>4, <1>5, <1>6, <1>7, <1>8, <1>9 DEF PageNext

(* What the Bot has gathered is the end, the number of the results and as   *)
(* many of them as its picture has room for.                               *)
LEMMA WaitStep ==
  ASSUME FeedInv, WaitNext PROVE wait' \in Waits /\ WaitIsTrue'
<1>0. /\ wait \in Waits /\ WaitIsTrue /\ rows \subseteq Keys
      /\ status \in TaskStatus /\ Cardinality(rows) \in Nat
  BY FeedAssumption, FS_CardinalityType DEF FeedInv, LifeInv, LifeTypeOK, StoreTypeOK, status, Told
<1>1. status' = status /\ rows' = rows /\ (ended' <=> ended)
  BY WaitApart DEF life, store, quota, ended, status
<1> USE DEF Waits, WaitOver, WaitStage, WaitIsTrue, Wait
<1>2. CASE Subscribe \/ ReadFails \/ StopWaiting
  <2>1. PICK s \in {"reading", "backoff", "gone"} : wait' = [NoWait EXCEPT !.stage = s]
    BY <1>2 DEF Subscribe, ReadFails, StopWaiting
  <2> QED
    BY <2>1 DEF NoWait, TaskStatus
<1>3. CASE readCompletion
  BY <1>0, <1>1, <1>3 DEF readCompletion
<1>4. CASE countResults
  BY <1>0, <1>1, <1>4 DEF countResults
<1>5. CASE completedSnapshot
  <2>1. PICK shown \in SUBSET rows :
          /\ Cardinality(shown) = Listed(Cardinality(rows))
          /\ wait' = [wait EXCEPT !.stage = "done", !.results = shown]
    BY <1>5 DEF completedSnapshot
  <2>2. wait.stage = "listing"
    BY <1>5 DEF completedSnapshot
  <2> QED
    BY <1>0, <1>1, <2>1, <2>2
<1>6. CASE Wakes
  BY <1>0, <1>1, <1>6 DEF Wakes
<1> QED
  BY <1>2, <1>3, <1>4, <1>5, <1>6 DEF WaitNext

----------------------------------------------------------------------------
(* The invariant. *)

(* At first nothing is said, and nothing is shown. *)
LEMMA FeedInvInit ==
  ASSUME FeedInit PROVE FeedInv
<1>1. LifeInv
  BY LifeInvInit DEF FeedInit
<1>2. status = "none"
  BY FeedAssumption DEF FeedInit, LifeInit, StoreInit, status
<1>3. Told /\ Quiet
  BY FeedAssumption, FS_EmptySet DEF FeedInit, LifeInit, Told, Quiet
<1>4. page \in Pages
  <2>1. "none" \in TrueStatus
    BY DEF TrueStatus, TaskStatus, TaskTerminal, TerminalStatus
  <2> QED
    BY <2>1 DEF FeedInit, NoPage, Pages, PageStage
<1>5. wait \in Waits /\ WaitIsTrue
  BY DEF FeedInit, NoWait, Waits, WaitOver, WaitIsTrue, TaskStatus
<1> QED
  BY <1>1, <1>3, <1>4, <1>5 DEF FeedInv

(* What does not concern the page or the wait leaves both true: what they   *)
(* hold was true before.                                                   *)
LEMMA WatchersStayTrue ==
  ASSUME FeedInv, Grows
  PROVE  /\ page \in Pages'
         /\ wait' = wait => wait' \in Waits /\ WaitIsTrue'
<1>1. page \in Pages'
  BY TruthGrows DEF FeedInv
<1>2. WaitIsTrue /\ wait \in Waits
  BY DEF FeedInv
<1>3. wait' = wait => WaitIsTrue'
  BY <1>2 DEF WaitIsTrue, Grows
<1> QED
  BY <1>1, <1>2, <1>3 DEF Waits

(* Every step keeps FeedInv. *)
LEMMA FeedInvStep ==
  ASSUME FeedInv, [FeedNext]_all PROVE FeedInv'
<1>0. Grows
  BY StepGrows
<1>1. LifeInv' /\ Told' /\ Quiet'
  BY StepIsLife, LifeInvStep, ToldStep, QuietStep DEF FeedInv
<1>2. CASE UNCHANGED watchers
  BY <1>0, <1>1, <1>2, WatchersStayTrue DEF FeedInv, watchers
<1>3. CASE PageNext
  <2>1. page' \in Pages'
    <3>1. page' \in Pages
      BY <1>3, PageStep
    <3> QED
      BY <1>0, <3>1, TruthGrows
  <2>2. wait' = wait
    BY <1>3, PageApart
  <2> QED
    BY <1>0, <1>1, <2>1, <2>2, WatchersStayTrue DEF FeedInv
<1>4. CASE WaitNext
  <2>1. page' = page
    BY <1>4, WaitApart
  <2> QED
    BY <1>0, <1>1, <1>4, <2>1, WaitStep, WatchersStayTrue DEF FeedInv
<1>5. CASE Die
  <2>1. page' \in Pages'
    <3>1. page' \in Pages
      BY <1>5, EndedIsTrue DEF Die, FeedInv
    <3> QED
      BY <1>0, <3>1, TruthGrows
  <2>2. CASE wait' = wait
    BY <1>0, <1>1, <2>1, <2>2, WatchersStayTrue DEF FeedInv
  <2>3. CASE wait' = [NoWait EXCEPT !.stage = "gone"]
    <3>1. wait' \in Waits' /\ WaitIsTrue'
      BY <2>3 DEF NoWait, Waits, WaitOver, WaitIsTrue, TaskStatus
    <3> QED
      BY <1>1, <2>1, <3>1 DEF FeedInv
  <2> QED
    BY <1>5, <2>2, <2>3 DEF Die
<1>6. \/ UNCHANGED watchers \/ PageNext \/ WaitNext \/ Die
  BY DEF FeedNext, Transact, saveResult, PublishFromHeld, PublishFromLate, Restart, all
<1> QED
  BY <1>2, <1>3, <1>4, <1>5, <1>6

(* What is said of the task, what is held back, and what watchers show is  *)
(* always true of the tables.                                              *)
THEOREM FeedInvariant == FeedSpec => []FeedInv
<1>1. FeedInv /\ [FeedNext]_all => FeedInv'
  BY FeedInvStep
<1> QED
  BY <1>1, FeedInvInit, PTL DEF FeedSpec

(* The state of the Hub, of its events and of the watchers has its type. *)
THEOREM FeedTypeCorrect == FeedSpec => []FeedTypeOK
<1>1. FeedInv => FeedTypeOK
  <2> SUFFICES ASSUME FeedInv PROVE FeedTypeOK
    OBVIOUS
  <2>1. TrueEvents \subseteq Events
    BY DEF FeedInv, Told, TrueEvents, Events
  <2>2. held \in Seq(Events) /\ feed \in Seq(Events) /\ late \subseteq Seq(Events)
    <3>1. Seq(TrueEvents) \subseteq Seq(Events)
      BY <2>1, SeqGrows
    <3>2. Seq(LateEvents) \subseteq Seq(Events)
      BY <2>1, SeqGrows DEF LateEvents
    <3> QED
      BY <3>1, <3>2 DEF FeedInv, Told
  <2>3. page \in [stage : PageStage, open : BOOLEAN, status : TaskStatus,
                  live : TaskStatus, results : SUBSET Keys, dirty : BOOLEAN,
                  forced : BOOLEAN, snap : TaskStatus, snapResults : SUBSET Keys]
    <3>1. SUBSET rows \subseteq SUBSET Keys
      BY DEF FeedInv, Told
    <3> QED
      BY <3>1 DEF FeedInv, Pages, TrueStatus
  <2> QED
    BY <2>2, <2>3 DEF FeedInv, LifeInv, Told, FeedTypeOK, Waits
<1> QED
  BY <1>1, FeedInvariant, PTL

(* An end a watcher is told of is the end the tables hold, and the report   *)
(* the Bot makes counts every result and has as many of them as its        *)
(* picture has room for: whatever events are lost or late.                 *)
THEOREM EndsAreTrueTheorem == FeedSpec => []EndsAreTrue
<1>1. FeedInv => EndsAreTrue
  BY DEF FeedInv, Pages, TrueStatus, WaitIsTrue, EndsAreTrue
<1> QED
  BY <1>1, FeedInvariant, PTL

----------------------------------------------------------------------------
(* The quota. *)

(* The count in memory is that of the table, but for the unsure writes,     *)
(* as long as results can still come; before the task exists there is none. *)
QuotaInv ==
  /\ QuotaKept
  /\ IsFiniteSet(rows) /\ Cardinality(recorded) <= Limit
  /\ status = "none" => rows = {}
  /\ process = "serving" /\ storeTaskActive(Followed) =>
       Cardinality(rows) <= Cardinality(recorded) + unsure

(* A task becomes active only when it is created, and is never deleted. *)
LEMMA OnlyCreationActivates ==
  ASSUME FeedInv, [FeedNext]_all
  PROVE  /\ status' = "none" => status = "none"
         /\ process' = "serving" /\ storeTaskActive(Followed)' =>
              status = "none" \/ (process = "serving" /\ storeTaskActive(Followed))
<1>0. Grows /\ [LifeNext]_life
      /\ Followed \in Tasks /\ dbTask \in [Tasks -> TaskStatus]
  BY StepGrows, StepIsLife, FeedAssumption DEF FeedInv, LifeInv, LifeTypeOK, StoreTypeOK
<1> USE DEF status
<1>1. CASE Serve
  <2>1. \/ dbTask' = dbTask
        \/ \E t \in Tasks : \E s : s # "none" /\ dbTask' = [dbTask EXCEPT ![t] = s]
    BY <1>1 DEF Serve, StoreNext, CreateTask, StartTarget, RequeueTarget, FinishTarget,
                terminateTask, aggregateTaskStatus
  <2>2. status' = "none" => status = "none"
    BY <1>0, <2>1
  <2>3. storeTaskActive(Followed)' => ~ended
    BY <1>0 DEF Grows, ended, storeTaskActive, TaskTerminal, TerminalStatus
  <2>4. ~ended => status = "none" \/ storeTaskActive(Followed)
    BY <1>0 DEF ended, storeTaskActive, TaskStatus
  <2> QED
    BY <1>1, <2>2, <2>3, <2>4 DEF Serve
<1>2. CASE migrateTasks
  BY <1>0, <1>2 DEF migrateTasks, storeTaskActive
<1>3. CASE UNCHANGED life \/ Crash \/ migrateTargets
  BY <1>3 DEF life, store, Crash, migrateTargets, storeTaskActive
<1> QED
  BY <1>0, <1>1, <1>2, <1>3 DEF LifeNext

(* At first there is no result. *)
LEMMA QuotaInvInit ==
  ASSUME FeedInit PROVE QuotaInv
<1>1. Cardinality({}) = 0 /\ IsFiniteSet({})
  BY FS_EmptySet
<1> QED
  BY <1>1, FeedAssumption DEF FeedInit, QuotaInv, QuotaKept

(* Every step keeps QuotaInv: only a result can change the counts. *)
LEMMA QuotaInvStep ==
  ASSUME FeedInv, QuotaInv, [FeedNext]_all PROVE QuotaInv'
<1>0. /\ unsure \in Nat /\ Limit \in Nat
      /\ IsFiniteSet(rows) /\ IsFiniteSet(recorded)
      /\ Cardinality(rows) \in Nat /\ Cardinality(recorded) \in Nat
      /\ recorded \subseteq rows
  BY FeedAssumption, FS_Subset, FS_CardinalityType
  DEF FeedInv, Told, QuotaInv, QuotaKept
<1>1. CASE UNCHANGED quota
  <2>1. QuotaKept' /\ IsFiniteSet(rows)' /\ Cardinality(recorded)' <= Limit
    BY <1>1 DEF quota, QuotaInv, QuotaKept
  <2>2. status' = "none" => rows' = {}
    BY <1>1, OnlyCreationActivates DEF quota, QuotaInv
  <2>3. status = "none" => Cardinality(rows) <= Cardinality(recorded) + unsure
    BY <1>0, FS_EmptySet DEF QuotaInv
  <2>4. process' = "serving" /\ storeTaskActive(Followed)' =>
          Cardinality(rows) <= Cardinality(recorded) + unsure
    BY <2>3, OnlyCreationActivates DEF QuotaInv
  <2> QED
    BY <1>1, <2>1, <2>2, <2>4 DEF QuotaInv, quota
<1>2. CASE Die
  <2>1. recorded' = {} /\ rows' = rows /\ unsure' = unsure /\ process' # "serving"
    BY <1>2 DEF Die, Crash
  <2>2. status' = "none" => rows' = {}
    BY <2>1, OnlyCreationActivates DEF QuotaInv
  <2>3. Cardinality(recorded)' <= Limit
    BY <1>0, <2>1, FS_EmptySet
  <2> QED
    BY <2>1, <2>2, <2>3 DEF QuotaInv, QuotaKept
<1>3. CASE \E k \in Keys : saveResult(k)
  <2>1. PICK k \in Keys : saveResult(k)
    BY <1>3
  <2>2. process = "serving" /\ storeTaskActive(Followed) /\ UNCHANGED life
    BY <2>1, RunningTaskIsActive DEF saveResult, Unlocked, FeedInv
  <2>3. Cardinality(rows) <= Cardinality(recorded) + unsure
    BY <2>2 DEF QuotaInv
  <2>4. /\ IsFiniteSet(rows \cup {k})
        /\ Cardinality(rows \cup {k}) =
             IF k \in rows THEN Cardinality(rows) ELSE Cardinality(rows) + 1
        /\ Cardinality(recorded \cup {k}) =
             IF k \in recorded THEN Cardinality(recorded) ELSE Cardinality(recorded) + 1
    BY <1>0, FS_AddElement
  <2>5. rows' = rows \cup {k} /\ status' # "none"
    BY <2>1, <2>2 DEF saveResult, storeTaskActive, life, store, status
  <2>6. Cardinality(recorded) <= Limit /\ (k \in recorded \/ Cardinality(recorded) < Limit)
    BY <2>1 DEF QuotaInv, saveResult, Admits
  <2>7. CASE recorded' = recorded \cup {k} /\ unsure' = unsure
    <3>1. Cardinality(recorded') <= Limit
      BY <1>0, <2>4, <2>6, <2>7
    <3>2. Cardinality(rows') <= Cardinality(recorded') + unsure'
      BY <1>0, <2>3, <2>4, <2>5, <2>7
    <3>3. Cardinality(recorded') \in Nat
      BY <1>0, <2>4, <2>7
    <3>4. Cardinality(rows') <= Limit + unsure'
      BY <1>0, <2>4, <2>5, <2>7, <3>1, <3>2, <3>3
    <3> QED
      BY <1>0, <2>4, <2>5, <2>7, <3>1, <3>2, <3>4 DEF QuotaInv, QuotaKept
  <2>8. CASE recorded' = recorded /\ unsure' = unsure + 1
    <3>1. Cardinality(rows') <= Cardinality(recorded') + unsure'
      BY <1>0, <2>3, <2>4, <2>5, <2>8
    <3>2. Cardinality(rows') <= Limit + unsure'
      BY <1>0, <2>4, <2>5, <2>6, <2>8, <3>1
    <3> QED
      BY <1>0, <2>4, <2>5, <2>6, <2>8, <3>1, <3>2 DEF QuotaInv, QuotaKept
  <2> QED
    BY <2>1, <2>7, <2>8 DEF saveResult, recordResultKey
<1>4. \/ UNCHANGED quota \/ Die \/ \E k \in Keys : saveResult(k)
  BY PageApart, WaitApart
  DEF FeedNext, Transact, PublishFromHeld, PublishFromLate, Restart, all
<1> QED
  BY <1>1, <1>2, <1>3, <1>4

(* The limit counted in memory holds in the table, but for the writes that  *)
(* were stored although they reported an error; across crashes too.        *)
THEOREM QuotaTheorem == FeedSpec => []QuotaKept
<1>1. FeedInv /\ QuotaInv /\ [FeedNext]_all => QuotaInv'
  BY QuotaInvStep
<1>2. FeedInit => QuotaInv
  BY QuotaInvInit
<1>3. QuotaInv => QuotaKept
  BY DEF QuotaInv
<1> QED
  BY <1>1, <1>2, <1>3, FeedInvariant, PTL DEF FeedSpec

----------------------------------------------------------------------------
(* The page only moves forward. *)

IsEnd(e) == e.type = "status" /\ e.of \in TaskTerminal

(* No "running" follows an end on its way to the watcher. *)
InOrder(q) ==
  \A i, j \in 1..Len(q) : i < j /\ IsEnd(q[i]) => q[j] # Status("running")

(* A page that has heard of the end hears of nothing older; a page that     *)
(* listens shows an end only if it has heard of it; an answer under way is  *)
(* not older than the end that is shown, nor, unless it is marked, than the *)
(* results; a page that was not opened shows nothing.                      *)
Heeds(p, q) == p.open /\ p.live \in TaskTerminal => q \in Seq(LateEvents)
Consistent(p) ==
  /\ p.stage = "none" => ~p.open /\ p.status = "none" /\ p.results = {}
  /\ p.open /\ p.status \in TaskTerminal => p.live \in TaskTerminal
  /\ p.status \in TaskTerminal /\ p.live \notin TaskTerminal
       /\ p.stage \in {"read", "arriving"} => p.snap = p.status
  /\ p.stage = "arriving" /\ ~p.dirty => p.results \subseteq p.snapResults
OrderInv == InOrder(feed) /\ Heeds(page, feed) /\ Consistent(page)

(* q shows what p does, and listens if p does. *)
SameView(p, q) ==
  q.open = p.open /\ q.status = p.status /\ q.live = p.live /\ q.results = p.results
SameAnswer(p, q) ==
  /\ q.stage = p.stage /\ q.snap = p.snap /\ q.snapResults = p.snapResults
  /\ p.dirty => q.dirty

Advances(p, q) ==
  /\ Rank(q.status) >= Rank(p.status)
  /\ p.status \in TaskTerminal => q.status = p.status
  /\ p.results \subseteq q.results

(* Taking the first event keeps the order; if it was an end, nothing older  *)
(* is left behind it.                                                       *)
LEMMA InOrderTail ==
  ASSUME NEW S, NEW q \in Seq(S), q # <<>>, InOrder(q)
  PROVE  /\ InOrder(Tail(q))
         /\ IsEnd(Head(q)) => \A j \in 1..Len(Tail(q)) : Tail(q)[j] # Status("running")
<1>1. /\ Len(Tail(q)) = Len(q) - 1 /\ Len(q) \in Nat
      /\ \A i \in 1..Len(Tail(q)) : Tail(q)[i] = q[i + 1] /\ i + 1 \in 1..Len(q)
  <2>1. /\ Len(Tail(q)) = Len(q) - 1 /\ Len(q) \in Nat
        /\ \A i \in 1..Len(Tail(q)) : Tail(q)[i] = q[i + 1]
    BY HeadTailProperties, LenProperties
  <2> QED
    BY <2>1
<1>2. Head(q) = q[1] /\ 1 \in 1..Len(q)
  BY EmptySeq, LenProperties
<1>3. InOrder(Tail(q))
  <2> SUFFICES ASSUME NEW i \in 1..Len(Tail(q)), NEW j \in 1..Len(Tail(q)),
                      i < j, IsEnd(Tail(q)[i])
               PROVE  Tail(q)[j] # Status("running")
    BY DEF InOrder
  <2>1. i + 1 < j + 1
    OBVIOUS
  <2> QED
    BY <1>1, <2>1 DEF InOrder
<1>4. ASSUME IsEnd(Head(q)), NEW j \in 1..Len(Tail(q))
      PROVE  Tail(q)[j] # Status("running")
  <2>1. 1 < j + 1
    OBVIOUS
  <2> QED
    BY <1>1, <1>2, <1>4, <2>1 DEF InOrder
<1> QED
  BY <1>3, <1>4

(* Adding an event keeps the order, if it is not a "running" after an end. *)
LEMMA InOrderAppend ==
  ASSUME NEW S, NEW q \in Seq(S), NEW e, InOrder(q),
         e = Status("running") => \A i \in 1..Len(q) : ~IsEnd(q[i])
  PROVE  InOrder(Append(q, e))
<1> SUFFICES ASSUME NEW i \in 1..Len(Append(q, e)), NEW j \in 1..Len(Append(q, e)),
                    i < j, IsEnd(Append(q, e)[i])
             PROVE  Append(q, e)[j] # Status("running")
  BY DEF InOrder
<1>1. Len(q) \in Nat /\ Len(Append(q, e)) = Len(q) + 1
  BY LenProperties
<1>2. i \in 1..Len(q) /\ Append(q, e)[i] = q[i]
  BY <1>1
<1>3. CASE j \in 1..Len(q)
  <2>1. Append(q, e)[j] = q[j]
    BY <1>1, <1>3
  <2> QED
    BY <1>2, <1>3, <2>1 DEF InOrder
<1>4. CASE j = Len(q) + 1
  <2>1. Append(q, e)[j] = e
    BY <1>1, <1>4
  <2> QED
    BY <1>2, <2>1
<1> QED
  BY <1>1, <1>3, <1>4

(* A sequence of true events without "running" is one of late events. *)
LEMMA WithoutRunning ==
  ASSUME NEW q \in Seq(TrueEvents), \A j \in 1..Len(q) : q[j] # Status("running")
  PROVE  q \in Seq(LateEvents)
<1>1. Len(q) \in Nat /\ q \in [1..Len(q) -> TrueEvents]
  BY LenProperties
<1>2. q \in [1..Len(q) -> LateEvents]
  BY <1>1 DEF LateEvents
<1> QED
  BY <1>1, <1>2

(* What the Hub publishes keeps the order: "running" is published with the  *)
(* lock of the task held, so before the end is stored.                     *)
LEMMA PublishingKeepsOrder ==
  ASSUME FeedInv, OrderInv, NEW e \in TrueEvents, ended => e \in LateEvents, publish(e)
  PROVE  InOrder(feed') /\ feed' \in Seq(TrueEvents) /\ Heeds(page, feed')
<1>0. feed \in Seq(TrueEvents) /\ page \in Pages
  BY DEF FeedInv, Told
<1>1. CASE feed' = feed
  BY <1>0, <1>1 DEF OrderInv
<1>2. CASE feed' = Append(feed, e)
  <2>1. ~ended => \A i \in 1..Len(feed) : ~IsEnd(feed[i])
    <3>1. ~ended => \A f \in TrueEvents : ~IsEnd(f)
      BY DEF TrueEvents, IsEnd, ended, Result, Status, TargetEnd, TaskTerminal,
             TerminalStatus
    <3> QED
      BY <1>0, <3>1, ElementOfSeq
  <2>2. InOrder(feed')
    BY <1>0, <1>2, <2>1, InOrderAppend DEF OrderInv, LateEvents
  <2>3. page.live \in TaskTerminal => ended
    BY <1>0 DEF Pages, TrueStatus, ended
  <2>4. Heeds(page, feed')
    BY <1>2, <2>3, AppendToSeq DEF OrderInv, Heeds
  <2> QED
    BY <1>0, <1>2, <2>2, <2>4, AppendToSeq
<1> QED
  BY <1>1, <1>2 DEF publish

(* What the helpers of the page leave alone. *)
LEMMA MarkedView ==
  ASSUME NEW p \in Pages
  PROVE  /\ SameView(p, Marked(p)) /\ SameAnswer(p, Marked(p))
         /\ Marked(p).stage # "idle" => Marked(p).dirty
  BY DEF Marked, Pages, SameView, SameAnswer

(* A request that is made, *)
LEMMA AskingView ==
  ASSUME NEW p \in Pages
  PROVE  SameView(p, Asking(p)) /\ Asking(p).stage = "asked"
  BY DEF Asking, Pages, SameView

(* that ends, *)
LEMMA EndedView ==
  ASSUME NEW p \in Pages
  PROVE  SameView(p, Ended(p)) /\ Ended(p).stage \in {"idle", "asked"}
<1> DEFINE q == [p EXCEPT !.stage = "idle", !.dirty = FALSE, !.snap = "none",
                          !.snapResults = {}]
<1>1. q \in Pages
  <2>1. "none" \in TrueStatus
    BY DEF TrueStatus, TaskStatus, TaskTerminal, TerminalStatus
  <2> QED
    BY <2>1 DEF Pages, PageStage
<1>2. SameView(p, q) /\ q.stage = "idle"
  BY DEF Pages, SameView
<1> HIDE DEF q
<1>3. SameView(p, Asking(q)) /\ Asking(q).stage = "asked"
  BY <1>1, <1>2, AskingView DEF SameView
<1> QED
  BY <1>2, <1>3 DEF Ended, q

(* or that an event asks for leaves the view alone. *)
LEMMA LoadingView ==
  ASSUME NEW p \in Pages
  PROVE  /\ SameView(p, loadTask(p)) /\ SameView(p, loadForced(p))
         /\ loadTask(p).stage = "asked" \/ SameAnswer(p, loadTask(p))
         /\ loadForced(p).stage = "asked" \/ SameAnswer(p, loadForced(p))
<1>1. SameView(p, [p EXCEPT !.forced = TRUE]) /\ SameAnswer(p, [p EXCEPT !.forced = TRUE])
  BY DEF Pages, SameView, SameAnswer
<1>2. SameView(p, p) /\ SameAnswer(p, p)
  BY DEF SameView, SameAnswer
<1> QED
  BY <1>1, <1>2, AskingView DEF loadTask, loadForced

(* A page that shows the same has not gone back. *)
LEMMA SameViewAdvances ==
  ASSUME NEW p, NEW q, SameView(p, q) PROVE Advances(p, q)
<1>1. Rank(p.status) \in Nat
  BY DEF Rank
<1> QED
  BY <1>1 DEF SameView, Advances

(* The same view with no answer under way, or the same one, is consistent. *)
LEMMA SameViewConsistent ==
  ASSUME NEW p, NEW q, Consistent(p), SameView(p, q),
         q.stage \in {"idle", "asked"} \/ SameAnswer(p, q)
  PROVE  Consistent(q)
<1>1. CASE q.stage \in {"idle", "asked"}
  BY <1>1 DEF Consistent, SameView
<1>2. CASE SameAnswer(p, q)
  BY <1>2 DEF Consistent, SameView, SameAnswer
<1> QED
  BY <1>1, <1>2

(* A page that shows the same hears what it may hear. *)
LEMMA SameViewHeeds ==
  ASSUME NEW p, NEW q, NEW f, Heeds(p, f), SameView(p, q) PROVE Heeds(q, f)
  BY DEF Heeds, SameView

(* What every step of the page keeps, in one definition. *)
Forward == InOrder(feed') /\ Heeds(page', feed') /\ Consistent(page') /\ Advances(page, page')

(* So a step that shows the same and takes all events or none is forward. *)
LEMMA QuietPageForward ==
  ASSUME FeedInv, OrderInv, SameView(page, page'),
         page'.stage \in {"idle", "asked"} \/ SameAnswer(page, page'),
         feed' = feed \/ feed' = <<>>
  PROVE  Forward
<1>1. InOrder(feed') /\ Heeds(page, feed')
  <2>1. InOrder(<<>>) /\ Heeds(page, <<>>)
    BY DEF InOrder, Heeds
  <2> QED
    BY <2>1 DEF OrderInv
<1> QED
  BY <1>1, SameViewAdvances, SameViewConsistent, SameViewHeeds DEF Forward, OrderInv

(* The page opens; a request is made or fails; an answer is marked. *)
LEMMA RequestsForward ==
  ASSUME FeedInv, OrderInv,
         LoadFails \/ Poll \/ Refresh \/ ReceiveProgress \/ Reconnect
  PROVE  Forward
<1>0. page \in Pages
  BY DEF FeedInv
<1>1. CASE LoadFails
  BY <1>0, <1>1, EndedView, QuietPageForward DEF LoadFails, Page
<1>2. CASE Poll \/ Refresh
  BY <1>0, <1>2, AskingView, QuietPageForward DEF Poll, Refresh, Page
<1>3. CASE ReceiveProgress
  BY <1>0, <1>3, MarkedView, QuietPageForward DEF ReceiveProgress, Page
<1>4. CASE Reconnect
  <2>1. SameView(page, page') /\ SameAnswer(page, page') /\ feed' = <<>>
    BY <1>4 DEF Reconnect, Page, SameView, SameAnswer
  <2> QED
    BY <2>1, QuietPageForward
<1> QED
  BY <1>1, <1>2, <1>3, <1>4

(* A page that opens has shown nothing before. *)
LEMMA OpenPageForward ==
  ASSUME FeedInv, OrderInv, OpenPage PROVE Forward
<1>1. page' = Asking([NoPage EXCEPT !.open = TRUE]) /\ feed' = feed
  BY DEF OpenPage, Page
<1>2. /\ page'.status = "none" /\ page'.live = "none" /\ page'.results = {}
      /\ page'.stage = "asked"
  BY <1>1 DEF Asking, NoPage
<1>3. page.status = "none" /\ page.results = {}
  BY DEF OpenPage, OrderInv, Consistent
<1>4. "none" \notin TaskTerminal
  BY DEF TaskTerminal, TerminalStatus
<1>5. Consistent(page') /\ Heeds(page', feed')
  BY <1>2, <1>4 DEF Consistent, Heeds
<1>6. Advances(page, page')
  BY <1>2, <1>3 DEF Advances, Rank
<1> QED
  BY <1>1, <1>5, <1>6 DEF Forward, OrderInv

(* The answer is made: of a status that is the end once an end is shown, and *)
(* of all the results that are shown.                                      *)
LEMMA ReadsForward ==
  ASSUME FeedInv, OrderInv, ReadTask \/ ReadResults PROVE Forward
<1>0. page \in Pages /\ Consistent(page) /\ feed' = feed
  BY DEF FeedInv, OrderInv, ReadTask, ReadResults
<1>1. SameView(page, page')
  BY <1>0 DEF ReadTask, ReadResults, Page, Pages, SameView
<1>2. ReadTask => Consistent(page')
  <2> HAVE ReadTask
  <2>1. page'.stage = "read" /\ page'.snap = status
    BY <1>0 DEF ReadTask, Page, Pages
  <2>2. page.status \in TaskTerminal => page.status = status
    BY <1>0 DEF Pages, TrueStatus
  <2> QED
    BY <1>0, <1>1, <2>1, <2>2 DEF Consistent, SameView
<1>3. ReadResults => Consistent(page')
  <2> HAVE ReadResults
  <2>1. /\ page'.stage = "arriving" /\ page'.snapResults = rows /\ page'.snap = page.snap
        /\ page.stage = "read"
    BY <1>0 DEF ReadResults, Page, Pages
  <2>2. page.results \subseteq rows
    BY <1>0 DEF Pages
  <2> QED
    BY <1>0, <1>1, <2>1, <2>2 DEF Consistent, SameView
<1>4. Consistent(page')
  BY <1>2, <1>3
<1> QED
  BY <1>0, <1>1, <1>4, SameViewAdvances, SameViewHeeds DEF Forward, OrderInv

(* Ranks: 3 is an end, and nothing ranks higher. *)
LEMMA RankOfEnds ==
  ASSUME NEW s \in TaskStatus
  PROVE  /\ Rank(s) \in 0..3
         /\ Rank(s) = 3 <=> s \in TaskTerminal
         /\ s = "running" => Rank(s) = 2
  BY DEF Rank, TaskStatus, TaskTerminal, TerminalStatus

(* An answer never takes back a status or a result. *)
LEMMA AnswerAdvances ==
  ASSUME FeedInv, OrderInv, page.stage = "arriving"
  PROVE  /\ Rank(arrivedStatus) >= Rank(page.status)
         /\ page.status \in TaskTerminal => arrivedStatus = page.status
         /\ page.results \subseteq arrivedResults
<1>0. page \in Pages /\ Consistent(page)
  BY DEF FeedInv, OrderInv
<1>1. /\ page.status \in TrueStatus /\ page.snap \in TrueStatus
      /\ page.live \in TrueStatus \ {"queued"}
      /\ TrueStatus \subseteq TaskStatus
  BY <1>0 DEF Pages, TrueStatus
<1>2. page.results \subseteq arrivedResults
  BY <1>0 DEF Consistent, arrivedResults
<1>3. \A s \in TrueStatus : s \in TaskTerminal => s = status
  BY DEF TrueStatus
<1>4. current \in TrueStatus
  BY <1>1 DEF current
<1>5. arrivedStatus \in TrueStatus /\ Rank(arrivedStatus) >= Rank(current)
        /\ Rank(arrivedStatus) >= Rank(page.snap)
  BY <1>1, <1>4, RankOfEnds DEF arrivedStatus
<1>6. CASE page.status \in TaskTerminal
  <2>1. Rank(current) = 3 \/ Rank(page.snap) = 3
    BY <1>0, <1>1, <1>6, RankOfEnds DEF Consistent, current
  <2>2. arrivedStatus \in TaskTerminal
    BY <1>1, <1>4, <1>5, <2>1, RankOfEnds
  <2> QED
    BY <1>1, <1>2, <1>3, <1>5, <1>6, <2>2, RankOfEnds
<1>7. CASE page.status \notin TaskTerminal
  <2>1. Rank(current) >= Rank(page.status)
    BY <1>1, <1>7, RankOfEnds DEF current, TaskStatus, Rank
  <2> QED
    BY <1>1, <1>2, <1>4, <1>5, <1>7, <2>1, RankOfEnds
<1> QED
  BY <1>6, <1>7

(* An answer that arrives moves the page forward, and closes it at an end. *)
LEMMA ArriveForward ==
  ASSUME FeedInv, OrderInv, Arrive PROVE Forward
<1> DEFINE stillOpen == page.open /\ arrivedStatus \notin TaskTerminal
           p == [page EXCEPT !.status = arrivedStatus]
           q == [p EXCEPT !.results = arrivedResults]
           r == [q EXCEPT !.open = stillOpen]
<1>0. page \in Pages /\ OrderInv /\ stillOpen \in BOOLEAN
  BY DEF FeedInv
<1>1. page' = Ended(r) /\ feed' = IF stillOpen THEN feed ELSE <<>>
  BY DEF Arrive, Page
<1>2. p \in Pages /\ p.status = arrivedStatus /\ p.live = page.live
  BY <1>0, AnswerIsTrue DEF Pages
<1> HIDE DEF p
<1>3. q \in Pages /\ q.status = arrivedStatus /\ q.live = page.live
      /\ q.results = arrivedResults
  BY <1>0, <1>2, AnswerIsTrue DEF Pages
<1> HIDE DEF q
<1>4. r \in Pages
  BY <1>0, <1>3 DEF Pages
<1>5. r.status = arrivedStatus /\ r.live = page.live /\ r.results = arrivedResults
  BY <1>3 DEF Pages
<1>6. r.open => stillOpen
  BY <1>3 DEF Pages
<1> HIDE DEF r
<1>7. SameView(r, page') /\ page'.stage \in {"idle", "asked"}
  BY <1>1, <1>4, EndedView
<1>8. Advances(page, page')
  BY <1>5, <1>7, AnswerAdvances DEF Arrive, Advances, SameView
<1>9. page'.open => stillOpen
  BY <1>6, <1>7 DEF SameView
<1>10. Consistent(page')
  BY <1>5, <1>7, <1>9 DEF Consistent, SameView
<1>11. InOrder(feed') /\ Heeds(page', feed')
  BY <1>0, <1>1, <1>5, <1>7, <1>9 DEF OrderInv, Heeds, InOrder, SameView
<1> QED
  BY <1>8, <1>10, <1>11 DEF Forward

(* An event moves the page forward: "running" comes before an end, and a    *)
(* result that meets a request on its way marks it.                         *)
LEMMA ReceiveForward ==
  ASSUME FeedInv, OrderInv, Receive PROVE Forward
<1>0. /\ page \in Pages /\ OrderInv /\ feed \in Seq(TrueEvents) /\ feed # <<>>
      /\ feed' = Tail(feed) /\ page.open /\ page.stage # "none"
  BY DEF FeedInv, OrderInv, Told, Receive, Consistent
<1>1. /\ InOrder(feed') /\ feed' \in Seq(TrueEvents)
      /\ Head(feed) \in TrueEvents
      /\ IsEnd(Head(feed)) => feed' \in Seq(LateEvents)
  BY <1>0, InOrderTail, TailOfSeq, WithoutRunning DEF OrderInv
<1>2. /\ page.live \in TaskTerminal =>
           /\ feed' \in Seq(LateEvents) /\ Head(feed) # Status("running")
      /\ page.status \in TaskTerminal => page.live \in TaskTerminal
  <2>1. ASSUME page.live \in TaskTerminal
        PROVE  feed' \in Seq(LateEvents) /\ Head(feed) # Status("running")
    BY <1>0, <2>1, TailOfSeq DEF OrderInv, Heeds, LateEvents
  <2> QED
    BY <1>0, <2>1 DEF OrderInv, Consistent
<1>3. CASE Head(feed).type = "result" /\ ReceiveResult(Head(feed).of)
  <2> DEFINE q == [page EXCEPT !.results = @ \cup {Head(feed).of}]
  <2>1. Head(feed).of \in rows
    BY <1>1, <1>3 DEF TrueEvents, Result, TargetEnd, Status
  <2>2. q \in Pages
    BY <1>0, <2>1 DEF Pages
  <2>3. /\ q.open = page.open /\ q.status = page.status /\ q.live = page.live
        /\ page.results \subseteq q.results
        /\ q.stage = page.stage /\ q.snap = page.snap
    BY <1>0 DEF Pages
  <2>4. page' = Marked(q)
    BY <1>3 DEF ReceiveResult, Page
  <2> HIDE DEF q
  <2>5. SameView(q, page') /\ SameAnswer(q, page') /\ (page'.stage # "idle" => page'.dirty)
    BY <2>2, <2>4, MarkedView
  <2>6. Advances(page, page')
    <3>1. Rank(page.status) \in Nat
      BY DEF Rank
    <3> QED
      BY <2>3, <2>5, <3>1 DEF Advances, SameView
  <2>7. Consistent(page')
    BY <1>0, <2>3, <2>5 DEF OrderInv, Consistent, SameView, SameAnswer
  <2> QED
    BY <1>1, <1>2, <2>3, <2>5, <2>6, <2>7 DEF Forward, Heeds, SameView
<1>4. CASE ReceiveTargetEnd
  <2> DEFINE q == Marked(page)
  <2>1. q \in Pages /\ SameView(page, q) /\ SameAnswer(page, q)
    BY <1>0, MarkedIsTrue, MarkedView
  <2>2. page' = loadForced(q)
    BY <1>4 DEF ReceiveTargetEnd, Page
  <2> HIDE DEF q
  <2>3. SameView(q, page') /\ (page'.stage = "asked" \/ SameAnswer(q, page'))
    BY <2>1, <2>2, LoadingView
  <2>4. Consistent(q)
    BY <2>1, SameViewConsistent DEF OrderInv
  <2>5. Consistent(page')
    BY <2>3, <2>4, SameViewConsistent
  <2>6. SameView(page, page')
    BY <2>1, <2>3 DEF SameView
  <2> QED
    BY <1>1, <1>2, <2>5, <2>6, SameViewAdvances DEF Forward, Heeds, SameView
<1>5. CASE Head(feed).type = "status" /\ ReceiveStatus(Head(feed).of)
  <2> DEFINE s == Head(feed).of
             p == [page EXCEPT !.live = s]
             q == [p EXCEPT !.status = IF @ = "none" THEN @ ELSE s]
             m == Marked(q)
  <2>1. /\ s \in TrueStatus \ {"queued"} /\ (s = "running" \/ s \in TaskTerminal)
        /\ Head(feed) = Status(s)
    BY <1>1, <1>5 DEF TrueEvents, Result, TargetEnd, Status, TrueStatus, TaskStatus,
                      TaskTerminal, TerminalStatus
  <2>2. page' = loadTask(m)
    BY <1>5 DEF ReceiveStatus, Page
  <2>3. s \in TaskTerminal => feed' \in Seq(LateEvents)
    BY <1>1, <2>1 DEF IsEnd, Status
  <2>4. page.status \in TaskTerminal => s \in TaskTerminal
    BY <1>2, <2>1
  <2> HIDE DEF s
  <2>5. /\ p \in Pages /\ p.live = s /\ p.status = page.status
        /\ p.results = page.results /\ p.stage = page.stage
    BY <1>0, <2>1 DEF Pages
  <2> HIDE DEF p
  <2>6. /\ q \in Pages /\ q.live = s
        /\ q.status = IF page.status = "none" THEN "none" ELSE s
        /\ q.results = page.results /\ q.stage = page.stage
    BY <2>1, <2>5 DEF Pages
  <2> HIDE DEF q
  <2>7. /\ m \in Pages /\ SameView(q, m) /\ SameAnswer(q, m)
        /\ m.stage # "idle" => m.dirty
    BY <2>6, MarkedIsTrue, MarkedView
  <2> HIDE DEF m
  <2>8. SameView(m, page') /\ (page'.stage = "asked" \/ SameAnswer(m, page'))
    BY <2>2, <2>7, LoadingView
  <2>9. /\ page'.live = s /\ page'.results = page.results
        /\ page'.status = IF page.status = "none" THEN "none" ELSE s
    BY <2>6, <2>7, <2>8 DEF SameView
  <2>10. page'.stage # "none" /\ (page'.stage = "arriving" => page'.dirty)
    BY <1>0, <2>6, <2>7, <2>8 DEF SameAnswer
  <2>11. "none" \notin TaskTerminal
    BY DEF TaskTerminal, TerminalStatus
  <2>12. Consistent(page')
    BY <2>9, <2>10, <2>11 DEF Consistent
  <2>13. Advances(page, page')
    <3>1. /\ page.status \in TrueStatus /\ TrueStatus \subseteq TaskStatus
          /\ \A e \in TrueStatus : e \in TaskTerminal => e = status
      BY <1>0 DEF Pages, TrueStatus
    <3>2. CASE page.status = "none"
      BY <2>9, <2>11, <3>2 DEF Advances, Rank
    <3>3. CASE page.status # "none"
      <4>1. page.status \in TaskTerminal => s = page.status
        BY <2>1, <2>4, <3>1
      <4>2. Rank(s) >= Rank(page.status)
        BY <2>1, <3>1, <4>1, RankOfEnds DEF Rank, TaskStatus
      <4> QED
        BY <2>9, <3>3, <4>1, <4>2 DEF Advances
    <3> QED
      BY <3>2, <3>3
  <2> QED
    BY <1>1, <2>3, <2>9, <2>12, <2>13 DEF Forward, Heeds
<1> QED
  BY <1>3, <1>4, <1>5 DEF Receive

(* Every step of the page moves it forward. *)
LEMMA PageForward ==
  ASSUME FeedInv, OrderInv, PageNext PROVE Forward
  BY RequestsForward, OpenPageForward, ReadsForward, ArriveForward, ReceiveForward
  DEF PageNext

(* Every step keeps the order, and none takes the page back. *)
LEMMA OrderStep ==
  ASSUME FeedInv, OrderInv, [FeedNext]_all
  PROVE  OrderInv' /\ Advances(page, page')
<1>0. /\ page \in Pages /\ page' \in Pages'
      /\ Seq(LateEvents) \subseteq Seq(LateEvents)'
  BY FeedInvStep, StepGrows, TruthGrows DEF FeedInv
<1>1. SameView(page, page)
  BY DEF SameView
<1>2. ASSUME page' = page, InOrder(feed'), Heeds(page, feed')
      PROVE  OrderInv' /\ Advances(page, page')
  BY <1>0, <1>1, <1>2, SameViewAdvances DEF OrderInv, Heeds
<1>3. CASE PageNext
  BY <1>0, <1>3, PageForward DEF Forward, OrderInv, Heeds
<1>4. CASE PublishFromHeld
  <2>1. Head(held) \in TrueEvents /\ (ended => Head(held) \in LateEvents)
    BY <1>4, TailOfSeq DEF PublishFromHeld, FeedInv, Told, Quiet
  <2>2. InOrder(feed') /\ Heeds(page, feed') /\ page' = page
    BY <1>4, <2>1, PublishingKeepsOrder DEF PublishFromHeld, watchers
  <2> QED
    BY <1>2, <2>2
<1>5. CASE PublishFromLate
  <2>1. PICK events \in late : publish(Head(events))
    BY <1>5 DEF PublishFromLate
  <2>2. Head(events) \in LateEvents
    BY <2>1, TailOfSeq DEF FeedInv, Told
  <2>3. InOrder(feed') /\ Heeds(page, feed') /\ page' = page
    BY <1>5, <2>1, <2>2, PublishingKeepsOrder DEF PublishFromLate, watchers, LateEvents
  <2> QED
    BY <1>2, <2>3
<1>6. CASE Die
  <2>1. SameView(page, page') /\ (page'.stage \in {"idle", "asked"} \/ SameAnswer(page, page'))
    <3>1. SameAnswer(page, page)
      BY DEF SameAnswer
    <3> QED
      BY <1>0, <1>1, <1>6, <3>1, EndedView DEF Die
  <2>2. feed' = feed \/ feed' = <<>>
    BY <1>6 DEF Die
  <2>3. Forward
    BY <2>1, <2>2, QuietPageForward
  <2> QED
    BY <1>0, <2>3 DEF Forward, OrderInv, Heeds
<1>7. CASE WaitNext
  <2>1. page' = page
    BY <1>7, WaitApart
  <2>2. InOrder(feed') /\ Heeds(page, feed')
    <3>1. InOrder(<<>>) /\ Heeds(page, <<>>)
      BY DEF InOrder, Heeds
    <3>2. feed # <<>> => InOrder(Tail(feed)) /\ Heeds(page, Tail(feed))
      BY InOrderTail, TailOfSeq DEF FeedInv, Told, OrderInv, Heeds
    <3> QED
      BY <1>7, <3>1, <3>2, WatcherTakes DEF OrderInv
  <2> QED
    BY <1>2, <2>1, <2>2
<1>8. CASE page' = page /\ feed' = feed
  BY <1>2, <1>8 DEF OrderInv
<1>9. \/ PageNext \/ PublishFromHeld \/ PublishFromLate \/ Die \/ WaitNext
      \/ page' = page /\ feed' = feed
  BY DEF FeedNext, Transact, saveResult, Restart, all, watchers
<1> QED
  BY <1>3, <1>4, <1>5, <1>6, <1>7, <1>8, <1>9

(* The page only moves forward: neither an answer older than the events it *)
(* has shown, nor an event older than an answer, takes back a status or a  *)
(* result.                                                                 *)
THEOREM PageForwardTheorem == FeedSpec => PageOnlyAdvances
<1>1. FeedInit => OrderInv
  <2> SUFFICES ASSUME FeedInit PROVE OrderInv
    OBVIOUS
  <2>1. feed = <<>> /\ page = NoPage
    BY DEF FeedInit
  <2>2. "none" \notin TaskTerminal
    BY DEF TaskTerminal, TerminalStatus
  <2> QED
    BY <2>1, <2>2 DEF OrderInv, InOrder, Heeds, Consistent, NoPage
<1>2. FeedInv /\ OrderInv /\ [FeedNext]_all => OrderInv'
  BY OrderStep
<1>3. FeedInv /\ OrderInv /\ [FeedNext]_all =>
        [/\ Rank(page'.status) >= Rank(page.status)
         /\ page.status \in TaskTerminal => page'.status = page.status
         /\ page.results \subseteq page'.results]_page
  BY OrderStep DEF Advances
<1> QED
  BY <1>1, <1>2, <1>3, FeedInvariant, PTL DEF FeedSpec, PageOnlyAdvances

=============================================================================
