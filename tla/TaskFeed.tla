------------------------------ MODULE TaskFeed ------------------------------
(***************************************************************************)
(* How those who watch one task learn what became of it: the page of the   *)
(* task (src/internal/serverapp/web/task.js) and the Bot's wait            *)
(* (telegram_tasks.go).  Both subscribe to the events of the Hub           *)
(* (hub_events.go), which it may drop, and read the tables besides.        *)
(*                                                                         *)
(* A transaction is committed before its event is published.  Some events  *)
(* are published with the lock of the task held, so that nothing else can  *)
(* be committed first; others after it was released, in an order of their  *)
(* own.  The page makes one request at a time, whose reads of the task and *)
(* of its results are not one transaction, and whose answer travels apart  *)
(* from the events.  Watchers do not influence each other (publish never   *)
(* blocks), so one at a time is modelled.  Progress and targets that do    *)
(* not end only mark an answer under way as older than an event.           *)
(***************************************************************************)
EXTENDS StoreLife, Sequences

CONSTANTS
  Followed,    \* the task that is watched
  Reporter,    \* the Client whose results for one proxy are modelled; the
               \* task has no others
  Keys,        \* the speed servers it may report
  Limit,       \* resultLimitPerProxy
  MaxRows,     \* results the Bot's picture has room for; 72 in the code
  Room,        \* bound: events between the Hub and the watcher (32 and TCP)
  MaxUnsure    \* bound: writes that are stored although they report an error

ASSUME FeedAssumption ==
  /\ Followed \in Tasks /\ Reporter \in Targets[Followed]
  /\ Limit \in Nat \ {0} /\ MaxRows \in Nat \ {0} /\ Room \in Nat \ {0} /\ MaxUnsure \in Nat

VARIABLES
  rows,        \* results in the table
  recorded,    \* resultKeys: those counted against the limit
  unsure,      \* writes of results stored although they reported an error
  held,        \* events to publish before the lock of the task is released
  late,        \* sequences of events to publish, their lock released
  feed,        \* events on their way to the watcher
  page,        \* the page of the task, in the administrator's browser
  wait         \* the Bot's wait for the task

publishers == <<held, late>>
quota == <<rows, recorded, unsure>>
watchers == <<page, wait>>
all == <<life, quota, publishers, feed, watchers>>

status == dbTask[Followed]
ended == status \in TaskTerminal

Result(k) == [type |-> "result", of |-> k]
Status(s) == [type |-> "status", of |-> s]
TargetEnd == [type |-> "target", of |-> "end"]    \* a terminal target
Events == {Result(k) : k \in Keys} \cup {TargetEnd}
          \cup {Status(s) : s \in {"running"} \cup TaskTerminal}

WaitOver == {"none", "done", "gone"}
WaitStage == {"reading", "counting", "listing", "waiting", "backoff"}
PageStage == {"none", "idle", "asked", "read", "arriving"}

FeedTypeOK ==
  /\ LifeTypeOK
  /\ rows \subseteq Keys /\ recorded \subseteq Keys /\ unsure \in 0..MaxUnsure
  /\ held \in Seq(Events) /\ late \subseteq Seq(Events) /\ feed \in Seq(Events)
  /\ page \in [stage : PageStage, open : BOOLEAN, status : TaskStatus,
               live : TaskStatus, results : SUBSET Keys, dirty : BOOLEAN,
               forced : BOOLEAN, snap : TaskStatus, snapResults : SUBSET Keys]
  /\ wait \in [stage : WaitOver \cup WaitStage, status : TaskStatus, total : Nat,
               results : SUBSET Keys]

NoPage == [stage |-> "none", open |-> FALSE, status |-> "none", live |-> "none",
           results |-> {}, dirty |-> FALSE, forced |-> FALSE, snap |-> "none",
           snapResults |-> {}]
NoWait == [stage |-> "none", status |-> "none", total |-> 0, results |-> {}]

FeedInit ==
  /\ LifeInit
  /\ rows = {} /\ recorded = {} /\ unsure = 0
  /\ held = <<>> /\ late = {} /\ feed = <<>>
  /\ page = NoPage /\ wait = NoWait

----------------------------------------------------------------------------
(* The Hub: transactions, and the events they cause. *)

Unlocked(t) == process = "serving" /\ (t = Followed => held = <<>>)

PublishHeld(t, events) ==
  /\ held' = IF t = Followed THEN events ELSE held
  /\ UNCHANGED late
PublishLater(t, events) ==
  /\ late' = IF t = Followed /\ events # <<>> THEN late \cup {events} ELSE late
  /\ UNCHANGED held

Create(t) ==
  /\ Unlocked(t) /\ CreateTask(t)
  /\ UNCHANGED publishers

Acknowledge(t, c) ==
  /\ Unlocked(t) /\ StartTarget(t, c)
  /\ PublishHeld(t, <<Status("running")>>)

Requeue(t, c) ==
  /\ Unlocked(t) /\ RequeueTarget(t, c)
  /\ UNCHANGED publishers

(* The target that ended, then the task if this was its last one. *)
EndsOf_each_target(t, c) ==
  IF dbTarget'[t][c] = dbTarget[t][c] THEN <<>>
  ELSE <<TargetEnd, Status(dbTarget'[t][c])>>
EndsOf(t, c) ==
  IF dbTarget'[t][c] = dbTarget[t][c] THEN <<>>
  ELSE IF dbTask'[t] = dbTask[t] THEN <<TargetEnd>>
  ELSE <<TargetEnd, Status(dbTask'[t])>>
Finish(t, c, s) ==
  /\ Unlocked(t) /\ FinishTarget(t, c, s)
  /\ PublishLater(t, EndsOf(t, c))

EndOf(t) == IF dbTask'[t] = dbTask[t] THEN <<>> ELSE <<Status(dbTask'[t])>>
Cancel(t) ==
  /\ Unlocked(t) /\ terminateTask(t, "canceled")
  /\ PublishLater(t, EndOf(t))
Expire(t) ==
  /\ Unlocked(t) /\ terminateTask(t, "failed")
  /\ PublishHeld(t, EndOf(t))

Transact ==
  /\ \E t \in Tasks :
       \/ Create(t) \/ Cancel(t) \/ Expire(t)
       \/ \E c \in Targets[t] :
            \/ Acknowledge(t, c) \/ Requeue(t, c)
            \/ \E s \in TerminalStatus : Finish(t, c, s)
  /\ UNCHANGED <<process, quota, feed, watchers>>

(* saveResult: a new key is admitted below the limit.  The key is recorded *)
(* only if the write reports success, so that a Client may send it again.  *)
(* A result is taken only while its target runs.                           *)
Admits(k) == k \in recorded \/ Cardinality(recorded) < Limit
recordResultKey(k) == recorded' = recorded \cup {k}
saveResult_recorded_before(k) ==
  /\ Unlocked(Followed) /\ dbTarget[Followed][Reporter] = "running" /\ Admits(k)
  /\ recordResultKey(k)
  /\ \/ rows' = rows \cup {k} /\ held' = <<Result(k)>> /\ UNCHANGED unsure
     \/ UNCHANGED <<rows, held, unsure>>
  /\ UNCHANGED <<life, late, feed, watchers>>
saveResult(k) ==
  /\ Unlocked(Followed) /\ dbTarget[Followed][Reporter] = "running" /\ Admits(k)
  /\ rows' = rows \cup {k}
  /\ \/ recordResultKey(k) /\ held' = <<Result(k)>> /\ UNCHANGED unsure
     \/ /\ unsure < MaxUnsure /\ unsure' = unsure + 1
        /\ UNCHANGED <<recorded, held>>
  /\ UNCHANGED <<life, late, feed, watchers>>

Subscribed == page.open \/ wait.stage \notin WaitOver

(* publish: an event is dropped when the queue is full, which progress may *)
(* have filled, and when nobody has subscribed.                            *)
publish(e) ==
  \/ Subscribed /\ Len(feed) < Room /\ feed' = Append(feed, e)
  \/ UNCHANGED feed

PublishFromHeld ==
  /\ held # <<>>
  /\ publish(Head(held))
  /\ held' = Tail(held)
  /\ UNCHANGED <<life, quota, late, watchers>>

PublishFromLate ==
  /\ \E events \in late :
       /\ publish(Head(events))
       /\ late' = (late \ {events}) \cup (IF Len(events) = 1 THEN {} ELSE {Tail(events)})
  /\ UNCHANGED <<life, quota, held, watchers>>

Restart ==
  /\ \/ migrateTargets
     \/ migrateTasks
     \/ process # "serving" /\ Crash
  /\ UNCHANGED <<quota, publishers, feed, watchers>>

----------------------------------------------------------------------------
(* The page. *)

Rank(s) == CASE s = "none" -> 0 [] s = "queued" -> 1 [] s = "running" -> 2
             [] OTHER -> 3

Page(p) == page' = p /\ UNCHANGED <<life, quota, publishers, wait>>

(* loadTask: a request, unless one is under way; "forced" asks for another *)
(* one after that.                                                         *)
Asking(p) == [p EXCEPT !.stage = "asked", !.dirty = FALSE, !.forced = FALSE]
loadTask(p) == IF p.stage = "idle" THEN Asking(p) ELSE p
loadForced(p) == IF p.stage = "idle" THEN Asking(p) ELSE [p EXCEPT !.forced = TRUE]
Ended(p) ==
  LET q == [p EXCEPT !.stage = "idle", !.dirty = FALSE, !.snap = "none",
                     !.snapResults = {}] IN
  IF p.forced THEN Asking(q) ELSE q

(* The process dies: what was not published never is; a request of the     *)
(* page fails, and the Bot's wait dies with the process.  Limits are       *)
(* counted in memory.                                                      *)
Die ==
  /\ process = "serving" /\ Crash
  /\ recorded' = {} /\ held' = <<>> /\ late' = {}
  /\ wait' = IF wait.stage \in WaitOver THEN wait ELSE [NoWait EXCEPT !.stage = "gone"]
  /\ page' = IF page.stage \in {"asked", "read"} THEN Ended(page) ELSE page
  /\ feed' = IF page.open THEN feed ELSE <<>>
  /\ UNCHANGED <<rows, unsure>>

OpenPage ==
  /\ page.stage = "none" /\ wait.stage = "none"
  /\ process = "serving" /\ status # "none"
  /\ Page(Asking([NoPage EXCEPT !.open = TRUE]))
  /\ UNCHANGED feed

(* getTask reads the task, then its results. *)
ReadTask ==
  /\ page.stage = "asked" /\ process = "serving"
  /\ Page([page EXCEPT !.stage = "read", !.snap = status])
  /\ UNCHANGED feed
ReadResults ==
  /\ page.stage = "read" /\ process = "serving"
  /\ Page([page EXCEPT !.stage = "arriving", !.snapResults = rows])
  /\ UNCHANGED feed

(* A status is replaced only by one that is further on; results an event   *)
(* brought since the request was made are kept.  A page that shows an end  *)
(* stops listening.                                                        *)
current == IF page.live # "none" THEN page.live ELSE page.status
arrivedStatus ==
  IF Rank(current) >= Rank(page.snap) THEN current ELSE page.snap
arrivedResults ==
  IF page.dirty THEN page.snapResults \cup page.results ELSE page.snapResults
Arrive_keeps_listening ==
  /\ page.stage = "arriving"
  /\ Page(Ended([page EXCEPT !.status = arrivedStatus, !.results = arrivedResults]))
  /\ UNCHANGED feed
Arrive ==
  /\ page.stage = "arriving"
  /\ LET stillOpen == page.open /\ arrivedStatus \notin TaskTerminal IN
     /\ Page(Ended([page EXCEPT !.status = arrivedStatus, !.results = arrivedResults,
                                !.open = stillOpen]))
     /\ feed' = IF stillOpen THEN feed ELSE <<>>

(* The request fails, or its time is over: an answer lost on its way is as *)
(* good as one that was not made.                                          *)
LoadFails ==
  /\ page.stage \in {"asked", "read"}
  /\ Page(Ended(page))
  /\ UNCHANGED feed

(* Every 12 seconds, until an end is shown; and whenever the user likes.   *)
Poll_while_running ==
  /\ page.stage = "idle" /\ page.status = "running"
  /\ Page(Asking(page)) /\ UNCHANGED feed
Poll ==
  /\ page.stage = "idle" /\ page.status \notin TaskTerminal
  /\ Page(Asking(page)) /\ UNCHANGED feed
Refresh == page.stage = "idle" /\ Page(Asking(page)) /\ UNCHANGED feed

Marked(p) == IF p.stage = "idle" THEN p ELSE [p EXCEPT !.dirty = TRUE]
ReceiveResult(k) ==
  Page(Marked([page EXCEPT !.results = @ \cup {k}]))
ReceiveTargetEnd == Page(loadForced(Marked(page)))
ReceiveStatus(s) ==
  Page(loadTask(Marked([page EXCEPT
         !.live = s, !.status = IF @ = "none" THEN @ ELSE s])))
Receive ==
  /\ page.open /\ feed # <<>> /\ feed' = Tail(feed)
  /\ LET e == Head(feed) IN
       \/ e.type = "result" /\ ReceiveResult(e.of)
       \/ e.type = "target" /\ ReceiveTargetEnd
       \/ e.type = "status" /\ ReceiveStatus(e.of)

(* Progress, or a target that does not end. *)
ReceiveProgress ==
  /\ page.open /\ page.stage \notin {"none", "idle"}
  /\ Page(Marked(page)) /\ UNCHANGED feed

(* The stream breaks: nothing is replayed when the browser reconnects.     *)
Reconnect == page.open /\ feed # <<>> /\ feed' = <<>> /\ Page(page)

----------------------------------------------------------------------------
(* The Bot's wait. *)

Wait(w) == wait' = w /\ UNCHANGED <<life, quota, publishers, page>>

Subscribe ==
  /\ page.stage = "none" /\ wait.stage = "none"
  /\ process = "serving" /\ status # "none"
  /\ Wait([NoWait EXCEPT !.stage = "reading"]) /\ UNCHANGED feed

readCompletion ==
  /\ wait.stage = "reading" /\ UNCHANGED feed
  /\ Wait(IF ended THEN [wait EXCEPT !.stage = "counting", !.status = status]
          ELSE [wait EXCEPT !.stage = "waiting"])
(* completedSnapshotForTask: the count, then the rows, no more of them than *)
(* the picture has room for.  Which ones come first in their order by name  *)
(* is left open.                                                           *)
countResults ==
  /\ wait.stage = "counting" /\ UNCHANGED feed
  /\ Wait([wait EXCEPT !.stage = "listing", !.total = Cardinality(rows)])
Listed(n) == IF n < MaxRows THEN n ELSE MaxRows
completedSnapshot ==
  /\ wait.stage = "listing" /\ feed' = <<>>
  /\ \E shown \in SUBSET rows :
       /\ Cardinality(shown) = Listed(Cardinality(rows))
       /\ Wait([wait EXCEPT !.stage = "done", !.results = shown])
ReadFails ==
  /\ wait.stage \in {"reading", "counting", "listing"} /\ UNCHANGED feed
  /\ Wait([NoWait EXCEPT !.stage = "backoff"])
(* An event, a tick of two seconds, or the end of the pause. *)
Wakes ==
  /\ \/ wait.stage = "waiting" /\ feed # <<>> /\ feed' = Tail(feed)
     \/ wait.stage \in {"waiting", "backoff"} /\ UNCHANGED feed
  /\ Wait([wait EXCEPT !.stage = "reading"])
(* The Bot is stopped. *)
StopWaiting ==
  /\ wait.stage \notin WaitOver /\ feed' = <<>>
  /\ Wait([NoWait EXCEPT !.stage = "gone"])

----------------------------------------------------------------------------
PageNext ==
  \/ OpenPage \/ ReadTask \/ ReadResults \/ Arrive \/ LoadFails \/ Poll \/ Refresh
  \/ Receive \/ ReceiveProgress \/ Reconnect
WaitNext ==
  \/ Subscribe \/ readCompletion \/ countResults \/ completedSnapshot
  \/ ReadFails \/ Wakes \/ StopWaiting
FeedNext ==
  \/ Transact \/ \E k \in Keys : saveResult(k)
  \/ PublishFromHeld \/ PublishFromLate \/ Die \/ Restart
  \/ PageNext \/ WaitNext

(* The polls run, and not every read fails. *)
Fair ==
  /\ WF_all(Poll) /\ SF_all(ReadTask) /\ SF_all(ReadResults) /\ WF_all(Arrive)
  /\ WF_all(Wakes) /\ SF_all(readCompletion) /\ SF_all(countResults)
  /\ SF_all(completedSnapshot)

FeedSpec == FeedInit /\ [][FeedNext]_all /\ Fair

----------------------------------------------------------------------------
(* Properties. *)

(* What a watcher is told of the end is the end the tables hold.  The Bot's *)
(* report counts every result and has them all, or as many as the picture  *)
(* has room for: an end is announced once it is stored, is final, and no   *)
(* result is stored after it.                                              *)
EndsAreTrue ==
  /\ page.status \in TaskTerminal => page.status = status
  /\ page.results \subseteq rows
  /\ wait.stage = "done" =>
       /\ wait.status = status /\ wait.total = Cardinality(rows)
       /\ wait.results \subseteq rows
       /\ Cardinality(wait.results) = Listed(wait.total)

(* The page only moves forward: neither an answer older than the events it *)
(* has shown, nor an event older than an answer, takes back a status or a  *)
(* result.                                                                 *)
PageOnlyAdvances ==
  [][/\ Rank(page'.status) >= Rank(page.status)
     /\ page.status \in TaskTerminal => page'.status = page.status
     /\ page.results \subseteq page'.results]_page

(* The limit counted in memory holds in the table, but for the writes that *)
(* were stored although they reported an error.                            *)
QuotaKept ==
  /\ recorded \subseteq rows
  /\ Cardinality(rows) <= Limit + unsure

(* Whatever events are lost, whoever watches a task learns of its end,     *)
(* unless the server goes down first.                                      *)
Learnt == page.status \in TaskTerminal \/ wait.stage \in {"done", "gone"}
EndIsLearnt ==
  process = "serving" /\ ended /\ watchers # <<NoPage, NoWait>>
    ~> Learnt \/ process # "serving"

=============================================================================
