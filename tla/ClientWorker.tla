---------------------------- MODULE ClientWorker ----------------------------
(***************************************************************************)
(* The Client process (src/internal/clientapp): Run redials for ever; each *)
(* connection has one reader (connect), one worker and one heartbeat,      *)
(* which share the queue of assignments, the current task and the set of   *)
(* cancelled tasks.  Goroutines of an old connection may still wind down   *)
(* while the next connection is in use, so their state is kept per         *)
(* connection.                                                             *)
(*                                                                         *)
(* The server is reduced to what a Client sees of the Hub: one unit at a   *)
(* time, released by a report, by the end of its task or by a lost         *)
(* connection, and a task.cancel frame some time after a task has ended.   *)
(* Reports arrive as they are sent; a later arrival only delays the server.*)
(*                                                                         *)
(* Half-open connections matter: a connection in broken lost its network,  *)
(* and neither side learns of it before a write of its own fails.          *)
(*                                                                         *)
(* A definition named X_... is a faulty variant of X, which no             *)
(* specification uses; see Hub.                                            *)
(***************************************************************************)
EXTENDS Naturals, Sequences, FiniteSets

CONSTANTS
  Tasks,      \* tasks the server hands units of
  QueueCap,   \* capacity of the assignments channel; 32 in the code
  MaxConns,   \* bound: connections dialled in a behaviour
  MaxSent,    \* bound: assignments sent in a behaviour
  Env,        \* bound: environment events: "break", "stop", "timeout"
  None

ASSUME ClientAssumption ==
  /\ QueueCap \in Nat \ {0} /\ MaxConns \in Nat \ {0} /\ MaxSent \in Nat
  /\ None \notin Tasks
  /\ Env \subseteq {"break", "stop", "timeout"}

Conns == 1 .. MaxConns

VARIABLES
  reader,     \* where Run and connect are
  conn,       \* the connection connect serves or served last; 0 before any
  held,       \* the assignment the reader waits to put into the full queue
  queue,      \* assignments, per connection
  canceled,   \* connection.canceled
  current,    \* connection.taskID, None when cancel is nil
  worker,     \* per connection: where the worker is, its task, and whether
              \* its taskCtx was ended by a cancel or by the timeout
  beat,       \* heartbeats that are running
  errs,       \* messages in errChannel, per connection
  closed,     \* WebSockets this side has closed
  ended,      \* connections whose context is cancelled
  stopping,   \* the context of Run is cancelled
  broken,     \* connections whose network is gone
  frames,     \* frames on their way to the Client, per connection
  session,    \* the peer the Hub has registered; 0 for none
  lease,      \* the task whose unit the Hub has leased to this Client
  over,       \* tasks that have ended on the server
  notify,     \* task.cancel frames the Hub has still to send
  sent,       \* assignments sent so far
  recalled    \* history: units whose cancel was read while they were queued

conns  == <<reader, conn, held, ended, stopping>>
shared == <<queue, canceled, current>>
links  == <<closed, broken>>
server == <<session, lease, over, notify, sent>>
vars == <<reader, conn, held, queue, canceled, current, worker, beat, errs,
          closed, ended, stopping, broken, frames, session, lease, over,
          notify, sent, recalled>>

Place == {"none", "idle", "taken", "starting", "acking", "executing",
          "reporting", "clearing", "gone"}
Frame == [type : {"assign", "cancel"}, task : Tasks]

TypeOK ==
  /\ reader \in {"dialing", "reading", "full", "leaving", "closing", "stopped"}
  /\ conn \in 0 .. MaxConns /\ session \in 0 .. MaxConns
  /\ held \in Tasks \cup {None} /\ (reader = "full" <=> held # None)
  /\ queue \in [Conns -> Seq(Tasks)]
  /\ \A k \in Conns : Len(queue[k]) <= QueueCap
  /\ canceled \in [Conns -> SUBSET Tasks]
  /\ current \in [Conns -> Tasks \cup {None}]
  /\ worker \in [Conns -> [at : Place, task : Tasks \cup {None},
                           cut : {"no", "cancel", "timeout"}]]
  /\ errs \in [Conns -> 0 .. 2]
  /\ beat \subseteq Conns /\ closed \subseteq Conns /\ ended \subseteq Conns
  /\ broken \subseteq Conns /\ stopping \in BOOLEAN
  /\ frames \in [Conns -> Seq(Frame)]
  /\ lease \in Tasks \cup {None} /\ over \subseteq Tasks
  /\ notify \subseteq Tasks \X Conns /\ sent \in 0 .. MaxSent
  /\ recalled \subseteq Conns \X Tasks

Idle(at) == [at |-> at, task |-> None, cut |-> "no"]

Init ==
  /\ reader = "dialing" /\ conn = 0 /\ held = None
  /\ queue = [k \in Conns |-> <<>>]
  /\ canceled = [k \in Conns |-> {}]
  /\ current = [k \in Conns |-> None]
  /\ worker = [k \in Conns |-> Idle("none")]
  /\ beat = {} /\ errs = [k \in Conns |-> 0]
  /\ closed = {} /\ ended = {} /\ stopping = FALSE /\ broken = {}
  /\ frames = [k \in Conns |-> <<>>]
  /\ session = 0 /\ lease = None /\ over = {} /\ notify = {} /\ sent = 0
  /\ recalled = {}

----------------------------------------------------------------------------
(* The reader: Run and connect. *)

(* Dial, hello and welcome; then the worker and the heartbeat are started. *)
(* The Hub registers the peer, and with that takes back what an earlier    *)
(* connection of this Client held.  A failed dial changes nothing.         *)
TakenBack_never == lease
TakenBack == None
Dial ==
  /\ reader = "dialing" /\ ~stopping /\ conn < MaxConns
  /\ conn' = conn + 1
  /\ reader' = "reading"
  /\ worker' = [worker EXCEPT ![conn'] = Idle("idle")]
  /\ beat' = beat \cup {conn'}
  /\ session' = conn' /\ lease' = TakenBack
  /\ UNCHANGED <<held, queue, canceled, current, errs, closed, ended, stopping,
                 broken, frames, over, notify, sent, recalled>>

(* After a frame connect looks whether the worker or the heartbeat failed. *)
AfterFrame == IF errs[conn] > 0 THEN "leaving" ELSE "reading"
LooksAtErrors ==
  /\ reader' = AfterFrame
  /\ errs' = [errs EXCEPT ![conn] = IF @ > 0 THEN @ - 1 ELSE 0]

CanRead(type) ==
  /\ reader = "reading" /\ conn \notin closed \cup ended
  /\ frames[conn] # <<>> /\ Head(frames[conn]).type = type

Room_off_by_one(k) == Len(queue[k]) <= QueueCap
Room(k) == Len(queue[k]) < QueueCap

ReadAssign ==
  /\ CanRead("assign")
  /\ frames' = [frames EXCEPT ![conn] = Tail(@)]
  /\ LET t == Head(frames[conn]).task
     IN \/ /\ Room(conn)
           /\ queue' = [queue EXCEPT ![conn] = Append(@, t)]
           /\ LooksAtErrors /\ UNCHANGED held
        \/ /\ ~Room(conn)
           /\ reader' = "full" /\ held' = t
           /\ UNCHANGED <<queue, errs>>
  /\ UNCHANGED <<conn, canceled, current, worker, beat, closed, ended, stopping,
                 broken, server, recalled>>

(* The select of the reader on a full queue: room, or a cancelled context. *)
PutHeld ==
  /\ reader = "full" /\ Room(conn)
  /\ queue' = [queue EXCEPT ![conn] = Append(@, held)]
  /\ held' = None
  /\ LooksAtErrors
  /\ UNCHANGED <<conn, canceled, current, worker, beat, closed, ended, stopping,
                 broken, frames, server, recalled>>
GiveUpHeld ==
  /\ reader = "full" /\ (stopping \/ conn \in ended)
  /\ reader' = "leaving" /\ held' = None
  /\ UNCHANGED <<conn, shared, worker, beat, errs, closed, ended, stopping,
                 broken, frames, server, recalled>>

Matches_any_task(k, t) == current[k] # None
Matches(k, t) == current[k] = t

Cut(k) == [worker EXCEPT ![k].cut = IF @ = "no" THEN "cancel" ELSE @]

Marked_only_if_current(k, t) == IF current[k] = t THEN canceled[k] \cup {t} ELSE canceled[k]
Marked(k, t) == canceled[k] \cup {t}

(* cancelTask: remember the task, and cancel it when it is the current one. *)
ReadCancel ==
  /\ CanRead("cancel")
  /\ frames' = [frames EXCEPT ![conn] = Tail(@)]
  /\ LET t == Head(frames[conn]).task
     IN /\ canceled' = [canceled EXCEPT ![conn] = Marked(conn, t)]
        /\ worker' = IF Matches(conn, t) THEN Cut(conn) ELSE worker
        /\ recalled' = IF \E i \in DOMAIN queue[conn] : queue[conn][i] = t
                         THEN recalled \cup {<<conn, t>>} ELSE recalled
  /\ LooksAtErrors
  /\ UNCHANGED <<conn, held, queue, current, beat, closed, ended, stopping,
                 broken, server>>

(* receive fails: this side or the network closed the connection, or the   *)
(* context ended; cancelCurrent stops the measurement.                     *)
ReadFails ==
  /\ reader = "reading"
  /\ conn \in closed \cup ended \cup broken
  /\ worker' = IF current[conn] # None THEN Cut(conn) ELSE worker
  /\ reader' = "leaving"
  /\ UNCHANGED <<conn, held, shared, beat, errs, closed, ended, stopping,
                 broken, frames, server, recalled>>

(* connect returns: its deferred calls close the socket, then the context. *)
CloseSocket ==
  /\ reader = "leaving"
  /\ closed' = closed \cup {conn}
  /\ reader' = "closing"
  /\ UNCHANGED <<conn, held, shared, worker, beat, errs, ended, stopping,
                 broken, frames, server, recalled>>
EndContext_forgotten(k) == ended
EndContext(k) == ended \cup {k}
Leave ==
  /\ reader = "closing"
  /\ ended' = EndContext(conn)
  /\ reader' = IF stopping THEN "stopped" ELSE "dialing"
  /\ UNCHANGED <<conn, held, shared, worker, beat, errs, closed, stopping,
                 broken, frames, server, recalled>>

(* The context given to Run is cancelled, and with it all derived ones. *)
Stop ==
  /\ "stop" \in Env /\ ~stopping
  /\ stopping' = TRUE
  /\ ended' = ended \cup {k \in Conns : k = conn}
  /\ UNCHANGED <<reader, conn, held, shared, worker, beat, errs, closed, broken,
                 frames, server, recalled>>
StopDialing ==
  /\ reader = "dialing" /\ stopping
  /\ reader' = "stopped"
  /\ UNCHANGED <<conn, held, shared, worker, beat, errs, closed, ended, stopping,
                 broken, frames, server, recalled>>

----------------------------------------------------------------------------
(* The worker of connection k. *)

Dead(k) == k \in closed \cup ended \cup broken
CanSend(k) == k \notin closed \cup ended

At(k, at) == worker' = [worker EXCEPT ![k].at = at]

nonBlockingError(k) == errs' = [errs EXCEPT ![k] = IF @ < 2 THEN @ + 1 ELSE @]

Take(k) ==
  /\ worker[k].at = "idle" /\ queue[k] # <<>>
  /\ queue' = [queue EXCEPT ![k] = Tail(@)]
  /\ worker' = [worker EXCEPT ![k] = [at |-> "taken", task |-> Head(queue[k]),
                                      cut |-> "no"]]
  /\ UNCHANGED <<conns, canceled, current, beat, errs, links, frames, server,
                 recalled>>

(* consumeCanceled: the mark is used up and the assignment is dropped. *)
Skip(k) ==
  /\ worker[k].at = "taken" /\ worker[k].task \in canceled[k]
  /\ canceled' = [canceled EXCEPT ![k] = @ \ {worker[k].task}]
  /\ worker' = [worker EXCEPT ![k] = Idle("idle")]
  /\ UNCHANGED <<conns, queue, current, beat, errs, links, frames, server,
                 recalled>>
NotCanceled(k) ==
  /\ worker[k].at = "taken" /\ worker[k].task \notin canceled[k]
  /\ At(k, "starting")
  /\ UNCHANGED <<conns, shared, beat, errs, links, frames, server, recalled>>

setCurrent(k) ==
  /\ worker[k].at = "starting"
  /\ current' = [current EXCEPT ![k] = worker[k].task]
  /\ At(k, "acking")
  /\ UNCHANGED <<conns, queue, canceled, beat, errs, links, frames, server,
                 recalled>>
SendAck(k) ==
  /\ worker[k].at = "acking" /\ CanSend(k)
  /\ At(k, "executing")
  /\ UNCHANGED <<conns, shared, beat, errs, links, frames, server, recalled>>

(* Execute returns, whether it measured or its context ended. *)
Execute(k) ==
  /\ worker[k].at = "executing"
  /\ At(k, "reporting")
  /\ UNCHANGED <<conns, shared, beat, errs, links, frames, server, recalled>>
TimeOut(k) ==
  /\ "timeout" \in Env
  /\ worker[k].at \in {"acking", "executing"} /\ worker[k].cut = "no"
  /\ worker' = [worker EXCEPT ![k].cut = "timeout"]
  /\ UNCHANGED <<conns, shared, beat, errs, links, frames, server, recalled>>

(* Results and then task.complete or task.failed are written; the Hub      *)
(* releases the lease when it knows the connection and the unit.           *)
Report(k) ==
  /\ worker[k].at = "reporting" /\ CanSend(k)
  /\ At(k, "clearing")
  /\ lease' = IF k = session /\ k \notin broken /\ lease = worker[k].task
                THEN None ELSE lease
  /\ UNCHANGED <<conns, shared, beat, errs, links, frames, session, over,
                 notify, sent, recalled>>
clearCurrent(k) ==
  IF current[k] = worker[k].task THEN [current EXCEPT ![k] = None] ELSE current
Clear(k) ==
  /\ worker[k].at = "clearing"
  /\ current' = clearCurrent(k)
  /\ worker' = [worker EXCEPT ![k] = Idle("idle")]
  /\ UNCHANGED <<conns, queue, canceled, beat, errs, links, frames, server,
                 recalled>>

(* A write that fails ends the worker and closes the socket at once, so    *)
(* that the reader wakes up.                                               *)
SendFails(k) ==
  /\ worker[k].at \in {"acking", "reporting"} /\ Dead(k)
  /\ current' = clearCurrent(k)
  /\ worker' = [worker EXCEPT ![k] = Idle("gone")]
  /\ nonBlockingError(k)
  /\ closed' = closed \cup {k}
  /\ UNCHANGED <<conns, queue, canceled, beat, broken, frames, server, recalled>>
WorkerExit(k) ==
  /\ worker[k].at = "idle" /\ k \in ended
  /\ worker' = [worker EXCEPT ![k] = Idle("gone")]
  /\ UNCHANGED <<conns, shared, beat, errs, links, frames, server, recalled>>

----------------------------------------------------------------------------
(* The heartbeat of connection k; a ping that succeeds changes nothing. *)

CloseNow_forgotten(k) == closed
CloseNow(k) == closed \cup {k}
PingFails(k) ==
  /\ k \in beat /\ Dead(k)
  /\ beat' = beat \ {k}
  /\ nonBlockingError(k)
  /\ closed' = CloseNow(k)
  /\ UNCHANGED <<conns, shared, worker, broken, frames, server, recalled>>
BeatExit(k) ==
  /\ k \in beat /\ k \in ended
  /\ beat' = beat \ {k}
  /\ UNCHANGED <<conns, shared, worker, errs, links, frames, server, recalled>>

----------------------------------------------------------------------------
(* The network and the server. *)

Break ==
  /\ "break" \in Env /\ conn > 0 /\ conn \notin broken \cup closed
  /\ broken' = broken \cup {conn}
  /\ frames' = [frames EXCEPT ![conn] = <<>>]
  /\ UNCHANGED <<conns, shared, worker, beat, errs, closed, server, recalled>>

(* A frame reaches the Client only through a connection that still works. *)
Deliver(k, frame) ==
  frames' = IF k \in broken \cup closed THEN frames
              ELSE [frames EXCEPT ![k] = Append(@, frame)]

Assign(t) ==
  /\ session > 0 /\ lease = None /\ t \notin over /\ sent < MaxSent
  /\ lease' = t /\ sent' = sent + 1
  /\ Deliver(session, [type |-> "assign", task |-> t])
  /\ UNCHANGED <<conns, shared, worker, beat, errs, links, session, over,
                 notify, recalled>>

EndTask(t) ==
  /\ t \notin over
  /\ over' = over \cup {t}
  /\ lease' = IF lease = t THEN None ELSE lease
  /\ notify' = IF session > 0 THEN notify \cup {<<t, session>>} ELSE notify
  /\ UNCHANGED <<conns, shared, worker, beat, errs, links, frames, session,
                 sent, recalled>>
Notify(t, k) ==
  /\ <<t, k>> \in notify
  /\ notify' = notify \ {<<t, k>>}
  /\ Deliver(k, [type |-> "cancel", task |-> t])
  /\ UNCHANGED <<conns, shared, worker, beat, errs, links, session, lease,
                 over, sent, recalled>>

(* The Hub's read fails once this side has closed; with the network gone   *)
(* it may, but nothing makes it: its read has no deadline.                 *)
Unregister ==
  /\ session \in closed \cup broken
  /\ session' = 0 /\ lease' = None
  /\ UNCHANGED <<conns, shared, worker, beat, errs, links, frames, over, notify,
                 sent, recalled>>

----------------------------------------------------------------------------
Reader == \/ Dial \/ ReadAssign \/ PutHeld \/ GiveUpHeld \/ ReadCancel
          \/ ReadFails \/ CloseSocket \/ Leave \/ StopDialing
Work(k) == \/ Take(k) \/ Skip(k) \/ NotCanceled(k) \/ setCurrent(k)
           \/ SendAck(k) \/ Execute(k) \/ Report(k) \/ Clear(k)
           \/ SendFails(k) \/ WorkerExit(k)
Heartbeat(k) == PingFails(k) \/ BeatExit(k)
Server == \/ \E t \in Tasks : Assign(t) \/ EndTask(t)
          \/ \E t \in Tasks, k \in Conns : Notify(t, k)
          \/ Unregister

Next == \/ Reader \/ Stop \/ Break \/ Server
        \/ \E k \in Conns : Work(k) \/ TimeOut(k) \/ Heartbeat(k)
Spec == Init /\ [][Next]_vars

(* Goroutines run; a read on a connection this side closed returns, but    *)
(* nothing makes a read on a half-open one return; the next ping on it     *)
(* fails.  The Hub notices a connection the Client closed.                 *)
ReaderRuns == \/ Dial \/ ReadAssign \/ PutHeld \/ GiveUpHeld \/ ReadCancel
              \/ (conn \in closed \cup ended /\ ReadFails)
              \/ CloseSocket \/ Leave \/ StopDialing
Fairness ==
  /\ WF_vars(ReaderRuns)
  /\ \A k \in Conns : WF_vars(Work(k)) /\ WF_vars(Heartbeat(k))
  /\ WF_vars(session \in closed \ broken /\ Unregister)
FairSpec == Spec /\ Fairness

----------------------------------------------------------------------------
(* Properties. *)

Measuring(k) ==
  worker[k].at = "executing" /\ worker[k].cut = "no" /\ k \notin ended

(* However often the Client reconnects, at most one measurement runs that  *)
(* nobody has told to stop, and it belongs to the connection in use: the   *)
(* context of a connection ends before the next dial (client.go:111-118).  *)
OneMeasurement == \A k \in Conns : Measuring(k) => k = conn /\ reader # "dialing"

(* A cancellation stops or drops no unit but those of its own task: while  *)
(* the connection is served, a unit is cut or skipped only if its task has *)
(* ended (connection.go:65-83), whatever the worker was doing meanwhile.   *)
UntouchedByOthers ==
  [][\A k \in Conns :
       \/ worker[k].task \in over \cup {None}
       \/ reader' # "reading"
       \/ /\ ~(worker[k].cut = "no" /\ worker'[k].cut = "cancel")
          /\ ~(worker[k].at = "taken" /\ worker'[k].at \in {"idle", "gone"})]_vars

(* A unit whose cancel was read while it was queued is never measured: the *)
(* mark waits for the worker (connection.go:16-17).                        *)
QueuedCancelHonoured ==
  \A k \in Conns : <<k, worker[k].task>> \in recalled =>
                      worker[k].at \notin {"starting", "acking", "executing"}

(* A task.cancel that was read stops the unit of its task, wherever the    *)
(* worker is with it (connection.go:63-64).  The code does not do this     *)
(* between consumeCanceled and setCurrent.                                 *)
CancelHonoured ==
  \A k \in Conns : worker[k].task \in canceled[k] /\ k = conn => ~Measuring(k)

(* A connection that is lost is replaced: a worker or heartbeat that fails *)
(* closes the socket, which wakes a reader that reads (worker.go:14-16,    *)
(* 88-89).  Excepted is a reader that waits for room in the full queue of  *)
(* a worker that is gone: the select of client.go:173-177 watches only the *)
(* context, which ends when that reader returns.                           *)
Stuck == reader = "full" /\ worker[conn].at = "gone"
LostIsReplaced ==
  \A k \in Conns :
    (k = conn /\ k \in broken \cup closed) ~>
      (conn > k \/ (conn = MaxConns /\ reader = "dialing") \/ Stuck \/ reader = "stopped")

(* The Hub does not wait for a Client for ever: a unit it has leased is    *)
(* reported, taken back or ended with its task, unless the Client is stuck *)
(* in that way or was stopped, or connections have run out.                *)
ServerNeverWaits ==
  \A t \in Tasks :
    (lease = t) ~>
      (lease # t \/ Stuck \/ stopping \/ (conn = MaxConns /\ conn \in broken))
=============================================================================
