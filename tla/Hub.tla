-------------------------------- MODULE Hub --------------------------------
(***************************************************************************)
(* The in-memory task scheduler of the server (src/internal/serverapp/     *)
(* hub*.go) together with the rows of SQLite it keeps in step with         *)
(* (src/internal/store/task_transitions.go, task_termination.go).          *)
(*                                                                         *)
(* Atomicity.  The code protects its maps with h.mu, serialises the        *)
(* transitions of one task with task.transition, and writes SQLite while   *)
(* it holds transition but not mu.  A handler is therefore split where     *)
(* another goroutine can act: "Begin" takes transition, checks under mu    *)
(* and commits the transaction; "End" updates memory under mu and releases *)
(* transition.  tx[t] is the section that holds the transition lock of t.  *)
(* Reservation, registration, deregistration and the first half of a       *)
(* revocation use mu alone and interleave with open sections.              *)
(*                                                                         *)
(* A definition named X_... is a faulty variant of X; the project replaces  *)
(* X by it to see that a property notices.  No specification uses it.      *)
(*                                                                         *)
(* A goroutine that has still to call requeueTarget or finishTarget is a   *)
(* record in requeuing or finishing; one that has still to call schedule() *)
(* is the flag wake.  Passes that would run back to back with nothing in   *)
(* between are one pass.                                                   *)
(***************************************************************************)
EXTENDS TaskStore

CONSTANTS
  Conns,      \* WebSocket connections; each is used for one session
  Proxies,    \* proxies, each standing for the HMAC of its outbound
  Owner,      \* Owner[k]: the Client that connection k authenticates as
  Plan,       \* Plan[t]: the proxies of task t
  MaxWork,    \* bound: work units one Client is handed in a behaviour
  Env,        \* bound: the environment events that may happen at all
  None        \* no Client, no connection

ASSUME HubAssumption ==
  /\ Owner \in [Conns -> Clients]
  /\ Plan \in [Tasks -> (SUBSET Proxies) \ {{}}]
  /\ None \notin Clients \cup Conns
  /\ MaxWork \in Nat
  /\ Env \subseteq {"store", "send", "drop", "fail", "revoke", "cancel",
                    "expire", "shutdown", "deadline"}
(* A task lists finitely many proxies; completeWork counts them. *)
ASSUME PlanAssumption == \A t \in Tasks : IsFiniteSet(Plan[t])

VARIABLES
  disabled,   \* clients.enabled = 0
  results,    \* rows of the results table: <<task, client, proxy>>
  runtime,    \* life of the runtimeTask of t in h.tasks
  status,     \* task.targets
  done,       \* task.work[c].completed
  leases,     \* task.work[c].active, as a set of work references
  started,    \* the leases whose state is "running"
  clientWork, \* h.clientWork, as the set of its values
  proxyWork,  \* h.proxyWork, as the set of its values
  peers,      \* h.peers
  revoked,    \* h.revokedClients
  issued,     \* work IDs handed out per Client, so that model.NewID is fresh
  tx,         \* the section that holds task.transition
  timer,      \* the tasks whose expiry timer is armed
  phase,      \* where the goroutine of a connection is
  previous,   \* the connection a registration replaced and has still to close
  closed,     \* connections the server has closed
  requeuing,  \* calls of requeueTarget still to make
  finishing,  \* calls of finishTargetLocked still to make
  offered,    \* assignments sent whose ACK was not read yet
  working,    \* units ACKed whose complete or failed was not read yet
  wake,       \* some goroutine is about to call schedule()
  passing,    \* a goroutine holds scheduleMu
  excluded,   \* the Clients the current pass gave up on
  reserved,   \* the reservation the current pass has in hand: one or none
  closing,    \* h.closing
  drained,    \* Shutdown has waited for every handler
  taskIDs,    \* the tasks Shutdown has still to try
  shutdownErr \* the tasks Shutdown returns an error for

work      == <<leases, started, clientWork, proxyWork>>
calls     == <<requeuing, finishing>>
frames    == <<offered, working>>
sched     == <<passing, excluded, reserved>>
links     == <<peers, phase, previous, closed>>
gates     == <<disabled, revoked, closing, drained>>
access    == <<gates, taskIDs, shutdownErr>>
vars == <<dbTask, dbTarget, disabled, results, runtime, status, done, leases,
          started, clientWork, proxyWork, peers, revoked, issued, tx, timer,
          phase, previous, closed, requeuing, finishing, offered, working,
          wake, passing, excluded, reserved, closing, drained, taskIDs,
          shutdownErr>>

----------------------------------------------------------------------------
(* Values. *)

ActiveStatus   == {"queued", "assigned", "running"}
TargetStatus   == ActiveStatus \cup TerminalStatus \cup {"none"}

Ref == [task : Tasks, client : Clients, proxy : Proxies, work : Nat]

Free == [op |-> "free", client |-> None, conn |-> None, work |-> 0,
         to |-> "none", last |-> FALSE]
Section == [op : {"free", "ack", "requeue", "finish", "cancel", "expire",
                  "expiring", "expired", "flush", "send"},
            client : Clients \cup {None}, conn : Conns \cup {None},
            work : Nat, to : TargetStatus, last : BOOLEAN]

TaskTypeOK ==
  /\ results \subseteq Tasks \X Clients \X Proxies
  /\ runtime \in [Tasks -> {"new", "created", "live", "pending", "gone"}]
  /\ status \in [Tasks -> [Clients -> TargetStatus]]
  /\ done \in [Tasks -> [Clients -> SUBSET Proxies]]
  /\ timer \subseteq Tasks
WorkTypeOK ==
  /\ leases \subseteq Ref /\ started \subseteq Ref
  /\ clientWork \subseteq Ref /\ proxyWork \subseteq Ref
  /\ issued \in [Clients -> Nat]
  /\ offered \subseteq [conn : Conns, ref : Ref]
  /\ working \subseteq [conn : Conns, ref : Ref]
  /\ reserved \subseteq [conn : Conns, ref : Ref]
SectionTypeOK ==
  /\ tx \in [Tasks -> Section]
  /\ \A t \in Tasks :
       /\ tx[t].op \in {"ack", "requeue", "finish"} => tx[t].client \in Clients
       /\ tx[t].op = "ack" => tx[t].conn \in Conns
       /\ tx[t].op = "finish" => tx[t].to # "assigned"
PhaseTypeOK ==
  phase \in [Conns -> {"off", "registering", "reading", "handling", "leaving",
                       "gone"}]
ConnTypeOK ==
  /\ PhaseTypeOK
  /\ peers \in [Clients -> Conns \cup {None}]
  /\ previous \in [Conns -> Conns \cup {None}]
  /\ closed \subseteq Conns
CallTypeOK ==
  /\ requeuing \subseteq [task : Tasks, conn : Conns]
  /\ finishing \subseteq [task : Tasks, client : Clients,
                          conn : Conns \cup {None}, to : TerminalStatus]
AccessTypeOK ==
  /\ disabled \subseteq Clients /\ revoked \subseteq Clients
  /\ excluded \subseteq Clients
  /\ wake \in BOOLEAN /\ passing \in BOOLEAN
  /\ closing \in BOOLEAN /\ drained \in BOOLEAN
  /\ taskIDs \subseteq Tasks /\ shutdownErr \subseteq Tasks
TypeOK ==
  /\ StoreTypeOK /\ TaskTypeOK /\ WorkTypeOK /\ SectionTypeOK
  /\ ConnTypeOK /\ CallTypeOK /\ AccessTypeOK

Init ==
  /\ StoreInit
  /\ disabled = {} /\ results = {}
  /\ runtime = [t \in Tasks |-> "new"]
  /\ status = [t \in Tasks |-> [c \in Clients |-> "none"]]
  /\ done = [t \in Tasks |-> [c \in Clients |-> {}]]
  /\ leases = {} /\ started = {} /\ clientWork = {} /\ proxyWork = {}
  /\ peers = [c \in Clients |-> None]
  /\ revoked = {}
  /\ issued = [c \in Clients |-> 0]
  /\ tx = [t \in Tasks |-> Free]
  /\ timer = {}
  /\ phase = [k \in Conns |-> "off"]
  /\ previous = [k \in Conns |-> None]
  /\ closed = {}
  /\ requeuing = {} /\ finishing = {} /\ offered = {} /\ working = {}
  /\ wake = FALSE /\ passing = FALSE /\ closing = FALSE /\ drained = FALSE
  /\ excluded = {} /\ reserved = {} /\ taskIDs = {} /\ shutdownErr = {}

----------------------------------------------------------------------------
(* Helpers. *)

InHub(t)  == runtime[t] \in {"live", "pending"}        \* h.tasks[t] # nil
Active(t) == runtime[t] = "live"                       \* not terminalPending
Unlocked(t) == tx[t].op = "free"

Enter(t, section) == tx' = [tx EXCEPT ![t] = section]
Leave(t) == tx' = [tx EXCEPT ![t] = Free]

ActiveWork(t, c) == {r \in leases : r.task = t /\ r.client = c}
TaskWork(t)      == {r \in leases : r.task = t}

(* releaseActiveWorkLocked for every reference in S. *)
releaseActiveWork(S) ==
  /\ leases' = leases \ S
  /\ started' = started \ S
  /\ clientWork' = clientWork \ S
  /\ proxyWork' = proxyWork \ S

SetStatus(t, c, s) == status' = [status EXCEPT ![t][c] = s]
SetPhase(k, p) == phase' = [phase EXCEPT ![k] = p]
targetNeedsRequeue(s) == s \in {"assigned", "running"}

(* The lease that a frame naming work unit w of Client c in task t refers to. *)
Matching(t, c, w) == {r \in ActiveWork(t, c) : r.work = w}

----------------------------------------------------------------------------
(* Tasks: startTask commits the rows first and registers the runtime after. *)

startTask(t) ==
  /\ runtime[t] = "new" /\ ~drained
  /\ Targets[t] \cap disabled = {}
  /\ CreateTask(t)
  /\ runtime' = [runtime EXCEPT ![t] = "created"]
  /\ UNCHANGED <<access, results, status, done, work, links, issued, tx, timer,
                 calls, frames, wake, sched>>

(* Targets revoked between the two steps are finished as failed at once. *)
RevokedTargets_overlooked(t) == {}
RevokedTargets(t) == Targets[t] \cap revoked
AddTask(t) ==
  /\ runtime[t] = "created"
  /\ runtime' = [runtime EXCEPT ![t] = "live"]
  /\ status' = [status EXCEPT ![t] =
        [c \in Clients |-> IF c \in Targets[t] THEN "queued" ELSE "none"]]
  /\ timer' = timer \cup {t}
  /\ finishing' = finishing \cup
        {[task |-> t, client |-> c, conn |-> None, to |-> "failed"] :
            c \in RevokedTargets(t)}
  /\ wake' = (wake \/ Targets[t] \ revoked # {})
  /\ UNCHANGED <<store, access, results, done, work, links, issued, tx,
                 requeuing, frames, sched>>

----------------------------------------------------------------------------
(* Connections. *)

NeedingRequeue(c) ==
  {t \in Tasks : Active(t) /\ targetNeedsRequeue(status[t][c])}

(* registerAuthenticated, which holds credentialMu until register returns,  *)
(* and the mu section of register.                                         *)
Register(k) ==
  LET c == Owner[k] IN
  /\ phase[k] = "off" /\ ~closing
  /\ \A j \in Conns : phase[j] # "registering"
  /\ c \notin disabled \cup revoked
  /\ SetPhase(k, "registering")
  /\ peers' = [peers EXCEPT ![c] = k]
  /\ previous' = [previous EXCEPT ![k] = peers[c]]
  /\ requeuing' = IF peers[c] = None THEN requeuing
                  ELSE requeuing \cup {[task |-> t, conn |-> k] :
                                         t \in NeedingRequeue(c)}
  /\ UNCHANGED <<store, access, results, runtime, status, done, work, issued,
                 tx, timer, closed, finishing, frames, wake, sched>>

InSection(k) == \E t \in Tasks : tx[t].conn = k
NoRequeueLeft(k) == ~InSection(k) /\ \A q \in requeuing : q.conn # k

(* The end of register (the replaced connection is closed) and the first    *)
(* dispatchQueued; from here on the goroutine reads messages.              *)
Registered(k) ==
  /\ phase[k] = "registering" /\ NoRequeueLeft(k)
  /\ SetPhase(k, "reading")
  /\ closed' = closed \cup ({previous[k]} \ {None})
  /\ previous' = [previous EXCEPT ![k] = None]
  /\ wake' = TRUE
  /\ UNCHANGED <<store, access, results, runtime, status, done, work, peers,
                 issued, tx, timer, calls, frames, sched>>

(* unregister, when the read loop of k ends: the connection was closed by   *)
(* the server or the network dropped it.                                   *)
Unregister(k) ==
  LET c == Owner[k] IN
  /\ phase[k] = "reading"
  /\ k \in closed \/ "drop" \in Env
  /\ SetPhase(k, "leaving")
  /\ peers' = IF peers[c] = k THEN [peers EXCEPT ![c] = None] ELSE peers
  /\ requeuing' = IF peers[c] = k
                  THEN requeuing \cup {[task |-> t, conn |-> k] :
                                         t \in NeedingRequeue(c)}
                  ELSE requeuing
  /\ offered' = {f \in offered : f.conn # k}
  /\ working' = {f \in working : f.conn # k}
  /\ UNCHANGED <<store, access, results, runtime, status, done, work, issued,
                 tx, timer, previous, closed, finishing, wake, sched>>

Unregistered(k) ==
  /\ phase[k] = "leaving" /\ NoRequeueLeft(k)
  /\ SetPhase(k, "gone")
  /\ wake' = TRUE
  /\ UNCHANGED <<store, access, results, runtime, status, done, work, peers,
                 previous, closed, issued, tx, timer, calls, frames, sched>>

----------------------------------------------------------------------------
(* requeueTarget. *)

RequeueNeeded(q) ==
  Active(q.task) /\ targetNeedsRequeue(status[q.task][Owner[q.conn]])

(* Nothing to do, no row changed, or the transaction failed. *)
RequeueDropped(q) ==
  LET t == q.task  c == Owner[q.conn] IN
  /\ q \in requeuing /\ Unlocked(t) /\ ~InSection(q.conn)
  /\ RequeueNeeded(q) =>
       /\ status[t][c] = "running"
       /\ CanRequeue(t, c) => "store" \in Env
  /\ requeuing' = requeuing \ {q}
  /\ UNCHANGED <<store, access, results, runtime, status, done, work, links,
                 issued, tx, timer, finishing, frames, wake, sched>>

RequeueBegin(q) ==
  LET t == q.task  c == Owner[q.conn] IN
  /\ q \in requeuing /\ Unlocked(t) /\ ~InSection(q.conn)
  /\ RequeueNeeded(q)
  /\ IF status[t][c] = "running"
     THEN RequeueTarget(t, c)
     ELSE UNCHANGED store
  /\ requeuing' = requeuing \ {q}
  /\ Enter(t, [Free EXCEPT !.op = "requeue", !.client = c, !.conn = q.conn,
                           !.to = status[t][c]])
  /\ UNCHANGED <<access, results, runtime, status, done, work, links, issued,
                 timer, finishing, frames, wake, sched>>

RequeueEnd_keeping_lease(t) ==
  LET c == tx[t].client IN
  /\ tx[t].op = "requeue"
  /\ IF InHub(t) /\ status[t][c] = tx[t].to
     THEN SetStatus(t, c, "queued") ELSE UNCHANGED status
  /\ Leave(t)
  /\ wake' = TRUE
  /\ UNCHANGED <<store, access, results, runtime, done, work, links, issued,
                 timer, calls, frames, sched>>
RequeueEnd(t) ==
  LET c == tx[t].client IN
  /\ tx[t].op = "requeue"
  /\ IF InHub(t) /\ status[t][c] = tx[t].to
     THEN releaseActiveWork(ActiveWork(t, c)) /\ SetStatus(t, c, "queued")
     ELSE UNCHANGED <<work, status>>
  /\ Leave(t)
  /\ wake' = TRUE
  /\ UNCHANGED <<store, access, results, runtime, done, links, issued, timer,
                 calls, frames, sched>>

----------------------------------------------------------------------------
(* Messages of the current peer, read one at a time by its goroutine.  A    *)
(* message of a replaced connection is dropped and changes nothing.        *)

Reads(k, c) == phase[k] = "reading" /\ peers[c] = k

(* setTargetRunning accepts the ACK f. *)
AckValid(f) ==
  LET t == f.ref.task  c == f.ref.client IN
  /\ Active(t) /\ f.ref \in leases \ started
  /\ status[t][c] \in {"assigned", "running"}

AckDropped(f) ==
  LET t == f.ref.task  c == f.ref.client IN
  /\ f \in offered /\ Reads(f.conn, c) /\ Unlocked(t)
  /\ AckValid(f) =>
       /\ status[t][c] = "assigned"
       /\ CanStart(t, c) => "store" \in Env
  /\ offered' = offered \ {f}
  /\ working' = working \cup {f}
  /\ UNCHANGED <<store, access, results, runtime, status, done, work, links,
                 issued, tx, timer, calls, wake, sched>>

AckBegin(f) ==
  LET t == f.ref.task  c == f.ref.client IN
  /\ f \in offered /\ Reads(f.conn, c) /\ Unlocked(t)
  /\ AckValid(f)
  /\ IF status[t][c] = "assigned"
     THEN StartTarget(t, c)
     ELSE UNCHANGED store
  /\ Enter(t, [Free EXCEPT !.op = "ack", !.client = c, !.conn = f.conn,
                           !.work = f.ref.work])
  /\ SetPhase(f.conn, "handling")
  /\ offered' = offered \ {f}
  /\ working' = working \cup {f}
  /\ UNCHANGED <<access, results, runtime, status, done, work, peers, previous,
                 closed, issued, timer, calls, wake, sched>>

AckEnd(t) ==
  LET c == tx[t].client
      refs == Matching(t, c, tx[t].work) \ started IN
  /\ tx[t].op = "ack"
  /\ IF InHub(t) /\ refs # {}
     THEN SetStatus(t, c, "running") /\ started' = started \cup refs
     ELSE UNCHANGED <<status, started>>
  /\ Leave(t)
  /\ SetPhase(tx[t].conn, "reading")
  /\ UNCHANGED <<store, access, results, runtime, done, leases, clientWork,
                 proxyWork, peers, previous, closed, issued, timer, calls,
                 frames, wake, sched>>

(* What saveResult, completeWork and failWork require of the unit f.ref. *)
UnitRunning(f) ==
  LET t == f.ref.task  c == f.ref.client IN
  Active(t) /\ status[t][c] = "running" /\ f.ref \in started

ReadsUnit_without_transition(f) ==
  f \in working /\ Reads(f.conn, f.ref.client)
ReadsUnit(f) ==
  /\ f \in working
  /\ Reads(f.conn, f.ref.client) /\ Unlocked(f.ref.task)

saveResult(f) ==
  /\ ReadsUnit(f) /\ UnitRunning(f)
  /\ results' = results \cup {<<f.ref.task, f.ref.client, f.ref.proxy>>}
  /\ UNCHANGED <<store, access, runtime, status, done, work, links, issued, tx,
                 timer, calls, frames, wake, sched>>

UnitReportDropped(f) ==
  /\ ReadsUnit(f) /\ ~UnitRunning(f)
  /\ working' = working \ {f}
  /\ UNCHANGED <<store, access, results, runtime, status, done, work, links,
                 issued, tx, timer, calls, offered, wake, sched>>

FinishFromPeer(f, to) ==
  /\ finishing' = finishing \cup {[task |-> f.ref.task, client |-> f.ref.client,
                                   conn |-> f.conn, to |-> to]}
  /\ SetPhase(f.conn, "handling")

AllTested_one_early(t, tested) == Cardinality(tested) + 1 >= Cardinality(Plan[t])
AllTested(t, tested) == Cardinality(tested) = Cardinality(Plan[t])

(* completeWork releases transition before it finishes the target. *)
completeWork(f) ==
  LET t == f.ref.task  c == f.ref.client
      tested == done[t][c] \cup {f.ref.proxy} IN
  /\ ReadsUnit(f) /\ UnitRunning(f)
  /\ done' = [done EXCEPT ![t][c] = tested]
  /\ releaseActiveWork({f.ref})
  /\ working' = working \ {f}
  /\ IF AllTested(t, tested)
     THEN FinishFromPeer(f, "completed") /\ UNCHANGED wake
     ELSE wake' = TRUE /\ UNCHANGED <<finishing, phase>>
  /\ UNCHANGED <<store, access, results, runtime, status, peers, previous,
                 closed, issued, tx, timer, requeuing, offered, sched>>

failWork(f) ==
  /\ "fail" \in Env
  /\ ReadsUnit(f) /\ UnitRunning(f)
  /\ releaseActiveWork({f.ref})
  /\ working' = working \ {f}
  /\ FinishFromPeer(f, "failed")
  /\ UNCHANGED <<store, access, results, runtime, status, done, peers, previous,
                 closed, issued, tx, timer, requeuing, offered, wake, sched>>

----------------------------------------------------------------------------
(* finishTargetLocked.  A call from a peer names the connection it expects. *)

FinishAllowed(f) ==
  /\ Active(f.task)
  /\ IF f.conn # None
     THEN peers[f.client] = f.conn /\ status[f.task][f.client] = "running"
     ELSE status[f.task][f.client] \in ActiveStatus

(* Refused, or the transaction failed.  completeWork and failWork call      *)
(* schedule() all the same.                                                *)
FinishDropped(f) ==
  /\ f \in finishing /\ Unlocked(f.task)
  /\ FinishAllowed(f) => "store" \in Env
  /\ finishing' = finishing \ {f}
  /\ phase' = IF f.conn = None THEN phase
              ELSE [phase EXCEPT ![f.conn] = "reading"]
  /\ wake' = (wake \/ f.conn # None)
  /\ UNCHANGED <<store, access, results, runtime, status, done, work, peers,
                 previous, closed, issued, tx, timer, requeuing, frames, sched>>

FinishBegin(f) ==
  LET t == f.task  row == FinishedRow(t, f.client, f.to) IN
  /\ f \in finishing /\ Unlocked(t)
  /\ FinishAllowed(f)
  /\ FinishTarget(t, f.client, f.to)
  /\ Enter(t, [Free EXCEPT !.op = "finish", !.client = f.client,
                 !.conn = f.conn, !.to = row[f.client],
                 !.last = ~storeTaskActive(t) \/ AllTerminal(t, row)])
  /\ finishing' = finishing \ {f}
  /\ UNCHANGED <<access, results, runtime, status, done, work, links, issued,
                 timer, requeuing, frames, wake, sched>>

(* releaseTaskWorkLocked, EraseAssignment and delete(h.tasks, t). *)
RemoveTask(t) ==
  /\ releaseActiveWork(TaskWork(t))
  /\ runtime' = [runtime EXCEPT ![t] = "gone"]
  /\ timer' = timer \ {t}

FinishEnd(t) ==
  LET c == tx[t].client IN
  /\ tx[t].op = "finish"
  /\ IF InHub(t)
     THEN /\ SetStatus(t, c, tx[t].to)
          /\ IF tx[t].last THEN RemoveTask(t)
             ELSE releaseActiveWork(ActiveWork(t, c)) /\ UNCHANGED <<runtime, timer>>
     ELSE UNCHANGED <<status, work, runtime, timer>>
  /\ phase' = IF tx[t].conn = None THEN phase
              ELSE [phase EXCEPT ![tx[t].conn] = "reading"]
  /\ Leave(t)
  /\ wake' = TRUE
  /\ UNCHANGED <<store, access, results, done, peers, previous, closed, issued,
                 calls, frames, sched>>

----------------------------------------------------------------------------
(* Revocation: the credential is disabled in the store first. *)

DisableClient(c) ==
  /\ "revoke" \in Env /\ c \notin disabled /\ ~drained
  /\ disabled' = disabled \cup {c}
  /\ UNCHANGED <<store, revoked, closing, drained, taskIDs, shutdownErr, results,
                 runtime, status, done, work, links, issued, tx, timer, calls, frames, wake, sched>>

RevokeClient(c) ==
  /\ c \in disabled \ revoked
  /\ revoked' = revoked \cup {c}
  /\ peers' = [peers EXCEPT ![c] = None]
  /\ closed' = closed \cup ({peers[c]} \ {None})
  /\ finishing' = finishing \cup
       {[task |-> t, client |-> c, conn |-> None, to |-> "failed"] :
           t \in {u \in Tasks : InHub(u) /\ status[u][c] \in ActiveStatus}}
  /\ UNCHANGED <<store, disabled, closing, drained, taskIDs, shutdownErr, results,
                 runtime, status, done, work, phase, previous, issued, tx, timer, requeuing, frames, wake,
                 sched>>

----------------------------------------------------------------------------
(* schedule().  Which of the eligible units reserveNextWork takes is left   *)
(* open here.                                                              *)

Eligible_ignoring_proxyWork(t, c, p) ==
  /\ Active(t) /\ c \in Targets[t] \ excluded /\ peers[c] # None
  /\ ActiveWork(t, c) = {} /\ status[t][c] \in {"queued", "running"}
  /\ \A r \in clientWork : r.client # c
  /\ p \in Plan[t] \ done[t][c]
  /\ issued[c] < MaxWork
Eligible(t, c, p) ==
  /\ Active(t) /\ c \in Targets[t] \ excluded /\ peers[c] # None
  /\ ActiveWork(t, c) = {} /\ status[t][c] \in {"queued", "running"}
  /\ \A r \in clientWork : r.client # c
  /\ p \in Plan[t] \ done[t][c]
  /\ \A r \in proxyWork : r.proxy # p
  /\ issued[c] < MaxWork

PassBegin ==
  /\ wake /\ ~passing
  /\ passing' = TRUE /\ wake' = FALSE /\ excluded' = {}
  /\ UNCHANGED <<store, access, results, runtime, status, done, work, links,
                 issued, tx, timer, calls, frames, reserved>>

Reserve(t, c, p) ==
  LET ref == [task |-> t, client |-> c, proxy |-> p, work |-> issued[c] + 1] IN
  /\ passing /\ reserved = {}
  /\ Eligible(t, c, p)
  /\ issued' = [issued EXCEPT ![c] = @ + 1]
  /\ leases' = leases \cup {ref}
  /\ clientWork' = clientWork \cup {ref}
  /\ proxyWork' = proxyWork \cup {ref}
  /\ status' = IF status[t][c] = "queued"
               THEN [status EXCEPT ![t][c] = "assigned"] ELSE status
  /\ reserved' = {[conn |-> peers[c], ref |-> ref]}
  /\ UNCHANGED <<store, access, results, runtime, done, started, links, tx,
                 timer, calls, frames, wake, passing, excluded>>

reservationActive(v) ==
  Active(v.ref.task) /\ peers[v.ref.client] = v.conn /\ v.ref \in leases

SendSkipped(v) ==
  /\ v \in reserved /\ Unlocked(v.ref.task) /\ ~reservationActive(v)
  /\ reserved' = {}
  /\ UNCHANGED <<store, access, results, runtime, status, done, work, links,
                 issued, tx, timer, calls, frames, wake, passing, excluded>>

SendBegin(v) ==
  /\ v \in reserved /\ Unlocked(v.ref.task) /\ reservationActive(v)
  /\ Enter(v.ref.task, [Free EXCEPT !.op = "send"])
  /\ UNCHANGED <<store, access, results, runtime, status, done, work, links,
                 issued, timer, calls, frames, wake, sched>>

(* The frame is written; it is read only if the connection still lives. *)
SendEnd(v) ==
  /\ v \in reserved /\ tx[v.ref.task].op = "send" /\ v.conn \notin closed
  /\ offered' = IF phase[v.conn] \in {"leaving", "gone"} THEN offered
                ELSE offered \cup {v}
  /\ reserved' = {}
  /\ Leave(v.ref.task)
  /\ UNCHANGED <<store, access, results, runtime, status, done, work, links,
                 issued, timer, calls, working, wake, passing, excluded>>

(* rollbackReservedWork, and the Client is not tried again in this pass. *)
SendFails(v) ==
  LET t == v.ref.task  c == v.ref.client IN
  /\ v \in reserved /\ tx[t].op = "send"
  /\ \/ v.conn \in closed \/ phase[v.conn] \in {"leaving", "gone"}
     \/ "send" \in Env
  /\ IF InHub(t) /\ v.ref \in leases
     THEN /\ releaseActiveWork({v.ref})
          /\ status' = IF status[t][c] = "assigned"
                       THEN [status EXCEPT ![t][c] = "queued"] ELSE status
     ELSE UNCHANGED <<work, status>>
  /\ excluded' = excluded \cup {c}
  /\ closed' = closed \cup {v.conn}
  /\ reserved' = {}
  /\ Leave(t)
  /\ UNCHANGED <<store, access, results, runtime, done, peers, phase, previous,
                 issued, timer, calls, frames, wake, passing>>

NothingToReserve_after_failed_send ==
  excluded # {} \/ ~\E t \in Tasks, c \in Clients, p \in Proxies : Eligible(t, c, p)
NothingToReserve ==
  ~\E t \in Tasks, c \in Clients, p \in Proxies : Eligible(t, c, p)

PassEnd ==
  /\ passing /\ reserved = {}
  /\ NothingToReserve
  /\ passing' = FALSE /\ excluded' = {}
  /\ UNCHANGED <<store, access, results, runtime, status, done, work, links,
                 issued, tx, timer, calls, frames, wake, reserved>>

----------------------------------------------------------------------------
(* cancelTask, by an administrator or by Shutdown once it has waited.  A    *)
(* failed transaction changes nothing; what Shutdown makes of it is below. *)

CancelAllowed_after_expiry(t) == InHub(t) /\ Unlocked(t)
CancelAllowed(t) == Active(t) /\ Unlocked(t)

CancelBegin(t) ==
  /\ IF drained THEN t \in taskIDs ELSE "cancel" \in Env
  /\ CancelAllowed(t)
  /\ terminateTask(t, "canceled")
  /\ Enter(t, [Free EXCEPT !.op = "cancel"])
  /\ taskIDs' = taskIDs \ {t}
  /\ UNCHANGED <<gates, shutdownErr, results, runtime, status, done, work, links, issued,
                 timer, calls, frames, wake, sched>>

CancelEnd(t) ==
  /\ tx[t].op = "cancel"
  /\ status' = [status EXCEPT ![t] =
        [c \in Clients |-> IF status[t][c] \in ActiveStatus THEN "canceled"
                           ELSE status[t][c]]]
  /\ RemoveTask(t)
  /\ Leave(t)
  /\ wake' = TRUE
  /\ UNCHANGED <<store, access, results, done, links, issued, calls, frames,
                 sched>>

----------------------------------------------------------------------------
(* expireTask: the decision is recorded in memory before the store is asked *)
(* to persist it, and transition is held until schedule() has returned.    *)

ExpireBegin(t) ==
  /\ "expire" \in Env
  /\ t \in timer /\ InHub(t) /\ Unlocked(t)
  /\ timer' = timer \ {t}
  /\ runtime' = [runtime EXCEPT ![t] = "pending"]
  /\ Enter(t, [Free EXCEPT !.op = "expire"])
  /\ UNCHANGED <<store, access, results, status, done, work, links, issued,
                 calls, frames, wake, sched>>

ExpireStore(t) ==
  /\ tx[t].op = "expire"
  /\ terminateTask(t, "failed")
  /\ Enter(t, [Free EXCEPT !.op = "expiring"])
  /\ UNCHANGED <<access, results, runtime, status, done, work, links, issued,
                 timer, calls, frames, wake, sched>>

(* scheduleExpiryRetry arms the timer again unless the Hub is closing. *)
scheduleExpiryRetry_forgotten(t) == timer
scheduleExpiryRetry(t) == IF closing THEN timer ELSE timer \cup {t}
ExpireStoreFails(t) ==
  /\ tx[t].op = "expire"
  /\ CanTerminate(t, "failed") => "store" \in Env
  /\ timer' = scheduleExpiryRetry(t)
  /\ Leave(t)
  /\ UNCHANGED <<store, access, results, runtime, status, done, work, links,
                 issued, calls, frames, wake, sched>>

ExpireEnd(t) ==
  /\ tx[t].op = "expiring"
  /\ RemoveTask(t)
  /\ Enter(t, [Free EXCEPT !.op = "expired"])
  /\ UNCHANGED <<store, access, results, status, done, links, issued, calls,
                 frames, wake, sched>>

(* schedule() needs scheduleMu; only then is transition released. *)
ExpireSchedule(t) ==
  /\ tx[t].op = "expired" /\ ~passing
  /\ Leave(t)
  /\ wake' = TRUE
  /\ UNCHANGED <<store, access, results, runtime, status, done, work, links,
                 issued, timer, calls, frames, sched>>

----------------------------------------------------------------------------
(* BeginShutdown hides every peer, closes every connection and stops the    *)
(* timers, except those that have fired already.                           *)

BeginShutdown ==
  /\ "shutdown" \in Env /\ ~closing
  /\ closing' = TRUE
  /\ peers' = [c \in Clients |-> None]
  /\ timer' \in IF "expire" \in Env THEN SUBSET timer ELSE {{}}
  /\ closed' = closed \cup {k \in Conns : phase[k] \notin {"off", "gone"}}
  /\ UNCHANGED <<store, disabled, revoked, drained, taskIDs, shutdownErr, results,
                 runtime, status, done, work, phase, previous, issued, tx, calls, frames, wake,
                 sched>>

(* No connection and no request is being served any more. *)
HandlersEnded ==
  /\ \A k \in Conns : phase[k] \in {"off", "gone"}
  /\ \A t \in Tasks : runtime[t] # "created"
  /\ disabled = revoked
  /\ requeuing = {} /\ finishing = {}

(* http.Server.Shutdown, waitTelegram and connectionWG.Wait have returned. *)
(* Shutdown lists the tasks left in memory and tries each of them once.    *)
WaitForHandlers ==
  /\ closing /\ ~drained /\ shutdownErr = {} /\ HandlersEnded
  /\ drained' = TRUE
  /\ taskIDs' = {t \in Tasks : InHub(t)}
  /\ UNCHANGED <<store, disabled, revoked, closing, shutdownErr, results, runtime,
                 status, done, work, links, issued, tx, timer, calls, frames, wake,
                 sched>>

(* A task whose expiry was decided is not cancelled: its failure, which no  *)
(* timer will write any more, is written instead.                          *)
FlushDue_never(t) == FALSE
FlushDue(t) == runtime[t] = "pending" /\ Unlocked(t)

FlushBegin(t) ==
  /\ t \in taskIDs /\ FlushDue(t)
  /\ terminateTask(t, "failed")
  /\ Enter(t, [Free EXCEPT !.op = "flush"])
  /\ taskIDs' = taskIDs \ {t}
  /\ UNCHANGED <<gates, shutdownErr, results, runtime, status, done, work, links,
                 issued, timer, calls, frames, wake, sched>>

Busy(t) == InHub(t) /\ ~Unlocked(t)
Shutting ==
  UNCHANGED <<store, gates, results, runtime, status, done, work, links, issued,
              tx, timer, calls, frames, wake, sched>>

(* The store refuses the write, or another section keeps the transition    *)
(* lock for five seconds: the error is kept and the task left as it is.    *)
ShutdownRefused(t) ==
  /\ t \in taskIDs
  /\ \/ Busy(t)
     \/ CancelAllowed(t) /\ (CanTerminate(t, "canceled") => "store" \in Env)
     \/ FlushDue(t) /\ (CanTerminate(t, "failed") => "store" \in Env)
  /\ taskIDs' = taskIDs \ {t}
  /\ shutdownErr' = shutdownErr \cup {t}
  /\ Shutting

(* errTaskNotActive of both calls: the task has ended meanwhile.            *)
ShutdownSkips(t) ==
  /\ t \in taskIDs
  /\ ~Busy(t) /\ ~CancelAllowed(t) /\ ~FlushDue(t)
  /\ taskIDs' = taskIDs \ {t}
  /\ UNCHANGED shutdownErr /\ Shutting

(* The 10 seconds main.go gives Shutdown are over, in one of the waits or   *)
(* between two tasks: what was not tried never will be.                    *)
ShutdownDeadline ==
  /\ "deadline" \in Env
  /\ closing /\ (IF drained THEN taskIDs # {} ELSE shutdownErr = {})
  /\ shutdownErr' = shutdownErr \cup (IF drained THEN taskIDs ELSE Tasks)
  /\ taskIDs' = {}
  /\ Shutting

FlushEnd(t) ==
  /\ tx[t].op = "flush"
  /\ RemoveTask(t)
  /\ Leave(t)
  /\ wake' = TRUE
  /\ UNCHANGED <<store, access, results, status, done, links, issued, calls,
                 frames, sched>>

----------------------------------------------------------------------------
(* A step of the Hub's own goroutines, and one the environment starts. *)

TaskStep(t) ==
  \/ RequeueEnd(t) \/ AckEnd(t) \/ FinishEnd(t) \/ CancelEnd(t)
  \/ ExpireStore(t) \/ ExpireEnd(t) \/ ExpireSchedule(t) \/ FlushEnd(t)
ShutdownStep ==
  \/ WaitForHandlers \/ ShutdownDeadline
  \/ \E t \in Tasks : ShutdownRefused(t) \/ ShutdownSkips(t)
ConnStep(k) == Registered(k) \/ Unregistered(k)
CallStep ==
  \/ \E q \in requeuing : RequeueDropped(q) \/ RequeueBegin(q)
  \/ \E f \in finishing : FinishDropped(f) \/ FinishBegin(f)
MessageStep ==
  \/ \E f \in offered : AckDropped(f) \/ AckBegin(f)
  \/ \E f \in working : \/ saveResult(f) \/ UnitReportDropped(f)
                        \/ completeWork(f) \/ failWork(f)
PassStep ==
  \/ PassBegin \/ PassEnd
  \/ \E t \in Tasks, c \in Clients, p \in Proxies : Reserve(t, c, p)
  \/ \E v \in reserved : \/ SendSkipped(v) \/ SendBegin(v)
                         \/ SendEnd(v) \/ SendFails(v)

Next ==
  \/ \E t \in Tasks : \/ startTask(t) \/ AddTask(t) \/ CancelBegin(t)
                      \/ ExpireBegin(t) \/ ExpireStoreFails(t) \/ FlushBegin(t)
                      \/ TaskStep(t)
  \/ \E k \in Conns : Register(k) \/ Unregister(k) \/ ConnStep(k)
  \/ \E c \in Clients : DisableClient(c) \/ RevokeClient(c)
  \/ CallStep \/ MessageStep \/ PassStep \/ BeginShutdown \/ ShutdownStep

Spec == Init /\ [][Next]_vars

(* What Shutdown does with a task it lists: one try, whatever comes of it.  *)
ShutdownTry(t) ==
  /\ t \in taskIDs
  /\ CancelBegin(t) \/ FlushBegin(t) \/ ShutdownRefused(t) \/ ShutdownSkips(t)

(* Every goroutine that can go on does, Go's mutexes hand over to waiters,  *)
(* a Client reconnects and answers what it was sent, and a started HTTP     *)
(* request ends.  An armed timer fires, and a store that fails at times lets *)
(* through a write that is repeated for ever: the expiry of a task, while   *)
(* the Hub runs.  What Shutdown writes is tried once and may fail.  Nothing *)
(* obliges the other environment events to happen.                         *)
Fairness ==
  /\ \A t \in Tasks :
       /\ WF_vars(ExpireBegin(t)) /\ SF_vars(ExpireStore(t))
       /\ WF_vars(TaskStep(t)) /\ WF_vars(AddTask(t))
       /\ WF_vars(ShutdownTry(t))
  /\ \A k \in Conns :
       /\ WF_vars(Register(k)) /\ WF_vars(ConnStep(k))
       /\ WF_vars(k \in closed /\ Unregister(k))
  /\ \A c \in Clients : WF_vars(RevokeClient(c))
  /\ WF_vars(CallStep) /\ WF_vars(WaitForHandlers)
  /\ WF_vars(\E f \in offered : AckDropped(f) \/ AckBegin(f))
  /\ WF_vars(\E f \in working : UnitReportDropped(f) \/ completeWork(f))
  /\ WF_vars(PassStep)

FairSpec == Spec /\ Fairness

----------------------------------------------------------------------------
(* Properties. *)

(* A unit of work is leased at most once per Client and once per proxy, and *)
(* the three places that record a lease (the target, h.clientWork and       *)
(* h.proxyWork) never disagree, whichever path released it last.           *)
LeasesExclusive ==
  /\ clientWork = leases /\ proxyWork = leases
  /\ \A r, s \in leases : r.client = s.client \/ r.proxy = s.proxy => r = s

(* A target holds a lease exactly as its status says: "assigned" always has *)
(* one that nobody ACKed, one that was ACKed means "running", and a target  *)
(* that is queued, finished or no longer in memory has none.               *)
StatusMatchesLease ==
  /\ started \subseteq leases
  /\ \A r \in leases :
       /\ InHub(r.task)
       /\ status[r.task][r.client] \in {"assigned", "running"}
       /\ r \in started => status[r.task][r.client] = "running"
  /\ \A t \in Tasks, c \in Clients :
       InHub(t) /\ status[t][c] = "assigned" => ActiveWork(t, c) # {}

(* What SQLite stores for a target of the Hub's memory: "assigned" is only  *)
(* known to memory.                                                        *)
Persisted(s) == IF s = "assigned" THEN "queued" ELSE s

(* Whenever nobody is inside a transition of a task, memory and SQLite tell *)
(* the same story of it: a task in memory is active in SQLite with equal    *)
(* targets, and one removed from memory is terminal in SQLite.             *)
MemoryMatchesStore ==
  \A t \in Tasks : Unlocked(t) =>
    /\ InHub(t) => /\ storeTaskActive(t)
                   /\ \A c \in Targets[t] :
                        dbTarget[t][c] = Persisted(status[t][c])
    /\ runtime[t] = "gone" => dbTask[t] \in TaskTerminal

(* No target is stored as completed before its Client has worked through    *)
(* every proxy of the task, whatever was requeued or retried on the way.   *)
CompletedMeansTested ==
  \A t \in Tasks : \A c \in Targets[t] :
    dbTarget[t][c] = "completed" => done[t][c] = Plan[t]

(* The scheduler never goes to sleep on work it could hand out: with nobody *)
(* left who will call schedule(), no idle connected Client has a proxy of   *)
(* an active task that is free to test.                                    *)
ScheduleExpected ==
  \/ wake \/ passing \/ requeuing # {} \/ finishing # {}
  \/ \E t \in Tasks : ~Unlocked(t)
  \/ \E k \in Conns : phase[k] \in {"registering", "handling", "leaving"}
NoMissedWork ==
  ~ScheduleExpected =>
    \A t \in Tasks, c \in Clients, p \in Proxies :
      Eligible(t, c, p) => peers[c] \in closed

(* A revoked Client is never online again, and its share of every active    *)
(* task is finished or somebody is about to finish it (store failures       *)
(* aside), even when the revocation meets a creation, a requeue or a        *)
(* reservation half way.                                                   *)
RevokedSettled ==
  \A c \in revoked :
    /\ peers[c] = None
    /\ \A t \in Tasks :
         Active(t) /\ status[t][c] \in ActiveStatus =>
           \/ [task |-> t, client |-> c, conn |-> None, to |-> "failed"]
                \in finishing
           \/ tx[t].op = "finish" /\ tx[t].client = c

(* Once the 10 minutes are over the task is never worked on again and the   *)
(* only state it can end in is failed, even if a cancellation or Shutdown   *)
(* arrives while the store is failing.                                     *)
ExpiredOnlyFails ==
  [][\A t \in Tasks : runtime[t] = "pending" =>
       /\ TaskWork(t)' \subseteq TaskWork(t)
       /\ dbTask'[t] \in {dbTask[t], "failed"}
       /\ \A c \in Clients : dbTarget'[t][c] \in {dbTarget[t][c], "failed"}]_vars

(* A measurement is stored only while its target is running in SQLite; a    *)
(* cancellation, expiry or requeue that committed first shuts it out.      *)
ResultsOnlyWhileRunning ==
  [][\A x \in results' \ results :
       dbTask[x[1]] = "running" /\ dbTarget[x[1]][x[2]] = "running"]_vars

(* Every task ends, by its Clients, its expiry or a shutdown, whatever the  *)
(* store, the connections and the goroutines still inside a handler do: no  *)
(* interleaving disarms the expiry of a task that is left (hub_expiry.go).  *)
(* Excepted is a task for which Shutdown reports an error: its row stays    *)
(* active until the next start ends it (StoreLife).                        *)
EveryTaskEnds ==
  \A t \in Tasks :
    runtime[t] = "created" ~> dbTask[t] \in TaskTerminal \/ t \in shutdownErr

(* After BeginShutdown no task is left behind silently: its row becomes     *)
(* terminal, cancelled by Shutdown or failed if its expiry had been decided *)
(* before, or Shutdown returns an error for it (unless the scheduler and an *)
(* expiry already block each other, see below).                            *)
ShutdownSettles ==
  closing ~> \/ \A t \in Tasks :
                   dbTask[t] \in TaskTerminal \cup {"none"} \/ t \in shutdownErr
             \/ \E v \in reserved : tx[v.ref.task].op = "expired"

----------------------------------------------------------------------------
(* What the repository says of the Hub and the code does not keep. *)

(* hub_results.go:107-109 keeps the lock order scheduleMu -> transition: no *)
(* goroutine may wait for scheduleMu with the transition of a task whose    *)
(* reservation the scheduler, holding scheduleMu, is waiting to send.      *)
SchedulerLockOrder ==
  \A v \in reserved : tx[v.ref.task].op # "expired"

(* hub_connections.go:122 sends assigned and running targets back to queued *)
(* so that the reconnecting Client can take the task again: a queued target *)
(* has at least one proxy left to hand out.                                *)
QueuedHasWorkLeft ==
  \A t \in Tasks, c \in Clients :
    Active(t) /\ status[t][c] = "queued" => done[t][c] # Plan[t]
=============================================================================
