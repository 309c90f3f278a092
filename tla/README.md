# Verification of smalux-speedtest

A server hands the proxies of a speed-test task to Clients over WebSocket, one
proxy at a time per Client and never one proxy to two Clients at once, and keeps
the state of every task in SQLite.  Tasks come from a web page or from a
Telegram bot that lives in the same process.  This directory holds TLA+ models of that
program, TLC runs that check them on small instances, and theorems about them
whose proofs the TLA+ proof system (`tlapm`) checks.

    tlc -workers 2 -config HubShared.cfg MCHub     one run
    tlapm HubProofs.tla                             one module of proofs

Line numbers below are those of `src/internal/...`.

## 1. The system

| Part (sources) | State | Operations | Hard behaviour |
|---|---|---|---|
| **Hub scheduler** `serverapp/hub.go, hub_dispatch.go, hub_tasks.go, hub_results.go` | `tasks` (targets, work, lease per target), `clientWork`, `proxyWork`, `taskOrder`, `peers` under `mu`; `scheduleMu`; one `transition` mutex per task | `AddTask`, `schedule` (reserve, send, roll back), ACK, result, complete, fail, finish | every message has a goroutine; SQLite is written with `transition` held but `mu` free; leases are recorded in three places |
| **Hub ending** `hub_cancel.go, hub_expiry.go, hub_shutdown.go` | `terminalPending`, `expires` timer, `closing` | `cancelTask`, `expireTask` and its retry, `flushPendingExpiry`, `BeginShutdown`, `Shutdown` | an expiry is decided before it is stored; cancel, expiry, shutdown and messages race |
| **Hub connections** `hub.go, hub_connections.go` | `peers`, `revokedClients`, `credentialMu` | register (and replace), unregister, requeue, revoke, rotate the token | a replaced connection is still inside a handler; revocation meets creation |
| **Task service** `task_service.go, tasks.go` | none of its own | `startTask` | commits the rows before the Hub knows the task |
| **Task tables** `store/tasks.go, task_transitions.go, task_termination.go` | `tasks.status`, `task_targets.status` | `CreateTask`, `StartTarget`, `RequeueTarget`, `FinishTarget`, `CancelTask`, `FailTask` | late and repeated calls; the parent's status follows from its targets |
| **Recovery** `store/migration.go` | the same rows | two UPDATEs at start | crash at any time, also between the two |
| **Result limits** `hub_result_validation.go, store/results.go` | counters and keys per target | validate, save, record | counted next to a write that may fail |
| **Live events and who watches them** `hub_events.go, hub_progress.go`, `web/task.js`, `telegram_tasks.go` | subscribers with channels of 32; what the page shows; the Bot's wait | subscribe, publish, read, poll, report | a full channel drops the event; an answer and an event overtake each other |
| **Accounts** `auth.go, sessions.go, account.go, admin_users.go, store/admin_*.go` | sessions in memory, accounts and invitations in SQLite | login, logout, password change, disable, delete, invitation, registration | a change of password or a removal between two steps of another handler; two uses of one invitation |
| **Bot settings** `telegram_settings.go, telegram.go, store/telegram_config.go` | the row of the Bot, the pending challenge, `App.telegram` | begin, confirm, enable, disable, delete, start of the server | no lock from one step of a handler to the next; a stop that takes too long |
| **Client** `clientapp/` | current connection, queue of 32 assignments, current job, cancelled tasks | connect, heartbeat, read, work, cancel | cancellation before start, reconnection while working, a reader that waits for its worker |
| **Telegram bot** `telegrambot/`, `serverapp/telegram*.go` | offset, active task per user, task and text slots, dialogue sessions, delivery queue per chat | poll, commands, submit, wait, cancel, deliver, stop | offset saved before the update is handled; one drainer per queue; goroutines that outlive the polling loop |
| **Pure parts** `importer, subscription, model, wire, reportpng, logsafe` | none | parsing, normalisation, drawing | none that a model would reach |

How they interact: an HTTP request or the bot calls the task service, which
inserts the rows and calls `AddTask`; the Hub sends `task.assign` to a Client;
the Client answers `task.ack`, results, and `task.complete` or `task.failed`;
each answer becomes a transaction on the task tables and an event for the
subscribers.  `PROJECT.json` lists every component with its status and every
hazard with the line where it bites.

What makes each part correct: the Hub keeps leases exclusive, loses no work and
tells the same story as SQLite; a task that has ended stays ended the same way;
a task always ends; after a crash nothing looks as if it still ran.  The Client
measures for one connection at a time and honours cancellations of what is
queued; the server never waits for it for ever, one stuck reader aside
(section 4).  The bot handles no update twice, keeps one task per user and sends
the messages of a chat in order.  Who watches a task learns how it ended, and
nothing that is not so.  A session is gone when its account loses the right to
it.  The settings page leaves row and bot in agreement, unless two of its
handlers overlap, or it is told to enable while a bot runs: it then keeps that
bot, whichever it is and even if it is about to stop (section 4).

## 2. Modules

| Module | Models | Composition |
|---|---|---|
| `TaskStore` | the transactions on `tasks` and `task_targets`; `StoreSpec` lets them come in any order | the abstract specification of the Hub's persistence |
| `StoreLife` | the rows through crashes and restarts | EXTENDS `TaskStore` |
| `Hub` | the scheduler, its connections, ending and shutdown | EXTENDS `TaskStore`; implements `StoreSpec` |
| `ClientWorker` | the Client over several connections, and of the server what it sees | |
| `TaskFeed` | one task as the task page and the Bot's wait see it: events, reads, the quota of results | EXTENDS `StoreLife` |
| `Accounts` | administrators, invitations, sessions and their HTTP handlers | |
| `BotUpdates` | polling, the stored offset of each bot, start, stop and crash | |
| `BotSettings` | the settings page, the stored configuration, the start of the server | EXTENDS `BotUpdates`; implements its `Spec` |
| `ChatFifo` | what the bot's outbound queue promises | abstract |
| `Delivery` | the outbound queue and its drainers | implements `ChatFifo` |
| `BotTasks` | commands, submissions, cancellations and the end of `Run` | EXTENDS `Delivery` |
| `MCFeed`, `MCHub`, `MCAccounts`, `MCClient`, `MCSettings`, `MCBot` | instances for TLC | |
| `TaskStoreProofs`, `StoreLifeProofs`, `HubProofs`, `AccountsProofs`, `ClientWorkerProofs`, `DeliveryProofs`, `BotSettingsProofs`, `TaskFeedProofs` | theorems | |

A definition whose name has a suffix after an underscore (`MayReserve_once_created`)
is a faulty variant of the definition before the underscore.  No specification
uses it; put in its place, it makes the property that `PROJECT.json` names fail.

### Hub: how state and steps correspond to the code

`runtime[t]` is the life of a `runtimeTask`: `new` (no row), `created` (row
inserted, `AddTask` not yet called), `live`, `pending` (`terminalPending`), and
`gone` (deleted from `h.tasks`).  `status`, `done` are `targets` and
`work[c].completed`; `leases` is the set of all `work[c].active` references and
`started` those in state `running`; `clientWork` and `proxyWork` are the values
of the two maps of that name, so that a model in which they could disagree with
`leases` is checked, not assumed away.  `peers`, `revoked`, `closing`, `timer`
are the fields of the same names; `disabled` is `clients.enabled = 0`.

*Atomicity.*  The code holds `task.transition` over a SQLite write but takes
`mu` only before and after it.  A handler is therefore two steps, `XBegin`
(check and commit) and `XEnd` (update memory, unlock); `tx[t]` records which
handler is in between.  Everything that uses `mu` alone (`Reserve`, `Register`,
`Unregister`, the first half of `RevokeClient`, `BeginShutdown`) may run in
between.  `saveResult` is one step: it holds `transition` throughout, and the
steps that use `mu` alone change nothing its transaction reads.

*Goroutines.*  `phase[k]` says where the goroutine of a connection is.  A
goroutine that has still to call `requeueTarget` or `finishTarget` is an element
of `requeuing` or `finishing`; one that will call `schedule()` is the flag
`wake`; the pass that holds `scheduleMu` is `passing`, `excluded`, `reserved`.

*Abstractions.*  Which of several eligible units a pass takes is left open; a
proxy stands for the HMAC of its outbound (`proxyWorkKey`); progress, events,
ping, metadata and the best-effort cancel frame change no state the properties
read.  A goroutine about to call `schedule()` may go on before the pass runs,
which only adds behaviours.  `BeginShutdown` is one step although it takes
`connectionMu` and `mu` in turn: in the gap nothing can register or re-arm a
timer.  A rotated token closes the connection, which for the Hub is a drop.

*Shutdown.*  `Shutdown` waits for the handlers (`WaitForHandlers`), lists the
tasks left in memory (`taskIDs`) and tries each of them once: it cancels the task
(`CancelBegin`) or, if its expiry was decided, writes that failure
(`FlushBegin`).  If the store refuses, or another section keeps the transition
for 5 seconds, it keeps the error (`ShutdownRefused`) and leaves the task as it
is, with its row active and its timer stopped; a task that has ended meanwhile is
skipped (`ShutdownSkips`).  The 10 seconds of server/main.go may be over at any
moment (`ShutdownDeadline`): what was not tried by then never is.  `shutdownErr`
are the tasks it returns an error for.  Their rows are ended by the next start
(`StoreLife`).

*Bounds.*  `Conns` (each is one session), `MaxWork` (units handed to one Client
in a behaviour) and `Env`, the environment events that may happen at all:
`store` (a transaction fails), `send` (a write fails), `drop` (a connection
drops), `fail` (a unit fails), `revoke`, `cancel`, `expire`, `shutdown`,
`deadline` (the time of `Shutdown` is over).
Because connections and work run out, the Hub runs do not check deadlock; that
work does not get stuck is the business of `NoMissedWork`, `EveryTaskEnds` and
`ShutdownSettles`.

*Fairness* (`FairSpec`).  A goroutine that can go on does so, Go's mutexes hand
over to waiters, a Client reconnects while it has connections left and answers
what it was sent, and a request that inserted rows reaches `AddTask`.  The expiry
timer of a task fires (`WF(ExpireBegin)`: it is 10 minutes of the task, which
nothing renews), and a store that fails now and then lets the repeated write
through at last (`SF(ExpireStore)`: while the Hub runs, `expireTask` is retried
for ever, after 5 seconds first and then twice as long each time up to a minute,
hub_expiry.go:121).  `Shutdown` goes on to its next task (`WF(ShutdownTry)`),
which may as well be a write that is refused: it is not repeated, and nothing
makes it succeed.  No other environment event is ever forced.

### ClientWorker

`reader` is the goroutine of `Run` and `connect`: it dials, reads frames, waits
with an assignment in hand (`held`) when the queue is full, and winds down.
Worker, queue, current task, cancelled tasks, heartbeat and error channel are
kept per connection, since goroutines of the previous connection may still run
while the next one is in use; `ended` are the connections whose context is
cancelled.  The server is what a Client sees of the Hub: one unit at a time,
released by a report, by the end of its task or by a lost connection, and a
`task.cancel` some time after a task has ended.  A connection in `broken` lost
its network, which neither side notices before a write of its own fails.

*Fairness.*  The reader, each worker and each heartbeat go on when they can, so
`Execute` returns at last; the server notices a socket that the Client has
closed, never by itself one that is merely broken.  That a half-open connection
is given up follows from the heartbeat and is not assumed.

### TaskFeed

The rows are those of `StoreLife`.  A transaction is committed before its event
is published: `held` are events the code publishes before it lets go of the
task's lock (hub_results.go, hub_expiry.go), `late` those it publishes after
(`finishTarget`, `cancelTask`), each group in its own order and groups in any
order.  `feed` is the channel of the subscriber with what travels to him;
`publish` drops an event when it is full.  `rows` is the table of one proxy and
one Client, `recorded` the keys counted against `resultLimitPerProxy`, `unsure`
counts writes that were stored although they reported an error.

`page` is the state of task.js: a request goes through `asked`, `read` and
`arriving`, since `getTask` reads the task and its results one after the other
and the answer travels apart from the events; `dirty` and `forced` are the flags
of `loadTask`, `live` the last status an event brought, `open` the EventSource.
`wait` is the Bot's wait (telegram_tasks.go): it reads, waits for an event or two
seconds, pauses after an error, and at the end counts the results and then reads
them, no more than `MaxRows` (72, reportpng/render.go:18); which ones come first
in their order by name is left open.  The followed task has no results but those
of `Reporter` for one proxy, so that `rows` are all there are to count.  `publish`
never blocks and watchers do not see each other, so one watches at a time.

*Fairness.*  The page's poll of 12 seconds and the Bot's tick of 2 seconds run,
and a read that is tried for ever succeeds at last.  A page that is hidden does
not poll (task.js:289-295); what the runs say is said of one that is shown again
and again.  No event is assumed to arrive, nor the task to end.

### Accounts

A handler is a sequence of steps, each one SQL transaction (the store has a
single connection) or one critical section of the session table; `req[r]` says
where it is, whose session it runs under and which password it has verified.
Login reads the hash, compares it without any lock and then adds the session
(`found` is that gap); a password change compares, replaces the hash only if it
is still the one compared, drops the account's sessions and signs a new one;
disabling and deleting change the row, then drop the sessions; registration uses
the invitation and inserts the account in one transaction.  `requireAdmin` looks
up the session and then the account (`Admit`).  A restart forgets all sessions.

### BotUpdates and BotSettings

Telegram hands out updates 1, 2, ... and forgets those below the offset of a
poll.  Each start of a bot is a poller with its own offset, batch and place in
`Run`.  `saved` is the offset of the followed bot in the settings table,
`handled` counts the calls of `handleUpdate`, `cut` the crashes and stops.

In `BotSettings` a handler has a place (`request[r].at`) and a purpose; between
two of its steps any other handler may take some.  `stopTelegramRuntime` is
`CallStop`, then `StopReturns` or, after 10 seconds, `StopTimesOut`; the handler
that could not store the switch stops the bot again without a deadline
(`undo`).  An enable that finds a bot running (`CheckRunning`) goes on as `keep`
and only stores the switch.  `EndProcess` kills handlers and bots at any moment.
`Boot` is `initializeTelegram`, at the first start and after each end: a token
given at the start (`AtStart`) goes before the stored row and leaves it alone,
else the row decides.  A start that fails with such a token, or cannot read the
row, ends the process again, which is the step not taken.

*Fairness*: a handler that can go on does, a poller too, and a store that fails
now and then lets a save through at last that is tried again and again
(bot.go:163).  A load is tried once: without it `Run` ends.  Nobody is assumed to
press a button.

### Delivery and BotTasks

`queues` and `keys` are `b.deliveryQueues` (values and keys apart, so that a key
without a drainer can be seen), `looking[c]` and `sending[c]` count the drainers
of a chat rather than assume one, `deliveryWG` is the WaitGroup.  `Enter` is the
`Add` of `enqueueDelivery`, `Enqueue` its critical section.  In `BotTasks` the
polling goroutine handles one command per step; `goroutine[n]` is the goroutine
that command `n` started, `active`, `slots`, `textSlots` are the fields of `Bot`,
and `wg` is the set of live goroutines.  A user is his private chat.  A task
ends on the server whenever it likes.  All messages that a goroutine sends in a
row without deciding anything in between are one message.  Once the context of
`Run` is cancelled the loop handles one command more at most, since neither the
offset nor a poll succeeds after that.
*Fairness*: as long as some goroutine of the bot can run, one does, and API calls
return (the HTTP client has a timeout, api.go:87).  That is less than the
scheduler gives: which goroutine runs is left open.

## 3. Runs

| Run | Instance | Question | States |
|---|---|---|---|
| `task_feed` | 1 task, 2 Clients, 2 result keys with a limit of 1, a picture of 1 row, queue of 1, 1 unsure write; crashes, restarts cut short; `Fair`; deadlock checked | rows agree through crashes and a restart ends the task; page and wait learn the stored end and no other; the Bot's report counts all results and has as many as fit; the page never moves back; the quota holds | 124 k |
| `hub_shared` | 1 task, 2 Clients, 2 proxies; sends fail, connections drop, Clients are revoked | leases exclusive and never leaked, nobody sleeps on work, a revoked Client's share is settled | 1.0 M |
| `hub_ending` | 1 task, 1 Client with 2 connections, 2 proxies; store, connections and units fail, cancel, expiry and shutdown | status, lease and row in step; completed means tested; an expired task can only fail; results only while running | 1.0 M |
| `hub_liveness` | 1 task, 1 Client with 2 connections; failing store, expiry, shutdown and its deadline, `FairSpec` | every task ends, and shutdown settles every task, or `Shutdown` returns an error for it | 167 k |
| `accounts` | 2 handlers at a time, 3 accounts, 1 invitation, 2 tokens, 2 changes of each password; store fails, sessions expire, restarts | no session outlives its revocation; one change per verified password; one account per invitation | 2.3 M |
| `client_cancel` | 3 tasks, queue of 1, 1 connection; it breaks, the Client stops, `Execute` times out | cancels reach what is queued and nothing else | 665 k |
| `client_progress` | 3 tasks, 2 connections, queue of 1, 3 units, `Fairness` | one measurement at a time; a lost connection is replaced and the server does not wait for ever, unless the reader is stuck on a full queue | 189 k |
| `bot_settings` | 2 handlers, 2 bots, 2 starts, 2 updates; store, stop, crash, stops that time out, starts with a token; `Fair` | one bot at a time; no update twice, one lost per cut, none lost otherwise; a handler alone leaves row and bot in agreement or, enabling, the running bot as it was; every handler is answered | 140 k |
| `bot_tasks` | 1 user, 4 commands, 2 task slots, 1 text slot, `FairSpec` | one task per user, one cancel per task, text slots exact, messages in order, `Run` returns after the last message | 461 k |
| `hub_lock_order`, `hub_stranded`, `client_cancel_gap` | small | section 4 | |

Why these bounds are enough.  Contention for a proxy needs two Clients
(`hub_shared`); the races of replacement need a connection that is replaced and
its successor (`hub_ending`); `MaxWork = 2` lets a
unit be handed out again after it was lost or failed.  Proxies are alike, and so
are two Clients taken with their connections (`hub_shared`) and two connections
of one Client (`hub_ending`): both runs use that symmetry.  Two tasks in the Hub add
the order in which units are taken, which the model leaves open, and contention
for a proxy, which two Clients of one task have as well.  For the Client, three
tasks are the one being measured, the one queued and the one the reader holds,
with a queue of 1 in place of 32: `client_progress` reaches the stuck reader that
its liveness properties except (`Stuck`), and they fail there without the
exception.  MCClient cuts what multiplies its states otherwise, steps of the
server only: tasks are named in the order of their units, a task ends while its
unit is leased on the first connection, with no other cancel waiting to be sent,
the third unit follows two whose tasks have ended, and of the units the second
connection is sent, one that follows another is of the first task again.  Two
updates are a batch that fails in the middle and
the one that brings the rest; two starts are a bot that is replaced and its
successor.  MCSettings keeps three things apart that multiply the states and do
not meet: updates, a second handler, a second bot; a state has one of them at
most.  In `task_feed` a second Client is what makes the end of a target differ
from the end of the task; while a page watches, MCFeed leaves out the second
result key, unsure writes, a Client that cancels by itself and failures of the
first Client, all of which happen without a page.  Two results and a picture of
one row are a report that cannot show them all.  A queue of one event is
enough to be full, and what waits to be published may come in any order the
locks allow.  In `accounts` two handlers are each race of this code, an account
acting on another needs two, and the third is the one that registers.  In
`bot_tasks` four commands are what the worst case
takes: submit, cancel, submit while the cancel is still on its way, cancel; one
text slot is full as soon as one text is queued.  A second user would share the
slots with the first and nothing else.  Each run names the environment events it
needs.  Connections, work, commands and updates are bounded and run out, so
that deadlock is checked by `task_feed` alone; elsewhere it is the business of
`NoMissedWork` and of the liveness properties.

## 4. Where the code and the repository disagree

Shown by a run, with a counterexample of the code's own steps:

* `hub_lock_order`: `expireTask` calls `schedule()` with `transition` held
  (hub_expiry.go:24, 62) while a pass that reserved a unit of the same task waits
  for `transition` with `scheduleMu` held (hub_dispatch.go:183).  Both wait for
  ever.  hub_results.go:107-109 states the lock order that forbids it.
  `ShutdownSettles` excepts it: a scheduler and an expiry that already block each
  other never let `Shutdown` finish.
* `hub_stranded`: after the last `task.complete`, `completeWork` releases
  `transition` before it finishes the target (hub_tasks.go:151-154).  A
  reconnection in the gap puts the target back to `queued` with no proxy left.
  hub_connections.go:122 says the Client can take the task again.
* `client_cancel_gap`: between `consumeCanceled` and `setCurrent` a `task.cancel`
  finds neither a queued nor a current unit to stop, and the unit is measured to
  its end.  connection.go:63-64 says the cancel stops it.

Met while modelling, without a run of their own:

* `failWork` frees the Client slot before the target is finished
  (hub_tasks.go:173-180); a pass in the gap hands the Client a unit of the target
  that is about to fail.  hub_dispatch.go:171-173 says no Client receives a
  second unit.
* A Client whose queue of 32 is full while its worker has already left keeps its
  reader in the send of client.go:173-177.  Worker and heartbeat are gone, so
  that nothing closes the socket or redials, against worker.go:14-16 and 88-89.
  It takes 34 units of which the worker has answered none: the Hub leases the
  next one as soon as a task is cancelled, whether or not the Client has noticed.
  If the network is gone as well the Hub learns nothing either, and the lease of
  the last unit stays.  `LostIsReplaced` and `ServerNeverWaits` except such a
  reader, and nothing else (`Stuck`).
* The ACK of a unit is written without a deadline and under `writeMu`
  (worker.go:34), the heartbeat with one (worker.go:88 and after): a socket that
  takes no bytes holds both.
* bot.go:116-117 says the offset advances per batch; the code saves it per update
  (bot.go:144-161), which `OneLostPerCut` relies on.
* A button waits on the polling goroutine until its edit has been sent
  (wizard.go:130, 149, 203, 241), so that a slow chat does hold up `getUpdates`,
  against delivery_queue.go:21-23.  `BotTasks` has the step (`Press`).
* The task page: a status event calls `loadTask` without `force`, so that a
  request which has read the tables before a cancellation or an expiry was
  committed is not repeated.  Its answer is merged, the stream closes and polling
  stops: the page shows a task that has ended with targets that still run, and
  without results whose events were lost.  task.js:282 says the complete snapshot
  is fetched again so that an old request cannot fall behind the event.
  `EndsAreTrue` holds the page's status to the tables, its results only to a
  subset of them.
* Settings: an enable that finds a bot running stores the switch and looks no
  further (telegram_settings.go:225-231).  After a disable that timed out this
  leaves an enabled row over a bot that has already been told to stop, and after
  a start with a token of its own the bot of that token under the row of another;
  no second handler is needed for either.  `SoleRequestSettles` excepts these two
  (`LeftAsFound`).  With two handlers, a bind next to an enable can
  leave the old bot under the new row; an enable next to a removal, a bot without
  a row; an enable that reads "running" while a disable stops the bot, an enabled
  row with nothing running.  README_EN.md:90 says the page does all this without a
  restart.  `SoleRequestSettles` therefore speaks of a handler that no other runs
  next to.
* `Shutdown` tries each task once.  A store that refuses leaves the row active and
  the timer of a decided expiry stopped, against hub_shutdown.go:95-96, until the
  next start ends it as failed.  `EveryTaskEnds` and `ShutdownSettles` except the
  tasks `Shutdown` returns an error for.
* A confirmed challenge is looked up by the trimmed identifier and deleted by the
  untrimmed one (telegram_settings.go), so that it can survive its use.
* A login whose password was compared before a change, a disabling or a deletion
  leaves a session afterwards, against account.go:18-22 and admin_auth.go:38; the
  next request of a disabled or deleted account ends it (`Admit`), that of a
  changed password stays.  `NoSessionOutlivesRevocation` speaks of the sessions
  there were.
* The repository's README.md:45 says invitations are time-limited; the store has no expiry.
* `requireAdmin` also drops the session when the account could not be read.

## 5. Proofs

For every value of the constants:

* `TaskStoreProofs`: `ParentRowsAgree` and `TerminalRowsAreFinal`.  The inductive
  invariant is `StoreInv = StoreTypeOK /\ ParentAgrees /\ NoStrayRows`; rows of
  Clients that are no target must stay `none`, or the aggregate of a task would
  not be determined by its targets.
* `StoreLifeProofs`: `LifeTypeCorrect`, `RowsAgreeTheorem`, `RestartEndsTheorem`,
  `TerminalRowsSurvive`.  `LifeInv` adds what holds between the two UPDATEs: no
  active task has an active target (`NoActiveTarget`).
* `HubProofs`: `TypeCorrect`; `HubImplementsStore` (`Spec => StoreSpec`: every step
  of the Hub is one store transaction or leaves the rows alone), from which
  `HubParentsAgree` and `HubTerminalFinal` follow without looking at the Hub
  again; `LeasesAreExclusive`, inductive alone; `StatusFollowsLease`, inductive
  with `TypeOK` and `LeasesExclusive`; and, most from an invariant of their own:
  * `MemoryAgreesWithStore` and `ResultsNeedRunning` from `MemInv`
    (`MemInvariant`).  Between the two steps of a section memory and rows
    differ, so that the invariant says for each value of `tx[t].op` what the
    transaction has committed and memory does not yet know (`SectionOK`): a row
    already requeued or finished whose target still looks active, a task
    already ended whose targets are still live.
  * `ExpiredTasksOnlyFail`, for every step of a task that is `pending` (`Failing`).
  * `CompletedIsTested` from `TestedInv`: what is done or leased is in the plan,
    and whoever is about to finish a target as completed has its whole plan done.
    That is where `PlanAssumption` (plans are finite) is used: `done` is compared
    with the plan by counting, as the code does.
  * `RevokedStayOffline`, and with it `RevokedSharesSettle` from
    `RevokedSettling`, for stores that do not fail (`"store" \notin Env`; the run
    has none that fails either, and one that does leaves the failure unordered).
  * `WorkIsNotMissed` from `WakeInv`: a unit that could be handed out waits only
    while somebody has still to call `schedule()` or the pass runs
    (`NothingWaits`), a pass gives up only on Clients that will be looked at again
    or whose connection it has closed (`PassOK`), and who will call is a
    connection that has registered (`CallersRegistered`).
* `AccountsProofs`: `AccountsTypeCorrect`, `RevokedSessionsGo`,
  `PasswordChangesSerialise`, `InvitationsAreSingleUse`.  The inductive invariant
  adds that no handler has verified a later password than the one stored, and one
  past its UPDATE an earlier one (`ReadsThePast`), and that nothing refers to an
  invitation or an account before it is created (`NotYetCreated`).
* `ClientWorkerProofs`: `TypeCorrect`; `OneMeasurementTheorem`, whose inductive
  invariant `ConnectionsInOrder` says that every connection but the last has
  ended its context, and the last one too while the reader dials;
  `OthersAreSpared`, from `CancelInv`: a cancel that is on its way or was noted is
  of a task that has ended, and `current` is the worker's task from `setCurrent`
  to `clearCurrent`; `QueuedCancelTheorem`, from `CancelInv` and `UnitInv`: a unit
  is in one place of a connection only (on the wire, with the reader, queued or
  with the worker), and its mark stays while it is there, which needs that the
  server leases a task that has ended to nobody (`ServerInv`).
* `DeliveryProofs`: `OneDrainerTheorem` (a chat has one drainer exactly while it
  has an entry), from it `DeliveryImplementsFifo`, and `BotSendsInOrder`: each
  step of `BotTasks` is a step of `Delivery` or leaves the queue alone.  The last
  needs `BotInv`, by which a goroutine that sends knows its user.  Then, of
  `BotTasks`:
  * `OneTaskTheorem` and `OneCancelTheorem` from `BooksInv`.  `clearActive` and
    `clearCancellation` find an entry by its task, and the task of an entry is 0
    until the goroutine has told it.  So the invariant says whose entry it is:
    from its slot to `clearActive` a submission owns the entry of its user
    (`EntryOf`), an entry with a task names one that its user was told of
    (`EntryKnown`), and a cancellation on its way is marked in the entry as long
    as that is the entry of its task (`CancelClaimed`).
  * `TextSlotsTheorem` from `MessagesInv`: a message is in one place (`OnceInv`),
    the counters count (`CountInv`), and a message that is outstanding was sent
    by a goroutine that has moved on since (`FromInv`), so that nobody enters it
    twice.  From this and `JoinInv` (nobody lives once `Run` waits for the queues)
    follow `NoAddTheorem` and `ReturnsWhenSent`: when `Run` has returned, every
    message is sent and every goroutine gone, which no run checks.
  * `BotTypeCorrect`: its bounds are the capacities, and `SlotsInv` counts the
    submissions that hold a slot.
* `BotSettingsProofs`: `OnePollerTheorem`, `HandledOnceTheorem` and
  `OneLostPerCutTheorem` for `BotUpdates`.  The inductive invariant says what a
  poller has in hand: its offset is the stored one (`InStep`), and nothing at or
  above the stored offset was handled (`Behind`).  For the losses, a poller that
  was stopped but has not noticed counts as one (`Accounted`): the write that its
  end interrupts may still move the offset.  `SettingsDriveUpdates` shows that
  `SettingsSpec` implements `Spec` of `BotUpdates`, whatever handlers overlap,
  time out or fail; `SettingsSafe` carries the three properties over.
  `SoleRequestTheorem` rests on `AloneInv`: a handler that runs alone finds the
  row and the runtime as it left them at its last step (`Found`), and one that
  enables and finds a bot running still finds one there when it stores the switch.
* `TaskFeedProofs`: `FeedIsLife` (`FeedSpec => LifeSpec`), which carries over the
  theorems of `StoreLifeProofs`; `FeedTypeCorrect`; `EndsAreTrueTheorem`,
  `QuotaTheorem`, `PageForwardTheorem`.  The first rests on what may be said of a
  task only growing (`TrueEvents`, `TrueStatus`): an end is final and a result is
  never deleted, so what was true when it was read or published is true whenever
  it arrives (`FeedInv`).  `QuotaInv` adds that, as long as results can come, the
  table is ahead of the count by no more than the unsure writes.  `OrderInv` adds
  that no "running" follows an end to the watcher, because "running" is published
  with the lock of the task held (`Quiet`), and that an answer under way is not
  older than what the page shows, unless it is marked (`Consistent`).

Every invariant named here was checked by TLC on the instance of section 3, or a
larger one, before it was proved: `CancelInv` and `UnitInv` also with two
connections, `BooksInv`, `MessagesInv` and `JoinInv` also with two users and with
senders that time out.

Assumptions: `TargetsAssumption`, `HubAssumption` (every task has a target and a
proxy, every connection an owner), `PlanAssumption`, `ClientAssumption`,
`DeliveryAssumption`, `BotTasksAssumption` (whose last conjunct says that `None`
is not an entry of `b.active`), `FeedAssumption`, `AccountsAssumption`,
`UpdatesAssumption`, `SettingsAssumption`; TLC evaluates them in the runs.

Every invariant and every action property of the passing runs is proved.  Only
model-checked are the liveness properties, which are out of the prover's reach:
`EndIsLearnt`, `EveryTaskEnds`, `ShutdownSettles`, `LostIsReplaced`,
`ServerNeverWaits`, `EveryUpdateHandled`, `EveryRequestAnswered`, `RunReturns`.
The type invariants of `ClientWorker` and `BotTasks` are proved and belong to no
run.

## 6. What is not modelled, and why

* The executor, sing-box, the subscription fetcher, the report image and the HTTP
  routing: I/O and drawing, no state that interleaves.  What the models need of
  them (that `Execute` returns, that a request inserts rows before `AddTask`) is
  an action.  Of the web pages only the task page keeps state of its own that
  meets the server's.
* The importer, the wire format, log sanitising and the privacy migrations: pure
  functions of their input or one-off rewrites inside a transaction.
* Ping, client metadata and the best-effort cancel frame of the server: nothing
  the properties read depends on them.  Progress only marks a request of the page
  as older than an event.
* Time: a timeout, an expiry or a back-off may happen whenever it is armed.
  Invitations and challenges have no clock.
* The order in which eligible units are taken: `releaseTaskWorkLocked` may skip
  one in the rotation (hub_dispatch.go:312), which the Hub model leaves open.
* The ACK without a deadline (worker.go:34): what is left out is the time a write
  takes, see section 4.
* Which administrator sees which Client, CSRF tokens, the wizard's dialogue.

## 7. Plan

Done, in this order: `TaskStore`, `StoreLife`, `Hub`, `ClientWorker`,
`BotUpdates`, `Delivery` with `BotTasks`, `Accounts`, `BotSettings`, `TaskFeed`.
Next, most important first:

1. `Credentials`: token rotation and revocation against the hello exchange
   (hub_connections.go:29), as part of `Hub`.
2. What the liveness properties rest on, as far as it is safety: that whatever
   a goroutine of the Hub waits for has a holder that does not wait for it, the
   lock order of section 4 aside.
3. `Rotation`: the order in which eligible units are taken, as an operator on
   sequences checked against "every waiting task is served within one round".
4. `Wizard`: dialogue sessions against late buttons.

A new property joins the run of the instance that shows it.
