------------------------------ MODULE BotTasks ------------------------------
(***************************************************************************)
(* What the Telegram bot does with commands (src/internal/telegrambot):    *)
(* the polling goroutine handles them one after the other; a submission    *)
(* and a cancellation each run in a goroutine of their own, which Run      *)
(* waits for before it returns; all of them answer through Delivery.       *)
(*                                                                         *)
(* A user is known by his private chat.  The goroutine started by command  *)
(* n, the task it creates and the messages it sends carry the number n.    *)
(* The messages of a goroutine that follow each other without a decision   *)
(* in between (progress edits, the picture, the removal of the status      *)
(* message) are one message here, its report.                              *)
(***************************************************************************)
EXTENDS Delivery

CONSTANTS
  MaxCommands,  \* bound: commands the users send
  Slots,        \* MaxConcurrentTasks, the capacity of b.slots; 4 in the code
  TextSlots,    \* capacity of b.textSlots; 32 in the code
  Env           \* bound: environment events: "submit", "cancel", "timeout", "stop"

Commands == 1 .. MaxCommands
Texts == {"reply", "answer"}      \* sendTextRequest: these hold a text slot
Ordered == {"edit", "announce", "report"}   \* the ...Ordered calls: somebody waits
Message == [by : Commands, kind : Texts \cup Ordered, chat : Chats]

ASSUME BotTasksAssumption ==
  /\ MaxCommands \in Nat /\ Slots \in Nat \ {0} /\ TextSlots \in Nat \ {0}
  /\ Messages = Message /\ \A m \in Messages : Chat[m] = m.chat
  /\ Env \subseteq {"submit", "cancel", "timeout", "stop"}
  /\ None \notin [task : 0 .. MaxCommands, cancelling : BOOLEAN]

VARIABLES
  loop,       \* where the polling goroutine is
  handled,    \* commands it has taken so far
  stopping,   \* the context of Run is cancelled
  active,     \* b.active; task 0 while the task is being created
  slots,      \* taken places of b.slots
  textSlots,  \* taken places of b.textSlots
  goroutine,  \* per command: the goroutine it started, its user and its task
  waiting,    \* messages whose sender waits for the answer
  tasks       \* per command: the task it created on the server

people == <<loop, handled, stopping>>
books  == <<active, slots>>
vars == <<delivery, people, books, textSlots, goroutine, waiting, tasks>>

Place == {"none", "submitting", "created", "announcing", "waiting", "reporting",
          "clearing", "leaving", "cancelling", "ending", "gone"}
Live(n) == goroutine[n].at \notin {"none", "gone"}

TypeOK ==
  /\ DeliveryTypeOK
  /\ loop \in {"polling", "last", "awaiting", "joining", "draining", "returned"}
  /\ handled \in 0 .. MaxCommands /\ stopping \in BOOLEAN
  /\ active \in [Chats -> {None} \cup [task : 0 .. MaxCommands, cancelling : BOOLEAN]]
  /\ slots \in 0 .. Slots /\ textSlots \in 0 .. TextSlots
  /\ goroutine \in [Commands -> [at : Place, user : Chats \cup {None},
                                 task : 0 .. MaxCommands]]
  /\ waiting \subseteq Messages
  /\ tasks \in [Commands -> {"none", "active", "over"}]

Init ==
  /\ DeliveryInit
  /\ loop = "polling" /\ handled = 0 /\ stopping = FALSE
  /\ active = [u \in Chats |-> None]
  /\ slots = 0 /\ textSlots = 0
  /\ goroutine = [n \in Commands |-> [at |-> "none", user |-> None, task |-> 0]]
  /\ waiting = {}
  /\ tasks = [n \in Commands |-> "none"]

At(n, at) == goroutine' = [goroutine EXCEPT ![n].at = at]
MessageOf(n, kind, u) == [by |-> n, kind |-> kind, chat |-> u]

(* A text takes one of the text slots, or is dropped when there is none.    *)
HasTextSlot_always == TRUE
HasTextSlot == textSlots < TextSlots
sendText(n, kind, u) ==
  \/ /\ HasTextSlot
     /\ textSlots' = textSlots + 1
     /\ Enter(MessageOf(n, kind, u))
  \/ /\ ~HasTextSlot
     /\ UNCHANGED <<textSlots, delivery>>

(* An ordered message is waited for.                                       *)
sendOrdered(n, kind, u) ==
  /\ Enter(MessageOf(n, kind, u))
  /\ waiting' = waiting \cup {MessageOf(n, kind, u)}

(* Who has called enqueueDelivery goes on only after it.                   *)
Entered(n, kinds) == \A m \in entering : ~(m.by = n /\ m.kind \in kinds)
Answered(n) == \A m \in waiting : m.by # n

----------------------------------------------------------------------------
(* The polling goroutine.  Once its context is cancelled it can neither     *)
(* save an offset nor poll, so that it handles one command more at most.   *)

CanHandle == /\ loop = "polling" /\ handled < MaxCommands
             /\ Entered(handled, {"reply", "edit"})
NextCommand == handled + 1
TakeCommand == CanHandle /\ handled' = NextCommand /\ UNCHANGED stopping
Done == loop' = IF stopping THEN "last" ELSE "polling"
Reply(u) == Done /\ sendText(NextCommand, "reply", u) /\ UNCHANGED waiting

(* Menus, help and refusals: a text and nothing else.                      *)
Talk(u) ==
  /\ TakeCommand /\ Reply(u)
  /\ UNCHANGED <<books, goroutine, tasks>>

(* A button edits its message and waits for that; the one that confirms a   *)
(* submission is a Press, followed by Refuse or Submit.                    *)
Edit(u) == /\ sendOrdered(NextCommand, "edit", u) /\ loop' = "awaiting"
           /\ UNCHANGED textSlots
Press(u) ==
  /\ TakeCommand /\ Edit(u)
  /\ UNCHANGED <<books, goroutine, tasks>>
Pressed ==
  /\ loop = "awaiting" /\ Entered(handled, {"edit"}) /\ Answered(handled)
  /\ Done
  /\ UNCHANGED <<delivery, handled, stopping, books, textSlots, goroutine,
                 waiting, tasks>>
PressGivenUp ==   \* the context of Run, or the deadline of sendWizardPrompt
  /\ loop = "awaiting"
  /\ stopping \/ "timeout" \in Env
  /\ Entered(handled, {"edit"})
  /\ Done
  /\ waiting' = {m \in waiting : m.by # handled}
  /\ UNCHANGED <<delivery, handled, stopping, books, textSlots, goroutine, tasks>>

(* submitRequest takes a slot, then the user's entry, and starts the        *)
(* goroutine; without a slot or with an entry it only says so              *)
(* (replyOrEditStatus).                                                    *)
MayReserve_once_created(u) == active[u] # None => active[u].task = 0
MayReserve(u) == active[u] = None
Refuse(u) ==
  /\ TakeCommand
  /\ IF slots = Slots THEN ~stopping ELSE ~MayReserve(u)
  /\ Reply(u) \/ Edit(u)
  /\ UNCHANGED <<books, goroutine, tasks>>
DropSubmission ==
  /\ TakeCommand /\ stopping /\ Done
  /\ UNCHANGED <<delivery, books, textSlots, goroutine, waiting, tasks>>
Submit(u) ==
  /\ TakeCommand
  /\ slots < Slots /\ MayReserve(u)
  /\ slots' = slots + 1
  /\ active' = [active EXCEPT ![u] = [task |-> 0, cancelling |-> FALSE]]
  /\ goroutine' = [goroutine EXCEPT ![NextCommand] =
                     [at |-> "submitting", user |-> u, task |-> 0]]
  /\ Done
  /\ UNCHANGED <<delivery, textSlots, waiting, tasks>>

(* claimCancellation *)
Claimable(u) == active[u] # None /\ active[u].task # 0 /\ ~active[u].cancelling
NothingToCancel(u) ==
  /\ TakeCommand /\ ~Claimable(u) /\ Reply(u)
  /\ UNCHANGED <<books, goroutine, tasks>>
Cancel(u) ==
  /\ TakeCommand /\ Claimable(u)
  /\ active' = [active EXCEPT ![u].cancelling = TRUE]
  /\ goroutine' = [goroutine EXCEPT ![NextCommand] =
                     [at |-> "cancelling", user |-> u, task |-> active[u].task]]
  /\ Done
  /\ UNCHANGED <<delivery, slots, textSlots, waiting, tasks>>

(* The context of Run is cancelled; Run then waits for the goroutines and,  *)
(* after them, for the queues.                                             *)
Stop ==
  /\ "stop" \in Env /\ ~stopping
  /\ stopping' = TRUE
  /\ UNCHANGED <<delivery, loop, handled, books, textSlots, goroutine, waiting,
                 tasks>>
Run(from, to) ==
  /\ loop \in from /\ loop' = to
  /\ UNCHANGED <<delivery, handled, stopping, books, textSlots, goroutine,
                 waiting, tasks>>
StopPolling == stopping /\ Entered(handled, {"reply", "edit"}) /\ Run({"polling", "last"}, "joining")
Joined_without_cancels == \A n \in Commands : Live(n) => goroutine[n].at \in {"cancelling", "ending"}
Joined == \A n \in Commands : ~Live(n)
Join == Joined /\ Run({"joining"}, "draining")
Return == deliveryWG = 0 /\ Run({"draining"}, "returned")

----------------------------------------------------------------------------
(* The goroutine of a submission: submitAndReply and waitAndReply. *)

Submitted(n) ==
  /\ goroutine[n].at = "submitting"
  /\ tasks' = [tasks EXCEPT ![n] = "active"]
  /\ goroutine' = [goroutine EXCEPT ![n].at = "created", ![n].task = n]
  /\ UNCHANGED <<delivery, people, books, textSlots, waiting>>
SubmitFails(n) ==
  /\ goroutine[n].at = "submitting" /\ ("submit" \in Env \/ stopping)
  /\ \/ /\ sendText(n, "answer", goroutine[n].user)
        /\ At(n, "clearing") /\ UNCHANGED waiting
     \/ /\ sendOrdered(n, "report", goroutine[n].user)
        /\ At(n, "reporting") /\ UNCHANGED textSlots
  /\ UNCHANGED <<people, books, tasks>>

setActiveTaskID(u, n) ==
  active' = IF active[u] = None THEN active ELSE [active EXCEPT ![u].task = n]
Announce(n) ==
  /\ goroutine[n].at = "created"
  /\ setActiveTaskID(goroutine[n].user, n)
  /\ sendOrdered(n, "announce", goroutine[n].user)
  /\ At(n, "announcing")
  /\ UNCHANGED <<people, slots, textSlots, tasks>>
Announced(n) ==
  /\ goroutine[n].at = "announcing" /\ Entered(n, {"announce"}) /\ Answered(n)
  /\ At(n, "waiting")
  /\ UNCHANGED <<delivery, people, books, textSlots, waiting, tasks>>

(* The runner reads the task again and again until it is over; only the     *)
(* context of Run ends that with an error, which is not reported.          *)
WaitEnds(n) ==
  /\ goroutine[n].at = "waiting" /\ tasks[n] = "over"
  /\ sendOrdered(n, "report", goroutine[n].user)
  /\ At(n, "reporting")
  /\ UNCHANGED <<people, books, textSlots, tasks>>
WaitFails(n) ==
  /\ goroutine[n].at = "waiting" /\ stopping
  /\ At(n, "clearing")
  /\ UNCHANGED <<delivery, people, books, textSlots, waiting, tasks>>
Reported(n) ==
  /\ goroutine[n].at = "reporting" /\ Entered(n, {"report"}) /\ Answered(n)
  /\ At(n, "clearing")
  /\ UNCHANGED <<delivery, people, books, textSlots, waiting, tasks>>

(* The deferred calls: clearActive, then the slot, then wg.Done.           *)
clearActive(n) ==
  LET u == goroutine[n].user
  IN active' = IF active[u] # None /\ active[u].task = goroutine[n].task
                 THEN [active EXCEPT ![u] = None] ELSE active
Clear(n) ==
  /\ goroutine[n].at = "clearing" /\ Entered(n, {"answer"})
  /\ clearActive(n)
  /\ At(n, "leaving")
  /\ UNCHANGED <<delivery, people, slots, textSlots, waiting, tasks>>
Leave(n) ==
  /\ goroutine[n].at = "leaving"
  /\ slots' = slots - 1
  /\ At(n, "gone")
  /\ UNCHANGED <<delivery, people, active, textSlots, waiting, tasks>>

----------------------------------------------------------------------------
(* The goroutine of a cancellation: cancelAndReply. *)

CancelSucceeds(n) ==
  /\ goroutine[n].at = "cancelling" /\ tasks[goroutine[n].task] = "active"
  /\ tasks' = [tasks EXCEPT ![goroutine[n].task] = "over"]
  /\ sendText(n, "answer", goroutine[n].user)
  /\ At(n, "ending")
  /\ UNCHANGED <<people, books, waiting>>

(* clearCancellation: only an entry of the same task is given back.        *)
SameTask(n) == LET u == goroutine[n].user
               IN active[u] # None /\ active[u].task = goroutine[n].task
GiveBack_unchecked(n) == active[goroutine[n].user] # None
GiveBack(n) == SameTask(n)
clearCancellation(n) ==
  active' = IF GiveBack(n) THEN [active EXCEPT ![goroutine[n].user].cancelling = FALSE]
              ELSE active
CancelFails(n) ==
  /\ goroutine[n].at = "cancelling"
  /\ tasks[goroutine[n].task] = "over" \/ "cancel" \in Env \/ stopping
  /\ clearCancellation(n)
  /\ sendText(n, "answer", goroutine[n].user)
  /\ At(n, "ending")
  /\ UNCHANGED <<people, slots, waiting, tasks>>
CancelEnds(n) ==
  /\ goroutine[n].at = "ending" /\ Entered(n, {"answer"})
  /\ At(n, "gone")
  /\ UNCHANGED <<delivery, people, books, textSlots, waiting, tasks>>

----------------------------------------------------------------------------
(* The server ends a task; the queue works.                                *)

TaskOver(n) ==
  /\ tasks[n] = "active"
  /\ tasks' = [tasks EXCEPT ![n] = "over"]
  /\ UNCHANGED <<delivery, people, books, textSlots, goroutine, waiting>>

Insert(m) == Enqueue(m) /\ UNCHANGED <<people, books, textSlots, goroutine, waiting, tasks>>
Drain(c) ==
  /\ Look(c) \/ DrainerExits(c)
  /\ UNCHANGED <<people, books, textSlots, goroutine, waiting, tasks>>
TextReleased_if_awaited(m) == IF m \in waiting THEN textSlots - 1 ELSE textSlots
TextReleased(m) == IF m.kind \in Texts THEN textSlots - 1 ELSE textSlots
SendReturns(c, m) ==
  /\ Sent(c, m)
  /\ waiting' = waiting \ {m}
  /\ textSlots' = TextReleased(m)
  /\ UNCHANGED <<people, books, goroutine, tasks>>

(* A sender stops waiting at his deadline; the edit that refuses a          *)
(* submission has none and ends with the context of Run instead.  The       *)
(* message stays in the queue.                                             *)
SenderLeaves(m) ==
  /\ "timeout" \in Env \/ (stopping /\ m.kind = "report")
  /\ m \in waiting \ entering /\ m.kind # "edit"
  /\ waiting' = waiting \ {m}
  /\ UNCHANGED <<delivery, people, books, textSlots, goroutine, tasks>>

----------------------------------------------------------------------------
Handle(u) == \/ Talk(u) \/ Press(u) \/ Refuse(u) \/ DropSubmission \/ Submit(u)
             \/ NothingToCancel(u) \/ Cancel(u)
Loop == Pressed \/ PressGivenUp \/ StopPolling \/ Join \/ Return
Work(n) == \/ Submitted(n) \/ SubmitFails(n) \/ Announce(n) \/ Announced(n)
           \/ WaitEnds(n) \/ WaitFails(n) \/ Reported(n) \/ Clear(n) \/ Leave(n)
           \/ CancelSucceeds(n) \/ CancelFails(n) \/ CancelEnds(n)
Deliver(c) == Drain(c) \/ \E m \in sending[c] : SendReturns(c, m)

Next ==
  \/ \E u \in Chats : Handle(u) \/ Deliver(u)
  \/ Loop \/ Stop
  \/ \E n \in Commands : Work(n) \/ TaskOver(n)
  \/ \E m \in entering : Insert(m)
  \/ \E m \in waiting : SenderLeaves(m)
Spec == Init /\ [][Next]_vars

(* As long as a goroutine of the bot can run, one does, and calls of the    *)
(* Telegram API return (api.go:87).  Which one runs is left open: users     *)
(* send finitely many commands, so that none can be overtaken for ever.     *)
(* Users need not write, tasks need not end, nobody has to stop the bot.    *)
Program ==
  \/ Loop
  \/ \E n \in Commands : Work(n)
  \/ \E c \in Chats : Deliver(c)
  \/ \E m \in entering : Insert(m)
FairSpec == Spec /\ WF_vars(Program)

----------------------------------------------------------------------------
(* Properties. *)

(* A user never has two unfinished tasks on the server, however late the    *)
(* goroutine of an earlier task ends (active_tasks.go:19): only a stopped   *)
(* bot leaves a task behind.                                               *)
OneTaskPerUser ==
  \A n, o \in Commands :
    tasks[n] = "active" /\ tasks[o] = "active" /\ n # o /\ ~stopping =>
      goroutine[n].user # goroutine[o].user

(* At most one cancellation of a task is on its way, and the user cannot    *)
(* start another: also when a cancel fails after its task has been replaced *)
(* by the next one, whose cancel has been claimed (active_tasks.go:60-62).  *)
OneCancelInFlight ==
  \A n \in Commands : goroutine[n].at = "cancelling" =>
    /\ ~(Claimable(goroutine[n].user) /\ SameTask(n))
    /\ \A o \in Commands \ {n} :
         goroutine[o].at = "cancelling" => goroutine[o].task # goroutine[n].task

(* The text slots count the texts that are queued or being sent, so that a  *)
(* slow Telegram never piles up more than TextSlots of them, and none is    *)
(* lost for good (delivery_queue.go:63-65).                                *)
InQueue(c) == {queues[c][i] : i \in DOMAIN queues[c]}
Outstanding == entering \cup UNION {InQueue(c) \cup sending[c] : c \in Chats}
TextSlotsExact == textSlots = Cardinality({m \in Outstanding : m.kind \in Texts})

(* Once Run waits for the queues nobody enters a message any more           *)
(* (bot.go:171-172), so that a Wait is never overtaken by an Add.          *)
Waited == loop \in {"draining", "returned"}
NoAddAfterWait == [][Waited => deliveryWG' <= deliveryWG]_vars

(* Run returns once it is told to, whatever its goroutines are waiting for  *)
(* (bot.go:169-173).                                                       *)
RunReturns == stopping ~> (loop = "returned")
=============================================================================
