--------------------------- MODULE DeliveryProofs ---------------------------
(***************************************************************************)
(* One drainer per chat, and from it that the outbound queue implements    *)
(* ChatFifo for any chats and messages; that BotTasks, with all its        *)
(* goroutines, only ever uses the queue as Delivery says; and then what    *)
(* the bot keeps track of itself: its messages (each is in one place, and  *)
(* the two counters count them), its books (which goroutine an entry of    *)
(* b.active belongs to), the end of Run, and the capacities.               *)
(***************************************************************************)
EXTENDS BotTasks, FiniteSetTheorems, TLAPS

Busy(c) == IF sending[c] = {} THEN None ELSE CHOOSE m \in sending[c] : TRUE
DeliveryInv == QueueTypeOK /\ OneDrainer

(* The queue starts without entries and without drainers. *)
LEMMA DeliveryInitInv == DeliveryInit => DeliveryInv
  BY DeliveryAssumption DEF DeliveryInit, DeliveryInv, QueueTypeOK, OneDrainer

(* A drainer that looks, or sends, is the only one of its chat. *)
LEMMA DrainerAlone ==
  ASSUME DeliveryInv, NEW c \in Chats
  PROVE  /\ looking[c] > 0 => looking[c] = 1 /\ sending[c] = {} /\ c \in keys
         /\ \A m \in sending[c] :
              m \in Messages /\ sending[c] = {m} /\ looking[c] = 0 /\ c \in keys
  BY DEF DeliveryInv, QueueTypeOK, OneDrainer

(* Each step of the queue keeps at most one drainer per chat, and one for   *)
(* every chat that has an entry (enqueueDelivery, drainDeliveryQueue).     *)
LEMMA DeliveryStepInv == DeliveryInv /\ [DeliveryNext]_delivery => DeliveryInv'
<1> SUFFICES ASSUME DeliveryInv, [DeliveryNext]_delivery PROVE DeliveryInv'
  OBVIOUS
<1> USE DeliveryAssumption DEF DeliveryInv, QueueTypeOK, OneDrainer
<1>1. ASSUME NEW m \in Messages, Enter(m) PROVE DeliveryInv'
  BY <1>1 DEF Enter
<1>2. ASSUME NEW m \in Messages, Enqueue(m) PROVE DeliveryInv'
  <2>1. Chat[m] \in Chats
    OBVIOUS
  <2>2. QueueTypeOK'
    BY <1>2, <2>1 DEF Enqueue, NewDrainers
  <2>3. OneDrainer'
    BY <1>2, <2>1 DEF Enqueue, NewDrainers
  <2> QED
    BY <2>2, <2>3
<1>3. ASSUME NEW c \in Chats, DrainerExits(c) PROVE DeliveryInv'
  BY <1>3 DEF DrainerExits, KeysAfterExit
<1>4. ASSUME NEW c \in Chats, Look(c) PROVE DeliveryInv'
  <2>1. Head(queues[c]) \in Messages /\ Tail(queues[c]) \in Seq(Messages)
    BY <1>4 DEF Look
  <2>2. looking[c] = 1 /\ sending[c] = {} /\ c \in keys
    BY <1>4, DrainerAlone DEF Look
  <2>3. QueueTypeOK'
    BY <1>4, <2>1, <2>2 DEF Look
  <2>4. sending'[c] = {Head(queues[c])} /\ looking'[c] = 0
    BY <1>4, <2>2 DEF Look
  <2>5. OneDrainer'
    BY <1>4, <2>1, <2>2, <2>4 DEF Look
  <2> QED
    BY <2>3, <2>5
<1>5. ASSUME NEW c \in Chats, NEW m \in Messages, Sent(c, m) PROVE DeliveryInv'
  <2>1. looking[c] = 0 /\ sending[c] = {m} /\ c \in keys
    BY <1>5, DrainerAlone DEF Sent
  <2>2. sending[c] \ {m} = {} /\ looking[c] + 1 = 1
    BY <2>1
  <2>3. /\ sending' = [sending EXCEPT ![c] = {}]
        /\ looking' = [looking EXCEPT ![c] = 1]
    BY <1>5, <2>2 DEF Sent
  <2>4. QueueTypeOK'
    BY <1>5, <2>3 DEF Sent
  <2>5. OneDrainer'
    <3>1. \A d \in Chats \ {c} : /\ sending'[d] = sending[d]
                                 /\ looking'[d] = looking[d]
      BY <2>3
    <3>2. sending'[c] = {} /\ looking'[c] = 1
      BY <2>3
    <3>3. keys' = keys /\ queues' = queues
      BY <1>5 DEF Sent
    <3>4. c \in keys' /\ looking'[c] = 1 /\ sending'[c] = {}
      BY <2>1, <3>2, <3>3
    <3> HIDE DEF QueueTypeOK
    <3> QED
      BY <3>1, <3>3, <3>4
  <2> QED
    BY <2>4, <2>5
<1>6. CASE UNCHANGED delivery
  BY <1>6 DEF delivery
<1> QED
  BY <1>1, <1>2, <1>3, <1>4, <1>5, <1>6 DEF DeliveryNext

(* OneDrainer, which delivery_queue.go:35-38 argues for, holds always. *)
THEOREM OneDrainerTheorem == DeliverySpec => []OneDrainer
<1>1. DeliveryInv => OneDrainer
  BY DEF DeliveryInv
<1> QED
  BY <1>1, DeliveryInitInv, DeliveryStepInv, PTL DEF DeliverySpec

----------------------------------------------------------------------------
(* The refinement. *)

(* The message being sent is the one in sending[c]. *)
LEMMA BusyValue ==
  ASSUME QueueTypeOK, NEW c \in Chats,
         sending[c] = {} \/ \E m \in Messages : sending[c] = {m}
  PROVE  /\ Busy(c) = None <=> sending[c] = {}
         /\ \A m \in Messages : sending[c] = {m} => Busy(c) = m
<1> USE DeliveryAssumption DEF QueueTypeOK
<1>1. CASE sending[c] = {}
  BY <1>1 DEF Busy
<1>2. ASSUME NEW m \in Messages, sending[c] = {m} PROVE Busy(c) = m
  BY <1>2 DEF Busy
<1> QED
  BY <1>1, <1>2

(* Enqueue accepts, Look begins to send, Sent ends it, and what is left     *)
(* changes nothing that ChatFifo speaks of.                                *)
LEMMA DeliveryStepRefines ==
  DeliveryInv /\ DeliveryInv' /\ [DeliveryNext]_delivery =>
    [Fifo!FifoNext]_(Fifo!fifo)
<1> SUFFICES ASSUME DeliveryInv, DeliveryInv', [DeliveryNext]_delivery
             PROVE  [Fifo!FifoNext]_(Fifo!fifo)
  OBVIOUS
<1> USE DeliveryAssumption DEF DeliveryInv, QueueTypeOK, OneDrainer
<1> DEFINE B == [c \in Chats |-> Busy(c)]
<1>a. \A c \in Chats : /\ B[c] = None <=> sending[c] = {}
                      /\ \A m \in Messages : sending[c] = {m} => B[c] = m
  <2> TAKE c \in Chats
  <2>1. sending[c] = {} \/ \E m \in Messages : sending[c] = {m}
    OBVIOUS
  <2>2. QueueTypeOK
    OBVIOUS
  <2> QED
    BY <2>1, <2>2, BusyValue
<1>1. ASSUME NEW m \in Messages, Enter(m) PROVE UNCHANGED <<queues, B>>
  BY <1>1 DEF Enter, Busy
<1>2. ASSUME NEW m \in Messages, Enqueue(m) PROVE Fifo!Accept(Chat[m], m)
  <2>1. UNCHANGED B
    BY <1>2 DEF Enqueue, Busy
  <2> QED
    BY <1>2, <2>1 DEF Enqueue, Fifo!Accept, Busy
<1>3. ASSUME NEW c \in Chats, DrainerExits(c) PROVE UNCHANGED <<queues, B>>
  BY <1>3 DEF DrainerExits, Busy
<1>4. ASSUME NEW c \in Chats, Look(c) PROVE Fifo!BeginSend(c)
  <2>1. sending[c] = {}
    BY <1>4, DrainerAlone DEF Look
  <2>h. Head(queues[c]) \in Messages
    BY <1>4 DEF Look
  <2>2. B' = [B EXCEPT ![c] = Head(queues[c])]
    <3>1. sending' = [sending EXCEPT ![c] = {Head(queues[c])}]
      BY <1>4, <2>1 DEF Look
    <3>2. Busy(c)' = Head(queues[c])
      <4>1. sending'[c] = {Head(queues[c])}
        BY <3>1
      <4> QED
        BY <4>1 DEF Busy
    <3>3. \A d \in Chats \ {c} : Busy(d)' = Busy(d)
      BY <3>1 DEF Busy
    <3> QED
      BY <3>2, <3>3
  <2>3. B[c] = None
    BY <1>a, <2>1
  <2> QED
    BY <1>4, <2>2, <2>3 DEF Look, Fifo!BeginSend, Busy
<1>5. ASSUME NEW c \in Chats, NEW m \in Messages, Sent(c, m) PROVE Fifo!EndSend(c)
  <2>1. sending[c] = {m}
    BY <1>5, DrainerAlone DEF Sent
  <2>2. B' = [B EXCEPT ![c] = None]
    <3>1. sending' = [sending EXCEPT ![c] = {}]
      <4>1. sending[c] \ {m} = {}
        BY <2>1
      <4> QED
        BY <1>5, <4>1 DEF Sent
    <3>2. Busy(c)' = None
      BY <3>1 DEF Busy
    <3>3. \A d \in Chats \ {c} : Busy(d)' = Busy(d)
      BY <3>1 DEF Busy
    <3> QED
      BY <3>2, <3>3
  <2>3. B[c] # None
    BY <1>a, <2>1
  <2> QED
    BY <1>5, <2>2, <2>3 DEF Sent, Fifo!EndSend, Busy
<1>6. CASE UNCHANGED delivery
  BY <1>6 DEF delivery, Busy, Fifo!fifo
<1>7. CASE \E c \in Chats, m \in Messages : Fifo!Accept(c, m)
  BY <1>7 DEF Fifo!FifoNext
<1>8. CASE \E c \in Chats : Fifo!BeginSend(c) \/ Fifo!EndSend(c)
  BY <1>8 DEF Fifo!FifoNext
<1>9. CASE UNCHANGED <<queues, B>>
  BY <1>9 DEF Fifo!fifo, Busy
<1>10. CASE DeliveryNext
  <2>1. CASE \E m \in Messages : Enter(m)
    BY <2>1, <1>1, <1>9
  <2>2. CASE \E m \in Messages : Enqueue(m)
    BY <2>2, <1>2, <1>7
  <2>3. CASE \E c \in Chats : DrainerExits(c)
    BY <2>3, <1>3, <1>9
  <2>4. CASE \E c \in Chats : Look(c)
    BY <2>4, <1>4, <1>8
  <2>5. CASE \E c \in Chats, m \in Messages : Sent(c, m)
    BY <2>5, <1>5, <1>8
  <2> QED
    BY <1>10, <2>1, <2>2, <2>3, <2>4, <2>5 DEF DeliveryNext
<1> QED
  BY <1>6, <1>10

(* Messages of a chat are sent one at a time and in the order in which they *)
(* were enqueued (delivery_queue.go:21-23), for any chats and messages.     *)
THEOREM DeliveryImplementsFifo == DeliverySpec => SentInOrder
<1>1. DeliveryInit => Fifo!FifoInit
  BY DEF DeliveryInit, Fifo!FifoInit
<1> QED
  BY <1>1, DeliveryInitInv, DeliveryStepInv, DeliveryStepRefines, PTL
     DEF DeliverySpec, SentInOrder, Fifo!FifoSpec

----------------------------------------------------------------------------
(* BotTasks uses the queue as Delivery says.  For that, whoever sends a    *)
(* message must be a goroutine that knows its user.                        *)

Entry == {None} \cup [task : 0 .. MaxCommands, cancelling : BOOLEAN]
Goroutine == [at : Place, user : Chats \cup {None}, task : 0 .. MaxCommands]
BotInv ==
  /\ handled \in 0 .. MaxCommands
  /\ active \in [Chats -> Entry]
  /\ goroutine \in [Commands -> Goroutine]
  /\ \A n \in Commands : goroutine[n].at # "none" => goroutine[n].user \in Chats

(* What the steps that send a message do to the queue. *)
LEMMA MessageOfType ==
  ASSUME NEW n \in Commands, NEW kind \in Texts \cup Ordered, NEW u \in Chats
  PROVE  MessageOf(n, kind, u) \in Messages
  BY BotTasksAssumption DEF MessageOf, Message

LEMMA SendTextStep ==
  ASSUME NEW n \in Commands, NEW kind \in Texts, NEW u \in Chats,
         sendText(n, kind, u)
  PROVE  [DeliveryNext]_delivery
  BY MessageOfType DEF sendText, DeliveryNext

LEMMA SendOrderedStep ==
  ASSUME NEW n \in Commands, NEW kind \in Ordered, NEW u \in Chats,
         sendOrdered(n, kind, u)
  PROVE  [DeliveryNext]_delivery
  BY MessageOfType DEF sendOrdered, DeliveryNext

(* A step of one goroutine that only moves it on. *)
LEMMA AtKeepsBotInv ==
  ASSUME BotInv, NEW n \in Commands, goroutine[n].at # "none",
         NEW at \in Place \ {"none"}, At(n, at), UNCHANGED <<handled, active>>
  PROVE  BotInv'
<1>1. goroutine' \in [Commands -> Goroutine]
  BY DEF BotInv, At, Goroutine
<1>2. \A o \in Commands : goroutine'[o].user = goroutine[o].user
  BY DEF BotInv, At, Goroutine
<1>3. \A o \in Commands : goroutine'[o].at # "none" => goroutine[o].at # "none"
  BY DEF BotInv, At, Goroutine
<1> QED
  BY <1>1, <1>2, <1>3 DEF BotInv

(* The polling goroutine keeps BotInv: it starts goroutines for the user    *)
(* whose command it has taken.                                             *)
LEMMA HandleKeepsBotInv ==
  ASSUME BotInv, NEW u \in Chats, Handle(u)
  PROVE  BotInv'
<1> USE BotTasksAssumption DEF BotInv, TakeCommand, CanHandle, NextCommand, people,
      books, Commands
<1>0. TakeCommand => handled' \in 0 .. MaxCommands
  OBVIOUS
<1>1. CASE Talk(u)
  BY <1>0, <1>1 DEF Talk
<1>2. CASE Press(u)
  BY <1>0, <1>2 DEF Press
<1>3. CASE Refuse(u)
  BY <1>0, <1>3 DEF Refuse
<1>4. CASE DropSubmission
  BY <1>0, <1>4 DEF DropSubmission
<1>5. CASE Submit(u)
  <2>1. active' \in [Chats -> Entry]
    BY <1>5 DEF Submit, Entry
  <2>2. /\ goroutine' \in [Commands -> Goroutine]
        /\ \A n \in Commands : goroutine'[n].at # "none" => goroutine'[n].user \in Chats
    BY <1>5 DEF Submit, Goroutine, Place
  <2> QED
    BY <1>0, <1>5, <2>1, <2>2 DEF Submit
<1>6. CASE NothingToCancel(u)
  BY <1>0, <1>6 DEF NothingToCancel
<1>7. CASE Cancel(u)
  <2>0. active[u] \in [task : 0 .. MaxCommands, cancelling : BOOLEAN]
    BY <1>7 DEF Cancel, Claimable, Entry
  <2>1. active' \in [Chats -> Entry]
    BY <1>7, <2>0 DEF Cancel, Entry
  <2>2. /\ goroutine' \in [Commands -> Goroutine]
        /\ \A n \in Commands : goroutine'[n].at # "none" => goroutine'[n].user \in Chats
    BY <1>7, <2>0 DEF Cancel, Goroutine, Place
  <2> QED
    BY <1>0, <1>7, <2>1, <2>2 DEF Cancel
<1> QED
  BY <1>1, <1>2, <1>3, <1>4, <1>5, <1>6, <1>7 DEF Handle

(* So do the goroutines, which never change their user. *)
LEMMA WorkKeepsBotInv ==
  ASSUME BotInv, NEW n \in Commands, Work(n)
  PROVE  BotInv'
<1> USE DEF people, books
<1>1. CASE Submitted(n)
  <2>1. goroutine' \in [Commands -> Goroutine]
    <3>1. n \in 0 .. MaxCommands
      BY BotTasksAssumption DEF Commands
    <3>2. [goroutine[n] EXCEPT !.at = "created", !.task = n] \in Goroutine
      BY <3>1 DEF BotInv, Goroutine, Place
    <3>3. goroutine' = [goroutine EXCEPT
                          ![n] = [goroutine[n] EXCEPT !.at = "created", !.task = n]]
      BY <1>1 DEF Submitted, BotInv, Goroutine
    <3> QED
      BY <3>2, <3>3 DEF BotInv
  <2>2. \A o \in Commands : /\ goroutine'[o].user = goroutine[o].user
                            /\ goroutine'[o].at # "none" => goroutine[o].at # "none"
    BY <1>1 DEF Submitted, BotInv, Goroutine
  <2> QED
    BY <1>1, <2>1, <2>2 DEF Submitted, BotInv
<1>2. CASE SubmitFails(n)
  BY <1>2, AtKeepsBotInv DEF SubmitFails, Place
<1>3. CASE Announce(n)
  <2>1. active' \in [Chats -> Entry]
    BY <1>3, BotTasksAssumption DEF Announce, setActiveTaskID, BotInv, Entry, Commands
  <2>2. goroutine' \in [Commands -> Goroutine]
    BY <1>3 DEF Announce, At, BotInv, Goroutine, Place
  <2>3. \A o \in Commands : /\ goroutine'[o].user = goroutine[o].user
                            /\ goroutine'[o].at # "none" => goroutine[o].at # "none"
    BY <1>3 DEF Announce, At, BotInv, Goroutine
  <2>4. handled' = handled
    BY <1>3 DEF Announce
  <2> QED
    BY <2>1, <2>2, <2>3, <2>4 DEF BotInv
<1>4. CASE Announced(n)
  BY <1>4, AtKeepsBotInv DEF Announced, Place
<1>5. CASE WaitEnds(n)
  BY <1>5, AtKeepsBotInv DEF WaitEnds, Place
<1>6. CASE WaitFails(n)
  BY <1>6, AtKeepsBotInv DEF WaitFails, Place
<1>7. CASE Reported(n)
  BY <1>7, AtKeepsBotInv DEF Reported, Place
<1>8. CASE Clear(n)
  <2>1. active' \in [Chats -> Entry]
    BY <1>8 DEF Clear, clearActive, BotInv, Entry
  <2>2. goroutine' \in [Commands -> Goroutine]
    BY <1>8 DEF Clear, At, BotInv, Goroutine, Place
  <2>3. \A o \in Commands : /\ goroutine'[o].user = goroutine[o].user
                            /\ goroutine'[o].at # "none" => goroutine[o].at # "none"
    BY <1>8 DEF Clear, At, BotInv, Goroutine
  <2>4. handled' = handled
    BY <1>8 DEF Clear
  <2> QED
    BY <2>1, <2>2, <2>3, <2>4 DEF BotInv
<1>9. CASE Leave(n)
  BY <1>9, AtKeepsBotInv DEF Leave, Place
<1>10. CASE CancelSucceeds(n)
  BY <1>10, AtKeepsBotInv DEF CancelSucceeds, Place
<1>11. CASE CancelFails(n)
  <2>1. active' \in [Chats -> Entry]
    BY <1>11 DEF CancelFails, clearCancellation, GiveBack, SameTask, BotInv, Entry
  <2>2. goroutine' \in [Commands -> Goroutine]
    BY <1>11 DEF CancelFails, At, BotInv, Goroutine, Place
  <2>3. \A o \in Commands : /\ goroutine'[o].user = goroutine[o].user
                            /\ goroutine'[o].at # "none" => goroutine[o].at # "none"
    BY <1>11 DEF CancelFails, At, BotInv, Goroutine
  <2>4. handled' = handled
    BY <1>11 DEF CancelFails
  <2> QED
    BY <2>1, <2>2, <2>3, <2>4 DEF BotInv
<1>12. CASE CancelEnds(n)
  BY <1>12, AtKeepsBotInv DEF CancelEnds, Place
<1> QED
  BY <1>1, <1>2, <1>3, <1>4, <1>5, <1>6, <1>7, <1>8, <1>9, <1>10, <1>11, <1>12
     DEF Work

LEMMA BotInitInv == Init => BotInv
  BY BotTasksAssumption DEF Init, BotInv, Entry, Goroutine, Place

LEMMA BotStepInv == BotInv /\ [Next]_vars => BotInv'
<1> SUFFICES ASSUME BotInv, [Next]_vars PROVE BotInv'
  OBVIOUS
<1>1. CASE \E u \in Chats : Handle(u)
  BY <1>1, HandleKeepsBotInv
<1>2. CASE \E n \in Commands : Work(n)
  BY <1>2, WorkKeepsBotInv
<1>3. CASE UNCHANGED <<handled, active, goroutine>>
  BY <1>3 DEF BotInv
<1>4. CASE \E u \in Chats : Deliver(u)
  BY <1>3, <1>4 DEF Deliver, Drain, SendReturns, people, books
<1>5. CASE Loop \/ Stop
  BY <1>3, <1>5 DEF Loop, Pressed, PressGivenUp, StopPolling, Join, Return, Run,
                    Stop, books
<1>6. CASE \E n \in Commands : TaskOver(n)
  BY <1>3, <1>6 DEF TaskOver, people, books
<1>7. CASE \E m \in entering : Insert(m)
  BY <1>3, <1>7 DEF Insert, people, books
<1>8. CASE \E m \in waiting : SenderLeaves(m)
  BY <1>3, <1>8 DEF SenderLeaves, people, books
<1>9. CASE UNCHANGED vars
  BY <1>3, <1>9 DEF vars, people, books
<1> QED
  BY <1>1, <1>2, <1>4, <1>5, <1>6, <1>7, <1>8, <1>9 DEF Next

(* Every step of the bot is a step of the queue or none of its business. *)
LEMMA BotStepDelivers ==
  BotInv /\ QueueTypeOK /\ [Next]_vars => [DeliveryNext]_delivery
<1> SUFFICES ASSUME BotInv, QueueTypeOK, [Next]_vars PROVE [DeliveryNext]_delivery
  OBVIOUS
<1>1. ASSUME NEW u \in Chats, Handle(u) PROVE [DeliveryNext]_delivery
  <2>1. CASE UNCHANGED delivery
    BY <2>1
  <2>2. TakeCommand => NextCommand \in Commands
    BY BotTasksAssumption DEF TakeCommand, CanHandle, NextCommand, BotInv, Commands
  <2>3. CASE TakeCommand /\ (Reply(u) \/ Edit(u))
    BY <2>2, <2>3, SendTextStep, SendOrderedStep DEF Reply, Edit, Texts, Ordered
  <2>4. CASE Talk(u) \/ Press(u) \/ Refuse(u) \/ NothingToCancel(u)
    BY <2>3, <2>4 DEF Talk, Press, Refuse, NothingToCancel
  <2>5. CASE DropSubmission \/ Submit(u) \/ Cancel(u)
    BY <2>1, <2>5 DEF DropSubmission, Submit, Cancel
  <2> QED
    BY <1>1, <2>4, <2>5 DEF Handle
<1>2. ASSUME NEW n \in Commands, Work(n) PROVE [DeliveryNext]_delivery
  <2>1. CASE UNCHANGED delivery
    BY <2>1
  <2>2. goroutine[n].at # "none" => goroutine[n].user \in Chats
    BY DEF BotInv
  <2>3. CASE SubmitFails(n)
    BY <2>2, <2>3, SendTextStep, SendOrderedStep DEF SubmitFails, Texts, Ordered
  <2>4. CASE Announce(n) \/ WaitEnds(n)
    BY <2>2, <2>4, SendOrderedStep DEF Announce, WaitEnds, Ordered
  <2>5. CASE CancelSucceeds(n) \/ CancelFails(n)
    BY <2>2, <2>5, SendTextStep DEF CancelSucceeds, CancelFails, Texts
  <2>6. CASE Submitted(n) \/ Announced(n) \/ WaitFails(n) \/ Reported(n)
             \/ Clear(n) \/ Leave(n) \/ CancelEnds(n)
    BY <2>1, <2>6 DEF Submitted, Announced, WaitFails, Reported, Clear, Leave,
                      CancelEnds
  <2> QED
    BY <1>2, <2>3, <2>4, <2>5, <2>6 DEF Work
<1>3. ASSUME NEW u \in Chats, Deliver(u) PROVE [DeliveryNext]_delivery
  <2>1. CASE Look(u) \/ DrainerExits(u)
    BY <2>1 DEF DeliveryNext
  <2>2. CASE \E m \in sending[u] : SendReturns(u, m)
    BY <2>2 DEF SendReturns, DeliveryNext, QueueTypeOK
  <2> QED
    BY <1>3, <2>1, <2>2 DEF Deliver, Drain
<1>4. ASSUME NEW m \in entering, Insert(m) PROVE [DeliveryNext]_delivery
  BY <1>4 DEF Insert, DeliveryNext, QueueTypeOK
<1>5. CASE Loop \/ Stop
  BY <1>5 DEF Loop, Pressed, PressGivenUp, StopPolling, Join, Return, Run, Stop
<1>6. CASE \E n \in Commands : TaskOver(n)
  BY <1>6 DEF TaskOver
<1>7. CASE \E m \in waiting : SenderLeaves(m)
  BY <1>7 DEF SenderLeaves
<1>8. CASE UNCHANGED vars
  BY <1>8 DEF vars
<1> QED
  BY <1>1, <1>2, <1>3, <1>4, <1>5, <1>6, <1>7, <1>8 DEF Next

(* Whatever the bot does, the messages of a chat are sent one at a time and *)
(* in order, for any number of users, commands and slots: the steps of      *)
(* BotTasks are steps of Delivery, and those are steps of ChatFifo.         *)
THEOREM BotSendsInOrder == Spec => SentInOrder
<1>1. Init => BotInv /\ DeliveryInit
  BY BotInitInv DEF Init
<1>2. BotInv /\ DeliveryInv /\ [Next]_vars =>
        BotInv' /\ DeliveryInv' /\ [DeliveryNext]_delivery
  BY BotStepInv, BotStepDelivers, DeliveryStepInv DEF DeliveryInv
<1>3. Spec => DeliverySpec
  BY <1>1, <1>2, DeliveryInitInv, PTL DEF Spec, DeliverySpec
<1> QED
  BY <1>3, DeliveryImplementsFifo, PTL

----------------------------------------------------------------------------
(* No message is twice in the queue, and the two counters count what they  *)
(* are for.                                                                *)

Injective(s) == \A i, j \in DOMAIN s : s[i] = s[j] => i = j
Elements(s) == {s[i] : i \in DOMAIN s}

LEMMA AppendElements ==
  ASSUME NEW S, NEW s \in Seq(S), NEW e \in S
  PROVE  /\ Elements(Append(s, e)) = Elements(s) \cup {e}
         /\ Injective(s) /\ e \notin Elements(s) => Injective(Append(s, e))
<1>1. /\ DOMAIN Append(s, e) = 1 .. Len(s) + 1 /\ DOMAIN s = 1 .. Len(s)
      /\ Len(s) \in Nat
  OBVIOUS
<1>2. \A i \in 1 .. Len(s) : Append(s, e)[i] = s[i]
  OBVIOUS
<1>3. Append(s, e)[Len(s) + 1] = e
  OBVIOUS
<1>4. \A i \in 1 .. Len(s) + 1 : i \in 1 .. Len(s) \/ i = Len(s) + 1
  BY <1>1
<1>5. 1 .. Len(s) \subseteq 1 .. Len(s) + 1 /\ Len(s) + 1 \in 1 .. Len(s) + 1
  BY <1>1
<1>6. Elements(Append(s, e)) = Elements(s) \cup {e}
  <2>1. \A x \in Elements(Append(s, e)) : x \in Elements(s) \cup {e}
    BY <1>1, <1>2, <1>3, <1>4 DEF Elements
  <2>2. \A x \in Elements(s) : x \in Elements(Append(s, e))
    BY <1>1, <1>2, <1>5 DEF Elements
  <2>3. e \in Elements(Append(s, e))
    BY <1>1, <1>3, <1>5 DEF Elements
  <2> QED
    BY <2>1, <2>2, <2>3
<1>7. Injective(s) /\ e \notin Elements(s) => Injective(Append(s, e))
  BY <1>1, <1>2, <1>3, <1>4 DEF Elements, Injective
<1> QED
  BY <1>6, <1>7

LEMMA TailElements ==
  ASSUME NEW S, NEW s \in Seq(S), s # <<>>
  PROVE  /\ Head(s) \in Elements(s)
         /\ Elements(s) = Elements(Tail(s)) \cup {Head(s)}
         /\ Injective(s) => Injective(Tail(s)) /\ Head(s) \notin Elements(Tail(s))
<1>1. Len(Tail(s)) = Len(s) - 1 /\ Len(s) \in Nat /\ Len(s) > 0
  OBVIOUS
<1>2. DOMAIN s = 1 .. Len(s) /\ DOMAIN Tail(s) = 1 .. Len(s) - 1
  BY <1>1
<1>3. \A i \in DOMAIN Tail(s) : Tail(s)[i] = s[i + 1]
  BY <1>1, <1>2
<1>4. Head(s) = s[1] /\ 1 \in DOMAIN s
  BY <1>1, <1>2
<1>5. \A i \in DOMAIN Tail(s) : i + 1 \in DOMAIN s /\ i + 1 # 1
  BY <1>1, <1>2
<1>6. \A i, j \in DOMAIN Tail(s) : i + 1 = j + 1 => i = j
  BY <1>2, <1>1
<1>7. \A i \in DOMAIN s : i = 1 \/ (i - 1 \in DOMAIN Tail(s) /\ Tail(s)[i - 1] = s[i])
  <2> TAKE i \in DOMAIN s
  <2>1. i # 1 => i - 1 \in DOMAIN Tail(s) /\ (i - 1) + 1 = i
    BY <1>1, <1>2
  <2> QED
    BY <1>3, <2>1
<1>8. Elements(s) = Elements(Tail(s)) \cup {Head(s)}
  <2>1. \A x \in Elements(s) : x \in Elements(Tail(s)) \cup {Head(s)}
    BY <1>4, <1>7 DEF Elements
  <2>2. \A x \in Elements(Tail(s)) : x \in Elements(s)
    BY <1>3, <1>5 DEF Elements
  <2>3. Head(s) \in Elements(s)
    BY <1>4 DEF Elements
  <2> QED
    BY <2>1, <2>2, <2>3
<1>9. Injective(s) => Injective(Tail(s))
  BY <1>3, <1>5, <1>6 DEF Injective
<1>10. Injective(s) => Head(s) \notin Elements(Tail(s))
  BY <1>3, <1>4, <1>5 DEF Injective, Elements
<1> QED
  BY <1>8, <1>9, <1>10

(* Every message that is outstanding is in one place. *)
OnceInv ==
  \A c \in Chats :
    /\ Injective(queues[c])
    /\ \A m \in InQueue(c) : Chat[m] = c /\ m \notin entering \cup sending[c]
    /\ \A m \in sending[c] : Chat[m] = c /\ m \notin entering

OutstandingTexts == {m \in Outstanding : m.kind \in Texts}
CountInv ==
  /\ IsFiniteSet(Outstanding)
  /\ deliveryWG = Cardinality(Outstanding)
  /\ textSlots = Cardinality(OutstandingTexts)

(* What the steps of the bot do to the queue and to its counters. *)
QueueStep ==
  \/ UNCHANGED <<delivery, textSlots>>
  \/ \E m \in Messages : Enqueue(m) /\ UNCHANGED textSlots
  \/ \E c \in Chats : (Look(c) \/ DrainerExits(c)) /\ UNCHANGED textSlots
  \/ \E c \in Chats, m \in Messages : Sent(c, m) /\ textSlots' = TextReleased(m)
EnterStep(m) ==
  /\ m \in Messages \ Outstanding
  /\ Enter(m)
  /\ textSlots' = IF m.kind \in Texts THEN textSlots + 1 ELSE textSlots

LEMMA OutstandingIs ==
  ASSUME NEW m
  PROVE  m \in Outstanding <=>
           m \in entering \/ \E c \in Chats : m \in InQueue(c) \/ m \in sending[c]
  BY DEF Outstanding

LEMMA EnterOnce ==
  ASSUME OnceInv, NEW m \in Messages \ Outstanding, Enter(m)
  PROVE  OnceInv' /\ Outstanding' = Outstanding \cup {m}
<1>1. /\ entering' = entering \cup {m}
      /\ UNCHANGED <<queues, sending>>
  BY DEF Enter
<1>2. \A c \in Chats : InQueue(c)' = InQueue(c)
  BY <1>1 DEF InQueue
<1>3. \A c \in Chats : m \notin InQueue(c) /\ m \notin sending[c]
  BY OutstandingIs
<1>4. OnceInv'
  BY <1>1, <1>2, <1>3 DEF OnceInv
<1>5. Outstanding' = Outstanding \cup {m}
  BY <1>1, <1>2 DEF Outstanding
<1> QED
  BY <1>4, <1>5

LEMMA EnqueueOnce ==
  ASSUME QueueTypeOK, OnceInv, NEW m \in Messages, Enqueue(m)
  PROVE  OnceInv' /\ Outstanding' = Outstanding
<1> DEFINE d == Chat[m]
<1>1. d \in Chats /\ m \in entering
  BY DeliveryAssumption DEF Enqueue
<1>2. /\ entering' = entering \ {m}
      /\ queues'[d] = Append(queues[d], m)
      /\ \A c \in Chats \ {d} : queues'[c] = queues[c]
      /\ sending' = sending
  BY <1>1 DEF Enqueue, QueueTypeOK
<1>3. \A c \in Chats : InQueue(c) = Elements(queues[c]) /\ InQueue(c)' = Elements(queues'[c])
  BY DEF InQueue, Elements
<1>4. queues[d] \in Seq(Messages)
  BY <1>1 DEF QueueTypeOK
<1>5. /\ Elements(Append(queues[d], m)) = Elements(queues[d]) \cup {m}
      /\ Injective(queues[d]) /\ m \notin Elements(queues[d]) =>
           Injective(Append(queues[d], m))
  BY <1>4, AppendElements
<1>6. m \notin InQueue(d) /\ m \notin sending[d] /\ Injective(queues[d])
  BY <1>1 DEF OnceInv
<1>7. /\ InQueue(d)' = InQueue(d) \cup {m} /\ Injective(queues'[d])
      /\ \A c \in Chats \ {d} : InQueue(c)' = InQueue(c)
  BY <1>1, <1>2, <1>3, <1>5, <1>6
<1>8. OnceInv'
  <2>1. ASSUME NEW c \in Chats \ {d}
        PROVE  /\ Injective(queues'[c])
               /\ \A x \in InQueue(c)' : Chat[x] = c /\ x \notin entering' \cup sending'[c]
               /\ \A x \in sending'[c] : Chat[x] = c /\ x \notin entering'
    BY <1>2, <1>7 DEF OnceInv
  <2>2. /\ \A x \in InQueue(d)' : Chat[x] = d /\ x \notin entering' \cup sending'[d]
        /\ \A x \in sending'[d] : Chat[x] = d /\ x \notin entering'
    BY <1>1, <1>2, <1>6, <1>7 DEF OnceInv
  <2> QED
    BY <1>7, <2>1, <2>2 DEF OnceInv
<1>9. ASSUME NEW x PROVE x \in Outstanding' <=> x \in Outstanding
  <2>1. x \in Outstanding' <=>
          x \in entering' \/ \E c \in Chats : x \in InQueue(c)' \/ x \in sending'[c]
    BY DEF Outstanding
  <2>2. (\E c \in Chats : x \in InQueue(c)') <=> (\E c \in Chats : x \in InQueue(c)) \/ x = m
    BY <1>1, <1>7
  <2> QED
    BY <1>1, <1>2, <2>1, <2>2, OutstandingIs
<1> QED
  BY <1>8, <1>9

LEMMA ExitOnce ==
  ASSUME OnceInv, NEW d \in Chats, DrainerExits(d)
  PROVE  OnceInv' /\ Outstanding' = Outstanding
<1>1. UNCHANGED <<entering, queues, sending>>
  BY DEF DrainerExits
<1>2. \A c \in Chats : InQueue(c)' = InQueue(c)
  BY <1>1 DEF InQueue
<1> QED
  BY <1>1, <1>2 DEF OnceInv, Outstanding

LEMMA LookOnce ==
  ASSUME QueueTypeOK, OnceInv, NEW d \in Chats, Look(d)
  PROVE  OnceInv' /\ Outstanding' = Outstanding
<1> DEFINE m == Head(queues[d])
<1>1. queues[d] \in Seq(Messages) /\ queues[d] # <<>>
  BY DEF QueueTypeOK, Look
<1>2. /\ entering' = entering
      /\ queues'[d] = Tail(queues[d]) /\ sending'[d] = sending[d] \cup {m}
      /\ \A c \in Chats \ {d} : queues'[c] = queues[c] /\ sending'[c] = sending[c]
  BY DEF Look, QueueTypeOK
<1>3. \A c \in Chats : InQueue(c) = Elements(queues[c]) /\ InQueue(c)' = Elements(queues'[c])
  BY DEF InQueue, Elements
<1>4. /\ Elements(queues[d]) = Elements(Tail(queues[d])) \cup {m}
      /\ Injective(queues[d]) => Injective(Tail(queues[d])) /\ m \notin Elements(Tail(queues[d]))
  BY <1>1, TailElements
<1>5. /\ InQueue(d) = InQueue(d)' \cup {m} /\ Injective(queues'[d]) /\ m \notin InQueue(d)'
      /\ \A c \in Chats \ {d} : InQueue(c)' = InQueue(c)
  BY <1>2, <1>3, <1>4 DEF OnceInv
<1>6. Chat[m] = d /\ m \notin entering
  BY <1>5 DEF OnceInv
<1>7. OnceInv'
  <2>1. ASSUME NEW c \in Chats \ {d}
        PROVE  /\ Injective(queues'[c])
               /\ \A x \in InQueue(c)' : Chat[x] = c /\ x \notin entering' \cup sending'[c]
               /\ \A x \in sending'[c] : Chat[x] = c /\ x \notin entering'
    BY <1>2, <1>5 DEF OnceInv
  <2>2. /\ \A x \in InQueue(d)' : Chat[x] = d /\ x \notin entering' \cup sending'[d]
        /\ \A x \in sending'[d] : Chat[x] = d /\ x \notin entering'
    BY <1>2, <1>5, <1>6 DEF OnceInv
  <2> QED
    BY <1>5, <2>1, <2>2 DEF OnceInv
<1>8. ASSUME NEW x PROVE x \in Outstanding' <=> x \in Outstanding
  <2>1. x \in Outstanding' <=>
          x \in entering' \/ \E c \in Chats : x \in InQueue(c)' \/ x \in sending'[c]
    BY DEF Outstanding
  <2>2. \A c \in Chats :
          x \in InQueue(c)' \/ x \in sending'[c] <=> x \in InQueue(c) \/ x \in sending[c]
    BY <1>2, <1>5
  <2> QED
    BY <1>2, <2>1, <2>2, OutstandingIs
<1> QED
  BY <1>7, <1>8

LEMMA SentOnce ==
  ASSUME QueueTypeOK, OnceInv, NEW d \in Chats, NEW m \in Messages, Sent(d, m)
  PROVE  OnceInv' /\ m \in Outstanding /\ Outstanding' = Outstanding \ {m}
<1>1. /\ UNCHANGED <<entering, queues>> /\ m \in sending[d]
      /\ sending'[d] = sending[d] \ {m}
      /\ \A c \in Chats \ {d} : sending'[c] = sending[c]
  BY DEF Sent, QueueTypeOK
<1>2. \A c \in Chats : InQueue(c)' = InQueue(c)
  BY <1>1 DEF InQueue
<1>3. OnceInv'
  BY <1>1, <1>2 DEF OnceInv
<1>4. /\ m \notin entering
      /\ \A c \in Chats : m \notin InQueue(c) /\ (c # d => m \notin sending[c])
  BY <1>1 DEF OnceInv
<1>5. ASSUME NEW x PROVE x \in Outstanding' <=> x \in Outstanding /\ x # m
  <2>1. x \in Outstanding' <=>
          x \in entering' \/ \E c \in Chats : x \in InQueue(c)' \/ x \in sending'[c]
    BY DEF Outstanding
  <2>2. \A c \in Chats : x \in InQueue(c)' \/ x \in sending'[c] <=>
                           (x \in InQueue(c) \/ x \in sending[c]) /\ x # m
    BY <1>1, <1>2, <1>4
  <2> QED
    BY <1>1, <1>4, <2>1, <2>2, OutstandingIs
<1> QED
  BY <1>1, <1>3, <1>5, OutstandingIs

(* One message more, and one less. *)
LEMMA CountMore ==
  ASSUME CountInv, NEW m \in Messages \ Outstanding, Outstanding' = Outstanding \cup {m},
         deliveryWG' = deliveryWG + 1,
         textSlots' = IF m.kind \in Texts THEN textSlots + 1 ELSE textSlots
  PROVE  CountInv'
<1>1. IsFiniteSet(OutstandingTexts) /\ m \notin OutstandingTexts
  BY FS_Subset DEF CountInv, OutstandingTexts
<1>2. OutstandingTexts' = IF m.kind \in Texts THEN OutstandingTexts \cup {m}
                            ELSE OutstandingTexts
  BY DEF OutstandingTexts
<1>3. /\ IsFiniteSet(Outstanding \cup {m})
      /\ Cardinality(Outstanding \cup {m}) = Cardinality(Outstanding) + 1
  BY FS_AddElement DEF CountInv
<1>4. Cardinality(OutstandingTexts \cup {m}) = Cardinality(OutstandingTexts) + 1
  BY <1>1, FS_AddElement
<1> QED
  BY <1>2, <1>3, <1>4 DEF CountInv

LEMMA CountLess ==
  ASSUME CountInv, NEW m \in Outstanding, Outstanding' = Outstanding \ {m},
         deliveryWG' = deliveryWG - 1, textSlots' = TextReleased(m)
  PROVE  CountInv'
<1>1. IsFiniteSet(OutstandingTexts)
  BY FS_Subset DEF CountInv, OutstandingTexts
<1>2. OutstandingTexts' = OutstandingTexts \ {m}
  BY DEF OutstandingTexts
<1>3. /\ IsFiniteSet(Outstanding \ {m})
      /\ Cardinality(Outstanding \ {m}) = Cardinality(Outstanding) - 1
  BY FS_RemoveElement DEF CountInv
<1>4. Cardinality(OutstandingTexts \ {m}) =
        IF m.kind \in Texts THEN Cardinality(OutstandingTexts) - 1
          ELSE Cardinality(OutstandingTexts)
  BY <1>1, FS_RemoveElement DEF OutstandingTexts
<1> QED
  BY <1>2, <1>3, <1>4 DEF CountInv, TextReleased

LEMMA EnterStepKeeps ==
  ASSUME OnceInv, CountInv, NEW m, EnterStep(m)
  PROVE  OnceInv' /\ CountInv' /\ Outstanding' = Outstanding \cup {m}
  BY EnterOnce, CountMore DEF EnterStep, Enter

LEMMA QueueStepKeeps ==
  ASSUME QueueTypeOK, OnceInv, CountInv, QueueStep
  PROVE  OnceInv' /\ CountInv' /\ Outstanding' \subseteq Outstanding
<1>1. CASE UNCHANGED <<delivery, textSlots>>
  <2>1. UNCHANGED Outstanding /\ OnceInv'
    BY <1>1 DEF delivery, Outstanding, InQueue, OnceInv
  <2> QED
    BY <1>1, <2>1 DEF CountInv, OutstandingTexts, delivery
<1>2. ASSUME Outstanding' = Outstanding, UNCHANGED <<deliveryWG, textSlots>>
      PROVE  CountInv'
  BY <1>2 DEF CountInv, OutstandingTexts
<1>3. ASSUME NEW m \in Messages, Enqueue(m), UNCHANGED textSlots
      PROVE  OnceInv' /\ CountInv' /\ Outstanding' = Outstanding
  BY <1>2, <1>3, EnqueueOnce DEF Enqueue
<1>4. ASSUME NEW c \in Chats, Look(c) \/ DrainerExits(c), UNCHANGED textSlots
      PROVE  OnceInv' /\ CountInv' /\ Outstanding' = Outstanding
  BY <1>2, <1>4, LookOnce, ExitOnce DEF Look, DrainerExits
<1>5. ASSUME NEW c \in Chats, NEW m \in Messages, Sent(c, m), textSlots' = TextReleased(m)
      PROVE  OnceInv' /\ CountInv' /\ Outstanding' \subseteq Outstanding
  BY <1>5, SentOnce, CountLess DEF Sent
<1> QED
  BY <1>1, <1>3, <1>4, <1>5 DEF QueueStep

----------------------------------------------------------------------------
(* The books: which goroutine an entry of b.active belongs to.             *)

Submission == {"submitting", "created", "announcing", "waiting", "reporting",
               "clearing", "leaving"}
Owner == Submission \ {"leaving"}
Early == {"submitting", "created"}

TaskStates == tasks \in [Commands -> {"none", "active", "over"}]

(* Commands are taken in order; a goroutine that nobody has started has no *)
(* task, and a task is active while its goroutine waits for it.            *)
TaskInv(n) ==
  /\ n > handled => goroutine[n].at = "none"
  /\ goroutine[n].at \in {"none", "submitting"} => goroutine[n].task = 0
  /\ goroutine[n].at \in {"none", "submitting", "cancelling", "ending"} => tasks[n] = "none"
  /\ goroutine[n].at \in {"created", "announcing", "waiting"} => goroutine[n].task = n
  /\ tasks[n] = "active" /\ ~stopping =>
       goroutine[n].at \in {"created", "announcing", "waiting"}

(* From the slot to clearActive, a submission has the entry of its user,   *)
(* and no other submission has.                                            *)
EntryOf(n) ==
  goroutine[n].at \in Owner =>
    /\ active[goroutine[n].user] # None
    /\ active[goroutine[n].user].task =
         IF goroutine[n].at \in Early THEN 0 ELSE goroutine[n].task
    /\ \A o \in Commands \ {n} :
         goroutine[o].at \in Owner => goroutine[o].user # goroutine[n].user

(* A task that the user has been told of, by the goroutine of u's command. *)
Known(t, u) ==
  /\ t \in Commands /\ goroutine[t].user = u
  /\ goroutine[t].at \notin {"none"} \cup Early
EntryKnown(u) == active[u] # None /\ active[u].task # 0 => Known(active[u].task, u)

(* While a cancellation is on its way, the entry of its task says so.      *)
CancelClaimed(n) ==
  goroutine[n].at = "cancelling" =>
    /\ Known(goroutine[n].task, goroutine[n].user)
    /\ SameTask(n) => active[goroutine[n].user].cancelling
    /\ \A o \in Commands \ {n} :
         goroutine[o].at = "cancelling" => goroutine[o].task # goroutine[n].task

GoroutineInv(n) == TaskInv(n) /\ EntryOf(n) /\ CancelClaimed(n)
BooksInv ==
  /\ TaskStates
  /\ \A n \in Commands : GoroutineInv(n)
  /\ \A u \in Chats : EntryKnown(u)

LEMMA EntryFacts ==
  ASSUME BotInv, NEW u \in Chats, active[u] # None
  PROVE  active[u] \in [task : 0 .. MaxCommands, cancelling : BOOLEAN]
  BY DEF BotInv, Entry

LEMMA OwnerUser ==
  ASSUME BotInv, NEW n \in Commands, goroutine[n].at # "none"
  PROVE  goroutine[n].user \in Chats /\ goroutine[n].task \in 0 .. MaxCommands
  BY DEF BotInv, Goroutine

(* The polling goroutine without a new goroutine, the server, the queue.   *)
LEMMA BooksFrame ==
  ASSUME BotInv, BooksInv, UNCHANGED <<active, goroutine>>,
         tasks' \in [Commands -> {"none", "active", "over"}],
         \A n \in Commands : tasks'[n] = tasks[n] \/ (tasks[n] = "active" /\ tasks'[n] = "over"),
         handled' \in {handled, handled + 1}, stopping => stopping'
  PROVE  BooksInv'
<1>1. \A n \in Commands : n > handled' => n > handled
  BY DEF BotInv, Commands
<1>2. ASSUME NEW n \in Commands PROVE GoroutineInv(n)'
  <2>1. TaskInv(n)'
    BY <1>1 DEF BooksInv, GoroutineInv, TaskInv
  <2>2. EntryOf(n)'
    BY DEF BooksInv, GoroutineInv, EntryOf
  <2>3. CancelClaimed(n)'
    BY DEF BooksInv, GoroutineInv, CancelClaimed, Known, SameTask
  <2> QED
    BY <2>1, <2>2, <2>3 DEF GoroutineInv
<1>3. \A u \in Chats : EntryKnown(u)'
  BY DEF BooksInv, EntryKnown, Known
<1> QED
  BY <1>2, <1>3 DEF BooksInv, TaskStates

(* A goroutine that moves on while the entries stay. *)
LEMMA AtFacts ==
  ASSUME BotInv, NEW n \in Commands, NEW at, At(n, at)
  PROVE  /\ goroutine'[n].at = at /\ goroutine'[n].user = goroutine[n].user
         /\ goroutine'[n].task = goroutine[n].task
         /\ \A o \in Commands \ {n} : goroutine'[o] = goroutine[o]
  BY DEF BotInv, Goroutine, At

LEMMA BooksMove ==
  ASSUME BotInv, BooksInv, NEW n \in Commands, NEW at, At(n, at),
         UNCHANGED <<handled, stopping, active>>, TaskStates',
         \A o \in Commands : tasks'[o] = tasks[o] \/ (tasks[o] = "active" /\ tasks'[o] = "over"),
         goroutine[n].at # "none",
         at \in {"waiting", "reporting", "clearing", "leaving", "ending", "gone"},
         goroutine[n].at = "submitting" => at \notin {"waiting"},
         goroutine[n].at # "created",
         at \in Owner => goroutine[n].at \in Owner,
         at = "ending" => goroutine[n].at = "cancelling",
         at = "waiting" => goroutine[n].at = "announcing",
         tasks[n] = "active" /\ ~stopping => at = "waiting"
  PROVE  BooksInv'
<1>1. /\ goroutine'[n].at = at /\ goroutine'[n].user = goroutine[n].user
      /\ goroutine'[n].task = goroutine[n].task
      /\ \A o \in Commands \ {n} : goroutine'[o] = goroutine[o]
  BY AtFacts
<1>2. /\ GoroutineInv(n) /\ TaskStates
      /\ \A o \in Commands : GoroutineInv(o)
      /\ \A u \in Chats : EntryKnown(u)
  BY DEF BooksInv
<1>3. \A t, u : Known(t, u) => Known(t, u)'
  BY <1>1 DEF Known, Early
<1>4. ASSUME NEW o \in Commands PROVE TaskInv(o)'
  <2>1. TaskInv(o) /\ (tasks'[o] = tasks[o] \/ (tasks[o] = "active" /\ tasks'[o] = "over"))
    BY <1>2 DEF GoroutineInv
  <2>2. CASE o = n
    BY <1>1, <2>1, <2>2 DEF TaskInv
  <2>3. CASE o # n
    BY <1>1, <2>1, <2>3 DEF TaskInv
  <2> QED
    BY <2>2, <2>3
<1>5. ASSUME NEW o \in Commands PROVE EntryOf(o)'
  <2>1. CASE o = n
    <3>1. goroutine[n].at = "submitting" => goroutine[n].task = 0
      BY <1>2 DEF GoroutineInv, TaskInv
    <3> QED
      BY <1>1, <1>2, <2>1, <3>1 DEF GoroutineInv, EntryOf, Owner, Submission, Early
  <2>2. CASE o # n
    BY <1>1, <1>2, <2>2 DEF GoroutineInv, EntryOf, Owner, Submission, Early
  <2> QED
    BY <2>1, <2>2
<1>6. ASSUME NEW o \in Commands PROVE CancelClaimed(o)'
  BY <1>1, <1>2, <1>3 DEF GoroutineInv, CancelClaimed, SameTask
<1>7. \A u \in Chats : EntryKnown(u)'
  BY <1>2, <1>3 DEF EntryKnown
<1> QED
  BY <1>4, <1>5, <1>6, <1>7 DEF BooksInv, GoroutineInv

(* A submission begins: its user had no entry. *)
LEMMA BooksSubmit ==
  ASSUME BotInv, BooksInv, NEW u \in Chats, Submit(u)
  PROVE  BooksInv'
<1> DEFINE n == NextCommand
<1>0. /\ n \in Commands /\ n > handled /\ handled' = n
      /\ \A o \in Commands : o > n => o > handled
  BY BotTasksAssumption
  DEF Submit, TakeCommand, CanHandle, NextCommand, BotInv, Commands
<1>1. /\ goroutine'[n] = [at |-> "submitting", user |-> u, task |-> 0]
      /\ \A o \in Commands \ {n} : goroutine'[o] = goroutine[o]
  BY <1>0 DEF Submit, BotInv
<1>2. /\ active[u] = None
      /\ active'[u] = [task |-> 0, cancelling |-> FALSE]
      /\ \A v \in Chats \ {u} : active'[v] = active[v]
  BY DEF Submit, MayReserve, BotInv
<1>3. active'[u] # None
  <2>1. [task |-> 0, cancelling |-> FALSE] \in [task : 0 .. MaxCommands, cancelling : BOOLEAN]
    BY BotTasksAssumption
  <2> QED
    BY <1>2, <2>1, BotTasksAssumption
<1>4. /\ \A o \in Commands : GoroutineInv(o)
      /\ \A v \in Chats : EntryKnown(v)
      /\ TaskStates /\ UNCHANGED <<stopping, tasks>>
  BY DEF BooksInv, Submit, TakeCommand
<1>5. goroutine[n].at = "none"
  BY <1>0, <1>4 DEF GoroutineInv, TaskInv
<1>6. \A t, v : Known(t, v) => Known(t, v)'
  BY <1>1, <1>5 DEF Known
<1>7. ASSUME NEW o \in Commands PROVE TaskInv(o)'
  <2>1. TaskInv(o) /\ tasks'[o] = tasks[o]
    BY <1>4 DEF GoroutineInv
  <2>2. CASE o = n
    <3>1. tasks'[n] = "none" /\ ~(n > handled')
      BY <1>0, <1>5, <2>1, <2>2 DEF TaskInv, Commands
    <3> QED
      BY <1>1, <2>2, <3>1 DEF TaskInv
  <2>3. CASE o # n
    <3>1. o > handled' => o > handled
      BY <1>0
    <3>2. goroutine'[o] = goroutine[o] /\ stopping' = stopping
      BY <1>1, <1>4, <2>3
    <3> QED
      BY <2>1, <3>1, <3>2 DEF TaskInv
  <2> QED
    BY <2>2, <2>3
<1>8. \A o \in Commands : goroutine[o].at \in Owner => goroutine[o].user # u
  BY <1>2, <1>4 DEF GoroutineInv, EntryOf
<1>9. ASSUME NEW o \in Commands PROVE EntryOf(o)'
  <2>1. CASE o = n
    BY <1>1, <1>2, <1>3, <1>8, <2>1 DEF EntryOf, Early
  <2>2. CASE o # n
    <3>1. goroutine[o].at \in Owner => goroutine[o].user \in Chats \ {u}
      BY <1>8, OwnerUser DEF Owner, Submission
    <3> QED
      BY <1>1, <1>2, <1>4, <2>2, <3>1 DEF GoroutineInv, EntryOf
  <2> QED
    BY <2>1, <2>2
<1>10. ASSUME NEW o \in Commands PROVE CancelClaimed(o)'
  <2>1. CASE o = n
    BY <1>1, <2>1 DEF CancelClaimed
  <2>2. CASE o # n /\ goroutine[o].at = "cancelling"
    <3>1. Known(goroutine[o].task, goroutine[o].user) /\ goroutine[o].user \in Chats
      BY <1>4, <2>2, OwnerUser DEF GoroutineInv, CancelClaimed
    <3>2. goroutine[o].task # 0
      BY <3>1 DEF Known, Commands
    <3>3. SameTask(o)' => SameTask(o) /\ active'[goroutine[o].user] = active[goroutine[o].user]
      BY <1>1, <1>2, <2>2, <3>1, <3>2 DEF SameTask
    <3> QED
      BY <1>1, <1>4, <1>6, <2>2, <3>1, <3>3 DEF GoroutineInv, CancelClaimed
  <2>3. CASE o # n /\ goroutine[o].at # "cancelling"
    BY <1>1, <2>3 DEF CancelClaimed
  <2> QED
    BY <2>1, <2>2, <2>3
<1>11. ASSUME NEW v \in Chats PROVE EntryKnown(v)'
  BY <1>2, <1>4, <1>6 DEF EntryKnown
<1> QED
  BY <1>4, <1>7, <1>9, <1>10, <1>11 DEF BooksInv, GoroutineInv, TaskStates

(* A cancellation begins: the entry was not claimed. *)
LEMMA BooksCancel ==
  ASSUME BotInv, BooksInv, NEW u \in Chats, Cancel(u)
  PROVE  BooksInv'
<1> DEFINE n == NextCommand
           t == active[u].task
<1>0. /\ n \in Commands /\ n > handled /\ handled' = n
      /\ \A o \in Commands : o > n => o > handled
  BY BotTasksAssumption
  DEF Cancel, TakeCommand, CanHandle, NextCommand, BotInv, Commands
<1>1. /\ goroutine'[n] = [at |-> "cancelling", user |-> u, task |-> t]
      /\ \A o \in Commands \ {n} : goroutine'[o] = goroutine[o]
  BY <1>0 DEF Cancel, BotInv
<1>2. active[u] # None /\ t # 0 /\ ~active[u].cancelling
  BY DEF Cancel, Claimable
<1>3. active[u] \in [task : 0 .. MaxCommands, cancelling : BOOLEAN]
  BY <1>2, EntryFacts
<1>4. /\ active'[u] = [active[u] EXCEPT !.cancelling = TRUE]
      /\ \A v \in Chats \ {u} : active'[v] = active[v]
  BY DEF Cancel, BotInv
<1>5. active'[u].task = t /\ active'[u].cancelling /\ active'[u] # None
  <2>1. active'[u] \in [task : 0 .. MaxCommands, cancelling : BOOLEAN]
    BY <1>3, <1>4
  <2> QED
    BY <1>3, <1>4, <2>1, BotTasksAssumption
<1>6. /\ \A o \in Commands : GoroutineInv(o)
      /\ \A v \in Chats : EntryKnown(v)
      /\ TaskStates /\ UNCHANGED <<stopping, tasks>>
  BY DEF BooksInv, Cancel, TakeCommand
<1>7. goroutine[n].at = "none"
  BY <1>0, <1>6 DEF GoroutineInv, TaskInv
<1>8. \A s, v : Known(s, v) => Known(s, v)'
  BY <1>1, <1>7 DEF Known
<1>9. Known(t, u)
  BY <1>2, <1>6 DEF EntryKnown
<1>10. ASSUME NEW o \in Commands PROVE TaskInv(o)'
  <2>1. TaskInv(o) /\ tasks'[o] = tasks[o]
    BY <1>6 DEF GoroutineInv
  <2>2. CASE o = n
    <3>1. tasks'[n] = "none" /\ ~(n > handled')
      BY <1>0, <1>7, <2>1, <2>2 DEF TaskInv, Commands
    <3> QED
      BY <1>1, <2>2, <3>1 DEF TaskInv
  <2>3. CASE o # n
    <3>1. o > handled' => o > handled
      BY <1>0
    <3>2. goroutine'[o] = goroutine[o] /\ stopping' = stopping
      BY <1>1, <1>6, <2>3
    <3> QED
      BY <2>1, <3>1, <3>2 DEF TaskInv
  <2> QED
    BY <2>2, <2>3
<1>11. \A v \in Chats : /\ active'[v] = None <=> active[v] = None
                        /\ active[v] # None => active'[v].task = active[v].task
  BY <1>2, <1>4, <1>5
<1>12. ASSUME NEW o \in Commands PROVE EntryOf(o)'
  <2>1. CASE o = n
    BY <1>1, <2>1 DEF EntryOf, Owner, Submission
  <2>2. CASE o # n /\ goroutine[o].at \in Owner
    <3>1. goroutine[o].user \in Chats
      BY <2>2, OwnerUser DEF Owner, Submission
    <3>2. goroutine'[n].at \notin Owner
      BY <1>1 DEF Owner, Submission
    <3> QED
      BY <1>1, <1>6, <1>11, <2>2, <3>1, <3>2 DEF GoroutineInv, EntryOf
  <2>3. CASE o # n /\ goroutine[o].at \notin Owner
    BY <1>1, <2>3 DEF EntryOf
  <2> QED
    BY <2>1, <2>2, <2>3
<1>13. \A o \in Commands : goroutine[o].at = "cancelling" => goroutine[o].task # t
  <2> SUFFICES ASSUME NEW o \in Commands, goroutine[o].at = "cancelling",
                      goroutine[o].task = t
               PROVE  FALSE
    OBVIOUS
  <2>1. Known(t, goroutine[o].user) /\ (SameTask(o) => active[goroutine[o].user].cancelling)
    BY <1>6 DEF GoroutineInv, CancelClaimed
  <2>2. goroutine[o].user = u
    BY <1>9, <2>1 DEF Known
  <2>3. SameTask(o)
    BY <1>2, <2>2 DEF SameTask
  <2> QED
    BY <1>2, <2>1, <2>2, <2>3
<1>14. ASSUME NEW o \in Commands PROVE CancelClaimed(o)'
  <2>1. CASE o = n
    <3>1. goroutine'[n].user = u /\ goroutine'[n].task = t
      BY <1>1
    <3> QED
      BY <1>1, <1>5, <1>8, <1>9, <1>13, <2>1, <3>1 DEF CancelClaimed
  <2>2. CASE o # n /\ goroutine[o].at = "cancelling"
    <3>1. /\ Known(goroutine[o].task, goroutine[o].user) /\ goroutine[o].user \in Chats
          /\ SameTask(o) => active[goroutine[o].user].cancelling
          /\ \A p \in Commands \ {o} :
               goroutine[p].at = "cancelling" => goroutine[p].task # goroutine[o].task
      BY <1>6, <2>2, OwnerUser DEF GoroutineInv, CancelClaimed
    <3>2. SameTask(o)' => active'[goroutine[o].user].cancelling
      BY <1>1, <1>4, <1>5, <1>11, <2>2, <3>1 DEF SameTask
    <3>3. goroutine'[n].task # goroutine[o].task
      BY <1>1, <1>13, <2>2
    <3> QED
      BY <1>1, <1>8, <2>2, <3>1, <3>2, <3>3 DEF CancelClaimed
  <2>3. CASE o # n /\ goroutine[o].at # "cancelling"
    BY <1>1, <2>3 DEF CancelClaimed
  <2> QED
    BY <2>1, <2>2, <2>3
<1>15. ASSUME NEW v \in Chats PROVE EntryKnown(v)'
  BY <1>6, <1>8, <1>11 DEF EntryKnown
<1> QED
  BY <1>6, <1>10, <1>12, <1>14, <1>15 DEF BooksInv, GoroutineInv, TaskStates

(* The task is created, and its goroutine knows it. *)
LEMMA BooksSubmitted ==
  ASSUME BotInv, BooksInv, NEW n \in Commands, Submitted(n)
  PROVE  BooksInv'
<1>1. /\ goroutine[n].at = "submitting" /\ goroutine'[n].at = "created"
      /\ goroutine'[n].user = goroutine[n].user /\ goroutine'[n].task = n
      /\ \A o \in Commands \ {n} : goroutine'[o] = goroutine[o]
  BY DEF Submitted, BotInv, Goroutine
<1>2. /\ tasks'[n] = "active" /\ \A o \in Commands \ {n} : tasks'[o] = tasks[o]
      /\ TaskStates' /\ UNCHANGED <<handled, stopping, active>>
  BY DEF Submitted, BooksInv, TaskStates, people, books
<1>3. /\ \A o \in Commands : GoroutineInv(o)
      /\ \A u \in Chats : EntryKnown(u)
  BY DEF BooksInv
<1>4. \A t, u : Known(t, u) => Known(t, u)'
  BY <1>1 DEF Known, Early
<1>5. ASSUME NEW o \in Commands PROVE TaskInv(o)'
  <2>1. TaskInv(o) /\ TaskInv(n)
    BY <1>3 DEF GoroutineInv
  <2>2. CASE o = n
    BY <1>1, <1>2, <2>1, <2>2 DEF TaskInv
  <2>3. CASE o # n
    BY <1>1, <1>2, <2>1, <2>3 DEF TaskInv
  <2> QED
    BY <2>2, <2>3
<1>6. ASSUME NEW o \in Commands PROVE EntryOf(o)'
  <2>1. CASE o = n
    BY <1>1, <1>2, <1>3, <2>1 DEF GoroutineInv, EntryOf, Owner, Submission, Early
  <2>2. CASE o # n
    BY <1>1, <1>2, <1>3, <2>2 DEF GoroutineInv, EntryOf, Owner, Submission
  <2> QED
    BY <2>1, <2>2
<1>7. ASSUME NEW o \in Commands PROVE CancelClaimed(o)'
  BY <1>1, <1>2, <1>3, <1>4 DEF GoroutineInv, CancelClaimed, SameTask
<1>8. \A u \in Chats : EntryKnown(u)'
  BY <1>2, <1>3, <1>4 DEF EntryKnown
<1> QED
  BY <1>2, <1>5, <1>6, <1>7, <1>8 DEF BooksInv, GoroutineInv

(* setActiveTaskID: the entry gets the task, which no cancellation can     *)
(* have had before.                                                        *)
LEMMA BooksAnnounce ==
  ASSUME BotInv, BooksInv, NEW n \in Commands, Announce(n)
  PROVE  BooksInv'
<1> DEFINE u == goroutine[n].user
<1>1. /\ goroutine[n].at = "created" /\ goroutine'[n].at = "announcing"
      /\ goroutine'[n].user = u /\ goroutine'[n].task = goroutine[n].task
      /\ \A o \in Commands \ {n} : goroutine'[o] = goroutine[o]
  BY AtFacts DEF Announce
<1>2. /\ \A o \in Commands : GoroutineInv(o)
      /\ \A v \in Chats : EntryKnown(v)
      /\ TaskStates' /\ UNCHANGED <<handled, stopping, tasks>>
  BY DEF BooksInv, Announce, people, TaskStates
<1>3. goroutine[n].task = n /\ u \in Chats /\ active[u] # None
  BY <1>1, <1>2, OwnerUser DEF GoroutineInv, TaskInv, EntryOf, Owner, Submission
<1>4. active[u] \in [task : 0 .. MaxCommands, cancelling : BOOLEAN]
  BY <1>3, EntryFacts
<1>5. /\ active'[u] = [active[u] EXCEPT !.task = n]
      /\ \A v \in Chats \ {u} : active'[v] = active[v]
  BY <1>3 DEF Announce, setActiveTaskID, BotInv
<1>6. active'[u] # None /\ active'[u].task = n
  <2>1. active'[u] \in [task : 0 .. MaxCommands, cancelling : BOOLEAN]
    BY <1>4, <1>5, BotTasksAssumption DEF Commands
  <2> QED
    BY <1>4, <1>5, <2>1, BotTasksAssumption
<1>7. \A t, v : Known(t, v) => Known(t, v)'
  BY <1>1 DEF Known, Early
<1>8. ASSUME NEW o \in Commands PROVE TaskInv(o)'
  <2>1. TaskInv(o)
    BY <1>2 DEF GoroutineInv
  <2>2. CASE o = n
    BY <1>1, <1>2, <2>1, <2>2 DEF TaskInv
  <2>3. CASE o # n
    BY <1>1, <1>2, <2>1, <2>3 DEF TaskInv
  <2> QED
    BY <2>2, <2>3
<1>9. ASSUME NEW o \in Commands PROVE EntryOf(o)'
  <2>1. CASE o = n
    BY <1>1, <1>2, <1>3, <1>6, <2>1 DEF GoroutineInv, EntryOf, Owner, Submission, Early
  <2>2. CASE o # n /\ goroutine[o].at \in Owner
    <3>1. goroutine[o].user \in Chats \ {u}
      <4>1. goroutine[o].user # u
        BY <1>1, <1>2, <2>2 DEF GoroutineInv, EntryOf, Owner, Submission
      <4> QED
        BY <2>2, <4>1, OwnerUser DEF Owner, Submission
    <3> QED
      BY <1>1, <1>2, <1>5, <2>2, <3>1 DEF GoroutineInv, EntryOf, Owner, Submission
  <2>3. CASE o # n /\ goroutine[o].at \notin Owner
    BY <1>1, <2>3 DEF EntryOf
  <2> QED
    BY <2>1, <2>2, <2>3
<1>10. ASSUME NEW o \in Commands PROVE CancelClaimed(o)'
  <2>1. CASE goroutine[o].at = "cancelling"
    <3>1. Known(goroutine[o].task, goroutine[o].user) /\ goroutine[o].user \in Chats
      BY <1>2, <2>1, OwnerUser DEF GoroutineInv, CancelClaimed
    <3>2. goroutine[o].task # n /\ o # n
      BY <1>1, <2>1, <3>1 DEF Known, Early
    <3>3. SameTask(o)' => SameTask(o) /\ active'[goroutine[o].user] = active[goroutine[o].user]
      <4>1. goroutine'[o] = goroutine[o]
        BY <1>1, <3>2
      <4>2. CASE goroutine[o].user = u
        BY <1>6, <3>2, <4>1, <4>2 DEF SameTask
      <4>3. CASE goroutine[o].user # u
        BY <1>5, <3>1, <4>1, <4>3 DEF SameTask
      <4> QED
        BY <4>2, <4>3
    <3> QED
      BY <1>1, <1>2, <1>7, <2>1, <3>2, <3>3 DEF GoroutineInv, CancelClaimed
  <2>2. CASE goroutine[o].at # "cancelling"
    BY <1>1, <2>2 DEF CancelClaimed
  <2> QED
    BY <2>1, <2>2
<1>11. ASSUME NEW v \in Chats PROVE EntryKnown(v)'
  <2>2. CASE v = u
    <3>1. active'[v].task = n /\ goroutine'[n].user = v
      BY <1>1, <1>6, <2>2
    <3> QED
      BY <1>1, <3>1 DEF EntryKnown, Known, Early
  <2>3. CASE v # u
    BY <1>2, <1>5, <1>7, <2>3 DEF EntryKnown
  <2> QED
    BY <2>2, <2>3
<1> QED
  BY <1>2, <1>8, <1>9, <1>10, <1>11 DEF BooksInv, GoroutineInv

(* clearActive: the goroutine gives back its own entry. *)
LEMMA BooksClear ==
  ASSUME BotInv, BooksInv, NEW n \in Commands, Clear(n)
  PROVE  BooksInv'
<1> DEFINE u == goroutine[n].user
<1>1. /\ goroutine[n].at = "clearing" /\ goroutine'[n].at = "leaving"
      /\ goroutine'[n].user = u /\ goroutine'[n].task = goroutine[n].task
      /\ \A o \in Commands \ {n} : goroutine'[o] = goroutine[o]
  BY AtFacts DEF Clear
<1>2. /\ \A o \in Commands : GoroutineInv(o)
      /\ \A v \in Chats : EntryKnown(v)
      /\ TaskStates' /\ UNCHANGED <<handled, stopping, tasks>>
  BY DEF BooksInv, Clear, people, TaskStates
<1>3. u \in Chats
  BY <1>1, OwnerUser
<1>4. active'[u] = None /\ \A v \in Chats \ {u} : active'[v] = active[v]
  <2>1. active[u] # None /\ active[u].task = goroutine[n].task
    BY <1>1, <1>2 DEF GoroutineInv, EntryOf, Owner, Submission, Early
  <2> QED
    BY <1>3, <2>1 DEF Clear, clearActive, BotInv
<1>5. \A t, v : Known(t, v) => Known(t, v)'
  BY <1>1 DEF Known, Early
<1>6. ASSUME NEW o \in Commands PROVE TaskInv(o)'
  <2>1. TaskInv(o)
    BY <1>2 DEF GoroutineInv
  <2>2. CASE o = n
    BY <1>1, <1>2, <2>1, <2>2 DEF TaskInv
  <2>3. CASE o # n
    BY <1>1, <1>2, <2>1, <2>3 DEF TaskInv
  <2> QED
    BY <2>2, <2>3
<1>7. ASSUME NEW o \in Commands PROVE EntryOf(o)'
  <2>1. CASE o = n
    BY <1>1, <2>1 DEF EntryOf, Owner
  <2>2. CASE o # n /\ goroutine[o].at \in Owner
    <3>1. goroutine[o].user \in Chats \ {u}
      <4>1. goroutine[o].user # u
        BY <1>1, <1>2, <2>2 DEF GoroutineInv, EntryOf, Owner, Submission
      <4> QED
        BY <2>2, <4>1, OwnerUser DEF Owner, Submission
    <3>2. goroutine'[n].at \notin Owner
      BY <1>1 DEF Owner
    <3> QED
      BY <1>1, <1>2, <1>4, <2>2, <3>1, <3>2 DEF GoroutineInv, EntryOf
  <2>3. CASE o # n /\ goroutine[o].at \notin Owner
    BY <1>1, <2>3 DEF EntryOf
  <2> QED
    BY <2>1, <2>2, <2>3
<1>8. ASSUME NEW o \in Commands PROVE CancelClaimed(o)'
  <2>1. CASE goroutine[o].at = "cancelling"
    <3>1. goroutine[o].user \in Chats /\ o # n
      BY <1>1, <2>1, OwnerUser
    <3>2. SameTask(o)' => SameTask(o) /\ active'[goroutine[o].user] = active[goroutine[o].user]
      BY <1>1, <1>4, <3>1 DEF SameTask
    <3> QED
      BY <1>1, <1>2, <1>5, <2>1, <3>1, <3>2 DEF GoroutineInv, CancelClaimed
  <2>2. CASE goroutine[o].at # "cancelling"
    BY <1>1, <2>2 DEF CancelClaimed
  <2> QED
    BY <2>1, <2>2
<1>9. ASSUME NEW v \in Chats PROVE EntryKnown(v)'
  BY <1>2, <1>4, <1>5 DEF EntryKnown
<1> QED
  BY <1>2, <1>6, <1>7, <1>8, <1>9 DEF BooksInv, GoroutineInv

(* clearCancellation gives the claim back, which nobody else has. *)
LEMMA BooksCancelFails ==
  ASSUME BotInv, BooksInv, NEW n \in Commands, CancelFails(n)
  PROVE  BooksInv'
<1> DEFINE u == goroutine[n].user
<1>1. /\ goroutine[n].at = "cancelling" /\ goroutine'[n].at = "ending"
      /\ goroutine'[n].user = u /\ goroutine'[n].task = goroutine[n].task
      /\ \A o \in Commands \ {n} : goroutine'[o] = goroutine[o]
  BY AtFacts DEF CancelFails
<1>2. /\ \A o \in Commands : GoroutineInv(o)
      /\ \A v \in Chats : EntryKnown(v)
      /\ TaskStates' /\ UNCHANGED <<handled, stopping, tasks>>
  BY DEF BooksInv, CancelFails, people, TaskStates
<1>3. u \in Chats /\ Known(goroutine[n].task, u)
  BY <1>1, <1>2, OwnerUser DEF GoroutineInv, CancelClaimed
<1>4. \A v \in Chats : /\ active'[v] = None <=> active[v] = None
                       /\ active[v] # None => active'[v].task = active[v].task
                       /\ active'[v] = active[v] \/ (v = u /\ SameTask(n))
  <2>1. CASE ~SameTask(n)
    BY <2>1 DEF CancelFails, clearCancellation, GiveBack
  <2>2. CASE SameTask(n)
    <3>1. active[u] \in [task : 0 .. MaxCommands, cancelling : BOOLEAN] /\ active[u] # None
      BY <1>3, <2>2, EntryFacts DEF SameTask
    <3>2. /\ active'[u] = [active[u] EXCEPT !.cancelling = FALSE]
          /\ \A v \in Chats \ {u} : active'[v] = active[v]
      BY <1>3, <2>2 DEF CancelFails, clearCancellation, GiveBack, BotInv
    <3>3. active'[u] \in [task : 0 .. MaxCommands, cancelling : BOOLEAN]
      BY <3>1, <3>2
    <3>4. active'[u] # None /\ active'[u].task = active[u].task
      BY <3>1, <3>2, <3>3, BotTasksAssumption
    <3> QED
      BY <2>2, <3>1, <3>2, <3>4
  <2> QED
    BY <2>1, <2>2
<1>5. \A t, v : Known(t, v) => Known(t, v)'
  BY <1>1 DEF Known, Early
<1>6. ASSUME NEW o \in Commands PROVE TaskInv(o)'
  <2>1. TaskInv(o)
    BY <1>2 DEF GoroutineInv
  <2>2. CASE o = n
    BY <1>1, <1>2, <2>1, <2>2 DEF TaskInv
  <2>3. CASE o # n
    BY <1>1, <1>2, <2>1, <2>3 DEF TaskInv
  <2> QED
    BY <2>2, <2>3
<1>7. ASSUME NEW o \in Commands PROVE EntryOf(o)'
  <2>1. CASE o = n
    BY <1>1, <2>1 DEF EntryOf, Owner, Submission
  <2>2. CASE o # n /\ goroutine[o].at \in Owner
    <3>1. goroutine[o].user \in Chats
      BY <2>2, OwnerUser DEF Owner, Submission
    <3>2. goroutine'[n].at \notin Owner
      BY <1>1 DEF Owner, Submission
    <3> QED
      BY <1>1, <1>2, <1>4, <2>2, <3>1, <3>2 DEF GoroutineInv, EntryOf
  <2>3. CASE o # n /\ goroutine[o].at \notin Owner
    BY <1>1, <2>3 DEF EntryOf
  <2> QED
    BY <2>1, <2>2, <2>3
<1>8. ASSUME NEW o \in Commands PROVE CancelClaimed(o)'
  <2>1. CASE o # n /\ goroutine[o].at = "cancelling"
    <3>1. /\ goroutine[o].user \in Chats /\ goroutine[o].task # goroutine[n].task
          /\ Known(goroutine[o].task, goroutine[o].user)
          /\ SameTask(o) => active[goroutine[o].user].cancelling
      BY <1>1, <1>2, <2>1, OwnerUser DEF GoroutineInv, CancelClaimed
    <3>2. SameTask(o)' => SameTask(o) /\ active'[goroutine[o].user] = active[goroutine[o].user]
      BY <1>1, <1>4, <2>1, <3>1 DEF SameTask
    <3> QED
      BY <1>1, <1>2, <1>5, <2>1, <3>1, <3>2 DEF GoroutineInv, CancelClaimed
  <2>2. CASE ~(o # n /\ goroutine[o].at = "cancelling")
    BY <1>1, <2>2 DEF CancelClaimed
  <2> QED
    BY <2>1, <2>2
<1>9. ASSUME NEW v \in Chats PROVE EntryKnown(v)'
  BY <1>2, <1>4, <1>5 DEF EntryKnown
<1> QED
  BY <1>2, <1>6, <1>7, <1>8, <1>9 DEF BooksInv, GoroutineInv

LEMMA BooksWork ==
  ASSUME BotInv, BooksInv, NEW n \in Commands, Work(n)
  PROVE  BooksInv'
<1> USE DEF people, books
<1>0. TaskStates /\ TaskInv(n)
  BY DEF BooksInv, GoroutineInv
<1>1. CASE SubmitFails(n)
  <2>1. tasks[n] = "none"
    BY <1>0, <1>1 DEF SubmitFails, TaskInv
  <2>2. \E at \in {"clearing", "reporting"} : At(n, at)
    BY <1>1 DEF SubmitFails
  <2>3. UNCHANGED <<handled, stopping, tasks, active>> /\ goroutine[n].at = "submitting"
    BY <1>1 DEF SubmitFails
  <2> QED
    BY <1>0, <2>1, <2>2, <2>3, BooksMove DEF TaskStates, Owner, Submission
<1>2. CASE Announced(n)
  BY <1>0, <1>2, BooksMove DEF Announced, TaskStates, Owner, Submission
<1>3. CASE WaitEnds(n)
  BY <1>0, <1>3, BooksMove DEF WaitEnds, TaskStates, Owner, Submission
<1>4. CASE WaitFails(n)
  BY <1>0, <1>4, BooksMove DEF WaitFails, TaskStates, Owner, Submission
<1>5. CASE Reported(n)
  BY <1>0, <1>5, BooksMove DEF Reported, TaskStates, Owner, Submission, TaskInv
<1>6. CASE Leave(n)
  BY <1>0, <1>6, BooksMove DEF Leave, TaskStates, Owner, Submission, TaskInv
<1>7. CASE CancelEnds(n)
  BY <1>0, <1>7, BooksMove DEF CancelEnds, TaskStates, Owner, Submission, TaskInv
<1>8. CASE CancelSucceeds(n)
  <2>1. goroutine[n].at = "cancelling" /\ tasks[n] = "none"
    BY <1>0, <1>8 DEF CancelSucceeds, TaskInv
  <2>2. goroutine[n].task \in Commands
    BY <2>1 DEF BooksInv, GoroutineInv, CancelClaimed, Known
  <2>3. /\ TaskStates'
        /\ \A o \in Commands : tasks'[o] = tasks[o] \/ (tasks[o] = "active" /\ tasks'[o] = "over")
    BY <1>0, <1>8, <2>2 DEF CancelSucceeds, TaskStates
  <2>4. tasks'[n] # "active"
    BY <2>1, <2>3
  <2>5. At(n, "ending") /\ UNCHANGED <<handled, stopping, active>>
    BY <1>8 DEF CancelSucceeds
  <2> QED
    BY <2>1, <2>3, <2>4, <2>5, BooksMove DEF Owner, Submission
<1> QED
  BY <1>1, <1>2, <1>3, <1>4, <1>5, <1>6, <1>7, <1>8, BooksSubmitted, BooksAnnounce,
     BooksClear, BooksCancelFails DEF Work

LEMMA BooksInit == Init => BooksInv
  BY BotTasksAssumption
  DEF Init, BooksInv, TaskStates, GoroutineInv, TaskInv, EntryOf, CancelClaimed,
      EntryKnown, Owner, Submission

LEMMA BooksStep == BotInv /\ BooksInv /\ [Next]_vars => BooksInv'
<1> SUFFICES ASSUME BotInv, BooksInv, [Next]_vars PROVE BooksInv'
  OBVIOUS
<1> USE DEF people, books
<1>0. TaskStates
  BY DEF BooksInv
<1>1. ASSUME UNCHANGED <<active, goroutine, tasks>>, handled' \in {handled, handled + 1},
             stopping => stopping'
      PROVE  BooksInv'
  BY <1>0, <1>1, BooksFrame DEF TaskStates
<1>2. ASSUME NEW u \in Chats, Handle(u) PROVE BooksInv'
  <2>1. CASE Talk(u) \/ Press(u) \/ Refuse(u) \/ DropSubmission \/ NothingToCancel(u)
    BY <1>1, <2>1 DEF Talk, Press, Refuse, DropSubmission, NothingToCancel, TakeCommand,
                      NextCommand
  <2> QED
    BY <1>2, <2>1, BooksSubmit, BooksCancel DEF Handle
<1>3. CASE Loop
  BY <1>1, <1>3 DEF Loop, Pressed, PressGivenUp, StopPolling, Join, Return, Run
<1>4. CASE Stop
  BY <1>1, <1>4 DEF Stop
<1>5. ASSUME NEW u \in Chats, Deliver(u) PROVE BooksInv'
  BY <1>1, <1>5 DEF Deliver, Drain, SendReturns
<1>6. ASSUME NEW m \in entering, Insert(m) PROVE BooksInv'
  BY <1>1, <1>6 DEF Insert
<1>7. ASSUME NEW m \in waiting, SenderLeaves(m) PROVE BooksInv'
  BY <1>1, <1>7 DEF SenderLeaves
<1>8. ASSUME NEW n \in Commands, TaskOver(n) PROVE BooksInv'
  <2>1. /\ tasks' \in [Commands -> {"none", "active", "over"}]
        /\ \A o \in Commands : tasks'[o] = tasks[o] \/ (tasks[o] = "active" /\ tasks'[o] = "over")
    BY <1>0, <1>8 DEF TaskOver, TaskStates
  <2> QED
    BY <1>8, <2>1, BooksFrame DEF TaskOver
<1>9. CASE UNCHANGED vars
  BY <1>1, <1>9 DEF vars
<1> QED
  BY <1>2, <1>3, <1>4, <1>5, <1>6, <1>7, <1>8, <1>9, BooksWork DEF Next

(* A user never has two unfinished tasks on the server, unless the bot was *)
(* stopped (active_tasks.go:19), for any number of users and commands.     *)
THEOREM OneTaskTheorem == Spec => []OneTaskPerUser
<1>1. BooksInv => OneTaskPerUser
  BY DEF BooksInv, GoroutineInv, TaskInv, EntryOf, Owner, Submission, OneTaskPerUser
<1> QED
  BY <1>1, BotInitInv, BotStepInv, BooksInit, BooksStep, PTL DEF Spec

(* At most one cancellation of a task is on its way, and the user cannot   *)
(* start another meanwhile, although cancellations fail and tasks are      *)
(* replaced in between (active_tasks.go:60-62).                            *)
THEOREM OneCancelTheorem == Spec => []OneCancelInFlight
<1>1. BooksInv => OneCancelInFlight
  BY DEF BooksInv, GoroutineInv, CancelClaimed, OneCancelInFlight, Claimable, SameTask
<1> QED
  BY <1>1, BotInitInv, BotStepInv, BooksInit, BooksStep, PTL DEF Spec

----------------------------------------------------------------------------
(* The counters of the bot: a message is entered once, because its sender  *)
(* has moved on by then.                                                   *)

ComesFrom(m) ==
  /\ m.kind \in {"reply", "edit"} => m.by <= handled
  /\ m.kind = "announce" => goroutine[m.by].at \notin {"none"} \cup Early
  /\ m.kind = "report" => goroutine[m.by].at \in {"reporting", "clearing", "leaving", "gone"}
  /\ m.kind = "answer" => goroutine[m.by].at \in {"clearing", "leaving", "ending", "gone"}
FromInv == \A m \in Outstanding : m \in Messages /\ ComesFrom(m)

(* What a step of the bot does with messages. *)
BotDelivers == QueueStep \/ \E m \in Messages : EnterStep(m) /\ ComesFrom(m)'

LEMMA TextEnters ==
  ASSUME FromInv, NEW n \in Commands, NEW kind \in Texts, NEW u \in Chats,
         ~ComesFrom(MessageOf(n, kind, u)), ComesFrom(MessageOf(n, kind, u))',
         sendText(n, kind, u)
  PROVE  BotDelivers
<1>1. MessageOf(n, kind, u) \in Messages \ Outstanding
  BY MessageOfType DEF FromInv
<1>2. MessageOf(n, kind, u).kind \in Texts
  BY DEF MessageOf
<1> QED
  BY <1>1, <1>2 DEF sendText, BotDelivers, QueueStep, EnterStep, MessageOf

LEMMA OrderedEnters ==
  ASSUME FromInv, NEW n \in Commands, NEW kind \in Ordered, NEW u \in Chats,
         ~ComesFrom(MessageOf(n, kind, u)), ComesFrom(MessageOf(n, kind, u))',
         sendOrdered(n, kind, u), UNCHANGED textSlots
  PROVE  BotDelivers
<1>1. MessageOf(n, kind, u) \in Messages \ Outstanding
  BY MessageOfType DEF FromInv
<1>2. MessageOf(n, kind, u).kind \notin Texts
  BY DEF MessageOf, Texts, Ordered
<1> QED
  BY <1>1, <1>2 DEF sendOrdered, BotDelivers, EnterStep, MessageOf

LEMMA HandleDelivers ==
  ASSUME BotInv, FromInv, NEW u \in Chats, Handle(u)
  PROVE  BotDelivers
<1>1. CASE UNCHANGED <<delivery, textSlots>>
  BY <1>1 DEF BotDelivers, QueueStep
<1>2. CASE TakeCommand /\ (Reply(u) \/ Edit(u))
  <2> DEFINE n == handled + 1
  <2>1. NextCommand = n /\ n \in Commands /\ handled' = n /\ handled \in Nat
    BY <1>2, BotTasksAssumption
    DEF TakeCommand, CanHandle, NextCommand, BotInv, Commands
  <2>2. \A kind \in {"reply", "edit"} :
          ~ComesFrom(MessageOf(n, kind, u)) /\ ~(n <= handled) /\ n <= handled'
    <3>1. ~(n <= handled) /\ n <= handled'
      BY <2>1
    <3> QED
      BY <3>1 DEF ComesFrom, MessageOf
  <2>3. \A k, kind : k = handled' /\ kind \in {"reply", "edit"} =>
          ComesFrom(MessageOf(k, kind, u))'
    <3>1. handled' <= handled'
      BY <2>1
    <3> QED
      BY <3>1 DEF ComesFrom, MessageOf
  <2> HIDE DEF n
  <2>4. CASE Reply(u)
    BY <2>1, <2>2, <2>3, <2>4, TextEnters DEF Reply, Texts
  <2>5. CASE Edit(u)
    BY <2>1, <2>2, <2>3, <2>5, OrderedEnters DEF Edit, Ordered
  <2> QED
    BY <1>2, <2>4, <2>5
<1>3. CASE Talk(u) \/ Press(u) \/ Refuse(u) \/ NothingToCancel(u)
  BY <1>2, <1>3 DEF Talk, Press, Refuse, NothingToCancel
<1>4. CASE DropSubmission \/ Submit(u) \/ Cancel(u)
  BY <1>1, <1>4 DEF DropSubmission, Submit, Cancel
<1> QED
  BY <1>3, <1>4 DEF Handle

LEMMA WorkDelivers ==
  ASSUME BotInv, FromInv, NEW n \in Commands, Work(n)
  PROVE  BotDelivers
<1> DEFINE u == goroutine[n].user
<1>1. CASE UNCHANGED <<delivery, textSlots>>
  BY <1>1 DEF BotDelivers, QueueStep
<1>2. goroutine[n].at # "none" => u \in Chats
  BY OwnerUser
<1>3. ASSUME NEW at, At(n, at), NEW kind \in {"announce", "report", "answer"}, NEW v,
             kind = "announce" => goroutine[n].at = "created" /\ at = "announcing",
             kind = "report" => goroutine[n].at \in {"submitting", "waiting"} /\ at = "reporting",
             kind = "answer" => goroutine[n].at \in {"submitting", "cancelling"}
                                  /\ at \in {"clearing", "ending"}
      PROVE  ~ComesFrom(MessageOf(n, kind, v)) /\ ComesFrom(MessageOf(n, kind, v))'
  <2>1. goroutine'[n].at = at
    BY <1>3, AtFacts
  <2>2. ~ComesFrom(MessageOf(n, kind, v))
    BY <1>3 DEF ComesFrom, MessageOf, Early
  <2>3. ComesFrom(MessageOf(n, kind, v))'
    BY <1>3, <2>1 DEF ComesFrom, MessageOf, Early
  <2> QED
    BY <2>2, <2>3
<1> HIDE DEF u
<1>4. CASE SubmitFails(n)
  <2>1. u \in Chats /\ goroutine[n].at = "submitting"
    BY <1>2, <1>4 DEF SubmitFails
  <2>2. CASE sendText(n, "answer", u) /\ At(n, "clearing")
    <3>1. ~ComesFrom(MessageOf(n, "answer", u)) /\ \A v : ComesFrom(MessageOf(n, "answer", v))'
      BY <1>3, <2>1, <2>2
    <3> QED
      BY <2>1, <2>2, <3>1, TextEnters DEF Texts
  <2>3. CASE sendOrdered(n, "report", u) /\ At(n, "reporting") /\ UNCHANGED textSlots
    <3>1. ~ComesFrom(MessageOf(n, "report", u)) /\ \A v : ComesFrom(MessageOf(n, "report", v))'
      BY <1>3, <2>1, <2>3
    <3> QED
      BY <2>1, <2>3, <3>1, OrderedEnters DEF Ordered
  <2> QED
    BY <1>4, <2>2, <2>3 DEF SubmitFails, u
<1>5. CASE Announce(n)
  <2>1. u \in Chats /\ goroutine[n].at = "created" /\ At(n, "announcing")
        /\ sendOrdered(n, "announce", u) /\ UNCHANGED textSlots
    BY <1>2, <1>5 DEF Announce, u
  <2>2. ~ComesFrom(MessageOf(n, "announce", u)) /\ \A v : ComesFrom(MessageOf(n, "announce", v))'
    BY <1>3, <2>1
  <2> QED
    BY <2>1, <2>2, OrderedEnters DEF Ordered
<1>6. CASE WaitEnds(n)
  <2>1. u \in Chats /\ goroutine[n].at = "waiting" /\ At(n, "reporting")
        /\ sendOrdered(n, "report", u) /\ UNCHANGED textSlots
    BY <1>2, <1>6 DEF WaitEnds, u
  <2>2. ~ComesFrom(MessageOf(n, "report", u)) /\ \A v : ComesFrom(MessageOf(n, "report", v))'
    BY <1>3, <2>1
  <2> QED
    BY <2>1, <2>2, OrderedEnters DEF Ordered
<1>7. CASE CancelSucceeds(n) \/ CancelFails(n)
  <2>1. u \in Chats /\ goroutine[n].at = "cancelling" /\ At(n, "ending")
        /\ sendText(n, "answer", u)
    BY <1>2, <1>7 DEF CancelSucceeds, CancelFails, u
  <2>2. ~ComesFrom(MessageOf(n, "answer", u)) /\ \A v : ComesFrom(MessageOf(n, "answer", v))'
    BY <1>3, <2>1
  <2> QED
    BY <2>1, <2>2, TextEnters DEF Texts
<1>8. CASE Submitted(n) \/ Announced(n) \/ WaitFails(n) \/ Reported(n) \/ Clear(n)
           \/ Leave(n) \/ CancelEnds(n)
  BY <1>1, <1>8 DEF Submitted, Announced, WaitFails, Reported, Clear, Leave, CancelEnds
<1> QED
  BY <1>4, <1>5, <1>6, <1>7, <1>8 DEF Work

LEMMA StepDelivers == BotInv /\ QueueTypeOK /\ FromInv /\ [Next]_vars => BotDelivers
<1> SUFFICES ASSUME BotInv, QueueTypeOK, FromInv, [Next]_vars PROVE BotDelivers
  OBVIOUS
<1>1. CASE UNCHANGED <<delivery, textSlots>>
  BY <1>1 DEF BotDelivers, QueueStep
<1>2. ASSUME NEW u \in Chats, Deliver(u) PROVE BotDelivers
  <2>1. CASE Drain(u)
    BY <2>1 DEF Drain, BotDelivers, QueueStep
  <2>2. ASSUME NEW m \in sending[u], SendReturns(u, m) PROVE BotDelivers
    <3>1. m \in Messages
      BY DEF QueueTypeOK
    <3> QED
      BY <2>2, <3>1 DEF SendReturns, BotDelivers, QueueStep
  <2> QED
    BY <1>2, <2>1, <2>2 DEF Deliver
<1>3. ASSUME NEW m \in entering, Insert(m) PROVE BotDelivers
  <2>1. m \in Messages
    BY DEF QueueTypeOK
  <2> QED
    BY <1>3, <2>1 DEF Insert, BotDelivers, QueueStep
<1>4. CASE Loop \/ Stop
  BY <1>1, <1>4 DEF Loop, Pressed, PressGivenUp, StopPolling, Join, Return, Run, Stop
<1>5. CASE \E n \in Commands : TaskOver(n)
  BY <1>1, <1>5 DEF TaskOver
<1>6. CASE \E m \in waiting : SenderLeaves(m)
  BY <1>1, <1>6 DEF SenderLeaves
<1>7. CASE UNCHANGED vars
  BY <1>1, <1>7 DEF vars
<1> QED
  BY <1>2, <1>3, <1>4, <1>5, <1>6, <1>7, HandleDelivers, WorkDelivers DEF Next

(* Goroutines only move on. *)
LEMMA MovesOn ==
  ASSUME BotInv, BooksInv, [Next]_vars, NEW m \in Messages, ComesFrom(m)
  PROVE  ComesFrom(m)'
<1>0. m.by \in Commands /\ m.kind \in Texts \cup Ordered
  BY BotTasksAssumption DEF Message
<1>1. CASE goroutine'[m.by] = goroutine[m.by] /\ handled' \in {handled, handled + 1}
  <2>1. m.by <= handled => m.by <= handled'
    BY <1>0, <1>1 DEF BotInv, Commands
  <2> QED
    BY <1>1, <2>1 DEF ComesFrom
<1>2. ASSUME NEW u \in Chats, Handle(u) PROVE ComesFrom(m)'
  <2>1. handled' = handled + 1
    BY <1>2 DEF Handle, Talk, Press, Refuse, DropSubmission, Submit, NothingToCancel,
                Cancel, TakeCommand, NextCommand
  <2>2. CASE UNCHANGED goroutine
    BY <1>1, <2>1, <2>2
  <2>3. CASE Submit(u) \/ Cancel(u)
    <3>1. /\ NextCommand \in Commands /\ NextCommand > handled
          /\ \A o \in Commands \ {NextCommand} : goroutine'[o] = goroutine[o]
      BY <2>3, BotTasksAssumption
      DEF Submit, Cancel, TakeCommand, CanHandle, NextCommand, BotInv, Commands
    <3>2. goroutine[NextCommand].at = "none"
      BY <3>1 DEF BooksInv, GoroutineInv, TaskInv
    <3>3. CASE m.by # NextCommand
      BY <1>0, <1>1, <2>1, <3>1, <3>3
    <3>4. CASE m.by = NextCommand
      <4>1. m.kind \notin {"announce", "report", "answer"} /\ ~(m.by <= handled)
        BY <3>1, <3>2, <3>4 DEF ComesFrom, BotInv, Commands
      <4> QED
        BY <1>0, <4>1 DEF ComesFrom, Texts, Ordered
    <3> QED
      BY <3>3, <3>4
  <2> QED
    BY <1>2, <2>2, <2>3 DEF Handle, Talk, Press, Refuse, DropSubmission, NothingToCancel
<1>3. ASSUME NEW n \in Commands, Work(n) PROVE ComesFrom(m)'
  <2>1. handled' = handled
    BY <1>3 DEF Work, Submitted, SubmitFails, Announce, Announced, WaitEnds, WaitFails,
                Reported, Clear, Leave, CancelSucceeds, CancelFails, CancelEnds, people
  <2>2. \A o \in Commands \ {n} : goroutine'[o] = goroutine[o]
    <3>1. CASE Submitted(n)
      BY <3>1 DEF Submitted, BotInv, Goroutine
    <3>2. CASE \E at : At(n, at)
      BY <3>2, AtFacts
    <3> QED
      BY <1>3, <3>1, <3>2
      DEF Work, SubmitFails, Announce, Announced, WaitEnds, WaitFails,
          Reported, Clear, Leave, CancelSucceeds, CancelFails, CancelEnds
  <2>0. CASE m.by # n
    BY <1>0, <1>1, <2>0, <2>1, <2>2
  <2>3. CASE Submitted(n)
    <3>1. goroutine[n].at = "submitting" /\ goroutine'[n].at = "created"
      BY <2>3 DEF Submitted, BotInv, Goroutine
    <3>2. CASE m.by = n
      <4>1. m.kind \notin {"announce", "report", "answer"}
        BY <3>1, <3>2 DEF ComesFrom, Early
      <4> QED
        BY <2>1, <4>1 DEF ComesFrom
    <3> QED
      BY <2>0, <3>2
  <2>4. ASSUME NEW at, At(n, at),
               \/ goroutine[n].at \in {"submitting", "created", "cancelling", "announcing",
                                      "waiting"}
                    /\ at \notin {"none"} \cup Early
               \/ goroutine[n].at = "reporting" /\ at = "clearing"
               \/ goroutine[n].at = "clearing" /\ at = "leaving"
               \/ goroutine[n].at \in {"leaving", "ending"} /\ at = "gone"
        PROVE  ComesFrom(m)'
    <3>1. goroutine'[n].at = at /\ at \notin {"none"} \cup Early
      BY <2>4, AtFacts DEF Early
    <3>2. CASE m.by = n
      <4>1. m.kind \in {"reply", "edit"} => m.by <= handled'
        BY <2>1 DEF ComesFrom
      <4>2. m.kind = "report" => at \in {"reporting", "clearing", "leaving", "gone"}
        BY <2>4, <3>2 DEF ComesFrom
      <4>3. m.kind = "answer" => at \in {"clearing", "leaving", "ending", "gone"}
        BY <2>4, <3>2 DEF ComesFrom
      <4> QED
        BY <3>1, <3>2, <4>1, <4>2, <4>3 DEF ComesFrom
    <3> QED
      BY <2>0, <3>2
  <2>5. CASE SubmitFails(n)
    BY <2>4, <2>5 DEF SubmitFails, Early
  <2>6. CASE Announce(n) \/ Announced(n) \/ WaitEnds(n) \/ WaitFails(n)
    BY <2>4, <2>6 DEF Announce, Announced, WaitEnds, WaitFails, Early
  <2>7. CASE CancelSucceeds(n) \/ CancelFails(n)
    BY <2>4, <2>7 DEF CancelSucceeds, CancelFails, Early
  <2>8. CASE Reported(n) \/ Clear(n) \/ Leave(n) \/ CancelEnds(n)
    BY <2>4, <2>8 DEF Reported, Clear, Leave, CancelEnds, Early
  <2> QED
    BY <1>3, <2>3, <2>5, <2>6, <2>7, <2>8 DEF Work
<1>4. ASSUME NEW u \in Chats, Deliver(u) PROVE ComesFrom(m)'
  BY <1>1, <1>4 DEF Deliver, Drain, SendReturns, people
<1>5. CASE Loop \/ Stop
  BY <1>1, <1>5 DEF Loop, Pressed, PressGivenUp, StopPolling, Join, Return, Run, Stop
<1>6. CASE \E n \in Commands : TaskOver(n)
  BY <1>1, <1>6 DEF TaskOver, people
<1>7. CASE \E x \in entering : Insert(x)
  BY <1>1, <1>7 DEF Insert, people
<1>8. CASE \E x \in waiting : SenderLeaves(x)
  BY <1>1, <1>8 DEF SenderLeaves, people
<1>9. CASE UNCHANGED vars
  BY <1>1, <1>9 DEF vars, people
<1> QED
  BY <1>2, <1>3, <1>4, <1>5, <1>6, <1>7, <1>8, <1>9 DEF Next

(* What is counted is there once, and came from where its sender is now.   *)
MessagesInv == OnceInv /\ CountInv /\ FromInv

LEMMA MessagesInit == Init => MessagesInv
<1> SUFFICES ASSUME Init PROVE MessagesInv
  OBVIOUS
<1>1. /\ entering = {} /\ queues = [c \in Chats |-> <<>>] /\ sending = [c \in Chats |-> {}]
      /\ deliveryWG = 0 /\ textSlots = 0
  BY DEF Init, DeliveryInit
<1>2. \A c \in Chats : InQueue(c) = {} /\ sending[c] = {} /\ Injective(queues[c])
  BY <1>1 DEF InQueue, Injective
<1>3. Outstanding = {} /\ OutstandingTexts = {}
  BY <1>1, <1>2 DEF Outstanding, OutstandingTexts
<1> QED
  BY <1>1, <1>2, <1>3, FS_EmptySet DEF MessagesInv, OnceInv, CountInv, FromInv

LEMMA MessagesStep ==
  BotInv /\ BooksInv /\ QueueTypeOK /\ MessagesInv /\ [Next]_vars => MessagesInv'
<1> SUFFICES ASSUME BotInv, BooksInv, QueueTypeOK, MessagesInv, [Next]_vars
             PROVE  MessagesInv'
  OBVIOUS
<1>1. BotDelivers
  BY StepDelivers DEF MessagesInv
<1>2. \A m \in Outstanding : m \in Messages /\ ComesFrom(m)'
  BY MovesOn DEF MessagesInv, FromInv
<1>3. CASE QueueStep
  <2>1. OnceInv' /\ CountInv' /\ Outstanding' \subseteq Outstanding
    BY <1>3, QueueStepKeeps DEF MessagesInv
  <2> QED
    BY <1>2, <2>1 DEF MessagesInv, FromInv
<1>4. ASSUME NEW m \in Messages, EnterStep(m), ComesFrom(m)' PROVE MessagesInv'
  <2>1. OnceInv' /\ CountInv' /\ Outstanding' = Outstanding \cup {m}
    BY <1>4, EnterStepKeeps DEF MessagesInv
  <2> QED
    BY <1>2, <1>4, <2>1 DEF MessagesInv, FromInv
<1> QED
  BY <1>1, <1>3, <1>4 DEF BotDelivers

(* BotInv, the queue, the books and the messages, which need one another.  *)
AllInv == BotInv /\ DeliveryInv /\ BooksInv /\ MessagesInv

LEMMA AllInit == Init => AllInv
  BY BotInitInv, DeliveryInitInv, BooksInit, MessagesInit DEF Init, AllInv
LEMMA AllStep == AllInv /\ [Next]_vars => AllInv'
  BY BotStepInv, BotStepDelivers, DeliveryStepInv, BooksStep, MessagesStep
  DEF AllInv, DeliveryInv

(* The text slots count the texts that are queued or being sent: none is   *)
(* lost for good and none is taken twice (delivery_queue.go:63-65).        *)
THEOREM TextSlotsTheorem == Spec => []TextSlotsExact
<1>1. AllInv => TextSlotsExact
  BY DEF AllInv, MessagesInv, CountInv, OutstandingTexts, TextSlotsExact
<1> QED
  BY <1>1, AllInit, AllStep, PTL DEF Spec

----------------------------------------------------------------------------
(* The end of Run, and the capacities. *)

(* From Join on no goroutine of a command lives. *)
JoinInv == Waited => Joined

LEMMA JoinStep == BotInv /\ JoinInv /\ [Next]_vars => JoinInv'
<1> SUFFICES ASSUME BotInv, JoinInv, [Next]_vars, Waited' PROVE Joined'
  BY DEF JoinInv
<1> USE DEF people, books
<1>1. CASE Join
  BY <1>1 DEF Join, Run, Joined, Live
<1>2. CASE Waited /\ UNCHANGED goroutine
  BY <1>2 DEF JoinInv, Joined, Live
<1>3. CASE \E u \in Chats : Handle(u)
  <2>1. loop = "polling" /\ loop' \in {"last", "polling", "awaiting"}
    BY <1>3 DEF Handle, Talk, Press, Refuse, DropSubmission, Submit, NothingToCancel,
                Cancel, TakeCommand, CanHandle, Reply, Edit, Done
  <2> QED
    BY <2>1 DEF Waited
<1>4. CASE \E n \in Commands : Work(n)
  <2>1. ~Joined /\ UNCHANGED loop
    BY <1>4 DEF Joined, Live, Work, Submitted, SubmitFails, Announce, Announced, WaitEnds,
                WaitFails, Reported, Clear, Leave, CancelSucceeds, CancelFails, CancelEnds
  <2> QED
    BY <2>1 DEF JoinInv, Waited
<1>5. CASE Loop
  BY <1>1, <1>2, <1>5 DEF Loop, Pressed, PressGivenUp, StopPolling, Return, Run, Done, Waited
<1>6. CASE Stop
  BY <1>2, <1>6 DEF Stop, Waited
<1>7. CASE \E u \in Chats : Deliver(u)
  BY <1>2, <1>7 DEF Deliver, Drain, SendReturns, Waited
<1>8. CASE \E n \in Commands : TaskOver(n)
  BY <1>2, <1>8 DEF TaskOver, Waited
<1>9. CASE \E m \in entering : Insert(m)
  BY <1>2, <1>9 DEF Insert, Waited
<1>10. CASE \E m \in waiting : SenderLeaves(m)
  BY <1>2, <1>10 DEF SenderLeaves, Waited
<1>11. CASE UNCHANGED vars
  BY <1>2, <1>11 DEF vars, Waited
<1> QED
  BY <1>3, <1>4, <1>5, <1>6, <1>7, <1>8, <1>9, <1>10, <1>11 DEF Next

(* With the goroutines gone and the polling loop ended, nobody can add to  *)
(* deliveryWG.                                                             *)
LEMMA NoAddStep ==
  ASSUME AllInv, Joined, Waited, Next PROVE deliveryWG' <= deliveryWG
<1>0. deliveryWG \in Nat
  BY FS_CardinalityType DEF AllInv, MessagesInv, CountInv
<1> USE <1>0
<1>1. CASE UNCHANGED deliveryWG
  BY <1>1
<1>2. CASE \E u \in Chats : Handle(u)
  BY <1>2 DEF Waited, Handle, Talk, Press, Refuse, DropSubmission, Submit,
              NothingToCancel, Cancel, TakeCommand, CanHandle
<1>3. CASE \E n \in Commands : Work(n)
  BY <1>3 DEF Joined, Live, Work, Submitted, SubmitFails, Announce, Announced, WaitEnds,
              WaitFails, Reported, Clear, Leave, CancelSucceeds, CancelFails, CancelEnds
<1>4. CASE \E u \in Chats : Deliver(u)
  BY <1>1, <1>4 DEF Deliver, Drain, Look, DrainerExits, SendReturns, Sent
<1>5. CASE Loop \/ Stop
  BY <1>1, <1>5 DEF Loop, Pressed, PressGivenUp, StopPolling, Join, Return, Run, Stop,
                    delivery
<1>6. CASE \E n \in Commands : TaskOver(n)
  BY <1>1, <1>6 DEF TaskOver, delivery
<1>7. CASE \E m \in entering : Insert(m)
  BY <1>1, <1>7 DEF Insert, Enqueue
<1>8. CASE \E m \in waiting : SenderLeaves(m)
  BY <1>1, <1>8 DEF SenderLeaves, delivery
<1> QED
  BY <1>2, <1>3, <1>4, <1>5, <1>6, <1>7, <1>8 DEF Next

(* Once Run waits for the queues nobody adds to deliveryWG, so that its    *)
(* Wait is never overtaken by an Add (bot.go:171-172).                     *)
THEOREM NoAddTheorem == Spec => NoAddAfterWait
<1>1. Init => JoinInv
  BY DEF Init, JoinInv, Waited
<1>2. AllInv /\ JoinInv /\ [Next]_vars => [Waited => deliveryWG' <= deliveryWG]_vars
  BY NoAddStep DEF JoinInv
<1>3. AllInv /\ JoinInv /\ [Next]_vars => JoinInv'
  BY JoinStep DEF AllInv
<1> QED
  BY <1>1, <1>2, <1>3, AllInit, AllStep, PTL DEF Spec, NoAddAfterWait

(* When Run has returned no message that was accepted is left, queued or   *)
(* being sent, and no goroutine of a command lives (bot.go:169-173).       *)
NothingLeftBehind == loop = "returned" => Outstanding = {} /\ Joined

LEMMA ReturnedStep ==
  ASSUME AllInv, JoinInv, JoinInv', NothingLeftBehind, [Next]_vars, loop' = "returned"
  PROVE  Outstanding' = {}
<1>0. /\ IsFiniteSet(Outstanding) /\ deliveryWG = Cardinality(Outstanding)
      /\ deliveryWG \in Nat
  BY FS_CardinalityType DEF AllInv, MessagesInv, CountInv
<1>1. CASE loop = "returned"
  <2>1. deliveryWG' <= deliveryWG
    BY <1>0, <1>1, NoAddStep DEF JoinInv, Waited, vars, delivery
  <2>2. BotDelivers
    BY StepDelivers DEF AllInv, MessagesInv, DeliveryInv
  <2>3. ~\E m \in Messages : EnterStep(m)
    BY <1>0, <2>1 DEF EnterStep, Enter
  <2>4. Outstanding' \subseteq Outstanding
    BY <2>2, <2>3, QueueStepKeeps DEF BotDelivers, AllInv, MessagesInv, DeliveryInv
  <2> QED
    BY <1>1, <2>4 DEF NothingLeftBehind
<1>2. CASE Return
  <2>1. Outstanding = {}
    BY <1>0, <1>2, FS_EmptySet DEF Return
  <2>2. UNCHANGED Outstanding
    BY <1>2 DEF Return, Run, delivery, Outstanding, InQueue
  <2> QED
    BY <2>1, <2>2
<1>3. loop = "returned" \/ Return
  <2> USE DEF people
  <2>1. CASE Loop \/ Stop
    BY <2>1 DEF Loop, Pressed, PressGivenUp, StopPolling, Join, Run, Done, Stop
  <2>2. CASE \E u \in Chats : Handle(u)
    BY <2>2 DEF Handle, Talk, Press, Refuse, DropSubmission, Submit, NothingToCancel,
                Cancel, Reply, Edit, Done
  <2>3. CASE \E u \in Chats : Deliver(u)
    BY <2>3 DEF Deliver, Drain, SendReturns
  <2>4. CASE \E n \in Commands : Work(n)
    BY <2>4 DEF Work, Submitted, SubmitFails, Announce, Announced, WaitEnds, WaitFails,
                Reported, Clear, Leave, CancelSucceeds, CancelFails, CancelEnds
  <2>5. CASE \E n \in Commands : TaskOver(n)
    BY <2>5 DEF TaskOver
  <2>6. CASE \E m \in entering : Insert(m)
    BY <2>6 DEF Insert
  <2>7. CASE \E m \in waiting : SenderLeaves(m)
    BY <2>7 DEF SenderLeaves
  <2>8. CASE UNCHANGED vars
    BY <2>8 DEF vars
  <2> QED
    BY <2>1, <2>2, <2>3, <2>4, <2>5, <2>6, <2>7, <2>8 DEF Next
<1> QED
  BY <1>1, <1>2, <1>3

(* Run does not return before every message it accepted has been sent, and *)
(* every goroutine it started has ended (bot.go:169-173).                  *)
THEOREM ReturnsWhenSent == Spec => []NothingLeftBehind
<1>1. Init => JoinInv /\ NothingLeftBehind
  BY DEF Init, JoinInv, Waited, NothingLeftBehind
<1>2. AllInv /\ JoinInv /\ NothingLeftBehind /\ [Next]_vars =>
        JoinInv' /\ NothingLeftBehind'
  <2> SUFFICES ASSUME AllInv, JoinInv, NothingLeftBehind, [Next]_vars
               PROVE  JoinInv' /\ NothingLeftBehind'
    OBVIOUS
  <2>1. JoinInv'
    BY JoinStep DEF AllInv
  <2> QED
    BY <2>1, ReturnedStep DEF NothingLeftBehind, JoinInv, Waited
<1> QED
  BY <1>1, <1>2, AllInit, AllStep, PTL DEF Spec

(* The slots count the submissions that have not left.                     *)
Holding == {n \in Commands : goroutine[n].at \in Submission}
SlotsInv == slots = Cardinality(Holding) /\ slots <= Slots

LEMMA HoldingFinite == IsFiniteSet(Holding) /\ Cardinality(Holding) \in Nat
<1>1. IsFiniteSet(Commands)
  BY BotTasksAssumption, FS_Interval DEF Commands
<1> QED
  BY <1>1, FS_Subset, FS_CardinalityType DEF Holding

LEMMA SlotsFrame ==
  ASSUME SlotsInv, UNCHANGED slots,
         \A n \in Commands :
           goroutine'[n].at \in Submission <=> goroutine[n].at \in Submission
  PROVE  SlotsInv'
<1>1. Holding' = Holding
  BY DEF Holding
<1> QED
  BY <1>1 DEF SlotsInv

LEMMA HandleKeepsSlots ==
  ASSUME BotInv, BooksInv, SlotsInv, NEW u \in Chats, Handle(u)
  PROVE  SlotsInv'
<1> USE DEF books
<1>1. CASE UNCHANGED <<slots, goroutine>>
  BY <1>1, SlotsFrame
<1>2. TakeCommand => /\ NextCommand \in Commands /\ goroutine[NextCommand].at = "none"
                     /\ goroutine \in [Commands -> Goroutine]
  BY BotTasksAssumption
  DEF TakeCommand, CanHandle, NextCommand, BotInv, Commands, BooksInv, GoroutineInv, TaskInv
<1>3. CASE Submit(u)
  <2>1. /\ NextCommand \in Commands /\ goroutine[NextCommand].at = "none"
        /\ goroutine'[NextCommand].at = "submitting"
        /\ \A n \in Commands \ {NextCommand} : goroutine'[n] = goroutine[n]
        /\ slots' = slots + 1 /\ slots < Slots
    BY <1>2, <1>3 DEF Submit
  <2>2. Holding' = Holding \cup {NextCommand} /\ NextCommand \notin Holding
    <3>1. \A n \in Commands : n \in Holding' <=> n \in Holding \/ n = NextCommand
      BY <2>1 DEF Holding, Submission
    <3> QED
      BY <2>1, <3>1 DEF Holding, Submission
  <2>3. Cardinality(Holding') = Cardinality(Holding) + 1
    BY <2>2, HoldingFinite, FS_AddElement
  <2>4. slots' <= Slots
    BY <2>1, HoldingFinite, BotTasksAssumption DEF SlotsInv
  <2> QED
    BY <2>1, <2>3, <2>4 DEF SlotsInv
<1>4. CASE Cancel(u)
  <2>1. /\ NextCommand \in Commands /\ goroutine[NextCommand].at = "none"
        /\ goroutine'[NextCommand].at = "cancelling"
        /\ \A n \in Commands \ {NextCommand} : goroutine'[n] = goroutine[n]
        /\ slots' = slots
    BY <1>2, <1>4 DEF Cancel
  <2>2. \A n \in Commands :
          goroutine'[n].at \in Submission <=> goroutine[n].at \in Submission
    BY <2>1 DEF Submission
  <2> QED
    BY <2>1, <2>2, SlotsFrame
<1> QED
  BY <1>1, <1>3, <1>4 DEF Handle, Talk, Press, Refuse, DropSubmission, NothingToCancel

LEMMA WorkKeepsSlots ==
  ASSUME BotInv, SlotsInv, NEW n \in Commands, Work(n)
  PROVE  SlotsInv'
<1> USE DEF books
<1>1. ASSUME NEW at, At(n, at), UNCHANGED slots,
             goroutine[n].at \in Submission <=> at \in Submission
      PROVE  SlotsInv'
  <2>1. goroutine'[n].at = at /\ \A o \in Commands \ {n} : goroutine'[o] = goroutine[o]
    BY <1>1, AtFacts
  <2>2. \A o \in Commands : goroutine'[o].at \in Submission <=> goroutine[o].at \in Submission
    BY <1>1, <2>1
  <2> QED
    BY <1>1, <2>2, SlotsFrame
<1>2. CASE Submitted(n)
  <2>1. /\ goroutine[n].at = "submitting" /\ goroutine'[n].at = "created"
        /\ slots' = slots
        /\ \A o \in Commands \ {n} : goroutine'[o] = goroutine[o]
    BY <1>2 DEF Submitted, BotInv, Goroutine
  <2>2. \A o \in Commands : goroutine'[o].at \in Submission <=> goroutine[o].at \in Submission
    BY <2>1 DEF Submission
  <2> QED
    BY <2>1, <2>2, SlotsFrame
<1>3. CASE Leave(n)
  <2>1. /\ goroutine[n].at = "leaving" /\ goroutine'[n].at = "gone"
        /\ \A o \in Commands \ {n} : goroutine'[o] = goroutine[o]
        /\ slots' = slots - 1
    BY <1>3, AtFacts DEF Leave
  <2>2. Holding' = Holding \ {n} /\ n \in Holding
    <3>1. \A o \in Commands : o \in Holding' <=> o \in Holding /\ o # n
      BY <2>1 DEF Holding, Submission
    <3> QED
      BY <2>1, <3>1 DEF Holding, Submission
  <2>3. Cardinality(Holding') = Cardinality(Holding) - 1
    BY <2>2, HoldingFinite, FS_RemoveElement
  <2>4. slots' <= Slots
    BY <2>1, HoldingFinite, BotTasksAssumption DEF SlotsInv
  <2> QED
    BY <2>1, <2>3, <2>4 DEF SlotsInv
<1>4. CASE SubmitFails(n)
  BY <1>1, <1>4 DEF SubmitFails, Submission
<1>5. CASE Announce(n) \/ Announced(n) \/ WaitEnds(n) \/ WaitFails(n)
  BY <1>1, <1>5 DEF Announce, Announced, WaitEnds, WaitFails, Submission
<1>6. CASE Reported(n) \/ Clear(n)
  BY <1>1, <1>6 DEF Reported, Clear, Submission
<1>7. CASE CancelSucceeds(n) \/ CancelFails(n) \/ CancelEnds(n)
  BY <1>1, <1>7 DEF CancelSucceeds, CancelFails, CancelEnds, Submission
<1> QED
  BY <1>2, <1>3, <1>4, <1>5, <1>6, <1>7 DEF Work

LEMMA SlotsStep == BotInv /\ BooksInv /\ SlotsInv /\ [Next]_vars => SlotsInv'
<1> SUFFICES ASSUME BotInv, BooksInv, SlotsInv, [Next]_vars PROVE SlotsInv'
  OBVIOUS
<1>1. CASE UNCHANGED <<slots, goroutine>>
  BY <1>1, SlotsFrame
<1>2. CASE UNCHANGED vars \/ Loop \/ Stop
  BY <1>1, <1>2 DEF vars, books, Loop, Pressed, PressGivenUp, StopPolling, Join, Return, Run,
                    Stop
<1>3. CASE \E u \in Chats : Deliver(u)
  BY <1>1, <1>3 DEF Deliver, Drain, SendReturns, books
<1>4. CASE \E n \in Commands : TaskOver(n)
  BY <1>1, <1>4 DEF TaskOver, books
<1>5. CASE \E m \in entering : Insert(m)
  BY <1>1, <1>5 DEF Insert, books
<1>6. CASE \E m \in waiting : SenderLeaves(m)
  BY <1>1, <1>6 DEF SenderLeaves, books
<1> QED
  BY <1>2, <1>3, <1>4, <1>5, <1>6, HandleKeepsSlots, WorkKeepsSlots DEF Next

(* What TypeOK says beyond the invariants above.                           *)
LoopType == /\ loop \in {"polling", "last", "awaiting", "joining", "draining", "returned"}
            /\ stopping \in BOOLEAN
TextType == textSlots <= TextSlots /\ waiting \subseteq Messages
RestInv == SlotsInv /\ LoopType /\ TextType

LEMMA SendTextType ==
  ASSUME TextType, textSlots \in Nat, NEW n \in Commands, NEW kind \in Texts, NEW u \in Chats,
         sendText(n, kind, u), UNCHANGED waiting
  PROVE  TextType'
  BY BotTasksAssumption DEF TextType, sendText, HasTextSlot

LEMMA SendOrderedType ==
  ASSUME TextType, NEW n \in Commands, NEW kind \in Ordered, NEW u \in Chats,
         sendOrdered(n, kind, u), UNCHANGED textSlots
  PROVE  TextType'
  BY MessageOfType DEF TextType, sendOrdered

LEMMA TypeStep ==
  ASSUME BotInv, QueueTypeOK, LoopType, TextType, textSlots \in Nat, [Next]_vars
  PROVE  LoopType' /\ TextType'
<1> USE DEF people
<1>0. CASE UNCHANGED <<loop, stopping, textSlots, waiting>>
  BY <1>0 DEF LoopType, TextType
<1>1. UNCHANGED <<textSlots, waiting>> => TextType'
  BY DEF TextType
<1>2. UNCHANGED <<loop, stopping>> => LoopType'
  BY DEF LoopType
<1>12. {"reply", "answer"} \subseteq Texts /\ {"edit", "announce", "report"} \subseteq Ordered
  BY DEF Texts, Ordered
<1>3. ASSUME NEW u \in Chats, Handle(u) PROVE LoopType' /\ TextType'
  <2>1. LoopType'
    BY <1>3 DEF LoopType, Handle, Talk, Press, Refuse, DropSubmission, Submit,
                NothingToCancel, Cancel, TakeCommand, Reply, Edit, Done
  <2>2. TakeCommand => NextCommand \in Commands
    BY BotTasksAssumption DEF TakeCommand, CanHandle, NextCommand, BotInv, Commands
  <2>3. ASSUME TakeCommand, Reply(u) PROVE TextType'
    BY <1>12, <2>2, <2>3, SendTextType DEF Reply
  <2>4. ASSUME TakeCommand, Edit(u) PROVE TextType'
    BY <1>12, <2>2, <2>4, SendOrderedType DEF Edit
  <2> QED
    BY <1>1, <1>3, <2>1, <2>3, <2>4
    DEF Handle, Talk, Press, Refuse, DropSubmission, Submit, NothingToCancel, Cancel
<1>4. ASSUME NEW n \in Commands, Work(n) PROVE LoopType' /\ TextType'
  <2>1. UNCHANGED <<loop, stopping>>
    BY <1>4 DEF Work, Submitted, SubmitFails, Announce, Announced, WaitEnds, WaitFails,
                Reported, Clear, Leave, CancelSucceeds, CancelFails, CancelEnds
  <2>2. goroutine[n].at # "none" => goroutine[n].user \in Chats
    BY DEF BotInv
  <2>3. ASSUME NEW kind \in {"reply", "answer"}, sendText(n, kind, goroutine[n].user),
               UNCHANGED waiting, goroutine[n].at # "none"
        PROVE  TextType'
    BY <1>12, <2>2, <2>3, SendTextType
  <2>4. ASSUME NEW kind \in {"announce", "report"}, sendOrdered(n, kind, goroutine[n].user),
               UNCHANGED textSlots, goroutine[n].at # "none"
        PROVE  TextType'
    BY <1>12, <2>2, <2>4, SendOrderedType
  <2>5. CASE SubmitFails(n)
    BY <1>2, <2>1, <2>3, <2>4, <2>5 DEF SubmitFails
  <2>6. CASE Announce(n) \/ WaitEnds(n)
    BY <1>2, <2>1, <2>4, <2>6 DEF Announce, WaitEnds
  <2>8. CASE CancelSucceeds(n) \/ CancelFails(n)
    BY <1>2, <2>1, <2>3, <2>8 DEF CancelSucceeds, CancelFails
  <2>7. TextType'
    BY <1>1, <1>4, <2>5, <2>6, <2>8
    DEF Work, Submitted, Announced, WaitFails, Reported, Clear, Leave, CancelEnds
  <2> QED
    BY <1>2, <2>1, <2>7
<1>5. ASSUME NEW u \in Chats, Deliver(u) PROVE LoopType' /\ TextType'
  BY <1>0, <1>5, BotTasksAssumption
  DEF Deliver, Drain, SendReturns, TextReleased, LoopType, TextType
<1>6. CASE Pressed \/ PressGivenUp
  BY <1>6 DEF Pressed, PressGivenUp, Done, LoopType, TextType
<1>7. CASE StopPolling \/ Join \/ Return \/ Stop
  BY <1>7 DEF StopPolling, Join, Return, Run, Stop, LoopType, TextType
<1>8. CASE \E n \in Commands : TaskOver(n)
  BY <1>0, <1>8 DEF TaskOver
<1>9. CASE \E m \in entering : Insert(m)
  BY <1>0, <1>9 DEF Insert
<1>10. CASE \E m \in waiting : SenderLeaves(m)
  BY <1>10 DEF SenderLeaves, LoopType, TextType
<1>11. CASE UNCHANGED vars
  BY <1>0, <1>11 DEF vars
<1> QED
  BY <1>3, <1>4, <1>5, <1>6, <1>7, <1>8, <1>9, <1>10, <1>11 DEF Next, Loop

(* Type correctness.  Its bounds are the capacities of the two channels of *)
(* slots: no more than Slots submissions and TextSlots texts at a time,    *)
(* and neither counter nor deliveryWG ever falls below zero.               *)
THEOREM BotTypeCorrect == Spec => []TypeOK
<1>1. Init => RestInv
  <2> SUFFICES ASSUME Init PROVE RestInv
    OBVIOUS
  <2>1. Holding = {}
    BY DEF Init, Holding, Submission
  <2>2. SlotsInv
    BY <2>1, FS_EmptySet, BotTasksAssumption DEF Init, SlotsInv
  <2>3. LoopType /\ TextType
    <3>1. TextSlots \in Nat
      BY BotTasksAssumption
    <3>2. LoopType
      BY DEF Init, LoopType
    <3>3. textSlots = 0 /\ waiting = {}
      BY DEF Init
    <3> QED
      BY <3>1, <3>2, <3>3 DEF TextType
  <2> QED
    BY <2>2, <2>3 DEF RestInv
<1>2. AllInv => textSlots \in Nat /\ deliveryWG \in Nat
  <2> SUFFICES ASSUME AllInv PROVE textSlots \in Nat /\ deliveryWG \in Nat
    OBVIOUS
  <2>1. IsFiniteSet(OutstandingTexts)
    BY FS_Subset DEF AllInv, MessagesInv, CountInv, OutstandingTexts
  <2> QED
    BY <2>1, FS_CardinalityType DEF AllInv, MessagesInv, CountInv
<1>3. AllInv /\ RestInv /\ [Next]_vars => RestInv'
  BY <1>2, SlotsStep, TypeStep DEF AllInv, DeliveryInv, RestInv
<1>4. AllInv /\ RestInv => TypeOK
  <2> SUFFICES ASSUME AllInv, RestInv PROVE TypeOK
    OBVIOUS
  <2>1. slots \in 0 .. Slots
    BY HoldingFinite, BotTasksAssumption DEF RestInv, SlotsInv
  <2>2. textSlots \in 0 .. TextSlots
    BY <1>2, BotTasksAssumption DEF RestInv, TextType
  <2>3. DeliveryTypeOK
    BY <1>2 DEF AllInv, DeliveryInv, DeliveryTypeOK
  <2> QED
    BY <2>1, <2>2, <2>3
    DEF AllInv, BotInv, BooksInv, TaskStates, RestInv, LoopType, TextType, TypeOK, Goroutine,
        Entry
<1> QED
  BY <1>1, <1>3, <1>4, AllInit, AllStep, PTL DEF Spec
=============================================================================
