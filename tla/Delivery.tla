------------------------------ MODULE Delivery ------------------------------
(***************************************************************************)
(* The outbound queue of the Telegram bot                                  *)
(* (src/internal/telegrambot/delivery_queue.go).  Whoever has a message    *)
(* for a chat calls Enter and, later, Enqueue under deliveryMu; a drainer  *)
(* goroutine per chat takes messages with Look and sends them.             *)
(*                                                                         *)
(* Drainers are counted, not assumed to be alone: that there is one per    *)
(* chat at most is what the refinement of ChatFifo shows.                  *)
(*                                                                         *)
(* A definition named X_... is a faulty variant of X, which no             *)
(* specification uses; see Hub.                                            *)
(***************************************************************************)
EXTENDS Naturals, Sequences, FiniteSets

CONSTANTS
  Chats,      \* chats of the bot
  Messages,   \* messages; each is entered once
  Chat,       \* Chat[m]: the chat a message is for
  None

ASSUME DeliveryAssumption ==
  /\ Chat \in [Messages -> Chats]
  /\ None \notin Messages

VARIABLES
  entering,   \* messages past deliveryWG.Add and not yet in a queue
  keys,       \* chats with an entry in b.deliveryQueues
  queues,     \* the entries
  looking,    \* drainers of a chat that are about to look at its queue
  sending,    \* messages that drainers of a chat are sending
  deliveryWG  \* the counter of b.deliveryWG

delivery == <<entering, keys, queues, looking, sending, deliveryWG>>

QueueTypeOK ==
  /\ entering \subseteq Messages
  /\ keys \subseteq Chats
  /\ queues \in [Chats -> Seq(Messages)]
  /\ looking \in [Chats -> Nat]
  /\ sending \in [Chats -> SUBSET Messages]
DeliveryTypeOK == QueueTypeOK /\ deliveryWG \in Nat

DeliveryInit ==
  /\ entering = {} /\ keys = {}
  /\ queues = [c \in Chats |-> <<>>]
  /\ looking = [c \in Chats |-> 0]
  /\ sending = [c \in Chats |-> {}]
  /\ deliveryWG = 0

Enter(m) ==
  /\ entering' = entering \cup {m}
  /\ deliveryWG' = deliveryWG + 1
  /\ UNCHANGED <<keys, queues, looking, sending>>

(* One critical section: whoever finds no entry starts a drainer. *)
NewDrainers_always(c) == 1
NewDrainers(c) == IF c \in keys THEN 0 ELSE 1
Enqueue(m) ==
  /\ m \in entering
  /\ entering' = entering \ {m}
  /\ keys' = keys \cup {Chat[m]}
  /\ queues' = [queues EXCEPT ![Chat[m]] = Append(@, m)]
  /\ looking' = [looking EXCEPT ![Chat[m]] = @ + NewDrainers(Chat[m])]
  /\ UNCHANGED <<sending, deliveryWG>>

(* The drainer finds the queue empty and removes the entry, or takes the   *)
(* first message.                                                          *)
KeysAfterExit_kept(c) == keys
KeysAfterExit(c) == keys \ {c}
DrainerExits(c) ==
  /\ looking[c] > 0 /\ queues[c] = <<>>
  /\ keys' = KeysAfterExit(c)
  /\ looking' = [looking EXCEPT ![c] = @ - 1]
  /\ UNCHANGED <<entering, queues, sending, deliveryWG>>
Look(c) ==
  /\ looking[c] > 0 /\ queues[c] # <<>>
  /\ sending' = [sending EXCEPT ![c] = @ \cup {Head(queues[c])}]
  /\ queues' = [queues EXCEPT ![c] = Tail(@)]
  /\ looking' = [looking EXCEPT ![c] = @ - 1]
  /\ UNCHANGED <<entering, keys, deliveryWG>>

(* send returns, with or without an error; the done channel has room for   *)
(* the answer even when nobody waits for it any more.                      *)
Sent(c, m) ==
  /\ m \in sending[c]
  /\ sending' = [sending EXCEPT ![c] = @ \ {m}]
  /\ looking' = [looking EXCEPT ![c] = @ + 1]
  /\ deliveryWG' = deliveryWG - 1
  /\ UNCHANGED <<entering, keys, queues>>

DeliveryNext ==
  \/ \E m \in Messages : Enter(m) \/ Enqueue(m)
  \/ \E c \in Chats : \/ DrainerExits(c) \/ Look(c)
                      \/ \E m \in Messages : Sent(c, m)
DeliverySpec == DeliveryInit /\ [][DeliveryNext]_delivery

----------------------------------------------------------------------------
(* Properties. *)

(* The queue implements ChatFifo: messages of a chat are sent in the order *)
(* in which they were enqueued, never two at a time, although drainers     *)
(* come and go (delivery_queue.go:35-38).                                  *)
Fifo == INSTANCE ChatFifo WITH
  pending <- queues,
  busy <- [c \in Chats |-> IF sending[c] = {} THEN None
                             ELSE CHOOSE m \in sending[c] : TRUE]
SentInOrder == Fifo!FifoSpec

(* A chat has an entry exactly while one drainer works on it, and a chat   *)
(* without an entry has no message left.                                   *)
OneDrainer == \A c \in Chats :
  \/ c \notin keys /\ looking[c] = 0 /\ sending[c] = {} /\ queues[c] = <<>>
  \/ c \in keys /\ looking[c] = 1 /\ sending[c] = {}
  \/ c \in keys /\ looking[c] = 0 /\ \E m \in Messages : sending[c] = {m}
=============================================================================
