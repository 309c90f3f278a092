------------------------------ MODULE ChatFifo ------------------------------
(***************************************************************************)
(* What the outbound queue of the Telegram bot promises for each chat: the *)
(* messages accepted for it are sent in that order, one at a time          *)
(* (delivery_queue.go:21-23).                                              *)
(***************************************************************************)
EXTENDS Sequences

CONSTANTS Chats, Messages, None

VARIABLES
  pending,    \* accepted messages, per chat
  busy        \* the message being sent to a chat, None if there is none

fifo == <<pending, busy>>

FifoInit ==
  /\ pending = [c \in Chats |-> <<>>]
  /\ busy = [c \in Chats |-> None]

Accept(c, m) ==
  /\ pending' = [pending EXCEPT ![c] = Append(@, m)]
  /\ UNCHANGED busy

BeginSend(c) ==
  /\ busy[c] = None /\ pending[c] # <<>>
  /\ busy' = [busy EXCEPT ![c] = Head(pending[c])]
  /\ pending' = [pending EXCEPT ![c] = Tail(@)]

EndSend(c) ==
  /\ busy[c] # None
  /\ busy' = [busy EXCEPT ![c] = None]
  /\ UNCHANGED pending

FifoNext == \E c \in Chats :
  (\E m \in Messages : Accept(c, m)) \/ BeginSend(c) \/ EndSend(c)
FifoSpec == FifoInit /\ [][FifoNext]_fifo
=============================================================================
