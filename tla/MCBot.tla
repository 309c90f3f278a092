------------------------------- MODULE MCBot -------------------------------
(* Small instances of BotTasks for TLC. *)
EXTENDS BotTasks

MCMessages == Message
MCChat == [m \in Message |-> m.chat]
=============================================================================
