---------------------------- MODULE MCSettings ----------------------------
(* BotSettings on a small instance.  Of the three things that make it      *)
(* large a state has one at most: updates, a second handler, a second bot. *)
EXTENDS BotSettings, TLC

CONSTANTS r1, r2, mine, other

Busy(r) == request[r].at # "idle"
Other(bot) == bot = other
OtherBot ==
  \/ pending # None /\ Other(pending.bot)
  \/ Other(config.bot) \/ \E r \in Requests : Other(request[r].bot)
  \/ \E p \in Pollers : Other(poller[p].bot)

MCNext ==
  /\ SettingsNext
  /\ (Busy(r2)' /\ ~Busy(r2)) => Busy(r1)
  /\ produced' > 0 => ~Busy(r2)' /\ ~OtherBot'
  /\ OtherBot' => ~Busy(r2)'
MCSpec == SettingsInit /\ [][MCNext]_all /\ Fair
=============================================================================
