----------------------------- MODULE BotUpdates -----------------------------
(***************************************************************************)
(* The update loop of the Telegram bot (src/internal/telegrambot/bot.go),  *)
(* the runtime that starts and stops it (serverapp/telegram.go) and the    *)
(* offset it keeps in SQLite (store/telegram_offset.go).                   *)
(*                                                                         *)
(* Telegram hands out updates 1, 2, ... and forgets those below the offset *)
(* of a getUpdates call.  Each start of a bot is a poller with a number of *)
(* its own; the process may crash and start again with what is saved.      *)
(* Every bot has its own updates and its own stored offset: the module     *)
(* follows those of one bot, and of the others only that they run.         *)
(* A definition named X_... is a faulty variant of X, which no             *)
(* specification uses; see Hub.                                            *)
(***************************************************************************)
EXTENDS Integers, FiniteSets

CONSTANTS
  MaxUpdate,  \* bound: updates users send
  MaxStarts,  \* bound: starts of a bot
  Bots,       \* bound: bots whose token somebody has
  Followed,   \* the bot whose updates the module follows
  Env         \* bound: environment events: "load", "store", "stop", "crash"

ASSUME UpdatesAssumption ==
  /\ MaxUpdate \in Nat /\ MaxStarts \in Nat
  /\ Followed \in Bots
  /\ Env \subseteq {"load", "store", "stop", "crash"}

Pollers == 1 .. MaxStarts
Updates == 1 .. MaxUpdate

VARIABLES
  produced,   \* updates sent so far
  confirmed,  \* Telegram returns no update below this one again
  saved,      \* the offset in the settings table
  handled,    \* how often handleUpdate was called for an update
  runtime,    \* App.telegram; 0 for nil
  started,    \* pollers started so far
  poller,     \* per poller: its bot, where Run is, its offset, the update it
              \* is at and the last one of its batch
  canceled,   \* pollers whose context is cancelled
  cut         \* history: crashes and stops so far

vars == <<produced, confirmed, saved, handled, runtime, started, poller,
          canceled, cut>>

Place == {"none", "loading", "polling", "batch", "handling", "done"}
Live(p) == poller[p].at \notin {"none", "done"}
Follows(p) == poller[p].bot = Followed

TypeOK ==
  /\ produced \in 0 .. MaxUpdate
  /\ confirmed \in 0 .. MaxUpdate + 1 /\ saved \in 0 .. MaxUpdate + 1
  /\ handled \in [Updates -> Nat]
  /\ started \in 0 .. MaxStarts /\ runtime \in 0 .. started
  /\ poller \in [Pollers -> [bot : Bots, at : Place, offset : 0 .. MaxUpdate + 1,
                             next : 0 .. MaxUpdate + 1, last : 0 .. MaxUpdate]]
  /\ canceled \subseteq Pollers /\ cut \in Nat

Init ==
  /\ produced = 0 /\ confirmed = 0 /\ saved = 0
  /\ handled = [u \in Updates |-> 0]
  /\ runtime = 0 /\ started = 0
  /\ poller = [p \in Pollers |-> [bot |-> Followed, at |-> "none", offset |-> 0,
                                  next |-> 0, last |-> 0]]
  /\ canceled = {} /\ cut = 0

At(p, at) == poller' = [poller EXCEPT ![p].at = at]
Largest(a, b) == IF a < b THEN b ELSE a

----------------------------------------------------------------------------
(* The runtime. *)

Send ==
  /\ produced < MaxUpdate
  /\ produced' = produced + 1
  /\ UNCHANGED <<confirmed, saved, handled, runtime, started, poller, canceled,
                 cut>>

(* startTelegramRuntime refuses while the last poller is not done. *)
MayStart_unchecked == TRUE
MayStart == runtime # 0 => ~Live(runtime)
Start(bot) ==
  /\ MayStart /\ started < MaxStarts
  /\ started' = started + 1
  /\ runtime' = started'
  /\ poller' = [poller EXCEPT ![started'].bot = bot, ![started'].at = "loading"]
  /\ UNCHANGED <<produced, confirmed, saved, handled, canceled, cut>>

(* stopTelegramRuntime cancels; it clears the field once Run has returned, *)
(* and leaves it when that takes too long.                                 *)
Stop ==
  /\ "stop" \in Env /\ runtime # 0 /\ runtime \notin canceled
  /\ canceled' = canceled \cup {runtime}
  /\ cut' = IF Live(runtime) THEN cut + 1 ELSE cut
  /\ UNCHANGED <<produced, confirmed, saved, handled, runtime, started, poller>>
Stopped ==
  /\ runtime \in canceled /\ ~Live(runtime)
  /\ runtime' = 0
  /\ UNCHANGED <<produced, confirmed, saved, handled, started, poller, canceled,
                 cut>>

Crash ==
  /\ "crash" \in Env
  /\ poller' = [p \in Pollers |-> IF Live(p) THEN [poller[p] EXCEPT !.at = "done"]
                                    ELSE poller[p]]
  /\ runtime' = 0
  /\ cut' = IF \E p \in Pollers : Live(p) THEN cut + 1 ELSE cut
  /\ UNCHANGED <<produced, confirmed, saved, handled, started, canceled>>

----------------------------------------------------------------------------
(* Run. *)

(* A poller that cannot read the offset ends, and nothing starts another.  *)
Load(p) ==
  /\ poller[p].at = "loading" /\ p \notin canceled
  /\ poller' = [poller EXCEPT ![p].at = "polling",
                             ![p].offset = IF Follows(p) THEN saved ELSE 0]
  /\ UNCHANGED <<produced, confirmed, saved, handled, runtime, started, canceled,
                 cut>>
LoadFails(p) ==
  /\ poller[p].at = "loading" /\ ("load" \in Env \/ p \in canceled)
  /\ At(p, "done")
  /\ UNCHANGED <<produced, confirmed, saved, handled, runtime, started, canceled,
                 cut>>

(* getUpdates confirms what is below the offset and returns some of the    *)
(* updates that are left, in order, none of which the loop has to skip; a   *)
(* failed call is repeated.                                                *)
Poll(p) ==
  /\ poller[p].at = "polling" /\ Follows(p) /\ p \notin canceled
  /\ confirmed' = Largest(confirmed, poller[p].offset)
  /\ \E last \in Largest(confirmed', 1) .. produced :
       poller' = [poller EXCEPT ![p].at = "batch", ![p].last = last,
                                ![p].next = Largest(confirmed', 1)]
  /\ UNCHANGED <<produced, saved, handled, runtime, started, canceled, cut>>
PollEnds_never(p) == FALSE
PollEnds(p) == p \in canceled
PollCanceled(p) ==
  /\ poller[p].at = "polling" /\ PollEnds(p)
  /\ At(p, "done")
  /\ UNCHANGED <<produced, confirmed, saved, handled, runtime, started, canceled,
                 cut>>

(* SaveTelegramUpdateOffset never moves the stored offset back. *)
Raised(offset) == Largest(saved, offset)

NextOffset_per_batch(p) == poller[p].last + 1
NextOffset(p) == poller[p].next + 1
InBatch_one_more(p) == poller[p].at = "batch" /\ poller[p].next <= poller[p].last + 1
InBatch(p) == poller[p].at = "batch" /\ poller[p].next <= poller[p].last

Save(p) ==
  /\ InBatch(p) /\ p \notin canceled
  /\ saved' = Raised(NextOffset(p))
  /\ poller' = [poller EXCEPT ![p].at = "handling", ![p].offset = NextOffset(p)]
  /\ UNCHANGED <<produced, confirmed, handled, runtime, started, canceled, cut>>

(* A write that fails ends the batch before the update is handled.  When   *)
(* the context ends during the write, the row may have changed all the     *)
(* same.                                                                   *)
AfterFailure_handles(p) == "handling"
AfterFailure_gives_up(p) == "done"
AfterFailure(p) == IF p \in canceled THEN "done" ELSE "polling"
SaveFails(p) ==
  /\ InBatch(p) /\ ("store" \in Env \/ p \in canceled)
  /\ At(p, AfterFailure(p))
  /\ saved' \in IF p \in canceled THEN {saved, Raised(NextOffset(p))} ELSE {saved}
  /\ UNCHANGED <<produced, confirmed, handled, runtime, started, canceled, cut>>

Handle(p) ==
  /\ poller[p].at = "handling"
  /\ handled' = [handled EXCEPT ![poller[p].next] = @ + 1]
  /\ poller' = [poller EXCEPT ![p].at = "batch", ![p].next = @ + 1]
  /\ UNCHANGED <<produced, confirmed, saved, runtime, started, canceled, cut>>
EndBatch(p) ==
  /\ poller[p].at = "batch" /\ poller[p].next > poller[p].last
  /\ At(p, IF p \in canceled THEN "done" ELSE "polling")
  /\ UNCHANGED <<produced, confirmed, saved, handled, runtime, started, canceled,
                 cut>>

Run(p) == \/ Load(p) \/ LoadFails(p) \/ Poll(p) \/ PollCanceled(p) \/ Save(p) \/ SaveFails(p) \/ Handle(p) \/ EndBatch(p)
Next == \/ Send \/ Stop \/ Stopped \/ Crash
        \/ \E bot \in Bots : Start(bot)
        \/ \E p \in Pollers : Run(p)
Spec == Init /\ [][Next]_vars

----------------------------------------------------------------------------
(* Properties. *)

(* At most one bot runs at a time, the one App.telegram knows.             *)
OnePoller == \A p \in Pollers : Live(p) => p = runtime

(* No update is handled twice, however the bot is stopped, started again,  *)
(* crashes or fails to save (types.go:90-92).                              *)
HandledOnce == \A u \in Updates : handled[u] <= 1

(* An update is behind the stored offset without having been handled only  *)
(* because a poller is at it now or was cut off there: each crash or stop  *)
(* loses at most one update.                                               *)
Lost == {u \in Updates : u < saved /\ handled[u] = 0}
InHand == {p \in Pollers : poller[p].at = "handling"}
OneLostPerCut == Cardinality(Lost) <= cut + Cardinality(InHand)

(* Once the bot polls, every update that was sent is handled, though the   *)
(* store fails at times, unless somebody stops the bot or it crashes.      *)
Polls == \E p \in Pollers : Follows(p) /\ poller[p].at \in {"polling", "batch", "handling"}
EveryUpdateHandled ==
  \A u \in Updates : (produced >= u /\ Polls) ~> (handled[u] = 1 \/ cut > 0)
=============================================================================
