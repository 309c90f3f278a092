---------------------------- MODULE BotSettings ----------------------------
(***************************************************************************)
(* The settings page of the Telegram bot (serverapp/telegram_settings.go), *)
(* the stored configuration (store/telegram_config.go) and the start of    *)
(* the server (initializeTelegram, serverapp/telegram.go), over the bots   *)
(* of BotUpdates, which they start and stop.                               *)
(*                                                                         *)
(* The handlers run concurrently; no lock is held from one of their steps  *)
(* to the next, and each step is one SQL statement or one critical section *)
(* of telegramMu.  Malformed requests and calls to Telegram that fail      *)
(* change nothing and are the steps that are not taken.                    *)
(***************************************************************************)
EXTENDS BotUpdates

CONSTANTS
  Requests,  \* bound: handlers that may run at the same time
  MaxTries,  \* codes a challenge accepts; 5 in the code
  None,
  AtStart,   \* bots whose token may be given when the server is started
  Faults     \* bound: "write" (the store fails), "timeout" (a stop takes
             \* longer than 10 seconds)

ASSUME SettingsAssumption ==
  /\ MaxTries \in Nat \ {0} /\ None \notin Bots
  /\ AtStart \subseteq Bots
  /\ Faults \subseteq {"write", "timeout"}

VARIABLES
  config,   \* the row of telegram_config: its bot, None without a row, and enabled
  pending,  \* telegramBindings: the challenge of the owner, the only account
            \* that gets here; a new one replaces it
  request,  \* per handler: where it is, what it does, the bot whose token it
            \* holds, the runtime it waits for, and, as history, whether no
            \* other handler ran since it began
  booting   \* the server starts and serves no request yet

settings == <<config, pending, request, booting>>

Purpose == {"bind", "enable", "keep", "undo", "disable", "delete"}
Step == {"idle", "stopping", "waiting", "storing", "starting", "checking",
         "switching on", "switching off"}
NoConfig == [bot |-> None, enabled |-> FALSE]
Idle == [at |-> "idle", for |-> "keep", bot |-> None, on |-> 0, alone |-> FALSE]

SettingsTypeOK ==
  /\ TypeOK
  /\ config \in [bot : Bots \cup {None}, enabled : BOOLEAN]
  /\ config.enabled => config.bot # None
  /\ pending \in [bot : Bots, tries : 1 .. MaxTries] \cup {None}
  /\ request \in [Requests -> [at : Step, for : Purpose, bot : Bots \cup {None},
                               on : 0 .. MaxStarts, alone : BOOLEAN]]
  /\ \A r \in Requests : request[r].at = "starting" => request[r].bot \in Bots
  /\ booting \in BOOLEAN

SettingsInit ==
  /\ Init
  /\ config = NoConfig /\ pending = None
  /\ request = [r \in Requests |-> Idle]
  /\ booting = TRUE

Where(r, at) == request[r].at = at
For(r, purpose) == request[r].for = purpose
Goto(r, at) == request' = [request EXCEPT ![r].at = at]
Answer(r) == request' = [request EXCEPT ![r] = Idle]
Enter(r, at, purpose, bot) ==
  /\ ~booting /\ Where(r, "idle")
  /\ request' = [q \in Requests |->
       IF q = r
       THEN [Idle EXCEPT !.at = at, !.for = purpose, !.bot = bot,
                         !.alone = \A o \in Requests \ {r} : Where(o, "idle")]
       ELSE [request[q] EXCEPT !.alone = FALSE]]

----------------------------------------------------------------------------
(* The configuration row. *)

Fails == "write" \in Faults
Bind(bot) == config' = [bot |-> bot, enabled |-> TRUE]
SetEnabled(enabled) ==
  /\ config.bot # None
  /\ config' = [config EXCEPT !.enabled = enabled]

----------------------------------------------------------------------------
(* Requests. *)

Begin ==
  /\ ~booting
  /\ \E bot \in Bots : pending' = [bot |-> bot, tries |-> MaxTries]
  /\ UNCHANGED <<vars, config, request, booting>>

(* The right code.  The challenge is looked up by the trimmed identifier   *)
(* and deleted by the one that was sent, so that blanks leave it there.    *)
OneTryLess ==
  IF pending.tries = 1 THEN None ELSE [pending EXCEPT !.tries = @ - 1]
Confirm(r) ==
  /\ pending # None
  /\ Enter(r, "stopping", "bind", pending.bot)
  /\ pending' \in {None, OneTryLess}
  /\ UNCHANGED <<vars, config, booting>>

(* A wrong code, or a challenge that is expired or has no tries left.      *)
RefuseCode ==
  /\ pending # None
  /\ pending' \in {None, OneTryLess}
  /\ UNCHANGED <<vars, config, request, booting>>

ReadSettings(r) ==
  /\ config.bot # None
  /\ \/ Enter(r, "checking", "enable", config.bot)
     \/ Enter(r, "switching off", "disable", None)
  /\ UNCHANGED <<vars, config, pending, booting>>

Delete(r) ==
  /\ Enter(r, "stopping", "delete", None)
  /\ UNCHANGED <<vars, config, pending, booting>>

----------------------------------------------------------------------------
(* stopTelegramRuntime, in three handlers and in the one whose SetEnabled  *)
(* failed, which waits without a deadline.                                 *)
AfterStop(r) ==
  IF request[r].for \in {"bind", "delete"}
  THEN request' = [request EXCEPT ![r].at = "storing", ![r].on = 0]
  ELSE Answer(r)

CallStop(r) ==
  /\ Where(r, "stopping")
  /\ IF runtime = 0
     THEN AfterStop(r) /\ UNCHANGED vars
     ELSE /\ request' = [request EXCEPT ![r].at = "waiting", ![r].on = runtime]
          /\ IF runtime \in canceled THEN UNCHANGED vars ELSE Stop
  /\ UNCHANGED <<config, pending, booting>>

StopReturns(r) ==
  /\ Where(r, "waiting") /\ ~Live(request[r].on)
  /\ IF runtime = request[r].on THEN Stopped ELSE UNCHANGED vars
  /\ AfterStop(r)
  /\ UNCHANGED <<config, pending, booting>>
StopTimesOut_unnoticed(r) ==
  /\ Where(r, "waiting") /\ "timeout" \in Faults /\ ~For(r, "undo")
  /\ AfterStop(r)
  /\ UNCHANGED <<vars, config, pending, booting>>
StopTimesOut(r) ==
  /\ Where(r, "waiting") /\ "timeout" \in Faults /\ ~For(r, "undo")
  /\ Answer(r)
  /\ UNCHANGED <<vars, config, pending, booting>>

----------------------------------------------------------------------------
(* What follows the stop, or needs none. *)

SaveConfig(r) ==
  /\ Where(r, "storing") /\ For(r, "bind")
  /\ Bind(request[r].bot)
  /\ Goto(r, "starting")
  /\ UNCHANGED <<vars, pending, booting>>
DeleteConfig(r) ==
  /\ Where(r, "storing") /\ For(r, "delete")
  /\ config' = NoConfig
  /\ Answer(r)
  /\ UNCHANGED <<vars, pending, booting>>
StoreFails(r) ==
  /\ Where(r, "storing") /\ Fails
  /\ Answer(r)
  /\ UNCHANGED <<vars, config, pending, booting>>

CheckRunning(r) ==
  /\ Where(r, "checking")
  /\ request' = IF runtime # 0 /\ Live(runtime)
                THEN [request EXCEPT ![r].at = "switching on", ![r].for = "keep",
                                     ![r].bot = None]
                ELSE [request EXCEPT ![r].at = "starting"]
  /\ UNCHANGED <<vars, config, pending, booting>>

StartRuns(r) ==
  /\ Where(r, "starting") /\ Start(request[r].bot)
  /\ IF For(r, "bind") THEN Answer(r)
     ELSE request' = [request EXCEPT ![r].at = "switching on", ![r].bot = None]
  /\ UNCHANGED <<config, pending, booting>>
StartRefused(r) ==
  /\ Where(r, "starting") /\ (~MayStart \/ Fails)
  /\ IF For(r, "bind")
     THEN request' = [request EXCEPT ![r].at = "switching off", ![r].bot = None]
     ELSE Answer(r)
  /\ UNCHANGED <<vars, config, pending, booting>>

SwitchOn(r) ==
  /\ Where(r, "switching on") /\ SetEnabled(TRUE)
  /\ Answer(r)
  /\ UNCHANGED <<vars, pending, booting>>
SwitchOnFails(r) ==
  /\ Where(r, "switching on") /\ (config.bot = None \/ Fails)
  /\ IF For(r, "keep") THEN Answer(r)
     ELSE request' = [request EXCEPT ![r].at = "stopping", ![r].for = "undo"]
  /\ UNCHANGED <<vars, config, pending, booting>>

SwitchOff(r) ==
  /\ Where(r, "switching off") /\ SetEnabled(FALSE)
  /\ IF For(r, "disable") THEN Goto(r, "stopping") ELSE Answer(r)
  /\ UNCHANGED <<vars, pending, booting>>
SwitchOffFails(r) ==
  /\ Where(r, "switching off") /\ (config.bot = None \/ Fails)
  /\ Answer(r)
  /\ UNCHANGED <<vars, config, pending, booting>>

----------------------------------------------------------------------------
(* The process starts, ends, in the middle of requests or not, and starts  *)
(* again; initializeTelegram runs before the first request is served.  A   *)
(* token given at the start goes before the row, which it does not change; *)
(* if its bot does not start, or the row cannot be read, the process exits *)
(* and the next start is another Boot.  A bot of the row that does not     *)
(* start is only logged.                                                   *)
EndProcess ==
  /\ Crash
  /\ request' = [r \in Requests |-> Idle] /\ pending' = None /\ booting' = TRUE
  /\ UNCHANGED config

Boot ==
  /\ booting
  /\ \/ \E bot \in AtStart : Start(bot)
     \/ config.enabled /\ Start(config.bot)
     \/ ~config.enabled /\ UNCHANGED vars
  /\ booting' = FALSE
  /\ UNCHANGED <<config, pending, request>>
BootWithoutBot ==
  /\ booting /\ config.enabled /\ Fails
  /\ booting' = FALSE
  /\ UNCHANGED <<vars, config, pending, request>>

----------------------------------------------------------------------------
Serve(r) ==
  \/ CallStop(r) \/ StopReturns(r) \/ StopTimesOut(r)
  \/ SaveConfig(r) \/ DeleteConfig(r) \/ StoreFails(r)
  \/ CheckRunning(r) \/ StartRuns(r) \/ StartRefused(r)
  \/ SwitchOn(r) \/ SwitchOnFails(r) \/ SwitchOff(r) \/ SwitchOffFails(r)
Arrive(r) == Confirm(r) \/ ReadSettings(r) \/ Delete(r)
Polling == (Send \/ \E p \in Pollers : Run(p)) /\ UNCHANGED settings

SettingsNext ==
  \/ Begin \/ RefuseCode \/ EndProcess \/ Boot \/ BootWithoutBot \/ Polling
  \/ \E r \in Requests : Arrive(r) \/ Serve(r)
all == <<vars, settings>>
SettingsSpec == SettingsInit /\ [][SettingsNext]_all

(* A handler that can go on does, and so does the loop of a bot; a store   *)
(* that fails at times lets a write that is tried again and again through. *)
Fair ==
  /\ \A r \in Requests : WF_all(Serve(r))
  /\ \A p \in Pollers : /\ WF_all(Run(p) /\ UNCHANGED settings)
                         /\ SF_all(Save(p) /\ UNCHANGED settings)
FairSpec == SettingsSpec /\ Fair

----------------------------------------------------------------------------
(* Properties. *)

(* When a handler that no other one ran next to has bound, enabled,        *)
(* disabled or removed the bot, the row and the runtime agree again,       *)
(* whatever earlier handlers that overlapped, timed out or failed have     *)
(* left behind (README_EN.md:90).  There is one exception: an enable that  *)
(* finds a bot running only writes the row, without a look at which bot it *)
(* is, or whether it was told to stop (telegram_settings.go:225-231).      *)
Agree ==
  IF config.enabled
  THEN runtime # 0 /\ runtime \notin canceled /\ poller[runtime].bot = config.bot
  ELSE runtime = 0
Settles(r) ==
  \/ For(r, "bind") /\ StartRuns(r)
  \/ For(r, "enable") /\ SwitchOn(r)
  \/ For(r, "keep") /\ SwitchOn(r)
  \/ For(r, "disable") /\ (CallStop(r) \/ StopReturns(r)) /\ request'[r].at = "idle"
  \/ DeleteConfig(r)
LeftAsFound(r) ==
  /\ For(r, "keep") /\ config'.enabled
  /\ runtime # 0 /\ (runtime \in canceled \/ poller[runtime].bot # config.bot)
SoleRequestSettles ==
  [][\A r \in Requests :
       (request[r].alone /\ Settles(r)) => (Agree' \/ LeftAsFound(r))]_all

(* Every request is answered, also the one that stops a bot it could not   *)
(* enable and has no deadline for that (telegram_settings.go:248).         *)
EveryRequestAnswered ==
  \A r \in Requests : request[r].at # "idle" ~> request[r].at = "idle"
=============================================================================
