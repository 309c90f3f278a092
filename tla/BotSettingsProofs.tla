------------------------- MODULE BotSettingsProofs -------------------------
(* Proofs about the bots and their settings page for any number of bots,   *)
(* starts, updates and handlers.                                           *)
EXTENDS BotSettings, FiniteSetTheorems, TLAPS

USE DEF Pollers, Updates, Live, Follows, At

(* A poller that was never started is fresh. *)
Unstarted == \A p \in Pollers : p > started => poller[p].at = "none"

(* What a poller of the followed bot has in hand: its own offset is the    *)
(* saved one, and the update it is at was neither handled nor passed over. *)
InStep ==
  \A p \in Pollers :
    LET q == poller[p] IN
    /\ q.at \in {"batch", "handling"} => Follows(p)
    /\ q.at \in {"polling", "batch", "handling"} /\ Follows(p) => q.offset = saved
    /\ q.at = "batch" => q.next >= saved /\ q.next >= 1 /\ q.next <= q.last + 1
                         /\ (saved = 0 => q.next = 1) /\ (saved > 0 => q.next = saved)
    /\ q.at = "handling" => /\ q.next >= 1 /\ q.next <= q.last
                            /\ saved = q.next + 1 /\ handled[q.next] = 0

(* Only updates behind the saved offset were handled, each of them once,   *)
(* and Telegram was asked to forget no others.                             *)
Behind ==
  /\ confirmed <= saved
  /\ \A u \in Updates : handled[u] <= 1 /\ (handled[u] > 0 => u < saved)

Inv == TypeOK /\ OnePoller /\ Unstarted /\ InStep /\ Behind

LEMMA InvInit == Init => Inv
BY UpdatesAssumption DEF Init, Inv, TypeOK, OnePoller, Unstarted, InStep, Behind, Place

PollerRecord == [bot : Bots, at : Place, offset : 0 .. MaxUpdate + 1,
                 next : 0 .. MaxUpdate + 1, last : 0 .. MaxUpdate]

(* What is to be shown of the poller that moved: the others are not live.  *)
Holds(q, handl, sav) ==
  /\ q \in PollerRecord
  /\ q.at \in {"batch", "handling"} => q.bot = Followed
  /\ q.at \in {"polling", "batch", "handling"} /\ q.bot = Followed => q.offset = sav
  /\ q.at = "batch" => q.next >= sav /\ q.next >= 1 /\ q.next <= q.last + 1
                       /\ (sav = 0 => q.next = 1) /\ (sav > 0 => q.next = sav)
  /\ q.at = "handling" => /\ q.next >= 1 /\ q.next <= q.last
                          /\ sav = q.next + 1 /\ handl[q.next] = 0

(* The fields of a poller after some of them were replaced. *)
LEMMA AtAndOffset ==
  ASSUME NEW q \in PollerRecord, NEW at, NEW offset
  PROVE  [q EXCEPT !.at = at, !.offset = offset] =
           [bot |-> q.bot, at |-> at, offset |-> offset, next |-> q.next, last |-> q.last]
<1> DEFINE a == [bot |-> q.bot, at |-> at, offset |-> q.offset, next |-> q.next,
                 last |-> q.last]
<1>1. [q EXCEPT !.at = at] = a
  BY DEF PollerRecord
<1>2. [a EXCEPT !.offset = offset] =
        [bot |-> q.bot, at |-> at, offset |-> offset, next |-> q.next, last |-> q.last]
  OBVIOUS
<1> HIDE DEF a
<1> QED BY <1>1, <1>2

LEMMA AtAndNext ==
  ASSUME NEW q \in PollerRecord, NEW at, NEW next
  PROVE  [q EXCEPT !.at = at, !.next = next] =
           [bot |-> q.bot, at |-> at, offset |-> q.offset, next |-> next, last |-> q.last]
<1> DEFINE a == [bot |-> q.bot, at |-> at, offset |-> q.offset, next |-> q.next,
                 last |-> q.last]
<1>1. [q EXCEPT !.at = at] = a
  BY DEF PollerRecord
<1>2. [a EXCEPT !.next = next] =
        [bot |-> q.bot, at |-> at, offset |-> q.offset, next |-> next, last |-> q.last]
  OBVIOUS
<1> HIDE DEF a
<1> QED BY <1>1, <1>2

LEMMA OneMoves ==
  ASSUME Inv, NEW p \in Pollers, Live(p), NEW q,
         poller' = [poller EXCEPT ![p] = q], Holds(q, handled', saved'),
         UNCHANGED <<started, runtime, produced, canceled, cut>>,
         confirmed' \in 0 .. MaxUpdate + 1, saved' \in 0 .. MaxUpdate + 1,
         handled' \in [Updates -> Nat], Behind'
  PROVE  Inv'
<1> USE UpdatesAssumption
<1>1. p = runtime /\ \A o \in Pollers \ {p} : poller[o].at \in {"none", "done"}
  BY DEF Inv, OnePoller
<1>2. poller \in [Pollers -> PollerRecord] /\ q \in PollerRecord
  BY DEF Inv, TypeOK, Holds, PollerRecord
<1>3. poller'[p] = q /\ \A o \in Pollers \ {p} : poller'[o] = poller[o]
  BY <1>2
<1>4. p <= started
  BY <1>1 DEF Inv, TypeOK
<1>5. poller' \in [Pollers -> PollerRecord]
  BY <1>2
<1>6. OnePoller'
  BY <1>1, <1>3 DEF OnePoller
<1>7. Unstarted'
  BY <1>3, <1>4 DEF Unstarted, Inv
<1>8. InStep'
  <2> SUFFICES ASSUME NEW o \in Pollers PROVE
        LET r == poller'[o] IN
        /\ r.at \in {"batch", "handling"} => Follows(o)'
        /\ r.at \in {"polling", "batch", "handling"} /\ Follows(o)' => r.offset = saved'
        /\ r.at = "batch" => r.next >= saved' /\ r.next >= 1 /\ r.next <= r.last + 1
                         /\ (saved' = 0 => r.next = 1) /\ (saved' > 0 => r.next = saved')
        /\ r.at = "handling" => /\ r.next >= 1 /\ r.next <= r.last
                            /\ saved' = r.next + 1 /\ handled'[r.next] = 0
    BY DEF InStep
  <2>1. CASE o = p
    BY <2>1, <1>3 DEF Holds
  <2>2. CASE o # p
    BY <2>2, <1>1, <1>3
  <2> QED BY <2>1, <2>2
<1>9. TypeOK'
  BY <1>5 DEF TypeOK, PollerRecord, Inv
<1> QED BY <1>6, <1>7, <1>8, <1>9 DEF Inv

(* A step of the loop of a bot. *)
LEMMA RunStep == ASSUME Inv, NEW p \in Pollers, Run(p) PROVE Inv'
<1> USE UpdatesAssumption
<1> DEFINE q == poller[p]
<1>0. /\ started \in 0 .. MaxStarts /\ runtime \in 0 .. started
      /\ confirmed \in 0 .. MaxUpdate + 1 /\ saved \in 0 .. MaxUpdate + 1
      /\ produced \in 0 .. MaxUpdate /\ handled \in [Updates -> Nat]
      /\ canceled \subseteq Pollers /\ cut \in Nat /\ confirmed <= saved
  BY DEF Inv, TypeOK, Behind
<1>1. q \in PollerRecord /\ poller \in [Pollers -> PollerRecord]
  BY DEF Inv, TypeOK, PollerRecord
<1>2. Holds(q, handled, saved)
  BY <1>1 DEF Inv, InStep, Holds
<1>3. UNCHANGED <<started, runtime, produced, canceled, cut>> /\ Live(p)
  BY DEF Run, Load, LoadFails, Poll, PollCanceled, Save, SaveFails, Handle, EndBatch,
         InBatch
<1>4. CASE Load(p)
  <2> DEFINE r == [bot |-> q.bot, at |-> "polling", offset |-> IF q.bot = Followed THEN saved ELSE 0, next |-> q.next,
                 last |-> q.last]
  <2>1. poller' = [poller EXCEPT ![p] = r] /\ UNCHANGED <<confirmed, saved, handled>>
    <3>1. poller' = [poller EXCEPT ![p] = [q EXCEPT !.at = "polling",
                       !.offset = IF q.bot = Followed THEN saved ELSE 0]]
      BY <1>4, <1>1 DEF Load
    <3>2. @ = [poller EXCEPT ![p] = r]
      BY <1>1, AtAndOffset
    <3> QED BY <1>4, <3>1, <3>2 DEF Load
  <2>2. Holds(r, handled', saved')
    BY <2>1, <1>0, <1>1 DEF Holds, PollerRecord, Place
  <2>3. Behind'
    BY <2>1 DEF Behind, Inv
  <2> HIDE DEF r
  <2> QED BY <2>1, <2>2, <2>3, <1>0, <1>3, OneMoves
<1>5. CASE LoadFails(p) \/ PollCanceled(p) \/ EndBatch(p)
  <2>1. PICK at \in {"done", "polling"} : /\ poller' = [poller EXCEPT ![p].at = at]
                                          /\ at = "polling" => q.at = "batch" /\ q.next > q.last
                                          /\ UNCHANGED <<confirmed, saved, handled>>
    BY <1>5 DEF LoadFails, PollCanceled, EndBatch
  <2> DEFINE r == [q EXCEPT !.at = at]
  <2>2. poller' = [poller EXCEPT ![p] = r]
    BY <2>1, <1>1
  <2>3. Holds(r, handled', saved')
    BY <2>1, <1>0, <1>1, <1>2 DEF Holds, PollerRecord, Place
  <2>4. Behind'
    BY <2>1 DEF Behind, Inv
  <2> HIDE DEF r
  <2> QED BY <2>1, <2>2, <2>3, <2>4, <1>0, <1>3, OneMoves
<1>6. CASE Poll(p)
  <2>0. q.offset = saved /\ q.offset \in Int
    BY <1>6, <1>1, <1>2 DEF Poll, Holds, PollerRecord
  <2>1. confirmed' = saved
    BY <1>6, <1>0, <2>0 DEF Poll, Largest
  <2>2. PICK last \in Largest(confirmed', 1) .. produced :
          poller' = [poller EXCEPT ![p].at = "batch", ![p].last = last,
                                   ![p].next = Largest(confirmed', 1)]
    BY <1>6 DEF Poll
  <2> DEFINE next == Largest(saved, 1)
             r == [bot |-> q.bot, at |-> "batch", offset |-> q.offset, next |-> next,
                 last |-> last]
  <2>3. poller' = [poller EXCEPT ![p] = r] /\ UNCHANGED <<saved, handled>>
    <3>1. poller' = [poller EXCEPT ![p] = [q EXCEPT !.at = "batch", !.last = last,
                                                    !.next = next]]
      BY <2>1, <2>2, <1>1
    <3>2. @ = [poller EXCEPT ![p] = r]
      <4> DEFINE a == [bot |-> q.bot, at |-> "batch", offset |-> q.offset,
                       next |-> q.next, last |-> q.last]
                 b == [bot |-> q.bot, at |-> "batch", offset |-> q.offset,
                       next |-> q.next, last |-> last]
      <4> HIDE DEF q, next
      <4>1. [q EXCEPT !.at = "batch"] = a
        BY <1>1 DEF PollerRecord
      <4>2. [a EXCEPT !.last = last] = b
        OBVIOUS
      <4>3. [b EXCEPT !.next = next] = r
        OBVIOUS
      <4>4. [q EXCEPT !.at = "batch", !.last = last, !.next = next] =
              [[[q EXCEPT !.at = "batch"] EXCEPT !.last = last] EXCEPT !.next = next]
        OBVIOUS
      <4> HIDE DEF a, b, r
      <4> QED BY <4>1, <4>2, <4>3, <4>4
    <3> QED BY <1>6, <3>1, <3>2 DEF Poll
  <2>4. next \in 1 .. MaxUpdate + 1 /\ last \in next .. MaxUpdate
        /\ (saved = 0 => next = 1) /\ (saved > 0 => next = saved)
    BY <2>1, <2>2, <1>0 DEF Largest
  <2>5. Holds(r, handled', saved')
    <3> HIDE DEF next
    <3>1. r \in PollerRecord /\ r.at = "batch" /\ r.next = next /\ r.last = last
          /\ r.bot = q.bot /\ r.offset = q.offset
      BY <2>4, <1>0, <1>1 DEF PollerRecord, Place
    <3>2. q.bot = Followed
      BY <1>6 DEF Poll
    <3> QED BY <3>1, <3>2, <2>0, <2>3, <2>4, <1>0 DEF Holds
  <2>6. Behind'
    BY <2>1, <2>3, <1>0 DEF Behind, Inv
  <2> HIDE DEF r
  <2> QED BY <2>1, <2>3, <2>5, <2>6, <1>0, <1>3, OneMoves
<1>7. CASE Save(p)
  <2>1. q.at = "batch" /\ q.next <= q.last /\ q.next \in 1 .. MaxUpdate /\ q.next \in Updates
        /\ q.next >= saved /\ q.bot = Followed /\ q.last \in 0 .. MaxUpdate
    BY <1>7, <1>0, <1>1, <1>2 DEF Save, InBatch, Holds, PollerRecord
  <2>2. saved' = q.next + 1 /\ UNCHANGED <<confirmed, handled>>
    BY <1>7, <1>0, <2>1 DEF Save, Raised, NextOffset, Largest
  <2> DEFINE r == [bot |-> q.bot, at |-> "handling", offset |-> q.next + 1, next |-> q.next,
                 last |-> q.last]
  <2>3. poller' = [poller EXCEPT ![p] = r]
    <3>1. poller' = [poller EXCEPT ![p] = [q EXCEPT !.at = "handling", !.offset = q.next + 1]]
      BY <1>7, <1>1 DEF Save, NextOffset
    <3>2. @ = [poller EXCEPT ![p] = r]
      BY <1>1, AtAndOffset
    <3> QED BY <3>1, <3>2
  <2>4. handled[q.next] = 0
    BY <2>1, <1>0 DEF Inv, Behind
  <2>5. Holds(r, handled', saved')
    <3>1. /\ r.at = "handling" /\ r.next = q.next /\ r.last = q.last
          /\ r.bot = q.bot /\ r.offset = q.next + 1
      OBVIOUS
    <3>2. r \in PollerRecord
      BY <2>1, <1>1 DEF PollerRecord, Place
    <3> HIDE DEF r
    <3>3. /\ r.next >= 1 /\ r.next <= r.last
          /\ saved' = r.next + 1 /\ handled'[r.next] = 0
      BY <3>1, <2>1, <2>2, <2>4
    <3> QED BY <3>1, <3>2, <3>3, <2>1, <2>2 DEF Holds
  <2>6. Behind'
    BY <2>1, <2>2, <1>0 DEF Behind, Inv
  <2>7. saved' \in 0 .. MaxUpdate + 1 /\ UNCHANGED <<confirmed, handled>>
    BY <2>1, <2>2
  <2> HIDE DEF r
  <2> QED BY <2>3, <2>5, <2>6, <2>7, <1>0, <1>3, OneMoves
<1>8. CASE SaveFails(p)
  <2>1. q.at = "batch" /\ q.next <= q.last /\ q.next \in 1 .. MaxUpdate
        /\ q.next >= saved /\ q.bot = Followed /\ q.last \in 0 .. MaxUpdate
    BY <1>8, <1>0, <1>1, <1>2 DEF SaveFails, InBatch, Holds, PollerRecord
  <2>2. PICK at \in {"done", "polling"} :
          /\ poller' = [poller EXCEPT ![p].at = at]
          /\ at = "polling" => saved' = saved
          /\ saved' \in {saved, q.next + 1} /\ UNCHANGED <<confirmed, handled>>
    <3>1. Raised(NextOffset(p)) = q.next + 1
      BY <2>1, <1>0 DEF Raised, NextOffset, Largest
    <3> QED BY <1>8, <3>1 DEF SaveFails, AfterFailure
  <2> DEFINE r == [q EXCEPT !.at = at]
  <2>3. poller' = [poller EXCEPT ![p] = r]
    BY <2>2, <1>1
  <2>4. Holds(r, handled', saved')
    BY <2>1, <2>2, <1>0, <1>1, <1>2 DEF Holds, PollerRecord, Place
  <2>5. Behind'
    <3>1. saved' \in Int /\ saved' >= saved /\ UNCHANGED <<confirmed, handled>>
      BY <2>1, <2>2, <1>0
    <3> QED BY <3>1, <1>0 DEF Behind, Inv
  <2>7. saved' \in 0 .. MaxUpdate + 1 /\ UNCHANGED <<confirmed, handled>>
    BY <2>1, <2>2, <1>0
  <2> HIDE DEF r
  <2> QED BY <2>3, <2>4, <2>5, <2>7, <1>0, <1>3, OneMoves
<1>9. CASE Handle(p)
  <2>1. q.at = "handling" /\ q.next <= q.last /\ q.next \in 1 .. MaxUpdate /\ q.next \in Updates
        /\ saved = q.next + 1 /\ handled[q.next] = 0 /\ q.bot = Followed
        /\ q.last \in 0 .. MaxUpdate /\ q.offset = saved
    BY <1>9, <1>0, <1>1, <1>2 DEF Handle, Holds, PollerRecord
  <2>2. handled' = [handled EXCEPT ![q.next] = 1] /\ UNCHANGED <<confirmed, saved>>
    BY <1>9, <1>0, <2>1 DEF Handle
  <2> DEFINE r == [bot |-> q.bot, at |-> "batch", offset |-> q.offset, next |-> q.next + 1,
                 last |-> q.last]
  <2>3. poller' = [poller EXCEPT ![p] = r]
    <3>1. poller' = [poller EXCEPT ![p] = [q EXCEPT !.at = "batch", !.next = q.next + 1]]
      BY <1>9, <1>1 DEF Handle
    <3>2. @ = [poller EXCEPT ![p] = r]
      BY <1>1, AtAndNext
    <3> QED BY <3>1, <3>2
  <2>4. Holds(r, handled', saved')
    <3>1. r \in PollerRecord
      BY <2>1, <1>1 DEF PollerRecord, Place
    <3> QED BY <3>1, <2>1, <2>2 DEF Holds
  <2>5. Behind'
    BY <2>1, <2>2, <1>0 DEF Behind, Inv
  <2>6. handled' \in [Updates -> Nat]
    BY <2>1, <2>2, <1>0
  <2> HIDE DEF r
  <2> QED BY <2>1, <2>2, <2>3, <2>4, <2>5, <2>6, <1>0, <1>3, OneMoves
<1> QED BY <1>4, <1>5, <1>6, <1>7, <1>8, <1>9 DEF Run

LEMMA InvStep == Inv /\ [Next]_vars => Inv'
<1> SUFFICES ASSUME Inv, [Next]_vars PROVE Inv'
  OBVIOUS
<1> USE UpdatesAssumption
<1>0. /\ started \in 0 .. MaxStarts /\ runtime \in 0 .. started
      /\ poller \in [Pollers -> PollerRecord]
  BY DEF Inv, TypeOK, PollerRecord
<1>1. CASE Send
  BY <1>1, <1>0 DEF Send, Inv, TypeOK, OnePoller, Unstarted, InStep, Behind
<1>2. CASE Stop
  BY <1>2, <1>0 DEF Stop, Inv, TypeOK, OnePoller, Unstarted, InStep, Behind
<1>3. CASE Stopped
  <2>1. runtime' = 0 /\ UNCHANGED <<produced, confirmed, saved, handled, started, poller,
                                   canceled, cut>>
    BY <1>3 DEF Stopped
  <2>2. \A p \in Pollers : ~Live(p)
    BY <1>3 DEF Stopped, Inv, OnePoller
  <2> QED BY <2>1, <2>2, <1>0 DEF Inv, TypeOK, OnePoller, Unstarted, InStep, Behind
<1>4. CASE Crash
  <2>1. /\ \A p \in Pollers : poller'[p] = IF Live(p) THEN [poller[p] EXCEPT !.at = "done"]
                                           ELSE poller[p]
        /\ poller' = [p \in Pollers |-> poller'[p]] /\ runtime' = 0
        /\ cut' \in {cut, cut + 1}
        /\ UNCHANGED <<produced, confirmed, saved, handled, started, canceled>>
    BY <1>4 DEF Crash
  <2>2. \A p \in Pollers : poller'[p] \in PollerRecord /\ poller'[p].at \in {"none", "done"}
                           /\ (poller[p].at = "none" => poller'[p].at = "none")
    BY <2>1, <1>0 DEF PollerRecord, Place
  <2>3. TypeOK'
    <3>1. poller' \in [Pollers -> PollerRecord]
      BY <2>1, <2>2
    <3> QED BY <2>1, <3>1, <1>0 DEF TypeOK, Inv, PollerRecord
  <2> QED BY <2>1, <2>2, <2>3 DEF Inv, OnePoller, Unstarted, InStep, Behind
<1>5. ASSUME NEW bot \in Bots, Start(bot) PROVE Inv'
  <2> DEFINE n == started + 1
             r == [[poller[n] EXCEPT !.bot = bot] EXCEPT !.at = "loading"]
  <2>1. n \in Pollers /\ started' = n /\ runtime' = n /\ poller' = [poller EXCEPT ![n] = r]
        /\ UNCHANGED <<produced, confirmed, saved, handled, canceled, cut>>
    <3>1. started' = n /\ n \in Pollers /\ runtime' = n
          /\ UNCHANGED <<produced, confirmed, saved, handled, canceled, cut>>
      BY <1>5, <1>0 DEF Start
    <3>2. poller' = [poller EXCEPT ![n].bot = bot, ![n].at = "loading"]
      BY <1>5, <3>1 DEF Start
    <3> QED BY <3>1, <3>2, <1>0
  <2>2. \A p \in Pollers : ~Live(p)
    BY <1>5, <1>0 DEF Start, MayStart, Inv, OnePoller
  <2>3. r \in PollerRecord /\ r.at = "loading"
    BY <1>0, <2>1 DEF PollerRecord, Place
  <2> HIDE DEF r
  <2>4. poller'[n] = r /\ \A p \in Pollers \ {n} : poller'[p] = poller[p]
    BY <2>1, <1>0
  <2>5. TypeOK'
    <3>1. poller' \in [Pollers -> PollerRecord]
      BY <2>1, <2>3, <1>0
    <3>2. started' \in 0 .. MaxStarts /\ runtime' \in 0 .. started'
      BY <2>1, <1>0
    <3> QED BY <2>1, <3>1, <3>2 DEF TypeOK, Inv, PollerRecord
  <2>6. OnePoller' /\ Unstarted'
    BY <2>1, <2>2, <2>4, <1>0 DEF OnePoller, Unstarted, Inv
  <2>7. InStep'
    BY <2>1, <2>2, <2>3, <2>4 DEF InStep
  <2> QED BY <2>1, <2>5, <2>6, <2>7 DEF Inv, Behind
<1>6. ASSUME NEW p \in Pollers, Run(p) PROVE Inv'
  BY <1>6, RunStep
<1>7. CASE UNCHANGED vars
  BY <1>7 DEF vars, Inv, TypeOK, OnePoller, Unstarted, InStep, Behind
<1> QED BY <1>1, <1>2, <1>3, <1>4, <1>5, <1>6, <1>7 DEF Next

(* The variables of the bots keep their types: a poller is never at an     *)
(* update that was not sent (telegrambot/bot.go).                          *)
THEOREM TypeCorrect == Spec => []TypeOK
BY InvInit, InvStep, PTL DEF Spec, Inv

(* However often the bot is stopped, started and crashes, one poller runs  *)
(* at a time, the one App.telegram knows (serverapp/telegram.go).          *)
THEOREM OnePollerTheorem == Spec => []OnePoller
BY InvInit, InvStep, PTL DEF Spec, Inv

(* No update is handled twice, for any number of updates, starts, crashes  *)
(* and failed writes: what a poller has in hand is behind the stored       *)
(* offset and nobody else is at it (telegrambot/bot.go).                   *)
THEOREM HandledOnceTheorem == Spec => []HandledOnce
<1>1. Inv => HandledOnce
  BY DEF Inv, Behind, HandledOnce
<1> QED BY <1>1, InvInit, InvStep, PTL DEF Spec

----------------------------------------------------------------------------
(* What is lost. *)

(* A poller that was stopped and has not noticed may still move the offset *)
(* past one update, for which its stop has been counted.                   *)
Bool(b) == IF b THEN 1 ELSE 0
Handling == \E p \in Pollers : poller[p].at = "handling"
Stopping == \E p \in Pollers : Live(p) /\ p \in canceled
Accounted ==
  /\ canceled \subseteq 1 .. started
  /\ Cardinality(Lost) + Bool(Stopping) <= cut + Bool(Handling)

LEMMA LostFinite == ASSUME Inv PROVE IsFiniteSet(Lost) /\ Cardinality(Lost) \in Nat
<1>1. IsFiniteSet(Updates)
  BY FS_Interval, UpdatesAssumption
<1>2. Lost \subseteq Updates
  BY DEF Lost
<1>3. IsFiniteSet(Lost)
  BY <1>1, <1>2, FS_Subset
<1> QED BY <1>3, FS_CardinalityType

LEMMA InHandCounted == ASSUME Inv PROVE Cardinality(InHand) = Bool(Handling)
<1>1. CASE Handling
  <2>1. PICK p \in Pollers : poller[p].at = "handling"
    BY <1>1 DEF Handling
  <2>2. InHand = {p}
    BY <2>1 DEF InHand, Inv, OnePoller
  <2>3. Cardinality({p}) = 1
    BY FS_Singleton
  <2> QED BY <1>1, <2>2, <2>3 DEF Bool
<1>2. CASE ~Handling
  <2>1. InHand = {}
    BY <1>2 DEF Handling, InHand
  <2> QED BY <1>2, <2>1, FS_EmptySet DEF Bool
<1> QED BY <1>1, <1>2

LEMMA AccountedInit == Init => Accounted
<1> SUFFICES ASSUME Init PROVE Accounted
  OBVIOUS
<1>1. Lost = {}
  BY UpdatesAssumption DEF Init, Lost
<1>2. ~Stopping /\ canceled = {} /\ cut = 0
  BY DEF Init, Stopping
<1>3. ~Handling
  BY DEF Init, Handling
<1> QED BY <1>1, <1>2, <1>3, FS_EmptySet DEF Accounted, Bool

(* One poller moves, from one place to another. *)
LEMMA MoveCounts ==
  ASSUME Inv, NEW p \in Pollers, Live(p), UNCHANGED canceled,
         \A o \in Pollers \ {p} : poller'[o] = poller[o]
  PROVE  /\ Handling <=> poller[p].at = "handling"
         /\ Handling' <=> poller'[p].at = "handling"
         /\ Stopping <=> p \in canceled
         /\ Stopping' <=> p \in canceled /\ poller'[p].at \notin {"none", "done"}
<1>1. \A o \in Pollers \ {p} : poller[o].at \in {"none", "done"}
  BY DEF Inv, OnePoller
<1> QED BY <1>1 DEF Handling, Stopping

LEMMA Moved ==
  ASSUME Inv, NEW p \in Pollers, Run(p)
  PROVE  /\ \A o \in Pollers \ {p} : poller'[o] = poller[o]
         /\ Load(p) => poller'[p].at = "polling"
         /\ Poll(p) => poller'[p].at = "batch"
         /\ Save(p) => poller'[p].at = "handling"
         /\ Handle(p) => poller'[p].at = "batch"
<1>0. poller \in [Pollers -> PollerRecord]
  BY DEF Inv, TypeOK, PollerRecord
<1>1. CASE Load(p)
  <2>1. PICK offset : poller' = [poller EXCEPT ![p].at = "polling", ![p].offset = offset]
    BY <1>1 DEF Load
  <2>2. poller' = [poller EXCEPT ![p] = [[poller[p] EXCEPT !.at = "polling"]
                                          EXCEPT !.offset = offset]]
    BY <1>0, <2>1
  <2>3. poller'[p].at = "polling" /\ \A o \in Pollers \ {p} : poller'[o] = poller[o]
    BY <1>0, <2>2 DEF PollerRecord
  <2> QED BY <1>1, <2>3 DEF Load, Poll, Save, Handle, InBatch
<1>2. CASE Poll(p)
  <2>1. PICK last, next : poller' = [poller EXCEPT ![p].at = "batch", ![p].last = last,
                                                   ![p].next = next]
    BY <1>2 DEF Poll
  <2>2. poller' = [poller EXCEPT ![p] = [[[poller[p] EXCEPT !.at = "batch"]
                                           EXCEPT !.last = last] EXCEPT !.next = next]]
    BY <1>0, <2>1
  <2>3. poller'[p].at = "batch" /\ \A o \in Pollers \ {p} : poller'[o] = poller[o]
    BY <1>0, <2>2 DEF PollerRecord
  <2> QED BY <1>2, <2>3 DEF Load, Poll, Save, Handle, InBatch
<1>3. CASE Save(p)
  <2>1. PICK offset : poller' = [poller EXCEPT ![p].at = "handling", ![p].offset = offset]
    BY <1>3 DEF Save
  <2>2. poller' = [poller EXCEPT ![p] = [[poller[p] EXCEPT !.at = "handling"]
                                          EXCEPT !.offset = offset]]
    BY <1>0, <2>1
  <2>3. poller'[p].at = "handling" /\ \A o \in Pollers \ {p} : poller'[o] = poller[o]
    BY <1>0, <2>2 DEF PollerRecord
  <2> QED BY <1>3, <2>3 DEF Load, Poll, Save, Handle, InBatch
<1>4. CASE Handle(p)
  <2>1. PICK next : poller' = [poller EXCEPT ![p].at = "batch", ![p].next = next]
    BY <1>4 DEF Handle
  <2>2. poller' = [poller EXCEPT ![p] = [[poller[p] EXCEPT !.at = "batch"]
                                          EXCEPT !.next = next]]
    BY <1>0, <2>1
  <2>3. poller'[p].at = "batch" /\ \A o \in Pollers \ {p} : poller'[o] = poller[o]
    BY <1>0, <2>2 DEF PollerRecord
  <2> QED BY <1>4, <2>3 DEF Load, Poll, Save, Handle, InBatch
<1>5. CASE LoadFails(p) \/ PollCanceled(p) \/ SaveFails(p) \/ EndBatch(p)
  <2>1. PICK at : poller' = [poller EXCEPT ![p].at = at]
    BY <1>5 DEF LoadFails, PollCanceled, SaveFails, EndBatch
  <2>2. \A o \in Pollers \ {p} : poller'[o] = poller[o]
    BY <2>1, <1>0
  <2> QED BY <2>2, <1>1, <1>2, <1>3, <1>4
<1> QED BY <1>1, <1>2, <1>3, <1>4, <1>5 DEF Run

LEMMA RunAccounted ==
  ASSUME Inv, Accounted, NEW p \in Pollers, Run(p) PROVE Accounted'
<1> USE UpdatesAssumption
<1> DEFINE q == poller[p]
<1>0. /\ poller \in [Pollers -> PollerRecord] /\ q \in PollerRecord /\ saved \in Int
      /\ cut \in Nat /\ Cardinality(Lost) \in Nat /\ IsFiniteSet(Lost)
      /\ handled \in [Updates -> Nat]
  <2>1. Cardinality(Lost) \in Nat /\ IsFiniteSet(Lost)
    BY LostFinite
  <2>2. poller \in [Pollers -> PollerRecord]
    BY DEF Inv, TypeOK, PollerRecord
  <2>3. saved \in Int /\ cut \in Nat /\ handled \in [Updates -> Nat]
    BY DEF Inv, TypeOK
  <2> QED BY <2>1, <2>2, <2>3
<1>1. UNCHANGED <<started, canceled, cut>> /\ Live(p)
  BY DEF Run, Load, LoadFails, Poll, PollCanceled, Save, SaveFails, Handle, EndBatch,
         InBatch
<1>2. \A o \in Pollers \ {p} : poller'[o] = poller[o]
  BY Moved
<1>3. /\ Handling <=> q.at = "handling"
      /\ Handling' <=> poller'[p].at = "handling"
      /\ Stopping <=> p \in canceled
      /\ Stopping' <=> p \in canceled /\ poller'[p].at \notin {"none", "done"}
  BY <1>1, <1>2, MoveCounts
<1>4. CASE Load(p) \/ LoadFails(p) \/ Poll(p) \/ PollCanceled(p) \/ EndBatch(p)
  <2>1. UNCHANGED <<saved, handled>> /\ q.at # "handling"
    BY <1>4 DEF Load, LoadFails, Poll, PollCanceled, EndBatch
  <2>2. poller'[p].at # "handling"
    BY <1>4, <1>0, Moved DEF LoadFails, PollCanceled, EndBatch, PollerRecord
  <2>3. Lost' = Lost
    BY <2>1 DEF Lost
  <2>4. ~Handling /\ ~Handling' /\ (Stopping' => Stopping)
    BY <1>3, <2>1, <2>2
  <2> QED BY <2>3, <2>4, <1>0, <1>1 DEF Accounted, Bool
<1>5. CASE Save(p) \/ SaveFails(p)
  <2>1. /\ q.at = "batch" /\ q.next \in Updates /\ q.next >= saved /\ saved >= 0
        /\ (saved > 0 => q.next = saved) /\ (saved = 0 => q.next = 1)
        /\ UNCHANGED handled /\ Raised(NextOffset(p)) = q.next + 1
    BY <1>5, <1>0 DEF Save, SaveFails, InBatch, Inv, InStep, TypeOK, PollerRecord, Raised,
                      NextOffset, Largest
  <2>2. handled[q.next] = 0
    BY <2>1, <1>0 DEF Inv, Behind
  <2>3. q.next \notin Lost
    BY <2>1, <1>0 DEF Lost
  <2>4. saved' = q.next + 1 => Lost' = Lost \cup {q.next}
    BY <2>1, <2>2, <1>0 DEF Lost
  <2>5. saved' = saved => Lost' = Lost
    BY <2>1 DEF Lost
  <2>6. Cardinality(Lost \cup {q.next}) = Cardinality(Lost) + 1
    BY <2>3, <1>0, FS_AddElement
  <2>7. CASE Save(p)
    <3>1. saved' = q.next + 1 /\ p \notin canceled
      BY <2>7, <2>1 DEF Save
    <3>2. poller'[p].at = "handling"
      BY <2>7, Moved
    <3>3. ~Handling /\ Handling' /\ ~Stopping'
      BY <1>3, <2>1, <3>1, <3>2
    <3>4. Bool(Handling) = 0 /\ Bool(Handling') = 1 /\ Bool(Stopping') = 0
      BY <3>3 DEF Bool
    <3>5. Bool(Stopping) \in {0, 1} /\ Cardinality(Lost') = Cardinality(Lost) + 1
      BY <3>1, <2>4, <2>6 DEF Bool
    <3> QED BY <3>4, <3>5, <1>0, <1>1 DEF Accounted
  <2>8. CASE SaveFails(p)
    <3>1. poller'[p].at \in {"done", "polling"} /\ (p \in canceled => poller'[p].at = "done")
      BY <2>8, <1>0 DEF SaveFails, AfterFailure, PollerRecord
    <3>2. ~Handling /\ ~Handling' /\ ~Stopping' /\ (Stopping <=> p \in canceled)
      BY <1>3, <2>1, <3>1
    <3>3. saved' = saved \/ (p \in canceled /\ saved' = q.next + 1)
      <4>1. saved' \in IF p \in canceled THEN {saved, Raised(NextOffset(p))} ELSE {saved}
        BY <2>8 DEF SaveFails
      <4> QED BY <4>1, <2>1
    <3>4. Bool(Handling) = 0 /\ Bool(Handling') = 0 /\ Bool(Stopping') = 0
      BY <3>2 DEF Bool
    <3>5. CASE saved' = saved
      <4>1. Cardinality(Lost') = Cardinality(Lost) /\ Bool(Stopping) \in {0, 1}
        BY <3>5, <2>5 DEF Bool
      <4> QED BY <4>1, <3>4, <1>0, <1>1 DEF Accounted
    <3>6. CASE p \in canceled /\ saved' = q.next + 1
      <4>1. Cardinality(Lost') = Cardinality(Lost) + 1
        BY <3>6, <2>4, <2>6
      <4>2. Bool(Stopping) = 1
        BY <3>2, <3>6 DEF Bool
      <4> QED BY <4>1, <4>2, <3>4, <1>0, <1>1 DEF Accounted
    <3> QED BY <3>3, <3>5, <3>6
  <2> QED BY <1>5, <2>7, <2>8
<1>6. CASE Handle(p)
  <2>1. /\ q.at = "handling" /\ q.next \in Updates /\ saved = q.next + 1
        /\ handled[q.next] = 0 /\ saved' = saved
        /\ handled' = [handled EXCEPT ![q.next] = @ + 1]
    BY <1>6, <1>0 DEF Handle, Inv, InStep, TypeOK, PollerRecord
  <2>2. poller'[p].at = "batch"
    BY <1>6, Moved
  <2>3. q.next \in Lost
    BY <2>1, <1>0 DEF Lost
  <2>4. Lost' = Lost \ {q.next}
    BY <2>1, <1>0 DEF Lost
  <2>5. Cardinality(Lost \ {q.next}) = Cardinality(Lost) - 1
    BY <2>3, <1>0, FS_RemoveElement
  <2>6. Handling /\ ~Handling' /\ (Stopping' => Stopping)
    BY <1>3, <2>1, <2>2
  <2> QED BY <2>4, <2>5, <2>6, <1>0, <1>1 DEF Accounted, Bool
<1> QED BY <1>4, <1>5, <1>6 DEF Run

LEMMA AccountedStep == Inv /\ Accounted /\ [Next]_vars => Accounted'
<1> SUFFICES ASSUME Inv, Accounted, [Next]_vars PROVE Accounted'
  OBVIOUS
<1> USE UpdatesAssumption
<1>0. /\ poller \in [Pollers -> PollerRecord] /\ cut \in Nat /\ Cardinality(Lost) \in Nat
      /\ started \in 0 .. MaxStarts /\ runtime \in 0 .. started
  BY LostFinite DEF Inv, TypeOK, PollerRecord
<1>1. CASE Send \/ Stopped \/ UNCHANGED vars
  <2>1. UNCHANGED <<saved, handled, poller, canceled, cut, started>>
    BY <1>1 DEF Send, Stopped, vars
  <2> QED BY <2>1 DEF Accounted, Lost, Stopping, Handling
<1>2. CASE Stop
  <2>1. UNCHANGED <<saved, handled, poller, started>>
        /\ runtime \in 1 .. started /\ canceled' = canceled \cup {runtime}
        /\ cut' = IF Live(runtime) THEN cut + 1 ELSE cut
    BY <1>2, <1>0 DEF Stop
  <2>2. Lost' = Lost /\ (Handling' <=> Handling)
    BY <2>1 DEF Lost, Handling
  <2>3. runtime \in Pollers /\ (Stopping' => Stopping \/ Live(runtime))
    BY <2>1, <1>0 DEF Stopping
  <2> QED BY <2>1, <2>2, <2>3, <1>0 DEF Accounted, Bool
<1>3. CASE Crash
  <2>1. UNCHANGED <<saved, handled, started, canceled>>
        /\ cut' = IF \E p \in Pollers : Live(p) THEN cut + 1 ELSE cut
    BY <1>3 DEF Crash
  <2>2. ~Handling' /\ ~Stopping'
    <3>1. \A p \in Pollers : poller'[p].at \in {"none", "done"}
      BY <1>3, <1>0 DEF Crash, PollerRecord
    <3> QED BY <3>1 DEF Handling, Stopping
  <2>3. Lost' = Lost /\ (Handling => \E p \in Pollers : Live(p))
    BY <2>1 DEF Lost, Handling
  <2> QED BY <2>1, <2>2, <2>3, <1>0 DEF Accounted, Bool
<1>4. ASSUME NEW bot \in Bots, Start(bot) PROVE Accounted'
  <2>1. UNCHANGED <<saved, handled, canceled, cut>> /\ started' = started + 1
        /\ started' \in Pollers
    BY <1>4, <1>0 DEF Start
  <2>2. /\ \A p \in Pollers \ {started'} : poller'[p] = poller[p]
        /\ poller'[started'].at = "loading"
    BY <1>4, <1>0, <2>1 DEF Start, PollerRecord
  <2>3. Lost' = Lost /\ (Handling' => Handling) /\ started' \notin canceled
    BY <2>1, <2>2, <1>0 DEF Lost, Handling, Accounted
  <2>4. Stopping' => Stopping
    BY <2>1, <2>2, <2>3 DEF Stopping
  <2>5. ~Handling
    <3>1. \A p \in Pollers : ~Live(p)
      BY <1>4, <1>0 DEF Start, MayStart, Inv, OnePoller
    <3> QED BY <3>1 DEF Handling
  <2> QED BY <2>1, <2>3, <2>4, <2>5, <1>0 DEF Accounted, Bool
<1>5. ASSUME NEW p \in Pollers, Run(p) PROVE Accounted'
  BY <1>5, RunAccounted
<1> QED BY <1>1, <1>2, <1>3, <1>4, <1>5 DEF Next

(* Each crash or stop loses at most one update; the write that ends with   *)
(* its context, which may have moved the offset, is paid for by the stop   *)
(* that ended it (telegrambot/bot.go, store/telegram_offset.go).           *)
THEOREM OneLostPerCutTheorem == Spec => []OneLostPerCut
<1>1. Inv /\ Accounted => OneLostPerCut
  <2> SUFFICES ASSUME Inv, Accounted PROVE OneLostPerCut
    OBVIOUS
  <2>1. Cardinality(InHand) = Bool(Handling) /\ Cardinality(Lost) \in Nat /\ cut \in Nat
    BY InHandCounted, LostFinite DEF Inv, TypeOK
  <2> QED BY <2>1 DEF Accounted, OneLostPerCut, Bool
<1> QED BY <1>1, InvInit, InvStep, AccountedInit, AccountedStep, PTL DEF Spec

----------------------------------------------------------------------------
(* The settings page. *)

RequestRecord == [at : Step, for : Purpose, bot : Bots \cup {None},
                  on : 0 .. MaxStarts, alone : BOOLEAN]

(* A handler that may come to start a bot holds one. *)
Holding(q) ==
  /\ q.at \in {"starting", "checking"} => q.bot \in Bots
  /\ q.for = "bind" /\ q.at \in {"stopping", "waiting", "storing"} => q.bot \in Bots

SettingsInv ==
  /\ Inv
  /\ config \in [bot : Bots \cup {None}, enabled : BOOLEAN]
  /\ config.enabled => config.bot # None
  /\ pending \in [bot : Bots, tries : 1 .. MaxTries] \cup {None}
  /\ request \in [Requests -> RequestRecord]
  /\ \A r \in Requests : Holding(request[r])
  /\ booting \in BOOLEAN

RequestsSound ==
  /\ request \in [Requests -> RequestRecord]
  /\ \A r \in Requests : Holding(request[r])

LEMMA IdleSound == Idle \in RequestRecord /\ Holding(Idle)
BY UpdatesAssumption DEF Idle, RequestRecord, Step, Purpose, Holding

LEMMA SettingsInitInv == SettingsInit => SettingsInv
<1> SUFFICES ASSUME SettingsInit PROVE SettingsInv
  OBVIOUS
<1>1. Inv
  BY InvInit DEF SettingsInit
<1>2. Idle \in RequestRecord /\ Holding(Idle)
  BY IdleSound
<1>3. request = [r \in Requests |-> Idle] /\ config = NoConfig /\ pending = None
      /\ booting = TRUE
  BY DEF SettingsInit
<1> QED BY <1>1, <1>2, <1>3 DEF SettingsInv, NoConfig

LEMMA RequestBecomes ==
  ASSUME RequestsSound, NEW r \in Requests, NEW q \in RequestRecord, Holding(q),
         request' = [request EXCEPT ![r] = q]
  PROVE  RequestsSound'
BY DEF RequestsSound

LEMMA AnswerSound ==
  ASSUME RequestsSound, NEW r \in Requests, Answer(r) PROVE RequestsSound'
BY IdleSound, RequestBecomes DEF Answer

LEMMA GotoSound ==
  ASSUME RequestsSound, NEW r \in Requests, NEW at \in Step, Goto(r, at),
         Holding([request[r] EXCEPT !.at = at])
  PROVE  RequestsSound'
<1>1. [request[r] EXCEPT !.at = at] \in RequestRecord
  BY DEF RequestsSound, RequestRecord
<1>2. request' = [request EXCEPT ![r] = [request[r] EXCEPT !.at = at]]
  BY DEF Goto, RequestsSound
<1> QED BY <1>1, <1>2, RequestBecomes

LEMMA EnterSound ==
  ASSUME RequestsSound, NEW r \in Requests, NEW at \in Step, NEW purpose \in Purpose,
         NEW bot \in Bots \cup {None}, Enter(r, at, purpose, bot),
         at \in {"starting", "checking"} => bot \in Bots, purpose = "bind" => bot \in Bots
  PROVE  RequestsSound'
<1> DEFINE first == \A o \in Requests \ {r} : Where(o, "idle")
           a == [Idle EXCEPT !.at = at]
           b == [a EXCEPT !.for = purpose]
           c == [b EXCEPT !.bot = bot]
           new == [c EXCEPT !.alone = first]
<1>1. request' = [q \in Requests |-> IF q = r THEN new
                                     ELSE [request[q] EXCEPT !.alone = FALSE]]
  BY DEF Enter
<1>2. Idle \in RequestRecord
  BY IdleSound
<1>3. first \in BOOLEAN
  OBVIOUS
<1> HIDE DEF first
<1>4. a \in RequestRecord
  BY <1>2 DEF RequestRecord
<1>5. b \in RequestRecord /\ b.at = at /\ b.for = purpose
  <2>1. a.at = at
    BY <1>2 DEF RequestRecord
  <2> HIDE DEF a
  <2> QED BY <1>4, <2>1 DEF RequestRecord
<1>6. c \in RequestRecord /\ c.at = at /\ c.for = purpose /\ c.bot = bot
  <2> HIDE DEF b
  <2> QED BY <1>5 DEF RequestRecord
<1>7. new \in RequestRecord /\ new.at = at /\ new.for = purpose /\ new.bot = bot
  <2> HIDE DEF c
  <2> QED BY <1>3, <1>6 DEF RequestRecord
<1> HIDE DEF new
<1>8. Holding(new)
  BY <1>7 DEF Holding
<1>9. ASSUME NEW q \in Requests
      PROVE  /\ [request[q] EXCEPT !.alone = FALSE] \in RequestRecord
             /\ Holding([request[q] EXCEPT !.alone = FALSE])
  <2> DEFINE o == request[q]
             n == [o EXCEPT !.alone = FALSE]
  <2>1. o \in RequestRecord /\ Holding(o)
    BY DEF RequestsSound
  <2> HIDE DEF o
  <2>2. n \in RequestRecord /\ n.at = o.at /\ n.for = o.for /\ n.bot = o.bot
    BY <2>1 DEF RequestRecord
  <2> HIDE DEF n
  <2>3. Holding(n)
    BY <2>1, <2>2 DEF Holding
  <2> QED BY <2>2, <2>3 DEF n, o
<1> QED BY <1>1, <1>7, <1>8, <1>9 DEF RequestsSound

(* A handler that has waited for a bot to stop goes on or answers. *)
LEMMA AfterStopSound ==
  ASSUME RequestsSound, NEW r \in Requests, Where(r, "stopping") \/ Where(r, "waiting"),
         AfterStop(r)
  PROVE  RequestsSound'
<1>1. CASE request[r].for \in {"bind", "delete"}
  <2> DEFINE q == request[r]
             mid == [q EXCEPT !.at = "storing"]
             new == [mid EXCEPT !.on = 0]
  <2>1. request' = [request EXCEPT ![r].at = "storing", ![r].on = 0]
    BY <1>1 DEF AfterStop
  <2>2. request' = [request EXCEPT ![r] = new]
    BY <2>1 DEF RequestsSound
  <2>3. new \in RequestRecord /\ new.at = "storing" /\ new.for = q.for /\ new.bot = q.bot
    <3>1. mid \in RequestRecord /\ mid.at = "storing" /\ mid.for = q.for /\ mid.bot = q.bot
      BY DEF RequestsSound, RequestRecord, Step
    <3> HIDE DEF mid
    <3> QED BY <3>1, UpdatesAssumption DEF RequestRecord
  <2>4. q.for = "bind" => q.bot \in Bots
    BY DEF RequestsSound, Holding, Where
  <2> HIDE DEF new
  <2>5. Holding(new)
    BY <2>3, <2>4 DEF Holding
  <2> QED BY <2>2, <2>3, <2>5, RequestBecomes
<1>2. CASE request[r].for \notin {"bind", "delete"}
  BY <1>2, AnswerSound DEF AfterStop
<1> QED BY <1>1, <1>2

(* Each step of a handler is a step of the bots or leaves them alone.      *)
LEMMA ServeStep ==
  ASSUME SettingsInv, NEW r \in Requests, Serve(r)
  PROVE  [Next]_vars /\ RequestsSound'
<1> USE UpdatesAssumption
<1> DEFINE q == request[r]
<1>1. RequestsSound /\ q \in RequestRecord /\ Holding(q)
  BY DEF SettingsInv, RequestsSound
<1>2. CASE CallStop(r)
  <2>1. [Next]_vars
    BY <1>2 DEF CallStop, Next
  <2>2. CASE runtime = 0
    BY <1>1, <1>2, <2>2, AfterStopSound DEF CallStop
  <2>3. CASE runtime # 0
    <3> DEFINE mid == [q EXCEPT !.at = "waiting"]
               new == [mid EXCEPT !.on = runtime]
    <3>1. request' = [request EXCEPT ![r].at = "waiting", ![r].on = runtime]
      BY <1>2, <2>3 DEF CallStop
    <3>2. request' = [request EXCEPT ![r] = new]
      BY <3>1, <1>1 DEF RequestsSound
    <3>3. mid \in RequestRecord /\ mid.at = "waiting" /\ mid.for = q.for /\ mid.bot = q.bot
      BY <1>1 DEF RequestRecord, Step
    <3>4. runtime \in 0 .. MaxStarts
      BY DEF SettingsInv, Inv, TypeOK
    <3> HIDE DEF mid
    <3>5. new \in RequestRecord /\ new.at = "waiting" /\ new.for = q.for /\ new.bot = q.bot
      BY <3>3, <3>4 DEF RequestRecord
    <3> HIDE DEF new
    <3>6. Holding(new)
      BY <1>1, <1>2, <3>5 DEF Holding, CallStop, Where
    <3> QED BY <1>1, <2>1, <3>2, <3>5, <3>6, RequestBecomes
  <2> QED BY <2>1, <2>2, <2>3
<1>3. CASE StopReturns(r)
  <2>1. [Next]_vars
    BY <1>3 DEF StopReturns, Next
  <2> QED BY <1>1, <1>3, <2>1, AfterStopSound DEF StopReturns
<1>4. CASE StopTimesOut(r) \/ DeleteConfig(r) \/ StoreFails(r) \/ SwitchOn(r)
           \/ SwitchOffFails(r)
  BY <1>1, <1>4, AnswerSound
     DEF StopTimesOut, DeleteConfig, StoreFails, SwitchOn, SwitchOffFails
<1>5. CASE SaveConfig(r)
  <2>1. UNCHANGED vars /\ Goto(r, "starting") /\ q.at = "storing" /\ q.for = "bind"
    BY <1>5 DEF SaveConfig, Where, For
  <2>2. Holding([q EXCEPT !.at = "starting"])
    BY <1>1, <2>1 DEF Holding, RequestRecord
  <2> QED BY <1>1, <2>1, <2>2, GotoSound DEF Step
<1>6. CASE CheckRunning(r)
  <2>1. UNCHANGED vars /\ q.at = "checking"
    BY <1>6 DEF CheckRunning, Where
  <2>2. CASE runtime # 0 /\ Live(runtime)
    <3> DEFINE a == [q EXCEPT !.at = "switching on"]
               b == [a EXCEPT !.for = "keep"]
               new == [b EXCEPT !.bot = None]
    <3>1. request' = [request EXCEPT ![r].at = "switching on", ![r].for = "keep",
                                     ![r].bot = None]
      BY <1>6, <2>2 DEF CheckRunning
    <3>2. request' = [request EXCEPT ![r] = new]
      BY <3>1, <1>1 DEF RequestsSound
    <3>3. a \in RequestRecord /\ a.at = "switching on"
      BY <1>1 DEF RequestRecord, Step
    <3> HIDE DEF a
    <3>4. b \in RequestRecord /\ b.at = "switching on"
      BY <3>3 DEF RequestRecord, Purpose
    <3> HIDE DEF b
    <3>5. new \in RequestRecord /\ new.at = "switching on"
      BY <3>4 DEF RequestRecord
    <3> HIDE DEF new
    <3>6. Holding(new)
      BY <3>5 DEF Holding
    <3> QED BY <1>1, <2>1, <3>2, <3>5, <3>6, RequestBecomes
  <2>3. CASE ~(runtime # 0 /\ Live(runtime))
    <3>1. Goto(r, "starting")
      BY <1>6, <2>3 DEF CheckRunning, Goto
    <3>2. Holding([q EXCEPT !.at = "starting"])
      BY <1>1, <2>1 DEF Holding, RequestRecord
    <3> QED BY <1>1, <2>1, <3>1, <3>2, GotoSound DEF Step
  <2> QED BY <2>2, <2>3
<1>7. CASE StartRuns(r) \/ StartRefused(r)
  <2>1. [Next]_vars
    <3>1. CASE StartRuns(r)
      <4>1. Start(q.bot) /\ q.bot \in Bots
        BY <3>1, <1>1 DEF StartRuns, Where, Holding
      <4> QED BY <4>1 DEF Next
    <3>2. CASE StartRefused(r)
      BY <3>2 DEF StartRefused
    <3> QED BY <1>7, <3>1, <3>2
  <2>2. CASE Answer(r)
    BY <1>1, <2>1, <2>2, AnswerSound
  <2>3. CASE ~Answer(r)
    <3>1. PICK at \in {"switching on", "switching off"} :
            request' = [request EXCEPT ![r].at = at, ![r].bot = None]
      BY <1>7, <2>3 DEF StartRuns, StartRefused
    <3> DEFINE mid == [q EXCEPT !.at = at]
               new == [mid EXCEPT !.bot = None]
    <3>2. request' = [request EXCEPT ![r] = new]
      BY <3>1, <1>1 DEF RequestsSound
    <3>3. mid \in RequestRecord /\ mid.at = at
      BY <1>1 DEF RequestRecord, Step
    <3> HIDE DEF mid
    <3>4. new \in RequestRecord /\ new.at = at
      BY <3>3 DEF RequestRecord
    <3> HIDE DEF new
    <3>5. Holding(new)
      BY <3>4 DEF Holding
    <3> QED BY <1>1, <2>1, <3>2, <3>4, <3>5, RequestBecomes
  <2> QED BY <2>2, <2>3
<1>8. CASE SwitchOnFails(r)
  <2>1. UNCHANGED vars
    BY <1>8 DEF SwitchOnFails
  <2>2. CASE For(r, "keep")
    BY <1>1, <1>8, <2>1, <2>2, AnswerSound DEF SwitchOnFails
  <2>3. CASE ~For(r, "keep")
    <3> DEFINE mid == [q EXCEPT !.at = "stopping"]
               new == [mid EXCEPT !.for = "undo"]
    <3>1. request' = [request EXCEPT ![r].at = "stopping", ![r].for = "undo"]
      BY <1>8, <2>3 DEF SwitchOnFails
    <3>2. request' = [request EXCEPT ![r] = new]
      BY <3>1, <1>1 DEF RequestsSound
    <3>3. mid \in RequestRecord /\ mid.at = "stopping"
      BY <1>1 DEF RequestRecord, Step
    <3> HIDE DEF mid
    <3>4. new \in RequestRecord /\ new.at = "stopping" /\ new.for = "undo"
      BY <3>3 DEF RequestRecord, Purpose
    <3> HIDE DEF new
    <3>5. Holding(new)
      BY <3>4 DEF Holding
    <3> QED BY <1>1, <2>1, <3>2, <3>4, <3>5, RequestBecomes
  <2> QED BY <2>2, <2>3
<1>9. CASE SwitchOff(r)
  <2>1. UNCHANGED vars /\ ((Goto(r, "stopping") /\ For(r, "disable")) \/ Answer(r))
    BY <1>9 DEF SwitchOff
  <2>2. CASE Answer(r)
    BY <1>1, <2>1, <2>2, AnswerSound
  <2>3. CASE Goto(r, "stopping") /\ For(r, "disable")
    <3>1. Holding([q EXCEPT !.at = "stopping"])
      BY <1>1, <2>3 DEF Holding, RequestRecord, For
    <3> QED BY <1>1, <2>1, <2>3, <3>1, GotoSound DEF Step
  <2> QED BY <2>1, <2>2, <2>3
<1> QED BY <1>2, <1>3, <1>4, <1>5, <1>6, <1>7, <1>8, <1>9 DEF Serve

LEMMA ArriveStep ==
  ASSUME SettingsInv, NEW r \in Requests, Arrive(r)
  PROVE  UNCHANGED vars /\ RequestsSound'
<1>1. RequestsSound
  BY DEF SettingsInv, RequestsSound
<1>2. CASE Confirm(r)
  <2>1. pending.bot \in Bots /\ Enter(r, "stopping", "bind", pending.bot) /\ UNCHANGED vars
    BY <1>2 DEF Confirm, SettingsInv
  <2>2. "stopping" \in Step /\ "bind" \in Purpose
    BY DEF Step, Purpose
  <2> QED BY <1>1, <2>1, <2>2, EnterSound
<1>3. CASE ReadSettings(r)
  <2>1. config.bot \in Bots /\ UNCHANGED vars
        /\ \/ Enter(r, "checking", "enable", config.bot)
           \/ Enter(r, "switching off", "disable", None)
    BY <1>3 DEF ReadSettings, SettingsInv
  <2>2. {"checking", "switching off"} \subseteq Step /\ {"enable", "disable"} \subseteq Purpose
    BY DEF Step, Purpose
  <2> QED BY <1>1, <2>1, <2>2, EnterSound
<1>4. CASE Delete(r)
  <2>1. Enter(r, "stopping", "delete", None) /\ UNCHANGED vars
    BY <1>4 DEF Delete
  <2>2. "stopping" \in Step /\ "delete" \in Purpose
    BY DEF Step, Purpose
  <2> QED BY <1>1, <2>1, <2>2, EnterSound
<1> QED BY <1>2, <1>3, <1>4 DEF Arrive

(* The row, the challenge and the flag stay what they are. *)
LEMMA RowSound ==
  ASSUME SettingsInv, [SettingsNext]_all
  PROVE  /\ config' \in [bot : Bots \cup {None}, enabled : BOOLEAN]
         /\ config'.enabled => config'.bot # None
         /\ pending' \in [bot : Bots, tries : 1 .. MaxTries] \cup {None}
         /\ booting' \in BOOLEAN
<1> USE SettingsAssumption
<1>0. /\ config \in [bot : Bots \cup {None}, enabled : BOOLEAN]
      /\ config.enabled => config.bot # None
      /\ pending \in [bot : Bots, tries : 1 .. MaxTries] \cup {None}
      /\ booting \in BOOLEAN
  BY DEF SettingsInv
<1>1. ASSUME pending # None, pending' \in {None, OneTryLess}
      PROVE  pending' \in [bot : Bots, tries : 1 .. MaxTries] \cup {None}
  <2>1. pending \in [bot : Bots, tries : 1 .. MaxTries]
    BY <1>0, <1>1
  <2>2. CASE pending.tries = 1
    BY <1>1, <2>2 DEF OneTryLess
  <2>3. CASE pending.tries # 1
    BY <1>1, <2>1, <2>3 DEF OneTryLess
  <2> QED BY <2>2, <2>3
<1>2. CASE Begin
  <2>1. PICK bot \in Bots : pending' = [bot |-> bot, tries |-> MaxTries]
    BY <1>2 DEF Begin
  <2> QED BY <1>0, <1>2, <2>1 DEF Begin
<1>3. CASE RefuseCode
  BY <1>0, <1>1, <1>3 DEF RefuseCode
<1>4. CASE EndProcess \/ Boot \/ BootWithoutBot \/ Polling \/ UNCHANGED all
  BY <1>0, <1>4 DEF EndProcess, Boot, BootWithoutBot, Polling, settings, all
<1>5. ASSUME NEW r \in Requests, Arrive(r)
      PROVE  /\ UNCHANGED <<config, booting>>
             /\ pending' \in [bot : Bots, tries : 1 .. MaxTries] \cup {None}
  BY <1>0, <1>1, <1>5 DEF Arrive, Confirm, ReadSettings, Delete
<1>6. ASSUME NEW r \in Requests, Serve(r)
      PROVE  /\ config' \in [bot : Bots \cup {None}, enabled : BOOLEAN]
             /\ config'.enabled => config'.bot # None
             /\ UNCHANGED <<pending, booting>>
  <2>1. UNCHANGED <<pending, booting>>
    BY <1>6 DEF Serve, CallStop, StopReturns, StopTimesOut, SaveConfig, DeleteConfig,
                StoreFails, CheckRunning, StartRuns, StartRefused, SwitchOn,
                SwitchOnFails, SwitchOff, SwitchOffFails
  <2>2. CASE SaveConfig(r)
    <3>1. request[r].bot \in Bots
      BY <2>2 DEF SaveConfig, Where, For, SettingsInv, Holding
    <3> QED BY <2>1, <2>2, <3>1 DEF SaveConfig, Bind
  <2>3. CASE SwitchOn(r)
    BY <1>0, <2>1, <2>3 DEF SwitchOn, SetEnabled
  <2>4. CASE SwitchOff(r)
    BY <1>0, <2>1, <2>4 DEF SwitchOff, SetEnabled
  <2>5. CASE DeleteConfig(r)
    BY <2>1, <2>5 DEF DeleteConfig, NoConfig
  <2>6. CASE UNCHANGED config
    BY <1>0, <2>1, <2>6
  <2> QED BY <1>6, <2>2, <2>3, <2>4, <2>5, <2>6
          DEF Serve, CallStop, StopReturns, StopTimesOut, StoreFails, CheckRunning,
              StartRuns, StartRefused, SwitchOnFails, SwitchOffFails
<1> QED BY <1>0, <1>2, <1>3, <1>4, <1>5, <1>6 DEF SettingsNext

LEMMA SettingsStep ==
  SettingsInv /\ [SettingsNext]_all => SettingsInv' /\ [Next]_vars
<1> SUFFICES ASSUME SettingsInv, [SettingsNext]_all
             PROVE  [Next]_vars /\ RequestsSound'
  BY RowSound, InvStep DEF SettingsInv, RequestsSound
<1>1. RequestsSound
  BY DEF SettingsInv, RequestsSound
<1>2. CASE Begin \/ RefuseCode \/ BootWithoutBot \/ UNCHANGED all
  BY <1>1, <1>2 DEF Begin, RefuseCode, BootWithoutBot, all, settings, RequestsSound
<1>3. CASE EndProcess
  <2>1. [Next]_vars /\ request' = [r \in Requests |-> Idle]
    BY <1>3 DEF EndProcess, Next
  <2> QED BY <2>1, IdleSound DEF RequestsSound
<1>4. CASE Boot
  <2>1. config.enabled => config.bot \in Bots
    BY DEF SettingsInv
  <2>2. [Next]_vars
    BY <1>4, <2>1, SettingsAssumption DEF Boot, Next
  <2> QED BY <1>1, <1>4, <2>2 DEF Boot, RequestsSound
<1>5. CASE Polling
  BY <1>1, <1>5 DEF Polling, Next, settings, RequestsSound
<1>6. ASSUME NEW r \in Requests, Arrive(r) \/ Serve(r) PROVE [Next]_vars /\ RequestsSound'
  BY <1>6, ArriveStep, ServeStep
<1> QED BY <1>2, <1>3, <1>4, <1>5, <1>6 DEF SettingsNext

(* The variables of the settings page keep their types: a row that is      *)
(* enabled names a bot, and so does a handler about to start one           *)
(* (serverapp/telegram_settings.go).                                       *)
THEOREM SettingsTypeCorrect == SettingsSpec => []SettingsTypeOK
<1>1. SettingsInv => SettingsTypeOK
  BY DEF SettingsInv, SettingsTypeOK, Inv, RequestRecord, Holding
<1> QED BY <1>1, SettingsInitInv, SettingsStep, PTL DEF SettingsSpec

(* The settings page and the start of the server drive the bots only in    *)
(* ways BotUpdates allows: each of their steps is one of its steps or none.*)
THEOREM SettingsDriveUpdates == SettingsSpec => Spec
<1>1. SettingsInit => Init
  BY DEF SettingsInit
<1> QED BY <1>1, SettingsInitInv, SettingsStep, PTL DEF SettingsSpec, Spec

(* Whatever handlers overlap, time out or fail, one bot runs at a time, no *)
(* update is handled twice and each cut loses at most one.                 *)
THEOREM SettingsSafe == SettingsSpec => [](OnePoller /\ HandledOnce /\ OneLostPerCut)
BY SettingsDriveUpdates, OnePollerTheorem, HandledOnceTheorem, OneLostPerCutTheorem, PTL

----------------------------------------------------------------------------
(* A handler that no other one runs next to.                               *)

(* What such a handler has found or left where it is now: nobody else      *)
(* touches the row or the runtime, however long it waits.                  *)
Found(q) ==
  /\ q.at = "waiting" => q.on = runtime /\ runtime # 0 /\ runtime \in canceled
  /\ q.at = "storing" => runtime = 0
  /\ q.at = "checking" => q.for = "enable"
  /\ q.at = "starting" /\ q.for = "bind" => config = [bot |-> q.bot, enabled |-> TRUE]
  /\ q.at \in {"checking", "starting"} /\ q.for = "enable" => q.bot = config.bot
  /\ q.at = "switching on" /\ q.for = "enable" =>
       runtime # 0 /\ runtime \notin canceled /\ poller[runtime].bot = config.bot
  /\ q.at = "switching on" /\ q.for = "keep" => runtime # 0
  /\ q.at \in {"stopping", "waiting"} /\ q.for = "disable" => ~config.enabled
AloneInv ==
  /\ \A r \in Requests : request[r].alone =>
       /\ Found(request[r])
       /\ \A o \in Requests \ {r} : Where(o, "idle")
  /\ booting => \A r \in Requests : Where(r, "idle")
  /\ \A p \in canceled : p <= started

LEMMA AloneInit == SettingsInit => AloneInv
BY DEF SettingsInit, Init, AloneInv, Idle, Where

(* Only a handler that is not idle goes on, and it takes the others along  *)
(* as they are.                                                            *)
LEMMA ServeMovesOne ==
  ASSUME SettingsInv, NEW r \in Requests, Serve(r)
  PROVE  /\ ~Where(r, "idle") /\ UNCHANGED booting
         /\ \A o \in Requests \ {r} : request'[o] = request[o]
         /\ request'[r].alone => request[r].alone
<1>1. request \in [Requests -> RequestRecord]
  BY DEF SettingsInv
<1>2. ~Where(r, "idle") /\ UNCHANGED booting
  BY DEF Serve, CallStop, StopReturns, StopTimesOut, SaveConfig, DeleteConfig, StoreFails,
         CheckRunning, StartRuns, StartRefused, SwitchOn, SwitchOnFails, SwitchOff,
         SwitchOffFails, Where
<1>3. ASSUME Answer(r) \/ \E at \in Step : Goto(r, at)
      PROVE  /\ \A o \in Requests \ {r} : request'[o] = request[o]
             /\ request'[r].alone => request[r].alone
  BY <1>1, <1>3 DEF Answer, Goto, Idle, RequestRecord
<1>4. ASSUME AfterStop(r)
      PROVE  /\ \A o \in Requests \ {r} : request'[o] = request[o]
             /\ request'[r].alone => request[r].alone
  BY <1>1, <1>3, <1>4 DEF AfterStop, RequestRecord
<1>5. CASE CallStop(r)
  BY <1>1, <1>2, <1>4, <1>5 DEF CallStop, RequestRecord
<1>6. CASE StopReturns(r) \/ StopTimesOut(r)
  BY <1>2, <1>3, <1>4, <1>6 DEF StopReturns, StopTimesOut
<1>7. CASE SaveConfig(r) \/ DeleteConfig(r) \/ StoreFails(r)
  BY <1>2, <1>3, <1>7 DEF SaveConfig, DeleteConfig, StoreFails, Step
<1>8. CASE CheckRunning(r)
  BY <1>1, <1>2, <1>8 DEF CheckRunning, RequestRecord
<1>9. CASE StartRuns(r) \/ StartRefused(r)
  <2>1. CASE Answer(r)
    BY <1>2, <1>3, <2>1
  <2>2. ASSUME NEW at, request' = [request EXCEPT ![r].at = at, ![r].bot = None]
        PROVE  /\ \A o \in Requests \ {r} : request'[o] = request[o]
               /\ request'[r].alone => request[r].alone
    BY <1>1, <2>2 DEF RequestRecord
  <2> QED
    BY <1>2, <1>9, <2>1, <2>2 DEF StartRuns, StartRefused
<1>10. CASE SwitchOn(r) \/ SwitchOff(r) \/ SwitchOffFails(r)
  BY <1>2, <1>3, <1>10 DEF SwitchOn, SwitchOff, SwitchOffFails, Step
<1>11. CASE SwitchOnFails(r)
  BY <1>1, <1>2, <1>3, <1>11 DEF SwitchOnFails, RequestRecord
<1> QED
  BY <1>5, <1>6, <1>7, <1>8, <1>9, <1>10, <1>11 DEF Serve

(* Start makes a poller of the bot that nobody has cancelled yet.          *)
LEMMA StartFacts ==
  ASSUME SettingsInv, \A p \in canceled : p <= started, NEW bot \in Bots, Start(bot)
  PROVE  /\ runtime' = started' /\ started' = started + 1 /\ runtime' # 0
         /\ runtime' \notin canceled' /\ poller'[runtime'].bot = bot
         /\ canceled' = canceled
<1>1. started \in 0 .. MaxStarts /\ poller \in [Pollers -> PollerRecord]
      /\ MaxStarts \in Nat
  BY UpdatesAssumption DEF SettingsInv, Inv, TypeOK, PollerRecord
<1>2. started + 1 \in Pollers
  <2>1. started < MaxStarts
    BY DEF Start
  <2> QED
    BY <1>1, <2>1
<1> QED
  BY <1>1, <1>2 DEF Start, PollerRecord

(* A step of a handler that runs alone leaves what Found says.             *)
LEMMA ServeFound ==
  ASSUME SettingsInv, AloneInv, NEW r \in Requests, request[r].alone, Serve(r),
         request'[r].alone
  PROVE  Found(request[r])'
<1>1. /\ request \in [Requests -> RequestRecord] /\ Found(request[r])
      /\ \A p \in canceled : p <= started
      /\ config \in [bot : Bots \cup {None}, enabled : BOOLEAN]
  BY DEF SettingsInv, AloneInv
<1>2. ~Answer(r)
  BY <1>1 DEF Answer, Idle
<1>3. AfterStop(r) => /\ request'[r].at = "storing"
                      /\ request'[r].for = request[r].for /\ request'[r].for \in {"bind", "delete"}
  BY <1>1, <1>2 DEF AfterStop, RequestRecord
<1>4. CASE CallStop(r)
  <2>1. CASE runtime = 0
    <3>1. AfterStop(r) /\ runtime' = 0
      BY <1>4, <2>1 DEF CallStop, vars
    <3> QED
      BY <1>3, <3>1 DEF Found
  <2>2. CASE runtime # 0
    <3>1. /\ request'[r].at = "waiting" /\ request'[r].on = runtime
          /\ request'[r].for = request[r].for
      BY <1>1, <1>4, <2>2 DEF CallStop, RequestRecord
    <3>2. runtime' = runtime /\ runtime \in canceled' /\ config' = config
      BY <1>4, <2>2 DEF CallStop, Stop, vars
    <3> QED
      BY <1>1, <1>4, <2>2, <3>1, <3>2 DEF Found, CallStop, Where
  <2> QED
    BY <2>1, <2>2
<1>5. CASE StopReturns(r)
  <2>1. runtime' = 0
    BY <1>1, <1>5 DEF StopReturns, Stopped, Found, Where
  <2> QED
    BY <1>3, <1>5, <2>1 DEF StopReturns, Found
<1>6. CASE SaveConfig(r)
  <2>1. /\ request'[r].at = "starting" /\ request'[r].for = "bind"
        /\ request'[r].bot = request[r].bot
    BY <1>1, <1>6 DEF SaveConfig, Goto, For, RequestRecord
  <2> QED
    BY <1>6, <2>1 DEF SaveConfig, Bind, Found
<1>7. CASE CheckRunning(r)
  <2>1. \/ /\ request'[r].at = "switching on" /\ request'[r].for = "keep"
           /\ runtime' # 0
        \/ /\ request'[r].at = "starting" /\ request'[r].for = request[r].for
           /\ request'[r].bot = request[r].bot
    BY <1>1, <1>7 DEF CheckRunning, RequestRecord, vars
  <2>2. request[r].for = "enable" /\ request[r].bot = config'.bot
    BY <1>1, <1>7 DEF CheckRunning, Found, Where
  <2> QED
    BY <2>1, <2>2 DEF Found
<1>8. CASE StartRuns(r)
  <2>1. /\ request'[r].at = "switching on" /\ request'[r].for = request[r].for
        /\ Start(request[r].bot) /\ config' = config
    BY <1>1, <1>2, <1>8 DEF StartRuns, RequestRecord
  <2>2. request[r].bot \in Bots
    BY <1>8 DEF StartRuns, Where, SettingsInv, Holding
  <2>3. /\ runtime' # 0 /\ runtime' \notin canceled'
        /\ poller'[runtime'].bot = request[r].bot
    BY <1>1, <2>1, <2>2, StartFacts
  <2> QED
    BY <1>1, <1>8, <2>1, <2>3 DEF StartRuns, Where, Found
<1>9. CASE StartRefused(r)
  <2>1. request'[r].at = "switching off"
    BY <1>1, <1>2, <1>9 DEF StartRefused, RequestRecord
  <2> QED
    BY <2>1 DEF Found
<1>10. CASE SwitchOnFails(r)
  <2>1. request'[r].at = "stopping" /\ request'[r].for = "undo"
    BY <1>1, <1>2, <1>10 DEF SwitchOnFails, RequestRecord
  <2> QED
    BY <2>1 DEF Found
<1>11. CASE SwitchOff(r)
  <2>1. request'[r].at = "stopping" /\ ~config'.enabled
    BY <1>1, <1>2, <1>11 DEF SwitchOff, SetEnabled, Goto, RequestRecord
  <2> QED
    BY <2>1 DEF Found
<1> QED
  BY <1>2, <1>4, <1>5, <1>6, <1>7, <1>8, <1>9, <1>10, <1>11
  DEF Serve, StopTimesOut, DeleteConfig, StoreFails, SwitchOn, SwitchOffFails

LEMMA AloneServe ==
  ASSUME SettingsInv, AloneInv, NEW r \in Requests, Serve(r)
  PROVE  AloneInv'
<1>1. /\ ~Where(r, "idle") /\ UNCHANGED booting
      /\ \A o \in Requests \ {r} : request'[o] = request[o]
      /\ request'[r].alone => request[r].alone
  BY ServeMovesOne
<1>2. ~booting /\ ~booting'
  BY <1>1 DEF AloneInv
<1>3. \A o \in Requests \ {r} : ~request[o].alone
  BY <1>1 DEF AloneInv
<1>4. \A o \in Requests \ {r} : ~request'[o].alone
  BY <1>1, <1>3
<1>5. request'[r].alone => \A o \in Requests \ {r} : Where(o, "idle")'
  BY <1>1 DEF AloneInv, Where
<1>6. request'[r].alone => Found(request[r])'
  BY <1>1, ServeFound
<1>7. \A p \in canceled' : p <= started'
  <2>1. /\ \A p \in canceled : p <= started
        /\ runtime \in 0 .. started /\ started \in Nat
    BY DEF AloneInv, SettingsInv, Inv, TypeOK
  <2>2. ASSUME NEW bot, Start(bot) PROVE \A p \in canceled' : p <= started'
    <3>1. canceled' = canceled /\ started' = started + 1
      BY <2>2 DEF Start
    <3>2. canceled \subseteq Nat
      BY UpdatesAssumption DEF SettingsInv, Inv, TypeOK
    <3> QED
      BY <2>1, <3>1, <3>2
  <2>3. CASE Stop
    BY <2>1, <2>3 DEF Stop
  <2>4. CASE UNCHANGED <<canceled, started>>
    BY <2>1, <2>4
  <2> QED
    BY <2>2, <2>3, <2>4
    DEF Serve, CallStop, StopReturns, Stopped, StopTimesOut, SaveConfig, DeleteConfig, StoreFails,
        CheckRunning, StartRuns, StartRefused, SwitchOn, SwitchOnFails, SwitchOff,
        SwitchOffFails, vars
<1> QED
  BY <1>2, <1>4, <1>5, <1>6, <1>7 DEF AloneInv

LEMMA AloneArrive ==
  ASSUME SettingsInv, AloneInv, NEW r \in Requests, Arrive(r)
  PROVE  AloneInv'
<1>0. request \in [Requests -> RequestRecord]
  BY DEF SettingsInv
<1>1. UNCHANGED <<vars, config, booting>>
  BY DEF Arrive, Confirm, ReadSettings, Delete
<1>2. ASSUME NEW at, NEW purpose, NEW bot, Enter(r, at, purpose, bot),
             \/ at = "stopping" /\ purpose # "disable"
             \/ at = "checking" /\ purpose = "enable" /\ bot = config.bot
             \/ at = "switching off"
      PROVE  /\ ~booting /\ Found(request[r])'
             /\ request'[r].alone => \A o \in Requests \ {r} : Where(o, "idle")
             /\ \A o \in Requests \ {r} : ~request'[o].alone /\ request'[o].at = request[o].at
  <2>1. /\ request'[r].at = at /\ request'[r].for = purpose /\ request'[r].bot = bot
        /\ request'[r].alone => \A o \in Requests \ {r} : Where(o, "idle")
    BY <1>0, <1>2 DEF Enter, Idle, Where
  <2>2. \A o \in Requests \ {r} : ~request'[o].alone /\ request'[o].at = request[o].at
    BY <1>0, <1>2 DEF Enter, RequestRecord
  <2>3. Found(request[r])'
    BY <1>1, <1>2, <2>1 DEF Found
  <2> QED
    BY <1>2, <2>1, <2>2, <2>3 DEF Enter
<1>3. /\ ~booting /\ Found(request[r])'
      /\ request'[r].alone => \A o \in Requests \ {r} : Where(o, "idle")
      /\ \A o \in Requests \ {r} : ~request'[o].alone /\ request'[o].at = request[o].at
  BY <1>2 DEF Arrive, Confirm, ReadSettings, Delete
<1> QED
  BY <1>1, <1>3 DEF AloneInv, Where, vars

LEMMA AloneStep == SettingsInv /\ AloneInv /\ [SettingsNext]_all => AloneInv'
<1> SUFFICES ASSUME SettingsInv, AloneInv, [SettingsNext]_all PROVE AloneInv'
  OBVIOUS
<1>0. /\ canceled \subseteq Nat /\ started \in Nat
      /\ \A p \in canceled : p <= started
      /\ runtime = 0 \/ runtime \in Pollers
      /\ request \in [Requests -> RequestRecord]
      /\ poller \in [Pollers -> PollerRecord]
  BY UpdatesAssumption DEF SettingsInv, Inv, TypeOK, AloneInv, PollerRecord
<1>1. ASSUME UNCHANGED <<runtime, started, canceled, config, request, booting>>,
             \A p \in Pollers : poller'[p].bot = poller[p].bot
      PROVE  AloneInv'
  BY <1>0, <1>1 DEF AloneInv, Found, Where
<1>2. CASE Begin \/ RefuseCode \/ UNCHANGED all
  BY <1>1, <1>2 DEF Begin, RefuseCode, all, vars, settings
<1>3. CASE Polling
  <2>1. UNCHANGED <<runtime, started, canceled, config, request, booting>>
    BY <1>3 DEF Polling, settings, Send, Run, Load, LoadFails, Poll, PollCanceled, Save,
        SaveFails, Handle, EndBatch
  <2>2. CASE Send
    BY <1>1, <2>1, <2>2 DEF Send
  <2>3. ASSUME NEW p \in Pollers, Run(p)
        PROVE  \A o \in Pollers : poller'[o].bot = poller[o].bot
    <3>1. \A o \in Pollers \ {p} : poller'[o] = poller[o]
      BY <2>3, Moved DEF SettingsInv
    <3>2. poller'[p].bot = poller[p].bot
      <4>1. CASE Load(p) \/ LoadFails(p)
        BY <1>0, <4>1 DEF Load, LoadFails, PollerRecord
      <4>2. CASE Poll(p) \/ PollCanceled(p)
        BY <1>0, <4>2 DEF Poll, PollCanceled, PollerRecord
      <4>3. CASE Save(p) \/ SaveFails(p)
        BY <1>0, <4>3 DEF Save, SaveFails, PollerRecord
      <4>4. CASE Handle(p) \/ EndBatch(p)
        BY <1>0, <4>4 DEF Handle, EndBatch, PollerRecord
      <4> QED
        BY <2>3, <4>1, <4>2, <4>3, <4>4 DEF Run
    <3> QED
      BY <3>1, <3>2
  <2> QED
    BY <1>1, <1>3, <2>1, <2>2, <2>3 DEF Polling
<1>4. CASE EndProcess
  <2>1. \A r \in Requests : ~request'[r].alone /\ request'[r].at = "idle"
    BY <1>4 DEF EndProcess, Idle
  <2>2. UNCHANGED <<canceled, started>>
    BY <1>4 DEF EndProcess, Crash
  <2> QED
    BY <1>0, <2>1, <2>2 DEF AloneInv, Where
<1>5. CASE Boot \/ BootWithoutBot
  <2>1. /\ \A r \in Requests : Where(r, "idle")
        /\ UNCHANGED request /\ booting' = FALSE /\ canceled' = canceled
        /\ started' \in {started, started + 1}
    BY <1>5 DEF Boot, BootWithoutBot, Start, AloneInv, vars
  <2>2. \A p \in canceled' : p <= started'
    BY <1>0, <2>1
  <2>3. \A r \in Requests : Found(request[r])'
    BY <2>1 DEF Found, Where
  <2> QED
    BY <2>1, <2>2, <2>3 DEF AloneInv, Where
<1> QED
  BY <1>2, <1>3, <1>4, <1>5, AloneServe, AloneArrive DEF SettingsNext

(* The decisive step of a handler that ran alone.                          *)
LEMMA SettlesAgrees ==
  ASSUME SettingsInv, AloneInv, NEW r \in Requests, request[r].alone, Settles(r)
  PROVE  Agree' \/ LeftAsFound(r)
<1>1. /\ Found(request[r]) /\ \A p \in canceled : p <= started
      /\ config \in [bot : Bots \cup {None}, enabled : BOOLEAN]
      /\ request \in [Requests -> RequestRecord]
  BY DEF AloneInv, SettingsInv
<1>2. CASE For(r, "bind") /\ StartRuns(r)
  <2>1. /\ config' = [bot |-> request[r].bot, enabled |-> TRUE]
        /\ request[r].bot \in Bots /\ Start(request[r].bot)
    BY <1>1, <1>2 DEF StartRuns, Where, For, Found, SettingsInv, Holding
  <2> QED
    BY <1>1, <2>1, StartFacts DEF Agree
<1>3. CASE For(r, "enable") /\ SwitchOn(r)
  BY <1>1, <1>3 DEF SwitchOn, SetEnabled, Where, For, Found, Agree, vars
<1>6. CASE For(r, "keep") /\ SwitchOn(r)
  <2>1. /\ runtime # 0 /\ config'.enabled /\ config'.bot = config.bot
        /\ UNCHANGED vars
    BY <1>1, <1>6 DEF SwitchOn, SetEnabled, Where, For, Found
  <2> QED
    BY <1>6, <2>1 DEF Agree, LeftAsFound, vars
<1>4. CASE For(r, "disable") /\ (CallStop(r) \/ StopReturns(r)) /\ request'[r].at = "idle"
  <2>1. ~config.enabled /\ UNCHANGED config
    BY <1>1, <1>4 DEF CallStop, StopReturns, Where, For, Found
  <2>2. CASE CallStop(r)
    <3>1. runtime # 0 => request'[r].at = "waiting"
      BY <1>1, <2>2 DEF CallStop, RequestRecord
    <3>2. runtime' = 0
      BY <1>4, <2>2, <3>1 DEF CallStop, vars
    <3> QED
      BY <2>1, <3>2 DEF Agree
  <2>3. CASE StopReturns(r)
    <3>1. runtime' = 0
      BY <1>1, <2>3 DEF StopReturns, Stopped, Where, Found
    <3> QED
      BY <2>1, <3>1 DEF Agree
  <2> QED
    BY <1>4, <2>2, <2>3
<1>5. CASE DeleteConfig(r)
  <2>1. runtime' = 0 /\ ~config'.enabled
    BY <1>1, <1>5 DEF DeleteConfig, NoConfig, Where, Found, vars
  <2> QED
    BY <2>1 DEF Agree
<1> QED
  BY <1>2, <1>3, <1>4, <1>5, <1>6 DEF Settles

(* When a handler that no other one ran next to has bound, enabled,        *)
(* disabled or removed the bot, the row and the runtime agree again,       *)
(* whatever overlapped, timed out, failed or crashed before; only an       *)
(* enable that found a bot running leaves that one as it found it, even if *)
(* it was told to stop or is not the row's (telegram_settings.go:225-231). *)
THEOREM SoleRequestTheorem == SettingsSpec => SoleRequestSettles
<1>1. SettingsInv /\ AloneInv /\ [SettingsNext]_all =>
        [\A r \in Requests :
           (request[r].alone /\ Settles(r)) => (Agree' \/ LeftAsFound(r))]_all
  BY SettlesAgrees
<1> QED
  BY <1>1, SettingsInitInv, SettingsStep, AloneInit, AloneStep, PTL
  DEF SettingsSpec, SoleRequestSettles
=============================================================================
