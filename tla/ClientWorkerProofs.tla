------------------------- MODULE ClientWorkerProofs -------------------------
(***************************************************************************)
(* Proofs about the Client for any number of tasks and connections and any *)
(* capacity of the queue, in this order:                                   *)
(*   - OneMeasurement, from ConnectionsInOrder;                            *)
(*   - the types;                                                          *)
(*   - UntouchedByOthers, from CancelInv: what the Client is told to       *)
(*     cancel has ended, and a worker knows its task;                      *)
(*   - QueuedCancelHonoured, from UnitInv: a connection never carries two  *)
(*     units of one task.                                                  *)
(***************************************************************************)
EXTENDS ClientWorker, TLAPS

(* What separates one connection from the next: the worker of a connection *)
(* that was not dialled yet does not exist, and the context of every        *)
(* connection that connect has returned from is cancelled.                 *)
ConnectionsInOrder ==
  /\ conn \in 0 .. MaxConns
  /\ DOMAIN worker = Conns
  /\ ended \subseteq Conns
  /\ \A k \in Conns : k > conn => worker[k].at = "none"
  /\ \A k \in Conns : k < conn => k \in ended
  /\ reader = "dialing" /\ conn > 0 => conn \in ended
  /\ reader \in {"reading", "full", "leaving", "closing"} => conn > 0

LEMMA OrderInit == Init => ConnectionsInOrder
BY ClientAssumption DEF Init, ConnectionsInOrder, Conns, Idle

LEMMA OrderStep == ConnectionsInOrder /\ [Next]_vars => ConnectionsInOrder'
<1> SUFFICES ASSUME ConnectionsInOrder, [Next]_vars PROVE ConnectionsInOrder'
  OBVIOUS
<1> USE ClientAssumption DEF ConnectionsInOrder, Conns
<1>1. CASE Dial
  BY <1>1 DEF Dial, Idle
<1>2. CASE ReadAssign \/ PutHeld \/ GiveUpHeld \/ ReadCancel \/ ReadFails
  BY <1>2 DEF ReadAssign, PutHeld, GiveUpHeld, ReadCancel, ReadFails, CanRead,
              LooksAtErrors, AfterFrame, Cut, shared, server
<1>3. CASE CloseSocket \/ StopDialing
  BY <1>3 DEF CloseSocket, StopDialing, shared, server
<1>4. CASE Leave
  <2>1. conn \in Conns /\ ended' = ended \cup {conn}
    BY <1>4 DEF Leave, EndContext
  <2>2. reader' \in {"dialing", "stopped"} /\ UNCHANGED <<conn, worker>>
    BY <1>4 DEF Leave
  <2> QED BY <2>1, <2>2
<1>5. CASE Stop \/ Break \/ Server
  BY <1>5 DEF Stop, Break, Server, Assign, EndTask, Notify, Unregister, conns,
              shared, server
<1>6. ASSUME NEW k \in Conns, Work(k) \/ TimeOut(k) PROVE ConnectionsInOrder'
  <2>1. worker[k].at # "none" /\ UNCHANGED <<conn, reader, ended>>
    BY <1>6 DEF Work, Take, Skip, NotCanceled, setCurrent, SendAck, Execute,
                Report, Clear, SendFails, WorkerExit, TimeOut, conns
  <2>2. \A j \in Conns : j # k => worker'[j] = worker[j]
    BY <1>6 DEF Work, Take, Skip, NotCanceled, setCurrent, SendAck, Execute,
                Report, Clear, SendFails, WorkerExit, TimeOut, At
  <2>3. DOMAIN worker' = Conns
    BY <1>6 DEF Work, Take, Skip, NotCanceled, setCurrent, SendAck, Execute,
                Report, Clear, SendFails, WorkerExit, TimeOut, At
  <2> QED BY <2>1, <2>2, <2>3
<1>7. ASSUME NEW k \in Conns, Heartbeat(k) PROVE ConnectionsInOrder'
  BY <1>7 DEF Heartbeat, PingFails, BeatExit, conns, shared, server
<1>8. CASE UNCHANGED vars
  BY <1>8 DEF vars
<1> QED BY <1>1, <1>2, <1>3, <1>4, <1>5, <1>6, <1>7, <1>8 DEF Next, Reader

(* At most one measurement runs that nobody has told to stop, and it is on *)
(* the connection in use (client.go:111-118).                              *)
THEOREM OneMeasurementTheorem == Spec => []OneMeasurement
<1>1. ConnectionsInOrder => OneMeasurement
  BY DEF ConnectionsInOrder, OneMeasurement, Measuring, Conns
<1> QED BY <1>1, OrderInit, OrderStep, PTL DEF Spec

----------------------------------------------------------------------------
(* Sequences, as the queue and the frames use them. *)

Holds(s, e) == \E i \in DOMAIN s : s[i] = e
Once(s, e) == \A i, j \in DOMAIN s : s[i] = e /\ s[j] = e => i = j

(* What is put at the end. *)
LEMMA AppendHolds ==
  ASSUME NEW S, NEW s \in Seq(S), NEW e \in S
  PROVE  /\ Append(s, e) \in Seq(S) /\ Len(Append(s, e)) = Len(s) + 1
         /\ \A x : Holds(Append(s, e), x) <=> Holds(s, x) \/ x = e
         /\ \A x : Once(s, x) /\ (x = e => ~Holds(s, x)) => Once(Append(s, e), x)
<1>1. /\ Append(s, e) \in Seq(S) /\ Len(Append(s, e)) = Len(s) + 1
      /\ DOMAIN Append(s, e) = 1 .. Len(s) + 1 /\ DOMAIN s = 1 .. Len(s)
      /\ Len(s) \in Nat
  OBVIOUS
<1>2. \A i \in 1 .. Len(s) : Append(s, e)[i] = s[i]
  OBVIOUS
<1>3. Append(s, e)[Len(s) + 1] = e
  OBVIOUS
<1>4. \A i \in 1 .. Len(s) + 1 : i \in 1 .. Len(s) \/ i = Len(s) + 1
  BY <1>1
<1>5. 1 .. Len(s) \subseteq 1 .. Len(s) + 1 /\ Len(s) + 1 \in 1 .. Len(s) + 1
  BY <1>1
<1>6. \A x : Holds(Append(s, e), x) <=> Holds(s, x) \/ x = e
  BY <1>1, <1>2, <1>3, <1>4, <1>5 DEF Holds
<1>7. \A x : Once(s, x) /\ (x = e => ~Holds(s, x)) => Once(Append(s, e), x)
  BY <1>1, <1>2, <1>3, <1>4 DEF Holds, Once
<1> QED
  BY <1>1, <1>6, <1>7

(* What is left when the first is taken. *)
LEMMA TailHolds ==
  ASSUME NEW S, NEW s \in Seq(S), s # <<>>
  PROVE  /\ Head(s) \in S /\ Tail(s) \in Seq(S) /\ Len(Tail(s)) = Len(s) - 1
         /\ Len(s) > 0 /\ Holds(s, Head(s))
         /\ \A x : Holds(Tail(s), x) => Holds(s, x)
         /\ \A x : Once(s, x) => Once(Tail(s), x)
         /\ Once(s, Head(s)) => ~Holds(Tail(s), Head(s))
<1>1. /\ Head(s) \in S /\ Tail(s) \in Seq(S) /\ Len(Tail(s)) = Len(s) - 1
      /\ Len(s) \in Nat /\ Len(s) > 0
  OBVIOUS
<1>2. DOMAIN s = 1 .. Len(s) /\ DOMAIN Tail(s) = 1 .. Len(s) - 1
  BY <1>1
<1>3. \A i \in DOMAIN Tail(s) : Tail(s)[i] = s[i + 1]
  BY <1>1, <1>2
<1>4. Head(s) = s[1] /\ 1 \in DOMAIN s
  BY <1>1, <1>2
<1>5. \A i \in DOMAIN Tail(s) : i + 1 \in DOMAIN s /\ i + 1 # 1
  BY <1>1, <1>2
<1>6. \A i, j \in DOMAIN Tail(s) : i + 1 = j + 1 => i = j
  BY <1>2, <1>1
<1>7. Holds(s, Head(s))
  BY <1>4 DEF Holds
<1>8. \A x : Holds(Tail(s), x) => Holds(s, x)
  BY <1>3, <1>5 DEF Holds
<1>9. \A x : Once(s, x) => Once(Tail(s), x)
  BY <1>3, <1>5, <1>6 DEF Once
<1>10. Once(s, Head(s)) => ~Holds(Tail(s), Head(s))
  BY <1>3, <1>4, <1>5 DEF Once, Holds
<1> QED
  BY <1>1, <1>7, <1>8, <1>9, <1>10

LEMMA EmptyHolds == \A x : ~Holds(<<>>, x) /\ Once(<<>>, x)
  BY DEF Holds, Once

----------------------------------------------------------------------------
(* Types. *)

WorkerRecord == [at : Place, task : Tasks \cup {None}, cut : {"no", "cancel", "timeout"}]

(* A step of one worker. *)
LEMMA WorkerType ==
  ASSUME TypeOK, NEW k \in Conns, NEW w \in WorkerRecord
  PROVE  [worker EXCEPT ![k] = w] \in [Conns -> WorkerRecord]
  BY DEF TypeOK, WorkerRecord

LEMMA AtType ==
  ASSUME TypeOK, NEW k \in Conns, NEW at \in Place
  PROVE  [worker EXCEPT ![k].at = at] \in [Conns -> WorkerRecord]
  BY DEF TypeOK, WorkerRecord

LEMMA CutType ==
  ASSUME TypeOK, NEW k \in Conns
  PROVE  Cut(k) \in [Conns -> WorkerRecord]
  BY DEF TypeOK, WorkerRecord, Cut

LEMMA IdleType == \A at \in Place : Idle(at) \in WorkerRecord
  BY DEF Idle, WorkerRecord

(* The reader serves a connection unless it dials or has stopped. *)
LEMMA Serving ==
  ASSUME ConnectionsInOrder, reader \in {"reading", "full", "leaving", "closing"}
  PROVE  conn \in Conns
  BY ClientAssumption DEF ConnectionsInOrder, Conns

LEMMA FrameRead ==
  ASSUME TypeOK, ConnectionsInOrder, NEW type, CanRead(type),
         frames' = [frames EXCEPT ![conn] = Tail(@)]
  PROVE  /\ conn \in Conns /\ frames' \in [Conns -> Seq(Frame)]
         /\ Head(frames[conn]) \in Frame /\ Head(frames[conn]).task \in Tasks
<1>1. conn \in Conns
  BY Serving DEF CanRead
<1>2. frames[conn] \in Seq(Frame) /\ frames[conn] # <<>>
  BY <1>1 DEF TypeOK, CanRead
<1>3. Head(frames[conn]) \in Frame /\ Tail(frames[conn]) \in Seq(Frame)
  BY <1>2, TailHolds
<1> QED
  BY <1>1, <1>3 DEF TypeOK, Frame

LEMMA ErrorsLookedAt ==
  ASSUME TypeOK, conn \in Conns, LooksAtErrors
  PROVE  errs' \in [Conns -> 0 .. 2] /\ reader' \in {"leaving", "reading"}
<1>1. errs[conn] \in 0 .. 2
  BY DEF TypeOK
<1>2. (IF errs[conn] > 0 THEN errs[conn] - 1 ELSE 0) \in 0 .. 2
  BY <1>1
<1> QED
  BY <1>2 DEF TypeOK, LooksAtErrors, AfterFrame

LEMMA ErrorAdded ==
  ASSUME TypeOK, NEW k \in Conns, nonBlockingError(k)
  PROVE  errs' \in [Conns -> 0 .. 2]
<1>1. errs[k] \in 0 .. 2
  BY DEF TypeOK
<1>2. (IF errs[k] < 2 THEN errs[k] + 1 ELSE errs[k]) \in 0 .. 2
  BY <1>1
<1> QED
  BY <1>2 DEF TypeOK, nonBlockingError

LEMMA QueueGrows ==
  ASSUME TypeOK, NEW k \in Conns, Room(k), NEW t \in Tasks,
         queue' = [queue EXCEPT ![k] = Append(@, t)]
  PROVE  /\ queue' \in [Conns -> Seq(Tasks)]
         /\ \A j \in Conns : Len(queue'[j]) <= QueueCap
<1>1. queue[k] \in Seq(Tasks) /\ Len(queue[k]) < QueueCap
  BY DEF TypeOK, Room
<1>2. Append(queue[k], t) \in Seq(Tasks) /\ Len(Append(queue[k], t)) = Len(queue[k]) + 1
  BY <1>1, AppendHolds
<1>3. Len(Append(queue[k], t)) <= QueueCap
  <2>1. Len(queue[k]) \in Nat
    BY <1>1
  <2> QED
    BY <1>1, <1>2, <2>1, ClientAssumption
<1>4. queue' \in [Conns -> Seq(Tasks)]
  BY <1>2 DEF TypeOK
<1>5. \A j \in Conns : queue'[j] = IF j = k THEN Append(queue[k], t) ELSE queue[j]
  BY DEF TypeOK
<1> QED
  BY <1>3, <1>4, <1>5 DEF TypeOK

LEMMA DeliverType ==
  ASSUME TypeOK, NEW k \in Conns, NEW frame \in Frame, Deliver(k, frame)
  PROVE  frames' \in [Conns -> Seq(Frame)]
<1>1. Append(frames[k], frame) \in Seq(Frame)
  BY DEF TypeOK
<1> QED
  BY <1>1 DEF TypeOK, Deliver

LEMMA TypeInit == Init => TypeOK
<1> SUFFICES ASSUME Init PROVE TypeOK
  OBVIOUS
<1>1. QueueCap \in Nat /\ MaxConns \in Nat /\ MaxSent \in Nat
  BY ClientAssumption
<1>2. <<>> \in Seq(Tasks) /\ <<>> \in Seq(Frame) /\ Len(<<>>) = 0
  OBVIOUS
<1>3. worker \in [Conns -> WorkerRecord]
  BY IdleType DEF Init, Place
<1>4. /\ queue \in [Conns -> Seq(Tasks)]
      /\ \A k \in Conns : Len(queue[k]) <= QueueCap
  BY <1>1, <1>2 DEF Init
<1>5. frames \in [Conns -> Seq(Frame)]
  BY <1>2 DEF Init
<1>6. 0 \in 0 .. MaxConns /\ 0 \in 0 .. MaxSent /\ 0 \in 0 .. 2
  BY <1>1
<1>7. /\ canceled \in [Conns -> SUBSET Tasks] /\ current \in [Conns -> Tasks \cup {None}]
      /\ errs \in [Conns -> 0 .. 2]
  BY <1>6 DEF Init
<1>8. /\ conn \in 0 .. MaxConns /\ session \in 0 .. MaxConns /\ sent \in 0 .. MaxSent
      /\ held \in Tasks \cup {None} /\ (reader = "full" <=> held # None)
      /\ lease \in Tasks \cup {None}
  BY <1>6 DEF Init
<1>9. /\ beat \subseteq Conns /\ closed \subseteq Conns /\ ended \subseteq Conns
      /\ broken \subseteq Conns /\ stopping \in BOOLEAN /\ over \subseteq Tasks
      /\ notify \subseteq Tasks \X Conns /\ recalled \subseteq Conns \X Tasks
  BY DEF Init
<1>10. reader = "dialing"
  BY DEF Init
<1> QED
  BY <1>3, <1>4, <1>5, <1>7, <1>8, <1>9, <1>10 DEF TypeOK, WorkerRecord

LEMMA ReaderTypes ==
  ASSUME TypeOK, ConnectionsInOrder, Reader
  PROVE  TypeOK'
<1> USE DEF shared, server
<1>1. CASE Dial
  <2>1. conn + 1 \in Conns
    BY <1>1, ClientAssumption DEF Dial, ConnectionsInOrder, Conns
  <2>2. worker' \in [Conns -> WorkerRecord]
    BY <1>1, <2>1, WorkerType, IdleType DEF Dial, Place
  <2>3. conn + 1 \in 0 .. MaxConns
    BY <2>1, ClientAssumption DEF Conns
  <2>4. /\ conn' \in 0 .. MaxConns /\ session' \in 0 .. MaxConns
        /\ beat' \subseteq Conns /\ lease' \in Tasks \cup {None}
    BY <1>1, <2>1, <2>3 DEF Dial, TakenBack, TypeOK
  <2>5. reader' = "reading" /\ reader # "full"
    BY <1>1 DEF Dial
  <2> QED
    BY <1>1, <2>2, <2>4, <2>5 DEF Dial, TypeOK, WorkerRecord
<1>2. CASE ReadAssign
  <2> DEFINE t == Head(frames[conn]).task
  <2>1. conn \in Conns /\ frames' \in [Conns -> Seq(Frame)] /\ t \in Tasks
    BY <1>2, FrameRead DEF ReadAssign
  <2>2. CASE Room(conn) /\ queue' = [queue EXCEPT ![conn] = Append(@, t)]
             /\ LooksAtErrors /\ UNCHANGED held
    <3>1. /\ queue' \in [Conns -> Seq(Tasks)]
          /\ \A j \in Conns : Len(queue'[j]) <= QueueCap
      BY <2>1, <2>2, QueueGrows
    <3>2. errs' \in [Conns -> 0 .. 2] /\ reader' \in {"leaving", "reading"}
      BY <2>1, <2>2, ErrorsLookedAt
    <3>3. reader = "reading"
      BY <1>2 DEF ReadAssign, CanRead
    <3> QED
      BY <1>2, <2>1, <2>2, <3>1, <3>2, <3>3 DEF ReadAssign, TypeOK
  <2>3. CASE reader' = "full" /\ held' = t /\ UNCHANGED <<queue, errs>>
    BY <1>2, <2>1, <2>3, ClientAssumption DEF ReadAssign, TypeOK
  <2> QED
    BY <1>2, <2>2, <2>3 DEF ReadAssign
<1>3. CASE PutHeld
  <2>1. conn \in Conns /\ held \in Tasks
    BY <1>3, Serving DEF PutHeld, TypeOK
  <2>2. /\ queue' \in [Conns -> Seq(Tasks)]
        /\ \A j \in Conns : Len(queue'[j]) <= QueueCap
    BY <1>3, <2>1, QueueGrows DEF PutHeld
  <2>3. errs' \in [Conns -> 0 .. 2] /\ reader' \in {"leaving", "reading"}
    BY <1>3, <2>1, ErrorsLookedAt DEF PutHeld
  <2> QED
    BY <1>3, <2>1, <2>2, <2>3 DEF PutHeld, TypeOK
<1>4. CASE GiveUpHeld
  BY <1>4 DEF GiveUpHeld, TypeOK
<1>5. CASE ReadCancel
  <2> DEFINE t == Head(frames[conn]).task
  <2>1. conn \in Conns /\ frames' \in [Conns -> Seq(Frame)] /\ t \in Tasks
    BY <1>5, FrameRead DEF ReadCancel
  <2>2. errs' \in [Conns -> 0 .. 2] /\ reader' \in {"leaving", "reading"}
    BY <1>5, <2>1, ErrorsLookedAt DEF ReadCancel
  <2>3. worker' \in [Conns -> WorkerRecord]
    BY <1>5, <2>1, CutType DEF ReadCancel, TypeOK, WorkerRecord
  <2>4. canceled' \in [Conns -> SUBSET Tasks]
    BY <1>5, <2>1 DEF ReadCancel, Marked, TypeOK
  <2>5. recalled' \subseteq Conns \X Tasks
    BY <1>5, <2>1 DEF ReadCancel, TypeOK
  <2>6. reader = "reading"
    BY <1>5 DEF ReadCancel, CanRead
  <2> QED
    BY <1>5, <2>1, <2>2, <2>3, <2>4, <2>5, <2>6 DEF ReadCancel, TypeOK, WorkerRecord
<1>6. CASE ReadFails
  <2>1. worker' \in [Conns -> WorkerRecord]
    BY <1>6, CutType, Serving DEF ReadFails, TypeOK, WorkerRecord
  <2> QED
    BY <1>6, <2>1 DEF ReadFails, TypeOK, WorkerRecord
<1>7. CASE CloseSocket
  BY <1>7, Serving DEF CloseSocket, TypeOK
<1>8. CASE Leave
  BY <1>8, Serving DEF Leave, EndContext, TypeOK
<1>9. CASE StopDialing
  BY <1>9 DEF StopDialing, TypeOK
<1> QED
  BY <1>1, <1>2, <1>3, <1>4, <1>5, <1>6, <1>7, <1>8, <1>9 DEF Reader

LEMMA WorkTypes ==
  ASSUME TypeOK, NEW k \in Conns, Work(k)
  PROVE  TypeOK'
<1> USE DEF conns, shared, server, links
<1>0. worker[k] \in WorkerRecord /\ worker[k].task \in Tasks \cup {None}
  BY DEF TypeOK, WorkerRecord
<1>a. clearCurrent(k) \in [Conns -> Tasks \cup {None}]
  BY DEF clearCurrent, TypeOK
<1>1. CASE Take(k)
  <2>1. queue[k] \in Seq(Tasks) /\ queue[k] # <<>> /\ Len(queue[k]) <= QueueCap
    BY <1>1 DEF Take, TypeOK
  <2>2. /\ Head(queue[k]) \in Tasks /\ Tail(queue[k]) \in Seq(Tasks)
        /\ Len(Tail(queue[k])) = Len(queue[k]) - 1
    BY <2>1, TailHolds
  <2>3. Len(Tail(queue[k])) <= QueueCap
    <3>1. Len(queue[k]) \in Nat
      BY <2>1
    <3> QED
      BY <2>1, <2>2, <3>1, ClientAssumption
  <2>4. [at |-> "taken", task |-> Head(queue[k]), cut |-> "no"] \in WorkerRecord
    BY <2>2 DEF WorkerRecord, Place
  <2>5. worker' \in [Conns -> WorkerRecord]
    BY <1>1, <2>4, WorkerType DEF Take
  <2> QED
    BY <1>1, <2>2, <2>3, <2>5 DEF Take, TypeOK, WorkerRecord
<1>2. CASE Skip(k)
  <2>1. worker' \in [Conns -> WorkerRecord]
    BY <1>2, WorkerType, IdleType DEF Skip, Place
  <2> QED
    BY <1>2, <2>1 DEF Skip, TypeOK, WorkerRecord
<1>3. ASSUME NEW at \in Place, At(k, at),
             UNCHANGED <<conns, queue, canceled, beat, errs, links, frames, session,
                         over, notify, sent, recalled>>,
             current' \in [Conns -> Tasks \cup {None}], lease' \in {None, lease}
      PROVE  TypeOK'
  <2>1. worker' \in [Conns -> WorkerRecord]
    BY <1>3, AtType DEF At
  <2> QED
    BY <1>3, <2>1 DEF TypeOK, WorkerRecord
<1>4. CASE NotCanceled(k) \/ SendAck(k) \/ Execute(k)
  BY <1>4, <1>3 DEF NotCanceled, SendAck, Execute, Place, TypeOK
<1>5. CASE setCurrent(k)
  <2>1. current' \in [Conns -> Tasks \cup {None}]
    BY <1>0, <1>5 DEF setCurrent, TypeOK
  <2> QED
    BY <1>5, <1>3, <2>1 DEF setCurrent, Place
<1>6. CASE Report(k)
  BY <1>6, <1>3 DEF Report, Place, TypeOK
<1>7. CASE Clear(k)
  <2>1. worker' \in [Conns -> WorkerRecord]
    BY <1>7, WorkerType, IdleType DEF Clear, Place
  <2> QED
    BY <1>a, <1>7, <2>1 DEF Clear, TypeOK, WorkerRecord
<1>8. CASE SendFails(k)
  <2>1. worker' \in [Conns -> WorkerRecord]
    BY <1>8, WorkerType, IdleType DEF SendFails, Place
  <2>2. errs' \in [Conns -> 0 .. 2]
    BY <1>8, ErrorAdded DEF SendFails
  <2> QED
    BY <1>a, <1>8, <2>1, <2>2 DEF SendFails, TypeOK, WorkerRecord
<1>9. CASE WorkerExit(k)
  <2>1. worker' \in [Conns -> WorkerRecord]
    BY <1>9, WorkerType, IdleType DEF WorkerExit, Place
  <2> QED
    BY <1>9, <2>1 DEF WorkerExit, TypeOK, WorkerRecord
<1> QED
  BY <1>1, <1>2, <1>4, <1>5, <1>6, <1>7, <1>8, <1>9 DEF Work

LEMMA ServerTypes ==
  ASSUME TypeOK, Server
  PROVE  TypeOK'
<1> USE DEF conns, shared, links
<1>1. ASSUME NEW t \in Tasks, Assign(t) PROVE TypeOK'
  <2>1. session \in Conns
    BY <1>1, ClientAssumption DEF Assign, TypeOK, Conns
  <2>2. frames' \in [Conns -> Seq(Frame)]
    BY <1>1, <2>1, DeliverType DEF Assign, Frame
  <2>3. sent' \in 0 .. MaxSent
    BY <1>1, ClientAssumption DEF Assign, TypeOK
  <2> QED
    BY <1>1, <2>2, <2>3 DEF Assign, TypeOK
<1>2. ASSUME NEW t \in Tasks, EndTask(t) PROVE TypeOK'
  <2>1. session > 0 => session \in Conns
    BY ClientAssumption DEF TypeOK, Conns
  <2> QED
    BY <1>2, <2>1 DEF EndTask, TypeOK
<1>3. ASSUME NEW t \in Tasks, NEW k \in Conns, Notify(t, k) PROVE TypeOK'
  <2>1. frames' \in [Conns -> Seq(Frame)]
    BY <1>3, DeliverType DEF Notify, Frame
  <2> QED
    BY <1>3, <2>1 DEF Notify, TypeOK
<1>4. CASE Unregister
  BY <1>4, ClientAssumption DEF Unregister, TypeOK
<1> QED
  BY <1>1, <1>2, <1>3, <1>4 DEF Server

LEMMA TypeStep == TypeOK /\ ConnectionsInOrder /\ [Next]_vars => TypeOK'
<1> SUFFICES ASSUME TypeOK, ConnectionsInOrder, [Next]_vars PROVE TypeOK'
  OBVIOUS
<1> USE DEF conns, shared, server, links
<1>1. CASE Stop
  BY <1>1 DEF Stop, TypeOK
<1>2. CASE Break
  <2>1. conn \in Conns
    BY <1>2, ClientAssumption DEF Break, TypeOK, Conns
  <2> QED
    BY <1>2, <2>1 DEF Break, TypeOK
<1>3. ASSUME NEW k \in Conns, TimeOut(k) PROVE TypeOK'
  <2>1. worker' \in [Conns -> WorkerRecord]
    BY <1>3 DEF TimeOut, TypeOK, WorkerRecord
  <2> QED
    BY <1>3, <2>1 DEF TimeOut, TypeOK, WorkerRecord
<1>4. ASSUME NEW k \in Conns, PingFails(k) PROVE TypeOK'
  BY <1>4, ErrorAdded DEF PingFails, CloseNow, TypeOK
<1>5. ASSUME NEW k \in Conns, BeatExit(k) PROVE TypeOK'
  BY <1>5 DEF BeatExit, TypeOK
<1>6. CASE UNCHANGED vars
  BY <1>6 DEF vars, TypeOK
<1> QED
  BY <1>1, <1>2, <1>3, <1>4, <1>5, <1>6, ReaderTypes, WorkTypes, ServerTypes
  DEF Next, Heartbeat

(* The variables of the Client keep their types: a queue never holds more  *)
(* than its capacity, and the reader holds an assignment exactly while it  *)
(* waits for room (client.go:166-178).                                     *)
THEOREM TypeCorrect == Spec => []TypeOK
  BY TypeInit, TypeStep, OrderInit, OrderStep, PTL DEF Spec

----------------------------------------------------------------------------
(* What the Client does about cancellations concerns ended tasks only. *)

AssignOf(t) == [type |-> "assign", task |-> t]
CancelOf(t) == [type |-> "cancel", task |-> t]

(* Nobody is told to cancel a task that goes on. *)
CancelsAreOver ==
  /\ \A k \in Conns : canceled[k] \subseteq over
  /\ \A t \in Tasks, k \in Conns : <<t, k>> \in notify => t \in over
  /\ \A k \in Conns, t \in Tasks : Holds(frames[k], CancelOf(t)) => t \in over

(* A worker has a task unless it is idle or gone, and connection.taskID is *)
(* that task from setCurrent to clearCurrent.                              *)
WorkerKnows(k) ==
  /\ worker[k].at \in {"none", "idle", "gone"} <=> worker[k].task = None
  /\ current[k] = IF worker[k].at \in {"acking", "executing", "reporting", "clearing"}
                    THEN worker[k].task ELSE None
CancelInv == CancelsAreOver /\ \A k \in Conns : WorkerKnows(k)

(* A frame that is sent is the last one, if it gets on its way.            *)
LEMMA DeliverHolds ==
  ASSUME TypeOK, NEW k \in Conns, NEW frame \in Frame, Deliver(k, frame)
  PROVE  /\ \A j \in Conns \ {k} : frames'[j] = frames[j]
         /\ \A j \in Conns : \A x : Holds(frames'[j], x) =>
              Holds(frames[j], x) \/ (j = k /\ x = frame)
         /\ \A j \in Conns : \A x :
              Once(frames[j], x) /\ (j = k /\ x = frame => ~Holds(frames[j], x)) =>
                Once(frames'[j], x)
<1>1. frames[k] \in Seq(Frame)
  BY DEF TypeOK
<1>2. ASSUME NEW j \in Conns, NEW s, s = frames[j], NEW r, r = frames'[j]
      PROVE  /\ j # k => r = s
             /\ \A x : Holds(r, x) => Holds(s, x) \/ (j = k /\ x = frame)
             /\ \A x : Once(s, x) /\ (j = k /\ x = frame => ~Holds(s, x)) => Once(r, x)
  <2>1. r = s \/ (j = k /\ r = Append(s, frame))
    BY <1>2 DEF Deliver, TypeOK
  <2>2. CASE r = s
    BY <2>2
  <2>3. CASE j = k /\ r = Append(s, frame)
    <3>1. s \in Seq(Frame)
      BY <1>1, <1>2, <2>3
    <3>2. /\ \A x : Holds(Append(s, frame), x) <=> Holds(s, x) \/ x = frame
          /\ \A x : Once(s, x) /\ (x = frame => ~Holds(s, x)) => Once(Append(s, frame), x)
      BY <3>1, AppendHolds
    <3> QED
      BY <2>3, <3>2
  <2> QED
    BY <2>1, <2>2, <2>3
<1> QED
  BY <1>2

(* A frame that is read was the first one. *)
LEMMA ReadHolds ==
  ASSUME TypeOK, ConnectionsInOrder, NEW type, CanRead(type),
         frames' = [frames EXCEPT ![conn] = Tail(@)]
  PROVE  /\ \A j \in Conns \ {conn} : frames'[j] = frames[j]
         /\ \A j \in Conns : \A x : Holds(frames'[j], x) => Holds(frames[j], x)
         /\ \A j \in Conns : \A x : Once(frames[j], x) => Once(frames'[j], x)
         /\ Head(frames[conn]) = [type |-> type, task |-> Head(frames[conn]).task]
         /\ Holds(frames[conn], Head(frames[conn]))
         /\ Once(frames[conn], Head(frames[conn])) =>
              ~Holds(frames'[conn], Head(frames[conn]))
<1>1. conn \in Conns /\ Head(frames[conn]) \in Frame
  BY FrameRead
<1>2. frames[conn] \in Seq(Frame) /\ frames[conn] # <<>>
  BY <1>1 DEF TypeOK, CanRead
<1>3. /\ frames'[conn] = Tail(frames[conn])
      /\ \A j \in Conns \ {conn} : frames'[j] = frames[j]
  BY <1>1 DEF TypeOK
<1>4. /\ Holds(frames[conn], Head(frames[conn]))
      /\ \A x : Holds(Tail(frames[conn]), x) => Holds(frames[conn], x)
      /\ \A x : Once(frames[conn], x) => Once(Tail(frames[conn]), x)
      /\ Once(frames[conn], Head(frames[conn])) =>
           ~Holds(Tail(frames[conn]), Head(frames[conn]))
  BY <1>2, TailHolds
<1>5. Head(frames[conn]) = [type |-> type, task |-> Head(frames[conn]).task]
  BY <1>1 DEF CanRead, Frame
<1> QED
  BY <1>3, <1>4, <1>5

LEMMA CancelFrame ==
  ASSUME TypeOK, CancelInv, UNCHANGED <<canceled, notify, frames>>, over \subseteq over',
         \A k \in Conns : WorkerKnows(k)'
  PROVE  CancelInv'
  BY DEF CancelInv, CancelsAreOver

(* The worker that k has not, and a worker that is only cut, know the same.*)
LEMMA KnowsFrame ==
  ASSUME NEW k \in Conns, WorkerKnows(k), worker'[k].at = worker[k].at,
         worker'[k].task = worker[k].task, current'[k] = current[k]
  PROVE  WorkerKnows(k)'
  BY DEF WorkerKnows

LEMMA CutKnows ==
  ASSUME TypeOK, NEW k \in Conns, NEW j \in Conns
  PROVE  Cut(k)[j].at = worker[j].at /\ Cut(k)[j].task = worker[j].task
  BY DEF TypeOK, Cut

LEMMA CancelReader ==
  ASSUME TypeOK, ConnectionsInOrder, CancelInv, Reader
  PROVE  CancelInv'
<1> USE DEF shared, server
<1>a. \A k \in Conns : WorkerKnows(k)
  BY DEF CancelInv
<1>1. CASE Dial
  <2>1. conn' = conn + 1 /\ conn' \in Conns
    BY <1>1, ClientAssumption DEF Dial, ConnectionsInOrder, Conns
  <2>2. worker[conn'].at = "none"
    BY <2>1 DEF ConnectionsInOrder, Conns
  <2>3. worker'[conn'] = Idle("idle")
        /\ \A k \in Conns \ {conn'} : worker'[k] = worker[k]
    BY <1>1, <2>1 DEF Dial, TypeOK
  <2>4. \A k \in Conns : WorkerKnows(k)'
    BY <1>1, <1>a, <2>2, <2>3 DEF Dial, WorkerKnows, Idle
  <2> QED
    BY <1>1, <2>4, CancelFrame DEF Dial
<1>2. CASE ReadAssign
  <2>1. \A j \in Conns : \A x : Holds(frames'[j], x) => Holds(frames[j], x)
    BY <1>2, ReadHolds DEF ReadAssign
  <2>2. \A k \in Conns : WorkerKnows(k)'
    BY <1>2, <1>a DEF ReadAssign, WorkerKnows
  <2> QED
    BY <1>2, <2>1, <2>2 DEF ReadAssign, CancelInv, CancelsAreOver
<1>3. CASE ReadCancel
  <2> DEFINE t == Head(frames[conn]).task
  <2>1. /\ \A j \in Conns : \A x : Holds(frames'[j], x) => Holds(frames[j], x)
        /\ Holds(frames[conn], CancelOf(t))
    BY <1>3, ReadHolds DEF ReadCancel, CancelOf
  <2>2. conn \in Conns /\ t \in Tasks
    BY <1>3, FrameRead DEF ReadCancel
  <2>3. t \in over
    BY <2>1, <2>2 DEF CancelInv, CancelsAreOver
  <2>4. canceled' = [canceled EXCEPT ![conn] = canceled[conn] \cup {t}]
    BY <1>3 DEF ReadCancel, Marked
  <2>5. \A k \in Conns : canceled'[k] \subseteq over
    BY <2>2, <2>3, <2>4 DEF CancelInv, CancelsAreOver, TypeOK
  <2>6. \A k \in Conns : WorkerKnows(k)'
    <3>1. worker' = worker \/ worker' = Cut(conn)
      BY <1>3 DEF ReadCancel
    <3>2. current' = current
      BY <1>3 DEF ReadCancel
    <3> QED
      BY <1>a, <2>2, <3>1, <3>2, CutKnows, KnowsFrame
  <2>7. UNCHANGED <<notify, over>>
    BY <1>3 DEF ReadCancel
  <2> QED
    BY <2>1, <2>5, <2>6, <2>7 DEF CancelInv, CancelsAreOver
<1>4. CASE ReadFails
  <2>1. conn \in Conns
    BY <1>4, Serving DEF ReadFails
  <2>2. \A k \in Conns : WorkerKnows(k)'
    <3>1. worker' = worker \/ worker' = Cut(conn)
      BY <1>4 DEF ReadFails
    <3>2. current' = current
      BY <1>4 DEF ReadFails
    <3> QED
      BY <1>a, <2>1, <3>1, <3>2, CutKnows, KnowsFrame
  <2> QED
    BY <1>4, <2>2, CancelFrame DEF ReadFails
<1>5. CASE PutHeld \/ GiveUpHeld \/ CloseSocket \/ Leave \/ StopDialing
  <2>1. UNCHANGED <<canceled, notify, frames, over, worker, current>>
    BY <1>5 DEF PutHeld, GiveUpHeld, CloseSocket, Leave, StopDialing
  <2>2. \A k \in Conns : WorkerKnows(k)'
    BY <1>a, <2>1 DEF WorkerKnows
  <2> QED
    BY <2>1, <2>2, CancelFrame
<1> QED
  BY <1>1, <1>2, <1>3, <1>4, <1>5 DEF Reader

(* A worker's step leaves the others as they are, and ends where it says.  *)
LEMMA WorkLocal ==
  ASSUME TypeOK, NEW k \in Conns, Work(k) \/ TimeOut(k)
  PROVE  /\ \A j \in Conns \ {k} : /\ worker'[j] = worker[j]
                                   /\ current'[j] = current[j]
                                   /\ canceled'[j] = canceled[j]
                                   /\ queue'[j] = queue[j]
         /\ UNCHANGED <<reader, conn, held, notify, frames, over, session, recalled>>
<1> USE DEF conns, shared, server, links, TypeOK, At
<1>1. CASE Take(k)
  BY <1>1 DEF Take
<1>2. CASE Skip(k)
  BY <1>2 DEF Skip
<1>3. CASE NotCanceled(k) \/ SendAck(k) \/ Execute(k) \/ TimeOut(k)
  BY <1>3 DEF NotCanceled, SendAck, Execute, TimeOut
<1>4. CASE setCurrent(k)
  BY <1>4 DEF setCurrent
<1>5. CASE Report(k)
  BY <1>5 DEF Report
<1>6. CASE Clear(k)
  BY <1>6 DEF Clear, clearCurrent
<1>7. CASE SendFails(k)
  BY <1>7 DEF SendFails, clearCurrent
<1>8. CASE WorkerExit(k)
  BY <1>8 DEF WorkerExit
<1> QED
  BY <1>1, <1>2, <1>3, <1>4, <1>5, <1>6, <1>7, <1>8 DEF Work

LEMMA WorkKnows ==
  ASSUME TypeOK, NEW k \in Conns, WorkerKnows(k), Work(k) \/ TimeOut(k)
  PROVE  WorkerKnows(k)'
<1> USE ClientAssumption DEF shared, TypeOK, At, WorkerKnows
<1>1. CASE Take(k)
  <2>1. queue[k] \in Seq(Tasks) /\ queue[k] # <<>>
    BY <1>1 DEF Take
  <2>2. Head(queue[k]) \in Tasks
    BY <2>1, TailHolds
  <2> QED
    BY <1>1, <2>2 DEF Take
<1>2. CASE Skip(k)
  BY <1>2 DEF Skip, Idle
<1>3. CASE NotCanceled(k) \/ SendAck(k) \/ Execute(k) \/ TimeOut(k)
  BY <1>3 DEF NotCanceled, SendAck, Execute, TimeOut
<1>4. CASE setCurrent(k)
  BY <1>4 DEF setCurrent
<1>5. CASE Report(k)
  BY <1>5 DEF Report
<1>6. CASE Clear(k)
  BY <1>6 DEF Clear, clearCurrent, Idle
<1>7. CASE SendFails(k)
  BY <1>7 DEF SendFails, clearCurrent, Idle
<1>8. CASE WorkerExit(k)
  BY <1>8 DEF WorkerExit, Idle
<1> QED
  BY <1>1, <1>2, <1>3, <1>4, <1>5, <1>6, <1>7, <1>8 DEF Work

LEMMA CancelWork ==
  ASSUME TypeOK, CancelInv, NEW k \in Conns, Work(k) \/ TimeOut(k)
  PROVE  CancelInv'
<1>1. \A j \in Conns : WorkerKnows(j)'
  <2>1. WorkerKnows(k)'
    BY WorkKnows DEF CancelInv
  <2>2. \A j \in Conns \ {k} : WorkerKnows(j)'
    BY WorkLocal DEF CancelInv, WorkerKnows
  <2> QED
    BY <2>1, <2>2
<1>2. canceled'[k] \subseteq canceled[k]
  BY DEF TypeOK, Work, TimeOut, Take, Skip, NotCanceled, setCurrent, SendAck, Execute,
         Report, Clear, SendFails, WorkerExit, shared
<1>3. \A j \in Conns : canceled'[j] \subseteq over
  BY <1>2, WorkLocal DEF CancelInv, CancelsAreOver
<1>4. UNCHANGED <<notify, frames, over>>
  BY WorkLocal
<1> QED
  BY <1>1, <1>3, <1>4 DEF CancelInv, CancelsAreOver

LEMMA CancelServer ==
  ASSUME TypeOK, CancelInv, Server
  PROVE  CancelInv'
<1> USE DEF shared
<1>a. Server => \A k \in Conns : WorkerKnows(k)'
  BY DEF Server, Assign, EndTask, Notify, Unregister, CancelInv, WorkerKnows
<1>b. Server => UNCHANGED canceled
  BY DEF Server, Assign, EndTask, Notify, Unregister
<1>1. ASSUME NEW t \in Tasks, Assign(t) PROVE CancelInv'
  <2>1. session \in Conns /\ AssignOf(t) \in Frame
    BY <1>1, ClientAssumption DEF Assign, TypeOK, Conns, Frame, AssignOf
  <2>2. \A j \in Conns : \A x : Holds(frames'[j], x) => Holds(frames[j], x) \/ x = AssignOf(t)
    BY <1>1, <2>1, DeliverHolds DEF Assign, AssignOf
  <2>3. \A j \in Conns, u \in Tasks :
          Holds(frames'[j], CancelOf(u)) => Holds(frames[j], CancelOf(u))
    BY <2>2 DEF CancelOf, AssignOf
  <2>4. UNCHANGED <<notify, over>>
    BY <1>1 DEF Assign
  <2> QED
    BY <1>a, <1>b, <2>3, <2>4 DEF CancelInv, CancelsAreOver
<1>2. ASSUME NEW t \in Tasks, EndTask(t) PROVE CancelInv'
  <2>1. over' = over \cup {t} /\ UNCHANGED frames
    BY <1>2 DEF EndTask
  <2>2. \A u \in Tasks, k \in Conns : <<u, k>> \in notify' => <<u, k>> \in notify \/ u = t
    BY <1>2 DEF EndTask
  <2> QED
    BY <1>a, <1>b, <2>1, <2>2 DEF CancelInv, CancelsAreOver
<1>3. ASSUME NEW t \in Tasks, NEW k \in Conns, Notify(t, k) PROVE CancelInv'
  <2>1. CancelOf(t) \in Frame /\ t \in over
    BY <1>3 DEF Notify, Frame, CancelOf, CancelInv, CancelsAreOver
  <2>2. \A j \in Conns : \A x : Holds(frames'[j], x) => Holds(frames[j], x) \/ x = CancelOf(t)
    BY <1>3, <2>1, DeliverHolds DEF Notify, CancelOf
  <2>3. \A j \in Conns, u \in Tasks :
          Holds(frames'[j], CancelOf(u)) => Holds(frames[j], CancelOf(u)) \/ u = t
    BY <2>2 DEF CancelOf
  <2>4. UNCHANGED over /\ notify' \subseteq notify
    BY <1>3 DEF Notify
  <2> QED
    BY <1>a, <1>b, <2>1, <2>3, <2>4 DEF CancelInv, CancelsAreOver
<1>4. CASE Unregister
  BY <1>a, <1>b, <1>4, CancelFrame DEF Unregister
<1> QED
  BY <1>1, <1>2, <1>3, <1>4 DEF Server

LEMMA CancelInit == Init => CancelInv
<1> SUFFICES ASSUME Init PROVE CancelInv
  OBVIOUS
<1>1. CancelsAreOver
  BY EmptyHolds DEF Init, CancelsAreOver
<1>2. \A k \in Conns : WorkerKnows(k)
  BY DEF Init, WorkerKnows, Idle
<1> QED
  BY <1>1, <1>2 DEF CancelInv

LEMMA CancelStep ==
  TypeOK /\ ConnectionsInOrder /\ CancelInv /\ [Next]_vars => CancelInv'
<1> SUFFICES ASSUME TypeOK, ConnectionsInOrder, CancelInv, [Next]_vars PROVE CancelInv'
  OBVIOUS
<1>1. CASE UNCHANGED <<canceled, notify, frames, over, worker, current>>
  <2>1. \A k \in Conns : WorkerKnows(k)'
    BY <1>1 DEF CancelInv, WorkerKnows
  <2> QED
    BY <1>1, <2>1, CancelFrame
<1>2. CASE Break
  <2>1. \A j \in Conns : frames'[j] = frames[j] \/ frames'[j] = <<>>
    BY <1>2 DEF Break, TypeOK
  <2>2. \A j \in Conns : \A x : Holds(frames'[j], x) => Holds(frames[j], x)
    BY <2>1, EmptyHolds
  <2>3. UNCHANGED <<canceled, notify, over>> /\ \A k \in Conns : WorkerKnows(k)'
    BY <1>2 DEF Break, shared, server, CancelInv, WorkerKnows
  <2> QED
    BY <2>2, <2>3 DEF CancelInv, CancelsAreOver
<1>3. CASE Stop
  BY <1>1, <1>3 DEF Stop, shared, server
<1>4. ASSUME NEW k \in Conns, Heartbeat(k) PROVE CancelInv'
  BY <1>1, <1>4 DEF Heartbeat, PingFails, BeatExit, shared, server
<1>5. CASE UNCHANGED vars
  BY <1>1, <1>5 DEF vars
<1> QED
  BY <1>2, <1>3, <1>4, <1>5, CancelReader, CancelWork, CancelServer DEF Next

----------------------------------------------------------------------------

(* Which step can stop or drop the unit of a worker. *)
Spared(k) ==
  \/ worker[k].task \in over \cup {None}
  \/ reader' # "reading"
  \/ /\ ~(worker[k].cut = "no" /\ worker'[k].cut = "cancel")
     /\ ~(worker[k].at = "taken" /\ worker'[k].at \in {"idle", "gone"})

LEMMA SparedByReader ==
  ASSUME TypeOK, ConnectionsInOrder, CancelInv, Reader, NEW k \in Conns
  PROVE  Spared(k)
<1> USE DEF shared, server
<1>1. CASE Dial
  <2>1. conn' = conn + 1 /\ conn' \in Conns
    BY <1>1, ClientAssumption DEF Dial, ConnectionsInOrder, Conns
  <2>2. worker[conn'].at = "none"
    BY <2>1 DEF ConnectionsInOrder, Conns
  <2>3. worker'[conn'] = Idle("idle")
        /\ \A j \in Conns \ {conn'} : worker'[j] = worker[j]
    BY <1>1, <2>1 DEF Dial, TypeOK
  <2>4. worker[conn'].task = None
    BY <2>1, <2>2 DEF CancelInv, WorkerKnows
  <2> QED
    BY <2>3, <2>4 DEF Spared
<1>2. CASE ReadCancel
  <2> DEFINE t == Head(frames[conn]).task
  <2>1. Holds(frames[conn], CancelOf(t))
    BY <1>2, ReadHolds DEF ReadCancel, CancelOf
  <2>2. conn \in Conns /\ t \in Tasks
    BY <1>2, FrameRead DEF ReadCancel
  <2>3. t \in over
    BY <2>1, <2>2 DEF CancelInv, CancelsAreOver
  <2>4. CASE worker' = worker
    BY <2>4 DEF Spared
  <2>5. CASE worker' = Cut(conn) /\ current[conn] = t
    <3>1. worker[conn].task = t
      BY <2>2, <2>5, ClientAssumption DEF CancelInv, WorkerKnows
    <3>2. \A j \in Conns \ {conn} : worker'[j] = worker[j]
      BY <2>5 DEF Cut, TypeOK
    <3> QED
      BY <2>3, <3>1, <3>2 DEF Spared
  <2> QED
    BY <1>2, <2>4, <2>5 DEF ReadCancel, Matches
<1>3. CASE ReadFails
  BY <1>3 DEF ReadFails, Spared
<1>4. CASE ReadAssign \/ PutHeld \/ GiveUpHeld \/ CloseSocket \/ Leave \/ StopDialing
  <2>1. worker' = worker
    BY <1>4 DEF ReadAssign, PutHeld, GiveUpHeld, CloseSocket, Leave, StopDialing
  <2> QED
    BY <2>1 DEF Spared
<1> QED
  BY <1>1, <1>2, <1>3, <1>4 DEF Reader

LEMMA SparedByWork ==
  ASSUME TypeOK, CancelInv, NEW j \in Conns, Work(j) \/ TimeOut(j), NEW k \in Conns
  PROVE  Spared(k)
<1>1. CASE k # j
  BY <1>1, WorkLocal DEF Spared
<1>2. CASE k = j
  <2> USE <1>2 DEF TypeOK, At, Spared
  <2>1. CASE Take(k)
    BY <2>1 DEF Take
  <2>2. CASE Skip(k)
    BY <2>2 DEF Skip, CancelInv, CancelsAreOver
  <2>3. CASE NotCanceled(k) \/ SendAck(k) \/ Execute(k) \/ setCurrent(k) \/ Report(k)
    <3>1. \E at \in Place \ {"idle", "gone"} : worker' = [worker EXCEPT ![k].at = at]
      BY <2>3 DEF NotCanceled, SendAck, Execute, setCurrent, Report, Place
    <3>2. worker'[k].cut = worker[k].cut /\ worker'[k].at \notin {"idle", "gone"}
      BY <3>1
    <3> QED
      BY <3>2
  <2>t. CASE TimeOut(k)
    <3>1. worker'[k].cut = "timeout" /\ worker'[k].at = worker[k].at
      BY <2>t DEF TimeOut
    <3> QED
      BY <3>1
  <2>4. CASE Clear(k) \/ SendFails(k) \/ WorkerExit(k)
    BY <2>4 DEF Clear, SendFails, WorkerExit, Idle
  <2> QED
    BY <2>1, <2>2, <2>3, <2>t, <2>4 DEF Work
<1> QED
  BY <1>1, <1>2

(* While a connection is served, a unit is stopped or dropped only if its  *)
(* task has ended, whatever the worker was doing (connection.go:65-83).    *)
THEOREM OthersAreSpared == Spec => UntouchedByOthers
<1>1. TypeOK /\ ConnectionsInOrder /\ CancelInv /\ [Next]_vars =>
        [\A k \in Conns : Spared(k)]_vars
  <2> SUFFICES ASSUME TypeOK, ConnectionsInOrder, CancelInv, [Next]_vars, vars' # vars,
                      NEW k \in Conns
               PROVE  Spared(k)
    OBVIOUS
  <2>1. CASE UNCHANGED worker
    BY <2>1 DEF Spared
  <2>2. CASE Stop \/ Break \/ Server
    BY <2>1, <2>2 DEF Stop, Break, Server, Assign, EndTask, Notify, Unregister
  <2>3. ASSUME NEW j \in Conns, Heartbeat(j) PROVE Spared(k)
    BY <2>1, <2>3 DEF Heartbeat, PingFails, BeatExit
  <2> QED
    BY <2>2, <2>3, SparedByReader, SparedByWork DEF Next
<1>2. [\A k \in Conns : Spared(k)]_vars =>
        [\A k \in Conns :
           \/ worker[k].task \in over \cup {None}
           \/ reader' # "reading"
           \/ /\ ~(worker[k].cut = "no" /\ worker'[k].cut = "cancel")
              /\ ~(worker[k].at = "taken" /\ worker'[k].at \in {"idle", "gone"})]_vars
  BY DEF Spared
<1> QED
  BY <1>1, <1>2, TypeInit, TypeStep, OrderInit, OrderStep, CancelInit, CancelStep, PTL
  DEF Spec, UntouchedByOthers

----------------------------------------------------------------------------
(* Units.  The mark of a cancellation is used up by the first unit of its  *)
(* task, and a second one would run; but a connection never carries two,   *)
(* because the server leases one unit at a time and stops leasing a task   *)
(* that has ended.                                                         *)

InHand(k, t) == held = t /\ conn = k
InWork(k, t) == worker[k].task = t /\ worker[k].at # "clearing"
Carries(k, t) ==
  \/ Holds(frames[k], AssignOf(t))
  \/ InHand(k, t)
  \/ Holds(queue[k], t)
  \/ InWork(k, t)

(* On its way from the frames to the worker, a task has one unit at most.  *)
OneUnit(k, t) ==
  /\ Once(frames[k], AssignOf(t)) /\ Once(queue[k], t)
  /\ Holds(frames[k], AssignOf(t)) =>
       ~InHand(k, t) /\ ~Holds(queue[k], t) /\ ~InWork(k, t)
  /\ InHand(k, t) => ~Holds(queue[k], t) /\ ~InWork(k, t)
  /\ Holds(queue[k], t) => ~InWork(k, t)

(* A unit that was recalled in the queue is marked until it is dropped.    *)
Recalled(k, t) ==
  /\ t \in over
  /\ ~Holds(frames[k], AssignOf(t)) /\ ~InHand(k, t)
  /\ Holds(queue[k], t) => t \in canceled[k]
  /\ InWork(k, t) => worker[k].at = "taken" /\ t \in canceled[k]

UnitOK(k, t) ==
  /\ OneUnit(k, t)
  /\ k = session /\ t \notin over /\ Carries(k, t) => lease = t
  /\ <<k, t>> \in recalled => Recalled(k, t)

(* The server knows the connection in use or none, and has sent nothing to *)
(* the ones to come.                                                       *)
ServerInv ==
  /\ session \in {0, conn}
  /\ lease \notin over
  /\ \A k \in Conns : k > conn => frames[k] = <<>> /\ queue[k] = <<>>
  /\ \A t \in Tasks, k \in Conns : <<t, k>> \in notify => k <= conn
UnitInv == ServerInv /\ \A k \in Conns, t \in Tasks : UnitOK(k, t)

(* What takes units away, or leaves them where they are, keeps UnitOK.     *)
LEMMA UnitShrinks ==
  ASSUME NEW k \in Conns, NEW t \in Tasks, UnitOK(k, t),
         Once(frames[k], AssignOf(t)) => Once(frames'[k], AssignOf(t)),
         Once(queue[k], t) => Once(queue'[k], t),
         Holds(frames'[k], AssignOf(t)) => Holds(frames[k], AssignOf(t)),
         InHand(k, t)' => InHand(k, t),
         Holds(queue'[k], t) => Holds(queue[k], t),
         InWork(k, t)' => /\ InWork(k, t)
                          /\ worker[k].at = "taken" /\ t \in canceled[k] =>
                               worker'[k].at = "taken",
         t \in canceled[k] => t \in canceled'[k] \/ ~Carries(k, t)',
         <<k, t>> \in recalled' => <<k, t>> \in recalled,
         over \subseteq over', k = session' => k = session,
         lease' = lease \/ t \in over' \/ ~Carries(k, t)'
  PROVE  UnitOK(k, t)'
  BY DEF UnitOK, OneUnit, Recalled, Carries

LEMMA UnitStays ==
  ASSUME NEW k \in Conns, NEW t \in Tasks, UnitOK(k, t),
         frames'[k] = frames[k], queue'[k] = queue[k], canceled'[k] = canceled[k],
         worker'[k].at = worker[k].at, worker'[k].task = worker[k].task,
         InHand(k, t)' => InHand(k, t),
         <<k, t>> \in recalled' => <<k, t>> \in recalled,
         over \subseteq over', k = session' => k = session,
         lease' = lease \/ t \in over' \/ ~Carries(k, t)
  PROVE  UnitOK(k, t)'
<1>1. InWork(k, t)' <=> InWork(k, t)
  BY DEF InWork
<1>2. Carries(k, t)' => Carries(k, t)
  BY <1>1 DEF Carries
<1> QED
  BY <1>1, <1>2, UnitShrinks

(* A step that leaves the units and the server alone. *)
LEMMA UnitFrame ==
  ASSUME TypeOK, UnitInv, UNCHANGED <<conn, frames, queue, canceled, recalled, notify>>,
         over' = over, lease' = lease, session' \in {session, 0},
         \A k \in Conns : worker'[k].at = worker[k].at /\ worker'[k].task = worker[k].task,
         held' \in {held, None}
  PROVE  UnitInv'
<1>1. ServerInv'
  BY DEF UnitInv, ServerInv
<1>2. ASSUME NEW k \in Conns, NEW t \in Tasks PROVE UnitOK(k, t)'
  <2>1. InHand(k, t)' => InHand(k, t)
    BY ClientAssumption DEF InHand
  <2>2. k = session' => k = session
    BY ClientAssumption DEF Conns
  <2>3. UnitOK(k, t)
    BY DEF UnitInv
  <2> QED
    BY <2>1, <2>2, <2>3, UnitStays
<1> QED
  BY <1>1, <1>2 DEF UnitInv

LEMMA UnitDial ==
  ASSUME TypeOK, ConnectionsInOrder, CancelInv, UnitInv, Dial
  PROVE  UnitInv'
<1>1. conn' = conn + 1 /\ conn' \in Conns /\ conn \in Nat
  BY ClientAssumption DEF Dial, ConnectionsInOrder, Conns
<1>2. worker[conn'].at = "none" /\ worker[conn'].task = None
  BY <1>1 DEF ConnectionsInOrder, Conns, CancelInv, WorkerKnows
<1>3. /\ worker'[conn'] = Idle("idle")
      /\ \A k \in Conns \ {conn'} : worker'[k] = worker[k]
  BY <1>1 DEF Dial, TypeOK
<1>4. frames[conn'] = <<>> /\ queue[conn'] = <<>>
  BY <1>1 DEF UnitInv, ServerInv
<1>5. /\ held = None /\ session' = conn' /\ lease' = None
      /\ UNCHANGED <<held, frames, queue, canceled, recalled, over, notify>>
  BY DEF Dial, TypeOK, TakenBack
<1>6. ServerInv'
  <2>1. \A k \in Conns : k > conn' => k > conn
    BY <1>1 DEF Conns
  <2>2. \A k \in Conns : k <= conn => k <= conn'
    BY <1>1 DEF Conns
  <2>3. None \notin over
    BY ClientAssumption DEF TypeOK
  <2> QED
    BY <1>5, <2>1, <2>2, <2>3 DEF UnitInv, ServerInv
<1>7. ASSUME NEW k \in Conns, NEW t \in Tasks PROVE UnitOK(k, t)'
  <2>0. UnitOK(k, t) /\ t # None
    BY ClientAssumption DEF UnitInv
  <2>1. ~InHand(k, t)'
    BY <1>5, <2>0 DEF InHand
  <2>2. CASE k = conn'
    <3>1. ~InWork(k, t)'
      BY <1>3, <2>0, <2>2 DEF InWork, Idle
    <3>2. ~Carries(k, t)'
      BY <1>4, <1>5, <2>1, <2>2, <3>1, EmptyHolds DEF Carries
    <3>3. OneUnit(k, t)'
      BY <1>5, <2>0, <2>1, <3>1, <3>2 DEF UnitOK, OneUnit, Carries
    <3>4. <<k, t>> \in recalled' => Recalled(k, t)'
      BY <1>5, <2>0, <2>1, <3>1, <3>2 DEF UnitOK, Recalled, Carries
    <3> QED
      BY <3>2, <3>3, <3>4 DEF UnitOK
  <2>3. CASE k # conn'
    <3>1. InWork(k, t)' <=> InWork(k, t)
      BY <1>3, <2>3 DEF InWork
    <3>2. worker'[k].at = worker[k].at
      BY <1>3, <2>3
    <3> QED
      BY <1>5, <2>0, <2>1, <2>3, <3>1, <3>2 DEF UnitOK, OneUnit, Recalled, Carries
  <2> QED
    BY <2>2, <2>3
<1> QED
  BY <1>6, <1>7 DEF UnitInv

(* An assignment that enters the queue of its connection: it was on it     *)
(* before, and is now in the queue and nowhere else.                       *)
LEMMA UnitMoves ==
  ASSUME NEW k \in Conns, NEW t \in Tasks, UnitOK(k, t), Carries(k, t),
         Once(frames'[k], AssignOf(t)), Once(queue'[k], t),
         \/ InHand(k, t)' /\ ~Holds(queue'[k], t)
         \/ ~InHand(k, t)' /\ Holds(queue'[k], t),
         ~Holds(frames'[k], AssignOf(t)), ~InWork(k, t)',
         <<k, t>> \notin recalled',
         UNCHANGED <<session, over, lease>>
  PROVE  UnitOK(k, t)'
  BY DEF UnitOK, OneUnit

LEMMA QueuedHolds ==
  ASSUME TypeOK, NEW k \in Conns, NEW u \in Tasks,
         queue' = [queue EXCEPT ![k] = Append(@, u)]
  PROVE  /\ \A j \in Conns \ {k} : queue'[j] = queue[j]
         /\ \A t : Holds(queue'[k], t) <=> Holds(queue[k], t) \/ t = u
         /\ \A t : Once(queue[k], t) /\ (t = u => ~Holds(queue[k], t)) => Once(queue'[k], t)
<1>1. queue[k] \in Seq(Tasks)
  BY DEF TypeOK
<1>2. /\ queue'[k] = Append(queue[k], u)
      /\ \A j \in Conns \ {k} : queue'[j] = queue[j]
  BY DEF TypeOK
<1>3. /\ \A t : Holds(Append(queue[k], u), t) <=> Holds(queue[k], t) \/ t = u
      /\ \A t : Once(queue[k], t) /\ (t = u => ~Holds(queue[k], t)) =>
                  Once(Append(queue[k], u), t)
  BY <1>1, AppendHolds
<1> QED
  BY <1>2, <1>3

LEMMA UnitReadAssign ==
  ASSUME TypeOK, ConnectionsInOrder, UnitInv, ReadAssign
  PROVE  UnitInv'
<1> DEFINE u == Head(frames[conn]).task
<1>1. conn \in Conns /\ u \in Tasks /\ u # None
  BY FrameRead, ClientAssumption DEF ReadAssign
<1>2. /\ \A j \in Conns \ {conn} : frames'[j] = frames[j]
      /\ \A j \in Conns : \A x : Holds(frames'[j], x) => Holds(frames[j], x)
      /\ \A j \in Conns : \A x : Once(frames[j], x) => Once(frames'[j], x)
      /\ Holds(frames[conn], AssignOf(u))
      /\ Once(frames[conn], AssignOf(u)) => ~Holds(frames'[conn], AssignOf(u))
  BY ReadHolds DEF ReadAssign, AssignOf
<1>3. UNCHANGED <<conn, canceled, worker, session, over, lease, notify, recalled>>
  BY DEF ReadAssign, server
<1>4. held = None
  BY DEF ReadAssign, CanRead, TypeOK
<1>5. \/ /\ queue' = [queue EXCEPT ![conn] = Append(@, u)]
         /\ held' = None
      \/ queue' = queue /\ held' = u
  BY <1>4 DEF ReadAssign
<1>6. /\ \A j \in Conns \ {conn} : queue'[j] = queue[j]
      /\ \A t \in Tasks \ {u} : /\ Holds(queue'[conn], t) => Holds(queue[conn], t)
                                /\ Once(queue[conn], t) => Once(queue'[conn], t)
  BY <1>1, <1>5, QueuedHolds
<1>7. ServerInv'
  <2>1. \A k \in Conns : k > conn => k # conn
    BY ClientAssumption DEF TypeOK, Conns
  <2> QED
    BY <1>2, <1>3, <1>6, <2>1 DEF UnitInv, ServerInv
<1>8. ASSUME NEW k \in Conns, NEW t \in Tasks PROVE UnitOK(k, t)'
  <2>0. UnitOK(k, t)
    BY DEF UnitInv
  <2>1. InWork(k, t)' <=> InWork(k, t)
    BY <1>3 DEF InWork
  <2>2. CASE k # conn
    <3>1. ~InHand(k, t)'
      BY <1>3, <2>2 DEF InHand
    <3> QED
      BY <1>2, <1>3, <1>6, <2>0, <2>1, <2>2, <3>1, UnitStays
  <2>3. CASE k = conn /\ t # u
    <3>1. ~InHand(k, t)'
      BY <1>1, <1>5, <2>3, ClientAssumption DEF InHand
    <3> QED
      BY <1>2, <1>3, <1>6, <2>0, <2>1, <2>3, <3>1, UnitShrinks
  <2>4. CASE k = conn /\ t = u
    <3>1. /\ Holds(frames[k], AssignOf(t)) /\ ~InHand(k, t) /\ ~Holds(queue[k], t)
          /\ ~InWork(k, t) /\ Once(frames[k], AssignOf(t)) /\ Once(queue[k], t)
          /\ <<k, t>> \notin recalled
      BY <1>2, <2>0, <2>4 DEF UnitOK, OneUnit, Recalled
    <3>2. Once(queue'[k], t)
      BY <1>1, <1>5, <2>4, <3>1, QueuedHolds
    <3>3. \/ InHand(k, t)' /\ ~Holds(queue'[k], t)
          \/ ~InHand(k, t)' /\ Holds(queue'[k], t)
      <4>1. CASE queue' = [queue EXCEPT ![conn] = Append(@, u)] /\ held' = None
        <5>1. \A x : Holds(queue'[conn], x) <=> Holds(queue[conn], x) \/ x = u
          BY <1>1, <4>1, QueuedHolds
        <5>2. Holds(queue'[k], t)
          BY <2>4, <5>1
        <5> QED
          BY <1>1, <2>4, <4>1, <5>2 DEF InHand
      <4>2. CASE queue' = queue /\ held' = u
        BY <1>3, <2>4, <3>1, <4>2 DEF InHand
      <4> QED
        BY <1>5, <4>1, <4>2
    <3>4. Once(frames'[k], AssignOf(t)) /\ ~Holds(frames'[k], AssignOf(t))
      BY <1>2, <2>4, <3>1
    <3> QED
      BY <1>3, <2>0, <2>1, <3>1, <3>2, <3>3, <3>4, UnitMoves DEF Carries
  <2> QED
    BY <2>2, <2>3, <2>4
<1> QED
  BY <1>7, <1>8 DEF UnitInv

LEMMA UnitPutHeld ==
  ASSUME TypeOK, ConnectionsInOrder, UnitInv, PutHeld
  PROVE  UnitInv'
<1>1. conn \in Conns /\ held \in Tasks /\ held # None
  BY Serving DEF PutHeld, TypeOK
<1>2. UNCHANGED <<conn, canceled, worker, frames, session, over, lease, notify, recalled>>
  BY DEF PutHeld, server
<1>3. queue' = [queue EXCEPT ![conn] = Append(@, held)] /\ held' = None
  BY DEF PutHeld
<1>4. /\ \A j \in Conns \ {conn} : queue'[j] = queue[j]
      /\ \A t : Holds(queue'[conn], t) <=> Holds(queue[conn], t) \/ t = held
      /\ \A t : Once(queue[conn], t) /\ (t = held => ~Holds(queue[conn], t)) =>
                  Once(queue'[conn], t)
  BY <1>1, <1>3, QueuedHolds
<1>5. ServerInv'
  <2>1. \A k \in Conns : k > conn => k # conn
    BY ClientAssumption DEF TypeOK, Conns
  <2> QED
    BY <1>2, <1>4, <2>1 DEF UnitInv, ServerInv
<1>6. ASSUME NEW k \in Conns, NEW t \in Tasks PROVE UnitOK(k, t)'
  <2>0. UnitOK(k, t)
    BY DEF UnitInv
  <2>1. /\ InWork(k, t)' <=> InWork(k, t)
        /\ ~InHand(k, t)'
    BY <1>2, <1>3, ClientAssumption DEF InWork, InHand
  <2>2. CASE k # conn
    BY <1>2, <1>4, <2>0, <2>1, <2>2, UnitStays
  <2>3. CASE k = conn /\ t # held
    BY <1>2, <1>4, <2>0, <2>1, <2>3, UnitShrinks
  <2>4. CASE k = conn /\ t = held
    <3>1. InHand(k, t)
      BY <2>4 DEF InHand
    <3>2. /\ ~Holds(frames[k], AssignOf(t)) /\ ~Holds(queue[k], t)
          /\ ~InWork(k, t) /\ Once(frames[k], AssignOf(t)) /\ Once(queue[k], t)
          /\ <<k, t>> \notin recalled
      BY <2>0, <3>1 DEF UnitOK, OneUnit, Recalled
    <3>3. Once(queue'[k], t) /\ Holds(queue'[k], t)
      BY <1>4, <2>4, <3>2
    <3> QED
      BY <1>2, <2>0, <2>1, <3>1, <3>2, <3>3, UnitMoves DEF Carries
  <2> QED
    BY <2>2, <2>3, <2>4
<1> QED
  BY <1>5, <1>6 DEF UnitInv

(* A cancel that is read marks its task: the unit it may recall is in the  *)
(* queue, and therefore nowhere else.                                      *)
LEMMA UnitReadCancel ==
  ASSUME TypeOK, ConnectionsInOrder, CancelInv, UnitInv, ReadCancel
  PROVE  UnitInv'
<1> DEFINE u == Head(frames[conn]).task
<1>1. conn \in Conns /\ u \in Tasks
  BY FrameRead DEF ReadCancel
<1>2. /\ \A j \in Conns \ {conn} : frames'[j] = frames[j]
      /\ \A j \in Conns : \A x : Holds(frames'[j], x) => Holds(frames[j], x)
      /\ \A j \in Conns : \A x : Once(frames[j], x) => Once(frames'[j], x)
      /\ Holds(frames[conn], CancelOf(u))
  BY ReadHolds DEF ReadCancel, CancelOf
<1>3. u \in over
  BY <1>1, <1>2 DEF CancelInv, CancelsAreOver
<1>4. UNCHANGED <<conn, queue, held, session, over, lease, notify>>
  BY DEF ReadCancel, server
<1>5. \A k \in Conns : worker'[k].at = worker[k].at /\ worker'[k].task = worker[k].task
  <2>1. worker' = worker \/ worker' = Cut(conn)
    BY DEF ReadCancel
  <2> QED
    BY <1>1, <2>1, CutKnows
<1>6. \A k \in Conns : canceled'[k] = IF k = conn THEN canceled[k] \cup {u} ELSE canceled[k]
  BY DEF ReadCancel, Marked, TypeOK
<1>7. \A k \in Conns, t \in Tasks : <<k, t>> \in recalled' =>
        <<k, t>> \in recalled \/ (k = conn /\ t = u /\ Holds(queue[k], t))
  BY <1>1 DEF ReadCancel, Holds
<1>8. ServerInv'
  <2>1. \A k \in Conns : k > conn => k # conn
    BY ClientAssumption DEF TypeOK, Conns
  <2> QED
    BY <1>2, <1>4, <2>1 DEF UnitInv, ServerInv
<1>9. ASSUME NEW k \in Conns, NEW t \in Tasks PROVE UnitOK(k, t)'
  <2>0. UnitOK(k, t)
    BY DEF UnitInv
  <2>1. /\ InWork(k, t)' <=> InWork(k, t)
        /\ InHand(k, t)' <=> InHand(k, t)
    BY <1>4, <1>5 DEF InWork, InHand
  <2>2. CASE <<k, t>> \in recalled' => <<k, t>> \in recalled
    BY <1>2, <1>4, <1>5, <1>6, <2>0, <2>1, <2>2, UnitShrinks
  <2>3. CASE k = conn /\ t = u /\ Holds(queue[k], t)
    <3>1. /\ ~Holds(frames[k], AssignOf(t)) /\ ~InHand(k, t) /\ ~InWork(k, t)
          /\ OneUnit(k, t)
      BY <2>0, <2>3 DEF UnitOK, OneUnit
    <3>2. ~Holds(frames'[k], AssignOf(t))
      BY <1>2, <3>1
    <3>3. Recalled(k, t)'
      BY <1>3, <1>4, <1>6, <2>1, <2>3, <3>1, <3>2 DEF Recalled
    <3>4. OneUnit(k, t)'
      BY <1>2, <1>4, <2>1, <3>1, <3>2 DEF OneUnit
    <3> QED
      BY <1>3, <1>4, <2>3, <3>3, <3>4 DEF UnitOK
  <2> QED
    BY <1>7, <2>2, <2>3
<1> QED
  BY <1>8, <1>9 DEF UnitInv

LEMMA UnitReader ==
  ASSUME TypeOK, ConnectionsInOrder, CancelInv, UnitInv, Reader
  PROVE  UnitInv'
<1> USE DEF shared, server
<1>1. CASE ReadFails
  <2>1. worker' = worker \/ worker' = Cut(conn)
    BY <1>1 DEF ReadFails
  <2>2. \A k \in Conns : worker'[k].at = worker[k].at /\ worker'[k].task = worker[k].task
    BY <1>1, <2>1, CutKnows, Serving DEF ReadFails
  <2> QED
    BY <1>1, <2>2, UnitFrame DEF ReadFails
<1>2. CASE GiveUpHeld \/ CloseSocket \/ Leave \/ StopDialing
  BY <1>2, UnitFrame DEF GiveUpHeld, CloseSocket, Leave, StopDialing
<1> QED
  BY <1>1, <1>2, UnitDial, UnitReadAssign, UnitPutHeld, UnitReadCancel DEF Reader

(* Only the unit of worker k is affected by its steps. *)
LEMMA UnitTake ==
  ASSUME TypeOK, CancelInv, UnitInv, NEW k \in Conns, Take(k), NEW t \in Tasks
  PROVE  UnitOK(k, t)'
<1> DEFINE u == Head(queue[k])
<1>1. queue[k] \in Seq(Tasks) /\ queue[k] # <<>>
  BY DEF Take, TypeOK
<1>2. /\ u \in Tasks
      /\ Holds(queue[k], u)
      /\ \A x : Holds(Tail(queue[k]), x) => Holds(queue[k], x)
      /\ \A x : Once(queue[k], x) => Once(Tail(queue[k]), x)
      /\ Once(queue[k], u) => ~Holds(Tail(queue[k]), u)
  BY <1>1, TailHolds
<1>3. /\ queue'[k] = Tail(queue[k])
      /\ worker'[k].task = u /\ worker'[k].at = "taken"
      /\ UNCHANGED <<frames, canceled, session, over, lease, recalled>>
  BY DEF Take, TypeOK, server
<1>4. worker[k].task = None
  BY DEF Take, CancelInv, WorkerKnows
<1>5. InHand(k, t)' <=> InHand(k, t)
  BY DEF Take, InHand, conns
<1>6. UnitOK(k, t)
  BY DEF UnitInv
<1>7. CASE t # u
  <2>1. ~InWork(k, t)'
    BY <1>3, <1>7 DEF InWork
  <2> QED
    BY <1>2, <1>3, <1>5, <1>6, <2>1, UnitShrinks
<1>8. CASE t = u
  <2>1. InWork(k, t)'
    BY <1>3, <1>8 DEF InWork
  <2>2. /\ ~Holds(frames[k], AssignOf(t)) /\ ~InHand(k, t) /\ Once(queue[k], t)
        /\ Once(frames[k], AssignOf(t)) /\ Carries(k, t)
    BY <1>2, <1>6, <1>8 DEF UnitOK, OneUnit, Carries
  <2>3. ~Holds(queue'[k], t) /\ Once(queue'[k], t)
    BY <1>2, <1>3, <1>8, <2>2
  <2>4. OneUnit(k, t)'
    BY <1>3, <1>5, <2>2, <2>3 DEF OneUnit
  <2>5. <<k, t>> \in recalled' => Recalled(k, t)'
    BY <1>2, <1>3, <1>5, <1>6, <1>8, <2>2, <2>3 DEF UnitOK, Recalled
  <2> QED
    BY <1>3, <1>6, <2>2, <2>4, <2>5 DEF UnitOK
<1> QED
  BY <1>7, <1>8

LEMMA UnitWork ==
  ASSUME TypeOK, CancelInv, UnitInv, NEW k \in Conns, Work(k) \/ TimeOut(k)
  PROVE  UnitInv'
<1>0. /\ \A j \in Conns \ {k} : /\ worker'[j] = worker[j]
                                /\ canceled'[j] = canceled[j]
                                /\ queue'[j] = queue[j]
      /\ UNCHANGED <<conn, held, notify, frames, over, session, recalled>>
  BY WorkLocal
<1>1. lease' = lease \/ (Report(k) /\ k = session /\ lease = worker[k].task /\ lease' = None)
  BY DEF Work, TimeOut, Take, Skip, NotCanceled, setCurrent, SendAck, Execute,
         Report, Clear, SendFails, WorkerExit, server
<1>2. k > conn => queue'[k] = queue[k]
  <2>1. k > conn => queue[k] = <<>>
    BY DEF UnitInv, ServerInv
  <2>2. Take(k) \/ queue' = queue
    BY DEF Work, TimeOut, Skip, NotCanceled, setCurrent, SendAck, Execute,
           Report, Clear, SendFails, WorkerExit, shared
  <2> QED
    BY <2>1, <2>2 DEF Take
<1>3. ServerInv'
  BY <1>0, <1>1, <1>2, ClientAssumption DEF UnitInv, ServerInv, TypeOK
<1>4. ASSUME NEW j \in Conns, NEW t \in Tasks PROVE UnitOK(j, t)'
  <2>0. UnitOK(j, t) /\ t # None
    BY ClientAssumption DEF UnitInv
  <2>h. InHand(j, t)' <=> InHand(j, t)
    BY <1>0 DEF InHand
  <2>1. CASE j # k
    <3>1. lease' = lease \/ k = session
      BY <1>1
    <3>2. j = session => lease' = lease
      BY <3>1, <2>1
    <3>3. InWork(j, t)' <=> InWork(j, t)
      BY <1>0, <2>1 DEF InWork
    <3> QED
      BY <1>0, <2>0, <2>1, <2>h, <3>2, <3>3 DEF UnitOK, OneUnit, Recalled, Carries
  <2>2. CASE j = k
    <3> USE <2>2 DEF TypeOK, At
    <3>1. CASE Take(k)
      BY <3>1, UnitTake
    <3>2. CASE Skip(k)
      <4>1. /\ UNCHANGED <<queue, lease>> /\ worker'[k] = Idle("idle")
            /\ canceled'[k] = canceled[k] \ {worker[k].task} /\ worker[k].at = "taken"
        BY <3>2 DEF Skip, server
      <4>2. ~InWork(k, t)'
        BY <2>0, <4>1 DEF InWork, Idle
      <4>3. CASE worker[k].task = t
        <5>1. ~Carries(k, t)'
          BY <1>0, <2>0, <2>h, <4>1, <4>2, <4>3 DEF Carries, UnitOK, OneUnit, InWork
        <5> HIDE DEF TypeOK
        <5> QED
          BY <1>0, <2>0, <2>h, <4>1, <4>2, <5>1, UnitShrinks
      <4>4. CASE worker[k].task # t
        <5> HIDE DEF TypeOK
        <5> QED
          BY <1>0, <2>0, <2>h, <4>1, <4>2, <4>4, UnitShrinks
      <4> QED
        BY <4>3, <4>4
    <3>3. CASE NotCanceled(k)
      <4>1. /\ UNCHANGED <<queue, canceled, lease>> /\ worker[k].task \notin canceled[k]
            /\ worker'[k].task = worker[k].task
            /\ worker[k].at = "taken" /\ worker'[k].at = "starting"
        BY <3>3 DEF NotCanceled, shared, server
      <4>2. InWork(k, t)' <=> InWork(k, t)
        BY <4>1 DEF InWork
      <4>3. InWork(k, t) => t \notin canceled[k]
        BY <4>1 DEF InWork
      <4> HIDE DEF TypeOK
      <4> QED
        BY <1>0, <2>0, <2>h, <4>1, <4>2, <4>3, UnitShrinks
    <3>4. CASE setCurrent(k) \/ SendAck(k) \/ Execute(k) \/ TimeOut(k)
      <4>1. /\ UNCHANGED <<queue, canceled, lease>>
            /\ worker'[k].task = worker[k].task
            /\ worker[k].at \notin {"taken", "clearing"}
            /\ worker'[k].at \notin {"taken", "clearing"}
        <5>1. CASE setCurrent(k) \/ SendAck(k) \/ Execute(k)
          BY <5>1 DEF setCurrent, SendAck, Execute, shared, server
        <5>2. CASE TimeOut(k)
          <6>1. worker' = [worker EXCEPT ![k].cut = "timeout"]
            BY <5>2 DEF TimeOut
          <6>2. worker'[k].task = worker[k].task /\ worker'[k].at = worker[k].at
            BY <6>1
          <6> QED
            BY <5>2, <6>2 DEF TimeOut, shared, server
        <5> QED
          BY <3>4, <5>1, <5>2
      <4>2. InWork(k, t)' <=> InWork(k, t)
        BY <4>1 DEF InWork
      <4> HIDE DEF TypeOK
      <4> QED
        BY <1>0, <2>0, <2>h, <4>1, <4>2, UnitShrinks
    <3>5. CASE Report(k)
      <4>1. /\ UNCHANGED <<queue, canceled>> /\ worker[k].at = "reporting"
            /\ worker'[k].at = "clearing"
            /\ lease' = lease \/ (lease' = None /\ lease = worker[k].task /\ k = session)
        BY <1>1, <3>5 DEF Report, shared
      <4>2. ~InWork(k, t)'
        BY <4>1 DEF InWork
      <4>3. lease' = lease \/ t \in over' \/ ~Carries(k, t)'
        <5>1. CASE lease = worker[k].task /\ k = session /\ t \notin over /\ Carries(k, t)
          <6>1. lease = t
            BY <2>0, <5>1 DEF UnitOK
          <6>2. InWork(k, t)
            BY <4>1, <5>1, <6>1 DEF InWork
          <6> QED
            BY <1>0, <2>0, <2>h, <4>1, <4>2, <6>2 DEF UnitOK, OneUnit, Carries
        <5>2. Carries(k, t)' => Carries(k, t)
          BY <1>0, <2>h, <4>1, <4>2 DEF Carries
        <5> QED
          BY <1>0, <4>1, <5>1, <5>2
      <4> HIDE DEF TypeOK
      <4> QED
        BY <1>0, <2>0, <2>h, <4>1, <4>2, <4>3, UnitShrinks
    <3>6. CASE Clear(k) \/ SendFails(k) \/ WorkerExit(k)
      <4>1. /\ UNCHANGED <<queue, canceled, lease>>
            /\ worker'[k].task = None
        BY <3>6 DEF Clear, SendFails, WorkerExit, shared, server, Idle
      <4>2. ~InWork(k, t)'
        BY <2>0, <4>1 DEF InWork
      <4> HIDE DEF TypeOK
      <4> QED
        BY <1>0, <2>0, <2>h, <4>1, <4>2, UnitShrinks
    <3> QED
      BY <3>1, <3>2, <3>3, <3>4, <3>5, <3>6 DEF Work
  <2> QED
    BY <2>1, <2>2
<1> QED
  BY <1>3, <1>4 DEF UnitInv

LEMMA UnitAssign ==
  ASSUME TypeOK, UnitInv, NEW u \in Tasks, Assign(u)
  PROVE  UnitInv'
<1>1. /\ session \in Conns /\ session = conn /\ AssignOf(u) \in Frame /\ u # None
      /\ lease = None /\ u \notin over
  BY ClientAssumption
  DEF Assign, TypeOK, Conns, Frame, AssignOf, UnitInv, ServerInv
<1>2. /\ \A j \in Conns \ {session} : frames'[j] = frames[j]
      /\ \A j \in Conns : \A x : Holds(frames'[j], x) =>
           Holds(frames[j], x) \/ (j = session /\ x = AssignOf(u))
      /\ \A j \in Conns : \A x :
           Once(frames[j], x) /\ (j = session /\ x = AssignOf(u) => ~Holds(frames[j], x)) =>
             Once(frames'[j], x)
  BY <1>1, DeliverHolds DEF Assign, AssignOf
<1>3. /\ UNCHANGED <<conn, held, queue, canceled, worker, session, over, notify, recalled>>
      /\ lease' = u
  BY DEF Assign, conns, shared
<1>4. ServerInv'
  <2>1. \A k \in Conns : k > conn => k # session
    BY <1>1 DEF Conns
  <2> QED
    BY <1>1, <1>2, <1>3, <2>1 DEF UnitInv, ServerInv
<1>5. ASSUME NEW k \in Conns, NEW t \in Tasks PROVE UnitOK(k, t)'
  <2>0. UnitOK(k, t) /\ t # None
    BY ClientAssumption DEF UnitInv
  <2>1. /\ InWork(k, t)' <=> InWork(k, t)
        /\ InHand(k, t)' <=> InHand(k, t)
    BY <1>3 DEF InWork, InHand
  <2>2. k = session => t \in over \/ ~Carries(k, t)
    BY <1>1, <2>0 DEF UnitOK
  <2>3. AssignOf(t) = AssignOf(u) => t = u
    BY DEF AssignOf
  <2>4. CASE k # session
    BY <1>2, <1>3, <2>0, <2>1, <2>4 DEF UnitOK, OneUnit, Recalled, Carries
  <2>5. CASE k = session /\ t # u
    <3>1. /\ Holds(frames'[k], AssignOf(t)) => Holds(frames[k], AssignOf(t))
          /\ Once(frames[k], AssignOf(t)) => Once(frames'[k], AssignOf(t))
      BY <1>2, <2>3, <2>5
    <3>2. t \in over' \/ ~Carries(k, t)'
      BY <1>3, <2>1, <2>2, <2>5, <3>1 DEF Carries
    <3> QED
      BY <1>3, <2>0, <2>1, <3>1, <3>2, UnitShrinks
  <2>6. CASE k = session /\ t = u
    <3>1. ~Carries(k, t) /\ <<k, t>> \notin recalled
      BY <1>1, <2>0, <2>2, <2>6 DEF UnitOK, Recalled
    <3>2. Once(frames'[k], AssignOf(t)) /\ Once(queue[k], t)
      BY <1>2, <2>0, <2>6, <3>1 DEF UnitOK, OneUnit, Carries
    <3>3. OneUnit(k, t)'
      BY <1>3, <2>1, <3>1, <3>2 DEF OneUnit, Carries
    <3> QED
      BY <1>3, <2>6, <3>1, <3>3 DEF UnitOK
  <2> QED
    BY <2>4, <2>5, <2>6
<1> QED
  BY <1>4, <1>5 DEF UnitInv

LEMMA UnitNotify ==
  ASSUME TypeOK, UnitInv, NEW u \in Tasks, NEW n \in Conns, Notify(u, n)
  PROVE  UnitInv'
<1>1. CancelOf(u) \in Frame /\ n <= conn /\ conn \in Nat /\ n \in Nat
  BY ClientAssumption
  DEF Notify, Frame, CancelOf, UnitInv, ServerInv, TypeOK, Conns
<1>2. /\ \A j \in Conns \ {n} : frames'[j] = frames[j]
      /\ \A j \in Conns : \A x : Holds(frames'[j], x) =>
           Holds(frames[j], x) \/ (j = n /\ x = CancelOf(u))
      /\ \A j \in Conns : \A x :
           Once(frames[j], x) /\ (j = n /\ x = CancelOf(u) => ~Holds(frames[j], x)) =>
             Once(frames'[j], x)
  BY <1>1, DeliverHolds DEF Notify, CancelOf
<1>3. /\ UNCHANGED <<conn, held, queue, canceled, worker, session, over, lease, recalled>>
      /\ notify' \subseteq notify
  BY DEF Notify, conns, shared
<1>4. ServerInv'
  <2>1. \A k \in Conns : k > conn => k # n
    BY <1>1 DEF Conns
  <2> QED
    BY <1>2, <1>3, <2>1 DEF UnitInv, ServerInv
<1>5. ASSUME NEW k \in Conns, NEW t \in Tasks PROVE UnitOK(k, t)'
  <2>0. UnitOK(k, t)
    BY DEF UnitInv
  <2>1. /\ InWork(k, t)' <=> InWork(k, t)
        /\ InHand(k, t)' <=> InHand(k, t)
    BY <1>3 DEF InWork, InHand
  <2>2. AssignOf(t) # CancelOf(u)
    BY DEF AssignOf, CancelOf
  <2> QED
    BY <1>2, <1>3, <2>0, <2>1, <2>2, UnitShrinks
<1> QED
  BY <1>4, <1>5 DEF UnitInv

LEMMA UnitServer ==
  ASSUME TypeOK, UnitInv, Server
  PROVE  UnitInv'
<1> USE DEF conns, shared
<1>1. ASSUME NEW u \in Tasks, EndTask(u) PROVE UnitInv'
  <2>1. /\ UNCHANGED <<conn, held, frames, queue, canceled, worker, session, recalled>>
        /\ over' = over \cup {u}
        /\ lease' = IF lease = u THEN None ELSE lease
    BY <1>1 DEF EndTask
  <2>2. \A t \in Tasks, k \in Conns :
          <<t, k>> \in notify' => <<t, k>> \in notify \/ k = session
    BY <1>1 DEF EndTask
  <2>3. ServerInv'
    <3>1. \A k \in Conns : k = session => k <= conn
      BY ClientAssumption DEF UnitInv, ServerInv, TypeOK, Conns
    <3>2. lease' \notin over'
      BY <2>1, ClientAssumption DEF UnitInv, ServerInv, TypeOK
    <3> QED
      BY <2>1, <2>2, <3>1, <3>2 DEF UnitInv, ServerInv
  <2>4. ASSUME NEW k \in Conns, NEW t \in Tasks PROVE UnitOK(k, t)'
    <3>1. UnitOK(k, t)
      BY DEF UnitInv
    <3>2. InHand(k, t)' <=> InHand(k, t)
      BY <2>1 DEF InHand
    <3>3. InWork(k, t)' <=> InWork(k, t)
      BY <2>1 DEF InWork
    <3> QED
      BY <2>1, <3>1, <3>2, <3>3 DEF UnitOK, OneUnit, Recalled, Carries
  <2> QED
    BY <2>3, <2>4 DEF UnitInv
<1>2. CASE Unregister
  <2>1. /\ UNCHANGED <<conn, held, frames, queue, canceled, worker, over, recalled, notify>>
        /\ session' = 0 /\ lease' = None
    BY <1>2 DEF Unregister
  <2>2. ServerInv'
    BY <2>1, ClientAssumption DEF UnitInv, ServerInv, TypeOK
  <2>3. ASSUME NEW k \in Conns, NEW t \in Tasks PROVE UnitOK(k, t)'
    <3>1. UnitOK(k, t) /\ k # 0
      BY ClientAssumption DEF UnitInv, Conns
    <3>2. InHand(k, t)' <=> InHand(k, t)
      BY <2>1 DEF InHand
    <3>3. InWork(k, t)' <=> InWork(k, t)
      BY <2>1 DEF InWork
    <3> QED
      BY <2>1, <3>1, <3>2, <3>3 DEF UnitOK, OneUnit, Recalled, Carries
  <2> QED
    BY <2>2, <2>3 DEF UnitInv
<1> QED
  BY <1>1, <1>2, UnitAssign, UnitNotify DEF Server

LEMMA UnitInit == Init => UnitInv
<1> SUFFICES ASSUME Init PROVE UnitInv
  OBVIOUS
<1>1. ServerInv
  BY ClientAssumption DEF Init, ServerInv
<1>2. ASSUME NEW k \in Conns, NEW t \in Tasks PROVE UnitOK(k, t)
  <2>1. frames[k] = <<>> /\ queue[k] = <<>> /\ ~InHand(k, t) /\ ~InWork(k, t)
    BY ClientAssumption DEF Init, InHand, InWork, Idle
  <2>2. recalled = {}
    BY DEF Init
  <2> QED
    BY <2>1, <2>2, EmptyHolds DEF UnitOK, OneUnit, Carries
<1> QED
  BY <1>1, <1>2 DEF UnitInv

LEMMA UnitStep ==
  TypeOK /\ ConnectionsInOrder /\ CancelInv /\ UnitInv /\ [Next]_vars => UnitInv'
<1> SUFFICES ASSUME TypeOK, ConnectionsInOrder, CancelInv, UnitInv, [Next]_vars
             PROVE  UnitInv'
  OBVIOUS
<1> USE DEF conns, shared, server
<1>1. CASE Break
  <2>1. \A j \in Conns : frames'[j] = frames[j] \/ frames'[j] = <<>>
    BY <1>1 DEF Break, TypeOK
  <2>2. \A j \in Conns : \A x : /\ Holds(frames'[j], x) => Holds(frames[j], x)
                                /\ Once(frames[j], x) => Once(frames'[j], x)
    BY <2>1, EmptyHolds
  <2>3. UNCHANGED <<conn, held, queue, canceled, worker, session, over, lease, notify,
                    recalled>>
    BY <1>1 DEF Break
  <2>4. ServerInv'
    BY <2>1, <2>3 DEF UnitInv, ServerInv
  <2>5. ASSUME NEW k \in Conns, NEW t \in Tasks PROVE UnitOK(k, t)'
    <3>1. UnitOK(k, t)
      BY DEF UnitInv
    <3>2. /\ InWork(k, t)' <=> InWork(k, t)
          /\ InHand(k, t)' <=> InHand(k, t)
      BY <2>3 DEF InWork, InHand
    <3>3. /\ Once(frames[k], AssignOf(t)) => Once(frames'[k], AssignOf(t))
          /\ Holds(frames'[k], AssignOf(t)) => Holds(frames[k], AssignOf(t))
      BY <2>2
    <3> QED
      BY <2>3, <3>1, <3>2, <3>3, UnitShrinks
  <2> QED
    BY <2>4, <2>5 DEF UnitInv
<1>2. CASE Stop
  BY <1>2, UnitFrame DEF Stop
<1>3. ASSUME NEW k \in Conns, Heartbeat(k) PROVE UnitInv'
  BY <1>3, UnitFrame DEF Heartbeat, PingFails, BeatExit
<1>4. CASE UNCHANGED vars
  BY <1>4, UnitFrame DEF vars
<1> QED
  BY <1>1, <1>2, <1>3, <1>4, UnitReader, UnitWork, UnitServer DEF Next

(* A unit whose cancel was read while it was queued is never measured: the *)
(* mark is still there when the worker takes it (connection.go:16-17).     *)
THEOREM QueuedCancelTheorem == Spec => []QueuedCancelHonoured
<1>1. TypeOK /\ CancelInv /\ UnitInv => QueuedCancelHonoured
  <2> SUFFICES ASSUME TypeOK, CancelInv, UnitInv, NEW k \in Conns,
                      <<k, worker[k].task>> \in recalled
               PROVE  worker[k].at \notin {"starting", "acking", "executing"}
    BY DEF QueuedCancelHonoured
  <2>1. worker[k].task \in Tasks
    BY DEF TypeOK
  <2>2. Recalled(k, worker[k].task)
    BY <2>1 DEF UnitInv, UnitOK
  <2> QED
    BY <2>2 DEF Recalled, InWork
<1> QED
  BY <1>1, TypeInit, TypeStep, OrderInit, OrderStep, CancelInit, CancelStep, UnitInit,
     UnitStep, PTL DEF Spec
=============================================================================
