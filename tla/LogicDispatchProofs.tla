------------------------ MODULE LogicDispatchProofs ------------------------
(***************************************************************************)
(* Proofs about LogicDispatch, for any number of workers, sessions and     *)
(* messages: types, no lost wakeup while the server runs, nothing left in  *)
(* the queue of a worker that ended.                                       *)
(***************************************************************************)
EXTENDS LogicDispatch, SequenceTheorems, TLAPS

(* An IO thread inside PostMsgToQue holds the map and knows its worker.    *)
PostInv == \A s \in Sessions :
             io[s] \in {"push", "notify"} => mapOwner = s /\ bound[s] \in Workers /\ ~ioStopped

(* A message is counted as read before it is pushed. *)
CountInv == \A s \in Sessions :
              /\ accepted[s] <= posted[s]
              /\ io[s] = "push" => accepted[s] < posted[s]

(* A worker keeps _mutex while it falls asleep and while it drains; it     *)
(* falls asleep on an empty queue, and it ends only after shutdown began.  *)
WorkerInv == \A w \in Workers :
               /\ mutex[w] <=> worker[w] \in {"sleep", "drain"}
               /\ worker[w] = "sleep" => queue[w] = <<>>
               /\ worker[w] = "handle" => hand[w] \in Message
               /\ worker[w] \in {"drain", "exited"} => stop[w]
               /\ stop[w] => ioStopped

(* The inductive invariant. *)
DInv == TypeOK /\ PostInv /\ CountInv /\ WorkerInv /\ NoLostWakeup /\ DrainedOnExit

LEMMA InitD == Init => DInv
<1>. SUFFICES ASSUME Init PROVE DInv
  OBVIOUS
<1>. USE DispatchAssumption DEF Init
<1>1. /\ nextWorker \in Nat /\ 0 \in 0 .. MaxMsgs
      /\ queue \in [Workers -> Seq(Message)]
      /\ handled \in [Sessions -> Seq(1 .. MaxMsgs)]
  BY EmptySeq
<1>3. TypeOK
  BY <1>1 DEF TypeOK
<1>2. PostInv /\ CountInv /\ WorkerInv /\ NoLostWakeup /\ DrainedOnExit
  BY DEF PostInv, CountInv, WorkerInv, NoLostWakeup, DrainedOnExit
<1>. QED  BY <1>2, <1>3 DEF DInv

----------------------------------------------------------------------------
(* IO threads. *)

LEMMA BindD == ASSUME DInv, NEW s \in Sessions, BindSession(s) PROVE DInv'
<1>. USE DispatchAssumption DEF DInv, BindSession, mainVars
<1>1. BoundTo(nextWorker) \in Workers
  BY DEF BoundTo, Workers, TypeOK
<1>2. TypeOK'
  BY <1>1 DEF TypeOK
<1>3. PostInv' /\ CountInv' /\ WorkerInv'
  BY <1>1 DEF TypeOK, PostInv, CountInv, WorkerInv
<1>4. NoLostWakeup' /\ DrainedOnExit'
  BY DEF TypeOK, NoLostWakeup, DrainedOnExit
<1>. QED  BY <1>2, <1>3, <1>4

LEMMA PostD == ASSUME DInv, NEW s \in Sessions, PostMsgToQue(s) PROVE DInv'
<1>. USE DispatchAssumption DEF DInv, PostMsgToQue, mainVars
<1>1. TypeOK'
  BY DEF TypeOK
<1>2. PostInv' /\ CountInv' /\ WorkerInv'
  BY DEF TypeOK, PostInv, CountInv, WorkerInv
<1>3. NoLostWakeup' /\ DrainedOnExit'
  BY DEF TypeOK, NoLostWakeup, DrainedOnExit
<1>. QED  BY <1>1, <1>2, <1>3

LEMMA PushD == ASSUME DInv, NEW s \in Sessions, PushTask(s) PROVE DInv'
<1>. USE DispatchAssumption DEF DInv
<1>. DEFINE w == bound[s]
            m == [session |-> s, number |-> posted[s]]
<1>0. io[s] = "push" /\ ~mutex[w]
  BY DEF PushTask
<1>a. /\ w \in Workers /\ mapOwner = s /\ ~ioStopped
      /\ queue[w] \in Seq(Message)
  BY <1>0 DEF TypeOK, PostInv
<1>b. /\ posted[s] \in 1 .. MaxMsgs
      /\ accepted[s] + 1 \in 0 .. MaxMsgs /\ accepted[s] + 1 <= posted[s]
  <2>1. posted[s] \in 0 .. MaxMsgs /\ accepted[s] \in 0 .. MaxMsgs /\ accepted[s] < posted[s]
    BY <1>0 DEF TypeOK, CountInv
  <2>. QED  BY <2>1
<1>1. /\ w \in Workers /\ mapOwner = s /\ io[s] = "push" /\ ~mutex[w] /\ ~ioStopped
      /\ m \in Message /\ queue[w] \in Seq(Message)
      /\ accepted[s] + 1 \in 0 .. MaxMsgs /\ accepted[s] + 1 <= posted[s]
  BY <1>0, <1>a, <1>b DEF Message
<1>. DEFINE q == Append(queue[w], m)
<1>2. q \in Seq(Message) /\ q # <<>> /\ Len(q) = Len(queue[w]) + 1
  BY <1>1, AppendProperties
<1>3. /\ queue' = [queue EXCEPT ![w] = q]
      /\ accepted' = [accepted EXCEPT ![s] = @ + 1]
      /\ \/ IsFirst(q) /\ io' = [io EXCEPT ![s] = "notify"] /\ UNCHANGED mapOwner
         \/ ~IsFirst(q) /\ io' = [io EXCEPT ![s] = "read"] /\ mapOwner' = None
      /\ UNCHANGED <<bound, nextWorker, posted, mutex, worker, hand, handled, mainVars>>
  BY DEF PushTask
<1>. HIDE DEF q, m
<1>4. TypeOK'
  BY <1>1, <1>2, <1>3 DEF TypeOK, mainVars
<1>5. PostInv' /\ CountInv'
  BY <1>1, <1>3 DEF TypeOK, PostInv, CountInv, mainVars
<1>6. WorkerInv'
  BY <1>1, <1>3 DEF TypeOK, WorkerInv, mainVars
<1>7. NoLostWakeup'
  <2>. SUFFICES ASSUME NEW v \in Workers, worker[v] = "waiting", queue'[v] # <<>>
                PROVE  \E t \in Sessions : io'[t] = "notify" /\ bound[t] = v
    BY <1>3 DEF NoLostWakeup
  <2>1. CASE v # w
    (* s holds the map, so no other IO thread is about to notify. *)
    <3>1. queue[v] # <<>>
      BY <1>1, <1>3, <2>1 DEF TypeOK
    <3>2. PICK t \in Sessions : io[t] = "notify" /\ bound[t] = v
      BY <3>1 DEF NoLostWakeup
    <3>. QED  BY <1>1, <3>2 DEF PostInv
  <2>2. CASE v = w /\ queue[w] = <<>>
    <3>1. IsFirst(q)
      BY <1>2, <2>2 DEF IsFirst
    <3>. QED  BY <1>1, <1>3, <2>2, <3>1 DEF TypeOK
  <2>3. CASE v = w /\ queue[w] # <<>>
    <3>1. PICK t \in Sessions : io[t] = "notify" /\ bound[t] = w
      BY <2>3 DEF NoLostWakeup
    <3>. QED  BY <1>1, <3>1 DEF PostInv
  <2>. QED  BY <2>1, <2>2, <2>3
<1>8. DrainedOnExit'
  BY <1>1, <1>3 DEF TypeOK, DrainedOnExit, WorkerInv, mainVars
<1>. QED  BY <1>4, <1>5, <1>6, <1>7, <1>8

LEMMA NotifyD == ASSUME DInv, NEW s \in Sessions, NotifyTask(s) PROVE DInv'
<1>. USE DispatchAssumption DEF DInv, NotifyTask, Woken, mainVars
<1>1. bound[s] \in Workers /\ mapOwner = s
  BY DEF PostInv
<1>2. TypeOK'
  BY <1>1 DEF TypeOK
<1>3. PostInv' /\ CountInv' /\ WorkerInv' /\ DrainedOnExit'
  BY <1>1 DEF TypeOK, PostInv, CountInv, WorkerInv, DrainedOnExit
<1>4. NoLostWakeup'
  <2>. SUFFICES ASSUME NEW v \in Workers, worker'[v] = "waiting", queue[v] # <<>>
                PROVE  FALSE
    BY DEF NoLostWakeup
  <2>1. v # bound[s] /\ worker[v] = "waiting"
    BY <1>1 DEF TypeOK
  <2>2. PICK t \in Sessions : io[t] = "notify" /\ bound[t] = v
    BY <2>1 DEF NoLostWakeup
  <2>. QED  BY <1>1, <2>1, <2>2 DEF PostInv
<1>. QED  BY <1>2, <1>3, <1>4

LEMMA UnbindD == ASSUME DInv, NEW s \in Sessions, UnbindSession(s) PROVE DInv'
<1>. USE DispatchAssumption DEF DInv, UnbindSession, mainVars
<1>1. TypeOK'
  BY DEF TypeOK
<1>2. PostInv' /\ CountInv' /\ WorkerInv'
  BY DEF TypeOK, PostInv, CountInv, WorkerInv
<1>3. NoLostWakeup' /\ DrainedOnExit'
  BY DEF TypeOK, NoLostWakeup, DrainedOnExit
<1>. QED  BY <1>1, <1>2, <1>3

----------------------------------------------------------------------------
(* Worker threads. *)

LEMMA TailSeq == ASSUME NEW q \in Seq(Message), q # <<>>
                 PROVE  Head(q) \in Message /\ Tail(q) \in Seq(Message)
BY HeadTailProperties

LEMMA RunType == ASSUME TypeOK, NEW m \in Message, Run(m)
                 PROVE  handled' \in [Sessions -> Seq(1 .. MaxMsgs)]
<1>1. m.session \in Sessions /\ m.number \in 1 .. MaxMsgs
  BY DEF Message
<1>2. Append(handled[m.session], m.number) \in Seq(1 .. MaxMsgs)
  BY <1>1, AppendProperties DEF TypeOK
<1>. QED  BY <1>1, <1>2 DEF Run, TypeOK

LEMMA WorkerD == ASSUME DInv, NEW w \in Workers, WorkerStep(w) \/ SpuriousWakeup(w) PROVE DInv'
<1>. USE DispatchAssumption DEF DInv
<1>0. queue[w] \in Seq(Message)
  BY DEF TypeOK
<1>1. CASE Decide(w)
  BY <1>1 DEF Decide, MustWait, ioVars, mainVars, TypeOK, PostInv, CountInv, WorkerInv,
              NoLostWakeup, DrainedOnExit
<1>2. CASE Sleep(w)
  BY <1>2 DEF Sleep, ioVars, mainVars, TypeOK, PostInv, CountInv, WorkerInv,
              NoLostWakeup, DrainedOnExit
<1>3. CASE SpuriousWakeup(w)
  BY <1>3 DEF SpuriousWakeup, Woken, ioVars, mainVars, TypeOK, PostInv, CountInv, WorkerInv,
              NoLostWakeup, DrainedOnExit
<1>4. CASE Take(w)
  <2>1. NextMsg(queue[w]) \in Message /\ Tail(queue[w]) \in Seq(Message)
    BY <1>0, <1>4, TailSeq DEF Take, NextMsg
  <2>2. TypeOK'
    BY <1>4, <2>1 DEF Take, TypeOK, ioVars, mainVars
  <2>3. PostInv' /\ CountInv' /\ WorkerInv'
    BY <1>4, <2>1 DEF Take, TypeOK, PostInv, CountInv, WorkerInv, ioVars, mainVars
  <2>4. NoLostWakeup' /\ DrainedOnExit'
    BY <1>4 DEF Take, TypeOK, NoLostWakeup, DrainedOnExit, ioVars, mainVars
  <2>. QED  BY <2>2, <2>3, <2>4
<1>5. CASE Handle(w)
  <2>1. handled' \in [Sessions -> Seq(1 .. MaxMsgs)]
    BY <1>5, RunType DEF Handle, WorkerInv
  <2>2. TypeOK'
    BY <1>5, <2>1 DEF Handle, TypeOK, ioVars, mainVars
  <2>3. PostInv' /\ CountInv' /\ WorkerInv'
    BY <1>5 DEF Handle, TypeOK, PostInv, CountInv, WorkerInv, ioVars, mainVars
  <2>4. NoLostWakeup' /\ DrainedOnExit'
    BY <1>5 DEF Handle, TypeOK, NoLostWakeup, DrainedOnExit, ioVars, mainVars
  <2>. QED  BY <2>2, <2>3, <2>4
<1>6. CASE StartDrain(w)
  BY <1>6 DEF StartDrain, ioVars, mainVars, TypeOK, PostInv, CountInv, WorkerInv,
              NoLostWakeup, DrainedOnExit
<1>7. CASE Drain(w)
  <2>1. Head(queue[w]) \in Message /\ Tail(queue[w]) \in Seq(Message)
    BY <1>0, <1>7, TailSeq DEF Drain
  <2>2. handled' \in [Sessions -> Seq(1 .. MaxMsgs)]
    BY <1>7, <2>1, RunType DEF Drain
  <2>3. TypeOK'
    BY <1>7, <2>1, <2>2 DEF Drain, TypeOK, ioVars, mainVars
  <2>4. PostInv' /\ CountInv' /\ WorkerInv'
    BY <1>7 DEF Drain, TypeOK, PostInv, CountInv, WorkerInv, ioVars, mainVars
  <2>5. NoLostWakeup' /\ DrainedOnExit'
    BY <1>7 DEF Drain, TypeOK, NoLostWakeup, DrainedOnExit, ioVars, mainVars
  <2>. QED  BY <2>3, <2>4, <2>5
<1>8. CASE Exit(w)
  BY <1>8 DEF Exit, Drained, ioVars, mainVars, TypeOK, PostInv, CountInv, WorkerInv,
              NoLostWakeup, DrainedOnExit
<1>. QED  BY <1>1, <1>2, <1>3, <1>4, <1>5, <1>6, <1>7, <1>8 DEF WorkerStep

----------------------------------------------------------------------------
(* The main thread. *)

LEMMA MainD == ASSUME DInv, StopIo \/ \E w \in Workers : DtorStep(w) PROVE DInv'
<1>. USE DispatchAssumption DEF DInv
<1>1. CASE StopIo
  BY <1>1 DEF StopIo, ioVars, TypeOK, PostInv, CountInv, WorkerInv, NoLostWakeup, DrainedOnExit
<1>2. ASSUME NEW w \in Workers, RequestStop(w) PROVE DInv'
  BY <1>2 DEF RequestStop, ioVars, TypeOK, PostInv, CountInv, WorkerInv, NoLostWakeup, DrainedOnExit
<1>3. ASSUME NEW w \in Workers, NotifyStop(w) PROVE DInv'
  BY <1>3 DEF NotifyStop, Woken, ioVars, TypeOK, PostInv, CountInv, WorkerInv, NoLostWakeup,
              DrainedOnExit
<1>4. ASSUME NEW w \in Workers, Join(w) PROVE DInv'
  BY <1>4 DEF Join, ioVars, TypeOK, PostInv, CountInv, WorkerInv, NoLostWakeup, DrainedOnExit
<1>. QED  BY <1>1, <1>2, <1>3, <1>4 DEF DtorStep

LEMMA StutterD == ASSUME DInv, UNCHANGED vars PROVE DInv'
BY DEF vars, ioVars, mainVars, DInv, TypeOK, PostInv, CountInv, WorkerInv, NoLostWakeup,
       DrainedOnExit

LEMMA NextD == DInv /\ [Next]_vars => DInv'
<1>1. ASSUME DInv, Ended PROVE DInv'
  BY <1>1, StutterD DEF Ended
<1>. QED  BY <1>1, BindD, PostD, PushD, NotifyD, UnbindD, WorkerD, MainD, StutterD DEF Next, IoStep

----------------------------------------------------------------------------
(* The inductive invariant of the dispatch holds in every reachable state. *)
THEOREM DispatchInvariant == Spec => []DInv
BY InitD, NextD, PTL DEF Spec

(* Every variable keeps its type. *)
THEOREM DispatchTypeOK == Spec => []TypeOK
<1>1. DInv => TypeOK
  BY DEF DInv
<1>. QED  BY <1>1, DispatchInvariant, PTL

(* PostTask may notify for the first message only: no worker ever sleeps   *)
(* on a non-empty queue without a notify on its way.                       *)
THEOREM DispatchNoLostWakeup == Spec => []NoLostWakeup
<1>1. DInv => NoLostWakeup
  BY DEF DInv
<1>. QED  BY <1>1, DispatchInvariant, PTL

(* A worker thread that has ended leaves no message behind.                *)
THEOREM DispatchDrainedOnExit == Spec => []DrainedOnExit
<1>1. DInv => DrainedOnExit
  BY DEF DInv
<1>. QED  BY <1>1, DispatchInvariant, PTL

----------------------------------------------------------------------------
(* Order.  What is posted next is the message after the last one accepted, *)
(* as a session that was unbound is never bound again; and the messages of *)
(* a bound session are with its worker.                                    *)
PostedInv == \A s \in Sessions :
  /\ io[s] = "new" => accepted[s] = 0 /\ posted[s] = 0 /\ bound[s] = None
  /\ io[s] \in {"read", "notify"} /\ bound[s] # None => accepted[s] = posted[s]
  /\ io[s] = "push" => posted[s] = accepted[s] + 1

PlacedInv == \A s \in Sessions : bound[s] # None =>
  \A w \in Workers : \A i \in Slots(w) : At(w, i).session = s => w = bound[s]

OInv == PostedInv /\ PlacedInv /\ InOrder

(* What is in a slot is a message. *)
LEMMA SlotL == ASSUME DInv, NEW w \in Workers, NEW i \in Slots(w)
               PROVE  /\ i \in Nat /\ At(w, i) \in Message
                      /\ At(w, i).session \in Sessions /\ At(w, i).number \in Nat
<1>1. i \in Nat
  BY DEF Slots
<1>2. At(w, i) \in Message
  BY <1>1 DEF Slots, At, DInv, TypeOK, WorkerInv
<1>. QED  BY <1>1, <1>2 DEF Message

LEMMA LenL == ASSUME DInv, NEW s \in Sessions
              PROVE  /\ handled[s] \in Seq(Nat) /\ Len(handled[s]) \in Nat
                     /\ accepted[s] \in Nat /\ posted[s] \in Nat
BY DispatchAssumption DEF DInv, TypeOK

(* A message accepted and not handled yet waits somewhere. *)
LEMMA WaitsL == ASSUME InOrder, NEW s \in Sessions, NEW n \in Len(handled[s]) + 1 .. accepted[s]
                PROVE  \E w \in Workers : \E i \in Slots(w) :
                         At(w, i).session = s /\ At(w, i).number = n
BY DEF InOrder

LEMMA InitO == Init => OInv
<1>. SUFFICES ASSUME Init PROVE OInv
  OBVIOUS
<1>1. \A w \in Workers : Slots(w) = {}
  BY DEF Init, Slots
<1>2. PostedInv
  BY DEF Init, PostedInv
<1>3. PlacedInv
  BY <1>1 DEF PlacedInv
<1>4. InOrder
  <2>1. \A s \in Sessions : handled[s] = <<>> /\ accepted[s] = 0 /\ Len(handled[s]) = 0
    BY DEF Init
  <2>. QED  BY <1>1, <2>1 DEF InOrder
<1>. QED  BY <1>2, <1>3, <1>4 DEF OInv

(* The slots of each worker move up by d and nothing else happens. *)
LEMMA KeptO ==
  ASSUME DInv, InOrder, PlacedInv, UNCHANGED <<handled, accepted>>,
         NEW d \in [Workers -> Nat],
         \A v \in Workers : \A i \in Slots(v)' :
           i + d[v] \in Slots(v) /\ At(v, i)' = At(v, i + d[v]),
         \A v \in Workers : \A j \in Slots(v) : \E i \in Slots(v)' : i + d[v] = j,
         \A v \in Workers : \A i \in Slots(v)' : i \in Nat
  PROVE  /\ InOrder'
         /\ (\A s \in Sessions : bound'[s] # None => bound[s] = bound'[s]) => PlacedInv'
<1>1. ASSUME NEW s \in Sessions, NEW n \in Len(handled[s]) + 1 .. accepted[s]
      PROVE  \E w \in Workers : \E i \in Slots(w)' : At(w, i)'.session = s /\ At(w, i)'.number = n
  <2>p. PICK w \in Workers : \E j \in Slots(w) : At(w, j).session = s /\ At(w, j).number = n
    BY <1>1 DEF InOrder
  <2>1. PICK j \in Slots(w) : At(w, j).session = s /\ At(w, j).number = n
    BY <2>p
  <2>2. PICK i \in Slots(w)' : i + d[w] = j
    OBVIOUS
  <2>. QED  BY <2>1, <2>2
<1>2. ASSUME NEW s \in Sessions, NEW v \in Workers, NEW w \in Workers,
             NEW i \in Slots(v)', NEW j \in Slots(w)', At(v, i)'.session = s, At(w, j)'.session = s
      PROVE  /\ v = w /\ At(v, i)'.number \in Len(handled[s]) + 1 .. accepted[s]
             /\ i < j => At(v, i)'.number < At(w, j)'.number
  <2>1. /\ i + d[v] \in Slots(v) /\ At(v, i)' = At(v, i + d[v])
        /\ j + d[w] \in Slots(w) /\ At(w, j)' = At(w, j + d[w])
    OBVIOUS
  <2>2. /\ v = w /\ At(v, i + d[v]).number \in Len(handled[s]) + 1 .. accepted[s]
        /\ i + d[v] < j + d[w] => At(v, i + d[v]).number < At(w, j + d[w]).number
    BY <1>2, <2>1 DEF InOrder
  <2>3. v = w /\ i < j => i + d[v] < j + d[w]
    <3>1. i \in Nat /\ j \in Nat /\ d[v] \in Nat /\ d[w] \in Nat
      OBVIOUS
    <3>. QED  BY <3>1
  <2>. QED  BY <2>1, <2>2, <2>3
<1>3. InOrder'
  BY <1>1, <1>2 DEF InOrder
<1>4. ASSUME \A s \in Sessions : bound'[s] # None => bound[s] = bound'[s] PROVE PlacedInv'
  BY <1>4 DEF PlacedInv
<1>. QED  BY <1>3, <1>4

(* The slots stay where they are. *)
LEMMA SameO ==
  ASSUME DInv, InOrder, PlacedInv, UNCHANGED <<handled, accepted, queue, hand>>,
         \A v \in Workers : worker'[v] = "handle" <=> worker[v] = "handle"
  PROVE  /\ InOrder'
         /\ (\A s \in Sessions : bound'[s] # None => bound[s] = bound'[s]) => PlacedInv'
<1>. DEFINE d == [v \in Workers |-> 0]
<1>1. d \in [Workers -> Nat]
  OBVIOUS
<1>2. \A v \in Workers : Slots(v)' = Slots(v)
  BY DEF Slots
<1>3. \A v \in Workers : \A i \in Slots(v) : i \in Nat /\ i + d[v] = i
  BY DEF Slots
<1>4. \A v \in Workers : \A i \in Slots(v) : At(v, i)' = At(v, i)
  BY DEF At
<1>. HIDE DEF d
<1>5. \A v \in Workers : \A i \in Slots(v)' :
        i + d[v] \in Slots(v) /\ At(v, i)' = At(v, i + d[v])
  BY <1>2, <1>3, <1>4
<1>6. \A v \in Workers : \A j \in Slots(v) : \E i \in Slots(v)' : i + d[v] = j
  BY <1>2, <1>3
<1>7. \A v \in Workers : \A i \in Slots(v)' : i \in Nat
  BY <1>2, <1>3
<1>. QED  BY <1>1, <1>5, <1>6, <1>7, KeptO

(* The first message of a worker is handled: it is the next of its session.*)
LEMMA HandledO ==
  ASSUME DInv, InOrder, PlacedInv, UNCHANGED <<accepted, bound>>,
         NEW w \in Workers, NEW k \in Slots(w), Run(At(w, k)),
         \A j \in Slots(w) : k <= j,
         NEW d \in [Workers -> Nat],
         \A v \in Workers : \A i \in Slots(v)' :
           /\ i \in Nat /\ i + d[v] \in Slots(v) /\ At(v, i)' = At(v, i + d[v])
           /\ v = w => i + d[v] # k,
         \A v \in Workers : \A j \in Slots(v) :
           (v = w /\ j = k) \/ \E i \in Slots(v)' : i + d[v] = j
  PROVE  InOrder' /\ PlacedInv'
<1>. DEFINE m == At(w, k)
            t == m.session
            n == Len(handled[t]) + 1
<1>1. /\ m \in Message /\ t \in Sessions /\ m.number \in Nat /\ k \in Nat
      /\ handled[t] \in Seq(Nat) /\ Len(handled[t]) \in Nat /\ accepted[t] \in Nat
  BY SlotL, LenL
<1>2. m.number \in n .. accepted[t]
  BY <1>1 DEF InOrder
<1>3. m.number = n
  <2>1. n \in Nat /\ n \in Len(handled[t]) + 1 .. accepted[t]
    BY <1>1, <1>2
  <2>2. \E v \in Workers : \E j \in Slots(v) : At(v, j).session = t /\ At(v, j).number = n
    <3>. HIDE DEF m, t, n
    <3>. QED  BY <1>1, <2>1, WaitsL
  <2>3. PICK v \in Workers : \E j \in Slots(v) : At(v, j).session = t /\ At(v, j).number = n
    BY <2>2
  <2>4. PICK j \in Slots(v) : At(v, j).session = t /\ At(v, j).number = n
    BY <2>3
  <2>. HIDE DEF n
  <2>5. v = w /\ (k < j => m.number < n)
    BY <1>1, <2>4 DEF InOrder
  <2>6. k = j \/ k < j
    <3>1. j \in Nat /\ k <= j
      BY <2>4, <2>5, SlotL
    <3>. QED  BY <1>1, <3>1
  <2>7. CASE k = j
    BY <2>4, <2>5, <2>7
  <2>8. CASE k < j
    <3>1. m.number < n /\ m.number >= n
      BY <1>1, <1>2, <2>1, <2>5, <2>8
    <3>. QED  BY <1>1, <2>1, <3>1
  <2>. QED  BY <2>6, <2>7, <2>8
<1>4. /\ handled'[t] = Append(handled[t], n) /\ Len(handled'[t]) = n
      /\ \A s \in Sessions : s # t => handled'[s] = handled[s]
  <2>1. handled' = [handled EXCEPT ![t] = Append(@, m.number)]
    BY DEF Run
  <2>2. handled \in [Sessions -> Seq(1 .. MaxMsgs)]
    BY DEF DInv, TypeOK
  <2>. HIDE DEF m, t, n
  <2>3. Len(Append(handled[t], n)) = Len(handled[t]) + 1
    BY <1>1, AppendProperties
  <2>. QED  BY <1>1, <1>3, <2>1, <2>2, <2>3 DEF n
<1>. HIDE DEF m, t, n
<1>5. ASSUME NEW s \in Sessions
      PROVE  /\ Len(handled'[s]) <= accepted[s]
             /\ \A i \in 1 .. Len(handled'[s]) : handled'[s][i] = i
  <2>1. /\ Len(handled[s]) <= accepted[s]
        /\ \A i \in 1 .. Len(handled[s]) : handled[s][i] = i
    BY DEF InOrder
  <2>2. CASE s = t
    <3>1. n <= accepted[t]
      BY <1>1, <1>2, <1>3 DEF n
    <3>2. \A i \in 1 .. n : handled'[t][i] = i
      <4>1. n \in Nat /\ n = Len(handled[t]) + 1
        BY <1>1 DEF n
      <4>. QED  BY <1>1, <1>4, <2>1, <2>2, <4>1, AppendProperties
    <3>. QED  BY <1>4, <2>2, <3>1, <3>2
  <2>3. CASE s # t
    BY <1>4, <2>1, <2>3
  <2>. QED  BY <2>2, <2>3
<1>6. ASSUME NEW s \in Sessions, NEW l \in Len(handled'[s]) + 1 .. accepted[s]
      PROVE  \E v \in Workers : \E i \in Slots(v)' : At(v, i)'.session = s /\ At(v, i)'.number = l
  <2>1. l \in Len(handled[s]) + 1 .. accepted[s] /\ (s = t => l # n)
    BY <1>1, <1>4, <1>6, LenL DEF n
  <2>p. PICK v \in Workers : \E j \in Slots(v) : At(v, j).session = s /\ At(v, j).number = l
    BY <2>1 DEF InOrder
  <2>2. PICK j \in Slots(v) : At(v, j).session = s /\ At(v, j).number = l
    BY <2>p
  <2>3. ~(v = w /\ j = k)
    BY <1>3, <2>1, <2>2 DEF m, t
  <2>4. PICK i \in Slots(v)' : i + d[v] = j
    BY <2>3
  <2>. QED  BY <2>2, <2>4
<1>7. ASSUME NEW s \in Sessions, NEW u \in Workers, NEW v \in Workers,
             NEW i \in Slots(u)', NEW j \in Slots(v)', At(u, i)'.session = s, At(v, j)'.session = s
      PROVE  /\ u = v /\ At(u, i)'.number \in Len(handled'[s]) + 1 .. accepted[s]
             /\ i < j => At(u, i)'.number < At(v, j)'.number
  <2>1. /\ i + d[u] \in Slots(u) /\ At(u, i)' = At(u, i + d[u])
        /\ j + d[v] \in Slots(v) /\ At(v, j)' = At(v, j + d[v])
        /\ u = w => i + d[u] # k
    OBVIOUS
  <2>2. /\ u = v /\ At(u, i + d[u]).number \in Len(handled[s]) + 1 .. accepted[s]
        /\ i + d[u] < j + d[v] => At(u, i + d[u]).number < At(v, j + d[v]).number
    BY <1>7, <2>1 DEF InOrder
  <2>3. u = v /\ i < j => i + d[u] < j + d[v]
    <3>1. i \in Nat /\ j \in Nat /\ d[u] \in Nat /\ d[v] \in Nat
      OBVIOUS
    <3>. QED  BY <3>1
  <2>4. At(u, i + d[u]).number \in Len(handled'[s]) + 1 .. accepted[s]
    <3>1. CASE s # t
      BY <1>4, <2>2, <3>1
    <3>2. CASE s = t
      <4>1. u = w
        BY <1>1, <1>7, <2>1, <3>2 DEF InOrder, m, t
      <4>2. k < i + d[u]
        <5>1. k <= i + d[u] /\ i + d[u] # k /\ i + d[u] \in Nat
          BY <2>1, <4>1, SlotL
        <5>. QED  BY <1>1, <5>1
      <4>3. n < At(u, i + d[u]).number
        BY <1>3, <1>7, <2>1, <3>2, <4>1, <4>2 DEF InOrder, m, t
      <4>. QED  BY <1>1, <1>4, <2>2, <3>2, <4>3 DEF n
    <3>. QED  BY <3>1, <3>2
  <2>. QED  BY <2>1, <2>2, <2>3, <2>4
<1>8. InOrder'
  BY <1>5, <1>6, <1>7 DEF InOrder
<1>9. PlacedInv'
  BY DEF PlacedInv
<1>. QED  BY <1>8, <1>9

LEMMA TakeO == ASSUME DInv, OInv, NEW w \in Workers, Take(w) PROVE InOrder' /\ PlacedInv'
<1>. DEFINE d == [v \in Workers |-> IF v = w THEN 1 ELSE 0]
<1>1. d \in [Workers -> Nat] /\ d[w] = 1 /\ \A v \in Workers \ {w} : d[v] = 0
  OBVIOUS
<1>. HIDE DEF d
<1>2. /\ queue[w] \in Seq(Message) /\ queue[w] # <<>> /\ worker[w] = "lock"
      /\ hand' = [hand EXCEPT ![w] = Head(queue[w])]
      /\ queue' = [queue EXCEPT ![w] = Tail(queue[w])]
      /\ worker' = [worker EXCEPT ![w] = "handle"]
      /\ hand \in [Workers -> Message \cup {None}] /\ queue \in [Workers -> Seq(Message)]
      /\ worker \in [Workers -> {"lock", "sleep", "waiting", "handle", "drain", "exited"}]
      /\ UNCHANGED <<handled, accepted, bound>>
  BY DEF Take, NextMsg, DInv, TypeOK, ioVars
<1>3. Slots(w) = 1 .. Len(queue[w]) /\ Len(queue[w]) \in Nat
  BY <1>2 DEF Slots
<1>4. Slots(w)' = 0 .. Len(queue[w]) - 1
  <2>1. worker'[w] = "handle" /\ queue'[w] = Tail(queue[w]) /\ Len(Tail(queue[w])) = Len(queue[w]) - 1
    BY <1>2, HeadTailProperties
  <2>. QED  BY <2>1 DEF Slots
<1>5. \A i \in Slots(w)' : At(w, i)' = At(w, i + 1)
  <2>. SUFFICES ASSUME NEW i \in 0 .. Len(queue[w]) - 1 PROVE At(w, i)' = At(w, i + 1)
    BY <1>4
  <2>1. CASE i = 0
    BY <1>2, <2>1, HeadTailProperties DEF At
  <2>2. CASE i # 0
    <3>1. i \in 1 .. Len(Tail(queue[w])) /\ i + 1 # 0
      BY <1>2, <1>3, <2>2, HeadTailProperties
    <3>2. Tail(queue[w])[i] = queue[w][i + 1]
      BY <1>2, <3>1, HeadTailProperties
    <3>. QED  BY <1>2, <2>2, <3>1, <3>2 DEF At
  <2>. QED  BY <2>1, <2>2
<1>6. ASSUME NEW v \in Workers, v # w
      PROVE  Slots(v)' = Slots(v) /\ \A i \in Slots(v) : At(v, i)' = At(v, i) /\ i \in Nat
  BY <1>2, <1>6 DEF Slots, At
<1>7. ASSUME NEW v \in Workers
      PROVE  /\ \A i \in Slots(v)' : i + d[v] \in Slots(v) /\ At(v, i)' = At(v, i + d[v]) /\ i \in Nat
             /\ \A j \in Slots(v) : \E i \in Slots(v)' : i + d[v] = j
  <2>1. CASE v = w
    <3>1. \A i \in Slots(w)' : i + 1 \in Slots(w) /\ i \in Nat
      BY <1>3, <1>4
    <3>2. ASSUME NEW j \in Slots(w) PROVE j - 1 \in Slots(w)' /\ j - 1 + 1 = j
      BY <1>3, <1>4, <3>2
    <3>. QED  BY <1>1, <1>5, <2>1, <3>1, <3>2
  <2>2. CASE v # w
    BY <1>1, <1>6, <2>2
  <2>. QED  BY <2>1, <2>2
<1>. QED  BY <1>1, <1>2, <1>7, KeptO DEF OInv

LEMMA HandleO == ASSUME DInv, OInv, NEW w \in Workers, Handle(w) PROVE InOrder' /\ PlacedInv'
<1>. DEFINE d == [v \in Workers |-> 0]
<1>1. d \in [Workers -> Nat] /\ \A v \in Workers : d[v] = 0
  OBVIOUS
<1>. HIDE DEF d
<1>2. /\ worker[w] = "handle" /\ worker' = [worker EXCEPT ![w] = "lock"]
      /\ hand' = [hand EXCEPT ![w] = None] /\ Run(hand[w])
      /\ hand \in [Workers -> Message \cup {None}] /\ queue \in [Workers -> Seq(Message)]
      /\ worker \in [Workers -> {"lock", "sleep", "waiting", "handle", "drain", "exited"}]
      /\ UNCHANGED <<accepted, bound, queue>>
  BY DEF Handle, DInv, TypeOK, ioVars
<1>3. 0 \in Slots(w) /\ At(w, 0) = hand[w] /\ \A j \in Slots(w) : 0 <= j
  BY <1>2 DEF Slots, At
<1>4. \A v \in Workers : Slots(v)' = IF v = w THEN Slots(v) \ {0} ELSE Slots(v)
  BY <1>2 DEF Slots
<1>5. \A v \in Workers : \A i \in Slots(v)' : i \in Nat /\ i + d[v] = i /\ At(v, i)' = At(v, i)
  BY <1>1, <1>2, <1>4 DEF Slots, At
<1>6. \A v \in Workers : \A i \in Slots(v)' :
        /\ i \in Nat /\ i + d[v] \in Slots(v) /\ At(v, i)' = At(v, i + d[v])
        /\ v = w => i + d[v] # 0
  BY <1>4, <1>5
<1>7. \A v \in Workers : \A j \in Slots(v) :
        (v = w /\ j = 0) \/ \E i \in Slots(v)' : i + d[v] = j
  BY <1>4, <1>5
<1>8. Run(At(w, 0)) /\ UNCHANGED <<accepted, bound>> /\ InOrder /\ PlacedInv
  BY <1>2, <1>3 DEF OInv
<1>. QED  BY <1>1, <1>3, <1>6, <1>7, <1>8, HandledO

LEMMA DrainO == ASSUME DInv, OInv, NEW w \in Workers, Drain(w) PROVE InOrder' /\ PlacedInv'
<1>. DEFINE d == [v \in Workers |-> IF v = w THEN 1 ELSE 0]
<1>1. d \in [Workers -> Nat] /\ d[w] = 1 /\ \A v \in Workers \ {w} : d[v] = 0
  OBVIOUS
<1>. HIDE DEF d
<1>2. /\ queue[w] \in Seq(Message) /\ queue[w] # <<>> /\ worker[w] = "drain"
      /\ queue' = [queue EXCEPT ![w] = Tail(queue[w])] /\ Run(Head(queue[w]))
      /\ queue \in [Workers -> Seq(Message)]
      /\ UNCHANGED <<accepted, bound, hand, worker>>
  BY DEF Drain, DInv, TypeOK, ioVars
<1>3. Slots(w) = 1 .. Len(queue[w]) /\ Len(queue[w]) \in Nat \ {0}
  BY <1>2, EmptySeq DEF Slots
<1>4. Slots(w)' = 1 .. Len(queue[w]) - 1
  <2>1. worker'[w] = "drain" /\ queue'[w] = Tail(queue[w]) /\ Len(Tail(queue[w])) = Len(queue[w]) - 1
    BY <1>2, HeadTailProperties
  <2>. QED  BY <1>3, <2>1 DEF Slots
<1>5. 1 \in Slots(w) /\ At(w, 1) = Head(queue[w]) /\ \A j \in Slots(w) : 1 <= j
  BY <1>2, <1>3, HeadTailProperties DEF At
<1>6. \A i \in Slots(w)' : At(w, i)' = At(w, i + 1)
  <2>. SUFFICES ASSUME NEW i \in 1 .. Len(queue[w]) - 1 PROVE At(w, i)' = At(w, i + 1)
    BY <1>4
  <2>1. i \in 1 .. Len(Tail(queue[w])) /\ i # 0 /\ i + 1 # 0
    BY <1>2, <1>3, HeadTailProperties
  <2>2. Tail(queue[w])[i] = queue[w][i + 1]
    BY <1>2, <2>1, HeadTailProperties
  <2>. QED  BY <1>2, <2>1, <2>2 DEF At
<1>7. ASSUME NEW v \in Workers, v # w
      PROVE  Slots(v)' = Slots(v) /\ \A i \in Slots(v) : At(v, i)' = At(v, i) /\ i \in Nat
  BY <1>2, <1>7 DEF Slots, At
<1>8. ASSUME NEW v \in Workers
      PROVE  /\ \A i \in Slots(v)' : /\ i \in Nat /\ i + d[v] \in Slots(v)
                                     /\ At(v, i)' = At(v, i + d[v])
                                     /\ v = w => i + d[v] # 1
             /\ \A j \in Slots(v) : (v = w /\ j = 1) \/ \E i \in Slots(v)' : i + d[v] = j
  <2>1. CASE v = w
    <3>1. \A i \in Slots(w)' : i + 1 \in Slots(w) /\ i \in Nat /\ i + 1 # 1
      BY <1>3, <1>4
    <3>2. ASSUME NEW j \in Slots(w), j # 1 PROVE j - 1 \in Slots(w)' /\ j - 1 + 1 = j
      BY <1>3, <1>4, <3>2
    <3>. QED  BY <1>1, <1>6, <2>1, <3>1, <3>2
  <2>2. CASE v # w
    BY <1>1, <1>7, <2>2
  <2>. QED  BY <2>1, <2>2
<1>9. Run(At(w, 1)) /\ UNCHANGED <<accepted, bound>> /\ InOrder /\ PlacedInv
  BY <1>2, <1>5 DEF OInv
<1>10. \A v \in Workers : \A i \in Slots(v)' :
         /\ i \in Nat /\ i + d[v] \in Slots(v) /\ At(v, i)' = At(v, i + d[v])
         /\ v = w => i + d[v] # 1
  BY <1>8
<1>11. \A v \in Workers : \A j \in Slots(v) :
         (v = w /\ j = 1) \/ \E i \in Slots(v)' : i + d[v] = j
  BY <1>8
<1>. QED  BY <1>1, <1>5, <1>9, <1>10, <1>11, HandledO

(* A push puts the next message behind all others of its session.          *)
LEMMA PushO == ASSUME DInv, OInv, NEW s \in Sessions, PushTask(s) PROVE InOrder' /\ PlacedInv'
<1>. DEFINE m == [session |-> s, number |-> posted[s]]
<1>w. PICK w \in Workers : w = bound[s]
  BY DEF PushTask, DInv, PostInv
<1>l. PICK L \in Nat \ {0} : L = Len(queue[w]) + 1
  BY DEF DInv, TypeOK
<1>1. /\ io[s] = "push" /\ bound[s] # None /\ queue[w] \in Seq(Message)
      /\ posted[s] = accepted[s] + 1 /\ accepted[s] \in Nat
      /\ queue \in [Workers -> Seq(Message)]
      /\ accepted \in [Sessions -> 0 .. MaxMsgs]
  BY <1>w, DispatchAssumption DEF PushTask, DInv, PostInv, TypeOK, OInv, PostedInv
<1>2. /\ queue' = [queue EXCEPT ![w] = Append(queue[w], m)]
      /\ accepted' = [accepted EXCEPT ![s] = accepted[s] + 1]
      /\ UNCHANGED <<bound, worker, hand, handled>>
  BY <1>w DEF PushTask
<1>3. m.session = s /\ m.number = accepted[s] + 1
  BY <1>1
<1>. HIDE DEF m
<1>4. Slots(w)' = Slots(w) \cup {L} /\ L \notin Slots(w) /\ At(w, L)' = m
  <2>1. queue'[w] = Append(queue[w], m) /\ Len(Append(queue[w], m)) = L
        /\ Append(queue[w], m)[L] = m
    BY <1>l, <1>1, <1>2, AppendProperties
  <2>. QED  BY <1>l, <1>1, <1>2, <2>1 DEF Slots, At
<1>5. \A i \in Slots(w) : At(w, i)' = At(w, i) /\ i < L /\ i \in Nat
  <2>. SUFFICES ASSUME NEW i \in Slots(w) PROVE At(w, i)' = At(w, i) /\ i < L /\ i \in Nat
    OBVIOUS
  <2>1. i \in 0 .. Len(queue[w]) /\ i < L
    BY <1>l, <1>1 DEF Slots
  <2>2. i # 0 => Append(queue[w], m)[i] = queue[w][i]
    BY <1>1, <2>1, AppendProperties
  <2>. QED  BY <1>1, <1>2, <2>1, <2>2 DEF At
<1>6. ASSUME NEW v \in Workers, v # w
      PROVE  Slots(v)' = Slots(v) /\ \A i \in Slots(v) : At(v, i)' = At(v, i)
  BY <1>1, <1>2, <1>6 DEF Slots, At
<1>7. \A v \in Workers : \A i \in Slots(v) :
        /\ i \in Slots(v)' /\ At(v, i)' = At(v, i) /\ ~(v = w /\ i = L)
  BY <1>4, <1>5, <1>6
<1>8. \A v \in Workers : \A i \in Slots(v)' : i \in Slots(v) \/ (v = w /\ i = L)
  BY <1>4, <1>6
<1>9. /\ accepted'[s] = accepted[s] + 1
      /\ \A t \in Sessions : t # s => accepted'[t] = accepted[t]
  BY <1>1, <1>2
<1>10. PlacedInv'
  <2>. SUFFICES ASSUME NEW t \in Sessions, bound[t] # None, NEW v \in Workers,
                       NEW i \in Slots(v)', At(v, i)'.session = t
                PROVE  v = bound[t]
    BY <1>2 DEF PlacedInv
  <2>1. CASE i \in Slots(v)
    BY <1>7, <2>1 DEF OInv, PlacedInv
  <2>2. CASE v = w /\ i = L
    BY <1>w, <1>3, <1>4, <2>2
  <2>. QED  BY <1>8, <2>1, <2>2
<1>11. ASSUME NEW t \in Sessions
       PROVE  /\ Len(handled[t]) <= accepted'[t]
              /\ \A i \in 1 .. Len(handled[t]) : handled[t][i] = i
  BY <1>1, <1>9, LenL DEF OInv, InOrder
<1>12. ASSUME NEW t \in Sessions, NEW n \in Len(handled[t]) + 1 .. accepted'[t]
       PROVE  \E v \in Workers : \E i \in Slots(v)' : At(v, i)'.session = t /\ At(v, i)'.number = n
  <2>1. CASE t = s /\ n = accepted[s] + 1
    BY <1>1, <1>3, <1>4, <2>1
  <2>2. CASE ~(t = s /\ n = accepted[s] + 1)
    <3>1. n \in Len(handled[t]) + 1 .. accepted[t]
      BY <1>1, <1>9, <2>2, LenL
    <3>p. PICK v \in Workers : \E i \in Slots(v) : At(v, i).session = t /\ At(v, i).number = n
      BY <3>1 DEF OInv, InOrder
    <3>2. PICK i \in Slots(v) : At(v, i).session = t /\ At(v, i).number = n
      BY <3>p
    <3>. QED  BY <1>7, <3>2
  <2>. QED  BY <2>1, <2>2
<1>13. ASSUME NEW t \in Sessions, NEW u \in Workers, NEW v \in Workers,
              NEW i \in Slots(u)', NEW j \in Slots(v)', At(u, i)'.session = t, At(v, j)'.session = t
       PROVE  /\ u = v /\ At(u, i)'.number \in Len(handled[t]) + 1 .. accepted'[t]
              /\ i < j => At(u, i)'.number < At(v, j)'.number
  <2>1. ASSUME NEW x \in Workers, NEW l \in Slots(x), At(x, l).session = t
        PROVE  /\ At(x, l).number \in Len(handled[t]) + 1 .. accepted[t]
               /\ t = s => x = w
    BY <1>w, <1>1, <2>1 DEF OInv, InOrder, PlacedInv
  <2>2. Len(handled[t]) \in Nat /\ accepted[t] \in Nat /\ Len(handled[t]) <= accepted[t]
    BY LenL DEF OInv, InOrder
  <2>3. CASE i \in Slots(u) /\ j \in Slots(v)
    <3>1. /\ u = v /\ At(u, i).number \in Len(handled[t]) + 1 .. accepted[t]
          /\ i < j => At(u, i).number < At(v, j).number
      BY <1>7, <1>13, <2>3 DEF OInv, InOrder
    <3>. QED  BY <1>1, <1>7, <1>9, <2>2, <2>3, <3>1, SMTT(60)
  <2>4. CASE i \in Slots(u) /\ v = w /\ j = L
    <3>1. t = s
      BY <1>3, <1>4, <1>13, <2>4
    <3>2. u = w /\ At(u, i).number \in Len(handled[t]) + 1 .. accepted[t]
      BY <1>7, <1>13, <2>1, <2>4, <3>1
    <3>. QED  BY <1>1, <1>3, <1>4, <1>7, <1>9, <2>2, <2>4, <3>1, <3>2
  <2>5. CASE u = w /\ i = L
    <3>1. t = s /\ At(u, i)'.number = accepted[s] + 1
      BY <1>3, <1>4, <1>13, <2>5
    <3>2. v = w /\ ~(i < j)
      <4>1. CASE j \in Slots(v)
        <5>1. v = w
          BY <1>7, <1>13, <2>1, <3>1, <4>1
        <5>. QED  BY <1>1, <1>5, <2>5, <4>1, <5>1
      <4>2. CASE v = w /\ j = L
        BY <1>1, <2>5, <4>2
      <4>. QED  BY <1>8, <4>1, <4>2
    <3>. QED  BY <1>1, <1>9, <2>2, <2>5, <3>1, <3>2
  <2>. QED  BY <1>8, <2>3, <2>4, <2>5
<1>14. InOrder'
  BY <1>2, <1>11, <1>12, <1>13 DEF InOrder
<1>. QED  BY <1>10, <1>14

(* A session that is bound now has posted nothing before. *)
LEMMA BindO == ASSUME DInv, OInv, NEW s \in Sessions, BindSession(s) PROVE InOrder' /\ PlacedInv'
<1>1. accepted[s] = 0 /\ Len(handled[s]) \in Nat
  BY LenL DEF BindSession, OInv, PostedInv
<1>2. UNCHANGED <<handled, accepted, queue, hand, worker>>
  BY DEF BindSession
<1>3. InOrder'
  BY <1>2, SameO DEF OInv
<1>4. \A v \in Workers : Slots(v)' = Slots(v) /\ \A i \in Slots(v) : At(v, i)' = At(v, i)
  BY <1>2 DEF Slots, At
<1>5. \A v \in Workers : \A i \in Slots(v) : At(v, i).session # s
  <2>. SUFFICES ASSUME NEW v \in Workers, NEW i \in Slots(v), At(v, i).session = s PROVE FALSE
    OBVIOUS
  <2>1. At(v, i).number \in Len(handled[s]) + 1 .. accepted[s]
    BY DEF OInv, InOrder
  <2>. QED  BY <1>1, <2>1
<1>6. \A t \in Sessions : t # s => bound'[t] = bound[t]
  BY DEF BindSession, DInv, TypeOK
<1>. QED  BY <1>3, <1>4, <1>5, <1>6 DEF OInv, PlacedInv

LEMMA PostedO == ASSUME DInv, OInv, [Next]_vars PROVE PostedInv'
<1>. USE DispatchAssumption DEF OInv, mainVars, ioVars
<1>1. ASSUME NEW s \in Sessions, BindSession(s) PROVE PostedInv'
  BY <1>1 DEF BindSession, DInv, TypeOK, PostedInv
<1>2. ASSUME NEW s \in Sessions, PostMsgToQue(s) PROVE PostedInv'
  BY <1>2 DEF PostMsgToQue, DInv, TypeOK, PostedInv
<1>3. ASSUME NEW s \in Sessions, PushTask(s) PROVE PostedInv'
  BY <1>3 DEF PushTask, DInv, TypeOK, PostInv, PostedInv
<1>4. ASSUME NEW s \in Sessions, NotifyTask(s) PROVE PostedInv'
  BY <1>4 DEF NotifyTask, DInv, TypeOK, PostedInv
<1>5. ASSUME NEW s \in Sessions, UnbindSession(s) PROVE PostedInv'
  BY <1>5 DEF UnbindSession, DInv, TypeOK, PostedInv
<1>6. ASSUME UNCHANGED <<io, accepted, posted, bound>> PROVE PostedInv'
  BY <1>6 DEF PostedInv
<1>7. ASSUME NEW w \in Workers, WorkerStep(w) \/ SpuriousWakeup(w) \/ DtorStep(w) PROVE PostedInv'
  BY <1>6, <1>7 DEF WorkerStep, SpuriousWakeup, DtorStep, Decide, Sleep, Take, Handle, StartDrain,
     Drain, Exit, RequestStop, NotifyStop, Join
<1>8. ASSUME StopIo \/ Ended \/ UNCHANGED vars PROVE PostedInv'
  BY <1>6, <1>8 DEF StopIo, Ended, vars
<1>. QED  BY <1>1, <1>2, <1>3, <1>4, <1>5, <1>7, <1>8 DEF Next, IoStep

LEMMA NextO == DInv /\ OInv /\ [Next]_vars => OInv'
<1>. SUFFICES ASSUME DInv, OInv, [Next]_vars PROVE OInv'
  OBVIOUS
<1>. USE DEF mainVars, ioVars
<1>1. ASSUME NEW s \in Sessions, PostMsgToQue(s) \/ UnbindSession(s) PROVE InOrder' /\ PlacedInv'
  <2>1. UNCHANGED <<handled, accepted, queue, hand, worker>>
    BY <1>1 DEF PostMsgToQue, UnbindSession
  <2>2. \A t \in Sessions : bound'[t] # None => bound[t] = bound'[t]
    BY <1>1 DEF PostMsgToQue, UnbindSession, DInv, TypeOK
  <2>. QED  BY <2>1, <2>2, SameO DEF OInv
<1>2. ASSUME UNCHANGED <<handled, accepted, queue, hand, bound>>,
             \A v \in Workers : worker'[v] = "handle" <=> worker[v] = "handle"
      PROVE  InOrder' /\ PlacedInv'
  BY <1>2, SameO DEF OInv
<1>3. ASSUME NEW s \in Sessions, NotifyTask(s) PROVE InOrder' /\ PlacedInv'
  BY <1>2, <1>3 DEF NotifyTask, Woken, DInv, TypeOK
<1>4. ASSUME NEW w \in Workers, Decide(w) \/ Sleep(w) \/ StartDrain(w) \/ Exit(w)
      PROVE  InOrder' /\ PlacedInv'
  BY <1>2, <1>4 DEF Decide, Sleep, StartDrain, Exit, DInv, TypeOK
<1>5. ASSUME NEW w \in Workers, SpuriousWakeup(w) \/ DtorStep(w) PROVE InOrder' /\ PlacedInv'
  BY <1>2, <1>5 DEF SpuriousWakeup, DtorStep, RequestStop, NotifyStop, Join, Woken, DInv, TypeOK
<1>6. ASSUME StopIo \/ Ended \/ UNCHANGED vars PROVE InOrder' /\ PlacedInv'
  BY <1>2, <1>6 DEF StopIo, Ended, vars
<1>7. InOrder' /\ PlacedInv'
  BY <1>1, <1>3, <1>4, <1>5, <1>6, BindO, PushO, TakeO, HandleO, DrainO DEF Next, IoStep, WorkerStep
<1>. QED  BY <1>7, PostedO DEF OInv

(* The accepted messages of a session are handled in order, none lost and  *)
(* none twice, for any number of sessions, workers and messages.           *)
THEOREM DispatchInOrder == Spec => []InOrder
<1>1. OInv => InOrder
  BY DEF OInv
<1>. QED  BY <1>1, InitO, NextO, DispatchInvariant, PTL DEF Spec
=============================================================================
