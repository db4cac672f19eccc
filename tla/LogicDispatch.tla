--------------------------- MODULE LogicDispatch ---------------------------
(***************************************************************************)
(* How a parsed message gets from the IO thread of its session to the one  *)
(* worker thread that handles it: LogicSystem (BindSession, PostMsgToQue,  *)
(* UnbindSession) and LogicWorker (PostTask, DealMsg, the destructor), with*)
(* their mutexes and the condition variable _consume.                      *)
(*                                                                         *)
(* A session stands for the IO thread it runs on.  A message is the session*)
(* and its number in the order that session posts.  The callbacks are one  *)
(* step: they never post and never touch the queue (UploadStore has them). *)
(***************************************************************************)
EXTENDS Integers, Sequences

CONSTANTS
  NumWorkers,  \* LOGIC_WORKER_COUNT
  Sessions,    \* accepted connections
  None,        \* no session, no worker, no message
  MaxMsgs      \* bound: messages one session posts

Workers == 0 .. NumWorkers - 1

ASSUME DispatchAssumption == /\ NumWorkers \in Nat \ {0} /\ MaxMsgs \in Nat
                             /\ None \notin Sessions /\ None \notin Workers

VARIABLES
  bound,      \* bound[s]: entry of _session_worker_map
  nextWorker, \* _next_worker
  mapOwner,   \* the session whose IO thread holds _map_mutex inside PostMsgToQue
  io,         \* io[s]: where the IO thread of s is
  posted,     \* posted[s]: messages s has read so far
  accepted,   \* accepted[s]: those that went into a queue
  mutex,      \* mutex[w]: worker w holds its _mutex across steps
  queue,      \* queue[w]: _msg_que
  worker,     \* worker[w]: where DealMsg of worker w is
  hand,       \* hand[w]: the message DealMsg has taken out
  handled,    \* handled[s]: history of the callbacks run for s
  stop,       \* stop[w]: _b_stop
  dtor,       \* dtor[w]: where ~LogicWorker of w is
  ioStopped   \* AsioIOServicePool::Stop has joined the IO threads

ioVars   == <<bound, nextWorker, mapOwner, io, posted, accepted>>
mainVars == <<stop, dtor, ioStopped>>
vars     == <<ioVars, mutex, queue, worker, hand, handled, mainVars>>

Message == [session: Sessions, number: 1 .. MaxMsgs]

Init == /\ bound = [s \in Sessions |-> None] /\ nextWorker = 0
        /\ mapOwner = None
        /\ io = [s \in Sessions |-> "new"]
        /\ posted = [s \in Sessions |-> 0] /\ accepted = [s \in Sessions |-> 0]
        /\ mutex  = [w \in Workers |-> FALSE]
        /\ queue  = [w \in Workers |-> <<>>]
        /\ worker = [w \in Workers |-> "lock"]
        /\ hand   = [w \in Workers |-> None]
        /\ handled = [s \in Sessions |-> <<>>]
        /\ stop = [w \in Workers |-> FALSE]
        /\ dtor = [w \in Workers |-> "alive"]
        /\ ioStopped = FALSE

----------------------------------------------------------------------------
(* notify_one on _consume of w: its only waiter leaves the wait set.       *)
Woken(w) == IF worker[w] = "waiting" THEN [worker EXCEPT ![w] = "lock"] ELSE worker

(* HandleAccept binds the new session, round robin; Start follows.         *)
BoundTo_Next(n) == n                    \* mutant: the modulo forgotten
BoundTo(n)      == n % NumWorkers

BindSession(s) ==
  /\ io[s] = "new" /\ mapOwner = None /\ ~ioStopped
  /\ bound' = [bound EXCEPT ![s] = BoundTo(nextWorker)]
  /\ nextWorker' = nextWorker + 1
  /\ io' = [io EXCEPT ![s] = "read"]
  /\ UNCHANGED <<mapOwner, posted, accepted, mutex, queue, worker, hand, handled, mainVars>>

(* A message is read: PostMsgToQue looks its worker up and keeps the map   *)
(* locked while it posts; the message of an unbound session is dropped.    *)
PostMsgToQue(s) ==
  /\ io[s] = "read" /\ mapOwner = None /\ ~ioStopped
  /\ posted[s] < MaxMsgs
  /\ posted' = [posted EXCEPT ![s] = @ + 1]
  /\ IF bound[s] = None
     THEN UNCHANGED <<mapOwner, io>>
     ELSE mapOwner' = s /\ io' = [io EXCEPT ![s] = "push"]
  /\ UNCHANGED <<bound, nextWorker, accepted, mutex, queue, worker, hand, handled, mainVars>>

(* PostTask: push under _mutex; only the first message in the queue is     *)
(* worth a notify, and that comes after the unlock.                        *)
IsFirst_Second(q) == Len(q) = 2         \* mutant: off by one
IsFirst(q)        == Len(q) = 1

PushTask(s) ==
  LET w == bound[s]
      q == Append(queue[w], [session |-> s, number |-> posted[s]])
  IN  /\ io[s] = "push" /\ ~mutex[w]
      /\ queue' = [queue EXCEPT ![w] = q]
      /\ accepted' = [accepted EXCEPT ![s] = @ + 1]
      /\ IF IsFirst(q)
         THEN io' = [io EXCEPT ![s] = "notify"] /\ UNCHANGED mapOwner
         ELSE io' = [io EXCEPT ![s] = "read"] /\ mapOwner' = None
      /\ UNCHANGED <<bound, nextWorker, posted, mutex, worker, hand, handled, mainVars>>

NotifyTask(s) ==
  /\ io[s] = "notify"
  /\ worker' = Woken(bound[s])
  /\ io' = [io EXCEPT ![s] = "read"]
  /\ mapOwner' = None
  /\ UNCHANGED <<bound, nextWorker, posted, accepted, mutex, queue, hand, handled, mainVars>>

(* ClearSession unbinds; a read that had already completed may still post. *)
UnbindSession(s) ==
  /\ io[s] = "read" /\ mapOwner = None /\ ~ioStopped
  /\ bound[s] # None
  /\ bound' = [bound EXCEPT ![s] = None]
  /\ UNCHANGED <<nextWorker, mapOwner, io, posted, accepted, mutex, queue, worker, hand,
                 handled, mainVars>>

----------------------------------------------------------------------------
(* The loop condition of DealMsg: an empty queue and no request to stop.   *)
MustWait(w) == queue[w] = <<>> /\ ~stop[w]

(* DealMsg has locked _mutex and is about to wait.  It still holds the     *)
(* mutex: it has read _b_stop but is not in the wait set yet.              *)
Decide(w) ==
  /\ worker[w] = "lock" /\ ~mutex[w] /\ MustWait(w)
  /\ worker' = [worker EXCEPT ![w] = "sleep"]
  /\ mutex'  = [mutex EXCEPT ![w] = TRUE]
  /\ UNCHANGED <<ioVars, queue, hand, handled, mainVars>>

(* wait releases the mutex and joins the wait set at once. *)
Sleep(w) ==
  /\ worker[w] = "sleep"
  /\ worker' = [worker EXCEPT ![w] = "waiting"]
  /\ mutex'  = [mutex EXCEPT ![w] = FALSE]
  /\ UNCHANGED <<ioVars, queue, hand, handled, mainVars>>

SpuriousWakeup(w) ==
  /\ worker[w] = "waiting"
  /\ worker' = Woken(w)
  /\ UNCHANGED <<ioVars, mutex, queue, hand, handled, mainVars>>

NextMsg_Last(q) == q[Len(q)]            \* mutant: a stack instead of a queue
NextMsg(q)      == Head(q)

(* A message is taken out and the mutex given back before its callback.    *)
Take(w) ==
  /\ worker[w] = "lock" /\ ~mutex[w]
  /\ queue[w] # <<>> /\ ~stop[w]
  /\ hand'   = [hand EXCEPT ![w] = NextMsg(queue[w])]
  /\ queue'  = [queue EXCEPT ![w] = Tail(@)]
  /\ worker' = [worker EXCEPT ![w] = "handle"]
  /\ UNCHANGED <<ioVars, mutex, handled, mainVars>>

Run(m) == handled' = [handled EXCEPT ![m.session] = Append(@, m.number)]

(* The callback runs; a message id without one is only logged. *)
Handle(w) ==
  /\ worker[w] = "handle"
  /\ Run(hand[w])
  /\ hand'   = [hand EXCEPT ![w] = None]
  /\ worker' = [worker EXCEPT ![w] = "lock"]
  /\ UNCHANGED <<ioVars, mutex, queue, mainVars>>

(* Stop was requested: the rest of the queue is handled under the mutex,   *)
(* each message popped after its callback, then the thread ends.           *)
StartDrain(w) ==
  /\ worker[w] = "lock" /\ ~mutex[w] /\ stop[w]
  /\ worker' = [worker EXCEPT ![w] = "drain"]
  /\ mutex'  = [mutex EXCEPT ![w] = TRUE]
  /\ UNCHANGED <<ioVars, queue, hand, handled, mainVars>>

Drain(w) ==
  /\ worker[w] = "drain" /\ queue[w] # <<>>
  /\ Run(Head(queue[w]))
  /\ queue' = [queue EXCEPT ![w] = Tail(@)]
  /\ UNCHANGED <<ioVars, mutex, worker, hand, mainVars>>

Drained_Now(w) == TRUE                  \* mutant: stop means stop
Drained(w)     == queue[w] = <<>>

Exit(w) ==
  /\ worker[w] = "drain" /\ Drained(w)
  /\ worker' = [worker EXCEPT ![w] = "exited"]
  /\ mutex'  = [mutex EXCEPT ![w] = FALSE]
  /\ UNCHANGED <<ioVars, queue, hand, handled, mainVars>>

----------------------------------------------------------------------------
(* Shutdown by the main thread: first the IO threads end, each when it is  *)
(* between two handlers; then the workers are destroyed one by one.        *)
StopIo ==
  /\ ~ioStopped
  /\ \A s \in Sessions : io[s] \in {"new", "read"}
  /\ ioStopped' = TRUE
  /\ UNCHANGED <<ioVars, mutex, queue, worker, hand, handled, stop, dtor>>

(* ~LogicWorker sets _b_stop without _mutex, ... *)
RequestStop(w) ==
  /\ ioStopped /\ dtor[w] = "alive"
  /\ \A v \in Workers : dtor[v] \in {"alive", "joined"}
  /\ stop' = [stop EXCEPT ![w] = TRUE]
  /\ dtor' = [dtor EXCEPT ![w] = "notify"]
  /\ UNCHANGED <<ioVars, mutex, queue, worker, hand, handled, ioStopped>>

(* ... notifies, ... *)
NotifyStop(w) ==
  /\ dtor[w] = "notify"
  /\ worker' = Woken(w)
  /\ dtor' = [dtor EXCEPT ![w] = "join"]
  /\ UNCHANGED <<ioVars, mutex, queue, hand, handled, stop, ioStopped>>

(* ... and joins the thread. *)
Join(w) ==
  /\ dtor[w] = "join" /\ worker[w] = "exited"
  /\ dtor' = [dtor EXCEPT ![w] = "joined"]
  /\ UNCHANGED <<ioVars, mutex, queue, worker, hand, handled, stop, ioStopped>>

(* The process has ended. *)
Ended == (\A w \in Workers : dtor[w] = "joined") /\ UNCHANGED vars

IoStep(s)     == PushTask(s) \/ NotifyTask(s)
WorkerStep(w) == Decide(w) \/ Sleep(w) \/ Take(w) \/ Handle(w) \/ StartDrain(w) \/ Drain(w) \/ Exit(w)
DtorStep(w)   == RequestStop(w) \/ NotifyStop(w) \/ Join(w)

Next == \/ \E s \in Sessions : BindSession(s) \/ PostMsgToQue(s) \/ IoStep(s) \/ UnbindSession(s)
        \/ \E w \in Workers : WorkerStep(w) \/ SpuriousWakeup(w) \/ DtorStep(w)
        \/ StopIo \/ Ended

Spec == Init /\ [][Next]_vars

(* Running threads get on with what they have begun; clients, signals and  *)
(* spurious wakeups owe nothing.                                           *)
Fairness == /\ \A s \in Sessions : WF_vars(IoStep(s))
            /\ \A w \in Workers : WF_vars(WorkerStep(w)) /\ WF_vars(DtorStep(w))

FairSpec == Spec /\ Fairness

----------------------------------------------------------------------------
(* Every variable keeps its type. *)
TypeOK ==
  /\ bound \in [Sessions -> Workers \cup {None}] /\ nextWorker \in Nat
  /\ mapOwner \in Sessions \cup {None}
  /\ io \in [Sessions -> {"new", "read", "push", "notify"}]
  /\ posted \in [Sessions -> 0 .. MaxMsgs] /\ accepted \in [Sessions -> 0 .. MaxMsgs]
  /\ mutex \in [Workers -> BOOLEAN]
  /\ queue \in [Workers -> Seq(Message)]
  /\ worker \in [Workers -> {"lock", "sleep", "waiting", "handle", "drain", "exited"}]
  /\ hand \in [Workers -> Message \cup {None}]
  /\ handled \in [Sessions -> Seq(1 .. MaxMsgs)]
  /\ stop \in [Workers -> BOOLEAN]
  /\ dtor \in [Workers -> {"alive", "notify", "join", "joined"}]
  /\ ioStopped \in BOOLEAN

(* No wakeup is lost: when a worker sleeps while its queue holds messages, *)
(* the IO thread that posted the first of them is still going to notify,   *)
(* although PostTask notifies for the first message only.                  *)
NoLostWakeup ==
  \A w \in Workers : worker[w] = "waiting" /\ queue[w] # <<>> =>
    \E s \in Sessions : io[s] = "notify" /\ bound[s] = w

(* The messages a worker has still to handle: slot 0 is the one in its hand*)
(* and the others are its queue.                                           *)
Slots(w)  == {i \in 0 .. Len(queue[w]) : i = 0 => worker[w] = "handle"}
At(w, i)  == IF i = 0 THEN hand[w] ELSE queue[w][i]

(* The accepted messages of a session are handled in order, none lost and  *)
(* none twice, also across unbinding and shutdown: the callbacks run were  *)
(* those of the first ones, and the rest waits in order with one worker.   *)
InOrder ==
  \A s \in Sessions :
    /\ Len(handled[s]) <= accepted[s]
    /\ \A i \in 1 .. Len(handled[s]) : handled[s][i] = i
    /\ \A n \in Len(handled[s]) + 1 .. accepted[s] : \E w \in Workers : \E i \in Slots(w) :
         At(w, i).session = s /\ At(w, i).number = n
    /\ \A v, w \in Workers : \A i \in Slots(v), j \in Slots(w) :
         At(v, i).session = s /\ At(w, j).session = s =>
           /\ v = w /\ At(v, i).number \in Len(handled[s]) + 1 .. accepted[s]
           /\ i < j => At(v, i).number < At(w, j).number

(* A worker that ended has left no message behind (LogicWorker.cpp:114).   *)
DrainedOnExit == \A w \in Workers : worker[w] = "exited" => queue[w] = <<>>

(* Every accepted message is handled at last: as a session posts at most   *)
(* MaxMsgs of them, the workers catch up again and again.                  *)
AllHandled == []<>(\A s \in Sessions : Len(handled[s]) = accepted[s])

(* A worker told to stop ends (LogicWorker.cpp:85: it is woken up, handles *)
(* the remaining messages and exits).                                      *)
StopEnds == \A w \in Workers : stop[w] ~> worker[w] = "exited"
=============================================================================
