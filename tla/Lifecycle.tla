------------------------------ MODULE Lifecycle ------------------------------
(***************************************************************************)
(* The life of the server process: main (ResourceServer.cpp), the pool of  *)
(* IO threads (AsioIOServicePool), the construction and the destruction of *)
(* CServer, LogicSystem and ConfigMgr, and what the threads still do while *)
(* main takes the objects down.                                            *)
(*                                                                         *)
(* After a signal, or when the start fails, main unwinds its stack and the *)
(* static objects follow: ConfigMgr first, a local static of a function    *)
(* that was constructed in main, then the _instance of each Singleton, in  *)
(* an order that C++ leaves open.  The workers are one thread here,        *)
(* LogicDispatch has them all and how they are told to stop.               *)
(***************************************************************************)
EXTENDS Integers

CONSTANTS
  NumThreads,   \* hardware_concurrency()
  NumSessions,  \* bound: the CSession objects, numbered as they are created
  None,         \* no io_context, no session
  MaxMsgs       \* bound: messages one session reads

IoServices == 0 .. NumThreads - 1
Sessions   == 1 .. NumSessions

\* With no threads GetIOService would divide by zero.
ASSUME LifecycleAssumption == /\ NumThreads \in Nat \ {0}
                              /\ NumSessions \in Nat /\ MaxMsgs \in Nat
                              /\ None \notin Sessions /\ None \notin IoServices

VARIABLES
  main,     \* where main is
  config, server, pool, logic,   \* the objects: unborn, alive, destroyed
  settings, \* the settings that config has
  nextIo,   \* _nextIOService
  where,    \* where[s]: the io_context of s, None before s is created
  phase,    \* phase[s]: new, waiting for a connection, open (reads) or closed
  received, \* received[s]: messages read
  guard,    \* io_contexts with a work guard
  stopped,  \* io_contexts that are stopped
  thread,   \* thread[i]: the IO thread of i
  handler,  \* handler[i]: the session whose completion handler runs on i
  queue,    \* messages the worker has not taken, by session
  worker,   \* the worker thread
  hand      \* the session whose message the worker handles

poolVars    == <<guard, stopped, thread>>
sessionVars == <<nextIo, where, phase, received>>
workerVars  == <<queue, worker, hand>>
configVars  == <<config, settings>>
objects     == <<configVars, server, pool, logic>>
vars == <<main, objects, sessionVars, poolVars, handler, workerVars>>

Init == /\ main = "config"
        /\ config = "unborn" /\ server = "unborn" /\ pool = "unborn" /\ logic = "unborn"
        /\ settings = {}
        /\ nextIo = 0 /\ where = [s \in Sessions |-> None]
        /\ phase = [s \in Sessions |-> "new"]
        /\ received = [s \in Sessions |-> 0]
        /\ guard = {} /\ stopped = {}
        /\ thread  = [i \in IoServices |-> "none"]
        /\ handler = [i \in IoServices |-> None]
        /\ queue = [s \in Sessions |-> 0] /\ worker = "none" /\ hand = None

-----------------------------------------------------------------------------
(* The start.                                                              *)

Keys == {"port"}

\* The two operator[]: what is missing reads as an empty text.
Empty == ""
Setting(key) == IF key \in settings THEN key ELSE Empty

\* ConfigMgr::Inst: a missing file leaves the map empty, a malformed one
\* throws out of the constructor and into main's catch.
StartConfig ==
  /\ main = "config"
  /\ \/ config' = "alive" /\ settings' \in SUBSET Keys /\ main' = "pool"
     \/ UNCHANGED configVars /\ main' = "exit"
  /\ UNCHANGED <<server, pool, logic, sessionVars, poolVars, handler, workerVars>>

\* The constructor of the pool: guards first, then the threads.
Guarded_None == {}                   \* mutant: no work guards
Guarded == IoServices

StartPool ==
  /\ main = "pool"
  /\ pool' = "alive" /\ guard' = Guarded
  /\ thread' = [i \in IoServices |-> "idle"]
  /\ main' = "server"
  /\ UNCHANGED <<configVars, server, logic, sessionVars, stopped, handler, workerVars>>

\* GetIOService
Index(n) == n % NumThreads

\* StartAccept creates the next session, if the instance has one left; p
\* is how far the others are.
StartAccept(p) ==
  LET s == nextIo + 1
  IN  IF s \notin Sessions THEN phase' = p /\ UNCHANGED <<where, nextIo>>
      ELSE /\ where' = [where EXCEPT ![s] = Index(nextIo)]
           /\ nextIo' = s
           /\ phase' = [p EXCEPT ![s] = "waiting"]

\* CServer(io_context, stoi(port)): a port that is no number, an empty text
\* among them, or one that is in use, throws; main unwinds and the pool goes
\* with the statics.
StartServer ==
  /\ main = "server"
  /\ \/ /\ Setting("port") # Empty
        /\ server' = "alive" /\ main' = "run" /\ StartAccept(phase)
     \/ UNCHANGED <<server, where, nextIo, phase>> /\ main' = "exit"
  /\ UNCHANGED <<configVars, pool, logic, received, poolVars, handler, workerVars>>

-----------------------------------------------------------------------------
(* The server runs.                                                        *)

\* HandleAccept: LogicSystem is created with the first connection, and its
\* worker starts; after an error only the next accept does.
HandleAccept(s) ==
  /\ main = "run" /\ phase[s] = "waiting"
  /\ \/ /\ logic' = "alive"
        /\ worker' = IF worker = "none" THEN "running" ELSE worker
        /\ StartAccept([phase EXCEPT ![s] = "open"])
     \/ StartAccept([phase EXCEPT ![s] = "closed"]) /\ UNCHANGED <<logic, worker>>
  /\ UNCHANGED <<main, configVars, server, pool, received, poolVars, handler, queue, hand>>

\* The sessions with an outstanding read on i.
Reading_Any(i) == {s \in Sessions : phase[s] = "open"}     \* mutant: of any io_context
Reading(i) == {s \in Sessions : phase[s] = "open" /\ where[s] = i}

\* run() takes the completion of a read, unless its io_context is stopped.
StartHandler(i) ==
  /\ thread[i] = "idle" /\ i \notin stopped
  /\ \E s \in Reading(i) : handler' = [handler EXCEPT ![i] = s]
  /\ thread' = [thread EXCEPT ![i] = "handling"]
  /\ UNCHANGED <<main, objects, sessionVars, guard, stopped, workerVars>>

\* The handler posts a message and reads on, or the read has failed: the
\* session is closed and taken out of CServer and LogicSystem.
EndHandler(i) ==
  LET s == handler[i]
  IN  /\ thread[i] = "handling"
      /\ \/ /\ received[s] < MaxMsgs
            /\ received' = [received EXCEPT ![s] = @ + 1]
            /\ queue' = [queue EXCEPT ![s] = @ + 1]
            /\ UNCHANGED phase
         \/ phase' = [phase EXCEPT ![s] = "closed"] /\ UNCHANGED <<received, queue>>
      /\ handler' = [handler EXCEPT ![i] = None]
      /\ thread' = [thread EXCEPT ![i] = "idle"]
      /\ UNCHANGED <<main, objects, nextIo, where, guard, stopped, worker, hand>>

\* run() returns when its io_context is stopped, or has neither a guard nor
\* an outstanding operation.
Returns(i) ==
  /\ thread[i] = "idle"
  /\ i \in stopped \/ (i \notin guard /\ Reading(i) = {})
  /\ thread' = [thread EXCEPT ![i] = "exited"]
  /\ UNCHANGED <<main, objects, sessionVars, guard, stopped, handler, workerVars>>

\* The worker: a handler asks ConfigMgr for the path and answers through the
\* socket of its session.
Take ==
  /\ worker \in {"running", "stopping"} /\ hand = None
  /\ \E s \in Sessions : queue[s] > 0 /\ hand' = s /\ queue' = [queue EXCEPT ![s] = @ - 1]
  /\ UNCHANGED <<main, objects, sessionVars, poolVars, handler, worker>>

Answer ==
  /\ hand # None /\ hand' = None
  /\ UNCHANGED <<main, objects, sessionVars, poolVars, handler, queue, worker>>

-----------------------------------------------------------------------------
(* The end.                                                                *)

\* SIGINT or SIGTERM: the handler runs on the main thread, stops the accepts
\* and calls Stop of the pool.
AfterSignal_Unwind == "unwind"       \* mutant: the destructor calls Stop anyway
AfterSignal == "stop"

Signal ==
  /\ main = "run" /\ main' = AfterSignal
  /\ UNCHANGED <<objects, sessionVars, poolVars, handler, workerVars>>

\* AsioIOServicePool::Stop, from the signal handler or the destructor: the
\* guards go, the io_contexts are stopped, the threads joined.
InStop == main \in {"stop", "destroyPool"}

ResetGuards ==
  /\ InStop /\ guard # {}
  /\ guard' = {}
  /\ UNCHANGED <<main, objects, sessionVars, stopped, thread, handler, workerVars>>

ToStop_None == {}                    \* mutant: to drop the guards is enough
ToStop == IoServices

StopContext(i) ==
  /\ InStop /\ guard = {} /\ i \in ToStop \ stopped
  /\ stopped' = stopped \cup {i}
  /\ UNCHANGED <<main, objects, sessionVars, guard, thread, handler, workerVars>>

Join(i) ==
  /\ InStop /\ guard = {} /\ ToStop \subseteq stopped /\ thread[i] = "exited"
  /\ thread' = [thread EXCEPT ![i] = "joined"]
  /\ UNCHANGED <<main, objects, sessionVars, guard, stopped, handler, workerVars>>

AllJoined == guard = {} /\ ToStop \subseteq stopped /\ \A i \in IoServices : thread[i] = "joined"

\* Stop returns to the signal handler, and run() of the main thread ends.
StopReturns ==
  /\ main = "stop" /\ AllJoined
  /\ main' = "unwind"
  /\ UNCHANGED <<objects, sessionVars, poolVars, handler, workerVars>>

\* The destructor of CServer.
DestroyServer ==
  /\ main = "unwind"
  /\ server' = "destroyed" /\ main' = "exit"
  /\ UNCHANGED <<configVars, pool, logic, sessionVars, poolVars, handler, workerVars>>

\* The static objects.
DestroyConfig ==
  /\ main = "exit"
  /\ config' = IF config = "alive" THEN "destroyed" ELSE config
  /\ settings' = {}
  /\ main' = "statics"
  /\ UNCHANGED <<server, pool, logic, sessionVars, poolVars, handler, workerVars>>

BeginPool ==
  /\ main = "statics" /\ pool = "alive"
  /\ main' = "destroyPool"
  /\ UNCHANGED <<objects, sessionVars, poolVars, handler, workerVars>>

\* ~AsioIOServicePool calls Stop; the io_contexts go with the pool.
StopFirst_Not == TRUE                \* mutant: no Stop in the destructor
StopFirst == AllJoined

EndPool ==
  /\ main = "destroyPool" /\ StopFirst
  /\ pool' = "destroyed" /\ main' = "statics"
  /\ UNCHANGED <<configVars, server, logic, sessionVars, poolVars, handler, workerVars>>

\* ~LogicSystem: the worker handles what is left, and is joined.
BeginLogic ==
  /\ main = "statics" /\ logic = "alive"
  /\ main' = "destroyLogic" /\ worker' = "stopping"
  /\ UNCHANGED <<objects, sessionVars, poolVars, handler, queue, hand>>

EndLogic ==
  /\ main = "destroyLogic" /\ hand = None /\ \A s \in Sessions : queue[s] = 0
  /\ logic' = "destroyed" /\ worker' = "joined" /\ main' = "statics"
  /\ UNCHANGED <<configVars, server, pool, sessionVars, poolVars, handler, queue, hand>>

End ==
  /\ main = "statics" /\ pool # "alive" /\ logic # "alive"
  /\ main' = "ended"
  /\ UNCHANGED <<objects, sessionVars, poolVars, handler, workerVars>>

Ended == main = "ended" /\ UNCHANGED vars

StopStep == ResetGuards \/ StopReturns \/ \E i \in IoServices : StopContext(i) \/ Join(i)
MainStep == \/ StartConfig \/ StartPool \/ StartServer \/ StopStep \/ DestroyServer \/ DestroyConfig
            \/ BeginPool \/ EndPool \/ BeginLogic \/ EndLogic \/ End
WorkerStep == Take \/ Answer

Next == \/ MainStep \/ WorkerStep \/ Signal \/ Ended
        \/ \E s \in Sessions : HandleAccept(s)
        \/ \E i \in IoServices : StartHandler(i) \/ EndHandler(i) \/ Returns(i)

Spec == Init /\ [][Next]_vars

\* The threads go on; clients and signals owe nothing.
FairSpec == /\ Spec /\ WF_vars(MainStep) /\ WF_vars(WorkerStep)
            /\ \A i \in IoServices : WF_vars(EndHandler(i)) /\ WF_vars(Returns(i))

-----------------------------------------------------------------------------
Object == {"unborn", "alive", "destroyed"}

(* Every variable keeps its type; a handler runs on the thread of its      *)
(* session.                                                                *)
TypeOK ==
  /\ main \in {"config", "pool", "server", "run", "stop", "unwind", "exit", "statics",
               "destroyPool", "destroyLogic", "ended"}
  /\ config \in Object /\ server \in Object /\ pool \in Object /\ logic \in Object
  /\ settings \subseteq Keys
  /\ nextIo \in Nat /\ where \in [Sessions -> IoServices \cup {None}]
  /\ phase \in [Sessions -> {"new", "waiting", "open", "closed"}]
  /\ received \in [Sessions -> 0 .. MaxMsgs]
  /\ guard \subseteq IoServices /\ stopped \subseteq IoServices
  /\ thread \in [IoServices -> {"none", "idle", "handling", "exited", "joined"}]
  /\ handler \in [IoServices -> Sessions \cup {None}]
  /\ queue \in [Sessions -> 0 .. MaxMsgs]
  /\ worker \in {"none", "running", "stopping", "joined"} /\ hand \in Sessions \cup {None}
  /\ \A i \in IoServices : handler[i] # None => thread[i] = "handling" /\ where[handler[i]] = i

(* A handler on an IO thread finds everything it uses: the server that its *)
(* session points to (CSession::_server, a bare pointer into the stack of  *)
(* main), LogicSystem and the configuration.  The Stop in the signal       *)
(* handler is what ensures it: the one in the destructor of the pool, that *)
(* would make it redundant (ResourceServer.cpp:28), comes after ~CServer.  *)
IoUsesLive == \A i \in IoServices : thread[i] = "handling" =>
    server = "alive" /\ logic = "alive" /\ config = "alive" /\ pool = "alive"

(* No thread object is destroyed before it is joined, which would end the  *)
(* process, also when the start fails (AsioIOServicePool.cpp:43).          *)
JoinedFirst == /\ pool = "destroyed" => \A i \in IoServices : thread[i] = "joined"
               /\ logic = "destroyed" => worker = "joined"
               /\ main = "ended" => pool # "alive" /\ logic # "alive"

(* Until it is stopped every io_context has its thread, also while it has  *)
(* no connection; a connection is never without one                        *)
(* (AsioIOServicePool.cpp:22-24).                                          *)
Served == main \in {"server", "run"} =>
    \A i \in IoServices : thread[i] \in {"idle", "handling"}

(* A signal ends all IO threads and then the server object, whatever reads *)
(* are outstanding (AsioIOServicePool.cpp:71-73).                          *)
SignalStops == main = "stop" ~> server = "destroyed" /\ \A i \in IoServices : thread[i] = "joined"

==============================================================================
