--------------------------- MODULE LifecycleProofs ---------------------------
(***************************************************************************)
(* Proofs about Lifecycle, for any number of IO threads, sessions and      *)
(* messages: the IO threads find what they use, each thread is joined      *)
(* before its object goes, and no io_context loses its thread early.       *)
(***************************************************************************)
EXTENDS Lifecycle, TLAPS

(* Where main is tells which objects there are.                            *)
ObjectsInv ==
  /\ main \in {"pool", "server", "run", "stop", "unwind"} => config = "alive"
  /\ main \in {"run", "stop", "unwind"} <=> server = "alive"
  /\ main \in {"server", "run", "stop", "unwind", "destroyPool"} => pool = "alive"
  /\ main \in {"config", "pool"} => pool = "unborn"
  /\ main \in {"config", "pool", "server"} => logic = "unborn"
  /\ main = "destroyLogic" => logic = "alive"
  /\ logic = "destroyed" => main \in {"statics", "destroyPool", "ended"} /\ worker = "joined"
  /\ logic # "alive" => worker \in {"none", "joined"}

(* Sessions are created in the order of their numbers, and open ones have  *)
(* met LogicSystem.                                                        *)
SessionsInv ==
  /\ \A s \in Sessions : phase[s] = "new" <=> s > nextIo
  /\ \A s \in Sessions : phase[s] # "new" => where[s] \in IoServices
  /\ \A s \in Sessions : queue[s] <= received[s]
  /\ (\E s \in Sessions : phase[s] = "open") =>
       main \notin {"config", "pool", "server"} /\ logic # "unborn"
  /\ main \in {"config", "pool", "server"} => nextIo = 0

(* A thread with a handler has an open session, whose read is the handler's.*)
HandlersInv == \A i \in IoServices :
  thread[i] = "handling" => handler[i] \in Sessions /\ phase[handler[i]] = "open"

(* Only Stop takes guards and stops io_contexts, and once main has left it *)
(* with a server behind it every thread is joined.                         *)
PoolInv ==
  /\ main \in {"config", "pool", "server", "run"} => stopped = {}
  /\ main \in {"server", "run"} => guard = IoServices
  /\ pool = "destroyed" => \A i \in IoServices : thread[i] = "joined"
  /\ main \in {"unwind", "exit", "statics", "destroyPool", "destroyLogic", "ended"}
       => \/ \A s \in Sessions : phase[s] # "open"
          \/ \A i \in IoServices : thread[i] = "joined"
  /\ main = "ended" => pool # "alive" /\ logic # "alive"

LInv == TypeOK /\ ObjectsInv /\ SessionsInv /\ HandlersInv /\ PoolInv /\ Served

----------------------------------------------------------------------------
(* The values at the start.                                                *)
LEMMA InitL == Init => LInv
BY LifecycleAssumption DEF Init, LInv, TypeOK, ObjectsInv, SessionsInv, HandlersInv, PoolInv, Served,
   Object, Keys, Sessions, IoServices

LEMMA StartConfigL == ASSUME LInv, StartConfig PROVE LInv'
<1> USE LifecycleAssumption DEF LInv, StartConfig, configVars, sessionVars, poolVars, workerVars
<1>1. TypeOK'
  BY DEF TypeOK, Object
<1>2. ObjectsInv'
  BY DEF TypeOK, ObjectsInv, Object
<1>3. SessionsInv'
  BY DEF TypeOK, SessionsInv
<1>4. HandlersInv'
  BY DEF TypeOK, HandlersInv
<1>5. PoolInv'
  BY DEF TypeOK, PoolInv, ObjectsInv, SessionsInv, HandlersInv
<1>6. Served'
  BY DEF Served, PoolInv, ObjectsInv, TypeOK
<1> QED BY <1>1, <1>2, <1>3, <1>4, <1>5, <1>6

LEMMA StartPoolL == ASSUME LInv, StartPool PROVE LInv'
<1> USE LifecycleAssumption DEF LInv, StartPool, configVars, sessionVars, workerVars, Guarded
<1>1. TypeOK'
  BY DEF TypeOK, Object, SessionsInv, HandlersInv
<1>2. ObjectsInv'
  BY DEF TypeOK, ObjectsInv, Object
<1>3. SessionsInv'
  BY DEF TypeOK, SessionsInv, HandlersInv
<1>4. HandlersInv'
  BY DEF TypeOK, HandlersInv
<1>5. PoolInv'
  BY DEF TypeOK, PoolInv, ObjectsInv, SessionsInv, HandlersInv
<1>6. Served'
  BY DEF Served, PoolInv, ObjectsInv, TypeOK
<1> QED BY <1>1, <1>2, <1>3, <1>4, <1>5, <1>6

(* What StartAccept does to the sessions when p is what HandleAccept makes *)
(* of them.                                                                *)
LEMMA StartAcceptL ==
  ASSUME TypeOK, SessionsInv, NEW p, p \in [Sessions -> {"new", "waiting", "open", "closed"}],
         \A s \in Sessions : p[s] = "new" <=> phase[s] = "new",
         StartAccept(p)
  PROVE  /\ nextIo' \in Nat /\ where' \in [Sessions -> IoServices \cup {None}]
         /\ phase' \in [Sessions -> {"new", "waiting", "open", "closed"}]
         /\ \A s \in Sessions : phase'[s] = "new" <=> s > nextIo'
         /\ \A s \in Sessions : phase'[s] # "new" => where'[s] \in IoServices
         /\ \A s \in Sessions : phase[s] # "new" => where'[s] = where[s] /\ phase'[s] = p[s]
         /\ \A s \in Sessions : phase[s] = "new" => phase'[s] # "open"
<1>1. Index(nextIo) \in IoServices
  BY LifecycleAssumption DEF TypeOK, Index, IoServices
<1>2. CASE nextIo + 1 \notin Sessions
  BY <1>2 DEF StartAccept, TypeOK, SessionsInv
<1>3. CASE nextIo + 1 \in Sessions
  <2>1. phase[nextIo + 1] = "new"
    BY <1>3, LifecycleAssumption DEF TypeOK, SessionsInv, Sessions
  <2>2. /\ nextIo' = nextIo + 1 /\ nextIo \in Nat
        /\ where' = [where EXCEPT ![nextIo + 1] = Index(nextIo)]
        /\ phase' = [p EXCEPT ![nextIo + 1] = "waiting"]
    BY <1>3 DEF StartAccept, TypeOK
  <2>3. \A s \in Sessions : s \in Nat /\ (phase[s] = "new" <=> s > nextIo)
    BY LifecycleAssumption DEF SessionsInv, Sessions
  <2>4. \A s \in Sessions : s # nextIo + 1 => where'[s] = where[s] /\ phase'[s] = p[s]
    BY <2>2 DEF TypeOK
  <2>5. phase'[nextIo + 1] = "waiting" /\ where'[nextIo + 1] = Index(nextIo)
    BY <1>3, <2>2 DEF TypeOK
  <2>6. \A s \in Sessions : phase'[s] = "new" <=> s > nextIo'
    BY <2>2, <2>3, <2>4, <2>5
  <2>7. \A s \in Sessions : phase'[s] # "new" => where'[s] \in IoServices
    BY <1>1, <2>4, <2>5 DEF SessionsInv
  <2>8. /\ where' \in [Sessions -> IoServices \cup {None}]
        /\ phase' \in [Sessions -> {"new", "waiting", "open", "closed"}]
    BY <1>1, <2>2 DEF TypeOK
  <2> QED BY <2>1, <2>2, <2>4, <2>5, <2>6, <2>7, <2>8
<1> QED BY <1>2, <1>3

LEMMA StartServerL == ASSUME LInv, StartServer PROVE LInv'
<1> USE LifecycleAssumption DEF LInv, StartServer, configVars, poolVars, workerVars
<1>1. CASE /\ UNCHANGED <<server, where, nextIo, phase>> /\ main' = "exit"
  BY <1>1 DEF TypeOK, Object, ObjectsInv, SessionsInv, HandlersInv, PoolInv, Served
<1>2. CASE /\ server' = "alive" /\ main' = "run" /\ StartAccept(phase)
  <2>1. phase \in [Sessions -> {"new", "waiting", "open", "closed"}]
    BY DEF TypeOK
  <2>2. /\ nextIo' \in Nat /\ where' \in [Sessions -> IoServices \cup {None}]
        /\ phase' \in [Sessions -> {"new", "waiting", "open", "closed"}]
        /\ \A s \in Sessions : phase'[s] = "new" <=> s > nextIo'
        /\ \A s \in Sessions : phase'[s] # "new" => where'[s] \in IoServices
        /\ \A s \in Sessions : phase[s] # "new" => where'[s] = where[s] /\ phase'[s] = phase[s]
        /\ \A s \in Sessions : phase[s] = "new" => phase'[s] # "open"
    BY <1>2, <2>1, StartAcceptL
  <2> QED BY <1>2, <2>2 DEF TypeOK, Object, ObjectsInv, SessionsInv, HandlersInv, PoolInv, Served
<1> QED BY <1>1, <1>2

LEMMA HandleAcceptL == ASSUME LInv, NEW s \in Sessions, HandleAccept(s) PROVE LInv'
<1> USE LifecycleAssumption DEF LInv, HandleAccept, configVars, poolVars
<1>1. CASE StartAccept([phase EXCEPT ![s] = "open"]) /\ logic' = "alive"
           /\ worker' = IF worker = "none" THEN "running" ELSE worker
  <2> DEFINE p == [phase EXCEPT ![s] = "open"]
  <2>1. /\ p \in [Sessions -> {"new", "waiting", "open", "closed"}]
        /\ \A t \in Sessions : p[t] = "new" <=> phase[t] = "new"
    BY DEF TypeOK
  <2>2. /\ nextIo' \in Nat /\ where' \in [Sessions -> IoServices \cup {None}]
        /\ phase' \in [Sessions -> {"new", "waiting", "open", "closed"}]
        /\ \A t \in Sessions : phase'[t] = "new" <=> t > nextIo'
        /\ \A t \in Sessions : phase'[t] # "new" => where'[t] \in IoServices
        /\ \A t \in Sessions : phase[t] # "new" => where'[t] = where[t] /\ phase'[t] = p[t]
        /\ \A t \in Sessions : phase[t] = "new" => phase'[t] # "open"
    BY <1>1, <2>1, StartAcceptL
  <2> QED BY <1>1, <2>1, <2>2 DEF TypeOK, Object, ObjectsInv, SessionsInv, HandlersInv, PoolInv, Served
<1>2. CASE StartAccept([phase EXCEPT ![s] = "closed"]) /\ UNCHANGED <<logic, worker>>
  <2> DEFINE p == [phase EXCEPT ![s] = "closed"]
  <2>1. /\ p \in [Sessions -> {"new", "waiting", "open", "closed"}]
        /\ \A t \in Sessions : p[t] = "new" <=> phase[t] = "new"
    BY DEF TypeOK
  <2>2. /\ nextIo' \in Nat /\ where' \in [Sessions -> IoServices \cup {None}]
        /\ phase' \in [Sessions -> {"new", "waiting", "open", "closed"}]
        /\ \A t \in Sessions : phase'[t] = "new" <=> t > nextIo'
        /\ \A t \in Sessions : phase'[t] # "new" => where'[t] \in IoServices
        /\ \A t \in Sessions : phase[t] # "new" => where'[t] = where[t] /\ phase'[t] = p[t]
        /\ \A t \in Sessions : phase[t] = "new" => phase'[t] # "open"
    BY <1>2, <2>1, StartAcceptL
  <2> QED BY <1>2, <2>1, <2>2 DEF TypeOK, Object, ObjectsInv, SessionsInv, HandlersInv, PoolInv, Served
<1> QED BY <1>1, <1>2

LEMMA StartHandlerL == ASSUME LInv, NEW i \in IoServices, StartHandler(i) PROVE LInv'
<1> USE LifecycleAssumption DEF LInv, StartHandler, objects, sessionVars, workerVars, configVars, Reading
<1>1. TypeOK'
  BY DEF TypeOK, Object
<1>2. ObjectsInv'
  BY DEF TypeOK, ObjectsInv, Object
<1>3. SessionsInv'
  BY DEF TypeOK, SessionsInv
<1>4. HandlersInv'
  BY DEF TypeOK, HandlersInv
<1>5. PoolInv'
  BY DEF TypeOK, PoolInv, ObjectsInv, SessionsInv, HandlersInv
<1>6. Served'
  BY DEF Served, PoolInv, ObjectsInv, TypeOK
<1> QED BY <1>1, <1>2, <1>3, <1>4, <1>5, <1>6

LEMMA EndHandlerL == ASSUME LInv, NEW i \in IoServices, EndHandler(i) PROVE LInv'
<1> USE LifecycleAssumption DEF LInv, EndHandler, objects, configVars
<1>1. TypeOK'
  BY DEF TypeOK, Object, SessionsInv, HandlersInv
<1>2. ObjectsInv'
  BY DEF TypeOK, ObjectsInv, Object
<1>3. SessionsInv'
  BY DEF TypeOK, SessionsInv, HandlersInv
<1>4. HandlersInv'
  BY DEF TypeOK, HandlersInv
<1>5. PoolInv'
  BY DEF TypeOK, PoolInv, ObjectsInv, SessionsInv, HandlersInv
<1>6. Served'
  BY DEF Served, PoolInv, ObjectsInv, TypeOK
<1> QED BY <1>1, <1>2, <1>3, <1>4, <1>5, <1>6

LEMMA ReturnsL == ASSUME LInv, NEW i \in IoServices, Returns(i) PROVE LInv'
<1> USE LifecycleAssumption DEF LInv, Returns, objects, sessionVars, workerVars, configVars, Reading
<1>1. TypeOK'
  BY DEF TypeOK, Object
<1>2. ObjectsInv'
  BY DEF TypeOK, ObjectsInv, Object
<1>3. SessionsInv'
  BY DEF TypeOK, SessionsInv
<1>4. HandlersInv'
  BY DEF TypeOK, HandlersInv
<1>5. PoolInv'
  BY DEF TypeOK, PoolInv, ObjectsInv, SessionsInv, HandlersInv
<1>6. Served'
  BY DEF Served, PoolInv, ObjectsInv, TypeOK
<1> QED BY <1>1, <1>2, <1>3, <1>4, <1>5, <1>6

LEMMA TakeL == ASSUME LInv, Take PROVE LInv'
<1> USE LifecycleAssumption DEF LInv, Take, objects, sessionVars, poolVars, configVars
<1>1. TypeOK'
  BY DEF TypeOK, Object
<1>2. ObjectsInv'
  BY DEF TypeOK, ObjectsInv, Object
<1>3. SessionsInv'
  BY DEF TypeOK, SessionsInv
<1>4. HandlersInv'
  BY DEF TypeOK, HandlersInv
<1>5. PoolInv'
  BY DEF TypeOK, PoolInv, ObjectsInv, SessionsInv, HandlersInv
<1>6. Served'
  BY DEF Served, PoolInv, ObjectsInv, TypeOK
<1> QED BY <1>1, <1>2, <1>3, <1>4, <1>5, <1>6

LEMMA AnswerL == ASSUME LInv, Answer PROVE LInv'
<1> USE LifecycleAssumption DEF LInv, Answer, objects, sessionVars, poolVars, configVars
<1>1. TypeOK'
  BY DEF TypeOK, Object
<1>2. ObjectsInv'
  BY DEF TypeOK, ObjectsInv, Object
<1>3. SessionsInv'
  BY DEF TypeOK, SessionsInv
<1>4. HandlersInv'
  BY DEF TypeOK, HandlersInv
<1>5. PoolInv'
  BY DEF TypeOK, PoolInv, ObjectsInv, SessionsInv, HandlersInv
<1>6. Served'
  BY DEF Served, PoolInv, ObjectsInv, TypeOK
<1> QED BY <1>1, <1>2, <1>3, <1>4, <1>5, <1>6

LEMMA SignalL == ASSUME LInv, Signal PROVE LInv'
<1> USE LifecycleAssumption DEF LInv, Signal, objects, sessionVars, poolVars, workerVars, configVars, AfterSignal
<1>1. TypeOK'
  BY DEF TypeOK, Object
<1>2. ObjectsInv'
  BY DEF TypeOK, ObjectsInv, Object
<1>3. SessionsInv'
  BY DEF TypeOK, SessionsInv
<1>4. HandlersInv'
  BY DEF TypeOK, HandlersInv
<1>5. PoolInv'
  BY DEF TypeOK, PoolInv, ObjectsInv, SessionsInv, HandlersInv
<1>6. Served'
  BY DEF Served, PoolInv, ObjectsInv, TypeOK
<1> QED BY <1>1, <1>2, <1>3, <1>4, <1>5, <1>6

LEMMA ResetGuardsL == ASSUME LInv, ResetGuards PROVE LInv'
<1> USE LifecycleAssumption DEF LInv, ResetGuards, objects, sessionVars, workerVars, configVars, InStop
<1>1. TypeOK'
  BY DEF TypeOK, Object
<1>2. ObjectsInv'
  BY DEF TypeOK, ObjectsInv, Object
<1>3. SessionsInv'
  BY DEF TypeOK, SessionsInv
<1>4. HandlersInv'
  BY DEF TypeOK, HandlersInv
<1>5. PoolInv'
  BY DEF TypeOK, PoolInv, ObjectsInv, SessionsInv, HandlersInv
<1>6. Served'
  BY DEF Served, PoolInv, ObjectsInv, TypeOK
<1> QED BY <1>1, <1>2, <1>3, <1>4, <1>5, <1>6

LEMMA StopContextL == ASSUME LInv, NEW i \in IoServices, StopContext(i) PROVE LInv'
<1> USE LifecycleAssumption DEF LInv, StopContext, objects, sessionVars, workerVars, configVars, InStop, ToStop
<1>1. TypeOK'
  BY DEF TypeOK, Object
<1>2. ObjectsInv'
  BY DEF TypeOK, ObjectsInv, Object
<1>3. SessionsInv'
  BY DEF TypeOK, SessionsInv
<1>4. HandlersInv'
  BY DEF TypeOK, HandlersInv
<1>5. PoolInv'
  BY DEF TypeOK, PoolInv, ObjectsInv, SessionsInv, HandlersInv
<1>6. Served'
  BY DEF Served, PoolInv, ObjectsInv, TypeOK
<1> QED BY <1>1, <1>2, <1>3, <1>4, <1>5, <1>6

LEMMA JoinL == ASSUME LInv, NEW i \in IoServices, Join(i) PROVE LInv'
<1> USE LifecycleAssumption DEF LInv, Join, objects, sessionVars, workerVars, configVars, InStop
<1>1. TypeOK'
  BY DEF TypeOK, Object
<1>2. ObjectsInv'
  BY DEF TypeOK, ObjectsInv, Object
<1>3. SessionsInv'
  BY DEF TypeOK, SessionsInv
<1>4. HandlersInv'
  BY DEF TypeOK, HandlersInv
<1>5. PoolInv'
  BY DEF TypeOK, PoolInv, ObjectsInv, SessionsInv, HandlersInv
<1>6. Served'
  BY DEF Served, PoolInv, ObjectsInv, TypeOK
<1> QED BY <1>1, <1>2, <1>3, <1>4, <1>5, <1>6

LEMMA StopReturnsL == ASSUME LInv, StopReturns PROVE LInv'
<1> USE LifecycleAssumption DEF LInv, StopReturns, objects, sessionVars, poolVars, workerVars, configVars, AllJoined
<1>1. TypeOK'
  BY DEF TypeOK, Object
<1>2. ObjectsInv'
  BY DEF TypeOK, ObjectsInv, Object
<1>3. SessionsInv'
  BY DEF TypeOK, SessionsInv
<1>4. HandlersInv'
  BY DEF TypeOK, HandlersInv
<1>5. PoolInv'
  BY DEF TypeOK, PoolInv, ObjectsInv, SessionsInv, HandlersInv
<1>6. Served'
  BY DEF Served, PoolInv, ObjectsInv, TypeOK
<1> QED BY <1>1, <1>2, <1>3, <1>4, <1>5, <1>6

LEMMA DestroyServerL == ASSUME LInv, DestroyServer PROVE LInv'
<1> USE LifecycleAssumption DEF LInv, DestroyServer, configVars, sessionVars, poolVars, workerVars
<1>1. TypeOK'
  BY DEF TypeOK, Object
<1>2. ObjectsInv'
  BY DEF TypeOK, ObjectsInv, Object
<1>3. SessionsInv'
  BY DEF TypeOK, SessionsInv
<1>4. HandlersInv'
  BY DEF TypeOK, HandlersInv
<1>5. PoolInv'
  BY DEF TypeOK, PoolInv, ObjectsInv, SessionsInv, HandlersInv
<1>6. Served'
  BY DEF Served, PoolInv, ObjectsInv, TypeOK
<1> QED BY <1>1, <1>2, <1>3, <1>4, <1>5, <1>6

LEMMA DestroyConfigL == ASSUME LInv, DestroyConfig PROVE LInv'
<1> USE LifecycleAssumption DEF LInv, DestroyConfig, sessionVars, poolVars, workerVars
<1>1. TypeOK'
  BY DEF TypeOK, Object
<1>2. ObjectsInv'
  BY DEF TypeOK, ObjectsInv, Object
<1>3. SessionsInv'
  BY DEF TypeOK, SessionsInv
<1>4. HandlersInv'
  BY DEF TypeOK, HandlersInv
<1>5. PoolInv'
  BY DEF TypeOK, PoolInv, ObjectsInv, SessionsInv, HandlersInv
<1>6. Served'
  BY DEF Served, PoolInv, ObjectsInv, TypeOK
<1> QED BY <1>1, <1>2, <1>3, <1>4, <1>5, <1>6

LEMMA BeginPoolL == ASSUME LInv, BeginPool PROVE LInv'
<1> USE LifecycleAssumption DEF LInv, BeginPool, objects, sessionVars, poolVars, workerVars, configVars
<1>1. TypeOK'
  BY DEF TypeOK, Object
<1>2. ObjectsInv'
  BY DEF TypeOK, ObjectsInv, Object
<1>3. SessionsInv'
  BY DEF TypeOK, SessionsInv
<1>4. HandlersInv'
  BY DEF TypeOK, HandlersInv
<1>5. PoolInv'
  BY DEF TypeOK, PoolInv, ObjectsInv, SessionsInv, HandlersInv
<1>6. Served'
  BY DEF Served, PoolInv, ObjectsInv, TypeOK
<1> QED BY <1>1, <1>2, <1>3, <1>4, <1>5, <1>6

LEMMA EndPoolL == ASSUME LInv, EndPool PROVE LInv'
<1> USE LifecycleAssumption DEF LInv, EndPool, configVars, sessionVars, poolVars, workerVars, StopFirst, AllJoined
<1>1. TypeOK'
  BY DEF TypeOK, Object
<1>2. ObjectsInv'
  BY DEF TypeOK, ObjectsInv, Object
<1>3. SessionsInv'
  BY DEF TypeOK, SessionsInv
<1>4. HandlersInv'
  BY DEF TypeOK, HandlersInv
<1>5. PoolInv'
  BY DEF TypeOK, PoolInv, ObjectsInv, SessionsInv, HandlersInv
<1>6. Served'
  BY DEF Served, PoolInv, ObjectsInv, TypeOK
<1> QED BY <1>1, <1>2, <1>3, <1>4, <1>5, <1>6

LEMMA BeginLogicL == ASSUME LInv, BeginLogic PROVE LInv'
<1> USE LifecycleAssumption DEF LInv, BeginLogic, objects, sessionVars, poolVars, configVars
<1>1. TypeOK'
  BY DEF TypeOK, Object
<1>2. ObjectsInv'
  BY DEF TypeOK, ObjectsInv, Object
<1>3. SessionsInv'
  BY DEF TypeOK, SessionsInv
<1>4. HandlersInv'
  BY DEF TypeOK, HandlersInv
<1>5. PoolInv'
  BY DEF TypeOK, PoolInv, ObjectsInv, SessionsInv, HandlersInv
<1>6. Served'
  BY DEF Served, PoolInv, ObjectsInv, TypeOK
<1> QED BY <1>1, <1>2, <1>3, <1>4, <1>5, <1>6

LEMMA EndLogicL == ASSUME LInv, EndLogic PROVE LInv'
<1> USE LifecycleAssumption DEF LInv, EndLogic, configVars, sessionVars, poolVars
<1>1. TypeOK'
  BY DEF TypeOK, Object
<1>2. ObjectsInv'
  BY DEF TypeOK, ObjectsInv, Object
<1>3. SessionsInv'
  BY DEF TypeOK, SessionsInv
<1>4. HandlersInv'
  BY DEF TypeOK, HandlersInv
<1>5. PoolInv'
  BY DEF TypeOK, PoolInv, ObjectsInv, SessionsInv, HandlersInv
<1>6. Served'
  BY DEF Served, PoolInv, ObjectsInv, TypeOK
<1> QED BY <1>1, <1>2, <1>3, <1>4, <1>5, <1>6

LEMMA EndL == ASSUME LInv, End PROVE LInv'
<1> USE LifecycleAssumption DEF LInv, End, objects, sessionVars, poolVars, workerVars, configVars
<1>1. TypeOK'
  BY DEF TypeOK, Object
<1>2. ObjectsInv'
  BY DEF TypeOK, ObjectsInv, Object
<1>3. SessionsInv'
  BY DEF TypeOK, SessionsInv
<1>4. HandlersInv'
  BY DEF TypeOK, HandlersInv
<1>5. PoolInv'
  BY DEF TypeOK, PoolInv, ObjectsInv, SessionsInv, HandlersInv
<1>6. Served'
  BY DEF Served, PoolInv, ObjectsInv, TypeOK
<1> QED BY <1>1, <1>2, <1>3, <1>4, <1>5, <1>6

----------------------------------------------------------------------------
(* The inductive invariant. *)
THEOREM LifecycleInvariant == Spec => []LInv
<1>1. LInv /\ [Next]_vars => LInv'
  <2> SUFFICES ASSUME LInv, [Next]_vars PROVE LInv'
    OBVIOUS
  <2>1. CASE StartConfig
    BY <2>1, StartConfigL
  <2>2. CASE StartPool
    BY <2>2, StartPoolL
  <2>3. CASE StartServer
    BY <2>3, StartServerL
  <2>4. CASE \E s \in Sessions : HandleAccept(s)
    BY <2>4, HandleAcceptL
  <2>5. CASE \E i \in IoServices : StartHandler(i)
    BY <2>5, StartHandlerL
  <2>6. CASE \E i \in IoServices : EndHandler(i)
    BY <2>6, EndHandlerL
  <2>7. CASE \E i \in IoServices : Returns(i)
    BY <2>7, ReturnsL
  <2>8. CASE Take
    BY <2>8, TakeL
  <2>9. CASE Answer
    BY <2>9, AnswerL
  <2>10. CASE Signal
    BY <2>10, SignalL
  <2>11. CASE ResetGuards
    BY <2>11, ResetGuardsL
  <2>12. CASE \E i \in IoServices : StopContext(i)
    BY <2>12, StopContextL
  <2>13. CASE \E i \in IoServices : Join(i)
    BY <2>13, JoinL
  <2>14. CASE StopReturns
    BY <2>14, StopReturnsL
  <2>15. CASE DestroyServer
    BY <2>15, DestroyServerL
  <2>16. CASE DestroyConfig
    BY <2>16, DestroyConfigL
  <2>17. CASE BeginPool
    BY <2>17, BeginPoolL
  <2>18. CASE EndPool
    BY <2>18, EndPoolL
  <2>19. CASE BeginLogic
    BY <2>19, BeginLogicL
  <2>20. CASE EndLogic
    BY <2>20, EndLogicL
  <2>21. CASE End
    BY <2>21, EndL
  <2>22. CASE UNCHANGED vars
    BY <2>22 DEF vars, objects, configVars, sessionVars, poolVars, workerVars, LInv, TypeOK, Object,
       ObjectsInv, SessionsInv, HandlersInv, PoolInv, Served
  <2> QED BY <2>1, <2>2, <2>3, <2>4, <2>5, <2>6, <2>7, <2>8, <2>9, <2>10, <2>11,
            <2>12, <2>13, <2>14, <2>15, <2>16, <2>17, <2>18, <2>19, <2>20, <2>21, <2>22
         DEF Next, MainStep, StopStep, WorkerStep, Ended
<1> QED BY <1>1, InitL, PTL DEF Spec

(* Types, and that a handler runs on the thread of its session. *)
THEOREM LifecycleTypeOK == Spec => []TypeOK
<1>1. LInv => TypeOK
  BY DEF LInv
<1> QED BY <1>1, LifecycleInvariant, PTL

(* A handler on an IO thread finds the server object on the stack of main, *)
(* LogicSystem, ConfigMgr and the pool alive: the Stop in the signal       *)
(* handler comes before all of their ends.                                 *)
THEOREM LifecycleIoUsesLive == Spec => []IoUsesLive
<1>1. LInv => IoUsesLive
  <2> SUFFICES ASSUME LInv, NEW i \in IoServices, thread[i] = "handling"
               PROVE  server = "alive" /\ logic = "alive" /\ config = "alive" /\ pool = "alive"
    BY DEF IoUsesLive
  <2>1. main \in {"run", "stop"}
    BY DEF LInv, TypeOK, SessionsInv, HandlersInv, PoolInv
  <2>2. logic # "unborn"
    BY DEF LInv, SessionsInv, HandlersInv
  <2> QED BY <2>1, <2>2 DEF LInv, TypeOK, Object, ObjectsInv
<1> QED BY <1>1, LifecycleInvariant, PTL

(* No thread object is destroyed before it is joined, whatever order the   *)
(* static objects go in and wherever the start failed.                     *)
THEOREM LifecycleJoinedFirst == Spec => []JoinedFirst
<1>1. LInv => JoinedFirst
  BY DEF LInv, JoinedFirst, ObjectsInv, PoolInv
<1> QED BY <1>1, LifecycleInvariant, PTL

(* Every io_context has its thread until it is stopped. *)
THEOREM LifecycleServed == Spec => []Served
<1>1. LInv => Served
  BY DEF LInv
<1> QED BY <1>1, LifecycleInvariant, PTL
==============================================================================
