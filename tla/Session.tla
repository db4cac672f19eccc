------------------------------ MODULE Session ------------------------------
(***************************************************************************)
(* The life of a connection on the server: CServer (HandleAccept,          *)
(* ClearSession and the map _sessions) and CSession (read chain, Send,     *)
(* HandleWrite, Close), with the worker binding of LogicSystem.            *)
(*                                                                         *)
(* Three kinds of threads meet here: the main thread accepts, the IO       *)
(* thread of a session runs the completion handlers of its socket, one at a*)
(* time, and a worker thread answers.  asio itself is the completion of    *)
(* what is pending: an operation that finished before Close still reports  *)
(* success, one that did not reports an error.                             *)
(***************************************************************************)
EXTENDS Integers, Sequences

CONSTANTS
  Sessions,   \* the CSession objects
  MaxSendQue, \* MAX_SENDQUE
  MaxMsgs     \* bound: messages one session reads

ASSUME SessionAssumption == MaxSendQue \in Nat /\ MaxMsgs \in Nat

VARIABLES
  step,      \* step[s]: how far HandleAccept is with s
  sessions,  \* CServer::_sessions
  bound,     \* the keys of LogicSystem::_session_worker_map
  closed,    \* closed[s]: Close was called
  recv,      \* recv[s]: the outstanding read: none, pending or ready to be handled
  io,        \* io[s]: what the IO thread still has to do for a failed handler
  received,  \* received[s]: messages read in full
  lost,      \* history: open sessions of which PostMsgToQue dropped a message
  todo,      \* todo[s]: messages of s its worker has still to answer
  replies,   \* replies[s]: answers that went into the send queue
  sendQue,   \* sendQue[s]: _send_que, answers by number
  inFlight,  \* inFlight[s]: buffers of the outstanding async_writes
  flushed    \* flushed[s]: the first of them is written, its handler is due

readVars == <<recv, received, lost>>
sendVars == <<todo, replies, sendQue, inFlight, flushed>>
vars     == <<step, sessions, bound, closed, io, readVars, sendVars>>

(* The constructor of CServer starts the first accept. *)
Init == /\ \E s \in Sessions :
             step = [t \in Sessions |-> IF t = s THEN "accepting" ELSE "new"]
        /\ sessions = {} /\ bound = {} /\ lost = {}
        /\ closed   = [s \in Sessions |-> FALSE]
        /\ recv     = [s \in Sessions |-> "none"]
        /\ io       = [s \in Sessions |-> "idle"]
        /\ received = [s \in Sessions |-> 0]
        /\ todo     = [s \in Sessions |-> 0]
        /\ replies  = [s \in Sessions |-> 0]
        /\ sendQue  = [s \in Sessions |-> <<>>]
        /\ inFlight = [s \in Sessions |-> <<>>]
        /\ flushed  = [s \in Sessions |-> FALSE]

----------------------------------------------------------------------------
(* The main thread. *)

(* The order of HandleAccept. *)
After_StartFirst == [accepting |-> "start", start |-> "bind", bind |-> "insert"]   \* mutant
After            == [accepting |-> "bind", bind |-> "start", start |-> "insert"]

(* HandleAccept is done with s (l tells how) and accepts the next one.     *)
StartAccept(s, l) ==
  IF \E t \in Sessions : step[t] = "new"
  THEN \E t \in Sessions : /\ step[t] = "new"
                           /\ step' = [step EXCEPT ![s] = l, ![t] = "accepting"]
  ELSE step' = [step EXCEPT ![s] = l]

Accept(s) ==
  /\ step[s] = "accepting"
  /\ \/ step' = [step EXCEPT ![s] = After.accepting]
     \/ StartAccept(s, "failed")
  /\ UNCHANGED <<sessions, bound, closed, io, readVars, sendVars>>

BindSession(s) ==
  /\ step[s] = "bind"
  /\ bound' = bound \cup {s}
  /\ step'  = [step EXCEPT ![s] = After.bind]
  /\ UNCHANGED <<sessions, closed, io, readVars, sendVars>>

(* Start begins the read chain: from here on the IO thread is at work. *)
Start(s) ==
  /\ step[s] = "start"
  /\ recv' = [recv EXCEPT ![s] = "pending"]
  /\ step' = [step EXCEPT ![s] = After.start]
  /\ UNCHANGED <<sessions, bound, closed, io, received, lost, sendVars>>

Insert(s) ==
  /\ step[s] = "insert"
  /\ sessions' = sessions \cup {s}
  /\ StartAccept(s, "done")
  /\ UNCHANGED <<bound, closed, io, readVars, sendVars>>

----------------------------------------------------------------------------
(* asio completes what is pending on an open socket. *)

Arrive(s) ==
  /\ recv[s] = "pending" /\ ~closed[s] /\ received[s] < MaxMsgs
  /\ recv' = [recv EXCEPT ![s] = "ready"]
  /\ UNCHANGED <<step, sessions, bound, closed, io, received, lost, sendVars>>

Flush(s) ==
  /\ inFlight[s] # <<>> /\ ~flushed[s] /\ ~closed[s]
  /\ flushed' = [flushed EXCEPT ![s] = TRUE]
  /\ UNCHANGED <<step, sessions, bound, closed, io, readVars, todo, replies, sendQue, inFlight>>

(* The IO thread of s. *)

(* A message is complete: PostMsgToQue (a session without a worker loses   *)
(* it), then the next ReadHead.                                            *)
ReadBody(s) ==
  /\ io[s] = "idle" /\ recv[s] = "ready"
  /\ received' = [received EXCEPT ![s] = @ + 1]
  /\ todo' = IF s \in bound THEN [todo EXCEPT ![s] = @ + 1] ELSE todo
  /\ lost' = IF s \notin bound /\ ~closed[s] THEN lost \cup {s} ELSE lost
  /\ recv' = [recv EXCEPT ![s] = "pending"]
  /\ UNCHANGED <<step, sessions, bound, closed, io, replies, sendQue, inFlight, flushed>>

(* What every failed handler does: Close, then ClearSession (below).       *)
Fail_Open(s) == UNCHANGED closed /\ io' = [io EXCEPT ![s] = "erase"]       \* mutant: no Close
Fail(s)      == closed' = [closed EXCEPT ![s] = TRUE] /\ io' = [io EXCEPT ![s] = "erase"]

(* A read ends in an error, or its header carries an invalid id or length. *)
ReadFails(s) ==
  /\ io[s] = "idle" /\ recv[s] # "none"
  /\ recv' = [recv EXCEPT ![s] = "none"]
  /\ Fail(s)
  /\ UNCHANGED <<step, sessions, bound, received, lost, sendVars>>

(* HandleWrite without an error: pop, then write the next answer.          *)
HandleWrite(s) ==
  LET rest == Tail(sendQue[s])
  IN  /\ io[s] = "idle" /\ flushed[s]
      /\ sendQue'  = [sendQue EXCEPT ![s] = rest]
      /\ inFlight' = [inFlight EXCEPT ![s] =
                        Tail(@) \o (IF rest = <<>> THEN <<>> ELSE <<Head(rest)>>)]
      /\ flushed'  = [flushed EXCEPT ![s] = FALSE]
      /\ UNCHANGED <<step, sessions, bound, closed, io, readVars, todo, replies>>

(* HandleWrite with an error: nothing is popped. *)
WriteFails(s) ==
  /\ io[s] = "idle" /\ inFlight[s] # <<>> /\ ~flushed[s]
  /\ inFlight' = [inFlight EXCEPT ![s] = Tail(@)]
  /\ Fail(s)
  /\ UNCHANGED <<step, sessions, bound, readVars, todo, replies, sendQue, flushed>>

(* ClearSession erases the map entry under _mutex ... *)
Unbinds_IfFound(s) == s \in sessions         \* mutant: unbinds only what was in the map
Unbinds(s)         == TRUE

Erase(s) ==
  /\ io[s] = "erase"
  /\ sessions' = sessions \ {s}
  /\ io' = [io EXCEPT ![s] = IF Unbinds(s) THEN "unbind" ELSE "idle"]
  /\ UNCHANGED <<step, bound, closed, readVars, sendVars>>

(* ... and gives the worker binding back. *)
UnbindSession(s) ==
  /\ io[s] = "unbind"
  /\ bound' = bound \ {s}
  /\ io' = [io EXCEPT ![s] = "idle"]
  /\ UNCHANGED <<step, sessions, closed, readVars, sendVars>>

----------------------------------------------------------------------------
(* The worker thread of s answers a message: Send. A full queue drops the  *)
(* answer; only into an empty queue does it start a write of its own.      *)
StartsWrite_Short(q) == Len(q) <= 1          \* mutant: off by one
StartsWrite(q)       == Len(q) = 0

Send(s) ==
  LET n == replies[s] + 1
      q == sendQue[s]
  IN  /\ todo[s] > 0
      /\ todo' = [todo EXCEPT ![s] = @ - 1]
      /\ IF Len(q) > MaxSendQue
         THEN UNCHANGED <<replies, sendQue, inFlight>>
         ELSE /\ replies'  = [replies EXCEPT ![s] = n]
              /\ sendQue'  = [sendQue EXCEPT ![s] = Append(q, n)]
              /\ inFlight' = IF StartsWrite(q)
                             THEN [inFlight EXCEPT ![s] = Append(@, n)] ELSE inFlight
      /\ UNCHANGED <<step, sessions, bound, closed, io, readVars, flushed>>

(* Every session of the instance has come and gone. *)
Quiet == /\ \A s \in Sessions :
              /\ \/ step[s] = "failed"
                 \/ step[s] = "done" /\ closed[s] /\ recv[s] = "none"
              /\ io[s] = "idle" /\ inFlight[s] = <<>> /\ todo[s] = 0
         /\ UNCHANGED vars

MainStep(s) == BindSession(s) \/ Start(s) \/ Insert(s)
IoStep(s)   == ReadBody(s) \/ HandleWrite(s) \/ Erase(s) \/ UnbindSession(s)
               \/ (closed[s] /\ (ReadFails(s) \/ WriteFails(s)))

Next == \/ \E s \in Sessions : \/ Accept(s) \/ MainStep(s) \/ Arrive(s) \/ Flush(s)
                               \/ ReadFails(s) \/ WriteFails(s) \/ IoStep(s) \/ Send(s)
        \/ Quiet

Spec == Init /\ [][Next]_vars

(* Every thread gets on with what it has to do, and asio ends what is      *)
(* pending on a closed socket.  An open one owes nothing.                  *)
FairSpec == /\ Spec
            /\ \A s \in Sessions : WF_vars(MainStep(s)) /\ WF_vars(IoStep(s)) /\ WF_vars(Send(s))

----------------------------------------------------------------------------
(* Every variable keeps its type. *)
TypeOK ==
  /\ step \in [Sessions -> {"new", "accepting", "bind", "start", "insert", "done", "failed"}]
  /\ sessions \subseteq Sessions /\ bound \subseteq Sessions /\ lost \subseteq Sessions
  /\ closed \in [Sessions -> BOOLEAN]
  /\ recv \in [Sessions -> {"none", "pending", "ready"}]
  /\ io \in [Sessions -> {"idle", "erase", "unbind"}]
  /\ received \in [Sessions -> 0 .. MaxMsgs]
  /\ todo \in [Sessions -> 0 .. MaxMsgs]
  /\ replies \in [Sessions -> 0 .. MaxMsgs]
  /\ sendQue \in [Sessions -> Seq(1 .. MaxMsgs)]
  /\ inFlight \in [Sessions -> {<<>>} \cup {<<n>> : n \in 1 .. MaxMsgs}]
  /\ flushed \in [Sessions -> BOOLEAN]

(* An accepted connection that is open is in _sessions and has its worker, *)
(* whatever fails around it (CServer.cpp:41).                              *)
Registered == \A s \in Sessions : step[s] = "done" /\ ~closed[s] => s \in sessions \cap bound

(* No worker binding outlives its connection: what is bound is still being *)
(* accepted, read from or cleared, also when ClearSession ran before the   *)
(* session was in the map.                                                 *)
NoStaleBinding == \A s \in bound : \/ step[s] = "start"
                                   \/ recv[s] # "none"
                                   \/ io[s] # "idle"

(* No message of an open connection is dropped for want of a worker. *)
NoMessageLost == lost = {}

(* One async_write at a time, always of the oldest answer; an open         *)
(* connection with answers left has one under way (CSession.cpp:79, 84).   *)
OneWriter == \A s \in Sessions :
  /\ inFlight[s] # <<>> => sendQue[s] # <<>> /\ inFlight[s] = <<Head(sendQue[s])>>
  /\ ~closed[s] /\ sendQue[s] # <<>> => inFlight[s] # <<>>

(* A closed connection loses its binding and all its pending operations.   *)
Released == \A s \in Sessions :
              closed[s] ~> s \notin bound /\ recv[s] = "none" /\ inFlight[s] = <<>>

(* The map holds live sessions; a session that is over is not in it        *)
(* (CServer.h:16).                                                         *)
NoLeak == \A s \in sessions : closed[s] => recv[s] # "none" \/ io[s] # "idle" \/ inFlight[s] # <<>>
=============================================================================
