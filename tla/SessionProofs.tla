--------------------------- MODULE SessionProofs ---------------------------
(***************************************************************************)
(* Proofs about Session, for any number of connections and messages: who is*)
(* open is registered and bound, no binding is left behind, and the send   *)
(* queue has one writer.                                                   *)
(***************************************************************************)
EXTENDS Session, SequenceTheorems, TLAPS

(* As much of the types as the proof needs. *)
Types ==
  /\ step \in [Sessions -> {"new", "accepting", "bind", "start", "insert", "done", "failed"}]
  /\ sessions \subseteq Sessions /\ bound \subseteq Sessions
  /\ closed \in [Sessions -> BOOLEAN]
  /\ recv \in [Sessions -> {"none", "pending", "ready"}]
  /\ io \in [Sessions -> {"idle", "erase", "unbind"}]
  /\ todo \in [Sessions -> Nat] /\ replies \in [Sessions -> Nat]
  /\ sendQue \in [Sessions -> Seq(Nat)] /\ inFlight \in [Sessions -> Seq(Nat)]
  /\ flushed \in [Sessions -> BOOLEAN]

(* Before Start nothing happens on a session. *)
Untouched == \A s \in Sessions : step[s] \notin {"insert", "done"} =>
               /\ ~closed[s] /\ recv[s] = "none" /\ io[s] = "idle"
               /\ todo[s] = 0 /\ sendQue[s] = <<>> /\ inFlight[s] = <<>>
               /\ s \in bound => step[s] = "start"

(* After it an open session is bound and its read chain goes on. *)
Reading == \A s \in Sessions :
             /\ step[s] = "start" => s \in bound
             /\ step[s] \in {"insert", "done"} /\ ~closed[s] => s \in bound /\ recv[s] # "none"

(* What has failed is closed. *)
Clearing == \A s \in Sessions : io[s] # "idle" => closed[s]

FlushedInv == \A s \in Sessions : flushed[s] => inFlight[s] # <<>>

(* The inductive invariant. *)
SInv == /\ Types /\ Untouched /\ Reading /\ Clearing /\ FlushedInv
        /\ Registered /\ NoStaleBinding /\ OneWriter

(* The part about the accept and the binding, and the part about sending.  *)
LifeInv == Untouched /\ Reading /\ Clearing /\ Registered /\ NoStaleBinding
SendInv == FlushedInv /\ OneWriter

LEMMA InitS == Init => SInv
<1>. SUFFICES ASSUME Init PROVE SInv
  OBVIOUS
<1>1. PICK s \in Sessions : step = [t \in Sessions |-> IF t = s THEN "accepting" ELSE "new"]
  BY DEF Init
<1>2. /\ sendQue \in [Sessions -> Seq(Nat)] /\ inFlight \in [Sessions -> Seq(Nat)]
  BY EmptySeq DEF Init
<1>3. Types
  BY <1>1, <1>2 DEF Init, Types
<1>4. Untouched /\ Reading /\ Clearing /\ FlushedInv /\ Registered /\ NoStaleBinding /\ OneWriter
  BY <1>1 DEF Init, Untouched, Reading, Clearing, FlushedInv, Registered, NoStaleBinding, OneWriter
<1>. QED  BY <1>3, <1>4 DEF SInv

----------------------------------------------------------------------------
(* The main thread. *)

(* HandleAccept moves one session on and may begin to accept another one.  *)
LEMMA AcceptNext == ASSUME Types, NEW s \in Sessions, NEW l \in {"done", "failed"},
                           step[s] # "new", StartAccept(s, l)
                    PROVE  /\ step' \in [Sessions -> {"new", "accepting", "bind", "start",
                                                      "insert", "done", "failed"}]
                           /\ step'[s] = l
                           /\ \A t \in Sessions \ {s} :
                                step'[t] = step[t] \/ (step[t] = "new" /\ step'[t] = "accepting")
<1>1. CASE \E t \in Sessions : step[t] = "new"
  <2>1. PICK t \in Sessions : step[t] = "new" /\ step' = [step EXCEPT ![s] = l, ![t] = "accepting"]
    BY <1>1 DEF StartAccept
  <2>. QED  BY <2>1 DEF Types
<1>2. CASE ~\E t \in Sessions : step[t] = "new"
  BY <1>2 DEF StartAccept, Types
<1>. QED  BY <1>1, <1>2

LEMMA AcceptS == ASSUME SInv, NEW s \in Sessions, Accept(s) PROVE SInv'
<1>. USE DEF SInv
<1>1. /\ step' \in [Sessions -> {"new", "accepting", "bind", "start", "insert", "done", "failed"}]
      /\ step[s] = "accepting" /\ step'[s] \in {"bind", "failed"}
      /\ \A t \in Sessions \ {s} :
           step'[t] = step[t] \/ (step[t] = "new" /\ step'[t] = "accepting")
  <2>1. CASE step' = [step EXCEPT ![s] = After.accepting]
    BY <2>1 DEF Accept, After, Types
  <2>2. CASE StartAccept(s, "failed")
    BY <2>2, AcceptNext DEF Accept
  <2>. QED  BY <2>1, <2>2 DEF Accept
<1>2. UNCHANGED <<sessions, bound, closed, io, readVars, sendVars>>
  BY DEF Accept
<1>3. Types'
  BY <1>1, <1>2 DEF Types, readVars, sendVars
<1>4. Untouched'
  <2>. SUFFICES ASSUME NEW t \in Sessions, step'[t] \notin {"insert", "done"}
                PROVE  /\ ~closed[t] /\ recv[t] = "none" /\ io[t] = "idle"
                       /\ todo[t] = 0 /\ sendQue[t] = <<>> /\ inFlight[t] = <<>>
                       /\ t \in bound => step'[t] = "start"
    BY <1>2 DEF Untouched, readVars, sendVars
  <2>1. step[t] \notin {"insert", "done"} /\ (step[t] = "start" => step'[t] = "start")
    BY <1>1
  <2>. QED  BY <2>1 DEF Untouched
<1>6. Reading' /\ Clearing'
  BY <1>1, <1>2 DEF Types, Untouched, Reading, Clearing, readVars, sendVars
<1>7. Registered'
  BY <1>1, <1>2 DEF Types, Registered, readVars, sendVars
<1>8. NoStaleBinding'
  BY <1>1, <1>2 DEF Types, Untouched, NoStaleBinding, readVars, sendVars
<1>5. SendInv'
  BY <1>2 DEF SendInv, FlushedInv, OneWriter, readVars, sendVars
<1>. QED  BY <1>3, <1>4, <1>5, <1>6, <1>7, <1>8 DEF SendInv

LEMMA BindS == ASSUME SInv, NEW s \in Sessions, BindSession(s) PROVE SInv'
<1>. USE DEF SInv, BindSession, After, readVars, sendVars
<1>1. Types'
  BY DEF Types
<1>2. LifeInv'
  BY DEF LifeInv, Types, Untouched, Reading, Clearing, Registered, NoStaleBinding
<1>3. SendInv'
  BY DEF SendInv, FlushedInv, OneWriter
<1>. QED  BY <1>1, <1>2, <1>3 DEF LifeInv, SendInv

LEMMA StartS == ASSUME SInv, NEW s \in Sessions, Start(s) PROVE SInv'
<1>. USE DEF SInv, Start, After, sendVars
<1>1. Types'
  BY DEF Types
<1>2. LifeInv'
  BY DEF LifeInv, Types, Untouched, Reading, Clearing, Registered, NoStaleBinding
<1>3. SendInv'
  BY DEF SendInv, FlushedInv, OneWriter
<1>. QED  BY <1>1, <1>2, <1>3 DEF LifeInv, SendInv

LEMMA InsertS == ASSUME SInv, NEW s \in Sessions, Insert(s) PROVE SInv'
<1>. USE DEF SInv
<1>1. /\ step' \in [Sessions -> {"new", "accepting", "bind", "start", "insert", "done", "failed"}]
      /\ step[s] = "insert" /\ step'[s] = "done"
      /\ \A t \in Sessions \ {s} :
           step'[t] = step[t] \/ (step[t] = "new" /\ step'[t] = "accepting")
  BY AcceptNext DEF Insert
<1>2. sessions' = sessions \cup {s} /\ UNCHANGED <<bound, closed, io, readVars, sendVars>>
  BY DEF Insert
<1>3. Types'
  BY <1>1, <1>2 DEF Types, readVars, sendVars
<1>4. Untouched'
  BY <1>1, <1>2 DEF Types, Untouched, readVars, sendVars
<1>6. Reading' /\ Clearing'
  BY <1>1, <1>2 DEF Types, Untouched, Reading, Clearing, readVars, sendVars
<1>7. Registered'
  BY <1>1, <1>2 DEF Types, Reading, Registered, readVars, sendVars
<1>8. NoStaleBinding'
  <2>1. \A t \in Sessions : step[t] = "start" => step'[t] = "start"
    BY <1>1
  <2>2. bound \subseteq Sessions
    BY DEF Types
  <2>. QED  BY <1>2, <2>1, <2>2 DEF NoStaleBinding, readVars
<1>5. SendInv'
  BY <1>2 DEF SendInv, FlushedInv, OneWriter, readVars, sendVars
<1>. QED  BY <1>3, <1>4, <1>5, <1>6, <1>7, <1>8 DEF SendInv

----------------------------------------------------------------------------
(* asio and the IO thread. *)

LEMMA ArriveS == ASSUME SInv, NEW s \in Sessions, Arrive(s) PROVE SInv'
<1>. USE DEF SInv, Arrive, sendVars
<1>1. Types'
  BY DEF Types
<1>2. LifeInv'
  BY DEF LifeInv, Types, Untouched, Reading, Clearing, Registered, NoStaleBinding
<1>3. SendInv'
  BY DEF SendInv, FlushedInv, OneWriter
<1>. QED  BY <1>1, <1>2, <1>3 DEF LifeInv, SendInv

LEMMA FlushS == ASSUME SInv, NEW s \in Sessions, Flush(s) PROVE SInv'
<1>. USE DEF SInv, Flush, readVars
<1>1. Types'
  BY DEF Types
<1>2. LifeInv'
  BY DEF LifeInv, Types, Untouched, Reading, Clearing, Registered, NoStaleBinding
<1>3. SendInv'
  BY DEF SendInv, Types, FlushedInv, OneWriter
<1>. QED  BY <1>1, <1>2, <1>3 DEF LifeInv, SendInv

LEMMA ReadBodyS == ASSUME SInv, NEW s \in Sessions, ReadBody(s) PROVE SInv'
<1>. USE DEF SInv, ReadBody
<1>1. Types'
  BY DEF Types
<1>2. LifeInv'
  BY DEF LifeInv, Types, Untouched, Reading, Clearing, Registered, NoStaleBinding
<1>3. SendInv'
  BY DEF SendInv, FlushedInv, OneWriter
<1>. QED  BY <1>1, <1>2, <1>3 DEF LifeInv, SendInv

LEMMA ReadFailsS == ASSUME SInv, NEW s \in Sessions, ReadFails(s) PROVE SInv'
<1>. USE DEF SInv, ReadFails, Fail, sendVars
<1>1. Types'
  BY DEF Types
<1>2. LifeInv'
  BY DEF LifeInv, Types, Untouched, Reading, Clearing, Registered, NoStaleBinding
<1>3. SendInv'
  BY DEF SendInv, Types, FlushedInv, OneWriter
<1>. QED  BY <1>1, <1>2, <1>3 DEF LifeInv, SendInv

LEMMA EraseS == ASSUME SInv, NEW s \in Sessions, Erase(s) PROVE SInv'
<1>. USE DEF SInv, Erase, Unbinds, readVars, sendVars
<1>1. Types'
  BY DEF Types
<1>2. LifeInv'
  BY DEF LifeInv, Types, Untouched, Reading, Clearing, Registered, NoStaleBinding
<1>3. SendInv'
  BY DEF SendInv, FlushedInv, OneWriter
<1>. QED  BY <1>1, <1>2, <1>3 DEF LifeInv, SendInv

LEMMA UnbindS == ASSUME SInv, NEW s \in Sessions, UnbindSession(s) PROVE SInv'
<1>. USE DEF SInv, UnbindSession, readVars, sendVars
<1>1. Types'
  BY DEF Types
<1>2. LifeInv'
  BY DEF LifeInv, Types, Untouched, Reading, Clearing, Registered, NoStaleBinding
<1>3. SendInv'
  BY DEF SendInv, FlushedInv, OneWriter
<1>. QED  BY <1>1, <1>2, <1>3 DEF LifeInv, SendInv

(* The answer at the head is written; the next one, if any, goes out.      *)
LEMMA HandleWriteS == ASSUME SInv, NEW s \in Sessions, HandleWrite(s) PROVE SInv'
<1>. USE DEF SInv
<1>. DEFINE q == sendQue[s]
            rest == Tail(q)
            next == IF rest = <<>> THEN <<>> ELSE <<Head(rest)>>
<1>1. /\ flushed[s] /\ inFlight[s] # <<>> /\ q # <<>> /\ inFlight[s] = <<Head(q)>>
      /\ q \in Seq(Nat)
  BY DEF HandleWrite, FlushedInv, OneWriter, Types
<1>2. rest \in Seq(Nat)
  BY <1>1, HeadTailProperties
<1>3. next \in Seq(Nat)
  <2>1. CASE rest = <<>>
    BY <2>1, EmptySeq
  <2>2. CASE rest # <<>>
    <3>1. Head(rest) \in Nat
      BY <1>2, <2>2, HeadTailProperties
    <3>. QED  BY <2>2, <3>1
  <2>. QED  BY <2>1, <2>2
<1>4. Tail(inFlight[s]) \o next = next
  <2>1. Tail(inFlight[s]) = <<>>
    BY <1>1
  <2>. QED  BY <1>3, <2>1, ConcatEmptySeq
<1>5. /\ sendQue'  = [sendQue EXCEPT ![s] = rest]
      /\ inFlight' = [inFlight EXCEPT ![s] = next]
      /\ flushed'  = [flushed EXCEPT ![s] = FALSE]
      /\ UNCHANGED <<step, sessions, bound, closed, io, readVars, todo, replies>>
  BY <1>4 DEF HandleWrite
<1>6. next # <<>> => rest # <<>> /\ next = <<Head(rest)>>
  OBVIOUS
<1>7. rest # <<>> => next # <<>>
  OBVIOUS
<1>. HIDE DEF q, rest, next
<1>8. Types'
  BY <1>2, <1>3, <1>5 DEF Types, readVars
<1>9. LifeInv'
  <2>1. step[s] \in {"insert", "done"}
    BY <1>1 DEF Untouched, Types
  <2>. QED  BY <1>5, <2>1 DEF LifeInv, Types, Untouched, Reading, Clearing, Registered,
                               NoStaleBinding, readVars
<1>10. SendInv'
  BY <1>5, <1>6, <1>7 DEF SendInv, Types, FlushedInv, OneWriter, readVars
<1>. QED  BY <1>8, <1>9, <1>10 DEF LifeInv, SendInv

LEMMA WriteFailsS == ASSUME SInv, NEW s \in Sessions, WriteFails(s) PROVE SInv'
<1>. USE DEF SInv
<1>1. inFlight[s] # <<>> /\ inFlight[s] = <<Head(sendQue[s])>> /\ io[s] = "idle"
  BY DEF WriteFails, OneWriter
<1>2. Tail(inFlight[s]) = <<>> /\ <<>> \in Seq(Nat)
  BY <1>1, EmptySeq
<1>3. /\ inFlight' = [inFlight EXCEPT ![s] = <<>>]
      /\ closed' = [closed EXCEPT ![s] = TRUE] /\ io' = [io EXCEPT ![s] = "erase"]
      /\ ~flushed[s]
      /\ UNCHANGED <<step, sessions, bound, readVars, todo, replies, sendQue, flushed>>
  BY <1>2 DEF WriteFails, Fail
<1>4. Types'
  BY <1>2, <1>3 DEF Types, readVars
<1>5. LifeInv'
  <2>1. step[s] \in {"insert", "done"}
    BY <1>1 DEF Untouched, Types
  <2>. QED  BY <1>3, <2>1 DEF LifeInv, Types, Untouched, Reading, Clearing, Registered,
                               NoStaleBinding, readVars
<1>6. SendInv'
  BY <1>3 DEF SendInv, Types, FlushedInv, OneWriter, readVars
<1>. QED  BY <1>4, <1>5, <1>6 DEF LifeInv, SendInv

(* Send writes only if the queue was empty, and then nothing is under way. *)
LEMMA SendS == ASSUME SInv, NEW s \in Sessions, Send(s) PROVE SInv'
<1>. USE DEF SInv
<1>. DEFINE q == sendQue[s]
            n == replies[s] + 1
<1>1. q \in Seq(Nat) /\ n \in Nat /\ inFlight[s] \in Seq(Nat) /\ todo[s] > 0
  BY DEF Types, Send
<1>2. Append(q, n) \in Seq(Nat) /\ Append(q, n) # <<>>
  BY <1>1, AppendProperties
<1>3. step[s] \in {"insert", "done"}
  BY <1>1 DEF Untouched, Types
<1>4. todo' = [todo EXCEPT ![s] = @ - 1] /\ todo' \in [Sessions -> Nat]
  BY <1>1 DEF Send, Types
<1>5. UNCHANGED <<step, sessions, bound, closed, io, readVars, flushed>>
  BY DEF Send
<1>6. LifeInv' /\ Types' /\ SendInv'
  <2>1. CASE UNCHANGED <<replies, sendQue, inFlight>>
    <3>1. Types'
      BY <1>4, <1>5, <2>1 DEF Types, readVars
    <3>2. LifeInv'
      BY <1>3, <1>4, <1>5, <2>1 DEF LifeInv, Types, Untouched, Reading, Clearing, Registered,
                                     NoStaleBinding, readVars
    <3>3. SendInv'
      BY <1>5, <2>1 DEF SendInv, FlushedInv, OneWriter
    <3>. QED  BY <3>1, <3>2, <3>3
  <2>2. CASE /\ replies' = [replies EXCEPT ![s] = n]
             /\ sendQue' = [sendQue EXCEPT ![s] = Append(q, n)]
             /\ inFlight' = IF StartsWrite(q)
                            THEN [inFlight EXCEPT ![s] = Append(@, n)] ELSE inFlight
    <3>1. CASE q = <<>>
      <4>1. inFlight[s] = <<>> /\ StartsWrite(q)
        BY <3>1 DEF OneWriter, StartsWrite
      <4>2. Append(q, n) = <<n>> /\ Append(inFlight[s], n) = <<n>> /\ <<n>> \in Seq(Nat)
        BY <1>1, <3>1, <4>1
      <4>3. /\ sendQue' = [sendQue EXCEPT ![s] = <<n>>]
            /\ inFlight' = [inFlight EXCEPT ![s] = <<n>>]
        BY <2>2, <4>1, <4>2
      <4>4. Head(<<n>>) = n /\ <<n>> # <<>>
        OBVIOUS
      <4>. HIDE DEF q, n
      <4>5. Types'
        BY <1>1, <1>4, <1>5, <2>2, <4>2, <4>3 DEF Types, readVars
      <4>6. LifeInv'
        BY <1>3, <1>4, <1>5, <4>3 DEF LifeInv, Types, Untouched, Reading, Clearing, Registered,
                                       NoStaleBinding, readVars
      <4>7. SendInv'
        BY <1>5, <4>3, <4>4 DEF SendInv, Types, FlushedInv, OneWriter
      <4>. QED  BY <4>5, <4>6, <4>7
    <3>2. CASE q # <<>>
      <4>1. ~StartsWrite(q)
        BY <1>1, <3>2, EmptySeq DEF StartsWrite
      <4>2. sendQue' = [sendQue EXCEPT ![s] = Append(q, n)] /\ UNCHANGED inFlight
        BY <2>2, <4>1
      <4>3. Head(Append(q, n)) = Head(q)
        BY <1>1, <3>2, AppendProperties
      <4>4. Types'
        BY <1>1, <1>2, <1>4, <1>5, <2>2, <4>2 DEF Types, readVars
      <4>5. LifeInv'
        BY <1>3, <1>4, <1>5, <4>2 DEF LifeInv, Types, Untouched, Reading, Clearing, Registered,
                                       NoStaleBinding, readVars
      <4>6. FlushedInv'
        BY <1>5, <4>2 DEF FlushedInv
      <4>7. OneWriter'
        BY <1>2, <1>5, <3>2, <4>2, <4>3 DEF Types, OneWriter
      <4>. QED  BY <4>4, <4>5, <4>6, <4>7 DEF SendInv
    <3>. QED  BY <3>1, <3>2
  <2>. QED  BY <2>1, <2>2 DEF Send
<1>. QED  BY <1>6 DEF LifeInv, SendInv

LEMMA StutterS == ASSUME SInv, UNCHANGED vars PROVE SInv'
BY DEF vars, readVars, sendVars, SInv, Types, Untouched, Reading, Clearing, FlushedInv, Registered,
       NoStaleBinding, OneWriter

LEMMA NextS == SInv /\ [Next]_vars => SInv'
<1>1. ASSUME SInv, Quiet PROVE SInv'
  BY <1>1, StutterS DEF Quiet
<1>2. ASSUME SInv, NEW s \in Sessions, IoStep(s) PROVE SInv'
  BY <1>2, ReadBodyS, HandleWriteS, EraseS, UnbindS, ReadFailsS, WriteFailsS DEF IoStep
<1>3. ASSUME SInv, NEW s \in Sessions, MainStep(s) PROVE SInv'
  BY <1>3, BindS, StartS, InsertS DEF MainStep
<1>. QED  BY <1>1, <1>2, <1>3, AcceptS, ArriveS, FlushS, ReadFailsS, WriteFailsS, SendS, StutterS
          DEF Next

----------------------------------------------------------------------------
(* The inductive invariant holds in every reachable state. *)
THEOREM SessionInvariant == Spec => []SInv
BY InitS, NextS, PTL DEF Spec

(* An accepted connection that is open is in _sessions and has its worker. *)
THEOREM SessionRegistered == Spec => []Registered
<1>1. SInv => Registered
  BY DEF SInv
<1>. QED  BY <1>1, SessionInvariant, PTL

(* No worker binding outlives its connection, however Close, ClearSession  *)
(* and HandleAccept interleave.                                            *)
THEOREM SessionNoStaleBinding == Spec => []NoStaleBinding
<1>1. SInv => NoStaleBinding
  BY DEF SInv
<1>. QED  BY <1>1, SessionInvariant, PTL

(* Send and HandleWrite never have two writes under way and never leave an *)
(* answer in the queue of an open connection with none.                    *)
THEOREM SessionOneWriter == Spec => []OneWriter
<1>1. SInv => OneWriter
  BY DEF SInv
<1>. QED  BY <1>1, SessionInvariant, PTL

(* A message that PostMsgToQue drops was read from a closed connection. *)
THEOREM SessionNoMessageLost == Spec => []NoMessageLost
<1>1. Init => NoMessageLost
  BY DEF Init, NoMessageLost
<1>2. SInv /\ NoMessageLost /\ [Next]_vars => NoMessageLost'
  <2>. SUFFICES ASSUME SInv, NoMessageLost, [Next]_vars PROVE NoMessageLost'
    OBVIOUS
  <2>1. ASSUME NEW s \in Sessions, ReadBody(s) PROVE NoMessageLost'
    <3>1. step[s] \in {"insert", "done"}
      BY <2>1 DEF ReadBody, SInv, Untouched, Types
    <3>2. s \in bound \/ closed[s]
      BY <3>1 DEF SInv, Reading, Types
    <3>. QED  BY <2>1, <3>2 DEF ReadBody, NoMessageLost
  <2>2. ASSUME NEW s \in Sessions, HandleWrite(s) \/ Erase(s) \/ UnbindSession(s)
        PROVE  UNCHANGED lost
    BY <2>2 DEF HandleWrite, Erase, UnbindSession, readVars
  <2>3. ASSUME NEW s \in Sessions, ReadFails(s) \/ WriteFails(s)
        PROVE  UNCHANGED lost
    BY <2>3 DEF ReadFails, WriteFails, readVars
  <2>4. ASSUME NEW s \in Sessions, Accept(s) \/ MainStep(s) \/ Arrive(s) \/ Flush(s) \/ Send(s)
        PROVE  UNCHANGED lost
    BY <2>4 DEF Accept, MainStep, BindSession, Start, Insert, Arrive, Flush, Send, readVars
  <2>5. Quiet \/ UNCHANGED vars => UNCHANGED lost
    BY DEF Quiet, vars, readVars
  <2>. QED  BY <2>1, <2>2, <2>3, <2>4, <2>5 DEF Next, IoStep, NoMessageLost
<1>. QED  BY <1>1, <1>2, SessionInvariant, PTL DEF Spec

----------------------------------------------------------------------------
(* Every answer belongs to a message: at most MaxMsgs are read, a read is  *)
(* ready only for one more, and what is answered or still to be answered   *)
(* has been read.                                                          *)
CountS ==
  /\ received \in [Sessions -> Nat] /\ lost \subseteq Sessions
  /\ sendQue \in [Sessions -> Seq(1 .. MaxMsgs)]
  /\ \A s \in Sessions : /\ received[s] <= MaxMsgs
                         /\ recv[s] = "ready" => received[s] < MaxMsgs
                         /\ todo[s] + replies[s] <= received[s]

LEMMA InitCount == Init => CountS
<1>. SUFFICES ASSUME Init PROVE CountS
  OBVIOUS
<1>1. <<>> \in Seq(1 .. MaxMsgs)
  BY EmptySeq
<1>. QED  BY <1>1, SessionAssumption DEF Init, CountS

LEMMA SameCount == ASSUME CountS, UNCHANGED <<received, lost, todo, replies, sendQue>>,
                          \A s \in Sessions : recv'[s] = "ready" => recv[s] = "ready"
                   PROVE  CountS'
BY DEF CountS

LEMMA ReadCount == ASSUME SInv, CountS, NEW s \in Sessions, Arrive(s) \/ ReadBody(s)
                   PROVE  CountS'
<1>1. /\ received[s] \in Nat /\ todo[s] \in Nat /\ replies[s] \in Nat /\ MaxMsgs \in Nat
      /\ received[s] <= MaxMsgs /\ todo[s] + replies[s] <= received[s]
      /\ recv \in [Sessions -> {"none", "pending", "ready"}]
      /\ todo \in [Sessions -> Nat]
  BY SessionAssumption DEF SInv, Types, CountS
<1>2. CASE Arrive(s)
  BY <1>1, <1>2 DEF Arrive, CountS, sendVars
<1>3. CASE ReadBody(s)
  <2>1. /\ received' = [received EXCEPT ![s] = received[s] + 1] /\ received[s] < MaxMsgs
        /\ recv' = [recv EXCEPT ![s] = "pending"]
        /\ UNCHANGED <<replies, sendQue>>
    BY <1>3 DEF ReadBody, CountS
  <2>2. todo' = [todo EXCEPT ![s] = todo[s] + 1] \/ todo' = todo
    BY <1>3 DEF ReadBody
  <2>3. lost' \subseteq Sessions
    BY <1>3 DEF ReadBody, CountS
  <2>4. received' \in [Sessions -> Nat]
    BY <1>1, <2>1 DEF CountS
  <2>5. ASSUME NEW t \in Sessions
        PROVE  /\ received'[t] <= MaxMsgs
               /\ recv'[t] = "ready" => received'[t] < MaxMsgs
               /\ todo'[t] + replies'[t] <= received'[t]
    <3>1. CASE t = s
      <4>1. received'[s] = received[s] + 1 /\ recv'[s] = "pending" /\ replies'[s] = replies[s]
        BY <1>1, <2>1 DEF CountS
      <4>2. todo'[s] = todo[s] + 1 \/ todo'[s] = todo[s]
        BY <1>1, <2>2
      <4>. QED  BY <1>1, <2>1, <3>1, <4>1, <4>2
    <3>2. CASE t # s
      <4>1. /\ received'[t] = received[t] /\ recv'[t] = recv[t] /\ replies'[t] = replies[t]
            /\ todo'[t] = todo[t]
        BY <1>1, <2>1, <2>2, <3>2 DEF CountS
      <4>. QED  BY <4>1 DEF CountS
    <3>. QED  BY <3>1, <3>2
  <2>. QED  BY <2>1, <2>3, <2>4, <2>5 DEF CountS
<1>. QED  BY <1>2, <1>3

LEMMA WriteCount == ASSUME SInv, CountS, NEW s \in Sessions, HandleWrite(s) PROVE CountS'
<1>1. sendQue[s] # <<>> /\ sendQue[s] \in Seq(1 .. MaxMsgs)
  BY DEF HandleWrite, SInv, FlushedInv, OneWriter, CountS
<1>2. Tail(sendQue[s]) \in Seq(1 .. MaxMsgs)
  BY <1>1, HeadTailProperties
<1>. QED  BY <1>2 DEF HandleWrite, CountS, readVars

LEMMA SendCount == ASSUME SInv, CountS, NEW s \in Sessions, Send(s) PROVE CountS'
<1>. DEFINE n == replies[s] + 1
<1>1. /\ received[s] \in Nat /\ todo[s] \in Nat \ {0} /\ replies[s] \in Nat /\ MaxMsgs \in Nat
      /\ received[s] <= MaxMsgs /\ todo[s] + replies[s] <= received[s]
      /\ todo \in [Sessions -> Nat] /\ replies \in [Sessions -> Nat]
  BY SessionAssumption DEF SInv, Types, CountS, Send
<1>2. n \in 1 .. MaxMsgs
  BY <1>1
<1>3. Append(sendQue[s], n) \in Seq(1 .. MaxMsgs)
  <2>. HIDE DEF n
  <2>. QED  BY <1>2, AppendProperties DEF CountS
<1>4. /\ todo' = [todo EXCEPT ![s] = todo[s] - 1]
      /\ UNCHANGED <<received, lost, recv>>
      /\ \/ UNCHANGED <<replies, sendQue>>
         \/ /\ replies' = [replies EXCEPT ![s] = n]
            /\ sendQue' = [sendQue EXCEPT ![s] = Append(sendQue[s], n)]
  BY DEF Send, readVars
<1>5. sendQue' \in [Sessions -> Seq(1 .. MaxMsgs)]
  <2>. HIDE DEF n
  <2>. QED  BY <1>3, <1>4 DEF CountS
<1>6. \A t \in Sessions : todo'[t] + replies'[t] <= received'[t]
  BY <1>1, <1>4 DEF CountS
<1>. QED  BY <1>4, <1>5, <1>6 DEF CountS

LEMMA NextCount == SInv /\ CountS /\ [Next]_vars => CountS'
<1>. SUFFICES ASSUME SInv, CountS, [Next]_vars PROVE CountS'
  OBVIOUS
<1>. USE DEF readVars, sendVars
<1>r. recv \in [Sessions -> {"none", "pending", "ready"}]
  BY DEF SInv, Types
<1>1. ASSUME NEW s \in Sessions, Accept(s) \/ BindSession(s) \/ Insert(s) \/ Flush(s) \/ Erase(s)
                                 \/ UnbindSession(s) \/ WriteFails(s)
      PROVE  CountS'
  BY <1>1, SameCount DEF Accept, BindSession, Insert, Flush, Erase, UnbindSession, WriteFails
<1>2. ASSUME NEW s \in Sessions, Start(s) \/ ReadFails(s) PROVE CountS'
  BY <1>r, <1>2, SameCount DEF Start, ReadFails
<1>3. CASE Quiet \/ UNCHANGED vars
  BY <1>3, SameCount DEF Quiet, vars
<1>. QED  BY <1>1, <1>2, <1>3, ReadCount, WriteCount, SendCount DEF Next, MainStep, IoStep

(* Every variable keeps its type; no answer has a number above that of the *)
(* last message, and at most one write is under way.                       *)
THEOREM SessionTypeOK == Spec => []TypeOK
<1>1. SInv /\ CountS => TypeOK
  <2>. SUFFICES ASSUME SInv, CountS PROVE TypeOK
    OBVIOUS
  <2>1. /\ received \in [Sessions -> 0 .. MaxMsgs] /\ todo \in [Sessions -> 0 .. MaxMsgs]
        /\ replies \in [Sessions -> 0 .. MaxMsgs]
    BY SessionAssumption DEF SInv, Types, CountS
  <2>2. inFlight \in [Sessions -> {<<>>} \cup {<<n>> : n \in 1 .. MaxMsgs}]
    <3>. SUFFICES ASSUME NEW s \in Sessions, inFlight[s] # <<>>
                  PROVE  inFlight[s] \in {<<n>> : n \in 1 .. MaxMsgs}
      BY DEF SInv, Types
    <3>1. /\ sendQue[s] # <<>> /\ inFlight[s] = <<Head(sendQue[s])>>
          /\ sendQue[s] \in Seq(1 .. MaxMsgs)
      BY DEF SInv, OneWriter, CountS
    <3>2. Head(sendQue[s]) \in 1 .. MaxMsgs
      BY <3>1, HeadTailProperties
    <3>. QED  BY <3>1, <3>2
  <2>. QED  BY <2>1, <2>2 DEF TypeOK, SInv, Types, CountS
<1>. QED  BY <1>1, InitCount, NextCount, SessionInvariant, PTL DEF Spec
=============================================================================
