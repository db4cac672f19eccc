--------------------------------- MODULE Wire ---------------------------------
(***************************************************************************)
(* The packets of a connection: [id, 2 bytes][length, 4 bytes][body], both *)
(* big endian, over a stream of bytes that is cut anywhere.  The client is *)
(* TcpClient (slot_send_msg, readyRead, disconnected), the server CSession *)
(* (ReadHead, ReadBody, asyncReadLen, Send, HandleWrite) with MsgNode.     *)
(*                                                                         *)
(* Connections are numbered; each has a CSession of its own, while the one *)
(* TcpClient lives on with its buffer.  A worker answers each request.     *)
(***************************************************************************)
EXTENDS Integers, Sequences, SequencesExt

CONSTANTS
  MaxConns,    \* bound: connections the client opens
  MaxMsgs,     \* bound: messages it sends on all of them
  MAX_LENGTH,  \* largest body, and largest id
  MAX_SENDQUE,
  HEAD_ID_LEN, HEAD_DATA_LEN, \* widths of id and length in bytes
  ID_TEST_MSG_REQ, ID_UPLOAD_FILE_REQ, ID_SYNC_FILE_REQ,
  Bodies       \* Bodies[id]: the bodies the client sends with an id

HEAD_TOTAL_LEN == HEAD_ID_LEN + HEAD_DATA_LEN

Byte   == 0 .. 255
Conns  == 1 .. MaxConns
ReqIds == {ID_TEST_MSG_REQ, ID_UPLOAD_FILE_REQ, ID_SYNC_FILE_REQ}
RspIds == {id + 1 : id \in ReqIds}

Requests == UNION {[id : {id}, body : Bodies[id]] : id \in ReqIds}

\* n, n >> 8, n >> 16 and so on
Shifts(n, width) == LET shift[i \in 0 .. width] == IF i = 0 THEN n ELSE shift[i - 1] \div 256
                    IN  shift

Fits(n, width) == Shifts(n, width)[width] = 0

(* Ids, and lengths of what is sent, are representable in the header; they *)
(* are short or quint16, and uint32_t or quint32, in the code.             *)
ASSUME WireAssumption ==
  /\ {MaxConns, MaxMsgs, MAX_SENDQUE} \subseteq Nat
  /\ {MAX_LENGTH, HEAD_ID_LEN, HEAD_DATA_LEN} \subseteq Nat \ {0}
  /\ \A id \in ReqIds \cup RspIds : id \in Nat /\ Fits(id, HEAD_ID_LEN)
  /\ Bodies \in [ReqIds -> SUBSET Seq(Byte)]
  /\ \A m \in Requests : Fits(Len(m.body), HEAD_DATA_LEN)
  /\ \A len \in 1 .. MAX_LENGTH : Fits(len, HEAD_DATA_LEN)

VARIABLES
  conn,       \* the client's connection, 0 when it has none
  opened,     \* connections opened so far
  sent,       \* history: sent[c], the messages of the client on c
  toServer,   \* toServer[c]: bytes on their way
  toClient,   \* toClient[c]: bytes on their way back
  open,       \* open[c]: the server's socket of c is open
  head,       \* head[c]: the header whose body is being read, or NoHead
  data,       \* data[c]: _data, what is read of a header or body
  delivered,  \* delivered[c]: the messages given to LogicSystem
  answered,   \* answered[c]: how many of them the worker has handled
  replied,    \* history: replied[c], the numbers of those whose answer Send took
  sendQue,    \* sendQue[c]: _send_que, packets
  buffer,     \* the client's _buffer
  pending,    \* its header while _b_recy_pending, or NoHead
  received    \* history: received[c], the messages given to the handlers on c

clientVars == <<conn, opened, sent, buffer, pending, received>>
readVars   == <<head, data, delivered>>
workerVars == <<answered, replied>>
vars == <<clientVars, readVars, workerVars, toServer, toClient, open, sendQue>>

-----------------------------------------------------------------------------
(* Packets. *)

Message(id, body) == [id |-> id, body |-> body]
Header(id, len)   == [id |-> id, len |-> len]
NoHead            == Header(0, 0)

BigEndian(n, width) == [i \in 1 .. width |-> Shifts(n, width)[width - i] % 256]
Number(bytes) == LET value[i \in 0 .. Len(bytes)] ==
                       IF i = 0 THEN 0 ELSE 256 * value[i - 1] + bytes[i]
                 IN  value[Len(bytes)]
Signed(n)           == IF 2 * n < 256 ^ HEAD_ID_LEN THEN n ELSE n - 256 ^ HEAD_ID_LEN

First(s, k)  == SubSeq(s, 1, k)
Behind(s, k) == SubSeq(s, k + 1, Len(s))

\* SendNode, and the QDataStream of slot_send_msg
HeaderBytes(h) == BigEndian(h.id, HEAD_ID_LEN) \o BigEndian(h.len, HEAD_DATA_LEN)
HeaderFor(m)   == Header(m.id, Len(m.body))
Packet(m)      == HeaderBytes(HeaderFor(m)) \o m.body

HeaderOf(bytes) == Header(Number(First(bytes, HEAD_ID_LEN)),
                          Number(SubSeq(bytes, HEAD_ID_LEN + 1, HEAD_TOTAL_LEN)))

Valid_NoLimit(h) == Signed(h.id) > 0 /\ h.len > 0       \* mutant: length not limited
Valid(h) == Signed(h.id) \in 1 .. MAX_LENGTH /\ h.len \in 1 .. MAX_LENGTH

Nothing == [c \in Conns |-> <<>>]

Init == /\ conn = 0 /\ opened = 0
        /\ buffer = <<>> /\ pending = NoHead
        /\ open = [c \in Conns |-> FALSE]
        /\ head = [c \in Conns |-> NoHead]
        /\ answered = [c \in Conns |-> 0]
        /\ sent = Nothing /\ received = Nothing /\ delivered = Nothing
        /\ toServer = Nothing /\ toClient = Nothing /\ data = Nothing /\ sendQue = Nothing /\ replied = Nothing

-----------------------------------------------------------------------------
(* The client. *)

\* slot_tcp_connect, and the CSession that accepts it
Connect ==
  /\ conn = 0 /\ opened < MaxConns
  /\ opened' = opened + 1 /\ conn' = opened + 1
  /\ open' = [open EXCEPT ![opened + 1] = TRUE]
  /\ UNCHANGED <<sent, buffer, pending, received, readVars, toServer, toClient, workerVars, sendQue>>

SentInAll == Len(FlattenSeq(sent))

\* slot_send_msg: without a connection nothing is sent, any body goes out.
slot_send_msg(m) ==
  /\ conn # 0 /\ SentInAll < MaxMsgs
  /\ sent'     = [sent EXCEPT ![conn] = Append(@, m)]
  /\ toServer' = [toServer EXCEPT ![conn] = @ \o Packet(m)]
  /\ UNCHANGED <<conn, opened, buffer, pending, received, readVars, toClient, open, workerVars, sendQue>>

\* What readyRead works on: the buffer, the header of the message under way,
\* and the messages handed over so far.
Reader == [buffer : Seq(Byte), pending : [id : Nat, len : Nat], got : Seq([id : Nat, body : Seq(Byte)])]

TakeHead(r) ==
  IF r.pending = NoHead /\ Len(r.buffer) >= HEAD_TOTAL_LEN
  THEN [r EXCEPT !.pending = HeaderOf(r.buffer), !.buffer = Behind(@, HEAD_TOTAL_LEN)]
  ELSE r

TakeBody(r) ==
  IF r.pending # NoHead /\ Len(r.buffer) >= r.pending.len
  THEN [buffer  |-> Behind(r.buffer, r.pending.len),
        pending |-> NoHead,
        got     |-> IF r.pending.id \in RspIds
                    THEN Append(r.got, Message(r.pending.id, First(r.buffer, r.pending.len)))
                    ELSE r.got]
  ELSE r

\* One round of its loop; where the code returns, the rest stays as it is.
Round == [r \in Reader |-> TakeBody(TakeHead(r))]

\* The loop over the buffer b with the header p: but for the first, every
\* round that goes on takes a header, which bounds their number.
Reassemble(b, p) ==
  LET rounds == Len(b) \div HEAD_TOTAL_LEN + 1
      after[n \in 0 .. rounds] ==
        IF n = 0 THEN [buffer |-> b, pending |-> p, got |-> <<>>] ELSE Round[after[n - 1]]
  IN  after[rounds]

\* k bytes have arrived
readyRead(k) ==
  /\ conn # 0 /\ k \in 1 .. Len(toClient[conn])
  /\ LET r == Reassemble(buffer \o First(toClient[conn], k), pending)
     IN  /\ buffer' = r.buffer /\ pending' = r.pending
         /\ received' = [received EXCEPT ![conn] = @ \o r.got]
  /\ toClient' = [toClient EXCEPT ![conn] = Behind(@, k)]
  /\ UNCHANGED <<conn, opened, sent, readVars, toServer, open, workerVars, sendQue>>

\* The network fails, or the server has closed the socket.
ForgetInput_KeepHead == buffer' = <<>> /\ UNCHANGED pending   \* mutant: _b_recy_pending stays
ForgetInput == buffer' = <<>> /\ pending' = NoHead

disconnected ==
  /\ conn # 0
  /\ conn' = 0
  /\ ForgetInput
  /\ UNCHANGED <<opened, sent, received, readVars, toServer, toClient, open, workerVars, sendQue>>

-----------------------------------------------------------------------------
(* The IO thread of a session. *)

Close(c) == open' = [open EXCEPT ![c] = FALSE]

\* The bytes the outstanding asyncReadFull waits for
Wanted_WithHead(c) == IF head[c] = NoHead THEN HEAD_TOTAL_LEN ELSE HEAD_TOTAL_LEN + head[c].len \* mutant
Wanted(c) == IF head[c] = NoHead THEN HEAD_TOTAL_LEN ELSE head[c].len

\* asyncReadLen: k more bytes of what it waits for
Reads(c, k) ==
  /\ open[c] /\ k \in 1 .. Len(toServer[c]) /\ k <= Wanted(c) - Len(data[c])
  /\ toServer' = [toServer EXCEPT ![c] = Behind(@, k)]

asyncReadLen(c, k) ==
  /\ Reads(c, k) /\ Len(data[c]) + k < Wanted(c)
  /\ data' = [data EXCEPT ![c] = @ \o First(toServer[c], k)]
  /\ UNCHANGED <<clientVars, head, delivered, toClient, open, workerVars, sendQue>>

\* ReadHead's handler: an id or a length out of range ends the connection.
ReadHead(c, k) ==
  LET h == HeaderOf(data[c] \o First(toServer[c], k))
  IN  /\ Reads(c, k) /\ Len(data[c]) + k = Wanted(c) /\ head[c] = NoHead
      /\ data' = [data EXCEPT ![c] = <<>>]
      /\ IF Valid(h) THEN head' = [head EXCEPT ![c] = h] /\ UNCHANGED open
                     ELSE Close(c) /\ UNCHANGED head
      /\ UNCHANGED <<clientVars, delivered, toClient, workerVars, sendQue>>

\* ReadBody's handler: PostMsgToQue, then the next header.
ReadBody(c, k) ==
  /\ Reads(c, k) /\ Len(data[c]) + k = Wanted(c) /\ head[c] # NoHead
  /\ delivered' = [delivered EXCEPT ![c] =
                     Append(@, Message(head[c].id, data[c] \o First(toServer[c], k)))]
  /\ head' = [head EXCEPT ![c] = NoHead]
  /\ data' = [data EXCEPT ![c] = <<>>]
  /\ UNCHANGED <<clientVars, toClient, open, workerVars, sendQue>>

\* The client is gone: what it sent may be cut off here.
ReadFails(c) ==
  /\ open[c] /\ conn # c
  /\ Close(c)
  /\ UNCHANGED <<clientVars, readVars, toServer, toClient, workerVars, sendQue>>

\* async_write of a packet, on an open socket
Write(c, packet) == toClient' = IF open[c] THEN [toClient EXCEPT ![c] = @ \o packet] ELSE toClient

HandleWrite(c) ==
  LET rest == Tail(sendQue[c])
  IN  /\ open[c] /\ sendQue[c] # <<>>
      /\ sendQue' = [sendQue EXCEPT ![c] = rest]
      /\ IF rest = <<>> THEN UNCHANGED toClient ELSE Write(c, Head(rest))
      /\ UNCHANGED <<clientVars, readVars, toServer, open, workerVars>>

-----------------------------------------------------------------------------
(* The worker thread: one answer for each message. *)

\* HandleTestMsg sends the body back; the other two answer with a short text.
Answer(m) == Message(m.id + 1, IF m.id = ID_TEST_MSG_REQ THEN m.body ELSE <<m.id % 256>>)

Dropped_Equal(c, m) == Len(sendQue[c]) > MAX_SENDQUE \/ Len(m.body) >= MAX_LENGTH    \* mutant
Dropped(c, m) == Len(sendQue[c]) > MAX_SENDQUE \/ Len(m.body) > MAX_LENGTH

Send(c) ==
  LET m == Answer(delivered[c][answered[c] + 1])
  IN  /\ answered[c] < Len(delivered[c])
      /\ answered' = [answered EXCEPT ![c] = @ + 1]
      /\ IF Dropped(c, m) THEN UNCHANGED <<replied, sendQue, toClient>>
         ELSE /\ replied' = [replied EXCEPT ![c] = Append(@, answered[c] + 1)]
              /\ sendQue' = [sendQue EXCEPT ![c] = Append(@, Packet(m))]
              /\ IF sendQue[c] = <<>> THEN Write(c, Packet(m)) ELSE UNCHANGED toClient
      /\ UNCHANGED <<clientVars, readVars, toServer, open>>

-----------------------------------------------------------------------------
Read(c)  == \E k \in 1 .. Len(toServer[c]) : asyncReadLen(c, k) \/ ReadHead(c, k) \/ ReadBody(c, k)
Arrival  == \E k \in 1 .. MAX_LENGTH + HEAD_TOTAL_LEN : readyRead(k)
Noticed  == disconnected /\ ~open[conn]

Next == \/ Connect \/ Arrival \/ disconnected
        \/ \E m \in Requests : slot_send_msg(m)
        \/ \E c \in Conns : Read(c) \/ ReadFails(c) \/ HandleWrite(c) \/ Send(c)

Spec == Init /\ [][Next]_vars

(* Both event loops and the worker go on, TCP delivers what is on its way  *)
(* of a connection that stands, and the client hears of a closed one.      *)
FairSpec == /\ Spec
            /\ WF_vars(Arrival) /\ WF_vars(Noticed)
            /\ \A c \in Conns : WF_vars(Read(c)) /\ WF_vars(HandleWrite(c)) /\ WF_vars(Send(c))

-----------------------------------------------------------------------------
(* Every variable keeps its type: no body longer than _data is awaited. *)
TypeOK ==
  /\ conn \in 0 .. opened /\ opened \in 0 .. MaxConns
  /\ open \in [Conns -> BOOLEAN]
  /\ \A c \in Conns : /\ sent[c] \in Seq(Requests)
                      /\ toServer[c] \in Seq(Byte) /\ toClient[c] \in Seq(Byte)
                      /\ head[c] = NoHead \/ head[c] \in [id : ReqIds, len : 1 .. MAX_LENGTH]
                      /\ data[c] \in Seq(Byte)
                      /\ answered[c] \in 0 .. Len(delivered[c])
  /\ buffer \in Seq(Byte)

Malformed(m) == Len(m.body) \notin 1 .. MAX_LENGTH

(* However the stream is cut, the server gets the messages the client sent,*)
(* whole and in order, and none behind one it takes for malformed.         *)
RequestsInOrder == \A c \in Conns :
  /\ IsPrefix(delivered[c], sent[c])
  /\ \A i \in DOMAIN delivered[c] : ~Malformed(delivered[c][i])

\* The answers that Send took
Replies(c) == [i \in DOMAIN replied[c] |-> Answer(delivered[c][replied[c][i]])]

(* The client gets the answers to its messages of this connection, whole,  *)
(* in order and none twice: nothing is left in its buffer from the         *)
(* connection before. None is left out before the queue may have been full.*)
AnswersInOrder == \A c \in Conns :
  /\ IsPrefix(received[c], Replies(c))
  /\ \A i, j \in DOMAIN replied[c] : i < j => replied[c][i] < replied[c][j]
  /\ answered[c] <= MAX_SENDQUE + 1 => Len(replied[c]) = answered[c]

(* A connection that stands is served in full again and again: nothing     *)
(* waits for bytes that have arrived, and every answer that Send took gets *)
(* to the client. As a malformed message has none, it also says that such  *)
(* a message ends the connection, for both sides.                          *)
Answered == []<>(conn # 0 => /\ answered[conn] = Len(sent[conn])
                             /\ Len(received[conn]) = Len(replied[conn]))

===============================================================================
