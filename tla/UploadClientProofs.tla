------------------------- MODULE UploadClientProofs -------------------------
(***************************************************************************)
(* Proofs about UploadClient, for any files, sizes, chunk size and number  *)
(* of clicks and faults: an answer brings at most one request, every chunk *)
(* lies in its file, and no chunk is ahead of the server.                  *)
(***************************************************************************)
EXTENDS UploadClient, SequenceTheorems, TLAPS

(* What may be under way: chunks that end within their file and start at an*)
(* offset the server has reached, and answers that claim no more.          *)
GoodRequests == {r \in Requests : r.type = "chunk" =>
                   ValidUpload(r) /\ r.offset <= stored[r.cause]}
GoodReplies  == {m \in Replies : m.offset <= stored[m.task]}

(* The window: a task there is an upload for is the one of the chosen file.*)
WindowInv ==
  /\ path \in Files \cup {None} /\ md5 \in Files \cup {None} /\ task \in Tasks \cup {None}
  /\ active \in BOOLEAN /\ hasTask \in BOOLEAN /\ uploadOn \in BOOLEAN
  /\ resumeOn \in BOOLEAN /\ done \in BOOLEAN
  /\ active => hasTask
  /\ hasTask => task \in Tasks /\ (path # None => task.size = Size[path])

ServerInv ==
  /\ owner \in [Tasks -> Files \cup {None}]
  /\ stored \in [Tasks -> Nat] /\ published \in [Tasks -> BOOLEAN]
  /\ \A t \in Tasks : stored[t] <= t.size /\ (published[t] => stored[t] = t.size)

(* A broken connection carries nothing. *)
NetInv ==
  /\ conn \in BOOLEAN
  /\ toServer \in Seq(GoodRequests) /\ old \in Seq(GoodRequests)
  /\ toClient \in Seq(GoodReplies)
  /\ ~conn => toServer = <<>> /\ toClient = <<>>

(* A request for the progress costs a click. *)
BoundsInv ==
  /\ locked \subseteq Locked
  /\ syncs \in Nat /\ clicks \in Nat /\ faults \in 0 .. MaxFaults
  /\ syncs + clicks <= MaxClicks

CInv == WindowInv /\ ServerInv /\ NetInv /\ BoundsInv /\ NoFlood

----------------------------------------------------------------------------
(* Sizes of tasks are sizes of files. *)
LEMMA SizesL == \A t \in Tasks : t.size \in Nat
BY ClientAssumption DEF Tasks

(* A sequence over a set is one over a larger set. *)
LEMMA LargerL == ASSUME NEW A, NEW B, A \subseteq B, NEW s \in Seq(A) PROVE s \in Seq(B)
OBVIOUS

LEMMA InitC == Init => CInv
<1> SUFFICES ASSUME Init PROVE CInv
  OBVIOUS
<1>1. <<>> \in Seq(GoodRequests) /\ <<>> \in Seq(GoodReplies)
  BY EmptySeq
<1>2. WindowInv
  BY DEF Init, WindowInv
<1>3. ServerInv
  BY SizesL, ClientAssumption DEF Init, ServerInv
<1>4. NetInv
  BY <1>1 DEF Init, NetInv
<1>5. BoundsInv /\ NoFlood
  BY ClientAssumption DEF Init, BoundsInv, NoFlood
<1> QED BY <1>2, <1>3, <1>4, <1>5 DEF CInv

(* While the server is not touched what is good stays good. *)
LEMMA SameGoodL ==
  ASSUME UNCHANGED serverVars
  PROVE  GoodRequests' = GoodRequests /\ GoodReplies' = GoodReplies
BY DEF serverVars, GoodRequests, GoodReplies, ValidUpload

----------------------------------------------------------------------------
(* The user. *)

LEMMA ConnectC == ASSUME CInv, Connect PROVE CInv'
BY SameGoodL, ClientAssumption DEF CInv, Connect, Click, windowVars, serverVars, WindowInv, ServerInv, NetInv, BoundsInv, NoFlood

LEMMA ChooseC == ASSUME CInv, NEW f \in Files, ChooseFile(f) PROVE CInv'
<1>1. WindowInv'
  BY DEF CInv, ChooseFile, WindowInv
<1>2. ServerInv' /\ NetInv' /\ NoFlood'
  BY SameGoodL DEF CInv, ChooseFile, netVars, serverVars, ServerInv, NetInv, NoFlood
<1>3. BoundsInv'
  <2>1. clicks' = clicks - 1 /\ clicks > 0 /\ UNCHANGED <<locked, syncs, faults>>
    BY DEF ChooseFile, Click
  <2> QED BY <2>1, ClientAssumption DEF CInv, BoundsInv
<1> QED BY <1>1, <1>2, <1>3 DEF CInv

LEMMA CancelC == ASSUME CInv, CancelChoose PROVE CInv'
BY SameGoodL, ClientAssumption DEF CInv, CancelChoose, Click, netVars, serverVars, WindowInv, ServerInv, NetInv, BoundsInv, NoFlood

LEMMA PauseC == ASSUME CInv, Pause PROVE CInv'
<1>1. WindowInv'
  BY DEF CInv, Pause, WindowInv
<1>2. ServerInv' /\ NetInv' /\ NoFlood'
  BY SameGoodL DEF CInv, Pause, netVars, serverVars, ServerInv, NetInv, NoFlood
<1>3. BoundsInv'
  <2>1. clicks' = clicks - 1 /\ clicks > 0 /\ UNCHANGED <<locked, syncs, faults>>
    BY DEF Pause, Click
  <2> QED BY <2>1, ClientAssumption DEF CInv, BoundsInv
<1> QED BY <1>1, <1>2, <1>3 DEF CInv

(* A request for the progress is always good. *)
LEMMA RequestC ==
  ASSUME CInv, NEW t \in Tasks, path \in Files, conn, Click, requestUploadSync(t), UNCHANGED serverVars,
         UNCHANGED <<conn, toClient, old, locked, faults>>
  PROVE  ServerInv' /\ NetInv' /\ BoundsInv' /\ NoFlood'
<1>1. Sync(t, path) \in GoodRequests
  BY ClientAssumption DEF GoodRequests, Requests, Sync
<1>2. /\ toServer' \in Seq(GoodRequests)
      /\ Len(toServer') = Len(toServer) + 1
  BY <1>1 DEF requestUploadSync, CInv, NetInv
<1>3. NetInv'
  BY <1>2, SameGoodL DEF CInv, NetInv
<1>4. BoundsInv' /\ ServerInv'
  BY DEF CInv, BoundsInv, ServerInv, Click, requestUploadSync, serverVars
<1>5. NoFlood'
  BY <1>2, SameGoodL DEF CInv, NoFlood, NetInv, BoundsInv, requestUploadSync
<1> QED BY <1>3, <1>4, <1>5

LEMMA UploadC == ASSUME CInv, Upload PROVE CInv'
<1> DEFINE t == [md5 |-> md5, size |-> Size[path]]
<1>1. t \in Tasks /\ path \in Files
  BY DEF Upload, CInv, WindowInv, Tasks
<1>2. ServerInv' /\ NetInv' /\ BoundsInv' /\ NoFlood'
  BY <1>1, RequestC DEF Upload
<1>3. WindowInv'
  BY <1>1 DEF Upload, CInv, WindowInv
<1> QED BY <1>2, <1>3 DEF CInv

LEMMA ResumeC == ASSUME CInv, Resume PROVE CInv'
<1>1. task \in Tasks /\ path \in Files
  BY DEF Resume, CInv, WindowInv
<1>2. ServerInv' /\ NetInv' /\ BoundsInv' /\ NoFlood'
  BY <1>1, RequestC DEF Resume
<1>3. WindowInv'
  BY DEF Resume, CInv, WindowInv
<1> QED BY <1>2, <1>3 DEF CInv

----------------------------------------------------------------------------
(* Answers. *)

(* The chunk at an offset the server has reached is good. *)
LEMMA ChunkC ==
  ASSUME CInv, active, path \in Files, NEW m \in GoodReplies, m.offset <= task.size
  PROVE  ChunksAt(m.offset, m.task) \in Seq(GoodRequests) /\ Len(ChunksAt(m.offset, m.task)) = 1
<1> DEFINE o == m.offset
           chunk == ChunkAt(o, LenAt(o), o + LenAt(o) = task.size, m.task)
<1>1. task \in Tasks /\ task.size = Size[path] /\ task.size \in Nat /\ Chunk \in Nat \ {0}
  BY SizesL, ClientAssumption DEF CInv, WindowInv
<1>2. o \in Nat /\ m.task \in Tasks /\ o <= stored[m.task]
  BY DEF GoodReplies, Replies
<1>3. LenAt(o) \in 0 .. Chunk /\ o + LenAt(o) <= task.size
  BY <1>1, <1>2 DEF LenAt
<1>4. chunk = [type |-> "chunk", task |-> task, file |-> path, offset |-> o, len |-> LenAt(o),
               last |-> (o + LenAt(o) = task.size), cause |-> m.task]
  BY DEF ChunkAt, ChunkOf
<1>5. chunk \in Requests
  <2> HIDE DEF chunk
  <2> QED BY <1>1, <1>2, <1>3, <1>4 DEF Requests
<1>6. ValidUpload(chunk)
  <2> HIDE DEF chunk
  <2> QED BY <1>1, <1>2, <1>3, <1>4 DEF ValidUpload
<1>7. chunk.cause = m.task /\ chunk.offset = o
  BY <1>4
<1>8. chunk \in GoodRequests
  <2> HIDE DEF chunk
  <2> QED BY <1>2, <1>5, <1>6, <1>7 DEF GoodRequests
<1>9. ChunksAt(o, m.task) = <<chunk>>
  BY DEF ChunksAt
<1> HIDE DEF chunk
<1> QED BY <1>8, <1>9

LEMMA DeliverC == ASSUME CInv, Deliver PROVE CInv'
<1> DEFINE m == Head(toClient)
<1>1. /\ m \in GoodReplies /\ toClient' \in Seq(GoodReplies)
      /\ Len(toClient') = Len(toClient) - 1 /\ Len(toClient) > 0
  BY DEF Deliver, CInv, NetInv
<1>2. conn
  BY DEF Deliver, CInv, NetInv
<1>3. UNCHANGED <<path, md5, task, hasTask, conn, old, serverVars, locked, syncs, clicks, faults>>
  BY DEF Deliver
<1>4. /\ active' \in BOOLEAN /\ uploadOn' \in BOOLEAN /\ resumeOn' \in BOOLEAN /\ done' \in BOOLEAN
      /\ active' => active
      /\ \/ toServer' = toServer
         \/ /\ active /\ path \in Files /\ m.offset <= task.size
            /\ toServer' = toServer \o ChunksAt(m.offset, m.task)
  <2> HIDE DEF m
  <2>1. Receive(m)
    BY DEF Deliver, m
  <2>2. /\ active \in BOOLEAN /\ uploadOn \in BOOLEAN /\ resumeOn \in BOOLEAN /\ done \in BOOLEAN
        /\ path \in Files \cup {None} /\ (active => task \in Tasks)
    BY DEF CInv, WindowInv
  <2>3. m.offset \in Nat
    BY <1>1 DEF GoodReplies, Replies
  <2>4. CASE slot_upload_error
    BY <2>2, <2>4 DEF slot_upload_error
  <2>5. CASE slot_upload_progress(m)
    <3>1. CASE Completed
      BY <2>2, <3>1 DEF Completed
    <3>2. CASE active /\ sendNextChunk(m.offset, m.task)
      <4>1. task.size \in Nat
        BY <2>2, <3>2, SizesL
      <4>2. CASE m.offset > task.size \/ path = None \/ path \in locked
        BY <2>4, <3>2, <4>2 DEF sendNextChunk
      <4>3. CASE ~(m.offset > task.size \/ path = None \/ path \in locked)
        <5>1. /\ toServer' = toServer \o ChunksAt(m.offset, m.task)
              /\ done' = FALSE /\ UNCHANGED <<active, uploadOn, resumeOn>>
          BY <3>2, <4>3 DEF sendNextChunk
        <5>2. path \in Files /\ m.offset <= task.size
          BY <2>2, <2>3, <4>1, <4>3
        <5> QED BY <2>2, <3>2, <5>1, <5>2
      <4> QED BY <4>2, <4>3
    <3>3. CASE done' = FALSE /\ UNCHANGED <<active, uploadOn, resumeOn, toServer>>
      BY <2>2, <3>3
    <3> QED BY <2>5, <3>1, <3>2, <3>3 DEF slot_upload_progress
  <2> QED BY <2>1, <2>4, <2>5 DEF Receive, slot_file_sync
<1>5. /\ toServer' \in Seq(GoodRequests)
      /\ Len(toServer') <= Len(toServer) + 1
  <2>1. toServer \in Seq(GoodRequests)
    BY DEF CInv, NetInv
  <2>2. CASE toServer' = toServer
    BY <2>1, <2>2
  <2>3. CASE /\ active /\ path \in Files /\ m.offset <= task.size
             /\ toServer' = toServer \o ChunksAt(m.offset, m.task)
    <3>1. ChunksAt(m.offset, m.task) \in Seq(GoodRequests) /\ Len(ChunksAt(m.offset, m.task)) = 1
      BY <1>1, <2>3, ChunkC
    <3> QED BY <2>1, <2>3, <3>1
  <2> QED BY <1>4, <2>2, <2>3
<1>6. WindowInv'
  BY <1>3, <1>4 DEF CInv, WindowInv
<1>7. NetInv'
  BY <1>1, <1>2, <1>3, <1>5, SameGoodL DEF CInv, NetInv
<1>8. NoFlood'
  <2>1. Len(toServer) \in Nat /\ Len(toClient) \in Nat /\ Len(toServer') \in Nat /\ syncs \in Nat
    BY <1>5 DEF CInv, NetInv, BoundsInv
  <2> QED BY <1>1, <1>3, <1>5, <2>1 DEF CInv, NoFlood
<1>9. ServerInv' /\ BoundsInv'
  BY <1>3 DEF CInv, ServerInv, BoundsInv, serverVars
<1> QED BY <1>6, <1>7, <1>8, <1>9 DEF CInv

----------------------------------------------------------------------------
(* The server. *)

(* Whatever it makes of a good request: it only ever stores more, and its  *)
(* answer claims no more than it then holds.                               *)
LEMMA HandleC ==
  ASSUME CInv, NEW r \in GoodRequests, NEW a, Handle(r, a)
  PROVE  /\ ServerInv'
         /\ \A t \in Tasks : stored[t] <= stored'[t]
         /\ a \in GoodReplies'
         /\ faults' \in 0 .. MaxFaults
<1> USE DEF CInv
<1>1. /\ r \in Requests /\ r.task \in Tasks /\ r.task.size \in Nat /\ r.file \in Files
      /\ r.offset \in Nat /\ r.len \in Nat /\ r.last \in BOOLEAN /\ r.type \in {"sync", "chunk"}
  BY SizesL, ClientAssumption DEF GoodRequests, Requests
<1>2. /\ stored[r.task] \in Nat /\ stored[r.task] <= r.task.size
      /\ published[r.task] \in BOOLEAN /\ (published[r.task] => stored[r.task] = r.task.size)
  BY <1>1 DEF ServerInv
<1>3. ASSUME NEW ok \in BOOLEAN, NEW o \in Nat, NEW c \in BOOLEAN, o <= stored'[r.task]
      PROVE  Reply(r, ok, o, c) \in GoodReplies'
  BY <1>1, <1>3 DEF Reply, GoodReplies, Replies
<1>4. CASE HandleSyncFile(r, a)
  <2>1. UNCHANGED <<stored, published, faults>>
    BY <1>4 DEF HandleSyncFile
  <2>2. owner' \in [Tasks -> Files \cup {None}]
    BY <1>1, <1>4 DEF HandleSyncFile, ServerInv
  <2>3. /\ stored[r.task] \in Nat /\ 0 \in Nat
        /\ stored[r.task] <= stored'[r.task] /\ 0 <= stored'[r.task]
    BY <1>2, <2>1
  <2>4. Reply(r, TRUE, stored[r.task], published[r.task]) \in GoodReplies'
    BY <1>2, <1>3, <2>3, Zenon
  <2>5. Reply(r, FALSE, 0, FALSE) \in GoodReplies'
    BY <1>2, <1>3, <2>3, Zenon
  <2>6. a \in GoodReplies'
    BY <1>4, <2>4, <2>5 DEF HandleSyncFile
  <2>7. ServerInv' /\ \A t \in Tasks : stored[t] <= stored'[t]
    BY <2>1, <2>2 DEF ServerInv
  <2> QED BY <2>1, <2>6, <2>7 DEF BoundsInv
<1>5. CASE HandleUploadFile(r, a)
  <2> DEFINE t == r.task
  <2>1. UNCHANGED owner
    BY <1>5 DEF HandleUploadFile
  <2>2. CASE /\ UNCHANGED <<stored, published, faults>>
             /\ \/ a = Reply(r, FALSE, stored[t], FALSE)
                \/ published[t] /\ a = Reply(r, TRUE, t.size, TRUE)
                \/ a = Again(r)
    <3>1. ServerInv' /\ (\A u \in Tasks : stored[u] <= stored'[u]) /\ faults' \in 0 .. MaxFaults
      BY <2>1, <2>2 DEF ServerInv, BoundsInv
    <3>2. stored[t] \in Nat /\ stored[t] <= stored'[t]
      BY <1>2, <2>2
    <3>3. CASE a = Reply(r, FALSE, stored[t], FALSE)
      <4>1. Reply(r, FALSE, stored[t], FALSE) \in GoodReplies'
        BY <1>3, <3>2, Zenon
      <4> QED BY <3>1, <3>3, <4>1
    <3>4. CASE published[t] /\ a = Reply(r, TRUE, t.size, TRUE)
      <4>1. t.size \in Nat /\ t.size <= stored'[t]
        BY <1>1, <1>2, <3>2, <3>4
      <4>2. Reply(r, TRUE, t.size, TRUE) \in GoodReplies'
        BY <1>3, <4>1, Zenon
      <4> QED BY <3>1, <3>4, <4>2
    <3>5. CASE a = Again(r)
      <4>1. Reply(r, TRUE, stored[t], FALSE) \in GoodReplies'
        BY <1>3, <3>2, Zenon
      <4> QED BY <3>1, <3>5, <4>1 DEF Again
    <3> QED BY <2>2, <3>3, <3>4, <3>5
  <2>3. ASSUME NEW k \in 0 .. r.len, NEW p \in BOOLEAN, ValidUpload(r), r.offset = stored[t],
               p => r.last /\ k = r.len, ~published[t],
               stored' = [stored EXCEPT ![t] = @ + k],
               published' = [published EXCEPT ![t] = p]
        PROVE  /\ ServerInv'
               /\ \A u \in Tasks : stored[u] <= stored'[u]
               /\ stored'[t] = stored[t] + k
    <3>1. stored'[t] = stored[t] + k /\ published'[t] = p
      BY <1>1, <2>3 DEF ServerInv
    <3>2. \A u \in Tasks : u # t => stored'[u] = stored[u] /\ published'[u] = published[u]
      BY <2>3 DEF ServerInv
    <3>3. stored' \in [Tasks -> Nat] /\ published' \in [Tasks -> BOOLEAN]
      BY <1>1, <1>2, <2>3 DEF ServerInv
    <3>4. stored'[t] <= t.size /\ (published'[t] => stored'[t] = t.size)
      BY <1>1, <1>2, <2>3, <3>1 DEF ValidUpload
    <3>5. ServerInv'
      BY <2>1, <3>2, <3>3, <3>4 DEF ServerInv
    <3>6. \A u \in Tasks : stored[u] <= stored'[u]
      BY <1>1, <1>2, <3>1, <3>2 DEF ServerInv
    <3> QED BY <3>1, <3>5, <3>6
  <2>4. CASE /\ ValidUpload(r) /\ ~published[t] /\ r.offset = stored[t]
             /\ stored' = [stored EXCEPT ![t] = @ + r.len]
             /\ published' = [published EXCEPT ![t] = r.last]
             /\ a = Reply(r, TRUE, r.offset + r.len, r.last)
             /\ UNCHANGED faults
    <3>1. r.len \in 0 .. r.len /\ r.offset + r.len \in Nat /\ faults' \in 0 .. MaxFaults
      BY <1>1, <2>4 DEF BoundsInv
    <3>2. /\ ServerInv' /\ \A u \in Tasks : stored[u] <= stored'[u]
          /\ stored'[t] = stored[t] + r.len
      BY <1>1, <2>3, <2>4, <3>1
    <3>3. Reply(r, TRUE, r.offset + r.len, r.last) \in GoodReplies'
      <4>1. r.offset + r.len <= stored'[t]
        BY <1>1, <1>2, <2>4, <3>2
      <4> QED BY <1>1, <1>3, <3>1, <4>1, Zenon
    <3> QED BY <2>4, <3>1, <3>2, <3>3
  <2>5. CASE /\ ValidUpload(r) /\ ~published[t] /\ r.offset = stored[t] /\ Fault
             /\ \E k \in 0 .. r.len, p \in BOOLEAN :
                  /\ p => r.last /\ k = r.len
                  /\ stored' = [stored EXCEPT ![t] = @ + k]
                  /\ published' = [published EXCEPT ![t] = p]
             /\ a = Reply(r, FALSE, r.offset, FALSE)
    <3>1. PICK k \in 0 .. r.len, p \in BOOLEAN :
            /\ p => r.last /\ k = r.len
            /\ stored' = [stored EXCEPT ![t] = @ + k]
            /\ published' = [published EXCEPT ![t] = p]
      BY <2>5
    <3>2. faults' \in 0 .. MaxFaults
      <4>1. faults > 0 /\ faults' = faults - 1 /\ faults \in 0 .. MaxFaults
        BY <2>5 DEF Fault, BoundsInv
      <4> QED BY <4>1, ClientAssumption
    <3>3. /\ ServerInv' /\ \A u \in Tasks : stored[u] <= stored'[u]
          /\ stored'[t] = stored[t] + k
      BY <2>3, <2>5, <3>1
    <3>4. Reply(r, FALSE, r.offset, FALSE) \in GoodReplies'
      <4>1. r.offset <= stored'[t]
        BY <1>1, <1>2, <2>5, <3>1, <3>3
      <4> QED BY <1>1, <1>3, <4>1
    <3> QED BY <2>5, <3>2, <3>3, <3>4
  <2>6. \/ /\ UNCHANGED <<stored, published, faults>>
           /\ \/ a = Reply(r, FALSE, stored[t], FALSE)
              \/ published[t] /\ a = Reply(r, TRUE, t.size, TRUE)
              \/ a = Again(r)
        \/ /\ ValidUpload(r) /\ ~published[t] /\ r.offset = stored[t]
           /\ stored' = [stored EXCEPT ![t] = @ + r.len]
           /\ published' = [published EXCEPT ![t] = r.last]
           /\ a = Reply(r, TRUE, r.offset + r.len, r.last)
           /\ UNCHANGED faults
        \/ /\ ValidUpload(r) /\ ~published[t] /\ r.offset = stored[t] /\ Fault
           /\ \E k \in 0 .. r.len, p \in BOOLEAN :
                /\ p => r.last /\ k = r.len
                /\ stored' = [stored EXCEPT ![t] = @ + k]
                /\ published' = [published EXCEPT ![t] = p]
           /\ a = Reply(r, FALSE, r.offset, FALSE)
    BY <1>5 DEF HandleUploadFile
  <2> QED BY <2>2, <2>4, <2>5, <2>6
<1> QED BY <1>4, <1>5 DEF Handle

(* More stored keeps everything under way good. *)
LEMMA GrowsC ==
  ASSUME ServerInv, ServerInv', \A t \in Tasks : stored[t] <= stored'[t]
  PROVE  GoodRequests \subseteq GoodRequests' /\ GoodReplies \subseteq GoodReplies'
<1>1. ASSUME NEW r \in GoodRequests PROVE r \in GoodRequests'
  <2>1. r \in Requests /\ r.cause \in Tasks /\ r.offset \in Nat
    BY DEF GoodRequests, Requests
  <2>2. stored[r.cause] \in Nat /\ stored'[r.cause] \in Nat /\ stored[r.cause] <= stored'[r.cause]
    BY <2>1 DEF ServerInv
  <2> QED BY <2>1, <2>2 DEF GoodRequests, ValidUpload
<1>2. ASSUME NEW m \in GoodReplies PROVE m \in GoodReplies'
  <2>1. m \in Replies /\ m.task \in Tasks /\ m.offset \in Nat
    BY DEF GoodReplies, Replies
  <2>2. stored[m.task] \in Nat /\ stored'[m.task] \in Nat /\ stored[m.task] <= stored'[m.task]
    BY <2>1 DEF ServerInv
  <2> QED BY <2>1, <2>2 DEF GoodReplies
<1> QED BY <1>1, <1>2

LEMMA ServeC == ASSUME CInv, Serve PROVE CInv'
<1>1. /\ Head(toServer) \in GoodRequests /\ Tail(toServer) \in Seq(GoodRequests)
      /\ Len(Tail(toServer)) = Len(toServer) - 1 /\ Len(toServer) > 0 /\ conn
  BY DEF Serve, CInv, NetInv
<1>2. PICK a : Handle(Head(toServer), a) /\ toClient' = Append(toClient, a)
  BY DEF Serve
<1>3. /\ ServerInv' /\ a \in GoodReplies' /\ faults' \in 0 .. MaxFaults
      /\ \A t \in Tasks : stored[t] <= stored'[t]
  BY <1>1, <1>2, HandleC
<1>4. GoodRequests \subseteq GoodRequests' /\ GoodReplies \subseteq GoodReplies'
  BY <1>3, GrowsC DEF CInv
<1>5. /\ toClient \in Seq(GoodReplies') /\ toServer' \in Seq(GoodRequests')
      /\ old' \in Seq(GoodRequests') /\ Len(toServer') = Len(toServer) - 1
  BY <1>1, <1>4, LargerL DEF Serve, CInv, NetInv
<1>6. toClient' \in Seq(GoodReplies') /\ Len(toClient') = Len(toClient) + 1
  BY <1>2, <1>3, <1>5
<1>7. NetInv'
  BY <1>1, <1>5, <1>6 DEF Serve, CInv, NetInv
<1>8. NoFlood'
  <2>1. Len(toServer) \in Nat /\ Len(toClient) \in Nat /\ syncs' = syncs
    BY DEF Serve, CInv, NetInv
  <2> QED BY <1>5, <1>6, <2>1 DEF CInv, NoFlood, BoundsInv
<1>9. WindowInv' /\ BoundsInv'
  BY <1>3 DEF Serve, CInv, WindowInv, BoundsInv, windowVars
<1> QED BY <1>3, <1>7, <1>8, <1>9 DEF CInv

LEMMA ServeOldC == ASSUME CInv, ServeOld PROVE CInv'
<1>1. Head(old) \in GoodRequests /\ Tail(old) \in Seq(GoodRequests)
  BY DEF ServeOld, CInv, NetInv
<1>2. PICK a : Handle(Head(old), a)
  BY DEF ServeOld
<1>3. /\ ServerInv' /\ faults' \in 0 .. MaxFaults
      /\ \A t \in Tasks : stored[t] <= stored'[t]
  BY <1>1, <1>2, HandleC
<1>4. GoodRequests \subseteq GoodRequests' /\ GoodReplies \subseteq GoodReplies'
  BY <1>3, GrowsC DEF CInv
<1>5. /\ toClient \in Seq(GoodReplies') /\ toServer \in Seq(GoodRequests')
      /\ old' \in Seq(GoodRequests')
  BY <1>1, <1>4, LargerL DEF ServeOld, CInv, NetInv
<1>6. NetInv' /\ NoFlood'
  BY <1>5 DEF ServeOld, CInv, NetInv, NoFlood
<1>7. WindowInv' /\ BoundsInv'
  BY <1>3 DEF ServeOld, CInv, WindowInv, BoundsInv, windowVars
<1> QED BY <1>3, <1>6, <1>7 DEF CInv

----------------------------------------------------------------------------
(* The network and the files. *)

LEMMA DisconnectC == ASSUME CInv, Disconnect PROVE CInv'
<1>1. PICK k \in 0 .. Len(toServer) : old' = old \o SubSeq(toServer, 1, k)
  BY DEF Disconnect
<1>2. SubSeq(toServer, 1, k) \in Seq(GoodRequests)
  BY DEF CInv, NetInv
<1>3. old' \in Seq(GoodRequests)
  BY <1>1, <1>2 DEF CInv, NetInv
<1>4. NetInv'
  BY <1>3, SameGoodL, EmptySeq DEF Disconnect, CInv, NetInv
<1>5. ServerInv' /\ WindowInv' /\ BoundsInv' /\ NoFlood'
  BY ClientAssumption DEF Disconnect, Fault, CInv, ServerInv, WindowInv, BoundsInv, NoFlood,
     serverVars, windowVars
<1> QED BY <1>4, <1>5 DEF CInv

LEMMA UnlockC == ASSUME CInv, NEW f \in Files, Unlock(f) PROVE CInv'
BY SameGoodL DEF CInv, Unlock, windowVars, netVars, serverVars, WindowInv, ServerInv, NetInv, BoundsInv, NoFlood

LEMMA StutterC == ASSUME CInv, UNCHANGED vars PROVE CInv'
BY SameGoodL DEF CInv, vars, windowVars, netVars, serverVars, WindowInv, ServerInv, NetInv, BoundsInv, NoFlood

----------------------------------------------------------------------------
(* The inductive invariant. *)
THEOREM ClientInvariant == Spec => []CInv
<1>1. CInv /\ [Next]_vars => CInv'
  BY ConnectC, ChooseC, CancelC, UploadC, PauseC, ResumeC, DeliverC, ServeC, ServeOldC, DisconnectC,
     UnlockC, StutterC DEF Next, User
<1> QED BY <1>1, InitC, PTL DEF Spec

(* Types, and that the server never holds more than the file. *)
THEOREM ClientTypeOK == Spec => []TypeOK
<1>1. CInv => TypeOK
  <2> SUFFICES ASSUME CInv PROVE TypeOK
    OBVIOUS
  <2>1. GoodRequests \subseteq Requests /\ GoodReplies \subseteq Replies
    BY DEF GoodRequests, GoodReplies
  <2>2. toServer \in Seq(Requests) /\ old \in Seq(Requests) /\ toClient \in Seq(Replies)
    BY <2>1, LargerL DEF CInv, NetInv
  <2>3. syncs \in 0 .. MaxClicks /\ clicks \in 0 .. MaxClicks
    BY ClientAssumption DEF CInv, BoundsInv
  <2> QED BY <2>2, <2>3 DEF TypeOK, CInv, WindowInv, ServerInv, NetInv, BoundsInv
<1> QED BY <1>1, ClientInvariant, PTL

(* However the user pauses, resumes and changes files, on one connection   *)
(* no more is under way than progress was asked for.                       *)
THEOREM ClientNoFlood == Spec => []NoFlood
<1>1. CInv => NoFlood
  BY DEF CInv
<1> QED BY <1>1, ClientInvariant, PTL

(* What is under way is good. *)
LEMMA InTransitC == ASSUME CInv, NEW r \in ChunksInTransit
                    PROVE  r \in GoodRequests /\ r.type = "chunk"
BY DEF CInv, NetInv, ChunksInTransit, InTransit

(* Every chunk lies in its file, with is_last where it ends it, whatever   *)
(* upload the answer that led to it belongs to.                            *)
THEOREM ClientValidRequests == Spec => []ValidRequests
<1>1. CInv => ValidRequests
  BY InTransitC DEF ValidRequests, GoodRequests
<1> QED BY <1>1, ClientInvariant, PTL

(* No chunk is ahead of what the server holds of the upload whose answer   *)
(* led to it.                                                              *)
THEOREM ClientNeverAhead == Spec => []NeverAhead
<1>1. CInv => NeverAhead
  BY InTransitC DEF NeverAhead, GoodRequests
<1> QED BY <1>1, ClientInvariant, PTL
=============================================================================
