---------------------------- MODULE UploadClient ----------------------------
(***************************************************************************)
(* The upload client: MainWindow (buttons, _upload_active, the slots) over *)
(* TcpClient, with a connection that may break and the upload store at its *)
(* other end.  The store is taken as one step per request, which is what   *)
(* its mutex makes of it (UploadStore has the steps inside).               *)
(*                                                                         *)
(* The md5 and the name of a file are the file itself; the files keep their*)
(* contents and sizes, but one may be unreadable for a while.              *)
(***************************************************************************)
EXTENDS Integers, Sequences

CONSTANTS
  Files,      \* local files
  None,       \* no file, no upload_id
  Size,       \* Size[f]: bytes of file f
  Chunk,      \* MAX_FILE_LEN
  Locked,     \* the files that cannot be read at first
  MaxClicks,  \* bound: clicks of the user
  MaxFaults   \* bound: broken connections and failed requests

ASSUME ClientAssumption == /\ None \notin Files /\ Size \in [Files -> Nat] /\ Chunk \in Nat \ {0}
                           /\ Locked \subseteq Files /\ MaxClicks \in Nat /\ MaxFaults \in Nat

(* An upload_id: md5 and size (the chunk size is fixed). *)
Tasks == [md5: Files, size: {Size[f] : f \in Files}]

VARIABLES
  path, md5, task,    \* _file_path, _file_md5, _upload_id with _file_size
  active, hasTask,    \* _upload_active, _has_upload_task
  uploadOn, resumeOn, \* uploadButton and resumeButton are enabled
  done,               \* the status line says that the upload is complete
  conn,               \* the TCP connection stands
  toServer, toClient, \* what is under way on it
  old,                \* requests of earlier connections the server has still to handle
  owner, stored, published,  \* per upload_id: name in meta.json, bytes held, published
  locked,             \* files that cannot be read now
  syncs,              \* history: sync requests sent on this connection
  clicks, faults      \* clicks and faults left

windowVars == <<path, md5, task, active, hasTask, uploadOn, resumeOn, done>>
netVars    == <<conn, toServer, toClient, old>>
serverVars == <<owner, stored, published>>
vars       == <<windowVars, netVars, serverVars, locked, syncs, clicks, faults>>

Init == /\ path = None /\ md5 = None /\ task = None
        /\ active = FALSE /\ hasTask = FALSE /\ done = FALSE
        /\ uploadOn = TRUE /\ resumeOn = FALSE
        /\ conn = FALSE /\ toServer = <<>> /\ toClient = <<>> /\ old = <<>>
        /\ owner = [t \in Tasks |-> None]
        /\ stored = [t \in Tasks |-> 0] /\ published = [t \in Tasks |-> FALSE]
        /\ locked = Locked /\ syncs = 0 /\ clicks = MaxClicks /\ faults = MaxFaults

(* cause: the upload whose answer named the offset, not part of the request.*)
Sync(t, f)                == [type |-> "sync", task |-> t, file |-> f, offset |-> 0, len |-> 0,
                              last |-> FALSE, cause |-> t]
ChunkOf(t, f, o, k, l, c) == [type |-> "chunk", task |-> t, file |-> f, offset |-> o, len |-> k,
                              last |-> l, cause |-> c]
Reply(r, ok, o, c)     == [type |-> r.type, task |-> r.task, ok |-> ok, offset |-> o,
                           completed |-> c]

Click == clicks > 0 /\ clicks' = clicks - 1
Fault == faults > 0 /\ faults' = faults - 1

----------------------------------------------------------------------------
(* What the user does. *)

(* connectButton, and the connection is there. *)
Connect ==
  /\ ~conn /\ Click
  /\ conn' = TRUE /\ syncs' = 0
  /\ UNCHANGED <<windowVars, toServer, toClient, old, serverVars, locked, faults>>

(* chooseFileButton: the task of the file before is given up; an unreadable*)
(* file leaves the md5 of that file in place.                              *)
ChooseFile(f) ==
  /\ Click
  /\ path' = f
  /\ md5' = IF f \in locked THEN md5 ELSE f
  /\ active' = FALSE /\ hasTask' = FALSE /\ resumeOn' = FALSE /\ done' = FALSE
  /\ UNCHANGED <<task, uploadOn, netVars, serverVars, locked, syncs, faults>>

(* The file dialog is cancelled. *)
CancelChoose ==
  /\ Click
  /\ path' = None
  /\ UNCHANGED <<md5, task, active, hasTask, uploadOn, resumeOn, done, netVars,
                 serverVars, locked, syncs, faults>>

requestUploadSync(t) ==
  /\ toServer' = Append(toServer, Sync(t, path))
  /\ syncs' = syncs + 1

(* uploadButton *)
Upload ==
  LET t == [md5 |-> md5, size |-> Size[path]]
  IN  /\ uploadOn /\ Click
      /\ conn /\ path # None /\ md5 # None
      /\ task' = t
      /\ active' = TRUE /\ hasTask' = TRUE /\ done' = FALSE
      /\ uploadOn' = FALSE /\ resumeOn' = TRUE
      /\ requestUploadSync(t)
      /\ UNCHANGED <<path, md5, conn, toClient, old, serverVars, locked, faults>>

(* resumeButton, "pause": what is in flight is not called back.            *)
Pause ==
  /\ resumeOn /\ active /\ Click
  /\ active' = FALSE /\ done' = FALSE
  /\ UNCHANGED <<path, md5, task, hasTask, uploadOn, resumeOn, netVars, serverVars,
                 locked, syncs, faults>>

(* resumeButton, "resume": ask for the progress again. *)
Resume ==
  /\ resumeOn /\ ~active /\ hasTask /\ Click
  /\ conn /\ path # None /\ md5 # None
  /\ active' = TRUE /\ uploadOn' = FALSE /\ done' = FALSE
  /\ requestUploadSync(task)
  /\ UNCHANGED <<path, md5, task, hasTask, resumeOn, conn, toClient, old, serverVars,
                 locked, faults>>

----------------------------------------------------------------------------
(* What the client does with an answer. *)

slot_upload_error ==
  /\ active' = FALSE /\ uploadOn' = TRUE /\ done' = FALSE
  /\ UNCHANGED <<resumeOn, toServer>>

Completed ==
  /\ active' = FALSE /\ uploadOn' = TRUE /\ resumeOn' = FALSE /\ done' = TRUE
  /\ UNCHANGED toServer

(* The chunk that sendNextChunk reads at offset o, and mutants of it: the  *)
(* offset of the chunk before; a short read is the last; an empty chunk is *)
(* not worth sending; two at a time.                                       *)
LenAt(o) == IF Size[path] - o < Chunk THEN Size[path] - o ELSE Chunk
ChunkAt(o, k, last, c) == ChunkOf(task, path, o, k, last, c)
ChunksAt_Back(o, c)  == <<ChunkAt(o - Chunk, LenAt(o), o + LenAt(o) = task.size, c)>>
ChunksAt_Short(o, c) == <<ChunkAt(o, LenAt(o), LenAt(o) < Chunk, c)>>
ChunksAt_Some(o, c)  == IF LenAt(o) = 0 THEN <<>>
                        ELSE <<ChunkAt(o, LenAt(o), o + LenAt(o) = task.size, c)>>
ChunksAt_Two(o, c)   == LET chunk == ChunkAt(o, LenAt(o), o + LenAt(o) = task.size, c)
                        IN  <<chunk, chunk>>
ChunksAt(o, c)       == <<ChunkAt(o, LenAt(o), o + LenAt(o) = task.size, c)>>

sendNextChunk(o, c) ==
  IF o > task.size \/ path = None \/ path \in locked
  THEN slot_upload_error
  ELSE /\ toServer' = toServer \o ChunksAt(o, c)
       /\ done' = FALSE
       /\ UNCHANGED <<active, uploadOn, resumeOn>>

slot_upload_progress(m) ==
  IF m.completed THEN Completed
  ELSE IF active THEN sendNextChunk(m.offset, m.task)
  ELSE done' = FALSE /\ UNCHANGED <<active, uploadOn, resumeOn, toServer>>

(* Only this slot looks at the upload_id of the answer. *)
slot_file_sync(m) == IF m.task # task THEN slot_upload_error ELSE slot_upload_progress(m)

(* The handlers of the two answers. *)
Receive(m) ==
  IF ~m.ok THEN slot_upload_error
  ELSE IF m.type = "sync" THEN slot_file_sync(m)
  ELSE slot_upload_progress(m)

Deliver ==
  /\ toClient # <<>>
  /\ Receive(Head(toClient))
  /\ toClient' = Tail(toClient)
  /\ UNCHANGED <<path, md5, task, hasTask, conn, old, serverVars, locked, syncs, clicks,
                 faults>>

----------------------------------------------------------------------------
(* The server handles request r and would answer a.                        *)
ValidUpload(r) == /\ r.offset + r.len <= r.task.size
                  /\ r.last <=> r.offset + r.len = r.task.size

(* A chunk the server already holds is answered with its own progress.     *)
Again_Sent(r) == Reply(r, TRUE, r.offset + r.len, FALSE)   \* mutant: with the progress of r
Again(r)      == Reply(r, TRUE, stored[r.task], FALSE)

HandleSyncFile(r, a) ==
  LET t == r.task
  IN  /\ r.type = "sync"
      /\ owner' = IF owner[t] = None THEN [owner EXCEPT ![t] = r.file] ELSE owner
      /\ a = IF owner'[t] = r.file THEN Reply(r, TRUE, stored[t], published[t])
                                   ELSE Reply(r, FALSE, 0, FALSE)
      /\ UNCHANGED <<stored, published, faults>>

HandleUploadFile(r, a) ==
  LET t == r.task
      Keep == UNCHANGED <<stored, published, faults>>
  IN  /\ r.type = "chunk" /\ UNCHANGED owner
      /\ \/ /\ ~ValidUpload(r) \/ owner[t] # r.file \/ (~published[t] /\ r.offset > stored[t])
            /\ a = Reply(r, FALSE, stored[t], FALSE) /\ Keep
         \/ /\ ValidUpload(r) /\ owner[t] = r.file
            /\ \/ published[t] /\ a = Reply(r, TRUE, t.size, TRUE) /\ Keep
               \/ ~published[t] /\ r.offset < stored[t] /\ a = Again(r) /\ Keep
               \/ /\ ~published[t] /\ r.offset = stored[t]
                  /\ stored' = [stored EXCEPT ![t] = @ + r.len]
                  /\ published' = [published EXCEPT ![t] = r.last]
                  /\ a = Reply(r, TRUE, r.offset + r.len, r.last)
                  /\ UNCHANGED faults
               \/ /\ ~published[t] /\ r.offset = stored[t]    \* some of it was done, then an error
                  /\ Fault
                  /\ \E k \in 0 .. r.len, p \in BOOLEAN :
                       /\ p => r.last /\ k = r.len
                       /\ stored' = [stored EXCEPT ![t] = @ + k]
                       /\ published' = [published EXCEPT ![t] = p]
                  /\ a = Reply(r, FALSE, r.offset, FALSE)

Answers(r) == LET t == r.task
                  offs == {stored[t], t.size, r.offset, r.offset + r.len, 0}
              IN  {Reply(r, ok, o, c) : ok \in BOOLEAN, o \in offs, c \in BOOLEAN}

Handle(r, a) == HandleSyncFile(r, a) \/ HandleUploadFile(r, a)

Serve ==
  /\ toServer # <<>>
  /\ \E a \in Answers(Head(toServer)) : /\ Handle(Head(toServer), a)
                                        /\ toClient' = Append(toClient, a)
  /\ toServer' = Tail(toServer)
  /\ UNCHANGED <<windowVars, conn, old, locked, syncs, clicks>>

(* A request that a broken connection left with the server; the answer goes*)
(* nowhere.                                                                *)
ServeOld ==
  /\ old # <<>>
  /\ \E a \in Answers(Head(old)) : Handle(Head(old), a)
  /\ old' = Tail(old)
  /\ UNCHANGED <<windowVars, conn, toServer, toClient, locked, syncs, clicks>>

----------------------------------------------------------------------------
(* The connection breaks: answers are lost, and some of the requests. The  *)
(* window learns nothing of it.                                            *)
Disconnect ==
  /\ conn /\ Fault
  /\ conn' = FALSE
  /\ \E k \in 0 .. Len(toServer) : old' = old \o SubSeq(toServer, 1, k)
  /\ toServer' = <<>> /\ toClient' = <<>>
  /\ UNCHANGED <<windowVars, serverVars, locked, syncs, clicks>>

Unlock(f) ==
  /\ f \in locked
  /\ locked' = locked \ {f}
  /\ UNCHANGED <<windowVars, netVars, serverVars, syncs, clicks, faults>>

User == Connect \/ CancelChoose \/ Upload \/ Pause \/ Resume \/ \E f \in Files : ChooseFile(f)

Next == \/ User \/ Deliver \/ Serve \/ ServeOld
        \/ Disconnect \/ \E f \in Files : Unlock(f)

Spec == Init /\ [][Next]_vars

(* The server handles what it has received and the event loop of the client*)
(* delivers what has arrived; nobody has to click.                         *)
FairSpec == Spec /\ WF_vars(Serve) /\ WF_vars(Deliver)

----------------------------------------------------------------------------
Requests == [type: {"sync", "chunk"}, task: Tasks, file: Files, offset: Nat, len: 0 .. Chunk,
             last: BOOLEAN, cause: Tasks]
Replies  == [type: {"sync", "chunk"}, task: Tasks, ok: BOOLEAN, offset: Nat,
             completed: BOOLEAN]

(* Every variable keeps its type. *)
TypeOK ==
  /\ path \in Files \cup {None} /\ md5 \in Files \cup {None}
  /\ task \in Tasks \cup {None}
  /\ {active, hasTask, uploadOn, resumeOn, done, conn} \subseteq BOOLEAN
  /\ toServer \in Seq(Requests) /\ old \in Seq(Requests) /\ toClient \in Seq(Replies)
  /\ owner \in [Tasks -> Files \cup {None}]
  /\ stored \in [Tasks -> Nat] /\ published \in [Tasks -> BOOLEAN]
  /\ \A t \in Tasks : stored[t] <= t.size
  /\ locked \subseteq Locked
  /\ syncs \in 0 .. MaxClicks /\ clicks \in 0 .. MaxClicks /\ faults \in 0 .. MaxFaults

InTransit == {toServer[i] : i \in DOMAIN toServer} \cup {old[i] : i \in DOMAIN old}
ChunksInTransit == {r \in InTransit : r.type = "chunk"}

(* An answer brings at most one request: on one connection no more requests*)
(* and answers are under way than progress was asked for, however the user *)
(* pauses, resumes and changes files.                                      *)
NoFlood == Len(toServer) + Len(toClient) <= syncs

(* Every chunk lies in its file and is_last says whether it ends it, also  *)
(* when an answer to another upload decided its offset: the server never   *)
(* has to answer Error_Json.                                               *)
ValidRequests == \A r \in ChunksInTransit : ValidUpload(r)

(* The client never skips: no chunk is ahead of what the server holds of   *)
(* the upload whose answer led to it, with pauses, failed writes,          *)
(* reconnects and late chunks of old connections (docs/文件上传.md:658).       *)
(* That upload is the one of the chunk, unless a late answer to the upload *)
(* before decided: then the server refuses the chunk.                      *)
NeverAhead == \A r \in ChunksInTransit : r.offset <= stored[r.cause]

(* Once it has asked for the progress on a connection, an upload does not  *)
(* stall there: it completes, fails visibly or is paused by the user, or   *)
(* the connection breaks.                                                  *)
UploadEnds == active /\ conn /\ syncs > 0 ~> ~active \/ ~conn

(* What the window shows is what the server confirmed (mainwindow.cpp:139).*)
DoneIsPublished == done => published[task]
=============================================================================
