---------------------------- MODULE UploadStore ----------------------------
(***************************************************************************)
(* The upload handlers of server/src/LogicWorker.cpp: HandleSyncFile and   *)
(* HandleUploadFile, run by several worker threads on the task directories *)
(* <file path>/<upload_id>/ {meta.json, data.part, <file name>}.           *)
(*                                                                         *)
(* An upload_id is MD5, size and chunk size of the file, so all requests   *)
(* of one upload agree on them: of the attributes that IsSameTask compares *)
(* only `name' can differ.  A byte of a file is named by its position, so  *)
(* <<1, 2, 3>> is the first three bytes in order.                          *)
(* A step is what a handler does between two points at which the process   *)
(* may be killed with a different disk: the checks made under the mutex    *)
(* only read, so they belong to the step that takes it.                    *)
(***************************************************************************)
EXTENDS Integers, Sequences

CONSTANTS
  Workers,    \* the LogicWorker threads
  NoWorker,   \* g_upload_file_mutex is free
  Uploads,    \* upload ids
  Names,      \* file names requests may carry
  Size,       \* Size[u]: total_size of upload u
  Chunk,      \* most bytes of one upload request
  MaxOffset,  \* bound: largest offset a request may carry
  Faults,     \* the kinds of fault that may happen
  MaxFaults   \* bound: faults in one behaviour

MetaPath == "meta.json"
PartPath == "data.part"
Paths    == Names \cup {MetaPath, PartPath}

ASSUME StoreAssumption ==
  /\ NoWorker \notin Workers
  /\ Size \in [Uploads -> Nat]
  /\ Chunk \in Nat \ {0} /\ MaxOffset \in Nat /\ MaxFaults \in Nat

VARIABLES
  disk,       \* disk[u][p]: the file at path p of task directory u
  owner,      \* the thread in g_upload_file_mutex, or NoWorker
  pc,         \* pc[w]: where in its handler thread w is
  req,        \* req[w]: the request it handles
  reply,      \* reply[w]: the answer its Defer object will send
  acks,       \* history: every success answer sent
  faultsLeft  \* the faults that may still happen

vars == <<disk, owner, pc, req, reply, acks, faultsLeft>>

----------------------------------------------------------------------------
(* Files, requests and answers. *)

NoFile     == [kind |-> "none"]
Torn       == [kind |-> "torn"]   \* truncated or half written: does not parse
Meta_Done(n, c) == [kind |-> "meta", name |-> n, completed |-> TRUE]   \* mutant
Meta(n, c) == [kind |-> "meta", name |-> n, completed |-> c]
Data(s)    == [kind |-> "data", bytes |-> s]

Bytes(f)     == IF f.kind = "data" THEN f.bytes ELSE <<>>
Opened_Trunc(f) == Data(<<>>)       \* mutant: opened without ios::app
Opened(f)    == Data(Bytes(f))      \* opened for appending: kept, or created
Slice(o, k)  == [i \in 1 .. k |-> o + i]   \* k bytes of the file from offset o
(* The size of a metadata file is taken to differ from every total_size. *)
FileSize(f)  == IF f.kind = "data" THEN Len(f.bytes) ELSE -1

SyncReq   == [type: {"sync"}, id: Uploads, name: Names]
UploadReq == [type: {"upload"}, id: Uploads, name: Names,
              offset: 0 .. MaxOffset, len: 0 .. Chunk, last: BOOLEAN]
NoReq     == [type |-> "none"]

Response(e, o, c) == [error |-> e, offset |-> o, completed |-> c]
NoReply    == Response("none", 0, FALSE)
Conflict   == Response("UploadTaskConflict", 0, FALSE)
ErrorJson  == Response("Error_Json", 0, FALSE)
FileError(o)  == Response("UploadFileError", o, FALSE)
Mismatch(o)   == Response("UploadOffsetMismatch", o, FALSE)
Success(o, c) == Response("Success", o, c)

Init == /\ disk  = [u \in Uploads |-> [p \in Paths |-> NoFile]]
        /\ owner = NoWorker
        /\ pc    = [w \in Workers |-> "idle"]
        /\ req   = [w \in Workers |-> NoReq]
        /\ reply = [w \in Workers |-> NoReply]
        /\ acks  = {}
        /\ faultsLeft = MaxFaults

(* A fault of kind k strikes in this step; NoFault: none does. *)
Fault(k) == /\ k \in Faults /\ faultsLeft > 0
            /\ faultsLeft' = faultsLeft - 1
NoFault  == faultsLeft' = faultsLeft

(* The handler ends with answer a: the lock_guard frees the mutex first,   *)
(* the Defer object sends afterwards.                                      *)
Finish(w, a) == /\ pc'    = [pc EXCEPT ![w] = "answer"]
                /\ reply' = [reply EXCEPT ![w] = a]
                /\ owner' = NoWorker

(* The handler keeps the mutex and goes on at label l. *)
Continue(w, l) == /\ pc'    = [pc EXCEPT ![w] = l]
                  /\ owner' = w
                  /\ UNCHANGED reply

Put(u, p, f) == disk' = [disk EXCEPT ![u][p] = f]

----------------------------------------------------------------------------
(* Checks of the handlers. *)

ValidUpload_AnyLast(r) == r.offset + r.len <= Size[r.id]   \* mutant: is_last unchecked
ValidUpload(r) == /\ r.offset + r.len <= Size[r.id]
                  /\ r.last <=> r.offset + r.len = Size[r.id]

(* ReadJsonFile and IsSameTask: the metadata parses and is the request's.  *)
SameTask_AnyName(dir, r) == dir[MetaPath].kind = "meta"    \* mutant: name unchecked
SameTask(dir, r) == dir[MetaPath].kind = "meta" /\ dir[MetaPath].name = r.name

(* What both handlers answer from the finished file ...                    *)
Finished(dir, r) == IF FileSize(dir[r.name]) = Size[r.id]
                    THEN Success(Size[r.id], TRUE) ELSE Conflict

(* Mutants of Confirmed: a full data.part is a conflict; one chunk back to *)
(* be safe; done when all bytes are there.                                 *)
Confirmed_Full(dir, r)  == IF dir[PartPath] # NoFile /\ FileSize(dir[PartPath]) >= Size[r.id]
                           THEN Conflict ELSE Success(Len(Bytes(dir[PartPath])), FALSE)
Confirmed_Back(dir, r)  == Success(Len(Bytes(dir[PartPath])) - Chunk, FALSE)
Confirmed_Bytes(dir, r) == Success(Len(Bytes(dir[PartPath])), FileSize(dir[PartPath]) = Size[r.id])

(* ... or else from data.part; HandleUploadFile goes on writing after it.  *)
Confirmed(dir, r) == IF dir[PartPath] # NoFile /\ FileSize(dir[PartPath]) > Size[r.id]
                     THEN Conflict ELSE Success(Len(Bytes(dir[PartPath])), FALSE)
Progress(dir, r)  == IF dir[r.name] # NoFile THEN Finished(dir, r) ELSE Confirmed(dir, r)

(* A metadata file or a file size that cannot be read is a conflict too.   *)
Unreadable(dir, r) ==
  \/ Fault("read")
  \/ /\ dir[r.name] # NoFile \/ dir[PartPath] # NoFile
     /\ Fault("stat")

----------------------------------------------------------------------------
(* Actions. *)

(* A worker takes a request from its queue and validates it before it asks *)
(* for the mutex.                                                          *)
Receive(w, r) ==
  /\ pc[w] = "idle"
  /\ req' = [req EXCEPT ![w] = r]
  /\ IF r.type = "upload" /\ ~ValidUpload(r)
     THEN /\ pc'    = [pc EXCEPT ![w] = "answer"]
          /\ reply' = [reply EXCEPT ![w] = ErrorJson]
     ELSE /\ pc'    = [pc EXCEPT ![w] = "lock"]
          /\ UNCHANGED reply
  /\ UNCHANGED <<disk, owner, acks, faultsLeft>>

Locks_NoMutex(w, type) == pc[w] = "lock" /\ req[w].type = type   \* mutant
Locks(w, type) == pc[w] = "lock" /\ req[w].type = type /\ owner = NoWorker

(* HandleSyncFile finds the task: a conflict, or how far it has come. *)
SyncFound(w) ==
  LET r == req[w]  dir == disk[r.id]
  IN  /\ Locks(w, "sync")
      /\ dir[MetaPath] # NoFile
      /\ \/ Unreadable(dir, r) /\ Finish(w, Conflict)
         \/ NoFault /\ Finish(w, IF SameTask(dir, r) THEN Progress(dir, r) ELSE Conflict)
      /\ UNCHANGED <<disk, req, acks>>

(* HandleSyncFile creates the task: the directory, then meta.json opened   *)
(* and truncated.                                                          *)
SyncCreate(w) ==
  LET r == req[w]
  IN  /\ Locks(w, "sync")
      /\ disk[r.id][MetaPath] = NoFile
      /\ Put(r.id, MetaPath, Torn)
      /\ NoFault /\ Continue(w, "syncMeta")
      /\ UNCHANGED <<req, acks>>

(* create_directories or, for a new task, the open of meta.json fails. *)
SyncFails(w) ==
  LET r == req[w]
  IN  /\ Locks(w, "sync")
      /\ \/ Fault("mkdir")
         \/ disk[r.id][MetaPath] = NoFile /\ Fault("open")
      /\ Finish(w, FileError(0))
      /\ UNCHANGED <<disk, req, acks>>

(* WriteJsonFile writes the text of meta.json. It reports the state of the *)
(* stream before the destructor flushes it, so a write that fails leaves a *)
(* torn file and may still be reported as done.                            *)
WriteMeta(w, c, done) ==
  LET r == req[w]
  IN  \/ /\ Put(r.id, MetaPath, Meta(r.name, c))
         /\ NoFault /\ Finish(w, done)
      \/ /\ Put(r.id, MetaPath, Torn)
         /\ Fault("metaTear")
         /\ \/ Finish(w, done)
            \/ Finish(w, FileError(IF c THEN r.offset + r.len ELSE 0))

SyncMeta(w) ==
  LET r == req[w]
  IN  /\ pc[w] = "syncMeta"
      /\ WriteMeta(w, FALSE, Progress([disk[r.id] EXCEPT ![MetaPath] = Meta(r.name, FALSE)], r))
      /\ UNCHANGED <<req, acks>>

(* HandleUploadFile answers without writing: another task, a finished file,*)
(* a chunk already stored, or one that is not next.                        *)
UploadRefuse(w) ==
  LET r == req[w]  dir == disk[r.id]  p == Progress(dir, r)
  IN  /\ Locks(w, "upload")
      /\ \/ Unreadable(dir, r) /\ Finish(w, Conflict)
         \/ ~SameTask(dir, r) /\ NoFault /\ Finish(w, Conflict)
         \/ /\ SameTask(dir, r) /\ NoFault
            /\ \/ p.error # "Success" \/ p.completed
               \/ r.offset < p.offset
            /\ Finish(w, p)
         \/ /\ SameTask(dir, r) /\ NoFault
            /\ p.error = "Success" /\ ~p.completed /\ r.offset > p.offset
            /\ Finish(w, Mismatch(p.offset))
      /\ UNCHANGED <<disk, req, acks>>

(* The chunk is next: data.part is opened for appending, or cannot be.     *)
UploadOpen(w) ==
  LET r == req[w]  dir == disk[r.id]
  IN  /\ Locks(w, "upload")
      /\ SameTask(dir, r)
      /\ Progress(dir, r) = Success(r.offset, FALSE)
      /\ \/ Put(r.id, PartPath, Opened(dir[PartPath])) /\ NoFault /\ Continue(w, "append")
         \/ UNCHANGED disk /\ Fault("open") /\ Finish(w, FileError(r.offset))
      /\ UNCHANGED <<req, acks>>

(* write and close: the whole chunk, or a prefix of it and an error.       *)
WriteChunk(w) ==
  LET r == req[w]
      Write(k) == Put(r.id, PartPath, Data(disk[r.id][PartPath].bytes \o Slice(r.offset, k)))
  IN  /\ pc[w] = "append"
      /\ \/ /\ Write(r.len) /\ NoFault
            /\ IF r.last THEN Continue(w, "rename")
                         ELSE Finish(w, Success(r.offset + r.len, FALSE))
         \/ \E k \in 0 .. r.len : Write(k) /\ Fault("append") /\ Finish(w, FileError(r.offset))
      /\ UNCHANGED <<req, acks>>

(* The last chunk is stored: data.part takes its final name. *)
Rename(w) ==
  LET r == req[w]
  IN  /\ pc[w] = "rename"
      /\ \/ /\ disk' = [disk EXCEPT ![r.id] =
                          [@ EXCEPT ![PartPath] = NoFile, ![r.name] = disk[r.id][PartPath]]]
            /\ NoFault /\ Continue(w, "metaOpen")
         \/ UNCHANGED disk /\ Fault("rename") /\ Finish(w, FileError(r.offset + r.len))
      /\ UNCHANGED <<req, acks>>

(* meta.json is rewritten with completed = true: opened and truncated ... *)
MetaOpen(w) ==
  LET r == req[w]
  IN  /\ pc[w] = "metaOpen"
      /\ \/ Put(r.id, MetaPath, Torn) /\ NoFault /\ Continue(w, "metaWrite")
         \/ UNCHANGED disk /\ Fault("open") /\ Finish(w, FileError(r.offset + r.len))
      /\ UNCHANGED <<req, acks>>

(* ... and written. *)
MetaWrite(w) ==
  LET r == req[w]
  IN  /\ pc[w] = "metaWrite"
      /\ WriteMeta(w, TRUE, Success(r.offset + r.len, TRUE))
      /\ UNCHANGED <<req, acks>>

AckOf(r, a) == [id |-> r.id, name |-> r.name, offset |-> a.offset, completed |-> a.completed]

(* The Defer object hands the answer to CSession::Send. *)
Answer(w) ==
  /\ pc[w] = "answer"
  /\ acks'  = IF reply[w].error = "Success" THEN acks \cup {AckOf(req[w], reply[w])} ELSE acks
  /\ pc'    = [pc EXCEPT ![w] = "idle"]
  /\ req'   = [req EXCEPT ![w] = NoReq]
  /\ reply' = [reply EXCEPT ![w] = NoReply]
  /\ UNCHANGED <<disk, owner, faultsLeft>>

(* The process is killed and started again: the disk is what is left. A    *)
(* kill in the middle of an append is a failed WriteChunk and then a Crash.    *)
Crash ==
  /\ Fault("crash")
  /\ owner' = NoWorker
  /\ pc'    = [w \in Workers |-> "idle"]
  /\ req'   = [w \in Workers |-> NoReq]
  /\ reply' = [w \in Workers |-> NoReply]
  /\ UNCHANGED <<disk, acks>>

Sync(w)   == SyncFound(w) \/ SyncCreate(w) \/ SyncFails(w) \/ SyncMeta(w)
Upload(w) == \/ UploadRefuse(w) \/ UploadOpen(w) \/ WriteChunk(w)
             \/ Rename(w) \/ MetaOpen(w) \/ MetaWrite(w)

Next == \/ \E w \in Workers : \/ \E r \in SyncReq \cup UploadReq : Receive(w, r)
                              \/ Sync(w) \/ Upload(w) \/ Answer(w)
        \/ Crash

Spec == Init /\ [][Next]_vars

----------------------------------------------------------------------------
(* Properties. *)

Published(u) == \E n \in Names : disk[u][n].kind = "data"
Stored(u)    == IF Published(u) THEN Size[u] ELSE Len(Bytes(disk[u][PartPath]))

Files     == {NoFile, Torn} \cup [kind: {"meta"}, name: Names, completed: BOOLEAN]
                            \cup [kind: {"data"}, bytes: Seq(Nat)]
Responses == [error: {"none", "Success", "Error_Json", "UploadTaskConflict",
                      "UploadFileError", "UploadOffsetMismatch"},
              offset: Nat, completed: BOOLEAN]
Acks      == [id: Uploads, name: Names, offset: Nat, completed: BOOLEAN]
Labels    == {"idle", "lock", "syncMeta", "append", "rename", "metaOpen", "metaWrite", "answer"}

(* Every variable keeps its type. *)
TypeOK == /\ disk  \in [Uploads -> [Paths -> Files]]
          /\ owner \in Workers \cup {NoWorker}
          /\ pc    \in [Workers -> Labels]
          /\ req   \in [Workers -> {NoReq} \cup SyncReq \cup UploadReq]
          /\ reply \in [Workers -> Responses]
          /\ acks  \in SUBSET Acks
          /\ faultsLeft \in 0 .. MaxFaults

IsPrefixOfFile(f, u) == /\ Len(Bytes(f)) <= Size[u]
                        /\ \A i \in 1 .. Len(Bytes(f)) : Bytes(f)[i] = i

(* data.part is always a prefix of the uploaded file, byte for byte, also  *)
(* after failed writes, retries, restarts and requests in any order.       *)
PartIsPrefix == \A u \in Uploads : IsPrefixOfFile(disk[u][PartPath], u)

(* A file visible under its own name is whole (LogicWorker.cpp:353), there *)
(* is one of them in a task, and the partial file is gone.                 *)
FinalIsWhole ==
  \A u \in Uploads, n \in Names : disk[u][n] # NoFile =>
    /\ IsPrefixOfFile(disk[u][n], u) /\ FileSize(disk[u][n]) = Size[u]
    /\ disk[u][PartPath] = NoFile
    /\ \A m \in Names : disk[u][m] # NoFile => m = n

(* An answer is never ahead of the disk: what the uploader was told is     *)
(* stored stays stored, and `completed' means the file is published.       *)
AckBacked == \A a \in acks : /\ a.offset <= Stored(a.id)
                             /\ a.completed => Published(a.id)

(* One upload_id serves the uploader of one file name.                     *)
OneOwner == \A a, b \in acks : a.id = b.id => a.name = b.name

(* Metadata marked completed belongs to the published file (line 359).     *)
CompletedIsPublished ==
  \A u \in Uploads : LET m == disk[u][MetaPath]
                     IN  m.kind = "meta" /\ m.completed => disk[u][m.name].kind = "data"

(* A sync request is answered UploadTaskConflict only when the metadata of *)
(* its upload_id is that of another file (const.h:12, `the metadata of the *)
(* task does not match').                                                  *)
ConflictIsRealStep ==
  \A w \in Workers :
    (/\ req[w].type = "sync"
     /\ reply[w].error = "none" /\ reply'[w].error = "UploadTaskConflict")
    => /\ disk[req[w].id][MetaPath].kind = "meta"
       /\ disk[req[w].id][MetaPath].name # req[w].name
ConflictIsReal == [][ConflictIsRealStep]_vars

(* With every kind of fault a conflict still has one of three reasons: the *)
(* metadata are those of another file, they were torn, or something could  *)
(* not be read just now; how far the upload has come is never one.         *)
ConflictExplainedStep ==
  \A w \in Workers :
    (/\ req[w].type = "sync"
     /\ reply[w].error = "none" /\ reply'[w].error = "UploadTaskConflict")
    => \/ disk[req[w].id][MetaPath] = Torn
       \/ disk[req[w].id][MetaPath].kind = "meta" /\ disk[req[w].id][MetaPath].name # req[w].name
       \/ faultsLeft' < faultsLeft
ConflictExplained == [][ConflictExplainedStep]_vars

Task == INSTANCE UploadTask WITH
          stored    <- [u \in Uploads |-> Stored(u)],
          published <- [u \in Uploads |-> Published(u)]

(* The store implements UploadTask.                                        *)
TaskSpec == Task!Spec
=============================================================================
