------------------------- MODULE UploadStoreProofs -------------------------
(***************************************************************************)
(* Proofs about UploadStore: the inductive invariant of UploadStoreInv     *)
(* holds in every behaviour, for any workers, uploads, names, sizes and    *)
(* faults, and the safety properties follow from it.                       *)
(***************************************************************************)
EXTENDS UploadStoreInv, SequenceTheorems, TLAPS

----------------------------------------------------------------------------
(* Files and answers. *)

(* A file is what its kind says, and always has a sequence of bytes.       *)
LEMMA FileKinds ==
  ASSUME NEW f \in Files
  PROVE  /\ f.kind \in {"none", "torn", "meta", "data"}
         /\ f.kind = "none" <=> f = NoFile
         /\ f.kind = "torn" <=> f = Torn
         /\ f.kind = "data" => f.bytes \in Seq(Nat) /\ Bytes(f) = f.bytes /\ FileSize(f) = Len(f.bytes)
         /\ f.kind # "data" => Bytes(f) = <<>> /\ FileSize(f) = -1
         /\ f.kind = "meta" => f.name \in Names /\ f.completed \in BOOLEAN
         /\ Bytes(f) \in Seq(Nat) /\ Len(Bytes(f)) \in Nat
<1>1. CASE f \in {NoFile, Torn}
  BY <1>1 DEF NoFile, Torn, Bytes, FileSize
<1>2. CASE f \in [kind: {"meta"}, name: Names, completed: BOOLEAN]
  BY <1>2 DEF NoFile, Torn, Bytes, FileSize
<1>3. CASE f \in [kind: {"data"}, bytes: Seq(Nat)]
  BY <1>3 DEF NoFile, Torn, Bytes, FileSize
<1>. QED  BY <1>1, <1>2, <1>3 DEF Files

(* The files the handlers write are files. *)
LEMMA WrittenFiles ==
  /\ NoFile \in Files /\ Torn \in Files
  /\ \A n \in Names, c \in BOOLEAN : Meta(n, c) \in Files
  /\ \A s \in Seq(Nat) : Data(s) \in Files
  /\ NoFile.kind = "none" /\ Torn.kind = "torn"
  /\ \A n, c : Meta(n, c).kind = "meta" /\ Meta(n, c).name = n /\ Meta(n, c).completed = c
  /\ \A s : Data(s).kind = "data" /\ Data(s).bytes = s
BY DEF Files, NoFile, Torn, Meta, Data

(* Writing one path of one task directory changes nothing else. *)
LEMMA PutDisk ==
  ASSUME disk \in [Uploads -> [Paths -> Files]],
         NEW u \in Uploads, NEW p \in Paths, NEW f \in Files, Put(u, p, f)
  PROVE  /\ disk' \in [Uploads -> [Paths -> Files]]
         /\ disk'[u][p] = f
         /\ \A v \in Uploads, q \in Paths : v # u \/ q # p => disk'[v][q] = disk[v][q]
BY DEF Put

LEMMA PathsHere == /\ MetaPath \in Paths /\ PartPath \in Paths /\ MetaPath # PartPath
                   /\ \A n \in Names : n \in Paths /\ n # MetaPath /\ n # PartPath
BY PlainNames DEF Paths, MetaPath, PartPath

(* The answer Progress gives, for a directory whose final files are whole. *)
LEMMA ProgressAnswer ==
  ASSUME NEW dir \in [Paths -> Files], NEW r, r.name \in Names, r.id \in Uploads
  PROVE  /\ Progress(dir, r) \in Responses
         /\ Progress(dir, r).error \in {"Success", "UploadTaskConflict"}
         /\ Progress(dir, r).error = "Success" /\ Progress(dir, r).completed =>
              dir[r.name].kind = "data" /\ Progress(dir, r).offset = Size[r.id]
         /\ Progress(dir, r).error = "Success" /\ ~Progress(dir, r).completed =>
              dir[r.name] = NoFile /\ Progress(dir, r).offset = Len(Bytes(dir[PartPath]))
<1>. /\ dir[r.name] \in Files /\ dir[PartPath] \in Files /\ Size[r.id] \in Nat
     /\ dir[r.name].kind # "data" => FileSize(dir[r.name]) = -1
     /\ Len(Bytes(dir[PartPath])) \in Nat
  BY StoreAssumption, PathsHere, FileKinds
<1>. QED  BY DEF Progress, Finished, Confirmed, Success, Conflict, Response, Responses

----------------------------------------------------------------------------
(* Ends and middles of a handler. *)

(* A handler that ends gives at most its own answer.                       *)
LEMMA FinishGiven ==
  ASSUME TypeOK, NEW w \in Workers, NEW a, Finish(w, a), UNCHANGED <<req, acks>>
  PROVE  \A g \in Given' : g \in Given \/ (a.error = "Success" /\ g = AckOf(req[w], a))
<1>. SUFFICES ASSUME NEW g \in Given', g \notin Given
              PROVE  a.error = "Success" /\ g = AckOf(req[w], a)
  OBVIOUS
<1>1. PICK v \in Workers : /\ pc'[v] = "answer" /\ reply'[v].error = "Success"
                           /\ g = AckOf(req'[v], reply'[v])
  BY DEF Given, Decided
<1>2. CASE v = w
  BY <1>1, <1>2 DEF Finish, TypeOK
<1>3. CASE v # w
  BY <1>1, <1>3 DEF Finish, TypeOK, Given, Decided
<1>. QED  BY <1>2, <1>3

(* A handler that goes on gives no answer. *)
LEMMA ContinueGiven ==
  ASSUME TypeOK, NEW w \in Workers, NEW l \in Critical, pc[w] # "answer",
         Continue(w, l), UNCHANGED <<req, acks>>
  PROVE  Given' = Given
<1>1. Decided' = Decided
  BY DEF Continue, TypeOK, Decided, Critical
<1>2. \A v \in Decided : AckOf(req'[v], reply'[v]) = AckOf(req[v], reply[v])
  BY DEF Continue
<1>. QED  BY <1>1, <1>2 DEF Given

(* When a handler has ended no thread is inside one.                       *)
LEMMA FinishAlone ==
  ASSUME TypeOK, LockInv, NEW w \in Workers, NEW a, Finish(w, a), UNCHANGED req,
         owner \in {NoWorker, w}, pc[w] # "idle"
  PROVE  /\ \A v \in Workers : pc'[v] \notin Critical
         /\ LockInv' /\ LabelInv' /\ (RequestInv => RequestInv')
<1>1. \A v \in Workers : pc'[v] \notin Critical
  BY StoreAssumption DEF Finish, TypeOK, LockInv, Critical
<1>2. LockInv'
  BY <1>1, StoreAssumption DEF LockInv, Finish
<1>3. LabelInv'
  BY <1>1 DEF LabelInv, Critical
<1>4. ASSUME RequestInv PROVE RequestInv'
  BY <1>1, <1>4 DEF RequestInv, Finish, TypeOK, Critical
<1>. QED  BY <1>1, <1>2, <1>3, <1>4

(* A thread that goes on is alone inside a handler.                        *)
LEMMA ContinueAlone ==
  ASSUME TypeOK, LockInv, NEW w \in Workers, NEW l \in Critical, Continue(w, l),
         owner \in {NoWorker, w}
  PROVE  LockInv' /\ \A v \in Workers : pc'[v] \in Critical => v = w /\ pc'[v] = l
BY StoreAssumption DEF Continue, TypeOK, LockInv, Critical

----------------------------------------------------------------------------
(* Steps that leave the disk as it is. *)

LEMMA RequestFields ==
  ASSUME TypeOK, RequestInv, NEW w \in Workers, pc[w] # "idle"
  PROVE  /\ req[w] \in SyncReq \cup UploadReq
         /\ req[w].id \in Uploads /\ req[w].name \in Names /\ Size[req[w].id] \in Nat
         /\ req[w].type = "upload" => req[w].offset \in Nat /\ req[w].len \in Nat
BY StoreAssumption DEF TypeOK, RequestInv, SyncReq, UploadReq

LEMMA StoredNat ==
  ASSUME TypeOK, NEW u \in Uploads
  PROVE  Stored(u) \in Nat
<1>1. disk[u][PartPath] \in Files
  BY PathsHere DEF TypeOK
<1>. QED  BY <1>1, FileKinds, StoreAssumption DEF Stored

(* A handler that wrote nothing, or whose rename or open failed, ends.     *)
LEMMA ReadOnlyFinish ==
  ASSUME IInv, NEW w \in Workers, pc[w] \in Critical \cup {"lock"},
         owner \in {NoWorker, w}, NEW a \in Responses, Finish(w, a),
         UNCHANGED <<disk, req, acks>>, faultsLeft' \in 0 .. MaxFaults,
         a.error = "Success" => /\ SameTask(disk[req[w].id], req[w])
                                /\ a.offset <= Stored(req[w].id)
                                /\ a.completed => Published(req[w].id)
  PROVE  IInv'
<1>. USE DEF IInv
<1>1. TypeOK'
  BY DEF TypeOK, Finish, Labels
<1>2. LockInv' /\ LabelInv' /\ RequestInv'
  BY FinishAlone DEF Critical
<1>3. DiskInv' /\ NameInv' /\ PartIsPrefix' /\ FinalIsWhole' /\ CompletedIsPublished'
  BY DEF DiskInv, NameInv, PartIsPrefix, FinalIsWhole, CompletedIsPublished
<1>4. \A u : Stored(u)' = Stored(u) /\ Published(u)' = Published(u)
  BY DEF Stored, Published
<1>5. \A g \in Given' : g \in Given \/ (a.error = "Success" /\ g = AckOf(req[w], a))
  BY FinishGiven
<1>6. GivenBacked'
  BY <1>4, <1>5 DEF GivenBacked, AckOf
<1>7. GivenNamed'
  <2>1. ASSUME NEW g \in Given'
        PROVE  /\ disk[g.id][MetaPath] # NoFile
               /\ disk[g.id][MetaPath].kind = "meta" => disk[g.id][MetaPath].name = g.name
    BY <1>5 DEF GivenNamed, AckOf, SameTask, NoFile
  <2>2. ASSUME NEW g \in Given', NEW h \in Given', g.id = h.id
        PROVE  g.name = h.name
    BY <1>5, <2>1, <2>2 DEF GivenNamed, AckOf, SameTask
  <2>. QED  BY <2>1, <2>2 DEF GivenNamed
<1>. QED  BY <1>1, <1>2, <1>3, <1>6, <1>7

LEMMA AnswerTypes ==
  /\ Conflict \in Responses /\ ErrorJson \in Responses /\ NoReply \in Responses
  /\ Conflict.error # "Success" /\ ErrorJson.error # "Success" /\ NoReply.error # "Success"
  /\ \A o \in Nat : /\ FileError(o) \in Responses /\ FileError(o).error # "Success"
                    /\ Mismatch(o) \in Responses /\ Mismatch(o).error # "Success"
                    /\ \A c \in BOOLEAN : /\ Success(o, c) \in Responses
                                          /\ Success(o, c).error = "Success"
                                          /\ Success(o, c).offset = o
                                          /\ Success(o, c).completed = c
BY DEF Responses, Conflict, ErrorJson, NoReply, FileError, Mismatch, Success, Response

LEMMA FaultType ==
  ASSUME TypeOK, (\E k : Fault(k)) \/ NoFault
  PROVE  faultsLeft' \in 0 .. MaxFaults
BY StoreAssumption DEF TypeOK, Fault, NoFault

(* What the task's own directory says of it is backed by the disk. *)
LEMMA ProgressBacked ==
  ASSUME TypeOK, RequestInv, PartIsPrefix, NEW w \in Workers, pc[w] # "idle",
         Progress(disk[req[w].id], req[w]).error = "Success"
  PROVE  /\ Progress(disk[req[w].id], req[w]).offset <= Stored(req[w].id)
         /\ Progress(disk[req[w].id], req[w]).completed => Published(req[w].id)
<1>. DEFINE u == req[w].id  p == Progress(disk[u], req[w])
<1>1. u \in Uploads /\ req[w].name \in Names /\ Size[u] \in Nat /\ disk[u] \in [Paths -> Files]
  BY RequestFields DEF TypeOK
<1>2. CASE p.completed
  BY <1>1, <1>2, ProgressAnswer DEF Stored, Published
<1>3. CASE ~p.completed
  <2>1. p.offset = Len(Bytes(disk[u][PartPath]))
    BY <1>1, <1>3, ProgressAnswer
  <2>2. disk[u][PartPath] \in Files
    BY <1>1, PathsHere
  <2>. QED  BY <1>1, <1>3, <2>1, <2>2, FileKinds DEF PartIsPrefix, IsPrefixOfFile, Stored
<1>. QED  BY <1>2, <1>3

LEMMA SyncFoundStep ==
  ASSUME IInv, NEW w \in Workers, SyncFound(w)
  PROVE  IInv'
<1>. DEFINE r == req[w]  dir == disk[r.id]
<1>1. /\ pc[w] = "lock" /\ owner = NoWorker /\ UNCHANGED <<disk, req, acks>>
      /\ faultsLeft' \in 0 .. MaxFaults
      /\ Finish(w, Conflict) \/ (SameTask(dir, r) /\ Finish(w, Progress(dir, r)))
  BY FaultType DEF SyncFound, Locks, Unreadable, IInv
<1>2. Progress(dir, r) \in Responses
  BY <1>1, RequestFields, ProgressAnswer DEF IInv, TypeOK
<1>3. CASE Finish(w, Conflict)
  BY <1>1, <1>3, ReadOnlyFinish, AnswerTypes
<1>4. CASE SameTask(dir, r) /\ Finish(w, Progress(dir, r))
  BY <1>1, <1>2, <1>4, ReadOnlyFinish, ProgressBacked DEF IInv
<1>. QED  BY <1>1, <1>3, <1>4

LEMMA SyncFailsStep ==
  ASSUME IInv, NEW w \in Workers, SyncFails(w)
  PROVE  IInv'
<1>1. /\ pc[w] = "lock" /\ owner = NoWorker /\ UNCHANGED <<disk, req, acks>>
      /\ faultsLeft' \in 0 .. MaxFaults /\ Finish(w, FileError(0))
  BY FaultType DEF SyncFails, Locks, IInv
<1>. QED  BY <1>1, ReadOnlyFinish, AnswerTypes

LEMMA UploadRefuseStep ==
  ASSUME IInv, NEW w \in Workers, UploadRefuse(w)
  PROVE  IInv'
<1>. DEFINE r == req[w]  dir == disk[r.id]  p == Progress(dir, r)
<1>1. /\ pc[w] = "lock" /\ owner = NoWorker /\ UNCHANGED <<disk, req, acks>>
      /\ faultsLeft' \in 0 .. MaxFaults
      /\ \/ Finish(w, Conflict)
         \/ SameTask(dir, r) /\ (Finish(w, p) \/ Finish(w, Mismatch(p.offset)))
  BY FaultType DEF UploadRefuse, Locks, Unreadable, IInv
<1>2. p \in Responses /\ p.offset \in Nat
  BY <1>1, RequestFields, ProgressAnswer DEF IInv, TypeOK, Responses
<1>3. CASE Finish(w, Conflict)
  BY <1>1, <1>3, ReadOnlyFinish, AnswerTypes
<1>4. CASE SameTask(dir, r) /\ Finish(w, p)
  BY <1>1, <1>2, <1>4, ReadOnlyFinish, ProgressBacked DEF IInv
<1>5. CASE Finish(w, Mismatch(p.offset))
  BY <1>1, <1>2, <1>5, ReadOnlyFinish, AnswerTypes
<1>. QED  BY <1>1, <1>3, <1>4, <1>5

----------------------------------------------------------------------------
(* Steps that write to the disk. *)

(* What is on the disk after the step serves every answer given before it. *)
Served == /\ \A u \in Uploads : Stored(u) <= Stored(u)' /\ (Published(u) => Published(u)')
          /\ \A u \in Uploads : disk[u][MetaPath] # NoFile => disk'[u][MetaPath] # NoFile
          /\ \A g \in Given : disk'[g.id][MetaPath].kind = "meta" => disk'[g.id][MetaPath].name = g.name

(* What a step does to the abstract task: nothing, more bytes, or the      *)
(* finished file.                                                          *)
SameStore == \A v \in Uploads : Stored(v)' = Stored(v) /\ Published(v)' = Published(v)
Grows(u)  == /\ ~Published(u) /\ Stored(u)' \in Stored(u) .. Size[u]
             /\ \A v \in Uploads : /\ Published(v)' = Published(v)
                                   /\ v # u => Stored(v)' = Stored(v)
Publishes(u) == /\ Stored(u) = Size[u] /\ Published(u)'
                /\ \A v \in Uploads : /\ Stored(v)' = Stored(v)
                                      /\ v # u => Published(v)' = Published(v)

DiskParts == /\ disk \in [Uploads -> [Paths -> Files]]
             /\ DiskInv /\ NameInv /\ PartIsPrefix /\ FinalIsWhole /\ CompletedIsPublished

LEMMA GivenTypes ==
  ASSUME TypeOK, RequestInv
  PROVE  Given \subseteq Acks
<1>1. ASSUME NEW w \in Decided PROVE AckOf(req[w], reply[w]) \in Acks
  <2>1. w \in Workers /\ pc[w] # "idle" /\ reply[w] \in Responses
    BY DEF Decided, TypeOK
  <2>. QED  BY <2>1, RequestFields DEF AckOf, Acks, Responses
<1>. QED  BY <1>1 DEF Given, TypeOK

LEMMA WriteFinish ==
  ASSUME IInv, NEW w \in Workers, pc[w] \in Critical, NEW a \in Responses, Finish(w, a),
         UNCHANGED <<req, acks>>, faultsLeft' \in 0 .. MaxFaults, DiskParts', Served,
         a.error = "Success" =>
           /\ a.offset <= Stored(req[w].id)' /\ (a.completed => Published(req[w].id)')
           /\ disk'[req[w].id][MetaPath] # NoFile
           /\ disk'[req[w].id][MetaPath].kind = "meta" => disk'[req[w].id][MetaPath].name = req[w].name
           /\ \A g \in Given : g.id = req[w].id => g.name = req[w].name
  PROVE  IInv'
<1>. USE DEF IInv
<1>1. TypeOK' /\ owner = w
  BY DEF TypeOK, Finish, Labels, DiskParts, LockInv
<1>2. LockInv' /\ LabelInv' /\ RequestInv'
  BY <1>1, FinishAlone DEF Critical
<1>3. \A g \in Given' : g \in Given \/ (a.error = "Success" /\ g = AckOf(req[w], a))
  BY FinishGiven
<1>4. Given \subseteq Acks /\ req[w].id \in Uploads
  BY GivenTypes, RequestFields DEF Critical
<1>5. GivenBacked'
  <2>. SUFFICES ASSUME NEW g \in Given'
                PROVE  g.offset <= Stored(g.id)' /\ (g.completed => Published(g.id)')
    BY DEF GivenBacked
  <2>1. CASE g \in Given
    <3>1. g.offset \in Nat /\ Stored(g.id) \in Nat /\ Stored(g.id)' \in Nat /\ g.id \in Uploads
      <4>1. g.id \in Uploads /\ g.offset \in Nat
        BY <1>4, <2>1 DEF Acks
      <4>2. TypeOK' => Stored(g.id)' \in Nat
        <5>1. TypeOK' => disk'[g.id][PartPath] \in Files
          BY <4>1, PathsHere DEF TypeOK
        <5>. QED  BY <4>1, <5>1, FileKinds, StoreAssumption DEF Stored, Bytes
      <4>. QED  BY <1>1, <4>1, <4>2, StoredNat
    <3>. QED  BY <2>1, <3>1 DEF GivenBacked, Served
  <2>2. CASE a.error = "Success" /\ g = AckOf(req[w], a)
    BY <2>2 DEF AckOf
  <2>. QED  BY <1>3, <2>1, <2>2
<1>6. GivenNamed'
  <2>1. ASSUME NEW g \in Given'
        PROVE  /\ disk'[g.id][MetaPath] # NoFile
               /\ disk'[g.id][MetaPath].kind = "meta" => disk'[g.id][MetaPath].name = g.name
    BY <1>3, <1>4 DEF GivenNamed, AckOf, Served, Acks
  <2>2. ASSUME NEW g \in Given', NEW h \in Given', g.id = h.id
        PROVE  g.name = h.name
    BY <1>3, <2>2 DEF GivenNamed, AckOf
  <2>. QED  BY <2>1, <2>2 DEF GivenNamed
<1>. QED  BY <1>1, <1>2, <1>5, <1>6 DEF DiskParts

LEMMA WriteContinue ==
  ASSUME IInv, NEW w \in Workers, NEW l \in Critical, pc[w] \in Critical \cup {"lock"},
         owner \in {NoWorker, w}, Continue(w, l), UNCHANGED <<req, acks>>,
         faultsLeft' \in 0 .. MaxFaults, DiskParts', Served, RequestInv', LabelInv'
  PROVE  IInv'
<1>. USE DEF IInv
<1>1. TypeOK' /\ LockInv'
  BY ContinueAlone DEF TypeOK, Continue, Labels, DiskParts, Critical
<1>2. Given' = Given
  BY ContinueGiven DEF Critical
<1>3. Given \subseteq Acks
  BY GivenTypes
<1>4. GivenBacked'
  <2>. SUFFICES ASSUME NEW g \in Given
                PROVE  g.offset <= Stored(g.id)' /\ (g.completed => Published(g.id)')
    BY <1>2 DEF GivenBacked
  <2>1. g.id \in Uploads /\ g.offset \in Nat
    BY <1>3 DEF Acks
  <2>2. disk'[g.id][PartPath] \in Files
    BY <1>1, <2>1, PathsHere DEF TypeOK
  <2>3. Stored(g.id)' \in Nat
    BY <2>1, <2>2, FileKinds, StoreAssumption DEF Stored, Bytes
  <2>. QED  BY <2>1, <2>3, StoredNat DEF GivenBacked, Served
<1>5. GivenNamed'
  BY <1>2, <1>3 DEF GivenNamed, Served, Acks
<1>. QED  BY <1>1, <1>4, <1>5 DEF DiskParts

(* Rewriting meta.json touches no data. *)
LEMMA MetaPut ==
  ASSUME IInv, NEW u \in Uploads, NEW f \in Files, f.kind \in {"torn", "meta"},
         Put(u, MetaPath, f)
  PROVE  /\ disk' \in [Uploads -> [Paths -> Files]]
         /\ disk'[u][MetaPath] = f /\ f # NoFile
         /\ \A v \in Uploads, q \in Paths : v # u \/ q # MetaPath => disk'[v][q] = disk[v][q]
         /\ \A v \in Uploads : Stored(v)' = Stored(v) /\ Published(v)' = Published(v)
         /\ DiskInv' /\ PartIsPrefix' /\ FinalIsWhole'
<1>. disk \in [Uploads -> [Paths -> Files]] /\ MetaPath \in Paths
  BY PathsHere DEF IInv, TypeOK
<1>1. /\ disk' \in [Uploads -> [Paths -> Files]] /\ disk'[u][MetaPath] = f
      /\ \A v \in Uploads, q \in Paths : v # u \/ q # MetaPath => disk'[v][q] = disk[v][q]
  BY PutDisk
<1>2. \A v \in Uploads : /\ disk'[v][PartPath] = disk[v][PartPath]
                         /\ \A n \in Names : disk'[v][n] = disk[v][n]
  BY <1>1, PathsHere
<1>3. \A v \in Uploads : Stored(v)' = Stored(v) /\ Published(v)' = Published(v)
  BY <1>2 DEF Stored, Published
<1>4. DiskInv'
  <2>. SUFFICES ASSUME NEW v \in Uploads
                PROVE  /\ disk'[v][MetaPath].kind \in {"none", "torn", "meta"}
                       /\ \A p \in Paths \ {MetaPath} :
                            /\ disk'[v][p].kind \in {"none", "data"}
                            /\ disk'[v][MetaPath] = NoFile => disk'[v][p] = NoFile
    BY DEF DiskInv
  <2>1. CASE v = u
    BY <1>1, <2>1 DEF IInv, DiskInv, NoFile
  <2>2. CASE v # u
    BY <1>1, <2>2 DEF IInv, DiskInv
  <2>. QED  BY <2>1, <2>2
<1>5. PartIsPrefix' /\ FinalIsWhole'
  BY <1>2 DEF IInv, PartIsPrefix, FinalIsWhole
<1>. QED  BY <1>1, <1>3, <1>4, <1>5 DEF NoFile

LEMMA StoredLeq ==
  ASSUME TypeOK, \A v \in Uploads : Stored(v)' = Stored(v) /\ Published(v)' = Published(v)
  PROVE  \A v \in Uploads : Stored(v) <= Stored(v)' /\ (Published(v) => Published(v)')
BY StoredNat

LEMMA SyncCreateStep ==
  ASSUME IInv, NEW w \in Workers, SyncCreate(w)
  PROVE  IInv' /\ SameStore
<1>. DEFINE r == req[w]  u == r.id
<1>1. /\ pc[w] = "lock" /\ owner = NoWorker /\ Continue(w, "syncMeta") /\ UNCHANGED <<req, acks>>
      /\ faultsLeft' \in 0 .. MaxFaults /\ r.type = "sync" /\ "syncMeta" \in Critical
      /\ disk[u][MetaPath] = NoFile /\ Put(u, MetaPath, Torn)
  BY FaultType DEF SyncCreate, Locks, IInv, Critical
<1>2. u \in Uploads
  BY <1>1, RequestFields DEF IInv
<1>3. /\ disk' \in [Uploads -> [Paths -> Files]]
      /\ disk'[u][MetaPath] = Torn
      /\ \A v \in Uploads, q \in Paths : v # u \/ q # MetaPath => disk'[v][q] = disk[v][q]
      /\ \A v \in Uploads : Stored(v)' = Stored(v) /\ Published(v)' = Published(v)
      /\ DiskInv' /\ PartIsPrefix' /\ FinalIsWhole'
  BY <1>1, <1>2, MetaPut, WrittenFiles
<1>4. DiskParts'
  <2>1. Torn.kind # "meta"
    BY DEF Torn
  <2>2. \A v \in Uploads : disk'[v][MetaPath].kind = "meta" =>
           v # u /\ \A q \in Paths : disk'[v][q] = disk[v][q]
    BY <1>3, <2>1, PathsHere
  <2>3. NameInv'
    BY <2>2, PathsHere DEF IInv, NameInv
  <2>4. CompletedIsPublished'
    <3>. SUFFICES ASSUME NEW v \in Uploads, disk'[v][MetaPath].kind = "meta",
                         disk'[v][MetaPath].completed
                  PROVE  disk'[v][disk'[v][MetaPath].name].kind = "data"
      BY DEF CompletedIsPublished
    <3>1. v # u /\ disk'[v][MetaPath] = disk[v][MetaPath]
      BY <2>2, PathsHere
    <3>2. disk[v][MetaPath].name \in Paths
      BY <3>1, PathsHere, FileKinds DEF IInv, TypeOK
    <3>3. disk[v][disk[v][MetaPath].name].kind = "data"
      BY <3>1 DEF IInv, CompletedIsPublished
    <3>. QED  BY <2>2, <3>1, <3>2, <3>3
  <2>. QED  BY <1>3, <2>3, <2>4 DEF DiskParts
<1>5. Served
  <2>1. \A g \in Given : g.id # u /\ g.id \in Uploads
    BY <1>1, GivenTypes DEF IInv, GivenNamed, Acks
  <2>. QED  BY <1>1, <1>3, <2>1, StoredLeq, PathsHere DEF Served, IInv, GivenNamed
<1>6. RequestInv'
  BY <1>1 DEF IInv, RequestInv, Continue, TypeOK, Critical
<1>7. LabelInv'
  <2>1. \A v \in Workers : pc'[v] \in Critical => v = w /\ pc'[v] = "syncMeta"
    BY <1>1, ContinueAlone DEF IInv
  <2>2. \A g \in Given' : g.id # u
    BY <1>1, ContinueGiven DEF IInv, GivenNamed
  <2>3. \A p \in Paths \ {MetaPath} : disk'[u][p] = NoFile
    BY <1>1, <1>2, <1>3 DEF IInv, DiskInv
  <2>. QED  BY <1>1, <1>3, <2>1, <2>2, <2>3 DEF LabelInv, Critical
<1>. QED  BY <1>1, <1>3, <1>4, <1>5, <1>6, <1>7, WriteContinue DEF SameStore

LEMMA SyncMetaStep ==
  ASSUME IInv, NEW w \in Workers, SyncMeta(w)
  PROVE  IInv' /\ SameStore
<1>. DEFINE r == req[w]  u == r.id
            dir == [disk[u] EXCEPT ![MetaPath] = Meta(r.name, FALSE)]
<1>1. PICK f \in {Torn, Meta(r.name, FALSE)}, a \in {Progress(dir, r), FileError(0)} :
        /\ pc[w] = "syncMeta" /\ UNCHANGED <<req, acks>> /\ faultsLeft' \in 0 .. MaxFaults
        /\ Put(u, MetaPath, f) /\ Finish(w, a)
  BY FaultType DEF SyncMeta, WriteMeta, IInv
<1>2. /\ u \in Uploads /\ r.name \in Names /\ pc[w] \in Critical
      /\ \A p \in Paths \ {MetaPath} : disk[u][p] = NoFile
      /\ \A g \in Given : g.id # u
  BY <1>1, RequestFields DEF IInv, LabelInv, Critical
<1>3. /\ f \in Files /\ f.kind \in {"torn", "meta"}
      /\ f.kind = "meta" => f.name = r.name /\ f.completed = FALSE
  <2>1. CASE f = Torn
    BY <2>1, WrittenFiles
  <2>2. CASE f = Meta(r.name, FALSE)
    BY <1>2, <2>2 DEF Files, Meta
  <2>. QED  BY <1>1, <2>1, <2>2
<1>4. /\ disk' \in [Uploads -> [Paths -> Files]]
      /\ disk'[u][MetaPath] = f /\ f # NoFile
      /\ \A v \in Uploads, q \in Paths : v # u \/ q # MetaPath => disk'[v][q] = disk[v][q]
      /\ \A v \in Uploads : Stored(v)' = Stored(v) /\ Published(v)' = Published(v)
      /\ DiskInv' /\ PartIsPrefix' /\ FinalIsWhole'
  BY <1>1, <1>2, <1>3, MetaPut
<1>5. a \in Responses /\ (a.error = "Success" => a.offset = 0 /\ a.completed = FALSE)
  <2>1. dir[r.name] = NoFile /\ dir[PartPath] = NoFile
    BY <1>2, PathsHere DEF IInv, TypeOK
  <2>2. Bytes(NoFile) = <<>> /\ Len(<<>>) = 0
    BY DEF Bytes, NoFile
  <2>3. Progress(dir, r) = Success(0, FALSE)
    BY <2>1, <2>2, Zenon DEF Progress, Confirmed
  <2>4. CASE a = Success(0, FALSE)
    BY <2>4, AnswerTypes
  <2>5. CASE a = FileError(0)
    BY <2>5, AnswerTypes
  <2>. QED  BY <1>1, <2>3, <2>4, <2>5
<1>6. DiskParts'
  <2>1. NameInv'
    BY <1>2, <1>3, <1>4, PathsHere DEF IInv, NameInv
  <2>2. CompletedIsPublished'
    <3>1. ASSUME NEW v \in Uploads, v # u, disk[v][MetaPath].kind = "meta"
          PROVE  disk[v][MetaPath].name \in Names
      BY <3>1, PathsHere, FileKinds DEF IInv, TypeOK
    <3>. QED  BY <1>3, <1>4, <3>1, PathsHere DEF IInv, CompletedIsPublished
  <2>. QED  BY <1>4, <2>1, <2>2 DEF DiskParts
<1>7. Served
  BY <1>2, <1>4, StoredLeq, GivenTypes, PathsHere DEF Served, IInv, GivenNamed, Acks
<1>8. Stored(u)' \in Nat
  BY <1>1, <1>2, <1>4, StoredNat DEF IInv
<1>. QED  BY <1>1, <1>2, <1>3, <1>4, <1>5, <1>6, <1>7, <1>8, WriteFinish DEF SameStore

(* A chunk appended where the prefix ends makes a longer prefix.           *)
LEMMA ChunkAppended ==
  ASSUME NEW s \in Seq(Nat), \A i \in 1 .. Len(s) : s[i] = i, NEW k \in Nat
  PROVE  /\ s \o Slice(Len(s), k) \in Seq(Nat)
         /\ Len(s \o Slice(Len(s), k)) = Len(s) + k
         /\ \A i \in 1 .. Len(s) + k : (s \o Slice(Len(s), k))[i] = i
<1>. DEFINE t == Slice(Len(s), k)
<1>. Len(s) \in Nat
  OBVIOUS
<1>1. t \in Seq(Nat) /\ Len(t) = k /\ \A i \in 1 .. k : t[i] = Len(s) + i
  BY DEF Slice
<1>. HIDE DEF t
<1>2. /\ s \o t \in Seq(Nat) /\ Len(s \o t) = Len(s) + k
      /\ \A i \in 1 .. Len(s) + k : (s \o t)[i] = IF i <= Len(s) THEN s[i] ELSE t[i - Len(s)]
  BY <1>1, ConcatProperties, Zenon
<1>3. ASSUME NEW i \in 1 .. Len(s) + k PROVE (s \o t)[i] = i
  <2>1. CASE i <= Len(s)
    BY <1>2, <2>1
  <2>2. CASE i > Len(s)
    <3>1. i - Len(s) \in 1 .. k
      BY <2>2
    <3>. QED  BY <1>1, <1>2, <2>2, <3>1
  <2>3. i <= Len(s) \/ i > Len(s)
    OBVIOUS
  <2>. QED  BY <2>1, <2>2, <2>3, Zenon
<1>. QED  BY <1>2, <1>3 DEF t

(* Bytes that data.part of u, which is not finished, may go on to.         *)
PartFits(u, s) ==
  /\ Len(s) <= Size[u] /\ \A i \in 1 .. Len(s) : s[i] = i
  /\ Len(Bytes(disk[u][PartPath])) <= Len(s)
  /\ disk[u][MetaPath] # NoFile /\ \A n \in Names : disk[u][n] = NoFile

(* Writing to data.part, in a task that is not finished. *)
LEMMA PartPut ==
  ASSUME IInv, NEW u \in Uploads, NEW s \in Seq(Nat), Put(u, PartPath, Data(s)), PartFits(u, s)
  PROVE  /\ DiskParts' /\ Served
         /\ disk'[u][PartPath] = Data(s)
         /\ \A q \in Paths \ {PartPath} : disk'[u][q] = disk[u][q]
         /\ Stored(u)' = Len(s) /\ ~Published(u) /\ Stored(u) = Len(Bytes(disk[u][PartPath]))
         /\ \A v \in Uploads : /\ Published(v)' = Published(v)
                               /\ v # u => Stored(v)' = Stored(v)
<1>. USE DEF PartFits
<1>. disk \in [Uploads -> [Paths -> Files]] /\ PartPath \in Paths /\ Data(s) \in Files
  BY PathsHere, WrittenFiles DEF IInv, TypeOK
<1>1. /\ disk' \in [Uploads -> [Paths -> Files]] /\ disk'[u][PartPath] = Data(s)
      /\ \A v \in Uploads, q \in Paths : v # u \/ q # PartPath => disk'[v][q] = disk[v][q]
  BY PutDisk
<1>2. \A v \in Uploads : /\ disk'[v][MetaPath] = disk[v][MetaPath]
                         /\ \A n \in Names : disk'[v][n] = disk[v][n]
  BY <1>1, PathsHere
<1>3. /\ Data(s).kind = "data" /\ Bytes(Data(s)) = s
      /\ \A v \in Uploads : v # u => disk'[v][PartPath] = disk[v][PartPath]
  BY <1>1 DEF Bytes, Data
<1>4. DiskInv'
  <2>. SUFFICES ASSUME NEW v \in Uploads
                PROVE  /\ disk'[v][MetaPath].kind \in {"none", "torn", "meta"}
                       /\ \A p \in Paths \ {MetaPath} :
                            /\ disk'[v][p].kind \in {"none", "data"}
                            /\ disk'[v][MetaPath] = NoFile => disk'[v][p] = NoFile
    BY DEF DiskInv
  <2>1. disk'[v][MetaPath].kind \in {"none", "torn", "meta"}
    BY <1>2 DEF IInv, DiskInv
  <2>2. ASSUME NEW p \in Paths \ {MetaPath}
        PROVE  /\ disk'[v][p].kind \in {"none", "data"}
               /\ disk'[v][MetaPath] = NoFile => disk'[v][p] = NoFile
    <3>1. CASE v = u /\ p = PartPath
      BY <1>1, <1>2, <1>3, <3>1
    <3>2. CASE v # u \/ p # PartPath
      BY <1>1, <1>2, <2>2, <3>2 DEF IInv, DiskInv
    <3>. QED  BY <3>1, <3>2
  <2>. QED  BY <2>1, <2>2
<1>5. NameInv'
  BY <1>2 DEF IInv, NameInv
<1>6. PartIsPrefix'
  BY <1>1, <1>3 DEF IInv, PartIsPrefix, IsPrefixOfFile
<1>7. FinalIsWhole'
  <2>1. \A n \in Names : disk'[u][n] = NoFile
    BY <1>2
  <2>2. \A v \in Uploads : v # u => disk'[v] = disk[v]
    BY DEF Put
  <2>. QED  BY <2>1, <2>2 DEF IInv, FinalIsWhole
<1>8. CompletedIsPublished'
  <2>1. ASSUME NEW v \in Uploads, disk[v][MetaPath].kind = "meta"
        PROVE  disk[v][MetaPath].name \in Names
    BY <2>1, PathsHere, FileKinds DEF IInv, TypeOK
  <2>. QED  BY <1>2, <2>1 DEF IInv, CompletedIsPublished
<1>9. \A v \in Uploads : Published(v)' = Published(v)
  BY <1>2 DEF Published
<1>10. Stored(u)' = Len(s) /\ ~Published(u) /\ Stored(u) = Len(Bytes(disk[u][PartPath]))
  <2>1. ~Published(u)
    BY DEF Published, NoFile
  <2>. QED  BY <1>1, <1>3, <1>9, <2>1 DEF Stored
<1>11. \A v \in Uploads : v # u => Stored(v)' = Stored(v)
  BY <1>3, <1>9 DEF Stored
<1>12. Served
  BY <1>2, <1>9, <1>10, <1>11, StoredNat, GivenTypes DEF Served, IInv, GivenNamed, Acks
<1>. QED  BY <1>1, <1>4, <1>5, <1>6, <1>7, <1>8, <1>9, <1>10, <1>11, <1>12 DEF DiskParts

(* A task that answers to r and has no file r.name has no finished file.   *)
LEMMA NotFinished ==
  ASSUME IInv, NEW w \in Workers, pc[w] # "idle",
         SameTask(disk[req[w].id], req[w]), disk[req[w].id][req[w].name] = NoFile
  PROVE  /\ \A n \in Names : disk[req[w].id][n] = NoFile
         /\ disk[req[w].id][MetaPath] # NoFile
BY RequestFields DEF IInv, NameInv, SameTask, NoFile

LEMMA UploadOpenStep ==
  ASSUME IInv, NEW w \in Workers, UploadOpen(w)
  PROVE  IInv' /\ SameStore
<1>. DEFINE r == req[w]  u == r.id  s == Bytes(disk[u][PartPath])
<1>1. /\ pc[w] = "lock" /\ owner = NoWorker /\ UNCHANGED <<req, acks>> /\ r.type = "upload"
      /\ faultsLeft' \in 0 .. MaxFaults /\ "append" \in Critical
      /\ SameTask(disk[u], r) /\ Progress(disk[u], r) = Success(r.offset, FALSE)
      /\ \/ Put(u, PartPath, Data(s)) /\ Continue(w, "append")
         \/ UNCHANGED disk /\ Finish(w, FileError(r.offset))
  BY FaultType DEF UploadOpen, Opened, Locks, IInv, Critical
<1>2. /\ u \in Uploads /\ r.name \in Names /\ r.offset \in Nat
      /\ disk[u] \in [Paths -> Files] /\ disk[u][PartPath] \in Files
  BY <1>1, RequestFields, PathsHere DEF IInv, TypeOK
<1>3. CASE UNCHANGED disk /\ Finish(w, FileError(r.offset))
  BY <1>1, <1>2, <1>3, ReadOnlyFinish, AnswerTypes DEF SameStore, Stored, Published
<1>4. CASE Put(u, PartPath, Data(s)) /\ Continue(w, "append")
  <2>1. disk[u][r.name] = NoFile /\ r.offset = Len(s)
    <3>1. /\ Success(r.offset, FALSE).error = "Success"
          /\ Success(r.offset, FALSE).offset = r.offset
          /\ ~Success(r.offset, FALSE).completed
      BY DEF Success, Response
    <3>. DEFINE p == Progress(disk[u], r)
    <3>3. p.error = "Success" /\ p.offset = r.offset /\ ~p.completed
      BY <1>1, <3>1
    <3>4. p.error = "Success" /\ ~p.completed => disk[u][r.name] = NoFile /\ p.offset = Len(s)
      BY <1>2, ProgressAnswer
    <3>. QED  BY <3>3, <3>4
  <2>2. /\ s \in Seq(Nat) /\ Len(s) <= Size[u] /\ Len(s) \in Nat
        /\ \A i \in 1 .. Len(s) : s[i] = i
        /\ Len(Bytes(disk[u][PartPath])) <= Len(s)
    BY <1>2, FileKinds DEF IInv, PartIsPrefix, IsPrefixOfFile
  <2>3. disk[u][MetaPath] # NoFile /\ \A n \in Names : disk[u][n] = NoFile
    BY <1>1, <2>1, NotFinished
  <2>. HIDE DEF s
  <2>4. /\ DiskParts' /\ Served
        /\ disk'[u][PartPath] = Data(s)
        /\ \A q \in Paths \ {PartPath} : disk'[u][q] = disk[u][q]
        /\ SameStore
    <3>. u' = u
      BY <1>1
    <3>1. PartFits(u, s)
      BY <2>2, <2>3 DEF PartFits
    <3>2. Stored(u) = Len(s)
      BY <2>3 DEF Stored, Published, NoFile, s
    <3>3. /\ Stored(u)' = Len(s)
          /\ \A v \in Uploads : /\ Published(v)' = Published(v)
                                /\ v # u => Stored(v)' = Stored(v)
      BY <1>2, <1>4, <2>2, <3>1, PartPut
    <3>4. SameStore
      <4>. SUFFICES ASSUME NEW v \in Uploads
                    PROVE  Stored(v)' = Stored(v) /\ Published(v)' = Published(v)
        BY DEF SameStore
      <4>1. CASE v = u
        BY <3>2, <3>3, <4>1
      <4>2. CASE v # u
        BY <3>3, <4>2
      <4>. QED  BY <4>1, <4>2
    <3>. QED  BY <1>2, <1>4, <2>2, <3>1, <3>4, PartPut
  <2>5. RequestInv'
    BY <1>1, <1>4 DEF IInv, RequestInv, Continue, TypeOK, Critical
  <2>6. LabelInv'
    <3>1. \A v \in Workers : pc'[v] \in Critical => v = w /\ pc'[v] = "append"
      BY <1>1, <1>4, ContinueAlone DEF IInv
    <3>2. SameTask(disk'[u], r) /\ disk'[u][r.name] = NoFile
      BY <1>1, <1>2, <2>1, <2>4, PathsHere DEF SameTask
    <3>3. disk'[u][PartPath].kind = "data" /\ Len(Bytes(disk'[u][PartPath])) = r.offset
      BY <2>1, <2>4 DEF Data, Bytes
    <3>. QED  BY <1>1, <3>1, <3>2, <3>3 DEF LabelInv, Critical
  <2>. QED  BY <1>1, <1>4, <2>4, <2>5, <2>6, WriteContinue
<1>. QED  BY <1>1, <1>3, <1>4

LEMMA WriteChunkStep ==
  ASSUME IInv, NEW w \in Workers, WriteChunk(w)
  PROVE  IInv' /\ Grows(req[w].id)
<1>. DEFINE r == req[w]  u == r.id  s == disk[u][PartPath].bytes
<1>1. /\ pc[w] = "append" /\ UNCHANGED <<req, acks>> /\ faultsLeft' \in 0 .. MaxFaults
      /\ "rename" \in Critical /\ "append" \in Critical /\ owner = w
      /\ \E k \in 0 .. r.len :
           /\ Put(u, PartPath, Data(s \o Slice(r.offset, k)))
           /\ \/ r.last /\ k = r.len /\ Continue(w, "rename")
              \/ k = r.len /\ Finish(w, Success(r.offset + r.len, FALSE))
              \/ Finish(w, FileError(r.offset))
  <2>1. /\ pc[w] = "append" /\ UNCHANGED <<req, acks>> /\ "rename" \in Critical
        /\ "append" \in Critical /\ owner = w /\ faultsLeft' \in 0 .. MaxFaults
    BY FaultType DEF WriteChunk, IInv, LockInv, Critical
  <2>2. r.len \in Nat /\ r.len \in 0 .. r.len
    BY <2>1, RequestFields DEF IInv, RequestInv, Critical
  <2>3. CASE \E k \in 0 .. r.len : /\ Put(u, PartPath, Data(s \o Slice(r.offset, k)))
                                    /\ Finish(w, FileError(r.offset))
    BY <2>1, <2>3
  <2>4. CASE /\ Put(u, PartPath, Data(s \o Slice(r.offset, r.len)))
             /\ IF r.last THEN Continue(w, "rename")
                          ELSE Finish(w, Success(r.offset + r.len, FALSE))
    BY <2>1, <2>2, <2>4
  <2>. QED  BY <2>1, <2>3, <2>4 DEF WriteChunk
<1>2. /\ u \in Uploads /\ r.name \in Names /\ r.offset \in Nat /\ r.len \in Nat /\ r.type = "upload"
      /\ ValidUpload(r) /\ Size[u] \in Nat
  BY <1>1, RequestFields DEF IInv, RequestInv, Critical
<1>3. /\ SameTask(disk[u], r) /\ disk[u][r.name] = NoFile /\ s \in Seq(Nat)
      /\ Len(s) = r.offset /\ Bytes(disk[u][PartPath]) = s
      /\ \A i \in 1 .. Len(s) : s[i] = i
  <2>1. /\ SameTask(disk[u], r) /\ disk[u][r.name] = NoFile /\ disk[u][PartPath].kind = "data"
        /\ Len(Bytes(disk[u][PartPath])) = r.offset
    BY <1>1 DEF IInv, LabelInv
  <2>2. disk[u][PartPath] \in Files
    BY <1>2, PathsHere DEF IInv, TypeOK
  <2>3. s \in Seq(Nat) /\ Bytes(disk[u][PartPath]) = s
    BY <2>1, <2>2, FileKinds
  <2>. QED  BY <1>2, <2>1, <2>3 DEF IInv, PartIsPrefix, IsPrefixOfFile
<1>4. disk[u][MetaPath] # NoFile /\ \A n \in Names : disk[u][n] = NoFile
  BY <1>1, <1>3, NotFinished
<1>5. PICK k \in 0 .. r.len :
        /\ Put(u, PartPath, Data(s \o Slice(r.offset, k)))
        /\ \/ r.last /\ k = r.len /\ Continue(w, "rename")
           \/ k = r.len /\ Finish(w, Success(r.offset + r.len, FALSE))
           \/ Finish(w, FileError(r.offset))
  BY <1>1
<1>. DEFINE t == s \o Slice(r.offset, k)
<1>6. /\ t \in Seq(Nat) /\ Len(t) = r.offset + k /\ k \in Nat
      /\ \A i \in 1 .. Len(t) : t[i] = i
      /\ Len(t) <= Size[u] /\ Len(Bytes(disk[u][PartPath])) <= Len(t)
  <2>1. k \in Nat /\ k <= r.len
    BY <1>2
  <2>. HIDE DEF s
  <2>2. t \in Seq(Nat) /\ Len(t) = r.offset + k /\ \A i \in 1 .. Len(t) : t[i] = i
    BY <1>3, <2>1, ChunkAppended, Zenon
  <2>. HIDE DEF t
  <2>3. Len(t) <= Size[u]
    <3>1. r.offset + r.len <= Size[u]
      BY <1>2 DEF ValidUpload
    <3>. QED  BY <1>2, <2>1, <2>2, <3>1
  <2>4. Len(Bytes(disk[u][PartPath])) = r.offset
    BY <1>3
  <2>5. Len(Bytes(disk[u][PartPath])) <= Len(t)
    BY <1>2, <2>1, <2>2, <2>4
  <2>. QED  BY <2>1, <2>2, <2>3, <2>5
<1>7. Put(u, PartPath, Data(t))
  BY <1>5
<1>. HIDE DEF t, s
<1>8. /\ DiskParts' /\ Served
      /\ disk'[u][PartPath] = Data(t)
      /\ \A q \in Paths \ {PartPath} : disk'[u][q] = disk[u][q]
      /\ Stored(u)' = Len(t)
      /\ Grows(u)
  <2>. u' = u
    BY <1>1
  <2>. PartFits(u, t)
    BY <1>4, <1>6 DEF PartFits
  <2>1. Stored(u) = Len(Bytes(disk[u][PartPath]))
    BY <1>4 DEF Stored, Published, NoFile
  <2>2. Len(t) \in Stored(u) .. Size[u]
    BY <1>2, <1>3, <1>6, <2>1
  <2>. QED  BY <1>2, <1>6, <1>7, <2>2, PartPut DEF Grows
<1>9. SameTask(disk'[u], r) /\ disk'[u][r.name] = NoFile
  BY <1>2, <1>3, <1>8, PathsHere DEF SameTask
<1>10. CASE Finish(w, FileError(r.offset))
  BY <1>1, <1>2, <1>8, <1>10, WriteFinish, AnswerTypes
<1>11. CASE k = r.len /\ Finish(w, Success(r.offset + r.len, FALSE))
  <2>. DEFINE a == Success(r.offset + r.len, FALSE)
  <2>1. a \in Responses /\ a.offset = r.offset + r.len /\ ~a.completed
    BY <1>2 DEF Success, Response, Responses
  <2>. HIDE DEF a
  <2>2. a.offset <= Stored(u)'
    <3>1. Stored(u)' = r.offset + r.len
      BY <1>6, <1>8, <1>11
    <3>. QED  BY <1>2, <2>1, <3>1
  <2>3. \A g \in Given : g.id = u => g.name = r.name
    BY <1>3 DEF IInv, GivenNamed, SameTask
  <2>4. disk'[u][MetaPath] # NoFile /\ disk'[u][MetaPath].name = r.name
    BY <1>9 DEF SameTask, NoFile
  <2>. QED  BY <1>1, <1>8, <1>11, <2>1, <2>2, <2>3, <2>4, WriteFinish DEF a
<1>12. CASE r.last /\ k = r.len /\ Continue(w, "rename")
  <2>1. RequestInv'
    BY <1>1, <1>2, <1>12 DEF IInv, RequestInv, Continue, TypeOK, Critical
  <2>2. LabelInv'
    <3>1. \A v \in Workers : pc'[v] \in Critical => v = w /\ pc'[v] = "rename"
      BY <1>1, <1>12, ContinueAlone DEF IInv
    <3>2. disk'[u][PartPath].kind = "data" /\ Len(Bytes(disk'[u][PartPath])) = Size[u]
      BY <1>2, <1>6, <1>8, <1>12 DEF Data, Bytes, ValidUpload
    <3>. QED  BY <1>1, <1>9, <3>1, <3>2 DEF LabelInv, Critical
  <2>. QED  BY <1>1, <1>8, <1>12, <2>1, <2>2, WriteContinue
<1>. QED  BY <1>5, <1>10, <1>11, <1>12

LEMMA RenameStep ==
  ASSUME IInv, NEW w \in Workers, Rename(w)
  PROVE  IInv' /\ (SameStore \/ Publishes(req[w].id))
<1>. DEFINE r == req[w]  u == r.id  f == disk[u][PartPath]
<1>1. /\ pc[w] = "rename" /\ UNCHANGED <<req, acks>> /\ faultsLeft' \in 0 .. MaxFaults
      /\ "rename" \in Critical /\ "metaOpen" \in Critical /\ owner = w
      /\ \/ /\ disk' = [disk EXCEPT ![u] = [@ EXCEPT ![PartPath] = NoFile, ![r.name] = f]]
            /\ Continue(w, "metaOpen")
         \/ UNCHANGED disk /\ Finish(w, FileError(r.offset + r.len))
  BY FaultType DEF Rename, IInv, LockInv, Critical
<1>2. /\ u \in Uploads /\ r.name \in Names /\ r.offset \in Nat /\ r.len \in Nat /\ r.type = "upload"
      /\ ValidUpload(r) /\ r.last /\ Size[u] \in Nat
      /\ disk \in [Uploads -> [Paths -> Files]] /\ f \in Files
  BY <1>1, RequestFields, PathsHere DEF IInv, RequestInv, Critical, TypeOK
<1>3. /\ SameTask(disk[u], r) /\ disk[u][r.name] = NoFile
      /\ f.kind = "data" /\ Len(Bytes(f)) = Size[u] /\ FileSize(f) = Size[u]
  <2>1. SameTask(disk[u], r) /\ disk[u][r.name] = NoFile /\ f.kind = "data" /\ Len(Bytes(f)) = Size[u]
    BY <1>1 DEF IInv, LabelInv
  <2>. QED  BY <1>2, <2>1, FileKinds
<1>4. disk[u][MetaPath] # NoFile /\ \A n \in Names : disk[u][n] = NoFile
  BY <1>1, <1>3, NotFinished
<1>5. CASE UNCHANGED disk /\ Finish(w, FileError(r.offset + r.len))
  BY <1>1, <1>2, <1>5, ReadOnlyFinish, AnswerTypes DEF SameStore, Stored, Published
<1>6. CASE /\ disk' = [disk EXCEPT ![u] = [@ EXCEPT ![PartPath] = NoFile, ![r.name] = f]]
           /\ Continue(w, "metaOpen")
  <2>1. /\ disk' \in [Uploads -> [Paths -> Files]]
        /\ disk'[u][PartPath] = NoFile /\ disk'[u][r.name] = f
        /\ \A q \in Paths : q # PartPath /\ q # r.name => disk'[u][q] = disk[u][q]
        /\ \A v \in Uploads : v # u => disk'[v] = disk[v]
    BY <1>2, <1>6, WrittenFiles, PathsHere
  <2>2. \A v \in Uploads : disk'[v][MetaPath] = disk[v][MetaPath]
    BY <1>2, <2>1, PathsHere
  <2>3. /\ disk'[u][r.name].kind = "data" /\ f # NoFile
        /\ \A n \in Names : n # r.name => disk'[u][n] = NoFile
    <3>1. disk'[u][r.name].kind = "data" /\ f # NoFile
      BY <1>3, <2>1 DEF NoFile
    <3>2. \A n \in Names : n # r.name => disk'[u][n] = NoFile
      BY <1>4, <2>1, PathsHere
    <3>. QED  BY <3>1, <3>2
  <2>. HIDE DEF f
  <2>4. DiskInv'
    <3>. SUFFICES ASSUME NEW v \in Uploads, NEW p \in Paths \ {MetaPath}
                  PROVE  /\ disk'[v][MetaPath].kind \in {"none", "torn", "meta"}
                         /\ disk'[v][p].kind \in {"none", "data"}
                         /\ disk'[v][MetaPath] = NoFile => disk'[v][p] = NoFile
      BY PathsHere DEF DiskInv
    <3>1. CASE v # u
      BY <2>1, <3>1 DEF IInv, DiskInv
    <3>2. CASE v = u
      <4>1. disk'[u][MetaPath] = disk[u][MetaPath] /\ disk[u][MetaPath] # NoFile
        BY <1>2, <1>4, <2>2
      <4>2. disk[u][MetaPath].kind \in {"none", "torn", "meta"}
        BY <1>2 DEF IInv, DiskInv
      <4>3. disk'[u][p].kind \in {"none", "data"}
        <5>1. p \notin {PartPath, r.name} => disk[u][p].kind \in {"none", "data"}
          BY <1>2 DEF IInv, DiskInv
        <5>. QED  BY <2>1, <2>3, <5>1 DEF NoFile
      <4>. QED  BY <3>2, <4>1, <4>2, <4>3
    <3>. QED  BY <3>1, <3>2
  <2>5. NameInv'
    BY <1>3, <2>2, <2>1, <2>3 DEF IInv, NameInv, SameTask
  <2>6. PartIsPrefix'
    <3>1. IsPrefixOfFile(NoFile, u)
      BY <1>2 DEF IsPrefixOfFile, Bytes, NoFile
    <3>. QED  BY <2>1, <3>1 DEF IInv, PartIsPrefix, IsPrefixOfFile
  <2>7. FinalIsWhole'
    <3>1. IsPrefixOfFile(f, u)
      BY <1>2 DEF IInv, PartIsPrefix, f
    <3>2. /\ disk'[u][r.name] = f /\ IsPrefixOfFile(f, u) /\ FileSize(f) = Size[u]
          /\ disk'[u][PartPath] = NoFile
      BY <1>3, <2>1, <3>1
    <3>. QED  BY <2>1, <2>3, <3>2 DEF IInv, FinalIsWhole, IsPrefixOfFile
  <2>8. CompletedIsPublished'
    BY <1>3, <2>1, <2>2, <2>3 DEF IInv, CompletedIsPublished, SameTask
  <2>9. DiskParts'
    BY <2>1, <2>4, <2>5, <2>6, <2>7, <2>8 DEF DiskParts
  <2>10. Served /\ Publishes(u)
    <3>1. Published(u)' /\ Stored(u)' = Size[u] /\ ~Published(u) /\ Stored(u) = Size[u]
      <4>1. ~Published(u)
        BY <1>4 DEF Published, NoFile
      <4>2. Published(u)'
        BY <1>1, <1>2, <2>3 DEF Published
      <4>. QED  BY <1>1, <1>3, <4>1, <4>2 DEF Stored, f
    <3>2. \A v \in Uploads : v # u => Published(v)' = Published(v) /\ Stored(v)' = Stored(v)
      BY <2>1 DEF Published, Stored
    <3>3. \A v \in Uploads : Stored(v) \in Nat
      BY StoredNat DEF IInv
    <3>. QED  BY <1>1, <1>2, <2>2, <3>1, <3>2, <3>3, GivenTypes
              DEF Served, Publishes, IInv, GivenNamed, Acks
  <2>11. RequestInv'
    BY <1>1, <1>2, <1>6 DEF IInv, RequestInv, Continue, TypeOK, Critical
  <2>12. LabelInv'
    <3>1. \A v \in Workers : pc'[v] \in Critical => v = w /\ pc'[v] = "metaOpen"
      BY <1>1, <1>6, ContinueAlone DEF IInv
    <3>2. Given' = Given
      BY <1>1, <1>6, ContinueGiven DEF IInv
    <3>3. \A g \in Given : g.id = u => g.name = r.name
      BY <1>3 DEF IInv, GivenNamed, SameTask
    <3>4. SameTask(disk'[u], r)
      BY <1>2, <1>3, <2>2 DEF SameTask
    <3>. QED  BY <1>1, <2>3, <3>1, <3>2, <3>3, <3>4 DEF LabelInv, Critical
  <2>. QED  BY <1>1, <1>6, <2>9, <2>10, <2>11, <2>12, WriteContinue
<1>. QED  BY <1>1, <1>5, <1>6

LEMMA MetaOpenStep ==
  ASSUME IInv, NEW w \in Workers, MetaOpen(w)
  PROVE  IInv' /\ SameStore
<1>. DEFINE r == req[w]  u == r.id
<1>1. /\ pc[w] = "metaOpen" /\ UNCHANGED <<req, acks>> /\ faultsLeft' \in 0 .. MaxFaults
      /\ "metaOpen" \in Critical /\ "metaWrite" \in Critical /\ owner = w
      /\ \/ Put(u, MetaPath, Torn) /\ Continue(w, "metaWrite")
         \/ UNCHANGED disk /\ Finish(w, FileError(r.offset + r.len))
  BY FaultType DEF MetaOpen, IInv, LockInv, Critical
<1>2. u \in Uploads /\ r.name \in Names /\ r.offset \in Nat /\ r.len \in Nat
  BY <1>1, RequestFields DEF IInv, RequestInv, Critical
<1>3. CASE UNCHANGED disk /\ Finish(w, FileError(r.offset + r.len))
  BY <1>1, <1>2, <1>3, ReadOnlyFinish, AnswerTypes DEF SameStore, Stored, Published
<1>4. CASE Put(u, MetaPath, Torn) /\ Continue(w, "metaWrite")
  <2>1. /\ disk' \in [Uploads -> [Paths -> Files]]
        /\ disk'[u][MetaPath] = Torn
        /\ \A v \in Uploads, q \in Paths : v # u \/ q # MetaPath => disk'[v][q] = disk[v][q]
        /\ \A v \in Uploads : Stored(v)' = Stored(v) /\ Published(v)' = Published(v)
        /\ DiskInv' /\ PartIsPrefix' /\ FinalIsWhole'
    BY <1>2, <1>4, MetaPut, WrittenFiles
  <2>2. DiskParts'
    <3>1. NameInv'
      BY <1>2, <2>1, PathsHere, WrittenFiles DEF IInv, NameInv
    <3>2. CompletedIsPublished'
      <4>1. ASSUME NEW v \in Uploads, disk[v][MetaPath].kind = "meta"
            PROVE  disk[v][MetaPath].name \in Names
        BY <4>1, PathsHere, FileKinds DEF IInv, TypeOK
      <4>. QED  BY <2>1, <4>1, PathsHere, WrittenFiles DEF IInv, CompletedIsPublished
    <3>. QED  BY <2>1, <3>1, <3>2 DEF DiskParts
  <2>3. Served
    BY <1>2, <2>1, StoredLeq, GivenTypes, PathsHere, WrittenFiles
    DEF Served, IInv, GivenNamed, Acks, Torn, NoFile
  <2>4. RequestInv'
    BY <1>1, <1>4 DEF IInv, RequestInv, Continue, TypeOK, Critical
  <2>5. LabelInv'
    <3>1. \A v \in Workers : pc'[v] \in Critical => v = w /\ pc'[v] = "metaWrite"
      BY <1>1, <1>4, ContinueAlone DEF IInv
    <3>2. Given' = Given
      BY <1>1, <1>4, ContinueGiven DEF IInv
    <3>3. disk[u][r.name].kind = "data" /\ \A g \in Given : g.id = u => g.name = r.name
      BY <1>1 DEF IInv, LabelInv
    <3>4. disk'[u][r.name].kind = "data"
      BY <1>2, <2>1, <3>3, PathsHere
    <3>. QED  BY <1>1, <2>1, <3>1, <3>2, <3>3, <3>4 DEF LabelInv, Critical
  <2>. QED  BY <1>1, <1>4, <2>1, <2>2, <2>3, <2>4, <2>5, WriteContinue DEF SameStore
<1>. QED  BY <1>1, <1>3, <1>4

LEMMA MetaWriteStep ==
  ASSUME IInv, NEW w \in Workers, MetaWrite(w)
  PROVE  IInv' /\ SameStore
<1>. DEFINE r == req[w]  u == r.id  o == r.offset + r.len
<1>1. PICK f \in {Torn, Meta(r.name, TRUE)}, a \in {Success(o, TRUE), FileError(o)} :
        /\ pc[w] = "metaWrite" /\ UNCHANGED <<req, acks>> /\ faultsLeft' \in 0 .. MaxFaults
        /\ Put(u, MetaPath, f) /\ Finish(w, a)
  BY FaultType DEF MetaWrite, WriteMeta, IInv
<1>2. /\ u \in Uploads /\ r.name \in Names /\ r.offset \in Nat /\ r.len \in Nat /\ Size[u] \in Nat
      /\ pc[w] \in Critical /\ o = Size[u]
  BY <1>1, RequestFields DEF IInv, RequestInv, Critical, ValidUpload
<1>3. disk[u][r.name].kind = "data" /\ \A g \in Given : g.id = u => g.name = r.name
  BY <1>1 DEF IInv, LabelInv
<1>4. f \in Files /\ f.kind \in {"torn", "meta"} /\ (f.kind = "meta" => f.name = r.name)
  <2>1. CASE f = Torn
    BY <2>1, WrittenFiles
  <2>2. CASE f = Meta(r.name, TRUE)
    BY <1>2, <2>2 DEF Files, Meta
  <2>. QED  BY <1>1, <2>1, <2>2
<1>5. /\ disk' \in [Uploads -> [Paths -> Files]]
      /\ disk'[u][MetaPath] = f /\ f # NoFile
      /\ \A v \in Uploads, q \in Paths : v # u \/ q # MetaPath => disk'[v][q] = disk[v][q]
      /\ \A v \in Uploads : Stored(v)' = Stored(v) /\ Published(v)' = Published(v)
      /\ DiskInv' /\ PartIsPrefix' /\ FinalIsWhole'
  BY <1>1, <1>2, <1>4, MetaPut
<1>6. disk'[u][r.name].kind = "data"
  BY <1>2, <1>3, <1>5, PathsHere
<1>7. a \in Responses /\ (a.error = "Success" => a.offset = Size[u])
  <2>. o \in Nat
    BY <1>2
  <2>. HIDE DEF o
  <2>1. CASE a = Success(o, TRUE)
    BY <1>2, <2>1 DEF Success, Response, Responses
  <2>2. CASE a = FileError(o)
    BY <2>2, AnswerTypes
  <2>. QED  BY <1>1, <2>1, <2>2
<1>8. DiskParts'
  <2>1. NameInv'
    <3>1. \A n \in Names : disk'[u][n] # NoFile => n = r.name
      BY <1>2, <1>6, <1>5 DEF FinalIsWhole, NoFile
    <3>. QED  BY <1>2, <1>4, <1>5, <3>1, PathsHere DEF IInv, NameInv
  <2>2. CompletedIsPublished'
    <3>1. ASSUME NEW v \in Uploads, disk[v][MetaPath].kind = "meta"
          PROVE  disk[v][MetaPath].name \in Names
      BY <3>1, PathsHere, FileKinds DEF IInv, TypeOK
    <3>. QED  BY <1>4, <1>5, <1>6, <3>1, PathsHere DEF IInv, CompletedIsPublished
  <2>. QED  BY <1>5, <2>1, <2>2 DEF DiskParts
<1>9. Served
  <2>1. \A g \in Given : g.id = u /\ f.kind = "meta" => f.name = g.name
    BY <1>3, <1>4
  <2>. QED  BY <1>2, <1>5, <2>1, StoredLeq, GivenTypes, PathsHere DEF Served, IInv, GivenNamed, Acks
<1>10. Stored(u)' = Size[u] /\ Published(u)'
  BY <1>1, <1>2, <1>6 DEF Stored, Published
<1>11. Size[u] <= Size[u]
  BY <1>2
<1>. HIDE DEF o
<1>. QED  BY <1>1, <1>2, <1>3, <1>4, <1>5, <1>7, <1>8, <1>9, <1>10, <1>11, WriteFinish
          DEF SameStore

----------------------------------------------------------------------------
(* Steps outside the mutex. *)

(* Fewer answers under way, and no thread further inside a handler.        *)
LEMMA OutsideStep ==
  ASSUME IInv, TypeOK', UNCHANGED disk, Given' \subseteq Given, RequestInv', LockInv',
         \A v \in Workers : pc'[v] \in Critical => pc'[v] = pc[v] /\ req'[v] = req[v]
  PROVE  IInv'
<1>. USE DEF IInv
<1>1. DiskInv' /\ NameInv' /\ PartIsPrefix' /\ FinalIsWhole' /\ CompletedIsPublished'
  BY DEF DiskInv, NameInv, PartIsPrefix, FinalIsWhole, CompletedIsPublished
<1>2. LabelInv'
  BY DEF LabelInv, Critical
<1>3. GivenBacked'
  <2>1. \A u : Stored(u)' = Stored(u) /\ Published(u)' = Published(u)
    BY DEF Stored, Published
  <2>. QED  BY <2>1 DEF GivenBacked
<1>4. GivenNamed'
  BY DEF GivenNamed
<1>. QED  BY <1>1, <1>2, <1>3, <1>4

LEMMA ReceiveStep ==
  ASSUME IInv, NEW w \in Workers, NEW r \in SyncReq \cup UploadReq, Receive(w, r)
  PROVE  IInv'
<1>. USE DEF Receive
<1>1. TypeOK'
  BY AnswerTypes DEF IInv, TypeOK, Labels
<1>2. Given' \subseteq Given
  <2>1. \A v \in Decided' : v \in Decided /\ AckOf(req'[v], reply'[v]) = AckOf(req[v], reply[v])
    BY AnswerTypes DEF IInv, TypeOK, Decided
  <2>. QED  BY <2>1 DEF Given
<1>3. RequestInv' /\ LockInv' /\ \A v \in Workers : pc'[v] \in Critical => pc'[v] = pc[v] /\ req'[v] = req[v]
  <2>1. pc'[w] \in {"answer", "lock"} /\ req'[w] = r /\ (pc'[w] = "lock" /\ r.type = "upload" => ValidUpload(r))
    BY DEF IInv, TypeOK
  <2>2. r # NoReq
    BY DEF SyncReq, UploadReq, NoReq
  <2>3. \A v \in Workers : v # w => pc'[v] = pc[v] /\ req'[v] = req[v]
    BY DEF IInv, TypeOK
  <2>4. LockInv' /\ \A v \in Workers : pc'[v] \in Critical => pc'[v] = pc[v] /\ req'[v] = req[v]
    BY <2>1, <2>3 DEF IInv, LockInv, Critical
  <2>5. RequestInv'
    BY <2>1, <2>2, <2>3 DEF IInv, RequestInv, Critical
  <2>. QED  BY <2>4, <2>5
<1>. QED  BY <1>1, <1>2, <1>3, OutsideStep

LEMMA AnswerStep ==
  ASSUME IInv, NEW w \in Workers, Answer(w)
  PROVE  IInv'
<1>. USE DEF Answer
<1>1. TypeOK'
  <2>1. pc[w] = "answer" => AckOf(req[w], reply[w]) \in Acks
    BY RequestFields DEF IInv, TypeOK, AckOf, Acks, Responses
  <2>. QED  BY <2>1, AnswerTypes DEF IInv, TypeOK, Labels
<1>2. Given' \subseteq Given
  <2>1. \A v \in Decided' : v \in Decided /\ AckOf(req'[v], reply'[v]) = AckOf(req[v], reply[v])
    BY DEF IInv, TypeOK, Decided
  <2>2. acks' \subseteq Given
    BY DEF Given, Decided
  <2>. QED  BY <2>1, <2>2 DEF Given
<1>3. \A v \in Workers : pc'[v] \in Critical => pc'[v] = pc[v] /\ req'[v] = req[v]
  BY DEF IInv, TypeOK, Critical
<1>4. RequestInv' /\ LockInv'
  BY DEF IInv, TypeOK, RequestInv, LockInv, Critical
<1>. QED  BY <1>1, <1>2, <1>3, <1>4, OutsideStep

LEMMA CrashStep ==
  ASSUME IInv, Crash
  PROVE  IInv'
<1>. USE DEF Crash
<1>1. TypeOK'
  BY FaultType, AnswerTypes DEF IInv, TypeOK, Labels
<1>2. Given' \subseteq Given
  BY DEF Given, Decided
<1>3. RequestInv' /\ LockInv' /\ \A v \in Workers : pc'[v] \in Critical => pc'[v] = pc[v] /\ req'[v] = req[v]
  BY StoreAssumption DEF RequestInv, LockInv, Critical
<1>. QED  BY <1>1, <1>2, <1>3, OutsideStep

----------------------------------------------------------------------------
(* The theorems. *)

LEMMA InitInv == Init => IInv
<1>. SUFFICES ASSUME Init PROVE IInv
  OBVIOUS
<1>. USE DEF Init
<1>1. TypeOK
  BY StoreAssumption, WrittenFiles, AnswerTypes DEF TypeOK, Labels
<1>2. Given = {}
  BY DEF Given, Decided
<1>3. \A u \in Uploads, p \in Paths : disk[u][p] = NoFile
  OBVIOUS
<1>4. LockInv /\ RequestInv
  BY StoreAssumption DEF LockInv, RequestInv, Critical
<1>5. DiskInv /\ NameInv /\ FinalIsWhole /\ CompletedIsPublished
  BY <1>3, PathsHere, WrittenFiles DEF DiskInv, NameInv, FinalIsWhole, CompletedIsPublished
<1>6. PartIsPrefix
  BY <1>3, PathsHere, WrittenFiles, StoreAssumption DEF PartIsPrefix, IsPrefixOfFile, Bytes
<1>7. LabelInv
  BY DEF LabelInv
<1>8. GivenBacked /\ GivenNamed
  BY <1>2 DEF GivenBacked, GivenNamed
<1>. QED  BY <1>1, <1>4, <1>5, <1>6, <1>7, <1>8 DEF IInv

LEMMA NextInv == IInv /\ [Next]_vars => IInv'
<1>. SUFFICES ASSUME IInv, [Next]_vars PROVE IInv'
  OBVIOUS
<1>1. ASSUME NEW w \in Workers, Sync(w) PROVE IInv'
  BY <1>1, SyncFoundStep, SyncCreateStep, SyncFailsStep, SyncMetaStep DEF Sync
<1>2. ASSUME NEW w \in Workers, Upload(w) PROVE IInv'
  BY <1>2, UploadRefuseStep, UploadOpenStep, WriteChunkStep, RenameStep, MetaOpenStep, MetaWriteStep
  DEF Upload
<1>3. CASE UNCHANGED vars
  <2>1. TypeOK' /\ LockInv' /\ RequestInv' /\ UNCHANGED disk /\ Given' = Given
    BY <1>3 DEF vars, IInv, TypeOK, LockInv, RequestInv, Given, Decided
  <2>. QED  BY <1>3, <2>1, OutsideStep DEF vars
<1>. QED  BY <1>1, <1>2, <1>3, ReceiveStep, AnswerStep, CrashStep DEF Next

(* The inductive invariant holds in every reachable state of the handlers. *)
THEOREM StoreInvariant == Spec => []IInv
BY InitInv, NextInv, PTL DEF Spec

(* Every variable keeps its type. *)
THEOREM StoreTypeOK == Spec => []TypeOK
<1>1. IInv => TypeOK
  BY DEF IInv
<1>. QED  BY <1>1, StoreInvariant, PTL

(* data.part is a prefix of the file, byte for byte, whatever fails.       *)
THEOREM StorePartIsPrefix == Spec => []PartIsPrefix
<1>1. IInv => PartIsPrefix
  BY DEF IInv
<1>. QED  BY <1>1, StoreInvariant, PTL

(* Nobody can see an unfinished file under its own name (line 353).        *)
THEOREM StoreFinalIsWhole == Spec => []FinalIsWhole
<1>1. IInv => FinalIsWhole
  BY DEF IInv
<1>. QED  BY <1>1, StoreInvariant, PTL

(* What an uploader was told is stored, and stays stored.                  *)
THEOREM StoreAckBacked == Spec => []AckBacked
<1>1. IInv => AckBacked
  BY DEF IInv, GivenBacked, Given, AckBacked
<1>. QED  BY <1>1, StoreInvariant, PTL

(* One upload_id never serves the uploaders of two file names.             *)
THEOREM StoreOneOwner == Spec => []OneOwner
<1>1. IInv => OneOwner
  BY DEF IInv, GivenNamed, Given, OneOwner
<1>. QED  BY <1>1, StoreInvariant, PTL

(* Metadata marked completed belongs to a published file (line 359).       *)
THEOREM StoreCompletedIsPublished == Spec => []CompletedIsPublished
<1>1. IInv => CompletedIsPublished
  BY DEF IInv
<1>. QED  BY <1>1, StoreInvariant, PTL

----------------------------------------------------------------------------
(* Refinement. *)

LEMMA TaskInit == Init => Task!Init
<1>. SUFFICES ASSUME Init PROVE Task!Init
  OBVIOUS
<1>1. \A u \in Uploads : ~Published(u) /\ Stored(u) = 0
  <2>1. \A u \in Uploads, p \in Paths : disk[u][p] = NoFile
    BY DEF Init
  <2>. QED  BY <2>1, PathsHere DEF Published, Stored, Bytes, NoFile
<1>2. [u \in Uploads |-> Stored(u)] = [u \in Uploads |-> 0]
  BY <1>1
<1>3. [u \in Uploads |-> Published(u)] = [u \in Uploads |-> FALSE]
  <2>1. \A u \in Uploads : Published(u) = FALSE
    BY <1>1 DEF Published
  <2>. QED  BY <2>1, Zenon
<1>. QED  BY <1>2, <1>3 DEF Init, Task!Init

LEMMA TaskNext == IInv /\ [Next]_vars => [Task!Next]_(Task!vars)
<1>. SUFFICES ASSUME IInv, [Next]_vars PROVE [Task!Next]_(Task!vars)
  OBVIOUS
<1>1. ASSUME SameStore, UNCHANGED acks PROVE UNCHANGED Task!vars
  BY <1>1 DEF Task!vars, SameStore
<1>2. ASSUME UNCHANGED disk PROVE SameStore
  BY <1>2 DEF SameStore, Stored, Published
<1>3. ASSUME NEW w \in Workers, Sync(w) PROVE UNCHANGED Task!vars
  <2>1. UNCHANGED acks
    BY <1>3 DEF Sync, SyncFound, SyncCreate, SyncFails, SyncMeta
  <2>2. SameStore
    BY <1>2, <1>3, SyncCreateStep, SyncMetaStep DEF Sync, SyncFound, SyncFails
  <2>. QED  BY <1>1, <2>1, <2>2
<1>4. ASSUME NEW w \in Workers, UploadRefuse(w) \/ UploadOpen(w) \/ MetaOpen(w) \/ MetaWrite(w)
      PROVE  UNCHANGED Task!vars
  <2>1. UNCHANGED acks
    BY <1>4 DEF UploadRefuse, UploadOpen, MetaOpen, MetaWrite
  <2>2. SameStore
    BY <1>2, <1>4, UploadOpenStep, MetaOpenStep, MetaWriteStep DEF UploadRefuse
  <2>. QED  BY <1>1, <2>1, <2>2
<1>5. ASSUME NEW w \in Workers, WriteChunk(w) PROVE [Task!Next]_(Task!vars)
  <2>. DEFINE u == req[w].id
  <2>1. UNCHANGED acks /\ u \in Uploads /\ Grows(u) /\ Stored(u) \in Nat /\ UNCHANGED req
    BY <1>5, WriteChunkStep, RequestFields, StoredNat DEF WriteChunk, IInv
  <2>2. CASE Stored(u)' = Stored(u)
    BY <1>1, <2>1, <2>2 DEF Grows, SameStore
  <2>3. CASE Stored(u)' # Stored(u)
    <3>. DEFINE n == Stored(u)'
    <3>1. n \in 0 .. Size[u] /\ n > Stored(u)
      BY <2>1, <2>3, StoreAssumption DEF Grows
    <3>2. /\ [v \in Uploads |-> Stored(v)'] = [[v \in Uploads |-> Stored(v)] EXCEPT ![u] = n]
          /\ [v \in Uploads |-> Published(v)'] = [v \in Uploads |-> Published(v)]
      BY <2>1 DEF Grows
    <3>. HIDE DEF n
    <3>3. Task!Extend(u)
      BY <2>1, <3>1, <3>2 DEF Task!Extend, Grows
    <3>. QED  BY <2>1, <3>3 DEF Task!Next
  <2>. QED  BY <2>2, <2>3
<1>6. ASSUME NEW w \in Workers, Rename(w) PROVE [Task!Next]_(Task!vars)
  <2>. DEFINE u == req[w].id
  <2>1. UNCHANGED acks /\ u \in Uploads /\ (SameStore \/ Publishes(u))
    BY <1>6, RenameStep, RequestFields DEF Rename, IInv
  <2>2. CASE Publishes(u)
    <3>1. /\ [v \in Uploads |-> Stored(v)'] = [v \in Uploads |-> Stored(v)]
          /\ [v \in Uploads |-> Published(v)'] = [[v \in Uploads |-> Published(v)] EXCEPT ![u] = TRUE]
      BY <1>6, <2>1, <2>2 DEF Publishes, Rename
    <3>2. Task!Publish(u)
      BY <2>1, <2>2, <3>1 DEF Task!Publish, Publishes
    <3>. QED  BY <2>1, <3>2 DEF Task!Next
  <2>. QED  BY <1>1, <2>1, <2>2
<1>7. ASSUME NEW w \in Workers, Answer(w) PROVE [Task!Next]_(Task!vars)
  <2>. DEFINE g == AckOf(req[w], reply[w])
  <2>1. SameStore
    BY <1>2, <1>7 DEF Answer
  <2>2. CASE reply[w].error # "Success"
    BY <1>1, <1>7, <2>1, <2>2 DEF Answer
  <2>3. CASE reply[w].error = "Success"
    <3>1. g \in Given /\ acks' = acks \cup {g} /\ acks \subseteq Given
      BY <1>7, <2>3 DEF Answer, Given, Decided
    <3>2. /\ g.id \in Uploads /\ g.name \in Names /\ g.offset \in Nat /\ g.completed \in BOOLEAN
          /\ g = [id |-> g.id, name |-> g.name, offset |-> g.offset, completed |-> g.completed]
      BY <3>1, GivenTypes DEF IInv, Acks, AckOf
    <3>3. g.offset <= Stored(g.id) /\ (g.completed => Published(g.id))
      BY <3>1 DEF IInv, GivenBacked
    <3>4. g.offset \in 0 .. Size[g.id]
      <4>1. disk[g.id][PartPath] \in Files
        BY <3>2, PathsHere DEF IInv, TypeOK
      <4>2. Stored(g.id) <= Size[g.id]
        BY <3>2, <4>1, FileKinds, StoreAssumption DEF IInv, PartIsPrefix, IsPrefixOfFile, Stored
      <4>. QED  BY <3>2, <3>3, <4>2, StoreAssumption, StoredNat DEF IInv
    <3>5. \A h \in acks : h.id = g.id => h.name = g.name
      BY <3>1 DEF IInv, GivenNamed
    <3>6. /\ [v \in Uploads |-> Stored(v)'] = [v \in Uploads |-> Stored(v)]
          /\ [v \in Uploads |-> Published(v)'] = [v \in Uploads |-> Published(v)]
      BY <2>1 DEF SameStore
    <3>. HIDE DEF g
    <3>7. Task!Acknowledge(g)
      BY <3>1, <3>2, <3>3, <3>5, <3>6 DEF Task!Acknowledge
    <3>. QED  BY <3>2, <3>4, <3>7 DEF Task!Next
  <2>. QED  BY <2>2, <2>3
<1>8. ASSUME NEW w \in Workers, NEW r \in SyncReq \cup UploadReq, Receive(w, r)
      PROVE  UNCHANGED Task!vars
  BY <1>1, <1>2, <1>8 DEF Receive
<1>9. CASE Crash
  BY <1>1, <1>2, <1>9 DEF Crash
<1>10. CASE UNCHANGED vars
  BY <1>1, <1>2, <1>10 DEF vars
<1>. QED  BY <1>3, <1>4, <1>5, <1>6, <1>7, <1>8, <1>9, <1>10 DEF Next, Upload

(* The handlers implement the abstract task: bytes only grow, the file is  *)
(* published when whole, and answers never claim more than is stored.      *)
THEOREM StoreImplementsTask == Spec => TaskSpec
<1>1. Init => Task!Init
  BY TaskInit
<1>2. IInv /\ [Next]_vars => [Task!Next]_(Task!vars)
  BY TaskNext
<1>. QED  BY <1>1, <1>2, StoreInvariant, PTL DEF Spec, TaskSpec, Task!Spec

----------------------------------------------------------------------------
(* Conflicts. *)

(* With whole files and prefixes on the disk progress is no conflict. *)
LEMMA NoConflict ==
  ASSUME IInv, NEW w \in Workers, pc[w] # "idle"
  PROVE  Progress(disk[req[w].id], req[w]).error = "Success"
<1>. DEFINE u == req[w].id  n == req[w].name
<1>1. u \in Uploads /\ n \in Names /\ disk[u] \in [Paths -> Files] /\ Size[u] \in Nat
  BY RequestFields, StoreAssumption DEF IInv, TypeOK
<1>2. disk[u][PartPath] \in Files /\ Len(Bytes(disk[u][PartPath])) <= Size[u]
  BY <1>1, PathsHere DEF IInv, PartIsPrefix, IsPrefixOfFile
<1>3. FileSize(disk[u][PartPath]) <= Size[u]
  BY <1>1, <1>2, FileKinds DEF FileSize
<1>4. disk[u][n] # NoFile => FileSize(disk[u][n]) = Size[u]
  BY <1>1 DEF IInv, FinalIsWhole
<1>5. FileSize(disk[u][PartPath]) \in Int
  BY <1>2, FileKinds DEF FileSize
<1>. HIDE DEF u, n
<1>. QED  BY <1>1, <1>3, <1>4, <1>5 DEF Progress, Finished, Confirmed, Success, Response, u, n

LEMMA SyncFoundConflict ==
  ASSUME IInv, NEW w \in Workers, SyncFound(w), reply'[w].error = "UploadTaskConflict"
  PROVE  \/ disk[req[w].id][MetaPath] = Torn
         \/ disk[req[w].id][MetaPath].kind = "meta" /\ disk[req[w].id][MetaPath].name # req[w].name
         \/ faultsLeft' < faultsLeft
<1>. DEFINE r == req[w]  dir == disk[r.id]
<1>1. pc[w] = "lock" /\ dir[MetaPath] # NoFile /\ faultsLeft \in 0 .. MaxFaults
  BY DEF SyncFound, Locks, IInv, TypeOK
<1>2. r.id \in Uploads /\ dir \in [Paths -> Files] /\ dir[MetaPath] \in Files
  BY <1>1, RequestFields, PathsHere DEF IInv, TypeOK
<1>3. CASE Unreadable(dir, r)
  BY <1>1, <1>3, StoreAssumption DEF Unreadable, Fault
<1>4. CASE SameTask(dir, r) /\ Finish(w, Progress(dir, r))
  <2>1. reply'[w] = Progress(dir, r)
    BY <1>4 DEF Finish, IInv, TypeOK
  <2>. QED  BY <1>1, <2>1, NoConflict
<1>5. CASE ~SameTask(dir, r)
  <2>1. dir[MetaPath].kind \in {"torn", "meta"}
    BY <1>1, <1>2, FileKinds DEF IInv, DiskInv
  <2>. QED  BY <1>2, <1>5, <2>1, FileKinds DEF SameTask
<1>. QED  BY <1>3, <1>4, <1>5 DEF SyncFound

LEMMA SyncMetaConflict ==
  ASSUME IInv, NEW w \in Workers, SyncMeta(w)
  PROVE  reply'[w].error # "UploadTaskConflict"
<1>. DEFINE r == req[w]  dir == disk[r.id]  new == [dir EXCEPT ![MetaPath] = Meta(r.name, FALSE)]
<1>1. /\ pc[w] = "syncMeta" /\ r.id \in Uploads /\ r.name \in Names
      /\ dir \in [Paths -> Files]
      /\ \A p \in Paths \ {MetaPath} : dir[p] = NoFile
  BY RequestFields DEF SyncMeta, IInv, TypeOK, LabelInv
<1>2. new[PartPath] = NoFile /\ new[r.name] = NoFile
  BY <1>1, PathsHere
<1>3. Progress(new, r).error = "Success"
  <2>. HIDE DEF new, r
  <2>. QED  BY <1>2 DEF Progress, Confirmed, Success, Response
<1>4. Finish(w, Progress(new, r)) \/ Finish(w, FileError(0))
  BY DEF SyncMeta, WriteMeta
<1>5. reply'[w] = Progress(new, r) \/ reply'[w] = FileError(0)
  <2>. HIDE DEF new, r
  <2>. QED  BY <1>4 DEF Finish, IInv, TypeOK
<1>. HIDE DEF new, r
<1>. QED  BY <1>3, <1>5 DEF FileError, Response

LEMMA ConflictStep == IInv /\ [Next]_vars => [ConflictExplainedStep]_vars
<1>. SUFFICES ASSUME IInv, Next, NEW w \in Workers, req[w].type = "sync",
                     reply[w].error = "none", reply'[w].error = "UploadTaskConflict"
              PROVE  \/ disk[req[w].id][MetaPath] = Torn
                     \/ /\ disk[req[w].id][MetaPath].kind = "meta"
                        /\ disk[req[w].id][MetaPath].name # req[w].name
                     \/ faultsLeft' < faultsLeft
  BY DEF ConflictExplainedStep
<1>. USE DEF Finish, Continue
<1>1. reply'[w] # reply[w] /\ reply \in [Workers -> Responses]
  BY DEF IInv, TypeOK
<1>2. ASSUME NEW v \in Workers, NEW r \in SyncReq \cup UploadReq, Receive(v, r) PROVE FALSE
  BY <1>1, <1>2 DEF Receive, ErrorJson, Response
<1>3. ASSUME NEW v \in Workers, Answer(v) PROVE FALSE
  BY <1>1, <1>3 DEF Answer, NoReply, Response
<1>4. CASE Crash
  BY <1>1, <1>4 DEF Crash, NoReply, Response
<1>5. ASSUME NEW v \in Workers, Upload(v) PROVE FALSE
  <2>1. req[v].type = "upload"
    BY <1>5 DEF Upload, UploadRefuse, UploadOpen, Locks, WriteChunk, Rename, MetaOpen, MetaWrite,
                IInv, RequestInv, Critical
  <2>2. v # w
    BY <2>1
  <2>3. reply'[w] = reply[w]
    BY <1>1, <1>5, <2>2 DEF Upload, UploadRefuse, UploadOpen, WriteChunk, Rename, MetaOpen,
                            MetaWrite, WriteMeta
  <2>. QED  BY <1>1, <2>3
<1>6. ASSUME NEW v \in Workers, v # w, Sync(v) PROVE FALSE
  <2>1. reply'[w] = reply[w]
    BY <1>1, <1>6 DEF Sync, SyncFound, SyncCreate, SyncFails, SyncMeta, WriteMeta
  <2>. QED  BY <1>1, <2>1
<1>7. ~SyncCreate(w)
  BY <1>1 DEF SyncCreate
<1>8. ~SyncFails(w)
  BY <1>1 DEF SyncFails, FileError, Response
<1>. QED  BY <1>2, <1>3, <1>4, <1>5, <1>6, <1>7, <1>8, SyncFoundConflict, SyncMetaConflict
          DEF Next, Sync

(* A conflict is answered for another file, for torn metadata or for a     *)
(* failed read, never for how far the upload has come.                     *)
THEOREM StoreConflictExplained == Spec => ConflictExplained
BY ConflictStep, StoreInvariant, PTL DEF Spec, ConflictExplained
=============================================================================
