-------------------------- MODULE UploadStoreInv --------------------------
(***************************************************************************)
(* The inductive invariant of UploadStore.  It needs file names that do    *)
(* not clash with the two files a task directory keeps for itself.         *)
(***************************************************************************)
EXTENDS UploadStore

ASSUME PlainNames == MetaPath \notin Names /\ PartPath \notin Names

(* Answers given: sent, or decided and about to be sent by a Defer object. *)
Decided == {w \in Workers : pc[w] = "answer" /\ reply[w].error = "Success"}
Given   == acks \cup {AckOf(req[w], reply[w]) : w \in Decided}

Critical == {"syncMeta", "append", "rename", "metaOpen", "metaWrite"}

(* A thread that is inside a handler past its checks is alone there. *)
LockInv == \A w \in Workers : owner = w <=> pc[w] \in Critical

(* The label says which request a thread handles, and that it is valid. *)
RequestInv ==
  \A w \in Workers :
    /\ pc[w] # "idle" => req[w] # NoReq
    /\ pc[w] = "syncMeta" => req[w].type = "sync"
    /\ pc[w] \in Critical \ {"syncMeta"} => req[w].type = "upload"
    /\ pc[w] \in Critical \cup {"lock"} /\ req[w].type = "upload" => ValidUpload(req[w])
    /\ pc[w] \in {"rename", "metaOpen", "metaWrite"} => req[w].last

(* Which kind of file is where; nothing exists before meta.json does. *)
DiskInv ==
  \A u \in Uploads :
    /\ disk[u][MetaPath].kind \in {"none", "torn", "meta"}
    /\ \A p \in Paths \ {MetaPath} :
         /\ disk[u][p].kind \in {"none", "data"}
         /\ disk[u][MetaPath] = NoFile => disk[u][p] = NoFile

(* meta.json, while it parses, names the finished file. *)
NameInv == \A u \in Uploads, n \in Names :
             disk[u][n] # NoFile /\ disk[u][MetaPath].kind = "meta" => disk[u][MetaPath].name = n

(* The task directory as the thread inside a handler relies on it. *)
LabelInv ==
  \A w \in Workers :
    LET r == req[w]  dir == disk[r.id]
    IN  /\ pc[w] = "syncMeta" =>
             /\ dir[MetaPath] = Torn
             /\ \A p \in Paths \ {MetaPath} : dir[p] = NoFile
             /\ \A g \in Given : g.id # r.id
        /\ pc[w] \in {"append", "rename"} =>
             /\ SameTask(dir, r)
             /\ dir[r.name] = NoFile /\ dir[PartPath].kind = "data"
             /\ Len(Bytes(dir[PartPath])) = IF pc[w] = "append" THEN r.offset ELSE Size[r.id]
        /\ pc[w] \in {"metaOpen", "metaWrite"} =>
             /\ dir[r.name].kind = "data"
             /\ \A g \in Given : g.id = r.id => g.name = r.name
        /\ pc[w] = "metaOpen" => SameTask(dir, r)
        /\ pc[w] = "metaWrite" => dir[MetaPath] = Torn

(* Answers given are backed by the disk and agree on the file name. *)
GivenBacked == \A g \in Given : /\ g.offset <= Stored(g.id)
                                /\ g.completed => Published(g.id)
GivenNamed ==
  \A g \in Given :
    /\ disk[g.id][MetaPath] # NoFile
    /\ disk[g.id][MetaPath].kind = "meta" => disk[g.id][MetaPath].name = g.name
    /\ \A h \in Given : g.id = h.id => g.name = h.name

(* UploadStore keeps all of this; it implies the properties it states.     *)
IInv == /\ TypeOK /\ LockInv /\ RequestInv /\ DiskInv /\ NameInv /\ LabelInv
        /\ PartIsPrefix /\ FinalIsWhole /\ CompletedIsPublished
        /\ GivenBacked /\ GivenNamed
=============================================================================
