----------------------------- MODULE UploadTask -----------------------------
(***************************************************************************)
(* What the upload store promises about each task (one upload_id), with    *)
(* the disk, the handlers and the threads left out: a number of bytes that *)
(* only grows, a file that is published once and only when it is whole,    *)
(* and success answers that never claim more than is stored.               *)
(***************************************************************************)
EXTENDS Integers

CONSTANTS Uploads,  \* the tasks, one per upload_id
          Names,    \* file names a request may carry
          Size      \* Size[u]: total_size of the file of task u, a natural number

VARIABLES stored,     \* stored[u]: contiguous bytes of task u held by the server
          published,  \* published[u]: the finished file is visible
          acks        \* every success answer ever sent: the offset confirmed to `name'

vars == <<stored, published, acks>>

Init == /\ stored    = [u \in Uploads |-> 0]
        /\ published = [u \in Uploads |-> FALSE]
        /\ acks = {}

(* More bytes reach the disk, as many as one append got through. *)
Extend(u) == /\ ~published[u]
             /\ \E n \in 0 .. Size[u] : /\ n > stored[u]
                                        /\ stored' = [stored EXCEPT ![u] = n]
             /\ UNCHANGED <<published, acks>>

(* The whole file becomes visible under its own name. *)
Publish(u) == /\ stored[u] = Size[u]
              /\ published' = [published EXCEPT ![u] = TRUE]
              /\ UNCHANGED <<stored, acks>>

(* A success answer is given: it is backed by the store, and a task answers *)
(* to the uploader of one file name only.                                   *)
Acknowledge(a) == /\ a.offset <= stored[a.id]
                  /\ a.completed => published[a.id]
                  /\ \A b \in acks : b.id = a.id => b.name = a.name
                  /\ acks' = acks \cup {a}
                  /\ UNCHANGED <<stored, published>>

Next == \E u \in Uploads :
          \/ Extend(u)
          \/ Publish(u)
          \/ \E n \in Names, o \in 0 .. Size[u], c \in BOOLEAN :
                Acknowledge([id |-> u, name |-> n, offset |-> o, completed |-> c])

Spec == Init /\ [][Next]_vars
=============================================================================
