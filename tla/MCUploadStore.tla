--------------------------- MODULE MCUploadStore ---------------------------
(* UploadStore on small instances. *)
EXTENDS UploadStoreInv, TLC

CONSTANTS w1, w2, u1, a, b

SizeThree == u1 :> 3

Symmetric == Permutations({w1, w2}) \cup Permutations({a, b})
=============================================================================
