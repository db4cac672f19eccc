--------------------------- MODULE MCUploadClient ---------------------------
(* UploadClient on small instances. *)
EXTENDS UploadClient, TLC

CONSTANTS f, g, h

\* a last chunk of another length; a file of one chunk; an empty file
SizeMixed == f :> 3 @@ g :> 1 @@ h :> 0
SizeTwo   == f :> 2 @@ g :> 1
=============================================================================
