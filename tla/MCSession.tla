----------------------------- MODULE MCSession -----------------------------
(* Session on small instances. *)
EXTENDS Session

CONSTANTS s1, s2

=============================================================================
