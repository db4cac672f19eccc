-------------------------- MODULE MCLogicDispatch --------------------------
(* LogicDispatch on small instances. *)
EXTENDS LogicDispatch

CONSTANTS s1, s2, s3

=============================================================================
