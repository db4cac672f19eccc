----------------------------- MODULE MCLifecycle -----------------------------
(* Lifecycle with two IO threads and so many sessions that the first thread *)
(* gets its turn again.                                                     *)
EXTENDS Lifecycle
==============================================================================
