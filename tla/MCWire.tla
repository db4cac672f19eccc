-------------------------------- MODULE MCWire --------------------------------
(* Wire with a header of three bytes and bodies of up to three bytes. *)
EXTENDS Wire

\* An empty text, one that looks like a header, one of the largest size and
\* one that is too long; and a short text of a sync request.
SmallBodies == [id \in {1, 3, 5} |->
    CASE id = 1 -> {<<>>, <<1, 0, 1>>, <<1, 1, 1, 1>>}
      [] id = 3 -> {<<3>>}
      [] OTHER  -> {}]
===============================================================================
