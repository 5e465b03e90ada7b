--------------------------- MODULE MCQuicListener ---------------------------
(* QuicListener and its mutants on a small instance. *)
EXTENDS QuicListener, TLC

CONSTANTS c1, c2, a1, a2

Streams == (c1 :> 2) @@ (c2 :> 1)
=============================================================================
