----------------------------- MODULE MCWatchHub -----------------------------
(* WatchHub and its mutants on small instances. *)
EXTENDS WatchHub

CONSTANTS c1, c2, i1, i2
=============================================================================
