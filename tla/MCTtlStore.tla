----------------------------- MODULE MCTtlStore -----------------------------
(* TtlStore and its mutants on small instances. *)
EXTENDS TtlStore, TLC

CONSTANTS k1, k2, v1, v2

Keys == {k1, k2}
Values == {v1, v2}
Symmetric == Permutations(Keys) \cup Permutations(Values)
=============================================================================
