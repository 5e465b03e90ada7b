------------------------------ MODULE MCMyaddr ------------------------------
(* Myaddr and its mutants on small instances. *)
EXTENDS Myaddr, TLC

CONSTANTS n1, n2, h1, h2, h3, r1, r2

Symmetric == Permutations(Name) \cup Permutations(Key) \cup Permutations(Req)
=============================================================================
