------------------------------ MODULE MCSoaSig ------------------------------
(* SoaSig and its mutants on a small instance. *)
EXTENDS SoaSig

CONSTANT v1
=============================================================================
