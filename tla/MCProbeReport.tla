--------------------------- MODULE MCProbeReport ----------------------------
(* ProbeReport and its mutants on small instances. *)
EXTENDS ProbeReport
=============================================================================
