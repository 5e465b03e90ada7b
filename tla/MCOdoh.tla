------------------------------- MODULE MCOdoh -------------------------------
(* Odoh and its mutants on a small instance. *)
EXTENDS Odoh, TLC

CONSTANTS c1, c2

(* A config of another version, and one of another suite.                  *)
Later == U16(ConfigVersion + 1) \o Field(<<1, 0, 5>>)
OtherSuite == MarshalConfig([Contents(0) EXCEPT !.aead = Aead + 1])
Before == {<<>>, Later, OtherSuite, Later \o Later}
=============================================================================
