----------------------------- MODULE MCPairing -----------------------------
(* Two parts of each kind: the one on record and the one to be generated.   *)
EXTENDS Pairing

CONSTANTS p1, p2, p3

MCParts == {p1, p2, p3}
=============================================================================
