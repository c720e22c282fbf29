--------------------------- MODULE MCFermobEntry ---------------------------
(* Instances of FermobEntry: two keys, as for the connection alone.         *)
EXTENDS FermobEntry

CONSTANTS k1, k2

MCKeys == {k1, k2}
=============================================================================
