------------------------ MODULE MCFermobConnection ------------------------
(* Instances of FermobConnection: two keys are enough to tell the old one   *)
(* from the new one, and nothing treats two keys differently.               *)
EXTENDS FermobConnection, TLC

CONSTANTS k1, k2

MCKeys == {k1, k2}
KeySymmetry == Permutations(MCKeys)
=============================================================================
