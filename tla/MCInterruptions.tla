-------------------------- MODULE MCInterruptions --------------------------
(* Instances of Interruptions: two keys, as for the connection alone.       *)
EXTENDS Interruptions, TLC

CONSTANTS k1, k2

MCKeys == {k1, k2}
=============================================================================
