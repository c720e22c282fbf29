--------------------------- MODULE Ownership_proofs ---------------------------
(***************************************************************************)
(* What the rules of Ownership are for. The connection and the handshake    *)
(* are shown to follow them, each in its own module.                        *)
(***************************************************************************)
EXTENDS Ownership, TLAPS

\* Whoever follows the rules never loses a lamp: one registered to Home Assistant is
\* registered under the key on disk (_save_keys, REGISTER_END, UNREGISTER, discard_keys).
THEOREM NeverLost ==
  ASSUME NoKey \notin Keys, AppKey \notin Keys
  PROVE  Spec => []Reachable
<1>1. Init => Reachable
  BY DEF Init, Reachable, Ours
<1>2. Reachable /\ [Next]_vars => Reachable'
  <2> SUFFICES ASSUME Reachable, [Next]_vars PROVE Reachable'
    OBVIOUS
  <2> USE DEF Reachable, Ours
  <2>1. CASE Write \/ Register
    BY <2>1 DEF Write, Register
  <2>2. CASE LetGo \/ AppTakes
    BY <2>2 DEF LetGo, AppTakes
  <2>3. CASE Miss \/ Forget \/ Abandon
    BY <2>3 DEF Miss, Forget, Abandon
  <2>4. CASE UNCHANGED vars
    BY <2>4 DEF vars
  <2> QED
    BY <2>1, <2>2, <2>3, <2>4 DEF Next
<1> QED
  BY <1>1, <1>2, PTL DEF Spec
=============================================================================
