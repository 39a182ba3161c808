---------------------------- MODULE MCPairingKey ----------------------------
(***************************************************************************)
(* Bounded instances of PairingKey; starters and keys are model values.    *)
(***************************************************************************)
EXTENDS PairingKey, TLC

CONSTANTS p1, p2, p3, k1, k2, k3, k4

\* One key is as good as another.
Symmetry == Permutations(Keys)
=============================================================================
