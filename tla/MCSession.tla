----------------------------- MODULE MCSession -----------------------------
(***************************************************************************)
(* Bounded instances of Session; connections and session tokens are model  *)
(* values of the .cfg files.                                               *)
(***************************************************************************)
EXTENDS Session

CONSTANTS c1, c2, t1, t2

\* One connection is as good as another, and so is one session token.
Symmetry == Permutations(Conns) \cup Permutations(Tokens)
=============================================================================
