------------------------------ MODULE MCLayout ------------------------------
(***************************************************************************)
(* Layout has two edges and a channel of one, as the code has: nothing of  *)
(* it needs a bound.                                                       *)
(***************************************************************************)
EXTENDS Layout
=============================================================================
