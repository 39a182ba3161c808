----------------------------- MODULE MCInjection -----------------------------
(***************************************************************************)
(* A bounded instance of Injection: Command, F20 (the largest code of the  *)
(* table) and Fn (no code), the left button and two that are mapped to the *)
(* middle one.                                                             *)
(***************************************************************************)
EXTENDS Injection

SomeKeys == {55, 90, 63}
SomeButtons == {0, 2, 3}
SomeDeltas == {-2, 1, 3}
=============================================================================
