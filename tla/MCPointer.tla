------------------------------ MODULE MCPointer ------------------------------
(***************************************************************************)
(* A small instance of Pointer: two heights of the Mac and two screens of  *)
(* the client that scale up, down and not to whole numbers, and crossings  *)
(* above the display and on it, at its last point or not.                  *)
(***************************************************************************)
EXTENDS Pointer

SomeHeights == {2, 5}
SomeScreens == {[w |-> 4, h |-> 2], [w |-> 5, h |-> 3]}
SomeYs == {-1, 1}
=============================================================================
