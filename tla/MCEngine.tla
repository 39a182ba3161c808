------------------------------ MODULE MCEngine ------------------------------
(***************************************************************************)
(* Bounded instances of Engine.  The constants' values are model values    *)
(* (the .cfg files) or the sets below.                                     *)
(***************************************************************************)
EXTENDS Engine

CONSTANTS cmd, fn, space, left, macLocked

=============================================================================
