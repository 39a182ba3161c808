-------------------------- MODULE MCClipboardSync --------------------------
(***************************************************************************)
(* Bounded instances of ClipboardSync; sides and texts are model values.   *)
(***************************************************************************)
EXTENDS ClipboardSync

CONSTANTS a, b, c
=============================================================================
