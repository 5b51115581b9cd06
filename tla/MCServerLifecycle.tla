------------------------- MODULE MCServerLifecycle -------------------------
(***************************************************************************)
(* ServerLifecycle with one or two controller threads.                     *)
(***************************************************************************)
EXTENDS ServerLifecycle

CONSTANTS c1, c2

MCOne == {c1}
MCTwo == {c1, c2}
=============================================================================
