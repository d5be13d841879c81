----------------------------- MODULE MCMalloc ------------------------------
(***************************************************************************)
(* Malloc on a heap of a few blocks.                                       *)
(***************************************************************************)
EXTENDS Malloc
=============================================================================
