---------------------------- MODULE MCWriteBack ----------------------------
(***************************************************************************)
(* WriteBack on a volume of a few clusters.  File names are                *)
(* interchangeable.                                                        *)
(***************************************************************************)
EXTENDS WriteBack

Symmetry == Permutations(Names)
=============================================================================
