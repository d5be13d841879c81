---------------------------- MODULE MCUserMemory ----------------------------
(***************************************************************************)
(* The instances of UserMemory that TLC checks: three processes, one page  *)
(* of each segment.  Frames are interchangeable, and so are the processes  *)
(* other than the first.                                                   *)
(***************************************************************************)
EXTENDS UserMemory, TLC

Symmetry == Permutations(Frames) \cup Permutations(Procs \ {InitProc})
=============================================================================
