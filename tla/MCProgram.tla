----------------------------- MODULE MCProgram -----------------------------
(***************************************************************************)
(* Program on four PCB slots: the idle thread, init and two processes that *)
(* fork, exit, wait and yield at will.  Slots are numbered and taken in    *)
(* order, so there is no symmetry to use.                                  *)
(***************************************************************************)
EXTENDS Program
=============================================================================
