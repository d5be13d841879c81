------------------------------ MODULE MCShell ------------------------------
(***************************************************************************)
(* The shell on a machine with three PCBs besides idle and init, and a     *)
(* table of two jobs.                                                      *)
(***************************************************************************)
EXTENDS Shell
=============================================================================
