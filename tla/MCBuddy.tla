------------------------------ MODULE MCBuddy ------------------------------
(***************************************************************************)
(* Buddy on pools of a few pages.                                          *)
(***************************************************************************)
EXTENDS Buddy
=============================================================================
