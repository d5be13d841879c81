----------------------------- MODULE MCKeyboard -----------------------------
(***************************************************************************)
(* The instance of Keyboard that TLC checks.  The two readers run the same *)
(* code; no symmetry is declared, since a liveness property is checked.    *)
(***************************************************************************)
EXTENDS Keyboard
=============================================================================
