---------------------------- MODULE MCOpenFiles ----------------------------
(***************************************************************************)
(* OpenFiles on a small volume: /a, a file or a directory, and two files   *)
(* in that directory.  The processes are interchangeable.                  *)
(***************************************************************************)
EXTENDS OpenFiles, TLC

MCNames == {"a", "b"}
MCDirPaths == {<<"a">>, <<"a", "a">>}
MCPaths == {<<"a">>, <<"a", "a">>, <<"a", "b">>}
Symmetry == Permutations(Procs)
=============================================================================
