------------------------------- MODULE MCRepl -------------------------------
(***************************************************************************)
(* Instances of Repl for TLC.                                              *)
(***************************************************************************)
EXTENDS Repl

OneTool == {"run_shell"}

=============================================================================
