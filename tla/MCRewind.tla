----------------------------- MODULE MCRewind -----------------------------
(***************************************************************************)
(* Instances of Rewind for TLC.                                            *)
(***************************************************************************)
EXTENDS Rewind

Symmetry == Permutations(Session) \union Permutations(File)

=============================================================================
