----------------------------- MODULE MCPipeline -----------------------------
(***************************************************************************)
(* Instances of Pipeline for TLC.                                          *)
(***************************************************************************)
EXTENDS Pipeline

\* The events of others are of one kind.
Kinds == {Token, Response, "other"}

=============================================================================
