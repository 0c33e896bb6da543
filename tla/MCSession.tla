----------------------------- MODULE MCSession -----------------------------
(***************************************************************************)
(* Instances of Session for TLC.                                           *)
(***************************************************************************)
EXTENDS Session

Text == [text |-> TRUE, calls |-> <<>>]
OneTool == [text |-> FALSE, calls |-> <<[tool |-> "task_complete", path |-> NoPath]>>]

\* Sessions that answer, or call a tool first.
OneCall == {Text, OneTool}

=============================================================================
