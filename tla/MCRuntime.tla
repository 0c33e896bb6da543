----------------------------- MODULE MCRuntime -----------------------------
(***************************************************************************)
(* Instances of Runtime for TLC.                                           *)
(***************************************************************************)
EXTENDS Runtime

CONSTANTS p1, p2   \* paths

Text == [text |-> TRUE, calls |-> <<>>]
Empty == [text |-> FALSE, calls |-> <<>>]
Calls(cs) == [text |-> FALSE, calls |-> cs]
Create(p) == [tool |-> "create_file", path |-> p]
Complete == [tool |-> "task_complete", path |-> NoPath]
Other == [tool |-> "other", path |-> NoPath]

\* A direct answer, one tool call, or nothing.
OneCall == {Text, Calls(<<Complete>>)}
OneCallOrNothing == OneCall \union {Empty}

\* Replies with several calls, an empty reply, and a file.
ManyCalls == {Text, Empty, Calls(<<Create(p1), Complete>>), Calls(<<Create(p1), Create(p2)>>)}

=============================================================================
