---------------------------- MODULE MCPermission ----------------------------
(***************************************************************************)
(* Instances of Permission for TLC.                                        *)
(***************************************************************************)
EXTENDS Permission

CONSTANTS c1, c2

NoRules == <<>>

\* A call that the user has forbidden in permissions.json.
DenyRule == <<[call |-> c2, action |-> "deny"]>>

=============================================================================
