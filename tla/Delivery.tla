------------------------------ MODULE Delivery ------------------------------
(***************************************************************************)
(* What a client of a session's event stream is promised: it gets the      *)
(* events in the order they were written, each one once and none left out, *)
(* for as long as it listens.  How far it gets is not promised here.       *)
(***************************************************************************)
EXTENDS Naturals, Sequences

VARIABLES
    written, \* number of events in the session's log
    got,     \* the events the client got, by their place in the log
    left     \* the client listens no more

Init ==
    /\ written = 0
    /\ got = <<>>
    /\ left = FALSE

Write ==
    /\ written' = written + 1
    /\ UNCHANGED <<got, left>>

Get ==
    /\ ~left
    /\ Len(got) < written
    /\ got' = Append(got, Len(got) + 1)
    /\ UNCHANGED <<written, left>>

Leave ==
    /\ left' = TRUE
    /\ UNCHANGED <<written, got>>

Next == Write \/ Get \/ Leave

Spec == Init /\ [][Next]_<<written, got, left>>

=============================================================================
