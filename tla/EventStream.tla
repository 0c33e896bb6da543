---------------------------- MODULE EventStream ----------------------------
(***************************************************************************)
(* How the events of one session reach a client: the event log             *)
(* (pkg/store/fs_store.go), the SSE handler that polls it                  *)
(* (pkg/api/handler/session.go), the connection, and the client's reader   *)
(* goroutine with the loop that takes events from its channel              *)
(* (packages/cli/internal/client/client.go, commands/run.go).              *)
(*                                                                         *)
(* An event's ID is the number of its line in the log: IDs are fresh, and  *)
(* nothing but their being equal matters.  0 is the empty cursor.          *)
(*                                                                         *)
(* Only the current connection is modelled.  The handler of a connection   *)
(* that is gone polls and writes until it notices, and nobody sees it.     *)
(* The reader goroutine hands every event over before it reads the next,   *)
(* on an unbuffered channel: it is one with the loop that takes them, and  *)
(* the event it holds is still on the wire.                                *)
(***************************************************************************)
EXTENDS Naturals, Sequences

CONSTANTS
    Kind,      \* event types
    MaxEvents, \* bound on the lines of the log
    MaxTears,  \* bound on writes that stop half way
    MaxDrops   \* bound on connections that break

ASSUME BoundsAssumption ==
    MaxEvents \in Nat /\ MaxTears \in Nat /\ MaxDrops \in Nat

VARIABLES
    log,     \* the lines of events.jsonl: the event's type, and whether it parses
    open,    \* the last line has no newline yet
    tears,   \* writes that stopped half way
    ctxDone, \* the session's context is cancelled
    listed,  \* the session is in the service's map
    serving, \* the server's process runs
    pc,      \* the handler: "none", "polling", "sending" or "done"
    cursor,  \* its lastEventID
    batch,   \* the events it has read and not sent
    up,      \* the connection is up
    wire,    \* what was written to the connection and not read
    drops,   \* connections that broke
    client,  \* the loop over the channel: "idle", "ranging" or "finished"
    got,     \* the events it took from the channel
    resumes  \* it connects again after its last event, as packages/cli never does

logVars == <<log, open, tears>>
sessionVars == <<ctxDone, listed, serving>>
handlerVars == <<pc, cursor, batch>>
wireVars == <<up, wire, drops>>
clientVars == <<client, got, resumes>>
vars == <<logVars, sessionVars, handlerVars, wireVars, clientVars>>

\* session_ended, among the events on the wire.
Ended == 0

Init ==
    /\ log = <<>>
    /\ open = FALSE
    /\ tears = 0
    /\ ctxDone = FALSE
    /\ listed = TRUE
    /\ serving = TRUE
    /\ pc = "none"
    /\ cursor = 0
    /\ batch = <<>>
    /\ up = FALSE
    /\ wire = <<>>
    /\ drops = 0
    /\ client = "idle"
    /\ got = <<>>
    /\ resumes \in BOOLEAN

-----------------------------------------------------------------------------
\* The event log.

\* The log when an event, or part of it, is written: after a line without a
\* newline it only spoils that line.
WithEvent(kind, whole) ==
    IF open THEN [log EXCEPT ![Len(log)].whole = FALSE]
            ELSE Append(log, [kind |-> kind, whole |-> whole])

\* The event and its newline are written.
AppendEvent(kind) ==
    /\ Len(log) < MaxEvents
    /\ log' = WithEvent(kind, TRUE)
    /\ open' = FALSE
    /\ UNCHANGED <<tears, sessionVars, handlerVars, wireVars, clientVars>>

\* The write stops in the event, or before its newline.
AppendTears(kind) ==
    /\ Len(log) < MaxEvents
    /\ tears < MaxTears
    /\ \E whole \in BOOLEAN : log' = WithEvent(kind, whole)
    /\ open' = TRUE
    /\ tears' = tears + 1
    /\ UNCHANGED <<sessionVars, handlerVars, wireVars, clientVars>>

\* A line does not parse: reading the log fails, wherever one starts.
Torn == \E i \in 1..Len(log) : ~log[i].whole

Numbers(first, last) == [i \in 1..(last + 1 - first) |-> first + i - 1]

\* Mutant: the event at the cursor is sent again.
EventsSinceInclusive(after) ==
    IF Torn \/ after > Len(log) THEN <<>>
    ELSE Numbers(IF after = 0 THEN 1 ELSE after, Len(log))

\* Mutant: an empty cursor means that there is nothing to catch up with.
EventsSinceLater(after) ==
    IF Torn \/ after = 0 \/ after > Len(log) THEN <<>> ELSE Numbers(after + 1, Len(log))

\* GetEventsSince, with nothing for the error that makes the handler go on.
\* A cursor that is not in the log finds nothing.
EventsSince(after) ==
    IF Torn \/ after > Len(log) THEN <<>> ELSE Numbers(after + 1, Len(log))

-----------------------------------------------------------------------------
\* The session.

Cancel ==
    /\ ~ctxDone
    /\ ctxDone' = TRUE
    /\ UNCHANGED <<logVars, listed, serving, handlerVars, wireVars, clientVars>>

Delete ==
    /\ listed
    /\ listed' = FALSE
    /\ ctxDone' = TRUE
    /\ UNCHANGED <<logVars, serving, handlerVars, wireVars, clientVars>>

-----------------------------------------------------------------------------
\* The SSE handler.

Written(message) == IF up THEN Append(wire, message) ELSE wire

Poll ==
    /\ pc = "polling"
    /\ EventsSince(cursor) # <<>>
    /\ batch' = EventsSince(cursor)
    /\ pc' = "sending"
    /\ UNCHANGED <<logVars, sessionVars, cursor, wireVars, clientVars>>

\* Neither context is looked at between the events of a batch.
Send ==
    /\ pc = "sending"
    /\ wire' = Written(Head(batch))
    /\ cursor' = Head(batch)
    /\ batch' = Tail(batch)
    /\ pc' = IF Tail(batch) = <<>> THEN "polling" ELSE "sending"
    /\ UNCHANGED <<logVars, sessionVars, up, drops, clientVars>>

\* Mutant: the handler does not look at the session's context.
SessionEndedUnseen ==
    /\ pc = "polling"
    /\ ctxDone
    /\ ~up
    /\ pc' = "done"
    /\ UNCHANGED <<logVars, sessionVars, cursor, batch, wireVars, clientVars>>

\* The select takes any of its cases that is ready: events appended since the
\* last poll are not read any more.
SessionEnded ==
    /\ pc = "polling"
    /\ ctxDone
    /\ wire' = Written(Ended)
    /\ pc' = "done"
    /\ UNCHANGED <<logVars, sessionVars, cursor, batch, up, drops, clientVars>>

RequestDone ==
    /\ pc = "polling"
    /\ ~up
    /\ pc' = "done"
    /\ UNCHANGED <<logVars, sessionVars, cursor, batch, wireVars, clientVars>>

Handler ==
    /\ serving
    /\ Poll \/ Send \/ SessionEnded \/ RequestDone

-----------------------------------------------------------------------------
\* The connection and the client.

\* What is on the wire may be lost from some place on.
Breaks ==
    /\ up' = FALSE
    /\ \E n \in 0..Len(wire) : wire' = SubSeq(wire, 1, n)
    /\ UNCHANGED <<logVars, ctxDone, listed, handlerVars, clientVars>>

Drop ==
    /\ up
    /\ drops < MaxDrops
    /\ drops' = drops + 1
    /\ Breaks
    /\ UNCHANGED serving

\* The server's process ends, with all that it does.  The next one knows none
\* of its sessions.
ServerEnds ==
    /\ serving
    /\ serving' = FALSE
    /\ Breaks
    /\ UNCHANGED drops

\* StreamEvents: the request reaches the handler, which starts at the cursor.
Connect ==
    /\ client = "idle"
    /\ listed /\ serving
    /\ pc' = "polling"
    /\ cursor' = IF got = <<>> THEN 0 ELSE got[Len(got)]
    /\ batch' = <<>>
    /\ up' = TRUE
    /\ wire' = <<>>
    /\ client' = "ranging"
    /\ UNCHANGED <<logVars, sessionVars, drops, got, resumes>>

\* The handler answers 404, or there is no server.
ConnectFails ==
    /\ client = "idle"
    /\ ~listed \/ ~serving
    /\ client' = "finished"
    /\ UNCHANGED <<logVars, sessionVars, handlerVars, wireVars, got, resumes>>

\* The loop takes the next event; session_ended ends it.
Take ==
    /\ client = "ranging"
    /\ wire # <<>>
    /\ wire' = Tail(wire)
    /\ IF Head(wire) = Ended
         THEN client' = "finished" /\ UNCHANGED got
         ELSE got' = Append(got, Head(wire)) /\ UNCHANGED client
    /\ UNCHANGED <<logVars, sessionVars, handlerVars, up, drops, resumes>>

\* The connection is gone or the handler has returned: nothing more to read,
\* so the channel is closed.
Leave ==
    /\ client = "ranging"
    /\ wire = <<>>
    /\ ~up \/ pc = "done"
    /\ client' = IF resumes THEN "idle" ELSE "finished"
    /\ UNCHANGED <<logVars, sessionVars, handlerVars, wireVars, got, resumes>>

Consumer == Connect \/ ConnectFails \/ Take \/ Leave

-----------------------------------------------------------------------------

Environment ==
    \/ /\ serving
       /\ \/ \E kind \in Kind : AppendEvent(kind) \/ AppendTears(kind)
          \/ Cancel
          \/ Delete
    \/ Drop
    \/ ServerEnds

Next == Environment \/ Handler \/ Consumer

Spec == Init /\ [][Next]_vars

\* The ticker keeps the handler polling, the goroutines are scheduled, and the
\* client's program goes on.  Nothing is assumed of the session, of the
\* connection or of the disk.
StreamFairness ==
    /\ WF_vars(Handler)
    /\ WF_vars(Consumer)

FairSpec == Spec /\ StreamFairness

-----------------------------------------------------------------------------
\* What a client can rely on.

\* The client gets the events of the log in their order, each one once and
\* none left out, over any number of connections and with lines that were
\* written by halves, and if the server ends: what Delivery promises.
Client == INSTANCE Delivery WITH written <- Len(log), left <- client = "finished"
InOrder == Client!Spec

\* Every event reaches the client in the end, unless the client is finished
\* before or the log has a line that does not parse.
Delivered ==
    \A n \in 1..MaxEvents :
      Len(log) >= n ~> Len(got) >= n \/ Torn \/ client = "finished"

\* When the session is cancelled or deleted, or the server ends, the client's loop
\* ends.
EndsWithSession == ctxDone \/ ~serving ~> client = "finished"

=============================================================================
