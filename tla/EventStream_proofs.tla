------------------------- MODULE EventStream_proofs -------------------------
(***************************************************************************)
(* Proof that the event stream implements Delivery: whatever the log, the  *)
(* bounds, the writes that stop half way and the connections that break.   *)
(***************************************************************************)
EXTENDS EventStream, TLAPS

Line == [kind : Kind, whole : BOOLEAN]

StreamType ==
    /\ log \in Seq(Line)
    /\ open \in BOOLEAN
    /\ up \in BOOLEAN
    /\ pc \in {"none", "polling", "sending", "done"}
    /\ cursor \in Nat
    /\ batch \in Seq(Nat)
    /\ wire \in Seq(Nat)
    /\ got \in Seq(Nat)
    /\ client \in {"idle", "ranging", "finished"}

\* A line without a newline is there to be spoilt.
OpenLine == open => Len(log) > 0

\* The client has the first events of the log.
GotFirst ==
    /\ \A i \in 1..Len(got) : got[i] = i
    /\ Len(got) <= Len(log)

\* The wire goes on where the client is, and ends with session_ended if that is
\* there at all.
WireNext ==
    \A i \in 1..Len(wire) :
        \/ wire[i] = Len(got) + i /\ wire[i] <= Len(log)
        \/ wire[i] = Ended /\ i = Len(wire)

\* The handler goes on where the wire ends, as long as somebody may read it.
CursorNext ==
    up /\ pc \in {"polling", "sending"} =>
        /\ cursor = Len(got) + Len(wire)
        /\ \A i \in 1..Len(wire) : wire[i] # Ended

\* What it has read goes on where it is.
BatchNext ==
    /\ \A i \in 1..Len(batch) : batch[i] = cursor + i
    /\ cursor + Len(batch) <= Len(log)
    /\ pc = "sending" => batch # <<>>

StreamInv == StreamType /\ OpenLine /\ GotFirst /\ WireNext /\ CursorNext /\ BatchNext

-----------------------------------------------------------------------------
\* Every write adds one line, or spoils the last.
LEMMA WithEventLine ==
    ASSUME StreamInv, NEW kind \in Kind, NEW whole \in BOOLEAN
    PROVE  /\ WithEvent(kind, whole) \in Seq(Line)
           /\ Len(WithEvent(kind, whole)) \in {Len(log), Len(log) + 1}
           /\ Len(WithEvent(kind, whole)) > 0
<1>1. CASE open
  <2>1. Len(log) \in 1..Len(log) /\ log \in Seq(Line)
    BY <1>1 DEF StreamInv, StreamType, OpenLine
  <2>2. [log[Len(log)] EXCEPT !.whole = FALSE] \in Line
    <3>1. log[Len(log)] \in Line
      BY <2>1
    <3> QED
      BY <3>1 DEF Line
  <2>3. WithEvent(kind, whole)
            = [log EXCEPT ![Len(log)] = [log[Len(log)] EXCEPT !.whole = FALSE]]
    BY <1>1 DEF WithEvent
  <2> QED
    BY <2>1, <2>2, <2>3
<1>2. CASE ~open
  <2>1. [kind |-> kind, whole |-> whole] \in Line
    BY DEF Line
  <2> QED
    BY <1>2, <2>1 DEF WithEvent, StreamInv, StreamType
<1> QED
  BY <1>1, <1>2

\* A longer log is as good.
LEMMA LogGrows ==
    ASSUME StreamInv,
           log' \in Seq(Line), open' \in BOOLEAN, Len(log') > 0,
           Len(log') \in {Len(log), Len(log) + 1},
           UNCHANGED <<sessionVars, handlerVars, wireVars, clientVars>>
    PROVE  StreamInv'
<1>1. Len(log) \in Nat /\ Len(log') \in Nat /\ Len(log) <= Len(log')
  BY DEF StreamInv, StreamType
<1> USE DEF StreamInv, sessionVars, handlerVars, wireVars, clientVars
<1>2. StreamType'
  BY DEF StreamType
<1>3. OpenLine'
  BY DEF OpenLine
<1>4. GotFirst' /\ BatchNext'
  BY <1>1 DEF GotFirst, BatchNext, StreamType
<1>5. WireNext' /\ CursorNext'
  BY <1>1 DEF WireNext, CursorNext, StreamType
<1> QED
  BY <1>2, <1>3, <1>4, <1>5

\* A poll finds the lines after the cursor, or nothing.
LEMMA EventsSinceNext ==
    ASSUME StreamInv, EventsSince(cursor) # <<>>
    PROVE  /\ EventsSince(cursor) \in Seq(Nat)
           /\ \A i \in 1..Len(EventsSince(cursor)) : EventsSince(cursor)[i] = cursor + i
           /\ cursor + Len(EventsSince(cursor)) <= Len(log)
<1>1. cursor \in Nat /\ Len(log) \in Nat /\ cursor <= Len(log)
  BY DEF StreamInv, StreamType, BatchNext
<1>2. EventsSince(cursor) = Numbers(cursor + 1, Len(log))
  BY DEF EventsSince
<1> DEFINE n == Len(log) - cursor
<1>3. n \in Nat /\ Len(log) + 1 - (cursor + 1) = n
  BY <1>1
<1>4. EventsSince(cursor) = [i \in 1..n |-> cursor + 1 + i - 1]
  BY <1>2, <1>3 DEF Numbers
<1> HIDE DEF n
<1>5. \A i \in 1..n : cursor + 1 + i - 1 = cursor + i /\ cursor + i \in Nat
  BY <1>1, <1>3
<1>6. EventsSince(cursor) \in Seq(Nat) /\ Len(EventsSince(cursor)) = n
  BY <1>3, <1>4, <1>5
<1>7. \A i \in 1..n : EventsSince(cursor)[i] = cursor + i
  BY <1>4, <1>5
<1> QED
  BY <1>1, <1>3, <1>6, <1>7 DEF n

-----------------------------------------------------------------------------
\* It is about these variables.
LEMMA SameStream ==
    ASSUME StreamInv, UNCHANGED <<log, open, up, pc, cursor, batch, wire, got, client>>
    PROVE  StreamInv'
<1>1. StreamType' /\ OpenLine'
  BY DEF StreamInv, StreamType, OpenLine
<1>2. GotFirst' /\ WireNext'
  BY DEF StreamInv, GotFirst, WireNext
<1>3. CursorNext' /\ BatchNext'
  BY DEF StreamInv, CursorNext, BatchNext
<1> QED
  BY <1>1, <1>2, <1>3 DEF StreamInv

\* The first state is one of them.
LEMMA InitStreamInv == Init => StreamInv
<1> SUFFICES ASSUME Init PROVE StreamInv
  OBVIOUS
<1>1. StreamType
  <2>1. /\ <<>> \in Seq(Line) /\ <<>> \in Seq(Nat) /\ 0 \in Nat
        /\ "idle" \in {"idle", "ranging", "finished"}
        /\ "none" \in {"none", "polling", "sending", "done"}
    OBVIOUS
  <2> QED
    BY <2>1 DEF Init, StreamType
<1>2. OpenLine /\ GotFirst /\ WireNext
  BY DEF Init, OpenLine, GotFirst, WireNext
<1>3. CursorNext /\ BatchNext
  BY DEF Init, CursorNext, BatchNext
<1> QED
  BY <1>1, <1>2, <1>3 DEF StreamInv

\* Steps of the log, the session and the connection.
LEMMA EnvironmentStreamInv ==
    ASSUME StreamInv, Environment PROVE StreamInv'
<1>1. ASSUME NEW kind \in Kind, AppendEvent(kind) PROVE StreamInv'
  <2>1. /\ log' = WithEvent(kind, TRUE) /\ open' = FALSE
        /\ UNCHANGED <<sessionVars, handlerVars, wireVars, clientVars>>
    BY <1>1 DEF AppendEvent
  <2> QED
    BY <2>1, WithEventLine, LogGrows
<1>2. ASSUME NEW kind \in Kind, AppendTears(kind) PROVE StreamInv'
  <2>1. PICK whole \in BOOLEAN : log' = WithEvent(kind, whole)
    BY <1>2 DEF AppendTears
  <2>2. open' = TRUE /\ UNCHANGED <<sessionVars, handlerVars, wireVars, clientVars>>
    BY <1>2 DEF AppendTears
  <2> QED
    BY <2>1, <2>2, WithEventLine, LogGrows
<1>3. CASE Cancel \/ Delete
  BY <1>3, SameStream DEF Cancel, Delete, logVars, handlerVars, wireVars, clientVars
<1>4. CASE Breaks
  <2>1. PICK n \in 0..Len(wire) : wire' = SubSeq(wire, 1, n)
    BY <1>4 DEF Breaks
  <2>2. wire \in Seq(Nat)
    BY DEF StreamInv, StreamType
  <2>3. wire' \in Seq(Nat) /\ Len(wire') = n /\ \A i \in 1..n : wire'[i] = wire[i]
    BY <2>1, <2>2
  <2>4. up' = FALSE /\ UNCHANGED <<log, open, pc, cursor, batch, got, client>>
    BY <1>4 DEF Breaks, logVars, handlerVars, clientVars
  <2>5. StreamType' /\ OpenLine' /\ GotFirst' /\ BatchNext' /\ CursorNext'
    BY <2>3, <2>4 DEF StreamInv, StreamType, OpenLine, GotFirst, BatchNext, CursorNext
  <2>6. WireNext'
    <3> SUFFICES ASSUME NEW i \in 1..n
                 PROVE  \/ wire[i] = Len(got) + i /\ wire[i] <= Len(log)
                        \/ wire[i] = Ended /\ i = n
      BY <2>3, <2>4 DEF WireNext, Ended
    <3>1. i \in 1..Len(wire) /\ Len(wire) \in Nat /\ n <= Len(wire)
      BY <2>2
    <3>2. CASE wire[i] = Ended /\ i = Len(wire)
      BY <3>1, <3>2
    <3> QED
      BY <3>1, <3>2 DEF StreamInv, WireNext
  <2> QED
    BY <2>5, <2>6 DEF StreamInv
<1> QED
  BY <1>1, <1>2, <1>3, <1>4 DEF Environment, Drop, ServerEnds

\* Steps of the handler.
LEMMA HandlerStreamInv ==
    ASSUME StreamInv, Handler PROVE StreamInv'
<1>0. /\ UNCHANGED <<log, open, up, got, client>>
      /\ log \in Seq(Line) /\ open \in BOOLEAN /\ up \in BOOLEAN /\ wire \in Seq(Nat)
      /\ got \in Seq(Nat) /\ batch \in Seq(Nat) /\ cursor \in Nat
      /\ client \in {"idle", "ranging", "finished"}
  BY DEF Handler, Poll, Send, SessionEnded, RequestDone, logVars, wireVars, clientVars,
         StreamInv, StreamType
<1>1. OpenLine' /\ GotFirst'
  BY <1>0 DEF StreamInv, OpenLine, GotFirst
<1>2. CASE Poll
  <2>1. /\ pc = "polling" /\ pc' = "sending" /\ UNCHANGED <<cursor, wire>>
        /\ batch' = EventsSince(cursor) /\ EventsSince(cursor) # <<>>
    BY <1>2 DEF Poll, wireVars
  <2>2. batch' \in Seq(Nat) /\ BatchNext'
    BY <1>0, <2>1, EventsSinceNext DEF BatchNext
  <2>3. StreamType' /\ WireNext' /\ CursorNext'
    BY <1>0, <2>1, <2>2 DEF StreamInv, StreamType, WireNext, CursorNext
  <2> QED
    BY <1>1, <2>2, <2>3 DEF StreamInv
<1>3. CASE Send
  <2>1. /\ pc = "sending" /\ pc' \in {"polling", "sending"} /\ batch # <<>>
        /\ cursor' = Head(batch) /\ batch' = Tail(batch)
        /\ pc' = "sending" => batch' # <<>>
        /\ wire' = Written(Head(batch))
    BY <1>3 DEF Send, StreamInv, BatchNext
  <2>2. /\ cursor' = cursor + 1 /\ Head(batch) = cursor + 1 /\ cursor + 1 <= Len(log)
        /\ batch' \in Seq(Nat) /\ Len(batch') = Len(batch) - 1
        /\ \A i \in 1..Len(batch') : batch'[i] = batch[i + 1]
    BY <1>0, <2>1 DEF StreamInv, BatchNext
  <2>3. BatchNext'
    <3>1. Len(batch) \in Nat /\ cursor + Len(batch) <= Len(log)
      BY <1>0 DEF StreamInv, BatchNext
    <3>2. ASSUME NEW i \in 1..Len(batch') PROVE batch'[i] = cursor' + i
      <4>1. i + 1 \in 1..Len(batch)
        BY <2>2, <3>1
      <4>2. batch[i + 1] = cursor + (i + 1)
        BY <4>1 DEF StreamInv, BatchNext
      <4> QED
        BY <1>0, <2>2, <4>2
    <3>3. cursor' + Len(batch') <= Len(log')
      BY <1>0, <2>2, <3>1
    <3> QED
      BY <2>1, <3>2, <3>3 DEF BatchNext
  <2>4. CASE ~up
    BY <1>0, <1>1, <2>1, <2>2, <2>3, <2>4
       DEF Written, StreamInv, StreamType, WireNext, CursorNext
  <2>5. CASE up
    <3>1. wire' = Append(wire, cursor + 1) /\ cursor = Len(got) + Len(wire)
          /\ \A i \in 1..Len(wire) : wire[i] # Ended
      BY <2>1, <2>2, <2>5 DEF Written, StreamInv, CursorNext
    <3>2. /\ wire' \in Seq(Nat) /\ Len(wire') = Len(wire) + 1
          /\ \A i \in 1..Len(wire) : wire'[i] = wire[i]
          /\ wire'[Len(wire) + 1] = cursor + 1
      BY <1>0, <3>1
    <3>3. WireNext'
      <4> SUFFICES ASSUME NEW i \in 1..Len(wire')
                   PROVE  wire'[i] = Len(got') + i /\ wire'[i] <= Len(log')
        BY DEF WireNext
      <4>1. CASE i = Len(wire) + 1
        BY <1>0, <2>2, <3>1, <3>2, <4>1
      <4>2. CASE i # Len(wire) + 1
        <5>1. i \in 1..Len(wire)
          BY <1>0, <3>2, <4>2
        <5> QED
          BY <1>0, <3>1, <3>2, <5>1 DEF StreamInv, WireNext
      <4> QED
        BY <4>1, <4>2
    <3>4. CursorNext'
      <4>1. \A i \in 1..Len(wire') : wire'[i] # Ended
        <5> SUFFICES ASSUME NEW i \in 1..Len(wire') PROVE wire'[i] # Ended
          OBVIOUS
        <5>1. CASE i = Len(wire) + 1
          BY <1>0, <3>2, <5>1 DEF Ended
        <5>2. CASE i # Len(wire) + 1
          <6>1. i \in 1..Len(wire)
            BY <1>0, <3>2, <5>2
          <6> QED
            BY <3>1, <3>2, <6>1
        <5> QED
          BY <5>1, <5>2
      <4>2. cursor' = Len(got') + Len(wire')
        BY <1>0, <2>2, <3>1, <3>2
      <4> QED
        BY <4>1, <4>2 DEF CursorNext
    <3>5. StreamType'
      <4>1. pc' \in {"none", "polling", "sending", "done"} /\ cursor' \in Nat
        BY <1>0, <2>1, <2>2
      <4>2. batch' \in Seq(Nat) /\ wire' \in Seq(Nat)
        BY <2>2, <3>2
      <4> QED
        BY <1>0, <4>1, <4>2 DEF StreamType
    <3> QED
      BY <1>1, <2>3, <3>3, <3>4, <3>5 DEF StreamInv
  <2> QED
    BY <1>0, <2>4, <2>5
<1>4. CASE SessionEnded
  <2>1. /\ pc = "polling" /\ pc' = "done" /\ UNCHANGED <<cursor, batch>>
        /\ wire' = Written(Ended)
    BY <1>4 DEF SessionEnded
  <2>2. CursorNext' /\ BatchNext'
    BY <1>0, <2>1 DEF StreamInv, CursorNext, BatchNext
  <2>3. wire' \in Seq(Nat) /\ WireNext'
    <3>1. CASE ~up
      BY <1>0, <2>1, <3>1 DEF Written, StreamInv, WireNext
    <3>2. CASE up
      <4>1. \A i \in 1..Len(wire) : wire[i] # Ended
        BY <2>1, <3>2 DEF StreamInv, CursorNext
      <4>2. /\ wire' \in Seq(Nat) /\ Len(wire') = Len(wire) + 1
            /\ \A i \in 1..Len(wire) : wire'[i] = wire[i]
            /\ wire'[Len(wire) + 1] = Ended
        BY <1>0, <2>1, <3>2 DEF Written, Ended
      <4>3. ASSUME NEW i \in 1..Len(wire')
            PROVE  \/ wire'[i] = Len(got') + i /\ wire'[i] <= Len(log')
                   \/ wire'[i] = Ended /\ i = Len(wire')
        <5>1. CASE i = Len(wire) + 1
          BY <4>2, <5>1
        <5>2. CASE i # Len(wire) + 1
          <6>1. i \in 1..Len(wire)
            BY <1>0, <4>2, <5>2
          <6> QED
            BY <1>0, <4>1, <4>2, <6>1 DEF StreamInv, WireNext
        <5> QED
          BY <5>1, <5>2
      <4> QED
        BY <4>2, <4>3 DEF WireNext, Ended
    <3> QED
      BY <1>0, <3>1, <3>2
  <2>4. StreamType'
    BY <1>0, <2>1, <2>3 DEF StreamType
  <2> QED
    BY <1>1, <2>2, <2>3, <2>4 DEF StreamInv
<1>5. CASE RequestDone
  BY <1>0, <1>1, <1>5 DEF RequestDone, wireVars, StreamInv, StreamType, WireNext,
                          CursorNext, BatchNext
<1> QED
  BY <1>2, <1>3, <1>4, <1>5 DEF Handler

\* An event that the client takes is the next of the log.
LEMMA TakesNext ==
    ASSUME StreamInv, wire # <<>>, Head(wire) # Ended
    PROVE  Head(wire) = Len(got) + 1 /\ Len(got) + 1 <= Len(log)
BY DEF StreamInv, StreamType, WireNext

\* session_ended is the last thing on the wire.
LEMMA EndedIsLast ==
    ASSUME StreamInv, wire # <<>>, Head(wire) = Ended
    PROVE  Len(wire) = 1
<1>1. 1 \in 1..Len(wire) /\ wire[1] = Ended
  BY DEF StreamInv, StreamType
<1>2. Len(got) + 1 # Ended
  BY DEF StreamInv, StreamType, Ended
<1> QED
  BY <1>1, <1>2 DEF StreamInv, WireNext

\* Steps of the client.
LEMMA ConsumerStreamInv ==
    ASSUME StreamInv, Consumer PROVE StreamInv'
<1>0. /\ UNCHANGED <<log, open>>
      /\ log \in Seq(Line) /\ open \in BOOLEAN /\ up \in BOOLEAN /\ wire \in Seq(Nat)
      /\ got \in Seq(Nat) /\ batch \in Seq(Nat) /\ cursor \in Nat
      /\ pc \in {"none", "polling", "sending", "done"}
  BY DEF Consumer, Connect, ConnectFails, Take, Leave, logVars, StreamInv, StreamType
<1>1. CASE Connect
  <2>1. /\ pc' = "polling" /\ batch' = <<>> /\ wire' = <<>> /\ up' = TRUE
        /\ got' = got /\ client' = "ranging"
        /\ cursor' = IF got = <<>> THEN 0 ELSE got[Len(got)]
    BY <1>1 DEF Connect
  <2>2. cursor' = Len(got)
    BY <1>0, <2>1 DEF StreamInv, GotFirst
  <2> QED
    BY <1>0, <2>1, <2>2 DEF StreamInv, StreamType, OpenLine, GotFirst, WireNext,
                            CursorNext, BatchNext
<1>2. CASE ConnectFails \/ Leave
  <2>1. UNCHANGED <<log, open, up, pc, cursor, batch, wire, got>>
    BY <1>2 DEF ConnectFails, Leave, logVars, handlerVars, wireVars
  <2>2. StreamType'
    <3>1. client' \in {"idle", "ranging", "finished"}
      BY <1>2 DEF ConnectFails, Leave
    <3> QED
      BY <1>0, <2>1, <3>1 DEF StreamType
  <2>3. OpenLine' /\ GotFirst' /\ WireNext'
    BY <2>1 DEF StreamInv, OpenLine, GotFirst, WireNext
  <2>4. CursorNext' /\ BatchNext'
    BY <2>1 DEF StreamInv, CursorNext, BatchNext
  <2> QED
    BY <2>2, <2>3, <2>4 DEF StreamInv
<1>3. CASE Take
  <2>1. /\ wire # <<>> /\ wire' = Tail(wire) /\ UNCHANGED <<pc, cursor, batch, up>>
    BY <1>3 DEF Take, handlerVars
  <2>2. /\ wire' \in Seq(Nat) /\ Len(wire') = Len(wire) - 1
        /\ \A i \in 1..Len(wire') : wire'[i] = wire[i + 1]
    BY <1>0, <2>1
  <2>3. OpenLine' /\ BatchNext'
    BY <1>0, <2>1 DEF StreamInv, OpenLine, BatchNext
  <2>4. CASE Head(wire) = Ended
    <3>1. Len(wire) = 1
      BY <2>1, <2>4, EndedIsLast
    <3>2. client' = "finished" /\ got' = got
      BY <1>3, <2>4 DEF Take
    <3>3. Len(wire') = 0
      BY <2>2, <3>1
    <3>4. wire[1] = Ended
      BY <1>0, <2>1, <2>4
    <3>5. CursorNext'
      BY <1>0, <2>1, <3>1, <3>4 DEF StreamInv, CursorNext
    <3>6. StreamType'
      BY <1>0, <2>1, <2>2, <3>2 DEF StreamType
    <3>7. GotFirst' /\ WireNext'
      BY <1>0, <3>2, <3>3 DEF StreamInv, GotFirst, WireNext
    <3> QED
      BY <2>3, <3>5, <3>6, <3>7 DEF StreamInv
  <2>5. CASE Head(wire) # Ended
    <3>1. got' = Append(got, Len(got) + 1) /\ client' = client /\ Len(got) + 1 <= Len(log)
      BY <1>3, <2>1, <2>5, TakesNext DEF Take
    <3>2. /\ got' \in Seq(Nat) /\ Len(got') = Len(got) + 1
          /\ \A i \in 1..Len(got) : got'[i] = got[i]
          /\ got'[Len(got) + 1] = Len(got) + 1
      BY <1>0, <3>1
    <3>3. GotFirst'
      BY <1>0, <3>1, <3>2 DEF StreamInv, GotFirst
    <3>4. WireNext'
      <4> SUFFICES ASSUME NEW i \in 1..Len(wire')
                   PROVE  \/ wire'[i] = Len(got') + i /\ wire'[i] <= Len(log')
                          \/ wire'[i] = Ended /\ i = Len(wire')
        BY DEF WireNext
      <4>0. wire'[i] = wire[i + 1]
        BY <2>2
      <4>1. i + 1 \in 1..Len(wire)
        BY <1>0, <2>2
      <4>2. \/ wire[i + 1] = Len(got) + (i + 1) /\ wire[i + 1] <= Len(log)
            \/ wire[i + 1] = Ended /\ i + 1 = Len(wire)
        <5> DEFINE j == i + 1
        <5>1. j \in 1..Len(wire)
          BY <4>1
        <5> HIDE DEF j
        <5>2. \/ wire[j] = Len(got) + j /\ wire[j] <= Len(log)
              \/ wire[j] = Ended /\ j = Len(wire)
          BY <5>1 DEF StreamInv, WireNext
        <5> QED
          BY <5>2 DEF j
      <4>3. Len(got) \in Nat /\ Len(wire) \in Nat /\ i \in Nat
        BY <1>0
      <4> QED
        BY <1>0, <2>2, <3>2, <4>0, <4>1, <4>2, <4>3
    <3>5. CursorNext'
      <4> SUFFICES ASSUME up, pc \in {"polling", "sending"} PROVE CursorNext'
        BY <2>1 DEF CursorNext
      <4>1. cursor = Len(got) + Len(wire) /\ \A i \in 1..Len(wire) : wire[i] # Ended
        BY DEF StreamInv, CursorNext
      <4>2. cursor' = Len(got') + Len(wire')
        <5>1. Len(got) \in Nat /\ Len(wire) \in Nat
          BY <1>0
        <5> QED
          BY <2>1, <2>2, <3>2, <4>1, <5>1
      <4>3. ASSUME NEW i \in 1..Len(wire') PROVE wire'[i] # Ended
        <5>1. i + 1 \in 1..Len(wire)
          BY <1>0, <2>2
        <5> QED
          BY <2>2, <4>1, <5>1
      <4> QED
        BY <4>2, <4>3 DEF CursorNext, Ended
    <3>6. StreamType'
      BY <1>0, <2>1, <2>2, <3>1, <3>2 DEF StreamInv, StreamType
    <3> QED
      BY <2>3, <3>3, <3>4, <3>5, <3>6 DEF StreamInv
  <2> QED
    BY <2>4, <2>5
<1> QED
  BY <1>1, <1>2, <1>3 DEF Consumer

\* Every step keeps the invariant.
LEMMA NextStreamInv == StreamInv /\ [Next]_vars => StreamInv'
<1> SUFFICES ASSUME StreamInv, [Next]_vars PROVE StreamInv'
  OBVIOUS
<1>1. CASE UNCHANGED vars
  BY <1>1, SameStream DEF vars, logVars, handlerVars, wireVars, clientVars
<1> QED
  BY <1>1, EnvironmentStreamInv, HandlerStreamInv, ConsumerStreamInv DEF Next

-----------------------------------------------------------------------------
\* A step of the stream is a step of Delivery, or none.
LEMMA StepDelivers ==
    ASSUME StreamInv, [Next]_vars
    PROVE  [Client!Next]_<<Len(log), got, client = "finished">>
<1>1. ASSUME NEW kind \in Kind, AppendEvent(kind) \/ AppendTears(kind)
      PROVE  [Client!Next]_<<Len(log), got, client = "finished">>
  <2>1. /\ \E whole \in BOOLEAN : log' = WithEvent(kind, whole)
        /\ UNCHANGED <<got, client>>
    BY <1>1 DEF AppendEvent, AppendTears, clientVars
  <2>2. Len(log') \in {Len(log), Len(log) + 1}
    BY <2>1, WithEventLine
  <2> QED
    BY <2>1, <2>2 DEF Client!Next, Client!Write
<1>2. CASE Cancel \/ Delete \/ Drop \/ ServerEnds \/ Handler \/ Connect \/ UNCHANGED vars
  <2>1. UNCHANGED <<log, got>> /\ (client' = "finished") = (client = "finished")
    BY <1>2 DEF Cancel, Delete, Drop, ServerEnds, Breaks, Handler, Poll, Send, SessionEnded,
                RequestDone, Connect, logVars, clientVars, vars
  <2> QED
    BY <2>1
<1>3. CASE ConnectFails \/ Leave
  <2>1. UNCHANGED <<log, got>> /\ client # "finished"
    BY <1>3 DEF ConnectFails, Leave, logVars
  <2> QED
    BY <2>1 DEF Client!Next, Client!Leave
<1>4. CASE Take
  <2>1. UNCHANGED log /\ client # "finished" /\ wire # <<>>
    BY <1>4 DEF Take, logVars
  <2>2. CASE Head(wire) = Ended
    BY <1>4, <2>1, <2>2 DEF Take, Client!Next, Client!Leave
  <2>3. CASE Head(wire) # Ended
    <3>1. Head(wire) = Len(got) + 1 /\ Len(got) + 1 <= Len(log)
      BY <2>1, <2>3, TakesNext
    <3>2. got' = Append(got, Len(got) + 1) /\ client' = client
      BY <1>4, <2>3, <3>1 DEF Take
    <3>3. Len(got) < Len(log)
      BY <3>1 DEF StreamInv, StreamType
    <3> QED
      BY <2>1, <3>2, <3>3 DEF Client!Next, Client!Get
  <2> QED
    BY <2>2, <2>3
<1> QED
  BY <1>1, <1>2, <1>3, <1>4 DEF Next, Environment, Consumer

\* The invariant of the stream.
THEOREM StreamInvariant == Spec => []StreamInv
<1> QED
  BY InitStreamInv, NextStreamInv, PTL DEF Spec

\* The client gets the events of the log in their order, each one once and none
\* left out: the log, the handler, the connection and the client together
\* implement Delivery.
THEOREM StreamDelivers == Spec => InOrder
<1>1. Init => Client!Init
  BY DEF Init, Client!Init
<1>2. StreamInv /\ [Next]_vars => [Client!Next]_<<Len(log), got, client = "finished">>
  BY StepDelivers
<1> QED
  BY <1>1, <1>2, StreamInvariant, PTL DEF Spec, InOrder, Client!Spec

=============================================================================
