---------------------------- MODULE Repl_proofs ----------------------------
(***************************************************************************)
(* Proofs about the interactive client, for any number of sessions, keys,  *)
(* requests and faults: it loses no message without saying so, and the     *)
(* events it shows of a stream it has turned away from are few.            *)
(*                                                                         *)
(* A message could vanish in the server if its session were none, so the   *)
(* first invariant, RInv, says which session a command has, and that the   *)
(* sessions being created have a number left.                              *)
(*                                                                         *)
(* The second, EInv, counts the goroutines that wait on a channel or hold  *)
(* an event of it.  A stream brings one when it starts, and it starts once.*)
(*                                                                         *)
(* The third, PInv, says what is in a log after a request that is waited   *)
(* for, and that the prompt is of an event that was handled.               *)
(***************************************************************************)
EXTENDS Repl, SequenceTheorems, FiniteSetTheorems, TLAPS

EventKind == {"message", "response", "request", "result"}
Step == {"idle", "working", "calling", "asking", "hanging"}
AgentState == [step : Step, request : Nat, tool : SUBSET Tool, results : Seq(SUBSET Tool)]

LogEvent == [kind : EventKind, key : Nat, request : Nat, tool : SUBSET Tool]

\* Any request, since a command only carries it.
CommandFor(request) ==
    [kind : {"create", "send", "stream", "query", "submit"}, session : 0..MaxSessions,
     key : Nat, typed : BOOLEAN, request : {request}, state : {"sent", "done", "failed"}]

GoodCommand(c) ==
    /\ c \in CommandFor(c.request)
    /\ c.kind = "send" => c.session # 0 /\ c.state # "done"
    /\ c.kind = "create" /\ c.state = "done" => c.session # 0
    /\ c.typed => c.kind \in {"create", "send"}

Unserved == {c \in commands : c.kind = "create" /\ c.state = "sent"}

ServerType ==
    /\ log \in [SessionNumber -> Seq(LogEvent)]
    /\ agent \in [SessionNumber -> AgentState]
    /\ requests \in Nat
    /\ sessions \in Nat

ClientType ==
    /\ keys \in Nat
    /\ sessionID \in 0..MaxSessions
    /\ IsFiniteSet(commands)
    /\ \A c \in commands : GoodCommand(c)

RoomLeft == sessions + Cardinality(Unserved) <= MaxSessions

RInv == ServerType /\ ClientType /\ RoomLeft /\ NoMessageLost

-----------------------------------------------------------------------------
\* Where a message may be.
Reached(n) ==
    \/ \E k \in SessionNumber : \E i \in DOMAIN log[k] : log[k][i].key = n
    \/ n \in errors

\* A log that gets events keeps those it has.
LEMMA LoggedGrows ==
    ASSUME ServerType, NEW k \in SessionNumber, NEW events \in Seq(LogEvent),
           Logged(k, events)
    PROVE  /\ log' \in [SessionNumber -> Seq(LogEvent)]
           /\ \A j \in SessionNumber : \A i \in DOMAIN log[j] :
                i \in DOMAIN log'[j] /\ log'[j][i] = log[j][i]
           /\ \A n \in DOMAIN events : \E i \in DOMAIN log'[k] : log'[k][i] = events[n]
<1>1. log[k] \in Seq(LogEvent)
  BY DEF ServerType
<1>2. log' = [log EXCEPT ![k] = log[k] \o events]
  BY DEF Logged
<1>3. log[k] \o events \in Seq(LogEvent)
      /\ \A i \in DOMAIN log[k] :
           i \in DOMAIN (log[k] \o events) /\ (log[k] \o events)[i] = log[k][i]
  BY <1>1
<1>4. \A n \in DOMAIN events :
        /\ Len(log[k]) + n \in DOMAIN (log[k] \o events)
        /\ (log[k] \o events)[Len(log[k]) + n] = events[n]
  BY <1>1
<1>5. log'[k] = log[k] \o events /\ \A j \in SessionNumber : j # k => log'[j] = log[j]
  BY <1>2 DEF ServerType
<1>6. log' \in [SessionNumber -> Seq(LogEvent)]
  BY <1>2, <1>3 DEF ServerType
<1>7. \A n \in DOMAIN events : \E i \in DOMAIN log'[k] : log'[k][i] = events[n]
  BY <1>4, <1>5
<1> QED
  BY <1>3, <1>5, <1>6, <1>7

\* The agent's new state, and the log after a step of it.
LEMMA AgentType ==
    ASSUME ServerType, NEW k \in SessionNumber, NEW step \in Step,
           NEW request \in Nat, NEW tool \in SUBSET Tool, NEW results \in Seq(SUBSET Tool),
           AgentIs(k, step, request, tool, results)
    PROVE  agent' \in [SessionNumber -> AgentState]
BY DEF ServerType, AgentIs, AgentState

LEMMA EventType ==
    ASSUME NEW kind \in EventKind, NEW key \in Nat, NEW request \in Nat,
           NEW tool \in SUBSET Tool
    PROVE  Event(kind, key, request, tool) \in LogEvent
           /\ Event(kind, key, request, tool).key = key
BY DEF Event, LogEvent

\* What was reached is reached for good.
LEMMA ReachedStays ==
    ASSUME errors \subseteq errors',
           \A j \in SessionNumber : \A i \in DOMAIN log[j] :
             i \in DOMAIN log'[j] /\ log'[j][i] = log[j][i],
           NEW n, Reached(n)
    PROVE  Reached(n)'
BY DEF Reached

LEMMA LostNone ==
    ASSUME NoMessageLost, messages' = messages,
           \A n : Reached(n) => Reached(n)',
           \A c \in commands : c.typed =>
               Reached(c.key)' \/ \E d \in commands' : d.key = c.key /\ d.typed
    PROVE  NoMessageLost'
BY DEF NoMessageLost, Reached

-----------------------------------------------------------------------------
\* A command is replaced by another, which is no new request for a session.
LEMMA Replaced ==
    ASSUME ClientType, UNCHANGED <<keys, sessionID>>, NEW c \in commands,
           NEW d, GoodCommand(d), ~(d.kind = "create" /\ d.state = "sent"),
           commands' = (commands \ {c}) \union {d}
    PROVE  ClientType' /\ Unserved' = Unserved \ {c}
<1>1. IsFiniteSet(commands \ {c})
  BY FS_RemoveElement DEF ClientType
<1>2. IsFiniteSet(commands')
  BY <1>1, FS_AddElement
<1>3. \A x \in commands' : GoodCommand(x)
  BY DEF ClientType
<1>4. Unserved' = Unserved \ {c}
  BY DEF Unserved
<1> QED
  BY <1>2, <1>3, <1>4 DEF ClientType, GoodCommand

\* Or it ends.
LEMMA Removed ==
    ASSUME ClientType, UNCHANGED <<keys, sessionID>>, NEW c \in commands,
           commands' = commands \ {c}
    PROVE  ClientType' /\ Unserved' = Unserved \ {c}
<1>1. IsFiniteSet(commands')
  BY FS_RemoveElement DEF ClientType
<1>2. \A x \in commands' : GoodCommand(x)
  BY DEF ClientType
<1>3. Unserved' = Unserved \ {c}
  BY DEF Unserved
<1> QED
  BY <1>1, <1>2, <1>3 DEF ClientType, GoodCommand

LEMMA FewerUnserved ==
    ASSUME ClientType, NEW c
    PROVE  /\ IsFiniteSet(Unserved)
           /\ Cardinality(Unserved) \in Nat
           /\ Cardinality(Unserved \ {c}) =
                IF c \in Unserved THEN Cardinality(Unserved) - 1 ELSE Cardinality(Unserved)
<1>1. IsFiniteSet(Unserved)
  BY FS_Subset DEF ClientType, Unserved
<1> QED
  BY <1>1, FS_CardinalityType, FS_RemoveElement

LEMMA RoomStays ==
    ASSUME ServerType, ClientType, RoomLeft, sessions' = sessions,
           NEW c, Unserved' = Unserved \ {c}
    PROVE  RoomLeft'
<1>1. Cardinality(Unserved) \in Nat /\ Cardinality(Unserved') <= Cardinality(Unserved)
      /\ Cardinality(Unserved') \in Int
  BY FewerUnserved
<1> QED
  BY <1>1, ReplBoundsAssumption DEF RoomLeft, ServerType

-----------------------------------------------------------------------------
\* A key adds its command.
LEMMA KeyInv ==
    ASSUME RInv, NEW c, Key(c), GoodCommand(c), c.key = keys + 1,
           c.kind = "create" => MayCreate /\ c.state = "sent"
    PROVE  RInv'
<1> USE DEF serverVars
<1>1. ServerType'
  BY DEF Key, RInv, ServerType
<1>2. ClientType'
  BY FS_AddElement DEF Key, RInv, ClientType, GoodCommand
<1>3. RoomLeft'
  <2>1. IsFiniteSet(Creating) /\ Unserved \subseteq Creating
    BY FS_Subset DEF RInv, ClientType, Creating, Unserved
  <2>2. /\ Cardinality(Unserved) \in Nat /\ Cardinality(Creating) \in Nat
        /\ Cardinality(Unserved) <= Cardinality(Creating)
        /\ Cardinality(Unserved \union {c}) \in {Cardinality(Unserved), Cardinality(Unserved) + 1}
    BY <2>1, FS_Subset, FS_AddElement, FS_CardinalityType
  <2>3. sessions' = sessions /\ sessions \in Nat /\ MaxSessions \in Nat
    BY ReplBoundsAssumption DEF Key, RInv, ServerType
  <2>4. CASE c.kind = "create"
    <3>1. Unserved' = Unserved \union {c}
      BY <2>4 DEF Key, Unserved
    <3>2. sessions + Cardinality(Creating) < MaxSessions
      BY <2>4 DEF MayCreate
    <3> QED
      BY <2>2, <2>3, <3>1, <3>2 DEF RoomLeft
  <2>5. CASE c.kind # "create"
    <3>1. Unserved' = Unserved
      BY <2>5 DEF Key, Unserved
    <3> QED
      BY <2>3, <3>1 DEF RoomLeft, RInv
  <2> QED
    BY <2>4, <2>5
<1>4. NoMessageLost'
  <2>1. /\ commands' = commands \union {c} /\ UNCHANGED <<log, errors>>
        /\ messages' = messages \union {n \in {keys + 1} : c.typed}
    BY DEF Key
  <2> QED
    BY <2>1 DEF RInv, NoMessageLost
<1> QED
  BY <1>1, <1>2, <1>3, <1>4 DEF RInv

LEMMA CommandGood ==
    ASSUME NEW kind \in {"create", "send", "stream", "query", "submit"},
           NEW session \in 0..MaxSessions, NEW key \in Nat, NEW typed \in BOOLEAN,
           NEW request, kind = "send" => session # 0,
           typed => kind \in {"create", "send"}
    PROVE  LET c == Command(kind, session, key, typed, request) IN
             GoodCommand(c) /\ c.kind = kind /\ c.key = key /\ c.state = "sent"
               /\ c.typed = typed
BY DEF Command, GoodCommand, CommandFor

LEMMA TypedKey ==
    ASSUME RInv, NEW kind \in {"create", "send", "query", "submit"},
           NEW session \in 0..MaxSessions, NEW typed \in BOOLEAN, NEW request,
           kind = "send" => session # 0, typed => kind \in {"create", "send"},
           kind = "create" => MayCreate,
           Key(Command(kind, session, keys + 1, typed, request))
    PROVE  RInv'
<1> DEFINE c == Command(kind, session, keys + 1, typed, request)
<1>1. keys + 1 \in Nat
  BY DEF RInv, ClientType
<1>2. GoodCommand(c) /\ c.kind = kind /\ c.key = keys + 1 /\ c.state = "sent"
  BY <1>1, CommandGood
<1> HIDE DEF c
<1>3. Key(c)
  BY DEF c
<1> QED
  BY <1>2, <1>3, KeyInv

LEMMA KeysInv ==
    ASSUME RInv, Keys
    PROVE  RInv'
<1>1. sessionID \in 0..MaxSessions /\ 0 \in 0..MaxSessions
  BY ReplBoundsAssumption DEF RInv, ClientType
<1>2. CASE KeyMessage
  BY <1>1, <1>2, TypedKey DEF KeyMessage
<1>3. CASE KeyNew
  BY <1>1, <1>3, TypedKey DEF KeyNew
<1>4. CASE KeyQuery
  BY <1>1, <1>4, TypedKey DEF KeyQuery
<1>5. CASE KeyAnswer
  BY <1>1, <1>5, TypedKey DEF KeyAnswer
<1> QED
  BY <1>2, <1>3, <1>4, <1>5 DEF Keys

-----------------------------------------------------------------------------
\* The server.

\* An event that the session writes leaves the rest of the log.
LEMMA EventLogged ==
    ASSUME ServerType, NEW k \in SessionNumber, NEW kind \in EventKind, NEW key \in Nat,
           NEW request \in Nat, NEW tool \in SUBSET Tool,
           Logged(k, <<Event(kind, key, request, tool)>>)
    PROVE  /\ log' \in [SessionNumber -> Seq(LogEvent)]
           /\ \A j \in SessionNumber : \A i \in DOMAIN log[j] :
                i \in DOMAIN log'[j] /\ log'[j][i] = log[j][i]
           /\ \E i \in DOMAIN log'[k] : log'[k][i].key = key
<1> DEFINE e == Event(kind, key, request, tool)
<1>1. e \in LogEvent /\ e.key = key
  BY EventType
<1> HIDE DEF e
<1>2. <<e>> \in Seq(LogEvent) /\ Logged(k, <<e>>) /\ 1 \in DOMAIN <<e>> /\ <<e>>[1] = e
  BY <1>1 DEF e
<1>3. \E i \in DOMAIN log'[k] : log'[k][i] = <<e>>[1]
  BY <1>2, LoggedGrows
<1> QED
  BY <1>1, <1>2, <1>3, LoggedGrows

\* Neither an answer nor a result that is kept is logged.
LEMMA ResumesStep ==
    ASSUME ServerType, NEW k \in SessionNumber, Resumes(k),
           UNCHANGED <<sessions, log, requests>>
    PROVE  ServerType'
<1>1. agent[k].tool \in SUBSET Tool /\ agent[k].results \in Seq(SUBSET Tool)
  BY DEF ServerType, AgentState
<1>2. Append(agent[k].results, agent[k].tool) \in Seq(SUBSET Tool)
  BY <1>1
<1>3. AgentIs(k, "calling", 0, {}, Append(agent[k].results, agent[k].tool))
  BY DEF Resumes
<1>4. agent' \in [SessionNumber -> AgentState]
  BY <1>2, <1>3, AgentType DEF Step
<1> QED
  BY <1>4 DEF ServerType

\* A step of a run on its own.
RunStep(k) == AgentGoesOn(k) \/ AgentHangs(k)

\* What such a step logs: some events, or none.
LEMMA AgentLogs ==
    ASSUME ServerType, NEW k \in SessionNumber, RunStep(k)
    PROVE  /\ agent' \in [SessionNumber -> AgentState]
           /\ requests' \in Nat /\ sessions' = sessions
           /\ log' = log \/ \E events \in Seq(LogEvent) : Logged(k, events)
<1>1. /\ agent[k].tool \in SUBSET Tool /\ agent[k].results \in Seq(SUBSET Tool)
      /\ requests \in Nat /\ <<>> \in Seq(SUBSET Tool)
  BY DEF ServerType, AgentState
<1>2. Event("response", 0, 0, {}) \in LogEvent
  BY EventType DEF EventKind
<1>3. CASE Responds(k)
  <2>1. AgentIs(k, "idle", 0, {}, <<>>) /\ Logged(k, <<Event("response", 0, 0, {})>>)
        /\ UNCHANGED <<sessions, requests>>
    BY <1>3 DEF Responds
  <2>2. <<Event("response", 0, 0, {})>> \in Seq(LogEvent)
    BY <1>2
  <2> QED
    BY <1>1, <2>1, <2>2, AgentType DEF Step
<1>4. CASE Asks(k)
  <2>1. PICK t \in Tool :
          /\ AgentIs(k, "asking", requests + 1, {t}, agent[k].results)
          /\ Logged(k, (IF agent[k].step = "working" THEN <<Event("response", 0, 0, {})>>
                                                     ELSE <<>>)
                          \o <<Event("request", 0, requests + 1, {t})>>)
    BY <1>4 DEF Asks
  <2>2. requests + 1 \in Nat /\ requests' = requests + 1 /\ sessions' = sessions
    BY <1>1, <1>4 DEF Asks
  <2>3. Event("request", 0, requests + 1, {t}) \in LogEvent
    BY <2>2, EventType DEF EventKind
  <2> DEFINE answer == Event("response", 0, 0, {})
  <2> DEFINE asked == Event("request", 0, requests + 1, {t})
  <2> HIDE DEF answer, asked
  <2>4. (IF agent[k].step = "working" THEN <<answer>> ELSE <<>>) \o <<asked>> \in Seq(LogEvent)
    BY <1>2, <2>3 DEF answer, asked
  <2>5. \E events \in Seq(LogEvent) : Logged(k, events)
    BY <2>1, <2>4 DEF answer, asked
  <2>6. agent' \in [SessionNumber -> AgentState]
    BY <1>1, <2>1, <2>2, AgentType DEF Step
  <2> QED
    BY <2>2, <2>5, <2>6
<1>5. CASE TimesOut(k)
  <2>1. ServerType'
    BY <1>5, ResumesStep DEF TimesOut
  <2> QED
    BY <1>5, <2>1 DEF TimesOut, ServerType
<1>6. CASE Dispatches(k)
  <2>1. AgentIs(k, "working", 0, {}, <<>>) /\ Logged(k, ResultEvents(k))
        /\ UNCHANGED <<sessions, requests>>
    BY <1>6 DEF Dispatches
  <2>2. \A i \in DOMAIN agent[k].results :
          Event("result", 0, 0, agent[k].results[i]) \in LogEvent
    BY <1>1, EventType DEF EventKind
  <2>3. ResultEvents(k) \in Seq(LogEvent)
    BY <1>1, <2>2 DEF ResultEvents
  <2> QED
    BY <1>1, <2>1, <2>3, AgentType DEF Step
<1>7. CASE Hangs(k)
  BY <1>1, <1>7, AgentType DEF Hangs, Step
<1> QED
  BY <1>3, <1>4, <1>5, <1>6, <1>7 DEF RunStep, AgentGoesOn, AgentHangs

LEMMA AgentStep ==
    ASSUME ServerType, NEW k \in SessionNumber, RunStep(k)
    PROVE  /\ ServerType'
           /\ \A j \in SessionNumber : \A i \in DOMAIN log[j] :
                i \in DOMAIN log'[j] /\ log'[j][i] = log[j][i]
<1>1. CASE log' = log
  BY <1>1, AgentLogs DEF ServerType
<1>2. ASSUME NEW events \in Seq(LogEvent), Logged(k, events)
      PROVE  /\ ServerType'
             /\ \A j \in SessionNumber : \A i \in DOMAIN log[j] :
                  i \in DOMAIN log'[j] /\ log'[j][i] = log[j][i]
  <2>1. /\ log' \in [SessionNumber -> Seq(LogEvent)]
        /\ \A j \in SessionNumber : \A i \in DOMAIN log[j] :
             i \in DOMAIN log'[j] /\ log'[j][i] = log[j][i]
    BY <1>2, LoggedGrows
  <2> QED
    BY <2>1, AgentLogs DEF ServerType
<1> QED
  BY <1>1, <1>2, AgentLogs

\* The steps of a session on its own.
LEMMA AgentInv ==
    ASSUME RInv, NEW k \in SessionNumber, RunStep(k)
    PROVE  RInv'
<1>1. ServerType /\ ClientType /\ RoomLeft /\ NoMessageLost
  BY DEF RInv
<1>2. /\ ServerType'
      /\ \A j \in SessionNumber : \A i \in DOMAIN log[j] :
           i \in DOMAIN log'[j] /\ log'[j][i] = log[j][i]
  BY <1>1, AgentStep
<1>3. UNCHANGED <<commands, keys, sessionID, messages, errors, sessions>>
  BY DEF RunStep, AgentGoesOn, AgentHangs, Responds, Asks, TimesOut, Dispatches, Hangs, uiVars
<1>4. ClientType' /\ RoomLeft'
  BY <1>1, <1>3 DEF ClientType, RoomLeft, Unserved
<1>5. \A n : Reached(n) => Reached(n)'
  BY <1>2, <1>3, ReachedStays
<1>6. NoMessageLost'
  BY <1>1, <1>3, <1>5, LostNone
<1> QED
  BY <1>2, <1>4, <1>6 DEF RInv

\* Only a command changes: it becomes another that carries the same message.
LEMMA BecomesInv ==
    ASSUME RInv, NEW c \in commands, NEW d, GoodCommand(d),
           ~(d.kind = "create" /\ d.state = "sent"), d.key = c.key, d.typed = c.typed,
           Becomes(c, d),
           UNCHANGED <<serverVars, keys, sessionID, messages, errors>>
    PROVE  RInv'
<1>1. ServerType' /\ sessions' = sessions /\ log' = log
  BY DEF RInv, ServerType, serverVars
<1>2. ClientType' /\ Unserved' = Unserved \ {c}
  BY Replaced DEF RInv, Becomes
<1>3. RoomLeft'
  BY <1>1, <1>2, RoomStays DEF RInv
<1>4. \A n : Reached(n) => Reached(n)'
  BY <1>1 DEF Reached
<1>5. \A x \in commands : x.typed => \E y \in commands' : y.key = x.key /\ y.typed
  BY DEF Becomes
<1>6. NoMessageLost'
  BY <1>4, <1>5, LostNone DEF RInv
<1> QED
  BY <1>1, <1>2, <1>3, <1>6 DEF RInv

LEMMA StateChange ==
    ASSUME NEW c, GoodCommand(c), NEW s \in {"done", "failed"},
           s = "done" => c.kind \notin {"create", "send"}
    PROVE  LET d == [c EXCEPT !.state = s] IN
             /\ GoodCommand(d) /\ ~(d.kind = "create" /\ d.state = "sent")
             /\ d.key = c.key /\ d.typed = c.typed
BY DEF GoodCommand, CommandFor

\* The server, and what comes back.

LEMMA ServeInv ==
    ASSUME RInv, NEW c \in commands, Serve(c)
    PROVE  RInv'
<1>1. /\ ServerType /\ ClientType /\ RoomLeft /\ NoMessageLost /\ GoodCommand(c)
      /\ c.state = "sent"
  BY DEF RInv, ClientType, Serve
<1>2. UNCHANGED <<keys, sessionID, messages, errors>>
  BY DEF Serve, uiVars
<1>3. GoodCommand([c EXCEPT !.state = "failed"])
  BY <1>1, StateChange
<1>4. CASE ServeCreate(c)
  <2> DEFINE d == [c EXCEPT !.state = "done", !.session = sessions + 1]
  <2>1. c \in Unserved
    BY <1>1, <1>4 DEF ServeCreate, Unserved
  <2>2. /\ IsFiniteSet(Unserved) /\ Cardinality(Unserved) \in Nat
        /\ Cardinality(Unserved \ {c}) = Cardinality(Unserved) - 1
        /\ Cardinality(Unserved \ {c}) \in Nat
    BY <1>1, <2>1, FewerUnserved, FS_RemoveElement, FS_CardinalityType
  <2>3. sessions \in Nat /\ sessions + 1 \in 0..MaxSessions /\ sessions + 1 # 0
    BY <1>1, <2>2, ReplBoundsAssumption DEF ServerType, RoomLeft
  <2>4. GoodCommand(d) /\ d.kind = "create" /\ d.state = "done"
        /\ d.key = c.key /\ d.typed = c.typed
    BY <1>1, <1>4, <2>3 DEF GoodCommand, CommandFor, ServeCreate
  <2>5. commands' = (commands \ {c}) \union {d}
        /\ sessions' = sessions + 1 /\ UNCHANGED <<log, agent, requests>>
    BY <1>4 DEF ServeCreate, Becomes
  <2> HIDE DEF d
  <2>6. ClientType' /\ Unserved' = Unserved \ {c}
    BY <1>1, <1>2, <2>4, <2>5, Replaced
  <2>7. ServerType' /\ RoomLeft'
    BY <1>1, <2>2, <2>3, <2>5, <2>6, ReplBoundsAssumption DEF ServerType, RoomLeft
  <2>8. \A n : Reached(n) => Reached(n)'
    BY <1>2, <2>5 DEF Reached
  <2>9. NoMessageLost'
    BY <1>1, <1>2, <2>4, <2>5, <2>8, LostNone
  <2> QED
    BY <2>6, <2>7, <2>9 DEF RInv
<1>5. CASE ServeSend(c)
  <2>1. c.session \in SessionNumber /\ c.key \in Nat
    BY <1>1, <1>5 DEF ServeSend, GoodCommand, CommandFor, SessionNumber
  <2>2. Logged(c.session, <<Event("message", c.key, 0, {})>>)
        /\ UNCHANGED <<sessions, requests>>
    BY <1>5 DEF ServeSend
  <2>3. agent' \in [SessionNumber -> AgentState]
    BY ZenonT(30), <1>1, <1>5, <2>1 DEF ServeSend, ServerType, Step, AgentState
  <2>4. /\ ServerType'
        /\ \A j \in SessionNumber : \A i \in DOMAIN log[j] :
             i \in DOMAIN log'[j] /\ log'[j][i] = log[j][i]
        /\ \E i \in DOMAIN log'[c.session] : log'[c.session][i].key = c.key
    <3> DEFINE k == c.session
    <3>1. k \in SessionNumber /\ c.key \in Nat
          /\ Logged(k, <<Event("message", c.key, 0, {})>>)
      BY <2>1, <2>2
    <3> HIDE DEF k
    <3>2. /\ log' \in [SessionNumber -> Seq(LogEvent)]
          /\ \A j \in SessionNumber : \A i \in DOMAIN log[j] :
               i \in DOMAIN log'[j] /\ log'[j][i] = log[j][i]
          /\ \E i \in DOMAIN log'[k] : log'[k][i].key = c.key
      BY <1>1, <3>1, EventLogged DEF EventKind
    <3>3. ServerType'
      BY <1>1, <2>2, <2>3, <3>2 DEF ServerType
    <3> QED
      BY <3>2, <3>3 DEF k
  <2>5. \/ commands' = commands \ {c}
        \/ commands' = (commands \ {c}) \union {[c EXCEPT !.state = "failed"]}
    BY <1>5 DEF ServeSend, Failed, Becomes
  <2>6. ClientType' /\ Unserved' = Unserved \ {c}
    BY <1>1, <1>2, <1>3, <2>5, StateChange, Replaced, Removed
  <2>7. RoomLeft'
    BY <1>1, <2>2, <2>6, RoomStays
  <2>8. \A n : Reached(n) => Reached(n)'
    BY <1>2, <2>4, ReachedStays
  <2>9. Reached(c.key)'
    BY <2>1, <2>4 DEF Reached
  <2>10. NoMessageLost'
    BY <1>1, <1>2, <2>5, <2>8, <2>9, LostNone
  <2> QED
    BY <2>4, <2>6, <2>7, <2>10 DEF RInv
<1>6. CASE ServeSubmit(c)
  <2>1. c.kind = "submit" /\ UNCHANGED <<sessions, log, requests>>
        /\ \E s \in {"done", "failed"} : Becomes(c, [c EXCEPT !.state = s])
        /\ (Resumes(c.session) \/ UNCHANGED agent)
    BY <1>6 DEF ServeSubmit, Answered, Failed
  <2>2. /\ ServerType'
        /\ \A j \in SessionNumber : \A i \in DOMAIN log[j] :
             i \in DOMAIN log'[j] /\ log'[j][i] = log[j][i]
    <3>1. CASE UNCHANGED agent
      BY <1>1, <2>1, <3>1 DEF ServerType
    <3>2. CASE Resumes(c.session) /\ c.session \in SessionNumber
      BY <1>1, <2>1, <3>2, ResumesStep
    <3>3. CASE Resumes(c.session) /\ c.session \notin SessionNumber
      <4>1. UNCHANGED agent
        BY <1>1, <3>3 DEF Resumes, AgentIs, ServerType
      <4> QED
        BY <3>1, <4>1
    <3> QED
      BY <2>1, <3>1, <3>2, <3>3
  <2>3. PICK s \in {"done", "failed"} : Becomes(c, [c EXCEPT !.state = s])
    BY <2>1
  <2> DEFINE d == [c EXCEPT !.state = s]
  <2>4. GoodCommand(d) /\ ~(d.kind = "create" /\ d.state = "sent")
        /\ d.key = c.key /\ d.typed = c.typed
    BY <1>1, <2>1, StateChange
  <2>5. commands' = (commands \ {c}) \union {d}
    BY <2>3 DEF Becomes
  <2> HIDE DEF d
  <2>6. ClientType' /\ Unserved' = Unserved \ {c}
    BY <1>1, <1>2, <2>4, <2>5, Replaced
  <2>7. RoomLeft'
    BY <1>1, <2>1, <2>6, RoomStays
  <2>8. \A n : Reached(n) => Reached(n)'
    BY <1>2, <2>2, ReachedStays
  <2>9. NoMessageLost'
    BY <1>1, <1>2, <2>4, <2>5, <2>8, LostNone
  <2> QED
    BY <2>2, <2>6, <2>7, <2>9 DEF RInv
<1>7. CASE ServeOther(c) \/ ServeFails(c)
  <2>1. \/ Becomes(c, [c EXCEPT !.state = "failed"])
        \/ Becomes(c, [c EXCEPT !.state = "done"]) /\ c.kind \notin {"create", "send"}
    BY <1>7 DEF ServeOther, ServeFails, Answered, Failed
  <2>2. UNCHANGED serverVars
    BY <1>7 DEF ServeOther, ServeFails
  <2> QED
    BY <1>1, <1>2, <2>1, <2>2, StateChange, BecomesInv
<1> QED
  BY <1>4, <1>5, <1>6, <1>7 DEF Serve

-----------------------------------------------------------------------------
\* Update.

LEMMA HandleInv ==
    ASSUME RInv, NEW c \in commands, HandleResult(c)
    PROVE  RInv'
<1>1. /\ ServerType /\ ClientType /\ RoomLeft /\ NoMessageLost /\ GoodCommand(c)
  BY DEF RInv, ClientType
<1>2. UNCHANGED <<serverVars, keys, messages>>
  BY DEF HandleResult, HandleError, SessionCreated, StreamReady, PermissionHandled,
         QueryDone, Handled
<1>3. ServerType' /\ sessions' = sessions /\ log' = log
  BY <1>1, <1>2 DEF ServerType, serverVars
<1>4. ASSUME commands' = commands \ {c}, sessionID' = sessionID,
             errors \subseteq errors', c.typed => c.key \in errors'
      PROVE  RInv'
  <2>1. ClientType' /\ Unserved' = Unserved \ {c}
    BY <1>1, <1>2, <1>4, Removed
  <2>2. RoomLeft'
    BY <1>1, <1>3, <2>1, RoomStays
  <2>3. \A n : Reached(n) => Reached(n)'
    BY <1>3, <1>4 DEF Reached
  <2>4. c.typed => Reached(c.key)'
    BY <1>4 DEF Reached
  <2>5. NoMessageLost'
    BY <1>1, <1>2, <1>4, <2>3, <2>4, LostNone
  <2> QED
    BY <1>3, <2>1, <2>2, <2>5 DEF RInv
<1>5. CASE HandleError(c)
  BY <1>4, <1>5 DEF HandleError
<1>6. CASE StreamReady(c) \/ PermissionHandled(c) \/ QueryDone(c)
  <2>1. commands' = commands \ {c} /\ sessionID' = sessionID /\ errors' = errors
        /\ ~c.typed
    BY <1>1, <1>6 DEF StreamReady, PermissionHandled, QueryDone, Handled, GoodCommand
  <2> QED
    BY <1>4, <2>1
<1>7. CASE SessionCreated(c)
  <2> DEFINE stream == Command("stream", c.session, c.key, FALSE, 0)
             send == Command("send", c.session, c.key, TRUE, 0)
  <2>1. c.kind = "create" /\ c.state = "done" /\ c.session # 0
        /\ c.session \in 0..MaxSessions /\ c.key \in Nat /\ c.typed \in BOOLEAN
    BY <1>1, <1>7 DEF SessionCreated, GoodCommand, CommandFor
  <2>2. /\ GoodCommand(stream) /\ stream.kind = "stream"
        /\ GoodCommand(send) /\ send.kind = "send" /\ send.key = c.key /\ send.typed
    BY <2>1 DEF Command, GoodCommand, CommandFor
  <2>3. /\ sessionID' = c.session /\ errors' = errors
        /\ commands' = (commands \ {c}) \union {stream}
                         \union {send : typed \in {TRUE} \intersect {c.typed}}
    BY <1>7 DEF SessionCreated
  <2> HIDE DEF stream, send
  <2>4. /\ \A x \in commands' : x \in commands \ {c} \/ x = stream \/ x = send
        /\ \A x \in commands : x # c => x \in commands'
        /\ c.typed => send \in commands'
    BY <2>1, <2>3
  <2>5. IsFiniteSet((commands \ {c}) \union {stream, send})
    <3>1. IsFiniteSet(commands \ {c})
      BY <1>1, FS_RemoveElement DEF ClientType
    <3>2. IsFiniteSet(((commands \ {c}) \union {stream}) \union {send})
      BY <3>1, FS_AddElement
    <3>3. ((commands \ {c}) \union {stream}) \union {send}
            = (commands \ {c}) \union {stream, send}
      OBVIOUS
    <3> QED
      BY <3>2, <3>3
  <2>6. IsFiniteSet(commands')
    <3>1. commands' \in SUBSET ((commands \ {c}) \union {stream, send})
      BY <2>4
    <3> QED
      BY <2>5, <3>1, FS_Subset
  <2>7. ClientType'
    BY <1>1, <1>2, <2>1, <2>2, <2>3, <2>4, <2>6 DEF ClientType
  <2>8. Unserved' = Unserved \ {c}
    <3>1. \A x \in Unserved' : x \in Unserved \ {c}
      BY <2>2, <2>4 DEF Unserved
    <3>2. \A x \in Unserved \ {c} : x \in Unserved'
      BY <2>4 DEF Unserved
    <3> QED
      BY <3>1, <3>2
  <2>9. RoomLeft'
    BY <1>1, <1>3, <2>8, RoomStays
  <2>10. \A n : Reached(n) => Reached(n)'
    BY <1>3, <2>3 DEF Reached
  <2>11. \A x \in commands : x.typed => \E d \in commands' : d.key = x.key /\ d.typed
    BY <2>2, <2>4
  <2>12. NoMessageLost'
    BY <1>1, <1>2, <2>10, <2>11, LostNone
  <2> QED
    BY <1>3, <2>7, <2>9, <2>12 DEF RInv
<1> QED
  BY <1>5, <1>6, <1>7 DEF HandleResult

\* The steps that only move events.
LEMMA EventsInv ==
    ASSUME RInv, UNCHANGED <<serverVars, commands, keys, sessionID, messages, errors>>
    PROVE  RInv'
<1>1. ServerType' /\ ClientType' /\ RoomLeft' /\ NoMessageLost'
  BY DEF RInv, ServerType, ClientType, RoomLeft, Unserved, NoMessageLost, serverVars
<1> QED
  BY <1>1 DEF RInv

LEMMA NextRInv == RInv /\ [Next]_vars => RInv'
<1> SUFFICES ASSUME RInv, [Next]_vars
             PROVE  RInv'
  OBVIOUS
<1>1. CASE Keys
  BY <1>1, KeysInv
<1>2. ASSUME NEW c \in commands, HandleResult(c) \/ Serve(c)
      PROVE  RInv'
  BY <1>2, HandleInv, ServeInv
<1>3. ASSUME NEW k \in SessionNumber, RunStep(k)
      PROVE  RInv'
  BY <1>3, AgentInv
<1>4. ASSUME NEW k, NEW i, HandleEvent(k, i)
      PROVE  RInv'
  BY <1>4, EventsInv DEF HandleEvent, ShowEvent
<1>5. ASSUME NEW k \in SessionNumber, Take(k) \/ Break(k)
      PROVE  RInv'
  BY <1>5, EventsInv DEF Take, Break, uiVars
<1>6. CASE UNCHANGED vars
  BY <1>6, EventsInv DEF vars, uiVars
<1> QED
  BY <1>1, <1>2, <1>3, <1>4, <1>5, <1>6 DEF Next, Update, Goroutines, Agents, RunStep

LEMMA InitRInv == Init => RInv
<1> SUFFICES ASSUME Init PROVE RInv
  OBVIOUS
<1>1. ServerType
  BY DEF Init, ServerType, Step, AgentState
<1>2. ClientType
  BY FS_EmptySet, ReplBoundsAssumption DEF Init, ClientType
<1>3. RoomLeft
  <2>1. Unserved = {} /\ sessions = 0
    BY DEF Init, Unserved
  <2> QED
    BY <2>1, FS_EmptySet, ReplBoundsAssumption DEF RoomLeft
<1>4. NoMessageLost
  BY DEF Init, NoMessageLost
<1> QED
  BY <1>1, <1>2, <1>3, <1>4 DEF RInv

\* Whatever the user types, however the sessions work and whichever requests
\* fail, a message is on its way, in a log, or reported as an error.
THEOREM MessagesKept == Spec => []NoMessageLost
<1>1. RInv => NoMessageLost
  BY DEF RInv
<1> QED
  BY <1>1, InitRInv, NextRInv, PTL DEF Spec

-----------------------------------------------------------------------------
\* The goroutines of the streams: each waits on a channel, or holds an event.
Streaming ==
    {g \in {"held", "waits"} \X SessionNumber \X Nat :
        IF g[1] = "held" THEN <<g[2], g[3]>> \in held ELSE g[3] \in 1..waiters[g[2]]}

At(k) == {g \in Streaming : g[2] = k}

\* The commands that will start a stream.
Starting ==
    {c \in commands : \/ c.kind = "create" /\ c.state = "done"
                      \/ c.kind = "stream" /\ c.state # "failed"}

GoroutineType ==
    /\ waiters \in [SessionNumber -> Nat]
    /\ taken \in [SessionNumber -> Nat]
    /\ shown \in [SessionNumber -> Nat]
    /\ stale \in [SessionNumber -> Nat]
    /\ held \in SUBSET (SessionNumber \X Nat)
    /\ eventCh \in 0..MaxSessions
    /\ IsFiniteSet(Streaming)

\* Nothing has come from the stream yet.
Fresh(k) == k # eventCh /\ stale[k] = 0 /\ At(k) = {}

StartsOnce ==
    /\ \A k \in SessionNumber : k > sessions => Fresh(k)
    /\ \A c \in Starting : c.session \in 1..sessions /\ Fresh(c.session)
    /\ \A c, d \in Starting : c.session = d.session => c = d

\* Every goroutine, there or to come, is one of a session.
Counted == Cardinality(Streaming) + Cardinality(Starting) <= sessions

\* Those that are still at a channel will show an event of it each.
TurnedAway ==
    \A k \in SessionNumber :
        IF k = eventCh THEN stale[k] = 0
        ELSE LET most == stale[k] + Cardinality(At(k)) IN most > 0 => most < sessions

EInv == GoroutineType /\ StartsOnce /\ Counted /\ TurnedAway

\* While there is one session, there is one goroutine.
OneByOne ==
    sessions <= 1 =>
      \A k \in SessionNumber :
        /\ taken[k] = shown[k] \/ \E i \in Nat : <<k, i>> \in held
        /\ \A i \in Nat : <<k, i>> \in held => i = taken[k] /\ i = shown[k] + 1

\* Of a finite set, one element is exchanged for another, and some are dropped.
LEMMA Exchanged ==
    ASSUME NEW S, IsFiniteSet(S), NEW x \in S, NEW y, NEW T, T \subseteq (S \ {x}) \union {y}
    PROVE  IsFiniteSet(T) /\ Cardinality(T) \in Nat /\ Cardinality(T) <= Cardinality(S)
<1> DEFINE rest == S \ {x}
<1>1. IsFiniteSet(rest) /\ Cardinality(rest) = Cardinality(S) - 1 /\ Cardinality(S) \in Nat
  BY FS_RemoveElement, FS_CardinalityType
<1>2. T \subseteq rest \union {y}
  OBVIOUS
<1> HIDE DEF rest
<1>3. /\ IsFiniteSet(rest \union {y})
      /\ Cardinality(rest \union {y}) \in {Cardinality(rest), Cardinality(rest) + 1}
  BY <1>1, FS_AddElement
<1>4. IsFiniteSet(T) /\ Cardinality(T) <= Cardinality(rest \union {y})
  BY <1>2, <1>3, FS_Subset
<1>5. Cardinality(T) \in Nat
  BY <1>4, FS_CardinalityType
<1> QED
  BY <1>1, <1>3, <1>4, <1>5

\* The step of a goroutine: it is another one afterwards, or none.
LEMMA GoroutineMoves ==
    ASSUME GoroutineType, NEW x \in Streaming, NEW y,
           Streaming' \subseteq (Streaming \ {x}) \union {y}
    PROVE  /\ IsFiniteSet(Streaming')
           /\ Cardinality(Streaming') \in Nat
           /\ Cardinality(Streaming') <= Cardinality(Streaming)
           /\ \A k : y[2] # k =>
                /\ At(k)' \subseteq At(k)
                /\ Cardinality(At(k)') \in Nat
                /\ Cardinality(At(k)')
                     <= IF x[2] = k THEN Cardinality(At(k)) - 1 ELSE Cardinality(At(k))
<1>1. IsFiniteSet(Streaming)
  BY DEF GoroutineType
<1>3. /\ IsFiniteSet(Streaming') /\ Cardinality(Streaming') \in Nat
      /\ Cardinality(Streaming') <= Cardinality(Streaming)
  BY <1>1, Exchanged
<1>4. ASSUME NEW k, y[2] # k
      PROVE  /\ At(k)' \subseteq At(k)
             /\ Cardinality(At(k)') \in Nat
             /\ Cardinality(At(k)')
                  <= IF x[2] = k THEN Cardinality(At(k)) - 1 ELSE Cardinality(At(k))
  <2>1. At(k)' \subseteq At(k) /\ (x[2] = k => At(k)' \subseteq At(k) \ {x} /\ x \in At(k))
    BY <1>4 DEF At
  <2>2. IsFiniteSet(At(k)) /\ Cardinality(At(k)) \in Nat
    BY <1>1, FS_Subset, FS_CardinalityType DEF At
  <2>3. IsFiniteSet(At(k)') /\ Cardinality(At(k)') \in Nat
        /\ Cardinality(At(k)') <= Cardinality(At(k))
    BY <2>1, <2>2, FS_Subset, FS_CardinalityType
  <2>4. CASE x[2] = k
    <3>1. IsFiniteSet(At(k) \ {x}) /\ Cardinality(At(k) \ {x}) = Cardinality(At(k)) - 1
      BY <2>1, <2>2, <2>4, FS_RemoveElement
    <3>2. Cardinality(At(k)') <= Cardinality(At(k) \ {x})
      BY <2>1, <2>4, <3>1, FS_Subset
    <3> QED
      BY <2>1, <2>3, <2>4, <3>1, <3>2
  <2> QED
    BY <2>1, <2>3, <2>4
<1> QED
  BY <1>3, <1>4

\* What waiting on a channel adds.
LEMMA OneMoreWaits ==
    ASSUME GoroutineType, NEW channel \in 0..MaxSessions, Wait(channel)
    PROVE  /\ waiters' \in [SessionNumber -> Nat]
           /\ \A k \in SessionNumber : \A n \in Nat :
                n \in 1..waiters'[k] =>
                  n \in 1..waiters[k] \/ (k = channel /\ n = waiters[channel] + 1)
<1>1. CASE waiters' = waiters
  BY <1>1 DEF GoroutineType
<1>2. CASE waiters' # waiters
  <2>1. channel \in SessionNumber /\ waiters' = [waiters EXCEPT ![channel] = @ + 1]
    BY <1>2 DEF Wait, GoroutineType
  <2>2. \A k \in SessionNumber : waiters[k] \in Nat
    BY DEF GoroutineType
  <2>3. waiters' \in [SessionNumber -> Nat]
        /\ \A k \in SessionNumber :
             waiters'[k] = IF k = channel THEN waiters[k] + 1 ELSE waiters[k]
    BY <2>1 DEF GoroutineType
  <2> QED
    BY <2>1, <2>2, <2>3
<1> QED
  BY <1>1, <1>2

LEMMA FewStarting ==
    ASSUME ClientType
    PROVE  IsFiniteSet(Starting) /\ Cardinality(Starting) \in Nat
BY FS_Subset, FS_CardinalityType DEF ClientType, Starting

\* Commands come and go, and none starts a stream that another did not.
LEMMA StartingStays ==
    ASSUME ClientType, sessions \in Nat, EInv,
           UNCHANGED <<waiters, held, taken, shown, stale, eventCh, sessions>>,
           \/ Starting' \subseteq Starting
           \/ \E c \in Starting : \E d :
                /\ d.session = c.session
                /\ Starting' \subseteq (Starting \ {c}) \union {d}
    PROVE  EInv'
<1>1. UNCHANGED <<waiters, held, taken, shown, stale, eventCh, sessions>>
  OBVIOUS
<1>2. Streaming' = Streaming /\ \A k : At(k)' = At(k)
  BY <1>1 DEF Streaming, At
<1>3. GoroutineType' /\ TurnedAway' /\ \A k : Fresh(k)' <=> Fresh(k)
  BY <1>1, <1>2 DEF EInv, GoroutineType, TurnedAway, Fresh
<1>4. Cardinality(Starting') \in Nat /\ Cardinality(Starting') <= Cardinality(Starting)
      /\ Cardinality(Starting) \in Nat
  <2>1. IsFiniteSet(Starting) /\ Cardinality(Starting) \in Nat
    BY FewStarting
  <2> QED
    BY <2>1, Exchanged, FS_Subset, FS_CardinalityType
<1>5. Cardinality(Streaming) \in Nat
  BY FS_CardinalityType DEF EInv, GoroutineType
<1>6. Counted'
  BY <1>1, <1>2, <1>4, <1>5 DEF EInv, Counted
<1>7. StartsOnce'
  <2>1. CASE Starting' \subseteq Starting
    BY <1>1, <1>3, <2>1 DEF EInv, StartsOnce
  <2>2. CASE ~(Starting' \subseteq Starting)
    <3>1. PICK c \in Starting : \E d :
            d.session = c.session /\ Starting' \subseteq (Starting \ {c}) \union {d}
      BY <2>2
    <3>2. PICK d : d.session = c.session /\ Starting' \subseteq (Starting \ {c}) \union {d}
      BY <3>1
    <3> QED
      BY <1>1, <1>3, <3>1, <3>2 DEF EInv, StartsOnce
  <2> QED
    BY <2>1, <2>2
<1> QED
  BY <1>3, <1>6, <1>7 DEF EInv

\* A session is created: its stream is yet to start.
LEMMA CreateEInv ==
    ASSUME RInv, EInv, NEW c \in commands, c.state = "sent", ServeCreate(c),
           UNCHANGED uiVars
    PROVE  EInv'
<1> DEFINE d == [c EXCEPT !.state = "done", !.session = sessions + 1]
<1>1. /\ UNCHANGED <<waiters, held, taken, shown, stale, eventCh>>
      /\ sessions' = sessions + 1
      /\ commands' = (commands \ {c}) \union {d} /\ c.kind = "create"
  BY DEF ServeCreate, Becomes, eventVars, uiVars
<1>2. d.session = sessions + 1
  BY DEF RInv, ClientType, GoodCommand, CommandFor
<1> HIDE DEF d
<1>3. Starting' \subseteq Starting \union {d}
  BY <1>1 DEF Starting
<1>4. Streaming' = Streaming /\ \A k : At(k)' = At(k)
  BY <1>1 DEF Streaming, At
<1>5. sessions \in Nat /\ sessions + 1 \in SessionNumber
  <2>1. c \in Unserved /\ IsFiniteSet(Unserved)
    BY <1>1, FewerUnserved DEF Unserved, RInv
  <2>2. Cardinality(Unserved) \in Nat /\ Cardinality(Unserved) # 0
    BY <2>1, FS_EmptySet, FS_CardinalityType
  <2> QED
    BY <2>2, ReplBoundsAssumption DEF RInv, RoomLeft, ServerType, SessionNumber
<1>6. GoroutineType' /\ \A k : Fresh(k)' <=> Fresh(k)
  BY <1>1, <1>4 DEF EInv, GoroutineType, Fresh
<1>7. Counted'
  <2>1. IsFiniteSet(Starting) /\ Cardinality(Starting) \in Nat
        /\ Cardinality(Streaming) \in Nat
    BY FewStarting, FS_CardinalityType DEF RInv, EInv, GoroutineType
  <2>2. IsFiniteSet(Starting \union {d})
        /\ Cardinality(Starting \union {d}) \in {Cardinality(Starting), Cardinality(Starting) + 1}
    BY <2>1, FS_AddElement
  <2>3. Cardinality(Starting') \in Nat /\ Cardinality(Starting') <= Cardinality(Starting) + 1
    BY <1>3, <2>1, <2>2, FS_Subset, FS_CardinalityType
  <2> QED
    BY <1>1, <1>4, <1>5, <2>1, <2>3 DEF EInv, Counted
<1>8. StartsOnce'
  <2>1. PICK n \in SessionNumber : n = sessions + 1
    BY <1>5
  <2>2. \A k \in SessionNumber : k > sessions => Fresh(k)'
    BY <1>6 DEF EInv, StartsOnce
  <2>3. n > sessions /\ n \in 1..n /\ sessions' = n /\ d.session = n
        /\ \A k \in SessionNumber : k > n => k > sessions
    BY <1>1, <1>2, <1>5, <2>1 DEF SessionNumber
  <2>4. \A x \in Starting : x.session \in 1..n /\ x.session # n /\ Fresh(x.session)'
    BY <1>5, <1>6, <2>1 DEF EInv, StartsOnce
  <2>5. \A x, y \in Starting' : x.session = y.session => x = y
    BY <1>3, <2>3, <2>4 DEF EInv, StartsOnce
  <2>6. \A x \in Starting' : x.session \in 1..n /\ Fresh(x.session)'
    BY <1>3, <2>1, <2>2, <2>3, <2>4
  <2> QED
    BY <2>2, <2>3, <2>5, <2>6 DEF StartsOnce
<1>9. TurnedAway'
  <2> SUFFICES ASSUME NEW k \in SessionNumber
               PROVE  IF k = eventCh' THEN stale'[k] = 0
                      ELSE LET most == stale'[k] + Cardinality(At(k)') IN most > 0 => most < sessions'
    BY DEF TurnedAway
  <2>1. IsFiniteSet(At(k)) /\ Cardinality(At(k)) \in Nat /\ stale[k] \in Nat
    BY FS_Subset, FS_CardinalityType DEF EInv, GoroutineType, At
  <2> QED
    BY <1>1, <1>4, <1>5, <2>1 DEF EInv, TurnedAway
<1> QED
  BY <1>6, <1>7, <1>8, <1>9 DEF EInv

\* A stream is ready: the client turns to it, and away from another.
LEMMA ReadyEInv ==
    ASSUME RInv, EInv, NEW c \in commands, StreamReady(c)
    PROVE  EInv'
<1> DEFINE k == c.session
<1>1. /\ UNCHANGED <<held, taken, shown, stale, sessions>>
      /\ eventCh' = k /\ Wait(k) /\ commands' = commands \ {c}
      /\ c \in Starting
  BY DEF StreamReady, Handled, serverVars, Starting
<1>2. sessions \in Nat /\ k \in 1..sessions /\ Fresh(k) /\ k \in 0..MaxSessions
      /\ k \in SessionNumber
  <2>1. k \in 0..MaxSessions
    BY DEF RInv, ClientType, GoodCommand, CommandFor
  <2> QED
    BY <1>1, <2>1, ReplBoundsAssumption DEF EInv, StartsOnce, RInv, ServerType, SessionNumber
<1> HIDE DEF k
<1> DEFINE y == <<"waits", k, waiters[k] + 1>>
<1>3. waiters' \in [SessionNumber -> Nat] /\ Streaming' \subseteq Streaming \union {y}
  <2>1. /\ waiters' \in [SessionNumber -> Nat]
        /\ \A j \in SessionNumber : \A n \in Nat :
             n \in 1..waiters'[j] => n \in 1..waiters[j] \/ (j = k /\ n = waiters[k] + 1)
    BY <1>1, <1>2, OneMoreWaits DEF EInv
  <2> SUFFICES ASSUME NEW g \in Streaming'
               PROVE  g \in Streaming \union {y}
    BY <2>1
  <2>2. PICK w \in {"held", "waits"}, j \in SessionNumber, n \in Nat : g = <<w, j, n>>
    BY DEF Streaming
  <2>3. IF w = "held" THEN <<j, n>> \in held ELSE n \in 1..waiters'[j]
    BY <1>1, <2>2 DEF Streaming
  <2>4. w = "waits" /\ j = k /\ n = waiters[k] + 1 => g = y
    BY <2>2
  <2> QED
    BY <2>1, <2>2, <2>3, <2>4 DEF Streaming
<1>4. y[2] = k
  OBVIOUS
<1> HIDE DEF y
<1>5. \A j : j # k => At(j)' \subseteq At(j)
  BY <1>3, <1>4 DEF At
<1>6. IsFiniteSet(Streaming) /\ Cardinality(Streaming) \in Nat
      /\ IsFiniteSet(Starting) /\ Cardinality(Starting) \in Nat
  BY FewStarting, FS_CardinalityType DEF RInv, EInv, GoroutineType
<1>7. IsFiniteSet(Streaming') /\ Cardinality(Streaming') \in Nat
      /\ Cardinality(Streaming') <= Cardinality(Streaming) + 1
  <2>1. IsFiniteSet(Streaming \union {y})
        /\ Cardinality(Streaming \union {y}) \in {Cardinality(Streaming), Cardinality(Streaming) + 1}
    BY <1>6, FS_AddElement
  <2> QED
    BY <1>3, <1>6, <2>1, FS_Subset, FS_CardinalityType
<1>8. Starting' = Starting \ {c}
  BY <1>1 DEF Starting
<1>9. Cardinality(Starting') = Cardinality(Starting) - 1 /\ Cardinality(Starting') \in Nat
  BY <1>1, <1>6, <1>8, FS_RemoveElement, FS_CardinalityType
<1>10. GoroutineType'
  BY <1>1, <1>2, <1>3, <1>7 DEF EInv, GoroutineType
<1>11. Counted'
  BY <1>1, <1>2, <1>6, <1>7, <1>9 DEF EInv, Counted
<1>12. \A j : j # k /\ Fresh(j) => Fresh(j)'
  BY <1>1, <1>5 DEF Fresh
<1>13. StartsOnce'
  <2>1. \A x \in Starting' : x \in Starting /\ x.session # k
    BY <1>1, <1>8 DEF EInv, StartsOnce, k
  <2> QED
    BY <1>1, <1>2, <1>8, <1>12, <2>1 DEF EInv, StartsOnce
<1>14. ASSUME NEW j \in SessionNumber
       PROVE  IF j = eventCh' THEN stale'[j] = 0
              ELSE LET most == stale'[j] + Cardinality(At(j)') IN most > 0 => most < sessions'
  <2>1. CASE j = k
    BY <1>1, <1>2, <2>1 DEF Fresh
  <2>2. CASE j # k
    <3>1. IsFiniteSet(At(j)) /\ Cardinality(At(j)) \in Nat /\ stale[j] \in Nat
          /\ Cardinality(At(j)) <= Cardinality(Streaming)
      BY <1>6, FS_Subset, FS_CardinalityType DEF EInv, GoroutineType, At
    <3>2. Cardinality(At(j)') \in Nat /\ Cardinality(At(j)') <= Cardinality(At(j))
      BY <1>5, <2>2, <3>1, FS_Subset, FS_CardinalityType
    <3>3. CASE j # eventCh
      BY <1>1, <1>2, <2>2, <3>1, <3>2, <3>3 DEF EInv, TurnedAway
    <3>4. CASE j = eventCh
      <4>1. stale[j] = 0
        BY <3>4 DEF EInv, TurnedAway
      <4>2. Cardinality(Streaming) < sessions
        BY <1>2, <1>6, <1>9 DEF EInv, Counted
      <4> QED
        BY <1>1, <1>2, <1>6, <2>2, <3>1, <3>2, <4>1, <4>2
    <3> QED
      BY <3>3, <3>4
  <2> QED
    BY <2>1, <2>2
<1> QED
  BY <1>10, <1>11, <1>13, <1>14 DEF EInv, TurnedAway

\* No stream starts, and there are no more goroutines than before.
LEMMA QuietEInv ==
    ASSUME RInv, EInv, GoroutineType', UNCHANGED <<commands, sessions, eventCh>>,
           Cardinality(Streaming') <= Cardinality(Streaming),
           \A k \in SessionNumber : Fresh(k) => Fresh(k)',
           \A k \in SessionNumber :
             IF k = eventCh THEN stale'[k] = stale[k]
             ELSE stale'[k] + Cardinality(At(k)') <= stale[k] + Cardinality(At(k))
    PROVE  EInv'
<1>1. Starting' = Starting /\ sessions \in Nat
  BY DEF Starting, RInv, ServerType
<1>2. StartsOnce'
  <2>1. 1..sessions \subseteq SessionNumber
    <3>1. Cardinality(Unserved) \in Nat
      BY FewerUnserved DEF RInv
    <3> QED
      BY <1>1, <3>1, ReplBoundsAssumption DEF RInv, RoomLeft, SessionNumber
  <2> QED
    BY <1>1, <2>1 DEF EInv, StartsOnce
<1>3. Counted'
  <2>1. Cardinality(Streaming) \in Nat /\ Cardinality(Streaming') \in Nat
        /\ Cardinality(Starting) \in Nat
    BY FewStarting, FS_CardinalityType DEF EInv, GoroutineType, RInv
  <2> QED
    BY <1>1, <2>1 DEF EInv, Counted
<1>4. ASSUME NEW k \in SessionNumber
      PROVE  IF k = eventCh' THEN stale'[k] = 0
             ELSE LET most == stale'[k] + Cardinality(At(k)') IN most > 0 => most < sessions'
  <2>1. IsFiniteSet(At(k)) /\ Cardinality(At(k)) \in Nat /\ stale[k] \in Nat
    BY FS_Subset, FS_CardinalityType DEF EInv, GoroutineType, At
  <2>2. IsFiniteSet(At(k)') /\ Cardinality(At(k)') \in Nat /\ stale'[k] \in Nat
    BY FS_Subset, FS_CardinalityType DEF GoroutineType, At
  <2> QED
    BY <1>1, <2>1, <2>2 DEF EInv, TurnedAway
<1> QED
  BY <1>2, <1>3, <1>4 DEF EInv, TurnedAway

\* A goroutine takes an event, or has one shown and waits again.
LEMMA MoveEInv ==
    ASSUME RInv, EInv, UNCHANGED <<commands, sessions, eventCh>>,
           /\ waiters' \in [SessionNumber -> Nat]
           /\ taken' \in [SessionNumber -> Nat]
           /\ shown' \in [SessionNumber -> Nat]
           /\ stale' \in [SessionNumber -> Nat]
           /\ held' \in SUBSET (SessionNumber \X Nat),
           NEW x \in Streaming, NEW y, y[2] \in {x[2], eventCh},
           Streaming' \subseteq (Streaming \ {x}) \union {y},
           \A k \in SessionNumber :
             stale'[k] = IF k = x[2] /\ x[2] # y[2] THEN stale[k] + 1 ELSE stale[k]
    PROVE  EInv'
<1>0. GoroutineType
  BY DEF EInv
<1>1. /\ IsFiniteSet(Streaming')
      /\ Cardinality(Streaming') <= Cardinality(Streaming)
      /\ \A k : y[2] # k =>
           /\ At(k)' \subseteq At(k)
           /\ Cardinality(At(k)') \in Nat
           /\ Cardinality(At(k)')
                <= IF x[2] = k THEN Cardinality(At(k)) - 1 ELSE Cardinality(At(k))
  BY <1>0, GoroutineMoves
<1>2. GoroutineType'
  BY <1>0, <1>1 DEF GoroutineType
<1>3. x \in At(x[2]) /\ x[2] \in SessionNumber
  BY DEF At, Streaming
<1>4. \A k : IsFiniteSet(At(k)) /\ Cardinality(At(k)) \in Nat
  BY <1>0, FS_Subset, FS_CardinalityType DEF GoroutineType, At
<1>5. ASSUME NEW k \in SessionNumber, Fresh(k)
      PROVE  Fresh(k)'
  <2>1. k # x[2] /\ k # y[2] /\ k # eventCh' /\ At(k) = {}
    BY <1>3, <1>5 DEF Fresh
  <2>2. At(k)' = {}
    BY <1>1, <2>1
  <2>3. stale'[k] = 0
    BY <1>5, <2>1 DEF Fresh
  <2> QED
    BY <2>1, <2>2, <2>3 DEF Fresh
<1>6. ASSUME NEW k \in SessionNumber
      PROVE  IF k = eventCh THEN stale'[k] = stale[k]
             ELSE stale'[k] + Cardinality(At(k)') <= stale[k] + Cardinality(At(k))
  <2>1. stale[k] \in Nat /\ Cardinality(At(k)) \in Nat
    BY <1>0, <1>4 DEF GoroutineType
  <2>2. CASE y[2] # k
    BY <1>1, <2>1, <2>2
  <2>3. CASE y[2] = k /\ k # eventCh
    <3>1. x[2] = k /\ stale'[k] = stale[k]
      BY <2>3
    <3>2. At(k)' \subseteq (At(k) \ {x}) \union {y} /\ x \in At(k) /\ IsFiniteSet(At(k))
      BY <1>3, <1>4, <3>1 DEF At
    <3>3. Cardinality(At(k)') \in Nat /\ Cardinality(At(k)') <= Cardinality(At(k))
      BY SMTT(30), <3>2, Exchanged
    <3> QED
      BY <2>1, <2>3, <3>1, <3>3
  <2>4. CASE y[2] = k /\ k = eventCh
    BY <2>4
  <2> QED
    BY <2>2, <2>3, <2>4
<1> QED
  BY <1>1, <1>2, <1>5, <1>6, QuietEInv

LEMMA TakeEInv ==
    ASSUME RInv, EInv, NEW k \in SessionNumber, Take(k)
    PROVE  EInv'
<1> DEFINE x == <<"waits", k, waiters[k]>>
           y == <<"held", k, taken[k] + 1>>
<1>1. /\ waiters[k] \in Nat /\ waiters[k] > 0 /\ taken[k] \in Nat
      /\ taken' = [taken EXCEPT ![k] = @ + 1]
      /\ waiters' = [waiters EXCEPT ![k] = @ - 1]
      /\ held' = held \union {<<k, taken[k] + 1>>}
      /\ UNCHANGED <<commands, sessions, eventCh, shown, stale>>
  BY DEF Take, EInv, GoroutineType, serverVars, uiVars
<1>2. /\ waiters' \in [SessionNumber -> Nat]
      /\ taken' \in [SessionNumber -> Nat]
      /\ shown' \in [SessionNumber -> Nat]
      /\ stale' \in [SessionNumber -> Nat]
      /\ held' \in SUBSET (SessionNumber \X Nat)
  BY <1>1 DEF EInv, GoroutineType
<1>3. x \in Streaming /\ y[2] \in {x[2], eventCh} /\ x[2] = y[2]
  BY <1>1 DEF Streaming
<1>4. Streaming' \subseteq (Streaming \ {x}) \union {y}
  <2> SUFFICES ASSUME NEW g \in Streaming'
               PROVE  g \in (Streaming \ {x}) \union {y}
    OBVIOUS
  <2>1. PICK w \in {"held", "waits"}, j \in SessionNumber, n \in Nat : g = <<w, j, n>>
    BY DEF Streaming
  <2>2. IF w = "held" THEN <<j, n>> \in held' ELSE n \in 1..waiters'[j]
    BY <2>1 DEF Streaming
  <2>3. CASE w = "held"
    BY <1>1, <2>1, <2>2, <2>3 DEF Streaming
  <2>4. CASE w = "waits"
    <3>1. \A i \in SessionNumber :
            waiters[i] \in Nat /\ waiters'[i] = IF i = k THEN waiters[i] - 1 ELSE waiters[i]
      BY <1>1 DEF EInv, GoroutineType
    <3>2. n \in 1..waiters[j] /\ (j = k => n # waiters[k])
      BY <2>2, <2>4, <3>1
    <3> QED
      BY <2>1, <2>4, <3>2 DEF Streaming
  <2> QED
    BY <2>1, <2>3, <2>4
<1>5. \A i \in SessionNumber : stale'[i] = stale[i]
  BY <1>1
<1> HIDE DEF x, y
<1> QED
  BY <1>1, <1>2, <1>3, <1>4, <1>5, MoveEInv

LEMMA HandleEInv ==
    ASSUME RInv, EInv, NEW k, NEW i, HandleEvent(k, i)
    PROVE  EInv'
<1> DEFINE x == <<"held", k, i>>
           y == <<"waits", eventCh, waiters[eventCh] + 1>>
<1>1. /\ <<k, i>> \in held /\ held' = held \ {<<k, i>>}
      /\ shown' = [shown EXCEPT ![k] = @ + 1]
      /\ stale' = [stale EXCEPT ![k] = IF k = eventCh THEN @ ELSE @ + 1]
      /\ Wait(eventCh)
      /\ UNCHANGED <<commands, sessions, eventCh, taken>>
  BY DEF HandleEvent, ShowEvent, serverVars
<1>2. k \in SessionNumber /\ i \in Nat /\ eventCh \in 0..MaxSessions /\ GoroutineType
  BY <1>1 DEF EInv, GoroutineType
<1>3. /\ waiters' \in [SessionNumber -> Nat]
      /\ \A j \in SessionNumber : \A n \in Nat :
           n \in 1..waiters'[j] =>
             n \in 1..waiters[j] \/ (j = eventCh /\ n = waiters[eventCh] + 1)
  BY <1>1, <1>2, OneMoreWaits
<1>4. /\ waiters' \in [SessionNumber -> Nat]
      /\ taken' \in [SessionNumber -> Nat]
      /\ shown' \in [SessionNumber -> Nat]
      /\ stale' \in [SessionNumber -> Nat]
      /\ held' \in SUBSET (SessionNumber \X Nat)
  BY <1>1, <1>2, <1>3 DEF GoroutineType
<1>5. x \in Streaming /\ x[2] = k /\ y[2] = eventCh
  BY <1>1, <1>2 DEF Streaming
<1>6. Streaming' \subseteq (Streaming \ {x}) \union {y}
  <2> SUFFICES ASSUME NEW g \in Streaming'
               PROVE  g \in (Streaming \ {x}) \union {y}
    OBVIOUS
  <2>1. PICK w \in {"held", "waits"}, j \in SessionNumber, n \in Nat : g = <<w, j, n>>
    BY DEF Streaming
  <2>2. IF w = "held" THEN <<j, n>> \in held' ELSE n \in 1..waiters'[j]
    BY <2>1 DEF Streaming
  <2>3. CASE w = "held"
    BY <1>1, <2>1, <2>2, <2>3 DEF Streaming
  <2>4. CASE w = "waits"
    <3>1. n \in 1..waiters[j] \/ g = y
      BY <1>3, <2>1, <2>2, <2>4
    <3> QED
      BY <2>1, <2>4, <3>1 DEF Streaming
  <2> QED
    BY <2>1, <2>3, <2>4
<1>7. \A j \in SessionNumber :
        stale'[j] = IF j = k /\ k # eventCh THEN stale[j] + 1 ELSE stale[j]
  BY <1>1, <1>2 DEF GoroutineType
<1> HIDE DEF x, y
<1>8. y[2] \in {x[2], eventCh} /\ \A j \in SessionNumber :
        stale'[j] = IF j = x[2] /\ x[2] # y[2] THEN stale[j] + 1 ELSE stale[j]
  BY <1>5, <1>7
<1> QED
  BY <1>1, <1>4, <1>5, <1>6, <1>8, MoveEInv

LEMMA BreakEInv ==
    ASSUME RInv, EInv, NEW k \in SessionNumber, Break(k)
    PROVE  EInv'
<1>1. /\ waiters' = [waiters EXCEPT ![k] = 0]
      /\ UNCHANGED <<commands, sessions, eventCh, held, taken, shown, stale>>
  BY DEF Break, serverVars, uiVars
<1>2. waiters' \in [SessionNumber -> Nat]
  BY <1>1 DEF EInv, GoroutineType
<1>3. Streaming' \subseteq Streaming
  <2>1. \A j \in SessionNumber : \A n \in Nat : n \in 1..waiters'[j] => n \in 1..waiters[j]
    BY <1>1 DEF EInv, GoroutineType
  <2> QED
    BY <1>1, <2>1 DEF Streaming
<1>4. IsFiniteSet(Streaming') /\ Cardinality(Streaming') <= Cardinality(Streaming)
  BY <1>3, FS_Subset DEF EInv, GoroutineType
<1>5. GoroutineType'
  BY <1>1, <1>2, <1>4 DEF EInv, GoroutineType
<1>6. ASSUME NEW j
      PROVE  /\ At(j)' \subseteq At(j)
             /\ Cardinality(At(j)) \in Nat /\ Cardinality(At(j)') \in Nat
             /\ Cardinality(At(j)') <= Cardinality(At(j))
  <2>1. At(j)' \subseteq At(j)
    BY <1>3 DEF At
  <2>2. IsFiniteSet(At(j))
    BY FS_Subset DEF EInv, GoroutineType, At
  <2> QED
    BY <2>1, <2>2, FS_Subset, FS_CardinalityType
<1>7. \A j : Fresh(j) => Fresh(j)'
  BY <1>1, <1>6 DEF Fresh
<1>8. \A j \in SessionNumber :
        stale'[j] = stale[j] /\ stale'[j] + Cardinality(At(j)') <= stale[j] + Cardinality(At(j))
  <2>1. \A j \in SessionNumber : stale[j] \in Nat
    BY DEF EInv, GoroutineType
  <2> QED
    BY <1>1, <1>6, <2>1
<1> QED
  BY <1>1, <1>4, <1>5, <1>7, <1>8, QuietEInv

\* The steps that leave the events alone, a command's end or beginning included.
LEMMA CommandEInv ==
    ASSUME RInv, EInv,
           \/ Keys
           \/ \E c \in commands :
                \/ HandleError(c) \/ SessionCreated(c) \/ PermissionHandled(c) \/ QueryDone(c)
                \/ Serve(c) /\ ~ServeCreate(c)
           \/ \E k \in SessionNumber : RunStep(k)
    PROVE  EInv'
<1>1. sessions \in Nat /\ ClientType
  BY DEF RInv, ServerType
<1>2. CASE Keys
  <2>1. PICK c : Key(c) /\ c.kind # "stream" /\ (c.kind = "create" => c.state = "sent")
    BY <1>2 DEF Keys, KeyMessage, KeyNew, KeyQuery, KeyAnswer, Command
  <2>2. UNCHANGED <<waiters, held, taken, shown, stale, eventCh, sessions>>
        /\ commands' = commands \union {c}
    BY <2>1 DEF Key, serverVars, eventVars
  <2>3. Starting' \subseteq Starting
    BY <2>1, <2>2 DEF Starting
  <2> QED
    BY <1>1, <2>2, <2>3, StartingStays
<1>3. ASSUME NEW k \in SessionNumber, RunStep(k)
      PROVE  EInv'
  <2>1. UNCHANGED <<waiters, held, taken, shown, stale, eventCh, sessions, commands>>
    BY <1>3 DEF RunStep, AgentGoesOn, AgentHangs, Responds, Asks, TimesOut, Dispatches, Hangs,
                uiVars, eventVars
  <2>2. Starting' = Starting
    BY <2>1 DEF Starting
  <2> QED
    BY <1>1, <2>1, <2>2, StartingStays
<1>4. ASSUME NEW c \in commands, HandleError(c) \/ PermissionHandled(c) \/ QueryDone(c)
      PROVE  EInv'
  <2>1. UNCHANGED <<waiters, held, taken, shown, stale, eventCh, sessions>>
        /\ commands' = commands \ {c}
    BY <1>4 DEF HandleError, PermissionHandled, QueryDone, Handled, serverVars, eventVars
  <2>2. Starting' \subseteq Starting
    BY <2>1 DEF Starting
  <2> QED
    BY <1>1, <2>1, <2>2, StartingStays
<1>5. ASSUME NEW c \in commands, SessionCreated(c)
      PROVE  EInv'
  <2> DEFINE stream == Command("stream", c.session, c.key, FALSE, 0)
             send == Command("send", c.session, c.key, TRUE, 0)
  <2>1. stream.session = c.session /\ send.kind = "send"
    BY DEF Command
  <2>2. /\ UNCHANGED <<waiters, held, taken, shown, stale, eventCh, sessions>> /\ c \in Starting
        /\ \A d \in commands' : d \in commands \ {c} \/ d = stream \/ d = send
    BY <1>5 DEF SessionCreated, Starting, serverVars, eventVars
  <2> HIDE DEF stream, send
  <2>3. Starting' \subseteq (Starting \ {c}) \union {stream}
    BY <2>1, <2>2 DEF Starting
  <2> QED
    BY <1>1, <2>1, <2>2, <2>3, StartingStays
<1>6. ASSUME NEW c \in commands, Serve(c), ~ServeCreate(c)
      PROVE  EInv'
  <2>1. UNCHANGED <<waiters, held, taken, shown, stale, eventCh, sessions>>
        /\ c.state = "sent"
    BY <1>6 DEF Serve, ServeSend, ServeSubmit, ServeOther, ServeFails, eventVars, uiVars, serverVars
  <2>2. c \in CommandFor(c.request)
    BY <1>1 DEF ClientType, GoodCommand
  <2>3. CASE ServeSend(c) \/ ServeSubmit(c) \/ ServeFails(c) \/ c.kind = "query"
    <3>1. PICK s \in {"done", "failed"} :
            /\ \A x \in commands' : x \in commands \/ x = [c EXCEPT !.state = s]
            /\ c.kind \in {"create", "stream"} => s = "failed"
      BY <1>6, <2>3 DEF Serve, ServeSend, ServeSubmit, ServeOther, ServeFails, Becomes,
                        Answered, Failed
    <3> DEFINE d == [c EXCEPT !.state = s]
    <3>2. d.kind = c.kind /\ d.state = s
      BY <2>2 DEF CommandFor
    <3> HIDE DEF d
    <3>3. \A x \in commands' : x \in commands \/ x = d
      BY <3>1 DEF d
    <3>4. Starting' \subseteq Starting
      BY <3>1, <3>2, <3>3 DEF Starting
    <3> QED
      BY <1>1, <2>1, <3>4, StartingStays
  <2>4. CASE ServeOther(c) /\ c.kind = "stream"
    <3> DEFINE d == [c EXCEPT !.state = "done"]
    <3>1. d.session = c.session /\ commands' = (commands \ {c}) \union {d}
      BY <2>2, <2>4 DEF CommandFor, ServeOther, Answered, Becomes
    <3>2. c \in Starting
      BY <2>1, <2>4 DEF Starting
    <3> HIDE DEF d
    <3>3. Starting' \subseteq (Starting \ {c}) \union {d}
      BY <3>1 DEF Starting
    <3> QED
      BY <1>1, <2>1, <3>1, <3>2, <3>3, StartingStays
  <2> QED
    BY <1>6, <2>3, <2>4 DEF Serve, ServeOther
<1> QED
  BY <1>2, <1>3, <1>4, <1>5, <1>6

LEMMA NextEInv == RInv /\ EInv /\ [Next]_vars => EInv'
<1> SUFFICES ASSUME RInv, EInv, [Next]_vars
             PROVE  EInv'
  OBVIOUS
<1>1. CASE Keys \/ \E k \in SessionNumber : RunStep(k)
  BY <1>1, CommandEInv
<1>2. ASSUME NEW c \in commands, HandleResult(c)
      PROVE  EInv'
  BY <1>2, CommandEInv, ReadyEInv DEF HandleResult
<1>3. ASSUME NEW c \in commands, Serve(c)
      PROVE  EInv'
  BY <1>3, CommandEInv, CreateEInv DEF Serve
<1>4. ASSUME NEW k, NEW i, HandleEvent(k, i)
      PROVE  EInv'
  BY <1>4, HandleEInv
<1>5. ASSUME NEW k \in SessionNumber, Take(k) \/ Break(k)
      PROVE  EInv'
  BY <1>5, TakeEInv, BreakEInv
<1>6. CASE UNCHANGED vars
  <2>1. UNCHANGED <<waiters, held, taken, shown, stale, eventCh, sessions>>
        /\ Starting' \subseteq Starting
    BY <1>6 DEF vars, uiVars, eventVars, serverVars, Starting
  <2> QED
    BY <2>1, StartingStays DEF RInv, ServerType
<1> QED
  BY <1>1, <1>2, <1>3, <1>4, <1>5, <1>6 DEF Next, Update, Goroutines, Agents, RunStep

LEMMA InitEInv == Init => EInv
<1> SUFFICES ASSUME Init PROVE EInv
  OBVIOUS
<1>1. Streaming = {} /\ Starting = {} /\ \A k : At(k) = {}
  BY DEF Init, Streaming, Starting, At
<1>2. Cardinality(Streaming) = 0 /\ Cardinality(Starting) = 0 /\ IsFiniteSet(Streaming)
      /\ \A k : Cardinality(At(k)) = 0
  BY <1>1, FS_EmptySet
<1>3. GoroutineType
  BY <1>2, ReplBoundsAssumption DEF Init, GoroutineType
<1>4. StartsOnce
  BY <1>1 DEF Init, StartsOnce, Fresh, SessionNumber
<1> QED
  BY <1>1, <1>2, <1>3, <1>4 DEF Init, EInv, Counted, TurnedAway

LEMMA EventsInvariant == Spec => [](RInv /\ EInv)
<1>1. Init => RInv /\ EInv
  BY InitRInv, InitEInv
<1>2. RInv /\ EInv /\ [Next]_vars => RInv' /\ EInv'
  BY NextRInv, NextEInv
<1> QED
  BY <1>1, <1>2, PTL DEF Spec

\* However many sessions are started and in whatever order their streams are
\* ready, a stream that the client turned away from shows fewer events than
\* there are sessions: the goroutine of the last is not among those left behind.
THEOREM LeftBehindAreFew == Spec => []FewStale
<1>1. RInv /\ EInv => FewStale
  <2> SUFFICES ASSUME EInv, RInv, NEW k \in SessionNumber, stale[k] > 0
               PROVE  stale[k] < sessions
    BY DEF FewStale
  <2>1. Cardinality(At(k)) \in Nat /\ stale[k] \in Nat /\ sessions \in Nat
    BY FS_Subset, FS_CardinalityType DEF EInv, GoroutineType, At, RInv, ServerType
  <2> QED
    BY <2>1 DEF EInv, TurnedAway
<1> QED
  BY <1>1, EventsInvariant, PTL

-----------------------------------------------------------------------------
\* With one session, a goroutine of its stream is the only one.
LEMMA TheOnlyGoroutine ==
    ASSUME RInv, EInv, sessions <= 1, NEW x \in Streaming
    PROVE  Streaming = {x}
<1>1. IsFiniteSet(Streaming) /\ Cardinality(Streaming) \in Nat
      /\ Cardinality(Starting) \in Nat
  BY FewStarting, FS_CardinalityType DEF EInv, GoroutineType, RInv
<1>2. Cardinality(Streaming) <= 1
  BY <1>1 DEF EInv, Counted, RInv, ServerType
<1>3. IsFiniteSet(Streaming \ {x}) /\ Cardinality(Streaming \ {x}) = Cardinality(Streaming) - 1
      /\ Cardinality(Streaming \ {x}) \in Nat
  BY <1>1, FS_RemoveElement, FS_CardinalityType
<1>4. Streaming \ {x} = {}
  BY <1>1, <1>2, <1>3, FS_EmptySet
<1> QED
  BY <1>4

LEMMA NextOneByOne == RInv /\ EInv /\ OneByOne /\ [Next]_vars => OneByOne'
<1> SUFFICES ASSUME RInv, EInv, OneByOne, [Next]_vars, sessions' <= 1
             PROVE  OneByOne'
  BY DEF OneByOne
<1>1. ASSUME UNCHANGED <<held, taken, shown>>, sessions' \in {sessions, sessions + 1}
      PROVE  OneByOne'
  BY <1>1 DEF OneByOne, RInv, ServerType
<1>2. /\ held \in SUBSET (SessionNumber \X Nat)
      /\ taken \in [SessionNumber -> Nat] /\ shown \in [SessionNumber -> Nat]
      /\ waiters \in [SessionNumber -> Nat]
  BY DEF EInv, GoroutineType
<1>3. ASSUME NEW k \in SessionNumber, Take(k)
      PROVE  OneByOne'
  <2>1. /\ sessions <= 1 /\ waiters[k] \in Nat /\ waiters[k] > 0
        /\ taken' = [taken EXCEPT ![k] = @ + 1] /\ shown' = shown
        /\ held' = held \union {<<k, taken[k] + 1>>}
    BY <1>2, <1>3 DEF Take, serverVars
  <2>2. Streaming = {<<"waits", k, waiters[k]>>}
    <3>1. <<"waits", k, waiters[k]>> \in Streaming
      BY <2>1 DEF Streaming
    <3> QED
      BY <2>1, <3>1, TheOnlyGoroutine
  <2>3. held = {}
    <3> SUFFICES ASSUME NEW j \in SessionNumber, NEW n \in Nat, <<j, n>> \in held
                 PROVE  FALSE
      BY <1>2
    <3>1. <<"held", j, n>> \in Streaming
      BY DEF Streaming
    <3> QED
      BY <2>2, <3>1
  <2>4. \A j \in SessionNumber : taken[j] = shown[j]
    BY <2>1, <2>3 DEF OneByOne
  <2>5. \A j \in SessionNumber : taken'[j] = IF j = k THEN taken[j] + 1 ELSE taken[j]
    BY <1>2, <2>1
  <2>6. taken[k] + 1 \in Nat /\ held' = {<<k, taken[k] + 1>>}
    BY <1>2, <2>1, <2>3
  <2> QED
    BY <1>2, <2>1, <2>4, <2>5, <2>6 DEF OneByOne
<1>4. ASSUME NEW k, NEW i, HandleEvent(k, i)
      PROVE  OneByOne'
  <2>1. /\ sessions <= 1 /\ <<k, i>> \in held /\ k \in SessionNumber /\ i \in Nat
        /\ held' = held \ {<<k, i>>} /\ taken' = taken
        /\ shown' = [shown EXCEPT ![k] = @ + 1]
    BY <1>2, <1>4 DEF HandleEvent, ShowEvent, serverVars
  <2>2. Streaming = {<<"held", k, i>>}
    <3>1. <<"held", k, i>> \in Streaming
      BY <2>1 DEF Streaming
    <3> QED
      BY <2>1, <3>1, TheOnlyGoroutine
  <2>3. \A j \in SessionNumber : \A n \in Nat : <<j, n>> \in held => j = k /\ n = i
    <3> SUFFICES ASSUME NEW j \in SessionNumber, NEW n \in Nat, <<j, n>> \in held
                 PROVE  j = k /\ n = i
      OBVIOUS
    <3>1. <<"held", j, n>> \in Streaming
      BY DEF Streaming
    <3> QED
      BY <2>2, <3>1
  <2>4. taken[k] = shown[k] + 1 /\ \A j \in SessionNumber : j # k => taken[j] = shown[j]
    BY <2>1, <2>3 DEF OneByOne
  <2>5. \A j \in SessionNumber : shown'[j] = IF j = k THEN shown[j] + 1 ELSE shown[j]
    BY <1>2, <2>1
  <2>6. \A j \in SessionNumber : \A n \in Nat : <<j, n>> \notin held'
    BY <2>1, <2>3
  <2> QED
    BY <2>1, <2>4, <2>5, <2>6 DEF OneByOne
<1>5. CASE Keys \/ \E k \in SessionNumber : RunStep(k) \/ Break(k)
  BY <1>1, <1>5 DEF Keys, KeyMessage, KeyNew, KeyQuery, KeyAnswer, Key, RunStep, AgentGoesOn,
                    AgentHangs, Responds, Asks, TimesOut, Dispatches, Hangs, Break, eventVars, serverVars
<1>6. ASSUME NEW c \in commands, Serve(c) \/ HandleResult(c)
      PROVE  OneByOne'
  BY <1>1, <1>6 DEF Serve, ServeCreate, ServeSend, ServeSubmit, ServeOther, ServeFails,
                    HandleResult, HandleError, SessionCreated, StreamReady, PermissionHandled,
                    QueryDone, Handled, eventVars, serverVars
<1>7. CASE UNCHANGED vars
  BY <1>1, <1>7 DEF vars, eventVars, serverVars
<1> QED
  BY <1>3, <1>4, <1>5, <1>6, <1>7 DEF Next, Update, Goroutines, Agents, RunStep

\* As long as the client has started one session, it handles the events of its
\* stream in the order they were logged: none overtakes another.
THEOREM ShowsInOrder == Spec => ShownInOrder
<1>1. Init => OneByOne
  BY DEF Init, OneByOne
<1>2. RInv /\ EInv /\ OneByOne /\ [Next]_vars => OneByOne'
  BY NextOneByOne
<1>3. EInv /\ OneByOne =>
        \A e \in held : HandleEvent(e[1], e[2]) /\ sessions <= 1 => e[2] = shown[e[1]] + 1
  BY DEF EInv, GoroutineType, OneByOne
<1> QED
  BY <1>1, <1>2, <1>3, EventsInvariant, PTL DEF Spec, ShownInOrder

-----------------------------------------------------------------------------
\* What is in no session yet: no command is for it, and it is idle.
OnlySessions ==
    /\ sessionID <= sessions
    /\ \A c \in commands : c.session <= sessions
    /\ \A k \in SessionNumber : k > sessions =>
         log[k] = <<>> /\ agent[k].step = "idle" /\ agent[k].request = 0

\* A request is logged once.
RequestsLogged ==
    \A k \in SessionNumber : \A i \in DOMAIN log[k] : log[k][i].kind = "request" =>
      /\ log[k][i].request \in 1..requests
      /\ \A j \in DOMAIN log[k] :
           log[k][j].kind = "request" /\ log[k][j].request = log[k][i].request => j = i

\* While a session waits for an answer it logs nothing but messages.
NothingAfter(k, p) ==
    /\ p \in DOMAIN log[k]
    /\ log[k][p].kind = "request" /\ log[k][p].request = agent[k].request
    /\ \A i \in DOMAIN log[k] : i > p => log[k][i].kind = "message"

Asked == \A k \in SessionNumber : agent[k].request # 0 => \E p \in Nat : NothingAfter(k, p)

\* What was taken from a channel is in the log.
TakenLogged == \A k \in SessionNumber : taken[k] <= Len(log[k]) + 1

\* The prompt is of a request whose event was handled.
ShownAt(k, i) ==
    /\ i \in DOMAIN log[k] /\ i < shown[k]
    /\ log[k][i].kind = "request" /\ log[k][i].request = prompt.request

PromptShown ==
    sessions <= 1 /\ prompt # None => \E k \in SessionNumber : \E i \in Nat : ShownAt(k, i)

PInv == OnlySessions /\ RequestsLogged /\ Asked /\ TakenLogged /\ PromptShown

\* A log with more events, place by place.
LEMMA Appended ==
    ASSUME ServerType, NEW k \in SessionNumber, NEW events \in Seq(LogEvent),
           Logged(k, events)
    PROVE  /\ \A j \in SessionNumber : j # k => log'[j] = log[j]
           /\ Len(log[k]) \in Nat /\ DOMAIN log[k] = 1..Len(log[k])
           /\ Len(events) \in Nat /\ DOMAIN events = 1..Len(events)
           /\ Len(log'[k]) = Len(log[k]) + Len(events)
           /\ DOMAIN log'[k] = 1..(Len(log[k]) + Len(events))
           /\ \A i \in DOMAIN log[k] : log'[k][i] = log[k][i]
           /\ \A i \in DOMAIN log'[k] : i \notin DOMAIN log[k] =>
                i - Len(log[k]) \in DOMAIN events /\ log'[k][i] = events[i - Len(log[k])]
<1>1. log[k] \in Seq(LogEvent)
  BY DEF ServerType
<1>2. log'[k] = log[k] \o events /\ \A j \in SessionNumber : j # k => log'[j] = log[j]
  BY DEF Logged, ServerType
<1> QED
  BY <1>1, <1>2

\* Events that are no requests, from a session that does not wait, or messages.
LEMMA LogsOthers ==
    ASSUME ServerType, RequestsLogged, Asked,
           NEW k \in SessionNumber, NEW events \in Seq(LogEvent), Logged(k, events),
           requests' = requests,
           \A n \in DOMAIN events : events[n].kind # "request",
           \A j \in SessionNumber :
             \/ agent'[j].request = 0
             \/ /\ agent'[j].request = agent[j].request
                /\ j = k => \A n \in DOMAIN events : events[n].kind = "message"
    PROVE  RequestsLogged' /\ Asked'
<1> DEFINE old == Len(log[k])
<1>1. /\ \A j \in SessionNumber : j # k => log'[j] = log[j]
      /\ old \in Nat /\ DOMAIN log[k] = 1..old
      /\ Len(events) \in Nat /\ DOMAIN log'[k] = 1..(old + Len(events))
      /\ \A i \in DOMAIN log[k] : log'[k][i] = log[k][i]
      /\ \A i \in DOMAIN log'[k] : i \notin DOMAIN log[k] =>
           i - old \in DOMAIN events /\ log'[k][i] = events[i - old]
  BY Appended
<1> HIDE DEF old
<1>2. \A i \in DOMAIN log[k] : i \in DOMAIN log'[k]
  BY <1>1
<1>3. \A i \in DOMAIN log'[k] : log'[k][i].kind = "request" => i \in DOMAIN log[k]
  BY <1>1
<1>4. RequestsLogged'
  <2>1. ASSUME NEW j \in SessionNumber, NEW i \in DOMAIN log'[j], log'[j][i].kind = "request"
        PROVE  /\ log'[j][i].request \in 1..requests
               /\ \A n \in DOMAIN log'[j] :
                    log'[j][n].kind = "request" /\ log'[j][n].request = log'[j][i].request => n = i
    <3>1. CASE j # k
      BY <1>1, <2>1, <3>1 DEF RequestsLogged
    <3>2. CASE j = k
      BY <1>1, <1>3, <2>1, <3>2 DEF RequestsLogged
    <3> QED
      BY <3>1, <3>2
  <2> QED
    BY <2>1 DEF RequestsLogged
<1>5. Asked'
  <2>1. ASSUME NEW j \in SessionNumber, agent'[j].request # 0
        PROVE  \E p \in Nat : NothingAfter(j, p)'
    <3>1. agent'[j].request = agent[j].request
          /\ (j = k => \A n \in DOMAIN events : events[n].kind = "message")
      BY <2>1
    <3>2. PICK p \in Nat : NothingAfter(j, p)
      BY <2>1, <3>1 DEF Asked
    <3>3. CASE j # k
      BY <1>1, <3>1, <3>2, <3>3 DEF NothingAfter
    <3>4. CASE j = k
      <4>1. p \in DOMAIN log[k] /\ log'[k][p] = log[k][p] /\ p \in DOMAIN log'[k]
        BY <1>1, <1>2, <3>2, <3>4 DEF NothingAfter
      <4>2. \A i \in DOMAIN log[k] : i > p => log'[k][i].kind = "message"
        BY <1>1, <3>2, <3>4 DEF NothingAfter
      <4>3. \A i \in DOMAIN log'[k] : i \notin DOMAIN log[k] => log'[k][i].kind = "message"
        BY <1>1, <3>1, <3>4
      <4> QED
        BY <3>1, <3>2, <3>4, <4>1, <4>2, <4>3 DEF NothingAfter
    <3> QED
      BY <3>3, <3>4
  <2> QED
    BY <2>1 DEF Asked
<1> QED
  BY <1>4, <1>5

\* A new request, the last event of its session's log.
LEMMA LogsRequest ==
    ASSUME ServerType, RequestsLogged, Asked,
           NEW k \in SessionNumber, NEW events \in Seq(LogEvent), Logged(k, events),
           requests' = requests + 1, events # <<>>,
           events[Len(events)].kind = "request",
           events[Len(events)].request = requests + 1,
           \A n \in DOMAIN events : n # Len(events) => events[n].kind # "request",
           agent'[k].request = requests + 1,
           \A j \in SessionNumber : j # k => agent'[j].request = agent[j].request
    PROVE  RequestsLogged' /\ Asked'
<1> DEFINE old == Len(log[k])
<1> DEFINE new == Len(events)
<1>1. /\ \A j \in SessionNumber : j # k => log'[j] = log[j]
      /\ old \in Nat /\ DOMAIN log[k] = 1..old
      /\ new \in Nat /\ DOMAIN events = 1..new /\ DOMAIN log'[k] = 1..(old + new)
      /\ \A i \in DOMAIN log[k] : log'[k][i] = log[k][i]
      /\ \A i \in DOMAIN log'[k] : i \notin DOMAIN log[k] =>
           i - old \in DOMAIN events /\ log'[k][i] = events[i - old]
  BY Appended
<1>2. new > 0
  BY <1>1
<1>3. events[new].kind = "request" /\ events[new].request = requests + 1
      /\ \A n \in DOMAIN events : n # new => events[n].kind # "request"
  OBVIOUS
<1> HIDE DEF old, new
<1>4. requests \in Nat /\ \A i \in 1..requests : i \in 1..(requests + 1) /\ i # requests + 1
  BY DEF ServerType
<1> DEFINE last == old + new
<1>5. /\ last \in DOMAIN log'[k] /\ last \in Nat /\ last \notin DOMAIN log[k] /\ last - old = new
      /\ \A i \in DOMAIN log'[k] : ~(i > last)
  BY <1>1, <1>2
<1>6. log'[k][last].kind = "request" /\ log'[k][last].request = requests + 1
  BY <1>1, <1>3, <1>5
<1>7. \A i \in DOMAIN log'[k] : log'[k][i].kind = "request" => i \in DOMAIN log[k] \/ i = last
  BY <1>1, <1>3
<1> HIDE DEF last
<1>8. RequestsLogged'
  <2>1. ASSUME NEW j \in SessionNumber, NEW i \in DOMAIN log'[j], log'[j][i].kind = "request"
        PROVE  /\ log'[j][i].request \in 1..(requests + 1)
               /\ \A n \in DOMAIN log'[j] :
                    log'[j][n].kind = "request" /\ log'[j][n].request = log'[j][i].request => n = i
    <3>1. CASE j # k
      BY <1>1, <1>4, <2>1, <3>1 DEF RequestsLogged
    <3>2. CASE j = k
      <4>1. \A n \in DOMAIN log[k] : log[k][n].kind = "request" =>
              log'[k][n] = log[k][n] /\ log[k][n].request \in 1..requests
        BY <1>1 DEF RequestsLogged
      <4>2. CASE i = last
        <5>1. log'[k][i].request = requests + 1 /\ requests + 1 \in 1..(requests + 1)
          BY <1>4, <1>6, <4>2
        <5>2. \A n \in DOMAIN log[k] :
                log'[k][n].kind = "request" => log'[k][n].request # requests + 1
          BY <1>1, <1>4, <4>1
        <5> QED
          BY <1>7, <3>2, <4>2, <5>1, <5>2
      <4>3. CASE i \in DOMAIN log[k]
        <5>1. \A n \in DOMAIN log[k] :
                log[k][n].kind = "request" /\ log[k][n].request = log[k][i].request => n = i
          BY <1>1, <2>1, <3>2, <4>3 DEF RequestsLogged
        <5>2. log'[k][i] = log[k][i] /\ log[k][i].request \in 1..requests
          BY <1>1, <2>1, <3>2, <4>1, <4>3
        <5>3. log'[k][last].request # log'[k][i].request
              /\ log'[k][i].request \in 1..(requests + 1)
          BY <1>4, <1>6, <5>2
        <5>4. \A n \in DOMAIN log[k] : log'[k][n].kind = "request" =>
                log'[k][n] = log[k][n] /\ log[k][n].kind = "request"
          BY <1>1
        <5>5. \A n \in DOMAIN log'[k] :
                log'[k][n].kind = "request" /\ log'[k][n].request = log'[k][i].request => n = i
          BY ONLY <1>7, <5>1, <5>2, <5>3, <5>4
        <5> QED
          BY <3>2, <5>3, <5>5
      <4> QED
        BY <1>7, <2>1, <3>2, <4>2, <4>3
    <3> QED
      BY <3>1, <3>2
  <2> QED
    BY <2>1 DEF RequestsLogged
<1>9. Asked'
  <2>1. ASSUME NEW j \in SessionNumber, agent'[j].request # 0
        PROVE  \E p \in Nat : NothingAfter(j, p)'
    <3>1. CASE j = k
      BY <1>5, <1>6, <3>1 DEF NothingAfter
    <3>2. CASE j # k
      <4>1. agent'[j].request = agent[j].request /\ log'[j] = log[j]
        BY <1>1, <3>2
      <4>2. PICK p \in Nat : NothingAfter(j, p)
        BY <2>1, <4>1 DEF Asked
      <4> QED
        BY <4>1, <4>2 DEF NothingAfter
    <3> QED
      BY <3>1, <3>2
  <2> QED
    BY <2>1 DEF Asked
<1> QED
  BY <1>8, <1>9

\* No event, and no new wait.
LEMMA LogsNothing ==
    ASSUME RequestsLogged, Asked, UNCHANGED <<log, requests>>,
           \A j \in SessionNumber :
             agent'[j].request = 0 \/ agent'[j].request = agent[j].request
    PROVE  RequestsLogged' /\ Asked'
<1>1. RequestsLogged'
  BY DEF RequestsLogged
<1>2. ASSUME NEW j \in SessionNumber, agent'[j].request # 0
      PROVE  \E p \in Nat : NothingAfter(j, p)'
  <2>1. PICK p \in Nat : NothingAfter(j, p)
    BY <1>2 DEF Asked
  <2> QED
    BY <1>2, <2>1 DEF NothingAfter
<1> QED
  BY <1>1, <1>2 DEF Asked

\* Nothing is taken out of a log.
Grows ==
    \A j \in SessionNumber : \A i \in DOMAIN log[j] :
      i \in DOMAIN log'[j] /\ log'[j][i] = log[j][i]

\* One event, or one after another.
LEMMA OneOrTwo ==
    ASSUME NEW S, NEW x \in S, NEW y \in S
    PROVE  /\ <<x>> \o <<y>> \in Seq(S) /\ Len(<<x>> \o <<y>>) = 2
           /\ (<<x>> \o <<y>>)[1] = x /\ (<<x>> \o <<y>>)[2] = y
           /\ <<>> \o <<y>> \in Seq(S) /\ Len(<<>> \o <<y>>) = 1
           /\ (<<>> \o <<y>>)[1] = y
<1>1. <<x>> \in Seq(S) /\ <<y>> \in Seq(S) /\ <<>> \in Seq(S)
  OBVIOUS
<1>2. Len(<<x>>) = 1 /\ Len(<<y>>) = 1 /\ <<x>>[1] = x /\ <<y>>[1] = y
  OBVIOUS
<1> DEFINE first == <<x>>
<1> DEFINE second == <<y>>
<1> HIDE DEF first, second
<1>3. /\ first \o second \in Seq(S) /\ Len(first \o second) = 2
      /\ (first \o second)[1] = x /\ (first \o second)[2] = y
  BY <1>1, <1>2 DEF first, second
<1>4. <<>> \o second = second
  BY <1>1 DEF second
<1> QED
  BY <1>1, <1>2, <1>3, <1>4 DEF first, second

LEMMA AgentLogSteps ==
    ASSUME ServerType, RequestsLogged, Asked, NEW k \in SessionNumber, RunStep(k)
    PROVE  RequestsLogged' /\ Asked'
<1>1. /\ agent[k].results \in Seq(SUBSET Tool) /\ agent[k].tool \in SUBSET Tool
      /\ requests \in Nat /\ requests + 1 \in Nat /\ k \in DOMAIN agent
  BY DEF ServerType, AgentState
<1>2. ASSUME NEW step, NEW request, NEW tool, NEW results,
             AgentIs(k, step, request, tool, results)
      PROVE  /\ agent'[k].request = request
             /\ \A j \in SessionNumber : j # k => agent'[j].request = agent[j].request
  BY <1>2 DEF AgentIs, ServerType
<1>3. CASE Responds(k)
  <2> DEFINE e == Event("response", 0, 0, {})
  <2>1. e \in LogEvent /\ e.kind = "response"
    BY EventType DEF EventKind, Event
  <2>2. AgentIs(k, "idle", 0, {}, <<>>) /\ Logged(k, <<e>>) /\ requests' = requests
    BY <1>3 DEF Responds
  <2> HIDE DEF e
  <2>3. <<e>> \in Seq(LogEvent) /\ \A n \in DOMAIN <<e>> : <<e>>[n].kind # "request"
    BY <2>1
  <2>4. agent'[k].request = 0
        /\ \A j \in SessionNumber : j # k => agent'[j].request = agent[j].request
    BY <1>2, <2>2
  <2> QED
    BY <2>2, <2>3, <2>4, LogsOthers
<1>4. CASE Asks(k)
  <2> DEFINE answer == Event("response", 0, 0, {})
  <2>1. PICK t \in Tool :
          /\ AgentIs(k, "asking", requests + 1, {t}, agent[k].results)
          /\ Logged(k, (IF agent[k].step = "working" THEN <<answer>> ELSE <<>>)
                          \o <<Event("request", 0, requests + 1, {t})>>)
    BY <1>4 DEF Asks
  <2> DEFINE asked == Event("request", 0, requests + 1, {t})
  <2> DEFINE before == IF agent[k].step = "working" THEN <<answer>> ELSE <<>>
  <2> DEFINE events == before \o <<asked>>
  <2>2. /\ answer \in LogEvent /\ answer.kind = "response"
        /\ asked \in LogEvent /\ asked.kind = "request" /\ asked.request = requests + 1
    BY <1>1, EventType DEF EventKind, Event
  <2>3. requests' = requests + 1
    BY <1>4 DEF Asks
  <2> HIDE DEF answer, asked
  <2>4. /\ events \in Seq(LogEvent) /\ events # <<>> /\ events[Len(events)] = asked
        /\ \A n \in DOMAIN events : n # Len(events) => events[n] = answer
    <3>1. CASE agent[k].step = "working"
      <4>1. before = <<answer>>
        BY <3>1
      <4>2. events \in Seq(LogEvent) /\ Len(events) = 2
            /\ events[1] = answer /\ events[2] = asked
        BY ONLY <2>2, <4>1, OneOrTwo DEF events
      <4> HIDE DEF events
      <4>3. DOMAIN events = 1..2 /\ events # <<>>
        BY ONLY <4>2
      <4>4. \A n \in 1..2 : n # 2 => n = 1
        OBVIOUS
      <4> QED
        BY ONLY <4>2, <4>3, <4>4
    <3>2. CASE agent[k].step # "working"
      <4>1. before = <<>>
        BY <3>2
      <4>2. events \in Seq(LogEvent) /\ Len(events) = 1 /\ events[1] = asked
        BY ONLY <2>2, <4>1, OneOrTwo DEF events
      <4> HIDE DEF events
      <4>3. DOMAIN events = 1..1 /\ events # <<>>
        BY ONLY <4>2
      <4>4. \A n \in 1..1 : n = 1
        OBVIOUS
      <4> QED
        BY ONLY <4>2, <4>3, <4>4
    <3> QED
      BY <3>1, <3>2
  <2>5. Logged(k, events)
    BY <2>1 DEF asked
  <2>6. agent'[k].request = requests + 1
        /\ \A j \in SessionNumber : j # k => agent'[j].request = agent[j].request
    BY <1>2, <2>1
  <2> HIDE DEF events
  <2>7. /\ events[Len(events)].kind = "request"
        /\ events[Len(events)].request = requests + 1
        /\ \A n \in DOMAIN events : n # Len(events) => events[n].kind # "request"
    BY <2>2, <2>4
  <2> QED
    BY <2>3, <2>4, <2>5, <2>6, <2>7, LogsRequest
<1>5. CASE TimesOut(k) \/ Hangs(k)
  <2>1. UNCHANGED <<log, requests>>
    BY <1>5 DEF TimesOut, Hangs
  <2>2. \/ AgentIs(k, "calling", 0, {}, Append(agent[k].results, agent[k].tool))
        \/ AgentIs(k, "hanging", 0, {}, agent[k].results)
    BY <1>5 DEF TimesOut, Resumes, Hangs
  <2>3. agent'[k].request = 0
        /\ \A j \in SessionNumber : j # k => agent'[j].request = agent[j].request
    BY <1>2, <2>2
  <2>4. \A j \in SessionNumber : agent'[j].request = 0 \/ agent'[j].request = agent[j].request
    BY <2>3
  <2> QED
    BY <2>1, <2>4, LogsNothing
<1>6. CASE Dispatches(k)
  <2>1. AgentIs(k, "working", 0, {}, <<>>) /\ Logged(k, ResultEvents(k))
        /\ requests' = requests
    BY <1>6 DEF Dispatches
  <2>2. \A i \in DOMAIN agent[k].results :
          /\ Event("result", 0, 0, agent[k].results[i]) \in LogEvent
          /\ Event("result", 0, 0, agent[k].results[i]).kind # "request"
    <3>1. \A i \in DOMAIN agent[k].results : agent[k].results[i] \in SUBSET Tool
      BY <1>1
    <3>2. \A i \in DOMAIN agent[k].results :
            Event("result", 0, 0, agent[k].results[i]) \in LogEvent
      BY <3>1, EventType DEF EventKind
    <3> QED
      BY <3>2 DEF Event
  <2>3. ResultEvents(k) \in Seq(LogEvent)
        /\ \A n \in DOMAIN ResultEvents(k) : ResultEvents(k)[n].kind # "request"
    BY <1>1, <2>2 DEF ResultEvents
  <2>4. agent'[k].request = 0
        /\ \A j \in SessionNumber : j # k => agent'[j].request = agent[j].request
    BY <1>2, <2>1
  <2> QED
    BY <2>1, <2>3, <2>4, LogsOthers
<1> QED
  BY <1>3, <1>4, <1>5, <1>6 DEF RunStep, AgentGoesOn, AgentHangs

LEMMA ServeLogSteps ==
    ASSUME RInv, RequestsLogged, Asked, NEW c \in commands, Serve(c)
    PROVE  RequestsLogged' /\ Asked' /\ Grows
<1>1. ServerType /\ GoodCommand(c)
  BY DEF RInv, ClientType
<1>2. CASE ServeSend(c)
  <2>1. c.session \in SessionNumber /\ c.key \in Nat
    BY <1>1, <1>2 DEF ServeSend, GoodCommand, CommandFor, SessionNumber
  <2> DEFINE k == c.session
  <2> DEFINE e == Event("message", c.key, 0, {})
  <2>2. Logged(k, <<e>>) /\ requests' = requests
        /\ agent' = [agent EXCEPT ![k].step = IF @ = "idle" THEN "working" ELSE @]
    BY <1>2 DEF ServeSend
  <2>3. e \in LogEvent /\ e.kind = "message"
    BY <2>1, EventType DEF EventKind, Event
  <2>4. k \in SessionNumber
    BY <2>1
  <2> HIDE DEF e, k
  <2>5. \A j \in SessionNumber : agent'[j].request = agent[j].request
    BY <1>1, <2>2, <2>4 DEF ServerType, AgentState
  <2>6. /\ <<e>> \in Seq(LogEvent) /\ \A n \in DOMAIN <<e>> : <<e>>[n].kind = "message"
        /\ \A n \in DOMAIN <<e>> : <<e>>[n].kind # "request"
    BY <2>3
  <2>7. \A j \in SessionNumber :
          \/ agent'[j].request = 0
          \/ /\ agent'[j].request = agent[j].request
             /\ j = k => \A n \in DOMAIN <<e>> : <<e>>[n].kind = "message"
    BY <2>5, <2>6
  <2> DEFINE events == <<e>>
  <2>8. /\ events \in Seq(LogEvent) /\ Logged(k, events)
        /\ \A n \in DOMAIN events : events[n].kind # "request"
        /\ \A j \in SessionNumber :
             \/ agent'[j].request = 0
             \/ /\ agent'[j].request = agent[j].request
                /\ j = k => \A n \in DOMAIN events : events[n].kind = "message"
    BY <2>2, <2>6, <2>7
  <2> HIDE DEF events
  <2>9. RequestsLogged' /\ Asked'
    BY <1>1, <2>2, <2>4, <2>8, LogsOthers
  <2>10. Grows
    BY <1>1, <2>2, <2>4, <2>6, LoggedGrows DEF Grows
  <2> QED
    BY <2>9, <2>10
<1>3. CASE ServeSubmit(c)
  <2>1. UNCHANGED <<log, requests>> /\ (Resumes(c.session) \/ UNCHANGED agent)
    BY <1>3 DEF ServeSubmit
  <2>2. \A j \in SessionNumber : agent'[j].request = 0 \/ agent'[j].request = agent[j].request
    <3>1. ASSUME NEW j \in SessionNumber
          PROVE  agent'[j].request = 0 \/ agent'[j].request = agent[j].request
      <4>1. agent' = agent \/ agent'[j] = agent[j] \/ agent'[j].request = 0
        BY <1>1, <2>1 DEF Resumes, AgentIs, ServerType
      <4> QED
        BY <4>1
    <3> QED
      BY <3>1
  <2> QED
    BY <2>1, <2>2, LogsNothing DEF Grows
<1>4. CASE ~ServeSend(c) /\ ~ServeSubmit(c)
  <2>1. UNCHANGED <<log, requests, agent>>
    BY <1>4 DEF Serve, ServeCreate, ServeOther, ServeFails, serverVars
  <2> QED
    BY <2>1, LogsNothing DEF Grows
<1> QED
  BY <1>2, <1>3, <1>4

LEMMA LogSteps ==
    ASSUME RInv, RequestsLogged, Asked, [Next]_vars
    PROVE  RequestsLogged' /\ Asked' /\ Grows
<1>1. ASSUME UNCHANGED serverVars
      PROVE  RequestsLogged' /\ Asked' /\ Grows
  BY <1>1, LogsNothing DEF serverVars, Grows
<1>2. CASE Keys
  BY <1>1, <1>2 DEF Keys, KeyMessage, KeyNew, KeyQuery, KeyAnswer, Key
<1>3. ASSUME NEW c \in commands, HandleResult(c)
      PROVE  RequestsLogged' /\ Asked' /\ Grows
  BY <1>1, <1>3 DEF HandleResult, HandleError, SessionCreated, StreamReady, PermissionHandled,
                    QueryDone, Handled
<1>4. ASSUME NEW k, NEW i, HandleEvent(k, i)
      PROVE  RequestsLogged' /\ Asked' /\ Grows
  BY <1>1, <1>4 DEF HandleEvent, ShowEvent
<1>5. ASSUME NEW k \in SessionNumber, Take(k) \/ Break(k)
      PROVE  RequestsLogged' /\ Asked' /\ Grows
  BY <1>1, <1>5 DEF Take, Break
<1>6. ASSUME NEW k \in SessionNumber, RunStep(k)
      PROVE  RequestsLogged' /\ Asked' /\ Grows
  BY <1>6, AgentStep, AgentLogSteps DEF RInv, Grows
<1>7. ASSUME NEW c \in commands, Serve(c)
      PROVE  RequestsLogged' /\ Asked' /\ Grows
  BY <1>7, ServeLogSteps
<1>8. CASE UNCHANGED vars
  BY <1>1, <1>8 DEF vars
<1> QED
  BY <1>2, <1>3, <1>4, <1>5, <1>6, <1>7, <1>8 DEF Next, Update, Goroutines, Agents, RunStep

LEMMA OnlySessionsStays ==
    ASSUME RInv, OnlySessions, [Next]_vars
    PROVE  OnlySessions' /\ sessions' \in {sessions, sessions + 1}
<1>1. ServerType /\ \A c \in commands : GoodCommand(c)
  BY DEF RInv, ClientType
<1>2. sessions \in Nat /\ \A c \in commands : c.session \in 0..MaxSessions
      /\ sessionID \in 0..MaxSessions
  BY <1>1 DEF ServerType, GoodCommand, CommandFor, RInv, ClientType
<1>3. ASSUME UNCHANGED <<sessionID, sessions, log, agent>>,
             \A c \in commands' : c.session <= sessions
      PROVE  OnlySessions' /\ sessions' \in {sessions, sessions + 1}
  BY <1>3 DEF OnlySessions
<1>4. CASE Keys
  <2>1. PICK c : Key(c) /\ c.session \in {0, sessionID}
    BY <1>4 DEF Keys, KeyMessage, KeyNew, KeyQuery, KeyAnswer, Command
  <2>2. \A d \in commands' : d.session <= sessions
    BY <1>2, <2>1 DEF Key, OnlySessions
  <2> QED
    BY <1>3, <2>1, <2>2 DEF Key, serverVars
<1>5. ASSUME NEW k \in SessionNumber, RunStep(k)
      PROVE  OnlySessions' /\ sessions' \in {sessions, sessions + 1}
  <2>1. agent[k].step # "idle" /\ UNCHANGED <<sessionID, sessions, commands>>
    BY <1>5 DEF RunStep, AgentGoesOn, AgentHangs, Responds, Asks, TimesOut, Dispatches, Hangs,
                uiVars
  <2>2. \A j \in SessionNumber : j # k => agent'[j] = agent[j] /\ log'[j] = log[j]
    BY <1>1, <1>5 DEF RunStep, AgentGoesOn, AgentHangs, Responds, Asks, TimesOut, Resumes,
                      Dispatches, Hangs, AgentIs, Logged, ServerType
  <2>3. \A j \in SessionNumber : j > sessions => j # k
    BY <2>1 DEF OnlySessions
  <2> QED
    BY <2>1, <2>2, <2>3 DEF OnlySessions
<1>6. ASSUME NEW c \in commands, Serve(c)
      PROVE  OnlySessions' /\ sessions' \in {sessions, sessions + 1}
  <2>1. sessionID' = sessionID /\ c.session <= sessions
    BY <1>6 DEF Serve, uiVars, OnlySessions
  <2>2. CASE ServeCreate(c)
    <3>1. /\ sessions' = sessions + 1 /\ UNCHANGED <<log, agent>>
          /\ commands' = (commands \ {c}) \union
                           {[c EXCEPT !.state = "done", !.session = sessions + 1]}
      BY <2>2 DEF ServeCreate, Becomes
    <3>2. [c EXCEPT !.state = "done", !.session = sessions + 1].session = sessions + 1
      BY <1>1 DEF GoodCommand, CommandFor
    <3> DEFINE created == [c EXCEPT !.state = "done", !.session = sessions + 1]
    <3> HIDE DEF created
    <3>3. created.session = sessions + 1 /\ \A d \in commands' : d \in commands \/ d = created
      BY <3>1, <3>2 DEF created
    <3>4. \A d \in commands : d.session <= sessions
      BY DEF OnlySessions
    <3>5. \A d \in commands' : d.session <= sessions + 1
      BY ONLY <1>2, <3>3, <3>4
    <3>6. \A k \in SessionNumber : k > sessions + 1 => k > sessions
      BY <1>2 DEF SessionNumber
    <3> QED
      BY <1>2, <2>1, <3>1, <3>5, <3>6 DEF OnlySessions
  <2>3. CASE ~ServeCreate(c)
    <3>1. /\ sessions' = sessions
          /\ \/ commands' = commands \ {c}
             \/ \E s \in {"done", "failed"} : commands' = (commands \ {c}) \union {[c EXCEPT !.state = s]}
      BY <1>6, <2>3 DEF Serve, ServeSend, ServeSubmit, ServeOther, ServeFails, Answered, Failed,
                        Becomes, serverVars
    <3>2. \A s : [c EXCEPT !.state = s].session = c.session
      BY <1>1 DEF GoodCommand, CommandFor
    <3>3. \A d \in commands' : d.session <= sessions
      <4>1. ASSUME NEW d \in commands'
            PROVE  d.session <= sessions
        <5>1. d \in commands \/ \E s : d = [c EXCEPT !.state = s]
          BY <3>1
        <5> QED
          BY <2>1, <3>2, <5>1 DEF OnlySessions
      <4> QED
        BY <4>1
    <3>4. CASE ServeSend(c)
      <4>1. c.session \in SessionNumber
        BY <1>1, <3>4 DEF ServeSend, GoodCommand, CommandFor, SessionNumber
      <4>2. \A j \in SessionNumber : j # c.session => agent'[j] = agent[j] /\ log'[j] = log[j]
        BY <1>1, <3>4 DEF ServeSend, Logged, ServerType
      <4>3. \A j \in SessionNumber : j > sessions => j # c.session
        BY <1>2, <2>1, <4>1 DEF SessionNumber
      <4> QED
        BY <2>1, <3>1, <3>3, <4>2, <4>3 DEF OnlySessions
    <3>5. CASE ServeSubmit(c)
      <4>1. log' = log
            /\ \A j \in SessionNumber : j # c.session => agent'[j] = agent[j]
        BY <1>1, <3>5 DEF ServeSubmit, Resumes, AgentIs, ServerType
      <4>2. \A j \in SessionNumber : j > sessions => j # c.session
        BY <1>2, <2>1 DEF SessionNumber
      <4> QED
        BY <2>1, <3>1, <3>3, <4>1, <4>2 DEF OnlySessions
    <3>6. CASE ~ServeSend(c) /\ ~ServeSubmit(c)
      <4>1. UNCHANGED <<log, agent>>
        BY <1>6, <2>3, <3>6 DEF Serve, ServeOther, ServeFails, serverVars
      <4> QED
        BY <1>3, <2>1, <3>1, <3>3, <4>1
    <3> QED
      BY <3>4, <3>5, <3>6
  <2> QED
    BY <2>2, <2>3
<1>7. ASSUME NEW c \in commands, HandleResult(c)
      PROVE  OnlySessions' /\ sessions' \in {sessions, sessions + 1}
  <2>1. UNCHANGED serverVars /\ c.session <= sessions
    BY <1>7 DEF HandleResult, HandleError, SessionCreated, StreamReady, PermissionHandled,
                QueryDone, Handled, OnlySessions
  <2>2. CASE SessionCreated(c)
    <3>1. sessionID' = c.session /\ \A d \in commands' : d \in commands \/ d.session = c.session
      BY <2>2 DEF SessionCreated, Command
    <3> QED
      BY <2>1, <3>1 DEF OnlySessions, serverVars
  <2>3. CASE ~SessionCreated(c)
    <3>1. sessionID' = sessionID /\ commands' \subseteq commands
      BY <1>7, <2>3 DEF HandleResult, HandleError, StreamReady, PermissionHandled, QueryDone,
                        Handled
    <3> QED
      BY <1>3, <2>1, <3>1 DEF OnlySessions, serverVars
  <2> QED
    BY <2>2, <2>3
<1>8. ASSUME UNCHANGED <<sessionID, commands, serverVars>>
      PROVE  OnlySessions' /\ sessions' \in {sessions, sessions + 1}
  BY <1>3, <1>8 DEF OnlySessions, serverVars
<1>9. ASSUME NEW k, NEW i, HandleEvent(k, i)
      PROVE  OnlySessions' /\ sessions' \in {sessions, sessions + 1}
  BY <1>8, <1>9 DEF HandleEvent, ShowEvent
<1>10. ASSUME NEW k \in SessionNumber, Take(k) \/ Break(k)
       PROVE  OnlySessions' /\ sessions' \in {sessions, sessions + 1}
  BY <1>8, <1>10 DEF Take, Break, uiVars
<1>11. CASE UNCHANGED vars
  BY <1>8, <1>11 DEF vars, uiVars
<1> QED
  BY <1>4, <1>5, <1>6, <1>7, <1>9, <1>10, <1>11
     DEF Next, Update, Goroutines, Agents, RunStep

\* A log that grows is not shorter.
LEMMA NotShorter ==
    ASSUME ServerType, ServerType', Grows, NEW k \in SessionNumber
    PROVE  Len(log[k]) \in Nat /\ Len(log'[k]) \in Nat /\ Len(log[k]) <= Len(log'[k])
<1>1. log[k] \in Seq(LogEvent) /\ log'[k] \in Seq(LogEvent)
  BY DEF ServerType
<1>2. DOMAIN log[k] = 1..Len(log[k]) /\ DOMAIN log'[k] = 1..Len(log'[k])
      /\ Len(log[k]) \in Nat /\ Len(log'[k]) \in Nat
  BY <1>1
<1>3. \A i \in DOMAIN log[k] : i \in DOMAIN log'[k]
  BY DEF Grows
<1> QED
  BY ONLY <1>2, <1>3

LEMMA TakenLoggedStays ==
    ASSUME RInv, RInv', EInv, TakenLogged, Grows, [Next]_vars
    PROVE  TakenLogged'
<1>1. /\ \A k \in SessionNumber : /\ Len(log[k]) \in Nat /\ Len(log'[k]) \in Nat
                                  /\ Len(log[k]) <= Len(log'[k])
      /\ taken \in [SessionNumber -> Nat]
  BY NotShorter DEF RInv, EInv, GoroutineType
<1>2. CASE taken' = taken
  <2>1. ASSUME NEW k \in SessionNumber
        PROVE  taken'[k] <= Len(log'[k]) + 1
    <3>1. taken[k] \in Nat /\ taken'[k] = taken[k] /\ taken[k] <= Len(log[k]) + 1
      BY <1>1, <1>2 DEF TakenLogged
    <3> QED
      BY <1>1, <3>1
  <2> QED
    BY <2>1 DEF TakenLogged
<1>3. ASSUME NEW j \in SessionNumber, Take(j)
      PROVE  TakenLogged'
  <2>1. taken[j] <= Len(log[j]) /\ taken' = [taken EXCEPT ![j] = @ + 1]
    BY <1>3 DEF Take
  <2>2. ASSUME NEW k \in SessionNumber
        PROVE  taken'[k] <= Len(log'[k]) + 1
    <3>1. taken[k] \in Nat /\ taken[k] <= Len(log[k]) + 1
          /\ taken'[k] = IF k = j THEN taken[k] + 1 ELSE taken[k]
      BY <1>1, <2>1 DEF TakenLogged
    <3> QED
      BY <1>1, <2>1, <3>1
  <2> QED
    BY <2>2 DEF TakenLogged
<1>4. taken' = taken \/ \E j \in SessionNumber : Take(j)
  BY DEF Next, vars, Keys, KeyMessage, KeyNew, KeyQuery, KeyAnswer, Key, Update, HandleResult,
         HandleError, SessionCreated, StreamReady, PermissionHandled, QueryDone, Handled,
         HandleEvent, ShowEvent, Goroutines, Serve, ServeCreate, ServeSend, ServeSubmit,
         ServeOther, ServeFails, Agents, AgentGoesOn, AgentHangs, Break, eventVars
<1> QED
  BY <1>2, <1>3, <1>4

\* The event that is handled next, while there is one session.
LEMMA NextEvent ==
    ASSUME RInv, EInv, OneByOne, TakenLogged, sessions <= 1,
           NEW k, NEW i, <<k, i>> \in held
    PROVE  /\ k \in SessionNumber /\ i \in Nat /\ k <= sessions /\ i = shown[k] + 1
           /\ shown[k] \in Nat
           /\ i # 1 => i - 1 \in DOMAIN log[k] /\ EventAt(k, i) = log[k][i - 1]
<1>1. k \in SessionNumber /\ i \in Nat /\ shown[k] \in Nat
  BY DEF EInv, GoroutineType
<1>2. i = taken[k] /\ i = shown[k] + 1
  BY <1>1 DEF OneByOne
<1>3. k <= sessions
  <2>1. <<"held", k, i>> \in At(k)
    BY <1>1 DEF At, Streaming
  <2>2. k > sessions => At(k) = {}
    BY <1>1 DEF EInv, StartsOnce, Fresh
  <2> QED
    BY <1>1, <2>1, <2>2 DEF SessionNumber, RInv, ServerType
<1>4. i <= Len(log[k]) + 1 /\ Len(log[k]) \in Nat /\ DOMAIN log[k] = 1..Len(log[k])
  <2>1. log[k] \in Seq(LogEvent)
    BY <1>1 DEF RInv, ServerType
  <2>2. taken[k] <= Len(log[k]) + 1
    BY <1>1 DEF TakenLogged
  <2> QED
    BY <1>2, <2>1, <2>2
<1>5. i # 1 => i - 1 \in DOMAIN log[k]
  BY <1>1, <1>2, <1>4
<1> QED
  BY <1>1, <1>2, <1>3, <1>5 DEF EventAt

\* What a handled event does to the prompt.
LEMMA HandledPrompt ==
    ASSUME RInv, EInv, OneByOne, TakenLogged, PromptShown, sessions <= 1,
           NEW k, NEW i, HandleEvent(k, i), log' = log, sessions' = sessions
    PROVE  PromptShown'
<1>1. /\ k \in SessionNumber /\ i \in Nat /\ i = shown[k] + 1 /\ shown[k] \in Nat
      /\ i # 1 => i - 1 \in DOMAIN log[k] /\ EventAt(k, i) = log[k][i - 1]
  BY NextEvent DEF HandleEvent, ShowEvent
<1>2. /\ shown' = [shown EXCEPT ![k] = @ + 1] /\ prompt' = PromptAfter(EventAt(k, i))
      /\ shown \in [SessionNumber -> Nat]
  BY DEF HandleEvent, ShowEvent, EInv, GoroutineType
<1>3. shown'[k] = i /\ \A j \in SessionNumber : shown[j] \in Nat /\ shown'[j] \in Nat /\ shown[j] <= shown'[j]
  BY <1>1, <1>2
<1>4. SUFFICES ASSUME prompt' # None
               PROVE  \E j \in SessionNumber : \E n \in Nat : ShownAt(j, n)'
  BY DEF PromptShown
<1>5. CASE EventAt(k, i).kind = "request"
  <2>1. i # 1 /\ prompt'.request = EventAt(k, i).request
    BY <1>2, <1>5 DEF PromptAfter, EventAt, Event
  <2>2. i - 1 \in Nat /\ i - 1 < i
    BY <1>1, <2>1
  <2>3. ShownAt(k, i - 1)'
    BY <1>1, <1>3, <1>5, <2>1, <2>2 DEF ShownAt
  <2> QED
    BY <1>1, <2>2, <2>3
<1>6. CASE EventAt(k, i).kind # "request"
  <2>1. prompt' = prompt /\ prompt # None
    BY <1>2, <1>4, <1>6 DEF PromptAfter
  <2>2. PICK j \in SessionNumber : \E n \in Nat : ShownAt(j, n)
    BY <2>1 DEF PromptShown
  <2>3. PICK n \in Nat : ShownAt(j, n)
    BY <2>2
  <2>4. n < shown'[j]
    BY <1>3, <2>3 DEF ShownAt
  <2> QED
    BY <2>1, <2>3, <2>4 DEF ShownAt
<1> QED
  BY <1>5, <1>6

LEMMA PromptShownStays ==
    ASSUME RInv, EInv, OneByOne, TakenLogged, PromptShown, Grows, [Next]_vars,
           sessions' \in {sessions, sessions + 1}
    PROVE  PromptShown'
<1>1. sessions \in Nat
  BY DEF RInv, ServerType
<1>2. SUFFICES ASSUME sessions' <= 1
               PROVE  PromptShown'
  BY DEF PromptShown
<1>3. sessions <= 1
  BY <1>1, <1>2
<1>4. ASSUME NEW k, NEW i, HandleEvent(k, i)
      PROVE  PromptShown'
  <2>1. log' = log /\ sessions' = sessions
    BY <1>4 DEF HandleEvent, ShowEvent, serverVars
  <2> QED
    BY <1>3, <1>4, <2>1, HandledPrompt
<1>5. ASSUME prompt' = None \/ (prompt' = prompt /\ shown' = shown)
      PROVE  PromptShown'
  <2> SUFFICES ASSUME prompt' # None
               PROVE  \E j \in SessionNumber : \E n \in Nat : ShownAt(j, n)'
    BY DEF PromptShown
  <2>1. prompt' = prompt /\ shown' = shown /\ prompt # None
    BY <1>5
  <2>2. PICK j \in SessionNumber : \E n \in Nat : ShownAt(j, n)
    BY <1>3, <2>1 DEF PromptShown
  <2>3. PICK n \in Nat : ShownAt(j, n)
    BY <2>2
  <2>4. n \in DOMAIN log'[j] /\ log'[j][n] = log[j][n]
    BY <2>3 DEF ShownAt, Grows
  <2> QED
    BY <2>1, <2>3, <2>4 DEF ShownAt
<1>6. \/ \E k, i : HandleEvent(k, i)
      \/ prompt' = None
      \/ prompt' = prompt /\ shown' = shown
  BY DEF Next, vars, Keys, KeyMessage, KeyNew, KeyQuery, KeyAnswer, Key, Update, HandleResult,
         HandleError, SessionCreated, StreamReady, PermissionHandled, QueryDone, Handled,
         Goroutines, Take, Serve, ServeCreate, ServeSend, ServeSubmit, ServeOther, ServeFails,
         Agents, AgentGoesOn, AgentHangs, Break, uiVars, eventVars
<1> QED
  BY <1>4, <1>5, <1>6

LEMMA NextPInv == RInv /\ RInv' /\ EInv /\ OneByOne /\ PInv /\ [Next]_vars => PInv'
<1> SUFFICES ASSUME RInv, RInv', EInv, OneByOne, PInv, [Next]_vars
             PROVE  PInv'
  OBVIOUS
<1>1. OnlySessions' /\ sessions' \in {sessions, sessions + 1}
  BY OnlySessionsStays DEF PInv
<1>2. RequestsLogged' /\ Asked' /\ Grows
  BY LogSteps DEF PInv
<1>3. TakenLogged'
  BY <1>2, TakenLoggedStays DEF PInv
<1>4. PromptShown'
  BY <1>1, <1>2, PromptShownStays DEF PInv
<1> QED
  BY <1>1, <1>2, <1>3, <1>4 DEF PInv

LEMMA InitPInv == Init => PInv
<1> SUFFICES ASSUME Init PROVE PInv
  OBVIOUS
<1>1. \A k \in SessionNumber : log[k] = <<>> /\ DOMAIN log[k] = {} /\ agent[k].request = 0
                               /\ agent[k].step = "idle" /\ taken[k] = 0
  BY DEF Init
<1>2. TakenLogged
  BY <1>1 DEF TakenLogged
<1>3. OnlySessions /\ RequestsLogged /\ Asked /\ PromptShown
  BY <1>1 DEF Init, OnlySessions, RequestsLogged, Asked, PromptShown
<1> QED
  BY <1>2, <1>3 DEF PInv

\* A prompt whose request is waited for is changed by no event.
LEMMA OpenUnchanged ==
    ASSUME RInv, EInv, OneByOne, PInv, sessions = 1, Open,
           NEW k, NEW i, HandleEvent(k, i)
    PROVE  prompt' = prompt
<1>1. prompt # None /\ \E j \in SessionNumber : agent[j].request = prompt.request
  BY DEF Open
<1>2. PICK j \in SessionNumber : agent[j].request = prompt.request
  BY <1>1
<1>3. \E q \in SessionNumber : \E n \in Nat : ShownAt(q, n)
  BY <1>1 DEF PInv, PromptShown
<1>4. PICK q \in SessionNumber : \E n \in Nat : ShownAt(q, n)
  BY <1>3
<1>5. PICK n \in Nat : ShownAt(q, n)
  BY <1>4
<1>6. /\ n \in DOMAIN log[q] /\ n < shown[q]
      /\ log[q][n].kind = "request" /\ log[q][n].request = agent[j].request
  BY <1>2, <1>5 DEF ShownAt
<1>7. agent[j].request # 0
  BY <1>6 DEF PInv, RequestsLogged
<1>8. PICK p \in Nat : NothingAfter(j, p)
  BY <1>7 DEF PInv, Asked
<1>9. /\ k \in SessionNumber /\ i \in Nat /\ i = shown[k] + 1 /\ k <= 1 /\ shown[k] \in Nat
      /\ i # 1 => i - 1 \in DOMAIN log[k] /\ EventAt(k, i) = log[k][i - 1]
  BY NextEvent DEF HandleEvent, ShowEvent, PInv
<1>10. j = k /\ q = k
  <2>1. ~(j > 1) /\ ~(q > 1)
    BY <1>6, <1>7 DEF PInv, OnlySessions
  <2> QED
    BY <1>9, <2>1 DEF SessionNumber
<1>11. p \in DOMAIN log[k] /\ p = n /\ \A m \in DOMAIN log[k] : m > p => log[k][m].kind = "message"
  BY <1>6, <1>8, <1>10 DEF NothingAfter, PInv, RequestsLogged
<1>12. i # 1 /\ i - 1 > p
  BY <1>6, <1>9, <1>10, <1>11
<1>13. EventAt(k, i).kind = "message"
  BY <1>9, <1>11, <1>12
<1>14. prompt' = PromptAfter(EventAt(k, i))
  BY DEF HandleEvent, ShowEvent
<1> QED
  BY <1>13, <1>14 DEF PromptAfter

\* While there is one session, a prompt whose request is waited for is taken away
\* by nothing but the acknowledgement of an answer, though the client tells a
\* result by the name of its tool alone and gets those of a reply late.
THEOREM OpenPromptsStay == Spec => OpenPromptStays
<1>1. Init => OneByOne /\ PInv
  BY InitPInv DEF Init, OneByOne
<1>2. /\ RInv /\ EInv /\ OneByOne /\ PInv /\ [Next]_vars => OneByOne' /\ PInv'
  BY NextOneByOne, NextRInv, NextPInv
<1>3. RInv /\ EInv /\ OneByOne /\ PInv /\ [Next]_vars =>
        (sessions = 1 /\ Open /\ prompt' # prompt => \E c \in commands : PermissionHandled(c))
  <2> SUFFICES ASSUME RInv, EInv, OneByOne, PInv, [Next]_vars, sessions = 1, Open,
                      prompt' # prompt
               PROVE  \E c \in commands : PermissionHandled(c)
    OBVIOUS
  <2>1. ~ \E k, i : HandleEvent(k, i)
    BY OpenUnchanged
  <2> QED
    BY <2>1 DEF Next, vars, Keys, KeyMessage, KeyNew, KeyQuery, KeyAnswer, Key, Update,
                HandleResult, HandleError, SessionCreated, StreamReady, QueryDone, Goroutines,
                Take, Serve, Agents, AgentGoesOn, AgentHangs, Break, uiVars
<1> QED
  BY <1>1, <1>2, <1>3, EventsInvariant, PTL DEF Spec, OpenPromptStays

=============================================================================
