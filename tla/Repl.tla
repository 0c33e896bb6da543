-------------------------------- MODULE Repl --------------------------------
(***************************************************************************)
(* The interactive client: the model and the Update loop of                *)
(* packages/cli/internal/commands/repl.go, the commands it starts as       *)
(* goroutines, the requests they make (client/client.go), and as much of   *)
(* the server's sessions as it talks to.                                   *)
(*                                                                         *)
(* Update handles one message at a time.  A command's goroutine makes its  *)
(* request, and its result waits until Update takes it; so does a          *)
(* goroutine that took an event from a stream's channel.  None waits for   *)
(* another.                                                                *)
(*                                                                         *)
(* Sessions, and their streams and channels, are numbered from 1.  What is *)
(* typed counts as a key when it does something.  Quitting ends it all and *)
(* has no action; nor have the texts on the screen, or the commands that   *)
(* only change them.                                                       *)
(***************************************************************************)
EXTENDS Naturals, Sequences, FiniteSets

CONSTANTS
    Tool,
    MaxSessions, \* bound on sessions
    MaxKeys,     \* bound on what the user types
    MaxRequests, \* bound on permission requests
    MaxFaults,   \* bound on requests that fail and streams that break
    MaxTurns     \* bound on keys, permission requests and faults together

ASSUME ReplBoundsAssumption ==
    /\ MaxSessions \in Nat /\ MaxKeys \in Nat
    /\ MaxRequests \in Nat /\ MaxFaults \in Nat /\ MaxTurns \in Nat

VARIABLES
    waiting,   \* m.waiting: Enter does nothing
    sessionID, \* m.sessionID, 0 for none
    eventCh,   \* m.eventCh, 0 for none
    prompt,    \* m.permissionRequest
    keys,
    commands,  \* the commands under way
    waiters,   \* how many goroutines wait on each session's channel
    held,      \* the events that wait for Update, by session and position
    taken,     \* how many events were taken from each channel
    shown,     \* how many of them Update handled
    stale,     \* and how many of those when it had turned to another channel
    broken,    \* sessions whose stream failed to start, or ended
    sessions,  \* how many sessions the server created
    log,       \* the events of each
    agent,     \* the run of each: what it does, and in the middle of a reply's calls
               \* the request it waits for and the results it has
    requests,
    messages,  \* the keys that were messages
    errors,    \* the keys whose command ended with an error
    faults

uiVars == <<waiting, sessionID, eventCh, prompt, keys, messages>>
eventVars == <<waiters, held, taken, shown, stale, broken>>
serverVars == <<sessions, log, agent, requests>>
vars == <<uiVars, commands, eventVars, serverVars, errors, faults>>

SessionNumber == 1..MaxSessions
None == [request |-> 0, tool |-> {}]
Asking == 1..MaxRequests

Init ==
    /\ waiting = FALSE
    /\ sessionID = 0
    /\ eventCh = 0
    /\ prompt = None
    /\ keys = 0
    /\ commands = {}
    /\ waiters = [k \in SessionNumber |-> 0]
    /\ held = {}
    /\ taken = [k \in SessionNumber |-> 0]
    /\ shown = [k \in SessionNumber |-> 0]
    /\ stale = [k \in SessionNumber |-> 0]
    /\ broken = {}
    /\ sessions = 0
    /\ log = [k \in SessionNumber |-> <<>>]
    /\ agent = [k \in SessionNumber |->
                 [step |-> "idle", request |-> 0, tool |-> {}, results |-> <<>>]]
    /\ requests = 0
    /\ messages = {}
    /\ errors = {}
    /\ faults = 0

MoreTurns == keys + requests + faults < MaxTurns

Fault ==
    /\ faults < MaxFaults
    /\ MoreTurns
    /\ faults' = faults + 1

-----------------------------------------------------------------------------
\* Keys.

\* key is the number of the key it comes from, request what it answers, and
\* typed whether it carries a message.
Command(kind, session, key, typed, request) ==
    [kind |-> kind, session |-> session, key |-> key, typed |-> typed,
     request |-> request, state |-> "sent"]

Key(command) ==
    /\ keys < MaxKeys
    /\ MoreTurns
    /\ keys' = keys + 1
    /\ commands' = commands \union {command}
    /\ messages' = messages \union {n \in {keys + 1} : command.typed}
    /\ UNCHANGED <<sessionID, eventCh, prompt, eventVars, serverVars, errors, faults>>

\* Without a prompt, and with nothing to wait for, Enter is heeded.
Enter == prompt = None /\ ~waiting /\ waiting' = TRUE

Creating == {c \in commands : c.kind = "create"}
MayCreate == sessions + Cardinality(Creating) < MaxSessions

\* The first message creates the session that it goes to.
KeyMessage ==
    /\ Enter
    /\ \/ /\ sessionID = 0 /\ MayCreate
          /\ Key(Command("create", 0, keys + 1, TRUE, 0))
       \/ /\ sessionID # 0
          /\ Key(Command("send", sessionID, keys + 1, TRUE, 0))

KeyNew ==
    /\ Enter
    /\ MayCreate
    /\ Key(Command("create", 0, keys + 1, FALSE, 0))

\* /checkpoints and /rewind.
KeyQuery ==
    /\ Enter
    /\ sessionID # 0
    /\ Key(Command("query", sessionID, keys + 1, FALSE, 0))

\* While there is a prompt, its answers are the only keys.
KeyAnswer ==
    /\ prompt # None
    /\ UNCHANGED waiting
    /\ Key(Command("submit", sessionID, keys + 1, FALSE, prompt.request))

-----------------------------------------------------------------------------
\* The server.

Event(kind, key, request, tool) ==
    [kind |-> kind, key |-> key, request |-> request, tool |-> tool]

Logged(k, events) == log' = [log EXCEPT ![k] = @ \o events]

AgentIs(k, step, request, tool, results) ==
    agent' = [agent EXCEPT ![k] = [step |-> step, request |-> request, tool |-> tool,
                                   results |-> results]]

\* A reply without calls, or an error, ends the run.
Responds(k) ==
    /\ agent[k].step = "working"
    /\ AgentIs(k, "idle", 0, {}, <<>>)
    /\ Logged(k, <<Event("response", 0, 0, {})>>)
    /\ UNCHANGED <<sessions, requests>>

\* A call of a reply that asks for permission: the first one, just after the
\* reply is logged, or the next.  Calls that do not ask are left out.
Asks(k) ==
    /\ agent[k].step \in {"working", "calling"}
    /\ requests < MaxRequests
    /\ MoreTurns
    /\ requests' = requests + 1
    /\ \E t \in Tool :
        /\ AgentIs(k, "asking", requests + 1, {t}, agent[k].results)
        /\ Logged(k, (IF agent[k].step = "working" THEN <<Event("response", 0, 0, {})>>
                                                   ELSE <<>>)
                        \o <<Event("request", 0, requests + 1, {t})>>)
    /\ UNCHANGED sessions

\* The tool, or the refusal to run it, has a result, which is kept until the
\* reply's last call is over.
Resumes(k) ==
    AgentIs(k, "calling", 0, {}, Append(agent[k].results, agent[k].tool))

\* Nobody answered in time.
TimesOut(k) ==
    /\ agent[k].step = "asking"
    /\ Resumes(k)
    /\ UNCHANGED <<sessions, log, requests>>

ResultEvents(k) ==
    [i \in DOMAIN agent[k].results |-> Event("result", 0, 0, agent[k].results[i])]

\* dispatch: after the last call the results are logged, all at once.
Dispatches(k) ==
    /\ agent[k].step = "calling"
    /\ AgentIs(k, "working", 0, {}, <<>>)
    /\ Logged(k, ResultEvents(k))
    /\ UNCHANGED <<sessions, requests>>

\* A tool has no timeout: one that does not return keeps the results of those
\* before it as well.
Hangs(k) ==
    /\ agent[k].step = "calling"
    /\ AgentIs(k, "hanging", 0, {}, agent[k].results)
    /\ UNCHANGED <<sessions, log, requests>>

AgentGoesOn(k) ==
    /\ Responds(k) \/ Asks(k) \/ TimesOut(k) \/ Dispatches(k)
    /\ UNCHANGED <<uiVars, commands, eventVars, errors, faults>>

AgentHangs(k) ==
    /\ Hangs(k)
    /\ UNCHANGED <<uiVars, commands, eventVars, errors, faults>>

-----------------------------------------------------------------------------
\* Commands.

Becomes(c, result) == commands' = (commands \ {c}) \union {result}

Answered(c) == Becomes(c, [c EXCEPT !.state = "done"])

\* An error before the request reached the server, or after.
Failed(c) == Becomes(c, [c EXCEPT !.state = "failed"])

ServeCreate(c) ==
    /\ c.kind = "create"
    /\ sessions' = sessions + 1
    /\ Becomes(c, [c EXCEPT !.state = "done", !.session = sessions + 1])
    /\ UNCHANGED <<log, agent, requests, eventVars, faults>>

\* Its event is logged, whatever the session is doing.  Success has no message.
ServeSend(c) ==
    /\ c.kind = "send"
    /\ Logged(c.session, <<Event("message", c.key, 0, {})>>)
    /\ agent' = [agent EXCEPT ![c.session].step = IF @ = "idle" THEN "working" ELSE @]
    /\ \/ commands' = commands \ {c} /\ UNCHANGED faults
       \/ Failed(c) /\ Fault
    /\ UNCHANGED <<sessions, requests, eventVars>>

\* An answer to a request that its session does not wait for is an error.
ServeSubmit(c) ==
    LET k == c.session IN
    /\ c.kind = "submit"
    /\ \/ /\ agent[k].step = "asking" /\ agent[k].request = c.request
          /\ Resumes(k)
          /\ Answered(c)
       \/ /\ ~(agent[k].step = "asking" /\ agent[k].request = c.request)
          /\ Failed(c)
          /\ UNCHANGED agent
    /\ UNCHANGED <<sessions, log, requests, eventVars, faults>>

ServeOther(c) ==
    /\ c.kind \in {"stream", "query"}
    /\ Answered(c)
    /\ UNCHANGED <<serverVars, eventVars, faults>>

ServeFails(c) ==
    /\ Fault
    /\ Failed(c)
    /\ broken' = IF c.kind = "stream" THEN broken \union {c.session} ELSE broken
    /\ UNCHANGED <<serverVars, waiters, held, taken, shown, stale>>

Serve(c) ==
    /\ c.state = "sent"
    /\ \/ ServeCreate(c) \/ ServeSend(c) \/ ServeSubmit(c) \/ ServeOther(c)
       \/ ServeFails(c)
    /\ UNCHANGED <<uiVars, errors>>

-----------------------------------------------------------------------------
\* Update, for the results of commands.

Handled(c) ==
    /\ c.state = "done"
    /\ commands' = commands \ {c}
    /\ UNCHANGED <<serverVars, errors, faults>>

\* Mutant: an error leaves the client waiting.
HandleErrorWaits(c) ==
    /\ c.state = "failed"
    /\ commands' = commands \ {c}
    /\ errors' = errors \union {c.key}
    /\ UNCHANGED <<uiVars, eventVars, serverVars, faults>>

\* errMsg: the prompt stays.
HandleError(c) ==
    /\ c.state = "failed"
    /\ waiting' = FALSE
    /\ commands' = commands \ {c}
    /\ errors' = errors \union {c.key}
    /\ UNCHANGED <<sessionID, eventCh, prompt, keys, messages, eventVars, serverVars, faults>>

\* Mutant: the message that the session was created for is not sent.
SessionCreatedOnly(c) ==
    /\ c.state = "done" /\ c.kind = "create"
    /\ sessionID' = c.session
    /\ waiting' = c.typed
    /\ commands' = (commands \ {c}) \union
           {Command("stream", c.session, c.key, FALSE, 0)}
    /\ UNCHANGED <<eventCh, prompt, keys, messages, eventVars, serverVars, errors, faults>>

\* sessionCreatedMsg: the stream, and the pending message, at the same time.
SessionCreated(c) ==
    /\ c.state = "done" /\ c.kind = "create"
    /\ sessionID' = c.session
    /\ waiting' = c.typed
    /\ commands' = (commands \ {c}) \union
           {Command("stream", c.session, c.key, FALSE, 0)} \union
           {Command("send", c.session, c.key, TRUE, 0) : typed \in {TRUE} \intersect {c.typed}}
    /\ UNCHANGED <<eventCh, prompt, keys, messages, eventVars, serverVars, errors, faults>>

Wait(channel) ==
    waiters' = IF channel \in broken THEN waiters
               ELSE [waiters EXCEPT ![channel] = @ + 1]

\* streamReadyMsg.
StreamReady(c) ==
    /\ c.kind = "stream"
    /\ Handled(c)
    /\ eventCh' = c.session
    /\ Wait(c.session)
    /\ UNCHANGED <<waiting, sessionID, prompt, keys, messages, held, taken, shown, stale, broken>>

\* permissionHandledMsg does not say which request was answered.
PermissionHandled(c) ==
    /\ c.kind = "submit"
    /\ Handled(c)
    /\ prompt' = None
    /\ UNCHANGED <<waiting, sessionID, eventCh, keys, messages, eventVars>>

\* checkpointsListedMsg and rewindCompletedMsg.
QueryDone(c) ==
    /\ c.kind = "query"
    /\ Handled(c)
    /\ waiting' = FALSE
    /\ UNCHANGED <<sessionID, eventCh, prompt, keys, messages, eventVars>>

HandleResult(c) ==
    \/ HandleError(c) \/ SessionCreated(c) \/ StreamReady(c)
    \/ PermissionHandled(c) \/ QueryDone(c)

-----------------------------------------------------------------------------
\* Events.

\* What a channel delivers: "connected", and the log from its beginning.
EventAt(k, i) ==
    IF i = 1 THEN Event("connected", 0, 0, {}) ELSE log[k][i - 1]

Take(k) ==
    /\ waiters[k] > 0
    /\ taken[k] <= Len(log[k])
    /\ taken' = [taken EXCEPT ![k] = @ + 1]
    /\ held' = held \union {<<k, taken[k] + 1>>}
    /\ waiters' = [waiters EXCEPT ![k] = @ - 1]
    /\ UNCHANGED <<uiVars, commands, shown, stale, broken, serverVars, errors, faults>>

\* The stream ends: nobody has more of its events to wait for.
Break(k) ==
    /\ Fault
    /\ k \in 1..sessions \ broken
    /\ \A c \in commands : ~(c.kind = "stream" /\ c.session = k)
    /\ broken' = broken \union {k}
    /\ waiters' = [waiters EXCEPT ![k] = 0]
    /\ UNCHANGED <<uiVars, commands, held, taken, shown, stale, serverVars, errors>>

\* Mutant: a tool's result leaves the prompt alone.
PromptAfterRequest(event) ==
    IF event.kind = "request" THEN [request |-> event.request, tool |-> event.tool]
    ELSE prompt

\* The prompt after an event.
PromptAfter(event) ==
    IF event.kind = "request" THEN [request |-> event.request, tool |-> event.tool]
    ELSE IF event.kind = "result" /\ prompt.tool = event.tool THEN None
    ELSE prompt

ShowEvent(k, i) ==
    /\ <<k, i>> \in held
    /\ held' = held \ {<<k, i>>}
    /\ shown' = [shown EXCEPT ![k] = @ + 1]
    /\ stale' = [stale EXCEPT ![k] = IF k = eventCh THEN @ ELSE @ + 1]
    /\ waiting' = FALSE
    /\ prompt' = PromptAfter(EventAt(k, i))
    /\ UNCHANGED <<sessionID, eventCh, keys, messages, commands, taken, broken,
                   serverVars, errors, faults>>

\* Mutant: the next event is awaited on the channel that this one came from.
HandleEventThere(k, i) == ShowEvent(k, i) /\ Wait(k)

\* Mutant: two goroutines wait for the next event.
HandleEventTwice(k, i) ==
    ShowEvent(k, i) /\ waiters' = [waiters EXCEPT ![eventCh] = 2]

\* Any event ends the waiting; the next is awaited on the current channel.
HandleEvent(k, i) == ShowEvent(k, i) /\ Wait(eventCh)

-----------------------------------------------------------------------------
Keys == KeyMessage \/ KeyNew \/ KeyQuery \/ KeyAnswer

Update ==
    \/ \E c \in commands : HandleResult(c)
    \/ \E e \in held : HandleEvent(e[1], e[2])

Goroutines ==
    \/ \E c \in commands : Serve(c)
    \/ \E k \in SessionNumber : Take(k)

Agents == \E k \in SessionNumber : AgentGoesOn(k)

Next ==
    \/ Keys \/ Update \/ Goroutines \/ Agents
    \/ \E k \in SessionNumber : AgentHangs(k) \/ Break(k)

Spec == Init /\ [][Next]_vars

\* What was started goes on, in the client and in the server, whose requests
\* time out; only a tool may hang.  The user may do nothing for ever.
FairSpec == Spec /\ WF_vars(Update) /\ WF_vars(Goroutines) /\ WF_vars(Agents)

-----------------------------------------------------------------------------
\* Properties.

\* A stream that the client has turned away from still shows the events of the
\* goroutines that waited on it, and no more: each session brings one, and the
\* last has not been turned away from.
FewStale == \A k \in SessionNumber : stale[k] > 0 => stale[k] < sessions

\* Before there is a second session, events are handled in the order of the log.
ShownInOrder ==
    [][\A e \in held : HandleEvent(e[1], e[2]) /\ sessions <= 1
            => e[2] = shown[e[1]] + 1]_vars

Lost == sessionID \in broken

\* Two streams started in one order and were ready in the other: messages go to
\* one session and events come from the other.
Crossed ==
    /\ eventCh # sessionID
    /\ \A c \in commands : c.kind \notin {"create", "stream"}

\* Enter is heeded again, whatever was typed, unless the stream is lost.
WaitingEnds == waiting ~> (~waiting \/ Lost \/ Crossed)

\* A typed message is on its way, in a session's log, or was reported as an
\* error: also the one that a session is created for.
NoMessageLost ==
    \A n \in messages :
        \/ \E c \in commands : c.key = n /\ c.typed
        \/ \E k \in SessionNumber : \E i \in DOMAIN log[k] : log[k][i].key = n
        \/ n \in errors

\* In the only session a prompt goes away, if only because the request times out,
\* unless a call of the same reply hangs: then its result is never logged.
PromptEnds ==
    (prompt # None /\ sessions = 1) ~>
        \/ prompt = None \/ sessions > 1 \/ Lost
        \/ agent[1].step = "hanging"

\* A session waits for an answer to the request that is shown.
Open == prompt # None /\ \E k \in SessionNumber : agent[k].request = prompt.request

\* In the only session nothing takes away a prompt that is waited for, no result
\* of another call of that tool and no other request, but the acknowledgement of
\* an answer: the client takes every result by the name of its tool alone.
OpenPromptStays ==
    [][sessions = 1 /\ Open /\ prompt' # prompt
         => \E c \in commands : PermissionHandled(c)]_vars

\* No session waits for an answer to the request that is shown, and keys that
\* are no answer are ignored, Ctrl-C too.
Locked == prompt # None /\ ~Open

\* The user interface does not stay locked, were it only for tools that return.
NeverLocked ==
    Locked ~> (~Locked \/ Lost \/ \E k \in SessionNumber : agent[k].step = "hanging")

-----------------------------------------------------------------------------
(***************************************************************************)
(* What the repository says and the code does not do.  TLC refutes it in   *)
(* the instance of ReplChat, within seconds.                               *)
(***************************************************************************)

\* "Clear permission request after successful submission" (repl.go:340): it is
\* the request of that submission which is cleared.
SubmittedIsCleared ==
    [][\A c \in commands : PermissionHandled(c) => prompt.request \in {0, c.request}]_vars

=============================================================================
