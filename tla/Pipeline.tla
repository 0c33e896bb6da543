------------------------------ MODULE Pipeline ------------------------------
(***************************************************************************)
(* A reply of the LLM on its way to a client: LLMStream and EventStream    *)
(* composed.  The dispatcher writes an llm_token event for every text it   *)
(* takes from the provider's channel, and dispatch writes the llm_response *)
(* at the end, into the log that the SSE handler polls meanwhile; others   *)
(* write to it too (messages, permission requests, tool results).  A panic *)
(* ends the process for all of them.                                       *)
(***************************************************************************)
EXTENDS EventStream, LLMStream

CONSTANT MaxTurns \* bound on what the LLM, the network and others do together

Token == "llm_token"
Response == "llm_response"

ASSUME PipelineAssumption ==
    /\ MaxTurns \in Nat
    /\ {Token, Response} \subseteq Kind

\* The events that others write.
OtherKind == Kind \ {Token, Response}

VARIABLES
    reply \* the llm_response: "none", "logged" or "failed"

pipelineVars == <<vars, llmVars, reply>>

PipelineInit ==
    /\ Init
    /\ LLMInit
    /\ reply = "none"

\* The pieces of the reply, the faults, the end of the session and the events
\* of others.
Turns ==
    Len(pieces) + tears + drops + (IF ctxDone THEN 1 ELSE 0)
      + Cardinality({i \in DOMAIN log : log[i].kind \in OtherKind})

\* The event is written, wholly or not, or writing fails at once.
Logs(kind) == AppendEvent(kind) \/ AppendTears(kind) \/ UNCHANGED vars

\* A token that could not be written is only missed in the log.
DispatcherConsumes ==
    /\ Consume
    /\ IF Head(outbox).texts # <<>> THEN Logs(Token) ELSE UNCHANGED vars
    /\ UNCHANGED reply

\* dispatch: when this fails, the run ends with the error.
DispatchLogs ==
    /\ dispatcher = "replied"
    /\ reply = "none"
    /\ \/ AppendEvent(Response) /\ reply' = "logged"
       \/ (AppendTears(Response) \/ UNCHANGED vars) /\ reply' = "failed"
    /\ UNCHANGED llmVars

Provider ==
    /\ serving
    /\ Goroutine
    /\ UNCHANGED <<vars, reply>>
    /\ Turns' <= MaxTurns

Dispatcher ==
    /\ serving
    /\ \/ /\ StartStream \/ StartFails \/ Chat \/ ChatPanics \/ ChatFails \/ Reply
          /\ UNCHANGED <<vars, reply>>
       \/ DispatcherConsumes
       \/ DispatchLogs
    /\ Turns' <= MaxTurns

\* Everybody else who writes to the log, the session, the handler, the
\* connection and the client.
Others ==
    /\ \/ /\ serving
          /\ \/ \E kind \in OtherKind : AppendEvent(kind) \/ AppendTears(kind)
             \/ Cancel \/ Delete
       \/ Drop \/ Handler \/ Consumer
    /\ UNCHANGED <<llmVars, reply>>
    /\ Turns' <= MaxTurns

\* Until it has ended, the others may still take steps.
Crash ==
    /\ panicking
    /\ ServerEnds
    /\ UNCHANGED <<llmVars, reply>>

PipelineNext == Provider \/ Dispatcher \/ Others \/ Crash

PipelineSpec == PipelineInit /\ [][PipelineNext]_pipelineVars

\* The goroutines of a reply are scheduled, a reply has an end, and so has a
\* process that panics; whether events reach the disk is left open.
PipelineFairness ==
    /\ WF_pipelineVars(Provider)
    /\ WF_pipelineVars(Dispatcher)
    /\ WF_pipelineVars(Crash)
    /\ WF_pipelineVars(Handler /\ UNCHANGED <<llmVars, reply>>)
    /\ WF_pipelineVars(Consumer /\ UNCHANGED <<llmVars, reply>>)

FairPipelineSpec == PipelineSpec /\ PipelineFairness

-----------------------------------------------------------------------------
\* What the composition must do.

\* The numbers, each once and in their order.
Lists(s, numbers) ==
    /\ Range(s) = numbers
    /\ \A i, j \in DOMAIN s : i < j => s[i] < s[j]

\* The texts of the reply that the reducer gets are those the LLM sent, all of
\* them and in their order, also when the stream breaks off or was never there.
Texts == {i \in DOMAIN pieces : pieces[i].text}

TextsKept == dispatcher = "replied" => Lists(content, Texts)

\* The parts of calls, those of the call with an index, and which are begun.
Parts == DOMAIN pieces \ Texts
PartsOf(index) == {i \in Parts : pieces[i].index = index}
Called == {pieces[i].index : i \in Parts} \ {NoIndex}
Named(index) == \E i \in PartsOf(index) : pieces[i].named

\* Calls with every piece of their arguments, once and in order, whatever
\* pieces of others came in between.
Whole(made) ==
    /\ Len(made) = Cardinality(Called)
    /\ \A index \in Called : \E k \in DOMAIN made :
         made[k].named = Named(index) /\ Lists(made[k].arguments, PartsOf(index))

\* Calls that came in one piece each.
InOnePiece(made) ==
    /\ \A k \in DOMAIN made : Len(made[k].arguments) = 1
    /\ Lists([k \in DOMAIN made |-> made[k].arguments[1]], Parts)

\* The tool calls of the reply are whole, and those the LLM sent; a stream of
\* openai that broke off gives no call at all, rather than the half of one.
CallsWhole ==
    dispatcher = "replied" =>
      CASE provider = "openai" /\ finished -> Whole(calls)
        [] provider = "openai" /\ ~finished -> calls = <<>>
        [] provider = "gemini" -> InOnePiece(calls)

\* The provider's goroutine and the dispatcher never wait for each other for
\* good: executeCallLLM returns, with the goroutine over, unless a reply that
\* makes the goroutine panic ends the process first.
CallReturns ==
    dispatcher = "consuming" ~>
        \/ dispatcher = "replied" /\ stream = "closed"
        \/ panicking /\ ~serving

-----------------------------------------------------------------------------
(***************************************************************************)
(* What the repository says and the code does not do.  TLC refutes it in   *)
(* the instance of PipelineReply, within seconds.                          *)
(***************************************************************************)

\* "Never panic on external input; prefer controlled fallback"
\* (docs/EN/02-architecture/system-design.md:105): whatever the LLM answers, the
\* server goes on, with its other sessions.
NeverPanics == ~panicking

=============================================================================
