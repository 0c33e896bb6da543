----------------------------- MODULE LLMStream -----------------------------
(***************************************************************************)
(* One call of the LLM: the provider's goroutine that turns the chunks of  *)
(* a reply into StreamChunks (pkg/llm/openai/provider.go, gemini/          *)
(* provider.go), the unbuffered channel, and executeCallLLM that consumes  *)
(* it (pkg/runtime/dispatcher.go), with the fallback to a call without     *)
(* streaming.                                                              *)
(*                                                                         *)
(* The pieces of a reply are numbered as they arrive, texts and arguments  *)
(* of tool calls alike: what matters is which of them end up where.  A     *)
(* chunk with several pieces is as several chunks with one.                *)
(*                                                                         *)
(* A reply that lacks what the code takes from it unchecked makes it panic.*)
(* Nothing recovers: the deferred calls run, and then the process ends.    *)
(***************************************************************************)
EXTENDS Naturals, Sequences, SequencesExt

CONSTANTS
    Index,    \* the indexes a reply gives its tool calls
    NoIndex,  \* a piece of a tool call without one
    MaxPieces \* bound on the pieces of a reply

ASSUME PiecesAssumption ==
    /\ NoIndex \notin Index
    /\ MaxPieces \in Nat

VARIABLES
    provider,   \* "openai" or "gemini"
    stream,     \* the provider's goroutine: "none", "receiving", "returning", "closed"
    builder,    \* toolCallBuilder: the calls begun, by index
    outbox,     \* the StreamChunks it has to send before it goes on
    dispatcher, \* executeCallLLM: "idle", "consuming", "fallback", "replied", "failed",
                \* "panicked"
    content,    \* fullContent: the texts of the reply
    calls,      \* allToolCalls
    pieces,     \* what the LLM has sent of the reply
    finished,   \* and whether it has sent all of it
    panicking   \* a goroutine panics: the process is about to end

llmVars == <<provider, stream, builder, outbox, dispatcher, content, calls, pieces, finished,
             panicking>>

NoCalls == [index \in {} |-> <<>>]

LLMInit ==
    /\ provider \in {"openai", "gemini"}
    /\ stream = "none"
    /\ builder = NoCalls
    /\ outbox = <<>>
    /\ dispatcher = "idle"
    /\ content = <<>>
    /\ calls = <<>>
    /\ pieces = <<>>
    /\ finished = FALSE
    /\ panicking = FALSE

\* A piece is a text, or part of the tool call with that index; the first part
\* of a call names it, or a later one does.
TextPiece == [text |-> TRUE, index |-> NoIndex, named |-> FALSE]
CallPiece == [text : {FALSE}, index : Index \cup {NoIndex}, named : BOOLEAN]

Chunk(texts, tools) == [texts |-> texts, calls |-> tools]
NextPiece == Len(pieces) + 1
Received(piece) ==
    /\ Len(pieces) < MaxPieces
    /\ pieces' = Append(pieces, piece)

-----------------------------------------------------------------------------
\* executeCallLLM: the stream, or else Chat.

StartStream ==
    /\ dispatcher = "idle"
    /\ dispatcher' = "consuming"
    /\ stream' = "receiving"
    /\ UNCHANGED <<provider, builder, outbox, content, calls, pieces, finished, panicking>>

\* The conversation cannot be converted, or openai's request fails: gemini's is
\* only sent when the stream is read.
StartFails ==
    /\ dispatcher = "idle"
    /\ dispatcher' = "fallback"
    /\ UNCHANGED <<provider, stream, builder, outbox, content, calls, pieces, finished, panicking>>

\* Chat: the whole reply at once, a text or some calls.  What gemini cannot
\* convert for the stream it cannot convert for this either.
Chat ==
    /\ dispatcher = "fallback"
    /\ provider = "openai"
    /\ dispatcher' = "replied"
    /\ finished' = TRUE
    /\ \/ /\ Received(TextPiece)
          /\ content' = <<NextPiece>>
          /\ UNCHANGED calls
       \/ \E index \in Index :
            /\ Received([text |-> FALSE, index |-> index, named |-> TRUE])
            /\ calls' = <<[named |-> TRUE, arguments |-> <<NextPiece>>]>>
            /\ UNCHANGED content
    /\ UNCHANGED <<provider, stream, builder, outbox, panicking>>

\* openai's response has no choices, and the first of them is taken.
ChatPanics ==
    /\ dispatcher = "fallback"
    /\ provider = "openai"
    /\ dispatcher' = "panicked"
    /\ panicking' = TRUE
    /\ UNCHANGED <<provider, stream, builder, outbox, content, calls, pieces, finished>>

\* The error becomes an event.
ChatFails ==
    /\ dispatcher = "fallback"
    /\ dispatcher' = "failed"
    /\ UNCHANGED <<provider, stream, builder, outbox, content, calls, pieces, finished, panicking>>

-----------------------------------------------------------------------------
\* The provider's goroutine.

Receiving == stream = "receiving" /\ outbox = <<>>

\* A text is sent on at once.
ReceiveText ==
    /\ Receiving
    /\ Received(TextPiece)
    /\ outbox' = <<Chunk(<<NextPiece>>, <<>>)>>
    /\ UNCHANGED <<provider, stream, builder, dispatcher, content, calls, finished, panicking>>

\* Mutant: the arguments of the last piece only.
BuiltLast(index, named, number) ==
    LET begun == IF index \in DOMAIN builder THEN builder[index].named ELSE FALSE
        call  == [named |-> begun \/ named, arguments |-> <<number>>]
    IN  [i \in DOMAIN builder \cup {index} |-> IF i = index THEN call ELSE builder[i]]

\* The builder with a piece of the call with that index.
Built(index, named, number) ==
    LET begun == IF index \in DOMAIN builder THEN builder[index]
                                             ELSE [named |-> FALSE, arguments |-> <<>>]
        call  == [named     |-> begun.named \/ named,
                  arguments |-> Append(begun.arguments, number)]
    IN  [i \in DOMAIN builder \cup {index} |-> IF i = index THEN call ELSE builder[i]]

\* A piece without an index is skipped.
ReceiveCallPiece ==
    /\ Receiving
    /\ provider = "openai"
    /\ \E piece \in CallPiece :
         /\ Received(piece)
         /\ builder' = IF piece.index = NoIndex THEN builder
                       ELSE Built(piece.index, piece.named, NextPiece)
    /\ UNCHANGED <<provider, stream, outbox, dispatcher, content, calls, finished, panicking>>

\* finish_reason: the calls are sent, in the order of a map's iteration.
ReceiveFinish ==
    /\ Receiving
    /\ provider = "openai"
    /\ finished' = TRUE
    /\ stream' = "returning"
    /\ \E order \in SetToSeqs(DOMAIN builder) :
         outbox' = IF order = <<>> THEN <<>>
                   ELSE <<Chunk(<<>>, [i \in DOMAIN order |-> builder[order[i]]])>>
    /\ UNCHANGED <<provider, builder, dispatcher, content, calls, pieces, panicking>>

\* A chunk of gemini has whole calls, without ids.
ReceiveCall ==
    /\ Receiving
    /\ provider = "gemini"
    /\ \E index \in Index : Received([text |-> FALSE, index |-> index, named |-> FALSE])
    /\ outbox' = <<Chunk(<<>>, <<[named |-> FALSE, arguments |-> <<NextPiece>>]>>)>>
    /\ UNCHANGED <<provider, stream, builder, dispatcher, content, calls, finished, panicking>>

\* A chunk of gemini has no candidates, or the first of them no content: its
\* parts are asked for all the same, the deferred close runs, and the channel is
\* at its end for the dispatcher if it still comes to that.  openai's goroutine
\* goes on without a chunk that has no choices.
ReceiveEmpty ==
    /\ Receiving
    /\ provider = "gemini"
    /\ stream' = "closed"
    /\ panicking' = TRUE
    /\ UNCHANGED <<provider, builder, outbox, dispatcher, content, calls, pieces, finished>>

\* The stream is at its end, or broke off: the goroutine does not tell them
\* apart.  openai's has more to send only when finish_reason was not seen.
ReceiveEnds ==
    /\ Receiving
    /\ stream' = "returning"
    /\ finished' \in IF provider = "gemini" THEN BOOLEAN ELSE {FALSE}
    /\ UNCHANGED <<provider, builder, outbox, dispatcher, content, calls, pieces, panicking>>

\* Mutant: the channel stays open when the stream broke off.
CloseStreamFinished ==
    /\ stream = "returning"
    /\ finished
    /\ outbox = <<>>
    /\ stream' = "closed"
    /\ UNCHANGED <<provider, builder, outbox, dispatcher, content, calls, pieces, finished, panicking>>

CloseStream ==
    /\ stream = "returning"
    /\ outbox = <<>>
    /\ stream' = "closed"
    /\ UNCHANGED <<provider, builder, outbox, dispatcher, content, calls, pieces, finished, panicking>>

Goroutine ==
    \/ ReceiveText \/ ReceiveCallPiece \/ ReceiveFinish \/ ReceiveCall
    \/ ReceiveEmpty \/ ReceiveEnds \/ CloseStream

-----------------------------------------------------------------------------
\* executeCallLLM consumes the stream.

\* The goroutine sends the first chunk of its outbox, and the loop takes it.
Consume ==
    /\ dispatcher = "consuming"
    /\ outbox # <<>>
    /\ content' = content \o Head(outbox).texts
    /\ calls' = calls \o Head(outbox).calls
    /\ outbox' = Tail(outbox)
    /\ UNCHANGED <<provider, stream, builder, dispatcher, pieces, finished, panicking>>

\* Mutant: the reply is made when there is nothing to take.
ReplyEarly ==
    /\ dispatcher = "consuming"
    /\ outbox = <<>>
    /\ dispatcher' = "replied"
    /\ UNCHANGED <<provider, stream, builder, outbox, content, calls, pieces, finished, panicking>>

\* The channel is closed.
Reply ==
    /\ dispatcher = "consuming"
    /\ stream = "closed"
    /\ dispatcher' = "replied"
    /\ UNCHANGED <<provider, stream, builder, outbox, content, calls, pieces, finished, panicking>>

=============================================================================
