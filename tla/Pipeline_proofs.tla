-------------------------- MODULE Pipeline_proofs --------------------------
(***************************************************************************)
(* Proofs about a reply of the LLM on its way to a client.                 *)
(*                                                                         *)
(* The stream that carries its events is the one of EventStream: whatever  *)
(* the provider and the dispatcher do, it keeps its promise.               *)
(*                                                                         *)
(* The reply itself is made of what the LLM sent: the invariant, LInv,     *)
(* says at every stage where the pieces are that the reply does not have   *)
(* yet, in the provider's goroutine or on its channel.                     *)
(***************************************************************************)
EXTENDS Pipeline, EventStream_proofs, FiniteSetTheorems, SequenceTheorems

\* The steps of the reply write what EventStream lets anybody write.
LEMMA LogsStep ==
    ASSUME serving, NEW kind \in Kind, Logs(kind)
    PROVE  [Next]_vars
BY DEF Logs, Next, Environment

\* Every step of the composition is a step of the stream, or none.
LEMMA PipelineStep ==
    ASSUME [PipelineNext]_pipelineVars
    PROVE  [Next]_vars
<1>1. Token \in Kind /\ Response \in Kind
  BY PipelineAssumption
<1>2. CASE Provider
  BY <1>2 DEF Provider
<1>3. CASE Dispatcher
  <2>0. serving
    BY <1>3 DEF Dispatcher
  <2>1. CASE DispatcherConsumes
    BY <1>1, <2>0, <2>1, LogsStep DEF DispatcherConsumes
  <2>2. CASE DispatchLogs
    BY <1>1, <2>0, <2>2 DEF DispatchLogs, Next, Environment
  <2> QED
    BY <1>3, <2>1, <2>2 DEF Dispatcher
<1>4. CASE Others
  BY <1>4 DEF Others, OtherKind, Next, Environment
<1>5. CASE Crash
  BY <1>5 DEF Crash, Next, Environment
<1>6. CASE UNCHANGED pipelineVars
  BY <1>6 DEF pipelineVars
<1> QED
  BY <1>2, <1>3, <1>4, <1>5, <1>6 DEF PipelineNext

\* The composition uses the stream as EventStream specifies it: what is proved
\* of the stream holds while a reply's tokens go through it.
THEOREM PipelineUsesStream == PipelineSpec => Spec
<1>1. PipelineInit => Init
  BY DEF PipelineInit
<1>2. [PipelineNext]_pipelineVars => [Next]_vars
  BY PipelineStep
<1> QED
  BY <1>1, <1>2, PTL DEF PipelineSpec, Spec

\* A client gets the tokens of a reply, the reply and the events of others in
\* the order of the log, each once and none left out.
THEOREM PipelineDelivers == PipelineSpec => InOrder
BY PipelineUsesStream, StreamDelivers, PTL

-----------------------------------------------------------------------------
\* The reply on its way: what the dispatcher has of it, and what the goroutine
\* has yet to send.
Call == [named : BOOLEAN, arguments : Seq(Nat)]
Piece == {TextPiece} \union CallPiece
StreamChunk == [texts : Seq(Nat), calls : Seq(Call)]

LLMType ==
    /\ provider \in {"openai", "gemini"}
    /\ stream \in {"none", "receiving", "returning", "closed"}
    /\ dispatcher \in {"idle", "consuming", "fallback", "replied", "failed", "panicked"}
    /\ finished \in BOOLEAN
    /\ pieces \in Seq(Piece)
    /\ content \in Seq(Nat)
    /\ calls \in Seq(Call)
    /\ outbox \in Seq(StreamChunk)
    /\ DOMAIN builder \subseteq Index /\ IsFiniteSet(DOMAIN builder)
    /\ builder \in [DOMAIN builder -> Call]

\* Nothing is received before the stream starts, and a reply is made when the
\* channel is closed.
Stages ==
    /\ dispatcher \in {"idle", "fallback", "failed", "panicked"} =>
         /\ stream = "none" /\ ~finished
         /\ pieces = <<>> /\ content = <<>> /\ calls = <<>>
    /\ dispatcher = "consuming" => stream # "none"
    /\ dispatcher = "replied" => stream \in {"none", "closed"}
    /\ stream = "none" => DOMAIN builder = {}
    /\ stream \in {"none", "closed"} => outbox = <<>>
    /\ Len(outbox) <= 1
    /\ provider = "openai" /\ finished => stream # "receiving"

\* The texts and calls that have left the provider's hands.
SentTexts == IF outbox = <<>> THEN content ELSE content \o outbox[1].texts
SentCalls == IF outbox = <<>> THEN calls ELSE calls \o outbox[1].calls

\* What openai's goroutine has of the calls.
Begun ==
    provider = "openai" /\ stream # "none" =>
      /\ DOMAIN builder = Called
      /\ \A index \in Called :
           /\ builder[index].named = Named(index)
           /\ Lists(builder[index].arguments, PartsOf(index))

SentWhole ==
    /\ provider = "openai" /\ finished => Whole(SentCalls)
    /\ provider = "openai" /\ ~finished => SentCalls = <<>>
    /\ provider = "gemini" => InOnePiece(SentCalls)

LInv == LLMType /\ Stages /\ Lists(SentTexts, Texts) /\ Begun /\ SentWhole

-----------------------------------------------------------------------------
\* Lists of numbers.

LEMMA ListsNothing == Lists(<<>>, {})
BY DEF Lists, Range

\* A number that comes after all the others.
LEMMA ListsAppend ==
    ASSUME NEW s \in Seq(Nat), NEW numbers, Lists(s, numbers), NEW n \in Nat,
           \A i \in numbers : i < n
    PROVE  Append(s, n) \in Seq(Nat) /\ Lists(Append(s, n), numbers \union {n})
<1> DEFINE t == Append(s, n)
<1>1. /\ t \in Seq(Nat) /\ Len(t) = Len(s) + 1 /\ Len(s) \in Nat /\ t[Len(s) + 1] = n
      /\ \A i \in 1..Len(s) : t[i] = s[i]
      /\ DOMAIN t = 1..(Len(s) + 1) /\ DOMAIN s = 1..Len(s)
  OBVIOUS
<1> HIDE DEF t
<1>2. \A i \in DOMAIN s : s[i] \in numbers
  BY DEF Lists, Range
<1>3. \A i, j \in DOMAIN t : i < j => t[i] < t[j]
  <2> SUFFICES ASSUME NEW i \in DOMAIN t, NEW j \in DOMAIN t, i < j
               PROVE  t[i] < t[j]
    OBVIOUS
  <2>1. i \in 1..Len(s) /\ t[i] = s[i]
    BY <1>1
  <2>2. CASE j = Len(s) + 1
    BY <1>1, <1>2, <2>1, <2>2
  <2>3. CASE j \in 1..Len(s)
    BY <1>1, <2>1, <2>3 DEF Lists
  <2> QED
    BY <1>1, <2>2, <2>3
<1>4. Range(t) = numbers \union {n}
  <2>1. \A x \in Range(t) : x \in numbers \union {n}
    <3> SUFFICES ASSUME NEW i \in DOMAIN t
                 PROVE  t[i] \in numbers \union {n}
      BY DEF Range
    <3>1. i = Len(s) + 1 \/ i \in 1..Len(s)
      BY <1>1
    <3> QED
      BY <1>1, <1>2, <3>1
  <2>2. n \in Range(t)
    <3>1. Len(s) + 1 \in DOMAIN t
      BY <1>1
    <3> QED
      BY <1>1, <3>1 DEF Range
  <2>3. \A x \in numbers : x \in Range(t)
    <3> SUFFICES ASSUME NEW x \in numbers
                 PROVE  x \in Range(t)
      OBVIOUS
    <3>1. PICK i \in DOMAIN s : s[i] = x
      BY DEF Lists, Range
    <3>2. i \in DOMAIN t /\ t[i] = x
      BY <1>1, <3>1
    <3> QED
      BY <3>2 DEF Range
  <2> QED
    BY <2>1, <2>2, <2>3
<1>5. Lists(t, numbers \union {n})
  BY <1>3, <1>4 DEF Lists
<1> QED
  BY <1>1, <1>5 DEF t

LEMMA ListsOne ==
    ASSUME NEW n \in Nat
    PROVE  <<n>> \in Seq(Nat) /\ Lists(<<n>>, {n})
BY DEF Lists, Range

\* What a piece more changes.
LEMMA PieceReceived ==
    ASSUME LLMType, NEW piece \in Piece, Received(piece), NEW n, n = NextPiece
    PROVE  /\ n \in Nat /\ pieces' \in Seq(Piece) /\ pieces' # <<>>
           /\ \A i \in DOMAIN pieces : i \in Nat /\ i < n
           /\ Texts' = IF piece.text THEN Texts \union {n} ELSE Texts
           /\ Parts' = IF piece.text THEN Parts ELSE Parts \union {n}
           /\ Called' = IF piece.text \/ piece.index = NoIndex THEN Called
                        ELSE Called \union {piece.index}
           /\ \A index :
                LET it == ~piece.text /\ piece.index = index IN
                  /\ PartsOf(index)' = IF it THEN PartsOf(index) \union {n} ELSE PartsOf(index)
                  /\ Named(index)' = (Named(index) \/ (it /\ piece.named))
<1>1. /\ pieces \in Seq(Piece) /\ pieces' = Append(pieces, piece) /\ n = Len(pieces) + 1
      /\ n \in Nat /\ pieces' \in Seq(Piece) /\ Len(pieces) \in Nat
      /\ DOMAIN pieces = 1..Len(pieces) /\ DOMAIN pieces' = 1..n /\ pieces'[n] = piece
      /\ \A i \in 1..Len(pieces) : pieces'[i] = pieces[i]
      /\ pieces' # <<>>
  <2>1. pieces \in Seq(Piece) /\ pieces' = Append(pieces, piece) /\ n = Len(pieces) + 1
    BY DEF LLMType, Received, NextPiece
  <2>2. pieces' \in Seq(Piece) /\ Len(pieces') = n /\ Len(pieces) \in Nat /\ n \in Nat
    BY <2>1
  <2>3. DOMAIN pieces = 1..Len(pieces) /\ DOMAIN pieces' = 1..n /\ pieces' # <<>>
    BY <2>1, <2>2
  <2>4. pieces'[n] = piece /\ \A i \in 1..Len(pieces) : pieces'[i] = pieces[i]
    BY <2>1, AppendProperties
  <2> QED
    BY <2>1, <2>2, <2>3, <2>4
<1>2. /\ DOMAIN pieces' = DOMAIN pieces \union {n} /\ n \notin DOMAIN pieces
      /\ \A i \in DOMAIN pieces : pieces'[i] = pieces[i]
      /\ \A i \in DOMAIN pieces : i \in Nat /\ i < n
  BY <1>1
<1>3. Texts' = IF piece.text THEN Texts \union {n} ELSE Texts
  BY <1>1, <1>2 DEF Texts
<1>4. Parts' = IF piece.text THEN Parts ELSE Parts \union {n}
  BY <1>2, <1>3 DEF Parts, Texts
<1>5. \A i \in Parts : i \in DOMAIN pieces /\ i # n
  BY <1>2 DEF Parts
<1>6. Called' = IF piece.text \/ piece.index = NoIndex THEN Called
                ELSE Called \union {piece.index}
  BY <1>1, <1>2, <1>4, <1>5 DEF Called
<1>7. ASSUME NEW index
      PROVE  PartsOf(index)' = IF ~piece.text /\ piece.index = index
                                 THEN PartsOf(index) \union {n} ELSE PartsOf(index)
  BY <1>1, <1>2, <1>4, <1>5 DEF PartsOf
<1>8. ASSUME NEW index
      PROVE  Named(index)' = (Named(index) \/ (~piece.text /\ piece.index = index /\ piece.named))
  <2>1. \A i \in PartsOf(index) : i \in DOMAIN pieces /\ pieces'[i] = pieces[i]
    BY <1>2, <1>5 DEF PartsOf
  <2>2. CASE ~piece.text /\ piece.index = index
    BY <1>1, <1>7, <2>1, <2>2 DEF Named
  <2>3. CASE ~(~piece.text /\ piece.index = index)
    BY <1>7, <2>1, <2>3 DEF Named
  <2> QED
    BY <2>2, <2>3
<1> QED
  BY <1>1, <1>2, <1>3, <1>4, <1>6, <1>7, <1>8

\* Nothing that the LLM sends changes when no piece comes.
LEMMA SamePieces ==
    ASSUME pieces' = pieces
    PROVE  /\ Texts' = Texts /\ Parts' = Parts /\ Called' = Called
           /\ \A index : PartsOf(index)' = PartsOf(index) /\ Named(index)' = Named(index)
           /\ \A made : Whole(made)' = Whole(made) /\ InOnePiece(made)' = InOnePiece(made)
BY DEF Texts, Parts, Called, PartsOf, Named, Whole, InOnePiece

\* Every element of the set has its place in the sequence.
LEMMA Ordered ==
    ASSUME NEW S, IsFiniteSet(S), NEW order \in SetToSeqs(S)
    PROVE  /\ Cardinality(S) \in Nat /\ order \in [1..Cardinality(S) -> S]
           /\ \A x \in S : \E k \in 1..Cardinality(S) : order[k] = x
<1> DEFINE n == Cardinality(S)
<1>1. n \in Nat
  BY FS_CardinalityType
<1>2. order \in [1..n -> S] /\ \A i, j \in 1..n : i # j => order[i] # order[j]
  BY DEF SetToSeqs
<1>3. order \in Injection(1..n, S)
  BY <1>2 DEF Injection, IsInjective
<1>4. Cardinality(1..n) = n
  BY <1>1, FS_Interval
<1>5. order \in Surjection(1..n, S)
  BY <1>3, <1>4, FS_Injection
<1> QED
  BY <1>1, <1>2, <1>5 DEF Surjection

\* The goroutine sends all that it has of the calls.
LEMMA AllSent ==
    ASSUME LLMType, DOMAIN builder = Called,
           \A index \in Called : /\ builder[index].named = Named(index)
                                 /\ Lists(builder[index].arguments, PartsOf(index)),
           NEW order \in SetToSeqs(DOMAIN builder), NEW made,
           made = [i \in DOMAIN order |-> builder[order[i]]]
    PROVE  /\ made \in Seq(Call) /\ order \in Seq(Index)
           /\ Whole(made)
<1>1. /\ Cardinality(Called) \in Nat /\ order \in [1..Cardinality(Called) -> Called]
      /\ \A x \in Called : \E k \in 1..Cardinality(Called) : order[k] = x
  <2>1. IsFiniteSet(Called) /\ order \in SetToSeqs(Called)
    BY DEF LLMType
  <2> QED
    BY <2>1, Ordered
<1>2. DOMAIN order = 1..Cardinality(Called) /\ \A k \in DOMAIN order : order[k] \in Called
  BY <1>1
<1>3. order \in Seq(Index)
  <2>1. Called \subseteq Index
    BY DEF LLMType
  <2>2. order \in [1..Cardinality(Called) -> Index]
    BY <1>1, <2>1
  <2> QED
    BY <1>1, <2>2
<1>4. made \in [1..Cardinality(Called) -> Call]
  BY <1>2 DEF LLMType
<1>5. made \in Seq(Call) /\ Len(made) = Cardinality(Called) /\ DOMAIN made = DOMAIN order
  BY <1>1, <1>2, <1>4
<1>6. \A index \in Called : \E k \in DOMAIN made :
        made[k].named = Named(index) /\ Lists(made[k].arguments, PartsOf(index))
  BY <1>1, <1>2, <1>5
<1> QED
  BY <1>3, <1>5, <1>6 DEF Whole

\* openai's goroutine gets a piece of a call.
LEMMA BuiltGrows ==
    ASSUME LLMType, NEW index \in Index, NEW named \in BOOLEAN, NEW n \in Nat,
           builder' = Built(index, named, n)
    PROVE  /\ DOMAIN builder' = DOMAIN builder \union {index}
           /\ builder' \in [DOMAIN builder' -> Call]
           /\ \A i \in DOMAIN builder : i # index => builder'[i] = builder[i]
           /\ builder'[index] =
                IF index \in DOMAIN builder
                  THEN [named     |-> builder[index].named \/ named,
                        arguments |-> Append(builder[index].arguments, n)]
                  ELSE [named |-> named, arguments |-> <<n>>]
<1> DEFINE begun == IF index \in DOMAIN builder THEN builder[index]
                    ELSE [named |-> FALSE, arguments |-> <<>>]
           call == [named |-> begun.named \/ named, arguments |-> Append(begun.arguments, n)]
<1>1. begun \in Call
  BY DEF LLMType, Call
<1>2. call \in Call
  <2>1. begun.named \in BOOLEAN /\ begun.arguments \in Seq(Nat)
    BY <1>1 DEF Call
  <2> HIDE DEF begun
  <2>2. Append(begun.arguments, n) \in Seq(Nat) /\ (begun.named \/ named) \in BOOLEAN
    BY <2>1
  <2> QED
    BY <2>2 DEF Call
<1>3. builder' = [i \in DOMAIN builder \union {index} |-> IF i = index THEN call ELSE builder[i]]
  BY DEF Built
<1>4. call = IF index \in DOMAIN builder
               THEN [named     |-> builder[index].named \/ named,
                     arguments |-> Append(builder[index].arguments, n)]
               ELSE [named |-> named, arguments |-> <<n>>]
  <2>1. CASE index \in DOMAIN builder
    BY <2>1
  <2>2. CASE index \notin DOMAIN builder
    <3>1. begun.named = FALSE /\ begun.arguments = <<>>
      BY <2>2
    <3> HIDE DEF begun
    <3>2. (begun.named \/ named) = named /\ Append(begun.arguments, n) = <<n>>
      BY <3>1
    <3> QED
      BY <2>2, <3>2
  <2> QED
    BY <2>1, <2>2
<1> HIDE DEF call
<1>5. DOMAIN builder' = DOMAIN builder \union {index} /\ builder'[index] = call
      /\ \A i \in DOMAIN builder : i # index => builder'[i] = builder[i]
  BY <1>3
<1>6. builder' \in [DOMAIN builder' -> Call]
  BY <1>2, <1>3, <1>5 DEF LLMType
<1> QED
  BY <1>4, <1>5, <1>6

-----------------------------------------------------------------------------
\* What the provider's goroutine does.

\* While it receives, it has nothing to send, and a reply of openai that is
\* not over has no calls.
LEMMA WhileReceiving ==
    ASSUME LInv, Receiving
    PROVE  /\ dispatcher = "consuming" /\ stream = "receiving" /\ outbox = <<>>
           /\ SentTexts = content /\ SentCalls = calls
           /\ provider = "openai" => ~finished /\ calls = <<>>
BY DEF Receiving, LInv, LLMType, Stages, SentTexts, SentCalls, SentWhole

LEMMA ReceiveTextInv ==
    ASSUME LInv, ReceiveText
    PROVE  LInv'
<1> USE DEF LInv
<1>1. /\ dispatcher = "consuming" /\ stream = "receiving" /\ outbox = <<>>
      /\ SentTexts = content /\ SentCalls = calls
      /\ provider = "openai" => ~finished /\ calls = <<>>
  BY WhileReceiving DEF ReceiveText
<1>2. PICK n : n = NextPiece
  OBVIOUS
<1>3. /\ n \in Nat /\ pieces' \in Seq(Piece) /\ \A i \in DOMAIN pieces : i \in Nat /\ i < n
      /\ Texts' = Texts \union {n} /\ Parts' = Parts /\ Called' = Called
      /\ \A index : PartsOf(index)' = PartsOf(index) /\ Named(index)' = Named(index)
  <2>1. PICK piece : piece = TextPiece
    OBVIOUS
  <2>2. piece \in Piece /\ piece.text /\ Received(piece)
    BY <2>1 DEF Piece, TextPiece, ReceiveText
  <2>3. /\ n \in Nat /\ pieces' \in Seq(Piece) /\ \A i \in DOMAIN pieces : i \in Nat /\ i < n
        /\ Texts' = Texts \union {n} /\ Parts' = Parts /\ Called' = Called
    BY <1>2, <2>2, PieceReceived
  <2>4. \A index : PartsOf(index)' = PartsOf(index)
    BY <1>2, <2>2, PieceReceived
  <2>5. \A index : Named(index)' = Named(index)
    <3>1. \A i \in Parts : pieces'[i] = pieces[i]
      BY <2>2 DEF Parts, Received, LLMType
    <3> QED
      BY <2>4, <3>1 DEF Named, PartsOf
  <2> QED
    BY <2>3, <2>4, <2>5
<1>4. /\ outbox' = <<[texts |-> <<n>>, calls |-> <<>>]>>
      /\ UNCHANGED <<provider, stream, builder, dispatcher, content, calls, finished>>
  BY <1>2 DEF ReceiveText, Chunk
<1>5. content \in Seq(Nat) /\ calls \in Seq(Call)
  BY DEF LLMType
<1>6. SentTexts' = Append(content, n) /\ SentCalls' = calls
  <2>1. /\ outbox' # <<>> /\ outbox'[1].texts = <<n>> /\ outbox'[1].calls = <<>>
        /\ content' = content /\ calls' = calls
    BY <1>4
  <2>2. content \o <<n>> = Append(content, n) /\ calls \o <<>> = calls
    BY <1>3, <1>5
  <2> QED
    BY <2>1, <2>2 DEF SentTexts, SentCalls
<1>7. LLMType'
  <2>1. [texts |-> <<n>>, calls |-> <<>>] \in StreamChunk
    BY <1>3 DEF StreamChunk
  <2>2. outbox' \in Seq(StreamChunk)
    BY <1>4, <2>1
  <2> QED
    BY <1>3, <1>4, <2>2 DEF LLMType
<1>8. Stages'
  BY <1>1, <1>4 DEF Stages
<1>9. Lists(SentTexts, Texts)'
  <2>1. \A i \in Texts : i < n
    BY <1>3 DEF Texts
  <2> QED
    BY <1>1, <1>3, <1>5, <1>6, <2>1, ListsAppend
<1>10. Begun'
  BY <1>3, <1>4 DEF Begun
<1>11. SentWhole'
  BY <1>1, <1>3, <1>4, <1>6 DEF SentWhole, InOnePiece
<1> QED
  BY <1>7, <1>8, <1>9, <1>10, <1>11

LEMMA ReceiveCallPieceInv ==
    ASSUME LInv, ReceiveCallPiece
    PROVE  LInv'
<1> USE DEF LInv
<1>1. /\ dispatcher = "consuming" /\ stream = "receiving" /\ outbox = <<>>
      /\ SentTexts = content /\ SentCalls = calls
      /\ ~finished /\ calls = <<>> /\ provider = "openai"
  BY WhileReceiving DEF ReceiveCallPiece
<1>2. PICK n : n = NextPiece
  OBVIOUS
<1>3. PICK piece \in CallPiece :
        /\ Received(piece)
        /\ builder' = IF piece.index = NoIndex THEN builder
                      ELSE Built(piece.index, piece.named, n)
  BY <1>2 DEF ReceiveCallPiece
<1>4. piece \in Piece /\ piece.text = FALSE /\ piece.named \in BOOLEAN
      /\ piece.index \in Index \union {NoIndex}
  BY DEF Piece, CallPiece
<1>5. /\ n \in Nat /\ pieces' \in Seq(Piece) /\ \A i \in DOMAIN pieces : i \in Nat /\ i < n
      /\ Texts' = Texts
      /\ Called' = IF piece.index = NoIndex THEN Called ELSE Called \union {piece.index}
      /\ \A index :
           /\ PartsOf(index)' = IF piece.index = index THEN PartsOf(index) \union {n}
                                ELSE PartsOf(index)
           /\ Named(index)' = (Named(index) \/ (piece.index = index /\ piece.named))
  BY <1>2, <1>3, <1>4, PieceReceived
<1>6. UNCHANGED <<provider, stream, outbox, dispatcher, content, calls, finished>>
  BY DEF ReceiveCallPiece
<1>7. SentTexts' = SentTexts /\ SentCalls' = <<>>
  BY <1>1, <1>6 DEF SentTexts, SentCalls
<1>8. Stages' /\ Lists(SentTexts, Texts)' /\ SentWhole'
  BY <1>1, <1>5, <1>6, <1>7 DEF Stages, SentWhole
<1>9. DOMAIN builder = Called /\ NoIndex \notin Index /\ DOMAIN builder \subseteq Index
      /\ \A index \in Called : /\ builder[index].named = Named(index)
                               /\ Lists(builder[index].arguments, PartsOf(index))
  BY <1>1, PiecesAssumption DEF Begun, LLMType
<1>10. CASE piece.index = NoIndex
  <2>1. builder' = builder /\ Called' = Called
        /\ \A index \in Called : PartsOf(index)' = PartsOf(index) /\ Named(index)' = Named(index)
    BY <1>3, <1>5, <1>9, <1>10 DEF Named
  <2> QED
    BY <1>5, <1>6, <1>8, <1>9, <2>1 DEF LLMType, Begun
<1>11. CASE piece.index # NoIndex
  <2>1. PICK k \in Index : k = piece.index /\ builder' = Built(k, piece.named, n)
    BY <1>3, <1>4, <1>11
  <2>2. /\ DOMAIN builder' = DOMAIN builder \union {k}
        /\ builder' \in [DOMAIN builder' -> Call]
        /\ \A i \in DOMAIN builder : i # k => builder'[i] = builder[i]
        /\ builder'[k] =
             IF k \in DOMAIN builder
               THEN [named     |-> builder[k].named \/ piece.named,
                     arguments |-> Append(builder[k].arguments, n)]
               ELSE [named |-> piece.named, arguments |-> <<n>>]
    <3>1. LLMType /\ n \in Nat /\ piece.named \in BOOLEAN
      BY <1>4, <1>5
    <3> QED
      BY ONLY <2>1, <3>1, BuiltGrows, k \in Index, ZenonT(30)
  <2>3. Called' = Called \union {k}
    BY <1>5, <1>11, <2>1
  <2>4. PartsOf(k)' = PartsOf(k) \union {n} /\ Named(k)' = (Named(k) \/ piece.named)
        /\ \A i : i # k => PartsOf(i)' = PartsOf(i)
    BY <1>5, <2>1
  <2>5. \A i : i # k => Named(i)' = Named(i)
    BY <1>5, <2>1 DEF Named
  <2>6. LLMType'
    <3>1. IsFiniteSet(DOMAIN builder')
      <4>1. IsFiniteSet(DOMAIN builder)
        BY DEF LLMType
      <4>2. IsFiniteSet((DOMAIN builder) \union {k})
        BY <4>1, FS_AddElement
      <4> QED
        BY <2>2, <4>2
    <3>2. DOMAIN builder' \subseteq Index
      BY <1>9, <2>1, <2>2
    <3> QED
      BY <1>5, <1>6, <2>2, <3>1, <3>2 DEF LLMType
  <2>7. builder'[k].named = Named(k)' /\ Lists(builder'[k].arguments, PartsOf(k)')
    <3>1. CASE k \in Called
      <4>1. builder'[k].named = (builder[k].named \/ piece.named)
            /\ builder'[k].arguments = Append(builder[k].arguments, n)
        BY <1>9, <2>2, <3>1
      <4>2. builder[k].arguments \in Seq(Nat) /\ Lists(builder[k].arguments, PartsOf(k))
        BY <1>9, <3>1 DEF LLMType, Call
      <4>3. \A i \in PartsOf(k) : i < n
        BY <1>5 DEF PartsOf, Parts
      <4>4. Lists(Append(builder[k].arguments, n), PartsOf(k) \union {n})
        BY <1>5, <4>2, <4>3, ListsAppend
      <4> QED
        BY <1>9, <2>4, <3>1, <4>1, <4>4
    <3>2. CASE k \notin Called
      <4>1. PartsOf(k) = {}
        BY <1>11, <2>1, <3>2 DEF PartsOf, Called
      <4>2. Named(k) = FALSE
        BY <4>1 DEF Named
      <4>3. builder'[k].named = piece.named /\ builder'[k].arguments = <<n>>
        BY <1>9, <2>2, <3>2
      <4>4. PartsOf(k)' = {n} /\ Named(k)' = piece.named
        BY <1>4, <2>4, <4>1, <4>2
      <4> QED
        BY <1>5, <4>3, <4>4, ListsOne
    <3> QED
      BY <3>1, <3>2
  <2>8. ASSUME NEW i \in Called', i # k
        PROVE  builder'[i].named = Named(i)' /\ Lists(builder'[i].arguments, PartsOf(i)')
    BY <1>9, <2>2, <2>3, <2>4, <2>5, <2>8
  <2>9. Begun'
    BY <1>9, <2>2, <2>3, <2>7, <2>8 DEF Begun
  <2> QED
    BY <1>8, <2>6, <2>9
<1> QED
  BY <1>10, <1>11

LEMMA ReceiveFinishInv ==
    ASSUME LInv, ReceiveFinish
    PROVE  LInv'
<1> USE DEF LInv
<1>1. /\ dispatcher = "consuming" /\ stream = "receiving" /\ outbox = <<>>
      /\ SentTexts = content /\ SentCalls = calls
      /\ ~finished /\ calls = <<>> /\ provider = "openai"
  BY WhileReceiving DEF ReceiveFinish
<1>2. finished' = TRUE /\ stream' = "returning"
      /\ UNCHANGED <<provider, builder, dispatcher, content, calls, pieces>>
  BY DEF ReceiveFinish
<1>3. PICK order \in SetToSeqs(DOMAIN builder) :
        outbox' = IF order = <<>> THEN <<>>
                  ELSE <<Chunk(<<>>, [i \in DOMAIN order |-> builder[order[i]]])>>
  BY DEF ReceiveFinish
<1>4. PICK made : made = [i \in DOMAIN order |-> builder[order[i]]]
  OBVIOUS
<1>5. made \in Seq(Call) /\ order \in Seq(Index) /\ Whole(made)
  <2>1. DOMAIN builder = Called
        /\ \A index \in Called : /\ builder[index].named = Named(index)
                                 /\ Lists(builder[index].arguments, PartsOf(index))
    BY <1>1 DEF Begun
  <2> QED
    BY <1>4, <2>1, AllSent
<1>6. \/ outbox' = <<>> /\ made = <<>>
      \/ outbox' = <<[texts |-> <<>>, calls |-> made]>>
  <2>1. CASE order = <<>>
    <3>1. made = <<>>
      BY <1>4, <2>1
    <3> QED
      BY <1>3, <2>1, <3>1
  <2>2. CASE order # <<>>
    BY <1>3, <1>4, <2>2 DEF Chunk
  <2> QED
    BY <2>1, <2>2
<1>7. SentTexts' = content /\ SentCalls' = made
  <2>1. content \in Seq(Nat) /\ content \o <<>> = content /\ <<>> \o made = made
    BY <1>5 DEF LLMType
  <2>2. CASE outbox' = <<>> /\ made = <<>>
    BY <1>1, <1>2, <2>2 DEF SentTexts, SentCalls
  <2>3. CASE outbox' = <<[texts |-> <<>>, calls |-> made]>>
    BY <1>1, <1>2, <2>1, <2>3 DEF SentTexts, SentCalls
  <2> QED
    BY <1>6, <2>2, <2>3
<1>8. LLMType'
  <2>1. [texts |-> <<>>, calls |-> made] \in StreamChunk
    BY <1>5 DEF StreamChunk
  <2>2. <<>> \in Seq(StreamChunk) /\ <<[texts |-> <<>>, calls |-> made]>> \in Seq(StreamChunk)
    BY <2>1
  <2>3. outbox' \in Seq(StreamChunk)
    BY <1>6, <2>2
  <2> QED
    BY <1>2, <2>3 DEF LLMType
<1>9. Stages'
  BY <1>1, <1>2, <1>6 DEF Stages
<1>10. Lists(SentTexts, Texts)' /\ Begun'
  <2>1. Texts' = Texts /\ Called' = Called
        /\ \A index : PartsOf(index)' = PartsOf(index) /\ Named(index)' = Named(index)
    BY <1>2, SamePieces
  <2> QED
    BY <1>1, <1>2, <1>7, <2>1 DEF Begun
<1>11. SentWhole'
  BY <1>1, <1>2, <1>5, <1>7, SamePieces DEF SentWhole
<1> QED
  BY <1>8, <1>9, <1>10, <1>11

LEMMA ReceiveCallInv ==
    ASSUME LInv, ReceiveCall
    PROVE  LInv'
<1> USE DEF LInv
<1>1. /\ dispatcher = "consuming" /\ stream = "receiving" /\ outbox = <<>>
      /\ SentTexts = content /\ SentCalls = calls /\ provider = "gemini"
  BY WhileReceiving DEF ReceiveCall
<1>2. PICK n : n = NextPiece
  OBVIOUS
<1>3. PICK index \in Index : Received([text |-> FALSE, index |-> index, named |-> FALSE])
  BY DEF ReceiveCall
<1>4. /\ n \in Nat /\ pieces' \in Seq(Piece) /\ \A i \in DOMAIN pieces : i \in Nat /\ i < n
      /\ Texts' = Texts /\ Parts' = Parts \union {n}
  <2>1. PICK piece : piece = [text |-> FALSE, index |-> index, named |-> FALSE]
    OBVIOUS
  <2>2. piece \in Piece /\ ~piece.text /\ Received(piece)
    BY <1>3, <2>1 DEF Piece, CallPiece
  <2> QED
    BY <1>2, <2>2, PieceReceived
<1>5. /\ outbox' = <<[texts |-> <<>>, calls |-> <<[named |-> FALSE, arguments |-> <<n>>]>>]>>
      /\ UNCHANGED <<provider, stream, builder, dispatcher, content, calls, finished>>
  BY <1>2 DEF ReceiveCall, Chunk
<1>6. PICK call : call = [named |-> FALSE, arguments |-> <<n>>]
  OBVIOUS
<1>7. call \in Call /\ call.arguments[1] = n /\ Len(call.arguments) = 1
  BY <1>4, <1>6 DEF Call
<1>8. content \in Seq(Nat) /\ calls \in Seq(Call)
  BY DEF LLMType
<1>9. SentTexts' = content /\ SentCalls' = Append(calls, call)
  <2>1. /\ outbox' # <<>> /\ outbox'[1].texts = <<>> /\ outbox'[1].calls = <<call>>
        /\ content' = content /\ calls' = calls
    BY <1>5, <1>6
  <2>2. content \o <<>> = content /\ calls \o <<call>> = Append(calls, call)
    BY <1>7, <1>8
  <2> QED
    BY <2>1, <2>2 DEF SentTexts, SentCalls
<1>10. LLMType'
  <2>1. <<call>> \in Seq(Call) /\ <<>> \in Seq(Nat)
    BY <1>7
  <2>2. [texts |-> <<>>, calls |-> <<call>>] \in StreamChunk
    BY <2>1 DEF StreamChunk
  <2>3. outbox' \in Seq(StreamChunk)
    BY <1>5, <1>6, <2>2
  <2> QED
    BY <1>4, <1>5, <2>3 DEF LLMType
<1>11. Stages' /\ Begun' /\ Lists(SentTexts, Texts)'
  BY <1>1, <1>4, <1>5, <1>9 DEF Stages, Begun
<1>12. SentWhole'
  <2> DEFINE first == [k \in DOMAIN calls |-> calls[k].arguments[1]]
  <2>0. PICK all : all = Append(calls, call)
    OBVIOUS
  <2>1. InOnePiece(calls)
    BY <1>1 DEF SentWhole
  <2>2. /\ all \in Seq(Call) /\ Len(all) = Len(calls) + 1 /\ Len(calls) \in Nat
        /\ all[Len(calls) + 1] = call /\ \A k \in 1..Len(calls) : all[k] = calls[k]
        /\ DOMAIN calls = 1..Len(calls) /\ DOMAIN all = 1..(Len(calls) + 1)
    BY <1>7, <1>8, <2>0
  <2>3. first \in Seq(Nat) /\ Len(first) = Len(calls) /\ Lists(first, Parts)
    <3>1. ASSUME NEW k \in 1..Len(calls)
          PROVE  calls[k].arguments[1] \in Nat
      <4>1. calls[k] \in Call
        BY <1>8
      <4>2. calls[k].arguments \in Seq(Nat) /\ Len(calls[k].arguments) = 1
        BY <2>1, <2>2, <4>1 DEF Call, InOnePiece
      <4> QED
        BY <4>2
    <3> QED
      BY <2>1, <2>2, <3>1 DEF InOnePiece
  <2>4. [k \in DOMAIN all |-> all[k].arguments[1]] = Append(first, n)
    <3> DEFINE s == [k \in DOMAIN all |-> all[k].arguments[1]]
    <3>1. Append(first, n) \in Seq(Nat) /\ Len(Append(first, n)) = Len(calls) + 1
          /\ Append(first, n)[Len(calls) + 1] = n
          /\ \A k \in 1..Len(calls) : Append(first, n)[k] = first[k]
      BY <1>4, <2>3
    <3>2. DOMAIN s = 1..(Len(calls) + 1) /\ \A k \in DOMAIN s : s[k] = Append(first, n)[k]
      BY <1>7, <2>2, <3>1
    <3>3. DOMAIN Append(first, n) = 1..(Len(calls) + 1)
      BY <2>2, <3>1
    <3>4. s = [k \in 1..(Len(calls) + 1) |-> Append(first, n)[k]]
      BY <3>2
    <3>5. Append(first, n) = [k \in 1..(Len(calls) + 1) |-> Append(first, n)[k]]
      BY <3>1, <3>3
    <3> QED
      BY <3>4, <3>5
  <2>5. \A i \in Parts : i < n
    BY <1>4 DEF Parts
  <2>6. Lists(Append(first, n), Parts \union {n})
    BY <1>4, <2>3, <2>5, ListsAppend
  <2>7. \A k \in DOMAIN all : Len(all[k].arguments) = 1
    BY <1>7, <2>1, <2>2 DEF InOnePiece
  <2>8. InOnePiece(all)'
    BY <1>4, <2>4, <2>6, <2>7 DEF InOnePiece
  <2>9. SentCalls' = all
    BY <1>9, <2>0
  <2>10. InOnePiece(SentCalls)'
    BY <2>8, <2>9 DEF InOnePiece
  <2> QED
    BY <1>1, <1>5, <2>10 DEF SentWhole
<1> QED
  BY <1>10, <1>11, <1>12

LEMMA GoroutineEndsInv ==
    ASSUME LInv, ReceiveEmpty \/ ReceiveEnds \/ CloseStream
    PROVE  LInv'
<1> USE DEF LInv
<1>1. UNCHANGED <<provider, builder, outbox, dispatcher, content, calls, pieces>>
  BY DEF ReceiveEmpty, ReceiveEnds, CloseStream
<1>2. Texts' = Texts /\ Called' = Called /\ Parts' = Parts
      /\ SentTexts' = SentTexts /\ SentCalls' = SentCalls
      /\ \A index : PartsOf(index)' = PartsOf(index) /\ Named(index)' = Named(index)
  BY <1>1, SamePieces DEF SentTexts, SentCalls
<1>3. outbox = <<>> /\ stream \notin {"none", "closed"} /\ stream' \in {"returning", "closed"}
      /\ finished' \in BOOLEAN /\ (provider = "openai" => finished' = finished)
  <2>1. CASE ReceiveEnds
    BY <2>1, WhileReceiving DEF ReceiveEnds, Receiving, LLMType
  <2>2. CASE CloseStream
    BY <2>2 DEF CloseStream, LLMType
  <2>3. CASE ReceiveEmpty
    BY <2>3, WhileReceiving DEF ReceiveEmpty, Receiving, LLMType
  <2> QED
    BY <2>1, <2>2, <2>3
<1>4. LLMType' /\ Stages'
  BY <1>1, <1>3 DEF LLMType, Stages
<1>5. Lists(SentTexts, Texts)' /\ Begun'
  BY <1>1, <1>2, <1>3 DEF Begun
<1>6. SentWhole'
  BY <1>1, <1>2, <1>3 DEF SentWhole, Whole, InOnePiece
<1> QED
  BY <1>4, <1>5, <1>6

-----------------------------------------------------------------------------
\* What executeCallLLM does.

LEMMA StartInv ==
    ASSUME LInv, StartStream \/ StartFails \/ ChatPanics \/ ChatFails
    PROVE  LInv'
<1> USE DEF LInv
<1>1. UNCHANGED <<provider, builder, outbox, content, calls, pieces, finished>>
      /\ dispatcher \in {"idle", "fallback"} /\ pieces = <<>> /\ stream = "none" /\ ~finished
      /\ content = <<>> /\ calls = <<>>
      /\ \/ dispatcher' = "consuming" /\ stream' = "receiving"
         \/ dispatcher' \in {"fallback", "failed", "panicked"} /\ stream' = stream
  BY DEF StartStream, StartFails, ChatPanics, ChatFails, Stages
<1>2. Texts' = Texts /\ Called' = Called /\ Parts' = Parts
      /\ SentTexts' = SentTexts /\ SentCalls' = SentCalls
      /\ \A index : PartsOf(index)' = PartsOf(index) /\ Named(index)' = Named(index)
  BY <1>1, SamePieces DEF SentTexts, SentCalls
<1>3. LLMType' /\ Stages' /\ Lists(SentTexts, Texts)'
  BY <1>1, <1>2 DEF LLMType, Stages
<1>4. SentWhole'
  BY <1>1, <1>2 DEF SentWhole, Whole, InOnePiece
<1>5. Called = {} /\ DOMAIN builder = {}
  BY <1>1 DEF Called, Parts, Stages
<1>6. Begun'
  BY <1>1, <1>2, <1>5 DEF Begun
<1> QED
  BY <1>3, <1>4, <1>6

LEMMA ChatInv ==
    ASSUME LInv, Chat
    PROVE  LInv'
<1> USE DEF LInv
<1>1. /\ dispatcher' = "replied" /\ finished' = TRUE /\ provider = "openai"
      /\ UNCHANGED <<provider, stream, builder, outbox>>
      /\ stream = "none" /\ pieces = <<>> /\ content = <<>> /\ calls = <<>> /\ outbox = <<>>
  BY DEF Chat, Stages
<1>2. NextPiece = 1
  BY <1>1 DEF NextPiece
<1>3. Texts = {} /\ Parts = {} /\ Called = {} /\ \A index : PartsOf(index) = {} /\ ~Named(index)
  BY <1>1 DEF Texts, Parts, Called, PartsOf, Named
<1>4. SentTexts' = content' /\ SentCalls' = calls' /\ Begun'
  BY <1>1 DEF SentTexts, SentCalls, Begun
<1>5. CASE Received(TextPiece) /\ content' = <<NextPiece>> /\ calls' = calls
  <2>1. PICK piece : piece = TextPiece
    OBVIOUS
  <2>2. piece \in Piece /\ piece.text /\ Received(piece)
    BY <1>5, <2>1 DEF Piece, TextPiece
  <2>3. pieces' \in Seq(Piece) /\ Texts' = {1} /\ Called' = {}
    BY <1>2, <1>3, <2>2, PieceReceived
  <2>4. content' = <<1>> /\ content' \in Seq(Nat) /\ Lists(content', Texts')
    BY <1>2, <1>5, <2>3, ListsOne
  <2>5. Whole(calls)'
    BY <1>1, <1>5, <2>3, FS_EmptySet DEF Whole
  <2>6. LLMType' /\ Stages'
    BY <1>1, <1>5, <2>3, <2>4 DEF LLMType, Stages
  <2>7. SentWhole'
    BY <1>1, <1>4, <2>5 DEF SentWhole, Whole
  <2> QED
    BY <1>4, <2>4, <2>6, <2>7
<1>6. ASSUME NEW index \in Index,
             Received([text |-> FALSE, index |-> index, named |-> TRUE]),
             calls' = <<[named |-> TRUE, arguments |-> <<NextPiece>>]>>, content' = content
      PROVE  LInv'
  <2>1. PICK piece : piece = [text |-> FALSE, index |-> index, named |-> TRUE]
    OBVIOUS
  <2>2. piece \in Piece /\ ~piece.text /\ Received(piece)
        /\ piece.index = index /\ piece.index # NoIndex /\ piece.named
    BY <1>6, <2>1, PiecesAssumption DEF Piece, CallPiece
  <2>3. pieces' \in Seq(Piece) /\ Texts' = {} /\ Called' = {index}
        /\ PartsOf(index)' = {1} /\ Named(index)' = TRUE
    BY <1>2, <1>3, <2>2, PieceReceived
  <2>4. PICK call : call = [named |-> TRUE, arguments |-> <<1>>]
    OBVIOUS
  <2>5. calls' = <<call>> /\ call \in Call /\ call.named = TRUE /\ call.arguments = <<1>>
    BY <1>2, <1>6, <2>4 DEF Call
  <2>6. calls' \in Seq(Call) /\ Len(calls') = 1 /\ calls'[1] = call /\ 1 \in DOMAIN calls'
    BY <2>5
  <2>7. Lists(call.arguments, PartsOf(index)') /\ Cardinality(Called') = 1
    <3>1. Lists(<<1>>, {1})
      BY ListsOne
    <3>2. Cardinality({index}) = 1
      BY FS_Singleton
    <3> QED
      BY <2>3, <2>5, <3>1, <3>2
  <2>8. Whole(calls)'
    BY <2>3, <2>5, <2>6, <2>7 DEF Whole
  <2>9. LLMType' /\ Stages'
    BY <1>1, <1>6, <2>3, <2>6 DEF LLMType, Stages
  <2>10. SentWhole'
    BY <1>1, <1>4, <2>8 DEF SentWhole, Whole
  <2> QED
    BY <1>1, <1>4, <1>6, <2>3, <2>9, <2>10, ListsNothing
<1> QED
  BY <1>5, <1>6 DEF Chat

LEMMA ConsumeInv ==
    ASSUME LInv, Consume
    PROVE  LInv'
<1> USE DEF LInv
<1>1. outbox # <<>> /\ Len(outbox) <= 1 /\ outbox \in Seq(StreamChunk)
      /\ content \in Seq(Nat) /\ calls \in Seq(Call)
  BY DEF Consume, LLMType, Stages
<1>2. Head(outbox) = outbox[1] /\ Tail(outbox) = <<>>
      /\ outbox[1] \in StreamChunk
  <2>1. Len(outbox) = 1
    <3>1. Len(outbox) \in Nat \ {0}
      BY Zenon, <1>1, EmptySeq
    <3>2. Len(outbox) <= 1
      BY <1>1
    <3> HIDE DEF LInv
    <3> QED
      BY ONLY <3>1, <3>2
  <2>2. Tail(outbox) \in Seq(StreamChunk) /\ Len(Tail(outbox)) = 0
    BY <1>1, <2>1
  <2>3. Tail(outbox) = <<>>
    BY <2>2, EmptySeq
  <2> QED
    BY <1>1, <2>1, <2>3
<1>3. content' = content \o outbox[1].texts /\ calls' = calls \o outbox[1].calls
      /\ outbox' = <<>>
      /\ UNCHANGED <<provider, stream, builder, dispatcher, pieces, finished>>
  BY <1>2 DEF Consume
<1>4. content' \in Seq(Nat) /\ calls' \in Seq(Call)
  <2>1. outbox[1].texts \in Seq(Nat) /\ outbox[1].calls \in Seq(Call)
    BY <1>2 DEF StreamChunk
  <2> QED
    BY <1>1, <1>3, <2>1
<1>5. SentTexts' = SentTexts /\ SentCalls' = SentCalls
  BY <1>1, <1>3 DEF SentTexts, SentCalls
<1>6. Texts' = Texts /\ Called' = Called /\ Parts' = Parts
      /\ \A index : PartsOf(index)' = PartsOf(index) /\ Named(index)' = Named(index)
  BY <1>3, SamePieces
<1>7. LLMType' /\ Stages'
  <2>1. outbox' \in Seq(StreamChunk) /\ Len(outbox') = 0
    BY <1>3
  <2>2. LLMType'
    BY <1>3, <1>4, <2>1 DEF LLMType
  <2>3. stream \notin {"none", "closed"} /\ dispatcher = "consuming"
    BY <1>1 DEF Stages, Consume
  <2>4. Stages'
    BY <1>3, <2>1, <2>3 DEF Stages
  <2> QED
    BY <2>2, <2>4
<1>8. Lists(SentTexts, Texts)' /\ Begun'
  BY <1>3, <1>5, <1>6 DEF Begun
<1>9. SentWhole'
  BY <1>3, <1>5, <1>6 DEF SentWhole, Whole, InOnePiece
<1> QED
  BY <1>7, <1>8, <1>9

LEMMA ReplyInv ==
    ASSUME LInv, Reply
    PROVE  LInv'
<1> USE DEF LInv
<1>1. dispatcher = "consuming" /\ stream = "closed" /\ dispatcher' = "replied"
      /\ UNCHANGED <<provider, stream, builder, outbox, content, calls, pieces, finished>>
  BY DEF Reply
<1>2. Texts' = Texts /\ Called' = Called /\ Parts' = Parts
      /\ SentTexts' = SentTexts /\ SentCalls' = SentCalls
      /\ \A index : PartsOf(index)' = PartsOf(index) /\ Named(index)' = Named(index)
  BY <1>1, SamePieces DEF SentTexts, SentCalls
<1>3. LLMType' /\ Stages' /\ Lists(SentTexts, Texts)' /\ Begun'
  BY <1>1, <1>2 DEF LLMType, Stages, Begun
<1>4. SentWhole'
  BY <1>1, <1>2 DEF SentWhole, Whole, InOnePiece
<1> QED
  BY <1>3, <1>4

-----------------------------------------------------------------------------
\* The reply in the composition.

LEMMA InitLInv == LLMInit => LInv
<1> SUFFICES ASSUME LLMInit
             PROVE  LInv
  OBVIOUS
<1>1. /\ provider \in {"openai", "gemini"} /\ stream = "none" /\ outbox = <<>>
      /\ dispatcher = "idle" /\ content = <<>> /\ calls = <<>> /\ pieces = <<>>
      /\ finished = FALSE /\ builder = NoCalls
  BY DEF LLMInit
<1>2. DOMAIN NoCalls = {} /\ NoCalls \in [DOMAIN NoCalls -> Call]
  BY DEF NoCalls
<1>3. IsFiniteSet({}) /\ Cardinality({}) = 0
  BY FS_EmptySet
<1>4. LLMType
  <2>1. <<>> \in Seq(Piece) /\ <<>> \in Seq(Nat) /\ <<>> \in Seq(Call) /\ <<>> \in Seq(StreamChunk)
    OBVIOUS
  <2>2. DOMAIN builder \subseteq Index /\ IsFiniteSet(DOMAIN builder)
        /\ builder \in [DOMAIN builder -> Call]
    BY <1>1, <1>2, <1>3
  <2> QED
    BY <1>1, <2>1, <2>2 DEF LLMType
<1>5. Stages
  BY <1>1, <1>2 DEF Stages
<1>6. Texts = {} /\ Parts = {} /\ SentTexts = <<>> /\ SentCalls = <<>>
  BY <1>1 DEF Texts, Parts, SentTexts, SentCalls
<1>7. InOnePiece(<<>>)
  <2>1. [k \in DOMAIN <<>> |-> <<>>[k].arguments[1]] = <<>>
    OBVIOUS
  <2> QED
    BY <1>6, <2>1, ListsNothing DEF InOnePiece
<1>8. SentWhole
  BY <1>1, <1>6, <1>7 DEF SentWhole
<1>9. Lists(SentTexts, Texts) /\ Begun
  BY <1>1, <1>6, ListsNothing DEF Begun
<1> QED
  BY <1>4, <1>5, <1>8, <1>9 DEF LInv

\* A step of the composition is one of the reply, or leaves the reply alone.
LEMMA NextLInv ==
    ASSUME LInv, [PipelineNext]_pipelineVars
    PROVE  LInv'
<1>1. CASE UNCHANGED llmVars
  <2>1. /\ LLMType' = LLMType /\ Stages' = Stages /\ Begun' = Begun
        /\ SentTexts' = SentTexts /\ Texts' = Texts /\ SentWhole' = SentWhole
    BY <1>1 DEF llmVars, LLMType, Stages, SentTexts, SentCalls, Begun, SentWhole, Texts,
                Parts, PartsOf, Called, Named, Whole, InOnePiece
  <2> QED
    BY <2>1 DEF LInv
<1>2. CASE Goroutine
  BY <1>2, ReceiveTextInv, ReceiveCallPieceInv, ReceiveFinishInv, ReceiveCallInv,
     GoroutineEndsInv DEF Goroutine
<1>3. CASE StartStream \/ StartFails \/ Chat \/ ChatPanics \/ ChatFails \/ Consume \/ Reply
  BY <1>3, StartInv, ChatInv, ConsumeInv, ReplyInv
<1> QED
  BY <1>1, <1>2, <1>3 DEF PipelineNext, Provider, Dispatcher, DispatcherConsumes, DispatchLogs,
                          Others, Crash, pipelineVars

LEMMA ReplyInvariant == PipelineSpec => []LInv
<1>1. PipelineInit => LInv
  BY InitLInv DEF PipelineInit
<1>2. LInv /\ [PipelineNext]_pipelineVars => LInv'
  BY NextLInv
<1> QED
  BY <1>1, <1>2, PTL DEF PipelineSpec

LEMMA WhenReplied ==
    ASSUME LInv, dispatcher = "replied"
    PROVE  SentTexts = content /\ SentCalls = calls
BY DEF LInv, Stages, SentTexts, SentCalls

\* Whatever the LLM sends, in whatever pieces, and wherever the stream breaks
\* off or was never there, the reply has every text of it once and in order.
THEOREM TextsAreKept == PipelineSpec => []TextsKept
<1>1. LInv => TextsKept
  BY WhenReplied DEF LInv, TextsKept
<1> QED
  BY <1>1, ReplyInvariant, PTL

\* And its calls are whole: the parts of a call end up in it, once and in
\* order, for any number of calls whose parts come in any order, and a stream
\* of openai that broke off makes no call.
THEOREM CallsAreWhole == PipelineSpec => []CallsWhole
<1>1. LInv => CallsWhole
  BY WhenReplied DEF LInv, LLMType, SentWhole, CallsWhole
<1> QED
  BY <1>1, ReplyInvariant, PTL

=============================================================================
