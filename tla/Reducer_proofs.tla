--------------------------- MODULE Reducer_proofs ---------------------------
(***************************************************************************)
(* Lemmas about the reducer, for every set of messages and paths.          *)
(***************************************************************************)
EXTENDS Reducer, SequenceTheorems, WellFoundedInduction, TLAPS

LEMMA CompleteType ==
    ASSUME NEW goals \in Seq(Goal)
    PROVE  CompleteActiveGoal(goals) \in [1..Len(goals) -> Goal]
<1>1. ASSUME NEW i \in 1..Len(goals)
      PROVE  [goals[i] EXCEPT !.status = "completed"] \in Goal
  <2>1. goals[i] \in Goal
    OBVIOUS
  <2> QED
    BY <2>1 DEF Goal, GoalStatus
<1>2. DOMAIN goals = 1..Len(goals)
  OBVIOUS
<1> QED
  BY <1>1, <1>2 DEF CompleteActiveGoal

LEMMA GoalsAfterType ==
    ASSUME NEW goals \in Seq(Goal), NEW e \in Event
    PROVE  GoalsAfter(goals, e) \in Seq(Goal)
<1>1. CompleteActiveGoal(goals) \in Seq(Goal)
  BY CompleteType
<1>2. ASSUME e.type = "user_request"
      PROVE  Append(goals, [user |-> e.user, status |-> "pending"]) \in Seq(Goal)
  BY <1>2 DEF Event, Goal, GoalStatus
<1> QED
  BY <1>1, <1>2 DEF GoalsAfter

LEMMA MessagesOfType ==
    ASSUME NEW e \in Event
    PROVE  MessagesOf(e) \in Seq(Message)
<1>1. CASE e.type = "user_request"
  BY <1>1 DEF Event, Message, MessagesOf
<1>2. CASE e.type = "llm_response"
  BY <1>2 DEF Event, Message, MessagesOf
<1>3. CASE e.type = "tool_result"
  BY <1>3 DEF Event, Message, MessagesOf
<1>4. CASE e.type \in {"system_prompt", "llm_token", "error"}
  BY <1>4 DEF Event, MessagesOf
<1> QED
  BY <1>1, <1>2, <1>3, <1>4 DEF Event

LEMMA ArtifactsOfType ==
    ASSUME NEW msgs, NEW e
    PROVE  ArtifactsOf(msgs, e) \in Seq(Path)
BY DEF ArtifactsOf

LEMMA CommandsOfType ==
    ASSUME NEW e \in Event
    PROVE  CommandsOf(e) \in Seq(Command)
<1>1. CASE e.type = "llm_response"
  <2>1. e.calls \in Seq(Call)
    BY <1>1 DEF Event
  <2>2. CommandsOf(e) \in [1..Len(e.calls) -> Command]
    BY <1>1, <2>1 DEF CommandsOf, CallTool, Command
  <2> QED
    BY <2>1, <2>2
<1>2. CASE e.type # "llm_response"
  BY <1>2 DEF CommandsOf
<1> QED
  BY <1>1, <1>2

LEMMA ReduceType ==
    ASSUME NEW s \in State, NEW e \in Event
    PROVE  Reduce(s, e) \in State
<1>1. s.version \in Nat /\ s.prompt \in BOOLEAN /\ s.goals \in Seq(Goal)
      /\ s.msgs \in Seq(Message) /\ s.arts \in Seq(Path)
  BY DEF State
<1>2. MessagesOf(e) \in Seq(Message)
  BY MessagesOfType
<1>3. s.msgs \o MessagesOf(e) \in Seq(Message)
  BY <1>1, <1>2
<1>4. s.arts \o ArtifactsOf(s.msgs \o MessagesOf(e), e) \in Seq(Path)
  BY <1>1, ArtifactsOfType
<1>5. GoalsAfter(s.goals, e) \in Seq(Goal)
  BY <1>1, GoalsAfterType
<1>6. s.version + 1 \in Nat /\ (s.prompt \/ e.type = "system_prompt") \in BOOLEAN
  BY <1>1
<1> QED
  BY <1>3, <1>4, <1>5, <1>6 DEF Reduce, State

-----------------------------------------------------------------------------
\* One unfinished goal at most, the newest.

LEMMA CompleteKeepsOneActive ==
    ASSUME NEW goals \in Seq(Goal), OneActiveGoal(goals)
    PROVE  OneActiveGoal(CompleteActiveGoal(goals))
<1> DEFINE done == CompleteActiveGoal(goals)
<1>1. DOMAIN done = DOMAIN goals /\ done \in Seq(Goal)
  BY CompleteType
<1>2. Len(done) = Len(goals)
  BY <1>1
<1>3. ASSUME NEW i \in DOMAIN goals, Active(done[i])
      PROVE  Active(goals[i])
  <2>1. goals[i] \in Goal
    OBVIOUS
  <2>2. CASE IsFirstActive(goals, i)
    BY <2>2 DEF IsFirstActive
  <2>3. CASE ~IsFirstActive(goals, i)
    BY <1>3, <2>3 DEF CompleteActiveGoal
  <2> QED
    BY <2>2, <2>3
<1> QED
  BY <1>1, <1>2, <1>3 DEF OneActiveGoal

LEMMA GoalsAfterKeepsOneActive ==
    ASSUME NEW goals \in Seq(Goal), NEW e \in Event, OneActiveGoal(goals)
    PROVE  OneActiveGoal(GoalsAfter(goals, e))
<1>1. CASE e.type = "user_request" /\ ~HasActiveGoal(goals)
  <2> DEFINE more == Append(goals, [user |-> e.user, status |-> "pending"])
  <2>1. GoalsAfter(goals, e) = more
    BY <1>1 DEF GoalsAfter, CompletesGoal
  <2>2. Len(more) = Len(goals) + 1 /\ DOMAIN more = 1..Len(more)
    OBVIOUS
  <2>3. \A i \in DOMAIN goals : more[i] = goals[i] /\ ~Active(goals[i])
    BY <1>1 DEF HasActiveGoal
  <2> QED
    BY <2>1, <2>2, <2>3 DEF OneActiveGoal
<1>2. CASE ~(e.type = "user_request" /\ ~HasActiveGoal(goals)) /\ CompletesGoal(e)
  BY <1>2, CompleteKeepsOneActive DEF GoalsAfter
<1>3. CASE ~(e.type = "user_request" /\ ~HasActiveGoal(goals)) /\ ~CompletesGoal(e)
  BY <1>3 DEF GoalsAfter
<1> QED
  BY <1>1, <1>2, <1>3

-----------------------------------------------------------------------------
\* Completed goals.

\* The goals of g that are completed are so in h, in their places.
Kept(g, h) ==
    \A i \in DOMAIN g : ~Active(g[i]) => i \in DOMAIN h /\ h[i] = g[i]

LEMMA KeptTransitive ==
    ASSUME NEW f, NEW g, NEW h, Kept(f, g), Kept(g, h)
    PROVE  Kept(f, h)
BY DEF Kept

LEMMA GoalsAfterKeeps ==
    ASSUME NEW goals \in Seq(Goal), NEW e \in Event
    PROVE  Kept(goals, GoalsAfter(goals, e))
<1>1. CASE e.type = "user_request" /\ ~HasActiveGoal(goals)
  BY <1>1 DEF Kept, GoalsAfter, CompletesGoal
<1>2. CASE ~(e.type = "user_request" /\ ~HasActiveGoal(goals)) /\ CompletesGoal(e)
  BY <1>2 DEF Kept, GoalsAfter, CompleteActiveGoal, IsFirstActive
<1>3. CASE ~(e.type = "user_request" /\ ~HasActiveGoal(goals)) /\ ~CompletesGoal(e)
  BY <1>3 DEF Kept, GoalsAfter
<1> QED
  BY <1>1, <1>2, <1>3

\* What completes no goal leaves everything kept elsewhere that was.
LEMMA UncompletedKept ==
    ASSUME NEW goals \in Seq(Goal), NEW e \in Event, NEW h,
           ~CompletesGoal(e), Kept(goals, h)
    PROVE  Kept(GoalsAfter(goals, e), h)
<1>1. CASE e.type = "user_request" /\ ~HasActiveGoal(goals)
  <2> DEFINE goal == [user |-> e.user, status |-> "pending"]
             more == Append(goals, goal)
  <2>1. GoalsAfter(goals, e) = more
    BY <1>1 DEF GoalsAfter
  <2>2. Active(goal)
    BY DEF Active
  <2> HIDE DEF goal
  <2>3. \A i \in DOMAIN more :
          (i \in DOMAIN goals /\ more[i] = goals[i]) \/ more[i] = goal
    OBVIOUS
  <2> QED
    BY <2>1, <2>2, <2>3 DEF Kept
<1>2. CASE ~(e.type = "user_request" /\ ~HasActiveGoal(goals))
  BY <1>2 DEF GoalsAfter
<1> QED
  BY <1>1, <1>2

-----------------------------------------------------------------------------
\* The call a tool result is attributed to.

\* The calls of the assistant's messages.
Asked(msgs) ==
    UNION {ToSet(msgs[i].calls) : i \in {j \in DOMAIN msgs : msgs[j].role = "assistant"}}

LEMMA AskedBy ==
    ASSUME NEW msgs \in Seq(Message), NEW c
    PROVE  c \in Asked(msgs) <=>
             \E i \in DOMAIN msgs :
                 msgs[i].role = "assistant" /\ \E k \in DOMAIN msgs[i].calls : msgs[i].calls[k] = c
BY DEF Asked, ToSet

LEMMA CallsType ==
    ASSUME NEW m \in Message, m.role = "assistant"
    PROVE  m.calls \in Seq(Call)
BY DEF Message

LEMMA AskedType ==
    ASSUME NEW msgs \in Seq(Message)
    PROVE  Asked(msgs) \subseteq Call
<1> SUFFICES ASSUME NEW c \in Asked(msgs)
             PROVE  c \in Call
  OBVIOUS
<1>1. PICK i \in DOMAIN msgs :
          msgs[i].role = "assistant" /\ \E k \in DOMAIN msgs[i].calls : msgs[i].calls[k] = c
  BY AskedBy
<1>2. msgs[i].calls \in Seq(Call)
  BY <1>1, CallsType
<1> QED
  BY <1>1, <1>2

LEMMA LeastNatural ==
    ASSUME NEW S \in SUBSET Nat, S # {}
    PROVE  \E x \in S : \A y \in S : x <= y
<1>1. PICK x \in S : \A y \in S : ~(<<y, x>> \in OpToRel(<, Nat))
  BY WFMin, NatLessThanWellFounded
<1>2. x \in Nat /\ \A y \in S : y \in Nat /\ ~(y < x)
  BY <1>1 DEF OpToRel
<1>3. \A y \in S : x <= y
  BY ONLY <1>2
<1> QED
  BY <1>1, <1>3

LEMMA GreatestBelow ==
    ASSUME NEW n \in Nat, NEW S \in SUBSET (1..n), S # {}
    PROVE  \E x \in S : \A y \in S : x >= y
<1> DEFINE T == {n - x : x \in S}
<1>1. T \in SUBSET Nat /\ T # {}
  <2>1. \A x \in S : x \in 1..n
    OBVIOUS
  <2>2. \A x \in S : n - x \in Nat
    BY <2>1
  <2> QED
    BY <2>2
<1>2. PICK t \in T : \A u \in T : t <= u
  BY <1>1, LeastNatural
<1>3. PICK x \in S : t = n - x
  BY <1>2
<1>4. \A y \in S : y \in Nat /\ n - x <= n - y
  BY <1>2, <1>3
<1>5. \A y \in S : x >= y
  BY <1>4
<1> QED
  BY <1>5

\* When no two calls of the conversation share an id, a result is attributed to
\* the call that has it.
LEMMA PathOfAsked ==
    ASSUME NEW msgs \in Seq(Message), \A c, d \in Asked(msgs) : c.id = d.id => c = d,
           NEW call \in Asked(msgs)
    PROVE  PathOfCall(msgs, call.id) = call.path
<1> DEFINE I == {i \in 1..Len(msgs) : HasCall(msgs[i], call.id)}
           i0 == SelectLastInSeq(msgs, LAMBDA m : HasCall(m, call.id))
<1>1. I # {}
  BY AskedBy DEF HasCall
<1>2. i0 = Max(I)
  BY <1>1 DEF SelectLastInSeq
<1>3. i0 \in I
  <2>1. I \in SUBSET (1..Len(msgs)) /\ Len(msgs) \in Nat
    OBVIOUS
  <2> HIDE DEF I
  <2>2. \E x \in I : \A y \in I : x >= y
    BY <1>1, <2>1, GreatestBelow
  <2> QED
    BY <1>2, <2>2 DEF Max
<1> HIDE DEF i0
<1>4. i0 \in DOMAIN msgs /\ i0 # 0 /\ HasCall(msgs[i0], call.id)
  BY <1>3
<1> DEFINE calls == msgs[i0].calls
           K == {k \in 1..Len(calls) : calls[k].id = call.id}
           k0 == SelectInSeq(calls, LAMBDA c : c.id = call.id)
<1>5. calls \in Seq(Call) /\ msgs[i0].role = "assistant"
  BY <1>4, CallsType DEF HasCall
<1>6. K # {}
  BY <1>4, <1>5 DEF HasCall
<1>7. k0 = Min(K)
  BY <1>6 DEF SelectInSeq
<1>8. k0 \in K
  <2>1. K \in SUBSET Nat
    OBVIOUS
  <2> HIDE DEF K
  <2>2. \E x \in K : \A y \in K : x =< y
    BY <1>6, <2>1, LeastNatural
  <2> QED
    BY <1>7, <2>2 DEF Min
<1>9. calls[k0] \in Asked(msgs) /\ calls[k0].id = call.id
  BY <1>4, <1>5, <1>8, AskedBy
<1>10. calls[k0] = call
  BY <1>9
<1>11. PathOfCall(msgs, call.id) = calls[k0].path
  BY <1>4 DEF PathOfCall, i0
<1> QED
  BY <1>10, <1>11

-----------------------------------------------------------------------------
\* Results in a conversation.

Answered(msgs) == {msgs[i].id : i \in {j \in DOMAIN msgs : msgs[j].role = "tool"}}

HasId(calls, id) == \E k \in DOMAIN calls : calls[k].id = id

\* No call has two results, and no result comes before its call.
ResultsInOrder(msgs) ==
    \A j \in DOMAIN msgs : msgs[j].role = "tool" =>
        /\ \A i \in DOMAIN msgs : msgs[i].role = "tool" /\ msgs[i].id = msgs[j].id => i = j
        /\ \A i \in DOMAIN msgs :
             msgs[i].role = "assistant" /\ HasId(msgs[i].calls, msgs[j].id) => i < j

LEMMA Appended ==
    ASSUME NEW msgs \in Seq(Message), NEW m \in Message
    PROVE  /\ Append(msgs, m) \in Seq(Message)
           /\ DOMAIN Append(msgs, m) = DOMAIN msgs \union {Len(msgs) + 1}
           /\ \A i \in DOMAIN msgs : /\ Append(msgs, m)[i] = msgs[i]
                                     /\ i \in Nat /\ i < Len(msgs) + 1
           /\ Append(msgs, m)[Len(msgs) + 1] = m
           /\ Len(msgs) + 1 \in Nat
OBVIOUS

\* An event adds one message, or none.
LEMMA ReducedMessages ==
    ASSUME NEW msgs \in Seq(Message), NEW e \in Event
    PROVE  \/ msgs \o MessagesOf(e) = msgs
           \/ \E m \in Message :
                 /\ MessagesOf(e) = <<m>>
                 /\ msgs \o MessagesOf(e) = Append(msgs, m)
                 /\ e.type \in {"user_request", "system_prompt"} => m.role = "user"
<1>1. CASE MessagesOf(e) = <<>>
  BY <1>1
<1>2. CASE MessagesOf(e) # <<>>
  <2>1. PICK m : MessagesOf(e) = <<m>> /\ (e.type = "user_request" => m.role = "user")
                 /\ e.type # "system_prompt"
    BY <1>2 DEF MessagesOf
  <2>2. m \in Message
    BY <2>1, MessagesOfType
  <2> QED
    BY <2>1, <2>2
<1> QED
  BY <1>1, <1>2

LEMMA UserMessageAppended ==
    ASSUME NEW msgs \in Seq(Message), NEW m \in Message, m.role = "user"
    PROVE  ResultsInOrder(msgs) => ResultsInOrder(Append(msgs, m))
BY Appended DEF ResultsInOrder

LEMMA ResultAppended ==
    ASSUME NEW msgs \in Seq(Message), NEW m \in Message, m.role = "tool"
    PROVE  /\ Asked(Append(msgs, m)) = Asked(msgs)
           /\ Answered(Append(msgs, m)) = Answered(msgs) \union {m.id}
           /\ m.id \notin Answered(msgs) /\ ResultsInOrder(msgs)
                => ResultsInOrder(Append(msgs, m))
<1> DEFINE more == Append(msgs, m)
<1>1. /\ DOMAIN more = DOMAIN msgs \union {Len(msgs) + 1}
      /\ \A i \in DOMAIN msgs : more[i] = msgs[i] /\ i \in Nat /\ i < Len(msgs) + 1
      /\ more[Len(msgs) + 1] = m
      /\ more \in Seq(Message)
  BY Appended
<1> HIDE DEF more
<1>2. Asked(more) = Asked(msgs)
  <2>1. \A c : c \in Asked(more) <=> c \in Asked(msgs)
    BY <1>1, AskedBy
  <2> QED
    BY <2>1
<1>3. Answered(more) = Answered(msgs) \union {m.id}
  BY <1>1 DEF Answered
<1>4. ASSUME m.id \notin Answered(msgs), ResultsInOrder(msgs)
      PROVE  ResultsInOrder(more)
  BY <1>1, <1>4 DEF ResultsInOrder, Answered
<1> QED
  BY <1>2, <1>3, <1>4 DEF more

LEMMA ReplyAppended ==
    ASSUME NEW msgs \in Seq(Message), NEW m \in Message, m.role = "assistant"
    PROVE  /\ Asked(Append(msgs, m)) = Asked(msgs) \union ToSet(m.calls)
           /\ Answered(Append(msgs, m)) = Answered(msgs)
           /\ (\A id \in Answered(msgs) : ~HasId(m.calls, id)) /\ ResultsInOrder(msgs)
                => ResultsInOrder(Append(msgs, m))
<1> DEFINE more == Append(msgs, m)
<1>1. /\ DOMAIN more = DOMAIN msgs \union {Len(msgs) + 1}
      /\ \A i \in DOMAIN msgs : more[i] = msgs[i] /\ i \in Nat /\ i < Len(msgs) + 1
      /\ more[Len(msgs) + 1] = m
      /\ more \in Seq(Message)
  BY Appended
<1> HIDE DEF more
<1>2. Asked(more) = Asked(msgs) \union ToSet(m.calls)
  <2>1. \A c : c \in Asked(more) <=>
                 c \in Asked(msgs) \/ \E k \in DOMAIN m.calls : m.calls[k] = c
    BY <1>1, AskedBy
  <2> QED
    BY <2>1 DEF ToSet
<1>3. Answered(more) = Answered(msgs)
  BY <1>1 DEF Answered
<1>4. ASSUME \A id \in Answered(msgs) : ~HasId(m.calls, id), ResultsInOrder(msgs)
      PROVE  ResultsInOrder(more)
  BY <1>1, <1>4 DEF ResultsInOrder, Answered
<1> QED
  BY <1>2, <1>3, <1>4 DEF more

=============================================================================
