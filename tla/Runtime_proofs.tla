--------------------------- MODULE Runtime_proofs ---------------------------
(***************************************************************************)
(* Proofs about Runtime, for every instance of its constants.              *)
(***************************************************************************)
EXTENDS Runtime, Reducer_proofs

-----------------------------------------------------------------------------
\* Types of the events and commands the actions build.

LEMMA UserMessageType ==
    ASSUME NEW u \in User
    PROVE  UserMessage(u) \in Event
BY DEF UserMessage, Event

LEMMA ConstantEventTypes ==
    SystemPrompt \in Event /\ LLMToken \in Event /\ ErrorEvent \in Event
BY DEF SystemPrompt, LLMToken, ErrorEvent, Event

LEMMA ToolResultType ==
    ASSUME NEW c \in Command, c.kind = "call_tool", NEW ok \in BOOLEAN
    PROVE  ToolResult(c.call, ok) \in Event
<1>1. c.call \in Call
  BY DEF Command
<1> QED
  BY <1>1 DEF ToolResult, Event, Call

LEMMA LLMResponseType ==
    ASSUME NEW c \in Command, c.kind = "call_llm", nextCall \in Nat \ {0},
           NEW r \in Replies
    PROVE  /\ LLMResponse(r.text, WithIds(r.calls), c.saw) \in Event
           /\ Len(r.calls) \in Nat
<1>1. r.text \in BOOLEAN /\ r.calls \in Seq(ReplyCall)
  BY RepliesAssumption
<1>2. ASSUME NEW k \in 1..Len(r.calls)
      PROVE  [id |-> IF FreshIds THEN nextCall + k - 1 ELSE 0,
              tool |-> r.calls[k].tool, path |-> r.calls[k].path] \in Call
  <2>1. r.calls[k] \in ReplyCall
    BY <1>1, ElementOfSeq
  <2>2. (IF FreshIds THEN nextCall + k - 1 ELSE 0) \in Nat
    OBVIOUS
  <2> QED
    BY <2>1, <2>2 DEF Call, ReplyCall
<1>3. WithIds(r.calls) \in [1..Len(r.calls) -> Call]
  BY <1>1, <1>2 DEF WithIds
<1>4. WithIds(r.calls) \in Seq(Call)
  BY <1>1, <1>3
<1>5. c.saw \in SUBSET User
  BY DEF Command
<1> QED
  BY <1>1, <1>4, <1>5 DEF LLMResponse, Event

-----------------------------------------------------------------------------
\* Type correctness.

LEMMA NewStateType == NewState \in State
BY DEF NewState, State

\* An accepted or half-accepted message.
LEMMA IngestType ==
    ASSUME TypeOK, NEW u \in User
    PROVE  /\ Append(log, UserMessage(u)) \in Seq(Event)
           /\ Reduce(mem, UserMessage(u)) \in State
BY UserMessageType, ReduceType DEF TypeOK

LEMMA InitType == Init => TypeOK
<1> SUFFICES ASSUME Init PROVE TypeOK
  OBVIOUS
<1>1. mem \in State /\ disk \in State \cup {NoState} /\ local \in State \cup {NoState}
  BY NewStateType DEF Init
<1>2. /\ pending \in Seq(Command) /\ log \in Seq(Event) /\ ckpts \in Seq(State)
      /\ cmds \in Seq(Command) /\ out \in Seq(Event)
  BY DEF Init
<1>3. /\ ctxDone \in BOOLEAN /\ pc \in PC /\ pc = "stopped" /\ step \in Nat
      /\ after \in {"next", "finish", "shutdown"}
      /\ result \in {"none", "nil", "error"}
  BY DEF Init, PC
<1>4. /\ acked \subseteq User /\ refused \subseteq User
      /\ nextCall \in Nat \ {0} /\ callers \subseteq User /\ tokens \in Nat /\ faults \in Nat
  BY DEF Init
<1> QED
  BY <1>1, <1>2, <1>3, <1>4 DEF TypeOK

\* What follows a checkpoint keeps the loop's locals typed.
RunTypeOK ==
    /\ pc \in PC
    /\ step \in Nat
    /\ cmds \in Seq(Command)
    /\ out \in Seq(Event)
    /\ local \in State \cup {NoState}
    /\ pc \in {"recovered", "reduce", "saveState", "saveCheckpoint"}
         => local \in State
    /\ pc = "reduce" => out # <<>>
    /\ after \in {"next", "finish", "shutdown"}
    /\ result \in {"none", "nil", "error"}

LEMMA ResumeType ==
    ASSUME TypeOK, NEW ok \in BOOLEAN, Resume(ok)
    PROVE  RunTypeOK'
<1>1. CASE after = "next"
  BY <1>1 DEF TypeOK, RunTypeOK, Resume, PC
<1>2. ASSUME NEW r \in {"nil", "error"}, Return(r)
      PROVE  RunTypeOK'
  BY <1>2 DEF RunTypeOK, Return, PC
<1>3. CASE after # "next"
  BY <1>2, <1>3 DEF TypeOK, Resume
<1> QED
  BY <1>1, <1>3

LEMMA NextType == TypeOK /\ [Next]_vars => TypeOK'
<1> SUFFICES ASSUME TypeOK, [Next]_vars
             PROVE  TypeOK'
  OBVIOUS
<1> USE DEF sharedVars, storeVars, runVars, clientVars, countVars
<1>1. ASSUME NEW u \in User, IngestOk(u)
      PROVE  TypeOK'
  BY <1>1, IngestType DEF TypeOK, PC, IngestOk
<1>2. ASSUME NEW u \in User, IngestAppendFails(u)
      PROVE  TypeOK'
  <2>1. log' \in Seq(Event)
    BY <1>2, IngestType DEF TypeOK, IngestAppendFails
  <2> QED
    BY <1>2, <2>1 DEF TypeOK, PC, IngestAppendFails, Fault
<1>3. ASSUME NEW u \in User, IngestSaveFails(u)
      PROVE  TypeOK'
  BY <1>3, IngestType DEF TypeOK, PC, IngestSaveFails, Fault
<1>4. CASE IngestPrompt
  BY <1>4, ConstantEventTypes, ReduceType DEF TypeOK, PC, IngestPrompt
<1>5. CASE Cancel
  BY <1>5 DEF TypeOK, PC, Cancel
<1>6. CASE Start
  BY <1>6 DEF TypeOK, PC, Start, CallRun
<1>7. CASE RecoverLoad
  BY <1>7 DEF TypeOK, PC, RecoverLoad
<1>8. CASE RecoverFails
  BY <1>8 DEF TypeOK, PC, RecoverFails, Return, Fault, NoState
<1>9. CASE RecoverAssign
  BY <1>9 DEF TypeOK, PC, RecoverAssign, NoState
<1>10. CASE LoopExceeded
  BY <1>10 DEF TypeOK, PC, LoopExceeded, Return, NoState
<1>11. CASE LoopCancelled
  BY <1>11 DEF TypeOK, PC, LoopCancelled
<1>12. CASE LoopPending
  BY <1>12 DEF TypeOK, PC, LoopPending
<1>13. CASE LoopSelect
  BY <1>13 DEF TypeOK, PC, LoopSelect
<1>14. CASE SelectGoal
  BY <1>14 DEF TypeOK, PC, SelectGoal
<1>15. CASE Decide
  BY <1>15 DEF TypeOK, PC, Decide, CallLLM, Command, UsersIn
<1>16. CASE StreamToken
  BY <1>16, ConstantEventTypes DEF TypeOK, PC, StreamToken, Executing
<1>17. CASE LLMReplies
  <2>1. PICK r \in Replies :
            /\ Executed(LLMResponse(r.text, WithIds(r.calls), Head(cmds).saw))
            /\ nextCall' = nextCall + Len(r.calls)
    BY <1>17 DEF LLMReplies
  <2>2. Head(cmds) \in Command /\ Tail(cmds) \in Seq(Command) /\ Head(cmds).kind = "call_llm"
    BY <1>17 DEF LLMReplies, Executing, TypeOK
  <2>3. /\ LLMResponse(r.text, WithIds(r.calls), Head(cmds).saw) \in Event
        /\ Len(r.calls) \in Nat
    BY <2>2, LLMResponseType DEF TypeOK
  <2> QED
    BY SMTT(30), <1>17, <2>1, <2>2, <2>3 DEF TypeOK, PC, Executed, LLMReplies, Executing
<1>18. CASE LLMFails
  BY <1>18, ConstantEventTypes DEF TypeOK, PC, LLMFails, Executing, Executed
<1>19. CASE ToolReturns
  <2>1. PICK ok \in BOOLEAN : Executed(ToolResult(Head(cmds).call, ok))
    BY <1>19 DEF ToolReturns
  <2>2. Head(cmds) \in Command /\ Tail(cmds) \in Seq(Command) /\ Head(cmds).kind = "call_tool"
    BY <1>19 DEF ToolReturns, Executing, TypeOK
  <2>3. ToolResult(Head(cmds).call, ok) \in Event
    BY <2>2, ToolResultType
  <2> QED
    BY <1>19, <2>1, <2>2, <2>3 DEF TypeOK, PC, Executed, ToolReturns, Executing
<1>20. CASE PersistEvents
  BY <1>20 DEF TypeOK, PC, PersistEvents
<1>21. CASE PersistFails
  BY <1>21 DEF TypeOK, PC, PersistFails, Fault
<1>22. CASE ApplyRead
  BY <1>22 DEF TypeOK, PC, ApplyRead
<1>23. CASE ApplyWrite
  <2>1. Head(out) \in Event /\ Tail(out) \in Seq(Event) /\ local \in State
    BY <1>23 DEF TypeOK, ApplyWrite
  <2>2. Reduce(local, Head(out)) \in State /\ CommandsOf(Head(out)) \in Seq(Command)
    BY <2>1, ReduceType, CommandsOfType
  <2> QED
    BY <1>23, <2>1, <2>2 DEF TypeOK, PC, ApplyWrite, NoState
<1>24. CASE EndStep
  BY <1>24 DEF TypeOK, PC, EndStep
<1>25. CASE CheckpointClone
  BY <1>25 DEF TypeOK, PC, CheckpointClone
<1>26. CASE CheckpointSaveState
  BY <1>26 DEF TypeOK, PC, CheckpointSaveState
<1>27. CASE CheckpointSave
  <2>1. local \in State /\ Append(ckpts, local) \in Seq(State)
    BY <1>27 DEF TypeOK, CheckpointSave
  <2>2. /\ mem' = mem /\ pending' = pending /\ ctxDone' = ctxDone /\ log' = log
        /\ disk' = disk /\ ckpts' = Append(ckpts, local) /\ acked' = acked
        /\ refused' = refused /\ nextCall' = nextCall /\ callers' = callers
        /\ tokens' = tokens /\ faults' = faults
    BY <1>27 DEF CheckpointSave
  <2>3. Resume(TRUE)
    BY <1>27 DEF CheckpointSave
  <2>4. RunTypeOK'
    BY <2>3, ResumeType
  <2> QED
    BY <2>1, <2>2, <2>4 DEF TypeOK, RunTypeOK
<1>28. CASE CheckpointFails
  <2>1. /\ mem' = mem /\ pending' = pending /\ ctxDone' = ctxDone /\ log' = log
        /\ disk' = disk /\ ckpts' = ckpts /\ acked' = acked
        /\ refused' = refused /\ nextCall' = nextCall /\ callers' = callers
        /\ tokens' = tokens /\ faults' = faults + 1
    BY <1>28 DEF CheckpointFails, Fault
  <2>2. Resume(FALSE)
    BY <1>28 DEF CheckpointFails
  <2>3. RunTypeOK'
    BY <2>2, ResumeType
  <2> QED
    BY <2>1, <2>3 DEF TypeOK, RunTypeOK
<1>29. CASE UNCHANGED vars
  BY <1>29 DEF TypeOK, PC, vars
<1> QED
  BY <1>1, <1>2, <1>3, <1>4, <1>5, <1>6, <1>7, <1>8, <1>9, <1>10, <1>11, <1>12, <1>13, <1>14, <1>15, <1>16, <1>17, <1>18, <1>19, <1>20, <1>21, <1>22, <1>23, <1>24, <1>25, <1>26, <1>27, <1>28, <1>29
  DEF Next, Ingest, LoopStep

\* Every variable keeps its type, whatever the LLM, the tools and the clients do
\* and whichever store operations fail.
THEOREM TypeCorrect == Spec => []TypeOK
BY InitType, NextType, PTL DEF Spec

-----------------------------------------------------------------------------
(***************************************************************************)
(* The states the program holds.                                           *)
(*                                                                         *)
(* Neither SingleGoal nor WriteAhead is inductive: ApplyWrite reduces an   *)
(* event of `out', about which they say nothing.  IInv adds that the events*)
(* being applied are in the log.                                           *)
(***************************************************************************)

OutLogged ==
    pc \in {"apply", "reduce"} =>
        \A k \in DOMAIN out : \E j \in DOMAIN log : log[j] = out[k]

IInv == TypeOK /\ OutLogged /\ SingleGoal /\ WriteAhead

\* s comes from a state that was held, by an event that is in the new log.
Derived(s) ==
    \E t \in HeldStates, e \in Event :
        /\ s = Reduce(t, e)
        /\ \E j \in DOMAIN log' : log'[j] = e

LEMMA NoStateIsNone == NoState \notin State
<1>1. \A t \in State : "version" \in DOMAIN t
  BY DEF State
<1>2. DOMAIN NoState = {}
  BY DEF NoState
<1> QED
  BY <1>1, <1>2

LEMMA HeldStatesType ==
    ASSUME TypeOK, NEW s \in HeldStates
    PROVE  s \in State
BY DEF TypeOK, HeldStates

\* What the loop writes back.
LEMMA WriteType ==
    ASSUME TypeOK, ApplyWrite
    PROVE  local \in State /\ out \in Seq(Event) /\ out # <<>> /\ Head(out) \in Event
<1>1. local \in State /\ out \in Seq(Event) /\ out # <<>>
  BY DEF ApplyWrite, TypeOK
<1>2. Head(out) \in Event
  BY <1>1
<1> QED
  BY <1>1, <1>2

\* The event log is append-only.
LEMMA LogGrows ==
    ASSUME TypeOK, [Next]_vars
    PROVE  \A j \in DOMAIN log : j \in DOMAIN log' /\ log'[j] = log[j]
<1> USE DEF sharedVars, storeVars, runVars, clientVars, countVars
<1> DEFINE Grows == \A j \in DOMAIN log : j \in DOMAIN log' /\ log'[j] = log[j]
<1>1. ASSUME NEW e, log' = Append(log, e)
      PROVE  Grows
  BY <1>1 DEF TypeOK
<1>2. ASSUME NEW es \in Seq(Event), log' = log \o es
      PROVE  Grows
  BY <1>2 DEF TypeOK
<1>3. CASE log' = log
  BY <1>3
<1>4. CASE PersistEvents
  BY <1>4, <1>2 DEF PersistEvents, TypeOK
<1>5. CASE PersistFails
  <2>1. PICK k \in 0..Len(out) : log' = log \o SubSeq(out, 1, k)
    BY <1>5 DEF PersistFails
  <2>2. SubSeq(out, 1, k) \in Seq(Event)
    BY SubSeqProperties DEF TypeOK
  <2> QED
    BY <2>1, <2>2, <1>2
<1>6. CASE \E u \in User : Ingest(u)
  BY <1>6, <1>1, <1>3 DEF Ingest, IngestOk, IngestAppendFails, IngestSaveFails
<1>7. CASE IngestPrompt \/ StreamToken
  BY <1>7, <1>1 DEF IngestPrompt, StreamToken
<1>8. CASE Cancel \/ Start \/ UNCHANGED vars
  BY <1>8, <1>3 DEF Cancel, Start, CallRun, vars
<1>9. CASE RecoverLoad \/ RecoverFails \/ RecoverAssign \/ LoopExceeded
           \/ LoopCancelled \/ LoopPending \/ LoopSelect
  BY <1>9, <1>3 DEF RecoverLoad, RecoverFails, RecoverAssign, LoopExceeded,
                    LoopCancelled, LoopPending, LoopSelect
<1>10. CASE SelectGoal \/ Decide \/ LLMReplies \/ LLMFails \/ ToolReturns
  BY <1>10, <1>3 DEF SelectGoal, Decide, LLMReplies, LLMFails, ToolReturns, Executed
<1>11. CASE ApplyRead \/ ApplyWrite \/ EndStep \/ CheckpointClone
            \/ CheckpointSaveState \/ CheckpointSave \/ CheckpointFails
  BY <1>11, <1>3 DEF ApplyRead, ApplyWrite, EndStep, CheckpointClone,
                     CheckpointSaveState, CheckpointSave, CheckpointFails
<1> QED
  BY <1>4, <1>5, <1>6, <1>7, <1>8, <1>9, <1>10, <1>11 DEF Next, LoopStep

\* Every state held after a step was held before it, or is one logged event
\* ahead of a state that was.
LEMMA HeldStep ==
    ASSUME TypeOK, OutLogged, [Next]_vars, NEW s \in HeldStates'
    PROVE  s \in HeldStates \/ Derived(s)
<1> USE DEF sharedVars, storeVars, runVars, clientVars, countVars
<1> DEFINE Goal0 == s \in HeldStates \/ Derived(s)
           Same == mem' = mem /\ disk' = disk /\ ckpts' = ckpts
<1>1. CASE Same /\ local' \in {local, mem, disk, NoState}
  BY <1>1 DEF HeldStates
<1>2. ASSUME NEW e \in Event, log' = Append(log, e),
             mem' = Reduce(mem, e), disk' \in {mem', disk},
             local' = local, ckpts' = ckpts
      PROVE  Goal0
  <2>1. Len(log) + 1 \in DOMAIN log' /\ log'[Len(log) + 1] = e
    BY <1>2 DEF TypeOK
  <2>2. Derived(mem')
    BY <1>2, <2>1 DEF Derived, HeldStates
  <2> QED
    BY <1>2, <2>2 DEF HeldStates
<1>3. CASE \E u \in User : Ingest(u)
  <2>1. PICK u \in User : Ingest(u)
    BY <1>3
  <2>2. UserMessage(u) \in Event
    BY UserMessageType
  <2>3. CASE IngestOk(u)
    BY <2>2, <2>3, <1>2 DEF IngestOk
  <2>4. CASE IngestAppendFails(u)
    BY <2>4, <1>1 DEF IngestAppendFails
  <2>5. CASE IngestSaveFails(u)
    BY <2>2, <2>5, <1>2 DEF IngestSaveFails
  <2> QED
    BY <2>1, <2>3, <2>4, <2>5 DEF Ingest
<1>4. CASE IngestPrompt
  BY <1>4, <1>2, ConstantEventTypes DEF IngestPrompt
<1>5. CASE Cancel \/ Start \/ UNCHANGED vars
  BY <1>5, <1>1 DEF Cancel, Start, CallRun, vars
<1>6. CASE RecoverLoad \/ RecoverFails \/ LoopExceeded \/ LoopCancelled
           \/ LoopPending \/ LoopSelect
  BY <1>6, <1>1 DEF RecoverLoad, RecoverFails, LoopExceeded, LoopCancelled,
                    LoopPending, LoopSelect, Return
<1>7. CASE RecoverAssign
  <2>1. local # NoState
    BY <1>7, NoStateIsNone DEF RecoverAssign, TypeOK
  <2> QED
    BY <1>7, <2>1 DEF RecoverAssign, HeldStates
<1>8. CASE SelectGoal \/ Decide \/ StreamToken \/ LLMReplies \/ LLMFails \/ ToolReturns
  BY <1>8, <1>1 DEF SelectGoal, Decide, StreamToken, LLMReplies, LLMFails,
                    ToolReturns, Executed
<1>9. CASE PersistEvents \/ PersistFails \/ ApplyRead \/ EndStep \/ CheckpointClone
  BY <1>9, <1>1 DEF PersistEvents, PersistFails, ApplyRead, EndStep, CheckpointClone
<1>10. CASE ApplyWrite
  <2>1. /\ Head(out) \in Event /\ Head(out) = out[1] /\ 1 \in DOMAIN out
        /\ local \in State /\ local # NoState
    BY <1>10, NoStateIsNone DEF ApplyWrite, TypeOK
  <2>2. \E j \in DOMAIN log' : log'[j] = Head(out)
    BY <1>10, <2>1 DEF ApplyWrite, OutLogged
  <2>3. Derived(mem')
    BY <1>10, <2>1, <2>2 DEF ApplyWrite, Derived, HeldStates
  <2> QED
    BY <1>10, <2>3 DEF ApplyWrite, HeldStates
<1>11. CASE CheckpointSaveState
  <2>1. local # NoState
    BY <1>11, NoStateIsNone DEF CheckpointSaveState, TypeOK
  <2> QED
    BY <1>11, <2>1 DEF CheckpointSaveState, HeldStates
<1>12. CASE CheckpointSave
  <2>1. local \in State /\ local # NoState
    BY <1>12, NoStateIsNone DEF CheckpointSave, TypeOK
  <2>2. local' \in {local, NoState}
    BY <1>12 DEF CheckpointSave, Resume, Return
  <2>3. \A i \in DOMAIN ckpts' : ckpts'[i] = local \/ \E k \in DOMAIN ckpts : ckpts'[i] = ckpts[k]
    BY SMTT(30), <1>12, <2>1 DEF CheckpointSave, TypeOK
  <2> QED
    BY <1>12, <2>1, <2>2, <2>3 DEF CheckpointSave, HeldStates
<1>13. CASE CheckpointFails
  <2>1. local' \in {local, NoState}
    BY <1>13 DEF CheckpointFails, Resume, Return
  <2> QED
    BY <1>13, <2>1, <1>1 DEF CheckpointFails
<1> QED
  BY <1>3, <1>4, <1>5, <1>6, <1>7, <1>8, <1>9, <1>10, <1>11, <1>12, <1>13 DEF Next, LoopStep

\* PersistEvents logs `out', PersistFails empties it, and it only shrinks while
\* its events are applied.
LEMMA OutLoggedStep ==
    ASSUME TypeOK, OutLogged, [Next]_vars
    PROVE  OutLogged'
<1> USE DEF sharedVars, storeVars, runVars, clientVars, countVars
<1>1. CASE pc' \in {"apply", "reduce"} /\ pc \in {"apply", "reduce"} /\ out' = out
  BY <1>1, LogGrows DEF OutLogged
<1>2. CASE PersistEvents
  <2>1. /\ log \in Seq(Event) /\ out \in Seq(Event)
        /\ log' = log \o out /\ out' = out
    BY <1>2 DEF PersistEvents, TypeOK
  <2>2. ASSUME NEW k \in DOMAIN out'
        PROVE  Len(log) + k \in DOMAIN log' /\ log'[Len(log) + k] = out'[k]
    BY <2>1
  <2> QED
    BY <2>2 DEF OutLogged
<1>3. CASE PersistFails
  BY <1>3 DEF PersistFails, OutLogged
<1>4. CASE ApplyWrite
  <2>1. /\ out \in Seq(Event) /\ out # <<>> /\ out' = Tail(out)
        /\ pc = "reduce" /\ log' = log
    BY <1>4 DEF ApplyWrite, TypeOK
  <2>2. ASSUME NEW k \in DOMAIN out'
        PROVE  k + 1 \in DOMAIN out /\ out'[k] = out[k + 1]
    BY <2>1
  <2> QED
    BY <2>1, <2>2 DEF OutLogged
<1>5. CASE \E u \in User : Ingest(u)
  BY <1>5, <1>1 DEF Ingest, IngestOk, IngestAppendFails, IngestSaveFails, OutLogged
<1>6. CASE IngestPrompt \/ Cancel \/ UNCHANGED vars
  BY <1>6, <1>1 DEF IngestPrompt, Cancel, vars, OutLogged
<1>7. CASE Start \/ RecoverLoad \/ RecoverFails \/ RecoverAssign \/ LoopExceeded
           \/ LoopCancelled \/ LoopPending \/ LoopSelect \/ SelectGoal \/ Decide
  BY <1>7 DEF Start, CallRun, RecoverLoad, RecoverFails, RecoverAssign, LoopExceeded,
              LoopCancelled, LoopPending, LoopSelect, SelectGoal, Decide, Return,
              OutLogged
<1>8. CASE StreamToken \/ LLMReplies \/ LLMFails \/ ToolReturns
  BY <1>8 DEF StreamToken, LLMReplies, LLMFails, ToolReturns, Executing, Executed,
              OutLogged
<1>9. CASE ApplyRead
  BY <1>9, <1>1 DEF ApplyRead
<1>10. CASE EndStep \/ CheckpointClone \/ CheckpointSaveState \/ CheckpointSave
            \/ CheckpointFails
  BY <1>10 DEF EndStep, CheckpointClone, CheckpointSaveState, CheckpointSave,
               CheckpointFails, Resume, Return, OutLogged
<1> QED
  BY <1>2, <1>3, <1>4, <1>5, <1>6, <1>7, <1>8, <1>9, <1>10 DEF Next, LoopStep

LEMMA InitInv == Init => IInv
<1> SUFFICES ASSUME Init PROVE IInv
  OBVIOUS
<1>1. HeldStates = {NewState}
  BY DEF Init, HeldStates
<1>2. SingleGoal /\ WriteAhead
  BY <1>1 DEF SingleGoal, OneActiveGoal, WriteAhead, AllLogged, NewState
<1>3. OutLogged
  BY DEF Init, OutLogged
<1> QED
  BY <1>2, <1>3, InitType DEF IInv

\* A reduced event is the only source of messages.
LEMMA ReduceLogged ==
    ASSUME NEW events \in Seq(Event), NEW s \in State, NEW e \in Event,
           AllLogged(events, s.msgs), \E j \in DOMAIN events : events[j] = e
    PROVE  AllLogged(events, Reduce(s, e).msgs)
<1> DEFINE more == s.msgs \o MessagesOf(e)
<1>1. s.msgs \in Seq(Message) /\ MessagesOf(e) \in Seq(Message)
  BY MessagesOfType DEF State
<1>2. Reduce(s, e).msgs = more
  BY DEF Reduce
<1>3. ASSUME NEW i \in DOMAIN more
      PROVE  LoggedIn(events, more[i])
  <2>1. CASE i \in DOMAIN s.msgs
    <3>1. more[i] = s.msgs[i]
      BY <1>1, <2>1
    <3> QED
      BY <2>1, <3>1 DEF AllLogged
  <2>2. CASE i \notin DOMAIN s.msgs
    <3>1. MessagesOf(e) # <<>> /\ i - Len(s.msgs) \in DOMAIN MessagesOf(e)
          /\ more[i] = MessagesOf(e)[i - Len(s.msgs)]
      BY <1>1, <2>2
    <3>2. \E m : MessagesOf(e) = <<m>>
      BY <3>1 DEF MessagesOf
    <3>3. MessagesOf(e) = <<more[i]>>
      BY <3>1, <3>2
    <3> QED
      BY <3>3 DEF LoggedIn
  <2> QED
    BY <2>1, <2>2
<1> QED
  BY <1>2, <1>3 DEF AllLogged

LEMMA NextInv == IInv /\ [Next]_vars => IInv'
<1> SUFFICES ASSUME IInv, [Next]_vars
             PROVE  IInv'
  OBVIOUS
<1> USE DEF IInv
<1>1. TypeOK'
  BY NextType
<1>2. OutLogged'
  BY OutLoggedStep
<1>3. SingleGoal'
  <2> SUFFICES ASSUME NEW s \in HeldStates'
               PROVE  OneActiveGoal(s.goals)
    BY DEF SingleGoal
  <2>1. CASE s \in HeldStates
    BY <2>1 DEF SingleGoal
  <2>2. CASE Derived(s)
    <3>1. PICK t \in HeldStates, e \in Event : s = Reduce(t, e)
      BY <2>2 DEF Derived
    <3>2. t.goals \in Seq(Goal) /\ OneActiveGoal(t.goals)
      BY HeldStatesType DEF SingleGoal, State
    <3>3. s.goals = GoalsAfter(t.goals, e)
      BY <3>1 DEF Reduce
    <3> QED
      BY <3>2, <3>3, GoalsAfterKeepsOneActive
  <2> QED
    BY <2>1, <2>2, HeldStep
<1>4. WriteAhead'
  <2>1. \A t \in HeldStates : AllLogged(log', t.msgs)
    BY LogGrows DEF WriteAhead, AllLogged, LoggedIn
  <2> SUFFICES ASSUME NEW s \in HeldStates'
               PROVE  AllLogged(log', s.msgs)
    BY DEF WriteAhead
  <2>2. CASE s \in HeldStates
    BY <2>1, <2>2
  <2>3. CASE Derived(s)
    <3>1. PICK t \in HeldStates, e \in Event :
              s = Reduce(t, e) /\ \E j \in DOMAIN log' : log'[j] = e
      BY <2>3 DEF Derived
    <3>2. log' \in Seq(Event) /\ t \in State
      BY <1>1, HeldStatesType DEF TypeOK
    <3> QED
      BY <2>1, <3>1, <3>2, ReduceLogged
  <2> QED
    BY <2>2, <2>3, HeldStep
<1> QED
  BY <1>1, <1>2, <1>3, <1>4

\* No state the program holds anywhere ever has two unfinished goals.
THEOREM OneGoalAtATime == Spec => []SingleGoal
<1>1. IInv => SingleGoal
  BY DEF IInv
<1> QED
  BY <1>1, InitInv, NextInv, PTL DEF Spec

\* Nothing is in a conversation, in memory or on disk, that is not in the log.
THEOREM LoggedFirst == Spec => []WriteAhead
<1>1. IInv => WriteAhead
  BY DEF IInv
<1> QED
  BY <1>1, InitInv, NextInv, PTL DEF Spec

-----------------------------------------------------------------------------
(***************************************************************************)
(* Pending commands.                                                       *)
(*                                                                         *)
(* NoWorkLeft says nothing of the last checkpoint, during which the loop   *)
(* has already decided to return: the invariant follows that decision from *)
(* LoopSelect on.                                                          *)
(***************************************************************************)

Saving == {"checkpoint", "saveState", "saveCheckpoint"}

\* The loop has seen that nothing is pending.
Ending ==
    \/ pc = "select"
    \/ pc \in Saving /\ after = "finish"
    \/ pc = "stopped" /\ result = "nil" /\ ~ctxDone

WInv ==
    /\ Ending => pending = <<>>
    /\ after \in {"finish", "shutdown"} => pc \in Saving
    /\ after = "shutdown" => ctxDone

\* A checkpoint that is over, or has failed.
LEMMA ResumeWInv ==
    ASSUME TypeOK, WInv, pc \in Saving, NEW ok \in BOOLEAN, Resume(ok),
           UNCHANGED <<pending, ctxDone>>
    PROVE  WInv'
<1>1. CASE after = "next"
  BY <1>1 DEF WInv, Ending, Saving, Resume
<1>2. CASE after = "finish"
  BY <1>2 DEF WInv, Ending, Saving, Resume, Return
<1>3. CASE after = "shutdown"
  BY <1>3 DEF WInv, Ending, Saving, Resume, Return
<1> QED
  BY <1>1, <1>2, <1>3 DEF TypeOK

LEMMA NextWInv == TypeOK /\ WInv /\ [Next]_vars => WInv'
<1> SUFFICES ASSUME TypeOK, WInv, [Next]_vars
             PROVE  WInv'
  OBVIOUS
<1> USE DEF WInv, Ending, Saving, sharedVars, storeVars, runVars, clientVars, countVars
<1>1. ASSUME NEW u \in User, Ingest(u)
      PROVE  WInv'
  BY <1>1 DEF Ingest, IngestOk, IngestAppendFails, IngestSaveFails, Fault
<1>2. CASE IngestPrompt \/ Cancel \/ UNCHANGED vars
  BY <1>2 DEF IngestPrompt, Cancel, vars
<1>3. CASE Start
  BY <1>3 DEF Start, CallRun
<1>4. CASE RecoverLoad \/ RecoverFails \/ RecoverAssign
  BY <1>4 DEF RecoverLoad, RecoverFails, RecoverAssign, Return
<1>5. CASE LoopExceeded \/ LoopCancelled \/ LoopPending \/ LoopSelect
  BY <1>5 DEF LoopExceeded, LoopCancelled, LoopPending, LoopSelect, Return
<1>6. CASE SelectGoal \/ Decide
  BY <1>6 DEF SelectGoal, Decide
<1>7. CASE StreamToken \/ LLMReplies \/ LLMFails \/ ToolReturns
  <2>1. UNCHANGED <<pending, ctxDone, pc, after, result>>
    BY <1>7 DEF StreamToken, LLMReplies, LLMFails, ToolReturns, Executed
  <2> QED
    BY <2>1
<1>8. CASE PersistEvents \/ PersistFails
  BY <1>8 DEF PersistEvents, PersistFails
<1>9. CASE ApplyRead \/ ApplyWrite \/ EndStep
  BY <1>9 DEF ApplyRead, ApplyWrite, EndStep
<1>10. CASE CheckpointClone \/ CheckpointSaveState
  BY <1>10 DEF CheckpointClone, CheckpointSaveState
<1>11. CASE CheckpointSave \/ CheckpointFails
  <2>1. /\ pc \in Saving
        /\ UNCHANGED <<pending, ctxDone>>
        /\ \E ok \in BOOLEAN : Resume(ok)
    BY <1>11 DEF CheckpointSave, CheckpointFails
  <2> QED
    BY <2>1, ResumeWInv
<1> QED
  BY <1>1, <1>2, <1>3, <1>4, <1>5, <1>6, <1>7, <1>8, <1>9, <1>10, <1>11
  DEF Next, LoopStep

\* A run that returned nil of itself left no tool call unexecuted, whichever
\* store operations failed.
THEOREM RunsFinishWork == Spec => []NoWorkLeft
<1>1. Init => WInv
  BY DEF Init, WInv, Ending, Saving
<1>2. WInv => NoWorkLeft
  BY DEF WInv, Ending, NoWorkLeft
<1> QED
  BY <1>1, <1>2, NextWInv, TypeCorrect, PTL DEF Spec

-----------------------------------------------------------------------------
(***************************************************************************)
(* Versions.                                                               *)
(*                                                                         *)
(* A lost update or a recovery takes the version in memory back, but never *)
(* below the newest checkpoint: the loop alone saves checkpoints, and what *)
(* it holds, or finds in memory and on disk, came after them.              *)
(***************************************************************************)

Newest == IF ckpts = <<>> THEN 0 ELSE ckpts[Len(ckpts)].version

VInv ==
    /\ Newest <= mem.version
    /\ ckpts # <<>> => disk # NoState
    /\ disk # NoState => Newest <= disk.version
    /\ local # NoState => Newest <= local.version
    /\ pc \in {"saveState", "saveCheckpoint"} => local.version <= mem.version
    /\ pc = "saveCheckpoint" => disk # NoState /\ local.version <= disk.version

LEMMA Versions ==
    ASSUME TypeOK
    PROVE  /\ mem.version \in Nat
           /\ disk # NoState => disk.version \in Nat
           /\ local # NoState => local.version \in Nat
           /\ Newest \in Nat
<1>1. \A s \in State : s.version \in Nat
  BY DEF State
<1>2. ckpts # <<>> => ckpts[Len(ckpts)] \in State
  BY DEF TypeOK
<1> QED
  BY <1>1, <1>2 DEF TypeOK, Newest

\* Everything but the loop's own writes.
LEMMA GrowVInv ==
    ASSUME TypeOK, VInv, UNCHANGED <<pc, ckpts, local>>,
           mem'.version \in {mem.version, mem.version + 1},
           disk' = disk \/ (disk' = mem' /\ mem' \in State)
    PROVE  VInv'
<1>1. Newest' = Newest
  BY DEF Newest
<1>2. mem.version \in Nat /\ Newest \in Nat
  BY Versions
<1>3. pc \in {"saveState", "saveCheckpoint"} => local.version \in Nat
  BY Versions, NoStateIsNone DEF TypeOK
<1>4. CASE disk' = disk
  BY <1>1, <1>2, <1>3, <1>4 DEF VInv
<1>5. CASE disk' = mem' /\ mem' \in State
  BY <1>1, <1>2, <1>3, <1>5, NoStateIsNone DEF VInv
<1> QED
  BY <1>4, <1>5

\* The loop goes on, with the state it held or none.
LEMMA LoopVInv ==
    ASSUME TypeOK, VInv, UNCHANGED <<mem, disk, ckpts>>, local' \in {local, NoState},
           pc' \notin {"saveState", "saveCheckpoint"}
    PROVE  VInv'
<1>1. Newest' = Newest
  BY DEF Newest
<1> QED
  BY <1>1 DEF VInv

LEMMA NextVInv == TypeOK /\ VInv /\ [Next]_vars => VInv'
<1> SUFFICES ASSUME TypeOK, VInv, [Next]_vars
             PROVE  VInv'
  OBVIOUS
<1> USE DEF sharedVars, storeVars, runVars, clientVars, countVars
<1>1. ASSUME NEW e \in Event, NEW s \in State
      PROVE  Reduce(s, e).version = s.version + 1 /\ Reduce(s, e) \in State
  BY <1>1, ReduceType DEF Reduce
<1>2. ASSUME NEW u \in User, Ingest(u)
      PROVE  VInv'
  <2>1. UserMessage(u) \in Event /\ mem \in State
    BY UserMessageType DEF TypeOK
  <2> QED
    BY <1>1, <1>2, <2>1, GrowVInv
    DEF Ingest, IngestOk, IngestAppendFails, IngestSaveFails
<1>3. CASE IngestPrompt
  <2>1. SystemPrompt \in Event /\ mem \in State
    BY ConstantEventTypes DEF TypeOK
  <2> QED
    BY <1>1, <1>3, <2>1, GrowVInv DEF IngestPrompt
<1>4. CASE Cancel \/ StreamToken \/ UNCHANGED vars
  <2>1. UNCHANGED <<mem, disk, ckpts, local, pc>>
    BY <1>4 DEF Cancel, StreamToken, vars
  <2>2. Newest' = Newest
    BY <2>1 DEF Newest
  <2> QED
    BY <2>1, <2>2 DEF VInv
<1>5. CASE Start
  BY <1>5, LoopVInv DEF Start, CallRun
<1>6. CASE RecoverLoad
  <2>1. Newest' = Newest
    BY <1>6 DEF RecoverLoad, Newest
  <2> QED
    BY <1>6, <2>1 DEF RecoverLoad, VInv
<1>7. CASE RecoverAssign
  <2>1. Newest' = Newest /\ local \in State
    BY <1>7 DEF RecoverAssign, Newest, TypeOK
  <2> QED
    BY <1>7, <2>1, NoStateIsNone DEF RecoverAssign, VInv
<1>8. CASE RecoverFails \/ LoopExceeded \/ LoopCancelled \/ LoopPending \/ LoopSelect
  BY <1>8, LoopVInv DEF RecoverFails, LoopExceeded, LoopCancelled, LoopPending,
                        LoopSelect, Return
<1>9. CASE SelectGoal \/ Decide
  BY <1>9, LoopVInv DEF SelectGoal, Decide
<1>10. CASE LLMReplies \/ LLMFails \/ ToolReturns
  <2>1. UNCHANGED <<mem, disk, ckpts, local, pc>> /\ pc = "dispatch"
    BY <1>10 DEF LLMReplies, LLMFails, ToolReturns, Executed, Executing
  <2> QED
    BY <2>1, LoopVInv
<1>11. CASE PersistEvents \/ PersistFails \/ EndStep
  BY <1>11, LoopVInv DEF PersistEvents, PersistFails, EndStep
<1>12. CASE ApplyRead
  <2>1. Newest' = Newest
    BY <1>12 DEF ApplyRead, Newest
  <2> QED
    BY <1>12, <2>1 DEF ApplyRead, VInv
<1>13. CASE ApplyWrite
  <2>1. local \in State /\ Head(out) \in Event /\ local # NoState
    BY <1>13, WriteType, NoStateIsNone
  <2>2. mem'.version = local.version + 1 /\ Newest' = Newest
    BY <1>1, <1>13, <2>1 DEF ApplyWrite, Newest
  <2>3. local.version \in Nat /\ Newest \in Nat
    BY <2>1, Versions
  <2> QED
    BY <1>13, <2>1, <2>2, <2>3 DEF ApplyWrite, VInv
<1>14. CASE CheckpointClone
  <2>1. Newest' = Newest /\ mem.version \in Nat
    BY <1>14, Versions DEF CheckpointClone, Newest
  <2> QED
    BY <1>14, <2>1 DEF CheckpointClone, VInv
<1>15. CASE CheckpointSaveState
  <2>1. Newest' = Newest /\ local \in State /\ local # NoState
    BY <1>15, NoStateIsNone DEF CheckpointSaveState, Newest, TypeOK
  <2>2. local.version \in Nat
    BY <2>1, Versions
  <2> QED
    BY <1>15, <2>1, <2>2 DEF CheckpointSaveState, VInv
<1>16. ASSUME NEW ok \in BOOLEAN, Resume(ok)
       PROVE  local' = NoState /\ pc' \in {"loop", "stopped"}
  BY <1>16 DEF Resume, Return
<1>17. CASE CheckpointSave
  <2>1. local \in State /\ local # NoState /\ local' = NoState
        /\ pc' \in {"loop", "stopped"}
    BY <1>16, <1>17, NoStateIsNone DEF CheckpointSave, TypeOK
  <2>2. ckpts \in Seq(State) /\ ckpts' = Append(ckpts, local)
    BY <1>17 DEF CheckpointSave, TypeOK
  <2>3. ckpts' # <<>> /\ ckpts'[Len(ckpts')] = local
    BY <2>1, <2>2
  <2>4. Newest' = local.version
    BY <2>3 DEF Newest
  <2> QED
    BY <1>17, <2>1, <2>3, <2>4 DEF CheckpointSave, VInv
<1>18. CASE CheckpointFails
  BY <1>16, <1>18, LoopVInv DEF CheckpointFails
<1> QED
  BY <1>2, <1>3, <1>4, <1>5, <1>6, <1>7, <1>8, <1>9, <1>10, <1>11, <1>12, <1>13,
     <1>14, <1>15, <1>17, <1>18
  DEF Next, LoopStep

\* Only CheckpointSave saves a checkpoint.
LEMMA SavedBy ==
    ASSUME [Next]_vars, ckpts' # ckpts
    PROVE  CheckpointSave
<1> USE DEF sharedVars, storeVars, runVars, clientVars, countVars
<1>1. CASE \E u \in User : Ingest(u)
  BY <1>1 DEF Ingest, IngestOk, IngestAppendFails, IngestSaveFails
<1>2. CASE IngestPrompt \/ Cancel \/ Start \/ ToolReturns \/ UNCHANGED vars
  BY <1>2 DEF IngestPrompt, Cancel, Start, CallRun, ToolReturns, Executed, vars
<1>3. CASE RecoverLoad \/ RecoverFails \/ RecoverAssign \/ LoopExceeded
           \/ LoopCancelled \/ LoopPending \/ LoopSelect
  BY <1>3 DEF RecoverLoad, RecoverFails, RecoverAssign, LoopExceeded,
              LoopCancelled, LoopPending, LoopSelect
<1>4. CASE SelectGoal \/ Decide \/ StreamToken \/ LLMReplies \/ LLMFails
  BY <1>4 DEF SelectGoal, Decide, StreamToken, LLMReplies, LLMFails, Executed
<1>5. CASE PersistEvents \/ PersistFails \/ ApplyRead \/ ApplyWrite \/ EndStep
  BY <1>5 DEF PersistEvents, PersistFails, ApplyRead, ApplyWrite, EndStep
<1>6. CASE CheckpointClone \/ CheckpointSaveState \/ CheckpointFails
  BY <1>6 DEF CheckpointClone, CheckpointSaveState, CheckpointFails
<1> QED
  BY <1>1, <1>2, <1>3, <1>4, <1>5, <1>6 DEF Next, LoopStep

LEMMA SaveAdvances ==
    ASSUME TypeOK, VInv, [Next]_vars, ckpts' # ckpts
    PROVE  LET s == ckpts'[Len(ckpts')] IN
             /\ disk # NoState /\ disk.version >= s.version
             /\ ckpts # <<>> => s.version >= ckpts[Len(ckpts)].version
<1>1. CheckpointSave
  BY SavedBy
<1>2. local \in State /\ local # NoState
  BY <1>1, NoStateIsNone DEF CheckpointSave, TypeOK
<1>3. ckpts'[Len(ckpts')] = local
  BY <1>1 DEF CheckpointSave, TypeOK
<1>4. disk # NoState /\ local.version <= disk.version /\ Newest <= local.version
  BY <1>1, <1>2 DEF CheckpointSave, VInv
<1>5. local.version \in Nat /\ disk.version \in Nat /\ Newest \in Nat
  BY <1>2, <1>4, Versions
<1> QED
  BY <1>3, <1>4, <1>5 DEF Newest

\* Each checkpoint is as new as the one before it, and state.json as new as the
\* checkpoint, however updates are lost and store operations fail.
THEOREM CheckpointsGoForward == Spec => CheckpointsAdvance
<1>1. Init => VInv
  <2>1. NewState.version = 0
    BY DEF NewState
  <2> QED
    BY <2>1 DEF Init, VInv, Newest
<1>2. TypeOK /\ VInv /\ [Next]_vars =>
        [ckpts' # ckpts =>
           LET s == ckpts'[Len(ckpts')] IN
             /\ disk # NoState /\ disk.version >= s.version
             /\ ckpts # <<>> => s.version >= ckpts[Len(ckpts)].version]_vars
  BY SaveAdvances
<1> QED
  BY <1>1, <1>2, NextVInv, TypeCorrect, PTL DEF Spec, CheckpointsAdvance

-----------------------------------------------------------------------------
(***************************************************************************)
(* Completed goals.                                                        *)
(*                                                                         *)
(* With a store that does not fail, whatever state the loop is about to    *)
(* write back, save or recover has the goals that were completed in memory.*)
(* Messages arrive meanwhile, which may get lost with their goals, but     *)
(* they complete none.                                                     *)
(***************************************************************************)

GInv ==
    /\ pc # "stopped" => result # "error"
    /\ pc \in {"reduce", "recovered", "saveState"} => Kept(mem.goals, local.goals)
    /\ pc = "saveCheckpoint" => disk # NoState /\ Kept(mem.goals, disk.goals)
    /\ pc \in {"stopped", "recover"} /\ result # "error" /\ disk # NoState
         => Kept(mem.goals, disk.goals)

LEMMA ReliableStore ==
    ASSUME MaxFaults = 0, TypeOK
    PROVE  ~Fault
BY DEF Fault, TypeOK

LEMMA KeptSelf ==
    ASSUME NEW g
    PROVE  Kept(g, g)
BY DEF Kept

\* A message or the system prompt.
LEMMA IngestGInv ==
    ASSUME TypeOK, GInv, NEW e \in Event, ~CompletesGoal(e),
           mem' = Reduce(mem, e), disk' = mem', UNCHANGED <<pc, local, result>>
    PROVE  GInv' /\ Kept(mem.goals, mem'.goals)
<1>1. mem \in State /\ mem.goals \in Seq(Goal) /\ mem'.goals = GoalsAfter(mem.goals, e)
  BY DEF TypeOK, State, Reduce
<1>2. disk' # NoState
  BY <1>1, ReduceType, NoStateIsNone
<1>3. \A h : Kept(mem.goals, h) => Kept(mem'.goals, h)
  BY <1>1, UncompletedKept
<1>4. Kept(mem.goals, mem'.goals)
  BY <1>1, GoalsAfterKeeps
<1>5. Kept(mem'.goals, disk'.goals)
  BY KeptSelf
<1> QED
  BY <1>2, <1>3, <1>4, <1>5 DEF GInv

\* The loop goes on, neither to end nor to save.
LEMMA LoopGInv ==
    ASSUME GInv, mem' = mem, result' = result, pc # "stopped",
           pc' \in {"loop", "select", "decide", "dispatch", "apply", "checkpoint"}
    PROVE  GInv' /\ Kept(mem.goals, mem'.goals)
BY KeptSelf DEF GInv

LEMMA NextGInv ==
    ASSUME MaxFaults = 0, TypeOK, GInv, [Next]_vars
    PROVE  GInv' /\ Kept(mem.goals, mem'.goals)
<1> USE DEF sharedVars, storeVars, runVars, clientVars, countVars
<1>1. ASSUME NEW u \in User, Ingest(u)
      PROVE  GInv' /\ Kept(mem.goals, mem'.goals)
  <2>1. IngestOk(u)
    BY <1>1, ReliableStore DEF Ingest, IngestAppendFails, IngestSaveFails
  <2>2. UserMessage(u) \in Event /\ ~CompletesGoal(UserMessage(u))
    BY UserMessageType DEF UserMessage, CompletesGoal
  <2> QED
    BY <2>1, <2>2, IngestGInv DEF IngestOk
<1>2. CASE IngestPrompt
  <2>1. SystemPrompt \in Event /\ ~CompletesGoal(SystemPrompt)
    BY ConstantEventTypes DEF SystemPrompt, CompletesGoal
  <2> QED
    BY <1>2, <2>1, IngestGInv DEF IngestPrompt
<1>3. CASE Cancel \/ StreamToken \/ LLMReplies \/ LLMFails \/ ToolReturns
           \/ UNCHANGED vars
  <2>1. UNCHANGED <<mem, disk, local, pc, result>>
    BY <1>3 DEF Cancel, StreamToken, LLMReplies, LLMFails, ToolReturns, Executed, vars
  <2> QED
    BY <2>1, KeptSelf DEF GInv
<1>4. CASE Start
  BY <1>4, KeptSelf DEF Start, CallRun, GInv
<1>5. CASE RecoverLoad
  BY <1>5, KeptSelf DEF RecoverLoad, GInv
<1>6. CASE RecoverAssign
  BY <1>6 DEF RecoverAssign, GInv
<1>7. CASE LoopExceeded
  BY <1>7, KeptSelf DEF LoopExceeded, Return, GInv
<1>8. CASE LoopCancelled \/ LoopPending \/ LoopSelect \/ SelectGoal \/ Decide
  BY <1>8, LoopGInv DEF LoopCancelled, LoopPending, LoopSelect, SelectGoal, Decide
<1>9. CASE PersistEvents \/ EndStep
  BY <1>9, LoopGInv DEF PersistEvents, EndStep
<1>10. CASE ApplyRead \/ CheckpointClone
  BY <1>10, KeptSelf DEF ApplyRead, CheckpointClone, GInv
<1>11. CASE ApplyWrite
  <2>1. local \in State /\ Head(out) \in Event /\ local.goals \in Seq(Goal)
    BY <1>11, WriteType DEF State
  <2>2. mem'.goals = GoalsAfter(local.goals, Head(out))
    BY <1>11 DEF ApplyWrite, Reduce
  <2>3. Kept(local.goals, mem'.goals)
    BY <2>1, <2>2, GoalsAfterKeeps
  <2>4. Kept(mem.goals, mem'.goals)
    BY <1>11, <2>3, KeptTransitive DEF ApplyWrite, GInv
  <2> QED
    BY <1>11, <2>4 DEF ApplyWrite, GInv
<1>12. CASE CheckpointSaveState
  <2>1. local \in State /\ local # NoState
    BY <1>12, NoStateIsNone DEF CheckpointSaveState, TypeOK
  <2> QED
    BY <1>12, <2>1, KeptSelf DEF CheckpointSaveState, GInv
<1>13. CASE CheckpointSave
  <2>1. pc' \in {"loop", "stopped"} /\ result' \in {result, "nil"}
        /\ UNCHANGED <<mem, disk>> /\ pc = "saveCheckpoint"
    BY <1>13 DEF CheckpointSave, Resume, Return
  <2> QED
    BY <2>1, KeptSelf DEF GInv
<1>14. ~RecoverFails /\ ~PersistFails /\ ~CheckpointFails
  BY ReliableStore DEF RecoverFails, PersistFails, CheckpointFails
<1> QED
  BY <1>1, <1>2, <1>3, <1>4, <1>5, <1>6, <1>7, <1>8, <1>9, <1>10, <1>11, <1>12,
     <1>13, <1>14
  DEF Next, LoopStep

\* Unless the store fails, a completed goal stays completed, through lost
\* updates and recoveries.
THEOREM GoalsStayCompleted ==
    ASSUME MaxFaults = 0
    PROVE  Spec => CompletedGoalsKept
<1>1. Init => GInv
  BY DEF Init, GInv
<1>2. TypeOK /\ GInv /\ [Next]_vars => GInv'
  BY NextGInv
<1>3. TypeOK /\ GInv /\ [Next]_vars =>
        [\A i \in DOMAIN mem.goals :
           ~Active(mem.goals[i]) => /\ i \in DOMAIN mem'.goals
                                    /\ mem'.goals[i] = mem.goals[i]]_vars
  BY NextGInv DEF Kept
<1> QED
  BY <1>1, <1>2, <1>3, TypeCorrect, PTL DEF Spec, CompletedGoalsKept

-----------------------------------------------------------------------------
(***************************************************************************)
(* The loop's progress.                                                    *)
(*                                                                         *)
(* Vulnerable are the states that may become the one in memory without     *)
(* another write: what the loop is about to write back, save or recover,   *)
(* and state.json while no run is going on.  With a store that does not    *)
(* fail each of them has all that the loop did: the replies, the results   *)
(* and the artifacts.  What arrives meanwhile are messages, and not of the *)
(* loop.                                                                   *)
(***************************************************************************)

Vulnerable ==
    {mem}
    \union (IF pc \in {"reduce", "recovered", "saveState"} THEN {local} ELSE {})
    \union (IF pc = "saveCheckpoint" \/ (pc \in {"stopped", "recover"} /\ result # "error")
            THEN {disk} \ {NoState} ELSE {})

Going ==
    /\ pc # "stopped" => result # "error"
    /\ pc = "saveCheckpoint" => disk # NoState

PInv ==
    /\ Going
    /\ \A s \in Vulnerable : LoopMessages(s.msgs) = LoopMessages(mem.msgs) /\ s.arts = mem.arts

\* A message, or the system prompt.
Arrives(e) ==
    /\ e.type \in {"user_request", "system_prompt"}
    /\ mem' = Reduce(mem, e)
    /\ log' = Append(log, e)
    /\ Vulnerable' \subseteq Vulnerable \union {mem'}
    /\ UNCHANGED runVars
    /\ UNCHANGED <<pending, nextCall>>

LEMMA VulnerableType ==
    ASSUME TypeOK, NEW s \in Vulnerable
    PROVE  s \in State
BY DEF TypeOK, Vulnerable

LEMMA IngestArrives ==
    ASSUME TypeOK, Going, NEW e \in Event, e.type \in {"user_request", "system_prompt"},
           mem' = Reduce(mem, e), log' = Append(log, e), disk' = mem',
           UNCHANGED runVars, UNCHANGED <<pending, nextCall>>
    PROVE  Going' /\ Arrives(e)
<1>1. disk' # NoState
  BY ReduceType, NoStateIsNone DEF TypeOK
<1> QED
  BY <1>1 DEF Going, Arrives, Vulnerable, runVars

\* The loop goes on, neither to end nor to save.
LEMMA LoopVulnerable ==
    ASSUME Going, mem' = mem, result' = result, pc # "stopped",
           pc' \in {"loop", "select", "decide", "dispatch", "apply", "checkpoint"}
    PROVE  Going' /\ mem' \in Vulnerable /\ Vulnerable' \subseteq Vulnerable
BY DEF Going, Vulnerable

\* A step writes back what the loop held, is an arrival, or makes no state
\* vulnerable that was not.
LEMMA VulnerableStep ==
    ASSUME MaxFaults = 0, TypeOK, Going, [Next]_vars
    PROVE  /\ Going'
           /\ \/ ApplyWrite /\ local \in Vulnerable /\ Vulnerable' = {mem'}
              \/ \E e \in Event : Arrives(e)
              \/ mem' \in Vulnerable /\ Vulnerable' \subseteq Vulnerable
<1> USE DEF sharedVars, storeVars, clientVars, countVars
<1>1. ASSUME NEW u \in User, Ingest(u)
      PROVE  Going' /\ Arrives(UserMessage(u)) /\ UserMessage(u) \in Event
  <2>1. IngestOk(u)
    BY <1>1, ReliableStore DEF Ingest, IngestAppendFails, IngestSaveFails
  <2>2. UserMessage(u) \in Event /\ UserMessage(u).type = "user_request"
    BY UserMessageType DEF UserMessage
  <2> QED
    BY <2>1, <2>2, IngestArrives DEF IngestOk
<1>2. CASE IngestPrompt
  <2>1. SystemPrompt \in Event /\ SystemPrompt.type = "system_prompt"
    BY ConstantEventTypes DEF SystemPrompt
  <2> QED
    BY <1>2, <2>1, IngestArrives DEF IngestPrompt
<1> USE DEF runVars
<1>3. CASE Cancel \/ StreamToken \/ LLMReplies \/ LLMFails \/ ToolReturns
           \/ UNCHANGED vars
  <2>1. UNCHANGED <<mem, disk, local, pc, result>>
    BY <1>3 DEF Cancel, StreamToken, LLMReplies, LLMFails, ToolReturns, Executed, vars
  <2> QED
    BY <2>1 DEF Going, Vulnerable
<1>4. CASE Start
  BY <1>4 DEF Start, CallRun, Going, Vulnerable
<1>5. CASE RecoverLoad
  BY <1>5 DEF RecoverLoad, Going, Vulnerable
<1>6. CASE RecoverAssign
  BY <1>6 DEF RecoverAssign, Going, Vulnerable
<1>7. CASE LoopExceeded
  BY <1>7 DEF LoopExceeded, Return, Going, Vulnerable
<1>8. CASE LoopCancelled \/ LoopPending \/ LoopSelect \/ SelectGoal \/ Decide
  BY <1>8, LoopVulnerable DEF LoopCancelled, LoopPending, LoopSelect, SelectGoal, Decide
<1>9. CASE PersistEvents \/ EndStep
  BY <1>9, LoopVulnerable DEF PersistEvents, EndStep
<1>10. CASE ApplyRead \/ CheckpointClone
  BY <1>10 DEF ApplyRead, CheckpointClone, Going, Vulnerable
<1>11. CASE ApplyWrite
  BY <1>11 DEF ApplyWrite, Going, Vulnerable
<1>12. CASE CheckpointSaveState
  <2>1. local \in State /\ local # NoState
    BY <1>12, NoStateIsNone DEF CheckpointSaveState, TypeOK
  <2> QED
    BY <1>12, <2>1 DEF CheckpointSaveState, Going, Vulnerable
<1>13. CASE CheckpointSave
  <2>1. pc' \in {"loop", "stopped"} /\ result' \in {result, "nil"}
        /\ UNCHANGED <<mem, disk>> /\ pc = "saveCheckpoint"
    BY <1>13 DEF CheckpointSave, Resume, Return
  <2> QED
    BY <2>1 DEF Going, Vulnerable
<1>14. ~RecoverFails /\ ~PersistFails /\ ~CheckpointFails
  BY ReliableStore DEF RecoverFails, PersistFails, CheckpointFails
<1> QED
  BY <1>1, <1>2, <1>3, <1>4, <1>5, <1>6, <1>7, <1>8, <1>9, <1>10, <1>11, <1>12,
     <1>13, <1>14
  DEF Next, LoopStep

LEMMA LoopMessagesAppended ==
    ASSUME NEW msgs \in Seq(Message), NEW m \in Message
    PROVE  /\ LoopMessages(msgs) \subseteq LoopMessages(Append(msgs, m))
           /\ m.role = "user" => LoopMessages(Append(msgs, m)) = LoopMessages(msgs)
<1> DEFINE more == Append(msgs, m)
           own == {i \in DOMAIN msgs : msgs[i].role # "user"}
           ownMore == {i \in DOMAIN more : more[i].role # "user"}
<1>1. /\ DOMAIN more = DOMAIN msgs \union {Len(msgs) + 1}
      /\ \A i \in DOMAIN msgs : more[i] = msgs[i] /\ i \in Nat /\ i < Len(msgs) + 1
      /\ more[Len(msgs) + 1] = m /\ Len(msgs) + 1 \in Nat
  BY Appended
<1> HIDE DEF more
<1>2. own \subseteq ownMore /\ ownMore \subseteq own \union {Len(msgs) + 1}
      /\ (m.role = "user" => ownMore = own)
  BY <1>1
<1>3. ASSUME NEW i \in own
      PROVE  own \intersect 1..i = ownMore \intersect 1..i
  <2>1. Len(msgs) + 1 \notin 1..i
    BY <1>1
  <2> QED
    BY <1>2, <2>1
<1>4. /\ LoopMessages(msgs) = {<<Cardinality(own \intersect 1..i), msgs[i]>> : i \in own}
      /\ LoopMessages(more)
           = {<<Cardinality(ownMore \intersect 1..i), more[i]>> : i \in ownMore}
  BY DEF LoopMessages
<1>5. \A i \in own : more[i] = msgs[i]
  BY <1>1
<1>6. LoopMessages(msgs) = {<<Cardinality(ownMore \intersect 1..i), more[i]>> : i \in own}
  BY <1>3, <1>4, <1>5
<1> HIDE DEF own, ownMore
<1> QED
  BY <1>2, <1>4, <1>6 DEF more

LEMMA LoopMessagesReduced ==
    ASSUME NEW s \in State, NEW e \in Event
    PROVE  /\ LoopMessages(s.msgs) \subseteq LoopMessages(Reduce(s, e).msgs)
           /\ e.type \in {"user_request", "system_prompt"}
                => LoopMessages(Reduce(s, e).msgs) = LoopMessages(s.msgs)
<1>1. s.msgs \in Seq(Message) /\ Reduce(s, e).msgs = s.msgs \o MessagesOf(e)
  BY DEF State, Reduce
<1>2. CASE s.msgs \o MessagesOf(e) = s.msgs
  BY <1>1, <1>2
<1>3. CASE s.msgs \o MessagesOf(e) # s.msgs
  <2>1. PICK m \in Message :
            /\ s.msgs \o MessagesOf(e) = Append(s.msgs, m)
            /\ e.type \in {"user_request", "system_prompt"} => m.role = "user"
    BY <1>1, <1>3, ReducedMessages
  <2> QED
    BY <1>1, <2>1, LoopMessagesAppended
<1> QED
  BY <1>2, <1>3

LEMMA PInvStep ==
    ASSUME MaxFaults = 0, TypeOK, PInv, [Next]_vars
    PROVE  PInv' /\ LoopMessages(mem.msgs) \subseteq LoopMessages(mem'.msgs)
<1> USE DEF PInv
<1>1. CASE ApplyWrite /\ local \in Vulnerable /\ Vulnerable' = {mem'}
  <2>1. local \in State /\ Head(out) \in Event
    BY <1>1, WriteType
  <2>2. mem' = Reduce(local, Head(out))
    BY <1>1 DEF ApplyWrite
  <2>3. LoopMessages(local.msgs) \subseteq LoopMessages(mem'.msgs)
    BY <2>1, <2>2, LoopMessagesReduced
  <2> QED
    BY <1>1, <2>3, VulnerableStep
<1>2. ASSUME NEW e \in Event, Arrives(e)
      PROVE  PInv' /\ LoopMessages(mem'.msgs) = LoopMessages(mem.msgs)
  <2>1. mem \in State
    BY DEF TypeOK
  <2>2. mem'.arts = mem.arts \o ArtifactsOf(mem.msgs \o MessagesOf(e), e)
    BY <1>2 DEF Arrives, Reduce
  <2>3. mem'.arts = mem.arts
    BY <1>2, <2>1, <2>2 DEF Arrives, ArtifactsOf, State
  <2>4. LoopMessages(mem'.msgs) = LoopMessages(mem.msgs)
    BY <1>2, <2>1, LoopMessagesReduced DEF Arrives
  <2> QED
    BY <1>2, <2>3, <2>4, VulnerableStep DEF Arrives
<1>3. CASE mem' \in Vulnerable /\ Vulnerable' \subseteq Vulnerable
  BY <1>3, VulnerableStep
<1> QED
  BY <1>1, <1>2, <1>3, VulnerableStep

\* Unless the store fails, replies and tool results only accumulate, whatever
\* updates are lost and however often the session is recovered.
THEOREM ProgressIsKept ==
    ASSUME MaxFaults = 0
    PROVE  Spec => LoopProgressKept
<1>1. Init => PInv
  BY DEF Init, PInv, Going, Vulnerable
<1>2. TypeOK /\ PInv /\ [Next]_vars => PInv'
  BY PInvStep
<1>3. TypeOK /\ PInv /\ [Next]_vars =>
        [LoopMessages(mem.msgs) \subseteq LoopMessages(mem'.msgs)]_vars
  BY PInvStep
<1> QED
  BY <1>1, <1>2, <1>3, TypeCorrect, PTL DEF Spec, LoopProgressKept

-----------------------------------------------------------------------------
(***************************************************************************)
(* Calls and their results.                                                *)
(*                                                                         *)
(* The loop keeps the calls of a reply in three places one after another:  *)
(* pending, the commands of a dispatch and the events it produced.  Books  *)
(* says that a call of the conversation is answered in it or is in one of  *)
(* these, once; that no two calls share an id; and that a reply being      *)
(* applied has new ones.                                                   *)
(***************************************************************************)

IsCall(c) == c.kind = "call_tool"
IsResult(e) == e.type = "tool_result"

Calling(commands, id) ==
    \E i \in DOMAIN commands : IsCall(commands[i]) /\ commands[i].call.id = id

Returning(events, id) ==
    \E i \in DOMAIN events : IsResult(events[i]) /\ events[i].id = id

CallsApart(commands) ==
    \A i, j \in DOMAIN commands :
        (/\ IsCall(commands[i]) /\ IsCall(commands[j])
         /\ commands[i].call.id = commands[j].call.id) => i = j

ResultsApart(events) ==
    \A i, j \in DOMAIN events :
        (/\ IsResult(events[i]) /\ IsResult(events[j])
         /\ events[i].id = events[j].id) => i = j

NewCalls(calls, asked, next) ==
    /\ \A k, l \in DOMAIN calls : calls[k].id = calls[l].id => k = l
    /\ \A k \in DOMAIN calls :
         calls[k].id < next /\ \A c \in asked : c.id < calls[k].id

\* The calls of the conversation, and whose results it has.
BooksClosed(asked, answered, next) ==
    /\ asked \subseteq Call
    /\ \A c, d \in asked : c.id = d.id => c = d
    /\ \A c \in asked : c.id < next
    /\ \A id \in answered : \E c \in asked : c.id = id

\* The others are waiting to be executed, being executed, or returning.
BooksOpen(asked, answered, waiting, doing, results) ==
    /\ \A c \in asked : \/ c.id \in answered
                        \/ Calling(waiting, c.id) \/ Calling(doing, c.id)
                        \/ Returning(results, c.id)
    /\ \A id \in answered : ~Calling(waiting, id) /\ ~Calling(doing, id) /\ ~Returning(results, id)
    /\ \A id : ~(Calling(doing, id) /\ Returning(results, id))
    /\ CallsApart(waiting) /\ CallsApart(doing) /\ ResultsApart(results)

BooksMatch(asked, waiting, doing, results, next) ==
    /\ \A i \in DOMAIN waiting : IsCall(waiting[i]) => waiting[i].call \in asked
    /\ \A i \in DOMAIN doing : IsCall(doing[i]) => doing[i].call \in asked
    /\ \A i \in DOMAIN results :
         IsResult(results[i]) => \E c \in asked : c.id = results[i].id /\ c.path = results[i].path
    /\ \A i \in DOMAIN results :
         results[i].type = "llm_response" => NewCalls(results[i].calls, asked, next)

Books(asked, answered, waiting, doing, results, next) ==
    /\ BooksClosed(asked, answered, next)
    /\ BooksOpen(asked, answered, waiting, doing, results)
    /\ BooksMatch(asked, waiting, doing, results, next)

LEMMA Singles ==
    ASSUME NEW T, NEW x \in T
    PROVE  <<x>> \in Seq(T) /\ DOMAIN <<x>> = {1} /\ <<x>>[1] = x
OBVIOUS

LEMMA Nothing ==
    DOMAIN <<>> = {} /\ (\A id : ~Calling(<<>>, id) /\ ~Returning(<<>>, id))
    /\ CallsApart(<<>>) /\ ResultsApart(<<>>)
<1>1. DOMAIN <<>> = {}
  OBVIOUS
<1> QED
  BY <1>1 DEF Calling, Returning, CallsApart, ResultsApart

LEMMA Tailed ==
    ASSUME NEW T, NEW seq \in Seq(T), seq # <<>>
    PROVE  /\ Head(seq) = seq[1] /\ 1 \in DOMAIN seq
           /\ \A i \in DOMAIN Tail(seq) :
                i \in Nat /\ i # 0 /\ i + 1 \in DOMAIN seq /\ Tail(seq)[i] = seq[i + 1]
           /\ \A i \in DOMAIN seq :
                i \in Nat /\ (i = 1 \/ (i - 1 \in DOMAIN Tail(seq) /\ seq[i] = Tail(seq)[i - 1]))
OBVIOUS

\* The pending commands are dispatched.
LEMMA BooksDispatched ==
    ASSUME NEW A, NEW N, NEW w, NEW n, Books(A, N, w, <<>>, <<>>, n)
    PROVE  Books(A, N, <<>>, w, <<>>, n)
BY Nothing DEF Books, BooksOpen, BooksMatch

\* The LLM is called when nothing is open.
LEMMA BooksCallLLM ==
    ASSUME NEW A, NEW N, NEW n, NEW c \in Command, ~IsCall(c),
           Books(A, N, <<>>, <<>>, <<>>, n)
    PROVE  Books(A, N, <<>>, <<c>>, <<>>, n)
<1> DEFINE cs == <<c>>
<1>1. DOMAIN cs = {1} /\ cs[1] = c
  OBVIOUS
<1> HIDE DEF cs
<1>2. (\A id : ~Calling(cs, id)) /\ CallsApart(cs)
  BY <1>1 DEF Calling, CallsApart
<1>3. BooksMatch(A, <<>>, cs, <<>>, n)
  BY <1>1, Nothing DEF BooksMatch
<1>4. BooksOpen(A, N, <<>>, cs, <<>>)
  BY <1>2, Nothing DEF BooksOpen, Books
<1> QED
  BY <1>3, <1>4 DEF Books, cs

\* It replies, with new calls, or fails.
LEMMA BooksReply ==
    ASSUME NEW A, NEW N, NEW n \in Nat, NEW m \in Nat, n <= m,
           NEW c \in Command, ~IsCall(c), NEW e \in Event, ~IsResult(e),
           Books(A, N, <<>>, <<c>>, <<>>, n),
           e.type = "llm_response" => NewCalls(e.calls, A, m)
    PROVE  Books(A, N, <<>>, <<>>, <<e>>, m)
<1> DEFINE cs == <<c>>
           es == <<e>>
<1>1. DOMAIN cs = {1} /\ cs[1] = c /\ DOMAIN es = {1} /\ es[1] = e
  OBVIOUS
<1> HIDE DEF cs, es
<1>2. (\A id : ~Calling(cs, id) /\ ~Returning(es, id)) /\ ResultsApart(es)
  BY <1>1 DEF Calling, Returning, ResultsApart
<1>3. BooksMatch(A, <<>>, <<>>, es, m)
  BY <1>1, Nothing DEF BooksMatch
<1>4. BooksOpen(A, N, <<>>, <<>>, es)
  BY <1>2, Nothing DEF BooksOpen, Books, cs
<1>5. BooksClosed(A, N, m)
  BY DEF Books, BooksClosed, Call
<1> QED
  BY <1>3, <1>4, <1>5 DEF Books, es

\* A tool returns.
LEMMA BooksReturned ==
    ASSUME NEW A, NEW N, NEW n, NEW doing \in Seq(Command), NEW results \in Seq(Event),
           doing # <<>>, IsCall(Head(doing)), NEW ok \in BOOLEAN,
           Books(A, N, <<>>, doing, results, n)
    PROVE  Books(A, N, <<>>, Tail(doing), Append(results, ToolResult(Head(doing).call, ok)), n)
<1> DEFINE call == Head(doing).call
           e == ToolResult(call, ok)
           rest == Tail(doing)
           more == Append(results, e)
<1>1. /\ Head(doing) = doing[1] /\ 1 \in DOMAIN doing
      /\ \A i \in DOMAIN rest :
           i \in Nat /\ i # 0 /\ i + 1 \in DOMAIN doing /\ rest[i] = doing[i + 1]
      /\ \A i \in DOMAIN doing :
           i \in Nat /\ (i = 1 \/ (i - 1 \in DOMAIN rest /\ doing[i] = rest[i - 1]))
  BY Tailed
<1>2. /\ DOMAIN more = DOMAIN results \union {Len(results) + 1}
      /\ \A i \in DOMAIN results : more[i] = results[i] /\ i # Len(results) + 1
      /\ more[Len(results) + 1] = e
  OBVIOUS
<1>3. IsResult(e) /\ e.id = call.id /\ e.path = call.path /\ e.type # "llm_response"
  BY DEF IsResult, ToolResult
<1>4. Calling(doing, call.id)
  BY <1>1 DEF Calling
<1>5. call \in A
  BY <1>1 DEF Books, BooksMatch
<1> HIDE DEF call, e, rest, more
<1>6. \A id : Returning(more, id) <=> Returning(results, id) \/ id = call.id
  BY <1>2, <1>3 DEF Returning
<1>7. \A id : Calling(rest, id) <=> Calling(doing, id) /\ id # call.id
  <2>1. ASSUME NEW id, Calling(rest, id)
        PROVE  Calling(doing, id) /\ id # call.id
    <3>1. PICK i \in DOMAIN rest : IsCall(rest[i]) /\ rest[i].call.id = id
      BY <2>1 DEF Calling
    <3>2. i + 1 \in DOMAIN doing /\ i + 1 # 1 /\ rest[i] = doing[i + 1]
      BY <1>1
    <3>3. CallsApart(doing) /\ IsCall(doing[1]) /\ call = doing[1].call
      BY <1>1 DEF Books, BooksOpen, call
    <3> QED
      BY <1>1, <3>1, <3>2, <3>3 DEF Calling, CallsApart
  <2>2. ASSUME NEW id, Calling(doing, id), id # call.id
        PROVE  Calling(rest, id)
    <3>1. PICK i \in DOMAIN doing : IsCall(doing[i]) /\ doing[i].call.id = id
      BY <2>2 DEF Calling
    <3>2. i # 1
      BY <1>1, <2>2, <3>1 DEF call
    <3> QED
      BY <1>1, <3>1, <3>2 DEF Calling
  <2> QED
    BY <2>1, <2>2
<1>8. CallsApart(rest)
  <2>1. CallsApart(doing)
    BY DEF Books, BooksOpen
  <2>2. ASSUME NEW i \in DOMAIN rest, NEW j \in DOMAIN rest, IsCall(rest[i]), IsCall(rest[j]),
               rest[i].call.id = rest[j].call.id
        PROVE  i = j
    <3>1. i + 1 = j + 1 /\ i \in Nat /\ j \in Nat
      BY <1>1, <2>1, <2>2 DEF CallsApart
    <3> QED
      BY <3>1
  <2> QED
    BY <2>2 DEF CallsApart
<1>9. ResultsApart(more)
  <2>1. ~Returning(results, call.id) /\ ResultsApart(results)
    BY <1>4 DEF Books, BooksOpen
  <2> QED
    BY <1>2, <1>3, <2>1 DEF ResultsApart, Returning
<1>10. BooksOpen(A, N, <<>>, rest, more)
  <2>1. \A id \in N : ~Calling(doing, id) /\ ~Returning(results, id)
    BY DEF Books, BooksOpen
  <2>2. \A id \in N : id # call.id
    BY <1>4, <2>1
  <2> QED
    BY <1>6, <1>7, <1>8, <1>9, <2>1, <2>2, Nothing DEF Books, BooksOpen
<1>11. BooksMatch(A, <<>>, rest, more, n)
  <2>1. \A i \in DOMAIN rest : IsCall(rest[i]) => rest[i].call \in A
    BY <1>1 DEF Books, BooksMatch
  <2>2. \A i \in DOMAIN more :
          IsResult(more[i]) => \E c \in A : c.id = more[i].id /\ c.path = more[i].path
    BY <1>2, <1>3, <1>5 DEF Books, BooksMatch
  <2>3. \A i \in DOMAIN more :
          more[i].type = "llm_response" => NewCalls(more[i].calls, A, n)
    BY <1>2, <1>3 DEF Books, BooksMatch
  <2> QED
    BY <2>1, <2>2, <2>3, Nothing DEF BooksMatch
<1> QED
  BY <1>10, <1>11 DEF Books, call, e, rest, more

\* A result is applied.
LEMMA BooksApplied ==
    ASSUME NEW A, NEW N, NEW n, NEW results \in Seq(Event), results # <<>>,
           IsResult(Head(results)), Books(A, N, <<>>, <<>>, results, n)
    PROVE  /\ Head(results).id \notin N
           /\ Books(A, N \union {Head(results).id}, <<>>, <<>>, Tail(results), n)
<1> DEFINE e == Head(results)
           rest == Tail(results)
<1>1. /\ e = results[1] /\ 1 \in DOMAIN results
      /\ \A i \in DOMAIN rest :
           i \in Nat /\ i # 0 /\ i + 1 \in DOMAIN results /\ rest[i] = results[i + 1]
      /\ \A i \in DOMAIN results :
           i \in Nat /\ (i = 1 \/ (i - 1 \in DOMAIN rest /\ results[i] = rest[i - 1]))
  BY Tailed
<1>2. Returning(results, e.id)
  BY <1>1 DEF Returning
<1>3. \E c \in A : c.id = e.id
  BY <1>1 DEF Books, BooksMatch
<1> HIDE DEF e, rest
<1>4. e.id \notin N
  BY <1>2 DEF Books, BooksOpen
<1>5. ResultsApart(results)
  BY DEF Books, BooksOpen
<1>6. \A id : Returning(rest, id) <=> Returning(results, id) /\ id # e.id
  <2>1. ASSUME NEW id, Returning(rest, id)
        PROVE  Returning(results, id) /\ id # e.id
    <3>1. PICK i \in DOMAIN rest : IsResult(rest[i]) /\ rest[i].id = id
      BY <2>1 DEF Returning
    <3>2. i + 1 \in DOMAIN results /\ i + 1 # 1 /\ rest[i] = results[i + 1]
      BY <1>1
    <3> QED
      BY <1>1, <1>5, <3>1, <3>2 DEF Returning, ResultsApart, e
  <2>2. ASSUME NEW id, Returning(results, id), id # e.id
        PROVE  Returning(rest, id)
    <3>1. PICK i \in DOMAIN results : IsResult(results[i]) /\ results[i].id = id
      BY <2>2 DEF Returning
    <3>2. i # 1
      BY <1>1, <2>2, <3>1
    <3> QED
      BY <1>1, <3>1, <3>2 DEF Returning
  <2> QED
    BY <2>1, <2>2
<1>7. ResultsApart(rest)
  <2>1. ASSUME NEW i \in DOMAIN rest, NEW j \in DOMAIN rest, IsResult(rest[i]),
               IsResult(rest[j]), rest[i].id = rest[j].id
        PROVE  i = j
    <3>1. i + 1 = j + 1 /\ i \in Nat /\ j \in Nat
      BY <1>1, <1>5, <2>1 DEF ResultsApart
    <3> QED
      BY <3>1
  <2> QED
    BY <2>1 DEF ResultsApart
<1>8. BooksOpen(A, N \union {e.id}, <<>>, <<>>, rest)
  BY <1>6, <1>7, Nothing DEF Books, BooksOpen
<1>9. BooksMatch(A, <<>>, <<>>, rest, n)
  BY <1>1, Nothing DEF Books, BooksMatch
<1>10. BooksClosed(A, N \union {e.id}, n)
  BY <1>3 DEF Books, BooksClosed
<1> QED
  BY <1>4, <1>8, <1>9, <1>10 DEF Books, e, rest

\* An error is applied.
LEMMA BooksFailed ==
    ASSUME NEW A, NEW N, NEW n, NEW e, ~IsResult(e), Books(A, N, <<>>, <<>>, <<e>>, n)
    PROVE  Books(A, N, <<>>, <<>>, <<>>, n)
<1>1. \A id : ~Returning(<<e>>, id)
  BY DEF Returning
<1> QED
  BY <1>1, Nothing DEF Books, BooksOpen, BooksMatch

\* A reply is applied.
LEMMA BooksAsked ==
    ASSUME NEW A, NEW N, NEW n \in Nat, NEW e \in Event, e.type = "llm_response",
           Books(A, N, <<>>, <<>>, <<e>>, n)
    PROVE  /\ \A id \in N : ~HasId(e.calls, id)
           /\ Books(A \union ToSet(e.calls), N, CommandsOf(e), <<>>, <<>>, n)
<1> DEFINE calls == e.calls
           commands == CommandsOf(e)
           B == A \union ToSet(calls)
<1>1. calls \in Seq(Call)
  BY DEF Event
<1>2. /\ DOMAIN commands = DOMAIN calls
      /\ \A k \in DOMAIN calls : IsCall(commands[k]) /\ commands[k].call = calls[k]
  BY DEF CommandsOf, CallTool, IsCall
<1>3. NewCalls(calls, A, n)
  <2>1. DOMAIN <<e>> = {1} /\ <<e>>[1] = e
    OBVIOUS
  <2> QED
    BY <2>1 DEF Books, BooksMatch
<1>4. ~IsResult(e)
  BY DEF IsResult
<1>5. \A id : ~Returning(<<e>>, id)
  BY <1>4 DEF Returning
<1>6. A \subseteq Call /\ \A c \in A : c.id \in Nat
  BY DEF Books, BooksClosed, Call
<1>7. \A k \in DOMAIN calls : calls[k] \in Call /\ calls[k].id \in Nat
  <2>1. \A k \in DOMAIN calls : calls[k] \in Call
    BY <1>1
  <2> QED
    BY <2>1 DEF Call
<1>8. \A c : c \in B <=> c \in A \/ \E k \in DOMAIN calls : c = calls[k]
  BY DEF ToSet
<1> HIDE DEF calls, commands, B
<1>9. \A k \in DOMAIN calls : \A c \in A : c.id # calls[k].id
  BY <1>3, <1>6, <1>7 DEF NewCalls
<1>10. \A id \in N : ~HasId(calls, id)
  BY <1>9 DEF HasId, Books, BooksClosed
<1>11. BooksClosed(B, N, n)
  <2>1. \A c, d \in B : c.id = d.id => c = d
    BY <1>3, <1>8, <1>9 DEF Books, BooksClosed, NewCalls
  <2>2. B \subseteq Call /\ \A c \in B : c.id < n
    BY <1>3, <1>6, <1>7, <1>8 DEF Books, BooksClosed, NewCalls
  <2> QED
    BY <1>8, <2>1, <2>2 DEF Books, BooksClosed
<1>12. \A id : Calling(commands, id) <=> HasId(calls, id)
  BY <1>2 DEF Calling, HasId
<1>13. BooksOpen(B, N, commands, <<>>, <<>>)
  <2>1. CallsApart(commands)
    BY <1>2, <1>3 DEF CallsApart, NewCalls
  <2>2. \A c \in A : c.id \in N
    BY <1>5, Nothing DEF Books, BooksOpen
  <2>3. \A c \in B : c.id \in N \/ Calling(commands, c.id)
    BY <1>8, <1>12, <2>2 DEF HasId
  <2> QED
    BY <1>10, <1>12, <2>1, <2>3, Nothing DEF BooksOpen
<1>14. BooksMatch(B, commands, <<>>, <<>>, n)
  BY <1>2, <1>8, Nothing DEF BooksMatch
<1> QED
  BY <1>10, <1>11, <1>13, <1>14 DEF Books, calls, commands, B

\* Where the loop keeps its work: pending commands are dispatched together, and
\* the events of one dispatch are one answer of the LLM, or results of tools.
Shape ==
    /\ pc # "dispatch" => cmds = <<>>
    /\ pc \notin {"dispatch", "apply", "reduce"} => out = <<>>
    /\ pc \in {"select", "decide"} \/ cmds # <<>> \/ out # <<>> => pending = <<>>
    /\ \A i \in DOMAIN pending : IsCall(pending[i])
    /\ \/ \A i \in DOMAIN cmds : IsCall(cmds[i])
       \/ (\E c \in Command : cmds = <<c>>) /\ out = <<>>
    /\ \/ \A i \in DOMAIN out : IsResult(out[i])
       \/ /\ cmds = <<>>
          /\ \E e \in Event : out = <<e>> /\ e.type \in {"llm_response", "error"}

AInv ==
    /\ Shape
    /\ \A s \in Vulnerable : ResultsInOrder(s.msgs)
    /\ Books(Asked(mem.msgs), Answered(mem.msgs), pending, cmds, out, nextCall)

\* The actions that move calls and results.
Moves ==
    LoopPending \/ Decide \/ LLMReplies \/ LLMFails \/ ToolReturns \/ ApplyWrite

LEMMA OthersKeepWork ==
    ASSUME MaxFaults = 0, TypeOK, Shape, [Next]_vars, ~Moves
    PROVE  Shape' /\ UNCHANGED <<pending, cmds, out, nextCall>>
<1> USE DEF sharedVars, storeVars, runVars, clientVars, countVars
<1>1. CASE (\E u \in User : Ingest(u)) \/ IngestPrompt \/ Cancel \/ UNCHANGED vars
  <2>1. UNCHANGED <<pc, pending, cmds, out, nextCall>>
    BY <1>1 DEF Ingest, IngestOk, IngestAppendFails, IngestSaveFails, IngestPrompt,
                Cancel, vars
  <2> QED
    BY <2>1 DEF Shape
<1>2. CASE Start \/ RecoverLoad \/ RecoverAssign \/ LoopCancelled
  BY <1>2 DEF Start, CallRun, RecoverLoad, RecoverAssign, LoopCancelled, Shape
<1>3. CASE LoopExceeded
  BY <1>3 DEF LoopExceeded, Return, Shape
<1>4. CASE LoopSelect \/ SelectGoal
  BY <1>4 DEF LoopSelect, SelectGoal, Shape
<1>5. CASE StreamToken
  BY <1>5 DEF StreamToken, Shape
<1>6. CASE PersistEvents \/ ApplyRead \/ EndStep
  BY <1>6 DEF PersistEvents, ApplyRead, EndStep, Shape
<1>7. CASE CheckpointClone \/ CheckpointSaveState \/ CheckpointSave
  BY <1>7 DEF CheckpointClone, CheckpointSaveState, CheckpointSave, Resume, Return, Shape
<1>8. ~RecoverFails /\ ~PersistFails /\ ~CheckpointFails
  BY ReliableStore DEF RecoverFails, PersistFails, CheckpointFails
<1> QED
  BY <1>1, <1>2, <1>3, <1>4, <1>5, <1>6, <1>7, <1>8 DEF Next, LoopStep, Moves

\* Calls and results are among the loop's messages.
LEMMA SameMessages ==
    ASSUME NEW s \in Seq(Message), NEW t \in Seq(Message), LoopMessages(s) = LoopMessages(t)
    PROVE  Asked(s) = Asked(t) /\ Answered(s) = Answered(t)
<1>1. ASSUME NEW q \in Seq(Message), NEW r \in Seq(Message),
             LoopMessages(q) = LoopMessages(r), NEW i \in DOMAIN q, q[i].role # "user"
      PROVE  \E j \in DOMAIN r : r[j] = q[i]
  <2>1. \E k : <<k, q[i]>> \in LoopMessages(q)
    BY <1>1 DEF LoopMessages
  <2>2. PICK k : <<k, q[i]>> \in LoopMessages(r)
    BY <1>1, <2>1
  <2> QED
    BY <2>2 DEF LoopMessages
<1>2. ASSUME NEW q \in Seq(Message), NEW r \in Seq(Message),
             LoopMessages(q) = LoopMessages(r)
      PROVE  Asked(q) \subseteq Asked(r) /\ Answered(q) \subseteq Answered(r)
  <2>1. ASSUME NEW c \in Asked(q)
        PROVE  c \in Asked(r)
    <3>1. PICK i \in DOMAIN q :
              q[i].role = "assistant" /\ \E k \in DOMAIN q[i].calls : q[i].calls[k] = c
      BY AskedBy
    <3>2. PICK j \in DOMAIN r : r[j] = q[i]
      BY <1>1, <1>2, <3>1
    <3> QED
      BY <3>1, <3>2, AskedBy
  <2>2. ASSUME NEW id \in Answered(q)
        PROVE  id \in Answered(r)
    <3>1. PICK i \in DOMAIN q : q[i].role = "tool" /\ q[i].id = id
      BY DEF Answered
    <3>2. PICK j \in DOMAIN r : r[j] = q[i]
      BY <1>1, <1>2, <3>1
    <3> QED
      BY <3>1, <3>2 DEF Answered
  <2> QED
    BY <2>1, <2>2
<1> QED
  BY <1>2

\* Messages that arrive and states that are saved and recovered leave the calls
\* and the results alone.
LEMMA OthersAInv ==
    ASSUME MaxFaults = 0, TypeOK, PInv, AInv, [Next]_vars, ~ApplyWrite
    PROVE  /\ Asked(mem'.msgs) = Asked(mem.msgs) /\ Answered(mem'.msgs) = Answered(mem.msgs)
           /\ \A s \in Vulnerable' : ResultsInOrder(s.msgs)
<1>1. mem.msgs \in Seq(Message) /\ mem'.msgs \in Seq(Message)
  BY NextType DEF TypeOK, State
<1>2. CASE mem' \in Vulnerable /\ Vulnerable' \subseteq Vulnerable
  BY <1>1, <1>2, SameMessages DEF PInv, AInv
<1>3. ASSUME NEW e \in Event, Arrives(e)
      PROVE  /\ LoopMessages(mem'.msgs) = LoopMessages(mem.msgs)
             /\ ResultsInOrder(mem'.msgs)
  <2>1. mem \in State /\ mem'.msgs = mem.msgs \o MessagesOf(e)
        /\ mem' = Reduce(mem, e)
    BY <1>3 DEF TypeOK, Arrives, Reduce
  <2>2. LoopMessages(mem'.msgs) = LoopMessages(mem.msgs)
    BY <1>3, <2>1, LoopMessagesReduced DEF Arrives
  <2>3. ResultsInOrder(mem.msgs)
    BY DEF AInv, Vulnerable
  <2>4. ResultsInOrder(mem'.msgs)
    <3>1. CASE mem'.msgs = mem.msgs
      BY <2>3, <3>1
    <3>2. CASE mem'.msgs # mem.msgs
      <4>1. PICK m \in Message : mem'.msgs = Append(mem.msgs, m) /\ m.role = "user"
        BY <1>1, <1>3, <2>1, <3>2, ReducedMessages DEF Arrives
      <4> QED
        BY <1>1, <2>3, <4>1, UserMessageAppended
    <3> QED
      BY <3>1, <3>2
  <2> QED
    BY <2>2, <2>4
<1>4. CASE \E e \in Event : Arrives(e)
  <2>1. Vulnerable' \subseteq Vulnerable \union {mem'}
    BY <1>4 DEF Arrives
  <2> QED
    BY <1>1, <1>3, <1>4, <2>1, SameMessages DEF AInv
<1> QED
  BY <1>2, <1>4, VulnerableStep DEF PInv

LEMMA FreshCalls ==
    ASSUME FreshIds, nextCall \in Nat, NEW r \in Replies, NEW A,
           \A c \in A : c.id \in Nat /\ c.id < nextCall
    PROVE  NewCalls(WithIds(r.calls), A, nextCall + Len(r.calls))
<1>1. r.calls \in Seq(ReplyCall)
  BY RepliesAssumption
<1>2. DOMAIN WithIds(r.calls) = 1..Len(r.calls) /\ Len(r.calls) \in Nat
  BY <1>1 DEF WithIds
<1>3. \A k \in 1..Len(r.calls) : WithIds(r.calls)[k].id = nextCall + k - 1
  BY <1>1 DEF WithIds
<1>4. ASSUME NEW k \in 1..Len(r.calls)
      PROVE  nextCall + k - 1 < nextCall + Len(r.calls) /\ nextCall <= nextCall + k - 1
  BY <1>2
<1>5. ASSUME NEW k \in 1..Len(r.calls), NEW c \in A
      PROVE  c.id < WithIds(r.calls)[k].id
  BY <1>2, <1>3, <1>5
<1>6. ASSUME NEW k \in 1..Len(r.calls), NEW l \in 1..Len(r.calls),
             WithIds(r.calls)[k].id = WithIds(r.calls)[l].id
      PROVE  k = l
  BY <1>2, <1>3, <1>6
<1> QED
  BY <1>2, <1>3, <1>4, <1>5, <1>6 DEF NewCalls

LEMMA NextAInv ==
    ASSUME MaxFaults = 0, FreshIds, TypeOK, PInv, AInv, [Next]_vars
    PROVE  AInv'
<1> DEFINE A == Asked(mem.msgs)
           N == Answered(mem.msgs)
<1> USE DEF sharedVars, storeVars, runVars, clientVars, countVars
<1>1. /\ Shape /\ Books(A, N, pending, cmds, out, nextCall)
      /\ nextCall \in Nat /\ cmds \in Seq(Command) /\ out \in Seq(Event)
  BY DEF AInv, TypeOK
<1>2. A \subseteq Call /\ \A c \in A : c.id \in Nat /\ c.id < nextCall
  BY <1>1 DEF Books, BooksClosed, Call
<1>3. ~ApplyWrite => /\ Asked(mem'.msgs) = A /\ Answered(mem'.msgs) = N
                     /\ \A s \in Vulnerable' : ResultsInOrder(s.msgs)
  BY OthersAInv
<1> HIDE DEF A, N
<1>4. CASE ~Moves
  <2>1. Shape' /\ UNCHANGED <<pending, cmds, out, nextCall>>
    BY <1>1, <1>4, OthersKeepWork
  <2> QED
    BY <1>1, <1>3, <1>4, <2>1 DEF AInv, Moves
<1>5. CASE LoopPending
  <2>1. cmds = <<>> /\ out = <<>> /\ out' = <<>> /\ cmds' = pending /\ pending' = <<>>
        /\ nextCall' = nextCall /\ pc' = "dispatch" /\ ~ApplyWrite
    BY <1>1, <1>5 DEF LoopPending, Shape, ApplyWrite
  <2>2. Books(A, N, <<>>, cmds', <<>>, nextCall)
    BY <1>1, <2>1, BooksDispatched
  <2>3. Shape'
    BY <1>1, <2>1 DEF Shape
  <2> QED
    BY <1>3, <2>1, <2>2, <2>3 DEF AInv
<1>6. CASE Decide
  <2>1. PICK c : c = CallLLM(UsersIn(mem.msgs))
    OBVIOUS
  <2>2. cmds = <<>> /\ out = <<>> /\ pending = <<>> /\ out' = <<>> /\ pending' = <<>>
        /\ cmds' = <<c>> /\ nextCall' = nextCall /\ pc' = "dispatch" /\ ~ApplyWrite
    BY <1>1, <1>6, <2>1 DEF Decide, Shape, ApplyWrite
  <2>3. c \in Command /\ ~IsCall(c)
    BY <2>1 DEF CallLLM, Command, IsCall, UsersIn
  <2>4. Books(A, N, <<>>, <<c>>, <<>>, nextCall)
    BY <1>1, <2>2, <2>3, BooksCallLLM
  <2>5. Shape'
    BY <2>2, <2>3 DEF Shape
  <2> QED
    BY <1>3, <2>2, <2>4, <2>5 DEF AInv
<1>7. CASE LLMReplies \/ LLMFails
  <2>1. PICK e \in Event, m \in Nat :
            /\ e.type \in {"llm_response", "error"} /\ nextCall' = m /\ nextCall <= m
            /\ Executed(e)
            /\ e.type = "llm_response" => NewCalls(e.calls, A, m)
    <3>1. CASE LLMFails
      <4>1. ErrorEvent \in Event /\ ErrorEvent.type = "error"
        BY ConstantEventTypes DEF ErrorEvent
      <4> QED
        BY <1>1, <3>1, <4>1 DEF LLMFails
    <3>2. CASE LLMReplies
      <4>1. PICK r \in Replies :
                /\ Executed(LLMResponse(r.text, WithIds(r.calls), Head(cmds).saw))
                /\ nextCall' = nextCall + Len(r.calls)
        BY <3>2 DEF LLMReplies
      <4>2. PICK e : e = LLMResponse(r.text, WithIds(r.calls), Head(cmds).saw)
        OBVIOUS
      <4>3. Head(cmds) \in Command /\ Head(cmds).kind = "call_llm"
        BY <1>1, <3>2 DEF LLMReplies, Executing
      <4>4. e \in Event /\ Len(r.calls) \in Nat
        BY <4>2, <4>3, LLMResponseType DEF TypeOK
      <4>5. e.type = "llm_response" /\ e.calls = WithIds(r.calls)
        BY <4>2 DEF LLMResponse
      <4>6. NewCalls(e.calls, A, nextCall + Len(r.calls))
        BY <1>1, <1>2, <4>5, FreshCalls
      <4> QED
        BY <1>1, <4>1, <4>2, <4>4, <4>5, <4>6
    <3> QED
      BY <1>7, <3>1, <3>2
  <2>2. /\ pc = "dispatch" /\ cmds # <<>> /\ ~IsCall(Head(cmds)) /\ ~ApplyWrite
        /\ pending' = pending /\ out' = Append(out, e) /\ cmds' = Tail(cmds) /\ pc' = pc
    BY <1>7, <2>1 DEF LLMReplies, LLMFails, Executing, Executed, IsCall, ApplyWrite
  <2>3. PICK c \in Command : cmds = <<c>> /\ out = <<>> /\ ~IsCall(c)
    <3>1. Head(cmds) = cmds[1] /\ 1 \in DOMAIN cmds
      BY <1>1, <2>2
    <3> QED
      BY <1>1, <2>2, <3>1 DEF Shape
  <2>4. out' = <<e>> /\ cmds' = <<>> /\ pending = <<>>
    BY <1>1, <2>2, <2>3 DEF Shape
  <2>5. Books(A, N, <<>>, <<>>, <<e>>, m)
    BY <1>1, <2>1, <2>3, <2>4, BooksReply DEF IsResult
  <2>6. Shape'
    BY <2>1, <2>2, <2>4 DEF Shape
  <2> QED
    BY <1>3, <2>1, <2>2, <2>4, <2>5, <2>6 DEF AInv
<1>8. CASE ToolReturns
  <2>1. PICK ok \in BOOLEAN : Executed(ToolResult(Head(cmds).call, ok))
    BY <1>8 DEF ToolReturns
  <2>2. PICK e : e = ToolResult(Head(cmds).call, ok)
    OBVIOUS
  <2>3. /\ pc = "dispatch" /\ pc' = pc /\ cmds # <<>> /\ IsCall(Head(cmds)) /\ ~ApplyWrite
        /\ pending' = pending /\ out' = Append(out, e) /\ cmds' = Tail(cmds)
        /\ nextCall' = nextCall
    BY <1>8, <2>1, <2>2 DEF ToolReturns, Executing, Executed, IsCall, ApplyWrite
  <2>4. pending = <<>> /\ \A i \in DOMAIN out : IsResult(out[i])
    BY <1>1, <2>3 DEF Shape
  <2>5. Books(A, N, <<>>, cmds', out', nextCall)
    BY <1>1, <2>2, <2>3, <2>4, BooksReturned
  <2>6. Shape'
    <3>1. \A i \in DOMAIN out' : IsResult(out'[i])
      BY <1>1, <2>2, <2>3, <2>4 DEF IsResult, ToolResult
    <3>2. (\A i \in DOMAIN cmds' : IsCall(cmds'[i])) \/ cmds' = <<>>
      <4>1. CASE \A i \in DOMAIN cmds : IsCall(cmds[i])
        BY <1>1, <2>3, <4>1, Tailed
      <4>2. CASE ~ \A i \in DOMAIN cmds : IsCall(cmds[i])
        BY <1>1, <2>3, <4>2 DEF Shape
      <4> QED
        BY <4>1, <4>2
    <3> QED
      BY <2>3, <2>4, <3>1, <3>2 DEF Shape
  <2> QED
    BY <1>3, <2>3, <2>4, <2>5, <2>6 DEF AInv
<1>9. CASE ApplyWrite
  <2>1. PICK e : e = Head(out)
    OBVIOUS
  <2>2. /\ pc = "reduce" /\ pc' = "apply" /\ out # <<>> /\ cmds = <<>> /\ cmds' = <<>>
        /\ pending = <<>> /\ pending' = pending \o CommandsOf(e) /\ out' = Tail(out)
        /\ nextCall' = nextCall /\ mem' = Reduce(local, e)
    BY <1>1, <1>9, <2>1 DEF ApplyWrite, Shape, TypeOK
  <2>3. e \in Event /\ local.msgs \in Seq(Message)
    BY <1>1, <1>9, <2>1, <2>2 DEF ApplyWrite, TypeOK, State
  <2>4. local \in Vulnerable /\ Vulnerable' = {mem'}
    BY <1>9 DEF ApplyWrite, Vulnerable
  <2>5. Asked(local.msgs) = A /\ Answered(local.msgs) = N /\ ResultsInOrder(local.msgs)
    BY <2>3, <2>4, SameMessages DEF A, N, AInv, PInv, TypeOK, State
  <2>6. mem'.msgs = local.msgs \o MessagesOf(e)
    BY <2>2 DEF Reduce
  <2>7. pending' = CommandsOf(e)
    BY <2>2, <2>3, CommandsOfType
  <2>8. CASE IsResult(e)
    <3>1. PICK m \in Message : m.role = "tool" /\ m.id = e.id /\ MessagesOf(e) = <<m>>
      BY <2>3, <2>8 DEF IsResult, MessagesOf, Event, Message
    <3>2. mem'.msgs = Append(local.msgs, m)
      BY <2>3, <2>6, <3>1
    <3>3. pending' = <<>>
      BY <2>7, <2>8 DEF CommandsOf, IsResult
    <3>4. e.id \notin N /\ Books(A, N \union {e.id}, <<>>, <<>>, out', nextCall)
      BY <1>1, <2>1, <2>2, <2>8, BooksApplied
    <3>5. Asked(mem'.msgs) = A /\ Answered(mem'.msgs) = N \union {e.id}
          /\ ResultsInOrder(mem'.msgs)
      BY <2>3, <2>5, <3>1, <3>2, <3>4, ResultAppended
    <3>6. \A i \in DOMAIN out : IsResult(out[i])
      BY <1>1, <2>1, <2>2, <2>8 DEF Shape, IsResult
    <3>7. \A i \in DOMAIN out' : IsResult(out'[i])
      BY <1>1, <2>2, <3>6, Tailed
    <3>8. Shape'
      BY <2>2, <3>3, <3>7 DEF Shape
    <3> QED
      BY <2>2, <2>4, <3>3, <3>4, <3>5, <3>8 DEF AInv
  <2>9. CASE ~IsResult(e)
    <3>1. out = <<e>> /\ e.type \in {"llm_response", "error"}
      <4>1. e = out[1] /\ 1 \in DOMAIN out
        BY <1>1, <2>1, <2>2
      <4>2. PICK f \in Event : out = <<f>> /\ f.type \in {"llm_response", "error"}
        BY <1>1, <2>9, <4>1 DEF Shape
      <4> QED
        BY <4>1, <4>2
    <3>2. out' = <<>>
      BY <2>2, <3>1
    <3>3. CASE e.type = "error"
      <4>1. pending' = <<>> /\ mem'.msgs = local.msgs
        BY <2>3, <2>6, <2>7, <3>3 DEF CommandsOf, MessagesOf
      <4>2. Books(A, N, <<>>, <<>>, <<>>, nextCall)
        BY <1>1, <2>2, <2>9, <3>1, BooksFailed
      <4>3. Shape'
        BY <2>2, <3>2, <4>1 DEF Shape
      <4> QED
        BY <2>2, <2>4, <2>5, <3>2, <4>1, <4>2, <4>3 DEF AInv
    <3>4. CASE e.type = "llm_response"
      <4>1. PICK m \in Message :
                m.role = "assistant" /\ m.calls = e.calls /\ MessagesOf(e) = <<m>>
        BY <2>3, <3>4 DEF MessagesOf, Event, Message
      <4>2. mem'.msgs = Append(local.msgs, m)
        BY <2>3, <2>6, <4>1
      <4>3. /\ \A id \in N : ~HasId(e.calls, id)
            /\ Books(A \union ToSet(e.calls), N, CommandsOf(e), <<>>, <<>>, nextCall)
        BY <1>1, <2>2, <2>3, <3>1, <3>4, BooksAsked
      <4>4. Asked(mem'.msgs) = A \union ToSet(e.calls) /\ Answered(mem'.msgs) = N
            /\ ResultsInOrder(mem'.msgs)
        BY <2>3, <2>5, <4>1, <4>2, <4>3, ReplyAppended
      <4>5. \A i \in DOMAIN pending' : IsCall(pending'[i])
        BY <2>7, <3>4 DEF CommandsOf, CallTool, IsCall
      <4>6. Shape'
        BY <2>2, <3>2, <4>5 DEF Shape
      <4> QED
        BY <2>2, <2>4, <2>7, <3>2, <4>3, <4>4, <4>6 DEF AInv
    <3> QED
      BY <3>1, <3>3, <3>4
  <2> QED
    BY <2>8, <2>9
<1> QED
  BY <1>4, <1>5, <1>6, <1>7, <1>8, <1>9 DEF Moves

LEMMA InitAInv == Init => AInv
<1> SUFFICES ASSUME Init PROVE AInv
  OBVIOUS
<1>1. mem.msgs = <<>> /\ mem \in State /\ Vulnerable = {mem}
  BY NewStateType DEF Init, Vulnerable, NewState
<1>2. ResultsInOrder(mem.msgs)
  BY <1>1 DEF ResultsInOrder
<1>3. Asked(mem.msgs) = {} /\ Answered(mem.msgs) = {}
  BY <1>1 DEF Asked, Answered
<1>4. Books({}, {}, <<>>, <<>>, <<>>, 1)
  BY Nothing DEF Books, BooksClosed, BooksOpen, BooksMatch
<1>5. Shape
  BY DEF Init, Shape
<1> QED
  BY <1>1, <1>2, <1>3, <1>4, <1>5 DEF AInv, Init

LEMMA NothingDangles ==
    ASSUME TypeOK, AInv
    PROVE  NoDanglingCalls
<1> SUFFICES ASSUME pc = "decide"
             PROVE  CallsAnswered(mem.msgs)
  BY DEF NoDanglingCalls
<1>1. pending = <<>> /\ cmds = <<>> /\ out = <<>>
  BY DEF AInv, Shape
<1>2. \A c \in Asked(mem.msgs) : c.id \in Answered(mem.msgs)
  BY <1>1, Nothing DEF AInv, Books, BooksOpen
<1>3. ResultsInOrder(mem.msgs) /\ mem.msgs \in Seq(Message)
  BY DEF AInv, Vulnerable, TypeOK, State
<1>4. ASSUME NEW i \in DOMAIN mem.msgs, mem.msgs[i].role = "assistant",
             NEW k \in DOMAIN mem.msgs[i].calls
      PROVE  \E j \in DOMAIN mem.msgs :
                /\ i < j
                /\ \A l \in DOMAIN mem.msgs :
                     mem.msgs[l].role = "tool" /\ mem.msgs[l].id = mem.msgs[i].calls[k].id
                       <=> l = j
  <2>1. mem.msgs[i].calls[k] \in Asked(mem.msgs)
    BY <1>3, <1>4, AskedBy
  <2>2. PICK j \in DOMAIN mem.msgs :
            mem.msgs[j].role = "tool" /\ mem.msgs[j].id = mem.msgs[i].calls[k].id
    BY <1>2, <2>1 DEF Answered
  <2>3. HasId(mem.msgs[i].calls, mem.msgs[j].id)
    BY <1>4, <2>2 DEF HasId
  <2> QED
    BY <1>3, <1>4, <2>2, <2>3 DEF ResultsInOrder
<1> QED
  BY <1>4 DEF CallsAnswered

\* Unless the store fails, and if calls have ids of their own, the LLM is never
\* asked while a call lacks its result, has two, or has it too early.
THEOREM CallsAreAnswered ==
    ASSUME MaxFaults = 0, FreshIds
    PROVE  Spec => []NoDanglingCalls
<1>1. Init => PInv
  BY DEF Init, PInv, Going, Vulnerable
<1>2. TypeOK /\ PInv /\ [Next]_vars => PInv'
  BY PInvStep
<1>3. TypeOK /\ PInv /\ AInv /\ [Next]_vars => AInv'
  BY NextAInv
<1>4. TypeOK /\ AInv => NoDanglingCalls
  BY NothingDangles
<1> QED
  BY <1>1, <1>2, <1>3, <1>4, InitAInv, TypeCorrect, PTL DEF Spec

-----------------------------------------------------------------------------
(***************************************************************************)
(* Artifacts.                                                              *)
(*                                                                         *)
(* A file is created in the log before it is an artifact: in between its   *)
(* result is among the events being applied.                               *)
(***************************************************************************)

Created(e) == IsResult(e) /\ e.tool = "create_file" /\ e.ok /\ e.path # NoPath

FilesOf(events) == {events[i].path : i \in {j \in DOMAIN events : Created(events[j])}}

FInv ==
    FilesOf(log) = ToSet(mem.arts) \union
                     (IF pc \in {"apply", "reduce"} THEN FilesOf(out) ELSE {})

LEMMA FilesAppended ==
    ASSUME NEW events \in Seq(Event), NEW e
    PROVE  FilesOf(Append(events, e))
             = FilesOf(events) \union (IF Created(e) THEN {e.path} ELSE {})
<1> DEFINE more == Append(events, e)
<1>1. /\ DOMAIN more = DOMAIN events \union {Len(events) + 1}
      /\ \A i \in DOMAIN events : more[i] = events[i]
      /\ more[Len(events) + 1] = e
  OBVIOUS
<1> HIDE DEF more
<1>2. \A f : f \in FilesOf(more) <=> f \in FilesOf(events) \/ (Created(e) /\ f = e.path)
  BY <1>1 DEF FilesOf
<1> QED
  BY <1>2 DEF more

LEMMA FilesTogether ==
    ASSUME NEW events \in Seq(Event), NEW more \in Seq(Event)
    PROVE  FilesOf(events \o more) = FilesOf(events) \union FilesOf(more)
<1> DEFINE both == events \o more
<1>1. /\ \A i \in DOMAIN events : i \in DOMAIN both /\ both[i] = events[i]
      /\ \A i \in DOMAIN more : Len(events) + i \in DOMAIN both /\ both[Len(events) + i] = more[i]
      /\ \A i \in DOMAIN both : \/ i \in DOMAIN events
                                \/ i - Len(events) \in DOMAIN more /\ both[i] = more[i - Len(events)]
  OBVIOUS
<1> HIDE DEF both
<1>2. \A f : f \in FilesOf(both) <=> f \in FilesOf(events) \/ f \in FilesOf(more)
  BY <1>1 DEF FilesOf
<1> QED
  BY <1>2 DEF both

LEMMA FilesTailed ==
    ASSUME NEW events \in Seq(Event), events # <<>>
    PROVE  FilesOf(events) = FilesOf(Tail(events)) \union
                               (IF Created(Head(events)) THEN {Head(events).path} ELSE {})
<1> DEFINE rest == Tail(events)
<1>1. /\ Head(events) = events[1] /\ 1 \in DOMAIN events
      /\ \A i \in DOMAIN rest : i + 1 \in DOMAIN events /\ rest[i] = events[i + 1]
      /\ \A i \in DOMAIN events : i = 1 \/ (i - 1 \in DOMAIN rest /\ events[i] = rest[i - 1])
  BY Tailed
<1> HIDE DEF rest
<1>2. \A f : f \in FilesOf(events) <=>
               f \in FilesOf(rest) \/ (Created(Head(events)) /\ f = Head(events).path)
  BY <1>1 DEF FilesOf
<1> QED
  BY <1>2 DEF rest

LEMMA ResultMessage ==
    ASSUME NEW msgs \in Seq(Message), NEW e \in Event, IsResult(e)
    PROVE  \E m \in Message : m.role = "tool" /\ msgs \o MessagesOf(e) = Append(msgs, m)
<1>1. PICK m \in Message : m.role = "tool" /\ MessagesOf(e) = <<m>>
  BY DEF IsResult, MessagesOf, Event, Message
<1> QED
  BY <1>1

\* A result that is applied adds the file it created.
LEMMA ArtifactsApplied ==
    ASSUME TypeOK, PInv, AInv, ApplyWrite
    PROVE  ToSet(mem'.arts) = ToSet(mem.arts) \union
             (IF Created(Head(out)) THEN {Head(out).path} ELSE {})
<1>1. PICK e : e = Head(out)
  OBVIOUS
<1>2. /\ local \in State /\ e \in Event /\ out # <<>> /\ mem' = Reduce(local, e)
      /\ local \in Vulnerable /\ 1 \in DOMAIN out /\ e = out[1]
  BY <1>1 DEF ApplyWrite, TypeOK, Vulnerable
<1>3. PICK msgs : msgs = local.msgs \o MessagesOf(e)
  OBVIOUS
<1>4. mem'.arts = mem.arts \o ArtifactsOf(msgs, e) /\ mem.arts \in Seq(Path)
  BY <1>2, <1>3 DEF Reduce, PInv, TypeOK, State
<1>5. CASE Created(e)
  <2>1. PICK m \in Message : m.role = "tool" /\ msgs = Append(local.msgs, m)
    BY <1>2, <1>3, <1>5, ResultMessage DEF Created, State
  <2>2. Asked(msgs) = Asked(mem.msgs) /\ msgs \in Seq(Message)
    BY <1>2, <2>1, ResultAppended, SameMessages DEF State, PInv, TypeOK
  <2>3. PICK c \in Asked(mem.msgs) : c.id = e.id /\ c.path = e.path
    BY <1>2, <1>5 DEF Created, AInv, Books, BooksMatch
  <2>4. \A c1, c2 \in Asked(msgs) : c1.id = c2.id => c1 = c2
    BY <2>2 DEF AInv, Books, BooksClosed
  <2>5. PathOfCall(msgs, e.id) = e.path
    BY <2>2, <2>3, <2>4, PathOfAsked
  <2>6. e.path \in Path
    BY <1>2, <1>5 DEF Created, IsResult, Event
  <2>7. ArtifactsOf(msgs, e) = <<e.path>>
    BY <1>5, <2>5, <2>6 DEF ArtifactsOf, Created, IsResult
  <2>8. ToSet(mem'.arts) = ToSet(mem.arts) \union {e.path}
    <3>1. PICK p, arts : p = e.path /\ arts = mem.arts
      OBVIOUS
    <3>2. p \in Path /\ arts \in Seq(Path) /\ mem'.arts = arts \o <<p>>
      BY <1>4, <2>6, <2>7, <3>1
    <3>3. ToSet(arts \o <<p>>) = ToSet(arts) \union {p}
      BY ONLY <3>2 DEF ToSet
    <3> QED
      BY <3>1, <3>2, <3>3
  <2> QED
    BY <1>1, <1>5, <2>8
<1>6. CASE ~Created(e)
  <2>1. ArtifactsOf(msgs, e) = <<>>
    <3>1. CASE e.type = "tool_result" /\ e.tool = "create_file" /\ e.ok
      <4>1. e.path = NoPath
        BY <1>6, <3>1 DEF Created, IsResult
      <4>2. PICK m \in Message : m.role = "tool" /\ msgs = Append(local.msgs, m)
        BY <1>2, <1>3, <3>1, ResultMessage DEF IsResult, State
      <4>3. Asked(msgs) = Asked(mem.msgs) /\ msgs \in Seq(Message)
        BY <1>2, <4>2, ResultAppended, SameMessages DEF State, PInv, TypeOK
      <4>4. PICK c \in Asked(mem.msgs) : c.id = e.id /\ c.path = e.path
        BY <1>2, <3>1 DEF IsResult, AInv, Books, BooksMatch
      <4>5. \A c1, c2 \in Asked(msgs) : c1.id = c2.id => c1 = c2
        BY <4>3 DEF AInv, Books, BooksClosed
      <4>6. PathOfCall(msgs, e.id) = NoPath
        BY <4>1, <4>3, <4>4, <4>5, PathOfAsked
      <4> QED
        BY <4>6, PathAssumption DEF ArtifactsOf
    <3>2. CASE ~(e.type = "tool_result" /\ e.tool = "create_file" /\ e.ok)
      BY <3>2 DEF ArtifactsOf
    <3> QED
      BY <3>1, <3>2
  <2>2. mem'.arts = mem.arts
    BY <1>4, <2>1
  <2> QED
    BY <1>1, <1>6, <2>2
<1> QED
  BY <1>5, <1>6

LEMMA NextFInv ==
    ASSUME MaxFaults = 0, TypeOK, PInv, AInv, FInv, [Next]_vars
    PROVE  FInv'
<1> USE DEF sharedVars, storeVars, runVars, clientVars, countVars
<1>1. log \in Seq(Event) /\ out \in Seq(Event) /\ FilesOf(<<>>) = {}
  BY DEF TypeOK, FilesOf
<1>2. CASE ApplyWrite
  <2>1. pc = "reduce" /\ pc' = "apply" /\ out # <<>> /\ out' = Tail(out) /\ log' = log
    BY <1>2 DEF ApplyWrite, TypeOK
  <2>2. FilesOf(out) = FilesOf(out') \union
                         (IF Created(Head(out)) THEN {Head(out).path} ELSE {})
    BY <1>1, <2>1, FilesTailed
  <2> QED
    BY <1>2, <2>1, <2>2, ArtifactsApplied DEF FInv
<1>3. ASSUME NEW e \in Event, Arrives(e)
      PROVE  FInv'
  <2>1. ~Created(e) /\ pc' = pc /\ out' = out /\ log' = Append(log, e)
    BY <1>3 DEF Arrives, Created, IsResult
  <2>2. mem'.arts = mem.arts
    BY <1>3, PInvStep DEF Arrives, Reduce, ArtifactsOf, TypeOK, State
  <2>3. FilesOf(log') = FilesOf(log)
    BY <1>1, <2>1, FilesAppended
  <2> QED
    BY <2>1, <2>2, <2>3 DEF FInv
<1>4. CASE mem' \in Vulnerable
  <2>1. mem'.arts = mem.arts
    BY <1>4 DEF PInv
  <2>2. CASE StreamToken
    <3>1. ~Created(LLMToken) /\ pc' = pc /\ out' = out /\ log' = Append(log, LLMToken)
      BY <2>2 DEF StreamToken, Created, IsResult, LLMToken
    <3>2. FilesOf(log') = FilesOf(log)
      BY <1>1, <3>1, FilesAppended
    <3> QED
      BY <2>1, <3>1, <3>2 DEF FInv
  <2>3. CASE PersistEvents
    <3>1. pc = "dispatch" /\ pc' = "apply" /\ out' = out /\ log' = log \o out
      BY <2>3 DEF PersistEvents
    <3>2. FilesOf(log') = FilesOf(log) \union FilesOf(out)
      BY <1>1, <3>1, FilesTogether
    <3> QED
      BY <2>1, <3>1, <3>2 DEF FInv
  <2>4. CASE EndStep
    BY <1>1, <2>1, <2>4 DEF EndStep, FInv
  <2>5. CASE Cancel \/ ApplyRead \/ UNCHANGED vars
    BY <2>1, <2>5 DEF Cancel, ApplyRead, vars, FInv
  <2>6. CASE Start \/ RecoverLoad \/ RecoverAssign \/ LoopExceeded \/ LoopCancelled
             \/ LoopPending \/ LoopSelect \/ SelectGoal \/ Decide
    BY <2>1, <2>6 DEF Start, CallRun, RecoverLoad, RecoverAssign, LoopExceeded, Return,
                      LoopCancelled, LoopPending, LoopSelect, SelectGoal, Decide, FInv
  <2>7. CASE LLMReplies \/ LLMFails \/ ToolReturns
    BY <2>1, <2>7 DEF LLMReplies, LLMFails, ToolReturns, Executing, Executed, FInv
  <2>8. CASE CheckpointClone \/ CheckpointSaveState \/ CheckpointSave
    BY <2>1, <2>8 DEF CheckpointClone, CheckpointSaveState, CheckpointSave, Resume,
                      Return, FInv
  <2>9. CASE (\E u \in User : Ingest(u)) \/ IngestPrompt
    <3>1. PICK e \in Event : ~Created(e) /\ log' = Append(log, e) /\ pc' = pc /\ out' = out
      <4>1. CASE IngestPrompt
        BY <4>1, ConstantEventTypes DEF IngestPrompt, SystemPrompt, Created, IsResult
      <4>2. ASSUME NEW u \in User, Ingest(u)
            PROVE  IngestOk(u)
        BY <4>2, ReliableStore DEF Ingest, IngestAppendFails, IngestSaveFails
      <4>3. ASSUME NEW u \in User
            PROVE  UserMessage(u) \in Event /\ ~Created(UserMessage(u))
        BY UserMessageType DEF UserMessage, Created, IsResult
      <4> QED
        BY <2>9, <4>1, <4>2, <4>3 DEF IngestOk
    <3>2. FilesOf(log') = FilesOf(log)
      BY <1>1, <3>1, FilesAppended
    <3> QED
      BY <2>1, <3>1, <3>2 DEF FInv
  <2>10. ~RecoverFails /\ ~PersistFails /\ ~CheckpointFails
    BY ReliableStore DEF RecoverFails, PersistFails, CheckpointFails
  <2> QED
    BY <1>2, <2>2, <2>3, <2>4, <2>5, <2>6, <2>7, <2>8, <2>9, <2>10 DEF Next, LoopStep
<1> QED
  BY <1>2, <1>3, <1>4, VulnerableStep DEF PInv

\* Unless the store fails, and if calls have ids of their own, the artifacts are
\* the files that were created whenever the LLM is asked.
THEOREM FilesAreArtifacts ==
    ASSUME MaxFaults = 0, FreshIds
    PROVE  Spec => []ArtifactsAreFiles
<1>1. Init => PInv
  BY DEF Init, PInv, Going, Vulnerable
<1>2. TypeOK /\ PInv /\ [Next]_vars => PInv'
  BY PInvStep
<1>3. TypeOK /\ PInv /\ AInv /\ [Next]_vars => AInv'
  BY NextAInv
<1>4. Init => FInv
  BY DEF Init, FInv, FilesOf, NewState, ToSet
<1>5. TypeOK /\ PInv /\ AInv /\ FInv /\ [Next]_vars => FInv'
  BY NextFInv
<1>6. FInv => ArtifactsAreFiles
  <2>1. CreatedFiles \ {NoPath} = FilesOf(log)
    BY DEF CreatedFiles, FilesOf, Created, IsResult
  <2> QED
    BY <2>1 DEF FInv, ArtifactsAreFiles
<1> QED
  BY <1>1, <1>2, <1>3, <1>4, <1>5, <1>6, InitAInv, TypeCorrect, PTL DEF Spec

=============================================================================
