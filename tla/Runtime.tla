------------------------------ MODULE Runtime ------------------------------
(***************************************************************************)
(* One session's runtime (pkg/runtime/runtime.go, dispatcher.go) over its  *)
(* file store: the loop of Run, which decides, dispatches and applies      *)
(* events, concurrently with Ingest, which the API handlers call.          *)
(*                                                                         *)
(* The loop takes r.mu only inside its small accessors, so each of its     *)
(* accesses to the shared state is an action of its own.  Ingest holds     *)
(* r.mu from its first to its last statement: the loop's only accesses     *)
(* that can fall between them are to the store, and these commute with one *)
(* of the two halves, so Ingest is one action.                             *)
(*                                                                         *)
(* The LLM and the tools are outside: any reply of Replies, or a failure.  *)
(* The store fails at most MaxFaults times.                                *)
(***************************************************************************)
EXTENDS Reducer

CONSTANTS Replies,            \* the replies an LLM may give, calls without ids
          FreshIds,           \* the provider gives every call an id of its own
          MaxSteps,           \* config.MaxSteps
          CheckpointInterval, \* config.CheckpointInterval
          MaxTokens,          \* bound: streamed tokens per session
          MaxFaults           \* bound: failed store operations

ReplyCall == [tool : Tool, path : Path \cup {NoPath}]

ASSUME RepliesAssumption == Replies \subseteq [text : BOOLEAN, calls : Seq(ReplyCall)]
ASSUME BoundsAssumption ==
    /\ FreshIds \in BOOLEAN
    /\ MaxSteps \in Nat
    /\ CheckpointInterval \in Nat \ {0}
    /\ MaxTokens \in Nat /\ MaxFaults \in Nat

VARIABLES
    mem,       \* r.state
    pending,   \* r.pendingCommands
    log,       \* events.jsonl
    disk,      \* state.json, NoState before the first save
    ckpts,     \* the saved checkpoints' states, oldest first
    ctxDone,   \* the session's context is cancelled
    pc,        \* where Run is
    step,      \* its loop counter
    cmds,      \* dispatch: commands still to execute
    out,       \* dispatch: events produced and not yet applied
    local,     \* the state the loop read, and has not written back or saved
    after,     \* checkpoint: what follows it
    result,    \* what the last Run returned
    acked,     \* messages whose Ingest returned nil
    refused,   \* messages whose Ingest returned an error
    callers,   \* messages whose handler called Run
    nextCall, tokens, faults  \* counters: fresh ids, and the bounds

sharedVars == <<mem, pending, ctxDone>>
storeVars == <<log, disk, ckpts>>
runVars == <<pc, step, cmds, out, local, after, result>>
clientVars == <<acked, refused, callers>>
countVars == <<nextCall, tokens, faults>>
vars == <<mem, pending, ctxDone, log, disk, ckpts, pc, step, cmds, out, local,
          after, result, acked, refused, callers, nextCall, tokens, faults>>

NoState == <<>>

Init ==
    /\ mem = NewState
    /\ pending = <<>>
    /\ log = <<>>
    /\ disk = NoState
    /\ ckpts = <<>>
    /\ ctxDone = FALSE
    /\ pc = "stopped"
    /\ step = 0
    /\ cmds = <<>>
    /\ out = <<>>
    /\ local = NoState
    /\ after = "next"
    /\ result = "none"
    /\ acked = {}
    /\ refused = {}
    /\ callers = {}
    /\ nextCall = 1
    /\ tokens = 0
    /\ faults = 0

Fault == faults < MaxFaults /\ faults' = faults + 1

-----------------------------------------------------------------------------
\* Ingest, from any goroutine.

\* A message is sent once.
NotSent(u) == u \notin acked \cup refused

IngestOk(u) ==
    /\ NotSent(u)
    /\ log' = Append(log, UserMessage(u))
    /\ mem' = Reduce(mem, UserMessage(u))
    /\ disk' = mem'
    /\ acked' = acked \cup {u}
    /\ UNCHANGED <<pending, ctxDone, ckpts, runVars, refused, callers, countVars>>

\* AppendEvent fails, possibly after the line was written (the failing call
\* may be the Sync): nothing is applied.
IngestAppendFails(u) ==
    /\ NotSent(u)
    /\ Fault
    /\ log' \in {log, Append(log, UserMessage(u))}
    /\ refused' = refused \cup {u}
    /\ UNCHANGED <<sharedVars, disk, ckpts, runVars, acked, callers, nextCall, tokens>>

\* SaveState fails: the message stays in memory and in the log.
IngestSaveFails(u) ==
    /\ NotSent(u)
    /\ Fault
    /\ log' = Append(log, UserMessage(u))
    /\ mem' = Reduce(mem, UserMessage(u))
    /\ refused' = refused \cup {u}
    /\ UNCHANGED <<pending, ctxDone, disk, ckpts, runVars, acked, callers, nextCall, tokens>>

\* Create ingests the system prompt before the session is used.
IngestPrompt ==
    /\ log = <<>>
    /\ acked \cup refused = {}
    /\ callers = {}
    /\ log' = Append(log, SystemPrompt)
    /\ mem' = Reduce(mem, SystemPrompt)
    /\ disk' = mem'
    /\ UNCHANGED <<pending, ctxDone, ckpts, runVars, clientVars, countVars>>

Cancel ==
    /\ ~ctxDone
    /\ ctxDone' = TRUE
    /\ UNCHANGED <<mem, pending, storeVars, runVars, clientVars, countVars>>

-----------------------------------------------------------------------------
\* Run: start, recovery and the head of the loop.

\* Run is called by the handler of message u.
CallRun(u) ==
    /\ pc' = "recover"
    /\ callers' = callers \cup {u}
    /\ UNCHANGED <<sharedVars, storeVars, step, cmds, out, local, after, result,
                   acked, refused, countVars>>

\* The session service calls Run for an accepted message, at most once for each,
\* never while Run is running, and after one that returned nil only.
Start ==
    /\ pc = "stopped"
    /\ result # "error"
    /\ \E u \in acked \ callers : CallRun(u)

\* Run returns r: its locals are gone.
Return(r) ==
    /\ pc' = "stopped"
    /\ result' = r
    /\ step' = 0
    /\ cmds' = <<>>
    /\ out' = <<>>
    /\ local' = NoState
    /\ after' = "next"

\* recover: state.json is read here, and r.state assigned in RecoverAssign.
RecoverLoad ==
    /\ pc = "recover"
    /\ IF disk = NoState
       THEN pc' = "loop" /\ UNCHANGED local
       ELSE pc' = "recovered" /\ local' = disk
    /\ UNCHANGED <<sharedVars, storeVars, step, cmds, out, after, result,
                   clientVars, countVars>>

RecoverFails ==
    /\ pc = "recover"
    /\ disk # NoState
    /\ Fault
    /\ Return("error")
    /\ UNCHANGED <<sharedVars, storeVars, clientVars, nextCall, tokens>>

RecoverAssign ==
    /\ pc = "recovered"
    /\ mem' = local
    /\ local' = NoState
    /\ pc' = "loop"
    /\ UNCHANGED <<pending, ctxDone, storeVars, step, cmds, out, after, result,
                   clientVars, countVars>>

\* "max steps exceeded": no checkpoint is made.
LoopExceeded ==
    /\ pc = "loop"
    /\ step >= MaxSteps
    /\ Return("error")
    /\ UNCHANGED <<sharedVars, storeVars, clientVars, countVars>>

LoopCancelled ==
    /\ pc = "loop"
    /\ step < MaxSteps
    /\ ctxDone
    /\ pc' = "checkpoint"
    /\ after' = "shutdown"
    /\ UNCHANGED <<sharedVars, storeVars, step, cmds, out, local, result,
                   clientVars, countVars>>

\* swapPendingCommands found some: dispatch them.
LoopPending ==
    /\ pc = "loop"
    /\ step < MaxSteps
    /\ ~ctxDone
    /\ pending # <<>>
    /\ cmds' = pending
    /\ pending' = <<>>
    /\ pc' = "dispatch"
    /\ UNCHANGED <<mem, ctxDone, storeVars, step, out, local, after, result,
                   clientVars, countVars>>

\* Mutant: a goal is selected before the pending commands are executed.
LoopSelectEager ==
    /\ pc = "loop"
    /\ step < MaxSteps
    /\ ~ctxDone
    /\ pc' = "select"
    /\ UNCHANGED <<sharedVars, storeVars, step, cmds, out, local, after, result,
                   clientVars, countVars>>

LoopSelect ==
    /\ pc = "loop"
    /\ step < MaxSteps
    /\ ~ctxDone
    /\ pending = <<>>
    /\ pc' = "select"
    /\ UNCHANGED <<sharedVars, storeVars, step, cmds, out, local, after, result,
                   clientVars, countVars>>

\* Mutant: no checkpoint when the goals are done.
SelectGoalUnsaved ==
    /\ pc = "select"
    /\ IF HasActiveGoal(mem.goals)
       THEN pc' = "decide" /\ UNCHANGED <<step, cmds, out, local, after, result>>
       ELSE Return("nil")
    /\ UNCHANGED <<sharedVars, storeVars, clientVars, countVars>>

\* Mutant: without a goal the loop polls for one.
SelectGoalPolls ==
    /\ pc = "select"
    /\ pc' = IF HasActiveGoal(mem.goals) THEN "decide" ELSE "loop"
    /\ UNCHANGED <<sharedVars, storeVars, step, cmds, out, local, after, result,
                   clientVars, countVars>>

SelectGoal ==
    /\ pc = "select"
    /\ IF HasActiveGoal(mem.goals)
       THEN pc' = "decide" /\ UNCHANGED after
       ELSE pc' = "checkpoint" /\ after' = "finish"
    /\ UNCHANGED <<sharedVars, storeVars, step, cmds, out, local, result,
                   clientVars, countVars>>

\* decide copies the messages: what arrives later is not in the request.
Decide ==
    /\ pc = "decide"
    /\ cmds' = <<CallLLM(UsersIn(mem.msgs))>>
    /\ pc' = "dispatch"
    /\ UNCHANGED <<sharedVars, storeVars, step, out, local, after, result,
                   clientVars, countVars>>

-----------------------------------------------------------------------------
\* dispatch: execute the commands one by one, then persist their events.

Executing(kind) == pc = "dispatch" /\ cmds # <<>> /\ Head(cmds).kind = kind

\* The command at the head is done and produced event e.
Executed(e) ==
    /\ out' = Append(out, e)
    /\ cmds' = Tail(cmds)
    /\ UNCHANGED <<sharedVars, storeVars, pc, step, local, after, result,
                   clientVars, tokens, faults>>

StreamToken ==
    /\ Executing("call_llm")
    /\ tokens < MaxTokens
    /\ tokens' = tokens + 1
    /\ log' = Append(log, LLMToken)
    /\ UNCHANGED <<sharedVars, disk, ckpts, runVars, clientVars, nextCall, faults>>

\* The ids a provider gives the calls of a reply.
WithIds(calls) ==
    [k \in DOMAIN calls |-> [id |-> IF FreshIds THEN nextCall + k - 1 ELSE 0,
                             tool |-> calls[k].tool, path |-> calls[k].path]]

LLMReplies ==
    /\ Executing("call_llm")
    /\ \E r \in Replies :
          /\ Executed(LLMResponse(r.text, WithIds(r.calls), Head(cmds).saw))
          /\ nextCall' = nextCall + Len(r.calls)

\* Neither the stream nor the synchronous call gives a reply.
LLMFails ==
    /\ Executing("call_llm")
    /\ Executed(ErrorEvent)
    /\ UNCHANGED nextCall

\* A tool that fails, is refused or times out answers with an error result.
ToolReturns ==
    /\ Executing("call_tool")
    /\ \E ok \in BOOLEAN : Executed(ToolResult(Head(cmds).call, ok))
    /\ UNCHANGED nextCall

\* Mutant: tools get a context of their own.
DetachedToolReturns == FALSE /\ ToolReturns

\* The context of a tool is the session's: cancelling it kills a shell command,
\* and ends the wait for a permission.
KilledToolReturns == ctxDone /\ ToolReturns

PersistEvents ==
    /\ pc = "dispatch"
    /\ cmds = <<>>
    /\ log' = log \o out
    /\ pc' = "apply"
    /\ UNCHANGED <<sharedVars, disk, ckpts, step, cmds, out, local, after, result,
                   clientVars, countVars>>

\* Mutant: dispatch returns the events although they were not persisted.
PersistFailsApplied ==
    /\ pc = "dispatch"
    /\ cmds = <<>>
    /\ Fault
    /\ \E k \in 0..Len(out) : log' = log \o SubSeq(out, 1, k)
    /\ pc' = "apply"
    /\ UNCHANGED <<sharedVars, disk, ckpts, step, cmds, out, local, after, result,
                   clientVars, nextCall, tokens>>

\* AppendEvents stops at its first failure; dispatch then returns no events,
\* and Run goes on as if none had been produced.
PersistFails ==
    /\ pc = "dispatch"
    /\ cmds = <<>>
    /\ Fault
    /\ \E k \in 0..Len(out) : log' = log \o SubSeq(out, 1, k)
    /\ out' = <<>>
    /\ pc' = "apply"
    /\ UNCHANGED <<sharedVars, disk, ckpts, step, cmds, local, after, result,
                   clientVars, nextCall, tokens>>

-----------------------------------------------------------------------------
\* applyEvent: r.mu is released between reading r.state and writing it back.

\* Mutant: the end of the events is not checked.
ApplyReadPastEnd ==
    /\ pc = "apply"
    /\ local' = mem
    /\ pc' = "reduce"
    /\ UNCHANGED <<sharedVars, storeVars, step, cmds, out, after, result,
                   clientVars, countVars>>

ApplyRead ==
    /\ pc = "apply"
    /\ out # <<>>
    /\ local' = mem
    /\ pc' = "reduce"
    /\ UNCHANGED <<sharedVars, storeVars, step, cmds, out, after, result,
                   clientVars, countVars>>

\* updateState, then appendPendingCommands: only the loop uses the pending
\* commands of a running session, so the two are one action.
ApplyWrite ==
    /\ pc = "reduce"
    /\ mem' = Reduce(local, Head(out))
    /\ pending' = pending \o CommandsOf(Head(out))
    /\ out' = Tail(out)
    /\ local' = NoState
    /\ pc' = "apply"
    /\ UNCHANGED <<ctxDone, storeVars, step, cmds, after, result, clientVars, countVars>>

\* All events are applied: on to the next step, every CheckpointInterval-th
\* time through a checkpoint.
EndStep ==
    /\ pc = "apply"
    /\ out = <<>>
    /\ IF step % CheckpointInterval = 0
       THEN pc' = "checkpoint" /\ after' = "next" /\ UNCHANGED step
       ELSE pc' = "loop" /\ step' = step + 1 /\ UNCHANGED after
    /\ UNCHANGED <<sharedVars, storeVars, cmds, out, local, result,
                   clientVars, countVars>>

-----------------------------------------------------------------------------
\* checkpoint: clone r.state, save the clone as state.json, then save it as a
\* checkpoint.  r.mu is not held while saving.

\* Mutant: the checkpoint is saved, state.json is not.
CheckpointCloneOnly ==
    /\ pc = "checkpoint"
    /\ local' = mem
    /\ pc' = "saveCheckpoint"
    /\ UNCHANGED <<sharedVars, storeVars, step, cmds, out, after, result,
                   clientVars, countVars>>

CheckpointClone ==
    /\ pc = "checkpoint"
    /\ local' = mem
    /\ pc' = "saveState"
    /\ UNCHANGED <<sharedVars, storeVars, step, cmds, out, after, result,
                   clientVars, countVars>>

CheckpointSaveState ==
    /\ pc = "saveState"
    /\ disk' = local
    /\ pc' = "saveCheckpoint"
    /\ UNCHANGED <<sharedVars, log, ckpts, step, cmds, out, local, after, result,
                   clientVars, countVars>>

\* After a checkpoint that succeeded or failed: the loop only logs a failure,
\* gracefulShutdown returns it.
Resume(ok) ==
    \/ /\ after = "next"
       /\ pc' = "loop"
       /\ step' = step + 1
       /\ local' = NoState
       /\ UNCHANGED <<cmds, out, after, result>>
    \/ after = "finish" /\ Return("nil")
    \/ after = "shutdown" /\ Return(IF ok THEN "nil" ELSE "error")

CheckpointSave ==
    /\ pc = "saveCheckpoint"
    /\ ckpts' = Append(ckpts, local)
    /\ Resume(TRUE)
    /\ UNCHANGED <<sharedVars, log, disk, clientVars, countVars>>

CheckpointFails ==
    /\ pc \in {"saveState", "saveCheckpoint"}
    /\ Fault
    /\ Resume(FALSE)
    /\ UNCHANGED <<sharedVars, storeVars, clientVars, nextCall, tokens>>

-----------------------------------------------------------------------------

\* A step of the goroutine in Run, waiting for a tool aside.
LoopStep ==
    \/ RecoverLoad \/ RecoverFails \/ RecoverAssign
    \/ LoopExceeded \/ LoopCancelled \/ LoopPending \/ LoopSelect
    \/ SelectGoal \/ Decide
    \/ StreamToken \/ LLMReplies \/ LLMFails
    \/ PersistEvents \/ PersistFails
    \/ ApplyRead \/ ApplyWrite \/ EndStep
    \/ CheckpointClone \/ CheckpointSaveState \/ CheckpointSave \/ CheckpointFails

Ingest(u) == IngestOk(u) \/ IngestAppendFails(u) \/ IngestSaveFails(u)

Next ==
    \/ \E u \in User : Ingest(u)
    \/ IngestPrompt
    \/ Cancel
    \/ Start
    \/ LoopStep
    \/ ToolReturns

Spec == Init /\ [][Next]_vars

\* The goroutine in Run keeps running, and an LLM call comes back: its context
\* has a timeout.  A tool need not come back, except that a cancelled context
\* kills it.  Nobody has to send a message, start a run or cancel.
FairSpec == Spec /\ WF_vars(LoopStep) /\ WF_vars(KilledToolReturns)

-----------------------------------------------------------------------------
(***************************************************************************)
(* Safety.                                                                 *)
(***************************************************************************)

PC == {"stopped", "recover", "recovered", "loop", "select", "decide",
       "dispatch", "apply", "reduce", "checkpoint", "saveState",
       "saveCheckpoint"}

\* Every variable keeps its type; a state held by the loop is there exactly
\* between reading it and writing it back or saving it.
TypeOK ==
    /\ mem \in State
    /\ pending \in Seq(Command)
    /\ log \in Seq(Event)
    /\ disk \in State \cup {NoState}
    /\ ckpts \in Seq(State)
    /\ ctxDone \in BOOLEAN
    /\ pc \in PC
    /\ step \in Nat
    /\ cmds \in Seq(Command)
    /\ out \in Seq(Event)
    /\ local \in State \cup {NoState}
    /\ pc \in {"recovered", "reduce", "saveState", "saveCheckpoint"}
         => local \in State
    /\ pc = "reduce" => out # <<>>
    /\ after \in {"next", "finish", "shutdown"}
    /\ result \in {"none", "nil", "error"}
    /\ acked \subseteq User
    /\ refused \subseteq User
    /\ callers \subseteq User
    /\ nextCall \in Nat \ {0}
    /\ tokens \in Nat
    /\ faults \in Nat

\* The states that exist anywhere: in memory, in state.json, in a checkpoint,
\* or in the loop's hands.
HeldStates ==
    {mem} \cup ({disk, local} \ {NoState}) \cup {ckpts[i] : i \in DOMAIN ckpts}

\* However Ingest, the loop, recovery and checkpoints interleave, no state
\* anywhere has two unfinished goals: the reducer creates a goal only when none
\* is active, and a stale state that is written back is as consistent as a
\* fresh one.
SingleGoal == \A s \in HeldStates : OneActiveGoal(s.goals)

LoggedIn(events, m) == \E j \in DOMAIN events : MessagesOf(events[j]) = <<m>>

AllLogged(events, msgs) == \A i \in DOMAIN msgs : LoggedIn(events, msgs[i])

\* Write-ahead: whatever is in a conversation anywhere was in the event log
\* first, also when the store fails.  (Ingest and dispatch append before they
\* apply, and a failed append applies nothing.)
WriteAhead == \A s \in HeldStates : AllLogged(log, s.msgs)

\* Every call of an assistant message has exactly one result, after it.
CallsAnswered(msgs) ==
    \A i \in DOMAIN msgs : msgs[i].role = "assistant" =>
        \A k \in DOMAIN msgs[i].calls :
            \E j \in DOMAIN msgs :
                /\ i < j
                /\ \A l \in DOMAIN msgs :
                     msgs[l].role = "tool" /\ msgs[l].id = msgs[i].calls[k].id
                       <=> l = j

\* The LLM is never asked while a tool call of the conversation lacks its
\* result: pending commands are executed before a goal is selected.  (Without
\* store failures, for a provider that gives calls ids.)
NoDanglingCalls == pc = "decide" => CallsAnswered(mem.msgs)

\* A run that ends by itself leaves no tool call unexecuted.
NoWorkLeft == pc = "stopped" /\ result = "nil" /\ ~ctxDone => pending = <<>>

CreatedFiles ==
    {log[j].path : j \in {j \in DOMAIN log :
        log[j].type = "tool_result" /\ log[j].tool = "create_file" /\ log[j].ok}}

\* When the LLM is asked, the artifacts are exactly the files that create_file
\* made: each result is attributed to its own call.
ArtifactsAreFiles ==
    pc = "decide" => ToSet(mem.arts) = CreatedFiles \ {NoPath}

-----------------------------------------------------------------------------
(***************************************************************************)
(* What a step may never do.                                               *)
(***************************************************************************)

\* The messages of a conversation that the loop put there, numbered.
LoopMessages(msgs) ==
    LET own == {i \in DOMAIN msgs : msgs[i].role # "user"}
    IN  {<<Cardinality(own \cap 1..i), msgs[i]>> : i \in own}

\* Recovering, starting over or losing a race never takes back what the loop
\* itself put in the conversation: replies and tool results only accumulate,
\* each in its place.  (Without store failures.)
LoopProgressKept ==
    [][LoopMessages(mem.msgs) \subseteq LoopMessages(mem'.msgs)]_vars

\* A goal that was completed stays so, in its place: a finished task is never
\* reopened by recovery or by a stale write.  (Without store failures.)
CompletedGoalsKept ==
    [][\A i \in DOMAIN mem.goals :
          ~Active(mem.goals[i]) => /\ i \in DOMAIN mem'.goals
                                   /\ mem'.goals[i] = mem.goals[i]]_vars

\* The checkpoints of a session go forward, and when one is saved state.json
\* is at least as new: "Save State first".
CheckpointsAdvance ==
    [][ckpts' # ckpts =>
         LET s == ckpts'[Len(ckpts')] IN
           /\ disk # NoState /\ disk.version >= s.version
           /\ ckpts # <<>> => s.version >= ckpts[Len(ckpts)].version]_vars

-----------------------------------------------------------------------------
(***************************************************************************)
(* Liveness.                                                               *)
(***************************************************************************)

\* A cancelled session stops running, even in the middle of a tool.
CancelStops == ctxDone ~> pc = "stopped"

\* Every run ends, unless a tool never returns: MaxSteps bounds it whatever the
\* LLM answers.
RunTerminates ==
    pc # "stopped" ~> pc = "stopped" \/ []Executing("call_tool")

-----------------------------------------------------------------------------
(***************************************************************************)
(* What the repository says and the code does not do.  RuntimeAcked        *)
(* refutes the first; TLC refutes the other in the same instance.          *)
(***************************************************************************)

\* "Save State immediately for safety" (pkg/runtime/runtime.go:263): once Ingest
\* has returned, the message is in state.json.
AckedSaved ==
    pc = "stopped" /\ disk # NoState => acked \subseteq UsersIn(disk.msgs)

\* "Mark the current goal as complete since the LLM answered directly"
\* (pkg/runtime/reducer.go:124): when a run has finished its goals, every message
\* it has in memory was in a request that a reply answers.
AllAnswered ==
    pc = "stopped" /\ result = "nil" /\ ~ctxDone /\ ~HasActiveGoal(mem.goals) =>
        \A u \in UsersIn(mem.msgs) : \E i \in DOMAIN mem.msgs :
            mem.msgs[i].role = "assistant" /\ u \in mem.msgs[i].saw

=============================================================================
