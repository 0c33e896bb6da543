--------------------------- MODULE Session_proofs ---------------------------
(***************************************************************************)
(* Proofs about Session, for clients that know of a session once Create    *)
(* has returned (for others OneRunner fails: see the run                   *)
(* SessionCreateRace).                                                     *)
(***************************************************************************)
EXTENDS Session, Runtime_proofs

-----------------------------------------------------------------------------
\* What the runtime's steps do to what the service relies on.

\* A step of the loop is one of a started run; it goes on, or returns.
LEMMA LoopEffect ==
    ASSUME LoopStep
    PROVE  /\ pc # "stopped" /\ acked' = acked /\ callers' = callers /\ ctxDone' = ctxDone
           /\ \/ pc' # "stopped" /\ result' = result
              \/ pc' = "stopped" /\ result' \in {"nil", "error"}
<1> USE DEF sharedVars, storeVars, runVars, clientVars, countVars
<1>1. CASE RecoverLoad \/ RecoverFails \/ RecoverAssign
  BY <1>1 DEF RecoverLoad, RecoverFails, RecoverAssign, Return
<1>2. CASE LoopExceeded \/ LoopCancelled \/ LoopPending \/ LoopSelect
  BY <1>2 DEF LoopExceeded, LoopCancelled, LoopPending, LoopSelect, Return
<1>3. CASE SelectGoal \/ Decide
  BY <1>3 DEF SelectGoal, Decide
<1>4. CASE StreamToken \/ LLMReplies \/ LLMFails
  BY <1>4 DEF StreamToken, LLMReplies, LLMFails, Executing, Executed
<1>5. CASE PersistEvents \/ PersistFails
  BY <1>5 DEF PersistEvents, PersistFails
<1>6. CASE ApplyRead \/ ApplyWrite \/ EndStep
  BY <1>6 DEF ApplyRead, ApplyWrite, EndStep
<1>7. CASE CheckpointClone \/ CheckpointSaveState \/ CheckpointSave \/ CheckpointFails
  BY <1>7 DEF CheckpointClone, CheckpointSaveState, CheckpointSave, CheckpointFails,
              Resume, Return
<1> QED
  BY <1>1, <1>2, <1>3, <1>4, <1>5, <1>6, <1>7 DEF LoopStep

LEMMA ToolEffect ==
    ASSUME ToolReturns
    PROVE  /\ pc # "stopped" /\ pc' = pc /\ result' = result
           /\ acked' = acked /\ callers' = callers /\ ctxDone' = ctxDone
BY DEF ToolReturns, Executing, Executed, sharedVars, storeVars, clientVars

\* Ingest does not touch the run.
LEMMA IngestEffect ==
    ASSUME NEW u \in User, Ingest(u)
    PROVE  /\ pc' = pc /\ result' = result /\ callers' = callers /\ ctxDone' = ctxDone
           /\ acked' \in {acked, acked \cup {u}}
           /\ IngestOk(u) => u \in acked'
BY DEF Ingest, IngestOk, IngestAppendFails, IngestSaveFails, sharedVars, runVars

-----------------------------------------------------------------------------
(***************************************************************************)
(* OneRunner is not inductive: whether a handler may start a runner depends*)
(* on the status, so the invariant ties the status to the runners, and the *)
(* messages in callers and spawned to their handlers.                      *)
(***************************************************************************)

Live == inRun \/ spawned # {}

ServiceTypes ==
    /\ status \in {"idle", "running", "completed", "error", "cancelled"}
    /\ handler \in [User -> {"none", "found", "accepted", "done"}]
    /\ prompt \subseteq User
    /\ \A u, v \in prompt : u = v
    /\ created \in {"new", "stored", "starting", "ingested", "failed", "done"}
    /\ spawned \subseteq User
    /\ inRun \in BOOLEAN
    /\ callers \subseteq User

StatusGuards ==
    /\ Live => status \in {"running", "cancelled"}
    /\ status \in {"idle", "completed"} => result # "error"
    /\ spawned # {} => result # "error"
    /\ pc # "stopped" => inRun
    /\ inRun /\ pc = "stopped" => result \in {"nil", "error"}

HandlersDone ==
    /\ \A u \in spawned : u \in acked \ callers
    /\ \A u \in spawned \cup callers : handler[u] = "done" \/ u \in prompt
    /\ \A u \in User : handler[u] = "accepted" => u \in acked
    /\ \A u \in prompt : handler[u] = "none"

\* Until Create returns it has the session to itself.
Creating ==
    created # "done" =>
        /\ ~Live /\ callers = {} /\ pc = "stopped" /\ result = "none"
        /\ status = IF created \in {"new", "stored"} THEN "idle" ELSE "running"
        /\ \A u \in User : handler[u] = "none"
        /\ cancelling = "no"
        /\ created = "ingested" => prompt \subseteq acked

SInv == ServiceTypes /\ OneRunner /\ StatusGuards /\ HandlersDone /\ Creating

LEMMA SessionInitInv == SessionInit => SInv
BY PromptAssumption DEF SessionInit, Init, SInv, ServiceTypes, OneRunner, StatusGuards, HandlersDone, Creating, Live

LEMMA SessionNextInv ==
    ASSUME ~Listed, SInv, [SessionNext]_sessionVars
    PROVE  SInv'
<1> USE DEF runtimeVars, serviceVars, vars, SInv
<1>1. CASE CreateStep
  <2>1. CASE CreateStore \/ CreateIdle \/ CreateRunning
    BY <2>1 DEF CreateStore, CreateIdle, CreateRunning, ServiceTypes, OneRunner,
                StatusGuards, HandlersDone, Creating, Live
  <2>2. ASSUME NEW u \in prompt, CreateIngest(u)
        PROVE  SInv'
    <3>1. u \in User /\ Ingest(u) /\ ((created' = "ingested" /\ IngestOk(u)) \/ created' = "failed")
      BY <2>2 DEF CreateIngest, Ingest, ServiceTypes
    <3>2. created = "starting" /\ UNCHANGED <<prompt, status, handler, spawned, inRun, cancelling>>
      BY <2>2 DEF CreateIngest
    <3>3. ServiceTypes' /\ OneRunner' /\ StatusGuards'
      BY <3>1, <3>2, IngestEffect DEF ServiceTypes, OneRunner, StatusGuards, Live
    <3>4. HandlersDone' /\ Creating'
      BY <3>1, <3>2, IngestEffect DEF ServiceTypes, HandlersDone, Creating, Live
    <3> QED
      BY <3>3, <3>4
  <2>3. ASSUME NEW u \in prompt, CreateSpawn(u)
        PROVE  SInv'
    BY <2>3 DEF CreateSpawn, ServiceTypes, OneRunner, StatusGuards, HandlersDone,
                Creating, Live
  <2> QED
    BY <1>1, <2>1, <2>2, <2>3 DEF CreateStep
<1>2. CASE CreateSystemPrompt
  BY <1>2 DEF CreateSystemPrompt, IngestPrompt, runVars, clientVars, ServiceTypes,
              OneRunner, StatusGuards, HandlersDone, Creating, Live
<1>3. ASSUME NEW u \in User \ prompt, MessageFind(u)
      PROVE  SInv'
  BY <1>3 DEF MessageFind, Known, At, ServiceTypes, OneRunner, StatusGuards, HandlersDone, Creating, Live
<1>4. ASSUME NEW u \in User, MessageIngest(u)
      PROVE  SInv'
  <2>1. Ingest(u) /\ (IngestOk(u) \/ handler' = [handler EXCEPT ![u] = "done"])
    BY <1>4 DEF MessageIngest, Ingest, At
  <2>2. handler[u] = "found" /\ handler' \in {[handler EXCEPT ![u] = "accepted"],
                                              [handler EXCEPT ![u] = "done"]}
    BY <1>4 DEF MessageIngest, At
  <2>3. UNCHANGED <<prompt, status, created, spawned, inRun, cancelling, deleted>>
    BY <1>4 DEF MessageIngest
  <2>4. ServiceTypes' /\ OneRunner' /\ StatusGuards'
    BY <2>1, <2>2, <2>3, IngestEffect DEF ServiceTypes, OneRunner, StatusGuards, Live
  <2>5. HandlersDone' /\ Creating'
    BY <2>1, <2>2, <2>3, IngestEffect DEF ServiceTypes, HandlersDone, Creating, Live
  <2> QED
    BY <2>4, <2>5
<1>5. ASSUME NEW u \in User, MessageCheck(u)
      PROVE  SInv'
  BY <1>5 DEF MessageCheck, At, ServiceTypes, OneRunner, StatusGuards, HandlersDone, Creating, Live
<1>6. ASSUME NEW u \in User, RunStart(u)
      PROVE  SInv'
  BY <1>6 DEF RunStart, CallRun, ServiceTypes, OneRunner, StatusGuards, HandlersDone, Creating, Live
<1>7. CASE RunStep
  BY <1>7, LoopEffect DEF RunStep, ServiceTypes, OneRunner, StatusGuards, HandlersDone, Creating, Live
<1>8. CASE RunReturned
  BY <1>8 DEF RunReturned, ServiceTypes, OneRunner, StatusGuards, HandlersDone, Creating, Live
<1>9. CASE RunTool
  BY <1>9, ToolEffect DEF RunTool, ServiceTypes, OneRunner, StatusGuards, HandlersDone, Creating, Live
<1>10. CASE CancelContext \/ CancelStatus \/ Delete
  BY <1>10 DEF CancelContext, CancelStatus, Delete, Known, Cancel, storeVars, runVars,
               clientVars, countVars, ServiceTypes, OneRunner, StatusGuards, HandlersDone, Creating, Live
<1>11. CASE UNCHANGED sessionVars
  BY <1>11 DEF sessionVars, ServiceTypes, OneRunner, StatusGuards, HandlersDone, Creating, Live
<1> QED
  BY <1>1, <1>2, <1>3, <1>4, <1>5, <1>6, <1>7, <1>8, <1>9, <1>10, <1>11
  DEF SessionNext, Handle, RunSession

\* A session never has two goroutines in runSession, with any number of messages
\* and a prompt or none.
THEOREM SingleRunner ==
    ASSUME ~Listed
    PROVE  SessionSpec => []OneRunner
<1>1. SInv => OneRunner
  BY DEF SInv
<1> QED
  BY <1>1, SessionInitInv, SessionNextInv, PTL DEF SessionSpec

-----------------------------------------------------------------------------
\* Until Cancel writes it, the status is not "cancelled".
TruthInv == StatusTruth /\ (cancelling = "no" => status # "cancelled")

LEMMA TruthNext ==
    ASSUME ~Listed, SInv, TruthInv, [SessionNext]_sessionVars
    PROVE  TruthInv'
<1> USE DEF runtimeVars, serviceVars, vars, SInv, TruthInv
<1>1. CASE CreateStep
  <2>1. CASE CreateStore \/ CreateIdle \/ CreateRunning
    BY <2>1 DEF CreateStore, CreateIdle, CreateRunning, Creating, Live, StatusTruth
  <2>2. ASSUME NEW u \in prompt, CreateIngest(u) \/ CreateSpawn(u)
        PROVE  TruthInv'
    BY <2>2 DEF CreateIngest, CreateSpawn, Creating, Live, StatusTruth, IngestOk,
                IngestAppendFails, IngestSaveFails, runVars
  <2> QED
    BY <1>1, <2>1, <2>2 DEF CreateStep
<1>2. CASE CreateSystemPrompt
  BY <1>2 DEF CreateSystemPrompt, IngestPrompt, runVars, StatusTruth
<1>3. ASSUME NEW u \in User, MessageFind(u)
      PROVE  TruthInv'
  BY <1>3 DEF MessageFind, StatusTruth
<1>4. ASSUME NEW u \in User, MessageIngest(u)
      PROVE  TruthInv'
  <2>1. Ingest(u) /\ UNCHANGED <<status, created, spawned, inRun, cancelling>>
    BY <1>4 DEF MessageIngest, Ingest
  <2> QED
    BY <2>1, IngestEffect DEF StatusTruth
<1>5. ASSUME NEW u \in User, MessageCheck(u)
      PROVE  TruthInv'
  BY <1>5 DEF MessageCheck, StatusTruth, StatusGuards, Live
<1>6. ASSUME NEW u \in User, RunStart(u)
      PROVE  TruthInv'
  BY <1>6 DEF RunStart, CallRun, StatusTruth, StatusGuards, Live
<1>7. CASE RunStep
  BY <1>7, LoopEffect DEF RunStep, StatusTruth, StatusGuards, Live
<1>8. CASE RunReturned
  BY <1>8 DEF RunReturned, StatusTruth, StatusGuards, OneRunner, Live
<1>9. CASE RunTool
  BY <1>9, ToolEffect DEF RunTool, StatusTruth
<1>10. CASE CancelContext \/ CancelStatus \/ Delete
  BY <1>10 DEF CancelContext, CancelStatus, Delete, Cancel, runVars, StatusTruth
<1>11. CASE UNCHANGED sessionVars
  BY <1>11 DEF sessionVars, StatusTruth
<1> QED
  BY <1>1, <1>2, <1>3, <1>4, <1>5, <1>6, <1>7, <1>8, <1>9, <1>10, <1>11
  DEF SessionNext, Handle, RunSession

\* Until a session is cancelled, its status says whether it runs or has failed.
THEOREM StatusIsTrue ==
    ASSUME ~Listed
    PROVE  SessionSpec => []StatusTruth
<1>1. SessionInit => TruthInv
  BY DEF SessionInit, Init, TruthInv, StatusTruth
<1>2. TruthInv => StatusTruth
  BY DEF TruthInv
<1> QED
  BY <1>1, <1>2, SessionInitInv, SessionNextInv, TruthNext, PTL DEF SessionSpec

-----------------------------------------------------------------------------
\* Every step of the composition is a step of the runtime, or none.
LEMMA SessionStep ==
    ASSUME ~Listed, SInv, [SessionNext]_sessionVars
    PROVE  [Next]_vars
<1> USE DEF runtimeVars
<1>1. CASE CreateStep
  BY <1>1 DEF CreateStep, CreateStore, CreateIdle, CreateRunning, CreateIngest,
              CreateSpawn, Ingest, Next, SInv, ServiceTypes
<1>2. CASE CreateSystemPrompt
  BY <1>2 DEF CreateSystemPrompt, Next
<1>3. ASSUME NEW u \in User, MessageFind(u) \/ Handle(u)
      PROVE  [Next]_vars
  BY <1>3 DEF MessageFind, Handle, MessageIngest, MessageCheck, Ingest, Next
<1>4. ASSUME NEW u \in User, RunStart(u)
      PROVE  [Next]_vars
  <2>1. pc = "stopped" /\ result # "error" /\ u \in acked \ callers
    BY <1>4 DEF RunStart, SInv, StatusGuards, HandlersDone
  <2> QED
    BY <1>4, <2>1 DEF RunStart, Start, Next
<1>5. CASE RunStep \/ RunReturned \/ RunTool
  BY <1>5 DEF RunStep, RunReturned, RunTool, Next
<1>6. CASE CancelContext \/ CancelStatus \/ Delete
  BY <1>6 DEF CancelContext, CancelStatus, Delete, Next
<1>7. CASE UNCHANGED sessionVars
  BY <1>7 DEF sessionVars
<1> QED
  BY <1>1, <1>2, <1>3, <1>4, <1>5, <1>6, <1>7 DEF SessionNext, RunSession

\* The service calls Run as the runtime expects: for an accepted message, one run
\* at a time, never after an error.
THEOREM ServiceUsesRuntime ==
    ASSUME ~Listed
    PROVE  SessionSpec => RuntimeSpec
<1>1. SessionInit => Init
  BY DEF SessionInit
<1> QED
  BY <1>1, SessionInitInv, SessionNextInv, SessionStep, PTL
  DEF SessionSpec, RuntimeSpec, Spec

\* So what was proved of the runtime holds of it inside the service.
THEOREM SessionKeepsRuntime ==
    ASSUME ~Listed
    PROVE  SessionSpec => [](SingleGoal /\ WriteAhead /\ NoWorkLeft) /\ CheckpointsAdvance
<1>1. SessionSpec => [](SingleGoal /\ WriteAhead /\ NoWorkLeft)
  BY ServiceUsesRuntime, OneGoalAtATime, LoggedFirst, RunsFinishWork, PTL DEF RuntimeSpec
<1>2. SessionSpec => CheckpointsAdvance
  BY ServiceUsesRuntime, CheckpointsGoForward, PTL DEF RuntimeSpec
<1> QED
  BY <1>1, <1>2

\* And with a store that does not fail and calls that have ids, the service's
\* conversations are whole: nothing the loop did is taken back, and the LLM never
\* sees a call without its result or an artifact that is no file.
THEOREM SessionKeepsConversation ==
    ASSUME ~Listed, MaxFaults = 0, FreshIds
    PROVE  SessionSpec => /\ [](NoDanglingCalls /\ ArtifactsAreFiles)
                          /\ LoopProgressKept /\ CompletedGoalsKept
<1>1. SessionSpec => [](NoDanglingCalls /\ ArtifactsAreFiles)
  BY ServiceUsesRuntime, CallsAreAnswered, FilesAreArtifacts, PTL DEF RuntimeSpec
<1>2. SessionSpec => LoopProgressKept /\ CompletedGoalsKept
  BY ServiceUsesRuntime, ProgressIsKept, GoalsStayCompleted, PTL DEF RuntimeSpec
<1> QED
  BY <1>1, <1>2

=============================================================================
