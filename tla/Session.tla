------------------------------ MODULE Session ------------------------------
(***************************************************************************)
(* A session of the service (pkg/api/service/session.go) composed with its *)
(* runtime: who calls Ingest, Run and Cancel, and when.                    *)
(*                                                                         *)
(* Create, every Message and Cancel run in HTTP goroutines of their own;   *)
(* runSession is the goroutine a handler starts.  session.mu protects the  *)
(* status only while it is checked and set, so the steps between are       *)
(* interleaved.  Sessions share nothing here: one stands for all.          *)
(*                                                                         *)
(* Only one Run is followed.  A second runSession that is started while    *)
(* the first one runs is seen by OneRunner; what two Runs do to each other *)
(* is not modelled.                                                        *)
(***************************************************************************)
EXTENDS Runtime

CONSTANTS
    Prompt,   \* messages Create may be called with as the prompt
    Listed    \* clients find sessions by listing them, not only from Create

ASSUME PromptAssumption ==
    Prompt \subseteq User /\ Listed \in BOOLEAN

VARIABLES
    status,     \* session.Status
    prompt,     \* the prompt Create is called with: a message, or none
    created,    \* where Create is
    handler,    \* where the Message handler of each message is
    spawned,    \* messages that started a runSession which is not in Run yet
    inRun,      \* a runSession is in Run, or has its result to report
    cancelling, \* where Cancel is
    deleted     \* the session is no longer in the map

runtimeVars == vars
serviceVars == <<status, prompt, created, handler, spawned, inRun, cancelling, deleted>>
sessionVars == <<runtimeVars, serviceVars>>

SessionInit ==
    /\ Init
    /\ status = "idle"
    /\ prompt \in {{}} \cup {{u} : u \in Prompt}
    /\ created = "new"
    /\ handler = [u \in User |-> "none"]
    /\ spawned = {}
    /\ inRun = FALSE
    /\ cancelling = "no"
    /\ deleted = FALSE

-----------------------------------------------------------------------------
\* Create.

\* From here on others can find the session.
CreateStore ==
    /\ created = "new"
    /\ created' = "stored"
    /\ UNCHANGED <<runtimeVars, prompt, status, handler, spawned, inRun, cancelling, deleted>>

CreateSystemPrompt ==
    /\ created = "stored"
    /\ IngestPrompt
    /\ UNCHANGED serviceVars

\* Without a prompt the session stays idle.
CreateIdle ==
    /\ created = "stored"
    /\ prompt = {}
    /\ created' = "done"
    /\ UNCHANGED <<runtimeVars, prompt, status, handler, spawned, inRun, cancelling, deleted>>

\* The status is set without session.mu.
CreateRunning ==
    /\ created = "stored"
    /\ prompt # {}
    /\ status' = "running"
    /\ created' = "starting"
    /\ UNCHANGED <<runtimeVars, prompt, handler, spawned, inRun, cancelling, deleted>>

CreateIngest(u) ==
    /\ created = "starting"
    /\ \/ IngestOk(u) /\ created' = "ingested"
       \/ (IngestAppendFails(u) \/ IngestSaveFails(u)) /\ created' = "failed"
    /\ UNCHANGED <<prompt, status, handler, spawned, inRun, cancelling, deleted>>

\* Mutant: no goroutine is started for a session that is already running.
CreateSpawnForgotten(u) ==
    /\ created = "ingested"
    /\ spawned' = IF status = "running" THEN spawned ELSE spawned \cup {u}
    /\ created' = "done"
    /\ UNCHANGED <<runtimeVars, prompt, status, handler, inRun, cancelling, deleted>>

CreateSpawn(u) ==
    /\ created = "ingested"
    /\ spawned' = spawned \cup {u}
    /\ created' = "done"
    /\ UNCHANGED <<runtimeVars, prompt, status, handler, inRun, cancelling, deleted>>

-----------------------------------------------------------------------------
\* Message.

\* Clients know of the session.
Known == created = "done" \/ (Listed /\ created # "new")

At(u, place) == handler' = [handler EXCEPT ![u] = place]

MessageFind(u) ==
    /\ handler[u] = "none"
    /\ Known
    /\ ~deleted
    /\ At(u, "found")
    /\ UNCHANGED <<runtimeVars, prompt, status, created, spawned, inRun, cancelling, deleted>>

MessageIngest(u) ==
    /\ handler[u] = "found"
    /\ \/ IngestOk(u) /\ At(u, "accepted")
       \/ (IngestAppendFails(u) \/ IngestSaveFails(u)) /\ At(u, "done")
    /\ UNCHANGED <<prompt, status, created, spawned, inRun, cancelling, deleted>>

\* Mutant: a completed session is not restarted.
MessageCheckIdle(u) ==
    /\ handler[u] = "accepted"
    /\ IF status = "idle"
       THEN status' = "running" /\ spawned' = spawned \cup {u}
       ELSE UNCHANGED <<status, spawned>>
    /\ At(u, "done")
    /\ UNCHANGED <<runtimeVars, prompt, created, inRun, cancelling, deleted>>

\* Mutant: a cancelled session is restarted.
MessageCheckCancelled(u) ==
    /\ handler[u] = "accepted"
    /\ IF status \in {"idle", "completed", "cancelled"}
       THEN status' = "running" /\ spawned' = spawned \cup {u}
       ELSE UNCHANGED <<status, spawned>>
    /\ At(u, "done")
    /\ UNCHANGED <<runtimeVars, prompt, created, inRun, cancelling, deleted>>

\* Mutant: a session is restarted after an error.
MessageCheckError(u) ==
    /\ handler[u] = "accepted"
    /\ IF status \in {"idle", "completed", "error"}
       THEN status' = "running" /\ spawned' = spawned \cup {u}
       ELSE UNCHANGED <<status, spawned>>
    /\ At(u, "done")
    /\ UNCHANGED <<runtimeVars, prompt, created, inRun, cancelling, deleted>>

\* A session that is idle or completed is started again.
MessageCheck(u) ==
    /\ handler[u] = "accepted"
    /\ IF status \in {"idle", "completed"}
       THEN status' = "running" /\ spawned' = spawned \cup {u}
       ELSE UNCHANGED <<status, spawned>>
    /\ At(u, "done")
    /\ UNCHANGED <<runtimeVars, prompt, created, inRun, cancelling, deleted>>

-----------------------------------------------------------------------------
\* runSession.

RunStart(u) ==
    /\ u \in spawned
    /\ ~inRun
    /\ CallRun(u)
    /\ spawned' = spawned \ {u}
    /\ inRun' = TRUE
    /\ UNCHANGED <<prompt, status, created, handler, cancelling, deleted>>

RunStep == LoopStep /\ UNCHANGED serviceVars

RunTool == ToolReturns /\ UNCHANGED serviceVars

\* Mutant: an end without an error is not reported.
RunReturnedError ==
    /\ inRun
    /\ pc = "stopped"
    /\ status' = IF result = "error" THEN "error" ELSE status
    /\ inRun' = FALSE
    /\ UNCHANGED <<runtimeVars, prompt, created, handler, spawned, cancelling, deleted>>

\* Run returned.  Its error is never context.Canceled: a cancelled run ends in
\* gracefulShutdown, with the result of its checkpoint.
RunReturned ==
    /\ inRun
    /\ pc = "stopped"
    /\ status' = IF result = "nil" THEN "completed" ELSE "error"
    /\ inRun' = FALSE
    /\ UNCHANGED <<runtimeVars, prompt, created, handler, spawned, cancelling, deleted>>

-----------------------------------------------------------------------------
\* Cancel and Delete.

CancelContext ==
    /\ cancelling = "no"
    /\ Known
    /\ ~deleted
    /\ Cancel
    /\ cancelling' = "context"
    /\ UNCHANGED <<prompt, status, created, handler, spawned, inRun, deleted>>

CancelStatus ==
    /\ cancelling = "context"
    /\ status' = "cancelled"
    /\ cancelling' = "done"
    /\ UNCHANGED <<runtimeVars, prompt, created, handler, spawned, inRun, deleted>>

Delete ==
    /\ Known
    /\ ~deleted
    /\ Cancel \/ (ctxDone /\ UNCHANGED runtimeVars)
    /\ deleted' = TRUE
    /\ UNCHANGED <<prompt, status, created, handler, spawned, inRun, cancelling>>

-----------------------------------------------------------------------------

CreateStep ==
    \/ CreateStore \/ CreateIdle \/ CreateRunning
    \/ \E u \in prompt : CreateIngest(u) \/ CreateSpawn(u)

Handle(u) == MessageIngest(u) \/ MessageCheck(u)

RunSession == (\E u \in User : RunStart(u)) \/ RunStep \/ RunReturned

SessionNext ==
    \/ CreateStep
    \/ CreateSystemPrompt
    \/ \E u \in User \ prompt : MessageFind(u) \/ Handle(u)
    \/ RunSession
    \/ RunTool
    \/ CancelContext
    \/ CancelStatus
    \/ Delete

SessionSpec == SessionInit /\ [][SessionNext]_sessionVars

\* Goroutines that were started go on, and tools return.  Nobody has to call.
FairSessionSpec ==
    /\ SessionSpec
    /\ WF_sessionVars(CreateStep)
    /\ \A u \in User : WF_sessionVars(Handle(u))
    /\ WF_sessionVars(RunSession \/ RunTool)
    /\ WF_sessionVars(CancelStatus)

-----------------------------------------------------------------------------
(***************************************************************************)
(* Properties.                                                             *)
(***************************************************************************)

\* At most one goroutine is in runSession.
OneRunner ==
    /\ \A u, v \in spawned : u = v
    /\ inRun => spawned = {}

\* From the return of Create until it is cancelled, a session's status says what
\* its goroutine does: "running" while there is one, "error" if the last one failed.
StatusTruth ==
    created = "done" /\ cancelling = "no" =>
        /\ status = "running" <=> inRun \/ spawned # {}
        /\ status = "error" <=> ~inRun /\ result = "error"

\* The service uses the runtime as Runtime expects: Run is called for an accepted
\* message, never while it runs, and not again after an error.  What was shown
\* of Runtime holds in the composition.
RuntimeSpec == Spec

\* The messages that were in a request the LLM answered.
Seen == UNION {log[j].saw : j \in {j \in DOMAIN log : log[j].type = "llm_response"}}

\* A message whose handler finds the session at rest, with the message and an
\* unfinished goal in state.json, is in a request to the LLM, unless the session
\* is cancelled or fails: the session is restarted, whichever of several handlers
\* does it, and neither recovery nor messages that arrive then lose it.
\* (Without store failures.)
RestingAttended ==
    \A u \in User :
        /\ handler[u] = "accepted" /\ status \in {"idle", "completed"}
        /\ disk # NoState /\ u \in UsersIn(disk.msgs) /\ HasActiveGoal(disk.goals)
        ~> u \in Seen \/ ctxDone \/ status = "error" \/ faults > 0

\* The prompt a session is created with is in a request to the LLM, unless the
\* session is cancelled or ends in an error: Create starts the run after its
\* Ingest, so the first run finds the prompt's goal.
PromptAttended ==
    created = "ingested" ~> prompt \subseteq Seen \/ ctxDone \/ status = "error"

-----------------------------------------------------------------------------
(***************************************************************************)
(* What the repository says and the code does not do.  SessionForgotten    *)
(* refutes the first; TLC refutes the other in the same instance.          *)
(***************************************************************************)

\* "If session was idle or completed, start/restart the runtime" (session.go:194):
\* a completed session has no unfinished goal, unless a handler is about to
\* restart it.
CompletedIsDone ==
    status = "completed" /\ ~ctxDone /\ (\A u \in User : handler[u] # "accepted")
      => ~HasActiveGoal(mem.goals)

\* Cancel answers with status "cancelled" (handler/session.go:161): that is the
\* status of a cancelled session that came to rest.
CancelledStays ==
    cancelling = "done" /\ ~inRun /\ spawned = {} => status = "cancelled"

=============================================================================
