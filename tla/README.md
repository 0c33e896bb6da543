# Verification of gm-agent

TLA+ modules, TLC configurations and TLAPS proofs for gm-agent: a server that
runs sessions of an LLM agent (`packages/agent`) and its terminal client
(`packages/cli`). Paths below are relative to `packages/agent/pkg` unless they
start with `packages/`.

## 1. Inventory

| Part | State | Operations | Talks to |
|---|---|---|---|
| Runtime loop (`runtime/runtime.go`, `dispatcher.go`) | `r.state`, `r.pendingCommands`, both under `r.mu`; the locals of `Run` | `Run` (recover, select, decide, dispatch, apply, checkpoint), `Ingest`, `GetState` | store, LLM gateway, tool executor; called by the session service |
| Reducer (`runtime/reducer.go`, `types/state.go`) | none: a function of state and event | goals, messages, artifacts, commands after an event | called by `Run` and `Ingest` |
| File store (`store/fs_store.go`) | `events.jsonl`, `state.json`, `checkpoints/`, `artifacts/`, permission rules | append, read back, save and load state and checkpoints | runtime, SSE handler, permission policy |
| Session service (`api/service/session.go`) | the sessions, each with a status and a context | Create, Message, Cancel, Delete, Rewind, RespondPermission, `runSession` | starts `Run` in goroutines; HTTP handlers call it |
| Event stream (`api/handler/session.go`, `cli/internal/client`, `cli/.../run.go`) | a cursor per connection | poll the log every 50 ms, send, end with the session's context | store, clients |
| Permissions (`runtime/permission/manager.go`, `tool/executor.go`, `tool/policy.go`, callback in `cmd/gm/main.go`) | pending requests (one buffered channel each), persistent rules | policy check, request, respond, wait with timeout, save a rule | tool executor waits, the client answers through the API |
| Patch engine and rewind (`patch/`, `agent/tools/file_editing.go`) | files, backups with `.meta`, pending changes | apply, roll back, flush at a checkpoint, rewind | tools, checkpoints, session service |
| LLM providers (`llm/openai`, `llm/gemini`) | a stream being read | aggregate tool calls from deltas | runtime |
| REPL (`packages/cli/internal/commands/repl.go`) | the bubbletea model: session, permission request, event channel | one update per message | API client |
| Tools (`agent/tools/`) | none of their own: files, processes | one handler per tool | executor, patch engine |

What is hard in this code, with the lines where it bites, is listed under
"hazards" in `PROJECT.json`. The recurring shapes:

- **State read under a lock and used after it**: `applyEvent` reads `r.state`,
  reduces, and writes the result back under a second lock; `checkpoint` clones
  and saves; `recover` loads and assigns. `Ingest` runs in HTTP goroutines in
  between.
- **Order of two actors**: answers and requests of permissions, status changes
  of a session, messages during an LLM call, the last poll of a stream.
- **One step of several failing**: store writes after the tool has run.
- **Must eventually happen**: runs end, cancellation stops them, a message gets
  an answer.

Per component, what makes it correct:

- Runtime: every tool call gets its result before the LLM is asked again; no
  reply, result or completed goal is ever taken back; nothing is in the
  conversation that was not logged; one unfinished goal at a time; runs end;
  cancellation stops them; every message is answered.
- Session service: one runner per session; an accepted message is eventually
  processed; the status says what the session does.
- Permissions: a tool that needs approval runs only if this request was
  approved; an acknowledged answer is the answer; "always" is asked once.
- Event stream: a client sees every event, in order, once, before the end.
- LLM providers: the reply that the reducer gets is what the LLM sent, no text lost
  and no tool call by halves; the goroutine and its reader never wait for each
  other for good.
- Patch engine: every edit that was reported is on record once; a rewind restores
  the files to their content at the checkpoint; a rewind of the conversation lasts.
- REPL: a typed message reaches its session or is reported as failed; the client
  heeds Enter again; a permission prompt goes away; events of the old session end.

## 2. Plan

Each component is a module with its constants' assumptions, and is proved about in
a module of its own. `->` reads "extends".

| Modules | Subject | State |
|---|---|---|
| `Runtime -> Reducer`; `Runtime_proofs`, `Reducer_proofs` | the core | modelled, checked, proved |
| `Session -> Runtime`; `Session_proofs` | the service, which implements the environment `Runtime` assumes | modelled, checked, proved |
| `Permission`; `Permission_proofs` | manager, callback, executor, policy and rules | modelled, checked, proved |
| `EventStream`, implementing `Delivery`; `EventStream_proofs` | log, SSE handler, connection, client | modelled, checked, refinement proved |
| `Pipeline -> EventStream, LLMStream`; `Pipeline_proofs` | a reply from the provider to the client | modelled, checked; the stream's promise, texts and calls proved of the composition |
| `Rewind -> PatchEngine`; `Rewind_proofs` | edits, checkpoints and rewinds of several sessions | modelled, checked, proved |
| `Repl`; `Repl_proofs` | the interactive client | modelled, checked, proved |

What is left:

- Composition: `Session` with `Permission`, so that the cancellation of a run and
  the wait for an answer are one; `Repl` over `EventStream` instead of the
  channels it has now.
- Larger instances of `Rewind` with two files in one checkpoint.

Where a question can be asked of an instance that is checked already, it is added
to that run rather than given one of its own.

## 3. Modules

### Reducer

`reducer(state, event)` as operators. `Reduce(s, e)` gives the new state,
`CommandsOf(e)` the commands. `GoalsAfter`, `MessagesOf` and `ArtifactsOf` are
the goal, message and artifact parts of the switch in `reducer.go`. Data is
abstract: a message is the user message it came from; a reply is told apart by
whether it has text and by its calls; a call by its id, its tool (`task_complete`
and `create_file` are treated specially by the reducer) and its path argument.
`saw` in a reply and `path` in a tool result are observations for properties:
which user messages were in the request, and what the tool was run with.

### Runtime

One session's runtime over its store. The variable `pc` says where the goroutine
in `Run` is; one action per access of the loop to the shared state.

| Action | Code |
|---|---|
| `IngestOk`, `IngestAppendFails`, `IngestSaveFails`, `IngestPrompt` | `Ingest`, with each of its returns |
| `Start`, `RecoverLoad`, `RecoverFails`, `RecoverAssign` | `Run` called by the session service; `recover` |
| `LoopExceeded`, `LoopCancelled`, `LoopPending`, `LoopSelect` | head of the loop: step limit, `ctx.Done()`, `swapPendingCommands` |
| `SelectGoal`, `Decide` | `selectGoal`, `decide` |
| `StreamToken`, `LLMReplies`, `LLMFails`, `ToolReturns`, `PersistEvents`, `PersistFails` | `dispatch`: one command at a time, then `AppendEvents` |
| `ApplyRead`, `ApplyWrite`, `EndStep` | `applyEvent` and the end of a step |
| `CheckpointClone`, `CheckpointSaveState`, `CheckpointSave`, `CheckpointFails` | `checkpoint`, `gracefulShutdown` |
| `Cancel` | the session's context is cancelled |

`Ingest` is atomic: it holds `r.mu` throughout, so the loop's accesses to
`r.state` cannot fall inside it; the loop's accesses to the store can, but they
commute with one of its halves. The store serialises its operations with its own
mutex and writes `state.json` by rename, so each is one action. A failing append
may or may not have written the line (the failing call may be the `Sync`). A
crash is not an action: the server never reopens a session's directory after a
restart (the factory is called with a fresh id by `Create` only), so nothing
reads what a crash leaves.

The LLM and the tools are environment: any reply of `Replies` or a failure; a
tool succeeds or fails.

### Session

`Session` EXTENDS `Runtime`: its steps are the runtime's, called in the order and
under the conditions of `api/service/session.go`.

| Action | Code |
|---|---|
| `CreateStore`, `CreateSystemPrompt`, `CreateIdle`, `CreateRunning`, `CreateIngest`, `CreateSpawn` | `Create`, from `sessions.Store` on visible to others |
| `MessageFind`, `MessageIngest`, `MessageCheck` | `Message`: lookup, `Ingest`, status check under `session.mu` |
| `RunStart`, `RunStep`, `RunTool`, `RunReturned` | `runSession` around `Run` |
| `CancelContext`, `CancelStatus`, `Delete` | `Cancel` and `Delete` |

`prompt` is what `Create` is called with: one of the messages `Prompt`, or none.
`handler[u]` is the goroutine of the handler of message `u`; `spawned` holds the
`runSession` goroutines that have not called `Run` yet. A client learns a
session's id when `Create` returns, or, if `Listed`, from the list of sessions,
in which a session is from `CreateStore` on (`Known`). `RuntimeSpec`, which is
`Runtime`'s `Spec`, is a property of the composition: the service calls `Run`
for an accepted message, never twice at once and never again after an error.
When it fails to (a listed session, see below), the second run is reported by
`OneRunner` and not followed. One call of `Cancel` is modelled.

### Permission

Several sessions execute tool calls; each session has a manager of its own, so
the requests of one are never another's, and all share `permissions.json`. `pc`
says where a session's executor is.

| Action | Code |
|---|---|
| `Execute`, `Check`, `Run` | `Executor.Execute` and `Policy.Check` |
| `Emit`, `Register`, `Return`, `AddRule` | the permission callback in `cmd/gm/main.go` |
| `WaitTake`, `WaitFails` | the cases of the `select` in `WaitForResponse` |
| `RespondLoad`, `RespondSend` | `Manager.Respond`: lookup, then send |

`got` holds the result of the wait until `Return`, where the deferred `Delete`
happens: an answer that arrives between the two is acknowledged and never read.
`answers` records what was acknowledged to clients. A cancelled context and the
timeout have the same effect and are one action. A call stands for a tool with
normalised arguments; the whitelist, the categories, the mode and unknown tools
make the constant `Refused`. The store may fail to append the event, to read the
rules or to save one, `MaxFaults` times in all.

### Delivery, EventStream

`Delivery` is the abstract specification of an event stream: the client gets the
events in the order they were written, each once and none left out, for as long as
it listens. `EventStream` is what the code does:

| Action | Code |
|---|---|
| `AppendEvent`, `AppendTears` | `appendEventLocked`: the line and its newline, or a part of them |
| `Poll`, `Send` | the ticker's case of the handler in `api/handler/session.go`: `GetEventsSince`, then one write and flush per event |
| `SessionEnded`, `RequestDone` | the other two cases of its `select` |
| `Connect`, `ConnectFails`, `Take`, `Leave` | `StreamEvents` of the client, its reader goroutine and the loop over its channel |
| `Cancel`, `Delete`, `Drop` | the session ends; the connection breaks, with any suffix of what is on it |
| `ServerEnds` | the server's process ends, and the connection with it; the next process knows none of its sessions |

An event is its ID, which is its place in the log: what a client gets of its content
is not modelled, and of an `llm_token` it gets none (section 4, below). `EventsSince` is `GetEventsSince`: after a
torn line it returns an error, and the handler goes on polling. `packages/cli` never
reconnects; `resumes` is a client that does, with the ID of its last event as the
API offers it, and is chosen in the initial state. The refinement is
`Client == INSTANCE Delivery WITH written <- Len(log), left <- client = "finished"`
and `InOrder == Client!Spec`.

### LLMStream, Pipeline

`LLMStream` is one `executeCallLLM` with a provider's goroutine. The pieces of a
reply (texts, and parts of the arguments of tool calls) are numbered as they arrive,
so that `content` and `calls`, at the end, can be compared with what was sent.

| Action | Code |
|---|---|
| `StartStream`, `StartFails`, `Chat`, `ChatFails` | `StreamChat`, and the fallback to `Chat` |
| `ChatPanics`, `ReceiveEmpty` | a response of OpenAI without choices, a chunk of Gemini without candidates or content: what is missing is taken unchecked, and the panic is recovered nowhere |
| `ReceiveText`, `ReceiveCallPiece`, `ReceiveFinish` | the chunks in `llm/openai/provider.go`, with `toolCallBuilder` (`Built`) and the map's iteration order |
| `ReceiveCall` | a whole call in `llm/gemini/provider.go` |
| `ReceiveEnds`, `CloseStream` | the end of the stream or an error, which the goroutine treats alike |
| `Consume`, `Reply` | the loop of `executeCallLLM` over the channel |

The channel is unbuffered: `Consume` is the goroutine's send and the loop's receive.

`Pipeline` EXTENDS both: `DispatcherConsumes` logs an `llm_token` per text,
`DispatchLogs` the `llm_response`, while the handler polls and others write to the
log. Every step of it is a step of `EventStream`, so `InOrder` carries over. Between a
panic and the end of the process (`Crash`, a `ServerEnds`) the others may still take
steps: the deferred `close` of the channel lets the dispatcher log what it has as a reply.

### PatchEngine, Rewind

`PatchEngine` is the engine, its tracker and the tools `write_file` and
`edit_file`, of sessions that share them as in `cmd/gm/main.go`.

| Action | Code |
|---|---|
| `SaveTemp`, `SaveTempFails`, `SaveRename`, `SaveRenameFails`, `SaveRemove` | `writeFile`: the temporary file of a path is everybody's |
| `ToolRead`, `ToolReadSame`, `ToolCreate` | the handlers before they call `Apply`, and the write past it |
| `ApplyNoBackup`, `ApplyPatch`, `ApplyMisfits`, `ApplyRecord`, `ApplyFailed` | `Apply` with its returns: backup, hunks, `writeFile`, tracker |
| `Outside` | everybody else who writes files, also `create_file` and `run_shell` |

A content is a number. A diff fits the text it was made from; on another one it
fits, giving a text of its own, or does not. `history` records every change and who
made it, for `RewindExact` only.

`Rewind` EXTENDS it with the runtime's `checkpoint` (`CheckpointTake`, which flushes
the tracker, `CheckpointSaveState`, `CheckpointSave`, `CheckpointFails`), messages
and recoveries as far as a rewind meets them, and the service's `Rewind`:
`RewindStart` collects the changes, `Rollback`, `RollbackSaves`, `RollbackReturns`
take back one each, then `RewindCodeFails`, `RewindCode`, `RewindConversation` or
`RewindConversationFails` ends it. The loop, its tools and the rewind of a session
interleave, as nothing in the code prevents it.

### Repl

The model of `repl.go`, one `Update` per message (`HandleError`, `SessionCreated`,
`StreamReady`, `PermissionHandled`, `QueryDone`, `HandleEvent`, and one action for
each kind of key), the goroutines of its commands (`Serve...`) and those that wait
for the next event (`Take`). A goroutine's result and an event that was taken wait
in `commands` and `held`, in no order, until `Update` takes one: bubbletea's
channel gives none. `waiters` counts the goroutines per channel, since `/new`
leaves one behind. Of the server there is as much as the client can tell: a
message is logged, the agent responds, asks for permission, goes on after an answer
or a timeout (`Responds`, `Asks`, `Resumes`, `TimesOut`). `dispatch` runs the calls of a
reply one after the other and logs their results when the last is over (`Dispatches`), so
that requests come before the results of earlier calls, and a tool that does not return
(`AgentHangs`) keeps back those too. `agent` holds, with the step of each session's run,
the results it has not logged.

## 4. Runs

Bounds are constants named in the modules; `MaxSteps` and `CheckpointInterval` are
the code's own, here small. Deadlock is not checked: a stopped session may stay so,
since nobody has to send a message or type a key.

| Run | Instance | Shows |
|---|---|---|
| `RuntimeSafety` | 2 messages, replies with several calls, 4 steps, no faults | `NoDanglingCalls`, `ArtifactsAreFiles`, `SingleGoal`, `NoWorkLeft`, `LoopProgressKept`, `CompletedGoalsKept`, `CheckpointsAdvance` |
| `RuntimeFaults` | 2 messages, one call or nothing per reply, 1 streamed token, 1 store failure, calls without ids, fair scheduling, 2 steps | `TypeOK`, `WriteAhead`, `CancelStops`, `RunTerminates` |
| `SessionService` | 2 messages, one of which may be the prompt, a cancellation, a deletion, 1 store failure, fair scheduling, 2 steps | `OneRunner`, `StatusTruth`, `RuntimeSpec`, `RestingAttended`, `PromptAttended` |
| `PermissionRequests` | 2 sessions with a call each, a client, a rule that denies, 1 store failure, fair scheduling | `TypeOK`, `AnswerDecides`, `PendingAwaited`, `RulesEarned`, `AskedOnce`, `Decided` |
| `PipelineReply` | a reply of 3 pieces, calls with 2 indexes, 3 lines of the log, 1 torn write, 1 broken connection, 3 such turns in all, a panic, fair scheduling | `TextsKept`, `CallsWhole`, `InOrder`, `Delivered`, `EndsWithSession`, `CallReturns` |
| `RewindFiles` | 2 sessions, a file, 2 texts, 2 patches, 2 checkpoints, 2 messages, 1 rewind, 1 failure, all but one of these together; symmetry of the sessions | `TypeOK`, `OnRecordOnce`, `EditsOnRecord`, `RewindExact` |
| `ReplChat` | 2 sessions, 3 keys, 2 permission requests, 1 failing request or broken stream, 5 of these in all, a tool that hangs, fair scheduling | `FewStale`, `NoMessageLost`, `ShownInOrder`, `OpenPromptStays`, `WaitingEnds`, `PromptEnds` |

Why the bounds are enough:

- Runtime. `Run` is called at most once for each accepted message, as the service
  does. Two user messages are enough for one in each of the races with the loop and
  one for the goal it works on, and for a recovery after a finished run; four steps
  for a reply with tool calls, their execution, the next reply and the end, and two
  for a reply and the step limit. An interval of two makes some steps checkpoint and
  others not. One failure can fall on any store operation; what a second one could
  add is covered by the proofs.
- Session. Two steps let a run answer, or call a tool and hit the step limit, so that
  runs end in both ways; longer runs are the subject of the runtime's instances.
- Permissions. Two sessions with one call each have every race for a rule, and a
  client that answers a request again, before or after the first answer was taken,
  every race for a channel of capacity one.
- Pipeline. Three pieces are two parts of one call around a part of another, or a text
  and a call; three lines are a token, a reply and an event of somebody else; a break
  can fall on any of them. `MaxTurns` bounds the sum of pieces, faults, foreign events
  and the session's end, so that each occurs, and all but the longest mixtures.
- Rewind. A rewind needs a checkpoint and a change after it, by its own session or the
  other one, that a second checkpoint may list; two texts are one to write and one to be
  in the way. `MaxTurns` leaves out the behaviours with all of these and a failure.
- REPL. Three keys are `/new` while a first message is under way and another message,
  or a message, an answer and a query; the second session is what makes streams stale.
  Two requests are two calls of one reply, whose results are logged together, or of two
  replies or sessions. `MaxTurns` leaves out the behaviours with all of these.

Runs that are expected to find a violation, each of a sentence the repository
states (quoted under "findings" in `PROJECT.json`):

| Run | Violated | Because |
|---|---|---|
| `RuntimeAcked` | `AckedSaved` | a checkpoint saves a clone that lacks a message already acknowledged |
| `SessionForgotten` | `CompletedIsDone` | a message during the last step of a run starts none |
| `RewindOrder` | `RewindOrder` | changes are taken back oldest checkpoint first |
| `RewindForgotten` | `RewoundStays` | the runtime's memory is not rewound, and the next message saves it again |
| `ReplLocked` | `NeverLocked` | with streams that crossed after `/new`, the result that would clear a prompt is never read: it takes every key, and no answer is accepted. Tools that hang are excepted |

Stated in the modules, refuted by TLC on the instances above and left without a run:

- `AllAnswered` (`Runtime`): a reply completes the goal over a message it did not see
  (`runtime/reducer.go:125`).
- `CancelledStays` (`Session`): a cancelled run returns nil, and the session completes
  (`api/service/session.go:232`).
- `OneRunner` with `Listed`: the session is in the list before its status is set, and a
  message sent to it then starts a second run.
- `DenyAllBlocks` (`Permission`): only approvals make rules (`cmd/gm/main.go:260`).
- `SeenIsKnown` (`Permission`): a request is emitted before it is registered, and a
  fast answer rejected.
- `NeverPanics` (`Pipeline`): a reply without candidates, content or choices ends the
  server (`llm/gemini/provider.go:84`, `llm/openai/provider.go:68`), where
  `packages/agent/docs/EN/02-architecture/system-design.md:105` says "Never panic on
  external input". `CallReturns` excepts it, and `EndsWithSession` follows the clients.
- `SubmittedIsCleared` (`Repl`): `permissionHandledMsg` does not say which request was
  answered and clears whichever prompt is shown (`repl.go:341`), so that a newer one
  times out unanswered.

Seen while modelling, and not stated as a property:

- `types/state.go:9` says the version is "incremented on each update"; a lost
  update leaves it where it was, and recovery takes it back.
- `packages/agent/docs/EN/02-architecture/system-design.md:77` says a replay of
  the events rebuilds the state; `recover` reads `state.json` only, and messages
  are applied in another order than they are logged in.
- `runtime/dispatcher.go:46` says errors are fed back to the LLM; the reducer has
  no case for them (`ErrorEvent` changes nothing but the version).
- When `AppendEvents` fails, the results of executed tool calls are lost, and the
  next request has calls without results: `NoDanglingCalls` is for a store that
  does not fail.
- The Gemini provider gives every call the id "" (`llm/gemini/provider.go:296`),
  and results are attributed by id: `ArtifactsAreFiles` is for providers with ids.
- `packages/agent/docs/EN/03-modules/tool.md:16` says tools have a timeout; they
  run with the session's context, and `RunTerminates` has to except them.
- `api/service/session.go:188` says `Ingest` respects the session's context; it
  does not look at it.
- `Respond` acknowledges an answer that a timeout may still win over.
- A message is accepted by a session whose context is cancelled
  (`api/service/session.go:189`), and an `Ingest` that fails in `Create` leaves a
  session that no client was told of (`:107`).
- `packages/cli/internal/commands/run.go` prints `assistant_message`, which nothing in
  the server emits, and waits for `session_ended`, which a completed session does not
  send until it is cancelled.
- Reading an `llm_token` back loses its `Delta` (`store/fs_store.go:231`, the default
  case): a client gets the token events of a reply in order, and no text with them.
  What it can show of a reply is the `llm_response`. `InOrder` and `Delivered` are
  about events, not about what is in them.
- `agent/tools/file_editing.go:112` looks only at the error of `Apply`: `write_file`
  reports success when no hunk fitted.
- A code rewind answers success although changes that were lost with a checkpoint,
  that are not in a checkpoint yet, or that went past the engine are still there:
  `Undisturbed` excepts them.
- Any event clears the REPL's `waiting` (`repl.go:397`), so that a message can be sent
  while the last one is being answered.
- A prompt whose request timed out stays until the reply's last call is over, for
  good if that one hangs (`runtime/dispatcher.go:53`): `PromptEnds` and `NeverLocked`
  except it.
- Two `/new` in quick succession may leave the REPL sending to one session and
  listening to the other: `WaitingEnds` excepts it as `Crossed`. A stream that broke
  leaves it waiting after every message: `Lost`.

Fairness. `FairSpec` gives weak fairness to the loop's own steps, which includes
the return of an LLM call (its context has a timeout, `DispatchTimeout`), and to
the return of a tool once the context is cancelled (`run_shell` uses
`exec.CommandContext`; a permission wait selects on the context). A tool that
is not cancelled need not return, and nobody has to send, start or cancel.
A shell command that leaves a grandchild holding its output pipe is not killed by
its context; the model does not have such commands.

`FairSessionSpec` lets every handler and goroutine that was started go on, and
tools return; nobody has to send a message. `FairSpec` of `Permission` does the
same for the executors, whose wait ends by its timeout at last; no client has to
answer.

`PipelineFairness`: the provider's goroutine, the dispatcher, the handler (its ticker
does not stop) and the client's loop go on. It says that a reply has an end, since
the LLM call's context has a timeout; it does not say that a write succeeds, that a
session or a connection ends, or that it does not. A process that panics ends
(`Crash`).

`FairSpec` of `Repl`: `Update`, the goroutines and the agents go on; HTTP requests
end, and a permission request times out. A tool may hang at any time (`AgentHangs` is
no part of what is fair). The user may do nothing for ever, and keys have no fairness. `Rewind` has no liveness property and no fairness.

## 5. Proofs

`Reducer_proofs` has the lemmas about the reducer: types, and that reducing keeps
at most one unfinished goal, the newest. `Runtime_proofs` proves for every set of
messages and paths, every set of replies and every bound:

- `TypeCorrect`: `Spec => []TypeOK`, one step per action.
- `OneGoalAtATime`: `Spec => []SingleGoal`.
- `LoggedFirst`: `Spec => []WriteAhead`.
- `RunsFinishWork`: `Spec => []NoWorkLeft`.
- `CheckpointsGoForward`: `Spec => CheckpointsAdvance`.
- `GoalsStayCompleted`: `Spec => CompletedGoalsKept`, with `MaxFaults = 0`: a store that
  fails may lose a completed goal.
- `ProgressIsKept`: `Spec => LoopProgressKept`, with `MaxFaults = 0`: a state that could not
  be saved is recovered without what the loop did.
- `CallsAreAnswered` and `FilesAreArtifacts`: `Spec => []NoDanglingCalls` and `Spec =>
  []ArtifactsAreFiles`, with `MaxFaults = 0` (when `AppendEvents` fails, results of tools that
  ran are dropped) and `FreshIds` (with Gemini's ids a result answers every call).

`OneGoalAtATime` and `LoggedFirst` go through the invariant `IInv`: `TypeOK`, the two properties, and
`OutLogged`, that events being applied are in the log. Without `OutLogged` the
step `ApplyWrite` would reduce an event about which nothing is known. The
argument is the lemma `HeldStep`: every state held after a step (in memory, in
`state.json`, in a checkpoint, or by the loop) was held before it or is one
logged event ahead of a state that was. Lost updates and recoveries only choose
among held states, which is why they break freshness and not these properties.

The other six have an invariant each. `WInv`: from the moment `LoopSelect` found
nothing pending until the run returns, through the last checkpoint, nothing is.
`VInv`: no state in memory, on disk or held by the loop is older than the newest
checkpoint; a lost update or a recovery takes memory back, but not behind it. `GInv`:
what the loop is about to write back, save or recover has every goal that was
completed in memory (`Kept`); messages that are lost meanwhile completed none.
`PInv`: the states that may still be written back over memory (`Vulnerable`: the loop's
copy while it reduces, recovers or saves, and `state.json` before a recovery or behind a
checkpoint being saved) have the replies, results and artifacts of memory, so that a lost
update loses messages of users and nothing of the loop's. `AInv` keeps books of the
calls: those in the conversation (`BooksClosed`) are answered, pending, being executed or
returning, each in one of these (`BooksOpen`), and whatever is there is a call that was
asked for (`BooksMatch`). `Shape` says where the loop keeps its work: when it comes to
`decide` there is none, and all calls are answered. A message that arrives changes none
of it. `FInv`: the files that the log says were created are the artifacts
in memory and those of the results still to be applied.

The assumptions are `PathAssumption` (no path is the absent path),
`RepliesAssumption` (replies are typed) and `BoundsAssumption` (the step limit
and the bounds are naturals, the interval is not 0).

`Session_proofs`, for clients that know of a session once `Create` has returned
(`~Listed`; for others `OneRunner` is false): `SingleRunner`, `StatusIsTrue`,
`ServiceUsesRuntime` (`SessionSpec => RuntimeSpec`) and from it
`SessionKeepsRuntime`: `SingleGoal`, `WriteAhead`, `NoWorkLeft` and
`CheckpointsAdvance` hold in the composition; `SessionKeepsConversation` adds
`NoDanglingCalls`, `ArtifactsAreFiles`, `LoopProgressKept` and `CompletedGoalsKept` under the
two conditions above. `OneRunner` is not inductive: whether a handler may start a run
depends on the status, so the invariant `SInv` ties the status to the goroutines
(`StatusGuards`), these to the handlers that started them (`HandlersDone`), and
says that until `Create` returns nothing else touches the session (`Creating`).
`PromptAssumption` says that prompts are messages.

`Permission_proofs`, for any sessions, clients, calls, initial rules and failures:
`TypeCorrect`, `FirstAnswerDecides`, `OnlyEarnedRules`, `NoForgottenRequest`, and
`AlwaysIsOnce` (until the store fails). `AnswerDecides` speaks of calls
that ended; the invariant says at every place of an executor what it has learned
(`Knows`), that a request has no answer and no holder before it is registered
(`RequestsInOrder`, `HoldersInOrder`), and, for `AskedOnce`, that a call approved
for good has its rule by the time it has run (`Settled`). The assumption
`PermissionAssumption` types the constants and asks for at least one call.

`EventStream_proofs`, for any event types and bounds: `StreamDelivers`, that
`EventStream` implements `Delivery` (`Spec => InOrder`). The invariant `StreamInv`
follows the events from the log to the client: the client has the first ones
(`GotFirst`), the wire goes on where the client is (`WireNext`), the handler where the
wire ends, while somebody may read it (`CursorNext`), and its batch where the handler
is (`BatchNext`). Without the last three nothing says that the next event taken is the
next one of the log. `Pipeline_proofs` shows that every step of a reply is one of
`EventStream` (`PipelineUsesStream`), and so that its events are delivered in order
(`PipelineDelivers`); `PipelineAssumption` says that tokens and replies are event types.
`TextsAreKept` and `CallsAreWhole`: `PipelineSpec => []TextsKept` and `=> []CallsWhole`. The
invariant `LInv` follows what the model sent through the provider's goroutine, its
channel and the dispatcher (`Stages`, `Begun`): the texts and parts that arrived and those on their
way are the pieces sent, each once and in order (`Lists`). Calls are whole
when the goroutine sends them (`SentWhole`), not while openai's pieces are collected.

`Rewind_proofs`, for any sessions, files and bounds: `EditsStayOnRecord` (`Spec =>
[]EditsOnRecord`), `RecordedOnce` (`Spec => []OnRecordOnce`) and `TypeCorrect` (`Spec =>
[]TypeOK`). The first two proofs see the
tracker, the checkpoints being saved and the checkpoints as one function from places
to lists (`Record`); a checkpoint moves a list from one place to another, and the
lemmas `Moved`, `Listed` and `Dropped` say what that does to what is listed where.
The invariant `RecordInv` adds that a listed change has a backup (`ListedBackedUp`) and
that the change a tool call is about to list is nowhere yet (`CallsFresh`), without
which `ApplyRecord` could list one twice. What is in the files does not matter to it.
`TypesInv` adds the types of calls, checkpoints and rewinds in progress: a rewind only
names patches that have a backup, and only rewinds in progress save (`RewindsBusy`). Its
list of rollbacks is a flattened sequence of sequences, whose type would be an induction
over `FlattenSeq`; the lemma `FlattenType` has it from the least prefix that is wrong
instead, which `FlattenSeq`, being a recursive function, allows. The assumption
`EngineBoundsAssumption` has at least one text, the first, which is in the files at start.

`RewindsAreExact`: `Spec => RewindExact`. No variable says what a file held earlier, so
`StoryInv` says that there is a story of the files (`Told`): what they were after each
change of the history, and how many changes there were when each backup was made. In it
a change is of one file, a backup has the file as it was, a patch is written once, after
its own backup and before its session's next (`CallTold`: the loop makes one call at a time), a
checkpoint has the files of its moment, and what its session wrote later it backed up later
(`TakenTold`). `InOrder` says that every list of changes has a session's patches in the
order of their backups. So the first patch that a checkpoint lists of a file is the first
that was written to it after the target, and its backup has the file as the target had it
(`BackupIsOld`); when no other of the checkpoints lists the file it is the last to be
rolled back (`RollbacksLast`), and what is not listed did not change (`Untouched`). That is
`StartExact`: the rollbacks, in their order, make every file what it was
(`RollsBackTo`). `RewindingInv` keeps this for those that are left, as long as no
rollback failed and nothing but the rewind touched a file since it started (`Clean`);
`StillClean` is why that can be said in the middle of a rewind although `RewindExact`
looks back from its end. Both conditions are needed: a rollback overwrites what somebody
else wrote, and takes back no more than what is listed (`Undisturbed`); without
`OneCheckpointPerFile` the run `RewindOrder` finds a counterexample.

`Repl_proofs`, for any tools and bounds: `MessagesKept` (`Spec => []NoMessageLost`),
`LeftBehindAreFew` (`Spec => []FewStale`), `ShowsInOrder` (`Spec => ShownInOrder`) and
`OpenPromptsStay` (`Spec => OpenPromptStays`). A message could vanish in the server if the session it is sent to were none; `RInv` says
which session each command has (`GoodCommand`), and that the sessions being created
have a number left (`RoomLeft`). `EInv` counts the goroutines that wait at a channel or hold
an event, and the streams being started: a stream starts once (`StartsOnce`), there are
no more of them than sessions (`Counted`), and each that is left at a channel shows one
event at most (`TurnedAway`). `ShowsInOrder` has one goroutine while there is one session
(`OneByOne`); with two, the event that one holds may be overtaken. `OpenPromptsStay` has
`PInv`: a session that waits for an answer has logged nothing but messages after its
request (`Asked`), and the prompt is of a request whose event was handled (`PromptShown`).
So the events still to come, in order, leave it alone. It does not hold of a client that
handles events out of order.

Every invariant and action property of the passing runs is proved, under the conditions
named above. Only model-checked is liveness (`CancelStops`, `RunTerminates`, `RestingAttended`, `PromptAttended`, `Decided`,
`Delivered`, `EndsWithSession`, `CallReturns`, `WaitingEnds`, `PromptEnds`), which is beyond the
prover.

## 6. Not modelled

- Rendering (`ui.go`, `View`), configuration parsing, HTTP routing and DTOs, generated
  Swagger documents and SDK, the vendored gin shim: no state that changes.
- The path and command validator, which no handler of the server calls.
- The tools other than `write_file`, `edit_file`, `create_file` and `run_shell`: they
  read, or talk to the network, and keep nothing.
- The runtime's modes, plans and approvals in `types/`: types and events that nothing in
  the server produces.
- In `Runtime`, `Session` and `Rewind`: a reply that makes a provider panic. It ends the
  process; `Pipeline` has what clients see of that.
- `DryRun` and `SaveArtifact`, which have no caller; reading artifacts changes nothing.
- A crash of the server: sessions are never reopened from disk, so that nothing reads
  what a crash leaves, but `permissions.json`, which is written by rename.
- Texts of messages and events, times, token usage, the tools' schemas and logging are
  abstracted.
