------------------------------- MODULE Rewind -------------------------------
(***************************************************************************)
(* Checkpoints and rewinds of the sessions that share one patch engine     *)
(* (pkg/runtime/runtime.go, pkg/store/fs_store.go,                         *)
(* pkg/api/service/session.go, cmd/gm/main.go).                            *)
(*                                                                         *)
(* Of a session's state only the user's messages are kept, as the set of   *)
(* their numbers; how the loop, the messages and the store interleave is   *)
(* in Runtime and Session.  One rewind of a session goes on at a time, and *)
(* its checkpoint exists: for another the request changes nothing.         *)
(***************************************************************************)
EXTENDS PatchEngine, SequencesExt

CONSTANTS
    MaxCheckpoints, \* bound on checkpoints
    MaxMessages,    \* bound on messages
    MaxRewinds,     \* bound on rewinds
    MaxTurns        \* bound on these, the texts and the faults together

ASSUME RewindBoundsAssumption ==
    /\ MaxCheckpoints \in Nat /\ MaxMessages \in Nat
    /\ MaxRewinds \in Nat /\ MaxTurns \in Nat

VARIABLES
    run,         \* "off", "starting" or "on"
    memory,      \* the messages in the runtime's state
    disk,        \* the messages in state.json
    saves,       \* the checkpoint the loop is saving
    checkpoints, \* the checkpoint files of each session, the oldest first
    lost,        \* patch IDs of checkpoints that could not be saved
    rewinds,     \* the rewind of each session
    cut,         \* the messages that a session's rewinds took back
    messages,    \* messages so far
    requests     \* rewinds so far

sessionVars == <<run, memory, disk, saves, checkpoints, lost, messages>>
rewindVars == <<rewinds, cut, requests>>
vars == <<engineVars, sessionVars, rewindVars>>

NoSave == [step |-> "none"]
NoRewind == [step |-> "none"]

Init ==
    /\ EngineInit
    /\ run = [s \in Session |-> "off"]
    /\ memory = [s \in Session |-> {}]
    /\ disk = [s \in Session |-> {}]
    /\ saves = [s \in Session |-> NoSave]
    /\ checkpoints = [s \in Session |-> <<>>]
    /\ lost = {}
    /\ rewinds = [s \in Session |-> NoRewind]
    /\ cut = [s \in Session |-> {}]
    /\ messages = 0
    /\ requests = 0

-----------------------------------------------------------------------------
\* The runtime of a session.

\* The loop is between two steps.
Free(s) == run[s] = "on" /\ tool[s] = NoTool /\ saves[s] = NoSave

\* Ingest, and a run if there is none.  A loop between two steps may as well
\* have returned: it makes no difference before the next message.
Message(s) ==
    /\ messages < MaxMessages
    /\ messages' = messages + 1
    /\ memory' = [memory EXCEPT ![s] = @ \union {messages + 1}]
    /\ disk' = [disk EXCEPT ![s] = memory'[s]]
    /\ \/ run[s] # "off" /\ UNCHANGED run
       \/ /\ run[s] = "off" \/ Free(s)
          /\ run' = [run EXCEPT ![s] = "starting"]
    /\ UNCHANGED <<saves, checkpoints, lost, rewindVars, engineVars>>

Recover(s) ==
    /\ run[s] = "starting"
    /\ run' = [run EXCEPT ![s] = "on"]
    /\ memory' = [memory EXCEPT ![s] = disk[s]]
    /\ UNCHANGED <<disk, saves, checkpoints, lost, messages, rewindVars, engineVars>>

RunTool(s) ==
    /\ \/ Free(s) /\ ToolCall(s)
       \/ ToolStep(s)
       \/ WriteFile(Tool(s))
    /\ UNCHANGED <<sessionVars, rewindVars>>

Started == (UNION {{s} \X DOMAIN checkpoints[s] : s \in Session})
           \union {<<s, 0>> : s \in {r \in Session : saves[r] # NoSave}}

\* What a checkpoint holds, with the files and their history at this moment.
Snapshot(s, patches) ==
    saves' = [saves EXCEPT ![s] = [step |-> "state", state |-> memory[s],
                                   changes |-> patches,
                                   was |-> files, at |-> Len(history)]]

\* Mutant: the tracker hands its changes out and keeps them.
CheckpointTakeKeeps(s) ==
    /\ Free(s)
    /\ Cardinality(Started) < MaxCheckpoints
    /\ Snapshot(s, changes)
    /\ UNCHANGED <<run, memory, disk, checkpoints, lost, messages, rewindVars, engineVars>>

\* The state is cloned and the tracker flushed.  The tracker is everybody's: so
\* are the changes.
CheckpointTake(s) ==
    /\ Free(s)
    /\ Cardinality(Started) < MaxCheckpoints
    /\ Snapshot(s, changes)
    /\ changes' = <<>>
    /\ UNCHANGED <<run, memory, disk, checkpoints, lost, messages, rewindVars,
                   fileVars, fresh, backups, tool, saving, edits, faults>>

CheckpointSaveState(s) ==
    /\ saves[s].step = "state"
    /\ disk' = [disk EXCEPT ![s] = saves[s].state]
    /\ saves' = [saves EXCEPT ![s].step = "file"]
    /\ UNCHANGED <<run, memory, checkpoints, lost, messages, rewindVars, engineVars>>

NotSavingCheckpoint(s) == saves' = [saves EXCEPT ![s] = NoSave]

CheckpointSave(s) ==
    /\ saves[s].step = "file"
    /\ checkpoints' = [checkpoints EXCEPT ![s] = Append(@, saves[s])]
    /\ NotSavingCheckpoint(s)
    /\ UNCHANGED <<run, memory, disk, lost, messages, rewindVars, engineVars>>

\* Either file fails to be saved.
CheckpointFails(s) ==
    /\ saves[s].step \in {"state", "file"}
    /\ Fault
    /\ lost' = lost \union ToSet(saves[s].changes)
    /\ NotSavingCheckpoint(s)
    /\ UNCHANGED <<run, memory, disk, checkpoints, messages, rewindVars,
                   fileVars, fresh, backups, changes, tool, saving, edits>>

Loop(s) ==
    \/ Recover(s) \/ RunTool(s)
    \/ CheckpointTake(s) \/ CheckpointSaveState(s)
    \/ CheckpointSave(s) \/ CheckpointFails(s)

-----------------------------------------------------------------------------
\* Rewind.

Rewinder(s) == <<"rewind", s>>

Later(s, target) == (target + 1)..Len(checkpoints[s])

\* Mutant: the changes of a checkpoint are taken back in the order they were made.
RollbacksInOrder(s, target) ==
    FlattenSeq([i \in 1..(Len(checkpoints[s]) - target) |->
                    checkpoints[s][target + i].changes])

\* The changes are collected from the newest checkpoint to the target, and
\* taken back from the last to the first.
Rollbacks(s, target) ==
    FlattenSeq([i \in 1..(Len(checkpoints[s]) - target) |->
                    Reverse(checkpoints[s][target + i].changes)])

RewindStart(s) ==
    /\ rewinds[s].step = "none"
    /\ requests < MaxRewinds
    /\ requests' = requests + 1
    /\ \E target \in 1..Len(checkpoints[s]), code, conversation \in BOOLEAN :
        /\ code \/ conversation
        /\ rewinds' = [rewinds EXCEPT ![s] =
               [step |-> "code", target |-> target, code |-> code,
                conversation |-> conversation,
                todo |-> IF code THEN Rollbacks(s, target) ELSE <<>>,
                later |-> IF code THEN Later(s, target) ELSE {},
                from |-> Len(history), failed |-> FALSE]]
    /\ UNCHANGED <<sessionVars, cut, engineVars>>

Todo(s) == rewinds[s].step = "code" /\ rewinds[s].todo # <<>>

Done(s, failed) ==
    rewinds' = [rewinds EXCEPT ![s].todo = Tail(@), ![s].failed = @ \/ failed]

\* Rollback finds the backup and, in its metadata, the file.
Rollback(s) ==
    LET backup == backups[Head(rewinds[s].todo)] IN
    /\ Todo(s)
    /\ saving[Rewinder(s)] = NotSaving
    /\ IF backup.meta
         THEN /\ StartSaving(Rewinder(s), backup.file, backup.content)
              /\ UNCHANGED rewinds
         ELSE /\ Done(s, TRUE)
              /\ UNCHANGED saving
    /\ UNCHANGED <<sessionVars, cut, requests, fileVars, fresh, backups, changes,
                   tool, edits, faults>>

RollbackSaves(s) ==
    /\ WriteFile(Rewinder(s))
    /\ UNCHANGED <<sessionVars, rewindVars>>

RollbackReturns(s) ==
    /\ saving[Rewinder(s)].step \in {"saved", "failed"}
    /\ Done(s, saving[Rewinder(s)].step = "failed")
    /\ saving' = [saving EXCEPT ![Rewinder(s)] = NotSaving]
    /\ UNCHANGED <<sessionVars, cut, requests, fileVars, fresh, backups, changes,
                   tool, edits, faults>>

\* Every rollback was tried.
Tried(s) == rewinds[s].step = "code" /\ rewinds[s].todo = <<>>

RewindOver(s) == rewinds' = [rewinds EXCEPT ![s] = NoRewind]

\* A rollback failed: so does the rewind, and the conversation stays.
RewindCodeFails(s) ==
    /\ Tried(s) /\ rewinds[s].failed
    /\ RewindOver(s)
    /\ UNCHANGED <<sessionVars, cut, requests, engineVars>>

\* The client is told that it succeeded.
RewindCode(s) ==
    /\ Tried(s) /\ ~rewinds[s].failed /\ ~rewinds[s].conversation
    /\ RewindOver(s)
    /\ UNCHANGED <<sessionVars, cut, requests, engineVars>>

\* So it is when the checkpoint's state is saved too, to state.json and nowhere
\* else.
RewindConversation(s) ==
    LET state == checkpoints[s][rewinds[s].target].state IN
    /\ Tried(s) /\ ~rewinds[s].failed /\ rewinds[s].conversation
    /\ disk' = [disk EXCEPT ![s] = state]
    /\ cut' = [cut EXCEPT ![s] = @ \union (memory[s] \ state)]
    /\ RewindOver(s)
    /\ UNCHANGED <<run, memory, saves, checkpoints, lost, messages, requests, engineVars>>

RewindConversationFails(s) ==
    /\ Tried(s) /\ ~rewinds[s].failed /\ rewinds[s].conversation
    /\ Fault
    /\ RewindOver(s)
    /\ UNCHANGED <<sessionVars, cut, requests, fileVars, fresh, backups, changes,
                   tool, saving, edits>>

RewindSucceeds(s) == RewindCode(s) \/ RewindConversation(s)

RewindStep(s) ==
    \/ RewindStart(s)
    \/ Rollback(s) \/ RollbackSaves(s) \/ RollbackReturns(s)
    \/ RewindCodeFails(s) \/ RewindSucceeds(s) \/ RewindConversationFails(s)

-----------------------------------------------------------------------------
\* All that is bounded, but patches.
Turns == messages + Cardinality(Started) + requests + fresh + faults

Next ==
    /\ \/ \E f \in File : Outside(f) /\ UNCHANGED <<sessionVars, rewindVars>>
       \/ \E s \in Session : Message(s) \/ Loop(s) \/ RewindStep(s)
    /\ Turns' <= MaxTurns

Spec == Init /\ [][Next]_vars

-----------------------------------------------------------------------------
\* Properties.

Contents == 0..(2 * MaxContent)
Patches == 1..MaxPatches

CheckpointType ==
    [step : {"file"}, state : SUBSET (1..MaxMessages), changes : Seq(Patches),
     was : [File -> Contents], at : Nat]

\* Every variable holds a value of its type, and every patch that is on record
\* has a backup.
TypeOK ==
    /\ files \in [File -> Contents]
    /\ \A f \in File : temp[f] \subseteq Contents /\ Cardinality(temp[f]) <= 1
    /\ fresh \in 0..MaxContent
    /\ backups \in Seq([file : File, content : Contents, meta : BOOLEAN, by : Session])
    /\ changes \in Seq(1..Len(backups))
    /\ edits \subseteq 1..Len(backups)
    /\ run \in [Session -> {"off", "starting", "on"}]
    /\ \A s \in Session :
        /\ memory[s] \subseteq 1..messages /\ disk[s] \subseteq 1..messages
        /\ checkpoints[s] \in Seq(CheckpointType)

\* The changes a checkpoint in the making has taken from the tracker.
InFlight(s) == IF saves[s].step \in {"state", "file"} THEN saves[s].changes ELSE <<>>

\* Where the tracker, the checkpoints in the making and the checkpoints list
\* patch p.
Homes(p) ==
    {<<"tracker", i>> : i \in {j \in DOMAIN changes : changes[j] = p}}
    \union (UNION {{<<s, 0, i>> : i \in {j \in DOMAIN InFlight(s) : InFlight(s)[j] = p}}
                     : s \in Session})
    \union (UNION {UNION {{<<s, k, i>> : i \in
                           {j \in DOMAIN checkpoints[s][k].changes :
                                   checkpoints[s][k].changes[j] = p}}
                     : k \in DOMAIN checkpoints[s]} : s \in Session})

\* A change is on record once, however many sessions use the tracker and
\* checkpoint at the same time: no rewind meets it twice.
OnRecordOnce == \A p \in 1..Len(backups) : Cardinality(Homes(p)) <= 1

\* An edit that edit_file reported as successful changed the file and stays on
\* record, unless the checkpoint that took it from the tracker was not saved.
EditsOnRecord ==
    \A p \in edits : p \in lost \/ Homes(p) # {}

\* What happened to the files since the rewind's target: what its checkpoints
\* list, all of it after the target, and the rollbacks.
Undisturbed(s) ==
    LET cp == checkpoints[s][rewinds[s].target]
        before == {history[i] : i \in (cp.at + 1)..rewinds[s].from}
        after == {history[i] : i \in (rewinds[s].from + 1)..Len(history)}
        listed == UNION {ToSet(checkpoints[s][k].changes) : k \in rewinds[s].later}
    IN /\ {h.patch : h \in before} = listed
       /\ \A p \in listed : backups[p].by = s
       /\ \A h \in after : h.rewind = {s}

FilesOf(s, k) == {backups[p].file : p \in ToSet(checkpoints[s][k].changes)}

OneCheckpointPerFile(s) ==
    \A j, k \in rewinds[s].later : j # k => FilesOf(s, j) \intersect FilesOf(s, k) = {}

Rewound(s) == files = checkpoints[s][rewinds[s].target].was

\* A code rewind answers success with the files as they were at the checkpoint,
\* when only the session's own recorded patches changed them since and none
\* changed a file of an earlier of those checkpoints.
RewindExact ==
    [][\A s \in Session :
            RewindSucceeds(s) /\ rewinds[s].code /\ Undisturbed(s) /\ OneCheckpointPerFile(s)
                => Rewound(s)]_vars

\* The same without the last condition, for changes reverted in the order that
\* the comment in the service's Rewind asks for.
RewindOrder ==
    [][\A s \in Session :
            RewindSucceeds(s) /\ rewinds[s].code /\ Undisturbed(s) => Rewound(s)]_vars

\* A run does not start with messages that a rewind took back.
RewoundStays ==
    [][\A s \in Session : Recover(s) => memory'[s] \intersect cut[s] = {}]_vars

=============================================================================
