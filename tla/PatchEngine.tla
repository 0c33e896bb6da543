---------------------------- MODULE PatchEngine ----------------------------
(***************************************************************************)
(* The patch engine (pkg/patch) and the tools that write files through it  *)
(* (pkg/agent/tools/file_editing.go).  The server has one engine and one   *)
(* change tracker for all sessions (cmd/gm/main.go).                       *)
(*                                                                         *)
(* A content is a number: 0 for a file that is empty or missing, and a     *)
(* fresh number for every text somebody comes up with, and another for     *)
(* what a diff makes of a text it was not made from.  A patch ID is the    *)
(* position of its backup.  The work directory is the one the server was   *)
(* started in, where the tools and the engine find the same files; paths   *)
(* outside of it and binary files are turned down before anything is       *)
(* written and left out here.                                              *)
(*                                                                         *)
(* A file is written by way of f.tmp, which all writers of f share: the    *)
(* tool calls of several sessions, and the rewinds of Rewind.              *)
(***************************************************************************)
EXTENDS Naturals, Sequences

CONSTANTS
    Session,
    File,
    MaxContent, \* bound on the texts, and calls, anybody comes up with; the first is there
    MaxPatches, \* bound on backups
    MaxFaults   \* bound on file operations that fail

ASSUME EngineBoundsAssumption ==
    MaxContent \in Nat \ {0} /\ MaxPatches \in Nat /\ MaxFaults \in Nat

Writer == {"tool", "rewind"} \X Session
Tool(s) == <<"tool", s>>

VARIABLES
    files,   \* content of each file
    temp,    \* content of f.tmp, as a set of at most one
    fresh,   \* the last text used
    backups, \* the backups, with whether their metadata was written, and whose call made them
    changes, \* the tracker's patch IDs
    tool,    \* the write_file or edit_file call of each session
    saving,  \* the writeFile call of each writer
    edits,   \* the patch IDs edit_file reported as successful
    history, \* every change of a file, with the patch or the rewind that made it
    faults

fileVars == <<files, temp, history>>
engineVars == <<fileVars, fresh, backups, changes, tool, saving, edits, faults>>

NoTool == [step |-> "none"]
NotSaving == [step |-> "none"]

EngineInit ==
    /\ files \in [File -> {0, 1}]
    /\ temp = [f \in File |-> {}]
    /\ fresh = 1
    /\ backups = <<>>
    /\ changes = <<>>
    /\ tool = [s \in Session |-> NoTool]
    /\ saving = [w \in Writer |-> NotSaving]
    /\ edits = {}
    /\ history = <<>>
    /\ faults = 0

Fault ==
    /\ faults < MaxFaults
    /\ faults' = faults + 1

\* A patch wrote the file, or a rewind did, or, with neither, something else.
Change(file, patch, rewind) == [file |-> file, patch |-> patch, rewind |-> rewind]

\* Somebody else writes or removes a file: the user, run_shell, create_file.
Outside(f) ==
    /\ fresh < MaxContent
    /\ fresh' = fresh + 1
    /\ \E content \in {0, fresh + 1} : files' = [files EXCEPT ![f] = content]
    /\ history' = Append(history, Change(f, 0, {}))
    /\ UNCHANGED <<temp, backups, changes, tool, saving, edits, faults>>

-----------------------------------------------------------------------------
\* writeFile: to f.tmp, then over f.

StartSaving(w, file, content) ==
    saving' = [saving EXCEPT ![w] =
                  [step |-> "temp", file |-> file, content |-> content]]

SavingStep(w, step) == saving' = [saving EXCEPT ![w].step = step]

SaveTemp(w) ==
    /\ saving[w].step = "temp"
    /\ temp' = [temp EXCEPT ![saving[w].file] = {saving[w].content}]
    /\ SavingStep(w, "rename")
    /\ UNCHANGED <<files, history, fresh, backups, changes, tool, edits, faults>>

\* The write fails, perhaps with f.tmp truncated and left there.
SaveTempFails(w) ==
    /\ saving[w].step = "temp"
    /\ Fault
    /\ \E left \in {temp[saving[w].file], {0}} :
           temp' = [temp EXCEPT ![saving[w].file] = left]
    /\ SavingStep(w, "failed")
    /\ UNCHANGED <<files, history, fresh, backups, changes, tool, edits>>

\* What f.tmp holds may be another writer's.
SaveRename(w) ==
    LET f == saving[w].file IN
    /\ saving[w].step = "rename"
    /\ \E content \in temp[f] :
        /\ files' = [files EXCEPT ![f] = content]
        /\ history' = Append(history,
               IF content # saving[w].content THEN Change(f, 0, {})
               ELSE IF w[1] = "tool" THEN Change(f, tool[w[2]].patch, {})
               ELSE Change(f, 0, {w[2]}))
    /\ temp' = [temp EXCEPT ![f] = {}]
    /\ SavingStep(w, "saved")
    /\ UNCHANGED <<fresh, backups, changes, tool, edits, faults>>

\* Another writer renamed f.tmp first.
SaveRenameFails(w) ==
    /\ saving[w].step = "rename"
    /\ temp[saving[w].file] = {}
    /\ SavingStep(w, "remove")
    /\ UNCHANGED <<fileVars, fresh, backups, changes, tool, edits, faults>>

SaveRemove(w) ==
    /\ saving[w].step = "remove"
    /\ temp' = [temp EXCEPT ![saving[w].file] = {}]
    /\ SavingStep(w, "failed")
    /\ UNCHANGED <<files, history, fresh, backups, changes, tool, edits, faults>>

WriteFile(w) ==
    SaveTemp(w) \/ SaveTempFails(w) \/ SaveRename(w) \/ SaveRenameFails(w) \/ SaveRemove(w)

-----------------------------------------------------------------------------
\* write_file and edit_file.

ToolReturns(s) == tool' = [tool EXCEPT ![s] = NoTool]

\* The file is read and the new content made from it or given.  edit_file
\* fails without the file or a difference.
ToolRead(s) ==
    /\ tool[s].step = "none"
    /\ fresh < MaxContent
    /\ fresh' = fresh + 1
    /\ \E kind \in {"write", "edit"}, f \in File :
        tool' = [tool EXCEPT ![s] =
            [step |-> IF files[f] = 0 /\ kind = "write" THEN "create" ELSE "apply",
             kind |-> kind, file |-> f,
             old |-> files[f], new |-> fresh + 1, patch |-> 0]]
    /\ UNCHANGED <<fileVars, backups, changes, saving, edits, faults>>

\* A write_file without a difference goes to the file, past the engine.
ToolReadSame(s) ==
    /\ tool[s].step = "none"
    /\ fresh < MaxContent
    /\ fresh' = fresh + 1
    /\ \E f \in {g \in File : files[g] # 0} :
        tool' = [tool EXCEPT ![s] =
            [step |-> "create", kind |-> "write", file |-> f,
             old |-> files[f], new |-> files[f], patch |-> 0]]
    /\ UNCHANGED <<fileVars, backups, changes, saving, edits, faults>>

ToolCreate(s) ==
    /\ tool[s].step = "create"
    /\ files' = [files EXCEPT ![tool[s].file] = tool[s].new]
    /\ history' = Append(history, Change(tool[s].file, 0, {}))
    /\ ToolReturns(s)
    /\ UNCHANGED <<temp, fresh, backups, changes, saving, edits, faults>>

\* Apply backs up what it reads, which the file may have become since.
Backup(s, meta) ==
    backups' = Append(backups, [file |-> tool[s].file,
                                content |-> files[tool[s].file], meta |-> meta,
                                by |-> s])

\* The metadata could not be written: a warning and no more.
BackupMade(s) ==
    /\ Len(backups) < MaxPatches
    /\ \/ Backup(s, TRUE) /\ UNCHANGED faults
       \/ Backup(s, FALSE) /\ Fault

\* Mutant: a failed backup is a warning too.
ApplyNoBackupWarns(s) ==
    /\ tool[s].step = "apply"
    /\ Fault
    /\ tool' = [tool EXCEPT ![s].step = "saving", ![s].patch = Len(backups) + 1]
    /\ StartSaving(Tool(s), tool[s].file, tool[s].new)
    /\ UNCHANGED <<fileVars, fresh, backups, changes, edits>>

\* The backup, and so the call, fails.
ApplyNoBackup(s) ==
    /\ tool[s].step = "apply"
    /\ Fault
    /\ ToolReturns(s)
    /\ UNCHANGED <<fileVars, fresh, backups, changes, saving, edits>>

\* The diff fits the content that it was made from.  It may still fit another:
\* then the result is neither's.
Patched(s) ==
    IF files[tool[s].file] = tool[s].old THEN tool[s].new ELSE MaxContent + tool[s].new

ApplyPatch(s) ==
    /\ tool[s].step = "apply"
    /\ BackupMade(s)
    /\ tool' = [tool EXCEPT ![s].step = "saving", ![s].patch = Len(backups) + 1]
    /\ StartSaving(Tool(s), tool[s].file, Patched(s))
    /\ UNCHANGED <<fileVars, fresh, changes, edits>>

\* Mutant: edit_file does not look at the result either.
ApplyMisfitsUnseen(s) ==
    /\ tool[s].step = "apply"
    /\ files[tool[s].file] # tool[s].old
    /\ BackupMade(s)
    /\ ToolReturns(s)
    /\ edits' = IF tool[s].kind = "edit" THEN edits \union {Len(backups) + 1} ELSE edits
    /\ UNCHANGED <<fileVars, fresh, changes, saving>>

\* A hunk does not fit: nothing is written.  Apply returns no error, and of
\* its callers only edit_file looks at the result.
ApplyMisfits(s) ==
    /\ tool[s].step = "apply"
    /\ files[tool[s].file] # tool[s].old
    /\ BackupMade(s)
    /\ ToolReturns(s)
    /\ UNCHANGED <<fileVars, fresh, changes, saving, edits>>

\* The change is recorded, and the call reports it.
ApplyRecord(s) ==
    /\ tool[s].step = "saving"
    /\ saving[Tool(s)].step = "saved"
    /\ changes' = Append(changes, tool[s].patch)
    /\ edits' = IF tool[s].kind = "edit" THEN edits \union {tool[s].patch} ELSE edits
    /\ saving' = [saving EXCEPT ![Tool(s)] = NotSaving]
    /\ ToolReturns(s)
    /\ UNCHANGED <<fileVars, fresh, backups, faults>>

ApplyFailed(s) ==
    /\ tool[s].step = "saving"
    /\ saving[Tool(s)].step = "failed"
    /\ saving' = [saving EXCEPT ![Tool(s)] = NotSaving]
    /\ ToolReturns(s)
    /\ UNCHANGED <<fileVars, fresh, backups, changes, edits, faults>>

\* A call begins only when the session's loop makes it; then it goes on.
ToolCall(s) == ToolRead(s) \/ ToolReadSame(s)

ToolStep(s) ==
    \/ ToolCreate(s)
    \/ ApplyNoBackup(s) \/ ApplyPatch(s) \/ ApplyMisfits(s)
    \/ ApplyRecord(s) \/ ApplyFailed(s)

=============================================================================
