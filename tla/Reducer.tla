------------------------------ MODULE Reducer ------------------------------
(***************************************************************************)
(* The pure core of the agent: how one event changes the conversation      *)
(* state, and which tool commands it asks for (pkg/runtime/reducer.go,     *)
(* with the state it reduces, pkg/types/state.go).                         *)
(*                                                                         *)
(* Data is abstract.  A user message is the element of User that was       *)
(* sent; a reply is told apart only by whether it has text and by its tool *)
(* calls; arguments of a call only by the "path" they carry.  `saw' is an  *)
(* observation, not data of the program: the user messages that were in    *)
(* the request a reply answers.                                            *)
(***************************************************************************)
EXTENDS Integers, Sequences, SequencesExt

CONSTANTS User,     \* the messages users may send
          Path,     \* values of the "path" argument of a tool call
          NoPath    \* arguments without one: {}, or JSON that does not parse

ASSUME PathAssumption == NoPath \notin Path

-----------------------------------------------------------------------------
\* Data.

GoalStatus == {"pending", "in_progress", "completed", "failed", "cancelled"}
Goal == [user : User, status : GoalStatus]

Tool == {"task_complete", "create_file", "other"}

\* Id 0 is the empty string, the id of every call a Gemini reply carries.
Call == [id : Nat, tool : Tool, path : Path \cup {NoPath}]

Message == [role : {"user"}, user : User]
             \cup [role : {"assistant"}, calls : Seq(Call), saw : SUBSET User]
             \cup [role : {"tool"}, id : Nat, ok : BOOLEAN]

State == [version : Nat, prompt : BOOLEAN, goals : Seq(Goal),
          msgs : Seq(Message), arts : Seq(Path)]

NewState == [version |-> 0, prompt |-> FALSE, goals |-> <<>>,
             msgs |-> <<>>, arts |-> <<>>]

UserMessage(u) == [type |-> "user_request", user |-> u]
SystemPrompt == [type |-> "system_prompt"]
LLMToken == [type |-> "llm_token"]
LLMResponse(text, calls, saw) ==
    [type |-> "llm_response", text |-> text, calls |-> calls, saw |-> saw]

\* `path' observes which path the tool was run with.
ToolResult(call, ok) == [type |-> "tool_result", id |-> call.id,
                         tool |-> call.tool, ok |-> ok, path |-> call.path]
ErrorEvent == [type |-> "error"]

Event == [type : {"user_request"}, user : User]
           \cup [type : {"system_prompt", "llm_token", "error"}]
           \cup [type : {"llm_response"}, text : BOOLEAN, calls : Seq(Call),
                 saw : SUBSET User]
           \cup [type : {"tool_result"}, id : Nat, tool : Tool, ok : BOOLEAN,
                 path : Path \cup {NoPath}]

CallTool(call) == [kind |-> "call_tool", call |-> call]
CallLLM(saw) == [kind |-> "call_llm", saw |-> saw]
Command == [kind : {"call_tool"}, call : Call]
             \cup [kind : {"call_llm"}, saw : SUBSET User]

-----------------------------------------------------------------------------
\* Goals.

Active(g) == g.status \in {"pending", "in_progress"}

HasActiveGoal(goals) == \E i \in DOMAIN goals : Active(goals[i])

IsFirstActive(goals, i) ==
    Active(goals[i]) /\ \A j \in DOMAIN goals : j < i => ~Active(goals[j])

CompleteActiveGoal(goals) ==
    [i \in DOMAIN goals |-> IF IsFirstActive(goals, i)
                            THEN [goals[i] EXCEPT !.status = "completed"]
                            ELSE goals[i]]

\* A reply with text and no tool call answers the user directly; a
\* successful task_complete ends the goal the model worked on.
CompletesGoal(e) ==
    \/ e.type = "llm_response" /\ e.text /\ e.calls = <<>>
    \/ e.type = "tool_result" /\ e.tool = "task_complete" /\ e.ok

\* Mutant: a goal per message.
GoalsAfterEach(goals, e) ==
    CASE e.type = "user_request" ->
            Append(goals, [user |-> e.user, status |-> "pending"])
      [] CompletesGoal(e) -> CompleteActiveGoal(goals)
      [] OTHER -> goals

GoalsAfter(goals, e) ==
    CASE e.type = "user_request" /\ ~HasActiveGoal(goals) ->
            Append(goals, [user |-> e.user, status |-> "pending"])
      [] CompletesGoal(e) -> CompleteActiveGoal(goals)
      [] OTHER -> goals

-----------------------------------------------------------------------------
\* Messages, artifacts, commands.

\* The messages an event adds to the context: one, or none.
MessagesOf(e) ==
    CASE e.type = "user_request" -> <<[role |-> "user", user |-> e.user]>>
      [] e.type = "llm_response" ->
            <<[role |-> "assistant", calls |-> e.calls, saw |-> e.saw]>>
      [] e.type = "tool_result" ->
            <<[role |-> "tool", id |-> e.id, ok |-> e.ok]>>
      [] OTHER -> <<>>

HasCall(m, id) ==
    m.role = "assistant" /\ \E k \in DOMAIN m.calls : m.calls[k].id = id

\* The call a tool result is attributed to: the first call with the result's
\* id in the latest assistant message that has one.
PathOfCall(msgs, id) ==
    LET i == SelectLastInSeq(msgs, LAMBDA m : HasCall(m, id))
    IN  IF i = 0 THEN NoPath
        ELSE msgs[i].calls[SelectInSeq(msgs[i].calls, LAMBDA c : c.id = id)].path

\* Mutant: the success of the tool is not checked.
ArtifactsOfAny(msgs, e) ==
    IF e.type = "tool_result" /\ e.tool = "create_file"
         /\ PathOfCall(msgs, e.id) \in Path
    THEN <<PathOfCall(msgs, e.id)>>
    ELSE <<>>

\* A file that create_file made is registered under the path of that call.
ArtifactsOf(msgs, e) ==
    IF e.type = "tool_result" /\ e.tool = "create_file" /\ e.ok
         /\ PathOfCall(msgs, e.id) \in Path
    THEN <<PathOfCall(msgs, e.id)>>
    ELSE <<>>

CommandsOf(e) ==
    IF e.type = "llm_response"
    THEN [k \in DOMAIN e.calls |-> CallTool(e.calls[k])]
    ELSE <<>>

-----------------------------------------------------------------------------
\* reducer(state, event), without the commands.

Reduce(s, e) ==
    LET msgs == s.msgs \o MessagesOf(e)
    IN  [version |-> s.version + 1,
         prompt  |-> s.prompt \/ e.type = "system_prompt",
         goals   |-> GoalsAfter(s.goals, e),
         msgs    |-> msgs,
         arts    |-> s.arts \o ArtifactsOf(msgs, e)]

\* Goals are worked on one at a time: all but the newest are completed.
OneActiveGoal(goals) ==
    \A i \in DOMAIN goals : Active(goals[i]) => i = Len(goals)

UsersIn(msgs) == {u \in User : \E i \in DOMAIN msgs :
                                  msgs[i].role = "user" /\ msgs[i].user = u}

=============================================================================
