----------------------------- MODULE Permission -----------------------------
(***************************************************************************)
(* Tool calls that need the user's approval: the executor and its policy   *)
(* (pkg/tool), the permission callback (cmd/gm/main.go), the manager of    *)
(* pending requests (pkg/runtime/permission) and the clients that answer.  *)
(*                                                                         *)
(* A session executes its calls one by one; the sessions and the clients   *)
(* run concurrently and share the permission rules.  A call is an element  *)
(* of Call: a tool with normalized arguments.  The id of a request is the  *)
(* session with the number of the call, though the code draws it only when *)
(* it asks.                                                                *)
(***************************************************************************)
EXTENDS Naturals, Sequences, SequencesExt

CONSTANTS Session, Call, Client,
          Refused,      \* calls the mode, the whitelist, the categories or the
                        \* registry rule out
          AutoApprove,  \* config.AutoApprove
          InitialRules, \* permissions.json at start
          MaxCalls,     \* bound: calls per session
          MaxFaults     \* bound: failed store operations

Action == {"allow", "deny"}
Rule == [call : Call, action : Action]

ASSUME PermissionAssumption ==
    /\ Call # {} /\ Refused \subseteq Call
    /\ AutoApprove \in BOOLEAN
    /\ InitialRules \in Seq(Rule)
    /\ MaxCalls \in Nat /\ MaxFaults \in Nat

Id == Session \X (1..MaxCalls)
Response == [approved : BOOLEAN, always : BOOLEAN]

\* An empty channel, and the outcome of a wait that failed.
Nothing == [kind |-> "nothing"]
Failed == [kind |-> "failed"]

VARIABLES
    pc,         \* where the executor of each session is
    n,          \* the number of its current call
    call,       \* id -> the call
    visible,    \* requests in the event log, where clients see them
    pending,    \* requests in the manager's map
    chan,       \* id -> the content of its channel
    got,        \* what the wait of each session returned
    rules,      \* permissions.json
    done,       \* id -> how the call ended
    holding,    \* client -> the answer it is about to send, with the channel
    answers,    \* id -> the answers acknowledged to clients, in order
    turnedDown, \* requests an answer to which was refused as unknown
    faults      \* store operations that failed

execVars == <<pc, n, call, got, done>>
managerVars == <<pending, chan>>
clientVars == <<holding, answers, turnedDown>>
vars == <<pc, n, call, visible, pending, chan, got, rules, done, holding, answers,
          turnedDown, faults>>

Init ==
    /\ pc = [s \in Session |-> "idle"]
    /\ n = [s \in Session |-> 0]
    /\ call \in [Id -> {CHOOSE c \in Call : TRUE}]
    /\ visible = {}
    /\ pending = {}
    /\ chan = [id \in Id |-> Nothing]
    /\ got = [s \in Session |-> Nothing]
    /\ rules = InitialRules
    /\ done = [id \in Id |-> "open"]
    /\ holding = [k \in Client |-> Nothing]
    /\ answers = [id \in Id |-> <<>>]
    /\ turnedDown = {}
    /\ faults = 0

Fault == faults < MaxFaults /\ faults' = faults + 1

Current(s) == <<s, n[s]>>
Goto(s, place) == pc' = [pc EXCEPT ![s] = place]

-----------------------------------------------------------------------------
\* Policy.Check.

\* What the first rule for the call says: one action, or none.
RuleFor(c) ==
    {rules[i].action : i \in {i \in DOMAIN rules :
        rules[i].call = c /\ \A j \in 1..(i - 1) : rules[j].call # c}}

Ruled(c) == \E i \in DOMAIN rules : rules[i].call = c

Unruled == IF AutoApprove THEN "allow" ELSE "confirm"

\* Mutant of Verdict: the rules as they were at start.
VerdictCached(c) ==
    LET first == SelectInSeq(InitialRules, LAMBDA r : r.call = c)
    IN  IF c \in Refused THEN {"deny"}
        ELSE {IF first = 0 THEN Unruled ELSE InitialRules[first].action}

Verdict(c) ==
    IF c \in Refused THEN {"deny"}
    ELSE IF Ruled(c) THEN RuleFor(c)
    ELSE {Unruled}

-----------------------------------------------------------------------------
\* Executor.Execute with the permission callback.

Execute(s, c) ==
    /\ pc[s] = "idle"
    /\ n[s] < MaxCalls
    /\ n' = [n EXCEPT ![s] = @ + 1]
    /\ call' = [call EXCEPT ![<<s, n[s] + 1>>] = c]
    /\ Goto(s, "check")
    /\ UNCHANGED <<got, done, visible, managerVars, rules, clientVars, faults>>

\* The call ends without its tool having run, or with.
End(s, outcome) ==
    /\ done' = [done EXCEPT ![Current(s)] = outcome]
    /\ Goto(s, "idle")

\* A rules file that cannot be read is as good as none.
Check(s) ==
    /\ pc[s] = "check"
    /\ \E v \in Verdict(call[Current(s)]) \cup {Unruled} :
          /\ \/ v \in Verdict(call[Current(s)]) /\ UNCHANGED faults
             \/ call[Current(s)] \notin Refused /\ v = Unruled /\ Fault
          /\ \/ v = "deny" /\ End(s, "failed")
             \/ v = "allow" /\ Goto(s, "run") /\ UNCHANGED done
             \/ v = "confirm" /\ Goto(s, "emit") /\ UNCHANGED done
    /\ UNCHANGED <<n, call, got, visible, managerVars, rules, clientVars>>

\* The request becomes visible before it is registered.
Emit(s) ==
    /\ pc[s] = "emit"
    /\ \/ visible' = visible \cup {Current(s)} /\ UNCHANGED faults
       \/ Fault /\ UNCHANGED visible
    /\ Goto(s, "register")
    /\ UNCHANGED <<n, call, got, done, managerVars, rules, clientVars>>

Register(s) ==
    /\ pc[s] = "register"
    /\ pending' = pending \cup {Current(s)}
    /\ Goto(s, "wait")
    /\ UNCHANGED <<n, call, got, done, visible, chan, rules, clientVars, faults>>

-----------------------------------------------------------------------------
\* WaitForResponse: which of several ready cases a select takes is open.  The
\* entry is deleted when it returns, a step later.

\* Mutant of WaitTake: a default case, so that the wait returns at once with
\* what is there, if only the response of a channel that is empty.
WaitTakeDefault(s) ==
    /\ pc[s] = "wait"
    /\ got' = [got EXCEPT ![s] = chan[Current(s)]]
    /\ chan' = [chan EXCEPT ![Current(s)] = Nothing]
    /\ Goto(s, "delete")
    /\ UNCHANGED <<n, call, done, visible, pending, rules, clientVars, faults>>

WaitTake(s) ==
    /\ pc[s] = "wait"
    /\ chan[Current(s)] # Nothing
    /\ got' = [got EXCEPT ![s] = chan[Current(s)]]
    /\ chan' = [chan EXCEPT ![Current(s)] = Nothing]
    /\ Goto(s, "delete")
    /\ UNCHANGED <<n, call, done, visible, pending, rules, clientVars, faults>>

\* After the timeout, or when the session's context is cancelled.
WaitFails(s) ==
    /\ pc[s] = "wait"
    /\ got' = [got EXCEPT ![s] = Failed]
    /\ Goto(s, "delete")
    /\ UNCHANGED <<n, call, done, visible, managerVars, rules, clientVars, faults>>

\* Mutant of Return: a failed wait leaves its request in the map.
ReturnUndeleted(s) ==
    /\ pc[s] = "delete"
    /\ pending' = IF got[s] = Failed THEN pending ELSE pending \ {Current(s)}
    /\ got' = [got EXCEPT ![s] = Nothing]
    /\ \/ got[s] = Failed /\ End(s, "failed")
       \/ got[s] # Failed /\ ~got[s].approved /\ End(s, "denied")
       \/ got[s] # Failed /\ got[s].approved /\ Goto(s, "run") /\ UNCHANGED done
    /\ UNCHANGED <<n, call, visible, chan, rules, clientVars, faults>>

\* Mutant of Return: a failed wait is tried again.
ReturnRetries(s) ==
    /\ pc[s] = "delete"
    /\ pending' = IF got[s] = Failed THEN pending ELSE pending \ {Current(s)}
    /\ got' = [got EXCEPT ![s] = Nothing]
    /\ \/ got[s] = Failed /\ Goto(s, "wait") /\ UNCHANGED done
       \/ got[s] # Failed /\ ~got[s].approved /\ End(s, "denied")
       \/ got[s] # Failed /\ got[s].approved /\ Goto(s, "run") /\ UNCHANGED done
    /\ UNCHANGED <<n, call, visible, chan, rules, clientVars, faults>>

\* Mutant of Return: "always" makes a rule, whatever was answered.
ReturnAlways(s) ==
    /\ pc[s] = "delete"
    /\ pending' = pending \ {Current(s)}
    /\ got' = [got EXCEPT ![s] = Nothing]
    /\ \/ got[s] = Failed /\ End(s, "failed")
       \/ got[s] # Failed /\ got[s].always /\ Goto(s, "rule") /\ UNCHANGED done
       \/ got[s] # Failed /\ ~got[s].always /\ ~got[s].approved /\ End(s, "denied")
       \/ got[s] # Failed /\ ~got[s].always /\ got[s].approved
            /\ Goto(s, "run") /\ UNCHANGED done
    /\ UNCHANGED <<n, call, visible, chan, rules, clientVars, faults>>

\* The wait returns, and the callback goes on with its result.
Return(s) ==
    /\ pc[s] = "delete"
    /\ pending' = pending \ {Current(s)}
    /\ got' = [got EXCEPT ![s] = Nothing]
    /\ \/ got[s] = Failed /\ End(s, "failed")
       \/ got[s] # Failed /\ ~got[s].approved /\ End(s, "denied")
       \/ got[s] # Failed /\ got[s].approved /\ got[s].always
            /\ Goto(s, "rule") /\ UNCHANGED done
       \/ got[s] # Failed /\ got[s].approved /\ ~got[s].always
            /\ Goto(s, "run") /\ UNCHANGED done
    /\ UNCHANGED <<n, call, visible, chan, rules, clientVars, faults>>

\* AddPermissionRule: equal rules are kept once; a failure is only logged.
AddRule(s) ==
    /\ pc[s] = "rule"
    /\ LET rule == [call |-> call[Current(s)], action |-> "allow"]
       IN  \/ /\ rules' = IF rule \in ToSet(rules) THEN rules ELSE Append(rules, rule)
              /\ UNCHANGED faults
           \/ Fault /\ UNCHANGED rules
    /\ Goto(s, "run")
    /\ UNCHANGED <<n, call, got, done, visible, managerVars, clientVars>>

Run(s) ==
    /\ pc[s] = "run"
    /\ End(s, "ran")
    /\ UNCHANGED <<n, call, got, visible, managerVars, rules, clientVars, faults>>

-----------------------------------------------------------------------------
\* Manager.Respond, for a client that answers a request it sees: the channel is
\* looked up, then sent to.

RespondLoad(k, id, response) ==
    /\ holding[k] = Nothing
    /\ id \in visible
    /\ IF id \in pending
       THEN holding' = [holding EXCEPT ![k] = [id |-> id, response |-> response]]
            /\ UNCHANGED turnedDown
       ELSE turnedDown' = turnedDown \cup {id} /\ UNCHANGED holding
    /\ UNCHANGED <<execVars, visible, managerVars, rules, answers, faults>>

\* Mutant of RespondSend: a later answer replaces the one in the channel.
RespondSendReplaces(k) ==
    /\ holding[k] # Nothing
    /\ LET id == holding[k].id IN
         /\ chan' = [chan EXCEPT ![id] = holding[k].response]
         /\ answers' = [answers EXCEPT ![id] = Append(@, holding[k].response)]
    /\ holding' = [holding EXCEPT ![k] = Nothing]
    /\ UNCHANGED <<execVars, visible, pending, rules, turnedDown, faults>>

\* A full channel refuses the answer.
RespondSend(k) ==
    /\ holding[k] # Nothing
    /\ LET id == holding[k].id IN
         IF chan[id] = Nothing
         THEN /\ chan' = [chan EXCEPT ![id] = holding[k].response]
              /\ answers' = [answers EXCEPT ![id] = Append(@, holding[k].response)]
         ELSE UNCHANGED <<chan, answers>>
    /\ holding' = [holding EXCEPT ![k] = Nothing]
    /\ UNCHANGED <<execVars, visible, pending, rules, turnedDown, faults>>

-----------------------------------------------------------------------------

Step(s) ==
    \/ Check(s) \/ Emit(s) \/ Register(s)
    \/ WaitTake(s) \/ WaitFails(s)
    \/ Return(s) \/ AddRule(s) \/ Run(s)

Next ==
    \/ \E s \in Session : Step(s) \/ \E c \in Call : Execute(s, c)
    \/ \E k \in Client :
          \/ RespondSend(k)
          \/ \E id \in Id, response \in Response : RespondLoad(k, id, response)

Spec == Init /\ [][Next]_vars

\* An executor that has started goes on; a wait ends by its timeout at last.
\* No client has to answer.
FairSpec == Spec /\ \A s \in Session : WF_vars(Step(s))

-----------------------------------------------------------------------------
(***************************************************************************)
(* Properties.                                                             *)
(***************************************************************************)

Waiting(s) == pc[s] \in {"wait", "delete"}

TypeOK ==
    /\ pc \in [Session -> {"idle", "check", "emit", "register", "wait", "delete",
                           "rule", "run"}]
    /\ n \in [Session -> 0..MaxCalls]
    /\ \A s \in Session : pc[s] # "idle" => n[s] > 0
    /\ call \in [Id -> Call]
    /\ visible \subseteq Id /\ pending \subseteq Id /\ turnedDown \subseteq Id
    /\ chan \in [Id -> Response \cup {Nothing}]
    /\ got \in [Session -> Response \cup {Nothing, Failed}]
    /\ \A s \in Session : got[s] # Nothing <=> pc[s] = "delete"
    /\ rules \in Seq(Rule)
    /\ done \in [Id -> {"open", "failed", "denied", "ran"}]
    /\ holding \in [Client -> [id : Id, response : Response] \cup {Nothing}]
    /\ answers \in [Id -> Seq(Response)]
    /\ faults \in Nat

Allowed(c) == [call |-> c, action |-> "allow"] \in ToSet(rules)

\* The first acknowledged answer to a request: the only one that may count.
Answered(id) == answers[id] # <<>>
Approved(id) == Answered(id) /\ Head(answers[id]).approved

\* A tool that was asked for runs if the first answer acknowledged to a client
\* approves this very request, and is denied only if it does not.  A tool that
\* was not asked for runs by a rule or because everything is approved, and a
\* refused one never.  No second answer, late answer, timeout or other session
\* changes that.
AnswerDecides ==
    \A id \in Id :
        /\ done[id] = "denied" => Answered(id) /\ ~Approved(id)
        /\ done[id] = "ran" =>
            /\ call[id] \notin Refused
            /\ IF id \in visible THEN Approved(id)
               ELSE AutoApprove \/ Allowed(call[id])

\* permissions.json only grows, by one rule for each call a user approved for
\* good: the sessions that ask for the same call at the same time add one rule.
RulesEarned ==
    /\ IsPrefix(InitialRules, rules)
    /\ \A i \in DOMAIN rules : i > Len(InitialRules) =>
          /\ rules[i].action = "allow"
          /\ \E id \in Id : call[id] = rules[i].call /\ Approved(id)
                            /\ Head(answers[id]).always
          /\ \A j \in 1..(i - 1) : rules[j] # rules[i]

\* The calls that ran because a user approved them for good.
Remembered ==
    {call[id] : id \in {id \in visible : done[id] = "ran" /\ Head(answers[id]).always}}

\* When a call that was approved for good has run, no session that checks its
\* rules then asks for it again.  (Until the store fails.)
AskedOnce ==
    [][\A s \in Session :
          pc[s] = "check" /\ pc'[s] = "emit" /\ faults' = 0
            => call[Current(s)] \notin Remembered]_vars

\* A request is in the manager's map only while its executor waits for it: a
\* timeout or a cancelled session leaves nothing behind.
PendingAwaited ==
    \A id \in pending : \E s \in Session : Waiting(s) /\ id = Current(s)

\* A request that was made ends, also if no client ever answers.
Decided ==
    \A s \in Session, i \in 1..MaxCalls :
        n[s] = i /\ pc[s] = "register" ~> done[<<s, i>>] # "open"

-----------------------------------------------------------------------------
(***************************************************************************)
(* What the repository says and the code does not do.  TLC refutes both in *)
(* the instance of PermissionRequests, within seconds.                     *)
(***************************************************************************)

\* "deny with "always" flag (block future requests)" (cli repl.go:161): once a
\* call was denied for good, it is not asked for again.
DenyAllBlocks ==
    [][\A s \in Session, id \in Id :
          /\ done[id] = "denied" /\ Answered(id) /\ Head(answers[id]).always
          /\ pc[s] = "check" /\ pc'[s] = "emit"
          => call[Current(s)] # call[id]]_vars

\* "Emit PermissionRequestEvent so Client can see it via SSE" (main.go:236): a
\* request that a client sees and that is still open is not unknown to the
\* manager.
SeenIsKnown ==
    \A s \in Session : pc[s] \in {"register", "wait"} => Current(s) \notin turnedDown

=============================================================================
