-------------------------- MODULE Permission_proofs --------------------------
(***************************************************************************)
(* Proofs about Permission, for any sessions, calls, clients, rules and    *)
(* number of calls.                                                        *)
(***************************************************************************)
EXTENDS Permission, SequenceTheorems, TLAPS

-----------------------------------------------------------------------------
(***************************************************************************)
(* The invariant.  AnswerDecides speaks of calls that ended; to keep it,   *)
(* every place of the executor has to know what it has learned so far, and *)
(* a request must have no answer before it is registered.                  *)
(***************************************************************************)

\* Requests that are not in the manager's map yet, if they will ever be.
Unregistered(id) ==
    \/ id[2] > n[id[1]]
    \/ id[2] = n[id[1]] /\ pc[id[1]] \in {"check", "emit", "register"}

Emitted(id) ==
    \/ id[2] < n[id[1]]
    \/ id[2] = n[id[1]] /\ pc[id[1]] \notin {"check", "emit"}

RequestsInOrder ==
    \A id \in Id :
        /\ Unregistered(id) =>
             answers[id] = <<>> /\ chan[id] = Nothing /\ done[id] = "open" /\ id \notin pending
        /\ id \in visible => Emitted(id)
        /\ Answered(id) => id \in visible

HoldersInOrder ==
    \A k \in Client : holding[k] # Nothing =>
        /\ ~Unregistered(holding[k].id)
        /\ holding[k].id \in visible

\* What may run, and why.
MayRun(id) ==
    IF id \in visible
    THEN Approved(id) /\ (Head(answers[id]).always => faults > 0 \/ Allowed(call[id]))
    ELSE AutoApprove \/ Allowed(call[id])

Knows(s) ==
    LET id == Current(s) IN
      /\ pc[s] \notin {"idle", "check"} => call[id] \notin Refused
      /\ pc[s] = "wait" =>
           IF chan[id] = Nothing THEN answers[id] = <<>>
           ELSE Answered(id) /\ Head(answers[id]) = chan[id]
      /\ pc[s] = "delete" /\ got[s] # Failed => Answered(id) /\ Head(answers[id]) = got[s]
      /\ pc[s] = "rule" => Approved(id) /\ Head(answers[id]).always
      /\ pc[s] = "run" => MayRun(id)

ExecutorsKnow == \A s \in Session : Knows(s)

\* AnswerDecides, with the rule that an approval for good has left.
Settled ==
    \A id \in Id :
        /\ done[id] = "denied" => Answered(id) /\ ~Approved(id)
        /\ done[id] = "ran" => call[id] \notin Refused /\ MayRun(id)

IInv ==
    /\ TypeOK /\ PendingAwaited /\ RequestsInOrder /\ HoldersInOrder
    /\ ExecutorsKnow /\ Settled /\ RulesEarned

-----------------------------------------------------------------------------
\* Types.

LEMMA NotAnswers ==
    /\ Nothing \notin Response /\ Failed \notin Response /\ Nothing # Failed
    /\ Nothing \notin [id : Id, response : Response]
<1>1. ASSUME NEW r \in Response
      PROVE  r # Nothing /\ r # Failed
  BY <1>1 DEF Response, Nothing, Failed
<1>2. ASSUME NEW r \in [id : Id, response : Response]
      PROVE  r # Nothing
  BY <1>2 DEF Nothing
<1> QED
  BY <1>1, <1>2 DEF Nothing, Failed

LEMMA CurrentId ==
    ASSUME TypeOK, NEW s \in Session, pc[s] # "idle"
    PROVE  Current(s) \in Id /\ Current(s)[1] = s /\ Current(s)[2] = n[s]
BY PermissionAssumption DEF TypeOK, Current, Id

LEMMA TypeInit == Init => TypeOK
BY PermissionAssumption DEF Init, TypeOK, Current, Id

LEMMA TypeStep ==
    ASSUME TypeOK, [Next]_vars
    PROVE  TypeOK'
<1> USE PermissionAssumption, NotAnswers DEF TypeOK
<1>1. CASE UNCHANGED vars
  BY <1>1 DEF vars
<1>2. ASSUME NEW s \in Session, NEW c \in Call, Execute(s, c)
      PROVE  TypeOK'
  <2>1. n[s] + 1 \in 1..MaxCalls /\ n[s] + 1 \in 0..MaxCalls /\ <<s, n[s] + 1>> \in Id
    BY <1>2 DEF Execute, Id
  <2>2. n' = [n EXCEPT ![s] = n[s] + 1] /\ pc' = [pc EXCEPT ![s] = "check"]
        /\ call' = [call EXCEPT ![<<s, n[s] + 1>>] = c]
    BY <1>2 DEF Execute, Goto
  <2>3. UNCHANGED <<got, done, visible, managerVars, rules, clientVars, faults>>
    BY <1>2 DEF Execute
  <2>4. \A t \in Session : pc'[t] # "idle" => n'[t] > 0
    BY <2>1, <2>2
  <2>5. \A t \in Session : got'[t] # Nothing <=> pc'[t] = "delete"
    BY <1>2, <2>2, <2>3 DEF Execute
  <2> QED
    BY <2>1, <2>2, <2>3, <2>4, <2>5 DEF managerVars, clientVars
<1>3. ASSUME NEW s \in Session, Step(s)
      PROVE  TypeOK'
  <2>0. pc[s] # "idle" => Current(s) \in Id
    BY CurrentId
  <2>1. CASE Check(s)
    <3>1. faults' \in Nat /\ pc[s] = "check" /\ UNCHANGED n
      BY <2>1 DEF Check, Fault
    <3>2. \/ End(s, "failed")
          \/ Goto(s, "run") /\ UNCHANGED done
          \/ Goto(s, "emit") /\ UNCHANGED done
      BY <2>1 DEF Check
    <3>3. UNCHANGED <<call, got, visible, managerVars, rules, clientVars>>
      BY <2>1 DEF Check
    <3> QED
      BY <2>0, <3>1, <3>2, <3>3 DEF End, Goto, managerVars, clientVars
  <2>2. CASE Emit(s)
    BY <2>0, <2>2 DEF Fault, Emit, Goto, managerVars, clientVars
  <2>3. CASE Register(s)
    BY <2>0, <2>3 DEF Register, Goto, clientVars
  <2>4. CASE WaitTake(s)
    BY <2>0, <2>4 DEF WaitTake, Goto, clientVars
  <2>5. CASE WaitFails(s)
    BY <2>0, <2>5 DEF WaitFails, Goto, managerVars, clientVars
  <2>6. CASE Return(s)
    BY ZenonT(30), <2>0, <2>6 DEF Return, End, Goto, clientVars
  <2>7. CASE AddRule(s)
    <3>1. rules' \in Seq(Rule)
      <4> DEFINE rule == [call |-> call[Current(s)], action |-> "allow"]
      <4>1. rule \in Rule
        BY <2>0, <2>7 DEF AddRule, Rule, Action
      <4>2. rules' = rules \/ rules' = Append(rules, rule)
        BY <2>7 DEF AddRule
      <4> HIDE DEF rule
      <4>3. Append(rules, rule) \in Seq(Rule)
        BY <4>1, AppendProperties
      <4> QED
        BY <4>2, <4>3
    <3> QED
      BY <2>0, <2>7, <3>1 DEF Fault, AddRule, Goto, managerVars, clientVars
  <2>8. CASE Run(s)
    BY <2>0, <2>8 DEF Run, End, Goto, managerVars, clientVars
  <2> QED
    BY <1>3, <2>1, <2>2, <2>3, <2>4, <2>5, <2>6, <2>7, <2>8 DEF Step
<1>4. ASSUME NEW k \in Client, RespondSend(k)
      PROVE  TypeOK'
  <2> DEFINE id == holding[k].id
             r == holding[k].response
  <2>1. id \in Id /\ r \in Response
    BY <1>4 DEF RespondSend
  <2>2. holding' \in [Client -> [id : Id, response : Response] \cup {Nothing}]
    BY <1>4 DEF RespondSend
  <2>3. /\ chan' = chan \/ chan' = [chan EXCEPT ![id] = r]
        /\ answers' = answers \/ answers' = [answers EXCEPT ![id] = Append(@, r)]
    BY <1>4 DEF RespondSend
  <2> HIDE DEF id, r
  <2>4. /\ chan' \in [Id -> Response \cup {Nothing}]
        /\ answers' \in [Id -> Seq(Response)]
    <3>1. answers \in [Id -> Seq(Response)] /\ chan \in [Id -> Response \cup {Nothing}]
      OBVIOUS
    <3>2. Append(answers[id], r) \in Seq(Response)
      BY <2>1, <3>1, AppendProperties
    <3>3. [chan EXCEPT ![id] = r] \in [Id -> Response \cup {Nothing}]
      BY <2>1, <3>1
    <3>4. [answers EXCEPT ![id] = Append(@, r)] \in [Id -> Seq(Response)]
      BY <2>1, <3>1, <3>2
    <3> QED
      BY <2>3, <3>1, <3>3, <3>4
  <2> QED
    BY <1>4, <2>2, <2>4 DEF RespondSend, execVars
<1>5. ASSUME NEW k \in Client, NEW id \in Id, NEW response \in Response,
             RespondLoad(k, id, response)
      PROVE  TypeOK'
  <2>1. holding' \in [Client -> [id : Id, response : Response] \cup {Nothing}]
    <3>1. holding' = holding
          \/ holding' = [holding EXCEPT ![k] = [id |-> id, response |-> response]]
      BY <1>5 DEF RespondLoad
    <3>2. [id |-> id, response |-> response] \in [id : Id, response : Response]
      OBVIOUS
    <3> QED
      BY <3>1, <3>2
  <2>2. turnedDown' \subseteq Id
    BY <1>5 DEF RespondLoad
  <2> QED
    BY <1>5, <2>1, <2>2 DEF RespondLoad, execVars, managerVars
<1> QED
  BY <1>1, <1>2, <1>3, <1>4, <1>5 DEF Next

\* Every variable keeps its type, whatever the clients answer and the store does.
THEOREM TypeCorrect == Spec => []TypeOK
<1> QED
  BY TypeInit, TypeStep, PTL DEF Spec

-----------------------------------------------------------------------------
\* The invariant holds initially and is kept, one lemma per kind of step.

LEMMA Ids ==
    ASSUME TypeOK
    PROVE  \A id \in Id :
             /\ id[1] \in Session /\ id[2] \in 1..MaxCalls
             /\ \A s \in Session : id = Current(s) <=> id[1] = s /\ id[2] = n[s]
BY PermissionAssumption DEF TypeOK, Current, Id

LEMMA IInvInit == Init => IInv
<1> SUFFICES ASSUME Init PROVE IInv
  OBVIOUS
<1>1. TypeOK
  BY TypeInit
<1>2. PendingAwaited /\ RequestsInOrder /\ HoldersInOrder
  BY DEF Init, PendingAwaited, RequestsInOrder, HoldersInOrder, Answered
<1>3. ExecutorsKnow /\ Settled
  BY DEF Init, ExecutorsKnow, Knows, Settled
<1>4. RulesEarned
  BY PermissionAssumption DEF Init, RulesEarned, IsPrefix
<1> QED
  BY <1>1, <1>2, <1>3, <1>4 DEF IInv

LEMMA ExecuteKeeps ==
    ASSUME IInv, TypeOK', NEW s \in Session, NEW c \in Call, Execute(s, c)
    PROVE  IInv'
<1> DEFINE new == <<s, n[s] + 1>>
<1>1. /\ pc[s] = "idle" /\ n' = [n EXCEPT ![s] = @ + 1]
      /\ call' = [call EXCEPT ![new] = c] /\ pc' = [pc EXCEPT ![s] = "check"]
      /\ UNCHANGED <<got, done, visible, pending, chan, rules, holding, answers, faults>>
  BY DEF Execute, Goto, managerVars, clientVars
<1>2. TypeOK /\ new \in Id /\ new[1] = s /\ new[2] = n[s] + 1 /\ Unregistered(new)
  <2>1. TypeOK
    BY DEF IInv
  <2>2. n[s] + 1 \in 1..MaxCalls /\ n[s] + 1 > n[s]
    BY <2>1, PermissionAssumption DEF TypeOK, Execute
  <2> QED
    BY <2>1, <2>2 DEF Id, Unregistered
<1>3. \A id \in Id : /\ id # new => call'[id] = call[id]
                     /\ Unregistered(id)' => Unregistered(id)
                     /\ Emitted(id) => Emitted(id)'
                     /\ MayRun(id) /\ ~Unregistered(id) => MayRun(id)'
  BY <1>1, <1>2, Ids DEF TypeOK, Unregistered, Emitted, MayRun, Allowed, Approved, Answered
<1>4. PendingAwaited'
  BY <1>1, <1>2, Ids DEF IInv, PendingAwaited, Waiting, Current
<1>5. RequestsInOrder'
  BY <1>1, <1>3 DEF IInv, RequestsInOrder, Answered
<1>6. HoldersInOrder'
  <2>1. \A k \in Client : holding[k] # Nothing => holding[k].id \in Id
    BY <1>2 DEF TypeOK
  <2> QED
    BY <1>1, <1>3, <2>1 DEF IInv, HoldersInOrder
<1>7. ExecutorsKnow'
  <2> SUFFICES ASSUME NEW t \in Session PROVE Knows(t)'
    BY DEF ExecutorsKnow
  <2>1. CASE t = s
    BY <1>1, <1>2, <2>1 DEF Knows, TypeOK
  <2>2. CASE t # s /\ pc[t] = "idle"
    BY <1>1, <1>2, <2>2 DEF Knows, TypeOK
  <2>3. CASE t # s /\ pc[t] # "idle"
    <3>1. Current(t) \in Id /\ Current(t) # new /\ Current(t)' = Current(t) /\ pc'[t] = pc[t]
      BY <1>1, <1>2, <2>3, CurrentId DEF Current, TypeOK
    <3>2. pc[t] = "run" => ~Unregistered(Current(t))
      <4>1. Current(t)[1] = t /\ Current(t)[2] = n[t]
        BY <1>2, <2>3, CurrentId
      <4>2. n[t] \in Nat
        BY <1>2, PermissionAssumption DEF TypeOK
      <4> QED
        BY <4>1, <4>2 DEF Unregistered
    <3> QED
      BY <1>1, <1>3, <3>1, <3>2 DEF IInv, ExecutorsKnow, Knows, Answered, Approved
  <2> QED
    BY <2>1, <2>2, <2>3
<1>8. Settled'
  BY <1>1, <1>2, <1>3 DEF IInv, RequestsInOrder, Settled, Answered, Approved
<1>9. RulesEarned'
  BY <1>1, <1>2 DEF IInv, RequestsInOrder, RulesEarned, Answered, Approved
<1> QED
  BY <1>4, <1>5, <1>6, <1>7, <1>8, <1>9 DEF IInv

\* A step of an executor changes what concerns its session and its request.
LEMMA StepFrame ==
    ASSUME TypeOK, NEW s \in Session, Step(s)
    PROVE  /\ pc[s] # "idle"
           /\ n' = n /\ call' = call /\ answers' = answers /\ holding' = holding
           /\ \A t \in Session : t # s => pc'[t] = pc[t] /\ got'[t] = got[t]
           /\ \A id \in Id : id # Current(s) =>
                /\ chan'[id] = chan[id] /\ done'[id] = done[id]
                /\ id \in pending' <=> id \in pending
                /\ id \in visible' <=> id \in visible
           /\ visible \subseteq visible'
           /\ faults > 0 => faults' > 0
           /\ pc'[s] \in {"check", "emit", "register"} =>
                /\ pc[s] \in {"check", "emit"} /\ pc'[s] # "check"
                /\ chan' = chan /\ done' = done /\ pending' = pending
           /\ pc[s] \notin {"check", "emit"} => visible' = visible
<1> USE DEF TypeOK, Goto, Fault
<1>1. CASE Check(s)
  BY <1>1 DEF Check, End, managerVars, clientVars
<1>2. CASE Emit(s)
  BY <1>2 DEF Emit, managerVars, clientVars
<1>3. CASE Register(s)
  BY <1>3 DEF Register, clientVars
<1>4. CASE WaitTake(s) \/ WaitFails(s)
  BY <1>4 DEF WaitTake, WaitFails, managerVars, clientVars
<1>5. CASE Return(s)
  BY <1>5 DEF Return, End, clientVars
<1>6. CASE AddRule(s)
  BY <1>6 DEF AddRule, managerVars, clientVars
<1>7. CASE Run(s)
  BY <1>7 DEF Run, End, managerVars, clientVars
<1> QED
  BY <1>1, <1>2, <1>3, <1>4, <1>5, <1>6, <1>7 DEF Step

\* Rules are added, never changed or removed, and only by AddRule.
LEMMA RulesGrow ==
    ASSUME TypeOK, NEW s \in Session, Step(s)
    PROVE  /\ \/ rules' = rules
              \/ /\ AddRule(s)
                 /\ LET rule == [call |-> call[Current(s)], action |-> "allow"]
                    IN  rules' = Append(rules, rule) /\ rule \notin ToSet(rules)
           /\ \A c \in Call : Allowed(c) => Allowed(c)'
<1> DEFINE rule == [call |-> call[Current(s)], action |-> "allow"]
<1>1. \/ rules' = rules
      \/ AddRule(s) /\ rules' = Append(rules, rule) /\ rule \notin ToSet(rules)
  BY DEF Step, Check, Emit, Register, WaitTake, WaitFails, Return, AddRule, Run
<1>2. rule \in Rule
  BY CurrentId, StepFrame DEF TypeOK, Rule, Action
<1> HIDE DEF rule
<1>3. ASSUME rules' = Append(rules, rule)
      PROVE  \A i \in DOMAIN rules : i \in DOMAIN rules' /\ rules'[i] = rules[i]
  BY <1>2, <1>3, AppendProperties DEF TypeOK
<1> QED
  BY <1>1, <1>3 DEF Allowed, ToSet, rule

LEMMA OthersKnow ==
    ASSUME TypeOK, NEW s \in Session, NEW t \in Session, t # s, Step(s), Knows(t)
    PROVE  Knows(t)'
<1>1. CASE pc[t] = "idle"
  BY <1>1, StepFrame DEF Knows
<1>2. CASE pc[t] # "idle"
  <2>1. /\ Current(t) \in Id /\ Current(t) # Current(s) /\ Current(t)' = Current(t)
        /\ call[Current(t)] \in Call
    BY <1>2, StepFrame, CurrentId DEF Current, TypeOK
  <2> DEFINE id == Current(t)
  <2>2. /\ chan'[id] = chan[id] /\ answers' = answers /\ call' = call
        /\ id \in visible' <=> id \in visible
        /\ pc'[t] = pc[t] /\ got'[t] = got[t]
        /\ faults > 0 => faults' > 0
    BY <2>1, StepFrame
  <2>3. Allowed(call[id]) => Allowed(call[id])'
    BY <2>1, <2>2, RulesGrow DEF Allowed
  <2> QED
    BY <2>1, <2>2, <2>3 DEF Knows, MayRun, Approved, Answered
<1> QED
  BY <1>1, <1>2

\* What the executor learns at each of its steps.
LEMMA SelfKnows ==
    ASSUME IInv, TypeOK', NEW s \in Session, Step(s)
    PROVE  Knows(s)'
<1> DEFINE id == Current(s)
<1>1. /\ TypeOK /\ Knows(s) /\ pc[s] # "idle" /\ id \in Id /\ id' = id
      /\ answers' = answers /\ call' = call
  <2>1. TypeOK /\ Knows(s)
    BY DEF IInv, ExecutorsKnow
  <2> QED
    BY <2>1, StepFrame, CurrentId DEF Current
<1>2. RequestsInOrder /\ id[1] = s /\ id[2] = n[s]
  BY <1>1, CurrentId DEF IInv
<1> USE DEF Goto, TypeOK, managerVars, clientVars
<1>3. CASE Check(s)
  <2>1. id \notin visible
    BY <1>1, <1>2, <1>3, PermissionAssumption DEF RequestsInOrder, Emitted, Check
  <2>2. ASSUME pc'[s] = "run"
        PROVE  AutoApprove \/ Allowed(call[id])
    <3>1. "allow" \in Verdict(call[id]) \/ Unruled = "allow"
      BY <1>1, <1>3, <2>2 DEF Check, End
    <3>2. CASE "allow" \in RuleFor(call[id])
      <4>1. PICK i \in DOMAIN rules : rules[i].call = call[id] /\ rules[i].action = "allow"
        BY <3>2 DEF RuleFor
      <4>2. rules[i] \in Rule
        BY <1>1, <4>1
      <4>3. rules[i] = [call |-> call[id], action |-> "allow"]
        BY <4>1, <4>2 DEF Rule
      <4> QED
        BY <4>1, <4>3 DEF Allowed, ToSet
    <3>3. CASE "allow" \notin RuleFor(call[id])
      BY <3>1, <3>3 DEF Verdict, Unruled
    <3> QED
      BY <3>2, <3>3
  <2>3. pc'[s] \in {"run", "emit"} => call[id] \notin Refused
    BY <1>1, <1>3 DEF Check, End, Verdict
  <2>4. pc'[s] \in {"run", "emit", "idle"} /\ visible' = visible /\ rules' = rules
    BY <1>1, <1>3 DEF Check, End
  <2> QED
    BY <1>1, <2>1, <2>2, <2>3, <2>4 DEF Knows, MayRun, Allowed
<1>4. CASE Emit(s)
  BY <1>1, <1>4 DEF Emit, Knows
<1>5. CASE Register(s)
  BY <1>1, <1>2, <1>5 DEF Register, Knows, RequestsInOrder, Unregistered
<1>6. CASE WaitTake(s)
  BY <1>1, <1>6 DEF WaitTake, Knows, Answered
<1>7. CASE WaitFails(s)
  BY <1>1, <1>7 DEF WaitFails, Knows
<1>8. CASE Return(s)
  <2>1. visible' = visible /\ pc'[s] \in {"idle", "rule", "run"} /\ call[id] \notin Refused
    BY <1>1, <1>8 DEF Return, End, Knows
  <2>2. pc'[s] \in {"rule", "run"} =>
          /\ Approved(id) /\ id \in visible
          /\ pc'[s] = "rule" <=> Head(answers[id]).always
    BY <1>1, <1>2, <1>8 DEF Return, End, Knows, RequestsInOrder, Approved
  <2> QED
    BY <1>1, <2>1, <2>2 DEF Knows, MayRun, Approved, Answered
<1>9. CASE AddRule(s)
  <2>1. visible' = visible /\ pc'[s] = "run" /\ call[id] \notin Refused /\ Approved(id)
    BY <1>1, <1>9 DEF AddRule, Knows
  <2>2. id \in visible
    BY <1>1, <1>2, <2>1 DEF RequestsInOrder, Approved
  <2>3. faults' > 0 \/ Allowed(call[id])'
    <3> DEFINE rule == [call |-> call[id], action |-> "allow"]
    <3>1. rule \in Rule
      BY <1>1 DEF Rule, Action
    <3>2. faults' > 0 \/ rules' = IF rule \in ToSet(rules) THEN rules ELSE Append(rules, rule)
      BY <1>1, <1>9 DEF AddRule, Fault
    <3>3. Append(rules, rule)[Len(rules) + 1] = rule
          /\ Len(rules) + 1 \in DOMAIN Append(rules, rule)
      <4> HIDE DEF rule
      <4> QED
        BY <1>1, <3>1, AppendProperties
    <3> QED
      BY <1>1, <3>2, <3>3 DEF Allowed, ToSet
  <2> QED
    BY <1>1, <2>1, <2>2, <2>3 DEF Knows, MayRun, Approved, Answered, Allowed
<1>10. CASE Run(s)
  BY <1>1, <1>10 DEF Run, End, Knows
<1> QED
  BY <1>3, <1>4, <1>5, <1>6, <1>7, <1>8, <1>9, <1>10 DEF Step

LEMMA StepKeeps ==
    ASSUME IInv, TypeOK', NEW s \in Session, Step(s)
    PROVE  IInv'
<1> DEFINE cur == Current(s)
<1>0. /\ TypeOK /\ PendingAwaited /\ RequestsInOrder /\ HoldersInOrder
      /\ ExecutorsKnow /\ Settled /\ RulesEarned
  BY DEF IInv
<1>1. /\ pc[s] # "idle" /\ cur \in Id /\ cur[1] = s /\ cur[2] = n[s]
      /\ n' = n /\ call' = call /\ answers' = answers /\ holding' = holding
      /\ faults > 0 => faults' > 0
  BY <1>0, StepFrame, CurrentId
<1>2. \A t \in Session : Current(t)' = Current(t)
  BY <1>1 DEF Current
<1>3. PendingAwaited'
  <2>1. ASSUME NEW id \in pending', id # cur
        PROVE  \E t \in Session : Waiting(t)' /\ id = Current(t)'
    <3>1. id \in pending
      BY <1>0, <2>1, StepFrame DEF TypeOK
    <3>2. PICK t \in Session : Waiting(t) /\ id = Current(t)
      BY <1>0, <3>1 DEF PendingAwaited
    <3> QED
      BY <1>0, <1>2, <2>1, <3>2, StepFrame DEF Waiting
  <2>2. cur \in pending' => Waiting(s)'
    <3>1. cur \in pending => Waiting(s)
      BY <1>0, <1>1, Ids DEF PendingAwaited
    <3> QED
      BY <1>0, <3>1 DEF Step, Check, Emit, Register, WaitTake, WaitFails, Return,
              AddRule, Run, End, Goto, Waiting, TypeOK, managerVars
  <2> QED
    BY <1>2, <2>1, <2>2 DEF PendingAwaited
<1>4. \A id \in Id : Unregistered(id)' =>
         Unregistered(id) /\ chan'[id] = chan[id] /\ done'[id] = done[id]
         /\ (id \in pending' <=> id \in pending)
  <2> SUFFICES ASSUME NEW id \in Id, Unregistered(id)'
               PROVE  /\ Unregistered(id) /\ chan'[id] = chan[id] /\ done'[id] = done[id]
                      /\ id \in pending' <=> id \in pending
    OBVIOUS
  <2>1. CASE id = cur
    <3>1. pc'[s] \in {"check", "emit", "register"}
      BY <1>0, <1>1, <2>1, PermissionAssumption DEF Unregistered, TypeOK
    <3> QED
      BY <1>0, <1>1, <2>1, <3>1, StepFrame DEF Unregistered
  <2>2. CASE id # cur
    <3>1. id[1] \in Session /\ (id[1] = s => id[2] # n[s])
      BY <1>0, <2>2, Ids
    <3> QED
      BY <1>0, <1>1, <2>2, <3>1, StepFrame DEF Unregistered
  <2> QED
    BY <2>1, <2>2
<1>5. RequestsInOrder'
  <2> SUFFICES ASSUME NEW id \in Id
               PROVE  /\ Unregistered(id)' => /\ answers'[id] = <<>> /\ chan'[id] = Nothing
                                              /\ done'[id] = "open" /\ id \notin pending'
                      /\ id \in visible' => Emitted(id)'
                      /\ Answered(id)' => id \in visible'
    BY DEF RequestsInOrder
  <2>1. id \in visible' => Emitted(id)'
    <3>1. CASE id = cur
      <4>1. pc'[s] \notin {"check", "emit"} \/ (Check(s) /\ pc'[s] = "emit")
        BY ZenonT(30), <1>0 DEF Step, Check, Emit, Register, WaitTake, WaitFails, Return,
                AddRule, Run, End, Goto, TypeOK
      <4>2. Check(s) => id \notin visible'
        BY <1>0, <1>1, <3>1, PermissionAssumption
           DEF Check, RequestsInOrder, Emitted, TypeOK
      <4> QED
        BY <1>1, <3>1, <4>1, <4>2 DEF Emitted
    <3>2. CASE id # cur
      <4>1. id[1] \in Session /\ (id[1] = s => id[2] # n[s])
        BY <1>0, <3>2, Ids
      <4> QED
        BY <1>0, <1>1, <3>2, <4>1, StepFrame DEF RequestsInOrder, Emitted
    <3> QED
      BY <3>1, <3>2
  <2>2. Answered(id)' => id \in visible'
    BY <1>0, <1>1, StepFrame DEF RequestsInOrder, Answered
  <2> QED
    BY <1>0, <1>1, <1>4, <2>1, <2>2 DEF RequestsInOrder
<1>6. HoldersInOrder'
  <2>1. \A k \in Client : holding[k] # Nothing => holding[k].id \in Id
    BY <1>0 DEF TypeOK
  <2> QED
    BY <1>0, <1>1, <1>4, <2>1, StepFrame DEF HoldersInOrder
<1>7. ExecutorsKnow'
  BY <1>0, SelfKnows, OthersKnow DEF ExecutorsKnow
<1>8. Settled'
  <2> SUFFICES ASSUME NEW id \in Id
               PROVE  /\ done'[id] = "denied" => Answered(id)' /\ ~Approved(id)'
                      /\ done'[id] = "ran" => call'[id] \notin Refused /\ MayRun(id)'
    BY DEF Settled
  <2>1. Allowed(call[id]) => Allowed(call[id])'
    BY <1>0, <1>1, RulesGrow DEF TypeOK, Allowed
  <2>2. CASE done'[id] = done[id]
    <3>1. done[id] # "open" => (id \in visible' <=> id \in visible)
      <4>1. CASE id = cur
        BY <1>0, <1>1, <4>1, StepFrame DEF RequestsInOrder, Unregistered
      <4>2. CASE id # cur
        BY <1>0, <4>2, StepFrame
      <4> QED
        BY <4>1, <4>2
    <3> QED
      BY <1>0, <1>1, <2>1, <2>2, <3>1 DEF Settled, MayRun, Approved, Answered
  <2>3. CASE done'[id] # done[id]
    <3>1. id = cur
      BY <1>0, <2>3, StepFrame
    <3>2. Knows(s)
      BY <1>0 DEF ExecutorsKnow
    <3>3. done'[id] = "failed" \/ Return(s) \/ Run(s)
      BY <1>0, <1>1, <2>3, <3>1 DEF Step, Check, Emit, Register, WaitTake, WaitFails,
              AddRule, End, TypeOK
    <3>4. Return(s) => /\ done'[id] \in {"failed", "denied"}
                       /\ done'[id] = "denied" => Answered(id) /\ ~Approved(id)
      BY <1>0, <1>1, <2>3, <3>1, <3>2 DEF Return, End, Knows, Approved, TypeOK
    <3>5. Run(s) => /\ done'[id] = "ran" /\ visible' = visible /\ rules' = rules
                    /\ call[id] \notin Refused /\ MayRun(id)
      BY <1>0, <1>1, <2>3, <3>1, <3>2 DEF Run, End, Knows, TypeOK
    <3> QED
      BY <1>1, <3>3, <3>4, <3>5 DEF MayRun, Approved, Answered, Allowed
  <2> QED
    BY <2>2, <2>3
<1>9. RulesEarned'
  <2>1. CASE rules' = rules
    BY <1>0, <1>1, <2>1 DEF RulesEarned, Approved, Answered
  <2>2. CASE rules' # rules
    <3> DEFINE rule == [call |-> call[cur], action |-> "allow"]
    <3>1. AddRule(s) /\ rules' = Append(rules, rule) /\ rule \notin ToSet(rules)
      BY <1>0, <2>2, RulesGrow
    <3>2. /\ rule \in Rule /\ rules \in Seq(Rule)
          /\ rule.call = call[cur] /\ rule.action = "allow"
      BY <1>0, <1>1 DEF Rule, Action, TypeOK
    <3>3. Approved(cur) /\ Head(answers[cur]).always
      BY <1>0, <3>1 DEF ExecutorsKnow, Knows, AddRule
    <3> HIDE DEF rule
    <3>4. /\ Len(rules') = Len(rules) + 1 /\ DOMAIN rules' = 1..(Len(rules) + 1)
          /\ \A i \in 1..Len(rules) : rules'[i] = rules[i]
          /\ rules'[Len(rules) + 1] = rule
          /\ Len(rules) \in Nat /\ DOMAIN rules = 1..Len(rules)
      BY <3>1, <3>2, AppendProperties
    <3>5. IsPrefix(InitialRules, rules)'
      <4>1. /\ Len(InitialRules) \in Nat /\ Len(InitialRules) <= Len(rules)
            /\ SubSeq(InitialRules, 1, Len(InitialRules))
                 = SubSeq(rules, 1, Len(InitialRules))
        BY <1>0, PermissionAssumption DEF RulesEarned, IsPrefix
      <4>2. SubSeq(rules', 1, Len(InitialRules)) = SubSeq(rules, 1, Len(InitialRules))
        BY <3>2, <3>4, <4>1
      <4> QED
        BY <3>4, <4>1, <4>2 DEF IsPrefix
    <3>6. ASSUME NEW i \in DOMAIN rules', i > Len(InitialRules)
          PROVE  /\ rules'[i].action = "allow"
                 /\ \E id \in Id : call'[id] = rules'[i].call /\ Approved(id)'
                                   /\ Head(answers'[id]).always
                 /\ \A j \in 1..(i - 1) : rules'[j] # rules'[i]
      <4>1. CASE i \in 1..Len(rules)
        BY <1>0, <1>1, <3>4, <3>6, <4>1 DEF RulesEarned, Approved, Answered
      <4>2. CASE i = Len(rules) + 1
        BY <1>1, <3>1, <3>2, <3>3, <3>4, <4>2 DEF Approved, Answered, ToSet
      <4> QED
        BY <3>4, <4>1, <4>2
    <3> QED
      BY <3>5, <3>6 DEF RulesEarned
  <2> QED
    BY <2>1, <2>2
<1> QED
  BY <1>3, <1>5, <1>6, <1>7, <1>8, <1>9 DEF IInv

LEMMA LoadKeeps ==
    ASSUME IInv, TypeOK', NEW k \in Client, NEW id \in Id, NEW response \in Response,
           RespondLoad(k, id, response)
    PROVE  IInv'
<1>1. /\ UNCHANGED <<pc, n, call, got, done, visible, pending, chan, rules, answers, faults>>
      /\ holding' = holding \/ /\ id \in pending /\ id \in visible
                               /\ holding' = [holding EXCEPT ![k] =
                                                [id |-> id, response |-> response]]
  BY DEF RespondLoad, execVars, managerVars
<1>2. PendingAwaited' /\ RequestsInOrder' /\ ExecutorsKnow' /\ Settled' /\ RulesEarned'
  BY <1>1 DEF IInv, PendingAwaited, Waiting, Current, RequestsInOrder, Unregistered,
       Emitted, ExecutorsKnow, Knows, Settled, MayRun, RulesEarned, Approved, Answered, Allowed
<1>3. HoldersInOrder'
  BY <1>1 DEF IInv, HoldersInOrder, RequestsInOrder, Unregistered, TypeOK
<1> QED
  BY <1>2, <1>3 DEF IInv

LEMMA SendKeeps ==
    ASSUME IInv, TypeOK', NEW k \in Client, RespondSend(k)
    PROVE  IInv'
<1>0. holding[k] \in [id : Id, response : Response]
  BY DEF RespondSend, IInv, TypeOK
<1> PICK id \in Id, r \in Response : holding[k].id = id /\ holding[k].response = r
  BY <1>0
<1>1. /\ id \in Id /\ r \in Response /\ ~Unregistered(id) /\ id \in visible
      /\ answers \in [Id -> Seq(Response)] /\ chan \in [Id -> Response \cup {Nothing}]
      /\ r # Nothing
  BY NotAnswers DEF RespondSend, IInv, HoldersInOrder, TypeOK
<1>2. /\ UNCHANGED <<pc, n, call, got, done, visible, pending, rules, faults>>
      /\ holding' = [holding EXCEPT ![k] = Nothing]
  BY DEF RespondSend, execVars
<1>3. \/ chan' = chan /\ answers' = answers
      \/ /\ chan[id] = Nothing
         /\ chan' = [chan EXCEPT ![id] = r]
         /\ answers' = [answers EXCEPT ![id] = Append(@, r)]
  BY DEF RespondSend
<1>4. /\ Append(answers[id], r) # <<>>
      /\ answers[id] = <<>> => Head(Append(answers[id], r)) = r
      /\ answers[id] # <<>> => Head(Append(answers[id], r)) = Head(answers[id])
  BY <1>1
<1>5. \A i \in Id : /\ Answered(i) => Answered(i)' /\ Head(answers'[i]) = Head(answers[i])
                    /\ i # id => answers'[i] = answers[i] /\ chan'[i] = chan[i]
                    /\ Approved(i) => Approved(i)'
                    /\ Answered(i) /\ ~Approved(i) => ~Approved(i)'
                    /\ MayRun(i) => MayRun(i)'
                    /\ Unregistered(i)' <=> Unregistered(i)
  BY <1>1, <1>2, <1>3, <1>4 DEF Answered, Approved, MayRun, Allowed, Unregistered
<1>6. PendingAwaited' /\ HoldersInOrder'
  BY <1>2 DEF IInv, PendingAwaited, Waiting, Current, HoldersInOrder, Unregistered, TypeOK
<1>7. RequestsInOrder'
  BY <1>1, <1>2, <1>5 DEF IInv, RequestsInOrder, Emitted, Answered
<1>8. ExecutorsKnow'
  <2> SUFFICES ASSUME NEW s \in Session PROVE Knows(s)'
    BY DEF ExecutorsKnow
  <2>1. Knows(s) /\ Current(s)' = Current(s)
    BY <1>2 DEF IInv, ExecutorsKnow, Current
  <2>2. CASE pc[s] = "idle"
    BY <1>2, <2>2 DEF Knows
  <2>3. CASE pc[s] # "idle" /\ Current(s) # id
    <3>1. Current(s) \in Id
      BY <2>3, CurrentId DEF IInv
    <3> QED
      BY <1>2, <1>5, <2>1, <2>3, <3>1 DEF Knows, Answered
  <2>4. CASE pc[s] # "idle" /\ Current(s) = id
    <3>1. CASE chan' = chan /\ answers' = answers
      BY <1>2, <2>1, <2>4, <3>1 DEF Knows, Answered, Approved, MayRun, Allowed
    <3>2. CASE /\ chan[id] = Nothing /\ chan' = [chan EXCEPT ![id] = r]
               /\ answers' = [answers EXCEPT ![id] = Append(@, r)]
      <4>1. chan'[id] = r /\ answers'[id] = Append(answers[id], r)
        BY <1>1, <3>2
      <4>2. pc[s] = "wait" => Answered(id)' /\ Head(answers'[id]) = r
        BY <1>4, <2>1, <2>4, <3>2, <4>1 DEF Knows, Answered
      <4>3. /\ pc[s] = "delete" /\ got[s] # Failed =>
                  Answered(id)' /\ Head(answers'[id]) = got[s]
            /\ pc[s] = "rule" => Approved(id)' /\ Head(answers'[id]).always
            /\ pc[s] = "run" => MayRun(id)'
            /\ pc[s] \notin {"idle", "check"} => call[id] \notin Refused
        BY <1>1, <1>5, <2>1, <2>4 DEF Knows, Approved
      <4>4. Current(s)' = id
        BY <2>1, <2>4
      <4> QED
        BY <1>1, <1>2, <4>1, <4>2, <4>3, <4>4
           DEF Knows, Answered, Approved, MayRun, Allowed
    <3> QED
      BY <1>3, <3>1, <3>2
  <2> QED
    BY <2>2, <2>3, <2>4
<1>9. Settled'
  BY <1>2, <1>5 DEF IInv, Settled
<1>10. RulesEarned'
  BY <1>2, <1>5 DEF IInv, RulesEarned, Approved
<1> QED
  BY <1>6, <1>7, <1>8, <1>9, <1>10 DEF IInv

LEMMA IInvStep == IInv /\ [Next]_vars => IInv'
<1> SUFFICES ASSUME IInv, [Next]_vars PROVE IInv'
  OBVIOUS
<1>1. TypeOK'
  BY TypeStep DEF IInv
<1>2. CASE UNCHANGED vars
  BY <1>2 DEF vars, IInv, TypeOK, PendingAwaited, Waiting, Current, RequestsInOrder,
       Unregistered, Emitted, HoldersInOrder, ExecutorsKnow, Knows, Settled, MayRun,
       RulesEarned, Approved, Answered, Allowed
<1>3. CASE Next
  BY <1>1, <1>3, ExecuteKeeps, StepKeeps, LoadKeeps, SendKeeps DEF Next
<1> QED
  BY <1>2, <1>3

LEMMA Invariance == Spec => []IInv
BY IInvInit, IInvStep, PTL DEF Spec

-----------------------------------------------------------------------------
(***************************************************************************)
(* What follows.                                                           *)
(***************************************************************************)

\* A tool that was asked for runs, or is denied, by the first acknowledged answer
\* to its own request, and nothing else, whatever the sessions, the clients, the
\* timeouts and a failing store do.
THEOREM FirstAnswerDecides == Spec => []AnswerDecides
<1>1. IInv => AnswerDecides
  BY DEF IInv, Settled, MayRun, AnswerDecides
<1> QED
  BY <1>1, Invariance, PTL

\* permissions.json holds what it held at start and one rule for each call that
\* a user approved for good.
THEOREM OnlyEarnedRules == Spec => []RulesEarned
<1>1. IInv => RulesEarned
  BY DEF IInv
<1> QED
  BY <1>1, Invariance, PTL

\* The manager keeps no request that nobody waits for.
THEOREM NoForgottenRequest == Spec => []PendingAwaited
<1>1. IInv => PendingAwaited
  BY DEF IInv
<1> QED
  BY <1>1, Invariance, PTL

\* Until the store fails, a call that was approved for good is never asked for
\* again by a session that checks its rules after it ran.
THEOREM AlwaysIsOnce == Spec => AskedOnce
<1>1. IInv /\ [Next]_vars =>
        \A s \in Session :
          pc[s] = "check" /\ pc'[s] = "emit" /\ faults' = 0
            => call[Current(s)] \notin Remembered
  <2> SUFFICES ASSUME IInv, [Next]_vars, NEW s \in Session,
                      pc[s] = "check", pc'[s] = "emit", faults' = 0,
                      call[Current(s)] \in Remembered
               PROVE  FALSE
    OBVIOUS
  <2>1. Check(s)
    <3>1. ASSUME NEW t \in Session, Step(t), t # s
          PROVE  pc'[s] = pc[s]
      BY <3>1, StepFrame DEF IInv
    <3>2. ASSUME NEW t \in Session, NEW c \in Call, Execute(t, c)
          PROVE  pc'[s] \in {"check", pc[s]}
      BY <3>2 DEF Execute, Goto, IInv, TypeOK
    <3>3. ~(UNCHANGED pc)
      OBVIOUS
    <3>4. Step(s)
      BY <3>1, <3>2, <3>3 DEF Next, vars, RespondSend, RespondLoad, execVars
    <3> QED
      BY <3>4 DEF Step, Emit, Register, WaitTake, WaitFails, Return, AddRule, Run
  <2> DEFINE c == call[Current(s)]
  <2>2. "confirm" \in Verdict(c) /\ faults = 0
    BY <2>1 DEF Check, End, Goto, Fault, IInv, TypeOK
  <2>3. PICK id \in visible : call[id] = c /\ done[id] = "ran" /\ Head(answers[id]).always
    BY DEF Remembered
  <2>4. Allowed(c)
    BY <2>2, <2>3 DEF IInv, TypeOK, Settled, MayRun
  <2>5. Ruled(c)
    BY <2>4 DEF Allowed, Ruled, ToSet
  <2>6. "confirm" \notin RuleFor(c)
    <3>1. \A i \in DOMAIN rules : rules[i] \in Rule
      BY DEF IInv, TypeOK
    <3>2. \A i \in DOMAIN rules : rules[i].action # "confirm"
      BY <3>1 DEF Rule, Action
    <3> QED
      BY <3>2 DEF RuleFor
  <2> QED
    BY <2>2, <2>5, <2>6 DEF Verdict
<1> QED
  BY <1>1, Invariance, PTL DEF Spec, AskedOnce

=============================================================================
