SPECIFICATION FairSpec
CONSTANTS
    c1 = c1
    c2 = c2
    Call = {c1, c2}
    Session = {s1, s2}
    Client = {k1}
    Refused = {}
    AutoApprove = FALSE
    InitialRules <- DenyRule
    MaxCalls = 1
    MaxFaults = 1
INVARIANTS TypeOK AnswerDecides PendingAwaited RulesEarned
PROPERTIES AskedOnce Decided
CHECK_DEADLOCK FALSE
