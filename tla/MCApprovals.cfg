SPECIFICATION Spec
CONSTANTS
    None = None
    assign = assign
    reassign = reassign
    comment = comment
    escalate = escalate
    bogus = bogus
    invalid = invalid
    ticket = ticket
    approver = approver
    ops = ops
    Engine = "mysql"
    Workers = {w1, w2}
    Ids = {a1, a2}
    Proposals = {assign, bogus}
    Tickets = {ticket}
    Traces = {t1, t2}
    Users = {approver, ops}
    Approvers = {approver}
    MaxClock = 2
    MaxRequests = 4
    Verified <- MCVerified
    Executable <- MCExecutable
    ActionType <- MCActionType
    Target <- MCTarget
SYMMETRY Symmetry
INVARIANTS
    TypeOK
    ExactlyOnce
    WholeDecisions
    KeysIdentify
    AnswersHold
    AuditTruthful
    WaitsEnd
PROPERTIES
    DecisionsFinal
    KeepsLifecycle
