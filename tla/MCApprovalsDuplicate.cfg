SPECIFICATION Spec
CONSTANTS
    None = None
    assign = assign
    reassign = reassign
    comment = comment
    escalate = escalate
    bogus = bogus
    invalid = invalid
    ticket = ticket
    approver = approver
    ops = ops
    Engine = "mysql"
    Workers = {w1}
    Ids = {a1, a2, a3}
    Proposals = {assign}
    Tickets = {ticket}
    Traces = {t1, t2}
    Users = {approver, ops}
    Approvers = {approver}
    MaxClock = 3
    MaxRequests = 4
    Verified <- MCVerified
    Executable <- MCExecutable
    ActionType <- MCActionType
    Target <- MCTarget
INVARIANTS
    NoDuplicatePending
