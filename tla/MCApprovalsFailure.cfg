SPECIFICATION Spec
CONSTANTS
    None = None
    assign = assign
    reassign = reassign
    comment = comment
    escalate = escalate
    bogus = bogus
    invalid = invalid
    ticket = ticket
    approver = approver
    ops = ops
    Engine = "mysql"
    Workers = {w1}
    Ids = {a1, a2}
    Proposals = {bogus}
    Tickets = {ticket}
    Traces = {t1}
    Users = {approver, ops}
    Approvers = {approver}
    MaxClock = 2
    MaxRequests = 2
    Verified <- MCVerified
    Executable <- MCExecutable
    ActionType <- MCActionType
    Target <- MCTarget
PROPERTIES
    FailureRecorded
