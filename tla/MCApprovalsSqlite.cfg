SPECIFICATION Spec
CONSTANTS
    None = None
    assign = assign
    reassign = reassign
    comment = comment
    escalate = escalate
    bogus = bogus
    invalid = invalid
    ticket = ticket
    approver = approver
    ops = ops
    Engine = "sqlite"
    Workers = {w1, w2}
    Ids = {a1, a2}
    Proposals = {assign, reassign, invalid}
    Tickets = {ticket}
    Traces = {t1}
    Users = {approver, ops}
    Approvers = {approver}
    MaxClock = 2
    MaxRequests = 4
    Verified <- MCVerified
    Executable <- MCExecutable
    ActionType <- MCActionType
    Target <- MCTarget
SYMMETRY Symmetry
PROPERTIES
    HistoryChains
