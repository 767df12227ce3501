SPECIFICATION Spec
CONSTANTS
    Inputs <- MCInputs
    Contexts <- MCContexts
    Overrides <- MCOverrides
    Replies <- MCReplies
    Queries <- MCQueries
    Rows <- MCRows
    SqlLimit = 200
    MaxTurns = 2
    MaxDay = 1
INVARIANTS
    TypeOK
    CallsFitSchemas
    ModelPlansSound
    AttributionAnalyzed
    FreshDates
    HitsMatch
    HeuristicsLast
    RemembersNow
    LogsTellOfAnswers
