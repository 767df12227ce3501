SPECIFICATION Spec
CONSTANTS
    None = None
    govern = govern
    explain = explain
    look = look
    mixed = mixed
    other = other
    Messages = {govern, explain, look, mixed, other}
    MaxPlan = 4
    MaxStepReflections = 2
    MaxAnswerReflections = 1
    Asks <- MCAsks
    Plans <- MCPlans
INVARIANTS
    Supplemented
