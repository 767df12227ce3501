SPECIFICATION Spec
CONSTANTS
    None = None
    Threads = {t1, t2, t3}
    Keys = {a, b, c}
    MaxItems = 1
    MaxPlans = 4
SYMMETRY Symmetry
INVARIANTS
    TypeOK
    GrowsByRacesOnly
    PlansIntact
