SPECIFICATION BoundedSpec
CONSTANTS
    c1 = c1
    c2 = c2
    c3 = c3
    u1 = u1
    u2 = u2
    t1 = t1
    t2 = t2
    Calls = {c1, c2, c3}
    Users = {u1, u2}
    Texts = {t1, t2}
    UserOf <- ScopeOfCalls
    TextOf <- TextOfCalls
    UserLimit = 1
    GlobalLimit = 2
    Budget = 5
    Cost = 2
    MaxAttempts = 2
    Threshold = 2
    MaxWindows = 1
INVARIANTS
    WithinLimits
    OpenCircuitHoldsNewCalls
PROPERTY
    EveryCallAnswered
CHECK_DEADLOCK FALSE
