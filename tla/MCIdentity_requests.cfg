SPECIFICATION BoundedSpec
CONSTANTS
    Accounts = {x1, x2}
    Emails = {e1}
    Phones = {y1, y2}
    Verifiers = {z1, z2}
    Editors = {d1}
    MaxAttempts = 1
    MaxCodes = 2
    Users = {u1, u2}
    Browsers = {x1, x2}
    Resetters = {y1, y2}
    MaxTries = 3
    MaxTokens = 2
    MaxBlocks = 2
    Requests = {z1, z2, z3}
    BucketLimit <- BucketLimits
    Multiplier = 2
    Unit = 1
    MaxTime = 2
    None = None
SYMMETRY Interchangeable
INVARIANTS
    AttemptsBounded
    VerifiedWasProven
    DeletedHoldsNothing
    TokenChangesPasswordOnce
    DemandedFactorPassed
    NoSessionFromBeforeABlock
    WindowBounded
CHECK_DEADLOCK FALSE
