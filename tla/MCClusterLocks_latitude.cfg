SPECIFICATION Spec
CONSTANTS
    r1 = r1
    r2 = r2
    r3 = r3
    Reports = {r1, r2}
    Issues = {i1, i2}
    Workers = {w1, w2}
    None = None
    Category <- OneCategory
    Position <- SideBySide
    CreatedAt <- AllAtOnce
    MaxTime = 1
    Rules <- Narrow
    Width <- CellsByLatitude
    Deliveries <- Once
    MaxCrashes = 0
INVARIANT NoDuplicateOpenIssues
CHECK_DEADLOCK FALSE
