SPECIFICATION FairSpec
CONSTANTS
    r1 = r1
    r2 = r2
    r3 = r3
    Reports = {r1, r2, r3}
    Issues = {i1, i2, i3}
    Workers = {w1, w2}
    None = None
    Category <- OneCategory
    Position <- InARow
    CreatedAt <- LastLater
    MaxTime = 1
    Rules <- NarrowOrWide
    Width <- CellsByRadius
    Deliveries <- FirstTwice
    MaxCrashes = 1
INVARIANTS
    OneIssuePerProblem
PROPERTIES
    EveryReportClustered
    ImplementsFindOrCreate
CHECK_DEADLOCK FALSE
