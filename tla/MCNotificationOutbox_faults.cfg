SPECIFICATION BoundedSpec
CONSTANTS
    i1 = i1
    i2 = i2
    r1 = r1
    r2 = r2
    r3 = r3
    ana = ana
    ben = ben
    Citizens = {ana, ben}
    None = None
    EmailOn = {ana}
    Issues = {i1, i2}
    Reports = {r1, r2, r3}
    Author <- Authored
    Home <- OneIssue
    MergePairs <- OneWay
    Relays = {l1, l2}
    Consumers = {c1, c2}
    BatchSize = 2
    MaxRetries = 1
    MaxEvents = 2
    MaxFaults = 2
INVARIANTS
    SettledEventsNotified
    RowsPublishedOnce
    SurplusMailsExplained
PROPERTY ChangesReachReporters
CHECK_DEADLOCK FALSE
