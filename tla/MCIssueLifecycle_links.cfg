SPECIFICATION Spec
CONSTANTS
    r1 = r1
    r2 = r2
    r3 = r3
    ana = ana
    ben = ben
    Issues = {i1, i2, i3}
    Reports = {r1, r2}
    Citizens = {ana}
    Author <- OneAuthor
    Severities = {1}
    Verdicts = {"hidden"}
    None = None
SYMMETRY IssueSymmetry
INVARIANTS
    TriagedIffMember
    DuplicateLinksEnd
    HistoryExplainsStatus
    ReopenedStaysFinished
