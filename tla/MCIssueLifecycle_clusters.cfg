SPECIFICATION Spec
CONSTANTS
    r1 = r1
    r2 = r2
    r3 = r3
    ana = ana
    ben = ben
    Issues = {i1, i2}
    Reports = {r1, r2, r3}
    Citizens = {ana, ben}
    Author <- SharedAuthor
    Severities = {1, 3}
    Verdicts = {}
    None = None
SYMMETRY IssueSymmetry
INVARIANTS
    ComputedIsHighestMember
PROPERTY SupportMovesTogether
