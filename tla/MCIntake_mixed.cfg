SPECIFICATION SpecOfBoth
CONSTANTS
    Key <- OneUnkeyed
    Body <- MixedBodies
    q1 = q1
    q2 = q2
    q3 = q3
    q4 = q4
    k1 = k1
    p1 = p1
    p2 = p2
    Requests = {q1, q2, q3, q4}
    Keys = {k1}
    Photos = {p1, p2}
    None = None
    Removable = {p1}
    Faults = {"failure", "death", "refusal"}
    MaxFaults = 2
    centre = centre
    edge = edge
    Names = {n1, n2, n3}
    Seeded = n1
    Places = {centre, edge}
    Area <- Outlines
    Replacers = {b1, b2}
    MaxVerdicts = 1
SYMMETRY Interchangeable
INVARIANTS
    ReplayIsCommitted
    TriagedReportsExist
    OneReportPerServedAction
    EveryVerdictExplained
PROPERTY NoPhotoTakenOver
CHECK_DEADLOCK FALSE
