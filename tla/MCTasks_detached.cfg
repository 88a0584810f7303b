SPECIFICATION SpecOfAll
CONSTANTS
    r1 = r1
    e1 = e1
    e2 = e2
    e3 = e3
    s1 = s1
    s2 = s2
    p1 = p1
    p2 = p2
    x1 = x1
    x2 = x2
    Reports = {r1}
    Workers = {w1}
    Categories = {roads, water}
    Edits = {e1, e2, e3}
    EditOf <- AllOfOne
    EditKind <- EachKind
    Moderable = {r1}
    Photos = {p1, p2}
    Submissions = {s1, s2}
    Wanted <- Rivals
    Jobs = {x1, x2}
    Requesters = {u1}
    RequesterOf <- RequesterOfJobs
    ResourceOf <- ResourceOfJobs
    Deliveries = 1
    MaxLosses = 0
    MaxStandings = 2
    Parts = {"photos"}
    None = None
PROPERTY ReportLinkSurvivesProcessing
CHECK_DEADLOCK FALSE
