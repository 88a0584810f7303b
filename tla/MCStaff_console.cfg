SPECIFICATION BoundedSpec
CONSTANTS
    roads = roads
    water = water
    rA = rA
    rB = rB
    rC = rC
    ann = ann
    bob = bob
    root = root
    cit = cit
    eve = eve
    Requests = {q1, q2, q3}
    MaxChanges = 1
    Rows = {1, 2, 3}
    Ranks = {1, 2}
    Ages = {1, 2}
    Totals = {0}
    Limit = 1
    MaxMoves = 1
    MaxPages = 4
    Slugs = {other, roads}
    Sink = other
    Terms = {1, 2}
    Keywords = {q1, q2, q3}
    Classified = {s1, s2}
    MaxEdits = 2
    text = text
    Issues <- IssueIds
    Reports = {rA, rB, rC}
    Authorities = {ann, bob}
    Admins = {root}
    Citizens = {cit, eve}
    Categories = {roads, water}
    CategoryOf <- IssueCategories
    Members <- IssueMembers
    AuthorOf <- Authors
    Jobs <- JobsOnOverlappingRows
    Length <- OneLength
    MaxLength = 1
    Texts = {text}
    Found <- FoundAll
    TextOf <- OneText
    None = None
SYMMETRY Interchangeable
INVARIANTS
    NarrowRequestsNeverDeadlock
    UntouchedServedOnce
    ClassifiedAsOffered
    FallbackIsDeterministic
PROPERTY
    AssignedWhileQualified
CHECK_DEADLOCK FALSE
