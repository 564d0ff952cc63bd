SPECIFICATION Spec
CONSTANTS
    None = None
    Queries = {q1}
    Fabrics = {f1, f2}
    ResultsPerQuery = 1
    AdsPerQuery = 0
    Visitors = {v1}
    Workers = {w1, w2}
    MaxReceive = 2
    MaxVisits = 2
    MaxFaults = 1
SYMMETRY Interchangeable
INVARIANTS
    TypeOK
    SitesMatchRows
    GroundedJobs
PROPERTIES
    FirstWriteWins
    ImplementsCatalogue
CHECK_DEADLOCK FALSE
