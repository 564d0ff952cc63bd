SPECIFICATION EngineFairSpec
CONSTANTS
    None = None
    Queries = {q1}
    Fabrics = {f1, f2}
    ResultsPerQuery = 1
    AdsPerQuery = 0
    Pages = {p1}
    Requests = {r1}
    Visitors = {p1, r1}
    Workers = {w1}
    MaxReceive = 2
    MaxVisits = 2
    MaxFaults = 1
INVARIANTS
    CardsKeepTheirWord
PROPERTIES
    PartsAsSpecified
    WebsiteArrives
CHECK_DEADLOCK FALSE
