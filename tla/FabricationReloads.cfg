SPECIFICATION FairSpec
CONSTANTS
    None = None
    Queries = {q1}
    Fabrics = {f1}
    ResultsPerQuery = 1
    AdsPerQuery = 1
    Visitors = {v1}
    Workers = {w1}
    MaxReceive = 1
    MaxVisits = 2
    MaxFaults = 1
PROPERTIES
    Fabricated
    SitesFabricated
CHECK_DEADLOCK FALSE
