SPECIFICATION FairSpec
CONSTANTS
    None = None
    Queries = {q1}
    Fabrics = {f1}
    ResultsPerQuery = 2
    AdsPerQuery = 0
    Visitors = {v1}
    Workers = {w1, w2}
    MaxReceive = 2
    MaxVisits = 1
    MaxFaults = 1
INVARIANTS
    IInv
    NoPositionForgotten
PROPERTIES
    SettledStaysSettled
    Fabricated
CHECK_DEADLOCK FALSE
