SPECIFICATION FairSpec
CONSTANTS
    None = None
    Queries = {q1}
    Fabrics = {f1, f2}
    ResultsPerQuery = 1
    AdsPerQuery = 1
    Requests = {r1, r2}
INVARIANTS
    TypeOK
    BrowsersAgree
    NoMisleading500
PROPERTIES
    Answered
    WaitersServed
CHECK_DEADLOCK FALSE
