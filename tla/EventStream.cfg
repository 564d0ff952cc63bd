SPECIFICATION FairSpec
CONSTANTS
    None = None
    Queries = {q1}
    Fabrics = {f1, f2}
    ResultsPerQuery = 2
    AdsPerQuery = 1
    Visitors = {v1}
INVARIANTS
    TypeOK
    CardsAreRows
    MarkedIsShown
    CompleteMeansComplete
PROPERTIES
    CardsStay
    FilledCardsAppear
CHECK_DEADLOCK FALSE
