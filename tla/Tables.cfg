SPECIFICATION TablesSpec
CONSTANTS
    None = None
    Queries = {q1, q2}
    Fabrics = {f1, f2}
    ResultsPerQuery = 2
    AdsPerQuery = 1
    Ids = {i1, i2}
SYMMETRY Interchangeable
INVARIANTS
    SchemaHolds
PROPERTIES
    AnswersStay
    TablesImplementCatalogue
CHECK_DEADLOCK FALSE
