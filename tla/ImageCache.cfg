SPECIFICATION FairSpec
CONSTANTS
    None = None
    png1 = png1
    jpeg1 = jpeg1
    Requests = {r1, r2}
    Hashes = {h1}
    Images <- TwoImages
    Formats <- TwoFormats
    MaxTrouble = 2
INVARIANTS
    TypeOK
    OnlyWholeImages
    NoLitterWithoutCause
PROPERTIES
    StoredImageStays
    Answered
CHECK_DEADLOCK FALSE
