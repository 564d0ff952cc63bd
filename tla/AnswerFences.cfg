SPECIFICATION TextsSpec
CONSTANTS
    SlugBytes = 3
    IdDigits = 2
    PathBytes = 4
    Refused = Refused
    NoAnswer = NoAnswer
    NoRow = NoRow
    QueryLetters = {"a", "A", " ", "tab"}
    TitleLetters = {"a", "r", "R", "1", "!"}
    PathLetters = {"%", "2", "5", "F", "w", "W", "-", " "}
    Parts <- SomeParts
    MaxQuery = 6
    MaxTitle = 5
    MaxPath = 5
    MaxParts = 4
INVARIANTS
    FencesRemoved
CHECK_DEADLOCK FALSE
