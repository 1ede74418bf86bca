SPECIFICATION BoundedSpec
CONSTANTS
    FIELD_SIZE = 4
    WIN_LENGTH = 3
    One = One
    Two = Two
    None = None
    MaxGames = 2
    MaxLateMoves = 1
SYMMETRY PlayerSymmetry
INVARIANTS
    NeverRecordedTwice
    FourIsFound
    WinnerHasFour
    BoardIsLegal
PROPERTIES
    RematchIsMutual
CHECK_DEADLOCK FALSE
