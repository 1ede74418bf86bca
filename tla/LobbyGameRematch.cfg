SPECIFICATION Spec
CONSTANTS
    FIELD_SIZE = 3
    WIN_LENGTH = 3
    One = One
    Two = Two
    None = None
    MaxGames = 2
    MaxLateMoves = 0
SYMMETRY PlayerSymmetry
CONSTRAINT NotWonBeforeStart
INVARIANTS
    EveryGameIsRecorded
CHECK_DEADLOCK FALSE
