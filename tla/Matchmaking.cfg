SPECIFICATION Spec
CONSTANTS
    Client = {c1, c2}
    Lobby = {l1, l2}
    GameId = {g1, g2}
    MaxSends = 1
    MaxBattleReqs = 0
    None = None
SYMMETRY Symmetry
INVARIANTS
    OfferedOnce
    SeatsAgree
    NobodyLeftBehind
    LeftIsUnlisted
    UpdateIsCurrent
CHECK_DEADLOCK FALSE
