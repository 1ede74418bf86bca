SPECIFICATION Spec
CONSTANTS
    Client = {c1, c2}
    Lobby = {l1}
    GameId = {g1}
    MaxSends = 1
    MaxBattleReqs = 0
    None = None
INVARIANTS
    WaitingIsForHost
CHECK_DEADLOCK FALSE
