SPECIFICATION FairSpec
CONSTANTS
    Client = {c1, c2, c3}
    Lobby = {l1}
    GameId = {g1}
    MaxSends = 1
    MaxBattleReqs = 1
    None = None
PROPERTIES
    JoinerIsReleased
CHECK_DEADLOCK FALSE
