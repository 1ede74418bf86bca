SPECIFICATION OneDirectionFairSpec
CONSTANTS
    Msg = {m1}
    MaxPlayerMsgs = 2
    MaxServerMsgs = 2
    MaxCopies = 2
    RPKT_RETRY_LIMIT = 1
CONSTANTS
    m1 = m1
PROPERTIES
    IssuedIsForwarded
    SaidIsReceived
CHECK_DEADLOCK FALSE
