SPECIFICATION OneDirectionSpec
CONSTANTS
    Msg = {m1, m2}
    MaxPlayerMsgs = 3
    MaxServerMsgs = 3
    MaxCopies = 1
    RPKT_RETRY_LIMIT = 1
CONSTANTS
    m1 = m1
    m2 = m2
SYMMETRY MsgSymmetry
INVARIANTS
    TypeOK
    NoPlayerMessageLost
    NoServerMessageLost
    QueuesAreSound
PROPERTIES
    ImplementsUpChannel
    ImplementsDownChannel
CHECK_DEADLOCK FALSE
