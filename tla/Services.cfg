SPECIFICATION ServicesSpec
CONSTANTS
    UserId = {p, q}
    Request = {r1, r2}
    None = None
    p = p
    q = q
CONSTANTS
    Name = {ann, ANN, bob}
    ann = ann
    ANN = ANN
    bob = bob
    Lower <- LowerCase
    PlatformId = {w}
CONSTANTS
    Level = {l1, l2}
    Stars = {0, 1, 3}
    RoundGap = 2
    RoundCap = 2
    MaxDay = 3
    MaxPlays = 2
    MaxSignins = 3
CONSTANTS
    Content = {a1, a2}
    MaxVersion = 3
CONSTANTS
    Event = {e1, e2, e3, e4}
    BATCH_SIZE = 2
    MAILBOX_CAPACITY = 2
CONSTANTS
    s1 = s1
    s2 = s2
    s3 = s3
    d1 = d1
    OperationId = {o1, o2}
    PRICE = 2
    STOCK = 2
    MAX_USES = 1
    Quest = {s1, s2, s3, d1}
    DailyQuest = {d1}
    Previous <- Story
    SortOrder <- Order
    ConditionType <- Counts
    ConditionValue <- Needs
    MilestoneInit = 2
    MilestoneGap = 1
    Coins = 3
    MaxLevel = 3
    MaxEvents = 3
SYMMETRY ServicesSymmetry
INVARIANTS
    FriendsHaveBothAsked
    ViewIsCurrentWhenAlone
    OneUserPerIdentity
    NamesDifferWhenAlone
    StreakWithinTotal
    RoundsInOrder
    RewardsWereEarned
    AnnouncedIsPublished
    LoggedOnce
    LedgerBalances
    LimitsHold
    QuestsCountEvents
    MilestonesAreMailed
CHECK_DEADLOCK FALSE
