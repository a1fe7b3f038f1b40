SPECIFICATION Spec
CONSTANTS
    e1 = e1
    e2 = e2
    s1 = s1
    s2 = s2
    None = None
    Events = {e1, e2}
    Subscribers = {s1, s2}
    Rank <- MCRank
    Uid <- MCUid
    Matching <- OneEach
    Permitted <- Everybody
    LastSubscriber <- LastIsS2
    InProcess = {e1}
    TIMEOUT = 1
    Joiners = {}
    Leavers = {}
    Mortals = {}
    FreezeUids = {}
    Aborters = {s1}
    MayStall = TRUE
INVARIANTS
    TypeOK
    QueueOrder
    StartNotLost
    IdleFrontIsDriven
PROPERTIES
    NotifyInOrder
    KeepsPromise
CHECK_DEADLOCK FALSE
