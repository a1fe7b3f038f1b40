SPECIFICATION Spec
CONSTANTS
    e1 = e1
    e2 = e2
    s1 = s1
    s2 = s2
    None = None
    Events = {e1, e2}
    Subscribers = {s1, s2}
    Rank <- MCRank
    Uid <- MCUid
    Matching <- BothThenOne
    Permitted <- AllButOne
    LastSubscriber <- NoLast
    InProcess = {}
    TIMEOUT = 1
    Joiners = {s2}
    Leavers = {s1}
    Mortals = {s2}
    FreezeUids = {2}
    Aborters = {s1}
    MayStall = FALSE
INVARIANTS
    HistoryTruthful
    NobodyPassedOver
    IdleFrontIsDriven
CHECK_DEADLOCK FALSE
