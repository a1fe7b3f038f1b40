SPECIFICATION FairSpec
CONSTANTS
    e1 = e1
    e2 = e2
    s1 = s1
    s2 = s2
    None = None
    Events = {e1, e2}
    Subscribers = {s1, s2}
    Rank <- MCRank
    Uid <- MCUid
    Matching <- BothThenNone
    Permitted <- Everybody
    LastSubscriber <- NoLast
    InProcess = {}
    TIMEOUT = 2
    Joiners = {}
    Leavers = {}
    Mortals = {}
    FreezeUids = {}
    Aborters = {}
    MayStall = FALSE
PROPERTIES
    EveryEventIsRetired
CHECK_DEADLOCK FALSE
