SPECIFICATION FairSpec
CONSTANTS
    n1 = n1
    n2 = n2
    p1 = p1
    p2 = p2
    p3 = p3
    s1 = s1
    s2 = s2
    None = None
    Names = {n1, n2}
    Publications = {p1, p2}
    Subscribers = {s1, s2}
    Subscribed <- BothNames
    Name <- MCName
    Priority <- MCPriority
    Uid <- UidEach
    Sticky = {p1, p2}
    SystemEvents = {n1}
    Mapped <- FirstToSecond
    Passing <- PassAll
    Permitted <- AllButOne
    FreezeUids = {2}
    Leavers = {s2}
    Mortals = {s1}
    FREEZE_EVENT_TIMEOUT = 0
    HISTORY_MAX_SIZE = 1
    MaxTime = 0
INVARIANTS
    TypeOK
    StickyIsLatest
    IndexAgrees
    HistoryIsTrue
PROPERTIES
    EveryEventIsNotified
CHECK_DEADLOCK FALSE
