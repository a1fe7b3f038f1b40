SPECIFICATION Spec
CONSTANTS
    n1 = n1
    n2 = n2
    p1 = p1
    p2 = p2
    p3 = p3
    s1 = s1
    s2 = s2
    None = None
    Names = {n1, n2}
    Publications = {p1, p2}
    Subscribers = {s1, s2}
    Subscribed <- NameEach
    Name <- NameInTurn
    Priority <- SamePriority
    Uid <- MCUid
    Sticky = {}
    SystemEvents = {}
    Mapped <- NotMapped
    Passing <- PassAll
    Permitted <- Everybody
    FreezeUids = {1}
    Leavers = {}
    Mortals = {}
    FREEZE_EVENT_TIMEOUT = 0
    HISTORY_MAX_SIZE = 2
    MaxTime = 0
INVARIANTS
    ToldWhatItSubscribedTo
CHECK_DEADLOCK FALSE
