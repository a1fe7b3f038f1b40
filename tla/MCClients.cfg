SPECIFICATION FairSpec
CONSTANTS
    a = a
    b = b
    s1 = s1
    s2 = s2
    None = None
    Main = Main
    Subscribers = {s1, s2}
    HandlerMode = {s1, s2}
    AppThreads = {a, b}
    Plan <- OneEach
    InCallback <- JustPublish
    AsyncUsers = {s1}
    Finishers = {b}
    Events = {1, 2}
    Ordered = {1}
    SUBSCRIBER_MAX_SIZE = 1
    MAX_LISTENERS = 1
    MaxCalls <- TwoAndOne
    MAX_DEATHS = 1
    MayRefuse = TRUE
INVARIANTS
    RegisteredIsListed
    SubscribedIsRegistered
    AtMostOneLateCallback
    AnsweredOnce
PROPERTIES
    CallsReturn
CHECK_DEADLOCK FALSE
