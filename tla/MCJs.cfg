SPECIFICATION FairSpec
CONSTANTS
    s1 = s1
    s2 = s2
    e1 = e1
    e2 = e2
    e3 = e3
    None = None
    Subscribers = {s1, s2}
    Events = {e1, e2, e3}
    For <- TwoAndOne
    Ordered = {e1, e2}
    Sticky = {}
    API <- Everything
    Codes = {1}
    MAX_CALLS = 3
    MAX_OTHER = 1
    Collectable = {s2}
    MayFail = TRUE
INVARIANTS
    AnsweredOnce
    
    EntriesAgree

    
CHECK_DEADLOCK FALSE
