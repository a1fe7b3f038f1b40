SPECIFICATION Spec
CONSTANTS
    None = None
    Failed = Failed
    Broken = Broken
    Empty = Empty
    INT_BITS = 3
    MAX_HISTORY_SIZE = 9
    CommandLines <- MCCommandLines
    Requests <- MCRequests
    Subscribers <- MCSubscribers
    SystemEvents = {"wifi"}
    State <- MCState
    Numbers <- MCNumbers
    CommonEventMap <- MCCommonEventMap
INVARIANTS
    ServedAsAsked
    CommandIsCarriedOut
    EntitledReceive
    DumpShowsAsked
CHECK_DEADLOCK FALSE
