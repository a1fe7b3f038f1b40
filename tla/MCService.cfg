SPECIFICATION FairSpec
CONSTANTS
    None = None
    Names = {"news", "started", "stopped", "added", "changed", "removed"}
    FillNames = {"started"}
    SystemEvents = {"started", "stopped", "added", "changed", "removed"}
    STOPPED = "stopped"
    Bundles = {"b"}
    AllowList = {"b"}
    Users = {100}
    Permissions = {"granted", "asked"}
    Profiles <- MCProfiles
    Denied = {}
    MAX_FAILURES = 1
    Uids = {"app", "native", "pm", "am"}
    PackageManager = "pm"
    AccountManager = "am"
    Caller <- MCCaller
    Plans <- MCPlans
    FLOOD_ATTACK_NUMBER_MAX = 1
    FLOOD_ATTACK_INTERVAL_MAX = 0
    MaxTime = 1
INVARIANTS
    StartedOnce
    TableIsTrue
    OnlyOwnUser
    ReceiversFollowCalls
    HandedIsReadable
    RefusesExactlyFloods
PROPERTIES
    EverythingSettles
CHECK_DEADLOCK FALSE
