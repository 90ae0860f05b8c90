SPECIFICATION FairSpec
CONSTANTS
    Callers = {"a", "b"}
    Keys = {"k1", "k2"}
    Models = {"m1"}
    KeyRpm = 3
    ModelRpm = 3
    MaxConcurrency = 1
    Minute = 1
    Transient = 1
    Ladder <- MCLadder
    HitWindow = 4
    ExhaustWindow = 5
    Overload = 1
    Default = 2
    Ceiling = 6
    Midnight = 9
    Floors = {0}
    Failures = {"rate_limit", "overflow", "tool_choice"}
    Pauses = 0
    MaxTime = 1
    Rules = {"r", "o", "s"}
    ModelOf <- MCModelOf
    RetryCount <- MCRetryCount
    Subproviders <- OneSubprovider
    Orders <- ChainSR
    OverflowRule = "o"
    NoRule = "none"
    MaxTotal = 2
    Streaming = {"a"}
    Remaining = {"none"}
CHECK_DEADLOCK FALSE
INVARIANTS
    SlotsFollowRequests
    ChainBudget
    HandoffOnce
PROPERTIES
    ChainEnds
