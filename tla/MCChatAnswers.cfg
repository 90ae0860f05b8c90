SPECIFICATION AnswersSpec
CONSTANTS
    Callers = {"a"}
    Keys = {"k1", "k2"}
    Models = {"m1", "m2"}
    KeyRpm = 9
    ModelRpm = 9
    MaxConcurrency = 1
    Minute = 1
    Transient = 1
    Ladder <- MCLadder
    HitWindow = 4
    ExhaustWindow = 5
    Overload = 1
    Default = 2
    Ceiling = 6
    Midnight = 9
    Floors = {0}
    Failures = {"rate_limit", "tool_choice", "transient", "behavior"}
    Pauses = 0
    MaxTime = 2
    Rules = {"r", "s", "o"}
    ModelOf <- MCModelOf
    RetryCount <- MCRetryCount
    Subproviders <- MCSubproviders
    Orders <- Short
    OverflowRule = "o"
    NoRule = "none"
    MaxTotal = 0
    Streaming = {}
    Remaining = {"none"}
    Parts = {"dispatch", "upstream", "filters", "dialects"}
    Upstreams = {s1, s2}
    Compressed = {s1}
    PieceLimit = 2
    UpstreamItems = 2
    UpstreamBytes = 6
    MaxPieces = 2
    OpenTag <- Open2
    CloseTag <- Close3
    JsonPrefixes <- Prefixes3
    Fence = "f"
    Newline = "n"
    SuffixSize = 2
    Marker <- Marker2
    HoldMax = 3
    ErrorPrefix <- Error2
    FilterSetups <- Setups
    FilterLetters <- LettersOf
    MaxLetters = 5
    MaxDelta = 3
    MaxEvents = 5
CHECK_DEADLOCK FALSE
INVARIANTS
    CallsBounded
    StreamsReturnAll
    ShownExactly
    AnswerFaithful
