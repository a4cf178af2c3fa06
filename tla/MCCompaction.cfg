SPECIFICATION ContextSpec

CONSTANTS
    NoPath = NoPath
    ReadSize = 3
    MaxFindings = 1
    Version = 2
    Llm = TRUE
    KeepRecent = 2
    Trigger = 8
    Target = 7
    Hard = 11
    RouteLimits = {9}
    ToolVolume = 4
    LargeVolume = 8
    Reserve = 1
    ChunkSize = 1
    MaxChunks = 1
    MaxInstruction = 4
    MaxRequests = 4
    MaxRetries = 1
    Paths = {p}
    Asks = {"request", "continue"}
    Hears <- MCHears
    Results <- MCResults
    MaxMessages = 6

INVARIANTS
    EverythingOnce
    EvidenceFaithful
    OnlyGuidanceBreaks

CHECK_DEADLOCK FALSE
