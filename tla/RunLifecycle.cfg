SPECIFICATION FairSpec

CONSTANTS
    Clients = {"shell", "acp"}
    MaxPrompts <- MCMaxPrompts
    MaxMishaps = 1
    MaxTurns = 3
    MaxRepairs = 1
    MaxRepeated = 1
    Roots = 1
    Batches <- MCBatches

INVARIANTS
    FollowUpsKept
    SuccessIsEarned
    ResultStands

CHECK_DEADLOCK FALSE

PROPERTIES
    RunEnds
