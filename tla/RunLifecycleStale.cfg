SPECIFICATION Spec

CONSTANTS
    Clients = {"shell"}
    MaxPrompts <- MCStalePrompts
    MaxMishaps = 1
    MaxTurns = 5
    MaxRepairs = 1
    MaxRepeated = 1
    Roots = 1
    Batches <- MCStaleBatches

INVARIANTS
    PublishedIsCurrent

CHECK_DEADLOCK FALSE
