SPECIFICATION LeaseFairSpec
CONSTANTS
    None = None
    Procs = {p1, p2, p3}
    MaxRuns = 3
    MaxCancels = 1
    MaxFaults = 1
    MaxCrashes = 2
CHECK_DEADLOCK FALSE
INVARIANTS
    MutualExclusion
    LiveNotInterrupted
    InterruptedMeansLost
PROPERTIES
    OwnerReleases
