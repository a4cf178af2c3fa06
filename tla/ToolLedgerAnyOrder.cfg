SPECIFICATION FairSpec
CONSTANTS
    Calls = {r1, w1}
    Reads = {r1}
    Defaulted = {w1}
    ParallelReads = 2
    MaxRuns = 2
    MaxCancels = 2
    MaxFaults = 1
    MaxCrashes = 0
PROPERTIES
    OutcomesAreFinal
    RunEnds
