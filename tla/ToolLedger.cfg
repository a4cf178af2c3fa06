SPECIFICATION Spec
CONSTANTS
    Calls = {r1, r2, w1}
    Reads = {r1, r2}
    Defaulted = {w1}
    ParallelReads = 2
    MaxRuns = 2
    MaxCancels = 1
    MaxFaults = 1
    MaxCrashes = 1
INVARIANTS
    TranscriptRepairable
    SettledAtRest
    RowMatchesResult
PROPERTIES
    ImplementsToolOutcome
SYMMETRY ReadSymmetry
