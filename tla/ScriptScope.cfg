\* Two runs on one runner share two slots and two job ids.
SPECIFICATION FairSpec
CONSTANTS
    Scopes = {s1, s2}
    Jobs = {j1, j2}
    Calls = {c1}
    NoScope = NoScope
    MaxJobs = 2
    ParallelReads = 1
    MaxFaults = 1
INVARIANTS
    NothingOutlivesRun
    LateEffectsBounded
PROPERTIES
    StoppedDrains
