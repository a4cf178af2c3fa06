\* Three jobs in two processes, two files; one edit, failure or crash.
SPECIFICATION FairSpec
CONSTANTS
    Jobs = {j1, j2, j3}
    Files = {f1, f2}
    Processes = {p1, p2}
    ProcessOf <- JobProcess
    CallsOf <- JobCalls
    None = None
    j1 = j1 j2 = j2 j3 = j3
    p1 = p1 p2 = p2
    f1 = f1 f2 = f2
    MaxCount = 1
    MaxTroubles = 1
INVARIANTS
    RefusedLeavesNothing
    Recoverable
PROPERTIES
    NoLostUpdate
    TransactionEnds
