SPECIFICATION FairSpec
CONSTANTS
    Root = root
    Children = {c1, c2, c3}
    MaxRequests = 5
    MaxTurns = 3
    MaxChildTurns = 3
    MaxDescendants = 3
    MaxDepth = 2
    MaxConcurrent = 1
    ParallelReads = 2
INVARIANTS Funded ConclusionFunded CombineFunded Drained
PROPERTY RunSettles
