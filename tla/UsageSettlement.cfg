\* A root with a summarizer and a fallback route, and two delegates at once.
SPECIFICATION Spec
CONSTANTS
    Root = root
    Delegates = {d1, d2}
    MaxCost = 5
    Estimate = 2
    MaxAttempts = 2
    MaxRoutes = 2
    MaxRequests = 3
    MaxRuns = 2
    MaxFaults = 1
    MaxCrashes = 1
INVARIANTS
    PendingExact
    WithinBudget
    SettledOnce
