\* Three coroutines on one bus; a batch is two events and a delta is live-only.  The
\* trace holds four records, the table is pruned to one.
SPECIFICATION FairSpec
CONSTANTS
    Tasks = {t1, t2, t3}
    PersistDeltas = FALSE
    BatchSize = 2
    MaxRecords = 2
    Backups = 1
    Retained = 1
    MaxEvents = 3
    MaxCancels = 2
    MaxFaults = 1
    MaxUpkeep = 1
INVARIANTS
    StoredInOrder
    ObservedIsStored
    TracedInOrder
PROPERTY EmitEnds
