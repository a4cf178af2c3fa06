\* Two requests of one process and one of another.
SPECIFICATION FairSpec
CONSTANTS
    Tasks = {t1, t2, t3}
    Processes = {p1, p2}
    ProcessOf <- Sharing
    None = None
    t1 = t1 t2 = t2 t3 = t3
    p1 = p1 p2 = p2 p3 = p3
    Troubles = {"cancel", "failure", "death", "login"}
    MaxTroubles = 1
    MaxRefusals = 2
    MaxAged = 1
INVARIANTS
    SpentOnce
    FileUsable
    RetryIsNewer
PROPERTIES
    RequestEnds
