\* A restart in a new month.
SPECIFICATION Spec
CONSTANTS
    k1 = k1  k2 = k2  p1 = p1
    Keys = {k1}
    Polls = {}
    Realtime = TRUE
    OutboxWritten = FALSE
    SlowSeed = FALSE
    MaxMonth = 1
    MaxChanges = 2
    MaxDeletes = 0
    MaxUnits = 1
    MaxDenials = 0
    MaxDrops = 0
    MaxCrashes = 1
    MaxWipes = 0
    MaxFaults = 0
INVARIANTS
    NoUnitsInvented
