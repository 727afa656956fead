\* The program as it is, nothing writing the outbox, over a month boundary: one loss of
\* each kind.
SPECIFICATION FairSpec
CONSTANTS
    k1 = k1  k2 = k2  p1 = p1
    Keys = {k1}
    Polls = {p1}
    Realtime = TRUE
    OutboxWritten = FALSE
    SlowSeed = FALSE
    MaxMonth = 1
    MaxChanges = 4
    MaxDeletes = 1
    MaxUnits = 1
    MaxDenials = 1
    MaxDrops = 1
    MaxCrashes = 1
    MaxWipes = 1
    MaxFaults = 1
PROPERTIES
    HashesComeToFollow
