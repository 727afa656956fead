\* A revocation while the key's mark is queued.
SPECIFICATION RunningSpec
CONSTANTS
    k1 = k1  k2 = k2  p1 = p1
    Keys = {k1}
    Polls = {p1}
    Realtime = TRUE
    OutboxWritten = FALSE
    SlowSeed = FALSE
    MaxMonth = 0
    MaxChanges = 2
    MaxDeletes = 0
    MaxUnits = 1
    MaxDenials = 1
    MaxDrops = 0
    MaxCrashes = 0
    MaxWipes = 0
    MaxFaults = 0
PROPERTIES
    RevokedKeyGoesDead
