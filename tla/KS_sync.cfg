\* The whole synchronisation of a key, with an outbox that is written.
SPECIFICATION Spec
CONSTANTS
    k1 = k1  k2 = k2  p1 = p1
    Keys = {k1}
    Polls = {p1}
    Realtime = TRUE
    OutboxWritten = TRUE
    SlowSeed = TRUE
    MaxMonth = 0
    MaxChanges = 3
    MaxDeletes = 1
    MaxUnits = 2
    MaxDenials = 1
    MaxDrops = 1
    MaxCrashes = 1
    MaxWipes = 1
    MaxFaults = 1
INVARIANTS
    TypeOK
    MetaFollowsRows
    NoUnitsInvented
PROPERTIES
    CountersKept
