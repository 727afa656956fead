\* One flush at a time: two keys, a month boundary, inserts that fail
\* or seem to: everything pushed is recorded, the mirror is exact.
SPECIFICATION FairSpec
CONSTANTS
    k1 = k1  k2 = k2  f1 = f1  f2 = f2
    Flushes = {f1}
    Keys = {k1, k2}
    Months = {0, 1}
    MonthOf <- MonthPerMinute
    FLUSH_CHUNK = 2
    MaxMinute = 1
    MaxUnits = 2
    MaxDenials = 1
    MaxResends = 0
    MaxFaults = 1
    MaxUnheeded = 0
    MaxCrashes = 0
    MaxDeletes = 0
INVARIANTS
    TypeOK
    MirrorExactAtRest
PROPERTIES
    EventsOfLiveKeysRecorded
