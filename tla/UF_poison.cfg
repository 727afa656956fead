\* An account is deleted while an event of its key is queued.
SPECIFICATION FairSpec
CONSTANTS
    k1 = k1  k2 = k2  f1 = f1  f2 = f2
    Flushes = {f1}
    Keys = {k1, k2}
    Months = {0}
    MonthOf <- OneMonth
    FLUSH_CHUNK = 2
    MaxMinute = 0
    MaxUnits = 2
    MaxDenials = 0
    MaxResends = 0
    MaxFaults = 0
    MaxUnheeded = 0
    MaxCrashes = 0
    MaxDeletes = 1
PROPERTIES
    EventsOfLiveKeysRecorded
