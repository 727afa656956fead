\* Two overlapping flushes, a month boundary, failed and doubtful inserts, a
\* crash and a deleted account.
SPECIFICATION Spec
CONSTANTS
    k1 = k1  k2 = k2  f1 = f1  f2 = f2
    Flushes = {f1, f2}
    Keys = {k1}
    Months = {0, 1}
    MonthOf <- MonthPerMinute
    FLUSH_CHUNK = 2
    MaxMinute = 1
    MaxUnits = 2
    MaxDenials = 1
    MaxResends = 1
    MaxFaults = 1
    MaxUnheeded = 1
    MaxCrashes = 1
    MaxDeletes = 1
SYMMETRY FlushSymmetry
CONSTRAINT FewMishaps
INVARIANTS
    EventsConserved
    MirrorNeverAhead
PROPERTIES
    LedgerKept
