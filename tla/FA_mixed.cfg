\* A live and a test key, every kind of request, both ceilings and expiry; no crash, so that
\* calls are answered and counters expire.
SPECIFICATION FairSpec
CONSTANTS
    k1 = k1  k2 = k2  c1 = c1  c2 = c2  c3 = c3  good = good  bad = bad
    None = None
    Opaque = Opaque
    Calls = {c1, c2}
    Keys = {k1, k2}
    Hashes <- MCHashes
    Row <- MixedRow
    Inputs <- MixedInputs
    ForwardAuthSecret = "s"
    RateCeiling = 2
    MonthlyCeiling = 1
    Months = {0}
    MonthOf <- OneMonth
    MaxMinute = 2
    MaxArrivals = 3
    MaxResends = 0
    MaxFaults = 0
INVARIANTS
    TypeOK
    OnlyGenuineKeysCharged
    SandboxCeilings
PROPERTIES
    EveryCallAnswered
    RateCountersExpire
