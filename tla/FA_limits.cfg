\* Three calls at once against one unit a month and two calls a minute, across
\* a boundary of both, with one command run twice and one crash or
\* synchronisation write; a call may be held up past its rate counter's TTL.
SPECIFICATION Spec
CONSTANTS
    k1 = k1  k2 = k2  c1 = c1  c2 = c2  c3 = c3  good = good  bad = bad
    None = None
    Opaque = Opaque
    Calls = {c1, c2, c3}
    Keys = {k1}
    Hashes <- MCHashes
    Row <- LimitsRow
    Inputs <- LiveOnly
    ForwardAuthSecret = "s"
    RateCeiling = 1
    MonthlyCeiling = 2
    Months = {0, 1}
    MonthOf <- MonthPerMinute
    MaxMinute = 1
    MaxArrivals = 4
    MaxResends = 1
    MaxFaults = 1
SYMMETRY CallSymmetry
INVARIANTS
    QuotaOvershootBounded
    QuotaRefusalsEarned
    MeterMatchesQueue
    NothingForwardedUncounted
    RateLimitHolds
    RateRefusalsEarned
PROPERTIES
    FeedKept
