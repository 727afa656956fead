\* A form submitted, the page loaded again, another submitted; live and test keys,
\* prefixes all taken in the end, accounts deleted.
SPECIFICATION FairSpec
CONSTANTS
    ann = ann  bob = bob  t1 = t1  t2 = t2  r1 = r1  r2 = r2  x = x  y = y
    Nobody = Nobody
    NoKey = NoKey
    Users = {ann, bob}
    Tabs = {t1}
    Requests = {r1, r2}
    Tokens = {x}
    Environments = {"live", "test"}
    MAX_PREFIX_ATTEMPTS = 2
    MaxSubmits = 2
    MaxRevokes = 0
    MaxSignIns = 2
    MaxDeletes = 1
    MaxFaults = 1
PROPERTIES
    DialogComesBack
