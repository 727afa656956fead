\* Two tabs of one browser, two users, prefixes that collide.
SPECIFICATION Spec
CONSTANTS
    ann = ann  bob = bob  t1 = t1  t2 = t2  r1 = r1  r2 = r2  x = x  y = y
    Nobody = Nobody
    NoKey = NoKey
    Users = {ann, bob}
    Tabs = {t1, t2}
    Requests = {r1, r2}
    Tokens = {x, y}
    Environments = {"live"}
    MAX_PREFIX_ATTEMPTS = 2
    MaxSubmits = 2
    MaxRevokes = 1
    MaxSignIns = 2
    MaxDeletes = 0
    MaxFaults = 1
SYMMETRY Alike
INVARIANTS
    TypeOK
    ShownKeyIsStored
    OneRowPerSubmission
    ShownOnce
    OnlyOwnersRevoke
