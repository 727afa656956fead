--------------------------- MODULE MCForwardAuth ---------------------------
(***************************************************************************)
(* Instances of ForwardAuth for TLC: the rows, the requests and the        *)
(* calendar.  Every cfg picks the ones its question needs.                 *)
(***************************************************************************)
EXTENDS ForwardAuth, TLC

CONSTANTS k1, k2, c1, c2, c3, good, bad

MCHashes == {good, bad}

Request(secret, authorization, apikey) ==
    [secret |-> secret, authorization |-> authorization, apikey |-> apikey]
Presented(prefix, hash, env) == [prefix |-> prefix, hash |-> hash, env |-> env]
KeyRow(env, monthly, perMinute, expires) ==
    [hash |-> good, environment |-> env, monthlyLimit |-> monthly,
     rateLimitPerMin |-> perMinute, expiresAt |-> expires]

(* Two months of one minute each: calls straddle the rollover.             *)
MonthPerMinute == [m \in Minutes |-> m]
(* One long month.                                                         *)
OneMonth == [m \in Minutes |-> 0]

\* A live key with one unit a month and two calls a minute.
LimitsRow == [k \in Keys |-> KeyRow("live", 1, 2, None)]
\* A live key that expires after minute 0 and has no rate limit, and a test key under both ceilings.
MixedRow == [k \in Keys |-> IF k = k1 THEN KeyRow("live", 1, None, 0)
                                      ELSE KeyRow("test", 5, None, None)]

LiveOnly == {Request("s", Presented(k1, good, "live"), None)}
\* Every way authorize() can reject or read a request, beside genuine ones.
MixedInputs ==
    {Request("s", Presented(k1, good, "live"), None),
     Request("s", Opaque, Presented(k2, good, "test")),
     Request("s", Presented(k2, good, "live"), Presented(k1, good, "live")),
     Request("s", Presented(k1, bad, "live"), None),
     Request("s", Presented("unknown", good, "live"), None),
     Request("s", Presented(None, good, "live"), None),
     Request("s", None, Opaque),
     Request("x", Presented(k1, good, "live"), None)}

CallSymmetry == Permutations(Calls)
=============================================================================
