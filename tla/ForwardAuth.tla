----------------------------- MODULE ForwardAuth -----------------------------
(***************************************************************************)
(* The forward-auth endpoint of the gateway: AuthService.authorize and the *)
(* RateLimitService it calls, as APISIX runs them, many calls at a time    *)
(* over one Redis.                                                         *)
(*                                                                         *)
(* authorize() is a chain of Redis commands with an await between each     *)
(* two.  Redis executes one command at a time, so an action below is the   *)
(* execution of one command together with the synchronous code that runs   *)
(* on its reply, up to the next command.  Between two actions of a call    *)
(* any other call, the key synchronisation and the clock may move.         *)
(***************************************************************************)
EXTENDS Integers, Sequences, FiniteSets

CONSTANTS
    Calls,              \* slots for calls of authorize() in progress at once
    Keys,               \* the api_keys rows, each known by its unique key_prefix
    Row,                \* Row[k]: the columns of k that nothing updates
    Hashes,             \* HMACs of full keys, under the pepper
    Inputs,             \* the requests APISIX may present
    ForwardAuthSecret,  \* config.forwardAuthSecret, or None when it is unset
    RateCeiling,        \* config.testEnvRateLimitPerMinCeiling
    MonthlyCeiling,     \* config.testEnvMonthlyLimitCeiling
    Months,             \* calendar months
    MonthOf,            \* MonthOf[minute]: the month a minute of the clock is in
    Opaque,             \* a header in which there is no key to read
    None                \* an absent value: header, limit, expiry, secret, prefix

CONSTANTS               \* bounds for model checking
    MaxMinute,          \* the clock stops here
    MaxArrivals,        \* calls that ever arrive
    MaxResends,         \* commands that Redis executes a second time
    MaxFaults           \* crashes and writes of the key synchronisation

Statuses == {"active", "exhausted", "revoked", "expired"}   \* api_keys.status
NoMeta   == "absent"    \* no hash under key:meta:{prefix}, or one without an id

Minutes == 0 .. MaxMinute

(* A presented key is reduced to what authorize() reads off it: the prefix *)
(* it parses to (None when malformed), its HMAC, its gw_{env}_ segment.    *)
Credentials ==
    [prefix : Keys \cup {"unknown", None}, hash : Hashes, env : {"live", "test"}]
Headers == Credentials \cup {None, Opaque}

ASSUME CallsAssumption == IsFiniteSet(Calls) /\ Calls # {}
ASSUME ConfigAssumption ==
    /\ RateCeiling \in Nat
    /\ MonthlyCeiling \in Nat
    /\ MaxMinute \in Nat
    /\ MonthOf \in [Minutes -> Months]
    /\ None \notin Nat /\ None \notin Keys /\ None \notin Credentials /\ Opaque \notin Credentials
    /\ "unknown" \notin Keys
    /\ \A i \in Inputs : i.authorization \in Headers /\ i.apikey \in Headers
ASSUME RowAssumption ==
    \A k \in Keys : /\ Row[k].monthlyLimit \in Nat
                    /\ Row[k].rateLimitPerMin \in Nat \cup {None}
                    /\ Row[k].expiresAt \in Nat \cup {None}

VARIABLES
    clock,          \* the minute shown by new Date()
    meta,           \* meta[k]: the status in the Redis hash of k, or NoMeta
    counter,        \* counter[k, month]: usage:{id}:{ym}, 0 when unset
    rate,           \* rate[k, minute]: ratelimit:{id}:{minute}, 0 when unset
    rateTtl,        \* minute in which that counter expires, None when no TTL
    usageQueue,     \* usage:queue, oldest event first: [key, at]
    statusQueue,    \* key:status:queue, oldest entry first: keys to mark exhausted
    pc,             \* the Redis command call c is waiting for
    cred,           \* the key presented to call c
    at,             \* the minute of c's `now`, read once when it starts
    answer          \* what c answered APISIX

redisVars == <<meta, counter, rate, rateTtl, usageQueue, statusQueue>>
callVars  == <<pc, cred, at, answer>>

VARIABLES           \* history: what has happened, read by no action's guard
    arrivals,       \* calls that have arrived
    resends,        \* commands executed twice
    faults,         \* crashes and synchronisation writes so far
    passed,         \* passed[k, minute]: calls the rate limit let through
    lives,          \* lives[k, minute]: times that counter started from nothing
    unmatched,      \* unmatched[k, month]: units counted that no event will follow
    repeated,       \* repeated[k, month]: events pushed a second time
    forwarded       \* forwarded[k, month]: calls answered 200

historyVars == <<arrivals, resends, faults, passed, lives, unmatched, repeated,
                 forwarded>>
vars == <<clock, redisVars, callVars, historyVars>>
-----------------------------------------------------------------------------
Init ==
    /\ clock = 0
    /\ meta = [k \in Keys |-> "active"]
    /\ counter = [km \in Keys \X Months |-> 0]
    /\ rate = [km \in Keys \X Minutes |-> 0]
    /\ rateTtl = [km \in Keys \X Minutes |-> None]
    /\ usageQueue = <<>>
    /\ statusQueue = <<>>
    /\ pc = [c \in Calls |-> "idle"]
    /\ cred = [c \in Calls |-> None]
    /\ at = [c \in Calls |-> 0]
    /\ answer = [c \in Calls |-> "none"]
    /\ arrivals = 0 /\ resends = 0 /\ faults = 0
    /\ passed = [km \in Keys \X Minutes |-> 0]
    /\ lives = [km \in Keys \X Minutes |-> 0]
    /\ unmatched = [km \in Keys \X Months |-> 0]
    /\ repeated = [km \in Keys \X Months |-> 0]
    /\ forwarded = [km \in Keys \X Months |-> 0]

(* The key of call c, and its two counters. *)
KeyOf(c)   == cred[c].prefix
Period(c)  == <<cred[c].prefix, MonthOf[at[c]]>>
Window(c)  == <<cred[c].prefix, at[c]>>

(* The calls that found quota left for km = <<key, month>> and have not    *)
(* counted their unit yet, and those that counted it and owe its event.    *)
Committed(km) == {c \in Calls : pc[c] = "incr" /\ Period(c) = km}
Owing(km)     == {c \in Calls : pc[c] = "push" /\ Period(c) = km}

Smaller(a, b) == IF a < b THEN a ELSE b

(* Infinity stands in for a test key's missing limit, so the ceiling wins. *)
EffectiveRateLimit(k) ==
    IF Row[k].environment # "test" THEN Row[k].rateLimitPerMin
    ELSE IF Row[k].rateLimitPerMin = None THEN RateCeiling
    ELSE Smaller(Row[k].rateLimitPerMin, RateCeiling)

MonthlyLimitUncapped(k) == Row[k].monthlyLimit              \* mutant: no ceiling
EffectiveMonthlyLimit(k) ==
    IF Row[k].environment = "test"
    THEN Smaller(Row[k].monthlyLimit, MonthlyCeiling)
    ELSE Row[k].monthlyLimit

(* extractKey: the Authorization header when it is a bearer token, else the *)
(* apikey header, else nothing.                                             *)
ExtractKey(i) ==
    IF i.authorization \in Credentials THEN i.authorization
    ELSE IF i.apikey \in Credentials THEN i.apikey
    ELSE None

Answer(c, a) ==
    /\ pc' = [pc EXCEPT ![c] = "done"]
    /\ answer' = [answer EXCEPT ![c] = a]

GoTo(c, label) ==
    /\ pc' = [pc EXCEPT ![c] = label]
    /\ UNCHANGED answer
-----------------------------------------------------------------------------
(* A request reaches a free slot.  Everything before the first await: trust *)
(* gate, missing key, malformed key, and `now`.                             *)
Arrive(c, i) ==
    /\ pc[c] \in {"idle", "done"}
    /\ arrivals < MaxArrivals
    /\ arrivals' = arrivals + 1
    /\ cred' = [cred EXCEPT ![c] = ExtractKey(i)]
    /\ at' = [at EXCEPT ![c] = clock]
    /\ LET trusted == ForwardAuthSecret # None /\ i.secret = ForwardAuthSecret
           usable  == ExtractKey(i) # None /\ ExtractKey(i).prefix # None
       IN  IF trusted /\ usable
           THEN /\ pc' = [pc EXCEPT ![c] = "meta"]
                /\ answer' = [answer EXCEPT ![c] = "none"]
           ELSE Answer(c, "401")
    /\ UNCHANGED <<clock, redisVars, resends, faults, passed, lives, unmatched,
                   repeated, forwarded>>

(* What the hash of the presented key's prefix says, and whether the key   *)
(* presented is the one it describes.                                      *)
Known(p)    == p \in Keys /\ meta[p] # NoMeta
GenuineInAnyEnv(cr) == cr.hash = Row[cr.prefix].hash        \* mutant: no cross-check
Genuine(cr) == cr.hash = Row[cr.prefix].hash /\ cr.env = Row[cr.prefix].environment
Expired(k, minute) ==
    \/ meta[k] = "expired"
    \/ Row[k].expiresAt # None /\ Row[k].expiresAt < minute

(* RateLimitService.check returns at once for a key without a rate limit.  *)
AlwaysRateLimit(c) == "rate"                      \* mutant: null limit not special
FirstLimit(c) == IF EffectiveRateLimit(KeyOf(c)) = None THEN "quota" ELSE "rate"

(* HGETALL key:meta:{prefix}, then every check that reads only the hash.   *)
ReadMeta(c) ==
    /\ pc[c] = "meta"
    /\ IF ~Known(KeyOf(c)) \/ ~Genuine(cred[c]) \/ meta[KeyOf(c)] = "revoked"
       THEN Answer(c, "401")
       ELSE IF Expired(KeyOf(c), at[c])
       THEN Answer(c, "403")
       ELSE GoTo(c, FirstLimit(c))
    /\ UNCHANGED <<clock, redisVars, cred, at, historyVars>>

(* The verdict of RateLimitService.check on the count INCR returned.       *)
WithinRateLoose(c, count) == count <= EffectiveRateLimit(KeyOf(c)) + 1  \* mutant
WithinRateStrict(c, count) == count < EffectiveRateLimit(KeyOf(c))      \* mutant
WithinRate(c, count) == count <= EffectiveRateLimit(KeyOf(c))

Verdict(c, count) ==
    IF WithinRate(c, count)
    THEN /\ GoTo(c, "quota")
         /\ passed' = [passed EXCEPT ![Window(c)] = @ + 1]
    ELSE /\ Answer(c, "429 rate")
         /\ UNCHANGED passed

(* Mutant: the counter never gets a TTL. *)
RateIncrNoTtl(c) ==
    /\ pc[c] = "rate"
    /\ rate' = [rate EXCEPT ![Window(c)] = @ + 1]
    /\ Verdict(c, rate[Window(c)] + 1)
    /\ UNCHANGED <<clock, meta, counter, rateTtl, usageQueue, statusQueue, cred,
                   at, arrivals, resends, faults, lives, unmatched, repeated,
                   forwarded>>

(* INCR of the minute's counter; only the call that made it sets the TTL.  *)
RateIncr(c) ==
    /\ pc[c] = "rate"
    /\ LET count == rate[Window(c)] + 1 IN
       /\ rate' = [rate EXCEPT ![Window(c)] = count]
       /\ IF count = 1
          THEN /\ GoTo(c, "expire")
               /\ lives' = [lives EXCEPT ![Window(c)] = @ + 1]
               /\ UNCHANGED passed
          ELSE Verdict(c, count) /\ UNCHANGED lives
    /\ UNCHANGED <<clock, meta, counter, rateTtl, usageQueue, statusQueue, cred,
                   at, arrivals, resends, faults, unmatched, repeated, forwarded>>

(* Mutant: the verdict is not taken after EXPIRE. *)
RateExpireOnly(c) ==
    /\ pc[c] = "expire"
    /\ rateTtl' = [rateTtl EXCEPT ![Window(c)] = clock + 1]
    /\ UNCHANGED <<clock, meta, counter, rate, usageQueue, statusQueue, callVars,
                   historyVars>>

(* EXPIRE of that counter, 60 s from now: it goes during the next minute.  *)
RateExpire(c) ==
    /\ pc[c] = "expire"
    /\ rateTtl' = [rateTtl EXCEPT ![Window(c)] = clock + 1]
    /\ Verdict(c, 1)
    /\ UNCHANGED <<clock, meta, counter, rate, usageQueue, statusQueue, cred, at,
                   arrivals, resends, faults, lives, unmatched, repeated, forwarded>>

QuotaUsedUpLate(c)  == counter[Period(c)] > EffectiveMonthlyLimit(KeyOf(c))       \* mutant
QuotaUsedUpEarly(c) == counter[Period(c)] + 1 >= EffectiveMonthlyLimit(KeyOf(c))  \* mutant
QuotaUsedUp(c) == counter[Period(c)] >= EffectiveMonthlyLimit(KeyOf(c))

(* GET of the month's counter and the quota decision taken on it.          *)
QuotaRead(c) ==
    /\ pc[c] = "quota"
    /\ GoTo(c, IF QuotaUsedUp(c) THEN "exhaustMeta" ELSE "incr")
    /\ UNCHANGED <<clock, redisVars, cred, at, historyVars>>

(* HSET status exhausted, whatever the hash says by now.  On a hash that   *)
(* is gone it leaves a single field, which parseMetaHash reads as absent.  *)
ExhaustMeta(c) ==
    /\ pc[c] = "exhaustMeta"
    /\ meta' = [meta EXCEPT ![KeyOf(c)] = IF @ = NoMeta THEN NoMeta ELSE "exhausted"]
    /\ GoTo(c, "exhaustQueue")
    /\ UNCHANGED <<clock, counter, rate, rateTtl, usageQueue, statusQueue, cred,
                   at, historyVars>>

(* LPUSH of the status change for the flush, then 429.                     *)
ExhaustQueue(c) ==
    /\ pc[c] = "exhaustQueue"
    /\ statusQueue' = Append(statusQueue, KeyOf(c))
    /\ Answer(c, "429 quota")
    /\ UNCHANGED <<clock, meta, counter, rate, rateTtl, usageQueue, cred, at,
                   historyVars>>

(* Mutant: the month is read again at the INCR. *)
CountUnitNow(c) ==
    /\ pc[c] = "incr"
    /\ counter' = [counter EXCEPT ![<<KeyOf(c), MonthOf[clock]>>] = @ + 1]
    /\ GoTo(c, "push")
    /\ UNCHANGED <<clock, meta, rate, rateTtl, usageQueue, statusQueue, cred, at,
                   historyVars>>

(* INCR of the month's counter.                                            *)
CountUnit(c) ==
    /\ pc[c] = "incr"
    /\ counter' = [counter EXCEPT ![Period(c)] = @ + 1]
    /\ GoTo(c, "push")
    /\ UNCHANGED <<clock, meta, rate, rateTtl, usageQueue, statusQueue, cred, at,
                   historyVars>>

EventNow(c) == [key |-> KeyOf(c), at |-> clock]           \* mutant: a second `now`
Event(c) == [key |-> KeyOf(c), at |-> at[c]]

(* LPUSH of the usage event, then 200.                                     *)
PushEvent(c) ==
    /\ pc[c] = "push"
    /\ usageQueue' = Append(usageQueue, Event(c))
    /\ Answer(c, "200")
    /\ forwarded' = [forwarded EXCEPT ![Period(c)] = @ + 1]
    /\ UNCHANGED <<clock, meta, counter, rate, rateTtl, statusQueue, cred, at,
                   arrivals, resends, faults, passed, lives, unmatched, repeated>>
-----------------------------------------------------------------------------
(* The client is opened with maxRetriesPerRequest: null, so a command whose *)
(* reply was lost with the connection is sent again after the reconnect:    *)
(* Redis executes it twice and the call sees the second reply.              *)
ResendRateIncr(c) ==
    /\ pc[c] = "rate" /\ resends < MaxResends
    /\ resends' = resends + 1
    /\ rate' = [rate EXCEPT ![Window(c)] = @ + 1]
    /\ lives' = [lives EXCEPT ![Window(c)] = IF rate[Window(c)] = 0 THEN @ + 1 ELSE @]
    /\ UNCHANGED <<clock, meta, counter, rateTtl, usageQueue, statusQueue, callVars,
                   arrivals, faults, passed, unmatched, repeated, forwarded>>

ResendCountUnit(c) ==
    /\ pc[c] = "incr" /\ resends < MaxResends
    /\ resends' = resends + 1
    /\ counter' = [counter EXCEPT ![Period(c)] = @ + 1]
    /\ unmatched' = [unmatched EXCEPT ![Period(c)] = @ + 1]
    /\ UNCHANGED <<clock, meta, rate, rateTtl, usageQueue, statusQueue, callVars,
                   arrivals, faults, passed, lives, repeated, forwarded>>

ResendExhaustQueue(c) ==
    /\ pc[c] = "exhaustQueue" /\ resends < MaxResends
    /\ resends' = resends + 1
    /\ statusQueue' = Append(statusQueue, KeyOf(c))
    /\ UNCHANGED <<clock, meta, counter, rate, rateTtl, usageQueue, callVars,
                   arrivals, faults, passed, lives, unmatched, repeated, forwarded>>

ResendPushEvent(c) ==
    /\ pc[c] = "push" /\ resends < MaxResends
    /\ resends' = resends + 1
    /\ usageQueue' = Append(usageQueue, Event(c))
    /\ repeated' = [repeated EXCEPT ![Period(c)] = @ + 1]
    /\ UNCHANGED <<clock, meta, counter, rate, rateTtl, statusQueue, callVars,
                   arrivals, faults, passed, lives, unmatched, forwarded>>

(* Redis drops a rate counter whose TTL has run out.                       *)
RateKeyExpires(k, m) ==
    /\ rateTtl[<<k, m>>] # None /\ rateTtl[<<k, m>>] <= clock
    /\ rate' = [rate EXCEPT ![<<k, m>>] = 0]
    /\ rateTtl' = [rateTtl EXCEPT ![<<k, m>>] = None]
    /\ UNCHANGED <<clock, meta, counter, usageQueue, statusQueue, callVars, historyVars>>

(* Time passes.                                                            *)
Tick ==
    /\ clock < MaxMinute
    /\ clock' = clock + 1
    /\ UNCHANGED <<redisVars, callVars, historyVars>>

(* KeysService or BootstrapService writes a whole hash, or drops it.       *)
SyncMeta(k, s) ==
    /\ faults < MaxFaults /\ s # meta[k]
    /\ faults' = faults + 1
    /\ meta' = [meta EXCEPT ![k] = s]
    /\ UNCHANGED <<clock, counter, rate, rateTtl, usageQueue, statusQueue, callVars,
                   arrivals, resends, passed, lives, unmatched, repeated, forwarded>>

(* The gateway process dies: the calls in progress are gone, Redis is not.  *)
(* The units of the calls that had counted but not queued have no event.    *)
Crash ==
    /\ faults < MaxFaults
    /\ \E c \in Calls : pc[c] \notin {"idle", "done"}
    /\ faults' = faults + 1
    /\ pc' = [c \in Calls |-> "idle"]
    /\ answer' = [c \in Calls |-> "none"]
    /\ unmatched' = [km \in Keys \X Months |-> unmatched[km] + Cardinality(Owing(km))]
    /\ UNCHANGED <<clock, redisVars, cred, at, arrivals, resends, passed, lives,
                   repeated, forwarded>>

(* No traffic: nothing is in progress and the bounds are used up.          *)
Rest ==
    /\ arrivals = MaxArrivals /\ clock = MaxMinute
    /\ \A c \in Calls : pc[c] \in {"idle", "done"}
    /\ UNCHANGED vars

Step(c) ==
    \/ ReadMeta(c)
    \/ RateIncr(c)
    \/ RateExpire(c)
    \/ QuotaRead(c)
    \/ ExhaustMeta(c)
    \/ ExhaustQueue(c)
    \/ CountUnit(c)
    \/ PushEvent(c)

Resend(c) ==
    \/ ResendRateIncr(c)
    \/ ResendCountUnit(c)
    \/ ResendExhaustQueue(c)
    \/ ResendPushEvent(c)

Next ==
    \/ \E c \in Calls, i \in Inputs : Arrive(c, i)
    \/ \E c \in Calls : Step(c)
    \/ \E c \in Calls : Resend(c)
    \/ \E k \in Keys, m \in Minutes : RateKeyExpires(k, m)
    \/ \E k \in Keys, s \in Statuses \cup {NoMeta} : SyncMeta(k, s)
    \/ Tick
    \/ Crash
    \/ Rest

(* Redis answers every command: a started call keeps moving.               *)
Fairness ==
    /\ \A c \in Calls : WF_vars(Step(c))
    /\ \A k \in Keys, m \in Minutes : WF_vars(RateKeyExpires(k, m))
    /\ WF_vars(Tick)

Spec == Init /\ [][Next]_vars
FairSpec == Spec /\ Fairness
-----------------------------------------------------------------------------
PCs == {"idle", "meta", "rate", "expire", "quota", "exhaustMeta", "exhaustQueue",
        "incr", "push", "done"}
Answers == {"none", "200", "401", "403", "429 rate", "429 quota"}

VariablesTyped ==
    /\ clock \in Minutes
    /\ meta \in [Keys -> Statuses \cup {NoMeta}]
    /\ counter \in [Keys \X Months -> Nat]
    /\ rate \in [Keys \X Minutes -> Nat]
    /\ rateTtl \in [Keys \X Minutes -> Nat \cup {None}]
    /\ usageQueue \in Seq([key : Keys, at : Minutes])
    /\ statusQueue \in Seq(Keys)
    /\ pc \in [Calls -> PCs]
    /\ cred \in [Calls -> Credentials \cup {None}]
    /\ at \in [Calls -> Minutes]
    /\ answer \in [Calls -> Answers]
    /\ arrivals \in Nat /\ resends \in Nat /\ faults \in Nat
    /\ passed \in [Keys \X Minutes -> Nat]
    /\ lives \in [Keys \X Minutes -> Nat]
    /\ unmatched \in [Keys \X Months -> Nat]
    /\ repeated \in [Keys \X Months -> Nat]
    /\ forwarded \in [Keys \X Months -> Nat]

AtRow(c) ==
    /\ pc[c] = "meta" => cred[c] \in Credentials
    /\ pc[c] \notin {"idle", "meta", "done"} =>
          cred[c] \in Credentials /\ KeyOf(c) \in Keys
    /\ pc[c] \in {"rate", "expire"} => EffectiveRateLimit(KeyOf(c)) # None

(* Types of the variables; and a call past the hash lookup works on a row  *)
(* of api_keys, one in the rate limiter on a row that has a rate limit.    *)
TypeOK == VariablesTyped /\ \A c \in Calls : AtRow(c)

(* The events in the queue for km = <<key, month>>.                        *)
EventsOf(km) == {n \in DOMAIN usageQueue :
                    <<usageQueue[n].key, MonthOf[usageQueue[n].at]>> = km}

(* Quota.  GET and INCR are separate commands, so calls that read the      *)
(* counter together may all pass and the limit be overshot; but by no more *)
(* than the other calls in progress, plus the INCRs Redis ran twice,       *)
(* however many calls arrive in the month.                                 *)
QuotaOvershootBounded ==
    \A k \in Keys, m \in Months :
        counter[<<k, m>>] + Cardinality(Committed(<<k, m>>)) <=
            EffectiveMonthlyLimit(k) + Cardinality(Calls) - 1 + resends

(* A call that refuses for quota does so in a month whose limit is spent,  *)
(* then and ever after, and a key is queued to be marked exhausted only    *)
(* when some month of its own is spent.                                    *)
Spent(k, m) == counter[<<k, m>>] >= EffectiveMonthlyLimit(k)
QuotaRefusalsEarned ==
    /\ \A c \in Calls :
          (pc[c] \in {"exhaustMeta", "exhaustQueue"} \/ answer[c] = "429 quota")
              => Spent(KeyOf(c), MonthOf[at[c]])
    /\ \A n \in DOMAIN statusQueue : \E m \in Months : Spent(statusQueue[n], m)

(* "the sandbox must stay cheap" (configuration.ts:245-249): whatever its  *)
(* row says, a test key gets no more units a month and no more calls per   *)
(* life of a minute's counter than the ceilings, within the same slack.    *)
SandboxCeilings ==
    \A k \in Keys : Row[k].environment = "test" =>
        /\ \A m \in Months :
              counter[<<k, m>>] <= MonthlyCeiling + Cardinality(Calls) - 1 + resends
        /\ \A m \in Minutes : passed[<<k, m>>] <= RateCeiling * lives[<<k, m>>]

(* Whoever gets past the hash lookup - forwarded, charged or refused for   *)
(* its limits - presented the whole key of that row, in the environment    *)
(* the row is for, and before it expired.                                  *)
OnlyGenuineKeysCharged ==
    \A c \in Calls :
        (\/ pc[c] \notin {"idle", "meta", "done"}
         \/ answer[c] \in {"200", "429 rate", "429 quota"}) =>
            LET row == Row[KeyOf(c)] IN
            /\ cred[c].hash = row.hash /\ cred[c].env = row.environment
            /\ row.expiresAt = None \/ at[c] <= row.expiresAt

(* Metering.  Each unit counted in Redis has one event in the queue, is    *)
(* owed one by a call between its two writes, or was left over by a crash  *)
(* or by an INCR that Redis ran twice; the queue holds nothing else but    *)
(* events pushed twice.  A refused call leaves neither unit nor event.     *)
MeterMatchesQueue ==
    \A km \in Keys \X Months :
        counter[km] + repeated[km] =
            Cardinality(EventsOf(km)) + Cardinality(Owing(km)) + unmatched[km]

(* No request is forwarded upstream without a unit counted for it first.   *)
NothingForwardedUncounted ==
    \A km \in Keys \X Months :
        forwarded[km] + Cardinality(Owing(km)) + unmatched[km] = counter[km]

(* Rate limit.  A minute's counter lets at most its limit of calls through *)
(* each time it starts from nothing: concurrent calls cannot share a count.*)
RateLimitHolds ==
    \A k \in Keys, m \in Minutes :
        EffectiveRateLimit(k) # None =>
            passed[<<k, m>>] <= EffectiveRateLimit(k) * lives[<<k, m>>]

(* The whole limit is available: a call is refused for rate only when as   *)
(* many calls as the limit were let through in its minute, counting one    *)
(* that still sets the TTL, and up to the INCRs run twice and the crashes. *)
Creating(km) == {c \in Calls : pc[c] = "expire" /\ Window(c) = km}
RateRefusalsEarned ==
    \A c \in Calls :
        answer[c] = "429 rate" =>
            passed[Window(c)] + Cardinality(Creating(Window(c))) + resends + faults
                >= EffectiveRateLimit(KeyOf(c))

(* Towards the flush, authorize() is the UsageFeed that UsageFlush relies  *)
(* on: it counts in the month of its own `now`, owes that count one event  *)
(* of that minute, and touches the counters and queues in no other way.    *)
Owed == [e \in [key : Keys, at : Minutes] |->
            Cardinality({c \in Calls : pc[c] = "push" /\ Event(c) = e})]
Feed == INSTANCE UsageFeed WITH owed <- Owed
FeedKept == Feed!FeedSpec

(* Every call is answered, and a minute's counter does not stay in Redis   *)
(* (unless its TTL ends after the last minute of the model).               *)
EveryCallAnswered ==
    \A c \in Calls : pc[c] \notin {"idle", "done"} ~> pc[c] \in {"idle", "done"}
RateCountersExpire ==
    \A k \in Keys, m \in Minutes :
        rate[<<k, m>>] > 0 ~> (rate[<<k, m>>] = 0 \/ rateTtl[<<k, m>>] \in {MaxMinute + 1})
=============================================================================
