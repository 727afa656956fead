---------------------------- MODULE MeteringProofs ----------------------------
(***************************************************************************)
(* What ForwardAuth charges, and to whom: the calls it lets past the hash, *)
(* the ones it refuses for the quota, and the books it keeps of the rest.  *)
(***************************************************************************)
EXTENDS ForwardAuthProofs

(* A step of the calls leaves all but one of them as they were.            *)
LEMMA StepOfOne ==
    ASSUME TypeOK, NEW c \in Calls, Step(c)
    PROVE  /\ UNCHANGED <<cred, at, resends, unmatched, repeated>>
           /\ \A d \in Calls \ {c} : pc'[d] = pc[d] /\ answer'[d] = answer[d]
           /\ pc'[c] \in {"expire", "quota", "exhaustMeta", "exhaustQueue", "incr", "push"} =>
                 answer'[c] = answer[c]
  BY DEF Step, ReadMeta, RateIncr, RateExpire, QuotaRead, ExhaustMeta, ExhaustQueue, CountUnit,
         PushEvent, Verdict, Answer, GoTo, FirstLimit, TypeOK, VariablesTyped, historyVars

(* Running a command twice moves no call.                                  *)
LEMMA ResendOfOne ==
    ASSUME NEW c \in Calls, Resend(c)
    PROVE  UNCHANGED <<pc, cred, at, answer, forwarded>>
  BY DEF Resend, ResendRateIncr, ResendCountUnit, ResendExhaustQueue, ResendPushEvent, callVars

(* What happens around the calls: time, expiry, synchronisation.           *)
Around ==
    \/ \E k \in Keys, m \in Minutes : RateKeyExpires(k, m)
    \/ \E k \in Keys, s \in Statuses \cup {NoMeta} : SyncMeta(k, s)
    \/ Tick \/ UNCHANGED vars

LEMMA AroundCalls ==
    ASSUME Around
    PROVE  UNCHANGED <<pc, cred, at, answer, counter, usageQueue, statusQueue, resends,
                       unmatched, repeated, forwarded>>
  BY DEF Around, RateKeyExpires, SyncMeta, Tick, vars, redisVars, callVars, historyVars
-----------------------------------------------------------------------------
(* The key of call c is the one the row describes, and in force.           *)
Checked(c) ==
    LET row == Row[KeyOf(c)] IN
    /\ cred[c].hash = row.hash /\ cred[c].env = row.environment
    /\ row.expiresAt = None \/ at[c] <= row.expiresAt
Charging(c) ==
    \/ pc[c] \notin {"idle", "meta", "done"}
    \/ answer[c] \in {"200", "429 rate", "429 quota"}

LEMMA CheckedIs == OnlyGenuineKeysCharged <=> \A c \in Calls : Charging(c) => Checked(c)
  BY DEF OnlyGenuineKeysCharged, Charging, Checked

(* A call that stays as it is, or only goes on, is checked if it was.      *)
LEMMA StaysChecked ==
    ASSUME OnlyGenuineKeysCharged, NEW c \in Calls, Charging(c),
           cred'[c] = cred[c], at'[c] = at[c]
    PROVE  Checked(c)'
  <1>1. Checked(c)
    BY CheckedIs
  <1> QED
    BY <1>1 DEF Checked, KeyOf

(* HGETALL and the checks of the hash are what a call must get past.       *)
LEMMA ReadMetaChecks ==
    ASSUME TypeOK, OnlyGenuineKeysCharged, NEW c \in Calls, ReadMeta(c), Charging(c)'
    PROVE  Checked(c)'
  <1>1. UNCHANGED <<cred, at>> /\ pc[c] = "meta"
    BY DEF ReadMeta
  <1>2. CASE Charging(c)
    BY <1>1, <1>2, StaysChecked
  <1>3. CASE ~Charging(c)
    <2>1. /\ Known(KeyOf(c)) /\ Genuine(cred[c]) /\ ~Expired(KeyOf(c), at[c])
      BY <1>3 DEF ReadMeta, Charging, Answer, GoTo, TypeOK, VariablesTyped
    <2>2. KeyOf(c) \in Keys /\ at[c] \in Nat
      BY <2>1, ConfigAssumption DEF Known, TypeOK, VariablesTyped, Minutes
    <2>3. Row[KeyOf(c)].expiresAt \in Nat \cup {None}
      BY <2>2, RowAssumption
    <2>4. Row[KeyOf(c)].expiresAt = None \/ at[c] <= Row[KeyOf(c)].expiresAt
      BY <2>1, <2>2, <2>3 DEF Expired
    <2> QED
      BY <1>1, <2>1, <2>4 DEF Checked, Genuine, KeyOf
  <1> QED
    BY <1>2, <1>3

LEMMA NextChecked == TypeOK /\ OnlyGenuineKeysCharged /\ [Next]_vars => OnlyGenuineKeysCharged'
  <1> SUFFICES ASSUME TypeOK, OnlyGenuineKeysCharged, [Next]_vars, NEW c \in Calls, Charging(c)'
               PROVE  Checked(c)'
    BY DEF OnlyGenuineKeysCharged, Charging, Checked
  <1>1. ASSUME NEW d \in Calls, NEW i \in Inputs, Arrive(d, i) PROVE Checked(c)'
    <2>1. c # d
      BY <1>1 DEF Arrive, Answer, Charging, TypeOK, VariablesTyped
    <2>2. /\ pc'[c] = pc[c] /\ answer'[c] = answer[c]
          /\ cred'[c] = cred[c] /\ at'[c] = at[c]
      BY <1>1, <2>1 DEF Arrive, Answer, TypeOK, VariablesTyped
    <2> QED
      BY <2>2, StaysChecked DEF Charging
  <1>2. ASSUME NEW d \in Calls, Step(d) PROVE Checked(c)'
    <2>1. CASE c # d
      BY <1>2, <2>1, StepOfOne, StaysChecked DEF Charging
    <2>2. CASE c = d /\ ReadMeta(d)
      BY <2>2, ReadMetaChecks
    <2>3. CASE c = d /\ ~ReadMeta(d)
      <3>1. pc[c] \notin {"idle", "meta", "done"}
        BY <1>2, <2>3 DEF Step, RateIncr, RateExpire, QuotaRead, ExhaustMeta, ExhaustQueue,
                          CountUnit, PushEvent
      <3> QED
        BY <1>2, <3>1, StepOfOne, StaysChecked DEF Charging
    <2> QED
      BY <2>1, <2>2, <2>3
  <1>3. ASSUME NEW d \in Calls, Resend(d) PROVE Checked(c)'
    BY <1>3, ResendOfOne, StaysChecked DEF Charging
  <1>4. CASE Crash
    BY <1>4 DEF Crash, Charging
  <1>5. CASE Around
    BY <1>5, AroundCalls, StaysChecked DEF Charging
  <1> QED
    BY <1>1, <1>2, <1>3, <1>4, <1>5 DEF Next, Around, Rest

(* Whatever keys, hashes and clocks there are, a call that reaches the     *)
(* limits presented the whole key of its row, in its environment, unexpired.*)
THEOREM GenuineCharged == Spec => []OnlyGenuineKeysCharged
  <1>1. Init => OnlyGenuineKeysCharged
    BY DEF Init, OnlyGenuineKeysCharged
  <1> QED
    BY <1>1, InitTypeOK, NextTypeOK, NextChecked, PTL DEF Spec
-----------------------------------------------------------------------------
(* Units are never taken back: counters only grow.                         *)
LEMMA CountersGrow ==
    ASSUME TypeOK, [Next]_vars, NEW km \in Keys \X Months
    PROVE  counter'[km] \in Nat /\ counter'[km] >= counter[km]
  <1>0. counter \in [Keys \X Months -> Nat] /\ counter[km] \in Nat
    BY DEF TypeOK, VariablesTyped
  <1>1. ASSUME NEW c \in Calls, counter' = [counter EXCEPT ![Period(c)] = @ + 1]
        PROVE  counter'[km] \in Nat /\ counter'[km] >= counter[km]
    <2>1. CASE km = Period(c)
      BY <1>0, <1>1, <2>1
    <2>2. CASE km # Period(c)
      BY <1>0, <1>1, <2>2
    <2> QED
      BY <2>1, <2>2
  <1>2. CASE counter' = counter
    BY <1>0, <1>2
  <1>3. ASSUME NEW c \in Calls, Step(c) \/ Resend(c)
        PROVE  counter' = counter \/ counter' = [counter EXCEPT ![Period(c)] = @ + 1]
    BY <1>3 DEF Step, Resend, ReadMeta, RateIncr, RateExpire, QuotaRead, ExhaustMeta,
                ExhaustQueue, CountUnit, PushEvent, ResendRateIncr, ResendCountUnit,
                ResendExhaustQueue, ResendPushEvent, redisVars
  <1>4. CASE (\E c \in Calls, i \in Inputs : Arrive(c, i)) \/ Crash
    BY <1>2, <1>4 DEF Arrive, Crash, redisVars
  <1>5. CASE Around
    BY <1>2, <1>5, AroundCalls
  <1> QED
    BY <1>1, <1>2, <1>3, <1>4, <1>5 DEF Next, Around, Rest

LEMMA SpentForGood ==
    ASSUME TypeOK, [Next]_vars, NEW k \in Keys, NEW m \in Months, Spent(k, m)
    PROVE  Spent(k, m)'
  <1>1. counter'[<<k, m>>] \in Nat /\ counter'[<<k, m>>] >= counter[<<k, m>>]
    BY CountersGrow
  <1>2. counter[<<k, m>>] \in Nat /\ EffectiveMonthlyLimit(k) \in Nat
    BY EffectiveLimitsType DEF TypeOK, VariablesTyped
  <1> QED
    BY <1>1, <1>2 DEF Spent, EffectiveMonthlyLimit

(* A call refused for the quota worked on a row, and in a month spent.     *)
Refused(c) == pc[c] \in {"exhaustMeta", "exhaustQueue"} \/ answer[c] = "429 quota"
MonthSpent(c) == KeyOf(c) \in Keys /\ Spent(KeyOf(c), MonthOf[at[c]])
RefusalsInv ==
    /\ \A c \in Calls : Refused(c) => MonthSpent(c)
    /\ \A n \in DOMAIN statusQueue : \E m \in Months : Spent(statusQueue[n], m)

LEMMA StaysSpent ==
    ASSUME TypeOK, [Next]_vars, NEW c \in Calls, MonthSpent(c),
           cred'[c] = cred[c], at'[c] = at[c]
    PROVE  MonthSpent(c)'
  <1>1. KeyOf(c) \in Keys /\ MonthOf[at[c]] \in Months
    BY ConfigAssumption DEF MonthSpent, TypeOK, VariablesTyped
  <1>2. Spent(KeyOf(c), MonthOf[at[c]])
    BY DEF MonthSpent
  <1> DEFINE k == KeyOf(c)  m == MonthOf[at[c]]
  <1>3. k \in Keys /\ m \in Months /\ Spent(k, m) /\ k' = k /\ m' = m
    BY <1>1, <1>2 DEF KeyOf
  <1>4. Spent(k, m)'
    <2>1. \A x \in Keys, y \in Months : Spent(x, y) => Spent(x, y)'
      BY SpentForGood
    <2> HIDE DEF k, m
    <2> QED
      BY <1>3, <2>1 DEF Spent, EffectiveMonthlyLimit
  <1> QED
    BY <1>3, <1>4 DEF MonthSpent

(* GET and the decision on it.                                             *)
LEMMA RefusedOnReading ==
    ASSUME TypeOK, [Next]_vars, NEW c \in Calls, QuotaRead(c), pc'[c] = "exhaustMeta"
    PROVE  MonthSpent(c)'
  <1>1. UNCHANGED <<cred, at>> /\ QuotaUsedUp(c)
    BY DEF QuotaRead, GoTo, TypeOK, VariablesTyped
  <1>2. KeyOf(c) \in Keys
    BY CountersOfCall DEF QuotaRead
  <1>3. MonthSpent(c)
    BY <1>1, <1>2 DEF QuotaUsedUp, MonthSpent, Spent, Period, KeyOf
  <1> QED
    BY <1>1, <1>3, StaysSpent

LEMMA NextRefusals == TypeOK /\ RefusalsInv /\ [Next]_vars => RefusalsInv'
  <1> SUFFICES ASSUME TypeOK, RefusalsInv, [Next]_vars PROVE RefusalsInv'
    OBVIOUS
  <1>1. ASSUME NEW c \in Calls, Refused(c)' PROVE MonthSpent(c)'
    <2> DEFINE Stays == Refused(c) /\ cred'[c] = cred[c] /\ at'[c] = at[c]
    <2>1. CASE Stays
      BY <2>1, StaysSpent DEF RefusalsInv
    <2>2. ASSUME NEW d \in Calls, NEW i \in Inputs, Arrive(d, i) PROVE Stays
      BY <1>1, <2>2 DEF Arrive, Answer, Refused, TypeOK, VariablesTyped
    <2>3. ASSUME NEW d \in Calls, Step(d), d # c \/ ~QuotaRead(d) PROVE Stays
      <3>1. cred' = cred /\ at' = at
        BY <2>3, StepOfOne
      <3>2. CASE d # c
        BY <1>1, <2>3, <3>1, <3>2, StepOfOne DEF Refused
      <3>3. CASE d = c
        BY <1>1, <2>3, <3>1, <3>3
           DEF Refused, Step, ReadMeta, RateIncr, RateExpire, ExhaustMeta, ExhaustQueue,
               CountUnit, PushEvent, Verdict, Answer, GoTo, FirstLimit, TypeOK, VariablesTyped
      <3> QED
        BY <3>2, <3>3
    <2>4. CASE QuotaRead(c)
      <3>1. pc'[c] = "exhaustMeta" \/ answer[c] = "429 quota"
        BY <1>1, <2>4 DEF QuotaRead, GoTo, Refused, TypeOK, VariablesTyped
      <3>2. UNCHANGED <<cred, at>>
        BY <2>4 DEF QuotaRead
      <3> QED
        BY <2>1, <2>4, <3>1, <3>2, RefusedOnReading DEF Refused
    <2>5. ASSUME NEW d \in Calls, Resend(d) PROVE Stays
      BY <1>1, <2>5, ResendOfOne DEF Refused
    <2>6. CASE Crash
      BY <1>1, <2>6 DEF Crash, Refused
    <2>7. CASE Around
      BY <1>1, <2>1, <2>7, AroundCalls DEF Refused
    <2> HIDE DEF Stays
    <2> QED
      BY <2>1, <2>2, <2>3, <2>4, <2>5, <2>6, <2>7 DEF Next, Around, Rest
  <1>2. ASSUME NEW n \in DOMAIN statusQueue'
        PROVE  \E m \in Months : Spent(statusQueue[n], m)'
    <2> DEFINE Old == n \in DOMAIN statusQueue /\ statusQueue'[n] = statusQueue[n]
    <2>1. CASE Old
      <3>1. PICK m \in Months : Spent(statusQueue[n], m)
        BY <2>1 DEF RefusalsInv
      <3>2. statusQueue[n] \in Keys
        BY <2>1 DEF TypeOK, VariablesTyped
      <3>3. \A k \in Keys : Spent(k, m) => Spent(k, m)'
        BY SpentForGood
      <3>4. PICK k \in Keys : k = statusQueue[n]
        BY <3>2
      <3>5. Spent(k, m)'
        BY <3>1, <3>3, <3>4
      <3> QED
        BY <2>1, <3>4, <3>5 DEF Spent, EffectiveMonthlyLimit
    <2>2. ASSUME NEW c \in Calls, pc[c] = "exhaustQueue", UNCHANGED <<cred, at>>,
                 statusQueue' = Append(statusQueue, KeyOf(c)), ~Old
          PROVE  \E m \in Months : Spent(statusQueue[n], m)'
      <3>1. statusQueue \in Seq(Keys)
        BY DEF TypeOK, VariablesTyped
      <3>2. statusQueue'[n] = KeyOf(c)
        BY <2>2, <3>1
      <3>3. MonthSpent(c)'
        BY <2>2, StaysSpent DEF RefusalsInv, Refused
      <3>4. MonthOf[at[c]] \in Months
        BY ConfigAssumption DEF TypeOK, VariablesTyped
      <3> QED
        BY <2>2, <3>2, <3>3, <3>4 DEF MonthSpent, KeyOf, Spent, EffectiveMonthlyLimit
    <2>3. CASE statusQueue' = statusQueue
      BY <1>2, <2>1, <2>3
    <2>4. ASSUME NEW c \in Calls, Step(c) \/ Resend(c)
          PROVE  \/ statusQueue' = statusQueue
                 \/ /\ pc[c] = "exhaustQueue" /\ UNCHANGED <<cred, at>>
                    /\ statusQueue' = Append(statusQueue, KeyOf(c))
      BY <2>4 DEF Step, Resend, ReadMeta, RateIncr, RateExpire, QuotaRead, ExhaustMeta,
                  ExhaustQueue, CountUnit, PushEvent, ResendRateIncr, ResendCountUnit,
                  ResendExhaustQueue, ResendPushEvent, redisVars, callVars
    <2>5. CASE (\E c \in Calls, i \in Inputs : Arrive(c, i)) \/ Crash
      BY <2>3, <2>5 DEF Arrive, Crash, redisVars
    <2>6. CASE Around
      BY <2>3, <2>6, AroundCalls
    <2> HIDE DEF Old
    <2> QED
      BY <2>1, <2>2, <2>3, <2>4, <2>5, <2>6 DEF Next, Around, Rest
  <1> QED
    BY <1>1, <1>2 DEF RefusalsInv

(* No call is refused for a quota that is not spent, and no key is queued  *)
(* to be marked exhausted that is not, in any month it was used in.        *)
THEOREM RefusalsEarned == Spec => []QuotaRefusalsEarned
  <1>1. Init => RefusalsInv
    BY DEF Init, RefusalsInv, Refused
  <1>2. RefusalsInv => QuotaRefusalsEarned
    BY DEF RefusalsInv, QuotaRefusalsEarned, Refused, MonthSpent
  <1> QED
    BY <1>1, <1>2, InitTypeOK, NextTypeOK, NextRefusals, PTL DEF Spec
-----------------------------------------------------------------------------
(* The books of one key and month.                                         *)
Accounted(km) == forwarded[km] + Cardinality(Owing(km)) + unmatched[km] = counter[km]
Listed(km) == Cardinality(EventsOf(km)) = forwarded[km] + repeated[km]

LEMMA BooksTyped ==
    ASSUME TypeOK, NEW km \in Keys \X Months
    PROVE  /\ counter[km] \in Nat /\ forwarded[km] \in Nat
           /\ unmatched[km] \in Nat /\ repeated[km] \in Nat
           /\ IsFiniteSet(Owing(km)) /\ Cardinality(Owing(km)) \in Nat
  BY CallSets DEF TypeOK, VariablesTyped, Owing

LEMMA Bumped ==
    ASSUME NEW S, NEW f \in [S -> Nat], NEW x \in S, NEW y \in S
    PROVE  [f EXCEPT ![x] = @ + 1][y] = IF x = y THEN f[y] + 1 ELSE f[y]
  OBVIOUS

(* INCR: a unit more, and a call that owes its event.                      *)
LEMMA CountAccounted ==
    ASSUME TypeOK, NEW km \in Keys \X Months, Accounted(km), NEW c \in Calls, CountUnit(c)
    PROVE  Accounted(km)'
  <1>1. /\ UNCHANGED <<cred, at, forwarded, unmatched>> /\ pc[c] = "incr"
        /\ pc' = [pc EXCEPT ![c] = "push"]
        /\ counter' = [counter EXCEPT ![Period(c)] = @ + 1]
    BY DEF CountUnit, GoTo, historyVars
  <1>2. Period(c) \in Keys \X Months
    BY <1>1, CountersOfCall
  <1>3. counter'[km] = IF Period(c) = km THEN counter[km] + 1 ELSE counter[km]
    BY <1>1, <1>2, Bumped DEF TypeOK, VariablesTyped
  <1>4. Owing(km)' = IF Period(c) = km THEN Owing(km) \cup {c} ELSE Owing(km)
    BY <1>1 DEF Owing, Period, TypeOK, VariablesTyped
  <1>5. c \notin Owing(km)
    BY <1>1 DEF Owing
  <1>6. Cardinality(Owing(km) \cup {c}) = Cardinality(Owing(km)) + 1
    BY <1>5, BooksTyped, FS_AddElement
  <1> QED
    BY <1>1, <1>3, <1>4, <1>6, BooksTyped DEF Accounted

(* LPUSH: the call is answered and owes nothing.                           *)
LEMMA PushAccounted ==
    ASSUME TypeOK, NEW km \in Keys \X Months, Accounted(km), NEW c \in Calls, PushEvent(c)
    PROVE  Accounted(km)'
  <1>1. /\ UNCHANGED <<cred, at, counter, unmatched>> /\ pc[c] = "push"
        /\ pc' = [pc EXCEPT ![c] = "done"]
        /\ forwarded' = [forwarded EXCEPT ![Period(c)] = @ + 1]
    BY DEF PushEvent, Answer
  <1>2. Period(c) \in Keys \X Months
    BY <1>1, CountersOfCall
  <1>3. forwarded'[km] = IF Period(c) = km THEN forwarded[km] + 1 ELSE forwarded[km]
    BY <1>1, <1>2, Bumped DEF TypeOK, VariablesTyped
  <1>4. Owing(km)' = Owing(km) \ {c}
    BY <1>1 DEF Owing, Period, TypeOK, VariablesTyped
  <1>5. c \in Owing(km) <=> Period(c) = km
    BY <1>1 DEF Owing
  <1>6. CASE Period(c) = km
    <2>1. Cardinality(Owing(km) \ {c}) = Cardinality(Owing(km)) - 1
      BY <1>5, <1>6, BooksTyped, FS_RemoveElement
    <2> QED
      BY <1>1, <1>3, <1>4, <1>6, <2>1, BooksTyped DEF Accounted
  <1>7. CASE Period(c) # km
    <2>1. Owing(km)' = Owing(km)
      BY <1>4, <1>5, <1>7
    <2> QED
      BY <1>1, <1>3, <1>7, <2>1 DEF Accounted
  <1> QED
    BY <1>6, <1>7

(* A unit that Redis counted twice is nobody's.                            *)
LEMMA ResendAccounted ==
    ASSUME TypeOK, NEW km \in Keys \X Months, Accounted(km), NEW c \in Calls, ResendCountUnit(c)
    PROVE  Accounted(km)'
  <1>1. /\ UNCHANGED <<pc, cred, at, forwarded>> /\ pc[c] = "incr"
        /\ counter' = [counter EXCEPT ![Period(c)] = @ + 1]
        /\ unmatched' = [unmatched EXCEPT ![Period(c)] = @ + 1]
    BY DEF ResendCountUnit, callVars
  <1>2. Period(c) \in Keys \X Months
    BY <1>1, CountersOfCall
  <1>3. /\ counter'[km] = IF Period(c) = km THEN counter[km] + 1 ELSE counter[km]
        /\ unmatched'[km] = IF Period(c) = km THEN unmatched[km] + 1 ELSE unmatched[km]
    BY <1>1, <1>2, Bumped DEF TypeOK, VariablesTyped
  <1>4. Owing(km)' = Owing(km)
    BY <1>1 DEF Owing, Period
  <1> QED
    BY <1>1, <1>3, <1>4, BooksTyped DEF Accounted

(* What the calls that die owe is left over.                               *)
LEMMA CrashAccounted ==
    ASSUME TypeOK, NEW km \in Keys \X Months, Accounted(km), Crash
    PROVE  Accounted(km)'
  <1>1. UNCHANGED <<counter, forwarded>> /\ unmatched'[km] = unmatched[km] + Cardinality(Owing(km))
    BY DEF Crash, redisVars
  <1>2. Owing(km)' = {}
    BY DEF Crash, Owing
  <1>3. Cardinality(Owing(km)') = 0
    BY <1>2, FS_EmptySet
  <1> QED
    BY <1>1, <1>3, BooksTyped DEF Accounted

(* Any other step leaves these books alone.                                *)
LEMMA BooksAlone ==
    ASSUME NEW km \in Keys \X Months, Accounted(km),
           UNCHANGED <<counter, forwarded, unmatched>>,
           \A c \in Calls : (pc'[c] = "push") <=> (pc[c] = "push"),
           \A c \in Calls : pc[c] = "push" => cred'[c] = cred[c] /\ at'[c] = at[c]
    PROVE  Accounted(km)'
  <1>1. Owing(km)' = Owing(km)
    BY DEF Owing, Period
  <1> QED
    BY <1>1 DEF Accounted

LEMMA NextAccounted ==
    TypeOK /\ NothingForwardedUncounted /\ [Next]_vars => NothingForwardedUncounted'
  <1> SUFFICES ASSUME TypeOK, [Next]_vars, NEW km \in Keys \X Months, Accounted(km)
               PROVE  Accounted(km)'
    BY DEF NothingForwardedUncounted, Accounted
  <1>1. ASSUME NEW c \in Calls, NEW i \in Inputs, Arrive(c, i) PROVE Accounted(km)'
    BY <1>1, BooksAlone DEF Arrive, Answer, redisVars, TypeOK, VariablesTyped
  <1>2. ASSUME NEW c \in Calls, Step(c), ~CountUnit(c), ~PushEvent(c) PROVE Accounted(km)'
    <2>1. UNCHANGED <<counter, forwarded, unmatched, cred, at>>
      BY <1>2 DEF Step, ReadMeta, RateIncr, RateExpire, QuotaRead, ExhaustMeta, ExhaustQueue,
                  redisVars, historyVars
    <2>2. \A d \in Calls : (pc'[d] = "push") <=> (pc[d] = "push")
      BY <1>2 DEF Step, ReadMeta, RateIncr, RateExpire, QuotaRead, ExhaustMeta, ExhaustQueue,
                  Verdict, Answer, GoTo, FirstLimit, TypeOK, VariablesTyped
    <2> QED
      BY <2>1, <2>2, BooksAlone
  <1>3. ASSUME NEW c \in Calls, Resend(c), ~ResendCountUnit(c) PROVE Accounted(km)'
    <2>1. UNCHANGED <<counter, forwarded, unmatched, pc, cred, at>>
      BY <1>3 DEF Resend, ResendRateIncr, ResendExhaustQueue, ResendPushEvent, callVars
    <2> QED
      BY <2>1, BooksAlone
  <1>4. CASE Around
    BY <1>4, AroundCalls, BooksAlone
  <1> QED
    BY <1>1, <1>2, <1>3, <1>4, CountAccounted, PushAccounted, ResendAccounted, CrashAccounted
       DEF Next, Around, Rest

(* For any number of calls, crashes and commands run twice: what was       *)
(* forwarded was counted first, and what was counted besides is known.     *)
THEOREM ForwardedCounted == Spec => []NothingForwardedUncounted
  <1>1. Init => NothingForwardedUncounted
    <2> SUFFICES ASSUME Init, NEW km \in Keys \X Months
                 PROVE  forwarded[km] + Cardinality(Owing(km)) + unmatched[km] = counter[km]
      BY DEF NothingForwardedUncounted
    <2>1. Owing(km) = {}
      BY DEF Init, Owing
    <2> QED
      BY <2>1, FS_EmptySet DEF Init
  <1> QED
    BY <1>1, InitTypeOK, NextTypeOK, NextAccounted, PTL DEF Spec
-----------------------------------------------------------------------------
(* An event more in the queue.                                             *)
LEMMA EventPushed ==
    ASSUME TypeOK, NEW e \in [key : Keys, at : Minutes], NEW km,
           usageQueue' = Append(usageQueue, e)
    PROVE  Cardinality(EventsOf(km)') =
              IF <<e.key, MonthOf[e.at]>> = km THEN Cardinality(EventsOf(km)) + 1
                                               ELSE Cardinality(EventsOf(km))
  <1> DEFINE last == Len(usageQueue) + 1
  <1>1. usageQueue \in Seq([key : Keys, at : Minutes])
    BY DEF TypeOK, VariablesTyped
  <1>2. /\ DOMAIN usageQueue = 1 .. Len(usageQueue) /\ Len(usageQueue) \in Nat
        /\ DOMAIN usageQueue' = 1 .. last
        /\ usageQueue'[last] = e
        /\ \A n \in DOMAIN usageQueue : usageQueue'[n] = usageQueue[n]
    BY <1>1
  <1>3. DOMAIN usageQueue' = DOMAIN usageQueue \cup {last} /\ last \notin DOMAIN usageQueue
    BY <1>2
  <1> HIDE DEF last
  <1>4. EventsOf(km)' = IF <<e.key, MonthOf[e.at]>> = km THEN EventsOf(km) \cup {last}
                                                        ELSE EventsOf(km)
    BY <1>2, <1>3 DEF EventsOf
  <1>5. IsFiniteSet(EventsOf(km)) /\ last \notin EventsOf(km)
    <2>1. IsFiniteSet(1 .. Len(usageQueue))
      BY <1>2, FS_Interval
    <2> QED
      BY <1>2, <1>3, <2>1, FS_Subset DEF EventsOf
  <1> QED
    BY <1>4, <1>5, FS_AddElement

LEMMA EventsCounted ==
    ASSUME TypeOK, NEW km \in Keys \X Months
    PROVE  Cardinality(EventsOf(km)) \in Nat
  <1>1. usageQueue \in Seq([key : Keys, at : Minutes])
    BY DEF TypeOK, VariablesTyped
  <1>2. DOMAIN usageQueue = 1 .. Len(usageQueue) /\ Len(usageQueue) \in Nat
    BY <1>1
  <1>3. IsFiniteSet(DOMAIN usageQueue)
    BY <1>2, FS_Interval
  <1>4. EventsOf(km) \subseteq DOMAIN usageQueue
    BY DEF EventsOf
  <1> QED
    BY <1>3, <1>4, FS_Subset, FS_CardinalityType

QueueListed == \A km \in Keys \X Months : Listed(km)

LEMMA NextListed == TypeOK /\ QueueListed /\ [Next]_vars => QueueListed'
  <1> SUFFICES ASSUME TypeOK, QueueListed, [Next]_vars, NEW km \in Keys \X Months
               PROVE  Listed(km)'
    BY DEF QueueListed
  <1>0. Listed(km)
    BY DEF QueueListed
  <1>1. CASE UNCHANGED <<usageQueue, forwarded, repeated>>
    BY <1>0, <1>1 DEF Listed, EventsOf
  <1>2. ASSUME NEW c \in Calls, pc[c] = "push", usageQueue' = Append(usageQueue, Event(c)),
               \/ /\ forwarded' = [forwarded EXCEPT ![Period(c)] = @ + 1]
                  /\ repeated' = repeated
               \/ /\ repeated' = [repeated EXCEPT ![Period(c)] = @ + 1]
                  /\ forwarded' = forwarded
        PROVE  Listed(km)'
    <2>1. Period(c) \in Keys \X Months /\ Event(c) \in [key : Keys, at : Minutes]
      BY <1>2, CountersOfCall
    <2>2. <<Event(c).key, MonthOf[Event(c).at]>> = Period(c)
      BY DEF Event, Period, KeyOf
    <2>3. Cardinality(EventsOf(km)') =
             IF Period(c) = km THEN Cardinality(EventsOf(km)) + 1 ELSE Cardinality(EventsOf(km))
      BY <1>2, <2>1, <2>2, EventPushed
    <2>4. forwarded'[km] + repeated'[km] =
             IF Period(c) = km THEN forwarded[km] + repeated[km] + 1
                               ELSE forwarded[km] + repeated[km]
      <3>1. forwarded \in [Keys \X Months -> Nat] /\ repeated \in [Keys \X Months -> Nat]
        BY DEF TypeOK, VariablesTyped
      <3>2. CASE /\ forwarded' = [forwarded EXCEPT ![Period(c)] = @ + 1]
                 /\ repeated' = repeated
        <4>1. forwarded'[km] = IF Period(c) = km THEN forwarded[km] + 1 ELSE forwarded[km]
          BY <2>1, <3>1, <3>2, Bumped
        <4> QED
          BY <3>2, <4>1, BooksTyped
      <3>3. CASE /\ repeated' = [repeated EXCEPT ![Period(c)] = @ + 1]
                 /\ forwarded' = forwarded
        <4>1. repeated'[km] = IF Period(c) = km THEN repeated[km] + 1 ELSE repeated[km]
          BY <2>1, <3>1, <3>3, Bumped
        <4> QED
          BY <3>3, <4>1, BooksTyped
      <3> QED
        BY <1>2, <3>2, <3>3
    <2> QED
      BY <1>0, <2>3, <2>4, BooksTyped, EventsCounted DEF Listed
  <1>3. ASSUME NEW c \in Calls, Step(c), ~PushEvent(c) PROVE Listed(km)'
    BY <1>1, <1>3 DEF Step, ReadMeta, RateIncr, RateExpire, QuotaRead, ExhaustMeta, ExhaustQueue,
                      CountUnit, redisVars, historyVars
  <1>4. ASSUME NEW c \in Calls, Resend(c), ~ResendPushEvent(c) PROVE Listed(km)'
    BY <1>1, <1>4 DEF Resend, ResendRateIncr, ResendCountUnit, ResendExhaustQueue
  <1>5. ASSUME NEW c \in Calls, PushEvent(c) \/ ResendPushEvent(c) PROVE Listed(km)'
    BY <1>2, <1>5 DEF PushEvent, ResendPushEvent
  <1>6. CASE (\E c \in Calls, i \in Inputs : Arrive(c, i)) \/ Crash
    BY <1>1, <1>6 DEF Arrive, Crash, redisVars
  <1>7. CASE Around
    BY <1>1, <1>7, AroundCalls
  <1> QED
    BY <1>3, <1>4, <1>5, <1>6, <1>7 DEF Next, Around, Rest

(* The queue holds an event for each unit counted, but for what calls owe, *)
(* crashes left over and Redis ran twice.                                  *)
THEOREM MeterIsQueue == Spec => []MeterMatchesQueue
  <1>1. Init => QueueListed
    <2> SUFFICES ASSUME Init, NEW km \in Keys \X Months PROVE Listed(km)
      BY DEF QueueListed
    <2>1. EventsOf(km) = {}
      BY DEF Init, EventsOf
    <2> QED
      BY <2>1, FS_EmptySet DEF Init, Listed
  <1>2. TypeOK /\ QueueListed /\ NothingForwardedUncounted => MeterMatchesQueue
    <2> SUFFICES ASSUME TypeOK, QueueListed, NothingForwardedUncounted, NEW km \in Keys \X Months
                 PROVE  counter[km] + repeated[km] =
                           Cardinality(EventsOf(km)) + Cardinality(Owing(km)) + unmatched[km]
      BY DEF MeterMatchesQueue
    <2>1. /\ forwarded[km] + Cardinality(Owing(km)) + unmatched[km] = counter[km]
          /\ Cardinality(EventsOf(km)) = forwarded[km] + repeated[km]
      BY DEF QueueListed, Listed, NothingForwardedUncounted
    <2> QED
      BY <2>1, BooksTyped
  <1> QED
    BY <1>1, <1>2, InitTypeOK, NextTypeOK, NextListed, ForwardedCounted, PTL DEF Spec
-----------------------------------------------------------------------------
(* The calls that owe the event e; no call began after this minute.        *)
Owes(e) == {c \in Calls : pc[c] = "push" /\ Event(c) = e}
BegunBefore == \A c \in Calls : at[c] <= clock

LEMMA NextBegun == TypeOK /\ BegunBefore /\ [Next]_vars => BegunBefore'
  <1> SUFFICES ASSUME TypeOK, BegunBefore, [Next]_vars, NEW d \in Calls PROVE at'[d] <= clock'
    BY DEF BegunBefore
  <1>1. at[d] \in Nat /\ clock \in Nat /\ at[d] <= clock /\ at \in [Calls -> Minutes]
    BY ConfigAssumption DEF TypeOK, VariablesTyped, Minutes, BegunBefore
  <1>2. CASE at' = at /\ clock' = clock
    BY <1>1, <1>2
  <1>3. ASSUME NEW c \in Calls, NEW i \in Inputs, Arrive(c, i) PROVE at'[d] <= clock'
    <2>1. at' = [at EXCEPT ![c] = clock] /\ clock' = clock
      BY <1>3 DEF Arrive
    <2> QED
      BY <1>1, <2>1
  <1>4. ASSUME NEW c \in Calls, Step(c) \/ Resend(c) PROVE at' = at /\ clock' = clock
    BY <1>4 DEF Step, Resend, ReadMeta, RateIncr, RateExpire, QuotaRead, ExhaustMeta,
                ExhaustQueue, CountUnit, PushEvent, ResendRateIncr, ResendCountUnit,
                ResendExhaustQueue, ResendPushEvent, callVars
  <1>5. CASE \/ \E k \in Keys, m \in Minutes : RateKeyExpires(k, m)
             \/ \E k \in Keys, s \in Statuses \cup {NoMeta} : SyncMeta(k, s)
             \/ Crash \/ UNCHANGED vars
    BY <1>2, <1>5 DEF RateKeyExpires, SyncMeta, Crash, vars, callVars
  <1>6. CASE Tick
    BY <1>1, <1>6 DEF Tick, callVars
  <1> QED
    BY <1>2, <1>3, <1>4, <1>5, <1>6 DEF Next, Rest

LEMMA OwedIs ==
    /\ Owed = [e \in Feed!Events |-> Cardinality(Owes(e))]
    /\ Owed' = [e \in Feed!Events |-> Cardinality(Owes(e)')]
    /\ \A e : IsFiniteSet(Owes(e)) /\ Cardinality(Owes(e)) \in Nat
  <1>1. \A e : IsFiniteSet(Owes(e)) /\ Cardinality(Owes(e)) \in Nat
    BY CallsAssumption, FS_Subset, FS_CardinalityType DEF Owes
  <1> QED
    BY <1>1 DEF Owed, Owes, Feed!Events, Feed!Minutes, Minutes, Event, KeyOf

(* Nothing the flush can see happens.                                      *)
LEMMA FeedUnseen ==
    ASSUME UNCHANGED <<clock, counter, usageQueue, statusQueue>>,
           \A c \in Calls : (pc'[c] = "push") <=> (pc[c] = "push"),
           \A c \in Calls : pc[c] = "push" => cred'[c] = cred[c] /\ at'[c] = at[c]
    PROVE  UNCHANGED Feed!feedVars
  <1>1. \A e : Owes(e)' = Owes(e)
    BY DEF Owes, Event, KeyOf
  <1>2. Owed' = Owed
    BY <1>1, OwedIs
  <1> QED
    BY <1>2 DEF Feed!feedVars

(* What call c looks like to the flush.                                    *)
LEMMA CallSeen ==
    ASSUME TypeOK, BegunBefore, NEW c \in Calls,
           pc[c] \in {"exhaustQueue", "incr", "push"}
    PROVE  /\ KeyOf(c) \in Keys /\ at[c] \in Feed!Minutes /\ at[c] \in 0 .. clock
           /\ Event(c) \in Feed!Events /\ Period(c) = <<KeyOf(c), MonthOf[at[c]]>>
           /\ Event(c) = [key |-> KeyOf(c), at |-> at[c]]
  <1>1. KeyOf(c) \in Keys /\ at[c] \in Minutes
    BY CountersOfCall DEF TypeOK, VariablesTyped
  <1>2. at[c] <= clock /\ clock \in Minutes
    BY DEF BegunBefore, TypeOK, VariablesTyped
  <1> QED
    BY <1>1, <1>2, ConfigAssumption
       DEF Feed!Minutes, Feed!Events, Minutes, Period, KeyOf, Event

LEMMA CountFeeds ==
    ASSUME TypeOK, BegunBefore, NEW c \in Calls, CountUnit(c)
    PROVE  Feed!Counts(KeyOf(c), at[c])
  <1>1. /\ UNCHANGED <<clock, usageQueue, statusQueue, cred, at>> /\ pc[c] = "incr"
        /\ pc' = [pc EXCEPT ![c] = "push"] /\ pc \in [Calls -> PCs]
        /\ counter' = [counter EXCEPT ![Period(c)] = @ + 1]
    BY DEF CountUnit, GoTo, TypeOK, VariablesTyped
  <1> DEFINE x == Event(c)
  <1>2. x \in Feed!Events /\ x = [key |-> KeyOf(c), at |-> at[c]] /\ at[c] \in 0 .. clock
    BY <1>1, CallSeen
  <1>3. \A e : Owes(e)' = IF e = x THEN Owes(e) \cup {c} ELSE Owes(e)
    BY <1>1 DEF Owes, Event, KeyOf
  <1>4. c \notin Owes(x)
    BY <1>1 DEF Owes
  <1>5. \A e \in Feed!Events :
           Cardinality(Owes(e)') = IF e = x THEN Cardinality(Owes(e)) + 1 ELSE Cardinality(Owes(e))
    BY <1>3, <1>4, OwedIs, FS_AddElement
  <1>6. Owed' = [Owed EXCEPT ![x] = @ + 1]
    <2> HIDE DEF x
    <2> QED
      BY <1>2, <1>5, OwedIs
  <1> HIDE DEF x
  <1>7. counter' = [counter EXCEPT ![<<KeyOf(c), MonthOf[at[c]]>>] = @ + 1]
    BY <1>1, CallSeen
  <1> QED
    BY <1>1, <1>2, <1>6, <1>7 DEF Feed!Counts

LEMMA PushFeeds ==
    ASSUME TypeOK, BegunBefore, NEW c \in Calls, PushEvent(c)
    PROVE  Feed!Pushes(Event(c))
  <1>1. /\ UNCHANGED <<clock, counter, statusQueue, cred, at>> /\ pc[c] = "push"
        /\ pc' = [pc EXCEPT ![c] = "done"] /\ pc \in [Calls -> PCs]
        /\ usageQueue' = Append(usageQueue, Event(c))
    BY DEF PushEvent, Answer, TypeOK, VariablesTyped
  <1> DEFINE x == Event(c)
  <1>2. x \in Feed!Events
    BY <1>1, CallSeen
  <1>3. \A e : Owes(e)' = IF e = x THEN Owes(e) \ {c} ELSE Owes(e)
    BY <1>1 DEF Owes, Event, KeyOf
  <1>4. c \in Owes(x)
    BY <1>1 DEF Owes
  <1>5. \A e \in Feed!Events :
           Cardinality(Owes(e)') = IF e = x THEN Cardinality(Owes(e)) - 1 ELSE Cardinality(Owes(e))
    BY <1>3, <1>4, OwedIs, FS_RemoveElement
  <1>6. Owed' = [Owed EXCEPT ![x] = @ - 1]
    <2> HIDE DEF x
    <2> QED
      BY <1>2, <1>5, OwedIs
  <1>7. Owed[x] > 0
    <2>1. Cardinality(Owes(x)) # 0
      BY <1>4, OwedIs, FS_EmptySet
    <2> HIDE DEF x
    <2> QED
      BY <1>2, <2>1, OwedIs
  <1> HIDE DEF x
  <1> QED
    BY <1>1, <1>6, <1>7 DEF Feed!Pushes, x

LEMMA ResendFeeds ==
    ASSUME TypeOK, BegunBefore, NEW c \in Calls, Resend(c)
    PROVE  [Feed!FeedNext]_Feed!feedVars
  <1>1. UNCHANGED <<clock, pc, cred, at>>
    BY DEF Resend, ResendRateIncr, ResendCountUnit, ResendExhaustQueue, ResendPushEvent, callVars
  <1>2. Owed' = Owed
    <2>1. \A e : Owes(e)' = Owes(e)
      BY <1>1 DEF Owes, Event, KeyOf
    <2> QED
      BY <2>1, OwedIs
  <1>3. CASE ResendRateIncr(c)
    BY <1>1, <1>2, <1>3 DEF ResendRateIncr, Feed!feedVars
  <1>4. CASE ResendCountUnit(c)
    <2>1. Feed!CountsAgain(KeyOf(c), at[c])
      BY <1>2, <1>4, CallSeen DEF ResendCountUnit, Feed!CountsAgain
    <2>2. KeyOf(c) \in Keys /\ at[c] \in Feed!Minutes
      BY <1>4, CallSeen DEF ResendCountUnit
    <2> QED
      BY <2>1, <2>2 DEF Feed!FeedNext
  <1>5. CASE ResendExhaustQueue(c)
    <2>1. Feed!Denies(KeyOf(c)) /\ KeyOf(c) \in Keys
      BY <1>2, <1>5, CallSeen DEF ResendExhaustQueue, Feed!Denies
    <2> QED
      BY <2>1 DEF Feed!FeedNext
  <1>6. CASE ResendPushEvent(c)
    <2>1. Event(c) \in Feed!Events
      BY <1>6, CallSeen DEF ResendPushEvent
    <2>2. Owed[Event(c)] > 0
      <3>1. c \in Owes(Event(c))
        BY <1>6 DEF ResendPushEvent, Owes
      <3>2. Cardinality(Owes(Event(c))) # 0
        BY <3>1, OwedIs, FS_EmptySet
      <3> QED
        BY <2>1, <3>2, OwedIs
    <2>3. Feed!PushesAgain(Event(c))
      BY <1>2, <1>6, <2>2 DEF ResendPushEvent, Feed!PushesAgain
    <2> QED
      BY <2>1, <2>3 DEF Feed!FeedNext
  <1> QED
    BY <1>3, <1>4, <1>5, <1>6 DEF Resend

LEMMA StepFeeds ==
    ASSUME TypeOK, BegunBefore, NEW c \in Calls, Step(c)
    PROVE  [Feed!FeedNext]_Feed!feedVars
  <1>1. CASE CountUnit(c)
    <2>1. KeyOf(c) \in Keys /\ at[c] \in Feed!Minutes
      BY <1>1, CallSeen DEF CountUnit
    <2> QED
      BY <1>1, <2>1, CountFeeds DEF Feed!FeedNext
  <1>2. CASE PushEvent(c)
    <2>1. Event(c) \in Feed!Events
      BY <1>2, CallSeen DEF PushEvent
    <2> QED
      BY <1>2, <2>1, PushFeeds DEF Feed!FeedNext
  <1>3. CASE ExhaustQueue(c)
    <2>1. UNCHANGED <<clock, counter, usageQueue, cred, at>> /\ KeyOf(c) \in Keys
      BY <1>3, CallSeen DEF ExhaustQueue
    <2>2. \A d \in Calls : (pc'[d] = "push") <=> (pc[d] = "push")
      BY <1>3 DEF ExhaustQueue, Answer, TypeOK, VariablesTyped
    <2>3. \A e : Owes(e)' = Owes(e)
      BY <2>1, <2>2 DEF Owes, Event, KeyOf
    <2>4. Owed' = Owed
      BY <2>3, OwedIs
    <2>5. Feed!Denies(KeyOf(c))
      BY <1>3, <2>1, <2>4 DEF ExhaustQueue, Feed!Denies
    <2> QED
      BY <2>1, <2>5 DEF Feed!FeedNext
  <1>4. CASE ~(CountUnit(c) \/ PushEvent(c) \/ ExhaustQueue(c))
    <2>1. UNCHANGED <<clock, counter, usageQueue, statusQueue, cred, at>>
      BY <1>4 DEF Step, ReadMeta, RateIncr, RateExpire, QuotaRead, ExhaustMeta, redisVars
    <2>2. \A d \in Calls : (pc'[d] = "push") <=> (pc[d] = "push")
      BY <1>4 DEF Step, ReadMeta, RateIncr, RateExpire, QuotaRead, ExhaustMeta,
                  Verdict, Answer, GoTo, FirstLimit, TypeOK, VariablesTyped
    <2> QED
      BY <2>1, <2>2, FeedUnseen
  <1> QED
    BY <1>1, <1>2, <1>3, <1>4

LEMMA NextFeeds == TypeOK /\ BegunBefore /\ [Next]_vars => [Feed!FeedNext]_Feed!feedVars
  <1> SUFFICES ASSUME TypeOK, BegunBefore, [Next]_vars PROVE [Feed!FeedNext]_Feed!feedVars
    OBVIOUS
  <1>1. ASSUME NEW c \in Calls, NEW i \in Inputs, Arrive(c, i)
        PROVE  [Feed!FeedNext]_Feed!feedVars
    <2>1. UNCHANGED <<clock, counter, usageQueue, statusQueue>>
      BY <1>1 DEF Arrive, redisVars
    <2>2. /\ \A d \in Calls : (pc'[d] = "push") <=> (pc[d] = "push")
          /\ \A d \in Calls : pc[d] = "push" => cred'[d] = cred[d] /\ at'[d] = at[d]
      BY <1>1 DEF Arrive, Answer, TypeOK, VariablesTyped
    <2> QED
      BY <2>1, <2>2, FeedUnseen
  <1>2. CASE Tick
    <2>1. UNCHANGED <<counter, usageQueue, statusQueue, pc, cred, at>>
      BY <1>2 DEF Tick, redisVars, callVars
    <2>2. \A e : Owes(e)' = Owes(e)
      BY <2>1 DEF Owes, Event, KeyOf
    <2>3. Owed' = Owed
      BY <2>2, OwedIs
    <2>4. Feed!Passes
      BY <1>2, <2>1, <2>3 DEF Tick, Feed!Passes
    <2> QED
      BY <2>4 DEF Feed!FeedNext
  <1>3. CASE Crash
    <2>1. UNCHANGED <<clock, counter, usageQueue, statusQueue>>
      BY <1>3 DEF Crash, redisVars
    <2>2. \A e : Owes(e)' = {}
      BY <1>3 DEF Crash, Owes
    <2>3. Owed' = Feed!Zero
      BY <2>2, OwedIs, FS_EmptySet DEF Feed!Zero
    <2>4. Feed!Dies
      BY <2>1, <2>3 DEF Feed!Dies
    <2> QED
      BY <2>4 DEF Feed!FeedNext
  <1>4. CASE \/ \E k \in Keys, m \in Minutes : RateKeyExpires(k, m)
             \/ \E k \in Keys, s \in Statuses \cup {NoMeta} : SyncMeta(k, s)
             \/ UNCHANGED vars
    <2>1. UNCHANGED <<clock, counter, usageQueue, statusQueue, pc, cred, at>>
      BY <1>4 DEF RateKeyExpires, SyncMeta, vars, redisVars, callVars
    <2> QED
      BY <2>1, FeedUnseen
  <1> QED
    BY <1>1, <1>2, <1>3, <1>4, StepFeeds, ResendFeeds DEF Next, Rest

(* Whatever calls overlap, die and are repeated, authorize() does to the   *)
(* counters and queues only what UsageFlush counts on: it implements the   *)
(* feed, owing an event for each unit that a call in progress has counted. *)
THEOREM FeedsTheFlush == Spec => FeedKept
  <1>1. Init => BegunBefore /\ Feed!FeedInit
    <2> SUFFICES ASSUME Init PROVE BegunBefore /\ Feed!FeedInit
      OBVIOUS
    <2>1. \A e : Owes(e) = {}
      BY DEF Init, Owes
    <2>2. Owed = Feed!Zero
      BY <2>1, OwedIs, FS_EmptySet DEF Feed!Zero
    <2> QED
      BY <2>2 DEF Init, BegunBefore, Feed!FeedInit
  <1> QED
    BY <1>1, InitTypeOK, NextTypeOK, NextBegun, NextFeeds, PTL
       DEF Spec, FeedKept, Feed!FeedSpec
=============================================================================
