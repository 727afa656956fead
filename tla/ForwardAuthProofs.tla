------------------------- MODULE ForwardAuthProofs -------------------------
(***************************************************************************)
(* What holds of ForwardAuth for any number of calls, keys, months and     *)
(* minutes, any limits, and any bounds on arrivals, resends and faults.    *)
(***************************************************************************)
EXTENDS ForwardAuth, FiniteSetTheorems, TLAPS

(* The limits authorize() applies are numbers, or no limit at all.         *)
LEMMA EffectiveLimitsType ==
    ASSUME NEW k \in Keys
    PROVE  /\ EffectiveRateLimit(k) \in Nat \cup {None}
           /\ EffectiveMonthlyLimit(k) \in Nat
  BY RowAssumption, ConfigAssumption
     DEF EffectiveRateLimit, EffectiveMonthlyLimit, Smaller

(* A set of calls is finite, so the models may count it.                   *)
LEMMA CallSets ==
    ASSUME NEW S, S \subseteq Calls
    PROVE  IsFiniteSet(S) /\ Cardinality(S) \in Nat /\ Cardinality(S) <= Cardinality(Calls)
  BY CallsAssumption, FS_Subset, FS_CardinalityType

(* Type correctness of the initial states.                                 *)
LEMMA InitTypeOK == Init => TypeOK
  BY ConfigAssumption DEF Init, TypeOK, VariablesTyped, AtRow, Minutes, Statuses, NoMeta, PCs, Answers

(* One call moves: its own row facts are re-established, the other calls'  *)
(* are as they were.                                                       *)
LEMMA OneCallMoves ==
    ASSUME TypeOK, NEW c \in Calls,
           \A d \in Calls \ {c} : pc'[d] = pc[d] /\ cred'[d] = cred[d],
           AtRow(c)'
    PROVE  \A d \in Calls : AtRow(d)'
  BY DEF TypeOK, AtRow, KeyOf, EffectiveRateLimit

LEMMA NoCallMoves ==
    ASSUME TypeOK, UNCHANGED <<pc, cred>>
    PROVE  \A d \in Calls : AtRow(d)'
  BY DEF TypeOK, AtRow, KeyOf, EffectiveRateLimit

(* The counters a call works on are counters of a row.                     *)
LEMMA CountersOfCall ==
    ASSUME TypeOK, NEW c \in Calls, pc[c] \notin {"idle", "meta", "done"}
    PROVE  /\ KeyOf(c) \in Keys
           /\ Period(c) \in Keys \X Months
           /\ Window(c) \in Keys \X Minutes
           /\ Event(c) \in [key : Keys, at : Minutes]
  BY ConfigAssumption
     DEF TypeOK, VariablesTyped, AtRow, KeyOf, Period, Window, Event

(* Adding one to an entry of a table of counters.                          *)
LEMMA CountUp ==
    ASSUME NEW S, NEW f \in [S -> Nat], NEW x \in S
    PROVE  [f EXCEPT ![x] = @ + 1] \in [S -> Nat]
  OBVIOUS

LEMMA AppendType ==
    ASSUME NEW S, NEW s \in Seq(S), NEW x \in S
    PROVE  Append(s, x) \in Seq(S)
  OBVIOUS

(* Type correctness is kept by the steps of a call.                        *)
LEMMA StepTypeOK == ASSUME TypeOK, NEW c \in Calls, Step(c) PROVE TypeOK'
  <1> USE DEF TypeOK, redisVars, callVars, historyVars
  <1>1. CASE ReadMeta(c)
    <2>1. pc' \in [Calls -> PCs] /\ answer' \in [Calls -> Answers]
      BY <1>1 DEF ReadMeta, Answer, GoTo, FirstLimit, VariablesTyped, PCs, Answers
    <2>2. VariablesTyped'
      BY <1>1, <2>1 DEF ReadMeta, Answer, GoTo, FirstLimit, VariablesTyped
    <2>3. AtRow(c)'
      BY <1>1, CountersOfCall DEF ReadMeta, Answer, GoTo, FirstLimit, Known, AtRow, KeyOf, VariablesTyped, EffectiveRateLimit
    <2>4. \A d \in Calls \ {c} : pc'[d] = pc[d] /\ cred'[d] = cred[d]
      BY <1>1 DEF ReadMeta, Answer, GoTo, FirstLimit, VariablesTyped
    <2> QED
      BY <2>2, <2>3, <2>4, OneCallMoves
  <1>2. CASE RateIncr(c)
    <2>0. Window(c) \in Keys \X Minutes
      BY <1>2, CountersOfCall DEF RateIncr
    <2>1. pc' \in [Calls -> PCs] /\ answer' \in [Calls -> Answers]
      BY <1>2 DEF RateIncr, Verdict, Answer, GoTo, VariablesTyped, PCs, Answers
    <2>2. rate' \in [Keys \X Minutes -> Nat]
      BY <1>2, <2>0 DEF RateIncr, VariablesTyped
    <2>3. lives' \in [Keys \X Minutes -> Nat] /\ passed' \in [Keys \X Minutes -> Nat]
      <3>1. lives' = lives \/ lives' = [lives EXCEPT ![Window(c)] = @ + 1]
        BY <1>2 DEF RateIncr
      <3>2. passed' = passed \/ passed' = [passed EXCEPT ![Window(c)] = @ + 1]
        BY <1>2 DEF RateIncr, Verdict
      <3>3. lives' \in [Keys \X Minutes -> Nat]
        <4>1. lives \in [Keys \X Minutes -> Nat]
          BY DEF VariablesTyped
        <4> QED
          BY <2>0, <3>1, <4>1, CountUp
      <3>4. passed' \in [Keys \X Minutes -> Nat]
        BY <2>0, <3>2, CountUp DEF VariablesTyped
      <3> QED
        BY <3>3, <3>4
    <2>4. VariablesTyped'
      BY <1>2, <2>1, <2>2, <2>3 DEF RateIncr, Verdict, Answer, GoTo, VariablesTyped
    <2>5. AtRow(c)'
      BY <1>2, <2>0 DEF RateIncr, Verdict, Answer, GoTo, AtRow, KeyOf, VariablesTyped, EffectiveRateLimit
    <2>6. \A d \in Calls \ {c} : pc'[d] = pc[d] /\ cred'[d] = cred[d]
      BY <1>2 DEF RateIncr, Verdict, Answer, GoTo, VariablesTyped
    <2> QED
      BY <2>4, <2>5, <2>6, OneCallMoves
  <1>3. CASE RateExpire(c)
    <2>0. Window(c) \in Keys \X Minutes
      BY <1>3, CountersOfCall DEF RateExpire
    <2>1. pc' \in [Calls -> PCs] /\ answer' \in [Calls -> Answers]
      BY <1>3 DEF RateExpire, Verdict, Answer, GoTo, VariablesTyped, PCs, Answers
    <2>2. rateTtl' \in [Keys \X Minutes -> Nat \cup {None}]
      BY <1>3, <2>0, ConfigAssumption DEF RateExpire, VariablesTyped, Minutes
    <2>3. passed' \in [Keys \X Minutes -> Nat]
      <3>1. passed' = passed \/ passed' = [passed EXCEPT ![Window(c)] = @ + 1]
        BY <1>3 DEF RateExpire, Verdict
      <3> QED
        BY <2>0, <3>1, CountUp DEF VariablesTyped
    <2>4. VariablesTyped'
      BY <1>3, <2>1, <2>2, <2>3 DEF RateExpire, Verdict, Answer, GoTo, VariablesTyped
    <2>5. AtRow(c)'
      BY <1>3, <2>0 DEF RateExpire, Verdict, Answer, GoTo, AtRow, KeyOf, VariablesTyped, EffectiveRateLimit
    <2>6. \A d \in Calls \ {c} : pc'[d] = pc[d] /\ cred'[d] = cred[d]
      BY <1>3 DEF RateExpire, Verdict, Answer, GoTo, VariablesTyped
    <2> QED
      BY <2>4, <2>5, <2>6, OneCallMoves
  <1>4. CASE QuotaRead(c)
    <2>1. pc' \in [Calls -> PCs] /\ answer' \in [Calls -> Answers]
      BY <1>4 DEF QuotaRead, GoTo, VariablesTyped, PCs, Answers
    <2>2. VariablesTyped'
      BY <1>4, <2>1 DEF QuotaRead, GoTo, VariablesTyped
    <2>3. AtRow(c)'
      BY <1>4, CountersOfCall DEF QuotaRead, GoTo, AtRow, KeyOf, VariablesTyped, EffectiveRateLimit
    <2>4. \A d \in Calls \ {c} : pc'[d] = pc[d] /\ cred'[d] = cred[d]
      BY <1>4 DEF QuotaRead, GoTo, VariablesTyped
    <2> QED
      BY <2>2, <2>3, <2>4, OneCallMoves
  <1>5. CASE ExhaustMeta(c)
    <2>0. KeyOf(c) \in Keys
      BY <1>5, CountersOfCall DEF ExhaustMeta
    <2>1. pc' \in [Calls -> PCs] /\ answer' \in [Calls -> Answers]
      BY <1>5 DEF ExhaustMeta, GoTo, VariablesTyped, PCs, Answers
    <2>2. meta' \in [Keys -> Statuses \cup {NoMeta}]
      BY <1>5, <2>0 DEF ExhaustMeta, VariablesTyped, Statuses, NoMeta
    <2>3. VariablesTyped'
      BY <1>5, <2>1, <2>2 DEF ExhaustMeta, GoTo, VariablesTyped
    <2>4. AtRow(c)'
      BY <1>5, <2>0 DEF ExhaustMeta, GoTo, AtRow, KeyOf, VariablesTyped, EffectiveRateLimit
    <2>5. \A d \in Calls \ {c} : pc'[d] = pc[d] /\ cred'[d] = cred[d]
      BY <1>5 DEF ExhaustMeta, GoTo, VariablesTyped
    <2> QED
      BY <2>3, <2>4, <2>5, OneCallMoves
  <1>6. CASE ExhaustQueue(c)
    <2>0. KeyOf(c) \in Keys
      BY <1>6, CountersOfCall DEF ExhaustQueue
    <2>1. pc' \in [Calls -> PCs] /\ answer' \in [Calls -> Answers]
      BY <1>6 DEF ExhaustQueue, Answer, VariablesTyped, PCs, Answers
    <2>2. statusQueue' \in Seq(Keys)
      BY <1>6, <2>0, AppendType DEF ExhaustQueue, VariablesTyped
    <2>3. VariablesTyped'
      BY <1>6, <2>1, <2>2 DEF ExhaustQueue, Answer, VariablesTyped
    <2>4. AtRow(c)'
      BY <1>6, <2>0 DEF ExhaustQueue, Answer, AtRow, KeyOf, VariablesTyped, EffectiveRateLimit
    <2>5. \A d \in Calls \ {c} : pc'[d] = pc[d] /\ cred'[d] = cred[d]
      BY <1>6 DEF ExhaustQueue, Answer, VariablesTyped
    <2> QED
      BY <2>3, <2>4, <2>5, OneCallMoves
  <1>7. CASE CountUnit(c)
    <2>0. Period(c) \in Keys \X Months
      BY <1>7, CountersOfCall DEF CountUnit
    <2>1. pc' \in [Calls -> PCs] /\ answer' \in [Calls -> Answers]
      BY <1>7 DEF CountUnit, GoTo, VariablesTyped, PCs, Answers
    <2>2. counter' \in [Keys \X Months -> Nat]
      BY <1>7, <2>0, CountUp DEF CountUnit, VariablesTyped
    <2>3. VariablesTyped'
      BY <1>7, <2>1, <2>2 DEF CountUnit, GoTo, VariablesTyped
    <2>4. AtRow(c)'
      BY <1>7, <2>0 DEF CountUnit, GoTo, AtRow, KeyOf, VariablesTyped, EffectiveRateLimit
    <2>5. \A d \in Calls \ {c} : pc'[d] = pc[d] /\ cred'[d] = cred[d]
      BY <1>7 DEF CountUnit, GoTo, VariablesTyped
    <2> QED
      BY <2>3, <2>4, <2>5, OneCallMoves
  <1>8. CASE PushEvent(c)
    <2>0. Event(c) \in [key : Keys, at : Minutes] /\ Period(c) \in Keys \X Months
      BY <1>8, CountersOfCall DEF PushEvent
    <2>1. pc' \in [Calls -> PCs] /\ answer' \in [Calls -> Answers]
      BY <1>8 DEF PushEvent, Answer, VariablesTyped, PCs, Answers
    <2>2. usageQueue' \in Seq([key : Keys, at : Minutes])
      BY <1>8, <2>0 DEF PushEvent, VariablesTyped
    <2>3. forwarded' \in [Keys \X Months -> Nat]
      BY <1>8, <2>0, CountUp DEF PushEvent, VariablesTyped
    <2>4. VariablesTyped'
      BY <1>8, <2>1, <2>2, <2>3 DEF PushEvent, Answer, VariablesTyped
    <2>5. AtRow(c)'
      BY <1>8, <2>0 DEF PushEvent, Answer, AtRow, KeyOf, VariablesTyped, EffectiveRateLimit
    <2>6. \A d \in Calls \ {c} : pc'[d] = pc[d] /\ cred'[d] = cred[d]
      BY <1>8 DEF PushEvent, Answer, VariablesTyped
    <2> QED
      BY <2>4, <2>5, <2>6, OneCallMoves
  <1> QED
    BY <1>1, <1>2, <1>3, <1>4, <1>5, <1>6, <1>7, <1>8 DEF Step

(* Type correctness is kept when Redis runs a command of a call twice.     *)
LEMMA ResendTypeOK == ASSUME TypeOK, NEW c \in Calls, Resend(c) PROVE TypeOK'
  <1> USE DEF TypeOK, redisVars, callVars, historyVars
  <1>1. UNCHANGED <<pc, cred>>
    BY DEF Resend, ResendRateIncr, ResendCountUnit, ResendExhaustQueue, ResendPushEvent
  <1>2. CASE ResendRateIncr(c)
    <2>0. Window(c) \in Keys \X Minutes
      BY <1>2, CountersOfCall DEF ResendRateIncr
    <2>1. rate' \in [Keys \X Minutes -> Nat] /\ lives' \in [Keys \X Minutes -> Nat]
      BY <1>2, <2>0 DEF ResendRateIncr, VariablesTyped
    <2> QED
      BY <1>1, <1>2, <2>1, NoCallMoves DEF ResendRateIncr, VariablesTyped
  <1>3. CASE ResendCountUnit(c)
    <2>0. Period(c) \in Keys \X Months
      BY <1>3, CountersOfCall DEF ResendCountUnit
    <2>1. counter' \in [Keys \X Months -> Nat] /\ unmatched' \in [Keys \X Months -> Nat]
      BY <1>3, <2>0, CountUp DEF ResendCountUnit, VariablesTyped
    <2> QED
      <3>1. VariablesTyped'
        BY <1>3, <2>1 DEF ResendCountUnit, VariablesTyped
      <3> QED
        BY <1>1, <3>1, NoCallMoves
  <1>4. CASE ResendExhaustQueue(c)
    <2>0. KeyOf(c) \in Keys
      BY <1>4, CountersOfCall DEF ResendExhaustQueue
    <2>1. statusQueue' \in Seq(Keys)
      BY <1>4, <2>0 DEF ResendExhaustQueue, VariablesTyped
    <2> QED
      BY <1>1, <1>4, <2>1, NoCallMoves DEF ResendExhaustQueue, VariablesTyped
  <1>5. CASE ResendPushEvent(c)
    <2>0. Event(c) \in [key : Keys, at : Minutes] /\ Period(c) \in Keys \X Months
      BY <1>5, CountersOfCall DEF ResendPushEvent
    <2>1. /\ usageQueue' \in Seq([key : Keys, at : Minutes])
          /\ repeated' \in [Keys \X Months -> Nat]
      BY <1>5, <2>0, CountUp DEF ResendPushEvent, VariablesTyped
    <2> QED
      <3>1. VariablesTyped'
        BY <1>5, <2>1 DEF ResendPushEvent, VariablesTyped
      <3> QED
        BY <1>1, <3>1, NoCallMoves
  <1> QED
    BY <1>2, <1>3, <1>4, <1>5 DEF Resend

(* Type correctness is kept by every step.                                 *)
LEMMA NextTypeOK == TypeOK /\ [Next]_vars => TypeOK'
  <1> SUFFICES ASSUME TypeOK, [Next]_vars PROVE TypeOK'
    OBVIOUS
  <1> USE DEF TypeOK, redisVars, callVars, historyVars
  <1>1. ASSUME NEW c \in Calls, NEW i \in Inputs, Arrive(c, i) PROVE TypeOK'
    <2>1. ExtractKey(i) \in Credentials \cup {None}
      BY DEF ExtractKey
    <2>2. pc' \in [Calls -> PCs] /\ answer' \in [Calls -> Answers]
      BY <1>1 DEF Arrive, Answer, VariablesTyped, PCs, Answers
    <2>3. VariablesTyped'
      <3>1. cred' \in [Calls -> Credentials \cup {None}]
        BY <1>1, <2>1 DEF Arrive, VariablesTyped
      <3>2. at' \in [Calls -> Minutes] /\ arrivals' \in Nat
        BY <1>1 DEF Arrive, VariablesTyped
      <3> QED
        BY <1>1, <2>2, <3>1, <3>2 DEF Arrive, VariablesTyped
    <2>4. AtRow(c)'
      BY <1>1, <2>1 DEF Arrive, Answer, AtRow, VariablesTyped
    <2>5. \A d \in Calls \ {c} : pc'[d] = pc[d] /\ cred'[d] = cred[d]
      BY <1>1 DEF Arrive, Answer, VariablesTyped
    <2> QED
      BY <2>3, <2>4, <2>5, OneCallMoves
  <1>2. ASSUME NEW k \in Keys, NEW m \in Minutes, RateKeyExpires(k, m) PROVE TypeOK'
    <2>1. /\ rate' \in [Keys \X Minutes -> Nat]
          /\ rateTtl' \in [Keys \X Minutes -> Nat \cup {None}]
      BY <1>2 DEF RateKeyExpires, VariablesTyped
    <2> QED
      BY <1>2, <2>1, NoCallMoves DEF RateKeyExpires, VariablesTyped
  <1>3. ASSUME NEW k \in Keys, NEW s \in Statuses \cup {NoMeta}, SyncMeta(k, s)
        PROVE  TypeOK'
    BY <1>3, NoCallMoves DEF SyncMeta, VariablesTyped
  <1>4. CASE Tick
    BY <1>4, NoCallMoves, ConfigAssumption DEF Tick, VariablesTyped, Minutes
  <1>5. CASE Crash
    <2>1. unmatched' \in [Keys \X Months -> Nat]
      <3>1. \A km \in Keys \X Months : Cardinality(Owing(km)) \in Nat
        BY CallSets DEF Owing
      <3> QED
        BY <1>5, <3>1 DEF Crash, VariablesTyped
    <2>2. pc' \in [Calls -> PCs] /\ answer' \in [Calls -> Answers]
      BY <1>5 DEF Crash, PCs, Answers
    <2>3. VariablesTyped'
      BY <1>5, <2>1, <2>2 DEF Crash, VariablesTyped
    <2>4. \A c \in Calls : AtRow(c)'
      BY <1>5 DEF Crash, AtRow
    <2> QED
      BY <2>3, <2>4
  <1>6. CASE UNCHANGED vars
    BY <1>6, NoCallMoves DEF vars, VariablesTyped
  <1> QED
    BY <1>1, <1>2, <1>3, <1>4, <1>5, <1>6, StepTypeOK, ResendTypeOK DEF Next, Rest

(* Every variable keeps its type; in particular a call that talks to the   *)
(* rate limiter or to a counter does so for a row that exists.             *)
THEOREM TypeCorrect == Spec => []TypeOK
  BY InitTypeOK, NextTypeOK, PTL DEF Spec
-----------------------------------------------------------------------------
(* A step that counts no unit and lets no further call through to the INCR *)
(* keeps the bound on the month's counter.                                 *)
LEMMA NobodyJoins ==
    ASSUME TypeOK, TypeOK', QuotaOvershootBounded, counter' = counter,
           resends' >= resends,
           \A km \in Keys \X Months : Committed(km)' \subseteq Committed(km)
    PROVE  QuotaOvershootBounded'
  <1> SUFFICES ASSUME NEW k \in Keys, NEW m \in Months
               PROVE  counter'[<<k, m>>] + Cardinality(Committed(<<k, m>>)') <=
                         EffectiveMonthlyLimit(k) + Cardinality(Calls) - 1 + resends'
    BY DEF QuotaOvershootBounded, EffectiveMonthlyLimit
  <1>1. IsFiniteSet(Committed(<<k, m>>)) /\ Cardinality(Committed(<<k, m>>)) \in Nat
    BY CallSets DEF Committed
  <1>2. Cardinality(Committed(<<k, m>>)') <= Cardinality(Committed(<<k, m>>))
    BY <1>1, FS_Subset
  <1>3. Cardinality(Committed(<<k, m>>)') \in Nat /\ Cardinality(Calls) \in Nat
    BY CallSets DEF Committed
  <1>4. counter[<<k, m>>] + Cardinality(Committed(<<k, m>>)) <=
           EffectiveMonthlyLimit(k) + Cardinality(Calls) - 1 + resends
    BY DEF QuotaOvershootBounded
  <1>5. /\ counter[<<k, m>>] \in Nat /\ resends \in Nat /\ resends' \in Nat
        /\ EffectiveMonthlyLimit(k) \in Nat
    BY EffectiveLimitsType DEF TypeOK, VariablesTyped
  <1> QED
    BY <1>1, <1>2, <1>3, <1>4, <1>5

(* GET and the decision on it: the call joins only if the counter is below *)
(* the limit, and then all the calls together may still be let through.    *)
LEMMA ReadKeepsBound ==
    ASSUME TypeOK, QuotaOvershootBounded, NEW c \in Calls, QuotaRead(c)
    PROVE  QuotaOvershootBounded'
  <1> SUFFICES ASSUME NEW k \in Keys, NEW m \in Months
               PROVE  counter'[<<k, m>>] + Cardinality(Committed(<<k, m>>)') <=
                         EffectiveMonthlyLimit(k) + Cardinality(Calls) - 1 + resends'
    BY DEF QuotaOvershootBounded, EffectiveMonthlyLimit
  <1>1. UNCHANGED <<counter, cred, at, resends>>
    BY DEF QuotaRead, redisVars, historyVars
  <1>2. /\ counter[<<k, m>>] \in Nat /\ resends \in Nat
        /\ EffectiveMonthlyLimit(k) \in Nat
    BY EffectiveLimitsType DEF TypeOK, VariablesTyped
  <1>3. CASE Period(c) = <<k, m>> /\ ~QuotaUsedUp(c)
    <2>1. counter[<<k, m>>] < EffectiveMonthlyLimit(k)
      BY <1>2, <1>3 DEF QuotaUsedUp, Period, KeyOf
    <2>2. /\ Cardinality(Committed(<<k, m>>)') \in Nat
          /\ Cardinality(Calls) \in Nat
          /\ Cardinality(Committed(<<k, m>>)') <= Cardinality(Calls)
      BY CallSets DEF Committed
    <2> QED
      BY <1>1, <1>2, <2>1, <2>2
  <1>4. CASE ~(Period(c) = <<k, m>> /\ ~QuotaUsedUp(c))
    <2>1. Committed(<<k, m>>)' = Committed(<<k, m>>)
      BY <1>1, <1>4 DEF QuotaRead, GoTo, Committed, Period, KeyOf, TypeOK, VariablesTyped
    <2> QED
      BY <1>1, <2>1 DEF QuotaOvershootBounded
  <1> QED
    BY <1>3, <1>4

(* INCR: one unit more, one call fewer on its way to count.                *)
LEMMA CountKeepsBound ==
    ASSUME TypeOK, QuotaOvershootBounded, NEW c \in Calls, CountUnit(c)
    PROVE  QuotaOvershootBounded'
  <1> SUFFICES ASSUME NEW k \in Keys, NEW m \in Months
               PROVE  counter'[<<k, m>>] + Cardinality(Committed(<<k, m>>)') <=
                         EffectiveMonthlyLimit(k) + Cardinality(Calls) - 1 + resends'
    BY DEF QuotaOvershootBounded, EffectiveMonthlyLimit
  <1>1. UNCHANGED <<cred, at, resends>>
    BY DEF CountUnit, historyVars
  <1>2. IsFiniteSet(Committed(<<k, m>>)) /\ Cardinality(Committed(<<k, m>>)) \in Nat
    BY CallSets DEF Committed
  <1>3. counter[<<k, m>>] + Cardinality(Committed(<<k, m>>)) <=
           EffectiveMonthlyLimit(k) + Cardinality(Calls) - 1 + resends
    BY DEF QuotaOvershootBounded
  <1>4. Committed(<<k, m>>)' = Committed(<<k, m>>) \ {c}
    BY <1>1 DEF CountUnit, GoTo, Committed, Period, KeyOf, TypeOK, VariablesTyped
  <1>5. CASE Period(c) = <<k, m>>
    <2>1. c \in Committed(<<k, m>>)
      BY <1>5 DEF CountUnit, Committed
    <2>2. Cardinality(Committed(<<k, m>>)') = Cardinality(Committed(<<k, m>>)) - 1
      BY <1>2, <1>4, <2>1, FS_RemoveElement
    <2>3. counter'[<<k, m>>] = counter[<<k, m>>] + 1
      BY <1>5 DEF CountUnit, TypeOK, VariablesTyped
    <2>4. counter[<<k, m>>] \in Nat
      BY DEF TypeOK, VariablesTyped
    <2> QED
      BY <1>1, <1>2, <1>3, <2>2, <2>3, <2>4
  <1>6. CASE Period(c) # <<k, m>>
    <2>1. Committed(<<k, m>>)' = Committed(<<k, m>>)
      BY <1>4, <1>6 DEF Committed
    <2>2. counter'[<<k, m>>] = counter[<<k, m>>]
      BY <1>6 DEF CountUnit, TypeOK, VariablesTyped
    <2> QED
      BY <1>1, <1>3, <2>1, <2>2
  <1> QED
    BY <1>5, <1>6

(* INCR run twice: the extra unit is paid for by the count of resends.     *)
LEMMA ResendCountKeepsBound ==
    ASSUME TypeOK, QuotaOvershootBounded, NEW c \in Calls, ResendCountUnit(c)
    PROVE  QuotaOvershootBounded'
  <1> SUFFICES ASSUME NEW k \in Keys, NEW m \in Months
               PROVE  counter'[<<k, m>>] + Cardinality(Committed(<<k, m>>)') <=
                         EffectiveMonthlyLimit(k) + Cardinality(Calls) - 1 + resends'
    BY DEF QuotaOvershootBounded, EffectiveMonthlyLimit
  <1>1. Committed(<<k, m>>)' = Committed(<<k, m>>)
    BY DEF ResendCountUnit, callVars, Committed, Period, KeyOf
  <1>2. counter'[<<k, m>>] <= counter[<<k, m>>] + 1 /\ counter'[<<k, m>>] \in Nat
    <2>1. counter \in [Keys \X Months -> Nat] /\ counter[<<k, m>>] \in Nat
      BY DEF TypeOK, VariablesTyped
    <2>2. CASE Period(c) = <<k, m>>
      BY <2>1, <2>2 DEF ResendCountUnit
    <2>3. CASE Period(c) # <<k, m>>
      BY <2>1, <2>3 DEF ResendCountUnit
    <2> QED
      BY <2>2, <2>3
  <1>3. counter[<<k, m>>] + Cardinality(Committed(<<k, m>>)) <=
           EffectiveMonthlyLimit(k) + Cardinality(Calls) - 1 + resends
    BY DEF QuotaOvershootBounded
  <1>4. resends' = resends + 1
    BY DEF ResendCountUnit
  <1>5. /\ counter[<<k, m>>] \in Nat /\ resends \in Nat
        /\ Cardinality(Committed(<<k, m>>)) \in Nat /\ Cardinality(Calls) \in Nat
        /\ EffectiveMonthlyLimit(k) \in Nat
    BY CallSets, EffectiveLimitsType DEF Committed, TypeOK, VariablesTyped
  <1> QED
    BY <1>1, <1>2, <1>3, <1>4, <1>5

LEMMA InitBound == Init => QuotaOvershootBounded
  <1> SUFFICES ASSUME Init, NEW k \in Keys, NEW m \in Months
               PROVE  counter[<<k, m>>] + Cardinality(Committed(<<k, m>>)) <=
                         EffectiveMonthlyLimit(k) + Cardinality(Calls) - 1 + resends
    BY DEF QuotaOvershootBounded
  <1>1. Committed(<<k, m>>) = {}
    BY DEF Init, Committed
  <1>2. Cardinality(Committed(<<k, m>>)) = 0
    BY <1>1, FS_EmptySet
  <1>3. Cardinality(Calls) \in Nat /\ Cardinality(Calls) # 0
    BY CallsAssumption, CallSets, FS_EmptySet
  <1>4. counter[<<k, m>>] = 0 /\ resends = 0
    BY DEF Init
  <1> QED
    BY <1>2, <1>3, <1>4, EffectiveLimitsType

LEMMA NextBound ==
    TypeOK /\ TypeOK' /\ QuotaOvershootBounded /\ [Next]_vars => QuotaOvershootBounded'
  <1> SUFFICES ASSUME TypeOK, TypeOK', QuotaOvershootBounded, [Next]_vars
               PROVE  QuotaOvershootBounded'
    OBVIOUS
  <1> USE DEF redisVars, callVars, historyVars
  <1>0. resends \in Nat
    BY DEF TypeOK, VariablesTyped
  <1>1. ASSUME NEW c \in Calls, NEW i \in Inputs, Arrive(c, i)
        PROVE  QuotaOvershootBounded'
    <2>1. \A km \in Keys \X Months : Committed(km)' \subseteq Committed(km)
      BY <1>1 DEF Arrive, Answer, Committed, Period, KeyOf, TypeOK, VariablesTyped
    <2> QED
      BY <1>0, <1>1, <2>1, NobodyJoins DEF Arrive
  <1>2. ASSUME NEW c \in Calls, Step(c) PROVE QuotaOvershootBounded'
    <2>1. CASE QuotaRead(c)
      BY <2>1, ReadKeepsBound
    <2>2. CASE CountUnit(c)
      BY <2>2, CountKeepsBound
    <2>3. CASE \/ ReadMeta(c) \/ RateIncr(c) \/ RateExpire(c)
               \/ ExhaustMeta(c) \/ ExhaustQueue(c) \/ PushEvent(c)
      <3>1. counter' = counter /\ UNCHANGED <<cred, at, resends>>
        BY <2>3 DEF ReadMeta, RateIncr, RateExpire, ExhaustMeta, ExhaustQueue, PushEvent
      <3>2. \A d \in Calls : pc'[d] = "incr" => pc[d] = "incr"
        BY <2>3 DEF ReadMeta, RateIncr, RateExpire, ExhaustMeta, ExhaustQueue, PushEvent,
                    Verdict, Answer, GoTo, FirstLimit, TypeOK, VariablesTyped
      <3>3. \A km \in Keys \X Months : Committed(km)' \subseteq Committed(km)
        BY <3>1, <3>2 DEF Committed, Period, KeyOf
      <3> QED
        BY <1>0, <3>1, <3>3, NobodyJoins
    <2> QED
      BY <1>2, <2>1, <2>2, <2>3 DEF Step
  <1>3. ASSUME NEW c \in Calls, Resend(c) PROVE QuotaOvershootBounded'
    <2>1. CASE ResendCountUnit(c)
      BY <2>1, ResendCountKeepsBound
    <2>2. CASE ResendRateIncr(c) \/ ResendExhaustQueue(c) \/ ResendPushEvent(c)
      <3>1. counter' = counter /\ resends' >= resends /\ UNCHANGED <<pc, cred, at>>
        BY <1>0, <2>2 DEF ResendRateIncr, ResendExhaustQueue, ResendPushEvent
      <3>2. \A km \in Keys \X Months : Committed(km)' \subseteq Committed(km)
        BY <3>1 DEF Committed, Period, KeyOf
      <3> QED
        BY <3>1, <3>2, NobodyJoins
    <2> QED
      BY <1>3, <2>1, <2>2 DEF Resend
  <1>4. ASSUME \/ \E k \in Keys, m \in Minutes : RateKeyExpires(k, m)
               \/ \E k \in Keys, s \in Statuses \cup {NoMeta} : SyncMeta(k, s)
               \/ Tick
               \/ UNCHANGED vars
        PROVE  QuotaOvershootBounded'
    <2>1. UNCHANGED <<counter, pc, cred, at, resends>>
      BY <1>4 DEF RateKeyExpires, SyncMeta, Tick, vars
    <2>2. \A km \in Keys \X Months : Committed(km)' \subseteq Committed(km)
      BY <2>1 DEF Committed, Period, KeyOf
    <2> QED
      BY <1>0, <2>1, <2>2, NobodyJoins
  <1>5. CASE Crash
    <2>1. \A km \in Keys \X Months : Committed(km)' \subseteq Committed(km)
      BY <1>5 DEF Crash, Committed
    <2> QED
      BY <1>0, <1>5, <2>1, NobodyJoins DEF Crash
  <1> QED
    BY <1>1, <1>2, <1>3, <1>4, <1>5 DEF Next, Rest

(* However many calls arrive, the month's counter of a key passes its      *)
(* limit by less than the number of calls in progress at once (plus the    *)
(* INCRs Redis ran twice).                                                 *)
THEOREM QuotaOvershoot == Spec => []QuotaOvershootBounded
  <1>1. Init => TypeOK /\ QuotaOvershootBounded
    BY InitTypeOK, InitBound
  <1>2. TypeOK /\ QuotaOvershootBounded /\ [Next]_vars
           => TypeOK' /\ QuotaOvershootBounded'
    BY NextTypeOK, NextBound
  <1> QED
    BY <1>1, <1>2, PTL DEF Spec
=============================================================================
