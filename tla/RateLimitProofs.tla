--------------------------- MODULE RateLimitProofs ---------------------------
(***************************************************************************)
(* What RateLimitService lets through in a minute, for any limits, any     *)
(* number of calls, and counters that expire under calls held up.          *)
(***************************************************************************)
EXTENDS MeteringProofs

Windows == Keys \X Minutes
Limit(w) == EffectiveRateLimit(w[1])

(* One call that made the counter of window w may have its EXPIRE ahead,   *)
(* and the place it will take is kept for it; the counter leaves the rest. *)
Kept(w) == IF Creating(w) = {} THEN 0 ELSE Smaller(1, Limit(w))
Left(w) == IF rate[w] = 0 THEN 0 ELSE Limit(w) - Smaller(rate[w], Limit(w))

RateInv(w) ==
    /\ \A c, d \in Creating(w) : c = d
    /\ Creating(w) # {} => rateTtl[w] = None /\ rate[w] # 0
    /\ rate[w] = 0 => rateTtl[w] = None
    /\ Limit(w) # None => passed[w] + Kept(w) + Left(w) <= Limit(w) * lives[w]

LEMMA WindowTyped ==
    ASSUME TypeOK, NEW w \in Windows
    PROVE  /\ rate[w] \in Nat /\ passed[w] \in Nat /\ lives[w] \in Nat
           /\ rateTtl[w] \in Nat \cup {None}
           /\ Limit(w) \in Nat \cup {None}
  <1>1. w[1] \in Keys
    BY DEF Windows
  <1> QED
    BY <1>1, EffectiveLimitsType DEF Windows, Limit, TypeOK, VariablesTyped

LEMMA OneMoreLife ==
    ASSUME NEW x \in Nat, NEW y \in Nat
    PROVE  x * y \in Nat /\ x * (y + 1) = x * y + x
  OBVIOUS

LEMMA LimitConstant == ASSUME NEW w PROVE Limit(w)' = Limit(w)
  BY DEF Limit, EffectiveRateLimit

(* A window nothing happens to.                                            *)
LEMMA WindowAlone ==
    ASSUME NEW w \in Windows, RateInv(w),
           rate'[w] = rate[w], rateTtl'[w] = rateTtl[w],
           passed'[w] = passed[w], lives'[w] = lives[w],
           Creating(w)' = Creating(w)
    PROVE  RateInv(w)'
  <1>1. Kept(w)' = Kept(w) /\ Left(w)' = Left(w)
    BY LimitConstant DEF Kept, Left
  <1> QED
    BY <1>1, LimitConstant DEF RateInv

(* A call of the limiter works on a window that has a limit.               *)
LEMMA InWindow ==
    ASSUME TypeOK, NEW c \in Calls, pc[c] \in {"rate", "expire"}
    PROVE  /\ Window(c) \in Windows
           /\ Limit(Window(c)) = EffectiveRateLimit(KeyOf(c)) /\ Limit(Window(c)) \in Nat
  <1>1. Window(c) \in Windows /\ Window(c)[1] = KeyOf(c)
    BY CountersOfCall DEF Windows, Window, KeyOf
  <1>2. EffectiveRateLimit(KeyOf(c)) # None
    BY DEF TypeOK, AtRow
  <1> QED
    BY <1>1, <1>2, WindowTyped DEF Limit
-----------------------------------------------------------------------------
(* Who has EXPIRE ahead, after call c moved.                               *)
LEMMA CreatingAfter ==
    ASSUME TypeOK, NEW c \in Calls, UNCHANGED <<cred, at>>, NEW label \in PCs,
           pc' = [pc EXCEPT ![c] = label], NEW w
    PROVE  Creating(w)' = IF label = "expire" /\ Window(c) = w THEN Creating(w) \cup {c}
                                                              ELSE Creating(w) \ {c}
  <1>1. \A d \in Calls : pc'[d] = IF d = c THEN label ELSE pc[d]
    BY DEF TypeOK, VariablesTyped
  <1>2. \A d \in Calls : Window(d)' = Window(d)
    BY DEF Window
  <1> QED
    BY <1>1, <1>2 DEF Creating

(* The first call of a counter's life: the whole limit is there again.     *)
LEMMA FirstIncr ==
    ASSUME TypeOK, NEW c \in Calls, NEW w \in Windows, RateInv(w), RateIncr(c),
           Window(c) = w, rate[w] = 0
    PROVE  RateInv(w)'
  <1>1. /\ UNCHANGED <<cred, at, rateTtl, passed>> /\ pc[c] = "rate"
        /\ pc' = [pc EXCEPT ![c] = "expire"]
        /\ rate' = [rate EXCEPT ![w] = 1]
        /\ lives' = [lives EXCEPT ![w] = @ + 1]
    BY DEF RateIncr, GoTo
  <1>2. Limit(w) \in Nat
    BY <1>1, InWindow
  <1>3. rate'[w] = 1 /\ lives'[w] = lives[w] + 1
    BY <1>1 DEF Windows, TypeOK, VariablesTyped
  <1>4. Creating(w) = {}
    BY DEF RateInv
  <1>5. Creating(w)' = {c}
    BY <1>1, <1>4, CreatingAfter DEF PCs
  <1>6. rateTtl'[w] = None
    BY <1>1 DEF RateInv
  <1>7. passed[w] <= Limit(w) * lives[w]
    BY <1>2, <1>4, WindowTyped, ConfigAssumption DEF RateInv, Kept, Left
  <1>8. /\ Kept(w)' = Smaller(1, Limit(w))
        /\ Left(w)' = Limit(w) - Smaller(1, Limit(w))
    BY <1>3, <1>5, LimitConstant DEF Kept, Left, Smaller
  <1>9. passed'[w] + Kept(w)' + Left(w)' <= Limit(w) * lives'[w]
    <2>1. Limit(w) * lives[w] \in Nat /\ Limit(w) * lives'[w] = Limit(w) * lives[w] + Limit(w)
      BY <1>2, <1>3, WindowTyped, OneMoreLife
    <2>2. Kept(w)' + Left(w)' = Limit(w) /\ Kept(w)' \in Nat /\ Left(w)' \in Nat
      BY <1>2, <1>8 DEF Smaller
    <2>3. passed'[w] = passed[w] /\ passed[w] \in Nat
      BY <1>1, WindowTyped
    <2> HIDE DEF Limit
    <2> QED
      BY <1>2, <1>7, <2>1, <2>2, <2>3
  <1> QED
    BY <1>3, <1>5, <1>6, <1>9, LimitConstant DEF RateInv

(* A later call: it takes a place if there is one left.                    *)
LEMMA LaterIncr ==
    ASSUME TypeOK, NEW c \in Calls, NEW w \in Windows, RateInv(w), RateIncr(c),
           Window(c) = w, rate[w] # 0
    PROVE  RateInv(w)'
  <1>0. rate[w] \in Nat /\ rate[w] + 1 # 1
    BY WindowTyped
  <1>1. /\ UNCHANGED <<cred, at, rateTtl, lives>> /\ pc[c] = "rate"
        /\ rate' = [rate EXCEPT ![w] = rate[w] + 1]
        /\ Verdict(c, rate[w] + 1)
    BY <1>0 DEF RateIncr
  <1>2. Limit(w) \in Nat /\ Limit(w) = EffectiveRateLimit(KeyOf(c))
    BY <1>1, InWindow
  <1>3. rate'[w] = rate[w] + 1 /\ rateTtl'[w] = rateTtl[w] /\ lives'[w] = lives[w]
    BY <1>1 DEF Windows, TypeOK, VariablesTyped
  <1>4. Creating(w)' = Creating(w)
    <2>1. PICK label \in {"quota", "done"} : pc' = [pc EXCEPT ![c] = label]
      BY <1>1 DEF Verdict, GoTo, Answer
    <2>2. c \notin Creating(w)
      BY <1>1 DEF Creating
    <2>3. label \in PCs /\ label # "expire"
      BY DEF PCs
    <2>4. Creating(w)' = Creating(w) \ {c}
      BY <1>1, <2>1, <2>3, CreatingAfter
    <2> QED
      BY <2>2, <2>4
  <1>5. passed'[w] = IF rate[w] + 1 <= Limit(w) THEN passed[w] + 1 ELSE passed[w]
    BY <1>1, <1>2 DEF Verdict, WithinRate, Windows, TypeOK, VariablesTyped
  <1>6. Kept(w)' = Kept(w)
    BY <1>4, LimitConstant DEF Kept
  <1>7. Left(w)' = IF rate[w] + 1 <= Limit(w) THEN Left(w) - 1 ELSE Left(w)
    BY <1>0, <1>2, <1>3, LimitConstant DEF Left, Smaller
  <1>8. passed'[w] + Kept(w)' + Left(w)' = passed[w] + Kept(w) + Left(w)
    <2>1. passed[w] \in Nat /\ Kept(w) \in Nat /\ Left(w) \in Int
      BY <1>0, <1>2, WindowTyped DEF Kept, Left, Smaller
    <2> QED
      BY <1>5, <1>6, <1>7, <2>1
  <1>9. passed[w] + Kept(w) + Left(w) <= Limit(w) * lives[w]
    BY <1>2, ConfigAssumption DEF RateInv
  <1> QED
    BY <1>0, <1>3, <1>4, <1>8, <1>9, LimitConstant DEF RateInv

(* EXPIRE: the call that made the counter takes the place kept for it.     *)
LEMMA ExpireTakes ==
    ASSUME TypeOK, NEW c \in Calls, NEW w \in Windows, RateInv(w), RateExpire(c), Window(c) = w
    PROVE  RateInv(w)'
  <1>1. /\ UNCHANGED <<cred, at, rate, lives>> /\ pc[c] = "expire"
        /\ Verdict(c, 1)
    BY DEF RateExpire
  <1>2. Limit(w) \in Nat /\ Limit(w) = EffectiveRateLimit(KeyOf(c))
    BY <1>1, InWindow
  <1>3. Creating(w) = {c}
    BY <1>1 DEF RateInv, Creating
  <1>4. Creating(w)' = {}
    <2>1. PICK label \in {"quota", "done"} : pc' = [pc EXCEPT ![c] = label]
      BY <1>1 DEF Verdict, GoTo, Answer
    <2>2. label \in PCs /\ label # "expire"
      BY DEF PCs
    <2>3. Creating(w)' = Creating(w) \ {c}
      BY <1>1, <2>1, <2>2, CreatingAfter
    <2> QED
      BY <1>3, <2>3
  <1>5. passed'[w] = IF 1 <= Limit(w) THEN passed[w] + 1 ELSE passed[w]
    BY <1>1, <1>2 DEF Verdict, WithinRate, Windows, TypeOK, VariablesTyped
  <1>6. /\ Kept(w) = IF 1 <= Limit(w) THEN 1 ELSE 0
        /\ Kept(w)' = 0 /\ Left(w)' = Left(w)
    <2>1. Kept(w) = Smaller(1, Limit(w)) /\ Kept(w)' = 0
      BY <1>3, <1>4 DEF Kept
    <2>2. Left(w)' = Left(w)
      BY <1>1, LimitConstant DEF Left
    <2> QED
      BY <1>2, <2>1, <2>2 DEF Smaller
  <1>7. passed'[w] + Kept(w)' + Left(w)' = passed[w] + Kept(w) + Left(w)
    <2>1. passed[w] \in Nat /\ Left(w) \in Int
      BY <1>2, WindowTyped DEF Left, Smaller
    <2> QED
      BY <1>5, <1>6, <2>1
  <1>8. passed[w] + Kept(w) + Left(w) <= Limit(w) * lives[w] /\ rate[w] # 0
    BY <1>2, <1>3, ConfigAssumption DEF RateInv
  <1> QED
    BY <1>1, <1>4, <1>7, <1>8, LimitConstant DEF RateInv

(* The counter goes, and with it what it left.                             *)
LEMMA ExpiryForgets ==
    ASSUME TypeOK, NEW k \in Keys, NEW m \in Minutes, RateKeyExpires(k, m),
           NEW w \in Windows, w = <<k, m>>, RateInv(w)
    PROVE  RateInv(w)'
  <1>1. /\ UNCHANGED <<pc, cred, at, passed, lives>>
        /\ rate' = [rate EXCEPT ![w] = 0] /\ rateTtl' = [rateTtl EXCEPT ![w] = None]
        /\ rateTtl[w] # None
    BY DEF RateKeyExpires, callVars, historyVars
  <1>2. rate'[w] = 0 /\ rateTtl'[w] = None
    BY <1>1 DEF Windows, TypeOK, VariablesTyped
  <1>3. Creating(w) = {} /\ Creating(w)' = {}
    BY <1>1 DEF RateInv, Creating, Window
  <1>4. Kept(w)' = 0 /\ Left(w)' = 0 /\ Kept(w) = 0
    BY <1>2, <1>3 DEF Kept, Left
  <1>5. ASSUME Limit(w) # None PROVE passed'[w] + 0 + 0 <= Limit(w) * lives'[w]
    <2>1. passed[w] + 0 + Left(w) <= Limit(w) * lives[w]
      BY <1>4, <1>5 DEF RateInv
    <2>2. /\ Limit(w) \in Nat /\ passed[w] \in Nat /\ lives[w] \in Nat /\ rate[w] \in Nat
      BY <1>5, WindowTyped
    <2>3. Left(w) \in Nat
      BY <2>2 DEF Left, Smaller
    <2>4. Limit(w) * lives[w] \in Nat
      BY <2>2, OneMoreLife
    <2> QED
      BY <1>1, <2>1, <2>2, <2>3, <2>4
  <1> QED
    BY <1>2, <1>3, <1>4, <1>5, LimitConstant DEF RateInv

(* INCR run twice: a place is lost, or a life begins with one call fewer.  *)
LEMMA TwiceIncr ==
    ASSUME TypeOK, NEW c \in Calls, NEW w \in Windows, RateInv(w), ResendRateIncr(c),
           Window(c) = w
    PROVE  RateInv(w)'
  <1>1. /\ UNCHANGED <<pc, cred, at, rateTtl, passed>> /\ pc[c] = "rate"
        /\ rate' = [rate EXCEPT ![w] = @ + 1]
        /\ lives' = [lives EXCEPT ![w] = IF rate[w] = 0 THEN @ + 1 ELSE @]
    BY DEF ResendRateIncr, callVars
  <1>2. Limit(w) \in Nat
    BY <1>1, InWindow
  <1>3. /\ rate'[w] = rate[w] + 1 /\ rateTtl'[w] = rateTtl[w]
        /\ lives'[w] = IF rate[w] = 0 THEN lives[w] + 1 ELSE lives[w]
    BY <1>1 DEF Windows, TypeOK, VariablesTyped
  <1>4. Creating(w)' = Creating(w)
    BY <1>1 DEF Creating, Window
  <1>5. Kept(w)' = Kept(w) /\ Kept(w) \in Nat
    BY <1>2, <1>4, LimitConstant DEF Kept, Smaller
  <1>6. rate[w] \in Nat /\ passed[w] \in Nat /\ lives[w] \in Nat
    BY WindowTyped
  <1>7. /\ Left(w) \in Nat /\ Left(w)' \in Nat
        /\ rate[w] # 0 => Left(w)' <= Left(w)
        /\ rate[w] = 0 => Left(w)' <= Limit(w)
    BY <1>2, <1>3, <1>6, LimitConstant DEF Left, Smaller
  <1>8. passed[w] + Kept(w) + Left(w) <= Limit(w) * lives[w]
    BY <1>2, ConfigAssumption DEF RateInv
  <1>9. Limit(w) * lives[w] \in Nat /\ Limit(w) * (lives[w] + 1) = Limit(w) * lives[w] + Limit(w)
    BY <1>2, <1>6, OneMoreLife
  <1>10. passed'[w] + Kept(w)' + Left(w)' <= Limit(w) * lives'[w]
    <2>1. CASE rate[w] = 0
      <3>1. Limit(w) * lives'[w] = Limit(w) * lives[w] + Limit(w)
        BY <1>3, <1>9, <2>1
      <3> QED
        BY <1>1, <1>2, <1>5, <1>6, <1>7, <1>8, <1>9, <2>1, <3>1
    <2>2. CASE rate[w] # 0
      <3>1. Limit(w) * lives'[w] = Limit(w) * lives[w]
        BY <1>3, <2>2
      <3> QED
        BY <1>1, <1>5, <1>6, <1>7, <1>8, <1>9, <2>2, <3>1
    <2> QED
      BY <2>1, <2>2
  <1> QED
    BY <1>1, <1>3, <1>4, <1>6, <1>10, LimitConstant DEF RateInv
-----------------------------------------------------------------------------
(* A step of the limiter in another window.                                *)
LEMMA OtherWindow ==
    ASSUME TypeOK, NEW w \in Windows, NEW c \in Calls, Window(c) # w,
           RateIncr(c) \/ RateExpire(c) \/ ResendRateIncr(c)
    PROVE  /\ rate'[w] = rate[w] /\ rateTtl'[w] = rateTtl[w]
           /\ passed'[w] = passed[w] /\ lives'[w] = lives[w]
           /\ Creating(w)' = Creating(w)
  <1>1. UNCHANGED <<cred, at>>
    BY DEF RateIncr, RateExpire, ResendRateIncr, callVars
  <1>2. Window(c) \in Windows
    BY InWindow DEF RateIncr, RateExpire, ResendRateIncr
  <1>3. /\ rate'[w] = rate[w] /\ rateTtl'[w] = rateTtl[w]
        /\ passed'[w] = passed[w] /\ lives'[w] = lives[w]
    BY <1>2 DEF RateIncr, RateExpire, ResendRateIncr, Verdict, Windows, TypeOK, VariablesTyped
  <1>4. \A d \in Calls : Window(d)' = Window(d)
    BY <1>1 DEF Window
  <1>5. \A d \in Calls \ {c} : pc'[d] = pc[d]
    BY DEF RateIncr, RateExpire, ResendRateIncr, Verdict, GoTo, Answer, callVars, TypeOK,
           VariablesTyped
  <1>6. Creating(w)' = Creating(w)
    BY <1>4, <1>5 DEF Creating
  <1> QED
    BY <1>3, <1>6

(* A step that is none of the limiter's.                                   *)
LEMMA NoLimiter ==
    ASSUME TypeOK, NEW w, NEW c \in Calls, Step(c) \/ Resend(c),
           ~RateIncr(c), ~RateExpire(c), ~ResendRateIncr(c)
    PROVE  UNCHANGED <<rate, rateTtl, passed, lives>> /\ Creating(w)' = Creating(w)
  <1>1. UNCHANGED <<cred, at, rate, rateTtl, passed, lives>>
    BY DEF Step, Resend, ReadMeta, QuotaRead, ExhaustMeta, ExhaustQueue, CountUnit,
           PushEvent, ResendCountUnit, ResendExhaustQueue, ResendPushEvent,
           redisVars, callVars, historyVars
  <1>2. \A d \in Calls : (pc'[d] = "expire") <=> (pc[d] = "expire")
    BY DEF Step, Resend, ReadMeta, QuotaRead, ExhaustMeta, ExhaustQueue, CountUnit,
           PushEvent, ResendCountUnit, ResendExhaustQueue, ResendPushEvent,
           GoTo, Answer, FirstLimit, callVars, TypeOK, VariablesTyped
  <1>3. Creating(w)' = Creating(w)
    BY <1>1, <1>2 DEF Creating, Window
  <1> QED
    BY <1>1, <1>3

LEMMA NextRate ==
    ASSUME TypeOK, [Next]_vars, NEW w \in Windows, RateInv(w)
    PROVE  RateInv(w)'
  <1>1. ASSUME NEW c \in Calls, Window(c) # w,
               RateIncr(c) \/ RateExpire(c) \/ ResendRateIncr(c)
        PROVE  RateInv(w)'
    BY <1>1, OtherWindow, WindowAlone
  <1>2. ASSUME NEW c \in Calls, Window(c) = w,
               RateIncr(c) \/ RateExpire(c) \/ ResendRateIncr(c)
        PROVE  RateInv(w)'
    BY <1>2, FirstIncr, LaterIncr, ExpireTakes, TwiceIncr
  <1>3. ASSUME NEW c \in Calls, Step(c) \/ Resend(c),
               ~RateIncr(c), ~RateExpire(c), ~ResendRateIncr(c)
        PROVE  RateInv(w)'
    BY <1>3, NoLimiter, WindowAlone
  <1>4. ASSUME NEW c \in Calls, NEW i \in Inputs, Arrive(c, i) PROVE RateInv(w)'
    <2>1. UNCHANGED <<rate, rateTtl, passed, lives>>
      BY <1>4 DEF Arrive, redisVars
    <2>2. Creating(w)' = Creating(w)
      BY <1>4 DEF Arrive, Answer, Creating, Window, TypeOK, VariablesTyped
    <2> QED
      BY <2>1, <2>2, WindowAlone
  <1>5. ASSUME NEW k \in Keys, NEW m \in Minutes, RateKeyExpires(k, m) PROVE RateInv(w)'
    <2>1. CASE w = <<k, m>>
      BY <1>5, <2>1, ExpiryForgets
    <2>2. CASE w # <<k, m>>
      <3>1. UNCHANGED <<pc, cred, at, passed, lives>>
        BY <1>5 DEF RateKeyExpires, callVars, historyVars
      <3>2. rate'[w] = rate[w] /\ rateTtl'[w] = rateTtl[w]
        BY <1>5, <2>2 DEF RateKeyExpires, Windows, TypeOK, VariablesTyped
      <3>3. Creating(w)' = Creating(w)
        BY <3>1 DEF Creating, Window
      <3> QED
        BY <3>1, <3>2, <3>3, WindowAlone
    <2> QED
      BY <2>1, <2>2
  <1>6. CASE Crash
    <2>1. UNCHANGED <<rate, rateTtl, passed, lives>>
      BY <1>6 DEF Crash, redisVars
    <2>2. Creating(w)' = {}
      BY <1>6 DEF Crash, Creating
    <2>3. Left(w)' = Left(w) /\ Kept(w)' = 0
      BY <2>1, <2>2, LimitConstant DEF Left, Kept
    <2>4. ASSUME Limit(w) # None PROVE passed'[w] + 0 + Left(w)' <= Limit(w) * lives'[w]
      <3>1. passed[w] + Kept(w) + Left(w) <= Limit(w) * lives[w]
        BY <2>4 DEF RateInv
      <3>2. Limit(w) \in Nat /\ passed[w] \in Nat /\ lives[w] \in Nat /\ rate[w] \in Nat
        BY <2>4, WindowTyped
      <3>3. Kept(w) \in Nat /\ Left(w) \in Nat /\ Limit(w) * lives[w] \in Nat
        BY <3>2, OneMoreLife DEF Kept, Left, Smaller
      <3> QED
        BY <2>1, <2>3, <3>1, <3>2, <3>3
    <2> QED
      BY <2>1, <2>2, <2>3, <2>4, LimitConstant DEF RateInv
  <1>7. CASE (\E k \in Keys, s \in Statuses \cup {NoMeta} : SyncMeta(k, s)) \/ Tick \/ UNCHANGED vars
    <2>1. UNCHANGED <<pc, cred, at, rate, rateTtl, passed, lives>>
      BY <1>7 DEF SyncMeta, Tick, vars, redisVars, callVars, historyVars
    <2>2. Creating(w)' = Creating(w)
      BY <2>1 DEF Creating, Window
    <2> QED
      BY <2>1, <2>2, WindowAlone
  <1> QED
    BY <1>1, <1>2, <1>3, <1>4, <1>5, <1>6, <1>7 DEF Next, Rest

EveryWindow == \A w \in Windows : RateInv(w)

LEMMA InitRate == Init => EveryWindow
  <1> SUFFICES ASSUME Init, NEW w \in Windows PROVE RateInv(w)
    BY DEF EveryWindow
  <1>1. Creating(w) = {}
    BY DEF Init, Creating
  <1>2. rate[w] = 0 /\ rateTtl[w] = None /\ passed[w] = 0 /\ lives[w] = 0
    BY DEF Init, Windows
  <1>3. Limit(w) # None => Limit(w) \in Nat
    BY InitTypeOK, WindowTyped
  <1>4. Kept(w) = 0 /\ Left(w) = 0
    BY <1>1, <1>2 DEF Kept, Left
  <1> QED
    BY <1>1, <1>2, <1>3, <1>4 DEF RateInv

LEMMA RateInvariant == Spec => []EveryWindow
  <1>1. TypeOK /\ EveryWindow /\ [Next]_vars => EveryWindow'
    <2>1. Windows' = Windows
      BY DEF Windows, Minutes
    <2> QED
      BY <2>1, NextRate DEF EveryWindow
  <1> QED
    BY <1>1, InitRate, InitTypeOK, NextTypeOK, PTL DEF Spec

(* What is left and kept is not negative.                                  *)
LEMMA PassedBounded ==
    ASSUME TypeOK, EveryWindow, NEW w \in Windows, Limit(w) # None
    PROVE  passed[w] <= Limit(w) * lives[w] /\ Limit(w) \in Nat
  <1>1. passed[w] + Kept(w) + Left(w) <= Limit(w) * lives[w]
    BY DEF EveryWindow, RateInv
  <1>2. Limit(w) \in Nat /\ passed[w] \in Nat /\ lives[w] \in Nat /\ rate[w] \in Nat
    BY WindowTyped
  <1>3. Kept(w) \in Nat /\ Left(w) \in Nat /\ Limit(w) * lives[w] \in Nat
    BY <1>2, OneMoreLife DEF Kept, Left, Smaller
  <1> QED
    BY <1>1, <1>2, <1>3

(* Each life of a minute's counter lets through the limit at most, however *)
(* calls interleave with one another and with the expiry.                  *)
THEOREM RateLimit == Spec => []RateLimitHolds
  <1>1. TypeOK /\ EveryWindow => RateLimitHolds
    <2> SUFFICES ASSUME TypeOK, EveryWindow, NEW k \in Keys, NEW m \in Minutes,
                        EffectiveRateLimit(k) # None
                 PROVE  passed[<<k, m>>] <= EffectiveRateLimit(k) * lives[<<k, m>>]
      BY DEF RateLimitHolds
    <2>1. <<k, m>> \in Windows /\ Limit(<<k, m>>) = EffectiveRateLimit(k)
      BY DEF Windows, Limit
    <2> QED
      BY <2>1, PassedBounded
  <1> QED
    BY <1>1, TypeCorrect, RateInvariant, PTL

LEMMA TimesMonotone ==
    ASSUME NEW x \in Nat, NEW y \in Nat, NEW n \in Nat, x <= y
    PROVE  x * n <= y * n
  OBVIOUS

(* Whatever a row says, a test key stays below the sandbox's ceilings.     *)
THEOREM SandboxIsCheap == Spec => []SandboxCeilings
  <1>1. TypeOK /\ QuotaOvershootBounded /\ EveryWindow => SandboxCeilings
    <2> SUFFICES ASSUME TypeOK, QuotaOvershootBounded, EveryWindow,
                        NEW k \in Keys, Row[k].environment = "test"
                 PROVE  /\ \A m \in Months :
                              counter[<<k, m>>] <=
                                 MonthlyCeiling + Cardinality(Calls) - 1 + resends
                        /\ \A m \in Minutes : passed[<<k, m>>] <= RateCeiling * lives[<<k, m>>]
      BY DEF SandboxCeilings
    <2>1. ASSUME NEW m \in Months
          PROVE  counter[<<k, m>>] <= MonthlyCeiling + Cardinality(Calls) - 1 + resends
      <3>1. counter[<<k, m>>] + Cardinality(Committed(<<k, m>>)) <=
               EffectiveMonthlyLimit(k) + Cardinality(Calls) - 1 + resends
        BY DEF QuotaOvershootBounded
      <3>2. EffectiveMonthlyLimit(k) <= MonthlyCeiling /\ EffectiveMonthlyLimit(k) \in Nat
        BY RowAssumption, ConfigAssumption DEF EffectiveMonthlyLimit, Smaller
      <3>3. /\ Cardinality(Committed(<<k, m>>)) \in Nat /\ Cardinality(Calls) \in Nat
            /\ counter[<<k, m>>] \in Nat /\ resends \in Nat
        BY CallSets DEF Committed, TypeOK, VariablesTyped
      <3> QED
        BY <3>1, <3>2, <3>3, ConfigAssumption
    <2>2. ASSUME NEW m \in Minutes
          PROVE  passed[<<k, m>>] <= RateCeiling * lives[<<k, m>>]
      <3>1. <<k, m>> \in Windows /\ Limit(<<k, m>>) = EffectiveRateLimit(k)
        BY DEF Windows, Limit
      <3>2. EffectiveRateLimit(k) \in Nat /\ EffectiveRateLimit(k) <= RateCeiling
        BY RowAssumption, ConfigAssumption DEF EffectiveRateLimit, Smaller
      <3>3. passed[<<k, m>>] <= EffectiveRateLimit(k) * lives[<<k, m>>]
        BY <3>1, <3>2, PassedBounded, ConfigAssumption
      <3>4. passed[<<k, m>>] \in Nat /\ lives[<<k, m>>] \in Nat
        BY <3>1, WindowTyped
      <3>5. /\ EffectiveRateLimit(k) * lives[<<k, m>>] <= RateCeiling * lives[<<k, m>>]
            /\ EffectiveRateLimit(k) * lives[<<k, m>>] \in Nat
            /\ RateCeiling * lives[<<k, m>>] \in Nat
        BY <3>2, <3>4, TimesMonotone, OneMoreLife, ConfigAssumption
      <3> QED
        BY <3>3, <3>4, <3>5
    <2> QED
      BY <2>1, <2>2
  <1> QED
    BY <1>1, TypeCorrect, QuotaOvershoot, RateInvariant, PTL
-----------------------------------------------------------------------------
(* The places of window w that are taken, kept, or lost to a fault.        *)
Room(w) == passed[w] + Kept(w) + resends + faults
Earned(w) == Limit(w) # None => Smaller(rate[w], Limit(w)) <= Room(w)
RefusedForRate(c) ==
    answer[c] = "429 rate" =>
        /\ Window(c) \in Windows /\ Limit(Window(c)) \in Nat
        /\ Limit(Window(c)) <= Room(Window(c))

LEMMA RoomTyped ==
    ASSUME TypeOK, NEW w \in Windows, Limit(w) \in Nat
    PROVE  /\ Room(w) \in Nat /\ Kept(w) \in {0, 1} /\ passed[w] \in Nat /\ rate[w] \in Nat
           /\ resends \in Nat /\ faults \in Nat
  <1>1. passed[w] \in Nat /\ rate[w] \in Nat /\ resends \in Nat /\ faults \in Nat
    BY WindowTyped DEF TypeOK, VariablesTyped
  <1>2. Kept(w) \in {0, 1}
    BY DEF Kept, Smaller
  <1> QED
    BY <1>1, <1>2 DEF Room

(* INCR, for the first time in a life or later.                            *)
LEMMA IncrTakesRoom ==
    ASSUME TypeOK, NEW c \in Calls, NEW w \in Windows, RateInv(w), RateIncr(c), Window(c) = w
    PROVE  /\ Limit(w) \in Nat /\ rate'[w] = rate[w] + 1
           /\ rate[w] < Limit(w) => passed'[w] + Kept(w)' = passed[w] + Kept(w) + 1
           /\ rate[w] >= Limit(w) => passed'[w] + Kept(w)' = passed[w] + Kept(w)
           /\ answer'[c] \in {answer[c], "429 rate"}
           /\ answer'[c] # answer[c] => rate[w] >= Limit(w)
  <1>1. UNCHANGED <<cred, at>> /\ pc[c] = "rate"
    BY DEF RateIncr
  <1>2. Limit(w) \in Nat /\ Limit(w) = EffectiveRateLimit(KeyOf(c))
    BY <1>1, InWindow
  <1>3. rate[w] \in Nat /\ passed[w] \in Nat /\ Kept(w) \in {0, 1}
    BY <1>2, RoomTyped
  <1>4. rate'[w] = rate[w] + 1
    BY DEF RateIncr, Windows, TypeOK, VariablesTyped
  <1>5. CASE rate[w] = 0
    <2>1. passed' = passed /\ answer' = answer /\ pc' = [pc EXCEPT ![c] = "expire"]
      BY <1>5 DEF RateIncr, GoTo
    <2>2. Creating(w) = {}
      BY <1>5 DEF RateInv
    <2>3. "expire" \in PCs
      BY DEF PCs
    <2>4. Creating(w)' = {c}
      BY <1>1, <2>1, <2>2, <2>3, CreatingAfter
    <2>5. Kept(w) = 0 /\ Kept(w)' = Smaller(1, Limit(w))
      BY <2>2, <2>4, LimitConstant DEF Kept, Smaller
    <2> QED
      BY <1>2, <1>3, <1>4, <1>5, <2>1, <2>5 DEF Smaller
  <1>6. CASE rate[w] # 0
    <2>1. Verdict(c, rate[w] + 1)
      BY <1>3, <1>6 DEF RateIncr
    <2>2. PICK label \in {"quota", "done"} : pc' = [pc EXCEPT ![c] = label]
      BY <2>1 DEF Verdict, GoTo, Answer
    <2>3. label \in PCs /\ label # "expire" /\ c \notin Creating(w)
      BY <1>1 DEF PCs, Creating
    <2>4. Creating(w)' = Creating(w) \ {c}
      BY <1>1, <2>2, <2>3, CreatingAfter
    <2>5. Kept(w)' = Kept(w)
      BY <2>3, <2>4, LimitConstant DEF Kept
    <2>6. CASE rate[w] + 1 <= Limit(w)
      <3>1. passed' = [passed EXCEPT ![w] = @ + 1] /\ answer' = answer
        BY <1>2, <2>1, <2>6 DEF Verdict, WithinRate, GoTo
      <3>2. passed'[w] = passed[w] + 1
        BY <3>1 DEF Windows, TypeOK, VariablesTyped
      <3> QED
        BY <1>2, <1>3, <1>4, <2>5, <2>6, <3>1, <3>2
    <2>7. CASE ~(rate[w] + 1 <= Limit(w))
      <3>1. passed' = passed /\ answer' = [answer EXCEPT ![c] = "429 rate"]
        BY <1>2, <2>1, <2>7 DEF Verdict, WithinRate, Answer
      <3>2. answer'[c] = "429 rate"
        BY <3>1 DEF TypeOK, VariablesTyped
      <3>3. rate[w] >= Limit(w) /\ ~(rate[w] < Limit(w))
        BY <1>2, <1>3, <2>7
      <3>4. passed'[w] + Kept(w)' = passed[w] + Kept(w)
        BY <2>5, <3>1
      <3> QED
        BY <1>2, <1>4, <3>2, <3>3, <3>4
    <2> QED
      BY <2>6, <2>7
  <1> QED
    BY <1>5, <1>6

(* EXPIRE: what was kept is taken.                                         *)
LEMMA ExpireTakesRoom ==
    ASSUME TypeOK, NEW c \in Calls, NEW w \in Windows, RateInv(w), RateExpire(c), Window(c) = w
    PROVE  /\ Limit(w) \in Nat
           /\ passed'[w] + Kept(w)' = passed[w] + Kept(w)
           /\ answer'[c] \in {answer[c], "429 rate"}
           /\ answer'[c] # answer[c] => Limit(w) = 0
  <1>1. UNCHANGED <<cred, at>> /\ pc[c] = "expire" /\ Verdict(c, 1)
    BY DEF RateExpire
  <1>2. Limit(w) \in Nat /\ Limit(w) = EffectiveRateLimit(KeyOf(c))
    BY <1>1, InWindow
  <1>3. passed[w] \in Nat
    BY <1>2, RoomTyped
  <1>4. Creating(w) = {c}
    BY <1>1 DEF RateInv, Creating
  <1>5. PICK label \in {"quota", "done"} : pc' = [pc EXCEPT ![c] = label]
    BY <1>1 DEF Verdict, GoTo, Answer
  <1>6. label \in PCs /\ label # "expire"
    BY DEF PCs
  <1>7. Creating(w)' = Creating(w) \ {c}
    BY <1>1, <1>5, <1>6, CreatingAfter
  <1>8. Kept(w) = Smaller(1, Limit(w)) /\ Kept(w)' = 0
    BY <1>4, <1>7 DEF Kept
  <1>9. CASE 1 <= Limit(w)
    <2>1. passed' = [passed EXCEPT ![w] = @ + 1] /\ answer' = answer
      BY <1>1, <1>2, <1>9 DEF Verdict, WithinRate, GoTo
    <2>2. passed'[w] = passed[w] + 1
      BY <2>1 DEF Windows, TypeOK, VariablesTyped
    <2> QED
      BY <1>2, <1>3, <1>8, <1>9, <2>1, <2>2 DEF Smaller
  <1>10. CASE ~(1 <= Limit(w))
    <2>1. passed' = passed /\ answer' = [answer EXCEPT ![c] = "429 rate"]
      BY <1>1, <1>2, <1>10 DEF Verdict, WithinRate, Answer
    <2>2. answer'[c] = "429 rate"
      BY <2>1 DEF TypeOK, VariablesTyped
    <2>3. Limit(w) = 0
      BY <1>2, <1>10
    <2>4. Kept(w) = 0
      BY <1>8, <2>3 DEF Smaller
    <2>5. passed'[w] + Kept(w)' = passed[w] + Kept(w)
      BY <1>8, <2>1, <2>4
    <2> QED
      BY <1>2, <2>2, <2>3, <2>5
  <1> QED
    BY <1>9, <1>10

(* Faults and commands run twice are counted, never discounted.            *)
LEMMA CountsGrow ==
    ASSUME TypeOK, [Next]_vars
    PROVE  resends' >= resends /\ faults' >= faults /\ resends' \in Nat /\ faults' \in Nat
  <1>0. resends \in Nat /\ faults \in Nat
    BY DEF TypeOK, VariablesTyped
  <1>1. ASSUME NEW c \in Calls, Step(c) \/ Resend(c)
        PROVE  resends' \in {resends, resends + 1} /\ faults' = faults
    BY <1>1 DEF Step, Resend, ReadMeta, RateIncr, RateExpire, QuotaRead, ExhaustMeta, ExhaustQueue,
                CountUnit, PushEvent, ResendRateIncr, ResendCountUnit, ResendExhaustQueue,
                ResendPushEvent, historyVars
  <1>2. CASE (\E c \in Calls, i \in Inputs : Arrive(c, i)) \/ Crash
    <2>1. resends' = resends /\ faults' \in {faults, faults + 1}
      BY <1>2 DEF Arrive, Crash
    <2> QED
      BY <1>0, <2>1
  <1>3. CASE \E k \in Keys, s \in Statuses \cup {NoMeta} : SyncMeta(k, s)
    <2>1. resends' = resends /\ faults' = faults + 1
      BY <1>3 DEF SyncMeta
    <2> QED
      BY <1>0, <2>1
  <1>4. CASE (\E k \in Keys, m \in Minutes : RateKeyExpires(k, m)) \/ Tick \/ UNCHANGED vars
    <2>1. resends' = resends /\ faults' = faults
      BY <1>4 DEF RateKeyExpires, Tick, vars, historyVars
    <2> QED
      BY <1>0, <2>1
  <1>5. ASSUME NEW c \in Calls, Step(c) \/ Resend(c)
        PROVE  resends' >= resends /\ faults' >= faults /\ resends' \in Nat /\ faults' \in Nat
    BY <1>0, <1>1, <1>5
  <1> QED
    BY <1>2, <1>3, <1>4, <1>5 DEF Next, Rest

(* Places once taken, kept or lost stay so; a counter that grows takes one.*)
LEMMA RoomGrows ==
    ASSUME TypeOK, [Next]_vars, NEW w \in Windows, RateInv(w), Limit(w) \in Nat
    PROVE  /\ Room(w)' \in Nat /\ Room(w)' >= Room(w)
           /\ Earned(w) => Earned(w)'
  <1>0. /\ Room(w) \in Nat /\ Kept(w) \in {0, 1} /\ passed[w] \in Nat /\ rate[w] \in Nat
        /\ resends \in Nat /\ faults \in Nat
    BY RoomTyped
  <1>1. resends' >= resends /\ faults' >= faults /\ resends' \in Nat /\ faults' \in Nat
    BY CountsGrow
  <1>2. Limit(w) # None
    BY ConfigAssumption
  <1>3. ASSUME /\ passed'[w] + Kept(w)' \in Nat
               /\ passed'[w] + Kept(w)' >= passed[w] + Kept(w)
               /\ rate'[w] = rate[w] \/ rate'[w] = 0
        PROVE  /\ Room(w)' \in Nat /\ Room(w)' >= Room(w)
               /\ Earned(w) => Earned(w)'
    <2>1. Room(w)' = (passed'[w] + Kept(w)') + resends' + faults'
      BY DEF Room
    <2>2. Room(w)' \in Nat /\ Room(w)' >= Room(w)
      BY <1>0, <1>1, <1>3, <2>1 DEF Room
    <2> QED
      BY <1>0, <1>2, <1>3, <2>2, LimitConstant DEF Earned, Smaller
  <1>4. ASSUME NEW c \in Calls, RateIncr(c), Window(c) = w
        PROVE  /\ Room(w)' \in Nat /\ Room(w)' >= Room(w)
               /\ Earned(w) => Earned(w)'
    <2>1. /\ rate'[w] = rate[w] + 1
          /\ rate[w] < Limit(w) => passed'[w] + Kept(w)' = passed[w] + Kept(w) + 1
          /\ rate[w] >= Limit(w) => passed'[w] + Kept(w)' = passed[w] + Kept(w)
      BY <1>4, IncrTakesRoom
    <2>2. Room(w)' = (passed'[w] + Kept(w)') + resends' + faults'
      BY DEF Room
    <2>3. /\ Room(w)' \in Nat /\ Room(w)' >= Room(w)
          /\ rate[w] < Limit(w) => Room(w)' >= Room(w) + 1
      BY <1>0, <1>1, <2>1, <2>2 DEF Room
    <2> QED
      BY <1>0, <1>2, <2>1, <2>3, LimitConstant DEF Earned, Smaller
  <1>5. ASSUME NEW c \in Calls, RateExpire(c), Window(c) = w
        PROVE  /\ Room(w)' \in Nat /\ Room(w)' >= Room(w)
               /\ Earned(w) => Earned(w)'
    <2>1. passed'[w] + Kept(w)' = passed[w] + Kept(w)
      BY <1>5, ExpireTakesRoom
    <2>2. rate'[w] = rate[w]
      BY <1>5 DEF RateExpire
    <2> QED
      BY <1>0, <1>3, <2>1, <2>2
  <1>6. ASSUME NEW c \in Calls, ResendRateIncr(c), Window(c) = w
        PROVE  /\ Room(w)' \in Nat /\ Room(w)' >= Room(w)
               /\ Earned(w) => Earned(w)'
    <2>1. /\ UNCHANGED <<pc, cred, at, passed, faults>> /\ resends' = resends + 1
          /\ rate' = [rate EXCEPT ![w] = @ + 1]
      BY <1>6 DEF ResendRateIncr, callVars
    <2>2. rate'[w] = rate[w] + 1
      BY <2>1 DEF Windows, TypeOK, VariablesTyped
    <2>3. Creating(w)' = Creating(w)
      BY <2>1 DEF Creating, Window
    <2>4. Kept(w)' = Kept(w)
      BY <2>3, LimitConstant DEF Kept
    <2>5. Room(w)' = Room(w) + 1
      BY <1>0, <2>1, <2>4 DEF Room
    <2> QED
      BY <1>0, <1>2, <2>2, <2>5, LimitConstant DEF Earned, Smaller
  <1>7. CASE Crash
    <2>1. UNCHANGED <<rate, passed, resends>> /\ faults' = faults + 1
      BY <1>7 DEF Crash, redisVars
    <2>2. Creating(w)' = {}
      BY <1>7 DEF Crash, Creating
    <2>3. Kept(w)' = 0
      BY <2>2 DEF Kept
    <2>4. Room(w)' \in Nat /\ Room(w)' >= Room(w)
      BY <1>0, <2>1, <2>3 DEF Room
    <2> QED
      BY <1>0, <1>2, <2>1, <2>4, LimitConstant DEF Earned, Smaller
  <1>8. ASSUME passed'[w] = passed[w], rate'[w] = rate[w] \/ rate'[w] = 0,
               Creating(w)' = Creating(w)
        PROVE  /\ Room(w)' \in Nat /\ Room(w)' >= Room(w)
               /\ Earned(w) => Earned(w)'
    <2>1. Kept(w)' = Kept(w)
      BY <1>8, LimitConstant DEF Kept
    <2> QED
      BY <1>0, <1>3, <1>8, <2>1
  <1>9. ASSUME NEW c \in Calls, Window(c) # w, RateIncr(c) \/ RateExpire(c) \/ ResendRateIncr(c)
        PROVE  /\ passed'[w] = passed[w] /\ (rate'[w] = rate[w] \/ rate'[w] = 0)
               /\ Creating(w)' = Creating(w)
    BY <1>9, OtherWindow
  <1>10. ASSUME NEW c \in Calls, Step(c) \/ Resend(c),
                ~RateIncr(c), ~RateExpire(c), ~ResendRateIncr(c)
         PROVE  /\ passed'[w] = passed[w] /\ (rate'[w] = rate[w] \/ rate'[w] = 0)
                /\ Creating(w)' = Creating(w)
    BY <1>10, NoLimiter
  <1>11. ASSUME NEW c \in Calls, NEW i \in Inputs, Arrive(c, i)
         PROVE  /\ passed'[w] = passed[w] /\ (rate'[w] = rate[w] \/ rate'[w] = 0)
                /\ Creating(w)' = Creating(w)
    BY <1>11 DEF Arrive, Answer, Creating, Window, redisVars, TypeOK, VariablesTyped
  <1>12. CASE Around
    <2>1. UNCHANGED <<pc, cred, at, passed>>
      BY <1>12, AroundCalls DEF Around, RateKeyExpires, SyncMeta, Tick, vars, historyVars
    <2>2. Creating(w)' = Creating(w)
      BY <2>1 DEF Creating, Window
    <2>3. rate'[w] = rate[w] \/ rate'[w] = 0
      BY <1>12 DEF Around, RateKeyExpires, SyncMeta, Tick, vars, redisVars, Windows, TypeOK,
                   VariablesTyped
    <2> QED
      BY <1>8, <2>1, <2>2, <2>3
  <1> QED
    BY <1>4, <1>5, <1>6, <1>7, <1>8, <1>9, <1>10, <1>11, <1>12 DEF Next, Around, Rest

EarnedInv ==
    /\ \A w \in Windows : Earned(w)
    /\ \A c \in Calls : RefusedForRate(c)

LEMMA AtMost ==
    ASSUME NEW x \in Nat, NEW y \in Nat, NEW z \in Nat, x <= y, y <= z PROVE x <= z
  OBVIOUS

LEMMA BitIsNatural == \A x \in {0, 1} : x \in Nat
  OBVIOUS

LEMMA BitAtMost ==
    ASSUME NEW x \in {0, 1}, NEW n \in Nat, n = 0 => x = 0 PROVE x <= n
  OBVIOUS

LEMMA SumAtMost ==
    ASSUME NEW l \in Nat, NEW p \in Nat, NEW k \in Nat, NEW n \in Nat, NEW a \in Nat,
           NEW b \in Nat, l <= p + k + a + b, k <= n
    PROVE  p + n + a + b >= l
  OBVIOUS

(* A call already refused: its window is the same, and has no more room.   *)
LEMMA StaysRefused ==
    ASSUME TypeOK, [Next]_vars, EveryWindow, NEW c \in Calls, answer[c] = "429 rate",
           RefusedForRate(c), cred'[c] = cred[c], at'[c] = at[c]
    PROVE  RefusedForRate(c)'
  <1>1. PICK w \in Windows : w = Window(c) /\ Limit(w) \in Nat /\ Limit(w) <= Room(w)
    BY DEF RefusedForRate
  <1>2. Room(w)' \in Nat /\ Room(w)' >= Room(w)
    BY <1>1, RoomGrows DEF EveryWindow
  <1>3. Room(w) \in Nat
    BY <1>1, RoomTyped
  <1>4. Window(c)' = w /\ Windows' = Windows
    BY <1>1 DEF Window, Windows, Minutes
  <1>5. Limit(w) <= Room(w)'
    <2>1. Limit(w) \in Nat /\ Limit(w) <= Room(w) /\ Room(w) <= Room(w)'
      BY <1>1, <1>2
    <2> HIDE DEF Room, Limit
    <2> QED
      BY <1>2, <1>3, <2>1, AtMost
  <1>6. Room(Window(c))' = Room(w)' /\ Limit(Window(c))' = Limit(w)
    BY <1>4, LimitConstant DEF Room, Kept, Creating, Limit, EffectiveRateLimit
  <1> QED
    BY <1>1, <1>4, <1>5, <1>6 DEF RefusedForRate

(* A call refused now.                                                     *)
LEMMA RefusedNow ==
    ASSUME TypeOK, [Next]_vars, EveryWindow, EarnedInv, NEW c \in Calls,
           RateIncr(c) \/ RateExpire(c), answer'[c] # answer[c]
    PROVE  RefusedForRate(c)'
  <1>1. Window(c) \in Windows
    BY InWindow DEF RateIncr, RateExpire
  <1>2. PICK w \in Windows : w = Window(c)
    BY <1>1
  <1>3. RateInv(w) /\ Earned(w)
    BY DEF EveryWindow, EarnedInv
  <1>4. Limit(w) \in Nat /\ (rate[w] >= Limit(w) \/ Limit(w) = 0)
    BY <1>2, <1>3, IncrTakesRoom, ExpireTakesRoom
  <1>5. Room(w) \in Nat /\ rate[w] \in Nat
    BY <1>4, RoomTyped
  <1>6. Limit(w) <= Room(w)
    BY <1>3, <1>4, <1>5, ConfigAssumption DEF Earned, Smaller
  <1>7. Room(w)' \in Nat /\ Room(w)' >= Room(w)
    BY <1>3, <1>4, RoomGrows
  <1>8. UNCHANGED <<cred, at>>
    BY DEF RateIncr, RateExpire
  <1>9. Window(c)' = w /\ Windows' = Windows
    BY <1>2, <1>8 DEF Window, Windows, Minutes
  <1>10. Room(Window(c))' = Room(w)' /\ Limit(Window(c))' = Limit(w)
    BY <1>9, LimitConstant DEF Room, Kept, Creating, Limit, EffectiveRateLimit
  <1>11. Limit(w) <= Room(w)'
    BY <1>4, <1>5, <1>6, <1>7
  <1> QED
    BY <1>4, <1>9, <1>10, <1>11 DEF RefusedForRate

LEMMA NextEarned == TypeOK /\ EveryWindow /\ EarnedInv /\ [Next]_vars => EarnedInv'
  <1> SUFFICES ASSUME TypeOK, EveryWindow, EarnedInv, [Next]_vars PROVE EarnedInv'
    OBVIOUS
  <1>1. ASSUME NEW w \in Windows PROVE Earned(w)'
    <2>1. CASE Limit(w) # None
      <3>1. Limit(w) \in Nat
        BY <2>1, WindowTyped
      <3> QED
        BY <3>1, RoomGrows DEF EveryWindow, EarnedInv
    <2>2. CASE Limit(w) = None
      BY <2>2, LimitConstant DEF Earned
    <2> QED
      BY <2>1, <2>2
  <1>2. ASSUME NEW c \in Calls, answer'[c] = "429 rate" PROVE RefusedForRate(c)'
    <2>1. CASE answer[c] = "429 rate" /\ cred'[c] = cred[c] /\ at'[c] = at[c]
      BY <2>1, StaysRefused DEF EarnedInv
    <2>2. CASE (RateIncr(c) \/ RateExpire(c)) /\ answer'[c] # answer[c]
      BY <2>2, RefusedNow
    <2>3. ASSUME NEW d \in Calls, NEW i \in Inputs, Arrive(d, i)
          PROVE  answer[c] = "429 rate" /\ cred'[c] = cred[c] /\ at'[c] = at[c]
      BY <1>2, <2>3 DEF Arrive, Answer, TypeOK, VariablesTyped
    <2>4. ASSUME NEW d \in Calls, Step(d)
          PROVE  /\ cred'[c] = cred[c] /\ at'[c] = at[c]
                 /\ answer[c] = "429 rate" \/ (c = d /\ (RateIncr(d) \/ RateExpire(d)))
      BY <1>2, <2>4, StepOfOne
         DEF Step, ReadMeta, QuotaRead, ExhaustMeta, ExhaustQueue, CountUnit, PushEvent,
             GoTo, Answer, FirstLimit, TypeOK, VariablesTyped
    <2>5. ASSUME NEW d \in Calls, Resend(d)
          PROVE  answer[c] = "429 rate" /\ cred'[c] = cred[c] /\ at'[c] = at[c]
      BY <1>2, <2>5, ResendOfOne
    <2>6. ~Crash
      BY <1>2 DEF Crash
    <2>7. CASE Around
      BY <1>2, <2>1, <2>7, AroundCalls
    <2> QED
      BY <1>2, <2>1, <2>2, <2>3, <2>4, <2>5, <2>6, <2>7 DEF Next, Around, Rest
  <1>3. Windows' = Windows
    BY DEF Windows, Minutes
  <1>4. ASSUME NEW c \in Calls, answer'[c] # "429 rate" PROVE RefusedForRate(c)'
    BY <1>4 DEF RefusedForRate
  <1> QED
    BY <1>1, <1>2, <1>3, <1>4 DEF EarnedInv

(* No call is refused for its rate before the minute's limit was used, but *)
(* for what faults and commands run twice took of it.                      *)
THEOREM RateRefusals == Spec => []RateRefusalsEarned
  <1>1. Init => EarnedInv
    <2> SUFFICES ASSUME Init PROVE EarnedInv
      OBVIOUS
    <2>1. ASSUME NEW w \in Windows, Limit(w) # None PROVE Smaller(rate[w], Limit(w)) <= Room(w)
      <3>1. Creating(w) = {}
        BY DEF Init, Creating
      <3>2. rate[w] = 0 /\ passed[w] = 0 /\ resends = 0 /\ faults = 0 /\ Kept(w) = 0
        BY <3>1 DEF Init, Windows, Kept
      <3>3. Limit(w) \in Nat
        BY <2>1, InitTypeOK, WindowTyped
      <3> QED
        BY <3>2, <3>3 DEF Room, Smaller
    <2>2. \A c \in Calls : answer[c] # "429 rate"
      BY DEF Init
    <2> QED
      BY <2>1, <2>2 DEF EarnedInv, Earned, RefusedForRate
  <1>2. TypeOK /\ EarnedInv => RateRefusalsEarned
    <2> SUFFICES ASSUME TypeOK, EarnedInv, NEW c \in Calls, answer[c] = "429 rate"
                 PROVE  passed[Window(c)] + Cardinality(Creating(Window(c))) + resends + faults
                           >= EffectiveRateLimit(KeyOf(c))
      BY DEF RateRefusalsEarned
    <2>1. PICK w \in Windows : w = Window(c) /\ Limit(w) \in Nat /\ Limit(w) <= Room(w)
      BY DEF EarnedInv, RefusedForRate
    <2>2. Limit(w) = EffectiveRateLimit(KeyOf(c))
      BY <2>1 DEF Limit, Window, KeyOf
    <2>3. IsFiniteSet(Creating(w)) /\ Cardinality(Creating(w)) \in Nat
      BY CallSets DEF Creating
    <2>4. Kept(w) <= Cardinality(Creating(w)) /\ Kept(w) \in {0, 1}
      <3>1. Kept(w) \in {0, 1}
        BY <2>1, RoomTyped
      <3>2. Cardinality(Creating(w)) = 0 => Creating(w) = {}
        BY <2>3, FS_EmptySet
      <3>3. Cardinality(Creating(w)) = 0 => Kept(w) = 0
        BY <3>2 DEF Kept
      <3> QED
        BY <2>3, <3>1, <3>3, BitAtMost
    <2>5. passed[w] \in Nat /\ resends \in Nat /\ faults \in Nat
      BY <2>1, RoomTyped
    <2>6. Kept(w) \in Nat /\ Limit(w) <= passed[w] + Kept(w) + resends + faults
      <3>1. Kept(w) \in Nat
        <4>1. Kept(w) \in {0, 1}
          BY <2>4
        <4> QED
          BY <4>1, BitIsNatural
      <3>2. Room(w) = passed[w] + Kept(w) + resends + faults
        BY DEF Room
      <3> QED
        BY <2>1, <3>1, <3>2
    <2>7. passed[w] + Cardinality(Creating(w)) + resends + faults >= Limit(w)
      BY <2>1, <2>3, <2>4, <2>5, <2>6, SumAtMost
    <2> QED
      BY <2>1, <2>2, <2>7
  <1> QED
    BY <1>1, <1>2, NextEarned, InitTypeOK, NextTypeOK, TypeCorrect, RateInvariant, PTL DEF Spec
-----------------------------------------------------------------------------
(* The counters nothing takes out of Redis any more: no TTL is set, and no *)
(* call has the EXPIRE ahead.                                              *)
LeftBehind == {w \in Windows : rate[w] # 0 /\ rateTtl[w] = None /\ Creating(w) = {}}

(* The code guards EXPIRE by the reply 1 of INCR, so a counter is left     *)
(* behind when the call that was told 1 dies before EXPIRE, or when the    *)
(* INCR that was told 1 lost its reply and was sent again: one counter for *)
(* each such INCR, and one at most for each call a crash ended.            *)
FewLeftBehind ==
    Cardinality(LeftBehind) <= resends + faults * Cardinality(Calls)

LEMMA ClockIsNoNone == TypeOK => clock + 1 # None
  BY ConfigAssumption DEF TypeOK, VariablesTyped, Minutes

(* A call that moves leaves no counter behind: the reply 1 sends it to the *)
(* EXPIRE, and EXPIRE sets the TTL.                                        *)
LEMMA StepLeavesNone ==
    ASSUME TypeOK, NEW c \in Calls, Step(c), NEW w \in Windows, w \in LeftBehind'
    PROVE  w \in LeftBehind
  <1>1. CASE (RateIncr(c) \/ RateExpire(c)) /\ Window(c) # w
    BY <1>1, OtherWindow DEF LeftBehind
  <1>2. CASE RateIncr(c) /\ Window(c) = w
    <2>1. /\ UNCHANGED <<cred, at, rateTtl>> /\ pc[c] = "rate"
          /\ rate[w] + 1 = 1 => pc' = [pc EXCEPT ![c] = "expire"]
      BY <1>2 DEF RateIncr, GoTo
    <2>2. ASSUME rate[w] = 0 PROVE c \in Creating(w)'
      BY <1>2, <2>1, <2>2, CreatingAfter DEF PCs
    <2>3. rate[w] # 0
      BY <2>2 DEF LeftBehind
    <2>4. rate[w] + 1 # 1
      BY <2>3, WindowTyped
    <2>5. PICK label \in {"quota", "done"} : pc' = [pc EXCEPT ![c] = label]
      BY <1>2, <2>4 DEF RateIncr, Verdict, GoTo, Answer
    <2>6. label \in PCs /\ label # "expire"
      BY DEF PCs
    <2>7. Creating(w)' = Creating(w) \ {c}
      BY <2>1, <2>5, <2>6, CreatingAfter
    <2>8. Creating(w) = {}
      BY <2>1, <2>7 DEF LeftBehind, Creating
    <2> QED
      BY <2>1, <2>3, <2>8 DEF LeftBehind
  <1>3. CASE RateExpire(c) /\ Window(c) = w
    <2>1. rateTtl'[w] = clock + 1
      BY <1>3 DEF RateExpire, Windows, TypeOK, VariablesTyped
    <2> QED
      BY <2>1, ClockIsNoNone DEF LeftBehind
  <1>4. CASE ~RateIncr(c) /\ ~RateExpire(c)
    <2>1. ~ResendRateIncr(c)
      BY StepOfOne DEF ResendRateIncr, TypeOK, VariablesTyped
    <2> QED
      BY <1>4, <2>1, NoLimiter DEF LeftBehind
  <1> QED
    BY <1>1, <1>2, <1>3, <1>4

(* So do time, the expiry of counters, the synchronisation and arrivals.   *)
LEMMA AroundLeavesNone ==
    ASSUME TypeOK, NEW w \in Windows, w \in LeftBehind',
           Around \/ \E c \in Calls, i \in Inputs : Arrive(c, i)
    PROVE  w \in LeftBehind
  <1>1. CASE \E k \in Keys, m \in Minutes : RateKeyExpires(k, m)
    <2>1. PICK k \in Keys, m \in Minutes : RateKeyExpires(k, m)
      BY <1>1
    <2>2. w = <<k, m>> => rate'[w] = 0
      BY <2>1 DEF RateKeyExpires, Windows, TypeOK, VariablesTyped
    <2>3. w # <<k, m>> => rate'[w] = rate[w] /\ rateTtl'[w] = rateTtl[w]
      BY <2>1 DEF RateKeyExpires, Windows, TypeOK, VariablesTyped
    <2>4. Creating(w)' = Creating(w)
      BY <2>1 DEF RateKeyExpires, callVars, Creating, Window
    <2> QED
      BY <2>2, <2>3, <2>4 DEF LeftBehind
  <1>2. CASE (\E k \in Keys, s \in Statuses \cup {NoMeta} : SyncMeta(k, s)) \/ Tick
             \/ UNCHANGED vars
    <2>1. UNCHANGED <<pc, cred, at, rate, rateTtl>>
      BY <1>2 DEF SyncMeta, Tick, vars, redisVars, callVars
    <2> QED
      BY <2>1 DEF LeftBehind, Creating, Window
  <1>3. CASE \E c \in Calls, i \in Inputs : Arrive(c, i)
    <2>1. PICK c \in Calls, i \in Inputs : Arrive(c, i)
      BY <1>3
    <2>2. UNCHANGED <<rate, rateTtl>>
      BY <2>1 DEF Arrive, redisVars
    <2>3. Creating(w)' = Creating(w)
      BY <2>1 DEF Arrive, Answer, Creating, Window, TypeOK, VariablesTyped
    <2> QED
      BY <2>2, <2>3 DEF LeftBehind
  <1> QED
    BY <1>1, <1>2, <1>3 DEF Around

(* A command run twice leaves one behind at most; a crash, one for each    *)
(* call there was.                                                         *)
LEMMA ResendLeavesOne ==
    ASSUME TypeOK, NEW c \in Calls, Resend(c), NEW w \in Windows, w \in LeftBehind'
    PROVE  w \in LeftBehind \cup {Window(c)}
  <1>1. UNCHANGED <<pc, cred, at>>
    BY ResendOfOne
  <1>2. Creating(w)' = Creating(w)
    BY <1>1 DEF Creating, Window
  <1>3. w # Window(c) => rate'[w] = rate[w] /\ rateTtl'[w] = rateTtl[w]
    BY OtherWindow
       DEF Resend, ResendRateIncr, ResendCountUnit, ResendExhaustQueue, ResendPushEvent
  <1> QED
    BY <1>2, <1>3 DEF LeftBehind

LEMMA CrashLeavesAll ==
    ASSUME TypeOK, Crash, NEW w \in Windows, w \in LeftBehind'
    PROVE  w \in LeftBehind \cup {Window(c) : c \in Calls}
  <1>1. UNCHANGED <<rate, rateTtl>>
    BY DEF Crash, redisVars
  <1>2. Creating(w) # {} => w \in {Window(c) : c \in Calls}
    BY DEF Creating
  <1> QED
    BY <1>1, <1>2 DEF LeftBehind

LEMMA WindowsOfCalls ==
    /\ IsFiniteSet({Window(c) : c \in Calls})
    /\ Cardinality({Window(c) : c \in Calls}) <= Cardinality(Calls)
  <1> DEFINE T == {Window(c) : c \in Calls}
             f == [c \in Calls |-> Window(c)]
  <1>1. f \in Surjection(Calls, T)
    BY DEF Surjection
  <1> QED
    BY <1>1, FS_Surjection, CallsAssumption

(* What a set may grow by is what its number of elements may grow by.      *)
LEMMA GrowsBy ==
    ASSUME NEW S, NEW T, NEW U, IsFiniteSet(S), IsFiniteSet(T), U \subseteq S \cup T
    PROVE  /\ IsFiniteSet(U) /\ Cardinality(U) \in Nat
           /\ Cardinality(U) <= Cardinality(S) + Cardinality(T)
  <1>1. IsFiniteSet(S \cup T)
    BY FS_Union
  <1>2. Cardinality(S \cup T) = Cardinality(S) + Cardinality(T) - Cardinality(S \cap T)
    BY FS_Union
  <1>3. IsFiniteSet(S \cap T)
    BY FS_Subset
  <1>4. IsFiniteSet(U) /\ Cardinality(U) <= Cardinality(S \cup T)
    BY <1>1, FS_Subset
  <1>5. /\ Cardinality(S) \in Nat /\ Cardinality(T) \in Nat /\ Cardinality(U) \in Nat
        /\ Cardinality(S \cap T) \in Nat
    BY <1>3, <1>4, FS_CardinalityType
  <1> QED
    BY <1>2, <1>4, <1>5

LeftInv == IsFiniteSet(LeftBehind) /\ FewLeftBehind

LEMMA NextLeft == TypeOK /\ LeftInv /\ [Next]_vars => LeftInv'
  <1> SUFFICES ASSUME TypeOK, LeftInv, [Next]_vars PROVE LeftInv'
    OBVIOUS
  <1> DEFINE n == Cardinality(Calls)
  <1>0. /\ n \in Nat /\ resends \in Nat /\ faults \in Nat
        /\ Cardinality(LeftBehind) \in Nat
        /\ Cardinality(LeftBehind) <= resends + faults * n
    BY CallsAssumption, FS_CardinalityType DEF LeftInv, FewLeftBehind, TypeOK, VariablesTyped
  <1>1. LeftBehind' \subseteq Windows
    BY DEF LeftBehind, Windows, Minutes
  <1>2. faults * n \in Nat /\ (faults + 1) * n = faults * n + n
    BY <1>0
  <1>3. CASE /\ LeftBehind' \subseteq LeftBehind
             /\ resends' = resends /\ (faults' = faults \/ faults' = faults + 1)
    <2>1. IsFiniteSet(LeftBehind') /\ Cardinality(LeftBehind') <= Cardinality(LeftBehind)
      BY <1>3, FS_Subset DEF LeftInv
    <2>2. Cardinality(LeftBehind') \in Nat
      BY <2>1, FS_CardinalityType
    <2>3. faults' * n = faults * n \/ faults' * n = faults * n + n
      BY <1>2, <1>3
    <2>4. Cardinality(LeftBehind') <= resends + faults' * n
      BY <1>0, <1>2, <2>1, <2>2, <2>3
    <2> QED
      BY <1>3, <2>1, <2>4 DEF LeftInv, FewLeftBehind
  <1>4. ASSUME NEW c \in Calls, Step(c) PROVE LeftInv'
    BY <1>1, <1>3, <1>4, StepLeavesNone, StepOfOne DEF Step, ReadMeta, RateIncr, RateExpire,
       QuotaRead, ExhaustMeta, ExhaustQueue, CountUnit, PushEvent, historyVars
  <1>5. CASE Around \/ \E c \in Calls, i \in Inputs : Arrive(c, i)
    <2>1. resends' = resends /\ (faults' = faults \/ faults' = faults + 1)
      BY <1>5 DEF Around, Arrive, RateKeyExpires, SyncMeta, Tick, vars, historyVars
    <2> QED
      BY <1>1, <1>3, <1>5, <2>1, AroundLeavesNone
  <1>6. ASSUME NEW c \in Calls, Resend(c) PROVE LeftInv'
    <2>1. IsFiniteSet({Window(c)}) /\ Cardinality({Window(c)}) = 1
      BY FS_Singleton
    <2>2. LeftBehind' \subseteq LeftBehind \cup {Window(c)}
      BY <1>1, <1>6, ResendLeavesOne
    <2>3. /\ IsFiniteSet(LeftBehind') /\ Cardinality(LeftBehind') \in Nat
          /\ Cardinality(LeftBehind') <= Cardinality(LeftBehind) + 1
      BY <2>1, <2>2, GrowsBy DEF LeftInv
    <2>4. resends' = resends + 1 /\ faults' = faults
      BY <1>6
         DEF Resend, ResendRateIncr, ResendCountUnit, ResendExhaustQueue, ResendPushEvent
    <2>5. Cardinality(LeftBehind') <= resends' + faults * n
      BY <1>0, <1>2, <2>3, <2>4
    <2> QED
      BY <2>3, <2>4, <2>5 DEF LeftInv, FewLeftBehind
  <1>7. CASE Crash
    <2>1. LeftBehind' \subseteq LeftBehind \cup {Window(c) : c \in Calls}
      BY <1>1, <1>7, CrashLeavesAll
    <2>2. /\ IsFiniteSet(LeftBehind') /\ Cardinality(LeftBehind') \in Nat
          /\ Cardinality(LeftBehind') <=
                Cardinality(LeftBehind) + Cardinality({Window(c) : c \in Calls})
      BY <2>1, WindowsOfCalls, GrowsBy DEF LeftInv
    <2>3. Cardinality({Window(c) : c \in Calls}) \in Nat
      BY WindowsOfCalls, FS_CardinalityType
    <2>4. resends' = resends /\ faults' = faults + 1
      BY <1>7 DEF Crash
    <2>5. faults' * n = faults * n + n
      BY <1>2, <2>4
    <2>6. Cardinality(LeftBehind') <= resends + faults' * n
      BY <1>0, <1>2, <2>2, <2>3, <2>5, WindowsOfCalls
    <2> QED
      BY <2>2, <2>4, <2>6 DEF LeftInv, FewLeftBehind
  <1> QED
    BY <1>4, <1>5, <1>6, <1>7 DEF Next, Rest, Around

(* While no reply is lost and no process dies, every counter of a minute   *)
(* has its TTL or a call about to set it; and otherwise as few are left in *)
(* Redis for good as FewLeftBehind says: the half of RateCountersExpire    *)
(* that needs no fairness.                                                 *)
THEOREM CountersHaveTtl == Spec => []FewLeftBehind
  <1>1. Init => LeftInv
    <2> SUFFICES ASSUME Init PROVE LeftInv
      OBVIOUS
    <2>1. LeftBehind = {}
      BY DEF Init, LeftBehind, Windows
    <2>2. IsFiniteSet({}) /\ Cardinality({}) = 0
      BY FS_EmptySet
    <2>3. 0 <= 0 + 0 * Cardinality(Calls)
      BY CallsAssumption, FS_CardinalityType
    <2> QED
      BY <2>1, <2>2, <2>3 DEF Init, LeftInv, FewLeftBehind
  <1>2. LeftInv => FewLeftBehind
    BY DEF LeftInv
  <1> QED
    BY <1>1, <1>2, NextLeft, TypeCorrect, PTL DEF Spec
-----------------------------------------------------------------------------
(* How many more Redis commands call c executes at most before its answer. *)
Commands == [idle |-> 0, done |-> 0, meta |-> 6, rate |-> 5, expire |-> 4, quota |-> 3,
             exhaustMeta |-> 2, incr |-> 2, exhaustQueue |-> 1, push |-> 1]
Ahead(c) == Commands[pc[c]]

(* Where each command of the chain leads.                                  *)
LEMMA StepGoesOn ==
    ASSUME TypeOK, NEW c \in Calls, Step(c)
    PROVE  \/ pc[c] = "meta" /\ pc'[c] \in {"rate", "quota", "done"}
           \/ pc[c] = "rate" /\ pc'[c] \in {"expire", "quota", "done"}
           \/ pc[c] = "expire" /\ pc'[c] \in {"quota", "done"}
           \/ pc[c] = "quota" /\ pc'[c] \in {"exhaustMeta", "incr"}
           \/ pc[c] = "exhaustMeta" /\ pc'[c] = "exhaustQueue"
           \/ pc[c] = "incr" /\ pc'[c] = "push"
           \/ pc[c] \in {"exhaustQueue", "push"} /\ pc'[c] = "done"
  <1>0. pc \in [Calls -> PCs]
    BY DEF TypeOK, VariablesTyped
  <1>1. CASE ReadMeta(c)
    BY <1>0, <1>1 DEF ReadMeta, GoTo, Answer, FirstLimit
  <1>2. CASE RateIncr(c)
    BY <1>0, <1>2 DEF RateIncr, Verdict, GoTo, Answer
  <1>3. CASE RateExpire(c)
    BY <1>0, <1>3 DEF RateExpire, Verdict, GoTo, Answer
  <1>4. CASE QuotaRead(c) \/ ExhaustMeta(c) \/ ExhaustQueue(c) \/ CountUnit(c) \/ PushEvent(c)
    BY <1>0, <1>4 DEF QuotaRead, ExhaustMeta, ExhaustQueue, CountUnit, PushEvent, GoTo, Answer
  <1> QED
    BY <1>1, <1>2, <1>3, <1>4 DEF Step

(* No path through authorize() and RateLimitService.check comes back to a  *)
(* command it is past, and only a new request starts the chain again.      *)
NearerToTheAnswer ==
    \A c \in Calls :
        /\ Step(c) => Ahead(c)' < Ahead(c)
        /\ Ahead(c)' > Ahead(c) => \E i \in Inputs : Arrive(c, i)

(* A call is at most six commands from its answer, and each of its steps   *)
(* takes it nearer: what EveryCallAnswered needs beside fairness.          *)
THEOREM CallAdvances == Spec => [][NearerToTheAnswer]_vars
  <1>1. ASSUME TypeOK, NEW c \in Calls, Step(c) PROVE Ahead(c)' < Ahead(c)
    BY <1>1, StepGoesOn DEF Ahead, Commands
  <1>2. ASSUME TypeOK, [Next]_vars, NEW c \in Calls, Ahead(c)' > Ahead(c)
        PROVE  \E i \in Inputs : Arrive(c, i)
    <2>1. Ahead(c) \in Nat /\ Ahead(c)' # Ahead(c) /\ ~(Ahead(c)' < Ahead(c))
      <3>1. Ahead(c) \in Nat
        BY <1>2 DEF Ahead, Commands, PCs, TypeOK, VariablesTyped
      <3>2. TypeOK'
        BY <1>2, NextTypeOK
      <3>3. Ahead(c)' \in Nat
        BY <3>2 DEF Ahead, Commands, PCs, TypeOK, VariablesTyped
      <3> QED
        BY <1>2, <3>1, <3>3
    <2>2. pc'[c] # pc[c]
      BY <2>1 DEF Ahead, Commands
    <2>3. ASSUME NEW d \in Calls, Step(d) PROVE FALSE
      BY <1>1, <1>2, <2>1, <2>2, <2>3, StepOfOne
    <2>4. ASSUME NEW d \in Calls, Resend(d) PROVE FALSE
      BY <2>2, <2>4, ResendOfOne
    <2>5. ~Around
      BY <2>2, AroundCalls
    <2>6. ~Crash
      <3>1. SUFFICES ASSUME Crash PROVE FALSE
        OBVIOUS
      <3>2. Ahead(c)' = 0
        BY <3>1 DEF Crash, Ahead, Commands
      <3> QED
        BY <1>2, <2>1, <3>2
    <2>7. ASSUME NEW d \in Calls, NEW i \in Inputs, Arrive(d, i) PROVE d = c
      BY <1>2, <2>2, <2>7 DEF Arrive, Answer, TypeOK, VariablesTyped
    <2> QED
      BY <1>2, <2>3, <2>4, <2>5, <2>6, <2>7 DEF Next, Rest, Around
  <1>3. TypeOK /\ [Next]_vars => [NearerToTheAnswer]_vars
    BY <1>1, <1>2 DEF NearerToTheAnswer
  <1> QED
    BY <1>3, TypeCorrect, PTL DEF Spec
=============================================================================
