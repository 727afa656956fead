-------------------------- MODULE UsageFlushProofs --------------------------
(***************************************************************************)
(* What holds of UsageFlush for any number of overlapping flushes, keys,   *)
(* months and minutes, any chunk, and any number of faults and crashes.    *)
(***************************************************************************)
EXTENDS UsageFlush, FiniteSetTheorems, SequenceTheorems, TLAPS

(* The counters only grow, so a value read from one stays below it, and so *)
(* does what is later written into the row under the month it was read for. *)
MirrorTyped ==
    /\ clock \in Minutes
    /\ counter \in [Keys \X Months -> Nat]
    /\ usage \in [Keys -> [count : Nat, period : Months]]
    /\ fpc \in [Flushes -> FPCs]
    /\ now \in [Flushes -> Minutes]
    /\ read \in [Flushes -> [key : Keys, count : Nat] \cup {Nothing}]

ReadsBehind ==
    \A f \in Flushes :
        fpc[f] = "mirrorWrite" =>
            /\ read[f] \in [key : Keys, count : Nat]
            /\ read[f].count <= counter[<<read[f].key, MirrorMonth(f)>>]

MirrorInv == MirrorTyped /\ ReadsBehind /\ MirrorNeverAhead

LEMMA InitMirrorInv == Init => MirrorInv
  BY FlushAssumption
     DEF Init, FeedInit, MirrorInv, MirrorTyped, ReadsBehind, MirrorNeverAhead, Minutes, FPCs

(* Nothing the invariant speaks of changes.                                *)
LEMMA MirrorUntouched ==
    ASSUME MirrorInv, UNCHANGED <<clock, counter, usage, fpc, now, read>>
    PROVE  MirrorInv'
  BY DEF MirrorInv, MirrorTyped, ReadsBehind, MirrorNeverAhead, MirrorMonth

(* A flush moves between steps that have not read a counter.               *)
LEMMA FlushMoves ==
    ASSUME MirrorInv, NEW f \in Flushes, NEW l \in FPCs \ {"mirrorWrite"},
           fpc' = [fpc EXCEPT ![f] = l],
           UNCHANGED <<clock, counter, usage, now, read>>
    PROVE  MirrorInv'
  BY DEF MirrorInv, MirrorTyped, ReadsBehind, MirrorNeverAhead, MirrorMonth, FPCs

LEMMA StepMirrorInv ==
    ASSUME MirrorInv, NEW f \in Flushes, FlushStep(f)
    PROVE  MirrorInv'
  <1> USE DEF GoTo, clockVars, dbVars, flushVars, faultVars
  <1>1. CASE PopStatus(f)
    <2>1. UNCHANGED <<clock, counter, usage, now, read>>
      BY <1>1 DEF PopStatus
    <2>2. UNCHANGED fpc \/ fpc' = [fpc EXCEPT ![f] = "applyStatus"]
      BY <1>1 DEF PopStatus
    <2> QED
      BY <2>1, <2>2, MirrorUntouched, FlushMoves DEF FPCs
  <1>2. ASSUME NEW applied \in BOOLEAN, ApplyStatus(f, applied) PROVE MirrorInv'
    BY <1>2, MirrorUntouched DEF ApplyStatus
  <1>3. CASE StatusesApplied(f)
    BY <1>3, FlushMoves DEF StatusesApplied, FPCs
  <1>4. CASE PopEvent(f)
    <2>1. UNCHANGED <<clock, counter, usage, now, read>>
      BY <1>4 DEF PopEvent
    <2>2. \/ UNCHANGED fpc
          \/ fpc' = [fpc EXCEPT ![f] = "idle"]
          \/ fpc' = [fpc EXCEPT ![f] = "insert"]
      BY <1>4 DEF PopEvent, AfterDrain
    <2> QED
      BY <2>1, <2>2, MirrorUntouched, FlushMoves DEF FPCs
  <1>5. CASE InsertBatch(f)
    BY <1>5, FlushMoves DEF InsertBatch, FPCs
  <1>6. CASE InsertFails(f)
    BY <1>6, FlushMoves DEF InsertFails, FPCs
  <1>7. CASE InsertUnsure(f)
    BY <1>7, FlushMoves DEF InsertUnsure, FPCs
  <1>8. CASE Requeue(f)
    <2>1. UNCHANGED <<clock, counter, usage, now, read>>
      BY <1>8 DEF Requeue
    <2>2. UNCHANGED fpc \/ fpc' = [fpc EXCEPT ![f] = "idle"]
      BY <1>8 DEF Requeue
    <2> QED
      BY <2>1, <2>2, MirrorUntouched, FlushMoves DEF FPCs
  <1>9. ASSUME NEW k \in Keys, ReadCounter(f, k) PROVE MirrorInv'
    <2>1. <<k, MirrorMonth(f)>> \in Keys \X Months
      BY FlushAssumption DEF MirrorInv, MirrorTyped, MirrorMonth
    <2>2. read'[f] = [key |-> k, count |-> counter[<<k, MirrorMonth(f)>>]]
      BY <1>9 DEF ReadCounter, MirrorInv, MirrorTyped
    <2>3. MirrorTyped'
      BY <1>9, <2>1 DEF ReadCounter, MirrorInv, MirrorTyped, FPCs
    <2>4. ReadsBehind'
      <3> SUFFICES ASSUME NEW g \in Flushes, fpc'[g] = "mirrorWrite"
                   PROVE  /\ read'[g] \in [key : Keys, count : Nat]
                          /\ read'[g].count <= counter'[<<read'[g].key, MirrorMonth(g)'>>]
        BY DEF ReadsBehind
      <3>1. CASE g = f
        BY <1>9, <2>1, <2>2, <3>1 DEF ReadCounter, MirrorInv, MirrorTyped, MirrorMonth
      <3>2. CASE g # f
        BY <1>9, <3>2 DEF ReadCounter, MirrorInv, MirrorTyped, ReadsBehind, MirrorMonth
      <3> QED
        BY <3>1, <3>2
    <2>5. MirrorNeverAhead'
      BY <1>9 DEF ReadCounter, MirrorInv, MirrorNeverAhead
    <2> QED
      BY <2>3, <2>4, <2>5 DEF MirrorInv
  <1>10. ASSUME NEW applied \in BOOLEAN, WriteMirror(f, applied) PROVE MirrorInv'
    <2>1. /\ read[f] \in [key : Keys, count : Nat]
          /\ read[f].count <= counter[<<read[f].key, MirrorMonth(f)>>]
          /\ MirrorMonth(f) \in Months
      BY <1>10, FlushAssumption
         DEF WriteMirror, MirrorInv, MirrorTyped, ReadsBehind, MirrorMonth
    <2>2. usage' = usage \/ usage' = [usage EXCEPT ![read[f].key] = NewUsage(f)]
      BY <1>10 DEF WriteMirror
    <2>3. UNCHANGED <<clock, counter, now>> /\ read' = [read EXCEPT ![f] = Nothing]
      BY <1>10 DEF WriteMirror
    <2>4. \/ fpc' = [fpc EXCEPT ![f] = "idle"]
          \/ fpc' = [fpc EXCEPT ![f] = "mirrorRead"]
      BY <1>10 DEF WriteMirror
    <2>9. NewUsage(f) \in [count : Nat, period : Months]
      BY <2>1 DEF NewUsage
    <2>10. usage' \in [Keys -> [count : Nat, period : Months]]
      BY <2>1, <2>2, <2>9 DEF MirrorInv, MirrorTyped
    <2>11. read' \in [Flushes -> [key : Keys, count : Nat] \cup {Nothing}]
      BY <2>3 DEF MirrorInv, MirrorTyped
    <2>8. fpc' \in [Flushes -> FPCs]
      BY <2>4 DEF MirrorInv, MirrorTyped, FPCs
    <2>5. MirrorTyped'
      BY <2>3, <2>10, <2>11, <2>8 DEF MirrorInv, MirrorTyped
    <2>6. ReadsBehind'
      BY <2>3, <2>4 DEF MirrorInv, MirrorTyped, ReadsBehind, MirrorMonth
    <2>7. MirrorNeverAhead'
      <3> SUFFICES ASSUME NEW j \in Keys
                   PROVE  usage'[j].count <= counter[<<j, usage'[j].period>>]
        BY <2>3 DEF MirrorNeverAhead
      <3>1. CASE usage'[j] = usage[j]
        BY <3>1 DEF MirrorInv, MirrorNeverAhead
      <3>2. CASE j = read[f].key /\ usage'[j] = NewUsage(f)
        BY <2>1, <3>2 DEF NewUsage
      <3> QED
        BY <2>2, <3>1, <3>2 DEF MirrorInv, MirrorTyped
    <2> QED
      BY <2>5, <2>6, <2>7 DEF MirrorInv
  <1> QED
    BY <1>1, <1>2, <1>3, <1>4, <1>5, <1>6, <1>7, <1>8, <1>9, <1>10 DEF FlushStep

LEMMA NextMirrorInv == MirrorInv /\ [Next]_vars => MirrorInv'
  <1> SUFFICES ASSUME MirrorInv, [Next]_vars PROVE MirrorInv'
    OBVIOUS
  <1> USE DEF clockVars, dbVars, flushVars, faultVars
  <1>1. ASSUME NEW k \in Keys, NEW at \in Minutes, CountUnit(k, at) \/ ResendCountUnit(k, at)
        PROVE  MirrorInv'
    <2>1. <<k, MonthOf[at]>> \in Keys \X Months
      BY FlushAssumption
    <2>3. /\ counter' \in [Keys \X Months -> Nat]
          /\ \A km \in Keys \X Months : counter'[km] >= counter[km]
      <3> DEFINE c == <<k, MonthOf[at]>>
      <3>1. counter \in [Keys \X Months -> Nat]
        BY DEF MirrorInv, MirrorTyped
      <3>2. counter' = [counter EXCEPT ![c] = counter[c] + 1]
        BY <1>1 DEF CountUnit, ResendCountUnit, Counts, CountsAgain
      <3> HIDE DEF c
      <3> QED
        BY <2>1, <3>1, <3>2 DEF c
    <2>2. counter' \in [Keys \X Months -> Nat]
      BY <2>3
    <2>4. UNCHANGED <<clock, usage, fpc, now, read>>
      BY <1>1 DEF CountUnit, ResendCountUnit, Counts, CountsAgain
    <2>5. MirrorTyped'
      BY <2>2, <2>4 DEF MirrorInv, MirrorTyped
    <2>6. ReadsBehind'
      <3> SUFFICES ASSUME NEW f \in Flushes, fpc[f] = "mirrorWrite"
                   PROVE  /\ read[f] \in [key : Keys, count : Nat]
                          /\ read[f].count <= counter'[<<read[f].key, MirrorMonth(f)>>]
        BY <2>4 DEF ReadsBehind, MirrorMonth
      <3>1. /\ read[f] \in [key : Keys, count : Nat]
            /\ read[f].count <= counter[<<read[f].key, MirrorMonth(f)>>]
        BY DEF MirrorInv, ReadsBehind
      <3>2. <<read[f].key, MirrorMonth(f)>> \in Keys \X Months
        BY <3>1, FlushAssumption DEF MirrorInv, MirrorTyped, MirrorMonth
      <3> QED
        BY <2>2, <2>3, <3>1, <3>2 DEF MirrorInv, MirrorTyped
    <2>7. MirrorNeverAhead'
      <3> SUFFICES ASSUME NEW j \in Keys
                   PROVE  usage[j].count <= counter'[<<j, usage[j].period>>]
        BY <2>4 DEF MirrorNeverAhead
      <3>1. usage[j].count <= counter[<<j, usage[j].period>>]
        BY DEF MirrorInv, MirrorNeverAhead
      <3>2. <<j, usage[j].period>> \in Keys \X Months /\ usage[j].count \in Nat
        BY DEF MirrorInv, MirrorTyped
      <3> QED
        BY <2>2, <2>3, <3>1, <3>2 DEF MirrorInv, MirrorTyped
    <2> QED
      BY <2>5, <2>6, <2>7 DEF MirrorInv
  <1>2. ASSUME NEW k \in Keys, Deny(k) \/ DeleteKey(k) PROVE MirrorInv'
    BY <1>2, MirrorUntouched DEF Deny, Denies, DeleteKey
  <1>3. ASSUME NEW e \in Events, PushEvent(e) \/ ResendPushEvent(e) PROVE MirrorInv'
    BY <1>3, MirrorUntouched DEF PushEvent, ResendPushEvent, Pushes, PushesAgain
  <1>4. ASSUME NEW f \in Flushes, StartFlush(f) PROVE MirrorInv'
    <2>1. UNCHANGED <<clock, counter, usage, read>>
      BY <1>4 DEF StartFlush
    <2>2. MirrorTyped'
      BY <1>4, <2>1 DEF StartFlush, GoTo, MirrorInv, MirrorTyped, FPCs
    <2>3. ReadsBehind'
      BY <1>4, <2>1 DEF StartFlush, GoTo, MirrorInv, MirrorTyped, ReadsBehind, MirrorMonth
    <2> QED
      BY <2>1, <2>2, <2>3 DEF MirrorInv, MirrorNeverAhead
  <1>5. ASSUME NEW f \in Flushes, FlushStep(f) PROVE MirrorInv'
    BY <1>5, StepMirrorInv
  <1>6. CASE Tick
    <2>1. UNCHANGED <<counter, usage, fpc, now, read>>
      BY <1>6 DEF Tick, Passes
    <2>2. clock' \in Minutes
      BY <1>6, FlushAssumption DEF Tick, Passes, MirrorInv, MirrorTyped, Minutes
    <2> QED
      BY <2>1, <2>2 DEF MirrorInv, MirrorTyped, ReadsBehind, MirrorNeverAhead, MirrorMonth
  <1>7. CASE Crash
    <2>1. UNCHANGED <<clock, counter, usage, now>>
      BY <1>7 DEF Crash, Dies
    <2>2. fpc' = [f \in Flushes |-> "idle"] /\ read' = [f \in Flushes |-> Nothing]
      BY <1>7 DEF Crash, Dies
    <2> QED
      BY <2>1, <2>2 DEF MirrorInv, MirrorTyped, ReadsBehind, MirrorNeverAhead, FPCs
  <1>8. CASE UNCHANGED vars
    BY <1>8, MirrorUntouched DEF vars
  <1>9. ASSUME NEW f \in Flushes, FlushResend(f) PROVE MirrorInv'
    BY <1>9, MirrorUntouched DEF FlushResend, ResendPopStatus, ResendPopEvent, ResendRequeue
  <1> QED
    BY <1>1, <1>2, <1>3, <1>4, <1>5, <1>6, <1>7, <1>8, <1>9 DEF Next

(* However flushes overlap, fail, retry and die, api_keys.current_usage    *)
(* never exceeds what Redis counted in the month the row says it is for.   *)
THEOREM MirrorBehindCounter == Spec => []MirrorNeverAhead
  <1>1. MirrorInv => MirrorNeverAhead
    BY DEF MirrorInv
  <1> QED
    BY <1>1, InitMirrorInv, NextMirrorInv, PTL DEF Spec
-----------------------------------------------------------------------------
(* A one-to-one map of one finite set on another.                          *)
LEMMA SameSize ==
    ASSUME NEW S, NEW T, IsFiniteSet(S), NEW h \in [S -> T],
           \A x, y \in S : h[x] = h[y] => x = y,
           \A t \in T : \E x \in S : h[x] = t
    PROVE  IsFiniteSet(T) /\ Cardinality(T) = Cardinality(S)
  <1>1. h \in Bijection(S, T)
    BY DEF Bijection, Injection, Surjection, IsInjective
  <1>2. ExistsBijection(S, T)
    BY <1>1 DEF ExistsBijection
  <1> QED
    BY <1>2, FS_Bijection

(* Two sets without a common element.                                      *)
LEMMA DisjointSizes ==
    ASSUME NEW S, NEW T, IsFiniteSet(S), IsFiniteSet(T), S \cap T = {}
    PROVE  IsFiniteSet(S \cup T) /\ Cardinality(S \cup T) = Cardinality(S) + Cardinality(T)
  <1>1. Cardinality(S \cup T) = Cardinality(S) + Cardinality(T) - Cardinality({})
    BY FS_Union
  <1>2. Cardinality(S) \in Nat /\ Cardinality(T) \in Nat
    BY FS_CardinalityType
  <1> QED
    BY <1>1, <1>2, FS_EmptySet, FS_Union

(* The places of e in a sequence are finitely many.                        *)
Places(s, e) == {n \in DOMAIN s : s[n] = e}

LEMMA PlacesFinite ==
    ASSUME NEW s \in Seq(Events), NEW e
    PROVE  /\ IsFiniteSet(Places(s, e)) /\ Copies(s, e) \in Nat
           /\ Copies(s, e) = Cardinality(Places(s, e))
  <1>1. DOMAIN s = 1 .. Len(s) /\ Len(s) \in Nat
    OBVIOUS
  <1>2. IsFiniteSet(1 .. Len(s))
    BY <1>1, FS_Interval
  <1>3. Places(s, e) \subseteq 1 .. Len(s)
    BY <1>1 DEF Places
  <1>4. IsFiniteSet(Places(s, e))
    BY <1>2, <1>3, FS_Subset
  <1> QED
    BY <1>4, FS_CardinalityType DEF Copies, Places

LEMMA NoCopies == \A e : Copies(<<>>, e) = 0
  <1> TAKE e
  <1>1. {n \in DOMAIN <<>> : <<>>[n] = e} = {}
    OBVIOUS
  <1> QED
    BY <1>1, FS_EmptySet DEF Copies

(* LPUSH adds a copy of what is pushed ...                                 *)
LEMMA CopiesAppend ==
    ASSUME NEW s \in Seq(Events), NEW x \in Events, NEW e \in Events
    PROVE  Copies(Append(s, x), e) = Copies(s, e) + (IF x = e THEN 1 ELSE 0)
  <1> DEFINE n == Len(s) + 1
             t == Append(s, x)
  <1>1. /\ t \in Seq(Events) /\ DOMAIN t = 1 .. n /\ DOMAIN s = 1 .. Len(s)
        /\ Len(s) \in Nat /\ t[n] = x /\ \A i \in 1 .. Len(s) : t[i] = s[i]
    BY AppendProperties
  <1>2. n \notin Places(s, e)
    BY <1>1 DEF Places
  <1>5. /\ IsFiniteSet(Places(s, e))
        /\ Copies(s, e) \in Nat /\ Copies(s, e) = Cardinality(Places(s, e))
        /\ Copies(t, e) = Cardinality(Places(t, e))
    BY <1>1, PlacesFinite
  <1>3. CASE x = e
    <2>1. Places(t, e) = Places(s, e) \cup {n}
      BY <1>1, <1>3 DEF Places
    <2>2. Cardinality(Places(t, e)) = Cardinality(Places(s, e)) + 1
      BY <1>2, <1>5, <2>1, FS_AddElement
    <2> QED
      BY <1>3, <1>5, <2>2
  <1>4. CASE x # e
    <2>1. Places(t, e) = Places(s, e)
      BY <1>1, <1>4 DEF Places
    <2> QED
      BY <1>4, <1>5, <2>1
  <1> QED
    BY <1>3, <1>4

(* ... and RPOP takes one of what it returns.                              *)
LEMMA CopiesTail ==
    ASSUME NEW s \in Seq(Events), s # <<>>, NEW e \in Events
    PROVE  Copies(s, e) = Copies(Tail(s), e) + (IF Head(s) = e THEN 1 ELSE 0)
  <1> DEFINE t == Tail(s)
             Later == {n \in 2 .. Len(s) : s[n] = e}
             h == [n \in Places(t, e) |-> n + 1]
  <1>1. /\ t \in Seq(Events) /\ DOMAIN t = 1 .. Len(t) /\ DOMAIN s = 1 .. Len(s)
        /\ Len(s) \in Nat \ {0} /\ Len(t) = Len(s) - 1 /\ Head(s) = s[1]
        /\ \A i \in 1 .. Len(t) : t[i] = s[i + 1]
    BY HeadTailProperties, EmptySeq
  <1>2. IsFiniteSet(Places(t, e))
    BY <1>1, PlacesFinite
  <1>3. h \in [Places(t, e) -> Later]
    BY <1>1 DEF Places
  <1>4. \A x, y \in Places(t, e) : h[x] = h[y] => x = y
    BY <1>1 DEF Places
  <1>5. \A n \in Later : \E x \in Places(t, e) : h[x] = n
    <2> SUFFICES ASSUME NEW n \in Later PROVE \E x \in Places(t, e) : h[x] = n
      OBVIOUS
    <2>1. n - 1 \in Places(t, e)
      BY <1>1 DEF Places
    <2> WITNESS n - 1 \in Places(t, e)
    <2> QED
      BY <1>1, <2>1
  <1>9. /\ Copies(s, e) = Cardinality(Places(s, e))
        /\ Copies(t, e) = Cardinality(Places(t, e))
        /\ Copies(t, e) \in Nat
    BY <1>1, PlacesFinite
  <1>6. IsFiniteSet(Later) /\ Cardinality(Later) = Cardinality(Places(t, e))
    <2> HIDE DEF h, t, Later
    <2> QED
      BY <1>2, <1>3, <1>4, <1>5, SameSize
  <1>7. CASE s[1] = e
    <2>1. Places(s, e) = Later \cup {1} /\ 1 \notin Later
      BY <1>1, <1>7 DEF Places
    <2> QED
      <3> HIDE DEF Later, t
      <3>1. Cardinality(Places(s, e)) = Cardinality(Later) + 1
        BY <1>6, <2>1, FS_AddElement
      <3> QED
        BY <1>1, <1>6, <1>7, <1>9, <3>1 DEF t
  <1>8. CASE s[1] # e
    <2>1. Places(s, e) = Later
      BY <1>1, <1>8 DEF Places
    <2> QED
      BY <1>1, <1>6, <1>8, <1>9, <2>1
  <1> QED
    BY <1>7, <1>8
-----------------------------------------------------------------------------
(* Where a flush holds events it has not inserted, and how many it holds.  *)
Holding == {"drainUsage", "insert", "requeue"}
InHand(place, b, e) == IF place \in Holding THEN Copies(b, e) ELSE 0

(* Held, of any places p and batches b; and without flush f.               *)
HeldSlots(p, b, e) ==
    {s \in Slots : p[s[1]] \in Holding /\ s[2] \in DOMAIN b[s[1]] /\ b[s[1]][s[2]] = e}
OthersSlots(f, p, b, e) == {s \in HeldSlots(p, b, e) : s[1] # f}
OwnSlots(f, p, b, e) == {s \in HeldSlots(p, b, e) : s[1] = f}

LEMMA HeldIs == \A e : Held(e) = Cardinality(HeldSlots(fpc, batch, e))
  BY DEF Held, HeldSlots, Holding

LEMMA SlotsFinite ==
    ASSUME NEW p, NEW b, NEW e
    PROVE  IsFiniteSet(HeldSlots(p, b, e)) /\ Cardinality(HeldSlots(p, b, e)) \in Nat
  <1>1. IsFiniteSet(1 .. FLUSH_CHUNK)
    BY FlushAssumption, FS_Interval
  <1>2. IsFiniteSet(Slots)
    BY <1>1, FlushAssumption, FS_Product DEF Slots
  <1>3. HeldSlots(p, b, e) \subseteq Slots
    BY DEF HeldSlots
  <1>4. IsFiniteSet(HeldSlots(p, b, e))
    BY <1>2, <1>3, FS_Subset
  <1> QED
    BY <1>4, FS_CardinalityType

(* What is held is what flush f holds and what the others hold.            *)
LEMMA HeldSplits ==
    ASSUME NEW f \in Flushes, NEW p, NEW b, b[f] \in Seq(Events), Len(b[f]) <= FLUSH_CHUNK,
           NEW e
    PROVE  /\ Cardinality(OthersSlots(f, p, b, e)) \in Nat
           /\ InHand(p[f], b[f], e) \in Nat
           /\ Cardinality(HeldSlots(p, b, e)) =
                 Cardinality(OthersSlots(f, p, b, e)) + InHand(p[f], b[f], e)
  <1> DEFINE own == OwnSlots(f, p, b, e)
             others == OthersSlots(f, p, b, e)
             all == HeldSlots(p, b, e)
             h == [n \in Places(b[f], e) |-> <<f, n>>]
  <1>1. all = others \cup own /\ others \cap own = {}
    BY DEF OwnSlots, OthersSlots
  <1>2. IsFiniteSet(others) /\ IsFiniteSet(own)
    BY SlotsFinite, FS_Subset DEF OwnSlots, OthersSlots
  <1>3. Cardinality(all) = Cardinality(others) + Cardinality(own)
    BY <1>1, <1>2, DisjointSizes
  <1>4. Cardinality(own) = InHand(p[f], b[f], e)
    <2>1. CASE p[f] \in Holding
      <3>1. DOMAIN b[f] = 1 .. Len(b[f]) /\ Len(b[f]) \in Nat /\ FLUSH_CHUNK \in Nat
        BY FlushAssumption
      <3>2. own = {<<f, n>> : n \in Places(b[f], e)}
        <4>1. \A s \in own : s = <<f, s[2]>> /\ s[2] \in Places(b[f], e)
          BY DEF OwnSlots, HeldSlots, Slots, Places
        <4>2. \A n \in Places(b[f], e) : <<f, n>> \in own
          BY <2>1, <3>1 DEF OwnSlots, HeldSlots, Slots, Places
        <4> QED
          BY <4>1, <4>2
      <3>3. h \in [Places(b[f], e) -> own] /\ \A t \in own : \E n \in Places(b[f], e) : h[n] = t
        BY <3>2
      <3>4. \A x, y \in Places(b[f], e) : h[x] = h[y] => x = y
        OBVIOUS
      <3>6. /\ IsFiniteSet(Places(b[f], e))
            /\ Copies(b[f], e) = Cardinality(Places(b[f], e))
        BY PlacesFinite
      <3> HIDE DEF h, own
      <3>5. Cardinality(own) = Copies(b[f], e)
        BY <3>3, <3>4, <3>6, SameSize
      <3> QED
        BY <2>1, <3>5 DEF InHand
    <2>2. CASE p[f] \notin Holding
      <3>1. own = {}
        BY <2>2 DEF OwnSlots, HeldSlots
      <3> QED
        BY <2>2, <3>1, FS_EmptySet DEF InHand
    <2> QED
      BY <2>1, <2>2
  <1>5. Cardinality(others) \in Nat /\ InHand(p[f], b[f], e) \in Nat
    BY <1>2, FS_CardinalityType, PlacesFinite DEF InHand
  <1> QED
    BY <1>3, <1>4, <1>5

(* A step of flush f alone changes what is held by what f holds.           *)
LEMMA HeldByOne ==
    ASSUME NEW f \in Flushes, NEW p, NEW b, NEW q, NEW c, NEW e,
           b[f] \in Seq(Events), Len(b[f]) <= FLUSH_CHUNK,
           c[f] \in Seq(Events), Len(c[f]) <= FLUSH_CHUNK,
           \A g \in Flushes \ {f} : q[g] = p[g] /\ c[g] = b[g]
    PROVE  /\ Cardinality(HeldSlots(p, b, e)) \in Nat
           /\ Cardinality(HeldSlots(q, c, e)) \in Nat
           /\ Cardinality(HeldSlots(q, c, e)) + InHand(p[f], b[f], e) =
                 Cardinality(HeldSlots(p, b, e)) + InHand(q[f], c[f], e)
  <1>1. OthersSlots(f, q, c, e) = OthersSlots(f, p, b, e)
    BY DEF OthersSlots, HeldSlots, Slots
  <1>2. /\ Cardinality(OthersSlots(f, p, b, e)) \in Nat
        /\ InHand(p[f], b[f], e) \in Nat
        /\ Cardinality(HeldSlots(p, b, e)) =
              Cardinality(OthersSlots(f, p, b, e)) + InHand(p[f], b[f], e)
    BY HeldSplits
  <1>3. /\ InHand(q[f], c[f], e) \in Nat
        /\ Cardinality(HeldSlots(q, c, e)) =
              Cardinality(OthersSlots(f, q, c, e)) + InHand(q[f], c[f], e)
    BY HeldSplits
  <1> QED
    BY <1>1, <1>2, <1>3
-----------------------------------------------------------------------------
(* Types, and what each place of a flush says of its batch.                *)
Booked ==
    /\ usageQueue \in Seq(Events)
    /\ rows \in [Events -> Nat]
    /\ fpc \in [Flushes -> FPCs]
    /\ batch \in [Flushes -> Seq(Events)]
    /\ owed \in [Events -> Nat] /\ pushed \in [Events -> Nat]
    /\ lost \in [Events -> Nat] /\ unsure \in [Events -> Nat]
    /\ repeated \in [Events -> Nat]
    /\ \A f \in Flushes :
          /\ Len(batch[f]) <= FLUSH_CHUNK
          /\ fpc[f] \in {"idle", "drainStatus", "applyStatus"} => batch[f] = <<>>
          /\ fpc[f] \in {"insert", "requeue", "mirrorRead", "mirrorWrite"} => batch[f] # <<>>

LEMMA InitBooked == Init => Booked /\ EventsConserved
  <1> SUFFICES ASSUME Init PROVE Booked /\ EventsConserved
    OBVIOUS
  <1>1. Booked
    BY FlushAssumption DEF Init, FeedInit, Booked, Zero, FPCs
  <1>2. ASSUME NEW e \in Events PROVE Held(e) = 0
    <2>1. HeldSlots(fpc, batch, e) = {}
      BY DEF Init, FeedInit, HeldSlots, Slots, Holding
    <2> QED
      BY <2>1, HeldIs, FS_EmptySet
  <1>3. \A e \in Events : Copies(usageQueue, e) = 0
    BY NoCopies DEF Init, FeedInit
  <1> QED
    BY <1>1, <1>2, <1>3 DEF Init, FeedInit, EventsConserved, Zero

(* Nothing of the books changes.                                           *)
bookVars == <<usageQueue, rows, fpc, batch, pushed, lost, unsure, repeated>>
LEMMA BooksUntouched ==
    ASSUME Booked, EventsConserved, UNCHANGED bookVars, owed' \in [Events -> Nat]
    PROVE  Booked' /\ EventsConserved'
  BY DEF Booked, EventsConserved, bookVars, Held, Copies, Slots

(* What a step of flush f does to the books: q is where it goes, b what it *)
(* holds then; for each event, what it takes from its hands appears in the *)
(* queue or in the rows.                                                   *)
Balanced(f, q, b) ==
    \A e \in Events :
        unsure'[e] + InHand(fpc[f], batch[f], e) + Copies(usageQueue, e) + rows[e] =
        unsure[e] + InHand(q, b, e) + Copies(usageQueue', e) + rows'[e]

FlushDoes(f, q, b) ==
    /\ fpc' = [fpc EXCEPT ![f] = q] /\ batch' = [batch EXCEPT ![f] = b]
    /\ Len(b) <= FLUSH_CHUNK
    /\ q \in {"idle", "drainStatus", "applyStatus"} => b = <<>>
    /\ q \in {"insert", "requeue", "mirrorRead", "mirrorWrite"} => b # <<>>
    /\ usageQueue' \in Seq(Events) /\ rows' \in [Events -> Nat]
    /\ unsure' \in [Events -> Nat] /\ UNCHANGED <<owed, pushed, lost, repeated>>
    /\ Balanced(f, q, b)

LEMMA FlushBooks ==
    ASSUME Booked, EventsConserved, NEW f \in Flushes, NEW q \in FPCs, NEW b \in Seq(Events),
           FlushDoes(f, q, b)
    PROVE  Booked' /\ EventsConserved'
  <1>1. Booked'
    BY DEF Booked, FlushDoes
  <1>2. ASSUME NEW e \in Events
        PROVE  pushed'[e] + unsure'[e] + repeated'[e] =
                 Copies(usageQueue', e) + Held(e)' + rows'[e] + lost'[e]
    <2> DEFINE before == Cardinality(HeldSlots(fpc, batch, e))
               after == Cardinality(HeldSlots(fpc', batch', e))
               here == InHand(fpc[f], batch[f], e)
               there == InHand(q, b, e)
               queued == Copies(usageQueue, e)
               queuing == Copies(usageQueue', e)
               p == pushed[e] + repeated[e]
               l == lost[e]
               u == unsure[e]
               v == unsure'[e]
               r == rows[e]
               s == rows'[e]
    <2>1. /\ fpc'[f] = q /\ batch'[f] = b
          /\ \A g \in Flushes \ {f} : fpc'[g] = fpc[g] /\ batch'[g] = batch[g]
          /\ batch[f] \in Seq(Events) /\ Len(batch[f]) <= FLUSH_CHUNK
          /\ batch'[f] \in Seq(Events) /\ Len(batch'[f]) <= FLUSH_CHUNK
      BY DEF Booked, FlushDoes
    <2>2. before \in Nat /\ after \in Nat /\ after + here = before + there
      BY <2>1, HeldByOne
    <2>3. Held(e) = before /\ Held(e)' = after
      BY DEF Held, HeldSlots, Holding, Slots
    <2>4. here \in Nat /\ there \in Nat /\ queued \in Nat /\ queuing \in Nat
      BY <2>1, PlacesFinite DEF InHand, Booked, FlushDoes
    <2>10. /\ u \in Nat /\ r \in Nat /\ l \in Nat /\ v \in Nat /\ s \in Nat
           /\ pushed[e] \in Nat /\ repeated[e] \in Nat /\ pushed'[e] = pushed[e]
           /\ repeated'[e] = repeated[e] /\ lost'[e] = l
      BY DEF Booked, FlushDoes
    <2>6. /\ p \in Nat /\ u \in Nat /\ r \in Nat /\ l \in Nat /\ v \in Nat /\ s \in Nat
          /\ pushed[e] \in Nat /\ repeated[e] \in Nat /\ pushed'[e] = pushed[e]
          /\ repeated'[e] = repeated[e] /\ lost'[e] = l
      BY <2>10
    <2>8. pushed[e] + u + repeated[e] = queued + before + r + l
      BY <2>3 DEF EventsConserved
    <2>5. /\ p + u = queued + before + r + l
          /\ v + here + queued + r = u + there + queuing + s
      <3>1. p + u = pushed[e] + u + repeated[e]
        BY <2>6
      <3>2. v + here + queued + r = u + there + queuing + s
        BY DEF Balanced, FlushDoes
      <3> QED
        BY <2>8, <3>1, <3>2
    <2>9. p + v = pushed'[e] + v + repeated'[e]
      BY <2>6
    <2> HIDE DEF before, after, here, there, queued, queuing, p, l, u, v, r, s
    <2>7. p + v = queuing + after + s + l
      <3> DEFINE others == before - here
                 was == here + queued + r
                 is == there + queuing + s
      <3>1. was \in Nat /\ is \in Nat
        BY <2>4, <2>6
      <3>2. others \in Int /\ before = others + here /\ after = others + there
        BY <2>2, <2>4
      <3> HIDE DEF others
      <3>3. p + u = was + others + l
        <4>1. queued + (others + here) + r + l = (here + queued + r) + others + l
          BY <2>4, <2>6, <3>2
        <4> QED
          BY <2>5, <3>2, <4>1
      <3>4. v + was = u + is
        <4>1. v + (here + queued + r) = v + here + queued + r
          BY <2>4, <2>6
        <4>2. u + (there + queuing + s) = u + there + queuing + s
          BY <2>4, <2>6
        <4> QED
          BY <2>5, <4>1, <4>2
      <3>5. queuing + after + s + l = is + others + l
        <4>1. queuing + (others + there) + s + l = (there + queuing + s) + others + l
          BY <2>4, <2>6, <3>2
        <4> QED
          BY <3>2, <4>1
      <3> HIDE DEF was, is
      <3>6. p + v = is + others + l
        BY <2>6, <3>1, <3>2, <3>3, <3>4
      <3> QED
        BY <3>5, <3>6
    <2> QED
      BY <2>3, <2>6, <2>7, <2>9 DEF queuing, v, s
  <1> QED
    BY <1>1, <1>2 DEF EventsConserved, Copies
-----------------------------------------------------------------------------
LEMMA BatchIs ==
    ASSUME Booked, NEW f \in Flushes
    PROVE  /\ fpc[f] \in FPCs /\ batch[f] \in Seq(Events) /\ Len(batch[f]) \in Nat
           /\ Len(batch[f]) <= FLUSH_CHUNK
           /\ fpc[f] \in {"idle", "drainStatus", "applyStatus"} => batch[f] = <<>>
           /\ fpc[f] \in {"insert", "requeue", "mirrorRead", "mirrorWrite"} => batch[f] # <<>>
           /\ \A e : Copies(batch[f], e) \in Nat
           /\ batch = [batch EXCEPT ![f] = batch[f]] /\ fpc = [fpc EXCEPT ![f] = fpc[f]]
  BY PlacesFinite DEF Booked

(* A flush that only moves on, and holds what it held, or is empty-handed.  *)
LEMMA OnlyMoves ==
    ASSUME Booked, EventsConserved, NEW f \in Flushes, NEW q \in FPCs,
           fpc' = [fpc EXCEPT ![f] = q],
           UNCHANGED <<usageQueue, rows, batch, owed, pushed, lost, unsure, repeated>>,
           (fpc[f] \in Holding <=> q \in Holding) \/ batch[f] = <<>>,
           q \in {"idle", "drainStatus", "applyStatus"} => batch[f] = <<>>,
           q \in {"insert", "requeue", "mirrorRead", "mirrorWrite"} => batch[f] # <<>>
    PROVE  Booked' /\ EventsConserved'
  <1>1. \A e \in Events : InHand(q, batch[f], e) = InHand(fpc[f], batch[f], e)
    BY NoCopies DEF InHand
  <1>2. Balanced(f, q, batch[f])
    <2> SUFFICES ASSUME NEW e \in Events
                 PROVE  unsure[e] + InHand(fpc[f], batch[f], e) + Copies(usageQueue, e) + rows[e] =
                        unsure[e] + InHand(q, batch[f], e) + Copies(usageQueue, e) + rows[e]
      BY DEF Balanced, Copies
    <2> QED
      BY <1>1
  <1>3. FlushDoes(f, q, batch[f])
    BY <1>2, BatchIs DEF FlushDoes, Booked
  <1> QED
    BY <1>3, BatchIs, FlushBooks

LEMMA PopBooks ==
    ASSUME Booked, EventsConserved, NEW f \in Flushes, PopEvent(f)
    PROVE  Booked' /\ EventsConserved'
  <1> DEFINE x == Head(usageQueue)
             b == Append(batch[f], x)
  <1>1. CASE usageQueue # <<>> /\ Len(batch[f]) < FLUSH_CHUNK
    <2>1. /\ x \in Events /\ Tail(usageQueue) \in Seq(Events) /\ usageQueue' = Tail(usageQueue)
          /\ fpc[f] = "drainUsage" /\ batch' = [batch EXCEPT ![f] = b]
          /\ UNCHANGED <<fpc, rows, owed, pushed, lost, unsure, repeated>>
      BY <1>1, HeadTailProperties DEF PopEvent, Booked, dbVars, clockVars, faultVars
    <2>2. b \in Seq(Events) /\ Len(b) = Len(batch[f]) + 1
      BY <2>1, BatchIs, AppendProperties
    <2>3. Balanced(f, "drainUsage", b)
      <3> SUFFICES ASSUME NEW e \in Events
                   PROVE  unsure[e] + Copies(batch[f], e) + Copies(usageQueue, e) + rows[e] =
                          unsure[e] + Copies(b, e) + Copies(Tail(usageQueue), e) + rows[e]
        BY <2>1 DEF Balanced, InHand, Holding, Copies
      <3>1. Copies(b, e) = Copies(batch[f], e) + (IF x = e THEN 1 ELSE 0)
        BY <2>1, BatchIs, CopiesAppend
      <3>2. Copies(usageQueue, e) = Copies(Tail(usageQueue), e) + (IF x = e THEN 1 ELSE 0)
        BY <1>1, CopiesTail DEF Booked
      <3>3. /\ Copies(batch[f], e) \in Nat /\ Copies(Tail(usageQueue), e) \in Nat
            /\ unsure[e] \in Nat /\ rows[e] \in Nat
        BY <2>1, BatchIs, PlacesFinite DEF Booked
      <3> HIDE DEF x, b
      <3> QED
        BY <3>1, <3>2, <3>3
    <2>4. FlushDoes(f, "drainUsage", b)
      <3>1. Len(b) <= FLUSH_CHUNK
        <4> HIDE DEF b
        <4> QED
          BY <1>1, <2>2, BatchIs, FlushAssumption
      <3>2. fpc' = [fpc EXCEPT ![f] = "drainUsage"]
        BY <2>1, BatchIs
      <3>3. Tail(usageQueue) \in Seq(Events) /\ usageQueue' = Tail(usageQueue)
        BY <2>1
      <3> HIDE DEF b, x
      <3> QED
        BY <2>1, <2>2, <2>3, <3>1, <3>2, <3>3 DEF FlushDoes, Booked
    <2> HIDE DEF b
    <2> QED
      BY <2>2, <2>4, FlushBooks DEF FPCs
  <1>2. CASE ~(usageQueue # <<>> /\ Len(batch[f]) < FLUSH_CHUNK)
    <2>1. /\ fpc[f] = "drainUsage" /\ fpc' = [fpc EXCEPT ![f] = AfterDrain(f)]
          /\ UNCHANGED <<usageQueue, rows, batch, owed, pushed, lost, unsure, repeated>>
      BY <1>2 DEF PopEvent, GoTo, dbVars, clockVars, faultVars
    <2>2. \/ batch[f] = <<>> /\ AfterDrain(f) = "idle"
          \/ batch[f] # <<>> /\ AfterDrain(f) = "insert"
      BY DEF AfterDrain
    <2> QED
      BY <2>1, <2>2, OnlyMoves DEF FPCs, Holding
  <1> QED
    BY <1>1, <1>2

(* A batch goes into the rows as a whole.                                  *)
LEMMA RowsInserted ==
    ASSUME Booked, NEW f \in Flushes
    PROVE  /\ Plus(rows, Bag(batch[f])) \in [Events -> Nat]
           /\ Plus(unsure, Bag(batch[f])) \in [Events -> Nat]
           /\ \A e \in Events :
                 /\ Plus(rows, Bag(batch[f]))[e] = rows[e] + Copies(batch[f], e)
                 /\ Plus(unsure, Bag(batch[f]))[e] = unsure[e] + Copies(batch[f], e)
                 /\ unsure[e] \in Nat /\ rows[e] \in Nat /\ Copies(batch[f], e) \in Nat
                 /\ Copies(usageQueue, e) \in Nat
  <1>1. \A e : Copies(batch[f], e) \in Nat /\ Copies(usageQueue, e) \in Nat
    BY BatchIs, PlacesFinite DEF Booked
  <1> QED
    BY <1>1 DEF Plus, Bag, Booked

LEMMA InsertBooks ==
    ASSUME Booked, EventsConserved, NEW f \in Flushes, InsertBatch(f) \/ InsertUnsure(f)
    PROVE  Booked' /\ EventsConserved'
  <1> DEFINE q == IF InsertBatch(f) THEN "mirrorRead" ELSE "requeue"
  <1>1. /\ fpc[f] = "insert" /\ fpc' = [fpc EXCEPT ![f] = q]
        /\ rows' = Plus(rows, Bag(batch[f]))
        /\ unsure' = IF InsertBatch(f) THEN unsure ELSE Plus(unsure, Bag(batch[f]))
        /\ UNCHANGED <<usageQueue, batch, owed, pushed, lost, repeated>>
    BY DEF InsertBatch, InsertUnsure, GoTo, dbVars, clockVars, faultVars
  <1>2. Balanced(f, q, batch[f])
    <2> SUFFICES ASSUME NEW e \in Events
                 PROVE  unsure'[e] + Copies(batch[f], e) + Copies(usageQueue, e) + rows[e] =
                        unsure[e] + InHand(q, batch[f], e) + Copies(usageQueue, e) + rows'[e]
      BY <1>1 DEF Balanced, InHand, Holding, Copies
    <2>1. rows'[e] = rows[e] + Copies(batch[f], e)
      BY <1>1, RowsInserted
    <2>2. CASE InsertBatch(f)
      <3>1. InHand(q, batch[f], e) = 0 /\ unsure'[e] = unsure[e]
        BY <1>1, <2>2 DEF InHand, Holding
      <3> QED
        BY <2>1, <3>1, RowsInserted
    <2>3. CASE ~InsertBatch(f)
      <3>1. InHand(q, batch[f], e) = Copies(batch[f], e)
        BY <2>3 DEF InHand, Holding
      <3>2. unsure'[e] = unsure[e] + Copies(batch[f], e)
        BY <1>1, <2>3, RowsInserted
      <3> QED
        BY <2>1, <3>1, <3>2, RowsInserted
    <2> QED
      BY <2>2, <2>3
  <1>3. FlushDoes(f, q, batch[f])
    BY <1>1, <1>2, BatchIs, RowsInserted DEF FlushDoes, Booked
  <1> QED
    BY <1>3, BatchIs, FlushBooks DEF FPCs

LEMMA RequeueBooks ==
    ASSUME Booked, EventsConserved, NEW f \in Flushes, Requeue(f)
    PROVE  Booked' /\ EventsConserved'
  <1> DEFINE x == Head(batch[f])
             b == Tail(batch[f])
             q == IF Len(batch[f]) = 1 THEN "idle" ELSE "requeue"
  <1>1. batch[f] # <<>> /\ batch[f] \in Seq(Events) /\ fpc[f] = "requeue"
    BY BatchIs DEF Requeue
  <1>2. /\ x \in Events /\ b \in Seq(Events) /\ Len(b) = Len(batch[f]) - 1
        /\ Len(batch[f]) \in Nat \ {0}
    BY <1>1, HeadTailProperties, EmptySeq
  <1>3. /\ fpc' = [fpc EXCEPT ![f] = q] /\ batch' = [batch EXCEPT ![f] = b]
        /\ usageQueue' = Append(usageQueue, x)
        /\ UNCHANGED <<rows, owed, pushed, lost, unsure, repeated>>
    BY <1>1, BatchIs DEF Requeue, GoTo, dbVars, clockVars, faultVars
  <1>4. (q = "idle" <=> b = <<>>) /\ (q # "idle" => q = "requeue")
    <2>1. b = <<>> <=> Len(b) = 0
      <3> HIDE DEF b
      <3> QED
        BY <1>2, EmptySeq
    <2>2. q = "idle" <=> Len(batch[f]) = 1
      OBVIOUS
    <2>3. Len(b) = 0 <=> Len(batch[f]) = 1
      <3> HIDE DEF b
      <3> QED
        BY <1>2
    <2>4. q # "idle" => q = "requeue"
      OBVIOUS
    <2> HIDE DEF b, q
    <2> QED
      BY <2>1, <2>2, <2>3, <2>4
  <1>5. usageQueue \in Seq(Events) /\ usageQueue' \in Seq(Events)
    BY <1>2, <1>3, AppendProperties DEF Booked
  <1>6. Balanced(f, q, b)
    <2> SUFFICES ASSUME NEW e \in Events
                 PROVE  unsure[e] + Copies(batch[f], e) + Copies(usageQueue, e) + rows[e] =
                        unsure[e] + InHand(q, b, e) + Copies(usageQueue', e) + rows[e]
      BY <1>1, <1>3 DEF Balanced, InHand, Holding, Copies
    <2>1. InHand(q, b, e) = Copies(b, e)
      BY <1>4, NoCopies DEF InHand, Holding
    <2>2. Copies(batch[f], e) = Copies(b, e) + (IF x = e THEN 1 ELSE 0)
      BY <1>1, CopiesTail
    <2>3. Copies(usageQueue', e) = Copies(usageQueue, e) + (IF x = e THEN 1 ELSE 0)
      BY <1>2, <1>3, <1>5, CopiesAppend
    <2>4. /\ Copies(b, e) \in Nat /\ Copies(usageQueue, e) \in Nat
          /\ unsure[e] \in Nat /\ rows[e] \in Nat
      BY <1>2, <1>5, PlacesFinite DEF Booked
    <2> HIDE DEF x, b, q
    <2> QED
      BY <2>1, <2>2, <2>3, <2>4
  <1>7. FlushDoes(f, q, b)
    <2> HIDE DEF b, q
    <2>1. Len(b) <= FLUSH_CHUNK
      BY <1>2, BatchIs, FlushAssumption
    <2> QED
      BY <1>2, <1>3, <1>4, <1>5, <1>6, <2>1 DEF FlushDoes, Booked
  <1>8. q \in FPCs
    BY DEF FPCs
  <1> HIDE DEF b, q
  <1> QED
    BY <1>2, <1>7, <1>8, FlushBooks
-----------------------------------------------------------------------------
LEMMA FlushConserves ==
    ASSUME Booked, EventsConserved, NEW f \in Flushes, StartFlush(f) \/ FlushStep(f)
    PROVE  Booked' /\ EventsConserved'
  <1> USE DEF GoTo, clockVars, dbVars, faultVars
  <1>1. CASE StartFlush(f)
    BY <1>1, BatchIs, OnlyMoves DEF StartFlush, Holding, FPCs
  <1>2. CASE PopStatus(f)
    <2>1. UNCHANGED bookVars \/ fpc' = [fpc EXCEPT ![f] = "applyStatus"]
      BY <1>2 DEF PopStatus, bookVars
    <2>2. /\ fpc[f] = "drainStatus"
          /\ UNCHANGED <<usageQueue, rows, batch, owed, pushed, lost, unsure, repeated>>
      BY <1>2 DEF PopStatus
    <2> QED
      BY <2>1, <2>2, BatchIs, OnlyMoves, BooksUntouched DEF Holding, FPCs, Booked
  <1>3. ASSUME NEW applied \in BOOLEAN, ApplyStatus(f, applied)
        PROVE  Booked' /\ EventsConserved'
    BY <1>3, BooksUntouched DEF ApplyStatus, bookVars, Booked
  <1>4. CASE StatusesApplied(f)
    BY <1>4, BatchIs, OnlyMoves DEF StatusesApplied, Holding, FPCs
  <1>5. CASE InsertFails(f)
    BY <1>5, BatchIs, OnlyMoves DEF InsertFails, Holding, FPCs
  <1>6. ASSUME NEW k \in Keys, ReadCounter(f, k) PROVE Booked' /\ EventsConserved'
    BY <1>6, BatchIs, OnlyMoves DEF ReadCounter, Holding, FPCs
  <1>7. ASSUME NEW applied \in BOOLEAN, WriteMirror(f, applied)
        PROVE  Booked' /\ EventsConserved'
    <2>1. /\ fpc[f] = "mirrorWrite"
          /\ UNCHANGED <<usageQueue, rows, owed, pushed, lost, unsure, repeated>>
      BY <1>7 DEF WriteMirror
    <2>2. CASE todo[f] # {}
      <3>1. fpc' = [fpc EXCEPT ![f] = "mirrorRead"] /\ batch' = batch
        BY <1>7, <2>2 DEF WriteMirror
      <3> QED
        BY <2>1, <3>1, BatchIs, OnlyMoves DEF Holding, FPCs
    <2>3. CASE todo[f] = {}
      <3>1. fpc' = [fpc EXCEPT ![f] = "idle"] /\ batch' = [batch EXCEPT ![f] = <<>>]
        BY <1>7, <2>3 DEF WriteMirror
      <3>2. Balanced(f, "idle", <<>>)
        BY <2>1 DEF Balanced, InHand, Holding, Copies
      <3>3. FlushDoes(f, "idle", <<>>)
        BY <2>1, <3>1, <3>2, FlushAssumption DEF FlushDoes, Booked
      <3>4. <<>> \in Seq(Events) /\ "idle" \in FPCs
        BY EmptySeq DEF FPCs
      <3> QED
        BY <3>3, <3>4, FlushBooks
    <2> QED
      BY <2>2, <2>3
  <1> QED
    BY <1>1, <1>2, <1>3, <1>4, <1>5, <1>6, <1>7, PopBooks, InsertBooks, RequeueBooks DEF FlushStep

LEMMA PushConserves ==
    ASSUME Booked, EventsConserved, NEW x \in Events, PushEvent(x) \/ ResendPushEvent(x)
    PROVE  Booked' /\ EventsConserved'
  <1>1. /\ usageQueue \in Seq(Events) /\ usageQueue' = Append(usageQueue, x)
        /\ owed[x] > 0 /\ owed' \in {owed, [owed EXCEPT ![x] = @ - 1]}
        /\ pushed' = [pushed EXCEPT ![x] = @ + 1]
        /\ UNCHANGED <<rows, fpc, batch, lost, unsure, repeated>>
    BY DEF PushEvent, ResendPushEvent, Pushes, PushesAgain, Booked, dbVars, flushVars, faultVars
  <1>2. usageQueue' \in Seq(Events)
    BY <1>1, AppendProperties
  <1>3. Booked'
    BY <1>1, <1>2 DEF Booked
  <1>4. ASSUME NEW e \in Events
        PROVE  pushed'[e] + unsure[e] + repeated[e] =
                 Copies(usageQueue', e) + Held(e) + rows[e] + lost[e]
    <2>1. Copies(usageQueue', e) = Copies(usageQueue, e) + (IF x = e THEN 1 ELSE 0)
      BY <1>1, CopiesAppend
    <2>2. /\ pushed[e] \in Nat /\ unsure[e] \in Nat /\ rows[e] \in Nat /\ lost[e] \in Nat
          /\ repeated[e] \in Nat /\ Copies(usageQueue, e) \in Nat /\ Held(e) \in Nat
      BY PlacesFinite, HeldIs, SlotsFinite DEF Booked
    <2>3. pushed'[e] = pushed[e] + (IF x = e THEN 1 ELSE 0)
      BY <1>1 DEF Booked
    <2>4. pushed[e] + unsure[e] + repeated[e] =
             Copies(usageQueue, e) + Held(e) + rows[e] + lost[e]
      BY DEF EventsConserved
    <2>5. CASE x = e
      BY <2>1, <2>2, <2>3, <2>4, <2>5
    <2>6. CASE x # e
      BY <2>1, <2>2, <2>3, <2>4, <2>6
    <2> QED
      BY <2>5, <2>6
  <1> QED
    BY <1>1, <1>3, <1>4 DEF EventsConserved, Held, Copies, Slots

(* What the process dies with is lost, whole batches of it.                *)
LEMMA CrashConserves ==
    ASSUME Booked, EventsConserved, Crash
    PROVE  Booked' /\ EventsConserved'
  <1>1. /\ fpc' = [f \in Flushes |-> "idle"] /\ batch' = [f \in Flushes |-> <<>>]
        /\ lost' = [e \in Events |-> lost[e] + Held(e)] /\ owed' = Zero
        /\ UNCHANGED <<usageQueue, rows, pushed, unsure, repeated>>
    BY DEF Crash, Dies, dbVars
  <1>2. \A e \in Events : Held(e) \in Nat
    BY HeldIs, SlotsFinite
  <1>3. Booked'
    BY <1>1, <1>2, FlushAssumption DEF Booked, Zero, FPCs
  <1>4. ASSUME NEW e \in Events PROVE Held(e)' = 0
    <2>1. HeldSlots(fpc', batch', e) = {}
      BY <1>1 DEF HeldSlots, Slots, Holding
    <2>2. Held(e)' = Cardinality(HeldSlots(fpc', batch', e))
      BY DEF Held, HeldSlots, Holding, Slots
    <2> QED
      BY <2>1, <2>2, FS_EmptySet
  <1>5. ASSUME NEW e \in Events
        PROVE  pushed'[e] + unsure'[e] + repeated'[e] =
                 Copies(usageQueue', e) + Held(e)' + rows'[e] + lost'[e]
    <2>1. pushed[e] + unsure[e] + repeated[e] =
             Copies(usageQueue, e) + Held(e) + rows[e] + lost[e]
      BY DEF EventsConserved
    <2>2. rows[e] \in Nat /\ lost[e] \in Nat /\ Copies(usageQueue, e) \in Nat /\ Held(e) \in Nat
      BY <1>2, PlacesFinite DEF Booked
    <2>3. /\ lost'[e] = lost[e] + Held(e) /\ Held(e)' = 0 /\ rows'[e] = rows[e]
          /\ pushed'[e] = pushed[e] /\ unsure'[e] = unsure[e] /\ repeated'[e] = repeated[e]
          /\ Copies(usageQueue', e) = Copies(usageQueue, e)
      BY <1>1, <1>4
    <2> QED
      BY <2>1, <2>2, <2>3
  <1> QED
    BY <1>3, <1>5 DEF EventsConserved, Copies

(* An entry popped unseen is lost; one put back twice is there twice.      *)
LEMMA ResendConserves ==
    ASSUME Booked, EventsConserved, NEW f \in Flushes, FlushResend(f)
    PROVE  Booked' /\ EventsConserved'
  <1> USE DEF clockVars, dbVars, flushVars
  <1>0. /\ usageQueue \in Seq(Events) /\ batch[f] \in Seq(Events)
        /\ lost \in [Events -> Nat] /\ repeated \in [Events -> Nat]
    BY BatchIs DEF Booked
  <1>1. \A e \in Events :
           /\ pushed[e] \in Nat /\ unsure[e] \in Nat /\ rows[e] \in Nat /\ lost[e] \in Nat
           /\ repeated[e] \in Nat /\ Copies(usageQueue, e) \in Nat /\ Held(e) \in Nat
           /\ pushed[e] + unsure[e] + repeated[e] =
                 Copies(usageQueue, e) + Held(e) + rows[e] + lost[e]
    BY PlacesFinite, HeldIs, SlotsFinite DEF Booked, EventsConserved
  <1>2. CASE ResendPopStatus(f)
    BY <1>2, BooksUntouched DEF ResendPopStatus, bookVars, Booked
  <1>3. CASE ResendPopEvent(f)
    <2> DEFINE x == Head(usageQueue)
               q == Tail(usageQueue)
    <2>1. /\ usageQueue # <<>> /\ usageQueue' = q /\ lost' = [lost EXCEPT ![x] = lost[x] + 1]
          /\ UNCHANGED <<rows, fpc, batch, owed, pushed, unsure, repeated>>
      BY <1>3 DEF ResendPopEvent
    <2>2. x \in Events /\ q \in Seq(Events)
      BY <1>0, <2>1, HeadTailProperties
    <2>3. \A e \in Events : /\ Copies(usageQueue, e) = Copies(q, e) + (IF x = e THEN 1 ELSE 0)
                            /\ Copies(q, e) \in Nat
      BY <1>0, <2>1, <2>2, CopiesTail, PlacesFinite
    <2> HIDE DEF x, q
    <2>4. \A e \in Events : lost'[e] = lost[e] + (IF x = e THEN 1 ELSE 0)
      BY <1>0, <1>1, <2>1
    <2>5. Booked'
      <3>1. lost' \in [Events -> Nat]
        BY <1>0, <2>1, <2>2
      <3> QED
        BY <2>1, <2>2, <3>1 DEF Booked
    <2>6. ASSUME NEW e \in Events
          PROVE  pushed[e] + unsure[e] + repeated[e] = Copies(q, e) + Held(e) + rows[e] + lost'[e]
      BY <1>1, <2>3, <2>4
    <2> QED
      BY <2>1, <2>5, <2>6 DEF EventsConserved, Held, Copies, Slots
  <1>4. CASE ResendRequeue(f)
    <2> DEFINE x == Head(batch[f])
    <2>1. /\ fpc[f] = "requeue" /\ usageQueue' = Append(usageQueue, x)
          /\ repeated' = [repeated EXCEPT ![x] = repeated[x] + 1]
          /\ UNCHANGED <<rows, fpc, batch, owed, pushed, lost, unsure>>
      BY <1>4 DEF ResendRequeue
    <2>2. x \in Events
      BY <1>0, <2>1, BatchIs, HeadTailProperties
    <2>3. \A e \in Events :
             Copies(usageQueue', e) = Copies(usageQueue, e) + (IF x = e THEN 1 ELSE 0)
      BY <1>0, <2>1, <2>2, CopiesAppend
    <2> HIDE DEF x
    <2>4. \A e \in Events : repeated'[e] = repeated[e] + (IF x = e THEN 1 ELSE 0)
      BY <1>0, <1>1, <2>1
    <2>5. Booked'
      <3>1. repeated' \in [Events -> Nat]
        BY <1>0, <2>1, <2>2
      <3>2. usageQueue' \in Seq(Events)
        BY <1>0, <2>1, <2>2, AppendProperties
      <3> QED
        BY <2>1, <3>1, <3>2 DEF Booked
    <2>6. ASSUME NEW e \in Events
          PROVE  pushed[e] + unsure[e] + repeated'[e] =
                 Copies(usageQueue', e) + Held(e) + rows[e] + lost[e]
      BY <1>1, <2>3, <2>4
    <2> QED
      BY <2>1, <2>5, <2>6 DEF EventsConserved, Held, Copies, Slots
  <1> QED
    BY <1>2, <1>3, <1>4 DEF FlushResend

LEMMA NextConserves == Booked /\ EventsConserved /\ [Next]_vars => Booked' /\ EventsConserved'
  <1> SUFFICES ASSUME Booked, EventsConserved, [Next]_vars PROVE Booked' /\ EventsConserved'
    OBVIOUS
  <1> USE DEF clockVars, dbVars, flushVars, faultVars
  <1>1. ASSUME NEW k \in Keys, NEW at \in Minutes, CountUnit(k, at) \/ ResendCountUnit(k, at)
        PROVE  Booked' /\ EventsConserved'
    <2> DEFINE x == [key |-> k, at |-> at]
    <2>1. owed' \in {owed, [owed EXCEPT ![x] = owed[x] + 1]} /\ UNCHANGED bookVars
      BY <1>1 DEF CountUnit, ResendCountUnit, Counts, CountsAgain, bookVars
    <2>2. owed \in [Events -> Nat] /\ x \in Events
      BY DEF Booked, Events
    <2>3. owed' \in [Events -> Nat]
      <3> HIDE DEF x
      <3> QED
        BY <2>1, <2>2
    <2> QED
      BY <2>1, <2>3, BooksUntouched
  <1>2. ASSUME NEW k \in Keys, Deny(k) \/ DeleteKey(k) PROVE Booked' /\ EventsConserved'
    BY <1>2, BooksUntouched DEF Deny, Denies, DeleteKey, bookVars, Booked
  <1>3. CASE Tick \/ UNCHANGED vars
    BY <1>3, BooksUntouched DEF Tick, Passes, vars, bookVars, Booked
  <1> QED
    BY <1>1, <1>2, <1>3, FlushConserves, PushConserves, CrashConserves, ResendConserves DEF Next

(* However flushes overlap, fail, put back and die, and whichever rows are *)
(* deleted meanwhile: each event that was pushed is in the queue, in the   *)
(* hands of one flush, or recorded, as often as it was pushed, but for what *)
(* died with the process, what an insert wrote and denied, and what Redis  *)
(* popped or took back twice.                                              *)
THEOREM NoEventLostOrBilledTwice == Spec => []EventsConserved
  BY InitBooked, NextConserves, PTL DEF Spec
-----------------------------------------------------------------------------
(* What the types of Booked and MirrorTyped leave: the other variables, and *)
(* that a flush mirrors keys of its batch.                                 *)
RestTyped ==
    /\ statusQueue \in Seq(Keys)
    /\ lastUsed \in [Keys -> Minutes]
    /\ status \in [Keys -> Statuses]
    /\ deleted \subseteq Keys
    /\ marks \in [Flushes -> Seq(Keys)]
    /\ todo \in [Flushes -> SUBSET Keys]
    /\ units \in Nat /\ denials \in Nat /\ resends \in Nat /\ faults \in Nat
    /\ unheeded \in Nat /\ crashes \in Nat

MirrorsItsBatch ==
    \A f \in Flushes :
        /\ todo[f] \subseteq KeysOf(batch[f])
        /\ fpc[f] \notin {"mirrorRead", "mirrorWrite"} => todo[f] = {}
        /\ fpc[f] = "mirrorWrite" => read[f] # Nothing /\ read[f].key \in KeysOf(batch[f])
        /\ fpc[f] # "mirrorWrite" => read[f] = Nothing

FlushTyped == Booked /\ MirrorTyped /\ RestTyped /\ MirrorsItsBatch

LEMMA TypesAreThese == FlushTyped => TypeOK
  BY DEF FlushTyped, Booked, MirrorTyped, RestTyped, MirrorsItsBatch, TypeOK

LEMMA InitFlushTyped == Init => FlushTyped
  <1> SUFFICES ASSUME Init PROVE FlushTyped
    OBVIOUS
  <1>1. RestTyped
    BY FlushAssumption DEF Init, FeedInit, RestTyped, Minutes, Statuses
  <1>2. MirrorsItsBatch
    BY DEF Init, FeedInit, MirrorsItsBatch, KeysOf
  <1> QED
    BY <1>1, <1>2, InitBooked, InitMirrorInv DEF FlushTyped, MirrorInv

(* Of a set of minutes that is not empty, one is the last.                 *)
LEMMA LastMinute ==
    ASSUME NEW T \in SUBSET Minutes, T # {}
    PROVE  \E t \in T : \A u \in T : u <= t
  <1> DEFINE After(t) == {u \in T : u > t}
             Afters == {After(t) : t \in T}
             R == StrictSubsetOrdering(Minutes)
  <1>1. IsFiniteSet(Minutes)
    BY FlushAssumption, FS_Interval DEF Minutes
  <1>2. \A t \in T : After(t) \subseteq Minutes
    OBVIOUS
  <1>3. IsWellFoundedOn(R, FiniteSubsetsOf(Minutes))
    BY FS_StrictSubsetOrderingWellFounded
  <1>4. Afters \subseteq FiniteSubsetsOf(Minutes) /\ Afters # {}
    <2>1. FiniteSubsetsOf(Minutes) = SUBSET Minutes
      BY <1>1, FS_FiniteSubsetsOfFinite
    <2>2. \A A \in Afters : A \subseteq Minutes
      BY <1>2
    <2>3. PICK t \in T : TRUE
      OBVIOUS
    <2>4. After(t) \in Afters
      BY <2>3
    <2> HIDE DEF Afters
    <2> QED
      BY <2>1, <2>2, <2>4
  <1>5. PICK A \in Afters : \A B \in Afters : ~(<<B, A>> \in R)
    <2> HIDE DEF Afters, R
    <2> QED
      BY <1>3, <1>4, WFMin
  <1>6. PICK t \in T : A = After(t)
    BY <1>5
  <1>7. ASSUME NEW u \in T, ~(u <= t) PROVE FALSE
    <2>1. u \in Int /\ t \in Int /\ u > t /\ \A v \in T : v \in Int
      BY <1>7, FlushAssumption DEF Minutes
    <2>2. After(u) \subseteq After(t) /\ u \in After(t) /\ u \notin After(u)
      <3>1. ASSUME NEW v \in After(u) PROVE v \in After(t)
        <4>1. v \in T /\ v \in Int /\ v > u
          BY <2>1, <3>1
        <4> QED
          BY <2>1, <4>1
      <3>2. ~(u > u)
        BY <2>1
      <3> QED
        BY <2>1, <3>1, <3>2
    <2>3. <<After(u), After(t)>> \in R
      BY <1>2, <2>2 DEF StrictSubsetOrdering
    <2> QED
      BY <1>5, <1>6, <2>3
  <1> QED
    BY <1>7

(* The last use of a key a flush mirrors is that of one of its events.     *)
LEMMA LastUseIs ==
    ASSUME Booked, NEW f \in Flushes, NEW k \in KeysOf(batch[f])
    PROVE  LastUse(f, k) \in Minutes /\ [key |-> k, at |-> LastUse(f, k)] \in BatchEvents(f)
  <1> DEFINE T == {t \in Minutes : [key |-> k, at |-> t] \in BatchEvents(f)}
  <1>1. BatchEvents(f) \subseteq Events
    BY BatchIs DEF BatchEvents
  <1>2. \A e \in BatchEvents(f) : e = [key |-> e.key, at |-> e.at] /\ e.at \in Minutes
    BY <1>1 DEF Events
  <1>3. T # {}
    <2>1. PICK e \in BatchEvents(f) : e.key = k
      BY DEF KeysOf, BatchEvents
    <2> QED
      BY <1>2, <2>1
  <1>4. PICK t \in T : \A u \in T : u <= t
    BY <1>3, LastMinute
  <1>5. \A e \in BatchEvents(f) : e.key = k => e.at \in T
    BY <1>2
  <1>6. \E u \in Minutes : /\ [key |-> k, at |-> u] \in BatchEvents(f)
                           /\ \A e \in BatchEvents(f) : e.key = k => e.at <= u
    BY <1>4, <1>5
  <1> QED
    BY <1>6 DEF LastUse

(* A flush that mirrors nothing may change what it holds.                  *)
LEMMA NotMirroring ==
    ASSUME Booked, RestTyped, MirrorsItsBatch, NEW f \in Flushes,
           fpc[f] \notin {"mirrorRead", "mirrorWrite"},
           fpc'[f] \notin {"mirrorRead", "mirrorWrite"}, UNCHANGED <<todo, read>>,
           \A g \in Flushes \ {f} : fpc'[g] = fpc[g] /\ batch'[g] = batch[g]
    PROVE  MirrorsItsBatch'
  <1> SUFFICES ASSUME NEW g \in Flushes
               PROVE  /\ todo[g] \subseteq KeysOf(batch'[g])
                      /\ fpc'[g] \notin {"mirrorRead", "mirrorWrite"} => todo[g] = {}
                      /\ fpc'[g] = "mirrorWrite" =>
                            read[g] # Nothing /\ read[g].key \in KeysOf(batch'[g])
                      /\ fpc'[g] # "mirrorWrite" => read[g] = Nothing
    BY DEF MirrorsItsBatch, KeysOf
  <1>1. CASE g = f
    BY <1>1 DEF MirrorsItsBatch
  <1>2. CASE g # f
    BY <1>2 DEF MirrorsItsBatch
  <1> QED
    BY <1>1, <1>2

LEMMA RestUntouched ==
    ASSUME RestTyped, MirrorsItsBatch,
           UNCHANGED <<fpc, batch, todo, read>>,
           UNCHANGED <<lastUsed, status, deleted, marks>>, statusQueue' \in Seq(Keys),
           units' \in Nat, denials' \in Nat, resends' \in Nat,
           UNCHANGED <<faults, unheeded, crashes>>
    PROVE  RestTyped' /\ MirrorsItsBatch'
  <1>1. RestTyped'
    BY DEF RestTyped
  <1>2. MirrorsItsBatch'
    BY DEF MirrorsItsBatch, KeysOf
  <1> QED
    BY <1>1, <1>2

LEMMA StatusStepTyped ==
    ASSUME FlushTyped, NEW f \in Flushes, NEW applied \in BOOLEAN,
           PopStatus(f) \/ ApplyStatus(f, applied) \/ StatusesApplied(f) \/ StartFlush(f)
    PROVE  RestTyped' /\ MirrorsItsBatch'
  <1> USE DEF GoTo, clockVars, dbVars, faultVars
  <1>1. /\ fpc[f] \in {"idle", "drainStatus", "applyStatus"}
        /\ UNCHANGED <<todo, read, batch, lastUsed, deleted, units, denials, resends, faults,
                       crashes>>
    BY DEF PopStatus, ApplyStatus, StatusesApplied, StartFlush
  <1>2. \/ fpc' = fpc
        \/ fpc' = [fpc EXCEPT ![f] = "drainStatus"]
        \/ fpc' = [fpc EXCEPT ![f] = "applyStatus"]
        \/ fpc' = [fpc EXCEPT ![f] = "drainUsage"]
    BY DEF PopStatus, ApplyStatus, StatusesApplied, StartFlush
  <1>3. MirrorsItsBatch'
    <2>1. /\ fpc'[f] \notin {"mirrorRead", "mirrorWrite"}
          /\ \A g \in Flushes \ {f} : fpc'[g] = fpc[g]
      BY <1>1, <1>2 DEF FlushTyped, Booked
    <2> QED
      BY <1>1, <2>1, NotMirroring DEF FlushTyped
  <1>4. RestTyped'
    <2>1. CASE PopStatus(f)
      <3>1. CASE statusQueue # <<>> /\ Len(marks[f]) < FLUSH_CHUNK
        <4> DEFINE m == Append(marks[f], Head(statusQueue))
        <4>1. /\ marks' = [marks EXCEPT ![f] = m] /\ statusQueue' = Tail(statusQueue)
              /\ UNCHANGED <<status, unheeded>>
          BY <2>1, <3>1 DEF PopStatus
        <4>2. Head(statusQueue) \in Keys /\ Tail(statusQueue) \in Seq(Keys)
          BY <3>1, HeadTailProperties DEF FlushTyped, RestTyped
        <4>3. m \in Seq(Keys)
          BY <4>2, AppendProperties DEF FlushTyped, RestTyped
        <4> HIDE DEF m
        <4> QED
          BY <1>1, <4>1, <4>2, <4>3 DEF FlushTyped, RestTyped
      <3>2. CASE ~(statusQueue # <<>> /\ Len(marks[f]) < FLUSH_CHUNK)
        BY <1>1, <2>1, <3>2 DEF PopStatus, FlushTyped, RestTyped
      <3> QED
        BY <3>1, <3>2
    <2>2. CASE ApplyStatus(f, applied)
      <3> DEFINE k == Head(marks[f])
                 m == Tail(marks[f])
      <3>1. marks[f] \in Seq(Keys) /\ marks[f] # <<>>
        BY <2>2 DEF ApplyStatus, FlushTyped, RestTyped
      <3>2. k \in Keys /\ m \in Seq(Keys)
        BY <3>1, HeadTailProperties
      <3>3. /\ marks' = [marks EXCEPT ![f] = m]
            /\ status' = status \/ status' = [status EXCEPT ![k] = "exhausted"]
            /\ unheeded' = unheeded \/ unheeded' = unheeded + 1
            /\ UNCHANGED statusQueue
        BY <2>2 DEF ApplyStatus
      <3> HIDE DEF k, m
      <3> QED
        BY <1>1, <3>2, <3>3 DEF FlushTyped, RestTyped, Statuses
    <2>3. CASE StatusesApplied(f) \/ StartFlush(f)
      BY <1>1, <2>3 DEF StatusesApplied, StartFlush, FlushTyped, RestTyped
    <2> QED
      BY <2>1, <2>2, <2>3
  <1> QED
    BY <1>3, <1>4

LEMMA UsageStepTyped ==
    ASSUME FlushTyped, NEW f \in Flushes,
           PopEvent(f) \/ InsertFails(f) \/ InsertUnsure(f) \/ Requeue(f)
    PROVE  RestTyped' /\ MirrorsItsBatch'
  <1> USE DEF GoTo, clockVars, dbVars, faultVars
  <1>1. /\ fpc[f] \in {"drainUsage", "insert", "requeue"}
        /\ UNCHANGED <<statusQueue, marks, todo, read, lastUsed, status, deleted, units, denials,
                       resends, unheeded, crashes>>
        /\ faults' = faults \/ faults' = faults + 1
    BY DEF PopEvent, InsertFails, InsertUnsure, Requeue
  <1>2. /\ \/ fpc' = fpc
           \/ fpc' = [fpc EXCEPT ![f] = "idle"]
           \/ fpc' = [fpc EXCEPT ![f] = "insert"]
           \/ fpc' = [fpc EXCEPT ![f] = "requeue"]
        /\ \/ batch' = batch
           \/ batch' = [batch EXCEPT ![f] = Append(batch[f], Head(usageQueue))]
           \/ batch' = [batch EXCEPT ![f] = Tail(batch[f])]
    BY DEF PopEvent, InsertFails, InsertUnsure, Requeue, AfterDrain
  <1>3. /\ fpc'[f] \notin {"mirrorRead", "mirrorWrite"}
        /\ \A g \in Flushes \ {f} : fpc'[g] = fpc[g] /\ batch'[g] = batch[g]
    <2>1. fpc \in [Flushes -> FPCs] /\ batch \in [Flushes -> Seq(Events)]
      BY DEF FlushTyped, Booked
    <2> QED
      BY <1>1, <1>2, <2>1
  <1>4. MirrorsItsBatch'
    BY <1>1, <1>3, NotMirroring DEF FlushTyped
  <1>5. RestTyped'
    BY <1>1 DEF FlushTyped, RestTyped
  <1> QED
    BY <1>4, <1>5

LEMMA MirrorStepTyped ==
    ASSUME FlushTyped, NEW f \in Flushes, NEW applied \in BOOLEAN, NEW k \in Keys,
           InsertBatch(f) \/ ReadCounter(f, k) \/ WriteMirror(f, applied)
    PROVE  RestTyped' /\ MirrorsItsBatch'
  <1> USE DEF GoTo, clockVars, dbVars, faultVars
  <1>0. /\ fpc \in [Flushes -> FPCs] /\ batch \in [Flushes -> Seq(Events)]
        /\ todo \in [Flushes -> SUBSET Keys]
        /\ read \in [Flushes -> [key : Keys, count : Nat] \cup {Nothing}]
    BY DEF FlushTyped, Booked, RestTyped, MirrorTyped
  <1>1. CASE InsertBatch(f)
    <2>1. KeysOf(batch[f]) \subseteq Keys
      <3>1. \A n \in DOMAIN batch[f] : batch[f][n] \in Events
        BY <1>0
      <3>2. \A e \in Events : e.key \in Keys
        BY DEF Events
      <3> QED
        BY <3>1, <3>2 DEF KeysOf
    <2>2. /\ fpc[f] = "insert" /\ fpc' = [fpc EXCEPT ![f] = "mirrorRead"]
          /\ todo' = [todo EXCEPT ![f] = KeysOf(batch[f])]
          /\ UNCHANGED <<batch, read, statusQueue, lastUsed, status, deleted, marks, units,
                         denials, resends, faults, unheeded, crashes>>
      BY <1>1 DEF InsertBatch
    <2>3. RestTyped'
      BY <2>1, <2>2 DEF FlushTyped, RestTyped
    <2>4. MirrorsItsBatch'
      BY <1>0, <2>2 DEF FlushTyped, MirrorsItsBatch, KeysOf
    <2> QED
      BY <2>3, <2>4
  <1>2. CASE ReadCounter(f, k)
    <2> DEFINE r == [key |-> k, count |-> counter[<<k, MirrorMonth(f)>>]]
    <2>1. /\ fpc[f] = "mirrorRead" /\ fpc' = [fpc EXCEPT ![f] = "mirrorWrite"]
          /\ todo' = [todo EXCEPT ![f] = @ \ {k}] /\ read' = [read EXCEPT ![f] = r]
          /\ k \in todo[f]
          /\ UNCHANGED <<batch, statusQueue, lastUsed, status, deleted, marks, units,
                         denials, resends, faults, unheeded, crashes>>
      BY <1>2 DEF ReadCounter
    <2>2. r # Nothing /\ r.key = k
      BY DEF Nothing
    <2>3. RestTyped'
      BY <2>1 DEF FlushTyped, RestTyped
    <2>4. k \in KeysOf(batch[f])
      BY <2>1 DEF FlushTyped, MirrorsItsBatch
    <2> HIDE DEF r
    <2>5. ASSUME NEW g \in Flushes
          PROVE  /\ todo'[g] \subseteq KeysOf(batch[g])
                 /\ fpc'[g] \notin {"mirrorRead", "mirrorWrite"} => todo'[g] = {}
                 /\ fpc'[g] = "mirrorWrite" =>
                       read'[g] # Nothing /\ read'[g].key \in KeysOf(batch[g])
                 /\ fpc'[g] # "mirrorWrite" => read'[g] = Nothing
      <3>1. CASE g = f
        BY <1>0, <2>1, <2>2, <2>4, <3>1 DEF FlushTyped, MirrorsItsBatch
      <3>2. CASE g # f
        BY <1>0, <2>1, <3>2 DEF FlushTyped, MirrorsItsBatch
      <3> QED
        BY <3>1, <3>2
    <2>6. MirrorsItsBatch'
      BY <2>1, <2>5 DEF MirrorsItsBatch, KeysOf
    <2> QED
      BY <2>3, <2>6
  <1>3. CASE WriteMirror(f, applied)
    <2> DEFINE j == read[f].key
    <2>1. /\ fpc[f] = "mirrorWrite" /\ read' = [read EXCEPT ![f] = Nothing]
          /\ lastUsed' = lastUsed \/ lastUsed' = [lastUsed EXCEPT ![j] = LastUse(f, j)]
          /\ unheeded' = unheeded \/ unheeded' = unheeded + 1
          /\ UNCHANGED <<todo, statusQueue, status, deleted, marks, units, denials, resends,
                         faults, crashes>>
      BY <1>3 DEF WriteMirror
    <2>2. \/ /\ todo[f] = {} /\ fpc' = [fpc EXCEPT ![f] = "idle"]
             /\ batch' = [batch EXCEPT ![f] = <<>>]
          \/ fpc' = [fpc EXCEPT ![f] = "mirrorRead"] /\ batch' = batch
      BY <1>3 DEF WriteMirror
    <2>3. j \in KeysOf(batch[f])
      BY <2>1 DEF FlushTyped, MirrorsItsBatch
    <2>4. LastUse(f, j) \in Minutes
      BY <2>3, LastUseIs DEF FlushTyped
    <2>5. RestTyped'
      <3> HIDE DEF j
      <3>1. lastUsed' \in [Keys -> Minutes]
        BY <2>1, <2>4 DEF FlushTyped, RestTyped
      <3>2. unheeded' \in Nat
        BY <2>1 DEF FlushTyped, RestTyped
      <3> QED
        BY <2>1, <3>1, <3>2 DEF FlushTyped, RestTyped
    <2>6. ASSUME NEW g \in Flushes
          PROVE  /\ todo[g] \subseteq KeysOf(batch'[g])
                 /\ fpc'[g] \notin {"mirrorRead", "mirrorWrite"} => todo[g] = {}
                 /\ fpc'[g] = "mirrorWrite" =>
                       read'[g] # Nothing /\ read'[g].key \in KeysOf(batch'[g])
                 /\ fpc'[g] # "mirrorWrite" => read'[g] = Nothing
      <3>1. CASE g = f
        BY <1>0, <2>1, <2>2, <3>1 DEF FlushTyped, MirrorsItsBatch
      <3>2. CASE g # f
        BY <1>0, <2>1, <2>2, <3>2 DEF FlushTyped, MirrorsItsBatch
      <3> QED
        BY <3>1, <3>2
    <2>7. MirrorsItsBatch'
      BY <2>1, <2>6 DEF MirrorsItsBatch, KeysOf
    <2> QED
      BY <2>5, <2>7
  <1> QED
    BY <1>1, <1>2, <1>3

LEMMA NextFlushTyped ==
    FlushTyped /\ [Next]_vars => RestTyped' /\ MirrorsItsBatch'
  <1> SUFFICES ASSUME FlushTyped, [Next]_vars PROVE RestTyped' /\ MirrorsItsBatch'
    OBVIOUS
  <1>1. RestTyped /\ MirrorsItsBatch
    BY DEF FlushTyped
  <1>2. ASSUME NEW f \in Flushes, StartFlush(f) \/ FlushStep(f)
        PROVE  RestTyped' /\ MirrorsItsBatch'
    <2>1. ASSUME NEW applied \in BOOLEAN,
                 PopStatus(f) \/ ApplyStatus(f, applied) \/ StatusesApplied(f) \/ StartFlush(f)
          PROVE  RestTyped' /\ MirrorsItsBatch'
      BY <2>1, StatusStepTyped
    <2>2. CASE PopEvent(f) \/ InsertFails(f) \/ InsertUnsure(f) \/ Requeue(f)
      BY <2>2, UsageStepTyped
    <2>3. ASSUME NEW k \in Keys, ReadCounter(f, k)
          PROVE  RestTyped' /\ MirrorsItsBatch'
      BY <2>3, MirrorStepTyped
    <2>4. ASSUME NEW applied \in BOOLEAN, InsertBatch(f) \/ WriteMirror(f, applied), Keys # {}
          PROVE  RestTyped' /\ MirrorsItsBatch'
      BY <2>4, MirrorStepTyped
    <2>5. InsertBatch(f) \/ (\E applied \in BOOLEAN : WriteMirror(f, applied)) => Keys # {}
      <3>1. fpc[f] \in {"insert", "mirrorWrite"} => batch[f] # <<>>
        BY BatchIs DEF FlushTyped
      <3>2. batch[f] # <<>> => Events # {}
        BY BatchIs, HeadTailProperties DEF FlushTyped
      <3>3. Events # {} => Keys # {}
        BY DEF Events
      <3> QED
        BY <3>1, <3>2, <3>3 DEF InsertBatch, WriteMirror
    <2> QED
      BY <1>2, <2>1, <2>2, <2>3, <2>4, <2>5 DEF FlushStep
  <1>3. ASSUME NEW k \in Keys,
               Deny(k) \/ \E at \in Minutes : CountUnit(k, at) \/ ResendCountUnit(k, at)
        PROVE  RestTyped' /\ MirrorsItsBatch'
    <2> USE DEF Counts, CountsAgain, Denies
    <2>1. statusQueue' = statusQueue \/ statusQueue' = Append(statusQueue, k)
      BY <1>3 DEF CountUnit, ResendCountUnit, Deny
    <2>2. statusQueue' \in Seq(Keys)
      <3>1. statusQueue \in Seq(Keys)
        BY <1>1 DEF RestTyped
      <3>2. Append(statusQueue, k) \in Seq(Keys)
        BY <3>1, AppendProperties
      <3> QED
        BY <2>1, <3>1, <3>2
    <2>3. units' \in Nat /\ denials' \in Nat /\ resends' \in Nat
      <3>1. /\ units' \in {units, units + 1} /\ denials' \in {denials, denials + 1}
            /\ resends' \in {resends, resends + 1}
        BY <1>3 DEF CountUnit, ResendCountUnit, Deny, clockVars, faultVars
      <3> QED
        BY <1>1, <3>1 DEF RestTyped
    <2>4. UNCHANGED <<fpc, batch, todo, read, lastUsed, status, deleted, marks, faults, unheeded,
                      crashes>>
      BY <1>3 DEF CountUnit, ResendCountUnit, Deny, dbVars, flushVars, faultVars
    <2> QED
      BY <1>1, <2>2, <2>3, <2>4, RestUntouched
  <1>4. ASSUME NEW k \in Keys, DeleteKey(k) PROVE RestTyped' /\ MirrorsItsBatch'
    <2>1. /\ deleted' = deleted \cup {k}
          /\ UNCHANGED <<fpc, batch, todo, read, statusQueue, lastUsed, status, marks, units,
                         denials, resends, faults, unheeded, crashes>>
      BY <1>4 DEF DeleteKey, clockVars, flushVars, faultVars
    <2>2. RestTyped'
      BY <1>1, <2>1 DEF RestTyped
    <2>3. MirrorsItsBatch'
      BY <1>1, <2>1 DEF MirrorsItsBatch, KeysOf
    <2> QED
      BY <2>2, <2>3
  <1>5. ASSUME \/ \E e \in Events : PushEvent(e) \/ ResendPushEvent(e)
               \/ Tick
               \/ UNCHANGED vars
        PROVE  RestTyped' /\ MirrorsItsBatch'
    BY <1>1, <1>5, RestUntouched
       DEF PushEvent, ResendPushEvent, Pushes, PushesAgain, Tick, Passes, vars, RestTyped, clockVars,
           dbVars, flushVars, faultVars
  <1>6. CASE Crash
    <2>1. /\ fpc' = [f \in Flushes |-> "idle"] /\ marks' = [f \in Flushes |-> <<>>]
          /\ batch' = [f \in Flushes |-> <<>>] /\ todo' = [f \in Flushes |-> {}]
          /\ read' = [f \in Flushes |-> Nothing] /\ crashes' = crashes + 1
          /\ UNCHANGED <<statusQueue, lastUsed, status, deleted, units, denials, resends, faults,
                         unheeded>>
      BY <1>6 DEF Crash, Dies, dbVars
    <2> QED
      BY <1>1, <2>1 DEF RestTyped, MirrorsItsBatch, KeysOf
  <1>7. ASSUME NEW f \in Flushes, FlushResend(f) PROVE RestTyped' /\ MirrorsItsBatch'
    <2>1. statusQueue' \in Seq(Keys)
      <3>1. statusQueue \in Seq(Keys)
        BY <1>1 DEF RestTyped
      <3>2. statusQueue # <<>> => Tail(statusQueue) \in Seq(Keys)
        BY <3>1, HeadTailProperties
      <3> QED
        BY <1>7, <3>1, <3>2 DEF FlushResend, ResendPopStatus, ResendPopEvent, ResendRequeue
    <2>2. /\ units' \in Nat /\ denials' \in Nat /\ resends' \in Nat
          /\ UNCHANGED <<fpc, batch, todo, read, lastUsed, status, deleted, marks, faults,
                         unheeded, crashes>>
      BY <1>1, <1>7 DEF FlushResend, ResendPopStatus, ResendPopEvent, ResendRequeue,
                        RestTyped, clockVars, dbVars, flushVars
    <2> QED
      BY <1>1, <2>1, <2>2, RestUntouched
  <1> QED
    BY <1>2, <1>3, <1>4, <1>5, <1>6, <1>7 DEF Next

(* Whatever overlaps, fails and dies: types; a flush inserts and puts back *)
(* what is not empty, and writes a mirror only with a counter it has read. *)
THEOREM TypeCorrect == Spec => []TypeOK
  <1>1. Spec => [](MirrorInv /\ Booked /\ EventsConserved)
    BY InitMirrorInv, NextMirrorInv, InitBooked, NextConserves, PTL DEF Spec
  <1>2. Init => RestTyped /\ MirrorsItsBatch
    BY InitFlushTyped DEF FlushTyped
  <1>3. /\ MirrorInv /\ Booked /\ RestTyped /\ MirrorsItsBatch /\ [Next]_vars
        => RestTyped' /\ MirrorsItsBatch'
    BY NextFlushTyped DEF FlushTyped, MirrorInv
  <1>4. MirrorInv /\ Booked /\ RestTyped /\ MirrorsItsBatch => TypeOK
    BY TypesAreThese DEF FlushTyped, MirrorInv
  <1> QED
    BY <1>1, <1>2, <1>3, <1>4, PTL DEF Spec
-----------------------------------------------------------------------------
(* What waits, in the terms of UsageLedger, follows from the books: it     *)
(* changes only when something is pushed, recorded or lost.                *)
Waiting == [e \in Events |-> Copies(usageQueue, e) + Held(e)]

LEMMA WaitingIs ==
    ASSUME Booked, EventsConserved, NEW e \in Events
    PROVE  /\ Waiting[e] \in Nat /\ Held(e) \in Nat /\ Copies(usageQueue, e) \in Nat
           /\ Waiting[e] = Copies(usageQueue, e) + Held(e)
           /\ Waiting[e] + rows[e] + lost[e] = pushed[e] + unsure[e] + repeated[e]
           /\ pushed[e] \in Nat /\ unsure[e] \in Nat /\ repeated[e] \in Nat
           /\ rows[e] \in Nat /\ lost[e] \in Nat
  <1>1. Held(e) \in Nat /\ Copies(usageQueue, e) \in Nat
    BY HeldIs, SlotsFinite, PlacesFinite DEF Booked
  <1>2. /\ pushed[e] \in Nat /\ unsure[e] \in Nat /\ repeated[e] \in Nat
        /\ rows[e] \in Nat /\ lost[e] \in Nat
    BY DEF Booked
  <1>3. pushed[e] + unsure[e] + repeated[e] = Copies(usageQueue, e) + Held(e) + rows[e] + lost[e]
    BY DEF EventsConserved
  <1> QED
    BY <1>1, <1>2, <1>3 DEF Waiting

(* The same of the next state.                                             *)
LEMMA WaitingThen ==
    ASSUME Booked', EventsConserved', NEW e \in Events
    PROVE  /\ Waiting'[e] \in Nat
           /\ Waiting'[e] + rows'[e] + lost'[e] = pushed'[e] + unsure'[e] + repeated'[e]
           /\ pushed'[e] \in Nat /\ unsure'[e] \in Nat /\ repeated'[e] \in Nat
           /\ rows'[e] \in Nat /\ lost'[e] \in Nat
  <1>1. usageQueue' \in Seq(Events)
    BY DEF Booked
  <1>2. /\ Copies(usageQueue', e) \in Nat
        /\ Cardinality(HeldSlots(fpc', batch', e)) \in Nat
    BY <1>1, PlacesFinite, SlotsFinite
  <1>3. Held(e)' = Cardinality(HeldSlots(fpc', batch', e))
    BY DEF Held, HeldSlots, Holding, Slots
  <1>4. /\ pushed'[e] \in Nat /\ unsure'[e] \in Nat /\ repeated'[e] \in Nat
        /\ rows'[e] \in Nat /\ lost'[e] \in Nat
    BY DEF Booked
  <1>5. pushed'[e] + unsure'[e] + repeated'[e] =
             Copies(usageQueue', e) + Held(e)' + rows'[e] + lost'[e]
    BY DEF EventsConserved, Copies
  <1>6. Waiting'[e] = Copies(usageQueue', e) + Held(e)'
    BY DEF Waiting, Copies
  <1> QED
    BY <1>2, <1>3, <1>4, <1>5, <1>6

LEMMA SameWaiting ==
    ASSUME Booked, EventsConserved, Booked', EventsConserved',
           UNCHANGED <<pushed, unsure, repeated, rows, lost>>
    PROVE  UNCHANGED <<pushed, Waiting, rows>>
  <1>1. ASSUME NEW e \in Events PROVE Waiting'[e] = Waiting[e]
    <2>1. /\ Waiting[e] \in Nat
          /\ Waiting[e] + rows[e] + lost[e] = pushed[e] + unsure[e] + repeated[e]
          /\ pushed[e] \in Nat /\ unsure[e] \in Nat /\ repeated[e] \in Nat
          /\ rows[e] \in Nat /\ lost[e] \in Nat
      BY WaitingIs
    <2>2. /\ Waiting'[e] \in Nat
          /\ Waiting'[e] + rows[e] + lost[e] = pushed[e] + unsure[e] + repeated[e]
      BY WaitingThen
    <2> QED
      BY <2>1, <2>2
  <1>2. Waiting' = Waiting
    BY <1>1 DEF Waiting
  <1> QED
    BY <1>2

LedgerStep == Ledger!Next \/ UNCHANGED <<pushed, Waiting, rows>>

LEMMA PushAccepts ==
    ASSUME Booked, EventsConserved, Booked', EventsConserved', NEW x \in Events,
           PushEvent(x) \/ ResendPushEvent(x)
    PROVE  LedgerStep
  <1>1. pushed' = [pushed EXCEPT ![x] = @ + 1] /\ UNCHANGED <<unsure, repeated, rows, lost>>
    BY DEF PushEvent, ResendPushEvent, dbVars, faultVars
  <1>2. ASSUME NEW e \in Events
        PROVE  Waiting'[e] = IF e = x THEN Waiting[e] + 1 ELSE Waiting[e]
    <2>1. /\ Waiting[e] \in Nat
          /\ Waiting[e] + rows[e] + lost[e] = pushed[e] + unsure[e] + repeated[e]
          /\ pushed[e] \in Nat /\ unsure[e] \in Nat /\ repeated[e] \in Nat
          /\ rows[e] \in Nat /\ lost[e] \in Nat
      BY WaitingIs
    <2>2. /\ Waiting'[e] \in Nat
          /\ Waiting'[e] + rows[e] + lost[e] = pushed'[e] + unsure[e] + repeated[e]
      BY <1>1, WaitingThen
    <2>3. pushed'[e] = IF e = x THEN pushed[e] + 1 ELSE pushed[e]
      BY <1>1 DEF Booked
    <2> QED
      BY <2>1, <2>2, <2>3
  <1>3. Waiting' = [Waiting EXCEPT ![x] = @ + 1]
    BY <1>2 DEF Waiting
  <1>4. Ledger!Accept(x)
    BY <1>1, <1>3 DEF Ledger!Accept, Waiting
  <1> QED
    BY <1>4 DEF LedgerStep, Ledger!Next

LEMMA InsertRecords ==
    ASSUME Booked, EventsConserved, Booked', EventsConserved',
           NEW f \in Flushes, InsertBatch(f)
    PROVE  LedgerStep
  <1>1. /\ rows' = Plus(rows, Bag(batch[f])) /\ fpc[f] = "insert"
        /\ UNCHANGED <<pushed, unsure, repeated, lost>>
    BY DEF InsertBatch, clockVars, faultVars
  <1>2. ASSUME NEW e \in Events
        PROVE  /\ rows'[e] >= rows[e] /\ Waiting'[e] >= 0
               /\ rows'[e] + Waiting'[e] = rows[e] + Waiting[e]
    <2>1. /\ Waiting[e] \in Nat
          /\ Waiting[e] + rows[e] + lost[e] = pushed[e] + unsure[e] + repeated[e]
          /\ pushed[e] \in Nat /\ unsure[e] \in Nat /\ repeated[e] \in Nat
          /\ rows[e] \in Nat /\ lost[e] \in Nat
      BY WaitingIs
    <2>2. /\ Waiting'[e] \in Nat
          /\ Waiting'[e] + rows'[e] + lost[e] = pushed[e] + unsure[e] + repeated[e]
          /\ rows'[e] \in Nat
      BY <1>1, WaitingThen
    <2>3. rows'[e] = rows[e] + Copies(batch[f], e) /\ Copies(batch[f], e) \in Nat
      BY <1>1, RowsInserted
    <2> QED
      BY <2>1, <2>2, <2>3
  <1>3. rows' # rows
    <2> DEFINE x == Head(batch[f])
    <2>1. batch[f] \in Seq(Events) /\ batch[f] # <<>>
      BY <1>1, BatchIs
    <2>2. x \in Events /\ Tail(batch[f]) \in Seq(Events)
      BY <2>1, HeadTailProperties
    <2>3. Copies(batch[f], x) = Copies(Tail(batch[f]), x) + 1 /\ Copies(Tail(batch[f]), x) \in Nat
      BY <2>1, <2>2, CopiesTail, PlacesFinite
    <2>4. rows'[x] = rows[x] + Copies(batch[f], x) /\ rows[x] \in Nat
      BY <1>1, <2>2, RowsInserted
    <2> HIDE DEF x
    <2> QED
      BY <2>3, <2>4
  <1>4. Ledger!Record
    BY <1>1, <1>2, <1>3 DEF Ledger!Record, Waiting
  <1> QED
    BY <1>4 DEF LedgerStep, Ledger!Next

LEMMA UnsureRepeats ==
    ASSUME Booked, EventsConserved, Booked', EventsConserved',
           NEW f \in Flushes, InsertUnsure(f), faults \in Nat
    PROVE  LedgerStep
  <1>1. /\ rows' = Plus(rows, Bag(batch[f])) /\ unsure' = Plus(unsure, Bag(batch[f]))
        /\ fpc[f] = "insert" /\ MaxFaults > 0 /\ UNCHANGED <<pushed, lost, repeated>>
    BY FlushAssumption DEF InsertUnsure, clockVars
  <1>2. ASSUME NEW e \in Events
        PROVE  /\ Waiting[e] \in Nat /\ rows[e] \in Nat /\ rows'[e] \in Nat
               /\ Waiting'[e] = Waiting[e]
               /\ rows'[e] >= rows[e] /\ rows'[e] <= rows[e] + Waiting[e]
    <2>1. /\ Waiting[e] \in Nat
          /\ Waiting[e] + rows[e] + lost[e] = pushed[e] + unsure[e] + repeated[e]
          /\ pushed[e] \in Nat /\ unsure[e] \in Nat /\ repeated[e] \in Nat
          /\ rows[e] \in Nat /\ lost[e] \in Nat
          /\ Waiting[e] = Copies(usageQueue, e) + Held(e)
          /\ Copies(usageQueue, e) \in Nat /\ Held(e) \in Nat
      BY WaitingIs
    <2>2. /\ Waiting'[e] \in Nat
          /\ Waiting'[e] + rows'[e] + lost[e] = pushed[e] + unsure'[e] + repeated[e]
      BY <1>1, WaitingThen
    <2>3. /\ rows'[e] = rows[e] + Copies(batch[f], e) /\ Copies(batch[f], e) \in Nat
          /\ unsure'[e] = unsure[e] + Copies(batch[f], e)
      BY <1>1, RowsInserted
    <2>4. Copies(batch[f], e) <= Held(e)
      <3>1. batch[f] \in Seq(Events) /\ Len(batch[f]) <= FLUSH_CHUNK
        BY BatchIs
      <3>2. /\ Cardinality(OthersSlots(f, fpc, batch, e)) \in Nat
            /\ InHand(fpc[f], batch[f], e) \in Nat
            /\ Cardinality(HeldSlots(fpc, batch, e)) =
                  Cardinality(OthersSlots(f, fpc, batch, e)) + InHand(fpc[f], batch[f], e)
        BY <3>1, HeldSplits
      <3>3. InHand(fpc[f], batch[f], e) = Copies(batch[f], e)
        BY <1>1 DEF InHand, Holding
      <3> QED
        BY <3>2, <3>3, HeldIs
    <2>5. Waiting'[e] = Waiting[e]
      <3> DEFINE w == Waiting[e]
                 v == Waiting'[e]
                 c == Copies(batch[f], e)
                 r == rows[e]
                 l == lost[e]
                 p == pushed[e] + repeated[e]
                 u == unsure[e]
      <3>1. v + (r + c) + l = p + (u + c) /\ w + r + l = p + u
        <4>1. /\ w + r + l = pushed[e] + u + repeated[e]
              /\ v + (r + c) + l = pushed[e] + (u + c) + repeated[e]
          BY <2>1, <2>2, <2>3
        <4>2. pushed[e] \in Nat /\ repeated[e] \in Nat /\ u \in Nat /\ c \in Nat
          BY <2>1, <2>3
        <4> HIDE DEF w, v, r, l, u, c
        <4> QED
          BY <4>1, <4>2
      <3>2. /\ w \in Nat /\ v \in Nat /\ c \in Nat /\ r \in Nat /\ l \in Nat
            /\ p \in Nat /\ u \in Nat
        BY <2>1, <2>2, <2>3
      <3> HIDE DEF w, v, c, r, l, p, u
      <3>3. v = w
        BY <3>1, <3>2
      <3> QED
        BY <3>3 DEF w, v
    <2>6. Copies(batch[f], e) <= Waiting[e]
      BY <2>1, <2>3, <2>4
    <2> QED
      BY <2>1, <2>3, <2>5, <2>6
  <1>5. ASSUME NEW e \in Events
        PROVE  /\ rows'[e] >= rows[e] /\ Waiting'[e] >= Waiting[e]
               /\ rows'[e] + Waiting'[e] <= rows[e] + 2 * Waiting[e]
    BY <1>2
  <1>4. Ledger!Repeat
    BY <1>1, <1>5 DEF Ledger!Repeat, Waiting
  <1> QED
    BY <1>4 DEF LedgerStep, Ledger!Next

LEMMA CrashDrops ==
    ASSUME Booked, EventsConserved, Booked', EventsConserved', Crash, crashes \in Nat
    PROVE  LedgerStep
  <1>1. /\ lost' = [e \in Events |-> lost[e] + Held(e)] /\ MaxCrashes > 0
        /\ UNCHANGED <<rows, pushed, unsure, repeated>>
    BY FlushAssumption DEF Crash, dbVars
  <1>2. ASSUME NEW e \in Events PROVE Waiting'[e] \in 0 .. Waiting[e]
    <2>1. /\ Waiting[e] \in Nat
          /\ Waiting[e] + rows[e] + lost[e] = pushed[e] + unsure[e] + repeated[e]
          /\ pushed[e] \in Nat /\ unsure[e] \in Nat /\ repeated[e] \in Nat
          /\ rows[e] \in Nat /\ lost[e] \in Nat
          /\ Held(e) \in Nat
      BY WaitingIs
    <2>2. /\ Waiting'[e] \in Nat
          /\ Waiting'[e] + rows[e] + lost'[e] = pushed[e] + unsure[e] + repeated[e]
      BY <1>1, WaitingThen
    <2>3. lost'[e] = lost[e] + Held(e)
      BY <1>1
    <2> QED
      BY <2>1, <2>2, <2>3
  <1>3. Ledger!Drop
    BY <1>1, <1>2 DEF Ledger!Drop, Waiting
  <1> QED
    BY <1>3 DEF LedgerStep, Ledger!Next

(* A lost reply drops an entry, or repeats one a flush holds.              *)
LEMMA ResendKeepsLedger ==
    ASSUME Booked, EventsConserved, Booked', EventsConserved', resends \in Nat,
           NEW f \in Flushes, FlushResend(f)
    PROVE  LedgerStep
  <1> USE DEF clockVars, dbVars, flushVars
  <1>1. UNCHANGED <<pushed, unsure, rows, fpc, batch>> /\ MaxResends > 0
    BY FlushAssumption DEF FlushResend, ResendPopStatus, ResendPopEvent, ResendRequeue
  <1>2. \A e \in Events :
           /\ Waiting[e] \in Nat /\ Waiting'[e] \in Nat
           /\ Waiting[e] + rows[e] + lost[e] = pushed[e] + unsure[e] + repeated[e]
           /\ Waiting'[e] + rows[e] + lost'[e] = pushed[e] + unsure[e] + repeated'[e]
           /\ pushed[e] \in Nat /\ unsure[e] \in Nat /\ rows[e] \in Nat
           /\ repeated[e] \in Nat /\ lost[e] \in Nat
    BY <1>1, WaitingIs, WaitingThen
  <1>3. lost \in [Events -> Nat] /\ repeated \in [Events -> Nat]
    BY DEF Booked
  <1>4. CASE ResendPopStatus(f)
    BY <1>4, SameWaiting DEF ResendPopStatus, LedgerStep
  <1>5. CASE ResendPopEvent(f)
    <2>1. /\ lost' = [lost EXCEPT ![Head(usageQueue)] = @ + 1] /\ repeated' = repeated
      BY <1>5 DEF ResendPopEvent
    <2>2. ASSUME NEW e \in Events PROVE Waiting'[e] \in 0 .. Waiting[e]
      <3>1. lost'[e] \in {lost[e], lost[e] + 1}
        BY <1>3, <2>1
      <3> QED
        BY <1>2, <2>1, <3>1
    <2>3. Ledger!Drop
      BY <1>1, <2>2 DEF Ledger!Drop, Waiting
    <2> QED
      BY <2>3 DEF LedgerStep, Ledger!Next
  <1>6. CASE ResendRequeue(f)
    <2> DEFINE x == Head(batch[f])
    <2>1. /\ repeated' = [repeated EXCEPT ![x] = repeated[x] + 1] /\ lost' = lost
          /\ fpc[f] = "requeue"
      BY <1>6 DEF ResendRequeue
    <2>2. batch[f] \in Seq(Events) /\ batch[f] # <<>> /\ Len(batch[f]) <= FLUSH_CHUNK
      BY <2>1, BatchIs
    <2>3. /\ x \in Events /\ Copies(batch[f], x) = Copies(Tail(batch[f]), x) + 1
          /\ Copies(Tail(batch[f]), x) \in Nat
      BY <2>2, HeadTailProperties, CopiesTail, PlacesFinite
    <2>4. Waiting[x] >= 1
      <3>1. /\ Cardinality(OthersSlots(f, fpc, batch, x)) \in Nat
            /\ InHand(fpc[f], batch[f], x) \in Nat
            /\ Cardinality(HeldSlots(fpc, batch, x)) =
                  Cardinality(OthersSlots(f, fpc, batch, x)) + InHand(fpc[f], batch[f], x)
        BY <2>2, HeldSplits
      <3>2. InHand(fpc[f], batch[f], x) = Copies(batch[f], x)
        BY <2>1 DEF InHand, Holding
      <3>3. /\ Held(x) = Cardinality(HeldSlots(fpc, batch, x))
            /\ Waiting[x] = Copies(usageQueue, x) + Held(x) /\ Copies(usageQueue, x) \in Nat
        BY <2>3, HeldIs, WaitingIs
      <3> HIDE DEF x
      <3> QED
        BY <2>3, <3>1, <3>2, <3>3
    <2> HIDE DEF x
    <2>5. ASSUME NEW e \in Events
          PROVE  /\ rows'[e] >= rows[e] /\ Waiting'[e] >= Waiting[e]
                 /\ rows'[e] + Waiting'[e] <= rows[e] + 2 * Waiting[e]
      <3>1. repeated'[e] = repeated[e] + (IF x = e THEN 1 ELSE 0)
        BY <1>3, <2>1
      <3> QED
        BY <1>1, <1>2, <2>1, <2>4, <3>1
    <2>6. Ledger!Repeat
      BY <1>1, <2>5 DEF Ledger!Repeat, Waiting
    <2> QED
      BY <2>6 DEF LedgerStep, Ledger!Next
  <1> QED
    BY <1>4, <1>5, <1>6 DEF FlushResend

LEMMA NextKeepsLedger ==
    Booked /\ EventsConserved /\ TypeOK /\ Booked' /\ EventsConserved' /\ [Next]_vars => LedgerStep
  <1> SUFFICES ASSUME Booked, EventsConserved, TypeOK, Booked', EventsConserved', [Next]_vars
               PROVE  LedgerStep
    OBVIOUS
  <1> USE DEF clockVars, dbVars, flushVars, faultVars
  <1>1. resends \in Nat /\ faults \in Nat /\ crashes \in Nat
    BY DEF TypeOK
  <1>2. ASSUME NEW f \in Flushes, StartFlush(f) \/ FlushStep(f) PROVE LedgerStep
    <2>1. CASE InsertBatch(f)
      BY <2>1, InsertRecords
    <2>2. CASE InsertUnsure(f)
      BY <1>1, <2>2, UnsureRepeats
    <2>3. CASE ~(InsertBatch(f) \/ InsertUnsure(f))
      <3>1. UNCHANGED <<pushed, unsure, repeated, rows, lost>>
        BY <1>2, <2>3 DEF StartFlush, FlushStep, PopStatus, ApplyStatus, WriteMirror,
                          StatusesApplied, PopEvent, InsertFails, Requeue, ReadCounter
      <3> QED
        BY <3>1, SameWaiting DEF LedgerStep
    <2> QED
      BY <2>1, <2>2, <2>3
  <1>3. ASSUME NEW e \in Events, PushEvent(e) \/ ResendPushEvent(e) PROVE LedgerStep
    BY <1>3, PushAccepts
  <1>4. CASE Crash
    BY <1>1, <1>4, CrashDrops
  <1>5. ASSUME \/ \E k \in Keys, at \in Minutes : CountUnit(k, at) \/ ResendCountUnit(k, at)
               \/ \E k \in Keys : Deny(k) \/ DeleteKey(k)
               \/ Tick
               \/ UNCHANGED vars
        PROVE  LedgerStep
    <2>1. UNCHANGED <<pushed, unsure, repeated, rows, lost>>
      BY <1>5 DEF CountUnit, ResendCountUnit, Deny, DeleteKey, Tick, vars
    <2> QED
      BY <2>1, SameWaiting DEF LedgerStep
  <1>6. ASSUME NEW f \in Flushes, FlushResend(f) PROVE LedgerStep
    BY <1>1, <1>6, ResendKeepsLedger
  <1> QED
    BY <1>2, <1>3, <1>4, <1>5, <1>6 DEF Next

(* The pipeline keeps the ledger, for any flushes: an insert records, a    *)
(* doubtful one repeats, a death drops, a lost reply to an RPOP drops and  *)
(* to an LPUSH repeats, and no other step is seen.                         *)
THEOREM PipelineKeepsLedger == Spec => LedgerKept
  <1>1. Init => Ledger!Init
    <2> SUFFICES ASSUME Init PROVE Ledger!Init
      OBVIOUS
    <2>1. Booked /\ EventsConserved
      BY InitBooked
    <2>2. ASSUME NEW e \in Events PROVE Waiting[e] = 0
      <3>1. /\ Waiting[e] \in Nat
            /\ Waiting[e] + rows[e] + lost[e] = pushed[e] + unsure[e] + repeated[e]
        BY <2>1, WaitingIs
      <3> QED
        BY <3>1 DEF Init, FeedInit, Zero
    <2> QED
      BY <2>2 DEF Init, FeedInit, Zero, Ledger!Init, Waiting
  <1>2. LedgerStep => [Ledger!Next]_Ledger!ledgerVars
    BY DEF LedgerStep, Ledger!ledgerVars, Waiting
  <1> QED
    BY <1>1, <1>2, InitBooked, NextConserves, NextKeepsLedger, TypeCorrect, PTL
       DEF Spec, LedgerKept, Ledger!Spec
-----------------------------------------------------------------------------
(* One flush at a time: where the row of k says less than the counter of   *)
(* its month, an event of k is still to come - to be pushed or queued, or  *)
(* in the hands of the flush, which has yet to read the counter - and what *)
(* the flush has read is the counter, or a later event is to come.         *)
Coming(k) ==
    \/ \E t \in Minutes : owed[[key |-> k, at |-> t]] > 0
    \/ k \in KeysOf(usageQueue)
InFlush(k) ==
    \E f \in Flushes :
        \/ fpc[f] \in Holding /\ k \in KeysOf(batch[f])
        \/ k \in todo[f]
        \/ fpc[f] = "mirrorWrite" /\ read[f].key = k

RowsFollowed ==
    \A k \in Keys \ deleted :
        usage[k].count = counter[<<k, usage[k].period>>] \/ Coming(k) \/ InFlush(k)
ReadsFollowed ==
    \A f \in Flushes :
        fpc[f] = "mirrorWrite" =>
            \/ read[f].count = counter[<<read[f].key, MirrorMonth(f)>>]
            \/ Coming(read[f].key)
ExactInv == FlushTyped /\ RowsFollowed /\ ReadsFollowed
OneFlush == \A f, g \in Flushes : f = g

LEMMA KeysAppend ==
    ASSUME NEW s \in Seq(Events), NEW x \in Events
    PROVE  KeysOf(Append(s, x)) = KeysOf(s) \cup {x.key}
  <1> DEFINE t == Append(s, x)
  <1>1. /\ t \in Seq(Events) /\ DOMAIN t = 1 .. Len(s) + 1 /\ DOMAIN s = 1 .. Len(s)
        /\ Len(s) \in Nat /\ t[Len(s) + 1] = x /\ \A i \in 1 .. Len(s) : t[i] = s[i]
    BY AppendProperties
  <1> HIDE DEF t
  <1>2. \A i \in DOMAIN t : i \in DOMAIN s \/ i = Len(s) + 1
    BY <1>1
  <1>3. \A i \in DOMAIN s : i \in DOMAIN t /\ t[i] = s[i]
    BY <1>1
  <1>4. Len(s) + 1 \in DOMAIN t
    BY <1>1
  <1>5. KeysOf(t) = KeysOf(s) \cup {x.key}
    BY <1>1, <1>2, <1>3, <1>4 DEF KeysOf
  <1> QED
    BY <1>5 DEF t

LEMMA KeysTail ==
    ASSUME NEW s \in Seq(Events), s # <<>>
    PROVE  KeysOf(s) = KeysOf(Tail(s)) \cup {Head(s).key}
  <1> DEFINE t == Tail(s)
             x == Head(s)
  <1>1. /\ DOMAIN t = 1 .. Len(t) /\ DOMAIN s = 1 .. Len(s)
        /\ Len(s) \in Nat \ {0} /\ Len(t) = Len(s) - 1 /\ x = s[1]
        /\ \A i \in 1 .. Len(t) : t[i] = s[i + 1]
    BY HeadTailProperties, EmptySeq
  <1> HIDE DEF t, x
  <1>2. \A i \in DOMAIN s : i = 1 \/ (i - 1 \in DOMAIN t /\ t[i - 1] = s[i])
    BY <1>1
  <1>3. \A i \in DOMAIN t : i + 1 \in DOMAIN s /\ t[i] = s[i + 1]
    BY <1>1
  <1>4. 1 \in DOMAIN s
    BY <1>1
  <1>5. KeysOf(s) = KeysOf(t) \cup {x.key}
    BY <1>1, <1>2, <1>3, <1>4 DEF KeysOf
  <1> QED
    BY <1>5 DEF t, x

LEMMA NoKeys == KeysOf(<<>>) = {}
  BY DEF KeysOf

(* The rows are followed as long as what is to come for a key comes.       *)
LEMMA StillFollowed ==
    ASSUME RowsFollowed, deleted \subseteq deleted', UNCHANGED <<counter, usage>>,
           \A k \in Keys : Coming(k) \/ InFlush(k) => Coming(k)' \/ InFlush(k)'
    PROVE  RowsFollowed'
  BY DEF RowsFollowed

(* The flush goes on with what it holds.                                   *)
LEMMA GoesOn ==
    ASSUME ExactInv, OneFlush, NEW f \in Flushes, NEW q \in FPCs \ {"mirrorWrite"},
           fpc[f] # "mirrorWrite", fpc' = [fpc EXCEPT ![f] = q],
           UNCHANGED <<counter, usageQueue, usage, deleted, owed, batch, todo, read>>,
           fpc[f] \in Holding => q \in Holding \/ batch[f] = <<>>
    PROVE  RowsFollowed' /\ ReadsFollowed'
  <1>1. fpc'[f] = q
    BY DEF ExactInv, FlushTyped, Booked
  <1>2. ASSUME NEW k \in Keys, InFlush(k) PROVE InFlush(k)'
    <2>1. k \notin KeysOf(<<>>)
      BY NoKeys
    <2>2. \/ fpc[f] \in Holding /\ k \in KeysOf(batch[f])
          \/ k \in todo[f]
      BY <1>2 DEF InFlush, OneFlush
    <2> QED
      BY <1>1, <2>1, <2>2 DEF InFlush, KeysOf
  <1>3. \A k \in Keys : Coming(k)' = Coming(k)
    BY DEF Coming, KeysOf
  <1>4. RowsFollowed'
    BY <1>2, <1>3, StillFollowed DEF ExactInv
  <1>5. ReadsFollowed'
    BY <1>1 DEF ReadsFollowed, OneFlush
  <1> QED
    BY <1>4, <1>5

LEMMA StatusStepExact ==
    ASSUME ExactInv, OneFlush, NEW f \in Flushes,
           PopStatus(f) \/ StatusesApplied(f) \/ StartFlush(f) \/ InsertFails(f) \/ InsertUnsure(f)
    PROVE  RowsFollowed' /\ ReadsFollowed'
  <1>1. /\ fpc[f] \in {"idle", "drainStatus", "applyStatus", "insert"}
        /\ UNCHANGED <<counter, usageQueue, usage, deleted, owed, batch, todo, read>>
        /\ \/ fpc' = [fpc EXCEPT ![f] = fpc[f]]
           \/ fpc' = [fpc EXCEPT ![f] = "applyStatus"] /\ fpc[f] = "drainStatus"
           \/ fpc' = [fpc EXCEPT ![f] = "drainUsage"] /\ fpc[f] = "applyStatus"
           \/ fpc' = [fpc EXCEPT ![f] = "drainStatus"] /\ fpc[f] = "idle"
           \/ fpc' = [fpc EXCEPT ![f] = "requeue"] /\ fpc[f] = "insert"
    <2>1. fpc \in [Flushes -> FPCs]
      BY DEF ExactInv, FlushTyped, Booked
    <2> QED
      BY <2>1 DEF PopStatus, StatusesApplied, StartFlush, InsertFails, InsertUnsure, GoTo,
                  clockVars, dbVars, faultVars
  <1>2. ASSUME NEW q \in FPCs \ {"mirrorWrite"}, fpc' = [fpc EXCEPT ![f] = q],
               fpc[f] \in Holding => q \in Holding
        PROVE  RowsFollowed' /\ ReadsFollowed'
    BY <1>1, <1>2, GoesOn
  <1> QED
    BY <1>1, <1>2 DEF FPCs, Holding

LEMMA PopExact ==
    ASSUME ExactInv, OneFlush, NEW f \in Flushes, PopEvent(f)
    PROVE  RowsFollowed' /\ ReadsFollowed'
  <1> DEFINE x == Head(usageQueue)
  <1>1. CASE usageQueue # <<>> /\ Len(batch[f]) < FLUSH_CHUNK
    <2>1. /\ fpc[f] = "drainUsage" /\ batch' = [batch EXCEPT ![f] = Append(batch[f], x)]
          /\ usageQueue' = Tail(usageQueue)
          /\ UNCHANGED <<fpc, counter, usage, deleted, owed, todo, read>>
      BY <1>1 DEF PopEvent, clockVars, dbVars
    <2>2. /\ usageQueue \in Seq(Events) /\ batch[f] \in Seq(Events)
          /\ batch \in [Flushes -> Seq(Events)] /\ x \in Events
      BY <1>1, HeadTailProperties DEF ExactInv, FlushTyped, Booked
    <2>3. KeysOf(usageQueue) = KeysOf(usageQueue') \cup {x.key}
      BY <1>1, <2>1, <2>2, KeysTail
    <2>4. KeysOf(batch'[f]) = KeysOf(batch[f]) \cup {x.key}
      BY <2>1, <2>2, KeysAppend
    <2>5. \A k : InFlush(k)' <=> k \in KeysOf(batch'[f]) \/ k \in todo[f]
      BY <2>1 DEF InFlush, OneFlush, Holding, KeysOf
    <2>6. \A k : InFlush(k) => k \in KeysOf(batch[f]) \/ k \in todo[f]
      BY <2>1 DEF InFlush, OneFlush, Holding
    <2>7. ASSUME NEW k \in Keys, Coming(k) PROVE Coming(k)' \/ k = x.key
      BY <2>1, <2>3, <2>7 DEF Coming, KeysOf
    <2>8. RowsFollowed'
      BY <2>1, <2>4, <2>5, <2>6, <2>7, StillFollowed DEF ExactInv
    <2>9. ReadsFollowed'
      BY <2>1 DEF ReadsFollowed, OneFlush
    <2> QED
      BY <2>8, <2>9
  <1>2. CASE ~(usageQueue # <<>> /\ Len(batch[f]) < FLUSH_CHUNK)
    <2>1. /\ fpc[f] = "drainUsage" /\ fpc' = [fpc EXCEPT ![f] = AfterDrain(f)]
          /\ UNCHANGED <<counter, usageQueue, usage, deleted, owed, batch, todo, read>>
      BY <1>2 DEF PopEvent, GoTo, clockVars, dbVars
    <2>2. /\ AfterDrain(f) \in FPCs \ {"mirrorWrite"}
          /\ AfterDrain(f) \in Holding \/ batch[f] = <<>>
      BY DEF AfterDrain, FPCs, Holding
    <2> QED
      BY <2>1, <2>2, GoesOn
  <1> QED
    BY <1>1, <1>2

LEMMA RequeueExact ==
    ASSUME ExactInv, OneFlush, NEW f \in Flushes, Requeue(f)
    PROVE  RowsFollowed' /\ ReadsFollowed'
  <1> DEFINE x == Head(batch[f])
  <1>1. /\ fpc[f] = "requeue" /\ batch[f] # <<>> /\ batch[f] \in Seq(Events)
        /\ batch \in [Flushes -> Seq(Events)] /\ fpc \in [Flushes -> FPCs]
        /\ usageQueue \in Seq(Events)
    BY BatchIs DEF Requeue, ExactInv, FlushTyped, Booked
  <1>2. /\ usageQueue' = Append(usageQueue, x) /\ batch' = [batch EXCEPT ![f] = Tail(batch[f])]
        /\ UNCHANGED <<counter, usage, deleted, owed, todo, read>>
        /\ fpc' = [fpc EXCEPT ![f] = IF Len(batch[f]) = 1 THEN "idle" ELSE "requeue"]
    BY <1>1 DEF Requeue, GoTo, clockVars, dbVars
  <1>3. x \in Events /\ Tail(batch[f]) \in Seq(Events) /\ Len(Tail(batch[f])) = Len(batch[f]) - 1
    BY <1>1, HeadTailProperties
  <1>4. KeysOf(usageQueue') = KeysOf(usageQueue) \cup {x.key}
    BY <1>1, <1>2, <1>3, KeysAppend
  <1>5. KeysOf(batch[f]) = KeysOf(batch'[f]) \cup {x.key}
    BY <1>1, <1>2, KeysTail
  <1>6. fpc'[f] = "requeue" \/ KeysOf(batch'[f]) = {}
    <2>1. Len(batch[f]) = 1 => Tail(batch[f]) = <<>>
      <3>1. \A s \in Seq(Events) : Len(s) = 0 => s = <<>>
        BY EmptySeq
      <3>2. Len(batch[f]) = 1 => Len(Tail(batch[f])) = 0
        BY <1>3
      <3> QED
        BY <1>3, <3>1, <3>2
    <2> QED
      BY <1>1, <1>2, <2>1, NoKeys
  <1>7. \A k : InFlush(k) => k \in KeysOf(batch[f]) \/ k \in todo[f]
    BY <1>1 DEF InFlush, OneFlush, Holding
  <1>8. ASSUME NEW k, k \in KeysOf(batch'[f]) \/ k \in todo[f] PROVE InFlush(k)'
    BY <1>2, <1>6, <1>8 DEF InFlush, Holding, KeysOf
  <1>9. ASSUME NEW k \in Keys, Coming(k) \/ k = x.key PROVE Coming(k)'
    BY <1>2, <1>4, <1>9 DEF Coming, KeysOf
  <1>10. RowsFollowed'
    BY <1>2, <1>5, <1>7, <1>8, <1>9, StillFollowed DEF ExactInv
  <1>11. ReadsFollowed'
    BY <1>1, <1>2 DEF ReadsFollowed, OneFlush
  <1> QED
    BY <1>10, <1>11

LEMMA MirrorStepExact ==
    ASSUME ExactInv, OneFlush, MaxUnheeded = 0, NEW f \in Flushes, NEW j \in Keys,
           NEW applied \in BOOLEAN,
           InsertBatch(f) \/ ReadCounter(f, j) \/ WriteMirror(f, applied)
    PROVE  RowsFollowed' /\ ReadsFollowed'
  <1> USE DEF GoTo, clockVars, dbVars, faultVars
  <1>0. /\ fpc \in [Flushes -> FPCs] /\ batch \in [Flushes -> Seq(Events)]
        /\ todo \in [Flushes -> SUBSET Keys]
        /\ read \in [Flushes -> [key : Keys, count : Nat] \cup {Nothing}]
        /\ usage \in [Keys -> [count : Nat, period : Months]]
        /\ fpc[f] \notin {"mirrorRead", "mirrorWrite"} => todo[f] = {}
    BY DEF ExactInv, FlushTyped, Booked, RestTyped, MirrorTyped, MirrorsItsBatch
  <1>1. CASE InsertBatch(f)
    <2>1. /\ fpc[f] = "insert" /\ fpc' = [fpc EXCEPT ![f] = "mirrorRead"]
          /\ todo' = [todo EXCEPT ![f] = KeysOf(batch[f])]
          /\ UNCHANGED <<counter, usageQueue, usage, deleted, owed, batch, read>>
      BY <1>1 DEF InsertBatch
    <2>2. ASSUME NEW k \in Keys, InFlush(k) PROVE InFlush(k)'
      <3>1. k \in KeysOf(batch[f])
        BY <1>0, <2>1, <2>2 DEF InFlush, OneFlush
      <3>2. k \in todo'[f]
        BY <1>0, <2>1, <3>1
      <3> QED
        BY <3>2 DEF InFlush
    <2>3. \A k : Coming(k)' = Coming(k)
      BY <2>1 DEF Coming, KeysOf
    <2>4. RowsFollowed'
      BY <2>1, <2>2, <2>3, StillFollowed DEF ExactInv
    <2>5. ReadsFollowed'
      BY <1>0, <2>1 DEF ReadsFollowed, OneFlush
    <2> QED
      BY <2>4, <2>5
  <1>2. CASE ReadCounter(f, j)
    <2> DEFINE r == [key |-> j, count |-> counter[<<j, MirrorMonth(f)>>]]
    <2>1. /\ fpc[f] = "mirrorRead" /\ fpc' = [fpc EXCEPT ![f] = "mirrorWrite"]
          /\ todo' = [todo EXCEPT ![f] = @ \ {j}] /\ read' = [read EXCEPT ![f] = r]
          /\ UNCHANGED <<counter, usageQueue, usage, deleted, owed, batch, now>>
      BY <1>2 DEF ReadCounter
    <2>2. r.key = j /\ r.count = counter[<<j, MirrorMonth(f)>>]
      OBVIOUS
    <2> HIDE DEF r
    <2>6. fpc'[f] = "mirrorWrite" /\ read'[f] = r /\ todo'[f] = todo[f] \ {j}
      BY <1>0, <2>1
    <2>3. ASSUME NEW k \in Keys, InFlush(k) PROVE InFlush(k)'
      <3>1. k \in todo[f]
        BY <2>1, <2>3 DEF InFlush, OneFlush, Holding
      <3> QED
        BY <2>2, <2>6, <3>1 DEF InFlush
    <2>4. \A k : Coming(k)' = Coming(k)
      BY <2>1 DEF Coming, KeysOf
    <2>5. RowsFollowed'
      BY <2>1, <2>3, <2>4, StillFollowed DEF ExactInv
    <2>7. ReadsFollowed'
      BY <2>1, <2>2, <2>6 DEF ReadsFollowed, OneFlush, MirrorMonth
    <2> QED
      BY <2>5, <2>7
  <1>3. CASE WriteMirror(f, applied)
    <2> DEFINE i == read[f].key
    <2>1. applied
      <3>1. unheeded \in Nat
        BY DEF ExactInv, FlushTyped, RestTyped
      <3> QED
        BY <1>3, <3>1 DEF WriteMirror
    <2>2. /\ fpc[f] = "mirrorWrite" /\ UNCHANGED <<counter, usageQueue, deleted, owed, todo>>
          /\ i \notin deleted => usage' = [usage EXCEPT ![i] = NewUsage(f)]
          /\ i \in deleted => usage' = usage
          /\ \/ fpc' = [fpc EXCEPT ![f] = "idle"] /\ todo[f] = {}
             \/ fpc' = [fpc EXCEPT ![f] = "mirrorRead"]
      BY <1>3, <2>1 DEF WriteMirror
    <2>3. read[f].count = counter[<<i, MirrorMonth(f)>>] \/ Coming(i)
      BY <2>2 DEF ExactInv, ReadsFollowed
    <2>4. \A k : Coming(k)' = Coming(k)
      BY <2>2 DEF Coming, KeysOf
    <2>5. RowsFollowed'
      <3> SUFFICES ASSUME NEW k \in Keys \ deleted
                   PROVE  usage'[k].count = counter[<<k, usage'[k].period>>] \/ Coming(k)'
                          \/ InFlush(k)'
        BY <2>2 DEF RowsFollowed
      <3>1. CASE k = i
        <4>1. usage'[k] = NewUsage(f)
          BY <1>0, <2>2, <3>1
        <4>2. /\ usage'[k].count = read[f].count /\ usage'[k].period = MirrorMonth(f)
          BY <4>1 DEF NewUsage
        <4> HIDE DEF i
        <4> QED
          BY <2>3, <2>4, <3>1, <4>2
      <3>2. CASE k # i
        <4>1. usage'[k] = usage[k]
          BY <1>0, <2>2, <3>2
        <4>2. InFlush(k) => k \in todo[f]
          BY <2>2, <3>2 DEF InFlush, OneFlush, Holding
        <4>3. k \in todo[f] => InFlush(k)'
          BY <2>2 DEF InFlush
        <4>4. usage[k].count = counter[<<k, usage[k].period>>] \/ Coming(k) \/ InFlush(k)
          BY DEF ExactInv, RowsFollowed
        <4> QED
          BY <2>4, <4>1, <4>2, <4>3, <4>4
      <3> QED
        BY <3>1, <3>2
    <2>6. ReadsFollowed'
      BY <1>0, <2>2 DEF ReadsFollowed, OneFlush
    <2> QED
      BY <2>5, <2>6
  <1> QED
    BY <1>1, <1>2, <1>3

(* A call that counts a unit owes its event.                               *)
LEMMA CountExact ==
    ASSUME ExactInv, NEW j \in Keys, NEW at \in Minutes, CountUnit(j, at)
    PROVE  RowsFollowed' /\ ReadsFollowed'
  <1> DEFINE x == [key |-> j, at |-> at]
             c == <<j, MonthOf[at]>>
  <1>1. /\ owed' = [owed EXCEPT ![x] = owed[x] + 1] /\ counter' = [counter EXCEPT ![c] = counter[c] + 1]
        /\ UNCHANGED <<usageQueue, usage, deleted, fpc, batch, todo, read, now>>
    BY DEF CountUnit, Counts, dbVars, flushVars
  <1>2. /\ owed \in [Events -> Nat] /\ counter \in [Keys \X Months -> Nat]
        /\ x \in Events
    BY DEF ExactInv, FlushTyped, MirrorTyped, Booked, Events
  <1>3. \A e \in Events : owed'[e] >= owed[e]
    <2> HIDE DEF x
    <2> QED
      BY <1>1, <1>2
  <1>4. owed'[x] > 0
    <2> HIDE DEF x
    <2> QED
      BY <1>1, <1>2
  <1>5. Coming(j)'
    BY <1>2, <1>4 DEF Coming
  <1>6. ASSUME NEW k \in Keys, Coming(k) PROVE Coming(k)'
    <2>1. CASE k \in KeysOf(usageQueue)
      BY <1>1, <2>1 DEF Coming, KeysOf
    <2>2. ASSUME NEW t \in Minutes, owed[[key |-> k, at |-> t]] > 0 PROVE Coming(k)'
      <3> DEFINE e == [key |-> k, at |-> t]
      <3>1. e \in Events
        BY DEF Events
      <3>2. owed'[e] > 0
        <4>1. owed'[e] >= owed[e] /\ owed[e] > 0
          BY <1>3, <2>2, <3>1
        <4>2. owed[e] \in Nat
          BY <1>2, <3>1
        <4>3. owed'[e] \in Nat
          <5> HIDE DEF e, x
          <5> QED
            BY <1>1, <1>2, <3>1
        <4> HIDE DEF e
        <4> QED
          BY <4>1, <4>2, <4>3
      <3> QED
        BY <3>2 DEF Coming
    <2> QED
      BY <1>6, <2>1, <2>2 DEF Coming
  <1>7. \A k \in Keys \ {j} : \A m : counter'[<<k, m>>] = counter[<<k, m>>]
    <2> SUFFICES ASSUME NEW k \in Keys \ {j}, NEW m
                 PROVE  counter'[<<k, m>>] = counter[<<k, m>>]
      OBVIOUS
    <2>1. <<k, m>> # c
      OBVIOUS
    <2> HIDE DEF c
    <2>2. CASE <<k, m>> \in Keys \X Months
      BY <1>1, <1>2, <2>1, <2>2
    <2>3. CASE <<k, m>> \notin Keys \X Months
      BY <1>1, <1>2, <2>1, <2>3
    <2> QED
      BY <2>2, <2>3
  <1>8. RowsFollowed'
    <2> SUFFICES ASSUME NEW k \in Keys \ deleted
                 PROVE  usage[k].count = counter'[<<k, usage[k].period>>] \/ Coming(k)' \/ InFlush(k)'
      BY <1>1 DEF RowsFollowed
    <2>1. usage[k].count = counter[<<k, usage[k].period>>] \/ Coming(k) \/ InFlush(k)
      BY DEF ExactInv, RowsFollowed
    <2>2. InFlush(k) => InFlush(k)'
      BY <1>1 DEF InFlush, KeysOf
    <2> HIDE DEF x, c
    <2> QED
      BY <1>5, <1>6, <1>7, <2>1, <2>2
  <1>9. ReadsFollowed'
    <2>1. ASSUME NEW f \in Flushes, fpc[f] = "mirrorWrite", NEW m, m = MirrorMonth(f),
                 NEW i, i = read[f].key
          PROVE  read[f].count = counter'[<<i, m>>] \/ Coming(i)'
      <3>1. read[f].count = counter[<<i, m>>] \/ Coming(i)
        BY <2>1 DEF ExactInv, ReadsFollowed
      <3>2. i \in Keys
        <4>1. read[f] \in [key : Keys, count : Nat]
          BY <2>1 DEF ExactInv, FlushTyped, MirrorTyped, MirrorsItsBatch
        <4> QED
          BY <2>1, <4>1
      <3>3. CASE i = j
        BY <1>5, <3>3
      <3>4. CASE i # j
        <4> HIDE DEF x, c
        <4>1. counter'[<<i, m>>] = counter[<<i, m>>]
          BY <1>7, <3>2, <3>4
        <4>2. Coming(i) => Coming(i)'
          BY <1>6, <3>2
        <4> QED
          BY <3>1, <4>1, <4>2
      <3> QED
        BY <3>3, <3>4
    <2> HIDE DEF x, c
    <2>2. SUFFICES ASSUME NEW f \in Flushes, fpc[f] = "mirrorWrite"
                   PROVE  \/ read[f].count = counter'[<<read[f].key, MirrorMonth(f)>>]
                          \/ Coming(read[f].key)'
      BY <1>1 DEF ReadsFollowed, MirrorMonth
    <2>3. PICK i : i = read[f].key
      OBVIOUS
    <2>4. PICK m : m = MirrorMonth(f)
      OBVIOUS
    <2>5. read'[f].key = i
      BY <1>1, <2>3
    <2>6. read[f].count = counter'[<<i, m>>] \/ Coming(i)'
      BY <2>1, <2>2, <2>3, <2>4
    <2> QED
      BY <2>3, <2>4, <2>5, <2>6 DEF Coming
  <1> QED
    BY <1>8, <1>9

LEMMA PushExact ==
    ASSUME ExactInv, NEW x \in Events, PushEvent(x)
    PROVE  RowsFollowed' /\ ReadsFollowed'
  <1>1. /\ owed' = [owed EXCEPT ![x] = owed[x] - 1] /\ usageQueue' = Append(usageQueue, x)
        /\ UNCHANGED <<counter, usage, deleted, fpc, batch, todo, read, now>>
    BY DEF PushEvent, Pushes, dbVars, flushVars
  <1>2. owed \in [Events -> Nat] /\ usageQueue \in Seq(Events)
    BY DEF ExactInv, FlushTyped, Booked
  <1>3. KeysOf(usageQueue') = KeysOf(usageQueue) \cup {x.key}
    BY <1>1, <1>2, KeysAppend
  <1>4. ASSUME NEW k, Coming(k) PROVE Coming(k)'
    <2>1. CASE k \in KeysOf(usageQueue')
      BY <2>1 DEF Coming, KeysOf
    <2>2. CASE k \notin KeysOf(usageQueue')
      <3>1. k \notin KeysOf(usageQueue) /\ k # x.key
        BY <1>3, <2>2
      <3>2. PICK t \in Minutes : owed[[key |-> k, at |-> t]] > 0
        BY <1>4, <3>1 DEF Coming
      <3> DEFINE e == [key |-> k, at |-> t]
      <3>3. e # x
        BY <3>1
      <3>4. owed'[e] = owed[e]
        <4> HIDE DEF e
        <4> QED
          BY <1>1, <1>2, <3>3
      <3> QED
        BY <3>2, <3>4 DEF Coming
    <2> QED
      BY <2>1, <2>2
  <1>5. \A k : InFlush(k)' = InFlush(k)
    BY <1>1 DEF InFlush, KeysOf
  <1>6. RowsFollowed'
    BY <1>1, <1>4, <1>5, StillFollowed DEF ExactInv
  <1>7. ReadsFollowed'
    BY <1>1, <1>4 DEF ExactInv, ReadsFollowed, MirrorMonth
  <1> QED
    BY <1>6, <1>7

LEMMA NextExact ==
    ASSUME OneFlush, MaxUnheeded = 0, MaxCrashes = 0, MaxResends = 0, ExactInv, [Next]_vars
    PROVE  RowsFollowed' /\ ReadsFollowed'
  <1>1. ASSUME UNCHANGED <<counter, usage, owed, usageQueue, fpc, batch, todo, read, now>>,
               deleted \subseteq deleted'
        PROVE  RowsFollowed' /\ ReadsFollowed'
    <2>1. \A k : Coming(k)' = Coming(k) /\ InFlush(k)' = InFlush(k)
      BY <1>1 DEF Coming, InFlush, KeysOf
    <2>2. RowsFollowed'
      BY <1>1, <2>1, StillFollowed DEF ExactInv
    <2>3. ReadsFollowed'
      BY <1>1, <2>1 DEF ExactInv, ReadsFollowed, MirrorMonth
    <2> QED
      BY <2>2, <2>3
  <1>2. ASSUME NEW f \in Flushes, StartFlush(f) \/ FlushStep(f)
        PROVE  RowsFollowed' /\ ReadsFollowed'
    <2>1. ASSUME NEW applied \in BOOLEAN, ApplyStatus(f, applied)
          PROVE  RowsFollowed' /\ ReadsFollowed'
      BY <1>1, <2>1 DEF ApplyStatus, clockVars
    <2>2. InsertBatch(f) \/ (\E applied \in BOOLEAN : WriteMirror(f, applied)) => Keys # {}
      <3>1. fpc[f] \in {"insert", "mirrorWrite"} => batch[f] # <<>>
        BY BatchIs DEF ExactInv, FlushTyped
      <3>2. batch[f] # <<>> => Events # {}
        BY BatchIs, HeadTailProperties DEF ExactInv, FlushTyped
      <3>3. Events # {} => Keys # {}
        BY DEF Events
      <3> QED
        BY <3>1, <3>2, <3>3 DEF InsertBatch, WriteMirror
    <2>3. ASSUME NEW k \in Keys, ReadCounter(f, k) PROVE RowsFollowed' /\ ReadsFollowed'
      BY <2>3, MirrorStepExact
    <2>4. ASSUME NEW applied \in BOOLEAN, InsertBatch(f) \/ WriteMirror(f, applied)
          PROVE  RowsFollowed' /\ ReadsFollowed'
      <3>1. PICK k \in Keys : TRUE
        BY <2>2, <2>4
      <3> QED
        BY <2>4, <3>1, MirrorStepExact
    <2> QED
      BY <1>2, <2>1, <2>3, <2>4, StatusStepExact, PopExact, RequeueExact DEF FlushStep
  <1>3. ASSUME NEW k \in Keys, Deny(k) \/ DeleteKey(k) PROVE RowsFollowed' /\ ReadsFollowed'
    BY <1>1, <1>3 DEF Deny, Denies, DeleteKey, clockVars, dbVars, flushVars
  <1>4. CASE Tick \/ UNCHANGED vars
    BY <1>1, <1>4 DEF Tick, Passes, vars, clockVars, dbVars, flushVars
  <1>5. /\ ~Crash
        /\ \A k \in Keys, at \in Minutes : ~ResendCountUnit(k, at)
        /\ \A e \in Events : ~ResendPushEvent(e)
        /\ \A f \in Flushes : ~FlushResend(f)
    <2>1. crashes \in Nat /\ resends \in Nat
      BY DEF ExactInv, FlushTyped, RestTyped
    <2> QED
      BY <2>1 DEF Crash, ResendCountUnit, ResendPushEvent, FlushResend, ResendPopStatus,
                  ResendPopEvent, ResendRequeue
  <1> QED
    BY <1>2, <1>3, <1>4, <1>5, CountExact, PushExact DEF Next

(* With one flush at a time, no death, no error that is not looked at and  *)
(* no command run twice: when all is quiet, current_usage of a row         *)
(* mirrored in this month is what Redis counted in it, whatever was        *)
(* refused, put back, or deleted.                                          *)
THEOREM MirrorExact ==
    ASSUME \A f, g \in Flushes : f = g, MaxUnheeded = 0, MaxCrashes = 0, MaxResends = 0
    PROVE  Spec => []MirrorExactAtRest
  <1>0. OneFlush
    BY DEF OneFlush
  <1>1. Init => RowsFollowed /\ ReadsFollowed
    BY FlushAssumption DEF Init, FeedInit, RowsFollowed, ReadsFollowed, Minutes
  <1>2. ExactInv => MirrorExactAtRest
    <2> SUFFICES ASSUME ExactInv, AtRest, NEW k \in Keys \ deleted, usage[k].period = MonthOf[clock]
                 PROVE  usage[k].count = counter[<<k, MonthOf[clock]>>]
      BY DEF MirrorExactAtRest
    <2>1. ~Coming(k)
      <3>1. \A t \in Minutes : [key |-> k, at |-> t] \in Events
        BY DEF Events
      <3>2. \A e \in Events : owed[e] = 0
        BY DEF AtRest, Zero
      <3>3. \A t \in Minutes : ~(owed[[key |-> k, at |-> t]] > 0)
        <4> SUFFICES ASSUME NEW t \in Minutes PROVE ~(owed[[key |-> k, at |-> t]] > 0)
          OBVIOUS
        <4>1. owed[[key |-> k, at |-> t]] = 0
          BY <3>1, <3>2
        <4> QED
          BY <4>1
      <3>4. k \notin KeysOf(usageQueue)
        <4>1. usageQueue = <<>>
          BY DEF AtRest
        <4> QED
          BY <4>1, NoKeys
      <3> QED
        BY <3>3, <3>4 DEF Coming
    <2>2. ~InFlush(k)
      <3> SUFFICES ASSUME NEW f \in Flushes
                   PROVE  /\ k \notin KeysOf(batch[f]) /\ k \notin todo[f]
                          /\ fpc[f] # "mirrorWrite"
        BY DEF InFlush
      <3> QED
        BY NoKeys DEF AtRest, ExactInv, FlushTyped, MirrorsItsBatch
    <2> QED
      BY <2>1, <2>2 DEF ExactInv, RowsFollowed
  <1>3. Spec => []FlushTyped
    <2>1. Spec => [](MirrorInv /\ Booked /\ EventsConserved)
      BY InitMirrorInv, NextMirrorInv, InitBooked, NextConserves, PTL DEF Spec
    <2>2. Init => RestTyped /\ MirrorsItsBatch
      BY InitFlushTyped DEF FlushTyped
    <2>3. MirrorInv /\ Booked /\ RestTyped /\ MirrorsItsBatch => FlushTyped
      BY DEF FlushTyped, MirrorInv
    <2> QED
      BY <2>1, <2>2, <2>3, NextFlushTyped, PTL DEF Spec
  <1>4. FlushTyped /\ RowsFollowed /\ ReadsFollowed /\ [Next]_vars => RowsFollowed' /\ ReadsFollowed'
    BY <1>0, NextExact DEF ExactInv
  <1>5. FlushTyped /\ RowsFollowed /\ ReadsFollowed => ExactInv
    BY DEF ExactInv
  <1> QED
    BY <1>1, <1>2, <1>3, <1>4, <1>5, PTL DEF Spec
=============================================================================
