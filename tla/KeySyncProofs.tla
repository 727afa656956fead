--------------------------- MODULE KeySyncProofs ---------------------------
(***************************************************************************)
(* What holds of KeySync for any keys and any number of restarts, losses   *)
(* and faults: of the counters with any polls at once, of the hashes with  *)
(* one.                                                                    *)
(***************************************************************************)
EXTENDS KeySync, SequenceTheorems, TLAPS

(* What the counters are computed from. *)
ledgerVars == <<month, seedMonth, seedRows, seedRow, usage, counter, counted, wipes>>

LedgerTyped ==
    /\ month \in Months /\ seedMonth \in Months /\ wipes \in Nat
    /\ counter \in [Keys \X Months -> Nat \cup {Unset}]
    /\ counted \in [Keys \X Months -> Nat]
    /\ usage \in [Keys -> Nat]
    /\ \A r \in seedRows : r.key \in Keys /\ r.usage \in Nat
    /\ seedRow # NoRow => seedRow.key \in Keys /\ seedRow.usage \in Nat

(* The steps that touch the ledger are few. *)
LedgerStep ==
    \/ NextMonth
    \/ \E k \in Keys :
          \/ CountUnit(k)
          \/ \E m \in Months, n \in 0 .. MaxUnits : MirrorUsage(k, m, n)
    \/ SeedSelect \/ (\E r \in seedRows : SeedMeta(r)) \/ SeedCounter
    \/ Crash \/ Wipe

LEMMA FewLedgerSteps == [Next]_vars => LedgerStep \/ UNCHANGED ledgerVars
  <1> SUFFICES ASSUME [Next]_vars, ~LedgerStep PROVE UNCHANGED ledgerVars
    OBVIOUS
  <1> USE DEF ledgerVars, dbVars, redisVars, seedVars, pollVars, histVars, faultVars
  <1>1. ASSUME NEW k \in Keys, CreateKey(k) \/ RevokeKey(k) \/ DeleteKey(k)
        PROVE  UNCHANGED ledgerVars
    BY <1>1 DEF CreateKey, RevokeKey, DeleteKey
  <1>2. ASSUME NEW k \in Keys, Refuse(k) \/ MarkMeta(k) \/ QueueMark(k)
        PROVE  UNCHANGED ledgerVars
    BY <1>2 DEF Refuse, MarkMeta, QueueMark
  <1>3. ASSUME ApplyMark \/ LoseMark PROVE UNCHANGED ledgerVars
    BY <1>3 DEF ApplyMark, LoseMark
  <1>4. ASSUME SeedDone \/ Join \/ HandleRealtime \/ Drop PROVE UNCHANGED ledgerVars
    BY <1>4 DEF SeedDone, Join, HandleRealtime, Drop
  <1>5. ASSUME NEW p \in Polls, Poll(p) PROVE UNCHANGED ledgerVars
    BY <1>5 DEF Poll, PollSelect, PollKeys, PollConsume, PollWrite
  <1>6. ASSUME Rest \/ UNCHANGED vars PROVE UNCHANGED ledgerVars
    BY <1>6 DEF Rest, vars
  <1> QED
    BY <1>1, <1>2, <1>3, <1>4, <1>5, <1>6 DEF Next, Boot, LedgerStep
-----------------------------------------------------------------------------
LEMMA CountIsNat ==
    ASSUME LedgerTyped, NEW k \in Keys, NEW m \in Months
    PROVE  Count(k, m) \in Nat
  BY DEF LedgerTyped, Count

(* The step of SET ... NX: a counter that is there is kept. *)
LEMMA SeedKeeps ==
    ASSUME LedgerTyped, SeedCounter
    PROVE  /\ <<seedRow.key, seedMonth>> \in Keys \X Months
           /\ SeedValue(seedRow.key, seedRow.usage) \in Nat
           /\ counter[<<seedRow.key, seedMonth>>] # Unset =>
                  SeedValue(seedRow.key, seedRow.usage) = counter[<<seedRow.key, seedMonth>>]
  <1>1. seedRow.key \in Keys /\ seedRow.usage \in Nat /\ seedMonth \in Months
    BY DEF LedgerTyped, SeedCounter
  <1>2. <<seedRow.key, seedMonth>> \in Keys \X Months
    BY <1>1
  <1>3. counter[<<seedRow.key, seedMonth>>] \in Nat \cup {Unset}
    BY <1>2 DEF LedgerTyped
  <1> QED
    BY <1>1, <1>2, <1>3 DEF SeedValue

LEMMA InitLedgerTyped == Init => LedgerTyped
  BY KeySyncAssumption DEF Init, Start, LedgerTyped, Months, Unset

LEMMA NextLedgerTyped == LedgerTyped /\ [Next]_vars => LedgerTyped'
  <1> SUFFICES ASSUME LedgerTyped, [Next]_vars PROVE LedgerTyped'
    OBVIOUS
  <1> USE DEF dbVars, redisVars, seedVars, pollVars, histVars, faultVars
  <1>1. CASE UNCHANGED ledgerVars
    BY <1>1 DEF LedgerTyped, ledgerVars
  <1>2. CASE NextMonth
    <2>1. month' \in Months
      BY <1>2, KeySyncAssumption DEF NextMonth, LedgerTyped, Months
    <2> QED
      BY <1>2, <2>1 DEF NextMonth, LedgerTyped
  <1>3. ASSUME NEW k \in Keys, CountUnit(k) PROVE LedgerTyped'
    <2>1. <<k, month>> \in Keys \X Months /\ Count(k, month) \in Nat
      BY CountIsNat DEF LedgerTyped
    <2>2. counter' \in [Keys \X Months -> Nat \cup {Unset}]
      BY <1>3, <2>1 DEF CountUnit, LedgerTyped
    <2>3. counted' \in [Keys \X Months -> Nat]
      BY <1>3, <2>1 DEF CountUnit, LedgerTyped
    <2> QED
      BY <1>3, <2>2, <2>3 DEF CountUnit, LedgerTyped
  <1>4. ASSUME NEW k \in Keys, NEW m \in Months, NEW n \in 0 .. MaxUnits,
               MirrorUsage(k, m, n)
        PROVE  LedgerTyped'
    <2>1. n \in Nat
      OBVIOUS
    <2>2. usage' \in [Keys -> Nat]
      BY <1>4, <2>1 DEF MirrorUsage, LedgerTyped
    <2> QED
      BY <1>4, <2>2 DEF MirrorUsage, LedgerTyped
  <1>5. CASE SeedSelect
    <2>1. \A r \in seedRows' : r.key \in Keys /\ r.usage \in Nat
      BY <1>5 DEF SeedSelect, LedgerTyped
    <2>2. seedMonth' \in Months
      BY <1>5 DEF SeedSelect, LedgerTyped
    <2> QED
      BY <1>5, <2>1, <2>2 DEF SeedSelect, LedgerTyped
  <1>6. ASSUME NEW r \in seedRows, SeedMeta(r) PROVE LedgerTyped'
    BY <1>6 DEF SeedMeta, LedgerTyped
  <1>7. CASE SeedCounter
    <2>1. counter' \in [Keys \X Months -> Nat \cup {Unset}]
      BY <1>7, SeedKeeps DEF SeedCounter, LedgerTyped
    <2> QED
      BY <1>7, <2>1 DEF SeedCounter, LedgerTyped
  <1>8. CASE Crash
    BY <1>8 DEF Crash, LedgerTyped
  <1>9. CASE Wipe
    <2>1. counter' \in [Keys \X Months -> Nat \cup {Unset}] /\ wipes' \in Nat
      BY <1>9 DEF Wipe, LedgerTyped
    <2> QED
      BY <1>9, <2>1 DEF Wipe, LedgerTyped
  <1> QED
    BY FewLedgerSteps, <1>1, <1>2, <1>3, <1>4, <1>5, <1>6, <1>7, <1>8, <1>9 DEF LedgerStep
-----------------------------------------------------------------------------
(* Whatever restarts, seeds, marks and mirrors come between, a counter     *)
(* Redis holds is never set back: only losing Redis' data loses a count.   *)
NeverSetBack ==
    wipes' = wipes => \A km \in Keys \X Months :
                          counter[km] # Unset => counter'[km] >= counter[km]

LEMMA StepKeepsCounters == LedgerTyped /\ [Next]_vars => NeverSetBack
  <1> SUFFICES ASSUME LedgerTyped, [Next]_vars, wipes' = wipes,
                      NEW km \in Keys \X Months, counter[km] # Unset
               PROVE  counter'[km] >= counter[km]
    BY DEF NeverSetBack
  <1> USE DEF dbVars, redisVars, seedVars, pollVars, histVars, faultVars
  <1>1. counter[km] \in Nat
    BY DEF LedgerTyped
  <1>2. CASE counter' = counter
    BY <1>1, <1>2
  <1>3. ASSUME NEW k \in Keys, CountUnit(k) PROVE counter'[km] >= counter[km]
    <2>1. <<k, month>> \in Keys \X Months
      BY DEF LedgerTyped
    <2>2. counter' = [counter EXCEPT ![<<k, month>>] = Count(k, month) + 1]
      BY <1>3 DEF CountUnit
    <2>3. CASE km = <<k, month>>
      <3>1. Count(k, month) = counter[km]
        BY <2>3 DEF Count
      <3> QED
        BY <1>1, <2>1, <2>2, <2>3, <3>1 DEF LedgerTyped
    <2>4. CASE km # <<k, month>>
      BY <1>1, <2>2, <2>4 DEF LedgerTyped
    <2> QED
      BY <2>3, <2>4
  <1>4. CASE SeedCounter
    <2>1. counter' = [counter EXCEPT ![<<seedRow.key, seedMonth>>] =
                          SeedValue(seedRow.key, seedRow.usage)]
      BY <1>4 DEF SeedCounter
    <2>2. counter'[km] = counter[km]
      BY <1>4, <2>1, SeedKeeps DEF LedgerTyped
    <2> QED
      BY <1>1, <2>2
  <1>5. ~Wipe
    BY DEF Wipe, LedgerTyped
  <1>6. ASSUME NextMonth \/ SeedSelect \/ (\E r \in seedRows : SeedMeta(r)) \/ Crash
        PROVE  counter' = counter
    BY <1>6 DEF NextMonth, SeedSelect, SeedMeta, Crash
  <1>7. ASSUME NEW k \in Keys, NEW m \in Months, NEW n \in 0 .. MaxUnits,
               MirrorUsage(k, m, n)
        PROVE  counter' = counter
    BY <1>7 DEF MirrorUsage
  <1>8. UNCHANGED ledgerVars => counter' = counter
    BY DEF ledgerVars
  <1> QED
    BY FewLedgerSteps, <1>2, <1>3, <1>4, <1>5, <1>6, <1>7, <1>8 DEF LedgerStep

(* "A persisted (newer) Redis value is NEVER overwritten": the seed, run   *)
(* at any moment of any history, sets no counter back.                     *)
THEOREM SeedNeverOverwrites == Spec => CountersKept
  <1>1. LedgerTyped /\ [Next]_vars =>
            [wipes' = wipes => \A km \in Keys \X Months :
                counter[km] # Unset => counter'[km] >= counter[km]]_vars
    BY StepKeepsCounters DEF NeverSetBack
  <1> QED
    BY <1>1, InitLedgerTyped, NextLedgerTyped, PTL DEF Spec, CountersKept
-----------------------------------------------------------------------------
(* Within one month a unit that is seeded was counted before: what a row,  *)
(* or a row the seed has read, says of a key was once its counter.         *)
MirrorsCounted ==
    /\ \A k \in Keys : usage[k] <= counted[<<k, 0>>]
    /\ \A r \in seedRows : r.usage <= counted[<<r.key, 0>>]
    /\ seedRow # NoRow => seedRow.usage <= counted[<<seedRow.key, 0>>]

OneMonthInv == LedgerTyped /\ NoUnitsInvented /\ MirrorsCounted

LEMMA InitOneMonthInv ==
    ASSUME MaxMonth = 0
    PROVE  Init => OneMonthInv
  <1> SUFFICES ASSUME Init PROVE OneMonthInv
    OBVIOUS
  <1>1. LedgerTyped
    BY InitLedgerTyped
  <1>2. Months = {0}
    BY DEF Months
  <1>3. NoUnitsInvented
    <2> SUFFICES ASSUME NEW k \in Keys PROVE Count(k, 0) <= counted[<<k, 0>>]
      BY <1>2 DEF NoUnitsInvented
    <2>1. <<k, 0>> \in Keys \X Months
      BY <1>2
    <2>2. counter[<<k, 0>>] = Unset /\ counted[<<k, 0>>] = 0
      BY <2>1 DEF Init, Start
    <2> QED
      BY <2>2 DEF Count
  <1>4. MirrorsCounted
    BY <1>2 DEF Init, Start, MirrorsCounted
  <1> QED
    BY <1>1, <1>3, <1>4 DEF OneMonthInv

LEMMA NextOneMonthInv ==
    ASSUME MaxMonth = 0
    PROVE  OneMonthInv /\ [Next]_vars => OneMonthInv'
  <1> SUFFICES ASSUME OneMonthInv, [Next]_vars
               PROVE  NoUnitsInvented' /\ MirrorsCounted'
    BY NextLedgerTyped DEF OneMonthInv
  <1> USE DEF dbVars, redisVars, seedVars, pollVars, histVars, faultVars
  <1>0. /\ Months = {0} /\ month = 0 /\ seedMonth = 0
        /\ LedgerTyped /\ NoUnitsInvented /\ MirrorsCounted
    BY DEF Months, OneMonthInv, LedgerTyped
  <1>1. \A k \in Keys : /\ <<k, 0>> \in Keys \X Months
                        /\ counter[<<k, 0>>] \in Nat \cup {Unset}
                        /\ counted[<<k, 0>>] \in Nat
                        /\ Count(k, 0) \in Nat
                        /\ Count(k, 0) <= counted[<<k, 0>>]
    BY <1>0, CountIsNat DEF LedgerTyped, NoUnitsInvented
  <1>2. CASE UNCHANGED ledgerVars
    BY <1>0, <1>2 DEF NoUnitsInvented, MirrorsCounted, Count, ledgerVars
  <1>3. CASE NextMonth
    BY <1>0, <1>3 DEF NextMonth, NoUnitsInvented, MirrorsCounted, Count
  <1>4. ASSUME NEW k \in Keys, CountUnit(k) PROVE NoUnitsInvented' /\ MirrorsCounted'
    <2>1. /\ counter' = [counter EXCEPT ![<<k, 0>>] = Count(k, 0) + 1]
          /\ counted' = [counted EXCEPT ![<<k, 0>>] = @ + 1]
          /\ UNCHANGED <<usage, seedRows, seedRow>>
      BY <1>0, <1>4 DEF CountUnit
    <2>2. /\ counter'[<<k, 0>>] = Count(k, 0) + 1
          /\ counted'[<<k, 0>>] = counted[<<k, 0>>] + 1
      BY <1>0, <1>1, <2>1 DEF LedgerTyped
    <2>3. \A j \in Keys \ {k} : /\ counter'[<<j, 0>>] = counter[<<j, 0>>]
                                /\ counted'[<<j, 0>>] = counted[<<j, 0>>]
      BY <1>0, <1>1, <2>1 DEF LedgerTyped
    <2>4. NoUnitsInvented'
      <3> SUFFICES ASSUME NEW j \in Keys PROVE Count(j, 0)' <= counted'[<<j, 0>>]
        BY <1>0 DEF NoUnitsInvented
      <3>1. CASE j = k
        BY <1>1, <2>2, <3>1 DEF Count, Unset
      <3>2. CASE j # k
        BY <1>1, <2>3, <3>2 DEF Count
      <3> QED
        BY <3>1, <3>2
    <2>5. \A j \in Keys : counted[<<j, 0>>] <= counted'[<<j, 0>>]
                            /\ counted'[<<j, 0>>] \in Nat
      <3> SUFFICES ASSUME NEW j \in Keys
                   PROVE  counted[<<j, 0>>] <= counted'[<<j, 0>>] /\ counted'[<<j, 0>>] \in Nat
        OBVIOUS
      <3>1. CASE j = k
        BY <1>1, <2>2, <3>1
      <3>2. CASE j # k
        BY <1>1, <2>3, <3>2
      <3> QED
        BY <3>1, <3>2
    <2>6. MirrorsCounted'
      BY <1>0, <1>1, <2>1, <2>5 DEF MirrorsCounted, LedgerTyped
    <2> QED
      BY <2>4, <2>6
  <1>5. ASSUME NEW k \in Keys, NEW m \in Months, NEW n \in 0 .. MaxUnits,
               MirrorUsage(k, m, n)
        PROVE  NoUnitsInvented' /\ MirrorsCounted'
    <2>1. /\ UNCHANGED <<counter, counted, seedRows, seedRow>>
          /\ usage' = [usage EXCEPT ![k] = n] /\ n <= Count(k, 0)
      BY <1>0, <1>5 DEF MirrorUsage
    <2>2. n <= counted[<<k, 0>>]
      BY <1>1, <2>1
    <2>3. \A j \in Keys : usage'[j] <= counted[<<j, 0>>]
      BY <1>0, <2>1, <2>2 DEF MirrorsCounted, LedgerTyped
    <2> QED
      BY <1>0, <2>1, <2>3 DEF NoUnitsInvented, MirrorsCounted, Count
  <1>6. CASE SeedSelect
    <2>1. UNCHANGED <<counter, counted, usage, seedRow>>
      BY <1>6 DEF SeedSelect
    <2>2. \A r \in seedRows' : r.key \in Keys /\ r.usage = usage[r.key]
      BY <1>6 DEF SeedSelect
    <2> QED
      BY <1>0, <2>1, <2>2 DEF NoUnitsInvented, MirrorsCounted, Count
  <1>7. ASSUME NEW r \in seedRows, SeedMeta(r) PROVE NoUnitsInvented' /\ MirrorsCounted'
    BY <1>0, <1>7 DEF SeedMeta, NoUnitsInvented, MirrorsCounted, Count
  <1>8. CASE SeedCounter
    <2>1. /\ UNCHANGED <<counted, usage, seedRows>> /\ seedRow' = NoRow
          /\ seedRow # NoRow
          /\ counter' = [counter EXCEPT ![<<seedRow.key, 0>>] =
                             SeedValue(seedRow.key, seedRow.usage)]
      BY <1>0, <1>8 DEF SeedCounter
    <2>2. /\ seedRow.key \in Keys /\ seedRow.usage \in Nat
          /\ seedRow.usage <= counted[<<seedRow.key, 0>>]
      BY <1>0, <2>1 DEF LedgerTyped, MirrorsCounted
    <2>3. SeedValue(seedRow.key, seedRow.usage) <= counted[<<seedRow.key, 0>>]
      BY <1>0, <1>1, <2>2 DEF SeedValue, Count
    <2>4. NoUnitsInvented'
      <3> SUFFICES ASSUME NEW j \in Keys PROVE Count(j, 0)' <= counted'[<<j, 0>>]
        BY <1>0 DEF NoUnitsInvented
      <3>1. CASE j = seedRow.key
        BY <1>0, <1>1, <2>1, <2>2, <2>3, <3>1 DEF Count, LedgerTyped
      <3>2. CASE j # seedRow.key
        BY <1>0, <1>1, <2>1, <2>2, <3>2 DEF Count, LedgerTyped
      <3> QED
        BY <3>1, <3>2
    <2>5. MirrorsCounted'
      BY <1>0, <2>1 DEF MirrorsCounted
    <2> QED
      BY <2>4, <2>5
  <1>9. CASE Crash
    BY <1>0, <1>9 DEF Crash, NoUnitsInvented, MirrorsCounted, Count
  <1>10. CASE Wipe
    <2>1. \A j \in Keys : Count(j, 0)' = 0
      BY <1>0, <1>10 DEF Wipe, Count
    <2>2. UNCHANGED <<counted, usage, seedRows, seedRow>>
      BY <1>10 DEF Wipe
    <2>3. NoUnitsInvented'
      BY <1>0, <1>1, <2>1, <2>2 DEF NoUnitsInvented
    <2>4. MirrorsCounted'
      BY <1>0, <2>2 DEF MirrorsCounted
    <2> QED
      BY <2>3, <2>4
  <1> QED
    BY FewLedgerSteps, <1>2, <1>3, <1>4, <1>5, <1>6, <1>7, <1>8, <1>9, <1>10
       DEF LedgerStep

(* As long as the calendar stays within one month, no restart, seed, stale *)
(* mirror or loss of Redis makes a counter hold more than was counted.     *)
THEOREM NothingInventedWithinAMonth ==
    ASSUME MaxMonth = 0
    PROVE  Spec => []NoUnitsInvented
  <1>1. OneMonthInv => NoUnitsInvented
    BY DEF OneMonthInv
  <1> QED
    BY <1>1, InitOneMonthInv, NextOneMonthInv, PTL DEF Spec
-----------------------------------------------------------------------------
(* The argument for MetaFollowsRows, with one poll at a time: wherever a   *)
(* hash and its row differ, something is still to come that will repair    *)
(* the hash, or the key is known to be missed.                             *)

(* Of a key Realtime has something for, the last of it is the row.         *)
FeedEndsInRow ==
    \A n \in DOMAIN feed :
        \/ feed[n].status = status[feed[n].key]
        \/ \E m \in DOMAIN feed : n < m /\ feed[m].key = feed[n].key

(* An event of k is to be picked up, by the next poll or by one that has   *)
(* not read the rows yet.                                                  *)
Unread(k) ==
    \E e \in outbox : e.key = k /\ \A p \in Polls : ppc[p] = "write" => e \notin picked[p]

(* What a poll is going to write is the row, or is followed by a poll that *)
(* reads the row again.                                                    *)
WritesFollowed ==
    \A p \in Polls : \A w \in writes[p] : w.status = status[w.key] \/ Unread(w.key)

(* So is what the seed is going to write, unless it is known to be missed. *)
SeedFollowed ==
    \A r \in seedRows : r.status = status[r.key] \/ r.key \in missed

Repaired(k) ==
    \/ k \in FeedKeys \/ k \in KeysIn(seedRows) \/ Unread(k)
    \/ \E p \in Polls : k \in KeysIn(writes[p])
    \/ denying[k] = "queue" \/ \E n \in DOMAIN statusQueue : statusQueue[n] = k
HashOrRepair ==
    \A k \in Keys \ missed : Exists(k) => meta[k] = status[k] \/ Repaired(k)

(* Events are numbered as they come; without them no poll finds anything.  *)
EventsNumbered ==
    /\ changes \in Nat
    /\ \A e \in outbox : e.id < changes
    /\ \A p \in Polls : \A e \in picked[p] : e.id < changes
    /\ ~OutboxWritten => outbox = {} /\ \A p \in Polls : picked[p] = {}
WritesPicked ==
    \A p \in Polls : /\ KeysIn(writes[p]) \subseteq KeysIn(picked[p])
                     /\ writes[p] # {} => ppc[p] = "write"

SyncInv ==
    /\ TypeOK /\ EventsNumbered /\ WritesPicked
    /\ FeedEndsInRow /\ WritesFollowed /\ SeedFollowed /\ HashOrRepair
-----------------------------------------------------------------------------
(* Types first, with what they rest on.                                    *)
SyncTyped == TypeOK /\ EventsNumbered /\ WritesPicked

NewStatuses == Statuses \cup {"deleted"}

LEMMA CommitTyped ==
    ASSUME SyncTyped, NEW k \in Keys, NEW s \in NewStatuses, Commit(k, s)
    PROVE  /\ status' \in [Keys -> Statuses \cup Absent]
           /\ feed' \in Seq(Changes) /\ (~linked => feed' = <<>>)
           /\ missed' \subseteq Keys
           /\ outbox' \subseteq [id : Nat, key : Keys]
           /\ changes' = changes + 1 /\ changes' \in Nat
           /\ \A e \in outbox' : e.id < changes'
           /\ ~OutboxWritten => outbox' = {}
  <1>1. changes \in Nat /\ changes < changes + 1
    BY DEF SyncTyped, EventsNumbered
  <1>2. status' \in [Keys -> Statuses \cup Absent]
    BY DEF SyncTyped, TypeOK, Commit, NewStatuses, Absent
  <1>3. [key |-> k, status |-> s] \in Changes
    BY DEF Changes, NewStatuses
  <1>4. feed' \in Seq(Changes) /\ (~linked => feed' = <<>>)
    BY <1>3 DEF SyncTyped, TypeOK, Commit
  <1>5. missed' \subseteq Keys
    BY DEF SyncTyped, TypeOK, Commit
  <1>6. outbox' \subseteq [id : Nat, key : Keys]
    BY <1>1 DEF SyncTyped, TypeOK, Commit
  <1>7. \A e \in outbox : e.id \in Nat /\ e.id < changes
    BY DEF SyncTyped, TypeOK, EventsNumbered
  <1>8. \A e \in outbox' : e.id < changes'
    <2> SUFFICES ASSUME NEW e \in outbox' PROVE e.id < changes + 1
      BY DEF Commit
    <2>1. e \in outbox \/ e = [id |-> changes, key |-> k]
      BY DEF Commit
    <2> QED
      BY <1>1, <1>7, <2>1
  <1>9. ~OutboxWritten => outbox' = {}
    BY DEF SyncTyped, EventsNumbered, Commit
  <1> QED
    BY <1>1, <1>2, <1>4, <1>5, <1>6, <1>8, <1>9 DEF Commit

LEMMA InitSyncTyped == Init => SyncTyped
  <1> SUFFICES ASSUME Init PROVE SyncTyped
    OBVIOUS
  <1>1. <<>> \in Seq(Changes) /\ <<>> \in Seq(Keys) /\ 0 \in Months
    BY KeySyncAssumption DEF Months
  <1>2. KeysIn({}) = {}
    BY DEF KeysIn
  <1>3. TypeOK
    BY <1>1 DEF Init, Start, TypeOK, Absent
  <1>4. EventsNumbered
    BY DEF Init, Start, EventsNumbered
  <1>5. WritesPicked
    BY <1>2 DEF Init, Start, WritesPicked
  <1> QED
    BY <1>3, <1>4, <1>5 DEF SyncTyped

(* The rows change, and the polls do not.                                  *)
RowStep(k) ==
    \/ CreateKey(k) \/ RevokeKey(k) \/ DeleteKey(k)
    \/ ApplyMark /\ k = Head(statusQueue)
    \/ \E m \in Months, n \in 0 .. MaxUnits : MirrorUsage(k, m, n)

LEMMA RowStepCommits ==
    ASSUME SyncTyped, NEW k \in Keys, RowStep(k)
    PROVE  /\ \E s \in NewStatuses : Commit(k, s)
           /\ UNCHANGED <<linked, meta, counter, seedVars, denying, pollVars, month, counted>>
           /\ usage' \in [Keys -> Nat] /\ revoked' \subseteq Keys
           /\ statusQueue' \in Seq(Keys)
           /\ \A n \in DOMAIN statusQueue :
                 \/ \E m \in DOMAIN statusQueue' : statusQueue'[m] = statusQueue[n]
                 \/ statusQueue[n] = k
  <1> USE DEF SyncTyped, redisVars, dbVars, histVars, seedVars, pollVars
  <1>1. CASE CreateKey(k)
    BY <1>1 DEF CreateKey, TypeOK, NewStatuses, Statuses
  <1>2. CASE RevokeKey(k)
    BY <1>2 DEF RevokeKey, TypeOK, NewStatuses, Statuses
  <1>3. CASE DeleteKey(k)
    BY <1>3 DEF DeleteKey, TypeOK, NewStatuses
  <1>4. CASE ApplyMark /\ k = Head(statusQueue)
    <2>1. statusQueue # <<>> /\ statusQueue' = Tail(statusQueue)
      BY <1>4 DEF ApplyMark
    <2>2. statusQueue \in Seq(Keys)
      BY DEF TypeOK
    <2>3. /\ statusQueue' \in Seq(Keys) /\ Len(statusQueue') = Len(statusQueue) - 1
          /\ \A n \in 1 .. Len(statusQueue') : statusQueue'[n] = statusQueue[n + 1]
      BY <2>1, <2>2, HeadTailProperties
    <2>4. ASSUME NEW n \in DOMAIN statusQueue, n # 1
          PROVE  \E m \in DOMAIN statusQueue' : statusQueue'[m] = statusQueue[n]
      <3>1. n - 1 \in 1 .. Len(statusQueue') /\ DOMAIN statusQueue' = 1 .. Len(statusQueue')
        BY <2>2, <2>3, <2>4
      <3> QED
        BY <2>2, <2>3, <3>1
    <2>5. k = statusQueue[1]
      BY <1>4, <2>1, <2>2
    <2>6. /\ Commit(k, "exhausted")
          /\ UNCHANGED <<usage, linked, meta, counter, seedVars, denying, pollVars, histVars>>
      BY <1>4 DEF ApplyMark
    <2> QED
      BY <2>3, <2>4, <2>5, <2>6 DEF TypeOK, NewStatuses, Statuses
  <1>5. ASSUME NEW m \in Months, NEW n \in 0 .. MaxUnits, MirrorUsage(k, m, n)
        PROVE  /\ \E s \in NewStatuses : Commit(k, s)
               /\ UNCHANGED <<linked, redisVars, seedVars, denying, pollVars, histVars>>
               /\ usage' \in [Keys -> Nat]
    <2>1. n \in Nat
      OBVIOUS
    <2>2. status[k] \in Statuses
      BY <1>5 DEF MirrorUsage, Exists, TypeOK, Statuses, Absent
    <2> QED
      BY <1>5, <2>1, <2>2 DEF MirrorUsage, TypeOK, NewStatuses
  <1> QED
    BY <1>1, <1>2, <1>3, <1>4, <1>5 DEF RowStep, TypeOK

LEMMA RowStepTyped ==
    ASSUME SyncTyped, NEW k \in Keys, RowStep(k)
    PROVE  SyncTyped'
  <1>1. PICK s \in NewStatuses : Commit(k, s)
    BY RowStepCommits
  <1>2. /\ UNCHANGED <<linked, meta, counter, seedVars, denying, pollVars, month, counted>>
        /\ usage' \in [Keys -> Nat] /\ revoked' \subseteq Keys
        /\ statusQueue' \in Seq(Keys)
    BY RowStepCommits
  <1>3. /\ status' \in [Keys -> Statuses \cup Absent]
        /\ feed' \in Seq(Changes) /\ (~linked => feed' = <<>>)
        /\ missed' \subseteq Keys
        /\ outbox' \subseteq [id : Nat, key : Keys]
        /\ changes' = changes + 1 /\ changes' \in Nat
        /\ \A e \in outbox' : e.id < changes'
        /\ ~OutboxWritten => outbox' = {}
    BY <1>1, CommitTyped
  <1>4. TypeOK'
    BY <1>2, <1>3 DEF SyncTyped, TypeOK, seedVars, pollVars
  <1>5. EventsNumbered'
    <2>1. \A p \in Polls : \A e \in picked[p] : e.id < changes + 1
      <3> SUFFICES ASSUME NEW p \in Polls, NEW e \in picked[p] PROVE e.id < changes + 1
        OBVIOUS
      <3>1. e.id \in Nat /\ e.id < changes /\ changes \in Nat
        BY DEF SyncTyped, TypeOK, EventsNumbered
      <3> QED
        BY <3>1
    <2> QED
      BY <1>2, <1>3, <2>1 DEF SyncTyped, EventsNumbered, pollVars
  <1>6. WritesPicked'
    BY <1>2 DEF SyncTyped, WritesPicked, pollVars, KeysIn
  <1> QED
    BY <1>4, <1>5, <1>6 DEF SyncTyped

LEMMA Allocated ==
    ASSUME SyncTyped
    PROVE  /\ \A k \in Keys : Count(k, month) \in Nat /\ <<k, month>> \in Keys \X Months
           /\ \A k \in Keys : Exists(k) => status[k] \in Statuses
           /\ FeedKeys \subseteq Keys /\ KeysIn(seedRows) \subseteq Keys
           /\ \A p \in Polls : KeysIn(picked[p]) \subseteq Keys /\ KeysIn(writes[p]) \subseteq Keys
  <1> USE DEF SyncTyped, TypeOK
  <1>1. \A k \in Keys : <<k, month>> \in Keys \X Months
    OBVIOUS
  <1>2. \A k \in Keys : Count(k, month) \in Nat
    BY <1>1 DEF Count
  <1>3. \A k \in Keys : Exists(k) => status[k] \in Statuses
    BY DEF Exists
  <1>4. FeedKeys \subseteq Keys
    <2>1. \A n \in DOMAIN feed : feed[n] \in Changes
      OBVIOUS
    <2> QED
      BY <2>1 DEF FeedKeys, Changes
  <1>5. KeysIn(seedRows) \subseteq Keys
    BY DEF KeysIn, SeedRow
  <1>6. \A p \in Polls : KeysIn(picked[p]) \subseteq Keys /\ KeysIn(writes[p]) \subseteq Keys
    BY DEF KeysIn
  <1> QED
    BY <1>1, <1>2, <1>3, <1>4, <1>5, <1>6

(* What authorize(), the flush and Redis do of themselves.                 *)
CallStep ==
    \/ \E k \in Keys : CountUnit(k) \/ Refuse(k) \/ MarkMeta(k) \/ QueueMark(k)
    \/ LoseMark \/ NextMonth \/ Wipe

LEMMA CallStepTyped == ASSUME SyncTyped, CallStep PROVE SyncTyped'
  <1> USE DEF dbVars, redisVars, seedVars, pollVars, histVars, faultVars
  <1>1. /\ UNCHANGED <<status, usage, outbox, feed, changes, linked, seedVars, pollVars>>
        /\ EventsNumbered' /\ WritesPicked'
    <2>1. UNCHANGED <<status, usage, outbox, feed, changes, linked, seedVars, pollVars>>
      BY DEF CallStep, CountUnit, Refuse, MarkMeta, QueueMark, LoseMark, NextMonth, Wipe
    <2> QED
      BY <2>1 DEF SyncTyped, EventsNumbered, WritesPicked, KeysIn
  <1>2. SUFFICES TypeOK'
    BY <1>1 DEF SyncTyped
  <1>3. ASSUME NEW k \in Keys, CountUnit(k) PROVE TypeOK'
    <2>1. Count(k, month) + 1 \in Nat /\ <<k, month>> \in Keys \X Months
      BY Allocated
    <2>2. /\ counter' \in [Keys \X Months -> Nat \cup {Unset}]
          /\ counted' \in [Keys \X Months -> Nat]
      BY <1>3, <2>1 DEF CountUnit, SyncTyped, TypeOK
    <2> QED
      BY <1>1, <1>3, <2>2 DEF CountUnit, SyncTyped, TypeOK
  <1>4. ASSUME NEW k \in Keys, Refuse(k) \/ MarkMeta(k) \/ QueueMark(k) PROVE TypeOK'
    <2>1. denying' \in [Keys -> {"no", "meta", "queue"}]
      BY <1>4 DEF Refuse, MarkMeta, QueueMark, SyncTyped, TypeOK
    <2>2. meta' \in [Keys -> Statuses \cup {NoMeta}]
      BY <1>4 DEF Refuse, MarkMeta, QueueMark, SyncTyped, TypeOK, Statuses
    <2>3. statusQueue' \in Seq(Keys)
      <3>1. statusQueue' = statusQueue \/ statusQueue' = Append(statusQueue, k)
        BY <1>4 DEF Refuse, MarkMeta, QueueMark
      <3>2. statusQueue \in Seq(Keys)
        BY DEF SyncTyped, TypeOK
      <3>3. Append(statusQueue, k) \in Seq(Keys)
        BY <3>2, AppendProperties
      <3> QED
        BY <3>1, <3>2, <3>3, Zenon
    <2>4. UNCHANGED <<counter, month, counted, revoked, missed>>
      BY <1>4 DEF Refuse, MarkMeta, QueueMark
    <2> QED
      BY <1>1, <2>1, <2>2, <2>3, <2>4 DEF SyncTyped, TypeOK
  <1>5. CASE LoseMark
    <2>1. /\ statusQueue' = Tail(statusQueue) /\ statusQueue # <<>>
          /\ missed' = missed \cup {Head(statusQueue)}
          /\ UNCHANGED <<meta, counter, denying, month, counted, revoked>>
      BY <1>5 DEF LoseMark
    <2>2. statusQueue' \in Seq(Keys) /\ missed' \subseteq Keys
      BY <2>1, HeadTailProperties DEF SyncTyped, TypeOK
    <2> QED
      BY <1>1, <2>1, <2>2 DEF SyncTyped, TypeOK
  <1>6. CASE NextMonth
    <2>1. month' \in Months
      BY <1>6, KeySyncAssumption DEF NextMonth, SyncTyped, TypeOK, Months
    <2> QED
      BY <1>1, <1>6, <2>1 DEF NextMonth, SyncTyped, TypeOK
  <1>7. CASE Wipe
    <2>1. /\ meta' \in [Keys -> Statuses \cup {NoMeta}]
          /\ counter' \in [Keys \X Months -> Nat \cup {Unset}]
          /\ statusQueue' \in Seq(Keys) /\ missed' \subseteq Keys
      BY <1>7 DEF Wipe
    <2> QED
      BY <1>1, <1>7, <2>1 DEF Wipe, SyncTyped, TypeOK
  <1> QED
    BY <1>3, <1>4, <1>5, <1>6, <1>7 DEF CallStep

(* The seed, the channel, and what ends them.                              *)
LinkStep ==
    \/ SeedSelect \/ (\E r \in seedRows : SeedMeta(r)) \/ SeedCounter \/ SeedDone
    \/ Join \/ HandleRealtime \/ Drop \/ Crash

LEMMA LinkStepTyped == ASSUME SyncTyped, LinkStep PROVE SyncTyped'
  <1> USE DEF dbVars, redisVars, seedVars, pollVars, histVars, faultVars
  <1>1. /\ UNCHANGED <<status, usage, outbox, changes, statusQueue, month, counted, revoked>>
        /\ Crash \/ UNCHANGED <<denying, ppc, picked, writes>>
    BY DEF LinkStep, SeedSelect, SeedMeta, SeedCounter, SeedDone, Join, HandleRealtime, Drop,
           Crash
  <1>2. EventsNumbered' /\ WritesPicked'
    <2>1. CASE UNCHANGED <<ppc, picked, writes>>
      BY <1>1, <2>1 DEF SyncTyped, EventsNumbered, WritesPicked, KeysIn
    <2>2. CASE Crash
      <3>1. \A p \in Polls : picked'[p] = {} /\ writes'[p] = {}
        BY <2>2 DEF Crash
      <3> QED
        BY <1>1, <3>1 DEF SyncTyped, EventsNumbered, WritesPicked, KeysIn
    <2> QED
      BY <1>1, <2>1, <2>2
  <1>3. SUFFICES TypeOK'
    BY <1>2 DEF SyncTyped
  <1>4. CASE SeedSelect
    <2>1. seedRows' \subseteq SeedRow
      BY <1>4 DEF SeedSelect, SyncTyped, TypeOK, SeedRow, Seeded, Statuses
    <2>2. /\ seedMonth' \in Months /\ missed' \subseteq Keys /\ gpc' = "seeding" /\ ~linked
          /\ UNCHANGED <<feed, linked, meta, counter, seedRow, denying, pollVars>>
      BY <1>4 DEF SeedSelect, SyncTyped, TypeOK
    <2> QED
      BY <1>1, <2>1, <2>2 DEF SyncTyped, TypeOK
  <1>5. ASSUME NEW r \in seedRows, SeedMeta(r) PROVE TypeOK'
    <2>1. r \in SeedRow
      BY DEF SyncTyped, TypeOK
    <2>2. meta' \in [Keys -> Statuses \cup {NoMeta}]
      BY <1>5, <2>1 DEF SeedMeta, SyncTyped, TypeOK, SeedRow
    <2> QED
      BY <1>1, <1>5, <2>1, <2>2 DEF SeedMeta, SyncTyped, TypeOK
  <1>6. CASE SeedCounter
    <2>1. seedRow \in SeedRow /\ <<seedRow.key, seedMonth>> \in Keys \X Months
      BY <1>6 DEF SeedCounter, SyncTyped, TypeOK, SeedRow
    <2>2. SeedValue(seedRow.key, seedRow.usage) \in Nat
      BY <2>1 DEF SeedValue, SyncTyped, TypeOK, SeedRow
    <2>3. counter' \in [Keys \X Months -> Nat \cup {Unset}]
      BY <1>6, <2>1, <2>2 DEF SeedCounter, SyncTyped, TypeOK
    <2> QED
      BY <1>1, <1>6, <2>3 DEF SeedCounter, SyncTyped, TypeOK
  <1>7. CASE SeedDone
    BY <1>1, <1>7 DEF SeedDone, SyncTyped, TypeOK
  <1>8. CASE Join
    BY <1>1, <1>8 DEF Join, SyncTyped, TypeOK
  <1>9. CASE HandleRealtime
    <2>1. feed # <<>> /\ feed' = Tail(feed) /\ Head(feed) \in Changes /\ feed' \in Seq(Changes)
      BY <1>9, HeadTailProperties DEF HandleRealtime, SyncTyped, TypeOK
    <2>2. meta' \in [Keys -> Statuses \cup {NoMeta}]
      BY <1>9, <2>1 DEF HandleRealtime, SetMeta, OldRowHasPrefix, SyncTyped, TypeOK, Changes
    <2>3. UNCHANGED <<linked, counter, seedVars, denying, pollVars, missed>> /\ linked
      BY <1>9, <2>1 DEF HandleRealtime, SyncTyped, TypeOK
    <2> QED
      BY <1>1, <2>1, <2>2, <2>3 DEF SyncTyped, TypeOK
  <1>10. CASE Drop
    <2>1. feed' = <<>> /\ ~linked' /\ linked' \in BOOLEAN /\ missed' \subseteq Keys
      BY <1>10, Allocated DEF Drop, SyncTyped, TypeOK
    <2> QED
      BY <1>1, <1>10, <2>1 DEF Drop, SyncTyped, TypeOK
  <1>11. CASE Crash
    <2>1. missed' \subseteq Keys
      BY <1>11, Allocated DEF Crash, SyncTyped, TypeOK
    <2>2. /\ denying' \in [Keys -> {"no", "meta", "queue"}]
          /\ ppc' \in [Polls -> {"idle", "keys", "write"}]
          /\ picked' = [p \in Polls |-> {}] /\ writes' = [p \in Polls |-> {}]
      <3>1. /\ denying' = [k \in Keys |-> "no"] /\ ppc' = [p \in Polls |-> "idle"]
            /\ picked' = [p \in Polls |-> {}] /\ writes' = [p \in Polls |-> {}]
        BY <1>11, Zenon DEF Crash
      <3> QED
        BY <3>1
    <2>4. /\ picked' \in [Polls -> SUBSET [id : Nat, key : Keys]]
          /\ writes' \in [Polls -> SUBSET [key : Keys, status : Statuses]]
          /\ \A p \in Polls : picked'[p] = {} /\ writes'[p] = {}
      BY <2>2
    <2>5. feed' \in Seq(Changes)
      BY <1>11 DEF Crash
    <2>3. /\ gpc' = "down" /\ linked' = FALSE /\ feed' = <<>>
          /\ seedRows' = {} /\ seedRow' = NoRow
          /\ UNCHANGED <<meta, counter, seedMonth>>
      BY <1>11 DEF Crash
    <2> QED
      BY <1>1, <2>1, <2>2, <2>3, <2>4, <2>5 DEF SyncTyped, TypeOK
  <1> QED
    BY <1>4, <1>5, <1>6, <1>7, <1>8, <1>9, <1>10, <1>11 DEF LinkStep

LEMMA PollTyped == ASSUME SyncTyped, NEW p \in Polls, Poll(p) PROVE SyncTyped'
  <1> USE DEF dbVars, redisVars, seedVars, pollVars, histVars, faultVars
  <1>1. /\ UNCHANGED <<status, usage, changes, feed, linked, counter, statusQueue, seedVars,
                       denying, month, counted, revoked>>
        /\ outbox' \subseteq outbox
    BY DEF Poll, PollSelect, PollKeys, PollWrite, PollConsume
  <1>2. /\ picked[p] \subseteq [id : Nat, key : Keys]
        /\ writes[p] \subseteq [key : Keys, status : Statuses]
        /\ outbox \subseteq [id : Nat, key : Keys]
        /\ ppc \in [Polls -> {"idle", "keys", "write"}]
        /\ picked \in [Polls -> SUBSET [id : Nat, key : Keys]]
        /\ writes \in [Polls -> SUBSET [key : Keys, status : Statuses]]
        /\ meta \in [Keys -> Statuses \cup {NoMeta}]
    BY DEF SyncTyped, TypeOK
  <1>3. SUFFICES
          /\ ppc' \in [Polls -> {"idle", "keys", "write"}]
          /\ picked' \in [Polls -> SUBSET [id : Nat, key : Keys]]
          /\ writes' \in [Polls -> SUBSET [key : Keys, status : Statuses]]
          /\ meta' \in [Keys -> Statuses \cup {NoMeta}] /\ missed' \subseteq Keys
          /\ \A q \in Polls \ {p} : /\ ppc'[q] = ppc[q] /\ picked'[q] = picked[q]
                                    /\ writes'[q] = writes[q]
          /\ picked'[p] \subseteq picked[p] \cup outbox
          /\ ppc'[p] = "idle" => picked'[p] = {} /\ writes'[p] = {}
          /\ KeysIn(writes'[p]) \subseteq KeysIn(picked'[p])
          /\ writes'[p] # {} => ppc'[p] = "write"
    <2>1. TypeOK'
      BY <1>1, <1>2, <1>3 DEF SyncTyped, TypeOK
    <2>2. EventsNumbered'
      BY <1>1, <1>3 DEF SyncTyped, EventsNumbered
    <2>3. WritesPicked'
      BY <1>3 DEF SyncTyped, WritesPicked, KeysIn
    <2> QED
      BY <2>1, <2>2, <2>3 DEF SyncTyped
  <1>4. /\ KeysIn(writes[p]) \subseteq KeysIn(picked[p])
        /\ writes[p] # {} => ppc[p] = "write"
        /\ ppc[p] = "idle" => picked[p] = {} /\ writes[p] = {}
        /\ missed \subseteq Keys
    BY DEF SyncTyped, WritesPicked, TypeOK
  <1>5. CASE PollSelect(p)
    <2>1. /\ ppc[p] = "idle" /\ ppc' = [ppc EXCEPT ![p] = "keys"]
          /\ picked' = [picked EXCEPT ![p] = outbox] /\ UNCHANGED <<writes, meta, missed>>
      BY <1>5 DEF PollSelect
    <2> QED
      BY <1>2, <1>4, <2>1 DEF KeysIn
  <1>6. ASSUME NEW ok \in BOOLEAN, PollKeys(p, ok)
        PROVE  /\ ppc' = [ppc EXCEPT ![p] = "write"] /\ UNCHANGED <<picked, meta>>
               /\ writes' \in [Polls -> SUBSET [key : Keys, status : Statuses]]
               /\ missed' \subseteq Keys
               /\ \A q \in Polls \ {p} : writes'[q] = writes[q]
               /\ KeysIn(writes'[p]) \subseteq KeysIn(picked[p])
    <2> DEFINE found == {k \in KeysIn(picked[p]) : ok /\ Exists(k)}
               read == {[key |-> k, status |-> status[k]] : k \in found}
    <2>1. /\ ppc' = [ppc EXCEPT ![p] = "write"] /\ UNCHANGED <<picked, meta>>
          /\ writes' = [writes EXCEPT ![p] = read]
          /\ missed' = missed \ (found \ KeysIn(seedRows)) \/ missed' = missed \cup KeysIn(picked[p])
      BY <1>6 DEF PollKeys
    <2>2. found \subseteq Keys /\ \A k \in found : status[k] \in Statuses
      BY Allocated
    <2>3. read \subseteq [key : Keys, status : Statuses]
      BY <2>2
    <2>4. KeysIn(read) \subseteq KeysIn(picked[p])
      BY DEF KeysIn
    <2>5. missed' \subseteq Keys
      BY <1>4, <2>1, Allocated
    <2> HIDE DEF found, read
    <2> QED
      BY <1>2, <2>1, <2>3, <2>4, <2>5
  <1>7. ASSUME NEW w \in writes[p], PollWrite(p, w)
        PROVE  /\ UNCHANGED <<ppc, picked, missed>>
               /\ writes' = [writes EXCEPT ![p] = @ \ {w}] /\ ppc[p] = "write"
               /\ meta' \in [Keys -> Statuses \cup {NoMeta}]
    BY <1>2, <1>7 DEF PollWrite, SetMeta
  <1>8. ASSUME NEW ok \in BOOLEAN, PollConsume(p, ok)
        PROVE  /\ ppc' = [ppc EXCEPT ![p] = "idle"] /\ picked' = [picked EXCEPT ![p] = {}]
               /\ writes[p] = {} /\ UNCHANGED <<writes, meta, missed>>
    BY <1>8 DEF PollConsume
  <1>9. ASSUME NEW ok \in BOOLEAN, PollKeys(p, ok)
        PROVE  ppc'[p] = "write" /\ \A q \in Polls \ {p} : ppc'[q] = ppc[q]
    BY <1>2, <1>6, <1>9
  <1> QED
    <2>1. CASE \E ok \in BOOLEAN : PollKeys(p, ok)
      BY <1>2, <1>6, <1>9, <2>1
    <2>2. CASE \E w \in writes[p] : PollWrite(p, w)
      BY <1>2, <1>4, <1>7, <2>2 DEF KeysIn
    <2>3. CASE \E ok \in BOOLEAN : PollConsume(p, ok)
      BY <1>2, <1>4, <1>8, <2>3 DEF KeysIn
    <2> QED
      BY <1>5, <2>1, <2>2, <2>3 DEF Poll

LEMMA Steps ==
    [Next]_vars <=>
        \/ \E k \in Keys : RowStep(k)
        \/ ApplyMark /\ Head(statusQueue) \notin Keys
        \/ CallStep \/ LinkStep \/ (\E p \in Polls : Poll(p))
        \/ Rest \/ UNCHANGED vars
  BY DEF Next, RowStep, CallStep, LinkStep, Boot, ApplyMark

LEMMA NextSyncTyped == SyncTyped /\ [Next]_vars => SyncTyped'
  <1> SUFFICES ASSUME SyncTyped, [Next]_vars PROVE SyncTyped'
    OBVIOUS
  <1>1. ApplyMark => Head(statusQueue) \in Keys
    BY HeadTailProperties DEF ApplyMark, SyncTyped, TypeOK
  <1>2. CASE UNCHANGED vars
    BY <1>2 DEF vars, dbVars, redisVars, seedVars, pollVars, histVars, faultVars, SyncTyped,
                TypeOK, EventsNumbered, WritesPicked, KeysIn
  <1> QED
    BY <1>1, <1>2, Steps, RowStepTyped, CallStepTyped, LinkStepTyped, PollTyped DEF Rest

(* For any keys, polls, restarts and faults the state keeps its type.      *)
THEOREM TypeCorrect == Spec => []TypeOK
  <1>1. SyncTyped => TypeOK
    BY DEF SyncTyped
  <1> QED
    BY <1>1, InitSyncTyped, NextSyncTyped, PTL DEF Spec
-----------------------------------------------------------------------------
(* Then what is to come.                                                   *)
LEMMA InitSyncInv == Init => SyncInv
  <1> SUFFICES ASSUME Init PROVE SyncInv
    OBVIOUS
  <1>1. FeedEndsInRow /\ WritesFollowed /\ SeedFollowed
    BY DEF Init, Start, FeedEndsInRow, WritesFollowed, SeedFollowed
  <1>2. HashOrRepair
    BY DEF Init, Start, HashOrRepair, Exists, Absent
  <1> QED
    BY <1>1, <1>2, InitSyncTyped DEF SyncInv, SyncTyped

(* A change that is sent ends what the channel has of its key.             *)
LEMMA CommitFed ==
    ASSUME SyncInv, NEW k \in Keys, NEW s \in NewStatuses, Commit(k, s)
    PROVE  /\ FeedEndsInRow'
           /\ linked => k \in FeedKeys'
           /\ FeedKeys \subseteq FeedKeys'
  <1>1. feed \in Seq(Changes) /\ (~linked => feed = <<>>)
    BY DEF SyncInv, TypeOK
  <1>2. \A j \in Keys : status'[j] = IF j = k THEN s ELSE status[j]
    BY DEF Commit, SyncInv, TypeOK
  <1>3. CASE linked
    <2> DEFINE e == [key |-> k, status |-> s]
               n1 == Len(feed) + 1
    <2>1. e \in Changes
      BY DEF Changes, NewStatuses
    <2>2. /\ feed' = Append(feed, e) /\ feed' \in Seq(Changes) /\ Len(feed) \in Nat
          /\ DOMAIN feed = 1 .. Len(feed) /\ DOMAIN feed' = 1 .. n1
          /\ \A n \in 1 .. Len(feed) : feed'[n] = feed[n]
          /\ feed'[n1] = e
      BY <1>1, <1>3, <2>1, AppendProperties DEF Commit
    <2>3. n1 \in DOMAIN feed' /\ feed'[n1].key = k /\ feed'[n1].status = s
      BY <2>2
    <2>4. \A n \in DOMAIN feed : n \in DOMAIN feed' /\ n < n1 /\ feed'[n] = feed[n]
      BY <2>2
    <2>5. \A n \in DOMAIN feed : feed[n].key \in Keys
      <3>1. \A n \in DOMAIN feed : feed[n] \in Changes
        BY <1>1
      <3> QED
        BY <3>1 DEF Changes
    <2> HIDE DEF e, n1
    <2>6. FeedEndsInRow'
      <3> SUFFICES ASSUME NEW n \in DOMAIN feed'
                   PROVE  \/ feed'[n].status = status'[feed'[n].key]
                          \/ \E m \in DOMAIN feed' : n < m /\ feed'[m].key = feed'[n].key
        BY DEF FeedEndsInRow
      <3>1. CASE n = n1
        BY <1>2, <2>3, <3>1
      <3>2. CASE n # n1 /\ feed'[n].key = k
        <4>1. n \in DOMAIN feed
          BY <2>2, <3>2 DEF n1
        <4> QED
          BY <2>3, <2>4, <3>2, <4>1
      <3>3. CASE n # n1 /\ feed'[n].key # k
        <4>1. n \in DOMAIN feed
          BY <2>2, <3>3 DEF n1
        <4>2. feed'[n] = feed[n] /\ feed[n].key \in Keys
          BY <2>4, <2>5, <4>1
        <4>3. CASE feed[n].status = status[feed[n].key]
          BY <1>2, <3>3, <4>2, <4>3
        <4>4. CASE \E m \in DOMAIN feed : n < m /\ feed[m].key = feed[n].key
          BY <2>4, <4>2, <4>4
        <4> QED
          BY <4>1, <4>3, <4>4 DEF SyncInv, FeedEndsInRow
      <3> QED
        BY <3>1, <3>2, <3>3
    <2>7. k \in FeedKeys'
      BY <2>3 DEF FeedKeys
    <2>8. FeedKeys \subseteq FeedKeys'
      BY <2>4 DEF FeedKeys
    <2> QED
      BY <2>6, <2>7, <2>8
  <1>4. CASE ~linked
    <2>1. feed = <<>> /\ feed' = <<>>
      BY <1>1, <1>4 DEF Commit
    <2> QED
      BY <1>4, <2>1 DEF FeedEndsInRow, FeedKeys
  <1> QED
    BY <1>3, <1>4

(* A change is to be polled for, if changes are.                           *)
LEMMA CommitUnread ==
    ASSUME SyncInv, NEW k \in Keys, NEW s, Commit(k, s), UNCHANGED <<ppc, picked>>
    PROVE  /\ OutboxWritten => Unread(k)'
           /\ \A j \in Keys : Unread(j) => Unread(j)'
  <1> DEFINE e == [id |-> changes, key |-> k]
  <1>1. ASSUME OutboxWritten PROVE Unread(k)'
    <2>1. e \in outbox' /\ e.key = k
      BY <1>1 DEF Commit
    <2>2. \A p \in Polls : e \notin picked[p]
      <3> SUFFICES ASSUME NEW p \in Polls, e \in picked[p] PROVE FALSE
        OBVIOUS
      <3>1. changes \in Nat /\ e.id < changes
        BY DEF SyncInv, EventsNumbered
      <3> QED
        BY <3>1
    <2> HIDE DEF e
    <2> QED
      BY <2>1, <2>2 DEF Unread
  <1>2. outbox \subseteq outbox'
    BY DEF Commit
  <1> QED
    BY <1>1, <1>2 DEF Unread

LEMMA RowStepFaithful ==
    ASSUME SyncInv, NEW k \in Keys, RowStep(k)
    PROVE  FeedEndsInRow' /\ WritesFollowed' /\ SeedFollowed' /\ HashOrRepair'
  <1>1. SyncTyped
    BY DEF SyncInv, SyncTyped
  <1>2. PICK s \in NewStatuses : Commit(k, s)
    BY <1>1, RowStepCommits
  <1>3. /\ UNCHANGED <<linked, meta, seedRows, denying, ppc, picked, writes>>
        /\ \A n \in DOMAIN statusQueue :
              \/ \E m \in DOMAIN statusQueue' : statusQueue'[m] = statusQueue[n]
              \/ statusQueue[n] = k
    BY <1>1, RowStepCommits DEF seedVars, pollVars
  <1>4. \A j \in Keys : status'[j] = IF j = k THEN s ELSE status[j]
    BY <1>2 DEF Commit, SyncInv, TypeOK
  <1>5. missed \subseteq missed' /\ (~linked => k \in missed')
    BY <1>2 DEF Commit
  <1>6. FeedEndsInRow' /\ (linked => k \in FeedKeys') /\ FeedKeys \subseteq FeedKeys'
    BY <1>2, CommitFed
  <1>7. (OutboxWritten => Unread(k)') /\ \A j \in Keys : Unread(j) => Unread(j)'
    BY <1>2, <1>3, CommitUnread
  <1>8. \A p \in Polls : \A w \in writes[p] : w.key \in Keys
    BY DEF SyncInv, TypeOK
  <1>9. WritesFollowed'
    <2> SUFFICES ASSUME NEW p \in Polls, NEW w \in writes[p]
                 PROVE  w.status = status'[w.key] \/ Unread(w.key)'
      BY <1>3 DEF WritesFollowed
    <2>1. OutboxWritten
      BY <1>1 DEF SyncInv, EventsNumbered, WritesPicked, KeysIn
    <2> QED
      BY <1>4, <1>7, <1>8, <2>1 DEF SyncInv, WritesFollowed
  <1>10. SeedFollowed'
    <2> SUFFICES ASSUME NEW r \in seedRows
                 PROVE  r.status = status'[r.key] \/ r.key \in missed'
      BY <1>3 DEF SeedFollowed
    <2>1. r.key \in Keys /\ ~linked
      BY DEF SyncInv, TypeOK, SeedRow
    <2> QED
      BY <1>4, <1>5, <2>1 DEF SyncInv, SeedFollowed
  <1>11. HashOrRepair'
    <2> SUFFICES ASSUME NEW j \in Keys \ missed', Exists(j)'
                 PROVE  meta[j] = status'[j] \/ Repaired(j)'
      BY <1>3 DEF HashOrRepair
    <2>1. CASE j = k
      BY <1>5, <1>6, <2>1 DEF Repaired
    <2>2. CASE j # k
      <3>1. status'[j] = status[j] /\ Exists(j) /\ j \notin missed
        BY <1>4, <1>5, <2>2 DEF Exists
      <3>2. ASSUME Repaired(j) PROVE Repaired(j)'
        BY <1>3, <1>6, <1>7, <2>2, <3>2 DEF Repaired, KeysIn
      <3> QED
        BY <3>1, <3>2 DEF SyncInv, HashOrRepair
    <2> QED
      BY <2>1, <2>2
  <1> QED
    BY <1>6, <1>9, <1>10, <1>11

LEMMA CallStepFaithful ==
    ASSUME SyncInv, CallStep
    PROVE  FeedEndsInRow' /\ WritesFollowed' /\ SeedFollowed' /\ HashOrRepair'
  <1> USE DEF dbVars, redisVars, seedVars, pollVars, histVars, faultVars
  <1>1. UNCHANGED <<status, outbox, feed, seedRows, ppc, picked, writes>>
    BY DEF CallStep, CountUnit, Refuse, MarkMeta, QueueMark, LoseMark, NextMonth, Wipe
  <1>2. missed \subseteq missed'
    BY DEF CallStep, CountUnit, Refuse, MarkMeta, QueueMark, LoseMark, NextMonth, Wipe, SyncInv,
           TypeOK
  <1>3. FeedEndsInRow' /\ FeedKeys' = FeedKeys
    BY <1>1 DEF SyncInv, FeedEndsInRow, FeedKeys
  <1>4. \A k \in Keys : Unread(k)' <=> Unread(k)
    BY <1>1 DEF Unread
  <1>5. WritesFollowed'
    <2>1. \A p \in Polls : \A w \in writes[p] : w.key \in Keys
      BY DEF SyncInv, TypeOK
    <2> QED
      BY <1>1, <1>4, <2>1 DEF SyncInv, WritesFollowed
  <1>6. SeedFollowed'
    BY <1>1, <1>2 DEF SyncInv, SeedFollowed
  <1>7. ASSUME NEW j \in Keys, j \notin missed'
        PROVE  \/ meta'[j] = meta[j] /\ (Repaired(j) => Repaired(j)')
               \/ Repaired(j)'
    <2> DEFINE kept == \/ meta'[j] = meta[j] /\ (Repaired(j) => Repaired(j)')
                       \/ Repaired(j)'
    <2>1. ASSUME meta'[j] = meta[j], denying[j] = "queue" => denying'[j] = "queue",
                 \A n \in DOMAIN statusQueue : statusQueue[n] = j =>
                     \E m \in DOMAIN statusQueue' : statusQueue'[m] = j
          PROVE  Repaired(j) => Repaired(j)'
      BY <1>1, <1>3, <1>4, <2>1 DEF Repaired, KeysIn
    <2>2. statusQueue \in Seq(Keys)
      BY DEF SyncInv, TypeOK
    <2>3. ASSUME NEW k \in Keys, CountUnit(k) \/ Refuse(k) PROVE kept
      <3>1. UNCHANGED <<meta, statusQueue>> /\ (denying[j] = "queue" => denying'[j] = "queue")
        BY <2>3 DEF CountUnit, Refuse, SyncInv, TypeOK
      <3> QED
        BY <2>1, <3>1
    <2>4. ASSUME NEW k \in Keys, MarkMeta(k) PROVE kept
      <3>1. CASE j = k
        <4>1. denying'[j] = "queue"
          BY <2>4, <3>1 DEF MarkMeta, SyncInv, TypeOK
        <4> QED
          BY <4>1 DEF Repaired
      <3>2. CASE j # k
        <4>1. /\ meta'[j] = meta[j] /\ denying'[j] = denying[j] /\ statusQueue' = statusQueue
          BY <2>4, <3>2 DEF MarkMeta, SyncInv, TypeOK
        <4> QED
          BY <2>1, <4>1
      <3> QED
        BY <3>1, <3>2
    <2>5. ASSUME NEW k \in Keys, QueueMark(k) PROVE kept
      <3>1. statusQueue' = Append(statusQueue, k) /\ meta' = meta
        BY <2>5 DEF QueueMark
      <3>2. /\ DOMAIN statusQueue = 1 .. Len(statusQueue) /\ Len(statusQueue) \in Nat
            /\ DOMAIN Append(statusQueue, k) = 1 .. Len(statusQueue) + 1
            /\ \A n \in 1 .. Len(statusQueue) : Append(statusQueue, k)[n] = statusQueue[n]
            /\ Append(statusQueue, k)[Len(statusQueue) + 1] = k
        BY <2>2, AppendProperties
      <3>3. \A n \in DOMAIN statusQueue : n \in DOMAIN statusQueue' /\ statusQueue'[n] = statusQueue[n]
        BY <3>1, <3>2
      <3>4. \E m \in DOMAIN statusQueue' : statusQueue'[m] = k
        BY <3>1, <3>2
      <3>5. CASE j = k
        BY <3>4, <3>5 DEF Repaired
      <3>6. CASE j # k
        <4>1. denying'[j] = denying[j]
          BY <2>5, <3>6 DEF QueueMark, SyncInv, TypeOK
        <4> QED
          BY <2>1, <3>1, <3>3, <4>1
      <3> QED
        BY <3>5, <3>6
    <2>6. CASE LoseMark
      <3>1. /\ statusQueue # <<>> /\ statusQueue' = Tail(statusQueue)
            /\ Head(statusQueue) \in missed' /\ UNCHANGED <<meta, denying>>
        BY <2>6 DEF LoseMark
      <3>2. /\ Len(Tail(statusQueue)) = Len(statusQueue) - 1 /\ Tail(statusQueue) \in Seq(Keys)
            /\ \A n \in 1 .. Len(Tail(statusQueue)) : Tail(statusQueue)[n] = statusQueue[n + 1]
            /\ Head(statusQueue) = statusQueue[1]
        BY <2>2, <3>1, HeadTailProperties
      <3>3. ASSUME NEW n \in DOMAIN statusQueue, statusQueue[n] = j
            PROVE  \E m \in DOMAIN statusQueue' : statusQueue'[m] = j
        <4>1. n # 1
          BY <1>7, <3>1, <3>2, <3>3
        <4>2. n - 1 \in 1 .. Len(Tail(statusQueue)) /\ DOMAIN Tail(statusQueue) = 1 .. Len(Tail(statusQueue))
          BY <2>2, <3>2, <3>3, <4>1
        <4>3. Tail(statusQueue)[n - 1] = statusQueue[n]
          BY <2>2, <3>2, <3>3, <4>2
        <4> QED
          BY <3>1, <3>3, <4>2, <4>3
      <3> QED
        BY <2>1, <3>1, <3>3
    <2>7. CASE NextMonth
      BY <2>1, <2>7 DEF NextMonth
    <2>8. ~Wipe
      BY <1>7 DEF Wipe
    <2> QED
      BY <2>3, <2>4, <2>5, <2>6, <2>7, <2>8 DEF CallStep
  <1>8. HashOrRepair'
    <2> SUFFICES ASSUME NEW j \in Keys \ missed', Exists(j)'
                 PROVE  meta'[j] = status'[j] \/ Repaired(j)'
      BY DEF HashOrRepair
    <2>1. Exists(j) /\ j \notin missed
      BY <1>1, <1>2 DEF Exists
    <2> QED
      BY <1>1, <1>7, <2>1 DEF SyncInv, HashOrRepair
  <1> QED
    BY <1>3, <1>5, <1>6, <1>8

(* Of a feed that is not empty, the first change and the rest.             *)
LEMMA FeedFront ==
    ASSUME SyncInv, feed # <<>>
    PROVE  /\ Head(feed) = feed[1] /\ 1 \in DOMAIN feed /\ feed[1] \in Changes
           /\ \A n \in DOMAIN feed : n # 1 =>
                 /\ n - 1 \in DOMAIN Tail(feed) /\ Tail(feed)[n - 1] = feed[n] /\ n > 1
           /\ \A n \in DOMAIN Tail(feed) : n + 1 \in DOMAIN feed /\ Tail(feed)[n] = feed[n + 1]
           /\ DOMAIN Tail(feed) \subseteq Nat /\ DOMAIN feed \subseteq Nat
  <1>1. feed \in Seq(Changes)
    BY DEF SyncInv, TypeOK
  <1>2. /\ Head(feed) = feed[1] /\ Tail(feed) \in Seq(Changes)
        /\ Len(feed) \in Nat /\ Len(feed) >= 1 /\ Len(Tail(feed)) = Len(feed) - 1
        /\ \A n \in 1 .. Len(Tail(feed)) : Tail(feed)[n] = feed[n + 1]
    BY <1>1, HeadTailProperties
  <1>3. DOMAIN feed = 1 .. Len(feed) /\ DOMAIN Tail(feed) = 1 .. Len(feed) - 1
    BY <1>1, <1>2
  <1>4. 1 \in DOMAIN feed /\ feed[1] \in Changes
    BY <1>1, <1>2, <1>3
  <1>5. ASSUME NEW n \in DOMAIN feed, n # 1
        PROVE  n - 1 \in DOMAIN Tail(feed) /\ Tail(feed)[n - 1] = feed[n] /\ n > 1
    <2>1. n - 1 \in 1 .. Len(Tail(feed)) /\ n > 1 /\ (n - 1) + 1 = n
      BY <1>2, <1>3, <1>5
    <2>2. Tail(feed)[n - 1] = feed[(n - 1) + 1]
      BY <1>2, <2>1
    <2> QED
      BY <1>2, <1>3, <2>1, <2>2
  <1>6. ASSUME NEW n \in DOMAIN Tail(feed)
        PROVE  n + 1 \in DOMAIN feed /\ Tail(feed)[n] = feed[n + 1]
    BY <1>2, <1>3
  <1> QED
    BY <1>2, <1>3, <1>4, <1>5, <1>6

LEMMA LinkStepFaithful ==
    ASSUME SyncInv, LinkStep
    PROVE  FeedEndsInRow' /\ WritesFollowed' /\ SeedFollowed' /\ HashOrRepair'
  <1> USE DEF dbVars, redisVars, seedVars, pollVars, histVars, faultVars
  <1>1. UNCHANGED <<status, outbox, statusQueue>>
    BY DEF LinkStep, SeedSelect, SeedMeta, SeedCounter, SeedDone, Join, HandleRealtime, Drop,
           Crash
  <1>2. FeedEndsInRow /\ WritesFollowed /\ SeedFollowed /\ HashOrRepair
    BY DEF SyncInv
  <1>3. ASSUME UNCHANGED <<ppc, picked, writes>> PROVE WritesFollowed'
    BY <1>1, <1>2, <1>3 DEF WritesFollowed, Unread
  <1>4. ASSUME UNCHANGED <<ppc, picked, writes, denying>>,
               NEW j \in Keys, j \in FeedKeys => j \in FeedKeys',
               j \in KeysIn(seedRows) => j \in KeysIn(seedRows'), Repaired(j)
        PROVE  Repaired(j)'
    BY <1>1, <1>4 DEF Repaired, Unread, KeysIn
  <1>5. CASE SeedSelect
    <2>1. /\ UNCHANGED <<ppc, picked, writes, denying, feed, meta>> /\ seedRows = {}
          /\ seedRows' = {[key |-> k, status |-> status[k], usage |-> usage[k]] :
                              k \in {j \in Keys : Seeded(j)}}
          /\ missed' = {k \in missed : ~Seeded(k)}
      BY <1>5 DEF SeedSelect, SyncInv, TypeOK
    <2>2. FeedEndsInRow' /\ FeedKeys' = FeedKeys
      BY <1>1, <1>2, <2>1 DEF FeedEndsInRow, FeedKeys
    <2>3. SeedFollowed'
      BY <1>1, <2>1 DEF SeedFollowed
    <2>4. HashOrRepair'
      <3> SUFFICES ASSUME NEW j \in Keys \ missed', Exists(j)
                   PROVE  meta[j] = status[j] \/ Repaired(j)'
        BY <1>1, <2>1 DEF HashOrRepair, Exists
      <3>1. CASE j \notin missed
        <4>1. j \notin KeysIn(seedRows)
          BY <2>1 DEF KeysIn
        <4> QED
          BY <1>2, <1>4, <2>1, <2>2, <3>1, <4>1 DEF HashOrRepair
      <3>2. CASE j \in missed
        <4>1. Seeded(j)
          BY <2>1, <3>2
        <4>2. [key |-> j, status |-> status[j], usage |-> usage[j]] \in seedRows'
          BY <2>1, <4>1
        <4>3. j \in KeysIn(seedRows')
          BY <4>2 DEF KeysIn
        <4> QED
          BY <4>3 DEF Repaired, KeysIn
      <3> QED
        BY <3>1, <3>2
    <2> QED
      BY <1>3, <2>1, <2>2, <2>3, <2>4
  <1>6. ASSUME NEW r \in seedRows, SeedMeta(r)
        PROVE  FeedEndsInRow' /\ WritesFollowed' /\ SeedFollowed' /\ HashOrRepair'
    <2>1. /\ UNCHANGED <<ppc, picked, writes, denying, feed, missed>>
          /\ seedRows' = seedRows \ {r} /\ meta' = [meta EXCEPT ![r.key] = r.status]
      BY <1>6 DEF SeedMeta
    <2>2. FeedEndsInRow' /\ FeedKeys' = FeedKeys
      BY <1>1, <1>2, <2>1 DEF FeedEndsInRow, FeedKeys
    <2>3. SeedFollowed'
      BY <1>1, <1>2, <2>1 DEF SeedFollowed
    <2>4. HashOrRepair'
      <3> SUFFICES ASSUME NEW j \in Keys \ missed, Exists(j)
                   PROVE  meta'[j] = status[j] \/ Repaired(j)'
        BY <1>1, <2>1 DEF HashOrRepair, Exists
      <3>1. CASE j = r.key
        BY <1>2, <2>1, <3>1 DEF SeedFollowed, SyncInv, TypeOK
      <3>2. CASE j # r.key
        <4>1. meta'[j] = meta[j]
          BY <2>1, <3>2 DEF SyncInv, TypeOK
        <4>2. j \in KeysIn(seedRows) => j \in KeysIn(seedRows')
          BY <2>1, <3>2 DEF KeysIn
        <4> QED
          BY <1>2, <1>4, <2>1, <2>2, <4>1, <4>2 DEF HashOrRepair
      <3> QED
        BY <3>1, <3>2
    <2> QED
      BY <1>3, <2>1, <2>2, <2>3, <2>4
  <1>7. CASE SeedCounter \/ SeedDone \/ Join
    <2>1. UNCHANGED <<ppc, picked, writes, denying, feed, missed, seedRows, meta>>
      BY <1>7 DEF SeedCounter, SeedDone, Join
    <2>2. FeedEndsInRow' /\ FeedKeys' = FeedKeys
      BY <1>1, <1>2, <2>1 DEF FeedEndsInRow, FeedKeys
    <2>3. SeedFollowed'
      BY <1>1, <1>2, <2>1 DEF SeedFollowed
    <2>4. HashOrRepair'
      BY <1>1, <1>2, <1>4, <2>1, <2>2 DEF HashOrRepair, Exists
    <2> QED
      BY <1>3, <2>1, <2>2, <2>3, <2>4
  <1>8. CASE HandleRealtime
    <2>1. /\ UNCHANGED <<ppc, picked, writes, denying, missed, seedRows>>
          /\ feed # <<>> /\ feed' = Tail(feed)
      BY <1>8 DEF HandleRealtime
    <2>2. /\ Head(feed) = feed[1] /\ 1 \in DOMAIN feed /\ feed[1] \in Changes
          /\ \A n \in DOMAIN feed : n # 1 =>
                /\ n - 1 \in DOMAIN feed' /\ feed'[n - 1] = feed[n] /\ n > 1
          /\ \A n \in DOMAIN feed' : n + 1 \in DOMAIN feed /\ feed'[n] = feed[n + 1]
          /\ DOMAIN feed' \subseteq Nat /\ DOMAIN feed \subseteq Nat
      BY <2>1, FeedFront
    <2>3. /\ feed[1].key \in Keys
          /\ feed[1].status # "deleted" => meta' = [meta EXCEPT ![feed[1].key] = feed[1].status]
          /\ feed[1].status = "deleted" => meta' = meta
      BY <1>8, <2>2 DEF HandleRealtime, SetMeta, OldRowHasPrefix, Changes
    <2>4. FeedEndsInRow'
      <3> SUFFICES ASSUME NEW n \in DOMAIN feed'
                   PROVE  \/ feed'[n].status = status[feed'[n].key]
                          \/ \E m \in DOMAIN feed' : n < m /\ feed'[m].key = feed'[n].key
        BY <1>1 DEF FeedEndsInRow
      <3>1. n + 1 \in DOMAIN feed /\ feed'[n] = feed[n + 1] /\ n \in Nat
        BY <2>2
      <3>2. CASE \E m \in DOMAIN feed : n + 1 < m /\ feed[m].key = feed[n + 1].key
        <4>1. PICK m \in DOMAIN feed : n + 1 < m /\ feed[m].key = feed[n + 1].key
          BY <3>2
        <4>2. m \in Nat /\ m # 1 /\ n < m - 1
          BY <2>2, <3>1, <4>1
        <4>3. m - 1 \in DOMAIN feed' /\ feed'[m - 1] = feed[m]
          BY <2>2, <4>2
        <4> QED
          BY <3>1, <4>1, <4>2, <4>3
      <3> QED
        BY <1>2, <3>1, <3>2 DEF FeedEndsInRow
    <2>5. \A n \in DOMAIN feed : n # 1 => feed[n].key \in FeedKeys'
      BY <2>2 DEF FeedKeys
    <2>6. HashOrRepair'
      <3> SUFFICES ASSUME NEW j \in Keys \ missed, Exists(j)
                   PROVE  meta'[j] = status[j] \/ Repaired(j)'
        BY <1>1, <2>1 DEF HashOrRepair, Exists
      <3>1. CASE j = feed[1].key
        <4>1. CASE feed[1].status = status[j]
          BY <2>3, <3>1, <4>1 DEF Exists, Absent, SyncInv, TypeOK
        <4>2. CASE feed[1].status # status[j]
          <5>1. PICK m \in DOMAIN feed : 1 < m /\ feed[m].key = j
            BY <1>2, <2>2, <3>1, <4>2 DEF FeedEndsInRow
          <5>2. j \in FeedKeys'
            BY <2>2, <2>5, <5>1
          <5> QED
            BY <5>2 DEF Repaired
        <4> QED
          BY <4>1, <4>2
      <3>2. CASE j # feed[1].key
        <4>1. meta'[j] = meta[j]
          BY <2>3, <3>2 DEF SyncInv, TypeOK
        <4>2. j \in FeedKeys => j \in FeedKeys'
          BY <2>5, <3>2 DEF FeedKeys
        <4> QED
          BY <1>2, <1>4, <2>1, <4>1, <4>2 DEF HashOrRepair
      <3> QED
        BY <3>1, <3>2
    <2>7. SeedFollowed'
      BY <1>1, <1>2, <2>1 DEF SeedFollowed
    <2> QED
      BY <1>3, <2>1, <2>4, <2>6, <2>7
  <1>9. CASE Drop
    <2>1. /\ UNCHANGED <<ppc, picked, writes, denying, seedRows, meta>>
          /\ feed' = <<>> /\ missed' = missed \cup FeedKeys
      BY <1>9 DEF Drop
    <2>2. FeedEndsInRow'
      BY <2>1 DEF FeedEndsInRow
    <2>3. SeedFollowed'
      BY <1>1, <1>2, <2>1 DEF SeedFollowed
    <2>4. HashOrRepair'
      BY <1>1, <1>2, <1>4, <2>1 DEF HashOrRepair, Exists
    <2> QED
      BY <1>3, <2>1, <2>2, <2>3, <2>4
  <1>10. CASE Crash
    <2>1. /\ feed' = <<>> /\ seedRows' = {} /\ meta' = meta
          /\ ppc' = [p \in Polls |-> "idle"]
          /\ writes' = [p \in Polls |-> {}]
          /\ missed' = missed \cup FeedKeys \cup KeysIn(seedRows)
                          \cup (UNION {KeysIn(writes[p]) : p \in Polls})
                          \cup {k \in Keys : denying[k] # "no"}
      BY <1>10 DEF Crash
    <2>2. FeedEndsInRow' /\ WritesFollowed' /\ SeedFollowed'
      BY <2>1 DEF FeedEndsInRow, WritesFollowed, SeedFollowed
    <2>3. HashOrRepair'
      <3> SUFFICES ASSUME NEW j \in Keys \ missed', Exists(j), meta[j] # status[j]
                   PROVE  Repaired(j)'
        BY <1>1, <2>1 DEF HashOrRepair, Exists
      <3>1. /\ j \notin missed /\ j \notin FeedKeys /\ j \notin KeysIn(seedRows)
            /\ \A p \in Polls : j \notin KeysIn(writes[p])
            /\ denying[j] # "queue"
        BY <2>1
      <3>2. Unread(j) \/ \E n \in DOMAIN statusQueue : statusQueue[n] = j
        BY <1>2, <3>1 DEF HashOrRepair, Repaired
      <3>3. Unread(j) => Unread(j)'
        BY <1>1, <2>1 DEF Unread
      <3> QED
        BY <1>1, <3>2, <3>3 DEF Repaired
    <2> QED
      BY <2>2, <2>3
  <1> QED
    BY <1>5, <1>6, <1>7, <1>8, <1>9, <1>10 DEF LinkStep

(* With one poll at a time, nothing it reads is consumed unwritten.        *)
LEMMA PollFaithful ==
    ASSUME SyncInv, NEW p \in Polls, \A q \in Polls : q = p, Poll(p)
    PROVE  FeedEndsInRow' /\ WritesFollowed' /\ SeedFollowed' /\ HashOrRepair'
  <1> USE DEF dbVars, redisVars, seedVars, pollVars, histVars, faultVars
  <1>1. UNCHANGED <<status, feed, statusQueue, seedRows, denying>>
    BY DEF Poll, PollSelect, PollKeys, PollWrite, PollConsume
  <1>2. FeedEndsInRow /\ WritesFollowed /\ SeedFollowed /\ HashOrRepair
    BY DEF SyncInv
  <1>3. FeedEndsInRow' /\ FeedKeys' = FeedKeys
    BY <1>1, <1>2 DEF FeedEndsInRow, FeedKeys
  <1>4. /\ writes[p] # {} => ppc[p] = "write"
        /\ \A w \in writes[p] : w.key \in Keys
        /\ DOMAIN ppc = Polls /\ DOMAIN picked = Polls /\ DOMAIN writes = Polls
        /\ DOMAIN meta = Keys
    BY DEF SyncInv, WritesPicked, TypeOK
  <1>5. ASSUME NEW j \in Keys, Unread(j) => Unread(j)',
               j \in KeysIn(writes[p]) => j \in KeysIn(writes'[p]), Repaired(j)
        PROVE  Repaired(j)'
    BY <1>1, <1>3, <1>5 DEF Repaired, KeysIn
  <1>6. CASE PollSelect(p)
    <2>1. /\ UNCHANGED <<meta, missed, outbox, writes>> /\ ppc'[p] = "keys"
      BY <1>4, <1>6 DEF PollSelect
    <2>2. \A j \in Keys : Unread(j) => Unread(j)'
      BY <2>1 DEF Unread
    <2>3. WritesFollowed' /\ SeedFollowed'
      BY <1>1, <1>2, <1>4, <2>1, <2>2 DEF WritesFollowed, SeedFollowed
    <2>4. HashOrRepair'
      BY <1>1, <1>2, <1>5, <2>1, <2>2 DEF HashOrRepair, Exists
    <2> QED
      BY <1>3, <2>3, <2>4
  <1>7. ASSUME NEW ok \in BOOLEAN, PollKeys(p, ok)
        PROVE  FeedEndsInRow' /\ WritesFollowed' /\ SeedFollowed' /\ HashOrRepair'
    <2> DEFINE found == {k \in KeysIn(picked[p]) : ok /\ Exists(k)}
    <2>1. /\ ppc[p] = "keys" /\ writes[p] = {}
          /\ UNCHANGED <<meta, outbox, picked>>
          /\ writes'[p] = {[key |-> k, status |-> status[k]] : k \in found}
          /\ missed' = IF ok THEN missed \ (found \ KeysIn(seedRows))
                             ELSE missed \cup KeysIn(picked[p])
      BY <1>4, <1>7 DEF PollKeys
    <2>2. WritesFollowed'
      <3> SUFFICES ASSUME NEW w \in writes'[p] PROVE w.status = status[w.key]
        BY <1>1 DEF WritesFollowed
      <3> QED
        BY <2>1
    <2>3. SeedFollowed'
      <3>1. \A r \in seedRows : r.key \in KeysIn(seedRows)
        BY DEF KeysIn
      <3>2. \A r \in seedRows : r.key \in missed => r.key \in missed'
        BY <2>1, <3>1
      <3> QED
        BY <1>1, <1>2, <3>2 DEF SeedFollowed
    <2>4. HashOrRepair'
      <3> SUFFICES ASSUME NEW j \in Keys \ missed', Exists(j)
                   PROVE  meta[j] = status[j] \/ Repaired(j)'
        BY <1>1, <2>1 DEF HashOrRepair, Exists
      <3>1. CASE j \in KeysIn(picked[p])
        <4>1. j \in found
          BY <2>1, <3>1
        <4>2. [key |-> j, status |-> status[j]] \in writes'[p]
          BY <2>1, <4>1
        <4>3. j \in KeysIn(writes'[p])
          BY <4>2 DEF KeysIn
        <4> QED
          BY <4>3 DEF Repaired, KeysIn
      <3>2. CASE j \notin KeysIn(picked[p])
        <4>1. j \notin missed
          BY <2>1, <3>2
        <4>2. Unread(j) => Unread(j)'
          BY <2>1, <3>2 DEF Unread, KeysIn
        <4>3. j \notin KeysIn(writes[p])
          BY <2>1 DEF KeysIn
        <4> QED
          BY <1>2, <1>5, <4>1, <4>2, <4>3 DEF HashOrRepair
      <3> QED
        BY <3>1, <3>2
    <2> QED
      BY <1>3, <2>2, <2>3, <2>4
  <1>8. ASSUME NEW w \in writes[p], PollWrite(p, w)
        PROVE  FeedEndsInRow' /\ WritesFollowed' /\ SeedFollowed' /\ HashOrRepair'
    <2>1. /\ UNCHANGED <<missed, outbox, ppc, picked>>
          /\ writes'[p] = writes[p] \ {w} /\ w.key \in Keys
          /\ meta' = [meta EXCEPT ![w.key] = w.status]
      BY <1>4, <1>8 DEF PollWrite, SetMeta
    <2>2. \A j \in Keys : Unread(j) => Unread(j)'
      BY <2>1 DEF Unread
    <2>3. WritesFollowed' /\ SeedFollowed'
      BY <1>1, <1>2, <1>4, <2>1, <2>2 DEF WritesFollowed, SeedFollowed
    <2>4. HashOrRepair'
      <3> SUFFICES ASSUME NEW j \in Keys \ missed, Exists(j)
                   PROVE  meta'[j] = status[j] \/ Repaired(j)'
        BY <1>1, <2>1 DEF HashOrRepair, Exists
      <3>1. CASE j = w.key
        <4>1. w.status = status[j] \/ Unread(j)'
          BY <1>2, <2>2, <3>1 DEF WritesFollowed
        <4> QED
          BY <1>4, <2>1, <3>1, <4>1 DEF Repaired
      <3>2. CASE j # w.key
        <4>1. meta'[j] = meta[j]
          BY <1>4, <2>1, <3>2
        <4>2. j \in KeysIn(writes[p]) => j \in KeysIn(writes'[p])
          BY <2>1, <3>2 DEF KeysIn
        <4> QED
          BY <1>2, <1>5, <2>2, <4>1, <4>2 DEF HashOrRepair
      <3> QED
        BY <3>1, <3>2
    <2> QED
      BY <1>3, <2>3, <2>4
  <1>9. ASSUME NEW ok \in BOOLEAN, PollConsume(p, ok)
        PROVE  FeedEndsInRow' /\ WritesFollowed' /\ SeedFollowed' /\ HashOrRepair'
    <2>1. /\ UNCHANGED <<meta, missed, writes>> /\ ppc[p] = "write" /\ writes[p] = {}
          /\ ppc'[p] = "idle" /\ outbox \ picked[p] \subseteq outbox'
      BY <1>4, <1>9 DEF PollConsume
    <2>2. \A j \in Keys : Unread(j) => Unread(j)'
      BY <2>1 DEF Unread
    <2>3. WritesFollowed' /\ SeedFollowed'
      BY <1>1, <1>2, <2>1 DEF WritesFollowed, SeedFollowed
    <2>4. HashOrRepair'
      BY <1>1, <1>2, <1>5, <2>1, <2>2 DEF HashOrRepair, Exists
    <2> QED
      BY <1>3, <2>3, <2>4
  <1> QED
    BY <1>6, <1>7, <1>8, <1>9 DEF Poll

LEMMA NextSyncInv ==
    ASSUME \A p, q \in Polls : p = q
    PROVE  SyncInv /\ [Next]_vars => SyncInv'
  <1> SUFFICES ASSUME SyncInv, [Next]_vars
               PROVE  FeedEndsInRow' /\ WritesFollowed' /\ SeedFollowed' /\ HashOrRepair'
    BY NextSyncTyped DEF SyncInv, SyncTyped
  <1>1. ApplyMark => Head(statusQueue) \in Keys
    BY HeadTailProperties DEF ApplyMark, SyncInv, TypeOK
  <1>2. CASE UNCHANGED vars
    BY <1>2 DEF vars, dbVars, redisVars, seedVars, pollVars, histVars, faultVars, SyncInv,
                FeedEndsInRow, WritesFollowed, SeedFollowed, HashOrRepair, Repaired, Unread,
                FeedKeys, KeysIn, Exists
  <1> QED
    BY <1>1, <1>2, Steps, RowStepFaithful, CallStepFaithful, LinkStepFaithful, PollFaithful
       DEF Rest

(* However seed, Realtime, polls, refused calls and flushes interleave,    *)
(* once all is handled the hash of a key says what its row says, but for   *)
(* keys with a change that fell where nothing is sent; as long as no two   *)
(* polls run at once.                                                      *)
THEOREM HashesFollowRows ==
    ASSUME \A p, q \in Polls : p = q
    PROVE  Spec => []MetaFollowsRows
  <1>1. SyncInv => MetaFollowsRows
    <2> SUFFICES ASSUME SyncInv, AtRest, NEW k \in Keys \ missed, Exists(k)
                 PROVE  meta[k] = status[k]
      BY DEF MetaFollowsRows
    <2>1. k \notin FeedKeys
      BY DEF AtRest, FeedKeys
    <2>2. k \notin KeysIn(seedRows)
      BY DEF AtRest, SyncInv, TypeOK, KeysIn
    <2>3. ~Unread(k)
      BY DEF AtRest, Unread
    <2>4. \A p \in Polls : k \notin KeysIn(writes[p])
      BY DEF AtRest, SyncInv, TypeOK, KeysIn
    <2>5. denying[k] # "queue" /\ \A n \in DOMAIN statusQueue : statusQueue[n] # k
      BY DEF AtRest
    <2> QED
      BY <2>1, <2>2, <2>3, <2>4, <2>5 DEF SyncInv, HashOrRepair, Repaired
  <1> QED
    BY <1>1, InitSyncInv, NextSyncInv, PTL DEF Spec
=============================================================================
