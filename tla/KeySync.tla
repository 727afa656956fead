------------------------------ MODULE KeySync ------------------------------
(***************************************************************************)
(* How a row of api_keys reaches the hash key:meta:{prefix} authorize()    *)
(* reads: the seed at start-up (BootstrapService), Supabase Realtime and   *)
(* the poller of gateway_sync_events (KeysService), next to the two places *)
(* where the gateway writes the status itself: authorize(), which marks an *)
(* exhausted key in Redis and queues the mark, and UsageService, which     *)
(* writes the mark and the mirror of the counter into the row.             *)
(*                                                                         *)
(* Of the hash and the row only the status changes after a key is created, *)
(* so the status stands for both.                                          *)
(***************************************************************************)
EXTENDS Integers, Sequences, FiniteSets

CONSTANTS
    Keys,           \* the keys that may be created
    Polls,          \* slots for polls running at once
    Realtime,       \* does the client have Realtime?
    OutboxWritten,  \* does anything write gateway_sync_events?  Nothing does yet
    SlowSeed        \* may the seed outlast the poller's first interval (15 s)?

CONSTANTS           \* bounds for model checking
    MaxMonth,       \* the calendar stops here
    MaxChanges,     \* changes to rows, those for a refused call not counted
    MaxDeletes,     \* rows deleted
    MaxUnits,       \* units ever counted
    MaxDenials,     \* calls ever refused for an exhausted quota
    MaxDrops,       \* losses of the Realtime connection
    MaxCrashes,     \* deaths of the gateway
    MaxWipes,       \* losses of Redis' data
    MaxFaults       \* failed calls of the database

Months   == 0 .. MaxMonth
Statuses == {"active", "exhausted", "revoked"}
Absent   == {"unborn", "deleted"}           \* no such row
NoMeta   == "none"                          \* no such hash
Unset    == -1                              \* no such counter

ASSUME KeySyncAssumption == 
    MaxMonth \in Nat /\ {Realtime, OutboxWritten, SlowSeed} \subseteq BOOLEAN

VARIABLES           \* Postgres
    status,         \* status[k]: api_keys.status, or why there is no row
    usage,          \* usage[k]: current_usage
    outbox,         \* gateway_sync_events not consumed: [id, key]
    feed,           \* changes Realtime has sent and the gateway not handled
    linked          \* is the Realtime channel joined?

VARIABLES           \* Redis
    meta,           \* meta[k]: status in key:meta:{prefix}
    counter,        \* counter[k, month]
    statusQueue     \* key:status:queue, oldest first

VARIABLES           \* the gateway
    gpc,            \* "down", "seeding" or "up"
    seedRows,       \* rows read by the seed, not written yet
    seedRow,        \* the row whose counter is to be seeded now
    seedMonth,      \* the month the seed was started in
    denying,        \* denying[k]: what a call refusing key k has still to do
    ppc, picked, writes \* where poll p is, its events, its rows to write

VARIABLES           \* the calendar, history and what the bounds count
    month,
    counted,        \* counted[k, month]: units counted for calls let through
    revoked,        \* keys their owner revoked
    missed,         \* keys with a change Redis is not going to be told of
    changes, units, denials, drops, crashes, wipes, faults

dbVars   == <<status, usage, outbox, feed, changes>>
redisVars == <<meta, counter, statusQueue>>
seedVars == <<gpc, seedRows, seedRow, seedMonth>>
pollVars == <<ppc, picked, writes>>
histVars == <<month, counted, revoked, units>>
faultVars == <<drops, crashes, wipes, faults>>
vars == <<dbVars, linked, redisVars, seedVars, denying, pollVars, histVars, missed,
          denials, faultVars>>

NoRow == [key |-> "no row"]
-----------------------------------------------------------------------------
(* A database without keys, and a gateway that is g and has joined the     *)
(* Realtime channel or not.                                                *)
Start(g, joined) ==
    /\ status = [k \in Keys |-> "unborn"]
    /\ usage = [k \in Keys |-> 0]
    /\ outbox = {} /\ feed = <<>> /\ linked = joined
    /\ meta = [k \in Keys |-> NoMeta]
    /\ counter = [km \in Keys \X Months |-> Unset]
    /\ statusQueue = <<>>
    /\ gpc = g /\ seedRows = {} /\ seedRow = NoRow /\ seedMonth = 0
    /\ denying = [k \in Keys |-> "no"]
    /\ ppc = [p \in Polls |-> "idle"]
    /\ picked = [p \in Polls |-> {}]
    /\ writes = [p \in Polls |-> {}]
    /\ month = 0
    /\ counted = [km \in Keys \X Months |-> 0]
    /\ revoked = {} /\ missed = {}
    /\ changes = 0 /\ units = 0 /\ denials = 0
    /\ drops = 0 /\ crashes = 0 /\ wipes = 0 /\ faults = 0

Init == Start("down", FALSE)

Count(k, m) == IF counter[<<k, m>>] = Unset THEN 0 ELSE counter[<<k, m>>]
Exists(k) == status[k] \notin Absent
KeysIn(rows) == {r.key : r \in rows}
FeedKeys == {feed[n].key : n \in DOMAIN feed}

(* A change of k's row: Realtime sends the new row to a channel that is    *)
(* joined.  An outbox would have an event added with it, but nothing in    *)
(* the repository does: OutboxWritten = TRUE is the system keys.service.ts *)
(* was written for.                                                        *)
Commit(k, s) ==
    /\ changes' = changes + 1
    /\ status' = [status EXCEPT ![k] = s]
    /\ feed' = IF linked THEN Append(feed, [key |-> k, status |-> s]) ELSE feed
    /\ missed' = IF linked THEN missed ELSE missed \cup {k}
    /\ outbox' = IF OutboxWritten THEN outbox \cup {[id |-> changes, key |-> k]} ELSE outbox
-----------------------------------------------------------------------------
(* The portal inserts a key, its owner revokes it, an account is deleted.  *)
CreateKey(k) ==
    /\ status[k] = "unborn" /\ changes < MaxChanges
    /\ Commit(k, "active")
    /\ UNCHANGED <<usage, linked, redisVars, seedVars, denying, pollVars, histVars,
                   denials, faultVars>>

RevokeKey(k) ==
    /\ Exists(k) /\ changes < MaxChanges
    /\ Commit(k, "revoked")
    /\ revoked' = revoked \cup {k}
    /\ UNCHANGED <<usage, linked, redisVars, seedVars, denying, pollVars, month,
                   counted, units, denials, faultVars>>

DeleteKey(k) ==
    /\ Exists(k) /\ changes < MaxChanges
    /\ Cardinality({j \in Keys : status[j] = "deleted"}) < MaxDeletes
    /\ Commit(k, "deleted")
    /\ UNCHANGED <<usage, linked, redisVars, seedVars, denying, pollVars, histVars,
                   denials, faultVars>>

NextMonth ==
    /\ month < MaxMonth
    /\ month' = month + 1
    /\ UNCHANGED <<dbVars, linked, redisVars, seedVars, denying, pollVars, counted,
                   revoked, units, missed, denials, faultVars>>
-----------------------------------------------------------------------------
(* authorize(), seen from here: a unit is counted for a key whose hash     *)
(* does not say revoked ...                                                *)
CountUnit(k) ==
    /\ gpc = "up" /\ meta[k] \in {"active", "exhausted"}
    /\ units < MaxUnits
    /\ units' = units + 1
    /\ counter' = [counter EXCEPT ![<<k, month>>] = Count(k, month) + 1]
    /\ counted' = [counted EXCEPT ![<<k, month>>] = @ + 1]
    /\ UNCHANGED <<dbVars, linked, meta, statusQueue, seedVars, denying, pollVars,
                   month, revoked, missed, denials, faultVars>>

(* ... or the key is refused: the hash is marked, whatever became of it    *)
(* since it was read, and the mark is queued for the row.                  *)
Refuse(k) ==
    /\ gpc = "up" /\ meta[k] \in {"active", "exhausted"} /\ Count(k, month) > 0
    /\ denying[k] = "no" /\ denials < MaxDenials
    /\ denials' = denials + 1
    /\ denying' = [denying EXCEPT ![k] = "meta"]
    /\ UNCHANGED <<dbVars, linked, redisVars, seedVars, pollVars, histVars, missed,
                   faultVars>>

MarkMeta(k) ==
    /\ denying[k] = "meta"
    /\ denying' = [denying EXCEPT ![k] = "queue"]
    /\ meta' = IF meta[k] = NoMeta THEN meta ELSE [meta EXCEPT ![k] = "exhausted"]
    /\ UNCHANGED <<dbVars, linked, counter, statusQueue, seedVars, pollVars, histVars,
                   missed, denials, faultVars>>

QueueMark(k) ==
    /\ denying[k] = "queue"
    /\ denying' = [denying EXCEPT ![k] = "no"]
    /\ statusQueue' = Append(statusQueue, k)
    /\ UNCHANGED <<dbVars, linked, meta, counter, seedVars, pollVars, histVars, missed,
                   denials, faultVars>>

(* UsageService.flushKeyStatuses: the row becomes exhausted whatever it    *)
(* was; an entry whose update failed is gone.                              *)
ApplyMark ==
    /\ gpc # "down" /\ statusQueue # <<>> /\ Exists(Head(statusQueue))
    /\ statusQueue' = Tail(statusQueue)
    /\ Commit(Head(statusQueue), "exhausted")
    /\ UNCHANGED <<usage, linked, meta, counter, seedVars, denying, pollVars, histVars,
                   denials, faultVars>>

LoseMark ==
    /\ gpc # "down" /\ statusQueue # <<>>
    /\ ~Exists(Head(statusQueue)) \/ faults < MaxFaults
    /\ faults' = IF Exists(Head(statusQueue)) THEN faults + 1 ELSE faults
    /\ statusQueue' = Tail(statusQueue)
    /\ missed' = missed \cup {Head(statusQueue)}
    /\ UNCHANGED <<dbVars, linked, meta, counter, seedVars, denying, pollVars, histVars,
                   denials, drops, crashes, wipes>>

(* UsageService.flush: current_usage becomes the counter of the month the  *)
(* flush was started in, as it was when it was read.                       *)
MirrorUsage(k, m, n) ==
    /\ gpc # "down" /\ Exists(k) /\ m <= month /\ n <= Count(k, m)
    /\ usage[k] # n /\ changes < MaxChanges
    /\ Commit(k, status[k])
    /\ usage' = [usage EXCEPT ![k] = n]
    /\ UNCHANGED <<linked, redisVars, seedVars, denying, pollVars, histVars, denials,
                   faultVars>>
-----------------------------------------------------------------------------
SetMetaOnce(k, s) ==                       \* mutant: a hash that is there is kept
    [meta EXCEPT ![k] = IF @ = NoMeta THEN s ELSE @]
SetMeta(k, s) == [meta EXCEPT ![k] = s]

(* BootstrapService.seed: the rows of active_keys_bootstrap ...            *)
Seeded(k) == status[k] \in {"active", "exhausted"}

SeedSelect ==
    /\ gpc = "down"
    /\ gpc' = "seeding"
    /\ seedRows' = {[key |-> k, status |-> status[k], usage |-> usage[k]] :
                        k \in {j \in Keys : Seeded(j)}}
    /\ seedMonth' = month
    /\ missed' = {k \in missed : ~Seeded(k)}
    /\ UNCHANGED <<dbVars, linked, redisVars, seedRow, denying, pollVars, histVars,
                   denials, faultVars>>

(* ... are written to Redis one by one: the hash, ...                      *)
SeedMeta(r) ==
    /\ gpc = "seeding" /\ seedRow = NoRow /\ r \in seedRows
    /\ meta' = [meta EXCEPT ![r.key] = r.status]
    /\ seedRow' = r
    /\ seedRows' = seedRows \ {r}
    /\ UNCHANGED <<dbVars, linked, counter, statusQueue, gpc, seedMonth, denying,
                   pollVars, histVars, missed, denials, faultVars>>

SeedClobbers(k, n) == n                               \* mutant: SET without NX
SeedAdds(k, n) == Count(k, seedMonth) + n             \* mutant: INCRBY
SeedValue(k, n) ==
    IF counter[<<k, seedMonth>>] = Unset THEN n ELSE counter[<<k, seedMonth>>]

(* ... and the counter of the month, unless Redis has it.                  *)
SeedCounter ==
    /\ gpc = "seeding" /\ seedRow # NoRow
    /\ counter' = [counter EXCEPT ![<<seedRow.key, seedMonth>>] =
                       SeedValue(seedRow.key, seedRow.usage)]
    /\ seedRow' = NoRow
    /\ UNCHANGED <<dbVars, linked, meta, statusQueue, gpc, seedRows, seedMonth, denying,
                   pollVars, histVars, missed, denials, faultVars>>

(* Mutant: the seed does not wait for its writes. *)
SeedDoneEarly ==
    /\ gpc = "seeding" /\ seedRow = NoRow
    /\ gpc' = "up"
    /\ UNCHANGED <<dbVars, linked, redisVars, seedRows, seedRow, seedMonth, denying,
                   pollVars, histVars, missed, denials, faultVars>>

SeedDone ==
    /\ gpc = "seeding" /\ seedRow = NoRow /\ seedRows = {}
    /\ gpc' = "up"
    /\ UNCHANGED <<dbVars, linked, redisVars, seedRows, seedRow, seedMonth, denying,
                   pollVars, histVars, missed, denials, faultVars>>

(* KeysService.subscribeRealtime, and each time the client joins again:    *)
(* what changed before is not sent.                                        *)
Join ==
    /\ Realtime /\ gpc = "up" /\ ~linked
    /\ linked' = TRUE
    /\ UNCHANGED <<dbVars, redisVars, seedVars, denying, pollVars, histVars, missed,
                   denials, faultVars>>

(* KeysService.handleRealtime.  The table's replica identity is its        *)
(* primary key, so the old row of a DELETE carries no key_prefix and the   *)
(* hash stays.                                                             *)
OldRowHasPrefix == FALSE

HandleRealtime ==
    /\ feed # <<>>
    /\ feed' = Tail(feed)
    /\ LET change == Head(feed) IN
       meta' = IF change.status # "deleted" THEN SetMeta(change.key, change.status)
               ELSE IF OldRowHasPrefix THEN SetMeta(change.key, NoMeta)
               ELSE meta
    /\ UNCHANGED <<status, usage, outbox, changes, linked, counter, statusQueue,
                   seedVars, denying, pollVars, histVars, missed, denials, faultVars>>
-----------------------------------------------------------------------------
(* KeysService.pollSyncEvents: the events not consumed are read, ...       *)
PollSelect(p) ==
    /\ gpc = "up" \/ (gpc = "seeding" /\ SlowSeed)
    /\ ppc[p] = "idle" /\ outbox # {}
    /\ ppc' = [ppc EXCEPT ![p] = "keys"]
    /\ picked' = [picked EXCEPT ![p] = outbox]
    /\ UNCHANGED <<dbVars, linked, redisVars, seedVars, denying, writes, histVars,
                   missed, denials, faultVars>>

(* ... then the rows of their keys (an error counts as no rows), ...       *)
PollKeys(p, ok) ==
    /\ ppc[p] = "keys"
    /\ ok \/ faults < MaxFaults
    /\ faults' = IF ok THEN faults ELSE faults + 1
    /\ LET found == {k \in KeysIn(picked[p]) : ok /\ Exists(k)} IN
       /\ writes' = [writes EXCEPT ![p] = {[key |-> k, status |-> status[k]] : k \in found}]
       /\ missed' = IF ok THEN missed \ (found \ KeysIn(seedRows))
                          ELSE missed \cup KeysIn(picked[p])
    /\ ppc' = [ppc EXCEPT ![p] = "write"]
    /\ UNCHANGED <<dbVars, linked, redisVars, seedVars, denying, picked, histVars,
                   denials, drops, crashes, wipes>>

(* ... each row is applied ...                                             *)
PollWrite(p, w) ==
    /\ ppc[p] = "write" /\ w \in writes[p]
    /\ writes' = [writes EXCEPT ![p] = @ \ {w}]
    /\ meta' = SetMeta(w.key, w.status)
    /\ UNCHANGED <<dbVars, linked, counter, statusQueue, seedVars, denying, ppc, picked,
                   histVars, missed, denials, faultVars>>

(* ... and the events are consumed, unless that update fails.              *)
PollConsume(p, ok) ==
    /\ ppc[p] = "write" /\ writes[p] = {}
    /\ ok \/ faults < MaxFaults
    /\ faults' = IF ok THEN faults ELSE faults + 1
    /\ outbox' = IF ok THEN outbox \ picked[p] ELSE outbox
    /\ ppc' = [ppc EXCEPT ![p] = "idle"]
    /\ picked' = [picked EXCEPT ![p] = {}]
    /\ UNCHANGED <<status, usage, feed, changes, linked, redisVars, seedVars, denying,
                   writes, histVars, missed, denials, drops, crashes, wipes>>
-----------------------------------------------------------------------------
(* The Realtime connection is lost with what it had under way.             *)
Drop ==
    /\ linked /\ drops < MaxDrops
    /\ drops' = drops + 1
    /\ linked' = FALSE
    /\ feed' = <<>>
    /\ missed' = missed \cup FeedKeys
    /\ UNCHANGED <<status, usage, outbox, changes, redisVars, seedVars, denying,
                   pollVars, histVars, denials, crashes, wipes, faults>>

Crash ==
    /\ gpc # "down" /\ crashes < MaxCrashes
    /\ crashes' = crashes + 1
    /\ gpc' = "down" /\ linked' = FALSE /\ feed' = <<>>
    /\ seedRows' = {} /\ seedRow' = NoRow
    /\ denying' = [k \in Keys |-> "no"]
    /\ ppc' = [p \in Polls |-> "idle"]
    /\ picked' = [p \in Polls |-> {}] /\ writes' = [p \in Polls |-> {}]
    /\ missed' = missed \cup FeedKeys \cup KeysIn(seedRows)
                    \cup (UNION {KeysIn(writes[p]) : p \in Polls})
                    \cup {k \in Keys : denying[k] # "no"}
    /\ UNCHANGED <<status, usage, outbox, changes, redisVars, seedMonth, histVars,
                   denials, drops, wipes, faults>>

(* Redis comes back empty.                                                 *)
Wipe ==
    /\ wipes < MaxWipes
    /\ wipes' = wipes + 1
    /\ meta' = [k \in Keys |-> NoMeta]
    /\ counter' = [km \in Keys \X Months |-> Unset]
    /\ statusQueue' = <<>>
    /\ missed' = Keys
    /\ UNCHANGED <<dbVars, linked, seedVars, denying, pollVars, histVars, denials,
                   drops, crashes, faults>>

(* Nothing is queued, under way or on its way to Redis.                    *)
AtRest ==
    /\ gpc = "up" /\ linked = Realtime /\ feed = <<>>
    /\ statusQueue = <<>> /\ \A k \in Keys : denying[k] = "no"
    /\ outbox = {} /\ \A p \in Polls : ppc[p] = "idle"

Rest == AtRest /\ UNCHANGED vars

Poll(p) ==
    \/ PollSelect(p)
    \/ \E ok \in BOOLEAN : PollKeys(p, ok) \/ PollConsume(p, ok)
    \/ \E w \in writes[p] : PollWrite(p, w)

Boot == SeedSelect \/ (\E r \in seedRows : SeedMeta(r)) \/ SeedCounter \/ SeedDone \/ Join

Next ==
    \/ \E k \in Keys :
          \/ CreateKey(k) \/ RevokeKey(k) \/ DeleteKey(k)
          \/ CountUnit(k) \/ Refuse(k) \/ MarkMeta(k) \/ QueueMark(k)
          \/ \E m \in Months, n \in 0 .. MaxUnits : MirrorUsage(k, m, n)
    \/ ApplyMark \/ LoseMark
    \/ Boot
    \/ HandleRealtime
    \/ \E p \in Polls : Poll(p)
    \/ NextMonth \/ Drop \/ Crash \/ Wipe
    \/ Rest

(* The gateway is started again and joins again, handles what it is sent,  *)
(* and its timers fire.                                                    *)
Fairness ==
    /\ WF_vars(Boot) /\ WF_vars(HandleRealtime)
    /\ WF_vars(ApplyMark \/ LoseMark)
    /\ \A k \in Keys : WF_vars(MarkMeta(k) \/ QueueMark(k))
    /\ \A p \in Polls : WF_vars(Poll(p))

Spec == Init /\ [][Next]_vars
FairSpec == Spec /\ Fairness
RunningSpec == Start("up", TRUE) /\ [][Next]_vars /\ Fairness
-----------------------------------------------------------------------------
Changes == [key : Keys, status : Statuses \cup {"deleted"}]
SeedRow == [key : Keys, status : Statuses, usage : Nat]

(* Types of the variables; the seed and the polls hold rows only while     *)
(* they run, and nothing is sent to a channel that is not joined.          *)
TypeOK ==
    /\ status \in [Keys -> Statuses \cup Absent]
    /\ usage \in [Keys -> Nat]
    /\ outbox \subseteq [id : Nat, key : Keys]
    /\ feed \in Seq(Changes)
    /\ linked \in BOOLEAN
    /\ meta \in [Keys -> Statuses \cup {NoMeta}]
    /\ counter \in [Keys \X Months -> Nat \cup {Unset}]
    /\ statusQueue \in Seq(Keys)
    /\ gpc \in {"down", "seeding", "up"}
    /\ seedRows \subseteq SeedRow /\ seedRow \in SeedRow \cup {NoRow}
    /\ seedMonth \in Months /\ month \in Months
    /\ denying \in [Keys -> {"no", "meta", "queue"}]
    /\ ppc \in [Polls -> {"idle", "keys", "write"}]
    /\ picked \in [Polls -> SUBSET [id : Nat, key : Keys]]
    /\ writes \in [Polls -> SUBSET [key : Keys, status : Statuses]]
    /\ counted \in [Keys \X Months -> Nat]
    /\ revoked \subseteq Keys /\ missed \subseteq Keys
    /\ gpc # "seeding" => seedRows = {} /\ seedRow = NoRow
    /\ linked => gpc = "up"
    /\ ~linked => feed = <<>>
    /\ \A p \in Polls : ppc[p] = "idle" => picked[p] = {} /\ writes[p] = {}

(* Once all is handled the hash of a key says what its row says, whatever  *)
(* the order of seed, Realtime, polls, refused calls and flushes - unless  *)
(* a change fell where nothing is sent: the channel was not joined, the    *)
(* process died, Redis lost its data, or a mark or an event was consumed   *)
(* without effect.                                                         *)
MetaFollowsRows ==
    AtRest => \A k \in Keys \ missed : Exists(k) => meta[k] = status[k]

(* The counter of a month holds no more than the units counted in it: no   *)
(* restart, seed or stale mirror makes a customer pay for a call twice.    *)
NoUnitsInvented ==
    \A k \in Keys, m \in Months : Count(k, m) <= counted[<<k, m>>]

(* "usage counters are seeded with SET NX so a persisted (newer) Redis     *)
(* value is NEVER overwritten" (bootstrap.service.ts:10-12): as long as    *)
(* Redis keeps its data a counter never goes back.                         *)
CountersKept ==
    [][wipes' = wipes => \A km \in Keys \X Months :
                            counter[km] # Unset => counter'[km] >= counter[km]]_vars

(* Whatever a row says when it changes no more - that its key is revoked,  *)
(* above all - its hash comes to say, and goes on to: late changes, marks, *)
(* polls and seeds under way do not undo it, and restarts and drops do not *)
(* keep it from coming, unless the change fell where nothing is sent.      *)
HashesComeToFollow ==
    \A k \in Keys, s \in Statuses :
        <>[](status[k] = s /\ k \notin missed) => <>[](meta[k] = s)

(* A key its owner revoked comes to be refused, and stays so: a customer   *)
(* is told that such a key gets 401 (endpoints.ts:182).                    *)
RefusedFor(k) == meta[k] \in {NoMeta, "revoked"}
RevokedKeyGoesDead == \A k \in Keys : k \in revoked ~> []RefusedFor(k)
=============================================================================
