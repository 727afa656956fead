----------------------------- MODULE UsageFlush -----------------------------
(***************************************************************************)
(* UsageService: the flush that drains the Redis queues into Postgres and  *)
(* mirrors the Redis counters into api_keys.current_usage.                 *)
(*                                                                         *)
(* The flush is started by an interval timer that does not ask whether the *)
(* previous flush has ended, and once more at shutdown, so several run at  *)
(* once.  Each await - an RPOP, an LPUSH, a GET, a call of the database -   *)
(* is an action.  What authorize() does to the counters and queues         *)
(* meanwhile is the UsageFeed this module extends.                         *)
(***************************************************************************)
EXTENDS UsageFeed, FiniteSets

CONSTANTS
    Flushes,        \* slots for flushes running at once
    FLUSH_CHUNK     \* most entries one flush takes from a queue

CONSTANTS           \* bounds for model checking
    MaxUnits,       \* units ever counted
    MaxDenials,     \* entries ever pushed on the status queue
    MaxResends,     \* commands that Redis executes a second time
    MaxFaults,      \* inserts that fail, or seem to
    MaxUnheeded,    \* updates that fail without being noticed
    MaxCrashes,     \* deaths of the process
    MaxDeletes      \* rows of api_keys deleted

Statuses == {"active", "exhausted", "revoked", "expired"}

ASSUME FlushAssumption ==
    /\ FLUSH_CHUNK \in Nat \ {0}
    /\ IsFiniteSet(Flushes)
    /\ MaxMinute \in Nat
    /\ MaxResends \in Nat /\ MaxCrashes \in Nat /\ MaxFaults \in Nat
    /\ MonthOf \in [Minutes -> Months]

VARIABLES           \* Postgres
    rows,           \* rows[e]: times event e was inserted into usage_events (a
                    \* deleted key's rows go with it later)
    usage,          \* usage[k]: current_usage and current_period_start
    lastUsed,       \* lastUsed[k]: last_used_at, 0 at first
    status,         \* status[k]: api_keys.status
    deleted         \* keys whose row is gone

VARIABLES           \* the flushes
    fpc,            \* fpc[f]: where flush f is
    now,            \* now[f]: the minute flush f was started with
    marks,          \* marks[f]: status entries drained, not applied
    batch,          \* batch[f]: usage events drained
    todo,           \* todo[f]: keys of the batch still to mirror
    read            \* read[f]: the key at hand and the counter read for it

VARIABLES           \* history
    pushed,         \* pushed[e]: events pushed so far
    lost,           \* lost[e]: copies whose flush died, or never saw them popped
    unsure,         \* unsure[e]: copies inserted by an insert that reported an error
    repeated,       \* repeated[e]: copies put back a second time
    units, denials, resends, faults, unheeded, crashes  \* what the bounds count

clockVars == <<clock, owed, pushed, units, denials>>
dbVars    == <<rows, usage, lastUsed, status, deleted>>
flushVars == <<fpc, now, marks, batch, todo, read>>
faultVars == <<lost, unsure, repeated, resends, faults, unheeded, crashes>>
vars == <<counter, usageQueue, statusQueue, clockVars, dbVars, flushVars, faultVars>>

Nothing == [none |-> TRUE]              \* no counter read
-----------------------------------------------------------------------------
Init ==
    /\ FeedInit
    /\ rows = Zero
    /\ usage = [k \in Keys |-> [count |-> 0, period |-> MonthOf[0]]]
    /\ lastUsed = [k \in Keys |-> 0]
    /\ status = [k \in Keys |-> "active"]
    /\ deleted = {}
    /\ fpc = [f \in Flushes |-> "idle"]
    /\ now = [f \in Flushes |-> 0]
    /\ marks = [f \in Flushes |-> <<>>]
    /\ batch = [f \in Flushes |-> <<>>]
    /\ todo = [f \in Flushes |-> {}]
    /\ read = [f \in Flushes |-> Nothing]
    /\ pushed = Zero /\ lost = Zero /\ unsure = Zero /\ repeated = Zero
    /\ units = 0 /\ denials = 0 /\ resends = 0 /\ faults = 0 /\ unheeded = 0 /\ crashes = 0

Copies(s, e) == Cardinality({n \in DOMAIN s : s[n] = e})

(* All the entries of s, counted by event.                                 *)
Bag(s) == [e \in Events |-> Copies(s, e)]
Plus(a, b) == [e \in Events |-> a[e] + b[e]]

KeysOf(s) == {s[n].key : n \in DOMAIN s}
BatchEvents(f) == {batch[f][n] : n \in DOMAIN batch[f]}

(* Copies of e that flushes hold and have not inserted.                    *)
Slots == Flushes \X (1 .. FLUSH_CHUNK)
Held(e) ==
    Cardinality({s \in Slots :
                    /\ fpc[s[1]] \in {"drainUsage", "insert", "requeue"}
                    /\ s[2] \in DOMAIN batch[s[1]] /\ batch[s[1]][s[2]] = e})

GoTo(f, label) == fpc' = [fpc EXCEPT ![f] = label]
-----------------------------------------------------------------------------
(* What the flush lives on: the feed; an account, and its keys with it,    *)
(* may be deleted.  (A refusal pushed a second time is one more Deny.)     *)
CountUnit(k, at) ==
    /\ units < MaxUnits
    /\ units' = units + 1
    /\ Counts(k, at)
    /\ UNCHANGED <<pushed, denials, dbVars, flushVars, faultVars>>

PushEvent(e) ==
    /\ Pushes(e)
    /\ pushed' = [pushed EXCEPT ![e] = @ + 1]
    /\ UNCHANGED <<units, denials, dbVars, flushVars, faultVars>>

Deny(k) ==
    /\ denials < MaxDenials
    /\ denials' = denials + 1
    /\ Denies(k)
    /\ UNCHANGED <<pushed, units, dbVars, flushVars, faultVars>>

ResendCountUnit(k, at) ==
    /\ resends < MaxResends
    /\ resends' = resends + 1
    /\ CountsAgain(k, at)
    /\ UNCHANGED <<pushed, units, denials, dbVars, flushVars, lost, unsure, repeated,
                   faults, unheeded, crashes>>

ResendPushEvent(e) ==
    /\ resends < MaxResends
    /\ resends' = resends + 1
    /\ PushesAgain(e)
    /\ pushed' = [pushed EXCEPT ![e] = @ + 1]
    /\ UNCHANGED <<units, denials, dbVars, flushVars, lost, unsure, repeated,
                   faults, unheeded, crashes>>

DeleteKey(k) ==
    /\ k \notin deleted /\ Cardinality(deleted) < MaxDeletes
    /\ deleted' = deleted \cup {k}
    /\ UNCHANGED <<counter, usageQueue, statusQueue, clockVars, rows, usage,
                   lastUsed, status, flushVars, faultVars>>

Tick ==
    /\ Passes
    /\ UNCHANGED <<pushed, units, denials, dbVars, flushVars, faultVars>>
-----------------------------------------------------------------------------
(* The timer fires, or the process is told to stop.                        *)
StartFlush(f) ==
    /\ fpc[f] = "idle"
    /\ GoTo(f, "drainStatus")
    /\ now' = [now EXCEPT ![f] = clock]
    /\ UNCHANGED <<counter, usageQueue, statusQueue, clockVars, dbVars, marks, batch,
                   todo, read, faultVars>>

(* drain(KEY_STATUS_QUEUE): RPOP until it is empty or the chunk is full.   *)
PopStatus(f) ==
    /\ fpc[f] = "drainStatus"
    /\ IF statusQueue # <<>> /\ Len(marks[f]) < FLUSH_CHUNK
       THEN /\ marks' = [marks EXCEPT ![f] = Append(@, Head(statusQueue))]
            /\ statusQueue' = Tail(statusQueue)
            /\ UNCHANGED fpc
       ELSE GoTo(f, "applyStatus") /\ UNCHANGED <<marks, statusQueue>>
    /\ UNCHANGED <<counter, usageQueue, clockVars, dbVars, now, batch, todo, read,
                   faultVars>>

(* flushKeyStatuses: the row's status is overwritten, whatever it is.  An  *)
(* error of the database is not looked at: the entry is gone.              *)
ApplyStatus(f, applied) ==
    /\ fpc[f] = "applyStatus" /\ marks[f] # <<>>
    /\ applied \/ unheeded < MaxUnheeded
    /\ unheeded' = IF applied THEN unheeded ELSE unheeded + 1
    /\ LET k == Head(marks[f]) IN
       status' = IF applied /\ k \notin deleted
                 THEN [status EXCEPT ![k] = "exhausted"]
                 ELSE status
    /\ marks' = [marks EXCEPT ![f] = Tail(@)]
    /\ UNCHANGED <<counter, usageQueue, statusQueue, clockVars, rows, usage, lastUsed,
                   deleted, fpc, now, batch, todo, read, lost, unsure, repeated, resends,
                   faults, crashes>>

StatusesApplied(f) ==
    /\ fpc[f] = "applyStatus" /\ marks[f] = <<>>
    /\ GoTo(f, "drainUsage")
    /\ UNCHANGED <<counter, usageQueue, statusQueue, clockVars, dbVars, now, marks,
                   batch, todo, read, faultVars>>

AfterDrainAlways(f) == "insert"            \* mutant: no return on an empty batch
AfterDrain(f) == IF batch[f] = <<>> THEN "idle" ELSE "insert"

(* drain(usageQueue()): RPOP until it is empty or the chunk is full; with  *)
(* nothing drained the flush is over.                                      *)
PopEvent(f) ==
    /\ fpc[f] = "drainUsage"
    /\ IF usageQueue # <<>> /\ Len(batch[f]) < FLUSH_CHUNK
       THEN /\ batch' = [batch EXCEPT ![f] = Append(@, Head(usageQueue))]
            /\ usageQueue' = Tail(usageQueue)
            /\ UNCHANGED fpc
       ELSE /\ GoTo(f, AfterDrain(f))
            /\ UNCHANGED <<batch, usageQueue>>
    /\ UNCHANGED <<counter, statusQueue, clockVars, dbVars, now, marks, todo, read,
                   faultVars>>

(* One bulk insert: every row, or - when one of them names a key that is   *)
(* gone - none.                                                            *)
Acceptable(f) == KeysOf(batch[f]) \cap deleted = {}

(* Mutant: an insert that ignores rows it takes for duplicates. *)
InsertBatchOnce(f) ==
    /\ fpc[f] = "insert" /\ Acceptable(f)
    /\ rows' = [e \in Events |-> rows[e] + IF e \in BatchEvents(f) THEN 1 ELSE 0]
    /\ todo' = [todo EXCEPT ![f] = KeysOf(batch[f])]
    /\ GoTo(f, "mirrorRead")
    /\ UNCHANGED <<counter, usageQueue, statusQueue, clockVars, usage, lastUsed,
                   status, deleted, now, marks, batch, read, faultVars>>

InsertBatch(f) ==
    /\ fpc[f] = "insert" /\ Acceptable(f)
    /\ rows' = Plus(rows, Bag(batch[f]))
    /\ todo' = [todo EXCEPT ![f] = KeysOf(batch[f])]
    /\ GoTo(f, "mirrorRead")
    /\ UNCHANGED <<counter, usageQueue, statusQueue, clockVars, usage, lastUsed,
                   status, deleted, now, marks, batch, read, faultVars>>

(* Mutant: what could not be inserted is not put back. *)
InsertFailsDropping(f) ==
    /\ fpc[f] = "insert"
    /\ ~Acceptable(f) \/ faults < MaxFaults
    /\ faults' = IF Acceptable(f) THEN faults + 1 ELSE faults
    /\ GoTo(f, "idle")
    /\ batch' = [batch EXCEPT ![f] = <<>>]
    /\ UNCHANGED <<counter, usageQueue, statusQueue, clockVars, dbVars, now, marks,
                   todo, read, lost, unsure, repeated, resends, unheeded, crashes>>

(* The insert is refused, or the database could not be reached.            *)
InsertFails(f) ==
    /\ fpc[f] = "insert"
    /\ ~Acceptable(f) \/ faults < MaxFaults
    /\ faults' = IF Acceptable(f) THEN faults + 1 ELSE faults
    /\ GoTo(f, "requeue")
    /\ UNCHANGED <<counter, usageQueue, statusQueue, clockVars, dbVars, now, marks,
                   batch, todo, read, lost, unsure, repeated, resends, unheeded, crashes>>

(* The insert went through but its answer was an error (a timeout, say).   *)
InsertUnsure(f) ==
    /\ fpc[f] = "insert" /\ Acceptable(f) /\ faults < MaxFaults
    /\ faults' = faults + 1
    /\ rows' = Plus(rows, Bag(batch[f]))
    /\ unsure' = Plus(unsure, Bag(batch[f]))
    /\ GoTo(f, "requeue")
    /\ UNCHANGED <<counter, usageQueue, statusQueue, clockVars, usage, lastUsed,
                   status, deleted, now, marks, batch, todo, read, lost, repeated, resends,
                   unheeded, crashes>>

(* The entries go back one LPUSH at a time, behind what came meanwhile;    *)
(* then flush() throws.                                                    *)
Requeue(f) ==
    /\ fpc[f] = "requeue"
    /\ usageQueue' = Append(usageQueue, Head(batch[f]))
    /\ batch' = [batch EXCEPT ![f] = Tail(@)]
    /\ IF Len(batch[f]) = 1 THEN GoTo(f, "idle") ELSE UNCHANGED fpc
    /\ UNCHANGED <<counter, statusQueue, clockVars, dbVars, now, marks, todo, read,
                   faultVars>>

MirrorMonth(f) == MonthOf[now[f]]

(* The counter of the month the flush was started in is read ...           *)
ReadCounter(f, k) ==
    /\ fpc[f] = "mirrorRead" /\ k \in todo[f]
    /\ read' = [read EXCEPT ![f] = [key |-> k, count |-> counter[<<k, MirrorMonth(f)>>]]]
    /\ todo' = [todo EXCEPT ![f] = @ \ {k}]
    /\ GoTo(f, "mirrorWrite")
    /\ UNCHANGED <<counter, usageQueue, statusQueue, clockVars, dbVars, now, marks,
                   batch, faultVars>>

LastUse(f, k) ==
    CHOOSE t \in Minutes :
        /\ [key |-> k, at |-> t] \in BatchEvents(f)
        /\ \A e \in BatchEvents(f) : e.key = k => e.at <= t

NewUsageAdded(f) ==                        \* mutant: added to, not overwritten
    [count |-> usage[read[f].key].count + read[f].count, period |-> MirrorMonth(f)]
NewUsage(f) == [count |-> read[f].count, period |-> MirrorMonth(f)]

(* ... and overwrites the row's usage, start of period and last use.  An   *)
(* error is not looked at; a row that is gone is not found.                *)
WriteMirror(f, applied) ==
    /\ fpc[f] = "mirrorWrite"
    /\ applied \/ unheeded < MaxUnheeded
    /\ unheeded' = IF applied THEN unheeded ELSE unheeded + 1
    /\ LET k == read[f].key IN
       IF applied /\ k \notin deleted
       THEN /\ usage' = [usage EXCEPT ![k] = NewUsage(f)]
            /\ lastUsed' = [lastUsed EXCEPT ![k] = LastUse(f, k)]
       ELSE UNCHANGED <<usage, lastUsed>>
    /\ IF todo[f] = {}
       THEN GoTo(f, "idle") /\ batch' = [batch EXCEPT ![f] = <<>>]
       ELSE GoTo(f, "mirrorRead") /\ UNCHANGED batch
    /\ read' = [read EXCEPT ![f] = Nothing]
    /\ UNCHANGED <<counter, usageQueue, statusQueue, clockVars, rows, status, deleted,
                   now, marks, todo, lost, unsure, repeated, resends, faults, crashes>>

(* The flush's own commands may be executed twice, as authorize()'s may.   *)
(* An entry popped by an RPOP whose reply was lost is in nobody's hands.   *)
ResendPopStatus(f) ==
    /\ fpc[f] = "drainStatus" /\ statusQueue # <<>> /\ Len(marks[f]) < FLUSH_CHUNK
    /\ resends < MaxResends
    /\ resends' = resends + 1
    /\ statusQueue' = Tail(statusQueue)
    /\ UNCHANGED <<counter, usageQueue, clockVars, dbVars, flushVars, lost, unsure,
                   repeated, faults, unheeded, crashes>>

ResendPopEvent(f) ==
    /\ fpc[f] = "drainUsage" /\ usageQueue # <<>> /\ Len(batch[f]) < FLUSH_CHUNK
    /\ resends < MaxResends
    /\ resends' = resends + 1
    /\ usageQueue' = Tail(usageQueue)
    /\ lost' = [lost EXCEPT ![Head(usageQueue)] = @ + 1]
    /\ UNCHANGED <<counter, statusQueue, clockVars, dbVars, flushVars, unsure, repeated,
                   faults, unheeded, crashes>>

ResendRequeue(f) ==
    /\ fpc[f] = "requeue" /\ resends < MaxResends
    /\ resends' = resends + 1
    /\ usageQueue' = Append(usageQueue, Head(batch[f]))
    /\ repeated' = [repeated EXCEPT ![Head(batch[f])] = @ + 1]
    /\ UNCHANGED <<counter, statusQueue, clockVars, dbVars, flushVars, lost, unsure,
                   faults, unheeded, crashes>>

(* The process dies with what its calls and flushes hold.                  *)
Crash ==
    /\ crashes < MaxCrashes
    /\ crashes' = crashes + 1
    /\ Dies
    /\ lost' = [e \in Events |-> lost[e] + Held(e)]
    /\ fpc' = [f \in Flushes |-> "idle"]
    /\ marks' = [f \in Flushes |-> <<>>]
    /\ batch' = [f \in Flushes |-> <<>>]
    /\ todo' = [f \in Flushes |-> {}]
    /\ read' = [f \in Flushes |-> Nothing]
    /\ UNCHANGED <<pushed, units, denials, dbVars, now, unsure, repeated, resends, faults,
                   unheeded>>

FlushStep(f) ==
    \/ PopStatus(f)
    \/ \E applied \in BOOLEAN : ApplyStatus(f, applied) \/ WriteMirror(f, applied)
    \/ StatusesApplied(f)
    \/ PopEvent(f)
    \/ InsertBatch(f)
    \/ InsertFails(f)
    \/ InsertUnsure(f)
    \/ Requeue(f)
    \/ \E k \in Keys : ReadCounter(f, k)

FlushResend(f) == ResendPopStatus(f) \/ ResendPopEvent(f) \/ ResendRequeue(f)

Next ==
    \/ \E k \in Keys, at \in Minutes : CountUnit(k, at) \/ ResendCountUnit(k, at)
    \/ \E k \in Keys : Deny(k) \/ DeleteKey(k)
    \/ \E e \in Events : PushEvent(e) \/ ResendPushEvent(e)
    \/ \E f \in Flushes : StartFlush(f) \/ FlushStep(f) \/ FlushResend(f)
    \/ Tick
    \/ Crash

(* The timer keeps firing, Redis and the database keep answering, and a    *)
(* call that counted its unit goes on to push the event.                   *)
Fairness ==
    /\ \A f \in Flushes : WF_vars(StartFlush(f)) /\ WF_vars(FlushStep(f))
    /\ \A e \in Events : WF_vars(PushEvent(e))

Spec == Init /\ [][Next]_vars
FairSpec == Spec /\ Fairness
-----------------------------------------------------------------------------
FPCs == {"idle", "drainStatus", "applyStatus", "drainUsage", "insert", "requeue",
         "mirrorRead", "mirrorWrite"}

(* Types of the variables; a flush mirrors a key it has read the counter   *)
(* of, and inserts or puts back a batch that is not empty.                 *)
TypeOK ==
    /\ clock \in Minutes
    /\ counter \in [Keys \X Months -> Nat]
    /\ usageQueue \in Seq(Events) /\ statusQueue \in Seq(Keys)
    /\ rows \in [Events -> Nat]
    /\ usage \in [Keys -> [count : Nat, period : Months]]
    /\ lastUsed \in [Keys -> Minutes]
    /\ status \in [Keys -> Statuses]
    /\ deleted \subseteq Keys
    /\ fpc \in [Flushes -> FPCs]
    /\ now \in [Flushes -> Minutes]
    /\ marks \in [Flushes -> Seq(Keys)]
    /\ batch \in [Flushes -> Seq(Events)]
    /\ todo \in [Flushes -> SUBSET Keys]
    /\ read \in [Flushes -> [key : Keys, count : Nat] \cup {Nothing}]
    /\ owed \in [Events -> Nat] /\ pushed \in [Events -> Nat]
    /\ lost \in [Events -> Nat] /\ unsure \in [Events -> Nat]
    /\ repeated \in [Events -> Nat]
    /\ units \in Nat /\ denials \in Nat /\ resends \in Nat /\ faults \in Nat /\ unheeded \in Nat
    /\ crashes \in Nat
    /\ \A f \in Flushes :
          /\ fpc[f] = "mirrorWrite" <=> read[f] # Nothing
          /\ fpc[f] \in {"insert", "requeue", "mirrorRead"} => batch[f] # <<>>

(* Every event that was pushed is in the queue, in the hands of a flush    *)
(* that has not inserted it, or in usage_events - as often as it was       *)
(* pushed, unless the process died holding it, the database reported an    *)
(* error for an insert it had made, or Redis popped or took it back twice. *)
(* Overlapping flushes, refused inserts and what is put back behind newer  *)
(* events neither lose nor bill twice.                                     *)
EventsConserved ==
    \A e \in Events :
        pushed[e] + unsure[e] + repeated[e] =
            Copies(usageQueue, e) + Held(e) + rows[e] + lost[e]

(* The mirror never shows more use of a month than Redis counted in it,    *)
(* whichever of the flushes that overlap writes last.                      *)
MirrorNeverAhead ==
    \A k \in Keys : usage[k].count <= counter[<<k, usage[k].period>>]

(* "current_usage ... mirror of Redis for current period"                  *)
(* (0001_init.sql:25): when nothing is queued or under way, a row that has *)
(* been mirrored in a month shows what Redis counted in it.                *)
AtRest ==
    /\ usageQueue = <<>> /\ owed = Zero
    /\ \A f \in Flushes : fpc[f] \notin {"insert", "requeue", "mirrorRead", "mirrorWrite"}
    /\ \A f \in Flushes : batch[f] = <<>>
MirrorExactAtRest ==
    AtRest => \A k \in Keys \ deleted :
                 usage[k].period = MonthOf[clock] =>
                     usage[k].count = counter[<<k, MonthOf[clock]>>]

(* "Re-queue so nothing is lost" (usage.service.ts:88): an event that was  *)
(* pushed for a key that exists reaches usage_events, or is lost with the  *)
(* process or the reply of its RPOP.                                       *)
EventsOfLiveKeysRecorded ==
    \A e \in Events, n \in 1 .. MaxUnits :
        pushed[e] >= n ~> (rows[e] + lost[e] >= n \/ e.key \in deleted)

(* The pipeline keeps the promise of UsageLedger: what waits is in the     *)
(* queue or held by a flush, and each step of a flush but the insert, a    *)
(* command run twice and the death of the process leaves the ledger as it  *)
(* was.                                                                    *)
Ledger == INSTANCE UsageLedger WITH
    MayDrop <- MaxCrashes > 0 \/ MaxResends > 0,
    MayRepeat <- MaxFaults > 0 \/ MaxResends > 0,
    accepted <- pushed,
    waiting <- [e \in Events |-> Copies(usageQueue, e) + Held(e)],
    recorded <- rows
LedgerKept == Ledger!Spec
=============================================================================
