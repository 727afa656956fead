----------------------------- MODULE UsageFeed -----------------------------
(***************************************************************************)
(* What AuthService.authorize does to the usage counters and the queues,   *)
(* many calls at a time, as far as UsageService can see: units counted in  *)
(* the month of the call's `now`, each owed an event until it is pushed.   *)
(* ForwardAuth implements it; UsageFlush drains what it pushes.            *)
(***************************************************************************)
EXTENDS Integers, Sequences

CONSTANTS
    Keys,           \* the api_keys rows
    Months, MonthOf,\* the calendar: MonthOf[minute]
    MaxMinute       \* the clock stops here (a bound for model checking)

Minutes == 0 .. MaxMinute
Events  == [key : Keys, at : Minutes]      \* QueuedUsageEvent
Zero    == [e \in Events |-> 0]

VARIABLES
    clock,          \* the minute shown by new Date()
    counter,        \* counter[k, month]: usage:{id}:{ym}
    usageQueue,     \* usage:queue, oldest event first
    statusQueue,    \* key:status:queue, oldest first: keys to mark exhausted
    owed            \* owed[e]: units counted whose event is not pushed yet

feedVars == <<clock, counter, usageQueue, statusQueue, owed>>

FeedInit ==
    /\ clock = 0
    /\ counter = [km \in Keys \X Months |-> 0]
    /\ usageQueue = <<>> /\ statusQueue = <<>>
    /\ owed = Zero

(* INCR for a call that began in minute `at`, this one or one gone by, ...  *)
Counts(k, at) ==
    /\ at \in 0 .. clock
    /\ counter' = [counter EXCEPT ![<<k, MonthOf[at]>>] = @ + 1]
    /\ owed' = [owed EXCEPT ![[key |-> k, at |-> at]] = @ + 1]
    /\ UNCHANGED <<clock, usageQueue, statusQueue>>

(* ... and once more, its reply lost with the connection: the call owes    *)
(* one event all the same.                                                 *)
CountsAgain(k, at) ==
    /\ at \in 0 .. clock
    /\ counter' = [counter EXCEPT ![<<k, MonthOf[at]>>] = @ + 1]
    /\ UNCHANGED <<clock, usageQueue, statusQueue, owed>>

(* LPUSH of the event a call owes, and once more.                          *)
Pushes(e) ==
    /\ owed[e] > 0
    /\ owed' = [owed EXCEPT ![e] = @ - 1]
    /\ usageQueue' = Append(usageQueue, e)
    /\ UNCHANGED <<clock, counter, statusQueue>>

PushesAgain(e) ==
    /\ owed[e] > 0
    /\ usageQueue' = Append(usageQueue, e)
    /\ UNCHANGED <<clock, counter, statusQueue, owed>>

(* LPUSH of a key found exhausted.                                         *)
Denies(k) ==
    /\ statusQueue' = Append(statusQueue, k)
    /\ UNCHANGED <<clock, counter, usageQueue, owed>>

Passes ==
    /\ clock < MaxMinute
    /\ clock' = clock + 1
    /\ UNCHANGED <<counter, usageQueue, statusQueue, owed>>

(* The process dies, and with it the calls that owed an event.             *)
Dies ==
    /\ owed' = Zero
    /\ UNCHANGED <<clock, counter, usageQueue, statusQueue>>

FeedNext ==
    \/ \E k \in Keys, at \in Minutes : Counts(k, at) \/ CountsAgain(k, at)
    \/ \E e \in Events : Pushes(e) \/ PushesAgain(e)
    \/ \E k \in Keys : Denies(k)
    \/ Passes
    \/ Dies

FeedSpec == FeedInit /\ [][FeedNext]_feedVars
=============================================================================
