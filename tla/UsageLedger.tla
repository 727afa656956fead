----------------------------- MODULE UsageLedger -----------------------------
(***************************************************************************)
(* What the usage pipeline promises, without queues, flushes or retries:   *)
(* an accepted unit of usage waits, and then becomes one row of            *)
(* usage_events.  It may be dropped only by the death of the process or a  *)
(* lost reply, and repeated only when an answer was lost.                  *)
(***************************************************************************)
EXTENDS Integers

CONSTANTS
    Events,         \* the usage events there can be: [key, at]
    MayDrop,        \* may the process die, or the reply to an RPOP be lost?
    MayRepeat       \* may the answer to an insert or to an LPUSH be lost?

VARIABLES
    accepted,       \* accepted[e]: units of usage accepted so far
    waiting,        \* waiting[e]: accepted, not yet recorded
    recorded        \* recorded[e]: rows of usage_events

ledgerVars == <<accepted, waiting, recorded>>

Init ==
    /\ accepted = [e \in Events |-> 0]
    /\ waiting = [e \in Events |-> 0]
    /\ recorded = [e \in Events |-> 0]

Accept(e) ==
    /\ accepted' = [accepted EXCEPT ![e] = @ + 1]
    /\ waiting' = [waiting EXCEPT ![e] = @ + 1]
    /\ UNCHANGED recorded

(* One insert: some of what waits is recorded, all of it or nothing.       *)
Record ==
    /\ recorded' # recorded
    /\ UNCHANGED accepted
    /\ \A e \in Events : /\ recorded'[e] >= recorded[e]
                         /\ waiting'[e] >= 0
                         /\ recorded'[e] + waiting'[e] = recorded[e] + waiting[e]

(* What waits is taken for as much again at most, in the rows or beside    *)
(* them.                                                                   *)
Repeat ==
    /\ MayRepeat
    /\ UNCHANGED accepted
    /\ \A e \in Events :
          /\ recorded'[e] >= recorded[e] /\ waiting'[e] >= waiting[e]
          /\ recorded'[e] + waiting'[e] <= recorded[e] + 2 * waiting[e]

Drop ==
    /\ MayDrop
    /\ UNCHANGED <<accepted, recorded>>
    /\ \A e \in Events : waiting'[e] \in 0 .. waiting[e]

Next ==
    \/ \E e \in Events : Accept(e)
    \/ Record
    \/ Repeat
    \/ Drop

Spec == Init /\ [][Next]_ledgerVars
=============================================================================
