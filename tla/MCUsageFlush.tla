--------------------------- MODULE MCUsageFlush ---------------------------
(***************************************************************************)
(* Instances of UsageFlush for TLC.                                        *)
(***************************************************************************)
EXTENDS UsageFlush, TLC

CONSTANTS k1, k2, f1, f2

\* Two months of one minute each, and one month.
MonthPerMinute == [m \in Minutes |-> m]
OneMonth == [m \in Minutes |-> 0]

FlushSymmetry == Permutations(Flushes)

\* Any two mishaps, but no more in one behaviour.
MaxMishaps == 2
FewMishaps ==
    resends + faults + unheeded + crashes + Cardinality(deleted) <= MaxMishaps
=============================================================================
