----------------------------- MODULE MCKeySync -----------------------------
(***************************************************************************)
(* Instances of KeySync for TLC.                                           *)
(***************************************************************************)
EXTENDS KeySync, TLC

CONSTANTS k1, k2, p1

KeySymmetry == Permutations(Keys)
=============================================================================
