---------------------------- MODULE MCKeyIssue ----------------------------
(***************************************************************************)
(* Instances of KeyIssue for TLC.                                          *)
(***************************************************************************)
EXTENDS KeyIssue, TLC

CONSTANTS ann, bob, t1, t2, r1, r2, x, y

\* Tabs are alike, and users; slots are not, since the first free one is taken.
Alike == Permutations(Tabs) \cup Permutations(Users)
=============================================================================
