---------------------------- MODULE MCGenGCNames ----------------------------
(***************************************************************************)
(* GenGCNames for TLC: the history variable under GenGC's fairness.        *)
(***************************************************************************)
EXTENDS GenGCNames

FairNSpec == NSpec /\ Fairness
=============================================================================
