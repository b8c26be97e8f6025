----------------------------- MODULE MCJobStore -----------------------------
(* Two callers on two records.  Overlap = FALSE: a caller waits until the   *)
(* record it wants is free, as the assumption of the theorems demands.      *)
EXTENDS JobStore, TLC

MCReports ==
  {[percent |-> 60, processed |-> 4, total |-> 5, low |-> 12, high |-> 20],
   [percent |-> 30, processed |-> 3, total |-> 3, low |-> 25, high |-> 21]}

Symmetry == Permutations(Callers) \cup Permutations(Ids)
=============================================================================
