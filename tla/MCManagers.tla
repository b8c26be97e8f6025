----------------------------- MODULE MCManagers -----------------------------
(* Three manager processes, started four times in all, and two tasks.        *)
EXTENDS Managers, TLC

Symmetry == Permutations(Procs) \cup Permutations(Tasks)
=============================================================================
