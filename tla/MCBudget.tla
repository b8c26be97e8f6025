------------------------------ MODULE MCBudget ------------------------------
(* Limits that are off, low and full; one to three workers and threads; a    *)
(* machine of one to eight cores, with little or much memory available, and  *)
(* among the memory budgets one of exactly two reserves.                     *)
EXTENDS Budget

AllConfigs  == [cpu : {0, 30, 50, 100}, memory : {0, 20, 50, 100}, workers : {1, 3}, threads : 1..3]
AllMachines == {m \in [cpu : {1, 2, 3, 4, 8}, total : {6, 12, 16}, available : {0, 2, 5, 8, 14}] :
                 m.available < m.total}
=============================================================================
