----------------------------- MODULE MCExecutor -----------------------------
(* One task; its worker may be killed twice, which is enough for a restart  *)
(* in the middle of a recovered run.  MaxRevision lets the callbacks report *)
(* both reports before the last stage.                                      *)
EXTENDS Executor

MCReports ==
  {[percent |-> 15, processed |-> 0, total |-> 5, low |-> NoEta, high |-> NoEta],
   [percent |-> 47, processed |-> 2, total |-> 5, low |-> 10, high |-> 17]}
=============================================================================
