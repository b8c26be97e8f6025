----------------------------- MODULE MCJobRecord -----------------------------
(* The record of one task under every sequence of at most MaxRevision       *)
(* updates.  The reports cross: a lower percentage with more units, a total *)
(* that shrinks, an ETA that comes, inverts and goes.                       *)
EXTENDS JobRecord

MCReports ==
  {[percent |-> 1,  processed |-> 0, total |-> 0, low |-> NoEta, high |-> NoEta],
   [percent |-> 40, processed |-> 4, total |-> 5, low |-> 12, high |-> 20],
   [percent |-> 30, processed |-> 3, total |-> 3, low |-> 25, high |-> 21],
   [percent |-> 95, processed |-> 5, total |-> 5, low |-> 0, high |-> 0]}
=============================================================================
