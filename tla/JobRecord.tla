------------------------------ MODULE JobRecord ------------------------------
(***************************************************************************)
(* What the job store promises for one task: each operation of JobStore    *)
(* is a single step on the record.  JobStore.tla shows when the files      *)
(* behave like this; the steps in between are its business.                *)
(***************************************************************************)
EXTENDS Jobs

CONSTANTS
  Reports,      \* the progress reports callers make
  MaxRevision   \* bound on the number of updates of one record

ASSUME ReportsAssumption == Reports \subseteq ProgressReport
ASSUME MaxRevisionAssumption == MaxRevision \in Nat

VARIABLE record

RecordInit == record = NoJob

Create ==
  /\ record = NoJob
  /\ record' = Created

UpdateProgress(r) ==
  /\ record.status \in Live
  /\ record' = WithProgress(record, r)

UpdateArtifacts ==
  /\ record # NoJob
  /\ record' = WithArtifacts(record)

Transition(s) ==
  /\ <<record.status, s>> \in Edge
  /\ record' = WithStatus(record, s)

Update ==
  /\ record.revision < MaxRevision
  /\ \/ \E r \in Reports : UpdateProgress(r)
     \/ UpdateArtifacts
     \/ \E s \in Status : Transition(s)

RecordNext == Create \/ Update

RecordSpec == RecordInit /\ [][RecordNext]_record

-----------------------------------------------------------------------------
\* Every record has the fields and the ranges of StoredJob.
RecordTypeOK == record \in Record

\* Readers of a record (job status, the console) may rely on these relations:
\* the work done never exceeds the total known, an ETA range is not inverted,
\* and 100% is shown exactly for a success (update_progress refuses 100).
RecordSane ==
  /\ record.processed <= record.total
  /\ record.low = NoEta <=> record.high = NoEta
  /\ record.low <= record.high
  /\ record.percent = 100 <=> record.status = "succeeded"

\* A terminal status is final, and so is the progress shown with it: the last
\* trusted percentage of a failed or cancelled task is never rewritten.
TerminalIsFinal ==
  [][record.status \in Terminal =>
       /\ record'.status = record.status
       /\ record'.percent = record.percent]_record

\* No update takes the progress backwards or reuses a revision number.
NeverBackwards ==
  [][record # NoJob =>
       /\ record'.percent >= record.percent
       /\ record'.processed >= record.processed
       /\ record'.revision > record.revision]_record
=============================================================================
