--------------------------- MODULE Executor_proofs ---------------------------
(* What the proofs of execute_job rest on: first the operators of Jobs,    *)
(* then the atomic record of JobRecord, then the call that uses it.        *)
EXTENDS Executor, TLAPS

-----------------------------------------------------------------------------
(* What the operations of the store make of a well-formed record is a      *)
(* well-formed record.                                                     *)

\* The revision stays a natural number.
LEMMA NextRevision == ASSUME NEW job \in Record PROVE job.revision + 1 \in Nat
  BY DEF Record

\* An id without a file, and the record create writes.
LEMMA CreatedType == NoJob \in Record /\ Created \in Record
<1>1. NoJob \in Record
  BY DEF NoJob, Record
<1>2. "queued" \in Status
  BY DEF Status, Live
<1> QED
  BY <1>1, <1>2 DEF Created, Record

\* update_progress, for every report.
LEMMA WithProgressType ==
  ASSUME NEW job \in Record, NEW r \in ProgressReport
  PROVE  WithProgress(job, r) \in Record
<1>1. /\ r.percent \in 0..99 /\ r.processed \in Nat /\ r.total \in Nat
      /\ r.low \in Nat \cup {NoEta} /\ r.high \in Nat \cup {NoEta}
  BY DEF ProgressReport
<1>2. /\ Larger(job.percent, r.percent) \in 0..100
      /\ Larger(job.processed, r.processed) \in Nat
      /\ Larger(job.total, r.total) \in Nat
  BY <1>1 DEF Record, Larger
<1>3. ASSUME NEW low \in Nat \cup {NoEta}
      PROVE  (IF r.high = NoEta THEN job.high ELSE Larger(Larger(low, 0), r.high))
               \in Nat \cup {NoEta}
  BY <1>1 DEF Record, Larger, NoEta
<1>4. (IF r.low = NoEta THEN job.low ELSE r.low) \in Nat \cup {NoEta}
  BY <1>1 DEF Record
<1> QED
  BY <1>2, <1>3, <1>4, NextRevision, ZenonT(60) DEF WithProgress, Record

\* update_artifacts.
LEMMA WithArtifactsType == ASSUME NEW job \in Record PROVE WithArtifacts(job) \in Record
  BY NextRevision DEF WithArtifacts, Record

\* transition.
LEMMA WithStatusType ==
  ASSUME NEW job \in Record, NEW s \in Status
  PROVE  WithStatus(job, s) \in Record
  BY NextRevision, 100 \in 0..100, 0 \in Nat DEF WithStatus, Record

-----------------------------------------------------------------------------
(* The record of JobRecord, for every set of progress reports.             *)

\* The inductive invariant: the two facts about a record of any value, and
\* that a job without a file has no other content.
RecordInv == RecordTypeOK /\ RecordSane /\ (record.status = "absent" => record = NoJob)

\* The updates of an existing record, with whatever report.
Operation ==
  \/ \E r \in ProgressReport : UpdateProgress(r)
  \/ UpdateArtifacts
  \/ \E s \in Status : Transition(s)

\* An id without a file satisfies the invariant.
LEMMA RecordInitInv == RecordInit => RecordInv
  BY DEF RecordInit, RecordInv, RecordTypeOK, RecordSane, NoJob, NoEta, Record, Status, Live, Terminal

\* create makes a well-formed record.
LEMMA CreateInv == ASSUME RecordInv, Create PROVE RecordInv'
  BY DEF Create, Created, RecordInv, RecordTypeOK, RecordSane, NoJob, NoEta, Record, Status, Live, Terminal

\* update_progress keeps the record well-formed, whatever is reported.
LEMMA ProgressInv ==
  ASSUME RecordInv, NEW r \in ProgressReport, UpdateProgress(r) PROVE RecordInv'
<1>1. /\ r.percent \in 0..99 /\ r.processed \in Nat /\ r.total \in Nat
      /\ r.low \in Nat \cup {NoEta} /\ r.high \in Nat \cup {NoEta}
      /\ r.processed <= r.total /\ (r.low = NoEta <=> r.high = NoEta)
  BY DEF ProgressReport
<1>2. /\ record'.status = record.status
      /\ record'.percent = Larger(record.percent, r.percent)
      /\ record'.processed = Larger(record.processed, r.processed)
      /\ record'.total = Larger(record.total, r.total)
      /\ record'.low = IF r.low = NoEta THEN record.low ELSE r.low
      /\ record'.high = IF r.high = NoEta THEN record.high
                        ELSE Larger(Larger(record'.low, 0), r.high)
      /\ record'.artifacts = record.artifacts
      /\ record'.revision = record.revision + 1
  BY DEF UpdateProgress, WithProgress, RecordInv, RecordTypeOK, Record
<1>3. RecordTypeOK'
  BY WithProgressType DEF UpdateProgress, RecordInv, RecordTypeOK
<1>4. RecordSane'
  BY <1>1, <1>2 DEF UpdateProgress, RecordInv, RecordTypeOK, RecordSane, Record, Larger, NoEta, Live
<1>5. (record.status = "absent" => record = NoJob)'
  BY <1>2 DEF UpdateProgress, Live
<1> QED
  BY <1>3, <1>4, <1>5 DEF RecordInv

\* update_artifacts touches nothing the invariant relates.
LEMMA ArtifactsInv == ASSUME RecordInv, UpdateArtifacts PROVE RecordInv'
<1>1. /\ record'.status = record.status /\ record'.percent = record.percent
      /\ record'.processed = record.processed /\ record'.total = record.total
      /\ record'.low = record.low /\ record'.high = record.high
  BY DEF UpdateArtifacts, WithArtifacts, RecordInv, RecordTypeOK, Record
<1>2. record' \in Record
  BY WithArtifactsType DEF UpdateArtifacts, RecordInv, RecordTypeOK
<1>3. record.status # "absent"
  BY DEF UpdateArtifacts, RecordInv
<1> QED
  BY <1>1, <1>2, <1>3 DEF RecordInv, RecordTypeOK, RecordSane

\* transition keeps the record well-formed; only success reaches 100%.
LEMMA TransitionInv ==
  ASSUME RecordInv, NEW s \in Status, Transition(s) PROVE RecordInv'
<1>1. record.status \in Live /\ s # "absent"
  BY DEF Transition, Edge, Status, Live, Terminal
<1>2. CASE s = "succeeded"
  <2>1. /\ record'.status = s /\ record'.percent = 100
        /\ record'.processed = record.processed /\ record'.total = record.total
        /\ record'.low = 0 /\ record'.high = 0
    BY <1>2 DEF Transition, WithStatus, RecordInv, RecordTypeOK, Record
  <2>2. record' \in Record
    BY WithStatusType DEF Transition, RecordInv, RecordTypeOK
  <2> QED
    BY <1>1, <1>2, <2>1, <2>2 DEF RecordInv, RecordTypeOK, RecordSane, NoEta
<1>3. CASE s # "succeeded"
  <2>1. /\ record'.status = s /\ record'.percent = record.percent
        /\ record'.processed = record.processed /\ record'.total = record.total
        /\ record'.low = record.low /\ record'.high = record.high
    BY <1>3 DEF Transition, WithStatus, RecordInv, RecordTypeOK, Record
  <2>2. record' \in Record
    BY WithStatusType DEF Transition, RecordInv, RecordTypeOK
  <2> QED
    BY <1>1, <1>3, <2>1, <2>2 DEF RecordInv, RecordTypeOK, RecordSane, Live
<1> QED
  BY <1>2, <1>3

\* So every operation of the store keeps it.
LEMMA OperationInv == ASSUME RecordInv, Operation PROVE RecordInv'
  BY ProgressInv, ArtifactsInv, TransitionInv DEF Operation

\* And none leaves a terminal status or rewrites its percentage, takes the
\* progress backwards or reuses a revision number.
LEMMA OperationOrdered ==
  ASSUME RecordInv, Operation
  PROVE  /\ record.status \in Terminal =>
              record'.status = record.status /\ record'.percent = record.percent
         /\ record'.percent >= record.percent
         /\ record'.processed >= record.processed
         /\ record'.revision > record.revision
<1> USE DEF RecordInv, RecordTypeOK, Record
<1>1. ASSUME NEW r \in ProgressReport, UpdateProgress(r)
      PROVE  /\ record.status \notin Terminal
             /\ record'.percent >= record.percent
             /\ record'.processed >= record.processed
             /\ record'.revision > record.revision
  <2>1. r.percent \in 0..99 /\ r.processed \in Nat
    BY DEF ProgressReport
  <2> QED
    BY <1>1, <2>1 DEF UpdateProgress, WithProgress, Larger, Live, Terminal
<1>2. CASE UpdateArtifacts
  BY <1>2 DEF UpdateArtifacts, WithArtifacts
<1>3. ASSUME NEW s \in Status, Transition(s)
      PROVE  /\ record.status \notin Terminal
             /\ record'.percent >= record.percent
             /\ record'.processed >= record.processed
             /\ record'.revision > record.revision
  <2>1. record.status \notin Terminal
    BY <1>3 DEF Transition, Edge, Terminal
  <2>2. CASE s = "succeeded"
    BY <1>3, <2>1, <2>2 DEF Transition, WithStatus
  <2>3. CASE s # "succeeded"
    BY <1>3, <2>1, <2>3 DEF Transition, WithStatus
  <2> QED
    BY <2>2, <2>3
<1> QED
  BY <1>1, <1>2, <1>3 DEF Operation

\* A step of JobRecord creates the record or is an operation on it.
LEMMA RecordNextOperation == RecordNext => Create \/ Operation
  BY ReportsAssumption DEF RecordNext, Update, Operation

\* The inductive invariant of the atomic store: its four theorems rest on it.
LEMMA RecordInvariance == RecordSpec => []RecordInv
<1>1. RecordInv /\ [RecordNext]_record => RecordInv'
  BY RecordNextOperation, CreateInv, OperationInv DEF RecordInv, RecordTypeOK, RecordSane
<1> QED
  BY RecordInitInv, <1>1, PTL DEF RecordSpec

\* Whatever is reported and in whatever order, the record a reader sees has
\* fields in range (StoredJob and the checks of update_progress).
THEOREM RecordTypeCorrect == RecordSpec => []RecordTypeOK
  BY RecordInvariance, PTL DEF RecordInv

\* Whatever is reported, the record is never contradictory: no more work done
\* than known, no inverted ETA range, and 100% exactly for a success.
THEOREM RecordSanity == RecordSpec => []RecordSane
  BY RecordInvariance, PTL DEF RecordInv

\* No operation of the store leaves a terminal status or rewrites the progress
\* that was shown with it (update_artifacts, which ignores the status, included).
THEOREM RecordFinality == RecordSpec => TerminalIsFinal
<1>1. RecordInv /\ [RecordNext]_record =>
        [record.status \in Terminal =>
           /\ record'.status = record.status
           /\ record'.percent = record.percent]_record
  BY RecordNextOperation, OperationOrdered DEF Create, NoJob, Terminal
<1> QED
  BY <1>1, RecordInvariance, PTL DEF RecordSpec, TerminalIsFinal

\* No operation takes the progress backwards or reuses a revision number.
THEOREM RecordMonotone == RecordSpec => NeverBackwards
<1>1. RecordInv /\ [RecordNext]_record =>
        [record # NoJob =>
           /\ record'.percent >= record.percent
           /\ record'.processed >= record.processed
           /\ record'.revision > record.revision]_record
  BY RecordNextOperation, OperationOrdered DEF Create
<1> QED
  BY <1>1, RecordInvariance, PTL DEF RecordSpec, NeverBackwards

-----------------------------------------------------------------------------
(* A task's record and its files agree, for every set of progress reports  *)
(* and every number of kills.                                              *)

Working  == {"probe", "normalize", "check", "load", "vad", "transcribe", "check again",
             "finalize", "result", "result torn", "derive", "artifacts", "succeed"}
Finished == {"rewrite", "rewrite torn", "clean", "return"}

\* What the stored status can be, given where the call is.
StatusByPoint ==
  /\ record.status \in Status
  /\ pc \in {"start", "run"} => record.status \in {"queued", "cancelled"}
  /\ pc \in Working => record.status = "running"
  /\ pc \in Finished => record.status = "succeeded"
  /\ pc \in {"handler", "escaped", "dead"} => record.status \notin {"failed", "interrupted"}
  /\ pc \in {"returned", "reaped"} => record.status \in Terminal

\* What has been written, given where the call is; a task that is still queued
\* has no files, so a recovered call starts from none.
FilesByPoint ==
  /\ record.status = "queued" => written = 0 /\ result = "absent"
  /\ pc \in {"start", "run", "probe", "normalize", "check", "load", "vad", "transcribe",
             "check again", "finalize", "result", "result torn"} => written = 0
  /\ pc = "derive" => written # Derived /\ result # "absent"
  /\ pc \in {"artifacts", "succeed"} => written = Derived /\ result # "absent"
  /\ pc = "succeed" => record.artifacts
  /\ pc \in {"clean", "return"} => result = "final"

\* A call that has not ended has no outcome.
NoOutcomeYet == pc \notin {"returned", "reaped"} => outcome = "none"

IInv ==
  /\ TypeOK
  /\ StatusByPoint
  /\ FilesByPoint
  /\ NoOutcomeYet
  /\ SucceededIsComplete
  /\ ReturnIsHonest

-----------------------------------------------------------------------------
(* What a step of the store does to the fields the invariant mentions.     *)

\* update_progress changes neither the status nor the artifacts.
LEMMA ProgressStep ==
  ASSUME record \in Record, NEW r \in ProgressReport, UpdateProgress(r)
  PROVE  /\ record' \in Record /\ record.status \in Live
         /\ record'.status = record.status /\ record'.artifacts = record.artifacts
<1>1. record' = WithProgress(record, r) /\ record.status \in Live
  BY DEF UpdateProgress
<1> QED
  BY <1>1, WithProgressType DEF WithProgress, Record

\* The reports of execute_job itself are of the accepted kind.
LEMMA StageStep ==
  ASSUME record \in Record, NEW p \in {1, 3, 5, 10, 95}, Stage(p)
  PROVE  /\ record' \in Record /\ record.status \in Live
         /\ record'.status = record.status /\ record'.artifacts = record.artifacts
<1>1. [percent |-> p, processed |-> 0, total |-> 0, low |-> NoEta, high |-> NoEta]
        \in ProgressReport
  BY DEF ProgressReport
<1> QED
  BY <1>1, ProgressStep DEF Stage

\* update_artifacts records the artifacts and keeps the status.
LEMMA ArtifactsStep ==
  ASSUME record \in Record, UpdateArtifacts
  PROVE  record' \in Record /\ record'.status = record.status /\ record'.artifacts
<1>1. record' = WithArtifacts(record)
  BY DEF UpdateArtifacts
<1> QED
  BY <1>1, WithArtifactsType DEF WithArtifacts, Record

\* transition follows the table and keeps the artifacts.
LEMMA TransitionStep ==
  ASSUME record \in Record, NEW s \in Status, Transition(s)
  PROVE  /\ record' \in Record /\ <<record.status, s>> \in Edge
         /\ record'.status = s /\ record'.artifacts = record.artifacts
<1>1. record' = WithStatus(record, s) /\ <<record.status, s>> \in Edge
  BY DEF Transition
<1> QED
  BY <1>1, WithStatusType DEF WithStatus, Record

-----------------------------------------------------------------------------
\* A queued task without any file satisfies the invariant.
LEMMA InitIInv == Init => IInv
<1> SUFFICES ASSUME Init PROVE IInv
  OBVIOUS
<1>1. record \in Record /\ record.status = "queued"
  BY CreatedType DEF Init, Created, NoJob
<1>2. TypeOK
  <2>1. written \in 0..Derived /\ kills \in 0..MaxKills
    BY MaxKillsAssumption DEF Init, Derived
  <2> QED
    BY <1>1, <2>1, Zenon DEF Init, TypeOK, Points, Body
<1> QED
  BY <1>1, <1>2 DEF Init, IInv, StatusByPoint, FilesByPoint, NoOutcomeYet,
       SucceededIsComplete, ReturnIsHonest, Status, Live, Working, Finished

\* The steps of the call between two points that only report progress.
LEMMA ReportingIInv ==
  ASSUME IInv, Probe \/ Normalize \/ LoadModel \/ Vad \/ Finalize
               \/ \E r \in Reports : Callback(r)
  PROVE  IInv'
<1>1. /\ record' \in Record /\ record'.status = record.status
      /\ record'.artifacts = record.artifacts
  <2>1. CASE \E r \in Reports : Callback(r)
    BY <2>1, ReportsAssumption, ProgressStep DEF Callback, IInv, TypeOK
  <2>2. CASE Probe \/ Normalize \/ LoadModel \/ Vad \/ Finalize
    <3>1. \E p \in {1, 3, 5, 10, 95} : Stage(p)
      BY <2>2 DEF Probe, Normalize, LoadModel, Vad, Finalize
    <3> QED
      BY <3>1, StageStep DEF IInv, TypeOK
  <2> QED
    BY <2>1, <2>2
<1>2. /\ <<pc, pc'>> \in {<<"probe", "normalize">>, <<"normalize", "check">>,
                         <<"load", "vad">>, <<"vad", "transcribe">>,
                         <<"finalize", "result">>, <<"transcribe", "transcribe">>}
      /\ wav' \in {wav, TRUE}
      /\ UNCHANGED <<raised, outcome, cancel, result, written, kills>>
  BY DEF Probe, Normalize, LoadModel, Vad, Finalize, Callback, Goto, files
<1>3. TypeOK'
  BY <1>1, <1>2, ZenonT(60) DEF IInv, TypeOK, Points, Body
<1> QED
  BY <1>1, <1>2, <1>3 DEF IInv, TypeOK, StatusByPoint, FilesByPoint, NoOutcomeYet, SucceededIsComplete,
       ReturnIsHonest, Working, Finished

\* The steps that leave the record alone and go on, and those that leave the body.
LEMMA QuietIInv ==
  ASSUME IInv, Start \/ Check \/ Transcribe \/ CheckAgain \/ Clean \/ Return \/ Refused
               \/ (\E e \in {"ValueError", "Exception", "KeyboardInterrupt"} : Raise(e))
               \/ HandlerRaises \/ Kill \/ RequestCancel
  PROVE  IInv'
<1>1. /\ UNCHANGED <<record, result, written>>
      /\ wav' \in BOOLEAN /\ cancel' \in BOOLEAN /\ kills' \in 0..MaxKills
      /\ raised' \in {"none", "ValueError", "Exception", "KeyboardInterrupt"}
  <2>1. CASE Start \/ Check \/ Transcribe \/ CheckAgain \/ Clean \/ Return \/ HandlerRaises
    BY <2>1 DEF IInv, TypeOK, Start, Check, Transcribe, CheckAgain, Clean, Return, HandlerRaises, files
  <2>2. CASE Refused \/ \E e \in {"ValueError", "Exception", "KeyboardInterrupt"} : Raise(e)
    BY <2>2 DEF IInv, TypeOK, Refused, Raise, files
  <2>3. CASE Kill \/ RequestCancel
    <3>1. kills' \in 0..MaxKills
      <4>1. kills \in 0..MaxKills
        BY DEF IInv, TypeOK
      <4>2. kills' = kills \/ (kills < MaxKills /\ kills' = kills + 1)
        BY <2>3 DEF Kill, RequestCancel
      <4> QED
        BY <4>1, <4>2, MaxKillsAssumption
    <3> QED
      <4>1. UNCHANGED <<raised, record, wav, result, written>> /\ cancel' \in {cancel, TRUE}
        BY <2>3 DEF Kill, RequestCancel, files
      <4> QED
        BY <3>1, <4>1 DEF IInv, TypeOK
  <2> QED
    BY <2>1, <2>2, <2>3
<1>2. \/ <<pc, pc'>> \in {<<"start", "run">>, <<"check", "load">>, <<"transcribe", "check again">>,
                          <<"check again", "finalize">>, <<"clean", "return">>} /\ outcome' = outcome
      \/ pc = "return" /\ pc' = "returned" /\ outcome' = "succeeded"
      \/ pc \in Body /\ pc' = "handler" /\ outcome' = outcome
      \/ pc = "handler" /\ pc' = "escaped" /\ outcome' = outcome
      \/ pc \in Body \cup {"handler", "escaped"} /\ pc' = "dead" /\ outcome' = outcome
      \/ pc' = pc /\ outcome' = outcome
  BY DEF IInv, TypeOK, Points, Ended, Start, Check, Transcribe, CheckAgain, Clean, Return,
       Refused, Raise, HandlerRaises, Kill, RequestCancel, Goto, Body
<1>3. TypeOK'
  BY <1>1, <1>2 DEF IInv, TypeOK, Points, Body, Ended
<1>4. StatusByPoint'
  BY <1>1, <1>2 DEF IInv, TypeOK, StatusByPoint, Working, Finished, Body, Status, Live, Terminal
<1>5. FilesByPoint' /\ NoOutcomeYet'
  BY <1>1, <1>2 DEF IInv, TypeOK, FilesByPoint, NoOutcomeYet, Body
<1>6. SucceededIsComplete' /\ ReturnIsHonest'
  BY <1>1, <1>2 DEF IInv, StatusByPoint, FilesByPoint, SucceededIsComplete, ReturnIsHonest,
       Finished, Body, Terminal
<1> QED
  BY <1>3, <1>4, <1>5, <1>6 DEF IInv

\* The steps that write a file.
LEMMA WritingIInv == ASSUME IInv, WriteResult \/ Derive \/ Rewrite PROVE IInv'
<1>1. CASE WriteResult \/ Rewrite
  <2>1. /\ UNCHANGED <<raised, outcome, record, cancel, wav, written, kills>>
        /\ \/ pc = "result" /\ pc' = "result torn" /\ result' = "torn"
           \/ pc = "result torn" /\ pc' = "derive" /\ result' = "claims success"
           \/ pc = "rewrite" /\ pc' = "rewrite torn" /\ result' = "torn"
           \/ pc = "rewrite torn" /\ pc' = "clean" /\ result' = "final"
    BY <1>1 DEF WriteResult, Rewrite, Truncate, Fill, Goto
  <2>2. TypeOK'
    BY <2>1 DEF IInv, TypeOK, Points, Body
  <2>3. StatusByPoint' /\ NoOutcomeYet' /\ SucceededIsComplete' /\ ReturnIsHonest'
    BY <2>1 DEF IInv, StatusByPoint, NoOutcomeYet, SucceededIsComplete, ReturnIsHonest,
         Working, Finished
  <2>4. FilesByPoint'
    <3>1. pc = "result torn" => record.status = "running"
      BY DEF IInv, StatusByPoint, Working
    <3>2. pc \in {"result", "rewrite", "rewrite torn"} => record.status # "queued"
      BY DEF IInv, StatusByPoint, Working, Finished
    <3>3. /\ record.status = "queued" => written = 0 /\ result = "absent"
          /\ pc \in {"result", "result torn"} => written = 0
      BY DEF IInv, FilesByPoint
    <3>4. pc = "result torn" => written # Derived
      <4>1. 0 # Derived
        BY DEF Derived
      <4> QED
        BY <3>3, <4>1, Zenon
    <3>5. /\ record'.status = "queued" => written' = 0 /\ result' = "absent"
          /\ pc' = "result torn" => written' = 0
      BY <2>1, <3>1, <3>2, <3>3
    <3>6. pc' = "derive" => written' # Derived /\ result' # "absent"
      BY <2>1, <3>4
    <3>7. pc' \in {"result torn", "derive", "rewrite torn", "clean"}
          /\ (pc' = "clean" => result' = "final")
      BY <2>1
    <3> QED
      BY <3>5, <3>6, <3>7 DEF FilesByPoint
  <2> QED
    BY <2>2, <2>3, <2>4 DEF IInv
<1>2. CASE Derive
  <2>1. /\ UNCHANGED <<raised, outcome, record, cancel, wav, result, kills>>
        /\ pc = "derive" /\ written' = written + 1 /\ written' \in 0..Derived
        /\ pc' = IF written' = Derived THEN "artifacts" ELSE "derive"
    <3>1. /\ UNCHANGED <<raised, outcome, record, cancel, wav, result, kills>>
          /\ pc = "derive" /\ written' = written + 1
          /\ pc' = IF written' = Derived THEN "artifacts" ELSE "derive"
      BY <1>2 DEF Derive
    <3>2. written \in 0..Derived /\ written # Derived
      BY <3>1 DEF IInv, TypeOK, FilesByPoint
    <3>3. written' \in 0..Derived
      BY <3>1, <3>2 DEF Derived
    <3> QED
      BY <3>1, <3>3
  <2>2. TypeOK'
    BY <2>1 DEF IInv, TypeOK, Points, Body
  <2>3. record.status = "running" /\ result # "absent"
    BY <2>1 DEF IInv, StatusByPoint, FilesByPoint, Working
  <2> QED
    BY <2>1, <2>2, <2>3 DEF IInv, StatusByPoint, FilesByPoint, NoOutcomeYet, SucceededIsComplete,
         ReturnIsHonest, Working, Finished
<1> QED
  BY <1>1, <1>2

\* A queued task starts to run; one cancelled meanwhile is refused by the table.
LEMMA RunIInv == ASSUME IInv, Run PROVE IInv'
<1>1. record' \in Record /\ record'.status = "running" /\ record'.artifacts = record.artifacts
  BY TransitionStep, "running" \in Status DEF Run, IInv, TypeOK, Status, Live
<1>2. pc = "run" /\ pc' = "probe" /\ UNCHANGED <<raised, outcome, cancel, wav, result, written, kills>>
  BY DEF Run, Goto, files
<1>3. TypeOK'
  BY <1>1, <1>2 DEF IInv, TypeOK, Points, Body
<1> QED
  BY <1>1, <1>2, <1>3 DEF IInv, StatusByPoint, FilesByPoint, NoOutcomeYet, SucceededIsComplete,
       ReturnIsHonest, Working, Finished, Status, Live

\* The artifacts are recorded once all of them are written.
LEMMA RecordArtifactsIInv == ASSUME IInv, RecordArtifacts PROVE IInv'
<1>1. record' \in Record /\ record'.status = record.status /\ record'.artifacts
  BY ArtifactsStep DEF RecordArtifacts, IInv, TypeOK
<1>2. /\ pc = "artifacts" /\ pc' = "succeed"
      /\ UNCHANGED <<raised, outcome, cancel, wav, result, written, kills>>
  BY DEF RecordArtifacts, Goto, files
<1>3. TypeOK'
  BY <1>1, <1>2 DEF IInv, TypeOK, Points, Body
<1> QED
  BY <1>1, <1>2, <1>3 DEF IInv, StatusByPoint, FilesByPoint, NoOutcomeYet, SucceededIsComplete,
       ReturnIsHonest, Working, Finished

\* The success is stored after the artifacts are recorded.
LEMMA SucceedIInv == ASSUME IInv, Succeed PROVE IInv'
<1>1. record' \in Record /\ record'.status = "succeeded" /\ record'.artifacts = record.artifacts
  BY TransitionStep, "succeeded" \in Status DEF Succeed, IInv, TypeOK, Status, Terminal
<1>2. /\ pc = "succeed" /\ pc' = "rewrite"
      /\ UNCHANGED <<raised, outcome, cancel, wav, result, written, kills>>
  BY DEF Succeed, Goto, files
<1>3. TypeOK'
  BY <1>1, <1>2 DEF IInv, TypeOK, Points, Body
<1> QED
  BY <1>1, <1>2, <1>3 DEF IInv, StatusByPoint, FilesByPoint, NoOutcomeYet, SucceededIsComplete,
       ReturnIsHonest, Working, Finished, Status, Terminal

\* A cancellation point, and the manager's cancel of a queued task.
LEMMA CancelledIInv ==
  ASSUME IInv, CancelQueued \/ \E p \in {"start", "check", "check again"} : Cancelled(p)
  PROVE  IInv'
<1>1. /\ record' \in Record /\ record.status \in Live
      /\ record'.status = "cancelled" /\ record'.artifacts = record.artifacts
  <2>1. Transition("cancelled")
    BY DEF CancelQueued, Cancelled
  <2> QED
    BY <2>1, TransitionStep, "cancelled" \in Status DEF IInv, TypeOK, Status, Live, Terminal, Edge
<1>2. CASE CancelQueued
  <2>1. record.status = "queued" /\ UNCHANGED <<pc, raised, outcome, cancel, wav, result, written, kills>>
    BY <1>2 DEF CancelQueued, files
  <2> QED
    BY <1>1, <2>1 DEF IInv, TypeOK, StatusByPoint, FilesByPoint, NoOutcomeYet,
         SucceededIsComplete, ReturnIsHonest, Working, Finished, Status, Live, Terminal
<1>3. ASSUME NEW p \in {"start", "check", "check again"}, Cancelled(p) PROVE IInv'
  <2>1. /\ pc = p /\ pc' = "returned" /\ outcome' = "cancelled"
        /\ UNCHANGED <<raised, cancel, wav, result, written, kills>>
    BY <1>3 DEF Cancelled, Goto, files
  <2>2. TypeOK'
    BY <1>1, <2>1 DEF IInv, TypeOK, Points, Ended
  <2> QED
    BY <1>1, <2>1, <2>2 DEF IInv, StatusByPoint, FilesByPoint, NoOutcomeYet, SucceededIsComplete,
         ReturnIsHonest, Working, Finished, Status, Live, Terminal
<1> QED
  BY <1>2, <1>3

\* The handlers of execute_job.
LEMMA HandleIInv == ASSUME IInv, Handle PROVE IInv'
<1>1. /\ pc = "handler" /\ pc' = "returned" /\ outcome' = HandlerStatus
      /\ UNCHANGED <<raised, cancel, wav, result, written, kills>>
  BY DEF Handle, Goto, files
<1>2. HandlerStatus \in {"cancelled", "failed"}
  BY DEF HandlerStatus
<1>3. /\ record' \in Record /\ record'.artifacts = record.artifacts
      /\ record'.status = IF record.status \in Live THEN HandlerStatus ELSE record.status
  <2>1. CASE record.status \in Live
    BY <2>1, <1>2, TransitionStep DEF Handle, IInv, TypeOK, Status, Terminal
  <2>2. CASE record.status \notin Live
    BY <2>2 DEF Handle, IInv, TypeOK
  <2> QED
    BY <2>1, <2>2
<1>4. TypeOK'
  BY <1>1, <1>2, <1>3 DEF IInv, TypeOK, Points, Ended
<1> QED
  BY <1>1, <1>2, <1>3, <1>4 DEF IInv, StatusByPoint, FilesByPoint, NoOutcomeYet,
       SucceededIsComplete, ReturnIsHonest, Working, Finished, Status, Live, Terminal

\* The scheduler finds a dead or failed worker, or the next manager does.
LEMMA FoundIInv == ASSUME IInv, Reap \/ Recover PROVE IInv'
<1>1. /\ record' \in Record /\ record'.artifacts = record.artifacts
      /\ record'.status \in {record.status, "failed", "interrupted"}
      /\ pc' = "reaped" => record'.status \in Terminal
      /\ pc' = "start" => record'.status = "queued"
  <2>1. CASE Transition("failed") \/ Transition("interrupted")
    <3>1. PICK s \in {"failed", "interrupted"} : Transition(s)
      BY <2>1
    <3>2. s \in Status /\ s \in Terminal
      BY DEF Status, Terminal
    <3>3. record' \in Record /\ record'.status = s /\ record'.artifacts = record.artifacts
          /\ record.status \in Live
      BY <3>1, <3>2, TransitionStep DEF IInv, TypeOK, Edge, Live
    <3> QED
      BY <3>1, <3>2, <3>3 DEF Reap, Recover, Live, IInv, TypeOK
  <2>2. CASE UNCHANGED record /\ ~(Transition("failed") \/ Transition("interrupted"))
    BY <2>2 DEF Reap, Recover, IInv, TypeOK, StatusByPoint, Status, Live
  <2> QED
    BY <2>1, <2>2 DEF Reap, Recover
<1>2. /\ pc \in {"escaped", "dead"} /\ pc' \in {"reaped", "start"}
      /\ pc' = "start" => outcome' = outcome
      /\ outcome' \in {outcome, "failed"} /\ cancel' \in {cancel, FALSE}
      /\ UNCHANGED <<raised, wav, result, written, kills>>
  BY DEF Reap, Recover, files
<1>3. TypeOK'
  BY <1>1, <1>2 DEF IInv, TypeOK, Points, Ended, Body
<1> QED
  BY <1>1, <1>2, <1>3 DEF IInv, StatusByPoint, FilesByPoint, NoOutcomeYet, SucceededIsComplete,
       ReturnIsHonest, Working, Finished, Status, Terminal

\* Every step keeps the invariant.
LEMMA NextIInv == IInv /\ [Next]_vars => IInv'
<1> SUFFICES ASSUME IInv, [Next]_vars PROVE IInv'
  OBVIOUS
<1>1. CASE Probe \/ Normalize \/ LoadModel \/ Vad \/ Finalize
           \/ \E r \in Reports : Callback(r)
  BY <1>1, ReportingIInv
<1>2. CASE Start \/ Check \/ Transcribe \/ CheckAgain \/ Clean \/ Return \/ Refused \/ Fault \/ Kill
           \/ RequestCancel
  BY <1>2, QuietIInv DEF Fault
<1>3. CASE WriteResult \/ Derive \/ Rewrite
  BY <1>3, WritingIInv
<1>4. CASE CancelQueued \/ \E p \in {"start", "check", "check again"} : Cancelled(p)
  BY <1>4, CancelledIInv
<1>5. CASE Run \/ RecordArtifacts \/ Succeed \/ Handle
  BY <1>5, RunIInv, RecordArtifactsIInv, SucceedIInv, HandleIInv
<1>6. CASE Reap \/ Recover
  BY <1>6, FoundIInv
<1>7. CASE UNCHANGED vars
  <2>1. UNCHANGED <<pc, raised, outcome, record, cancel, wav, result, written, kills>>
    BY <1>7 DEF vars, files
  <2>2. TypeOK'
    BY <2>1 DEF IInv, TypeOK
  <2>3. StatusByPoint' /\ FilesByPoint'
    BY <2>1 DEF IInv, StatusByPoint, FilesByPoint
  <2>4. NoOutcomeYet' /\ SucceededIsComplete' /\ ReturnIsHonest'
    BY <2>1 DEF IInv, NoOutcomeYet, SucceededIsComplete, ReturnIsHonest
  <2> QED
    BY <2>2, <2>3, <2>4 DEF IInv
<1> QED
  BY <1>1, <1>2, <1>3, <1>4, <1>5, <1>6, <1>7 DEF Next, Step

\* The three theorems rest on the same invariant.
LEMMA Invariance == Spec => []IInv
<1> QED
  BY InitIInv, NextIInv, PTL DEF Spec

-----------------------------------------------------------------------------
\* The record, the outcome and the files keep their types under every sequence
\* of faults, kills and restarts of execute_job.
THEOREM TypeCorrect == Spec => []TypeOK
BY Invariance, PTL DEF IInv

\* However execute_job is interrupted, killed or restarted, a stored success has
\* all its derived artifacts, recorded and complete.
THEOREM Completeness == Spec => []SucceededIsComplete
BY Invariance, PTL DEF IInv

\* What execute_job returns agrees with what it has stored.
THEOREM Honesty == Spec => []ReturnIsHonest
BY Invariance, PTL DEF IInv

-----------------------------------------------------------------------------
(* Cancellation.                                                           *)

\* The points up to the last one where the event is looked at.
Early == {"start", "run", "probe", "normalize", "check", "load", "vad", "transcribe",
          "check again"}

\* Unless it is killed, a call that was asked to stop early is still there, with the
\* event set, or has left the body without a success.
Stopping ==
  kills = 0 =>
    /\ record.status # "succeeded"
    /\ \/ pc \in Early /\ cancel
       \/ pc \in {"handler", "returned", "escaped", "reaped"}

LEMMA StoppingStep == IInv /\ Stopping /\ [Next]_vars => Stopping'
<1> SUFFICES ASSUME IInv, Stopping, [Next]_vars, kills' = 0
             PROVE  /\ record'.status # "succeeded"
                    /\ \/ pc' \in Early /\ cancel'
                       \/ pc' \in {"handler", "returned", "escaped", "reaped"}
  BY DEF Stopping
<1>1. kills = 0 /\ ~Kill /\ record \in Record
  <2>1. kills \in Nat /\ record \in Record
    <3>1. kills \in 0..MaxKills /\ record \in Record
      BY DEF IInv, TypeOK
    <3> QED
      BY <3>1, MaxKillsAssumption
  <2>2. kills' = kills \/ kills' = kills + 1
    BY DEF Next, Step, Cancelled, Start, Run, Refused, Probe, Normalize, Check, LoadModel,
       Vad, Transcribe, CheckAgain, Finalize, WriteResult, Truncate, Fill, Derive, RecordArtifacts,
       Succeed, Rewrite, Clean, Return, Handle, Callback, Fault, Raise, HandlerRaises, Kill,
       Reap, Recover, CancelQueued, RequestCancel, vars
  <2> QED
    BY <2>1, <2>2 DEF Kill
<1>2. /\ record.status # "succeeded"
      /\ \/ pc \in Early /\ cancel
         \/ pc \in {"handler", "returned", "escaped", "reaped"}
  BY <1>1 DEF Stopping
<1>3. CASE Probe \/ Normalize \/ LoadModel \/ Vad
  <2>1. \E p \in {1, 3, 5, 10, 95} : Stage(p)
    BY <1>3 DEF Probe, Normalize, LoadModel, Vad
  <2>2. record'.status = record.status
    BY <1>1, <2>1, StageStep
  <2> QED
    BY <1>2, <1>3, <2>2 DEF Probe, Normalize, LoadModel, Vad, Goto, Early
<1>4. CASE \E r \in Reports : Callback(r)
  <2>1. record'.status = record.status
    BY <1>1, <1>4, ReportsAssumption, ProgressStep DEF Callback
  <2> QED
    BY <1>2, <1>4, <2>1 DEF Callback
<1>5. ASSUME NEW s \in Status, Transition(s), s # "succeeded" PROVE record'.status # "succeeded"
  BY <1>1, <1>5, TransitionStep
<1>6. CASE Run \/ Handle \/ \E p \in {"start", "check", "check again"} : Cancelled(p)
  <2>1. record'.status # "succeeded"
    BY <1>2, <1>5, <1>6 DEF Run, Handle, HandlerStatus, Cancelled, Status, Live, Terminal
  <2> QED
    BY <1>2, <1>6, <2>1 DEF Run, Handle, Cancelled, Goto, Early
<1>7. CASE Reap \/ Recover \/ CancelQueued
  <2>1. record'.status # "succeeded"
    BY <1>2, <1>5, <1>7 DEF Reap, Recover, CancelQueued, Status, Terminal
  <2> QED
    BY <1>2, <1>7, <2>1 DEF Reap, Recover, CancelQueued, Early
<1>8. CASE Start \/ Refused \/ Check \/ Transcribe \/ CheckAgain \/ Fault \/ RequestCancel \/ UNCHANGED vars
  BY <1>2, <1>8 DEF Start, Refused, Check, Transcribe, CheckAgain, Fault, Raise, HandlerRaises, RequestCancel,
     Goto, Early, vars
<1>9. CASE Finalize \/ WriteResult \/ Derive \/ RecordArtifacts \/ Succeed \/ Rewrite \/ Clean
           \/ Return
  BY <1>2, <1>9 DEF Finalize, WriteResult, Truncate, Fill, Derive, RecordArtifacts, Succeed,
     Rewrite, Clean, Return, Goto, Early
<1> QED
  BY <1>1, <1>3, <1>4, <1>6, <1>7, <1>8, <1>9 DEF Next, Step

\* A cancel that comes before the last cancellation point is final: whatever raises
\* afterwards, that run of the worker does not store a success.
THEOREM Cancellation == Spec => CancelIsHonoured
<1>1. IInv /\ cancel /\ pc \in Early => Stopping
  BY DEF IInv, StatusByPoint, Stopping, Early, Working
<1>2. Stopping => (kills = 0 => record.status # "succeeded")
  BY DEF Stopping
<1> QED
  BY <1>1, <1>2, StoppingStep, Invariance, PTL DEF Spec, CancelIsHonoured, Early

-----------------------------------------------------------------------------
\* execute_job, the scheduler, the manager's recovery and its cancel change the
\* record by one operation of the store at a time.
LEMMA NextOperation == ASSUME [Next]_vars PROVE Operation \/ UNCHANGED record
<1>1. CASE Step
  <2>1. ASSUME NEW p \in {1, 3, 5, 10, 95}, Stage(p) PROVE Operation
    <3>1. [percent |-> p, processed |-> 0, total |-> 0, low |-> NoEta, high |-> NoEta]
            \in ProgressReport
      BY DEF ProgressReport
    <3> QED
      BY <2>1, <3>1 DEF Stage, Operation
  <2>2. ASSUME NEW s \in {"running", "succeeded", "failed", "cancelled"}, Transition(s)
        PROVE  Operation
    BY <2>2 DEF Operation, Status, Live, Terminal
  <2>3. CASE Probe \/ Normalize \/ LoadModel \/ Vad \/ Finalize
    BY <2>1, <2>3 DEF Probe, Normalize, LoadModel, Vad, Finalize
  <2>4. CASE RecordArtifacts
    BY <2>4 DEF RecordArtifacts, Operation
  <2>5. CASE Run \/ Succeed \/ Handle \/ \E p \in {"start", "check", "check again"} : Cancelled(p)
    BY <2>2, <2>5 DEF Run, Succeed, Handle, HandlerStatus, Cancelled
  <2>6. CASE Start \/ Refused \/ Check \/ Transcribe \/ CheckAgain \/ WriteResult \/ Derive \/ Rewrite
             \/ Clean \/ Return
    BY <2>6 DEF Start, Refused, Check, Transcribe, CheckAgain, WriteResult, Truncate, Fill, Derive, Rewrite,
         Clean, Return
  <2> QED
    BY <1>1, <2>3, <2>4, <2>5, <2>6 DEF Step
<1>2. CASE \E r \in Reports : Callback(r)
  BY <1>2, ReportsAssumption DEF Callback, Operation
<1>3. CASE Reap \/ Recover \/ CancelQueued
  <2>1. UNCHANGED record \/ \E s \in {"failed", "interrupted", "cancelled"} : Transition(s)
    BY <1>3 DEF Reap, Recover, CancelQueued
  <2> QED
    BY <2>1 DEF Operation, Status, Terminal
<1>4. CASE Fault \/ Kill \/ RequestCancel \/ UNCHANGED vars
  BY <1>4 DEF Fault, Raise, HandlerRaises, Kill, RequestCancel, vars
<1> QED
  BY <1>1, <1>2, <1>3, <1>4 DEF Next

\* Hence its record keeps the invariant of JobRecord.
LEMMA RecordKept == Spec => []RecordInv
<1>1. Init => RecordInv
  BY CreatedType DEF Init, RecordInv, RecordTypeOK, RecordSane, Created, NoJob, NoEta
<1>2. RecordInv /\ [Next]_vars => RecordInv'
  BY NextOperation, OperationInv DEF RecordInv, RecordTypeOK, RecordSane
<1> QED
  BY <1>1, <1>2, PTL DEF Spec

\* What job status and the console show of a task is never contradictory, through
\* exceptions, kills, restarts, a cancel and recovery.
THEOREM ExecutionSanity == Spec => []RecordSane
  BY RecordKept, PTL DEF RecordInv

\* No handler, no scheduler that finds a dead worker and no recovered manager
\* overwrites the terminal status (or the percentage) of a task.
THEOREM ExecutionFinality == Spec => TerminalIsFinal
<1>1. RecordInv /\ [Next]_vars =>
        [record.status \in Terminal =>
           /\ record'.status = record.status
           /\ record'.percent = record.percent]_record
  BY NextOperation, OperationOrdered
<1> QED
  BY <1>1, RecordKept, PTL DEF Spec, TerminalIsFinal

\* A recovered task goes on from the progress it had: no step takes it backwards.
THEOREM ExecutionMonotone == Spec => NeverBackwards
<1>1. RecordInv /\ [Next]_vars =>
        [record # NoJob =>
           /\ record'.percent >= record.percent
           /\ record'.processed >= record.processed
           /\ record'.revision > record.revision]_record
  BY NextOperation, OperationOrdered
<1> QED
  BY <1>1, RecordKept, PTL DEF Spec, NeverBackwards
=============================================================================
