------------------------------ MODULE Executor ------------------------------
(***************************************************************************)
(* The life of one task in execute_job (executor.py), as run by a worker   *)
(* of the background manager: the calls to the store in program order, the *)
(* three cancellation points, the artifacts, the exception handlers, and   *)
(* what happens when the worker is killed anywhere in between.             *)
(*                                                                         *)
(* The record of the task and the store's operations on it are those of    *)
(* JobRecord.  An artifact is abstracted to whether it is complete:        *)
(* Path.write_text truncates the file first, so a death in between leaves  *)
(* it torn.  A call that raises half-way is the same as raising before it  *)
(* or after it, because each step below changes one thing.                 *)
(***************************************************************************)
EXTENDS JobRecord

\* Reports are here the reports of the transcription callback; none is made once
\* the record has had MaxRevision updates.
CONSTANT MaxKills   \* bound on the number of times the worker is killed

ASSUME MaxKillsAssumption == MaxKills \in Nat

VARIABLES
  pc,       \* where execute_job is, or how the call ended
  raised,   \* the kind of exception being handled
  outcome,  \* ExecutionOutcome.status of the call
  cancel,   \* the cancel event of the task
  wav,      \* the normalized audio is in the working directory
  result,   \* result.json
  written,  \* derived artifacts written after result.json
  kills

files == <<wav, result, written>>
vars  == <<pc, raised, outcome, record, cancel, files, kills>>

\* markdown, text, srt and media.json, written in this order.
Derived == 4

Ended  == {"returned", "escaped", "dead", "reaped"}
Body   == {"start", "run", "probe", "normalize", "check", "load", "vad",
           "transcribe", "check again", "finalize", "result", "result torn", "derive",
           "artifacts", "succeed", "rewrite", "rewrite torn", "clean", "return"}
Points == Body \cup {"handler"} \cup Ended

Init ==
  /\ pc = "start"
  /\ raised = "none"
  /\ outcome = "none"
  /\ record = Created
  /\ cancel = FALSE
  /\ wav = FALSE
  /\ result = "absent"
  /\ written = 0
  /\ kills = 0

Goto(p, q) == pc = p /\ pc' = q

Stage(p) == UpdateProgress(
  [percent |-> p, processed |-> 0, total |-> 0, low |-> NoEta, high |-> NoEta])

\* A cancellation point that finds the event set.
Cancelled(p) ==
  /\ Goto(p, "returned")
  /\ cancel
  /\ Transition("cancelled")
  /\ outcome' = "cancelled"
  /\ UNCHANGED <<raised, cancel, files, kills>>

Start == Goto("start", "run") /\ ~cancel
         /\ UNCHANGED <<raised, outcome, record, cancel, files, kills>>

Run == Goto("run", "probe") /\ Transition("running")
       /\ UNCHANGED <<raised, outcome, cancel, files, kills>>

\* The store refuses the transition of a task that was cancelled while queued.
Refused ==
  /\ pc \in {"start", "run"}
  /\ pc = "start" => cancel
  /\ record.status \notin Live
  /\ pc' = "handler"
  /\ raised' = "ValueError"
  /\ UNCHANGED <<outcome, record, cancel, files, kills>>

Probe == Goto("probe", "normalize") /\ Stage(1)
         /\ UNCHANGED <<raised, outcome, cancel, files, kills>>

Normalize == Goto("normalize", "check") /\ Stage(3) /\ wav' = TRUE
             /\ UNCHANGED <<raised, outcome, cancel, result, written, kills>>

Check == Goto("check", "load") /\ ~cancel
         /\ UNCHANGED <<raised, outcome, record, cancel, files, kills>>

LoadModel == Goto("load", "vad") /\ Stage(5)
             /\ UNCHANGED <<raised, outcome, cancel, files, kills>>

Vad == Goto("vad", "transcribe") /\ Stage(10)
       /\ UNCHANGED <<raised, outcome, cancel, files, kills>>

\* A callback of the model; what it raises is swallowed (safe_progress).
Callback(r) ==
  /\ pc = "transcribe"
  /\ record.revision < MaxRevision
  /\ UpdateProgress(r)
  /\ UNCHANGED <<pc, raised, outcome, cancel, files, kills>>

Transcribe == Goto("transcribe", "check again")
              /\ UNCHANGED <<raised, outcome, record, cancel, files, kills>>

\* Mutant of CheckAgain: the event is not looked at after the transcription.
CheckAgainSkipped == Goto("check again", "finalize")
                     /\ UNCHANGED <<raised, outcome, record, cancel, files, kills>>

CheckAgain == Goto("check again", "finalize") /\ ~cancel
              /\ UNCHANGED <<raised, outcome, record, cancel, files, kills>>

Finalize == Goto("finalize", "result") /\ Stage(95)
            /\ UNCHANGED <<raised, outcome, cancel, files, kills>>

\* write_result: truncate, then fill.
Truncate(p, q) == Goto(p, q) /\ result' = "torn"
                  /\ UNCHANGED <<raised, outcome, record, cancel, wav, written, kills>>
Fill(p, q, content) == Goto(p, q) /\ result' = content
                       /\ UNCHANGED <<raised, outcome, record, cancel, wav, written, kills>>

WriteResult ==
  \/ Truncate("result", "result torn")
  \/ Fill("result torn", "derive", "claims success")

\* Mutants of Derive: one artifact too few, one too many.
DeriveShort ==
  /\ pc = "derive"
  /\ written' = written + 1
  /\ pc' = IF written' = Derived - 1 THEN "artifacts" ELSE "derive"
  /\ UNCHANGED <<raised, outcome, record, cancel, wav, result, kills>>

DeriveLong ==
  /\ pc = "derive"
  /\ written' = written + 1
  /\ pc' = IF written = Derived THEN "artifacts" ELSE "derive"
  /\ UNCHANGED <<raised, outcome, record, cancel, wav, result, kills>>

\* The exports read result.json back, which is complete here.
Derive ==
  /\ pc = "derive"
  /\ written' = written + 1
  /\ pc' = IF written' = Derived THEN "artifacts" ELSE "derive"
  /\ UNCHANGED <<raised, outcome, record, cancel, wav, result, kills>>

RecordArtifacts == Goto("artifacts", "succeed") /\ UpdateArtifacts
                   /\ UNCHANGED <<raised, outcome, cancel, files, kills>>

Succeed == Goto("succeed", "rewrite") /\ Transition("succeeded")
           /\ UNCHANGED <<raised, outcome, cancel, files, kills>>

\* result.json is written again with the times of the stored record.
Rewrite ==
  \/ Truncate("rewrite", "rewrite torn")
  \/ Fill("rewrite torn", "clean", "final")

\* rmtree ignores errors and is skipped with keep_normalized.
Clean == Goto("clean", "return") /\ wav' \in {wav, FALSE}
         /\ UNCHANGED <<raised, outcome, record, cancel, result, written, kills>>

Return == Goto("return", "returned") /\ outcome' = "succeeded"
          /\ UNCHANGED <<raised, record, cancel, files, kills>>

\* Any step may raise; Ctrl+C reaches the worker process as KeyboardInterrupt.
Raise(e) ==
  /\ pc \in Body
  /\ pc' = "handler"
  /\ raised' = e
  /\ UNCHANGED <<outcome, record, cancel, files, kills>>

\* The except clauses: only a live task is moved to a terminal status.
HandlerStatus == IF raised = "KeyboardInterrupt" THEN "cancelled" ELSE "failed"

\* Mutant of Handle: the outcome is returned but not stored.
HandleWithoutStore ==
  /\ Goto("handler", "returned")
  /\ outcome' = HandlerStatus
  /\ UNCHANGED <<raised, record, cancel, files, kills>>

Handle ==
  /\ Goto("handler", "returned")
  /\ IF record.status \in Live THEN Transition(HandlerStatus) ELSE UNCHANGED record
  /\ outcome' = HandlerStatus
  /\ UNCHANGED <<raised, cancel, files, kills>>

HandlerRaises == Goto("handler", "escaped")
                 /\ UNCHANGED <<raised, outcome, record, cancel, files, kills>>

\* What the worker does next unless something goes wrong.
Step ==
  \/ \E p \in {"start", "check", "check again"} : Cancelled(p)
  \/ Start \/ Run \/ Refused \/ Probe \/ Normalize \/ Check \/ LoadModel
  \/ Vad \/ Transcribe \/ CheckAgain \/ Finalize \/ WriteResult \/ Derive
  \/ RecordArtifacts \/ Succeed \/ Rewrite \/ Clean \/ Return \/ Handle

Fault ==
  \/ \E e \in {"ValueError", "Exception", "KeyboardInterrupt"} : Raise(e)
  \/ HandlerRaises

Kill ==
  /\ pc \notin {"dead", "returned", "reaped"}
  /\ kills < MaxKills
  /\ pc' = "dead"
  /\ kills' = kills + 1
  /\ UNCHANGED <<raised, outcome, record, cancel, files>>

-----------------------------------------------------------------------------
\* Mutant of Reap: the task of a dead worker keeps its status.
ReapWithoutStore ==
  /\ pc \in {"escaped", "dead"}
  /\ pc' = "reaped"
  /\ outcome' = "failed"
  /\ UNCHANGED <<raised, record, cancel, files, kills>>

\* run_batch, when the future of the call raises or its process is gone.
Reap ==
  /\ pc \in {"escaped", "dead"}
  /\ pc' = "reaped"
  /\ IF record.status \in Live THEN Transition("failed") ELSE UNCHANGED record
  /\ outcome' = "failed"
  /\ UNCHANGED <<raised, cancel, files, kills>>

\* The manager died with the worker: its successor's _recover marks a running
\* task interrupted and runs a queued one, with a new cancel event.
Recover ==
  /\ pc = "dead"
  /\ IF record.status = "queued"
     THEN pc' = "start" /\ cancel' = FALSE /\ UNCHANGED record
     ELSE /\ pc' = "reaped" /\ UNCHANGED cancel
          /\ IF record.status = "running"
             THEN Transition("interrupted") ELSE UNCHANGED record
  /\ UNCHANGED <<raised, outcome, files, kills>>

\* _cancel: a queued task is cancelled in the store, a running one is asked.  The
\* event belongs to the scheduler's caller, who may also have set it before.
CancelQueued ==
  /\ record.status = "queued"
  /\ Transition("cancelled")
  /\ UNCHANGED <<pc, raised, outcome, cancel, files, kills>>

RequestCancel ==
  /\ ~cancel
  /\ pc \in Body \cup {"handler"}
  /\ cancel' = TRUE
  /\ UNCHANGED <<pc, raised, outcome, record, files, kills>>

Next ==
  \/ Step
  \/ \E r \in Reports : Callback(r)
  \/ Fault
  \/ Kill
  \/ Reap
  \/ Recover
  \/ CancelQueued
  \/ RequestCancel

Spec == Init /\ [][Next]_vars

\* A call whose worker lives goes on.  Nobody need ever find a dead worker: run_batch
\* may be gone before it looks at the future, and the manager may never restart.
FairSpec == Spec /\ WF_vars(Step)

-----------------------------------------------------------------------------
TypeOK ==
  /\ pc \in Points
  /\ raised \in {"none", "ValueError", "Exception", "KeyboardInterrupt"}
  /\ outcome \in {"none", "succeeded", "failed", "cancelled"}
  /\ record \in Record
  /\ cancel \in BOOLEAN
  /\ wav \in BOOLEAN
  /\ result \in {"absent", "torn", "claims success", "final"}
  /\ written \in 0..Derived
  /\ kills \in 0..MaxKills

\* A task is succeeded only when every derived artifact is complete and its
\* paths are recorded, whatever raises, is killed, cancelled or restarted.
SucceededIsComplete ==
  record.status = "succeeded" =>
    /\ written = Derived
    /\ record.artifacts
    /\ result # "absent"

\* execute_job never returns with the task still queued or running, and never
\* reports a success the store does not have or whose result.json is not final.
ReturnIsHonest ==
  pc = "returned" =>
    /\ record.status \in Terminal
    /\ outcome = "succeeded" => record.status = "succeeded" /\ result = "final"
    /\ record.status = "failed" => outcome = "failed"

\* Once the event is set before the last cancellation point, the task does not
\* succeed any more in that run of the worker.
CancelIsHonoured ==
  [](cancel /\ pc \in {"start", "run", "probe", "normalize", "check", "load",
                       "vad", "transcribe", "check again"}
       => [](kills = 0 => record.status # "succeeded"))

\* Every call ends with a terminal task unless its worker is gone (killed, or its
\* exception handler raised), and whoever finds the task of a gone worker, run_batch
\* or a restarted manager, sees to it that it ends too.
EndsUnlessGone == <>[](record.status \in Terminal \/ pc \in {"escaped", "dead"})

\* docs/user-guide.md:193: "A task reaches 100% and succeeded only after every
\* output has been written successfully."  The code truncates and writes
\* result.json once more after the transition, so a worker that is killed or
\* runs out of space there leaves a succeeded task without a readable result.
SucceededAfterEveryOutput ==
  pc \in Ended /\ record.status = "succeeded" => result \in {"claims success", "final"}

\* docs/user-guide.md:265: result.json is the "authoritative structured result
\* containing source, engine, task, and segment data".  It says "succeeded" before
\* the task has: one that fails, is killed or is interrupted while the exports are
\* written keeps that claim.
ResultTellsTheOutcome ==
  pc \in {"returned", "reaped"} /\ result \in {"claims success", "final"}
    => record.status = "succeeded"
=============================================================================
