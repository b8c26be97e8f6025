-------------------------------- MODULE Jobs --------------------------------
(***************************************************************************)
(* The persisted task record (jobs.py, StoredJob) and what each JobStore   *)
(* operation makes of it.  A record is abstracted to the fields the        *)
(* operations compare or guard: the status, the progress percentage, the   *)
(* work units, the ETA range, whether the artifact paths are recorded, and *)
(* the revision.  Paths, timestamps, error texts and the stage name are    *)
(* left out.                                                               *)
(***************************************************************************)
EXTENDS Integers

Larger(a, b) == IF a >= b THEN a ELSE b

Live     == {"queued", "running"}
Terminal == {"succeeded", "failed", "cancelled", "interrupted"}
Status   == Live \cup Terminal

\* Mutant of Edge: a failed task is queued again in place.
EdgeRequeues == ({"queued"}  \X {"running", "failed", "cancelled"}) \cup
                ({"running"} \X Terminal) \cup {<<"failed", "queued">>}

\* The edges of the table _TRANSITIONS.
Edge == ({"queued"}  \X {"running", "failed", "cancelled"}) \cup
        ({"running"} \X Terminal)

\* Python's None in the two ETA fields.
NoEta == -1

\* The id has no file in jobs/.
NoJob == [status |-> "absent", percent |-> 0, processed |-> 0, total |-> 0,
          low |-> NoEta, high |-> NoEta, artifacts |-> FALSE, revision |-> 0]

Record == [status : Status \cup {"absent"}, percent : 0..100,
           processed : Nat, total : Nat, low : Nat \cup {NoEta},
           high : Nat \cup {NoEta}, artifacts : BOOLEAN, revision : Nat]

(***************************************************************************)
(* A progress report is the argument list of update_progress.  A caller    *)
(* that has no work units passes None for both, which the code treats like *)
(* 0 and 0 here; the ETA bounds come together or not at all, as every      *)
(* caller in src/ passes them.                                             *)
(***************************************************************************)
ProgressReport ==
  {r \in [percent : 0..99, processed : Nat, total : Nat,
          low : Nat \cup {NoEta}, high : Nat \cup {NoEta}] :
     /\ r.processed <= r.total
     /\ r.low = NoEta <=> r.high = NoEta}

\* create
Created == [NoJob EXCEPT !.status = "queued"]

\* Mutants of WithProgress: percentages are added up, the last one wins, and the
\* upper end of the ETA is taken as it comes.
WithProgressSummed(job, r) ==
  [job EXCEPT !.percent = @ + r.percent, !.processed = Larger(@, r.processed),
              !.total = Larger(@, r.total), !.revision = @ + 1]

WithProgressLast(job, r) ==
  [job EXCEPT !.percent = r.percent, !.processed = Larger(@, r.processed),
              !.total = Larger(@, r.total), !.revision = @ + 1]

WithProgressRawEta(job, r) ==
  [job EXCEPT !.percent = Larger(@, r.percent), !.processed = Larger(@, r.processed),
              !.total = Larger(@, r.total), !.low = r.low, !.high = r.high,
              !.revision = @ + 1]

\* update_progress: nothing reported may take the record backwards.
WithProgress(job, r) ==
  LET low == IF r.low = NoEta THEN job.low ELSE r.low
  IN  [job EXCEPT
         !.percent   = Larger(@, r.percent),
         !.processed = Larger(@, r.processed),
         !.total     = Larger(@, r.total),
         !.low       = low,
         !.high      = IF r.high = NoEta THEN @ ELSE Larger(Larger(low, 0), r.high),
         !.revision  = @ + 1]

\* update_artifacts: the only update that does not look at the status.
WithArtifacts(job) == [job EXCEPT !.artifacts = TRUE, !.revision = @ + 1]

\* transition: success alone moves the percentage to 100 and clears the ETA.
WithStatus(job, s) ==
  LET moved == [job EXCEPT !.status = s, !.revision = @ + 1]
  IN  IF s = "succeeded"
      THEN [moved EXCEPT !.percent = 100, !.low = 0, !.high = 0]
      ELSE moved
=============================================================================
