------------------------------- MODULE Intake -------------------------------
(***************************************************************************)
(* From the discovered files to the stored batch (cli.py, _run_discovered  *)
(* and _transcribe), and what a manager makes of it later: recovery and    *)
(* retry (daemon.py).  Nothing writes a batch and its tasks at once: the   *)
(* tasks are created one by one and the batch after them, by the command   *)
(* and by a retry, and either may be killed in between.                    *)
(*                                                                         *)
(* The id of a task is its place in jobs; the command's batch is 1.  A run *)
(* of a batch is reduced to what it does to the status of one task after   *)
(* the other; Scheduler, Foreground and Background have it in full, Ctrl+C *)
(* and cancelling included, which are left out here.                       *)
(***************************************************************************)
EXTENDS Discovery

CONSTANTS
  MaxRetries,  \* bound on the retry requests
  MaxKills     \* bound on kills of the command and crashes of the manager

ASSUME BoundsAssumption == MaxRetries \in Nat /\ MaxKills \in Nat

VARIABLES
  bg,         \* was --bg given?
  command,    \* how far the command is
  made,       \* the ids of the tasks it has created
  jobs,       \* the stored tasks
  batches,    \* the stored batches
  manager,
  scheduled,  \* the batches in the manager's queue, the first one running
  retry,      \* the retry request that is being handled
  retries, kills

storeVars   == <<jobs, batches>>
commandVars == <<bg, command, made>>
managerVars == <<manager, scheduled, retry, retries>>
vars        == <<discVars, storeVars, commandVars, managerVars, kills>>

BatchIds == 1..MaxRetries + 1
Stored   == {b \in BatchIds : batches[b].tasks # <<>>}
NoBatch  == [tasks |-> <<>>, mode |-> "foreground", options |-> FALSE]
NoRetry  == [of |-> 0, left |-> <<>>, made |-> <<>>, stored |-> FALSE]

NewJob(input, runMode, batch, retryOf) ==
  [input |-> input, mode |-> runMode, batch |-> batch, retryOf |-> retryOf, status |-> "queued"]

Tasks(b)      == ToSet(batches[b].tasks)
HasQueued(b)  == \E t \in Tasks(b) : jobs[t].status = "queued"
Unsuccessful  == {"failed", "interrupted", "cancelled"}

Init ==
  /\ DiscInit
  /\ bg \in BOOLEAN /\ command = "discover" /\ made = <<>>
  /\ jobs = <<>> /\ batches = [b \in BatchIds |-> NoBatch]
  /\ manager = "down" /\ scheduled = <<>> /\ retry = NoRetry
  /\ retries = 0 /\ kills = 0

Discovering ==
  /\ command = "discover"
  /\ Discover
  /\ UNCHANGED <<storeVars, commandVars, managerVars, kills>>

-----------------------------------------------------------------------------
(* The command.                                                            *)

Invalid == {s \in skipped : s.why = "invalid_media"}

\* With nothing accepted the first file that could not be read is tried after
\* all, alone and in the foreground, so that the user gets its error.
Inputs == IF accepted # <<>> THEN accepted
          ELSE LET k == CHOOSE i \in DOMAIN candidates :
                          /\ Skip(candidates[i], "invalid_media") \in skipped
                          /\ \A j \in 1..i - 1 : Skip(candidates[j], "invalid_media") \notin skipped
               IN  <<candidates[k]>>

RunMode == IF bg /\ accepted # <<>> THEN "background" ELSE "foreground"

Moves(from, to) ==
  /\ command = from
  /\ command' = to
  /\ UNCHANGED <<discVars, bg, managerVars, kills>>

\* The directory is refused, nothing is a medium (exit code 2), or the budget
\* admits no worker (4).
Nothing ==
  /\ phase \in {"refused", "discovered"}
  /\ Moves("discover", "refused")
  /\ UNCHANGED <<storeVars, made>>

Begin ==
  /\ phase = "discovered" /\ (accepted # <<>> \/ Invalid # {})
  /\ Moves("discover", "create")
  /\ UNCHANGED <<storeVars, made>>

CreateJob ==
  /\ Moves("create", "create")
  /\ Len(made) < Len(Inputs)
  /\ jobs' = Append(jobs, NewJob(Inputs[Len(made) + 1], RunMode, 1, 0))
  /\ made' = Append(made, Len(jobs'))
  /\ UNCHANGED batches

\* Mutant of CreateBatch: the batch is stored when its first tasks are.
CreateBatchEarly ==
  /\ Moves("create", IF Len(made) = Len(Inputs) THEN RunMode ELSE "create")
  /\ batches' = [batches EXCEPT ![1] =
       [tasks |-> [i \in DOMAIN Inputs |-> Len(jobs) - Len(made) + i], mode |-> RunMode,
        options |-> accepted # <<>>]]
  /\ UNCHANGED <<jobs, made>>

\* _transcribe stores no execution options.
CreateBatch ==
  /\ Moves("create", RunMode)
  /\ Len(made) = Len(Inputs)
  /\ batches' = [batches EXCEPT ![1] =
       [tasks |-> made, mode |-> RunMode, options |-> accepted # <<>>]]
  /\ UNCHANGED <<jobs, made>>

\* The submission is acknowledged; recovery may have queued the batch before.
Submit ==
  /\ command = "background" /\ manager = "up"
  /\ command' = "done"
  /\ scheduled' = IF 1 \in ToSet(scheduled) THEN scheduled ELSE Append(scheduled, 1)
  /\ UNCHANGED <<discVars, storeVars, bg, made, manager, retry, retries, kills>>

\* No manager answers, and none can be started: exit code 4.
GiveUp ==
  /\ Moves("background", "refused")
  /\ UNCHANGED <<storeVars, made>>

\* run_batch, by a foreground command or the manager: the next task is started,
\* or the running one ends.
Execute(b) ==
  /\ \/ b = 1 /\ command = "foreground"
     \/ scheduled # <<>> /\ b = Head(scheduled)
  /\ \E k \in DOMAIN batches[b].tasks :
       LET t == batches[b].tasks[k] IN
         /\ \A i \in 1..k - 1 : jobs[batches[b].tasks[i]].status \notin {"queued", "running"}
         /\ \/ jobs[t].status = "queued" /\ jobs' = [jobs EXCEPT ![t].status = "running"]
            \/ /\ jobs[t].status = "running"
               /\ \E s \in {"succeeded", "failed"} : jobs' = [jobs EXCEPT ![t].status = s]
  /\ UNCHANGED <<discVars, batches, commandVars, managerVars, kills>>

Ended(b) == \A t \in Tasks(b) : jobs[t].status \notin {"queued", "running"}

Exit ==
  /\ Ended(1)
  /\ Moves("foreground", "done")
  /\ UNCHANGED <<storeVars, made>>

Drained ==
  /\ scheduled # <<>> /\ Ended(Head(scheduled))
  /\ scheduled' = Tail(scheduled)
  /\ UNCHANGED <<discVars, storeVars, commandVars, manager, retry, retries, kills>>

\* SIGKILL, or the terminal goes away.
KillCommand ==
  /\ command \in {"create", "foreground", "background"} /\ kills < MaxKills
  /\ command' = "killed"
  /\ kills' = kills + 1
  /\ UNCHANGED <<discVars, storeVars, bg, made, managerVars>>

-----------------------------------------------------------------------------
(* The manager.                                                            *)

\* _recover: jobs.load raises for a task that is missing, and no manager starts.
\* A queued batch is started again if it has options.  (Before the discovery has
\* ended nothing is stored, and the start of a manager is nothing new.)
Boot ==
  /\ manager = "down" /\ command # "discover"
  /\ \A b \in Stored : batches[b].mode = "background" => Tasks(b) \subseteq DOMAIN jobs
  /\ manager' = "up"
  /\ jobs' = [t \in DOMAIN jobs |->
       IF jobs[t].mode = "background" /\ jobs[t].status = "running"
       THEN [jobs[t] EXCEPT !.status = "interrupted"] ELSE jobs[t]]
  /\ scheduled' = SetToSortSeq({b \in Stored : /\ batches[b].mode = "background"
                                               /\ batches[b].options /\ HasQueued(b)}, <)
  /\ UNCHANGED <<discVars, batches, commandVars, retry, retries, kills>>

Crash ==
  /\ manager = "up" /\ kills < MaxKills
  /\ manager' = "down" /\ scheduled' = <<>> /\ retry' = NoRetry
  /\ kills' = kills + 1
  /\ UNCHANGED <<discVars, storeVars, commandVars, retries>>

\* retry_batch or retry_job: what has not succeeded is to be done again ...
Retry(b) ==
  /\ manager = "up" /\ retry = NoRetry /\ retries < MaxRetries
  /\ b \in Stored
  /\ \E ts \in {batches[b].tasks} \cup {<<t>> : t \in Tasks(b)} :
     \E again \in Picked(ts, {t \in ToSet(ts) : jobs[t].status \in Unsuccessful}) :
       again # <<>> /\ retry' = [NoRetry EXCEPT !.of = b, !.left = again]
  /\ retries' = retries + 1
  /\ UNCHANGED <<discVars, storeVars, commandVars, manager, scheduled, kills>>

\* ... a new task for each ...
RetryJob ==
  /\ retry.left # <<>>
  /\ jobs' = Append(jobs, NewJob(jobs[Head(retry.left)].input, "background", retries + 1,
                                Head(retry.left)))
  /\ retry' = [retry EXCEPT !.left = Tail(@), !.made = Append(@, Len(jobs'))]
  /\ UNCHANGED <<discVars, batches, commandVars, manager, scheduled, retries, kills>>

\* ... a new batch with the options of the old one ...
RetryBatch ==
  /\ retry.made # <<>> /\ retry.left = <<>> /\ ~retry.stored
  /\ batches' = [batches EXCEPT ![retries + 1] =
       [tasks |-> retry.made, mode |-> "background", options |-> batches[retry.of].options]]
  /\ retry' = [retry EXCEPT !.stored = TRUE]
  /\ UNCHANGED <<discVars, jobs, commandVars, manager, scheduled, retries, kills>>

\* ... which is put on the queue.
RetryStart ==
  /\ retry.stored
  /\ scheduled' = Append(scheduled, retries + 1)
  /\ retry' = NoRetry
  /\ UNCHANGED <<discVars, storeVars, commandVars, manager, retries, kills>>

Next ==
  \/ Discovering
  \/ Nothing \/ Begin \/ CreateJob \/ CreateBatch \/ Submit \/ GiveUp \/ Exit
  \/ \E b \in BatchIds : Execute(b)
  \/ Drained
  \/ KillCommand
  \/ Boot \/ Crash
  \/ \E b \in BatchIds : Retry(b)
  \/ RetryJob \/ RetryBatch \/ RetryStart

Spec == Init /\ [][Next]_vars
-----------------------------------------------------------------------------
\* A stored batch is whole, whenever its command or its manager was killed:
\* every task of it is stored and belongs to it, no two are the same file or hold
\* the same content.  Recovery loads every task of every batch before a manager
\* serves (daemon.py:97): one that is missing would keep all managers down.
BatchIsWhole ==
  \A b \in Stored :
    /\ Tasks(b) \subseteq DOMAIN jobs
    /\ \A t \in Tasks(b) : jobs[t].batch = b /\ jobs[t].mode = batches[b].mode
    /\ \A i, j \in DOMAIN batches[b].tasks :
         tree.content[jobs[batches[b].tasks[i]].input] =
           tree.content[jobs[batches[b].tasks[j]].input] => i = j

\* solution.md:216: a foreground batch is persisted so that after a crash it can be
\* retried: no task stays "running", which cannot be retried, when its command has
\* been killed and a manager has recovered the directory.
KilledCanBeRetried ==
  manager = "up" /\ command = "killed" =>
    \A t \in DOMAIN jobs : jobs[t].status = "running" => jobs[t].batch \in ToSet(scheduled)

\* solution.md:221: a restarted manager takes up the queued tasks again, those of
\* a retry included.
RetryResumes ==
  manager = "up" /\ retry = NoRetry =>
    \A b \in Stored \ {1} : HasQueued(b) => b \in ToSet(scheduled)

\* solution.md:197: a batch that was submitted with --bg is not run in the
\* foreground instead.
BackgroundIsKept == bg => \A t \in DOMAIN jobs : jobs[t].mode = "background"

\* A retry whose answer is lost is given again: no task gets two retries that are
\* both transcribed (daemon.py:173).
RetriedOnce ==
  \A t, u \in DOMAIN jobs :
    jobs[t].retryOf # 0 /\ jobs[t].retryOf = jobs[u].retryOf /\ t # u =>
      {jobs[t].status, jobs[u].status} # {"succeeded"}
=============================================================================
