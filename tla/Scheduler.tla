------------------------------ MODULE Scheduler ------------------------------
(***************************************************************************)
(* BoundedScheduler (scheduler.py): run_batch as a loop that fills a pool  *)
(* of workers, waits, collects the finished futures and aggregates the     *)
(* batch, together with the workers, the pool and the scheduler lock.  The *)
(* caller may run several batches, one after the other, on one scheduler.  *)
(*                                                                         *)
(* A worker is execute_job reduced to what Executor shows of it: it takes  *)
(* the task from queued to running and to a terminal status or finds it    *)
(* terminal and changes nothing; then it returns, raises, or dies.  Each   *)
(* of its transitions and reports is a load and a write of the record,     *)
(* because a concurrent writer (the manager's cancel, in Background, or a  *)
(* worker that outlives its pool) may come between them.                   *)
(***************************************************************************)
EXTENDS Jobs, Order

CONSTANTS
  Tasks,      \* task ids
  Batches,    \* batch ids
  Workers,    \* effective_workers of the batches' budget
  Reporting,  \* is there a progress_callback? (the foreground has one)
  Contended,  \* may another scheduler use the same runtime directory?
  MaxDeaths   \* bound on the number of worker processes that die

ASSUME TasksAssumption == IsFiniteSet(Tasks)
ASSUME WorkersAssumption == Workers \in Nat \ {0}
ASSUME MaxDeathsAssumption == MaxDeaths \in Nat

VARIABLES
  taskIds,  \* the tasks of each persisted batch, <<>> for no file
  status,   \* the stored status of each task
  bstatus,  \* the stored status of each batch
  lock,     \* the holder of scheduler.lock: this scheduler, another, nobody
  pc,       \* where run_batch is
  run,      \* the batch it runs
  pending, active, done, outcomes,   \* its locals
  worker,   \* each task's worker
  future,   \* each task's future: pending, raised, or the outcome's status
  broken,   \* the process pool has noticed that a worker died
  cancel,   \* the cancel events that are set
  deaths

store   == <<taskIds, status, bstatus>>
locals  == <<run, pending, active, done, outcomes>>
pool    == <<worker, future, broken, deaths>>
schedVars == <<store, lock, pc, locals, pool, cancel>>

NoBatch  == "no batch"
NoFuture == "none"

\* The worker of a task may still touch the store; its future is not settled.
Unsettled == {"submitted", "loaded", "running", "reporting", "failing", "ending"}
Alive(t) == worker[t] \in Unsettled
Busy(t)  == future[t] = "pending" /\ worker[t] # "gone"

\* BatchStore.aggregate, given the statuses st of the tasks
Aggregate(b, st) ==
  LET of == {st[t] : t \in ToSet(taskIds[b])}
  IN  CASE of \cap Live # {}                  -> "running"
        [] of \cap {"failed", "interrupted"} # {} -> "failed"
        [] "cancelled" \in of                 -> "cancelled"
        [] OTHER                              -> "succeeded"

Aggregated == [bstatus EXCEPT ![run] = Aggregate(run, status)]
Report     == bstatus' = IF Reporting THEN Aggregated ELSE bstatus

\* One task is run in a thread, several in processes (run_batch, pool_factory).
Processes == Len(taskIds[run]) # 1

\* Where the loop of run_batch is, inside its with statement.
Loop == {"fill", "blocked", "wait", "collect", "mark failed", "mark write"}

-----------------------------------------------------------------------------
SchedInit ==
  /\ lock = "free"
  /\ pc = "idle"
  /\ run = NoBatch
  /\ pending = <<>>
  /\ active = {} /\ done = {}
  /\ outcomes = [t \in Tasks |-> NoFuture]
  /\ worker = [t \in Tasks |-> "none"]
  /\ future = [t \in Tasks |-> NoFuture]
  /\ broken = FALSE
  /\ cancel = {}
  /\ deaths = 0

\* The call of run_batch: the locals and a new pool.
Call(b) ==
  /\ pc \in {"idle", "returned", "raised"}
  /\ taskIds[b] # <<>>
  /\ pc' = "lock"
  /\ run' = b
  /\ pending' = taskIds[b]
  /\ active' = {} /\ done' = {}
  /\ outcomes' = [t \in Tasks |-> NoFuture]
  /\ worker' = [t \in Tasks |-> "none"]
  /\ future' = [t \in Tasks |-> NoFuture]
  /\ broken' = FALSE
  /\ UNCHANGED <<store, lock, cancel, deaths>>

Acquire ==
  /\ pc = "lock" /\ lock = "free"
  /\ pc' = "fill" /\ lock' = "this"
  /\ UNCHANGED <<store, locals, pool, cancel>>

\* JobBusyError: nothing has been stored for the batch.
LockBusy ==
  /\ pc = "lock" /\ lock = "other"
  /\ pc' = "raised"
  /\ UNCHANGED <<store, lock, locals, pool, cancel>>

\* Mutant of Room: one worker more than the budget has.
RoomForOneMore == pending # <<>> /\ Cardinality(active) <= Workers

Room == pending # <<>> /\ Cardinality(active) < Workers

\* The resource guard lets one more worker start.
Submit ==
  /\ pc = "fill" /\ Room /\ ~broken
  /\ LET t == Head(pending) IN
       /\ active' = active \cup {t}
       /\ worker' = [worker EXCEPT ![t] = "submitted"]
       /\ future' = [future EXCEPT ![t] = "pending"]
  /\ pending' = Tail(pending)
  /\ Report
  /\ UNCHANGED <<taskIds, status, lock, pc, run, done, outcomes, broken, deaths, cancel>>

\* A broken pool refuses: the error leaves the loop and the with statement.
SubmitRaises ==
  /\ pc = "fill" /\ Room /\ broken
  /\ pending' = Tail(pending)
  /\ pc' = "unwind"
  /\ UNCHANGED <<store, lock, run, active, done, outcomes, pool, cancel>>

\* The guard refuses although no worker is active: it sleeps and samples again,
\* for as long as the machine stays busy.
Block ==
  /\ pc = "fill" /\ Room /\ active = {}
  /\ pc' = "blocked"
  /\ UNCHANGED <<store, lock, locals, pool, cancel>>

SampleAgain ==
  /\ pc = "blocked"
  /\ pc' = "fill"
  /\ UNCHANGED <<store, lock, locals, pool, cancel>>

\* No room, or the guard refuses while workers are active.
StopFilling ==
  /\ pc = "fill" /\ active # {}
  /\ pc' = "wait"
  /\ UNCHANGED <<store, lock, locals, pool, cancel>>

\* Mutants of Wait: every future that has ended is looked at again; a future
\* that has raised is not looked at.
WaitForAll ==
  /\ pc = "wait"
  /\ done' = {t \in Tasks : future[t] \notin {NoFuture, "pending"}}
  /\ Report
  /\ pc' = "collect"
  /\ UNCHANGED <<taskIds, status, lock, run, pending, active, outcomes, pool, cancel>>

WaitForResults ==
  /\ pc = "wait"
  /\ done' = {t \in active : future[t] \notin {"pending", "raised"}}
  /\ Report
  /\ pc' = "collect"
  /\ UNCHANGED <<taskIds, status, lock, run, pending, active, outcomes, pool, cancel>>

Wait ==
  /\ pc = "wait"
  /\ done' = {t \in active : future[t] # "pending"}
  /\ Report
  /\ pc' = "collect"
  /\ UNCHANGED <<taskIds, status, lock, run, pending, active, outcomes, pool, cancel>>

\* future.result(), and the load of a task whose future raised.
Collect(t) ==
  /\ pc = "collect" /\ t \in done
  /\ active' = active \ {t}
  /\ done' = done \ {t}
  /\ IF future[t] = "raised" /\ status[t] \in Live
     THEN pc' = "mark failed" /\ outcomes' = [outcomes EXCEPT ![t] = "raised"]
     ELSE /\ UNCHANGED pc
          /\ outcomes' = [outcomes EXCEPT ![t] =
                            IF future[t] = "raised" THEN "failed" ELSE future[t]]
  /\ UNCHANGED <<store, lock, run, pending, pool, cancel>>

\* The task whose future raised fails: transition loads it again, and its error,
\* if the task has ended meanwhile, leaves the loop ...
MarkFailed(t) ==
  /\ pc = "mark failed" /\ outcomes[t] = "raised"
  /\ pc' = IF status[t] \in Live THEN "mark write" ELSE "unwind"
  /\ UNCHANGED <<store, lock, locals, pool, cancel>>

\* ... and it writes what it has loaded, whatever has been written since.
MarkWrite(t) ==
  /\ pc = "mark write" /\ outcomes[t] = "raised"
  /\ pc' = "collect"
  /\ status' = [status EXCEPT ![t] = "failed"]
  /\ outcomes' = [outcomes EXCEPT ![t] = "failed"]
  /\ UNCHANGED <<taskIds, bstatus, lock, run, pending, active, done, pool, cancel>>

\* Mutant of EndOfRound: the loop ends when no worker is active.
EndOfRoundEarly ==
  /\ pc = "collect" /\ done = {}
  /\ bstatus' = Aggregated
  /\ pc' = IF active = {} THEN "leave" ELSE "fill"
  /\ UNCHANGED <<taskIds, status, lock, locals, pool, cancel>>

EndOfRound ==
  /\ pc = "collect" /\ done = {}
  /\ bstatus' = Aggregated
  /\ pc' = IF pending = <<>> /\ active = {} THEN "leave" ELSE "fill"
  /\ UNCHANGED <<taskIds, status, lock, locals, pool, cancel>>

\* Mutant of Exit: the pool is shut down without waiting.
ExitWithoutWait(from, to) ==
  /\ pc = from
  /\ pc' = to
  /\ lock' = "free"
  /\ UNCHANGED <<taskIds, status, locals, pool, cancel>>

\* The pool waits for its workers, then the lock is released.
Exit(from, to) ==
  /\ pc = from
  /\ \A t \in Tasks : ~Alive(t) /\ future[t] # "pending"
  /\ pc' = to
  /\ lock' = "free"
  /\ UNCHANGED <<taskIds, status, locals, pool, cancel>>

Leave  == Exit("leave", "returned") /\ Report
Unwind == Exit("unwind", "raised") /\ UNCHANGED bstatus

RunBatch ==
  \/ Acquire \/ LockBusy \/ Submit \/ SubmitRaises \/ Block \/ SampleAgain
  \/ StopFilling \/ Wait
  \/ \E t \in Tasks : Collect(t) \/ MarkFailed(t) \/ MarkWrite(t)
  \/ EndOfRound \/ Leave \/ Unwind

\* Another scheduler on the same runtime directory.
OtherAcquire ==
  /\ Contended /\ lock = "free"
  /\ lock' = "other"
  /\ UNCHANGED <<store, pc, locals, pool, cancel>>

OtherRelease ==
  /\ lock = "other"
  /\ lock' = "free"
  /\ UNCHANGED <<store, pc, locals, pool, cancel>>

Other == OtherAcquire \/ OtherRelease

-----------------------------------------------------------------------------
\* A worker moves on and writes the status s.
Work(t, from, to, s) ==
  /\ worker[t] \in from
  /\ worker' = [worker EXCEPT ![t] = to]
  /\ status' = [status EXCEPT ![t] = s]
  /\ UNCHANGED <<taskIds, bstatus, lock, pc, locals, future, broken, deaths, cancel>>

\* transition(running): the load, and the write of what was loaded.
Load(t)  == status[t] = "queued" /\ Work(t, {"submitted"}, "loaded", status[t])
Start(t) == Work(t, {"loaded"}, "running", "running")

\* update_progress and update_artifacts rewrite the record with the live status
\* that they have loaded, which is running since Start.
ReportLoad(t)  == status[t] \in Live /\ Work(t, {"running"}, "reporting", status[t])
ReportWrite(t) == Work(t, {"reporting"}, "running", "running")

\* The final transition: the load of a live status, and the write.  Before the
\* task runs it can only fail (no input file) or be cancelled.
EndLoad(t) ==
  /\ status[t] \in Live
  /\ \/ Work(t, {"submitted"}, "failing", status[t])
     \/ Work(t, {"running"}, "ending", status[t])

End(t) ==
  \/ Work(t, {"failing"}, "finished", "failed")
  \/ \E s \in {"succeeded", "failed"} : Work(t, {"ending"}, "finished", s)
  \/ t \in cancel /\ Work(t, {"failing", "ending"}, "finished", "cancelled")

\* Whatever the worker asks of the store, the task is terminal: it gives up.
GiveUp(t) == status[t] \in Terminal /\ Work(t, {"submitted", "running"}, "finished", status[t])

\* The future of a task that has ended; an outcome of succeeded is honest.
Return(t) ==
  /\ worker[t] = "finished" /\ future[t] = "pending"
  /\ \E s \in {"succeeded", "failed", "cancelled"} :
       /\ s = "succeeded" => status[t] = "succeeded"
       /\ status[t] = "failed" => s = "failed"
       /\ future' = [future EXCEPT ![t] = s]
  /\ UNCHANGED <<store, lock, pc, locals, worker, broken, deaths, cancel>>

\* The runner raises, whatever it has stored.
Escape(t) ==
  /\ Busy(t)
  /\ worker' = [worker EXCEPT ![t] = "finished"]
  /\ future' = [future EXCEPT ![t] = "raised"]
  /\ UNCHANGED <<store, lock, pc, locals, broken, deaths, cancel>>

\* A worker process dies (out of memory, kill).
Die(t) ==
  /\ Busy(t) /\ Processes
  /\ deaths < MaxDeaths
  /\ deaths' = deaths + 1
  /\ worker' = [worker EXCEPT ![t] = "gone"]
  /\ UNCHANGED <<store, lock, pc, locals, future, broken, cancel>>

\* The pool notices, fails every pending future, then terminates the workers.
Break ==
  /\ \E t \in Tasks : worker[t] = "gone" /\ future[t] = "pending"
  /\ ~broken
  /\ broken' = TRUE
  /\ UNCHANGED <<store, lock, pc, locals, worker, future, deaths, cancel>>

FailFuture(t) ==
  /\ broken /\ future[t] = "pending"
  /\ future' = [future EXCEPT ![t] = "raised"]
  /\ UNCHANGED <<store, lock, pc, locals, worker, broken, deaths, cancel>>

Terminate(t) ==
  /\ broken /\ Alive(t)
  /\ \A u \in Tasks : future[u] # "pending"
  /\ worker' = [worker EXCEPT ![t] = "gone"]
  /\ UNCHANGED <<store, lock, pc, locals, future, broken, deaths, cancel>>

\* What a live worker and the pool do in the end; a worker reports as long as the
\* audio lasts, then it ends.
Worker(t) ==
  \/ Load(t) \/ Start(t) \/ ReportLoad(t) \/ ReportWrite(t)
  \/ EndLoad(t) \/ End(t) \/ GiveUp(t) \/ Return(t)
LastReport(t) == EndLoad(t) \/ GiveUp(t)
Pool      == Break \/ \E t \in Tasks : FailFuture(t) \/ Terminate(t)
Mishap(t) == Escape(t) \/ Die(t)
=============================================================================
