# LocalTranscriber: a formal model

LocalTranscriber transcribes audio and video files on one machine.  A
*foreground* command runs a batch of files inside its own process; with `--bg`
the batch is handed to a *background manager*, a user service that drains a
queue of batches.  Both use the same scheduler, the same worker function and
the same JSON files as their only database.  This directory holds TLA+ modules
translated from the source under `src/src/local_transcriber/`, TLC
configurations that check them on small instances, and TLAPS proofs of what
holds for every instance.  `PROJECT.json` maps every definition to its lines.

Paths below are relative to `src/src/local_transcriber/`; `docs/` and `tests/`
stand for `src/docs/` and `src/tests/`.

## 1. Inventory

| Component | State it keeps | Operations | Module |
|---|---|---|---|
| Job store, `jobs.py` | `jobs/<id>.json`: status, percent, units, ETA range, artifacts, revision; `scheduler.lock` | `create`, `update_progress`, `update_artifacts`, `transition`, `scheduler()` | Jobs, JobRecord, JobStore; the lock is in Scheduler |
| Batch store, `batches.py` | `batches/<id>.json`: job ids, status, budget | `create`, `list`, `aggregate` | Scheduler, Background, Intake |
| Executor, `executor.py` | the working directory and the result files of one task | `execute_job` | Executor |
| Scheduler, `scheduler.py` | locals of `run_batch`, the pool, the cancel events | `run_batch`, `_wait_until_safe`, `_budget` | Scheduler, Budget |
| Foreground command, `cli.py` | nothing beyond its locals | `_run_discovered`, `_transcribe`, Ctrl+C, the exit code | Intake, Foreground |
| Background manager, `daemon.py` | `_queue`, `_active`, `_current_batch_id`, `_cancel_events`, `manager.lock` | submit, cancel, retry, stop, `_recover`, `close`, the drain thread | Background, Managers, Intake |
| IPC and service start, `ipc.py`, `daemon.py` | one connection at a time | `serve_once`, `request`, `service_control`, bind and unlink | Background, Managers |
| Resource budget, `resources.py` | the budget stored with the batch | `calculate_budget` | Budget |
| Input discovery, `discovery.py` | the paths and contents seen so far | `discover_directory`, `discover_explicit`, `_inspect` | Discovery |
| Progress estimation, `progress.py` | the estimator of one task | `observe`, `current` | Transcription |
| Engine, `engine.py`, with `validate_raw_result` and `schema.py` | the counts of speech of one transcription | `transcribe`, the checks of a result | Transcription |
| Media, downloads, console, environment, exporters | files outside the database | | not modelled, see section 8 |

How they interact.  The command creates one record per file and then the batch
record.  In the foreground it calls `run_batch` itself; in the background it
sends `submit` over a Unix socket, where the server thread puts the batch on
the queue and the *drain thread* calls `run_batch`.  `run_batch` takes
`scheduler.lock`, fills a pool (processes for several tasks, one thread for a
single task) as the resource guard permits, waits with a timeout, collects the
futures and aggregates the statuses of the tasks into the batch.  A worker runs
`execute_job`, which writes the task's record and its files.  There is no lock
on a record: scheduler, workers, server thread and Ctrl+C handler all load,
compute and rename files on their own.

What is hard here, and what makes each part correct:

* *Job store.*  Reports come out of order (VAD, transcription and finalization
  count different things): a record must never contradict itself or go
  backwards (`RecordSane`, `NeverBackwards`), a terminal status must stay
  (`TerminalIsFinal`).  Returned updates must survive kills and power loss
  (`ReturnedIsDurable`); an operation is three steps to everybody else
  (`ImplementsJobRecord`).
* *Executor.*  About twenty points where it can raise, be killed or be
  cancelled: a stored success must have all its files
  (`SucceededIsComplete`), what it returns must agree with what it stored
  (`ReturnIsHonest`), a cancel seen in time must count (`CancelIsHonoured`), and
  a task must end unless its worker is gone and nobody looks after it
  (`EndsUnlessGone`).
* *Scheduler and foreground.*  Workers that raise, die or break the pool,
  siblings that write late, Ctrl+C anywhere in the loop, another scheduler on
  the same lock: the budget and the lock must hold (`WorkersBounded`), the exit
  code must be honest (`ExitIsHonest`), an orderly end leaves nothing open
  (`NothingLeftOpen`), statuses follow the table (`StatusMovesForward`), the
  command ends unless the guard keeps finding the machine busy (`CommandEnds`).
* *Manager.*  Two threads, clients that time out, crashes, restarts and
  recovery: no task starts twice (`StartedOnce`), an acknowledged batch stays
  scheduled (`AcceptedIsScheduled`) and ends (`AcceptedFinishes`), no task is
  running that nobody runs (`RunningIsAttended`), a retry never repeats what
  has succeeded (`RetryIsOfUnfinished`), no batch keeps the ones behind it from
  their turn unless the guard keeps finding the machine busy (`QueueDrains`).
* *Several managers.*  A manager that leaves gives up socket and lock while its
  drain thread works on; a successor starts beside it: who serves can be
  reached (`ServingIsReachable`), a task that stands in two queues runs once
  (`TranscribedOnce`).
* *Discovery and intake.*  Links, copies, unreadable files: what a command may
  see is what it takes (`FindsTheVisible`), every content once
  (`EveryContentOnce`).  Tasks and batch are separate files, and the command or
  the manager may be killed between two of them (`BatchIsWhole`).
* *Progress and result.*  Counts come as the model makes them, and time may
  stand still: the store must be able to take every report (`ReportIsLegal`),
  the stored confidence must fit the stored range (`ConfidenceMatchesEta`), what
  the engine has counted of the speech is what the record shows, within the total
  (`SpeechIsReported`), and what is written must be readable again
  (`ResultIsInOrder`).
* *Budget.*  Floors and zeros: planner and scheduler must agree
  (`AcceptedIsStartable`), and threads (or one thread, if the share is less) and
  memory stay within the limits though a sample never shows what workers will
  grow to (`ThreadsWithinBudget`, `MemoryWithinBudget`).

The hazards, each at its line, are in `PROJECT.json`.

## 2. Modules

```
Jobs          records and their arithmetic: the table, WithProgress, WithStatus ...
 |- JobRecord     abstract store: one record, each operation one step
 |   |- Executor      execute_job, on the atomic operations of JobRecord
 |- JobStore      the files: load / rename / fsync, failures, power loss;  implements JobRecord
 |- Transcription engine, estimator, callback and result of one task
 |- Scheduler     run_batch, workers, pool, lock   (actions only)
     |- Foreground    Scheduler + command + Ctrl+C
     |- Background    Scheduler + manager + server + clients
Discovery     the walk over a directory and the inspection of what it finds
 |- Intake        Discovery + creation of the batch + recovery and retry, file by file
Managers      several manager processes on one directory: lock, socket, drain threads
Budget        calculate_budget, and the guard's arithmetic
Order         the members of a list that satisfy a condition, in its order
```

**Jobs** has the data of a job record.  Times and paths are left out; artifacts
are a flag.  An ETA is a number of seconds or `NoEta`; percent is an integer.
`WithProgress` is the body of `update_progress` after its checks (the maxima,
the ETA that is kept when the report has none, the upper end raised to the
lower); `WithStatus` is that of `transition`, which sets 100% on success and
clears the ETA of a finished task.

**JobRecord** is what the store promises: `Create`, `UpdateProgress`,
`UpdateArtifacts`, `Transition` each in one step.  Its guards are the
exceptions the code raises.  Its specification is `RecordSpec`, and its variable
`record` is the one of Executor, so that what is proved of an operation of the
store is proved of execute_job's call of it too.

**Order** states the list comprehensions and the sort of the program (`Picked`:
the members `S` of a list, in the order of the list) by what they return, not by
a recursion over the list.  It is used by Discovery (the sorted walk), Background
and Intake (what a retry repeats) and Transcription (the sentences with text).

**JobStore** has the same operations for callers that overlap.  `Load` is
`load` plus the check plus the temporary file, `Replace` is `os.replace`,
`Sync` the fsync of the directory and the return.  `Abandon` is an exception or
a kill between two steps.  `PowerLoss` lets each record fall back to the one
last fsynced.  `acked` is a history variable: the last record returned.

**Executor** follows one call of `execute_job`.  `pc` names the next statement
that has an effect; `Goto(p, q)` moves on.  The three cancellation points are
`Cancelled(p)` and its complements `Start`, `Check`, `CheckAgain`; the
exception handlers are `Handle`.  `result` distinguishes the first
`result.json`, the second, and one torn by a death between truncation and
write.  `Kill` may come anywhere; afterwards `Reap` (the scheduler collects the
broken future) or `Recover` (the next manager) may deal with the record, or
nobody does: `run_batch` may be gone before it looks (`scheduler.py:220`).
`Vad` is the report of 10% that is written before the engine runs (`:116`); the
engine's own reports are `Callback`, and `Transcribe` is its return.

**Scheduler** has `run_batch` as the cycle `fill -> wait -> collect -> fill`,
with `Submit`, `StopFilling`, `Wait`, `Collect`, `EndOfRound` and the two ways out,
`Leave` and `Unwind`, which wait for the pool and release the lock.  With no
worker to wait for, a guard that finds the machine busy keeps the loop in
`Block`, `SampleAgain`, which nothing bounds (`scheduler.py:132-164`).  The task
of a future that has raised is marked failed in two steps, `MarkFailed` (the load)
and `MarkWrite`.  A worker is `execute_job` reduced to what it does to the status:
its two transitions, and its reports (`ReportLoad`, `ReportWrite`), which rewrite
the whole record.  Each of these is a load and a write, because a concurrent
writer can come between them.  `Die`, `Break`,
`FailFuture` and `Terminate` are the process pool of the standard library,
modelled as the program meets it.  `Report` is the foreground's
`progress_callback`, which aggregates.  `status` is what is stored for a task;
the rest of a record is in JobRecord.

**Foreground** adds the command: the batch it has persisted, `CtrlC` (before the
lock, in the loop, or when the pool has been waited for; the terminal sends it to
the process group, hence `InterruptWorker`), and the three
ends `ExitNormally`, `ExitInterrupted`, `ExitError`.  `ReportRaises` is the
progress callback that fails: it runs inside the loop, prints, and reads the
stores.  `CtrlCSpec` adds the Ctrl+C that the code does not expect: `CtrlCInWait`,
one (the first or a second) that arrives while the pool is waited for and ends
that wait, and `CtrlCSwallowed`, one delivered inside `future.result()`.  It is
used in section 5 only.

**Background** adds the manager.  The server handles one request after another,
each in steps (`call` is the request being handled), interleaved with the drain
thread.  `CancelNext ... CancelAggregate` follow `_cancel` load by load.  A
client of `transcribe --bg` persists its batch (`Persist`) and sends it (`Send`).
When its two seconds are up (`Lapse`, by itself in `TimeOut` or just before the
answer) it starts the service if it can and sends the batch again, so that a
manager may have the same batch in its socket and in its queue: `StartBatch` is
the check of `daemon.py:50` that meets this.  After a second time-out, or without
a service, it gives up (`GiveUpSubmit`).  `Answer` to a client that has gone breaks
the server (`Hangup`: the `BrokenPipeError` of `sendall` leaves `serve_once` and
`run`); `LostClient` is the same for any other request.

A manager ends in three ways.  `Stop` is the request of `daemon.py:120`, which is
part of the protocol but which only the tests send.  `StopService` is the user's
`worker stop`, a `systemctl stop`: SIGTERM to the unit, for which the program has
no handler, so that manager and workers die at once (`Halt`) and nobody starts them
again but a user or a client.  `Crash` is the same as a failure.  `Boot` and
`Recover` bring a manager back.

**Managers** has what Background leaves out, and little of what it has: any
number of processes, each with a main thread (`Start ... Exit`, one step for
each of lock, unlink, bind, recover, serve, close, unlink, unlock) and a drain
thread (`Dequeue`, `Work`, `Finish`).  A manager that leaves by an exception
waits two seconds and then closes; its drain thread is not a daemon thread, so
the process lives until the queue is empty.  A batch is one task, and `runs`
counts how often each has been transcribed.

**Discovery** follows `os.walk` directory by directory (`Visit`), sorts, and
inspects one candidate after the other (`SkipLink ... Accept`).  Trees are
enumerated: which paths are links, excluded, media, and what they hold.  A path is
the sequence of its names; every directory on the way to a file is one of `Dirs`,
and `PathOrder` lists all files in the order of the sort.

**Intake** goes on from there: one step for each file that is created, by the
command (`CreateJob`, `CreateBatch`) and by a retry (`RetryJob`, `RetryBatch`,
`RetryStart`), kills of either in between, and `_recover` (`Boot`), which loads
every task that a batch names.  `Inputs` and `RunMode` are the branch of
`_transcribe` for a single invalid input.  The run of a batch is reduced to the
statuses of its tasks.

**Transcription** is the inside of one transcription: `Detect` and `Batch` are
the engine's wrapper around the model's inference, `Native` the counts that a
model without voice detection reports, `Observe` the estimator followed by
`persist_progress`, `CurrentEstimate` the widening after a stall.  `Refuse`,
`Finalize`, `Overlapping`, `Write` follow what the model returns through
`validate_raw_result`, `Segment` and `CanonicalResult`.  Rates are reduced to
known or unknown: with a known rate the time left is any of `LeftOver`.

**Budget** has `calculate_budget` with the ranges of `ResourceConfig`, the
reserve of the command, and the guard `_wait_until_safe`.

The `*_proofs` modules hold the theorems of the module they extend; the `MC*`
modules give TLC values for the constants.

## 3. Runs

Those that hold:

| Run | Question | Bounds, and why they are enough |
|---|---|---|
| record | Can any order of updates corrupt a record? | Four reports that cross in every field (lower percent with more units, a shrinking total, an ETA that comes, inverts and goes), six updates: enough for each pair of reports in both orders before and after `running`. |
| store | Do kills and power loss take updates back? Is an operation atomic to readers? | Two records, two callers, two updates a record: a rename of one next to the fsync of the other (one directory). `Overlap = FALSE`: see section 6. |
| executor | Do record, files and outcome agree at every point where a task can stop? | One task, two kills (a kill in a run that recovery has started), both cancels. |
| foreground | Do scheduler, workers, pool and Ctrl+C leave a consistent batch, and does the command end? | Three tasks, two workers: one pending while two run, and one sibling of a dead worker. Two deaths: one before and one after the pool has noticed. |
| background | Are tasks started once, attended, retried correctly? | Two batches over two tasks: a batch behind another, or a retry next to its original; one command (a retry or the request to stop), one crash, one time-out: a batch that is sent twice, or a client that is gone when it is answered. |
| background_cancel | Does a cancel, a death, a busy lock or a blocked guard hurt the budget or hold up the batches behind? | Starts (`QueueSpec`) where a manager has accepted two batches, of two tasks and of one; one cancel of a task or a batch, one death, a lock that another scheduler takes and gives back, a guard that blocks.  One worker: the second task of the first batch waits too. |
| background_live | Does every acknowledged task end, though the manager crashes or is stopped? | Starts (`SocketSpec`) where a manager has accepted one batch and the other is in its socket; one `worker stop`, one crash, one time-out or lost client.  Restarts are not bounded. |
| budget | Do planner, scheduler and guard agree? | Limits off, low and full; 1 to 3 workers and threads; 1 to 8 cores; memory from none to plenty. |
| intake | Which files are taken, and is the stored batch whole whenever somebody is killed? | Three files on three levels, two contents, every choice of links and exclusions among them; two names on a command line: a second name, a copy and an unreadable file before and after the good one.  One kill and one retry. |
| transcription | Do estimator, store and result agree for every course of counts? | Five seconds with an observation of two and a stall of three; four units of speech in batches of one, three or none (padding exceeds the total, a batch whose length is unknown adds nothing, the batches may end short of it), five units (`MaxBatched`) at most; counts and totals of 0 to 3 in any order; up to two sentences of seven kinds, or three. |
| managers | Can clients reach who serves, and is nothing run twice? | Three processes, four starts, two crashes, two tasks: a leaving manager, its successor, and a third that is refused or takes over. |

One that shows a disagreement of the code with its own documents (section 5):
`background_lost`.

Every named bound: `MaxRevision` (updates of a record; in Executor only the
callback's reports, in Transcription the model's counts), `MaxBatched` (the units
of speech counted there), `MaxKills`, `MaxDeaths`, `MaxCommands`, `MaxCrashes`,
`MaxTimeouts` (clients that time out or are lost), `MaxStarts`, `MaxRetries` (faults
and user commands), `MaxNames`, `MaxTime` (inputs and the clock).  No other counter grows: task and batch ids come from finite
sets and are used up.  Deadlock is not checked where a model ends by itself: a
finished task, command or batch, a used-up bound.

The largest are `background` (4.9 million distinct states, two to three minutes),
`transcription` (950,000) and `background_cancel` (560,000, a minute for its
liveness).

`background` and `background_live` run without cancels on purpose, with
`MaxDeaths = 0` and `Contended = FALSE`: each of these can make an
acknowledged batch lose its place in the queue (section 5), so that
`AcceptedIsScheduled` and `AcceptedFinishes` do not hold with them.
`background_cancel` covers them, for the queue.  In `background`, `Escape` (a runner that
raises) is on.

## 4. Fairness

Only what the code schedules is fair:

* the scheduling loop, the drain thread, the server thread, recovery and the end of
  the command run (weak fairness of `RunBatch`/`Schedule`, `Drain`, `Serve`,
  `Recover`, `Command`): they are ordinary threads without a condition they could
  miss;
* a manager that has left its loop joins the drain thread (weak fairness of
  `Stopped`);
* `execute_job` does its next step (weak fairness of `Step` and of `Worker(t)`);
* a worker does not report for ever.  In `Worker(t)` a report and the end of the
  task are alternatives, so weak fairness would allow reports without end; *strong*
  fairness of "some worker comes to its end" (`LastReport`) says that there are
  finitely many reports, as a finite file has finitely many segments.  Nothing in
  the code enforces it (`media.py:41` has no timeout), and a worker that hangs is
  not modelled;
* the pool settles its futures (weak fairness of `Pool`): the contract of
  `ProcessPoolExecutor`.

Not assumed, and therefore an exception in the liveness properties:

* that the resource guard ever lets a worker start.  It samples the machine again
  and again while no worker is active (`scheduler.py:132-164`), and
  `FirstWorkerCanStart` in section 5 shows a budget with which it does so for ever.
  `CommandEnds`, `QueueDrains` and `AcceptedFinishes` except runs in which the loop
  is blocked again and again (`[]<>(pc = "blocked")`), and only those.  While
  workers are active the guard gives up and the loop waits for them: that is not
  excepted;
* that anybody starts a manager that is down.  `Restart=on-failure` in
  `packaging/systemd/local-transcriber-worker.service` does so after a crash, but
  not after a `worker stop`, and not for a `worker run` without systemd.
  `AcceptedFinishes` excepts runs in which the manager stays down or crashed;
* that anybody finds a dead worker.  `run_batch` leaves without its futures when the
  pool refuses a task (`scheduler.py:220`), the command then exits with 4 and a
  manager stays up (`daemon.py:78`), so that no recovery follows.
  `EndsUnlessGone` excepts workers that are gone, and says that a call whose worker
  is not gone ends, and that whoever does find the task of a gone one ends it.

Nothing is assumed either of users, of clients, of another holder of the lock, or of
faults.

## 5. Where the code and its documents disagree

The regular run `background_lost`, with a finding in `PROJECT.json`: the cancel
loads a live task, the worker stores succeeded, the cancel writes cancelled over
it (`daemon.py:157`), and the task can then be retried.  `jobs.py:53`: nothing
follows succeeded.

Further configurations, kept beside the regular runs; TLC finds each property
violated (where a configuration names several, check them one at a time, or with
`tlc -continue`):

| Configuration | Property | What happens |
|---|---|---|
| MCExecutorTorn | `SucceededAfterEveryOutput` | A task is stored as succeeded (`executor.py:178`) and then `result.json` is truncated and written once more (`:193`); a kill there leaves a succeeded task without a readable result.  `docs/user-guide.md:193`: "only after every output has been written successfully". |
| MCExecutorClaim | `ResultTellsTheOutcome` | `result.json` says succeeded before the exports (`executor.py:155`); a task that then fails keeps it.  `docs/user-guide.md:265` calls it authoritative. |
| MCForegroundDeath | `NoTaskLeftBehind` | One dead worker breaks the pool, the next `submit` raises out of `run_batch` (`scheduler.py:220`), and the other files stay queued.  `docs/design/solution.md:241`. |
| MCForegroundBusy | `NoTaskLeftBehind` | With the lock taken, the command exits with 4 after persisting its batch (`cli.py:363`); nothing takes it up.  `solution.md:215` says that the command waits for a terminal state. |
| MCForegroundLate | `TerminalStays` | The pool fails all futures before it terminates the siblings of a dead worker; a task that `scheduler.py:246` marks failed is then written running.  Implementation plan, line 595. |
| MCForegroundOneFile | `CtrlCCancels` | With one file the worker is a thread (`scheduler.py:197`): Ctrl+C does not reach it and the transcription goes on to succeed.  `docs/user-guide.md:193`. |
| MCForegroundSwallowed | `CtrlCExits130` | A Ctrl+C delivered inside `future.result()` is caught as the failure of that task (`scheduler.py:243`), and the batch goes on.  `docs/user-guide.md:193`: Ctrl+C exits with code 130. |
| MCForegroundTwice | `WorkersBounded` | With every Ctrl+C (`CtrlCSpec`): one, the first or a second, that arrives while the pool is waited for ends that wait (`scheduler.py:206`), and the lock is released above workers that are alive. |
| MCBackgroundStale | `NoBatchRunsForEver` | `_cancel` reads statuses and later writes the batch (`daemon.py:166`) while the scheduler aggregates it too; the older reading can be written last and the batch is running for ever.  `solution.md:327`. |
| MCBackgroundBusy | `AcceptedIsScheduled` | An acknowledged batch meets a busy lock, the exception is dropped (`daemon.py:78`) and the batch leaves the queue.  `solution.md:24`, `:223`. |
| MCBackgroundRace | `CancelledStaysCancelled` | A worker that loaded the task before the cancel (`daemon.py:157`) overwrites it with running.  `solution.md:222`. |
| MCBackgroundSubmit | `NotSubmittedIsQueued` | A manager that was just started recovers the batch; the submission is refused or times out and the command reports "not submitted" (`cli.py:319`).  `tests/test_cli.py:555`, `:584`. |
| MCBudgetDocs | `FirstWorkerCanStart` | `calculate_budget` accepts a budget of one reserve; the guard adds the RSS of the process (`scheduler.py:137`) and the first worker never starts.  `solution.md:293`. |
| MCBudgetDocs | `OverloadPauses` | Each sample makes new `psutil.Process` objects, whose first `cpu_percent` is 0.0 (`scheduler.py:45`): the CPU guard never blocks.  `solution.md:316`. |
| MCIntakeDocs | `KilledCanBeRetried` | A foreground command that is killed leaves a running task; recovery looks at background tasks only (`daemon.py:91`), and a running task cannot be retried.  `solution.md:216`. |
| MCIntakeDocs | `RetryResumes` | A retry of a batch that `_transcribe` made inherits its missing options, and recovery skips batches without options (`daemon.py:98`): after a crash it stays queued.  `solution.md:221`. |
| MCIntakeDocs | `BackgroundIsKept` | With `--bg` and only invalid files the first one is run in the foreground (`cli.py:246`).  `solution.md:197`. |
| MCIntakeDocs | `RetriedOnce` | A retry that is given twice makes two batches of the same tasks (`daemon.py:193`), and both are transcribed.  No document promises otherwise. |
| MCManagersLive | `LiveIsNotInterrupted` | The successor of a manager that is still draining stores a task that is being transcribed as interrupted (`daemon.py:92`).  `solution.md:221`, `:223`. |
| MCTranscriptionDocs | `StallIsShown` | A hanging model reports no count, and nothing else asks for the estimate: the range is never widened (`progress.py:92`).  `docs/acceptance/progress-and-eta.md:13`. |
| MCTranscriptionDocs | `ModelErrorIsNotTheInputs` | What the model returns is refused with a `ValueError`, which counts as an error of the input (`executor.py:204`): exit code 2.  `docs/acceptance/phase-b.md:19`. |

One more was met while choosing the bounds: a cancel between the load and the
transition of `scheduler.py:244-246` makes the transition raise `ValueError` out
of `run_batch`, and the pending tasks of the batch stay queued.  It is why
`AcceptedIsScheduled` is checked without cancels; `QueueDrains` shows that at
least the batches behind it get their turn.

## 6. Proofs

For every value of the constants (which satisfy the ASSUMEs of the modules).  All
safety properties of the runs that hold are theorems.

| Theorem | What it says | Argument |
|---|---|---|
| Executor_proofs: `RecordTypeCorrect`, `RecordSanity`, `RecordFinality`, `RecordMonotone` | of JobRecord: types and ranges; no contradiction; terminal statuses stay; nothing goes backwards, for any set of reports and any number of updates | `RecordInv` adds to `RecordTypeOK /\ RecordSane` that an absent job has no other content, without which `Create` could overwrite a record that counts.  One lemma per operation, on the arithmetic of `WithProgress` and `WithStatus`. |
| Executor_proofs: `ExecutionSanity`, `ExecutionFinality`, `ExecutionMonotone` | the same of a record in the hands of `execute_job`, its handlers, the scheduler that finds a dead worker and recovery | Every step of Executor is an operation of the store on the record or leaves it alone (`RecordKept`): the lemmas of the operations do the rest. |
| Executor_proofs: `TypeCorrect`, `Completeness`, `Honesty` | for any reports and any number of kills: a success has its files; a return agrees with the record | `SucceededIsComplete` says nothing of a task on its way.  `IInv` adds, for each `pc`, what the status can be (`StatusByPoint`) and which files exist (`FilesByPoint`), among it that a queued task has none: a recovered task starts clean.  `NoOutcomeYet`: a call that has not ended has no outcome. |
| Executor_proofs: `Cancellation` | a cancel before the last cancellation point keeps that run from storing a success | From such a state on, and until a kill, `Stopping` holds: no success is stored, and either the cancel is seen at a check still to come, or the task is in the handler or has ended. |
| JobStore_proofs: `TypeCorrect`, `Durability`, `Refinement` | for any ids, callers and reports: what is on disk, and what any number of overlapping operations are about to write, is a legal record; without overlaps on one record, returned updates survive, and the files implement JobRecord | `TypeCorrect` rests on one fact, `OperationTypes`: an operation makes a record of a record, however old the one it loaded.  For the others `Inv` = types, at most one operation in flight per record (`Exclusive`), that what it computed still is what its operation gives for the record on disk (`Current`), and `Ordered`: `acked`, `safe` and `disk` follow one another in the order `Later`. `Later` is a preorder (`LaterReflexive`, `LaterTransitive`) and every operation moves along it (`ComputedLater`). |
| Budget_proofs: `TypeCorrect`, `Agreement`, `Threads`, `Memory` | for every machine and configuration: planner and scheduler agree, threads (or one thread) and memory stay in their limits | `Accounted`, which is defined with the proofs, ties the stored budget to its inputs and counts a whole reserve for each active worker, which a sample of their memory would not; with the types it is inductive.  `Quotient` and `Times` are the facts on floors. |
| Foreground_proofs: `TypeCorrect`, `Bounded` | for any number of tasks, workers and deaths, a Ctrl+C anywhere but in the wait for the pool, and a callback that raises: the budget and the lock hold | `IInv`: the lock is held inside the `with` (`LockHeld`); until the pool breaks, whoever lives is in `active` with a pending future (`ActiveHoldsAlive`), so that a bound on `active` bounds the live workers.  Once it is broken nothing is submitted, so the set of live workers only shrinks. |
| Foreground_proofs: `Honesty`, `NothingOpen`, `Forward` | the exit code is honest, an orderly end leaves nothing open, statuses follow the table | `HInv` adds that a reported success is stored and nobody is about to write over it (`SuccessIsStored`), that every task is pending, active or has an outcome (`Covered`), that a worker of an unbroken pool finds what it has left (`Unbroken`), and that, until the pool breaks, a task between `MarkFailed` and `MarkWrite` still is what was loaded, live (`MarkIsFresh`): without these, a late writer could undo what the scheduler has collected. |
| Background_proofs: `TypeCorrect`, `Bounded`, `OnlyOnce` | for any tasks, batches, commands (cancels among them), crashes, deaths and other holders of the lock: the budget and the lock hold, and no task is run twice | `PoolInv` is the invariant of the scheduler as above, now with crashes that empty the pool.  `StartedOnce` alone is not inductive: a task is started because its *record* was queued when a worker loaded it.  `Started` says that what may still be started has not been: neither a task stored as queued, nor one that a worker has loaded and not yet written. |
| Background_proofs: `NoZombie`, `EndedIsFinal`, `RetriesUnfinished` | without cancels and dying workers: what is running is being run; what has ended is not written again; what is retried had not succeeded, and never does | `CInv` adds the life of the manager (`Lifecycle`: who is at which step while it is up, down or recovering), that batches share no task (`Owned`), that a worker finds the status it has left and a future that has ended is that of a task that has (`Intact`), that the scheduler knows every task of its batch (`Covered`), and `Attended`, which is `RunningIsAttended` also during recovery. |
| Background_proofs: `NothingForgotten` | if moreover nobody else takes the lock: an accepted batch with a queued task is in the queue or at work | `Scheduled` follows a batch from the acknowledgement or from `_recover` to the queue, through a crash and back; `NoOther` keeps `LockBusy` away. |
| Intake_proofs: `VisibleFound`, `ContentOnce` | for any tree and any names: the walk finds what it may reach, in order; each readable content is taken exactly once | `Walked`: what is found so far is what the directories visited so far show, and the ones still to visit are those of the visible part of the tree.  `Remembered`: each path seen is settled (accepted, or its content is, or it could not be read); `Blamed`: only a candidate is skipped as unreadable.  Without `Remembered`, a path seen before could hide a readable file for no reason. |
| Intake_proofs: `BatchWhole` | for any kills, crashes and retries: a stored batch has all its tasks, its own, and no content twice | With nothing accepted, the batch is made of the first file that could not be read, if there is one: that there is a first is the well-foundedness of `<` (`WFMin`).  `Creating` and `Retrying` say of a batch under way, of the command or of a retry, what its tasks will be when it is stored; `Whole` of the stored ones. |
| Managers_proofs: `Reachability`, `Once` | for any number of processes, starts and crashes: who serves can be reached; no task is transcribed twice | `LockGuardsPath`: the lock is held from before the path is taken to after it is given up.  `RunsFollowStatus`: a task that may still be started has not been; statuses never go back to queued, whatever recovery and late drain threads do. |
| Transcription_proofs: `Reports`, `Confidence`, `SpeechReported` | for every amount of speech, batching (short of the total, beyond it, or uncounted), report of the model and course of time: reports are legal, the confidence fits the range, the record shows what has been counted | `Clock`: an estimator with a range has observed long enough and knows a rate, which it keeps (`LaterClock`), so a range is never lost (`Stored`).  `Counted`: record and engine agree on the count after every batch; `FirstPercent` and `PercentGrows`, on the floors of the percentage, say that the first of them is 15% and that more speech is never less, so that the stored percentage is that of the count. |
| Transcription_proofs: `ResultInOrder` | whatever the model returns, the segments of a written result last and do not overlap, any two of them | The code compares neighbours only.  `Checked` carries its comparisons from `Overlapping` to what is written; `OrderedPairs` takes them to any two segments: of the pairs that overlap, one with the smallest second member (`WFMin`) would have a neighbour that does. |

The hypotheses, and why they are needed:

* `Durability` and `Refinement`, but not `TypeCorrect`, assume `Overlap = FALSE`: no two operations on one
  record are in flight together.  The code does not enforce this; sections 3 and 5
  show both sides (the run `store` with it; `background_lost` and
  `MCBackgroundRace` what happens without it).  While a task runs and nobody
  cancels it, its worker is the only writer.
* `Honesty`, `NothingOpen` and `Forward` of Foreground assume `Reporting = TRUE`, as
  the command calls `run_batch`.  They hold for `Spec`; under `CtrlCSpec` `Bounded`
  is false (section 5).
* `NoZombie`, `EndedIsFinal`, `RetriesUnfinished` and `NothingForgotten` assume
  `Calm`: no cancel is given and no worker dies by itself.  Submissions that time
  out, clients that go away, retries, stops of both kinds, crashes of the whole manager, runners
  that raise, restarts and recoveries are all in, in any number.  With a cancel,
  `background_lost` is a counterexample to `EndedIsFinal` and, by a retry of that
  task, to `RetriesUnfinished`.  The siblings of a worker that dies write after
  their tasks have been marked failed (`MCForegroundLate`), and the death leaves
  tasks stored as running, which is a counterexample to `NoZombie`.  Either one
  makes `run_batch` raise with queued tasks (section 5), which is one to
  `NothingForgotten`.  Half of `Calm` may be enough for `NoZombie` (no dying worker)
  and for `RetriesUnfinished` (no cancel): TLC finds no violation with two tasks,
  but the invariant below them, `Intact`, needs both halves.
* `NothingForgotten` assumes `Contended = FALSE` besides; `MCBackgroundBusy` is the
  counterexample with a lock that another command holds.

The runs `background` and `store` have these very hypotheses as the values of their
constants.

Only model-checked is all liveness (`EndsUnlessGone`, `CommandEnds`,
`QueueDrains`, `AcceptedFinishes`), since the prover does not do fairness.  That
Managers and Background agree on one manager is not stated as a refinement.  `IInv`
of Intake leaves out the type of one variable, `scheduled`, which no property of it
needs: it is filled by `SetToSortSeq`, a library operator with a recursive
definition, of which nothing can be proved.

## 7. Mutants

Next to a definition stands its *Mutant*: the same operation with a plausible
slip (a dropped fsync, a skipped check, an aggregate left out, a wait that returns
futures which have been collected).  Each property of a passing run is violated when the
definition is replaced by the mutant named for it in `PROJECT.json`; the mutants
are used for nothing else.

## 8. Not modelled, and why

* Media, downloads, loading and inference of the models: to the rest of the
  program they succeed or raise, which Executor covers at every step; what
  inference returns is arbitrary in Transcription.
* Exporters: pure formatting.  Only that a file is truncated and then written is
  modelled.
* What the console prints, environment check, argument parsing, `doctor`,
  `models`, `export`, the release scripts: read-only or without concurrency.
* Framing, message size and peer credentials of the socket.
* `worker()` lock and `expected_revision` of the job store: no caller in the
  package uses them.
* The durable write of a batch: line for line that of a job.
* Result files across a power loss: they are not fsynced, and Executor has only
  deaths of processes.
* An excluded directory that is the root of the walk itself: the code looks for
  exclusions among the children only (`discovery.py:130`), so it has no effect.
* Worker processes that outlive a manager whose process alone is killed: systemd
  kills the unit as a whole, and so does `Crash`.

## 9. Plan

Done, in this order: Jobs and JobRecord, JobStore and its refinement, Executor,
Scheduler, Foreground, Background, Budget; Discovery and Intake, Transcription,
Managers; the proofs of all safety properties that the runs check.

Next, the most important first:

1. An abstract specification of a batch (accepted, each task run once, terminal)
   that Foreground and, as long as nobody cancels, Background implement: proved step
   by step with the invariants `HInv` and `CInv`.
2. What still holds of Background with cancels: `NoZombie` from `MaxDeaths = 0`
   alone, and which statuses a cancel can write over.
3. Result files across a power loss, as far as a file system without fsync
   promises anything.
