----------------------------- MODULE Background -----------------------------
(***************************************************************************)
(* The background mode: the manager (daemon.py) with its single-threaded   *)
(* IPC server, the thread that drains the queue of batches through the     *)
(* scheduler, recovery after a crash, and the clients: transcribe --bg     *)
(* (cli.py), which persists a batch and submits it, and the cancel, retry  *)
(* and worker stop commands.  The server thread and the drain thread write *)
(* the same records without a lock, so a cancel is modelled load by load.  *)
(***************************************************************************)
EXTENDS Scheduler

CONSTANTS
  TaskOrder,    \* Tasks and
  BatchOrder,   \* Batches, in the order in which new ids are taken
  Commands,     \* commands given, of {"cancel", "retry", "stop", "worker stop"}
  MaxCommands,  \* bound on the number of commands
  MaxCrashes,   \* bound on the number of crashes of the manager
  MaxTimeouts   \* bound on the number of clients whose time is up

ASSUME OrderAssumption ==
  /\ TaskOrder \in Seq(Tasks) /\ IsInjective(TaskOrder)
  /\ BatchOrder \in Seq(Batches) /\ NoBatch \notin Batches
ASSUME BoundsAssumption ==
  MaxCommands \in Nat /\ MaxCrashes \in Nat /\ MaxTimeouts \in Nat

VARIABLES
  manager,   \* the manager process: down, crashed, recovering, serving, leaving
             \* on a stop ("stopping") or on an exception ("raised")
  queue, draining, current,   \* its _queue, _active, _current_batch_id
  todo,      \* the batches recovery has not looked at
  inbox,     \* the submissions that wait in the socket
  call,      \* the request that is being handled, with whether its client still waits
  client,    \* the transcribe --bg command of each batch
  retryOf,   \* the task that a task retries
  starts,    \* how often each task has been started (history)
  commands, crashes, timeouts

managerVars == <<manager, queue, draining, current, todo>>
ipcVars     == <<inbox, call, client>>
history     == <<retryOf, starts, commands, crashes, timeouts>>
vars        == <<schedVars, managerVars, ipcVars, history>>

NoTask == "no task"
NoCall == [op |-> "none"]
Up     == manager \in {"recover", "recovering", "serving", "stopping"}
Served == manager \in {"serving", "stopping", "raised"}
TasksOf(b) == ToSet(taskIds[b])

\* New ids: one or more of those that follow the ids taken so far.
Taken == UNION {TasksOf(b) : b \in Batches}
Free  == {r \in (1..Len(TaskOrder)) \X (1..Len(TaskOrder)) :
            /\ r[1] <= r[2]
            /\ \A i \in 1..r[1] - 1 : TaskOrder[i] \in Taken
            /\ \A i \in r[1]..r[2] : TaskOrder[i] \notin Taken}
Fresh == {SubSeq(TaskOrder, r[1], r[2]) : r \in Free}
NewBatches == {b \in Batches : taskIds[b] = <<>>}
IsNext(b)  == b = SelectSeq(BatchOrder, LAMBDA c : c \in NewBatches)[1]

Init ==
  /\ SchedInit
  /\ taskIds = [b \in Batches |-> <<>>]
  /\ status = [t \in Tasks |-> "queued"]
  /\ bstatus = [b \in Batches |-> "queued"]
  /\ manager = "down" /\ queue = <<>> /\ draining = FALSE /\ current = NoBatch
  /\ todo = {}
  /\ inbox = <<>> /\ call = NoCall
  /\ client = [b \in Batches |-> "none"]
  /\ retryOf = [t \in Tasks |-> NoTask]
  /\ starts = [t \in Tasks |-> 0]
  /\ commands = 0 /\ crashes = 0 /\ timeouts = 0

-----------------------------------------------------------------------------
(* The drain thread, the scheduler it calls and the workers.               *)

\* Mutant of StartBatch: a batch is queued only when nothing is running.
StartBatchIfIdle(b) ==
  /\ queue' = IF draining THEN queue ELSE Append(queue, b)
  /\ draining' = TRUE

\* _start_batch: a batch that waits or runs is not queued again.
StartBatch(b) ==
  /\ queue' = IF b = current \/ b \in ToSet(queue) THEN queue ELSE Append(queue, b)
  /\ draining' = TRUE

Dequeue ==
  /\ draining /\ pc = "idle" /\ queue # <<>>
  /\ queue' = Tail(queue)
  /\ current' = Head(queue)
  /\ Call(Head(queue))
  /\ UNCHANGED <<manager, draining, todo, ipcVars, history>>

\* Mutant of Settle: what run_batch raises ends the thread.
SettleReturned ==
  /\ draining /\ pc = "returned"
  /\ pc' = "idle"
  /\ current' = NoBatch
  /\ UNCHANGED <<store, lock, locals, pool, cancel, manager, queue, draining, todo, ipcVars, history>>

\* run_batch has returned or raised; what it raised is dropped.
Settle ==
  /\ draining /\ pc \in {"returned", "raised"}
  /\ pc' = "idle"
  /\ current' = NoBatch
  /\ UNCHANGED <<store, lock, locals, pool, cancel, manager, queue, draining, todo, ipcVars, history>>

Drained ==
  /\ draining /\ pc = "idle" /\ queue = <<>>
  /\ draining' = FALSE
  /\ UNCHANGED <<schedVars, manager, queue, current, todo, ipcVars, history>>

Drain == Dequeue \/ Settle \/ Drained

Schedule == RunBatch /\ UNCHANGED <<managerVars, ipcVars, history>>

WorkerSteps(t) ==
  /\ Worker(t)
  /\ starts' = [starts EXCEPT ![t] = @ + IF worker[t] = "loaded" THEN 1 ELSE 0]
  /\ UNCHANGED <<managerVars, ipcVars, retryOf, commands, crashes, timeouts>>

PoolSteps == Pool /\ UNCHANGED <<managerVars, ipcVars, history>>

-----------------------------------------------------------------------------
(* The IPC server.                                                         *)

\* A client has sent its request and waits for the answer, the first or a later time.
Waiting == {"waiting", "waiting again"}

\* The socket goes, and clients that wait for an answer try again.
Disconnect ==
  /\ inbox' = <<>> /\ call' = NoCall
  /\ client' = [b \in Batches |-> IF client[b] \in Waiting THEN "retrying" ELSE client[b]]

\* sendall raises BrokenPipeError out of serve_once and run: the server is gone,
\* the process lives until the drain thread has emptied the queue.
Hangup == manager' = "raised" /\ Disconnect

\* The time of the client of b is up: after its first request it starts the service,
\* which fails if that runs, and sends again; after a later one it gives up.
Lapse(b) ==
  /\ client[b] \in Waiting
  /\ timeouts < MaxTimeouts
  /\ timeouts' = timeouts + 1
  /\ \E s \in {"retrying", "refused"} :
       /\ client[b] = "waiting again" => s = "refused"
       /\ client' = [client EXCEPT ![b] = s]

\* The client of the request gets the answer, unless its time is up just then; one
\* that has gone before breaks the server.
Answer(answer) ==
  /\ \/ /\ call.open
        /\ \/ /\ client' = [client EXCEPT ![call.batch] = IF @ \in Waiting THEN answer ELSE @]
              /\ UNCHANGED timeouts
           \/ Lapse(call.batch)
        /\ call' = NoCall
        /\ UNCHANGED <<manager, inbox>>
     \/ ~call.open /\ Hangup /\ UNCHANGED timeouts
  /\ UNCHANGED <<retryOf, starts, commands, crashes>>

\* The client of a cancel, a retry or a ping has given up before its answer.
LostClient ==
  /\ manager = "serving" /\ call = NoCall
  /\ timeouts < MaxTimeouts
  /\ timeouts' = timeouts + 1
  /\ Hangup
  /\ UNCHANGED <<schedVars, queue, draining, current, todo, retryOf, starts, commands, crashes>>

Accept ==
  /\ manager = "serving" /\ call = NoCall /\ inbox # <<>>
  /\ inbox' = Tail(inbox)
  /\ call' = [op |-> "submit", batch |-> Head(inbox).batch, open |-> Head(inbox).open]
  /\ UNCHANGED <<schedVars, managerVars, client, history>>

\* submit: only a batch that is stored as queued ...
Submitted ==
  /\ call.op = "submit"
  /\ IF bstatus[call.batch] = "queued"
     THEN call' = [call EXCEPT !.op = "start"] /\ UNCHANGED <<manager, inbox, client, history>>
     ELSE Answer("refused")
  /\ UNCHANGED <<schedVars, queue, draining, current, todo>>

\* ... is queued (and so is the new batch of a retry), and acknowledged.
Enqueue ==
  /\ call.op = "start"
  /\ StartBatch(call.batch)
  /\ Answer("accepted")
  /\ UNCHANGED <<schedVars, current, todo>>

\* A user gives a command, and if it is a request, the server takes it up.
Command(op) ==
  /\ op \in Commands /\ commands < MaxCommands
  /\ commands' = commands + 1

Request(op) == manager = "serving" /\ call = NoCall /\ Command(op)

\* cancel_job names one task, cancel_batch all of them.
CancelRequest(b) ==
  /\ Request("cancel")
  /\ taskIds[b] # <<>>
  /\ \E ts \in {taskIds[b]} \cup {<<t>> : t \in TasksOf(b)} :
       call' = [op |-> "cancel", batch |-> b, tasks |-> ts]
  /\ UNCHANGED <<schedVars, managerVars, inbox, client, retryOf, starts, crashes, timeouts>>

\* The next task of the cancel: a running one gets its event set, a queued one
\* is loaded by transition, another is left alone.
CancelNext ==
  /\ call.op = "cancel" /\ call.tasks # <<>>
  /\ LET t == Head(call.tasks) IN
       IF status[t] = "queued"
       THEN call' = [call EXCEPT !.op = "transition"] /\ UNCHANGED cancel
       ELSE /\ cancel' = IF status[t] = "running" THEN cancel \cup {t} ELSE cancel
            /\ call' = [call EXCEPT !.tasks = Tail(@)]
  /\ UNCHANGED <<store, lock, pc, locals, pool, managerVars, inbox, client, history>>

\* transition(cancelled) loads the task again, and raises if it has ended.
CancelLoad ==
  /\ call.op = "transition"
  /\ call' = IF status[Head(call.tasks)] \in Live THEN [call EXCEPT !.op = "write"] ELSE NoCall
  /\ UNCHANGED <<schedVars, managerVars, inbox, client, history>>

CancelWrite ==
  /\ call.op = "write"
  /\ status' = [status EXCEPT ![Head(call.tasks)] = "cancelled"]
  /\ call' = [call EXCEPT !.op = "cancel", !.tasks = Tail(@)]
  /\ UNCHANGED <<taskIds, bstatus, lock, pc, locals, pool, cancel, managerVars, inbox, client, history>>

\* Then the batch is aggregated: the statuses are read, and the batch written.
CancelRead ==
  /\ call.op = "cancel" /\ call.tasks = <<>>
  /\ call' = [op |-> "aggregate", batch |-> call.batch, as |-> Aggregate(call.batch, status)]
  /\ UNCHANGED <<schedVars, managerVars, inbox, client, history>>

CancelAggregate ==
  /\ call.op = "aggregate"
  /\ bstatus' = [bstatus EXCEPT ![call.batch] = call.as]
  /\ call' = NoCall
  /\ UNCHANGED <<taskIds, status, lock, pc, locals, pool, cancel, managerVars, inbox, client, history>>

\* A new batch c with a new task for each of the candidates that is retryable.
RetryOf(b, c, retryable) ==
  /\ Request("retry")
  /\ c \in NewBatches /\ IsNext(c)
  /\ \E ts \in {taskIds[b]} \cup {<<t>> : t \in TasksOf(b)} :
     \E again \in Picked(ts, {t \in ToSet(ts) : status[t] \in retryable}), new \in Fresh :
       /\ Len(new) = Len(again)
       /\ taskIds' = [taskIds EXCEPT ![c] = new]
       /\ retryOf' = [t \in Tasks |-> IF t \in ToSet(new)
                        THEN again[CHOOSE i \in DOMAIN new : new[i] = t] ELSE retryOf[t]]
       /\ call' = [op |-> "start", batch |-> c, open |-> TRUE]
  /\ UNCHANGED <<status, bstatus, lock, pc, locals, pool, cancel, managerVars, inbox, client, starts, crashes, timeouts>>

\* Mutant of Retry: every task that has ended is retried.
RetryAll(b, c) == RetryOf(b, c, Terminal)

\* retry_job, retry_batch: only what has not succeeded is retried.
Retry(b, c) == RetryOf(b, c, {"failed", "interrupted", "cancelled"})

\* The request "stop" of handle, which the tests send and no command does.
Stop ==
  /\ Request("stop")
  /\ manager' = "stopping"
  /\ UNCHANGED <<schedVars, queue, draining, current, todo, ipcVars, retryOf, starts, crashes, timeouts>>

Serve ==
  \/ Accept \/ Submitted \/ Enqueue
  \/ CancelNext \/ CancelLoad \/ CancelWrite \/ CancelRead \/ CancelAggregate

-----------------------------------------------------------------------------
(* The life of the manager process.                                        *)

\* run or the interpreter joins the drain thread, which first empties the queue.
Stopped ==
  /\ manager \in {"stopping", "raised"} /\ ~draining
  /\ manager' = IF manager = "stopping" THEN "down" ELSE "crashed"
  /\ cancel' = {}
  /\ Disconnect
  /\ UNCHANGED <<store, lock, pc, locals, pool, queue, draining, current, todo, history>>

\* The manager and its workers die together: they are one systemd unit.
Halt(to) ==
  /\ Up \/ manager = "raised"
  /\ manager' = to
  /\ queue' = <<>> /\ draining' = FALSE /\ current' = NoBatch /\ todo' = {}
  /\ pc' = "idle"
  /\ worker' = [t \in Tasks |-> "none"] /\ future' = [t \in Tasks |-> NoFuture]
  /\ broken' = FALSE /\ cancel' = {}
  /\ lock' = IF lock = "this" THEN "free" ELSE lock
  /\ Disconnect
  /\ UNCHANGED <<store, locals, deaths, retryOf, starts, timeouts>>

\* Out of memory, kill -9, power: a failure to systemd.
Crash ==
  /\ Halt("crashed")
  /\ crashes < MaxCrashes
  /\ crashes' = crashes + 1
  /\ UNCHANGED commands

\* worker stop is systemctl stop: SIGTERM, for which there is no handler, to the
\* whole unit.  systemd does not restart it.
StopService ==
  /\ Halt("down")
  /\ Command("worker stop")
  /\ UNCHANGED crashes

\* systemd restarts a failed manager, if it started it; a user or a client starts
\* a stopped one.
Boot(from) ==
  /\ manager = from
  /\ manager' = "recover"
  /\ UNCHANGED <<schedVars, queue, draining, current, todo, ipcVars, history>>

\* Mutants of RecoverJobs: running tasks are queued again, or overlooked.
RecoverJobsRequeues ==
  /\ manager = "recover"
  /\ manager' = "recovering"
  /\ status' = [t \in Tasks |-> IF status[t] = "running" THEN "queued" ELSE status[t]]
  /\ todo' = {b \in Batches : taskIds[b] # <<>>}
  /\ UNCHANGED <<taskIds, bstatus, lock, pc, locals, pool, cancel, queue, draining, current, ipcVars, history>>

RecoverJobsSkips ==
  /\ manager = "recover"
  /\ manager' = "recovering"
  /\ todo' = {b \in Batches : taskIds[b] # <<>>}
  /\ UNCHANGED <<taskIds, status, bstatus, lock, pc, locals, pool, cancel, queue, draining, current, ipcVars, history>>

\* _recover: tasks that were running are interrupted ...
RecoverJobs ==
  /\ manager = "recover"
  /\ manager' = "recovering"
  /\ status' = [t \in Tasks |-> IF status[t] = "running" THEN "interrupted" ELSE status[t]]
  /\ todo' = {b \in Batches : taskIds[b] # <<>>}
  /\ UNCHANGED <<taskIds, bstatus, lock, pc, locals, pool, cancel, queue, draining, current, ipcVars, history>>

\* Mutant of RecoverBatch: the batch is not started again.
RecoverBatchIdle(b) ==
  /\ manager = "recovering" /\ b \in todo
  /\ todo' = todo \ {b}
  /\ bstatus' = [bstatus EXCEPT ![b] = Aggregate(b, status)]
  /\ UNCHANGED <<taskIds, status, lock, pc, locals, pool, cancel, queue, draining, manager, current, ipcVars, history>>

\* ... and each batch is aggregated, and started if a task of it is queued.
RecoverBatch(b) ==
  /\ manager = "recovering" /\ b \in todo
  /\ todo' = todo \ {b}
  /\ bstatus' = [bstatus EXCEPT ![b] = Aggregate(b, status)]
  /\ IF \E t \in TasksOf(b) : status[t] = "queued"
     THEN StartBatch(b)
     ELSE UNCHANGED <<queue, draining>>
  /\ UNCHANGED <<taskIds, status, lock, pc, locals, pool, cancel, manager, current, ipcVars, history>>

Recovered ==
  /\ manager = "recovering" /\ todo = {}
  /\ manager' = "serving"
  /\ UNCHANGED <<schedVars, queue, draining, current, todo, ipcVars, history>>

Recover == RecoverJobs \/ (\E b \in Batches : RecoverBatch(b)) \/ Recovered

-----------------------------------------------------------------------------
(* transcribe --bg.                                                        *)

\* The tasks and then the batch are persisted.
Persist(b) ==
  /\ b \in NewBatches /\ IsNext(b)
  /\ \E new \in Fresh : taskIds' = [taskIds EXCEPT ![b] = new]
  /\ client' = [client EXCEPT ![b] = "persisted"]
  /\ UNCHANGED <<status, bstatus, lock, pc, locals, pool, cancel, managerVars, inbox, call, history>>

\* With a manager up the request waits in its socket.
Send(b) ==
  /\ client[b] \in {"persisted", "retrying"} /\ Up
  /\ inbox' = Append(inbox, [batch |-> b, open |-> TRUE])
  /\ client' = [client EXCEPT ![b] = IF @ = "persisted" THEN "waiting" ELSE "waiting again"]
  /\ UNCHANGED <<schedVars, managerVars, call, history>>

\* Two seconds without an answer: the request stays where it is, without a client.
TimeOut(b) ==
  /\ Lapse(b)
  /\ inbox' = [i \in DOMAIN inbox |->
                 IF inbox[i].batch = b THEN [batch |-> b, open |-> FALSE] ELSE inbox[i]]
  /\ call' = IF call.op \in {"submit", "start"} /\ call.batch = b
             THEN [call EXCEPT !.open = FALSE] ELSE call
  /\ UNCHANGED <<schedVars, managerVars, retryOf, starts, commands, crashes>>

\* No manager: the service is started, or cannot be, or time is up: "not submitted".
GiveUpSubmit(b) ==
  /\ \/ /\ client[b] = "persisted" /\ ~Up
        /\ \E s \in {"retrying", "refused"} : client' = [client EXCEPT ![b] = s]
     \/ client[b] = "retrying" /\ client' = [client EXCEPT ![b] = "refused"]
  /\ UNCHANGED <<schedVars, managerVars, inbox, call, history>>

Client(b) == Persist(b) \/ Send(b) \/ TimeOut(b) \/ GiveUpSubmit(b)

-----------------------------------------------------------------------------
Next ==
  \/ Drain
  \/ Schedule
  \/ \E t \in Tasks : WorkerSteps(t)
  \/ PoolSteps
  \/ \E t \in Tasks : Mishap(t) /\ UNCHANGED <<managerVars, ipcVars, history>>
  \/ Other /\ UNCHANGED <<managerVars, ipcVars, history>>
  \/ Serve
  \/ \E b \in Batches : CancelRequest(b)
  \/ \E b, c \in Batches : Retry(b, c)
  \/ Stop
  \/ LostClient
  \/ Stopped
  \/ Crash
  \/ StopService
  \/ Boot("down")
  \/ Boot("crashed")
  \/ Recover
  \/ \E b \in Batches : Client(b)

Spec == Init /\ [][Next]_vars

\* The threads of a manager that is up run, its workers go on, and no worker reports
\* for ever without one that ends (there are finitely many to end).  Nothing is assumed
\* of users, of the resource guard, of another scheduler, or of whoever might start a
\* manager that is down.
Fairness ==
  /\ WF_vars(Drain)
  /\ WF_vars(Schedule)
  /\ \A t \in Tasks : WF_vars(WorkerSteps(t))
  /\ SF_vars(\E t \in Tasks : LastReport(t) /\ WorkerSteps(t))
  /\ WF_vars(PoolSteps)
  /\ WF_vars(Serve)
  /\ WF_vars(Stopped)
  /\ WF_vars(Recover)

FairSpec == Spec /\ Fairness

-----------------------------------------------------------------------------
BatchStatus == {"queued", "running", "failed", "cancelled", "succeeded"}
Outcomes    == {NoFuture, "raised", "succeeded", "failed", "cancelled"}
ClientState == Waiting \cup {"none", "persisted", "retrying", "accepted", "refused"}
Submissions == [batch : Batches, open : BOOLEAN]

\* What the scheduler and its workers use.
SchedulerTypes ==
  /\ taskIds \in [Batches -> Seq(Tasks)]
  /\ status \in [Tasks -> Status]
  /\ bstatus \in [Batches -> BatchStatus]
  /\ lock \in {"free", "this", "other"}
  /\ pc \in Loop \cup {"idle", "lock", "leave", "unwind", "returned", "raised"}
  /\ run \in Batches \cup {NoBatch}
  /\ pending \in Seq(Tasks) /\ done \subseteq active /\ active \subseteq Tasks
  /\ outcomes \in [Tasks -> Outcomes]
  /\ worker \in [Tasks -> Unsettled \cup {"none", "finished", "gone"}]
  /\ future \in [Tasks -> Outcomes \cup {"pending"}]
  /\ broken \in BOOLEAN /\ deaths \in 0..MaxDeaths
  /\ cancel \subseteq Tasks

\* A request that is being handled, and how far.
Requests ==
  {NoCall}
  \cup [op : {"submit", "start"}, batch : Batches, open : BOOLEAN]
  \cup [op : {"cancel", "transition", "write"}, batch : Batches, tasks : Seq(Tasks)]
  \cup [op : {"aggregate"}, batch : Batches, as : BatchStatus]

ManagerTypes ==
  /\ manager \in {"down", "crashed", "recover", "recovering", "serving", "stopping", "raised"}
  /\ queue \in Seq(Batches) /\ draining \in BOOLEAN
  /\ current \in Batches \cup {NoBatch} /\ todo \subseteq Batches
  /\ inbox \in Seq(Submissions)
  /\ call \in Requests
  /\ call.op \in {"transition", "write"} => call.tasks # <<>>
  /\ client \in [Batches -> ClientState]
  /\ retryOf \in [Tasks -> Tasks \cup {NoTask}]
  /\ starts \in [Tasks -> Nat]
  /\ commands \in 0..MaxCommands /\ crashes \in 0..MaxCrashes
  /\ timeouts \in 0..MaxTimeouts

TypeOK == SchedulerTypes /\ ManagerTypes

\* Submissions, recoveries and requests that overlap never make a task run twice:
\* not after a crash, a restart, or a second submission of its batch.
StartedOnce == \A t \in Tasks : starts[t] <= 1

\* An acknowledged batch is not forgotten: as long as a task of it is queued, the
\* manager that is up has it in its queue or is at it.
AcceptedIsScheduled ==
  \A b \in Batches :
    /\ Served
    /\ client[b] = "accepted"
    /\ \E t \in TasksOf(b) : status[t] = "queued"
    => b = current \/ b \in ToSet(queue)

\* Without dying workers: once the manager serves, a task that is stored as running
\* is one of the batch that it is running, so recovery leaves no zombie.
RunningIsAttended ==
  \A t \in Tasks :
    Served /\ status[t] = "running" =>
      draining /\ current = run /\ t \in TasksOf(run) /\ t \notin ToSet(pending)

\* Foreground and background share the budget: the manager's workers run only
\* under the scheduler's lock, and never more of them than the budget allows.
WorkersBounded ==
  /\ Cardinality({t \in Tasks : Alive(t)}) <= Workers
  /\ (\E t \in Tasks : Alive(t)) => lock = "this"

\* A retry is of a task that has ended without success, and that stays so: no
\* file is transcribed by both.
RetryIsOfUnfinished ==
  \A t \in Tasks : retryOf[t] # NoTask =>
    status[retryOf[t]] \in {"failed", "interrupted", "cancelled"}

\* A batch that waits for ever: the manager serves and has nothing to do, yet the
\* batch is stored as running (solution.md:327: failed, cancelled and skipped
\* tasks "must not make the batch display running for ever").
NoBatchRunsForEver ==
  \A b \in Batches :
    /\ manager = "serving" /\ ~draining /\ call = NoCall
    /\ \A t \in TasksOf(b) : status[t] \in Terminal
    => bstatus[b] # "running"

\* solution.md:222: the cancellation of a queued task takes effect at once;
\* implementation plan, line 595: a terminal state is never left.
CancelledStaysCancelled ==
  [][\A t \in Tasks : status[t] = "cancelled" => status'[t] = "cancelled"]_vars

\* jobs.py:53 gives "succeeded" no successor, and solution.md:223 says that a
\* state must not be lost: a task that has succeeded stays so.
SucceededStays ==
  [][\A t \in Tasks : status[t] = "succeeded" => status'[t] = "succeeded"]_vars

\* tests/test_cli.py:584: when the command reports a batch as not submitted, the
\* batch is still queued (line 555: "without false submission").
NotSubmittedIsQueued ==
  [][\A b \in Batches :
       client[b] # "refused" /\ client'[b] = "refused" => bstatus'[b] = "queued"]_vars

\* Every batch in the queue gets its run, and the run ends, however the batches before
\* it end (cancelled, refused the lock, with a broken pool), unless the guard finds the
\* machine busy again and again with no worker to wait for.
QueueDrains ==
  \/ \A b \in Batches : b = current \/ b \in ToSet(queue) ~> b # current /\ b \notin ToSet(queue)
  \/ []<>(pc = "blocked")

\* Every task of an acknowledged batch ends, though the manager crashes
\* (solution.md:223) or is stopped, if only somebody starts it again and the guard
\* does not find the machine busy for ever.
AcceptedFinishes ==
  \/ \A b \in Batches : client[b] = "accepted" ~>
       \A t \in TasksOf(b) : status[t] \in Terminal
  \/ <>[](manager \in {"down", "crashed"})
  \/ []<>(pc = "blocked")
=============================================================================
