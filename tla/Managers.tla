------------------------------ MODULE Managers ------------------------------
(***************************************************************************)
(* Several manager processes on one runtime directory (daemon.py, ipc.py): *)
(* who holds manager.lock, whose socket stands under the path that clients *)
(* connect to, and whose drain thread is still at work.  A manager that    *)
(* leaves by an exception (a lost client, Ctrl+C in "worker run") waits    *)
(* two seconds for its drain thread and then gives up socket and lock; the *)
(* process lives on until the thread has emptied the queue.  Meanwhile a   *)
(* successor may start.                                                    *)
(*                                                                         *)
(* A batch is one task here, and a run of it three steps under the         *)
(* scheduler's lock; Background has the rest for a single manager.         *)
(***************************************************************************)
EXTENDS Naturals, SequencesExt

CONSTANTS
  Procs,       \* manager processes that may run at once
  Tasks,       \* tasks, each a batch of its own
  MaxStarts,   \* bound on the number of process starts
  MaxCrashes   \* bound on the number of crashes

ASSUME BoundsAssumption == MaxStarts \in Nat /\ MaxCrashes \in Nat

VARIABLES
  pc,       \* where the main thread of each process is
  lock,     \* the holder of manager.lock
  path,     \* the process whose socket stands under worker.sock
  open,     \* the processes that listen on their socket
  queue,    \* the queue of each drain thread,
  current,  \* the batch it has called run_batch for,
  running,  \* and whether its worker has started the task
  sched,    \* the holder of scheduler.lock
  status,   \* the stored status of each task
  starts, crashes,
  runs      \* how often each task has been transcribed (history)

serverVars == <<lock, path, open>>
drainVars  == <<queue, current, running, sched>>
history    == <<starts, crashes, runs>>
vars       == <<pc, serverVars, drainVars, status, history>>

Nobody == "nobody"
NoTask == "no task"

ASSUME NobodyAssumption == Nobody \notin Procs /\ NoTask \notin Tasks

Init ==
  /\ pc = [m \in Procs |-> "gone"]
  /\ lock = Nobody /\ path = Nobody /\ open = {}
  /\ queue = [m \in Procs |-> <<>>]
  /\ current = [m \in Procs |-> NoTask]
  /\ running = [m \in Procs |-> FALSE]
  /\ sched = Nobody
  /\ status = [t \in Tasks |-> "absent"]
  /\ starts = 0 /\ crashes = 0
  /\ runs = [t \in Tasks |-> 0]

Drained(m) == queue[m] = <<>> /\ current[m] = NoTask

Goto(m, p, q) == pc[m] = p /\ pc' = [pc EXCEPT ![m] = q]

-----------------------------------------------------------------------------
(* The main thread: __init__, run, close.                                  *)

Start(m) ==
  /\ Goto(m, "gone", "lock")
  /\ starts < MaxStarts
  /\ starts' = starts + 1
  /\ UNCHANGED <<serverVars, drainVars, status, crashes, runs>>

TakeLock(m) ==
  /\ Goto(m, "lock", "unlink")
  /\ lock = Nobody
  /\ lock' = m
  /\ UNCHANGED <<path, open, drainVars, status, history>>

\* ManagerAlreadyRunning
Refused(m) ==
  /\ Goto(m, "lock", "gone")
  /\ lock # Nobody
  /\ UNCHANGED <<serverVars, drainVars, status, history>>

\* UnixIPCServer.__init__: whatever stands under the path is taken away ...
Unlink(m) ==
  /\ Goto(m, "unlink", "bind")
  /\ path' = Nobody
  /\ UNCHANGED <<lock, open, drainVars, status, history>>

\* ... and bind, which fails if something is there again, puts a new one.
Bind(m) ==
  /\ Goto(m, "bind", "recover")
  /\ path = Nobody
  /\ path' = m /\ open' = open \cup {m}
  /\ UNCHANGED <<lock, drainVars, status, history>>

\* _recover: what is stored as running is interrupted, what is queued is queued.
Recover(m) ==
  /\ Goto(m, "recover", "serve")
  /\ status' = [t \in Tasks |-> IF status[t] = "running" THEN "interrupted" ELSE status[t]]
  /\ queue' = [queue EXCEPT ![m] = SetToSeq({t \in Tasks : status[t] = "queued"})]
  /\ UNCHANGED <<serverVars, current, running, sched, history>>

\* A client stores a batch, connects to the path and submits it; a submission of
\* a batch that is queued already changes nothing.
Submit(m, t) ==
  /\ pc[m] = "serve" /\ path = m
  /\ status[t] \in {"absent", "queued"}
  /\ status' = [status EXCEPT ![t] = "queued"]
  /\ queue' = [queue EXCEPT ![m] =
       IF t = current[m] \/ Contains(@, t) THEN @ ELSE Append(@, t)]
  /\ UNCHANGED <<pc, serverVars, current, running, sched, history>>

\* A client that did not reach a manager leaves its batch stored.
StoreOnly(t) ==
  /\ status[t] = "absent"
  /\ status' = [status EXCEPT ![t] = "queued"]
  /\ UNCHANGED <<pc, serverVars, drainVars, history>>

\* run ends when it is told to and the drain thread has ended, or by an exception,
\* and then the thread has two seconds.
Stop(m) ==
  /\ Drained(m)
  /\ Goto(m, "serve", "close")
  /\ UNCHANGED <<serverVars, drainVars, status, history>>

Raise(m) ==
  /\ Goto(m, "serve", "close")
  /\ UNCHANGED <<serverVars, drainVars, status, history>>

\* Mutant of CloseServer: the lock is given up before the socket.
CloseServerUnlocked(m) ==
  /\ Goto(m, "close", "unlink path")
  /\ open' = open \ {m}
  /\ lock' = Nobody
  /\ UNCHANGED <<path, drainVars, status, history>>

\* close: the server ...
CloseServer(m) ==
  /\ Goto(m, "close", "unlink path")
  /\ open' = open \ {m}
  /\ UNCHANGED <<lock, path, drainVars, status, history>>

\* ... its path, whoever is bound to it ...
UnlinkPath(m) ==
  /\ Goto(m, "unlink path", "unlock")
  /\ path' = Nobody
  /\ UNCHANGED <<lock, open, drainVars, status, history>>

\* ... and the lock.
Unlock(m) ==
  /\ Goto(m, "unlock", "exit")
  /\ lock' = IF lock = m THEN Nobody ELSE lock
  /\ UNCHANGED <<path, open, drainVars, status, history>>

\* The interpreter waits for the drain thread.
Exit(m) ==
  /\ Drained(m)
  /\ Goto(m, "exit", "gone")
  /\ UNCHANGED <<serverVars, drainVars, status, history>>

\* The process dies; the locks go with it, the socket's path stays.
Crash(m) ==
  /\ pc[m] # "gone" /\ crashes < MaxCrashes
  /\ crashes' = crashes + 1
  /\ pc' = [pc EXCEPT ![m] = "gone"]
  /\ lock' = IF lock = m THEN Nobody ELSE lock
  /\ open' = open \ {m}
  /\ queue' = [queue EXCEPT ![m] = <<>>]
  /\ current' = [current EXCEPT ![m] = NoTask]
  /\ running' = [running EXCEPT ![m] = FALSE]
  /\ sched' = IF sched = m THEN Nobody ELSE sched
  /\ UNCHANGED <<path, status, starts, runs>>

-----------------------------------------------------------------------------
(* The drain thread and the run of a batch.                                *)

\* run_batch raises when another scheduler has the lock, and the batch is dropped.
Dequeue(m) ==
  /\ queue[m] # <<>> /\ current[m] = NoTask
  /\ queue' = [queue EXCEPT ![m] = Tail(@)]
  /\ IF sched = Nobody
     THEN sched' = m /\ current' = [current EXCEPT ![m] = Head(queue[m])]
     ELSE UNCHANGED <<sched, current>>
  /\ UNCHANGED <<pc, serverVars, running, status, history>>

\* Mutant of Work: a task is started whatever is stored for it.
WorkAnyway(m) ==
  /\ current[m] # NoTask /\ ~running[m]
  /\ status' = [status EXCEPT ![current[m]] = "running"]
  /\ running' = [running EXCEPT ![m] = TRUE]
  /\ runs' = [runs EXCEPT ![current[m]] = @ + 1]
  /\ UNCHANGED <<pc, serverVars, queue, current, sched, starts, crashes>>

\* The worker starts a task that is stored as queued.
Work(m) ==
  /\ current[m] # NoTask /\ ~running[m]
  /\ status[current[m]] = "queued"
  /\ status' = [status EXCEPT ![current[m]] = "running"]
  /\ running' = [running EXCEPT ![m] = TRUE]
  /\ runs' = [runs EXCEPT ![current[m]] = @ + 1]
  /\ UNCHANGED <<pc, serverVars, queue, current, sched, starts, crashes>>

\* The task ends, or was not to be started; a terminal status is not changed.
Finish(m) ==
  /\ current[m] # NoTask
  /\ running[m] \/ status[current[m]] # "queued"
  /\ status' = IF running[m] /\ status[current[m]] = "running"
               THEN [status EXCEPT ![current[m]] = "succeeded"] ELSE status
  /\ running' = [running EXCEPT ![m] = FALSE]
  /\ current' = [current EXCEPT ![m] = NoTask]
  /\ sched' = Nobody
  /\ UNCHANGED <<pc, serverVars, queue, history>>

Main(m) ==
  \/ TakeLock(m) \/ Refused(m) \/ Unlink(m) \/ Bind(m) \/ Recover(m)
  \/ CloseServer(m) \/ UnlinkPath(m) \/ Unlock(m) \/ Exit(m)

Drain(m) == Dequeue(m) \/ Work(m) \/ Finish(m)

Next ==
  \/ \E m \in Procs :
       \/ Start(m) \/ Main(m) \/ Stop(m) \/ Raise(m) \/ Crash(m) \/ Drain(m)
       \/ \E t \in Tasks : Submit(m, t)
  \/ \E t \in Tasks : StoreOnly(t)

Spec == Init /\ [][Next]_vars
-----------------------------------------------------------------------------
\* A manager that serves can be reached: its socket is the one under the path, and
\* no process that is leaving, has crashed or starts beside it takes that away.
ServingIsReachable ==
  \A m \in Procs : pc[m] = "serve" => path = m /\ m \in open /\ lock = m

\* A leaving manager and its successor may have the same task in their queues, and
\* its batch may be submitted to both: it is transcribed at most once.
TranscribedOnce == \A t \in Tasks : runs[t] <= 1

\* solution.md:221: a task that is found "running" after an interruption is
\* interrupted.  The successor of a manager that is still draining takes a task that
\* is being transcribed for one.
LiveIsNotInterrupted ==
  \A m \in Procs : running[m] => status[current[m]] = "running"
=============================================================================
