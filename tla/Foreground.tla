----------------------------- MODULE Foreground -----------------------------
(***************************************************************************)
(* A foreground transcribe command (cli.py, _run_discovered): the batch is *)
(* persisted, the scheduler runs it inside the command, and the command    *)
(* turns the outcome into an exit code.  Meanwhile the user may press      *)
(* Ctrl+C, worker processes may die and another scheduler (of a background *)
(* manager or another command) may hold the lock.                          *)
(***************************************************************************)
EXTENDS Scheduler

CONSTANTS
  Batch,      \* the batch of the command
  Order       \* its tasks, in input order

ASSUME OrderAssumption == Batch \in Batches /\ Order \in Seq(Tasks) /\ Order # <<>>

VARIABLES
  interrupted,  \* Ctrl+C has been pressed
  exit          \* how the command ended

vars == <<schedVars, interrupted, exit>>

OfBatch == ToSet(Order)

\* The tasks and then the batch have been written and run_batch is called.
Init ==
  /\ taskIds = [b \in Batches |-> IF b = Batch THEN Order ELSE <<>>]
  /\ status = [t \in Tasks |-> "queued"]
  /\ bstatus = [b \in Batches |-> "queued"]
  /\ lock = "free"
  /\ pc = "lock"
  /\ run = Batch
  /\ pending = Order
  /\ active = {} /\ done = {}
  /\ outcomes = [t \in Tasks |-> NoFuture]
  /\ worker = [t \in Tasks |-> "none"]
  /\ future = [t \in Tasks |-> NoFuture]
  /\ broken = FALSE
  /\ cancel = {}
  /\ deaths = 0
  /\ interrupted = FALSE
  /\ exit = "none"

\* SIGINT to the process group, before run_batch has the lock, in its loop (the pool
\* is then waited for), or when the pool has been waited for.  KeyboardInterrupt
\* leaves run_batch; what it does to the wait itself is CtrlCInWait, below.
CtrlC ==
  /\ ~interrupted
  /\ \/ pc = "lock" /\ pc' = "raised" /\ UNCHANGED <<store, lock, locals, pool, cancel>>
     \/ pc \in Loop /\ pc' = "unwind" /\ UNCHANGED <<store, lock, locals, pool, cancel>>
     \/ Exit("leave", "raised") /\ UNCHANGED bstatus
     \/ Exit("unwind", "raised") /\ UNCHANGED bstatus
  /\ interrupted' = TRUE
  /\ UNCHANGED exit

\* The worker processes are in the group too; a worker thread is not reached.
InterruptWorker(t) ==
  /\ interrupted /\ Processes
  /\ Work(t, Unsettled, "finished",
          IF status[t] \in Live THEN "cancelled" ELSE status[t])
  /\ UNCHANGED <<interrupted, exit>>

\* report_progress raises, for the console cannot be written, or the store fails:
\* the error leaves the loop, or what follows it.
ReportRaises ==
  /\ \/ pc \in Loop /\ pc' = "unwind" /\ UNCHANGED lock
     \/ Exit("leave", "raised")
  /\ UNCHANGED <<store, locals, pool, cancel, interrupted, exit>>

\* Ctrl+C where it is not expected: the first (after an error, or at the end) or a
\* second one ends the wait for the pool, and one that is delivered in
\* future.result() counts as the failure of its task.
CtrlCInWait ==
  /\ pc \in {"leave", "unwind"}
  /\ interrupted' = TRUE
  /\ pc' = "raised" /\ lock' = "free"
  /\ UNCHANGED <<store, locals, pool, cancel, exit>>

CtrlCSwallowed(t) ==
  /\ ~interrupted /\ pc = "collect" /\ t \in done
  /\ interrupted' = TRUE
  /\ active' = active \ {t} /\ done' = done \ {t}
  /\ pc' = IF status[t] \in Live THEN "mark failed" ELSE pc
  /\ outcomes' = [outcomes EXCEPT ![t] = IF status[t] \in Live THEN "raised" ELSE "failed"]
  /\ UNCHANGED <<store, lock, run, pending, pool, cancel, exit>>

\* Mutant of ExitInterrupted: the batch is not aggregated.
ExitWithoutAggregate ==
  /\ pc = "raised" /\ interrupted /\ exit = "none"
  /\ status' = [t \in Tasks |-> IF t \in OfBatch /\ status[t] \in Live
                                THEN "cancelled" ELSE status[t]]
  /\ exit' = "130"
  /\ UNCHANGED <<taskIds, bstatus, lock, pc, locals, pool, cancel, interrupted>>

\* except KeyboardInterrupt: whatever is left is cancelled.
ExitInterrupted ==
  /\ pc = "raised" /\ interrupted /\ exit = "none"
  /\ status' = [t \in Tasks |-> IF t \in OfBatch /\ status[t] \in Live
                                THEN "cancelled" ELSE status[t]]
  /\ bstatus' = [bstatus EXCEPT ![Batch] = Aggregate(Batch, status')]
  /\ exit' = "130"
  /\ UNCHANGED <<taskIds, lock, pc, locals, pool, cancel, interrupted>>

\* except Exception: the store is left as it is.
ExitError ==
  /\ pc = "raised" /\ ~interrupted /\ exit = "none"
  /\ exit' = "4"
  /\ UNCHANGED <<schedVars, interrupted>>

\* _batch_exit_code of the outcomes; 2 and 3 both stand for a failed task.
ExitNormally ==
  /\ pc = "returned" /\ exit = "none"
  /\ LET codes == {outcomes[t] : t \in OfBatch} IN
       exit' = CASE "cancelled" \in codes -> "130"
                 [] "failed" \in codes    -> "2 or 3"
                 [] OTHER                 -> "0"
  /\ UNCHANGED <<schedVars, interrupted>>

Command == ExitInterrupted \/ ExitError \/ ExitNormally

Scheduling ==
  /\ RunBatch \/ Pool \/ \E t \in Tasks : Worker(t)
  /\ UNCHANGED <<interrupted, exit>>

Next ==
  \/ Scheduling
  \/ Command
  \/ \E t \in Tasks : Mishap(t) /\ UNCHANGED <<interrupted, exit>>
  \/ CtrlC
  \/ \E t \in Tasks : InterruptWorker(t)
  \/ ReportRaises
  \/ Other /\ UNCHANGED <<interrupted, exit>>

Spec == Init /\ [][Next]_vars

\* The same with every Ctrl+C.
NextCtrlC == Next \/ CtrlCInWait \/ \E t \in Tasks : CtrlCSwallowed(t)
CtrlCSpec == Init /\ [][NextCtrlC]_vars

\* The scheduling thread runs, workers go on, and none reports for ever without one
\* that ends (there are finitely many to end).  Nothing is assumed of the resource guard
\* or of another scheduler.
FairSpec ==
  /\ Spec
  /\ WF_vars(RunBatch /\ UNCHANGED <<interrupted, exit>>)
  /\ \A t \in Tasks : WF_vars(Worker(t) /\ UNCHANGED <<interrupted, exit>>)
  /\ SF_vars(\E t \in Tasks : LastReport(t) /\ UNCHANGED <<interrupted, exit>>)
  /\ WF_vars(Pool /\ UNCHANGED <<interrupted, exit>>)
  /\ WF_vars(Command)

-----------------------------------------------------------------------------
TypeOK ==
  /\ status \in [Tasks -> Status]
  /\ bstatus \in [Batches -> {"queued", "running", "failed", "cancelled", "succeeded"}]
  /\ lock \in {"free", "this", "other"}
  /\ pc \in Loop \cup {"lock", "leave", "unwind", "returned", "raised"}
  /\ run = Batch
  /\ pending \in Seq(Tasks)
  /\ active \subseteq Tasks /\ done \subseteq active
  /\ outcomes \in [Tasks -> {NoFuture, "raised", "succeeded", "failed", "cancelled"}]
  /\ worker \in [Tasks -> Unsettled \cup {"none", "finished", "gone"}]
  /\ future \in [Tasks -> {NoFuture, "pending", "raised", "succeeded", "failed",
                           "cancelled"}]
  /\ broken \in BOOLEAN /\ interrupted \in BOOLEAN
  /\ cancel = {} /\ deaths \in 0..MaxDeaths
  /\ exit \in {"none", "0", "130", "2 or 3", "4"}

\* Whatever dies, raises or is interrupted before the pool is waited for, never more
\* workers than the budget allows touch the store, and none outlives the scheduler's
\* hold of the lock.
WorkersBounded ==
  /\ Cardinality({t \in Tasks : Alive(t)}) <= Workers
  /\ (\E t \in Tasks : Alive(t)) => lock = "this"

\* Exit code 0 is never a lie, and a command that does not end in an error
\* leaves the batch record in agreement with the records of its tasks, also when
\* workers die and the pool breaks.
ExitIsHonest ==
  exit \in {"0", "2 or 3", "130"} =>
    /\ bstatus[Batch] = Aggregate(Batch, status)
    /\ exit = "0" => bstatus[Batch] = "succeeded"

\* A command that ends normally or by Ctrl+C leaves no task open, unless a worker
\* died: then a sibling may have written last.
NothingLeftOpen ==
  exit \in {"0", "2 or 3", "130"} /\ deaths = 0 => \A t \in OfBatch : status[t] \in Terminal

\* Until the pool breaks, scheduler, workers and Ctrl+C handler together take each
\* task only along the edges of the transition table, though none of them holds
\* a lock between its load and its write.
StatusMovesForward ==
  [][~broken => \A t \in Tasks :
       status'[t] # status[t] => <<status[t], status'[t]>> \in Edge]_vars

\* The command ends, unless the guard finds the machine busy again and again with
\* no worker to wait for: no interleaving of the pool, the lock and Ctrl+C leaves
\* run_batch waiting.
CommandEnds == <>(exit # "none") \/ []<>(pc = "blocked")

\* docs/design/solution.md:215: the foreground command "waits for the batch to
\* reach a terminal state"; 241: "a single file that fails does not keep the
\* other files from continuing".
NoTaskLeftBehind == exit # "none" => \A t \in OfBatch : status[t] \in Terminal

\* Implementation plan, line 595: terminal states must not enter running again.
TerminalStays ==
  [][\A t \in Tasks : status[t] \in Terminal => status'[t] # "running"]_vars

\* The same line: Ctrl+C "exits with code 130".
CtrlCExits130 == interrupted /\ exit # "none" => exit = "130"

\* docs/user-guide.md:193: Ctrl+C "requests cancellation of the current
\* batch" (implementation plan, line 704: cooperatively); no task succeeds
\* after it.
CtrlCCancels ==
  [][interrupted => \A t \in OfBatch :
       status'[t] = "succeeded" => status[t] = "succeeded"]_vars
=============================================================================
