-------------------------- MODULE Foreground_proofs --------------------------
(* The workers of a foreground command, for any number of tasks, workers,  *)
(* deaths and whatever raises: the budget and the lock hold.               *)
EXTENDS Foreground, FiniteSetTheorems, TLAPS

Alives == {t \in Tasks : Alive(t)}

\* A step of a live worker: a load, a write, or its end.
Writes(t) ==
  \/ Load(t) \/ Start(t) \/ ReportLoad(t) \/ ReportWrite(t)
  \/ EndLoad(t) \/ End(t) \/ GiveUp(t)

\* Where run_batch is inside its with statement.
Inside == Loop \cup {"leave", "unwind"}

\* The lock is held inside the with statement, and only there workers live.
LockHeld ==
  /\ pc \in Inside => lock = "this"
  /\ \A t \in Tasks : Alive(t) => pc \in Inside

\* As long as the pool is not broken, whoever lives has a pending future that
\* active still holds; what is done is not pending.
ActiveHoldsAlive ==
  /\ pc \in {"lock", "fill", "blocked", "wait"} => done = {}
  /\ \A t \in done : future[t] # "pending"
  /\ ~broken => \A t \in Tasks : Alive(t) => t \in active /\ future[t] = "pending"

ActiveBounded == Cardinality(active) <= Workers
AliveBounded  == Cardinality(Alives) <= Workers

IInv == TypeOK /\ LockHeld /\ ActiveHoldsAlive /\ ActiveBounded /\ AliveBounded

-----------------------------------------------------------------------------
(* Types.                                                                  *)

LEMMA AggregateType ==
  ASSUME NEW b, NEW st
  PROVE  Aggregate(b, st) \in {"running", "failed", "cancelled", "succeeded"}
BY DEF Aggregate

LEMMA ReportType ==
  ASSUME TypeOK, Report \/ bstatus' = bstatus \/ bstatus' = Aggregated
  PROVE  bstatus' \in [Batches -> {"queued", "running", "failed", "cancelled", "succeeded"}]
<1>1. Aggregate(run, status) \in {"queued", "running", "failed", "cancelled", "succeeded"}
  BY AggregateType
<1> QED
  BY <1>1 DEF Report, Aggregated, TypeOK

LEMMA PendingType ==
  ASSUME TypeOK, Room
  PROVE  Head(pending) \in Tasks /\ Tail(pending) \in Seq(Tasks)
<1>1. pending \in Seq(Tasks) /\ pending # <<>>
  BY DEF Room, TypeOK
<1> QED
  BY <1>1

LEMMA TypeInit == Init => TypeOK
<1> SUFFICES ASSUME Init PROVE TypeOK
  OBVIOUS
<1>1. status \in [Tasks -> Status]
  BY DEF Init, Status, Live, Terminal
<1>2. deaths \in 0..MaxDeaths
  BY MaxDeathsAssumption DEF Init
<1>3. broken \in BOOLEAN /\ interrupted \in BOOLEAN
  BY Zenon DEF Init
<1> QED
  BY <1>1, <1>2, <1>3, OrderAssumption DEF Init, TypeOK

LEMMA SchedulingType ==
  ASSUME TypeOK, ActiveHoldsAlive, RunBatch, UNCHANGED <<interrupted, exit>>
  PROVE  TypeOK'
<1> USE DEF Loop
<1>1. CASE Acquire
  BY <1>1 DEF Acquire, store, locals, pool, TypeOK
<1>2. CASE LockBusy
  BY <1>2 DEF LockBusy, store, locals, pool, TypeOK
<1>3. CASE Submit
  <2>1. Head(pending) \in Tasks /\ Tail(pending) \in Seq(Tasks)
    BY <1>3, PendingType DEF Submit
  <2>2. bstatus' \in [Batches -> {"queued", "running", "failed", "cancelled", "succeeded"}]
    BY <1>3, ReportType DEF Submit
  <2> QED
    BY <1>3, <2>1, <2>2 DEF Submit, TypeOK, Unsettled
<1>4. CASE SubmitRaises
  <2>1. Tail(pending) \in Seq(Tasks)
    BY <1>4, PendingType DEF SubmitRaises
  <2> QED
    BY <1>4, <2>1 DEF SubmitRaises, store, pool, TypeOK
<1>5. CASE StopFilling
  BY <1>5 DEF StopFilling, store, locals, pool, TypeOK
<1>6. CASE Wait
  <2>1. bstatus' \in [Batches -> {"queued", "running", "failed", "cancelled", "succeeded"}]
    BY <1>6, ReportType DEF Wait
  <2> QED
    BY <1>6, <2>1 DEF Wait, pool, TypeOK
<1>7. ASSUME NEW t \in Tasks, Collect(t) PROVE TypeOK'
  <2>1. future[t] \in {NoFuture, "raised", "succeeded", "failed", "cancelled"}
    BY <1>7 DEF Collect, TypeOK, ActiveHoldsAlive
  <2>2. outcomes' \in [Tasks -> {NoFuture, "raised", "succeeded", "failed", "cancelled"}]
    BY <1>7, <2>1 DEF Collect, TypeOK
  <2>3. /\ active' \subseteq Tasks /\ done' \subseteq active'
        /\ pc' \in {"collect", "mark failed"}
    BY <1>7 DEF Collect, TypeOK
  <2> QED
    BY <1>7, <2>2, <2>3 DEF Collect, store, pool, TypeOK
<1>8. ASSUME NEW t \in Tasks, MarkFailed(t) PROVE TypeOK'
  BY <1>8 DEF MarkFailed, store, locals, pool, TypeOK
<1>12. CASE Block \/ SampleAgain
  BY <1>12 DEF Block, SampleAgain, store, locals, pool, TypeOK
<1>13. ASSUME NEW t \in Tasks, MarkWrite(t) PROVE TypeOK'
  BY <1>13 DEF MarkWrite, pool, TypeOK, Status, Terminal
<1>9. CASE EndOfRound
  <2>1. bstatus' \in [Batches -> {"queued", "running", "failed", "cancelled", "succeeded"}]
    BY <1>9, ReportType DEF EndOfRound
  <2> QED
    BY <1>9, <2>1 DEF EndOfRound, locals, pool, TypeOK
<1>10. CASE Leave
  <2>1. bstatus' \in [Batches -> {"queued", "running", "failed", "cancelled", "succeeded"}]
    BY <1>10, ReportType DEF Leave
  <2> QED
    BY <1>10, <2>1 DEF Leave, Exit, locals, pool, TypeOK
<1>11. CASE Unwind
  BY <1>11 DEF Unwind, Exit, locals, pool, TypeOK
<1> QED
  BY <1>1, <1>2, <1>3, <1>4, <1>5, <1>6, <1>7, <1>8, <1>9, <1>10, <1>11, <1>12, <1>13 DEF RunBatch

\* A step of a worker.
LEMMA WorkType ==
  ASSUME TypeOK, NEW t \in Tasks, NEW from, NEW s \in Status,
         NEW to \in {"loaded", "running", "reporting", "failing", "ending", "finished"}, Work(t, from, to, s),
         UNCHANGED <<interrupted, exit>>
  PROVE  TypeOK'
BY ZenonT(60) DEF Work, locals, TypeOK, Unsettled

LEMMA DeathCounts ==
  ASSUME TypeOK, NEW t \in Tasks, Die(t)
  PROVE  deaths' \in 0..MaxDeaths /\ deaths' # 0
<1>1. deaths \in 0..MaxDeaths
  BY DEF TypeOK
<1>2. deaths' = deaths + 1 /\ deaths < MaxDeaths
  BY DEF Die
<1> QED
  BY <1>1, <1>2, MaxDeathsAssumption

\* Every step but the scheduling ones.
LEMMA OtherType ==
  ASSUME TypeOK, NEW t \in Tasks,
         \/ /\ Worker(t) \/ Pool \/ Mishap(t) \/ Other
            /\ UNCHANGED <<interrupted, exit>>
         \/ CtrlC \/ ReportRaises \/ InterruptWorker(t)
  PROVE  TypeOK'
<1>1. ASSUME UNCHANGED <<interrupted, exit>>, Worker(t) PROVE TypeOK'
  <2>1. CASE Load(t)
    BY <1>1, <2>1, WorkType DEF Load, TypeOK
  <2>2. CASE Start(t)
    BY <1>1, <2>2, WorkType DEF Start, Status, Live
  <2>3. CASE EndLoad(t)
    BY <1>1, <2>3, WorkType DEF EndLoad, TypeOK
  <2>4. CASE End(t)
    BY <1>1, <2>4, WorkType DEF End, Status, Terminal
  <2>5. CASE GiveUp(t)
    BY <1>1, <2>5, WorkType DEF GiveUp, TypeOK
  <2>6. CASE Return(t)
    BY <1>1, <2>6, ZenonT(60) DEF Return, store, locals, TypeOK
  <2>7. CASE ReportLoad(t)
    BY <1>1, <2>7, WorkType DEF ReportLoad, TypeOK
  <2>8. CASE ReportWrite(t)
    BY <1>1, <2>8, WorkType DEF ReportWrite, Status, Live
  <2> QED
    BY <1>1, <2>1, <2>2, <2>3, <2>4, <2>5, <2>6, <2>7, <2>8 DEF Worker
<1>2. ASSUME UNCHANGED <<interrupted, exit>>, Pool PROVE TypeOK'
  <2>1. CASE Break
    <3>1. broken' \in BOOLEAN
      BY <2>1, Zenon DEF Break
    <3> QED
      BY <1>2, <2>1, <3>1 DEF Break, store, locals, TypeOK
  <2>2. ASSUME NEW u \in Tasks, FailFuture(u) PROVE TypeOK'
    BY <1>2, <2>2 DEF FailFuture, store, locals, TypeOK
  <2>3. ASSUME NEW u \in Tasks, Terminate(u) PROVE TypeOK'
    BY <1>2, <2>3 DEF Terminate, store, locals, TypeOK
  <2> QED
    BY <1>2, <2>1, <2>2, <2>3 DEF Pool
<1>3. ASSUME UNCHANGED <<interrupted, exit>>, Mishap(t) PROVE TypeOK'
  <2>1. CASE Escape(t)
    BY <1>3, <2>1 DEF Escape, store, locals, TypeOK
  <2>2. CASE Die(t)
    BY <1>3, <2>2, DeathCounts DEF Die, store, locals, TypeOK
  <2> QED
    BY <1>3, <2>1, <2>2 DEF Mishap
<1>4. ASSUME UNCHANGED <<interrupted, exit>>, Other PROVE TypeOK'
  BY <1>4 DEF Other, OtherAcquire, OtherRelease, store, locals, pool, TypeOK
<1>5. CASE CtrlC
  <2>1. interrupted' \in BOOLEAN
    BY <1>5, Zenon DEF CtrlC
  <2> QED
    BY <1>5, <2>1 DEF CtrlC, Exit, Loop, store, locals, pool, TypeOK
<1>6. CASE ReportRaises
  BY <1>6 DEF ReportRaises, Exit, Loop, store, locals, pool, TypeOK
<1>7. CASE InterruptWorker(t)
  <2>1. (IF status[t] \in Live THEN "cancelled" ELSE status[t]) \in Status
    BY DEF TypeOK, Status, Terminal
  <2> QED
    BY <1>7, <2>1, WorkType DEF InterruptWorker
<1> QED
  BY <1>1, <1>2, <1>3, <1>4, <1>5, <1>6, <1>7

\* The end of the command.
LEMMA CommandType ==
  ASSUME TypeOK, Command
  PROVE  TypeOK'
<1>1. CASE ExitInterrupted
  <2>1. status' \in [Tasks -> Status]
    BY <1>1 DEF ExitInterrupted, TypeOK, Status, Terminal
  <2>2. bstatus' \in [Batches -> {"queued", "running", "failed", "cancelled", "succeeded"}]
    <3>1. Aggregate(Batch, status') \in {"running", "failed", "cancelled", "succeeded"}
      BY AggregateType
    <3> QED
      BY <1>1, <3>1 DEF ExitInterrupted, TypeOK
  <2> QED
    BY <1>1, <2>1, <2>2 DEF ExitInterrupted, locals, pool, TypeOK
<1>2. CASE ExitError
  BY <1>2 DEF ExitError, schedVars, store, locals, pool, TypeOK
<1>3. CASE ExitNormally
  <2>1. exit' \in {"130", "2 or 3", "0"}
    BY <1>3 DEF ExitNormally
  <2> QED
    BY <1>3, <2>1 DEF ExitNormally, schedVars, store, locals, pool, TypeOK
<1> QED
  BY <1>1, <1>2, <1>3 DEF Command

-----------------------------------------------------------------------------
(* The lock and the workers.                                               *)

\* A step that lets no worker live that did not live before keeps their number.
LEMMA NoMoreAlive ==
  ASSUME AliveBounded, \A t \in Tasks : Alive(t)' => Alive(t)
  PROVE  AliveBounded'
<1>1. IsFiniteSet(Alives)
  BY TasksAssumption, FS_Subset DEF Alives
<1>2. Alives' \subseteq Alives
  BY DEF Alives
<1>3. Cardinality(Alives') <= Cardinality(Alives)
  BY <1>1, <1>2, FS_Subset
<1>4. Cardinality(Alives) \in Nat /\ Cardinality(Alives') \in Nat
  BY <1>1, <1>2, FS_Subset, FS_CardinalityType
<1> QED
  BY <1>3, <1>4, WorkersAssumption DEF AliveBounded

LEMMA NoMoreActive ==
  ASSUME TypeOK, ActiveBounded, active' \subseteq active
  PROVE  ActiveBounded'
<1>1. IsFiniteSet(active)
  BY TasksAssumption, FS_Subset DEF TypeOK
<1>2. Cardinality(active') <= Cardinality(active)
  BY <1>1, FS_Subset
<1>3. Cardinality(active) \in Nat /\ Cardinality(active') \in Nat
  BY <1>1, FS_Subset, FS_CardinalityType
<1> QED
  BY <1>2, <1>3, WorkersAssumption DEF ActiveBounded

\* A step that leaves run_batch, the pool and the lock alone, and lets at most the
\* workers that lived live on.
LEMMA WorkerStep ==
  ASSUME IInv, TypeOK', UNCHANGED <<pc, lock, active, done, future, broken>>,
         \A t \in Tasks : Alive(t)' => Alive(t)
  PROVE  IInv'
<1>1. LockHeld'
  BY DEF IInv, LockHeld
<1>2. ActiveHoldsAlive'
  BY DEF IInv, ActiveHoldsAlive
<1>3. ActiveBounded'
  BY DEF IInv, ActiveBounded
<1> QED
  BY <1>1, <1>2, <1>3, NoMoreAlive DEF IInv

LEMMA WorkLives ==
  ASSUME TypeOK, NEW t \in Tasks, NEW from, from \subseteq Unsettled, NEW to, NEW s,
         Work(t, from, to, s)
  PROVE  /\ \A u \in Tasks : Alive(u)' => Alive(u)
         /\ UNCHANGED <<pc, lock, active, done, future, broken>>
<1>1. /\ worker[t] \in Unsettled
      /\ worker' = [worker EXCEPT ![t] = to]
      /\ UNCHANGED <<pc, lock, active, done, future, broken>>
  BY DEF Work, locals
<1>2. ASSUME NEW u \in Tasks, Alive(u)' PROVE Alive(u)
  <2>1. CASE u = t
    BY <1>1, <2>1 DEF Alive, Unsettled
  <2>2. CASE u # t
    BY <1>1, <1>2, <2>2 DEF Alive, TypeOK
  <2> QED
    BY <2>1, <2>2
<1> QED
  BY <1>1, <1>2

LEMMA SubmitStep ==
  ASSUME IInv, TypeOK', Submit
  PROVE  IInv'
<1> DEFINE t == Head(pending)
<1>1. /\ pc = "fill" /\ ~broken /\ t \in Tasks /\ Cardinality(active) < Workers
      /\ active' = active \cup {t}
      /\ worker' = [worker EXCEPT ![t] = "submitted"]
      /\ future' = [future EXCEPT ![t] = "pending"]
      /\ UNCHANGED <<lock, pc, done, broken>>
  BY PendingType DEF IInv, Submit, Room
<1>2. \A u \in Tasks : Alive(u)' <=> u = t \/ Alive(u)
  BY <1>1, ZenonT(60) DEF Alive, IInv, TypeOK
<1>3. LockHeld'
  BY <1>1, <1>2 DEF IInv, LockHeld, Inside, Loop
<1>4. ActiveHoldsAlive'
  <2>1. done' = {}
    BY <1>1 DEF IInv, ActiveHoldsAlive
  <2>2. ASSUME NEW u \in Tasks, Alive(u)' PROVE u \in active' /\ future'[u] = "pending"
    <3>1. u = t \/ (u \in active /\ future[u] = "pending")
      BY <1>1, <1>2, <2>2 DEF IInv, ActiveHoldsAlive
    <3> QED
      BY <1>1, <3>1 DEF IInv, TypeOK
  <2> QED
    BY <1>1, <2>1, <2>2 DEF ActiveHoldsAlive
<1>5. ActiveBounded' /\ IsFiniteSet(active')
  <2>1. IsFiniteSet(active)
    BY TasksAssumption, FS_Subset DEF IInv, TypeOK
  <2>2. Cardinality(active') = IF t \in active THEN Cardinality(active) ELSE Cardinality(active) + 1
    BY <1>1, <2>1, FS_AddElement
  <2>3. Cardinality(active) \in Nat
    BY <2>1, FS_CardinalityType
  <2>4. IsFiniteSet(active')
    BY <1>1, <2>1, FS_AddElement
  <2>5. Cardinality(active) < Workers
    BY <1>1
  <2>6. Cardinality(active') <= Workers
    BY <2>2, <2>3, <2>5, WorkersAssumption
  <2> QED
    BY <2>4, <2>6 DEF ActiveBounded
<1>6. AliveBounded'
  <2>1. Alives' \subseteq active'
    BY <1>1, <1>4 DEF ActiveHoldsAlive, Alives
  <2>2. Cardinality(Alives') <= Cardinality(active')
    BY <1>5, <2>1, FS_Subset
  <2>3. Cardinality(Alives') \in Nat /\ Cardinality(active') \in Nat
    BY <1>5, <2>1, FS_Subset, FS_CardinalityType
  <2> QED
    BY <1>5, <2>2, <2>3, WorkersAssumption DEF AliveBounded, ActiveBounded
<1> QED
  BY <1>3, <1>4, <1>5, <1>6 DEF IInv

\* A step of the loop that starts no worker.
LEMMA LoopStep ==
  ASSUME IInv, TypeOK', LockHeld', ActiveHoldsAlive', active' \subseteq active,
         UNCHANGED worker
  PROVE  IInv'
<1>1. \A t \in Tasks : Alive(t)' => Alive(t)
  BY DEF Alive
<1> QED
  BY <1>1, NoMoreAlive, NoMoreActive DEF IInv

LEMMA SchedulingStep ==
  ASSUME IInv, TypeOK', RunBatch
  PROVE  IInv'
<1> USE DEF IInv, LockHeld, Inside, Loop, ActiveHoldsAlive, Alive
<1>1. CASE Acquire
  BY <1>1, LoopStep DEF Acquire, locals, pool
<1>2. CASE LockBusy
  BY <1>2, LoopStep DEF LockBusy, locals, pool
<1>3. CASE Submit
  BY <1>3, SubmitStep
<1>4. CASE SubmitRaises
  BY <1>4, LoopStep DEF SubmitRaises, pool
<1>5. CASE StopFilling
  BY <1>5, LoopStep DEF StopFilling, locals, pool
<1>6. CASE Wait
  BY <1>6, LoopStep DEF Wait, pool, TypeOK
<1>7. ASSUME NEW t \in Tasks, Collect(t) PROVE IInv'
  BY <1>7, LoopStep DEF Collect, pool
<1>8. ASSUME NEW t \in Tasks, MarkFailed(t) PROVE IInv'
  BY <1>8, LoopStep DEF MarkFailed, locals, pool
<1>12. CASE Block \/ SampleAgain
  BY <1>12, LoopStep DEF Block, SampleAgain, locals, pool
<1>13. ASSUME NEW t \in Tasks, MarkWrite(t) PROVE IInv'
  BY <1>13, LoopStep DEF MarkWrite, pool
<1>9. CASE EndOfRound
  BY <1>9, LoopStep DEF EndOfRound, locals, pool
<1>10. CASE Leave
  BY <1>10, LoopStep DEF Leave, Exit, locals, pool
<1>11. CASE Unwind
  BY <1>11, LoopStep DEF Unwind, Exit, locals, pool
<1> QED
  BY <1>1, <1>2, <1>3, <1>4, <1>5, <1>6, <1>7, <1>8, <1>9, <1>10, <1>11, <1>12, <1>13 DEF RunBatch

\* The future of a task is settled; the task's worker does not live then.
LEMMA SettleStep ==
  ASSUME IInv, TypeOK', NEW t \in Tasks, NEW f, f # "pending",
         future' = [future EXCEPT ![t] = f],
         UNCHANGED <<pc, lock, active, done, broken>>,
         \A u \in Tasks : Alive(u)' => Alive(u) /\ u # t
  PROVE  IInv'
<1>1. \A u \in Tasks : future'[u] = IF u = t THEN f ELSE future[u]
  BY DEF IInv, TypeOK
<1>2. LockHeld'
  BY DEF IInv, LockHeld
<1>3. ActiveHoldsAlive'
  <2>1. \A u \in done' : future'[u] # "pending"
    BY <1>1 DEF IInv, ActiveHoldsAlive, TypeOK
  <2>2. ASSUME ~broken', NEW u \in Tasks, Alive(u)' PROVE u \in active' /\ future'[u] = "pending"
    BY <1>1, <2>2 DEF IInv, ActiveHoldsAlive
  <2>3. pc' \in {"lock", "fill", "blocked", "wait"} => done' = {}
    BY DEF IInv, ActiveHoldsAlive
  <2> QED
    BY <2>1, <2>2, <2>3 DEF ActiveHoldsAlive
<1>4. ActiveBounded'
  BY DEF IInv, ActiveBounded
<1> QED
  BY <1>2, <1>3, <1>4, NoMoreAlive DEF IInv

LEMMA OtherStep ==
  ASSUME IInv, TypeOK', NEW t \in Tasks,
         Worker(t) \/ Pool \/ Mishap(t) \/ Other \/ CtrlC \/ ReportRaises \/ InterruptWorker(t)
  PROVE  IInv'
<1>1. CASE Writes(t) \/ InterruptWorker(t)
  <2>1. \E from \in SUBSET Unsettled : \E to, s : Work(t, from, to, s)
    BY <1>1 DEF Writes, Load, Start, ReportLoad, ReportWrite, EndLoad, End, GiveUp, InterruptWorker, Unsettled
  <2> QED
    BY <2>1, WorkLives, WorkerStep DEF IInv
<1>2. CASE Return(t)
  <2>1. \A u \in Tasks : Alive(u)' => Alive(u) /\ u # t
    BY <1>2 DEF Return, Alive, Unsettled
  <2> QED
    BY <1>2, <2>1, SettleStep DEF Return, locals
<1>3. CASE Pool
  <2>1. CASE Break
    BY <2>1, LoopStep DEF Break, locals, IInv, LockHeld, ActiveHoldsAlive, Alive
  <2>2. ASSUME NEW u \in Tasks, FailFuture(u) PROVE IInv'
    BY <2>2, LoopStep DEF FailFuture, locals, IInv, LockHeld, ActiveHoldsAlive, Alive, TypeOK
  <2>3. ASSUME NEW u \in Tasks, Terminate(u) PROVE IInv'
    <3>1. \A v \in Tasks : Alive(v)' => Alive(v)
      BY <2>3 DEF Terminate, Alive, IInv, TypeOK
    <3> QED
      BY <2>3, <3>1, WorkerStep DEF Terminate, locals
  <2> QED
    BY <1>3, <2>1, <2>2, <2>3 DEF Pool
<1>4. CASE Mishap(t)
  <2>1. CASE Escape(t)
    <3>1. \A u \in Tasks : Alive(u)' => Alive(u) /\ u # t
      BY <2>1 DEF Escape, Alive, Unsettled, IInv, TypeOK
    <3> QED
      BY <2>1, <3>1, SettleStep DEF Escape, locals
  <2>2. CASE Die(t)
    <3>1. \A u \in Tasks : Alive(u)' => Alive(u)
      BY <2>2 DEF Die, Alive, Unsettled, IInv, TypeOK
    <3> QED
      BY <2>2, <3>1, WorkerStep DEF Die, locals
  <2> QED
    BY <1>4, <2>1, <2>2 DEF Mishap
<1>5. CASE Other
  BY <1>5, LoopStep DEF Other, OtherAcquire, OtherRelease, locals, pool, IInv, LockHeld,
     Inside, Loop, ActiveHoldsAlive, Alive
<1>6. CASE CtrlC
  <2> USE DEF locals, pool, IInv, LockHeld, Inside, Loop, ActiveHoldsAlive
  <2>1. CASE Exit("leave", "raised") \/ Exit("unwind", "raised")
    <3>1. /\ pc' = "raised" /\ UNCHANGED <<active, done, worker, future, broken>>
          /\ \A u \in Tasks : ~Alive(u) /\ ~Alive(u)'
      BY <2>1 DEF Exit, Alive
    <3> QED
      BY <3>1, LoopStep
  <2>2. CASE /\ pc \in Loop \cup {"lock"} /\ pc' = (IF pc = "lock" THEN "raised" ELSE "unwind")
             /\ UNCHANGED <<lock, active, done, worker, future, broken>>
    BY <2>2, LoopStep DEF Alive
  <2> QED
    BY <1>6, <2>1, <2>2 DEF CtrlC
<1>7. CASE ReportRaises
  BY <1>7, LoopStep DEF ReportRaises, Exit, locals, pool, IInv, LockHeld, Inside, Loop,
     ActiveHoldsAlive, Alive
<1> QED
  BY <1>1, <1>2, <1>3, <1>4, <1>5, <1>6, <1>7 DEF Worker, Writes

LEMMA CommandStep ==
  ASSUME IInv, TypeOK', Command
  PROVE  IInv'
<1>1. UNCHANGED <<pc, lock, active, done, future, broken, worker>>
  BY DEF Command, ExitInterrupted, ExitError, ExitNormally, schedVars, locals, pool
<1> QED
  BY <1>1, WorkerStep DEF Alive

-----------------------------------------------------------------------------
(* What is stored, and what the scheduler and the command say of it.       *)

Settled == {"succeeded", "failed", "cancelled"}
Writing == {"loaded", "reporting", "failing", "ending"}

\* A success that is reported is stored, and nobody is about to write over it.
SuccessIsStored ==
  \A t \in Tasks :
    /\ outcomes[t] = "succeeded" \/ future[t] = "succeeded" => status[t] = "succeeded"
    /\ status[t] = "succeeded" => worker[t] \notin Writing

\* Every task of the batch is waiting, active or has an outcome, unless it was given
\* up.
Covered ==
  /\ taskIds[Batch] = Order
  /\ pc \notin {"unwind", "raised"} => \A t \in OfBatch :
       t \in ToSet(pending) \/ t \in active \/ outcomes[t] # NoFuture
  /\ \A t \in active : future[t] # NoFuture
  /\ pc \in {"leave", "returned"} => pending = <<>> /\ active = {}
  /\ \A t \in Tasks : outcomes[t] = "raised" =>
       /\ pc \in {"mark failed", "mark write", "unwind", "raised"}
       /\ future[t] = "raised"
       /\ \A u \in Tasks : outcomes[u] = "raised" => u = t

\* As long as the pool is not broken, a worker finds what it has left.
Unbroken ==
  /\ deaths = 0 => ~broken /\ \A t \in Tasks : worker[t] # "gone"
  /\ ~broken => \A t \in Tasks :
       /\ worker[t] = "loaded" => status[t] = "queued"
       /\ worker[t] = "failing" => status[t] \in Live
       /\ worker[t] \in {"running", "reporting", "ending"} => status[t] = "running"
       /\ worker[t] = "finished" /\ future[t] = "pending" => status[t] \in Terminal
       /\ outcomes[t] \in Settled \/ future[t] \in Settled => status[t] \in Terminal

\* As long as the pool is not broken, the task that the scheduler is about to write
\* failed is still as it was loaded: its worker does not live.
MarkIsFresh ==
  ~broken => \A t \in Tasks : pc = "mark write" /\ outcomes[t] = "raised" => status[t] \in Live

\* A command that has ended has left run_batch, which has aggregated at last.
AtTheEnd ==
  /\ exit # "none" => pc \in {"returned", "raised"}
  /\ pc = "returned" => bstatus[Batch] = Aggregate(Batch, status)
  /\ ExitIsHonest
  /\ NothingLeftOpen

HInv == IInv /\ SuccessIsStored /\ Covered /\ Unbroken /\ MarkIsFresh /\ AtTheEnd

\* A worker writes.
LEMMA WorkSuccess ==
  ASSUME HInv, NEW t \in Tasks,
         Writes(t) \/ InterruptWorker(t)
  PROVE  SuccessIsStored'
<1> USE DEF HInv, IInv, TypeOK, SuccessIsStored, Work, locals, Writing
<1>1. CASE Load(t)
  BY <1>1 DEF Load
<1>2. CASE Start(t)
  BY <1>2 DEF Start
<1>3. CASE EndLoad(t)
  BY <1>3, ZenonT(60) DEF EndLoad, Live
<1>4. CASE End(t)
  BY <1>4, ZenonT(60) DEF End
<1>5. CASE GiveUp(t)
  BY <1>5 DEF GiveUp
<1>6. CASE InterruptWorker(t)
  BY <1>6 DEF InterruptWorker, Live
<1>7. CASE ReportLoad(t) \/ ReportWrite(t)
  BY <1>7 DEF ReportLoad, ReportWrite, Live
<1> QED
  BY <1>1, <1>2, <1>3, <1>4, <1>5, <1>6, <1>7 DEF Writes

LEMMA WorkUnbroken ==
  ASSUME HInv, NEW t \in Tasks,
         Writes(t) \/ InterruptWorker(t)
  PROVE  Unbroken'
<1> USE DEF HInv, IInv, TypeOK, Unbroken, Work, locals, Settled
<1>1. CASE Load(t)
  BY <1>1 DEF Load
<1>2. CASE Start(t)
  BY <1>2 DEF Start, Terminal
<1>3. CASE EndLoad(t)
  <2>1. CASE Work(t, {"submitted"}, "failing", status[t])
    BY <1>3, <2>1 DEF EndLoad
  <2>2. CASE Work(t, {"running"}, "ending", status[t])
    BY <2>2
  <2> QED
    BY <1>3, <2>1, <2>2 DEF EndLoad
<1>4. CASE End(t)
  <2>1. /\ worker' = [worker EXCEPT ![t] = "finished"]
        /\ UNCHANGED <<outcomes, future, broken, deaths>>
    BY <1>4 DEF End
  <2>2. PICK s \in Settled : status' = [status EXCEPT ![t] = s]
    BY <1>4 DEF End
  <2>3. s \in Terminal
    BY DEF Terminal
  <2> QED
    BY <2>1, <2>2, <2>3
<1>5. CASE GiveUp(t)
  BY <1>5 DEF GiveUp
<1>6. CASE InterruptWorker(t)
  BY <1>6 DEF InterruptWorker, Live, Terminal, Status
<1>7. CASE ReportLoad(t)
  BY <1>7 DEF ReportLoad
<1>8. CASE ReportWrite(t)
  BY <1>8 DEF ReportWrite, Terminal
<1> QED
  BY <1>1, <1>2, <1>3, <1>4, <1>5, <1>6, <1>7, <1>8 DEF Writes

\* The steps of a worker and of the pool that write nothing.
LEMMA PoolHistory ==
  ASSUME HInv, NEW t \in Tasks, Return(t) \/ Pool \/ Mishap(t)
  PROVE  SuccessIsStored' /\ Unbroken'
<1> USE DEF HInv, IInv, TypeOK, SuccessIsStored, Unbroken, store, locals, Writing, Settled
<1>1. CASE Return(t)
  BY <1>1 DEF Return
<1>2. CASE Break
  BY <1>2 DEF Break
<1>3. ASSUME NEW u \in Tasks, FailFuture(u) PROVE SuccessIsStored' /\ Unbroken'
  BY <1>3 DEF FailFuture
<1>4. ASSUME NEW u \in Tasks, Terminate(u) PROVE SuccessIsStored' /\ Unbroken'
  BY <1>4 DEF Terminate
<1>5. CASE Escape(t)
  BY <1>5 DEF Escape
<1>6. CASE Die(t)
  BY <1>6, DeathCounts DEF Die
<1> QED
  BY <1>1, <1>2, <1>3, <1>4, <1>5, <1>6 DEF Pool, Mishap

\* The scheduling loop.
LEMMA LoopHistory ==
  ASSUME HInv, RunBatch
  PROVE  SuccessIsStored' /\ Unbroken'
<1> USE DEF HInv, SuccessIsStored, Unbroken, store, locals, pool, Settled
<1>1. CASE UNCHANGED <<status, outcomes, worker, future, broken, deaths>>
  BY <1>1
<1>2. CASE Submit
  <2>1. Head(pending) \in Tasks
    BY <1>2, PendingType DEF IInv, Submit
  <2> QED
    BY <1>2, <2>1 DEF Submit, IInv, TypeOK, Writing
<1>3. ASSUME NEW t \in Tasks, Collect(t) PROVE SuccessIsStored' /\ Unbroken'
  <2> DEFINE o == IF future[t] # "raised" THEN future[t]
                  ELSE IF status[t] \in Live THEN "raised" ELSE "failed"
  <2>1. /\ outcomes' = [outcomes EXCEPT ![t] = o]
        /\ UNCHANGED <<status, worker, future, broken, deaths>>
    BY <1>3 DEF Collect
  <2>2. o = "succeeded" => status[t] = "succeeded"
    OBVIOUS
  <2>3. ~broken /\ o \in Settled => status[t] \in Terminal
    BY DEF IInv, TypeOK, Status
  <2> HIDE DEF o
  <2> QED
    BY <2>1, <2>2, <2>3 DEF IInv, TypeOK
<1>4. ASSUME NEW t \in Tasks, MarkWrite(t) PROVE SuccessIsStored' /\ Unbroken'
  <2>1. /\ status' = [status EXCEPT ![t] = "failed"]
        /\ outcomes' = [outcomes EXCEPT ![t] = "failed"]
        /\ UNCHANGED <<worker, future, broken, deaths>>
    BY <1>4 DEF MarkWrite
  <2>2. future[t] = "raised"
    BY <1>4 DEF MarkWrite, Covered
  <2>3. ~broken => ~Alive(t)
    BY <2>2 DEF IInv, ActiveHoldsAlive
  <2>4. SuccessIsStored'
    BY <2>1, <2>2 DEF IInv, TypeOK
  <2>5. Unbroken'
    BY <2>1, <2>2, <2>3 DEF IInv, TypeOK, Alive, Unsettled, Terminal
  <2> QED
    BY <2>4, <2>5
<1> QED
  BY <1>1, <1>2, <1>3, <1>4 DEF RunBatch, Acquire, LockBusy, SubmitRaises, Block, SampleAgain,
     StopFilling, Wait, MarkFailed, EndOfRound, Leave, Unwind, Exit

\* What is loaded to be marked failed is not written before it is.
LEMMA MarkKept ==
  ASSUME HInv, Next
  PROVE  MarkIsFresh'
<1> SUFFICES ASSUME ~broken', pc' = "mark write", NEW t \in Tasks, outcomes'[t] = "raised"
             PROVE  status'[t] \in Live
  BY DEF MarkIsFresh
<1>1. ~broken
  BY DEF Next, Scheduling, RunBatch, Acquire, LockBusy, Submit, SubmitRaises, Block, SampleAgain,
     StopFilling, Wait, Collect, MarkFailed, MarkWrite, EndOfRound, Leave, Unwind, Exit, Pool,
     Break, FailFuture, Terminate, Worker, Load, Start, ReportLoad, ReportWrite, EndLoad, End,
     GiveUp, Return, Work, Mishap, Escape, Die, Command, ExitInterrupted, ExitError, ExitNormally,
     CtrlC, ReportRaises, InterruptWorker, Other, OtherAcquire, OtherRelease, schedVars, store,
     locals, pool
<1>2. CASE pc = "mark write" /\ UNCHANGED outcomes
  <2>1. status[t] \in Live /\ future[t] = "raised"
    BY <1>1, <1>2 DEF HInv, MarkIsFresh, Covered
  <2>2. ~Alive(t)
    BY <1>1, <2>1 DEF HInv, IInv, ActiveHoldsAlive
  <2>3. ASSUME NEW u \in Tasks, NEW from \in SUBSET Unsettled, NEW to, NEW s, Work(u, from, to, s)
        PROVE  status'[t] = status[t]
    BY <2>2, <2>3 DEF Work, Alive, HInv, IInv, TypeOK
  <2>4. ASSUME NEW u \in Tasks, Writes(u) \/ InterruptWorker(u)
        PROVE  status'[t] = status[t]
    <3>1. \E from \in SUBSET Unsettled : \E to, s : Work(u, from, to, s)
      BY <2>4 DEF Writes, Load, Start, ReportLoad, ReportWrite, EndLoad, End, GiveUp,
         InterruptWorker, Unsettled
    <3> QED
      BY <2>3, <3>1
  <2>5. CASE \A u \in Tasks : ~Writes(u) /\ ~InterruptWorker(u)
    BY <1>2, <2>1, <2>5 DEF Next, Scheduling, RunBatch, Acquire, LockBusy, Submit, SubmitRaises,
       Block, SampleAgain, StopFilling, Wait, Collect, MarkFailed, MarkWrite, EndOfRound, Leave,
       Unwind, Exit, Pool, Break, FailFuture, Terminate, Worker, Writes, Return, Mishap, Escape,
       Die, Command, ExitInterrupted, ExitError, ExitNormally, CtrlC, ReportRaises, Other,
       OtherAcquire, OtherRelease, schedVars, store
  <2> QED
    BY <2>1, <2>4, <2>5
<1>3. CASE \E u \in Tasks : MarkFailed(u)
  <2>1. PICK u \in Tasks : MarkFailed(u)
    BY <1>3
  <2>2. status[u] \in Live /\ UNCHANGED <<status, outcomes>> /\ outcomes[u] = "raised"
    BY <2>1 DEF MarkFailed, store, locals
  <2>3. t = u
    BY <2>2 DEF HInv, Covered
  <2> QED
    BY <2>2, <2>3
<1> QED
  BY <1>2, <1>3 DEF Next, Scheduling, RunBatch, Acquire, LockBusy, Submit, SubmitRaises, Block,
     SampleAgain, StopFilling, Wait, Collect, MarkWrite, EndOfRound, Leave, Unwind, Exit, Pool,
     Break, FailFuture, Terminate, Worker, Load, Start, ReportLoad, ReportWrite, EndLoad, End,
     GiveUp, Return, Work, Mishap, Escape, Die, Command, ExitInterrupted, ExitError, ExitNormally,
     CtrlC, ReportRaises, InterruptWorker, Other, OtherAcquire, OtherRelease, schedVars, locals

\* Nothing happens to the scheduler's account, but it may be left.
LEMMA CoveredKept ==
  ASSUME TypeOK, Covered, UNCHANGED <<taskIds, pending, active, outcomes>>,
         pc' = pc \/ pc' \in {"unwind", "raised"},
         \A t \in Tasks :
           future'[t] # future[t] => future[t] = "pending" /\ future'[t] # NoFuture
  PROVE  Covered'
<1>1. active \subseteq Tasks
  BY DEF TypeOK
<1>2. \A t \in Tasks : future[t] = "raised" => future'[t] = "raised"
  OBVIOUS
<1>3. \A t \in active' : future'[t] # NoFuture
  BY <1>1 DEF Covered
<1> QED
  BY <1>2, <1>3 DEF Covered

LEMMA BatchTasks == OfBatch \subseteq Tasks
BY OrderAssumption DEF OfBatch, ToSet

LEMMA HeadAndTail ==
  ASSUME NEW s \in Seq(Tasks), s # <<>>
  PROVE  ToSet(s) = {Head(s)} \cup ToSet(Tail(s))
<1>1. ASSUME NEW i \in DOMAIN s PROVE s[i] \in {Head(s)} \cup ToSet(Tail(s))
  <2>1. CASE i = 1
    BY <2>1
  <2>2. CASE i # 1
    <3>1. i - 1 \in DOMAIN Tail(s) /\ Tail(s)[i - 1] = s[i]
      BY <2>2
    <3> QED
      BY <3>1 DEF ToSet
  <2> QED
    BY <2>1, <2>2
<1>2. ASSUME NEW i \in DOMAIN Tail(s) PROVE Tail(s)[i] \in ToSet(s)
  <2>1. i + 1 \in DOMAIN s /\ Tail(s)[i] = s[i + 1]
    OBVIOUS
  <2> QED
    BY <2>1 DEF ToSet
<1>3. Head(s) \in ToSet(s)
  <2>1. 1 \in DOMAIN s /\ Head(s) = s[1]
    OBVIOUS
  <2> QED
    BY <2>1 DEF ToSet
<1> QED
  BY <1>1, <1>2, <1>3 DEF ToSet

LEMMA LoopCovered ==
  ASSUME HInv, RunBatch
  PROVE  Covered'
<1> USE DEF HInv, Covered, store, locals, pool
<1>1. CASE Acquire \/ Block \/ SampleAgain \/ StopFilling \/ Wait \/ EndOfRound \/ Leave
  BY <1>1 DEF Acquire, Block, SampleAgain, StopFilling, Wait, EndOfRound, Leave, Exit
<1>2. CASE LockBusy \/ Unwind \/ SubmitRaises
  BY <1>2 DEF LockBusy, Unwind, SubmitRaises, Exit
<1>3. CASE Submit
  <2>1. pending \in Seq(Tasks) /\ pending # <<>> /\ Head(pending) \in Tasks
    BY <1>3, PendingType DEF Submit, Room, IInv, TypeOK
  <2>2. ToSet(pending) = {Head(pending)} \cup ToSet(pending')
    BY <1>3, <2>1, HeadAndTail DEF Submit
  <2>3. /\ pc = "fill" /\ UNCHANGED <<taskIds, outcomes, pc>>
        /\ active' = active \cup {Head(pending)}
    BY <1>3 DEF Submit
  <2>4. \A t \in OfBatch : t \in ToSet(pending') \/ t \in active' \/ outcomes'[t] # NoFuture
    BY <2>2, <2>3
  <2>5. \A t \in active' : future'[t] # NoFuture
    BY <1>3, <2>1, <2>3 DEF Submit, IInv, TypeOK, NoFuture
  <2>6. \A t \in Tasks : outcomes[t] # "raised"
    BY <2>3
  <2> QED
    BY <2>3, <2>4, <2>5, <2>6
<1>4. ASSUME NEW t \in Tasks, Collect(t) PROVE Covered'
  <2>1. /\ pc = "collect" /\ t \in done /\ active' = active \ {t}
        /\ UNCHANGED <<taskIds, pending, future>>
    BY <1>4 DEF Collect
  <2>2. future[t] \notin {"pending", NoFuture}
    BY <2>1 DEF IInv, TypeOK, ActiveHoldsAlive
  <2>3. \A u \in Tasks : outcomes'[u] = IF u # t THEN outcomes[u]
           ELSE IF future[t] # "raised" THEN future[t]
           ELSE IF status[t] \in Live THEN "raised" ELSE "failed"
    BY <1>4 DEF Collect, IInv, TypeOK
  <2>4. \A u \in Tasks : outcomes[u] # "raised"
    BY <2>1
  <2>5. \A u \in Tasks : outcomes'[u] = "raised" =>
          u = t /\ pc' = "mark failed" /\ future[t] = "raised"
    BY <1>4, <2>3, <2>4 DEF Collect
  <2>6. \A u \in OfBatch : u \in ToSet(pending') \/ u \in active' \/ outcomes'[u] # NoFuture
    BY <2>1, <2>2, <2>3, BatchTasks DEF NoFuture
  <2>7. pc' \in {"collect", "mark failed"}
    BY <1>4, <2>1 DEF Collect
  <2> QED
    BY <2>1, <2>5, <2>6, <2>7
<1>5. ASSUME NEW t \in Tasks, MarkFailed(t) PROVE Covered'
  BY <1>5 DEF MarkFailed
<1>6. ASSUME NEW t \in Tasks, MarkWrite(t) PROVE Covered'
  BY <1>6, BatchTasks, ZenonT(60) DEF MarkWrite, IInv, TypeOK, NoFuture
<1> QED
  BY <1>1, <1>2, <1>3, <1>4, <1>5, <1>6 DEF RunBatch

LEMMA OtherCovered ==
  ASSUME HInv, NEW t \in Tasks,
         Worker(t) \/ Pool \/ Mishap(t) \/ Other \/ CtrlC \/ ReportRaises \/ InterruptWorker(t)
  PROVE  Covered'
<1>1. TypeOK /\ Covered
  BY DEF HInv, IInv
<1>2. UNCHANGED <<taskIds, pending, active, outcomes>>
  BY DEF Worker, Pool, Mishap, Other, Load, Start, ReportLoad, ReportWrite,
     EndLoad, End, GiveUp, InterruptWorker, Work,
     Return, Break, FailFuture, Terminate, Escape, Die, OtherAcquire, OtherRelease, CtrlC,
     ReportRaises, Exit, store, locals
<1>3. pc' = pc \/ pc' \in {"unwind", "raised"}
  BY DEF Worker, Pool, Mishap, Other, Load, Start, ReportLoad, ReportWrite,
     EndLoad, End, GiveUp, InterruptWorker, Work,
     Return, Break, FailFuture, Terminate, Escape, Die, OtherAcquire, OtherRelease, CtrlC,
     ReportRaises, Exit
<1>4. ASSUME NEW u \in Tasks, future'[u] # future[u]
      PROVE  future[u] = "pending" /\ future'[u] # NoFuture
  <2>1. CASE Return(t)
    BY <1>1, <1>4, <2>1 DEF TypeOK, Return, NoFuture
  <2>2. CASE Escape(t)
    BY <1>1, <1>4, <2>2 DEF TypeOK, Escape, Busy, NoFuture
  <2>3. ASSUME NEW v \in Tasks, FailFuture(v)
        PROVE  future[u] = "pending" /\ future'[u] # NoFuture
    BY <1>1, <1>4, <2>3 DEF TypeOK, FailFuture, NoFuture
  <2> QED
    BY <1>4, <2>1, <2>2, <2>3 DEF Worker, Pool, Mishap, Other, Load, Start, ReportLoad, ReportWrite,
     EndLoad, End, GiveUp,
       InterruptWorker, Work, Break, Terminate, Die, OtherAcquire, OtherRelease, CtrlC,
       ReportRaises, Exit, pool
<1> QED
  BY <1>1, <1>2, <1>3, <1>4, CoveredKept

\* Until run_batch has been left nothing is at its end; after that nothing is written
\* but by the command.
LEMMA EndKept ==
  ASSUME HInv, UNCHANGED <<taskIds, exit>>, deaths' = 0 => deaths = 0,
         \/ exit = "none" /\ pc' # "returned"
         \/ UNCHANGED <<pc, status, bstatus>>
  PROVE  AtTheEnd'
BY DEF HInv, AtTheEnd, ExitIsHonest, NothingLeftOpen, Aggregate, OfBatch

LEMMA LoopEnd ==
  ASSUME HInv, RunBatch, UNCHANGED <<interrupted, exit>>, Reporting = TRUE
  PROVE  AtTheEnd'
<1>1. exit = "none" /\ UNCHANGED <<taskIds, deaths>>
  BY DEF HInv, AtTheEnd, RunBatch, Acquire, LockBusy, Submit, SubmitRaises, Block,
         SampleAgain, StopFilling, Wait, Collect, MarkFailed, MarkWrite, EndOfRound, Leave, Unwind, Exit, store, pool
<1>2. CASE Leave
  <2>1. bstatus' = Aggregated /\ UNCHANGED status 
    BY <1>2 DEF Leave, Exit, Report
  <2>2. bstatus'[Batch] = Aggregate(Batch, status)
    BY <2>1, OrderAssumption DEF Aggregated, HInv, IInv, TypeOK
  <2>3. Aggregate(Batch, status)' = Aggregate(Batch, status)
    BY <1>1, <2>1 DEF Aggregate
  <2> QED
    BY <1>1, <2>2, <2>3 DEF AtTheEnd, ExitIsHonest, NothingLeftOpen
<1>3. CASE ~Leave
  <2>1. pc' # "returned"
    BY <1>3 DEF RunBatch, Acquire, LockBusy, Submit, SubmitRaises, Block,
         SampleAgain, StopFilling, Wait, Collect, MarkFailed, MarkWrite, EndOfRound, Unwind, Exit
  <2> QED
    BY <1>1, <2>1, EndKept
<1> QED
  BY <1>2, <1>3

LEMMA OtherEnd ==
  ASSUME HInv, NEW t \in Tasks,
         \/ /\ Worker(t) \/ Pool \/ Mishap(t) \/ Other
            /\ UNCHANGED <<interrupted, exit>>
         \/ CtrlC \/ ReportRaises \/ InterruptWorker(t)
  PROVE  AtTheEnd'
<1> USE DEF store, locals, pool
<1>1. CASE Writes(t) \/ InterruptWorker(t)
  <2>1. Alive(t) /\ UNCHANGED <<pc, taskIds, exit, deaths>>
    <3>1. \E from \in SUBSET Unsettled : \E to, s : Work(t, from, to, s)
      BY <1>1 DEF Writes, Load, Start, ReportLoad, ReportWrite, EndLoad, End, GiveUp,
         InterruptWorker, Unsettled
    <3>2. Alive(t) /\ UNCHANGED <<pc, taskIds, deaths>>
      BY <3>1 DEF Work, Alive
    <3>3. UNCHANGED exit
      BY DEF CtrlC, ReportRaises, InterruptWorker
    <3> QED
      BY <3>2, <3>3
  <2>2. pc \in Inside
    BY <2>1 DEF HInv, IInv, LockHeld
  <2>3. exit = "none" /\ pc' # "returned"
    BY <2>1, <2>2 DEF HInv, AtTheEnd, Inside, Loop
  <2> QED
    BY <2>1, <2>3, EndKept
<1>2. CASE Return(t) /\ UNCHANGED exit
  BY <1>2, EndKept DEF Return
<1>3. CASE Pool /\ UNCHANGED exit
  BY <1>3, EndKept DEF Pool, Break, FailFuture, Terminate
<1>4. CASE Mishap(t) /\ UNCHANGED exit
  <2>1. CASE Escape(t)
    BY <1>4, <2>1, EndKept DEF Escape
  <2>2. CASE Die(t)
    <3>1. deaths' # 0
      BY <2>2, DeathCounts DEF HInv, IInv
    <3> QED
      BY <1>4, <2>2, <3>1, EndKept DEF Die
  <2> QED
    BY <1>4, <2>1, <2>2 DEF Mishap
<1>5. CASE Other /\ UNCHANGED exit
  BY <1>5, EndKept DEF Other, OtherAcquire, OtherRelease
<1>6. CASE CtrlC \/ ReportRaises
  <2>1. exit = "none" /\ pc' # "returned" /\ UNCHANGED <<taskIds, exit, deaths>>
    BY <1>6 DEF CtrlC, ReportRaises, Exit, Loop, HInv, AtTheEnd
  <2> QED
    BY <2>1, EndKept
<1> QED
  BY <1>1, <1>2, <1>3, <1>4, <1>5, <1>6 DEF Worker, Writes

\* The exit code is that of the outcomes, and those are what is stored.
LEMMA OutcomesStored ==
  ASSUME HInv, pc = "returned"
  PROVE  /\ (\A t \in OfBatch : outcomes[t] \notin {"failed", "cancelled"}) =>
              Aggregate(Batch, status) = "succeeded"
         /\ deaths = 0 => \A t \in OfBatch : status[t] \in Terminal
<1>1. \A t \in OfBatch : outcomes[t] \in Settled
  <2>1. ToSet(pending) = {} /\ active = {}
    <3>1. pending = <<>> /\ active = {}
      BY DEF HInv, Covered
    <3> QED
      BY <3>1 DEF ToSet
  <2>2. \A t \in OfBatch : outcomes[t] \notin {NoFuture, "raised"}
    BY <2>1, BatchTasks DEF HInv, Covered
  <2> QED
    BY <2>2, BatchTasks DEF HInv, IInv, TypeOK, Settled
<1>2. ASSUME \A t \in OfBatch : outcomes[t] \notin {"failed", "cancelled"}
      PROVE  Aggregate(Batch, status) = "succeeded"
  <2>1. \A t \in OfBatch : status[t] = "succeeded"
    BY <1>1, <1>2, BatchTasks DEF Settled, HInv, SuccessIsStored
  <2>2. ToSet(taskIds[Batch]) = OfBatch
    BY DEF HInv, Covered, OfBatch
  <2>3. {status[t] : t \in ToSet(taskIds[Batch])} \subseteq {"succeeded"}
    BY <2>1, <2>2
  <2> QED
    BY <2>3 DEF Aggregate, Live
<1>3. ASSUME deaths = 0 PROVE \A t \in OfBatch : status[t] \in Terminal
  BY <1>1, <1>3, BatchTasks DEF HInv, Unbroken
<1> QED
  BY <1>2, <1>3

LEMMA CommandHistory ==
  ASSUME HInv, Command
  PROVE  SuccessIsStored' /\ Covered' /\ Unbroken' /\ AtTheEnd'
<1>1. CASE ExitError
  <2>1. /\ SuccessIsStored' /\ Unbroken'
    BY <1>1 DEF ExitError, schedVars, store, locals, pool, HInv, SuccessIsStored, Unbroken
  <2>2. Covered'
    BY <1>1 DEF ExitError, schedVars, store, locals, pool, HInv, Covered
  <2>3. AtTheEnd'
    BY <1>1 DEF ExitError, schedVars, store, locals, pool, HInv, AtTheEnd, ExitIsHonest, NothingLeftOpen
  <2> QED
    BY <2>1, <2>2, <2>3
<1>2. CASE ExitNormally
  <2>1. /\ SuccessIsStored' /\ Unbroken'
    BY <1>2 DEF ExitNormally, schedVars, store, locals, pool, HInv, SuccessIsStored, Unbroken
  <2>2. Covered'
    BY <1>2 DEF ExitNormally, schedVars, store, locals, pool, HInv, Covered
  <2>3. /\ pc = "returned" /\ exit' \in {"130", "2 or 3", "0"}
        /\ exit' = "0" => \A t \in OfBatch : outcomes[t] \notin {"failed", "cancelled"}
        /\ UNCHANGED <<pc, taskIds, status, bstatus, deaths>>
    BY <1>2 DEF ExitNormally, schedVars, store, pool
  <2>4. bstatus[Batch] = Aggregate(Batch, status)
    BY <2>3 DEF HInv, AtTheEnd
  <2>5. Aggregate(Batch, status)' = Aggregate(Batch, status)
    BY <2>3 DEF Aggregate
  <2>6. ExitIsHonest' /\ NothingLeftOpen'
    BY <2>3, <2>4, <2>5, OutcomesStored DEF ExitIsHonest, NothingLeftOpen, OfBatch
  <2> QED
    BY <2>1, <2>2, <2>3, <2>4, <2>5, <2>6 DEF AtTheEnd
<1>3. CASE ExitInterrupted
  <2>1. /\ pc = "raised" /\ exit' = "130"
        /\ \A t \in Tasks : status'[t] = IF t \in OfBatch /\ status[t] \in Live
                                        THEN "cancelled" ELSE status[t]
        /\ bstatus'[Batch] = Aggregate(Batch, status')
        /\ UNCHANGED <<pc, taskIds, pending, active, outcomes, worker, future, broken, deaths>>
    BY <1>3, OrderAssumption DEF ExitInterrupted, locals, pool, HInv, IInv, TypeOK
  <2>2. \A t \in Tasks : worker[t] \notin Unsettled
    BY <2>1 DEF HInv, IInv, LockHeld, Alive, Inside, Loop
  <2>3. SuccessIsStored'
    BY <2>1 DEF HInv, SuccessIsStored, Live
  <2>4. Unbroken'
    BY <2>1, <2>2 DEF HInv, Unbroken, Unsettled, Terminal
  <2>5. Covered'
    BY <2>1 DEF HInv, Covered
  <2>6. ExitIsHonest'
    BY <2>1 DEF ExitIsHonest, Aggregate
  <2>7. NothingLeftOpen'
    BY <2>1, BatchTasks DEF NothingLeftOpen, HInv, IInv, TypeOK, Status, Terminal, OfBatch
  <2> QED
    BY <2>1, <2>3, <2>4, <2>5, <2>6, <2>7 DEF AtTheEnd
<1> QED
  BY <1>1, <1>2, <1>3 DEF Command

-----------------------------------------------------------------------------
LEMMA Initial == Init => HInv
<1> SUFFICES ASSUME Init PROVE HInv
  OBVIOUS
<1>1. LockHeld /\ ActiveHoldsAlive
  BY DEF Init, LockHeld, ActiveHoldsAlive, Inside, Loop, Alive, Unsettled
<1>2. active = {} /\ Alives = {}
  BY DEF Init, Alives, Alive, Unsettled
<1>3. ActiveBounded /\ AliveBounded
  BY <1>2, FS_EmptySet, WorkersAssumption DEF ActiveBounded, AliveBounded
<1>4. SuccessIsStored /\ Unbroken /\ MarkIsFresh /\ AtTheEnd
  BY DEF Init, NoFuture, SuccessIsStored, Unbroken, MarkIsFresh, AtTheEnd, ExitIsHonest, NothingLeftOpen,
     Writing, Settled
<1>5. Covered
  BY OrderAssumption DEF Init, NoFuture, Covered, OfBatch
<1> QED
  BY <1>1, <1>3, <1>4, <1>5, TypeInit DEF IInv, HInv

LEMMA Step == IInv /\ [Next]_vars => IInv'
<1> SUFFICES ASSUME IInv, [Next]_vars PROVE IInv'
  OBVIOUS
<1>1. CASE RunBatch /\ UNCHANGED <<interrupted, exit>>
  BY <1>1, SchedulingType, SchedulingStep DEF IInv
<1>2. ASSUME NEW t \in Tasks,
             \/ /\ Worker(t) \/ Pool \/ Mishap(t) \/ Other
                /\ UNCHANGED <<interrupted, exit>>
             \/ CtrlC \/ ReportRaises \/ InterruptWorker(t)
      PROVE  IInv'
  BY <1>2, OtherType, OtherStep DEF IInv
<1>3. CASE Command
  BY <1>3, CommandType, CommandStep DEF IInv
<1>4. CASE UNCHANGED vars
  <2>1. TypeOK'
    BY <1>4 DEF IInv, TypeOK, vars, schedVars, store, locals, pool
  <2> QED
    BY <1>4, <2>1, WorkerStep DEF vars, schedVars, locals, pool, Alive
<1>5. \E t \in Tasks : TRUE
  BY OrderAssumption
<1> QED
  BY <1>1, <1>2, <1>3, <1>4, <1>5 DEF Next, Scheduling

LEMMA HistoryStep ==
  ASSUME Reporting = TRUE
  PROVE  HInv /\ [Next]_vars => HInv'
<1> SUFFICES ASSUME HInv, [Next]_vars
             PROVE  SuccessIsStored' /\ Covered' /\ Unbroken' /\ AtTheEnd'
  <2>1. ASSUME HInv, UNCHANGED <<status, pc, outcomes, broken>> PROVE MarkIsFresh'
    BY <2>1 DEF HInv, MarkIsFresh
  <2> QED
    BY <2>1, Step, MarkKept DEF HInv, vars, schedVars, store, locals, pool
<1>1. CASE RunBatch /\ UNCHANGED <<interrupted, exit>>
  BY <1>1, LoopHistory, LoopCovered, LoopEnd
<1>2. ASSUME NEW t \in Tasks,
             \/ /\ Worker(t) \/ Pool \/ Mishap(t) \/ Other
                /\ UNCHANGED <<interrupted, exit>>
             \/ CtrlC \/ ReportRaises \/ InterruptWorker(t)
      PROVE  SuccessIsStored' /\ Covered' /\ Unbroken' /\ AtTheEnd'
  <2>1. Covered' /\ AtTheEnd'
    BY <1>2, OtherCovered, OtherEnd
  <2>2. CASE Writes(t) \/ InterruptWorker(t)
    BY <2>1, <2>2, WorkSuccess, WorkUnbroken
  <2>3. CASE Return(t) \/ Pool \/ Mishap(t)
    BY <2>1, <2>3, PoolHistory
  <2>4. CASE Other \/ CtrlC \/ ReportRaises
    <3>1. UNCHANGED <<status, outcomes, worker, future, broken, deaths>>
      BY <2>4 DEF Other, OtherAcquire, OtherRelease, CtrlC, ReportRaises, Exit, store, locals, pool
    <3> QED
      BY <2>1, <3>1 DEF HInv, SuccessIsStored, Unbroken
  <2> QED
    BY <1>2, <2>2, <2>3, <2>4 DEF Worker, Writes
<1>3. CASE Command
  BY <1>3, CommandHistory
<1>4. CASE UNCHANGED vars
  <2>1. AtTheEnd'
    BY <1>4, EndKept DEF vars, schedVars, store, pool
  <2> QED
    BY <1>4, <2>1 DEF vars, schedVars, store, locals, pool, HInv, SuccessIsStored, Covered, Unbroken
<1>5. \E t \in Tasks : TRUE
  BY OrderAssumption
<1> QED
  BY <1>1, <1>2, <1>3, <1>4, <1>5 DEF Next, Scheduling

LEMMA Invariant == Spec => []IInv
<1>1. Init => IInv
  BY Initial DEF HInv
<1> QED
  BY <1>1, Step, PTL DEF Spec

LEMMA History ==
  ASSUME Reporting = TRUE
  PROVE  Spec => []HInv
<1>1. HInv /\ [Next]_vars => HInv'
  BY HistoryStep
<1> QED
  BY <1>1, Initial, PTL DEF Spec

LEMMA EdgeOf ==
  ASSUME NEW a, NEW b,
         \/ a = "queued" /\ b \in {"running", "failed", "cancelled"}
         \/ a = "running" /\ b \in Terminal
  PROVE  <<a, b>> \in Edge
BY DEF Edge, Terminal

\* As long as the pool is not broken, a step takes a status along an edge or not at all.
LEMMA StatusStep ==
  ASSUME HInv, Next, ~broken, NEW t \in Tasks, status'[t] # status[t]
  PROVE  <<status[t], status'[t]>> \in Edge
<1>1. ASSUME NEW u \in Tasks, NEW from, NEW to, NEW s, Work(u, from, to, s), s # status[u]
      PROVE  u = t /\ status'[t] = s
  BY <1>1 DEF Work, HInv, IInv, TypeOK
<1>2. ASSUME NEW u \in Tasks, Worker(u) PROVE <<status[t], status'[t]>> \in Edge
  <2>1. CASE Start(u)
    BY <1>2, <2>1, EdgeOf DEF Start, Work, HInv, IInv, TypeOK, Unbroken
  <2>2. CASE End(u)
    <3>1. PICK s \in Settled :
            /\ worker[u] \in {"failing", "ending"} /\ status' = [status EXCEPT ![u] = s]
            /\ s = "succeeded" => worker[u] = "ending"
      BY <2>2 DEF End, Work, Settled
    <3>2. status \in [Tasks -> Status]
      BY DEF HInv, IInv, TypeOK
    <3>3. u = t /\ status'[t] = s
      BY <3>1, <3>2
    <3>4. worker[t] = "failing" => status[t] \in Live
      BY DEF HInv, Unbroken
    <3>5. worker[t] = "ending" => status[t] = "running"
      BY DEF HInv, Unbroken
    <3> QED
      BY <3>1, <3>3, <3>4, <3>5, EdgeOf DEF Live, Terminal, Settled
  <2>3. CASE Load(u) \/ ReportLoad(u) \/ EndLoad(u) \/ GiveUp(u) \/ Return(u)
    BY <2>3 DEF Load, ReportLoad, EndLoad, GiveUp, Return, Work, store, HInv, IInv, TypeOK
  <2>4. CASE ReportWrite(u)
    BY <2>4 DEF ReportWrite, Work, HInv, IInv, TypeOK, Unbroken
  <2> QED
    BY <1>2, <2>1, <2>2, <2>3, <2>4 DEF Worker
<1>3. ASSUME NEW u \in Tasks, InterruptWorker(u) PROVE <<status[t], status'[t]>> \in Edge
  <2>1. u = t /\ status[t] \in Live /\ status'[t] = "cancelled"
    BY <1>3 DEF InterruptWorker, Work, HInv, IInv, TypeOK
  <2> QED
    BY <2>1, EdgeOf DEF Live, Terminal
<1>4. ASSUME NEW u \in Tasks, MarkWrite(u) PROVE <<status[t], status'[t]>> \in Edge
  <2>1. u = t /\ status[t] \in Live /\ status'[t] = "failed"
    BY <1>4 DEF MarkWrite, MarkIsFresh, HInv, IInv, TypeOK
  <2> QED
    BY <2>1, EdgeOf DEF Live, Terminal
<1>5. CASE ExitInterrupted
  <2>1. status[t] \in Live /\ status'[t] = "cancelled"
    BY <1>5 DEF ExitInterrupted
  <2> QED
    BY <2>1, EdgeOf DEF Live, Terminal
<1> QED
  BY <1>2, <1>3, <1>4, <1>5 DEF Next, Scheduling, Command, RunBatch, Acquire, LockBusy, Submit,
     SubmitRaises, Block, SampleAgain, StopFilling, Wait, Collect, MarkFailed, EndOfRound, Leave, Unwind, Exit, Pool, Break,
     FailFuture, Terminate, Mishap, Escape, Die, ExitError, ExitNormally, CtrlC, ReportRaises,
     Other, OtherAcquire, OtherRelease, schedVars, store

\* Every reachable state has its types.
THEOREM TypeCorrect == Spec => []TypeOK
<1>1. IInv => TypeOK
  BY DEF IInv
<1> QED
  BY <1>1, Invariant, PTL

\* Whatever dies, raises or is interrupted before the pool is waited for, the workers
\* that may touch the store stay within the budget and none outlives the lock (scheduler.py:206-208).
THEOREM Bounded == Spec => []WorkersBounded
<1>1. IInv => WorkersBounded
  BY DEF IInv, AliveBounded, Alives, LockHeld, Inside, Loop, WorkersBounded
<1> QED
  BY <1>1, Invariant, PTL

\* With the progress callback that the command always passes (cli.py:348), exit code
\* 0 means that every file has succeeded, and unless the command ends in an error
\* the batch record agrees with the tasks', though siblings of a dead worker write
\* late and the callback is the last to aggregate (scheduler.py:253).
THEOREM Honesty ==
  ASSUME Reporting = TRUE
  PROVE  Spec => []ExitIsHonest
<1>1. HInv => ExitIsHonest
  BY DEF HInv, AtTheEnd
<1> QED
  BY <1>1, History, PTL

\* Nor does it leave a task open, if no worker has died.
THEOREM NothingOpen ==
  ASSUME Reporting = TRUE
  PROVE  Spec => []NothingLeftOpen
<1>1. HInv => NothingLeftOpen
  BY DEF HInv, AtTheEnd
<1> QED
  BY <1>1, History, PTL

\* None of scheduler, workers and Ctrl+C handler holds a lock between its load and its
\* write, and yet they take every task along the transition table only.
THEOREM Forward ==
  ASSUME Reporting = TRUE
  PROVE  Spec => StatusMovesForward
<1>1. HInv /\ [Next]_vars =>
        [~broken => \A t \in Tasks :
           status'[t] # status[t] => <<status[t], status'[t]>> \in Edge]_vars
  BY StatusStep
<1> QED
  BY <1>1, History, PTL DEF Spec, StatusMovesForward
=============================================================================
