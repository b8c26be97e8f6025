-------------------------- MODULE Background_proofs --------------------------
(* The background mode, for any number of tasks, batches, workers, commands  *)
(* and crashes.                                                              *)
EXTENDS Background, FiniteSetTheorems, SequenceTheorems, TLAPS

\* The steps of the manager, its IPC server and its clients that leave the
\* scheduler, its pool and its lock alone.
ManagerStep ==
  \/ Drained
  \/ Serve
  \/ \E b \in Batches : CancelRequest(b)
  \/ \E b, c \in Batches : Retry(b, c)
  \/ Stop
  \/ LostClient
  \/ Stopped
  \/ Boot("down")
  \/ Boot("crashed")
  \/ Recover
  \/ \E b \in Batches : Client(b)

\* The steps of the scheduler, its workers and its pool.
Scheduling ==
  \/ Schedule
  \/ \E t \in Tasks : WorkerSteps(t)
  \/ PoolSteps
  \/ \E t \in Tasks : Mishap(t) /\ UNCHANGED <<managerVars, ipcVars, history>>
  \/ Other /\ UNCHANGED <<managerVars, ipcVars, history>>

\* The manager and its workers die.
Died == Crash \/ StopService

LEMMA NextSteps == Next <=> ManagerStep \/ Scheduling \/ Dequeue \/ Settle \/ Died
  BY DEF Next, ManagerStep, Scheduling, Drain, Died

LEMMA ManagerSteps ==
  ASSUME ManagerStep PROVE UNCHANGED <<lock, pc, locals, pool>>
  BY DEF ManagerStep, Drained, Serve, Accept, Submitted, Enqueue, CancelNext, CancelLoad,
     CancelWrite, CancelRead, CancelAggregate, CancelRequest, Retry, RetryOf, Stop, LostClient,
     Stopped, Boot, Recover, RecoverJobs, RecoverBatch, Recovered, Client, Persist, Send,
     TimeOut, GiveUpSubmit, schedVars

LEMMA SchedulingSteps ==
  ASSUME Scheduling
  PROVE  UNCHANGED <<managerVars, ipcVars, retryOf, commands, crashes, timeouts>>
  BY DEF Scheduling, Schedule, WorkerSteps, PoolSteps, history

-----------------------------------------------------------------------------
(* Sequences.                                                              *)

\* A list is its head and its tail ...
LEMMA HeadAndTail ==
  ASSUME NEW S, NEW s \in Seq(S), s # <<>>
  PROVE  /\ Head(s) \in S /\ Tail(s) \in Seq(S)
         /\ ToSet(s) = {Head(s)} \cup ToSet(Tail(s))
<1>1. Head(s) \in S /\ Tail(s) \in Seq(S)
  OBVIOUS
<1>2. ASSUME NEW i \in DOMAIN s PROVE s[i] \in {Head(s)} \cup ToSet(Tail(s))
  <2>1. CASE i = 1
    BY <2>1
  <2>2. CASE i # 1
    <3>1. i - 1 \in DOMAIN Tail(s) /\ Tail(s)[i - 1] = s[i]
      BY <2>2
    <3> QED
      BY <3>1 DEF ToSet
  <2> QED
    BY <2>1, <2>2
<1>3. ASSUME NEW i \in DOMAIN Tail(s) PROVE Tail(s)[i] \in ToSet(s)
  <2>1. i + 1 \in DOMAIN s /\ Tail(s)[i] = s[i + 1]
    OBVIOUS
  <2> QED
    BY <2>1 DEF ToSet
<1>4. Head(s) \in ToSet(s)
  <2>1. 1 \in DOMAIN s /\ Head(s) = s[1]
    OBVIOUS
  <2> QED
    BY <2>1 DEF ToSet
<1> QED
  BY <1>1, <1>2, <1>3, <1>4 DEF ToSet

\* ... which, without repetitions, are apart.
LEMMA HeadNotInTail ==
  ASSUME NEW S, NEW s \in Seq(S), s # <<>>, IsInjective(s)
  PROVE  Head(s) \notin ToSet(Tail(s)) /\ IsInjective(Tail(s))
<1>1. \A i \in DOMAIN Tail(s) : i \in Nat /\ i # 0 /\ i + 1 \in DOMAIN s /\ Tail(s)[i] = s[i + 1]
  OBVIOUS
<1>2. 1 \in DOMAIN s /\ Head(s) = s[1]
  OBVIOUS
<1>3. Head(s) \notin ToSet(Tail(s))
  BY <1>1, <1>2 DEF ToSet, IsInjective
<1>4. ASSUME NEW i \in DOMAIN Tail(s), NEW j \in DOMAIN Tail(s), Tail(s)[i] = Tail(s)[j]
      PROVE  i = j
  <2>1. i + 1 = j + 1
    BY <1>1, <1>4 DEF IsInjective
  <2> QED
    BY <1>1, <2>1
<1> QED
  BY <1>3, <1>4 DEF IsInjective

LEMMA Appended ==
  ASSUME NEW S, NEW s \in Seq(S), NEW e \in S
  PROVE  Append(s, e) \in Seq(S) /\ ToSet(Append(s, e)) = ToSet(s) \cup {e}
<1>1. /\ Append(s, e) \in Seq(S) /\ DOMAIN Append(s, e) = 1..Len(s) + 1
      /\ DOMAIN s = 1..Len(s) /\ Len(s) \in Nat
      /\ \A i \in 1..Len(s) : Append(s, e)[i] = s[i]
      /\ Append(s, e)[Len(s) + 1] = e
  OBVIOUS
<1>2. 1..Len(s) + 1 = 1..Len(s) \cup {Len(s) + 1}
  BY <1>1
<1> QED
  BY <1>1, <1>2 DEF ToSet

\* New ids are tasks of no batch yet, and no two of them are the same.
LEMMA FreshIds ==
  ASSUME NEW new \in Fresh
  PROVE  /\ new \in Seq(Tasks) /\ new # <<>> /\ IsInjective(new)
         /\ ToSet(new) \cap Taken = {}
<1>1. PICK r \in Free : new = SubSeq(TaskOrder, r[1], r[2])
  BY DEF Fresh
<1> DEFINE m == r[1]  n == r[2]
<1>2. /\ m \in 1..Len(TaskOrder) /\ n \in 1..Len(TaskOrder) /\ m <= n
      /\ \A i \in m..n : TaskOrder[i] \notin Taken
  BY DEF Free
<1>3. /\ Len(TaskOrder) \in Nat /\ DOMAIN TaskOrder = 1..Len(TaskOrder)
      /\ \A i \in 1..Len(TaskOrder) : TaskOrder[i] \in Tasks
  BY OrderAssumption
<1>4. m \in Int /\ n \in Int /\ \A i \in m..n : i \in 1..Len(TaskOrder)
  BY <1>2, <1>3
<1> HIDE DEF m, n
<1>5. /\ new \in Seq(Tasks) /\ Len(new) = n - m + 1
      /\ \A i \in 1..n - m + 1 : new[i] = TaskOrder[m + i - 1]
  BY <1>1, <1>2, <1>3, <1>4, SubSeqProperties DEF m, n
<1>6. DOMAIN new = 1..n - m + 1
  BY <1>5
<1>7. \A i \in DOMAIN new : /\ i \in Int /\ m + i - 1 \in m..n
                            /\ new[i] = TaskOrder[m + i - 1]
  BY <1>2, <1>4, <1>5, <1>6
<1>8. ToSet(new) \cap Taken = {}
  BY <1>2, <1>7 DEF ToSet
<1>9. ASSUME NEW i \in DOMAIN new, NEW j \in DOMAIN new, new[i] = new[j] PROVE i = j
  <2>1. m + i - 1 = m + j - 1
    BY <1>3, <1>4, <1>7, <1>9, OrderAssumption DEF IsInjective
  <2> QED
    BY <1>4, <1>7, <2>1
<1>10. new # <<>>
  BY <1>2, <1>4, <1>5
<1> QED
  BY <1>5, <1>8, <1>9, <1>10 DEF IsInjective
-----------------------------------------------------------------------------
(* What holds of the lock, the pool and the tasks, whatever dies or races. *)

Alives == {t \in Tasks : Alive(t)}

\* Where run_batch is inside its with statement.
Inside == Loop \cup {"leave", "unwind"}

\* The lock is held inside the with statement, and only there workers live.
LockHeld ==
  /\ pc \in Inside => lock = "this"
  /\ \A t \in Tasks : Alive(t) => pc \in Inside

\* As long as the pool is not broken, whoever lives has a pending future that
\* active still holds; what is done is not pending.
ActiveHoldsAlive ==
  /\ pc \in {"lock", "fill", "blocked", "wait"} => done = {}
  /\ \A t \in done : future[t] # "pending"
  /\ ~broken => \A t \in Tasks : Alive(t) => t \in active /\ future[t] = "pending"

ActiveBounded == Cardinality(active) <= Workers
AliveBounded  == Cardinality(Alives) <= Workers

\* A task that can still be started has not been started.
Started ==
  \A t \in Tasks :
    /\ starts[t] \in {0, 1}
    /\ status[t] = "queued" \/ worker[t] = "loaded" => starts[t] = 0

PoolInv == LockHeld /\ ActiveHoldsAlive /\ ActiveBounded /\ AliveBounded
IInv    == TypeOK /\ PoolInv /\ Started

-----------------------------------------------------------------------------
(* Types.                                                                  *)

LEMMA AggregateType ==
  ASSUME NEW b, NEW st
  PROVE  Aggregate(b, st) \in BatchStatus
BY DEF Aggregate, BatchStatus

LEMMA ReportType ==
  ASSUME SchedulerTypes, Report \/ bstatus' = bstatus \/ bstatus' = Aggregated
  PROVE  bstatus' \in [Batches -> BatchStatus]
<1>1. Aggregate(run, status) \in BatchStatus
  BY AggregateType
<1> QED
  BY <1>1 DEF Report, Aggregated, SchedulerTypes

LEMMA PendingType ==
  ASSUME SchedulerTypes, Room
  PROVE  Head(pending) \in Tasks /\ Tail(pending) \in Seq(Tasks)
<1>1. pending \in Seq(Tasks) /\ pending # <<>>
  BY DEF Room, SchedulerTypes
<1> QED
  BY <1>1

\* The scheduling loop.
LEMMA LoopTypes ==
  ASSUME SchedulerTypes, ActiveHoldsAlive, RunBatch
  PROVE  SchedulerTypes'
<1> USE DEF store, locals, pool, SchedulerTypes, Loop, Unsettled
<1>1. CASE Acquire \/ LockBusy \/ Block \/ SampleAgain \/ StopFilling
  BY <1>1 DEF Acquire, LockBusy, Block, SampleAgain, StopFilling
<1>2. CASE Submit
  <2>1. Head(pending) \in Tasks /\ Tail(pending) \in Seq(Tasks)
    BY <1>2, PendingType DEF Submit
  <2>2. bstatus' \in [Batches -> BatchStatus]
    BY <1>2, ReportType DEF Submit
  <2> QED
    BY <1>2, <2>1, <2>2 DEF Submit
<1>3. CASE SubmitRaises
  <2>1. Tail(pending) \in Seq(Tasks)
    BY <1>3, PendingType DEF SubmitRaises
  <2> QED
    BY <1>3, <2>1 DEF SubmitRaises
<1>4. CASE Wait \/ EndOfRound \/ Leave
  <2>1. bstatus' \in [Batches -> BatchStatus]
    BY <1>4, ReportType DEF Wait, EndOfRound, Leave
  <2> QED
    BY <1>4, <2>1 DEF Wait, EndOfRound, Leave, Exit
<1>5. ASSUME NEW t \in Tasks, Collect(t) PROVE SchedulerTypes'
  <2>1. future[t] \in Outcomes
    BY <1>5 DEF Collect, ActiveHoldsAlive
  <2>2. outcomes' \in [Tasks -> Outcomes]
    BY <1>5, <2>1 DEF Collect, Outcomes
  <2>3. /\ active' \subseteq Tasks /\ done' \subseteq active'
        /\ pc' \in {"collect", "mark failed"}
    BY <1>5 DEF Collect
  <2> QED
    BY <1>5, <2>2, <2>3 DEF Collect
<1>6. ASSUME NEW t \in Tasks, MarkFailed(t) \/ MarkWrite(t) PROVE SchedulerTypes'
  BY <1>6 DEF MarkFailed, MarkWrite, Status, Terminal, Outcomes
<1>7. CASE Unwind
  BY <1>7 DEF Unwind, Exit
<1> QED
  BY <1>1, <1>2, <1>3, <1>4, <1>5, <1>6, <1>7 DEF RunBatch

LEMMA CallTypes ==
  ASSUME SchedulerTypes, NEW b \in Batches, Call(b)
  PROVE  SchedulerTypes'
BY DEF Call, store, SchedulerTypes, Outcomes

LEMMA WorkTypes ==
  ASSUME SchedulerTypes, NEW t \in Tasks, NEW from, NEW s \in Status,
         NEW to \in {"loaded", "running", "reporting", "failing", "ending", "finished"}, Work(t, from, to, s)
  PROVE  SchedulerTypes'
BY DEF Work, locals, Unsettled, SchedulerTypes

LEMMA DeathCounts ==
  ASSUME SchedulerTypes, NEW t \in Tasks, Die(t)
  PROVE  deaths' \in 0..MaxDeaths /\ MaxDeaths # 0
<1>1. deaths \in 0..MaxDeaths
  BY DEF SchedulerTypes
<1>2. deaths' = deaths + 1 /\ deaths < MaxDeaths
  BY DEF Die
<1> QED
  BY <1>1, <1>2, MaxDeathsAssumption

\* The workers, the pool and another scheduler.
LEMMA WorkerTypes ==
  ASSUME SchedulerTypes, NEW t \in Tasks, Worker(t) \/ Pool \/ Mishap(t) \/ Other
  PROVE  SchedulerTypes'
<1>1. CASE Load(t) \/ ReportLoad(t) \/ EndLoad(t) \/ GiveUp(t)
  BY <1>1, WorkTypes DEF Load, ReportLoad, EndLoad, GiveUp, SchedulerTypes
<1>2. CASE Start(t) \/ ReportWrite(t) \/ End(t)
  BY <1>2, WorkTypes DEF Start, ReportWrite, End, Status, Live, Terminal
<1>3. CASE Return(t)
  BY <1>3 DEF Return, store, locals, SchedulerTypes, Outcomes
<1>4. CASE Break
  <2>1. broken' \in BOOLEAN
    BY <1>4, Zenon DEF Break
  <2> QED
    BY <1>4, <2>1 DEF Break, store, locals, SchedulerTypes
<1>5. ASSUME NEW u \in Tasks, FailFuture(u) \/ Terminate(u) PROVE SchedulerTypes'
  BY <1>5 DEF FailFuture, Terminate, store, locals, SchedulerTypes, Outcomes
<1>6. CASE Escape(t)
  BY <1>6 DEF Escape, store, locals, SchedulerTypes, Outcomes
<1>7. CASE Die(t)
  BY <1>7, DeathCounts DEF Die, store, locals, SchedulerTypes
<1>8. CASE Other
  BY <1>8 DEF Other, OtherAcquire, OtherRelease, store, locals, pool, SchedulerTypes
<1> QED
  BY <1>1, <1>2, <1>3, <1>4, <1>5, <1>6, <1>7, <1>8 DEF Worker, Pool, Mishap

LEMMA SchedulingTypes ==
  ASSUME TypeOK, ActiveHoldsAlive, Scheduling
  PROVE  TypeOK'
<1>1. SchedulerTypes'
  <2>1. CASE PoolSteps \/ (Other /\ UNCHANGED <<managerVars, ipcVars, history>>)
    <3>1. CASE Break
      <4>1. \E t \in Tasks : TRUE
        BY <3>1 DEF Break
      <4> QED
        BY <2>1, <4>1, <3>1, WorkerTypes DEF Pool, TypeOK
    <3>2. ASSUME NEW t \in Tasks, FailFuture(t) \/ Terminate(t) PROVE SchedulerTypes'
      BY <3>2, WorkerTypes DEF Pool, TypeOK
    <3>3. CASE Other
      BY <3>3 DEF Other, OtherAcquire, OtherRelease, store, locals, pool, SchedulerTypes, TypeOK
    <3> QED
      BY <2>1, <3>1, <3>2, <3>3 DEF PoolSteps, Pool
  <2> QED
    BY <2>1, LoopTypes, WorkerTypes DEF Scheduling, Schedule, WorkerSteps, TypeOK
<1>2. starts' \in [Tasks -> Nat]
  <2>1. CASE UNCHANGED starts
    BY <2>1 DEF TypeOK, ManagerTypes
  <2>2. ASSUME NEW t \in Tasks, WorkerSteps(t) PROVE starts' \in [Tasks -> Nat]
    <3>1. starts \in [Tasks -> Nat]
      BY DEF TypeOK, ManagerTypes
    <3>2. starts[t] + (IF worker[t] = "loaded" THEN 1 ELSE 0) \in Nat
      BY <3>1
    <3> QED
      BY <2>2, <3>1, <3>2 DEF WorkerSteps
  <2> QED
    BY <2>1, <2>2 DEF Scheduling, Schedule, PoolSteps, history
<1>3. ManagerTypes'
  BY <1>2, SchedulingSteps DEF TypeOK, ManagerTypes, managerVars, ipcVars
<1> QED
  BY <1>1, <1>3 DEF TypeOK

\* A request names a batch, and a cancel the tasks it has still to look at.
LEMMA RequestFields ==
  ASSUME call \in Requests
  PROVE  /\ call.op \in {"submit", "start", "cancel", "transition", "write", "aggregate"} =>
              call.batch \in Batches /\ call # NoCall
         /\ call.op \in {"submit", "start"} =>
              /\ call.open \in BOOLEAN
              /\ call = [op |-> call.op, batch |-> call.batch, open |-> call.open]
         /\ call.op \in {"cancel", "transition", "write"} =>
              /\ call.tasks \in Seq(Tasks)
              /\ call = [op |-> call.op, batch |-> call.batch, tasks |-> call.tasks]
         /\ call.op = "aggregate" => call.as \in BatchStatus
BY DEF Requests, NoCall

LEMMA SubmitCall ==
  ASSUME NEW op \in {"submit", "start"}, NEW b \in Batches, NEW open \in BOOLEAN
  PROVE  [op |-> op, batch |-> b, open |-> open] \in Requests
BY DEF Requests

LEMMA CancelCall ==
  ASSUME NEW op \in {"cancel", "transition", "write"}, NEW b \in Batches, NEW ts \in Seq(Tasks)
  PROVE  [op |-> op, batch |-> b, tasks |-> ts] \in Requests
BY DEF Requests

\* What a cancel names.
LEMMA Named ==
  ASSUME SchedulerTypes, NEW b \in Batches, taskIds[b] # <<>>,
         NEW ts \in {taskIds[b]} \cup {<<t>> : t \in TasksOf(b)}
  PROVE  ts \in Seq(Tasks) /\ ToSet(ts) \subseteq TasksOf(b) /\ ts # <<>>
<1>1. taskIds[b] \in Seq(Tasks)
  BY DEF SchedulerTypes
<1>2. TasksOf(b) \subseteq Tasks
  BY <1>1 DEF TasksOf, ToSet
<1>3. ASSUME NEW t \in TasksOf(b), ts = <<t>>
      PROVE  ts \in Seq(Tasks) /\ ToSet(ts) \subseteq TasksOf(b) /\ ts # <<>>
  BY <1>2, <1>3 DEF ToSet
<1> QED
  BY <1>1, <1>3 DEF TasksOf

LEMMA DisconnectTypes ==
  ASSUME ManagerTypes, Disconnect
  PROVE  /\ inbox' \in Seq(Submissions) /\ call' = NoCall
         /\ client' \in [Batches -> ClientState]
BY DEF Disconnect, ManagerTypes, ClientState

\* A command, a crash, or a client whose time is up, is counted.
LEMMA Counted ==
  ASSUME ManagerTypes
  PROVE  /\ commands < MaxCommands => commands + 1 \in 0..MaxCommands
         /\ crashes < MaxCrashes => crashes + 1 \in 0..MaxCrashes
         /\ timeouts < MaxTimeouts => timeouts + 1 \in 0..MaxTimeouts
BY BoundsAssumption DEF ManagerTypes

LEMMA LapseTypes ==
  ASSUME ManagerTypes, NEW b \in Batches, Lapse(b)
  PROVE  client' \in [Batches -> ClientState] /\ timeouts' \in 0..MaxTimeouts
BY Counted DEF Lapse, ManagerTypes, ClientState

LEMMA AnswerTypes ==
  ASSUME ManagerTypes, call.batch \in Batches, NEW answer \in {"accepted", "refused"},
         Answer(answer)
  PROVE  /\ manager' = manager \/ manager' = "raised"
         /\ inbox' \in Seq(Submissions) /\ call' = NoCall
         /\ client' \in [Batches -> ClientState] /\ timeouts' \in 0..MaxTimeouts
<1>1. CASE Hangup /\ UNCHANGED timeouts
  <2>1. timeouts' \in 0..MaxTimeouts
    BY <1>1 DEF ManagerTypes
  <2> QED
    BY <1>1, <2>1, DisconnectTypes DEF Hangup
<1>2. CASE Lapse(call.batch) /\ call' = NoCall /\ UNCHANGED <<manager, inbox>>
  BY <1>2, LapseTypes DEF ManagerTypes
<1>3. CASE /\ client' = [client EXCEPT ![call.batch] = IF @ \in Waiting THEN answer ELSE @]
           /\ call' = NoCall /\ UNCHANGED <<manager, inbox, timeouts>>
  BY <1>3 DEF ManagerTypes, ClientState
<1> QED
  BY <1>1, <1>2, <1>3 DEF Answer

LEMMA StartBatchTypes ==
  ASSUME ManagerTypes, NEW b \in Batches, StartBatch(b)
  PROVE  queue' \in Seq(Batches) /\ draining' \in BOOLEAN
<1>1. queue \in Seq(Batches)
  BY DEF ManagerTypes
<1>2. Append(queue, b) \in Seq(Batches)
  BY <1>1, Appended
<1> QED
  BY <1>1, <1>2 DEF StartBatch

\* The IPC server.
LEMMA ServeTypes ==
  ASSUME TypeOK, Serve
  PROVE  TypeOK'
<1> USE DEF schedVars, managerVars, store, locals, pool, history
<1>1. CASE Accept
  <2>1. inbox # <<>> /\ inbox \in Seq(Submissions)
    BY <1>1 DEF Accept, TypeOK, ManagerTypes
  <2>2. Head(inbox) \in Submissions /\ Tail(inbox) \in Seq(Submissions)
    BY <2>1
  <2>3. call' \in Requests /\ call'.op \notin {"transition", "write"}
    BY <1>1, <2>2 DEF Accept, Requests, Submissions
  <2> QED
    BY <1>1, <2>2, <2>3 DEF Accept, TypeOK, SchedulerTypes, ManagerTypes
<1>2. CASE Submitted
  <2>1. call.batch \in Batches
    BY <1>2, RequestFields DEF Submitted, TypeOK, ManagerTypes
  <2>2. /\ call' \in Requests /\ call'.op \notin {"transition", "write"}
        /\ inbox' \in Seq(Submissions) /\ manager' \in {manager, "raised"}
        /\ client' \in [Batches -> ClientState] /\ timeouts' \in 0..MaxTimeouts
        /\ UNCHANGED <<retryOf, starts, commands, crashes>>
    <3>1. CASE bstatus[call.batch] = "queued"
      <4>1. call' = [op |-> "start", batch |-> call.batch, open |-> call.open]
            /\ call.open \in BOOLEAN
        BY <1>2, <3>1, RequestFields DEF Submitted, TypeOK, ManagerTypes
      <4>2. call' \in Requests /\ call'.op = "start"
        BY <2>1, <4>1 DEF Requests
      <4> QED
        BY <1>2, <3>1, <4>2 DEF Submitted, TypeOK, ManagerTypes
    <3>2. CASE Answer("refused")
      <4>1. UNCHANGED <<retryOf, starts, commands, crashes>>
        BY <3>2 DEF Answer
      <4> QED
        BY <2>1, <3>2, <4>1, AnswerTypes DEF TypeOK, Requests, NoCall
    <3> QED
      BY <1>2, <3>1, <3>2 DEF Submitted
  <2> QED
    BY <1>2, <2>2, ZenonT(60) DEF Submitted, TypeOK, SchedulerTypes, ManagerTypes
<1>3. CASE Enqueue
  <2>1. call.batch \in Batches
    BY <1>3, RequestFields DEF Enqueue, TypeOK, ManagerTypes
  <2>2. queue' \in Seq(Batches) /\ draining' \in BOOLEAN
    BY <1>3, <2>1, StartBatchTypes DEF Enqueue, TypeOK
  <2>3. /\ call' \in Requests /\ call'.op \notin {"transition", "write"}
        /\ inbox' \in Seq(Submissions) /\ manager' \in {manager, "raised"}
        /\ client' \in [Batches -> ClientState] /\ timeouts' \in 0..MaxTimeouts
        /\ UNCHANGED <<retryOf, starts, commands, crashes>>
    <3>1. Answer("accepted")
      BY <1>3 DEF Enqueue
    <3>2. UNCHANGED <<retryOf, starts, commands, crashes>>
      BY <3>1 DEF Answer
    <3> QED
      BY <2>1, <3>1, <3>2, AnswerTypes DEF TypeOK, Requests, NoCall
  <2> QED
    BY <1>3, <2>2, <2>3, ZenonT(60) DEF Enqueue, TypeOK, SchedulerTypes, ManagerTypes
<1>4. CASE CancelNext
  <2>1. /\ call.batch \in Batches /\ call.tasks \in Seq(Tasks) /\ call.tasks # <<>>
        /\ call = [op |-> "cancel", batch |-> call.batch, tasks |-> call.tasks]
    BY <1>4, RequestFields DEF CancelNext, TypeOK, ManagerTypes
  <2>2. Head(call.tasks) \in Tasks /\ Tail(call.tasks) \in Seq(Tasks)
    BY <2>1
  <2>3. CASE status[Head(call.tasks)] = "queued"
    <3>1. call' = [op |-> "transition", batch |-> call.batch, tasks |-> call.tasks]
      BY <1>4, <2>1, <2>3 DEF CancelNext
    <3>2. call' \in Requests /\ call'.tasks # <<>>
      BY <2>1, <3>1, CancelCall
    <3> QED
      BY <1>4, <2>3, <3>2, ZenonT(60) DEF CancelNext, ipcVars, TypeOK, SchedulerTypes,
         ManagerTypes
  <2>4. CASE status[Head(call.tasks)] # "queued"
    <3>1. call' = [op |-> "cancel", batch |-> call.batch, tasks |-> Tail(call.tasks)]
      BY <1>4, <2>1, <2>4 DEF CancelNext
    <3>2. call' \in Requests /\ call'.op = "cancel"
      BY <2>1, <2>2, <3>1, CancelCall
    <3>3. cancel' \subseteq Tasks
      BY <1>4, <2>2, <2>4 DEF CancelNext, TypeOK, SchedulerTypes
    <3> QED
      BY <1>4, <3>2, <3>3, ZenonT(60) DEF CancelNext, ipcVars, TypeOK, SchedulerTypes,
         ManagerTypes
  <2> QED
    BY <2>3, <2>4
<1>5. CASE CancelLoad
  <2>1. /\ call.batch \in Batches /\ call.tasks \in Seq(Tasks) /\ call.tasks # <<>>
        /\ call = [op |-> "transition", batch |-> call.batch, tasks |-> call.tasks]
    BY <1>5, RequestFields DEF CancelLoad, TypeOK, ManagerTypes
  <2>2. \/ call' = [op |-> "write", batch |-> call.batch, tasks |-> call.tasks]
        \/ call' = NoCall
    BY <1>5, <2>1 DEF CancelLoad
  <2>3. call' \in Requests /\ (call'.op \in {"transition", "write"} => call'.tasks # <<>>)
    BY <2>1, <2>2, CancelCall DEF Requests, NoCall
  <2> QED
    BY <1>5, <2>3, ZenonT(60) DEF CancelLoad, TypeOK, SchedulerTypes, ManagerTypes
<1>6. CASE CancelWrite
  <2>1. /\ call.batch \in Batches /\ call.tasks \in Seq(Tasks) /\ call.tasks # <<>>
        /\ call = [op |-> "write", batch |-> call.batch, tasks |-> call.tasks]
    BY <1>6, RequestFields DEF CancelWrite, TypeOK, ManagerTypes
  <2>2. Head(call.tasks) \in Tasks /\ Tail(call.tasks) \in Seq(Tasks)
    BY <2>1
  <2>3. call' = [op |-> "cancel", batch |-> call.batch, tasks |-> Tail(call.tasks)]
    BY <1>6, <2>1 DEF CancelWrite
  <2>4. call' \in Requests /\ call'.op = "cancel"
    BY <2>1, <2>2, <2>3, CancelCall
  <2> QED
    BY <1>6, <2>2, <2>4, ZenonT(60) DEF CancelWrite, TypeOK, SchedulerTypes, ManagerTypes,
       Status, Terminal
<1>7. CASE CancelRead
  <2>1. call' \in Requests /\ call'.op = "aggregate"
    BY <1>7, RequestFields, AggregateType DEF CancelRead, TypeOK, ManagerTypes, Requests
  <2> QED
    BY <1>7, <2>1, ZenonT(60) DEF CancelRead, TypeOK, SchedulerTypes, ManagerTypes
<1>8. CASE CancelAggregate
  <2>1. call.batch \in Batches /\ call.as \in BatchStatus
    BY <1>8, RequestFields DEF CancelAggregate, TypeOK, ManagerTypes
  <2> QED
    BY <1>8, <2>1, ZenonT(60) DEF CancelAggregate, TypeOK, SchedulerTypes, ManagerTypes,
       Requests, NoCall
<1> QED
  BY <1>1, <1>2, <1>3, <1>4, <1>5, <1>6, <1>7, <1>8 DEF Serve

\* The tasks that new ones retry are those that are picked.
LEMMA PickedTasks ==
  ASSUME NEW s, NEW S, S \subseteq Tasks, NEW again \in Picked(s, S),
         NEW new \in Seq(Tasks), Len(new) = Len(again)
  PROVE  \A i \in DOMAIN new : again[i] \in S
<1>1. Cardinality(S) \in Nat
  BY TasksAssumption, FS_Subset, FS_CardinalityType
<1>2. again \in [1..Cardinality(S) -> S]
  BY DEF Picked
<1>3. Len(again) = Cardinality(S)
  BY <1>1, <1>2
<1>4. DOMAIN new = 1..Cardinality(S)
  BY <1>3
<1> QED
  BY <1>2, <1>4

\* A retry: from a batch b, of the tasks S, with the new ids new.
LEMMA RetryFacts ==
  ASSUME TypeOK, NEW b \in Batches, NEW c \in Batches, Retry(b, c)
  PROVE  /\ c \in NewBatches /\ call' = [op |-> "start", batch |-> c, open |-> TRUE]
         /\ taskIds[b] # <<>>
         /\ \E new \in Fresh :
              /\ taskIds' = [taskIds EXCEPT ![c] = new]
              /\ \A t \in Tasks : retryOf'[t] =  retryOf[t]
                   \/ /\ retryOf'[t] \in TasksOf(b)
                      /\ status[retryOf'[t]] \in {"failed", "interrupted", "cancelled"}
         /\ retryOf' \in [Tasks -> Tasks \cup {NoTask}]
<1> DEFINE unfinished == {"failed", "interrupted", "cancelled"}
<1>1. PICK ts \in {taskIds[b]} \cup {<<t>> : t \in TasksOf(b)} :
        \E again \in Picked(ts, {t \in ToSet(ts) : status[t] \in unfinished}), new \in Fresh :
          /\ Len(new) = Len(again)
          /\ taskIds' = [taskIds EXCEPT ![c] = new]
          /\ retryOf' = [t \in Tasks |-> IF t \in ToSet(new)
                           THEN again[CHOOSE i \in DOMAIN new : new[i] = t] ELSE retryOf[t]]
  BY DEF Retry, RetryOf
<1> DEFINE S == {t \in ToSet(ts) : status[t] \in unfinished}
<1>11. PICK again \in Picked(ts, S), new \in Fresh :
         /\ Len(new) = Len(again)
         /\ taskIds' = [taskIds EXCEPT ![c] = new]
         /\ retryOf' = [t \in Tasks |-> IF t \in ToSet(new)
                          THEN again[CHOOSE i \in DOMAIN new : new[i] = t] ELSE retryOf[t]]
  BY <1>1
<1>2. taskIds[b] \in Seq(Tasks)
  BY DEF TypeOK, SchedulerTypes
<1>3. TasksOf(b) \subseteq Tasks
  BY <1>2 DEF TasksOf, ToSet
<1>4. ToSet(ts) \subseteq TasksOf(b)
  <2>1. CASE ts = taskIds[b]
    BY <2>1 DEF TasksOf
  <2>2. ASSUME NEW t \in TasksOf(b), ts = <<t>> PROVE ToSet(ts) \subseteq TasksOf(b)
    BY <2>2 DEF ToSet
  <2> QED
    BY <2>1, <2>2
<1>5. new \in Seq(Tasks) /\ new # <<>>
  BY FreshIds
<1>12. S \subseteq Tasks
  BY <1>3, <1>4
<1> HIDE DEF S
<1>6. ASSUME NEW t \in ToSet(new) PROVE again[CHOOSE i \in DOMAIN new : new[i] = t] \in S
  <2>1. \A i \in DOMAIN new : again[i] \in S
    BY <1>11, <1>12, <1>5, PickedTasks
  <2>2. \E i \in DOMAIN new : new[i] = t
    BY DEF ToSet
  <2>3. (CHOOSE i \in DOMAIN new : new[i] = t) \in DOMAIN new
    BY <2>2
  <2> QED
    BY <2>1, <2>3
<1>7. \A t \in Tasks : retryOf'[t] = retryOf[t] \/ retryOf'[t] \in S
  BY <1>11, <1>6
<1>8. taskIds[b] # <<>>
  <2>2. PICK t \in ToSet(new) : TRUE
    BY <1>5, HeadAndTail
  <2>3. S # {}
    BY <1>6, <2>2
  <2>4. PICK u \in ToSet(taskIds[b]) : TRUE
    BY <1>4, <2>3 DEF TasksOf, S
  <2> QED
    BY <2>4 DEF ToSet
<1>9. retryOf' \in [Tasks -> Tasks \cup {NoTask}]
  BY <1>11, <1>12, <1>6 DEF TypeOK, ManagerTypes
<1>10. c \in NewBatches /\ call' = [op |-> "start", batch |-> c, open |-> TRUE]
  BY <1>11 DEF Retry, RetryOf
<1> QED
  BY <1>11, <1>4, <1>7, <1>8, <1>9, <1>10 DEF S

\* The batch that recovery looks at is aggregated and perhaps queued.
LEMMA RecoverTypes ==
  ASSUME TypeOK, Recover
  PROVE  TypeOK'
<1> USE DEF schedVars, managerVars, ipcVars, store, locals, pool, history
<1>1. CASE RecoverJobs
  BY <1>1 DEF RecoverJobs, TypeOK, SchedulerTypes, ManagerTypes, Status, Terminal
<1>2. ASSUME NEW b \in Batches, RecoverBatch(b) PROVE TypeOK'
  <2>1. queue' \in Seq(Batches) /\ draining' \in BOOLEAN
    BY <1>2, StartBatchTypes DEF RecoverBatch, TypeOK, ManagerTypes
  <2>2. bstatus' \in [Batches -> BatchStatus]
    BY <1>2, AggregateType DEF RecoverBatch, TypeOK, SchedulerTypes
  <2> QED
    BY <1>2, <2>1, <2>2 DEF RecoverBatch, TypeOK, SchedulerTypes, ManagerTypes
<1>3. CASE Recovered
  BY <1>3 DEF Recovered, TypeOK, SchedulerTypes, ManagerTypes
<1> QED
  BY <1>1, <1>2, <1>3 DEF Recover

\* transcribe --bg.
LEMMA ClientTypes ==
  ASSUME TypeOK, NEW b \in Batches, Client(b)
  PROVE  TypeOK'
<1> USE DEF schedVars, managerVars, store, locals, pool, history
<1>1. CASE Persist(b)
  <2>1. PICK new \in Fresh : taskIds' = [taskIds EXCEPT ![b] = new]
    BY <1>1 DEF Persist
  <2>2. new \in Seq(Tasks)
    BY FreshIds
  <2>5. SchedulerTypes'
    BY <1>1, <2>1, <2>2 DEF Persist, TypeOK, SchedulerTypes
  <2>6. ManagerTypes'
    BY <1>1 DEF Persist, TypeOK, ManagerTypes, ClientState
  <2> QED
    BY <2>5, <2>6 DEF TypeOK
<1>2. CASE Send(b)
  <2>1. Append(inbox, [batch |-> b, open |-> TRUE]) \in Seq(Submissions)
    BY Appended DEF TypeOK, ManagerTypes, Submissions
  <2>5. SchedulerTypes'
    BY <1>2 DEF Send, TypeOK, SchedulerTypes
  <2>6. ManagerTypes'
    BY <1>2, <2>1 DEF Send, TypeOK, ManagerTypes, ClientState, Waiting
  <2> QED
    BY <2>5, <2>6 DEF TypeOK
<1>3. CASE GiveUpSubmit(b)
  <2>1. SchedulerTypes'
    BY <1>3 DEF GiveUpSubmit, TypeOK, SchedulerTypes
  <2>2. ManagerTypes'
    BY <1>3 DEF GiveUpSubmit, TypeOK, ManagerTypes, ClientState
  <2> QED
    BY <2>1, <2>2 DEF TypeOK
<1>4. CASE TimeOut(b)
  <2>1. SchedulerTypes'
    BY <1>4 DEF TimeOut, TypeOK, SchedulerTypes
  <2>2. client' \in [Batches -> ClientState] /\ timeouts' \in 0..MaxTimeouts
    BY <1>4, LapseTypes DEF TimeOut, TypeOK
  <2>3. inbox' \in Seq(Submissions)
    <3>1. inbox \in Seq(Submissions)
      BY DEF TypeOK, ManagerTypes
    <3>2. [batch |-> b, open |-> FALSE] \in Submissions
      BY Zenon DEF Submissions
    <3>3. inbox' = [i \in 1..Len(inbox) |->
                     IF inbox[i].batch = b THEN [batch |-> b, open |-> FALSE] ELSE inbox[i]]
      BY <1>4, <3>1 DEF TimeOut
    <3> QED
      BY <3>1, <3>2, <3>3
  <2>4. call' \in Requests /\ (call'.op \in {"transition", "write"} => call'.tasks # <<>>)
    <3>1. CASE call.op \in {"submit", "start"} /\ call.batch = b
      <4>1. call' = [op |-> call.op, batch |-> call.batch, open |-> FALSE]
        BY <1>4, <3>1, RequestFields DEF TimeOut, TypeOK, ManagerTypes
      <4> QED
        BY <3>1, <4>1 DEF Requests
    <3>2. CASE UNCHANGED call
      BY <3>2 DEF TypeOK, ManagerTypes
    <3> QED
      BY <1>4, <3>1, <3>2 DEF TimeOut
  <2>5. ManagerTypes'
    BY <1>4, <2>2, <2>3, <2>4, ZenonT(60) DEF TimeOut, TypeOK, ManagerTypes
  <2> QED
    BY <2>1, <2>5 DEF TypeOK
<1> QED
  BY <1>1, <1>2, <1>3, <1>4 DEF Client

LEMMA ManagerStepTypes ==
  ASSUME TypeOK, ManagerStep
  PROVE  TypeOK'
<1> USE DEF schedVars, managerVars, ipcVars, store, locals, pool, history
<1>1. CASE Drained \/ Boot("down") \/ Boot("crashed")
  BY <1>1, ZenonT(60) DEF Drained, Boot, TypeOK, SchedulerTypes, ManagerTypes
<1>2. ASSUME NEW b \in Batches, CancelRequest(b) PROVE TypeOK'
  <2>1. PICK ts \in {taskIds[b]} \cup {<<t>> : t \in TasksOf(b)} :
          call' = [op |-> "cancel", batch |-> b, tasks |-> ts]
    BY <1>2 DEF CancelRequest
  <2>2. call' \in Requests /\ call'.op = "cancel"
    BY <1>2, <2>1, Named, CancelCall DEF CancelRequest, TypeOK
  <2>3. commands' \in 0..MaxCommands
    BY <1>2, Counted DEF CancelRequest, Request, Command, TypeOK
  <2> QED
    BY <1>2, <2>2, <2>3, ZenonT(60) DEF CancelRequest, TypeOK, SchedulerTypes, ManagerTypes
<1>3. ASSUME NEW b \in Batches, NEW c \in Batches, Retry(b, c) PROVE TypeOK'
  <2>1. taskIds' \in [Batches -> Seq(Tasks)]
    BY <1>3, RetryFacts, FreshIds DEF TypeOK, SchedulerTypes
  <2>2. call' \in Requests /\ call'.op = "start"
    <3>1. [op |-> "start", batch |-> c, open |-> TRUE] \in Requests
      BY DEF Requests
    <3>2. call' = [op |-> "start", batch |-> c, open |-> TRUE]
      BY <1>3, RetryFacts
    <3> QED
      BY <3>1, <3>2
  <2>3. commands' \in 0..MaxCommands
    BY <1>3, Counted DEF Retry, RetryOf, Request, Command, TypeOK
  <2>4. retryOf' \in [Tasks -> Tasks \cup {NoTask}]
    BY <1>3, RetryFacts
  <2> QED
    BY <1>3, <2>1, <2>2, <2>3, <2>4, ZenonT(60) DEF Retry, RetryOf, TypeOK, SchedulerTypes,
       ManagerTypes
<1>4. CASE Stop
  <2>1. commands' \in 0..MaxCommands
    BY <1>4, Counted DEF Stop, Request, Command, TypeOK
  <2> QED
    BY <1>4, <2>1 DEF Stop, TypeOK, SchedulerTypes, ManagerTypes
<1>5. CASE LostClient \/ Stopped
  <2>1. /\ inbox' \in Seq(Submissions) /\ call' = NoCall
        /\ client' \in [Batches -> ClientState]
    BY <1>5, DisconnectTypes DEF LostClient, Hangup, Stopped, TypeOK
  <2>2. timeouts' \in 0..MaxTimeouts
    BY <1>5, Counted DEF LostClient, Stopped, TypeOK, ManagerTypes
  <2>3. call' \in Requests /\ call'.op \notin {"transition", "write"}
    BY <2>1 DEF Requests, NoCall
  <2> QED
    BY <1>5, <2>1, <2>2, <2>3 DEF LostClient, Hangup, Stopped, TypeOK, SchedulerTypes,
       ManagerTypes
<1> QED
  BY <1>1, <1>2, <1>3, <1>4, <1>5, ServeTypes, RecoverTypes, ClientTypes DEF ManagerStep

\* The drain thread takes a batch up or leaves it, and the manager crashes.
LEMMA DrainTypes ==
  ASSUME TypeOK, Dequeue \/ Settle \/ Died
  PROVE  TypeOK'
<1> USE DEF schedVars, managerVars, ipcVars, store, locals, pool, history
<1>1. CASE Dequeue
  <2>1. queue \in Seq(Batches) /\ queue # <<>>
    BY <1>1 DEF Dequeue, TypeOK, ManagerTypes
  <2>2. Head(queue) \in Batches /\ Tail(queue) \in Seq(Batches)
    BY <2>1
  <2>3. SchedulerTypes'
    BY <1>1, <2>2, CallTypes DEF Dequeue, TypeOK
  <2> QED
    BY <1>1, <2>2, <2>3 DEF Dequeue, TypeOK, ManagerTypes
<1>2. CASE Settle
  BY <1>2 DEF Settle, TypeOK, SchedulerTypes, ManagerTypes
<1>3. CASE Died
  <2>1. PICK to \in {"crashed", "down"} : Halt(to)
    BY <1>3 DEF Died, Crash, StopService
  <2>2. inbox' \in Seq(Submissions) /\ call' = NoCall /\ client' \in [Batches -> ClientState]
    BY <2>1, DisconnectTypes DEF Halt, TypeOK
  <2>3. crashes' \in 0..MaxCrashes /\ commands' \in 0..MaxCommands
    BY <1>3, Counted DEF Died, Crash, StopService, Command, TypeOK, ManagerTypes
  <2>4. call' \in Requests /\ call'.op \notin {"transition", "write"}
    BY <2>2 DEF Requests, NoCall
  <2>5. draining' \in BOOLEAN
    BY <2>1, Zenon DEF Halt
  <2>6. SchedulerTypes'
    BY <2>1 DEF Halt, TypeOK, SchedulerTypes, Outcomes
  <2> QED
    BY <2>1, <2>2, <2>3, <2>4, <2>5, <2>6 DEF Halt, TypeOK, ManagerTypes
<1> QED
  BY <1>1, <1>2, <1>3

LEMMA StutterTypes ==
  ASSUME TypeOK, UNCHANGED vars
  PROVE  TypeOK'
<1> USE DEF vars, schedVars, managerVars, ipcVars, store, locals, pool, history
<1>1. SchedulerTypes'
  BY DEF TypeOK, SchedulerTypes
<1>2. ManagerTypes'
  BY DEF TypeOK, ManagerTypes
<1> QED
  BY <1>1, <1>2 DEF TypeOK

LEMMA TypesStep ==
  ASSUME TypeOK, ActiveHoldsAlive, [Next]_vars
  PROVE  TypeOK'
BY NextSteps, ManagerStepTypes, SchedulingTypes, DrainTypes, StutterTypes

LEMMA TypesInit == Init => TypeOK
<1> SUFFICES ASSUME Init PROVE TypeOK
  OBVIOUS
<1>1. SchedulerTypes
  <2>1. deaths \in 0..MaxDeaths
    BY MaxDeathsAssumption DEF Init, SchedInit
  <2>2. broken \in BOOLEAN
    BY Zenon DEF Init, SchedInit
  <2> QED
    BY <2>1, <2>2 DEF Init, SchedInit, SchedulerTypes, Status, Live, Outcomes, BatchStatus
<1>2. ManagerTypes
  <2>1. commands \in 0..MaxCommands /\ crashes \in 0..MaxCrashes /\ timeouts \in 0..MaxTimeouts
    BY BoundsAssumption DEF Init
  <2>2. call \in Requests /\ call.op \notin {"transition", "write"}
    BY DEF Init, Requests, NoCall
  <2>3. draining \in BOOLEAN
    BY Zenon DEF Init
  <2> QED
    BY <2>1, <2>2, <2>3 DEF Init, ManagerTypes, ClientState
<1> QED
  BY <1>1, <1>2 DEF TypeOK

-----------------------------------------------------------------------------
(* The lock and the workers.                                               *)

\* A step that lets no worker live that did not live before keeps their number.
LEMMA NoMoreAlive ==
  ASSUME AliveBounded, \A t \in Tasks : Alive(t)' => Alive(t)
  PROVE  AliveBounded'
<1>1. IsFiniteSet(Alives)
  BY TasksAssumption, FS_Subset DEF Alives
<1>2. Alives' \subseteq Alives
  BY DEF Alives
<1>3. Cardinality(Alives') <= Cardinality(Alives)
  BY <1>1, <1>2, FS_Subset
<1>4. Cardinality(Alives) \in Nat /\ Cardinality(Alives') \in Nat
  BY <1>1, <1>2, FS_Subset, FS_CardinalityType
<1> QED
  BY <1>3, <1>4, WorkersAssumption DEF AliveBounded

LEMMA NoMoreActive ==
  ASSUME SchedulerTypes, ActiveBounded, active' \subseteq active
  PROVE  ActiveBounded'
<1>1. IsFiniteSet(active)
  BY TasksAssumption, FS_Subset DEF SchedulerTypes
<1>2. Cardinality(active') <= Cardinality(active)
  BY <1>1, FS_Subset
<1>3. Cardinality(active) \in Nat /\ Cardinality(active') \in Nat
  BY <1>1, FS_Subset, FS_CardinalityType
<1> QED
  BY <1>2, <1>3, WorkersAssumption DEF ActiveBounded

\* A step that starts no worker.
LEMMA NoWorkerStarted ==
  ASSUME SchedulerTypes, PoolInv, LockHeld', ActiveHoldsAlive', active' \subseteq active,
         \A t \in Tasks : Alive(t)' => Alive(t)
  PROVE  PoolInv'
BY NoMoreAlive, NoMoreActive DEF PoolInv

\* A step that leaves run_batch, the pool and the lock alone, and lets at most the
\* workers that lived live on.
LEMMA WorkersLive ==
  ASSUME SchedulerTypes, PoolInv, UNCHANGED <<pc, lock, active, done, future, broken>>,
         \A t \in Tasks : Alive(t)' => Alive(t)
  PROVE  PoolInv'
<1>1. LockHeld' /\ ActiveHoldsAlive'
  BY DEF PoolInv, LockHeld, ActiveHoldsAlive
<1> QED
  BY <1>1, NoWorkerStarted

LEMMA WorkLives ==
  ASSUME SchedulerTypes, NEW t \in Tasks, NEW from, from \subseteq Unsettled, NEW to, NEW s,
         Work(t, from, to, s)
  PROVE  /\ \A u \in Tasks : Alive(u)' => Alive(u)
         /\ UNCHANGED <<pc, lock, active, done, future, broken>>
<1>1. /\ worker[t] \in Unsettled
      /\ worker' = [worker EXCEPT ![t] = to]
      /\ UNCHANGED <<pc, lock, active, done, future, broken>>
  BY DEF Work, locals
<1>2. ASSUME NEW u \in Tasks, Alive(u)' PROVE Alive(u)
  <2>1. CASE u = t
    BY <1>1, <2>1 DEF Alive, Unsettled
  <2>2. CASE u # t
    BY <1>1, <1>2, <2>2 DEF Alive, SchedulerTypes
  <2> QED
    BY <2>1, <2>2
<1> QED
  BY <1>1, <1>2

LEMMA SubmitStep ==
  ASSUME SchedulerTypes, PoolInv, Submit
  PROVE  PoolInv'
<1> USE DEF PoolInv
<1> DEFINE t == Head(pending)
<1>1. /\ pc = "fill" /\ ~broken /\ t \in Tasks /\ Cardinality(active) < Workers
      /\ active' = active \cup {t}
      /\ worker' = [worker EXCEPT ![t] = "submitted"]
      /\ future' = [future EXCEPT ![t] = "pending"]
      /\ UNCHANGED <<lock, pc, done, broken>>
  BY PendingType DEF Submit, Room
<1>2. \A u \in Tasks : Alive(u)' <=> u = t \/ Alive(u)
  BY <1>1 DEF Alive, Unsettled, SchedulerTypes
<1>3. LockHeld'
  BY <1>1, <1>2 DEF LockHeld, Inside, Loop
<1>4. ActiveHoldsAlive'
  <2>1. done' = {}
    BY <1>1 DEF ActiveHoldsAlive
  <2>2. ASSUME NEW u \in Tasks, Alive(u)' PROVE u \in active' /\ future'[u] = "pending"
    <3>1. u = t \/ (u \in active /\ future[u] = "pending")
      BY <1>1, <1>2, <2>2 DEF ActiveHoldsAlive
    <3> QED
      BY <1>1, <3>1 DEF SchedulerTypes
  <2> QED
    BY <1>1, <2>1, <2>2 DEF ActiveHoldsAlive
<1>5. ActiveBounded' /\ IsFiniteSet(active')
  <2>1. IsFiniteSet(active)
    BY TasksAssumption, FS_Subset DEF SchedulerTypes
  <2>2. Cardinality(active') = IF t \in active THEN Cardinality(active) ELSE Cardinality(active) + 1
    BY <1>1, <2>1, FS_AddElement
  <2>3. Cardinality(active) \in Nat
    BY <2>1, FS_CardinalityType
  <2>4. IsFiniteSet(active')
    BY <1>1, <2>1, FS_AddElement
  <2>5. Cardinality(active) < Workers
    BY <1>1
  <2>6. Cardinality(active') <= Workers
    BY <2>2, <2>3, <2>5, WorkersAssumption
  <2> QED
    BY <2>4, <2>6 DEF ActiveBounded
<1>6. AliveBounded'
  <2>1. Alives' \subseteq active'
    BY <1>1, <1>4 DEF ActiveHoldsAlive, Alives
  <2>2. Cardinality(Alives') <= Cardinality(active')
    BY <1>5, <2>1, FS_Subset
  <2>3. Cardinality(Alives') \in Nat /\ Cardinality(active') \in Nat
    BY <1>5, <2>1, FS_Subset, FS_CardinalityType
  <2> QED
    BY <1>5, <2>2, <2>3, WorkersAssumption DEF AliveBounded, ActiveBounded
<1> QED
  BY <1>3, <1>4, <1>5, <1>6

LEMMA LoopStep ==
  ASSUME SchedulerTypes, PoolInv, RunBatch
  PROVE  PoolInv'
<1>1. CASE Submit
  BY <1>1, SubmitStep
<1>2. CASE ~Submit
  <2> USE DEF PoolInv, LockHeld, Inside, Loop, ActiveHoldsAlive, Alive, store, locals, pool
  <2>1. UNCHANGED worker /\ active' \subseteq active
    BY <1>2 DEF RunBatch, Acquire, LockBusy, SubmitRaises, Block, SampleAgain, StopFilling,
       Wait, Collect, MarkFailed, MarkWrite, EndOfRound, Leave, Unwind, Exit
  <2>2. LockHeld'
    BY <1>2 DEF RunBatch, Acquire, LockBusy, SubmitRaises, Block, SampleAgain, StopFilling,
       Wait, Collect, MarkFailed, MarkWrite, EndOfRound, Leave, Unwind, Exit
  <2>3. ActiveHoldsAlive'
    <3>1. CASE Wait
      BY <3>1 DEF Wait, SchedulerTypes
    <3>2. ASSUME NEW t \in Tasks, Collect(t) PROVE ActiveHoldsAlive'
      BY <3>2 DEF Collect
    <3> QED
      BY <1>2, <3>1, <3>2 DEF RunBatch, Acquire, LockBusy, SubmitRaises, Block, SampleAgain,
         StopFilling, MarkFailed, MarkWrite, EndOfRound, Leave, Unwind, Exit
  <2> QED
    BY <2>1, <2>2, <2>3, NoWorkerStarted
<1> QED
  BY <1>1, <1>2

\* The future of a task is settled; the task's worker does not live then.
LEMMA SettleStep ==
  ASSUME SchedulerTypes, PoolInv, NEW t \in Tasks, NEW f, f # "pending",
         future' = [future EXCEPT ![t] = f],
         UNCHANGED <<pc, lock, active, done, broken>>,
         \A u \in Tasks : Alive(u)' => Alive(u) /\ u # t
  PROVE  PoolInv'
<1>1. \A u \in Tasks : future'[u] = IF u = t THEN f ELSE future[u]
  BY DEF SchedulerTypes
<1>2. LockHeld'
  BY DEF PoolInv, LockHeld
<1>3. ActiveHoldsAlive'
  <2>1. \A u \in done' : future'[u] # "pending"
    BY <1>1 DEF PoolInv, ActiveHoldsAlive, SchedulerTypes
  <2>2. ASSUME ~broken', NEW u \in Tasks, Alive(u)' PROVE u \in active' /\ future'[u] = "pending"
    BY <1>1, <2>2 DEF PoolInv, ActiveHoldsAlive
  <2>3. pc' \in {"lock", "fill", "blocked", "wait"} => done' = {}
    BY DEF PoolInv, ActiveHoldsAlive
  <2> QED
    BY <2>1, <2>2, <2>3 DEF ActiveHoldsAlive
<1> QED
  BY <1>2, <1>3, NoWorkerStarted

LEMMA WorkerStep ==
  ASSUME SchedulerTypes, PoolInv, NEW t \in Tasks, Worker(t) \/ Mishap(t)
  PROVE  PoolInv'
<1>1. CASE \/ Load(t) \/ Start(t) \/ ReportLoad(t) \/ ReportWrite(t)
           \/ EndLoad(t) \/ End(t) \/ GiveUp(t)
  <2>1. \E from \in SUBSET Unsettled : \E to, s : Work(t, from, to, s)
    BY <1>1 DEF Load, Start, ReportLoad, ReportWrite, EndLoad, End, GiveUp, Unsettled
  <2> QED
    BY <2>1, WorkLives, WorkersLive
<1>2. CASE Return(t)
  <2>1. \A u \in Tasks : Alive(u)' => Alive(u) /\ u # t
    BY <1>2 DEF Return, Alive, Unsettled
  <2> QED
    BY <1>2, <2>1, SettleStep DEF Return, locals
<1>3. CASE Escape(t)
  <2>1. \A u \in Tasks : Alive(u)' => Alive(u) /\ u # t
    BY <1>3 DEF Escape, Alive, Unsettled, SchedulerTypes
  <2> QED
    BY <1>3, <2>1, SettleStep DEF Escape, locals
<1>4. CASE Die(t)
  <2>1. \A u \in Tasks : Alive(u)' => Alive(u)
    BY <1>4 DEF Die, Alive, Unsettled, SchedulerTypes
  <2> QED
    BY <1>4, <2>1, WorkersLive DEF Die, locals
<1> QED
  BY <1>1, <1>2, <1>3, <1>4 DEF Worker, Mishap

LEMMA PoolStep ==
  ASSUME SchedulerTypes, PoolInv, Pool \/ Other
  PROVE  PoolInv'
<1> USE DEF PoolInv, LockHeld, ActiveHoldsAlive, Alive, locals, pool
<1>1. CASE Break
  BY <1>1, NoWorkerStarted DEF Break
<1>2. ASSUME NEW t \in Tasks, FailFuture(t) PROVE PoolInv'
  BY <1>2, NoWorkerStarted DEF FailFuture, SchedulerTypes
<1>3. ASSUME NEW t \in Tasks, Terminate(t) PROVE PoolInv'
  <2>1. \A u \in Tasks : Alive(u)' => Alive(u)
    BY <1>3 DEF Terminate, SchedulerTypes
  <2> QED
    BY <1>3, <2>1, WorkersLive DEF Terminate
<1>4. CASE Other
  BY <1>4, NoWorkerStarted DEF Other, OtherAcquire, OtherRelease, Inside, Loop
<1> QED
  BY <1>1, <1>2, <1>3, <1>4 DEF Pool

\* A batch is taken up or left, and the manager crashes: no worker lives.
LEMMA DrainStep ==
  ASSUME SchedulerTypes, PoolInv, Dequeue \/ Settle \/ Died
  PROVE  PoolInv'
<1> USE DEF PoolInv, LockHeld, Inside, Loop, ActiveHoldsAlive, Alive, store, locals, pool
<1>1. CASE Dequeue
  BY <1>1, NoWorkerStarted DEF Dequeue, Call, Unsettled
<1>2. CASE Settle
  BY <1>2, NoWorkerStarted DEF Settle
<1>3. CASE Died
  <2>1. PICK to \in {"crashed", "down"} : Halt(to)
    BY <1>3 DEF Died, Crash, StopService
  <2> QED
    BY <2>1, NoWorkerStarted DEF Halt, Unsettled, SchedulerTypes, NoFuture
<1> QED
  BY <1>1, <1>2, <1>3

LEMMA PoolInvStep ==
  ASSUME TypeOK, PoolInv, [Next]_vars
  PROVE  PoolInv'
<1>1. SchedulerTypes
  BY DEF TypeOK
<1>2. CASE UNCHANGED <<lock, pc, locals, pool>>
  BY <1>1, <1>2, WorkersLive DEF locals, pool, Alive
<1>3. CASE Scheduling
  BY <1>1, <1>3, LoopStep, WorkerStep, PoolStep DEF Scheduling, Schedule, WorkerSteps, PoolSteps
<1>4. UNCHANGED vars => UNCHANGED <<lock, pc, locals, pool>>
  BY DEF vars, schedVars
<1> QED
  BY <1>1, <1>2, <1>3, <1>4, DrainStep, NextSteps, ManagerSteps

-----------------------------------------------------------------------------
(* Nothing is started twice.                                               *)

\* Nothing but the scheduler's own Start takes a task away from queued for good, and
\* nothing puts one back.
LEMMA NeverQueuedAgain ==
  ASSUME SchedulerTypes, Next
  PROVE  \A t \in Tasks : status'[t] = "queued" => status[t] = "queued"
<1> USE DEF schedVars, store, SchedulerTypes
<1>1. CASE ManagerStep
  <2>1. CASE CancelWrite
    BY <2>1 DEF CancelWrite
  <2>2. CASE RecoverJobs
    BY <2>2 DEF RecoverJobs
  <2>3. CASE UNCHANGED status
    BY <2>3
  <2> QED
    BY <1>1, <2>1, <2>2, <2>3 DEF ManagerStep, Drained, Serve, Accept, Submitted, Enqueue,
       CancelNext, CancelLoad, CancelRead, CancelAggregate, CancelRequest, Retry, RetryOf,
       Stop, LostClient, Stopped, Boot, Recover, RecoverBatch, Recovered, Client, Persist,
       Send, TimeOut, GiveUpSubmit
<1>2. CASE Schedule
  <2>1. ASSUME NEW t \in Tasks, MarkWrite(t)
        PROVE  \A u \in Tasks : status'[u] = "queued" => status[u] = "queued"
    BY <2>1 DEF MarkWrite
  <2> QED
    BY <1>2, <2>1 DEF Schedule, RunBatch, Acquire, LockBusy, Submit, SubmitRaises, Block,
       SampleAgain, StopFilling, Wait, Collect, MarkFailed, EndOfRound, Leave, Unwind, Exit
<1>3. ASSUME NEW t \in Tasks, Worker(t)
      PROVE  \A u \in Tasks : status'[u] = "queued" => status[u] = "queued"
  BY <1>3 DEF Worker, Load, Start, ReportLoad, ReportWrite, EndLoad, End, GiveUp, Return, Work
<1>4. CASE \/ PoolSteps \/ Dequeue \/ Settle \/ Died
           \/ \E t \in Tasks : Mishap(t)
           \/ Other
  BY <1>4 DEF PoolSteps, Pool, Break, FailFuture, Terminate, Mishap, Escape, Die, Other,
     OtherAcquire, OtherRelease, Dequeue, Call, Settle, Died, Crash, StopService, Halt, Command
<1> QED
  BY <1>1, <1>2, <1>3, <1>4, NextSteps DEF Scheduling, WorkerSteps

\* A worker is about to start a task only if it has just loaded it as queued.
LEMMA LoadedFromQueued ==
  ASSUME SchedulerTypes, Next
  PROVE  \A t \in Tasks : worker'[t] = "loaded" => worker[t] = "loaded" \/ status[t] = "queued"
<1> USE DEF pool, SchedulerTypes
<1>1. CASE ManagerStep
  BY <1>1, ManagerSteps
<1>2. CASE Schedule
  <2>1. CASE Submit
    BY <2>1, PendingType DEF Submit
  <2> QED
    BY <1>2, <2>1 DEF Schedule, RunBatch, Acquire, LockBusy, SubmitRaises, Block,
       SampleAgain, StopFilling, Wait, Collect, MarkFailed, MarkWrite, EndOfRound, Leave,
       Unwind, Exit
<1>3. ASSUME NEW t \in Tasks, Worker(t)
      PROVE  \A u \in Tasks : worker'[u] = "loaded" => worker[u] = "loaded" \/ status[u] = "queued"
  BY <1>3 DEF Worker, Load, Start, ReportLoad, ReportWrite, EndLoad, End, GiveUp, Return, Work
<1>4. CASE PoolSteps \/ Other \/ \E t \in Tasks : Mishap(t)
  BY <1>4 DEF PoolSteps, Pool, Break, FailFuture, Terminate, Mishap, Escape, Die, Other,
     OtherAcquire, OtherRelease
<1>5. CASE Dequeue \/ Settle \/ Died
  BY <1>5 DEF Dequeue, Call, Settle, Died, Crash, StopService, Halt, Command
<1> QED
  BY <1>1, <1>2, <1>3, <1>4, <1>5, NextSteps DEF Scheduling, WorkerSteps

LEMMA StartedStep ==
  ASSUME TypeOK, Started, [Next]_vars
  PROVE  Started'
<1>1. CASE UNCHANGED vars
  BY <1>1 DEF vars, schedVars, store, pool, history, Started
<1>2. ASSUME Next, UNCHANGED starts PROVE Started'
  BY <1>2, NeverQueuedAgain, LoadedFromQueued DEF TypeOK, Started
<1>3. ASSUME NEW t \in Tasks, WorkerSteps(t) PROVE Started'
  <2>1. CASE worker[t] # "loaded"
    <3>1. starts \in [Tasks -> Nat]
      BY DEF TypeOK, ManagerTypes
    <3>2. starts' = starts
      BY <1>3, <2>1, <3>1 DEF WorkerSteps
    <3> QED
      BY <1>2, <1>3, <3>2 DEF Next
  <2>2. CASE worker[t] = "loaded"
    <3>1. Start(t)
      BY <1>3, <2>2 DEF WorkerSteps, Worker, Load, ReportLoad, ReportWrite, EndLoad, End,
         GiveUp, Return, Work
    <3>2. /\ status' = [status EXCEPT ![t] = "running"]
          /\ worker' = [worker EXCEPT ![t] = "running"]
          /\ starts' = [starts EXCEPT ![t] = starts[t] + 1]
      BY <1>3, <2>2, <3>1 DEF WorkerSteps, Start, Work
    <3>3. starts \in [Tasks -> Nat] /\ starts[t] = 0
      BY <2>2 DEF TypeOK, ManagerTypes, Started
    <3>4. status \in [Tasks -> Status] /\ DOMAIN worker = Tasks
      BY DEF TypeOK, SchedulerTypes
    <3>5. /\ status'[t] = "running" /\ worker'[t] = "running" /\ starts'[t] = 1
          /\ \A u \in Tasks \ {t} : /\ status'[u] = status[u] /\ worker'[u] = worker[u]
                                  /\ starts'[u] = starts[u]
      BY <3>2, <3>3, <3>4
    <3> QED
      BY <3>5 DEF Started
  <2> QED
    BY <2>1, <2>2
<1>4. \/ UNCHANGED starts
      \/ \E t \in Tasks : WorkerSteps(t)
      \/ UNCHANGED vars
  <2>1. ManagerStep => UNCHANGED starts
    BY DEF ManagerStep, Drained, Serve, Accept, Submitted, Enqueue, Answer, CancelNext,
       CancelLoad, CancelWrite, CancelRead, CancelAggregate, CancelRequest, Retry, RetryOf,
       Stop, LostClient, Stopped, Boot, Recover, RecoverJobs, RecoverBatch, Recovered,
       Client, Persist, Send, TimeOut, GiveUpSubmit, history
  <2> QED
    BY <2>1, NextSteps DEF Scheduling, Schedule, PoolSteps, Dequeue, Settle, Died, Crash,
       StopService, Halt, Command, history
<1> QED
  BY <1>1, <1>2, <1>3, <1>4

-----------------------------------------------------------------------------
LEMMA InvariantInit == Init => IInv
<1> SUFFICES ASSUME Init PROVE IInv
  OBVIOUS
<1>1. LockHeld /\ ActiveHoldsAlive
  BY DEF Init, SchedInit, LockHeld, ActiveHoldsAlive, Inside, Loop, Alive, Unsettled
<1>2. active = {} /\ Alives = {}
  BY DEF Init, SchedInit, Alives, Alive, Unsettled
<1>3. ActiveBounded /\ AliveBounded
  BY <1>2, FS_EmptySet, WorkersAssumption DEF ActiveBounded, AliveBounded
<1>4. Started
  BY DEF Init, Started
<1> QED
  BY <1>1, <1>3, <1>4, TypesInit DEF IInv, PoolInv

LEMMA InvariantStep == IInv /\ [Next]_vars => IInv'
BY TypesStep, PoolInvStep, StartedStep DEF IInv, PoolInv

LEMMA Invariant == Spec => []IInv
BY InvariantInit, InvariantStep, PTL DEF Spec

\* Every reachable state has its types, also in the middle of a request.
THEOREM TypeCorrect == Spec => []TypeOK
<1>1. IInv => TypeOK
  BY DEF IInv
<1> QED
  BY <1>1, Invariant, PTL

\* Whoever dies, crashes or holds the lock: the manager's workers stay within the
\* budget and under the scheduler's lock (scheduler.py:206-208).
THEOREM Bounded == Spec => []WorkersBounded
<1>1. IInv => WorkersBounded
  BY DEF IInv, PoolInv, AliveBounded, Alives, LockHeld, Inside, Loop, WorkersBounded
<1> QED
  BY <1>1, Invariant, PTL

\* However submissions, cancels, retries, crashes and recoveries overlap, no task is
\* run twice.
THEOREM OnlyOnce == Spec => []StartedOnce
<1>1. IInv => StartedOnce
  <2> SUFFICES ASSUME IInv, NEW t \in Tasks PROVE starts[t] <= 1
    BY DEF StartedOnce
  <2>1. starts[t] \in {0, 1}
    BY DEF IInv, Started
  <2> QED
    BY <2>1
<1> QED
  BY <1>1, Invariant, PTL

-----------------------------------------------------------------------------
(* The manager and its drain thread, and whose tasks are whose.            *)

\* The drain thread lives while the queue is not empty or a batch is run, which is the
\* current one; a manager that is not up has none; a request is handled by a manager
\* that serves, and a manager that serves has looked at every batch.
Lifecycle ==
  /\ ~draining => pc = "idle" /\ queue = <<>>
  /\ pc # "idle" => run \in Batches /\ current = run
  /\ pc = "idle" => current = NoBatch
  /\ manager \in {"down", "crashed", "recover"} => ~draining
  /\ call # NoCall => manager = "serving"
  /\ Served => todo = {}

\* A task belongs to one batch, once; a batch that a client has sent has tasks.
Owned ==
  /\ \A b, c \in Batches : \A t \in TasksOf(b) \cap TasksOf(c) : b = c
  /\ \A b \in Batches : IsInjective(taskIds[b])
  /\ \A b \in Batches : client[b] # "none" => taskIds[b] # <<>>

\* run_batch, its workers and another scheduler leave the manager alone.
LEMMA SchedulingLifecycle ==
  ASSUME Lifecycle, Scheduling
  PROVE  Lifecycle'
<1>1. UNCHANGED <<manager, queue, draining, current, todo, call, run>>
  <2>1. UNCHANGED <<manager, queue, draining, current, todo, call>>
    BY SchedulingSteps DEF managerVars, ipcVars
  <2>2. UNCHANGED run
    BY DEF Scheduling, Schedule, WorkerSteps, PoolSteps, RunBatch, Acquire, LockBusy,
       Submit, SubmitRaises, Block, SampleAgain, StopFilling, Wait, Collect, MarkFailed,
       MarkWrite, EndOfRound, Leave, Unwind, Exit, Worker, Load, Start, ReportLoad,
       ReportWrite, EndLoad, End, GiveUp, Return, Work, Pool, Break, FailFuture, Terminate,
       Mishap, Escape, Die, Other, OtherAcquire, OtherRelease, locals
  <2> QED
    BY <2>1, <2>2
<1>2. pc' = "idle" <=> pc = "idle"
  BY DEF Scheduling, Schedule, WorkerSteps, PoolSteps, RunBatch, Acquire, LockBusy, Submit,
     SubmitRaises, Block, SampleAgain, StopFilling, Wait, Collect, MarkFailed, MarkWrite,
     EndOfRound, Leave, Unwind, Exit, Worker, Load, Start, ReportLoad, ReportWrite, EndLoad,
     End, GiveUp, Return, Work, Pool, Break, FailFuture, Terminate, Mishap, Escape, Die,
     Other, OtherAcquire, OtherRelease
<1> QED
  BY <1>1, <1>2 DEF Lifecycle, Served

\* An answer leaves the server as it is, or ends it.
LEMMA Answered ==
  ASSUME NEW answer, Answer(answer)
  PROVE  call' = NoCall /\ (manager' = manager \/ manager' = "raised")
BY DEF Answer, Hangup, Disconnect

LEMMA ManagerLifecycle ==
  ASSUME Lifecycle, ManagerStep
  PROVE  Lifecycle'
<1> USE DEF Lifecycle, Served, schedVars, managerVars, ipcVars, history
<1>1. UNCHANGED <<pc, run>>
  BY ManagerSteps DEF locals
<1>2. CASE Drained \/ Stop \/ Boot("down") \/ Boot("crashed")
  BY <1>1, <1>2 DEF Drained, Stop, Request, Command, Boot
<1>3. CASE Accept \/ CancelNext \/ CancelLoad \/ CancelWrite \/ CancelRead \/ CancelAggregate
  BY <1>1, <1>3 DEF Accept, CancelNext, CancelLoad, CancelWrite, CancelRead,
     CancelAggregate, NoCall
<1>4. CASE Submitted
  <2>1. manager = "serving"
    BY <1>4 DEF Submitted, NoCall
  <2>2. UNCHANGED manager \/ (manager' = "raised" /\ call' = NoCall)
    BY <1>4, Answered DEF Submitted
  <2> QED
    BY <1>1, <1>4, <2>1, <2>2 DEF Submitted
<1>5. CASE Enqueue
  <2>1. manager = "serving"
    BY <1>5 DEF Enqueue, NoCall
  <2>2. (UNCHANGED manager \/ manager' = "raised") /\ call' = NoCall
    BY <1>5, Answered DEF Enqueue
  <2> QED
    BY <1>1, <1>5, <2>1, <2>2 DEF Enqueue, StartBatch
<1>6. CASE \/ \E b \in Batches : CancelRequest(b)
           \/ \E b, c \in Batches : Retry(b, c)
  BY <1>1, <1>6 DEF CancelRequest, Retry, RetryOf, Request, Command
<1>7. CASE LostClient \/ Stopped
  BY <1>1, <1>7 DEF LostClient, Hangup, Stopped, Disconnect
<1>8. CASE RecoverJobs \/ Recovered
  BY <1>1, <1>8 DEF RecoverJobs, Recovered
<1>9. ASSUME NEW b \in Batches, RecoverBatch(b) PROVE Lifecycle'
  BY <1>1, <1>9 DEF RecoverBatch, StartBatch
<1>10. ASSUME NEW b \in Batches, Client(b) PROVE Lifecycle'
  <2>1. call' # NoCall => call # NoCall
    BY <1>10 DEF Client, Persist, Send, TimeOut, GiveUpSubmit, NoCall
  <2>2. UNCHANGED <<manager, queue, draining, current, todo>>
    BY <1>10 DEF Client, Persist, Send, TimeOut, GiveUpSubmit
  <2> QED
    BY <1>1, <2>1, <2>2
<1> QED
  BY <1>2, <1>3, <1>4, <1>5, <1>6, <1>7, <1>8, <1>9, <1>10 DEF ManagerStep, Serve, Recover

LEMMA DrainLifecycle ==
  ASSUME TypeOK, Lifecycle, Dequeue \/ Settle \/ Died
  PROVE  Lifecycle'
<1> USE DEF Lifecycle, Served, managerVars, ipcVars, locals
<1>1. CASE Dequeue
  <2>1. queue \in Seq(Batches) /\ queue # <<>>
    BY <1>1 DEF Dequeue, TypeOK, ManagerTypes
  <2>2. Head(queue) \in Batches
    BY <2>1
  <2> QED
    BY <1>1, <2>2 DEF Dequeue, Call
<1>2. CASE Settle
  BY <1>2 DEF Settle
<1>3. CASE Died
  BY <1>3 DEF Died, Crash, StopService, Halt, Disconnect
<1> QED
  BY <1>1, <1>2, <1>3

\* A batch that gets its tasks had none before, and they are tasks of no batch.
LEMMA NewBatch ==
  ASSUME SchedulerTypes, Owned, NEW c \in Batches, taskIds[c] = <<>>, NEW new \in Fresh,
         taskIds' = [taskIds EXCEPT ![c] = new],
         \A b \in Batches : b # c => client'[b] = "none" \/ client[b] # "none"
  PROVE  Owned'
<1>1. new \in Seq(Tasks) /\ new # <<>> /\ IsInjective(new) /\ ToSet(new) \cap Taken = {}
  BY FreshIds
<1>2. /\ taskIds'[c] = new
      /\ \A b \in Batches : b # c => taskIds'[b] = taskIds[b]
  BY DEF SchedulerTypes
<1>3. \A b \in Batches : TasksOf(b) \subseteq Taken
  BY DEF Taken
<1>4. ASSUME NEW a \in Batches, NEW b \in Batches, NEW t \in TasksOf(a)' \cap TasksOf(b)' PROVE a = b
  <2>1. CASE a # c /\ b # c
    BY <1>2, <1>4, <2>1 DEF TasksOf, Owned
  <2>2. CASE a = c /\ b # c
    BY <1>1, <1>2, <1>3, <1>4, <2>2 DEF TasksOf
  <2>3. CASE a # c /\ b = c
    BY <1>1, <1>2, <1>3, <1>4, <2>3 DEF TasksOf
  <2> QED
    BY <2>1, <2>2, <2>3
<1>5. \A b \in Batches : IsInjective(taskIds'[b])
  BY <1>1, <1>2 DEF Owned
<1>6. \A b \in Batches : client'[b] # "none" => taskIds'[b] # <<>>
  BY <1>1, <1>2 DEF Owned
<1> QED
  BY <1>4, <1>5, <1>6 DEF Owned

\* Clients come and go.
LEMMA OtherClients ==
  ASSUME Owned, UNCHANGED taskIds,
         \A b \in Batches : client[b] = "none" => client'[b] = "none"
  PROVE  Owned'
BY DEF Owned, TasksOf

LEMMA Disconnected ==
  ASSUME TypeOK, Disconnect
  PROVE  \A b \in Batches : client[b] = "none" => client'[b] = "none"
BY DEF Disconnect, Waiting, TypeOK, ManagerTypes

LEMMA OwnedStep ==
  ASSUME TypeOK, Owned, Next
  PROVE  Owned'
<1> USE DEF schedVars, managerVars, ipcVars, history, store
<1>1. CASE Scheduling
  <2>1. UNCHANGED taskIds
    BY <1>1 DEF Scheduling, Schedule, WorkerSteps, PoolSteps, RunBatch, Acquire, LockBusy,
       Submit, SubmitRaises, Block, SampleAgain, StopFilling, Wait, Collect, MarkFailed,
       MarkWrite, EndOfRound, Leave, Unwind, Exit, Worker, Load, Start, ReportLoad,
       ReportWrite, EndLoad, End, GiveUp, Return, Work, Pool, Break, FailFuture, Terminate,
       Mishap, Escape, Die, Other, OtherAcquire, OtherRelease
  <2> QED
    BY <1>1, <2>1, SchedulingSteps, OtherClients
<1>2. CASE Dequeue \/ Settle
  BY <1>2, OtherClients DEF Dequeue, Call, Settle
<1>3. CASE Died \/ LostClient \/ Stopped
  BY <1>3, OtherClients, Disconnected DEF Died, Crash, StopService, Halt, LostClient,
     Hangup, Stopped
<1>4. ASSUME NEW b \in Batches, NEW c \in Batches, Retry(b, c) PROVE Owned'
  <2>1. UNCHANGED client
    BY <1>4 DEF Retry, RetryOf
  <2> QED
    BY <1>4, <2>1, RetryFacts, NewBatch DEF TypeOK, NewBatches
<1>5. ASSUME NEW b \in Batches, Persist(b) PROVE Owned'
  <2>1. \A c \in Batches : c # b => client'[c] = client[c]
    BY <1>5 DEF Persist, TypeOK, ManagerTypes
  <2> QED
    BY <1>5, <2>1, NewBatch DEF Persist, TypeOK, NewBatches
<1>6. ASSUME NEW b \in Batches, Send(b) \/ TimeOut(b) \/ GiveUpSubmit(b) PROVE Owned'
  <2>1. client[b] # "none"
    BY <1>6 DEF Send, TimeOut, Lapse, Waiting, GiveUpSubmit
  <2>2. \A c \in Batches : client[c] = "none" => client'[c] = "none"
    BY <1>6, <2>1 DEF Send, TimeOut, Lapse, GiveUpSubmit, TypeOK, ManagerTypes
  <2> QED
    BY <1>6, <2>2, OtherClients DEF Send, TimeOut, GiveUpSubmit
<1>7. ASSUME NEW answer, Answer(answer)
      PROVE  \A c \in Batches : client[c] = "none" => client'[c] = "none"
  <2>1. CASE Hangup
    BY <2>1, Disconnected DEF Hangup
  <2>2. CASE client' = [client EXCEPT ![call.batch] = IF @ \in Waiting THEN answer ELSE @]
    BY <2>2 DEF TypeOK, ManagerTypes, Waiting
  <2>3. CASE Lapse(call.batch)
    BY <2>3 DEF Lapse, TypeOK, ManagerTypes, Waiting
  <2> QED
    BY <1>7, <2>1, <2>2, <2>3 DEF Answer
<1>8. CASE Submitted \/ Enqueue
  <2>1. \A c \in Batches : client[c] = "none" => client'[c] = "none"
    BY <1>7, <1>8 DEF Submitted, Enqueue
  <2> QED
    BY <1>8, <2>1, OtherClients DEF Submitted, Enqueue
<1>9. CASE UNCHANGED <<taskIds, client>>
  BY <1>9, OtherClients
<1> QED
  BY <1>1, <1>2, <1>3, <1>4, <1>5, <1>6, <1>8, <1>9, NextSteps DEF ManagerStep, Drained,
     Serve, Accept, CancelNext, CancelLoad, CancelWrite, CancelRead, CancelAggregate,
     CancelRequest, Stop, Boot, Recover, RecoverJobs, RecoverBatch, Recovered, Client

LEMMA LifecycleStep ==
  ASSUME TypeOK, Lifecycle, Owned, [Next]_vars
  PROVE  Lifecycle' /\ Owned'
<1>1. CASE UNCHANGED vars
  BY <1>1 DEF vars, schedVars, store, locals, managerVars, ipcVars, Lifecycle, Served,
     Owned, TasksOf
<1>2. CASE Next
  BY <1>2, NextSteps, SchedulingLifecycle, ManagerLifecycle, DrainLifecycle, OwnedStep
<1> QED
  BY <1>1, <1>2

LEMMA LifecycleInit == Init => Lifecycle /\ Owned
BY DEF Init, SchedInit, Lifecycle, Served, Owned, TasksOf, ToSet, IsInjective, NoCall

-----------------------------------------------------------------------------
(* Without cancels and without dying workers the scheduler, its workers    *)
(* and recovery are the only ones that write, and never the same task.     *)

\* A cancel writes what a worker is about to write over, or the other way round, and
\* the siblings of a dead worker write after their tasks have been given up.
Calm == "cancel" \notin Commands /\ MaxDeaths = 0

NoCancel == call.op \in {"none", "submit", "start"}

\* A worker finds what it has left, and a future that has ended is that of a task that
\* has.
Intact ==
  ~broken /\ \A t \in Tasks :
    /\ worker[t] # "gone"
    /\ worker[t] = "loaded" => status[t] = "queued"
    /\ worker[t] = "failing" => status[t] \in Live
    /\ worker[t] \in {"running", "reporting", "ending"} => status[t] = "running"
    /\ worker[t] = "finished" /\ future[t] = "pending" => status[t] \in Terminal
    /\ future[t] \in {"succeeded", "failed", "cancelled"} => status[t] \in Terminal

\* A task of the batch that is run waits or is active or has ended, but for the one
\* whose future has raised.
Covered ==
  pc # "idle" =>
    /\ pc # "unwind" /\ taskIds[run] # <<>>
    /\ IsInjective(pending) /\ ToSet(pending) \cup active \subseteq TasksOf(run)
    /\ \A t \in ToSet(pending) : t \notin active /\ outcomes[t] = NoFuture
    /\ \A t \in active : future[t] # NoFuture
    /\ pc # "raised" => \A t \in TasksOf(run) :
         t \in ToSet(pending) \cup active \/ status[t] \in Terminal \/ outcomes[t] = "raised"
    /\ pc \in {"leave", "returned"} => pending = <<>> /\ active = {}
    /\ \A t \in Tasks : outcomes[t] = "raised" =>
         /\ pc \in {"mark failed", "mark write"} /\ future[t] = "raised"
         /\ status[t] \in Live /\ t \in TasksOf(run)
         /\ \A u \in Tasks : outcomes[u] = "raised" => u = t

\* A task that is stored as running is at a worker, or about to be given up.
Attended ==
  manager \notin {"down", "crashed", "recover"} =>
    \A t \in Tasks : status[t] = "running" =>
      pc \in Inside /\ (t \in active \/ outcomes[t] = "raised")

CInv == IInv /\ Lifecycle /\ Owned /\ NoCancel /\ Intact /\ Covered /\ Attended

\* Recovery finds no worker.
LEMMA NobodyAtRecovery ==
  ASSUME CInv, RecoverJobs
  PROVE  pc = "idle" /\ \A t \in Tasks : ~Alive(t)
BY DEF RecoverJobs, CInv, Lifecycle, IInv, PoolInv, LockHeld, Inside, Loop

\* Requests that write a status: there is only recovery.
LEMMA ManagerStatus ==
  ASSUME CInv, ManagerStep, ~RecoverJobs
  PROVE  UNCHANGED status
BY DEF CInv, NoCancel, ManagerStep, Drained, Serve, Accept, Submitted, Enqueue, CancelNext,
   CancelLoad, CancelWrite, CancelRead, CancelAggregate, CancelRequest, Retry, RetryOf,
   Stop, LostClient, Stopped, Boot, Recover, RecoverBatch, Recovered, Client, Persist, Send,
   TimeOut, GiveUpSubmit, schedVars, store

\* The pool never breaks.
LEMMA NeverBreaks ==
  ASSUME Calm, CInv
  PROVE  ~Pool /\ ~SubmitRaises /\ \A t \in Tasks : ~Die(t)
<1>1. ~Pool /\ ~SubmitRaises
  BY DEF CInv, Intact, Pool, Break, FailFuture, Terminate, SubmitRaises
<1>2. \A t \in Tasks : ~Die(t)
  BY DeathCounts DEF Calm, CInv, IInv, TypeOK
<1> QED
  BY <1>1, <1>2

\* What has ended is not written again.
LEMMA EndedStays ==
  ASSUME Calm, CInv, Next, NEW t \in Tasks, status[t] \in Terminal
  PROVE  status'[t] = status[t]
<1> USE DEF schedVars, store, CInv, IInv, TypeOK, SchedulerTypes
<1>1. CASE ManagerStep
  BY <1>1, ManagerStatus DEF RecoverJobs, Terminal
<1>2. ASSUME NEW u \in Tasks, Worker(u) PROVE status'[t] = status[t]
  BY <1>2 DEF Worker, Load, Start, ReportLoad, ReportWrite, EndLoad, End, GiveUp, Return,
     Work, Intact, Live, Terminal
<1>3. ASSUME NEW u \in Tasks, MarkWrite(u) PROVE status'[t] = status[t]
  <2>1. status[u] \in Live
    BY <1>3 DEF MarkWrite, Lifecycle, Covered
  <2> QED
    BY <1>3, <2>1 DEF MarkWrite, Live, Terminal
<1>4. CASE \/ PoolSteps \/ Dequeue \/ Settle \/ Died
           \/ \E u \in Tasks : Mishap(u)
           \/ Other
  BY <1>4 DEF PoolSteps, Pool, Break, FailFuture, Terminate, Mishap, Escape, Die, Other,
     OtherAcquire, OtherRelease, Dequeue, Call, Settle, Died, Crash, StopService, Halt, Command
<1> QED
  BY <1>1, <1>2, <1>3, <1>4, NextSteps DEF Scheduling, WorkerSteps, Schedule, RunBatch,
     Acquire, LockBusy, Submit, SubmitRaises, Block, SampleAgain, StopFilling, Wait,
     Collect, MarkFailed, EndOfRound, Leave, Unwind, Exit

LEMMA NoCancelStep ==
  ASSUME Calm, CInv, Next
  PROVE  NoCancel'
<1> USE DEF CInv, NoCancel, managerVars, ipcVars, NoCall
<1>1. CASE Scheduling
  BY <1>1, SchedulingSteps
<1>2. CASE Dequeue \/ Settle
  BY <1>2 DEF Dequeue, Settle
<1>9. CASE Died
  <2>1. call' = NoCall
    BY <1>9 DEF Died, Crash, StopService, Halt, Disconnect
  <2> QED
    BY <2>1
<1>3. CASE Submitted \/ Enqueue
  <2>1. CASE call.op = "submit" /\ call' = [call EXCEPT !.op = "start"]
    <3>1. call = [op |-> call.op, batch |-> call.batch, open |-> call.open]
      BY <2>1, RequestFields DEF IInv, TypeOK, ManagerTypes
    <3> QED
      BY <2>1, <3>1
  <2>2. CASE Answer("refused") \/ Answer("accepted")
    BY <2>2, Answered
  <2> QED
    BY <1>3, <2>1, <2>2 DEF Submitted, Enqueue
<1>4. ASSUME NEW b \in Batches, NEW c \in Batches, Retry(b, c) PROVE NoCancel'
  BY <1>4 DEF Retry, RetryOf
<1>5. CASE Accept
  BY <1>5 DEF Accept
<1>6. CASE LostClient \/ Stopped
  BY <1>6 DEF LostClient, Hangup, Stopped, Disconnect
<1>7. CASE UNCHANGED call
  BY <1>7
<1>8. ASSUME NEW b \in Batches, TimeOut(b) PROVE NoCancel'
  <2>1. CASE call.op \in {"submit", "start"} /\ call' = [call EXCEPT !.open = FALSE]
    <3>1. call = [op |-> call.op, batch |-> call.batch, open |-> call.open]
      BY <2>1, RequestFields DEF IInv, TypeOK, ManagerTypes
    <3> QED
      BY <2>1, <3>1
  <2> QED
    BY <1>7, <1>8, <2>1 DEF TimeOut
<1> QED
  BY <1>1, <1>2, <1>3, <1>4, <1>5, <1>6, <1>7, <1>8, <1>9, NextSteps DEF Calm, ManagerStep,
     Drained, Serve, CancelNext, CancelLoad, CancelWrite, CancelRead, CancelAggregate,
     CancelRequest, Request, Command, Stop, Boot, Recover, RecoverJobs, RecoverBatch,
     Recovered, Client, Persist, Send, TimeOut, GiveUpSubmit

LEMMA IntactStep ==
  ASSUME Calm, CInv, Next
  PROVE  Intact'
<1> USE DEF CInv, Intact, IInv, TypeOK, SchedulerTypes, schedVars, store, locals, pool
<1>1. CASE UNCHANGED <<status, pool>>
  BY <1>1
<1>2. CASE ManagerStep
  <2>1. CASE RecoverJobs
    <3>1. \A t \in Tasks : ~Alive(t)
      BY <2>1, NobodyAtRecovery
    <3> QED
      BY <2>1, <3>1 DEF RecoverJobs, Alive, Unsettled, Terminal
  <2> QED
    BY <1>1, <1>2, <2>1, ManagerSteps, ManagerStatus
<1>3. CASE Submit
  <2>1. Head(pending) \in Tasks
    BY <1>3, PendingType DEF Submit
  <2> QED
    BY <1>3, <2>1 DEF Submit
<1>4. ASSUME NEW t \in Tasks, MarkWrite(t) PROVE Intact'
  <2>1. future[t] = "raised"
    BY <1>4 DEF MarkWrite, Lifecycle, Covered
  <2>2. ~Alive(t)
    BY <2>1 DEF PoolInv, ActiveHoldsAlive
  <2> QED
    BY <1>4, <2>1, <2>2 DEF MarkWrite, Alive, Unsettled, Terminal
<1>5. ASSUME NEW t \in Tasks, Worker(t) PROVE Intact'
  <2>1. CASE Load(t)
    BY <2>1 DEF Load, Work
  <2>2. CASE Start(t)
    BY <2>2 DEF Start, Work, Terminal
  <2>3. CASE EndLoad(t)
    <3>1. CASE Work(t, {"submitted"}, "failing", status[t])
      BY <2>3, <3>1 DEF EndLoad, Work
    <3>2. CASE Work(t, {"running"}, "ending", status[t])
      BY <3>2 DEF Work
    <3> QED
      BY <2>3, <3>1, <3>2 DEF EndLoad
  <2>4. CASE End(t)
    <3>1. /\ worker' = [worker EXCEPT ![t] = "finished"]
          /\ UNCHANGED <<future, broken>>
      BY <2>4 DEF End, Work
    <3>2. PICK s \in {"succeeded", "failed", "cancelled"} : status' = [status EXCEPT ![t] = s]
      BY <2>4 DEF End, Work
    <3>3. s \in Terminal
      BY DEF Terminal
    <3> QED
      BY <3>1, <3>2, <3>3
  <2>5. CASE GiveUp(t)
    BY <2>5 DEF GiveUp, Work
  <2>6. CASE Return(t)
    BY <2>6 DEF Return
  <2>7. CASE ReportLoad(t)
    BY <2>7 DEF ReportLoad, Work
  <2>8. CASE ReportWrite(t)
    BY <2>8 DEF ReportWrite, Work, Terminal
  <2> QED
    BY <1>5, <2>1, <2>2, <2>3, <2>4, <2>5, <2>6, <2>7, <2>8 DEF Worker
<1>6. ASSUME NEW t \in Tasks, Mishap(t) PROVE Intact'
  <2>1. Escape(t)
    BY <1>6, NeverBreaks DEF Mishap
  <2>2. \A u \in Tasks : /\ worker'[u] = IF u = t THEN "finished" ELSE worker[u]
                        /\ future'[u] = IF u = t THEN "raised" ELSE future[u]
    BY <2>1 DEF Escape
  <2> QED
    BY <2>1, <2>2 DEF Escape
<1>7. CASE Dequeue \/ Died
  BY <1>7 DEF Dequeue, Call, Died, Crash, StopService, Halt, NoFuture
<1>8. CASE Settle
  BY <1>1, <1>8 DEF Settle
<1> QED
  BY <1>1, <1>2, <1>3, <1>4, <1>5, <1>6, <1>7, <1>8, NextSteps, NeverBreaks DEF Scheduling,
     WorkerSteps, PoolSteps, Schedule, RunBatch, Acquire, LockBusy, Block, SampleAgain,
     StopFilling, Wait, Collect, MarkFailed, EndOfRound, Leave, Unwind, Exit, Other,
     OtherAcquire, OtherRelease

LEMMA BatchTasks ==
  ASSUME SchedulerTypes, NEW b \in Batches
  PROVE  TasksOf(b) \subseteq Tasks
<1>1. taskIds[b] \in Seq(Tasks)
  BY DEF SchedulerTypes
<1> QED
  BY <1>1 DEF TasksOf, ToSet

\* A batch that has tasks keeps them.
LEMMA SameTasks ==
  ASSUME TypeOK, Next, NEW b \in Batches, taskIds[b] # <<>>
  PROVE  taskIds'[b] = taskIds[b] /\ TasksOf(b)' = TasksOf(b)
<1> USE DEF schedVars, store, TypeOK, SchedulerTypes
<1>1. ASSUME NEW a \in Batches, NEW c \in Batches, Retry(a, c) PROVE taskIds'[b] = taskIds[b]
  BY <1>1, RetryFacts DEF NewBatches
<1>2. ASSUME NEW c \in Batches, Persist(c) PROVE taskIds'[b] = taskIds[b]
  BY <1>2 DEF Persist, NewBatches
<1>3. ASSUME Scheduling \/ Dequeue \/ Settle \/ Died PROVE UNCHANGED taskIds
  BY <1>3 DEF Scheduling, Schedule, WorkerSteps, PoolSteps, RunBatch, Acquire, LockBusy,
     Submit, SubmitRaises, Block, SampleAgain, StopFilling, Wait, Collect, MarkFailed,
     MarkWrite, EndOfRound, Leave, Unwind, Exit, Worker, Load, Start, ReportLoad,
     ReportWrite, EndLoad, End, GiveUp, Return, Work, Pool, Break, FailFuture, Terminate,
     Mishap, Escape, Die, Other, OtherAcquire, OtherRelease, Dequeue, Call, Settle, Died,
     Crash, StopService, Halt, Command
<1>4. taskIds'[b] = taskIds[b]
  BY <1>1, <1>2, <1>3, NextSteps DEF ManagerStep, Drained, Serve, Accept, Submitted, Enqueue,
     CancelNext, CancelLoad, CancelWrite, CancelRead, CancelAggregate, CancelRequest, Stop,
     LostClient, Stopped, Boot, Recover, RecoverJobs, RecoverBatch, Recovered, Client, Send,
     TimeOut, GiveUpSubmit
<1> QED
  BY <1>4 DEF TasksOf

\* A step that leaves the scheduler's account alone.
LEMMA CoveredKept ==
  ASSUME CInv, pc # "idle", taskIds'[run] = taskIds[run], UNCHANGED locals,
         UNCHANGED pc,
         \A t \in Tasks : status[t] \in Terminal => status'[t] \in Terminal,
         \A t \in Tasks : future[t] # NoFuture => future'[t] # NoFuture,
         \A t \in Tasks : outcomes[t] = "raised" =>
           future'[t] = future[t] /\ status'[t] = status[t]
  PROVE  Covered'
<1>1. /\ TasksOf(run)' = TasksOf(run) /\ active \subseteq Tasks /\ TasksOf(run) \subseteq Tasks
      /\ UNCHANGED <<run, pending, active, outcomes>>
  <2>1. run \in Batches
    BY DEF CInv, Lifecycle
  <2>2. TasksOf(run) \subseteq Tasks /\ active \subseteq Tasks
    BY <2>1, BatchTasks DEF CInv, IInv, TypeOK, SchedulerTypes
  <2> QED
    BY <2>2 DEF TasksOf, locals
<1>2. \A t \in Tasks : outcomes'[t] = "raised" =>
        /\ outcomes[t] = "raised" /\ future'[t] = future[t] /\ status'[t] = status[t]
  BY <1>1
<1>3. \A t \in active' : future'[t] # NoFuture
  BY <1>1 DEF CInv, Covered
<1>4. pc' # "raised" => \A t \in TasksOf(run)' :
        t \in ToSet(pending') \cup active' \/ status'[t] \in Terminal \/ outcomes'[t] = "raised"
  BY <1>1 DEF CInv, Covered
<1>5. \A t \in Tasks : outcomes'[t] = "raised" =>
        /\ pc' \in {"mark failed", "mark write"} /\ future'[t] = "raised"
        /\ status'[t] \in Live /\ t \in TasksOf(run)'
        /\ \A u \in Tasks : outcomes'[u] = "raised" => u = t
  BY <1>1, <1>2 DEF CInv, Covered
<1>6. /\ pc' # "unwind" /\ taskIds'[run'] # <<>>
      /\ IsInjective(pending') /\ ToSet(pending') \cup active' \subseteq TasksOf(run)'
      /\ \A t \in ToSet(pending') : t \notin active' /\ outcomes'[t] = NoFuture
      /\ pc' \in {"leave", "returned"} => pending' = <<>> /\ active' = {}
  <2>1. Covered /\ pc # "idle" /\ taskIds'[run] = taskIds[run] /\ UNCHANGED pc
    BY DEF CInv
  <2>2. /\ pc # "unwind" /\ taskIds[run] # <<>>
        /\ IsInjective(pending) /\ ToSet(pending) \cup active \subseteq TasksOf(run)
        /\ \A t \in ToSet(pending) : t \notin active /\ outcomes[t] = NoFuture
        /\ pc \in {"leave", "returned"} => pending = <<>> /\ active = {}
    BY <2>1, Zenon DEF Covered
  <2> QED
    BY <1>1, <2>1, <2>2
<1> QED
  BY <1>1, <1>3, <1>4, <1>5, <1>6 DEF Covered

\* The future that has raised is that of no worker that lives.
LEMMA RaisedIsDead ==
  ASSUME CInv, NEW t \in Tasks, outcomes[t] = "raised", pc # "idle"
  PROVE  future[t] = "raised" /\ ~Alive(t)
BY DEF CInv, Covered, Intact, IInv, PoolInv, ActiveHoldsAlive

LEMMA WorkerCovered ==
  ASSUME Calm, CInv, Next, NEW t \in Tasks, Worker(t) \/ Mishap(t), pc # "idle",
         UNCHANGED taskIds
  PROVE  Covered'
<1>1. UNCHANGED <<pc, locals>>
  BY DEF Worker, Load, Start, ReportLoad, ReportWrite, EndLoad, End, GiveUp, Return, Work,
     Mishap, Escape, Die
<1>2. \A u \in Tasks : status[u] \in Terminal => status'[u] \in Terminal
  BY EndedStays
<1>3. \A u \in Tasks : future[u] # "pending" => future'[u] = future[u]
  BY DEF Worker, Load, Start, ReportLoad, ReportWrite, EndLoad, End, GiveUp, Return, Work,
     Mishap, Escape, Die, Busy, CInv, IInv, TypeOK, SchedulerTypes
<1>4. \A u \in Tasks : future[u] # NoFuture => future'[u] # NoFuture
  BY DEF Worker, Load, Start, ReportLoad, ReportWrite, EndLoad, End, GiveUp, Return, Work,
     Mishap, Escape, Die, Busy, CInv, IInv, TypeOK, SchedulerTypes, NoFuture
<1>5. \A u \in Tasks : ~Alive(u) => status'[u] = status[u]
  BY DEF Worker, Load, Start, ReportLoad, ReportWrite, EndLoad, End, GiveUp, Return, Work,
     Mishap, Escape, Die, Alive, CInv, IInv, TypeOK, SchedulerTypes, store
<1> QED
  BY <1>1, <1>2, <1>3, <1>4, <1>5, RaisedIsDead, CoveredKept

\* The loop hands the tasks on.
LEMMA LoopCovered ==
  ASSUME Calm, CInv, RunBatch
  PROVE  Covered'
<1> USE DEF store, locals, pool
<1>1. /\ pc # "idle" /\ run \in Batches /\ UNCHANGED <<taskIds, run>>
  BY DEF CInv, Lifecycle, RunBatch, Acquire, LockBusy, Submit, SubmitRaises, Block,
     SampleAgain, StopFilling, Wait, Collect, MarkFailed, MarkWrite, EndOfRound, Leave,
     Unwind, Exit
<1>2. /\ TasksOf(run)' = TasksOf(run) /\ TasksOf(run) \subseteq Tasks
      /\ status \in [Tasks -> Status] /\ outcomes \in [Tasks -> Outcomes]
      /\ future \in [Tasks -> Outcomes \cup {"pending"}] /\ pending \in Seq(Tasks)
      /\ active \subseteq Tasks /\ done \subseteq active
  <2>1. TasksOf(run) \subseteq Tasks /\ TasksOf(run)' = TasksOf(run)
    BY <1>1, BatchTasks DEF CInv, IInv, TypeOK, TasksOf
  <2> QED
    BY <2>1 DEF CInv, IInv, TypeOK, SchedulerTypes
<1>3. CASE Acquire \/ LockBusy \/ Block \/ SampleAgain \/ StopFilling \/ Wait
  BY <1>1, <1>3 DEF Acquire, LockBusy, Block, SampleAgain, StopFilling, Wait, CInv, Covered,
     TasksOf
<1>4. CASE Submit
  <2> DEFINE t == Head(pending)
  <2>1. /\ pc = "fill" /\ pending # <<>> /\ pending' = Tail(pending) /\ active' = active \cup {t}
        /\ future' = [future EXCEPT ![t] = "pending"] /\ UNCHANGED <<status, outcomes, pc>>
    BY <1>4 DEF Submit, Room
  <2>2. t \in Tasks /\ ToSet(pending) = {t} \cup ToSet(pending')
    BY <1>2, <2>1, HeadAndTail
  <2>3. t \notin ToSet(pending') /\ IsInjective(pending')
    BY <1>1, <1>2, <2>1, HeadNotInTail DEF CInv, Covered
  <2>4. \A u \in active' : future'[u] # NoFuture
    BY <1>1, <1>2, <2>1, <2>2 DEF CInv, Covered, NoFuture
  <2> HIDE DEF t
  <2> QED
    BY <1>1, <1>2, <2>1, <2>2, <2>3, <2>4 DEF CInv, Covered
<1>5. ASSUME NEW t \in Tasks, Collect(t) PROVE Covered'
  <2>1. /\ pc = "collect" /\ t \in active /\ active' = active \ {t} /\ t \in done
        /\ UNCHANGED <<status, pending, future>>
    BY <1>2, <1>5 DEF Collect
  <2>2. future[t] # "pending" /\ future[t] # NoFuture
    BY <1>1, <2>1 DEF CInv, IInv, PoolInv, ActiveHoldsAlive, Covered
  <2>3. \A u \in Tasks : outcomes[u] # "raised"
    BY <1>1, <2>1 DEF CInv, Covered
  <2>4. t \in TasksOf(run) /\ t \notin ToSet(pending)
    BY <1>1, <2>1 DEF CInv, Covered
  <2>5. CASE future[t] = "raised" /\ status[t] \in Live
    <3>1. pc' = "mark failed" /\ outcomes' = [outcomes EXCEPT ![t] = "raised"]
      BY <1>5, <2>5 DEF Collect
    <3>2. \A u \in Tasks : outcomes'[u] = IF u = t THEN "raised" ELSE outcomes[u]
      BY <1>2, <3>1
    <3> QED
      BY <1>1, <1>2, <2>1, <2>3, <2>4, <2>5, <3>1, <3>2, ZenonT(60) DEF CInv, Covered
  <2>6. CASE ~(future[t] = "raised" /\ status[t] \in Live)
    <3> DEFINE o == IF future[t] = "raised" THEN "failed" ELSE future[t]
    <3>1. pc' = pc /\ outcomes' = [outcomes EXCEPT ![t] = o] /\ o # "raised"
      BY <1>5, <2>6 DEF Collect
    <3> HIDE DEF o
    <3>2. \A u \in Tasks : outcomes'[u] = IF u = t THEN o ELSE outcomes[u]
      BY <1>2, <3>1
    <3>3. status[t] \in Terminal
      BY <1>2, <2>2, <2>6 DEF CInv, Intact, Outcomes, Status
    <3> QED
      BY <1>1, <1>2, <2>1, <2>3, <2>4, <3>1, <3>2, <3>3 DEF CInv, Covered
  <2> QED
    BY <2>5, <2>6
<1>9. ASSUME NEW t \in Tasks, MarkFailed(t) PROVE Covered'
  <2>1. status[t] \in Live
    BY <1>1, <1>9 DEF MarkFailed, CInv, Covered
  <2>2. pc = "mark failed" /\ pc' = "mark write"
        /\ UNCHANGED <<pending, active, outcomes, future, status>>
    BY <1>9, <2>1 DEF MarkFailed
  <2>3. Covered /\ pc # "idle" /\ UNCHANGED <<run, taskIds>>
    BY <1>1 DEF CInv
  <2>4. /\ taskIds[run] # <<>>
        /\ IsInjective(pending) /\ ToSet(pending) \cup active \subseteq TasksOf(run)
        /\ \A u \in ToSet(pending) : u \notin active /\ outcomes[u] = NoFuture
        /\ \A u \in active : future[u] # NoFuture
    BY <2>3, Zenon DEF Covered
  <2>5. \A u \in TasksOf(run) :
          u \in ToSet(pending) \cup active \/ status[u] \in Terminal \/ outcomes[u] = "raised"
    BY <2>2, <2>3, Zenon DEF Covered
  <2>6. \A u \in Tasks : outcomes[u] = "raised" =>
          /\ future[u] = "raised" /\ status[u] \in Live /\ u \in TasksOf(run)
          /\ \A v \in Tasks : outcomes[v] = "raised" => v = u
    BY <2>3, Zenon DEF Covered
  <2>7. /\ pc' \notin {"unwind", "leave", "returned"}
        /\ pc' \in {"mark failed", "mark write"} /\ taskIds'[run'] # <<>>
        /\ UNCHANGED <<pending, active, outcomes, future, status>>
    BY <2>2, <2>3, <2>4
  <2>8. \A u \in Tasks : outcomes'[u] = "raised" =>
          /\ pc' \in {"mark failed", "mark write"} /\ future'[u] = "raised"
          /\ status'[u] \in Live /\ u \in TasksOf(run)'
          /\ \A v \in Tasks : outcomes'[v] = "raised" => v = u
    BY <1>2, <2>6, <2>7
  <2>9. \A u \in TasksOf(run)' :
          u \in ToSet(pending') \cup active' \/ status'[u] \in Terminal \/ outcomes'[u] = "raised"
    BY <1>2, <2>5, <2>7
  <2>10. /\ IsInjective(pending') /\ ToSet(pending') \cup active' \subseteq TasksOf(run)'
         /\ \A u \in ToSet(pending') : u \notin active' /\ outcomes'[u] = NoFuture
         /\ \A u \in active' : future'[u] # NoFuture
    BY <1>2, <2>4, <2>7
  <2> QED
    BY <2>7, <2>8, <2>9, <2>10 DEF Covered
<1>6. ASSUME NEW t \in Tasks, MarkWrite(t) PROVE Covered'
  <2>1. pc = "mark write" /\ outcomes[t] = "raised" /\ UNCHANGED <<pending, active, future>>
    BY <1>6 DEF MarkWrite
  <2>2. status[t] \in Live /\ \A u \in Tasks : outcomes[u] = "raised" => u = t
    BY <1>1, <2>1 DEF CInv, Covered
  <2>3. /\ pc' = "collect" /\ status' = [status EXCEPT ![t] = "failed"]
        /\ outcomes' = [outcomes EXCEPT ![t] = "failed"]
    BY <1>6, <2>2 DEF MarkWrite
  <2>4. \A u \in Tasks : /\ outcomes'[u] = IF u = t THEN "failed" ELSE outcomes[u]
                         /\ status'[u] = IF u = t THEN "failed" ELSE status[u]
    BY <1>2, <2>3
  <2>5. t \notin ToSet(pending)
    BY <1>1, <2>1 DEF CInv, Covered, NoFuture
  <2>6. \A u \in Tasks : outcomes'[u] # "raised"
    BY <2>2, <2>4
  <2>7. \A u \in ToSet(pending') : u \notin active' /\ outcomes'[u] = NoFuture
    BY <1>1, <1>2, <2>1, <2>4, <2>5, ZenonT(60) DEF CInv, Covered
  <2>8. ASSUME NEW u \in TasksOf(run)
        PROVE  u \in ToSet(pending) \cup active \/ status'[u] \in Terminal
    <3>1. u \in ToSet(pending) \cup active \/ status[u] \in Terminal \/ outcomes[u] = "raised"
      BY <1>1, <2>1 DEF CInv, Covered
    <3>2. outcomes[u] = "raised" => u = t
      BY <1>2, <2>2
    <3>3. u = t => status'[u] = "failed"
      BY <1>2, <2>4
    <3>4. u # t => status'[u] = status[u]
      BY <1>2, <2>4
    <3> QED
      BY <3>1, <3>2, <3>3, <3>4 DEF Terminal
  <2>9. \A u \in active' : future'[u] # NoFuture
    BY <1>1, <2>1 DEF CInv, Covered
  <2>10. /\ taskIds'[run'] # <<>> /\ IsInjective(pending')
         /\ ToSet(pending') \cup active' \subseteq TasksOf(run)'
    BY <1>1, <1>2, <2>1, ZenonT(60) DEF CInv, Covered
  <2> QED
    BY <1>2, <2>1, <2>3, <2>6, <2>7, <2>8, <2>9, <2>10 DEF Covered
<1>7. CASE EndOfRound \/ Leave
  BY <1>1, <1>7 DEF EndOfRound, Leave, Exit, CInv, Covered, TasksOf
<1>8. ~Unwind /\ ~SubmitRaises
  BY <1>1, NeverBreaks DEF Unwind, Exit, CInv, Covered
<1> QED
  BY <1>3, <1>4, <1>5, <1>6, <1>7, <1>8, <1>9 DEF RunBatch

\* The drain thread takes the next batch up.
LEMMA DequeueCovered ==
  ASSUME CInv, Dequeue
  PROVE  Covered'
<1> DEFINE b == Head(queue)
<1>1. b \in Batches
  <2>1. queue \in Seq(Batches) /\ queue # <<>>
    BY DEF Dequeue, CInv, IInv, TypeOK, ManagerTypes
  <2> QED
    BY <2>1
<1>2. Call(b)
  BY DEF Dequeue
<1> HIDE DEF b
<1>3. /\ pc' = "lock" /\ run' = b /\ pending' = taskIds[b] /\ active' = {} /\ taskIds[b] # <<>>
      /\ outcomes' = [t \in Tasks |-> NoFuture] /\ UNCHANGED <<taskIds, status>>
  BY <1>2 DEF Call, store
<1>4. IsInjective(taskIds[b]) /\ ToSet(taskIds[b]) \subseteq Tasks
  BY <1>1, BatchTasks DEF CInv, Owned, IInv, TypeOK, TasksOf
<1> QED
  BY <1>3, <1>4 DEF Covered, TasksOf, NoFuture

LEMMA CoveredStep ==
  ASSUME Calm, CInv, Next
  PROVE  Covered'
<1>1. CASE ManagerStep
  <2>1. UNCHANGED <<pc, locals, pool>>
    BY <1>1, ManagerSteps
  <2>2. CASE pc = "idle"
    BY <2>1, <2>2 DEF Covered
  <2>3. CASE pc # "idle"
    <3>1. UNCHANGED status
      BY <1>1, <2>3, ManagerStatus, NobodyAtRecovery
    <3>2. taskIds'[run] = taskIds[run]
      BY <2>3, SameTasks DEF CInv, IInv, Lifecycle, Covered
    <3> QED
      BY <2>1, <2>3, <3>1, <3>2, CoveredKept DEF pool
  <2> QED
    BY <2>2, <2>3
<1>2. CASE Settle \/ Died
  BY <1>2 DEF Settle, Died, Crash, StopService, Halt, Command, Covered
<1>3. ASSUME NEW t \in Tasks, Worker(t) \/ Mishap(t) PROVE Covered'
  <2>1. UNCHANGED taskIds /\ pc' = pc
    BY <1>3 DEF Worker, Load, Start, ReportLoad, ReportWrite, EndLoad, End, GiveUp, Return,
       Work, Mishap, Escape, Die, store
  <2> QED
    BY <1>3, <2>1, WorkerCovered DEF Covered
<1>4. CASE Other
  <2>1. UNCHANGED <<pc, locals, pool, store>>
    BY <1>4 DEF Other, OtherAcquire, OtherRelease
  <2> QED
    BY <2>1, CoveredKept DEF store, pool, Covered
<1> QED
  BY <1>1, <1>2, <1>3, <1>4, LoopCovered, DequeueCovered, NextSteps, NeverBreaks DEF Scheduling,
     Schedule, WorkerSteps, PoolSteps

-----------------------------------------------------------------------------
LEMMA AttendedStep ==
  ASSUME Calm, CInv, Next
  PROVE  Attended'
<1> USE DEF schedVars, store, locals, pool
<1>1. /\ status \in [Tasks -> Status] /\ outcomes \in [Tasks -> Outcomes]
      /\ active \subseteq Tasks /\ done \subseteq active
  BY DEF CInv, IInv, TypeOK, SchedulerTypes
<1>2. ASSUME UNCHANGED <<manager, status, outcomes, active>>, pc' = pc \/ {pc, pc'} \subseteq Inside
      PROVE  Attended'
  BY <1>2 DEF CInv, Attended
<1>3. CASE ManagerStep
  <2>1. UNCHANGED <<pc, outcomes, active>>
    BY <1>3, ManagerSteps
  <2>2. CASE RecoverJobs
    BY <1>1, <2>2 DEF RecoverJobs, Attended
  <2>3. CASE ~RecoverJobs
    <3>1. UNCHANGED status
      BY <1>3, <2>3, ManagerStatus
    <3>2. ASSUME manager' \notin {"down", "crashed", "recover"}
          PROVE  manager \notin {"down", "crashed", "recover"}
      <4>1. CASE Serve
        BY <4>1 DEF Serve, Accept, Submitted, Enqueue, CancelNext, CancelLoad, CancelWrite,
           CancelRead, CancelAggregate, CInv, Lifecycle, NoCall
      <4>2. CASE Drained \/ Stop \/ LostClient \/ Stopped \/ Boot("down") \/ Boot("crashed")
        BY <3>2, <4>2 DEF Drained, Stop, Request, LostClient, Stopped, Boot
      <4>3. CASE \E b, c \in Batches : CancelRequest(b) \/ Retry(b, c)
        BY <4>3 DEF CancelRequest, Retry, RetryOf, Request
      <4>4. CASE Recover
        BY <2>3, <4>4 DEF Recover, RecoverBatch, Recovered
      <4>5. CASE \E b \in Batches : Client(b)
        BY <3>2, <4>5 DEF Client, Persist, Send, TimeOut, GiveUpSubmit, managerVars
      <4> QED
        BY <1>3, <4>1, <4>2, <4>3, <4>4, <4>5 DEF ManagerStep
    <3> QED
      BY <2>1, <3>1, <3>2 DEF CInv, Attended
  <2> QED
    BY <2>2, <2>3
<1>4. CASE Dequeue
  <2>1. pc = "idle" /\ UNCHANGED <<status, manager>>
    BY <1>4 DEF Dequeue, Call
  <2> QED
    BY <2>1 DEF CInv, Attended, Inside, Loop
<1>5. CASE Settle
  <2>1. pc \notin Inside /\ UNCHANGED <<status, manager>>
    BY <1>5 DEF Settle, Inside, Loop
  <2> QED
    BY <2>1 DEF CInv, Attended
<1>6. CASE Died
  BY <1>6 DEF Died, Crash, StopService, Halt, Attended
<1>7. ASSUME NEW t \in Tasks, Worker(t), UNCHANGED manager PROVE Attended'
  <2>1. UNCHANGED <<pc, outcomes, active>>
    BY <1>7 DEF Worker, Load, Start, ReportLoad, ReportWrite, EndLoad, End, GiveUp, Return, Work
  <2>2. CASE Start(t)
    <3>1. Alive(t)
      BY <2>2 DEF Start, Work, Alive, Unsettled
    <3>2. t \in active /\ pc \in Inside
      BY <3>1 DEF CInv, IInv, PoolInv, LockHeld, ActiveHoldsAlive, Intact
    <3>3. \A u \in Tasks : u # t => status'[u] = status[u]
      BY <1>1, <2>2 DEF Start, Work
    <3> QED
      BY <1>7, <2>1, <3>2, <3>3 DEF CInv, Attended
  <2>3. CASE ~Start(t)
    <3>1. worker[t] = "reporting" => status[t] = "running"
      BY DEF CInv, Intact
    <3>2. CASE ReportWrite(t)
      BY <1>1, <1>7, <2>1, <3>1, <3>2 DEF ReportWrite, Work, CInv, Attended
    <3>3. CASE Return(t)
      BY <1>7, <2>1, <3>3 DEF Return, CInv, Attended
    <3>4. CASE Load(t) \/ ReportLoad(t) \/ EndLoad(t) \/ GiveUp(t)
      BY <1>1, <1>7, <2>1, <3>4 DEF Load, ReportLoad, EndLoad, GiveUp, Work, CInv, Attended
    <3>5. CASE End(t)
      BY <1>1, <1>7, <2>1, <3>5 DEF End, Work, CInv, Attended
    <3> QED
      BY <1>7, <2>3, <3>2, <3>3, <3>4, <3>5 DEF Worker
  <2> QED
    BY <2>2, <2>3
<1>8. ASSUME Other \/ \E t \in Tasks : Mishap(t), UNCHANGED manager PROVE Attended'
  <2>1. UNCHANGED <<status, outcomes, active, pc>>
    BY <1>8 DEF Mishap, Escape, Die, Other, OtherAcquire, OtherRelease
  <2> QED
    BY <1>2, <1>8, <2>1
<1>9. ASSUME RunBatch, UNCHANGED manager PROVE Attended'
  <2>1. ASSUME NEW t \in Tasks, Collect(t) PROVE Attended'
    <3>1. /\ pc = "collect" /\ t \in done /\ active' = active \ {t} /\ UNCHANGED status
          /\ pc' \in Inside
      BY <2>1 DEF Collect, Inside, Loop
    <3>2. \A u \in Tasks : outcomes[u] # "raised"
      BY <3>1 DEF CInv, Covered
    <3>3. ASSUME status[t] = "running" PROVE outcomes'[t] = "raised"
      <4>1. future[t] # "pending" /\ future[t] # NoFuture
        BY <1>1, <3>1 DEF CInv, IInv, PoolInv, ActiveHoldsAlive, Covered
      <4>2. future[t] = "raised"
        BY <3>3, <4>1 DEF CInv, Intact, IInv, TypeOK, SchedulerTypes, Outcomes, Terminal
      <4> QED
        BY <1>1, <2>1, <3>3, <4>2 DEF Collect, Live
    <3> QED
      BY <1>9, <3>1, <3>2, <3>3 DEF CInv, Attended
  <2>2. ASSUME NEW t \in Tasks, MarkWrite(t) PROVE Attended'
    <3>1. /\ pc = "mark write" /\ outcomes[t] = "raised" /\ pc' \in Inside /\ UNCHANGED active
      BY <2>2 DEF MarkWrite, Inside, Loop
    <3>3. \A u \in Tasks : /\ status'[u] = IF u = t THEN "failed" ELSE status[u]
                           /\ outcomes'[u] = IF u = t THEN "failed" ELSE outcomes[u]
      BY <1>1, <2>2 DEF MarkWrite
    <3> QED
      BY <1>9, <3>1, <3>3 DEF CInv, Attended
  <2>3. CASE Submit
    BY <1>9, <2>3 DEF Submit, CInv, Attended
  <2>4. CASE LockBusy \/ Acquire
    <3>1. pc \notin Inside /\ UNCHANGED status
      BY <2>4 DEF LockBusy, Acquire, Inside, Loop
    <3> QED
      BY <1>9, <3>1 DEF CInv, Attended
  <2>5. CASE Block \/ SampleAgain \/ StopFilling \/ Wait \/ EndOfRound \/ \E t \in Tasks : MarkFailed(t)
    BY <1>2, <1>9, <2>5 DEF Block, SampleAgain, StopFilling, Wait, EndOfRound, MarkFailed,
       Inside, Loop
  <2>6. CASE Leave
    <3>1. pc = "leave" /\ UNCHANGED status
      BY <2>6 DEF Leave, Exit
    <3>2. active = {} /\ \A t \in Tasks : outcomes[t] # "raised"
      BY <3>1 DEF CInv, Covered
    <3> QED
      BY <1>9, <3>1, <3>2 DEF CInv, Attended
  <2>7. ~Unwind /\ ~SubmitRaises
    BY NeverBreaks DEF Unwind, Exit, CInv, Covered
  <2> QED
    BY <1>9, <2>1, <2>2, <2>3, <2>4, <2>5, <2>6, <2>7 DEF RunBatch
<1> QED
  BY <1>3, <1>4, <1>5, <1>6, <1>7, <1>8, <1>9, NextSteps, NeverBreaks, SchedulingSteps
     DEF Scheduling, Schedule, WorkerSteps, PoolSteps, managerVars

LEMMA CalmInit == Init => CInv
<1> SUFFICES ASSUME Init PROVE NoCancel /\ Intact /\ Covered /\ Attended
  BY InvariantInit, LifecycleInit DEF CInv
<1> QED
  BY DEF Init, SchedInit, NoCancel, NoCall, Intact, NoFuture, Covered, Attended

LEMMA CalmStep ==
  ASSUME Calm
  PROVE  CInv /\ [Next]_vars => CInv'
<1> SUFFICES ASSUME CInv, [Next]_vars PROVE CInv'
  OBVIOUS
<1>1. IInv' /\ Lifecycle' /\ Owned'
  BY InvariantStep, LifecycleStep DEF CInv, IInv
<1>2. CASE Next
  BY <1>1, <1>2, NoCancelStep, IntactStep, CoveredStep, AttendedStep DEF CInv
<1>3. CASE UNCHANGED vars
  <2> USE DEF vars, schedVars, store, locals, pool, managerVars, ipcVars, CInv
  <2>1. NoCancel' /\ Intact' /\ Attended'
    BY <1>3 DEF NoCancel, Intact, Attended
  <2>2. Covered'
    BY <1>3 DEF Covered, TasksOf
  <2> QED
    BY <1>1, <2>1, <2>2
<1> QED
  BY <1>2, <1>3

LEMMA CalmInvariant ==
  ASSUME Calm
  PROVE  Spec => []CInv
<1>1. CInv /\ [Next]_vars => CInv'
  BY CalmStep
<1> QED
  BY <1>1, CalmInit, PTL DEF Spec

-----------------------------------------------------------------------------
(* What is accepted is at hand.                                            *)

\* What a manager that is up has not to look at, is not at and has not queued, is not
\* an accepted batch with a task to start.
Scheduled ==
  \A b \in Batches :
    /\ manager \in {"recovering", "serving", "stopping", "raised"}
    /\ client[b] = "accepted"
    /\ \E t \in TasksOf(b) : status[t] = "queued"
    => b \in todo \/ b = current \/ b \in ToSet(queue)

\* Nobody else takes the lock, so run_batch does not raise.
NoOther == lock # "other" /\ pc # "raised"

SInv == CInv /\ NoOther /\ Scheduled

LEMMA NoOtherStep ==
  ASSUME Calm, Contended = FALSE, CInv, NoOther, Next
  PROVE  NoOther'
<1> USE DEF NoOther, store
<1>1. CASE ManagerStep
  BY <1>1, ManagerSteps
<1>2. CASE Scheduling
  <2>1. CASE Schedule
    <3>1. ~LockBusy /\ ~Unwind
      BY DEF LockBusy, Unwind, Exit, CInv, Covered
    <3> QED
      BY <2>1, <3>1, NeverBreaks DEF Schedule, RunBatch, Acquire, Submit, Block,
         SampleAgain, StopFilling, Wait, Collect, MarkFailed, MarkWrite, EndOfRound, Leave,
         Exit, CInv, Covered
  <2> QED
    BY <1>2, <2>1, NeverBreaks DEF Scheduling, WorkerSteps, PoolSteps, Worker, Load, Start,
       ReportLoad, ReportWrite, EndLoad, End, GiveUp, Return, Work, Mishap, Escape, Other, OtherAcquire, OtherRelease
<1>3. CASE Dequeue \/ Settle \/ Died
  BY <1>3 DEF Dequeue, Call, Settle, Died, Crash, StopService, Halt, Command
<1> QED
  BY <1>1, <1>2, <1>3, NextSteps

\* An accepted batch has its tasks, and none of them is queued again.
LEMMA AcceptedBefore ==
  ASSUME TypeOK, Owned, Next, NEW b \in Batches, client[b] = "accepted",
         NEW t \in TasksOf(b)', status'[t] = "queued"
  PROVE  t \in TasksOf(b) /\ status[t] = "queued"
<1>1. taskIds[b] # <<>>
  BY DEF Owned
<1>2. t \in TasksOf(b)
  BY <1>1, SameTasks
<1>3. t \in Tasks
  BY <1>2, BatchTasks DEF TypeOK
<1> QED
  BY <1>2, <1>3, NeverQueuedAgain DEF TypeOK

\* A step that accepts no batch, and lets none go.
LEMMA StillScheduled ==
  ASSUME TypeOK, Owned, Next, Scheduled,
         manager' \in {"recovering", "serving", "stopping", "raised"} =>
           manager \in {"recovering", "serving", "stopping", "raised"},
         \A b \in Batches :
           client'[b] = "accepted" => client[b] = "accepted",
         \A b \in Batches : b \in todo \/ b = current \/ b \in ToSet(queue) =>
           \/ b \in todo' \/ b = current' \/ b \in ToSet(queue')
           \/ \A t \in TasksOf(b) : status'[t] # "queued"
  PROVE  Scheduled'
<1> SUFFICES ASSUME NEW b \in Batches,
                    manager' \in {"recovering", "serving", "stopping", "raised"},
                    client'[b] = "accepted", NEW t \in TasksOf(b)', status'[t] = "queued"
             PROVE  b \in todo' \/ b = current' \/ b \in ToSet(queue')
  BY DEF Scheduled
<1>1. t \in TasksOf(b) /\ status[t] = "queued"
  BY AcceptedBefore
<1>2. b \in todo \/ b = current \/ b \in ToSet(queue)
  BY <1>1 DEF Scheduled
<1> QED
  BY <1>1, <1>2

LEMMA StartBatchQueues ==
  ASSUME TypeOK, NEW b \in Batches, StartBatch(b)
  PROVE  /\ ToSet(queue) \subseteq ToSet(queue')
         /\ b = current \/ b \in ToSet(queue')
<1>1. ToSet(Append(queue, b)) = ToSet(queue) \cup {b}
  BY Appended DEF TypeOK, ManagerTypes
<1> QED
  BY <1>1 DEF StartBatch

LEMMA ScheduledStep ==
  ASSUME Calm, CInv, NoOther, Scheduled, Next
  PROVE  Scheduled'
<1> USE DEF schedVars, managerVars, ipcVars, history
<1>1. TypeOK /\ Owned
  BY DEF CInv, IInv
<1>2. ASSUME Disconnect PROVE \A b \in Batches : client'[b] = "accepted" => client[b] = "accepted"
  BY <1>2 DEF Disconnect
<1>3. CASE Scheduling
  BY <1>1, <1>3, SchedulingSteps, StillScheduled
<1>4. CASE Dequeue
  <2>1. queue \in Seq(Batches) /\ queue # <<>>
    BY <1>1, <1>4 DEF Dequeue, TypeOK, ManagerTypes
  <2>2. ToSet(queue) = {current'} \cup ToSet(queue')
    BY <1>4, <2>1, HeadAndTail DEF Dequeue
  <2>3. \A b \in Batches : b # current
    BY <1>4, OrderAssumption DEF Dequeue, CInv, Lifecycle
  <2> QED
    BY <1>1, <1>4, <2>2, <2>3, StillScheduled DEF Dequeue
<1>5. CASE Settle
  <2>1. pc = "returned" /\ run = current /\ run \in Batches
    BY <1>5 DEF Settle, NoOther, CInv, Lifecycle
  <2>2. \A t \in TasksOf(current) : status[t] # "queued"
    <3>1. pending = <<>> /\ active = {}
      BY <2>1 DEF CInv, Covered
    <3>2. ToSet(pending) = {}
      BY <3>1 DEF ToSet
    <3>3. TasksOf(run) \subseteq Tasks
      BY <1>1, <2>1, BatchTasks DEF TypeOK
    <3>4. \A t \in TasksOf(run) : status[t] \in Terminal
      BY <2>1, <3>1, <3>2, <3>3 DEF CInv, Covered
    <3> QED
      BY <2>1, <3>4 DEF Terminal
  <2>3. UNCHANGED <<status, manager, queue, todo, client>>
    BY <1>5 DEF Settle, store
  <2> QED
    BY <1>1, <2>2, <2>3, StillScheduled
<1>6. CASE Died
  BY <1>6 DEF Died, Crash, StopService, Halt, Scheduled
<1>7. CASE LostClient \/ Stopped
  BY <1>1, <1>2, <1>7, StillScheduled DEF LostClient, Hangup, Stopped
<1>8. CASE Drained \/ Stop \/ Boot("down") \/ Boot("crashed")
  BY <1>1, <1>8, StillScheduled DEF Drained, Stop, Request, Command, Boot
<1>9. CASE RecoverJobs
  <2>1. todo' = {b \in Batches : taskIds[b] # <<>>} /\ UNCHANGED <<client, taskIds>>
    BY <1>9 DEF RecoverJobs
  <2> QED
    BY <2>1 DEF CInv, Owned, Scheduled
<1>10. ASSUME NEW b \in Batches, RecoverBatch(b) PROVE Scheduled'
  <2>1. todo' = todo \ {b} /\ UNCHANGED <<client, manager, current, status, taskIds>>
    BY <1>10 DEF RecoverBatch
  <2>2. CASE \E t \in TasksOf(b) : status[t] = "queued"
    <3>1. StartBatch(b)
      BY <1>10, <2>2 DEF RecoverBatch
    <3>2. ToSet(queue) \subseteq ToSet(queue') /\ (b = current' \/ b \in ToSet(queue'))
      BY <1>1, <2>1, <3>1, StartBatchQueues
    <3> QED
      BY <1>1, <2>1, <3>2, StillScheduled
  <2>3. CASE \A t \in TasksOf(b) : status[t] # "queued"
    <3>1. UNCHANGED queue
      BY <1>10, <2>3 DEF RecoverBatch
    <3> QED
      BY <1>1, <2>1, <2>3, <3>1, StillScheduled
  <2> QED
    BY <2>2, <2>3
<1>11. CASE Recovered
  BY <1>1, <1>11, StillScheduled DEF Recovered
<1>12. ASSUME NEW b \in Batches, Client(b) PROVE Scheduled'
  <2>1. \A c \in Batches : client'[c] = "accepted" => client[c] = "accepted"
    BY <1>1, <1>12 DEF Client, Persist, Send, TimeOut, Lapse, GiveUpSubmit, TypeOK, ManagerTypes
  <2>2. UNCHANGED managerVars
    BY <1>12 DEF Client, Persist, Send, TimeOut, GiveUpSubmit
  <2> QED
    BY <1>1, <2>1, <2>2, StillScheduled
<1>13. CASE Submitted
  <2>1. \A c \in Batches : client'[c] = "accepted" => client[c] = "accepted"
    BY <1>1, <1>2, <1>13 DEF Submitted, Answer, Lapse, Hangup, TypeOK, ManagerTypes
  <2>2. manager = "serving" /\ UNCHANGED <<queue, current, todo>>
    BY <1>13 DEF Submitted, CInv, Lifecycle, NoCall
  <2> QED
    BY <1>1, <2>1, <2>2, StillScheduled
<1>14. CASE Enqueue
  <2> DEFINE b == call.batch
  <2>1. b \in Batches /\ manager = "serving"
    BY <1>1, <1>14, RequestFields DEF Enqueue, TypeOK, ManagerTypes, CInv, Lifecycle, NoCall
  <2>2. StartBatch(b) /\ Answer("accepted") /\ UNCHANGED <<current, todo, status, taskIds>>
    BY <1>14 DEF Enqueue, store
  <2>3. ToSet(queue) \subseteq ToSet(queue') /\ (b = current' \/ b \in ToSet(queue'))
    BY <1>1, <2>1, <2>2, StartBatchQueues
  <2> HIDE DEF b
  <2>4. \A c \in Batches : c # b /\ client'[c] = "accepted" => client[c] = "accepted"
    BY <1>1, <1>2, <1>14, <2>2 DEF Answer, Lapse, Hangup, TypeOK, ManagerTypes, b
  <2> QED
    BY <2>1, <2>2, <2>3, <2>4 DEF Scheduled, TasksOf
<1>15. ASSUME NEW b \in Batches, NEW c \in Batches, Retry(b, c) PROVE Scheduled'
  <2>1. UNCHANGED <<managerVars, client>>
    BY <1>15 DEF Retry, RetryOf
  <2> QED
    BY <1>1, <2>1, StillScheduled
<1>16. CASE \/ Accept \/ CancelNext \/ CancelLoad \/ CancelWrite \/ CancelRead \/ CancelAggregate
            \/ \E b \in Batches : CancelRequest(b)
  <2>1. UNCHANGED <<managerVars, client>>
    BY <1>16 DEF Accept, CancelNext, CancelLoad, CancelWrite, CancelRead, CancelAggregate,
       CancelRequest
  <2> QED
    BY <1>1, <2>1, StillScheduled
<1> QED
  BY <1>3, <1>4, <1>5, <1>6, <1>7, <1>8, <1>9, <1>10, <1>11, <1>12, <1>13, <1>14, <1>15, <1>16,
     NextSteps DEF ManagerStep, Serve, Recover

LEMMA ScheduledInvariant ==
  ASSUME Calm, Contended = FALSE
  PROVE  Spec => []SInv
<1>1. Init => SInv
  <2> SUFFICES ASSUME Init PROVE NoOther /\ Scheduled
    BY CalmInit DEF SInv
  <2> QED
    BY DEF Init, SchedInit, NoOther, Scheduled
<1>2. SInv /\ [Next]_vars => SInv'
  <2> SUFFICES ASSUME SInv, [Next]_vars PROVE SInv'
    OBVIOUS
  <2>1. CInv'
    BY CalmStep DEF SInv
  <2>2. CASE Next
    BY <2>1, <2>2, NoOtherStep, ScheduledStep DEF SInv
  <2>3. CASE UNCHANGED vars
    BY <2>1, <2>3 DEF SInv, NoOther, Scheduled, TasksOf, vars, schedVars, store,
       managerVars, ipcVars
  <2> QED
    BY <2>2, <2>3
<1> QED
  BY <1>1, <1>2, PTL DEF Spec

-----------------------------------------------------------------------------
\* Without cancels and deaths every task that is stored as running is at the batch the
\* manager runs, and not waiting there: neither recovery nor run_batch leaves a zombie,
\* wherever the manager has crashed and however often (daemon.py:87-92, scheduler.py:243-247).
THEOREM NoZombie ==
  ASSUME Calm
  PROVE  Spec => []RunningIsAttended
<1>1. CInv => RunningIsAttended
  <2> SUFFICES ASSUME CInv, NEW t \in Tasks, Served, status[t] = "running"
               PROVE  draining /\ current = run /\ t \in TasksOf(run) /\ t \notin ToSet(pending)
    BY DEF RunningIsAttended
  <2>1. pc \in Inside /\ (t \in active \/ outcomes[t] = "raised")
    BY DEF CInv, Attended, Served
  <2>2. draining /\ current = run
    BY <2>1 DEF CInv, Lifecycle, Inside, Loop
  <2>3. t \in TasksOf(run) /\ t \notin ToSet(pending)
    BY <2>1 DEF CInv, Covered, Inside, Loop, NoFuture
  <2> QED
    BY <2>2, <2>3
<1> QED
  BY <1>1, CalmInvariant, PTL

\* Nor does any of them write again what has ended: it takes a cancel or a dead worker's
\* sibling to leave a terminal status.
THEOREM EndedIsFinal ==
  ASSUME Calm
  PROVE  Spec => [][\A t \in Tasks : status[t] \in Terminal => status'[t] = status[t]]_vars
<1>1. CInv /\ [Next]_vars =>
        [\A t \in Tasks : status[t] \in Terminal => status'[t] = status[t]]_vars
  BY EndedStays
<1> QED
  BY <1>1, CalmInvariant, PTL DEF Spec

\* So what is retried had ended without success, and stays so.
THEOREM RetriesUnfinished ==
  ASSUME Calm
  PROVE  Spec => []RetryIsOfUnfinished
<1>1. Init => RetryIsOfUnfinished
  BY DEF Init, RetryIsOfUnfinished
<1>2. CInv /\ RetryIsOfUnfinished /\ [Next]_vars => RetryIsOfUnfinished'
  <2> SUFFICES ASSUME CInv, RetryIsOfUnfinished, [Next]_vars, NEW t \in Tasks, retryOf'[t] # NoTask
               PROVE  status'[retryOf'[t]] \in {"failed", "interrupted", "cancelled"}
    BY DEF RetryIsOfUnfinished
  <2>1. CASE UNCHANGED vars
    BY <2>1 DEF RetryIsOfUnfinished, vars, schedVars, store, history
  <2>2. CASE Next
    <3>1. ASSUME NEW b \in Batches, NEW c \in Batches, Retry(b, c)
          PROVE  \/ retryOf'[t] = retryOf[t]
                 \/ status[retryOf'[t]] \in {"failed", "interrupted", "cancelled"}
      BY <3>1, RetryFacts DEF CInv, IInv
    <3>2. \/ \E b, c \in Batches : Retry(b, c)
          \/ UNCHANGED retryOf
      BY <2>2, NextSteps, SchedulingSteps DEF ManagerStep, Drained, Serve, Accept,
         Submitted, Enqueue, Answer, CancelNext, CancelLoad, CancelWrite, CancelRead,
         CancelAggregate, CancelRequest, Stop, LostClient, Stopped, Boot, Recover,
         RecoverJobs, RecoverBatch, Recovered, Client, Persist, Send, TimeOut, GiveUpSubmit,
         Dequeue, Settle, Died, Crash, StopService, Halt, Command, history
    <3>3. status[retryOf'[t]] \in {"failed", "interrupted", "cancelled"}
      BY <3>1, <3>2 DEF RetryIsOfUnfinished
    <3>4. retryOf' \in [Tasks -> Tasks \cup {NoTask}]
      BY <2>2, TypesStep DEF CInv, IInv, PoolInv, TypeOK, ManagerTypes
    <3>5. retryOf'[t] \in Tasks
      BY <3>4
    <3> QED
      BY <2>2, <3>3, <3>5, EndedStays DEF Terminal
  <2> QED
    BY <2>1, <2>2
<1> QED
  BY <1>1, <1>2, CalmInvariant, PTL DEF Spec

\* With the scheduler's lock to itself, the manager forgets no batch that it has
\* accepted: neither a crash nor a client that has given up makes it lose its place
\* (daemon.py:46-102).
THEOREM NothingForgotten ==
  ASSUME Calm, Contended = FALSE
  PROVE  Spec => []AcceptedIsScheduled
<1>1. SInv => AcceptedIsScheduled
  BY DEF SInv, CInv, Lifecycle, Scheduled, AcceptedIsScheduled, Served
<1> QED
  BY <1>1, ScheduledInvariant, PTL
=============================================================================
