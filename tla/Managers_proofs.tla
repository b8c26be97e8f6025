--------------------------- MODULE Managers_proofs ---------------------------
(* Any number of manager processes, starts and crashes on one runtime       *)
(* directory: who serves can be reached, and no task runs twice.            *)
EXTENDS Managers, TLAPS

Holding == {"unlink", "bind", "recover", "serve", "close", "unlink path", "unlock"}

PcType   == pc \in [Procs -> Holding \cup {"gone", "lock", "exit"}]
RunsType == /\ status \in [Tasks -> {"absent", "queued", "running", "succeeded", "interrupted"}]
            /\ runs \in [Tasks -> Nat]

\* The lock is held from before the path is taken to after it is given up, so that
\* only its holder touches the path; nobody else finds its own socket there.
LockGuardsPath ==
  /\ \A m \in Procs : pc[m] \in Holding <=> lock = m
  /\ \A m \in Procs : pc[m] = "bind" => path = Nobody
  /\ \A m \in Procs : pc[m] \in {"recover", "serve", "close"} => path = m /\ m \in open

\* A task that may still be started has not been.
RunsFollowStatus ==
  \A t \in Tasks : /\ runs[t] <= 1
                   /\ status[t] \in {"absent", "queued"} => runs[t] = 0

-----------------------------------------------------------------------------
LEMMA LockInit == Init => LockGuardsPath /\ PcType
BY NobodyAssumption DEF Init, LockGuardsPath, PcType, Holding

LEMMA LockStep ==
  ASSUME LockGuardsPath, PcType, [Next]_vars
  PROVE  LockGuardsPath' /\ PcType'
<1> USE NobodyAssumption DEF LockGuardsPath, PcType, Holding, Goto, serverVars
<1>1. ASSUME NEW m \in Procs, Start(m) PROVE LockGuardsPath' /\ PcType'
  BY <1>1 DEF Start
<1>2. ASSUME NEW m \in Procs, TakeLock(m) PROVE LockGuardsPath' /\ PcType'
  BY <1>2 DEF TakeLock
<1>3. ASSUME NEW m \in Procs, Refused(m) PROVE LockGuardsPath' /\ PcType'
  BY <1>3 DEF Refused
<1>4. ASSUME NEW m \in Procs, Unlink(m) PROVE LockGuardsPath' /\ PcType'
  BY <1>4 DEF Unlink
<1>5. ASSUME NEW m \in Procs, Bind(m) PROVE LockGuardsPath' /\ PcType'
  BY <1>5 DEF Bind
<1>6. ASSUME NEW m \in Procs, Recover(m) PROVE LockGuardsPath' /\ PcType'
  BY <1>6 DEF Recover
<1>7. ASSUME NEW m \in Procs, Stop(m) \/ Raise(m) PROVE LockGuardsPath' /\ PcType'
  BY <1>7 DEF Stop, Raise
<1>8. ASSUME NEW m \in Procs, CloseServer(m) PROVE LockGuardsPath' /\ PcType'
  BY <1>8 DEF CloseServer
<1>9. ASSUME NEW m \in Procs, UnlinkPath(m) PROVE LockGuardsPath' /\ PcType'
  BY <1>9 DEF UnlinkPath
<1>10. ASSUME NEW m \in Procs, Unlock(m) PROVE LockGuardsPath' /\ PcType'
  BY <1>10 DEF Unlock
<1>11. ASSUME NEW m \in Procs, Exit(m) PROVE LockGuardsPath' /\ PcType'
  BY <1>11 DEF Exit
<1>12. ASSUME NEW m \in Procs, Crash(m) PROVE LockGuardsPath' /\ PcType'
  BY <1>12 DEF Crash
<1>13. ASSUME UNCHANGED <<pc, lock, path, open>> PROVE LockGuardsPath' /\ PcType'
  BY <1>13
<1> QED
  BY <1>1, <1>2, <1>3, <1>4, <1>5, <1>6, <1>7, <1>8, <1>9, <1>10, <1>11, <1>12, <1>13
     DEF Next, Main, Drain, Dequeue, Work, Finish, Submit, StoreOnly, vars

LEMMA LockInvariant == Spec => [](LockGuardsPath /\ PcType)
BY LockInit, LockStep, PTL DEF Spec

\* A serving manager's own socket stands under the path: whoever leaves, has crashed
\* or starts meanwhile does not take it away, though close unlinks and __init__ takes
\* away whatever is there (ipc.py:44, daemon.py:230).
THEOREM Reachability == Spec => []ServingIsReachable
<1>1. LockGuardsPath => ServingIsReachable
  BY DEF LockGuardsPath, Holding, ServingIsReachable
<1> QED
  BY <1>1, LockInvariant, PTL

-----------------------------------------------------------------------------
LEMMA RunsInit == Init => RunsFollowStatus /\ RunsType
BY DEF Init, RunsFollowStatus, RunsType

LEMMA RunsStep ==
  ASSUME RunsFollowStatus, RunsType, [Next]_vars
  PROVE  RunsFollowStatus' /\ RunsType'
<1> USE DEF RunsFollowStatus, RunsType
<1>1. ASSUME NEW m \in Procs, Recover(m) PROVE RunsFollowStatus' /\ RunsType'
  BY <1>1 DEF Recover, history
<1>2. ASSUME NEW m \in Procs, NEW t \in Tasks, Submit(m, t) PROVE RunsFollowStatus' /\ RunsType'
  BY <1>2 DEF Submit, history
<1>3. ASSUME NEW t \in Tasks, StoreOnly(t) PROVE RunsFollowStatus' /\ RunsType'
  BY <1>3 DEF StoreOnly, history
<1>4. ASSUME NEW m \in Procs, Work(m) PROVE RunsFollowStatus' /\ RunsType'
  <2>1. /\ status' = [t \in Tasks |-> IF t = current[m] THEN "running" ELSE status[t]]
        /\ runs' = [t \in Tasks |-> IF t = current[m] THEN runs[t] + 1 ELSE runs[t]]
    BY <1>4 DEF Work
  <2>2. current[m] \in Tasks => runs[current[m]] = 0
    BY <1>4 DEF Work
  <2>3. RunsType'
    BY <2>1
  <2> QED
    BY <2>1, <2>2, <2>3
<1>5. ASSUME NEW m \in Procs, Finish(m) PROVE RunsFollowStatus' /\ RunsType'
  BY <1>5 DEF Finish, history
<1>6. ASSUME UNCHANGED <<status, runs>> PROVE RunsFollowStatus' /\ RunsType'
  BY <1>6
<1> QED
  BY <1>1, <1>2, <1>3, <1>4, <1>5, <1>6
     DEF Next, Main, Drain, Start, TakeLock, Refused, Unlink, Bind, Stop, Raise, CloseServer,
         UnlinkPath, Unlock, Exit, Crash, Dequeue, vars, history

LEMMA RunsInvariant == Spec => [](RunsFollowStatus /\ RunsType)
BY RunsInit, RunsStep, PTL DEF Spec

\* However many managers have the same task in their queues, it is transcribed at most
\* once: the stored status decides, and under the scheduler's lock one worker at a
\* time reads and writes it (scheduler.py:206).
THEOREM Once == Spec => []TranscribedOnce
<1>1. RunsFollowStatus => TranscribedOnce
  BY DEF RunsFollowStatus, TranscribedOnce
<1> QED
  BY <1>1, RunsInvariant, PTL
=============================================================================
