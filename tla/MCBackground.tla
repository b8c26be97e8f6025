---------------------------- MODULE MCBackground ----------------------------
(* A background manager with two batches of one or two tasks in all.         *)
EXTENDS Background

CONSTANTS t1, t2, t3, b1, b2

OneTask    == <<t1>>
TwoTasks   == <<t1, t2>>
ThreeTasks == <<t1, t2, t3>>
OneBatch   == <<b1>>
TwoBatches == <<b1, b2>>

(* A manager has accepted the batches of accepted and finds the others in    *)
(* its socket; the first is of all tasks but the last, the second of it.     *)
Accepted(accepted) ==
  /\ SchedInit
  /\ taskIds = [b \in Batches |-> IF b = b1 THEN Front(TaskOrder) ELSE <<Last(TaskOrder)>>]
  /\ status = [t \in Tasks |-> "queued"]
  /\ bstatus = [b \in Batches |-> "queued"]
  /\ manager = "serving" /\ queue = accepted /\ draining = TRUE /\ current = NoBatch
  /\ todo = {}
  /\ LET rest == SelectSeq(TwoBatches, LAMBDA b : b \notin ToSet(accepted)) IN
       inbox = [i \in DOMAIN rest |-> [batch |-> rest[i], open |-> TRUE]]
  /\ call = NoCall
  /\ client = [b \in Batches |-> IF b \in ToSet(accepted) THEN "accepted" ELSE "waiting"]
  /\ retryOf = [t \in Tasks |-> NoTask]
  /\ starts = [t \in Tasks |-> 0]
  /\ commands = 0 /\ crashes = 0 /\ timeouts = 0

QueueSpec  == Accepted(<<b1, b2>>) /\ [][Next]_vars /\ Fairness
SocketSpec == Accepted(<<b1>>) /\ [][Next]_vars /\ Fairness
=============================================================================
