------------------------------- MODULE Budget -------------------------------
(***************************************************************************)
(* The resource budget of a batch: how many workers calculate_budget       *)
(* (resources.py) allows, how the scheduler checks the stored budget, and  *)
(* the guard _wait_until_safe (scheduler.py) that samples the process tree *)
(* before each worker starts.  CPU use is in percent of one core, as       *)
(* psutil gives it; memory is in any unit.                                 *)
(***************************************************************************)
EXTENDS Integers

CONSTANTS
  Configs,   \* records cpu, memory (percent), workers, threads
  Machines,  \* records cpu, total, available
  PeakCap,   \* what one worker is assumed to need at most (3 GiB in cli.py)
  OwnRss     \* what the scheduling process itself occupies

ASSUME ConfigsAssumption ==
  Configs \subseteq [cpu : 0..100, memory : 0..100, workers : Nat \ {0}, threads : Nat \ {0}]
ASSUME MachinesAssumption ==
  Machines \subseteq [cpu : Nat \ {0}, total : Nat \ {0}, available : Nat]
ASSUME PeakCapAssumption == PeakCap \in Nat \ {0}
ASSUME OwnRssAssumption == OwnRss \in Nat

VARIABLES
  config, machine, peak,  \* the inputs and the reserve, fixed by the command
  budget,   \* the effective budget stored with the batch
  active    \* how many workers run

vars == <<config, machine, peak, budget, active>>

Least(a, b) == IF a <= b THEN a ELSE b

-----------------------------------------------------------------------------
(* calculate_budget, with the reserve for one worker that the command gives *)

Reserve(m) == Least(PeakCap, IF m.available > 1 THEN m.available ELSE 1)

CpuThreadLimit(c, m) ==
  LET share == (m.cpu * c.cpu) \div 100
  IN  IF c.cpu = 0 THEN m.cpu ELSE IF share > 1 THEN share ELSE 1

CpuWorkerLimit(c, m) == CpuThreadLimit(c, m) \div c.threads

MemoryBudget(c, m) == IF c.memory = 0 THEN 0 ELSE (m.total * c.memory) \div 100

\* A budget of 0 means that only the available memory counts.
MemoryWorkerLimit(c, m, p) ==
  Least(IF MemoryBudget(c, m) = 0 THEN m.available \div p ELSE MemoryBudget(c, m) \div p,
        m.available \div p)

\* Mutant of Calculated: a CPU limit that fits no worker is not a reason to reject.
CalculatedLenient(c, m, p) ==
  [workers  |-> Least(Least(c.workers, CpuWorkerLimit(c, m)), MemoryWorkerLimit(c, m, p)),
   threads  |-> c.threads,
   cpu      |-> CpuThreadLimit(c, m),
   memory   |-> MemoryBudget(c, m),
   rejected |-> MemoryWorkerLimit(c, m, p) < 1]

Calculated(c, m, p) ==
  [workers  |-> Least(Least(c.workers, CpuWorkerLimit(c, m)), MemoryWorkerLimit(c, m, p)),
   threads  |-> c.threads,
   cpu      |-> CpuThreadLimit(c, m),
   memory   |-> MemoryBudget(c, m),
   rejected |-> MemoryWorkerLimit(c, m, p) < 1 \/ CpuWorkerLimit(c, m) < 1]

NoBudget == [workers |-> 0, threads |-> 0, cpu |-> 0, memory |-> 0, rejected |-> FALSE]

\* What _budget accepts when run_batch starts.
Startable(b) == b.workers >= 1 /\ b.threads >= 1 /\ b.workers * b.threads <= b.cpu

-----------------------------------------------------------------------------
(* The guard, given a sample u.                                            *)

CpuBlocked(u) == config.cpu > 0 /\ u.cpu > config.cpu

\* Mutant of BudgetBlocked: the active workers count for what they occupy now.
BudgetBlockedByRss(u) ==
  /\ budget.memory > 0
  /\ u.rss + peak > budget.memory

BudgetBlocked(u) ==
  /\ budget.memory > 0
  /\ u.rss + active * peak + peak > budget.memory

AvailableBlocked(u) == u.available < peak

Safe(u) == ~CpuBlocked(u) /\ ~BudgetBlocked(u) /\ ~AvailableBlocked(u)

\* The load that can be on the machine: the scheduler itself, and workers that
\* have grown to at most their reserve; a worker uses its threads, or all cores
\* while ffmpeg runs for it; other programs decide on what is available.
Loads ==
  [cpu : {0, 100 * active * config.threads, IF active > 0 THEN 100 * machine.cpu ELSE 0},
   rss : {OwnRss, OwnRss + active * peak},
   available : {0, machine.available}]

\* sample_process_tree makes new psutil.Process objects for each sample, and the
\* first cpu_percent(interval=None) of an object is 0.0.
Sampled(load) == [load EXCEPT !.cpu = 0]

-----------------------------------------------------------------------------
Init ==
  /\ config \in Configs /\ machine \in Machines
  /\ peak = Reserve(machine)
  /\ budget = NoBudget
  /\ active = 0

\* A rejected budget ends the command with exit code 4; the batch is not stored.
Plan ==
  /\ budget = NoBudget
  /\ budget' = Calculated(config, machine, peak)
  /\ UNCHANGED <<config, machine, peak, active>>

Accepted == budget # NoBudget /\ ~budget.rejected

\* Mutant of Submit: one worker more than the budget has.
SubmitOneMore ==
  /\ Accepted /\ Startable(budget)
  /\ active <= budget.workers
  /\ \E load \in Loads : Safe(Sampled(load))
  /\ active' = active + 1
  /\ UNCHANGED <<config, machine, peak, budget>>

\* The guard samples afresh for each worker.
Submit ==
  /\ Accepted /\ Startable(budget)
  /\ active < budget.workers
  /\ \E load \in Loads : Safe(Sampled(load))
  /\ active' = active + 1
  /\ UNCHANGED <<config, machine, peak, budget>>

\* Mutant of Finish: a worker is counted out twice.
FinishTwice ==
  /\ active > 0
  /\ active' = active - 2
  /\ UNCHANGED <<config, machine, peak, budget>>

Finish ==
  /\ active > 0
  /\ active' = active - 1
  /\ UNCHANGED <<config, machine, peak, budget>>

Next == Plan \/ Submit \/ Finish

Spec == Init /\ [][Next]_vars

-----------------------------------------------------------------------------
TypeOK ==
  /\ config \in Configs /\ machine \in Machines /\ peak \in Nat \ {0}
  /\ budget \in [workers : Nat, threads : Nat, cpu : Nat, memory : Nat, rejected : BOOLEAN]
  /\ active \in Nat

\* The planner and the scheduler agree: a budget that calculate_budget does not
\* reject is one that run_batch accepts.
AcceptedIsStartable == Accepted => Startable(budget)

\* The threads of all workers together stay within the share of the machine, or at
\* one thread if the share is less.
ThreadsWithinBudget == active * config.threads <= CpuThreadLimit(config, machine)

\* The memory of the scheduler and of workers that have grown to their reserve
\* stays within the memory budget, though each sample shows less than that, and
\* the reserves stay within what was available at the start.
MemoryWithinBudget ==
  /\ active > 0 /\ config.memory > 0 /\ MemoryBudget(config, machine) > 0 =>
       OwnRss + active * peak <= MemoryBudget(config, machine)
  /\ active * peak <= machine.available

\* solution.md:293: a batch is refused at the start if not even one worker fits;
\* so the first worker of a batch that is accepted can start on an idle machine.
FirstWorkerCanStart == Accepted /\ active = 0 => \E load \in Loads : Safe(Sampled(load))

\* solution.md:316: if the process tree keeps above the CPU target (303: a percentage
\* of the logical CPUs of the whole machine), no new task is started.
OverloadPauses ==
  \A load \in Loads :
    config.cpu > 0 /\ load.cpu > machine.cpu * config.cpu => ~Safe(Sampled(load))
=============================================================================
