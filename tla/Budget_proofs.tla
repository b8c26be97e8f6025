--------------------------- MODULE Budget_proofs ---------------------------
(***************************************************************************)
(* The budget holds for every machine and configuration: proofs about      *)
(* Budget.  The invariant fixes what the stored budget was calculated from *)
(* and keeps the number of workers within it.                              *)
(***************************************************************************)
EXTENDS Budget, TLAPS

\* What a quotient of naturals is, and that it times the divisor does not exceed
\* the dividend.
LEMMA Quotient ==
  ASSUME NEW a \in Nat, NEW b \in Nat \ {0}
  PROVE  /\ a \div b \in Nat
         /\ (a \div b) * b <= a
<1>1. a \div b \in Int
  BY SMT
<1>2. b * (a \div b) <= a
  BY SMT
<1>3. a \div b >= 0
  BY SMT
<1> QED
  BY <1>1, <1>2, <1>3, SMT

\* What the smaller of two naturals is.
LEMMA LeastOfTwo ==
  ASSUME NEW a \in Nat, NEW b \in Nat
  PROVE  Least(a, b) \in Nat /\ Least(a, b) <= a /\ Least(a, b) <= b /\ Least(a, b) \in {a, b}
BY DEF Least

\* Multiplication by a natural is monotone.
LEMMA Times ==
  ASSUME NEW a \in Nat, NEW b \in Nat, NEW c \in Nat, a <= b
  PROVE  a * c <= b * c
<1>1. b = a + (b - a) /\ b - a \in Nat
  OBVIOUS
<1>2. b * c = a * c + (b - a) * c
  BY <1>1
<1>3. (b - a) * c \in Nat /\ a * c \in Nat
  BY <1>1
<1> QED
  BY <1>2, <1>3

\* At least one thread is always granted (calculate_budget).
LEMMA CpuThreadLimitType ==
  ASSUME NEW c \in Configs, NEW m \in Machines
  PROVE  CpuThreadLimit(c, m) \in Nat \ {0}
<1>1. c.cpu \in Nat /\ m.cpu \in Nat \ {0}
  BY ConfigsAssumption, MachinesAssumption
<1>2. m.cpu * c.cpu \in Nat
  BY <1>1
<1>3. (m.cpu * c.cpu) \div 100 \in Nat
  BY <1>2, Quotient
<1> QED
  BY <1>1, <1>3 DEF CpuThreadLimit

\* The share of the memory is a natural number.
LEMMA MemoryBudgetType ==
  ASSUME NEW c \in Configs, NEW m \in Machines
  PROVE  MemoryBudget(c, m) \in Nat
<1>1. c.memory \in Nat /\ m.total \in Nat
  BY ConfigsAssumption, MachinesAssumption
<1>2. m.total * c.memory \in Nat
  BY <1>1
<1> QED
  BY <1>2, Quotient DEF MemoryBudget

\* The reserve of a worker is never zero.
LEMMA ReserveType ==
  ASSUME NEW m \in Machines
  PROVE  Reserve(m) \in Nat \ {0}
BY PeakCapAssumption, MachinesAssumption DEF Reserve, Least

\* calculate_budget: the type of its result, and the bounds it keeps.
LEMMA CalculatedBounds ==
  ASSUME NEW c \in Configs, NEW m \in Machines, NEW p \in Nat \ {0}
  PROVE  LET b == Calculated(c, m, p) IN
         /\ b \in [workers : Nat, threads : Nat, cpu : Nat, memory : Nat, rejected : BOOLEAN]
         /\ b.threads = c.threads /\ c.threads \in Nat \ {0}
         /\ b.cpu = CpuThreadLimit(c, m) /\ b.memory = MemoryBudget(c, m)
         /\ b.workers * c.threads <= b.cpu
         /\ b.workers * p <= m.available
         /\ ~b.rejected => b.workers >= 1
<1> DEFINE limit == CpuThreadLimit(c, m)
           byCpu == CpuWorkerLimit(c, m)
           byMemory == MemoryWorkerLimit(c, m, p)
           workers == Least(Least(c.workers, byCpu), byMemory)
<1>1. c.workers \in Nat \ {0} /\ c.threads \in Nat \ {0} /\ m.available \in Nat
  BY ConfigsAssumption, MachinesAssumption
<1>2. limit \in Nat /\ MemoryBudget(c, m) \in Nat
  BY CpuThreadLimitType, MemoryBudgetType
<1>3. byCpu \in Nat /\ byCpu * c.threads <= limit
  BY <1>1, <1>2, Quotient DEF CpuWorkerLimit
<1>4. /\ m.available \div p \in Nat /\ (m.available \div p) * p <= m.available
      /\ MemoryBudget(c, m) \div p \in Nat
  BY <1>1, <1>2, Quotient
<1>5. byMemory \in Nat /\ byMemory <= m.available \div p
  BY <1>4 DEF MemoryWorkerLimit, Least
<1>6. /\ workers \in Nat /\ workers <= byCpu /\ workers <= byMemory
      /\ workers \in {c.workers, byCpu, byMemory}
  BY <1>1, <1>3, <1>5 DEF Least
<1>7. workers * c.threads <= limit
  <2>1. workers * c.threads <= byCpu * c.threads
    BY <1>1, <1>3, <1>6, Times
  <2>2. workers * c.threads \in Nat /\ byCpu * c.threads \in Nat
    BY <1>1, <1>3, <1>6
  <2> HIDE DEF workers, byCpu, limit
  <2> QED
    BY <2>1, <2>2, <1>2, <1>3
<1>8. workers * p <= m.available
  <2>1. workers <= m.available \div p
    <3> HIDE DEF workers, byMemory
    <3> QED
      BY <1>4, <1>5, <1>6
  <2>2. workers * p <= (m.available \div p) * p
    BY <2>1, <1>4, <1>6, Times
  <2>3. workers * p \in Nat /\ (m.available \div p) * p \in Nat
    BY <1>4, <1>6
  <2> HIDE DEF workers
  <2> QED
    BY <2>2, <2>3, <1>1, <1>4
<1>9. ~(byMemory < 1 \/ byCpu < 1) => workers >= 1
  <2> HIDE DEF byMemory, byCpu
  <2> QED
    BY <1>1, <1>3, <1>5, <1>6
<1>10. Calculated(c, m, p) =
         [workers |-> workers, threads |-> c.threads, cpu |-> limit,
          memory |-> MemoryBudget(c, m), rejected |-> byMemory < 1 \/ byCpu < 1]
  BY DEF Calculated
<1>11. limit = CpuThreadLimit(c, m)
  OBVIOUS
<1> DEFINE b == Calculated(c, m, p)
<1>12. /\ b.workers = workers /\ b.threads = c.threads /\ b.cpu = limit
       /\ b.memory = MemoryBudget(c, m) /\ b.rejected = (byMemory < 1 \/ byCpu < 1)
  <2> HIDE DEF workers, byMemory, byCpu, limit
  <2> QED
    BY <1>10
<1>13. b \in [workers : Nat, threads : Nat, cpu : Nat, memory : Nat, rejected : BOOLEAN]
  <2>1. (byMemory < 1 \/ byCpu < 1) \in BOOLEAN
    OBVIOUS
  <2> HIDE DEF workers, byMemory, byCpu, limit
  <2> QED
    BY <1>1, <1>2, <1>6, <1>10, <2>1
<1> HIDE DEF workers, byMemory, byCpu, limit, b
<1>14. /\ b.workers * c.threads <= b.cpu /\ b.workers * p <= m.available
       /\ ~b.rejected => b.workers >= 1
  BY <1>7, <1>8, <1>9, <1>12
<1> QED
  BY <1>1, <1>11, <1>12, <1>13, <1>14 DEF b

-----------------------------------------------------------------------------
\* What makes the bounds inductive: the stored budget is what the inputs give,
\* workers run only under an accepted one, and the guard's account adds up.
Accounted ==
  /\ peak = Reserve(machine)
  /\ budget \in {NoBudget, Calculated(config, machine, peak)}
  /\ active <= budget.workers
  /\ active > 0 => Accepted
  /\ active > 0 /\ budget.memory > 0 => OwnRss + active * peak <= budget.memory

IInv == TypeOK /\ Accounted

\* Before a budget is calculated there is nothing to account for.
LEMMA InitIInv == Init => IInv
<1> SUFFICES ASSUME Init PROVE IInv
  OBVIOUS
<1>1. peak \in Nat \ {0}
  BY ReserveType DEF Init
<1> QED
  BY <1>1 DEF Init, IInv, TypeOK, Accounted, NoBudget

\* Every step keeps the types and the account.
LEMMA NextIInv == IInv /\ [Next]_vars => IInv'
<1> SUFFICES ASSUME IInv, [Next]_vars PROVE IInv'
  OBVIOUS
<1> USE DEF IInv
<1>t. /\ config \in Configs /\ machine \in Machines /\ peak \in Nat \ {0} /\ active \in Nat
      /\ OwnRss \in Nat
  BY OwnRssAssumption DEF TypeOK
<1>1. CASE Plan
  <2>1. /\ Calculated(config, machine, peak) \in
              [workers : Nat, threads : Nat, cpu : Nat, memory : Nat, rejected : BOOLEAN]
    BY <1>t, CalculatedBounds
  <2>2. active = 0
    BY <1>1, <1>t DEF Plan, Accounted, Accepted
  <2>3. TypeOK'
    BY <1>1, <2>1 DEF Plan, TypeOK
  <2>4. Accounted'
    BY <1>1, <2>1, <2>2 DEF Plan, Accounted
  <2> QED
    BY <2>3, <2>4
<1>2. CASE Submit
  <2>1. TypeOK'
    BY <1>2 DEF Submit, TypeOK
  <2>2. PICK load \in Loads : Safe(Sampled(load))
    BY <1>2 DEF Submit
  <2>3. Sampled(load).rss = load.rss /\ load.rss \in {OwnRss, OwnRss + active * peak}
    BY <2>2 DEF Loads, Sampled
  <2>4. active * peak \in Nat /\ (active + 1) * peak = active * peak + peak
    BY <1>t
  <2>5. load.rss \in Nat /\ load.rss >= OwnRss
    BY <2>3, <2>4, <1>t
  <2>6. budget.memory \in Nat
    BY DEF TypeOK
  <2>7. budget.memory > 0 => load.rss + active * peak + peak <= budget.memory
    BY <2>2, <2>3, <2>4, <2>5, <2>6, <1>t DEF Safe, BudgetBlocked
  <2>8. budget.memory > 0 => OwnRss + (active + 1) * peak <= budget.memory
    BY <2>4, <2>5, <2>6, <2>7, <1>t
  <2>9. active + 1 <= budget.workers
    BY <1>2, <1>t DEF Submit, TypeOK
  <2>10. Accounted'
    BY <1>2, <2>8, <2>9 DEF Submit, Accounted, Accepted
  <2> QED
    BY <2>1, <2>10
<1>3. CASE Finish
  <2>1. TypeOK'
    BY <1>3 DEF Finish, TypeOK
  <2>2. (active - 1) * peak <= active * peak /\ (active - 1) * peak \in Nat /\ active * peak \in Nat
    BY <1>3, <1>t, Times DEF Finish
  <2>3. budget.memory \in Nat /\ budget.workers \in Nat
    BY DEF TypeOK
  <2>4. active > 0 /\ active - 1 <= budget.workers
    BY <1>3, <1>t, <2>3 DEF Finish, Accounted
  <2>5. budget.memory > 0 => OwnRss + (active - 1) * peak <= budget.memory
    <3>1. budget.memory > 0 => OwnRss + active * peak <= budget.memory
      BY <2>4 DEF Accounted
    <3> QED
      BY <3>1, <2>2, <2>3, <1>t
  <2>6. Accounted'
    BY <1>3, <2>4, <2>5 DEF Finish, Accounted, Accepted
  <2> QED
    BY <2>1, <2>6
<1>4. CASE UNCHANGED vars
  BY <1>4 DEF vars, TypeOK, Accounted, Accepted
<1> QED
  BY <1>1, <1>2, <1>3, <1>4 DEF Next

\* The account of the memory and the bounds of the stored budget give the three
\* safety properties.
LEMMA IInvBounds == IInv => AcceptedIsStartable /\ ThreadsWithinBudget /\ MemoryWithinBudget
<1> SUFFICES ASSUME IInv PROVE AcceptedIsStartable /\ ThreadsWithinBudget /\ MemoryWithinBudget
  OBVIOUS
<1> DEFINE b == Calculated(config, machine, peak)
<1>1. /\ config \in Configs /\ machine \in Machines /\ peak \in Nat \ {0} /\ active \in Nat
  BY DEF IInv, TypeOK
<1>2. /\ b \in [workers : Nat, threads : Nat, cpu : Nat, memory : Nat, rejected : BOOLEAN]
      /\ b.threads = config.threads /\ config.threads \in Nat \ {0}
      /\ b.cpu = CpuThreadLimit(config, machine) /\ b.memory = MemoryBudget(config, machine)
      /\ b.workers * config.threads <= b.cpu
      /\ b.workers * peak <= machine.available
      /\ ~b.rejected => b.workers >= 1
  BY <1>1, CalculatedBounds
<1> HIDE DEF b
<1>3. CpuThreadLimit(config, machine) \in Nat /\ machine.available \in Nat
  BY <1>1, CpuThreadLimitType, MachinesAssumption
<1>4. budget \in {NoBudget, b} /\ (active > 0 => Accepted) /\ active <= budget.workers
  BY DEF IInv, Accounted, b
<1>5. AcceptedIsStartable
  BY <1>2, <1>4 DEF AcceptedIsStartable, Accepted, Startable
<1>6. CASE active = 0
  <2>1. ThreadsWithinBudget
    BY <1>6, <1>2, <1>3 DEF ThreadsWithinBudget
  <2>2. MemoryWithinBudget
    BY <1>6, <1>1, <1>3 DEF MemoryWithinBudget
  <2> QED
    BY <2>1, <2>2, <1>5
<1>7. CASE active > 0
  <2>1. budget = b
    BY <1>4, <1>7 DEF Accepted
  <2>2. active * config.threads <= b.workers * config.threads
    BY <2>1, <1>1, <1>2, <1>4, Times
  <2>3. active * peak <= b.workers * peak
    BY <2>1, <1>1, <1>2, <1>4, Times
  <2>4. /\ active * config.threads \in Nat /\ b.workers * config.threads \in Nat
        /\ active * peak \in Nat /\ b.workers * peak \in Nat /\ b.cpu \in Nat
    BY <1>1, <1>2
  <2>5. ThreadsWithinBudget
    BY <2>2, <2>4, <1>2, <1>3 DEF ThreadsWithinBudget
  <2>6. active * peak <= machine.available
    BY <2>3, <2>4, <1>2, <1>3
  <2>7. MemoryBudget(config, machine) > 0 => OwnRss + active * peak <= MemoryBudget(config, machine)
    BY <2>1, <1>2, <1>7 DEF IInv, Accounted
  <2>8. MemoryWithinBudget
    BY <2>6, <2>7 DEF MemoryWithinBudget
  <2> QED
    BY <1>5, <2>5, <2>8
<1> QED
  BY <1>1, <1>6, <1>7

\* The theorems below rest on this invariant.
LEMMA Invariance == Spec => []IInv
BY InitIInv, NextIInv, PTL DEF Spec

-----------------------------------------------------------------------------
\* Whatever the machine and the configuration, the inputs, the stored budget and
\* the number of workers have their types.
THEOREM TypeCorrect == Spec => []TypeOK
BY Invariance, PTL DEF IInv

\* calculate_budget and run_batch agree on which budgets can start a worker.
THEOREM Agreement == Spec => []AcceptedIsStartable
BY Invariance, IInvBounds, PTL

\* The workers of a batch never use more threads than the CPU limit grants, which is
\* one at least.
THEOREM Threads == Spec => []ThreadsWithinBudget
BY Invariance, IInvBounds, PTL

\* The workers of a batch and the scheduler never need more memory than the
\* memory limit grants, nor the workers more than was available.
THEOREM Memory == Spec => []MemoryWithinBudget
BY Invariance, IInvBounds, PTL
=============================================================================
