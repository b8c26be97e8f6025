--------------------------- MODULE JobStore_proofs ---------------------------
(* Every record is well-formed, however operations overlap; and as long as  *)
(* those on one record do not, the files implement the atomic record, and   *)
(* no returned update is ever lost.                                         *)
EXTENDS JobStore, TLAPS

\* What one operation may make of the record it loaded.
Computed(old, new) ==
  \/ old = NoJob /\ new = Created
  \/ /\ old.revision < MaxRevision
     /\ \/ old.status \in Live /\ \E r \in Reports : new = WithProgress(old, r)
        \/ old # NoJob /\ new = WithArtifacts(old)
        \/ \E s \in Status : <<old.status, s>> \in Edge /\ new = WithStatus(old, s)

\* The second record may follow the first: no update is missing from it.
Later(old, new) ==
  /\ new.revision >= old.revision
  /\ old # NoJob => new # NoJob
  /\ old.status \in Terminal => new.status = old.status

\* Operations in flight are on different records ...
Exclusive ==
  \A c, d \in Callers :
    call[c] # Idle /\ call[d] # Idle /\ call[c].job = call[d].job => c = d

\* ... so what a caller loaded is still what is on disk when it renames.
Current ==
  \A c \in Callers :
    /\ call[c].phase = "computed" => Computed(disk[call[c].job], call[c].new)
    /\ call[c].phase = "replaced" => disk[call[c].job] = call[c].new

\* What was returned is durable, what is durable is visible.
Ordered == \A j \in Ids : Later(acked[j], safe[j]) /\ Later(safe[j], disk[j])

Inv == TypeOK /\ Exclusive /\ Current /\ Ordered

-----------------------------------------------------------------------------
\* Later is a preorder.
LEMMA LaterReflexive == ASSUME NEW r \in Record PROVE Later(r, r)
  BY DEF Later, Record

\* And it composes over several operations.
LEMMA LaterTransitive ==
  ASSUME NEW r \in Record, NEW s \in Record, NEW t \in Record, Later(r, s), Later(s, t)
  PROVE  Later(r, t)
  BY DEF Later, Record

\* An id without a file, and the record create writes.
LEMMA CreatedType == NoJob \in Record /\ Created \in Record
<1>1. NoJob \in Record
  BY DEF NoJob, Record
<1>2. "queued" \in Status
  BY DEF Status, Live
<1> QED
  BY <1>1, <1>2 DEF Created, Record

\* What update_progress, update_artifacts and transition compute is well-formed.
LEMMA UpdatedType ==
  ASSUME NEW old \in Record
  PROVE  /\ \A r \in ProgressReport : WithProgress(old, r) \in Record
         /\ WithArtifacts(old) \in Record
         /\ \A s \in Status : WithStatus(old, s) \in Record
<1>1. old.revision + 1 \in Nat /\ 100 \in 0..100 /\ 0 \in Nat
  BY DEF Record
<1>2. ASSUME NEW r \in ProgressReport PROVE WithProgress(old, r) \in Record
  <2>1. /\ r.percent \in 0..99 /\ r.processed \in Nat /\ r.total \in Nat
        /\ r.low \in Nat \cup {NoEta} /\ r.high \in Nat \cup {NoEta}
    BY DEF ProgressReport
  <2>2. /\ Larger(old.percent, r.percent) \in 0..100
        /\ Larger(old.processed, r.processed) \in Nat
        /\ Larger(old.total, r.total) \in Nat
    BY <2>1 DEF Record, Larger
  <2>3. ASSUME NEW low \in Nat \cup {NoEta}
        PROVE  (IF r.high = NoEta THEN old.high ELSE Larger(Larger(low, 0), r.high))
                 \in Nat \cup {NoEta}
    BY <2>1 DEF Record, Larger, NoEta
  <2>4. (IF r.low = NoEta THEN old.low ELSE r.low) \in Nat \cup {NoEta}
    BY <2>1 DEF Record
  <2> QED
    BY <1>1, <2>2, <2>3, <2>4, ZenonT(60) DEF WithProgress, Record
<1>3. WithArtifacts(old) \in Record
  BY <1>1 DEF WithArtifacts, Record
<1>4. ASSUME NEW s \in Status PROVE WithStatus(old, s) \in Record
  BY <1>1 DEF WithStatus, Record
<1> QED
  BY <1>2, <1>3, <1>4

\* An operation only moves a record forward, and to a well-formed one.
LEMMA ComputedLater ==
  ASSUME NEW old \in Record, NEW new, Computed(old, new)
  PROVE  new \in Record /\ Later(old, new)
<1>1. CASE old = NoJob /\ new = Created
  BY <1>1, CreatedType DEF Later, NoJob, Created, Terminal
<1>2. ASSUME NEW r \in Reports, old.status \in Live, new = WithProgress(old, r)
      PROVE  new \in Record /\ Later(old, new)
  <2>1. new \in Record
    BY <1>2, ReportsAssumption, UpdatedType
  <2>2. new.status = old.status /\ new.revision = old.revision + 1
    BY <1>2 DEF WithProgress, Record
  <2> QED
    BY <1>2, <2>1, <2>2 DEF Later, Record, NoJob, Live
<1>3. CASE old # NoJob /\ new = WithArtifacts(old)
  <2>1. new \in Record
    BY <1>3, UpdatedType
  <2>2. new.status = old.status /\ new.revision = old.revision + 1
    BY <1>3 DEF WithArtifacts, Record
  <2> QED
    BY <1>3, <2>1, <2>2 DEF Later, Record, NoJob
<1>4. ASSUME NEW s \in Status, <<old.status, s>> \in Edge, new = WithStatus(old, s)
      PROVE  new \in Record /\ Later(old, new)
  <2>1. new \in Record
    BY <1>4, UpdatedType
  <2>2. new.status = s /\ new.revision = old.revision + 1
    BY <1>4 DEF WithStatus, Record
  <2>3. old.status \notin Terminal /\ s # "absent"
    BY <1>4 DEF Edge, Status, Live, Terminal
  <2> QED
    BY <2>1, <2>2, <2>3 DEF Later, Record, NoJob
<1> QED
  BY <1>1, <1>2, <1>3, <1>4 DEF Computed

-----------------------------------------------------------------------------
\* A store with queued or absent tasks and no call in flight.
LEMMA InitInv == Init => Inv
<1> SUFFICES ASSUME Init PROVE Inv
  OBVIOUS
<1>1. TypeOK
  BY CreatedType DEF Init, TypeOK
<1>2. Exclusive /\ Current
  BY DEF Init, Exclusive, Current, Idle
<1>3. Ordered
  BY CreatedType, LaterReflexive DEF Init, Ordered
<1> QED
  BY <1>1, <1>2, <1>3 DEF Inv

\* Loading a record and computing its successor.
LEMMA LoadInv ==
  ASSUME Overlap = FALSE, Inv, NEW c \in Callers, NEW j \in Ids, NEW new,
         Load(c, j, new), Computed(disk[j], new)
  PROVE  Inv'
<1>1. new \in Record
  BY ComputedLater DEF Inv, TypeOK
<1>2. TypeOK'
  BY <1>1 DEF Load, Inv, TypeOK, InFlightCall
<1>3. Exclusive'
  BY DEF Load, Inv, TypeOK, Exclusive, InFlight
<1>4. Current'
  BY DEF Load, Inv, TypeOK, Current
<1>5. Ordered'
  BY DEF Load, Inv, Ordered
<1> QED
  BY <1>2, <1>3, <1>4, <1>5 DEF Inv

\* The rename: the record moves forward, the other operations keep theirs.
LEMMA ReplaceInv == ASSUME Inv, NEW c \in Callers, Replace(c) PROVE Inv'
<1> DEFINE j   == call[c].job
           new == call[c].new
<1>1. /\ call[c] \in InFlightCall /\ j \in Ids /\ new \in Record
      /\ Computed(disk[j], new)
  BY DEF Replace, Inv, TypeOK, Current, Idle, InFlightCall
<1>2. Later(disk[j], new)
  BY <1>1, ComputedLater DEF Inv, TypeOK
<1>3. disk'[j] = new /\ \A i \in Ids \ {j} : disk'[i] = disk[i]
  BY <1>1 DEF Replace, Inv, TypeOK
<1>4. /\ call'[c] = [phase |-> "replaced", job |-> j, new |-> new]
      /\ \A d \in Callers \ {c} : call'[d] = call[d]
  BY <1>1 DEF Replace, Inv, TypeOK, InFlightCall
<1>5. TypeOK'
  <2>1. disk' \in [Ids -> Record]
    BY <1>1 DEF Replace, Inv, TypeOK
  <2>2. call' \in [Callers -> {Idle} \cup InFlightCall]
    <3>1. call'[c] \in InFlightCall
      BY <1>1, <1>4 DEF InFlightCall
    <3> QED
      BY <3>1 DEF Replace, Inv, TypeOK
  <2> QED
    BY <2>1, <2>2 DEF Replace, Inv, TypeOK
<1>6. Exclusive'
  BY <1>1, <1>4 DEF Inv, Exclusive, Idle, InFlightCall
<1>7. Current'
  <2>1. ASSUME NEW d \in Callers, d # c, call[d] # Idle
        PROVE  call[d].job \in Ids \ {j}
    BY <1>1, <2>1 DEF Inv, TypeOK, Exclusive, Idle, InFlightCall
  <2> QED
    BY <1>1, <1>3, <1>4, <2>1 DEF Inv, Current, Idle
<1>8. Ordered'
  BY <1>1, <1>2, <1>3, LaterTransitive DEF Replace, Inv, TypeOK, Ordered
<1> QED
  BY <1>5, <1>6, <1>7, <1>8 DEF Inv

\* The fsync of the directory and the return.
LEMMA SyncInv == ASSUME Inv, NEW c \in Callers, Sync(c) PROVE Inv'
<1> DEFINE j == call[c].job
<1>1. call[c] \in InFlightCall /\ j \in Ids /\ disk[j] = call[c].new
  <2>1. call[c] # Idle
    BY DEF Sync, Idle
  <2> QED
    BY <2>1 DEF Sync, Inv, TypeOK, Current, InFlightCall
<1>2. TypeOK'
  BY <1>1 DEF Sync, Inv, TypeOK, InFlightCall
<1>3. Exclusive' /\ Current'
  BY DEF Sync, Inv, TypeOK, Exclusive, Current, Idle
<1>4. Ordered'
  <2>1. ASSUME NEW i \in Ids PROVE Later(acked'[i], safe'[i]) /\ Later(safe'[i], disk'[i])
    <3>1. Later(disk[i], disk[i])
      BY LaterReflexive DEF Inv, TypeOK
    <3>2. CASE i = j
      BY <1>1, <3>1, <3>2 DEF Sync, Inv, TypeOK
    <3>3. CASE i # j
      BY <3>1, <3>3, LaterTransitive DEF Sync, Inv, TypeOK, Ordered
    <3> QED
      BY <3>2, <3>3
  <2> QED
    BY <2>1 DEF Ordered
<1> QED
  BY <1>2, <1>3, <1>4 DEF Inv

\* A failed or killed operation.
LEMMA AbandonInv == ASSUME Inv, NEW c \in Callers, Abandon(c) PROVE Inv'
  BY DEF Abandon, Inv, TypeOK, Exclusive, Current, Ordered, Idle

\* A loss of power.
LEMMA PowerLossInv == ASSUME Inv, PowerLoss PROVE Inv'
<1>1. /\ disk' \in [Ids -> Record]
      /\ \A j \in Ids : disk'[j] = disk[j] \/ disk'[j] = safe[j]
  BY DEF PowerLoss, Inv, TypeOK
<1>2. TypeOK'
  BY <1>1 DEF PowerLoss, Inv, TypeOK
<1>3. Exclusive' /\ Current'
  BY DEF PowerLoss, Exclusive, Current, Idle
<1>4. Ordered'
  <2>1. ASSUME NEW j \in Ids PROVE Later(acked[j], disk'[j]) /\ Later(disk'[j], disk'[j])
    BY <1>1, LaterReflexive, LaterTransitive DEF Inv, TypeOK, Ordered
  <2> QED
    BY <2>1 DEF PowerLoss, Ordered
<1> QED
  BY <1>2, <1>3, <1>4 DEF Inv

\* One operation of one caller.
LEMMA OperationInv ==
  ASSUME Overlap = FALSE, Inv, NEW c \in Callers, Operation(c)
  PROVE  Inv'
<1>1. ASSUME NEW j \in Ids, Create(c, j) PROVE Inv'
  BY <1>1, LoadInv DEF Create, Computed
<1>2. ASSUME NEW j \in Ids, NEW r \in Reports, UpdateProgress(c, j, r) PROVE Inv'
  BY <1>2, LoadInv DEF UpdateProgress, Computed
<1>3. ASSUME NEW j \in Ids, UpdateArtifacts(c, j) PROVE Inv'
  BY <1>3, LoadInv DEF UpdateArtifacts, Computed
<1>4. ASSUME NEW j \in Ids, NEW s \in Status, Transition(c, j, s) PROVE Inv'
  BY <1>4, LoadInv DEF Transition, Computed
<1> QED
  BY <1>1, <1>2, <1>3, <1>4, ReplaceInv, SyncInv, AbandonInv DEF Operation

\* Every step keeps the invariant when no two operations on a task overlap.
LEMMA NextInv == ASSUME Overlap = FALSE PROVE Inv /\ [Next]_vars => Inv'
<1> SUFFICES ASSUME Inv, [Next]_vars PROVE Inv'
  OBVIOUS
<1>1. CASE \E c \in Callers : Operation(c)
  BY <1>1, OperationInv
<1>2. CASE PowerLoss
  BY <1>2, PowerLossInv
<1>3. CASE UNCHANGED vars
  BY <1>3 DEF vars, Inv, TypeOK, Exclusive, Current, Ordered
<1> QED
  BY <1>1, <1>2, <1>3 DEF Next

\* The theorems below rest on this invariant.
LEMMA Invariance == ASSUME Overlap = FALSE PROVE Spec => []Inv
<1> QED
  BY InitInv, NextInv, PTL DEF Spec

-----------------------------------------------------------------------------
\* What an operation writes depends on the record it has loaded alone, so it is
\* well-formed even if another operation has replaced that record since.
LEMMA OperationTypes ==
  ASSUME TypeOK, NEW c \in Callers, Operation(c)
  PROVE  TypeOK'
<1>1. ASSUME NEW j \in Ids, NEW new \in Record, Load(c, j, new) PROVE TypeOK'
  BY <1>1 DEF Load, TypeOK, InFlightCall
<1>2. ASSUME NEW j \in Ids,
             \/ Create(c, j)
             \/ \E r \in Reports : UpdateProgress(c, j, r)
             \/ UpdateArtifacts(c, j)
             \/ \E s \in Status : Transition(c, j, s)
      PROVE  TypeOK'
  <2>1. PICK new : Load(c, j, new) /\ Computed(disk[j], new)
    BY <1>2 DEF Create, UpdateProgress, UpdateArtifacts, Transition, Computed
  <2>2. new \in Record
    BY <2>1, ComputedLater DEF TypeOK
  <2> QED
    BY <1>1, <2>1, <2>2
<1>3. ASSUME call[c] # Idle
      PROVE  /\ call[c].job \in Ids /\ call[c].new \in Record
             /\ [call[c] EXCEPT !.phase = "replaced"] \in InFlightCall
  BY <1>3 DEF TypeOK, InFlightCall
<1>4. CASE Replace(c)
  <2>1. call[c] # Idle
    BY <1>4 DEF Replace, Idle
  <2>2. call' = [call EXCEPT ![c] = [call[c] EXCEPT !.phase = "replaced"]]
    BY <1>4 DEF Replace, TypeOK
  <2> QED
    BY <1>3, <1>4, <2>1, <2>2 DEF Replace, TypeOK
<1>5. CASE Sync(c)
  <2>1. call[c] # Idle
    BY <1>5 DEF Sync, Idle
  <2> QED
    BY <1>3, <1>5, <2>1 DEF Sync, TypeOK
<1>6. CASE Abandon(c)
  BY <1>6 DEF Abandon, TypeOK
<1> QED
  BY <1>2, <1>4, <1>5, <1>6 DEF Operation

\* Every record on disk, every durable one and every one in flight is well-formed,
\* however the operations of jobs.py overlap and wherever they are cut off.
THEOREM TypeCorrect == Spec => []TypeOK
<1>1. Init => TypeOK
  BY InitInv DEF Inv
<1>2. TypeOK /\ [Next]_vars => TypeOK'
  <2> SUFFICES ASSUME TypeOK, [Next]_vars PROVE TypeOK'
    OBVIOUS
  <2>1. CASE \E c \in Callers : Operation(c)
    BY <2>1, OperationTypes
  <2>2. CASE PowerLoss
    BY <2>2 DEF PowerLoss, TypeOK
  <2>3. CASE UNCHANGED vars
    BY <2>3 DEF vars, TypeOK
  <2> QED
    BY <2>1, <2>2, <2>3 DEF Next
<1> QED
  BY <1>1, <1>2, PTL DEF Spec

\* No crash, failed write or loss of power takes back an update that JobStore
\* has returned to its caller (_durable_json_write).
THEOREM Durability == ASSUME Overlap = FALSE PROVE Spec => []ReturnedIsDurable
<1>1. Inv => ReturnedIsDurable
  BY DEF Inv, TypeOK, Ordered, Later, Record, Terminal, ReturnedIsDurable
<1> QED
  BY <1>1, Invariance, PTL

\* The abstract store computes records with the same operators.
LEMMA SameOperators ==
  ASSUME NEW j \in Ids, NEW job
  PROVE  /\ JR(j)!NoJob = NoJob /\ JR(j)!Created = Created
         /\ JR(j)!Live = Live /\ JR(j)!Status = Status /\ JR(j)!Edge = Edge
         /\ JR(j)!WithArtifacts(job) = WithArtifacts(job)
         /\ \A r : JR(j)!WithProgress(job, r) = WithProgress(job, r)
         /\ \A s : JR(j)!WithStatus(job, s) = WithStatus(job, s)
<1>1. JR(j)!NoEta = NoEta
  BY DEF JR!NoEta, NoEta
<1>2. JR(j)!NoJob = NoJob
  BY <1>1 DEF JR!NoJob, NoJob
<1>3. JR(j)!Created = Created
  BY <1>2 DEF JR!Created, Created
<1>4. JR(j)!Live = Live /\ JR(j)!Terminal = Terminal
  BY DEF JR!Live, Live, JR!Terminal, Terminal
<1>5. JR(j)!Status = Status /\ JR(j)!Edge = Edge
  BY <1>4 DEF JR!Status, Status, JR!Edge, Edge
<1>6. JR(j)!WithArtifacts(job) = WithArtifacts(job)
  BY DEF JR!WithArtifacts, WithArtifacts
<1>7. \A r : JR(j)!WithProgress(job, r) = WithProgress(job, r)
  BY <1>1, ZenonT(30) DEF JR!WithProgress, WithProgress, JR!Larger, Larger
<1>8. \A s : JR(j)!WithStatus(job, s) = WithStatus(job, s)
  BY DEF JR!WithStatus, WithStatus
<1> QED
  BY <1>2, <1>3, <1>4, <1>5, <1>6, <1>7, <1>8

\* The load, rename and fsync of an operation, with every failure and kill in
\* between, are one step of the atomic record or none.
THEOREM Refinement == ASSUME Overlap = FALSE PROVE Spec => ImplementsJobRecord
<1>1. Init => \A j \in Ids : JR(j)!RecordInit
  BY SameOperators DEF Init, JR!RecordInit
<1>2. Inv /\ [Next]_vars => [PowerLoss \/ \A j \in Ids : [JR(j)!RecordNext]_(disk[j])]_disk
  <2> SUFFICES ASSUME Inv, [Next]_vars, ~PowerLoss, disk' # disk,
                      NEW j \in Ids, disk'[j] # disk[j]
               PROVE  JR(j)!RecordNext
    BY DEF Inv
  <2>1. PICK c \in Callers : Replace(c)
    BY DEF Next, Operation, vars, Create, UpdateProgress, UpdateArtifacts, Transition,
           Load, Sync, Abandon
  <2>2. Computed(disk[j], disk'[j])
    BY <2>1 DEF Replace, Inv, TypeOK, Current, Idle, InFlightCall
  <2> QED
    BY <2>2, SameOperators DEF Computed, JR!RecordNext, JR!Create, JR!Update, JR!UpdateProgress,
                JR!UpdateArtifacts, JR!Transition
<1> QED
  BY <1>1, <1>2, Invariance, PTL DEF Spec, ImplementsJobRecord
=============================================================================
