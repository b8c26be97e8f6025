------------------------------ MODULE JobStore ------------------------------
(***************************************************************************)
(* The job store as its files behave (jobs.py).  An operation is not one   *)
(* step: it loads the record, computes the new one, writes it to a         *)
(* temporary file, renames that over the record (Replace) and fsyncs the   *)
(* directory before it returns (Sync).  Any number of processes and        *)
(* threads run operations at once and nothing locks a record; each may     *)
(* fail or be killed between two steps, and the machine may lose power.    *)
(*                                                                         *)
(* The temporary file is never visible under the record's name, so writing *)
(* it is part of the load step.  No caller in src/ passes                  *)
(* expected_revision to transition: the check is left out.                 *)
(***************************************************************************)
EXTENDS Jobs

CONSTANTS
  Ids,          \* job ids
  Callers,      \* threads of control that call the store
  Reports,      \* the progress reports callers make
  MaxRevision,  \* bound on the number of updates of one record
  Overlap       \* may two operations on one record be in flight together?

ASSUME ReportsAssumption == Reports \subseteq ProgressReport
ASSUME MaxRevisionAssumption == MaxRevision \in Nat
ASSUME OverlapAssumption == Overlap \in BOOLEAN

VARIABLES
  disk,   \* the record every process reads under jobs/<id>.json
  safe,   \* the record that survives a loss of power
  acked,  \* the last record an operation returned to its caller
  call    \* the operation each caller has in flight

vars == <<disk, safe, acked, call>>

Idle == [phase |-> "idle"]

InFlight(j) == {c \in Callers : call[c] # Idle /\ call[c].job = j}

Init ==
  /\ disk = [j \in Ids |-> NoJob]
  /\ safe = disk
  /\ acked = disk
  /\ call = [c \in Callers |-> Idle]

\* load, the checks of the operation (made by its caller below) and the
\* temporary file holding the new record.
Load(c, j, new) ==
  /\ call[c] = Idle
  /\ Overlap \/ InFlight(j) = {}
  /\ call' = [call EXCEPT ![c] = [phase |-> "computed", job |-> j, new |-> new]]
  /\ UNCHANGED <<disk, safe, acked>>

Create(c, j) ==
  /\ disk[j] = NoJob
  /\ Load(c, j, Created)

UpdateProgress(c, j, r) ==
  /\ disk[j].status \in Live
  /\ disk[j].revision < MaxRevision
  /\ Load(c, j, WithProgress(disk[j], r))

UpdateArtifacts(c, j) ==
  /\ disk[j] # NoJob
  /\ disk[j].revision < MaxRevision
  /\ Load(c, j, WithArtifacts(disk[j]))

\* Mutant of Transition: the table of transitions is not consulted.
TransitionAnywhere(c, j, s) ==
  /\ disk[j] # NoJob
  /\ disk[j].revision < MaxRevision
  /\ Load(c, j, WithStatus(disk[j], s))

Transition(c, j, s) ==
  /\ <<disk[j].status, s>> \in Edge
  /\ disk[j].revision < MaxRevision
  /\ Load(c, j, WithStatus(disk[j], s))

\* os.replace: the record changes for every reader, whatever it was.
Replace(c) ==
  /\ call[c].phase = "computed"
  /\ disk' = [disk EXCEPT ![call[c].job] = call[c].new]
  /\ call' = [call EXCEPT ![c].phase = "replaced"]
  /\ UNCHANGED <<safe, acked>>

\* Mutant of Sync: the directory is not fsynced.
SyncWithoutFsync(c) ==
  /\ call[c].phase = "replaced"
  /\ acked' = [acked EXCEPT ![call[c].job] = call[c].new]
  /\ call' = [call EXCEPT ![c] = Idle]
  /\ UNCHANGED <<disk, safe>>

\* fsync of the directory, which makes every name in it durable, and return.
Sync(c) ==
  /\ call[c].phase = "replaced"
  /\ safe' = disk
  /\ acked' = [acked EXCEPT ![call[c].job] = call[c].new]
  /\ call' = [call EXCEPT ![c] = Idle]
  /\ UNCHANGED disk

\* The operation raises (no space, an I/O error) or its process is killed.
\* Before the rename nothing has happened; after it the update stays visible.
Abandon(c) ==
  /\ call[c] # Idle
  /\ call' = [call EXCEPT ![c] = Idle]
  /\ UNCHANGED <<disk, safe, acked>>

\* Every process dies; a rename that was not followed by an fsync of the
\* directory may or may not have reached the disk.
PowerLoss ==
  /\ disk' \in {d \in [Ids -> {disk[j] : j \in Ids} \cup {safe[j] : j \in Ids}] :
                  \A j \in Ids : d[j] \in {disk[j], safe[j]}}
  /\ safe' = disk'
  /\ call' = [c \in Callers |-> Idle]
  /\ UNCHANGED acked

Operation(c) ==
  \/ \E j \in Ids :
       \/ Create(c, j)
       \/ \E r \in Reports : UpdateProgress(c, j, r)
       \/ UpdateArtifacts(c, j)
       \/ \E s \in Status : Transition(c, j, s)
  \/ Replace(c)
  \/ Sync(c)
  \/ Abandon(c)

Next == (\E c \in Callers : Operation(c)) \/ PowerLoss

Spec == Init /\ [][Next]_vars

-----------------------------------------------------------------------------
InFlightCall ==
  [phase : {"computed", "replaced"}, job : Ids, new : Record]

\* The shape of the files and of the operations in flight.
TypeOK ==
  /\ disk \in [Ids -> Record]
  /\ safe \in [Ids -> Record]
  /\ acked \in [Ids -> Record]
  /\ call \in [Callers -> {Idle} \cup InFlightCall]

\* When an operation has returned, neither a later failed or killed operation
\* nor a loss of power takes its update back: what is on disk is the returned
\* record or a later one, and a terminal status that was returned stays.
ReturnedIsDurable ==
  \A j \in Ids :
    /\ disk[j].revision >= acked[j].revision
    /\ acked[j] # NoJob => disk[j] # NoJob
    /\ acked[j].status \in Terminal => disk[j].status = acked[j].status

\* As long as no two operations on one record overlap, readers of the file see a
\* record on which every operation happens at once or not at all, killed and
\* failed operations included; only a loss of power may take a step back.
JR(j) == INSTANCE JobRecord WITH record <- disk[j]
ImplementsJobRecord ==
  /\ \A j \in Ids : JR(j)!RecordInit
  /\ [][PowerLoss \/ \A j \in Ids : [JR(j)!RecordNext]_(disk[j])]_disk
=============================================================================
