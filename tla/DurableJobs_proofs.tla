------------------------- MODULE DurableJobs_proofs -------------------------
(***************************************************************************)
(* Proofs about DurableJobs, for every set of jobs and every bound.        *)
(***************************************************************************)
EXTENDS DurableJobs, FiniteSetTheorems, TLAPS

\* Appending a job or changing a status yields a store again.
LEMMA StoreOperations ==
  ASSUME NEW s \in Store, NEW j \in Jobs, NEW st \in Status
  PROVE  /\ Put(s, j, st) \in Store
         /\ Append1(s, j) \in Store
         /\ EmptyStore \in Store
<1>1. Put(s, j, st) \in Store
  BY DEF Put, Store
<1>2. EmptyStore \in Store
  BY DEF EmptyStore, Store, Status
<1>3. Append1(s, j) \in Store
  <2>1. Cardinality(Jobs \ Has(s, {"absent"})) \in Nat
    BY JobsAssumption, FS_Subset, FS_CardinalityType
  <2>2. Put(s, j, "queued") \in Store
    BY DEF Put, Store, Status
  <2> QED BY <2>1, <2>2 DEF Append1, Store
<1> QED BY <1>1, <1>2, <1>3

\* What the two operations do to the status of each job.
LEMMA StoreStatus ==
  ASSUME NEW s \in Store, NEW j \in Jobs, NEW st \in Status
  PROVE  \A k \in Jobs :
           /\ Put(s, j, st).status[k] = IF k = j THEN st ELSE s.status[k]
           /\ Append1(s, j).status[k] = IF k = j THEN "queued" ELSE s.status[k]
BY DEF Put, Append1, Store, Status

-----------------------------------------------------------------------------
(* Typing.                                                                 *)

USE DEF vars, files, world, host, journal, work, budgets, Terminal, Active, Recoverable, Final, PC

\* Detecting recovery keeps the journal typed.
LEMMA DetectType ==
  ASSUME NEW store, Detect(store), sidecar \subseteq Jobs
  PROVE  /\ sidecar' \subseteq Jobs /\ recovery' \subseteq Jobs
         /\ pending' \subseteq Jobs /\ explicit' \subseteq Jobs
BY DEF Detect, Running, Has

\* Spending a fault keeps the budgets typed.
LEMMA FaultType ==
  ASSUME TypeOK, Fault
  PROVE  faults' \in Nat /\ crashes' \in Nat
BY DEF TypeOK, Fault

\* The catch branch of mutate() leaves a typed memory and a typed journal.
LEMMA ReloadType ==
  ASSUME TypeOK, disk' \in Store, Reload(FALSE) \/ Reload(TRUE)
  PROVE  /\ mem' \in Store /\ sidecar' \subseteq Jobs /\ fatal' \in BOOLEAN
         /\ recovery' \subseteq Jobs /\ pending' \subseteq Jobs /\ explicit' \subseteq Jobs
<1>1. CASE Reload(FALSE)
  BY <1>1 DEF TypeOK, Reload
<1>2. CASE Reload(TRUE)
  BY <1>2, DetectType DEF TypeOK, Reload, TornSidecar, Running, Has
<1> QED BY <1>1, <1>2

\* A write that fails leaves two typed stores and a typed journal.
LEMMA FailedWriteType ==
  ASSUME TypeOK, NEW new \in Store, FailedWrite(new, FALSE) \/ FailedWrite(new, TRUE)
  PROVE  /\ disk' \in Store /\ mem' \in Store /\ sidecar' \subseteq Jobs
         /\ fatal' \in BOOLEAN /\ faults' \in Nat /\ crashes' \in Nat
         /\ recovery' \subseteq Jobs /\ pending' \subseteq Jobs /\ explicit' \subseteq Jobs
BY FaultType, ReloadType DEF TypeOK, FailedWrite

\* Vanish leaves a typed, empty process.
LEMMA VanishType ==
  ASSUME Vanish
  PROVE  /\ proc' = "down" /\ mem' \in Store /\ fatal' \in BOOLEAN
         /\ recovery' \subseteq Jobs /\ pending' \subseteq Jobs /\ explicit' \subseteq Jobs
         /\ pc' = "idle" /\ cur' \in Jobs \cup {NoJob} /\ outcome' \in Terminal \cup {"none"}
BY DEF Vanish, EmptyStore, Store, Status

\* Every step keeps the state typed.
LEMMA TypeStep ==
  ASSUME TypeOK, [Next]_vars
  PROVE  TypeOK'
<1>1. CASE BootApi
  BY <1>1, FaultType, DetectType DEF TypeOK, Boot, TornSidecar, Running, Has, BootApi
<1>2. CASE BootCommand
  BY <1>2, FaultType, DetectType DEF TypeOK, Boot, TornSidecar, Running, Has, BootCommand
<1>3. CASE Crash
  BY <1>3, VanishType, FaultType DEF TypeOK, Crash
<1>4. CASE StopApi
  BY <1>4, VanishType, FaultType DEF TypeOK, StopApi
<1>5. CASE RejectedRequest
  BY <1>5, FaultType DEF TypeOK, RejectedRequest
<1>6. ASSUME NEW j \in Jobs, Enqueue(j) PROVE TypeOK'
  BY <1>6, StoreOperations, FailedWriteType DEF TypeOK, Enqueue, Written, Status
<1>7. ASSUME NEW j \in Jobs, Cancel(j) PROVE TypeOK'
  BY <1>7, StoreOperations, FailedWriteType DEF TypeOK, Cancel, Written, Status
<1>8. ASSUME NEW j \in Jobs, Claim(j) PROVE TypeOK'
  BY <1>8, StoreOperations, FailedWriteType DEF TypeOK, Claim, Written, Halt, Status
<1>9. ASSUME NEW j \in Jobs, ResumeTerminal(j) PROVE TypeOK'
  BY <1>9 DEF TypeOK, ResumeTerminal
<1>10. ASSUME NEW j \in Jobs, ResumeFromEvidence(j) PROVE TypeOK'
  BY <1>10 DEF TypeOK, ResumeFromEvidence
<1>11. ASSUME NEW j \in Jobs, Probe(j) PROVE TypeOK'
  BY <1>11 DEF TypeOK, Probe, StartHostWork
<1>12. CASE Select
  BY <1>12 DEF TypeOK, Select, Halt
<1>13. CASE ClaimNothing
  BY <1>13 DEF TypeOK, ClaimNothing, Halt
<1>14. CASE Execute
  BY <1>14 DEF TypeOK, Execute, StartHostWork
<1>15. CASE Executed
  BY <1>15 DEF TypeOK, Executed
<1>16. CASE HaltLatched
  BY <1>16 DEF TypeOK, HaltLatched, Halt
<1>17. CASE Begin
  BY <1>17, VanishType, FaultType DEF TypeOK, Begin, TornSidecar, GiveUp, Halt
<1>18. CASE Complete
  <2>1. /\ Put(mem, cur, outcome) \in Store
        /\ UNCHANGED world
    BY <1>18, StoreOperations DEF TypeOK, Complete, Status
  <2>2. CASE Written(Put(mem, cur, outcome)) /\ pc' = "terminal" /\ UNCHANGED <<proc, cur, outcome, budgets>>
    BY <1>18, <2>1, <2>2 DEF TypeOK, Complete, Written
  <2>3. CASE Fault /\ disk' \in {disk, Put(mem, cur, outcome)} /\ Halt /\ Reload(TRUE)
    BY <2>1, <2>3, FaultType, ReloadType DEF TypeOK, Halt
  <2>4. CASE Fault /\ disk' \in {disk, Put(mem, cur, outcome)} /\ Vanish /\ UNCHANGED sidecar
    BY <2>1, <2>4, FaultType, VanishType DEF TypeOK
  <2> QED BY <1>18, <2>2, <2>3, <2>4 DEF Complete
<1>19. CASE Reconcile
  BY <1>19, VanishType, FaultType DEF TypeOK, Reconcile, GiveUp, Halt
<1>20. CASE Acknowledge
  BY <1>20, VanishType, FaultType DEF TypeOK, Acknowledge, TornSidecar, GiveUp, Halt
<1>21. CASE CompleteProbe
  <2>1. Put(mem, cur, "succeeded") \in Store
    BY <1>21, StoreOperations DEF TypeOK, CompleteProbe, Status
  <2>2. CASE pc' = "removing" /\ done' = done \cup {cur} /\ Written(Put(mem, cur, "succeeded"))
               /\ UNCHANGED <<proc, cur, outcome, budgets>>
    BY <1>21, <2>1, <2>2 DEF TypeOK, CompleteProbe, Written
  <2>3. CASE /\ Fault /\ Vanish /\ UNCHANGED sidecar
             /\ done' \in {done, done \cup {cur}}
             /\ disk' \in {disk, Put(mem, cur, "succeeded")}
    BY <1>21, <2>1, <2>3, FaultType, VanishType DEF TypeOK, CompleteProbe
  <2> QED BY <1>21, <2>2, <2>3 DEF CompleteProbe
<1>22. CASE RemoveProbed
  BY <1>22, VanishType, FaultType DEF TypeOK, RemoveProbed, TornSidecar
<1>23. CASE EndCommand
  BY <1>23, VanishType, FaultType DEF TypeOK, EndCommand
<1>24. CASE StartRuntime
  BY <1>24, VanishType, FaultType DEF TypeOK, StartRuntime
<1>25. CASE UNCHANGED vars
  BY <1>25 DEF TypeOK, vars
<1>26. CASE SnapshotFails
  BY <1>26, FaultType DEF TypeOK, SnapshotFails, Halt
<1>27. ASSUME NEW j \in Jobs, ResumeFromState(j) PROVE TypeOK'
  BY <1>27 DEF TypeOK, ResumeFromState
<1> QED
  BY <1>1, <1>2, <1>3, <1>4, <1>5, <1>6, <1>7, <1>8, <1>9, <1>10, <1>11, <1>12, <1>13, <1>14, <1>15, <1>16, <1>17, <1>18, <1>19, <1>20, <1>21, <1>22, <1>23, <1>24, <1>25, <1>26, <1>27
     DEF Next, Http, Executor, Settle, Startup, Command, Process

-----------------------------------------------------------------------------
(* The inductive invariant.                                                *)

USE DEF TypeOK, IndInv, DurableFacts, ProcessFacts, AtMostOnce, ClaimedBeforeRun, UnsupportedNeverRuns,
        SuccessIsReal, JournalCoversResults, SidecarMatchesStore, Evidence, MemoryIsDurable, Journalled,
        Clean, Progress, Lifecycle!Settled, Has, Running, Status

\* The first state satisfies the invariant.
LEMMA InitInv == Init => IndInv
<1>1. Init => TypeOK
  <2>1. EmptyStore \in Store
    BY DEF EmptyStore, Store
  <2> QED BY <2>1, JobsAssumption DEF Init
<1>2. Init => DurableFacts
  BY DEF Init, EmptyStore
<1>3. Init => ProcessFacts
  BY DEF Init
<1> QED BY <1>1, <1>2, <1>3

\* A job that is not yet claimed may be queued, cancelled or claimed, and may
\* enter the sidecar once it is running, without touching any durable fact.
LEMMA UnclaimedMove ==
  ASSUME IndInv, UNCHANGED world, NEW j \in Jobs, disk.status[j] \notin Recoverable,
         \A k \in Jobs \ {j} : disk'.status[k] = disk.status[k],
         disk'.status[j] \in {disk.status[j], "queued", "cancelled", "running"},
         sidecar \subseteq sidecar',
         \A k \in sidecar' \ sidecar : k \in Jobs /\ disk'.status[k] = "running"
  PROVE  DurableFacts'
OBVIOUS

\* Steps of other processes and failures keep the durable facts.
LEMMA DurableStep ==
  ASSUME IndInv, TypeOK', [Next]_vars
  PROVE  DurableFacts'
<1>1. CASE BootApi
  BY <1>1 DEF Boot, Fault, Detect, TornSidecar, RecordMatches, BootApi
<1>2. CASE BootCommand
  BY <1>2 DEF Boot, Fault, Detect, TornSidecar, RecordMatches, BootCommand
<1>3. CASE Crash
  BY <1>3 DEF Crash, Vanish
<1>4. CASE StopApi
  BY <1>4 DEF StopApi, Vanish
<1>5. CASE RejectedRequest
  BY <1>5 DEF RejectedRequest, MutationAllowed
<1>6. ASSUME NEW j \in Jobs, Enqueue(j) PROVE DurableFacts'
  <2>1. disk.status[j] \notin Recoverable /\ UNCHANGED <<world, sidecar>>
    BY <1>6 DEF Enqueue, Written, MutationAllowed, FailedWrite, Reload
  <2>2. disk' \in {disk, Append1(mem, j)} /\ mem = disk
    BY <1>6 DEF Enqueue, Written, MutationAllowed, FailedWrite
  <2>3. \A k \in Jobs \ {j} : disk'.status[k] = disk.status[k]
    BY <2>2, StoreStatus
  <2>4. disk'.status[j] \in {disk.status[j], "queued", "cancelled"}
    BY <2>2, StoreStatus
  <2> QED BY <2>1, <2>3, <2>4, UnclaimedMove
<1>7. ASSUME NEW j \in Jobs, Cancel(j) PROVE DurableFacts'
  <2>1. disk.status[j] \notin Recoverable /\ UNCHANGED <<world, sidecar>>
    BY <1>7 DEF Cancel, Written, MutationAllowed, FailedWrite, Reload
  <2>2. disk' \in {disk, Put(mem, j, "cancelled")} /\ mem = disk
    BY <1>7 DEF Cancel, Written, MutationAllowed, FailedWrite
  <2>3. \A k \in Jobs \ {j} : disk'.status[k] = disk.status[k]
    BY <2>2, StoreStatus
  <2>4. disk'.status[j] \in {disk.status[j], "queued", "cancelled"}
    BY <2>2, StoreStatus
  <2> QED BY <2>1, <2>3, <2>4, UnclaimedMove
<1>8. ASSUME NEW j \in Jobs, Claim(j) PROVE DurableFacts'
  <2>1. disk.status[j] = "queued" /\ UNCHANGED world
    BY <1>8 DEF Claim, IsHead, MutationAllowed
  <2>2. disk' \in {disk, Put(mem, j, "running")} /\ mem = disk
    BY <1>8 DEF Claim, Written, MutationAllowed, FailedWrite
  <2>3. sidecar' \in {sidecar, sidecar \cup Running(disk')}
    BY <1>8 DEF Claim, Written, FailedWrite, Reload, Detect, TornSidecar
  <2>4. \A k \in Jobs \ {j} : disk'.status[k] = disk.status[k]
    BY <2>2, StoreStatus
  <2>5. disk'.status[j] \in {disk.status[j], "running"}
    BY <2>2, StoreStatus
  <2>6. sidecar \subseteq sidecar' /\ \A k \in sidecar' \ sidecar : k \in Jobs /\ disk'.status[k] = "running"
    BY <2>3
  <2> QED BY <2>1, <2>4, <2>5, <2>6, UnclaimedMove
<1>9. CASE Select
  BY <1>9 DEF Select, IsHead, Halt
<1>10. CASE ClaimNothing
  BY <1>10 DEF ClaimNothing, Halt
<1>11. CASE Execute
  BY <1>11 DEF Execute, StartHostWork
<1>12. CASE Executed
  BY <1>12 DEF Executed
<1>13. CASE HaltLatched
  BY <1>13 DEF HaltLatched, Halt
<1>14. CASE Begin
  BY <1>14 DEF Begin, TornSidecar, GiveUp, Halt, Vanish
<1>15. CASE Complete
  <2>1. /\ cur \in Jobs /\ disk.status[cur] = "running" /\ mem = disk
        /\ cur \in sidecar /\ cur \in ran \cup found /\ outcome \in Terminal /\ UNCHANGED world
        /\ outcome = "succeeded" => cur \in done \cup found
    BY <1>15 DEF Complete
  <2>2. disk' \in {disk, Put(disk, cur, outcome)} /\ sidecar \subseteq sidecar'
    BY <1>15, <2>1 DEF Complete, Written, Reload, Detect, TornSidecar
  <2>3. \A k \in sidecar' \ sidecar : k \in Jobs /\ disk'.status[k] = "running"
    BY <1>15 DEF Complete, Written, Reload, Detect, TornSidecar
  <2>4. \A k \in Jobs \ {cur} : disk'.status[k] = disk.status[k]
    BY <2>1, <2>2, StoreStatus
  <2>5. disk'.status[cur] \in {"running", outcome}
    BY <2>1, <2>2, StoreStatus
  <2> QED BY <2>1, <2>2, <2>3, <2>4, <2>5
<1>16. CASE Reconcile
  BY <1>16 DEF Reconcile, GiveUp, Halt, Vanish
<1>17. CASE Acknowledge
  BY <1>17 DEF Acknowledge, TornSidecar, GiveUp, Halt, Vanish
<1>18. ASSUME NEW j \in Jobs, ResumeTerminal(j) PROVE DurableFacts'
  BY <1>18 DEF ResumeTerminal
<1>19. ASSUME NEW j \in Jobs, ResumeFromEvidence(j) PROVE DurableFacts'
  BY <1>19 DEF ResumeFromEvidence
<1>20. ASSUME NEW j \in Jobs, Probe(j) PROVE DurableFacts'
  BY <1>20 DEF Probe, StartHostWork
<1>21. CASE CompleteProbe
  <2>1. /\ cur \in Jobs \cap Inspections /\ cur \in ran
        /\ disk.status[cur] = "running" /\ mem = disk
    BY <1>21 DEF CompleteProbe
  <2>2. /\ UNCHANGED <<ran, rerun, receipts, found, applied, sidecar>>
        /\ done \subseteq done' /\ done' \subseteq done \cup {cur}
        /\ disk' \in {disk, Put(disk, cur, "succeeded")} /\ (disk' # disk => cur \in done')
    BY <1>21, <2>1 DEF CompleteProbe, Written
  <2>3. \A k \in Jobs \ {cur} : disk'.status[k] = disk.status[k]
    BY <2>1, <2>2, StoreStatus
  <2>4. \/ disk'.status[cur] = "running"
        \/ disk'.status[cur] = "succeeded" /\ cur \in done'
    BY <2>1, <2>2, StoreStatus
  <2> QED BY <2>1, <2>2, <2>3, <2>4
<1>22. CASE RemoveProbed
  BY <1>22 DEF RemoveProbed, TornSidecar, Vanish
<1>23. CASE EndCommand
  BY <1>23 DEF EndCommand, Vanish
<1>24. CASE StartRuntime
  BY <1>24 DEF StartRuntime, Vanish
<1>25. CASE UNCHANGED vars
  BY <1>25
<1>26. CASE SnapshotFails
  BY <1>26 DEF SnapshotFails, Halt
<1>27. ASSUME NEW j \in Jobs, ResumeFromState(j) PROVE DurableFacts'
  BY <1>27 DEF ResumeFromState
<1> QED
  BY <1>1, <1>2, <1>3, <1>4, <1>5, <1>6, <1>7, <1>8, <1>9, <1>10, <1>11, <1>12, <1>13, <1>14, <1>15, <1>16, <1>17, <1>18, <1>19, <1>20, <1>21, <1>22, <1>23, <1>24, <1>25, <1>26, <1>27
     DEF Next, Http, Executor, Settle, Startup, Command, Process

\* An enqueue or a cancel, successful or not, leaves the executor's job alone.
LEMMA UnclaimedProcess ==
  ASSUME IndInv, TypeOK', proc = "serving", recovery = {}, NEW j \in Jobs,
         disk.status[j] \notin Recoverable,
         \A k \in Jobs \ {j} : disk'.status[k] = disk.status[k],
         disk'.status[j] \in {disk.status[j], "queued", "cancelled"},
         UNCHANGED <<world, proc, work, sidecar, journal>>, fatal' \/ mem' = disk'
  PROVE  ProcessFacts'
<1>1. MemoryIsDurable' /\ Journalled'
  OBVIOUS
<1>2. pc \notin {"begun", "terminal", "reconciled"}
  OBVIOUS
<1>3. Clean' /\ Progress'
  BY <1>2
<1> QED BY <1>1, <1>3

\* Steps keep what the process knows in line with what the files say.
LEMMA ProcessStep ==
  ASSUME IndInv, TypeOK', [Next]_vars
  PROVE  ProcessFacts'
<1>1. CASE BootApi
  <2>1. CASE proc' = "down" /\ UNCHANGED <<fatal, pc>>
    BY <1>1, <2>1 DEF Boot, BootApi
  <2>2. CASE proc' = "starting" /\ mem' = disk /\ Detect(disk) /\ UNCHANGED <<disk, fatal, work>>
    BY <1>1, <2>2 DEF Boot, BootApi, Detect
  <2> QED BY <1>1, <2>1, <2>2 DEF Boot, BootApi
<1>2. CASE BootCommand
  <2>1. CASE proc' = "down" /\ UNCHANGED <<fatal, pc>>
    BY <1>2, <2>1 DEF Boot, BootCommand
  <2>2. CASE proc' = "command" /\ mem' = disk /\ Detect(disk) /\ UNCHANGED <<disk, fatal, work>>
    BY <1>2, <2>2 DEF Boot, BootCommand, Detect
  <2> QED BY <1>2, <2>1, <2>2 DEF Boot, BootCommand
<1>3. CASE Crash
  BY <1>3 DEF Crash, Vanish
<1>4. CASE StopApi
  BY <1>4 DEF StopApi, Vanish
<1>5. CASE RejectedRequest
  BY <1>5 DEF RejectedRequest, MutationAllowed
<1>6. ASSUME NEW j \in Jobs, Enqueue(j) PROVE ProcessFacts'
  <2>1. /\ proc = "serving" /\ recovery = {} /\ disk.status[j] \notin Recoverable
        /\ UNCHANGED <<world, proc, work, sidecar, journal>>
        /\ fatal' \/ mem' = disk'
    BY <1>6 DEF Enqueue, Written, MutationAllowed, FailedWrite, Reload
  <2>2. disk' \in {disk, Append1(mem, j)} /\ mem = disk
    BY <1>6 DEF Enqueue, Written, MutationAllowed, FailedWrite
  <2> QED BY <2>1, <2>2, StoreStatus, UnclaimedProcess
<1>7. ASSUME NEW j \in Jobs, Cancel(j) PROVE ProcessFacts'
  <2>1. /\ proc = "serving" /\ recovery = {} /\ disk.status[j] \notin Recoverable
        /\ UNCHANGED <<world, proc, work, sidecar, journal>>
        /\ fatal' \/ mem' = disk'
    BY <1>7 DEF Cancel, Written, MutationAllowed, FailedWrite, Reload
  <2>2. disk' \in {disk, Put(mem, j, "cancelled")} /\ mem = disk
    BY <1>7 DEF Cancel, Written, MutationAllowed, FailedWrite
  <2> QED BY <2>1, <2>2, StoreStatus, UnclaimedProcess
<1>8. ASSUME NEW j \in Jobs, Claim(j) PROVE ProcessFacts'
  <2>1. /\ disk.status[j] = "queued" /\ mem = disk /\ proc = "serving" /\ pc = "selected"
        /\ UNCHANGED <<world, proc>>
    BY <1>8 DEF Claim, IsHead, MutationAllowed, Halt
  <2>2. CASE /\ Written(Put(mem, j, "running")) /\ j \notin Unsupported
             /\ pc' = "claimed" /\ cur' = j
    BY <2>1, <2>2, StoreStatus DEF Written
  <2>3. CASE Written(Put(mem, j, "running")) /\ Halt
    BY <2>1, <2>3 DEF Written, Halt
  <2>4. CASE FailedWrite(Put(mem, j, "running"), TRUE) /\ Halt
    BY <2>1, <2>4 DEF FailedWrite, Reload, Halt
  <2> QED BY <1>8, <2>2, <2>3, <2>4 DEF Claim
<1>9. CASE Select
  BY <1>9 DEF Select, IsHead, Halt
<1>10. CASE ClaimNothing
  BY <1>10 DEF ClaimNothing, Halt
<1>11. CASE Execute
  BY <1>11 DEF Execute, StartHostWork
<1>12. CASE Executed
  BY <1>12 DEF Executed
<1>13. CASE HaltLatched
  BY <1>13 DEF HaltLatched, Halt
<1>14. CASE Begin
  <2>1. CASE pc' = "begun"
    BY <1>14, <2>1 DEF Begin, GiveUp, Halt, Vanish
  <2>2. CASE GiveUp(fatal' = TRUE /\ UNCHANGED <<mem, journal>>)
    BY <1>14, <2>2 DEF Begin, TornSidecar, GiveUp, Halt, Vanish
  <2> QED BY <1>14, <2>1, <2>2 DEF Begin
<1>15. CASE Complete
  BY <1>15, StoreStatus DEF Complete, Written, Halt, Reload, Detect, TornSidecar, Vanish
<1>16. CASE Reconcile
  BY <1>16 DEF Reconcile, GiveUp, Halt, Vanish
<1>17. CASE Acknowledge
  BY <1>17 DEF Acknowledge, TornSidecar, GiveUp, Halt, Vanish
<1>18. ASSUME NEW j \in Jobs, ResumeTerminal(j) PROVE ProcessFacts'
  BY <1>18 DEF ResumeTerminal
<1>19. ASSUME NEW j \in Jobs, ResumeFromEvidence(j) PROVE ProcessFacts'
  BY <1>19 DEF ResumeFromEvidence
<1>20. ASSUME NEW j \in Jobs, Probe(j) PROVE ProcessFacts'
  BY <1>20 DEF Probe, StartHostWork
<1>21. CASE CompleteProbe
  BY <1>21, StoreStatus DEF CompleteProbe, Written, Vanish
<1>22. CASE RemoveProbed
  BY <1>22 DEF RemoveProbed, TornSidecar, Vanish
<1>23. CASE EndCommand
  BY <1>23 DEF EndCommand, Vanish
<1>24. CASE StartRuntime
  BY <1>24 DEF StartRuntime, Vanish, Settleable
<1>25. CASE UNCHANGED vars
  BY <1>25
<1>26. CASE SnapshotFails
  BY <1>26 DEF SnapshotFails, Halt
<1>27. ASSUME NEW j \in Jobs, ResumeFromState(j) PROVE ProcessFacts'
  BY <1>27 DEF ResumeFromState
<1> QED
  BY <1>1, <1>2, <1>3, <1>4, <1>5, <1>6, <1>7, <1>8, <1>9, <1>10, <1>11, <1>12, <1>13, <1>14, <1>15, <1>16, <1>17, <1>18, <1>19, <1>20, <1>21, <1>22, <1>23, <1>24, <1>25, <1>26, <1>27
     DEF Next, Http, Executor, Settle, Startup, Command, Process

-----------------------------------------------------------------------------
(* Theorems.                                                               *)

HIDE DEF vars, TypeOK, IndInv, DurableFacts, ProcessFacts, AtMostOnce, ClaimedBeforeRun,
         UnsupportedNeverRuns, SuccessIsReal, JournalCoversResults, SidecarMatchesStore, Evidence, MemoryIsDurable,
         Journalled, Clean, Progress

\* The invariant holds initially and every step preserves it.
LEMMA Invariant == Spec => []IndInv
<1>1. Init => IndInv
  BY InitInv
<1>2. IndInv /\ [Next]_vars => IndInv'
  <2> SUFFICES ASSUME IndInv, [Next]_vars PROVE IndInv'
    OBVIOUS
  <2>1. TypeOK'
    BY TypeStep DEF IndInv
  <2> QED BY <2>1, DurableStep, ProcessStep DEF IndInv
<1> QED BY <1>1, <1>2, PTL DEF Spec

\* Files, registries and process memory keep their shape.
THEOREM TypeCorrect == Spec => []TypeOK
<1>1. IndInv => TypeOK
  BY DEF IndInv, DurableFacts, ProcessFacts
<1> QED BY <1>1, Invariant, PTL

\* No mutating host operation is started twice: executor, startup recovery and
\* the recovery commands never repeat what may have happened.
THEOREM MutationsRunAtMostOnce == Spec => []AtMostOnce
<1>1. IndInv => AtMostOnce
  BY DEF IndInv, DurableFacts, ProcessFacts
<1> QED BY <1>1, Invariant, PTL

\* Nothing runs on the host before its claim is on disk.
THEOREM ClaimIsWriteAhead == Spec => []ClaimedBeforeRun
<1>1. IndInv => ClaimedBeforeRun
  BY DEF IndInv, DurableFacts, ProcessFacts
<1> QED BY <1>1, Invariant, PTL

\* What has no handler is not executed, though it may have been claimed.
THEOREM UnsupportedIsNotRun == Spec => []UnsupportedNeverRuns
<1>1. IndInv => UnsupportedNeverRuns
  BY DEF IndInv, DurableFacts, ProcessFacts
<1> QED BY <1>1, Invariant, PTL

\* A stored success is a real one, or was found on the host by a recovery that asks
\* for nothing more.
THEOREM StoredSuccessIsReal == Spec => []SuccessIsReal
<1>1. IndInv => SuccessIsReal
  BY DEF IndInv, DurableFacts, ProcessFacts
<1> QED BY <1>1, Invariant, PTL

\* The sidecar holds every result still to be reconciled, and nothing init()
\* would refuse.
THEOREM NoResultIsLost == Spec => []JournalFitsStore
<1>1. IndInv => JournalFitsStore
  BY DEF JournalFitsStore, IndInv, DurableFacts, ProcessFacts
<1> QED BY <1>1, Invariant, PTL

\* A healthy process never believes anything but what its file says.
THEOREM MemoryFollowsDisk == Spec => []MemoryIsDurable
<1>1. IndInv => MemoryIsDurable
  BY DEF IndInv, DurableFacts, ProcessFacts
<1> QED BY <1>1, Invariant, PTL

\* The executor is serial: it works on a job only while all others are settled.
THEOREM OneJobAtATime == Spec => []OthersSettled
<1>1. IndInv => OthersSettled
  BY DEF OthersSettled, IndInv, ProcessFacts, Clean
<1> QED BY <1>1, Invariant, PTL

\* No two active jobs share a resource, no two jobs share an idempotency key.
THEOREM JobsAreExclusive == Spec => []NoDuplicateJob
<1> DEFINE Exclusive == OneActivePerResource /\ OneJobPerKey
<1>1. Init => Exclusive
  BY DEF Init, EmptyStore, OneActivePerResource, OneJobPerKey
<1>2. IndInv /\ Exclusive /\ [Next]_vars => Exclusive'
  <2> SUFFICES ASSUME IndInv, Exclusive, [Next]_vars PROVE Exclusive'
    OBVIOUS
  <2>1. ASSUME NEW j \in Jobs, Enqueue(j) PROVE Exclusive'
    <3>1. mem = disk /\ NoConflict(j) /\ disk' \in {disk, Append1(disk, j)} /\ disk \in Store
      BY <2>1 DEF Enqueue, MutationAllowed, Written, FailedWrite, IndInv, TypeOK,
                  ProcessFacts, MemoryIsDurable
    <3>2. CASE disk' = disk
      BY <3>2 DEF OneActivePerResource, OneJobPerKey
    <3>3. CASE disk' = Append1(disk, j)
      <4>1. \A k \in Jobs : disk'.status[k] = IF k = j THEN "queued" ELSE disk.status[k]
        BY <3>1, <3>3, StoreStatus
      <4>2. OneActivePerResource'
        BY <3>1, <4>1 DEF OneActivePerResource, NoConflict
      <4>3. OneJobPerKey'
        BY <3>1, <4>1 DEF OneJobPerKey, NoConflict
      <4> QED BY <4>2, <4>3
    <3> QED BY <3>1, <3>2, <3>3
  <2>2. ASSUME NEW j \in Jobs, Cancel(j) \/ Claim(j) PROVE Exclusive'
    <3>1. PICK st \in Status : disk' \in {disk, Put(disk, j, st)}
                                 /\ disk.status[j] = "queued" /\ disk \in Store
      BY <2>2 DEF Cancel, Claim, IsHead, MutationAllowed, Written, FailedWrite, IndInv, TypeOK,
                  ProcessFacts, MemoryIsDurable
    <3>2. \A k \in Jobs : /\ disk'.status[k] \in Active => disk.status[k] \in Active
                          /\ disk.status[k] = "absent" => disk'.status[k] = "absent"
                          /\ disk'.status[k] # "absent" => disk.status[k] # "absent"
      BY <3>1, StoreStatus
    <3> QED BY <3>2 DEF OneActivePerResource, OneJobPerKey
  <2>3. CASE Complete \/ CompleteProbe
    <3>1. PICK st \in Terminal : disk' \in {disk, Put(disk, cur, st)}
                             /\ cur \in Jobs /\ disk.status[cur] = "running" /\ disk \in Store
      BY <2>3 DEF Complete, CompleteProbe, Written, IndInv, TypeOK,
                  ProcessFacts, MemoryIsDurable, Progress, Journalled
    <3>2. \A k \in Jobs : /\ disk'.status[k] \in Active => disk.status[k] \in Active
                          /\ disk'.status[k] # "absent" => disk.status[k] # "absent"
      BY <3>1, StoreStatus
    <3> QED BY <3>2 DEF OneActivePerResource, OneJobPerKey
  <2>4. CASE UNCHANGED disk
    BY <2>4 DEF OneActivePerResource, OneJobPerKey
  <2> QED
    BY <2>1, <2>2, <2>3, <2>4
       DEF Next, Http, Executor, Settle, Startup, Command, Process, BootApi, BootCommand, Boot,
           Crash, StopApi, RejectedRequest, Select, ClaimNothing, Execute, Executed, HaltLatched, SnapshotFails,
           Begin, Reconcile, Acknowledge, ResumeTerminal, ResumeFromEvidence, ResumeFromState, Probe, RemoveProbed,
           EndCommand, StartRuntime, vars
<1>3. Exclusive <=> NoDuplicateJob
  BY DEF NoDuplicateJob
<1> HIDE DEF Exclusive
<1> QED BY <1>1, <1>2, <1>3, Invariant, PTL DEF Spec

-----------------------------------------------------------------------------
(* The queue implements the serial job server.                             *)

USE DEF Lifecycle!lifecycleVars, Lifecycle!Move

\* Replacing a status in the store is a move of the abstract job.
LEMMA PutIsMove ==
  ASSUME NEW s \in Store, NEW j \in Jobs, NEW st \in Status
  PROVE  /\ Put(s, j, st).status = [s.status EXCEPT ![j] = st]
         /\ Append1(s, j).status = [s.status EXCEPT ![j] = "queued"]
BY DEF Put, Append1, Store

\* Every step is a step of the serial job server or changes nothing it shows.
LEMMA RefinementStep ==
  ASSUME IndInv, [Next]_vars
  PROVE  [Lifecycle!LifecycleNext]_Lifecycle!lifecycleVars
<1> DEFINE Silent == UNCHANGED <<disk.status, ran, applied>>
<1> USE DEF IndInv
<1>1. ASSUME NEW j \in Jobs, Enqueue(j) PROVE Lifecycle!Submit(j) \/ Silent
  <2>1. mem = disk /\ disk \in Store /\ disk.status[j] = "absent" /\ NoConflict(j)
    BY <1>1 DEF Enqueue, MutationAllowed, TypeOK, ProcessFacts, MemoryIsDurable
  <2>2. disk' \in {disk, Append1(disk, j)} /\ UNCHANGED <<ran, applied>>
    BY <1>1, <2>1 DEF Enqueue, Written, FailedWrite
  <2>3. CASE disk' = disk
    BY <2>2, <2>3
  <2>4. CASE disk' = Append1(disk, j)
    BY <2>1, <2>2, <2>4, PutIsMove DEF Lifecycle!Submit, NoConflict
  <2> QED BY <2>2, <2>3, <2>4
<1>2. ASSUME NEW j \in Jobs, Cancel(j) PROVE Lifecycle!Withdraw(j) \/ Silent
  <2>1. /\ disk \in Store /\ disk.status[j] = "queued"
        /\ disk' \in {disk, Put(disk, j, "cancelled")} /\ UNCHANGED <<ran, applied>>
    BY <1>2 DEF Cancel, MutationAllowed, TypeOK, ProcessFacts, MemoryIsDurable, Written, FailedWrite
  <2>2. CASE disk' = disk
    BY <2>1, <2>2
  <2>3. CASE disk' = Put(disk, j, "cancelled")
    BY <2>1, <2>3, PutIsMove DEF Lifecycle!Withdraw
  <2> QED BY <2>1, <2>2, <2>3
<1>3. ASSUME NEW j \in Jobs, Claim(j) PROVE Lifecycle!Take(j) \/ Silent
  <2>1. /\ disk \in Store /\ disk.status[j] = "queued" /\ mem = disk
        /\ UNCHANGED <<ran, applied>>
    BY <1>3 DEF Claim, IsHead, MutationAllowed, TypeOK, ProcessFacts, MemoryIsDurable
  <2>2. \A k \in Jobs : Lifecycle!Settled(k)
    BY <1>3 DEF Claim, ProcessFacts, Clean
  <2>3. disk' \in {disk, Put(disk, j, "running")}
    BY <1>3, <2>1 DEF Claim, Written, FailedWrite
  <2>4. CASE disk' = disk
    BY <2>1, <2>4
  <2>5. CASE disk' = Put(disk, j, "running")
    BY <2>1, <2>2, <2>5, PutIsMove DEF Lifecycle!Take
  <2> QED BY <2>3, <2>4, <2>5
<1>4. CASE Execute
  <2>1. Lifecycle!Start(cur)
    BY <1>4 DEF Execute, StartHostWork, Lifecycle!Start, ProcessFacts, Progress
  <2>2. cur \in Jobs
    BY <1>4 DEF Execute, TypeOK
  <2> QED BY <2>1, <2>2 DEF Lifecycle!LifecycleNext
<1>5. ASSUME NEW j \in Jobs, Probe(j) PROVE Lifecycle!Start(j) \/ Silent
  <2>1. disk.status[j] = "running" /\ ran' = ran \cup {j} /\ UNCHANGED <<disk, applied>>
    BY <1>5 DEF Probe, StartHostWork, ProcessFacts, MemoryIsDurable, Journalled
  <2> QED BY <2>1 DEF Lifecycle!Start
<1>6. CASE Complete \/ CompleteProbe
  <2>1. PICK st \in Terminal :
          /\ disk' \in {disk, Put(disk, cur, st)}
          /\ cur \in ran \/ (cur \in found /\ st = "succeeded")
    BY <1>6 DEF Complete, CompleteProbe, Written, TypeOK, ProcessFacts, MemoryIsDurable, Journalled, Progress
  <2>2. cur \in Jobs /\ disk \in Store /\ disk.status[cur] = "running" /\ found \subseteq StateProven
    BY <1>6 DEF Complete, CompleteProbe, TypeOK, ProcessFacts, Progress
  <2>3. UNCHANGED <<ran, applied>>
    BY <1>6 DEF Complete, CompleteProbe
  <2>4. CASE disk' = disk
    BY <2>3, <2>4
  <2>5. CASE disk' = Put(disk, cur, st)
    <3>1. disk'.status = [disk.status EXCEPT ![cur] = st]
      BY <2>1, <2>2, <2>5 DEF Put, Store
    <3>2. Lifecycle!Settle(cur) \/ Lifecycle!FindDone(cur)
      BY <2>1, <2>2, <2>3, <3>1 DEF Lifecycle!Settle, Lifecycle!FindDone
    <3> QED BY <2>2, <3>2 DEF Lifecycle!LifecycleNext
  <2> QED BY <2>1, <2>4, <2>5
<1>7. CASE Reconcile
  <2>1. cur \in Jobs /\ disk.status[cur] \in Terminal /\ UNCHANGED <<disk, ran>>
    BY <1>7 DEF Reconcile, TypeOK, ProcessFacts, Progress
  <2>2. CASE applied' = applied \cup {cur}
    BY <2>1, <2>2 DEF Lifecycle!Deliver, Lifecycle!LifecycleNext
  <2> QED BY <1>7, <2>1, <2>2 DEF Reconcile
<1>8. CASE UNCHANGED <<disk, ran, applied>>
  BY <1>8
<1> QED
  BY <1>1, <1>2, <1>3, <1>4, <1>5, <1>6, <1>7, <1>8
     DEF Lifecycle!LifecycleNext, Next, Http, Executor, Settle, Startup, Command, Process, BootApi,
         BootCommand, Boot, Crash, StopApi, RejectedRequest, Select, ClaimNothing, Executed,
         HaltLatched, SnapshotFails, Begin, Acknowledge, ResumeTerminal, ResumeFromEvidence, ResumeFromState, RemoveProbed,
         EndCommand, StartRuntime, vars

HIDE DEF Lifecycle!lifecycleVars

\* What files, host and registries show is always a run of the serial job server.
THEOREM QueueImplementsLifecycle == Spec => ImplementsLifecycle
<1>1. Init => Lifecycle!LifecycleInit
  BY DEF Init, EmptyStore, Lifecycle!LifecycleInit
<1>2. IndInv /\ [Next]_vars => [Lifecycle!LifecycleNext]_Lifecycle!lifecycleVars
  BY RefinementStep
<1> QED BY <1>1, <1>2, Invariant, PTL DEF Spec, ImplementsLifecycle, Lifecycle!LifecycleSpec

\* A final status on disk is never rewritten.
THEOREM FinalStatusIsFinal == Spec => FinalStatusStable
<1> DEFINE Stable == \A j \in Jobs : disk.status[j] \in Final => disk'.status[j] = disk.status[j]
<1>1. IndInv /\ [Next]_vars => [Stable]_vars
  <2> SUFFICES ASSUME IndInv, [Next]_vars PROVE Stable
    OBVIOUS
  <2>1. disk.status \in [Jobs -> Status]
    BY DEF IndInv, TypeOK, Store
  <2> QED
    BY <2>1, RefinementStep DEF Lifecycle!lifecycleVars, Lifecycle!LifecycleNext, Lifecycle!Submit,
      Lifecycle!Withdraw, Lifecycle!Take, Lifecycle!Start, Lifecycle!Settle, Lifecycle!FindDone, Lifecycle!Deliver
<1> QED BY <1>1, Invariant, PTL DEF Spec, FinalStatusStable

\* A job leaves the sidecar only settled.
THEOREM SidecarReleasesSettled == Spec => SidecarReleasedOnlySettled
<1> DEFINE Release == \A j \in sidecar \ sidecar' :
                        disk.status[j] \in Terminal /\ j \in applied \cup Inspections
<1>1. IndInv /\ [Next]_vars => [Release]_vars
  <2> SUFFICES ASSUME IndInv, [Next]_vars PROVE Release
    OBVIOUS
  <2>1. CASE Acknowledge \/ RemoveProbed
    BY <2>1 DEF IndInv, ProcessFacts, Progress, Acknowledge, RemoveProbed, TornSidecar
  <2>2. CASE sidecar \subseteq sidecar'
    BY <2>2
  <2> QED
    BY <2>1, <2>2
       DEF Next, Http, Executor, Settle, Startup, Command, Process, BootApi, BootCommand, Boot,
           Crash, StopApi, RejectedRequest, Enqueue, Cancel, Claim, Written, FailedWrite, Reload,
           Detect, TornSidecar, Select, ClaimNothing, Execute, Executed, HaltLatched, SnapshotFails, Begin,
           Complete, Reconcile, ResumeTerminal, ResumeFromEvidence, ResumeFromState, Probe, CompleteProbe,
           EndCommand, StartRuntime, vars
<1> QED BY <1>1, Invariant, PTL DEF Spec, SidecarReleasedOnlySettled

=============================================================================
