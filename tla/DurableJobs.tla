----------------------------- MODULE DurableJobs -----------------------------
(***************************************************************************)
(* The durable job queue of the YunPanel API and the three actors that     *)
(* move a job through it: the HTTP API (enqueue, cancel), the in-process   *)
(* local executor (claim, run, journal, complete, reconcile, acknowledge)  *)
(* and the offline `job-recovery' commands.                                *)
(*                                                                         *)
(* Two files survive a crash: the job store and the recovery sidecar.      *)
(* Everything else below the line "process memory" dies with the process.  *)
(* The API and the recovery commands never run together here: the commands *)
(* refuse to start while the API service is active.                        *)
(*                                                                         *)
(* A member of Jobs stands for one enqueue request and for the job that    *)
(* request creates; its resource, idempotency key and kind are therefore   *)
(* constants.  There is one server: the production API only serves the     *)
(* exact local one.                                                        *)
(***************************************************************************)
EXTENDS Naturals, FiniteSets

CONSTANTS
  Jobs,          \* enqueue requests, one job identity each
  NoJob,         \* "no job selected"
  Resources,     \* resourceType/resourceId pairs
  ResourceOf,    \* [Jobs -> Resources]
  Keys,          \* idempotency keys
  NoKey,         \* an enqueue without idempotency key
  KeyOf,         \* [Jobs -> Keys \cup {NoKey}]
  Inspections,   \* jobs whose operation is in the read-only re-execution list
  ComposeJobs,   \* Docker Compose jobs, recovered from receipts at API start
  StateProven,   \* jobs whose final host state alone proves them (create a database)
  Refusable,     \* jobs whose result the resource registries may refuse for good
  Unsupported,   \* jobs whose operation this executor has no handler for
  MaxFaults,     \* bound: failed writes, unreadable files, failed reconciles
  MaxCrashes,    \* bound: crashes and operator restarts of an idle API
  AllowCancel    \* whether HTTP clients cancel jobs in this instance

ASSUME JobsAssumption ==
  /\ IsFiniteSet(Jobs) /\ NoJob \notin Jobs
  /\ ResourceOf \in [Jobs -> Resources]
  /\ NoKey \notin Keys /\ KeyOf \in [Jobs -> Keys \cup {NoKey}]
  /\ Inspections \subseteq Jobs /\ ComposeJobs \subseteq Jobs
  /\ Inspections \cap ComposeJobs = {} /\ Unsupported \subseteq Jobs
  /\ StateProven \subseteq Jobs \ (Inspections \cup ComposeJobs) /\ Refusable \subseteq Jobs
  /\ MaxFaults \in Nat /\ MaxCrashes \in Nat /\ AllowCancel \in BOOLEAN

VARIABLES
  \* on disk
  disk,       \* the job store file: [status, pos]
  sidecar,    \* the recovery sidecar: jobs whose outcome is unsettled
  \* the host and the resource registries, durable as well
  ran,        \* jobs whose host operation was started
  rerun,      \* jobs whose host operation was started more than once
  done,       \* jobs whose host operation finished successfully
  receipts,   \* jobs with a private success receipt
  found,      \* jobs whose wanted final state a recovery found on the host
  applied,    \* jobs whose terminal result reached the resource registries
  refused,    \* jobs whose terminal result the registries will never accept
  \* process memory
  proc,       \* which process is alive
  mem,        \* its job registry, same shape as disk
  fatal,      \* the durable registry is latched
  recovery,   \* recovery.jobs
  pending,    \* reconciliationPending
  explicit,   \* explicitlyBegunReconciliation
  pc,         \* where the executor or the recovery command stands
  cur,        \* the job it works on
  outcome,    \* the completion status it is about to record
  \* budgets
  faults, crashes

files   == <<disk, sidecar>>
host    == <<ran, rerun, done, receipts, found>>
world   == <<host, applied, refused>>
journal == <<recovery, pending, explicit>>
work    == <<pc, cur, outcome>>
budgets == <<faults, crashes>>
vars    == <<files, world, proc, mem, fatal, journal, work, budgets>>

Active      == {"queued", "running"}
Terminal    == {"succeeded", "failed"}
Recoverable == {"running"} \cup Terminal
Final       == Terminal \cup {"cancelled"}
Status      == {"absent", "queued", "running", "cancelled"} \cup Terminal
Store       == [status : [Jobs -> Status], pos : [Jobs -> Nat]]

EmptyStore == [status |-> [j \in Jobs |-> "absent"], pos |-> [j \in Jobs |-> 0]]

Has(s, S)  == {j \in Jobs : s.status[j] \in S}
Running(s) == Has(s, {"running"})

\* A store with the status of j replaced.
Put(s, j, st) == [s EXCEPT !.status[j] = st]

\* Jobs are only ever appended: the position of a job is its index in the file.
Append1(s, j) ==
  [Put(s, j, "queued") EXCEPT !.pos[j] = Cardinality(Jobs \ Has(s, {"absent"}))]

\* claimNext takes the first queued job in file order.
IsHead(s, j) ==
  /\ s.status[j] = "queued"
  /\ \A k \in Has(s, {"queued"}) : s.pos[j] <= s.pos[k]

-----------------------------------------------------------------------------
(* Process life: every exit forgets the memory.                            *)

Vanish ==
  /\ proc' = "down" /\ mem' = EmptyStore /\ fatal' = FALSE
  /\ recovery' = {} /\ pending' = {} /\ explicit' = {}
  /\ pc' = "idle" /\ cur' = NoJob /\ outcome' = "none"

\* An uncertain step halts the executor and leaves the API up.  Startup
\* recovery and the commands throw instead: the process exits.
Halt == pc' = "halted" /\ cur' = NoJob /\ outcome' = "none" /\ UNCHANGED proc

Fault == faults > 0 /\ faults' = faults - 1 /\ UNCHANGED crashes

\* A write to the sidecar that fails may or may not have been renamed in place.
TornSidecar(new) == sidecar' \in {sidecar, new}

\* detectRecovery over a store: the union of recorded and running jobs becomes
\* the recovery set, in memory and, if it differs, in the sidecar.
Detect(store) ==
  /\ recovery' = sidecar \cup Running(store)
  /\ pending'  = {j \in sidecar : store.status[j] \in Terminal}
  /\ explicit' = {}
  /\ sidecar'  = sidecar \cup Running(store)

\* init() refuses a sidecar that names a job the store does not know to have run.
RecordMatches == \A j \in sidecar : disk.status[j] \in Recoverable

Boot(role) ==
  /\ proc = "down" /\ RecordMatches
  /\ \/ /\ proc' = role /\ mem' = disk /\ Detect(disk)
        /\ UNCHANGED <<fatal, work, budgets>>
     \/ /\ Running(disk) \ sidecar # {}          \* the sidecar must be written
        /\ Fault /\ TornSidecar(sidecar \cup Running(disk))
        /\ UNCHANGED <<proc, mem, fatal, journal, work>>
  /\ UNCHANGED <<disk, world>>

BootApi     == Boot("starting")
BootCommand == Boot("command")

\* A crash at any moment.  A write cut short is the write that did not happen
\* (temporary file + rename), so it needs no outcome of its own.
Crash ==
  /\ proc # "down" /\ crashes > 0 /\ crashes' = crashes - 1
  /\ Vanish /\ UNCHANGED <<files, world, faults>>

\* An operator stops the API: stop() drains the executor first.  Restarting an
\* API whose executor has halted is not charged to the budget.
StopApi ==
  /\ proc = "serving" /\ pc \in {"idle", "halted"}
  /\ IF pc = "halted" THEN UNCHANGED crashes
                      ELSE crashes > 0 /\ crashes' = crashes - 1
  /\ Vanish /\ UNCHANGED <<files, world, faults>>

-----------------------------------------------------------------------------
(* Mutations of the registry.  mutate() serialises them on one tail, so    *)
(* each is one step; a mutation that throws discards the dirty registry    *)
(* and re-reads the file.                                                  *)

\* mutate(): nothing but complete passes while the registry is in recovery.
MutationAllowed == ~fatal /\ recovery = {}

Written(new) == disk' = new /\ mem' = new /\ UNCHANGED <<fatal, sidecar, journal>>

\* Faulty variant: a failed mutation keeps the dirty registry.
ReloadNothing(inspect) == UNCHANGED <<mem, fatal, sidecar, journal>>

\* The catch branch of mutate() after disk' was left old or new.
Reload(inspect) ==
  \/ /\ mem' = disk' /\ UNCHANGED fatal
     /\ IF inspect THEN Detect(disk') ELSE UNCHANGED <<sidecar, journal>>
  \/ /\ fatal' = TRUE /\ UNCHANGED <<mem, journal>>
     /\ IF inspect THEN TornSidecar(sidecar \cup Running(disk')) ELSE UNCHANGED sidecar

FailedWrite(new, inspect) == Fault /\ disk' \in {disk, new} /\ Reload(inspect)

\* Faulty variant: a running job does not occupy its resource.
NoConflictQueued(j) ==
  /\ \A k \in Jobs : mem.status[k] # "absent" => KeyOf[j] = NoKey \/ KeyOf[k] # KeyOf[j]
  /\ \A k \in Has(mem, {"queued"}) : ResourceOf[k] # ResourceOf[j]

NoConflict(j) ==
  /\ \A k \in Jobs : mem.status[k] # "absent" => KeyOf[j] = NoKey \/ KeyOf[k] # KeyOf[j]
  /\ \A k \in Has(mem, Active) : ResourceOf[k] # ResourceOf[j]

\* Faulty variant: a cancelled job is queued again under its old identity.
EnqueueAgain(j) ==
  /\ proc = "serving" /\ MutationAllowed
  /\ mem.status[j] \in {"absent", "cancelled"} /\ NoConflict(j)
  /\ Written(Append1(mem, j)) /\ UNCHANGED <<budgets, world, proc, work>>

\* enqueue.  A known idempotency key answers with the job it already created
\* and a busy resource answers 409: neither changes the store.
Enqueue(j) ==
  /\ proc = "serving" /\ MutationAllowed
  /\ mem.status[j] = "absent" /\ NoConflict(j)
  /\ \/ Written(Append1(mem, j)) /\ UNCHANGED budgets
     \/ FailedWrite(Append1(mem, j), FALSE)
  /\ UNCHANGED <<world, proc, work>>

Cancel(j) ==
  /\ AllowCancel
  /\ proc = "serving" /\ MutationAllowed
  /\ mem.status[j] = "queued"
  /\ \/ Written(Put(mem, j, "cancelled")) /\ UNCHANGED budgets
     \/ FailedWrite(Put(mem, j, "cancelled"), FALSE)
  /\ UNCHANGED <<world, proc, work>>

\* A rejected request (409, 404) reloads too; if the file cannot be read then,
\* the registry latches.
RejectedRequest ==
  /\ proc = "serving" /\ MutationAllowed
  /\ Fault /\ fatal' = TRUE
  /\ UNCHANGED <<files, world, proc, mem, journal, work>>

-----------------------------------------------------------------------------
(* The local executor: work().                                             *)

\* selectNextJob peeks at the head of the queue in a read of its own, which
\* a cancel or an enqueue can overtake before the claim.  A head it has no
\* handler for stays queued, but is reported as a fault: the runtime stops the
\* executor and gives up the host lock until the API is started again.
Select ==
  /\ proc = "serving" /\ pc = "idle" /\ ~fatal
  /\ \/ Has(mem, {"queued"}) = {} /\ pc' = "selected" /\ UNCHANGED <<proc, cur, outcome>>
     \/ \E j \in Jobs : /\ IsHead(mem, j)
                       /\ IF j \in Unsupported
                            THEN Halt
                            ELSE pc' = "selected" /\ cur' = j /\ UNCHANGED <<proc, outcome>>
  /\ UNCHANGED <<files, world, mem, fatal, journal, budgets>>

ClaimNothing ==
  /\ proc = "serving" /\ pc = "selected" /\ MutationAllowed
  /\ Has(mem, {"queued"}) = {}
  /\ IF cur = NoJob THEN pc' = "idle" /\ UNCHANGED <<proc, cur, outcome>> ELSE Halt
  /\ UNCHANGED <<files, world, mem, fatal, journal, budgets>>

\* The claim is durable before the executor compares it with what it peeked at
\* and looks for its handler: a job that came in between and is another one, or
\* that it does not support, is left `running' and the executor halts.
Claim(j) ==
  /\ proc = "serving" /\ pc = "selected" /\ MutationAllowed
  /\ IsHead(mem, j)
  /\ LET new == Put(mem, j, "running") IN
     \/ /\ Written(new) /\ UNCHANGED budgets
        /\ IF cur \in {NoJob, j} /\ j \notin Unsupported
             THEN pc' = "claimed" /\ cur' = j /\ UNCHANGED <<proc, outcome>>
             ELSE Halt
     \/ FailedWrite(new, TRUE) /\ Halt
  /\ UNCHANGED world

\* executeOperation is under way from here on.
StartHostWork(j) ==
  /\ ran' = ran \cup {j}
  /\ rerun' = rerun \cup ({j} \cap ran)

Execute ==
  /\ proc = "serving" /\ pc = "claimed"
  /\ StartHostWork(cur) /\ pc' = "executing"
  /\ UNCHANGED <<files, done, receipts, found, applied, refused, proc, mem, fatal, journal, cur, outcome, budgets>>

\* The host answers; a success may leave a receipt (best effort).
Executed ==
  /\ proc = "serving" /\ pc = "executing" /\ pc' = "executed"
  /\ \/ /\ outcome' = "succeeded" /\ done' = done \cup {cur}
        /\ receipts' \in {receipts, receipts \cup ({cur} \ Inspections)}
     \/ outcome' = "failed" /\ UNCHANGED <<done, receipts>>
  /\ UNCHANGED <<files, ran, rerun, found, applied, refused, proc, mem, fatal, journal, cur, budgets>>

\* A latched registry refuses the next call, which halts the executor.
HaltLatched ==
  /\ proc = "serving" /\ fatal /\ pc \in {"idle", "selected", "executed"}
  /\ Halt /\ UNCHANGED <<files, world, mem, fatal, journal, budgets>>

\* A failed snapshot refresh stops polling once the running job is drained; the
\* API stays up.
SnapshotFails ==
  /\ proc = "serving" /\ pc = "idle"
  /\ Fault /\ Halt /\ UNCHANGED <<files, world, mem, fatal, journal>>

-----------------------------------------------------------------------------
(* Journal, completion, reconciliation, acknowledgement: shared by the     *)
(* executor, by startup recovery and by the recovery commands.             *)

\* What an exception does to whoever made the call.
GiveUp(memory) ==
  IF proc = "serving" THEN Halt /\ memory ELSE Vanish

\* Faulty variant: the journal entry is kept in memory only.
BeginInMemory ==
  /\ pc = "executed" /\ ~fatal
  /\ mem.status[cur] = "running"
  /\ recovery' = recovery \cup {cur}
  /\ pending' = pending \cup {cur} /\ explicit' = explicit \cup {cur}
  /\ pc' = "begun"
  /\ UNCHANGED <<files, proc, mem, fatal, cur, outcome, budgets, world>>

\* beginReconciliation: the job enters the sidecar before its result is stored.
Begin ==
  /\ pc = "executed" /\ ~fatal
  /\ mem.status[cur] = "running"
  /\ \/ /\ sidecar' = sidecar \cup {cur} /\ recovery' = recovery \cup {cur}
        /\ pending' = pending \cup {cur} /\ explicit' = explicit \cup {cur}
        /\ pc' = "begun"
        /\ UNCHANGED <<proc, mem, fatal, cur, outcome, budgets>>
     \/ /\ cur \notin sidecar /\ Fault /\ TornSidecar(sidecar \cup {cur})
        /\ GiveUp(fatal' = TRUE /\ UNCHANGED <<mem, journal>>)
  /\ UNCHANGED <<disk, world>>

\* complete, journalled: the job is pending, so nothing leaves the sidecar.
Complete ==
  /\ pc = "begun" /\ ~fatal
  /\ mem.status[cur] = "running"
  /\ LET new == Put(mem, cur, outcome) IN
     \/ /\ Written(new) /\ pc' = "terminal"
        /\ UNCHANGED <<proc, cur, outcome, budgets>>
     \/ /\ Fault                      \* failed write, or a rejected result
        /\ disk' \in {disk, new}
        /\ IF proc = "serving" THEN Halt /\ Reload(TRUE)
                               ELSE Vanish /\ UNCHANGED sidecar
  /\ UNCHANGED world

\* Faulty variant: a failed reconciliation is ignored.
ReconcileOrIgnore ==
  /\ pc = "terminal" /\ pc' = "reconciled"
  /\ applied' \in {applied, applied \cup {cur}}
  /\ UNCHANGED <<files, host, refused, proc, mem, fatal, journal, cur, outcome, budgets>>

\* reconcileCompletedJob, with the terminal job in hand.  It may fail in passing,
\* or be refused for good: what failed may have cleared the mark that the next
\* attempt needs.
Reconcile ==
  /\ pc = "terminal"
  /\ \/ /\ cur \notin refused
        /\ applied' = applied \cup {cur} /\ pc' = "reconciled"
        /\ UNCHANGED <<refused, proc, mem, fatal, journal, cur, outcome, budgets>>
     \/ /\ \/ Fault /\ UNCHANGED refused
           \/ cur \in Refusable /\ refused' = refused \cup {cur} /\ UNCHANGED budgets
        /\ UNCHANGED applied /\ GiveUp(UNCHANGED <<mem, fatal, journal>>)
  /\ UNCHANGED <<files, host>>

\* Faulty variant: the job stays in recovery.jobs.
AcknowledgeOnDisk ==
  /\ pc = "reconciled" /\ ~fatal
  /\ mem.status[cur] \in Terminal /\ cur \in sidecar
  /\ sidecar' = sidecar \ {cur}
  /\ pc' = "idle" /\ cur' = NoJob /\ outcome' = "none"
  /\ UNCHANGED <<proc, mem, fatal, journal, budgets, disk, world>>

\* acknowledgeReconciliation: only now does the job leave the sidecar.
Acknowledge ==
  /\ pc = "reconciled" /\ ~fatal
  /\ mem.status[cur] \in Terminal /\ cur \in sidecar
  /\ \/ /\ sidecar' = sidecar \ {cur} /\ recovery' = recovery \ {cur}
        /\ pending' = pending \ {cur} /\ explicit' = explicit \ {cur}
        /\ pc' = "idle" /\ cur' = NoJob /\ outcome' = "none"
        /\ UNCHANGED <<proc, mem, fatal, budgets>>
     \/ /\ Fault /\ TornSidecar(sidecar \ {cur})
        /\ GiveUp(fatal' = TRUE /\ UNCHANGED <<mem, journal>>)
  /\ UNCHANGED <<disk, world>>

-----------------------------------------------------------------------------
(* Startup recovery of the API and the offline recovery commands.          *)

\* Faulty variant: only the command resumes terminal jobs, startup does not.
ResumeTerminalOffline(j) ==
  /\ proc = "command" /\ pc = "idle"
  /\ j \in recovery /\ mem.status[j] \in Terminal
  /\ pc' = "terminal" /\ cur' = j
  /\ UNCHANGED <<files, world, proc, mem, fatal, journal, outcome, budgets>>

\* reconcileStartupRecovery and `job-recovery reconcile': a terminal job that
\* is still recorded is reconciled again, never executed.
ResumeTerminal(j) ==
  /\ proc \in {"starting", "command"} /\ pc = "idle"
  /\ j \in recovery /\ mem.status[j] \in Terminal
  /\ pc' = "terminal" /\ cur' = j
  /\ UNCHANGED <<files, world, proc, mem, fatal, journal, outcome, budgets>>

\* Faulty variants: no receipt is asked for; no result is handed to complete.
ResumeWithoutReceipt(j) ==
  /\ pc = "idle" /\ j \in recovery \ (Inspections \cup StateProven)
  /\ \/ proc = "starting" /\ j \in ComposeJobs
     \/ proc = "command" /\ j \notin ComposeJobs
  /\ mem.status[j] = "running"
  /\ pc' = "executed" /\ cur' = j /\ outcome' = "succeeded"
  /\ UNCHANGED <<files, world, proc, mem, fatal, journal, budgets>>

ResumeWithoutResult(j) ==
  /\ pc = "idle" /\ j \in recovery \ (Inspections \cup StateProven)
  /\ \/ proc = "starting" /\ j \in ComposeJobs
     \/ proc = "command" /\ j \notin ComposeJobs
  /\ mem.status[j] = "running" /\ j \in receipts
  /\ pc' = "executed" /\ cur' = j
  /\ UNCHANGED <<files, world, proc, mem, fatal, journal, outcome, budgets>>

\* A running mutation is completed from its receipt (and from what the host
\* shows, which may be a reason not to): Compose jobs by the API at start, the
\* others by an operator's command.
ResumeFromEvidence(j) ==
  /\ pc = "idle" /\ j \in recovery \ (Inspections \cup StateProven)
  /\ \/ proc = "starting" /\ j \in ComposeJobs
     \/ proc = "command" /\ j \notin ComposeJobs
  /\ mem.status[j] = "running" /\ j \in receipts
  /\ pc' = "executed" /\ cur' = j /\ outcome' = "succeeded"
  /\ UNCHANGED <<files, world, proc, mem, fatal, journal, budgets>>

\* recoverRunningDatabaseCreate, recoverRunningDomainStage and others like them ask
\* for no receipt: it is enough that the host now shows what the job was to bring
\* about, whoever did it and whether or not the job was ever started.
ResumeFromState(j) ==
  /\ proc = "command" /\ pc = "idle"
  /\ j \in recovery \cap StateProven /\ mem.status[j] = "running"
  /\ found' = found \cup {j}
  /\ pc' = "executed" /\ cur' = j /\ outcome' = "succeeded"
  /\ UNCHANGED <<files, ran, rerun, done, receipts, applied, refused, proc, mem, fatal, journal, budgets>>

\* Faulty variant: any running operation is executed again.
ProbeAny(j) ==
  /\ proc = "command" /\ pc = "idle"
  /\ j \in recovery /\ mem.status[j] = "running"
  /\ StartHostWork(j) /\ pc' = "probing" /\ cur' = j
  /\ UNCHANGED <<files, done, receipts, found, applied, refused, proc, mem, fatal, journal, outcome, budgets>>

\* recoverRunningInspection: a read-only operation is run again.
Probe(j) ==
  /\ proc = "command" /\ pc = "idle"
  /\ j \in recovery \cap Inspections /\ mem.status[j] = "running"
  /\ StartHostWork(j) /\ pc' = "probing" /\ cur' = j
  /\ UNCHANGED <<files, done, receipts, found, applied, refused, proc, mem, fatal, journal, outcome, budgets>>

\* ... and completed without a journal entry of its own,
CompleteProbe ==
  /\ pc = "probing"
  /\ \/ /\ done' = done \cup {cur} /\ Written(Put(mem, cur, "succeeded"))
        /\ pc' = "removing" /\ UNCHANGED <<proc, cur, outcome, budgets>>
     \/ /\ Fault /\ done' \in {done, done \cup {cur}}  \* probe or write failed
        /\ disk' \in IF cur \in done' THEN {disk, Put(mem, cur, "succeeded")} ELSE {disk}
        /\ Vanish /\ UNCHANGED sidecar
  /\ UNCHANGED <<ran, rerun, receipts, found, applied, refused>>

\* ... after which mutate() takes it out of the sidecar and detects again.
RemoveProbed ==
  /\ pc = "removing"
  /\ \/ sidecar' = sidecar \ {cur} /\ UNCHANGED budgets
     \/ Fault /\ TornSidecar(sidecar \ {cur})
  /\ Vanish /\ UNCHANGED <<disk, world>>

\* The command ends without having resolved anything more.
EndCommand ==
  /\ proc = "command" /\ pc = "idle"
  /\ Vanish /\ UNCHANGED <<files, world, budgets>>

\* What startup can settle by itself.
Settleable ==
  {j \in recovery : mem.status[j] \in Terminal \/ j \in ComposeJobs \cap receipts}

\* The runtime starts the executor only when nothing is left in recovery;
\* otherwise startLocalRuntime throws and the API process exits.
StartRuntime ==
  /\ proc = "starting" /\ pc = "idle" /\ Settleable = {}
  /\ IF recovery = {} THEN proc' = "serving" /\ UNCHANGED <<mem, fatal, journal, work>>
                      ELSE Vanish
  /\ UNCHANGED <<files, world, budgets>>

-----------------------------------------------------------------------------
Init ==
  /\ disk = EmptyStore /\ sidecar = {}
  /\ ran = {} /\ rerun = {} /\ done = {} /\ receipts = {}
  /\ found = {} /\ applied = {} /\ refused = {}
  /\ proc = "down" /\ mem = EmptyStore /\ fatal = FALSE
  /\ recovery = {} /\ pending = {} /\ explicit = {}
  /\ pc = "idle" /\ cur = NoJob /\ outcome = "none"
  /\ faults = MaxFaults /\ crashes = MaxCrashes

Http     == RejectedRequest \/ \E j \in Jobs : Enqueue(j) \/ Cancel(j)
Executor == Select \/ ClaimNothing \/ (\E j \in Jobs : Claim(j)) \/ Execute \/ Executed
              \/ HaltLatched \/ SnapshotFails
Settle   == Begin \/ Complete \/ Reconcile \/ Acknowledge
Startup  == StartRuntime \/ \E j \in Jobs : ResumeTerminal(j) \/ ResumeFromEvidence(j)
Command  == EndCommand \/ CompleteProbe \/ RemoveProbed
              \/ \E j \in Jobs : Probe(j) \/ ResumeFromState(j)
Process  == BootApi \/ BootCommand \/ Crash \/ StopApi

Next == Http \/ Executor \/ Settle \/ Startup \/ Command \/ Process

Spec == Init /\ [][Next]_vars

-----------------------------------------------------------------------------
(* Safety.                                                                 *)

PC == {"idle", "selected", "claimed", "executing", "executed", "begun", "terminal",
       "reconciled", "probing", "removing", "halted"}

\* Shapes of the two files and of the process memory.
TypeOK ==
  /\ disk \in Store /\ mem \in Store /\ sidecar \subseteq Jobs
  /\ ran \subseteq Jobs /\ rerun \subseteq Jobs /\ done \subseteq Jobs
  /\ receipts \subseteq Jobs /\ found \subseteq StateProven
  /\ applied \subseteq Jobs /\ refused \subseteq Refusable
  /\ proc \in {"down", "starting", "serving", "command"} /\ fatal \in BOOLEAN
  /\ recovery \subseteq Jobs /\ pending \subseteq Jobs /\ explicit \subseteq Jobs
  /\ pc \in PC /\ cur \in Jobs \cup {NoJob} /\ outcome \in Terminal \cup {"none"}
  /\ pc \notin {"idle", "selected", "halted"} => cur \in Jobs
  /\ pc \in {"executed", "begun"} => outcome \in Terminal
  /\ faults \in Nat /\ crashes \in Nat

\* A mutating host operation is started at most once, whatever crashes, failed
\* writes and recovery commands intervene; only read-only inspections repeat.
AtMostOnce == rerun \subseteq Inspections

\* Write-ahead claim: host work only ever happened for a job the job store file
\* already shows as claimed.  A cancelled or still queued job never ran.
ClaimedBeforeRun == \A j \in ran : disk.status[j] \in Recoverable

\* An operation without a handler never reaches the host, however its job came
\* to be claimed; the recovery commands have inspectors of their own.
UnsupportedNeverRuns == ran \cap Unsupported \subseteq Inspections

\* A job is stored as succeeded only after its host operation really succeeded.
\* One exception: for the operations whose recovery asks the host and no receipt, a
\* recovery has found their final state there, whoever brought it about.
SuccessIsReal == \A j \in Jobs : disk.status[j] = "succeeded" => j \in done \cup found

\* The job store never holds two active jobs for one resource, nor two jobs for
\* one idempotency key, even when an enqueue failed after its rename.
OneActivePerResource ==
  \A j, k \in Has(disk, Active) : ResourceOf[j] = ResourceOf[k] => j = k
OneJobPerKey ==
  \A j, k \in Jobs \ Has(disk, {"absent"}) : KeyOf[j] = KeyOf[k] /\ KeyOf[j] # NoKey => j = k
NoDuplicateJob == OneActivePerResource /\ OneJobPerKey

\* A terminal result that has not reached the resource registries is recorded in
\* the sidecar: no crash can lose the obligation to reconcile it.
JournalCoversResults ==
  \A j \in Has(disk, Terminal) \ Inspections : j \in applied \/ j \in sidecar

\* The sidecar only names jobs that init() accepts: no sequence of crashes makes
\* the next start latch on "record does not match persisted job state".
SidecarMatchesStore == \A j \in sidecar : disk.status[j] \in Recoverable

\* The sidecar records every debt and nothing the next start would refuse.
JournalFitsStore == JournalCoversResults /\ SidecarMatchesStore

\* What the healthy process believes is what the file says: a failed mutation
\* never leaves dirty memory behind.
MemoryIsDurable == proc # "down" /\ ~fatal => mem = disk

\* The executor works on a claimed job only while every other job is settled:
\* none is running, none is terminal without having been reconciled.
OthersSettled ==
  proc = "serving" /\ pc \in {"claimed", "executing", "executed", "begun"}
    => \A k \in Jobs \ {cur} :
         /\ disk.status[k] # "running"
         /\ disk.status[k] \in Terminal => k \in applied \cup Inspections

\* A final status is never rewritten on disk, by whichever process.
FinalStatusStable ==
  [][\A j \in Jobs : disk.status[j] \in Final => disk'.status[j] = disk.status[j]]_vars

\* A job leaves the sidecar only with its result stored and, unless it was a
\* re-executed inspection, reconciled.
SidecarReleasedOnlySettled ==
  [][\A j \in sidecar \ sidecar' :
       disk.status[j] \in Terminal /\ j \in applied \cup Inspections]_vars

-----------------------------------------------------------------------------
(* The queue implements the serial job server of JobLifecycle.             *)

Lifecycle == INSTANCE JobLifecycle
  WITH status <- disk.status, started <- ran, delivered <- applied, ReadOnly <- Inspections,
       Provable <- StateProven

\* Whatever crashes, fails or is recovered, what the files, the host and the
\* resource registries show is a run of the serial job server.
ImplementsLifecycle == Lifecycle!LifecycleSpec

-----------------------------------------------------------------------------
(* The inductive invariant: what ties the two files, the host and the      *)
(* process memory together at every step.                                  *)

\* Facts of the durable state alone.
Evidence ==
  /\ receipts \subseteq done \ Inspections /\ done \subseteq ran
  /\ \A j \in Jobs : disk.status[j] \in Terminal => j \in ran \cup found
  /\ \A j \in applied : disk.status[j] \in Terminal

\* The recorded and the running jobs are exactly what a started process knows
\* to be in recovery.
Journalled ==
  /\ proc = "down" => pc = "idle" /\ ~fatal
  /\ proc \in {"starting", "command"} =>
       /\ ~fatal /\ recovery = sidecar /\ Running(disk) \subseteq sidecar
       /\ pc \in {"idle", "executed", "begun", "terminal", "reconciled", "probing", "removing"}
  /\ proc = "serving" => pc \notin {"probing", "removing"}

\* The executor works only while the journal holds nothing but its own job.
Clean ==
  proc = "serving" /\ pc # "halted" =>
    /\ sidecar = recovery
    /\ recovery = IF pc \in {"begun", "terminal", "reconciled"} THEN {cur} ELSE {}
    /\ \A k \in Jobs :
         (k = cur /\ pc \in {"claimed", "executing", "executed", "begun", "terminal", "reconciled"})
           \/ Lifecycle!Settled(k)

\* Where the program stands says how far its current job has come.
Progress ==
  /\ pc \in {"claimed", "executing", "executed", "begun", "probing"}
       => disk.status[cur] = "running"
  /\ pc = "claimed" => cur \notin ran \cup Unsupported
  /\ pc \in {"executing", "probing"} => cur \in ran
  /\ pc \in {"executed", "begun"} => cur \in ran \/ (cur \in found /\ outcome = "succeeded")
  /\ pc \in {"executed", "begun"} /\ outcome = "succeeded" => cur \in done \cup found
  /\ pc \in {"begun", "terminal", "reconciled"} => ~fatal /\ cur \in sidecar
  /\ pc \in {"terminal", "reconciled"} => disk.status[cur] \in Terminal
  /\ pc = "reconciled" => cur \in applied
  /\ pc \in {"probing", "removing"} => cur \in Inspections
  /\ pc = "removing" => disk.status[cur] \in Terminal

DurableFacts ==
  /\ AtMostOnce /\ ClaimedBeforeRun /\ UnsupportedNeverRuns /\ SuccessIsReal
  /\ JournalCoversResults /\ SidecarMatchesStore /\ Evidence

ProcessFacts == MemoryIsDurable /\ Journalled /\ Clean /\ Progress

\* The three kinds of facts support each other: none is inductive alone.
IndInv == TypeOK /\ DurableFacts /\ ProcessFacts

-----------------------------------------------------------------------------
(* Liveness.  The poll timer, the awaited continuations and the service    *)
(* manager (Restart=on-failure) keep the enabled step of the live process  *)
(* going; nothing obliges clients or operators to act.                     *)

Fairness ==
  /\ SF_vars(BootApi)
  /\ WF_vars(Startup) /\ WF_vars(Settle)
  /\ WF_vars(Executor)
  /\ WF_vars(EndCommand \/ CompleteProbe \/ RemoveProbed)
  /\ WF_vars(StopApi /\ pc = "halted")

FairSpec == Spec /\ Fairness

\* A job the executor has no handler for stands at the head of the stored queue.
Blocked == \E j \in Unsupported : IsHead(disk, j)

\* A queued job is eventually finished and reconciled, or cancelled, provided that
\* an operator starts an API again whose executor has stopped.  Three exceptions:
\* the API went down over a running job, which an operator has to resolve unless it
\* is a Compose job that has left its receipt; a job without a handler stays at the head of the queue and
\* nobody cancels it; or the registries refuse a result for good, which then stays
\* in the sidecar and stops every mutation (job-reconciliation.js:540).  No other
\* failed write, latch, halt or crash leaves the queue standing.
QueuedJobFinishes ==
  \A j \in Jobs : disk.status[j] = "queued"
    ~> \/ disk.status[j] \in Terminal /\ j \in applied
       \/ disk.status[j] = "cancelled"
       \/ proc = "down" /\ Running(disk) \ (ComposeJobs \cap receipts) # {}
       \/ []Blocked
       \/ refused \cap sidecar # {}

\* Every stored result is eventually reconciled, through crashes, failed writes,
\* failed reconciliations and halted executors, as long as the API is restarted; or
\* the registries refuse it for good, and it is still in the sidecar.
ResultsAreReconciled ==
  \A j \in Jobs \ Inspections : disk.status[j] \in Terminal
    ~> j \in applied \/ j \in refused \cap sidecar

=============================================================================
