# YunPanel: specifications, model checking and proofs

YunPanel is a server panel: one Node.js API process (`apps/api`) owns a host, keeps its
state in JSON files it renames in place, and runs host operations through an in-process
executor. What is hard about it is not one algorithm but what its files, its requests and
its restarts do to each other. This directory models that, checks it with TLC and proves
the central results with TLAPS.

## 1. Inventory

| Component | State | Operations | Interaction |
| --- | --- | --- | --- |
| Durable job registry (`job-registry`, `durable-job-registry`, `job-recovery-store`) | job store file, recovery sidecar, the same in memory, latch | enqueue, claimNext, complete, cancel, begin/acknowledge reconciliation, recovery detection | HTTP routes, executor and CLI commands call it; one promise tail serialises mutations |
| Local executor and runtime (`local-job-executor`, `local-runtime`) | phase of the job in hand, halted, fault | select, claim, execute, journal, complete, reconcile, acknowledge; startup recovery | registry, host operations, `job-reconciliation` |
| Recovery commands (`job-recovery-*`, `job-running-*`, `docker-compose-recovery`) | none | settle a terminal job, re-run an inspection, complete from a receipt | registry, with the API stopped |
| Local execution lock (`local-execution-lock`) | one file | acquire (create, write, stat, read, signal, unlink), release | any API process of the host |
| Website provisioning (`website-provisioning-*`) | step journal, write chain, requests under way | create, continue, retry, compensate, startup reconciliation | HTTP requests, step handlers, job queue |
| Job reconciliation (`job-reconciliation`) | none of its own | marks results in the resource registries | executor, startup, CLI |
| Applications and deploy queue (`application-registry`, `application-deploy-queue`, `application-environment-registry`) | desired and applied configuration, operation under way, releases, environment revisions | deploy, rollback, restart, cancel, configuration, environment | enqueue in one store, mark in another; reconciliation marks the end; webhooks repeat |
| Domains (registry, suspension) | desired/staged/applied revisions | stage, activate, suspend | job queue, certificates, DNS, mail |
| Domain removal (`domain-removal-*`) | journal of steps of a parent and its child operations | start, continue a step, restart recovery | suspension, certificates, mail, webmail, DNS, website bindings |
| Websites (suspension, removal, isolation migration) | operation journals | phases with child jobs, compensation | domains, applications, host managers |
| Certificates | records, material generations | issue, renew, attach, collect garbage | domains, scheduler |
| DNS (zones, reapply, rollback, retirement) | zone operations | apply, roll back, retire | PowerDNS |
| DNSSEC rollover (`dns-zone-dnssec-rollover-*`) | stages of a rollover, key sets expected before and after | start, continue | key manager, secondaries, the parent's DS set, time |
| Mail (domains, DKIM, removal phases) | mail registries, rollback journal | enable, sign, remove in phases | domain removal parent, config activation |
| Databases and credentials | bindings, desired/applied credential revision | create, rotate, restore, delete | job queue |
| Docker compose and workloads | projects, receipts | apply, recover | job queue |
| Backups | operation registry, project lock | plan, run child jobs, resume | job queue, restic |
| Secrets (`secret-master-key-rotation`) | database, three encrypted stores, backups, manifest | rotate, roll back | offline command, operator, an API that should be stopped |
| Sessions, MFA, users, terminals, hand-offs | sqlite and memory | log in, revoke, open tools | HTTP, WebSocket |
| AI, audit, logs, settings, importers, web UI, templates | own files | CRUD, rendering | - |
| Host managers (`packages/host-runtime`) | the host | stage, activate, roll back | called by the executor |

Hard behaviours: a crash between any two writes; a write that fails before or after its
rename; requests that overlap because Node yields at every await; state read before an
await and used after it; a retry of what was already done; one record that stops the
queue until it is settled. PROJECT.json lists them one by one with the properties that
answer them, and lists every component, also those not modelled, with the reason.

What makes each component correct: the queue runs a mutation once and loses no result;
the lock has one holder; provisioning never repeats a host mutation by itself and keeps
the order of its plan; the registries behind reconciliation accept a result at most for
the revision it was made for; removals and backups resume where they stopped; key
rotation leaves every secret readable by one of two keys; revoked sessions end.

## 2. Plan

Done: 1. `JobLifecycle`, `DurableJobs` and its proofs. 2. `LocalExecutionLock` and its proofs.
3. `WebsiteProvisioning`. 4. `ApplicationOperations`. 5. `DnssecRollover`. 6. `MasterKeyRotation`.
7. `DomainRemoval`. 8. Proofs of `WebsiteProvisioning`, `DomainRemoval`, `MasterKeyRotation` and
`DnssecRollover`. 9. Proofs of `ApplicationOperations`. Every safety property a passing run checks
is now a theorem.

Next, in this order:

10. `RuntimeTakeover`: `LocalExecutionLock` composed with the store: the registry is read
   before the lock is taken (`index.js:285`), the commands check and then act.
11. `DomainRevisions`: staging and activation against stale results; suspension.
12. `CertificateLifecycle`: renewal, attachment and collection of material.
13. Backups, sessions, and the activation/rollback sequence of the nginx and mail managers.

Abstract specifications worth stating: the serial job server (done); "an operation
journal" (begin, prove, complete, compensate) that provisioning, removal and migration
all implement.

## 3. Modules

### JobLifecycle, DurableJobs, DurableJobs_proofs

`JobLifecycle` is the promise: a serial server whose jobs are submitted, withdrawn, taken,
started, settled and delivered, one at a time and each once. `DurableJobs` is the code.

* Files: `disk` (the job store: status and position) and `sidecar`. The world: `ran`, `rerun`,
  `done`, `receipts`, `found` (jobs a command found met on the host), `applied` (results that
  reached the resource registries), `refused` (results they will never take). Process
  memory: `proc`, `mem`, `fatal` (latch), `recovery`, `pending`, `explicit`, and `pc/cur/outcome`
  for whoever is at work. A crash forgets the memory.
* `mutate()` is serialised in the code, so a mutation is one step. One that fails leaves the
  file old or new and re-reads it (`FailedWrite`, `Reload`); if that fails too, the registry
  latches. Failed sidecar writes are torn the same way (`TornSidecar`).
* `Select` and `Claim` are two steps, as in `work()`: HTTP requests run in between. An
  `Unsupported` job at the head of the queue is an executor fault: the runtime closes executor
  and lock until the API is started again (`Halt`, `StopApi`); one the claim takes in between halts
  it as well. `Execute`, `Executed`, `Begin`, `Complete`, `Reconcile`, `Acknowledge` follow the executor;
  the last four are shared with startup recovery and the commands, where an exception ends the
  process (`GiveUp`) instead of halting the executor. `Reconcile` may fail in passing, or refuse a
  result for good (`Refusable`), as app_retry shows it can.
* `ResumeTerminal`, `ResumeFromEvidence`, `ResumeFromState`, `Probe` ... are startup recovery and the
  commands. `ResumeFromEvidence` wants a receipt; `ResumeFromState` settles the jobs in `StateProven`
  (the creation of a database, a staged domain, starting and stopping a Node process) from what
  the host shows, whether or not the job was ever started.
  The commands require a stopped API: `proc` is one process at a time.

A member of `Jobs` is one enqueue request with its resource and idempotency key. The payload,
result, log and error fields are left out; a host operation succeeds or fails.

### LocalExecutionLock, LocalExecutionLock_proofs

One step per file system call of `acquireLocalExecutionLock` and `release`. Processes are
pids, pids are reused, `life` is the token. `writeFile` with flag `wx` is two steps (create,
write). `raced` is a history variable: some unlink removed another record than the one its
caller had checked.

### WebsiteProvisioning, WebsiteProvisioning_proofs

One operation: the journal on `disk` and in `mem`, `queue`/`broken` for the promise chain of
`persist()` (memory first, snapshot at once, file later; a rejected chain takes no further
write and no one reloads), and per request where it waits (`at`, `on`, `seen`). A request
runs without interruption from one I/O wait to the next, which is one step: reading the
journal and beginning a step have only resolved promises between them. Inspections take
two steps, the read and its consequence. Handlers are external: `host` is "none", "partial"
or "met" per step; `inspect` says satisfied only when it is "met" (or "none", for a
compensation), or knows nothing. Every plan the code builds has required steps only, so
`required` is left out. `raced` marks steps of which an inspection, or the write that settles
one by what an inspection saw, overlapped a running handler; `tries` and `retries` count
applications and confirmed retries.

### ApplicationOperations, ApplicationOperations_proofs

One Node application, its two registry files (`app`, `env`) and the job store. The job store is
the one of `DurableJobs` reduced to durable statuses and the sidecar (`unsettled`): that its
mutations are atomic and its results are never lost is what `DurableJobs` shows. The
registries are not atomic: `mem` changes at once, a snapshot joins `queue`, one failed write
rejects the chain (`broken`). A request waits at `asked` (read, not yet enqueued), `marking` or
`undoing`; the executor, the startup recovery and the recovery commands share `Exec` and its
phases. `Enqueue` includes everything up to the next wait: the mark in memory, or the
refusal that leads to `Undo`. `Redeliver` is a webhook that repeats its key. Operations are numbered,
a release has the number of its deployment, configurations and environments are named by
their revisions.

`host` is what the Node managers leave behind: the release the link names and the one before,
what the environment file holds (`rev`, `env`), the deployment whose unit the service is started
from, the release directories after the best-effort clean-up. A deployment writes the unit; a
rollback and a restart do not. A failure is either undone (`Undone`: link, environment file and
directories are restored, the unit is not) or its undo fails as well (`LeftBehind`, the disturbance
"undo"), which leaves any mixture and marks the host `torn` when link or environment file
changed. The operation is one step: a crash inside it shows as one before it or after it, with or
without a receipt, and in each case the job stays `running`.

### DnssecRollover, DnssecRollover_proofs

The stages of one rollover. `Start`, `Continue` and the step actions follow `run()` of the
runtime: each runner keeps `own`, the copy of the operation it read; `Advance` compares it with
the registry as `advance` does (status and update time), changes memory and queues the
snapshot. A stage that changes keys reads and classifies the key set (`InspectKeys`: still the
base, already the target, or neither), changes it (`ChangeKeys`), and records (`RecordKeys`), in
three steps. The outside world is external: secondaries transfer when they like, the DNS
operator adds and removes DS records (or puts the old one back), resolvers may use any DS set
published within the last TTL (`Cached`), time ticks. A key-set digest is the key set itself.

A request to the name server may take longer than any TTL, and a TTL may be 0: a runner that
decided on a change keeps it in hand while time passes and others go on. One thing is slower:
the DNS operator, who asks a registrar for the new DS. `AddDs` waits for a publishing request still under
way (`LatePublication`), which ends after ten seconds (`powerdns-dnssec-manager.js:214`). A change
the server makes after that, unseen by the client, is not modelled. "unseen" is a parent that cannot be
verified while the TTL of the old DS runs out; `WaitForTtl` then starts the wait anew.

### MasterKeyRotation, MasterKeyRotation_proofs

`rotateSecretMasterKey` and `rollbackSecretMasterKey`, one step per store and phase: `at` is the
phase, `todo` the stores left in it. A store is the key it is wrapped with and the number of
changes made to it. The database is two files: `Commit` writes to the log `wal`, `Close`
may checkpoint it or (another process still has it open) not, and a log that stays is replayed
over whatever database file is there. `Fail` may strike at any step and runs the catch branch
(`Abort`, `Undo`, `Report`), `Crash` runs nothing. The operator is the documented procedure: start
the API with the key the manifest calls for, roll back when it calls for that, repeat an
interrupted rollback. `Straggler` is the API that was not stopped in time; changes the command
cannot notice set `unseen`.

### DomainRemoval, DomainRemoval_proofs

The operation of a domain and that of its child, in one registry with one write chain. A request
continues an operation: it joins or begins the first incomplete step (`MarkRunning`), reads the
resource (`ReadCertificate`, `ReadZone`, ...), changes it (`Change...`) and records the verdict
(`Record`). The recovery at startup (`boot`) does the same but only reads, and blocks what it
cannot prove. Resources are there, `leaving` (a child operation or a record says that it is
being removed, so it can be asked again) or `gone`. A plan names at least one kind of step;
`Pending` are the operations a restart has to look at. What the child runtimes do inside
is external.

Definitions commented "Faulty variant" are bugs the code could have had; each shows that some
property would notice. They are part of no specification.

## 4. Runs

| Run | Instance | Shows |
| --- | --- | --- |
| faults | 4 jobs: `activate`, whose result may be refused for good; `compose`; `again`, on compose's project and under activate's key, without a handler, provable from the host's state; `inspect`. 1 fault, 2 crashes, cancels | all safety of the queue; `ImplementsLifecycle`; `QueuedJobFinishes`, `ResultsAreReconciled` |
| lock_takeover | 3 pids, one of them used twice, 2 crashes, 2 pids managed | `ExclusiveUnlessRaced`, `FailsClosed`, `StaleLockDoesNotBlock` |
| lock_exclusive | 3 pids, 1 crash | violated: `OneHolder` (finding) |
| prov_safety | 2 steps, 2 requests, 1 retry per step, 1 fault, 1 crash; step 1 may block, step 2 is retryable | all safety of provisioning; `WaitersAreServed` |
| prov_order, prov_overlap | the smallest instance each | violated: findings |
| app_operations | 3 operations, 2 requests and the executor, 2 releases kept, any one configuration change, environment change, failed write, failed undo or crash | `RegistryMatchesHost`, `AppliedEnvironmentIsReal`, `LockIsAccountedFor`, `AnsweredIsRecoverable` |
| app_retry | 1 operation, 1 configuration change, no fault | violated: `StoredResultsAreReconciled` (finding) |
| app_unit | 2 operations, 1 configuration change, no fault | violated: `RunsRecordedConfiguration` (finding) |
| rollover | 2 requests, TTLs of one tick, any one crash, failed write, zone edit, lost answer, unverifiable parent, old DS put back | `DelegationSurvives`, `IntentIsDurable`, `ActivatedWhenServed`, `RolloverFinishes` |
| rotation | 4 stores, any of the three files absent, 1 change, any three crashes, failures, damaged backups, late changes | `NoSecretIsLost`, `RollbackRestores`, `AppliedKeepsEdits`, `ServiceReturns` |
| domain_removal | the eight steps of a root and the two of a child, 2 requests, any two of eight disturbances | `DependentsGoFirst`, `SucceededIsMet`, `CrashNeverStrands`, `RemovalFinishes` |

Bounds. Jobs on one resource, two of them with one key, and one elsewhere make conflicts,
repeated requests, queue order and a cancelled head happen; the second crash hits a recovery
from the first. Three processes are
needed for the lock: one dies, two find its lock. Two steps give an order, two requests a
race; three requests are only needed for the overlap of two applications with a third
request that settled the step. In prov_safety the order properties speak of the steps outside
`Blockers`, so the later step is left out of it there. Deadlock is not checked: every one of
these systems may rest, and the budgets end.

In app_operations three operations are a deployment, another one and a rollback to the first;
with two releases kept the third deployment makes host and registry drop one. One disturbance
at a time keeps the run small and already breaks every faulty variant. A TTL of one tick
separates "published" from "published for long enough", which is all the rollover distinguishes;
for any other TTL, 0 included, there are the proofs.
Three disturbances of a rotation are a failure, the failure of its clean-up and a crash of the
rollback; two of a removal are an error and the crash that meets it. Each run's plan or files
are those the code builds; none of the properties looks at the content of a store.

Exceptions the properties name. `QueuedJobFinishes` and `ResultsAreReconciled` leave out a result the
registries refuse for good, as long as it is in the sidecar. `RegistryMatchesHost`,
`AppliedEnvironmentIsReal` and `AnsweredIsRecoverable` speak of a host on which no undo has failed
(`host.torn`): there the code reports that it could not restore the service.
`AppliedEnvironmentIsReal` also leaves out results reconciled by a command. `IntentIsDurable` holds
when the write chain is empty and healthy: a second request reads a stage before it is durable. `RolloverFinishes` excludes a
failed journal write, `Edited` (the zone was edited between the publication and the check of its
propagation; an edit at any other time does not matter), and `Overtaken`: two requests created
a key each, or one acted on a stage that a crash had lost or that was over. `NoSecretIsLost` excludes
changes nobody can notice and `CommitNotRecorded`. `RemovalFinishes` names in
`Stranded` the states no request gets past. `CrashNeverStrands` allows only crashes and refusals, and
speaks of resources: a child operation created and never begun is one of the states of `Stranded`.
These exceptions are the code's, not the model's; the end of the next section lists them.

Symmetry is used for requests, where no liveness is checked.

Fairness. `DurableJobs`: the poll timer and awaited continuations (weak fairness of the
executor, startup and settling steps), `Restart=on-failure` of the service unit (strong
fairness of booting: a command may run in between), an operator who restarts an API whose
executor has halted. Clients owe nothing. `LocalExecutionLock`: system calls return; the
service manager starts the managed pids. `DnssecRollover`: the administrator keeps continuing, the
DNS operator does what is asked for, secondaries transfer, time passes, the service manager
boots. `MasterKeyRotation`: a command runs to its end; the operator repeats a rollback until it
succeeds and does not put off starting the API (strong fairness: a rollback may come first).
`DomainRemoval`: somebody keeps asking, requests and writes end, and a change tried again and
again succeeds (strong fairness; otherwise a service that always refuses explains everything).
`ApplicationOperations` (app_retry): the executor, the writes and the service manager go on.
`WebsiteProvisioning` states no fairness: that clients
are answered is the invariant `WaitersAreServed`, which leaves only writes and handlers to return.

## 5. Findings

* **lock_exclusive** - a stale lock found by two processes can end with two holders
  (`docs/local-executor-safety.md:21` calls it exclusive). `ExclusiveUnlessRaced` shows, and
  the proof shows for any number of processes, that there is no other way.
* **prov_order** - a blocked later step counts as inactive, so an earlier one is compensated
  under it; a later continue may then record the blocked one as succeeded.
  `OrderUnlessBlocked` shows that nothing else breaks the order.
* **prov_overlap** - a step being applied is taken for an interrupted one by a second request;
  with a retryable inspection and a retry its handler runs twice at the same time.
* **app_retry** - a configuration updated between a deploy route's read and its mark makes
  the result of that deployment unacceptable (`application-registry.js:665`), and the failure
  branch of the reconciliation (`job-reconciliation.js:540`) clears the mark every later attempt
  needs: the result stays in the sidecar for ever and stops the queue, against
  `apps/api/test/job-reconciliation-failure.test.js:45`.
* **app_unit** - a deployment that fails after it has written the systemd unit leaves that unit
  (`node-deployment-manager.js:399`, undo at 428-454), and a rollback never writes the unit of its
  release: the service is started from another configuration than the one recorded, against
  `docs/website-workspace.md:51`.

Progress of the queue has three exceptions, which `QueuedJobFinishes` names. By design, a running
mutation stays in recovery until an operator proves its outcome, by a receipt or by the state of
the host, and meanwhile the API does not start; only a Compose job with a receipt is settled by the
API itself, and the property demands it. A job without a handler at the head of
the queue (`Blocked`) closes executor and lock until the API is started again, and does so at
every start until the job is cancelled; a cancel alone does not move the queue. And a result refused for
good stays in the sidecar and stops every mutation.

Four more things the models make visible. A cancel between the peek and the claim halts the
executor, though `docs/local-executor-safety.md:74` reserves that for an uncertain claim; and the
same window lets the claim take a job the executor has no handler for, which the comment at
`local-job-executor.js:58` says is left queued: it stays `running`, is never executed
(`UnsupportedIsNotRun`), and the API then waits for an operator. An inspection that answers `retryable` (Roundcube's
does) turns an interrupted step into a failed one also in the startup pass, where
`docs/provisioning-recovery.md:30` expects it to stay applying (`ReconcileInterrupted`). The
other two the code intends: a step whose compensation failed
half way is `succeeded` again; and after one failed journal write the provisioning registry
serves from memory and writes nothing until the next restart.

And in the newer models, as exceptions their properties had to name:

* `CommitNotRecorded`: a rotation whose last manifest write fails after the `COMMIT` restores the
  files to the old key and records "failed", while the database stays under the new key
  (`secret-master-key-rotation.js:373-400`), though `docs/secret-master-key-rotation.md:65` says that
  runtime failures roll SQLite back. A rollback still repairs it (`MixedIsRecoverable`), starting the
  API with the old key does not.
* `offline`: the recovery commands reconcile without an environment registry
  (`job-recovery-runtime.js:213`), so the environment of a deployment recovered offline is never
  recorded as applied, which `docs/local-executor-safety.md:37` promises of every reconciliation.
* `host.torn`: an undo that fails leaves link or environment file changed, and the job failed.
* `Stranded`: a child operation created but not begun when the API died, a resource without
  a record of its own that another request or an unanswered call removed, or a domain the
  operator resumed, stop a domain removal for good.
* `Overtaken`: two requests that both find `creating_key` create a key each; the rollover then
  matches neither the expected nor the target key set.
* `Edited`: a zone edited before the propagation of the new key was verified is served with
  another serial than the one journalled, and no request goes on from there.
* With a late second request to publish, an active new key becomes inactive for a while; the parent
  still names the old key alone then (`DelegationSurvives`).
* An application whose operation was cancelled just before a crash stays marked by it
  (`LockIsAccountedFor` allows exactly that).
* A webhook whose mark failed is cancelled, and its redelivery is answered as a duplicate.

## 6. Proofs

`DurableJobs_proofs` proves, for any finite set of jobs, resources and keys and any budget:
`TypeOK`, `AtMostOnce`, `ClaimedBeforeRun`, `SuccessIsReal`, `JournalFitsStore` (that is,
`JournalCoversResults` and `SidecarMatchesStore`), `MemoryIsDurable`, `UnsupportedNeverRuns`, `OthersSettled`,
`NoDuplicateJob` (`OneActivePerResource` and `OneJobPerKey`), `FinalStatusStable`, `SidecarReleasedOnlySettled`, and `ImplementsLifecycle`. The
only assumption is `JobsAssumption`.

The argument is the inductive invariant `IndInv`. None of the properties is inductive alone:
that a mutation runs once needs that a claimed job has not run (`Progress`), which needs that
the file, and not only the memory, says `running` (`MemoryIsDurable`), which needs that a
started process has every recorded and running job in recovery (`Journalled`), so that no
mutation passes. `Clean` says that while the executor works the journal holds its own job or
nothing; the refinement needs it, because `Take` requires every other job to be settled.
`DurableFacts` speak of the files and the world, `ProcessFacts` of the live process; a crash
keeps the first kind and makes most of the second trivial. One lemma per group of actions
shows that `IndInv` is preserved; the refinement maps each step to one step of `JobLifecycle`
or to a stutter. `SuccessIsReal` says that a stored success was reached on the host or `found` there,
and `JobLifecycle` has a step for the latter (`FindDone`, for `Provable` jobs only): that success is
stored only for what was executed would be wrong of this code. `ClaimedBeforeRun`, `UnsupportedNeverRuns`, `OthersSettled` and `FinalStatusStable` are proved only:
the first three are parts of `IndInv` or follow from it, the last is implied by the refinement, and
no run repeats them.

`LocalExecutionLock_proofs` proves `ExclusiveUnlessRaced` and `FailsClosed` for any set of pids
from `LockInv` (type correctness and ownership, both proved inductive): unless a race has happened, whoever is between its create and its unlink owns
the file (`IsOwn`), and whoever is about to unlink a stale lock has seen a record whose life
is over. `FailsClosed` needs that two records of one pid with the same life are the same, and
that a record seen was whole.

`WebsiteProvisioning_proofs` proves `TypeOK` and all six safety properties of prov_safety for
any plan, set of requests, `Blockers`, retries, faults and crashes; the only assumption is
`PlanAssumption`. Almost every step is one request's turn (`Turn`): it changes one step of the
journal, queues a snapshot or takes the head of the chain, and waits again; what it may do to the
host and to the others is `Careful`. Each part of `IndInv` survives a careful turn, and each action
is one. What an order property says of the file is not inductive, since the file is what the
memory was some writes ago: `JournalsSound` says the same of memory, file and every snapshot.
`WorkIsJournalled` says that a handler at work is announced by all of them; from it follow
`HostChangesAreJournalled` and, with `SeenIsTrue` and `SettlingIsTrue` (an inspection's answer is
still right when it is used), `SucceededIsMet`. `NoBlindReplay` needs a count along the chain
(`ReplaysAreConfirmed`): a snapshot in which a step is yet to begin leaves one application over. The
proof found that `raced` had been too narrow: the write that records a blocked step as
succeeded may also overlap a handler, and the model now says so.

`DomainRemoval_proofs` proves `TypeOK`, `DependentsGoFirst`, `SucceededIsMet` and `CrashNeverStrands`
for any plans that `RemovalAssumption` admits, any requests and disturbances, again by turns.
`JournalsSound` holds of memory, file and snapshots: steps succeed in the order of the plan,
and one that succeeded has its resource gone. `EveryonePlaced` and `Chained` carry this to the
actors, whose knowledge is older than the journal: who works on a step has seen all before it
succeed. `DnsWaits` is the check whether the domain is unbound, which stays true; `BootFirst`
keeps the recovery alone. `CrashNeverStrands` speaks of runs with crashes and refusals only, and
there one actor works and the file is at most one snapshot behind (`CalmIsOrderly`), so whatever
is gone has a step that says at least "running".

`MasterKeyRotation_proofs` proves `TypeOK`, `NoSecretIsLost`, `RollbackRestores` and
`AppliedKeepsEdits` for any number of changes, crashes, failures, damaged backups and late
starts; it assumes no more than the module. `Course` ties the manifest to the phase and to whether
the API may run. `Copies` is the heart: as soon as a manifest exists, the backups are copies
under the old key that its hashes vouch for, or everything is still (or again) under that key;
so whatever a crash left under the new key can be restored. `Keys` says under which key each
status leaves the stores, `Counts` that what was read and compared holds every change made,
`Left` and `Restoring` which stores a phase has done. `AppliedKeepsEdits` and `RollbackRestores`
are action properties, from the same invariant.

`DnssecRollover_proofs` proves `TypeOK`, `DelegationSurvives`, `IntentIsDurable` and
`ActivatedWhenServed` for any number of runners, any TTLs, 0 included, and any disturbances. A runner may be many stages behind the registry, so an
invariant of the registry alone is not enough: `Sound` gives each stage a meaning that
stays true for ever (the new key has been published for a TTL; the parent has left the old DS
alone), and `Recorded` and `Carried` claim it of memory, file, snapshots and every runner's copy.
`InFlight` covers the time in which a runner has decided and not yet acted, however long: a
publication may come late, when the key is already active, but only while the parent names the
old key alone. `Behind` says that no runner is ahead of the registry and that the chain ends with the
memory.

`ApplicationOperations_proofs` proves `TypeOK`, `RegistryMatchesHost`, `AppliedEnvironmentIsReal`,
`LockIsAccountedFor` and `AnsweredIsRecoverable` for any number of operations and requests, any
retention of at least two and any disturbances, under `OperationsAssumption` alone. What the
invariant says of the host is said of link, environment file and releases, and only until an
undo fails (`~host.torn`); the unit is outside it, as app_unit shows it must be. Each property
speaks of a registry file, which is what the memory was some writes ago, so the invariant is about
the whole `Chain` of a registry: file, snapshots and memory. `Named` is what all its records have
in common (a mark belongs to an operation that may hold it, the applied configuration is that of
the current release). `Agreement` compares each with the host: it matches, or it names the release
before the current one while an operation has `Landed` whose result is not yet acknowledged
(`Doubtful`); so once nothing is unsettled every record matches, the file included. `Lagging` bounds
when a record may differ from the memory at all, `Waiters` says who waits for which snapshot, so
that the executor goes on only when nothing older is left behind it; `Recorded` is what the phases
of the reconciliation have reached, `Effects` what a receipt, a success and a stored result say
of the host, `Answers` that a 202 means the mark is in every record. A failed write leaves the
file behind for ever: `Overdue` and `Behind` name the phases this can be seen in. That history and
host trim apart from each other without losing the release a rollback needs is `TrimFacts`, a lemma
about the trimmed sequence for every history, with `Built`.

What the theorems leave to TLC: that the instances are interesting (the mutants show that
each property can fail), and everything below.

Model-checked only: every liveness property (`QueuedJobFinishes`, `ResultsAreReconciled`,
`StaleLockDoesNotBlock`, `RolloverFinishes`, `ServiceReturns`, `RemovalFinishes`), since fairness
and ENABLED are out of the prover's reach. No module uses RECURSIVE operators.

## 7. Not modelled

See PROJECT.json for each component. In short: what is planned above; the contents of
payloads, documents and configuration; the host managers, which appear only through what
they answer (those of Node releases and DNSSEC keys are modelled); the web UI; in the tree as a whole
most lines are document validation, rendering, host commands and presentation, without a
protocol between actors.

In the modelled parts:

* queue: the log fields of a job, the audit wrapper (its failures are swallowed), and what exactly
  each recovery command asks of the host: its evidence is one bit, a receipt
  (`ResumeFromEvidence`) or the state of the host (`ResumeFromState`);
* provisioning: plan validation, optional steps, several operations in one file (they share the
  write chain only);
* applications: the process itself (what it runs with is what the link, the environment file and the
  unit say), static and Python types, process control, domain bindings, deletion;
* rollover: the choice of algorithm and names, caches of signatures and of key sets, several zones;
* rotation: command-line handling, the rewrapping itself (a store that cannot be unwrapped is a
  failed step), and stores under the same key that the command does not touch;
* removal: the child runtimes (suspension, mail, webmail, DNS retirement), several child domains,
  removal of a website, which calls this one.
