------------------------ MODULE ApplicationOperations ------------------------
(***************************************************************************)
(* Deployments, rollbacks and restarts of one Node application: what the   *)
(* HTTP routes enqueue and mark (core-app.js, application-deploy-queue.js),*)
(* what the host operation does, and how its stored result reaches the     *)
(* application and environment registries (job-reconciliation.js) when     *)
(* requests interleave, a registry write fails or the API crashes.         *)
(*                                                                         *)
(* The job registry is the one of DurableJobs, reduced to its durable      *)
(* statuses and to the sidecar: its mutations are atomic here.  The two    *)
(* resource registries are not: memory changes at once and a snapshot is   *)
(* queued on a promise chain that a failed write rejects for ever.         *)
(*                                                                         *)
(* Operations are numbered in the order they are enqueued, and a release   *)
(* has the number of the deployment that built it; 0 is "none".  A runtime *)
(* configuration is named by its revision.                                 *)
(***************************************************************************)
EXTENDS Integers, Sequences, FiniteSets, Functions

CONSTANTS
  MaxOps,        \* bound: operations enqueued
  Clients,       \* HTTP requests under way together
  Exec,          \* the executor, or the recovery in its place
  Nobody,        \* a request that waits for nothing but its own write
  Retention,     \* releases kept
  Disturbances,  \* which may happen: "update", "variable", "fault", "crash", "undo"
  MaxDisturbed   \* bound: configuration updates, environment changes, failed
                 \* registry writes, crashes of the API and failed undos, together

Ops   == 1 .. MaxOps
Files == {"app", "env"}
Who   == Clients \cup {Exec}

ASSUME OperationsAssumption ==
  /\ MaxOps \in Nat /\ Exec \notin Clients /\ Nobody \notin Who
  /\ Retention \in Nat /\ Retention >= 2
  /\ Disturbances \subseteq {"update", "variable", "fault", "crash", "undo"} /\ MaxDisturbed \in Nat

VARIABLES
  job,        \* the job store: per operation its status, payload and result
  unsettled,  \* the sidecar: results not acknowledged
  disk,       \* the two registry files
  mem,        \* the two registries in memory
  queue,      \* per registry: snapshots still to be written, with who waits
  broken,     \* registries whose write chain is rejected
  proc,       \* "down", "starting", "serving" or "command" (offline recovery)
  at, on,     \* per request and for the executor: where it waits, its operation
  plan,       \* per request: the payload it prepared
  host,       \* the current release and the one before, the contents of the
              \* environment file (rev, env), the deployment that wrote the systemd
              \* unit, the releases on disk, and whether an undo was left half done
  receipts,   \* operations with a private success receipt
  answered,   \* operations whose request was answered 202
  offline,    \* operations reconciled by a recovery command
  disturbed   \* disturbances so far

files    == <<job, unsettled, disk>>
process  == <<mem, queue, broken, proc, at, on, plan>>
history  == <<answered, offline>>
vars     == <<files, process, host, receipts, history, disturbed>>

NoPayload == [kind |-> "none", rel |-> 0, cur |-> 0, rev |-> 0, env |-> 0]
Payload   == [kind : {"none", "deploy", "rollback", "restart"},
              rel : Nat, cur : Nat, rev : Nat, env : Nat]
NoJob     == [st |-> "absent", pay |-> NoPayload, prev |-> 0]
Active    == {"queued", "running"}
Terminal  == {"succeeded", "failed"}

Disturb(kind) == kind \in Disturbances /\ disturbed < MaxDisturbed /\ disturbed' = disturbed + 1

InState(S) == {o \in Ops : job[o].st \in S}

-----------------------------------------------------------------------------
(* The application record.  Its `state' follows from these fields.         *)

CanDeploy(a)      == a.active = 0
CanRollBack(a, r) == a.active = 0 /\ a.cur # 0 /\ r # a.cur /\ r \in Range(a.rels)

\* What markDeployed and markRolledBack require of a stored result.
CanMarkDeployed(a, o) == a.active = o /\ job[o].prev = a.cur /\ job[o].pay.rev = a.rev
CanMarkRolledBack(a, o) ==
  /\ a.active = o /\ a.pending = job[o].pay.rel /\ job[o].prev = a.cur
  /\ job[o].pay.rel \in Range(a.rels)

FirstOf(s, n) == SubSeq(s, 1, IF Len(s) < n THEN Len(s) ELSE n)

\* The record names no release twice.
Entry(s, r)     == IF r \in Range(s) THEN <<r>> ELSE <<>>
Before(s, q, r) == \E i, k \in DOMAIN s : i < k /\ s[i] = q /\ s[k] = r
Without(s, r)   ==
  IF r \notin Range(s) THEN s
  ELSE LET i == CHOOSE i \in DOMAIN s : s[i] = r
       IN SubSeq(s, 1, i - 1) \o SubSeq(s, i + 1, Len(s))

\* trimReleaseHistory: current and previous first, then the others, all in order.
Trim(a) ==
  LET kept == IF Before(a.rels, a.prev, a.cur)
                THEN Entry(a.rels, a.prev) \o Entry(a.rels, a.cur)
                ELSE Entry(a.rels, a.cur) \o Entry(a.rels, a.prev)
  IN FirstOf(kept \o Without(Without(a.rels, a.cur), a.prev), Retention)

\* Faulty variant: the applied configuration is not updated.
SwitchRelease(a, r, rev) ==
  LET b == [a EXCEPT !.active = 0, !.pending = 0, !.prev = a.cur, !.cur = r]
  IN [b EXCEPT !.rels = Trim(b)]

\* Release r is current, with the configuration rev.
Activate(a, r, rev) ==
  LET b == [a EXCEPT !.active = 0, !.pending = 0, !.prev = a.cur, !.cur = r, !.applied = rev]
  IN [b EXCEPT !.rels = Trim(b)]

\* Faulty variants: the mark of a failed operation stays; the release that was
\* replaced is recorded for the new one.
KeepMark(a)          == [a EXCEPT !.pending = 0]
RecordReplaced(a, o) == Activate([a EXCEPT !.rels = <<a.cur>> \o @], o, a.rev)

MarkDeploying(a, o)      == [a EXCEPT !.active = o, !.pending = 0]
MarkRollingBack(a, o, r) == [a EXCEPT !.active = o, !.pending = r]
MarkFailed(a)            == [a EXCEPT !.active = 0, !.pending = 0]
MarkDeployed(a, o)       == Activate([a EXCEPT !.rels = <<o>> \o @], o, a.rev)
MarkRolledBack(a, o)     == Activate(a, job[o].pay.rel, job[job[o].pay.rel].pay.rev)

-----------------------------------------------------------------------------
(* Registry writes.                                                        *)

Wait(w, phase, o) == at' = [at EXCEPT ![w] = phase] /\ on' = [on EXCEPT ![w] = o]

\* persist(): memory first; the snapshot joins the chain.
Save(w, f, value, phase, o) ==
  /\ mem' = [mem EXCEPT ![f] = value] /\ Wait(w, phase, o)
  /\ queue' = [queue EXCEPT ![f] = Append(@, [by |-> w, value |-> value])]

\* A request that only answers once its write is done needs no place to wait.
SaveAside(f, value) ==
  /\ mem' = [mem EXCEPT ![f] = value]
  /\ queue' = [queue EXCEPT ![f] = Append(@, [by |-> Nobody, value |-> value])]

NoSave == UNCHANGED <<mem, queue>>

\* What a request or the executor does once its write is on disk, or failed.
WrittenPhase(phase) ==
  CASE phase = "activating" -> "environment"
    [] phase \in {"applying", "settling"} -> "reconciled"
    [] phase = "failing" -> "lost"
    [] OTHER -> "idle"

FailedPhase(phase) ==
  CASE phase = "marking" -> "undoing"
    [] phase \in {"activating", "applying", "settling"} -> "unreconciled"
    [] phase = "failing" -> "lost"
    [] OTHER -> "idle"

\* The head of a chain is written.  A 202 is answered after the mark is durable.
Flush(f) ==
  /\ queue[f] # <<>> /\ ~broken[f]
  /\ disk' = [disk EXCEPT ![f] = Head(queue[f]).value]
  /\ LET w == Head(queue[f]).by IN
     IF w = Nobody THEN UNCHANGED <<at, on, answered>>
     ELSE /\ Wait(w, WrittenPhase(at[w]), on[w])
          /\ answered' = IF at[w] \in {"marking", "repeating"} THEN answered \cup {on[w]} ELSE answered
  /\ queue' = [queue EXCEPT ![f] = Tail(@)]
  /\ UNCHANGED <<job, unsettled, mem, broken, proc, plan, host, receipts, offline, disturbed>>

\* A failed write rejects its chain: nothing of that registry is written again.
FlushFails(f) ==
  /\ queue[f] # <<>>
  /\ IF broken[f] THEN UNCHANGED <<broken, disturbed>>
     ELSE Disturb("fault") /\ broken' = [broken EXCEPT ![f] = TRUE]
  /\ LET w == Head(queue[f]).by IN
     IF w = Nobody THEN UNCHANGED <<at, on>> ELSE Wait(w, FailedPhase(at[w]), on[w])
  /\ queue' = [queue EXCEPT ![f] = Tail(@)]
  /\ UNCHANGED <<files, mem, proc, plan, host, receipts, history>>

-----------------------------------------------------------------------------
(* The HTTP routes.                                                        *)

App == mem["app"]
Env == mem["env"]

\* ensureResourceJobIdle and the check of activeDeploymentId.
LooksIdle == InState(Active) = {} /\ App.active = 0

\* A route reads the application and prepares the payload from what it read.
Ask(c, p) ==
  /\ proc = "serving" /\ at[c] = "idle"
  /\ plan' = [plan EXCEPT ![c] = p] /\ Wait(c, "asked", 0)
  /\ UNCHANGED <<files, mem, queue, broken, proc, host, receipts, history, disturbed>>

\* The route checks LooksIdle first, the webhook leaves that to the enqueue.
AskDeploy(c) ==
  Ask(c, [kind |-> "deploy", rel |-> 0, cur |-> App.cur, rev |-> App.rev, env |-> Env.saved])

\* Any release may be asked for; whether it is retained is checked after the
\* job is enqueued.
AskRollback(c, r) ==
  /\ LooksIdle /\ App.cur # 0 /\ r \in Range(App.rels) \cup host.dirs
  /\ Ask(c, [kind |-> "rollback", rel |-> r, cur |-> App.cur, rev |-> job[r].pay.rev,
             env |-> Env.saved])

AskRestart(c) ==
  /\ LooksIdle /\ App.cur # 0
  /\ Ask(c, [kind |-> "restart", rel |-> App.cur, cur |-> App.cur, rev |-> App.applied,
             env |-> Env.saved])

\* The job is durable; what follows up to the next wait belongs to this step.
Mark(c, o, p) ==
  CASE p.kind = "deploy" /\ CanDeploy(App) ->
         Save(c, "app", MarkDeploying(App, o), "marking", o) /\ UNCHANGED answered
    [] p.kind = "rollback" /\ CanRollBack(App, p.rel) ->
         Save(c, "app", MarkRollingBack(App, o, p.rel), "marking", o) /\ UNCHANGED answered
    [] p.kind = "restart" -> Wait(c, "idle", 0) /\ NoSave /\ answered' = answered \cup {o}
    [] OTHER -> Wait(c, "undoing", o) /\ NoSave /\ UNCHANGED answered

\* enqueue: refused while another job of the application is active or a result
\* is unsettled.
Enqueue(c, o) ==
  /\ proc = "serving" /\ at[c] = "asked"
  /\ InState(Active) = {} /\ unsettled = {}
  /\ job[o].st = "absent" /\ \A x \in 1 .. o - 1 : job[x].st # "absent"
  /\ job' = [job EXCEPT ![o] = [st |-> "queued", pay |-> plan[c], prev |-> 0]]
  /\ Mark(c, o, plan[c]) /\ plan' = [plan EXCEPT ![c] = NoPayload]
  /\ UNCHANGED <<unsettled, disk, broken, proc, host, receipts, offline, disturbed>>

\* A webhook delivers again, with the idempotency key of a deployment: the job is
\* found, and marked if a crash came before its mark.  Any other work under the same
\* key is refused.
Redeliver(c, o) ==
  /\ proc = "serving" /\ at[c] = "idle" /\ unsettled = {} /\ App.active = 0
  /\ job[o].st \in Active /\ job[o].pay.kind = "deploy"
  /\ job[o].pay.rev = App.rev /\ job[o].pay.env = Env.saved
  /\ Save(c, "app", MarkDeploying(App, o), "repeating", o)
  /\ UNCHANGED <<files, broken, proc, plan, host, receipts, history, disturbed>>

EnqueueRefused(c) ==
  /\ proc = "serving" /\ at[c] = "asked"
  /\ InState(Active) # {} \/ unsettled # {}
  /\ Wait(c, "idle", 0) /\ plan' = [plan EXCEPT ![c] = NoPayload]
  /\ UNCHANGED <<files, mem, queue, broken, proc, host, receipts, history, disturbed>>

\* The mark failed: the route cancels its job, if it is still queued.
Undo(c) ==
  /\ proc = "serving" /\ at[c] = "undoing" /\ Wait(c, "idle", 0)
  /\ job' = IF job[on[c]].st = "queued" /\ unsettled = {}
              THEN [job EXCEPT ![on[c]].st = "cancelled"] ELSE job
  /\ UNCHANGED <<unsettled, disk, mem, queue, broken, proc, plan, host, receipts, history, disturbed>>

\* POST /api/jobs/:jobId/cancel.
CancelJob(o) ==
  /\ proc = "serving"
  /\ job[o].st = "queued" /\ unsettled = {}
  /\ job' = [job EXCEPT ![o].st = "cancelled"]
  /\ IF App.active = o THEN SaveAside("app", MarkFailed(App)) ELSE NoSave
  /\ UNCHANGED <<at, on>>
  /\ UNCHANGED <<unsettled, disk, broken, proc, plan, host, receipts, history, disturbed>>

\* updateNodeConfiguration: refused while an operation is marked.
UpdateConfiguration ==
  /\ proc = "serving" /\ App.active = 0
  /\ Disturb("update")
  /\ SaveAside("app", [App EXCEPT !.rev = @ + 1])
  /\ UNCHANGED <<files, at, on, broken, proc, plan, host, receipts, history>>

\* setVariable: the environment may change at any time.
SetVariable ==
  /\ proc = "serving"
  /\ Disturb("variable")
  /\ SaveAside("env", [Env EXCEPT !.saved = @ + 1])
  /\ UNCHANGED <<files, at, on, broken, proc, plan, host, receipts, history>>

-----------------------------------------------------------------------------
(* The host operation.  It refuses a release or an environment other than  *)
(* the payload's, and undoes itself when the new process is not healthy.   *)
(* The environment file holds the payload's runtime configuration and      *)
(* variables.  The unit the service is started from is written by a        *)
(* deployment only, from its configuration, and never restored.            *)

\* cleanupOldReleases: the releases base stay, then the newest directories.
KeptReleases(dirs, base) ==
  (base \cap dirs) \cup {r \in dirs \ base :
    Cardinality({s \in dirs \ base : s > r}) < Retention - Cardinality(base)}

\* The link names release r, beside the payload's environment file and a unit.
SwitchTo(r, p, unit, dirs) ==
  [host EXCEPT !.cur = r, !.prev = host.cur, !.rev = p.rev, !.env = p.env,
               !.unit = unit, !.dirs = dirs]

\* Retention cleanup is best effort.
NodeDeployed(o, p) ==
  LET all  == host.dirs \cup {o}
      kept == KeptReleases(all, {o, host.cur} \ {0})
  IN {SwitchTo(o, p, o, d) : d \in {all, kept}}

NodeRolledBack(p) ==
  IF p.rel \in host.dirs /\ host.cur = p.cur /\ host.cur # p.rel
    THEN {SwitchTo(p.rel, p, host.unit, host.dirs)} ELSE {}

NodeRestarted(p) ==
  IF host.cur = p.rel THEN {[host EXCEPT !.rev = p.rev, !.env = p.env]} ELSE {}

\* Faulty variant: the environment saved now is used, whatever was queued.
MaterializeLatest(o) == [job[o].pay EXCEPT !.env = Env.saved]

\* materialize: "none" when the environment changed after the job was queued.
Materialize(o) == IF Env.saved = job[o].pay.env THEN job[o].pay ELSE NoPayload

HostOutcomes(o) ==
  LET p == Materialize(o) IN
  CASE p.kind = "deploy"   -> NodeDeployed(o, p)
    [] p.kind = "rollback" -> NodeRolledBack(p)
    [] p.kind = "restart"  -> NodeRestarted(p)
    [] OTHER -> {}

-----------------------------------------------------------------------------
(* The executor.                                                           *)

Worker(phases) == at[Exec] \in phases
Current == on[Exec]

Claim(o) ==
  /\ proc = "serving" /\ Worker({"idle"}) /\ unsettled = {} /\ job[o].st = "queued"
  /\ job' = [job EXCEPT ![o].st = "running"] /\ Wait(Exec, "claimed", o)
  /\ UNCHANGED <<unsettled, disk, mem, queue, broken, proc, plan, host, receipts, history, disturbed>>

\* A failure on the way to h is undone: link, environment file and releases are as
\* before, the unit is not.
Undone(h) == [host EXCEPT !.unit = h.unit]

\* The undo fails as well (node_rollback_failed, node_rollback_restore_failed,
\* node_restart_restore_failed): the link, the environment file or the new release
\* stays.  The host is torn when the link or the file is not as before.
LeftBehind(h) ==
  {[host EXCEPT !.cur = c, !.rev = f.rev, !.env = f.env, !.unit = IF c = h.cur THEN h.unit ELSE u,
                !.dirs = d, !.torn = @ \/ <<c, f.rev, f.env>> # <<host.cur, host.rev, host.env>>] :
     c \in {host.cur, h.cur}, f \in {host, h}, u \in {host.unit, h.unit},
     d \in {host.dirs, host.dirs \cup {h.cur}}}

\* A success may leave a receipt.  A failure may come before the host is touched.
Execute ==
  /\ Worker({"claimed"})
  /\ \/ /\ host' \in HostOutcomes(Current) /\ Wait(Exec, "succeeded", Current)
        /\ receipts' \in {receipts, receipts \cup {Current}} /\ UNCHANGED disturbed
     \/ /\ Wait(Exec, "failed", Current) /\ UNCHANGED receipts
        /\ \/ UNCHANGED <<host, disturbed>>
           \/ \E h \in HostOutcomes(Current) :
                \/ host' = Undone(h) /\ UNCHANGED disturbed
                \/ host' \in LeftBehind(h) /\ Disturb("undo")
  /\ UNCHANGED <<files, mem, queue, broken, proc, plan, history>>

\* The journal entry and the terminal result.
Complete ==
  /\ Worker(Terminal)
  /\ job' = [job EXCEPT ![Current].st = at[Exec], ![Current].prev = host.prev]
  /\ unsettled' = unsettled \cup {Current} /\ Wait(Exec, "terminal", Current)
  /\ UNCHANGED <<disk, mem, queue, broken, proc, plan, host, receipts, history, disturbed>>

-----------------------------------------------------------------------------
(* Reconciliation of a stored result, by the executor, at startup and by   *)
(* the recovery commands.                                                  *)

ReleaseOf(o) == IF job[o].pay.kind = "deploy" THEN o ELSE job[o].pay.rel

Untouched == UNCHANGED <<files, broken, proc, plan, host, receipts, history, disturbed>>

\* reconcileApplicationJob up to its first write.
ReconcileApplication ==
  /\ Worker({"terminal"}) /\ Untouched
  /\ LET o == Current
         kind == job[o].pay.kind
     IN
     CASE job[o].st = "failed" /\ App.active # o -> Wait(Exec, "reconciled", o) /\ NoSave
       [] job[o].st = "failed" /\ App.active = o ->
            Save(Exec, "app", MarkFailed(App), "settling", o)
       [] OTHER ->
            CASE kind = "restart" \/ (App.active = 0 /\ App.cur = ReleaseOf(o)) ->
                   Wait(Exec, "environment", o) /\ NoSave
              [] kind = "deploy" /\ CanMarkDeployed(App, o) ->
                   Save(Exec, "app", MarkDeployed(App, o), "activating", o)
              [] kind = "rollback" /\ CanMarkRolledBack(App, o) ->
                   Save(Exec, "app", MarkRolledBack(App, o), "activating", o)
              [] OTHER -> Wait(Exec, "unreconciled", o) /\ NoSave

\* markApplied: what the process now runs.  The commands have no environment
\* registry and leave it out.
MarkApplied ==
  /\ Worker({"environment"}) /\ Untouched
  /\ LET o    == Current
         new  == [Env EXCEPT !.applied = job[o].pay.env, !.rel = ReleaseOf(o)]
         fits == job[o].pay.env <= Env.saved /\ Env.applied <= job[o].pay.env
     IN CASE proc = "command" \/ (fits /\ new = Env) -> Wait(Exec, "reconciled", o) /\ NoSave
          [] proc # "command" /\ fits /\ new # Env -> Save(Exec, "env", new, "applying", o)
          [] OTHER -> Wait(Exec, "unreconciled", o) /\ NoSave

\* reconcileCompletedJob's catch branch: the failure is recorded on the
\* application, and thrown.
RecordFailure ==
  /\ Worker({"unreconciled"}) /\ Untouched
  /\ IF App.active = Current
       THEN Save(Exec, "app", MarkFailed(App), "failing", Current)
       ELSE Wait(Exec, "lost", Current) /\ NoSave

Vanish ==
  /\ proc' = "down" /\ mem' = disk
  /\ queue' = [f \in Files |-> <<>>] /\ broken' = [f \in Files |-> FALSE]
  /\ at' = [w \in Who |-> "idle"] /\ on' = [w \in Who |-> 0]
  /\ plan' = [c \in Clients |-> NoPayload]

\* An unreconciled result halts the executor; startup and the commands exit.
GiveUp ==
  /\ Worker({"lost"})
  /\ IF proc = "serving" THEN Wait(Exec, "halted", 0) /\ NoSave /\ UNCHANGED <<broken, proc, plan>>
                         ELSE Vanish
  /\ UNCHANGED <<files, host, receipts, history, disturbed>>

Acknowledge ==
  /\ Worker({"reconciled"})
  /\ unsettled' = unsettled \ {Current}
  /\ IF proc = "command"
       THEN Vanish /\ offline' = offline \cup {Current}
       ELSE Wait(Exec, "idle", 0) /\ NoSave /\ UNCHANGED <<broken, proc, plan, offline>>
  /\ UNCHANGED <<job, disk, host, receipts, answered, disturbed>>

-----------------------------------------------------------------------------
(* Crash, start and offline recovery.                                      *)

Crash ==
  /\ proc # "down" /\ Disturb("crash")
  /\ Vanish
  /\ UNCHANGED <<files, host, receipts, history>>

\* The operator restarts an API whose executor has halted.
StopHalted ==
  /\ Worker({"halted"}) /\ Vanish
  /\ UNCHANGED <<files, host, receipts, history, disturbed>>

Boot ==
  /\ proc = "down" /\ proc' = "starting"
  /\ unsettled' = unsettled \cup InState({"running"})
  /\ UNCHANGED <<job, disk, mem, queue, broken, at, on, plan, host, receipts, history, disturbed>>

\* reconcileStartupRecovery: stored results first.
ResumeAtStart(o) ==
  /\ proc = "starting" /\ Worker({"idle"})
  /\ o \in unsettled /\ job[o].st \in Terminal
  /\ Wait(Exec, "terminal", o) /\ NoSave /\ Untouched

\* A running job that nothing resolved keeps the API down.
StartRuntime ==
  /\ proc = "starting" /\ Worker({"idle"}) /\ unsettled \cap InState(Terminal) = {}
  /\ IF unsettled = {}
       THEN proc' = "serving" /\ NoSave /\ UNCHANGED <<broken, at, on, plan>>
       ELSE Vanish
  /\ UNCHANGED <<files, host, receipts, history, disturbed>>

\* Faulty variant: the host is compared with the release before the current one.
CompareWithPrevious(a, o) ==
  /\ a.active = o /\ a.pending = 0
  /\ host.prev = a.prev /\ host.cur = o

\* What the recovery commands require of the application record and the host.
DeploymentEvidence(a, o) ==
  /\ a.active = o /\ a.pending = 0
  /\ host.prev = a.cur /\ host.cur = o

RollbackEvidence(a, o) ==
  /\ a.active = o /\ a.pending = job[o].pay.rel /\ a.cur = job[o].pay.cur
  /\ host.prev = a.cur /\ host.cur = job[o].pay.rel

RestartEvidence(a, o) ==
  a.active = 0 /\ a.pending = 0 /\ a.cur = job[o].pay.rel /\ host.cur = a.cur

Evidence(a, o) ==
  CASE job[o].pay.kind = "deploy"   -> DeploymentEvidence(a, o)
    [] job[o].pay.kind = "rollback" -> RollbackEvidence(a, o)
    [] OTHER -> RestartEvidence(a, o)

\* `job-recovery recover-node-*': a running job is completed from its receipt.
RecoverRunning(o) ==
  /\ proc = "down" /\ job[o].st = "running" /\ o \in receipts /\ Evidence(App, o)
  /\ job' = [job EXCEPT ![o].st = "succeeded", ![o].prev = host.prev]
  /\ unsettled' = unsettled \cup {o}
  /\ proc' = "command" /\ Wait(Exec, "terminal", o)
  /\ UNCHANGED <<disk, mem, queue, broken, plan, host, receipts, history, disturbed>>

\* `job-recovery reconcile'.
ReconcileOffline(o) ==
  /\ proc = "down" /\ o \in unsettled /\ job[o].st \in Terminal
  /\ proc' = "command" /\ Wait(Exec, "terminal", o)
  /\ UNCHANGED <<files, mem, queue, broken, plan, host, receipts, history, disturbed>>

-----------------------------------------------------------------------------
Init ==
  /\ job = [o \in Ops |-> NoJob] /\ unsettled = {}
  /\ disk = [app |-> [active |-> 0, pending |-> 0, cur |-> 0, prev |-> 0, rels |-> <<>>,
                      rev |-> 1, applied |-> 0],
             env |-> [saved |-> 0, applied |-> 0, rel |-> 0]]
  /\ mem = disk
  /\ queue = [f \in Files |-> <<>>] /\ broken = [f \in Files |-> FALSE]
  /\ proc = "down"
  /\ at = [w \in Who |-> "idle"] /\ on = [w \in Who |-> 0]
  /\ plan = [c \in Clients |-> NoPayload]
  /\ host = [cur |-> 0, prev |-> 0, rev |-> 0, env |-> 0, unit |-> 0, dirs |-> {}, torn |-> FALSE]
  /\ receipts = {} /\ answered = {} /\ offline = {}
  /\ disturbed = 0

Requests(c) ==
  \/ AskDeploy(c) \/ AskRestart(c) \/ EnqueueRefused(c) \/ Undo(c)
  \/ \E o \in Ops : AskRollback(c, o) \/ Enqueue(c, o) \/ Redeliver(c, o)

Work == Execute \/ Complete \/ ReconcileApplication \/ MarkApplied \/ RecordFailure
          \/ GiveUp \/ Acknowledge \/ \E o \in Ops : Claim(o) \/ ResumeAtStart(o)

Write   == \E f \in Files : Flush(f) \/ FlushFails(f)
Service == Boot \/ StartRuntime \/ StopHalted
Operator == \E o \in Ops : RecoverRunning(o) \/ ReconcileOffline(o)

Changes == UpdateConfiguration \/ SetVariable \/ \E o \in Ops : CancelJob(o)

Next == (\E c \in Clients : Requests(c)) \/ Changes \/ Work \/ Write \/ Service \/ Operator \/ Crash

Spec == Init /\ [][Next]_vars

-----------------------------------------------------------------------------
(* Safety.                                                                 *)

AppRecord == [active : Nat, pending : Nat, cur : Nat, prev : Nat, rels : Seq(Ops),
              rev : Nat, applied : Nat]
EnvRecord == [saved : Nat, applied : Nat, rel : Nat]

TypeOK ==
  /\ job \in [Ops -> [st : {"absent", "cancelled"} \cup Active \cup Terminal,
                      pay : Payload, prev : Nat]]
  /\ unsettled \subseteq Ops /\ receipts \subseteq Ops
  /\ \A s \in {disk, mem} : s.app \in AppRecord /\ s.env \in EnvRecord
  /\ proc \in {"down", "starting", "serving", "command"}
  /\ at \in [Who -> {"idle", "asked", "marking", "repeating", "undoing", "claimed", "succeeded", "failed",
                    "terminal", "activating", "environment", "applying", "settling",
                    "reconciled", "unreconciled", "failing", "lost", "halted"}]
  /\ on \in [Who -> 0 .. MaxOps] /\ plan \in [Clients -> Payload]
  /\ answered \subseteq Ops /\ offline \subseteq Ops

\* No host work is under way and every stored result is acknowledged.
Settled == unsettled = {} /\ InState({"running"}) = {}

\* Once every result is acknowledged, and as long as no undo on the host has failed,
\* the registry file names the release the host links and the configuration revision
\* in its environment file, whatever crashed, failed, was retried or was recovered
\* offline; and the release it holds for a rollback is still on the host, though host
\* and registry trim their histories at different times.
RegistryMatchesHost ==
  Settled /\ ~host.torn =>
    /\ disk["app"].cur = host.cur /\ disk["app"].applied = host.rev
    /\ {disk["app"].cur, disk["app"].prev} \ {0} \subseteq
         host.dirs \cap Range(disk["app"].rels)

\* The environment revision recorded as applied is the one in the environment file of
\* the running release, as long as no undo on the host has failed and no result was
\* reconciled by a command, which has no environment registry and leaves it out.
AppliedEnvironmentIsReal ==
  Settled /\ ~host.torn /\ offline = {} /\ host.cur # 0
    => disk["env"].applied = host.env /\ disk["env"].rel = host.cur

\* docs/website-workspace.md: a deployed application retains its active runtime until a
\* successful deploy applies the desired settings, and a rollback uses the snapshot of
\* its release: the unit the service is started from holds the configuration the
\* registry records as applied.
RunsRecordedConfiguration ==
  Settled /\ ~host.torn /\ host.cur # 0 => disk["app"].applied = job[host.unit].pay.rev

\* An acknowledged operation never holds the application: only a cancelled one
\* can leave its mark behind, when the API dies before the mark is taken back.
LockIsAccountedFor ==
  disk["app"].active # 0 =>
    LET o == disk["app"].active IN job[o].st \in Active \cup {"cancelled"} \/ o \in unsettled

\* An operation whose request was answered, and that succeeded on the host with a
\* receipt, can be recovered after a crash: its mark is on disk and still fits, as long
\* as no undo on the host has failed before.
AnsweredIsRecoverable ==
  proc = "down" /\ ~host.torn =>
    \A o \in answered \cap receipts :
      job[o].st = "running" /\ disk["app"].active \in {0, o} => Evidence(disk["app"], o)

-----------------------------------------------------------------------------
(* Liveness.                                                               *)

Fairness == WF_vars(Work) /\ WF_vars(Write) /\ WF_vars(Service)
FairSpec == Spec /\ Fairness

\* apps/api/test/job-reconciliation-failure.test.js: a failed reconciliation
\* stays pending, and applying the same stored result again settles it.
StoredResultsAreReconciled ==
  \A o \in Ops : o \in unsettled /\ job[o].st \in Terminal ~> o \notin unsettled

=============================================================================
