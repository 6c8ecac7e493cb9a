------------------------- MODULE WebsiteProvisioning -------------------------
(***************************************************************************)
(* One website provisioning operation: its durable step journal            *)
(* (website-provisioning-registry.js) and the orchestrator whose HTTP      *)
(* requests (continue, retry, compensate) and whose startup pass drive it. *)
(*                                                                         *)
(* Nothing serialises the requests.  One of them runs from one I/O wait    *)
(* (a write of the journal, a call of a handler) to the next without being *)
(* interrupted, and this is one step here; other requests run between two  *)
(* waits.  The registry changes its memory at once and queues a snapshot   *)
(* of it on a promise chain; a rejected chain never writes again.          *)
(*                                                                         *)
(* The step handlers are external: all that is kept of them is how far the *)
(* host is from the step's goal and what they answer.                      *)
(***************************************************************************)
EXTENDS Naturals, Sequences

CONSTANTS
  Last,          \* the plan has the steps 1 .. Last, every one required
  Requests,      \* requests that can be under way together
  Compensable,   \* steps planned with compensation "pending"
  Blockers,      \* steps whose apply may answer satisfied: false
  Retryable,     \* steps whose inspection may answer retryable: true
  MaxRetries,    \* bound: retry requests
  MaxFaults,     \* bound: failed journal writes
  MaxCrashes     \* bound: crashes of the API

Steps == 1 .. Last

ASSUME PlanAssumption ==
  /\ Last \in Nat \ {0} /\ MaxRetries \in Nat /\ MaxFaults \in Nat /\ MaxCrashes \in Nat
  /\ Compensable \subseteq Steps /\ Blockers \subseteq Steps /\ Retryable \subseteq Steps

VARIABLES
  disk,     \* the journal file
  mem,      \* the registry's state, same shape
  queue,    \* writeChain: snapshots to be written, each with the request awaiting it
  broken,   \* writeChain is rejected
  up,       \* "down", "starting" (runtime.init) or "serving"
  at, on, seen,  \* per request: what it awaits, its step, the inspection's answer
  host,     \* per step, how far the host is from its goal
  \* history and budgets
  tries,    \* applications started, per step
  retries,  \* retries confirmed, per step
  raced,    \* steps settled by an inspection while a handler was changing them
  faults, crashes

process == <<mem, queue, broken, up, at, on, seen>>
history == <<tries, retries, raced>>
vars    == <<disk, process, host, history, faults, crashes>>

StepState == {"absent", "pending", "applying", "blocked", "succeeded", "failed",
              "compensating", "compensated"}
CompState == {"not_required", "pending", "applying", "succeeded", "failed"}
Journal   == [st : [Steps -> StepState], comp : [Steps -> CompState], err : [Steps -> BOOLEAN]]

\* create(): every step pending, with the compensation its plan asks for.
Blank(st) ==
  [st   |-> [s \in Steps |-> st],
   comp |-> [s \in Steps |-> IF s \in Compensable THEN "pending" ELSE "not_required"],
   err  |-> [s \in Steps |-> FALSE]]

To(j, s, st)        == [j EXCEPT !.st[s] = st]
ToErr(j, s, st, e)  == [j EXCEPT !.st[s] = st, !.err[s] = e]
ToComp(j, s, st, c) == [j EXCEPT !.st[s] = st, !.comp[s] = c]

In(j, S)    == {s \in Steps : j.st[s] \in S}
First(S)    == CHOOSE s \in S : \A t \in S : s <= t
Interrupted(j) == In(j, {"applying", "compensating"})

\* blocksEarlierCompensation: a later step that may still own host mutations.
Live(j, t) ==
  \/ j.st[t] \in {"applying", "compensating"}
  \/ j.st[t] \in {"succeeded", "failed"} /\ j.comp[t] # "not_required"

-----------------------------------------------------------------------------
(* Where a request waits.                                                  *)

Inspecting == {"interrupted", "blocked", "undone"}
Saving     == {"beginning", "ending", "retrying", "refreshing", "settling",
               "compBeginning", "compEnding", "finishing"}
Phase      == {"idle", "applying", "compensating"} \cup Inspecting \cup Saving
Answer     == {"none", "met", "unmet", "retryable", "unknown"}

Wait(r, phase, s) ==
  /\ at' = [at EXCEPT ![r] = phase] /\ on' = [on EXCEPT ![r] = s]
  /\ seen' = [seen EXCEPT ![r] = "none"]

\* The request answers its client, normally or with an error.
Done(r) == Wait(r, "idle", 1)

\* Faulty variant: the chain goes on after a failed write.
SaveAnyway(r, q, j, phase, s) ==
  mem' = j /\ Wait(r, phase, s) /\ queue' = Append(q, [by |-> r, store |-> j])

\* persist(): memory first, then the chain q; a rejected chain takes nothing.
Save(r, q, j, phase, s) ==
  /\ mem' = j /\ Wait(r, phase, s)
  /\ queue' = IF broken THEN q ELSE Append(q, [by |-> r, store |-> j])

Return(r, q) == mem' = mem /\ queue' = q /\ Done(r)

\* Faulty variant: an interrupted step is applied again.
RunNextAgain(r, q, j) ==
  LET open == In(j, {"applying", "pending"}) IN
  IF open = {} THEN mem' = j /\ queue' = q /\ Done(r)
  ELSE Save(r, q, ToErr(j, First(open), "applying", FALSE), "beginning", First(open))

\* runNext: what is interrupted comes first and is only inspected; then what is
\* blocked; a failed or compensated step stops the plan; a pending one is begun.
RunNext(r, q, j) ==
  LET applying == In(j, {"applying"})
      undoing  == In(j, {"compensating"})
      blocked  == In(j, {"blocked"})
      pending  == In(j, {"pending"})
      Look(phase, S) == mem' = j /\ queue' = q /\ Wait(r, phase, First(S))
  IN CASE applying # {} -> Look("interrupted", applying)
       [] applying = {} /\ undoing # {} -> Look("undone", undoing)
       [] Interrupted(j) = {} /\ blocked # {} -> Look("blocked", blocked)
       [] In(j, {"succeeded", "pending"}) = Steps /\ pending # {} ->
            Save(r, q, ToErr(j, First(pending), "applying", FALSE), "beginning", First(pending))
       [] OTHER -> mem' = j /\ queue' = q /\ Done(r)

-----------------------------------------------------------------------------
(* Registry transitions as the orchestrator uses them.                     *)

\* failStep, blockStep: only an applying step; else the error ends the request.
FailStep(r, s, phase) ==
  IF mem.st[s] = "applying" THEN Save(r, queue, ToErr(mem, s, "failed", TRUE), phase, s)
                            ELSE Return(r, queue)

BlockStep(r, q, s, phase) ==
  IF mem.st[s] = "applying" THEN Save(r, q, ToErr(mem, s, "blocked", TRUE), phase, s)
                            ELSE Return(r, q)

\* completeStep: a step that already succeeded answers without a write.
CompleteStep(r, q, s, phase) ==
  IF mem.st[s] = "applying" THEN Save(r, q, ToErr(mem, s, "succeeded", FALSE), phase, s)
                            ELSE Return(r, q)

CompleteCompensation(r, s, phase) ==
  IF mem.st[s] = "compensating"
    THEN Save(r, queue, ToComp(mem, s, "compensated", "succeeded"), phase, s)
    ELSE Return(r, queue)

\* A failed compensation leaves the step in the state it was compensated from.
Restored(j, s) == ToComp(j, s, IF j.err[s] THEN "failed" ELSE "succeeded", "failed")

FailCompensation(r, s) ==
  IF mem.st[s] = "compensating" THEN Save(r, queue, Restored(mem, s), "compEnding", s)
                                ELSE Return(r, queue)

-----------------------------------------------------------------------------
(* Requests.                                                               *)

Serving(r) == up = "serving" /\ at[r] = "idle"

same == <<disk, broken, up, faults, crashes>>

\* The site-creation request: its plan is pushed and persisted; a repeated one
\* finds it and changes nothing.
Create(r) ==
  /\ Serving(r) /\ In(mem, {"absent"}) = Steps
  /\ Save(r, queue, Blank("pending"), "finishing", 1)
  /\ UNCHANGED <<same, host, history>>

Continue(r) ==
  /\ Serving(r) /\ In(mem, {"absent"}) = {} /\ RunNext(r, queue, mem)
  /\ UNCHANGED <<same, host, history>>

\* Faulty variant: any step that is not being worked on is reset.
RetryAny(r) ==
  \E s \in Steps :
    /\ Serving(r) /\ mem.st[s] \in {"failed", "succeeded", "blocked"}
    /\ retries[s] < MaxRetries
    /\ retries' = [retries EXCEPT ![s] = @ + 1]
    /\ Save(r, queue, ToErr(mem, s, "pending", FALSE), "retrying", s)
    /\ UNCHANGED <<same, host, tries, raced>>

\* retryStep: a failed step whose compensation never started is pending again.
Retry(r) ==
  \E s \in Steps :
    /\ Serving(r) /\ mem.st[s] = "failed" /\ mem.comp[s] \in {"pending", "not_required"}
    /\ retries[s] < MaxRetries
    /\ retries' = [retries EXCEPT ![s] = @ + 1]
    /\ Save(r, queue, ToErr(mem, s, "pending", FALSE), "retrying", s)
    /\ UNCHANGED <<same, host, tries, raced>>

MayCompensate(s) ==
  mem.st[s] \in {"succeeded", "failed"} /\ mem.comp[s] \in {"pending", "failed"}

\* Faulty variant: the order of the plan is not looked at.
CompensateAny(r) ==
  \E s \in Steps :
    /\ Serving(r) /\ MayCompensate(s)
    /\ Save(r, queue, ToComp(mem, s, "compensating", "applying"), "compBeginning", s)
    /\ UNCHANGED <<same, host, history>>

\* compensateStep: one that is under way is inspected, never repeated.
Compensate(r) ==
  /\ Serving(r)
  /\ \E s \in Compensable :
       \/ mem.st[s] = "compensating" /\ Wait(r, "undone", s) /\ UNCHANGED <<mem, queue>>
       \/ /\ MayCompensate(s) /\ \A t \in Steps : t > s => ~Live(mem, t)
          /\ Save(r, queue, ToComp(mem, s, "compensating", "applying"), "compBeginning", s)
  /\ UNCHANGED <<same, host, history>>

-----------------------------------------------------------------------------
(* History: which steps an inspection settled under a running handler.     *)

\* Another request is inside a handler of the step, or about to be.
Busy(r) ==
  \E q \in Requests \ {r} :
    on[q] = on[r] /\ at[q] \in {"beginning", "applying", "compBeginning", "compensating"}

Noted(r) == raced' = IF Busy(r) /\ mem' # mem THEN raced \cup {on[r]} ELSE raced

-----------------------------------------------------------------------------
(* The journal file.                                                       *)

Vanish ==
  /\ up' = "down" /\ mem' = Blank("absent") /\ queue' = <<>> /\ broken' = FALSE
  /\ at' = [r \in Requests |-> "idle"] /\ on' = [r \in Requests |-> 1]
  /\ seen' = [r \in Requests |-> "none"]

\* What a request does once its write, the head of the chain, has been renamed
\* in place; q is the rest of the chain.
AfterWrite(r, q) ==
  LET s == on[r] IN
  CASE at[r] = "beginning" ->
         mem' = mem /\ queue' = q /\ Wait(r, "applying", s)
    [] at[r] = "compBeginning" ->
         mem' = mem /\ queue' = q /\ Wait(r, "compensating", s)
    [] at[r] = "retrying"   -> RunNext(r, q, mem)
    [] at[r] = "refreshing" -> BlockStep(r, q, s, "finishing")
    [] at[r] = "settling"   -> CompleteStep(r, q, s, "finishing")
    [] OTHER -> Return(r, q)

\* Faulty variant: a failed write is swallowed.
WrittenOrNot ==
  /\ queue # <<>>
  /\ disk' \in {disk, Head(queue).store} /\ AfterWrite(Head(queue).by, Tail(queue))
  /\ UNCHANGED <<broken, up, host, history, faults, crashes>>

Written ==
  /\ queue # <<>>
  /\ disk' = Head(queue).store /\ AfterWrite(Head(queue).by, Tail(queue))
  /\ tries' = [s \in Steps |->
       IF at[Head(queue).by] = "beginning" /\ on[Head(queue).by] = s THEN tries[s] + 1 ELSE tries[s]]
  /\ IF at[Head(queue).by] \in {"refreshing", "settling"} THEN Noted(Head(queue).by)
                                                         ELSE UNCHANGED raced
  /\ UNCHANGED <<broken, up, host, retries, faults, crashes>>

\* Faulty variant: the requests behind the failed write are never answered.
WriteFailsSilently ==
  /\ queue # <<>> /\ faults > 0 /\ faults' = faults - 1
  /\ queue' = <<>>
  /\ UNCHANGED <<disk, mem, broken, up, at, on, seen, host, history, crashes>>

\* A failed write rejects the chain and every request that waits on it.
WriteFails ==
  /\ queue # <<>> /\ faults > 0 /\ faults' = faults - 1
  /\ broken' = TRUE /\ queue' = <<>>
  /\ UNCHANGED <<disk, mem, up, at, on, seen, host, history, crashes>>

\* persist() rejected.  Inside a try the step is failed, in memory at most: this
\* write is rejected as well.  A startup pass that throws ends the process.
Rejected(r) ==
  /\ broken /\ at[r] \in Saving
  /\ LET s == on[r] IN
     IF up = "starting" THEN Vanish
     ELSE /\ Done(r) /\ UNCHANGED <<queue, broken, up>>
          /\ mem' = CASE at[r] = "ending" /\ mem.st[s] = "applying" -> ToErr(mem, s, "failed", TRUE)
                      [] at[r] = "compEnding" /\ mem.st[s] = "compensating" -> Restored(mem, s)
                      [] OTHER -> mem
  /\ UNCHANGED <<disk, host, history, faults, crashes>>

-----------------------------------------------------------------------------
(* Handlers at work on the host.                                           *)

\* A handler is on its way: the goal may be reached well before it returns.
HostWork(r) ==
  /\ \/ at[r] = "applying" /\ \E h \in {"partial", "met"} : host' = [host EXCEPT ![on[r]] = h]
     \/ at[r] = "compensating" /\ \E h \in {"partial", "none"} : host' = [host EXCEPT ![on[r]] = h]
  /\ UNCHANGED <<disk, process, history, faults, crashes>>

\* The handler ends between an inspection of the step and its consequence.
Outdates(r) ==
  raced' = IF \E q \in Requests : on[q] = on[r] /\ seen[q] \in {"met", "retryable"}
             THEN raced \cup {on[r]} ELSE raced

\* Faulty variant: a step counts as done whatever its handler answers.
AppliedAnyway(r) ==
  /\ at[r] = "applying" /\ UNCHANGED host /\ Outdates(r)
  /\ CompleteStep(r, queue, on[r], "ending") /\ UNCHANGED <<same, tries, retries>>

\* apply returns evidence, answers satisfied: false, or throws.
Applied(r) ==
  /\ at[r] = "applying"
  /\ LET s == on[r] IN
     \/ host' = [host EXCEPT ![s] = "met"] /\ CompleteStep(r, queue, s, "ending")
     \/ s \in Blockers /\ UNCHANGED host /\ BlockStep(r, queue, s, "ending")
     \/ /\ \E h \in {host[s], "none"} : host' = [host EXCEPT ![s] = h]
        /\ FailStep(r, s, "finishing")
  /\ Outdates(r) /\ UNCHANGED <<same, tries, retries>>

Compensated(r) ==
  /\ at[r] = "compensating"
  /\ LET s == on[r] IN
     \/ host' = [host EXCEPT ![s] = "none"] /\ CompleteCompensation(r, s, "compEnding")
     \/ UNCHANGED host /\ FailCompensation(r, s)
  /\ Outdates(r) /\ UNCHANGED <<same, tries, retries>>

\* inspect / inspectCompensation read the host; the answer takes time to arrive.
Inspect(r) ==
  /\ at[r] \in Inspecting /\ seen[r] = "none"
  /\ LET s == on[r]
         satisfied == IF at[r] = "undone" THEN host[s] = "none" ELSE host[s] = "met" IN
     \E a \in IF satisfied THEN {"met", "unknown"}
              ELSE {"unmet", "unknown"} \cup {x \in {"retryable"} : s \in Retryable} :
       seen' = [seen EXCEPT ![r] = a]
  /\ UNCHANGED <<disk, mem, queue, broken, up, at, on, host, history, faults, crashes>>

\* reconcileInterrupted
ReconcileInterrupted(r) ==
  /\ at[r] = "interrupted" /\ seen[r] # "none"
  /\ CASE seen[r] = "met"       -> CompleteStep(r, queue, on[r], "finishing")
       [] seen[r] = "retryable" -> FailStep(r, on[r], "finishing")
       [] OTHER                 -> Return(r, queue)
  /\ Noted(r) /\ UNCHANGED <<same, host, tries, retries>>

\* reconcileInterruptedCompensation
ReconcileUndone(r) ==
  /\ at[r] = "undone" /\ seen[r] # "none"
  /\ IF seen[r] = "met" THEN CompleteCompensation(r, on[r], "finishing") ELSE Return(r, queue)
  /\ Noted(r) /\ UNCHANGED <<same, host, tries, retries>>

\* reconcileBlocked: beginStep accepts a pending, a blocked or an applying step,
\* the last one without a write.
ReconcileBlocked(r) ==
  /\ at[r] = "blocked" /\ seen[r] # "none"
  /\ LET s == on[r]  met == seen[r] = "met" IN
     IF seen[r] = "unknown" \/ mem.st[s] \notin {"pending", "blocked", "applying"}
       THEN Return(r, queue)
     ELSE IF mem.st[s] = "applying"
       THEN IF met THEN CompleteStep(r, queue, s, "finishing")
                   ELSE BlockStep(r, queue, s, "finishing")
     ELSE Save(r, queue, ToErr(mem, s, "applying", FALSE), IF met THEN "settling" ELSE "refreshing", s)
  /\ Noted(r) /\ UNCHANGED <<same, host, tries, retries>>

-----------------------------------------------------------------------------
(* The process.                                                            *)

Crash ==
  /\ up # "down" /\ crashes > 0 /\ crashes' = crashes - 1
  /\ Vanish /\ UNCHANGED <<disk, host, history, faults>>

\* init reads the journal and runs the orchestrator once if it is interrupted.
Boot ==
  /\ up = "down" /\ UNCHANGED <<disk, broken, host, history, faults, crashes>>
  /\ IF Interrupted(disk) = {}
       THEN up' = "serving" /\ mem' = disk /\ UNCHANGED <<queue, at, on, seen>>
       ELSE up' = "starting" /\ \E r \in Requests : RunNext(r, queue, disk)

\* The server listens once the startup pass has returned.
Listen ==
  /\ up = "starting" /\ \A r \in Requests : at[r] = "idle"
  /\ up' = "serving" /\ UNCHANGED <<disk, mem, queue, broken, at, on, seen, host, history, faults, crashes>>

Init ==
  /\ disk = Blank("absent") /\ mem = Blank("absent") /\ queue = <<>> /\ broken = FALSE
  /\ up = "down" /\ at = [r \in Requests |-> "idle"] /\ on = [r \in Requests |-> 1]
  /\ seen = [r \in Requests |-> "none"] /\ host = [s \in Steps |-> "none"]
  /\ tries = [s \in Steps |-> 0] /\ retries = [s \in Steps |-> 0] /\ raced = {}
  /\ faults = MaxFaults /\ crashes = MaxCrashes

Client(r) == Create(r) \/ Continue(r) \/ Retry(r) \/ Compensate(r)
Answers(r) == Applied(r) \/ Compensated(r) \/ Inspect(r) \/ ReconcileInterrupted(r)
                \/ ReconcileUndone(r) \/ ReconcileBlocked(r) \/ Rejected(r)

Next ==
  \/ \E r \in Requests : Client(r) \/ HostWork(r) \/ Answers(r)
  \/ Written \/ WriteFails \/ Crash \/ Boot \/ Listen

Spec == Init /\ [][Next]_vars

-----------------------------------------------------------------------------
TypeOK ==
  /\ disk \in Journal /\ mem \in Journal /\ broken \in BOOLEAN
  /\ queue \in Seq([by : Requests, store : Journal]) /\ (broken => queue = <<>>)
  /\ up \in {"down", "starting", "serving"}
  /\ at \in [Requests -> Phase] /\ on \in [Requests -> Steps] /\ seen \in [Requests -> Answer]
  /\ host \in [Steps -> {"none", "partial", "met"}]
  /\ tries \in [Steps -> Nat] /\ retries \in [Steps -> Nat] /\ raced \subseteq Steps
  /\ faults \in Nat /\ crashes \in Nat

\* runNext never repeats an application by itself: every one after the first
\* was confirmed by a retry request, across crashes and rejected writes.
NoBlindReplay == \A s \in Steps : tries[s] <= 1 + retries[s]

\* A handler changes the host only while the journal FILE says so: a crash in the
\* middle finds the step applying or compensating.
HostChangesAreJournalled ==
  \A r \in Requests : at[r] \in {"applying", "compensating"} /\ on[r] \notin raced
    => disk.st[on[r]] = at[r]

\* The journal file shows a step succeeded only if the host meets its goal, but
\* for steps whose compensation failed half way, and for those of which an
\* inspection and a running handler overlapped.
SucceededIsMet ==
  \A s \in Steps \ raced :
    disk.st[s] = "succeeded" /\ disk.comp[s] # "failed" => host[s] = "met"

\* A step is only worked on when all earlier ones have succeeded.
BuildsOnSucceeded ==
  \A s \in Steps \ Blockers : mem.st[s] = "applying"
    => \A t \in 1 .. s - 1 : mem.st[t] = "succeeded"

\* A step is not compensated under a later one that may own host mutations.
CompensatedInOrder ==
  \A s, t \in Steps : mem.st[s] \in {"compensating", "compensated"} /\ s < t => ~Live(mem, t)

\* That holds but for steps that were blocked: these can come back later.
OrderUnlessBlocked ==
  \A s \in Steps, t \in Steps \ Blockers :
    mem.st[s] \in {"compensating", "compensated"} /\ s < t => ~Live(mem, t)

\* Two applications of one step never overlap.
AppliesDoNotOverlap ==
  \A q, r \in Requests : at[q] = "applying" /\ at[r] = "applying" /\ on[q] = on[r] => q = r

\* A request that waits for the journal is either in the write chain or behind
\* its rejection: no broken or shared chain leaves a client without an answer.
WaitersAreServed ==
  \A r \in Requests : at[r] \in Saving
    => broken \/ \E i \in DOMAIN queue : queue[i].by = r

=============================================================================
