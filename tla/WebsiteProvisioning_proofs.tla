---------------------- MODULE WebsiteProvisioning_proofs ----------------------
(***************************************************************************)
(* Proofs about WebsiteProvisioning, for any plan, any set of requests and *)
(* any bounds.                                                             *)
(*                                                                         *)
(* Almost every step is one request's turn: it changes at most one step of *)
(* the journal in memory, queues at most one snapshot, takes at most the   *)
(* head of the chain, and then waits.  Turn says so once; what the actions *)
(* differ in, towards the host and towards the other requests, is said by  *)
(* Careful.  Each part of the invariant is then shown to survive a careful *)
(* turn, and each action to be one.                                        *)
(***************************************************************************)
EXTENDS WebsiteProvisioning, WellFoundedInduction, SequenceTheorems, TLAPS

\* A set of steps has a first one: what Array.find of runNext returns.
LEMMA FirstIsLeast ==
  ASSUME NEW S \in SUBSET Steps, S # {}
  PROVE  First(S) \in S /\ \A t \in S : First(S) <= t
<1>1. S \subseteq Nat
  BY PlanAssumption DEF Steps
<1>2. PICK x \in S : \A y \in S : ~ (<<y, x>> \in OpToRel(<, Nat))
  BY <1>1, NatLessThanWellFounded, WFMin, Zenon
<1>3. \A y \in S : x <= y
  <2> SUFFICES ASSUME NEW y \in S, y < x PROVE FALSE
    BY <1>1
  <2>1. <<y, x>> \in {ss \in Nat \X Nat : ss[1] < ss[2]}
    BY <1>1
  <2>2. <<y, x>> \in OpToRel(<, Nat)
    BY <2>1, Zenon DEF OpToRel
  <2> QED BY <1>2, <2>2
<1> QED BY <1>3 DEF First

-----------------------------------------------------------------------------
(* What a transition of the registry does to a journal.                    *)

\* completeStep, failStep, blockStep, completeCompensation, failCompensation:
\* the step was being worked on.
Settles(j, k, s) ==
  \/ j.st[s] = "applying" /\ k = ToErr(j, s, "failed", TRUE)
  \/ j.st[s] = "applying" /\ k = ToErr(j, s, "succeeded", FALSE)
  \/ j.st[s] = "applying" /\ k = ToErr(j, s, "blocked", TRUE) /\ s \in Blockers
  \/ j.st[s] = "compensating" /\ k = ToComp(j, s, "compensated", "succeeded")
  \/ j.st[s] = "compensating" /\ k = Restored(j, s)

\* beginStep in runNext: the first pending step, every other one pending or done.
Begins(j, k, s) ==
  /\ j.st[s] = "pending" /\ k = ToErr(j, s, "applying", FALSE)
  /\ \A t \in Steps : j.st[t] = "succeeded" \/ (j.st[t] = "pending" /\ s <= t)

\* beginStep in reconcileBlocked.
Refreshes(j, k, s) ==
  /\ s \in Blockers /\ j.st[s] \in {"pending", "blocked"} /\ k = ToErr(j, s, "applying", FALSE)

\* beginCompensation.
Unwinds(j, k, s) ==
  /\ j.st[s] \in {"succeeded", "failed"} /\ j.comp[s] \in {"pending", "failed"}
  /\ k = ToComp(j, s, "compensating", "applying")
  /\ \A t \in Steps : t > s => ~Live(j, t)

\* Every transition, with the place where its request then waits.
Change(j, k, s, p) ==
  \/ p \in {"ending", "compEnding", "finishing"} /\ Settles(j, k, s)
  \/ p = "beginning" /\ Begins(j, k, s)
  \/ p \in {"refreshing", "settling"} /\ Refreshes(j, k, s)
  \/ p = "compBeginning" /\ Unwinds(j, k, s)
  \/ p = "retrying" /\ j.st[s] = "failed" /\ k = ToErr(j, s, "pending", FALSE)
  \/ p = "finishing" /\ In(j, {"absent"}) = Steps /\ k = Blank("pending")

\* A new journal has every step in one state.
LEMMA BlankJournal ==
  ASSUME NEW st \in StepState
  PROVE  Blank(st) \in Journal /\ \A s \in Steps : Blank(st).st[s] = st
BY DEF Blank, Journal, StepState, CompState

\* What can become of a journal, spelled out.
Changed(j, k, s, p) ==
  /\ k \in Journal
  /\ \/ \A t \in Steps \ {s} : k.st[t] = j.st[t] /\ k.comp[t] = j.comp[t]
     \/ \A t \in Steps : j.st[t] = "absent" /\ k.st[t] = "pending"
  /\ \/ Settles(j, k, s) /\ j.st[s] = "applying" /\ k.comp[s] = j.comp[s]
          /\ k.st[s] \in {"failed", "succeeded", "blocked"}
     \/ Settles(j, k, s) /\ j.st[s] = "compensating"
          /\ \/ k.st[s] = "compensated"
             \/ k.st[s] \in {"failed", "succeeded"} /\ k.comp[s] = "failed"
     \/ j.st[s] \in {"pending", "blocked"} /\ k.st[s] = "applying" /\ k.comp[s] = j.comp[s]
          /\ p \in {"beginning", "refreshing", "settling"}
     \/ j.st[s] \in {"succeeded", "failed"} /\ k.st[s] = "compensating"
          /\ p = "compBeginning"
     \/ j.st[s] = "failed" /\ k.st[s] = "pending" /\ k.comp[s] = j.comp[s] /\ p = "retrying"
     \/ j.st[s] = "absent" /\ k.st[s] = "pending" /\ p = "finishing"
  /\ p = "beginning" => j.st[s] = "pending"
  /\ p \in {"beginning", "refreshing", "settling"} => k.st[s] = "applying"
  /\ p = "compBeginning" => j.st[s] \in {"succeeded", "failed"} /\ k.st[s] = "compensating"
  /\ p \in {"refreshing", "settling"} => s \in Blockers
  /\ k.st[s] = "blocked" => s \in Blockers

LEMMA Changes ==
  ASSUME NEW j \in Journal, NEW k, NEW s \in Steps, NEW p, Change(j, k, s, p)
  PROVE  Changed(j, k, s, p)
<1> USE DEF Changed, ToErr, ToComp, Restored, Journal, StepState, CompState
<1>1. CASE Settles(j, k, s) /\ p \in {"ending", "compEnding", "finishing"}
  <2>1. CASE j.st[s] = "applying" /\ k = ToErr(j, s, "failed", TRUE)
    BY <1>1, <2>1
  <2>2. CASE j.st[s] = "applying" /\ k = ToErr(j, s, "succeeded", FALSE)
    BY <1>1, <2>2
  <2>3. CASE j.st[s] = "applying" /\ k = ToErr(j, s, "blocked", TRUE) /\ s \in Blockers
    BY <1>1, <2>3
  <2>4. CASE j.st[s] = "compensating" /\ k = ToComp(j, s, "compensated", "succeeded")
    BY <1>1, <2>4
  <2>5. CASE j.st[s] = "compensating" /\ k = Restored(j, s)
    BY <1>1, <2>5
  <2> QED BY <1>1, <2>1, <2>2, <2>3, <2>4, <2>5 DEF Settles
<1>2. CASE p = "beginning" /\ Begins(j, k, s)
  BY <1>2 DEF Begins
<1>3. CASE p \in {"refreshing", "settling"} /\ Refreshes(j, k, s)
  BY <1>3 DEF Refreshes
<1>4. CASE p = "compBeginning" /\ Unwinds(j, k, s)
  BY <1>4 DEF Unwinds
<1>5. CASE p = "retrying" /\ j.st[s] = "failed" /\ k = ToErr(j, s, "pending", FALSE)
  BY <1>5
<1>6. CASE p = "finishing" /\ In(j, {"absent"}) = Steps /\ k = Blank("pending")
  BY <1>6 DEF In, Blank
<1> QED BY <1>1, <1>2, <1>3, <1>4, <1>5, <1>6 DEF Change

-----------------------------------------------------------------------------
(* A turn of one request.                                                  *)

Working  == {"applying", "compensating"}
Starting == {"beginning", "compBeginning"}
Doing(p) == IF p \in {"applying", "beginning"} THEN "applying" ELSE "compensating"

\* r continues with journal j and chain q and then waits in phase p at step s.
Turn(r, j, q, s, p) ==
  /\ s \in Steps /\ p \in Phase /\ Wait(r, p, s)
  /\ p = "blocked" => s \in Blockers
  /\ p \in Saving =>
       Change(j, mem', s, p) /\ queue' = IF broken THEN q ELSE Append(q, [by |-> r, store |-> mem'])
  /\ p \notin Saving => mem' = j /\ queue' = q

\* Only steps that may answer satisfied: false are ever blocked.
BlockersOnly(j) == \A s \in Steps : j.st[s] = "blocked" => s \in Blockers

\* runNext inspects, answers, or begins a step.
LEMMA RunNextTurn ==
  ASSUME NEW r \in Requests, NEW q, NEW j \in Journal, BlockersOnly(j), RunNext(r, q, j)
  PROVE  \E s \in Steps, p \in {"idle", "interrupted", "undone", "blocked", "beginning"} :
           Turn(r, j, q, s, p)
<1> USE DEF Phase, Inspecting, Saving
<1>1. 1 \in Steps
  BY PlanAssumption DEF Steps
<1>2. ASSUME NEW S, S \in SUBSET Steps, S # {},
             NEW p \in Inspecting, p = "blocked" => S \subseteq Blockers,
             mem' = j, queue' = q, Wait(r, p, First(S))
      PROVE  Turn(r, j, q, First(S), p) /\ First(S) \in Steps
  BY <1>2, FirstIsLeast DEF Turn
<1>3. CASE In(j, {"applying"}) # {} /\ mem' = j /\ queue' = q
             /\ Wait(r, "interrupted", First(In(j, {"applying"})))
  BY <1>2, <1>3 DEF In
<1>4. CASE In(j, {"compensating"}) # {} /\ mem' = j /\ queue' = q
             /\ Wait(r, "undone", First(In(j, {"compensating"})))
  BY <1>2, <1>4 DEF In
<1>5. CASE In(j, {"blocked"}) # {} /\ mem' = j /\ queue' = q
             /\ Wait(r, "blocked", First(In(j, {"blocked"})))
  <2>1. In(j, {"blocked"}) \in SUBSET Steps /\ In(j, {"blocked"}) \subseteq Blockers
    BY DEF In, BlockersOnly
  <2> QED BY <1>2, <1>5, <2>1
<1>6. CASE /\ In(j, {"succeeded", "pending"}) = Steps /\ In(j, {"pending"}) # {}
           /\ Save(r, q, ToErr(j, First(In(j, {"pending"})), "applying", FALSE), "beginning",
                   First(In(j, {"pending"})))
  <2> DEFINE s == First(In(j, {"pending"}))
  <2>1. In(j, {"pending"}) \in SUBSET Steps
    BY DEF In
  <2>2. s \in In(j, {"pending"}) /\ \A t \in In(j, {"pending"}) : s <= t
    BY <1>6, <2>1, FirstIsLeast
  <2>3. s \in Steps /\ j.st[s] = "pending"
    BY <2>2 DEF In
  <2>4. \A t \in Steps : j.st[t] = "succeeded" \/ (j.st[t] = "pending" /\ s <= t)
    BY <1>6, <2>2 DEF In
  <2>5. Begins(j, mem', s)
    BY <1>6, <2>3, <2>4 DEF Begins, Save
  <2> QED BY <1>6, <2>3, <2>5 DEF Turn, Save, Change
<1>7. CASE mem' = j /\ queue' = q /\ Done(r)
  BY <1>1, <1>7 DEF Done, Turn
<1> QED BY <1>3, <1>4, <1>5, <1>6, <1>7 DEF RunNext

\* The settling calls of the registry settle the step or end the request.
Ends(r, q, s, phase) ==
  \/ Turn(r, mem, q, 1, "idle")
  \/ Turn(r, mem, q, s, phase) /\ Settles(mem, mem', s) /\ mem' # mem

LEMMA SettleTurn ==
  ASSUME TypeOK, NEW r \in Requests, NEW q, NEW s \in Steps,
         NEW phase \in {"ending", "compEnding", "finishing"}
  PROVE  /\ FailStep(r, s, phase) => Ends(r, queue, s, phase)
         /\ CompleteStep(r, q, s, phase) => Ends(r, q, s, phase)
         /\ BlockStep(r, q, s, phase) /\ s \in Blockers => Ends(r, q, s, phase)
         /\ CompleteCompensation(r, s, phase) => Ends(r, queue, s, phase)
         /\ FailCompensation(r, s) => Ends(r, queue, s, "compEnding")
<1>1. \A c : Return(r, c) => Turn(r, mem, c, 1, "idle")
  BY PlanAssumption DEF Return, Done, Turn, Phase, Inspecting, Saving, Steps
<1>2. \A c, j, p : p \in {"ending", "compEnding", "finishing"} /\ Save(r, c, j, p, s) /\ Settles(mem, j, s)
        => Turn(r, mem, c, s, p) /\ Settles(mem, mem', s)
  <2> SUFFICES ASSUME NEW c, NEW j, NEW p \in {"ending", "compEnding", "finishing"},
                      Save(r, c, j, p, s), Settles(mem, j, s)
               PROVE  Turn(r, mem, c, s, p) /\ Settles(mem, mem', s)
    OBVIOUS
  <2>1. mem' = j /\ Change(mem, mem', s, p) /\ Settles(mem, mem', s)
    BY DEF Save, Change
  <2>2. p \in Phase /\ p \in Saving /\ p # "blocked"
    BY DEF Phase, Saving
  <2> QED BY <2>1, <2>2 DEF Save, Turn
<1>3. Settles(mem, mem', s) => mem'.st[s] # mem.st[s]
  <2> SUFFICES ASSUME Settles(mem, mem', s) PROVE mem'.st[s] # mem.st[s]
    OBVIOUS
  <2>1. mem \in Journal /\ Change(mem, mem', s, "finishing")
    BY DEF TypeOK, Change
  <2>2. mem.st[s] \in {"applying", "compensating"}
    BY DEF Settles
  <2> QED BY <2>1, <2>2, Changes DEF Changed
<1>4. mem.st[s] = "applying" =>
        /\ Settles(mem, ToErr(mem, s, "failed", TRUE), s)
        /\ Settles(mem, ToErr(mem, s, "succeeded", FALSE), s)
        /\ s \in Blockers => Settles(mem, ToErr(mem, s, "blocked", TRUE), s)
  BY DEF Settles
<1>5. mem.st[s] = "compensating" =>
        /\ Settles(mem, ToComp(mem, s, "compensated", "succeeded"), s)
        /\ Settles(mem, Restored(mem, s), s)
  BY DEF Settles
<1>6. FailStep(r, s, phase) => Ends(r, queue, s, phase)
  BY <1>1, <1>2, <1>3, <1>4 DEF FailStep, Ends
<1>7. CompleteStep(r, q, s, phase) => Ends(r, q, s, phase)
  BY <1>1, <1>2, <1>3, <1>4 DEF CompleteStep, Ends
<1>8. BlockStep(r, q, s, phase) /\ s \in Blockers => Ends(r, q, s, phase)
  BY <1>1, <1>2, <1>3, <1>4 DEF BlockStep, Ends
<1>9. CompleteCompensation(r, s, phase) => Ends(r, queue, s, phase)
  BY <1>1, <1>2, <1>3, <1>5 DEF CompleteCompensation, Ends
<1>10. FailCompensation(r, s) => Ends(r, queue, s, "compEnding")
  BY <1>1, <1>2, <1>3, <1>5 DEF FailCompensation, Ends
<1> QED BY <1>6, <1>7, <1>8, <1>9, <1>10

-----------------------------------------------------------------------------
(* The invariant.                                                          *)

\* The chain holds at most one snapshot per request, and only of requests that
\* wait for it; a stopped process holds nothing.
Chained ==
  /\ \A i \in 1 .. Len(queue) : at[queue[i].by] \in Saving
  /\ \A i, k \in 1 .. Len(queue) : queue[i].by = queue[k].by => i = k
  /\ \A r \in Requests : at[r] \in {"blocked", "refreshing", "settling"} => on[r] \in Blockers
  /\ up = "down" => queue = <<>> /\ ~broken /\ \A r \in Requests : at[r] = "idle"

\* What holds of the memory holds of every snapshot and of the file.
BuildsOn(j) ==
  \A s \in Steps \ Blockers : j.st[s] = "applying" => \A t \in 1 .. s - 1 : j.st[t] = "succeeded"
Ordered(j) ==
  \A s \in Steps, t \in Steps \ Blockers :
    j.st[s] \in {"compensating", "compensated"} /\ s < t => ~Live(j, t)
Sound(j)     == BlockersOnly(j) /\ BuildsOn(j) /\ Ordered(j)
JournalsSound == Sound(disk) /\ Sound(mem) /\ \A i \in 1 .. Len(queue) : Sound(queue[i].store)

\* Nobody else is inside a handler of the step, or about to be.
Alone(r, s) == \A x \in Requests \ {r} : on[x] = s => at[x] \notin Working \cup Starting

\* Unless an inspection interfered: while a handler works on a step, the file, every
\* snapshot and the memory say so; from the snapshot that announces a handler,
\* every later one does; and there is one handler of a step at a time.
WorkIsJournalled ==
  \A r \in Requests : on[r] \notin raced =>
    /\ at[r] \in Working =>
         /\ disk.st[on[r]] = at[r]
         /\ \A k \in 1 .. Len(queue) : queue[k].store.st[on[r]] = at[r]
         /\ \A x \in Requests \ {r} : on[x] = on[r] => at[x] \notin Working
    /\ at[r] \in Starting => \A i, k \in 1 .. Len(queue) :
         queue[i].by = r /\ i <= k => queue[k].store.st[on[r]] = Doing(at[r])
    /\ at[r] \in Working \cup Starting /\ ~broken =>
         mem.st[on[r]] = Doing(at[r]) /\ Alone(r, on[r])

\* An inspection that found the goal reached is still right, or a handler is at work.
SeenIsTrue ==
  \A r \in Requests :
    at[r] \in {"interrupted", "blocked"} /\ seen[r] = "met" /\ on[r] \notin raced =>
      host[on[r]] = "met" \/ \E x \in Requests : on[x] = on[r] /\ at[x] \in Working

\* So is one whose blocked step is about to be recorded as succeeded.
SettlingIsTrue ==
  \A i \in 1 .. Len(queue) :
    at[queue[i].by] = "settling" /\ on[queue[i].by] \notin raced =>
      /\ host[on[queue[i].by]] = "met"
      /\ \A x \in Requests : on[x] = on[queue[i].by] => at[x] \notin Working
      /\ \A k \in 1 .. i - 1 : on[queue[k].by] = on[queue[i].by] => at[queue[k].by] \notin Starting

\* Journal j shows steps succeeded only whose goal the host has reached.
Truthful(j) ==
  \A s \in Steps \ raced : j.st[s] = "succeeded" /\ j.comp[s] # "failed" => host[s] = "met"
JournalsTruthful ==
  /\ Truthful(disk) /\ (~broken => Truthful(mem))
  /\ \A i \in 1 .. Len(queue) : Truthful(queue[i].store)

\* n[k] is the number of applications of step s started once the first k snapshots
\* are written.  A journal in which s is still to be begun leaves one of them over.
Counts(s, n) ==
  /\ n[0] = tries[s]
  /\ \A k \in 1 .. Len(queue) :
       n[k] = n[k - 1] + IF at[queue[k].by] = "beginning" /\ on[queue[k].by] = s THEN 1 ELSE 0
Fresh == {"absent", "pending"}
Budgeted(s, n) ==
  /\ \A k \in 0 .. Len(queue) : n[k] <= 1 + retries[s]
  /\ disk.st[s] \in Fresh => n[0] <= retries[s]
  /\ \A k \in 1 .. Len(queue) : queue[k].store.st[s] \in Fresh => n[k] <= retries[s]
  /\ up # "down" /\ mem.st[s] \in Fresh => n[Len(queue)] <= retries[s]
ReplaysAreConfirmed ==
  \A s \in Steps : \E n \in [0 .. Len(queue) -> Nat] : Counts(s, n) /\ Budgeted(s, n)

IndInv == /\ TypeOK /\ Chained /\ JournalsSound /\ WorkIsJournalled /\ SeenIsTrue
          /\ SettlingIsTrue /\ JournalsTruthful /\ ReplaysAreConfirmed

-----------------------------------------------------------------------------
(* A careful turn.                                                         *)

\* Every turn's rights: r either waited for no write, or for the head of the chain;
\* the process is up, or r is its startup pass.
Entitled(r, j, q, s, p) ==
  /\ \/ q = queue /\ disk' = disk /\ at[r] \notin Saving /\ p \notin Working
     \/ /\ queue # <<>> /\ r = Head(queue).by /\ q = Tail(queue) /\ disk' = Head(queue).store
        /\ p \in Working => at[r] \in Starting /\ p = Doing(at[r]) /\ s = on[r]
  /\ \/ j = mem /\ up # "down" /\ up' = up
     \/ j = disk /\ up = "down" /\ up' = "starting"

\* Every turn's duties towards the host and the other requests.
Careful(r, j, s, p) ==
  /\ mem' = j \/ j.st[s] \notin {"applying", "compensating"} \/ s \in raced' \/ broken
       \/ /\ Alone(r, s)
          /\ j.st[s] = "applying" /\ mem'.st[s] = "succeeded" => host'[s] = "met"
  /\ p = "settling" /\ s \notin raced' => host'[s] = "met" /\ Alone(r, s)
  /\ \A t \in Steps : host'[t] # host[t] => t = on[r] /\ at[r] \in Working
  /\ at[r] \in Working /\ on[r] \notin raced' =>
       \A x \in Requests : on[x] = on[r] => seen[x] # "met"
  /\ \A t \in Steps : tries'[t] = tries[t] + IF at[r] = "beginning" /\ on[r] = t THEN 1 ELSE 0
  /\ \A t \in Steps : retries'[t] >= retries[t]
  /\ p = "retrying" => retries'[s] > retries[s]

\* What else a turn leaves typed or alone.
Within ==
  /\ UNCHANGED <<broken, faults, crashes>> /\ raced \subseteq raced' /\ raced' \subseteq Steps
  /\ host' \in [Steps -> {"none", "partial", "met"}]
  /\ tries' \in [Steps -> Nat] /\ retries' \in [Steps -> Nat]

CarefulTurn == \E r \in Requests, j \in Journal, q \in Seq([by : Requests, store : Journal]), s \in Steps, p \in Phase :
  Turn(r, j, q, s, p) /\ Entitled(r, j, q, s, p) /\ Careful(r, j, s, p) /\ Within

\* A careful turn keeps the state typed.
LEMMA TurnType ==
  ASSUME TypeOK, CarefulTurn
  PROVE  TypeOK'
<1> PICK r \in Requests, j \in Journal, q \in Seq([by : Requests, store : Journal]), s \in Steps, p \in Phase :
      Turn(r, j, q, s, p) /\ Entitled(r, j, q, s, p) /\ Careful(r, j, s, p) /\ Within
  BY DEF CarefulTurn
<1>1. disk' \in Journal /\ broken' \in BOOLEAN /\ up' \in {"down", "starting", "serving"}
  <2>1. queue # <<>> => Head(queue) \in [by : Requests, store : Journal]
    BY HeadTailProperties DEF TypeOK
  <2>2. disk \in Journal /\ broken \in BOOLEAN /\ up \in {"down", "starting", "serving"}
    BY DEF TypeOK
  <2> QED BY <2>1, <2>2 DEF Entitled, Within
<1>2. at' \in [Requests -> Phase] /\ on' \in [Requests -> Steps] /\ seen' \in [Requests -> Answer]
  BY DEF Turn, Wait, TypeOK, Answer
<1>3. mem' \in Journal
  BY Changes DEF Turn, Changed
<1>4. queue' \in Seq([by : Requests, store : Journal])
  <2> DEFINE e == [by |-> r, store |-> mem']
  <2>1. e \in [by : Requests, store : Journal]
    BY <1>3
  <2>2. Append(q, e) \in Seq([by : Requests, store : Journal])
    BY <2>1, AppendProperties
  <2>3. queue' = q \/ queue' = Append(q, e)
    BY DEF Turn
  <2> QED BY <2>2, <2>3
<1>5. broken => queue' = <<>>
  <2>1. broken => q = <<>>
    BY DEF Entitled, TypeOK
  <2> QED BY <2>1 DEF Turn
<1> QED BY <1>1, <1>2, <1>3, <1>4, <1>5 DEF Within, TypeOK

\* How a turn moves the chain: d snapshots leave it, and at most one joins.
Moved(r, p, d) ==
  /\ d \in {0, 1} /\ d <= Len(queue)
  /\ d = 0 => disk' = disk /\ at[r] \notin Saving /\ p \notin Working
  /\ d = 1 => disk' = queue[1].store /\ queue[1].by = r
  /\ \A k \in 1 .. Len(queue) - d : queue'[k] = queue[k + d]
  /\ p \in Saving /\ ~broken =>
       /\ Len(queue') = Len(queue) - d + 1
       /\ queue'[Len(queue) - d + 1].by = r /\ queue'[Len(queue) - d + 1].store = mem'
  /\ p \notin Saving \/ broken => Len(queue') = Len(queue) - d

LEMMA ChainMoves ==
  ASSUME TypeOK, NEW r \in Requests, NEW j \in Journal, NEW q \in Seq([by : Requests, store : Journal]),
         NEW s \in Steps, NEW p \in Phase, Turn(r, j, q, s, p), Entitled(r, j, q, s, p)
  PROVE  \E d \in {0, 1} : Moved(r, p, d)
<1> DEFINE e == [by |-> r, store |-> mem']
<1>1. PICK d \in {0, 1} :
        /\ d <= Len(queue)
        /\ d = 0 => disk' = disk /\ at[r] \notin Saving /\ p \notin Working
        /\ d = 1 => disk' = queue[1].store /\ queue[1].by = r
        /\ Len(q) = Len(queue) - d /\ \A k \in 1 .. Len(queue) - d : q[k] = queue[k + d]
  <2>1. CASE q = queue /\ disk' = disk /\ at[r] \notin Saving /\ p \notin Working
    BY <2>1 DEF TypeOK
  <2>2. CASE queue # <<>> /\ r = Head(queue).by /\ q = Tail(queue) /\ disk' = Head(queue).store
    <3>1. Len(queue) \in Nat \ {0} /\ Head(queue) = queue[1] /\ Len(q) = Len(queue) - 1
            /\ \A k \in 1 .. Len(q) : q[k] = queue[k + 1]
      BY <2>2, HeadTailProperties, EmptySeq DEF TypeOK
    <3>2. 1 <= Len(queue) /\ \A k \in 1 .. Len(queue) - 1 : q[k] = queue[k + 1]
      BY <3>1
    <3> WITNESS 1 \in {0, 1}
    <3> QED BY <2>2, <3>1, <3>2
  <2> QED BY <2>1, <2>2 DEF Entitled
<1>2. mem' \in Journal
  BY Changes DEF Turn, Changed
<1>3. CASE p \in Saving /\ ~broken
  <2>1. queue' = Append(q, e) /\ e \in [by : Requests, store : Journal]
    BY <1>2, <1>3 DEF Turn
  <2>2. Len(queue') = Len(q) + 1 /\ queue'[Len(q) + 1] = e /\ \A k \in 1 .. Len(q) : queue'[k] = q[k]
    BY <2>1, AppendProperties
  <2>3. Len(q) = Len(queue) - d
    BY <1>1
  <2>4. /\ Len(queue') = Len(queue) - d + 1
        /\ queue'[Len(queue) - d + 1].by = r /\ queue'[Len(queue) - d + 1].store = mem'
        /\ \A k \in 1 .. Len(queue) - d : queue'[k] = queue[k + d]
    BY <1>1, <2>2, <2>3
  <2> QED BY <1>1, <1>3, <2>4 DEF Moved
<1>4. CASE p \notin Saving \/ broken
  <2>1. queue' = q
    BY <1>4 DEF Turn
  <2> QED BY <1>1, <1>4, <2>1 DEF Moved
<1> QED BY <1>3, <1>4

\* What the other parts of the proof need to know of a turn.
Left(r, s, p, d) ==
  /\ at'[r] = p /\ on'[r] = s /\ seen'[r] = "none"
  /\ \A x \in Requests \ {r} : at'[x] = at[x] /\ on'[x] = on[x] /\ seen'[x] = seen[x]
  /\ Len(queue) \in Nat
  /\ \A i \in 1 .. Len(queue) : queue[i].by \in Requests /\ queue[i].store \in Journal
  /\ \A k \in 1 .. Len(queue) - d :
       /\ k + d \in 1 .. Len(queue) /\ queue'[k] = queue[k + d] /\ queue[k + d].by # r
  /\ \A k \in 1 .. Len(queue') :
       \/ k \in 1 .. Len(queue) - d
       \/ /\ k = Len(queue) - d + 1 /\ k = Len(queue')
          /\ queue'[k].by = r /\ queue'[k].store = mem' /\ p \in Saving /\ ~broken

LEMMA TurnFacts ==
  ASSUME TypeOK, Chained, NEW r \in Requests, NEW j \in Journal,
         NEW q \in Seq([by : Requests, store : Journal]), NEW s \in Steps, NEW p \in Phase,
         Turn(r, j, q, s, p), NEW d \in {0, 1}, Moved(r, p, d)
  PROVE  Left(r, s, p, d)
<1>1. Len(queue) \in Nat /\ \A i \in 1 .. Len(queue) : queue[i] \in [by : Requests, store : Journal]
  BY ElementOfSeq, LenProperties DEF TypeOK
<1>2. \A i \in 1 .. Len(queue) : queue[i].by \in Requests /\ queue[i].store \in Journal
  BY <1>1
<1>3. ASSUME NEW k \in 1 .. Len(queue) - d
      PROVE  k + d \in 1 .. Len(queue) /\ queue'[k] = queue[k + d] /\ queue[k + d].by # r
  <2>1. k + d \in 1 .. Len(queue) /\ queue'[k] = queue[k + d]
    BY <1>1 DEF Moved
  <2>2. CASE d = 0
    BY <2>1, <2>2 DEF Moved, Chained
  <2>3. CASE d = 1
    <3>1. 1 \in 1 .. Len(queue) /\ k + 1 # 1 /\ queue[1].by = r
      BY <1>1, <2>3 DEF Moved
    <3> QED BY <2>1, <2>3, <3>1 DEF Chained
  <2> QED BY <2>1, <2>2, <2>3
<1>4. /\ at'[r] = p /\ on'[r] = s /\ seen'[r] = "none"
      /\ \A x \in Requests \ {r} : at'[x] = at[x] /\ on'[x] = on[x] /\ seen'[x] = seen[x]
  BY DEF Turn, Wait, TypeOK
<1>5. \A k \in 1 .. Len(queue') :
        \/ k \in 1 .. Len(queue) - d
        \/ /\ k = Len(queue) - d + 1 /\ k = Len(queue')
           /\ queue'[k].by = r /\ queue'[k].store = mem' /\ p \in Saving /\ ~broken
  <2>1. CASE p \in Saving /\ ~broken
    BY <1>1, <2>1 DEF Moved
  <2>2. CASE p \notin Saving \/ broken
    BY <1>1, <2>2 DEF Moved
  <2> QED BY <2>1, <2>2
<1> QED BY <1>1, <1>2, <1>3, <1>4, <1>5 DEF Left

-----------------------------------------------------------------------------
(* A careful turn keeps each part of the invariant.                        *)

LEMMA TurnChained ==
  ASSUME TypeOK, Chained, CarefulTurn
  PROVE  Chained'
<1> PICK r \in Requests, j \in Journal, q \in Seq([by : Requests, store : Journal]), s \in Steps, p \in Phase :
      Turn(r, j, q, s, p) /\ Entitled(r, j, q, s, p) /\ Careful(r, j, s, p) /\ Within
  BY DEF CarefulTurn
<1> PICK d \in {0, 1} : Moved(r, p, d)
  BY ChainMoves
<1> Left(r, s, p, d)
  BY TurnFacts
<1>0. p \in {"refreshing", "settling"} => s \in Blockers
  BY Changes DEF Turn, Saving, Changed
<1>1. ASSUME NEW i \in 1 .. Len(queue')
      PROVE  at'[queue'[i].by] \in Saving
  <2>1. CASE i \in 1 .. Len(queue) - d
    <3>1. /\ i + d \in 1 .. Len(queue) /\ queue'[i] = queue[i + d]
          /\ queue[i + d].by \in Requests \ {r}
      BY <2>1 DEF Left
    <3>2. at[queue[i + d].by] \in Saving
      BY <3>1 DEF Chained
    <3> QED BY <3>1, <3>2 DEF Left
  <2>2. CASE queue'[i].by = r /\ p \in Saving
    BY <2>2 DEF Left
  <2> QED BY <2>1, <2>2 DEF Left
<1>2. \A i, k \in 1 .. Len(queue') : queue'[i].by = queue'[k].by => i = k
  <2> SUFFICES ASSUME NEW i \in 1 .. Len(queue'), NEW k \in 1 .. Len(queue'), queue'[i].by = queue'[k].by
               PROVE  i = k
    OBVIOUS
  <2>1. CASE i \in 1 .. Len(queue) - d /\ k \in 1 .. Len(queue) - d
    <3>1. i + d \in 1 .. Len(queue) /\ k + d \in 1 .. Len(queue)
            /\ queue[i + d].by = queue[k + d].by
      BY <2>1 DEF Left
    <3>2. i + d = k + d
      BY <3>1 DEF Chained
    <3> QED BY <3>2
  <2>2. CASE i \notin 1 .. Len(queue) - d \/ k \notin 1 .. Len(queue) - d
    BY <2>2 DEF Left
  <2> QED BY <2>1, <2>2
<1>3. \A x \in Requests : at'[x] \in {"blocked", "refreshing", "settling"} => on'[x] \in Blockers
  BY <1>0 DEF Chained, Turn, Left
<1>4. up' # "down"
  BY DEF Entitled
<1> QED BY <1>1, <1>2, <1>3, <1>4 DEF Chained

\* A transition keeps a journal sound.
LEMMA ChangeSound ==
  ASSUME NEW j \in Journal, NEW k, NEW s \in Steps, NEW p, Change(j, k, s, p), Sound(j)
  PROVE  Sound(k)
<1>1. Changed(j, k, s, p)
  BY Changes
<1>2. CASE \A t \in Steps : j.st[t] = "absent" /\ k.st[t] = "pending"
  BY <1>2 DEF Sound, BlockersOnly, BuildsOn, Ordered
<1>3. CASE \A t \in Steps \ {s} : k.st[t] = j.st[t] /\ k.comp[t] = j.comp[t]
  <2>1. BlockersOnly(k)
    BY <1>3, <1>1 DEF Changed, Sound, BlockersOnly
  <2>2. BuildsOn(k)
    <3> SUFFICES ASSUME NEW x \in Steps \ Blockers, k.st[x] = "applying", NEW t \in 1 .. x - 1
                 PROVE  k.st[t] = "succeeded"
      BY DEF BuildsOn
    <3>1. t \in Steps /\ t < x /\ t # x /\ x \in Nat /\ t \in Nat
      BY PlanAssumption DEF Steps
    <3>2. CASE x = s
      <4>1. Begins(j, k, s)
        BY <1>3, <3>2, <1>1 DEF Changed, Change, Settles, Refreshes, Unwinds
      <4>2. ~ (s <= t)
        BY <3>1, <3>2
      <4>3. j.st[t] = "succeeded"
        BY <3>1, <4>1, <4>2 DEF Begins
      <4> QED BY <1>3, <3>1, <3>2, <4>3
    <3>3. CASE x # s
      <4>1. j.st[x] = "applying" /\ j.st[t] = "succeeded"
        BY <1>3, <3>1, <3>3 DEF Sound, BuildsOn
      <4>2. ~ Unwinds(j, k, s) \/ s # t
        BY <3>1, <4>1 DEF Unwinds, Live
      <4> QED BY <1>3, <3>1, <4>1, <4>2, <1>1 DEF Changed, Change
    <3> QED BY <3>2, <3>3
  <2>3. Ordered(k)
    <3> SUFFICES ASSUME NEW x \in Steps, NEW t \in Steps \ Blockers, x < t,
                        k.st[x] \in {"compensating", "compensated"}
                 PROVE  ~Live(k, t)
      BY DEF Ordered
    <3>1. x # t
      BY PlanAssumption DEF Steps
    <3>2. CASE t # s /\ x # s
      BY <1>3, <3>2 DEF Sound, Ordered, Live
    <3>3. CASE x = s
      <4>1. j.st[s] = "compensating" \/ Unwinds(j, k, s)
        BY <1>3, <3>3, <1>1 DEF Changed, Change, Settles
      <4> QED BY <1>3, <3>1, <3>3, <4>1 DEF Sound, Ordered, Live, Unwinds
    <3>4. CASE t = s
      <4>1. j.st[x] \in {"compensating", "compensated"} /\ ~Live(j, s)
        BY <1>3, <3>1, <3>4 DEF Sound, Ordered
      <4>2. ~ Begins(j, k, s)
        BY <4>1 DEF Begins
      <4>3. ~ Unwinds(j, k, s)
        BY <4>1 DEF Unwinds, Live
      <4> QED BY <3>4, <4>1, <4>2, <4>3, <1>1 DEF Changed, Change, Live
    <3> QED BY <3>2, <3>3, <3>4
  <2> QED BY <2>1, <2>2, <2>3 DEF Sound
<1> QED BY <1>1, <1>2, <1>3 DEF Changed

\* Everything known of a careful turn.
TurnOf(r, j, q, s, p, d) ==
  /\ r \in Requests /\ j \in Journal /\ s \in Steps /\ p \in Phase /\ d \in {0, 1}
  /\ Entitled(r, j, q, s, p) /\ Careful(r, j, s, p) /\ Within
  /\ Moved(r, p, d) /\ Left(r, s, p, d)
  /\ p \in Saving => Change(j, mem', s, p) /\ Changed(j, mem', s, p)
  /\ p \notin Saving => mem' = j

LEMMA TurnIsKnown ==
  ASSUME TypeOK, Chained, CarefulTurn
  PROVE  \E r, j, q, s, p, d : TurnOf(r, j, q, s, p, d)
<1> PICK r \in Requests, j \in Journal, q \in Seq([by : Requests, store : Journal]), s \in Steps, p \in Phase :
      Turn(r, j, q, s, p) /\ Entitled(r, j, q, s, p) /\ Careful(r, j, s, p) /\ Within
  BY DEF CarefulTurn
<1> PICK d \in {0, 1} : Moved(r, p, d)
  BY ChainMoves
<1>1. Left(r, s, p, d)
  BY TurnFacts
<1>2. /\ p \in Saving => Change(j, mem', s, p) /\ Changed(j, mem', s, p)
      /\ p \notin Saving => mem' = j
  BY Changes DEF Turn
<1> QED BY <1>1, <1>2 DEF TurnOf

\* The journal a turn goes on with is one the invariant speaks of.
LEMMA JournalOfTurn ==
  ASSUME IndInv, NEW r, NEW j, NEW q, NEW s, NEW p, Entitled(r, j, q, s, p)
  PROVE  /\ Sound(j) /\ (~broken => Truthful(j))
         /\ \A x \in Requests :
              on[x] \notin raced /\ at[x] \in Working \cup Starting /\ ~broken =>
                j = mem /\ j.st[on[x]] = Doing(at[x]) /\ Alone(x, on[x])
<1>1. CASE j = mem
  BY <1>1 DEF IndInv, JournalsSound, JournalsTruthful, WorkIsJournalled
<1>2. CASE j = disk /\ up = "down"
  BY <1>2 DEF IndInv, JournalsSound, JournalsTruthful, Chained, Working, Starting
<1> QED BY <1>1, <1>2 DEF Entitled

\* The file is left alone or takes the snapshot r waited for.
LEMMA DiskOfTurn ==
  ASSUME NEW r, NEW j, NEW q, NEW s, NEW p, NEW d, TurnOf(r, j, q, s, p, d)
  PROVE  \/ d = 0 /\ disk' = disk /\ at[r] \notin Saving /\ p \notin Working
         \/ /\ d = 1 /\ 1 \in 1 .. Len(queue) /\ queue # <<>>
            /\ queue[1].by = r /\ disk' = queue[1].store
<1>1. CASE d = 0
  BY <1>1 DEF TurnOf, Moved
<1>2. CASE d = 1
  <2>1. 1 \in 1 .. Len(queue)
    BY <1>2 DEF TurnOf, Moved, Left
  <2>2. queue # <<>>
    BY <2>1
  <2> QED BY <1>2, <2>1, <2>2 DEF TurnOf, Moved
<1> QED BY <1>1, <1>2 DEF TurnOf

\* A request that enters a handler was about to, and is the head of a healthy chain.
LEMMA Enters ==
  ASSUME IndInv, NEW r, NEW j, NEW q, NEW s, NEW p, NEW d, TurnOf(r, j, q, s, p, d), p \in Working
  PROVE  /\ at[r] \in Starting /\ p = Doing(at[r]) /\ s = on[r] /\ d = 1 /\ ~broken
         /\ 1 \in 1 .. Len(queue) /\ queue[1].by = r /\ disk' = queue[1].store
         /\ j = mem /\ mem' = mem
<1>1. d = 1 /\ 1 \in 1 .. Len(queue) /\ queue # <<>> /\ queue[1].by = r /\ disk' = queue[1].store
  BY DiskOfTurn DEF TurnOf
<1>2. ~broken /\ up # "down"
  BY <1>1 DEF IndInv, TypeOK, Chained
<1>3. p \notin Saving
  BY DEF Working, Saving
<1> QED BY <1>1, <1>2, <1>3 DEF TurnOf, Entitled

LEMMA TurnSound ==
  ASSUME IndInv, NEW r, NEW j, NEW q, NEW s, NEW p, NEW d, TurnOf(r, j, q, s, p, d)
  PROVE  JournalsSound'
<1>1. Sound(mem)'
  <2>1. Sound(j)
    BY JournalOfTurn DEF TurnOf
  <2>2. CASE p \in Saving
    BY <2>1, <2>2, ChangeSound DEF TurnOf, Sound, BlockersOnly, BuildsOn, Ordered, Live
  <2>3. CASE p \notin Saving
    BY <2>1, <2>3 DEF TurnOf, Sound, BlockersOnly, BuildsOn, Ordered, Live
  <2> QED BY <2>2, <2>3
<1>2. \A i \in 1 .. Len(queue) : Sound(queue[i].store)
  BY DEF IndInv, JournalsSound
<1>3. disk' = disk \/ \E i \in 1 .. Len(queue) : disk' = queue[i].store
  BY DiskOfTurn
<1>4. Sound(disk')
  BY <1>2, <1>3 DEF IndInv, JournalsSound
<1>5. \A i \in 1 .. Len(queue') : Sound(queue'[i].store)
  <2> SUFFICES ASSUME NEW i \in 1 .. Len(queue') PROVE Sound(queue'[i].store)
    OBVIOUS
  <2>1. CASE i \in 1 .. Len(queue) - d
    BY <1>2, <2>1 DEF TurnOf, Left
  <2>2. CASE queue'[i].store = mem'
    BY <1>1, <2>2 DEF Sound, BlockersOnly, BuildsOn, Ordered, Live
  <2> QED BY <2>1, <2>2 DEF TurnOf, Left
<1> QED BY <1>1, <1>4, <1>5 DEF JournalsSound, Sound, BlockersOnly, BuildsOn, Ordered, Live

LEMMA TurnWork ==
  ASSUME IndInv, NEW r, NEW j, NEW q, NEW s, NEW p, NEW d, TurnOf(r, j, q, s, p, d)
  PROVE  WorkIsJournalled'
<1>0. /\ r \in Requests /\ s \in Steps /\ at'[r] = p /\ on'[r] = s /\ raced \subseteq raced' /\ broken' = broken
      /\ \A x \in Requests \ {r} : at'[x] = at[x] /\ on'[x] = on[x]
  BY DEF TurnOf, Left, Within
<1>1. ASSUME NEW x \in Requests, on[x] \notin raced, at[x] \in Working \cup Starting, ~broken
      PROVE  /\ j = mem /\ j.st[on[x]] = Doing(at[x]) /\ j.st[on[x]] \in {"applying", "compensating"}
             /\ Alone(x, on[x])
  BY <1>1, JournalOfTurn DEF TurnOf, Doing
\* A request that begins a step finds nobody at work on it.
<1>2. ASSUME p \in Starting, s \notin raced, ~broken
      PROVE  Alone(r, s)
  <2>1. j.st[s] \notin {"applying", "compensating"}
    BY <1>2 DEF TurnOf, Changed, Starting, Saving
  <2> QED BY <1>1, <1>2, <2>1 DEF Alone
\* The others' work stays in memory.
<1>3. ASSUME NEW x \in Requests \ {r}, on[x] \notin raced', at[x] \in Working \cup Starting, ~broken
      PROVE  mem'.st[on[x]] = Doing(at[x])
  <2>1. /\ j.st[on[x]] = Doing(at[x]) /\ j.st[on[x]] \in {"applying", "compensating"} /\ on[x] \in Steps
        /\ on[x] \notin raced
    BY <1>0, <1>1, <1>3 DEF IndInv, TypeOK
  <2>2. on[x] = s => mem' = j
    BY <1>0, <1>1, <1>3, <2>1 DEF TurnOf, Careful, Alone
  <2>3. CASE p \in Saving
    BY <2>1, <2>2, <2>3 DEF TurnOf, Changed
  <2>4. CASE p \notin Saving
    BY <2>1, <2>4 DEF TurnOf
  <2> QED BY <2>3, <2>4
<1>4. ASSUME NEW x \in Requests \ {r}, on[x] \notin raced'
      PROVE  /\ at[x] \in Working =>
                  /\ disk'.st[on[x]] = at[x]
                  /\ \A k \in 1 .. Len(queue') : queue'[k].store.st[on[x]] = at[x]
                  /\ \A y \in Requests \ {x} : on'[y] = on[x] => at'[y] \notin Working
             /\ at[x] \in Starting => \A i, k \in 1 .. Len(queue') :
                  queue'[i].by = x /\ i <= k => queue'[k].store.st[on[x]] = Doing(at[x])
             /\ at[x] \in Working \cup Starting /\ ~broken =>
                  \A y \in Requests \ {x} : on'[y] = on[x] => at'[y] \notin Working \cup Starting
  <2>1. on[x] \notin raced
    BY <1>0, <1>4
  <2>2. ASSUME at[x] \in Working
        PROVE  /\ disk'.st[on[x]] = at[x]
               /\ \A k \in 1 .. Len(queue') : queue'[k].store.st[on[x]] = at[x]
    <3>1. disk.st[on[x]] = at[x] /\ \A k \in 1 .. Len(queue) : queue[k].store.st[on[x]] = at[x]
      BY <2>1, <2>2 DEF IndInv, WorkIsJournalled
    <3>2. disk'.st[on[x]] = at[x]
      BY <3>1, DiskOfTurn
    <3>3. ~broken => mem'.st[on[x]] = at[x]
      BY <1>3, <1>4, <2>2 DEF Doing, Working
    <3> QED BY <3>1, <3>2, <3>3 DEF TurnOf, Left
  <2>3. ASSUME at[x] \in Starting, NEW i \in 1 .. Len(queue'), NEW k \in 1 .. Len(queue'),
               queue'[i].by = x, i <= k
        PROVE  queue'[k].store.st[on[x]] = Doing(at[x])
    <3>1. i \in 1 .. Len(queue) - d /\ i + d \in 1 .. Len(queue) /\ queue[i + d].by = x
      BY <2>3 DEF TurnOf, Left
    <3>2. CASE k \in 1 .. Len(queue) - d
      <4>1. k + d \in 1 .. Len(queue) /\ queue'[k] = queue[k + d] /\ i + d <= k + d
        BY <2>3, <3>2 DEF TurnOf, Left
      <4> QED BY <2>1, <2>3, <3>1, <4>1 DEF IndInv, WorkIsJournalled
    <3>3. CASE queue'[k].store = mem' /\ ~broken
      BY <1>3, <1>4, <2>3, <3>3
    <3> QED BY <3>2, <3>3 DEF TurnOf, Left
  <2>4. ASSUME at[x] \in Working \cup Starting, ~broken, NEW y \in Requests \ {x}, on'[y] = on[x]
        PROVE  at'[y] \notin Working \cup Starting
    <3>1. Alone(x, on[x]) /\ j.st[on[x]] \in {"applying", "compensating"}
      BY <1>1, <2>1, <2>4
    <3>2. CASE y # r
      BY <1>0, <2>4, <3>1, <3>2 DEF Alone
    <3>3. CASE y = r /\ p \in Working
      BY <1>0, <2>4, <3>1, <3>3, Enters DEF Alone
    <3>4. CASE y = r /\ p \in Starting
      BY <1>0, <1>2, <2>1, <2>4, <3>4 DEF Alone
    <3> QED BY <1>0, <3>2, <3>3, <3>4
  <2>5. ASSUME at[x] \in Working, NEW y \in Requests \ {x}, on'[y] = on[x]
        PROVE  at'[y] \notin Working
    <3>1. CASE ~broken
      BY <2>4, <2>5, <3>1
    <3>2. CASE broken /\ y # r
      BY <1>0, <2>1, <2>5, <3>2 DEF IndInv, WorkIsJournalled
    <3>3. CASE broken /\ y = r
      BY <1>0, <3>3, Enters
    <3> QED BY <3>1, <3>2, <3>3
  <2> QED BY <2>2, <2>3, <2>4, <2>5
<1>5. ASSUME s \notin raced'
      PROVE  /\ p \in Working =>
                  /\ disk'.st[s] = p
                  /\ \A k \in 1 .. Len(queue') : queue'[k].store.st[s] = p
                  /\ mem'.st[s] = p
             /\ p \in Starting => \A i, k \in 1 .. Len(queue') :
                  queue'[i].by = r /\ i <= k => queue'[k].store.st[s] = Doing(p)
             /\ p \in Starting => mem'.st[s] = Doing(p)
             /\ p \in Working \cup Starting /\ ~broken => Alone(r, s)
  <2>1. s \notin raced
    BY <1>0, <1>5
  <2>2. CASE p \in Working
    <3>1. /\ at[r] \in Starting /\ p = Doing(at[r]) /\ s = on[r] /\ d = 1 /\ ~broken
          /\ 1 \in 1 .. Len(queue) /\ queue[1].by = r /\ disk' = queue[1].store
          /\ j = mem /\ mem' = mem
      BY <2>2, Enters
    <3>2. \A k \in 1 .. Len(queue) : queue[k].store.st[s] = p
      <4>1. \A k \in 1 .. Len(queue) : 1 <= k
        BY DEF TurnOf, Left
      <4> QED BY <1>0, <2>1, <3>1, <4>1 DEF IndInv, WorkIsJournalled
    <3>3. \A k \in 1 .. Len(queue') : queue'[k].store.st[s] = p
      <4> SUFFICES ASSUME NEW k \in 1 .. Len(queue') PROVE queue'[k].store.st[s] = p
        OBVIOUS
      <4>1. k \in 1 .. Len(queue) - d
        BY <2>2 DEF TurnOf, Left, Working, Saving
      <4>2. k + d \in 1 .. Len(queue) /\ queue'[k] = queue[k + d]
        BY <4>1 DEF TurnOf, Left
      <4> QED BY <3>2, <4>2
    <3>4. mem'.st[s] = p /\ Alone(r, s)
      BY <1>0, <1>1, <2>1, <3>1
    <3> QED BY <2>2, <3>1, <3>2, <3>3, <3>4 DEF Working, Starting
  <2>3. CASE p \in Starting
    <3>1. mem'.st[s] = Doing(p)
      BY <2>3 DEF TurnOf, Changed, Starting, Saving, Doing
    <3>2. ~broken => Alone(r, s)
      BY <1>2, <2>1, <2>3
    <3>3. ASSUME NEW i \in 1 .. Len(queue'), NEW k \in 1 .. Len(queue'), queue'[i].by = r, i <= k
          PROVE  queue'[k].store = mem'
      BY <3>3 DEF TurnOf, Left
    <3> QED BY <2>3, <3>1, <3>2, <3>3 DEF Working, Starting
  <2> QED BY <2>2, <2>3
<1>6. ASSUME NEW x \in Requests, on'[x] \notin raced'
      PROVE  /\ at'[x] \in Working =>
                  /\ disk'.st[on'[x]] = at'[x]
                  /\ \A k \in 1 .. Len(queue') : queue'[k].store.st[on'[x]] = at'[x]
                  /\ \A y \in Requests \ {x} : on'[y] = on'[x] => at'[y] \notin Working
             /\ at'[x] \in Starting => \A i, k \in 1 .. Len(queue') :
                  queue'[i].by = x /\ i <= k => queue'[k].store.st[on'[x]] = Doing(at'[x])
             /\ at'[x] \in Working \cup Starting /\ ~broken' =>
                  /\ mem'.st[on'[x]] = Doing(at'[x])
                  /\ \A y \in Requests \ {x} : on'[y] = on'[x] => at'[y] \notin Working \cup Starting
  <2>1. CASE x # r
    BY <1>0, <1>3, <1>4, <1>6, <2>1
  <2>2. CASE x = r
    <3>1. p \in Working => ~broken /\ p = Doing(p)
      BY Enters DEF Working, Doing
    <3>2. p \in Working \cup Starting /\ ~broken =>
            \A y \in Requests \ {r} : on'[y] = s => at'[y] \notin Working \cup Starting
      BY <1>0, <1>5, <1>6, <2>2 DEF Alone
    <3> QED BY <1>0, <1>5, <1>6, <2>2, <3>1, <3>2
  <2> QED BY <2>1, <2>2
<1> QED BY <1>6 DEF WorkIsJournalled, Alone, Working, Starting, Doing

LEMMA TurnSeen ==
  ASSUME IndInv, NEW r, NEW j, NEW q, NEW s, NEW p, NEW d, TurnOf(r, j, q, s, p, d)
  PROVE  SeenIsTrue'
<1>0. /\ r \in Requests /\ seen'[r] = "none" /\ raced \subseteq raced'
      /\ \A x \in Requests \ {r} : at'[x] = at[x] /\ on'[x] = on[x] /\ seen'[x] = seen[x]
  BY DEF TurnOf, Left, Within
<1> SUFFICES ASSUME NEW x \in Requests, at'[x] \in {"interrupted", "blocked"}, seen'[x] = "met",
                    on'[x] \notin raced'
             PROVE  host'[on'[x]] = "met" \/ \E y \in Requests : on'[y] = on'[x] /\ at'[y] \in Working
  BY DEF SeenIsTrue
<1>1. /\ x # r /\ at[x] \in {"interrupted", "blocked"} /\ seen[x] = "met" /\ on[x] \notin raced
      /\ on'[x] = on[x] /\ on[x] \in Steps
  BY <1>0 DEF IndInv, TypeOK
\* r does not leave a handler of that step: it would have marked the inspection.
<1>2. ~ (at[r] \in Working /\ on[r] = on[x])
  BY <1>1 DEF TurnOf, Careful
<1>3. host'[on[x]] = host[on[x]]
  BY <1>1, <1>2 DEF TurnOf, Careful
<1>4. CASE host[on[x]] = "met"
  BY <1>1, <1>3, <1>4
<1>5. ASSUME NEW y \in Requests, on[y] = on[x], at[y] \in Working
      PROVE  y # r /\ on'[y] = on'[x] /\ at'[y] \in Working
  BY <1>0, <1>1, <1>2, <1>5
<1> QED BY <1>1, <1>4, <1>5 DEF IndInv, SeenIsTrue

LEMMA TurnSettling ==
  ASSUME IndInv, NEW r, NEW j, NEW q, NEW s, NEW p, NEW d, TurnOf(r, j, q, s, p, d)
  PROVE  SettlingIsTrue'
<1>0. /\ r \in Requests /\ at'[r] = p /\ on'[r] = s /\ raced \subseteq raced' /\ d \in {0, 1}
      /\ \A x \in Requests \ {r} : at'[x] = at[x] /\ on'[x] = on[x]
      /\ Len(queue) \in Nat
  BY DEF TurnOf, Left, Within
<1>1. \A k \in 1 .. Len(queue) - d :
        /\ k + d \in 1 .. Len(queue) /\ queue'[k] = queue[k + d]
        /\ queue[k + d].by \in Requests \ {r}
  BY DEF TurnOf, Left
<1> SUFFICES ASSUME NEW i \in 1 .. Len(queue'), at'[queue'[i].by] = "settling",
                    on'[queue'[i].by] \notin raced'
             PROVE  /\ host'[on'[queue'[i].by]] = "met"
                    /\ \A x \in Requests : on'[x] = on'[queue'[i].by] => at'[x] \notin Working
                    /\ \A k \in 1 .. i - 1 : on'[queue'[k].by] = on'[queue'[i].by]
                         => at'[queue'[k].by] \notin Starting
  BY DEF SettlingIsTrue
<1>2. CASE i \in 1 .. Len(queue) - d
  <2> DEFINE o == queue[i + d].by
             t == on[o]
  <2>1. /\ o \in Requests \ {r} /\ o = queue[i + d].by /\ t = on[o]
        /\ queue'[i] = queue[i + d] /\ i + d \in 1 .. Len(queue)
        /\ at[o] = "settling" /\ t = on'[queue'[i].by] /\ t \notin raced /\ t \notin raced' /\ t \in Steps
    BY <1>0, <1>1, <1>2 DEF IndInv, TypeOK
  <2> HIDE DEF o, t
  <2> PICK m \in 1 .. Len(queue) : m = i + d
    BY <2>1
  <2>2. /\ host[t] = "met" /\ \A x \in Requests : on[x] = t => at[x] \notin Working
        /\ \A k \in 1 .. m - 1 : on[queue[k].by] = t => at[queue[k].by] \notin Starting
    <3>1. at[queue[m].by] = "settling" /\ on[queue[m].by] = t /\ t \notin raced
      BY <2>1
    <3> QED BY <3>1 DEF IndInv, SettlingIsTrue
  <2>3. host'[t] = "met"
    BY <1>0, <2>1, <2>2 DEF TurnOf, Careful
  <2>4. ~ (p \in Working /\ s = t)
    <3> SUFFICES ASSUME p \in Working, s = t PROVE FALSE
      OBVIOUS
    <3>1. at[r] \in Starting /\ on[r] = t /\ d = 1 /\ queue[1].by = r
      BY Enters
    <3>2. 1 \in 1 .. m - 1
      BY <1>2, <3>1
    <3> QED BY <2>2, <3>1, <3>2
  <2>5. \A x \in Requests : on'[x] = t => at'[x] \notin Working
    BY <1>0, <2>2, <2>4
  <2>6. ASSUME NEW k \in 1 .. i - 1, on'[queue'[k].by] = t
        PROVE  at'[queue'[k].by] \notin Starting
    <3>1. k \in 1 .. Len(queue) - d /\ k + d \in 1 .. m - 1
      BY <1>0, <1>2
    <3>2. queue'[k] = queue[k + d] /\ queue[k + d].by \in Requests \ {r}
      BY <1>1, <3>1
    <3> QED BY <1>0, <2>2, <2>6, <3>1, <3>2
  <2> QED BY <2>1, <2>3, <2>5, <2>6
<1>3. CASE i = Len(queue) - d + 1 /\ queue'[i].by = r
  <2>1. p = "settling" /\ s \notin raced' /\ s = on'[queue'[i].by]
    BY <1>0, <1>3
  <2>2. host'[s] = "met" /\ Alone(r, s)
    BY <2>1 DEF TurnOf, Careful
  <2>3. \A x \in Requests : on'[x] = s => at'[x] \notin Working
    BY <1>0, <2>1, <2>2 DEF Alone, Working
  <2>4. ASSUME NEW k \in 1 .. i - 1, on'[queue'[k].by] = s
        PROVE  at'[queue'[k].by] \notin Starting
    <3>1. k \in 1 .. Len(queue) - d
      BY <1>0, <1>3
    <3>2. queue'[k].by \in Requests \ {r}
      BY <1>1, <3>1
    <3> QED BY <1>0, <2>2, <2>4, <3>2 DEF Alone
  <2> QED BY <2>1, <2>2, <2>3, <2>4
<1> QED BY <1>2, <1>3 DEF TurnOf, Left

LEMMA TurnTruthful ==
  ASSUME IndInv, NEW r, NEW j, NEW q, NEW s, NEW p, NEW d, TurnOf(r, j, q, s, p, d)
  PROVE  JournalsTruthful'
<1>0. /\ r \in Requests /\ raced \subseteq raced' /\ broken' = broken /\ on[r] \in Steps
  BY DEF TurnOf, Within, IndInv, TypeOK
\* r changes the host only where no journal shows a success.
<1>1. ASSUME at[r] \in Working, on[r] \notin raced'
      PROVE  /\ disk.st[on[r]] = at[r] /\ \A k \in 1 .. Len(queue) : queue[k].store.st[on[r]] = at[r]
             /\ at[r] # "succeeded"
  BY <1>0, <1>1 DEF IndInv, WorkIsJournalled, Working
<1>2. ASSUME NEW k, Truthful(k), at[r] \in Working /\ on[r] \notin raced' => k.st[on[r]] # "succeeded"
      PROVE  \A t \in Steps \ raced' : k.st[t] = "succeeded" /\ k.comp[t] # "failed" => host'[t] = "met"
  BY <1>0, <1>2 DEF Truthful, TurnOf, Careful
<1>3. Truthful(disk)'
  <2>1. CASE d = 0 /\ disk' = disk
    BY <1>1, <1>2, <2>1 DEF IndInv, JournalsTruthful, Truthful
  <2>2. CASE 1 \in 1 .. Len(queue) /\ disk' = queue[1].store
    BY <1>1, <1>2, <2>2 DEF IndInv, JournalsTruthful, Truthful
  <2> QED BY <2>1, <2>2, DiskOfTurn
<1>4. ASSUME ~broken
      PROVE  \A t \in Steps \ raced' : mem'.st[t] = "succeeded" /\ mem'.comp[t] # "failed" => host'[t] = "met"
  <2>1. Truthful(j)
    BY <1>4, JournalOfTurn DEF TurnOf
  <2>2. at[r] \in Working /\ on[r] \notin raced' => j.st[on[r]] = at[r]
    BY <1>0, <1>4, JournalOfTurn DEF TurnOf, Doing, Working
  <2>3. \A t \in Steps \ raced' : j.st[t] = "succeeded" /\ j.comp[t] # "failed" => host'[t] = "met"
    BY <1>2, <2>1, <2>2 DEF Working
  <2>4. CASE p \in Saving
    <3>1. ASSUME NEW t \in Steps \ raced', t # s, mem'.st[t] = "succeeded", mem'.comp[t] # "failed"
          PROVE  host'[t] = "met"
      BY <2>3, <2>4, <3>1 DEF TurnOf, Changed
    <3>2. ASSUME s \notin raced', mem'.st[s] = "succeeded", mem'.comp[s] # "failed"
          PROVE  host'[s] = "met"
      <4>1. j.st[s] = "applying"
        BY <2>4, <3>2 DEF TurnOf, Changed
      <4>2. mem' # j
        BY <3>2, <4>1
      <4> QED BY <1>4, <3>2, <4>1, <4>2 DEF TurnOf, Careful
    <3> QED BY <3>1, <3>2
  <2>5. CASE p \notin Saving
    BY <2>3, <2>5 DEF TurnOf
  <2> QED BY <2>4, <2>5
<1>5. ASSUME NEW i \in 1 .. Len(queue')
      PROVE  \A t \in Steps \ raced' :
               queue'[i].store.st[t] = "succeeded" /\ queue'[i].store.comp[t] # "failed" => host'[t] = "met"
  <2>1. CASE i \in 1 .. Len(queue) - d
    <3>1. i + d \in 1 .. Len(queue) /\ queue'[i] = queue[i + d]
      BY <2>1 DEF TurnOf, Left
    <3> QED BY <1>1, <1>2, <3>1 DEF IndInv, JournalsTruthful
  <2>2. CASE queue'[i].store = mem' /\ ~broken
    BY <1>4, <2>2
  <2> QED BY <2>1, <2>2 DEF TurnOf, Left
<1> QED BY <1>0, <1>3, <1>4, <1>5 DEF JournalsTruthful, Truthful

LEMMA TurnReplays ==
  ASSUME IndInv, TypeOK', NEW r, NEW j, NEW q, NEW s, NEW p, NEW d, TurnOf(r, j, q, s, p, d)
  PROVE  ReplaysAreConfirmed'
<1>0. /\ r \in Requests /\ s \in Steps /\ at'[r] = p /\ on'[r] = s /\ broken' = broken /\ d \in {0, 1}
      /\ \A x \in Requests \ {r} : at'[x] = at[x] /\ on'[x] = on[x]
      /\ Len(queue) \in Nat /\ Len(queue') \in Nat /\ d <= Len(queue)
      /\ tries \in [Steps -> Nat] /\ retries \in [Steps -> Nat]
      /\ tries' \in [Steps -> Nat] /\ retries' \in [Steps -> Nat]
  BY LenProperties DEF TurnOf, Left, Within, Moved, IndInv, TypeOK
<1> SUFFICES ASSUME NEW t \in Steps
             PROVE  \E n \in [0 .. Len(queue') -> Nat] : Counts(t, n)' /\ Budgeted(t, n)'
  BY DEF ReplaysAreConfirmed
<1> PICK n \in [0 .. Len(queue) -> Nat] : Counts(t, n) /\ Budgeted(t, n)
  BY DEF IndInv, ReplaysAreConfirmed
<1> DEFINE L    == Len(queue) - d
           more == IF p = "beginning" /\ s = t THEN 1 ELSE 0
           f    == [k \in 0 .. Len(queue') |-> IF k <= L THEN n[k + d] ELSE n[Len(queue)] + more]
<1>1. L \in Nat /\ (\A k \in 0 .. L : k + d \in 0 .. Len(queue)) /\ L + d = Len(queue)
  BY <1>0
<1>2. Len(queue') = L \/ Len(queue') = L + 1
  BY DEF TurnOf, Moved
<1>3. PICK m \in [0 .. Len(queue') -> Nat] :
        /\ \A k \in 0 .. L : m[k] = n[k + d]
        /\ Len(queue') = L + 1 => m[L + 1] = n[Len(queue)] + more
  <2>1. \A k \in 0 .. L : n[k + d] \in Nat
    BY <1>1
  <2>2. n[Len(queue)] + more \in Nat
    BY <1>0
  <2>3. f \in [0 .. Len(queue') -> Nat]
    <3>1. ASSUME NEW k \in 0 .. Len(queue')
          PROVE  (IF k <= L THEN n[k + d] ELSE n[Len(queue)] + more) \in Nat
      <4>1. CASE k <= L
        BY <1>0, <1>1, <2>1, <4>1
      <4>2. CASE ~ (k <= L)
        BY <2>2, <4>2
      <4> QED BY <4>1, <4>2
    <3> QED BY <3>1
  <2>4. \A k \in 0 .. L : f[k] = n[k + d]
    BY <1>1, <1>2
  <2>5. Len(queue') = L + 1 => f[L + 1] = n[Len(queue)] + more
    <3> HIDE DEF more
    <3> QED BY <1>0, <1>1
  <2> QED BY <2>3, <2>4, <2>5
<1>31. m[L] = n[Len(queue)] /\ n[Len(queue)] \in Nat /\ \A k \in 0 .. Len(queue') : m[k] \in Nat
  <2>1. L \in 0 .. L /\ Len(queue) \in 0 .. Len(queue)
    BY <1>0, <1>1
  <2>2. n[Len(queue)] \in Nat /\ \A k \in 0 .. Len(queue') : m[k] \in Nat
    BY <2>1
  <2> QED BY <1>1, <1>3, <2>1, <2>2
<1>32. more \in {0, 1} /\ (more = 1 <=> p = "beginning" /\ s = t)
  OBVIOUS
<1> HIDE DEF more
<1>33. m[Len(queue')] = n[Len(queue)] \/ m[Len(queue')] = n[Len(queue)] + more
  BY <1>2, <1>3, <1>31
\* What was still to come of the journal r goes on with.
<1>4. j.st[t] \in Fresh => n[Len(queue)] <= retries[t]
  <2>1. CASE j = mem /\ up # "down"
    BY <2>1 DEF Budgeted
  <2>2. CASE j = disk /\ up = "down"
    <3>1. Len(queue) = 0
      BY <2>2, EmptySeq DEF IndInv, Chained
    <3> QED BY <2>2, <3>1 DEF Budgeted
  <2> QED BY <2>1, <2>2 DEF TurnOf, Entitled
<1>5. /\ retries'[t] >= retries[t] /\ n[Len(queue)] <= 1 + retries[t]
      /\ p = "retrying" /\ s = t => retries'[t] >= retries[t] + 1
  BY <1>0 DEF TurnOf, Careful, Budgeted
\* A journal becomes fresh by a confirmed retry only.
<1>6. mem'.st[t] \in Fresh => m[Len(queue')] <= retries'[t]
  <2> SUFFICES ASSUME mem'.st[t] \in Fresh PROVE m[Len(queue')] <= retries'[t]
    OBVIOUS
  <2>1. ~ (p = "beginning" /\ s = t)
    BY DEF TurnOf, Changed, Saving, Fresh
  <2>2. m[Len(queue')] = n[Len(queue)]
    BY <1>31, <1>32, <1>33, <2>1
  <2>3. j.st[t] \in Fresh \/ (p = "retrying" /\ s = t)
    <3>1. CASE p \in Saving
      BY <3>1 DEF TurnOf, Changed, Fresh
    <3>2. CASE p \notin Saving
      BY <3>2 DEF TurnOf
    <3> QED BY <3>1, <3>2
  <2>4. CASE j.st[t] \in Fresh
    BY <1>0, <1>31, <1>4, <1>5, <2>2, <2>4
  <2>5. CASE p = "retrying" /\ s = t
    BY <1>0, <1>31, <1>5, <2>2, <2>5
  <2> QED BY <2>3, <2>4, <2>5
<1>7. m[Len(queue')] <= 1 + retries'[t]
  <2>1. CASE p = "beginning" /\ s = t
    <3>1. j.st[t] \in Fresh
      BY <2>1 DEF TurnOf, Changed, Saving, Fresh
    <3>2. n[Len(queue)] <= retries[t] /\ retries'[t] >= retries[t]
      BY <1>4, <1>5, <3>1
    <3>3. m[Len(queue')] <= n[Len(queue)] + 1
      BY <1>31, <1>32, <1>33
    <3>4. m[Len(queue')] \in Nat /\ retries'[t] \in Nat /\ retries[t] \in Nat
      BY <1>0, <1>31
    <3> QED BY <1>31, <3>2, <3>3, <3>4
  <2>2. CASE ~ (p = "beginning" /\ s = t)
    BY <1>0, <1>31, <1>32, <1>33, <1>5, <2>2
  <2> QED BY <2>1, <2>2
\* What leaves the chain is counted by tries, what stays is counted as before.
<1>8. m[0] = tries'[t]
  <2>1. n[0] = tries[t] /\ tries'[t] = tries[t] + IF at[r] = "beginning" /\ on[r] = t THEN 1 ELSE 0
    BY DEF TurnOf, Careful, Counts
  <2>2. CASE d = 0
    <3>1. m[0] = n[0] /\ tries[t] \in Nat
      BY <1>0, <1>1, <1>3, <2>2
    <3>2. at[r] # "beginning"
      BY <2>2, DiskOfTurn DEF Saving
    <3> QED BY <2>1, <3>1, <3>2
  <2>3. CASE d = 1 /\ 1 \in 1 .. Len(queue) /\ queue[1].by = r
    <3>1. n[1] = n[0] + IF at[r] = "beginning" /\ on[r] = t THEN 1 ELSE 0
      BY <2>3 DEF Counts
    <3> QED BY <1>1, <1>3, <2>1, <2>3, <3>1
  <2> QED BY <2>2, <2>3, DiskOfTurn
<1>9. ASSUME NEW k \in 1 .. Len(queue')
      PROVE  m[k] = m[k - 1] + IF at'[queue'[k].by] = "beginning" /\ on'[queue'[k].by] = t THEN 1 ELSE 0
  <2>1. CASE k \in 1 .. L
    <3>1. /\ k + d \in 1 .. Len(queue) /\ queue'[k] = queue[k + d] /\ queue[k + d].by \in Requests \ {r}
          /\ k - 1 \in 0 .. L /\ k \in 0 .. L /\ (k - 1) + d = (k + d) - 1
      BY <1>0, <1>1, <2>1 DEF TurnOf, Left
    <3>2. PICK i \in 1 .. Len(queue) : i = k + d
      BY <3>1
    <3>3. n[i] = n[i - 1] + IF at[queue[i].by] = "beginning" /\ on[queue[i].by] = t THEN 1 ELSE 0
      BY DEF Counts
    <3>4. m[k] = n[i] /\ m[k - 1] = n[i - 1]
      BY <1>3, <3>1, <3>2
    <3> QED BY <1>0, <3>1, <3>2, <3>3, <3>4
  <2>2. CASE k = L + 1 /\ k = Len(queue') /\ queue'[k].by = r
    <3>1. at'[r] = p /\ on'[r] = s /\ Len(queue') = L + 1 /\ k - 1 = L
      BY <1>0, <1>1, <2>2
    <3>2. m[k] = n[Len(queue)] + more /\ m[k - 1] = n[Len(queue)]
      BY <1>3, <1>31, <2>2, <3>1
    <3> QED BY <2>2, <3>1, <3>2 DEF more
  <2> QED BY <2>1, <2>2 DEF TurnOf, Left
<1>10. ASSUME NEW k \in 0 .. Len(queue')
       PROVE  m[k] <= 1 + retries'[t]
  <2>1. CASE k \in 0 .. L
    <3>1. n[k + d] <= 1 + retries[t] /\ n[k + d] \in Nat
      BY <1>1, <2>1 DEF Budgeted
    <3>2. m[k] = n[k + d] /\ retries'[t] >= retries[t] /\ retries[t] \in Nat /\ retries'[t] \in Nat
      BY <1>0, <1>3, <1>5, <2>1
    <3> QED BY <3>1, <3>2
  <2>2. CASE k = Len(queue')
    BY <1>7, <2>2
  <2> QED BY <1>1, <1>2, <2>1, <2>2
<1>11. disk'.st[t] \in Fresh => m[0] <= retries'[t]
  <2>1. CASE d = 0 /\ disk' = disk
    <3>1. disk.st[t] \in Fresh => n[0] <= retries[t]
      BY DEF Budgeted
    <3>2. m[0] = n[0] /\ m[0] \in Nat
      BY <1>0, <1>1, <1>3, <1>31, <2>1
    <3> QED BY <1>0, <1>5, <2>1, <3>1, <3>2
  <2>2. CASE d = 1 /\ 1 \in 1 .. Len(queue) /\ disk' = queue[1].store
    <3>1. queue[1].store.st[t] \in Fresh => n[1] <= retries[t]
      BY <2>2 DEF Budgeted
    <3>2. m[0] = n[1] /\ m[0] \in Nat
      BY <1>0, <1>1, <1>3, <1>31, <2>2
    <3> QED BY <1>0, <1>5, <2>2, <3>1, <3>2
  <2> QED BY <2>1, <2>2, DiskOfTurn
<1>12. ASSUME NEW k \in 1 .. Len(queue'), queue'[k].store.st[t] \in Fresh
       PROVE  m[k] <= retries'[t]
  <2>1. CASE k \in 1 .. L
    <3>1. k + d \in 1 .. Len(queue) /\ queue'[k] = queue[k + d] /\ k \in 0 .. L
      BY <1>1, <2>1 DEF TurnOf, Left
    <3>2. n[k + d] <= retries[t] /\ n[k + d] \in Nat
      BY <1>12, <3>1 DEF Budgeted
    <3>3. m[k] = n[k + d] /\ retries'[t] >= retries[t] /\ retries[t] \in Nat /\ retries'[t] \in Nat
      BY <1>0, <1>3, <1>5, <3>1
    <3> QED BY <3>2, <3>3
  <2>2. CASE k = Len(queue') /\ queue'[k].store = mem'
    BY <1>6, <1>12, <2>2
  <2> QED BY <2>1, <2>2 DEF TurnOf, Left
<1> HIDE DEF L
<1>13. Counts(t, m)'
  BY <1>8, <1>9 DEF Counts
<1>14. Budgeted(t, m)'
  BY <1>6, <1>10, <1>11, <1>12 DEF Budgeted
<1> QED BY <1>3, <1>13, <1>14

-----------------------------------------------------------------------------
(* Which actions are careful turns.                                        *)

\* A turn that settles nothing, by a request that is not inside a handler.
Quiet(r, j, s, p) ==
  /\ mem' = j \/ j.st[s] \notin {"applying", "compensating"}
  /\ p # "settling" /\ at[r] \notin Working /\ host' = host
  /\ \A t \in Steps : tries'[t] = tries[t] + IF at[r] = "beginning" /\ on[r] = t THEN 1 ELSE 0
  /\ \A t \in Steps : retries'[t] >= retries[t]
  /\ p = "retrying" => retries'[s] > retries[s]

LEMMA QuietTurn ==
  ASSUME NEW r \in Requests, NEW j \in Journal, NEW q \in Seq([by : Requests, store : Journal]),
         NEW s \in Steps, NEW p \in Phase, Turn(r, j, q, s, p), Entitled(r, j, q, s, p), Within,
         Quiet(r, j, s, p)
  PROVE  CarefulTurn
<1>1. Careful(r, j, s, p)
  BY DEF Careful, Quiet
<1> QED BY <1>1 DEF CarefulTurn

\* A turn that may settle the step its request is at.
Settling(r, q, s) ==
  /\ s = on[r]
  /\ \/ q = queue /\ disk' = disk /\ at[r] \notin Saving
     \/ queue # <<>> /\ r = Head(queue).by /\ q = Tail(queue) /\ disk' = Head(queue).store
  /\ up # "down" /\ up' = up /\ at[r] # "beginning" /\ tries' = tries /\ retries' = retries
  /\ \A t \in Steps : host'[t] # host[t] => t = s /\ at[r] \in Working
  /\ at[r] \in Working /\ s \notin raced' => \A x \in Requests : on[x] = s => seen[x] # "met"
  /\ mem' # mem /\ s \notin raced' /\ ~broken =>
       /\ Alone(r, s)
       /\ mem.st[s] = "applying" /\ mem'.st[s] = "succeeded" => host'[s] = "met"

LEMMA SettlingTurn ==
  ASSUME IndInv, NEW r \in Requests, NEW q \in Seq([by : Requests, store : Journal]), NEW s,
         NEW phase \in {"ending", "compEnding", "finishing"}, Ends(r, q, s, phase),
         Settling(r, q, s), Within
  PROVE  CarefulTurn
<1> USE DEF Settling
<1>1. /\ mem \in Journal /\ s \in Steps /\ 1 \in Steps
      /\ tries \in [Steps -> Nat] /\ retries \in [Steps -> Nat]
  <2>1. 1 \in Steps
    BY PlanAssumption DEF Steps
  <2> QED BY <2>1 DEF IndInv, TypeOK
<1>2. \A t \in Steps : /\ tries'[t] = tries[t] + IF at[r] = "beginning" /\ on[r] = t THEN 1 ELSE 0
                       /\ retries'[t] >= retries[t]
  BY <1>1
<1>3. CASE Turn(r, mem, q, 1, "idle")
  <2>1. "idle" \in Phase /\ "idle" \notin Saving /\ "idle" \notin Working
    BY DEF Phase, Saving, Working
  <2>2. Entitled(r, mem, q, 1, "idle")
    BY <2>1 DEF Entitled
  <2>3. mem' = mem
    BY <1>3, <2>1 DEF Turn
  <2>4. Careful(r, mem, 1, "idle")
    BY <1>2, <2>3 DEF Careful
  <2> QED BY <1>1, <1>3, <2>1, <2>2, <2>4 DEF CarefulTurn
<1>4. CASE Turn(r, mem, q, s, phase)
  <2>1. phase \in Phase /\ phase \notin Working
    BY DEF Phase, Saving, Working
  <2>2. Entitled(r, mem, q, s, phase)
    BY <2>1 DEF Entitled
  <2>3. Careful(r, mem, s, phase)
    BY <1>2 DEF Careful
  <2> QED BY <1>1, <1>4, <2>1, <2>2, <2>3 DEF CarefulTurn
<1> QED BY <1>3, <1>4 DEF Ends

\* What a request needs to know of itself.
LEMMA RequestFacts ==
  ASSUME IndInv, NEW r \in Requests
  PROVE  /\ mem \in Journal /\ disk \in Journal /\ on[r] \in Steps /\ 1 \in Steps
         /\ queue \in Seq([by : Requests, store : Journal]) /\ host \in [Steps -> {"none", "partial", "met"}]
         /\ tries \in [Steps -> Nat] /\ retries \in [Steps -> Nat] /\ raced \subseteq Steps
         /\ at[r] # "idle" => up # "down"
         /\ BlockersOnly(mem) /\ BlockersOnly(disk)
<1>1. 1 \in Steps
  BY PlanAssumption DEF Steps
<1>2. at[r] # "idle" => up # "down"
  BY DEF IndInv, Chained
<1>3. BlockersOnly(mem) /\ BlockersOnly(disk)
  BY DEF IndInv, JournalsSound, Sound
<1> QED BY <1>1, <1>2, <1>3 DEF IndInv, TypeOK

LEMMA CreateTurn ==
  ASSUME IndInv, NEW r \in Requests, Create(r)
  PROVE  CarefulTurn
<1> USE RequestFacts
<1>1. Change(mem, mem', 1, "finishing") /\ mem.st[1] = "absent"
  BY DEF Create, Save, Change, In
<1>2. Turn(r, mem, queue, 1, "finishing") /\ "finishing" \in Phase
  BY <1>1 DEF Turn, Create, Save, Phase, Saving
<1>3. Entitled(r, mem, queue, 1, "finishing") /\ Within /\ at[r] = "idle"
  BY DEF Create, Serving, Entitled, Within, same, history, Working, Saving
<1>4. Quiet(r, mem, 1, "finishing")
  BY <1>1, <1>3 DEF Create, history, Working, Quiet
<1> QED BY <1>2, <1>3, <1>4, QuietTurn

LEMMA ContinueTurn ==
  ASSUME IndInv, NEW r \in Requests, Continue(r)
  PROVE  CarefulTurn
<1> USE RequestFacts
<1>1. PICK s \in Steps, p \in {"idle", "interrupted", "undone", "blocked", "beginning"} :
        Turn(r, mem, queue, s, p)
  BY RunNextTurn DEF Continue, Turn
<1>2. Entitled(r, mem, queue, s, p) /\ Within /\ at[r] = "idle" /\ p \in Phase
  BY DEF Continue, Serving, Entitled, Within, same, history, Working, Saving, Phase, Inspecting
<1>3. mem' = mem \/ mem.st[s] \notin {"applying", "compensating"}
  <2>1. CASE p = "beginning"
    <3>1. Changed(mem, mem', s, p)
      BY <1>1, <2>1, Changes DEF Turn, Saving
    <3> QED BY <2>1, <3>1 DEF Changed
  <2>2. CASE p # "beginning"
    BY <1>1, <2>2 DEF Turn, Saving
  <2> QED BY <2>1, <2>2
<1>4. Quiet(r, mem, s, p)
  BY <1>2, <1>3 DEF Continue, history, Working, Quiet
<1> QED BY <1>1, <1>2, <1>4, QuietTurn

LEMMA RetryTurn ==
  ASSUME IndInv, NEW r \in Requests, Retry(r)
  PROVE  CarefulTurn
<1> USE RequestFacts
<1>1. PICK s \in Steps :
        /\ Serving(r) /\ mem.st[s] = "failed" /\ retries' = [retries EXCEPT ![s] = @ + 1]
        /\ Save(r, queue, ToErr(mem, s, "pending", FALSE), "retrying", s)
        /\ UNCHANGED <<same, host, tries, raced>>
  BY DEF Retry
<1>2. Turn(r, mem, queue, s, "retrying") /\ "retrying" \in Phase
  BY <1>1 DEF Turn, Save, Change, Phase, Saving
<1>3. Entitled(r, mem, queue, s, "retrying") /\ Within /\ at[r] = "idle"
  BY <1>1 DEF Serving, Entitled, Within, same, Working, Saving
<1>4. \A t \in Steps : retries'[t] >= retries[t] /\ retries'[s] > retries[s]
  BY <1>1
<1>5. Quiet(r, mem, s, "retrying")
  BY <1>1, <1>3, <1>4 DEF Working, Quiet
<1> QED BY <1>2, <1>3, <1>5, QuietTurn

LEMMA CompensateTurn ==
  ASSUME IndInv, NEW r \in Requests, Compensate(r)
  PROVE  CarefulTurn
<1> USE RequestFacts
<1>1. PICK s \in Compensable :
        \/ mem.st[s] = "compensating" /\ Wait(r, "undone", s) /\ UNCHANGED <<mem, queue>>
        \/ /\ MayCompensate(s) /\ \A t \in Steps : t > s => ~Live(mem, t)
           /\ Save(r, queue, ToComp(mem, s, "compensating", "applying"), "compBeginning", s)
  BY DEF Compensate
<1>2. s \in Steps /\ at[r] = "idle" /\ Within
  BY PlanAssumption DEF Compensate, Serving, Within, same, history
<1>3. CASE Wait(r, "undone", s) /\ UNCHANGED <<mem, queue>>
  <2>1. Turn(r, mem, queue, s, "undone") /\ "undone" \in Phase
    BY <1>2, <1>3 DEF Turn, Phase, Inspecting, Saving
  <2>2. Entitled(r, mem, queue, s, "undone")
    BY <1>2 DEF Compensate, Serving, Entitled, same, Working, Saving
  <2>3. Quiet(r, mem, s, "undone")
    BY <1>2, <1>3 DEF Compensate, history, Working, Quiet
  <2> QED BY <1>2, <2>1, <2>2, <2>3, QuietTurn
<1>4. CASE /\ MayCompensate(s) /\ \A t \in Steps : t > s => ~Live(mem, t)
           /\ Save(r, queue, ToComp(mem, s, "compensating", "applying"), "compBeginning", s)
  <2>1. Turn(r, mem, queue, s, "compBeginning") /\ "compBeginning" \in Phase
    BY <1>2, <1>4 DEF Turn, Phase, Saving, Save, Change, Unwinds, MayCompensate
  <2>2. Entitled(r, mem, queue, s, "compBeginning")
    BY <1>2 DEF Compensate, Serving, Entitled, same, Working, Saving
  <2>3. Quiet(r, mem, s, "compBeginning")
    BY <1>2, <1>4 DEF Compensate, history, Working, Quiet, MayCompensate
  <2> QED BY <1>2, <2>1, <2>2, <2>3, QuietTurn
<1> QED BY <1>1, <1>3, <1>4

\* What the failing and the blocking call leave.
LEMMA SettledStatus ==
  ASSUME mem \in Journal, NEW r, NEW q, NEW s \in Steps, NEW phase, mem.st[s] = "applying"
  PROVE  /\ FailStep(r, s, phase) => mem'.st[s] = "failed"
         /\ BlockStep(r, q, s, phase) => mem'.st[s] = "blocked"
<1>1. ToErr(mem, s, "failed", TRUE).st[s] = "failed" /\ ToErr(mem, s, "blocked", TRUE).st[s] = "blocked"
  BY DEF ToErr, Journal
<1> QED BY <1>1 DEF FailStep, BlockStep, Save

\* A request inside a handler is alone there, and memory knows, unless raced or broken.
LEMMA HandlerFacts ==
  ASSUME IndInv, NEW r \in Requests, at[r] \in Working, on[r] \notin raced, ~broken
  PROVE  mem.st[on[r]] = at[r] /\ Alone(r, on[r])
BY DEF IndInv, WorkIsJournalled, Working, Doing

LEMMA AppliedTurn ==
  ASSUME IndInv, NEW r \in Requests, Applied(r)
  PROVE  CarefulTurn
<1> USE RequestFacts
<1> DEFINE s == on[r]
<1>1. /\ at[r] = "applying" /\ at[r] \in Working /\ at[r] \notin Saving /\ s \in Steps
      /\ up # "down" /\ up' = up /\ disk' = disk /\ tries' = tries /\ retries' = retries
      /\ UNCHANGED <<broken, faults, crashes>>
  BY DEF Applied, Working, Saving, same
<1>2. /\ raced \subseteq raced' /\ raced' \subseteq Steps
      /\ s \notin raced' => \A x \in Requests : on[x] = s => seen[x] # "met"
  BY <1>1 DEF Applied, Outdates
<1>3. PICK phase \in {"ending", "finishing"} :
        /\ Ends(r, queue, s, phase)
        /\ \E h \in {"none", "partial", "met"} : host' = [host EXCEPT ![s] = h]
        /\ mem.st[s] = "applying" /\ mem'.st[s] = "succeeded" => host'[s] = "met"
  <2>1. CASE host' = [host EXCEPT ![s] = "met"] /\ CompleteStep(r, queue, s, "ending")
    <3>1. Ends(r, queue, s, "ending")
      BY <1>1, <2>1, SettleTurn DEF IndInv
    <3> QED BY <1>1, <2>1, <3>1
  <2>2. CASE s \in Blockers /\ UNCHANGED host /\ BlockStep(r, queue, s, "ending")
    <3>1. Ends(r, queue, s, "ending")
      BY <1>1, <2>2, SettleTurn DEF IndInv
    <3>2. mem.st[s] = "applying" => mem'.st[s] = "blocked"
      BY <1>1, <2>2, SettledStatus
    <3>3. host' = [host EXCEPT ![s] = host[s]] /\ host[s] \in {"none", "partial", "met"}
      BY <1>1, <2>2
    <3> QED BY <3>1, <3>2, <3>3
  <2>3. CASE /\ \E h \in {host[s], "none"} : host' = [host EXCEPT ![s] = h]
             /\ FailStep(r, s, "finishing")
    <3>1. Ends(r, queue, s, "finishing")
      BY <1>1, <2>3, SettleTurn DEF IndInv
    <3>2. mem.st[s] = "applying" => mem'.st[s] = "failed"
      BY <1>1, <2>3, SettledStatus
    <3>3. host[s] \in {"none", "partial", "met"}
      BY <1>1
    <3> QED BY <2>3, <3>1, <3>2, <3>3
  <2> QED BY <1>1, <2>1, <2>2, <2>3 DEF Applied
<1>4. Within
  BY <1>1, <1>2, <1>3 DEF Within
<1>5. \A t \in Steps : host'[t] # host[t] => t = s /\ at[r] \in Working
  BY <1>1, <1>3
<1>6. s \notin raced' /\ ~broken => Alone(r, s)
  BY <1>1, <1>2, HandlerFacts
<1>7. mem' # mem /\ s \notin raced' /\ ~broken =>
        /\ Alone(r, s)
        /\ mem.st[s] = "applying" /\ mem'.st[s] = "succeeded" => host'[s] = "met"
  BY <1>3, <1>6
<1>8. phase \in {"ending", "compEnding", "finishing"} /\ Ends(r, queue, s, phase)
  BY <1>3
<1>9. Settling(r, queue, s)
  BY <1>1, <1>2, <1>5, <1>7 DEF Settling
<1> QED BY <1>1, <1>4, <1>8, <1>9, SettlingTurn

LEMMA CompensatedTurn ==
  ASSUME IndInv, NEW r \in Requests, Compensated(r)
  PROVE  CarefulTurn
<1> USE RequestFacts
<1> DEFINE s == on[r]
<1>1. /\ at[r] = "compensating" /\ at[r] \in Working /\ at[r] \notin Saving /\ s \in Steps
      /\ up # "down" /\ up' = up /\ disk' = disk /\ tries' = tries /\ retries' = retries
      /\ UNCHANGED <<broken, faults, crashes>>
  BY DEF Compensated, Working, Saving, same
<1>2. /\ raced \subseteq raced' /\ raced' \subseteq Steps
      /\ s \notin raced' => \A x \in Requests : on[x] = s => seen[x] # "met"
  BY <1>1 DEF Compensated, Outdates
<1>3. /\ Ends(r, queue, s, "compEnding")
      /\ \E h \in {"none", "partial", "met"} : host' = [host EXCEPT ![s] = h]
  <2>1. CASE host' = [host EXCEPT ![s] = "none"] /\ CompleteCompensation(r, s, "compEnding")
    BY <1>1, <2>1, SettleTurn DEF IndInv
  <2>2. CASE UNCHANGED host /\ FailCompensation(r, s)
    <3>1. Ends(r, queue, s, "compEnding")
      BY <1>1, <2>2, SettleTurn DEF IndInv
    <3>2. host' = [host EXCEPT ![s] = host[s]] /\ host[s] \in {"none", "partial", "met"}
      BY <1>1, <2>2
    <3> QED BY <3>1, <3>2
  <2> QED BY <2>1, <2>2 DEF Compensated
<1>4. Within
  BY <1>1, <1>2, <1>3 DEF Within
<1>5. \A t \in Steps : host'[t] # host[t] => t = s /\ at[r] \in Working
  BY <1>1, <1>3
<1>6. s \notin raced' /\ ~broken => Alone(r, s) /\ mem.st[s] = "compensating"
  BY <1>1, <1>2, HandlerFacts
<1>7. mem' # mem /\ s \notin raced' /\ ~broken =>
        /\ Alone(r, s)
        /\ mem.st[s] = "applying" /\ mem'.st[s] = "succeeded" => host'[s] = "met"
  BY <1>6
<1>8. Settling(r, queue, s)
  BY <1>1, <1>2, <1>5, <1>7 DEF Settling
<1> QED BY <1>1, <1>3, <1>4, <1>8, SettlingTurn

\* A consequence drawn while nobody is in the way is drawn alone.
LEMMA NotedFacts ==
  ASSUME IndInv, NEW r \in Requests, Noted(r)
  PROVE  /\ raced \subseteq raced' /\ raced' \subseteq Steps
         /\ mem' # mem /\ on[r] \notin raced' => Alone(r, on[r])
<1> USE RequestFacts
<1>1. on[r] \in Steps /\ raced \subseteq Steps
  OBVIOUS
<1>2. ~Busy(r) => Alone(r, on[r])
  BY DEF Busy, Alone, Working, Starting
<1> QED BY <1>1, <1>2 DEF Noted

\* Alone, an inspection that found the goal reached is right.
LEMMA AloneSees ==
  ASSUME IndInv, NEW r \in Requests, at[r] \in {"interrupted", "blocked"}, seen[r] = "met",
         on[r] \notin raced, Alone(r, on[r])
  PROVE  host[on[r]] = "met"
<1>1. at[r] \notin Working
  BY DEF Working
<1> QED BY <1>1 DEF IndInv, SeenIsTrue, Alone

LEMMA ReconcileInterruptedTurn ==
  ASSUME IndInv, NEW r \in Requests, ReconcileInterrupted(r)
  PROVE  CarefulTurn
<1> USE RequestFacts
<1> DEFINE s == on[r]
<1>1. /\ at[r] = "interrupted" /\ at[r] \notin Saving /\ at[r] \notin Working /\ s \in Steps /\ host' = host
      /\ up # "down" /\ up' = up /\ disk' = disk /\ tries' = tries /\ retries' = retries
      /\ UNCHANGED <<broken, faults, crashes>> /\ Noted(r)
  BY DEF ReconcileInterrupted, Working, Saving, same
<1>2. /\ Ends(r, queue, s, "finishing")
      /\ mem.st[s] = "applying" /\ mem'.st[s] = "succeeded" => seen[r] = "met"
  <2>1. CASE seen[r] = "met" /\ CompleteStep(r, queue, s, "finishing")
    BY <1>1, <2>1, SettleTurn DEF IndInv
  <2>2. CASE FailStep(r, s, "finishing")
    <3>1. mem.st[s] = "applying" => mem'.st[s] = "failed"
      BY <1>1, <2>2, SettledStatus
    <3> QED BY <1>1, <2>2, <3>1, SettleTurn DEF IndInv
  <2>3. CASE Return(r, queue)
    BY <2>3 DEF Return, Done, Ends, Turn, Phase, Saving
  <2> QED BY <2>1, <2>2, <2>3 DEF ReconcileInterrupted
<1>3. /\ raced \subseteq raced' /\ raced' \subseteq Steps
      /\ mem' # mem /\ s \notin raced' => Alone(r, s)
  BY <1>1, NotedFacts
<1>4. Within
  BY <1>1, <1>3 DEF Within
<1>5. mem' # mem /\ s \notin raced' /\ mem.st[s] = "applying" /\ mem'.st[s] = "succeeded" => host'[s] = "met"
  BY <1>1, <1>2, <1>3, AloneSees
<1>6. Settling(r, queue, s)
  BY <1>1, <1>3, <1>5 DEF Settling
<1> QED BY <1>1, <1>2, <1>4, <1>6, SettlingTurn

LEMMA ReconcileUndoneTurn ==
  ASSUME IndInv, NEW r \in Requests, ReconcileUndone(r)
  PROVE  CarefulTurn
<1> USE RequestFacts
<1> DEFINE s == on[r]
<1>1. /\ at[r] = "undone" /\ at[r] \notin Saving /\ at[r] \notin Working /\ s \in Steps /\ host' = host
      /\ up # "down" /\ up' = up /\ disk' = disk /\ tries' = tries /\ retries' = retries
      /\ UNCHANGED <<broken, faults, crashes>> /\ Noted(r)
  BY DEF ReconcileUndone, Working, Saving, same
<1>2. /\ Ends(r, queue, s, "finishing")
      /\ mem.st[s] = "applying" => mem' = mem
  <2>1. CASE CompleteCompensation(r, s, "finishing")
    BY <1>1, <2>1, SettleTurn DEF IndInv, CompleteCompensation, Return
  <2>2. CASE Return(r, queue)
    BY <2>2 DEF Return, Done, Ends, Turn, Phase, Saving
  <2> QED BY <2>1, <2>2 DEF ReconcileUndone
<1>3. /\ raced \subseteq raced' /\ raced' \subseteq Steps
      /\ mem' # mem /\ s \notin raced' => Alone(r, s)
  BY <1>1, NotedFacts
<1>4. Within
  BY <1>1, <1>3 DEF Within
<1>5. Settling(r, queue, s)
  BY <1>1, <1>2, <1>3 DEF Settling
<1> QED BY <1>1, <1>2, <1>4, <1>5, SettlingTurn

LEMMA ReconcileBlockedTurn ==
  ASSUME IndInv, NEW r \in Requests, ReconcileBlocked(r)
  PROVE  CarefulTurn
<1> USE RequestFacts
<1> DEFINE s == on[r]
<1>1. /\ at[r] = "blocked" /\ at[r] \notin Saving /\ at[r] \notin Working /\ s \in Steps /\ host' = host
      /\ up # "down" /\ up' = up /\ disk' = disk /\ tries' = tries /\ retries' = retries
      /\ UNCHANGED <<broken, faults, crashes>> /\ Noted(r) /\ s \in Blockers
  BY DEF ReconcileBlocked, Working, Saving, same, IndInv, Chained
<1>2. /\ raced \subseteq raced' /\ raced' \subseteq Steps
      /\ mem' # mem /\ s \notin raced' => Alone(r, s)
  BY <1>1, NotedFacts
<1>3. Within
  BY <1>1, <1>2 DEF Within
<1>4. CASE /\ Ends(r, queue, s, "finishing")
           /\ mem.st[s] = "applying" /\ mem'.st[s] = "succeeded" => seen[r] = "met"
  <2>1. mem' # mem /\ s \notin raced' /\ mem.st[s] = "applying" /\ mem'.st[s] = "succeeded" => host'[s] = "met"
    BY <1>1, <1>2, <1>4, AloneSees
  <2>2. Settling(r, queue, s)
    BY <1>1, <1>2, <2>1 DEF Settling
  <2> QED BY <1>1, <1>3, <1>4, <2>2, SettlingTurn
<1>5. ASSUME NEW p \in {"settling", "refreshing"}, mem.st[s] \in {"pending", "blocked"},
             p = "settling" => seen[r] = "met", Save(r, queue, ToErr(mem, s, "applying", FALSE), p, s)
      PROVE  CarefulTurn
  <2>1. Refreshes(mem, mem', s) /\ p \in Saving /\ p \in Phase /\ p \notin Working
    BY <1>1, <1>5 DEF Refreshes, Save, Saving, Phase, Working
  <2>2. Turn(r, mem, queue, s, p)
    BY <1>1, <1>5, <2>1 DEF Turn, Save, Change
  <2>3. Entitled(r, mem, queue, s, p)
    BY <1>1, <2>1 DEF Entitled
  <2>4. mem' # mem
    <3>1. ToErr(mem, s, "applying", FALSE).st[s] = "applying"
      BY <1>1 DEF ToErr, Journal
    <3> QED BY <1>5, <3>1 DEF Save
  <2>5. p = "settling" /\ s \notin raced' => host'[s] = "met" /\ Alone(r, s)
    BY <1>1, <1>2, <1>5, <2>4, AloneSees
  <2>6. Careful(r, mem, s, p)
    BY <1>1, <1>5, <2>5 DEF Careful
  <2> QED BY <1>1, <1>3, <2>1, <2>2, <2>3, <2>6 DEF CarefulTurn
<1>6. CASE Return(r, queue)
  BY <1>4, <1>6 DEF Return, Done, Ends, Turn, Phase, Saving
<1>7. CASE seen[r] = "met" /\ CompleteStep(r, queue, s, "finishing")
  BY <1>1, <1>4, <1>7, SettleTurn DEF IndInv
<1>8. CASE BlockStep(r, queue, s, "finishing")
  <2>1. mem.st[s] = "applying" => mem'.st[s] = "blocked"
    BY <1>1, <1>8, SettledStatus
  <2> QED BY <1>1, <1>4, <1>8, <2>1, SettleTurn DEF IndInv
<1> QED BY <1>1, <1>5, <1>6, <1>7, <1>8 DEF ReconcileBlocked

LEMMA WrittenTurn ==
  ASSUME IndInv, Written
  PROVE  CarefulTurn
<1> DEFINE r == Head(queue).by
           q == Tail(queue)
           s == on[r]
<1>0. /\ queue # <<>> /\ queue \in Seq([by : Requests, store : Journal])
      /\ r \in Requests /\ q \in Seq([by : Requests, store : Journal])
  <2>1. queue # <<>> /\ queue \in Seq([by : Requests, store : Journal])
    BY DEF Written, IndInv, TypeOK
  <2>2. Head(queue) \in [by : Requests, store : Journal] /\ q \in Seq([by : Requests, store : Journal])
    BY <2>1, HeadTailProperties
  <2> QED BY <2>1, <2>2
<1> HIDE DEF q
<1> USE RequestFacts
<1>1. at[r] \in Saving /\ at[r] \notin Working /\ s \in Steps /\ up # "down" /\ ~broken
  <2>1. 1 \in 1 .. Len(queue) /\ Head(queue) = queue[1]
    BY <1>0, EmptySeq, LenProperties
  <2>2. at[r] \in Saving /\ up # "down"
    BY <1>0, <2>1 DEF IndInv, Chained
  <2> QED BY <1>0, <2>2 DEF Saving, Working, IndInv, TypeOK
<1>2. /\ disk' = Head(queue).store /\ AfterWrite(r, q) /\ up' = up /\ host' = host /\ retries' = retries
      /\ UNCHANGED <<broken, faults, crashes>>
      /\ \A t \in Steps : tries'[t] = tries[t] + IF at[r] = "beginning" /\ on[r] = t THEN 1 ELSE 0
      /\ at[r] # "beginning" => tries' = tries
      /\ tries' \in [Steps -> Nat]
      /\ IF at[r] \in {"refreshing", "settling"} THEN Noted(r) ELSE raced' = raced
  <2>1. tries' = [t \in Steps |-> IF at[r] = "beginning" /\ on[r] = t THEN tries[t] + 1 ELSE tries[t]]
    BY DEF Written
  <2>2. tries \in [Steps -> Nat]
    BY DEF IndInv, TypeOK
  <2> QED BY <2>1, <2>2 DEF Written, q
<1>3. /\ raced \subseteq raced' /\ raced' \subseteq Steps
      /\ at[r] \in {"refreshing", "settling"} /\ mem' # mem /\ s \notin raced' => Alone(r, s)
  BY <1>0, <1>2, NotedFacts DEF IndInv, TypeOK
<1>4. Within
  BY <1>0, <1>2, <1>3 DEF Within
<1> DEFINE P(t, p) == Entitled(r, mem, q, t, p)
<1>5. ASSUME NEW t, NEW p, p \in Working => at[r] \in Starting /\ p = Doing(at[r]) /\ t = s
      PROVE  P(t, p)
  BY <1>0, <1>1, <1>2, <1>5 DEF Entitled, q
<1>6. ASSUME NEW t \in Steps, NEW p \in Phase, Turn(r, mem, q, t, p), P(t, p), p \notin {"settling", "retrying"},
             mem' = mem \/ mem.st[t] \notin {"applying", "compensating"}
      PROVE  CarefulTurn
  <2>1. Quiet(r, mem, t, p)
    BY <1>0, <1>1, <1>2, <1>6 DEF Quiet
  <2> QED BY <1>0, <1>4, <1>6, <2>1, QuietTurn
<1>7. CASE at[r] \in Starting
  <2>1. mem' = mem /\ queue' = q /\ Wait(r, Doing(at[r]), s)
    BY <1>2, <1>7 DEF AfterWrite, Starting, Doing
  <2>2. Doing(at[r]) \in Phase /\ Doing(at[r]) \notin Saving /\ Doing(at[r]) \notin {"settling", "retrying", "blocked"}
    BY DEF Doing, Phase, Saving
  <2>3. Turn(r, mem, q, s, Doing(at[r]))
    BY <1>1, <2>1, <2>2 DEF Turn
  <2> QED BY <1>1, <1>5, <1>6, <1>7, <2>1, <2>2, <2>3
<1>8. CASE at[r] = "retrying"
  <2>1. RunNext(r, q, mem)
    BY <1>2, <1>8 DEF AfterWrite
  <2>2. PICK t \in Steps, p \in {"idle", "interrupted", "undone", "blocked", "beginning"} :
          Turn(r, mem, q, t, p)
    BY <1>0, <2>1, RunNextTurn
  <2>3. p \in Phase /\ p \notin Working /\ p \notin {"settling", "retrying"}
    BY DEF Phase, Inspecting, Saving, Working
  <2>4. mem' = mem \/ mem.st[t] \notin {"applying", "compensating"}
    <3>1. CASE p = "beginning"
      <4>1. Changed(mem, mem', t, p)
        BY <1>0, <2>2, <3>1, Changes DEF Turn, Saving
      <4> QED BY <3>1, <4>1 DEF Changed
    <3>2. CASE p # "beginning"
      BY <2>2, <3>2 DEF Turn, Saving
    <3> QED BY <3>1, <3>2
  <2> QED BY <1>5, <1>6, <2>2, <2>3, <2>4
<1>9. CASE at[r] \in {"refreshing", "settling"}
  <2>1. s \in Blockers
    BY <1>0, <1>9 DEF IndInv, Chained
  <2>2. CASE at[r] = "refreshing"
    <3>1. BlockStep(r, q, s, "finishing")
      BY <1>2, <2>2 DEF AfterWrite
    <3>2. Ends(r, q, s, "finishing")
      BY <1>0, <1>1, <2>1, <3>1, SettleTurn DEF IndInv
    <3>3. mem.st[s] = "applying" => mem'.st[s] = "blocked"
      BY <1>0, <1>1, <3>1, SettledStatus
    <3>4. Settling(r, q, s)
      BY <1>0, <1>1, <1>2, <1>3, <1>9, <3>3 DEF Settling, q
    <3> QED BY <1>0, <1>4, <3>2, <3>4, SettlingTurn
  <2>3. CASE at[r] = "settling"
    <3>1. CompleteStep(r, q, s, "finishing")
      BY <1>2, <2>3 DEF AfterWrite
    <3>2. Ends(r, q, s, "finishing")
      BY <1>0, <1>1, <3>1, SettleTurn DEF IndInv
    <3>3. s \notin raced => host[s] = "met"
      <4>1. 1 \in 1 .. Len(queue) /\ Head(queue) = queue[1]
        BY <1>0, EmptySeq, LenProperties
      <4> QED BY <2>3, <4>1 DEF IndInv, SettlingIsTrue
    <3>4. Settling(r, q, s)
      BY <1>0, <1>1, <1>2, <1>3, <1>9, <3>3 DEF Settling, q
    <3> QED BY <1>0, <1>4, <3>2, <3>4, SettlingTurn
  <2> QED BY <1>9, <2>2, <2>3
<1>10. CASE at[r] \in {"ending", "compEnding", "finishing"}
  <2>1. mem' = mem /\ queue' = q /\ Wait(r, "idle", 1)
    BY <1>2, <1>10 DEF AfterWrite, Return, Done
  <2>2. "idle" \in Phase /\ "idle" \notin Saving /\ "idle" \notin Working /\ 1 \in Steps
    BY <1>0 DEF Phase, Saving, Working
  <2>3. Turn(r, mem, q, 1, "idle")
    BY <2>1, <2>2 DEF Turn
  <2> QED BY <1>5, <1>6, <2>1, <2>2, <2>3
<1> QED BY <1>1, <1>7, <1>8, <1>9, <1>10 DEF Saving, Starting

LEMMA StartingBootTurn ==
  ASSUME IndInv, NEW r \in Requests, up = "down", up' = "starting", RunNext(r, queue, disk),
         UNCHANGED <<disk, broken, host, history, faults, crashes>>
  PROVE  CarefulTurn
<1> USE RequestFacts
<1>1. PICK s \in Steps, p \in {"idle", "interrupted", "undone", "blocked", "beginning"} :
        Turn(r, disk, queue, s, p)
  BY RunNextTurn
<1>2. at[r] = "idle" /\ p \in Phase
  BY DEF IndInv, Chained, Phase, Inspecting, Saving
<1>3. Entitled(r, disk, queue, s, p) /\ Within
  BY <1>2 DEF Entitled, Within, history, Working, Saving
<1>4. mem' = disk \/ disk.st[s] \notin {"applying", "compensating"}
  <2>1. CASE p = "beginning"
    <3>1. Changed(disk, mem', s, p)
      BY <1>1, <2>1, Changes DEF Turn, Saving
    <3> QED BY <2>1, <3>1 DEF Changed
  <2>2. CASE p # "beginning"
    BY <1>1, <2>2 DEF Turn, Saving
  <2> QED BY <2>1, <2>2
<1>5. Quiet(r, disk, s, p)
  BY <1>2, <1>4 DEF history, Working, Quiet
<1> QED BY <1>1, <1>2, <1>3, <1>5, QuietTurn

-----------------------------------------------------------------------------
(* The invariant is inductive.                                             *)

LEMMA TurnKeepsInv ==
  ASSUME IndInv, CarefulTurn
  PROVE  IndInv'
<1>1. TypeOK' /\ Chained'
  BY TurnType, TurnChained DEF IndInv
<1>2. PICK r, j, q, s, p, d : TurnOf(r, j, q, s, p, d)
  BY TurnIsKnown DEF IndInv
<1>3. JournalsSound' /\ WorkIsJournalled'
  BY <1>2, TurnSound, TurnWork
<1>4. SeenIsTrue' /\ SettlingIsTrue'
  BY <1>2, TurnSeen, TurnSettling
<1>5. JournalsTruthful' /\ ReplaysAreConfirmed'
  BY <1>1, <1>2, TurnTruthful, TurnReplays
<1> QED BY <1>1, <1>3, <1>4, <1>5 DEF IndInv

\* What neither the host nor an answer of an inspection can disturb.
Aside ==
  /\ UNCHANGED <<disk, mem, queue, broken, at, on, history>>
  /\ up' = up \/ (up # "down" /\ up' = "serving")

LEMMA Framed ==
  ASSUME IndInv, Aside
  PROVE  Chained' /\ JournalsSound' /\ WorkIsJournalled' /\ ReplaysAreConfirmed'
<1>1. Chained'
  BY DEF Aside, IndInv, Chained
<1>2. JournalsSound'
  BY DEF Aside, IndInv, JournalsSound, Sound, BlockersOnly, BuildsOn, Ordered, Live
<1>3. WorkIsJournalled'
  BY DEF Aside, IndInv, WorkIsJournalled, Alone, history
<1>4. ReplaysAreConfirmed'
  BY DEF Aside, IndInv, ReplaysAreConfirmed, Counts, Budgeted, history
<1> QED BY <1>1, <1>2, <1>3, <1>4

LEMMA RequestsOfChain ==
  ASSUME IndInv, NEW i \in 1 .. Len(queue)
  PROVE  on[queue[i].by] \in Steps
<1>1. queue[i] \in [by : Requests, store : Journal]
  BY ElementOfSeq DEF IndInv, TypeOK
<1> QED BY <1>1 DEF IndInv, TypeOK

LEMMA HostWorkKeepsInv ==
  ASSUME IndInv, NEW r \in Requests, HostWork(r)
  PROVE  IndInv'
<1>1. /\ at[r] \in Working /\ on[r] \in Steps /\ UNCHANGED <<disk, process, history, faults, crashes>>
      /\ host' \in [Steps -> {"none", "partial", "met"}]
      /\ \A t \in Steps : t # on[r] => host'[t] = host[t]
  BY DEF HostWork, Working, IndInv, TypeOK
<1>2. TypeOK'
  BY <1>1 DEF IndInv, TypeOK, process, history
<1>3. Chained' /\ JournalsSound' /\ WorkIsJournalled' /\ ReplaysAreConfirmed'
  <2>1. Aside
    BY <1>1 DEF process, Aside, history
  <2> QED BY <2>1, Framed
<1>4. SeenIsTrue'
  BY <1>1 DEF IndInv, SeenIsTrue, TypeOK, process, history
<1>5. SettlingIsTrue'
  <2>1. \A i \in 1 .. Len(queue) : on[queue[i].by] \in Steps
    BY RequestsOfChain
  <2> QED BY <1>1, <2>1 DEF IndInv, SettlingIsTrue, process, history
<1>6. JournalsTruthful'
  <2>1. on[r] \notin raced => /\ disk.st[on[r]] # "succeeded" /\ (~broken => mem.st[on[r]] # "succeeded")
                              /\ \A k \in 1 .. Len(queue) : queue[k].store.st[on[r]] # "succeeded"
    BY <1>1 DEF IndInv, WorkIsJournalled, Working, Doing
  <2>2. ASSUME NEW j, Truthful(j), on[r] \notin raced => j.st[on[r]] # "succeeded"
        PROVE  \A t \in Steps \ raced : j.st[t] = "succeeded" /\ j.comp[t] # "failed" => host'[t] = "met"
    BY <1>1, <2>2 DEF Truthful
  <2>3. Truthful(disk)'
    BY <1>1, <2>1, <2>2 DEF IndInv, JournalsTruthful, Truthful, history
  <2>4. (~broken => Truthful(mem))'
    BY <1>1, <2>1, <2>2 DEF IndInv, JournalsTruthful, Truthful, process, history
  <2>5. (\A i \in 1 .. Len(queue) : Truthful(queue[i].store))'
    BY <1>1, <2>1, <2>2 DEF IndInv, JournalsTruthful, Truthful, process, history
  <2> QED BY <2>3, <2>4, <2>5 DEF JournalsTruthful
<1> QED BY <1>2, <1>3, <1>4, <1>5, <1>6 DEF IndInv

LEMMA InspectKeepsInv ==
  ASSUME IndInv, NEW r \in Requests, Inspect(r)
  PROVE  IndInv'
<1>1. PICK a \in Answer :
        /\ seen' = [seen EXCEPT ![r] = a] /\ at[r] \in Inspecting
        /\ a = "met" /\ at[r] # "undone" => host[on[r]] = "met"
  BY DEF Inspect, Answer
<1>2. UNCHANGED <<disk, mem, queue, broken, up, at, on, host, history, faults, crashes>>
  BY DEF Inspect
<1>3. TypeOK'
  BY <1>1, <1>2 DEF IndInv, TypeOK, history
<1>4. Chained' /\ JournalsSound' /\ WorkIsJournalled' /\ ReplaysAreConfirmed'
  <2>1. Aside
    BY <1>2 DEF Aside, history
  <2> QED BY <2>1, Framed
<1>5. SeenIsTrue'
  BY <1>1, <1>2 DEF IndInv, SeenIsTrue, TypeOK, history
<1>6. SettlingIsTrue' /\ JournalsTruthful'
  BY <1>2 DEF IndInv, SettlingIsTrue, JournalsTruthful, Truthful, history
<1> QED BY <1>3, <1>4, <1>5, <1>6 DEF IndInv

\* The counts never fall along the chain.
LEMMA CountsGrow ==
  ASSUME NEW s \in Steps, Len(queue) \in Nat, NEW n \in [0 .. Len(queue) -> Nat], Counts(s, n)
  PROVE  \A k \in 0 .. Len(queue) : n[0] <= n[k]
<1> DEFINE Lower == {k \in 0 .. Len(queue) : n[k] < n[0]}
<1> SUFFICES ASSUME Lower # {} PROVE FALSE
  BY Lower = {} \/ Lower # {}
<1>1. Lower \subseteq Nat
  OBVIOUS
<1>2. PICK x \in Lower : \A y \in Lower : ~ (<<y, x>> \in OpToRel(<, Nat))
  BY <1>1, NatLessThanWellFounded, WFMin, Zenon
<1>3. x - 1 \in 0 .. Len(queue) /\ x \in 1 .. Len(queue) /\ n[x] < n[0]
  <2>1. x # 0
    OBVIOUS
  <2> QED BY <2>1
<1>4. x - 1 \notin Lower
  <2> SUFFICES ASSUME x - 1 \in Lower PROVE FALSE
    OBVIOUS
  <2>1. <<x - 1, x>> \in {ss \in Nat \X Nat : ss[1] < ss[2]}
    BY <1>3
  <2>2. <<x - 1, x>> \in OpToRel(<, Nat)
    BY <2>1, Zenon DEF OpToRel
  <2> QED BY <1>2, <2>2
<1>5. n[x] >= n[x - 1]
  <2>1. n[x] = n[x - 1] + 1 \/ n[x] = n[x - 1] + 0
    BY <1>3 DEF Counts
  <2>2. n[x - 1] \in Nat
    BY <1>3
  <2> QED BY <2>1, <2>2
<1> QED BY <1>3, <1>4, <1>5

LEMMA VanishKeepsInv ==
  ASSUME IndInv, Vanish, UNCHANGED <<disk, host, history>>, faults' \in Nat, crashes' \in Nat
  PROVE  IndInv'
<1>1. /\ up' = "down" /\ mem' = Blank("absent") /\ queue' = <<>> /\ broken' = FALSE /\ Len(queue') = 0
      /\ at' = [x \in Requests |-> "idle"] /\ on' = [x \in Requests |-> 1]
      /\ seen' = [x \in Requests |-> "none"]
  BY DEF Vanish
<1>2. Blank("absent") \in Journal /\ \A s \in Steps : Blank("absent").st[s] = "absent"
  BY BlankJournal DEF StepState
<1>3. TypeOK'
  <2>1. 1 \in Steps /\ <<>> \in Seq([by : Requests, store : Journal])
    BY PlanAssumption, EmptySeq DEF Steps
  <2> QED BY <1>1, <1>2, <2>1 DEF IndInv, TypeOK, Phase, Answer, history
<1>4. Chained'
  BY <1>1 DEF Chained
<1>5. JournalsSound'
  <2>1. Sound(disk)'
    BY DEF IndInv, JournalsSound, Sound, BlockersOnly, BuildsOn, Ordered, Live
  <2>2. Sound(mem)'
    BY <1>1, <1>2 DEF Sound, BlockersOnly, BuildsOn, Ordered
  <2> QED BY <1>1, <2>1, <2>2 DEF JournalsSound
<1>6. WorkIsJournalled' /\ SeenIsTrue' /\ SettlingIsTrue'
  BY <1>1 DEF WorkIsJournalled, SeenIsTrue, SettlingIsTrue, Working, Starting
<1>7. JournalsTruthful'
  BY <1>1, <1>2 DEF IndInv, JournalsTruthful, Truthful, history
<1>8. ReplaysAreConfirmed'
  <2> SUFFICES ASSUME NEW s \in Steps
               PROVE  \E n \in [0 .. Len(queue') -> Nat] : Counts(s, n)' /\ Budgeted(s, n)'
    BY DEF ReplaysAreConfirmed
  <2>1. PICK n \in [0 .. Len(queue) -> Nat] : Counts(s, n) /\ Budgeted(s, n)
    BY DEF IndInv, ReplaysAreConfirmed
  <2>2. Len(queue) \in Nat /\ tries \in [Steps -> Nat]
    BY LenProperties DEF IndInv, TypeOK
  <2>3. PICK m \in [0 .. Len(queue') -> Nat] : m[0] = tries[s]
    <3> DEFINE f == [k \in 0 .. Len(queue') |-> tries[s]]
    <3> f \in [0 .. Len(queue') -> Nat] /\ f[0] = tries[s]
      BY <1>1, <2>2
    <3> QED OBVIOUS
  <2>4. Counts(s, m)'
    BY <1>1, <2>3 DEF Counts, history
  <2>5. Budgeted(s, m)'
    BY <1>1, <2>1, <2>2, <2>3 DEF Budgeted, Counts, history
  <2> QED BY <2>4, <2>5
<1> QED BY <1>3, <1>4, <1>5, <1>6, <1>7, <1>8 DEF IndInv

LEMMA RejectedKeepsInv ==
  ASSUME IndInv, NEW r \in Requests, Rejected(r)
  PROVE  IndInv'
<1> USE RequestFacts
<1>1. CASE up = "starting"
  <2>1. Vanish /\ UNCHANGED <<disk, host, history>> /\ faults' \in Nat /\ crashes' \in Nat
    BY <1>1 DEF Rejected, IndInv, TypeOK
  <2> QED BY <2>1, VanishKeepsInv
<1>2. CASE up # "starting"
  <2>1. /\ broken /\ broken' /\ at[r] \in Saving /\ at[r] \notin Working /\ queue = <<>> /\ queue' = <<>>
        /\ up # "down" /\ up' = up /\ at' = [at EXCEPT ![r] = "idle"] /\ on' = [on EXCEPT ![r] = 1]
        /\ seen' = [seen EXCEPT ![r] = "none"] /\ UNCHANGED <<disk, host, history, faults, crashes>>
        /\ broken' = broken /\ Len(queue) = 0 /\ Len(queue') = 0
    BY <1>2 DEF Rejected, Done, Wait, IndInv, TypeOK, Saving, Working
  <2>2. \/ mem' = mem
        \/ Change(mem, mem', on[r], "finishing") /\ Changed(mem, mem', on[r], "finishing")
    <3>1. mem' = mem \/ Settles(mem, mem', on[r])
      BY <1>2 DEF Rejected, Settles
    <3>2. Settles(mem, mem', on[r]) => Change(mem, mem', on[r], "finishing")
      BY DEF Change
    <3> QED BY <3>1, <3>2, Changes
  <2>3. mem' \in Journal /\ Sound(mem)'
    <3>1. Sound(mem)
      BY DEF IndInv, JournalsSound
    <3>2. Sound(mem')
      BY <2>2, <3>1, ChangeSound
    <3> QED BY <2>2, <3>2 DEF Changed, Sound, BlockersOnly, BuildsOn, Ordered, Live
  <2>4. TypeOK'
    BY <2>1, <2>3 DEF IndInv, TypeOK, Phase, Answer, history
  <2>5. Chained'
    BY <2>1 DEF IndInv, TypeOK, Chained
  <2>6. JournalsSound'
    <3>1. Sound(disk)'
      BY <2>1 DEF IndInv, JournalsSound, Sound, BlockersOnly, BuildsOn, Ordered, Live
    <3> QED BY <2>1, <2>3, <3>1 DEF JournalsSound
  <2>7. \A x \in Requests : at'[x] \in Working \cup Starting =>
          x # r /\ at'[x] = at[x] /\ on'[x] = on[x]
    BY <2>1 DEF IndInv, TypeOK, Working, Starting
  <2>8. WorkIsJournalled'
    BY <2>1, <2>7 DEF IndInv, WorkIsJournalled, history
  <2>9. SeenIsTrue'
    <3> SUFFICES ASSUME NEW x \in Requests, at'[x] \in {"interrupted", "blocked"}, seen'[x] = "met",
                        on'[x] \notin raced'
                 PROVE  host'[on'[x]] = "met" \/ \E y \in Requests : on'[y] = on'[x] /\ at'[y] \in Working
      BY DEF SeenIsTrue
    <3>1. \A y \in Requests \ {r} : at'[y] = at[y] /\ on'[y] = on[y] /\ seen'[y] = seen[y]
      BY <2>1 DEF IndInv, TypeOK
    <3>2. x # r
      BY <2>1 DEF IndInv, TypeOK
    <3>3. host[on[x]] = "met" \/ \E y \in Requests : on[y] = on[x] /\ at[y] \in Working
      BY <2>1, <3>1, <3>2 DEF IndInv, SeenIsTrue, history
    <3> QED BY <2>1, <3>1, <3>2, <3>3
  <2>10. SettlingIsTrue' /\ JournalsTruthful'
    BY <2>1 DEF IndInv, SettlingIsTrue, JournalsTruthful, Truthful, history
  <2>11. ReplaysAreConfirmed'
    <3>1. \A t \in Steps : mem'.st[t] \in Fresh => mem.st[t] \in Fresh
      BY <2>2 DEF Changed, Fresh
    <3> SUFFICES ASSUME NEW t \in Steps
                 PROVE  \E n \in [0 .. Len(queue') -> Nat] : Counts(t, n)' /\ Budgeted(t, n)'
      BY DEF ReplaysAreConfirmed
    <3>2. PICK n \in [0 .. Len(queue) -> Nat] : Counts(t, n) /\ Budgeted(t, n)
      BY DEF IndInv, ReplaysAreConfirmed
    <3>3. n \in [0 .. Len(queue') -> Nat] /\ Counts(t, n)' /\ Budgeted(t, n)'
      BY <2>1, <3>1, <3>2 DEF Counts, Budgeted, history
    <3> QED BY <3>3
  <2> QED BY <2>4, <2>5, <2>6, <2>8, <2>9, <2>10, <2>11 DEF IndInv
<1> QED BY <1>1, <1>2

LEMMA WriteFailsKeepsInv ==
  ASSUME IndInv, WriteFails
  PROVE  IndInv'
<1>1. /\ broken' /\ queue # <<>> /\ queue' = <<>> /\ Len(queue') = 0 /\ faults' \in Nat /\ Len(queue) \in Nat
      /\ UNCHANGED <<disk, mem, up, at, on, seen, host, history, crashes>>
  BY LenProperties DEF WriteFails, IndInv, TypeOK
<1>2. TypeOK'
  BY <1>1 DEF WriteFails, IndInv, TypeOK, history
<1>3. Chained'
  BY <1>1 DEF IndInv, Chained
<1>4. JournalsSound'
  BY <1>1 DEF IndInv, JournalsSound, Sound, BlockersOnly, BuildsOn, Ordered, Live
<1>5. WorkIsJournalled'
  BY <1>1 DEF IndInv, WorkIsJournalled, history
<1>6. SeenIsTrue' /\ SettlingIsTrue' /\ JournalsTruthful'
  BY <1>1 DEF IndInv, SeenIsTrue, SettlingIsTrue, JournalsTruthful, Truthful, history
<1>7. ReplaysAreConfirmed'
  <2> SUFFICES ASSUME NEW t \in Steps
               PROVE  \E n \in [0 .. Len(queue') -> Nat] : Counts(t, n)' /\ Budgeted(t, n)'
    BY DEF ReplaysAreConfirmed
  <2>1. PICK n \in [0 .. Len(queue) -> Nat] : Counts(t, n) /\ Budgeted(t, n)
    BY DEF IndInv, ReplaysAreConfirmed
  <2>2. n[0] <= n[Len(queue)] /\ n[0] = tries[t] /\ n[0] \in Nat /\ n[Len(queue)] \in Nat /\ retries[t] \in Nat
    <3>1. tries[t] \in Nat /\ retries[t] \in Nat /\ Len(queue) \in 0 .. Len(queue)
      BY <1>1 DEF IndInv, TypeOK
    <3>2. \A k \in 0 .. Len(queue) : n[0] <= n[k]
      BY <1>1, <2>1, CountsGrow
    <3> QED BY <1>1, <2>1, <3>1, <3>2 DEF Counts
  <2>3. PICK m \in [0 .. Len(queue') -> Nat] : m[0] = tries[t]
    <3> DEFINE f == [k \in 0 .. Len(queue') |-> tries[t]]
    <3> f \in [0 .. Len(queue') -> Nat] /\ f[0] = tries[t]
      BY <1>1, <2>2
    <3> QED OBVIOUS
  <2>4. Counts(t, m)'
    BY <1>1, <2>3 DEF Counts, history
  <2>5. Budgeted(t, m)'
    BY <1>1, <2>1, <2>2, <2>3 DEF Budgeted, history
  <2> QED BY <2>4, <2>5
<1> QED BY <1>2, <1>3, <1>4, <1>5, <1>6, <1>7 DEF IndInv

\* A journal with nothing interrupted is served as it was read.
LEMMA ServingBootKeepsInv ==
  ASSUME IndInv, up = "down", up' = "serving", mem' = disk,
         UNCHANGED <<queue, at, on, seen, disk, broken, host, history, faults, crashes>>
  PROVE  IndInv'
<1>1. TypeOK'
  BY DEF IndInv, TypeOK, history
<1>2. queue = <<>> /\ queue' = <<>> /\ Len(queue) = 0 /\ Len(queue') = 0 /\ ~broken
      /\ \A r \in Requests : at[r] = "idle"
  BY DEF IndInv, Chained
<1>3. Chained'
  BY <1>2 DEF IndInv, Chained
<1>4. JournalsSound'
  BY <1>2 DEF IndInv, JournalsSound, Sound, BlockersOnly, BuildsOn, Ordered, Live
<1>5. WorkIsJournalled'
  BY <1>2 DEF WorkIsJournalled, Working, Starting
<1>6. SeenIsTrue' /\ SettlingIsTrue' /\ JournalsTruthful'
  BY <1>2 DEF IndInv, SeenIsTrue, SettlingIsTrue, JournalsTruthful, Truthful, history
<1>7. ReplaysAreConfirmed'
  <2> SUFFICES ASSUME NEW t \in Steps
               PROVE  \E n \in [0 .. Len(queue') -> Nat] : Counts(t, n)' /\ Budgeted(t, n)'
    BY DEF ReplaysAreConfirmed
  <2>1. PICK n \in [0 .. Len(queue) -> Nat] : Counts(t, n) /\ Budgeted(t, n)
    BY DEF IndInv, ReplaysAreConfirmed
  <2>2. n \in [0 .. Len(queue') -> Nat] /\ Counts(t, n)' /\ Budgeted(t, n)'
    BY <1>2, <2>1 DEF Counts, Budgeted, history
  <2> QED BY <2>2
<1> QED BY <1>1, <1>3, <1>4, <1>5, <1>6, <1>7 DEF IndInv

LEMMA InitInv == Init => IndInv
<1> SUFFICES ASSUME Init PROVE IndInv
  OBVIOUS
<1>1. Blank("absent") \in Journal /\ \A s \in Steps : Blank("absent").st[s] = "absent"
  BY BlankJournal DEF StepState
<1>2. TypeOK
  <2>1. 1 \in Steps /\ <<>> \in Seq([by : Requests, store : Journal])
    BY PlanAssumption, EmptySeq DEF Steps
  <2> QED BY <1>1, <2>1, PlanAssumption DEF Init, TypeOK, Phase, Answer
<1>3. Chained
  BY DEF Init, Chained
<1>4. JournalsSound
  BY <1>1 DEF Init, JournalsSound, Sound, BlockersOnly, BuildsOn, Ordered
<1>5. WorkIsJournalled /\ SeenIsTrue /\ SettlingIsTrue
  BY DEF Init, WorkIsJournalled, SeenIsTrue, SettlingIsTrue, Working, Starting
<1>6. JournalsTruthful
  BY <1>1 DEF Init, JournalsTruthful, Truthful
<1>7. ReplaysAreConfirmed
  <2> SUFFICES ASSUME NEW t \in Steps
               PROVE  \E n \in [0 .. Len(queue) -> Nat] : Counts(t, n) /\ Budgeted(t, n)
    BY DEF ReplaysAreConfirmed
  <2>1. tries[t] = 0 /\ retries[t] = 0 /\ Len(queue) = 0 /\ up = "down"
    BY DEF Init
  <2>2. PICK m \in [0 .. Len(queue) -> Nat] : m[0] = 0
    <3> DEFINE f == [k \in 0 .. Len(queue) |-> 0]
    <3> f \in [0 .. Len(queue) -> Nat] /\ f[0] = 0
      BY <2>1
    <3> QED OBVIOUS
  <2> QED BY <2>1, <2>2 DEF Counts, Budgeted
<1> QED BY <1>2, <1>3, <1>4, <1>5, <1>6, <1>7 DEF IndInv

\* Every step is a careful turn, or leaves the registry's requests aside.
LEMMA StepKeepsInv == IndInv /\ [Next]_vars => IndInv'
<1> SUFFICES ASSUME IndInv, [Next]_vars PROVE IndInv'
  OBVIOUS
<1>1. ASSUME NEW r \in Requests, Client(r)
      PROVE  IndInv'
  BY <1>1, CreateTurn, ContinueTurn, RetryTurn, CompensateTurn, TurnKeepsInv DEF Client
<1>2. ASSUME NEW r \in Requests, HostWork(r)
      PROVE  IndInv'
  BY <1>2, HostWorkKeepsInv
<1>3. ASSUME NEW r \in Requests, Answers(r)
      PROVE  IndInv'
  <2>1. CASE Applied(r) \/ Compensated(r)
    BY <2>1, AppliedTurn, CompensatedTurn, TurnKeepsInv
  <2>2. CASE ReconcileInterrupted(r) \/ ReconcileUndone(r) \/ ReconcileBlocked(r)
    BY <2>2, ReconcileInterruptedTurn, ReconcileUndoneTurn, ReconcileBlockedTurn, TurnKeepsInv
  <2>3. CASE Inspect(r)
    BY <2>3, InspectKeepsInv
  <2>4. CASE Rejected(r)
    BY <2>4, RejectedKeepsInv
  <2> QED BY <1>3, <2>1, <2>2, <2>3, <2>4 DEF Answers
<1>4. CASE Written
  BY <1>4, WrittenTurn, TurnKeepsInv
<1>5. CASE WriteFails
  BY <1>5, WriteFailsKeepsInv
<1>6. CASE Crash
  <2>1. Vanish /\ UNCHANGED <<disk, host, history>> /\ faults' \in Nat /\ crashes' \in Nat
    BY <1>6 DEF Crash, IndInv, TypeOK
  <2> QED BY <2>1, VanishKeepsInv
<1>7. CASE Boot
  <2>1. CASE Interrupted(disk) = {}
    BY <1>7, <2>1, ServingBootKeepsInv DEF Boot
  <2>2. CASE Interrupted(disk) # {}
    <3>1. PICK r \in Requests : RunNext(r, queue, disk)
      BY <1>7, <2>2 DEF Boot
    <3> QED BY <1>7, <2>2, <3>1, StartingBootTurn, TurnKeepsInv DEF Boot
  <2> QED BY <2>1, <2>2
<1>8. CASE Listen
  <2>1. Aside /\ UNCHANGED <<disk, mem, queue, broken, at, on, seen, host, history, faults, crashes>>
    BY <1>8 DEF Listen, Aside, history
  <2>2. Chained' /\ JournalsSound' /\ WorkIsJournalled' /\ ReplaysAreConfirmed'
    BY <2>1, Framed
  <2>3. TypeOK'
    BY <1>8 DEF Listen, IndInv, TypeOK, history
  <2>4. SeenIsTrue' /\ SettlingIsTrue' /\ JournalsTruthful'
    BY <2>1 DEF IndInv, SeenIsTrue, SettlingIsTrue, JournalsTruthful, Truthful, history
  <2> QED BY <2>2, <2>3, <2>4 DEF IndInv
<1>9. CASE UNCHANGED vars
  <2>1. Aside /\ UNCHANGED <<disk, mem, queue, broken, up, at, on, seen, host, history, faults, crashes>>
    BY <1>9 DEF vars, process, Aside, history
  <2>2. Chained' /\ JournalsSound' /\ WorkIsJournalled' /\ ReplaysAreConfirmed'
    BY <2>1, Framed
  <2>3. TypeOK'
    BY <2>1 DEF IndInv, TypeOK, history
  <2>4. SeenIsTrue' /\ SettlingIsTrue' /\ JournalsTruthful'
    BY <2>1 DEF IndInv, SeenIsTrue, SettlingIsTrue, JournalsTruthful, Truthful, history
  <2> QED BY <2>2, <2>3, <2>4 DEF IndInv
<1> QED BY <1>1, <1>2, <1>3, <1>4, <1>5, <1>6, <1>7, <1>8, <1>9 DEF Next

-----------------------------------------------------------------------------
(* The promises.                                                           *)

LEMMA Invariant == Spec => []IndInv
BY InitInv, StepKeepsInv, PTL DEF Spec

\* The journal in memory, the file and every queued snapshot keep their shape, and
\* a rejected write chain holds nothing.
THEOREM TypeCorrect == Spec => []TypeOK
BY Invariant, PTL DEF IndInv

\* runNext never starts a step's handler a second time unless a retry request
\* confirmed it, whatever crashes, failed writes and concurrent requests come between.
THEOREM ReplayNeedsRetry == Spec => []NoBlindReplay
<1>1. IndInv => NoBlindReplay
  <2> SUFFICES ASSUME IndInv, NEW s \in Steps PROVE tries[s] <= 1 + retries[s]
    BY DEF NoBlindReplay
  <2>1. PICK n \in [0 .. Len(queue) -> Nat] : Counts(s, n) /\ Budgeted(s, n)
    BY DEF IndInv, ReplaysAreConfirmed
  <2>2. 0 \in 0 .. Len(queue)
    BY LenProperties DEF IndInv, TypeOK
  <2> QED BY <2>1, <2>2 DEF Counts, Budgeted
<1> QED BY <1>1, Invariant, PTL

\* Whenever a handler may be changing the host, the journal file says so, so that a
\* crash at that moment is found by init; a step an inspection interfered with excepted.
THEOREM HandlersAreJournalled == Spec => []HostChangesAreJournalled
<1>1. IndInv => HostChangesAreJournalled
  BY DEF IndInv, WorkIsJournalled, HostChangesAreJournalled, Working
<1> QED BY <1>1, Invariant, PTL

\* completeStep is only ever written for a step whose goal the host has reached.
THEOREM SuccessIsReal == Spec => []SucceededIsMet
<1>1. IndInv => SucceededIsMet
  BY DEF IndInv, JournalsTruthful, Truthful, SucceededIsMet
<1> QED BY <1>1, Invariant, PTL

\* beginStep of runNext finds every earlier step succeeded, and they stay so.
THEOREM StepsBuildOnSuccess == Spec => []BuildsOnSucceeded
<1>1. IndInv => BuildsOnSucceeded
  BY DEF IndInv, JournalsSound, Sound, BuildsOn, BuildsOnSucceeded
<1> QED BY <1>1, Invariant, PTL

\* compensateStep never undoes a step below a later one that may own host mutations,
\* unless that one was blocked and came back.
THEOREM CompensationIsOrdered == Spec => []OrderUnlessBlocked
<1>1. IndInv => OrderUnlessBlocked
  BY DEF IndInv, JournalsSound, Sound, Ordered, OrderUnlessBlocked
<1> QED BY <1>1, Invariant, PTL

\* How a step that is no careful turn treats the requests that wait for a write.
LEMMA StepKinds ==
  ASSUME IndInv, [Next]_vars
  PROVE  CarefulTurn \/ UNCHANGED <<queue, broken, at>> \/ Vanish \/ broken'
<1>1. ASSUME NEW r \in Requests, Client(r)
      PROVE  CarefulTurn
  BY <1>1, CreateTurn, ContinueTurn, RetryTurn, CompensateTurn DEF Client
<1>2. ASSUME NEW r \in Requests, HostWork(r)
      PROVE  UNCHANGED <<queue, broken, at>>
  BY <1>2 DEF HostWork, process
<1>3. ASSUME NEW r \in Requests, Answers(r)
      PROVE  CarefulTurn \/ UNCHANGED <<queue, broken, at>> \/ Vanish \/ broken'
  <2>1. Inspect(r) => UNCHANGED <<queue, broken, at>>
    BY DEF Inspect
  <2>2. Rejected(r) => Vanish \/ broken'
    BY DEF Rejected
  <2> QED BY <1>3, <2>1, <2>2, AppliedTurn, CompensatedTurn, ReconcileInterruptedTurn,
             ReconcileUndoneTurn, ReconcileBlockedTurn DEF Answers
<1>4. Written => CarefulTurn
  BY WrittenTurn
<1>5. WriteFails => broken'
  BY DEF WriteFails
<1>6. Crash => Vanish
  BY DEF Crash
<1>7. Boot => CarefulTurn \/ UNCHANGED <<queue, broken, at>>
  BY StartingBootTurn DEF Boot
<1>8. Listen \/ UNCHANGED vars => UNCHANGED <<queue, broken, at>>
  BY DEF Listen, vars, process
<1> QED BY <1>1, <1>2, <1>3, <1>4, <1>5, <1>6, <1>7, <1>8 DEF Next

\* persist() leaves no request waiting for a snapshot that nobody will write: it is
\* in the chain, or the chain is rejected and answers it.
THEOREM NoWaiterIsForgotten == Spec => []WaitersAreServed
<1>1. Init => WaitersAreServed
  BY DEF Init, WaitersAreServed, Saving
<1>2. IndInv /\ WaitersAreServed /\ [Next]_vars => WaitersAreServed'
  <2> SUFFICES ASSUME IndInv, WaitersAreServed, [Next]_vars PROVE WaitersAreServed'
    OBVIOUS
  <2>1. CASE CarefulTurn
    <3>1. PICK r, j, q, s, p, d : TurnOf(r, j, q, s, p, d)
      BY <2>1, TurnIsKnown DEF IndInv
    <3>2. TypeOK'
      BY <2>1, TurnType DEF IndInv
    <3>3. DOMAIN queue = 1 .. Len(queue) /\ DOMAIN queue' = 1 .. Len(queue') /\ Len(queue) \in Nat
      BY <3>2, LenProperties DEF IndInv, TypeOK
    <3>4. SUFFICES ASSUME NEW x \in Requests, at'[x] \in Saving, ~broken
                   PROVE  \E i \in 1 .. Len(queue') : queue'[i].by = x
      BY <3>1, <3>3 DEF WaitersAreServed, TurnOf, Within
    <3>5. CASE x = r
      <4>1. p \in Saving /\ Len(queue') = Len(queue) - d + 1 /\ queue'[Len(queue) - d + 1].by = r
            /\ d \in {0, 1} /\ d <= Len(queue)
        BY <3>1, <3>4, <3>5 DEF TurnOf, Moved, Left
      <4> QED BY <3>3, <3>5, <4>1
    <3>6. CASE x # r
      <4>1. PICK i \in 1 .. Len(queue) : queue[i].by = x
        BY <3>1, <3>3, <3>4, <3>6 DEF WaitersAreServed, TurnOf, Left
      <4>2. PICK L \in Nat : L = Len(queue)
        BY <3>3
      <4>3. d \in {0, 1} /\ (Len(queue') = L - d \/ Len(queue') = L - d + 1)
        BY <3>1, <4>2 DEF TurnOf, Moved
      <4>4. d = 1 => i # 1
        BY <3>1, <3>6, <4>1 DEF TurnOf, Moved
      <4>5. PICK k \in 1 .. L - d : k + d = i
        <5>1. i \in 1 .. L
          BY <4>2
        <5>2. CASE d = 0
          BY <5>1, <5>2
        <5>3. CASE d = 1
          <6>1. i - 1 \in 1 .. L - 1 /\ (i - 1) + 1 = i
            BY <4>4, <5>1, <5>3
          <6> QED BY <5>3, <6>1
        <5> QED BY <4>3, <5>2, <5>3
      <4>6. queue'[k] = queue[k + d]
        BY <3>1, <4>2 DEF TurnOf, Left
      <4>7. k \in 1 .. Len(queue')
        BY <4>3
      <4> QED BY <4>1, <4>5, <4>6, <4>7
    <3> QED BY <3>5, <3>6
  <2>2. CASE UNCHANGED <<queue, broken, at>>
    BY <2>2 DEF WaitersAreServed
  <2>3. CASE Vanish \/ broken'
    BY <2>3 DEF WaitersAreServed, Vanish, Saving
  <2> QED BY <2>1, <2>2, <2>3, StepKinds
<1> QED BY <1>1, <1>2, Invariant, PTL DEF Spec

=============================================================================
