---------------------------- MODULE DomainRemoval -----------------------------
(***************************************************************************)
(* The removal of a domain: the journal of steps that                      *)
(* domain-removal-operation-registry.js keeps, and the requests and the    *)
(* recovery at startup of domain-removal-runtime.js that drive it.  The    *)
(* root domain has one child domain; the step that removes it drives the   *)
(* child's own operation, which lives in the same registry.                *)
(*                                                                         *)
(* Each request does one step: it journals the step as running, reads the  *)
(* resource, changes it and records the result.  A restart only reads: it  *)
(* completes the step it finds running if the resource is gone, and blocks *)
(* it otherwise.                                                           *)
(*                                                                         *)
(* The registry changes in memory first; its snapshots are queued on a     *)
(* promise chain that a failed write rejects for ever.                     *)
(***************************************************************************)
EXTENDS Integers, Sequences, FiniteSets

CONSTANTS
  Runners,       \* requests that may overlap
  Plan,          \* the kinds of step journalled for each domain, in order
  Disturbances,  \* which may happen once: see Disturb
  MaxDisturbed   \* bound: disturbances together

Domains == {"root", "child"}

\* Steps whose resource is left to an operation, a job or a record of its own that
\* says who removes it and how far it is.
Delegated == {"routing_suspend", "webmail_mapping", "mail_domain", "authoritative_dns"}

\* Steps whose resource merely disappears.
Erased == {"external_dns_zone", "metadata_finalization"}

Kinds == Delegated \cup Erased \cup {"child_domain", "certificate", "website_binding"}

ASSUME RemovalAssumption ==
  /\ "boot" \notin Runners /\ MaxDisturbed \in Nat
  /\ Plan \in [Domains -> Seq(Kinds) \ {<<>>}]
  /\ \A d \in Domains :
       /\ Plan[d][1] = "routing_suspend" /\ Plan[d][Len(Plan[d])] = "metadata_finalization"
       /\ \A i, j \in DOMAIN Plan[d] : Plan[d][i] = Plan[d][j] => i = j
  /\ "child_domain" \notin {Plan["child"][i] : i \in DOMAIN Plan["child"]}

Actors == Runners \cup {"boot"}

VARIABLES
  gone,      \* the resources <<domain, kind>> that were removed
  leaving,   \* those whose removal has begun
  mem, disk, \* the statuses of the steps of each operation; <<>>: no operation
  queue,     \* snapshots still to be written, with who waits
  broken,    \* the write chain is rejected
  todo,      \* the operations the recovery still has to reconcile
  at, own,   \* per actor: where it is, the step it drives
  happened   \* disturbances so far

resources == <<gone, leaving>>
journal   == <<mem, disk, queue, broken>>
actors    == <<at, own>>
vars      == <<resources, journal, todo, actors, happened>>

\* crash; fault: a write of the journal fails; refused: a change fails, without
\* effect; unanswered: a change is made, but its call fails; unread: a read fails;
\* overlap: requests may run at the same time; resume: the operator resumes a
\* suspended domain; taken: another request deletes the external zone.
Disturb(kind) ==
  /\ kind \in Disturbances \ happened /\ Cardinality(happened) < MaxDisturbed
  /\ happened' = happened \cup {kind}

Nobody == [d |-> "root", i |-> 1, was |-> FALSE, nested |-> FALSE, verdict |-> "none"]

Kind(o) == Plan[o.d][o.i]
Resource(o) == <<o.d, Kind(o)>>

Removed(op) == op # <<>> /\ \A i \in DOMAIN op : op[i] = "succeeded"

FirstIncomplete(op) ==
  CHOOSE i \in DOMAIN op : op[i] # "succeeded" /\ \A j \in DOMAIN op : j < i => op[j] = "succeeded"

InPlan(d, kind) == \E i \in DOMAIN Plan[d] : Plan[d][i] = kind

Present(d)   == <<d, "metadata_finalization">> \notin gone
Suspended(d) == Present(d) /\ <<d, "routing_suspend">> \in gone
Unbound(d)   == /\ InPlan(d, "website_binding") => <<d, "website_binding">> \in gone
                /\ InPlan(d, "certificate") =>
                     <<d, "certificate">> \in gone \cup leaving

\* The API answers requests once the recovery at startup is over.
Serving == todo = <<>> /\ at["boot"] = "idle"

-----------------------------------------------------------------------------
(* The registry.                                                           *)

Go(a, place, o) == at' = [at EXCEPT ![a] = place] /\ own' = [own EXCEPT ![a] = o]

\* persist(): memory first; the snapshot joins the chain.
Persist(a, image, o, then) ==
  /\ mem' = image
  /\ queue' = Append(queue, [by |-> a, then |-> then, image |-> image])
  /\ Go(a, "writing", o)

ChildStep == CHOOSE i \in DOMAIN Plan["root"] : Plan["root"][i] = "child_domain"

\* The answer of a request that drove the child's operation goes to the root's step.
Answer(a, verdict) ==
  /\ IF own[a].nested
     THEN Go(a, "decided", [Nobody EXCEPT !.i = ChildStep, !.verdict = verdict])
     ELSE Go(a, "idle", Nobody)

ChildVerdict == IF Removed(mem["child"]) THEN "complete" ELSE "block"

\* Faulty variant: the resource is touched before the step is on disk.
MarkInMemory(a, d, nested) ==
  LET i == FirstIncomplete(mem[d])
      o == [d |-> d, i |-> i, was |-> mem[d][i] = "running", nested |-> nested, verdict |-> "none"]
  IN /\ mem' = [mem EXCEPT ![d][i] = "running"] /\ Go(a, "reading", o)
     /\ UNCHANGED queue

\* runningStep and markStepRunning: a step that runs already is joined.
MarkRunning(a, d, nested) ==
  LET i == FirstIncomplete(mem[d])
      o == [d |-> d, i |-> i, was |-> mem[d][i] = "running", nested |-> nested, verdict |-> "none"]
  IN IF o.was
     THEN Go(a, "reading", o) /\ UNCHANGED <<mem, queue>>
     ELSE Persist(a, [mem EXCEPT ![d][i] = "running"], o, "reading")

\* create: every step is pending.
Create(a, d, o) ==
  Persist(a, [mem EXCEPT ![d] = [i \in DOMAIN Plan[d] |-> "pending"]], o, "created")

Flush ==
  /\ queue # <<>> /\ ~broken
  /\ LET entry == Head(queue) IN
       /\ disk' = entry.image
       /\ IF entry.then = "done" THEN Answer(entry.by, ChildVerdict)
          ELSE Go(entry.by, entry.then, own[entry.by])
  /\ queue' = Tail(queue)
  /\ UNCHANGED <<resources, mem, broken, todo, happened>>

FlushFails ==
  /\ queue # <<>>
  /\ IF broken THEN UNCHANGED <<broken, happened>> ELSE broken' = TRUE /\ Disturb("fault")
  /\ queue' = Tail(queue) /\ Answer(Head(queue).by, "fail")
  /\ UNCHANGED <<resources, mem, disk, todo>>

-----------------------------------------------------------------------------
(* Requests.                                                               *)

Enters(r) ==
  /\ Serving /\ at[r] = "idle"
  /\ IF (\A q \in Runners : at[q] = "idle") \/ "overlap" \in happened
     THEN UNCHANGED happened ELSE Disturb("overlap")

\* start: a new operation, or the one an equal preview created.
Start(r) ==
  /\ Enters(r) /\ Present("root")
  /\ \/ mem["root"] = <<>> /\ Create(r, "root", Nobody)
     \/ /\ mem["root"] # <<>> /\ mem["root"][1] = "pending"
        /\ MarkRunning(r, "root", FALSE)
  /\ UNCHANGED <<resources, disk, broken, todo>>

\* runRouting of an operation just created; another request may have come first.
Created(a) ==
  /\ at[a] = "created"
  /\ LET d == IF own[a].nested THEN "child" ELSE "root" IN
     IF Removed(mem[d]) \/ FirstIncomplete(mem[d]) # 1
     THEN Answer(a, ChildVerdict) /\ UNCHANGED <<mem, queue>>
     ELSE MarkRunning(a, d, own[a].nested)
  /\ UNCHANGED <<resources, disk, broken, todo, happened>>

\* retryRouting and continueStep; the first step needs to have been started.
Continue(r, d) ==
  /\ Enters(r) /\ mem[d] # <<>> /\ ~Removed(mem[d]) /\ mem[d][1] # "pending"
  /\ MarkRunning(r, d, FALSE)
  /\ UNCHANGED <<resources, disk, broken, todo>>

Reading(a, kinds) == at[a] = "reading" /\ Kind(own[a]) \in kinds
Decide(a, verdict) == Go(a, "decided", [own[a] EXCEPT !.verdict = verdict])
Quiet == UNCHANGED <<resources, journal, todo, happened>>

\* Faulty variant: the recovery takes a running step for done.
TrustRunning(a) == IF a = "boot" THEN Decide(a, "complete") ELSE Go(a, "changing", own[a])

\* Only a request changes anything; the recovery at startup asks for one.
Change(a) == IF a = "boot" THEN Decide(a, "block") ELSE Go(a, "changing", own[a])

\* Faulty variant: a removal that has begun counts as complete.
BegunIsEnough(a) ==
  /\ Reading(a, Delegated) /\ Quiet
  /\ LET o == own[a] IN
     IF Kind(o) # "routing_suspend" /\ ~Suspended(o.d) THEN Decide(a, "block")
     ELSE IF Resource(o) \in gone \cup leaving THEN Decide(a, "complete")
     ELSE Change(a)

\* runRouting, runMailDomain, runWebmailMapping, runAuthoritativeDns: who removes the
\* resource, and how far is it?
ReadDelegated(a) ==
  /\ Reading(a, Delegated) /\ Quiet
  /\ LET o == own[a] IN
     IF Kind(o) # "routing_suspend" /\ ~Suspended(o.d) THEN Decide(a, "block")
     ELSE IF Kind(o) = "authoritative_dns" /\ ~Unbound(o.d) THEN Decide(a, "block")
     ELSE IF Resource(o) \in gone THEN Decide(a, "complete")
     ELSE Change(a)

\* Faulty variant: a retired certificate counts as missing.
RetiredIsMissing(a) ==
  /\ Reading(a, {"certificate"}) /\ Quiet
  /\ IF ~Suspended(own[a].d) \/ Resource(own[a]) \in gone THEN Decide(a, "block") ELSE Change(a)

\* runCertificate: a certificate retired by this operation is evidence.
ReadCertificate(a) ==
  /\ Reading(a, {"certificate"}) /\ Quiet
  /\ IF ~Suspended(own[a].d) THEN Decide(a, "block")
     ELSE IF Resource(own[a]) \in gone THEN Decide(a, "complete")
     ELSE Change(a)

\* runWebsiteBinding: a binding that is gone is evidence for a request, and for the
\* recovery of a step that was running.
ReadBinding(a) ==
  /\ Reading(a, {"website_binding"}) /\ Quiet
  /\ IF ~Suspended(own[a].d) THEN Decide(a, "block")
     ELSE IF Resource(own[a]) \in gone
     THEN Decide(a, IF own[a].was \/ a # "boot" THEN "complete" ELSE "block")
     ELSE Change(a)

\* runExternalDnsZone: absence is evidence only for a step that was running.
ReadZone(a) ==
  /\ Reading(a, {"external_dns_zone"}) /\ Quiet
  /\ IF ~Suspended(own[a].d) THEN Decide(a, "block")
     ELSE IF Resource(own[a]) \in gone
     THEN Decide(a, IF own[a].was THEN "complete" ELSE "block")
     ELSE Change(a)

\* runMetadataFinalization: likewise.
ReadMetadata(a) ==
  /\ Reading(a, {"metadata_finalization"}) /\ Quiet
  /\ LET d == own[a].d IN
     IF ~Present(d) THEN Decide(a, IF own[a].was THEN "complete" ELSE "block")
     ELSE IF ~Suspended(d) \/ ~Unbound(d) THEN Decide(a, "block")
     ELSE Change(a)

\* runChildDomain: the child's operation is created, or its next step is driven.  A
\* child whose routing step is still pending offers no action, and is left alone.
ReadChild(a) ==
  /\ Reading(a, {"child_domain"})
  /\ LET child == mem["child"] IN
     IF Removed(child) \/ a = "boot" THEN Decide(a, ChildVerdict) /\ UNCHANGED <<mem, queue>>
     ELSE IF child = <<>> THEN Go(a, "creating", own[a]) /\ UNCHANGED <<mem, queue>>
     ELSE IF child[1] = "pending" THEN Decide(a, "block") /\ UNCHANGED <<mem, queue>>
     ELSE MarkRunning(a, "child", TRUE)
  /\ UNCHANGED <<resources, disk, broken, todo, happened>>

\* startChildDomainRemoval: unless another request created the same operation, or
\* the child's preview has changed since.
CreateChild(a) ==
  /\ at[a] = "creating"
  /\ LET o == [own[a] EXCEPT !.nested = TRUE] IN
     IF mem["child"] = <<>> THEN Create(a, "child", o)
     ELSE /\ IF \E res \in gone \cup leaving : res[1] = "child"
             THEN Decide(a, "block") ELSE Go(a, "created", o)
          /\ UNCHANGED <<mem, queue>>
  /\ UNCHANGED <<resources, disk, broken, todo, happened>>

\* The read fails; a routing step, and at startup a DNS step, is left running.
ReadFails(a) ==
  /\ Reading(a, Kinds \ {"child_domain"}) /\ Disturb("unread")
  /\ IF Kind(own[a]) = "routing_suspend" \/ (Kind(own[a]) = "authoritative_dns" /\ a = "boot")
     THEN Answer(a, "fail") ELSE Decide(a, "fail")
  /\ UNCHANGED <<resources, journal, todo>>

-----------------------------------------------------------------------------
(* Changes, and what they answer.                                          *)

Changing(a, kinds) == at[a] = "changing" /\ Kind(own[a]) \in kinds

\* Faulty variant: the record that the removal has begun is kept.
EraseOnly(a) == gone' = gone \cup {Resource(own[a])} /\ UNCHANGED leaving

Erase(a)  == gone' = gone \cup {Resource(own[a])} /\ leaving' = leaving \ {Resource(own[a])}
NoEffect  == UNCHANGED <<gone, leaving>>

\* A runtime or a service of its own removes the resource; it may need another
\* request, or refuse one that acts on a state it has left.
ChangeDelegated(a) ==
  /\ Changing(a, Delegated)
  /\ IF Resource(own[a]) \in gone
     THEN /\ NoEffect
          /\ Decide(a, IF Kind(own[a]) = "authoritative_dns" THEN "fail" ELSE "block")
     ELSE \/ Erase(a) /\ Decide(a, "complete")
          \/ leaving' = leaving \cup {Resource(own[a])} /\ UNCHANGED gone /\ Decide(a, "block")
  /\ UNCHANGED <<journal, todo, happened>>

\* The certificate is detached from the suspended domain, then retired; to retire
\* it again changes nothing.
ChangeCertificate(a) ==
  /\ Changing(a, {"certificate"})
  /\ IF Resource(own[a]) \in gone \cup leaving
     THEN Erase(a) /\ Decide(a, "complete")
     ELSE IF Suspended(own[a].d)
     THEN leaving' = leaving \cup {Resource(own[a])} /\ UNCHANGED <<gone, actors>>
     ELSE NoEffect /\ Decide(a, "block")
  /\ UNCHANGED <<journal, todo, happened>>

\* detachWebsiteForRemoval: to detach again changes nothing.
ChangeBinding(a) ==
  /\ Changing(a, {"website_binding"})
  /\ IF Suspended(own[a].d) THEN Erase(a) /\ Decide(a, "complete")
     ELSE NoEffect /\ Decide(a, IF Present(own[a].d) THEN "block" ELSE "fail")
  /\ UNCHANGED <<journal, todo, happened>>

\* finalizeDomainRemoval looks at what the domain registry knows itself.
Finalizable(d) == Suspended(d) /\ Unbound(d) /\ (d = "root" => ~Present("child"))

\* deleteZone and finalizeDomainRemoval: what is missing cannot be removed.
ChangeErased(a) ==
  /\ Changing(a, Erased)
  /\ IF Resource(own[a]) \in gone THEN NoEffect /\ Decide(a, "fail")
     ELSE IF Kind(own[a]) = "metadata_finalization" /\ ~Finalizable(own[a].d)
     THEN NoEffect /\ Decide(a, "block")
     ELSE Erase(a) /\ Decide(a, "complete")
  /\ UNCHANGED <<journal, todo, happened>>

\* The change fails, with or without effect.
ChangeFails(a) ==
  /\ at[a] = "changing" /\ Resource(own[a]) \notin gone
  /\ \/ Disturb("refused") /\ NoEffect
     \/ /\ Disturb("unanswered") /\ Erase(a)
        /\ Kind(own[a]) = "metadata_finalization" => Finalizable(own[a].d)
        /\ Kind(own[a]) \in {"website_binding", "certificate"} => Suspended(own[a].d)
  /\ Decide(a, "fail")
  /\ UNCHANGED <<journal, todo>>

-----------------------------------------------------------------------------
(* Results.                                                                *)

Verdicts == [complete |-> "succeeded", block |-> "blocked", fail |-> "failed"]

\* The statuses that succeedStep, blockStep and failStep accept.
From == [complete |-> {"running"}, block |-> {"pending", "running", "blocked"},
         fail |-> {"pending", "running", "blocked", "failed"}]

\* succeedStep repeated returns the operation; a step in another status is refused.
Record(a) ==
  /\ at[a] = "decided"
  /\ LET o  == own[a]
         st == mem[o.d][o.i]
     IN IF st \in From[o.verdict]
        THEN Persist(a, [mem EXCEPT ![o.d][o.i] = Verdicts[o.verdict]], o, "done")
        ELSE /\ Answer(a, IF o.verdict = "complete" /\ st = "succeeded" THEN ChildVerdict ELSE "block")
             /\ UNCHANGED <<mem, queue>>
  /\ UNCHANGED <<resources, disk, broken, todo, happened>>

-----------------------------------------------------------------------------
(* The restart, and the operator.                                          *)

Interrupted(op) == \E i \in DOMAIN op : op[i] = "running"

Pending(d) == IF Interrupted(disk[d]) THEN <<d>> ELSE <<>>

\* listInterrupted: in the order the operations were created.
Crash ==
  /\ Disturb("crash")
  /\ mem' = disk /\ queue' = <<>> /\ broken' = FALSE
  /\ todo' = Pending("root") \o Pending("child")
  /\ at' = [a \in Actors |-> "idle"] /\ own' = [a \in Actors |-> Nobody]
  /\ UNCHANGED <<resources, disk>>

\* init and reconcileInterrupted.
Reconcile ==
  /\ todo # <<>> /\ at["boot"] = "idle"
  /\ MarkRunning("boot", Head(todo), FALSE) /\ todo' = Tail(todo)
  /\ UNCHANGED <<resources, disk, broken, happened>>

\* The suspension runtime resumes a domain without asking for a removal.
Resume(d) ==
  /\ Serving /\ Suspended(d) /\ Disturb("resume")
  /\ gone' = gone \ {<<d, "routing_suspend">>}
  /\ UNCHANGED <<leaving, journal, todo, actors>>

\* Another request deletes the external zone.
TakeZone(d) ==
  /\ Serving /\ InPlan(d, "external_dns_zone") /\ <<d, "external_dns_zone">> \notin gone
  /\ Disturb("taken") /\ gone' = gone \cup {<<d, "external_dns_zone">>}
  /\ UNCHANGED <<leaving, journal, todo, actors>>

-----------------------------------------------------------------------------
Init ==
  /\ gone = {} /\ leaving = {}
  /\ mem = [d \in Domains |-> <<>>] /\ disk = mem /\ queue = <<>> /\ broken = FALSE
  /\ todo = <<>> /\ happened = {}
  /\ at = [a \in Actors |-> "idle"] /\ own = [a \in Actors |-> Nobody]

Request(r) == Start(r) \/ \E d \in Domains : Continue(r, d)

Read(a) ==
  \/ ReadDelegated(a) \/ ReadCertificate(a) \/ ReadBinding(a) \/ ReadZone(a)
  \/ ReadMetadata(a) \/ ReadChild(a)

ChangeResource(a) ==
  \/ ChangeDelegated(a) \/ ChangeCertificate(a) \/ ChangeBinding(a) \/ ChangeErased(a)

Step(a) == Created(a) \/ Read(a) \/ CreateChild(a) \/ ChangeResource(a) \/ Record(a)

Next ==
  \/ \E r \in Runners : Request(r)
  \/ \E a \in Actors : Step(a) \/ ReadFails(a) \/ ChangeFails(a)
  \/ Flush \/ FlushFails \/ Crash \/ Reconcile
  \/ \E d \in Domains : Resume(d) \/ TakeZone(d)

Spec == Init /\ [][Next]_vars

-----------------------------------------------------------------------------
(* Safety.                                                                 *)

Resources == {<<d, kind>> : d \in Domains, kind \in Kinds \ {"child_domain"}}
Status    == {"pending", "running", "blocked", "failed", "succeeded"}
Journal   == [Domains -> Seq(Status)]

TypeOK ==
  /\ gone \subseteq Resources /\ leaving \subseteq Resources \ gone
  /\ mem \in Journal /\ disk \in Journal
  /\ queue \in Seq([by : Actors, then : {"created", "reading", "done"}, image : Journal])
  /\ broken \in BOOLEAN /\ todo \in Seq(Domains) /\ happened \subseteq Disturbances
  /\ at \in [Actors -> {"idle", "writing", "created", "creating", "reading", "changing", "decided"}]
  /\ own \in [Actors -> [d : Domains, i : Nat, was : BOOLEAN, nested : BOOLEAN,
                         verdict : {"none", "complete", "block", "fail"}]]

IsGone(d, i) ==
  IF Plan[d][i] = "child_domain" THEN ~Present("child") ELSE <<d, Plan[d][i]>> \in gone

\* The domain is forgotten last: once its metadata is gone, nothing that its plan
\* names is left, of the child domain neither.
DependentsGoFirst ==
  \A d \in Domains : ~Present(d) => \A i \in DOMAIN Plan[d] : IsGone(d, i)

\* A step recorded as succeeded, in memory or on disk, left its resource removed;
\* only the operator's resume brings back the routing.
SucceededIsMet ==
  \A op \in {mem, disk}, d \in Domains : \A i \in DOMAIN op[d] :
    op[d][i] = "succeeded" => IsGone(d, i) \/ (i = 1 /\ "resume" \in happened)

\* No crash leaves a resource gone that the journal does not know of: as long as requests
\* do not overlap, the journal is written, reads succeed and changes answer what they did,
\* a resource that is gone is one whose step the disk knows to be running or done.  (A
\* child operation that was created and never begun may still be left behind by a crash:
\* see Stranded.)
CrashNeverStrands ==
  happened \subseteq {"crash", "refused"} =>
    \A d \in Domains : \A i \in DOMAIN Plan[d] :
      <<d, Plan[d][i]>> \in gone => disk[d] # <<>> /\ disk[d][i] \in {"running", "succeeded"}

-----------------------------------------------------------------------------
(* Liveness.                                                               *)

\* Somebody keeps asking; requests and writes end; a change tried again and again
\* succeeds.
Fairness ==
  /\ \A a \in Actors : WF_vars(Step(a))
  /\ WF_vars(\E r \in Runners : Request(r)) /\ WF_vars(Reconcile) /\ WF_vars(Flush \/ FlushFails)
  /\ SF_vars(\E a \in Actors : ChangeDelegated(a) /\ gone' # gone)

FairSpec == Spec /\ Fairness

\* What no request gets past: the write chain is rejected; the child's operation was
\* created but its first step never journalled; a resource that merely disappears is
\* gone although its step is not running; the domain was resumed.
Stranded ==
  \/ broken
  \/ mem["child"] # <<>> /\ mem["child"][1] = "pending"
  \/ \E d \in Domains : \E i \in DOMAIN mem[d] :
       /\ Plan[d][i] \in Erased /\ <<d, Plan[d][i]>> \in gone
       /\ mem[d][i] \in {"pending", "blocked", "failed"}
  \/ \E d \in Domains : mem[d] # <<>> /\ mem[d][1] = "succeeded" /\ Present(d) /\ ~Suspended(d)

\* A removal on disk is completed, unless it is stranded in one of these ways.
RemovalFinishes ==
  []<>Stranded \/ (disk["root"] # <<>> ~> Removed(disk["root"]))

=============================================================================
