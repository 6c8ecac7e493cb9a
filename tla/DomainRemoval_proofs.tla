-------------------------- MODULE DomainRemoval_proofs --------------------------
(***************************************************************************)
(* Proofs about DomainRemoval, for any plan, any set of requests and any   *)
(* disturbances.                                                           *)
(*                                                                         *)
(* Almost every step is one actor's turn: it moves the actor, queues one   *)
(* snapshot or takes the head of the chain, and touches one resource at    *)
(* most.  Turn says so once; each part of the invariant is shown to        *)
(* survive a turn, and each action to be one.                              *)
(***************************************************************************)
EXTENDS DomainRemoval, WellFoundedInduction, SequenceTheorems, TLAPS

-----------------------------------------------------------------------------
(* The plan, and the journal's images.                                     *)

\* A plan starts with the routing, ends with the metadata, and names no kind twice.
LEMMA PlanFacts ==
  ASSUME NEW d \in Domains
  PROVE  /\ Len(Plan[d]) \in Nat /\ Len(Plan[d]) >= 2 /\ DOMAIN Plan[d] = 1 .. Len(Plan[d])
         /\ 1 \in DOMAIN Plan[d] /\ Len(Plan[d]) \in DOMAIN Plan[d]
         /\ \A i \in DOMAIN Plan[d] : Plan[d][i] \in Kinds
         /\ \A i, j \in DOMAIN Plan[d] : Plan[d][i] = Plan[d][j] => i = j
         /\ Plan[d][1] = "routing_suspend" /\ Plan[d][Len(Plan[d])] = "metadata_finalization"
<1>1. Plan[d] \in Seq(Kinds) /\ Plan[d] # <<>>
  BY RemovalAssumption
<1>2. Len(Plan[d]) \in Nat \ {0} /\ DOMAIN Plan[d] = 1 .. Len(Plan[d])
  BY <1>1, EmptySeq, LenProperties
<1>3. \A i \in DOMAIN Plan[d] : Plan[d][i] \in Kinds
  BY <1>1, <1>2, ElementOfSeq
<1>4. Len(Plan[d]) # 1
  BY RemovalAssumption
<1> QED BY <1>2, <1>3, <1>4, RemovalAssumption

\* What a journal can be: each operation is absent or has the status of every step.
Image == [Domains -> {<<>>} \cup UNION {[DOMAIN Plan[d] -> Status] : d \in Domains}]
Shaped(op) ==
  op \in Image /\ \A d \in Domains : op[d] # <<>> => op[d] \in [DOMAIN Plan[d] -> Status]

\* A step that left "pending" has only succeeded steps before it.
InSequence(op) ==
  \A d \in Domains : op[d] # <<>> =>
    \A i \in DOMAIN Plan[d] : op[d][i] # "pending" => \A j \in 1 .. i - 1 : op[d][j] = "succeeded"

\* The goal of a step is met; only the operator's resume undoes the first one's.
Met(d, i) == IsGone(d, i) \/ (i = 1 /\ "resume" \in happened)
Truthful(op) ==
  \A d \in Domains : op[d] # <<>> => \A i \in DOMAIN Plan[d] : op[d][i] = "succeeded" => Met(d, i)

Sound(op) == Shaped(op) /\ InSequence(op) /\ Truthful(op)

\* A shaped journal is one.
LEMMA ShapedJournal ==
  ASSUME NEW op, Shaped(op)
  PROVE  op \in Journal
<1>1. ASSUME NEW d \in Domains
      PROVE  op[d] \in Seq(Status)
  <2>1. CASE op[d] = <<>>
    BY <2>1, EmptySeq
  <2>2. CASE op[d] # <<>>
    BY <2>2, PlanFacts DEF Shaped
  <2> QED BY <2>1, <2>2
<1>2. op = [d \in Domains |-> op[d]]
  BY DEF Shaped, Image
<1> QED BY <1>1, <1>2 DEF Journal

\* The step that a request goes on with.
LEMMA FirstIncompleteFacts ==
  ASSUME NEW op, Shaped(op), NEW d \in Domains, op[d] # <<>>, ~Removed(op[d])
  PROVE  /\ FirstIncomplete(op[d]) \in DOMAIN Plan[d]
         /\ op[d][FirstIncomplete(op[d])] # "succeeded"
         /\ \A j \in 1 .. FirstIncomplete(op[d]) - 1 : op[d][j] = "succeeded"
<1>1. op[d] \in [DOMAIN Plan[d] -> Status] /\ DOMAIN op[d] = DOMAIN Plan[d]
  BY DEF Shaped
<1> DEFINE S == {i \in DOMAIN op[d] : op[d][i] # "succeeded"}
<1>2. S # {} /\ S \subseteq Nat /\ S \subseteq DOMAIN op[d]
  BY <1>1, PlanFacts DEF Removed
<1>3. PICK x \in S : \A y \in S : ~ (<<y, x>> \in OpToRel(<, Nat))
  BY <1>2, NatLessThanWellFounded, WFMin, Zenon
<1>4. ASSUME NEW j \in DOMAIN op[d], j < x
      PROVE  op[d][j] = "succeeded"
  <2> SUFFICES ASSUME j \in S PROVE FALSE
    OBVIOUS
  <2>1. <<j, x>> \in {ss \in Nat \X Nat : ss[1] < ss[2]}
    BY <1>2, <1>4
  <2>2. <<j, x>> \in OpToRel(<, Nat)
    BY <2>1, Zenon DEF OpToRel
  <2> QED BY <1>3, <2>2
<1>5. /\ FirstIncomplete(op[d]) \in DOMAIN op[d] /\ op[d][FirstIncomplete(op[d])] # "succeeded"
      /\ \A j \in DOMAIN op[d] : j < FirstIncomplete(op[d]) => op[d][j] = "succeeded"
  BY <1>3, <1>4 DEF FirstIncomplete
<1> QED BY <1>1, <1>5, PlanFacts

\* In a sound journal the step that is running is that one.
LEMMA RunningIsFirst ==
  ASSUME NEW op, Shaped(op), InSequence(op), NEW d \in Domains, op[d] # <<>>,
         NEW i \in DOMAIN Plan[d], op[d][i] = "running"
  PROVE  ~Removed(op[d]) /\ FirstIncomplete(op[d]) = i
<1>1. op[d] \in [DOMAIN Plan[d] -> Status] /\ DOMAIN op[d] = DOMAIN Plan[d]
  BY DEF Shaped
<1>2. ~Removed(op[d])
  BY <1>1 DEF Removed
<1> DEFINE x == FirstIncomplete(op[d])
<1>3. /\ x \in DOMAIN Plan[d] /\ op[d][x] # "succeeded"
      /\ \A j \in 1 .. x - 1 : op[d][j] = "succeeded"
  BY <1>2, FirstIncompleteFacts
<1>4. \A j \in 1 .. i - 1 : op[d][j] = "succeeded"
  BY DEF InSequence
<1> HIDE DEF x
<1>5. i \in Nat /\ x \in Nat /\ i >= 1 /\ x >= 1
  BY <1>3, PlanFacts
<1>6. ~(x < i) /\ ~(i < x)
  BY <1>3, <1>4, <1>5
<1> QED BY <1>2, <1>5, <1>6 DEF x

-----------------------------------------------------------------------------
(* What the registry does to its memory.                                   *)

\* Step i of domain d is the one to go on with, or was once.
Reached(op, d, i) == op[d] # <<>> /\ \A j \in 1 .. i - 1 : op[d][j] = "succeeded"

\* A step that is not done yet gets a status, the last one only if its goal is met.
Put(d, i, st) ==
  /\ d \in Domains /\ i \in DOMAIN Plan[d] /\ Reached(mem, d, i) /\ mem[d][i] # "succeeded"
  /\ st \in Status \ {"pending"} /\ (st = "succeeded" => Met(d, i))
  /\ mem' = [mem EXCEPT ![d][i] = st]

\* A new operation.
Opened(d) ==
  /\ d \in Domains /\ mem[d] = <<>>
  /\ mem' = [mem EXCEPT ![d] = [i \in DOMAIN Plan[d] |-> "pending"]]

\* What no step but a crash takes back.
MemGrows ==
  \A d \in Domains : mem[d] # <<>> =>
    /\ mem'[d] # <<>>
    /\ \A i \in DOMAIN Plan[d] : mem[d][i] = "succeeded" => mem'[d][i] = "succeeded"

LEMMA PutFacts ==
  ASSUME Sound(mem), NEW d, NEW i, NEW st, Put(d, i, st)
  PROVE  /\ Sound(mem') /\ MemGrows /\ mem'[d][i] = st /\ mem[d] # <<>>
         /\ \A x \in Domains : \A k \in DOMAIN Plan[x] :
              ~ (x = d /\ k = i) => mem'[x][k] = mem[x][k]
         /\ \A x \in Domains : (mem'[x] = <<>> <=> mem[x] = <<>>) /\ (x # d => mem'[x] = mem[x])
<1>1. mem[d] # <<>> /\ mem[d] \in [DOMAIN Plan[d] -> Status] /\ mem \in Image /\ d \in Domains
  BY DEF Put, Reached, Sound, Shaped
<1>2. mem'[d] = [mem[d] EXCEPT ![i] = st] /\ \A x \in Domains : x # d => mem'[x] = mem[x]
  BY <1>1 DEF Put, Image
<1>3. mem'[d] \in [DOMAIN Plan[d] -> Status]
  BY <1>1, <1>2 DEF Put
<1>4. mem'[d] # <<>>
  <2>1. DOMAIN mem'[d] # {}
    BY <1>1, <1>3, PlanFacts
  <2> QED BY <2>1
<1>5. Shaped(mem')
  BY <1>1, <1>2, <1>3, <1>4 DEF Put, Sound, Shaped, Image
<1>6. MemGrows
  BY <1>1, <1>2, <1>4 DEF Put, MemGrows
<1>7. mem'[d][i] = st /\ \A k \in DOMAIN Plan[d] : k # i => mem'[d][k] = mem[d][k]
  BY <1>1, <1>2 DEF Put
<1>8. InSequence(mem')
  <2> SUFFICES ASSUME NEW x \in Domains, mem'[x] # <<>>, NEW k \in DOMAIN Plan[x],
                      mem'[x][k] # "pending", NEW j \in 1 .. k - 1
               PROVE  mem'[x][j] = "succeeded"
    BY DEF InSequence
  <2>1. j \in DOMAIN Plan[x] /\ j \in 1 .. k - 1
    BY PlanFacts
  <2>2. CASE x # d
    BY <1>2, <2>2 DEF Sound, InSequence
  <2>3. CASE x = d /\ k # i
    <3>1. mem[x][j] = "succeeded"
      BY <1>1, <1>7, <2>3 DEF Sound, InSequence
    <3> QED BY <1>7, <2>1, <2>3, <3>1 DEF Put
  <2>4. CASE x = d /\ k = i
    <3>1. mem[x][j] = "succeeded" /\ j # i
      BY <2>1, <2>4, PlanFacts DEF Put, Reached
    <3> QED BY <1>7, <2>1, <2>4, <3>1
  <2> QED BY <2>2, <2>3, <2>4
<1>9. Truthful(mem')
  BY <1>1, <1>2, <1>7 DEF Put, Sound, Truthful
<1> QED BY <1>1, <1>2, <1>4, <1>5, <1>6, <1>7, <1>8, <1>9 DEF Sound

LEMMA OpenedFacts ==
  ASSUME Sound(mem), NEW d, Opened(d)
  PROVE  /\ Sound(mem') /\ MemGrows /\ mem'[d] # <<>> /\ mem[d] = <<>>
         /\ \A x \in Domains : x # d => mem'[x] = mem[x]
<1>1. mem \in Image /\ d \in Domains
  BY DEF Opened, Sound, Shaped
<1>2. mem'[d] = [i \in DOMAIN Plan[d] |-> "pending"] /\ \A x \in Domains : x # d => mem'[x] = mem[x]
  BY <1>1 DEF Opened, Image
<1>3. mem'[d] \in [DOMAIN Plan[d] -> Status]
  BY <1>2 DEF Status
<1>4. mem'[d] # <<>>
  <2>1. DOMAIN mem'[d] # {}
    BY <1>1, <1>3, PlanFacts
  <2> QED BY <2>1
<1>5. Shaped(mem')
  BY <1>1, <1>2, <1>3, <1>4 DEF Opened, Sound, Shaped, Image
<1>6. MemGrows
  BY <1>1, <1>2 DEF Opened, MemGrows
<1>7. InSequence(mem') /\ Truthful(mem')
  BY <1>1, <1>2 DEF Sound, InSequence, Truthful
<1> QED BY <1>1, <1>2, <1>4, <1>5, <1>6, <1>7 DEF Sound, Opened

-----------------------------------------------------------------------------
(* The invariant.                                                          *)

\* What holds of the memory holds of every queued snapshot and of the file.
JournalsSound ==
  Sound(mem) /\ Sound(disk) /\ \A k \in 1 .. Len(queue) : Sound(queue[k].image)

HasChild  == InPlan("root", "child_domain")
Target(a) == IF own[a].nested THEN "child" ELSE "root"

\* Where an actor is tells how far the journal has come, and what its verdict is worth.
Placed(a) ==
  /\ own[a].i \in DOMAIN Plan[own[a].d]
  /\ at[a] \in {"reading", "changing", "creating", "decided"} => Reached(mem, own[a].d, own[a].i)
  /\ own[a].nested => HasChild /\ Reached(mem, "root", ChildStep)
  /\ at[a] = "created" => mem[Target(a)] # <<>>
  /\ at[a] = "creating" => Kind(own[a]) = "child_domain"
  /\ at[a] = "changing" => Kind(own[a]) # "child_domain"
  /\ at[a] = "decided" => own[a].verdict # "none"
  /\ at[a] = "decided" /\ own[a].verdict = "complete" => Met(own[a].d, own[a].i)
EveryonePlaced == \A a \in Actors : Placed(a)

\* Nobody waits for two snapshots; a snapshot holds the step its actor goes on with.
Queued(e) ==
  /\ at[e.by] = "writing"
  /\ e.then = "reading" => Reached(mem, own[e.by].d, own[e.by].i)
  /\ e.then = "created" => mem[Target(e.by)] # <<>> /\ e.by # "boot"
Chained ==
  /\ \A k \in 1 .. Len(queue) : Queued(queue[k])
  /\ \A k, l \in 1 .. Len(queue) : queue[k].by = queue[l].by => k = l

\* The recovery works alone, from the root to the child.
BootFirst ==
  /\ todo \in {<<>>, <<"root">>, <<"child">>, <<"root", "child">>}
  /\ todo \in {<<"root">>, <<"root", "child">>} => Interrupted(mem["root"])
  /\ todo \in {<<"child">>, <<"root", "child">>} => Interrupted(mem["child"])
  /\ todo # <<>> \/ at["boot"] # "idle" => \A r \in Runners : at[r] = "idle"
  /\ at["boot"] # "idle" =>
       /\ ~own["boot"].nested /\ at["boot"] \notin {"creating", "created"}
       /\ todo \in {<<>>, <<"child">>} /\ (own["boot"].d = "child" => todo = <<>>)

LeavingIsKnown == \A x \in leaving : x[2] \in Delegated \cup {"certificate"}

\* runAuthoritativeDns looks whether the domain is unbound, and it stays so.
DnsWaits ==
  /\ \A d \in Domains : <<d, "authoritative_dns">> \in gone => Unbound(d)
  /\ \A a \in Actors : at[a] = "changing" /\ Kind(own[a]) = "authoritative_dns" => Unbound(own[a].d)

\* Nothing has happened but crashes and changes that failed without effect.
Calm == happened \subseteq {"crash", "refused"}

\* An image knows of every resource that is gone.
Covers(op) ==
  \A d \in Domains : \A i \in DOMAIN Plan[d] :
    <<d, Plan[d][i]>> \in gone => op[d] # <<>> /\ op[d][i] \in {"running", "succeeded"}

StepIs(a, st) == mem[own[a].d][own[a].i] = st
Taken(a)      == Resource(own[a]) \in gone

\* What an actor knows of its step while it is alone.
Orderly(a) ==
  /\ at[a] \in {"reading", "changing"} => StepIs(a, "running")
  /\ at[a] = "reading" /\ Taken(a) => own[a].was
  /\ at[a] = "changing" => ~Taken(a)
  /\ at[a] = "decided" /\ Taken(a) => own[a].verdict = "complete" /\ StepIs(a, "running")
OrderlyEntry(e) ==
  e.then = "reading" => StepIs(e.by, "running") /\ (Taken(e.by) => own[e.by].was)

\* In a calm world one actor is at work, and the file is at most one snapshot behind.
CalmIsOrderly == Calm =>
  /\ ~broken
  /\ \A a, b \in Actors : at[a] # "idle" /\ at[b] # "idle" => a = b
  /\ queue = <<>> => mem = disk /\ \A a \in Actors : at[a] # "writing"
  /\ queue # <<>> => Len(queue) = 1 /\ queue[1].image = mem
  /\ Covers(mem) /\ Covers(disk)
  /\ \A a \in Actors : Orderly(a)
  /\ \A k \in 1 .. Len(queue) : OrderlyEntry(queue[k])

IndInv == /\ TypeOK /\ JournalsSound /\ EveryonePlaced /\ Chained /\ BootFirst
          /\ LeavingIsKnown /\ DnsWaits /\ DependentsGoFirst /\ CalmIsOrderly

-----------------------------------------------------------------------------
(* A turn of one actor.                                                    *)

Places == {"idle", "writing", "created", "creating", "reading", "changing", "decided"}
Owned  == [d : Domains, i : Nat, was : BOOLEAN, nested : BOOLEAN,
           verdict : {"none", "complete", "block", "fail"}]

\* The three ways a turn treats the journal.
Moves(a) ==
  /\ UNCHANGED <<mem, disk, queue, broken>> /\ at[a] # "writing" /\ at'[a] # "writing"

Writes(a, then) ==
  \/ then = "created" /\ Opened(Target(a)') /\ a # "boot"
  \/ /\ then = "reading" /\ Put(own'[a].d, own'[a].i, "running")
     /\ mem[own'[a].d][own'[a].i] # "running"
  \/ /\ then = "done" /\ own' = own /\ at[a] = "decided"
     /\ \E verdict \in DOMAIN Verdicts :
          verdict = own[a].verdict /\ Put(own[a].d, own[a].i, Verdicts[verdict])

Persists(a, then) ==
  /\ UNCHANGED <<disk, broken, resources>> /\ at[a] # "writing" /\ at'[a] = "writing"
  /\ queue' = Append(queue, [by |-> a, then |-> then, image |-> mem'])
  /\ Writes(a, then)

Leaves(a) ==
  /\ queue # <<>> /\ Head(queue).by = a /\ queue' = Tail(queue) /\ UNCHANGED <<mem, resources>>
  /\ at'[a] # "writing"
  /\ \/ disk' = Head(queue).image /\ broken' = broken
     \/ disk' = disk /\ broken' \in BOOLEAN /\ (Calm' => broken)

\* The three ways it treats the resources.
Erases(a) ==
  /\ at[a] = "changing" /\ Erase(a)
  /\ Kind(own[a]) = "metadata_finalization" => Finalizable(own[a].d)

Announces(a) ==
  /\ at[a] = "changing" /\ ~Taken(a) /\ Kind(own[a]) \in Delegated \cup {"certificate"}
  /\ leaving' = leaving \cup {Resource(own[a])} /\ gone' = gone

Handles(a) == NoEffect \/ Erases(a) \/ Announces(a)

\* Its right to move: a request waits for the recovery.
Admitted(a) ==
  \/ a \in Runners /\ todo' = todo /\ (at[a] # "idle" \/ Serving)
  \/ /\ a = "boot" /\ todo' = todo /\ at["boot"] # "idle"
     /\ at'["boot"] # "idle" => own'["boot"].d = own["boot"].d
  \/ /\ a = "boot" /\ at["boot"] = "idle" /\ todo # <<>> /\ todo' = Tail(todo)
     /\ own'["boot"].d = Head(todo) /\ mem' = mem
Sober(a) == a = "boot" /\ at'[a] # "idle" =>
  ~own'[a].nested /\ at'[a] \notin {"creating", "created"}

\* In a calm world it comes alone and leaves an orderly step.
Alone(a) == Calm' => at[a] # "idle" \/ \A b \in Actors : at[b] = "idle"

Turn(a) ==
  /\ a \in Actors /\ at'[a] \in Places /\ own'[a] \in Owned
  /\ at' = [at EXCEPT ![a] = at'[a]] /\ own' = [own EXCEPT ![a] = own'[a]]
  /\ happened \subseteq happened' /\ happened' \subseteq Disturbances
  /\ Moves(a) \/ Leaves(a) \/ \E then \in {"created", "reading", "done"} : Persists(a, then)
  /\ Handles(a) /\ Admitted(a) /\ Sober(a) /\ Alone(a)
  /\ Placed(a)' /\ (Calm' => Orderly(a)')
  /\ at'[a] = "changing" /\ Kind(own'[a]) = "authoritative_dns" => Unbound(own[a].d)'

-----------------------------------------------------------------------------
(* What a turn leaves true of the resources.                               *)

Kept ==
  /\ gone \subseteq gone' /\ gone' \subseteq Resources /\ leaving' \subseteq Resources \ gone'
  /\ LeavingIsKnown' /\ DependentsGoFirst'
  /\ \A d \in Domains : Unbound(d) => Unbound(d)'
  /\ \A d \in Domains : <<d, "authoritative_dns">> \in gone' => Unbound(d)'
  /\ \A d \in Domains : \A i \in DOMAIN Plan[d] : Met(d, i) => Met(d, i)'

\* What is unbound or met stays so as long as nothing comes back.
LEMMA MoreIsGone ==
  ASSUME gone \subseteq gone', leaving \subseteq leaving' \cup gone', happened \subseteq happened'
  PROVE  /\ \A d \in Domains : Unbound(d) => Unbound(d)'
         /\ \A d \in Domains : \A i \in DOMAIN Plan[d] : IsGone(d, i) => IsGone(d, i)'
         /\ \A d \in Domains : \A i \in DOMAIN Plan[d] : Met(d, i) => Met(d, i)'
<1>1. \A d \in Domains : Unbound(d) => Unbound(d)'
  BY DEF Unbound, InPlan
<1>2. \A d \in Domains : \A i \in DOMAIN Plan[d] : IsGone(d, i) => IsGone(d, i)'
  BY DEF IsGone, Present
<1> QED BY <1>1, <1>2 DEF Met

\* The metadata goes when everything before it has gone.
LEMMA MetadataGoesLast ==
  ASSUME Sound(mem), NEW d \in Domains, Reached(mem, d, Len(Plan[d])), Finalizable(d)
  PROVE  \A i \in 1 .. Len(Plan[d]) - 1 : IsGone(d, i)
<1> SUFFICES ASSUME NEW i \in 1 .. Len(Plan[d]) - 1 PROVE IsGone(d, i)
  OBVIOUS
<1>1. i \in DOMAIN Plan[d] /\ mem[d] # <<>> /\ mem[d][i] = "succeeded"
  BY PlanFacts DEF Reached
<1>2. Met(d, i)
  BY <1>1 DEF Sound, Truthful
<1>3. i = 1 => IsGone(d, i)
  BY PlanFacts DEF Finalizable, Suspended, IsGone
<1> QED BY <1>2, <1>3 DEF Met

LEMMA ResourceOfStep ==
  ASSUME TypeOK, EveryonePlaced, NEW a \in Actors
  PROVE  /\ own[a].d \in Domains /\ own[a].i \in DOMAIN Plan[own[a].d] /\ Kind(own[a]) \in Kinds
         /\ Kind(own[a]) # "child_domain" => Resource(own[a]) \in Resources
<1>1. own[a].d \in Domains /\ own[a].i \in DOMAIN Plan[own[a].d]
  BY DEF TypeOK, EveryonePlaced, Placed
<1> QED BY <1>1, PlanFacts DEF Kind, Resource, Resources

LEMMA TurnKeeps ==
  ASSUME IndInv, NEW a \in Actors, Handles(a), happened \subseteq happened'
  PROVE  Kept
<1>0. gone \subseteq Resources /\ leaving \subseteq Resources \ gone /\ Sound(mem)
  BY DEF IndInv, TypeOK, JournalsSound
<1>1. CASE NoEffect
  <2>1. gone' = gone /\ leaving' = leaving
    BY <1>1 DEF NoEffect
  <2>2. LeavingIsKnown' /\ DependentsGoFirst'
    BY <2>1 DEF IndInv, LeavingIsKnown, DependentsGoFirst, Present, IsGone
  <2> QED BY <1>0, <2>1, <2>2, MoreIsGone DEF Kept, IndInv, DnsWaits
<1>2. CASE Erases(a)
  <2> DEFINE res == Resource(own[a])
             d == own[a].d
  <2>1. /\ gone' = gone \cup {res} /\ leaving' = leaving \ {res} /\ at[a] = "changing"
        /\ Kind(own[a]) = "metadata_finalization" => Finalizable(d)
    BY <1>2 DEF Erases, Erase
  <2>2. d \in Domains /\ own[a].i \in DOMAIN Plan[d] /\ res \in Resources /\ Reached(mem, d, own[a].i)
        /\ res = <<d, Plan[d][own[a].i]>> /\ Kind(own[a]) = Plan[d][own[a].i]
    BY <2>1, ResourceOfStep DEF IndInv, EveryonePlaced, Placed, Resource, Kind
  <2> HIDE DEF res, d
  <2>3. /\ \A x \in Domains : Unbound(x) => Unbound(x)'
        /\ \A x \in Domains : \A i \in DOMAIN Plan[x] : IsGone(x, i) => IsGone(x, i)'
        /\ \A x \in Domains : \A i \in DOMAIN Plan[x] : Met(x, i) => Met(x, i)'
    <3>1. gone \subseteq gone' /\ leaving \subseteq leaving' \cup gone'
      BY <2>1
    <3> QED BY <3>1, MoreIsGone
  <2>4. DependentsGoFirst'
    <3> SUFFICES ASSUME NEW x \in Domains, ~Present(x)', NEW i \in DOMAIN Plan[x]
                 PROVE  IsGone(x, i)'
      BY DEF DependentsGoFirst
    <3>1. CASE ~Present(x)
      BY <2>3, <3>1 DEF IndInv, DependentsGoFirst
    <3>2. CASE Present(x)
      <4>1. res = <<x, "metadata_finalization">>
        BY <2>1, <3>2 DEF Present
      <4>2. x = d /\ Plan[d][own[a].i] = "metadata_finalization"
        BY <2>2, <4>1
      <4>3. own[a].i = Len(Plan[d])
        BY <2>2, <4>2, PlanFacts
      <4>4. \A k \in 1 .. Len(Plan[d]) - 1 : IsGone(d, k)
        BY <1>0, <2>1, <2>2, <4>2, <4>3, MetadataGoesLast
      <4>5. CASE i = Len(Plan[d])
        <5>1. <<x, Plan[x][i]>> \in gone' /\ Plan[x][i] # "child_domain"
          BY <2>1, <2>2, <4>2, <4>3, <4>5
        <5> QED BY <5>1 DEF IsGone
      <4>6. CASE i # Len(Plan[d])
        <5>1. i \in 1 .. Len(Plan[d]) - 1
          BY <4>2, <4>6, PlanFacts
        <5> QED BY <2>3, <4>2, <4>4, <5>1
      <4> QED BY <4>5, <4>6
    <3> QED BY <3>1, <3>2
  <2>5. LeavingIsKnown'
    BY <2>1 DEF IndInv, LeavingIsKnown
  <2>6. \A x \in Domains : <<x, "authoritative_dns">> \in gone' => Unbound(x)'
    <3> SUFFICES ASSUME NEW x \in Domains, <<x, "authoritative_dns">> \in gone' PROVE Unbound(x)'
      OBVIOUS
    <3>1. CASE <<x, "authoritative_dns">> \in gone
      BY <2>3, <3>1 DEF IndInv, DnsWaits
    <3>2. CASE <<x, "authoritative_dns">> = res
      <4>1. x = d /\ Kind(own[a]) = "authoritative_dns"
        BY <2>2, <3>2
      <4>2. Unbound(d)
        BY <2>1, <4>1 DEF IndInv, DnsWaits, d
      <4> QED BY <2>2, <2>3, <4>1, <4>2
    <3> QED BY <2>1, <3>1, <3>2
  <2> QED BY <1>0, <2>1, <2>2, <2>3, <2>4, <2>5, <2>6 DEF Kept
<1>3. CASE Announces(a)
  <2>1. /\ gone' = gone /\ leaving' = leaving \cup {Resource(own[a])} /\ Resource(own[a]) \notin gone
        /\ Kind(own[a]) \in Delegated \cup {"certificate"} /\ Resource(own[a])[2] = Kind(own[a])
    BY <1>3 DEF Announces, Taken, Resource
  <2>2. Resource(own[a]) \in Resources
    <3>1. Kind(own[a]) # "child_domain"
      BY <2>1 DEF Delegated
    <3> QED BY <3>1, ResourceOfStep DEF IndInv
  <2>3. LeavingIsKnown' /\ DependentsGoFirst'
    BY <2>1 DEF IndInv, LeavingIsKnown, DependentsGoFirst, Present, IsGone
  <2> QED BY <1>0, <2>1, <2>2, <2>3, MoreIsGone DEF Kept, IndInv, DnsWaits
<1> QED BY <1>1, <1>2, <1>3 DEF Handles

-----------------------------------------------------------------------------
(* What a turn leaves true of the journal.                                 *)

Entry == [by : Actors, then : {"created", "reading", "done"}, image : Journal]

\* A sound image stays so while nothing comes back.
LEMMA SoundStays ==
  ASSUME NEW op, Sound(op), Kept
  PROVE  Shaped(op) /\ InSequence(op)
         /\ \A d \in Domains : op[d] # <<>> => \A i \in DOMAIN Plan[d] : op[d][i] = "succeeded" => Met(d, i)'
BY DEF Sound, Truthful, Kept

LEMMA ReachedStays ==
  ASSUME MemGrows, NEW d \in Domains, NEW i \in DOMAIN Plan[d], Reached(mem, d, i)
  PROVE  Reached(mem', d, i)
<1>1. \A j \in 1 .. i - 1 : j \in DOMAIN Plan[d]
  BY PlanFacts
<1> QED BY <1>1 DEF Reached, MemGrows

\* What happens to the memory.
LEMMA TurnMem ==
  ASSUME IndInv, NEW a, Turn(a)
  PROVE  Sound(mem') /\ MemGrows /\ mem' \in Journal
<1>0. Sound(mem)
  BY DEF IndInv, JournalsSound
<1>1. CASE mem' = mem
  BY <1>0, <1>1, ShapedJournal DEF MemGrows, Sound
<1>2. ASSUME NEW then, Writes(a, then)
      PROVE  Sound(mem') /\ MemGrows
  <2>1. \A d : Opened(d) => Sound(mem') /\ MemGrows
    BY <1>0, OpenedFacts
  <2>2. \A d, i, st : Put(d, i, st) => Sound(mem') /\ MemGrows
    BY <1>0, PutFacts
  <2> QED BY <1>2, <2>1, <2>2 DEF Writes
<1>3. Sound(mem') /\ MemGrows
  BY <1>0, <1>1, <1>2 DEF Turn, Moves, Leaves, Persists
<1> QED BY <1>3, ShapedJournal DEF Sound

\* How a turn moves the chain: n snapshots leave it, and at most one joins.
Slid(a, n) ==
  /\ n \in {0, 1} /\ n <= Len(queue) /\ Len(queue) \in Nat
  /\ n = 0 => disk' = disk /\ broken' = broken /\ at[a] # "writing"
  /\ n = 1 => /\ queue[1].by = a /\ mem' = mem /\ disk' \in {disk, queue[1].image} /\ at'[a] # "writing"
              /\ gone' = gone /\ leaving' = leaving
              /\ Calm' => broken \/ (disk' = queue[1].image /\ broken' = broken)
  /\ \A k \in 1 .. Len(queue) : queue[k] \in Entry
  /\ \A k \in 1 .. Len(queue) - n : k + n \in 1 .. Len(queue) /\ queue'[k] = queue[k + n]
  /\ \/ Len(queue') = Len(queue) - n /\ mem' = mem /\ at'[a] # "writing"
     \/ /\ n = 0 /\ Len(queue') = Len(queue) + 1 /\ at'[a] = "writing" /\ gone' = gone /\ leaving' = leaving
        /\ \E then \in {"created", "reading", "done"} :
             Writes(a, then) /\ queue'[Len(queue')] = [by |-> a, then |-> then, image |-> mem']

LEMMA TurnSlides ==
  ASSUME IndInv, NEW a, Turn(a)
  PROVE  (\E n \in {0, 1} : Slid(a, n)) /\ queue' \in Seq(Entry)
<1>1. queue \in Seq(Entry) /\ a \in Actors /\ mem' \in Journal
  BY TurnMem DEF IndInv, TypeOK, Entry, Turn
<1>2. Len(queue) \in Nat /\ \A k \in 1 .. Len(queue) : queue[k] \in Entry
  BY <1>1, LenProperties, ElementOfSeq
<1>3. CASE Moves(a)
  <2>1. Slid(a, 0)
    BY <1>2, <1>3 DEF Moves, Slid
  <2> QED BY <1>1, <1>3, <2>1 DEF Moves
<1>4. CASE Leaves(a)
  <2>1. queue # <<>> /\ queue' = Tail(queue)
    BY <1>4 DEF Leaves
  <2>2. /\ Len(queue) \in Nat \ {0} /\ Head(queue) = queue[1] /\ Len(queue') = Len(queue) - 1
        /\ \A k \in 1 .. Len(queue') : queue'[k] = queue[k + 1]
        /\ queue' \in Seq(Entry)
    BY <1>1, <2>1, HeadTailProperties, EmptySeq
  <2>3. \A k \in 1 .. Len(queue) - 1 : k + 1 \in 1 .. Len(queue) /\ queue'[k] = queue[k + 1]
    BY <2>2
  <2>4. 1 <= Len(queue)
    BY <2>2
  <2>5. Slid(a, 1)
    BY <1>2, <1>4, <2>2, <2>3, <2>4 DEF Leaves, Slid, resources
  <2> QED BY <2>2, <2>5
<1>5. ASSUME NEW then \in {"created", "reading", "done"}, Persists(a, then)
      PROVE  Slid(a, 0) /\ queue' \in Seq(Entry)
  <2> DEFINE e == [by |-> a, then |-> then, image |-> mem']
  <2>1. e \in Entry /\ queue' = Append(queue, e)
    BY <1>1, <1>5 DEF Persists, Entry
  <2>2. /\ queue' \in Seq(Entry) /\ Len(queue') = Len(queue) + 1 /\ queue'[Len(queue) + 1] = e
        /\ \A k \in 1 .. Len(queue) : queue'[k] = queue[k]
    BY <1>1, <2>1, AppendProperties
  <2>3. \A k \in 1 .. Len(queue) - 0 : k + 0 \in 1 .. Len(queue) /\ queue'[k] = queue[k + 0]
    BY <1>2, <2>2
  <2>4. queue'[Len(queue')] = e
    BY <2>2
  <2> HIDE DEF e
  <2>5. /\ at[a] # "writing" /\ at'[a] = "writing" /\ disk' = disk /\ broken' = broken
        /\ gone' = gone /\ leaving' = leaving /\ Writes(a, then)
    BY <1>5 DEF Persists, resources
  <2>6. Slid(a, 0)
    BY <1>2, <2>2, <2>3, <2>4, <2>5 DEF Slid, e
  <2> QED BY <2>2, <2>6
<1> QED BY <1>3, <1>4, <1>5 DEF Turn

LEMMA TurnType ==
  ASSUME IndInv, NEW a, Turn(a), Kept
  PROVE  TypeOK'
<1>1. PICK n \in {0, 1} : Slid(a, n)
  BY TurnSlides
<1>2. mem' \in Journal /\ queue' \in Seq(Entry)
  BY TurnMem, TurnSlides
<1>3. disk' \in Journal
  <2>1. n = 0 => disk' = disk
    BY <1>1 DEF Slid
  <2>2. n = 1 => disk' = disk \/ (disk' = queue[1].image /\ queue[1] \in Entry)
    BY <1>1 DEF Slid
  <2> QED BY <2>1, <2>2 DEF IndInv, TypeOK, Entry
<1>4. broken' \in BOOLEAN
  BY DEF Turn, Moves, Leaves, Persists, IndInv, TypeOK
<1>5. at' \in [Actors -> Places] /\ own' \in [Actors -> Owned]
  BY DEF Turn, IndInv, TypeOK, Places, Owned
<1>6. todo' \in Seq(Domains)
  <2>1. todo \in Seq(Domains)
    BY DEF IndInv, TypeOK
  <2>2. todo # <<>> => Tail(todo) \in Seq(Domains)
    BY <2>1, HeadTailProperties
  <2> QED BY <2>1, <2>2 DEF Turn, Admitted
<1> QED BY <1>2, <1>3, <1>4, <1>5, <1>6 DEF TypeOK, Kept, Turn, Entry, Places, Owned

LEMMA TurnJournals ==
  ASSUME IndInv, NEW a, Turn(a), Kept
  PROVE  JournalsSound'
<1>1. PICK n \in {0, 1} : Slid(a, n)
  BY TurnSlides
<1>2. Sound(mem') /\ Sound(disk) /\ \A k \in 1 .. Len(queue) : Sound(queue[k].image)
  BY TurnMem DEF IndInv, JournalsSound
<1>3. Sound(mem)'
  BY <1>2, SoundStays DEF Sound, Shaped, InSequence, Truthful
<1>4. Sound(disk')
  BY <1>1, <1>2 DEF Slid
<1>5. Sound(disk)'
  BY <1>4, SoundStays DEF Sound, Shaped, InSequence, Truthful
<1>6. ASSUME NEW k \in 1 .. Len(queue')
      PROVE  Sound(queue[k].image)'
  <2>1. Sound(queue'[k].image)
    <3>1. CASE k \in 1 .. Len(queue) - n
      BY <1>1, <1>2, <3>1 DEF Slid
    <3>2. CASE k = Len(queue') /\ queue'[k].image = mem'
      BY <1>2, <3>2
    <3>3. k \in 1 .. Len(queue) - n \/ (k = Len(queue') /\ queue'[k].image = mem')
      BY <1>1 DEF Slid
    <3> QED BY <3>1, <3>2, <3>3
  <2> QED BY <2>1, SoundStays DEF Sound, Shaped, InSequence, Truthful
<1> QED BY <1>3, <1>5, <1>6 DEF JournalsSound

-----------------------------------------------------------------------------
(* What a turn leaves true of the actors.                                  *)

\* The others stay where they are.
LEMMA OthersStay ==
  ASSUME IndInv, NEW a, Turn(a)
  PROVE  /\ a \in Actors
         /\ \A b \in Actors \ {a} : at'[b] = at[b] /\ own'[b] = own[b]
                                    /\ own[b].d \in Domains /\ own[b].i \in DOMAIN Plan[own[b].d]
         /\ own'[a].d \in Domains /\ own'[a].i \in DOMAIN Plan[own'[a].d]
<1>1. a \in Actors /\ \A b \in Actors \ {a} : at'[b] = at[b] /\ own'[b] = own[b]
  BY DEF Turn, IndInv, TypeOK
<1>2. \A b \in Actors : own[b].d \in Domains /\ own[b].i \in DOMAIN Plan[own[b].d]
  BY ResourceOfStep DEF IndInv
<1>3. own'[a].d \in Domains
  BY DEF Turn, Owned
<1>4. own'[a].i \in DOMAIN Plan[own'[a].d]
  BY DEF Turn, Placed
<1> QED BY <1>1, <1>2, <1>3, <1>4

\* The step of the root that removes the child.
LEMMA ChildStepFacts ==
  ASSUME HasChild
  PROVE  /\ ChildStep \in DOMAIN Plan["root"] /\ Plan["root"][ChildStep] = "child_domain"
         /\ \A i \in DOMAIN Plan["root"] : Plan["root"][i] = "child_domain" => i = ChildStep
<1>1. ChildStep \in DOMAIN Plan["root"] /\ Plan["root"][ChildStep] = "child_domain"
  BY DEF HasChild, InPlan, ChildStep
<1> QED BY <1>1, PlanFacts DEF Domains

LEMMA TurnPlaced ==
  ASSUME IndInv, NEW a, Turn(a), Kept
  PROVE  EveryonePlaced'
<1> SUFFICES ASSUME NEW b \in Actors PROVE Placed(b)'
  BY DEF EveryonePlaced
<1>1. CASE b = a
  BY <1>1 DEF Turn
<1>2. CASE b # a
  <2>1. at'[b] = at[b] /\ own'[b] = own[b] /\ own[b].d \in Domains /\ own[b].i \in DOMAIN Plan[own[b].d]
    BY <1>2, OthersStay
  <2>2. MemGrows /\ Placed(b)
    BY TurnMem DEF IndInv, EveryonePlaced
  <2>3. at[b] \in {"reading", "changing", "creating", "decided"} => Reached(mem', own[b].d, own[b].i)
    BY <2>1, <2>2, ReachedStays DEF Placed
  <2>4. own[b].nested => HasChild /\ Reached(mem', "root", ChildStep)
    BY <2>2, ReachedStays, ChildStepFacts DEF Placed, Domains
  <2>5. at[b] = "created" => mem'[Target(b)] # <<>>
    BY <2>2 DEF Placed, MemGrows, Target, Domains
  <2>6. at[b] = "decided" /\ own[b].verdict = "complete" => Met(own[b].d, own[b].i)'
    BY <2>1, <2>2 DEF Placed, Kept
  <2> QED BY <2>1, <2>2, <2>3, <2>4, <2>5, <2>6 DEF Placed, Reached, Met, Target, Kind, HasChild
<1> QED BY <1>1, <1>2

LEMMA TurnChained ==
  ASSUME IndInv, NEW a, Turn(a), Kept
  PROVE  Chained'
<1>1. PICK n \in {0, 1} : Slid(a, n)
  BY TurnSlides
<1>2. MemGrows /\ Sound(mem)
  BY TurnMem DEF IndInv, JournalsSound
\* The entries that stay are the others'.
<1>3. ASSUME NEW k \in 1 .. Len(queue) - n
      PROVE  /\ k + n \in 1 .. Len(queue) /\ queue'[k] = queue[k + n]
             /\ queue[k + n].by \in Actors \ {a} /\ Queued(queue[k + n])
  <2>1. k + n \in 1 .. Len(queue) /\ queue'[k] = queue[k + n] /\ queue[k + n] \in Entry
    BY <1>1 DEF Slid
  <2>2. Queued(queue[k + n])
    BY <2>1 DEF IndInv, Chained
  <2>3. queue[k + n].by # a
    <3>1. CASE n = 0
      BY <1>1, <2>2, <3>1 DEF Slid, Queued
    <3>2. CASE n = 1
      <4>1. 1 \in 1 .. Len(queue) /\ queue[1].by = a /\ k + n # 1
        BY <1>1, <3>2 DEF Slid
      <4> QED BY <2>1, <4>1 DEF IndInv, Chained
    <3> QED BY <3>1, <3>2
  <2> QED BY <2>1, <2>2, <2>3 DEF Entry
<1>4. ASSUME NEW k \in 1 .. Len(queue')
      PROVE  \/ k \in 1 .. Len(queue) - n
             \/ k = Len(queue') /\ queue'[k].by = a /\ Queued(queue[k])'
  <2>1. CASE Len(queue') = Len(queue) - n
    BY <2>1
  <2>2. CASE n = 0 /\ Len(queue') = Len(queue) + 1 /\ at'[a] = "writing"
    <3>1. PICK then \in {"created", "reading", "done"} :
            Writes(a, then) /\ queue'[Len(queue')] = [by |-> a, then |-> then, image |-> mem']
      BY <1>1, <2>2 DEF Slid
    <3>2. then = "reading" => Reached(mem', own'[a].d, own'[a].i)
      <4>1. ASSUME Put(own'[a].d, own'[a].i, "running")
            PROVE  Reached(mem', own'[a].d, own'[a].i)
        <5>1. Reached(mem, own'[a].d, own'[a].i)
          BY <4>1 DEF Put
        <5>2. own'[a].d \in Domains /\ own'[a].i \in DOMAIN Plan[own'[a].d]
          BY OthersStay
        <5> QED BY <1>2, <5>1, <5>2, ReachedStays
      <4> QED BY <3>1, <4>1 DEF Writes
    <3>3. then = "created" => mem'[Target(a)'] # <<>> /\ a # "boot"
      BY <1>2, <3>1, OpenedFacts DEF Writes
    <3>4. k = Len(queue') => queue'[k].by = a /\ Queued(queue[k])'
      BY <2>2, <3>1, <3>2, <3>3 DEF Queued, Target
    <3>5. k # Len(queue') => k \in 1 .. Len(queue) - n
      BY <1>1, <2>2 DEF Slid
    <3> QED BY <3>4, <3>5
  <2> QED BY <1>1, <2>1, <2>2 DEF Slid
<1>5. ASSUME NEW k \in 1 .. Len(queue')
      PROVE  Queued(queue[k])'
  <2>1. CASE k \in 1 .. Len(queue) - n
    <3> DEFINE b == queue[k + n].by
    <3>1. queue'[k] = queue[k + n] /\ b \in Actors \ {a} /\ Queued(queue[k + n])
      BY <1>3, <2>1
    <3> HIDE DEF b
    <3>2. at'[b] = at[b] /\ own'[b] = own[b] /\ own[b].d \in Domains /\ own[b].i \in DOMAIN Plan[own[b].d]
      BY <3>1, OthersStay
    <3>3. Reached(mem, own[b].d, own[b].i) => Reached(mem', own[b].d, own[b].i)
      BY <1>2, <3>2, ReachedStays
    <3>4. mem[Target(b)] # <<>> => mem'[Target(b)] # <<>>
      BY <1>2 DEF MemGrows, Target, Domains
    <3>5. at[b] = "writing" /\ (queue[k + n].then = "reading" => Reached(mem, own[b].d, own[b].i))
          /\ (queue[k + n].then = "created" => mem[Target(b)] # <<>> /\ b # "boot")
      BY <3>1 DEF Queued, b
    <3>6. queue'[k].by = b /\ queue'[k].then = queue[k + n].then
      BY <3>1 DEF b
    <3> QED BY <3>2, <3>3, <3>4, <3>5, <3>6 DEF Queued, Target, Reached
  <2> QED BY <1>4, <2>1
<1>6. ASSUME NEW k \in 1 .. Len(queue'), NEW l \in 1 .. Len(queue'), queue'[k].by = queue'[l].by
      PROVE  k = l
  <2>1. CASE k \in 1 .. Len(queue) - n /\ l \in 1 .. Len(queue) - n
    <3>1. k + n \in 1 .. Len(queue) /\ l + n \in 1 .. Len(queue) /\ queue[k + n].by = queue[l + n].by
      BY <1>3, <1>6, <2>1
    <3>2. k + n = l + n
      BY <3>1 DEF IndInv, Chained
    <3> QED BY <3>2
  <2>2. CASE ~ (k \in 1 .. Len(queue) - n /\ l \in 1 .. Len(queue) - n)
    BY <1>3, <1>4, <1>6, <2>2
  <2> QED BY <2>1, <2>2
<1> QED BY <1>5, <1>6 DEF Chained

LEMMA TurnDns ==
  ASSUME IndInv, NEW a, Turn(a), Kept
  PROVE  DnsWaits'
<1>1. \A d \in Domains : <<d, "authoritative_dns">> \in gone' => Unbound(d)'
  BY DEF Kept
<1>2. ASSUME NEW b \in Actors, at'[b] = "changing", Kind(own'[b]) = "authoritative_dns"
      PROVE  Unbound(own[b].d)'
  <2>1. CASE b = a
    BY <1>2, <2>1 DEF Turn
  <2>2. CASE b # a
    <3>1. at'[b] = at[b] /\ own'[b] = own[b] /\ own[b].d \in Domains
      BY <2>2, OthersStay
    <3>2. Unbound(own[b].d)
      BY <1>2, <3>1 DEF IndInv, DnsWaits, Kind
    <3>3. PICK d \in Domains : d = own[b].d
      BY <3>1
    <3>4. Unbound(d)'
      BY <3>2, <3>3 DEF Kept
    <3> QED BY <3>1, <3>3, <3>4 DEF Unbound, InPlan
  <2> QED BY <2>1, <2>2
<1>3. \A b \in Actors : at'[b] = "changing" /\ Kind(own'[b]) = "authoritative_dns" => Unbound(own[b].d)'
  BY <1>2
<1> QED BY <1>1, <1>3 DEF DnsWaits, Kind

\* The operations to reconcile, written out.
LEMMA TodoFacts ==
  /\ Head(<<"root">>) = "root" /\ Head(<<"child">>) = "child" /\ Head(<<"root", "child">>) = "root"
  /\ Tail(<<"root">>) = <<>> /\ Tail(<<"child">>) = <<>> /\ Tail(<<"root", "child">>) = <<"child">>
  /\ <<"root">> # <<"child">> /\ <<"root">> # <<"root", "child">> /\ <<"child">> # <<"root", "child">>
  /\ <<"root">> # <<>> /\ <<"child">> # <<>> /\ <<"root", "child">> # <<>>
<1>1. Len(<<"root">>) = 1 /\ Len(<<"child">>) = 1 /\ Len(<<"root", "child">>) = 2
  OBVIOUS
<1>2. <<"root">> # <<"root", "child">> /\ <<"child">> # <<"root", "child">>
  BY <1>1
<1>3. <<"root">> # <<"child">> /\ <<"root">> # <<>> /\ <<"child">> # <<>> /\ <<"root", "child">> # <<>>
  OBVIOUS
<1>4. Head(<<"root">>) = "root" /\ Head(<<"child">>) = "child" /\ Head(<<"root", "child">>) = "root"
  OBVIOUS
<1>5. Tail(<<"root">>) = <<>> /\ Tail(<<"child">>) = <<>>
  OBVIOUS
<1>6. Tail(<<"root", "child">>) = <<"child">>
  OBVIOUS
<1> QED BY <1>2, <1>3, <1>4, <1>5, <1>6

LEMMA TurnBoot ==
  ASSUME IndInv, NEW a, Turn(a)
  PROVE  BootFirst'
<1>1. "boot" \in Actors /\ "boot" \notin Runners /\ Runners \subseteq Actors
  BY RemovalAssumption DEF Actors
<1>2. CASE a \in Runners
  <2>1. todo = <<>> /\ at["boot"] = "idle"
    BY <1>1, <1>2 DEF Turn, Admitted, Serving, IndInv, BootFirst
  <2>2. todo' = <<>> /\ at'["boot"] = "idle"
    BY <1>1, <1>2, <2>1, OthersStay DEF Turn, Admitted
  <2> QED BY <2>2 DEF BootFirst
<1>3. ASSUME a = "boot"
      PROVE  \A r \in Runners : at'[r] = "idle"
  <2>1. \A r \in Runners : at[r] = "idle"
    BY <1>1, <1>3 DEF Turn, Admitted, IndInv, BootFirst
  <2> QED BY <1>1, <1>3, <2>1, OthersStay
<1>4. CASE a = "boot" /\ at["boot"] # "idle" /\ todo' = todo /\ (at'["boot"] # "idle" => own'["boot"].d = own["boot"].d)
  <2>1. /\ ~own["boot"].nested /\ at["boot"] \notin {"creating", "created"}
        /\ todo \in {<<>>, <<"child">>} /\ (own["boot"].d = "child" => todo = <<>>)
        /\ own["boot"].d \in Domains
    BY <1>1, <1>4, ResourceOfStep DEF IndInv, BootFirst
  <2>2. at'["boot"] # "idle" => ~own'["boot"].nested /\ at'["boot"] \notin {"creating", "created"}
    BY <1>4 DEF Turn, Sober
\* It works on the root's operation as long as the child's is to be reconciled.
  <2>3. todo # <<>> => mem'["child"] = mem["child"]
    <3> SUFFICES ASSUME todo # <<>>, mem' # mem PROVE mem'["child"] = mem["child"]
      OBVIOUS
    <3>1. own["boot"].d = "root"
      BY <2>1 DEF Domains
    <3>2. PICK then \in {"created", "reading", "done"} : Persists(a, then)
      BY DEF Turn, Moves, Leaves
    <3>3. then # "created" /\ own'["boot"].d = own["boot"].d
      BY <1>4, <3>2 DEF Persists, Writes
    <3>4. \E i, st : Put("root", i, st)
      BY <1>4, <3>1, <3>2, <3>3 DEF Persists, Writes
    <3>5. Sound(mem)
      BY DEF IndInv, JournalsSound
    <3> QED BY <3>4, <3>5, PutFacts DEF Domains
  <2>4. todo = <<"child">> => Interrupted(mem'["child"])
    BY <2>3 DEF IndInv, BootFirst
  <2> QED BY <1>3, <1>4, <2>1, <2>2, <2>4 DEF BootFirst
<1>5. CASE /\ a = "boot" /\ at["boot"] = "idle" /\ todo # <<>> /\ todo' = Tail(todo)
           /\ own'["boot"].d = Head(todo) /\ mem' = mem
  <2>1. /\ todo \in {<<"root">>, <<"child">>, <<"root", "child">>}
        /\ todo = <<"root", "child">> => Interrupted(mem["child"])
    BY <1>5, TodoFacts, Zenon DEF IndInv, BootFirst
  <2>2. at'["boot"] # "idle" => ~own'["boot"].nested /\ at'["boot"] \notin {"creating", "created"}
    BY <1>5 DEF Turn, Sober
  <2>3. CASE todo \in {<<"root">>, <<"child">>}
    <3>1. todo' = <<>>
      BY <1>5, <2>3, TodoFacts, Zenon
    <3> QED BY <1>3, <1>5, <2>2, <3>1, TodoFacts, Zenon DEF BootFirst
  <2>4. CASE todo = <<"root", "child">>
    <3>1. todo' = <<"child">> /\ own'["boot"].d = "root" /\ Interrupted(mem'["child"])
      BY <1>5, <2>1, <2>4, TodoFacts, Zenon
    <3>2. <<"child">> \notin {<<"root">>, <<"root", "child">>}
      BY TodoFacts
    <3>3. \A r \in Runners : at'[r] = "idle"
      BY <1>3, <1>5
    <3> QED BY <2>2, <3>1, <3>2, <3>3, Zenon DEF BootFirst
  <2> QED BY <2>1, <2>3, <2>4
<1> QED BY <1>2, <1>4, <1>5 DEF Turn, Admitted

-----------------------------------------------------------------------------
(* What a turn leaves true of a calm world.                                *)

\* The journal while the world is calm: nothing is queued when a turn begins, but
\* the snapshot its actor waits for.
CalmTurn(a, n) ==
  /\ Slid(a, n) /\ ~broken' /\ Covers(mem) /\ Covers(disk) /\ Orderly(a)
  /\ \A b \in Actors \ {a} : at'[b] = "idle"
  /\ n = 0 => queue = <<>> /\ Len(queue) = 0 /\ mem = disk /\ disk' = disk
  /\ n = 1 => Len(queue) = 1 /\ disk' = mem /\ mem' = mem /\ gone' = gone /\ at[a] = "writing"

LEMMA CalmTurnFacts ==
  ASSUME IndInv, NEW a, Turn(a), Calm'
  PROVE  \E n \in {0, 1} : CalmTurn(a, n)
<1>1. PICK n \in {0, 1} : Slid(a, n)
  BY TurnSlides
<1>2. Calm /\ CalmIsOrderly
  BY DEF Turn, Calm, IndInv
<1>3. /\ ~broken /\ Covers(mem) /\ Covers(disk) /\ Orderly(a)
      /\ \A x, b \in Actors : at[x] # "idle" /\ at[b] # "idle" => x = b
      /\ queue = <<>> => mem = disk
      /\ queue # <<>> => Len(queue) = 1 /\ queue[1].image = mem
  BY <1>2, OthersStay DEF CalmIsOrderly
<1>4. \A b \in Actors \ {a} : at[b] = "idle"
  BY <1>3, OthersStay DEF Turn, Alone
<1>5. \A b \in Actors \ {a} : at'[b] = "idle"
  BY <1>4, OthersStay
<1>6. queue # <<>> => queue[1].by = a /\ at[a] = "writing"
  <2> SUFFICES ASSUME queue # <<>> PROVE queue[1].by = a /\ at[a] = "writing"
    OBVIOUS
  <2>1. 1 \in 1 .. Len(queue)
    BY <1>3
  <2>2. queue[1].by \in Actors /\ Queued(queue[1])
    BY <1>1, <2>1 DEF Slid, Entry, IndInv, Chained
  <2> QED BY <1>4, <2>2 DEF Queued
<1>7. n = 0 => queue = <<>> /\ Len(queue) = 0 /\ mem = disk /\ disk' = disk
  BY <1>1, <1>3, <1>6, EmptySeq DEF Slid
<1>8. n = 1 => Len(queue) = 1 /\ disk' = mem /\ mem' = mem /\ gone' = gone /\ at[a] = "writing"
  <2>1. n = 1 => queue # <<>>
    BY <1>1, EmptySeq DEF Slid
  <2> QED BY <1>1, <1>3, <1>6, <2>1 DEF Slid
<1>9. ~broken'
  BY <1>1, <1>3 DEF Slid
<1>10. CalmTurn(a, n)
  BY <1>1, <1>3, <1>5, <1>7, <1>8, <1>9, Zenon DEF CalmTurn
<1> QED BY <1>10

\* What a write puts into the memory covers what is gone.
LEMMA WriteCovers ==
  ASSUME IndInv, NEW a \in Actors, NEW then, Writes(a, then), Covers(mem), Orderly(a)
  PROVE  Covers(mem')
<1>0. Sound(mem)
  BY DEF IndInv, JournalsSound
<1>1. ASSUME NEW d, Opened(d)
      PROVE  Covers(mem')
  BY <1>0, <1>1, OpenedFacts DEF Covers
<1>2. ASSUME NEW d, NEW i, NEW st, Put(d, i, st), st \notin {"running", "succeeded"} => <<d, Plan[d][i]>> \notin gone
      PROVE  Covers(mem')
  BY <1>0, <1>2, PutFacts DEF Covers
<1>3. ASSUME NEW verdict \in DOMAIN Verdicts, verdict = own[a].verdict, at[a] = "decided",
             Put(own[a].d, own[a].i, Verdicts[verdict])
      PROVE  Covers(mem')
  <2>1. Verdicts[verdict] # "succeeded" => verdict # "complete"
    BY <1>3 DEF Verdicts
  <2>2. verdict # "complete" => Resource(own[a]) \notin gone
    BY <1>3 DEF Orderly, Taken
  <2>3. Resource(own[a]) = <<own[a].d, Plan[own[a].d][own[a].i]>>
    BY DEF Resource, Kind
  <2> QED BY <1>2, <1>3, <2>1, <2>2, <2>3
<1> QED BY <1>1, <1>2, <1>3 DEF Writes

LEMMA TurnCovers ==
  ASSUME IndInv, NEW a, Turn(a), NEW n \in {0, 1}, CalmTurn(a, n)
  PROVE  Covers(mem)' /\ Covers(disk)'
<1>1. CASE gone' = gone
  <2>1. Covers(disk')
    BY DEF CalmTurn
  <2>2. Covers(mem')
    BY WriteCovers DEF CalmTurn, Slid, Turn
  <2> QED BY <1>1, <2>1, <2>2 DEF Covers
<1>2. CASE Erases(a)
  <2>1. at[a] = "changing" /\ gone' = gone \cup {Resource(own[a])}
    BY <1>2 DEF Erases, Erase
  <2>2. CASE gone' # gone
    <3>1. mem' = mem /\ disk' = mem
      BY <2>2 DEF CalmTurn, Slid
    <3>2. mem[own[a].d] # <<>> /\ mem[own[a].d][own[a].i] = "running"
      BY <2>1 DEF CalmTurn, Orderly, StepIs, IndInv, EveryonePlaced, Placed, Reached, Turn
    <3>3. \A d \in Domains : \A i \in DOMAIN Plan[d] :
            <<d, Plan[d][i]>> = Resource(own[a]) => d = own[a].d /\ i = own[a].i
      <4>1. own[a].d \in Domains /\ own[a].i \in DOMAIN Plan[own[a].d]
        BY ResourceOfStep DEF IndInv, Turn
      <4> QED BY <4>1, PlanFacts DEF Resource, Kind
    <3>4. Covers(mem)
      BY DEF CalmTurn
    <3> QED BY <2>1, <3>1, <3>2, <3>3, <3>4 DEF Covers
  <2> QED BY <1>1, <2>2
<1> QED BY <1>1, <1>2 DEF Turn, Handles, NoEffect, Announces

LEMMA TurnCalm ==
  ASSUME IndInv, NEW a, Turn(a)
  PROVE  CalmIsOrderly'
<1> SUFFICES ASSUME Calm'
             PROVE  /\ ~broken'
                    /\ \A x, b \in Actors : at'[x] # "idle" /\ at'[b] # "idle" => x = b
                    /\ queue' = <<>> => mem' = disk' /\ \A b \in Actors : at'[b] # "writing"
                    /\ queue' # <<>> => Len(queue') = 1 /\ queue'[1].image = mem'
                    /\ Covers(mem)' /\ Covers(disk)'
                    /\ \A b \in Actors : Orderly(b)'
                    /\ \A k \in 1 .. Len(queue') : OrderlyEntry(queue[k])'
  BY DEF CalmIsOrderly, Covers
<1>1. PICK n \in {0, 1} : CalmTurn(a, n)
  BY CalmTurnFacts
<1>2. /\ ~broken'
      /\ \A x, b \in Actors : at'[x] # "idle" /\ at'[b] # "idle" => x = b
  BY <1>1 DEF CalmTurn
<1>3. \/ Len(queue') = 0 /\ mem' = disk' /\ \A b \in Actors : at'[b] # "writing"
      \/ /\ Len(queue') = 1 /\ n = 0 /\ gone' = gone
         /\ \E then \in {"created", "reading", "done"} :
              Writes(a, then) /\ queue'[1] = [by |-> a, then |-> then, image |-> mem']
  <2>1. at'[a] # "writing" => \A b \in Actors : at'[b] # "writing"
    BY <1>1 DEF CalmTurn
  <2>0. Slid(a, n)
    BY <1>1 DEF CalmTurn
  <2>5. \/ Len(queue') = Len(queue) - n /\ mem' = mem /\ at'[a] # "writing"
        \/ /\ n = 0 /\ Len(queue') = Len(queue) + 1 /\ gone' = gone
           /\ \E then \in {"created", "reading", "done"} :
                Writes(a, then) /\ queue'[Len(queue')] = [by |-> a, then |-> then, image |-> mem']
    BY <2>0, Zenon DEF Slid
  <2>2. CASE n = 1 /\ Len(queue') = Len(queue) - n /\ mem' = mem /\ at'[a] # "writing"
    BY <1>1, <2>1, <2>2 DEF CalmTurn
  <2>3. CASE n = 0 /\ Len(queue') = Len(queue) - n /\ mem' = mem /\ at'[a] # "writing"
    BY <1>1, <2>1, <2>3 DEF CalmTurn
  <2>4. CASE /\ n = 0 /\ Len(queue') = Len(queue) + 1 /\ gone' = gone
             /\ \E then \in {"created", "reading", "done"} :
                  Writes(a, then) /\ queue'[Len(queue')] = [by |-> a, then |-> then, image |-> mem']
    <3>1. Len(queue') = 1
      BY <1>1, <2>4 DEF CalmTurn
    <3> QED BY <2>4, <3>1
  <2> QED BY <2>2, <2>3, <2>4, <2>5
<1>4. queue' = <<>> <=> Len(queue') = 0
  BY TurnSlides, EmptySeq
<1>5. Covers(mem)' /\ Covers(disk)'
  BY <1>1, TurnCovers
<1>6. ASSUME NEW b \in Actors PROVE Orderly(b)'
  <2>1. CASE b = a
    BY <2>1 DEF Turn
  <2>2. CASE b # a
    BY <1>1, <2>2 DEF CalmTurn, Orderly
  <2> QED BY <2>1, <2>2
<1>7. ASSUME NEW k \in 1 .. Len(queue') PROVE OrderlyEntry(queue[k])'
  <2>1. k = 1 /\ gone' = gone
    BY <1>3
  <2>2. PICK then \in {"created", "reading", "done"} :
          Writes(a, then) /\ queue'[1] = [by |-> a, then |-> then, image |-> mem']
    BY <1>3
  <2>3. CASE then # "reading"
    BY <2>1, <2>2, <2>3 DEF OrderlyEntry
  <2>4. CASE then = "reading"
    <3>1. Put(own'[a].d, own'[a].i, "running") /\ mem[own'[a].d][own'[a].i] # "running"
      BY <2>2, <2>4 DEF Writes
    <3>2. mem'[own'[a].d][own'[a].i] = "running"
      BY <3>1, PutFacts DEF IndInv, JournalsSound
    <3>3. <<own'[a].d, Plan[own'[a].d][own'[a].i]>> \notin gone
      BY <1>1, <3>1 DEF CalmTurn, Covers, Put
    <3> QED BY <2>1, <2>2, <3>2, <3>3 DEF OrderlyEntry, StepIs, Taken, Resource, Kind
  <2> QED BY <2>3, <2>4
<1> QED BY <1>2, <1>3, <1>4, <1>5, <1>6, <1>7

\* A turn keeps the invariant.
LEMMA TurnKeepsInv ==
  ASSUME IndInv, NEW a, Turn(a)
  PROVE  IndInv'
<1>1. Kept
  BY TurnKeeps DEF Turn
<1> QED BY <1>1, TurnType, TurnJournals, TurnPlaced, TurnChained, TurnBoot, TurnDns, TurnCalm
        DEF IndInv, Kept

-----------------------------------------------------------------------------
(* The moves that the actions are made of.                                 *)

\* What an actor that is at work leaves alone, and what it may add.
Works(a) ==
  /\ a \in Actors /\ at[a] # "idle" /\ todo' = todo
  /\ happened \subseteq happened' /\ happened' \subseteq Disturbances

LEMMA GoFacts ==
  ASSUME TypeOK, NEW a \in Actors, NEW place, NEW o, Go(a, place, o)
  PROVE  /\ at'[a] = place /\ own'[a] = o
         /\ at' = [at EXCEPT ![a] = at'[a]] /\ own' = [own EXCEPT ![a] = own'[a]]
<1>1. at \in [Actors -> Places] /\ own \in [Actors -> Owned]
  BY DEF TypeOK, Places, Owned
<1> QED BY <1>1 DEF Go

\* The resource of an actor's step is removed, or its child domain.
Earned(a) ==
  IF Kind(own[a]) = "child_domain" THEN <<"child", "metadata_finalization">> \in gone'
  ELSE Resource(own[a]) \in gone'

LEMMA OwnedFacts ==
  ASSUME IndInv, NEW a \in Actors
  PROVE  /\ own[a] \in Owned /\ own[a].d \in Domains /\ own[a].i \in DOMAIN Plan[own[a].d]
         /\ own[a].nested \in BOOLEAN /\ Kind(own[a]) \in Kinds /\ Placed(a)
         /\ \A verdict \in {"complete", "block", "fail"} :
              LET o == [own[a] EXCEPT !.verdict = verdict] IN
              /\ o \in Owned /\ o.d = own[a].d /\ o.i = own[a].i /\ o.nested = own[a].nested
              /\ o.verdict = verdict
<1>1. own[a] \in Owned /\ Placed(a)
  BY DEF IndInv, TypeOK, Owned, EveryonePlaced
<1>2. own[a].i \in DOMAIN Plan[own[a].d] /\ Kind(own[a]) \in Kinds
  BY ResourceOfStep DEF IndInv
<1>3. own[a].d \in Domains /\ own[a].nested \in BOOLEAN
  BY <1>1 DEF Owned
<1>4. \A verdict \in {"complete", "block", "fail"} :
              LET o == [own[a] EXCEPT !.verdict = verdict] IN
              /\ o \in Owned /\ o.d = own[a].d /\ o.i = own[a].i /\ o.nested = own[a].nested
              /\ o.verdict = verdict
  BY <1>1 DEF Owned
<1> QED BY <1>1, <1>2, <1>3, <1>4

\* Nothing that a domain's plan does not own is ever gone.
LEMMA NoChildResource ==
  ASSUME NEW S, S \subseteq Resources
  PROVE  \A d : <<d, "child_domain">> \notin S
<1>1. \A d : <<d, "child_domain">> \notin Resources
  BY DEF Resources
<1> QED BY <1>1

LEMMA DecideTurn ==
  ASSUME IndInv, NEW a, Works(a), at[a] \in {"reading", "changing", "creating"},
         NEW verdict \in {"complete", "block", "fail"}, Decide(a, verdict),
         mem' = mem, disk' = disk, queue' = queue, broken' = broken,
         Handles(a), verdict = "complete" => Earned(a),
         Calm' /\ Resource(own[a]) \in gone' => verdict = "complete"
  PROVE  Turn(a)
<1> DEFINE o == [own[a] EXCEPT !.verdict = verdict]
<1>1. /\ a \in Actors /\ at[a] # "idle" /\ todo' = todo
      /\ happened \subseteq happened' /\ happened' \subseteq Disturbances
  BY DEF Works
<1>2. /\ o \in Owned /\ o.d = own[a].d /\ o.i = own[a].i /\ o.nested = own[a].nested
      /\ o.verdict = verdict
  BY <1>1, OwnedFacts
<1>3. /\ at'[a] = "decided" /\ own'[a] = o
      /\ at' = [at EXCEPT ![a] = at'[a]] /\ own' = [own EXCEPT ![a] = own'[a]]
  BY <1>1, GoFacts DEF Decide, IndInv
<1> HIDE DEF o
<1>12. own[a].d \in Domains /\ own[a].i \in DOMAIN Plan[own[a].d]
  BY <1>1, OwnedFacts
<1>13. PICK d \in Domains : d = own[a].d /\ own[a].i \in DOMAIN Plan[d]
  BY <1>12
<1>14. PICK i \in DOMAIN Plan[d] : i = own[a].i
  BY <1>13
<1>4. d \in Domains /\ i \in DOMAIN Plan[d] /\ d = own[a].d /\ i = own[a].i
  BY <1>13, <1>14
<1>5. Placed(a) /\ Kind(own[a]) = Plan[d][i] /\ Resource(own[a]) = <<d, Plan[d][i]>>
  BY <1>1, <1>4, OwnedFacts DEF Kind, Resource
<1>6. own'[a].d = d /\ own'[a].i = i /\ own'[a].nested = own[a].nested /\ own'[a].verdict = verdict
  BY <1>2, <1>3, <1>4
<1>7. verdict = "complete" => Met(d, i)'
  BY <1>5 DEF Earned, Met, IsGone, Present
<1>8. Placed(a)'
  BY <1>3, <1>4, <1>5, <1>6, <1>7 DEF Placed, Reached, Met, IsGone, Present
<1>9. Calm' => Orderly(a)'
  <2> SUFFICES ASSUME Calm', <<d, Plan[d][i]>> \in gone'
               PROVE  verdict = "complete" /\ mem'[d][i] = "running"
    BY <1>3, <1>6 DEF Orderly, Taken, StepIs, Resource, Kind
  <2>1. Calm
    BY <1>1 DEF Calm
  <2>2. at[a] \in {"reading", "changing"} => mem[d][i] = "running"
    BY <1>1, <1>4, <2>1 DEF IndInv, CalmIsOrderly, Orderly, StepIs
  <2>3. at[a] # "creating"
    <3>1. Kept
      BY <1>1, TurnKeeps
    <3>2. Plan[d][i] # "child_domain"
      BY <3>1, NoChildResource DEF Kept
    <3> QED BY <1>5, <3>2 DEF Placed
  <2> QED BY <1>5, <2>2, <2>3
<1>10. Moves(a)
  BY <1>3 DEF Moves
<1>11. Admitted(a) /\ Sober(a) /\ Alone(a)
  <2>1. a = "boot" => ~own[a].nested
    BY <1>1 DEF IndInv, BootFirst
  <2> QED BY <1>1, <1>3, <1>4, <1>6, <2>1 DEF Admitted, Sober, Alone, Actors
<1> QED BY <1>1, <1>2, <1>3, <1>8, <1>9, <1>10, <1>11 DEF Turn, Places

\* The removal of the child is over when its operation is.
LEMMA RemovedChildIsGone ==
  ASSUME Sound(mem), Removed(mem["child"])
  PROVE  <<"child", "metadata_finalization">> \in gone
<1> DEFINE n == Len(Plan["child"])
<1>1. "child" \in Domains /\ mem["child"] # <<>>
  BY DEF Domains, Removed
<1>2. n \in DOMAIN Plan["child"] /\ n # 1 /\ Plan["child"][n] = "metadata_finalization"
  BY <1>1, PlanFacts
<1> HIDE DEF n
<1>3. mem["child"][n] = "succeeded"
  BY <1>1, <1>2 DEF Removed, Sound, Shaped
<1>4. Met("child", n)
  BY <1>1, <1>2, <1>3 DEF Sound, Truthful
<1> QED BY <1>2, <1>4 DEF Met, IsGone

LEMMA AnswerTurn ==
  ASSUME IndInv, NEW a, Works(a), NEW verdict \in {"complete", "block", "fail"}, Answer(a, verdict),
         verdict = "complete" => Removed(mem["child"]), UNCHANGED <<mem, gone, leaving>>,
         (at[a] # "writing" /\ disk' = disk /\ queue' = queue /\ broken' = broken)
         \/ (at'[a] # "writing" => Leaves(a))
  PROVE  Turn(a)
<1>1. /\ a \in Actors /\ at[a] # "idle" /\ todo' = todo
      /\ happened \subseteq happened' /\ happened' \subseteq Disturbances
  BY DEF Works
<1>2. Placed(a) /\ own[a].nested \in BOOLEAN
  BY <1>1, OwnedFacts
<1>3. at'[a] # "writing" => Moves(a) \/ Leaves(a)
  BY DEF Moves
<1>4. Handles(a) /\ Alone(a)
  BY <1>1 DEF Handles, NoEffect, Alone
<1>5. CASE own[a].nested
  <2> DEFINE o == [Nobody EXCEPT !.i = ChildStep, !.verdict = verdict]
  <2>1. /\ HasChild /\ ChildStep \in DOMAIN Plan["root"] /\ Plan["root"][ChildStep] = "child_domain"
        /\ Reached(mem, "root", ChildStep) /\ ChildStep \in Nat
    <3>1. HasChild /\ Reached(mem, "root", ChildStep)
      BY <1>2, <1>5 DEF Placed
    <3>2. ChildStep \in DOMAIN Plan["root"] /\ Plan["root"][ChildStep] = "child_domain"
      BY <3>1, ChildStepFacts
    <3> QED BY <3>1, <3>2, PlanFacts DEF Domains
  <2>2. o \in Owned /\ o.d = "root" /\ o.i = ChildStep /\ o.nested = FALSE /\ o.verdict = verdict
    BY <2>1 DEF Owned, Nobody, Domains
  <2>3. /\ at'[a] = "decided" /\ own'[a] = o
        /\ at' = [at EXCEPT ![a] = at'[a]] /\ own' = [own EXCEPT ![a] = own'[a]]
    BY <1>1, <1>5, GoFacts DEF Answer, IndInv
  <2> HIDE DEF o
  <2>4. verdict = "complete" => <<"child", "metadata_finalization">> \in gone
    BY RemovedChildIsGone DEF IndInv, JournalsSound
  <2>5. Placed(a)'
    BY <2>1, <2>2, <2>3, <2>4 DEF Placed, Reached, Met, IsGone, Present
  <2>6. Orderly(a)'
    <3>1. <<"root", "child_domain">> \notin gone'
      BY NoChildResource DEF IndInv, TypeOK
    <3> QED BY <2>1, <2>2, <2>3, <3>1 DEF Orderly, Taken, Resource, Kind
  <2>7. a # "boot"
    BY <1>1, <1>5 DEF IndInv, BootFirst
  <2> QED BY <1>1, <1>3, <1>4, <2>2, <2>3, <2>5, <2>6, <2>7 DEF Turn, Places, Admitted, Sober, Actors
<1>6. CASE ~own[a].nested
  <2>1. Nobody \in Owned /\ Nobody.d = "root" /\ Nobody.i = 1 /\ Nobody.nested = FALSE
    BY DEF Owned, Nobody, Domains
  <2>2. /\ at'[a] = "idle" /\ own'[a] = Nobody
        /\ at' = [at EXCEPT ![a] = at'[a]] /\ own' = [own EXCEPT ![a] = own'[a]]
    BY <1>1, <1>6, GoFacts DEF Answer, IndInv
  <2>3. Placed(a)' /\ Orderly(a)'
    <3>1. 1 \in DOMAIN Plan["root"]
      BY PlanFacts DEF Domains
    <3> QED BY <2>1, <2>2, <3>1 DEF Placed, Orderly
  <2> QED BY <1>1, <1>3, <1>4, <2>1, <2>2, <2>3 DEF Turn, Places, Admitted, Sober, Actors
<1> QED BY <1>2, <1>5, <1>6

\* A step is marked as running, or was.
LEMMA MarkFacts ==
  ASSUME IndInv, NEW a \in Actors, NEW d \in Domains, NEW nested \in BOOLEAN,
         mem[d] # <<>>, ~Removed(mem[d]), MarkRunning(a, d, nested)
  PROVE  LET i == FirstIncomplete(mem[d])
             o == [d |-> d, i |-> i, was |-> mem[d][i] = "running", nested |-> nested,
                   verdict |-> "none"]
         IN /\ i \in DOMAIN Plan[d] /\ Reached(mem, d, i) /\ mem[d][i] # "succeeded"
            /\ at' = [at EXCEPT ![a] = at'[a]] /\ own' = [own EXCEPT ![a] = own'[a]]
            /\ own'[a] = o /\ o \in Owned
            /\ \/ mem[d][i] = "running" /\ at'[a] = "reading" /\ mem' = mem /\ queue' = queue
               \/ /\ mem[d][i] # "running" /\ at'[a] = "writing" /\ Put(d, i, "running")
                  /\ queue' = Append(queue, [by |-> a, then |-> "reading", image |-> mem'])
<1> DEFINE i == FirstIncomplete(mem[d])
           o == [d |-> d, i |-> i, was |-> mem[d][i] = "running", nested |-> nested, verdict |-> "none"]
<1>1. Shaped(mem) /\ TypeOK
  BY DEF IndInv, JournalsSound, Sound
<1>2. i \in DOMAIN Plan[d] /\ mem[d][i] # "succeeded" /\ \A j \in 1 .. i - 1 : mem[d][j] = "succeeded"
  BY <1>1, FirstIncompleteFacts
<1>3. Reached(mem, d, i)
  BY <1>2 DEF Reached
<1>4. i \in Nat
  BY <1>2, PlanFacts
<1>5. \/ mem[d][i] = "running" /\ Go(a, "reading", o) /\ mem' = mem /\ queue' = queue
      \/ /\ mem[d][i] # "running" /\ Go(a, "writing", o) /\ mem' = [mem EXCEPT ![d][i] = "running"]
         /\ queue' = Append(queue, [by |-> a, then |-> "reading", image |-> [mem EXCEPT ![d][i] = "running"]])
  BY DEF MarkRunning, Persist
<1>6. o \in Owned
  BY <1>4 DEF Owned
<1> HIDE DEF i, o
<1>7. /\ at' = [at EXCEPT ![a] = at'[a]] /\ own' = [own EXCEPT ![a] = own'[a]] /\ own'[a] = o
      /\ \/ mem[d][i] = "running" /\ at'[a] = "reading" /\ mem' = mem /\ queue' = queue
         \/ /\ mem[d][i] # "running" /\ at'[a] = "writing" /\ mem' = [mem EXCEPT ![d][i] = "running"]
            /\ queue' = Append(queue, [by |-> a, then |-> "reading", image |-> mem'])
  BY <1>1, <1>5, GoFacts
<1>8. mem' = [mem EXCEPT ![d][i] = "running"] => Put(d, i, "running")
  BY <1>2, <1>3 DEF Put, Status
<1> QED BY <1>2, <1>3, <1>6, <1>7, <1>8 DEF i, o

LEMMA MarkTurn ==
  ASSUME IndInv, NEW a \in Actors, at[a] # "writing", NEW d \in Domains, NEW nested \in BOOLEAN,
         mem[d] # <<>>, ~Removed(mem[d]), MarkRunning(a, d, nested),
         gone' = gone, leaving' = leaving, disk' = disk, broken' = broken,
         happened \subseteq happened', happened' \subseteq Disturbances,
         nested => HasChild /\ Reached(mem, "root", ChildStep) /\ a # "boot",
         own'[a].d = d => Admitted(a), Alone(a)
  PROVE  Turn(a)
<1> DEFINE i == FirstIncomplete(mem[d])
           o == [d |-> d, i |-> i, was |-> mem[d][i] = "running", nested |-> nested, verdict |-> "none"]
<1>1. /\ i \in DOMAIN Plan[d] /\ Reached(mem, d, i) /\ mem[d][i] # "succeeded"
      /\ at' = [at EXCEPT ![a] = at'[a]] /\ own' = [own EXCEPT ![a] = own'[a]]
      /\ own'[a] = o /\ o \in Owned
      /\ \/ mem[d][i] = "running" /\ at'[a] = "reading" /\ mem' = mem /\ queue' = queue
         \/ /\ mem[d][i] # "running" /\ at'[a] = "writing" /\ Put(d, i, "running")
            /\ queue' = Append(queue, [by |-> a, then |-> "reading", image |-> mem'])
  BY MarkFacts
<1>2. /\ o.d = d /\ o.i = i /\ o.nested = nested /\ o.verdict = "none"
      /\ mem[d][i] = "running" => o.was
  OBVIOUS
<1> HIDE DEF i, o
<1>3. Handles(a) /\ Admitted(a) /\ Sober(a)
  BY <1>1, <1>2 DEF Handles, NoEffect, Sober
<1>4. CASE mem[d][i] = "running" /\ at'[a] = "reading" /\ mem' = mem /\ queue' = queue
  <2>1. Moves(a)
    BY <1>4 DEF Moves
  <2>2. Placed(a)'
    BY <1>1, <1>2, <1>4 DEF Placed, Reached, HasChild
  <2>3. Orderly(a)'
    BY <1>1, <1>2, <1>4 DEF Orderly, StepIs
  <2> QED BY <1>1, <1>3, <1>4, <2>1, <2>2, <2>3 DEF Turn, Places
<1>5. CASE /\ mem[d][i] # "running" /\ at'[a] = "writing" /\ Put(d, i, "running")
           /\ queue' = Append(queue, [by |-> a, then |-> "reading", image |-> mem'])
  <2>1. Writes(a, "reading")
    BY <1>1, <1>2, <1>5 DEF Writes
  <2>2. Persists(a, "reading")
    BY <1>5, <2>1 DEF Persists, resources
  <2>3. Placed(a)'
    <3>1. nested => Reached(mem', "root", ChildStep)
      <4>1. MemGrows
        BY <1>5, PutFacts DEF IndInv, JournalsSound
      <4> QED BY <4>1, ReachedStays, ChildStepFacts DEF Domains
    <3> QED BY <1>1, <1>2, <1>5, <3>1 DEF Placed, Reached, HasChild
  <2>4. Orderly(a)'
    BY <1>5 DEF Orderly
  <2> QED BY <1>1, <1>3, <1>5, <2>2, <2>3, <2>4 DEF Turn, Places
<1> QED BY <1>1, <1>4, <1>5

\* A new operation.
LEMMA CreateTurn ==
  ASSUME IndInv, NEW a \in Runners, at[a] # "writing", NEW d \in Domains, mem[d] = <<>>,
         NEW o \in Owned, Create(a, d, o), o.i \in DOMAIN Plan[o.d],
         IF o.nested THEN d = "child" /\ HasChild /\ Reached(mem, "root", ChildStep) ELSE d = "root",
         gone' = gone, leaving' = leaving, disk' = disk, broken' = broken, todo' = todo,
         happened \subseteq happened', happened' \subseteq Disturbances,
         Alone(a), at[a] # "idle" \/ Serving
  PROVE  Turn(a)
<1>1. a \in Actors /\ a # "boot"
  BY RemovalAssumption DEF Actors
<1>2. /\ mem' = [mem EXCEPT ![d] = [i \in DOMAIN Plan[d] |-> "pending"]]
      /\ queue' = Append(queue, [by |-> a, then |-> "created", image |-> mem'])
      /\ Go(a, "writing", o)
  BY DEF Create, Persist
<1>3. /\ at'[a] = "writing" /\ own'[a] = o
      /\ at' = [at EXCEPT ![a] = at'[a]] /\ own' = [own EXCEPT ![a] = own'[a]]
  BY <1>1, <1>2, GoFacts DEF IndInv
<1>4. Opened(d) /\ d = Target(a)'
  BY <1>2, <1>3 DEF Opened, Target
<1>5. Persists(a, "created")
  BY <1>1, <1>2, <1>3, <1>4 DEF Persists, Writes, resources
<1>6. Placed(a)'
  <2>1. o.nested => HasChild /\ Reached(mem', "root", ChildStep)
    <3>1. MemGrows
      BY <1>4, OpenedFacts DEF IndInv, JournalsSound
    <3> QED BY <3>1, ReachedStays, ChildStepFacts DEF Domains
  <2> QED BY <1>3, <2>1 DEF Placed, Reached, HasChild
<1>7. Orderly(a)' /\ Handles(a) /\ Admitted(a) /\ Sober(a)
  BY <1>1, <1>3 DEF Orderly, Handles, NoEffect, Admitted, Sober
<1> QED BY <1>1, <1>3, <1>5, <1>6, <1>7 DEF Turn, Places

-----------------------------------------------------------------------------
(* Each action of a request, and of the recovery, is a turn.               *)

\* What a step that is worked on in a calm world may rely on.
LEMMA CalmStep ==
  ASSUME IndInv, Calm, NEW a \in Actors, at[a] \in {"reading", "changing"},
         Kind(own[a]) # "metadata_finalization"
  PROVE  Present(own[a].d) /\ (Kind(own[a]) # "routing_suspend" => Suspended(own[a].d))
<1>0. own[a].d \in Domains /\ own[a].i \in DOMAIN Plan[own[a].d]
  BY OwnedFacts
<1>1. PICK d \in Domains : d = own[a].d /\ own[a].i \in DOMAIN Plan[d]
  BY <1>0
<1>2. PICK i \in DOMAIN Plan[d] : i = own[a].i
  BY <1>1
<1>3. /\ Reached(mem, d, i) /\ mem[d][i] = "running" /\ Plan[d][i] = Kind(own[a])
      /\ Covers(mem) /\ Sound(mem)
  BY <1>1, <1>2, OwnedFacts
     DEF IndInv, CalmIsOrderly, Orderly, StepIs, Placed, Kind, JournalsSound
<1>4. Present(d)
  <2> SUFFICES ASSUME <<d, "metadata_finalization">> \in gone PROVE FALSE
    BY DEF Present
  <2> DEFINE n == Len(Plan[d])
  <2>1. n \in DOMAIN Plan[d] /\ Plan[d][n] = "metadata_finalization" /\ DOMAIN Plan[d] = 1 .. n /\ n \in Nat
    BY PlanFacts
  <2> HIDE DEF n
  <2>2. mem[d] # <<>> /\ mem[d][n] \in {"running", "succeeded"}
    BY <1>3, <2>1 DEF Covers
  <2>3. \A j \in 1 .. n - 1 : mem[d][j] = "succeeded"
    BY <1>3, <2>1, <2>2 DEF Sound, InSequence
  <2>4. i = n
    BY <1>3, <2>1, <2>3
  <2> QED BY <1>3, <2>1, <2>4
<1>5. Kind(own[a]) # "routing_suspend" => <<d, "routing_suspend">> \in gone
  <2> SUFFICES ASSUME Plan[d][i] # "routing_suspend" PROVE <<d, "routing_suspend">> \in gone
    BY <1>3
  <2>1. 1 \in DOMAIN Plan[d] /\ Plan[d][1] = "routing_suspend" /\ 1 \in 1 .. i - 1
    BY PlanFacts
  <2>2. mem[d] # <<>> /\ mem[d][1] = "succeeded"
    BY <1>3, <2>1 DEF Reached
  <2>3. Met(d, 1)
    BY <1>3, <2>1, <2>2 DEF Sound, Truthful
  <2>4. "resume" \notin happened
    BY DEF Calm
  <2> QED BY <2>1, <2>3, <2>4 DEF Met, IsGone
<1> QED BY <1>1, <1>4, <1>5 DEF Suspended

\* A request proceeds to change its resource.
LEMMA ChangeTurn ==
  ASSUME IndInv, NEW a, Works(a), at[a] = "reading", Kind(own[a]) # "child_domain",
         Resource(own[a]) \notin gone, Kind(own[a]) = "authoritative_dns" => Unbound(own[a].d),
         Change(a), Quiet
  PROVE  Turn(a)
<1>1. /\ a \in Actors /\ at[a] # "idle" /\ todo' = todo
      /\ happened \subseteq happened' /\ happened' \subseteq Disturbances
  BY DEF Works
<1>2. mem' = mem /\ disk' = disk /\ queue' = queue /\ broken' = broken /\ gone' = gone /\ leaving' = leaving
  BY DEF Quiet, resources, journal
<1>3. CASE a = "boot"
  <2>1. Decide(a, "block") /\ Handles(a)
    BY <1>2, <1>3 DEF Change, Handles, NoEffect
  <2> QED BY <1>2, <2>1, DecideTurn
<1>4. CASE a # "boot"
  <2>1. own[a] \in Owned /\ Placed(a)
    BY <1>1, OwnedFacts
  <2>2. /\ at'[a] = "changing" /\ own'[a] = own[a]
        /\ at' = [at EXCEPT ![a] = at'[a]] /\ own' = [own EXCEPT ![a] = own'[a]]
    BY <1>1, <1>4, GoFacts DEF Change, IndInv
  <2>3. Placed(a)'
    BY <1>2, <2>1, <2>2 DEF Placed, Reached, HasChild, Kind
  <2>4. Calm' => Orderly(a)'
    <3>1. Calm' => StepIs(a, "running")
      BY <1>1 DEF Calm, IndInv, CalmIsOrderly, Orderly
    <3> QED BY <1>2, <2>2, <3>1 DEF Orderly, StepIs, Taken, Resource, Kind
  <2>5. Kind(own[a]) = "authoritative_dns" => Unbound(own[a].d)'
    BY <1>2, <2>2 DEF Unbound, InPlan
  <2>6. Moves(a) /\ Handles(a) /\ Admitted(a) /\ Sober(a) /\ Alone(a)
    BY <1>1, <1>2, <1>4, <2>2 DEF Moves, Handles, NoEffect, Admitted, Sober, Alone, Actors
  <2> QED BY <1>1, <2>1, <2>2, <2>3, <2>4, <2>5, <2>6 DEF Turn, Places
<1> QED BY <1>3, <1>4

\* A read comes to a verdict.
LEMMA ReadTurn ==
  ASSUME IndInv, NEW a, Works(a), at[a] = "reading", Quiet,
         NEW verdict \in {"complete", "block", "fail"}, Decide(a, verdict),
         verdict = "complete" =>
           Kind(own[a]) # "child_domain" /\ Resource(own[a]) \in gone,
         Calm /\ Resource(own[a]) \in gone => verdict = "complete"
  PROVE  Turn(a)
<1>1. mem' = mem /\ disk' = disk /\ queue' = queue /\ broken' = broken
      /\ gone' = gone /\ leaving' = leaving /\ happened' = happened
  BY DEF Quiet, resources, journal
<1>2. Handles(a) /\ (verdict = "complete" => Earned(a)) /\ (Calm' => Calm)
  BY <1>1 DEF Handles, NoEffect, Earned, Calm
<1> QED BY <1>1, <1>2, DecideTurn

\* Whoever reads a step is at work.
LEMMA ReadingWorks ==
  ASSUME IndInv, NEW a \in Actors, at[a] # "idle", todo' = todo, happened' = happened
  PROVE  Works(a)
BY DEF Works, IndInv, TypeOK

LEMMA ReadDelegatedTurn ==
  ASSUME IndInv, NEW a \in Actors, ReadDelegated(a)
  PROVE  Turn(a)
<1>1. at[a] = "reading" /\ Kind(own[a]) \in Delegated /\ Quiet /\ own[a].d \in Domains
  BY OwnedFacts DEF ReadDelegated, Reading
<1>2. Kind(own[a]) # "child_domain" /\ Kind(own[a]) # "metadata_finalization"
  BY <1>1 DEF Delegated
<1>3. Works(a)
  BY <1>1, ReadingWorks DEF Quiet
<1>4. CASE Kind(own[a]) # "routing_suspend" /\ ~Suspended(own[a].d)
  <2>1. Decide(a, "block") /\ ~Calm
    BY <1>1, <1>2, <1>4, CalmStep DEF ReadDelegated
  <2> QED BY <1>1, <1>3, <2>1, ReadTurn
<1>5. CASE /\ ~(Kind(own[a]) # "routing_suspend" /\ ~Suspended(own[a].d))
           /\ Kind(own[a]) = "authoritative_dns" /\ ~Unbound(own[a].d)
  <2>1. Decide(a, "block")
    BY <1>5 DEF ReadDelegated
  <2>2. Resource(own[a]) \notin gone
    BY <1>1, <1>5 DEF IndInv, DnsWaits, Resource
  <2> QED BY <1>1, <1>3, <2>1, <2>2, ReadTurn
<1>6. CASE /\ ~(Kind(own[a]) # "routing_suspend" /\ ~Suspended(own[a].d))
           /\ ~(Kind(own[a]) = "authoritative_dns" /\ ~Unbound(own[a].d))
           /\ Resource(own[a]) \in gone
  <2>1. Decide(a, "complete")
    BY <1>6 DEF ReadDelegated
  <2> QED BY <1>1, <1>2, <1>3, <1>6, <2>1, ReadTurn
<1>7. CASE /\ ~(Kind(own[a]) # "routing_suspend" /\ ~Suspended(own[a].d))
           /\ ~(Kind(own[a]) = "authoritative_dns" /\ ~Unbound(own[a].d))
           /\ Resource(own[a]) \notin gone
  <2>1. Change(a)
    BY <1>7 DEF ReadDelegated
  <2> QED BY <1>1, <1>2, <1>3, <1>7, <2>1, ChangeTurn
<1> QED BY <1>4, <1>5, <1>6, <1>7

\* A read that asks for a suspended domain, and takes v for the verdict on a resource
\* that is gone.
LEMMA SuspendedReadTurn ==
  ASSUME IndInv, NEW a \in Actors, NEW kind \in {"certificate", "website_binding", "external_dns_zone"},
         Reading(a, {kind}), Quiet, NEW v \in {"complete", "block"},
         Calm /\ Resource(own[a]) \in gone => v = "complete",
         IF ~Suspended(own[a].d) THEN Decide(a, "block")
         ELSE IF Resource(own[a]) \in gone THEN Decide(a, v)
         ELSE Change(a)
  PROVE  Turn(a)
<1>1. /\ at[a] = "reading" /\ Kind(own[a]) = kind
      /\ kind \notin {"child_domain", "metadata_finalization", "routing_suspend", "authoritative_dns"}
  BY DEF Reading
<1>2. Works(a)
  BY <1>1, ReadingWorks DEF Quiet
<1>3. CASE ~Suspended(own[a].d)
  <2>1. Decide(a, "block") /\ ~Calm
    BY <1>1, <1>3, CalmStep
  <2> QED BY <1>1, <1>2, <2>1, ReadTurn
<1>4. CASE Suspended(own[a].d) /\ Resource(own[a]) \in gone
  <2>1. Decide(a, v)
    BY <1>4
  <2> QED BY <1>1, <1>2, <1>4, <2>1, ReadTurn
<1>5. CASE Suspended(own[a].d) /\ Resource(own[a]) \notin gone
  <2>1. Change(a)
    BY <1>5
  <2> QED BY <1>1, <1>2, <1>5, <2>1, ChangeTurn
<1> QED BY <1>3, <1>4, <1>5

\* A resource that is gone while its step is read was found running.
LEMMA TakenWasRunning ==
  ASSUME IndInv, NEW a \in Actors, at[a] = "reading"
  PROVE  Calm /\ Resource(own[a]) \in gone => own[a].was
BY DEF IndInv, CalmIsOrderly, Orderly, Taken

LEMMA ReadsTurn ==
  ASSUME IndInv, NEW a \in Actors, ReadCertificate(a) \/ ReadBinding(a) \/ ReadZone(a)
  PROVE  Turn(a)
<1>1. CASE ReadCertificate(a)
  <2> DEFINE v == "complete"
  <2>1. /\ Reading(a, {"certificate"}) /\ Quiet /\ v \in {"complete", "block"}
        /\ Calm /\ Resource(own[a]) \in gone => v = "complete"
        /\ IF ~Suspended(own[a].d) THEN Decide(a, "block")
           ELSE IF Resource(own[a]) \in gone THEN Decide(a, v)
           ELSE Change(a)
    BY <1>1 DEF ReadCertificate
  <2> HIDE DEF v
  <2> QED BY <2>1, SuspendedReadTurn
<1>2. CASE ReadBinding(a)
  <2> DEFINE v == IF own[a].was \/ a # "boot" THEN "complete" ELSE "block"
  <2>1. Calm /\ Resource(own[a]) \in gone => v = "complete"
    BY <1>2, TakenWasRunning DEF ReadBinding, Reading
  <2>2. /\ Reading(a, {"website_binding"}) /\ Quiet /\ v \in {"complete", "block"}
        /\ IF ~Suspended(own[a].d) THEN Decide(a, "block")
           ELSE IF Resource(own[a]) \in gone THEN Decide(a, v)
           ELSE Change(a)
    BY <1>2 DEF ReadBinding
  <2> HIDE DEF v
  <2> QED BY <2>1, <2>2, SuspendedReadTurn
<1>3. CASE ReadZone(a)
  <2> DEFINE v == IF own[a].was THEN "complete" ELSE "block"
  <2>1. Calm /\ Resource(own[a]) \in gone => v = "complete"
    BY <1>3, TakenWasRunning DEF ReadZone, Reading
  <2>2. /\ Reading(a, {"external_dns_zone"}) /\ Quiet /\ v \in {"complete", "block"}
        /\ IF ~Suspended(own[a].d) THEN Decide(a, "block")
           ELSE IF Resource(own[a]) \in gone THEN Decide(a, v)
           ELSE Change(a)
    BY <1>3 DEF ReadZone
  <2> HIDE DEF v
  <2> QED BY <2>1, <2>2, SuspendedReadTurn
<1> QED BY <1>1, <1>2, <1>3

LEMMA ReadMetadataTurn ==
  ASSUME IndInv, NEW a \in Actors, ReadMetadata(a)
  PROVE  Turn(a)
<1>1. /\ at[a] = "reading" /\ Kind(own[a]) = "metadata_finalization" /\ Quiet
      /\ Resource(own[a]) \notin gone <=> Present(own[a].d)
  BY DEF ReadMetadata, Reading, Resource, Present
<1>2. Works(a)
  BY <1>1, ReadingWorks DEF Quiet
<1>3. CASE ~Present(own[a].d)
  <2> DEFINE v == IF own[a].was THEN "complete" ELSE "block"
  <2>1. v \in {"complete", "block"} /\ Decide(a, v) /\ (Calm => v = "complete")
    BY <1>1, <1>3, TakenWasRunning DEF ReadMetadata
  <2> HIDE DEF v
  <2> QED BY <1>1, <1>2, <1>3, <2>1, ReadTurn
<1>4. CASE Present(own[a].d) /\ (~Suspended(own[a].d) \/ ~Unbound(own[a].d))
  <2>1. Decide(a, "block")
    BY <1>4 DEF ReadMetadata
  <2> QED BY <1>1, <1>2, <1>4, <2>1, ReadTurn
<1>5. CASE Present(own[a].d) /\ ~ (~Suspended(own[a].d) \/ ~Unbound(own[a].d))
  <2>1. Change(a)
    BY <1>5 DEF ReadMetadata
  <2> QED BY <1>1, <1>2, <1>5, <2>1, ChangeTurn
<1> QED BY <1>3, <1>4, <1>5

\* A step that is to remove the child belongs to the root.
LEMMA ChildStepOfRoot ==
  ASSUME IndInv, NEW a \in Actors, Kind(own[a]) = "child_domain"
  PROVE  own[a].d = "root" /\ HasChild /\ own[a].i = ChildStep
<1>1. own[a].d \in Domains /\ own[a].i \in DOMAIN Plan[own[a].d] /\ Plan[own[a].d][own[a].i] = "child_domain"
  BY OwnedFacts DEF Kind
<1>2. own[a].d # "child"
  BY <1>1, RemovalAssumption
<1>3. own[a].d = "root"
  BY <1>1, <1>2 DEF Domains
<1>4. HasChild
  BY <1>1, <1>3 DEF HasChild, InPlan
<1> QED BY <1>1, <1>3, <1>4, ChildStepFacts

LEMMA ReadChildTurn ==
  ASSUME IndInv, NEW a \in Actors, ReadChild(a)
  PROVE  Turn(a)
<1>1. /\ at[a] = "reading" /\ Kind(own[a]) = "child_domain" /\ Placed(a)
      /\ gone' = gone /\ leaving' = leaving /\ disk' = disk /\ broken' = broken
      /\ todo' = todo /\ happened' = happened
  BY OwnedFacts DEF ReadChild, Reading, resources
<1>2. Works(a)
  BY <1>1, ReadingWorks
<1>3. own[a].d = "root" /\ HasChild /\ own[a].i = ChildStep /\ Reached(mem, "root", ChildStep)
  BY <1>1, ChildStepOfRoot DEF Placed
<1>4. Handles(a) /\ Alone(a) /\ (at'[a] # "writing" /\ mem' = mem /\ queue' = queue => Moves(a))
  BY <1>1 DEF Handles, NoEffect, Alone, Moves
<1>5. ASSUME NEW verdict \in {"complete", "block"}, Decide(a, verdict), mem' = mem, queue' = queue,
             verdict = "complete" => Removed(mem["child"])
      PROVE  Turn(a)
  <2>1. Resource(own[a]) \notin gone'
    BY <1>1, NoChildResource DEF IndInv, TypeOK, Resource
  <2>2. verdict = "complete" => Earned(a)
    BY <1>1, <1>5, RemovedChildIsGone DEF IndInv, JournalsSound, Earned
  <2> QED BY <1>1, <1>2, <1>4, <1>5, <2>1, <2>2, DecideTurn
<1>6. CASE Removed(mem["child"]) \/ a = "boot"
  <2> DEFINE v == ChildVerdict
  <2>1. Decide(a, v) /\ mem' = mem /\ queue' = queue
    BY <1>6 DEF ReadChild
  <2>2. v \in {"complete", "block"} /\ (v = "complete" => Removed(mem["child"]))
    BY DEF ChildVerdict
  <2> HIDE DEF v
  <2> QED BY <1>5, <2>1, <2>2
<1>7. CASE ~Removed(mem["child"]) /\ a # "boot" /\ mem["child"] = <<>>
  <2>1. Go(a, "creating", own[a]) /\ mem' = mem /\ queue' = queue
    BY <1>7 DEF ReadChild
  <2>2. own[a] \in Owned
    BY OwnedFacts
  <2>3. /\ at'[a] = "creating" /\ own'[a] = own[a]
        /\ at' = [at EXCEPT ![a] = at'[a]] /\ own' = [own EXCEPT ![a] = own'[a]]
    BY <2>1, GoFacts DEF IndInv
  <2>4. Placed(a)' /\ Orderly(a)'
    <3>1. <<"root", "child_domain">> \notin gone'
      BY <1>1, NoChildResource DEF IndInv, TypeOK
    <3> QED BY <1>1, <2>1, <2>3, <3>1 DEF Placed, Reached, HasChild, Kind, Orderly
  <2>5. Moves(a) /\ Admitted(a) /\ Sober(a)
    BY <1>1, <1>4, <1>7, <2>1, <2>3 DEF Admitted, Sober, Actors
  <2> QED BY <1>1, <1>2, <1>4, <2>2, <2>3, <2>4, <2>5 DEF Turn, Places, Works
<1>8. CASE ~Removed(mem["child"]) /\ a # "boot" /\ mem["child"] # <<>> /\ mem["child"][1] = "pending"
  <2>1. Decide(a, "block") /\ mem' = mem /\ queue' = queue
    BY <1>8 DEF ReadChild
  <2> QED BY <1>5, <2>1
<1>9. CASE ~Removed(mem["child"]) /\ a # "boot" /\ mem["child"] # <<>> /\ mem["child"][1] # "pending"
  <2>1. MarkRunning(a, "child", TRUE)
    BY <1>9 DEF ReadChild
  <2>2. Admitted(a)
    BY <1>1, <1>9 DEF Admitted, Actors
  <2> QED BY <1>1, <1>2, <1>3, <1>4, <1>9, <2>1, <2>2, MarkTurn DEF Works, Domains
<1> QED BY <1>6, <1>7, <1>8, <1>9

LEMMA CreatedTurn ==
  ASSUME IndInv, NEW a \in Actors, Created(a)
  PROVE  Turn(a)
<1> DEFINE d == Target(a)
<1>1. /\ at[a] = "created" /\ Placed(a) /\ own[a].nested \in BOOLEAN
      /\ gone' = gone /\ leaving' = leaving /\ disk' = disk /\ broken' = broken
      /\ todo' = todo /\ happened' = happened
      /\ d \in Domains /\ d = (IF own[a].nested THEN "child" ELSE "root")
  BY OwnedFacts DEF Created, resources, Target, Domains
<1>2. Works(a)
  BY <1>1, ReadingWorks
<1>3. a # "boot" /\ mem[d] # <<>>
  BY <1>1 DEF IndInv, BootFirst, Placed
<1>4. \/ Answer(a, ChildVerdict) /\ mem' = mem /\ queue' = queue
      \/ ~Removed(mem[d]) /\ MarkRunning(a, d, own[a].nested)
  BY <1>1 DEF Created
<1> HIDE DEF d
<1>5. CASE Answer(a, ChildVerdict) /\ mem' = mem /\ queue' = queue
  <2> DEFINE v == ChildVerdict
  <2>1. v \in {"complete", "block", "fail"} /\ (v = "complete" => Removed(mem["child"]))
    BY DEF ChildVerdict
  <2>2. Answer(a, v)
    BY <1>5
  <2> HIDE DEF v
  <2> QED BY <1>1, <1>2, <1>5, <2>1, <2>2, AnswerTurn
<1>6. CASE ~Removed(mem[d]) /\ MarkRunning(a, d, own[a].nested)
  <2>1. own[a].nested => HasChild /\ Reached(mem, "root", ChildStep)
    BY <1>1 DEF Placed
  <2>2. Admitted(a) /\ Alone(a)
    BY <1>1, <1>3 DEF Admitted, Alone, Actors
  <2> QED BY <1>1, <1>2, <1>3, <1>6, <2>1, <2>2, MarkTurn DEF Works
<1> QED BY <1>4, <1>5, <1>6

LEMMA CreateChildTurn ==
  ASSUME IndInv, NEW a \in Actors, CreateChild(a)
  PROVE  Turn(a)
<1> DEFINE o == [own[a] EXCEPT !.nested = TRUE]
<1>1. /\ at[a] = "creating" /\ Placed(a) /\ Kind(own[a]) = "child_domain"
      /\ gone' = gone /\ leaving' = leaving /\ disk' = disk /\ broken' = broken
      /\ todo' = todo /\ happened' = happened
  BY OwnedFacts DEF CreateChild, resources, Placed
<1>2. Works(a)
  BY <1>1, ReadingWorks
<1>3. own[a].d = "root" /\ HasChild /\ own[a].i = ChildStep /\ Reached(mem, "root", ChildStep)
  BY <1>1, ChildStepOfRoot DEF Placed
<1>4. a # "boot" /\ a \in Runners
  BY <1>1 DEF IndInv, BootFirst, Actors
<1>5. /\ o \in Owned /\ o.d = "root" /\ o.i = own[a].i /\ o.nested = TRUE /\ o.verdict = own[a].verdict
      /\ o.i \in DOMAIN Plan[o.d]
  <2>1. own[a] \in Owned /\ own[a].i \in DOMAIN Plan[own[a].d]
    BY OwnedFacts
  <2>2. /\ o \in Owned /\ o.d = own[a].d /\ o.i = own[a].i /\ o.nested = TRUE
        /\ o.verdict = own[a].verdict
    BY <2>1 DEF Owned
  <2> QED BY <1>3, <2>1, <2>2
<1>6. \/ mem["child"] = <<>> /\ Create(a, "child", o)
      \/ mem["child"] # <<>> /\ Decide(a, "block") /\ mem' = mem /\ queue' = queue
      \/ mem["child"] # <<>> /\ Go(a, "created", o) /\ mem' = mem /\ queue' = queue
  BY DEF CreateChild
<1> HIDE DEF o
<1>7. Handles(a) /\ Alone(a) /\ "child" \in Domains
  BY <1>1 DEF Handles, NoEffect, Alone, Domains
<1>8. CASE mem["child"] = <<>> /\ Create(a, "child", o)
  BY <1>1, <1>2, <1>3, <1>4, <1>5, <1>7, <1>8, CreateTurn DEF Works
<1>9. CASE mem["child"] # <<>> /\ Decide(a, "block") /\ mem' = mem /\ queue' = queue
  <2>1. Resource(own[a]) \notin gone'
    BY <1>1, NoChildResource DEF IndInv, TypeOK, Resource
  <2> QED BY <1>1, <1>2, <1>7, <1>9, <2>1, DecideTurn
<1>10. CASE mem["child"] # <<>> /\ Go(a, "created", o) /\ mem' = mem /\ queue' = queue
  <2>1. /\ at'[a] = "created" /\ own'[a] = o
        /\ at' = [at EXCEPT ![a] = at'[a]] /\ own' = [own EXCEPT ![a] = own'[a]]
    BY <1>10, GoFacts DEF IndInv
  <2>2. Placed(a)' /\ Orderly(a)'
    BY <1>3, <1>5, <1>10, <2>1 DEF Placed, Reached, HasChild, Target, Orderly
  <2>3. Moves(a) /\ Admitted(a) /\ Sober(a)
    BY <1>1, <1>4, <1>10, <2>1 DEF Moves, Admitted, Sober
  <2> QED BY <1>1, <1>2, <1>5, <1>7, <2>1, <2>2, <2>3 DEF Turn, Places, Works
<1> QED BY <1>6, <1>8, <1>9, <1>10

\* A disturbance adds to what has happened.
LEMMA DisturbFacts ==
  ASSUME TypeOK, NEW kind, Disturb(kind)
  PROVE  /\ happened \subseteq happened' /\ happened' \subseteq Disturbances
         /\ kind \in happened' /\ (kind \notin {"crash", "refused"} => ~Calm')
BY DEF TypeOK, Disturb, Calm

LEMMA ReadFailsTurn ==
  ASSUME IndInv, NEW a \in Actors, ReadFails(a)
  PROVE  Turn(a)
<1>1. /\ at[a] = "reading" /\ Disturb("unread")
      /\ Answer(a, "fail") \/ Decide(a, "fail")
      /\ gone' = gone /\ leaving' = leaving /\ mem' = mem /\ disk' = disk
      /\ queue' = queue /\ broken' = broken /\ todo' = todo
  BY DEF ReadFails, Reading, resources, journal
<1>2. Works(a) /\ ~Calm' /\ Handles(a)
  BY <1>1, DisturbFacts DEF Works, IndInv, Handles, NoEffect
<1>3. CASE Answer(a, "fail")
  BY <1>1, <1>2, <1>3, AnswerTurn
<1>4. CASE Decide(a, "fail")
  BY <1>1, <1>2, <1>4, DecideTurn
<1> QED BY <1>1, <1>3, <1>4

\* A change comes to a verdict: the resource is removed, or the verdict does not say so.
LEMMA ChangedTurn ==
  ASSUME IndInv, NEW a \in Actors, at[a] = "changing", todo' = todo,
         mem' = mem, disk' = disk, queue' = queue, broken' = broken,
         happened \subseteq happened', happened' \subseteq Disturbances,
         NEW verdict \in {"complete", "block", "fail"}, Decide(a, verdict),
         \/ NoEffect /\ verdict # "complete"
         \/ Announces(a) /\ verdict = "block"
         \/ Erases(a) /\ verdict = "complete"
         \/ Erases(a) /\ verdict = "fail" /\ ~Calm'
  PROVE  Turn(a)
<1>1. Works(a)
  BY DEF Works
<1>2. Handles(a)
  BY DEF Handles
<1>3. Kind(own[a]) # "child_domain"
  BY OwnedFacts DEF Placed
<1>4. verdict = "complete" => Earned(a)
  BY <1>3 DEF Earned, Erases, Erase
<1>5. Calm' /\ Resource(own[a]) \in gone' => verdict = "complete"
  <2>1. Calm' => Resource(own[a]) \notin gone
    BY DEF Calm, IndInv, CalmIsOrderly, Orderly, Taken
  <2>2. NoEffect \/ Announces(a) => gone' = gone
    BY DEF NoEffect, Announces
  <2> QED BY <2>1, <2>2
<1> QED BY <1>1, <1>2, <1>4, <1>5, DecideTurn

LEMMA ChangeDelegatedTurn ==
  ASSUME IndInv, NEW a \in Actors, ChangeDelegated(a)
  PROVE  Turn(a)
<1>1. /\ at[a] = "changing" /\ Kind(own[a]) \in Delegated
      /\ mem' = mem /\ disk' = disk /\ queue' = queue /\ broken' = broken /\ todo' = todo
      /\ happened' = happened /\ happened \subseteq Disturbances
  BY DEF ChangeDelegated, Changing, journal, IndInv, TypeOK
<1>2. CASE Resource(own[a]) \in gone
  <2> DEFINE v == IF Kind(own[a]) = "authoritative_dns" THEN "fail" ELSE "block"
  <2>1. NoEffect /\ Decide(a, v) /\ v \in {"block", "fail"}
    BY <1>2 DEF ChangeDelegated
  <2> HIDE DEF v
  <2> QED BY <1>1, <2>1, ChangedTurn
<1>3. CASE Resource(own[a]) \notin gone
  <2>1. \/ Erase(a) /\ Decide(a, "complete")
        \/ leaving' = leaving \cup {Resource(own[a])} /\ gone' = gone /\ Decide(a, "block")
    BY <1>3 DEF ChangeDelegated
  <2>2. CASE Erase(a) /\ Decide(a, "complete")
    <3>1. Erases(a)
      BY <1>1, <2>2 DEF Erases, Delegated
    <3> QED BY <1>1, <2>2, <3>1, ChangedTurn
  <2>3. CASE leaving' = leaving \cup {Resource(own[a])} /\ gone' = gone /\ Decide(a, "block")
    <3>1. Announces(a)
      BY <1>1, <1>3, <2>3 DEF Announces, Taken
    <3> QED BY <1>1, <2>3, <3>1, ChangedTurn
  <2> QED BY <2>1, <2>2, <2>3
<1> QED BY <1>2, <1>3

\* The certificate is detached: the request is not over yet.
LEMMA DetachTurn ==
  ASSUME IndInv, NEW a \in Actors, at[a] = "changing", Kind(own[a]) = "certificate", todo' = todo,
         mem' = mem, disk' = disk, queue' = queue, broken' = broken, happened' = happened,
         at' = at, own' = own, gone' = gone, leaving' = leaving \cup {Resource(own[a])},
         Resource(own[a]) \notin gone
  PROVE  Turn(a)
<1>1. own[a] \in Owned /\ Placed(a) /\ happened \subseteq Disturbances
  BY OwnedFacts DEF IndInv, TypeOK
<1>2. at' = [at EXCEPT ![a] = at'[a]] /\ own' = [own EXCEPT ![a] = own'[a]]
  BY DEF IndInv, TypeOK
<1>3. Placed(a)'
  BY <1>1 DEF Placed, Reached, HasChild, Kind, Met, IsGone, Present, Target
<1>4. Calm' => Orderly(a)'
  <2>1. Calm' => Orderly(a)
    BY DEF Calm, IndInv, CalmIsOrderly
  <2> QED BY <2>1 DEF Orderly, StepIs, Taken, Resource, Kind
<1>5. Moves(a) /\ Handles(a)
  BY DEF Moves, Handles, Announces, Taken
<1>6. Admitted(a) /\ Sober(a) /\ Alone(a)
  <2>1. a = "boot" => ~own["boot"].nested
    BY DEF IndInv, BootFirst
  <2> QED BY <2>1 DEF Admitted, Sober, Alone, Actors
<1> QED BY <1>1, <1>2, <1>3, <1>4, <1>5, <1>6 DEF Turn, Places

LEMMA ChangeCertificateTurn ==
  ASSUME IndInv, NEW a \in Actors, ChangeCertificate(a)
  PROVE  Turn(a)
<1>1. /\ at[a] = "changing" /\ Kind(own[a]) = "certificate"
      /\ mem' = mem /\ disk' = disk /\ queue' = queue /\ broken' = broken /\ todo' = todo
      /\ happened' = happened /\ happened \subseteq Disturbances
  BY DEF ChangeCertificate, Changing, journal, IndInv, TypeOK
<1>2. CASE Resource(own[a]) \in gone \cup leaving
  <2>1. Erases(a) /\ Decide(a, "complete")
    BY <1>1, <1>2 DEF ChangeCertificate, Erases
  <2> QED BY <1>1, <2>1, ChangedTurn
<1>3. CASE Resource(own[a]) \notin gone \cup leaving /\ Suspended(own[a].d)
  <2>1. leaving' = leaving \cup {Resource(own[a])} /\ gone' = gone /\ at' = at /\ own' = own
    BY <1>3 DEF ChangeCertificate, actors
  <2>2. Resource(own[a]) \notin gone
    BY <1>3
  <2> QED BY <1>1, <2>1, <2>2, DetachTurn
<1>4. CASE Resource(own[a]) \notin gone \cup leaving /\ ~Suspended(own[a].d)
  <2>1. NoEffect /\ Decide(a, "block")
    BY <1>4 DEF ChangeCertificate
  <2> QED BY <1>1, <2>1, ChangedTurn
<1> QED BY <1>2, <1>3, <1>4

LEMMA ChangeBindingTurn ==
  ASSUME IndInv, NEW a \in Actors, ChangeBinding(a)
  PROVE  Turn(a)
<1>1. /\ at[a] = "changing" /\ Kind(own[a]) = "website_binding"
      /\ mem' = mem /\ disk' = disk /\ queue' = queue /\ broken' = broken /\ todo' = todo
      /\ happened' = happened /\ happened \subseteq Disturbances
  BY DEF ChangeBinding, Changing, journal, IndInv, TypeOK
<1>2. CASE Suspended(own[a].d)
  <2>1. Erases(a) /\ Decide(a, "complete")
    BY <1>1, <1>2 DEF ChangeBinding, Erases
  <2> QED BY <1>1, <2>1, ChangedTurn
<1>3. CASE ~Suspended(own[a].d)
  <2> DEFINE v == IF Present(own[a].d) THEN "block" ELSE "fail"
  <2>1. NoEffect /\ Decide(a, v) /\ v \in {"block", "fail"}
    BY <1>3 DEF ChangeBinding
  <2> HIDE DEF v
  <2> QED BY <1>1, <2>1, ChangedTurn
<1> QED BY <1>2, <1>3

LEMMA ChangeErasedTurn ==
  ASSUME IndInv, NEW a \in Actors, ChangeErased(a)
  PROVE  Turn(a)
<1>1. /\ at[a] = "changing"
      /\ mem' = mem /\ disk' = disk /\ queue' = queue /\ broken' = broken /\ todo' = todo
      /\ happened' = happened /\ happened \subseteq Disturbances
  BY DEF ChangeErased, Changing, journal, IndInv, TypeOK
<1>2. \/ \E v \in {"block", "fail"} : NoEffect /\ Decide(a, v)
      \/ Erases(a) /\ Decide(a, "complete")
  BY <1>1 DEF ChangeErased, Erases
<1> QED BY <1>1, <1>2, ChangedTurn

LEMMA ChangeFailsTurn ==
  ASSUME IndInv, NEW a \in Actors, ChangeFails(a)
  PROVE  Turn(a)
<1>1. /\ at[a] = "changing" /\ Decide(a, "fail")
      /\ mem' = mem /\ disk' = disk /\ queue' = queue /\ broken' = broken /\ todo' = todo
  BY DEF ChangeFails, journal
<1>2. CASE Disturb("refused") /\ NoEffect
  BY <1>1, <1>2, DisturbFacts, ChangedTurn DEF IndInv
<1>3. CASE Disturb("unanswered") /\ Erases(a)
  BY <1>1, <1>3, DisturbFacts, ChangedTurn DEF IndInv
<1>4. (Disturb("refused") /\ NoEffect) \/ (Disturb("unanswered") /\ Erases(a))
  BY <1>1 DEF ChangeFails, Erases
<1> QED BY <1>2, <1>3, <1>4

LEMMA RecordTurn ==
  ASSUME IndInv, NEW a \in Actors, Record(a)
  PROVE  Turn(a)
<1> DEFINE d == own[a].d
           i == own[a].i
           verdict == own[a].verdict
<1>1. /\ at[a] = "decided" /\ Placed(a) /\ gone' = gone /\ leaving' = leaving
      /\ disk' = disk /\ broken' = broken /\ todo' = todo /\ happened' = happened
  BY OwnedFacts DEF Record, resources
<1>2. Works(a)
  BY <1>1, ReadingWorks
<1>3. d \in Domains /\ i \in DOMAIN Plan[d] /\ verdict \in {"complete", "block", "fail"}
  <2>1. own[a] \in Owned /\ d \in Domains /\ i \in DOMAIN Plan[d]
    BY OwnedFacts
  <2> QED BY <1>1, <2>1 DEF Owned, Placed
<1>4. CASE mem[d][i] \in From[verdict]
  <2>1. /\ mem' = [mem EXCEPT ![d][i] = Verdicts[verdict]]
        /\ queue' = Append(queue, [by |-> a, then |-> "done", image |-> mem'])
        /\ Go(a, "writing", own[a])
    BY <1>4 DEF Record, Persist
  <2>10. own[a] \in Owned /\ TypeOK
    BY OwnedFacts DEF IndInv
  <2>2. /\ at'[a] = "writing" /\ own'[a] = own[a] /\ own[a] \in Owned
        /\ at' = [at EXCEPT ![a] = at'[a]] /\ own' = [own EXCEPT ![a] = own'[a]]
    BY <2>1, <2>10, GoFacts
  <2>3. own' = own
    BY <2>2 DEF IndInv, TypeOK
  <2>4. /\ verdict \in DOMAIN Verdicts /\ mem[d][i] # "succeeded"
        /\ Verdicts[verdict] \in Status \ {"pending"}
        /\ (Verdicts[verdict] = "succeeded" => verdict = "complete")
    BY <1>3, <1>4 DEF Verdicts, From, Status
  <2>5. Put(d, i, Verdicts[verdict])
    BY <1>1, <1>3, <2>1, <2>4 DEF Put, Placed
  <2>6. Writes(a, "done")
    BY <1>1, <2>3, <2>4, <2>5 DEF Writes
  <2>7. Persists(a, "done")
    BY <1>1, <2>1, <2>2, <2>6 DEF Persists, resources
  <2>8. Placed(a)' /\ Orderly(a)'
    <3>1. own[a].nested => Reached(mem', "root", ChildStep)
      <4>1. MemGrows
        BY <2>5, PutFacts DEF IndInv, JournalsSound
      <4> QED BY <1>1, <4>1, ReachedStays, ChildStepFacts DEF Placed, Domains
    <3> QED BY <1>1, <2>2, <3>1 DEF Placed, Reached, HasChild, Orderly
  <2>9. Handles(a) /\ Admitted(a) /\ Sober(a) /\ Alone(a)
    <3>1. a = "boot" => ~own["boot"].nested
      BY <1>1 DEF IndInv, BootFirst
    <3> QED BY <1>1, <2>2, <3>1 DEF Handles, NoEffect, Admitted, Sober, Alone, Actors
  <2> QED BY <1>2, <2>2, <2>7, <2>8, <2>9 DEF Turn, Places, Works
<1>5. CASE mem[d][i] \notin From[verdict]
  <2> DEFINE v == IF verdict = "complete" /\ mem[d][i] = "succeeded" THEN ChildVerdict ELSE "block"
  <2>1. Answer(a, v) /\ mem' = mem /\ queue' = queue
    BY <1>5 DEF Record
  <2>2. v \in {"complete", "block", "fail"} /\ (v = "complete" => Removed(mem["child"]))
    BY DEF ChildVerdict
  <2> HIDE DEF v
  <2> QED BY <1>1, <1>2, <2>1, <2>2, AnswerTurn
<1> QED BY <1>4, <1>5

\* The head of the chain, and who waits for it.
LEMMA HeadFacts ==
  ASSUME IndInv, queue # <<>>
  PROVE  /\ Head(queue) \in Entry /\ Head(queue).by \in Actors /\ Queued(Head(queue))
         /\ Head(queue) = queue[1] /\ 1 \in 1 .. Len(queue)
<1>1. queue \in Seq(Entry)
  BY DEF IndInv, TypeOK, Entry
<1>2. Head(queue) \in Entry /\ Len(queue) \in Nat \ {0} /\ Head(queue) = queue[1]
  BY <1>1, HeadTailProperties, EmptySeq
<1>3. 1 \in 1 .. Len(queue)
  BY <1>2
<1> QED BY <1>2, <1>3 DEF IndInv, Chained, Entry

LEMMA FlushTurn ==
  ASSUME IndInv, Flush
  PROVE  Turn(Head(queue).by)
<1> DEFINE e == Head(queue)
           a == e.by
<1>1. /\ queue # <<>> /\ queue' = Tail(queue) /\ disk' = e.image /\ mem' = mem /\ broken' = broken
      /\ gone' = gone /\ leaving' = leaving /\ todo' = todo /\ happened' = happened
      /\ IF e.then = "done" THEN Answer(a, ChildVerdict) ELSE Go(a, e.then, own[a])
  BY DEF Flush, resources
<1>2. e \in Entry /\ a \in Actors /\ Queued(e) /\ e = queue[1] /\ 1 \in 1 .. Len(queue)
  BY <1>1, HeadFacts
<1>3. /\ at[a] = "writing" /\ e.then \in {"created", "reading", "done"}
      /\ e.then = "reading" => Reached(mem, own[a].d, own[a].i)
      /\ e.then = "created" => mem[Target(a)] # <<>> /\ a # "boot"
  BY <1>2 DEF Queued, Entry
<1>4. at'[a] # "writing" => Leaves(a)
  BY <1>1 DEF Leaves, resources
<1>5. Calm => OrderlyEntry(e)
  BY <1>2 DEF IndInv, CalmIsOrderly
<1>6. Calm => (e.then = "reading" => StepIs(a, "running") /\ (Taken(a) => own[a].was))
  BY <1>5 DEF OrderlyEntry
<1>7. PICK x \in Actors : x = a
  BY <1>2
<1>8. PICK then \in {"created", "reading", "done"} : then = e.then
  BY <1>3
<1> HIDE DEF e, a
<1>9. Works(x)
  BY <1>1, <1>3, <1>7, ReadingWorks
<1>10. CASE then = "done"
  <2> DEFINE v == ChildVerdict
  <2>1. v \in {"complete", "block", "fail"} /\ (v = "complete" => Removed(mem["child"]))
    BY DEF ChildVerdict
  <2>2. Answer(x, v)
    BY <1>1, <1>7, <1>8, <1>10
  <2> HIDE DEF v
  <2>3. Turn(x)
    BY <1>1, <1>4, <1>7, <1>9, <2>1, <2>2, AnswerTurn
  <2> QED BY <1>7, <2>3 DEF a, e
<1>11. CASE then \in {"created", "reading"}
  <2>1. Placed(x) /\ own[x] \in Owned
    BY OwnedFacts
  <2>2. /\ at'[x] = then /\ own'[x] = own[x]
        /\ at' = [at EXCEPT ![x] = at'[x]] /\ own' = [own EXCEPT ![x] = own'[x]]
    BY <1>1, <1>7, <1>8, <1>11, GoFacts DEF IndInv
  <2>3. Placed(x)'
    BY <1>1, <1>3, <1>7, <1>8, <1>11, <2>1, <2>2 DEF Placed, Reached, HasChild, Target
  <2>4. Calm' => Orderly(x)'
    <3>1. Calm' => Calm
      BY <1>1 DEF Calm
    <3>2. Calm => (then = "reading" => StepIs(x, "running") /\ (Taken(x) => own[x].was))
      BY <1>6, <1>7, <1>8
    <3> QED BY <1>1, <1>11, <2>2, <3>1, <3>2 DEF Orderly, StepIs, Taken, Resource, Kind
  <2>5. Leaves(x) /\ Handles(x) /\ Alone(x)
    BY <1>1, <1>3, <1>4, <1>7, <1>11, <2>2 DEF Handles, NoEffect, Alone
  <2>6. Admitted(x) /\ Sober(x)
    <3>1. x = "boot" => ~own["boot"].nested
      BY <1>3, <1>7 DEF IndInv, BootFirst
    <3> QED BY <1>1, <1>3, <1>7, <1>8, <1>11, <2>2, <3>1 DEF Admitted, Sober, Actors
  <2>7. Turn(x)
    BY <1>9, <1>11, <2>1, <2>2, <2>3, <2>4, <2>5, <2>6 DEF Turn, Places, Works
  <2> QED BY <1>7, <2>7 DEF a, e
<1> QED BY <1>10, <1>11

LEMMA FlushFailsTurn ==
  ASSUME IndInv, FlushFails
  PROVE  Turn(Head(queue).by)
<1> DEFINE a == Head(queue).by
<1>1. /\ queue # <<>> /\ queue' = Tail(queue) /\ disk' = disk /\ mem' = mem
      /\ gone' = gone /\ leaving' = leaving /\ todo' = todo /\ Answer(a, "fail")
      /\ IF broken THEN broken' = broken /\ happened' = happened ELSE broken' = TRUE /\ Disturb("fault")
  BY DEF FlushFails, resources
<1>2. PICK x \in Actors : x = a
  BY <1>1, HeadFacts
<1>3. at[x] = "writing"
  BY <1>1, <1>2, HeadFacts DEF Queued
<1>4. broken \in BOOLEAN /\ happened \subseteq Disturbances
  BY DEF IndInv, TypeOK
<1>8. /\ happened \subseteq happened' /\ happened' \subseteq Disturbances
      /\ broken' \in BOOLEAN /\ (Calm' => broken)
  <2>1. CASE broken
    BY <1>1, <1>4, <2>1
  <2>2. CASE ~broken
    BY <1>1, <2>2, DisturbFacts DEF IndInv
  <2> QED BY <2>1, <2>2
<1>5. Works(x) /\ broken' \in BOOLEAN /\ (Calm' => broken)
  BY <1>1, <1>3, <1>8 DEF Works
<1>6. at'[x] # "writing" => Leaves(x)
  BY <1>1, <1>2, <1>5 DEF Leaves, resources
<1> HIDE DEF a
<1>7. Turn(x)
  BY <1>1, <1>2, <1>5, <1>6, AnswerTurn
<1> QED BY <1>2, <1>7 DEF a

\* A request comes: alone, or the world is no longer calm.
LEMMA EntersFacts ==
  ASSUME IndInv, NEW r \in Runners, Enters(r)
  PROVE  /\ r \in Actors /\ r # "boot" /\ at[r] = "idle" /\ Serving
         /\ happened \subseteq happened' /\ happened' \subseteq Disturbances /\ Alone(r)
<1>1. r \in Actors /\ r # "boot" /\ happened \subseteq Disturbances
  BY RemovalAssumption DEF Actors, IndInv, TypeOK
<1>2. at[r] = "idle" /\ Serving /\ at["boot"] = "idle"
  BY DEF Enters, Serving
<1>3. CASE (\A q \in Runners : at[q] = "idle") /\ happened' = happened
  BY <1>1, <1>2, <1>3 DEF Alone, Actors
<1>4. CASE "overlap" \in happened /\ happened' = happened
  BY <1>1, <1>2, <1>4 DEF Alone, Calm
<1>5. CASE Disturb("overlap")
  BY <1>1, <1>2, <1>5, DisturbFacts DEF Alone, IndInv
<1> QED BY <1>3, <1>4, <1>5 DEF Enters

LEMMA RequestTurn ==
  ASSUME IndInv, NEW r \in Runners, Request(r)
  PROVE  Turn(r)
<1>1. Enters(r)
  BY DEF Request, Start, Continue
<1>2. /\ r \in Actors /\ r # "boot" /\ at[r] = "idle" /\ Serving
      /\ happened \subseteq happened' /\ happened' \subseteq Disturbances /\ Alone(r)
  BY <1>1, EntersFacts
<1>3. gone' = gone /\ leaving' = leaving /\ disk' = disk /\ broken' = broken /\ todo' = todo
  BY DEF Request, Start, Continue, resources
<1>4. \/ mem["root"] = <<>> /\ Create(r, "root", Nobody)
      \/ \E d \in Domains : mem[d] # <<>> /\ ~Removed(mem[d]) /\ MarkRunning(r, d, FALSE)
  <2>1. CASE Start(r)
    <3>1. "root" \in Domains
      BY DEF Domains
    <3>2. mem["root"] # <<>> /\ mem["root"][1] = "pending" => ~Removed(mem["root"])
      <4>1. mem["root"] # <<>> => 1 \in DOMAIN mem["root"]
        BY <3>1, PlanFacts DEF IndInv, JournalsSound, Sound, Shaped
      <4> QED BY <4>1 DEF Removed
    <3> QED BY <2>1, <3>1, <3>2 DEF Start
  <2>2. CASE \E d \in Domains : Continue(r, d)
    BY <2>2 DEF Continue
  <2> QED BY <2>1, <2>2 DEF Request
<1>5. CASE mem["root"] = <<>> /\ Create(r, "root", Nobody)
  <2>1. Nobody \in Owned /\ Nobody.d = "root" /\ Nobody.i = 1 /\ Nobody.nested = FALSE
    BY DEF Owned, Nobody, Domains
  <2>2. "root" \in Domains /\ 1 \in DOMAIN Plan["root"]
    BY PlanFacts DEF Domains
  <2> QED BY <1>2, <1>3, <1>5, <2>1, <2>2, CreateTurn
<1>6. ASSUME NEW d \in Domains, mem[d] # <<>>, ~Removed(mem[d]), MarkRunning(r, d, FALSE)
      PROVE  Turn(r)
  <2>1. Admitted(r)
    BY <1>2, <1>3 DEF Admitted
  <2> QED BY <1>2, <1>3, <1>6, <2>1, MarkTurn
<1> QED BY <1>4, <1>5, <1>6

\* The recovery finds the step running: it joins it, and writes nothing.
LEMMA ReconcileTurn ==
  ASSUME IndInv, Reconcile
  PROVE  Turn("boot")
<1>1. /\ todo # <<>> /\ at["boot"] = "idle" /\ MarkRunning("boot", Head(todo), FALSE)
      /\ todo' = Tail(todo) /\ gone' = gone /\ leaving' = leaving /\ disk' = disk
      /\ broken' = broken /\ happened' = happened
  BY DEF Reconcile, resources
<1>2. "boot" \in Actors /\ happened \subseteq Disturbances
  BY DEF Actors, IndInv, TypeOK
<1>3. Head(todo) \in Domains /\ Interrupted(mem[Head(todo)])
  BY <1>1, TodoFacts, Zenon DEF IndInv, BootFirst, Domains
<1>4. PICK d \in Domains : d = Head(todo)
  BY <1>3
<1>5. mem[d] # <<>> /\ \E i \in DOMAIN Plan[d] : mem[d][i] = "running"
  <2>1. PICK i \in DOMAIN mem[d] : mem[d][i] = "running"
    BY <1>3, <1>4 DEF Interrupted
  <2>2. mem[d] # <<>>
    BY <2>1
  <2> QED BY <2>1, <2>2 DEF IndInv, JournalsSound, Sound, Shaped
<1>6. ~Removed(mem[d]) /\ mem[d][FirstIncomplete(mem[d])] = "running"
  BY <1>5, RunningIsFirst DEF IndInv, JournalsSound, Sound
<1>7. MarkRunning("boot", d, FALSE)
  BY <1>1, <1>4
<1>8. mem' = mem
  BY <1>2, <1>5, <1>6, <1>7, MarkFacts
<1>9. own'["boot"].d = d => Admitted("boot")
  BY <1>1, <1>4, <1>8 DEF Admitted
<1>10. Alone("boot")
  BY <1>1 DEF Alone, IndInv, BootFirst, Actors
<1> QED BY <1>1, <1>2, <1>5, <1>6, <1>7, <1>9, <1>10, MarkTurn

-----------------------------------------------------------------------------
(* The steps that are nobody's turn.                                       *)

\* What the operator or another request does to the resources.
LEMMA OutsideStep ==
  ASSUME IndInv, mem' = mem, disk' = disk, queue' = queue, todo' = todo, at' = at, own' = own, broken' = broken,
         gone' \subseteq Resources, leaving' \subseteq Resources \ gone', happened' \subseteq Disturbances,
         ~Calm', LeavingIsKnown', DependentsGoFirst',
         \A d \in Domains : Unbound(d) => Unbound(d)',
         \A d \in Domains : <<d, "authoritative_dns">> \in gone' => <<d, "authoritative_dns">> \in gone,
         \A d \in Domains : \A i \in DOMAIN Plan[d] : Met(d, i) => Met(d, i)'
  PROVE  IndInv'
<1>1. TypeOK'
  BY DEF IndInv, TypeOK, Journal
<1>2. JournalsSound'
  <2>1. \A op : Truthful(op) =>
          \A d \in Domains : op[d] # <<>> => \A i \in DOMAIN Plan[d] : op[d][i] = "succeeded" => Met(d, i)'
    BY DEF Truthful
  <2> QED BY <2>1 DEF IndInv, JournalsSound, Sound, Shaped, InSequence, Truthful
<1>3. EveryonePlaced'
  <2> SUFFICES ASSUME NEW b \in Actors PROVE Placed(b)'
    BY DEF EveryonePlaced
  <2>1. Placed(b) /\ own[b].d \in Domains /\ own[b].i \in DOMAIN Plan[own[b].d]
    BY OwnedFacts
  <2>2. Met(own[b].d, own[b].i) => Met(own[b].d, own[b].i)'
    <3>1. PICK d \in Domains : d = own[b].d /\ own[b].i \in DOMAIN Plan[d]
      BY <2>1
    <3>2. PICK i \in DOMAIN Plan[d] : i = own[b].i
      BY <3>1
    <3>3. Met(d, i) => Met(d, i)'
      OBVIOUS
    <3> QED BY <3>1, <3>2, <3>3 DEF Met, IsGone, Present
  <2> QED BY <2>1, <2>2 DEF Placed, Reached, HasChild, Kind, Target, Met
<1>4. Chained'
  BY DEF IndInv, Chained, Queued, Reached, Target
<1>5. BootFirst'
  BY DEF IndInv, BootFirst, Interrupted
<1>6. DnsWaits'
  <2>1. \A d \in Domains : <<d, "authoritative_dns">> \in gone' => Unbound(d)'
    BY DEF IndInv, DnsWaits
  <2>2. ASSUME NEW b \in Actors, at[b] = "changing", Kind(own[b]) = "authoritative_dns"
        PROVE  Unbound(own[b].d)'
    <3>1. own[b].d \in Domains /\ Unbound(own[b].d)
      BY <2>2, OwnedFacts DEF IndInv, DnsWaits
    <3>2. PICK d \in Domains : d = own[b].d
      BY <3>1
    <3>3. Unbound(d)'
      BY <3>1, <3>2
    <3> QED BY <3>2, <3>3 DEF Unbound, InPlan
  <2> QED BY <2>1, <2>2 DEF DnsWaits, Kind
<1>7. CalmIsOrderly'
  BY DEF CalmIsOrderly
<1> QED BY <1>1, <1>2, <1>3, <1>4, <1>5, <1>6, <1>7 DEF IndInv

LEMMA ResumeKeepsInv ==
  ASSUME IndInv, NEW d \in Domains, Resume(d)
  PROVE  IndInv'
<1>1. /\ mem' = mem /\ disk' = disk /\ queue' = queue /\ todo' = todo /\ at' = at /\ own' = own
      /\ broken' = broken /\ leaving' = leaving /\ Disturb("resume") /\ Suspended(d)
      /\ gone' = gone \ {<<d, "routing_suspend">>}
  BY DEF Resume, journal, actors
<1>2. ~Calm' /\ happened' \subseteq Disturbances /\ happened \subseteq happened' /\ "resume" \in happened'
  BY <1>1, DisturbFacts DEF IndInv
<1>3. \A x \in Domains : \A i \in DOMAIN Plan[x] : Met(x, i) => Met(x, i)'
  <2> SUFFICES ASSUME NEW x \in Domains, NEW i \in DOMAIN Plan[x], Met(x, i), i # 1 PROVE IsGone(x, i)'
    BY <1>2 DEF Met
  <2>1. IsGone(x, i) /\ Plan[x][i] # "routing_suspend"
    BY PlanFacts DEF Met
  <2> QED BY <1>1, <2>1 DEF IsGone, Present
<1>4. DependentsGoFirst'
  <2> SUFFICES ASSUME NEW x \in Domains, ~Present(x)', NEW i \in DOMAIN Plan[x] PROVE IsGone(x, i)'
    BY DEF DependentsGoFirst
  <2>1. ~Present(x) /\ x # d
    BY <1>1 DEF Present, Suspended
  <2>2. IsGone(x, i)
    BY <2>1 DEF IndInv, DependentsGoFirst
  <2> QED BY <1>1, <2>1, <2>2 DEF IsGone, Present
<1>5. /\ gone' \subseteq Resources /\ leaving' \subseteq Resources \ gone' /\ LeavingIsKnown'
      /\ \A x \in Domains : <<x, "authoritative_dns">> \in gone' => <<x, "authoritative_dns">> \in gone
  BY <1>1 DEF IndInv, TypeOK, LeavingIsKnown
<1>6. \A x \in Domains : Unbound(x) => Unbound(x)'
  BY <1>1 DEF Unbound, InPlan
<1> QED BY <1>1, <1>2, <1>3, <1>4, <1>5, <1>6, OutsideStep

LEMMA TakeZoneKeepsInv ==
  ASSUME IndInv, NEW d \in Domains, TakeZone(d)
  PROVE  IndInv'
<1>1. /\ mem' = mem /\ disk' = disk /\ queue' = queue /\ todo' = todo /\ at' = at /\ own' = own
      /\ broken' = broken /\ leaving' = leaving /\ Disturb("taken")
      /\ gone' = gone \cup {<<d, "external_dns_zone">>}
  BY DEF TakeZone, journal, actors
<1>2. ~Calm' /\ happened' \subseteq Disturbances /\ happened \subseteq happened'
  BY <1>1, DisturbFacts DEF IndInv
<1>3. /\ \A x \in Domains : Unbound(x) => Unbound(x)'
      /\ \A x \in Domains : \A i \in DOMAIN Plan[x] : IsGone(x, i) => IsGone(x, i)'
      /\ \A x \in Domains : \A i \in DOMAIN Plan[x] : Met(x, i) => Met(x, i)'
  BY <1>1, <1>2, MoreIsGone
<1>4. DependentsGoFirst'
  <2>1. \A x \in Domains : Present(x)' <=> Present(x)
    BY <1>1 DEF Present
  <2> QED BY <1>3, <2>1 DEF IndInv, DependentsGoFirst
<1>5. LeavingIsKnown' /\ <<d, "external_dns_zone">> \notin leaving
  BY <1>1 DEF IndInv, LeavingIsKnown, Delegated
<1>6. <<d, "external_dns_zone">> \in Resources
  BY DEF Resources, Kinds, Erased
<1>7. /\ gone' \subseteq Resources /\ leaving' \subseteq Resources \ gone'
      /\ \A x \in Domains : <<x, "authoritative_dns">> \in gone' => <<x, "authoritative_dns">> \in gone
  BY <1>1, <1>5, <1>6 DEF IndInv, TypeOK
<1> QED BY <1>1, <1>2, <1>3, <1>4, <1>5, <1>7, OutsideStep

\* The operations that a restart finds interrupted, in order.
LEMMA PendingFacts ==
  LET t == Pending("root") \o Pending("child") IN
  /\ t \in {<<>>, <<"root">>, <<"child">>, <<"root", "child">>}
  /\ t \in {<<"root">>, <<"root", "child">>} => Interrupted(disk["root"])
  /\ t \in {<<"child">>, <<"root", "child">>} => Interrupted(disk["child"])
  /\ t \in Seq(Domains)
<1> DEFINE s == <<"root">>
           t == <<"child">>
           u == <<"root", "child">>
           e == <<>>
<1>1. s \in Seq(Domains) /\ t \in Seq(Domains) /\ u \in Seq(Domains) /\ e \in Seq(Domains)
  BY EmptySeq DEF Domains
<1>2. Len(s) = 1 /\ Len(t) = 1 /\ Len(u) = 2 /\ s[1] = u[1] /\ t[1] = u[2]
  OBVIOUS
<1>3. s # t /\ s # u /\ t # u /\ s # e /\ t # e /\ u # e
  BY TodoFacts
<1>4. /\ Pending("root") = IF Interrupted(disk["root"]) THEN s ELSE e
      /\ Pending("child") = IF Interrupted(disk["child"]) THEN t ELSE e
  BY DEF Pending
<1>5. e \o e = e /\ s \o e = s /\ e \o t = t
  BY <1>1, ConcatEmptySeq
<1> HIDE DEF s, t, u, e
<1>6. s \o t = u
  <2> DEFINE r == s \o t
  <2>1. /\ r \in Seq(Domains) /\ Len(r) = Len(s) + Len(t)
        /\ \A i \in 1 .. Len(s) + Len(t) : r[i] = IF i <= Len(s) THEN s[i] ELSE t[i - Len(s)]
    BY <1>1, ConcatProperties, Zenon
  <2> HIDE DEF r
  <2>2. Len(r) = Len(u) /\ \A i \in 1 .. Len(r) : r[i] = u[i]
    BY <1>2, <2>1
  <2>3. r = u
    BY <1>1, <2>1, <2>2, SeqEqual
  <2> QED BY <2>3 DEF r
<1> DEFINE w == Pending("root") \o Pending("child")
<1>7. /\ w \in {e, s, t, u} /\ w \in Seq(Domains)
      /\ w \in {s, u} => Interrupted(disk["root"])
      /\ w \in {t, u} => Interrupted(disk["child"])
  <2>1. CASE Interrupted(disk["root"]) /\ Interrupted(disk["child"])
    BY <1>1, <1>4, <1>6, <2>1
  <2>2. CASE Interrupted(disk["root"]) /\ ~Interrupted(disk["child"])
    BY <1>1, <1>3, <1>4, <1>5, <2>2
  <2>3. CASE ~Interrupted(disk["root"]) /\ Interrupted(disk["child"])
    BY <1>1, <1>3, <1>4, <1>5, <2>3
  <2>4. CASE ~Interrupted(disk["root"]) /\ ~Interrupted(disk["child"])
    BY <1>1, <1>3, <1>4, <1>5, <2>4
  <2> QED BY <2>1, <2>2, <2>3, <2>4
<1> QED BY <1>7, Zenon DEF s, t, u, e

LEMMA CrashKeepsInv ==
  ASSUME IndInv, Crash
  PROVE  IndInv'
<1>1. /\ Disturb("crash") /\ mem' = disk /\ disk' = disk /\ queue' = <<>> /\ broken' = FALSE
      /\ at' = [a \in Actors |-> "idle"] /\ own' = [a \in Actors |-> Nobody]
      /\ gone' = gone /\ leaving' = leaving /\ todo' = Pending("root") \o Pending("child")
  BY DEF Crash, resources
<1>2. happened' \subseteq Disturbances /\ happened \subseteq happened'
  BY <1>1, DisturbFacts DEF IndInv
<1>3. /\ \A a \in Actors : at'[a] = "idle" /\ own'[a] = Nobody
      /\ Nobody \in Owned /\ Nobody.d = "root" /\ Nobody.i = 1 /\ Nobody.nested = FALSE
  BY <1>1 DEF Owned, Nobody, Domains
<1>4. Len(queue') = 0 /\ queue' \in Seq(Entry)
  BY <1>1, EmptySeq
<1>5. /\ todo' \in {<<>>, <<"root">>, <<"child">>, <<"root", "child">>}
      /\ todo' \in {<<"root">>, <<"root", "child">>} => Interrupted(mem'["root"])
      /\ todo' \in {<<"child">>, <<"root", "child">>} => Interrupted(mem'["child"])
      /\ todo' \in Seq(Domains)
  BY <1>1, PendingFacts, Zenon
<1>6. TypeOK'
  <2>1. disk \in Journal /\ gone \subseteq Resources /\ leaving \subseteq Resources \ gone
    BY DEF IndInv, TypeOK
  <2>2. at' \in [Actors -> Places] /\ own' \in [Actors -> Owned]
    BY <1>1, <1>3 DEF Places
  <2> QED BY <1>1, <1>2, <1>4, <1>5, <2>1, <2>2 DEF TypeOK, Entry, Places, Owned
<1>7. JournalsSound'
  <2>1. \A d \in Domains : \A i \in DOMAIN Plan[d] : Met(d, i) => Met(d, i)'
    BY <1>1, <1>2, MoreIsGone
  <2>2. Sound(disk) /\ Sound(mem)' = Sound(disk)'
    BY <1>1 DEF IndInv, JournalsSound, Sound, Shaped, InSequence, Truthful
  <2>3. Sound(disk)'
    BY <1>1, <2>1, <2>2 DEF Sound, Shaped, InSequence, Truthful
  <2> QED BY <1>4, <2>2, <2>3 DEF JournalsSound
<1>8. EveryonePlaced'
  <2>1. 1 \in DOMAIN Plan["root"]
    BY PlanFacts DEF Domains
  <2> QED BY <1>3, <2>1 DEF EveryonePlaced, Placed
<1>9. Chained'
  BY <1>4 DEF Chained
<1>10. BootFirst'
  <2>1. "boot" \in Actors /\ Runners \subseteq Actors
    BY DEF Actors
  <2> QED BY <1>3, <1>5, <2>1 DEF BootFirst
<1>11. LeavingIsKnown' /\ DependentsGoFirst'
  BY <1>1 DEF IndInv, LeavingIsKnown, DependentsGoFirst, Present, IsGone
<1>12. DnsWaits'
  BY <1>1, <1>3 DEF IndInv, DnsWaits, Unbound, InPlan
<1>13. CalmIsOrderly'
  <2>1. Calm' => Covers(disk)
    BY <1>2 DEF Calm, IndInv, CalmIsOrderly
  <2> QED BY <1>1, <1>3, <1>4, <2>1 DEF CalmIsOrderly, Covers, Orderly
<1> QED BY <1>6, <1>7, <1>8, <1>9, <1>10, <1>11, <1>12, <1>13 DEF IndInv

-----------------------------------------------------------------------------
(* The invariant, and what it shows.                                       *)

LEMMA InitInv ==
  ASSUME Init
  PROVE  IndInv
<1>1. /\ gone = {} /\ leaving = {} /\ mem = [d \in Domains |-> <<>>] /\ disk = mem /\ queue = <<>>
      /\ broken = FALSE /\ todo = <<>> /\ happened = {}
      /\ at = [a \in Actors |-> "idle"] /\ own = [a \in Actors |-> Nobody]
  BY DEF Init
<1>2. /\ \A a \in Actors : at[a] = "idle" /\ own[a] = Nobody
      /\ Nobody \in Owned /\ Nobody.d = "root" /\ Nobody.i = 1 /\ Nobody.nested = FALSE
  BY <1>1 DEF Owned, Nobody, Domains
<1>3. Len(queue) = 0 /\ queue \in Seq(Entry) /\ todo \in Seq(Domains)
  BY <1>1, EmptySeq
<1>4. /\ Sound(mem) /\ \A d \in Domains : mem[d] = <<>>
  BY <1>1 DEF Sound, Shaped, Image, InSequence, Truthful
<1>5. mem \in Journal
  BY <1>4, ShapedJournal DEF Sound
<1>6. TypeOK
  <2>1. at \in [Actors -> Places] /\ own \in [Actors -> Owned]
    BY <1>1, <1>2 DEF Places
  <2> QED BY <1>1, <1>3, <1>5, <2>1 DEF TypeOK, Entry, Places, Owned
<1>7. JournalsSound
  BY <1>1, <1>3, <1>4 DEF JournalsSound
<1>8. EveryonePlaced
  <2>1. 1 \in DOMAIN Plan["root"]
    BY PlanFacts DEF Domains
  <2> QED BY <1>2, <2>1 DEF EveryonePlaced, Placed
<1>9. Chained
  BY <1>3 DEF Chained
<1>10. BootFirst
  <2>1. "boot" \in Actors /\ Runners \subseteq Actors
    BY DEF Actors
  <2> QED BY <1>1, <1>2, <2>1, TodoFacts DEF BootFirst
<1>11. LeavingIsKnown /\ DependentsGoFirst /\ DnsWaits
  BY <1>1, <1>2 DEF LeavingIsKnown, DependentsGoFirst, Present, DnsWaits
<1>12. CalmIsOrderly
  BY <1>1, <1>2, <1>3 DEF CalmIsOrderly, Covers, Orderly
<1> QED BY <1>6, <1>7, <1>8, <1>9, <1>10, <1>11, <1>12 DEF IndInv

LEMMA StutterInv ==
  ASSUME IndInv, UNCHANGED vars
  PROVE  IndInv'
<1>1. /\ mem' = mem /\ disk' = disk /\ queue' = queue /\ todo' = todo /\ at' = at /\ own' = own
      /\ broken' = broken /\ gone' = gone /\ leaving' = leaving /\ happened' = happened
  BY DEF vars, resources, journal, actors
<1>2. TypeOK' /\ BootFirst' /\ LeavingIsKnown' /\ DependentsGoFirst'
  BY <1>1 DEF IndInv, TypeOK, Journal, BootFirst, Interrupted, LeavingIsKnown, DependentsGoFirst, Present, IsGone
<1>3. JournalsSound'
  BY <1>1 DEF IndInv, JournalsSound, Sound, Shaped, InSequence, Truthful, Met, IsGone, Present
<1>4. EveryonePlaced' /\ Chained'
  BY <1>1 DEF IndInv, EveryonePlaced, Placed, Chained, Queued, Reached, Target, Kind, HasChild, Met, IsGone, Present
<1>5. DnsWaits'
  BY <1>1 DEF IndInv, DnsWaits, Unbound, InPlan, Kind
<1>6. CalmIsOrderly'
  BY <1>1 DEF IndInv, CalmIsOrderly, Calm, Covers, Orderly, OrderlyEntry, StepIs, Taken, Resource, Kind
<1> QED BY <1>2, <1>3, <1>4, <1>5, <1>6 DEF IndInv

LEMMA StepInv ==
  ASSUME IndInv, Next
  PROVE  IndInv'
<1>1. ASSUME NEW r \in Runners, Request(r)
      PROVE  IndInv'
  BY <1>1, RequestTurn, TurnKeepsInv
<1>2. ASSUME NEW a \in Actors, Step(a)
      PROVE  IndInv'
  <2>1. CASE Created(a) \/ CreateChild(a) \/ Record(a)
    BY <2>1, CreatedTurn, CreateChildTurn, RecordTurn, TurnKeepsInv
  <2>2. CASE Read(a)
    BY <2>2, ReadDelegatedTurn, ReadsTurn, ReadMetadataTurn, ReadChildTurn, TurnKeepsInv DEF Read
  <2>3. CASE ChangeResource(a)
    BY <2>3, ChangeDelegatedTurn, ChangeCertificateTurn, ChangeBindingTurn, ChangeErasedTurn, TurnKeepsInv
       DEF ChangeResource
  <2> QED BY <1>2, <2>1, <2>2, <2>3 DEF Step
<1>3. ASSUME NEW a \in Actors, ReadFails(a) \/ ChangeFails(a)
      PROVE  IndInv'
  BY <1>3, ReadFailsTurn, ChangeFailsTurn, TurnKeepsInv
<1>4. CASE Flush \/ FlushFails \/ Reconcile
  BY <1>4, FlushTurn, FlushFailsTurn, ReconcileTurn, TurnKeepsInv
<1>5. CASE Crash
  BY <1>5, CrashKeepsInv
<1>6. ASSUME NEW d \in Domains, Resume(d) \/ TakeZone(d)
      PROVE  IndInv'
  BY <1>6, ResumeKeepsInv, TakeZoneKeepsInv
<1> QED BY <1>1, <1>2, <1>3, <1>4, <1>5, <1>6 DEF Next

LEMMA Invariant == Spec => []IndInv
<1>1. Init => IndInv
  BY InitInv
<1>2. IndInv /\ [Next]_vars => IndInv'
  BY StepInv, StutterInv
<1> QED BY <1>1, <1>2, PTL DEF Spec

\* Every variable keeps its type, and a resource is never gone and about to go: no
\* handler leaves the record of a removal behind that it has finished.
THEOREM TypeCorrect == Spec => []TypeOK
<1>1. IndInv => TypeOK
  BY DEF IndInv
<1> QED BY <1>1, Invariant, PTL

\* Whatever overlaps, crashes, fails or is resumed, finalizeDomainRemoval forgets a
\* domain only when every resource that its plan names is gone, and the root only
\* when the child is.
THEOREM DomainIsForgottenLast == Spec => []DependentsGoFirst
<1>1. IndInv => DependentsGoFirst
  BY DEF IndInv
<1> QED BY <1>1, Invariant, PTL

\* The journal claims no more than was done: a step that succeedStep recorded, in
\* memory or in the file a restart reads, has met its goal.
THEOREM SuccessIsReal == Spec => []SucceededIsMet
<1>1. IndInv => SucceededIsMet
  <2> SUFFICES ASSUME IndInv, NEW op \in {mem, disk}, NEW d \in Domains, NEW i \in DOMAIN op[d],
                      op[d][i] = "succeeded"
               PROVE  IsGone(d, i) \/ (i = 1 /\ "resume" \in happened)
    BY DEF SucceededIsMet
  <2>1. Sound(op)
    BY DEF IndInv, JournalsSound
  <2>2. op[d] # <<>>
    OBVIOUS
  <2>3. i \in DOMAIN Plan[d]
    BY <2>1, <2>2 DEF Sound, Shaped
  <2> QED BY <2>1, <2>2, <2>3 DEF Sound, Truthful, Met
<1> QED BY <1>1, Invariant, PTL

\* While requests come one at a time, every read succeeds and every change answers
\* what it did, a crash at any point leaves a journal that accounts for all that is
\* gone: markStepRunning is on disk before the change, for every plan.
THEOREM RestartKnows == Spec => []CrashNeverStrands
<1>1. IndInv => CrashNeverStrands
  BY DEF IndInv, CalmIsOrderly, Calm, Covers, CrashNeverStrands
<1> QED BY <1>1, Invariant, PTL

=============================================================================
