---------------------- MODULE ApplicationOperations_proofs ----------------------
(***************************************************************************)
(* Proofs about ApplicationOperations, for any number of operations and    *)
(* requests, any retention and any disturbances.                           *)
(*                                                                         *)
(* A registry is a chain: its file, the snapshots still to be written and  *)
(* the memory.  The invariant says what every record of a chain has in     *)
(* common, which of them may lag behind the memory and while the executor  *)
(* does what, and how they compare with the host.                          *)
(***************************************************************************)
EXTENDS ApplicationOperations, SequenceTheorems, TLAPS

-----------------------------------------------------------------------------
(* The chains.                                                             *)

Values(f)  == {queue[f][k].value : k \in 1 .. Len(queue[f])}
Chain(f)   == {disk[f], mem[f]} \cup Values(f)
\* What is written with the k-th snapshot and after it.
From(f, k) == {queue[f][i].value : i \in k .. Len(queue[f])} \cup {mem[f]}

-----------------------------------------------------------------------------
(* Types and phases.                                                       *)

Early == {"claimed", "succeeded", "failed"}
Late  == {"terminal", "activating", "environment", "applying", "settling", "reconciled",
          "unreconciled", "failing", "lost"}

Host     == [cur : 0 .. MaxOps, prev : 0 .. MaxOps, rev : Nat, env : Nat, unit : 0 .. MaxOps,
             dirs : SUBSET Ops, torn : BOOLEAN]
Snapshot(S) == [by : Who \cup {Nobody}, value : S]
Typed ==
  /\ TypeOK /\ host \in Host /\ broken \in [Files -> BOOLEAN] /\ disturbed \in Nat
  /\ disk \in [Files -> AppRecord \cup EnvRecord] /\ mem \in [Files -> AppRecord \cup EnvRecord]
  /\ queue \in [Files -> Seq(Snapshot(AppRecord \cup EnvRecord))]
  /\ queue["app"] \in Seq(Snapshot(AppRecord)) /\ queue["env"] \in Seq(Snapshot(EnvRecord))

Known == Ops \ InState({"absent"})
Owed  == InState({"running"}) \cup unsettled

\* One operation at a time, and where the executor is tells what has become of it.
Course ==
  /\ \A x, y \in InState(Active) \cup unsettled : x = y
  /\ unsettled \subseteq InState({"running"} \cup Terminal)
  /\ at[Exec] \in Early \cup Late \cup {"idle", "halted"}
  /\ at[Exec] \in Early => proc = "serving" /\ on[Exec] \in InState({"running"}) /\ unsettled = {}
  /\ at[Exec] \in Late => on[Exec] \in unsettled \cap InState(Terminal)
  /\ at[Exec] \in {"activating", "environment", "applying"} => job[on[Exec]].st = "succeeded"
  /\ at[Exec] = "settling" => job[on[Exec]].st = "failed"
  /\ at[Exec] = "halted" => proc = "serving"
  /\ proc = "down" => /\ \A w \in Who : at[w] = "idle"
                      /\ \A f \in Files : queue[f] = <<>> /\ mem[f] = disk[f]
  /\ proc # "serving" => \A c \in Clients : at[c] = "idle"
  /\ proc = "command" => at[Exec] \in Late
  /\ proc = "starting" => InState({"running"}) \subseteq unsettled
  /\ proc = "serving" => /\ InState({"running"}) # {} => at[Exec] \in Early
                         /\ unsettled # {} => at[Exec] \in Late \cup {"halted"}
  /\ \A c \in Clients : /\ at[c] \in {"idle", "asked", "marking", "repeating", "undoing"}
                        /\ at[c] \in {"marking", "repeating", "undoing"} => on[c] \in Known

-----------------------------------------------------------------------------
(* What every record, payload and release refers to.                       *)

Accounted(o) == job[o].st \in Active \cup {"cancelled"} \/ o \in unsettled
Marked(a) ==
  /\ a.active \in Known /\ Accounted(a.active)
  /\ \/ job[a.active].pay.kind = "deploy" /\ a.pending = 0
     \/ job[a.active].pay.kind = "rollback" /\ a.pending = job[a.active].pay.rel
Named(a) ==
  /\ IF a.active = 0 THEN a.pending = 0 ELSE Marked(a)
  /\ IF a.cur = 0 THEN a.applied = 0
     ELSE a.cur \in Range(a.rels) /\ a.applied = job[a.cur].pay.rev
  /\ Range(a.rels) \subseteq Known
AllNamed == \A a \in Chain("app") : Named(a)

Prepared(p) ==
  /\ p.kind \in {"rollback", "restart"} => p.rel \in Known /\ p.rev = job[p.rel].pay.rev
AllPrepared ==
  /\ \A o \in Known : job[o].pay.kind # "none" /\ Prepared(job[o].pay)
  /\ \A c \in Clients : Prepared(plan[c]) /\ (at[c] = "asked" => plan[c].kind # "none")

Releases == host.dirs \cup ({host.cur} \ {0})
Built ==
  /\ \A r \in Releases : /\ job[r].st \notin {"absent", "queued", "cancelled"}
                         /\ at[Exec] = "claimed" => on[Exec] # r
  /\ ~host.torn => IF host.cur = 0 THEN host.rev = 0 ELSE host.rev = job[host.cur].pay.rev

-----------------------------------------------------------------------------
(* Who waits in a chain, and what lags behind the memory.                  *)

Follows(e) == e.applied = mem["env"].applied /\ e.rel = mem["env"].rel
AppWaiter(k) ==
  LET w == queue["app"][k].by IN
  /\ w = Exec => /\ at[Exec] \in {"activating", "settling", "failing"}
                 /\ \A a \in From("app", k) : a.active = 0 /\ a.cur = mem["app"].cur
  /\ w \in Clients => /\ at[w] \in {"marking", "repeating"}
                      /\ job[on[w]].st \in Active => \A a \in From("app", k) : a.active = on[w]
EnvWaiter(k) ==
  LET w == queue["env"][k].by IN
  /\ w \notin Clients
  /\ w = Exec => at[Exec] = "applying" /\ \A e \in From("env", k) : Follows(e)
Waiters ==
  /\ \A f \in Files : \A i, k \in 1 .. Len(queue[f]) :
       queue[f][i].by = queue[f][k].by /\ queue[f][k].by # Nobody => i = k
  /\ \A k \in 1 .. Len(queue["app"]) : AppWaiter(k)
  /\ \A k \in 1 .. Len(queue["env"]) : EnvWaiter(k)

\* Where the executor has changed the record, or failed to.
Behind  == {"activating", "settling", "failing", "unreconciled", "lost", "halted"}
Overdue == {"applying", "unreconciled", "failing", "lost", "halted"}
Lags(a) ==
  \/ a.active \notin {0, mem["app"].active} /\ job[a.active].st # "cancelled"
  \/ a.cur # mem["app"].cur
Lagging ==
  /\ \A a \in Chain("app") : Lags(a) => at[Exec] \in Behind
  /\ \A e \in Chain("env") : Follows(e) \/ at[Exec] \in Overdue

-----------------------------------------------------------------------------
(* The host, as long as no undo has failed on it.                          *)

\* What operation o leaves behind.
Landed(o) ==
  LET p == job[o].pay IN
  /\ host.cur = ReleaseOf(o) /\ host.env = p.env
  /\ p.kind = "rollback" => host.prev = p.cur
  /\ p.kind # "restart" => host.prev # host.cur /\ {host.prev, host.cur} \ {0} \subseteq host.dirs

\* Operation o may have changed the host, and the registries may not know.
Doubtful(o) ==
  /\ \/ job[o].st = "running" /\ (at[Exec] \in {"claimed", "failed"} => on[Exec] # o)
     \/ job[o].st = "succeeded" /\ o \in unsettled
  /\ Landed(o)
Unrecorded(kinds) == \E o \in Ops : Doubtful(o) /\ job[o].pay.kind \in kinds

Effects ==
  /\ \A o \in receipts : /\ job[o].st \in {"running", "succeeded"}
                         /\ at[Exec] \in {"claimed", "failed"} => on[Exec] # o
  /\ ~host.torn =>
       /\ at[Exec] = "succeeded" => Landed(on[Exec])
       /\ \A o \in unsettled : job[o].st = "succeeded" => Landed(o) /\ job[o].prev = host.prev
       /\ \A o \in receipts : job[o].st = "running" => Landed(o)
       /\ \A o \in Ops :
            /\ job[o].st = "running" /\ job[o].pay.kind # "restart"
            /\ o \in receipts \/ (at[Exec] = "succeeded" /\ on[Exec] = o)
            => \A a \in Chain("app") : a.cur = host.prev

Matches(a) == a.cur = host.cur /\ {a.cur, a.prev} \ {0} \subseteq host.dirs \cap Range(a.rels)
Applied(e) == e.applied = host.env /\ e.rel = host.cur
Agreement ==
  ~host.torn =>
    /\ \A a \in Chain("app") : Matches(a) \/ (a.cur = host.prev /\ Unrecorded({"deploy", "rollback"}))
    /\ offline = {} /\ host.cur # 0 =>
         \A e \in Chain("env") : Applied(e) \/ Unrecorded({"deploy", "rollback", "restart"})

\* What the executor has recorded when it comes to a phase.
Recorded ==
  /\ at[Exec] \in {"activating", "settling", "environment", "applying", "reconciled"} =>
       mem["app"].active # on[Exec]
  /\ ~host.torn =>
       /\ at[Exec] \in {"activating", "environment", "applying", "reconciled"} =>
            mem["app"].cur = host.cur
       /\ at[Exec] = "applying" \/ (at[Exec] = "reconciled" /\ proc # "command") =>
            (offline = {} /\ host.cur # 0 => Applied(mem["env"]))

Answers ==
  \A o \in answered :
    o \in Known /\ (job[o].st \in Active /\ job[o].pay.kind # "restart" =>
                      \A a \in Chain("app") : a.active = o)

IndInv == /\ Typed /\ Course /\ AllNamed /\ AllPrepared /\ Built /\ Waiters /\ Lagging
          /\ Effects /\ Agreement /\ Recorded /\ Answers

-----------------------------------------------------------------------------
(* Constants, records and the trimmed history.                             *)

LEMMA ConstantsFacts ==
  /\ MaxOps \in Nat /\ Ops \subseteq Nat /\ 0 \notin Ops /\ Ops \subseteq 0 .. MaxOps
  /\ Exec \in Who /\ Exec \notin Clients /\ Clients \subseteq Who /\ Nobody \notin Who
  /\ Nobody \notin Clients /\ Nobody # Exec
  /\ "app" \in Files /\ "env" \in Files /\ Files = {"app", "env"}
  /\ NoPayload \in Payload /\ NoPayload.kind = "none"
  /\ Retention \in Nat /\ Retention >= 2
BY OperationsAssumption DEF Ops, Who, Files, NoPayload, Payload

LEMMA EntryFacts ==
  ASSUME NEW s \in Seq(Ops), NEW r \in Nat
  PROVE  /\ Entry(s, r) \in Seq(Ops) /\ Len(Entry(s, r)) <= 1 /\ Len(Entry(s, r)) \in Nat
         /\ \A i \in 1 .. Len(Entry(s, r)) : Entry(s, r)[i] \in Range(s)
         /\ r \in Range(s) => Len(Entry(s, r)) = 1 /\ Entry(s, r)[1] = r
<1>1. Range(s) = {s[i] : i \in 1 .. Len(s)} /\ \A i \in 1 .. Len(s) : s[i] \in Ops
  BY LenProperties, ElementOfSeq DEF Range
<1>2. CASE r \in Range(s)
  <2>1. Entry(s, r) = <<r>> /\ r \in Ops
    BY <1>1, <1>2 DEF Entry
  <2> QED BY <2>1, <1>2
<1>3. CASE r \notin Range(s)
  <2>1. Entry(s, r) = <<>>
    BY <1>3 DEF Entry
  <2> QED BY <2>1, <1>3, EmptySeq
<1> QED BY <1>2, <1>3

LEMMA WithoutFacts ==
  ASSUME NEW s \in Seq(Ops), NEW r \in Nat
  PROVE  Without(s, r) \in Seq(Ops) /\ Range(Without(s, r)) \subseteq Range(s)
<1>1. Range(s) = {s[i] : i \in 1 .. Len(s)} /\ DOMAIN s = 1 .. Len(s) /\ Len(s) \in Nat
  BY LenProperties DEF Range
<1>2. CASE r \notin Range(s)
  BY <1>2 DEF Without
<1>3. CASE r \in Range(s)
  <2> DEFINE i == CHOOSE i \in DOMAIN s : s[i] = r
             p == SubSeq(s, 1, i - 1)
             q == SubSeq(s, i + 1, Len(s))
  <2>1. \E k \in DOMAIN s : s[k] = r
    BY <1>1, <1>3
  <2>2. i \in 1 .. Len(s)
    BY <1>1, <2>1
  <2>3. Without(s, r) = p \o q
    BY <1>3 DEF Without
  <2> HIDE DEF i
  <2>a. p \in Seq(Ops) /\ Len(p) = i - 1 /\ \A k \in 1 .. i - 1 : p[k] = s[1 + k - 1]
    <3>1. i - 1 \in Int /\ \A k \in 1 .. i - 1 : s[k] \in Ops
      BY <1>1, <2>2, ElementOfSeq
    <3> QED BY <1>1, <2>2, <3>1, SubSeqProperties
  <2>b. q \in Seq(Ops) /\ Len(q) = Len(s) - i /\ \A k \in 1 .. Len(s) - i : q[k] = s[i + k]
    <3>1. i + 1 \in Int /\ Len(s) \in Int /\ \A k \in i + 1 .. Len(s) : s[k] \in Ops
      BY <1>1, <2>2, ElementOfSeq
    <3>2. /\ q \in Seq(Ops) /\ Len(q) = (IF i + 1 <= Len(s) THEN Len(s) - (i + 1) + 1 ELSE 0)
          /\ \A k \in 1 .. Len(s) - (i + 1) + 1 : q[k] = s[i + 1 + k - 1]
      BY <3>1, SubSeqProperties
    <3>3. /\ \A k \in 1 .. Len(s) - i : k \in 1 .. Len(s) - (i + 1) + 1 /\ i + 1 + k - 1 = i + k
          /\ (IF i + 1 <= Len(s) THEN Len(s) - (i + 1) + 1 ELSE 0) = Len(s) - i
      <4>1. Len(s) \in Nat /\ i \in Nat /\ i <= Len(s)
        BY <1>1, <2>2
      <4> QED BY <4>1
    <3> QED BY <3>2, <3>3
  <2> HIDE DEF p, q
  <2>4. /\ p \in Seq(Ops) /\ Len(p) = i - 1 /\ \A k \in 1 .. Len(p) : p[k] = s[k]
        /\ q \in Seq(Ops) /\ Len(q) = Len(s) - i /\ \A k \in 1 .. Len(q) : q[k] = s[i + k]
    BY <1>1, <2>2, <2>a, <2>b
  <2>5. p \o q \in Seq(Ops) /\ Len(p \o q) = Len(p) + Len(q)
        /\ \A k \in 1 .. Len(p) + Len(q) : (p \o q)[k] = IF k <= Len(p) THEN p[k] ELSE q[k - Len(p)]
    BY <2>4, ConcatProperties
  <2>6. \A k \in 1 .. Len(p \o q) : (p \o q)[k] \in Range(s)
    BY <1>1, <2>2, <2>4, <2>5
  <2>7. Range(p \o q) = {(p \o q)[k] : k \in 1 .. Len(p \o q)}
    BY <2>5, LenProperties DEF Range
  <2> QED BY <2>3, <2>5, <2>6, <2>7
<1> QED BY <1>2, <1>3

\* A sequence of elements of S followed by another one.
LEMMA JoinFacts ==
  ASSUME NEW S, NEW p \in Seq(Ops), NEW q \in Seq(Ops),
         \A i \in 1 .. Len(p) : p[i] \in S, \A i \in 1 .. Len(q) : q[i] \in S
  PROVE  /\ p \o q \in Seq(Ops) /\ Len(p \o q) = Len(p) + Len(q)
         /\ Len(p) \in Nat /\ Len(q) \in Nat
         /\ \A i \in 1 .. Len(p \o q) : (p \o q)[i] \in S
         /\ \A i \in 1 .. Len(p) : i \in 1 .. Len(p \o q) /\ (p \o q)[i] = p[i]
         /\ \A i \in 1 .. Len(q) : Len(p) + i \in 1 .. Len(p \o q) /\ (p \o q)[Len(p) + i] = q[i]
<1>1. Len(p) \in Nat /\ Len(q) \in Nat
  BY LenProperties
<1>2. /\ p \o q \in Seq(Ops) /\ Len(p \o q) = Len(p) + Len(q)
      /\ \A k \in 1 .. Len(p) + Len(q) : (p \o q)[k] = IF k <= Len(p) THEN p[k] ELSE q[k - Len(p)]
  BY ConcatProperties
<1>3. \A i \in 1 .. Len(p) : i \in 1 .. Len(p) + Len(q) /\ (p \o q)[i] = p[i]
  BY <1>1, <1>2
<1>4. ASSUME NEW i \in 1 .. Len(q)
      PROVE  Len(p) + i \in 1 .. Len(p) + Len(q) /\ (p \o q)[Len(p) + i] = q[i]
  <2>1. Len(p) + i \in 1 .. Len(p) + Len(q) /\ ~(Len(p) + i <= Len(p)) /\ Len(p) + i - Len(p) = i
    BY <1>1
  <2> QED BY <1>2, <2>1
<1>5. ASSUME NEW i \in 1 .. Len(p) + Len(q) PROVE (p \o q)[i] \in S
  <2>1. CASE i <= Len(p)
    BY <1>1, <1>3, <2>1
  <2>2. CASE ~(i <= Len(p))
    <3>1. i - Len(p) \in 1 .. Len(q) /\ (p \o q)[i] = q[i - Len(p)]
      BY <1>1, <1>2, <2>2
    <3> QED BY <3>1
  <2> QED BY <2>1, <2>2
<1> QED BY <1>1, <1>2, <1>3, <1>4, <1>5

\* The entries of two releases, if there are any, in one order or the other.
Entries(s, x, y) == Entry(s, x) \o Entry(s, y)
LEMMA EntriesFacts ==
  ASSUME NEW s \in Seq(Ops), NEW x \in Nat, NEW y \in Nat
  PROVE  /\ Entries(s, x, y) \in Seq(Ops) /\ Len(Entries(s, x, y)) \in 0 .. 2
         /\ \A i \in 1 .. Len(Entries(s, x, y)) : Entries(s, x, y)[i] \in Range(s)
         /\ x \in Range(s) => \E i \in 1 .. Len(Entries(s, x, y)) : Entries(s, x, y)[i] = x
         /\ y \in Range(s) => \E i \in 1 .. Len(Entries(s, x, y)) : Entries(s, x, y)[i] = y
<1>1. PICK p \in Seq(Ops) :
        /\ p = Entry(s, x) /\ Len(p) <= 1 /\ Len(p) \in Nat
        /\ \A i \in 1 .. Len(p) : p[i] \in Range(s)
        /\ x \in Range(s) => Len(p) = 1 /\ p[1] = x
  BY EntryFacts
<1>2. PICK q \in Seq(Ops) :
        /\ q = Entry(s, y) /\ Len(q) <= 1 /\ Len(q) \in Nat
        /\ \A i \in 1 .. Len(q) : q[i] \in Range(s)
        /\ y \in Range(s) => Len(q) = 1 /\ q[1] = y
  BY EntryFacts
<1>3. /\ p \o q \in Seq(Ops) /\ Len(p \o q) = Len(p) + Len(q)
      /\ \A i \in 1 .. Len(p \o q) : (p \o q)[i] \in Range(s)
      /\ \A i \in 1 .. Len(p) : i \in 1 .. Len(p \o q) /\ (p \o q)[i] = p[i]
      /\ \A i \in 1 .. Len(q) : Len(p) + i \in 1 .. Len(p \o q) /\ (p \o q)[Len(p) + i] = q[i]
  BY <1>1, <1>2, JoinFacts
<1>4. x \in Range(s) => \E i \in 1 .. Len(p \o q) : (p \o q)[i] = x
  <2> SUFFICES ASSUME x \in Range(s) PROVE \E i \in 1 .. Len(p \o q) : (p \o q)[i] = x
    OBVIOUS
  <2>1. 1 \in 1 .. Len(p) /\ p[1] = x
    BY <1>1
  <2> QED BY <1>3, <2>1
<1>5. y \in Range(s) => \E i \in 1 .. Len(p \o q) : (p \o q)[i] = y
  <2> SUFFICES ASSUME y \in Range(s) PROVE \E i \in 1 .. Len(p \o q) : (p \o q)[i] = y
    OBVIOUS
  <2>1. Len(q) = 1 /\ q[1] = y
    BY <1>2
  <2>2. 1 \in 1 .. Len(q)
    BY <2>1
  <2> QED BY <1>3, <2>1, <2>2
<1>6. Len(p \o q) \in 0 .. 2
  BY <1>1, <1>2, <1>3
<1>7. Entries(s, x, y) = p \o q
  BY <1>1, <1>2 DEF Entries
<1> QED BY <1>3, <1>4, <1>5, <1>6, <1>7

LEMMA CutFacts ==
  ASSUME NEW m \in Nat, NEW k \in 0 .. 2, k <= m
  PROVE  \E n \in 0 .. m : n = (IF m < Retention THEN m ELSE Retention) /\ k <= n
BY ConstantsFacts

\* The trimmed history is part of the history and holds the current and the
\* previous release, if it held them before.
LEMMA TrimFacts ==
  ASSUME NEW a, NEW s \in Seq(Ops), NEW c \in Nat, NEW p \in Nat,
         a.rels = s, a.cur = c, a.prev = p
  PROVE  /\ Trim(a) \in Seq(Ops) /\ Range(Trim(a)) \subseteq Range(s)
         /\ {c, p} \cap Range(s) \subseteq Range(Trim(a))
<1>1. PICK g \in Seq(Ops) :
        /\ g = Without(Without(s, c), p) /\ Range(g) \subseteq Range(s)
  <2>1. Without(s, c) \in Seq(Ops) /\ Range(Without(s, c)) \subseteq Range(s)
    BY WithoutFacts
  <2> QED BY <2>1, WithoutFacts
<1>2. PICK h \in Seq(Ops) :
        /\ Trim(a) = FirstOf(h \o g, Retention) /\ Len(h) \in 0 .. 2
        /\ \A i \in 1 .. Len(h) : h[i] \in Range(s)
        /\ c \in Range(s) => \E i \in 1 .. Len(h) : h[i] = c
        /\ p \in Range(s) => \E i \in 1 .. Len(h) : h[i] = p
  <2>1. CASE Before(s, p, c)
    <3> DEFINE e == Entries(s, p, c)
    <3>1. /\ e \in Seq(Ops) /\ Len(e) \in 0 .. 2
          /\ \A i \in 1 .. Len(e) : e[i] \in Range(s)
          /\ p \in Range(s) => \E i \in 1 .. Len(e) : e[i] = p
          /\ c \in Range(s) => \E i \in 1 .. Len(e) : e[i] = c
      BY EntriesFacts
    <3>2. Trim(a) = FirstOf(Entries(s, p, c) \o g, Retention)
      BY <1>1, <2>1 DEF Trim, Entries
    <3> QED BY <3>1, <3>2
  <2>2. CASE ~Before(s, p, c)
    <3> DEFINE e == Entries(s, c, p)
    <3>1. /\ e \in Seq(Ops) /\ Len(e) \in 0 .. 2
          /\ \A i \in 1 .. Len(e) : e[i] \in Range(s)
          /\ c \in Range(s) => \E i \in 1 .. Len(e) : e[i] = c
          /\ p \in Range(s) => \E i \in 1 .. Len(e) : e[i] = p
      BY EntriesFacts
    <3>2. Trim(a) = FirstOf(Entries(s, c, p) \o g, Retention)
      BY <1>1, <2>2 DEF Trim, Entries
    <3> QED BY <3>1, <3>2
  <2> QED BY <2>1, <2>2
<1>3. \A i \in 1 .. Len(g) : g[i] \in Range(s)
  BY <1>1, LenProperties DEF Range
<1> DEFINE l == h \o g
<1>4. /\ l \in Seq(Ops) /\ Len(l) = Len(h) + Len(g) /\ Len(g) \in Nat /\ Len(h) \in Nat
      /\ \A i \in 1 .. Len(l) : l[i] \in Range(s)
      /\ \A i \in 1 .. Len(h) : i \in 1 .. Len(l) /\ l[i] = h[i]
  <2>1. \A i \in 1 .. Len(h) : h[i] \in Range(s)
    BY <1>2
  <2> QED BY <1>3, <2>1, JoinFacts
<1>12. Trim(a) = FirstOf(l, Retention)
  BY <1>2
<1> HIDE DEF l
<1>5. PICK n : /\ n = (IF Len(l) < Retention THEN Len(l) ELSE Retention)
              /\ n \in 0 .. Len(l) /\ Len(h) <= n
  <2>1. Len(h) \in 0 .. 2 /\ Len(l) \in Nat /\ Len(h) <= Len(l)
    BY <1>2, <1>4
  <2> QED BY <2>1, CutFacts
<1>6. Trim(a) = SubSeq(l, 1, n)
  BY <1>5, <1>12 DEF FirstOf
<1>7. /\ Trim(a) \in Seq(Ops) /\ Len(Trim(a)) = n /\ \A k \in 1 .. n : Trim(a)[k] = l[k]
  <2>1. 1 \in Int /\ n \in Int /\ \A k \in 1 .. n : l[k] \in Ops
    BY <1>4, <1>5, ElementOfSeq
  <2>2. /\ SubSeq(l, 1, n) \in Seq(Ops) /\ Len(SubSeq(l, 1, n)) = (IF 1 <= n THEN n - 1 + 1 ELSE 0)
        /\ \A k \in 1 .. n - 1 + 1 : SubSeq(l, 1, n)[k] = l[1 + k - 1]
    BY <2>1, SubSeqProperties
  <2> QED BY <1>4, <1>5, <1>6, <2>2
<1>8. Range(Trim(a)) = {Trim(a)[k] : k \in 1 .. n}
  BY <1>7, LenProperties DEF Range
<1>9. \A k \in 1 .. n : Trim(a)[k] \in Range(s)
  BY <1>4, <1>5, <1>7
<1>10. \A k \in 1 .. Len(h) : k \in 1 .. n /\ Trim(a)[k] = h[k]
  BY <1>2, <1>4, <1>5, <1>7
<1>11. \A z \in {c, p} \cap Range(s) : z \in Range(Trim(a))
  BY <1>2, <1>8, <1>10
<1> QED BY <1>7, <1>8, <1>9, <1>11

-----------------------------------------------------------------------------
(* The records.                                                            *)

\* The same releases with the same configuration.
Alike(b, a) == b.cur = a.cur /\ b.prev = a.prev /\ b.rels = a.rels /\ b.applied = a.applied

LEMMA MarkFacts ==
  ASSUME NEW a \in AppRecord, NEW o \in Nat, NEW r \in Nat
  PROVE  /\ MarkDeploying(a, o) \in AppRecord /\ Alike(MarkDeploying(a, o), a)
         /\ MarkDeploying(a, o).active = o /\ MarkDeploying(a, o).pending = 0
         /\ MarkRollingBack(a, o, r) \in AppRecord /\ Alike(MarkRollingBack(a, o, r), a)
         /\ MarkRollingBack(a, o, r).active = o /\ MarkRollingBack(a, o, r).pending = r
         /\ MarkFailed(a) \in AppRecord /\ Alike(MarkFailed(a), a)
         /\ MarkFailed(a).active = 0 /\ MarkFailed(a).pending = 0
         /\ [a EXCEPT !.rev = @ + 1] \in AppRecord /\ Alike([a EXCEPT !.rev = @ + 1], a)
         /\ [a EXCEPT !.rev = @ + 1].active = a.active
         /\ [a EXCEPT !.rev = @ + 1].pending = a.pending
<1>1. LET b == MarkDeploying(a, o) IN b \in AppRecord /\ Alike(b, a) /\ b.active = o /\ b.pending = 0
  BY DEF AppRecord, Alike, MarkDeploying
<1>2. LET b == MarkRollingBack(a, o, r) IN b \in AppRecord /\ Alike(b, a) /\ b.active = o /\ b.pending = r
  BY DEF AppRecord, Alike, MarkRollingBack
<1>3. LET b == MarkFailed(a) IN b \in AppRecord /\ Alike(b, a) /\ b.active = 0 /\ b.pending = 0
  BY DEF AppRecord, Alike, MarkFailed
<1>4. LET b == [a EXCEPT !.rev = @ + 1] IN
        b \in AppRecord /\ Alike(b, a) /\ b.active = a.active /\ b.pending = a.pending
  BY DEF AppRecord, Alike
<1> QED BY <1>1, <1>2, <1>3, <1>4

LEMMA ActivateFacts ==
  ASSUME NEW a \in AppRecord, NEW r \in Nat, NEW v \in Nat
  PROVE  LET b == Activate(a, r, v) IN
         /\ b \in AppRecord /\ b.active = 0 /\ b.pending = 0 /\ b.cur = r /\ b.prev = a.cur
         /\ b.applied = v /\ Range(b.rels) \subseteq Range(a.rels)
         /\ {r, a.cur} \cap Range(a.rels) \subseteq Range(b.rels)
<1> DEFINE c == [a EXCEPT !.active = 0, !.pending = 0, !.prev = a.cur, !.cur = r, !.applied = v]
<1>1. /\ c \in AppRecord /\ c.active = 0 /\ c.pending = 0 /\ c.cur = r /\ c.prev = a.cur
      /\ c.applied = v /\ c.rels = a.rels
  BY DEF AppRecord
<1>2. Activate(a, r, v) = [c EXCEPT !.rels = Trim(c)]
  BY DEF Activate
<1> HIDE DEF c
<1>3. a.rels \in Seq(Ops) /\ a.cur \in Nat
  BY DEF AppRecord
<1>4. /\ Trim(c) \in Seq(Ops) /\ Range(Trim(c)) \subseteq Range(a.rels)
      /\ {r, a.cur} \cap Range(a.rels) \subseteq Range(Trim(c))
  BY <1>1, <1>3, TrimFacts
<1>5. [c EXCEPT !.rels = Trim(c)] \in AppRecord
  BY <1>1, <1>4 DEF AppRecord
<1>6. LET d == [c EXCEPT !.rels = Trim(c)] IN
      /\ d.active = 0 /\ d.pending = 0 /\ d.cur = r /\ d.prev = a.cur /\ d.applied = v /\ d.rels = Trim(c)
  BY <1>1 DEF AppRecord
<1> QED BY <1>2, <1>4, <1>5, <1>6

LEMMA DeployedFacts ==
  ASSUME NEW a \in AppRecord, NEW o \in Ops
  PROVE  LET b == MarkDeployed(a, o) IN
         /\ b \in AppRecord /\ b.active = 0 /\ b.pending = 0 /\ b.cur = o /\ b.prev = a.cur
         /\ b.applied = a.rev /\ Range(b.rels) \subseteq Range(a.rels) \cup {o}
         /\ o \in Range(b.rels) /\ {a.cur} \cap Range(a.rels) \subseteq Range(b.rels)
<1> DEFINE c == [a EXCEPT !.rels = <<o>> \o @]
<1>1. <<o>> \o a.rels \in Seq(Ops) /\ Range(<<o>> \o a.rels) = {o} \cup Range(a.rels)
  <2>1. a.rels \in Seq(Ops) /\ <<o>> \in Seq(Ops) /\ Range(<<o>>) = {o}
    BY DEF AppRecord, Range
  <2>2. Range(<<o>> \o a.rels) = Range(<<o>>) \cup Range(a.rels)
    <3>1. \A s1 \in Seq(Ops), s2 \in Seq(Ops) : Range(s1 \o s2) = Range(s1) \cup Range(s2)
      BY RangeConcatenation
    <3> QED BY <2>1, <3>1
  <2> QED BY <2>1, <2>2, ConcatProperties
<1>2. c \in AppRecord /\ c.cur = a.cur /\ c.rels = <<o>> \o a.rels
  BY <1>1 DEF AppRecord
<1>3. MarkDeployed(a, o) = Activate(c, o, a.rev)
  BY DEF MarkDeployed
<1> HIDE DEF c
<1>4. a.rev \in Nat /\ o \in Nat
  BY ConstantsFacts DEF AppRecord
<1>5. LET b == Activate(c, o, a.rev) IN
      /\ b \in AppRecord /\ b.active = 0 /\ b.pending = 0 /\ b.cur = o /\ b.prev = c.cur
      /\ b.applied = a.rev /\ Range(b.rels) \subseteq Range(c.rels)
      /\ {o, c.cur} \cap Range(c.rels) \subseteq Range(b.rels)
  BY <1>2, <1>4, ActivateFacts
<1> QED BY <1>1, <1>2, <1>3, <1>5

-----------------------------------------------------------------------------
(* How the chains move.                                                    *)

LEMMA SameChains ==
  ASSUME UNCHANGED <<disk, mem, queue>>
  PROVE  \A f \in Files : /\ Chain(f)' = Chain(f)
                          /\ \A k \in Nat : From(f, k)' = From(f, k)
BY DEF Chain, Values, From

\* persist().
Persisted(f, w, v) ==
  /\ mem' = [mem EXCEPT ![f] = v] /\ disk' = disk
  /\ queue' = [queue EXCEPT ![f] = Append(@, [by |-> w, value |-> v])]
SavedChain(f, w, v) ==
  /\ mem'[f] = v /\ Len(queue[f]) \in Nat /\ Len(queue'[f]) = Len(queue[f]) + 1
  /\ \A k \in 1 .. Len(queue[f]) : queue'[f][k] = queue[f][k]
  /\ queue'[f][Len(queue[f]) + 1] = [by |-> w, value |-> v]
  /\ \A a \in Chain(f)' : a \in Chain(f) \/ a = v
  /\ v \in Chain(f)'
  /\ \A k \in 1 .. Len(queue[f]) : \A a \in From(f, k)' : a \in From(f, k) \/ a = v
  /\ \A k \in Nat : k = Len(queue[f]) + 1 => \A a \in From(f, k)' : a = v
  /\ \A g \in Files \ {f} : /\ mem'[g] = mem[g] /\ queue'[g] = queue[g] /\ Chain(g)' = Chain(g)
                            /\ \A k \in Nat : From(g, k)' = From(g, k)

LEMMA SavedFacts ==
  ASSUME Typed, NEW f \in Files, NEW w, NEW v, Persisted(f, w, v)
  PROVE  SavedChain(f, w, v)
<1>1. PICK S : queue[f] \in Seq(S)
  BY DEF Typed
<1>2. mem'[f] = v /\ disk' = disk /\ queue'[f] = Append(queue[f], [by |-> w, value |-> v])
      /\ \A g \in Files \ {f} : mem'[g] = mem[g] /\ queue'[g] = queue[g]
  BY DEF Persisted, Typed
<1>3. /\ Len(queue[f]) \in Nat /\ Len(queue'[f]) = Len(queue[f]) + 1
      /\ \A k \in 1 .. Len(queue[f]) : queue'[f][k] = queue[f][k]
      /\ queue'[f][Len(queue[f]) + 1] = [by |-> w, value |-> v]
  <2>1. queue[f] \in Seq(S \cup {[by |-> w, value |-> v]})
    BY <1>1, SeqMonotonic
  <2> QED BY <1>2, <2>1, AppendProperties, LenProperties
<1>4. \A k \in Nat : \A i \in k .. Len(queue'[f]) :
        i \in k .. Len(queue[f]) \/ i = Len(queue[f]) + 1
  BY <1>3
<1>5. [by |-> w, value |-> v].value = v
  OBVIOUS
<1>6. \A k \in 1 .. Len(queue[f]) + 1 : \A a \in From(f, k)' : a \in From(f, k) \/ a = v
  <2> SUFFICES ASSUME NEW k \in 1 .. Len(queue[f]) + 1, NEW a \in From(f, k)', a # v PROVE a \in From(f, k)
    OBVIOUS
  <2>1. PICK i \in k .. Len(queue'[f]) : a = queue'[f][i].value
    BY <1>2 DEF From
  <2>2. i \in k .. Len(queue[f]) /\ i \in 1 .. Len(queue[f])
    BY <1>3, <1>4, <1>5, <2>1
  <2> QED BY <1>3, <2>1, <2>2 DEF From
<1>7. \A a \in Chain(f)' : a \in Chain(f) \/ a = v
  <2> SUFFICES ASSUME NEW a \in Chain(f)', a # v PROVE a \in Chain(f)
    OBVIOUS
  <2>1. CASE a = disk[f]
    BY <2>1 DEF Chain
  <2>2. CASE a \in Values(f)'
    <3>1. PICK i \in 1 .. Len(queue'[f]) : a = queue'[f][i].value
      BY <2>2 DEF Values
    <3>2. i \in 1 .. Len(queue[f])
      BY <1>3, <1>4, <1>5, <3>1
    <3> QED BY <1>3, <3>1, <3>2 DEF Chain, Values
  <2> QED BY <1>2, <2>1, <2>2 DEF Chain
<1>8. ASSUME NEW k \in Nat, k = Len(queue[f]) + 1, NEW a \in From(f, k)' PROVE a = v
  <2>1. a = mem'[f] \/ \E i \in k .. Len(queue'[f]) : a = queue'[f][i].value
    BY DEF From
  <2>2. \A i \in k .. Len(queue'[f]) : i = Len(queue[f]) + 1
    BY <1>3, <1>8
  <2> QED BY <1>2, <1>3, <1>5, <2>1, <2>2
<1>9. v \in Chain(f)'
  BY <1>2 DEF Chain
<1>10. \A g \in Files \ {f} : Chain(g)' = Chain(g) /\ \A k \in Nat : From(g, k)' = From(g, k)
  BY <1>2 DEF Chain, Values, From
<1> QED BY <1>2, <1>3, <1>6, <1>7, <1>8, <1>9, <1>10 DEF SavedChain

\* The head of a chain leaves it, written or not.
Popped(f) ==
  /\ queue[f] # <<>> /\ mem' = mem /\ queue' = [queue EXCEPT ![f] = Tail(@)]
  /\ disk' \in {disk, [disk EXCEPT ![f] = Head(queue[f]).value]}
PoppedChain(f) ==
  /\ Len(queue[f]) \in Nat /\ Len(queue[f]) >= 1 /\ Len(queue'[f]) = Len(queue[f]) - 1
  /\ Head(queue[f]) = queue[f][1]
  /\ \A k \in 1 .. Len(queue'[f]) : queue'[f][k] = queue[f][k + 1] /\ k + 1 \in 1 .. Len(queue[f])
  /\ \A k \in 1 .. Len(queue'[f]) : From(f, k)' \subseteq From(f, k + 1)
  /\ \A g \in Files : Chain(g)' \subseteq Chain(g)
  /\ disk'[f] = Head(queue[f]).value => Chain(f)' \subseteq From(f, 1)
  /\ \A g \in Files \ {f} : /\ queue'[g] = queue[g] /\ Chain(g)' = Chain(g)
                            /\ \A k \in Nat : From(g, k)' = From(g, k)

LEMMA PoppedFacts ==
  ASSUME Typed, NEW f \in Files, Popped(f)
  PROVE  PoppedChain(f)
<1>1. PICK S : queue[f] \in Seq(S) /\ queue[f] # <<>>
  BY DEF Typed, Popped
<1>2. /\ mem' = mem /\ queue'[f] = Tail(queue[f])
      /\ \A g \in Files \ {f} : disk'[g] = disk[g] /\ queue'[g] = queue[g]
      /\ disk'[f] = disk[f] \/ disk'[f] = Head(queue[f]).value
  BY DEF Popped, Typed
<1>3. /\ Len(queue[f]) \in Nat /\ Len(queue[f]) >= 1 /\ Len(queue'[f]) = Len(queue[f]) - 1
      /\ Head(queue[f]) = queue[f][1]
      /\ \A k \in 1 .. Len(queue'[f]) : queue'[f][k] = queue[f][k + 1]
  <2>1. Len(queue[f]) \in Nat \ {0}
    BY <1>1, EmptySeq, LenProperties
  <2> QED BY <1>1, <1>2, <2>1, HeadTailProperties
<1>4. \A k \in 1 .. Len(queue'[f]) : k + 1 \in 1 .. Len(queue[f])
  BY <1>3
<1>5. ASSUME NEW k \in Nat, k >= 1, NEW i \in k .. Len(queue'[f])
      PROVE  queue'[f][i] = queue[f][i + 1] /\ i + 1 \in k + 1 .. Len(queue[f]) /\ i + 1 \in 1 .. Len(queue[f])
  BY <1>3, <1>5
<1>6. \A k \in 1 .. Len(queue'[f]) : From(f, k)' \subseteq From(f, k + 1)
  <2> SUFFICES ASSUME NEW k \in 1 .. Len(queue'[f]), NEW a \in From(f, k)' PROVE a \in From(f, k + 1)
    OBVIOUS
  <2>1. CASE a = mem'[f]
    BY <1>2, <2>1 DEF From
  <2>2. CASE \E i \in k .. Len(queue'[f]) : a = queue'[f][i].value
    <3>1. PICK i \in k .. Len(queue'[f]) : a = queue'[f][i].value
      BY <2>2
    <3>2. queue'[f][i] = queue[f][i + 1] /\ i + 1 \in k + 1 .. Len(queue[f])
      BY <1>5, <3>1
    <3> QED BY <3>1, <3>2 DEF From
  <2> QED BY <2>1, <2>2 DEF From
<1>7. Head(queue[f]).value \in From(f, 1) /\ From(f, 1) \subseteq Chain(f)
  <2>1. 1 \in 1 .. Len(queue[f])
    BY <1>3
  <2> QED BY <1>3, <2>1 DEF From, Chain, Values
<1>8. Values(f)' \cup {mem'[f]} \subseteq From(f, 1)
  <2> SUFFICES ASSUME NEW a \in Values(f)' \cup {mem'[f]} PROVE a \in From(f, 1)
    OBVIOUS
  <2>1. CASE a = mem'[f]
    BY <1>2, <2>1 DEF From
  <2>2. CASE a \in Values(f)'
    <3>1. PICK i \in 1 .. Len(queue'[f]) : a = queue'[f][i].value
      BY <2>2 DEF Values
    <3>2. queue'[f][i] = queue[f][i + 1] /\ i + 1 \in 1 .. Len(queue[f])
      BY <1>5, <3>1
    <3> QED BY <3>1, <3>2 DEF From
  <2> QED BY <2>1, <2>2
<1>9. disk'[f] = Head(queue[f]).value => Chain(f)' \subseteq From(f, 1)
  BY <1>2, <1>7, <1>8 DEF Chain
<1>10. Chain(f)' \subseteq Chain(f)
  BY <1>2, <1>7, <1>8 DEF Chain
<1>11. \A g \in Files \ {f} : Chain(g)' = Chain(g) /\ \A k \in Nat : From(g, k)' = From(g, k)
  BY <1>2 DEF Chain, Values, From
<1>12. \A g \in Files : Chain(g)' \subseteq Chain(g)
  BY <1>10, <1>11
<1> QED BY <1>2, <1>3, <1>4, <1>6, <1>9, <1>11, <1>12 DEF PoppedChain

Restarted ==
  /\ mem' = disk /\ disk' = disk
  /\ \A f \in Files : queue'[f] = <<>>
LEMMA RestartedFacts ==
  ASSUME Restarted
  PROVE  /\ \A f \in Files : Len(queue'[f]) = 0 /\ mem'[f] = disk[f] /\ disk'[f] = disk[f]
         /\ \A f \in Files : \A a \in Chain(f)' : a = disk[f]
         /\ \A f \in Files : disk[f] \in Chain(f) /\ disk[f] \in Chain(f)'
<1>1. \A f \in Files : Len(queue'[f]) = 0
  BY EmptySeq DEF Restarted
<1>2. \A f \in Files : Values(f)' = {}
  BY <1>1 DEF Values
<1> QED BY <1>1, <1>2 DEF Chain, Restarted

-----------------------------------------------------------------------------
(* What a part of the invariant needs of a step.                           *)

\* Jobs are kept.
Steady == \A o \in Known : o \in Known' /\ job'[o].pay = job[o].pay

LEMMA NamedStays ==
  ASSUME Typed, AllNamed, Steady, \A o \in Known : Accounted(o) => Accounted(o)',
         \A a \in Chain("app")' : a \in Chain("app") \/ Named(a)'
  PROVE  AllNamed'
<1>1. ASSUME NEW a \in Chain("app"), Named(a) PROVE Named(a)'
  <2>1. IF a.active = 0 THEN a.pending = 0 ELSE Marked(a)'
    BY <1>1 DEF Named, Marked, Steady
  <2>2. Range(a.rels) \subseteq Known'
    BY <1>1 DEF Named, Steady
  <2>3. a.cur \in Range(a.rels) => job'[a.cur].pay = job[a.cur].pay
    BY <1>1 DEF Named, Steady
  <2> QED BY <1>1, <2>1, <2>2, <2>3 DEF Named
<1> QED BY <1>1 DEF AllNamed

LEMMA PreparedStays ==
  ASSUME AllPrepared, Steady,
         \A o \in Known' : o \in Known \/ (job'[o].pay.kind # "none" /\ Prepared(job[o].pay)'),
         \A c \in Clients : \/ plan'[c] = plan[c] /\ (at'[c] = "asked" => at[c] = "asked")
                            \/ Prepared(plan[c])' /\ (at'[c] = "asked" => plan'[c].kind # "none")
  PROVE  AllPrepared'
<1>1. ASSUME NEW p, Prepared(p) PROVE Prepared(p)'
  BY <1>1 DEF Prepared, Steady
<1>2. \A o \in Known' : job'[o].pay.kind # "none" /\ Prepared(job[o].pay)'
  BY <1>1 DEF AllPrepared, Steady
<1>3. \A c \in Clients : Prepared(plan[c])' /\ (at'[c] = "asked" => plan'[c].kind # "none")
  BY <1>1 DEF AllPrepared
<1> QED BY <1>2, <1>3 DEF AllPrepared

\* The host changed nothing, and no release is started anew.
LEMMA BuiltStays ==
  ASSUME Typed, Built, Steady, host' = host,
         \A o \in Ops : job[o].st \notin {"absent", "queued", "cancelled"} =>
           job'[o].st \notin {"absent", "queued", "cancelled"},
         at'[Exec] = "claimed" =>
           (at[Exec] = "claimed" /\ on'[Exec] = on[Exec]) \/ job[on'[Exec]].st = "queued"
  PROVE  Built'
<1>1. Releases' = Releases /\ Releases \subseteq Ops
  BY ConstantsFacts DEF Releases, Typed, Host, Ops
<1>2. ASSUME NEW r \in Releases
      PROVE  /\ job'[r].st \notin {"absent", "queued", "cancelled"}
             /\ at'[Exec] = "claimed" => on'[Exec] # r
  BY <1>1 DEF Built
<1>3. host.cur # 0 => host.cur \in Known
  BY <1>1 DEF Built, Releases, Known, InState
<1>4. ~host.torn => IF host.cur = 0 THEN host.rev = 0 ELSE host.rev = job'[host.cur].pay.rev
  BY <1>3 DEF Built, Steady
<1> QED BY <1>1, <1>2, <1>4 DEF Built

\* The executor starts nothing.
Sober == at'[Exec] \in Early => at'[Exec] = at[Exec] /\ on'[Exec] = on[Exec]
\* Results may be journalled again, not successes.
Rejournalled ==
  unsettled \subseteq unsettled' /\ \A o \in unsettled' : job[o].st = "succeeded" => o \in unsettled

\* Host and jobs are as they were, and what is saved agrees with the host or
\* with what was there.
LEMMA StillAgrees ==
  ASSUME Typed, Effects, Agreement, UNCHANGED <<job, host, receipts, offline>>, Sober, Rejournalled,
         \A v \in Chain("app")' : \/ \E x \in Chain("app") : Alike(v, x)
                                  \/ (host.torn \/ Matches(v)) /\ InState({"running"}) = {},
         \A v \in Chain("env")' : \/ \E x \in Chain("env") : v.applied = x.applied /\ v.rel = x.rel
                                  \/ host.torn \/ Applied(v)
  PROVE  Effects' /\ Agreement'
<1>1. \A o \in Ops : Landed(o)' = Landed(o)
  BY DEF Landed, ReleaseOf
<1>2. \A o \in Ops : Doubtful(o) => Doubtful(o)'
  BY <1>1 DEF Doubtful, Sober, Early, Rejournalled
<1>3. ASSUME NEW K, Unrecorded(K) PROVE Unrecorded(K)'
  BY <1>2, <1>3 DEF Unrecorded
<1>4. Agreement'
  <2> SUFFICES ASSUME ~host.torn PROVE Agreement'
    BY DEF Agreement
  <2>1. ASSUME NEW v \in Chain("app")'
        PROVE  Matches(v)' \/ (v.cur = host'.cur /\ Matches(v)') \/ (v.cur = host'.prev /\ Unrecorded({"deploy", "rollback"})')
    <3>1. Matches(v)' = Matches(v)
      BY DEF Matches
    <3>2. CASE Matches(v)
      BY <3>1, <3>2
    <3>3. CASE \E x \in Chain("app") : Alike(v, x)
      <4>1. PICK x \in Chain("app") : Alike(v, x)
        BY <3>3
      <4>2. Matches(x) => Matches(v)
        BY <4>1 DEF Matches, Alike
      <4>3. Matches(x) \/ (x.cur = host.prev /\ Unrecorded({"deploy", "rollback"}))
        BY <4>1 DEF Agreement
      <4> QED BY <1>3, <3>1, <4>1, <4>2, <4>3 DEF Alike
    <3> QED BY <3>2, <3>3
  <2>2. ASSUME offline = {}, host.cur # 0, NEW v \in Chain("env")'
        PROVE  Applied(v)' \/ Unrecorded({"deploy", "rollback", "restart"})'
    <3>1. Applied(v)' = Applied(v)
      BY DEF Applied
    <3>2. CASE \E x \in Chain("env") : v.applied = x.applied /\ v.rel = x.rel
      BY <1>3, <2>2, <3>1, <3>2 DEF Agreement, Applied
    <3> QED BY <3>1, <3>2
  <2> QED BY <2>1, <2>2 DEF Agreement
<1>5. Effects'
  <2>0. \A o \in receipts' : /\ job'[o].st \in {"running", "succeeded"}
                             /\ at'[Exec] \in {"claimed", "failed"} => on'[Exec] # o
    BY DEF Effects, Sober, Early
  <2> SUFFICES ASSUME ~host.torn PROVE Effects'
    BY <2>0 DEF Effects
  <2>1. at'[Exec] = "succeeded" => Landed(on[Exec])'
    <3> SUFFICES ASSUME at'[Exec] = "succeeded" PROVE Landed(on[Exec])'
      OBVIOUS
    <3>1. at[Exec] = "succeeded" /\ on'[Exec] = on[Exec]
      BY DEF Sober, Early
    <3>2. Landed(on[Exec])
      BY <3>1 DEF Effects
    <3> QED BY <3>1, <3>2 DEF Landed, ReleaseOf
  <2>2. \A o \in unsettled' : job[o].st = "succeeded" => Landed(o)' /\ job[o].prev = host.prev
    BY <1>1 DEF Effects, Rejournalled, Typed, TypeOK
  <2>3. \A o \in receipts : job[o].st = "running" => Landed(o)'
    BY <1>1 DEF Effects, Typed, TypeOK
  <2>4. ASSUME NEW o \in Ops, job[o].st = "running", job[o].pay.kind # "restart",
               o \in receipts \/ (at'[Exec] = "succeeded" /\ on'[Exec] = o), NEW v \in Chain("app")'
        PROVE  v.cur = host.prev
    <3>1. o \in receipts \/ (at[Exec] = "succeeded" /\ on[Exec] = o)
      BY <2>4 DEF Sober, Early
    <3>2. PICK x \in Chain("app") : Alike(v, x)
      BY <2>4 DEF InState
    <3> QED BY <2>4, <3>1, <3>2 DEF Effects, Alike
  <2> QED BY <2>0, <2>1, <2>2, <2>3, <2>4 DEF Effects
<1> QED BY <1>4, <1>5

LEMMA AnswersStay ==
  ASSUME Answers, Steady, answered' = answered,
         \A o \in Known : job'[o].st \in Active => job[o].st \in Active,
         \A a \in Chain("app")' : a \in Chain("app") \/ \A o \in answered :
           job'[o].st \in Active /\ job'[o].pay.kind # "restart" => a.active = o
  PROVE  Answers'
<1> SUFFICES ASSUME NEW o \in answered
             PROVE  /\ o \in Known'
                    /\ job'[o].st \in Active /\ job'[o].pay.kind # "restart" =>
                         \A a \in Chain("app")' : a.active = o
  BY DEF Answers
<1>1. o \in Known /\ o \in Known' /\ job'[o].pay = job[o].pay
  BY DEF Answers, Steady
<1> QED BY <1>1 DEF Answers

LEMMA LaggingStays ==
  ASSUME Typed, AllNamed, Lagging, mem' = mem, \A f \in Files : Chain(f)' \subseteq Chain(f),
         \A o \in Known : job[o].st = "cancelled" => job'[o].st = "cancelled",
         at[Exec] \in Behind => at'[Exec] \in Behind,
         at[Exec] \in Overdue => at'[Exec] \in Overdue
  PROVE  Lagging'
<1>1. ASSUME NEW a \in Chain("app")', Lags(a)' PROVE at'[Exec] \in Behind
  <2>1. a \in Chain("app") /\ Named(a)
    BY <1>1, ConstantsFacts DEF AllNamed
  <2>2. Lags(a)
    BY <1>1, <2>1 DEF Lags, Named, Marked
  <2> QED BY <2>1, <2>2 DEF Lagging
<1>2. ASSUME NEW e \in Chain("env")' PROVE Follows(e)' \/ at'[Exec] \in Overdue
  <2>1. e \in Chain("env")
    BY <1>2, ConstantsFacts
  <2> QED BY <2>1 DEF Lagging, Follows
<1> QED BY <1>1, <1>2 DEF Lagging

LEMMA Renewed ==
  ASSUME Restarted
  PROVE  Lagging' /\ Waiters'
<1>1. Lagging'
  <2>1. \A a \in Chain("app")' : ~Lags(a)'
    BY RestartedFacts, ConstantsFacts DEF Lags
  <2>2. \A e \in Chain("env")' : Follows(e)'
    BY RestartedFacts, ConstantsFacts DEF Follows
  <2> QED BY <2>1, <2>2 DEF Lagging
<1>2. Waiters'
  <2>1. \A f \in Files : 1 .. Len(queue'[f]) = {}
    BY RestartedFacts
  <2> QED BY <2>1, ConstantsFacts DEF Waiters
<1> QED BY <1>1, <1>2

-----------------------------------------------------------------------------
(* Those who wait for a write.                                             *)

Waiting    == {"marking", "repeating", "activating", "settling", "failing", "applying"}
Patient(w) == at[w] \in Waiting => at'[w] = at[w] /\ on'[w] = on[w]
\* No operation that is known becomes active again.
Calm == \A o \in Known : job'[o].st \in Active => job[o].st \in Active

LEMMA WaitersPhases ==
  ASSUME Waiters, NEW f \in Files, NEW k \in 1 .. Len(queue[f])
  PROVE  LET w == queue[f][k].by IN
         /\ w \in Who => at[w] \in Waiting
         /\ w = Exec => at[w] \in (IF f = "app" THEN {"activating", "settling", "failing"} ELSE {"applying"})
         /\ w \in Clients => f = "app" /\ at[w] \in {"marking", "repeating"}
<1>1. CASE f = "app"
  <2>1. AppWaiter(k)
    BY <1>1 DEF Waiters
  <2> QED BY <1>1, <2>1 DEF AppWaiter, Waiting, Who
<1>2. CASE f = "env"
  <2>1. EnvWaiter(k)
    BY <1>2 DEF Waiters
  <2> QED BY <1>2, <2>1 DEF EnvWaiter, Waiting, Who
<1> QED BY <1>1, <1>2 DEF Files

\* An entry whose waiter goes on waiting, with what is written after it no less
\* than before.
LEMMA AppWaiterStays ==
  ASSUME Course, Waiters, Calm, NEW k \in 1 .. Len(queue["app"]), NEW j,
         queue'["app"][j].by = queue["app"][k].by, mem' = mem,
         queue["app"][k].by \in Who => Patient(queue["app"][k].by),
         From("app", j)' \subseteq From("app", k)
  PROVE  AppWaiter(j)'
<1> DEFINE w == queue["app"][k].by
<1>1. AppWaiter(k)
  BY DEF Waiters
<1>2. w \in Who => at[w] \in Waiting /\ at'[w] = at[w] /\ on'[w] = on[w]
  BY WaitersPhases, ConstantsFacts DEF Patient
<1>3. w = Exec => /\ at'[Exec] \in {"activating", "settling", "failing"}
                  /\ \A a \in From("app", j)' : a.active = 0 /\ a.cur = mem'["app"].cur
  BY <1>1, <1>2, ConstantsFacts DEF AppWaiter
<1>4. ASSUME w \in Clients
      PROVE  /\ at'[w] \in {"marking", "repeating"}
             /\ job'[on'[w]].st \in Active => \A a \in From("app", j)' : a.active = on'[w]
  <2>1. at[w] \in {"marking", "repeating"} /\ on'[w] = on[w] /\ at'[w] = at[w] /\ on[w] \in Known
    BY <1>1, <1>2, <1>4, ConstantsFacts DEF AppWaiter, Course
  <2>2. job'[on[w]].st \in Active => job[on[w]].st \in Active
    BY <2>1 DEF Calm
  <2> QED BY <1>1, <1>4, <2>1, <2>2 DEF AppWaiter
<1>5. queue'["app"][j].by = w
  OBVIOUS
<1> HIDE DEF w
<1> QED BY <1>3, <1>4, <1>5 DEF AppWaiter

LEMMA EnvWaiterStays ==
  ASSUME Waiters, NEW k \in 1 .. Len(queue["env"]), NEW j,
         queue'["env"][j].by = queue["env"][k].by, mem' = mem,
         queue["env"][k].by \in Who => Patient(queue["env"][k].by),
         From("env", j)' \subseteq From("env", k)
  PROVE  EnvWaiter(j)'
<1> DEFINE w == queue["env"][k].by
<1>1. EnvWaiter(k)
  BY DEF Waiters
<1>2. w = Exec => at[Exec] = "applying" /\ at'[Exec] = at[Exec]
  BY <1>1, ConstantsFacts DEF EnvWaiter, Patient, Waiting
<1> QED BY <1>1, <1>2 DEF EnvWaiter, Follows

LEMMA WaitersStay ==
  ASSUME Course, Waiters, Calm, UNCHANGED <<disk, mem, queue>>, \A w \in Who : Patient(w), Typed
  PROVE  Waiters'
<1>1. \A f \in Files : Len(queue[f]) \in Nat /\ \A k \in 1 .. Len(queue[f]) : k \in Nat
  BY LenProperties DEF Typed
<1>2. \A k \in 1 .. Len(queue["app"]) : AppWaiter(k)'
  BY <1>1, SameChains, AppWaiterStays, ConstantsFacts
<1>3. \A k \in 1 .. Len(queue["env"]) : EnvWaiter(k)'
  BY <1>1, SameChains, EnvWaiterStays, ConstantsFacts
<1> QED BY <1>2, <1>3 DEF Waiters

LEMMA WaitersPopped ==
  ASSUME Course, Waiters, Calm, Typed, NEW f \in Files, Popped(f),
         \A w \in Who \ {Head(queue[f]).by} : Patient(w)
  PROVE  Waiters'
<1>1. PoppedChain(f) /\ mem' = mem
  BY PoppedFacts DEF Popped
<1>2. \A g \in Files : \A k \in 1 .. Len(queue'[g]) :
        g # f => k \in 1 .. Len(queue[g]) /\ k \in Nat /\ queue'[g][k] = queue[g][k] /\ From(g, k)' = From(g, k)
  BY <1>1, LenProperties DEF PoppedChain, Typed
<1>3. \A k \in 1 .. Len(queue'[f]) :
        /\ queue'[f][k] = queue[f][k + 1] /\ k + 1 \in 1 .. Len(queue[f]) /\ k + 1 # 1
        /\ From(f, k)' \subseteq From(f, k + 1)
  BY <1>1 DEF PoppedChain
<1>4. 1 \in 1 .. Len(queue[f]) /\ Head(queue[f]).by = queue[f][1].by
  BY <1>1 DEF PoppedChain
<1>5. \A k \in 1 .. Len(queue'[f]) : queue[f][k + 1].by \in Who => Patient(queue[f][k + 1].by)
  <2> SUFFICES ASSUME NEW k \in 1 .. Len(queue'[f]), queue[f][k + 1].by \in Who
               PROVE  Patient(queue[f][k + 1].by)
    OBVIOUS
  <2>1. queue[f][k + 1].by # Nobody
    BY ConstantsFacts
  <2>2. k + 1 \in 1 .. Len(queue[f]) /\ k + 1 # 1
    BY <1>3
  <2>3. \A i, m \in 1 .. Len(queue[f]) :
          queue[f][i].by = queue[f][m].by /\ queue[f][m].by # Nobody => i = m
    BY DEF Waiters
  <2>4. queue[f][k + 1].by # queue[f][1].by
    BY <1>4, <2>1, <2>2, <2>3
  <2> QED BY <1>4, <2>4
<1>6. \A g \in Files \ {f} : \A k \in 1 .. Len(queue[g]) : queue[g][k].by \in Who => Patient(queue[g][k].by)
  <2> SUFFICES ASSUME NEW g \in Files \ {f}, NEW k \in 1 .. Len(queue[g]), queue[g][k].by \in Who
               PROVE  Patient(queue[g][k].by)
    OBVIOUS
  <2>1. queue[g][k].by # queue[f][1].by
    <3>1. LET w == queue[g][k].by IN
            /\ w = Exec => at[w] \in (IF g = "app" THEN {"activating", "settling", "failing"} ELSE {"applying"})
            /\ w \in Clients => g = "app"
      BY WaitersPhases
    <3>2. LET w == queue[f][1].by IN
            /\ w = Exec => at[w] \in (IF f = "app" THEN {"activating", "settling", "failing"} ELSE {"applying"})
            /\ w \in Clients => f = "app"
      BY <1>4, WaitersPhases
    <3> QED BY <3>1, <3>2 DEF Files, Who
  <2> QED BY <1>4, <2>1
<1>7. ASSUME NEW k \in 1 .. Len(queue'["app"]) PROVE AppWaiter(k)'
  <2>1. CASE f = "app"
    BY <1>1, <1>3, <1>5, <2>1, AppWaiterStays
  <2>2. CASE f # "app"
    BY <1>1, <1>2, <1>6, <2>2, AppWaiterStays, ConstantsFacts
  <2> QED BY <2>1, <2>2
<1>8. ASSUME NEW k \in 1 .. Len(queue'["env"]) PROVE EnvWaiter(k)'
  <2>1. CASE f = "env"
    BY <1>1, <1>3, <1>5, <2>1, EnvWaiterStays
  <2>2. CASE f # "env"
    BY <1>1, <1>2, <1>6, <2>2, EnvWaiterStays, ConstantsFacts
  <2> QED BY <2>1, <2>2
<1>9. ASSUME NEW g \in Files, NEW i \in 1 .. Len(queue'[g]), NEW k \in 1 .. Len(queue'[g]),
             queue'[g][i].by = queue'[g][k].by, queue'[g][k].by # Nobody
      PROVE  i = k
  <2>1. CASE g = f
    <3>1. /\ i + 1 \in 1 .. Len(queue[f]) /\ k + 1 \in 1 .. Len(queue[f])
          /\ queue[f][i + 1].by = queue[f][k + 1].by /\ queue[f][k + 1].by # Nobody
      BY <1>3, <1>9, <2>1
    <3>2. i + 1 = k + 1
      BY <3>1 DEF Waiters
    <3>3. i \in Int /\ k \in Int
      OBVIOUS
    <3> QED BY <3>2, <3>3
  <2>2. CASE g # f
    BY <1>2, <1>9, <2>2 DEF Waiters
  <2> QED BY <2>1, <2>2
<1> QED BY <1>7, <1>8, <1>9 DEF Waiters

\* A new snapshot of the application, last in its chain.
LEMMA WaitersSavedApp ==
  ASSUME Course, Waiters, Calm, Typed, NEW w \in Who \cup {Nobody}, NEW v, Persisted("app", w, v),
         \A x \in Who \ {w} : Patient(x), w \in Who => at[w] \notin Waiting,
         w = Exec => at'[Exec] \in {"activating", "settling", "failing"} /\ v.active = 0,
         w \in Clients => at'[w] \in {"marking", "repeating"} /\ v.active = on'[w],
         w # Exec /\ at[Exec] \in Waiting => v.active = 0 /\ v.cur = mem["app"].cur,
         mem["app"].active \in Known /\ job'[mem["app"].active].st \in Active =>
           v.active = mem["app"].active
  PROVE  Waiters'
<1> DEFINE n == Len(queue["app"])
<1>1. SavedChain("app", w, v)
  BY SavedFacts, ConstantsFacts
<1>2. /\ n \in Nat /\ Len(queue'["app"]) = n + 1 /\ mem'["app"] = v
      /\ \A k \in 1 .. n : queue'["app"][k] = queue["app"][k]
      /\ queue'["app"][n + 1].by = w
      /\ \A k \in 1 .. n : \A a \in From("app", k)' : a \in From("app", k) \/ a = v
      /\ mem'["env"] = mem["env"] /\ queue'["env"] = queue["env"]
      /\ \A k \in Nat : From("env", k)' = From("env", k)
  BY <1>1, ConstantsFacts DEF SavedChain
<1>3. \A k \in Nat : k = n + 1 => \A a \in From("app", k)' : a = v
  BY <1>1 DEF SavedChain
<1> HIDE DEF n
<1>4. \A k \in 1 .. n + 1 : k \in 1 .. n \/ k = n + 1
  BY <1>2
<1>5. \A g \in Files : \A k \in 1 .. Len(queue[g]) : queue[g][k].by \in Who =>
        queue[g][k].by # w /\ at[queue[g][k].by] \in Waiting
  BY WaitersPhases
<1>6. ASSUME NEW k \in 1 .. n PROVE AppWaiter(k)'
  <2>1. AppWaiter(k) /\ queue'["app"][k].by = queue["app"][k].by
    BY <1>2 DEF Waiters, n
  <2>2. ASSUME queue["app"][k].by = Exec
        PROVE  /\ at'[Exec] \in {"activating", "settling", "failing"}
               /\ \A a \in From("app", k)' : a.active = 0 /\ a.cur = v.cur
    <3>1. w # Exec /\ at[Exec] \in Waiting /\ Patient(Exec)
      BY <1>5, <2>2, ConstantsFacts DEF n
    <3> QED BY <1>2, <2>1, <2>2, <3>1, ConstantsFacts DEF AppWaiter, Patient
  <2>3. ASSUME NEW c \in Clients, queue["app"][k].by = c
        PROVE  /\ at'[c] \in {"marking", "repeating"}
               /\ job'[on'[c]].st \in Active => \A a \in From("app", k)' : a.active = on'[c]
    <3>1. w # c /\ Patient(c) /\ at[c] \in {"marking", "repeating"} /\ on[c] \in Known
      BY <1>5, <2>1, <2>3, ConstantsFacts DEF n, AppWaiter, Course
    <3>2. at'[c] = at[c] /\ on'[c] = on[c]
      BY <3>1 DEF Patient, Waiting
    <3>3. job'[on[c]].st \in Active => job[on[c]].st \in Active
      BY <3>1 DEF Calm
    <3>4. job'[on[c]].st \in Active => v.active = on[c] /\ \A a \in From("app", k) : a.active = on[c]
      <4>1. job[on[c]].st \in Active => \A a \in From("app", k) : a.active = on[c]
        BY <2>1, <2>3 DEF AppWaiter
      <4>2. mem["app"] \in From("app", k)
        BY DEF From
      <4> QED BY <3>1, <3>3, <4>1, <4>2
    <3> QED BY <1>2, <3>1, <3>2, <3>3, <3>4
  <2> QED BY <1>2, <2>1, <2>2, <2>3 DEF AppWaiter
<1>7. ASSUME NEW k \in 1 .. n + 1, k = n + 1 PROVE AppWaiter(k)'
  <2>1. queue'["app"][k].by = w /\ mem'["app"] = v /\ \A a \in From("app", k)' : a = v
    BY <1>2, <1>3, <1>7
  <2> QED BY <2>1 DEF AppWaiter
<1>8. ASSUME NEW k \in 1 .. Len(queue'["env"]) PROVE EnvWaiter(k)'
  <2>1. k \in 1 .. Len(queue["env"]) /\ k \in Nat /\ EnvWaiter(k)
    BY <1>2, LenProperties DEF Waiters, Typed
  <2>2. queue["env"][k].by = Exec => at[Exec] = "applying" /\ at'[Exec] = "applying"
    <3> SUFFICES ASSUME queue["env"][k].by = Exec PROVE at[Exec] = "applying" /\ at'[Exec] = "applying"
      OBVIOUS
    <3>1. w # Exec /\ at[Exec] = "applying"
      BY <1>5, <2>1, ConstantsFacts DEF EnvWaiter
    <3> QED BY <3>1, ConstantsFacts DEF Patient, Waiting
  <2> QED BY <1>2, <2>1, <2>2 DEF EnvWaiter, Follows
<1>9. \A k \in 1 .. n + 1 : AppWaiter(k)'
  BY <1>4, <1>6, <1>7
<1>10. ASSUME NEW g \in Files, NEW i \in 1 .. Len(queue'[g]), NEW k \in 1 .. Len(queue'[g]),
             queue'[g][i].by = queue'[g][k].by, queue'[g][k].by # Nobody
      PROVE  i = k
  <2>1. CASE g = "env"
    BY <1>2, <1>10, <2>1 DEF Waiters
  <2>2. CASE g = "app"
    <3>1. i \in 1 .. n /\ k \in 1 .. n => i = k
      <4>1. i \in 1 .. n /\ k \in 1 .. n =>
              queue["app"][i].by = queue["app"][k].by /\ queue["app"][k].by # Nobody
        BY <1>2, <1>10, <2>2
      <4> QED BY <4>1, ConstantsFacts DEF Waiters, n
    <3>2. \A j \in 1 .. n : queue'["app"][j].by # w \/ w = Nobody
      BY <1>2, <1>5, ConstantsFacts DEF n
    <3> QED BY <1>2, <1>4, <1>10, <2>2, <3>1, <3>2
  <2> QED BY <2>1, <2>2, ConstantsFacts
<1> QED BY <1>2, <1>8, <1>9, <1>10 DEF Waiters

\* And one of the environment.
LEMMA WaitersSavedEnv ==
  ASSUME Course, Waiters, Calm, Typed, NEW w \in {Exec, Nobody}, NEW v, Persisted("env", w, v),
         \A x \in Who \ {w} : Patient(x), w \in Who => at[w] \notin Waiting,
         w = Exec => at'[Exec] = "applying",
         w # Exec => v.applied = mem["env"].applied /\ v.rel = mem["env"].rel
  PROVE  Waiters'
<1> DEFINE n == Len(queue["env"])
<1>1. SavedChain("env", w, v)
  BY SavedFacts, ConstantsFacts
<1>2. /\ n \in Nat /\ Len(queue'["env"]) = n + 1 /\ mem'["env"] = v
      /\ \A k \in 1 .. n : queue'["env"][k] = queue["env"][k]
      /\ queue'["env"][n + 1].by = w
      /\ \A k \in 1 .. n : \A a \in From("env", k)' : a \in From("env", k) \/ a = v
      /\ mem'["app"] = mem["app"] /\ queue'["app"] = queue["app"]
      /\ \A k \in Nat : From("app", k)' = From("app", k)
  BY <1>1, ConstantsFacts DEF SavedChain
<1>3. \A k \in Nat : k = n + 1 => \A a \in From("env", k)' : a = v
  BY <1>1 DEF SavedChain
<1> HIDE DEF n
<1>4. \A k \in 1 .. n + 1 : k \in 1 .. n \/ k = n + 1
  BY <1>2
<1>5. \A g \in Files : \A k \in 1 .. Len(queue[g]) : queue[g][k].by \in Who =>
        queue[g][k].by # w /\ at[queue[g][k].by] \in Waiting
  BY WaitersPhases
<1>6. ASSUME NEW k \in 1 .. n PROVE EnvWaiter(k)'
  <2>1. EnvWaiter(k) /\ queue'["env"][k].by = queue["env"][k].by
    BY <1>2 DEF Waiters, n
  <2>2. ASSUME queue["env"][k].by = Exec
        PROVE  at'[Exec] = "applying" /\ \A e \in From("env", k)' : Follows(e)'
    <3>1. w # Exec /\ at[Exec] = "applying" /\ at'[Exec] = "applying"
      BY <1>5, <2>1, <2>2, ConstantsFacts DEF n, EnvWaiter, Patient, Waiting
    <3>2. \A e \in From("env", k) : Follows(e)
      BY <2>1, <2>2 DEF EnvWaiter
    <3> QED BY <1>2, <3>1, <3>2 DEF Follows
  <2> QED BY <1>2, <2>1, <2>2 DEF EnvWaiter
<1>7. ASSUME NEW k \in 1 .. n + 1, k = n + 1 PROVE EnvWaiter(k)'
  <2>1. queue'["env"][k].by = w /\ mem'["env"] = v /\ \A a \in From("env", k)' : a = v
    BY <1>2, <1>3, <1>7
  <2> QED BY <2>1, ConstantsFacts DEF EnvWaiter, Follows
<1>8. ASSUME NEW k \in 1 .. Len(queue'["app"]) PROVE AppWaiter(k)'
  <2>1. k \in 1 .. Len(queue["app"]) /\ k \in Nat /\ AppWaiter(k)
    BY <1>2, LenProperties DEF Waiters, Typed
  <2>2. queue["app"][k].by = Exec =>
          at[Exec] \in {"activating", "settling", "failing"} /\ at'[Exec] = at[Exec]
    <3> SUFFICES ASSUME queue["app"][k].by = Exec
                 PROVE  at[Exec] \in {"activating", "settling", "failing"} /\ at'[Exec] = at[Exec]
      OBVIOUS
    <3>1. w # Exec /\ at[Exec] \in {"activating", "settling", "failing"}
      BY <1>5, <2>1, ConstantsFacts DEF AppWaiter
    <3> QED BY <3>1, ConstantsFacts DEF Patient, Waiting
  <2>3. ASSUME NEW c \in Clients, queue["app"][k].by = c
        PROVE  /\ at'[c] \in {"marking", "repeating"}
               /\ job'[on'[c]].st \in Active => \A a \in From("app", k)' : a.active = on'[c]
    <3>1. w # c /\ Patient(c) /\ at[c] \in {"marking", "repeating"} /\ on[c] \in Known
      BY <1>5, <2>1, <2>3, ConstantsFacts DEF AppWaiter, Course
    <3>2. at'[c] = at[c] /\ on'[c] = on[c]
      BY <3>1 DEF Patient, Waiting
    <3>3. job'[on[c]].st \in Active => job[on[c]].st \in Active
      BY <3>1 DEF Calm
    <3> QED BY <1>2, <2>1, <2>3, <3>1, <3>2, <3>3 DEF AppWaiter
  <2>4. From("app", k)' = From("app", k)
    BY <1>2, <2>1
  <2> QED BY <1>2, <2>1, <2>2, <2>3, <2>4 DEF AppWaiter
<1>9. \A k \in 1 .. n + 1 : EnvWaiter(k)'
  BY <1>4, <1>6, <1>7
<1>10. ASSUME NEW g \in Files, NEW i \in 1 .. Len(queue'[g]), NEW k \in 1 .. Len(queue'[g]),
             queue'[g][i].by = queue'[g][k].by, queue'[g][k].by # Nobody
      PROVE  i = k
  <2>1. CASE g = "app"
    BY <1>2, <1>10, <2>1 DEF Waiters
  <2>2. CASE g = "env"
    <3>1. i \in 1 .. n /\ k \in 1 .. n => i = k
      BY <1>2, <1>10, <2>2 DEF Waiters, n
    <3>2. \A j \in 1 .. n : queue'["env"][j].by # w \/ w = Nobody
      BY <1>2, <1>5, ConstantsFacts DEF n
    <3> QED BY <1>2, <1>4, <1>10, <2>2, <3>1, <3>2
  <2> QED BY <2>1, <2>2, ConstantsFacts
<1> QED BY <1>2, <1>8, <1>9, <1>10 DEF Waiters

LEMMA LaggingSavedApp ==
  ASSUME Typed, AllNamed, Lagging, NEW w, NEW v, Persisted("app", w, v),
         \/ at'[Exec] \in Behind
         \/ /\ at'[Exec] = at[Exec] /\ v.cur = mem["app"].cur
            /\ mem["app"].active \in {0, v.active} \/ job'[mem["app"].active].st = "cancelled",
         at[Exec] \in Overdue => at'[Exec] \in Overdue,
         \A o \in Known : job[o].st = "cancelled" => job'[o].st = "cancelled"
  PROVE  Lagging'
<1>1. /\ mem'["app"] = v /\ mem'["env"] = mem["env"] /\ Chain("env")' = Chain("env")
      /\ \A a \in Chain("app")' : a \in Chain("app") \/ a = v
  <2>1. SavedChain("app", w, v)
    BY SavedFacts, ConstantsFacts
  <2>2. "env" \in Files \ {"app"}
    BY ConstantsFacts
  <2> QED BY <2>1, <2>2 DEF SavedChain
<1>2. ASSUME NEW a \in Chain("app")', Lags(a)', at'[Exec] \notin Behind PROVE FALSE
  <2>1. a # v
    BY <1>1, <1>2 DEF Lags
  <2>2. a \in Chain("app") /\ Named(a)
    BY <1>1, <2>1 DEF AllNamed
  <2>3. a.active = 0 \/ a.active \in Known
    BY <2>2 DEF Named, Marked
  <2>4. ~Lags(a)
    BY <1>2, <2>2 DEF Lagging
  <2>5. a.cur = mem["app"].cur /\ (a.active \in {0, mem["app"].active} \/ job[a.active].st = "cancelled")
    BY <2>4 DEF Lags
  <2>6. a.active \in {0, v.active} \/ job'[a.active].st = "cancelled"
    BY <1>2, <2>3, <2>5
  <2> QED BY <1>1, <1>2, <2>5, <2>6 DEF Lags
<1>3. ASSUME NEW e \in Chain("env")' PROVE Follows(e)' \/ at'[Exec] \in Overdue
  <2>1. e \in Chain("env")
    BY <1>1
  <2>2. Follows(e) => Follows(e)'
    BY <1>1 DEF Follows
  <2> QED BY <2>1, <2>2 DEF Lagging
<1> QED BY <1>2, <1>3 DEF Lagging

LEMMA LaggingSavedEnv ==
  ASSUME Typed, Lagging, NEW w, NEW v, Persisted("env", w, v), job' = job,
         \/ at'[Exec] = "applying"
         \/ at'[Exec] = at[Exec] /\ v.applied = mem["env"].applied /\ v.rel = mem["env"].rel,
         at[Exec] \in Behind => at'[Exec] \in Behind
  PROVE  Lagging'
<1>1. /\ mem'["env"] = v /\ mem'["app"] = mem["app"] /\ Chain("app")' = Chain("app")
      /\ \A a \in Chain("env")' : a \in Chain("env") \/ a = v
  <2>1. SavedChain("env", w, v)
    BY SavedFacts, ConstantsFacts
  <2>2. "app" \in Files \ {"env"}
    BY ConstantsFacts
  <2> QED BY <2>1, <2>2 DEF SavedChain
<1>2. ASSUME NEW a \in Chain("app")', Lags(a)' PROVE at'[Exec] \in Behind
  <2>1. a \in Chain("app")
    BY <1>1
  <2>2. Lags(a)
    BY <1>1, <1>2 DEF Lags
  <2> QED BY <2>1, <2>2 DEF Lagging
<1>3. ASSUME NEW e \in Chain("env")', at'[Exec] \notin Overdue PROVE Follows(e)'
  <2>1. CASE e = v
    BY <1>1, <2>1 DEF Follows
  <2>2. CASE e \in Chain("env")
    BY <1>1, <1>3, <2>2 DEF Lagging, Follows, Overdue
  <2> QED BY <1>1, <2>1, <2>2
<1> QED BY <1>2, <1>3 DEF Lagging

-----------------------------------------------------------------------------
(* Types.                                                                  *)

Phases == {"idle", "asked", "marking", "repeating", "undoing", "claimed", "succeeded", "failed",
           "terminal", "activating", "environment", "applying", "settling",
           "reconciled", "unreconciled", "failing", "lost", "halted"}

LEMMA WaitTyped ==
  ASSUME Typed, NEW w \in Who, NEW p \in Phases, NEW o \in 0 .. MaxOps, Wait(w, p, o)
  PROVE  /\ at' \in [Who -> Phases] /\ on' \in [Who -> 0 .. MaxOps]
         /\ at'[w] = p /\ on'[w] = o /\ \A x \in Who \ {w} : at'[x] = at[x] /\ on'[x] = on[x]
BY DEF Wait, Typed, TypeOK, Phases

ChainsTyped ==
  /\ \A s \in {disk, mem} : s.app \in AppRecord /\ s.env \in EnvRecord
  /\ disk \in [Files -> AppRecord \cup EnvRecord] /\ mem \in [Files -> AppRecord \cup EnvRecord]
  /\ queue \in [Files -> Seq(Snapshot(AppRecord \cup EnvRecord))]
  /\ queue["app"] \in Seq(Snapshot(AppRecord)) /\ queue["env"] \in Seq(Snapshot(EnvRecord))

LEMMA SavedTyped ==
  ASSUME Typed, NEW f \in Files, NEW w \in Who \cup {Nobody}, NEW v, Persisted(f, w, v),
         v \in IF f = "app" THEN AppRecord ELSE EnvRecord
  PROVE  ChainsTyped'
<1> DEFINE e == [by |-> w, value |-> v]
<1>1. ChainsTyped
  BY DEF Typed, TypeOK, ChainsTyped
<1>2. /\ f = "app" => e \in Snapshot(AppRecord)
      /\ f = "env" => e \in Snapshot(EnvRecord)
      /\ e \in Snapshot(AppRecord \cup EnvRecord)
  BY ConstantsFacts DEF Snapshot
<1> HIDE DEF e
<1>3. /\ mem' = [mem EXCEPT ![f] = v] /\ disk' = disk
      /\ queue' = [queue EXCEPT ![f] = Append(queue[f], e)]
  BY DEF Persisted, e
<1>4. /\ Append(queue[f], e) \in Seq(Snapshot(AppRecord \cup EnvRecord))
      /\ f = "app" => Append(queue[f], e) \in Seq(Snapshot(AppRecord))
      /\ f = "env" => Append(queue[f], e) \in Seq(Snapshot(EnvRecord))
  <2>1. queue[f] \in Seq(Snapshot(AppRecord \cup EnvRecord))
    BY <1>1 DEF ChainsTyped
  <2> QED BY <1>1, <1>2, <2>1, AppendProperties DEF ChainsTyped
<1>5. /\ queue' \in [Files -> Seq(Snapshot(AppRecord \cup EnvRecord))]
      /\ queue'["app"] \in Seq(Snapshot(AppRecord)) /\ queue'["env"] \in Seq(Snapshot(EnvRecord))
  BY <1>1, <1>3, <1>4, ConstantsFacts DEF ChainsTyped
<1>6. mem' \in [Files -> AppRecord \cup EnvRecord]
  BY <1>1, <1>3, ConstantsFacts DEF ChainsTyped
<1>7. mem'["app"] \in AppRecord /\ mem'["env"] \in EnvRecord
  BY <1>1, <1>3, ConstantsFacts DEF ChainsTyped
<1> QED BY <1>1, <1>3, <1>5, <1>6, <1>7 DEF ChainsTyped

LEMMA PoppedTyped ==
  ASSUME Typed, NEW f \in Files, Popped(f)
  PROVE  ChainsTyped'
<1>1. ChainsTyped
  BY DEF Typed, TypeOK, ChainsTyped
<1>2. /\ Tail(queue[f]) \in Seq(Snapshot(AppRecord \cup EnvRecord))
      /\ f = "app" => Tail(queue[f]) \in Seq(Snapshot(AppRecord))
      /\ f = "env" => Tail(queue[f]) \in Seq(Snapshot(EnvRecord))
      /\ Head(queue[f]) \in Snapshot(IF f = "app" THEN AppRecord ELSE EnvRecord)
  <2>1. queue[f] # <<>> /\ queue[f] \in Seq(Snapshot(AppRecord \cup EnvRecord))
    BY <1>1 DEF ChainsTyped, Popped
  <2>2. queue[f] \in Seq(Snapshot(IF f = "app" THEN AppRecord ELSE EnvRecord))
    BY <1>1, ConstantsFacts DEF ChainsTyped
  <2>3. \A S : \A s \in Seq(S) : s # <<>> => Head(s) \in S /\ Tail(s) \in Seq(S)
    BY HeadTailProperties
  <2> QED BY <2>1, <2>2, <2>3
<1>3. Head(queue[f]).value \in IF f = "app" THEN AppRecord ELSE EnvRecord
  BY <1>2 DEF Snapshot
<1>4. /\ queue' \in [Files -> Seq(Snapshot(AppRecord \cup EnvRecord))]
      /\ queue'["app"] \in Seq(Snapshot(AppRecord)) /\ queue'["env"] \in Seq(Snapshot(EnvRecord))
  BY <1>1, <1>2, ConstantsFacts DEF ChainsTyped, Popped
<1>5. /\ disk' \in [Files -> AppRecord \cup EnvRecord]
      /\ disk'["app"] \in AppRecord /\ disk'["env"] \in EnvRecord
  BY <1>1, <1>3, ConstantsFacts DEF ChainsTyped, Popped
<1> QED BY <1>1, <1>4, <1>5 DEF ChainsTyped, Popped

-----------------------------------------------------------------------------
(* Crash, exit and acknowledgement.                                        *)

LEMMA VanishFacts ==
  ASSUME Typed, Vanish, disk' = disk
  PROVE  /\ Restarted /\ ChainsTyped' /\ at'[Exec] = "idle"
         /\ at' \in [Who -> Phases] /\ on' \in [Who -> 0 .. MaxOps] /\ plan' \in [Clients -> Payload]
         /\ broken' \in [Files -> BOOLEAN] /\ proc' = "down"
         /\ \A w \in Who : at'[w] = "idle"
         /\ \A c \in Clients : plan'[c] = NoPayload
         /\ \A f \in Files : queue'[f] = <<>> /\ mem'[f] = disk'[f] /\ Chain(f)' \subseteq Chain(f)
<1>1. Restarted
  BY DEF Vanish, Restarted
<1>2. ChainsTyped'
  <2>1. \A S : queue' \in [Files -> Seq(S)] /\ queue'["app"] \in Seq(S) /\ queue'["env"] \in Seq(S)
    <3>1. \A S : <<>> \in Seq(S)
      BY EmptySeq
    <3> QED BY <3>1, ConstantsFacts DEF Vanish
  <2> QED BY <2>1 DEF Vanish, ChainsTyped, Typed, TypeOK
<1>3. \A f \in Files : Chain(f)' \subseteq Chain(f)
  BY <1>1, RestartedFacts
<1>4. /\ at' \in [Who -> Phases] /\ on' \in [Who -> 0 .. MaxOps] /\ plan' \in [Clients -> Payload]
      /\ broken' \in [Files -> BOOLEAN] /\ proc' = "down"
      /\ \A w \in Who : at'[w] = "idle"
      /\ \A c \in Clients : plan'[c] = NoPayload
  BY ConstantsFacts DEF Vanish, Phases
<1> QED BY <1>1, <1>2, <1>3, <1>4, ConstantsFacts DEF Vanish

\* What is the same of every step that loses the memory.
LEMMA VanishKeeps ==
  ASSUME IndInv, Vanish, UNCHANGED <<files, host, receipts, history>>, disturbed' \in Nat
  PROVE  IndInv'
<1> USE DEF IndInv, files, history
<1>1. /\ Restarted /\ ChainsTyped' /\ at'[Exec] = "idle"
      /\ at' \in [Who -> Phases] /\ on' \in [Who -> 0 .. MaxOps] /\ plan' \in [Clients -> Payload]
      /\ broken' \in [Files -> BOOLEAN] /\ proc' = "down"
      /\ \A w \in Who : at'[w] = "idle"
      /\ \A c \in Clients : plan'[c] = NoPayload
      /\ \A f \in Files : queue'[f] = <<>> /\ mem'[f] = disk'[f] /\ Chain(f)' \subseteq Chain(f)
  BY VanishFacts
<1>2. Typed'
  BY <1>1 DEF Typed, TypeOK, ChainsTyped, Phases
<1>3. Course'
  <2>1. \A c \in Clients : at'[c] = "idle"
    BY <1>1, ConstantsFacts
  <2> QED BY <1>1, <2>1 DEF Course, Early, Late, InState
<1>4. Steady /\ Sober /\ Rejournalled
  BY <1>1 DEF Steady, Sober, Early, Rejournalled, Known, InState
<1>5. AllNamed'
  BY <1>1, <1>4, NamedStays, ConstantsFacts DEF Accounted
<1>6. AllPrepared'
  BY <1>1, <1>4, PreparedStays, ConstantsFacts DEF Known, InState, Prepared
<1>7. Built'
  BY <1>1, <1>4, BuiltStays
<1>8. Waiters' /\ Lagging'
  BY <1>1, Renewed
<1>9. Effects' /\ Agreement'
  BY <1>1, <1>4, StillAgrees, ConstantsFacts DEF Alike
<1>10. Recorded'
  BY <1>1 DEF Recorded
<1>11. Answers'
  BY <1>1, <1>4, AnswersStay, ConstantsFacts
<1> QED BY <1>2, <1>3, <1>5, <1>6, <1>7, <1>8, <1>9, <1>10, <1>11

LEMMA CrashKeeps == ASSUME IndInv, Crash PROVE IndInv'
<1>1. disturbed' \in Nat
  BY DEF Crash, Disturb, IndInv, Typed
<1>2. Vanish /\ UNCHANGED <<files, host, receipts, history>>
  BY DEF Crash
<1> QED BY <1>1, <1>2, VanishKeeps

LEMMA StopHaltedKeeps == ASSUME IndInv, StopHalted PROVE IndInv'
<1>1. disturbed' \in Nat
  BY DEF StopHalted, IndInv, Typed
<1>2. Vanish /\ UNCHANGED <<files, host, receipts, history>>
  BY DEF StopHalted
<1> QED BY <1>1, <1>2, VanishKeeps

\* The result that is acknowledged has been recorded, and nothing is in doubt.
LEMMA AcknowledgedFacts ==
  ASSUME IndInv, Acknowledge
  PROVE  /\ unsettled' = {} /\ InState(Active) = {} /\ Owed' = {}
         /\ \A a \in Chain("app") :
              Named(a)' /\ (~host.torn => Matches(a)) /\ (a.active # 0 => job[a.active].st = "cancelled")
         /\ \A o \in Ops : ~Doubtful(o)'
         /\ ~host.torn /\ offline' = {} /\ host.cur # 0 => \A e \in Chain("env") : Applied(e)
<1> DEFINE o == on[Exec]
<1>1. /\ at[Exec] = "reconciled" /\ o \in unsettled /\ job[o].st \in Terminal /\ o \in Ops
      /\ unsettled' = unsettled \ {o} /\ job' = job /\ host' = host
  BY DEF Acknowledge, Worker, Current, IndInv, Course, Late, InState
<1>2. \A x \in InState(Active) \cup unsettled : x = o
  BY <1>1 DEF IndInv, Course
<1> HIDE DEF o
<1>3. unsettled' = {} /\ InState(Active) = {}
  BY <1>1, <1>2 DEF InState, Active, Terminal
<1>4. Owed' = {}
  BY <1>1, <1>3 DEF Owed, InState, Active
<1>5. mem["app"].active # o /\ (~host.torn => mem["app"].cur = host.cur)
  BY <1>1 DEF IndInv, Recorded, o
<1>6. ASSUME NEW a \in Chain("app")
      PROVE  (~host.torn => a.cur = host.cur) /\ (a.active # 0 => a.active \in Known /\ job[a.active].st = "cancelled")
  <2>1. ~Lags(a)
    BY <1>1 DEF IndInv, Lagging, Behind, Overdue
  <2>2. (~host.torn => a.cur = host.cur) /\ (a.active \in {0, mem["app"].active} \/ job[a.active].st = "cancelled")
    BY <1>5, <2>1 DEF Lags
  <2>3. a.active # 0 => a.active \in Known /\ Accounted(a.active)
    BY DEF IndInv, AllNamed, Named, Marked
  <2>4. a.active # 0 => job[a.active].st = "cancelled"
    <3> SUFFICES ASSUME a.active # 0, job[a.active].st # "cancelled" PROVE FALSE
      OBVIOUS
    <3>1. a.active = mem["app"].active
      BY <2>2
    <3>2. a.active \in InState(Active) \cup unsettled
      BY <2>3 DEF Accounted, InState, Known
    <3> QED BY <1>2, <1>5, <3>1, <3>2
  <2> QED BY <2>2, <2>3, <2>4
<1>7. \A a \in Chain("app") : Named(a)'
  <2> SUFFICES ASSUME NEW a \in Chain("app") PROVE Named(a)'
    OBVIOUS
  <2>1. Named(a)
    BY DEF IndInv, AllNamed
  <2>2. a.active # 0 => Accounted(a.active)'
    BY <1>1, <1>6 DEF Accounted
  <2> QED BY <1>1, <2>1, <2>2 DEF Named, Marked, Known, InState
<1>8. ASSUME NEW x \in Ops, Doubtful(x) PROVE x = o
  BY <1>2, <1>8 DEF Doubtful, InState, Active
<1>9. ~host.torn => \A a \in Chain("app") : Matches(a)
  <2> SUFFICES ASSUME ~host.torn, NEW a \in Chain("app"), Unrecorded({"deploy", "rollback"}), a.cur = host.prev PROVE FALSE
    BY DEF IndInv, Agreement
  <2>1. PICK x \in Ops : Doubtful(x) /\ job[x].pay.kind \in {"deploy", "rollback"}
    BY DEF Unrecorded
  <2>2. host.prev # host.cur
    BY <2>1 DEF Doubtful, Landed
  <2> QED BY <1>6, <2>2
<1>10. \A x \in Ops : ~Doubtful(x)'
  BY <1>1, <1>3 DEF Doubtful, InState, Active
<1>11. ~host.torn /\ offline' = {} /\ host.cur # 0 => \A e \in Chain("env") : Applied(e)
  <2> SUFFICES ASSUME ~host.torn, offline' = {}, host.cur # 0 PROVE \A e \in Chain("env") : Applied(e)
    OBVIOUS
  <2>1. proc # "command" /\ offline = {}
    BY DEF Acknowledge
  <2>2. Applied(mem["env"])
    BY <1>1, <2>1 DEF IndInv, Recorded
  <2>3. \A e \in Chain("env") : Follows(e)
    BY <1>1 DEF IndInv, Lagging, Behind, Overdue
  <2> QED BY <2>2, <2>3 DEF Follows, Applied
<1> QED BY <1>3, <1>4, <1>6, <1>7, <1>9, <1>10, <1>11

LEMMA AcknowledgeKeeps == ASSUME IndInv, Acknowledge PROVE IndInv'
<1> USE DEF IndInv
<1>1. /\ unsettled' = {} /\ InState(Active) = {} /\ Owed' = {}
      /\ \A a \in Chain("app") :
           Named(a)' /\ (~host.torn => Matches(a)) /\ (a.active # 0 => job[a.active].st = "cancelled")
      /\ \A o \in Ops : ~Doubtful(o)'
      /\ ~host.torn /\ offline' = {} /\ host.cur # 0 => \A e \in Chain("env") : Applied(e)
  BY AcknowledgedFacts
<1>2. /\ at[Exec] = "reconciled" /\ UNCHANGED <<job, disk, host, receipts, answered, disturbed>>
      /\ offline' \subseteq Ops /\ on[Exec] \in Ops
      /\ \/ proc = "command" /\ Vanish
         \/ /\ proc # "command" /\ Wait(Exec, "idle", 0) /\ NoSave
            /\ UNCHANGED <<broken, proc, plan, offline>>
  BY DEF Acknowledge, Worker, Current, Typed, TypeOK, Course, Late
<1>3. /\ \A f \in Files : Chain(f)' \subseteq Chain(f)
      /\ at'[Exec] = "idle" /\ at' \in [Who -> Phases] /\ on' \in [Who -> 0 .. MaxOps]
      /\ ChainsTyped' /\ broken' \in [Files -> BOOLEAN] /\ plan' \in [Clients -> Payload]
      /\ Waiters' /\ Lagging'
      /\ \A c \in Clients : at'[c] # "asked" \/ (at'[c] = at[c] /\ plan'[c] = plan[c])
      /\ \A c \in Clients : plan'[c] = NoPayload \/ plan'[c] = plan[c]
  <2>1. CASE Vanish
    BY <1>2, <2>1, VanishFacts, Renewed, ConstantsFacts
  <2>2. CASE Wait(Exec, "idle", 0) /\ NoSave /\ UNCHANGED <<broken, plan>>
    <3>1. /\ at' \in [Who -> Phases] /\ on' \in [Who -> 0 .. MaxOps] /\ at'[Exec] = "idle"
          /\ \A x \in Who \ {Exec} : at'[x] = at[x] /\ on'[x] = on[x]
      BY <2>2, WaitTyped, ConstantsFacts DEF Phases
    <3>2. \A f \in Files : Chain(f)' \subseteq Chain(f)
      BY <1>2, <2>2, SameChains DEF NoSave
    <3>3. ChainsTyped'
      BY <1>2, <2>2 DEF NoSave, ChainsTyped, Typed, TypeOK
    <3>4. \A w \in Who : Patient(w)
      BY <1>2, <3>1 DEF Patient, Waiting
    <3>5. Waiters'
      BY <1>2, <2>2, <3>4, WaitersStay DEF NoSave, Calm
    <3>6. Lagging'
      BY <1>2, <2>2, <3>2, LaggingStays DEF NoSave, Behind, Overdue
    <3>7. broken' \in [Files -> BOOLEAN] /\ plan' \in [Clients -> Payload] /\ plan' = plan
      BY <2>2 DEF Typed, TypeOK
    <3>8. \A c \in Clients : at'[c] = at[c] /\ plan'[c] = plan[c]
      BY <3>1, <3>7, ConstantsFacts
    <3> QED BY <3>1, <3>2, <3>3, <3>5, <3>6, <3>7, <3>8
  <2> QED BY <1>2, <2>1, <2>2
<1>4. Typed'
  <2>1. proc' \in {"down", "starting", "serving", "command"}
    BY <1>2 DEF Vanish, Typed, TypeOK
  <2> QED BY <1>1, <1>2, <1>3, <2>1 DEF Typed, TypeOK, ChainsTyped, Phases
<1>5. Course'
  <2>1. InState(Active)' = {} /\ InState({"running"})' = {}
    BY <1>1, <1>2 DEF InState, Active
  <2>2. CASE Vanish
    <3>1. /\ proc' = "down" /\ \A w \in Who : at'[w] = "idle"
          /\ \A f \in Files : queue'[f] = <<>> /\ mem'[f] = disk'[f]
      BY <1>2, <2>2, VanishFacts
    <3> QED BY <1>1, <1>3, <2>1, <3>1, ConstantsFacts DEF Course, Early, Late
  <2>3. CASE proc # "command" /\ Wait(Exec, "idle", 0) /\ NoSave /\ UNCHANGED <<broken, proc, plan>>
    <3>1. \A x \in Who \ {Exec} : at'[x] = at[x] /\ on'[x] = on[x]
      BY <2>3, WaitTyped, ConstantsFacts DEF Phases
    <3>2. proc # "down"
      BY <1>2, ConstantsFacts DEF Course
    <3>3. Known' = Known
      BY <1>2 DEF Known, InState
    <3> QED BY <1>1, <1>2, <1>3, <2>1, <2>3, <3>1, <3>2, <3>3, ConstantsFacts DEF Course, Early, Late
  <2> QED BY <1>2, <2>2, <2>3
<1>6. AllNamed'
  BY <1>1, <1>3, ConstantsFacts DEF AllNamed
<1>7. Steady
  BY <1>2 DEF Steady, Known, InState
<1>8. AllPrepared'
  BY <1>2, <1>3, <1>7, PreparedStays, ConstantsFacts DEF Known, InState, Prepared
<1>9. Built'
  BY <1>2, <1>3, <1>7, BuiltStays
<1>10. Agreement'
  <2> SUFFICES ASSUME ~host.torn PROVE Agreement'
    BY <1>2 DEF Agreement
  <2>1. \A a \in Chain("app")' : Matches(a)'
    <3> SUFFICES ASSUME NEW a \in Chain("app")' PROVE Matches(a)'
      OBVIOUS
    <3>1. Matches(a)
      BY <1>1, <1>3, ConstantsFacts
    <3> QED BY <1>2, <3>1 DEF Matches
  <2>2. offline' = {} /\ host'.cur # 0 => \A e \in Chain("env")' : Applied(e)'
    <3> SUFFICES ASSUME offline' = {}, host.cur # 0, NEW e \in Chain("env")' PROVE Applied(e)'
      BY <1>2
    <3>1. Applied(e)
      BY <1>1, <1>3, ConstantsFacts
    <3> QED BY <1>2, <3>1 DEF Applied
  <2> QED BY <2>1, <2>2 DEF Agreement
<1>11. Effects'
  <2>1. \A o \in Ops : job[o].st # "running"
    BY <1>1 DEF InState, Active
  <2>2. \A o \in receipts : o \in Ops /\ job[o].st \in {"running", "succeeded"}
    BY DEF Effects, Typed, TypeOK
  <2> QED BY <1>1, <1>2, <1>3, <2>1, <2>2 DEF Effects
<1>12. Recorded'
  BY <1>3 DEF Recorded
<1>13. Answers'
  BY <1>2, <1>3, <1>7, AnswersStay, ConstantsFacts
<1> QED BY <1>3, <1>4, <1>5, <1>6, <1>8, <1>9, <1>10, <1>11, <1>12, <1>13

-----------------------------------------------------------------------------
(* Steps that neither save nor change a job.                               *)

LEMMA QuietKeeps ==
  ASSUME IndInv, UNCHANGED <<job, disk, mem, queue, host, receipts, answered, offline>>,
         Rejournalled, Sober, \A w \in Who : Patient(w),
         at[Exec] \in Behind => at'[Exec] \in Behind, at[Exec] \in Overdue => at'[Exec] \in Overdue
  PROVE  AllNamed' /\ Built' /\ Waiters' /\ Lagging' /\ Effects' /\ Agreement' /\ Answers'
<1> USE DEF IndInv
<1>1. Steady /\ Calm
  BY DEF Steady, Calm, Known, InState
<1>2. \A f \in Files : Chain(f)' = Chain(f)
  BY SameChains
<1>3. AllNamed'
  BY <1>1, <1>2, NamedStays, ConstantsFacts DEF Accounted, Rejournalled
<1>4. Built'
  BY <1>1, BuiltStays DEF Sober, Early
<1>5. Waiters'
  BY <1>1, WaitersStay
<1>7. Lagging'
  BY <1>2, LaggingStays
<1>8. Effects' /\ Agreement'
  BY <1>2, StillAgrees, ConstantsFacts DEF Alike
<1>9. Answers'
  BY <1>1, <1>2, AnswersStay, ConstantsFacts
<1> QED BY <1>3, <1>4, <1>5, <1>7, <1>8, <1>9

LEMMA AskKeeps ==
  ASSUME IndInv, NEW c \in Clients, NEW p \in Payload, p.kind # "none", Prepared(p), Ask(c, p)
  PROVE  IndInv'
<1> USE DEF IndInv
<1>1. /\ proc = "serving" /\ at[c] = "idle" /\ plan' = [plan EXCEPT ![c] = p] /\ Wait(c, "asked", 0)
      /\ UNCHANGED <<job, unsettled, disk, mem, queue, broken, proc, host, receipts, answered, offline, disturbed>>
  BY DEF Ask, files, history
<1>2. /\ at' \in [Who -> Phases] /\ on' \in [Who -> 0 .. MaxOps] /\ at'[c] = "asked"
      /\ \A x \in Who \ {c} : at'[x] = at[x] /\ on'[x] = on[x]
      /\ at'[Exec] = at[Exec] /\ on'[Exec] = on[Exec]
  BY <1>1, WaitTyped, ConstantsFacts DEF Phases
<1>3. Typed'
  BY <1>1, <1>2 DEF Typed, TypeOK, Phases
<1>4. Course'
  <2>1. Known' = Known /\ InState(Active)' = InState(Active) /\ \A S : InState(S)' = InState(S)
    BY <1>1 DEF Known, InState
  <2>2. \A x \in Clients : /\ at'[x] \in {"idle", "asked", "marking", "repeating", "undoing"}
                           /\ at'[x] \in {"marking", "repeating", "undoing"} => on'[x] \in Known'
    BY <1>2, <2>1, ConstantsFacts DEF Course
  <2> QED BY <1>1, <1>2, <2>1, <2>2 DEF Course
<1>5. \A w \in Who : Patient(w)
  BY <1>1, <1>2 DEF Patient, Waiting
<1>6. AllNamed' /\ Built' /\ Waiters' /\ Lagging' /\ Effects' /\ Agreement' /\ Answers'
  BY <1>1, <1>2, <1>5, QuietKeeps DEF Rejournalled, Sober
<1>7. AllPrepared'
  <2>1. Steady /\ Known' = Known
    BY <1>1 DEF Steady, Known, InState
  <2>2. \A x \in Clients : \/ plan'[x] = plan[x] /\ at'[x] = at[x]
                           \/ plan'[x] = p
    BY <1>1, <1>2, ConstantsFacts DEF Typed, TypeOK
  <2>3. Prepared(p)'
    BY <1>1, <2>1 DEF Prepared
  <2>4. \A x \in Clients : plan'[x] = p => Prepared(plan[x])'
    BY <2>3 DEF Prepared
  <2> QED BY <2>1, <2>2, <2>4, PreparedStays
<1>8. Recorded'
  BY <1>1, <1>2 DEF Recorded, Applied
<1> QED BY <1>3, <1>4, <1>6, <1>7, <1>8

\* What a route finds in the registries.
LEMMA RegistryFacts ==
  ASSUME IndInv
  PROVE  /\ App \in AppRecord /\ Env \in EnvRecord /\ App \in Chain("app") /\ Env \in Chain("env")
         /\ App = mem["app"] /\ Env = mem["env"]
         /\ Named(App) /\ Range(App.rels) \subseteq Known
         /\ App.cur # 0 => App.cur \in Known /\ App.applied = job[App.cur].pay.rev
<1>1. App \in AppRecord /\ Env \in EnvRecord /\ App \in Chain("app") /\ Env \in Chain("env")
  BY DEF App, Env, IndInv, Typed, TypeOK, Chain
<1>2. Named(App)
  BY <1>1 DEF IndInv, AllNamed
<1> QED BY <1>1, <1>2 DEF Named, App, Env

LEMMA AskDeployKeeps == ASSUME IndInv, NEW c \in Clients, AskDeploy(c) PROVE IndInv'
<1> DEFINE p == [kind |-> "deploy", rel |-> 0, cur |-> App.cur, rev |-> App.rev, env |-> Env.saved]
<1>1. p \in Payload /\ p.kind = "deploy"
  BY RegistryFacts DEF Payload, AppRecord, EnvRecord
<1>2. Ask(c, p)
  BY DEF AskDeploy
<1> HIDE DEF p
<1> QED BY <1>1, <1>2, AskKeeps DEF Prepared

LEMMA AskRestartKeeps == ASSUME IndInv, NEW c \in Clients, AskRestart(c) PROVE IndInv'
<1> DEFINE p == [kind |-> "restart", rel |-> App.cur, cur |-> App.cur, rev |-> App.applied,
                 env |-> Env.saved]
<1>1. p \in Payload /\ p.kind = "restart" /\ p.rel = App.cur /\ p.rev = App.applied
  BY RegistryFacts DEF Payload, AppRecord, EnvRecord
<1>2. Ask(c, p) /\ App.cur # 0
  BY DEF AskRestart
<1> HIDE DEF p
<1>3. Prepared(p)
  BY <1>1, <1>2, RegistryFacts DEF Prepared
<1> QED BY <1>1, <1>2, <1>3, AskKeeps

LEMMA AskRollbackKeeps ==
  ASSUME IndInv, NEW c \in Clients, NEW r \in Ops, AskRollback(c, r) PROVE IndInv'
<1> DEFINE p == [kind |-> "rollback", rel |-> r, cur |-> App.cur, rev |-> job[r].pay.rev,
                 env |-> Env.saved]
<1>1. job[r].pay.rev \in Nat /\ r \in Nat
  BY ConstantsFacts DEF IndInv, Typed, TypeOK, Payload
<1>2. p \in Payload /\ p.kind = "rollback" /\ p.rel = r /\ p.rev = job[r].pay.rev
  BY <1>1, RegistryFacts DEF Payload, AppRecord, EnvRecord
<1>3. Ask(c, p) /\ r \in Range(App.rels) \cup host.dirs
  BY DEF AskRollback
<1> HIDE DEF p
<1>4. r \in Known
  BY <1>3, RegistryFacts DEF IndInv, Built, Releases, Known, InState
<1>5. Prepared(p)
  BY <1>2, <1>4 DEF Prepared
<1> QED BY <1>2, <1>3, <1>5, AskKeeps

LEMMA EnqueueRefusedKeeps == ASSUME IndInv, NEW c \in Clients, EnqueueRefused(c) PROVE IndInv'
<1> USE DEF IndInv
<1>1. /\ proc = "serving" /\ at[c] = "asked" /\ plan' = [plan EXCEPT ![c] = NoPayload] /\ Wait(c, "idle", 0)
      /\ UNCHANGED <<job, unsettled, disk, mem, queue, broken, proc, host, receipts, answered, offline, disturbed>>
  BY DEF EnqueueRefused, files, history
<1>2. /\ at' \in [Who -> Phases] /\ on' \in [Who -> 0 .. MaxOps] /\ at'[c] = "idle"
      /\ \A x \in Who \ {c} : at'[x] = at[x] /\ on'[x] = on[x]
      /\ at'[Exec] = at[Exec] /\ on'[Exec] = on[Exec]
  BY <1>1, WaitTyped, ConstantsFacts DEF Phases
<1>3. Typed'
  BY <1>1, <1>2, ConstantsFacts DEF Typed, TypeOK, Phases
<1>4. Course'
  <2>1. Known' = Known /\ \A S : InState(S)' = InState(S)
    BY <1>1 DEF Known, InState
  <2>2. \A x \in Clients : /\ at'[x] \in {"idle", "asked", "marking", "repeating", "undoing"}
                           /\ at'[x] \in {"marking", "repeating", "undoing"} => on'[x] \in Known'
    BY <1>2, <2>1, ConstantsFacts DEF Course
  <2> QED BY <1>1, <1>2, <2>1, <2>2 DEF Course
<1>5. \A w \in Who : Patient(w)
  BY <1>1, <1>2 DEF Patient, Waiting
<1>6. AllNamed' /\ Built' /\ Waiters' /\ Lagging' /\ Effects' /\ Agreement' /\ Answers'
  BY <1>1, <1>2, <1>5, QuietKeeps DEF Rejournalled, Sober
<1>7. AllPrepared'
  <2>1. Steady /\ Known' = Known
    BY <1>1 DEF Steady, Known, InState
  <2>2. \A x \in Clients : \/ plan'[x] = plan[x] /\ at'[x] = at[x]
                           \/ plan'[x] = NoPayload /\ at'[x] # "asked"
    BY <1>1, <1>2, ConstantsFacts DEF Typed, TypeOK
  <2>3. \A x \in Clients : plan'[x] = NoPayload => Prepared(plan[x])'
    BY ConstantsFacts DEF Prepared
  <2> QED BY <2>1, <2>2, <2>3, PreparedStays
<1>8. Recorded'
  BY <1>1, <1>2 DEF Recorded, Applied
<1> QED BY <1>3, <1>4, <1>6, <1>7, <1>8

-----------------------------------------------------------------------------
(* The reconciliation of a stored result.                                  *)

LEMMA LateFacts ==
  ASSUME IndInv, at[Exec] \in Late
  PROVE  LET o == on[Exec] IN
         /\ o \in Ops /\ o \in unsettled /\ job[o].st \in Terminal /\ o \in Known /\ o # 0
         /\ InState(Active) = {} /\ InState({"running"}) = {} /\ \A x \in unsettled : x = o
         /\ \A x \in Ops : Doubtful(x) => x = o /\ job[o].st = "succeeded"
         /\ job[o].st = "succeeded" /\ ~host.torn => Landed(o) /\ job[o].prev = host.prev
         /\ proc # "down"
<1> USE DEF IndInv
<1> DEFINE o == on[Exec]
<1>1. o \in unsettled /\ job[o].st \in Terminal /\ o \in Ops
  BY DEF Course, InState
<1>2. \A x \in InState(Active) \cup unsettled : x = o
  BY <1>1 DEF Course
<1> HIDE DEF o
<1>3. InState(Active) = {} /\ InState({"running"}) = {}
  BY <1>1, <1>2 DEF InState, Active, Terminal
<1>4. \A x \in Ops : Doubtful(x) => x = o /\ job[o].st = "succeeded"
  BY <1>2, <1>3 DEF Doubtful, InState
<1>5. proc # "down"
  BY ConstantsFacts DEF Course, Late
<1>6. o \in Known /\ o # 0
  BY <1>1, ConstantsFacts DEF Known, InState, Terminal
<1> QED BY <1>1, <1>2, <1>3, <1>4, <1>5, <1>6 DEF Effects, o

\* The executor goes on without a write.
LEMMA ExecMoves ==
  ASSUME IndInv, Untouched, NoSave, NEW p \in {"environment", "reconciled", "unreconciled", "lost"},
         at[Exec] \in Late \ Waiting, Wait(Exec, p, on[Exec]),
         at[Exec] \in Behind => p \in Behind, at[Exec] \in Overdue => p \in Overdue,
         p = "environment" => job[on[Exec]].st = "succeeded",
         Recorded'
  PROVE  IndInv'
<1> USE DEF IndInv
<1>1. UNCHANGED <<job, unsettled, disk, mem, queue, broken, proc, plan, host, receipts, answered, offline, disturbed>>
  BY DEF Untouched, NoSave, files, history
<1>2. /\ at' \in [Who -> Phases] /\ on' \in [Who -> 0 .. MaxOps] /\ at'[Exec] = p /\ on'[Exec] = on[Exec]
      /\ \A x \in Who \ {Exec} : at'[x] = at[x] /\ on'[x] = on[x]
  <2>1. p \in Phases /\ on[Exec] \in 0 .. MaxOps
    BY ConstantsFacts DEF Phases, Typed, TypeOK
  <2> QED BY <2>1, WaitTyped, ConstantsFacts
<1>3. Typed'
  BY <1>1, <1>2 DEF Typed, TypeOK, Phases
<1>4. Course'
  <2>1. Known' = Known /\ \A S : InState(S)' = InState(S)
    BY <1>1 DEF Known, InState
  <2>2. \A x \in Clients : at'[x] = at[x] /\ on'[x] = on[x]
    BY <1>2, ConstantsFacts
  <2>3. proc # "down" /\ InState({"running"}) = {}
    BY LateFacts
  <2>4. at'[Exec] \in Late /\ at'[Exec] \notin Early /\ at'[Exec] \notin {"activating", "applying", "settling", "halted"}
    BY <1>2 DEF Late, Early
  <2> QED BY <1>1, <1>2, <2>1, <2>2, <2>3, <2>4 DEF Course
<1>5. \A w \in Who : Patient(w)
  BY <1>1, <1>2 DEF Patient, Waiting
<1>6. AllNamed' /\ Built' /\ Waiters' /\ Lagging' /\ Effects' /\ Agreement' /\ Answers'
  BY <1>1, <1>2, <1>5, QuietKeeps DEF Rejournalled, Sober, Early
<1>7. AllPrepared'
  <2>1. Steady /\ Known' = Known
    BY <1>1 DEF Steady, Known, InState
  <2>2. \A x \in Clients : plan'[x] = plan[x] /\ at'[x] = at[x]
    BY <1>1, <1>2, ConstantsFacts
  <2> QED BY <2>1, <2>2, PreparedStays
<1> QED BY <1>3, <1>4, <1>6, <1>7

\* The executor saves the application's record.
LEMMA ExecSavesApp ==
  ASSUME IndInv, Untouched, NEW v \in AppRecord, NEW p \in {"activating", "settling", "failing"},
         at[Exec] = "terminal" \/ (at[Exec] = "unreconciled" /\ p = "failing"), Save(Exec, "app", v, p, on[Exec]),
         v.active = 0, Named(v),
         host.torn \/ Matches(v) \/ \E x \in Chain("app") : Alike(v, x),
         p = "activating" => job[on[Exec]].st = "succeeded" /\ (host.torn \/ v.cur = host.cur),
         p = "settling" => job[on[Exec]].st = "failed"
  PROVE  IndInv'
<1> USE DEF IndInv
<1>1. UNCHANGED <<job, unsettled, disk, broken, proc, plan, host, receipts, answered, offline, disturbed>>
  BY DEF Untouched, files, history
<1>2. /\ at' \in [Who -> Phases] /\ on' \in [Who -> 0 .. MaxOps] /\ at'[Exec] = p /\ on'[Exec] = on[Exec]
      /\ \A x \in Who \ {Exec} : at'[x] = at[x] /\ on'[x] = on[x]
  <2>1. p \in Phases /\ on[Exec] \in 0 .. MaxOps
    BY ConstantsFacts DEF Phases, Typed, TypeOK
  <2> QED BY <2>1, WaitTyped, ConstantsFacts DEF Save
<1>3. Persisted("app", Exec, v)
  BY <1>1 DEF Save, Persisted
<1>4. /\ mem'["app"] = v /\ \A a \in Chain("app")' : a \in Chain("app") \/ a = v
      /\ mem'["env"] = mem["env"] /\ Chain("env")' = Chain("env")
  <2>1. SavedChain("app", Exec, v) /\ "env" \in Files \ {"app"}
    BY <1>3, SavedFacts, ConstantsFacts
  <2> QED BY <2>1 DEF SavedChain
<1>5. /\ on[Exec] # 0 /\ InState(Active) = {} /\ InState({"running"}) = {} /\ proc # "down"
  BY LateFacts DEF Late
<1>6. Typed'
  <2>1. ChainsTyped'
    BY <1>3, SavedTyped, ConstantsFacts
  <2> QED BY <1>1, <1>2, <2>1 DEF Typed, TypeOK, ChainsTyped, Phases
<1>7. Course'
  <2>1. Known' = Known /\ \A S : InState(S)' = InState(S)
    BY <1>1 DEF Known, InState
  <2>2. \A x \in Clients : at'[x] = at[x] /\ on'[x] = on[x]
    BY <1>2, ConstantsFacts
  <2>3. at[Exec] \in Late /\ at'[Exec] \in Late /\ at'[Exec] \notin Early
        /\ at'[Exec] \notin {"environment", "applying", "halted"}
    BY <1>2 DEF Late, Early
  <2> QED BY <1>1, <1>2, <1>5, <2>1, <2>2, <2>3 DEF Course
<1>8. Steady /\ Calm /\ Known' = Known
  BY <1>1 DEF Steady, Calm, Known, InState
<1>9. AllNamed'
  <2>1. Named(v)'
    BY <1>1 DEF Named, Marked, Accounted, Known, InState
  <2>2. \A a \in Chain("app")' : a \in Chain("app") \/ Named(a)'
    BY <1>4, <2>1
  <2> QED BY <1>1, <1>8, <2>2, NamedStays DEF Accounted
<1>10. AllPrepared'
  <2>1. \A x \in Clients : plan'[x] = plan[x] /\ at'[x] = at[x]
    BY <1>1, <1>2, ConstantsFacts
  <2> QED BY <1>8, <2>1, PreparedStays
<1>11. Built'
  BY <1>1, <1>2, <1>8, BuiltStays
<1>12. Waiters'
  <2>1. \A x \in Who \ {Exec} : Patient(x)
    BY <1>2 DEF Patient
  <2>2. ~(mem["app"].active \in Known /\ job'[mem["app"].active].st \in Active)
    BY <1>1, <1>5 DEF Known, InState
  <2>3. at[Exec] \notin Waiting
    BY DEF Waiting
  <2> QED BY <1>2, <1>3, <1>8, <2>1, <2>2, <2>3, WaitersSavedApp, ConstantsFacts
<1>13. Lagging'
  <2>1. at'[Exec] \in Behind /\ (at[Exec] \in Overdue => at'[Exec] \in Overdue)
    BY <1>2 DEF Behind, Overdue
  <2> QED BY <1>1, <1>3, <2>1, LaggingSavedApp
<1>14. Effects' /\ Agreement'
  <2>1. \A a \in Chain("app")' : \/ \E x \in Chain("app") : Alike(a, x)
                                 \/ (host.torn \/ Matches(a)) /\ InState({"running"}) = {}
    BY <1>4, <1>5 DEF Alike
  <2>2. Sober /\ Rejournalled
    BY <1>1, <1>2 DEF Sober, Early, Rejournalled
  <2> QED BY <1>1, <1>4, <2>1, <2>2, StillAgrees
<1>15. Recorded'
  BY <1>1, <1>2, <1>4, <1>5 DEF Recorded
<1>16. Answers'
  <2>1. \A o \in answered : ~(job[o].st \in Active)
    BY <1>5 DEF InState, Typed, TypeOK
  <2> QED BY <1>1, <1>8, <2>1, AnswersStay
<1> QED BY <1>6, <1>7, <1>9, <1>10, <1>11, <1>12, <1>13, <1>14, <1>15, <1>16

\* Where the application stands when a result is about to be recorded.
LEMMA StandsFacts ==
  ASSUME IndInv, at[Exec] = "terminal"
  PROVE  LET o == on[Exec] IN
         /\ job[o].pay.kind = "restart" => App.active # o
         /\ ~host.torn => /\ job[o].st = "failed" => App.cur = host.cur
                          /\ job[o].pay.kind = "restart" => App.cur = host.cur
                          /\ job[o].st = "succeeded" => host.cur = ReleaseOf(o)
<1> DEFINE o == on[Exec]
<1>1. /\ \A x \in Ops : Doubtful(x) => x = o /\ job[o].st = "succeeded"
      /\ job[o].st = "succeeded" /\ ~host.torn => Landed(o)
      /\ o # 0
  BY LateFacts DEF Late
<1> HIDE DEF o
<1>2. host.torn \/ Matches(App) \/ (App.cur = host.prev /\ Unrecorded({"deploy", "rollback"}))
  BY RegistryFacts DEF IndInv, Agreement
<1>3. host.torn \/ Matches(App) \/ (job[o].st = "succeeded" /\ job[o].pay.kind \in {"deploy", "rollback"})
  BY <1>1, <1>2 DEF Unrecorded
<1>4. App.active = 0 \/ job[App.active].pay.kind \in {"deploy", "rollback"}
  BY RegistryFacts DEF Named, Marked
<1> QED BY <1>1, <1>3, <1>4 DEF Matches, Landed, o, Terminal

LEMMA ReconcileApplicationKeeps == ASSUME IndInv, ReconcileApplication PROVE IndInv'
<1> DEFINE o    == on[Exec]
           kind == job[o].pay.kind
<1>1. at[Exec] = "terminal" /\ Untouched
  BY DEF ReconcileApplication, Worker
<1>2. /\ o \in Ops /\ o \in unsettled /\ job[o].st \in Terminal /\ o \in Known /\ o # 0
      /\ InState({"running"}) = {} /\ \A x \in Ops : Doubtful(x) => x = o /\ job[o].st = "succeeded"
      /\ job[o].st = "succeeded" /\ ~host.torn => Landed(o) /\ job[o].prev = host.prev
      /\ at[Exec] \in Late
  <2>1. at[Exec] \in Late
    BY <1>1 DEF Late
  <2> QED BY <2>1, LateFacts
<1>3. /\ job[o].pay.kind = "restart" => App.active # o
      /\ ~host.torn => /\ job[o].st = "failed" => App.cur = host.cur
                       /\ job[o].pay.kind = "restart" => App.cur = host.cur
                       /\ job[o].st = "succeeded" => host.cur = ReleaseOf(o)
  BY <1>1, StandsFacts
<1>4. App = mem["app"] /\ App \in AppRecord /\ App \in Chain("app") /\ Named(App)
  BY RegistryFacts
<1>5. at[Exec] \in Late \ Waiting /\ at[Exec] \notin Behind \cup Overdue
  BY <1>1 DEF Late, Waiting, Behind, Overdue
<1>6. CASE job[o].st = "failed" /\ App.active # o /\ Wait(Exec, "reconciled", o) /\ NoSave
  <2>1. ~host.torn /\ offline = {} /\ host.cur # 0 => Applied(mem["env"])
    <3>1. ~Unrecorded({"deploy", "rollback", "restart"})
      BY <1>2, <1>6 DEF Unrecorded
    <3>2. mem["env"] \in Chain("env")
      BY DEF Chain
    <3> QED BY <3>1, <3>2 DEF IndInv, Agreement
  <2>2. at'[Exec] = "reconciled" /\ on'[Exec] = o /\ UNCHANGED <<mem, host, offline, proc>>
    <3>1. Wait(Exec, "reconciled", o) /\ o \in 0 .. MaxOps
      BY <1>2, <1>6, ConstantsFacts
    <3> QED BY <1>1, <1>6, <3>1, WaitTyped, ConstantsFacts DEF Untouched, NoSave, history, Phases, IndInv
  <2>3. Recorded'
    BY <1>3, <1>4, <1>6, <2>1, <2>2 DEF Recorded, Applied
  <2> QED BY <1>1, <1>5, <1>6, <2>3, ExecMoves
<1>7. CASE job[o].st = "failed" /\ App.active = o /\ Save(Exec, "app", MarkFailed(App), "settling", o)
  <2> DEFINE v == MarkFailed(App)
  <2>1. v \in AppRecord /\ v.active = 0 /\ v.pending = 0 /\ Alike(v, App)
    BY <1>4, MarkFacts
  <2>2. Save(Exec, "app", v, "settling", o)
    BY <1>7
  <2> HIDE DEF v
  <2>3. Named(v)
    BY <1>4, <2>1 DEF Named, Alike
  <2> QED BY <1>1, <1>4, <1>7, <2>1, <2>2, <2>3, ExecSavesApp
<1>8. CASE /\ job[o].st # "failed" /\ Wait(Exec, "environment", o) /\ NoSave
           /\ kind = "restart" \/ (App.active = 0 /\ App.cur = ReleaseOf(o))
  <2>1. job[o].st = "succeeded"
    BY <1>2, <1>8 DEF Terminal
  <2>2. at'[Exec] = "environment" /\ on'[Exec] = o /\ UNCHANGED <<mem, host, offline, proc>>
    <3>1. Wait(Exec, "environment", o) /\ o \in 0 .. MaxOps
      BY <1>2, <1>8, ConstantsFacts
    <3> QED BY <1>1, <1>8, <3>1, WaitTyped, ConstantsFacts DEF Untouched, NoSave, history, Phases, IndInv
  <2>3. mem["app"].active # o /\ (host.torn \/ mem["app"].cur = host.cur)
    BY <1>2, <1>3, <1>4, <1>8, <2>1
  <2>4. Recorded'
    BY <2>2, <2>3 DEF Recorded
  <2> QED BY <1>1, <1>5, <1>8, <2>1, <2>4, ExecMoves
<1>9. CASE /\ job[o].st # "failed" /\ kind = "deploy" /\ CanMarkDeployed(App, o)
           /\ Save(Exec, "app", MarkDeployed(App, o), "activating", o)
  <2> DEFINE v == MarkDeployed(App, o)
  <2>1. /\ v \in AppRecord /\ v.active = 0 /\ v.pending = 0 /\ v.cur = o /\ v.prev = App.cur
        /\ v.applied = App.rev /\ Range(v.rels) \subseteq Range(App.rels) \cup {o}
        /\ o \in Range(v.rels) /\ {App.cur} \cap Range(App.rels) \subseteq Range(v.rels)
    BY <1>2, <1>4, DeployedFacts
  <2>2. Save(Exec, "app", v, "activating", o)
    BY <1>9
  <2> HIDE DEF v
  <2>3. /\ job[o].st = "succeeded" /\ job[o].pay.rev = App.rev
        /\ ~host.torn => /\ host.cur = o /\ host.prev = App.cur
                         /\ {host.prev, host.cur} \ {0} \subseteq host.dirs
    BY <1>2, <1>3, <1>9 DEF Terminal, CanMarkDeployed, ReleaseOf, Landed
  <2>4. Named(v)
    BY <1>2, <1>4, <2>1, <2>3 DEF Named
  <2>5. host.torn \/ Matches(v)
    BY <1>4, <2>1, <2>3 DEF Matches, Named
  <2> QED BY <1>1, <2>1, <2>2, <2>3, <2>4, <2>5, ExecSavesApp
<1>10. CASE /\ job[o].st # "failed" /\ kind = "rollback" /\ CanMarkRolledBack(App, o)
            /\ Save(Exec, "app", MarkRolledBack(App, o), "activating", o)
  <2> DEFINE v == MarkRolledBack(App, o)
             r == job[o].pay.rel
  <2>1. r \in Nat /\ r \in Known /\ job[r].pay.rev \in Nat /\ r # 0 /\ r \in Range(App.rels)
    <3>1. r \in Range(App.rels) /\ r \in Known
      BY <1>10, RegistryFacts DEF CanMarkRolledBack
    <3> QED BY <3>1, ConstantsFacts DEF IndInv, Typed, TypeOK, Payload, Known
  <2>2. /\ v \in AppRecord /\ v.active = 0 /\ v.pending = 0 /\ v.cur = r /\ v.prev = App.cur
        /\ v.applied = job[r].pay.rev /\ Range(v.rels) \subseteq Range(App.rels)
        /\ {r, App.cur} \cap Range(App.rels) \subseteq Range(v.rels)
    BY <1>4, <2>1, ActivateFacts DEF MarkRolledBack
  <2>3. Save(Exec, "app", v, "activating", o)
    BY <1>10
  <2> HIDE DEF v
  <2>4. /\ job[o].st = "succeeded"
        /\ ~host.torn => /\ host.cur = r /\ host.prev = App.cur
                         /\ {host.prev, host.cur} \ {0} \subseteq host.dirs
    BY <1>2, <1>3, <1>10 DEF Terminal, CanMarkRolledBack, ReleaseOf, Landed
  <2> HIDE DEF r
  <2>5. Named(v)
    BY <1>4, <2>1, <2>2 DEF Named
  <2>6. host.torn \/ Matches(v)
    BY <1>4, <2>1, <2>2, <2>4 DEF Matches, Named
  <2> QED BY <1>1, <2>2, <2>3, <2>4, <2>5, <2>6, ExecSavesApp
<1>11. CASE Wait(Exec, "unreconciled", o) /\ NoSave
  <2>1. at'[Exec] = "unreconciled"
    <3>1. Wait(Exec, "unreconciled", o) /\ o \in 0 .. MaxOps
      BY <1>2, <1>11, ConstantsFacts
    <3> QED BY <3>1, WaitTyped, ConstantsFacts DEF Phases, IndInv
  <2>2. Recorded'
    BY <2>1 DEF Recorded
  <2> QED BY <1>1, <1>5, <1>11, <2>2, ExecMoves
<1>12. \/ job[o].st = "failed" /\ App.active # o /\ Wait(Exec, "reconciled", o) /\ NoSave
       \/ job[o].st = "failed" /\ App.active = o /\ Save(Exec, "app", MarkFailed(App), "settling", o)
       \/ /\ job[o].st # "failed" /\ Wait(Exec, "environment", o) /\ NoSave
          /\ kind = "restart" \/ (App.active = 0 /\ App.cur = ReleaseOf(o))
       \/ /\ job[o].st # "failed" /\ kind = "deploy" /\ CanMarkDeployed(App, o)
          /\ Save(Exec, "app", MarkDeployed(App, o), "activating", o)
       \/ /\ job[o].st # "failed" /\ kind = "rollback" /\ CanMarkRolledBack(App, o)
          /\ Save(Exec, "app", MarkRolledBack(App, o), "activating", o)
       \/ Wait(Exec, "unreconciled", o) /\ NoSave
  BY DEF ReconcileApplication, Current
<1> QED BY <1>6, <1>7, <1>8, <1>9, <1>10, <1>11, <1>12

LEMMA RecordFailureKeeps == ASSUME IndInv, RecordFailure PROVE IndInv'
<1> DEFINE o == on[Exec]
<1>1. at[Exec] = "unreconciled" /\ Untouched /\ at[Exec] \in Late \ Waiting
  BY DEF RecordFailure, Worker, Late, Waiting
<1>2. App = mem["app"] /\ App \in AppRecord /\ App \in Chain("app") /\ Named(App)
  BY RegistryFacts
<1>3. CASE Save(Exec, "app", MarkFailed(App), "failing", o)
  <2> DEFINE v == MarkFailed(App)
  <2>1. v \in AppRecord /\ v.active = 0 /\ v.pending = 0 /\ Alike(v, App)
    BY <1>2, MarkFacts
  <2>2. Save(Exec, "app", v, "failing", o)
    BY <1>3
  <2> HIDE DEF v
  <2>3. Named(v)
    BY <1>2, <2>1 DEF Named, Alike
  <2> QED BY <1>1, <1>2, <2>1, <2>2, <2>3, ExecSavesApp
<1>4. CASE Wait(Exec, "lost", o) /\ NoSave
  <2>1. at'[Exec] = "lost"
    <3>1. Wait(Exec, "lost", o) /\ o \in 0 .. MaxOps
      BY <1>4 DEF IndInv, Typed, TypeOK, Who
    <3> QED BY <3>1, WaitTyped, ConstantsFacts DEF Phases, IndInv
  <2>2. Recorded'
    BY <2>1 DEF Recorded
  <2> QED BY <1>1, <1>4, <2>2, ExecMoves DEF Behind, Overdue
<1> QED BY <1>3, <1>4 DEF RecordFailure, Current

LEMMA MarkAppliedKeeps == ASSUME IndInv, MarkApplied PROVE IndInv'
<1> USE DEF IndInv
<1> DEFINE o    == on[Exec]
           new  == [Env EXCEPT !.applied = job[o].pay.env, !.rel = ReleaseOf(o)]
           fits == job[o].pay.env <= Env.saved /\ Env.applied <= job[o].pay.env
<1>1. at[Exec] = "environment" /\ Untouched /\ at[Exec] \in Late \ Waiting
  BY DEF MarkApplied, Worker, Late, Waiting
<1>2. /\ o \in Ops /\ o \in 0 .. MaxOps /\ job[o].st = "succeeded" /\ InState(Active) = {}
      /\ InState({"running"}) = {} /\ proc # "down" /\ mem["app"].active # o
      /\ ~host.torn => Landed(o) /\ mem["app"].cur = host.cur
  BY <1>1, LateFacts, ConstantsFacts DEF Course, Recorded, Early
<1>3. Env = mem["env"] /\ Env \in EnvRecord
  BY RegistryFacts
<1>4. ReleaseOf(o) \in Nat /\ job[o].pay.env \in Nat
  BY <1>2, ConstantsFacts DEF ReleaseOf, Typed, TypeOK, Payload
<1>5. new \in EnvRecord /\ (host.torn \/ Applied(new))
  BY <1>2, <1>3, <1>4 DEF EnvRecord, Applied, Landed
<1>6. UNCHANGED <<job, unsettled, disk, broken, proc, plan, host, receipts, answered, offline, disturbed>>
  BY <1>1 DEF Untouched, files, history
<1>7. CASE (proc = "command" \/ new = Env) /\ Wait(Exec, "reconciled", o) /\ NoSave
  <2>1. at'[Exec] = "reconciled" /\ on'[Exec] = o /\ mem' = mem
    BY <1>2, <1>7, WaitTyped, ConstantsFacts DEF Phases, NoSave
  <2>2. proc # "command" => host.torn \/ Applied(mem["env"])
    BY <1>3, <1>5, <1>7
  <2>3. Recorded'
    BY <1>2, <1>6, <2>1, <2>2 DEF Recorded, Applied
  <2> QED BY <1>1, <1>7, <2>3, ExecMoves DEF Behind, Overdue
<1>8. CASE Wait(Exec, "unreconciled", o) /\ NoSave
  <2>1. at'[Exec] = "unreconciled"
    BY <1>2, <1>8, WaitTyped, ConstantsFacts DEF Phases
  <2>2. Recorded'
    BY <2>1 DEF Recorded
  <2> QED BY <1>1, <1>8, <2>2, ExecMoves DEF Behind, Overdue
<1> HIDE DEF new
<1>9. CASE Save(Exec, "env", new, "applying", o)
  <2>1. /\ at' \in [Who -> Phases] /\ on' \in [Who -> 0 .. MaxOps] /\ at'[Exec] = "applying" /\ on'[Exec] = o
        /\ \A x \in Who \ {Exec} : at'[x] = at[x] /\ on'[x] = on[x]
    BY <1>2, <1>9, WaitTyped, ConstantsFacts DEF Save, Phases
  <2>2. Persisted("env", Exec, new)
    BY <1>6, <1>9 DEF Save, Persisted
  <2>3. /\ mem'["env"] = new /\ \A e \in Chain("env")' : e \in Chain("env") \/ e = new
        /\ mem'["app"] = mem["app"] /\ Chain("app")' = Chain("app")
    <3>1. SavedChain("env", Exec, new) /\ "app" \in Files \ {"env"}
      BY <2>2, SavedFacts, ConstantsFacts
    <3> QED BY <3>1 DEF SavedChain
  <2>4. Typed'
    <3>1. ChainsTyped'
      BY <1>5, <2>2, SavedTyped, ConstantsFacts
    <3> QED BY <1>6, <2>1, <3>1 DEF Typed, TypeOK, ChainsTyped, Phases
  <2>5. Course'
    <3>1. Known' = Known /\ \A S : InState(S)' = InState(S)
      BY <1>6 DEF Known, InState
    <3>2. \A x \in Clients : at'[x] = at[x] /\ on'[x] = on[x]
      BY <2>1, ConstantsFacts
    <3>3. at'[Exec] \in Late /\ at'[Exec] \notin Early
      BY <2>1 DEF Late, Early
    <3> QED BY <1>1, <1>2, <1>6, <2>1, <3>1, <3>2, <3>3 DEF Course
  <2>6. Steady /\ Calm /\ Known' = Known
    BY <1>6 DEF Steady, Calm, Known, InState
  <2>7. AllNamed'
    BY <1>6, <2>3, <2>6, NamedStays DEF Accounted
  <2>8. AllPrepared'
    <3>1. \A x \in Clients : plan'[x] = plan[x] /\ at'[x] = at[x]
      BY <1>6, <2>1, ConstantsFacts
    <3> QED BY <2>6, <3>1, PreparedStays
  <2>9. Built'
    BY <1>6, <2>1, <2>6, BuiltStays
  <2>10. Waiters'
    <3>1. \A x \in Who \ {Exec} : Patient(x)
      BY <2>1 DEF Patient
    <3> QED BY <1>1, <2>1, <2>2, <2>6, <3>1, WaitersSavedEnv
  <2>11. Lagging'
    BY <1>1, <1>6, <2>1, <2>2, LaggingSavedEnv DEF Behind, Overdue
  <2>12. Effects' /\ Agreement'
    <3>1. \A a \in Chain("app")' : \E x \in Chain("app") : Alike(a, x)
      BY <2>3 DEF Alike
    <3>2. \A e \in Chain("env")' : \/ \E x \in Chain("env") : e.applied = x.applied /\ e.rel = x.rel
                                   \/ host.torn \/ Applied(e)
      BY <1>5, <2>3
    <3>3. Sober /\ Rejournalled
      BY <1>6, <2>1 DEF Sober, Early, Rejournalled
    <3> QED BY <1>6, <3>1, <3>2, <3>3, StillAgrees
  <2>13. Recorded'
    BY <1>2, <1>5, <1>6, <2>1, <2>3 DEF Recorded, Applied
  <2>14. Answers'
    BY <1>6, <2>3, <2>6, AnswersStay
  <2> QED BY <2>4, <2>5, <2>7, <2>8, <2>9, <2>10, <2>11, <2>12, <2>13, <2>14
<1> QED BY <1>7, <1>8, <1>9 DEF MarkApplied, Current, new

LEMMA GiveUpKeeps == ASSUME IndInv, GiveUp PROVE IndInv'
<1> USE DEF IndInv
<1>1. at[Exec] = "lost" /\ UNCHANGED <<job, unsettled, disk, host, receipts, answered, offline, disturbed>>
  BY DEF GiveUp, Worker, files, history
<1>2. CASE Vanish
  <2>1. UNCHANGED <<files, host, receipts, history>> /\ disturbed' \in Nat
    BY <1>1 DEF files, history, Typed
  <2>2. IndInv
    OBVIOUS
  <2> HIDE DEF IndInv
  <2> QED BY <1>2, <2>1, <2>2, VanishKeeps
<1>3. CASE proc = "serving" /\ Wait(Exec, "halted", 0) /\ NoSave /\ UNCHANGED <<broken, proc, plan>>
  <2>1. /\ at' \in [Who -> Phases] /\ on' \in [Who -> 0 .. MaxOps] /\ at'[Exec] = "halted"
        /\ \A x \in Who \ {Exec} : at'[x] = at[x] /\ on'[x] = on[x]
    BY <1>3, WaitTyped, ConstantsFacts DEF Phases
  <2>2. UNCHANGED <<mem, queue>>
    BY <1>3 DEF NoSave
  <2>3. Typed'
    BY <1>1, <1>3, <2>1, <2>2 DEF Typed, TypeOK, Phases
  <2>4. \A x \in Clients : at'[x] = at[x] /\ on'[x] = on[x]
    BY <2>1, ConstantsFacts
  <2>5. Course'
    <3>1. Known' = Known /\ \A S : InState(S)' = InState(S)
      BY <1>1 DEF Known, InState
    <3>2. InState({"running"}) = {}
      BY <1>1, LateFacts DEF Late
    <3> QED BY <1>1, <1>3, <2>1, <2>4, <3>1, <3>2 DEF Course, Early, Late
  <2>6. \A w \in Who : Patient(w)
    BY <1>1, <2>1 DEF Patient, Waiting
  <2>7. AllNamed' /\ Built' /\ Waiters' /\ Lagging' /\ Effects' /\ Agreement' /\ Answers'
    BY <1>1, <2>1, <2>2, <2>6, QuietKeeps DEF Rejournalled, Sober, Early, Behind, Overdue
  <2>8. AllPrepared'
    <3>1. Steady /\ Known' = Known
      BY <1>1 DEF Steady, Known, InState
    <3> QED BY <1>3, <2>4, <3>1, PreparedStays
  <2>9. Recorded'
    BY <2>1 DEF Recorded
  <2> QED BY <2>3, <2>5, <2>7, <2>8, <2>9
<1> QED BY <1>2, <1>3 DEF GiveUp

LEMMA BootKeeps == ASSUME IndInv, Boot PROVE IndInv'
<1> USE DEF IndInv
<1>1. /\ proc = "down" /\ proc' = "starting" /\ unsettled' = unsettled \cup InState({"running"})
      /\ UNCHANGED <<job, disk, mem, queue, broken, at, on, plan, host, receipts, answered, offline, disturbed>>
  BY DEF Boot, history
<1>2. /\ \A w \in Who : at[w] = "idle"
      /\ at[Exec] = "idle" /\ \A x \in Clients : at[x] = "idle"
  BY <1>1, ConstantsFacts DEF Course
<1>3. Typed'
  BY <1>1 DEF Typed, TypeOK, InState
<1>4. Course'
  <2>1. Known' = Known /\ \A S : InState(S)' = InState(S)
    BY <1>1 DEF Known, InState
  <2>2. InState(Active) \cup unsettled' = InState(Active) \cup unsettled
        /\ unsettled' \subseteq InState({"running"} \cup Terminal)
    BY <1>1 DEF Course, InState, Active
  <2>3. \A x, y \in InState(Active)' \cup unsettled' : x = y
    BY <2>1, <2>2 DEF Course
  <2> QED BY <1>1, <1>2, <2>1, <2>2, <2>3 DEF Course, Early, Late
<1>5. Rejournalled /\ Sober /\ \A w \in Who : Patient(w)
  BY <1>1, <1>2 DEF Rejournalled, Sober, Patient, InState, Early
<1>6. AllNamed' /\ Built' /\ Waiters' /\ Lagging' /\ Effects' /\ Agreement' /\ Answers'
  BY <1>1, <1>5, QuietKeeps
<1>7. AllPrepared'
  <2>1. Steady /\ Known' = Known
    BY <1>1 DEF Steady, Known, InState
  <2> QED BY <1>1, <2>1, PreparedStays
<1>8. Recorded'
  BY <1>1, <1>2 DEF Recorded
<1> QED BY <1>3, <1>4, <1>6, <1>7, <1>8

LEMMA StartRuntimeKeeps == ASSUME IndInv, StartRuntime PROVE IndInv'
<1> USE DEF IndInv
<1>1. /\ proc = "starting" /\ at[Exec] = "idle"
      /\ UNCHANGED <<job, unsettled, disk, host, receipts, answered, offline, disturbed>>
  BY DEF StartRuntime, Worker, files, history
<1>2. CASE Vanish
  <2>1. UNCHANGED <<files, host, receipts, history>> /\ disturbed' \in Nat
    BY <1>1 DEF files, history, Typed
  <2>2. IndInv
    OBVIOUS
  <2> HIDE DEF IndInv
  <2> QED BY <1>2, <2>1, <2>2, VanishKeeps
<1>3. CASE unsettled = {} /\ proc' = "serving" /\ NoSave /\ UNCHANGED <<broken, at, on, plan>>
  <2>1. UNCHANGED <<mem, queue>>
    BY <1>3 DEF NoSave
  <2>2. Typed'
    BY <1>1, <1>3, <2>1 DEF Typed, TypeOK
  <2>3. Course'
    <3>1. Known' = Known /\ \A S : InState(S)' = InState(S)
      BY <1>1 DEF Known, InState
    <3>2. InState({"running"}) = {}
      BY <1>1, <1>3 DEF Course
    <3> QED BY <1>1, <1>3, <3>1, <3>2 DEF Course, Early, Late
  <2>4. AllNamed' /\ Built' /\ Waiters' /\ Lagging' /\ Effects' /\ Agreement' /\ Answers'
    BY <1>1, <1>3, <2>1, QuietKeeps DEF Rejournalled, Sober, Patient
  <2>5. AllPrepared'
    <3>1. Steady /\ Known' = Known
      BY <1>1 DEF Steady, Known, InState
    <3> QED BY <1>3, <3>1, PreparedStays
  <2>6. Recorded'
    BY <1>1, <1>3 DEF Recorded
  <2> QED BY <2>2, <2>3, <2>4, <2>5, <2>6
<1> QED BY <1>2, <1>3 DEF StartRuntime

\* A stored result is taken up, at startup or by a command.
LEMMA TakenUp ==
  ASSUME IndInv, NEW o \in Ops, o \in unsettled, job[o].st \in Terminal, Wait(Exec, "terminal", o),
         \/ proc = "starting" /\ proc' = "starting" /\ at[Exec] = "idle"
         \/ proc = "down" /\ proc' = "command",
         UNCHANGED <<job, unsettled, disk, mem, queue, broken, plan, host, receipts, answered, offline, disturbed>>
  PROVE  IndInv'
<1> USE DEF IndInv
<1>1. o \in 0 .. MaxOps /\ at[Exec] = "idle" /\ \A x \in Clients : at[x] = "idle"
  BY ConstantsFacts DEF Course
<1>2. /\ at' \in [Who -> Phases] /\ on' \in [Who -> 0 .. MaxOps] /\ at'[Exec] = "terminal" /\ on'[Exec] = o
      /\ \A x \in Who \ {Exec} : at'[x] = at[x] /\ on'[x] = on[x]
  BY <1>1, WaitTyped, ConstantsFacts DEF Phases
<1>3. Typed'
  BY <1>2 DEF Typed, TypeOK, Phases
<1>4. \A x \in Clients : at'[x] = at[x] /\ on'[x] = on[x]
  BY <1>2, ConstantsFacts
<1>5. Course'
  <2>1. Known' = Known /\ \A S : InState(S)' = InState(S)
    BY DEF Known, InState
  <2>2. o \in InState(Terminal)
    BY DEF InState
  <2> QED BY <1>1, <1>2, <1>4, <2>1, <2>2 DEF Course, Early, Late
<1>6. \A w \in Who : Patient(w)
  BY <1>1, <1>2 DEF Patient, Waiting
<1>7. AllNamed' /\ Built' /\ Waiters' /\ Lagging' /\ Effects' /\ Agreement' /\ Answers'
  BY <1>1, <1>2, <1>6, QuietKeeps DEF Rejournalled, Sober, Early, Behind, Overdue
<1>8. AllPrepared'
  <2>1. Steady /\ Known' = Known
    BY DEF Steady, Known, InState
  <2> QED BY <1>4, <2>1, PreparedStays
<1>9. Recorded'
  BY <1>2 DEF Recorded
<1> QED BY <1>3, <1>5, <1>7, <1>8, <1>9

LEMMA ResumeAtStartKeeps == ASSUME IndInv, NEW o \in Ops, ResumeAtStart(o) PROVE IndInv'
BY TakenUp DEF ResumeAtStart, Worker, NoSave, Untouched, files, history

LEMMA ReconcileOfflineKeeps == ASSUME IndInv, NEW o \in Ops, ReconcileOffline(o) PROVE IndInv'
BY TakenUp DEF ReconcileOffline, files, history

Stages == {"absent", "cancelled"} \cup Active \cup Terminal
Job    == [st : Stages, pay : Payload, prev : Nat]

LEMMA ResultFacts ==
  ASSUME NEW o \in Ops, NEW st \in Stages, NEW n \in Nat, job \in [Ops -> Job],
         job' = [job EXCEPT ![o].st = st, ![o].prev = n]
  PROVE  /\ job'[o].st = st /\ job'[o].prev = n /\ job'[o].pay = job[o].pay
         /\ \A x \in Ops \ {o} : job'[x] = job[x]
         /\ job' \in [Ops -> Job]
<1> DEFINE j == [st |-> st, pay |-> job[o].pay, prev |-> n]
<1>1. j \in Job
  BY DEF Job
<1>2. job' = [job EXCEPT ![o] = j]
  <2>1. job[o] = [st |-> job[o].st, pay |-> job[o].pay, prev |-> job[o].prev]
    BY DEF Job
  <2>2. job'[o] = j
    BY <2>1 DEF Job
  <2> QED BY <2>2
<1> HIDE DEF j
<1>3. job' \in [Ops -> Job] /\ job'[o] = j /\ \A x \in Ops \ {o} : job'[x] = job[x]
  BY <1>1, <1>2
<1>4. j.st = st /\ j.prev = n /\ j.pay = job[o].pay
  BY DEF j
<1> QED BY <1>3, <1>4

LEMMA StatusFacts ==
  ASSUME NEW o \in Ops, NEW st \in Stages, job \in [Ops -> Job],
         job' = [job EXCEPT ![o].st = st]
  PROVE  /\ job'[o].st = st /\ job'[o].pay = job[o].pay /\ job'[o].prev = job[o].prev
         /\ \A x \in Ops \ {o} : job'[x] = job[x]
         /\ job' \in [Ops -> Job]
BY DEF Job

LEMMA RecoverRunningKeeps == ASSUME IndInv, NEW o \in Ops, RecoverRunning(o) PROVE IndInv'
<1> USE DEF IndInv
<1>1. /\ proc = "down" /\ job[o].st = "running" /\ o \in receipts
      /\ job' = [job EXCEPT ![o].st = "succeeded", ![o].prev = host.prev]
      /\ unsettled' = unsettled \cup {o} /\ proc' = "command" /\ Wait(Exec, "terminal", o)
      /\ UNCHANGED <<disk, mem, queue, broken, plan, host, receipts, answered, offline, disturbed>>
  BY DEF RecoverRunning, history
<1>2. o \in 0 .. MaxOps /\ at[Exec] = "idle" /\ \A x \in Clients : at[x] = "idle"
  BY <1>1, ConstantsFacts DEF Course
<1>3. /\ at' \in [Who -> Phases] /\ on' \in [Who -> 0 .. MaxOps] /\ at'[Exec] = "terminal" /\ on'[Exec] = o
      /\ \A x \in Who \ {Exec} : at'[x] = at[x] /\ on'[x] = on[x]
  BY <1>1, <1>2, WaitTyped, ConstantsFacts DEF Phases
<1>4. \A x \in Clients : at'[x] = at[x] /\ on'[x] = on[x]
  BY <1>3, ConstantsFacts
<1>5. /\ job'[o].st = "succeeded" /\ job'[o].prev = host.prev /\ job'[o].pay = job[o].pay
      /\ \A x \in Ops \ {o} : job'[x] = job[x]
      /\ job' \in [Ops -> Job]
  <2>1. host.prev \in Nat /\ "succeeded" \in Stages /\ job \in [Ops -> Job]
    BY DEF Typed, TypeOK, Host, Stages, Terminal, Job
  <2> QED BY <1>1, <2>1, ResultFacts
<1>6. Typed'
  BY <1>1, <1>3, <1>5 DEF Typed, TypeOK, Phases, Job, Stages
<1>7. \A x \in InState(Active) \cup unsettled : x = o
  <2>1. o \in InState(Active)
    BY <1>1 DEF InState, Active
  <2> QED BY <2>1 DEF Course
<1>8. /\ InState(Active)' = {} /\ InState({"running"})' = {} /\ o \in InState(Terminal)'
      /\ unsettled' = {o} /\ Known' = Known
  BY <1>1, <1>5, <1>7 DEF InState, Active, Terminal, Known
<1>9. Course'
  <2>1. InState({"running"} \cup Terminal)' = InState({"running"})' \cup InState(Terminal)'
    BY DEF InState
  <2> QED BY <1>1, <1>2, <1>3, <1>4, <1>8, <2>1 DEF Course, Early, Late
<1>10. Steady /\ Calm
  BY <1>5, <1>8 DEF Steady, Calm, Active, Known
<1>11. \A x \in Known : Accounted(x) => Accounted(x)'
  BY <1>1, <1>5, <1>8 DEF Accounted, Known
<1>12. AllNamed'
  BY <1>1, <1>10, <1>11, SameChains, NamedStays, ConstantsFacts
<1>13. AllPrepared'
  BY <1>1, <1>4, <1>8, <1>10, PreparedStays
<1>14. Built'
  BY <1>1, <1>3, <1>5, <1>10, BuiltStays
<1>15. Waiters'
  <2>1. \A w \in Who : Patient(w)
    BY <1>2, <1>4 DEF Patient, Waiting, Who
  <2> QED BY <1>1, <1>10, <2>1, WaitersStay
<1>16. Lagging'
  <2>1. \A x \in Known : job[x].st = "cancelled" => job'[x].st = "cancelled"
    BY <1>1, <1>5 DEF Known
  <2> QED BY <1>1, <1>2, <2>1, SameChains, LaggingStays DEF Behind, Overdue
<1>17. (~host.torn => Landed(o) /\ Landed(o)') /\ \A x \in Ops : Landed(x)' = Landed(x)
  <2>1. \A x \in Ops : Landed(x)' = Landed(x)
    BY <1>1, <1>5 DEF Landed, ReleaseOf
  <2> QED BY <1>1, <2>1 DEF Effects
<1>18. Effects'
  <2>1. \A x \in Ops : job'[x].st # "running"
    BY <1>8 DEF InState
  <2>2. \A x \in receipts : job'[x].st \in {"running", "succeeded"}
    BY <1>5 DEF Effects, Typed, TypeOK
  <2>3. ~host.torn => \A x \in unsettled' : Landed(x)' /\ job'[x].prev = host'.prev
    BY <1>1, <1>5, <1>8, <1>17
  <2>4. at'[Exec] \notin {"succeeded", "claimed", "failed"}
    BY <1>3
  <2>5. \A x \in receipts' : x \in Ops /\ receipts' = receipts
    BY <1>1 DEF Typed, TypeOK
  <2> QED BY <1>1, <2>1, <2>2, <2>3, <2>4, <2>5 DEF Effects
<1>19. Agreement'
  <2> SUFFICES ASSUME ~host.torn PROVE Agreement'
    BY <1>1 DEF Agreement
  <2>1. \A x \in Ops : Doubtful(x) => Doubtful(x)'
    <3>1. \A x \in Ops : Doubtful(x) => x = o
      BY <1>7 DEF Doubtful, InState, Active
    <3>2. Doubtful(o)'
      BY <1>5, <1>8, <1>17 DEF Doubtful
    <3> QED BY <3>1, <3>2
  <2>2. \A K : Unrecorded(K) => Unrecorded(K)'
    <3> SUFFICES ASSUME NEW K, Unrecorded(K) PROVE Unrecorded(K)'
      OBVIOUS
    <3>1. PICK x \in Ops : Doubtful(x) /\ job[x].pay.kind \in K
      BY DEF Unrecorded
    <3>2. Doubtful(x)' /\ job'[x].pay.kind \in K
      BY <1>5, <2>1, <3>1
    <3> QED BY <3>2 DEF Unrecorded
  <2> QED BY <1>1, <2>2, SameChains, ConstantsFacts DEF Agreement, Matches, Applied
<1>20. Recorded'
  BY <1>3 DEF Recorded
<1>21. Answers'
  BY <1>1, <1>10, SameChains, AnswersStay, ConstantsFacts DEF Calm
<1> QED BY <1>6, <1>9, <1>12, <1>13, <1>14, <1>15, <1>16, <1>18, <1>19, <1>20, <1>21

-----------------------------------------------------------------------------
(* The executor and the host.                                              *)

LEMMA ClaimKeeps == ASSUME IndInv, NEW o \in Ops, Claim(o) PROVE IndInv'
<1> USE DEF IndInv
<1>1. /\ proc = "serving" /\ at[Exec] = "idle" /\ unsettled = {} /\ job[o].st = "queued"
      /\ job' = [job EXCEPT ![o].st = "running"] /\ Wait(Exec, "claimed", o)
      /\ UNCHANGED <<unsettled, disk, mem, queue, broken, proc, plan, host, receipts, answered, offline, disturbed>>
  BY DEF Claim, Worker, history
<1>2. o \in 0 .. MaxOps
  BY ConstantsFacts
<1>3. /\ at' \in [Who -> Phases] /\ on' \in [Who -> 0 .. MaxOps] /\ at'[Exec] = "claimed" /\ on'[Exec] = o
      /\ \A x \in Who \ {Exec} : at'[x] = at[x] /\ on'[x] = on[x]
  BY <1>1, <1>2, WaitTyped, ConstantsFacts DEF Phases
<1>4. \A x \in Clients : at'[x] = at[x] /\ on'[x] = on[x]
  BY <1>3, ConstantsFacts
<1>5. /\ job'[o].st = "running" /\ job'[o].pay = job[o].pay
      /\ \A x \in Ops \ {o} : job'[x] = job[x]
      /\ job' \in [Ops -> Job]
  <2>1. "running" \in Stages /\ job \in [Ops -> Job]
    BY DEF Typed, TypeOK, Stages, Active, Job
  <2> QED BY <1>1, <2>1, StatusFacts
<1>6. Typed'
  BY <1>1, <1>3, <1>5 DEF Typed, TypeOK, Phases, Job, Stages
<1>7. InState({"running"}) = {} /\ \A x \in InState(Active) : x = o
  <2>1. o \in InState(Active)
    BY <1>1 DEF InState, Active
  <2> QED BY <1>1, <2>1 DEF Course, Early
<1>8. /\ InState({"running"})' = {o} /\ Known' = Known
      /\ InState(Active)' = {o} /\ o \in InState(Active)
  BY <1>1, <1>5, <1>7 DEF InState, Active, Known
<1>9. Course'
  BY <1>1, <1>3, <1>4, <1>8 DEF Course, Early, Late
<1>10. Steady /\ Calm
  BY <1>1, <1>5, <1>8 DEF Steady, Calm, Active, Known
<1>11. \A x \in Known : Accounted(x) => Accounted(x)'
  BY <1>1, <1>5, <1>8 DEF Accounted, Known, Active
<1>12. AllNamed'
  BY <1>1, <1>10, <1>11, SameChains, NamedStays, ConstantsFacts
<1>13. AllPrepared'
  BY <1>1, <1>4, <1>8, <1>10, PreparedStays
<1>14. Built'
  BY <1>1, <1>3, <1>5, <1>10, BuiltStays
<1>15. Waiters'
  <2>1. \A w \in Who : Patient(w)
    BY <1>1, <1>4 DEF Patient, Waiting, Who
  <2> QED BY <1>1, <1>10, <2>1, WaitersStay
<1>16. Lagging'
  <2>1. \A x \in Known : job[x].st = "cancelled" => job'[x].st = "cancelled"
    BY <1>1, <1>5 DEF Known
  <2> QED BY <1>1, <2>1, SameChains, LaggingStays DEF Behind, Overdue
<1>17. o \notin receipts /\ \A x \in receipts : x \in Ops /\ job[x].st \in {"running", "succeeded"}
  BY <1>1 DEF Effects, Typed, TypeOK
<1>18. Effects'
  <2>1. \A x \in receipts : job'[x].st = "succeeded"
    BY <1>5, <1>7, <1>17 DEF InState
  <2>2. \A x \in Ops : job'[x].st = "running" => x = o
    BY <1>8 DEF InState
  <2> QED BY <1>1, <1>3, <1>17, <2>1, <2>2 DEF Effects
<1>19. Agreement'
  <2>1. \A x \in Ops : ~Doubtful(x)
    BY <1>1, <1>7 DEF Doubtful, InState
  <2>2. \A K : ~Unrecorded(K)
    BY <2>1 DEF Unrecorded
  <2> QED BY <1>1, <2>2, SameChains, ConstantsFacts DEF Agreement, Matches, Applied
<1>20. Recorded'
  BY <1>3 DEF Recorded
<1>21. Answers'
  BY <1>1, <1>10, SameChains, AnswersStay, ConstantsFacts DEF Calm
<1> QED BY <1>6, <1>9, <1>12, <1>13, <1>14, <1>15, <1>16, <1>18, <1>19, <1>20, <1>21

LEMMA CompleteKeeps == ASSUME IndInv, Complete PROVE IndInv'
<1> USE DEF IndInv
<1> DEFINE o == on[Exec]
<1>1. /\ at[Exec] \in Terminal /\ job' = [job EXCEPT ![o].st = at[Exec], ![o].prev = host.prev]
      /\ unsettled' = unsettled \cup {o} /\ Wait(Exec, "terminal", o)
      /\ UNCHANGED <<disk, mem, queue, broken, proc, plan, host, receipts, answered, offline, disturbed>>
  BY DEF Complete, Worker, Current, history
<1>2. /\ o \in Ops /\ o \in 0 .. MaxOps /\ job[o].st = "running" /\ proc = "serving" /\ unsettled = {}
      /\ at[Exec] \in {"succeeded", "failed"}
  BY <1>1, ConstantsFacts DEF Course, Early, Terminal, InState
<1> HIDE DEF o
<1>3. /\ at' \in [Who -> Phases] /\ on' \in [Who -> 0 .. MaxOps] /\ at'[Exec] = "terminal" /\ on'[Exec] = o
      /\ \A x \in Who \ {Exec} : at'[x] = at[x] /\ on'[x] = on[x]
  BY <1>1, <1>2, WaitTyped, ConstantsFacts DEF Phases
<1>4. \A x \in Clients : at'[x] = at[x] /\ on'[x] = on[x]
  BY <1>3, ConstantsFacts
<1>5. /\ job'[o].st = at[Exec] /\ job'[o].prev = host.prev /\ job'[o].pay = job[o].pay
      /\ \A x \in Ops \ {o} : job'[x] = job[x]
      /\ job' \in [Ops -> Job]
  <2>1. host.prev \in Nat /\ at[Exec] \in Stages /\ job \in [Ops -> Job]
    BY <1>1, ConstantsFacts DEF Typed, TypeOK, Host, Stages, Terminal, Job
  <2> QED BY <1>1, <1>2, <2>1, ResultFacts
<1>6. Typed'
  <2>1. unsettled' \subseteq Ops
    BY <1>1, <1>2 DEF Typed, TypeOK
  <2>2. UNCHANGED <<disk, mem, queue, broken, proc, plan, host, receipts, answered, offline, disturbed>>
    BY <1>1
  <2> QED BY <1>3, <1>5, <2>1, <2>2 DEF Typed, TypeOK, Phases, Job, Stages
<1>7. \A x \in InState(Active) \cup unsettled : x = o
  <2>1. o \in InState(Active)
    BY <1>2 DEF InState, Active
  <2> QED BY <2>1 DEF Course
<1>8. /\ InState(Active)' = {} /\ InState({"running"})' = {} /\ o \in InState(Terminal)'
      /\ unsettled' = {o} /\ Known' = Known
  BY <1>1, <1>2, <1>5, <1>7 DEF InState, Active, Terminal, Known
<1>9. Course'
  <2>1. InState({"running"} \cup Terminal)' = InState({"running"})' \cup InState(Terminal)'
    BY DEF InState
  <2> QED BY <1>1, <1>2, <1>3, <1>4, <1>8, <2>1 DEF Course, Early, Late
<1>10. Steady /\ Calm
  BY <1>2, <1>5, <1>8 DEF Steady, Calm, Active, Known
<1>11. \A x \in Known : Accounted(x) => Accounted(x)'
  BY <1>1, <1>5, <1>8 DEF Accounted, Known
<1>12. AllNamed'
  BY <1>1, <1>10, <1>11, SameChains, NamedStays, ConstantsFacts
<1>13. AllPrepared'
  BY <1>1, <1>4, <1>8, <1>10, PreparedStays
<1>14. Built'
  BY <1>1, <1>2, <1>3, <1>5, <1>10, BuiltStays
<1>15. Waiters'
  <2>1. \A w \in Who : Patient(w)
    BY <1>2, <1>4 DEF Patient, Waiting, Who
  <2> QED BY <1>1, <1>10, <2>1, WaitersStay
<1>16. Lagging'
  <2>1. \A x \in Known : job[x].st = "cancelled" => job'[x].st = "cancelled"
    BY <1>2, <1>5 DEF Known
  <2> QED BY <1>1, <1>2, <2>1, SameChains, LaggingStays DEF Behind, Overdue
<1>17. (at[Exec] = "succeeded" /\ ~host.torn => Landed(o)) /\ \A x \in Ops : Landed(x)' = Landed(x)
  <2>1. \A x \in Ops : Landed(x)' = Landed(x)
    BY <1>1, <1>5 DEF Landed, ReleaseOf
  <2> QED BY <2>1 DEF Effects, o
<1>18. Effects'
  <2>1. \A x \in Ops : job'[x].st # "running"
    BY <1>8 DEF InState
  <2>2. \A x \in receipts : job'[x].st \in {"running", "succeeded"}
    <3>1. at[Exec] = "failed" => o \notin receipts
      BY DEF Effects, o
    <3> QED BY <1>2, <1>5, <3>1 DEF Effects, Typed, TypeOK
  <2>3. ~host.torn => \A x \in unsettled' : job'[x].st = "succeeded" => Landed(x)' /\ job'[x].prev = host'.prev
    BY <1>1, <1>2, <1>5, <1>8, <1>17
  <2>4. at'[Exec] \notin {"succeeded", "claimed", "failed"}
    BY <1>3
  <2>5. \A x \in receipts' : x \in Ops /\ receipts' = receipts
    BY <1>1 DEF Typed, TypeOK
  <2> QED BY <1>1, <2>1, <2>2, <2>3, <2>4, <2>5 DEF Effects
<1>19. Agreement'
  <2> SUFFICES ASSUME ~host.torn PROVE Agreement'
    BY <1>1 DEF Agreement
  <2>1. \A x \in Ops : Doubtful(x) => Doubtful(x)'
    <3>1. \A x \in Ops : Doubtful(x) => x = o /\ at[Exec] = "succeeded"
      BY <1>2, <1>7 DEF Doubtful, InState, Active, o
    <3>2. ASSUME NEW x \in Ops, x = o, at[Exec] = "succeeded" PROVE Doubtful(x)'
      <4>1. job'[x].st = "succeeded" /\ x \in unsettled' /\ Landed(x)'
        BY <1>5, <1>8, <1>17, <3>2
      <4> QED BY <4>1 DEF Doubtful
    <3> QED BY <3>1, <3>2
  <2>2. \A K : Unrecorded(K) => Unrecorded(K)'
    <3> SUFFICES ASSUME NEW K, Unrecorded(K) PROVE Unrecorded(K)'
      OBVIOUS
    <3>1. PICK x \in Ops : Doubtful(x) /\ job[x].pay.kind \in K
      BY DEF Unrecorded
    <3>2. Doubtful(x)' /\ job'[x].pay.kind \in K
      BY <1>2, <1>5, <2>1, <3>1
    <3> QED BY <3>2 DEF Unrecorded
  <2> QED BY <1>1, <2>2, SameChains, ConstantsFacts DEF Agreement, Matches, Applied
<1>20. Recorded'
  BY <1>3 DEF Recorded
<1>21. Answers'
  BY <1>1, <1>10, SameChains, AnswersStay, ConstantsFacts DEF Calm
<1> QED BY <1>6, <1>9, <1>12, <1>13, <1>14, <1>15, <1>16, <1>18, <1>19, <1>20, <1>21

\* What a successful operation makes of the host.
LEMMA OutcomeFacts ==
  ASSUME IndInv, at[Exec] = "claimed", NEW h \in HostOutcomes(on[Exec])
  PROVE  LET o == on[Exec]
             p == job[o].pay
         IN
         /\ h \in Host /\ h.env = p.env /\ h.rev = p.rev /\ h.cur = ReleaseOf(o) /\ h.cur # 0
         /\ h.torn = host.torn /\ h.dirs \cup {h.cur} \subseteq Releases \cup {o}
         /\ p.kind = "rollback" => h.prev = p.cur
         /\ p.kind # "restart" => /\ h.prev # h.cur /\ h.prev = host.cur
                                  /\ ~host.torn => {h.prev, h.cur} \ {0} \subseteq h.dirs
         /\ p.kind = "restart" => h.cur = host.cur /\ h.prev = host.prev /\ h.dirs = host.dirs
         /\ p.kind = "deploy" => h.cur = o
         /\ p.kind \in {"rollback", "restart"} => h.rev = job[h.cur].pay.rev
         /\ p.kind \in {"deploy", "rollback", "restart"}
<1> USE DEF IndInv
<1> DEFINE o == on[Exec]
           p == job[o].pay
<1>1. o \in Ops /\ job[o].st = "running" /\ unsettled = {} /\ o \notin Releases /\ o # 0
  BY ConstantsFacts DEF Course, Early, Built, InState
<1>2. \A x \in InState(Active) : x = o
  BY <1>1 DEF Course, InState, Active
<1> HIDE DEF o
<1>3. \A x \in Ops : ~Doubtful(x)
  BY <1>1, <1>2 DEF Doubtful, InState, Active, o
<1>4. ~host.torn => {host.cur} \ {0} \subseteq host.dirs
  <2>1. ~host.torn => Matches(mem["app"])
    BY <1>3 DEF Agreement, Unrecorded, Chain
  <2> QED BY <2>1 DEF Matches
<1>5. /\ host \in Host /\ host.dirs \subseteq Ops /\ host.cur \in 0 .. MaxOps /\ host.prev \in 0 .. MaxOps
      /\ host.unit \in 0 .. MaxOps
      /\ host.cur \in Releases \/ host.cur = 0
      /\ Releases \subseteq Ops /\ host.dirs \subseteq Releases
  BY ConstantsFacts DEF Typed, Host, Releases, Ops
<1>6. p \in Payload /\ p.kind # "none" /\ Prepared(p)
  BY <1>1 DEF Typed, TypeOK, AllPrepared, Known, InState
<1> HIDE DEF p
<1>7. Materialize(o) \in {p, NoPayload}
  BY DEF Materialize, p
<1>8. /\ Materialize(o) = p /\ p.kind \in {"deploy", "rollback", "restart"}
      /\ h \in (CASE p.kind = "deploy"   -> NodeDeployed(o, p)
                  [] p.kind = "rollback" -> NodeRolledBack(p)
                  [] p.kind = "restart"  -> NodeRestarted(p))
  <2>1. h \in HostOutcomes(o)
    BY DEF o
  <2>2. Materialize(o).kind \in {"deploy", "rollback", "restart"}
    BY <2>1 DEF HostOutcomes
  <2>3. Materialize(o) = p
    BY <1>7, <2>2, ConstantsFacts
  <2> QED BY <2>1, <2>2, <2>3 DEF HostOutcomes
<1>9. \A d \in SUBSET Ops, r \in Ops, u \in 0 .. MaxOps : LET g == SwitchTo(r, p, u, d) IN
        /\ g \in Host /\ g.cur = r /\ g.prev = host.cur /\ g.rev = p.rev /\ g.env = p.env /\ g.dirs = d
        /\ g.torn = host.torn
  <2> SUFFICES ASSUME NEW d \in SUBSET Ops, NEW r \in Ops, NEW u \in 0 .. MaxOps
               PROVE  LET g == SwitchTo(r, p, u, d) IN
        /\ g \in Host /\ g.cur = r /\ g.prev = host.cur /\ g.rev = p.rev /\ g.env = p.env /\ g.dirs = d
        /\ g.torn = host.torn
    OBVIOUS
  <2>1. r \in 0 .. MaxOps /\ p.rev \in Nat /\ p.env \in Nat
    BY <1>6, ConstantsFacts DEF Payload
  <2> QED BY <1>5, <2>1 DEF SwitchTo, Host
<1>10. CASE p.kind = "deploy"
  <2> DEFINE all  == host.dirs \cup {o}
             base == {o, host.cur} \ {0}
             kept == KeptReleases(all, base)
  <2>1. PICK d \in {all, kept} : h = SwitchTo(o, p, o, d)
    BY <1>8, <1>10 DEF NodeDeployed
  <2>2. base \cap all \subseteq kept /\ kept \subseteq all /\ all \subseteq Ops
    BY <1>1, <1>5 DEF KeptReleases
  <2>3. d \subseteq all /\ base \cap all \subseteq d /\ d \in SUBSET Ops
    BY <2>1, <2>2
  <2> HIDE DEF kept
  <2>4. /\ h \in Host /\ h.cur = o /\ h.prev = host.cur /\ h.rev = p.rev /\ h.env = p.env /\ h.dirs = d
        /\ h.torn = host.torn
    BY <1>1, <1>9, <2>1, <2>3, ConstantsFacts
  <2>5. host.cur # o
    BY <1>1, <1>5
  <2>6. ReleaseOf(o) = o
    BY <1>10 DEF ReleaseOf, p
  <2>7. h.dirs \cup {h.cur} \subseteq Releases \cup {o}
    BY <1>5, <2>3, <2>4, ConstantsFacts
  <2>8. ~host.torn => {h.prev, h.cur} \ {0} \subseteq h.dirs
    BY <1>4, <2>3, <2>4
  <2> HIDE DEF all, base
  <2> QED BY <1>1, <1>10, <2>4, <2>5, <2>6, <2>7, <2>8 DEF o, p
<1>11. CASE p.kind = "rollback"
  <2>1. p.rel \in host.dirs /\ host.cur = p.cur /\ host.cur # p.rel /\ h = SwitchTo(p.rel, p, host.unit, host.dirs)
    BY <1>8, <1>11 DEF NodeRolledBack
  <2>2. p.rel \in Ops /\ p.rel # 0 /\ p.rev = job[p.rel].pay.rev
    BY <1>5, <1>6, <1>11, <2>1, ConstantsFacts DEF Prepared
  <2>3. /\ h \in Host /\ h.cur = p.rel /\ h.prev = host.cur /\ h.rev = p.rev /\ h.env = p.env
        /\ h.dirs = host.dirs /\ h.torn = host.torn
    BY <1>5, <1>9, <2>1, <2>2
  <2>4. ReleaseOf(o) = p.rel
    BY <1>11 DEF ReleaseOf, p
  <2>5. p.rel \in Releases
    BY <1>5, <2>1
  <2> QED BY <1>4, <1>5, <1>11, <2>1, <2>2, <2>3, <2>4, <2>5 DEF o, p
<1>12. CASE p.kind = "restart"
  <2>1. host.cur = p.rel /\ h = [host EXCEPT !.rev = p.rev, !.env = p.env]
    BY <1>8, <1>12 DEF NodeRestarted
  <2>2. p.rel \in Ops /\ p.rel # 0 /\ p.rev = job[p.rel].pay.rev
    BY <1>6, <1>12, ConstantsFacts DEF Prepared, Known
  <2>3. /\ h \in Host /\ h.cur = host.cur /\ h.prev = host.prev /\ h.rev = p.rev /\ h.env = p.env
        /\ h.dirs = host.dirs /\ h.torn = host.torn
    BY <1>5, <1>6, <2>1 DEF Host, Payload
  <2>4. ReleaseOf(o) = p.rel
    BY <1>12 DEF ReleaseOf, p
  <2> QED BY <1>4, <1>5, <1>12, <2>1, <2>2, <2>3, <2>4 DEF o, p
<1> QED BY <1>8, <1>10, <1>11, <1>12

\* A failed operation leaves at most its unit and its release, or a torn host.
LEMMA FailureFacts ==
  ASSUME IndInv, at[Exec] = "claimed", NEW h \in HostOutcomes(on[Exec]),
         NEW g, g = Undone(h) \/ g \in LeftBehind(h)
  PROVE  /\ g \in Host /\ g.dirs \cup {g.cur} \subseteq Releases \cup {on[Exec], 0}
         /\ ~g.torn => /\ ~host.torn /\ host.dirs \subseteq g.dirs
                       /\ g.cur = host.cur /\ g.prev = host.prev /\ g.rev = host.rev /\ g.env = host.env
<1>1. /\ h \in Host /\ h.dirs \cup {h.cur} \subseteq Releases \cup {on[Exec]} /\ h.cur # 0
  BY OutcomeFacts
<1>2. /\ host \in Host /\ host.dirs \subseteq Releases /\ host.cur \in Releases \cup {0}
  BY DEF IndInv, Typed, Releases
<1>3. h.cur \in Ops
  BY <1>1, ConstantsFacts DEF Host, Ops
<1>4. CASE g = Undone(h)
  BY <1>1, <1>2, <1>4 DEF Undone, Host
<1>5. CASE g \in LeftBehind(h)
  <2>1. PICK c \in {host.cur, h.cur}, f \in {host, h}, u \in {host.unit, h.unit},
             d \in {host.dirs, host.dirs \cup {h.cur}} :
          g = [host EXCEPT !.cur = c, !.rev = f.rev, !.env = f.env,
                           !.unit = IF c = h.cur THEN h.unit ELSE u, !.dirs = d,
                           !.torn = @ \/ <<c, f.rev, f.env>> # <<host.cur, host.rev, host.env>>]
    <3> DEFINE L(c, f, u, d) ==
                 [host EXCEPT !.cur = c, !.rev = f.rev, !.env = f.env,
                              !.unit = IF c = h.cur THEN h.unit ELSE u, !.dirs = d,
                              !.torn = @ \/ <<c, f.rev, f.env>> # <<host.cur, host.rev, host.env>>]
    <3>1. g \in {L(c, f, u, d) : c \in {host.cur, h.cur}, f \in {host, h},
                                 u \in {host.unit, h.unit},
                                 d \in {host.dirs, host.dirs \cup {h.cur}}}
      BY <1>5 DEF LeftBehind
    <3>2. \E c \in {host.cur, h.cur}, f \in {host, h}, u \in {host.unit, h.unit},
             d \in {host.dirs, host.dirs \cup {h.cur}} : g = L(c, f, u, d)
      <4> HIDE DEF L
      <4> QED BY <3>1
    <3> QED BY <3>2
  <2>2. /\ c \in 0 .. MaxOps /\ f.rev \in Nat /\ f.env \in Nat /\ d \in SUBSET Ops
        /\ (IF c = h.cur THEN h.unit ELSE u) \in 0 .. MaxOps
    BY <1>1, <1>2, <1>3 DEF Host
  <2> QED BY <1>1, <1>2, <2>1, <2>2 DEF Host
<1> QED BY <1>4, <1>5

LEMMA ExecuteKeeps == ASSUME IndInv, Execute PROVE IndInv'
<1> USE DEF IndInv
<1> DEFINE o == on[Exec]
           p == job[o].pay
<1>1. /\ at[Exec] = "claimed" /\ receipts' \in {receipts, receipts \cup {o}}
      /\ UNCHANGED <<job, unsettled, disk, mem, queue, broken, proc, plan, answered, offline>>
      /\ disturbed' \in {disturbed, disturbed + 1}
      /\ \/ host' \in HostOutcomes(o) /\ Wait(Exec, "succeeded", o)
         \/ /\ Wait(Exec, "failed", o) /\ UNCHANGED receipts
            /\ \/ UNCHANGED host
               \/ \E h \in HostOutcomes(o) : host' = Undone(h) \/ host' \in LeftBehind(h)
  BY DEF Execute, Worker, Current, files, history, Disturb
<1>2. /\ o \in Ops /\ o \in 0 .. MaxOps /\ job[o].st = "running" /\ proc = "serving" /\ unsettled = {}
      /\ o \in Known
  BY <1>1, ConstantsFacts DEF Course, Early, InState, Known
<1>3. \A x \in InState(Active) : x = o
  BY <1>2 DEF Course, InState, Active
<1>4. /\ at' \in [Who -> Phases] /\ on' \in [Who -> 0 .. MaxOps] /\ at'[Exec] \in {"succeeded", "failed"}
      /\ on'[Exec] = on[Exec] /\ \A x \in Who \ {Exec} : at'[x] = at[x] /\ on'[x] = on[x]
      /\ at'[Exec] = "succeeded" \/ UNCHANGED receipts
      /\ at'[Exec] = "succeeded" => host' \in HostOutcomes(on[Exec])
      /\ at'[Exec] = "failed" =>
           \/ UNCHANGED host
           \/ \E h \in HostOutcomes(on[Exec]) : host' = Undone(h) \/ host' \in LeftBehind(h)
  <2>1. CASE host' \in HostOutcomes(o) /\ Wait(Exec, "succeeded", o)
    <3>1. "succeeded" \in Phases
      BY DEF Phases
    <3> QED BY <1>2, <2>1, <3>1, WaitTyped, ConstantsFacts
  <2>2. CASE /\ Wait(Exec, "failed", o) /\ UNCHANGED receipts
             /\ \/ UNCHANGED host
                \/ \E h \in HostOutcomes(o) : host' = Undone(h) \/ host' \in LeftBehind(h)
    <3>1. "failed" \in Phases
      BY DEF Phases
    <3> QED BY <1>2, <2>2, <3>1, WaitTyped, ConstantsFacts
  <2> QED BY <1>1, <2>1, <2>2
<1>5. \A x \in Clients : at'[x] = at[x] /\ on'[x] = on[x]
  BY <1>4, ConstantsFacts
<1>6. at'[Exec] = "succeeded" =>
         /\ host' \in Host /\ host'.env = p.env /\ host'.rev = p.rev /\ host'.cur = ReleaseOf(o) /\ host'.cur # 0
         /\ host'.torn = host.torn /\ host'.dirs \cup {host'.cur} \subseteq Releases \cup {o}
         /\ p.kind = "rollback" => host'.prev = p.cur
         /\ p.kind # "restart" => /\ host'.prev # host'.cur /\ host'.prev = host.cur
                                  /\ ~host.torn => {host'.prev, host'.cur} \ {0} \subseteq host'.dirs
         /\ p.kind = "restart" => host'.cur = host.cur /\ host'.prev = host.prev /\ host'.dirs = host.dirs
         /\ p.kind = "deploy" => host'.cur = o
         /\ p.kind \in {"rollback", "restart"} => host'.rev = job[host'.cur].pay.rev
         /\ p.kind \in {"deploy", "rollback", "restart"}
  <2> SUFFICES ASSUME at'[Exec] = "succeeded"
               PROVE  LET h == host' IN
         /\ h \in Host /\ h.env = p.env /\ h.rev = p.rev /\ h.cur = ReleaseOf(o) /\ h.cur # 0
         /\ h.torn = host.torn /\ h.dirs \cup {h.cur} \subseteq Releases \cup {o}
         /\ p.kind = "rollback" => h.prev = p.cur
         /\ p.kind # "restart" => /\ h.prev # h.cur /\ h.prev = host.cur
                                  /\ ~host.torn => {h.prev, h.cur} \ {0} \subseteq h.dirs
         /\ p.kind = "restart" => h.cur = host.cur /\ h.prev = host.prev /\ h.dirs = host.dirs
         /\ p.kind = "deploy" => h.cur = o
         /\ p.kind \in {"rollback", "restart"} => h.rev = job[h.cur].pay.rev
         /\ p.kind \in {"deploy", "rollback", "restart"}
    OBVIOUS
  <2>1. host' \in HostOutcomes(on[Exec])
    BY <1>4
  <2>2. IndInv
    OBVIOUS
  <2> HIDE DEF IndInv
  <2> QED BY <1>1, <2>1, <2>2, OutcomeFacts
<1>a. at'[Exec] = "failed" =>
         /\ host' \in Host /\ host'.dirs \cup {host'.cur} \subseteq Releases \cup {o, 0}
         /\ ~host'.torn => /\ ~host.torn /\ host.dirs \subseteq host'.dirs
                           /\ host'.cur = host.cur /\ host'.prev = host.prev
                           /\ host'.rev = host.rev /\ host'.env = host.env
  <2>1. /\ host \in Host /\ host.dirs \cup {host.cur} \subseteq Releases \cup {o, 0}
    BY DEF Typed, Releases
  <2>2. IndInv
    OBVIOUS
  <2> HIDE DEF IndInv
  <2>3. ASSUME NEW h \in HostOutcomes(o), host' = Undone(h) \/ host' \in LeftBehind(h)
        PROVE  /\ host' \in Host /\ host'.dirs \cup {host'.cur} \subseteq Releases \cup {o, 0}
               /\ ~host'.torn => /\ ~host.torn /\ host.dirs \subseteq host'.dirs
                                 /\ host'.cur = host.cur /\ host'.prev = host.prev
                                 /\ host'.rev = host.rev /\ host'.env = host.env
    BY <1>1, <2>2, <2>3, FailureFacts
  <2> QED BY <1>4, <2>1, <2>3
<1> HIDE DEF o, p
<1>7. Typed'
  <2>1. host' \in Host
    BY <1>4, <1>6, <1>a DEF Typed
  <2>2. receipts' \subseteq Ops
    BY <1>1, <1>2 DEF Typed, TypeOK
  <2>3. disturbed' \in Nat
    BY <1>1 DEF Typed
  <2> QED BY <1>1, <1>4, <2>1, <2>2, <2>3 DEF Typed, TypeOK, Phases
<1>8. Course'
  <2>1. Known' = Known /\ \A S : InState(S)' = InState(S)
    BY <1>1 DEF Known, InState
  <2> QED BY <1>1, <1>2, <1>4, <1>5, <2>1 DEF Course, Early, Late
<1>9. Steady /\ Calm
  BY <1>1 DEF Steady, Calm, Known, InState
<1>10. AllNamed'
  BY <1>1, <1>9, SameChains, NamedStays, ConstantsFacts DEF Accounted
<1>11. AllPrepared'
  <2>1. Known' = Known
    BY <1>1 DEF Known, InState
  <2> QED BY <1>1, <1>5, <1>9, <2>1, PreparedStays
<1>12. Built'
  <2>1. CASE at'[Exec] = "succeeded"
    <3>1. Releases' \subseteq Releases \cup {o}
      BY <1>6, <2>1 DEF Releases
    <3>2. \A r \in Releases' : job'[r].st \notin {"absent", "queued", "cancelled"}
      BY <1>1, <1>2, <3>1 DEF Built
    <3>3. host'.rev = job'[host'.cur].pay.rev /\ host'.cur # 0
      BY <1>1, <1>6, <2>1 DEF p
    <3> QED BY <2>1, <3>2, <3>3 DEF Built
  <2>2. CASE at'[Exec] = "failed"
    <3>1. Releases' \subseteq Releases \cup {o}
      <4>1. host'.dirs \subseteq Ops /\ 0 \notin Ops
        BY <1>a, <2>2, ConstantsFacts DEF Host
      <4> QED BY <1>a, <2>2, <4>1 DEF Releases
    <3>2. \A r \in Releases' : job'[r].st \notin {"absent", "queued", "cancelled"}
      BY <1>1, <1>2, <3>1 DEF Built
    <3> QED BY <1>1, <1>a, <2>2, <3>2 DEF Built
  <2> QED BY <1>4, <2>1, <2>2
<1>13. Waiters'
  <2>1. \A w \in Who : Patient(w)
    BY <1>1, <1>5 DEF Patient, Waiting, Who
  <2> QED BY <1>1, <1>9, <2>1, WaitersStay
<1>14. Lagging'
  BY <1>1, SameChains, LaggingStays DEF Behind, Overdue
<1>15. \A x \in Ops : ~Doubtful(x)
  BY <1>1, <1>2, <1>3 DEF Doubtful, InState, Active, o
<1>b. ~host'.torn => ~host.torn
  BY <1>4, <1>6, <1>a
<1>16. ~host.torn => /\ \A a \in Chain("app") : Matches(a)
                     /\ offline = {} /\ host.cur # 0 => \A e \in Chain("env") : Applied(e)
  BY <1>15 DEF Agreement, Unrecorded
<1>17. at'[Exec] = "succeeded" /\ ~host.torn => \A x \in Ops : x = o => Landed(x)' /\ Doubtful(x)'
  <2> SUFFICES ASSUME at'[Exec] = "succeeded", ~host.torn, NEW x \in Ops, x = o
               PROVE  Landed(x)' /\ Doubtful(x)'
    OBVIOUS
  <2>1. job' = job /\ job[x].pay = p /\ ReleaseOf(x)' = ReleaseOf(x)
    BY <1>1 DEF p, ReleaseOf
  <2>2. Landed(x)'
    BY <1>6, <2>1 DEF Landed
  <2> QED BY <1>2, <2>1, <2>2 DEF Doubtful
<1>18. Effects'
  <2>1. at'[Exec] = "succeeded" /\ ~host'.torn => Landed(on[Exec])'
    <3> SUFFICES ASSUME at'[Exec] = "succeeded", ~host'.torn PROVE Landed(on[Exec])'
      OBVIOUS
    <3>1. PICK x \in Ops : x = o
      BY <1>2
    <3>2. Landed(x)' /\ on'[Exec] = x
      BY <1>4, <1>17, <1>b, <3>1 DEF o
    <3> QED BY <3>2
  <2>2. \A x \in receipts' : /\ x \in Ops /\ job'[x].st \in {"running", "succeeded"}
                             /\ job'[x].st = "running" => x = o
    BY <1>1, <1>2, <1>3 DEF Effects, Typed, TypeOK, InState, Active
  <2>3. ~host'.torn => \A x \in receipts' : job'[x].st = "running" => Landed(x)'
    <3> SUFFICES ASSUME ~host'.torn, NEW x \in receipts', job'[x].st = "running" PROVE Landed(x)'
      OBVIOUS
    <3>1. x = o /\ x \in Ops
      BY <2>2
    <3>2. at'[Exec] # "succeeded" => x \in receipts
      BY <1>4
    <3>3. at[Exec] = "claimed" => o \notin receipts
      BY DEF Effects, o
    <3> QED BY <1>1, <1>17, <1>b, <3>1, <3>2, <3>3
  <2>4. \A x \in receipts' : at'[Exec] = "failed" => on'[Exec] # x
    <3>1. on[Exec] \notin receipts
      BY <1>1 DEF Effects
    <3> QED BY <1>4, <3>1
  <2>5. ASSUME ~host'.torn, NEW x \in Ops, job'[x].st = "running", job'[x].pay.kind # "restart",
               x \in receipts' \/ (at'[Exec] = "succeeded" /\ on'[Exec] = x), NEW a \in Chain("app")'
        PROVE  a.cur = host'.prev
    <3>1. x = o /\ job[x].pay = p
      BY <1>1, <1>3, <2>5 DEF InState, Active, p
    <3>2. at'[Exec] = "succeeded"
      <4>1. o \notin receipts
        BY <1>1 DEF Effects, o
      <4> QED BY <1>4, <2>5, <3>1, <4>1
    <3>3. a \in Chain("app")
      BY <1>1, SameChains, ConstantsFacts
    <3> QED BY <1>1, <1>6, <1>16, <1>b, <2>5, <3>1, <3>2, <3>3 DEF Matches
  <2>6. at'[Exec] # "claimed" /\ unsettled' = {}
    BY <1>1, <1>2, <1>4
  <2> QED BY <2>1, <2>2, <2>3, <2>4, <2>5, <2>6 DEF Effects
<1>19. Agreement'
  <2> SUFFICES ASSUME ~host'.torn PROVE Agreement'
    BY DEF Agreement
  <2>0. ~host.torn
    BY <1>b
  <2>1. CASE at'[Exec] = "succeeded"
    <3>1. \A K : p.kind \in K => Unrecorded(K)'
      <4> SUFFICES ASSUME NEW K, p.kind \in K PROVE Unrecorded(K)'
        OBVIOUS
      <4>1. PICK x \in Ops : x = o
        BY <1>2
      <4>2. Doubtful(x)' /\ job'[x].pay.kind \in K
        BY <1>1, <1>17, <2>0, <2>1, <4>1 DEF p
      <4> QED BY <4>2 DEF Unrecorded
    <3>2. Unrecorded({"deploy", "rollback", "restart"})'
      BY <1>6, <2>1, <3>1
    <3>3. ASSUME NEW a \in Chain("app")'
          PROVE  Matches(a)' \/ (a.cur = host'.prev /\ Unrecorded({"deploy", "rollback"})')
      <4>1. a \in Chain("app") /\ Matches(a)
        BY <1>1, <1>16, <2>0, SameChains, ConstantsFacts
      <4>2. CASE p.kind = "restart"
        BY <1>6, <2>0, <2>1, <4>1, <4>2 DEF Matches
      <4>3. CASE p.kind \in {"deploy", "rollback"}
        BY <1>6, <2>0, <2>1, <3>1, <4>1, <4>3 DEF Matches
      <4> QED BY <1>6, <2>1, <4>2, <4>3
    <3> QED BY <3>2, <3>3 DEF Agreement
  <2>2. CASE at'[Exec] = "failed"
    <3>1. \A a \in Chain("app")' : Matches(a)'
      BY <1>1, <1>16, <1>a, <2>0, <2>2, SameChains, ConstantsFacts DEF Matches
    <3>2. offline' = {} /\ host'.cur # 0 => \A e \in Chain("env")' : Applied(e)'
      BY <1>1, <1>16, <1>a, <2>0, <2>2, SameChains, ConstantsFacts DEF Applied
    <3> QED BY <3>1, <3>2 DEF Agreement
  <2> QED BY <1>4, <2>1, <2>2
<1>20. Recorded'
  BY <1>4 DEF Recorded
<1>21. Answers'
  BY <1>1, <1>9, SameChains, AnswersStay, ConstantsFacts DEF Calm
<1> QED BY <1>7, <1>8, <1>10, <1>11, <1>12, <1>13, <1>14, <1>18, <1>19, <1>20, <1>21

-----------------------------------------------------------------------------
(* The writes.                                                             *)

\* Who waits for the head of a chain, and what may be waiting with it.
LEMMA HeadFacts ==
  ASSUME IndInv, NEW f \in Files, Popped(f)
  PROVE  LET w == Head(queue[f]).by IN
         /\ w \in Who \cup {Nobody} /\ proc # "down"
         /\ w = Exec => /\ f = "app" => at[w] \in {"activating", "settling", "failing"}
                        /\ f = "env" => at[w] = "applying"
         /\ w \in Clients => f = "app" /\ at[w] \in {"marking", "repeating"} /\ on[w] \in Known
         /\ f = "app" /\ w = Exec => \A a \in From("app", 1) : ~Lags(a)
         /\ f = "env" /\ w = Exec => \A e \in From("env", 1) : Follows(e)
         /\ w \in Clients /\ job[on[w]].st \in Active => \A a \in From("app", 1) : a.active = on[w]
<1> USE DEF IndInv
<1> DEFINE w == Head(queue[f]).by
<1>1. PoppedChain(f)
  BY PoppedFacts
<1>2. 1 \in 1 .. Len(queue[f]) /\ w = queue[f][1].by
  BY <1>1 DEF PoppedChain
<1>3. queue[f][1] \in Snapshot(AppRecord \cup EnvRecord)
  BY <1>2, ElementOfSeq DEF Typed
<1>4. w \in Who \cup {Nobody}
  BY <1>2, <1>3 DEF Snapshot
<1>5. proc # "down"
  BY DEF Course, Popped
<1> HIDE DEF w
<1>6. CASE f = "app"
  <2>1. AppWaiter(1)
    BY <1>2, <1>6 DEF Waiters
  <2>2. w = Exec => /\ at[w] \in {"activating", "settling", "failing"}
                    /\ \A a \in From("app", 1) : a.active = 0 /\ a.cur = mem["app"].cur
    BY <1>2, <1>6, <2>1 DEF AppWaiter
  <2>3. w \in Clients =>
          /\ at[w] \in {"marking", "repeating"} /\ on[w] \in Known
          /\ job[on[w]].st \in Active => \A a \in From("app", 1) : a.active = on[w]
    BY <1>2, <1>6, <2>1 DEF AppWaiter, Course
  <2> QED BY <1>4, <1>5, <1>6, <2>2, <2>3 DEF Lags, w
<1>7. CASE f = "env"
  <2>1. EnvWaiter(1)
    BY <1>2, <1>7 DEF Waiters
  <2>2. w \notin Clients /\ (w = Exec => at[w] = "applying" /\ \A e \in From("env", 1) : Follows(e))
    BY <1>2, <1>7, <2>1 DEF EnvWaiter
  <2> QED BY <1>4, <1>5, <1>7, <2>2 DEF w
<1> QED BY <1>6, <1>7, ConstantsFacts

\* What the executor has recorded when its write is done.
LEMMA WrittenFacts ==
  ASSUME IndInv, at[Exec] \in {"activating", "settling", "applying"}
  PROVE  /\ mem["app"].active # on[Exec] /\ (~host.torn => mem["app"].cur = host.cur)
         /\ ~host.torn /\ at[Exec] # "activating" /\ offline = {} /\ host.cur # 0 => Applied(mem["env"])
         /\ at[Exec] = "activating" => job[on[Exec]].st = "succeeded"
<1> USE DEF IndInv
<1>1. at[Exec] = "settling" => ~Unrecorded({"deploy", "rollback"}) /\ ~Unrecorded({"deploy", "rollback", "restart"})
  <2> SUFFICES ASSUME at[Exec] = "settling" PROVE \A x \in Ops : ~Doubtful(x)
    BY DEF Unrecorded
  <2>1. job[on[Exec]].st = "failed"
    BY DEF Course
  <2> QED BY <2>1, LateFacts DEF Late
<1>2. mem["app"] \in Chain("app") /\ mem["env"] \in Chain("env")
  BY DEF Chain
<1>3. at[Exec] = "settling" /\ ~host.torn => mem["app"].cur = host.cur /\ (offline = {} /\ host.cur # 0 => Applied(mem["env"]))
  BY <1>1, <1>2 DEF Agreement, Matches
<1> QED BY <1>3 DEF Recorded, Course

LEMMA FlushKeeps == ASSUME IndInv, NEW f \in Files, Flush(f) PROVE IndInv'
<1> USE DEF IndInv
<1> DEFINE w == Head(queue[f]).by
<1>1. /\ queue[f] # <<>> /\ disk' = [disk EXCEPT ![f] = Head(queue[f]).value]
      /\ queue' = [queue EXCEPT ![f] = Tail(@)]
      /\ UNCHANGED <<job, unsettled, mem, broken, proc, plan, host, receipts, offline, disturbed>>
      /\ w = Nobody => UNCHANGED <<at, on, answered>>
      /\ w # Nobody =>
           /\ Wait(w, WrittenPhase(at[w]), on[w])
           /\ answered' = IF at[w] \in {"marking", "repeating"} THEN answered \cup {on[w]} ELSE answered
  BY DEF Flush
<1>2. Popped(f)
  BY <1>1 DEF Popped
<1>3. PoppedChain(f) /\ disk'[f] = Head(queue[f]).value
  BY <1>1, <1>2, PoppedFacts DEF Typed
<1>4. Chain(f)' \subseteq From(f, 1) /\ \A g \in Files : Chain(g)' \subseteq Chain(g)
  BY <1>3 DEF PoppedChain
<1>5. /\ w \in Who \cup {Nobody} /\ proc # "down"
      /\ w = Exec => /\ f = "app" => at[w] \in {"activating", "settling", "failing"}
                     /\ f = "env" => at[w] = "applying"
      /\ w \in Clients => f = "app" /\ at[w] \in {"marking", "repeating"} /\ on[w] \in Known
      /\ f = "app" /\ w = Exec => \A a \in From("app", 1) : ~Lags(a)
      /\ f = "env" /\ w = Exec => \A e \in From("env", 1) : Follows(e)
      /\ w \in Clients /\ job[on[w]].st \in Active => \A a \in From("app", 1) : a.active = on[w]
  BY <1>2, HeadFacts
<1> HIDE DEF w
<1>6. /\ at' \in [Who -> Phases] /\ on' \in [Who -> 0 .. MaxOps]
      /\ w \in Who => at'[w] = WrittenPhase(at[w]) /\ on'[w] = on[w]
      /\ \A x \in Who \ {w} : at'[x] = at[x] /\ on'[x] = on[x]
  <2>1. CASE w = Nobody
    BY <1>1, <2>1, ConstantsFacts DEF Typed, TypeOK, Phases
  <2>2. CASE w \in Who
    <3>1. WrittenPhase(at[w]) \in Phases /\ on[w] \in 0 .. MaxOps
      BY <2>2 DEF WrittenPhase, Phases, Typed, TypeOK
    <3>2. Wait(w, WrittenPhase(at[w]), on[w])
      BY <1>1, <2>2, ConstantsFacts
    <3> QED BY <2>2, <3>1, <3>2, WaitTyped
  <2> QED BY <1>5, <2>1, <2>2
<1>7. /\ w = Exec => /\ at[Exec] = "activating" => at'[Exec] = "environment"
                     /\ at[Exec] \in {"settling", "applying"} => at'[Exec] = "reconciled"
                     /\ at[Exec] = "failing" => at'[Exec] = "lost"
                     /\ on'[Exec] = on[Exec] /\ at[Exec] \in {"activating", "settling", "applying", "failing"}
      /\ w # Exec => at'[Exec] = at[Exec] /\ on'[Exec] = on[Exec]
  BY <1>5, <1>6, ConstantsFacts DEF WrittenPhase
<1>8. \A x \in Clients : at'[x] = "idle" \/ (at'[x] = at[x] /\ on'[x] = on[x])
  BY <1>5, <1>6, ConstantsFacts DEF WrittenPhase
<1>9. Steady /\ Calm /\ Known' = Known /\ \A S : InState(S)' = InState(S)
  BY <1>1 DEF Steady, Calm, Known, InState
<1>10. answered' \subseteq answered \cup ({on[w]} \cap Known) /\ (answered' # answered => w \in Clients)
  BY <1>1, <1>5, ConstantsFacts DEF Who
<1>11. Typed'
  <2>1. ChainsTyped'
    BY <1>2, PoppedTyped
  <2>2. answered' \subseteq Ops
    BY <1>10 DEF Known, Typed, TypeOK
  <2> QED BY <1>1, <1>6, <2>1, <2>2 DEF Typed, TypeOK, ChainsTyped, Phases
<1>12. Course'
  <2>1. at[Exec] \in Late => at'[Exec] \in Late
    BY <1>7 DEF Late
  <2>2. w = Exec => at[Exec] \in Late /\ at'[Exec] \in Late
    BY <1>7 DEF Late
  <2>3. at'[Exec] \in {"activating", "environment", "applying"} => job[on'[Exec]].st = "succeeded"
    BY <1>7 DEF Course
  <2>4. at'[Exec] = "settling" => job[on'[Exec]].st = "failed"
    BY <1>7 DEF Course
  <2>5. at'[Exec] \notin Late => at'[Exec] = at[Exec] /\ on'[Exec] = on[Exec] /\ at[Exec] \notin Late
    BY <1>7, <2>1, <2>2
  <2>6. at'[Exec] \in Late => at[Exec] \in Late /\ on'[Exec] = on[Exec]
    BY <1>7, <2>2
  <2>7. Early \cap Late = {} /\ "halted" \notin Late /\ "idle" \notin Late
    BY DEF Early, Late
  <2> QED BY <1>1, <1>5, <1>8, <1>9, <2>1, <2>3, <2>4, <2>5, <2>6, <2>7 DEF Course
<1>13. AllNamed'
  BY <1>1, <1>4, <1>9, NamedStays, ConstantsFacts DEF Accounted
<1>14. AllPrepared'
  BY <1>1, <1>8, <1>9, PreparedStays
<1>15. Built'
  BY <1>1, <1>7, <1>9, BuiltStays
<1>16. Waiters'
  <2>1. \A x \in Who \ {w} : Patient(x)
    BY <1>6 DEF Patient
  <2> QED BY <1>2, <1>9, <2>1, WaitersPopped DEF w
<1>17. Lagging'
  <2>1. CASE w # Exec \/ at[Exec] = "failing"
    <3>1. at[Exec] \in Behind => at'[Exec] \in Behind
      BY <1>7, <2>1 DEF Behind
    <3>2. at[Exec] \in Overdue => at'[Exec] \in Overdue
      BY <1>7, <2>1 DEF Overdue
    <3> QED BY <1>1, <1>4, <3>1, <3>2, LaggingStays
  <2>2. CASE w = Exec /\ at[Exec] # "failing"
    <3>1. \A a \in Chain("app")' : ~Lags(a)
      BY <1>4, <1>5, <1>7, <2>2, ConstantsFacts DEF Lagging, Behind
    <3>2. \A e \in Chain("env")' : Follows(e)
      BY <1>4, <1>5, <1>7, <2>2, ConstantsFacts DEF Lagging, Overdue
    <3> QED BY <1>1, <3>1, <3>2 DEF Lagging, Lags, Follows
  <2> QED BY <2>1, <2>2
<1>18. Effects' /\ Agreement'
  <2>1. Sober /\ Rejournalled
    BY <1>1, <1>7 DEF Sober, Early, Rejournalled
  <2> QED BY <1>1, <1>4, <2>1, StillAgrees, ConstantsFacts DEF Alike
<1>19. Recorded'
  <2>1. CASE w = Exec
    <3>1. at[Exec] \in {"activating", "settling", "applying"} =>
            /\ mem["app"].active # on[Exec] /\ (~host.torn => mem["app"].cur = host.cur)
            /\ ~host.torn /\ at[Exec] # "activating" /\ offline = {} /\ host.cur # 0 => Applied(mem["env"])
      BY WrittenFacts
    <3> QED BY <1>1, <1>7, <2>1, <3>1 DEF Recorded, Applied
  <2>2. CASE w # Exec
    BY <1>1, <1>7, <2>2 DEF Recorded, Applied
  <2> QED BY <2>1, <2>2
<1>20. Answers'
  <2> SUFFICES ASSUME NEW o \in answered'
               PROVE  /\ o \in Known'
                      /\ job'[o].st \in Active /\ job'[o].pay.kind # "restart" =>
                           \A a \in Chain("app")' : a.active = o
    BY DEF Answers
  <2>1. CASE o \in answered
    BY <1>1, <1>4, <1>9, <2>1, ConstantsFacts DEF Answers
  <2>2. CASE o \notin answered
    <3>1. o = on[w] /\ o \in Known /\ w \in Clients
      BY <1>10, <2>2
    <3> QED BY <1>1, <1>4, <1>5, <1>9, <3>1
  <2> QED BY <2>1, <2>2
<1> QED BY <1>11, <1>12, <1>13, <1>14, <1>15, <1>16, <1>17, <1>18, <1>19, <1>20

LEMMA FlushFailsKeeps == ASSUME IndInv, NEW f \in Files, FlushFails(f) PROVE IndInv'
<1> USE DEF IndInv
<1> DEFINE w == Head(queue[f]).by
<1>1. /\ queue[f] # <<>> /\ queue' = [queue EXCEPT ![f] = Tail(@)]
      /\ UNCHANGED <<job, unsettled, disk, mem, proc, plan, host, receipts, answered, offline>>
      /\ w = Nobody => UNCHANGED <<at, on>>
      /\ w # Nobody => Wait(w, FailedPhase(at[w]), on[w])
      /\ broken' \in [Files -> BOOLEAN] /\ disturbed' \in Nat
  <2>1. broken \in [Files -> BOOLEAN] /\ disturbed \in Nat
    BY DEF Typed
  <2>2. \/ UNCHANGED <<broken, disturbed>>
        \/ broken' = [broken EXCEPT ![f] = TRUE] /\ disturbed' = disturbed + 1
    BY DEF FlushFails, Disturb
  <2>3. broken' \in [Files -> BOOLEAN] /\ disturbed' \in Nat
    <3>1. CASE UNCHANGED <<broken, disturbed>>
      BY <2>1, <3>1
    <3>2. CASE broken' = [broken EXCEPT ![f] = TRUE] /\ disturbed' = disturbed + 1
      BY <2>1, <3>2
    <3> QED BY <2>2, <3>1, <3>2
  <2> QED BY <2>3 DEF FlushFails, files, history
<1>2. Popped(f)
  BY <1>1 DEF Popped
<1>3. \A g \in Files : Chain(g)' \subseteq Chain(g)
  BY <1>2, PoppedFacts DEF PoppedChain
<1>4. /\ w \in Who \cup {Nobody} /\ proc # "down"
      /\ w = Exec => at[w] \in {"activating", "settling", "failing", "applying"}
      /\ w \in Clients => at[w] \in {"marking", "repeating"} /\ on[w] \in Known
  BY <1>2, HeadFacts, ConstantsFacts
<1> HIDE DEF w
<1>5. /\ at' \in [Who -> Phases] /\ on' \in [Who -> 0 .. MaxOps]
      /\ w \in Who => at'[w] = FailedPhase(at[w]) /\ on'[w] = on[w]
      /\ \A x \in Who \ {w} : at'[x] = at[x] /\ on'[x] = on[x]
  <2>1. CASE w = Nobody
    BY <1>1, <2>1, ConstantsFacts DEF Typed, TypeOK, Phases
  <2>2. CASE w \in Who
    <3>1. FailedPhase(at[w]) \in Phases /\ on[w] \in 0 .. MaxOps
      BY <2>2 DEF FailedPhase, Phases, Typed, TypeOK
    <3>2. Wait(w, FailedPhase(at[w]), on[w])
      BY <1>1, <2>2, ConstantsFacts
    <3> QED BY <2>2, <3>1, <3>2, WaitTyped
  <2> QED BY <1>4, <2>1, <2>2
<1>6. /\ w = Exec => /\ at[Exec] \in {"activating", "settling", "applying"} => at'[Exec] = "unreconciled"
                     /\ at[Exec] = "failing" => at'[Exec] = "lost"
                     /\ on'[Exec] = on[Exec] /\ at[Exec] \in {"activating", "settling", "applying", "failing"}
      /\ w # Exec => at'[Exec] = at[Exec] /\ on'[Exec] = on[Exec]
  BY <1>4, <1>5, ConstantsFacts DEF FailedPhase
<1>7. \A x \in Clients : \/ at'[x] = "idle" \/ (at'[x] = at[x] /\ on'[x] = on[x])
                         \/ at'[x] = "undoing" /\ on'[x] \in Known /\ at[x] # "idle"
  BY <1>4, <1>5, ConstantsFacts DEF FailedPhase
<1>8. Steady /\ Calm /\ Known' = Known /\ \A S : InState(S)' = InState(S)
  BY <1>1 DEF Steady, Calm, Known, InState
<1>9. Typed'
  <2>1. ChainsTyped'
    BY <1>2, PoppedTyped
  <2> QED BY <1>1, <1>5, <2>1 DEF Typed, TypeOK, ChainsTyped, Phases
<1>10. Course'
  <2>1. w = Exec => at[Exec] \in Late /\ at'[Exec] \in Late
    BY <1>6 DEF Late
  <2>2. at'[Exec] \in {"activating", "environment", "applying"} => job[on'[Exec]].st = "succeeded"
    BY <1>6 DEF Course
  <2>3. at'[Exec] = "settling" => job[on'[Exec]].st = "failed"
    BY <1>6 DEF Course
  <2>4. at'[Exec] \notin Late => at'[Exec] = at[Exec] /\ on'[Exec] = on[Exec] /\ at[Exec] \notin Late
    BY <1>6, <2>1
  <2>5. at'[Exec] \in Late => at[Exec] \in Late /\ on'[Exec] = on[Exec]
    BY <1>6, <2>1
  <2>6. at[Exec] \in Late => at'[Exec] \in Late
    BY <1>6, <2>1
  <2>7. Early \cap Late = {} /\ "halted" \notin Late /\ "idle" \notin Late
    BY DEF Early, Late
  <2>8. \A x \in Clients : /\ at'[x] \in {"idle", "asked", "marking", "repeating", "undoing"}
                           /\ at'[x] \in {"marking", "repeating", "undoing"} => on'[x] \in Known
                           /\ proc # "serving" => at'[x] = "idle"
    BY <1>7 DEF Course
  <2> QED BY <1>1, <1>4, <1>8, <2>2, <2>3, <2>4, <2>5, <2>6, <2>7, <2>8 DEF Course
<1>11. AllNamed'
  BY <1>1, <1>3, <1>8, NamedStays, ConstantsFacts DEF Accounted
<1>12. AllPrepared'
  BY <1>1, <1>7, <1>8, PreparedStays
<1>13. Built'
  BY <1>1, <1>6, <1>8, BuiltStays
<1>14. Waiters'
  <2>1. \A x \in Who \ {w} : Patient(x)
    BY <1>5 DEF Patient
  <2> QED BY <1>2, <1>8, <2>1, WaitersPopped DEF w
<1>15. Lagging'
  <2>1. at[Exec] \in Behind => at'[Exec] \in Behind
    BY <1>6 DEF Behind
  <2>2. at[Exec] \in Overdue => at'[Exec] \in Overdue
    BY <1>6 DEF Overdue
  <2> QED BY <1>1, <1>3, <2>1, <2>2, LaggingStays
<1>16. Effects' /\ Agreement'
  <2>1. Sober /\ Rejournalled
    BY <1>1, <1>6 DEF Sober, Early, Rejournalled
  <2> QED BY <1>1, <1>3, <2>1, StillAgrees, ConstantsFacts DEF Alike
<1>17. Recorded'
  BY <1>1, <1>6 DEF Recorded, Applied
<1>18. Answers'
  BY <1>1, <1>3, <1>8, AnswersStay, ConstantsFacts DEF Calm
<1> QED BY <1>9, <1>10, <1>11, <1>12, <1>13, <1>14, <1>15, <1>16, <1>17, <1>18

-----------------------------------------------------------------------------
(* The requests that save or change a job.                                 *)

\* No job that is neither queued nor new changes, and the host does not.
LEMMA StillAgreesBeside ==
  ASSUME Typed, Effects, Agreement, Steady,
         UNCHANGED <<unsettled, host, receipts, offline>>, at'[Exec] = at[Exec], on'[Exec] = on[Exec],
         at[Exec] = "succeeded" => on[Exec] \in Ops,
         \A o \in Ops : job'[o] = job[o] \/ (/\ job[o].st \notin {"running", "succeeded"}
                                             /\ job'[o].st \notin {"running", "succeeded"}
                                             /\ at[Exec] = "succeeded" => on[Exec] # o),
         \A v \in Chain("app")' : \E x \in Chain("app") : Alike(v, x),
         \A v \in Chain("env")' : \E x \in Chain("env") : v.applied = x.applied /\ v.rel = x.rel
  PROVE  Effects' /\ Agreement'
<1>1. \A o \in Ops : job'[o] = job[o] => (Landed(o)' = Landed(o)) /\ (Doubtful(o)' = Doubtful(o))
  <2> SUFFICES ASSUME NEW o \in Ops, job'[o] = job[o]
               PROVE  (Landed(o)' = Landed(o)) /\ (Doubtful(o)' = Doubtful(o))
    OBVIOUS
  <2>1. Landed(o)' = Landed(o)
    BY DEF Landed, ReleaseOf
  <2> QED BY <2>1 DEF Doubtful
<1>2. \A o \in Ops : Doubtful(o) => job'[o] = job[o] /\ Doubtful(o)'
  BY <1>1 DEF Doubtful
<1>3. ASSUME NEW K, Unrecorded(K) PROVE Unrecorded(K)'
  BY <1>2, <1>3 DEF Unrecorded
<1>4. Agreement'
  <2> SUFFICES ASSUME ~host.torn PROVE Agreement'
    BY DEF Agreement
  <2>1. ASSUME NEW v \in Chain("app")'
        PROVE  Matches(v)' \/ (v.cur = host'.prev /\ Unrecorded({"deploy", "rollback"})')
    <3>1. PICK x \in Chain("app") : Alike(v, x)
      OBVIOUS
    <3>2. Matches(x) => Matches(v)'
      BY <3>1 DEF Matches, Alike
    <3>3. Matches(x) \/ (x.cur = host.prev /\ Unrecorded({"deploy", "rollback"}))
      BY <3>1 DEF Agreement
    <3> QED BY <1>3, <3>1, <3>2, <3>3 DEF Alike
  <2>2. ASSUME offline = {}, host.cur # 0, NEW v \in Chain("env")'
        PROVE  Applied(v)' \/ Unrecorded({"deploy", "rollback", "restart"})'
    <3>1. PICK x \in Chain("env") : v.applied = x.applied /\ v.rel = x.rel
      OBVIOUS
    <3>2. Applied(x) => Applied(v)'
      BY <3>1 DEF Applied
    <3> QED BY <1>3, <2>2, <3>1, <3>2 DEF Agreement
  <2> QED BY <2>1, <2>2 DEF Agreement
<1>5. Effects'
  <2>0. \A o \in receipts : /\ job'[o] = job[o] /\ o \in Ops /\ job[o].st \in {"running", "succeeded"}
                            /\ at[Exec] \in {"claimed", "failed"} => on[Exec] # o
    BY DEF Effects, Typed, TypeOK
  <2> SUFFICES ASSUME ~host.torn PROVE Effects'
    BY <2>0 DEF Effects
  <2>1. at'[Exec] = "succeeded" => Landed(on[Exec])'
    <3> SUFFICES ASSUME at'[Exec] = "succeeded" PROVE Landed(on[Exec])'
      OBVIOUS
    <3>1. PICK o : o = on[Exec]
      OBVIOUS
    <3>2. Landed(o) /\ o \in Ops /\ job'[o] = job[o]
      BY <3>1 DEF Effects
    <3>3. Landed(o)'
      BY <1>1, <3>2
    <3> QED BY <3>1, <3>3
  <2>2. \A o \in unsettled : job'[o].st = "succeeded" => Landed(o)' /\ job'[o].prev = host.prev
    BY <1>1 DEF Effects, Typed, TypeOK
  <2>3. \A o \in receipts : job[o].st = "running" => Landed(o)'
    BY <1>1, <2>0 DEF Effects
  <2>4. ASSUME NEW o \in Ops, job'[o].st = "running", job'[o].pay.kind # "restart",
               o \in receipts \/ (at'[Exec] = "succeeded" /\ on'[Exec] = o), NEW v \in Chain("app")'
        PROVE  v.cur = host.prev
    <3>1. job'[o] = job[o] /\ (o \in receipts \/ (at[Exec] = "succeeded" /\ on[Exec] = o))
      BY <2>4
    <3>2. PICK x \in Chain("app") : Alike(v, x)
      OBVIOUS
    <3> QED BY <2>4, <3>1, <3>2 DEF Effects, Alike
  <2> QED BY <2>0, <2>1, <2>2, <2>3, <2>4 DEF Effects
<1> QED BY <1>4, <1>5

\* Jobs change only in ways that nobody who waits depends on.
Beside ==
  \A o \in Ops : job'[o] = job[o] \/ (/\ job[o].st \notin {"running", "succeeded"}
                                      /\ job'[o].st \notin {"running", "succeeded"}
                                      /\ at[Exec] = "succeeded" => on[Exec] # o)

\* A request saves the application's record, with the releases it had.
LEMMA RequestSaves ==
  ASSUME IndInv, NEW w \in Clients \cup {Nobody}, NEW v \in AppRecord, Persisted("app", w, v),
         Alike(v, App), Named(v)', Steady, Calm, Beside,
         \A o \in Known : Accounted(o) => Accounted(o)',
         UNCHANGED <<unsettled, proc, host, receipts, answered, offline>>,
         at'[Exec] = at[Exec], on'[Exec] = on[Exec], \A x \in Who \ {w} : Patient(x),
         w \in Clients => at[w] \notin Waiting /\ at'[w] \in {"marking", "repeating"} /\ v.active = on'[w],
         at[Exec] \in Late => v.active = 0,
         App.active = 0 \/ job'[App.active].st = "cancelled",
         \A o \in Known : job[o].st = "cancelled" => job'[o].st = "cancelled",
         \A o \in answered : job'[o].st \in Active /\ job'[o].pay.kind # "restart" => v.active = o
  PROVE  ChainsTyped' /\ AllNamed' /\ Waiters' /\ Lagging' /\ Effects' /\ Agreement' /\ Recorded' /\ Answers'
<1> USE DEF IndInv
<1>1. /\ mem'["app"] = v /\ \A a \in Chain("app")' : a \in Chain("app") \/ a = v
      /\ mem'["env"] = mem["env"] /\ Chain("env")' = Chain("env")
  <2>1. SavedChain("app", w, v) /\ "env" \in Files \ {"app"}
    BY SavedFacts, ConstantsFacts
  <2> QED BY <2>1 DEF SavedChain
<1>2. App = mem["app"] /\ App \in Chain("app") /\ v.cur = App.cur
  BY RegistryFacts DEF Alike
<1>3. w # Exec /\ w \in Who \cup {Nobody}
  BY ConstantsFacts
<1>4. ChainsTyped'
  BY <1>3, SavedTyped, ConstantsFacts
<1>5. AllNamed'
  BY <1>1, NamedStays
<1>6. Waiters'
  <2>1. at[Exec] \in Waiting => v.active = 0 /\ v.cur = mem["app"].cur
    <3>1. at[Exec] \in Waiting => at[Exec] \in Late
      BY DEF Course, Waiting, Early, Late
    <3> QED BY <1>2, <3>1
  <2>2. mem["app"].active \in Known /\ job'[mem["app"].active].st \in Active => v.active = mem["app"].active
    BY <1>2, ConstantsFacts DEF Known, Active
  <2>3. w \in Who => w \in Clients
    BY ConstantsFacts
  <2> QED BY <1>3, <2>1, <2>2, <2>3, WaitersSavedApp
<1>7. Lagging'
  <2>1. mem["app"].active \in {0, v.active} \/ job'[mem["app"].active].st = "cancelled"
    BY <1>2
  <2>2. v.cur = mem["app"].cur
    BY <1>2
  <2> QED BY <2>1, <2>2, LaggingSavedApp
<1>8. Effects' /\ Agreement'
  <2>1. \A a \in Chain("app")' : \E x \in Chain("app") : Alike(a, x)
    BY <1>1, <1>2 DEF Alike
  <2>2. at[Exec] = "succeeded" => on[Exec] \in Ops
    BY DEF Course, Early, InState
  <2>3. \A e \in Chain("env")' : \E x \in Chain("env") : e.applied = x.applied /\ e.rel = x.rel
    BY <1>1
  <2> QED BY <2>1, <2>2, <2>3, StillAgreesBeside DEF Beside
<1>9. Recorded'
  <2>1. at[Exec] \in Late => v.active # on[Exec]
    <3>1. at[Exec] \in Late => on[Exec] # 0
      BY LateFacts
    <3> QED BY <3>1
  <2> QED BY <1>1, <1>2, <2>1 DEF Recorded, Applied, Late
<1>10. Answers'
  BY <1>1, AnswersStay DEF Calm
<1> QED BY <1>4, <1>5, <1>6, <1>7, <1>8, <1>9, <1>10

\* A request that needs the sidecar empty meets an executor that waits for nothing.
LEMMA NothingLate ==
  ASSUME IndInv, unsettled = {}
  PROVE  at[Exec] \notin Late /\ at[Exec] \notin Waiting
BY DEF IndInv, Course, Late, Early, Waiting

LEMMA UndoKeeps == ASSUME IndInv, NEW c \in Clients, Undo(c) PROVE IndInv'
<1> USE DEF IndInv
<1> DEFINE o == on[c]
<1>1. /\ proc = "serving" /\ at[c] = "undoing" /\ Wait(c, "idle", 0)
      /\ UNCHANGED <<unsettled, disk, mem, queue, broken, proc, plan, host, receipts, answered, offline, disturbed>>
      /\ job' = job \/ (job[o].st = "queued" /\ job' = [job EXCEPT ![o].st = "cancelled"])
  BY DEF Undo, history
<1>2. o \in Known /\ o \in Ops
  BY <1>1 DEF Course, Known
<1> HIDE DEF o
<1>3. /\ at' \in [Who -> Phases] /\ on' \in [Who -> 0 .. MaxOps] /\ at'[c] = "idle"
      /\ \A x \in Who \ {c} : at'[x] = at[x] /\ on'[x] = on[x]
      /\ at'[Exec] = at[Exec] /\ on'[Exec] = on[Exec]
  BY <1>1, WaitTyped, ConstantsFacts DEF Phases
<1>4. /\ \A x \in Ops : job'[x] = job[x] \/ (job[x].st = "queued" /\ job'[x].st = "cancelled" /\ job'[x].pay = job[x].pay)
      /\ job' \in [Ops -> Job]
  <2>1. "cancelled" \in Stages /\ job \in [Ops -> Job]
    BY DEF Typed, TypeOK, Stages, Job
  <2>2. CASE job[o].st = "queued" /\ job' = [job EXCEPT ![o].st = "cancelled"]
    <3>1. /\ job'[o].st = "cancelled" /\ job'[o].pay = job[o].pay
          /\ \A x \in Ops \ {o} : job'[x] = job[x]
          /\ job' \in [Ops -> Job]
      BY <1>2, <2>1, <2>2, StatusFacts
    <3> QED BY <2>2, <3>1
  <2> QED BY <1>1, <2>1, <2>2
<1>5. Typed'
  BY <1>1, <1>3, <1>4 DEF Typed, TypeOK, Phases, Job, Stages
<1>6. /\ Known' = Known /\ InState(Active)' \subseteq InState(Active)
      /\ InState({"running"})' = InState({"running"}) /\ InState(Terminal)' = InState(Terminal)
      /\ InState({"running"} \cup Terminal)' = InState({"running"} \cup Terminal)
      /\ \A x \in InState({"running"} \cup Terminal) : job'[x] = job[x]
  BY <1>4 DEF Known, InState, Active, Terminal
<1>7. \A x \in Clients : at'[x] = "idle" \/ (at'[x] = at[x] /\ on'[x] = on[x])
  BY <1>3, ConstantsFacts
<1>8. Course'
  <2>1. unsettled \subseteq InState({"running"} \cup Terminal)
    BY DEF Course
  <2>2. at[Exec] \in Late => on[Exec] \in InState({"running"} \cup Terminal)
    BY <2>1 DEF Course
  <2>3. \A x, y \in InState(Active)' \cup unsettled' : x = y
    BY <1>1, <1>6 DEF Course
  <2>4. /\ at'[Exec] \in {"activating", "environment", "applying"} => job'[on'[Exec]].st = "succeeded"
        /\ at'[Exec] = "settling" => job'[on'[Exec]].st = "failed"
    BY <1>3, <1>6, <2>2 DEF Course, Late
  <2>5. \A x \in Clients : /\ at'[x] \in {"idle", "asked", "marking", "repeating", "undoing"}
                           /\ at'[x] \in {"marking", "repeating", "undoing"} => on'[x] \in Known'
    BY <1>6, <1>7 DEF Course
  <2> QED BY <1>1, <1>3, <1>6, <2>1, <2>3, <2>4, <2>5 DEF Course
<1>9. Steady /\ Calm /\ Beside
  <2>1. at[Exec] = "succeeded" => job[on[Exec]].st = "running"
    BY DEF Course, Early, InState
  <2> QED BY <1>4, <1>6, <2>1 DEF Steady, Calm, Beside, Known, Active
<1>10. \A x \in Known : Accounted(x) => Accounted(x)'
  BY <1>1, <1>4, <1>6 DEF Accounted, Known
<1>11. AllNamed'
  BY <1>1, <1>9, <1>10, SameChains, NamedStays, ConstantsFacts
<1>12. AllPrepared'
  BY <1>1, <1>6, <1>7, <1>9, PreparedStays
<1>13. Built'
  BY <1>1, <1>3, <1>4, <1>9, BuiltStays
<1>14. Waiters'
  <2>1. \A w \in Who : Patient(w)
    BY <1>1, <1>3 DEF Patient, Waiting
  <2> QED BY <1>1, <1>9, <2>1, WaitersStay
<1>15. Lagging'
  <2>1. \A x \in Known : job[x].st = "cancelled" => job'[x].st = "cancelled"
    BY <1>4 DEF Known
  <2> QED BY <1>1, <1>3, <2>1, SameChains, LaggingStays
<1>16. Effects' /\ Agreement'
  <2>1. at[Exec] = "succeeded" => on[Exec] \in Ops
    BY DEF Course, Early, InState
  <2> QED BY <1>1, <1>3, <1>9, <2>1, SameChains, StillAgreesBeside, ConstantsFacts DEF Beside, Alike
<1>17. Recorded'
  BY <1>1, <1>3 DEF Recorded, Applied
<1>18. Answers'
  BY <1>1, <1>9, SameChains, AnswersStay, ConstantsFacts DEF Calm
<1> QED BY <1>5, <1>8, <1>11, <1>12, <1>13, <1>14, <1>15, <1>16, <1>17, <1>18

LEMMA CancelJobKeeps == ASSUME IndInv, NEW o \in Ops, CancelJob(o) PROVE IndInv'
<1> USE DEF IndInv
<1>0. PICK v : v = MarkFailed(App)
  OBVIOUS
<1>1. /\ proc = "serving" /\ job[o].st = "queued" /\ unsettled = {}
      /\ job' = [job EXCEPT ![o].st = "cancelled"]
      /\ UNCHANGED <<at, on, unsettled, disk, broken, proc, plan, host, receipts, answered, offline, disturbed>>
      /\ \/ App.active = o /\ SaveAside("app", v)
         \/ App.active # o /\ NoSave
  BY <1>0 DEF CancelJob, history
<1>2. App \in AppRecord /\ App = mem["app"] /\ Named(App)
  BY RegistryFacts
<1>3. v \in AppRecord /\ v.active = 0 /\ v.pending = 0 /\ Alike(v, App)
  BY <1>0, <1>2, MarkFacts
<1>4. /\ job'[o].st = "cancelled" /\ job'[o].pay = job[o].pay
      /\ \A x \in Ops \ {o} : job'[x] = job[x]
      /\ job' \in [Ops -> Job]
  <2>1. "cancelled" \in Stages /\ job \in [Ops -> Job]
    BY DEF Typed, TypeOK, Stages, Job
  <2> QED BY <1>1, <2>1, StatusFacts
<1>5. \A x \in InState(Active) : x = o
  <2>1. o \in InState(Active)
    BY <1>1 DEF InState, Active
  <2> QED BY <2>1 DEF Course
<1>6. /\ Known' = Known /\ InState(Active)' = {}
      /\ InState({"running"})' = InState({"running"}) /\ InState({"running"}) = {}
  BY <1>1, <1>4, <1>5 DEF Known, InState, Active
<1>7. Course'
  BY <1>1, <1>6 DEF Course, Early, Late
<1>8. Steady /\ Calm /\ Beside
  <2>1. at[Exec] = "succeeded" => job[on[Exec]].st = "running"
    BY DEF Course, Early, InState
  <2> QED BY <1>1, <1>4, <1>6, <2>1 DEF Steady, Calm, Beside, Known, Active
<1>9. \A x \in Known : Accounted(x) => Accounted(x)'
  BY <1>1, <1>4, <1>6 DEF Accounted, Known
<1>10. AllPrepared'
  BY <1>1, <1>6, <1>8, PreparedStays
<1>11. Built'
  BY <1>1, <1>4, <1>8, BuiltStays
<1>12. \A x \in Known : job[x].st = "cancelled" => job'[x].st = "cancelled"
  BY <1>4 DEF Known
<1>13. CASE App.active = o /\ SaveAside("app", v)
  <2>1. Persisted("app", Nobody, v)
    BY <1>1, <1>13 DEF SaveAside, Persisted
  <2>2. Named(v)'
    <3>1. v.cur \in Range(v.rels) => job'[v.cur].pay = job[v.cur].pay
      BY <1>2, <1>3, <1>8 DEF Named, Steady, Alike
    <3> QED BY <1>2, <1>3, <1>6, <3>1 DEF Named, Alike
  <2>3. \A x \in answered : ~(job'[x].st \in Active)
    BY <1>6 DEF InState, Typed, TypeOK
  <2>4. App.active = 0 \/ job'[App.active].st = "cancelled"
    BY <1>4, <1>13
  <2>5. ChainsTyped' /\ AllNamed' /\ Waiters' /\ Lagging' /\ Effects' /\ Agreement' /\ Recorded' /\ Answers'
    <3>1. \A x \in Who \ {Nobody} : Patient(x)
      BY <1>1 DEF Patient
    <3>2. Nobody \notin Clients /\ IndInv
      BY ConstantsFacts
    <3> HIDE DEF IndInv
    <3> QED BY <1>1, <1>3, <1>8, <1>9, <1>12, <2>1, <2>2, <2>3, <2>4, <3>1, <3>2, RequestSaves
  <2>6. Typed'
    BY <1>1, <1>4, <2>5 DEF Typed, TypeOK, ChainsTyped, Job, Stages
  <2> QED BY <1>7, <1>10, <1>11, <2>5, <2>6
<1>14. CASE NoSave
  <2>1. UNCHANGED <<mem, queue>>
    BY <1>14 DEF NoSave
  <2>2. Typed'
    BY <1>1, <1>4, <2>1 DEF Typed, TypeOK, Job, Stages
  <2>3. AllNamed'
    BY <1>1, <1>8, <1>9, <2>1, SameChains, NamedStays, ConstantsFacts
  <2>4. Waiters'
    BY <1>1, <1>8, <2>1, WaitersStay DEF Patient
  <2>5. Lagging'
    BY <1>1, <1>12, <2>1, SameChains, LaggingStays
  <2>6. Effects' /\ Agreement'
    <3>1. at[Exec] = "succeeded" => on[Exec] \in Ops
      BY DEF Course, Early, InState
    <3> QED BY <1>1, <1>8, <2>1, <3>1, SameChains, StillAgreesBeside, ConstantsFacts DEF Beside, Alike
  <2>7. Recorded'
    BY <1>1, <2>1 DEF Recorded, Applied
  <2>8. Answers'
    BY <1>1, <1>8, <2>1, SameChains, AnswersStay, ConstantsFacts DEF Calm
  <2> QED BY <1>7, <1>10, <1>11, <2>2, <2>3, <2>4, <2>5, <2>6, <2>7, <2>8
<1> QED BY <1>1, <1>13, <1>14

\* The rest of the invariant is not about the registries.
LEMMA JobsKept ==
  ASSUME IndInv, UNCHANGED <<job, unsettled, at, on, plan, host, proc>>, proc # "down"
  PROVE  /\ Course' /\ AllPrepared' /\ Built' /\ Steady /\ Calm /\ Beside
         /\ \A o \in Known : Accounted(o) => Accounted(o)'
         /\ \A w \in Who : Patient(w)
<1> USE DEF IndInv
<1>1. Known' = Known /\ \A S : InState(S)' = InState(S)
  BY DEF Known, InState
<1>2. Course'
  BY <1>1 DEF Course
<1>3. Steady /\ Calm /\ Beside /\ (\A o \in Known : Accounted(o) => Accounted(o)') /\ \A w \in Who : Patient(w)
  BY <1>1 DEF Steady, Calm, Beside, Accounted, Patient
<1>4. AllPrepared'
  BY <1>1, <1>3, PreparedStays
<1>5. Built'
  BY <1>3, BuiltStays
<1> QED BY <1>2, <1>3, <1>4, <1>5

LEMMA UpdateConfigurationKeeps == ASSUME IndInv, UpdateConfiguration PROVE IndInv'
<1> USE DEF IndInv
<1>0. PICK v : v = [App EXCEPT !.rev = @ + 1]
  OBVIOUS
<1>1. /\ proc = "serving" /\ App.active = 0 /\ SaveAside("app", v) /\ disturbed' \in Nat
      /\ UNCHANGED <<job, unsettled, disk, at, on, broken, proc, plan, host, receipts, answered, offline>>
  BY <1>0 DEF UpdateConfiguration, Disturb, files, history, Typed
<1>2. App \in AppRecord /\ App = mem["app"] /\ Named(App)
  BY RegistryFacts
<1>3. v \in AppRecord /\ v.active = 0 /\ v.pending = App.pending /\ Alike(v, App)
  BY <1>0, <1>1, <1>2, MarkFacts
<1>4. /\ Course' /\ AllPrepared' /\ Built' /\ Steady /\ Calm /\ Beside
      /\ \A o \in Known : Accounted(o) => Accounted(o)'
      /\ \A w \in Who : Patient(w)
  <2>1. IndInv /\ proc # "down"
    BY <1>1
  <2> HIDE DEF IndInv
  <2> QED BY <1>1, <2>1, JobsKept
<1>5. Persisted("app", Nobody, v)
  BY <1>1 DEF SaveAside, Persisted
<1>6. Named(v)'
  BY <1>1, <1>2, <1>3 DEF Named, Alike, Known, InState
<1>7. \A x \in answered : job'[x].st \in Active /\ job'[x].pay.kind # "restart" => v.active = x
  <2>1. App \in Chain("app")
    BY RegistryFacts
  <2> QED BY <1>1, <1>3, <2>1 DEF Answers
<1>8. ChainsTyped' /\ AllNamed' /\ Waiters' /\ Lagging' /\ Effects' /\ Agreement' /\ Recorded' /\ Answers'
  <2>1. Nobody \notin Clients /\ IndInv
    BY ConstantsFacts
  <2> HIDE DEF IndInv
  <2> QED BY <1>1, <1>3, <1>4, <1>5, <1>6, <1>7, <2>1, RequestSaves
<1>9. Typed'
  BY <1>1, <1>8 DEF Typed, TypeOK, ChainsTyped
<1> QED BY <1>4, <1>8, <1>9

LEMMA SetVariableKeeps == ASSUME IndInv, SetVariable PROVE IndInv'
<1> USE DEF IndInv
<1> DEFINE v == [Env EXCEPT !.saved = @ + 1]
<1>1. /\ proc = "serving" /\ SaveAside("env", v) /\ disturbed' \in Nat
      /\ UNCHANGED <<job, unsettled, disk, at, on, broken, proc, plan, host, receipts, answered, offline>>
  BY DEF SetVariable, Disturb, files, history, Typed
<1>2. Env \in EnvRecord /\ Env = mem["env"] /\ Env \in Chain("env")
  BY RegistryFacts
<1>3. v \in EnvRecord /\ v.applied = Env.applied /\ v.rel = Env.rel
  BY <1>2 DEF EnvRecord
<1> HIDE DEF v
<1>4. /\ Course' /\ AllPrepared' /\ Built' /\ Steady /\ Calm /\ Beside
      /\ \A o \in Known : Accounted(o) => Accounted(o)'
      /\ \A w \in Who : Patient(w)
  <2>1. IndInv /\ proc # "down"
    BY <1>1
  <2> HIDE DEF IndInv
  <2> QED BY <1>1, <2>1, JobsKept
<1>5. Persisted("env", Nobody, v)
  BY <1>1 DEF SaveAside, Persisted
<1>6. /\ mem'["env"] = v /\ \A e \in Chain("env")' : e \in Chain("env") \/ e = v
      /\ mem'["app"] = mem["app"] /\ Chain("app")' = Chain("app")
  <2>1. SavedChain("env", Nobody, v) /\ "app" \in Files \ {"env"}
    BY <1>5, SavedFacts, ConstantsFacts
  <2> QED BY <2>1 DEF SavedChain
<1>7. Typed'
  <2>1. ChainsTyped'
    BY <1>3, <1>5, SavedTyped, ConstantsFacts
  <2> QED BY <1>1, <2>1 DEF Typed, TypeOK, ChainsTyped
<1>8. AllNamed'
  BY <1>4, <1>6, NamedStays
<1>9. Waiters'
  BY <1>2, <1>3, <1>4, <1>5, WaitersSavedEnv, ConstantsFacts
<1>10. Lagging'
  BY <1>1, <1>2, <1>3, <1>5, LaggingSavedEnv
<1>11. Effects' /\ Agreement'
  <2>1. \A a \in Chain("app")' : \E x \in Chain("app") : Alike(a, x)
    BY <1>6 DEF Alike
  <2>2. \A e \in Chain("env")' : \E x \in Chain("env") : e.applied = x.applied /\ e.rel = x.rel
    BY <1>2, <1>3, <1>6
  <2>3. Sober /\ Rejournalled
    BY <1>1 DEF Sober, Rejournalled
  <2> QED BY <1>1, <2>1, <2>2, <2>3, StillAgrees
<1>12. Recorded'
  BY <1>1, <1>2, <1>3, <1>6 DEF Recorded, Applied
<1>13. Answers'
  BY <1>1, <1>4, <1>6, AnswersStay DEF Calm
<1> QED BY <1>4, <1>7, <1>8, <1>9, <1>10, <1>11, <1>12, <1>13

LEMMA RollingBackFacts ==
  ASSUME NEW a \in AppRecord, NEW o \in Nat, NEW r \in Nat
  PROVE  /\ MarkRollingBack(a, o, r) \in AppRecord /\ Alike(MarkRollingBack(a, o, r), a)
         /\ MarkRollingBack(a, o, r).active = o /\ MarkRollingBack(a, o, r).pending = r
<1>1. LET b == MarkRollingBack(a, o, r) IN b \in AppRecord /\ Alike(b, a) /\ b.active = o /\ b.pending = r
  BY DEF AppRecord, Alike, MarkRollingBack
<1> QED BY <1>1

LEMMA DeployingFacts ==
  ASSUME NEW a \in AppRecord, NEW o \in Nat
  PROVE  /\ MarkDeploying(a, o) \in AppRecord /\ Alike(MarkDeploying(a, o), a)
         /\ MarkDeploying(a, o).active = o /\ MarkDeploying(a, o).pending = 0
<1>1. 0 \in Nat
  OBVIOUS
<1> QED BY <1>1, MarkFacts

LEMMA RedeliverKeeps == ASSUME IndInv, NEW c \in Clients, NEW o \in Ops, Redeliver(c, o) PROVE IndInv'
<1> USE DEF IndInv
<1>0. PICK v : v = MarkDeploying(App, o)
  OBVIOUS
<1>1. /\ proc = "serving" /\ at[c] = "idle" /\ unsettled = {} /\ App.active = 0
      /\ job[o].st \in Active /\ job[o].pay.kind = "deploy" /\ Save(c, "app", v, "repeating", o)
      /\ UNCHANGED <<job, unsettled, disk, broken, proc, plan, host, receipts, answered, offline, disturbed>>
  BY <1>0 DEF Redeliver, files, history
<1>2. App \in AppRecord /\ App = mem["app"] /\ Named(App)
  BY RegistryFacts
<1>3. v \in AppRecord /\ v.active = o /\ v.pending = 0 /\ Alike(v, App)
  <2>1. o \in Nat
    BY ConstantsFacts
  <2> QED BY <1>0, <1>2, <2>1, DeployingFacts
<1>4. /\ at' \in [Who -> Phases] /\ on' \in [Who -> 0 .. MaxOps] /\ at'[c] = "repeating" /\ on'[c] = o
      /\ \A x \in Who \ {c} : at'[x] = at[x] /\ on'[x] = on[x]
      /\ at'[Exec] = at[Exec] /\ on'[Exec] = on[Exec]
  <2>1. Wait(c, "repeating", o) /\ o \in 0 .. MaxOps
    BY <1>1, ConstantsFacts DEF Save
  <2> QED BY <2>1, WaitTyped, ConstantsFacts DEF Phases
<1>5. Persisted("app", c, v)
  BY <1>1 DEF Save, Persisted
<1>6. o \in Known /\ Known' = Known /\ (\A S : InState(S)' = InState(S)) /\ \A x \in InState(Active) : x = o
  <2>1. o \in InState(Active)
    BY <1>1 DEF InState
  <2> QED BY <1>1, <2>1 DEF Known, InState, Active, Course
<1>7. Course'
  <2>1. \A x \in Clients : /\ at'[x] \in {"idle", "asked", "marking", "repeating", "undoing"}
                           /\ at'[x] \in {"marking", "repeating", "undoing"} => on'[x] \in Known
    BY <1>4, <1>6, ConstantsFacts DEF Course
  <2> QED BY <1>1, <1>4, <1>6, <2>1 DEF Course
<1>8. Steady /\ Calm /\ Beside /\ \A x \in Known : Accounted(x) => Accounted(x)'
  BY <1>1, <1>6 DEF Steady, Calm, Beside, Accounted
<1>9. AllPrepared'
  <2>1. \A x \in Clients : plan'[x] = plan[x] /\ (at'[x] = "asked" => at[x] = "asked")
    BY <1>1, <1>4, ConstantsFacts
  <2> QED BY <1>6, <1>8, <2>1, PreparedStays
<1>10. Built'
  BY <1>1, <1>4, <1>8, BuiltStays
<1>11. Named(v)'
  <2>1. Accounted(o)' /\ job' = job
    BY <1>1 DEF Accounted
  <2> QED BY <1>1, <1>2, <1>3, <1>6, <2>1, ConstantsFacts DEF Named, Marked, Alike
<1>12. \A x \in answered : job'[x].st \in Active /\ job'[x].pay.kind # "restart" => v.active = x
  BY <1>1, <1>3, <1>6 DEF InState, Typed, TypeOK
<1>13. ChainsTyped' /\ AllNamed' /\ Waiters' /\ Lagging' /\ Effects' /\ Agreement' /\ Recorded' /\ Answers'
  <2>1. at[Exec] \notin Late
    BY <1>1, NothingLate
  <2>2. \A x \in Who \ {c} : Patient(x)
    BY <1>4 DEF Patient
  <2>3. \A x \in Known : job[x].st = "cancelled" => job'[x].st = "cancelled"
    BY <1>1
  <2>4. at[c] \notin Waiting /\ IndInv /\ c \in Clients \cup {Nobody}
    BY <1>1 DEF Waiting
  <2> HIDE DEF IndInv
  <2> QED BY <1>1, <1>3, <1>4, <1>5, <1>8, <1>11, <1>12, <2>1, <2>2, <2>3, <2>4, RequestSaves
<1>14. Typed'
  BY <1>1, <1>4, <1>13 DEF Typed, TypeOK, ChainsTyped, Phases
<1> QED BY <1>7, <1>9, <1>10, <1>13, <1>14

\* What every enqueue does.
LEMMA EnqueuedFacts ==
  ASSUME IndInv, NEW c \in Clients, NEW o \in Ops, Enqueue(c, o)
  PROVE  /\ job'[o].st = "queued" /\ job'[o].pay = plan[c] /\ job' \in [Ops -> Job]
         /\ \A x \in Ops \ {o} : job'[x] = job[x]
         /\ job[o].st = "absent" /\ o \notin Known /\ Known' = Known \cup {o}
         /\ InState(Active) = {} /\ InState(Active)' = {o} /\ InState({"running"})' = {}
         /\ Steady /\ Calm /\ Beside
         /\ \A x \in Known : Accounted(x) => Accounted(x)'
         /\ \A x \in Known : job[x].st = "cancelled" => job'[x].st = "cancelled"
         /\ plan[c].kind \in {"deploy", "rollback", "restart"} /\ plan' \in [Clients -> Payload]
         /\ at[Exec] \notin Late /\ proc = "serving" /\ at[c] = "asked"
         /\ plan[c] \in Payload
         /\ UNCHANGED <<unsettled, disk, broken, proc, host, receipts, offline, disturbed>>
<1> USE DEF IndInv
<1>1. /\ proc = "serving" /\ at[c] = "asked" /\ InState(Active) = {} /\ unsettled = {}
      /\ job[o].st = "absent" /\ job' = [job EXCEPT ![o] = [st |-> "queued", pay |-> plan[c], prev |-> 0]]
      /\ plan' = [plan EXCEPT ![c] = NoPayload]
      /\ UNCHANGED <<unsettled, disk, broken, proc, host, receipts, offline, disturbed>>
  BY DEF Enqueue
<1>2. plan[c] \in Payload /\ plan[c].kind \in {"deploy", "rollback", "restart"} /\ plan' \in [Clients -> Payload]
  BY <1>1, ConstantsFacts DEF Typed, TypeOK, AllPrepared, Payload
<1>3. /\ job'[o].st = "queued" /\ job'[o].pay = plan[c] /\ job' \in [Ops -> Job]
      /\ \A x \in Ops \ {o} : job'[x] = job[x]
  <2>1. [st |-> "queued", pay |-> plan[c], prev |-> 0] \in Job /\ job \in [Ops -> Job]
    BY <1>2 DEF Job, Stages, Active, Typed, TypeOK
  <2> QED BY <1>1, <2>1
<1>4. /\ o \notin Known /\ Known' = Known \cup {o} /\ InState(Active)' = {o} /\ InState({"running"})' = {}
  BY <1>1, <1>3 DEF Known, InState, Active
<1>5. at[Exec] \notin Late
  BY <1>1, NothingLate
<1>6. Steady /\ Calm /\ Beside
  <2>1. at[Exec] = "succeeded" => job[on[Exec]].st = "running"
    BY DEF Course, Early, InState
  <2> QED BY <1>1, <1>3, <1>4, <2>1 DEF Steady, Calm, Beside, Known
<1>7. \A x \in Known : /\ Accounted(x) => Accounted(x)'
                       /\ job[x].st = "cancelled" => job'[x].st = "cancelled"
  BY <1>1, <1>3, <1>4 DEF Accounted, Known
<1> QED BY <1>1, <1>2, <1>3, <1>4, <1>5, <1>6, <1>7

LEMMA EnqueueKeeps == ASSUME IndInv, NEW c \in Clients, NEW o \in Ops, Enqueue(c, o) PROVE IndInv'
<1> USE DEF IndInv
<1>1. /\ job'[o].st = "queued" /\ job'[o].pay = plan[c] /\ job' \in [Ops -> Job]
      /\ \A x \in Ops \ {o} : job'[x] = job[x]
      /\ job[o].st = "absent" /\ o \notin Known /\ Known' = Known \cup {o}
      /\ InState(Active) = {} /\ InState(Active)' = {o} /\ InState({"running"})' = {}
      /\ Steady /\ Calm /\ Beside
      /\ \A x \in Known : Accounted(x) => Accounted(x)'
      /\ \A x \in Known : job[x].st = "cancelled" => job'[x].st = "cancelled"
      /\ plan[c].kind \in {"deploy", "rollback", "restart"} /\ plan' \in [Clients -> Payload]
      /\ at[Exec] \notin Late /\ proc = "serving" /\ at[c] = "asked"
      /\ plan[c] \in Payload
      /\ UNCHANGED <<unsettled, disk, broken, proc, host, receipts, offline, disturbed>>
  <2>1. IndInv
    OBVIOUS
  <2> HIDE DEF IndInv
  <2> QED BY <2>1, EnqueuedFacts
<1>2. /\ unsettled = {} /\ plan' = [plan EXCEPT ![c] = NoPayload] /\ Mark(c, o, plan[c])
  BY DEF Enqueue
<1>3. App \in AppRecord /\ App = mem["app"] /\ Named(App) /\ App \in Chain("app")
  BY RegistryFacts
<1>4. PICK p, n : /\ p \in {"marking", "idle", "undoing"} /\ Wait(c, p, n)
                  /\ n \in {0, o} /\ (p # "idle" => n = o)
  <2>1. CASE \/ (plan[c].kind = "deploy" /\ CanDeploy(App))
             \/ (plan[c].kind = "rollback" /\ CanRollBack(App, plan[c].rel))
    <3>1. Wait(c, "marking", o)
      BY <1>2, <2>1 DEF Mark, Save
    <3> QED BY <3>1
  <2>2. CASE plan[c].kind = "restart"
    <3>1. Wait(c, "idle", 0)
      BY <1>2, <2>2 DEF Mark
    <3> QED BY <3>1
  <2>3. CASE /\ ~(plan[c].kind = "deploy" /\ CanDeploy(App)) /\ plan[c].kind # "restart"
             /\ ~(plan[c].kind = "rollback" /\ CanRollBack(App, plan[c].rel))
    <3>1. Wait(c, "undoing", o)
      BY <1>2, <2>3 DEF Mark
    <3> QED BY <3>1
  <2> QED BY <2>1, <2>2, <2>3
<1>5. /\ at' \in [Who -> Phases] /\ on' \in [Who -> 0 .. MaxOps] /\ at'[c] = p /\ on'[c] = n
      /\ \A x \in Who \ {c} : at'[x] = at[x] /\ on'[x] = on[x]
      /\ at'[Exec] = at[Exec] /\ on'[Exec] = on[Exec]
  <2>1. n \in 0 .. MaxOps /\ p \in Phases
    BY <1>4, ConstantsFacts DEF Phases
  <2> QED BY <1>4, <2>1, WaitTyped, ConstantsFacts
<1>6. Course'
  <2>1. \A x \in Clients : /\ at'[x] \in {"idle", "asked", "marking", "repeating", "undoing"}
                           /\ at'[x] \in {"marking", "repeating", "undoing"} => on'[x] \in Known'
    BY <1>1, <1>4, <1>5, ConstantsFacts DEF Course
  <2>2. InState({"running"}) = {} /\ at[Exec] \notin Early
    <3>1. InState({"running"}) = {}
      BY <1>1 DEF InState, Active
    <3> QED BY <3>1 DEF Course
  <2>3. InState({"running"} \cup Terminal)' = InState({"running"} \cup Terminal)
    BY <1>1 DEF InState, Terminal
  <2> QED BY <1>1, <1>2, <1>5, <2>1, <2>2, <2>3 DEF Course, Early, Late
<1>7. AllPrepared'
  <2>1. plan[c].kind # "none" /\ Prepared(plan[c])
    BY <1>1 DEF AllPrepared
  <2>2. Prepared(job[o].pay)'
    BY <1>1, <2>1 DEF Prepared, Steady
  <2>3. \A x \in Clients : \/ plan'[x] = plan[x] /\ at'[x] = at[x]
                           \/ plan'[x] = NoPayload /\ at'[x] # "asked"
    BY <1>2, <1>4, <1>5, ConstantsFacts DEF Typed, TypeOK
  <2>4. \A x \in Clients : plan'[x] = NoPayload => Prepared(plan[x])'
    BY ConstantsFacts DEF Prepared
  <2>5. \A x \in Known' : x \in Known \/ (job'[x].pay.kind # "none" /\ Prepared(job[x].pay)')
    BY <1>1, <2>1, <2>2
  <2> QED BY <1>1, <2>3, <2>4, <2>5, PreparedStays
<1>8. Built'
  BY <1>1, <1>5, BuiltStays
<1>9. answered \subseteq Known /\ \A x \in answered : ~(job'[x].st \in Active)
  <2>1. answered \subseteq Known
    BY DEF Answers
  <2> QED BY <1>1, <2>1 DEF InState, Known
<1>10. ASSUME NEW v \in AppRecord, Save(c, "app", v, "marking", o), UNCHANGED answered, App.active = 0,
              v.active = o, Alike(v, App),
              \/ plan[c].kind = "deploy" /\ v.pending = 0
              \/ plan[c].kind = "rollback" /\ v.pending = plan[c].rel
       PROVE  IndInv'
  <2>1. at'[c] = "marking" /\ on'[c] = o
    BY <1>10, ConstantsFacts DEF Save, Wait, Typed, TypeOK
  <2>2. Persisted("app", c, v)
    BY <1>1, <1>10 DEF Save, Persisted
  <2>3. Named(v)'
    <3>1. Marked(v)'
      BY <1>1, <1>10 DEF Marked, Accounted, Active
    <3>2. v.cur \in Range(v.rels) => job'[v.cur].pay = job[v.cur].pay
      BY <1>1, <1>3, <1>10 DEF Named, Steady, Alike
    <3> QED BY <1>1, <1>3, <1>10, <3>1, <3>2, ConstantsFacts DEF Named, Alike
  <2>4. ChainsTyped' /\ AllNamed' /\ Waiters' /\ Lagging' /\ Effects' /\ Agreement' /\ Recorded' /\ Answers'
    <3>1. \A x \in Who \ {c} : Patient(x)
      BY <1>5 DEF Patient
    <3>2. at[c] \notin Waiting /\ IndInv /\ c \in Clients \cup {Nobody}
      BY <1>1 DEF Waiting
    <3> HIDE DEF IndInv
    <3> QED BY <1>1, <1>5, <1>9, <1>10, <2>1, <2>2, <2>3, <3>1, <3>2, RequestSaves
  <2>5. Typed'
    BY <1>1, <1>5, <1>10, <2>4 DEF Typed, TypeOK, ChainsTyped, Phases, Job, Stages
  <2> QED BY <1>6, <1>7, <1>8, <2>4, <2>5
<1>11. ASSUME NoSave, p # "marking",
              answered' = answered \/ (answered' = answered \cup {o} /\ plan[c].kind = "restart")
       PROVE  IndInv'
  <2>1. UNCHANGED <<mem, queue, disk>>
    BY <1>1, <1>11 DEF NoSave
  <2>2. Typed'
    <3>1. answered' \subseteq Ops
      BY <1>11 DEF Typed, TypeOK
    <3> QED BY <1>1, <1>5, <2>1, <3>1 DEF Typed, TypeOK, Phases, Job, Stages
  <2>3. AllNamed'
    BY <1>1, <2>1, SameChains, NamedStays, ConstantsFacts
  <2>4. Waiters'
    <3>1. \A w \in Who : Patient(w)
      BY <1>1, <1>5 DEF Patient, Waiting
    <3> QED BY <1>1, <2>1, <3>1, WaitersStay
  <2>5. Lagging'
    BY <1>1, <1>5, <2>1, SameChains, LaggingStays
  <2>6. Effects' /\ Agreement'
    <3>1. at[Exec] = "succeeded" => on[Exec] \in Ops
      BY DEF Course, Early, InState
    <3> QED BY <1>1, <1>5, <2>1, <3>1, SameChains, StillAgreesBeside, ConstantsFacts DEF Beside, Alike
  <2>7. Recorded'
    BY <1>1, <1>5, <2>1 DEF Recorded, Applied
  <2>8. Answers'
    BY <1>1, <1>9, <1>11 DEF Answers
  <2> QED BY <1>6, <1>7, <1>8, <2>2, <2>3, <2>4, <2>5, <2>6, <2>7, <2>8
<1>12. CASE plan[c].kind = "deploy" /\ CanDeploy(App)
  <2>0. PICK v : v = MarkDeploying(App, o)
    OBVIOUS
  <2>1. v \in AppRecord /\ v.active = o /\ v.pending = 0 /\ Alike(v, App)
    <3>1. o \in Nat
      BY ConstantsFacts
    <3> QED BY <1>3, <2>0, <3>1, DeployingFacts
  <2>2. Save(c, "app", v, "marking", o) /\ UNCHANGED answered /\ App.active = 0
    BY <1>2, <1>12, <2>0 DEF Mark, CanDeploy
  <2> QED BY <1>10, <1>12, <2>1, <2>2
<1>13. CASE plan[c].kind = "rollback" /\ CanRollBack(App, plan[c].rel)
  <2>0. PICK v : v = MarkRollingBack(App, o, plan[c].rel)
    OBVIOUS
  <2>1. v \in AppRecord /\ v.active = o /\ v.pending = plan[c].rel /\ Alike(v, App)
    <3>1. plan[c].rel \in Nat /\ o \in Nat
      BY <1>1, ConstantsFacts DEF Payload
    <3> QED BY <1>3, <2>0, <3>1, RollingBackFacts
  <2>2. Save(c, "app", v, "marking", o) /\ UNCHANGED answered /\ App.active = 0
    BY <1>2, <1>13, <2>0 DEF Mark, CanRollBack
  <2> QED BY <1>10, <1>13, <2>1, <2>2
<1>14. CASE plan[c].kind = "restart"
  <2>1. Wait(c, "idle", 0) /\ NoSave /\ answered' = answered \cup {o}
    BY <1>2, <1>14 DEF Mark
  <2>2. p # "marking"
    BY <1>5, <2>1, ConstantsFacts DEF Wait, Typed, TypeOK
  <2> QED BY <1>11, <1>14, <2>1, <2>2
<1>15. CASE /\ ~(plan[c].kind = "deploy" /\ CanDeploy(App)) /\ plan[c].kind # "restart"
            /\ ~(plan[c].kind = "rollback" /\ CanRollBack(App, plan[c].rel))
  <2>1. Wait(c, "undoing", o) /\ NoSave /\ answered' = answered
    BY <1>2, <1>15 DEF Mark
  <2>2. p # "marking"
    BY <1>5, <2>1, ConstantsFacts DEF Wait, Typed, TypeOK
  <2> QED BY <1>11, <2>1, <2>2
<1> QED BY <1>12, <1>13, <1>14, <1>15

-----------------------------------------------------------------------------
(* The invariant.                                                          *)

LEMMA InitInv == Init => IndInv
<1> SUFFICES ASSUME Init PROVE IndInv
  OBVIOUS
<1>1. /\ disk["app"] \in AppRecord /\ disk["env"] \in EnvRecord /\ mem = disk
      /\ disk["app"].active = 0 /\ disk["app"].pending = 0 /\ disk["app"].cur = 0
      /\ disk["app"].prev = 0 /\ disk["app"].rels = <<>> /\ disk["app"].applied = 0
      /\ DOMAIN disk = Files
  <2>1. <<>> \in Seq(Ops)
    BY EmptySeq
  <2> QED BY <2>1 DEF Init, AppRecord, EnvRecord, Files
<1>2. /\ \A o \in Ops : job[o].st = "absent" /\ job[o].pay = NoPayload
      /\ \A w \in Who : at[w] = "idle" /\ on[w] = 0
      /\ \A f \in Files : queue[f] = <<>> /\ Len(queue[f]) = 0
      /\ \A c \in Clients : plan[c] = NoPayload
  BY DEF Init, NoJob
<1>3. Typed
  <2>1. job \in [Ops -> Job]
    BY ConstantsFacts DEF Init, NoJob, Job, Stages, Active
  <2>2. /\ at \in [Who -> Phases] /\ on \in [Who -> 0 .. MaxOps] /\ plan \in [Clients -> Payload]
    BY ConstantsFacts DEF Init, Phases
  <2>3. /\ disk \in [Files -> AppRecord \cup EnvRecord]
        /\ queue \in [Files -> Seq(Snapshot(AppRecord \cup EnvRecord))]
        /\ queue["app"] \in Seq(Snapshot(AppRecord)) /\ queue["env"] \in Seq(Snapshot(EnvRecord))
        /\ broken \in [Files -> BOOLEAN]
    <3>1. \A S : <<>> \in Seq(S)
      BY EmptySeq
    <3>2. disk \in [Files -> AppRecord \cup EnvRecord]
      <4>1. disk = [f \in Files |-> disk[f]]
        BY DEF Init, Files
      <4> QED BY <1>1, <4>1, ConstantsFacts
    <3> QED BY <1>2, <3>1, <3>2, ConstantsFacts DEF Init
  <2>4. host \in Host
    BY ConstantsFacts DEF Init, Host
  <2> QED BY <1>1, <2>1, <2>2, <2>3, <2>4, ConstantsFacts
       DEF Typed, TypeOK, Init, Job, Stages, Phases, Active
<1>4. /\ \A S : InState(S) = IF "absent" \in S THEN Ops ELSE {}
      /\ Known = {} /\ unsettled = {} /\ answered = {} /\ receipts = {} /\ proc = "down"
      /\ host.cur = 0 /\ host.rev = 0 /\ host.dirs = {}
  BY <1>2 DEF Init, InState, Known
<1>5. Chain("app") = {disk["app"]} /\ Chain("env") = {disk["env"]}
  BY <1>1, <1>2, ConstantsFacts DEF Chain, Values
<1>6. Course
  BY <1>1, <1>2, <1>4, ConstantsFacts DEF Course, Early, Late, Active, Terminal
<1>7. AllNamed
  <2>1. Range(disk["app"].rels) = {}
    BY <1>1 DEF Range
  <2> QED BY <1>1, <1>5, <2>1 DEF AllNamed, Named
<1>8. AllPrepared /\ Built
  BY <1>2, <1>4, ConstantsFacts DEF AllPrepared, Prepared, Built, Releases
<1>9. Waiters
  BY <1>2, ConstantsFacts DEF Waiters
<1>10. Lagging
  BY <1>1, <1>5 DEF Lagging, Lags, Follows
<1>11. Effects
  BY <1>2, <1>4, ConstantsFacts DEF Effects
<1>12. Agreement /\ Recorded /\ Answers
  BY <1>1, <1>2, <1>4, <1>5, ConstantsFacts DEF Agreement, Matches, Recorded, Answers
<1> QED BY <1>3, <1>6, <1>7, <1>8, <1>9, <1>10, <1>11, <1>12 DEF IndInv

LEMMA NextInv == IndInv /\ [Next]_vars => IndInv'
<1> SUFFICES ASSUME IndInv, [Next]_vars PROVE IndInv'
  OBVIOUS
<1>1. ASSUME NEW c \in Clients, Requests(c) PROVE IndInv'
  BY <1>1, AskDeployKeeps, AskRestartKeeps, AskRollbackKeeps, EnqueueRefusedKeeps, UndoKeeps,
     EnqueueKeeps, RedeliverKeeps DEF Requests
<1>2. CASE Changes
  BY <1>2, UpdateConfigurationKeeps, SetVariableKeeps, CancelJobKeeps DEF Changes
<1>3. CASE Work
  BY <1>3, ExecuteKeeps, CompleteKeeps, ReconcileApplicationKeeps, MarkAppliedKeeps, RecordFailureKeeps,
     GiveUpKeeps, AcknowledgeKeeps, ClaimKeeps, ResumeAtStartKeeps DEF Work
<1>4. CASE Write
  BY <1>4, FlushKeeps, FlushFailsKeeps DEF Write
<1>5. CASE Service \/ Operator \/ Crash
  BY <1>5, BootKeeps, StartRuntimeKeeps, StopHaltedKeeps, RecoverRunningKeeps, ReconcileOfflineKeeps,
     CrashKeeps DEF Service, Operator
<1>6. CASE UNCHANGED vars
  <2>1. UNCHANGED <<job, unsettled, disk, mem, queue, broken, proc, at, on, plan, host, receipts, answered,
                    offline, disturbed>>
    BY <1>6 DEF vars, files, process, history
  <2>2. /\ Chain("app")' = Chain("app") /\ Chain("env")' = Chain("env") /\ Known' = Known
        /\ \A S : InState(S)' = InState(S)
    BY <2>1 DEF Chain, Values, Known, InState
  <2>3. Typed'
    BY <2>1 DEF IndInv, Typed, TypeOK
  <2>4. Course'
    BY <2>1, <2>2 DEF IndInv, Course
  <2>5. AllNamed'
    BY <2>1, <2>2 DEF IndInv, AllNamed, Named, Marked, Accounted
  <2>6. AllPrepared' /\ Built'
    BY <2>1, <2>2 DEF IndInv, AllPrepared, Prepared, Built, Releases
  <2>7. Waiters'
    BY <2>1, <2>2 DEF IndInv, Waiters, AppWaiter, EnvWaiter, From, Follows
  <2>8. Lagging'
    BY <2>1, <2>2 DEF IndInv, Lagging, Lags, Follows
  <2>9. Effects'
    BY <2>1, <2>2 DEF IndInv, Effects, Landed, ReleaseOf
  <2>10. Agreement'
    BY <2>1, <2>2 DEF IndInv, Agreement, Matches, Applied, Unrecorded, Doubtful, Landed, ReleaseOf
  <2>11. Recorded' /\ Answers'
    BY <2>1, <2>2 DEF IndInv, Recorded, Applied, Answers
  <2> QED BY <2>3, <2>4, <2>5, <2>6, <2>7, <2>8, <2>9, <2>10, <2>11 DEF IndInv
<1> QED BY <1>1, <1>2, <1>3, <1>4, <1>5, <1>6 DEF Next

\* The inductive invariant holds in every reachable state: what the file, the
\* snapshots and the memory of each registry have in common, and how they lag
\* behind the host while requests, the executor, a failed write, a crash or a
\* recovery command are at work.  What it says of the host holds as long as no undo
\* there has failed, and of its link and environment file, not of the systemd unit.
THEOREM Invariant == Spec => []IndInv
BY InitInv, NextInv, PTL DEF Spec

\* Jobs, sidecar, registries, phases and answers keep their types, through failed
\* writes, crashes and recovery commands.
THEOREM TypeCorrect == Spec => []TypeOK
<1>1. IndInv => TypeOK
  BY DEF IndInv, Typed
<1> QED BY <1>1, Invariant, PTL

\* With no host work under way and every result acknowledged, no operation can
\* have left the host ahead of the registries.
LEMMA NothingDoubtful == ASSUME Settled PROVE \A kinds : ~Unrecorded(kinds)
<1>1. \A o \in Ops : job[o].st # "running" /\ o \notin unsettled
  BY DEF Settled, InState
<1> QED BY <1>1 DEF Unrecorded, Doubtful

\* job-reconciliation.js: an acknowledged result is in the registry file, which names
\* the linked release and the revision in its environment file, whatever was retried,
\* crashed or recovered offline, as long as no undo on the host has failed; and the
\* release a rollback would need has not been trimmed from the host or the history.
THEOREM RegistryIsTheHost == Spec => []RegistryMatchesHost
<1>1. ASSUME IndInv, Settled, ~host.torn
      PROVE  /\ disk["app"].cur = host.cur /\ disk["app"].applied = host.rev
             /\ {disk["app"].cur, disk["app"].prev} \ {0} \subseteq
                  host.dirs \cap Range(disk["app"].rels)
  <2>1. disk["app"] \in Chain("app")
    BY DEF Chain
  <2>2. Matches(disk["app"])
    BY <1>1, <2>1, NothingDoubtful DEF IndInv, Agreement
  <2>3. Named(disk["app"]) /\ Built
    BY <1>1, <2>1 DEF IndInv, AllNamed
  <2> QED BY <1>1, <2>2, <2>3 DEF Matches, Named, Built
<1>2. IndInv => RegistryMatchesHost
  BY <1>1 DEF RegistryMatchesHost
<1> QED BY <1>2, Invariant, PTL

\* markApplied: the environment revision on file is that of the environment file on
\* the host, once every result is acknowledged, as long as no undo on the host has
\* failed and no command has reconciled a result without the environment registry.
THEOREM EnvironmentIsTheHosts == Spec => []AppliedEnvironmentIsReal
<1>1. ASSUME IndInv, Settled, ~host.torn, offline = {}, host.cur # 0 PROVE Applied(disk["env"])
  <2>1. disk["env"] \in Chain("env")
    BY DEF Chain
  <2> QED BY <1>1, <2>1, NothingDoubtful DEF IndInv, Agreement
<1>2. IndInv => AppliedEnvironmentIsReal
  BY <1>1 DEF AppliedEnvironmentIsReal, Applied
<1> QED BY <1>2, Invariant, PTL

\* A mark on file belongs to an active or an unsettled operation; only that of a
\* cancelled one can outlive it.
THEOREM LockHasAnOwner == Spec => []LockIsAccountedFor
<1>1. ASSUME IndInv, disk["app"].active # 0 PROVE Accounted(disk["app"].active)
  <2>1. disk["app"] \in Chain("app")
    BY DEF Chain
  <2> QED BY <1>1, <2>1 DEF IndInv, AllNamed, Named, Marked
<1>2. IndInv => LockIsAccountedFor
  BY <1>1 DEF LockIsAccountedFor, Accounted
<1> QED BY <1>2, Invariant, PTL

\* core-app.js answers 202 after the mark is on disk, so the recovery commands find
\* the evidence they ask for after any crash, as long as no undo on the host has failed.
THEOREM AnsweredCanBeRecovered == Spec => []AnsweredIsRecoverable
<1>1. ASSUME IndInv, proc = "down", ~host.torn, NEW o \in answered \cap receipts, job[o].st = "running",
             disk["app"].active \in {0, o}
      PROVE  Evidence(disk["app"], o)
  <2>1. PICK a : a = disk["app"] /\ a \in Chain("app")
    BY DEF Chain
  <2>2. Named(a) /\ o \in Known /\ o \in Ops
    BY <1>1, <2>1 DEF IndInv, AllNamed, Answers, Known
  <2>3. Landed(o) /\ Doubtful(o)
    <3>1. at[Exec] = "idle"
      BY <1>1, ConstantsFacts DEF IndInv, Course
    <3> QED BY <1>1, <3>1 DEF IndInv, Effects, Doubtful
  <2>4. job[o].pay.kind \in {"deploy", "rollback", "restart"}
    BY <1>1, <2>2 DEF IndInv, AllPrepared, Typed, TypeOK, Payload
  <2>5. CASE job[o].pay.kind # "restart"
    <3>1. a.active = o
      BY <1>1, <2>1, <2>5 DEF IndInv, Answers, Active
    <3>2. a.cur = host.prev
      BY <1>1, <2>1, <2>2, <2>5 DEF IndInv, Effects
    <3>3. Marked(a)
      BY <2>2, <3>1, ConstantsFacts DEF Named
    <3> QED BY <2>1, <2>3, <2>4, <2>5, <3>1, <3>2, <3>3
         DEF Marked, Landed, ReleaseOf, Evidence, DeploymentEvidence, RollbackEvidence
  <2>6. CASE job[o].pay.kind = "restart"
    <3>1. a.active = 0 /\ a.pending = 0
      BY <1>1, <2>1, <2>2, <2>6 DEF Named, Marked
    <3>2. a.cur = host.cur
      <4>1. ASSUME NEW x \in Ops, Doubtful(x) PROVE x = o
        BY <1>1, <2>2, <4>1 DEF IndInv, Course, Doubtful, InState, Active
      <4>2. ~Unrecorded({"deploy", "rollback"})
        BY <2>6, <4>1 DEF Unrecorded
      <4> QED BY <1>1, <2>1, <4>2 DEF IndInv, Agreement, Matches
    <3> QED BY <2>1, <2>3, <2>6, <3>1, <3>2 DEF Landed, ReleaseOf, Evidence, RestartEvidence
  <2> QED BY <2>5, <2>6
<1>2. IndInv => AnsweredIsRecoverable
  BY <1>1 DEF AnsweredIsRecoverable
<1> QED BY <1>2, Invariant, PTL

=============================================================================
