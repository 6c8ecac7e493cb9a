------------------------ MODULE MasterKeyRotation_proofs ------------------------
(***************************************************************************)
(* Proofs about MasterKeyRotation, for any number of changes and any       *)
(* crashes, faults, damaged backups and stragglers.                        *)
(*                                                                         *)
(* The invariant follows the manifest: until it is prepared every store is *)
(* under the old key; from then on the backups are copies under that key   *)
(* which the hashes vouch for; the phase of the command tells which stores *)
(* it has read, compared, replaced or restored.                            *)
(***************************************************************************)
EXTENDS MasterKeyRotation, SequenceTheorems, TLAPS

-----------------------------------------------------------------------------
(* The stores left in a phase.                                             *)

Marks == Stores \cup {"wal"}

LEMMA StoresFacts ==
  /\ Files = {"env", "dns", "mail"} /\ Stores = {"env", "dns", "mail", "auth"}
  /\ "auth" \notin Files /\ "wal" \notin Stores /\ FileOrder \in Seq(Files) /\ FileOrder # <<>>
<1>1. DOMAIN FileOrder = 1 .. 3 /\ FileOrder[1] = "env" /\ FileOrder[2] = "dns" /\ FileOrder[3] = "mail"
  BY DEF FileOrder
<1>2. Files = {"env", "dns", "mail"}
  BY <1>1 DEF Files, Range
<1>3. FileOrder \in Seq({"env", "dns", "mail"}) /\ FileOrder # <<>>
  BY DEF FileOrder
<1> QED BY <1>2, <1>3 DEF Stores

\* One step of a phase takes the first store.
LEMMA HeadAndTail ==
  ASSUME NEW S, NEW s \in Seq(S), s # <<>>
  PROVE  /\ Head(s) \in Range(s) /\ Range(s) \subseteq S /\ Tail(s) \in Seq(S)
         /\ Range(s) = {Head(s)} \cup Range(Tail(s))
         /\ Len(s) > 1 => Tail(s) # <<>>
         /\ ~(Len(s) > 1) => Range(s) = {Head(s)}
<1>1. Len(s) \in Nat \ {0} /\ DOMAIN s = 1 .. Len(s) /\ \A i \in 1 .. Len(s) : s[i] \in S
  BY EmptySeq, LenProperties, ElementOfSeq
<1>2. /\ Head(s) = s[1] /\ Tail(s) \in Seq(S) /\ Len(Tail(s)) = Len(s) - 1
      /\ \A i \in 1 .. Len(Tail(s)) : Tail(s)[i] = s[i + 1]
  BY HeadTailProperties
<1> DEFINE t == Tail(s)
<1>3. DOMAIN t = 1 .. Len(s) - 1 /\ Len(t) = Len(s) - 1 /\ \A i \in 1 .. Len(s) - 1 : t[i] = s[i + 1]
  BY <1>2, LenProperties
<1> HIDE DEF t
<1>4. Range(s) \subseteq {s[1]} \cup Range(t)
  <2> SUFFICES ASSUME NEW i \in 1 .. Len(s), i # 1 PROVE s[i] \in Range(t)
    BY <1>1 DEF Range
  <2>1. i - 1 \in 1 .. Len(s) - 1 /\ t[i - 1] = s[i]
    BY <1>1, <1>3
  <2> QED BY <1>3, <2>1 DEF Range
<1>5. Range(t) \subseteq Range(s)
  <2> SUFFICES ASSUME NEW i \in 1 .. Len(s) - 1 PROVE t[i] \in Range(s)
    BY <1>3 DEF Range
  <2>1. i + 1 \in 1 .. Len(s) /\ t[i] = s[i + 1]
    BY <1>1, <1>3
  <2> QED BY <1>1, <2>1 DEF Range
<1>6. s[1] \in Range(s) /\ Range(s) \subseteq S
  BY <1>1 DEF Range
<1>7. Len(s) > 1 => t # <<>>
  <2>1. Len(s) > 1 => Len(t) # 0
    BY <1>1, <1>3
  <2> QED BY <2>1, EmptySeq
<1>8. ~(Len(s) > 1) => Range(s) = {s[1]}
  BY <1>1 DEF Range
<1> QED BY <1>2, <1>4, <1>5, <1>6, <1>7, <1>8 DEF t

LEMMA Joined ==
  ASSUME NEW S, NEW s \in Seq(S), NEW t \in Seq(S)
  PROVE  /\ s \o t \in Seq(S) /\ Range(s \o t) = Range(s) \cup Range(t)
         /\ s # <<>> \/ t # <<>> => s \o t # <<>>
<1> DEFINE r == s \o t
<1>1. /\ r \in Seq(S) /\ Len(r) = Len(s) + Len(t)
      /\ \A i \in 1 .. Len(s) + Len(t) : r[i] = IF i <= Len(s) THEN s[i] ELSE t[i - Len(s)]
  BY ConcatProperties, Zenon
<1>3. /\ Len(s) \in Nat /\ Len(t) \in Nat /\ DOMAIN s = 1 .. Len(s) /\ DOMAIN t = 1 .. Len(t)
  BY LenProperties
<1> HIDE DEF r
<1>2. s # <<>> \/ t # <<>> => r # <<>>
  <2>1. s # <<>> \/ t # <<>> => Len(s) # 0 \/ Len(t) # 0
    BY EmptySeq
  <2>2. s # <<>> \/ t # <<>> => Len(r) # 0
    BY <1>1, <1>3, <2>1
  <2>3. Len(<<>>) = 0
    BY EmptySeq
  <2> QED BY <2>2, <2>3
<1>4. DOMAIN r = 1 .. Len(s) + Len(t)
  BY <1>1, LenProperties
<1>5. Range(s) \subseteq Range(r)
  BY <1>1, <1>3, <1>4 DEF Range
<1>6. Range(t) \subseteq Range(r)
  <2> SUFFICES ASSUME NEW i \in 1 .. Len(t) PROVE t[i] \in Range(r)
    BY <1>3 DEF Range
  <2>1. i + Len(s) \in 1 .. Len(s) + Len(t) /\ ~(i + Len(s) <= Len(s)) /\ i + Len(s) - Len(s) = i
    BY <1>3
  <2>2. r[i + Len(s)] = t[i]
    BY <1>1, <2>1
  <2> QED BY <1>4, <2>1, <2>2 DEF Range
<1>7. Range(r) \subseteq Range(s) \cup Range(t)
  <2> SUFFICES ASSUME NEW i \in 1 .. Len(s) + Len(t) PROVE r[i] \in Range(s) \cup Range(t)
    BY <1>4 DEF Range
  <2>1. CASE i <= Len(s)
    BY <1>1, <1>3, <2>1 DEF Range
  <2>2. CASE ~(i <= Len(s))
    <3>1. i - Len(s) \in 1 .. Len(t) /\ r[i] = t[i - Len(s)]
      BY <1>1, <1>3, <2>2
    <3> QED BY <1>3, <3>1 DEF Range
  <2> QED BY <2>1, <2>2
<1> QED BY <1>1, <1>2, <1>5, <1>6, <1>7 DEF r

\* A sequence of one, and of none.
LEMMA OneAndNone ==
  /\ \A x : Range(<<x>>) = {x} /\ <<x>> # <<>>
  /\ \A S : \A x \in S : <<x>> \in Seq(S)
  /\ Range(<<>>) = {} /\ \A S : <<>> \in Seq(S)
<1>1. \A x : Range(<<x>>) = {x} /\ <<x>> # <<>>
  BY DEF Range
<1>2. \A S : \A x \in S : <<x>> \in Seq(S)
  OBVIOUS
<1>3. Range(<<>>) = {} /\ \A S : <<>> \in Seq(S)
  BY EmptySeq DEF Range
<1> QED BY <1>1, <1>2, <1>3

\* The files of a set, in the order of the plan.
LEMMA InOrderFacts ==
  ASSUME NEW S \in SUBSET Files
  PROVE  /\ InOrder(S) \in Seq(Files) /\ Range(InOrder(S)) = S /\ (S # {} => InOrder(S) # <<>>)
<1> DEFINE One(f) == IF f \in S THEN <<f>> ELSE <<>>
<1>1. ASSUME NEW f \in Files
      PROVE  One(f) \in Seq(Files) /\ Range(One(f)) = S \cap {f}
  BY OneAndNone
<1>2. InOrder(S) = One("env") \o One("dns") \o One("mail")
  BY DEF InOrder
<1>3. "env" \in Files /\ "dns" \in Files /\ "mail" \in Files /\ Files = {"env", "dns", "mail"}
  BY StoresFacts
<1> DEFINE u == One("env")
           v == One("dns")
           w == One("mail")
<1>4. /\ u \in Seq(Files) /\ v \in Seq(Files) /\ w \in Seq(Files)
      /\ Range(u) = S \cap {"env"} /\ Range(v) = S \cap {"dns"} /\ Range(w) = S \cap {"mail"}
  BY <1>1, <1>3
<1>5. InOrder(S) = (u \o v) \o w
  BY <1>2
<1> HIDE DEF u, v, w
<1>6. u \o v \in Seq(Files) /\ Range(u \o v) = Range(u) \cup Range(v)
  BY <1>4, Joined
<1> DEFINE x == u \o v
<1>7. x \in Seq(Files) /\ Range(x) = Range(u) \cup Range(v)
  BY <1>6
<1> HIDE DEF x
<1>8. x \o w \in Seq(Files) /\ Range(x \o w) = Range(x) \cup Range(w)
  BY <1>4, <1>7, Joined
<1> DEFINE y == x \o w
<1>9. y \in Seq(Files) /\ Range(y) = Range(x) \cup Range(w) /\ InOrder(S) = y
  BY <1>5, <1>8 DEF x
<1> HIDE DEF y
<1>10. Range(y) = S
  BY <1>3, <1>4, <1>7, <1>9
<1>11. S # {} => y # <<>>
  BY <1>10, OneAndNone
<1> QED BY <1>9, <1>10, <1>11

-----------------------------------------------------------------------------
(* The invariant.                                                          *)

Working == {"backup", "read", "prepare", "check", "replace", "commit", "finish", "undo", "report", "close"}
Undoing == {"verify", "restore", "restored"}

Covered == had \cup {"auth"}
Saved   == manifest.had \cup {"auth"}
OldKeys == UsesKey("current") /\ db.key = "current"

Statuses == {"none", "prepared", "applied", "failed", "rollback_required", "rolled_back"}
Shape ==
  /\ manifest \in [st : Statuses, had : SUBSET Files, hash : [Stores -> Contents]]
  /\ at \in {"idle"} \cup Working \cup Undoing

\* How far the manifest has come in each phase, and when the API may run.
Course ==
  /\ at # "idle" \/ undoing # "no" => api = "stopped"
  /\ api # "stopped" => api = CalledFor
  /\ at \in Working => undoing = "no"
  /\ at \in Undoing => undoing # "no" /\ manifest.st # "rolled_back"
  /\ manifest.st \in {"none", "rolled_back"} => undoing = "no"
  /\ at \in {"restore", "restored"} => undoing = "begun" /\ Genuine
  /\ at \in {"backup", "read", "prepare"} => manifest.st = "none"
  /\ at \in {"check", "replace", "commit", "finish", "undo"} => manifest.st = "prepared"
  /\ at = "report" => manifest.st \in {"none", "prepared"}
  /\ manifest.st = "rolled_back" => at = "idle"

\* The stores left in a phase, and the files replaced so far.
Left ==
  /\ at \in {"backup", "read", "check"} => todo # <<>> /\ Range(todo) \subseteq Covered
  /\ at = "replace" => todo # <<>> /\ Range(todo) \subseteq had /\ had \subseteq replaced \cup Range(todo)
  /\ at = "undo" => todo # <<>> /\ Range(todo) \subseteq had
  /\ at = "restore" => todo # <<>>
  /\ at \in {"commit", "finish"} => replaced = had
  /\ at \in {"backup", "read", "prepare", "check"} \/ manifest.st = "none" => replaced = {}

\* The backups are copies under the old key, vouched for by a manifest once anything
\* may be under the new one.
BackedUp == \A s \in Covered : backup[s].key = "current"
Complete ==
  \A s \in Saved : manifest.hash[s].key = "current" /\ backup[s] \in {manifest.hash[s], Damaged}
Copies ==
  /\ at \in Working => \A s \in Stores : backup[s] # Damaged
  /\ \A s \in Stores : backup[s].key # "next" /\ manifest.hash[s].key # "next"
  /\ at = "backup" => /\ \A s \in Covered \ Range(todo) : backup[s].key = "current"
                      /\ \A f \in had : file[f].key = "current"
  /\ at \in {"read", "prepare", "check", "replace", "commit", "finish", "undo"} => BackedUp
  /\ at = "report" => BackedUp \/ manifest.st = "none"
  /\ manifest.st # "none" => Complete \/ (OldKeys /\ manifest.st \in {"failed", "rolled_back"})

\* The keys that the manifest's status promises, unless a rollback has begun.
Keys ==
  /\ manifest.st = "none" => OldKeys
  /\ manifest.st = "rolled_back" => UsesKey("current")
  /\ manifest.st = "applied" /\ undoing # "begun" /\ ~unseen => UsesKey("next")
  /\ manifest.st = "failed" /\ undoing # "begun" /\ ~unseen => \A f \in Files : file[f].key # "next"
  /\ at \in {"check", "replace", "commit", "finish", "undo", "report"} /\ ~unseen =>
       \A f \in Files \ replaced : file[f].key # "next"

\* What was read and compared holds every change made so far.
Counts ==
  /\ manifest.st = "none" \/ at = "check" => \A s \in Stores : Content(s).ver = edits[s]
  /\ ~unseen =>
     /\ at \in {"backup", "read", "prepare", "check", "replace", "commit", "finish"} =>
          \A f \in Files \ had : file[f] = Absent
     /\ at = "check" => \A s \in Covered \ Range(todo) : Content(s) = text[s]
     /\ at \in {"replace", "commit", "finish"} =>
          /\ \A s \in Covered : text[s].ver = edits[s]
          /\ \A f \in replaced : file[f] = Wrapped("next", edits[f])
     /\ at = "finish" => Content("auth") = Wrapped("next", edits["auth"])

\* What the rollback has restored so far.
Original(f) == IF f \in manifest.had THEN manifest.hash[f] ELSE Absent
Done == IF at = "restore" THEN Marks \ Range(todo) ELSE Marks
Restoring ==
  at \in {"restore", "restored"} =>
    /\ \A f \in Files \cap Done : file[f] = Original(f)
    /\ "wal" \in Done => wal = Absent
    /\ "auth" \in Done => db = manifest.hash["auth"]

IndInv == TypeOK /\ Shape /\ Course /\ Left /\ Copies /\ Keys /\ Counts /\ Restoring

-----------------------------------------------------------------------------
(* Contents and stores.                                                    *)

LEMMA ContentsFacts ==
  /\ Absent \in Contents /\ Absent.key = "none" /\ Absent.ver = 0
  /\ Damaged \notin Contents /\ Damaged.key = "damaged"
  /\ \A c \in Contents : /\ c.key \in {"none", "current", "next"} /\ c.ver \in Nat
                         /\ c = Wrapped(c.key, c.ver) /\ (c.key = "none" <=> c = Absent)
  /\ \A k : \A n : Wrapped(k, n).key = k /\ Wrapped(k, n).ver = n
  /\ \A k \in {"current", "next"} : \A n \in Nat : Wrapped(k, n) \in Contents
BY DEF Contents, Absent, Damaged, Wrapped

LEMMA Typed ==
  ASSUME TypeOK
  PROVE  /\ file \in [Files -> Contents] /\ db \in Contents \ {Absent} /\ wal \in Contents
         /\ backup \in [Stores -> Contents \cup {Damaged}] /\ had \in SUBSET Files
         /\ manifest.had \subseteq Files /\ manifest.hash \in [Stores -> Contents]
         /\ todo \in Seq(Marks) /\ text \in [Stores -> Contents] /\ replaced \subseteq had
         /\ Covered \subseteq Stores /\ Saved \subseteq Stores
         /\ \A s \in Stores : Content(s) \in Contents
         /\ Content("auth") # Absent /\ \A f \in Files : Content(f) = file[f]
         /\ edits \in [Stores -> Nat]
BY StoresFacts DEF TypeOK, Covered, Saved, Content, Stores, Marks

\* Nothing changes for the stores.
LEMMA SameStores ==
  ASSUME file' = file, db' = db, wal' = wal
  PROVE  /\ \A s : Content(s)' = Content(s)
         /\ UsesKey("current")' = UsesKey("current") /\ UsesKey("next")' = UsesKey("next")
         /\ OldKeys' = OldKeys
BY DEF Content, UsesKey, OldKeys

\* A step of a phase goes on with the rest, or ends it.
LEMMA ProceedFacts ==
  ASSUME TypeOK, todo # <<>>, NEW p, NEW s, Proceed(p, s)
  PROVE  /\ Head(todo) \in Range(todo) /\ Range(todo) \subseteq Marks
         /\ \/ /\ at' = at /\ todo' \in Seq(Marks) /\ todo' # <<>>
               /\ Range(todo) = {Head(todo)} \cup Range(todo')
            \/ Range(todo) = {Head(todo)} /\ at' = p /\ todo' = s
<1>1. todo \in Seq(Marks)
  BY Typed
<1>2. /\ Head(todo) \in Range(todo) /\ Range(todo) \subseteq Marks /\ Tail(todo) \in Seq(Marks)
      /\ Range(todo) = {Head(todo)} \cup Range(Tail(todo))
      /\ Len(todo) > 1 => Tail(todo) # <<>>
      /\ ~(Len(todo) > 1) => Range(todo) = {Head(todo)}
  BY <1>1, HeadAndTail
<1> QED BY <1>2 DEF Proceed, Phase

\* The stores of a phase that begins.
LEMMA Lists ==
  ASSUME NEW S \in SUBSET Files
  PROVE  /\ <<"auth">> \o InOrder(S) \in Seq(Marks) /\ InOrder(S) \o <<"auth">> \in Seq(Marks)
         /\ InOrder(S) \in Seq(Marks) /\ Range(InOrder(S)) = S /\ (S # {} => InOrder(S) # <<>>)
         /\ <<"auth">> \o InOrder(S) # <<>> /\ InOrder(S) \o <<"auth">> # <<>>
         /\ Range(<<"auth">> \o InOrder(S)) = S \cup {"auth"}
         /\ Range(InOrder(S) \o <<"auth">>) = S \cup {"auth"}
         /\ FileOrder \o <<"wal", "auth">> \in Seq(Marks) /\ FileOrder \o <<"wal", "auth">> # <<>>
         /\ Range(FileOrder \o <<"wal", "auth">>) = Marks
<1> DEFINE t == InOrder(S)
           u == <<"auth">>
           v == <<"wal", "auth">>
           w == FileOrder
<1>1. t \in Seq(Files) /\ Range(t) = S /\ (S # {} => t # <<>>)
  BY InOrderFacts
<1>2. Files \subseteq Marks /\ "auth" \in Marks /\ "wal" \in Marks /\ Marks = Files \cup {"auth", "wal"}
  BY DEF Marks, Stores
<1>3. t \in Seq(Marks) /\ w \in Seq(Marks)
  BY <1>1, <1>2, StoresFacts
<1>4. u \in Seq(Marks) /\ Range(u) = {"auth"} /\ u # <<>>
  BY <1>2, OneAndNone
<1>5. v \in Seq(Marks) /\ Range(v) = {"wal", "auth"} /\ v # <<>>
  <2>1. v \in Seq(Marks) /\ v # <<>>
    BY <1>2
  <2>2. DOMAIN v = 1 .. 2 /\ v[1] = "wal" /\ v[2] = "auth"
    OBVIOUS
  <2> HIDE DEF v
  <2>3. Range(v) = {"wal", "auth"}
    BY <2>2 DEF Range
  <2> QED BY <2>1, <2>3
<1>6. Range(w) = Files
  BY DEF Files
<1> HIDE DEF t, u, v, w
<1>7. u \o t \in Seq(Marks) /\ Range(u \o t) = Range(u) \cup Range(t) /\ u \o t # <<>>
  BY <1>3, <1>4, Joined
<1>8. t \o u \in Seq(Marks) /\ Range(t \o u) = Range(u) \cup Range(t) /\ t \o u # <<>>
  BY <1>3, <1>4, Joined
<1>9. w \o v \in Seq(Marks) /\ Range(w \o v) = Range(w) \cup Range(v) /\ w \o v # <<>>
  BY <1>3, <1>5, Joined
<1>10. /\ u \o t \in Seq(Marks) /\ t \o u \in Seq(Marks) /\ w \o v \in Seq(Marks) /\ t \in Seq(Marks)
       /\ u \o t # <<>> /\ t \o u # <<>> /\ w \o v # <<>> /\ (S # {} => t # <<>>)
       /\ Range(u \o t) = S \cup {"auth"} /\ Range(t \o u) = S \cup {"auth"} /\ Range(t) = S
       /\ Range(w \o v) = Marks
  BY <1>1, <1>2, <1>3, <1>4, <1>5, <1>6, <1>7, <1>8, <1>9
<1> QED BY <1>10, Zenon DEF t, u, v, w

-----------------------------------------------------------------------------
(* The steps of the rotation.                                              *)

LEMMA RotateInv ==
  ASSUME IndInv, Rotate
  PROVE  IndInv'
<1>1. /\ at = "idle" /\ api = "current" /\ manifest.st = "none" /\ \A s \in Stores : backup[s] = Absent
      /\ api' = "stopped" /\ had' = {f \in Files : file[f] # Absent}
      /\ at' = "backup" /\ todo' = <<"auth">> \o InOrder(had')
      /\ file' = file /\ db' = db /\ wal' = wal /\ backup' = backup /\ manifest' = manifest
      /\ text' = text /\ locked' = locked /\ replaced' = replaced /\ undoing' = undoing
      /\ edits' = edits /\ unseen' = unseen
  BY DEF Rotate, Phase, stores, copies
<1>2. /\ todo' \in Seq(Marks) /\ todo' # <<>> /\ Range(todo') = Covered' /\ had' \in SUBSET Files
  BY <1>1, Lists DEF Covered
<1>3. /\ undoing = "no" /\ replaced = {} /\ OldKeys /\ \A s \in Stores : Content(s).ver = edits[s]
  BY <1>1 DEF IndInv, Course, Left, Keys, Counts
<1>4. TypeOK' /\ Shape'
  BY <1>1, <1>2, <1>3 DEF IndInv, TypeOK, Shape, Working, Marks
<1>5. Course' /\ Left' /\ Restoring'
  BY <1>1, <1>2, <1>3 DEF Course, Left, Restoring, Working, Undoing
<1>6. Copies'
  <2>1. \A f \in had' : file[f].key = "current"
    BY <1>1, <1>3, ContentsFacts, Typed, StoresFacts DEF IndInv, OldKeys, UsesKey, Stores
  <2>2. \A s \in Stores : backup[s] # Damaged
    BY <1>1, ContentsFacts
  <2> QED BY <1>1, <1>2, <2>1, <2>2 DEF Copies, Working, IndInv
<1>7. Keys'
  BY <1>1, <1>3, SameStores DEF Keys
<1>8. Counts'
  BY <1>1, <1>3, SameStores DEF Counts
<1> QED BY <1>4, <1>5, <1>6, <1>7, <1>8 DEF IndInv

LEMMA BackupInv ==
  ASSUME IndInv, Backup
  PROVE  IndInv'
<1>1. /\ at = "backup" /\ backup' = [backup EXCEPT ![Head(todo)] = Content(Head(todo))]
      /\ Proceed("read", InOrder(had) \o <<"auth">>)
      /\ file' = file /\ db' = db /\ wal' = wal /\ manifest' = manifest /\ had' = had
      /\ text' = text /\ locked' = locked /\ replaced' = replaced /\ undoing' = undoing
      /\ edits' = edits /\ unseen' = unseen /\ api' = api
  BY DEF Backup, At, stores, world
<1>2. /\ TypeOK /\ todo # <<>> /\ Range(todo) \subseteq Covered /\ manifest.st = "none" /\ replaced = {}
      /\ undoing = "no" /\ OldKeys /\ \A s \in Stores : Content(s).ver = edits[s]
      /\ \A s \in Covered \ Range(todo) : backup[s].key = "current"
      /\ \A f \in had : file[f].key = "current"
  BY <1>1 DEF IndInv, Course, Left, Copies, Keys, Counts, Working
<1>3. /\ Head(todo) \in Range(todo)
      /\ \/ at' = "backup" /\ todo' \in Seq(Marks) /\ todo' # <<>> /\ Range(todo) = {Head(todo)} \cup Range(todo')
         \/ /\ Range(todo) = {Head(todo)} /\ at' = "read" /\ todo' \in Seq(Marks) /\ todo' # <<>>
            /\ Range(todo') = Covered
  <2> DEFINE l == InOrder(had) \o <<"auth">>
  <2>1. l \in Seq(Marks) /\ l # <<>> /\ Range(l) = Covered
    BY <1>2, Lists, Typed DEF Covered
  <2>2. Proceed("read", l)
    BY <1>1
  <2> HIDE DEF l
  <2>3. /\ Head(todo) \in Range(todo)
        /\ \/ at' = at /\ todo' \in Seq(Marks) /\ todo' # <<>> /\ Range(todo) = {Head(todo)} \cup Range(todo')
           \/ Range(todo) = {Head(todo)} /\ at' = "read" /\ todo' = l
    BY <1>2, <2>2, ProceedFacts
  <2> QED BY <1>1, <2>1, <2>3
<1>4. PICK h \in Covered : h = Head(todo)
  BY <1>2, <1>3
<1>5. Content(h).key = "current" /\ Content(h) \in Contents /\ h \in Stores
  <2>1. h \in Stores /\ Content(h) \in Contents
    BY <1>2, Typed
  <2>2. CASE h = "auth"
    BY <1>2, <2>1, <2>2, Typed, ContentsFacts DEF OldKeys, UsesKey
  <2>3. CASE h \in had
    BY <1>2, <2>1, <2>3, Typed
  <2> QED BY <2>1, <2>2, <2>3 DEF Covered
<1>6. /\ backup' \in [Stores -> Contents \cup {Damaged}] /\ backup'[h] = Content(h)
      /\ \A s \in Stores \ {h} : backup'[s] = backup[s]
  BY <1>1, <1>2, <1>4, <1>5, Typed
<1>7. TypeOK' /\ Shape'
  BY <1>1, <1>2, <1>3, <1>6 DEF IndInv, TypeOK, Shape, Working, Marks
<1>8. Course' /\ Left' /\ Restoring'
  BY <1>1, <1>2, <1>3 DEF IndInv, Course, Left, Restoring, Working, Undoing, CalledFor, Covered
<1>9. Copies'
  <2>1. \A s \in Covered : s # h /\ s \notin Range(todo) => backup'[s].key = "current"
    BY <1>2, <1>6, Typed
  <2>2. \A s \in Stores : backup'[s] # Damaged /\ backup'[s].key # "next"
    BY <1>1, <1>5, <1>6, ContentsFacts DEF IndInv, Copies, Working
  <2> QED BY <1>1, <1>2, <1>3, <1>4, <1>5, <1>6, <2>1, <2>2 DEF Copies, BackedUp, IndInv, Covered
<1>10. Keys'
  BY <1>1, <1>2, <1>3, SameStores DEF Keys
<1>11. Counts'
  BY <1>1, <1>2, <1>3, SameStores DEF Counts, IndInv
<1> QED BY <1>7, <1>8, <1>9, <1>10, <1>11 DEF IndInv

LEMMA ReadInv ==
  ASSUME IndInv, Read
  PROVE  IndInv'
<1>1. /\ at = "read" /\ text' = [text EXCEPT ![Head(todo)] = Content(Head(todo))]
      /\ Proceed("prepare", <<>>)
      /\ file' = file /\ db' = db /\ wal' = wal /\ manifest' = manifest /\ had' = had
      /\ backup' = backup /\ locked' = locked /\ replaced' = replaced /\ undoing' = undoing
      /\ edits' = edits /\ unseen' = unseen /\ api' = api
  BY DEF Read, At, stores, world, copies
<1>2. /\ TypeOK /\ todo # <<>> /\ Range(todo) \subseteq Covered /\ manifest.st = "none" /\ replaced = {}
      /\ undoing = "no" /\ OldKeys /\ \A s \in Stores : Content(s).ver = edits[s]
      /\ BackedUp
  BY <1>1 DEF IndInv, Course, Left, Copies, Keys, Counts, Working
<1>3. /\ Head(todo) \in Range(todo)
      /\ \/ at' = "read" /\ todo' \in Seq(Marks) /\ todo' # <<>> /\ Range(todo) = {Head(todo)} \cup Range(todo')
         \/ at' = "prepare" /\ todo' \in Seq(Marks)
  <2>1. /\ Head(todo) \in Range(todo)
        /\ \/ at' = at /\ todo' \in Seq(Marks) /\ todo' # <<>> /\ Range(todo) = {Head(todo)} \cup Range(todo')
           \/ Range(todo) = {Head(todo)} /\ at' = "prepare" /\ todo' = <<>>
    BY <1>1, <1>2, ProceedFacts
  <2> QED BY <1>1, <2>1, OneAndNone
<1>4. text' \in [Stores -> Contents]
  BY <1>1, <1>2, <1>3, Typed
<1>5. TypeOK' /\ Shape'
  BY <1>1, <1>2, <1>3, <1>4 DEF IndInv, TypeOK, Shape, Working, Marks
<1>6. Course' /\ Left' /\ Restoring'
  BY <1>1, <1>2, <1>3 DEF IndInv, Course, Left, Restoring, Working, Undoing, CalledFor, Covered
<1>7. Copies'
  BY <1>1, <1>2, <1>3 DEF Copies, BackedUp, IndInv, Covered, Working
<1>8. Keys'
  BY <1>1, <1>2, <1>3, SameStores DEF Keys
<1>9. Counts'
  BY <1>1, <1>2, <1>3, SameStores DEF Counts, IndInv
<1> QED BY <1>5, <1>6, <1>7, <1>8, <1>9 DEF IndInv

LEMMA PrepareInv ==
  ASSUME IndInv, Prepare
  PROVE  IndInv'
<1>1. /\ at = "prepare" /\ manifest' = [st |-> "prepared", had |-> had, hash |-> backup]
      /\ at' = "check" /\ todo' = <<"auth">> \o InOrder(had)
      /\ file' = file /\ db' = db /\ wal' = wal /\ had' = had /\ text' = text
      /\ backup' = backup /\ locked' = locked /\ replaced' = replaced /\ undoing' = undoing
      /\ edits' = edits /\ unseen' = unseen /\ api' = api
  BY DEF Prepare, At, stores, world, Record, Phase
<1>2. /\ TypeOK /\ manifest.st = "none" /\ replaced = {} /\ api = "stopped"
      /\ undoing = "no" /\ OldKeys /\ \A s \in Stores : Content(s).ver = edits[s]
      /\ BackedUp /\ \A s \in Stores : backup[s] # Damaged
  BY <1>1 DEF IndInv, Course, Left, Copies, Keys, Counts, Working
<1>3. todo' \in Seq(Marks) /\ todo' # <<>> /\ Range(todo') = Covered
  BY <1>1, <1>2, Typed, Lists DEF Covered
<1>4. backup \in [Stores -> Contents]
  BY <1>2, Typed
<1>5. manifest'.st = "prepared" /\ manifest'.had = had /\ manifest'.hash = backup
  BY <1>1
<1>6. TypeOK' /\ Shape'
  BY <1>1, <1>2, <1>3, <1>4 DEF TypeOK, Shape, Working, Marks, Statuses
<1>7. Course' /\ Left' /\ Restoring'
  BY <1>1, <1>2, <1>3, <1>5 DEF Course, Left, Restoring, Working, Undoing, Covered
<1>8. Copies'
  BY <1>1, <1>2, <1>5, Typed DEF Copies, BackedUp, Complete, Saved, Covered, IndInv
<1>9. Keys'
  BY <1>1, <1>2, <1>5, SameStores, ContentsFacts, Typed, StoresFacts DEF Keys, OldKeys, UsesKey
<1>10. Counts'
  BY <1>1, <1>2, <1>3, <1>5, SameStores, Typed DEF Counts, IndInv, Covered
<1> QED BY <1>6, <1>7, <1>8, <1>9, <1>10 DEF IndInv

\* A failure rolls the transaction back and restores what was replaced.
LEMMA AbortFacts ==
  ASSUME TypeOK, Abort
  PROVE  /\ locked' = FALSE
         /\ \/ replaced = {} /\ at' = "report" /\ todo' \in Seq(Marks)
            \/ at' = "undo" /\ todo' \in Seq(Marks) /\ todo' # <<>> /\ Range(todo') = replaced
<1>1. replaced \in SUBSET Files
  BY Typed
<1>2. /\ InOrder(replaced) \in Seq(Marks) /\ Range(InOrder(replaced)) = replaced
      /\ (replaced # {} => InOrder(replaced) # <<>>)
  BY <1>1, Lists
<1>3. <<>> \in Seq(Marks)
  BY OneAndNone
<1>4. CASE replaced = {}
  BY <1>3, <1>4 DEF Abort, Phase
<1>5. CASE replaced # {}
  <2>1. locked' = FALSE /\ at' = "undo" /\ todo' = InOrder(replaced)
    BY <1>5 DEF Abort, Phase
  <2> QED BY <1>2, <1>5, <2>1
<1> QED BY <1>4, <1>5

Failing == {"backup", "read", "prepare", "check", "replace", "commit", "finish"}

LEMMA AbortInv ==
  ASSUME IndInv, at \in Failing, Abort,
         UNCHANGED <<stores, copies, had, text, replaced, world>>
  PROVE  IndInv'
<1>1. /\ file' = file /\ db' = db /\ wal' = wal /\ manifest' = manifest /\ had' = had
      /\ backup' = backup /\ text' = text /\ replaced' = replaced /\ undoing' = undoing
      /\ edits' = edits /\ unseen' = unseen /\ api' = api
  BY DEF stores, copies, world
<1>2. /\ TypeOK /\ Shape /\ api = "stopped" /\ undoing = "no" /\ manifest.st \in {"none", "prepared"}
      /\ manifest.st = "none" => OldKeys /\ replaced = {} /\ \A s \in Stores : Content(s).ver = edits[s]
      /\ manifest.st = "prepared" => BackedUp /\ (at # "check" \/ replaced = {})
      /\ manifest.st = "none" \/ BackedUp
      /\ \A s \in Stores : backup[s] # Damaged
      /\ ~unseen => \A f \in Files \ replaced : file[f].key # "next"
  <2>1. OldKeys => \A f \in Files : file[f].key # "next"
    BY ContentsFacts, Typed, StoresFacts DEF OldKeys, UsesKey, IndInv
  <2> QED BY <2>1 DEF IndInv, Course, Left, Copies, Keys, Counts, Working, Failing
<1>3. /\ locked' = FALSE
      /\ \/ replaced = {} /\ at' = "report" /\ todo' \in Seq(Marks)
         \/ at' = "undo" /\ todo' \in Seq(Marks) /\ todo' # <<>> /\ Range(todo') = replaced
  BY <1>2, AbortFacts
<1>4. replaced \subseteq had
  BY <1>2 DEF TypeOK
<1>5. TypeOK' /\ Shape'
  BY <1>1, <1>2, <1>3 DEF TypeOK, Shape, Working, Marks
<1>6. at' = "undo" => manifest.st = "prepared"
  <2>1. at' = "undo" => replaced # {}
    BY <1>3, HeadAndTail
  <2> QED BY <1>2, <2>1
<1>7. Course' /\ Left' /\ Restoring'
  BY <1>1, <1>2, <1>3, <1>4, <1>6 DEF Course, Left, Restoring, Working, Undoing
<1>8. Copies'
  BY <1>1, <1>2, <1>3, <1>6, SameStores DEF Copies, BackedUp, IndInv, Covered, Complete, Saved
<1>9. Keys'
  BY <1>1, <1>2, <1>3, SameStores DEF Keys
<1>10. Counts'
  BY <1>1, <1>2, <1>3, SameStores DEF Counts, IndInv
<1> QED BY <1>5, <1>7, <1>8, <1>9, <1>10 DEF IndInv

LEMMA FailInv ==
  ASSUME IndInv, Fail
  PROVE  IndInv'
BY AbortInv DEF Fail, Failing

LEMMA CheckInv ==
  ASSUME IndInv, Check
  PROVE  IndInv'
<1>1. /\ at = "check" /\ file' = file /\ db' = db /\ wal' = wal /\ manifest' = manifest /\ had' = had
      /\ backup' = backup /\ text' = text /\ replaced' = replaced /\ undoing' = undoing
      /\ edits' = edits /\ unseen' = unseen /\ api' = api
  BY DEF Check, At, stores, copies, world
<1>2. CASE Abort
  BY <1>1, <1>2, AbortInv DEF Failing, stores, copies, world
<1>3. CASE /\ Content(Head(todo)) = text[Head(todo)] /\ locked' = TRUE
           /\ IF had = {} THEN Proceed("commit", <<>>) ELSE Proceed("replace", InOrder(had))
  <2>1. /\ TypeOK /\ Shape /\ todo # <<>> /\ Range(todo) \subseteq Covered /\ manifest.st = "prepared"
        /\ replaced = {} /\ undoing = "no" /\ api = "stopped" /\ BackedUp
        /\ \A s \in Stores : Content(s).ver = edits[s]
        /\ ~unseen => \A s \in Covered \ Range(todo) : Content(s) = text[s]
        /\ ~unseen => \A f \in Files \ had : file[f] = Absent
    BY <1>1 DEF IndInv, Course, Left, Copies, Keys, Counts, Working
  <2>2. /\ InOrder(had) \in Seq(Marks) /\ Range(InOrder(had)) = had /\ (had # {} => InOrder(had) # <<>>)
    BY <2>1, Lists, Typed
  <2>3. /\ Head(todo) \in Range(todo)
        /\ \/ /\ at' = at /\ todo' \in Seq(Marks) /\ todo' # <<>>
              /\ Range(todo) = {Head(todo)} \cup Range(todo')
           \/ /\ Range(todo) = {Head(todo)}
              /\ \/ had = {} /\ at' = "commit" /\ todo' = <<>>
                 \/ had # {} /\ at' = "replace" /\ todo' = InOrder(had)
    <3>1. CASE had = {}
      <4>1. Proceed("commit", <<>>)
        BY <1>3, <3>1
      <4> QED BY <2>1, <3>1, <4>1, ProceedFacts
    <3>2. CASE had # {}
      <4>1. Proceed("replace", InOrder(had))
        BY <1>3, <3>2
      <4> QED BY <2>1, <3>2, <4>1, ProceedFacts
    <3> QED BY <3>1, <3>2
  <2>4. /\ \/ /\ at' = "check" /\ todo' \in Seq(Marks) /\ todo' # <<>>
              /\ Range(todo) = {Head(todo)} \cup Range(todo')
           \/ /\ Range(todo) = {Head(todo)} /\ todo' \in Seq(Marks)
              /\ \/ had = {} /\ at' = "commit"
                 \/ at' = "replace" /\ todo' # <<>> /\ Range(todo') = had
    BY <1>1, <2>2, <2>3, OneAndNone
  <2>5. ~unseen => \A s \in Covered \ (Range(todo) \ {Head(todo)}) : Content(s) = text[s]
    BY <1>3, <2>1
  <2>6. TypeOK' /\ Shape'
    BY <1>1, <1>3, <2>1, <2>4 DEF TypeOK, Shape, Working, Marks
  <2>7. Course' /\ Left' /\ Restoring'
    BY <1>1, <2>1, <2>4 DEF Course, Left, Restoring, Working, Undoing, Covered
  <2>8. Copies'
    BY <1>1, <2>1, <2>4, SameStores DEF Copies, BackedUp, IndInv, Covered, Complete, Saved, Working
  <2>9. Keys'
    BY <1>1, <2>1, <2>4, SameStores DEF Keys, IndInv
  <2>10. Counts'
    <3>1. \A s \in Covered : s \in Stores
      BY <2>1, Typed
    <3>2. at' # "check" /\ ~unseen => \A s \in Covered : text[s].ver = edits[s]
      BY <2>1, <2>4, <2>5, <3>1
    <3>3. at' = "check" => Range(todo) = {Head(todo)} \cup Range(todo')
      BY <2>4
    <3>4. at' = "check" /\ ~unseen => \A s \in Covered \ Range(todo') : Content(s) = text[s]
      BY <2>5, <3>3
    <3> QED BY <1>1, <2>1, <2>4, <3>2, <3>4, SameStores DEF Counts, Covered
  <2> QED BY <2>6, <2>7, <2>8, <2>9, <2>10 DEF IndInv
<1> QED BY <1>2, <1>3 DEF Check

LEMMA ReplaceInv ==
  ASSUME IndInv, Replace
  PROVE  IndInv'
<1>1. /\ at = "replace" /\ file' = [file EXCEPT ![Head(todo)] = Wrapped("next", text[Head(todo)].ver)]
      /\ replaced' = replaced \cup {Head(todo)} /\ Proceed("commit", <<>>)
      /\ db' = db /\ wal' = wal /\ manifest' = manifest /\ had' = had
      /\ backup' = backup /\ text' = text /\ locked' = locked /\ undoing' = undoing
      /\ edits' = edits /\ unseen' = unseen /\ api' = api
  BY DEF Replace, At, copies, world
<1>2. /\ TypeOK /\ Shape /\ todo # <<>> /\ Range(todo) \subseteq had /\ had \subseteq replaced \cup Range(todo)
      /\ manifest.st = "prepared" /\ undoing = "no" /\ api = "stopped" /\ BackedUp /\ replaced \subseteq had
      /\ ~unseen => /\ \A f \in Files \ had : file[f] = Absent
                    /\ \A s \in Covered : text[s].ver = edits[s]
                    /\ \A f \in replaced : file[f] = Wrapped("next", edits[f])
                    /\ \A f \in Files \ replaced : file[f].key # "next"
  BY <1>1, Typed DEF IndInv, Course, Left, Copies, Keys, Counts, Working
<1>3. /\ Head(todo) \in Range(todo)
      /\ \/ at' = "replace" /\ todo' \in Seq(Marks) /\ todo' # <<>> /\ Range(todo) = {Head(todo)} \cup Range(todo')
         \/ Range(todo) = {Head(todo)} /\ at' = "commit" /\ todo' \in Seq(Marks)
  <2>1. /\ Head(todo) \in Range(todo)
        /\ \/ at' = at /\ todo' \in Seq(Marks) /\ todo' # <<>> /\ Range(todo) = {Head(todo)} \cup Range(todo')
           \/ Range(todo) = {Head(todo)} /\ at' = "commit" /\ todo' = <<>>
    BY <1>1, <1>2, ProceedFacts
  <2> QED BY <1>1, <2>1, OneAndNone
<1>4. PICK h \in had : h = Head(todo)
  BY <1>2, <1>3
<1>5. h \in Files /\ h \in Stores /\ text[h].ver \in Nat /\ Wrapped("next", text[h].ver) \in Contents
  BY <1>2, Typed, ContentsFacts DEF Stores
<1>6. /\ file' \in [Files -> Contents] /\ file'[h] = Wrapped("next", text[h].ver)
      /\ \A f \in Files \ {h} : file'[f] = file[f]
  BY <1>1, <1>2, <1>4, <1>5, Typed
<1>7. TypeOK' /\ Shape'
  BY <1>1, <1>2, <1>3, <1>4, <1>6 DEF TypeOK, Shape, Working, Marks
<1>8. Course' /\ Left' /\ Restoring'
  BY <1>1, <1>2, <1>3, <1>4 DEF Course, Left, Restoring, Working, Undoing
<1>9. Copies'
  BY <1>1, <1>2, <1>3 DEF Copies, BackedUp, IndInv, Covered, Complete, Saved, Working
<1>10. Keys'
  BY <1>1, <1>2, <1>3, <1>4, <1>6 DEF Keys
<1>11. Counts'
  BY <1>1, <1>2, <1>3, <1>4, <1>6 DEF Counts, Covered
<1> QED BY <1>7, <1>8, <1>9, <1>10, <1>11 DEF IndInv

LEMMA CommitInv ==
  ASSUME IndInv, Commit
  PROVE  IndInv'
<1>1. /\ at = "commit" /\ wal' = Wrapped("next", text["auth"].ver) /\ locked' = FALSE
      /\ at' = "finish" /\ todo' = <<>> /\ replaced' = replaced
      /\ db' = db /\ file' = file /\ manifest' = manifest /\ had' = had
      /\ backup' = backup /\ text' = text /\ undoing' = undoing
      /\ edits' = edits /\ unseen' = unseen /\ api' = api
  BY DEF Commit, At, copies, world, Phase
<1>2. /\ TypeOK /\ Shape /\ replaced = had
      /\ manifest.st = "prepared" /\ undoing = "no" /\ api = "stopped" /\ BackedUp
      /\ ~unseen => /\ \A f \in Files \ had : file[f] = Absent
                    /\ \A s \in Covered : text[s].ver = edits[s]
                    /\ \A f \in replaced : file[f] = Wrapped("next", edits[f])
                    /\ \A f \in Files \ replaced : file[f].key # "next"
  BY <1>1, Typed DEF IndInv, Course, Left, Copies, Keys, Counts, Working
<1>3. /\ wal' \in Contents /\ wal' # Absent /\ todo' \in Seq(Marks)
  BY <1>1, <1>2, Typed, ContentsFacts, OneAndNone, StoresFacts
<1>4. TypeOK' /\ Shape'
  BY <1>1, <1>2, <1>3 DEF TypeOK, Shape, Working, Marks
<1>5. Course' /\ Left' /\ Restoring'
  BY <1>1, <1>2 DEF Course, Left, Restoring, Working, Undoing
<1>6. Copies'
  BY <1>1, <1>2 DEF Copies, BackedUp, IndInv, Covered, Complete, Saved, Working
<1>7. Keys'
  BY <1>1, <1>2 DEF Keys
<1>8. Counts'
  <2>1. Content("auth")' = Wrapped("next", text["auth"].ver)
    BY <1>1, <1>3 DEF Content
  <2>2. ~unseen => Content("auth")' = Wrapped("next", edits["auth"])
    BY <1>2, <2>1 DEF Covered
  <2> QED BY <1>1, <1>2, <2>2 DEF Counts, Covered
<1> QED BY <1>4, <1>5, <1>6, <1>7, <1>8 DEF IndInv

LEMMA FinishInv ==
  ASSUME IndInv, Finish
  PROVE  IndInv'
<1>1. /\ at = "finish" /\ manifest' = [st |-> "applied", had |-> had, hash |-> backup]
      /\ at' = "close" /\ todo' = <<>> /\ replaced' = replaced /\ wal' = wal /\ locked' = locked
      /\ db' = db /\ file' = file /\ had' = had
      /\ backup' = backup /\ text' = text /\ undoing' = undoing
      /\ edits' = edits /\ unseen' = unseen /\ api' = api
  BY DEF Finish, At, stores, world, Phase, Record
<1>2. /\ TypeOK /\ Shape /\ replaced = had
      /\ undoing = "no" /\ api = "stopped" /\ BackedUp /\ \A s \in Stores : backup[s] # Damaged
      /\ ~unseen => /\ \A f \in Files \ had : file[f] = Absent
                    /\ \A f \in had : file[f] = Wrapped("next", edits[f])
                    /\ Content("auth") = Wrapped("next", edits["auth"])
  BY <1>1, Typed DEF IndInv, Course, Left, Copies, Keys, Counts, Working
<1>3. /\ backup \in [Stores -> Contents] /\ had \in SUBSET Files /\ todo' \in Seq(Marks)
      /\ manifest'.st = "applied" /\ manifest'.had = had /\ manifest'.hash = backup
  BY <1>1, <1>2, Typed, OneAndNone
<1>4. TypeOK' /\ Shape'
  BY <1>1, <1>2, <1>3 DEF TypeOK, Shape, Working, Marks, Statuses
<1>5. Course' /\ Left' /\ Restoring'
  BY <1>1, <1>2, <1>3 DEF Course, Left, Restoring, Working, Undoing
<1>6. Copies'
  <2>1. Saved' = Covered /\ Covered \subseteq Stores
    BY <1>2, <1>3, Typed DEF Saved, Covered
  <2>2. Complete'
    BY <1>1, <1>2, <1>3, <2>1 DEF Complete, BackedUp
  <2>3. \A s \in Stores : backup[s].key # "next"
    BY DEF IndInv, Copies
  <2> QED BY <1>1, <1>2, <1>3, <2>2, <2>3 DEF Copies
<1>7. ~unseen => UsesKey("next")
  <2> SUFFICES ASSUME ~unseen, NEW s \in Stores PROVE Content(s).key \in {"next", "none"}
    BY DEF UsesKey
  <2>1. CASE s = "auth"
    BY <1>2, <2>1, ContentsFacts
  <2>2. CASE s \in had
    BY <1>2, <2>2, ContentsFacts, Typed
  <2>3. CASE s \in Files \ had
    BY <1>2, <2>3, ContentsFacts, Typed
  <2> QED BY <2>1, <2>2, <2>3 DEF Stores
<1>8. Keys'
  BY <1>1, <1>3, <1>7, SameStores DEF Keys
<1>9. Counts'
  BY <1>1, <1>2, <1>3, SameStores DEF Counts
<1> QED BY <1>4, <1>5, <1>6, <1>8, <1>9 DEF IndInv

LEMMA UndoInv ==
  ASSUME IndInv, Undo
  PROVE  IndInv'
<1>1. /\ at = "undo" /\ Proceed("report", <<>>)
      /\ \/ file' = [file EXCEPT ![Head(todo)] = backup[Head(todo)]] /\ replaced' = replaced \ {Head(todo)}
         \/ file' = file /\ replaced' = replaced
      /\ db' = db /\ wal' = wal /\ manifest' = manifest /\ had' = had
      /\ backup' = backup /\ text' = text /\ locked' = locked /\ undoing' = undoing
      /\ edits' = edits /\ unseen' = unseen /\ api' = api
  BY DEF Undo, At, copies, world
<1>2. /\ TypeOK /\ Shape /\ todo # <<>> /\ Range(todo) \subseteq had
      /\ manifest.st = "prepared" /\ undoing = "no" /\ api = "stopped" /\ BackedUp /\ replaced \subseteq had
      /\ \A s \in Stores : backup[s] # Damaged
      /\ ~unseen => \A f \in Files \ replaced : file[f].key # "next"
  BY <1>1, Typed DEF IndInv, Course, Left, Copies, Keys, Counts, Working
<1>3. /\ Head(todo) \in Range(todo)
      /\ \/ at' = "undo" /\ todo' \in Seq(Marks) /\ todo' # <<>> /\ Range(todo) = {Head(todo)} \cup Range(todo')
         \/ at' = "report" /\ todo' \in Seq(Marks)
  <2>1. /\ Head(todo) \in Range(todo)
        /\ \/ at' = at /\ todo' \in Seq(Marks) /\ todo' # <<>> /\ Range(todo) = {Head(todo)} \cup Range(todo')
           \/ Range(todo) = {Head(todo)} /\ at' = "report" /\ todo' = <<>>
    BY <1>1, <1>2, ProceedFacts
  <2> QED BY <1>1, <2>1, OneAndNone
<1>4. PICK h \in had : h = Head(todo)
  BY <1>2, <1>3
<1>5. h \in Files /\ h \in Stores /\ backup[h] \in Contents /\ backup[h].key = "current"
  BY <1>2, Typed DEF Stores, BackedUp, Covered
<1>6. /\ file' \in [Files -> Contents] /\ replaced' \subseteq had
      /\ ~unseen => \A f \in Files \ replaced' : file'[f].key # "next"
  BY <1>1, <1>2, <1>4, <1>5, Typed
<1>7. TypeOK' /\ Shape'
  BY <1>1, <1>2, <1>3, <1>6 DEF TypeOK, Shape, Working, Marks
<1>8. Course' /\ Left' /\ Restoring'
  BY <1>1, <1>2, <1>3 DEF Course, Left, Restoring, Working, Undoing
<1>9. Copies'
  BY <1>1, <1>2, <1>3 DEF Copies, BackedUp, IndInv, Covered, Complete, Saved, Working
<1>10. Keys'
  BY <1>1, <1>2, <1>3, <1>6 DEF Keys
<1>11. Counts'
  BY <1>1, <1>2, <1>3 DEF Counts
<1> QED BY <1>7, <1>8, <1>9, <1>10, <1>11 DEF IndInv

LEMMA ReportInv ==
  ASSUME IndInv, Report
  PROVE  IndInv'
<1>1. /\ at = "report" /\ at' = "close" /\ todo' = <<>>
      /\ \/ manifest' = [st |-> IF replaced # {} THEN "rollback_required" ELSE "failed",
                         had |-> had, hash |-> backup]
         \/ manifest' = manifest
      /\ replaced' = replaced /\ wal' = wal /\ locked' = locked
      /\ db' = db /\ file' = file /\ had' = had
      /\ backup' = backup /\ text' = text /\ undoing' = undoing
      /\ edits' = edits /\ unseen' = unseen /\ api' = api
  BY DEF Report, At, stores, world, Phase, Record
<1>2. /\ TypeOK /\ Shape /\ manifest.st \in {"none", "prepared"}
      /\ undoing = "no" /\ api = "stopped" /\ (BackedUp \/ manifest.st = "none")
      /\ \A s \in Stores : backup[s] # Damaged
      /\ manifest.st = "none" => OldKeys /\ replaced = {}
      /\ ~unseen => \A f \in Files \ replaced : file[f].key # "next"
  BY <1>1, Typed DEF IndInv, Course, Left, Copies, Keys, Counts, Working
<1>3. /\ backup \in [Stores -> Contents] /\ had \in SUBSET Files /\ todo' \in Seq(Marks)
  BY <1>1, <1>2, Typed, OneAndNone
<1>4. CASE manifest' = manifest
  <2>1. TypeOK' /\ Shape'
    BY <1>1, <1>2, <1>3, <1>4 DEF TypeOK, Shape, Working, Marks, Statuses
  <2>2. Course' /\ Left' /\ Restoring'
    BY <1>1, <1>2, <1>4 DEF Course, Left, Restoring, Working, Undoing
  <2>3. Copies'
    BY <1>1, <1>2, <1>4 DEF Copies, IndInv, Complete, Saved
  <2>4. Keys' /\ Counts'
    BY <1>1, <1>2, <1>4, SameStores DEF Keys, Counts, IndInv
  <2> QED BY <2>1, <2>2, <2>3, <2>4 DEF IndInv
<1>5. CASE manifest' = [st |-> IF replaced # {} THEN "rollback_required" ELSE "failed",
                        had |-> had, hash |-> backup]
  <2>1. /\ manifest'.st = IF replaced # {} THEN "rollback_required" ELSE "failed"
        /\ manifest'.had = had /\ manifest'.hash = backup
    BY <1>5
  <2>2. TypeOK' /\ Shape'
    BY <1>1, <1>2, <1>3, <1>5, <2>1 DEF TypeOK, Shape, Working, Marks, Statuses
  <2>3. Course' /\ Left' /\ Restoring'
    BY <1>1, <1>2, <2>1 DEF Course, Left, Restoring, Working, Undoing
  <2>4. Copies'
    <3>1. Saved' = Covered /\ Covered \subseteq Stores
      BY <1>2, <2>1, Typed DEF Saved, Covered
    <3>2. BackedUp => Complete'
      BY <1>1, <1>2, <2>1, <3>1 DEF Complete, BackedUp
    <3>3. manifest.st = "none" => OldKeys' /\ manifest'.st = "failed"
      BY <1>1, <1>2, <2>1, SameStores
    <3>4. \A s \in Stores : backup[s].key # "next"
      BY DEF IndInv, Copies
    <3> QED BY <1>1, <1>2, <2>1, <3>2, <3>3, <3>4 DEF Copies
  <2>5. Keys' /\ Counts'
    BY <1>1, <1>2, <2>1, SameStores DEF Keys, Counts
  <2> QED BY <2>2, <2>3, <2>4, <2>5 DEF IndInv
<1> QED BY <1>1, <1>4, <1>5

LEMMA CloseInv ==
  ASSUME IndInv, Close
  PROVE  IndInv'
<1>1. /\ at = "close" /\ at' = "idle" /\ todo' = <<>>
      /\ \/ db' = Content("auth") /\ wal' = Absent
         \/ db' = db /\ wal' = wal
      /\ file' = file /\ manifest' = manifest /\ had' = had /\ replaced' = replaced
      /\ backup' = backup /\ text' = text /\ locked' = locked /\ undoing' = undoing
      /\ edits' = edits /\ unseen' = unseen /\ api' = api
  BY DEF Close, At, copies, world, Phase
<1>2. /\ TypeOK /\ Shape /\ undoing = "no" /\ api = "stopped" /\ Content("auth") \in Contents \ {Absent}
  BY <1>1, Typed, StoresFacts DEF IndInv, Course, Working
<1>3. \A s : Content(s)' = Content(s)
  BY <1>1 DEF Content
<1>4. todo' \in Seq(Marks)
  BY <1>1, OneAndNone
<1>5. TypeOK' /\ Shape'
  BY <1>1, <1>2, <1>4, ContentsFacts DEF TypeOK, Shape, Working, Marks
<1>6. /\ UsesKey("current")' = UsesKey("current") /\ UsesKey("next")' = UsesKey("next")
      /\ OldKeys => OldKeys'
  <2>1. OldKeys => Content("auth").key = "current"
    BY <1>2, ContentsFacts, StoresFacts DEF OldKeys, UsesKey
  <2> QED BY <1>1, <1>3, <2>1 DEF UsesKey, OldKeys
<1>7. Course' /\ Left' /\ Restoring'
  BY <1>1, <1>2 DEF Course, Left, Restoring, Working, Undoing, IndInv
<1>8. Copies'
  BY <1>1, <1>2, <1>6 DEF Copies, IndInv, Complete, Saved, Working
<1>9. Keys' /\ Counts'
  BY <1>1, <1>2, <1>3, <1>6 DEF Keys, Counts, IndInv
<1> QED BY <1>5, <1>7, <1>8, <1>9 DEF IndInv

-----------------------------------------------------------------------------
(* The steps of the rollback.                                              *)

LEMMA RollBackInv ==
  ASSUME IndInv, RollBack
  PROVE  IndInv'
<1>1. /\ at = "idle" /\ manifest.st \notin {"none", "rolled_back"} /\ at' = "verify" /\ todo' = <<>>
      /\ api' = "stopped" /\ undoing' = IF undoing = "no" THEN "asked" ELSE undoing
      /\ file' = file /\ db' = db /\ wal' = wal /\ manifest' = manifest /\ had' = had
      /\ backup' = backup /\ text' = text /\ locked' = locked /\ replaced' = replaced
      /\ edits' = edits /\ unseen' = unseen
  BY DEF RollBack, AskRollback, Phase, stores, copies
<1>2. TypeOK /\ Shape /\ undoing \in {"no", "asked", "begun"} /\ todo' \in Seq(Marks)
  BY <1>1, OneAndNone DEF IndInv, TypeOK
<1>3. TypeOK' /\ Shape'
  BY <1>1, <1>2 DEF TypeOK, Shape, Undoing, Marks
<1>4. Course' /\ Left' /\ Restoring'
  BY <1>1, <1>2 DEF Course, Left, Restoring, Working, Undoing, IndInv
<1>5. Copies'
  BY <1>1, SameStores DEF Copies, IndInv, Complete, Saved, Working
<1>6. Keys' /\ Counts'
  BY <1>1, SameStores DEF Keys, Counts, IndInv
<1> QED BY <1>3, <1>4, <1>5, <1>6 DEF IndInv

LEMMA VerifyInv ==
  ASSUME IndInv, Verify
  PROVE  IndInv'
<1>1. /\ at = "verify"
      /\ \/ Genuine /\ at' = "restore" /\ todo' = FileOrder \o <<"wal", "auth">> /\ undoing' = "begun"
         \/ at' = "idle" /\ todo' = <<>> /\ undoing' = IF undoing = "asked" THEN "no" ELSE undoing
      /\ file' = file /\ db' = db /\ wal' = wal /\ manifest' = manifest /\ had' = had
      /\ backup' = backup /\ text' = text /\ locked' = locked /\ replaced' = replaced
      /\ edits' = edits /\ unseen' = unseen /\ api' = api
  BY DEF Verify, At, StartRestoring, Phase, stores, copies
<1>2. /\ TypeOK /\ Shape /\ undoing \in {"asked", "begun"} /\ api = "stopped"
      /\ manifest.st \notin {"none", "rolled_back"}
  BY <1>1 DEF IndInv, TypeOK, Course, Undoing
<1>3. todo' \in Seq(Marks) /\ (at' = "restore" => todo' # <<>> /\ Range(todo') = Marks)
  BY <1>1, <1>2, Lists, OneAndNone
<1>4. TypeOK' /\ Shape'
  BY <1>1, <1>2, <1>3 DEF TypeOK, Shape, Undoing, Marks
<1>5. Course' /\ Left'
  BY <1>1, <1>2, <1>3 DEF Course, Left, Working, Undoing, IndInv, Genuine
<1>6. Restoring'
  BY <1>1, <1>3, StoresFacts DEF Restoring, Done, Marks, Stores
<1>7. Copies'
  BY <1>1, SameStores DEF Copies, IndInv, Complete, Saved, Working
<1>8. Keys' /\ Counts'
  BY <1>1, <1>2, SameStores DEF Keys, Counts, IndInv
<1> QED BY <1>4, <1>5, <1>6, <1>7, <1>8 DEF IndInv

\* A backup that passed the comparison is what was there before the rotation.
LEMMA GenuineFacts ==
  ASSUME IndInv, Genuine
  PROVE  /\ \A f \in Files : /\ Original(f) \in Contents /\ Original(f).key \in {"none", "current"}
                             /\ Original(f) = IF f \in manifest.had THEN backup[f] ELSE Absent
         /\ backup["auth"] = manifest.hash["auth"] /\ backup["auth"] \in Contents \ {Absent}
         /\ backup["auth"].key = "current"
<1>1. /\ manifest.hash \in [Stores -> Contents] /\ \A s \in Stores : manifest.hash[s].key # "next"
      /\ Files \subseteq Stores /\ "auth" \in Stores
  BY Typed DEF IndInv, Copies, Stores
<1>2. \A s \in manifest.had \cup {"auth"} : backup[s] = manifest.hash[s] /\ backup[s] # Absent
  BY DEF Genuine
<1> QED BY <1>1, <1>2, ContentsFacts DEF Original

LEMMA RestoreInv ==
  ASSUME IndInv, Restore
  PROVE  IndInv'
<1>1. /\ at = "restore" /\ Proceed("restored", <<>>)
      /\ manifest' = manifest /\ had' = had /\ replaced' = replaced
      /\ backup' = backup /\ text' = text /\ locked' = locked /\ undoing' = undoing
      /\ edits' = edits /\ unseen' = unseen /\ api' = api
  BY DEF Restore, At, copies, world
<1>2. /\ TypeOK /\ Shape /\ todo # <<>> /\ undoing = "begun" /\ api = "stopped" /\ Genuine
      /\ manifest.st \notin {"none", "rolled_back"}
  BY <1>1 DEF IndInv, Course, Left, Undoing
<1>3. /\ Head(todo) \in Range(todo) /\ Range(todo) \subseteq Marks
      /\ \/ at' = "restore" /\ todo' \in Seq(Marks) /\ todo' # <<>> /\ Range(todo) = {Head(todo)} \cup Range(todo')
         \/ Range(todo) = {Head(todo)} /\ at' = "restored" /\ todo' \in Seq(Marks)
  <2>1. /\ Head(todo) \in Range(todo) /\ Range(todo) \subseteq Marks
        /\ \/ at' = at /\ todo' \in Seq(Marks) /\ todo' # <<>> /\ Range(todo) = {Head(todo)} \cup Range(todo')
           \/ Range(todo) = {Head(todo)} /\ at' = "restored" /\ todo' = <<>>
    BY <1>1, <1>2, ProceedFacts
  <2> QED BY <1>1, <2>1, OneAndNone
<1>4. PICK h \in Marks : h = Head(todo)
  BY <1>3
<1>5. \/ h \in Files /\ file' = [file EXCEPT ![h] = Original(h)] /\ db' = db /\ wal' = wal
      \/ h = "wal" /\ wal' = Absent /\ file' = file /\ db' = db
      \/ h = "auth" /\ db' = backup["auth"] /\ file' = file /\ wal' = wal
  <2>1. CASE h \in Files
    <3>1. RestoreFile(h)
      BY <1>4, <2>1, StoresFacts DEF Restore
    <3>2. Original(h) = IF h \in manifest.had THEN backup[h] ELSE Absent
      BY <1>2, <2>1, GenuineFacts
    <3> QED BY <2>1, <3>1, <3>2 DEF RestoreFile
  <2>2. CASE h = "wal"
    BY <1>4, <2>2, StoresFacts DEF Restore
  <2>3. CASE h = "auth"
    BY <1>4, <2>3, StoresFacts DEF Restore
  <2> QED BY <1>4, <2>1, <2>2, <2>3 DEF Marks, Stores
<1>6. /\ \A f \in Files : Original(f) \in Contents /\ Original(f).key \in {"none", "current"}
      /\ backup["auth"] = manifest.hash["auth"] /\ backup["auth"] \in Contents \ {Absent}
      /\ backup["auth"].key = "current"
  BY <1>2, GenuineFacts
<1>7. /\ file' \in [Files -> Contents] /\ db' \in Contents \ {Absent} /\ wal' \in Contents
      /\ \A f \in Files : file'[f] = file[f] \/ (f = h /\ file'[f] = Original(f))
      /\ h \in Files => file'[h] = Original(h)
  BY <1>2, <1>5, <1>6, Typed, ContentsFacts, StoresFacts
<1>8. TypeOK' /\ Shape'
  BY <1>1, <1>2, <1>3, <1>7 DEF TypeOK, Shape, Undoing, Marks
<1>9. Course' /\ Left'
  BY <1>1, <1>2, <1>3 DEF Course, Left, Working, Undoing, IndInv, Genuine
<1>10. Restoring'
  <2>1. /\ \A f \in Files \cap Done : file[f] = Original(f)
        /\ "wal" \in Done => wal = Absent
        /\ "auth" \in Done => db = manifest.hash["auth"]
    BY <1>1 DEF IndInv, Restoring
  <2>2. Done' \subseteq Done \cup {h}
    BY <1>1, <1>3, <1>4 DEF Done
  <2>3. \A f \in Files : Original(f)' = Original(f)
    BY <1>1 DEF Original
  <2>4. \A f \in Files \cap Done' : file'[f] = Original(f)
    BY <1>7, <2>1, <2>2
  <2>5. ("wal" \in Done' => wal' = Absent) /\ ("auth" \in Done' => db' = manifest'.hash["auth"])
    BY <1>1, <1>5, <1>6, <2>1, <2>2, StoresFacts
  <2> QED BY <2>3, <2>4, <2>5 DEF Restoring
<1>11. OldKeys => OldKeys'
  <2>1. OldKeys => db'.key = "current"
    BY <1>5, <1>6 DEF OldKeys
  <2> SUFFICES ASSUME OldKeys, NEW s \in Stores PROVE Content(s)'.key \in {"current", "none"}
    BY <2>1 DEF OldKeys, UsesKey
  <2>2. CASE s \in Files
    <3>1. file[s].key \in {"current", "none"}
      BY <1>2, <2>2, Typed DEF OldKeys, UsesKey, Stores
    <3>2. Content(s)' = file'[s]
      BY <2>2, StoresFacts DEF Content
    <3> QED BY <1>6, <1>7, <2>1, <2>2, <3>1, <3>2
  <2>3. CASE s = "auth"
    <3>1. wal = Absent \/ wal.key \in {"current", "none"}
      BY <2>3 DEF OldKeys, UsesKey, Content
    <3>2. wal' = Absent \/ wal' = wal
      BY <1>5
    <3>3. Content(s)' = IF wal' = Absent THEN db' ELSE wal'
      BY <2>3 DEF Content
    <3> QED BY <2>1, <3>1, <3>2, <3>3
  <2> QED BY <2>1, <2>2, <2>3 DEF Stores
<1>12. Copies'
  BY <1>1, <1>2, <1>3, <1>11 DEF Copies, IndInv, Complete, Saved, Working
<1>13. Keys' /\ Counts'
  BY <1>1, <1>2, <1>3 DEF Keys, Counts
<1> QED BY <1>8, <1>9, <1>10, <1>12, <1>13 DEF IndInv

LEMMA RestoreFailsInv ==
  ASSUME IndInv, RestoreFails
  PROVE  IndInv'
<1>1. /\ at \in {"restore", "restored"} /\ at' = "idle" /\ todo' = <<>>
      /\ file' = file /\ db' = db /\ wal' = wal /\ manifest' = manifest /\ had' = had
      /\ backup' = backup /\ text' = text /\ locked' = locked /\ replaced' = replaced
      /\ edits' = edits /\ unseen' = unseen /\ api' = api /\ undoing' = undoing
  BY DEF RestoreFails, Phase, stores, copies, world
<1>2. TypeOK /\ Shape /\ undoing = "begun" /\ todo' \in Seq(Marks) /\ api = "stopped"
      /\ manifest.st \notin {"none", "rolled_back"}
  BY <1>1, OneAndNone DEF IndInv, Course, Undoing
<1>3. TypeOK' /\ Shape'
  BY <1>1, <1>2 DEF TypeOK, Shape, Marks
<1>4. Course' /\ Left' /\ Restoring'
  BY <1>1, <1>2 DEF Course, Left, Restoring, Working, Undoing
<1>5. Copies'
  BY <1>1, SameStores DEF Copies, IndInv, Complete, Saved, Working
<1>6. Keys' /\ Counts'
  BY <1>1, <1>2, SameStores DEF Keys, Counts
<1> QED BY <1>3, <1>4, <1>5, <1>6 DEF IndInv

LEMMA RestoredInv ==
  ASSUME IndInv, Restored
  PROVE  /\ IndInv'
         /\ \A f \in Files : file'[f] = Original(f)
         /\ Content("auth")' = manifest.hash["auth"]
<1>1. /\ at = "restored" /\ at' = "idle" /\ todo' = <<>> /\ undoing' = "no"
      /\ manifest' = [manifest EXCEPT !.st = "rolled_back"]
      /\ file' = file /\ db' = db /\ wal' = wal /\ had' = had
      /\ backup' = backup /\ text' = text /\ locked' = locked /\ replaced' = replaced
      /\ edits' = edits /\ unseen' = unseen /\ api' = api
  BY DEF Restored, At, Phase, stores
<1>2. TypeOK /\ Shape /\ todo' \in Seq(Marks) /\ api = "stopped" /\ manifest.st # "none" /\ Genuine
  BY <1>1, OneAndNone DEF IndInv, Course, Undoing
<1>3. /\ manifest'.st = "rolled_back" /\ manifest'.had = manifest.had /\ manifest'.hash = manifest.hash
      /\ manifest' \in [st : Statuses, had : SUBSET Files, hash : [Stores -> Contents]]
  BY <1>1, <1>2 DEF Shape, Statuses
<1>4. /\ \A f \in Files : file[f] = Original(f)
      /\ wal = Absent /\ db = manifest.hash["auth"] /\ Content("auth") = manifest.hash["auth"]
  BY <1>1, StoresFacts DEF IndInv, Restoring, Done, Marks, Stores, Content
<1>5. \A s : Content(s)' = Content(s)
  BY <1>1, SameStores
<1>6. UsesKey("current")
  <2> SUFFICES ASSUME NEW s \in Stores PROVE Content(s).key \in {"current", "none"}
    BY DEF UsesKey
  <2>1. CASE s \in Files
    BY <1>2, <1>4, <2>1, Typed, GenuineFacts
  <2>2. CASE s = "auth"
    BY <1>2, <1>4, <2>2, GenuineFacts
  <2> QED BY <2>1, <2>2 DEF Stores
<1>7. TypeOK' /\ Shape'
  BY <1>1, <1>2, <1>3 DEF TypeOK, Shape, Marks, Statuses
<1>8. Course' /\ Left' /\ Restoring'
  BY <1>1, <1>2, <1>3 DEF Course, Left, Restoring, Working, Undoing
<1>9. Copies'
  BY <1>1, <1>2, <1>3, SameStores DEF Copies, IndInv, Complete, Saved, Working
<1>10. Keys' /\ Counts'
  BY <1>1, <1>3, <1>6, SameStores DEF Keys, Counts
<1>11. IndInv'
  BY <1>7, <1>8, <1>9, <1>10 DEF IndInv
<1> QED BY <1>1, <1>4, <1>5, <1>11

-----------------------------------------------------------------------------
(* The operator, the API and what may go wrong.                            *)

LEMMA StartApiInv ==
  ASSUME IndInv, StartApi
  PROVE  IndInv'
<1>1. /\ at = "idle" /\ undoing = "no" /\ CalledFor # "neither" /\ api' = CalledFor
      /\ at' = at /\ todo' = todo
      /\ file' = file /\ db' = db /\ wal' = wal /\ manifest' = manifest /\ had' = had
      /\ backup' = backup /\ text' = text /\ locked' = locked /\ replaced' = replaced
      /\ edits' = edits /\ unseen' = unseen /\ undoing' = undoing
  BY DEF StartApi, stores, copies, command
<1>2. TypeOK /\ Shape /\ CalledFor \in {"next", "current"} /\ CalledFor' = CalledFor
  BY <1>1 DEF IndInv, CalledFor
<1>3. TypeOK' /\ Shape'
  BY <1>1, <1>2 DEF TypeOK, Shape, Marks
<1>4. Course' /\ Left' /\ Restoring'
  BY <1>1, <1>2 DEF Course, Left, Restoring, Working, Undoing, IndInv
<1>5. Copies'
  BY <1>1, SameStores DEF Copies, IndInv, Complete, Saved, Working
<1>6. Keys' /\ Counts'
  BY <1>1, SameStores DEF Keys, Counts, IndInv
<1> QED BY <1>3, <1>4, <1>5, <1>6 DEF IndInv

\* A change reaches one store and its count, and leaves the database file alone.
LEMMA ChangeFacts ==
  ASSUME TypeOK, NEW s \in Stores, NEW k \in {"current", "next"}, Change(s, k)
  PROVE  /\ file' \in [Files -> Contents] /\ db' = db /\ wal' \in Contents
         /\ edits' \in [Stores -> Nat] /\ edits'[s] = edits[s] + 1
         /\ \A r \in Stores \ {s} : edits'[r] = edits[r] /\ Content(r)' = Content(r)
         /\ Content(s)' = Wrapped(k, Content(s).ver + 1)
         /\ \A f \in Files : Content(f)' = file'[f] /\ Content(f) = file[f]
<1>1. /\ Content(s) \in Contents /\ Content(s).ver + 1 \in Nat /\ Content(s).ver + 1 > 0
      /\ Wrapped(k, Content(s).ver + 1) \in Contents /\ Wrapped(k, Content(s).ver + 1) # Absent
      /\ edits \in [Stores -> Nat] /\ edits[s] + 1 \in Nat
  <2>1. Content(s) \in Contents /\ edits \in [Stores -> Nat]
    BY Typed
  <2>2. Content(s).ver + 1 \in Nat /\ edits[s] + 1 \in Nat /\ Content(s).ver + 1 > 0
    BY <2>1, ContentsFacts
  <2> QED BY <2>1, <2>2, ContentsFacts
<1>2. edits' = [edits EXCEPT ![s] = @ + 1]
  BY DEF Change
<1>3. edits' \in [Stores -> Nat] /\ edits'[s] = edits[s] + 1 /\ \A r \in Stores \ {s} : edits'[r] = edits[r]
  BY <1>1, <1>2
<1>4. \A f \in Files : Content(f)' = file'[f] /\ Content(f) = file[f]
  BY StoresFacts DEF Content
<1>5. CASE s = "auth"
  <2>1. wal' = Wrapped(k, Content(s).ver + 1) /\ file' = file /\ db' = db
    BY <1>5 DEF Change
  <2>2. Content(s)' = wal'
    BY <1>1, <1>5, <2>1 DEF Content
  <2>3. \A r \in Stores \ {s} : Content(r)' = Content(r)
    BY <1>5, <2>1 DEF Content
  <2> QED BY <1>1, <1>3, <1>4, <2>1, <2>2, <2>3, Typed
<1>6. CASE s # "auth"
  <2>1. /\ file' = [file EXCEPT ![s] = Wrapped(k, @.ver + 1)] /\ db' = db /\ wal' = wal
        /\ s \in Files /\ Content(s) = file[s]
    BY <1>6 DEF Change, Stores, Content
  <2>2. file' = [file EXCEPT ![s] = Wrapped(k, Content(s).ver + 1)]
    BY <2>1
  <2>3. /\ file' \in [Files -> Contents] /\ file'[s] = Wrapped(k, Content(s).ver + 1)
        /\ \A f \in Files \ {s} : file'[f] = file[f]
    BY <1>1, <2>1, <2>2, Typed
  <2>4. Content("auth")' = Content("auth")
    BY <2>1 DEF Content
  <2> QED BY <1>3, <1>4, <2>1, <2>3, <2>4, Typed DEF Stores
<1> QED BY <1>5, <1>6

LEMMA ChangedKeys ==
  ASSUME TypeOK, NEW s \in Stores, NEW k \in {"current", "next"}, Change(s, k)
  PROVE  /\ UsesKey(k) => UsesKey(k)'
         /\ OldKeys /\ k = "current" => OldKeys'
<1>1. /\ db' = db /\ Content(s)'.key = k /\ \A r \in Stores \ {s} : Content(r)' = Content(r)
  BY ChangeFacts, ContentsFacts
<1> QED BY <1>1 DEF UsesKey, OldKeys

LEMMA ChangedCounts ==
  ASSUME TypeOK, NEW s \in Stores, NEW k \in {"current", "next"}, Change(s, k),
         \A r \in Stores : Content(r).ver = edits[r]
  PROVE  \A r \in Stores : Content(r)'.ver = edits'[r]
<1>1. /\ edits'[s] = edits[s] + 1 /\ Content(s)'.ver = Content(s).ver + 1
      /\ \A r \in Stores \ {s} : edits'[r] = edits[r] /\ Content(r)' = Content(r)
  BY ChangeFacts, ContentsFacts
<1> QED BY <1>1

LEMMA EditInv ==
  ASSUME IndInv, NEW s \in Stores, Edit(s)
  PROVE  IndInv'
<1>1. /\ at = "idle" /\ api # "stopped" /\ Change(s, api)
      /\ at' = at /\ todo' = todo /\ manifest' = manifest /\ had' = had
      /\ backup' = backup /\ text' = text /\ locked' = locked /\ replaced' = replaced
      /\ unseen' = unseen /\ undoing' = undoing /\ api' = api
  BY DEF Edit, copies, command
<1>2. /\ TypeOK /\ Shape /\ undoing = "no" /\ api = CalledFor /\ api \in {"current", "next"}
  BY <1>1 DEF IndInv, Course, TypeOK
<1>3. /\ file' \in [Files -> Contents] /\ db' = db /\ wal' \in Contents /\ edits' \in [Stores -> Nat]
      /\ Content(s)'.key = api /\ \A r \in Stores \ {s} : Content(r)' = Content(r)
      /\ \A f \in Files : Content(f)' = file'[f] /\ Content(f) = file[f]
  BY <1>1, <1>2, ChangeFacts, ContentsFacts
<1>4. TypeOK' /\ Shape'
  BY <1>1, <1>2, <1>3 DEF TypeOK, Shape, Marks
<1>5. Course' /\ Left' /\ Restoring'
  BY <1>1, <1>2 DEF Course, Left, Restoring, Working, Undoing, IndInv, CalledFor
<1>6. /\ manifest.st \in {"none", "failed", "rolled_back"} => api = "current"
      /\ manifest.st = "applied" => api = "next"
  BY <1>2 DEF CalledFor
<1>7. /\ api = "current" /\ OldKeys => OldKeys'
      /\ \A k \in {"current", "next"} : api = k /\ UsesKey(k) => UsesKey(k)'
  BY <1>1, <1>2, ChangedKeys
<1>8. Copies'
  BY <1>1, <1>6, <1>7 DEF Copies, IndInv, Complete, Saved, Working
<1>9. Keys'
  <2>1. /\ UsesKey("current") /\ api = "current" => UsesKey("current")'
        /\ UsesKey("next") /\ api = "next" => UsesKey("next")'
    BY <1>7
  <2>2. \A f \in Files : f \in Stores /\ (f # s => file'[f] = file[f]) /\ (f = s => file'[f].key = api)
    BY <1>3 DEF Stores
  <2> QED BY <1>1, <1>6, <1>7, <2>1, <2>2 DEF Keys, IndInv
<1>10. Counts'
  <2>1. (\A r \in Stores : Content(r).ver = edits[r]) => (\A r \in Stores : Content(r)'.ver = edits'[r])
    BY <1>1, <1>2, ChangedCounts
  <2> QED BY <1>1, <2>1 DEF Counts, IndInv
<1> QED BY <1>4, <1>5, <1>8, <1>9, <1>10 DEF IndInv

LEMMA StragglerInv ==
  ASSUME IndInv, NEW s \in Stores, Straggler(s)
  PROVE  IndInv'
<1>1. /\ at \in {"backup", "read", "prepare", "check", "replace", "commit"} /\ Change(s, "current")
      /\ unseen' = (unseen \/ s \notin had \cup {"auth"}
                      \/ (at = "check" /\ s \notin Range(todo)) \/ at \in {"replace", "commit"})
      /\ at' = at /\ todo' = todo /\ manifest' = manifest /\ had' = had
      /\ backup' = backup /\ text' = text /\ locked' = locked /\ replaced' = replaced
      /\ undoing' = undoing /\ api' = api
  BY DEF Straggler, copies, command
<1>2. /\ TypeOK /\ Shape /\ undoing = "no" /\ api = "stopped" /\ manifest.st \in {"none", "prepared"}
      /\ at \in {"backup", "read", "prepare"} => manifest.st = "none"
      /\ at \in {"check", "replace", "commit"} => manifest.st = "prepared"
      /\ unseen' \in BOOLEAN /\ (~unseen' => ~unseen)
  BY <1>1 DEF IndInv, Course, Working, TypeOK
<1>3. /\ file' \in [Files -> Contents] /\ db' = db /\ wal' \in Contents /\ edits' \in [Stores -> Nat]
      /\ Content(s)'.key = "current" /\ \A r \in Stores \ {s} : Content(r)' = Content(r)
      /\ \A f \in Files : Content(f)' = file'[f] /\ Content(f) = file[f]
      /\ OldKeys => OldKeys'
  BY <1>1, <1>2, ChangeFacts, ChangedKeys, ContentsFacts
<1>4. \A f \in Files : f \in Stores /\ (f # s => file'[f] = file[f]) /\ (f = s => file'[f].key = "current")
  BY <1>3 DEF Stores
<1>5. TypeOK' /\ Shape'
  BY <1>1, <1>2, <1>3 DEF TypeOK, Shape, Marks
<1>6. Course' /\ Left' /\ Restoring'
  BY <1>1, <1>2 DEF Course, Left, Restoring, Working, Undoing, IndInv, CalledFor, Covered
<1>7. Copies'
  <2>1. at = "backup" => \A f \in had : file'[f].key = "current"
    BY <1>2, <1>4, Typed DEF IndInv, Copies
  <2> QED BY <1>1, <1>2, <1>3, <2>1 DEF Copies, IndInv, Complete, Saved, Working, BackedUp, Covered
<1>8. Keys'
  BY <1>1, <1>2, <1>3, <1>4 DEF Keys, IndInv
<1>9. Counts'
  <2>1. (\A r \in Stores : Content(r).ver = edits[r]) => (\A r \in Stores : Content(r)'.ver = edits'[r])
    BY <1>1, <1>2, ChangedCounts
  <2>2. /\ ~unseen' => ~unseen /\ s \in Covered /\ at \notin {"replace", "commit"}
        /\ ~unseen' /\ at = "check" => s \in Range(todo)
    BY <1>1 DEF Covered
  <2>3. ~unseen' => \A f \in Files \ had : file'[f] = Absent
    <3> SUFFICES ASSUME ~unseen', NEW f \in Files \ had PROVE file'[f] = Absent
      OBVIOUS
    <3>1. f # s
      BY <2>2, StoresFacts DEF Covered
    <3>2. file[f] = Absent
      BY <1>1, <1>2 DEF IndInv, Counts
    <3> QED BY <1>4, <3>1, <3>2
  <2>4. at = "check" /\ ~unseen' => \A r \in Covered \ Range(todo) : Content(r)' = text[r]
    <3> SUFFICES ASSUME at = "check", ~unseen', NEW r \in Covered \ Range(todo) PROVE Content(r)' = text[r]
      OBVIOUS
    <3>1. r # s /\ r \in Stores
      BY <1>2, <2>2, Typed
    <3>2. Content(r) = text[r]
      BY <1>2 DEF IndInv, Counts
    <3> QED BY <1>3, <3>1, <3>2
  <2> QED BY <1>1, <1>2, <2>1, <2>2, <2>3, <2>4 DEF Counts, IndInv, Covered
<1> QED BY <1>5, <1>6, <1>7, <1>8, <1>9 DEF IndInv

LEMMA DamageInv ==
  ASSUME IndInv, NEW s \in Stores, Damage(s)
  PROVE  IndInv'
<1>1. /\ at = "idle" /\ backup' = [backup EXCEPT ![s] = Damaged]
      /\ at' = at /\ todo' = todo /\ manifest' = manifest /\ had' = had
      /\ file' = file /\ db' = db /\ wal' = wal /\ text' = text /\ locked' = locked
      /\ replaced' = replaced /\ undoing' = undoing /\ api' = api /\ edits' = edits /\ unseen' = unseen
  BY DEF Damage, stores, command, world
<1>2. TypeOK /\ Shape
  BY DEF IndInv
<1>3. /\ backup' \in [Stores -> Contents \cup {Damaged}] /\ backup'[s] = Damaged
      /\ \A r \in Stores \ {s} : backup'[r] = backup[r]
  BY <1>1, <1>2, Typed
<1>4. TypeOK' /\ Shape'
  BY <1>1, <1>2, <1>3 DEF TypeOK, Shape, Marks
<1>5. Course' /\ Left' /\ Restoring'
  BY <1>1, <1>2 DEF Course, Left, Restoring, Working, Undoing, IndInv, CalledFor
<1>6. Copies'
  <2>1. \A r \in Stores : backup'[r].key # "next"
    BY <1>3, ContentsFacts DEF IndInv, Copies
  <2>2. Complete => Complete'
    BY <1>1, <1>2, <1>3, Typed DEF Complete, Saved
  <2> QED BY <1>1, <2>1, <2>2, SameStores DEF Copies, IndInv, Working
<1>7. Keys' /\ Counts'
  BY <1>1, SameStores DEF Keys, Counts, IndInv
<1> QED BY <1>4, <1>5, <1>6, <1>7 DEF IndInv

LEMMA CrashInv ==
  ASSUME IndInv, Crash
  PROVE  IndInv'
<1>1. /\ at # "idle" /\ at' = "idle" /\ todo' = <<>> /\ locked' = FALSE /\ replaced' = {}
      /\ manifest' = manifest /\ had' = had /\ backup' = backup
      /\ file' = file /\ db' = db /\ wal' = wal /\ text' = text
      /\ undoing' = undoing /\ api' = api /\ edits' = edits /\ unseen' = unseen
  BY DEF Crash, stores, copies, world, Phase
<1>2. TypeOK /\ Shape /\ api = "stopped" /\ todo' \in Seq(Marks)
  BY <1>1, OneAndNone DEF IndInv, Course
<1>3. TypeOK' /\ Shape'
  BY <1>1, <1>2 DEF TypeOK, Shape, Marks
<1>4. Course' /\ Left' /\ Restoring'
  BY <1>1, <1>2 DEF Course, Left, Restoring, Working, Undoing, IndInv
<1>5. Copies'
  BY <1>1, SameStores DEF Copies, IndInv, Complete, Saved, Working
<1>6. Keys' /\ Counts'
  BY <1>1, SameStores DEF Keys, Counts, IndInv
<1> QED BY <1>3, <1>4, <1>5, <1>6 DEF IndInv

-----------------------------------------------------------------------------
(* The theorems.                                                           *)

LEMMA NextInv ==
  ASSUME IndInv, [Next]_vars
  PROVE  IndInv'
<1>1. CASE UNCHANGED vars
  <2>1. UNCHANGED <<file, db, wal, backup, manifest, at, todo, had, text, locked, replaced, api, undoing,
                    edits, unseen>>
    BY <1>1 DEF vars, stores, copies, command, world
  <2>2. TypeOK' /\ Shape' /\ Left'
    BY <2>1 DEF IndInv, TypeOK, Shape, Left, Covered
  <2>3. Course' /\ Restoring'
    BY <2>1 DEF IndInv, Course, CalledFor, Genuine, Restoring, Done, Original
  <2>4. Copies' /\ Keys' /\ Counts'
    BY <2>1, SameStores DEF IndInv, Copies, BackedUp, Complete, Saved, Covered, Keys, Counts
  <2> QED BY <2>2, <2>3, <2>4 DEF IndInv
<1>2. CASE Rotate \/ Fail \/ RollBack \/ RestoreFails \/ StartApi \/ Crash
  BY <1>2, RotateInv, FailInv, RollBackInv, RestoreFailsInv, StartApiInv, CrashInv
<1>3. CASE Rotation
  BY <1>3, BackupInv, ReadInv, PrepareInv, CheckInv, ReplaceInv, CommitInv, FinishInv, UndoInv,
     ReportInv, CloseInv DEF Rotation
<1>4. CASE Rollback
  BY <1>4, VerifyInv, RestoreInv, RestoredInv DEF Rollback
<1>5. CASE \E s \in Stores : Edit(s) \/ Straggler(s) \/ Damage(s)
  BY <1>5, EditInv, StragglerInv, DamageInv
<1> QED BY <1>1, <1>2, <1>3, <1>4, <1>5 DEF Next

LEMMA InitInv ==
  ASSUME Init
  PROVE  IndInv
<1>1. PICK S \in SUBSET Files :
        file = [f \in Files |-> IF f \in S THEN Wrapped("current", 0) ELSE Absent]
  BY DEF Init
<1>2. /\ db = Wrapped("current", 0) /\ wal = Absent /\ backup = NoHashes /\ manifest = NoManifest
      /\ at = "idle" /\ todo = <<>> /\ had = {} /\ text = NoHashes /\ locked = FALSE /\ replaced = {}
      /\ api = "current" /\ undoing = "no" /\ edits = [s \in Stores |-> 0] /\ unseen = FALSE
  BY DEF Init
<1>3. /\ file \in [Files -> Contents] /\ \A f \in Files : file[f].key \in {"current", "none"} /\ file[f].ver = 0
  BY <1>1, ContentsFacts
<1>4. /\ NoHashes \in [Stores -> Contents] /\ \A s \in Stores : NoHashes[s] = Absent
      /\ manifest.st = "none" /\ manifest.had = {} /\ manifest.hash = NoHashes
      /\ manifest \in [st : Statuses, had : SUBSET Files, hash : [Stores -> Contents]]
  BY <1>2, ContentsFacts DEF NoHashes, NoManifest, Statuses
<1>5. /\ db \in Contents \ {Absent} /\ wal \in Contents /\ db.key = "current" /\ db.ver = 0
  BY <1>2, ContentsFacts
<1>6. todo \in Seq(Marks)
  BY <1>2, OneAndNone
<1>7. TypeOK /\ Shape
  BY <1>2, <1>3, <1>4, <1>5, <1>6 DEF TypeOK, Shape, Marks, Statuses
<1>8. \A s \in Stores : Content(s).key \in {"current", "none"} /\ Content(s).ver = 0
  BY <1>2, <1>3, <1>5 DEF Content, Stores
<1>9. OldKeys
  BY <1>5, <1>8 DEF OldKeys, UsesKey
<1>10. Course /\ Left /\ Restoring
  BY <1>2, <1>4 DEF Course, Left, Restoring, Working, Undoing, CalledFor
<1>11. Copies
  BY <1>2, <1>4, ContentsFacts DEF Copies, Working
<1>12. Keys /\ Counts
  <2>1. \A s \in Stores : Content(s).ver = edits[s]
    BY <1>2, <1>8
  <2> QED BY <1>2, <1>4, <1>9, <2>1 DEF Keys, Counts
<1> QED BY <1>7, <1>10, <1>11, <1>12 DEF IndInv

\* The invariant holds in every state of the rotation and of its rollback.
THEOREM Invariant == Spec => []IndInv
<1>1. Init => IndInv
  BY InitInv
<1>2. IndInv /\ [Next]_vars => IndInv'
  BY NextInv
<1> QED BY <1>1, <1>2, PTL DEF Spec

\* Every variable of the rotation stays in its set: a store never holds a damaged
\* copy, only a backup does, and no file is replaced that the command did not find.
THEOREM TypeCorrect == Spec => []TypeOK
<1>1. IndInv => TypeOK
  BY DEF IndInv
<1> QED BY <1>1, Invariant, PTL

LEMMA ApiReads ==
  ASSUME IndInv, api # "stopped", ~unseen, ~CommitNotRecorded
  PROVE  UsesKey(api)
<1>1. /\ TypeOK /\ Shape /\ undoing = "no" /\ api = CalledFor /\ api \in {"current", "next"} /\ Keys
  BY DEF IndInv, Course, TypeOK
<1>2. CASE manifest.st = "applied"
  BY <1>1, <1>2 DEF Keys, CalledFor
<1>3. CASE manifest.st \in {"none", "rolled_back"}
  BY <1>1, <1>3 DEF Keys, CalledFor, OldKeys
<1>4. CASE manifest.st = "failed"
  <2>1. api = "current" /\ Content("auth").key # "next" /\ \A f \in Files : file[f].key # "next"
    BY <1>1, <1>4 DEF Keys, CalledFor, CommitNotRecorded
  <2>2. \A s \in Stores : Content(s).key # "next" /\ Content(s) \in Contents
    BY <1>1, <2>1, Typed DEF Stores
  <2> QED BY <2>1, <2>2, ContentsFacts DEF UsesKey
<1> QED BY <1>1, <1>2, <1>3, <1>4 DEF CalledFor

LEMMA MixedRecovers ==
  ASSUME IndInv, Mixed
  PROVE  /\ manifest.st # "none"
         /\ \A s \in manifest.had \cup {"auth"} :
              manifest.hash[s].key = "current" /\ backup[s] \in {manifest.hash[s], Damaged}
<1>1. ~OldKeys
  BY DEF Mixed, OldKeys
<1>2. manifest.st # "none" /\ Complete
  BY <1>1 DEF IndInv, Keys, Copies
<1> QED BY <1>2 DEF Complete, Saved

\* Whichever step of the rotation or of its rollback fails or dies, an API started
\* with the key the manifest calls for reads every store, and while the stores are
\* under two keys every store that existed has its backup under the old key.
THEOREM SecretsAreKept == Spec => []NoSecretIsLost
<1>1. IndInv => NoSecretIsLost
  BY ApiReads, MixedRecovers DEF NoSecretIsLost, ApiReadsItsStores, MixedIsRecoverable
<1> QED BY <1>1, Invariant, PTL

\* The steps that write the manifest, and the status they leave.
LEMMA ManifestSteps ==
  ASSUME Next, manifest' # manifest
  PROVE  \/ Finish \/ Restored
         \/ manifest'.st \in {"prepared", "failed", "rollback_required"}
<1>1. Rotate \/ Backup \/ Read \/ Check \/ Replace \/ Commit \/ Fail \/ Undo \/ Close => manifest' = manifest
  BY DEF Rotate, Backup, Read, Check, Replace, Commit, Fail, Undo, Close, copies
<1>2. RollBack \/ Verify \/ Restore \/ RestoreFails \/ StartApi \/ Crash => manifest' = manifest
  BY DEF RollBack, Verify, Restore, RestoreFails, StartApi, Crash, copies
<1>3. (\E s \in Stores : Edit(s) \/ Straggler(s) \/ Damage(s)) => manifest' = manifest
  BY DEF Edit, Straggler, Damage, copies
<1>4. Prepare \/ Report => manifest' = manifest \/ manifest'.st \in {"prepared", "failed", "rollback_required"}
  BY DEF Prepare, Report, Record
<1> QED BY <1>1, <1>2, <1>3, <1>4 DEF Next, Rotation, Rollback

\* A rollback that reports success has put back every store as its hash was recorded,
\* removed the files that did not exist and left no log to replay.
THEOREM SuccessfulRollbackRestores == Spec => RollbackRestores
<1> DEFINE A == manifest.st # "rolled_back" /\ manifest'.st = "rolled_back" =>
                  /\ \A f \in Files : file'[f] = IF f \in manifest.had THEN manifest.hash[f] ELSE Absent
                  /\ Content("auth")' = manifest.hash["auth"]
<1>1. ASSUME IndInv, [Next]_vars PROVE [A]_vars
  <2>1. CASE UNCHANGED vars
    BY <2>1
  <2>2. CASE Restored
    BY <1>1, <2>2, RestoredInv DEF Original
  <2>3. CASE Next /\ ~Restored
    <3>1. Finish => manifest'.st = "applied"
      BY DEF Finish, Record
    <3> QED BY <2>3, <3>1, ManifestSteps
  <2> QED BY <1>1, <2>1, <2>2, <2>3
<1>2. IndInv /\ [Next]_vars => [A]_vars
  BY <1>1
<1> QED BY <1>2, Invariant, PTL DEF Spec, RollbackRestores

\* A rotation that reports success holds, under the new key, every change that was made
\* to a store it found, and has made no store that was not there.
THEOREM SuccessfulRotationKeepsEdits == Spec => AppliedKeepsEdits
<1> DEFINE A == manifest.st # "applied" /\ manifest'.st = "applied" /\ ~unseen =>
                  \A s \in Stores : Content(s)' =
                    IF s \in had \cup {"auth"} THEN Wrapped("next", edits[s]) ELSE Absent
<1>1. ASSUME IndInv, [Next]_vars PROVE [A]_vars
  <2>1. CASE UNCHANGED vars
    BY <2>1
  <2>2. CASE Finish
    <3> SUFFICES ASSUME ~unseen, NEW s \in Stores
                 PROVE  Content(s)' = IF s \in had \cup {"auth"} THEN Wrapped("next", edits[s]) ELSE Absent
      OBVIOUS
    <3>1. at = "finish" /\ Content(s)' = Content(s)
      BY <2>2, SameStores DEF Finish, At, stores
    <3>2. /\ TypeOK /\ replaced = had /\ \A f \in Files \ had : file[f] = Absent
          /\ \A f \in replaced : file[f] = Wrapped("next", edits[f])
          /\ Content("auth") = Wrapped("next", edits["auth"])
      BY <1>1, <3>1 DEF IndInv, Left, Counts
    <3> QED BY <3>1, <3>2, Typed, StoresFacts DEF Stores
  <2>3. CASE Next /\ ~Finish
    <3>1. Restored => manifest'.st \in {"rolled_back"}
      BY <1>1 DEF Restored, IndInv, Shape
    <3> QED BY <2>3, <3>1, ManifestSteps
  <2> QED BY <1>1, <2>1, <2>2, <2>3
<1>2. IndInv /\ [Next]_vars => [A]_vars
  BY <1>1
<1> QED BY <1>2, Invariant, PTL DEF Spec, AppliedKeepsEdits

=============================================================================
