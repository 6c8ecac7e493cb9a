------------------------- MODULE DnssecRollover_proofs -------------------------
(***************************************************************************)
(* Proofs about DnssecRollover, for any number of overlapping requests and *)
(* recoveries, all TTLs and all disturbances.                              *)
(*                                                                         *)
(* The invariant gives every copy of the operation its meaning, wherever   *)
(* it is: in memory, on disk, in a snapshot not yet written, or with a     *)
(* request that read it long ago.  What a stage says of the keys, of the   *)
(* secondaries, of the parent and of the time stays true for ever, so a    *)
(* late request can only act on what still holds.                          *)
(***************************************************************************)
EXTENDS DnssecRollover, SequenceTheorems, TLAPS

-----------------------------------------------------------------------------
(* The invariant.                                                          *)

Later == {"awaiting_parent_ds_addition", "awaiting_parent_ds_retirement", "waiting_parent_ds_ttl",
          "deactivating_old_key", "deleting_old_key", "succeeded"}

\* What an operation's stage says of its own fields and of the world.
Sound(op) ==
  /\ op.st = "publishing_key" => op.base.new = "hidden" /\ op.target.new = "published"
  /\ op.st = "verifying_dnskey_propagation" => op.since >= published /\ keys.new \in {"published", "active"}
  /\ op.st = "activating_key" => op.target.new = "active"
  /\ op.st \in {"activating_key"} \cup Later =>
       /\ keys.new \in {"published", "active"} /\ secondary.keys.new \in {"published", "active"}
       /\ now >= published + KeyTtl
  /\ op.st = "awaiting_parent_ds_addition" => op.base.new = "active"
  /\ op.st \in Later \ {"awaiting_parent_ds_addition"} => keys.new = "active" /\ ds # {"old"}
  /\ op.st \in {"waiting_parent_ds_ttl", "deactivating_old_key", "deleting_old_key"} => op.since >= seen[{"old"}]
  /\ op.st = "deleting_old_key" => op.target.old = "absent"
  /\ op.st = "succeeded" => keys.old = "absent"

Recorded == Sound(mem) /\ Sound(disk) /\ \A i \in 1 .. Len(queue) : Sound(queue[i].op)
Carried  == \A r \in Runners : Sound(own[r])

\* Publication and activation.
Clocks ==
  /\ published <= now /\ seen[{"old"}] <= now
  /\ keys.new = "active" => now >= published + KeyTtl

\* The parent names the new key only when it is served, and alone only when it is
\* active; the old one goes a TTL later.
Delegated ==
  /\ ds # {"old"} => keys.new \in {"published", "active"} /\ seen[{"old"}] >= 0
  /\ ds = {"new"} \/ seen[{"new"}] >= 0 \/ keys.old # "active" => keys.new = "active"
  /\ \A d \in DsSets : d # {"old"} /\ seen[d] >= 0 => ds # {"old"}
  /\ keys.old # "active" => ds # {"old"} /\ now >= seen[{"old"}] + DsTtl

\* A change that was decided on may be late, but a publication not so late that the
\* parent names the new key.
InFlight ==
  \A r \in Runners :
    /\ at[r] \in {"changing", "changed"} => own[r].st \in Changes
    /\ at[r] = "changing" /\ own[r].st = "publishing_key" =>
         ds = {"old"} /\ keys.new \in {"hidden", "published", "active"}
    /\ at[r] = "changing" /\ own[r].st \in {"deactivating_old_key", "deleting_old_key"} =>
         now >= own[r].since + DsTtl

Begun    == Status \ {"none", "pending"}
Retiring == {"deactivating_old_key", "deleting_old_key"} \cup Terminal

\* No request is ahead of the registry, and the chain ends with what is in memory.
Ahead(op) == (op.st \in Begun => mem.st \in Begun) /\ (op.st \in Retiring => mem.st \in Retiring)
Behind ==
  /\ \A r \in Runners : Ahead(own[r])
  /\ ~broken => /\ queue = <<>> => disk = mem
                /\ queue # <<>> => queue[Len(queue)].op = mem

IndInv == TypeOK /\ Recorded /\ Carried /\ Clocks /\ Delegated /\ InFlight /\ Behind

-----------------------------------------------------------------------------
(* Stages and operations.                                                  *)

LEMMA StatusFacts ==
  /\ DOMAIN Successor = {"pending", "creating_key", "publishing_key", "verifying_dnskey_propagation",
       "activating_key", "awaiting_parent_ds_addition", "awaiting_parent_ds_retirement",
       "waiting_parent_ds_ttl", "deactivating_old_key", "deleting_old_key"}
  /\ Status = {"none", "succeeded", "failed"} \cup DOMAIN Successor
  /\ \A st \in DOMAIN Successor : Successor[st] \in Status \ {"none"}
BY DEF Successor, Status, Terminal

\* The stages follow one another as NEXT_STATUS says.
LEMMA Successors ==
  /\ Successor["pending"] = "creating_key" /\ Successor["creating_key"] = "publishing_key"
  /\ Successor["publishing_key"] = "verifying_dnskey_propagation"
  /\ Successor["verifying_dnskey_propagation"] = "activating_key"
  /\ Successor["activating_key"] = "awaiting_parent_ds_addition"
  /\ Successor["awaiting_parent_ds_addition"] = "awaiting_parent_ds_retirement"
  /\ Successor["awaiting_parent_ds_retirement"] = "waiting_parent_ds_ttl"
  /\ Successor["waiting_parent_ds_ttl"] = "deactivating_old_key"
  /\ Successor["deactivating_old_key"] = "deleting_old_key"
  /\ Successor["deleting_old_key"] = "succeeded"
BY DEF Successor

LEMMA NoGoingBack ==
  ASSUME NEW st \in DOMAIN Successor
  PROVE  /\ st \in Begun => Successor[st] \in Begun
         /\ st \in Retiring => Successor[st] \in Retiring
BY StatusFacts, Successors DEF Begun, Retiring, Terminal

LEMMA ConstantsFacts ==
  /\ Baseline \in KeySet /\ Created \in KeySet /\ Created.new = "hidden" /\ Created.old = "active"
  /\ Baseline.new = "absent" /\ Baseline.old = "active"
  /\ NoOperation \in Operation /\ NoOperation.st = "none"
  /\ KeyTtl \in Nat /\ DsTtl \in Nat
<1>1. Baseline \in KeySet /\ Baseline.new = "absent" /\ Baseline.old = "active"
  BY DEF Baseline, KeySet
<1>2. Created \in KeySet /\ Created.new = "hidden" /\ Created.old = "active"
  BY DEF Baseline, Created, KeySet
<1>3. NoOperation \in Operation /\ NoOperation.st = "none"
  BY <1>1, StatusFacts DEF NoOperation, Operation
<1> QED BY <1>1, <1>2, <1>3, RolloverAssumption

LEMMA DsFacts ==
  /\ DsSets = {{"old"}, {"old", "new"}, {"new"}}
  /\ {"old"} # {"old", "new"} /\ {"old"} # {"new"} /\ {"new"} # {"old", "new"}
  /\ "old" \notin {"new"}
<1>1. "old" # "new"
  OBVIOUS
<1>2. {"old"} # {"old", "new"}
  BY <1>1
<1>3. {"old"} # {"new"}
  BY <1>1
<1>4. {"new"} # {"old", "new"}
  BY <1>1
<1> QED BY <1>1, <1>2, <1>3, <1>4 DEF DsSets

LEMMA Typed ==
  ASSUME TypeOK
  PROVE  /\ keys \in KeySet /\ ds \in DsSets /\ seen \in [DsSets -> Int] /\ now \in Nat /\ published \in Nat
         /\ secondary.keys \in KeySet /\ seen[{"old"}] \in Int
         /\ mem \in Operation /\ disk \in Operation /\ mem.st \in Status
         /\ queue \in Seq([by : Runners, op : Operation])
         /\ at \in [Runners -> {"idle", "run", "changing", "changed", "writing"}]
         /\ own \in [Runners -> Operation] /\ \A r \in Runners : own[r] \in Operation
BY DsFacts DEF TypeOK, Operation

LEMMA OperationFacts ==
  ASSUME NEW op \in Operation
  PROVE  op.st \in Status /\ op.base \in KeySet /\ op.target \in KeySet /\ op.since \in Nat
BY DEF Operation

LEMMA KeyFacts ==
  ASSUME NEW k \in KeySet
  PROVE  /\ k.old \in {"active", "inactive", "absent"} /\ k.extra \in BOOLEAN
         /\ k.new \in {"absent", "hidden", "published", "active"}
         /\ \A o \in {"active", "inactive", "absent"} :
              LET c == [k EXCEPT !.old = o] IN
              c \in KeySet /\ c.old = o /\ c.new = k.new
         /\ \A n \in {"absent", "hidden", "published", "active"} :
              LET c == [k EXCEPT !.new = n] IN
              c \in KeySet /\ c.new = n /\ c.old = k.old
         /\ LET c == [k EXCEPT !.extra = TRUE] IN
            c \in KeySet /\ c.new = k.new /\ c.old = k.old
BY DEF KeySet

\* Nothing changes for the zone, the parent and the clock.
World == <<zone, parent, now>>

LEMMA SameWorld ==
  ASSUME UNCHANGED World
  PROVE  /\ \A op : Sound(op)' = Sound(op)
         /\ keys' = keys /\ serial' = serial /\ secondary' = secondary /\ published' = published
         /\ ds' = ds /\ seen' = seen /\ now' = now
         /\ Clocks' = Clocks /\ Delegated' = Delegated
<1>1. keys' = keys /\ serial' = serial /\ secondary' = secondary /\ published' = published
      /\ ds' = ds /\ seen' = seen /\ now' = now
  BY DEF World, zone, parent
<1> QED BY <1>1 DEF Sound, Clocks, Delegated

-----------------------------------------------------------------------------
(* The queue of snapshots.                                                 *)

LEMMA Enqueued ==
  ASSUME NEW S, NEW q \in Seq(S), NEW e \in S
  PROVE  /\ Append(q, e) \in Seq(S) /\ Append(q, e) # <<>>
         /\ Append(q, e)[Len(Append(q, e))] = e
         /\ \A i \in 1 .. Len(Append(q, e)) : Append(q, e)[i] = e \/ \E j \in 1 .. Len(q) : Append(q, e)[i] = q[j]
<1>1. /\ Append(q, e) \in Seq(S) /\ Append(q, e) # <<>> /\ Len(Append(q, e)) = Len(q) + 1
      /\ \A i \in 1 .. Len(q) : Append(q, e)[i] = q[i]
      /\ Append(q, e)[Len(q) + 1] = e
  BY AppendProperties
<1>2. Len(q) \in Nat
  BY LenProperties
<1>3. \A i \in 1 .. Len(q) + 1 : i \in 1 .. Len(q) \/ i = Len(q) + 1
  BY <1>2
<1> QED BY <1>1, <1>3

LEMMA Dequeued ==
  ASSUME NEW S, NEW q \in Seq(S), q # <<>>
  PROVE  /\ Head(q) \in S /\ Tail(q) \in Seq(S) /\ \E j \in 1 .. Len(q) : Head(q) = q[j]
         /\ \A i \in 1 .. Len(Tail(q)) : \E j \in 1 .. Len(q) : Tail(q)[i] = q[j]
         /\ Tail(q) = <<>> => Head(q) = q[Len(q)]
         /\ Tail(q) # <<>> => Tail(q)[Len(Tail(q))] = q[Len(q)]
<1>1. Len(q) \in Nat \ {0} /\ \A i \in 1 .. Len(q) : q[i] \in S
  BY EmptySeq, LenProperties, ElementOfSeq
<1>2. /\ Head(q) = q[1] /\ Tail(q) \in Seq(S) /\ Len(Tail(q)) = Len(q) - 1
      /\ \A i \in 1 .. Len(Tail(q)) : Tail(q)[i] = q[i + 1]
  BY HeadTailProperties
<1>3. 1 \in 1 .. Len(q) /\ \A i \in 1 .. Len(q) - 1 : i + 1 \in 1 .. Len(q)
  BY <1>1
<1>4. Tail(q) = <<>> => Len(q) = 1
  <2>1. Tail(q) = <<>> => Len(Tail(q)) = 0
    BY EmptySeq
  <2> QED BY <1>1, <1>2, <2>1
<1>5. Tail(q) # <<>> => Len(q) - 1 \in 1 .. Len(Tail(q)) /\ Len(q) - 1 + 1 = Len(q)
  <2>1. Tail(q) # <<>> => Len(Tail(q)) # 0
    BY <1>2, EmptySeq
  <2> QED BY <1>1, <1>2, <2>1
<1>6. /\ \A i \in 1 .. Len(Tail(q)) : \E j \in 1 .. Len(q) : Tail(q)[i] = q[j]
  BY <1>2, <1>3
<1>7. Tail(q) # <<>> => Tail(q)[Len(Tail(q))] = q[Len(q)]
  BY <1>2, <1>5
<1> QED BY <1>1, <1>2, <1>3, <1>4, <1>6, <1>7

-----------------------------------------------------------------------------
(* The registry.                                                           *)

\* What every step of a request leaves alone that only looks at the world.
Looking == UNCHANGED World /\ disk' = disk /\ broken' = broken /\ up' = up
           /\ (happened' = happened \/ happened' \in SUBSET Disturbances)

\* A change of the registry: in memory, and at the end of the chain.
LEMMA WriteInv ==
  ASSUME IndInv, Looking, NEW r \in Runners, NEW op \in Operation, NEW o \in Operation,
         Sound(op), Sound(o), mem' = op, queue' = Append(queue, [by |-> r, op |-> op]),
         at' = [at EXCEPT ![r] = "writing"], own' = [own EXCEPT ![r] = o],
         o = op \/ o.st = "none",
         \A q \in Runners \ {r} : /\ own[q].st \in Begun => op.st \in Begun
                                  /\ own[q].st \in Retiring => op.st \in Retiring
  PROVE  IndInv'
<1>1. /\ TypeOK /\ Recorded /\ Carried /\ Clocks /\ Delegated /\ InFlight /\ Behind
      /\ disk' = disk /\ broken' = broken /\ happened' \in SUBSET Disturbances /\ up' = up
      /\ keys' = keys /\ serial' = serial /\ secondary' = secondary /\ published' = published
      /\ ds' = ds /\ seen' = seen /\ now' = now
      /\ Clocks' /\ Delegated' /\ \A p : Sound(p)' = Sound(p)
  BY SameWorld DEF IndInv, Looking, TypeOK
<1>2. /\ at' \in [Runners -> {"idle", "run", "changing", "changed", "writing"}] /\ at'[r] = "writing"
      /\ own' \in [Runners -> Operation] /\ own'[r] = o
      /\ \A q \in Runners \ {r} : at'[q] = at[q] /\ own'[q] = own[q]
  BY <1>1, Typed
<1> DEFINE e == [by |-> r, op |-> op]
<1>3. e \in [by : Runners, op : Operation] /\ e.op = op
  OBVIOUS
<1>4. /\ queue \in Seq([by : Runners, op : Operation]) /\ queue' = Append(queue, e)
  BY <1>1, Typed
<1> HIDE DEF e
<1>5. /\ queue' \in Seq([by : Runners, op : Operation]) /\ queue' # <<>> /\ queue'[Len(queue')] = e
      /\ \A i \in 1 .. Len(queue') : queue'[i] = e \/ \E j \in 1 .. Len(queue) : queue'[i] = queue[j]
  BY <1>3, <1>4, Enqueued
<1>6. TypeOK'
  BY <1>1, <1>2, <1>5 DEF TypeOK
<1>7. Recorded'
  <2>1. \A i \in 1 .. Len(queue') : Sound(queue'[i].op)
    BY <1>1, <1>3, <1>5 DEF Recorded
  <2> QED BY <1>1, <2>1 DEF Recorded, Sound
<1>8. Carried'
  <2>1. \A q \in Runners : Sound(own'[q])
    BY <1>1, <1>2 DEF Carried
  <2> QED BY <1>1, <2>1 DEF Carried, Sound
<1>9. InFlight'
  BY <1>1, <1>2 DEF InFlight
<1>10. Behind'
  <2>1. \A q \in Runners : Ahead(own[q])'
    BY <1>1, <1>2 DEF Behind, Ahead, Begun, Retiring, Terminal
  <2>2. queue'[Len(queue')].op = mem'
    BY <1>3, <1>5
  <2> QED BY <1>2, <1>5, <2>1, <2>2 DEF Behind, Ahead
<1> QED BY <1>1, <1>6, <1>7, <1>8, <1>9, <1>10 DEF IndInv

\* A request that changes neither the registry nor the world.
LEMMA QuietInv ==
  ASSUME IndInv, Looking, mem' = mem, queue' = queue, NEW r \in Runners,
         NEW a \in {"idle", "run", "changing", "changed"}, NEW o \in Operation,
         at' = [at EXCEPT ![r] = a], own' = [own EXCEPT ![r] = o],
         Sound(o), Ahead(o),
         a \in {"changing", "changed"} => o.st \in Changes,
         a = "changing" /\ o.st = "publishing_key" => keys.new = "hidden",
         a = "changing" /\ o.st \in {"deactivating_old_key", "deleting_old_key"} => now >= o.since + DsTtl
  PROVE  IndInv'
<1>1. /\ TypeOK /\ Recorded /\ Carried /\ Clocks /\ Delegated /\ InFlight /\ Behind
      /\ disk' = disk /\ broken' = broken /\ happened' \in SUBSET Disturbances /\ up' = up
      /\ keys' = keys /\ serial' = serial /\ secondary' = secondary /\ published' = published
      /\ ds' = ds /\ seen' = seen /\ now' = now
      /\ Clocks' /\ Delegated' /\ \A p : Sound(p)' = Sound(p)
  BY SameWorld DEF IndInv, Looking, TypeOK
<1>2. /\ at' \in [Runners -> {"idle", "run", "changing", "changed", "writing"}] /\ at'[r] = a
      /\ own' \in [Runners -> Operation] /\ own'[r] = o
      /\ \A q \in Runners \ {r} : at'[q] = at[q] /\ own'[q] = own[q]
  BY <1>1, Typed
<1>3. TypeOK'
  BY <1>1, <1>2 DEF TypeOK
<1>4. Recorded'
  BY <1>1 DEF Recorded, Sound
<1>5. Carried'
  <2>1. \A q \in Runners : Sound(own'[q])
    BY <1>1, <1>2 DEF Carried
  <2> QED BY <1>1, <2>1 DEF Carried, Sound
<1>6. InFlight'
  <2>1. keys.new = "hidden" => ds = {"old"}
    BY <1>1 DEF Delegated
  <2> QED BY <1>1, <1>2, <2>1 DEF InFlight
<1>7. Behind'
  <2>1. \A q \in Runners : Ahead(own[q])'
    BY <1>1, <1>2 DEF Behind, Ahead, Begun, Retiring, Terminal
  <2> QED BY <1>1, <2>1 DEF Behind, Ahead
<1> QED BY <1>1, <1>3, <1>4, <1>5, <1>6, <1>7 DEF IndInv

LEMMA StayInv ==
  ASSUME IndInv, Looking, NEW r \in Runners, Stay(r)
  PROVE  IndInv'
<1>1. at' = [at EXCEPT ![r] = "idle"] /\ own' = own /\ mem' = mem /\ queue' = queue
  BY DEF Stay, Stop
<1>2. own' = [own EXCEPT ![r] = own[r]] /\ own[r] \in Operation /\ Sound(own[r]) /\ Ahead(own[r])
  BY <1>1, Typed DEF IndInv, Carried, Behind
<1> QED BY <1>1, <1>2, QuietInv

\* The registry takes only the stage it expects itself.
LEMMA AdvanceInv ==
  ASSUME IndInv, Looking, NEW r \in Runners, NEW op \in Operation, Sound(op), Advance(r, op)
  PROVE  IndInv'
<1>1. CASE mem = op /\ at' = [at EXCEPT ![r] = "run"] /\ own' = [own EXCEPT ![r] = op] /\ mem' = mem /\ queue' = queue
  BY <1>1, QuietInv DEF Ahead
<1>2. CASE mem.st \in DOMAIN Successor /\ Successor[mem.st] = op.st /\ Write(r, op)
  <2>1. /\ mem' = op /\ queue' = Append(queue, [by |-> r, op |-> op])
        /\ at' = [at EXCEPT ![r] = "writing"] /\ own' = [own EXCEPT ![r] = op]
    BY <1>2 DEF Write
  <2>2. \A q \in Runners : Ahead(own[q])
    BY DEF IndInv, Behind
  <2>3. (mem.st \in Begun => op.st \in Begun) /\ (mem.st \in Retiring => op.st \in Retiring)
    BY <1>2, NoGoingBack
  <2> QED BY <2>1, <2>2, <2>3, WriteInv DEF Ahead
<1>3. CASE Stay(r)
  BY <1>3, StayInv
<1> QED BY <1>1, <1>2, <1>3 DEF Advance

LEMMA StartInv ==
  ASSUME IndInv, NEW r \in Runners, Start(r)
  PROVE  IndInv'
<1> DEFINE op == [NoOperation EXCEPT !.st = "pending"]
<1>1. op \in Operation /\ op.st = "pending"
  BY ConstantsFacts, StatusFacts DEF Operation
<1>2. Looking /\ mem.st = "none" /\ Write(r, op)
  BY DEF Start, Looking, World
<1> HIDE DEF op
<1>3. Sound(op)
  BY <1>1 DEF Sound, Later
<1>4. \A q \in Runners : own[q].st \notin Begun /\ own[q].st \notin Retiring
  BY <1>2 DEF IndInv, Behind, Ahead, Begun, Retiring, Terminal
<1> QED BY <1>1, <1>2, <1>3, <1>4, WriteInv DEF Write

LEMMA ContinueInv ==
  ASSUME IndInv, NEW r \in Runners, Continue(r)
  PROVE  IndInv'
<1>1. /\ Looking /\ mem' = mem /\ queue' = queue
      /\ at' = [at EXCEPT ![r] = "run"] /\ own' = [own EXCEPT ![r] = mem]
  BY DEF Continue, Looking, World, journal
<1>2. mem \in Operation /\ Sound(mem) /\ Ahead(mem)
  BY Typed DEF IndInv, Recorded, Ahead
<1> QED BY <1>1, <1>2, QuietInv

LEMMA LookingFacts ==
  ASSUME Reading
  PROVE  Looking
BY DEF Reading, Looking, World

LEMMA EndInv ==
  ASSUME IndInv, NEW r \in Runners, End(r) \/ EndReset(r)
  PROVE  IndInv'
BY StayInv, LookingFacts DEF End, EndReset

\* An operation that goes on to its next stage.
LEMMA ToNextFacts ==
  ASSUME NEW op \in Operation, op.st \in DOMAIN Successor, NEW t \in KeySet
  PROVE  /\ ToNext(op, t) \in Operation /\ ToNext(op, t).st = Successor[op.st]
         /\ ToNext(op, t).target = t /\ ToNext(op, t).base = op.base /\ ToNext(op, t).since = op.since
         /\ \A n \in Nat : LET p == [ToNext(op, t) EXCEPT !.since = n] IN
              p \in Operation /\ p.st = Successor[op.st] /\ p.target = t /\ p.base = op.base /\ p.since = n
<1>1. Successor[op.st] \in Status
  BY StatusFacts
<1> QED BY <1>1 DEF ToNext, Operation

LEMMA CheckPreviewInv ==
  ASSUME IndInv, NEW r \in Runners, CheckPreview(r)
  PROVE  IndInv'
<1>1. Looking /\ at[r] = "run" /\ own[r].st = "pending" /\ own[r] \in Operation /\ mem \in Operation
  BY LookingFacts, Typed DEF CheckPreview, Running, IndInv
<1>2. CASE Advance(r, ToNext(own[r], Baseline))
  <2>1. ToNext(own[r], Baseline) \in Operation /\ ToNext(own[r], Baseline).st = "creating_key"
    BY <1>1, ToNextFacts, StatusFacts, ConstantsFacts, Successors
  <2>2. Sound(ToNext(own[r], Baseline))
    BY <2>1 DEF Sound, Later
  <2> QED BY <1>1, <1>2, <2>1, <2>2, AdvanceInv
<1>3. CASE Stay(r)
  BY <1>1, <1>3, StayInv
<1>4. CASE Write(r, [mem EXCEPT !.st = "failed"])
  <2> DEFINE op == [mem EXCEPT !.st = "failed"]
  <2>1. op \in Operation /\ op.st = "failed"
    BY <1>1, StatusFacts DEF Operation
  <2>2. Write(r, op)
    BY <1>4
  <2> HIDE DEF op
  <2>3. Sound(op) /\ "failed" \in Begun /\ "failed" \in Retiring
    BY <2>1, StatusFacts DEF Sound, Later, Begun, Retiring, Terminal
  <2> QED BY <1>1, <2>1, <2>2, <2>3, WriteInv DEF Write
<1> QED BY <1>2, <1>3, <1>4 DEF CheckPreview

-----------------------------------------------------------------------------
(* The steps of a request.                                                 *)

LEMMA InspectKeysInv ==
  ASSUME IndInv, NEW r \in Runners, InspectKeys(r)
  PROVE  IndInv'
<1> DEFINE a == IF ~Fenced(own[r]) THEN "idle"
                ELSE IF keys = TargetOf(own[r]) THEN "changed"
                ELSE IF keys = own[r].base THEN "changing" ELSE "idle"
<1>1. /\ Looking /\ mem' = mem /\ queue' = queue /\ own[r].st \in Changes
      /\ at' = [at EXCEPT ![r] = a] /\ own' = own
  BY DEF InspectKeys, Looking, World, journal
<1>2. /\ a \in {"idle", "run", "changing", "changed"}
      /\ a = "changing" => Fenced(own[r]) /\ keys = own[r].base
  OBVIOUS
<1> HIDE DEF a
<1>3. own' = [own EXCEPT ![r] = own[r]] /\ own[r] \in Operation /\ Sound(own[r]) /\ Ahead(own[r])
  BY <1>1, Typed DEF IndInv, Carried, Behind
<1>4. a = "changing" /\ own[r].st = "publishing_key" => keys.new = "hidden"
  BY <1>2, <1>3 DEF Sound
<1>5. a = "changing" /\ own[r].st \in {"deactivating_old_key", "deleting_old_key"} =>
        now >= own[r].since + DsTtl
  BY <1>2 DEF Fenced, Retired
<1> QED BY <1>1, <1>2, <1>3, <1>4, <1>5, QuietInv

LEMMA NextTargetFacts ==
  ASSUME TypeOK, NEW st
  PROVE  /\ NextTarget(st) \in KeySet
         /\ st = "creating_key" => NextTarget(st).new = "published"
         /\ st = "deactivating_old_key" => NextTarget(st).old = "absent"
<1>1. keys \in KeySet
  BY Typed
<1>2. CASE st = "creating_key"
  <2>1. NextTarget(st) = [keys EXCEPT !.new = "published"]
    BY <1>2 DEF NextTarget
  <2> QED BY <1>1, <1>2, <2>1 DEF KeySet
<1>3. CASE st = "deactivating_old_key"
  <2>1. NextTarget(st) = [keys EXCEPT !.old = "absent"]
    BY <1>3 DEF NextTarget
  <2> QED BY <1>1, <1>3, <2>1 DEF KeySet
<1>4. CASE st \notin {"creating_key", "deactivating_old_key"}
  <2>1. NextTarget(st) = Baseline
    BY <1>4 DEF NextTarget
  <2> QED BY <1>4, <2>1, ConstantsFacts
<1> QED BY <1>2, <1>3, <1>4

LEMMA RecordKeysInv ==
  ASSUME IndInv, NEW r \in Runners, RecordKeys(r)
  PROVE  IndInv'
<1>1. /\ Looking /\ at[r] = "changed" /\ own[r] \in Operation /\ Sound(own[r]) /\ own[r].st \in Changes
      /\ TypeOK /\ Clocks
  BY LookingFacts, Typed DEF RecordKeys, IndInv, InFlight, Carried
<1> DEFINE o  == own[r]
           op == [ToNext(o, NextTarget(o.st)) EXCEPT
                    !.base = keys, !.serial = serial,
                    !.since = IF o.st = "publishing_key" THEN now ELSE @]
<1>2. CASE Stay(r)
  BY <1>1, <1>2, StayInv
<1>3. CASE keys = TargetOf(o) /\ Advance(r, op)
  <2>1. o.st \in DOMAIN Successor /\ keys \in KeySet /\ serial \in Nat /\ now \in Nat
    BY <1>1, StatusFacts, Typed DEF Changes, TypeOK
  <2>2. /\ ToNext(o, NextTarget(o.st)) \in Operation /\ ToNext(o, NextTarget(o.st)).st = Successor[o.st]
        /\ ToNext(o, NextTarget(o.st)).target = NextTarget(o.st)
        /\ ToNext(o, NextTarget(o.st)).since = o.since
    BY <1>1, <2>1, NextTargetFacts, ToNextFacts
  <2>3. /\ op \in Operation /\ op.st = Successor[o.st] /\ op.base = keys /\ op.target = NextTarget(o.st)
        /\ op.since = IF o.st = "publishing_key" THEN now ELSE o.since
    BY <2>1, <2>2 DEF Operation
  <2>4. Advance(r, op)
    BY <1>3
  <2>5. keys = TargetOf(o)
    BY <1>3
  <2> HIDE DEF op
  <2>6. CASE o.st = "creating_key"
    <3>1. op.st = "publishing_key" /\ op.base.new = "hidden" /\ op.target.new = "published"
      BY <1>1, <2>3, <2>5, <2>6, NextTargetFacts, Successors, ConstantsFacts DEF TargetOf
    <3>2. Sound(op)
      BY <3>1 DEF Sound, Later
    <3> QED BY <1>1, <2>3, <2>4, <3>2, AdvanceInv
  <2>7. CASE o.st = "publishing_key"
    <3>1. op.st = "verifying_dnskey_propagation" /\ op.since >= published /\ keys.new = "published"
      BY <1>1, <2>3, <2>5, <2>7, Successors DEF TargetOf, Sound, Clocks
    <3>2. Sound(op)
      BY <3>1 DEF Sound, Later
    <3> QED BY <1>1, <2>3, <2>4, <3>2, AdvanceInv
  <2>8. CASE o.st = "activating_key"
    <3>1. /\ op.st = "awaiting_parent_ds_addition" /\ keys.new = "active" /\ op.base.new = "active"
          /\ secondary.keys.new \in {"published", "active"} /\ now >= published + KeyTtl
      BY <1>1, <2>3, <2>5, <2>8, Successors DEF TargetOf, Sound
    <3>2. Sound(op)
      BY <3>1 DEF Sound, Later
    <3> QED BY <1>1, <2>3, <2>4, <3>2, AdvanceInv
  <2>9. CASE o.st = "deactivating_old_key"
    <3>1. op.st = "deleting_old_key" /\ op.target.old = "absent" /\ op.since = o.since
      BY <1>1, <2>3, <2>9, NextTargetFacts, Successors
    <3>2. Sound(op)
      BY <1>1, <2>9, <3>1 DEF Sound, Later
    <3> QED BY <1>1, <2>3, <2>4, <3>2, AdvanceInv
  <2>10. CASE o.st = "deleting_old_key"
    <3>1. op.st = "succeeded" /\ keys.old = "absent"
      BY <1>1, <2>3, <2>5, <2>10, Successors DEF TargetOf, Sound
    <3>2. Sound(op)
      BY <1>1, <2>10, <3>1 DEF Sound, Later
    <3> QED BY <1>1, <2>3, <2>4, <3>2, AdvanceInv
  <2> QED BY <1>1, <2>6, <2>7, <2>8, <2>9, <2>10 DEF Changes
<1> QED BY <1>2, <1>3 DEF RecordKeys

LEMMA VerifyPropagationInv ==
  ASSUME IndInv, NEW r \in Runners, VerifyPropagation(r)
  PROVE  IndInv'
<1>1. /\ Looking /\ own[r] \in Operation /\ Sound(own[r]) /\ own[r].st = "verifying_dnskey_propagation"
      /\ TypeOK /\ Clocks /\ keys \in KeySet
  BY LookingFacts, Typed DEF VerifyPropagation, Running, IndInv, Carried
<1> DEFINE t  == [keys EXCEPT !.new = "active"]
           op == [ToNext(own[r], t) EXCEPT !.since = 0]
<1>2. CASE Stay(r)
  BY <1>1, <1>2, StayInv
<1>3. CASE Propagated(own[r]) /\ Advance(r, op)
  <2>1. t \in KeySet /\ t.new = "active"
    BY <1>1, KeyFacts
  <2> HIDE DEF t
  <2>2. op \in Operation /\ op.st = "activating_key" /\ op.target = t
    <3>1. /\ ToNext(own[r], t) \in Operation /\ ToNext(own[r], t).st = "activating_key"
          /\ ToNext(own[r], t).target = t
      BY <1>1, <2>1, ToNextFacts, StatusFacts, Successors
    <3> QED BY <3>1 DEF Operation
  <2>3. Advance(r, op) /\ Propagated(own[r])
    BY <1>3
  <2> HIDE DEF op
  <2>4. /\ keys.new \in {"published", "active"} /\ secondary.keys.new = "published"
        /\ now >= published + KeyTtl
    <3>1. now >= own[r].since + KeyTtl /\ own[r].since >= published
      BY <1>1, <2>3 DEF Propagated, Sound
    <3>2. own[r].since \in Nat /\ published \in Nat /\ now \in Nat /\ KeyTtl \in Nat
      BY <1>1, Typed, OperationFacts, ConstantsFacts
    <3>3. now >= published + KeyTtl
      BY <3>1, <3>2
    <3> QED BY <1>1, <2>3, <3>3 DEF Propagated, Sound
  <2>5. Sound(op)
    BY <2>1, <2>2, <2>4 DEF Sound, Later
  <2> QED BY <1>1, <2>2, <2>3, <2>5, AdvanceInv
<1> QED BY <1>2, <1>3 DEF VerifyPropagation

LEMMA AwaitAdditionInv ==
  ASSUME IndInv, NEW r \in Runners, AwaitAddition(r)
  PROVE  IndInv'
<1>1. /\ Looking /\ own[r] \in Operation /\ Sound(own[r]) /\ own[r].st = "awaiting_parent_ds_addition"
  BY LookingFacts, Typed DEF AwaitAddition, Running, IndInv, Carried
<1> DEFINE op == ToNext(own[r], Baseline)
<1>2. CASE Stay(r)
  BY <1>1, <1>2, StayInv
<1>3. CASE keys = own[r].base /\ ds = {"old", "new"} /\ Advance(r, op)
  <2>1. op \in Operation /\ op.st = "awaiting_parent_ds_retirement"
    BY <1>1, ToNextFacts, StatusFacts, Successors, ConstantsFacts
  <2>2. Advance(r, op) /\ ds # {"old"} /\ keys.new = "active"
    BY <1>1, <1>3, DsFacts DEF Sound
  <2> HIDE DEF op
  <2>3. Sound(op)
    BY <1>1, <2>1, <2>2 DEF Sound, Later
  <2> QED BY <1>1, <2>1, <2>2, <2>3, AdvanceInv
<1> QED BY <1>2, <1>3 DEF AwaitAddition

LEMMA AwaitRetirementInv ==
  ASSUME IndInv, NEW r \in Runners, AwaitRetirement(r)
  PROVE  IndInv'
<1>1. /\ Looking /\ own[r] \in Operation /\ Sound(own[r]) /\ own[r].st = "awaiting_parent_ds_retirement"
      /\ now \in Nat /\ now >= seen[{"old"}]
  BY LookingFacts, Typed DEF AwaitRetirement, Running, IndInv, Carried, Clocks
<1> DEFINE op == [ToNext(own[r], Baseline) EXCEPT !.since = now]
<1>2. CASE Stay(r)
  BY <1>1, <1>2, StayInv
<1>3. CASE ds = {"new"} /\ Advance(r, op)
  <2>1. op \in Operation /\ op.st = "waiting_parent_ds_ttl" /\ op.since = now
    BY <1>1, ToNextFacts, StatusFacts, Successors, ConstantsFacts
  <2>2. Advance(r, op)
    BY <1>3
  <2> HIDE DEF op
  <2>3. Sound(op)
    BY <1>1, <2>1 DEF Sound, Later
  <2> QED BY <1>1, <2>1, <2>2, <2>3, AdvanceInv
<1> QED BY <1>2, <1>3 DEF AwaitRetirement

\* The reset leaves the request without a copy.
LEMMA ResetInv ==
  ASSUME IndInv, Looking, NEW r \in Runners, Reset(r)
  PROVE  IndInv'
<1> DEFINE op == [mem EXCEPT !.st = "awaiting_parent_ds_retirement", !.since = 0]
<1>1. CASE Stay(r)
  BY <1>1, StayInv
<1>2. CASE /\ mem.st = "waiting_parent_ds_ttl" /\ mem' = op /\ queue' = Append(queue, [by |-> r, op |-> mem'])
           /\ at' = [at EXCEPT ![r] = "writing"] /\ own' = [own EXCEPT ![r] = NoOperation]
  <2>1. mem \in Operation /\ Sound(mem) /\ \A q \in Runners : Ahead(own[q])
    BY Typed DEF IndInv, Recorded, Behind
  <2>2. op \in Operation /\ op.st = "awaiting_parent_ds_retirement"
    BY <2>1, StatusFacts DEF Operation
  <2>3. /\ mem' = op /\ queue' = Append(queue, [by |-> r, op |-> op])
    BY <1>2
  <2> HIDE DEF op
  <2>4. Sound(op)
    BY <1>2, <2>1, <2>2 DEF Sound, Later
  <2>5. NoOperation \in Operation /\ NoOperation.st = "none" /\ Sound(NoOperation)
    BY ConstantsFacts DEF Sound, Later
  <2>6. op.st \in Begun /\ \A q \in Runners : own[q].st \notin Retiring
    BY <1>2, <2>1, <2>2, StatusFacts DEF Ahead, Retiring, Begun, Terminal
  <2> QED BY <1>2, <2>2, <2>3, <2>4, <2>5, <2>6, WriteInv
<1> QED BY <1>1, <1>2 DEF Reset

LEMMA WaitForTtlInv ==
  ASSUME IndInv, NEW r \in Runners, WaitForTtl(r)
  PROVE  IndInv'
<1>1. /\ Looking /\ own[r] \in Operation /\ Sound(own[r]) /\ own[r].st = "waiting_parent_ds_ttl"
      /\ keys \in KeySet
  <2>1. Looking
    BY DEF WaitForTtl, Disturb, Looking, World, IndInv, TypeOK
  <2> QED BY <2>1, Typed DEF WaitForTtl, Running, IndInv, Carried
<1> DEFINE t  == [keys EXCEPT !.old = "inactive"]
           op == ToNext(own[r], t)
<1>2. CASE Stay(r) \/ Reset(r)
  BY <1>1, <1>2, StayInv, ResetInv
<1>3. CASE Advance(r, op)
  <2>1. t \in KeySet
    BY <1>1, KeyFacts
  <2> HIDE DEF t
  <2>2. op \in Operation /\ op.st = "deactivating_old_key" /\ op.since = own[r].since
    BY <1>1, <2>1, ToNextFacts, StatusFacts, Successors
  <2>3. Advance(r, op)
    BY <1>3
  <2> HIDE DEF op
  <2>4. Sound(op)
    BY <1>1, <2>2 DEF Sound, Later
  <2> QED BY <1>1, <2>2, <2>3, <2>4, AdvanceInv
<1> QED BY <1>2, <1>3 DEF WaitForTtl

-----------------------------------------------------------------------------
(* The name server.                                                        *)

\* A change moves the new key on, or back from active while the parent does not name
\* it, and touches the old one only when no resolver needs it.
LEMMA KeyChange ==
  ASSUME IndInv, NEW r \in Runners, at[r] = "changing", keys' = Changed(own[r].st)
  PROVE  /\ own[r].st \in Changes /\ keys' \in KeySet
         /\ \/ keys'.new = keys.new
            \/ keys.new = "absent" /\ keys'.new = "hidden"
            \/ keys.new = "hidden" /\ keys'.new = "published"
            \/ keys.new = "published" /\ keys'.new = "active" /\ own[r].st = "activating_key"
            \/ keys.new = "active" /\ keys'.new = "published" /\ ds = {"old"}
         /\ \/ keys'.old = keys.old
            \/ /\ own[r].st \in {"deactivating_old_key", "deleting_old_key"}
               /\ keys.old # "absent" /\ keys'.old \in {"inactive", "absent"} /\ keys.new = "active"
               /\ ds # {"old"} /\ now >= seen[{"old"}] + DsTtl
<1>1. /\ TypeOK /\ keys \in KeySet /\ own[r] \in Operation /\ Sound(own[r]) /\ own[r].st \in Changes
      /\ now \in Nat /\ published \in Nat /\ seen[{"old"}] \in Int /\ own[r].since \in Nat
      /\ KeyTtl \in Nat /\ DsTtl \in Nat
  BY Typed, OperationFacts, ConstantsFacts DEF IndInv, Carried, InFlight
<1> DEFINE st == own[r].st
<1>2. keys' = Changed(st) /\ st \in Changes
  BY <1>1
<1>3. keys.new \in {"absent", "hidden", "published", "active"} /\ keys.old \in {"active", "inactive", "absent"}
  BY <1>1, KeyFacts
<1>4. st = "publishing_key" => ds = {"old"} /\ keys.new \in {"hidden", "published", "active"}
  BY DEF IndInv, InFlight
<1>5. st = "activating_key" => keys.new \in {"published", "active"}
  BY <1>1 DEF Sound
<1>6. st \in {"deactivating_old_key", "deleting_old_key"} =>
        ds # {"old"} /\ now >= seen[{"old"}] + DsTtl /\ keys.new = "active"
  <2> SUFFICES ASSUME st \in {"deactivating_old_key", "deleting_old_key"}
               PROVE  ds # {"old"} /\ now >= seen[{"old"}] + DsTtl /\ keys.new = "active"
    OBVIOUS
  <2>1. ds # {"old"} /\ own[r].since >= seen[{"old"}] /\ keys.new = "active"
    BY <1>1 DEF Sound, Later
  <2>2. now >= own[r].since + DsTtl
    BY DEF IndInv, InFlight
  <2> QED BY <1>1, <2>1, <2>2
<1> HIDE DEF st
<1>7. CASE st = "creating_key"
  <2>1. keys' = IF keys.new = "absent" THEN [keys EXCEPT !.new = "hidden"] ELSE [keys EXCEPT !.extra = TRUE]
    BY <1>2, <1>7 DEF Changed
  <2> QED BY <1>1, <1>3, <2>1 DEF KeySet
<1>8. CASE st = "publishing_key"
  <2>1. keys' = [keys EXCEPT !.new = "published"]
    BY <1>2, <1>8 DEF Changed
  <2> QED BY <1>1, <1>3, <1>4, <1>8, <2>1 DEF KeySet
<1>9. CASE st = "activating_key"
  <2>1. keys' = [keys EXCEPT !.new = "active"]
    BY <1>2, <1>9 DEF Changed
  <2>2. own[r].st = "activating_key"
    BY <1>9 DEF st
  <2> QED BY <1>1, <1>3, <1>5, <1>9, <2>1, <2>2 DEF KeySet
<1>10. CASE st = "deactivating_old_key"
  <2>1. keys' = IF keys.old = "absent" THEN keys ELSE [keys EXCEPT !.old = "inactive"]
    BY <1>2, <1>10 DEF Changed
  <2>2. own[r].st = "deactivating_old_key"
    BY <1>10 DEF st
  <2> QED BY <1>1, <1>3, <1>6, <1>10, <2>1, <2>2 DEF KeySet
<1>11. CASE st = "deleting_old_key"
  <2>1. keys' = [keys EXCEPT !.old = "absent"]
    BY <1>2, <1>11 DEF Changed
  <2>2. own[r].st = "deleting_old_key"
    BY <1>11 DEF st
  <2>3. keys.old = "absent" => keys'.old = keys.old
    BY <1>1, <2>1 DEF KeySet
  <2> QED BY <1>1, <1>3, <1>6, <1>11, <2>1, <2>2, <2>3 DEF KeySet
<1> QED BY <1>2, <1>7, <1>8, <1>9, <1>10, <1>11 DEF Changes

\* When the world moves on under the registry, what every stage says stays true.
LEMMA WorldInv ==
  ASSUME IndInv, TypeOK', Clocks', Delegated', UNCHANGED <<journal, own>>,
         \A op \in Operation : Sound(op) => Sound(op)',
         \A r \in Runners : at'[r] = at[r] \/ (at'[r] \in {"idle", "changed"} /\ own[r].st \in Changes),
         \A r \in Runners :
           /\ at'[r] = "changing" /\ own[r].st = "publishing_key"
           /\ ds = {"old"} /\ keys.new \in {"hidden", "published", "active"}
           => ds' = {"old"} /\ keys'.new \in {"hidden", "published", "active"},
         now' >= now
  PROVE  IndInv'
<1>1. /\ mem' = mem /\ disk' = disk /\ queue' = queue /\ broken' = broken /\ own' = own
      /\ TypeOK /\ Recorded /\ Carried /\ InFlight /\ Behind
  BY DEF journal, IndInv
<1>2. /\ mem \in Operation /\ disk \in Operation /\ \A r \in Runners : own[r] \in Operation
      /\ queue \in Seq([by : Runners, op : Operation])
  BY <1>1, Typed
<1>3. \A i \in 1 .. Len(queue) : queue[i].op \in Operation
  <2>1. \A i \in 1 .. Len(queue) : queue[i] \in [by : Runners, op : Operation]
    BY <1>2, ElementOfSeq
  <2> QED BY <2>1
<1>4. Recorded'
  <2>1. Sound(mem)' /\ Sound(disk)'
    <3>1. PICK m \in Operation, d \in Operation : m = mem /\ d = disk
      BY <1>2
    <3>2. Sound(m)' /\ Sound(d)'
      BY <1>1, <3>1 DEF Recorded
    <3> QED BY <1>1, <3>1, <3>2 DEF Sound
  <2>2. \A i \in 1 .. Len(queue) : Sound(queue[i].op)'
    <3> SUFFICES ASSUME NEW i \in 1 .. Len(queue) PROVE Sound(queue[i].op)'
      OBVIOUS
    <3>1. PICK p \in Operation : p = queue[i].op
      BY <1>3
    <3>2. Sound(p)'
      BY <1>1, <3>1 DEF Recorded
    <3> QED BY <1>1, <3>1, <3>2 DEF Sound
  <2> QED BY <1>1, <2>1, <2>2 DEF Recorded
<1>5. Carried'
  <2> SUFFICES ASSUME NEW r \in Runners PROVE Sound(own[r])'
    BY DEF Carried
  <2>1. PICK p \in Operation : p = own[r]
    BY <1>2
  <2>2. Sound(p)'
    BY <1>1, <2>1 DEF Carried
  <2> QED BY <1>1, <2>1, <2>2 DEF Sound
<1>6. InFlight'
  <2> SUFFICES ASSUME NEW r \in Runners
               PROVE  /\ at'[r] \in {"changing", "changed"} => own[r].st \in Changes
                      /\ at'[r] = "changing" /\ own[r].st = "publishing_key" =>
                           ds' = {"old"} /\ keys'.new \in {"hidden", "published", "active"}
                      /\ at'[r] = "changing" /\ own[r].st \in {"deactivating_old_key", "deleting_old_key"} =>
                           now' >= own[r].since + DsTtl
    BY <1>1 DEF InFlight
  <2>1. at'[r] = "changing" => at[r] = "changing"
    OBVIOUS
  <2>2. at'[r] \in {"changing", "changed"} => own[r].st \in Changes
    BY <1>1 DEF InFlight
  <2>3. at[r] = "changing" /\ own[r].st \in {"deactivating_old_key", "deleting_old_key"} =>
          now >= own[r].since + DsTtl
    BY <1>1 DEF InFlight
  <2>4. now \in Nat /\ now' \in Nat /\ own[r].since \in Nat /\ DsTtl \in Nat
    BY <1>1, <1>2, OperationFacts, ConstantsFacts DEF TypeOK
  <2>5. now >= own[r].since + DsTtl => now' >= own[r].since + DsTtl
    BY <2>4
  <2> QED BY <1>1, <2>1, <2>2, <2>3, <2>5 DEF InFlight
<1>7. Behind'
  BY <1>1 DEF Behind, Ahead
<1> QED BY <1>4, <1>5, <1>6, <1>7 DEF IndInv

LEMMA ChangeKeysInv ==
  ASSUME IndInv, NEW r \in Runners, ChangeKeys(r)
  PROVE  IndInv'
<1>1. /\ at[r] = "changing" /\ keys' \in {keys, Changed(own[r].st)}
      /\ (at' = [at EXCEPT ![r] = "changed"] \/ at' = [at EXCEPT ![r] = "idle"])
      /\ serial' = IF keys' = keys THEN serial ELSE serial + 1
      /\ published' = IF keys.new = "hidden" /\ keys'.new = "published" THEN now ELSE published
      /\ secondary' = secondary /\ ds' = ds /\ seen' = seen /\ now' = now
      /\ UNCHANGED <<journal, own>> /\ up' = up
      /\ happened' \in SUBSET Disturbances
  BY DEF ChangeKeys, parent, Disturb, IndInv, TypeOK
<1>2. /\ TypeOK /\ Clocks /\ Delegated /\ InFlight /\ keys \in KeySet /\ own[r] \in Operation /\ Sound(own[r])
      /\ now \in Nat /\ published \in Nat /\ KeyTtl \in Nat /\ DsTtl \in Nat /\ seen[{"old"}] \in Int
  BY Typed, ConstantsFacts DEF IndInv, Carried
<1>3. /\ keys' \in KeySet
      /\ \/ keys'.new = keys.new
         \/ keys.new = "absent" /\ keys'.new = "hidden"
         \/ keys.new = "hidden" /\ keys'.new = "published"
         \/ keys.new = "published" /\ keys'.new = "active" /\ own[r].st = "activating_key"
         \/ keys.new = "active" /\ keys'.new = "published" /\ ds = {"old"}
      /\ \/ keys'.old = keys.old
         \/ /\ keys.old # "absent" /\ keys'.old \in {"inactive", "absent"} /\ keys.new = "active"
            /\ ds # {"old"} /\ now >= seen[{"old"}] + DsTtl
  BY <1>1, <1>2, KeyChange
<1>4. published' \in Nat /\ (published' = published \/ (keys.new = "hidden" /\ keys'.new = "published" /\ published' = now))
  BY <1>1, <1>2
<1>5. own[r].st = "activating_key" => now >= published + KeyTtl
  BY <1>2 DEF Sound
<1>6. /\ at' \in [Runners -> {"idle", "run", "changing", "changed", "writing"}] /\ at'[r] \in {"idle", "changed"}
      /\ \A q \in Runners \ {r} : at'[q] = at[q]
  BY <1>1, <1>2, Typed
<1>7. TypeOK'
  <2>1. serial' \in Nat
    BY <1>1, <1>2 DEF TypeOK
  <2> QED BY <1>1, <1>2, <1>3, <1>4, <1>6, <2>1 DEF TypeOK, journal
<1>8. Clocks'
  BY <1>1, <1>2, <1>3, <1>4, <1>5 DEF Clocks
<1>9. Delegated'
  BY <1>1, <1>2, <1>3, DsFacts DEF Delegated
<1>10. \A op \in Operation : Sound(op) => Sound(op)'
  <2>1. keys.new \in {"published", "active"} => keys'.new \in {"published", "active"} /\ published' = published
    BY <1>3, <1>4
  <2>2. (keys.new = "active" /\ ds # {"old"} => keys'.new = "active") /\ (keys.old = "absent" => keys'.old = "absent")
    BY <1>3
  <2> QED BY <1>1, <2>1, <2>2 DEF Sound, Later
<1>11. ds = {"old"} /\ keys.new \in {"hidden", "published", "active"} =>
         ds' = {"old"} /\ keys'.new \in {"hidden", "published", "active"}
  BY <1>1, <1>3
<1>12. \A q \in Runners : at'[q] = at[q] \/ (at'[q] \in {"idle", "changed"} /\ own[q].st \in Changes)
  BY <1>1, <1>2, <1>6 DEF InFlight
<1>13. now' >= now
  BY <1>1, <1>2
<1> QED BY <1>1, <1>7, <1>8, <1>9, <1>10, <1>11, <1>12, <1>13, WorldInv

-----------------------------------------------------------------------------
(* The journal's chain, the parent, the secondaries and the clock.         *)

LEMMA PublishInv ==
  ASSUME IndInv, NEW d \in {{"old", "new"}, {"new"}}, Publish(d), keys.new \in {"published", "active"},
         d = {"new"} \/ ds = {"new"} => keys.new = "active", ds = {"old"} => ~LatePublication,
         happened' \in SUBSET Disturbances
  PROVE  IndInv'
<1>1. /\ ds' = d /\ seen' = [seen EXCEPT ![ds] = now]
      /\ keys' = keys /\ serial' = serial /\ secondary' = secondary /\ published' = published /\ now' = now
      /\ UNCHANGED <<journal, own>> /\ up' = up /\ at' = at
  BY DEF Publish, zone, runners
<1>2. /\ TypeOK /\ Clocks /\ Delegated /\ ds \in DsSets /\ seen \in [DsSets -> Int] /\ now \in Nat
      /\ d \in DsSets /\ d # {"old"} /\ {"old"} \in DsSets
  BY Typed, DsFacts DEF IndInv
<1>3. /\ seen' \in [DsSets -> Int] /\ seen'[ds] = now /\ \A e \in DsSets \ {ds} : seen'[e] = seen[e]
  BY <1>1, <1>2
<1>4. TypeOK'
  BY <1>1, <1>2, <1>3 DEF TypeOK, journal
<1>5. seen'[{"old"}] <= now /\ seen'[{"old"}] >= 0 /\ (ds # {"old"} => seen'[{"old"}] = seen[{"old"}])
  <2> DEFINE o == {"old"}
  <2>1. o \in DsSets /\ (ds # o => seen[o] >= 0) /\ seen[o] <= now
    BY <1>2 DEF Clocks, Delegated
  <2> HIDE DEF o
  <2>2. CASE ds = o
    <3>1. seen'[o] = now
      BY <1>3, <2>2
    <3>2. now <= now /\ now >= 0
      BY <1>2
    <3> QED BY <2>2, <3>1, <3>2 DEF o
  <2>3. CASE ds # o
    BY <1>3, <2>1, <2>3 DEF o
  <2> QED BY <2>2, <2>3
<1>6. Clocks'
  BY <1>1, <1>2, <1>5 DEF Clocks
<1>7. Delegated'
  <2>1. keys.old # "active" => now >= seen'[{"old"}] + DsTtl
    BY <1>2, <1>5 DEF Delegated
  <2>2. seen'[{"new"}] >= 0 => ds = {"new"} \/ seen[{"new"}] >= 0
    BY <1>2, <1>3, DsFacts
  <2> QED BY <1>1, <1>2, <1>5, <2>1, <2>2 DEF Delegated
<1>8. \A op \in Operation : Sound(op) => Sound(op)'
  BY <1>1, <1>2, <1>5 DEF Sound, Later
<1>9. now' >= now
  BY <1>1, <1>2
<1>10. \A r \in Runners : ~(at'[r] = "changing" /\ own[r].st = "publishing_key" /\ ds = {"old"})
  BY <1>1 DEF LatePublication
<1> QED BY <1>1, <1>4, <1>6, <1>7, <1>8, <1>9, <1>10, WorldInv

LEMMA OperatorInv ==
  ASSUME IndInv, Operator
  PROVE  IndInv'
<1>1. Sound(disk) /\ happened \in SUBSET Disturbances /\ Delegated
  BY DEF IndInv, Recorded, TypeOK
<1>2. CASE AddDs
  <2>1. keys.new \in {"published", "active"}
    BY <1>1, <1>2 DEF AddDs, Sound, Later
  <2>2. Publish({"old", "new"}) /\ happened' = happened /\ ds # {"new"} /\ ~LatePublication
    BY <1>2, DsFacts DEF AddDs
  <2> QED BY <1>1, <2>1, <2>2, DsFacts, PublishInv
<1>3. CASE RemoveDs
  <2>1. keys.new = "active" /\ ds # {"old"}
    BY <1>1, <1>3, DsFacts DEF RemoveDs, Sound, Later
  <2>2. Publish({"new"}) /\ happened' = happened
    BY <1>3 DEF RemoveDs
  <2> QED BY <1>1, <2>1, <2>2, PublishInv
<1>4. CASE ReaddDs
  <2>1. keys.new = "active" /\ ds # {"old"}
    BY <1>1, <1>4, DsFacts DEF ReaddDs, Delegated
  <2>2. Publish({"old", "new"}) /\ happened' \in SUBSET Disturbances
    BY <1>1, <1>4 DEF ReaddDs, Disturb
  <2> QED BY <2>1, <2>2, PublishInv
<1> QED BY <1>2, <1>3, <1>4 DEF Operator

LEMMA SyncInv ==
  ASSUME IndInv, SyncSecondary \/ EditZone \/ Tick \/ Boot
  PROVE  IndInv'
<1>1. /\ keys' = keys /\ published' = published /\ ds' = ds /\ seen' = seen
      /\ UNCHANGED <<journal, own>> /\ at' = at
  BY DEF SyncSecondary, EditZone, Tick, Boot, parent, runners, zone
<1>2. /\ TypeOK /\ Clocks /\ Delegated /\ keys \in KeySet /\ now \in Nat /\ published \in Nat
      /\ seen[{"old"}] \in Int /\ serial \in Nat /\ KeyTtl \in Nat /\ DsTtl \in Nat
  BY Typed, ConstantsFacts DEF IndInv, TypeOK
<1>3. CASE SyncSecondary
  <2>1. /\ secondary' = [serial |-> serial, keys |-> keys] /\ serial' = serial /\ now' = now
        /\ up' = up /\ happened' = happened
    BY <1>3 DEF SyncSecondary, parent
  <2>2. secondary'.keys = keys /\ secondary' \in [serial : Nat, keys : KeySet]
    BY <1>2, <2>1
  <2>3. TypeOK' /\ Clocks' /\ Delegated'
    BY <1>1, <1>2, <2>1, <2>2 DEF TypeOK, journal, Clocks, Delegated
  <2>4. \A op \in Operation : Sound(op) => Sound(op)'
    BY <1>1, <2>1, <2>2 DEF Sound
  <2>5. now' >= now
    BY <1>2, <2>1
  <2> QED BY <1>1, <2>1, <2>3, <2>4, <2>5, WorldInv
<1>4. CASE EditZone \/ Boot
  <2>1. /\ secondary' = secondary /\ now' = now /\ serial' \in Nat /\ up' \in BOOLEAN
        /\ happened' \in SUBSET Disturbances
    <3>1. CASE EditZone
      <4>1. serial' = serial + 1 /\ up' = up /\ secondary' = secondary /\ now' = now
        BY <3>1 DEF EditZone
      <4>2. happened' \in SUBSET Disturbances
        BY <1>2, <3>1 DEF EditZone, Disturb, TypeOK
      <4> QED BY <1>2, <4>1, <4>2 DEF TypeOK
    <3>2. CASE Boot
      BY <1>2, <3>2 DEF Boot, zone, TypeOK
    <3> QED BY <1>4, <3>1, <3>2
  <2>2. TypeOK' /\ Clocks' /\ Delegated'
    BY <1>1, <1>2, <2>1 DEF TypeOK, journal, Clocks, Delegated
  <2>3. \A op \in Operation : Sound(op) => Sound(op)'
    BY <1>1, <2>1 DEF Sound
  <2>4. now' >= now
    BY <1>2, <2>1
  <2> QED BY <1>1, <2>1, <2>2, <2>3, <2>4, WorldInv
<1>5. CASE Tick
  <2>1. /\ secondary' = secondary /\ now' = now + 1 /\ serial' = serial /\ up' = up /\ happened' = happened
    BY <1>5 DEF Tick, zone
  <2>2. TypeOK'
    BY <1>1, <1>2, <2>1 DEF TypeOK, journal
  <2>3. Clocks' /\ Delegated'
    BY <1>1, <1>2, <2>1 DEF Clocks, Delegated
  <2>4. \A op \in Operation : Sound(op) => Sound(op)'
    <3>1. now >= published + KeyTtl => now' >= published + KeyTtl
      BY <1>2, <2>1
    <3> QED BY <1>1, <2>1, <3>1 DEF Sound
  <2>5. now' >= now
    BY <1>2, <2>1
  <2> QED BY <1>1, <2>1, <2>2, <2>3, <2>4, <2>5, WorldInv
<1> QED BY <1>3, <1>4, <1>5

LEMMA StorageInv ==
  ASSUME IndInv, Storage
  PROVE  IndInv'
<1>1. /\ queue # <<>> /\ queue' = Tail(queue) /\ mem' = mem /\ own' = own /\ up' = up /\ UNCHANGED World
      /\ happened' \in SUBSET Disturbances
      /\ \E a \in {"run", "idle"} : at' = [at EXCEPT ![Head(queue).by] = a]
      /\ \/ ~broken /\ disk' = Head(queue).op /\ broken' = broken
         \/ broken' = TRUE /\ disk' = disk
  BY DEF Storage, Flush, FlushFails, World, Disturb, IndInv, TypeOK
<1>2. /\ TypeOK /\ Recorded /\ Carried /\ InFlight /\ Behind
      /\ keys' = keys /\ serial' = serial /\ secondary' = secondary /\ published' = published
      /\ ds' = ds /\ seen' = seen /\ now' = now
      /\ Clocks' /\ Delegated' /\ \A p : Sound(p)' = Sound(p)
  BY <1>1, SameWorld DEF IndInv
<1>3. queue \in Seq([by : Runners, op : Operation]) /\ queue # <<>>
  BY <1>1, <1>2, Typed
<1>4. /\ Head(queue) \in [by : Runners, op : Operation] /\ Tail(queue) \in Seq([by : Runners, op : Operation])
      /\ \E j \in 1 .. Len(queue) : Head(queue) = queue[j]
      /\ \A i \in 1 .. Len(Tail(queue)) : \E j \in 1 .. Len(queue) : Tail(queue)[i] = queue[j]
      /\ Tail(queue) = <<>> => Head(queue) = queue[Len(queue)]
      /\ Tail(queue) # <<>> => Tail(queue)[Len(Tail(queue))] = queue[Len(queue)]
  BY <1>3, Dequeued
<1>5. PICK e \in [by : Runners, op : Operation] : e = Head(queue)
  BY <1>4
<1>6. /\ e.by \in Runners /\ e.op \in Operation /\ Sound(e.op)
  <2>1. PICK j \in 1 .. Len(queue) : e = queue[j]
    BY <1>4, <1>5
  <2> QED BY <1>2, <2>1 DEF Recorded
<1>7. /\ at' \in [Runners -> {"idle", "run", "changing", "changed", "writing"}]
      /\ at'[e.by] \in {"run", "idle"} /\ \A q \in Runners \ {e.by} : at'[q] = at[q]
  <2>1. PICK a \in {"run", "idle"} : at' = [at EXCEPT ![e.by] = a]
    BY <1>1, <1>5
  <2> QED BY <1>2, <1>6, <2>1, Typed
<1>8. disk' \in Operation /\ broken' \in BOOLEAN
  BY <1>1, <1>2, <1>5, <1>6 DEF TypeOK
<1>9. TypeOK'
  BY <1>1, <1>2, <1>4, <1>7, <1>8 DEF TypeOK
<1>10. Recorded'
  <2>1. Sound(disk')
    BY <1>1, <1>2, <1>5, <1>6 DEF Recorded
  <2>2. \A i \in 1 .. Len(queue') : Sound(queue'[i].op)
    BY <1>1, <1>2, <1>4 DEF Recorded
  <2> QED BY <1>1, <1>2, <2>1, <2>2 DEF Recorded, Sound
<1>11. Carried'
  BY <1>1, <1>2 DEF Carried, Sound
<1>12. InFlight'
  BY <1>1, <1>2, <1>7 DEF InFlight
<1>13. Behind'
  <2>1. ~broken' => ~broken /\ disk' = e.op
    BY <1>1, <1>5
  <2>2. ~broken => queue[Len(queue)].op = mem
    BY <1>2, <1>3 DEF Behind
  <2>3. /\ queue' = <<>> => e = queue[Len(queue)]
        /\ queue' # <<>> => queue'[Len(queue')] = queue[Len(queue)]
    BY <1>1, <1>4, <1>5
  <2> QED BY <1>1, <1>2, <2>1, <2>2, <2>3 DEF Behind, Ahead
<1> QED BY <1>2, <1>9, <1>10, <1>11, <1>12, <1>13 DEF IndInv

LEMMA CrashInv ==
  ASSUME IndInv, Crash
  PROVE  IndInv'
<1>1. /\ mem' = disk /\ disk' = disk /\ queue' = <<>> /\ broken' = FALSE /\ up' = FALSE
      /\ at' = [r \in Runners |-> "idle"] /\ own' = [r \in Runners |-> NoOperation]
      /\ UNCHANGED World /\ happened' \in SUBSET Disturbances
  BY DEF Crash, World, Disturb, IndInv, TypeOK
<1>2. /\ TypeOK /\ Sound(disk) /\ disk \in Operation
      /\ keys' = keys /\ serial' = serial /\ secondary' = secondary /\ published' = published
      /\ ds' = ds /\ seen' = seen /\ now' = now
      /\ Clocks' /\ Delegated' /\ \A p : Sound(p)' = Sound(p)
  BY <1>1, SameWorld, Typed DEF IndInv, Recorded
<1>3. NoOperation \in Operation /\ NoOperation.st = "none" /\ Sound(NoOperation)
  BY ConstantsFacts DEF Sound, Later
<1>4. queue' \in Seq([by : Runners, op : Operation]) /\ Len(queue') = 0
  BY <1>1, EmptySeq
<1>5. TypeOK'
  BY <1>1, <1>2, <1>3, <1>4 DEF TypeOK
<1>6. Recorded'
  <2>1. \A i \in 1 .. Len(queue') : FALSE
    BY <1>4
  <2> QED BY <1>1, <1>2, <2>1 DEF Recorded, Sound
<1>7. Carried' /\ InFlight'
  <2>1. \A r \in Runners : own'[r] = NoOperation /\ at'[r] = "idle"
    BY <1>1
  <2>2. InFlight'
    BY <2>1 DEF InFlight
  <2>3. Carried'
    BY <1>2, <1>3, <2>1 DEF Carried, Sound
  <2> QED BY <2>2, <2>3
<1>8. Behind'
  <2>1. \A r \in Runners : own'[r].st = "none"
    BY <1>1, <1>3
  <2> QED BY <1>1, <2>1 DEF Behind, Ahead, Begun, Retiring, Terminal
<1> QED BY <1>2, <1>5, <1>6, <1>7, <1>8 DEF IndInv

-----------------------------------------------------------------------------
(* The theorems.                                                           *)

LEMMA RunnerInv ==
  ASSUME IndInv, NEW r \in Runners, Request(r) \/ Step(r)
  PROVE  IndInv'
BY StartInv, ContinueInv, CheckPreviewInv, InspectKeysInv, ChangeKeysInv, RecordKeysInv,
   VerifyPropagationInv, AwaitAdditionInv, AwaitRetirementInv, WaitForTtlInv, EndInv DEF Request, Step

LEMMA NextInv ==
  ASSUME IndInv, [Next]_vars
  PROVE  IndInv'
<1>1. CASE UNCHANGED vars
  <2>1. /\ UNCHANGED World /\ UNCHANGED <<mem, disk, queue, broken, up, at, own, happened>>
    BY <1>1 DEF vars, World, journal, runners
  <2>2. /\ keys' = keys /\ serial' = serial /\ secondary' = secondary /\ published' = published
        /\ ds' = ds /\ seen' = seen /\ now' = now /\ Clocks' /\ Delegated'
    BY <2>1, SameWorld DEF IndInv
  <2>3. TypeOK'
    BY <2>1, <2>2 DEF IndInv, TypeOK
  <2>4. Recorded' /\ Carried'
    BY <2>1, <2>2 DEF IndInv, Recorded, Carried, Sound
  <2>5. InFlight' /\ Behind'
    BY <2>1, <2>2 DEF IndInv, InFlight, Behind, Ahead
  <2> QED BY <2>2, <2>3, <2>4, <2>5 DEF IndInv
<1>2. CASE \E r \in Runners : Request(r) \/ Step(r)
  BY <1>2, RunnerInv
<1>3. CASE Storage \/ Operator \/ SyncSecondary \/ EditZone \/ Tick \/ Crash \/ Boot
  BY <1>3, StorageInv, OperatorInv, SyncInv, CrashInv
<1> QED BY <1>1, <1>2, <1>3 DEF Next

LEMMA InitInv ==
  ASSUME Init
  PROVE  IndInv
<1>1. /\ keys = Baseline /\ serial = 1 /\ secondary = [serial |-> 1, keys |-> Baseline]
      /\ ds = {"old"} /\ seen = [d \in DsSets |-> -1] /\ now = 0 /\ published = 0
      /\ mem = NoOperation /\ disk = NoOperation /\ queue = <<>> /\ broken = FALSE /\ up = TRUE
      /\ at = [r \in Runners |-> "idle"] /\ own = [r \in Runners |-> NoOperation] /\ happened = {}
  BY DEF Init
<1>2. /\ Baseline \in KeySet /\ Baseline.new = "absent" /\ Baseline.old = "active"
      /\ NoOperation \in Operation /\ NoOperation.st = "none" /\ Sound(NoOperation)
  BY ConstantsFacts DEF Sound, Later
<1>3. secondary.keys = Baseline /\ secondary \in [serial : Nat, keys : KeySet]
  BY <1>1, <1>2
<1>4. ds \in DsSets /\ seen \in [DsSets -> Int] /\ \A d \in DsSets : seen[d] = -1
  BY <1>1, DsFacts
<1>5. queue \in Seq([by : Runners, op : Operation]) /\ Len(queue) = 0
  BY <1>1, EmptySeq
<1>6. TypeOK
  BY <1>1, <1>2, <1>3, <1>4, <1>5 DEF TypeOK
<1>7. \A r \in Runners : own[r] = NoOperation /\ at[r] = "idle"
  BY <1>1
<1>8. Recorded /\ Carried
  <2>1. \A i \in 1 .. Len(queue) : FALSE
    BY <1>5
  <2> QED BY <1>1, <1>2, <1>7, <2>1 DEF Recorded, Carried
<1>9. Clocks /\ Delegated
  <2>1. seen[{"old"}] = -1
    BY <1>4, DsFacts
  <2>2. \A d \in DsSets : ~(seen[d] >= 0)
    BY <1>4
  <2> QED BY <1>1, <1>2, <1>3, <2>1, <2>2, DsFacts DEF Clocks, Delegated
<1>10. InFlight /\ Behind
  BY <1>1, <1>2, <1>7 DEF InFlight, Behind, Ahead, Begun, Retiring, Terminal
<1> QED BY <1>6, <1>8, <1>9, <1>10 DEF IndInv

\* Every copy of the operation means what its stage says, whatever happened.
THEOREM Invariant == Spec => []IndInv
<1>1. Init => IndInv
  BY InitInv
<1>2. IndInv /\ [Next]_vars => IndInv'
  BY NextInv
<1> QED BY <1>1, <1>2, PTL DEF Spec

\* Every variable keeps its type, and the registry holds only statuses it knows.
THEOREM TypeCorrect == Spec => []TypeOK
<1>1. IndInv => TypeOK
  BY DEF IndInv
<1> QED BY <1>1, Invariant, PTL

\* For any number of overlapping requests and recoveries, every resolver with a DS set
\* that is published or still cached finds an active key, and a rollover recorded as
\* succeeded has left the new key alone in charge.
THEOREM DelegationIsKept == Spec => []DelegationSurvives
<1>1. ASSUME IndInv PROVE DelegationSurvives
  <2>1. /\ TypeOK /\ Delegated /\ Sound(mem) /\ Sound(disk) /\ seen[{"old"}] \in Int /\ now \in Nat
        /\ seen \in [DsSets -> Int] /\ ds \in DsSets /\ DsTtl \in Nat
    BY <1>1, Typed, ConstantsFacts DEF IndInv, Recorded
  <2>2. ASSUME NEW d \in DsSets, Cached(d)
        PROVE  ("old" \in d /\ keys.old = "active") \/ ("new" \in d /\ keys.new = "active")
    <3>1. CASE d = {"old"}
      <4>1. ds = {"old"} \/ now < seen[{"old"}] + DsTtl
        BY <2>2, <3>1 DEF Cached
      <4>2. keys.old = "active"
        BY <2>1, <4>1 DEF Delegated
      <4> QED BY <3>1, <4>2
    <3>2. CASE d = {"old", "new"}
      BY <2>1, <3>2 DEF Delegated
    <3>3. CASE d = {"new"}
      <4>1. ds = {"new"} \/ seen[{"new"}] >= 0
        BY <2>2, <3>3 DEF Cached
      <4> QED BY <2>1, <3>3, <4>1 DEF Delegated
    <3> QED BY <3>1, <3>2, <3>3, DsFacts
  <2>3. "succeeded" \in {mem.st, disk.st} => keys.old = "absent" /\ keys.new = "active"
    BY <2>1 DEF Sound, Later
  <2> QED BY <2>2, <2>3 DEF DelegationSurvives
<1>2. IndInv => DelegationSurvives
  BY <1>1
<1> QED BY <1>2, Invariant, PTL

\* Only the name server's answer to a request changes the keys.
LEMMA KeysChange ==
  ASSUME Next, keys' # keys
  PROVE  \E r \in Runners : ChangeKeys(r) /\ at[r] = "changing" /\ keys' = Changed(own[r].st)
<1>1. \E r \in Runners : ChangeKeys(r)
  <2>1. ASSUME NEW r \in Runners, Request(r) \/ Step(r), ~ChangeKeys(r)
        PROVE  keys' = keys
    BY <2>1 DEF Request, Step, Start, Continue, CheckPreview, InspectKeys, RecordKeys, VerifyPropagation,
       AwaitAddition, AwaitRetirement, WaitForTtl, End, EndReset, Reading, zone
  <2>2. Storage \/ Operator \/ SyncSecondary \/ EditZone \/ Tick \/ Crash \/ Boot => keys' = keys
    BY DEF Storage, Flush, FlushFails, Operator, AddDs, RemoveDs, ReaddDs, Publish, SyncSecondary, EditZone,
       Tick, Crash, Boot, zone
  <2> QED BY <2>1, <2>2 DEF Next
<1> QED BY <1>1 DEF ChangeKeys

\* While the journal's chain is empty and whole, a key changes only when the file shows
\* the intent, and the old key only when the file shows a stage that retires it.
THEOREM IntentIsOnDisk == Spec => IntentIsDurable
<1> DEFINE A == keys' # keys /\ queue = <<>> /\ ~broken =>
                  /\ disk.st \notin {"none", "pending"}
                  /\ keys'.old # keys.old =>
                       disk.st \in {"deactivating_old_key", "deleting_old_key"} \cup Terminal
<1>1. ASSUME IndInv, [Next]_vars PROVE [A]_vars
  <2>1. CASE UNCHANGED vars
    BY <2>1
  <2>2. CASE Next /\ keys' # keys
    <3> SUFFICES ASSUME queue = <<>>, ~broken PROVE A
      OBVIOUS
    <3>1. PICK r \in Runners : at[r] = "changing" /\ keys' = Changed(own[r].st)
      BY <2>2, KeysChange
    <3>2. disk = mem /\ Ahead(own[r])
      BY <1>1 DEF IndInv, Behind
    <3>3. own[r].st \in Changes
      BY <1>1, <3>1 DEF IndInv, InFlight
    <3>4. mem.st \in Begun
      BY <3>2, <3>3, StatusFacts DEF Ahead, Begun, Changes
    <3>5. keys'.old # keys.old => own[r].st \in {"deactivating_old_key", "deleting_old_key"}
      BY <1>1, <3>1, KeyChange
    <3>6. keys'.old # keys.old => mem.st \in Retiring
      BY <3>2, <3>5 DEF Ahead, Retiring
    <3> QED BY <3>2, <3>4, <3>6 DEF Begun, Retiring
  <2>3. CASE keys' = keys
    BY <2>3
  <2> QED BY <1>1, <2>1, <2>2, <2>3
<1>2. IndInv /\ [Next]_vars => [A]_vars
  BY <1>1
<1> QED BY <1>2, Invariant, PTL DEF Spec, IntentIsDurable

\* The new key is activated only when the secondaries serve it and it has been out for
\* its TTL, zero included, even by a request that decided on it long before others went
\* on, and again after a late publication has made it inactive.
THEOREM ActivationWaits == Spec => ActivatedWhenServed
<1> DEFINE A == keys.new # "active" /\ keys'.new = "active" =>
                  secondary.keys.new \in {"published", "active"} /\ now >= published + KeyTtl
<1>1. ASSUME IndInv, [Next]_vars PROVE [A]_vars
  <2>1. CASE UNCHANGED vars
    BY <2>1
  <2>2. CASE Next
    <3> SUFFICES ASSUME keys.new # "active", keys'.new = "active"
                 PROVE  secondary.keys.new \in {"published", "active"} /\ now >= published + KeyTtl
      OBVIOUS
    <3>1. PICK r \in Runners : at[r] = "changing" /\ keys' = Changed(own[r].st)
      BY <2>2, KeysChange
    <3>2. own[r].st = "activating_key"
      BY <1>1, <3>1, KeyChange
    <3>3. Sound(own[r])
      BY <1>1 DEF IndInv, Carried
    <3> QED BY <3>2, <3>3 DEF Sound
  <2> QED BY <1>1, <2>1, <2>2
<1>2. IndInv /\ [Next]_vars => [A]_vars
  BY <1>1
<1> QED BY <1>2, Invariant, PTL DEF Spec, ActivatedWhenServed

=============================================================================
