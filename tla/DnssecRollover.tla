---------------------------- MODULE DnssecRollover ----------------------------
(***************************************************************************)
(* The KSK/CSK rollover of one zone: the journalled stages that            *)
(* dns-zone-dnssec-rollover-runtime.js drives, the key changes it asks the *)
(* name server for (powerdns-dnssec-manager.js), and what it waits for at  *)
(* the secondaries and at the parent zone.                                 *)
(*                                                                         *)
(* Several requests may drive the one operation together: each keeps the   *)
(* copy of the operation it read and compares it with the registry only    *)
(* when it advances.  The registry changes in memory first; its snapshots  *)
(* are queued on a promise chain that a failed write rejects for ever.     *)
(*                                                                         *)
(* A key-set digest is the key set itself.  Key changes increment the      *)
(* zone's serial; a DNS operator answers for the parent's DS records.      *)
(***************************************************************************)
EXTENDS Integers, Sequences, FiniteSets

CONSTANTS
  Runners,       \* requests, and the recovery at startup, that may overlap
  KeyTtl, DsTtl, \* TTLs of the DNSKEY and the DS records, in units of time
  Disturbances,  \* which may happen once: "crash", "fault", "edit", "lost", "readd",
                 \* "unseen"
  MaxDisturbed   \* bound: disturbances together

ASSUME RolloverAssumption ==
  /\ KeyTtl \in Nat /\ DsTtl \in Nat /\ MaxDisturbed \in Nat
  /\ Disturbances \subseteq {"crash", "fault", "edit", "lost", "readd", "unseen"}

VARIABLES
  keys,       \* the authoritative key set: the old key, the new one, a second new one
  serial,     \* the zone's serial
  secondary,  \* the serial and the key set the secondaries serve
  ds, seen,   \* the DS set at the parent; when each DS set was last published
  now,        \* time, in units of the TTLs
  published,  \* when the new key was published
  mem, disk,  \* the operation in the registry, in memory and on disk
  queue,      \* snapshots still to be written, with who waits
  broken,     \* the write chain is rejected
  up,         \* the API runs
  at, own,    \* per runner: where it is, its copy of the operation
  happened    \* disturbances so far

zone    == <<keys, serial, secondary, published>>
parent  == <<ds, seen>>
journal == <<mem, disk, queue, broken>>
runners == <<at, own>>
vars    == <<zone, parent, now, journal, up, runners, happened>>

Disturb(kind) ==
  /\ kind \in Disturbances \ happened /\ Cardinality(happened) < MaxDisturbed
  /\ happened' = happened \cup {kind}

\* Faulty variant: the last stage leads to a status the registry does not know.
UnknownEnd ==
  [pending |-> "creating_key", creating_key |-> "publishing_key",
   publishing_key |-> "verifying_dnskey_propagation",
   verifying_dnskey_propagation |-> "activating_key",
   activating_key |-> "awaiting_parent_ds_addition",
   awaiting_parent_ds_addition |-> "awaiting_parent_ds_retirement",
   awaiting_parent_ds_retirement |-> "waiting_parent_ds_ttl",
   waiting_parent_ds_ttl |-> "deactivating_old_key",
   deactivating_old_key |-> "deleting_old_key", deleting_old_key |-> "completed"]

\* NEXT_STATUS.
Successor ==
  [pending |-> "creating_key", creating_key |-> "publishing_key",
   publishing_key |-> "verifying_dnskey_propagation",
   verifying_dnskey_propagation |-> "activating_key",
   activating_key |-> "awaiting_parent_ds_addition",
   awaiting_parent_ds_addition |-> "awaiting_parent_ds_retirement",
   awaiting_parent_ds_retirement |-> "waiting_parent_ds_ttl",
   waiting_parent_ds_ttl |-> "deactivating_old_key",
   deactivating_old_key |-> "deleting_old_key",
   deleting_old_key |-> "succeeded"]

Terminal == {"succeeded", "failed"}
Status   == DOMAIN Successor \cup Terminal \cup {"none"}
Started  == Status \ (Terminal \cup {"none"})
DsSets   == {{"old"}, {"old", "new"}, {"new"}}

Baseline == [old |-> "active", new |-> "absent", extra |-> FALSE]

\* since: the evidence of the time a wait began (publication, or retirement).
NoOperation == [st |-> "none", base |-> Baseline, target |-> Baseline, serial |-> 0, since |-> 0]

-----------------------------------------------------------------------------
(* The registry.                                                           *)

Stop(r) == at' = [at EXCEPT ![r] = "idle"] /\ UNCHANGED own
Stay(r) == Stop(r) /\ UNCHANGED <<mem, queue>>

\* Faulty variant: the change stays in memory.
KeepInMemory(r, op) ==
  /\ mem' = op /\ UNCHANGED queue
  /\ at' = [at EXCEPT ![r] = "run"] /\ own' = [own EXCEPT ![r] = op]

\* persist(): memory first; the snapshot joins the chain.
Write(r, op) ==
  /\ mem' = op /\ queue' = Append(queue, [by |-> r, op |-> op])
  /\ at' = [at EXCEPT ![r] = "writing"] /\ own' = [own EXCEPT ![r] = op]

\* advance: to the stage the registry itself expects, or a repetition.
Advance(r, op) ==
  \/ /\ mem.st = op.st /\ mem = op
     /\ at' = [at EXCEPT ![r] = "run"] /\ own' = [own EXCEPT ![r] = op]
     /\ UNCHANGED <<mem, queue>>
  \/ /\ mem.st \in DOMAIN Successor /\ Successor[mem.st] = op.st /\ Write(r, op)
  \/ /\ mem # op /\ ~(mem.st \in DOMAIN Successor /\ Successor[mem.st] = op.st) /\ Stay(r)

ToNext(op, target) == [op EXCEPT !.st = Successor[@], !.target = target]

Flush ==
  /\ queue # <<>> /\ ~broken
  /\ disk' = Head(queue).op /\ queue' = Tail(queue)
  /\ at' = [at EXCEPT ![Head(queue).by] = "run"]
  /\ UNCHANGED <<zone, parent, now, mem, broken, up, own, happened>>

FlushFails ==
  /\ queue # <<>>
  /\ IF broken THEN UNCHANGED <<broken, happened>> ELSE broken' = TRUE /\ Disturb("fault")
  /\ queue' = Tail(queue) /\ at' = [at EXCEPT ![Head(queue).by] = "idle"]
  /\ UNCHANGED <<zone, parent, now, mem, disk, up, own>>

-----------------------------------------------------------------------------
(* Requests.                                                               *)

\* start: the preview is current and nothing was journalled yet.
Start(r) ==
  /\ up /\ at[r] = "idle" /\ mem.st = "none"
  /\ keys = Baseline /\ ds = {"old"}
  /\ Write(r, [NoOperation EXCEPT !.st = "pending"])
  /\ UNCHANGED <<zone, parent, now, disk, broken, up, happened>>

\* continueOperation, a repeated start, and init after a restart.
Continue(r) ==
  /\ up /\ at[r] = "idle" /\ mem.st \in Started
  /\ at' = [at EXCEPT ![r] = "run"] /\ own' = [own EXCEPT ![r] = mem]
  /\ UNCHANGED <<zone, parent, now, journal, up, happened>>

Running(r, st) == at[r] = "run" /\ own[r].st = st
Reading == UNCHANGED <<zone, parent, now, disk, broken, up, happened>>

End(r) ==
  /\ at[r] = "run" /\ own[r].st \in Terminal
  /\ Stay(r) /\ Reading

\* The journalled preview must still be the current one.
CheckPreview(r) ==
  /\ Running(r, "pending") /\ Reading
  /\ IF keys = Baseline /\ ds = {"old"} THEN Advance(r, ToNext(own[r], Baseline))
     ELSE IF mem.st \in Terminal THEN Stay(r) ELSE Write(r, [mem EXCEPT !.st = "failed"])

-----------------------------------------------------------------------------
(* Key changes.  The adapter inspects the key set, changes one key and     *)
(* inspects again; a set that is already the target is only rectified.     *)

Changes == {"creating_key", "publishing_key", "activating_key", "deactivating_old_key",
            "deleting_old_key"}

\* Faulty variant: the TTL is not waited for.
RetiredNow(op) == ds = {"new"}

\* The DS set at the parent is the new key's alone, and has been for a TTL.
Retired(op) == ds = {"new"} /\ now >= op.since + DsTtl

Created == [Baseline EXCEPT !.new = "hidden"]

TargetOf(op) == IF op.st = "creating_key" THEN Created ELSE op.target

\* The fence before a change of the old key.
Fenced(op) == op.st \in {"deactivating_old_key", "deleting_old_key"} => Retired(op)

\* Faulty variant: a change that was made, but whose answer was lost, is refused.
RefuseRepeated(r) ==
  /\ at[r] = "run" /\ own[r].st \in Changes
  /\ at' = [at EXCEPT ![r] = IF Fenced(own[r]) /\ keys = own[r].base THEN "changing" ELSE "idle"]
  /\ UNCHANGED <<zone, parent, now, journal, up, own, happened>>

\* Faulty variant: whatever is not the target yet is changed.
ChangeAnyway(r) ==
  /\ at[r] = "run" /\ own[r].st \in Changes
  /\ LET op == own[r] IN
     at' = [at EXCEPT ![r] = IF ~Fenced(op) THEN "idle"
                             ELSE IF keys = TargetOf(op) THEN "changed" ELSE "changing"]
  /\ UNCHANGED <<zone, parent, now, journal, up, own, happened>>

InspectKeys(r) ==
  /\ at[r] = "run" /\ own[r].st \in Changes
  /\ LET op == own[r] IN
     at' = [at EXCEPT ![r] = IF ~Fenced(op) THEN "idle"
                             ELSE IF keys = TargetOf(op) THEN "changed"
                             ELSE IF keys = op.base THEN "changing"
                             ELSE "idle"]
  /\ UNCHANGED <<zone, parent, now, journal, up, own, happened>>

Changed(st) ==
  CASE st = "creating_key" ->
         IF keys.new = "absent" THEN [keys EXCEPT !.new = "hidden"] ELSE [keys EXCEPT !.extra = TRUE]
    [] st = "publishing_key"       -> [keys EXCEPT !.new = "published"]
    [] st = "activating_key"       -> [keys EXCEPT !.new = "active"]
    [] st = "deactivating_old_key" -> IF keys.old = "absent" THEN keys ELSE [keys EXCEPT !.old = "inactive"]
    [] st = "deleting_old_key"     -> [keys EXCEPT !.old = "absent"]

\* The name server makes the change; its answer may be lost, before or after.
ChangeKeys(r) ==
  /\ at[r] = "changing"
  /\ \/ keys' = Changed(own[r].st) /\ at' = [at EXCEPT ![r] = "changed"] /\ UNCHANGED happened
     \/ /\ Disturb("lost") /\ at' = [at EXCEPT ![r] = "idle"]
        /\ keys' \in {keys, Changed(own[r].st)}
  /\ serial' = IF keys' = keys THEN serial ELSE serial + 1
  /\ published' = IF keys.new = "hidden" /\ keys'.new = "published" THEN now ELSE published
  /\ UNCHANGED <<secondary, parent, now, journal, up, own>>

\* The key set that was aimed at is there; the target of the next change is
\* previewed, and both are journalled.
NextTarget(st) ==
  CASE st = "creating_key"         -> [keys EXCEPT !.new = "published"]
    [] st = "deactivating_old_key" -> [keys EXCEPT !.old = "absent"]
    [] OTHER                       -> Baseline

RecordKeys(r) ==
  /\ at[r] = "changed" /\ Reading
  /\ IF keys = TargetOf(own[r])
       THEN Advance(r, [ToNext(own[r], NextTarget(own[r].st)) EXCEPT
              !.base = keys, !.serial = serial,
              !.since = IF own[r].st = "publishing_key" THEN now ELSE @])
       ELSE Stay(r)

-----------------------------------------------------------------------------
(* Observations of the secondaries and of the parent.                      *)

\* Faulty variant: the secondaries are not asked.
PropagatedHere(op) == now >= op.since + KeyTtl

\* Every server answers with the published serial and the new key, and the key
\* has been out for its TTL.
Propagated(op) ==
  /\ secondary.serial = op.serial /\ secondary.keys.new = "published"
  /\ now >= op.since + KeyTtl

VerifyPropagation(r) ==
  /\ Running(r, "verifying_dnskey_propagation") /\ Reading
  /\ IF keys = own[r].base /\ serial = own[r].serial /\ Propagated(own[r])
       THEN Advance(r, [ToNext(own[r], [keys EXCEPT !.new = "active"]) EXCEPT !.since = 0])
       ELSE Stay(r)

\* parentAdditionEvidence; the parent may be unverifiable.
AwaitAddition(r) ==
  /\ Running(r, "awaiting_parent_ds_addition") /\ Reading
  /\ IF keys = own[r].base /\ ds = {"old", "new"}
       THEN Advance(r, ToNext(own[r], Baseline))
       ELSE Stay(r)

\* parentRetirementEvidence: the TTL is counted from this observation.
AwaitRetirement(r) ==
  /\ Running(r, "awaiting_parent_ds_retirement") /\ Reading
  /\ IF keys = own[r].base /\ ds = {"new"}
       THEN Advance(r, [ToNext(own[r], Baseline) EXCEPT !.since = now])
       ELSE Stay(r)

\* A parent that is no longer clean, or cannot be verified, sends the operation back.
Reset(r) ==
  IF mem.st = "waiting_parent_ds_ttl"
    THEN /\ mem' = [mem EXCEPT !.st = "awaiting_parent_ds_retirement", !.since = 0]
         /\ queue' = Append(queue, [by |-> r, op |-> mem'])
         /\ at' = [at EXCEPT ![r] = "writing"]
         /\ own' = [own EXCEPT ![r] = NoOperation]
    ELSE Stay(r)

WaitForTtl(r) ==
  /\ Running(r, "waiting_parent_ds_ttl")
  /\ UNCHANGED <<zone, parent, now, disk, broken, up>>
  /\ \/ /\ UNCHANGED happened
        /\ IF keys # own[r].base THEN Stay(r)
           ELSE IF ds # {"new"} THEN Reset(r)
           ELSE IF Retired(own[r]) THEN Advance(r, ToNext(own[r], [keys EXCEPT !.old = "inactive"]))
           ELSE Stay(r)
     \/ keys = own[r].base /\ Disturb("unseen") /\ Reset(r)

\* After a reset the run ends.
EndReset(r) ==
  /\ Running(r, "none") /\ Stay(r) /\ Reading

-----------------------------------------------------------------------------
(* The environment.                                                        *)

\* The operator adds the new DS when asked to, and removes the old one when the
\* addition has been seen; it may put the old one back.  A registrar is slower than
\* a write, so it acts on what is on disk, and slower than a request to the name
\* server: one that was under way when the new DS was asked for has ended before.
Publish(d) ==
  /\ ds' = d /\ seen' = [seen EXCEPT ![ds] = now]
  /\ UNCHANGED <<zone, now, journal, up, runners>>

LatePublication == \E r \in Runners : at[r] = "changing" /\ own[r].st = "publishing_key"

AddDs ==
  /\ ds = {"old"} /\ disk.st = "awaiting_parent_ds_addition" /\ ~LatePublication
  /\ Publish({"old", "new"}) /\ UNCHANGED happened

RemoveDs ==
  /\ ds = {"old", "new"}
  /\ disk.st \in {"awaiting_parent_ds_retirement", "waiting_parent_ds_ttl",
                  "deactivating_old_key", "deleting_old_key"}
  /\ Publish({"new"}) /\ UNCHANGED happened

ReaddDs ==
  /\ ds = {"new"} /\ Disturb("readd") /\ Publish({"old", "new"})

SyncSecondary ==
  /\ secondary # [serial |-> serial, keys |-> keys]
  /\ secondary' = [serial |-> serial, keys |-> keys]
  /\ UNCHANGED <<keys, serial, published, parent, now, journal, up, runners, happened>>

\* A record of the zone is changed.
EditZone ==
  /\ Disturb("edit") /\ serial' = serial + 1
  /\ UNCHANGED <<keys, secondary, published, parent, now, journal, up, runners>>

\* Time passes while something waits for it.
Cached(d) == d = ds \/ (seen[d] >= 0 /\ now < seen[d] + DsTtl)

Waiting ==
  \/ mem.st = "verifying_dnskey_propagation" /\ now < mem.since + KeyTtl
  \/ mem.st = "waiting_parent_ds_ttl" /\ now < mem.since + DsTtl
  \/ \E d \in DsSets \ {ds} : Cached(d)

Tick ==
  /\ Waiting /\ now' = now + 1
  /\ UNCHANGED <<zone, parent, journal, up, runners, happened>>

Crash ==
  /\ up /\ Disturb("crash") /\ up' = FALSE
  /\ mem' = disk /\ queue' = <<>> /\ broken' = FALSE
  /\ at' = [r \in Runners |-> "idle"] /\ own' = [r \in Runners |-> NoOperation]
  /\ UNCHANGED <<zone, parent, now, disk>>

Boot ==
  /\ ~up /\ up' = TRUE
  /\ UNCHANGED <<zone, parent, now, journal, runners, happened>>

-----------------------------------------------------------------------------
Init ==
  /\ keys = Baseline /\ serial = 1 /\ secondary = [serial |-> 1, keys |-> Baseline]
  /\ ds = {"old"} /\ seen = [d \in DsSets |-> -1]
  /\ now = 0 /\ published = 0
  /\ mem = NoOperation /\ disk = NoOperation /\ queue = <<>> /\ broken = FALSE
  /\ up = TRUE
  /\ at = [r \in Runners |-> "idle"] /\ own = [r \in Runners |-> NoOperation]
  /\ happened = {}

Request(r) == Start(r) \/ Continue(r)

Step(r) ==
  \/ CheckPreview(r) \/ InspectKeys(r) \/ ChangeKeys(r) \/ RecordKeys(r)
  \/ VerifyPropagation(r) \/ AwaitAddition(r) \/ AwaitRetirement(r) \/ WaitForTtl(r)
  \/ End(r) \/ EndReset(r)

Storage  == Flush \/ FlushFails
Operator == AddDs \/ RemoveDs \/ ReaddDs

Next ==
  \/ \E r \in Runners : Request(r) \/ Step(r)
  \/ Storage \/ Operator \/ SyncSecondary \/ EditZone \/ Tick \/ Crash \/ Boot

Spec == Init /\ [][Next]_vars

-----------------------------------------------------------------------------
(* Safety.                                                                 *)

KeySet == [old : {"active", "inactive", "absent"}, extra : BOOLEAN,
           new : {"absent", "hidden", "published", "active"}]
Operation == [st : Status, base : KeySet, target : KeySet, serial : Nat, since : Nat]

TypeOK ==
  /\ keys \in KeySet /\ serial \in Nat /\ secondary \in [serial : Nat, keys : KeySet]
  /\ ds \in DsSets /\ seen \in [DsSets -> Int] /\ now \in Nat /\ published \in Nat
  /\ mem \in Operation /\ disk \in Operation
  /\ queue \in Seq([by : Runners, op : Operation]) /\ broken \in BOOLEAN /\ up \in BOOLEAN
  /\ at \in [Runners -> {"idle", "run", "changing", "changed", "writing"}]
  /\ own \in [Runners -> Operation] /\ happened \subseteq Disturbances

\* Whoever validates the zone with a DS set that is published, or that may still
\* be cached, finds an active key for it: the old key goes only when nobody needs
\* it any more, whatever overlapped, crashed or was repeated; and an operation
\* recorded as succeeded left the new key alone in charge.
DelegationSurvives ==
  /\ \A d \in DsSets : Cached(d) =>
       \/ "old" \in d /\ keys.old = "active"
       \/ "new" \in d /\ keys.new = "active"
  /\ "succeeded" \in {mem.st, disk.st} => keys.old = "absent" /\ keys.new = "active"

\* A key is changed only after the intent is on disk, so that a restart finds it:
\* unless the write is still queued, for another request reads the stage before it
\* is durable, or has failed; and the old key only in the stages that retire it.  A
\* request that read the first stage late may fail the operation another one drives.
IntentIsDurable ==
  [][keys' # keys /\ queue = <<>> /\ ~broken =>
       /\ disk.st \notin {"none", "pending"}
       /\ keys'.old # keys.old =>
            disk.st \in {"deactivating_old_key", "deleting_old_key"} \cup Terminal]_vars

\* The new key is activated only when every name server serves it and it has been
\* published for a TTL; also again, after a late request to publish has made an active
\* key inactive.
ActivatedWhenServed ==
  [][keys.new # "active" /\ keys'.new = "active" =>
       secondary.keys.new \in {"published", "active"} /\ now >= published + KeyTtl]_vars

-----------------------------------------------------------------------------
(* Liveness.                                                               *)

\* The API runs, the administrator continues the operation, the DNS operator does
\* what the operation waits for, the secondaries transfer the zone, time passes.
Fairness ==
  /\ \A r \in Runners : WF_vars(Step(r)) /\ WF_vars(Continue(r))
  /\ WF_vars(Storage) /\ WF_vars(AddDs) /\ WF_vars(RemoveDs)
  /\ WF_vars(SyncSecondary) /\ WF_vars(Tick) /\ WF_vars(Boot)

FairSpec == Spec /\ Fairness

\* The keys are neither what the journalled stage starts from nor what it aims at:
\* two requests created a key each, or one acted on a stage the other had not yet
\* written when the API died, or published the key that was active by then.  No request
\* goes on from there.
Overtaken ==
  /\ mem.st \in Started
  /\ keys # mem.base /\ (mem.st \in Changes => keys # TargetOf(mem))

\* The zone was edited after the publication was journalled and before its propagation
\* was verified: the journalled serial is never served again.
Edited == mem.st = "verifying_dnskey_propagation" /\ serial # mem.serial

\* A started rollover ends, unless overlapping requests overtake the journal, the
\* zone is edited while the propagation is verified or a write of the journal fails.
RolloverFinishes ==
  disk.st = "pending" ~> mem.st \in Terminal \/ [](Overtaken \/ Edited \/ broken)

=============================================================================
