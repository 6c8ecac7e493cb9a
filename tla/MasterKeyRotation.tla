--------------------------- MODULE MasterKeyRotation ---------------------------
(***************************************************************************)
(* The offline rotation of the secret master key and its rollback          *)
(* (secret-master-key-rotation.js): the authentication database in WAL     *)
(* mode, three JSON stores that may be absent, the backup directory and    *)
(* its manifest, a command that may fail or die at any step, and the       *)
(* operator who follows docs/secret-master-key-rotation.md.                *)
(*                                                                         *)
(* A store's content is the key its secrets are wrapped with and the       *)
(* number of changes made to it.  SQLite makes a commit atomic; a backup,  *)
(* a replacement and a restoration of one file are atomic renames.         *)
(***************************************************************************)
EXTENDS Integers, Sequences, Functions

CONSTANTS
  MaxEdits,      \* bound: changes made through the API
  Disturbances,  \* which may happen: "crash", "fault", "damage", "straggler"
  MaxDisturbed   \* bound: disturbances together

ASSUME RotationAssumption ==
  /\ MaxEdits \in Nat /\ MaxDisturbed \in Nat
  /\ Disturbances \subseteq {"crash", "fault", "damage", "straggler"}

FileOrder == <<"env", "dns", "mail">>
Files     == Range(FileOrder)
Stores    == Files \cup {"auth"}

VARIABLES
  file,       \* the JSON stores
  db, wal,    \* the database file and its write-ahead log
  backup,     \* the backup directory's copies
  manifest,   \* its manifest: status, the files that existed, the hashes
  at, todo,   \* the command: its phase, the stores left in this phase
  had,        \* the files the command found
  text,       \* the contents it read
  locked,     \* its exclusive transaction is open
  replaced,   \* the files it replaced and has not restored
  api,        \* the API: "stopped", or the key it runs with
  undoing,    \* the operator's rollback: "no", "asked" or "begun" to restore
  edits,      \* per store: changes made
  unseen,     \* a change the command cannot notice
  disturbed   \* disturbances so far

stores  == <<file, db, wal>>
copies  == <<backup, manifest>>
command == <<at, todo, had, text, locked, replaced>>
world   == <<api, undoing, edits, unseen>>
vars    == <<stores, copies, command, world, disturbed>>

Disturb(kind) == kind \in Disturbances /\ disturbed < MaxDisturbed /\ disturbed' = disturbed + 1

Wrapped(k, n) == [key |-> k, ver |-> n]
Absent  == Wrapped("none", 0)     \* no such file, or an empty log
Damaged == Wrapped("damaged", 0)

Content(s) == IF s # "auth" THEN file[s] ELSE IF wal = Absent THEN db ELSE wal

NoHashes   == [s \in Stores |-> Absent]
NoManifest == [st |-> "none", had |-> {}, hash |-> NoHashes]

InOrder(S) ==
  LET One(f) == IF f \in S THEN <<f>> ELSE <<>>
  IN One("env") \o One("dns") \o One("mail")

-----------------------------------------------------------------------------
(* rotateSecretMasterKey.                                                  *)

Phase(p, s) == at' = p /\ todo' = s

\* The next store of this phase, or the next phase with its stores.
Proceed(p, s) == IF Len(todo) > 1 THEN Phase(at, Tail(todo)) ELSE Phase(p, s)

At(phase) == at = phase

\* A new backup directory: one attempt.
Rotate ==
  /\ at = "idle" /\ api = "current" /\ manifest.st = "none" /\ had = {}
  /\ \A s \in Stores : backup[s] = Absent
  /\ api' = "stopped"
  /\ had' = {f \in Files : file[f] # Absent}
  /\ Phase("backup", <<"auth">> \o InOrder(had'))
  /\ UNCHANGED <<stores, copies, text, locked, replaced, undoing, edits, unseen, disturbed>>

Backup ==
  /\ At("backup")
  /\ backup' = [backup EXCEPT ![Head(todo)] = Content(Head(todo))]
  /\ Proceed("read", InOrder(had) \o <<"auth">>)
  /\ UNCHANGED <<stores, manifest, had, text, locked, replaced, world, disturbed>>

\* Every secret is rewrapped in memory.
Read ==
  /\ At("read")
  /\ text' = [text EXCEPT ![Head(todo)] = Content(Head(todo))]
  /\ Proceed("prepare", <<>>)
  /\ UNCHANGED <<stores, copies, had, locked, replaced, world, disturbed>>

Record(st) == manifest' = [st |-> st, had |-> had, hash |-> backup]

Prepare ==
  /\ At("prepare") /\ Record("prepared")
  /\ Phase("check", <<"auth">> \o InOrder(had))
  /\ UNCHANGED <<stores, backup, had, text, locked, replaced, world, disturbed>>

\* The catch branch: the transaction is rolled back, replaced files are restored.
Abort ==
  /\ locked' = FALSE
  /\ IF replaced = {} THEN Phase("report", <<>>) ELSE Phase("undo", InOrder(replaced))

\* Faulty variant: nothing is compared.
Overwrite ==
  /\ At("check")
  /\ locked' = TRUE
  /\ IF had = {} THEN Proceed("commit", <<>>) ELSE Proceed("replace", InOrder(had))
  /\ UNCHANGED <<stores, copies, had, text, replaced, world, disturbed>>

\* In the exclusive transaction each store is compared with what was read.
Check ==
  /\ At("check")
  /\ IF Content(Head(todo)) # text[Head(todo)] THEN Abort
     ELSE /\ locked' = TRUE
          /\ IF had = {} THEN Proceed("commit", <<>>) ELSE Proceed("replace", InOrder(had))
  /\ UNCHANGED <<stores, copies, had, text, replaced, world, disturbed>>

Replace ==
  /\ At("replace")
  /\ file' = [file EXCEPT ![Head(todo)] = Wrapped("next", text[Head(todo)].ver)]
  /\ replaced' = replaced \cup {Head(todo)}
  /\ Proceed("commit", <<>>)
  /\ UNCHANGED <<db, wal, copies, had, text, locked, world, disturbed>>

Commit ==
  /\ At("commit")
  /\ wal' = Wrapped("next", text["auth"].ver) /\ locked' = FALSE
  /\ Phase("finish", <<>>)
  /\ UNCHANGED <<file, db, copies, had, text, replaced, world, disturbed>>

Finish ==
  /\ At("finish") /\ Record("applied") /\ Phase("close", <<>>)
  /\ UNCHANGED <<stores, backup, had, text, locked, replaced, world, disturbed>>

\* Any step may fail; a file that was being replaced is as it was.
Fail ==
  /\ at \in {"backup", "read", "prepare", "check", "replace", "commit", "finish"}
  /\ Disturb("fault") /\ Abort
  /\ UNCHANGED <<stores, copies, had, text, replaced, world>>

\* A replaced file is restored, if that succeeds.
Undo ==
  /\ At("undo")
  /\ LET f == Head(todo) IN
     \/ /\ file' = [file EXCEPT ![f] = backup[f]] /\ replaced' = replaced \ {f}
        /\ UNCHANGED disturbed
     \/ Disturb("fault") /\ UNCHANGED <<file, replaced>>
  /\ Proceed("report", <<>>)
  /\ UNCHANGED <<db, wal, copies, had, text, locked, world>>

\* Faulty variant: a failure is a failure.
ReportFailed ==
  /\ At("report") /\ Record("failed") /\ Phase("close", <<>>)
  /\ UNCHANGED <<stores, backup, had, text, locked, replaced, world, disturbed>>

\* A manifest that cannot be written stays as it was.
Report ==
  /\ At("report") /\ Phase("close", <<>>)
  /\ \/ Record(IF replaced # {} THEN "rollback_required" ELSE "failed") /\ UNCHANGED disturbed
     \/ Disturb("fault") /\ UNCHANGED manifest
  /\ UNCHANGED <<stores, backup, had, text, locked, replaced, world>>

\* The last connection to close checkpoints the log; a process left over keeps it.
Close ==
  /\ At("close") /\ Phase("idle", <<>>)
  /\ \/ db' = Content("auth") /\ wal' = Absent
     \/ UNCHANGED <<db, wal>>
  /\ UNCHANGED <<file, copies, had, text, locked, replaced, world, disturbed>>

-----------------------------------------------------------------------------
(* rollbackSecretMasterKey.                                                *)

AskRollback == api' = "stopped" /\ undoing' = IF undoing = "no" THEN "asked" ELSE undoing

\* Faulty variant: only a rotation that was applied is rolled back.
RollBackApplied ==
  /\ at = "idle" /\ manifest.st = "applied"
  /\ AskRollback
  /\ Phase("verify", <<>>)
  /\ UNCHANGED <<stores, copies, had, text, locked, replaced, edits, unseen, disturbed>>

\* The operator stops the API; the manifest is found whatever its status.
RollBack ==
  /\ at = "idle" /\ manifest.st \notin {"none", "rolled_back"}
  /\ AskRollback
  /\ Phase("verify", <<>>)
  /\ UNCHANGED <<stores, copies, had, text, locked, replaced, edits, unseen, disturbed>>

Genuine == \A s \in manifest.had \cup {"auth"} : backup[s] = manifest.hash[s] /\ backup[s] # Absent

StartRestoring == Phase("restore", FileOrder \o <<"wal", "auth">>) /\ undoing' = "begun"

\* Faulty variant: the hashes are not compared.
TrustBackups ==
  /\ At("verify") /\ StartRestoring
  /\ UNCHANGED <<stores, copies, had, text, locked, replaced, api, edits, unseen, disturbed>>

\* All hashes are compared before anything is restored.
Verify ==
  /\ At("verify")
  /\ IF Genuine THEN StartRestoring
     ELSE Phase("idle", <<>>) /\ undoing' = IF undoing = "asked" THEN "no" ELSE undoing
  /\ UNCHANGED <<stores, copies, had, text, locked, replaced, api, edits, unseen, disturbed>>

RestoreFile(f) ==
  /\ file' = [file EXCEPT ![f] = IF f \in manifest.had THEN backup[f] ELSE Absent]
  /\ UNCHANGED <<db, wal>>

\* Faulty variant: the write-ahead log stays.
RestoreDatabaseFile ==
  /\ At("restore")
  /\ CASE Head(todo) \in Files  -> RestoreFile(Head(todo))
       [] Head(todo) = "wal"  -> UNCHANGED stores
       [] Head(todo) = "auth" -> db' = backup["auth"] /\ UNCHANGED <<file, wal>>
  /\ Proceed("restored", <<>>)
  /\ UNCHANGED <<copies, had, text, locked, replaced, world, disturbed>>

Restore ==
  /\ At("restore")
  /\ CASE Head(todo) \in Files  -> RestoreFile(Head(todo))
       [] Head(todo) = "wal"  -> wal' = Absent /\ UNCHANGED <<file, db>>
       [] Head(todo) = "auth" -> db' = backup["auth"] /\ UNCHANGED <<file, wal>>
  /\ Proceed("restored", <<>>)
  /\ UNCHANGED <<copies, had, text, locked, replaced, world, disturbed>>

RestoreFails ==
  /\ at \in {"restore", "restored"} /\ Disturb("fault")
  /\ Phase("idle", <<>>)
  /\ UNCHANGED <<stores, copies, had, text, locked, replaced, world>>

Restored ==
  /\ At("restored") /\ Phase("idle", <<>>)
  /\ manifest' = [manifest EXCEPT !.st = "rolled_back"] /\ undoing' = "no"
  /\ UNCHANGED <<stores, backup, had, text, locked, replaced, api, edits, unseen, disturbed>>

-----------------------------------------------------------------------------
(* The operator, the API and what may go wrong.                            *)

\* The key the manifest calls for; none while a rollback is called for.
CalledFor ==
  CASE manifest.st = "applied" -> "next"
    [] manifest.st \in {"none", "failed", "rolled_back"} -> "current"
    [] OTHER -> "neither"

StartApi ==
  /\ at = "idle" /\ api = "stopped" /\ undoing = "no" /\ CalledFor # "neither"
  /\ api' = CalledFor
  /\ UNCHANGED <<stores, copies, command, undoing, edits, unseen, disturbed>>

Change(s, k) ==
  /\ edits' = [edits EXCEPT ![s] = @ + 1]
  /\ IF s = "auth" THEN wal' = Wrapped(k, Content(s).ver + 1) /\ UNCHANGED <<file, db>>
     ELSE file' = [file EXCEPT ![s] = Wrapped(k, @.ver + 1)] /\ UNCHANGED <<db, wal>>

TotalEdits == edits["auth"] + edits["env"] + edits["dns"] + edits["mail"]

\* A change through the running API, to a store it can read.
Edit(s) ==
  /\ api # "stopped" /\ at = "idle" /\ TotalEdits < MaxEdits
  /\ Content(s).key \in {api, "none"} /\ Change(s, api)
  /\ UNCHANGED <<copies, command, api, undoing, unseen, disturbed>>

\* The API was not quite stopped: a change lands while the command works.  The
\* database waits for the transaction.
Straggler(s) ==
  /\ at \in {"backup", "read", "prepare", "check", "replace", "commit"}
  /\ Disturb("straggler") /\ (s = "auth" => ~locked)
  /\ Change(s, "current")
  /\ unseen' = (unseen \/ s \notin had \cup {"auth"}
                  \/ (at = "check" /\ s \notin Range(todo)) \/ at \in {"replace", "commit"})
  /\ UNCHANGED <<copies, command, api, undoing>>

Damage(s) ==
  /\ at = "idle" /\ backup[s] \notin {Absent, Damaged} /\ Disturb("damage")
  /\ backup' = [backup EXCEPT ![s] = Damaged]
  /\ UNCHANGED <<stores, manifest, command, world>>

Crash ==
  /\ at # "idle" /\ Disturb("crash")
  /\ Phase("idle", <<>>) /\ locked' = FALSE /\ replaced' = {}
  /\ UNCHANGED <<stores, copies, had, text, world>>

-----------------------------------------------------------------------------
Init ==
  /\ \E S \in SUBSET Files :
       file = [f \in Files |-> IF f \in S THEN Wrapped("current", 0) ELSE Absent]
  /\ db = Wrapped("current", 0) /\ wal = Absent
  /\ backup = NoHashes /\ manifest = NoManifest
  /\ at = "idle" /\ todo = <<>> /\ had = {} /\ text = NoHashes
  /\ locked = FALSE /\ replaced = {}
  /\ api = "current" /\ undoing = "no"
  /\ edits = [s \in Stores |-> 0] /\ unseen = FALSE /\ disturbed = 0

Rotation == Backup \/ Read \/ Prepare \/ Check \/ Replace \/ Commit \/ Finish \/ Undo \/ Report \/ Close
Rollback == Verify \/ Restore \/ Restored

Next ==
  \/ Rotate \/ Rotation \/ Fail \/ RollBack \/ Rollback \/ RestoreFails \/ StartApi \/ Crash
  \/ \E s \in Stores : Edit(s) \/ Straggler(s) \/ Damage(s)

Spec == Init /\ [][Next]_vars

-----------------------------------------------------------------------------
(* Safety.                                                                 *)

Contents == {Absent} \cup [key : {"current", "next"}, ver : Nat]

TypeOK ==
  /\ file \in [Files -> Contents] /\ db \in Contents \ {Absent} /\ wal \in Contents
  /\ backup \in [Stores -> Contents \cup {Damaged}]
  /\ manifest.st \in {"none", "prepared", "applied", "failed", "rollback_required", "rolled_back"}
  /\ manifest.had \subseteq Files /\ manifest.hash \in [Stores -> Contents]
  /\ todo \in Seq(Stores \cup {"wal"}) /\ text \in [Stores -> Contents]
  /\ had \subseteq Files /\ replaced \subseteq had
  /\ locked \in BOOLEAN /\ undoing \in {"no", "asked", "begun"} /\ unseen \in BOOLEAN
  /\ api \in {"stopped", "current", "next"} /\ edits \in [Stores -> Nat]

UsesKey(k) == \A s \in Stores : Content(s).key \in {k, "none"}
Mixed == ~UsesKey("current") /\ ~UsesKey("next")

\* The database was committed, but the manifest could not be: the files are restored
\* to the old key all the same and the rotation is recorded as failed.
CommitNotRecorded == manifest.st = "failed" /\ Content("auth").key = "next"

\* An API that is started with the key the manifest calls for can read every one of
\* the four stores, whichever step of the rotation or of its rollback failed or died,
\* but for CommitNotRecorded.
ApiReadsItsStores ==
  api # "stopped" /\ ~unseen /\ ~CommitNotRecorded => UsesKey(api)

\* As long as the stores are under two keys, the backup of every store that existed
\* is there, with its hash in a manifest, and is a copy under the old key.
MixedIsRecoverable ==
  Mixed /\ ~unseen =>
    /\ manifest.st # "none"
    /\ \A s \in manifest.had \cup {"auth"} :
         manifest.hash[s].key = "current" /\ backup[s] \in {manifest.hash[s], Damaged}

\* No secret becomes unreadable for good, nor for an API that may run.
NoSecretIsLost == ApiReadsItsStores /\ MixedIsRecoverable

\* A rollback that reports success has restored what was there: no store of the new
\* key is left, none was made of a damaged backup, and the log is not replayed.
RollbackRestores ==
  [][manifest.st # "rolled_back" /\ manifest'.st = "rolled_back" =>
       /\ \A f \in Files : file'[f] = IF f \in manifest.had THEN manifest.hash[f] ELSE Absent
       /\ Content("auth")' = manifest.hash["auth"]]_vars

\* A rotation that reports success has lost no change that was made before its check.
AppliedKeepsEdits ==
  [][manifest.st # "applied" /\ manifest'.st = "applied" /\ ~unseen =>
       \A s \in Stores : Content(s)' =
         IF s \in had \cup {"auth"} THEN Wrapped("next", edits[s]) ELSE Absent]_vars

-----------------------------------------------------------------------------
(* Liveness.                                                               *)

\* The commands run to their end; the operator repeats a rollback until it succeeds,
\* rolls back when the manifest calls for it, and does not put off starting the API.
RollBackWhenNeeded == RollBack /\ (undoing # "no" \/ (api = "stopped" /\ CalledFor = "neither"))

Fairness == WF_vars(Rotation) /\ WF_vars(Rollback) /\ WF_vars(RollBackWhenNeeded) /\ SF_vars(StartApi)

FairSpec == Spec /\ Fairness

\* A rotation, however it ends, leads back to an API that runs, unless a backup it
\* needs was damaged.
ServiceReturns ==
  at # "idle" ~> api # "stopped" \/ \E s \in Stores : backup[s] = Damaged

=============================================================================
