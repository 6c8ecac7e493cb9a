-------------------------- MODULE LocalExecutionLock --------------------------
(***************************************************************************)
(* acquireLocalExecutionLock: the lock file that gives one API process of  *)
(* a host the right to run the local executor.                             *)
(*                                                                         *)
(* Several processes race on one path with the file system calls the code  *)
(* makes, one call per step: exclusive create, write, stat, read, signal,  *)
(* unlink.  A process is named by its pid, and pids are reused; life[p]    *)
(* counts the records made under pid p and stands for the random token.    *)
(*                                                                         *)
(* An I/O error makes the call throw and the API exit with the file as it  *)
(* is, which is a Crash here.                                              *)
(***************************************************************************)
EXTENDS Naturals

CONSTANTS
  Pids,        \* process ids of the host
  Managed,     \* pids under which the service manager is sure to start the API
  NoFile,      \* the path does not exist
  MaxLives,    \* bound: how many lock records each pid creates
  MaxCrashes   \* bound: processes that die without releasing

Record == [pid : Pids, life : Nat, whole : BOOLEAN]

ASSUME LockAssumption ==
  MaxLives \in [Pids -> Nat] /\ MaxCrashes \in Nat /\ NoFile \notin Record /\ Managed \subseteq Pids

VARIABLES
  file,      \* the lock file: NoFile or its record
  pc,        \* where each process stands in the protocol
  life,      \* how many records each pid has created: the token of the last one
  attempt,   \* loop counter of the acquisition
  seen,      \* the record the process read from an existing lock
  crashes,   \* remaining budget
  raced      \* history: some unlink removed another record than the one checked

vars == <<file, pc, life, attempt, seen, crashes, raced>>

Mine(p) == [pid |-> p, life |-> life[p], whole |-> TRUE]

Alive(p)   == pc[p] # "off"
IsOwn(p)   == file # NoFile /\ file.pid = p /\ file.life = life[p]
Goto(p, s) == pc' = [pc EXCEPT ![p] = s]

\* unlink(path), of whatever is there by now; the caller checked `checked'.
UnlinkPath(checked) ==
  /\ file' = NoFile
  /\ raced' = (raced \/ (file # NoFile /\ [file EXCEPT !.whole = TRUE] # checked))

\* The variables of the acquisition are gone when it is over.
Forget(p) ==
  attempt' = [attempt EXCEPT ![p] = 0] /\ seen' = [seen EXCEPT ![p] = NoFile]

\* An API process starts and asks for the lock.
Start(p) ==
  /\ ~Alive(p) /\ Goto(p, "create")
  /\ UNCHANGED <<file, life, attempt, seen, crashes, raced>>

\* open(path, "wx"): exclusive, but still empty when it succeeds.
Create(p) ==
  /\ pc[p] = "create"
  /\ \/ /\ file = NoFile /\ life[p] < MaxLives[p] /\ Goto(p, "writing")
        /\ life' = [life EXCEPT ![p] = @ + 1] /\ Forget(p)
        /\ file' = [pid |-> p, life |-> life'[p], whole |-> FALSE]
     \/ file # NoFile /\ Goto(p, "exists") /\ UNCHANGED <<file, life, attempt, seen>>
  /\ UNCHANGED <<crashes, raced>>

\* The record goes to the open file, wherever its name is by now.
Write(p) ==
  /\ pc[p] = "writing" /\ Goto(p, "stat")
  /\ file' = IF IsOwn(p) THEN Mine(p) ELSE file
  /\ UNCHANGED <<life, attempt, seen, crashes, raced>>

\* stat(path): a missing file or one that others may read refuses the lock.
Stat(p) ==
  /\ pc[p] = "stat"
  /\ \/ file # NoFile /\ Goto(p, "held") /\ UNCHANGED <<file, raced>>
     \/ file # NoFile /\ Goto(p, "off") /\ UnlinkPath(Mine(p))
     \/ file = NoFile /\ Goto(p, "off") /\ UNCHANGED <<file, raced>>
  /\ UNCHANGED <<life, attempt, seen, crashes>>

\* Faulty variant: an unreadable record counts as that of a dead process.
ReadAny(p) ==
  /\ pc[p] = "exists"
  /\ IF file # NoFile
       THEN /\ Goto(p, "judging") /\ UNCHANGED attempt
            /\ seen' = [seen EXCEPT ![p] = [file EXCEPT !.whole = TRUE]]
       ELSE Goto(p, "off") /\ Forget(p)
  /\ UNCHANGED <<file, life, crashes, raced>>

\* readExisting: a missing or unreadable record refuses the lock.
Read(p) ==
  /\ pc[p] = "exists"
  /\ IF file # NoFile /\ file.whole
       THEN Goto(p, "judging") /\ seen' = [seen EXCEPT ![p] = file] /\ UNCHANGED attempt
       ELSE Goto(p, "off") /\ Forget(p)
  /\ UNCHANGED <<file, life, crashes, raced>>

\* Faulty variants: the signal's answer is ignored; every pid counts as alive.
JudgeStale(p) ==
  /\ pc[p] = "judging" /\ Goto(p, "stale")
  /\ UNCHANGED <<file, life, attempt, seen, crashes, raced>>

JudgeAlive(p) ==
  /\ pc[p] = "judging" /\ Goto(p, "off") /\ Forget(p)
  /\ UNCHANGED <<file, life, crashes, raced>>

\* processAlive: a lock whose process lives refuses.
Judge(p) ==
  /\ pc[p] = "judging"
  /\ IF Alive(seen[p].pid) THEN Goto(p, "off") /\ Forget(p)
                            ELSE Goto(p, "stale") /\ UNCHANGED <<attempt, seen>>
  /\ UNCHANGED <<file, life, crashes, raced>>

\* The stale lock is unlinked and the loop goes round once more.
Unlink(p) ==
  /\ pc[p] = "stale"
  /\ UnlinkPath(seen[p])
  /\ IF attempt[p] = 0 THEN Goto(p, "create") /\ attempt' = [attempt EXCEPT ![p] = 1]
                       ELSE Goto(p, "off") /\ attempt' = [attempt EXCEPT ![p] = 0]
  /\ seen' = [seen EXCEPT ![p] = NoFile] /\ UNCHANGED <<life, crashes>>

\* release, after the executor has stopped: the record is compared ...
Release(p) ==
  /\ pc[p] = "held"
  /\ Goto(p, IF file = Mine(p) THEN "releasing" ELSE "released")
  /\ UNCHANGED <<file, life, attempt, seen, crashes, raced>>

\* ... and then unlinked.
Unlock(p) ==
  /\ pc[p] = "releasing" /\ UnlinkPath(Mine(p))
  /\ Goto(p, "released") /\ UNCHANGED <<life, attempt, seen, crashes>>

\* A released process may live on: after a fault the API serves without executor.
Exit(p) ==
  /\ pc[p] = "released" /\ Goto(p, "off")
  /\ UNCHANGED <<file, life, attempt, seen, crashes, raced>>

Crash(p) ==
  /\ Alive(p) /\ crashes > 0 /\ crashes' = crashes - 1
  /\ Goto(p, "off") /\ Forget(p) /\ UNCHANGED <<file, life, raced>>

Init ==
  /\ file = NoFile /\ pc = [p \in Pids |-> "off"]
  /\ life = [p \in Pids |-> 0] /\ attempt = [p \in Pids |-> 0]
  /\ seen = [p \in Pids |-> NoFile] /\ crashes = MaxCrashes /\ raced = FALSE

Acquire(p) == Create(p) \/ Write(p) \/ Stat(p) \/ Read(p) \/ Judge(p) \/ Unlink(p)

Next == \E p \in Pids : Start(p) \/ Acquire(p) \/ Release(p) \/ Unlock(p) \/ Exit(p) \/ Crash(p)

Spec == Init /\ [][Next]_vars

\* Every call the code makes returns; the service manager starts what is down
\* and an API without executor is restarted, but no pid outside Managed need
\* ever be used again.
FairSpec ==
  /\ Spec
  /\ \A p \in Pids : WF_vars(Acquire(p)) /\ WF_vars(Unlock(p))
  /\ \A p \in Managed : WF_vars(Start(p)) /\ WF_vars(Exit(p))

-----------------------------------------------------------------------------
TypeOK ==
  /\ file \in Record \cup {NoFile}
  /\ pc \in [Pids -> {"off", "create", "writing", "stat", "exists", "judging", "stale",
                      "held", "releasing", "released"}]
  /\ life \in [Pids -> Nat] /\ attempt \in [Pids -> Nat]
  /\ seen \in [Pids -> Record \cup {NoFile}]
  /\ \A p \in Pids : pc[p] \in {"judging", "stale"} => seen[p] # NoFile
  /\ crashes \in Nat /\ raced \in BOOLEAN

\* One process runs the executor at a time.  docs/local-executor-safety.md calls
\* the lock exclusive; it is not once two processes find a stale lock.
OneHolder == \A p, q \in Pids : pc[p] = "held" /\ pc[q] = "held" => p = q

\* The window between checking a record and unlinking the path is the only way
\* to lose exclusion, whatever crashes, restarts and reused pids come about.
ExclusiveUnlessRaced == raced \/ OneHolder

\* Why: while no race has happened a process between its create and its unlink
\* owns the file, and whoever is about to unlink has seen a record that is over.
Owning(p) == pc[p] \in {"writing", "stat", "held", "releasing"}

Ownership ==
  /\ file # NoFile => file.life <= life[file.pid]
  /\ \A q \in Pids : seen[q] # NoFile => seen[q].life <= life[seen[q].pid]
  /\ \A q \in Pids : seen[q] # NoFile /\ file # NoFile =>
       (seen[q].pid = file.pid /\ seen[q].life = file.life => file.whole)
  /\ \A q \in Pids : pc[q] = "stale" =>
       seen[q].life < life[seen[q].pid] \/ ~Owning(seen[q].pid)
  /\ raced \/ \A p \in Pids : Owning(p) => IsOwn(p)

LockInv == TypeOK /\ Ownership

\* A lock whose record is not readable is never taken over, except by that race.
FailsClosed ==
  [][file # NoFile /\ ~file.whole /\ ~Alive(file.pid) => file' = file \/ raced']_vars

\* A readable lock left by a dead process does not block the host: it goes away
\* or some process holds the lock, unless the dead pid is in use again.
StaleLockDoesNotBlock ==
  \A p \in Pids :
    file # NoFile /\ file.pid = p /\ file.whole /\ ~Alive(p)
      ~> \/ file # NoFile => file.pid # p
         \/ \E q \in Pids : pc[q] = "held"
         \/ Alive(p)

=============================================================================
