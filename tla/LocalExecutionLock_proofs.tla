----------------------- MODULE LocalExecutionLock_proofs -----------------------
(***************************************************************************)
(* Proofs about LocalExecutionLock, for every set of pids and every bound. *)
(***************************************************************************)
EXTENDS LocalExecutionLock, TLAPS

\* Every step keeps the state typed.
LEMMA TypeStep ==
  ASSUME TypeOK, [Next]_vars
  PROVE  TypeOK'
<1> USE DEF TypeOK, Record, Goto, Forget
<1>1. ASSUME NEW p \in Pids, Start(p) PROVE TypeOK'
  BY <1>1, LockAssumption DEF Start, Alive
<1>2. ASSUME NEW p \in Pids, Create(p) PROVE TypeOK'
  <2>1. CASE /\ life' = [life EXCEPT ![p] = @ + 1] /\ file' = [pid |-> p, life |-> life'[p], whole |-> FALSE]
             /\ Goto(p, "writing") /\ Forget(p)
    <3>1. life' \in [Pids -> Nat] /\ life'[p] \in Nat
      BY <2>1
    <3>2. file' \in Record
      BY <2>1, <3>1
    <3>3. Goto(p, "writing") /\ Forget(p) /\ UNCHANGED <<crashes, raced>>
      BY <1>2, <2>1 DEF Create
    <3> QED BY <2>1, <3>1, <3>2, <3>3
  <2>2. CASE UNCHANGED <<file, life, attempt, seen>> /\ Goto(p, "exists")
    BY <1>2, <2>2 DEF Create
  <2> QED BY <1>2, <2>1, <2>2 DEF Create
<1>3. ASSUME NEW p \in Pids, Write(p) PROVE TypeOK'
  BY <1>3, LockAssumption DEF Write, Mine
<1>4. ASSUME NEW p \in Pids, Stat(p) PROVE TypeOK'
  BY <1>4, LockAssumption DEF Stat, UnlinkPath
<1>5. ASSUME NEW p \in Pids, Read(p) PROVE TypeOK'
  BY <1>5, LockAssumption DEF Read
<1>6. ASSUME NEW p \in Pids, Judge(p) PROVE TypeOK'
  BY <1>6, LockAssumption DEF Judge, Alive
<1>7. ASSUME NEW p \in Pids, Unlink(p) PROVE TypeOK'
  BY <1>7, LockAssumption DEF Unlink, UnlinkPath
<1>8. ASSUME NEW p \in Pids, Release(p) PROVE TypeOK'
  BY <1>8, LockAssumption DEF Release, Mine
<1>9. ASSUME NEW p \in Pids, Unlock(p) PROVE TypeOK'
  BY <1>9, LockAssumption DEF Unlock, UnlinkPath
<1>10. ASSUME NEW p \in Pids, Exit(p) PROVE TypeOK'
  BY <1>10, LockAssumption DEF Exit
<1>11. ASSUME NEW p \in Pids, Crash(p) PROVE TypeOK'
  BY <1>11, LockAssumption DEF Crash, Alive
<1>12. CASE UNCHANGED vars
  BY <1>12 DEF vars
<1> QED BY <1>1, <1>2, <1>3, <1>4, <1>5, <1>6, <1>7, <1>8, <1>9, <1>10, <1>11, <1>12 DEF Next, Acquire

\* Every step keeps the ownership argument.
LEMMA LockStep ==
  ASSUME LockInv, TypeOK', [Next]_vars
  PROVE  Ownership'
<1> USE LockAssumption DEF LockInv, Ownership, TypeOK, Record, Goto, Owning, IsOwn, Forget
<1>1. ASSUME NEW p \in Pids, Start(p) PROVE Ownership'
  BY <1>1 DEF Start, Alive
<1>2. ASSUME NEW p \in Pids, Create(p) PROVE Ownership'
  <2>1. CASE /\ life' = [life EXCEPT ![p] = @ + 1] /\ file' = [pid |-> p, life |-> life'[p], whole |-> FALSE]
             /\ file = NoFile /\ Goto(p, "writing") /\ Forget(p) /\ UNCHANGED raced
    <3>1. /\ life'[p] = life[p] + 1 /\ life[p] \in Nat
          /\ \A q \in Pids \ {p} : life'[q] = life[q] /\ pc'[q] = pc[q]
          /\ \A q \in Pids : seen'[q] # NoFile => q # p /\ seen'[q] = seen[q]
      BY <2>1
    <3>2. file'.life <= life'[file'.pid]
      BY <2>1, <3>1
    <3>3. \A q \in Pids : seen'[q] # NoFile => seen'[q].life <= life'[seen'[q].pid]
      BY <2>1, <3>1
    <3>4. ASSUME NEW q \in Pids, pc'[q] = "stale"
          PROVE  (seen[q].life < life[seen[q].pid] \/ ~Owning(seen[q].pid))'
      <4>1. pc[q] = "stale" /\ q # p /\ seen'[q] = seen[q] /\ seen[q] \in Record
        BY <2>1, <3>1, <3>4
      <4>2. CASE seen[q].pid = p
        BY <3>1, <4>1, <4>2
      <4>3. CASE seen[q].pid # p
        <5>1. seen[q].pid \in Pids \ {p}
          BY <4>1, <4>3
        <5>2. life'[seen[q].pid] = life[seen[q].pid] /\ pc'[seen[q].pid] = pc[seen[q].pid]
          BY <3>1, <5>1
        <5>3. seen[q].life < life[seen[q].pid] \/ ~Owning(seen[q].pid)
          BY <4>1
        <5> QED BY <4>1, <5>2, <5>3
      <4> QED BY <4>2, <4>3
    <3>5. raced' \/ \A q \in Pids : Owning(q)' => IsOwn(q)'
      <4>1. ASSUME ~raced, NEW q \in Pids \ {p} PROVE ~Owning(q)'
        BY <2>1, <3>1, <4>1
      <4>2. IsOwn(p)'
        <5>1. file' \in Record /\ file'.pid = p /\ file'.life = life'[p]
          BY <2>1, <3>1
        <5> QED BY <5>1
      <4> QED BY <2>1, <4>1, <4>2
    <3>6. ASSUME NEW q \in Pids, seen'[q] # NoFile, seen'[q].pid = file'.pid, seen'[q].life = file'.life
          PROVE  FALSE
      <4>1. seen[q] = seen'[q] /\ seen[q].pid = p /\ seen[q].life = life'[p]
          BY <2>1, <3>1, <3>6
      <4> QED BY <3>1, <3>6, <4>1
    <3> QED BY <3>2, <3>3, <3>4, <3>5, <3>6
  <2>2. CASE UNCHANGED <<file, life, attempt, seen, raced>> /\ Goto(p, "exists")
    BY <1>2, <2>2
  <2> QED BY <1>2, <2>1, <2>2 DEF Create
<1>3. ASSUME NEW p \in Pids, Write(p) PROVE Ownership'
  <2>1. \A q \in Pids : IsOwn(q)' <=> IsOwn(q)
    <3>1. Mine(p) \in Record /\ Mine(p).pid = p /\ Mine(p).life = life[p]
      BY DEF Mine
    <3>2. CASE IsOwn(p)
      BY <1>3, <3>1, <3>2 DEF Write
    <3>3. CASE ~IsOwn(p)
      BY <1>3, <3>3 DEF Write
    <3> QED BY <3>2, <3>3
  <2>2. \A q \in Pids : Owning(q)' <=> Owning(q)
    BY <1>3 DEF Write
  <2>3. file' # NoFile => file'.life <= life'[file'.pid]
    BY <1>3 DEF Write, Mine
  <2>4. UNCHANGED <<life, seen, raced>> /\ \A q \in Pids : pc'[q] = "stale" => pc[q] = "stale"
    BY <1>3 DEF Write
  <2>5. file = NoFile <=> file' = NoFile
    <3>1. Mine(p) \in Record
      BY DEF Mine
    <3> QED BY <1>3, <3>1 DEF Write
  <2>6. file' # NoFile => file'.pid = file.pid /\ file'.life = file.life /\ (file.whole => file'.whole)
    BY <1>3 DEF Write, Mine
  <2> QED BY <2>1, <2>2, <2>3, <2>4, <2>5, <2>6
<1>4. ASSUME NEW p \in Pids, Stat(p) PROVE Ownership'
  BY <1>4 DEF Stat, UnlinkPath, Mine
<1>5. ASSUME NEW p \in Pids, Read(p) PROVE Ownership'
  BY <1>5 DEF Read
<1>6. ASSUME NEW p \in Pids, Judge(p) PROVE Ownership'
  BY <1>6 DEF Judge, Alive
<1>7. ASSUME NEW p \in Pids, Unlink(p) PROVE Ownership'
  <2>1. /\ UNCHANGED life /\ file' = NoFile
        /\ \A q \in Pids : Owning(q)' => Owning(q)
        /\ \A q \in Pids : seen'[q] # NoFile => seen'[q] = seen[q]
    BY <1>7 DEF Unlink, UnlinkPath
  <2>2. ASSUME ~raced', NEW q \in Pids, Owning(q) PROVE FALSE
    <3>1. IsOwn(q) /\ [file EXCEPT !.whole = TRUE] = seen[p]
      BY <1>7, <2>2 DEF Unlink, UnlinkPath
    <3>2. seen[p].pid = q /\ seen[p].life = life[q]
      BY <3>1
    <3> QED BY <1>7, <2>2, <3>2 DEF Unlink
  <2>3. \A q \in Pids : pc'[q] = "stale" => pc[q] = "stale" /\ seen'[q] = seen[q] /\ seen[q] \in Record
    BY <1>7 DEF Unlink
  <2> QED BY <2>1, <2>2, <2>3
<1>8. ASSUME NEW p \in Pids, Release(p) PROVE Ownership'
  BY <1>8 DEF Release, Mine
<1>9. ASSUME NEW p \in Pids, Unlock(p) PROVE Ownership'
  BY <1>9 DEF Unlock, UnlinkPath, Mine
<1>10. ASSUME NEW p \in Pids, Exit(p) PROVE Ownership'
  BY <1>10 DEF Exit
<1>11. ASSUME NEW p \in Pids, Crash(p) PROVE Ownership'
  BY <1>11 DEF Crash, Alive
<1>12. CASE UNCHANGED vars
  BY <1>12 DEF vars
<1> QED BY <1>1, <1>2, <1>3, <1>4, <1>5, <1>6, <1>7, <1>8, <1>9, <1>10, <1>11, <1>12 DEF Next, Acquire

\* The invariant holds initially and every step preserves it.
LEMMA Invariant == Spec => []LockInv
<1>1. Init => LockInv
  <2>1. Init => TypeOK
    <3>1. Init => file \in Record \cup {NoFile} /\ crashes \in Nat /\ raced \in BOOLEAN
      BY LockAssumption DEF Init
    <3>2. Init => /\ life \in [Pids -> Nat] /\ attempt \in [Pids -> Nat]
                  /\ seen \in [Pids -> Record \cup {NoFile}]
      BY DEF Init
    <3> QED BY <3>1, <3>2 DEF Init, TypeOK
  <2> QED BY <2>1 DEF Init, LockInv, Ownership, Owning
<1>2. LockInv /\ [Next]_vars => LockInv'
  BY TypeStep, LockStep DEF LockInv
<1> QED BY <1>1, <1>2, PTL DEF Spec

\* The lock is exclusive until an unlink hits another record than the one that
\* was checked: no crash, restart or reused pid alone gives it to two processes.
THEOREM ExclusionOnlyLostByRace == Spec => []ExclusiveUnlessRaced
<1>1. LockInv => ExclusiveUnlessRaced
  BY DEF LockInv, Ownership, ExclusiveUnlessRaced, OneHolder, Owning, IsOwn
<1> QED BY <1>1, Invariant, PTL

\* A half-written lock of a dead process is never removed, except by that race.
THEOREM UnreadableLockFailsClosed == Spec => FailsClosed
<1> DEFINE Closed == file # NoFile /\ ~file.whole /\ ~Alive(file.pid) => file' = file \/ raced'
<1>1. LockInv /\ [Next]_vars => [Closed]_vars
  <2> SUFFICES ASSUME LockInv, Next, file # NoFile, ~file.whole, ~Alive(file.pid), ~raced'
               PROVE  file' = file
    OBVIOUS
  <2> USE DEF LockInv, TypeOK, Record, Alive
  <2>1. ASSUME NEW p \in Pids, Stat(p) PROVE file' = file
    BY <2>1 DEF Stat, UnlinkPath, Mine
  <2>2. ASSUME NEW p \in Pids, Unlink(p) PROVE file' = file
    <3>1. [file EXCEPT !.whole = TRUE] = seen[p] /\ seen[p] # NoFile
      BY <2>2 DEF Unlink, UnlinkPath
    <3>2. seen[p].pid = file.pid /\ seen[p].life = file.life
      BY <3>1
    <3> QED BY <3>1, <3>2 DEF Ownership
  <2>3. ASSUME NEW p \in Pids, Unlock(p) PROVE file' = file
    BY <2>3 DEF Unlock, UnlinkPath, Mine
  <2>4. ASSUME NEW p \in Pids, Write(p) PROVE file' = file
    BY <2>4 DEF Write, IsOwn
  <2> QED
    BY <2>1, <2>2, <2>3, <2>4
       DEF Next, Acquire, Start, Create, Read, Judge, Release, Exit, Crash
<1> QED BY <1>1, Invariant, PTL DEF Spec, FailsClosed

=============================================================================
