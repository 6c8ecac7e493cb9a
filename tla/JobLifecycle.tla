---------------------------- MODULE JobLifecycle ----------------------------
(***************************************************************************)
(* What the durable job queue promises, without files, processes, crashes  *)
(* or journals: a serial server.  A job is submitted, possibly withdrawn,  *)
(* taken, started, settled with a result, and its result is delivered to   *)
(* the resource registries.  While one job is taken no other one is, and   *)
(* every earlier result has been delivered.  Nothing happens twice, except *)
(* that a read-only job may be started again and needs no delivery.  A job *)
(* settles only after it was started; one whose final state proves it may  *)
(* also be found done.                                                     *)
(***************************************************************************)
CONSTANTS
  Jobs,         \* job identities
  ResourceOf,   \* the resource a job works on
  ReadOnly,     \* jobs that only inspect the host
  Provable      \* jobs whose final state on the host proves their success

VARIABLES
  status,       \* what the queue says of each job
  started,      \* jobs whose host operation was started
  delivered     \* jobs whose result reached the resource registries

lifecycleVars == <<status, started, delivered>>

Settled(j) ==
  /\ status[j] # "running"
  /\ status[j] \in {"succeeded", "failed"} => j \in delivered \cup ReadOnly

Move(j, from, to) ==
  status[j] = from /\ status' = [status EXCEPT ![j] = to]

Submit(j) ==
  /\ \A k \in Jobs : status[k] \in {"queued", "running"} => ResourceOf[k] # ResourceOf[j]
  /\ Move(j, "absent", "queued") /\ UNCHANGED <<started, delivered>>

Withdraw(j) == Move(j, "queued", "cancelled") /\ UNCHANGED <<started, delivered>>

Take(j) ==
  /\ \A k \in Jobs : Settled(k)
  /\ Move(j, "queued", "running") /\ UNCHANGED <<started, delivered>>

Start(j) ==
  /\ status[j] = "running" /\ j \notin started
  /\ started' = started \cup {j} /\ UNCHANGED <<status, delivered>>

Settle(j) ==
  /\ j \in started
  /\ Move(j, "running", "succeeded") \/ Move(j, "running", "failed")
  /\ UNCHANGED <<started, delivered>>

FindDone(j) ==
  /\ j \in Provable
  /\ Move(j, "running", "succeeded") /\ UNCHANGED <<started, delivered>>

Deliver(j) ==
  /\ status[j] \in {"succeeded", "failed"}
  /\ delivered' = delivered \cup {j} /\ UNCHANGED <<status, started>>

LifecycleInit ==
  status = [j \in Jobs |-> "absent"] /\ started = {} /\ delivered = {}

LifecycleNext ==
  \E j \in Jobs : \/ Submit(j) \/ Withdraw(j) \/ Take(j) \/ Start(j)
                  \/ Settle(j) \/ FindDone(j) \/ Deliver(j)

LifecycleSpec == LifecycleInit /\ [][LifecycleNext]_lifecycleVars

=============================================================================
