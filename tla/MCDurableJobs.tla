---------------------------- MODULE MCDurableJobs ----------------------------
(***************************************************************************)
(* Instances of DurableJobs for TLC.                                       *)
(***************************************************************************)
EXTENDS DurableJobs

CONSTANTS activate, again, compose, inspect, domain, project, server, key

\* again works on the project of compose, and reuses the idempotency key of activate:
\* whichever of the two is enqueued first is the job of that key.  Its operation has
\* lost its handler, and its goal can be seen on the host.  inspect only reads.
MCResourceOf == [j \in Jobs |-> CASE j = activate -> domain
                                  [] j = inspect  -> server
                                  [] OTHER -> project]
MCKeyOf      == [j \in Jobs |-> IF j \in {activate, again} THEN key ELSE NoKey]

=============================================================================
