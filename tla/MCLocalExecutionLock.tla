------------------------- MODULE MCLocalExecutionLock -------------------------
(***************************************************************************)
(* Instances of LocalExecutionLock for TLC.                                *)
(***************************************************************************)
EXTENDS LocalExecutionLock

CONSTANTS p1, p2, p3

\* One pid is reused, so that an old record may name a live process.
MCMaxLives == [p \in Pids |-> IF p = p1 THEN 2 ELSE 1]

=============================================================================
