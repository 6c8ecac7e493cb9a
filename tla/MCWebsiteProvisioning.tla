------------------------ MODULE MCWebsiteProvisioning ------------------------
(***************************************************************************)
(* Instances of WebsiteProvisioning for TLC.                               *)
(***************************************************************************)
EXTENDS WebsiteProvisioning, TLC

CONSTANTS r1, r2, r3

RequestSymmetry == Permutations(Requests)

=============================================================================
