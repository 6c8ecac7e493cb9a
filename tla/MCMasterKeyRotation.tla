-------------------------- MODULE MCMasterKeyRotation --------------------------
(* Instances of MasterKeyRotation for TLC. *)
EXTENDS MasterKeyRotation

=============================================================================
