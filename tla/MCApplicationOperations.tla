----------------------- MODULE MCApplicationOperations -----------------------
(* Instances of ApplicationOperations for TLC. *)
EXTENDS ApplicationOperations, TLC

CONSTANTS c1, c2

ClientSymmetry == Permutations({c1, c2})

=============================================================================
