--------------------------- MODULE MCDnssecRollover ---------------------------
(* Instances of DnssecRollover for TLC. *)
EXTENDS DnssecRollover

CONSTANTS r1, r2

=============================================================================
