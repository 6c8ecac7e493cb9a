--------------------------- MODULE MCDomainRemoval ---------------------------
(* Instances of DomainRemoval for TLC. *)
EXTENDS DomainRemoval

CONSTANTS r1, r2

\* The order of buildSteps.
MCPlan == [
  root  |-> <<"routing_suspend", "child_domain", "certificate", "webmail_mapping",
              "external_dns_zone", "website_binding", "authoritative_dns",
              "metadata_finalization">>,
  child |-> <<"routing_suspend", "metadata_finalization">>]

=============================================================================
