--------------------------- MODULE MCTrustFabric ----------------------------
(***************************************************************************)
(* Instances of TrustFabric for TLC.  The evaluations: three strong        *)
(* signals of two sources or of one, and one weak signal, which does not   *)
(* move a score in whole points but takes the eligibility back.            *)
(***************************************************************************)
EXTENDS TrustFabric

Strong(source, confidence) ==
  [source |-> source, severity |-> 100, confidence |-> confidence, freshness |-> 100]

SomeBodies ==
  {[evidences |-> {Strong("falco_rule", 95), Strong("falco_rule", 90), Strong("auditd_exec", 95)},
    criticality |-> "critical", exposed |-> FALSE],
   [evidences |-> {Strong("falco_rule", 95), Strong("falco_rule", 90), Strong("falco_rule", 91)},
    criticality |-> "critical", exposed |-> FALSE],
   [evidences |-> {[source |-> "psutil_process", severity |-> 55, confidence |-> 90, freshness |-> 10]},
    criticality |-> "normal", exposed |-> TRUE]}

SomeContexts ==
  {{"ip_reputation_high", "geo_inconsistency"}}

Deployed == [auditRequired |-> TRUE, forwardRequired |-> TRUE, edge |-> TRUE]
WithoutAudit == [auditRequired |-> FALSE, forwardRequired |-> FALSE, edge |-> TRUE]
Both == {Deployed, WithoutAudit}
=============================================================================
