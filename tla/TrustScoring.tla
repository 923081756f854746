---------------------------- MODULE TrustScoring ----------------------------
(***************************************************************************)
(* What the trust engine and the edge inference service compute: the score *)
(* of an entity after a list of evidence, the response it makes eligible,  *)
(* and the risk inferred at the edge.  Fractions are percents, scores are  *)
(* whole points (the code keeps two decimals).  A list of evidence is a    *)
(* set: its members have an evidence_id each.                              *)
(***************************************************************************)
EXTENDS Integers, FiniteSets, FiniteSetsExt

Eligibilities ==
  {"none", "monitor_only", "reversible_only", "approval_gated", "autonomous_allowed"}

SourceTrust(source) ==
  CASE source = "falco_rule" -> 90
    [] source = "auditd_exec" -> 85
    [] source \in {"auditd_connect", "bloodhound"} -> 80
    [] source = "edge_inference" -> 70
    [] source = "psutil_process" -> 65
    [] source = "mcp" -> 60
    [] OTHER -> 50

Amplifier(criticality) ==
  CASE criticality = "high" -> 125 [] criticality = "critical" -> 150 [] OTHER -> 100

Lesser(a, b) == IF a < b THEN a ELSE b
Clamp(n) == IF n < 0 THEN 0 ELSE IF n > 100 THEN 100 ELSE n
IsStrong(e) == e.severity >= 60

\* freshness falls from 100 to 10 over the ttl of the evidence.
Impact(e, criticality) ==
  (e.severity * Lesser(e.confidence, SourceTrust(e.source)) * e.freshness
     * Amplifier(criticality) * 12) \div 100000000

\* Strong evidence lowers the score by its impact, any other raises it by a fifth.
ScoreEvidences(base, evidences, criticality) ==
  LET impact(e) == Impact(e, criticality)
      strong == {e \in evidences : IsStrong(e)}
  IN  Clamp(base - MapThenSumSet(impact, strong)
                 + MapThenSumSet(impact, evidences \ strong) \div 5)

\* exposed: crown jewels are, or the blast radius is over 25.  The action class is
\* always advisory, so that the state of the approval service is not looked at.
ResponseEligibilityFor(score, strong, sources, exposed) ==
  IF strong < 2 THEN "monitor_only"
  ELSE IF exposed \/ (score < 20 /\ sources >= 2) THEN "approval_gated"
  ELSE IF score < 40 /\ sources >= 2 THEN "reversible_only" ELSE "monitor_only"

-----------------------------------------------------------------------------
\* infer_edge_risk: each hint found in the context of a session weighs in; of the two
\* grades of a hint one is found.  Four related sessions weigh as much as any number.
HintWeight(hint) ==
  CASE hint = "ip_reputation_high" -> 24
    [] hint = "geo_inconsistency" -> 18
    [] hint \in {"fingerprint_missing", "path_anomaly_high"} -> 16
    [] hint = "ip_reputation_medium" -> 12
    [] hint \in {"auth_context_weak", "transport_suspect", "four_related_sessions"} -> 10
    [] hint \in {"path_anomaly_medium", "session_chain_break", "vpn_or_proxy"} -> 8
    [] hint = "asn_risk" -> 6
    [] OTHER -> 0

EdgeRisk(hints) == Clamp(MapThenSumSet(HintWeight, hints))
EdgeConfidence(hints) == Lesser(95, 35 + 8 * Cardinality(hints))

\* _signal_to_evidence: the risk of the session as evidence about the entity.
EdgeEvidence(hints) ==
  [source |-> "edge_inference", severity |-> EdgeRisk(hints),
   confidence |-> EdgeConfidence(hints), freshness |-> 100]
=============================================================================
