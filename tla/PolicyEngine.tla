---------------------------- MODULE PolicyEngine ----------------------------
(***************************************************************************)
(* cortex-policy-engine: PolicyEngine.evaluate as a function of what it    *)
(* looks at, with the degraded-mode predicates and the maturity rule of    *)
(* cortex_core it calls.  A threshold the code compares a number with is a *)
(* Boolean of the envelope; rationale and blocked_by are left out.         *)
(***************************************************************************)
Maturities == {"production_ready", "preprod_ready", "beta", "experimental", "stubbed"}
Environments == {"prod", "preprod", "dev"}
ActionClasses ==
  {"read_only", "advisory", "prepare_only", "execute_with_approval", "irreversible", "blocked_in_prod"}
DependencyStates == {"healthy", "degraded", "unavailable", "unknown"}
Dependencies ==
  {"nats", "neo4j", "bloodhound", "vault", "spire", "approval", "sentinel", "external_llm"}
DependencySnapshots == [Dependencies -> DependencyStates]
ExecutionDecisions ==
  {"allowed", "denied", "approval_required", "prepare_only", "blocked_due_to_degraded_mode"}

\* CAPABILITY_REGISTRY
Registry ==
  [ad_read_validations          |-> "preprod_ready",
   ad_destructive_writes        |-> "stubbed",
   sot_issue                    |-> "preprod_ready",
   local_quarantine             |-> "beta",
   irreversible_containment     |-> "experimental",
   decision_committee           |-> "beta",
   model_governance_writes      |-> "beta",
   bloodhound_exposure_analysis |-> "preprod_ready"]

\* Any environment but prod and preprod is a development one.
MaturityAllowed(maturity, environment) ==
  CASE environment = "prod" -> maturity = "production_ready"
    [] environment = "preprod" -> maturity \in {"production_ready", "preprod_ready", "beta"}
    [] OTHER -> maturity # "stubbed"

BlockIrreversible(deps) ==
  \E d \in {"approval", "nats", "sentinel"} : deps[d] = "unavailable"

GraphDegraded(deps) == deps.neo4j # "healthy" \/ deps.bloodhound # "healthy"

\* What the MCP server says of them, whatever their state.
Healthy == [d \in Dependencies |-> IF d = "spire" THEN "unknown" ELSE "healthy"]

Consequential == {"execute_with_approval", "irreversible"}
Executions == {"execute_quarantine", "execute_irreversible_containment"}
RuledActions == Executions \cup {"prepare_quarantine", "execute_secret_rotation", "other"}

\* RiskEnvelope
Envelopes ==
  [action : RuledActions, class : ActionClasses, environment : Environments, dryRun : BOOLEAN,
   deps : DependencySnapshots, adminScope : BOOLEAN, adminCompromised : BOOLEAN,
   insiderDecay : BOOLEAN, critical : BOOLEAN, crownJewels : BOOLEAN, wideBlast : BOOLEAN,
   enoughSignals : BOOLEAN]

\* The early returns of evaluate, in their order.  e is the envelope, asks the
\* approval_required of the guardrails.
Evaluate(e, asks, capability) ==
  IF e.dryRun /\ e.class # "read_only" THEN "prepare_only"
  ELSE IF ~MaturityAllowed(Registry[capability], e.environment) THEN "denied"
  ELSE IF e.class = "irreversible" /\ BlockIrreversible(e.deps)
       THEN "blocked_due_to_degraded_mode"
  ELSE IF ~e.adminScope /\ e.class \in Consequential THEN "denied"
  ELSE IF e.adminCompromised /\ e.class \in Consequential THEN "approval_required"
  ELSE IF e.insiderDecay /\ e.critical THEN "approval_required"
  ELSE IF e.action = "execute_secret_rotation" /\ e.deps.vault # "healthy"
       THEN "blocked_due_to_degraded_mode"
  ELSE IF e.action \in Executions /\ e.wideBlast THEN "approval_required"
  ELSE IF e.class = "irreversible" /\ ~e.enoughSignals THEN "prepare_only"
  ELSE IF (e.crownJewels \/ e.critical) /\ e.class \in Consequential THEN "approval_required"
  ELSE IF GraphDegraded(e.deps) /\ e.action \in Executions \cup {"prepare_quarantine"}
       THEN "prepare_only"
  ELSE IF asks \/ e.class = "execute_with_approval" THEN "approval_required"
  ELSE IF e.class = "prepare_only" THEN "prepare_only"
  ELSE "allowed"
=============================================================================
