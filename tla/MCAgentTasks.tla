---------------------------- MODULE MCAgentTasks ----------------------------
(***************************************************************************)
(* Instances of AgentTasks for TLC.  Which subjects a stream holds depends *)
(* on the service that created CORTEX_EVENTS: Sentinel lists remediation   *)
(* and decision.                                                           *)
(***************************************************************************)
EXTENDS AgentTasks

SentinelStream == {"remediation", "decision"}

\* A development environment differs from preprod for no tool of an agent.
Deployments == {"prod", "preprod"}
=============================================================================
