--------------------------- MODULE IsolationState ---------------------------
(***************************************************************************)
(* The isolation state machine of an entity, in the two versions the       *)
(* repository holds: the one of the shared package cortex_core, and the    *)
(* one the packaged Sentinel image falls back to because its build context *)
(* does not contain that package.  The two tables differ.                  *)
(***************************************************************************)

CONSTANT Packaged       \* the image without cortex_core

ASSUME PackagedAssumption == Packaged \in BOOLEAN

IsolationStates ==
  {"free", "monitored", "suspected", "observation", "restricted", "quarantined",
   "identity_revoked", "forensic_preserved", "isolated", "recovery_pending",
   "restored", "failed"}

SharedTransitions ==
  [free               |-> {"monitored", "suspected"},
   monitored          |-> {"free", "suspected", "observation"},
   suspected          |-> {"monitored", "observation", "restricted"},
   observation        |-> {"monitored", "restricted", "quarantined"},
   restricted         |-> {"observation", "quarantined"},
   quarantined        |-> {"forensic_preserved", "recovery_pending"},
   forensic_preserved |-> {"identity_revoked", "isolated"},
   identity_revoked   |-> {"isolated"},
   isolated           |-> {"recovery_pending", "failed"},
   recovery_pending   |-> {"restored", "failed"},
   restored           |-> {"free"},
   failed             |-> {}]

PackagedTransitions ==
  [free               |-> {"monitored", "suspected"},
   monitored          |-> {"suspected", "observation"},
   suspected          |-> {"observation", "restricted", "free"},
   observation        |-> {"restricted", "quarantined", "free"},
   restricted         |-> {"quarantined", "recovery_pending"},
   quarantined        |-> {"identity_revoked", "recovery_pending"},
   identity_revoked   |-> {"forensic_preserved", "isolated"},
   forensic_preserved |-> {"isolated"},
   isolated           |-> {"recovery_pending"},
   recovery_pending   |-> {"restored", "failed"},
   restored           |-> {"free"},
   failed             |-> {}]

Allowed(from) == IF Packaged THEN PackagedTransitions[from] ELSE SharedTransitions[from]

\* Mutant: transition_to without the table.
TransitionAnyway(from, to) == to

\* transition_to: the state after the request, unchanged if it is refused.  Every
\* caller ignores the refusal.
Transition(from, to) == IF to \in Allowed(from) THEN to ELSE from
=============================================================================
