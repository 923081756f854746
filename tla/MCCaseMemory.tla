---------------------------- MODULE MCCaseMemory ----------------------------
(* A small instance of CaseMemory: two agents, a routine kind of event and   *)
(* a like one of critical assets and broad impact.                           *)
EXTENDS CaseMemory

CONSTANTS a1, a2, routine, broad

MCTeam == <<a1, a2>>
MCKinds == {routine, broad}
MCTraits ==
  [k \in MCKinds |-> [novelty |-> 10, criticality |-> IF k = broad THEN 76 ELSE 20,
                      broad |-> k = broad]]
\* Stored and looked-up materials of one kind differ in the trust they hold.
MCSimilarity ==
  [j \in MCKinds |-> [k \in MCKinds |->
    IF j = k THEN 97 ELSE 85]]
\* Intents on both sides of the level that needs approval, with few actions and many.
MCIntents == [level : 0 .. 5, actions : {0, 5, 6}]
=============================================================================
