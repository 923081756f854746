-------------------------- MODULE ApprovalService ---------------------------
(***************************************************************************)
(* cortex-approval as it is started: ensure_db() makes a pool if there is  *)
(* a DATABASE_URL, and every handler goes by db_pool.  With a pool the     *)
(* requests are rows (ApprovalStore), without one records of the process   *)
(* (ApprovalLocal); the other half stays as it began.                      *)
(***************************************************************************)
EXTENDS ApprovalStore, ApprovalLocal

VARIABLE database       \* db_pool is not None

serviceVars == <<vars, localVars, database>>

ServiceInit ==
  /\ Init
  /\ LocalInit
  /\ database \in BOOLEAN

ServiceNext ==
  /\ \/ database /\ Next /\ UNCHANGED localVars
     \/ ~database /\ LocalNext /\ UNCHANGED vars
  /\ UNCHANGED database

ServiceSpec == ServiceInit /\ [][ServiceNext]_serviceVars
=============================================================================
