------------------------ MODULE MCApprovalService ---------------------------
(***************************************************************************)
(* Instances of ApprovalService for TLC.  Tasks and requests are           *)
(* interchangeable: no action compares or orders them.                     *)
(***************************************************************************)
EXTENDS ApprovalService, TLC

Symmetry == Permutations(Tasks) \cup Permutations(Requests)
=============================================================================
