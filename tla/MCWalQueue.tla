----------------------------- MODULE MCWalQueue -----------------------------
(***************************************************************************)
(* Instances of WalQueue for TLC.  Records are interchangeable; symmetry   *)
(* is used in the safety runs only.                                        *)
(***************************************************************************)
EXTENDS WalQueue, TLC

Symmetry == Permutations(Records)
=============================================================================
