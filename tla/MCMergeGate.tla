---------------------------- MODULE MCMergeGate ----------------------------
(***************************************************************************)
(* Instances of MergeGate.                                                 *)
(***************************************************************************)
EXTENDS MergeGate

CONSTANTS w1
=============================================================================
