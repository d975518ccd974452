-------------------------- MODULE MCMergeApprovals --------------------------
(* MergeApprovals for TLC.                                                  *)
EXTENDS MergeApprovals

CONSTANTS d1, d2, h1, h2
=============================================================================
