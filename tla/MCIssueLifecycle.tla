-------------------------- MODULE MCIssueLifecycle --------------------------
(***************************************************************************)
(* Instances of IssueLifecycle for TLC.                                    *)
(***************************************************************************)
EXTENDS IssueLifecycle
=============================================================================
