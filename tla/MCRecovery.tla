----------------------------- MODULE MCRecovery -----------------------------
(* Recovery for TLC: jobs a and b of a resumable pipeline, a QA job q.      *)
EXTENDS Recovery
=============================================================================
