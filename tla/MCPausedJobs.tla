---------------------------- MODULE MCPausedJobs ----------------------------
(* A small instance: an issue that may get two jobs, one after the other. *)
EXTENDS PausedJobs
CONSTANTS a, b
=============================================================================
