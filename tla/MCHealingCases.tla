--------------------------- MODULE MCHealingCases ---------------------------
(* A small instance: two change requests, one of a job and one of a person. *)
EXTENDS HealingCases
CONSTANTS p, q
=============================================================================
