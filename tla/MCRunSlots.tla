----------------------------- MODULE MCRunSlots -----------------------------
(* Model-checking instance of RunSlots: five claims over two slots. *)
EXTENDS RunSlots

CONSTANTS r1, r2, j1, j2, j3

MCClaims == {r1, r2, j1, j2, j3}
MCPriority == {r1, r2}
=============================================================================
