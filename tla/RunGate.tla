------------------------------- MODULE RunGate -------------------------------
(***************************************************************************)
(* What the run-slot gate promises a job, without its queues: at most      *)
(* Limit claims run, nobody waits while a slot is free, a slot that is     *)
(* given back passes straight to somebody who waits, and a resume goes     *)
(* before any job that has not started.  RunSlots implements it.           *)
(***************************************************************************)
EXTENDS Naturals, FiniteSets

CONSTANTS Claims, Priority, Limit

VARIABLES running, waiting

vars == <<running, waiting>>

Init == running = {} /\ waiting = {}

Free == Limit = 0 \/ Cardinality(running) < Limit

Arrive(c) ==
    /\ c \notin running \cup waiting
    /\ IF Free
       THEN running' = running \cup {c} /\ UNCHANGED waiting
       ELSE waiting' = waiting \cup {c} /\ UNCHANGED running

\* The claims a free slot may go to.
Eligible == IF waiting \cap Priority # {} THEN waiting \cap Priority ELSE waiting

Leave(c) ==
    /\ c \in running
    /\ \/ /\ waiting = {}
          /\ running' = running \ {c}
          /\ UNCHANGED waiting
       \/ \E d \in Eligible :
             /\ running' = (running \ {c}) \cup {d}
             /\ waiting' = waiting \ {d}

GiveUp(c) ==
    /\ c \in waiting
    /\ waiting' = waiting \ {c}
    /\ UNCHANGED running

Next == \E c \in Claims : Arrive(c) \/ Leave(c) \/ GiveUp(c)

Spec == Init /\ [][Next]_vars
=============================================================================
