----------------------------- MODULE MCDelivery -----------------------------
(* Delivery for TLC: one branch of one issue's jobs, or two branches.       *)
EXTENDS Delivery

CONSTANTS a, b, i, p, q

MCCreated == [j \in Jobs |-> IF j = a THEN 1 ELSE 2]
MCOpened == [r \in PRs |-> IF r \in Before THEN 1 ELSE 2]
MCIssueOf == [j \in Jobs |-> i]

OneBranch == [j \in Jobs |-> "left"]
OneHead == [r \in PRs |-> "left"]
TwoBranches == [j \in Jobs |-> IF j = a THEN "left" ELSE "right"]
TwoHeads == [r \in PRs |-> IF r = p THEN "left" ELSE "right"]
=============================================================================
