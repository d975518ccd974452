---------------------------- MODULE StatusTables ----------------------------
(***************************************************************************)
(* The statuses of jobs and issues, the moves the two repositories allow,  *)
(* and what a status update comes to: JobsRepository and IssuesRepository  *)
(* of embry0/storage/repositories.                                         *)
(***************************************************************************)

(***************************************************************************)
(* VALID_JOB_TRANSITIONS, as a set of pairs.                               *)
(***************************************************************************)
JobMoves ==
    ({"pending"} \X {"running", "cancelled"})
    \cup ({"running"} \X {"completed", "skipped", "failed", "partial",
                          "cancelled", "awaiting_input", "paused"})
    \cup ({"awaiting_input"} \X {"running", "cancelled", "failed"})
    \cup ({"paused"} \X {"running", "cancelled", "failed", "expired"})
    \cup ({"completed"} \X {"pr_merged", "pr_closed"})
    \cup ({"pr_closed"} \X {"pr_merged", "completed"})

(***************************************************************************)
(* The one runtime move outside the table: the dispatch budget gate fails  *)
(* a job that never ran (_is_gate_refusal).                                *)
(***************************************************************************)
GateRefusal == {<<"pending", "failed">>}

\* VALID_ISSUE_TRANSITIONS, as a set of pairs.
IssueMoves ==
    ({"open"} \X {"triaging", "in_progress", "closed", "cancelled"})
    \cup ({"triaging"} \X {"open", "in_progress", "awaiting_input", "closed", "cancelled"})
    \cup ({"in_progress"} \X {"open", "awaiting_input", "paused", "closed", "cancelled"})
    \cup ({"awaiting_input"} \X {"open", "triaging", "in_progress", "closed", "cancelled"})
    \cup ({"paused"} \X {"open", "triaging", "in_progress", "closed", "cancelled"})
    \cup ({"closed", "cancelled"} \X {"open"})

IssueStatuses ==
    {"open", "triaging", "in_progress", "awaiting_input", "paused", "closed", "cancelled"}

\* The statuses of a job that counts as active for its issue.
ActiveStatuses == {"pending", "running", "awaiting_input", "paused"}

\* A process runs, or has yet to run, such a job: what boot recovery reads.
InFlightStatuses == {"pending", "running"}

\* TERMINAL_JOB_STATUSES.
TerminalStatuses ==
    {"completed", "partial", "failed", "cancelled", "expired", "skipped"}

JobStatuses == ActiveStatuses \cup TerminalStatuses \cup {"pr_merged", "pr_closed"}

-----------------------------------------------------------------------------

UpdateRaises_NoSwap(moves, seen, now, new) == seen # new /\ <<seen, new>> \notin moves

(***************************************************************************)
(* update(status=new) of either repository, whose SELECT saw `seen` and    *)
(* whose UPDATE ... WHERE status = seen finds `now`.  Asking for the       *)
(* status the row was seen in writes no status and never raises; any other *)
(* move must be in the table (ValueError) and the row must still be where  *)
(* it was seen (StatusTransitionConflict).                                 *)
(***************************************************************************)
UpdateRaises(moves, seen, now, new) ==
    seen # new /\ (<<seen, new>> \notin moves \/ now # seen)

StatusAfter(moves, seen, now, new) ==
    IF seen = new \/ UpdateRaises(moves, seen, now, new) THEN now ELSE new

(***************************************************************************)
(* cas_transition_on_conn: the move happens from `from`, a row already in  *)
(* the new status is a success too.                                        *)
(***************************************************************************)
CasMatches(now, new, from) == now \in from \cup {new}
=============================================================================
