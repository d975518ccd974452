----------------------------- MODULE PausedJobs -----------------------------
(***************************************************************************)
(* Paused jobs of one issue and those who end the pause: the account-wait  *)
(* loop and "Try now" (services/account_waits.py, api/v1/jobs.py), a person*)
(* who continues or cancels, the reaper that expires old pauses and removes*)
(* old sandboxes (execution/image_manager.py), and the sweep that reopens  *)
(* issues left triaging (services/linear_reconciler.py).                   *)
(*                                                                         *)
(* A duration is the fact that it has passed: `old` of a job row (not      *)
(* updated for paused_job_ttl_hours), `old` of an issue row (triaging for  *)
(* stale_triaging_minutes), an "old" box (max_age_hours) and `due` of an   *)
(* account wait.  What a run does between two pauses is Recovery's and     *)
(* IssueLifecycle's subject: here it pauses or ends.                       *)
(***************************************************************************)
EXTENDS Naturals

CONSTANTS
    Jobs,           \* the jobs the issue may get, one after the other
    Linear,         \* the issue is a Linear row and the sweep of the reconciler acts
    MaxPauses,      \* bound: pauses, of all jobs together
    MaxRestarts     \* bound: restarts of the orchestrator

ASSUME PausedAssumption ==
    /\ Linear \in BOOLEAN
    /\ MaxPauses \in Nat /\ MaxRestarts \in Nat

VARIABLES
    job,            \* job[j]: its row
    runs,           \* runs[j]: the tasks at work on j
    box,            \* box[j]: its sandbox, with the checkpoint a resume needs
    issue,          \* the row of the issue
    dispatching,    \* where the dispatch stands that moved the issue to triaging
    waiting,        \* the account waits the loop read and has yet to look at
    expiring,       \* the old pauses the reaper read and has yet to claim
    freeing,        \* the jobs it expired and whose sandbox it has yet to destroy
    cancelling,     \* cancel_job destroyed the sandbox and has yet to write the row
    late,           \* those of them whose task did not end in time
    pauses, restarts

memory == <<dispatching, waiting, expiring, freeing, cancelling, late>>
vars == <<job, runs, box, issue, memory, pauses, restarts>>

Waits == {"none", "short", "long"}      \* "long": until after the TTL of a pause
Live == {"running", "paused"}           \* `pending` and `awaiting_input` do not meet these actors
JobRow == [status : {"none", "running", "paused", "expired", "ended"},
           wait : Waits, mode : {"resume", "relaunch"}, due : BOOLEAN, old : BOOLEAN]
IssueRow == [status : {"open", "triaging", "closed"}, old : BOOLEAN]

\* A row as an UPDATE leaves it: the trigger on jobs sets updated_at.
Row(status, wait, mode) ==
    [status |-> status, wait |-> wait, mode |-> mode, due |-> FALSE, old |-> FALSE]

Issue(status) == [status |-> status, old |-> FALSE]

IsLive(j) == job[j].status \in Live
Waiting(j) == job[j].status = "paused" /\ job[j].wait # "none"
NoneLive == ~\E j \in Jobs : IsLive(j)

Init ==
    /\ job = [j \in Jobs |-> Row("none", "none", "resume")]
    /\ runs = [j \in Jobs |-> 0]
    /\ box = [j \in Jobs |-> "none"]
    /\ issue = Issue("open")
    /\ dispatching = "no"
    /\ waiting = {} /\ expiring = {} /\ freeing = {} /\ cancelling = {} /\ late = {}
    /\ pauses = 0 /\ restarts = 0

-----------------------------------------------------------------------------
(***************************************************************************)
(* A dispatch moves the issue whatever jobs there are; execute refuses it  *)
(* for a live job, or an error ends it; the job is inserted, or the issue  *)
(* goes back to open.  One at a time: two that overlap are                 *)
(* IssueLifecycle's.                                                       *)
(***************************************************************************)
Dispatch ==
    /\ issue.status = "open" /\ dispatching = "no"
    /\ issue' = Issue("triaging")
    /\ dispatching' = "asked"
    /\ UNCHANGED <<job, runs, box, waiting, expiring, freeing, cancelling, late, pauses, restarts>>

Admit ==
    /\ dispatching = "asked"
    /\ \/ dispatching' = "refused"
       \/ NoneLive /\ dispatching' = "admitted"
    /\ UNCHANGED <<job, runs, box, issue, waiting, expiring, freeing, cancelling, late, pauses, restarts>>

\* Which of the unused names the next job gets makes no difference.
Unused(j) ==
    /\ job[j].status = "none"
    /\ j = CHOOSE k \in Jobs : job[k].status = "none"

Insert(j) ==
    /\ dispatching = "admitted"
    /\ Unused(j)
    /\ job' = [job EXCEPT ![j] = Row("running", "none", "resume")]
    /\ runs' = [runs EXCEPT ![j] = 1]
    /\ dispatching' = "no"
    /\ UNCHANGED <<box, issue, waiting, expiring, freeing, cancelling, late, pauses, restarts>>

\* _dispatch takes the issue back to open, from wherever it is by now.
RollBack ==
    /\ dispatching \in {"refused", "admitted"}
    /\ dispatching' = "no"
    /\ issue' = Issue("open")
    /\ UNCHANGED <<job, runs, box, waiting, expiring, freeing, cancelling, late, pauses, restarts>>

-----------------------------------------------------------------------------
(* What a run at work does. *)

StartBox(j) ==
    /\ runs[j] > 0 /\ box[j] = "none"
    /\ box' = [box EXCEPT ![j] = "young"]
    /\ UNCHANGED <<job, runs, issue, memory, pauses, restarts>>

Parked(j, wait, mode) == Row("paused", wait, mode)

(***************************************************************************)
(* The account is spent, before the run or inside it, or the proxies refuse*)
(* the sandbox of a job that goes on after its wait: the job is parked.  A *)
(* run that cannot resume gives up its sandbox first.  The row of a job    *)
(* that is over refuses, and the run just stops.  The issue stays triaging.*)
(***************************************************************************)
Park(j, wait, mode) ==
    /\ runs[j] > 0 /\ pauses < MaxPauses
    /\ pauses' = pauses + 1
    /\ runs' = [runs EXCEPT ![j] = @ - 1]
    /\ job' = IF IsLive(j) THEN [job EXCEPT ![j] = Parked(j, wait, mode)] ELSE job
    /\ box' = IF mode = "relaunch" THEN [box EXCEPT ![j] = "none"] ELSE box
    /\ UNCHANGED <<issue, memory, restarts>>

\* _handle_interrupt: out of retries, the job waits for a person and its issue is open.
PauseForPerson(j) ==
    /\ runs[j] > 0 /\ job[j].status = "running" /\ pauses < MaxPauses
    /\ pauses' = pauses + 1
    /\ runs' = [runs EXCEPT ![j] = @ - 1]
    /\ job' = [job EXCEPT ![j] = Row("paused", job[j].wait, job[j].mode)]
    /\ issue' = Issue("open")
    /\ UNCHANGED <<box, memory, restarts>>

\* The run ends and destroys its sandbox; the row of a job that is over stays as it is.
End(j) ==
    /\ runs[j] > 0
    /\ runs' = [runs EXCEPT ![j] = @ - 1]
    /\ box' = [box EXCEPT ![j] = "none"]
    /\ IF job[j].status = "running"
         THEN /\ job' = [job EXCEPT ![j] = Row("ended", "none", "resume")]
              /\ \E status \in {"open", "closed"} : issue' = Issue(status)
         ELSE UNCHANGED <<job, issue>>
    /\ UNCHANGED <<memory, pauses, restarts>>

-----------------------------------------------------------------------------
(* The end of an account wait: the loop, and a person's "Try now". *)

\* `until` has passed, or the registry says the account is usable again.
AccountDue(j) ==
    /\ Waiting(j) /\ ~job[j].due
    /\ job' = [job EXCEPT ![j].due = TRUE]
    /\ UNCHANGED <<runs, box, issue, memory, pauses, restarts>>

ListWaits ==
    /\ waiting = {}
    /\ \E j \in Jobs : Waiting(j)
    /\ waiting' = {j \in Jobs : Waiting(j)}
    /\ UNCHANGED <<job, runs, box, issue, dispatching, expiring, freeing, cancelling, late, pauses, restarts>>

ClaimedWait_NoSwap(j) ==
    /\ job' = [job EXCEPT ![j] = Row("running", "none", "resume")]
    /\ runs' = [runs EXCEPT ![j] = @ + 1]

\* claim_account_wait, one statement; the task is registered with it.
ClaimedWait(j) ==
    IF Waiting(j)
      THEN /\ job' = [job EXCEPT ![j] = Row("running", "none", "resume")]
           /\ runs' = [runs EXCEPT ![j] = @ + 1]
      ELSE UNCHANGED <<job, runs>>

\* One wait of the pass: its time had not come, or it is claimed and gone on with.
GoOn(j) ==
    /\ j \in waiting
    /\ waiting' = waiting \ {j}
    /\ IF job[j].due \/ ~Waiting(j) THEN ClaimedWait(j) ELSE UNCHANGED <<job, runs>>
    /\ UNCHANGED <<box, issue, dispatching, expiring, freeing, cancelling, late, pauses, restarts>>

TryNow(j) ==
    /\ Waiting(j)
    /\ ClaimedWait(j)
    /\ UNCHANGED <<box, issue, memory, pauses, restarts>>

\* A person continues the job; a second request for the same pause is IssueLifecycle's.
Continue(j) ==
    /\ job[j].status = "paused" /\ job[j].wait = "none"
    /\ job' = [job EXCEPT ![j] = Row("running", "none", "resume")]
    /\ runs' = [runs EXCEPT ![j] = @ + 1]
    /\ issue' = IF issue.status = "open" THEN Issue("triaging") ELSE issue
    /\ UNCHANGED <<box, memory, pauses, restarts>>

-----------------------------------------------------------------------------
(* cancel_job: it stops the task it finds and the sandbox, then writes. *)

\* The task ends, or is still there after five seconds and goes on.
CancelBegin(j) ==
    /\ IsLive(j) /\ j \notin cancelling
    /\ \/ runs' = [runs EXCEPT ![j] = 0] /\ UNCHANGED late
       \/ runs[j] > 0 /\ late' = late \cup {j} /\ UNCHANGED runs
    /\ box' = [box EXCEPT ![j] = "none"]
    /\ cancelling' = cancelling \cup {j}
    /\ UNCHANGED <<job, issue, dispatching, waiting, expiring, freeing, pauses, restarts>>

\* A task that was late and has ended its job itself is not overwritten.
CancelWrite(j) ==
    /\ j \in cancelling
    /\ IF j \in late /\ job[j].status = "ended" THEN UNCHANGED <<job, issue>>
       ELSE /\ job' = IF IsLive(j) THEN [job EXCEPT ![j] = Row("ended", "none", "resume")] ELSE job
            /\ issue' = Issue("open")
    /\ cancelling' = cancelling \ {j} /\ late' = late \ {j}
    /\ UNCHANGED <<runs, box, dispatching, waiting, expiring, freeing, pauses, restarts>>

-----------------------------------------------------------------------------
(* The reaper. *)

AgeBox(j) ==
    /\ box[j] = "young"
    /\ box' = [box EXCEPT ![j] = "old"]
    /\ UNCHANGED <<job, runs, issue, memory, pauses, restarts>>

Spared_Known(j) == job[j].status # "none"

\* fetch_active_sandbox_containers: the boxes of live jobs are not reaped.
Spared(j) == IsLive(j)

Reap ==
    /\ \E j \in Jobs : box[j] = "old" /\ ~Spared(j)
    /\ box' = [j \in Jobs |-> IF box[j] = "old" /\ ~Spared(j) THEN "none" ELSE box[j]]
    /\ UNCHANGED <<job, runs, issue, memory, pauses, restarts>>

(***************************************************************************)
(* Nobody updated the paused j for the TTL of a pause.  A short wait is    *)
(* one whose time comes, and which the loop looks at, before that.         *)
(***************************************************************************)
AgeRow(j) ==
    /\ job[j].status = "paused" /\ ~job[j].old
    /\ ~(Waiting(j) /\ job[j].wait = "short")
    /\ job' = [job EXCEPT ![j].old = TRUE]
    /\ UNCHANGED <<runs, box, issue, memory, pauses, restarts>>

Expirable_ForPeople(j) == job[j].status = "paused" /\ job[j].wait = "none" /\ job[j].old

\* The pauses _expire_paused_jobs selects: whatever they wait for.
Expirable(j) == job[j].status = "paused" /\ job[j].old

ListPauses ==
    /\ expiring = {} /\ freeing = {}
    /\ \E j \in Jobs : Expirable(j)
    /\ expiring' = {j \in Jobs : Expirable(j)}
    /\ UNCHANGED <<job, runs, box, issue, dispatching, waiting, freeing, cancelling, late, pauses, restarts>>

Expire_DestroyFirst(j) ==
    /\ j \in expiring /\ freeing = {}
    /\ expiring' = expiring \ {j}
    /\ box' = [box EXCEPT ![j] = "none"]
    /\ job' = IF job[j].status = "paused"
                THEN [job EXCEPT ![j] = Row("expired", "none", "resume")] ELSE job
    /\ UNCHANGED <<runs, issue, dispatching, waiting, freeing, cancelling, late, pauses, restarts>>

(***************************************************************************)
(* The claim comes first (RAV-1063): a job that is no longer paused is left*)
(* alone.  Its age is not looked at again.                                 *)
(***************************************************************************)
Expire(j) ==
    /\ j \in expiring /\ freeing = {}
    /\ expiring' = expiring \ {j}
    /\ IF job[j].status = "paused"
         THEN /\ job' = [job EXCEPT ![j] = Row("expired", "none", "resume")]
              /\ freeing' = {j}
         ELSE UNCHANGED <<job, freeing>>
    /\ UNCHANGED <<runs, box, issue, dispatching, waiting, cancelling, late, pauses, restarts>>

(***************************************************************************)
(* Then the sandbox and the checkpoint go.  The issue would be reopened    *)
(* from `paused`, a status nobody here gives it.                           *)
(***************************************************************************)
Free(j) ==
    /\ j \in freeing
    /\ box' = [box EXCEPT ![j] = "none"]
    /\ freeing' = {}
    /\ UNCHANGED <<job, runs, issue, dispatching, waiting, expiring, cancelling, late, pauses, restarts>>

-----------------------------------------------------------------------------
(* The sweep over issues left triaging. *)

\* `triaging` for stale_triaging_minutes; a dispatch in flight is never that old.
AgeIssue ==
    /\ issue.status = "triaging" /\ ~issue.old /\ dispatching = "no"
    /\ issue' = [issue EXCEPT !.old = TRUE]
    /\ UNCHANGED <<job, runs, box, memory, pauses, restarts>>

Unattended_OfOrphans ==
    /\ \E j \in Jobs : job[j].status # "none"
    /\ NoneLive

Unattended_ButPaused == ~\E j \in Jobs : job[j].status = "running"

\* stale_triaging: no job of the issue is live.
Unattended == NoneLive

HealStaleTriaging ==
    /\ Linear
    /\ issue.status = "triaging" /\ issue.old
    /\ Unattended
    /\ issue' = Issue("open")
    /\ UNCHANGED <<job, runs, box, memory, pauses, restarts>>

-----------------------------------------------------------------------------
(* A restart: what is in memory is lost, the rows and the sandboxes stay.  *)
(* Boot removes the sandboxes of jobs that are not live, as far as it can. *)

Restart ==
    /\ restarts < MaxRestarts
    /\ restarts' = restarts + 1
    /\ runs' = [j \in Jobs |-> 0]
    /\ dispatching' = "no"
    /\ waiting' = {} /\ expiring' = {} /\ freeing' = {} /\ cancelling' = {} /\ late' = {}
    /\ \E kept \in SUBSET {j \in Jobs : ~IsLive(j)} :
          box' = [j \in Jobs |-> IF IsLive(j) \/ j \in kept THEN box[j] ELSE "none"]
    /\ UNCHANGED <<job, issue, pauses>>

\* Boot goes on with a job left running, or fails it and reopens its issue.
Recover(j) ==
    /\ job[j].status = "running" /\ runs[j] = 0 /\ j \notin cancelling
    /\ \/ /\ runs' = [runs EXCEPT ![j] = 1]
          /\ UNCHANGED <<job, issue>>
       \/ /\ job' = [job EXCEPT ![j] = Row("ended", "none", "resume")]
          /\ issue' = IF issue.status = "triaging" THEN Issue("open") ELSE issue
          /\ UNCHANGED runs
    /\ UNCHANGED <<box, memory, pauses, restarts>>

-----------------------------------------------------------------------------

Next ==
    \/ Dispatch \/ Admit \/ RollBack
    \/ ListWaits \/ ListPauses \/ Reap
    \/ AgeIssue \/ HealStaleTriaging \/ Restart
    \/ \E j \in Jobs :
          \/ Insert(j) \/ StartBox(j) \/ PauseForPerson(j) \/ End(j)
          \/ \E wait \in Waits \ {"none"}, mode \in {"resume", "relaunch"} : Park(j, wait, mode)
          \/ AccountDue(j) \/ GoOn(j) \/ TryNow(j) \/ Continue(j)
          \/ CancelBegin(j) \/ CancelWrite(j)
          \/ AgeBox(j) \/ AgeRow(j) \/ Expire(j) \/ Free(j)
          \/ Recover(j)

Spec == Init /\ [][Next]_vars

\* Rows age; a short wait is one whose time comes.
RowsAge ==
    \/ AgeIssue
    \/ \E j \in Jobs : AgeRow(j) \/ (AccountDue(j) /\ job[j].wait = "short")

(***************************************************************************)
(* Time passes, the loops of the account waits, the reaper and the         *)
(* reconciler turn, boot recovers its jobs, and a request that began goes  *)
(* on.  No run need ever end, no person act, and the account of a long     *)
(* wait need not be ready.                                                 *)
(***************************************************************************)
FairSpec ==
    /\ Spec
    /\ WF_vars(RowsAge)
    /\ \A j \in Jobs : WF_vars(AgeBox(j))
    /\ WF_vars(ListWaits \/ \E j \in Jobs : GoOn(j))
    /\ WF_vars(ListPauses \/ \E j \in Jobs : Expire(j) \/ Free(j))
    /\ WF_vars(Reap) /\ WF_vars(HealStaleTriaging)
    /\ WF_vars(Admit \/ RollBack \/ \E j \in Jobs : Insert(j))
    /\ WF_vars(\E j \in Jobs : CancelWrite(j))
    /\ WF_vars(\E j \in Jobs : Recover(j))

-----------------------------------------------------------------------------
(* Properties. *)

(***************************************************************************)
(* The types; an account wait is a pause.                                  *)
(***************************************************************************)
TypeOK ==
    /\ job \in [Jobs -> JobRow]
    /\ runs \in [Jobs -> Nat]
    /\ box \in [Jobs -> {"none", "young", "old"}]
    /\ issue \in IssueRow
    /\ dispatching \in {"no", "asked", "refused", "admitted"}
    /\ waiting \subseteq Jobs /\ expiring \subseteq Jobs
    /\ freeing \subseteq Jobs /\ cancelling \subseteq Jobs /\ late \subseteq Jobs
    /\ pauses \in Nat /\ restarts \in Nat

(***************************************************************************)
(* One task works on a job, however many end its pause at once: the loop,  *)
(* "Try now", a person, and the boot of the next process                   *)
(* (claim_account_wait: "two takers cannot both go on with it").           *)
(***************************************************************************)
OneRun == \A j \in Jobs : runs[j] <= 1

(***************************************************************************)
(* The issue of a job parked for its account stays triaging: neither the   *)
(* sweep, nor a boot, nor the end of another run takes it out of there.    *)
(* Two writers that read no job do: the roll-back of a dispatch that was   *)
(* refused, and a cancel that was overtaken.                               *)
(***************************************************************************)
ParkedIssueHeld ==
    [][\A j \in Jobs :
         Waiting(j) /\ Waiting(j)' /\ issue.status = "triaging" =>
            \/ issue'.status = "triaging"
            \/ dispatching = "refused" /\ dispatching' = "no"
            \/ ~(cancelling \subseteq cancelling')]_vars

(***************************************************************************)
(* A live job does not lose its sandbox to the reaper, to an expiry that   *)
(* lost the race with a resume (RAV-1063) or to a restart: only to its own *)
(* cancel, or to its own run when it has to start again.                   *)
(***************************************************************************)
LiveJobKeepsBox ==
    [][\A j \in Jobs :
         box[j] # "none" /\ box'[j] = "none" =>
            \/ job'[j].status \notin Live
            \/ j \in cancelling'
            \/ job'[j].status = "paused" /\ job'[j].mode = "relaunch"]_vars

(***************************************************************************)
(* No pause lasts for ever: the loop goes on with a short wait, and a long *)
(* one whose account is never ready, or a person's, is expired.            *)
(***************************************************************************)
PauseEnds == \A j \in Jobs : job[j].status = "paused" ~> job[j].status # "paused"

(***************************************************************************)
(* The sandbox of a job that is over goes, also when the process died      *)
(* between the row and the sandbox, or a run outlived its cancel.          *)
(***************************************************************************)
BoxFreed ==
    \A j \in Jobs : (box[j] # "none" /\ ~IsLive(j)) ~> (box[j] = "none")

(***************************************************************************)
(* An issue is not left triaging with nobody at work on it: the process    *)
(* died before the job was inserted (#284), or the job expired in its wait.*)
(***************************************************************************)
IssueFreed == (issue.status = "triaging" /\ NoneLive) ~> ~(issue.status = "triaging" /\ NoneLive)

(***************************************************************************)
(* Nothing is left behind: a pause ends, the sandbox of a job that is over *)
(* is freed, and an issue nobody works on is open again, through every     *)
(* crash, refused write and lost race of the loop and the reaper.          *)
(***************************************************************************)
NothingLeft == PauseEnds /\ BoxFreed /\ IssueFreed
=============================================================================
