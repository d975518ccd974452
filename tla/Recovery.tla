------------------------------ MODULE Recovery ------------------------------
(***************************************************************************)
(* What stops and starts of the orchestrator do to the jobs in flight: the *)
(* drain (IssueExecutor.drain), the recovery at boot (orchestration/       *)
(* restart.py with JobsRepository, called by api/app.py), the attempts a   *)
(* job has, and the loop that goes on with jobs parked for an LLM account  *)
(* (services/account_waits.py), which works across all of it.              *)
(*                                                                         *)
(* Left out: issues and questions (IssueLifecycle), which job gets a slot  *)
(* first (RunSlots), and the steps of a job between two node boundaries.   *)
(* The last node of a run and the job's terminal status are one step here; *)
(* IssueLifecycle takes them apart and shows what a crash between them     *)
(* costs.                                                                  *)
(***************************************************************************)
EXTENDS Naturals, FiniteSets, StatusTables

CONSTANTS Jobs,          \* the jobs ever dispatched
          Resumable,     \* those whose pipeline is not in NOT_RESUMABLE_PIPELINES
          MaxAttempts,   \* MAX_RESUME_ATTEMPTS
          MaxStops,      \* bound: drains and crashes
          Windows        \* the short windows a stop may fall in (see below)

(***************************************************************************)
(* "dispatch": a drain finds a task whose launch is not recorded yet, or   *)
(* the process exits before a job it deferred is stamped.  "account_loop": *)
(* a drain begins in the middle of a pass of the account-wait loop.        *)
(* "account_queue": it finds a job whose account is ready again waiting    *)
(* for a run slot.  "planning": the recovery at boot raises.               *)
(***************************************************************************)
ASSUME RecoveryAssumption ==
    /\ Resumable \subseteq Jobs
    /\ MaxAttempts \in Nat
    /\ MaxStops \in Nat
    /\ Windows \subseteq {"dispatch", "account_loop", "account_queue", "planning"}

VARIABLES status,    \* jobs.status
          launch,    \* whether jobs.launch is recorded
          ckpt,      \* whether LangGraph has a checkpoint of the job
          stamp,     \* whether jobs.interrupted_at is set
          attempts,  \* jobs.resume_attempts
          wait,      \* the mode of jobs.account_wait, or "none"
          task,      \* where the job's asyncio task stands, and what it is to do
          orch,      \* the phase the orchestrator process is in
          drained,   \* the jobs that had a task when drain began
          plan,      \* boot: what plan_recovery decided
          tick,      \* the pass of the account-wait loop
          killed,    \* history: crashes of the process while the job executed
          last,      \* history: how the process ended last
          stops      \* drains and crashes so far

vars == <<status, launch, ckpt, stamp, attempts, wait, task, orch, drained, plan, tick,
          killed, last, stops>>

\* Variables that belong together in UNCHANGED.
rows == <<status, launch, ckpt, stamp, attempts, wait>>
process == <<orch, drained, plan, killed, last, stops>>

JobPhases == {"none", "created", "launching", "deferring", "queued", "executing"}

(***************************************************************************)
(* A task runs the job from its beginning (_run_workflow, and _relaunch    *)
(* from the launch record), resumes it after a restart, or resumes it      *)
(* after its wait for an account.                                          *)
(***************************************************************************)
Task(pc, kind) == [pc |-> pc, kind |-> kind]
NoTask == Task("none", "none")

NoPlan == [resume |-> {}, relaunch |-> {}, exhausted |-> {}, counted |-> {}]
NoTick == [pc |-> "idle", listed |-> {}]

InFlight(j) == status[j] \in InFlightStatuses
Draining == orch \in {"draining", "marked"}

Init ==
    /\ status = [j \in Jobs |-> "absent"]
    /\ launch = [j \in Jobs |-> FALSE]
    /\ ckpt = [j \in Jobs |-> FALSE]
    /\ stamp = [j \in Jobs |-> FALSE]
    /\ attempts = [j \in Jobs |-> 0]
    /\ wait = [j \in Jobs |-> "none"]
    /\ task = [j \in Jobs |-> NoTask]
    /\ orch = "up"
    /\ drained = {}
    /\ plan = NoPlan
    /\ tick = NoTick
    /\ killed = [j \in Jobs |-> 0]
    /\ last = "none"
    /\ stops = 0

-----------------------------------------------------------------------------
(* The task of a job.                                                      *)

At(j, pc) == task[j].pc = pc
Goto(j, pc) == task' = [task EXCEPT ![j].pc = pc]
End(j) == task' = [task EXCEPT ![j] = NoTask]

(***************************************************************************)
(* A dispatch inserts the row; the intake loops do so during a drain too.  *)
(***************************************************************************)
Dispatch(j) ==
    /\ orch = "up" \/ Draining
    /\ status[j] = "absent"
    /\ status' = [status EXCEPT ![j] = "pending"]
    /\ task' = [task EXCEPT ![j] = Task("created", "start")]
    /\ UNCHANGED <<launch, ckpt, stamp, attempts, wait, tick, process>>

\* _track_task registers the task.
Track(j) ==
    /\ At(j, "created")
    /\ Goto(j, "launching")
    /\ UNCHANGED <<rows, tick, process>>

RecordLaunch_AfterCheck(j) ==
    /\ At(j, "launching")
    /\ launch' = [launch EXCEPT ![j] = @ \/ (task[j].kind = "start" /\ ~Draining)]
    /\ Goto(j, IF Draining /\ task[j].kind = "start" THEN "deferring" ELSE "queued")
    /\ UNCHANGED <<status, ckpt, stamp, attempts, wait, tick, process>>

(***************************************************************************)
(* _run_in_slot records the launch, then looks whether the executor        *)
(* drains.  resume() announces itself and asks only for its slot.          *)
(***************************************************************************)
RecordLaunch(j) ==
    /\ At(j, "launching")
    /\ launch' = [launch EXCEPT ![j] = @ \/ task[j].kind = "start"]
    /\ Goto(j, IF Draining /\ task[j].kind = "start" THEN "deferring" ELSE "queued")
    /\ UNCHANGED <<status, ckpt, stamp, attempts, wait, tick, process>>

\* _defer_for_shutdown stamps the job (mark_interrupted).
Defer(j) ==
    /\ At(j, "deferring")
    /\ stamp' = [stamp EXCEPT ![j] = @ \/ InFlight(j)]
    /\ End(j)
    /\ UNCHANGED <<status, launch, ckpt, attempts, wait, tick, process>>

(***************************************************************************)
(* The task has its slot, the job is running and its graph is streamed,    *)
(* which a draining executor leaves at once on a resumable pipeline.       *)
(***************************************************************************)
Start(j) ==
    /\ At(j, "queued")
    /\ status' = [status EXCEPT ![j] = "running"]
    /\ IF Draining /\ j \in Resumable THEN End(j) ELSE Goto(j, "executing")
    /\ UNCHANGED <<launch, ckpt, stamp, attempts, wait, tick, process>>

\* A node is done and checkpointed; on a resumable pipeline a drain stops the
\* run here (ShutdownInterrupt).
Node(j) ==
    /\ At(j, "executing")
    /\ ckpt' = [ckpt EXCEPT ![j] = TRUE]
    /\ IF Draining /\ j \in Resumable THEN End(j) ELSE UNCHANGED task
    /\ UNCHANGED <<status, launch, stamp, attempts, wait, tick, process>>

\* The run ends, well or not, and its checkpoint is purged.
Finish(j) ==
    /\ At(j, "executing")
    /\ \E s \in {"completed", "failed"} : status' = [status EXCEPT ![j] = s]
    /\ ckpt' = [ckpt EXCEPT ![j] = FALSE]
    /\ End(j)
    /\ UNCHANGED <<launch, stamp, attempts, wait, tick, process>>

(***************************************************************************)
(* Its account is spent: the job is parked (_park_for_account) to resume   *)
(* from its checkpoint, or to start again when it has none or its pipeline *)
(* is not resumable, which purges it.                                      *)
(***************************************************************************)
Park(j) ==
    /\ At(j, "executing")
    /\ status' = [status EXCEPT ![j] = "paused"]
    /\ ckpt' = [ckpt EXCEPT ![j] = @ /\ j \in Resumable]
    /\ wait' = [wait EXCEPT ![j] = IF ckpt'[j] THEN "resume" ELSE "relaunch"]
    /\ End(j)
    /\ UNCHANGED <<launch, stamp, attempts, tick, process>>

Work(j) == Track(j) \/ RecordLaunch(j) \/ Defer(j) \/ Start(j) \/ Node(j) \/ Finish(j) \/ Park(j)

-----------------------------------------------------------------------------
(* AccountWaitLoop.tick.                                                   *)

\* It looks whether the executor drains ...
TickBegin ==
    /\ orch = "up"
    /\ tick.pc = "idle"
    /\ tick' = [tick EXCEPT !.pc = "listing"]
    /\ UNCHANGED <<rows, task, process>>

\* ... reads the parked jobs ...
TickList ==
    /\ tick.pc = "listing"
    /\ tick' = [pc |-> "claiming",
                listed |-> {[job |-> j, mode |-> wait[j]] :
                               j \in {k \in Jobs : status[k] = "paused" /\ wait[k] # "none"}}]
    /\ UNCHANGED <<rows, task, process>>

\* A job the loop has claimed and not started a task for yet.
Claimed(j) == At(j, "created") /\ status[j] = "running"

(***************************************************************************)
(* ... and, one after the other, claims those that are due and still       *)
(* parked (claim_account_wait) and goes on with them: Track.               *)
(***************************************************************************)
TickClaim(row) ==
    /\ tick.pc = "claiming"
    /\ row \in tick.listed
    /\ \A j \in Jobs : ~Claimed(j)
    /\ status[row.job] = "paused"
    /\ wait[row.job] # "none"
    /\ status' = [status EXCEPT ![row.job] = "running"]
    /\ wait' = [wait EXCEPT ![row.job] = "none"]
    /\ task' = [task EXCEPT ![row.job] =
                   Task("created", IF row.mode = "resume" THEN "account" ELSE "start")]
    /\ tick' = [tick EXCEPT !.listed = @ \ {row}]
    /\ UNCHANGED <<launch, ckpt, stamp, attempts, process>>

\* The other jobs of the pass are not due, or somebody else's.
TickEnd ==
    /\ tick.pc = "claiming"
    /\ \A j \in Jobs : ~Claimed(j)
    /\ tick' = NoTick
    /\ UNCHANGED <<rows, task, process>>

Tick == TickBegin \/ TickList \/ TickEnd \/ \E row \in tick.listed : TickClaim(row)

-----------------------------------------------------------------------------
(* Drain, exit and crash.                                                  *)

\* CancelledError puts a resume that waits for its slot back to its question,
\* whether it was given an answer or an account; every other task just ends.
StatusOnCancel(J) ==
    [j \in Jobs |-> IF j \in J /\ task[j] = Task("queued", "account")
                    THEN "awaiting_input" ELSE status[j]]

\* The tasks a drain cancels at once: they have not started.
NotStarted == {j \in Jobs : task[j].pc \in {"launching", "queued"}}

\* IssueExecutor.drain begins; it is at work until it marks the jobs.
Drain ==
    /\ orch = "up"
    /\ stops < MaxStops
    /\ "dispatch" \in Windows \/ \A j \in Jobs : At(j, "launching") => launch[j]
    /\ "account_loop" \in Windows \/ (tick.pc = "idle" /\ \A j \in Jobs : ~Claimed(j))
    /\ "account_queue" \in Windows \/ \A j \in Jobs : task[j] # Task("queued", "account")
    /\ orch' = "draining"
    /\ stops' = stops + 1
    /\ drained' = {j \in Jobs : task[j].pc \notin {"none", "created"}}
    /\ status' = StatusOnCancel(NotStarted)
    /\ task' = [j \in Jobs |-> IF j \in NotStarted THEN NoTask ELSE task[j]]
    /\ UNCHANGED <<launch, ckpt, stamp, attempts, wait, plan, tick, killed, last>>

\* A job still inside a node at the deadline is cancelled there.
Deadline(j) ==
    /\ orch = "draining"
    /\ j \in drained
    /\ At(j, "executing")
    /\ End(j)
    /\ UNCHANGED <<rows, tick, process>>

Mark_StartedOnly ==
    /\ orch = "draining"
    /\ \A j \in drained : ~At(j, "executing")
    /\ stamp' = [j \in Jobs |-> stamp[j] \/ (j \in drained /\ status[j] = "running")]
    /\ orch' = "marked"
    /\ UNCHANGED <<status, launch, ckpt, attempts, wait, task, drained, plan, tick, killed, last, stops>>

\* Its tasks have ended: mark_interrupted stamps the jobs still in flight.
Mark ==
    /\ orch = "draining"
    /\ \A j \in drained : ~At(j, "executing")
    /\ stamp' = [j \in Jobs |-> stamp[j] \/ (j \in drained /\ InFlight(j))]
    /\ orch' = "marked"
    /\ UNCHANGED <<status, launch, ckpt, attempts, wait, task, drained, plan, tick, killed, last, stops>>

\* The process is gone, and with it every task.
Down(how) ==
    /\ orch' = "down"
    /\ last' = how
    /\ task' = [j \in Jobs |-> NoTask]
    /\ tick' = NoTick
    /\ drained' = {}
    /\ plan' = NoPlan
    /\ UNCHANGED <<launch, ckpt, stamp, attempts, wait>>

\* The rest of the shutdown cancels the tasks that are left.
Exit ==
    /\ orch = "marked"
    /\ "dispatch" \in Windows \/ \A j \in Jobs : task[j].kind # "start"
    /\ status' = StatusOnCancel(Jobs)
    /\ Down("clean")
    /\ UNCHANGED <<killed, stops>>

Crash ==
    /\ orch # "down"
    /\ stops < MaxStops
    /\ stops' = stops + 1
    /\ killed' = [j \in Jobs |-> IF At(j, "executing") THEN killed[j] + 1 ELSE killed[j]]
    /\ Down("crash")
    /\ UNCHANGED status

-----------------------------------------------------------------------------
(* Boot.                                                                   *)

(***************************************************************************)
(* plan_recovery: a running job with a checkpoint goes on from it on a     *)
(* resumable pipeline, one without (or a pending one) starts again from    *)
(* its launch record.  After a stop without a stamp that uses up an        *)
(* attempt, and a job without one left is exhausted.                       *)
(***************************************************************************)
Begun(j) == status[j] = "running" /\ ckpt[j]
CanResume == {j \in Resumable : MaxAttempts > 0 /\ Begun(j)}
CanRelaunch == {j \in Jobs : MaxAttempts > 0 /\ InFlight(j) /\ ~Begun(j) /\ launch[j]}

Exhausted_OffByOne ==
    {j \in CanResume \cup CanRelaunch : ~stamp[j] /\ attempts[j] > MaxAttempts}

Exhausted == {j \in CanResume \cup CanRelaunch : ~stamp[j] /\ attempts[j] >= MaxAttempts}

PlanRecovery ==
    [resume    |-> CanResume \ Exhausted,
     relaunch  |-> CanRelaunch \ Exhausted,
     exhausted |-> Exhausted,
     counted   |-> {j \in (CanResume \cup CanRelaunch) \ Exhausted : ~stamp[j]}]

\* take_back_jobs: plan, fail the exhausted jobs (fail_jobs) ...
BootPlan ==
    /\ orch = "down"
    /\ plan' = PlanRecovery
    /\ status' = [j \in Jobs |-> IF j \in Exhausted THEN "failed" ELSE status[j]]
    /\ orch' = "planned"
    /\ UNCHANGED <<launch, ckpt, stamp, attempts, wait, task, drained, tick, killed, last, stops>>

Recovered == plan.resume \cup plan.relaunch

TakeBack_StampKept ==
    /\ orch = "planned"
    /\ attempts' = [j \in Jobs |-> IF j \in plan.counted THEN attempts[j] + 1 ELSE attempts[j]]
    /\ orch' = "taken"
    /\ UNCHANGED <<status, launch, ckpt, stamp, wait, task, drained, plan, tick, killed, last, stops>>

\* ... and take the others back (begin_recovery).
TakeBack ==
    /\ orch = "planned"
    /\ stamp' = [j \in Jobs |-> stamp[j] /\ j \notin Recovered]
    /\ attempts' = [j \in Jobs |-> IF j \in plan.counted THEN attempts[j] + 1 ELSE attempts[j]]
    /\ orch' = "taken"
    /\ UNCHANGED <<status, launch, ckpt, wait, task, drained, plan, tick, killed, last, stops>>

\* Any of it may raise, before or after its writes: then no job is recovered.
PlanningFails ==
    /\ "planning" \in Windows
    /\ orch \in {"down", "planned", "taken"}
    /\ plan' = NoPlan
    /\ orch' = "taken"
    /\ UNCHANGED <<rows, task, drained, tick, killed, last, stops>>

FailOrphaned_RunningOnly ==
    /\ orch = "taken"
    /\ status' = [j \in Jobs |-> IF status[j] = "running" /\ j \notin Recovered THEN "failed" ELSE status[j]]
    /\ orch' = "reconciled"
    /\ UNCHANGED <<launch, ckpt, stamp, attempts, wait, task, drained, plan, tick, killed, last, stops>>

\* fail_orphaned: the jobs in flight that are not recovered fail.
FailOrphaned ==
    /\ orch = "taken"
    /\ status' = [j \in Jobs |-> IF InFlight(j) /\ j \notin Recovered THEN "failed" ELSE status[j]]
    /\ orch' = "reconciled"
    /\ UNCHANGED <<launch, ckpt, stamp, attempts, wait, task, drained, plan, tick, killed, last, stops>>

StartRecovered_ResumesOnly ==
    /\ orch = "reconciled"
    /\ task' = [j \in Jobs |-> IF j \in plan.resume THEN Task("launching", "restart") ELSE NoTask]
    /\ plan' = NoPlan
    /\ orch' = "up"
    /\ UNCHANGED <<rows, drained, tick, killed, last, stops>>

\* _start_recovered_jobs: resume_after_restart, or relaunch.
StartRecovered ==
    /\ orch = "reconciled"
    /\ task' = [j \in Jobs |-> IF j \in plan.resume THEN Task("launching", "restart")
                               ELSE IF j \in plan.relaunch THEN Task("launching", "start")
                               ELSE NoTask]
    /\ plan' = NoPlan
    /\ orch' = "up"
    /\ UNCHANGED <<rows, drained, tick, killed, last, stops>>

Boot == BootPlan \/ TakeBack \/ PlanningFails \/ FailOrphaned \/ StartRecovered

Stop == Drain \/ Mark \/ Exit \/ Crash

Next == Stop \/ Boot \/ Tick \/ \E j \in Jobs : Dispatch(j) \/ Work(j) \/ Deadline(j)

Spec == Init /\ [][Next]_vars

(***************************************************************************)
(* Tasks are scheduled and their awaits return; a drain has a deadline and *)
(* the supervisor starts the process again.  Nobody has to dispatch, and   *)
(* the loop need not find an account ready.                                *)
(***************************************************************************)
Fairness ==
    /\ \A j \in Jobs : WF_vars(Work(j)) /\ WF_vars(Deadline(j))
    /\ WF_vars(Mark)
    /\ WF_vars(Exit)
    /\ WF_vars(Boot)

FairSpec == Spec /\ Fairness

-----------------------------------------------------------------------------
(* What the code is to keep.                                               *)

\* The types of the job rows, the tasks, the loop's pass and the process.
TypeOK ==
    /\ status \in [Jobs -> {"absent", "pending", "running", "paused", "awaiting_input",
                            "completed", "failed"}]
    /\ launch \in [Jobs -> BOOLEAN]
    /\ ckpt \in [Jobs -> BOOLEAN]
    /\ stamp \in [Jobs -> BOOLEAN]
    /\ attempts \in [Jobs -> Nat]
    /\ wait \in [Jobs -> {"none", "resume", "relaunch"}]
    /\ task \in [Jobs -> [pc: JobPhases, kind: {"none", "start", "restart", "account"}]]
    /\ orch \in {"up", "draining", "marked", "down", "planned", "taken", "reconciled"}
    /\ drained \subseteq Jobs
    /\ plan \in [resume: SUBSET Jobs, relaunch: SUBSET Jobs, exhausted: SUBSET Jobs,
                 counted: SUBSET Jobs]
    /\ tick \in [pc: {"idle", "listing", "claiming"},
                 listed: SUBSET [job: Jobs, mode: {"none", "resume", "relaunch"}]]
    /\ killed \in [Jobs -> Nat]
    /\ last \in {"none", "clean", "crash"}
    /\ stops \in Nat

(***************************************************************************)
(* No job is recovered after more unclean stops than MAX_RESUME_ATTEMPTS,  *)
(* whatever drains, boots that crash half way and account waits come       *)
(* between.                                                                *)
(***************************************************************************)
AttemptsWithinLimit == \A j \in Jobs : attempts[j] <= MaxAttempts

(***************************************************************************)
(* "A job that keeps taking the orchestrator down with it must not come    *)
(* back forever": a job executes through at most one crash more than it    *)
(* has attempts, across any number of drains and parked waits.             *)
(***************************************************************************)
CrashesBounded == \A j \in Jobs : killed[j] <= MaxAttempts + 1

(***************************************************************************)
(* What MAX_RESUME_ATTEMPTS limits: the attempts a row is charged, and the *)
(* crashes its job can be party to, which the row does not count.          *)
(***************************************************************************)
RetriesBounded == AttemptsWithinLimit /\ CrashesBounded

(***************************************************************************)
(* "A clean drain does not count": the recovery of any job, also one that  *)
(* was dispatched while the drain was on, costs it no attempt.             *)
(***************************************************************************)
CleanStopFree == [][last = "clean" => attempts' = attempts]_vars

(***************************************************************************)
(* "Every job stopped is resumed from its checkpoint when the orchestrator *)
(* is back": the boot after a clean drain fails no job of a resumable      *)
(* pipeline, whether it was running, queued or only just dispatched.       *)
(***************************************************************************)
DrainLosesNothing ==
    [][last = "clean" /\ orch \in {"down", "planned", "taken"} =>
          \A j \in Resumable : InFlight(j) => status'[j] # "failed"]_vars

(***************************************************************************)
(* A drain that ends in time is free of charge: it costs no job an         *)
(* attempt, and none of them its life.                                     *)
(***************************************************************************)
CleanDrainFree == CleanStopFree /\ DrainLosesNothing

(***************************************************************************)
(* Once the process is up, a job that says it is in flight has a task: one *)
(* that has not would be refused, skipped and kept by everything else.     *)
(***************************************************************************)
InFlightHasTask == orch = "up" => \A j \in Jobs : InFlight(j) => task[j] # NoTask

(***************************************************************************)
(* Through drains, crashes and boots, a job in flight comes to an end, or  *)
(* to wait for its account.                                                *)
(***************************************************************************)
ComesToRest == \A j \in Jobs : InFlight(j) ~> ~InFlight(j)
=============================================================================
