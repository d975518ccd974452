--------------------------- MODULE IssueLifecycle ---------------------------
(***************************************************************************)
(* One issue, the jobs dispatched for it, and every asyncio task and       *)
(* request handler that moves their two status columns: IssueExecutor      *)
(* (services/issue_executor.py with _executor_run.py and                   *)
(* _executor_outcomes.py), the issue and job routes that answer, resume,   *)
(* triage and cancel, and the boot half of api/app.py.                     *)
(*                                                                         *)
(* The handlers are coroutines of one event loop over one Postgres         *)
(* database: what happens between two awaits is one step, and an           *)
(* update(status=...) is two, the SELECT that reads the status and the     *)
(* compare-and-swap UPDATE, with anything in between.                      *)
(*                                                                         *)
(* Left out: the wait for an LLM account, the reaper's expiry of a paused  *)
(* job, the pull request statuses after "completed", the limit on running  *)
(* jobs (RunSlots: here a slot is granted at some time), and the jobs of   *)
(* other issues.                                                           *)
(***************************************************************************)
EXTENDS Naturals, Sequences, FiniteSets, StatusTables

CONSTANTS MaxJobs,       \* bound: jobs ever created for the issue
          MaxProcs,      \* bound: coroutines alive at once
          MaxRequests,   \* bound: request handlers alive at once
          MaxQuestions,  \* bound: a job with so many questions asks no more
          RoundSize,     \* bound: questions one interrupt carries
          MaxStops,      \* bound: crashes and shutdowns
          Kinds,         \* the requests that arrive
          Channels,      \* the channels a reply may come over
          Patient,       \* TRUE: people leave alone what is at work (see below)
          Faults         \* what goes wrong (see FaultsAssumption)

RequestKinds == {"triage", "reply", "comment", "continue", "cancel"}
TaskKinds == {"fresh", "answer", "choice", "restart"}

\* Boot puts the task of a job it takes back at the place of the job's number.
ASSUME BoundsAssumption ==
    /\ MaxJobs \in Nat /\ MaxProcs \in Nat /\ MaxRequests \in Nat
    /\ MaxQuestions \in Nat /\ RoundSize \in Nat /\ MaxStops \in Nat
    /\ {"crash", "drain"} \cap Faults # {} => MaxJobs <= MaxProcs

ASSUME KindsAssumption == Kinds \subseteq RequestKinds

\* The process crashes, it is drained, the proxies refuse a sandbox; "late": a
\* crash or a drain's deadline falls between the last node of a run and the
\* job's terminal status; "gate": the budget gate's check raises.
ASSUME FaultsAssumption == Faults \subseteq {"crash", "drain", "reenroll", "late", "gate"}

ASSUME ChannelsAssumption == Channels \subseteq {"job", "issue", "inbound"}

Jobs == 1..MaxJobs
Procs == 1..MaxProcs

VARIABLES issue,    \* issues.status
          job,      \* jobs.status of each job, "absent" before its INSERT
          launch,   \* whether jobs.launch is recorded
          ckpt,     \* the LangGraph checkpoint of each job's thread
          input,    \* issue_inputs: the questions each job asked, in order
          proc,     \* the coroutines
          byJob,    \* IssueExecutor._tasks_by_job; 0 when there is none
          orch,     \* the orchestrator process
          boot,     \* what the boot in progress took back and failed
          stops     \* crashes and shutdowns so far

vars == <<issue, job, launch, ckpt, input, proc, byJob, orch, boot, stops>>

(***************************************************************************)
(* A checkpoint is absent, at a node boundary, at an interrupt() with      *)
(* questions for a person, at one with none or whose questions all answer  *)
(* themselves ("moot"), at the one that offers choices after max_retries,  *)
(* or past the last node.                                                  *)
(***************************************************************************)
Checkpoints == {"none", "node", "asked", "moot", "stuck", "end"}

NoStatus == "unread"

(***************************************************************************)
(* A coroutine: where it stands, what it is, its job, the status its       *)
(* current update() has read, the statuses a resume found (prior_job_status*)
(* and prior_issue_status), how the run it finishes ended, its channel,    *)
(* and a number it carries: the question answered, the job it creates, or  *)
(* the task it cancels.                                                    *)
(***************************************************************************)
Coroutine(pc, kind, j) ==
    [pc |-> pc, kind |-> kind, job |-> j, seen |-> NoStatus,
     priorJob |-> NoStatus, priorIssue |-> NoStatus,
     ending |-> "none", channel |-> "none", number |-> 0]

Idle == Coroutine("idle", "none", 0)

Init ==
    /\ issue = "open"
    /\ job = [j \in Jobs |-> "absent"]
    /\ launch = [j \in Jobs |-> FALSE]
    /\ ckpt = [j \in Jobs |-> "none"]
    /\ input = [j \in Jobs |-> <<>>]
    /\ proc = [p \in Procs |-> Idle]
    /\ byJob = [j \in Jobs |-> 0]
    /\ orch = "up"
    /\ boot = [keep |-> {}, orphaned |-> {}]
    /\ stops = 0

-----------------------------------------------------------------------------
(* Steps of a coroutine. *)

At(p, pc) == proc[p].pc = pc

\* p goes on at pc; a request handler that is done leaves its place.
Goto(p, pc) ==
    proc' = [proc EXCEPT ![p] =
                IF pc = "idle" THEN Idle ELSE [@ EXCEPT !.pc = pc, !.seen = NoStatus]]

IsTask(p) == proc[p].kind \in TaskKinds

\* Where an exception leaves p: a run fails its job, a request answers 500.
Raised(p) == IF IsTask(p) THEN "fail_job" ELSE "idle"

JobWrites == {"refuse_job", "start", "resume_job", "pause_job", "finish_job",
              "auto_job", "fail_job", "putback_job", "cancel_job"}

IssueWrites == {"refuse_issue", "resume_issue", "pause_issue", "finish_issue", "fail_issue",
                "putback_issue", "cancel_issue", "claim_issue", "rollback"}

(***************************************************************************)
(* The first half of update(status=...): SELECT status.                    *)
(***************************************************************************)
ReadStatus(p) ==
    /\ proc[p].seen = NoStatus
    /\ \/ /\ proc[p].pc \in JobWrites
          /\ proc' = [proc EXCEPT ![p].seen = job[proc[p].job]]
       \/ /\ proc[p].pc \in IssueWrites
          /\ proc' = [proc EXCEPT ![p].seen = issue]
    /\ UNCHANGED <<issue, job, launch, ckpt, input, byJob, orch, boot, stops>>

(***************************************************************************)
(* The second half: the compare-and-swap.  p goes to `next`, or to         *)
(* `handler` when the update raises.                                       *)
(***************************************************************************)
UpdateJobBy(moves, p, at, new, next, handler) ==
    /\ At(p, at)
    /\ proc[p].seen # NoStatus
    /\ LET j == proc[p].job
       IN  /\ job' = [job EXCEPT ![j] = StatusAfter(moves, proc[p].seen, @, new)]
           /\ Goto(p, IF UpdateRaises(moves, proc[p].seen, job[j], new) THEN handler ELSE next)
    /\ UNCHANGED <<issue, launch, ckpt, input, byJob, orch, boot, stops>>

UpdateJob(p, at, new, next, handler) == UpdateJobBy(JobMoves, p, at, new, next, handler)

UpdateIssue(p, at, new, next, handler) ==
    /\ At(p, at)
    /\ proc[p].seen # NoStatus
    /\ issue' = StatusAfter(IssueMoves, proc[p].seen, issue, new)
    /\ Goto(p, IF UpdateRaises(IssueMoves, proc[p].seen, issue, new) THEN handler ELSE next)
    /\ UNCHANGED <<job, launch, ckpt, input, byJob, orch, boot, stops>>

\* purge_thread: the job's checkpoint is deleted.
Purge(p, at, next) ==
    /\ At(p, at)
    /\ ckpt' = [ckpt EXCEPT ![proc[p].job] = "none"]
    /\ Goto(p, next)
    /\ UNCHANGED <<issue, job, launch, input, byJob, orch, boot, stops>>

\* A step that only moves p.
Step(p, at, pc) ==
    /\ At(p, at)
    /\ Goto(p, pc)
    /\ UNCHANGED <<issue, job, launch, ckpt, input, byJob, orch, boot, stops>>

-----------------------------------------------------------------------------
(* IssueExecutor.execute, for a triage request, for a late answer and for   *)
(* questions that answer themselves.                                       *)

\* The caller moves the issue to triaging first.
ClaimIssue(p) == UpdateIssue(p, "claim_issue", "triaging", "exec", Raised(p))

(***************************************************************************)
(* The guards of execute: a job of the issue is active, or its repository  *)
(* is not registered.                                                      *)
(***************************************************************************)
Exec(p) ==
    \/ Step(p, "exec", "rollback")
    \/ /\ \A j \in Jobs : job[j] \notin ActiveStatuses
       /\ Step(p, "exec", "create")

Create_OwnStatus(p) ==
    /\ At(p, "create")
    /\ job[1] = "absent"
    /\ job' = [job EXCEPT ![1] = "queued"]
    /\ proc' = [proc EXCEPT ![p].pc = "track", ![p].number = 1]
    /\ UNCHANGED <<issue, launch, ckpt, input, byJob, orch, boot, stops>>

\* jobs.create; at the bound it stands for an INSERT that failed.
Create(p) ==
    \/ \E j \in Jobs :
          /\ At(p, "create")
          /\ job[j] = "absent" /\ \A i \in 1..(j - 1) : job[i] # "absent"
          /\ job' = [job EXCEPT ![j] = "pending"]
          /\ proc' = [proc EXCEPT ![p].pc = "track", ![p].number = j]
          /\ UNCHANGED <<issue, launch, ckpt, input, byJob, orch, boot, stops>>
    \/ /\ \A j \in Jobs : job[j] # "absent"
       /\ Step(p, "create", "rollback")

\* _track_task, after the audit and ledger writes: the request's place goes
\* to the new task, a run that triages again ends.
Track(p) ==
    /\ At(p, "track")
    /\ LET j == proc[p].number
       IN  \E q \in IF IsTask(p) THEN {r \in Procs : proc[r] = Idle} ELSE {p} :
              /\ proc' = [r \in Procs |-> IF r = q THEN Coroutine("launching", "fresh", j)
                                          ELSE IF r = p THEN [proc[p] EXCEPT !.pc = "unwind"]
                                          ELSE proc[r]]
              /\ byJob' = [byJob EXCEPT ![j] = q]
    /\ UNCHANGED <<issue, job, launch, ckpt, input, orch, boot, stops>>

\* A dispatch that failed puts the issue back to open.
Rollback(p) == UpdateIssue(p, "rollback", "open", IF IsTask(p) THEN "unwind" ELSE "idle", Raised(p))

Dispatch(p) == ClaimIssue(p) \/ Exec(p) \/ Create(p) \/ Track(p) \/ Rollback(p)

-----------------------------------------------------------------------------
(* A task before it holds its slot.                                        *)

\* _run_in_slot: record the launch; a draining executor starts nothing.
Launch(p) ==
    /\ At(p, "launching")
    /\ launch' = [launch EXCEPT ![proc[p].job] = TRUE]
    /\ Goto(p, IF orch = "draining" THEN "unwind" ELSE "slot")
    /\ UNCHANGED <<issue, job, ckpt, input, byJob, orch, boot, stops>>

\* _acquire_run_slot returns.
TakeSlot(p) == Step(p, "slot", IF proc[p].kind = "fresh" THEN "gate" ELSE "stream")

\* _refuse_if_over_budget, asked while the job is still pending, inside the try.
Gate(p) ==
    \/ \E pc \in {"start", "refuse_job"} : Step(p, "gate", pc)
    \/ "gate" \in Faults /\ Step(p, "gate", "fail_job")

RefuseJob_NoRevert(p) ==
    UpdateJobBy(JobMoves \cup GateRefusal, p, "refuse_job", "failed", "unwind", "unwind")

RefuseJob(p) ==
    UpdateJobBy(JobMoves \cup GateRefusal, p, "refuse_job", "failed", "refuse_issue", "refuse_issue")

RefuseIssue(p) == UpdateIssue(p, "refuse_issue", "open", "unwind", "unwind")

\* _run_workflow marks the job running.
Start(p) == UpdateJob(p, "start", "running", "stream", "fail_job")

\* resume() keeps what it finds, to be able to put it back ...
KeepPrior(p) ==
    /\ \/ /\ At(p, "prior_job")
          /\ proc' = [proc EXCEPT ![p].priorJob = job[proc[p].job], ![p].pc = "prior_issue"]
       \/ /\ At(p, "prior_issue")
          /\ proc' = [proc EXCEPT ![p].priorIssue = issue, ![p].pc = "resume_job"]
    /\ UNCHANGED <<issue, job, launch, ckpt, input, byJob, orch, boot, stops>>

\* ... marks job and issue running, and only then waits for a slot.
ResumeJob(p) == UpdateJob(p, "resume_job", "running", "resume_issue", "fail_job")

ResumeIssue(p) == UpdateIssue(p, "resume_issue", "triaging", "slot", "fail_job")

\* The proxies do not take the job's sandbox back (SandboxReenrollError).
ReenrollFails(p) ==
    /\ "reenroll" \in Faults
    /\ At(p, "stream")
    /\ proc[p].kind # "fresh"
    /\ proc' = [proc EXCEPT ![p].pc = IF proc[p].kind = "restart" THEN "fail_job" ELSE "putback_job",
                            ![p].ending = "refused"]
    /\ UNCHANGED <<issue, job, launch, ckpt, input, byJob, orch, boot, stops>>

(***************************************************************************)
(* That, or a drain that cancelled the wait for the slot: nothing ran, so  *)
(* job and issue go back to where the resume found them.  Only the second  *)
(* is inside the try whose "except Exception" fails the job.               *)
(***************************************************************************)
PutBackRaised(p) == IF proc[p].ending = "refused" THEN "unwind" ELSE "fail_job"

PutBackJob(p) ==
    UpdateJob(p, "putback_job", proc[p].priorJob, "putback_issue", PutBackRaised(p))

PutBackIssue(p) ==
    UpdateIssue(p, "putback_issue", proc[p].priorIssue, "unwind", PutBackRaised(p))

BeforeTheRun(p) ==
    \/ Launch(p) \/ TakeSlot(p) \/ Gate(p) \/ RefuseJob(p) \/ RefuseIssue(p) \/ Start(p)
    \/ KeepPrior(p) \/ ResumeJob(p) \/ ResumeIssue(p) \/ ReenrollFails(p) \/ PutBackJob(p) \/ PutBackIssue(p)

\* The pcs of a task that is not in _started_jobs yet.
NotStarted == {"launching", "slot", "prior_job", "prior_issue", "resume_job", "resume_issue"}

-----------------------------------------------------------------------------
(* The graph's run.                                                        *)

\* While a drain is on, a run leaves at its next node boundary with
\* ShutdownInterrupt, which no failure path sees.
NextOrDrained(pc) == IF orch = "draining" THEN "unwind" ELSE pc

Reaches(p, at, point, pc) ==
    /\ At(p, at)
    /\ ckpt' = [ckpt EXCEPT ![proc[p].job] = point]
    /\ Goto(p, pc)
    /\ UNCHANGED <<issue, job, launch, input, byJob, orch, boot, stops>>

(***************************************************************************)
(* The stream begins: a first run works through its first node, a resume   *)
(* passes the interrupt with the answer it was given, and a run that goes  *)
(* on after a restart comes to the interrupt it stopped at again.  A graph *)
(* past its last node streams nothing, and a resume that streamed nothing  *)
(* writes no status.  With no checkpoint left the stream raises.           *)
(***************************************************************************)
EnterStream(p) ==
    /\ At(p, "stream")
    /\ LET here == ckpt[proc[p].job]
           pc == CASE here = "node" -> "nodes"
                   [] here = "asked" -> "asking"
                   [] here = "moot" -> "auto_job"
                   [] here = "stuck" -> "pause_job"
                   [] here = "end" -> "unwind"
       IN  IF orch = "draining" THEN Step(p, "stream", "unwind")
           ELSE IF proc[p].kind # "fresh" /\ here = "none" THEN Step(p, "stream", "fail_job")
           ELSE IF proc[p].kind = "restart" THEN Step(p, "stream", pc)
           ELSE Reaches(p, "stream", "node", "nodes")

\* A node calls interrupt() with questions, or offers the retry choices.
Ask(p) ==
    /\ At(p, "nodes")
    /\ Len(input[proc[p].job]) < MaxQuestions
    /\ Reaches(p, "nodes", "asked", NextOrDrained("asking"))

AskNothing(p) == Reaches(p, "nodes", "moot", NextOrDrained("auto_job"))

GetStuck(p) == Reaches(p, "nodes", "stuck", NextOrDrained("pause_job"))

(***************************************************************************)
(* The last node has run, and how it ended decides the statuses.  A drain  *)
(* closes the stream before the graph takes the node in, and the node's    *)
(* result is streamed again after the restart.                             *)
(***************************************************************************)
EndRun(p) ==
    /\ At(p, "nodes")
    /\ IF orch = "draining" THEN Goto(p, "unwind") /\ UNCHANGED ckpt
       ELSE /\ \E ending \in {"completed", "failed", "split"} :
                  proc' = [proc EXCEPT ![p].pc = "finish_job", ![p].ending = ending]
            /\ ckpt' = [ckpt EXCEPT ![proc[p].job] = "end"]
    /\ UNCHANGED <<issue, job, launch, input, byJob, orch, boot, stops>>

Raise_Swallowed(p) == Step(p, "nodes", "unwind")

\* A node raised.
Raise(p) == Step(p, "nodes", "fail_job")

PauseJob_JobOnly(p) == UpdateJob(p, "pause_job", "paused", "unwind", "fail_job")

\* _handle_interrupt at max_retries: the job pauses, its issue is open.
PauseJob(p) == UpdateJob(p, "pause_job", "paused", "pause_issue", "fail_job")

PauseIssue(p) == UpdateIssue(p, "pause_issue", "open", "unwind", "fail_job")

\* The blocking rows of one interrupt; one that answers itself is never pending.
AddQuestions(j) ==
    \E n \in 1..RoundSize : input' = [input EXCEPT ![j] = @ \o [i \in 1..n |-> "pending"]]

(***************************************************************************)
(* _handle_needs_info with blocking questions: one transaction inserts the *)
(* questions and moves job and issue, or nothing at all when either of     *)
(* them was moved by somebody else.                                        *)
(***************************************************************************)
Asking(p) ==
    /\ At(p, "asking")
    /\ IF /\ CasMatches(job[proc[p].job], "awaiting_input", {"running"})
          /\ CasMatches(issue, "awaiting_input", {"triaging", "in_progress"})
       THEN /\ job' = [job EXCEPT ![proc[p].job] = "awaiting_input"]
            /\ issue' = "awaiting_input"
            /\ AddQuestions(proc[p].job)
       ELSE UNCHANGED <<job, issue, input>>
    /\ Goto(p, "unwind")
    /\ UNCHANGED <<launch, ckpt, byJob, orch, boot, stops>>

(***************************************************************************)
(* _handle_workflow_result: the job's terminal write, the purge of its     *)
(* checkpoint, the issue's write.  A split (_handle_split) completes the   *)
(* job, keeps the checkpoint and opens the issue for its children.         *)
(***************************************************************************)
FinishJob(p) ==
    UpdateJob(p, "finish_job", IF proc[p].ending = "failed" THEN "failed" ELSE "completed",
              IF proc[p].ending = "split" THEN "finish_issue" ELSE "finish_purge", "fail_job")

FinishPurge(p) == Purge(p, "finish_purge", "finish_issue")

FinishIssue(p) ==
    UpdateIssue(p, "finish_issue", IF proc[p].ending = "completed" THEN "closed" ELSE "open",
                "unwind", "fail_job")

\* Questions that answer themselves: the job is done, triage runs again.  An
\* interrupt without any question fails the job and opens the issue.
AutoJob(p) ==
    \/ UpdateJob(p, "auto_job", "completed", "claim_issue", "fail_job")
    \/ UpdateJob(p, "auto_job", "failed", "finish_issue", "fail_job")

(***************************************************************************)
(* The "except Exception" of _run_workflow, and _fail_resume, which leaves *)
(* the checkpoint.  What it raises itself ends the task.                   *)
(***************************************************************************)
FailJob(p) == UpdateJob(p, "fail_job", "failed", "fail_issue", "unwind")

FailIssue(p) ==
    UpdateIssue(p, "fail_issue", "open",
                IF proc[p].kind = "fresh" THEN "fail_purge" ELSE "unwind", "unwind")

FailPurge(p) == Purge(p, "fail_purge", "unwind")

\* The finally blocks and the done callback: the task is gone.
Unwind(p) ==
    /\ At(p, "unwind")
    /\ proc' = [proc EXCEPT ![p] = Idle]
    /\ byJob' = [j \in Jobs |-> IF byJob[j] = p THEN 0 ELSE byJob[j]]
    /\ UNCHANGED <<issue, job, launch, ckpt, input, orch, boot, stops>>

TheRun(p) ==
    \/ EnterStream(p) \/ Ask(p) \/ AskNothing(p) \/ GetStuck(p) \/ EndRun(p) \/ Raise(p)
    \/ PauseJob(p) \/ PauseIssue(p) \/ Asking(p) \/ AutoJob(p)
    \/ FinishJob(p) \/ FinishPurge(p) \/ FinishIssue(p)
    \/ FailJob(p) \/ FailIssue(p) \/ FailPurge(p) \/ Unwind(p)

AfterCancel_AnyAwait(c, draining) ==
    [c EXCEPT !.seen = NoStatus,
              !.pc = IF draining /\ c.pc \in {"slot", "stream", "nodes"} /\ c.kind \in {"answer", "choice"}
                     THEN "putback_job" ELSE "unwind"]

(***************************************************************************)
(* task.cancel(): CancelledError at the await the task is in.  Only a      *)
(* resume that waits for its slot while the executor drains handles it.    *)
(***************************************************************************)
AfterCancel(c, draining) ==
    [c EXCEPT !.seen = NoStatus,
              !.pc = IF draining /\ c.pc = "slot" /\ c.kind \in {"answer", "choice"}
                     THEN "putback_job" ELSE "unwind"]

-----------------------------------------------------------------------------
(* Requests.  With Patient, nobody triages an issue or continues a paused  *)
(* job while a task is still at work, or triages an issue with an active   *)
(* job; the routes do not ask for that.                                    *)

NoTask == \A p \in Procs : ~IsTask(p)

\* A handler starts; the least free place is taken.
Begin(p, kind, c) ==
    /\ orch = "up"
    /\ kind \in Kinds
    /\ proc[p] = Idle
    /\ \A q \in 1..(p - 1) : proc[q] # Idle
    /\ Cardinality({q \in Procs : proc[q].kind \in RequestKinds}) < MaxRequests
    /\ proc' = [proc EXCEPT ![p] = c]
    /\ UNCHANGED <<issue, job, launch, ckpt, input, byJob, orch, boot, stops>>

\* schedule_resume: a draining executor refuses, else p's place is the task's.
Schedule(p, kind, j) ==
    /\ IF orch = "draining"
       THEN Goto(p, "idle") /\ UNCHANGED byJob
       ELSE /\ proc' = [proc EXCEPT ![p] = Coroutine("prior_job", kind, j)]
            /\ byJob' = [byJob EXCEPT ![j] = p]
    /\ UNCHANGED <<issue, job, launch, ckpt, input, orch, boot, stops>>

\* POST /issues/{id}/triage, and POST /issues with auto_triage.  The route
\* refuses triaging, closed and cancelled issues.
BeginTriage(p) ==
    /\ issue \notin {"triaging", "closed", "cancelled"}
    /\ Patient => NoTask /\ \A j \in Jobs : job[j] \notin ActiveStatuses
    /\ Begin(p, "triage", Coroutine("claim_issue", "triage", 0))

\* POST /jobs/{id}/resume of a paused job.
BeginContinue(p) ==
    \E j \in Jobs :
       /\ job[j] = "paused"
       /\ Patient => NoTask
       /\ Begin(p, "continue", Coroutine("continue", "continue", j))

Continue(p) == At(p, "continue") /\ Schedule(p, "choice", proc[p].job)

(***************************************************************************)
(* An answer to question n of job j, over the job route, the issue route   *)
(* or an inbound channel (a GitHub comment, a Telegram reply).  A skipped  *)
(* question is as little pending as an answered one, and stands for one.   *)
(***************************************************************************)
BeginReply(p) ==
    \E j \in Jobs, c \in Channels : \E n \in DOMAIN input[j] :
       /\ input[j][n] # "answered"
       /\ Begin(p, "reply",
                [Coroutine("record", "reply", j) EXCEPT !.channel = c, !.number = n])

\* A comment on the issue whose directives match no pending question.
BeginComment(p) ==
    Begin(p, "comment", [Coroutine("count", "comment", 0) EXCEPT !.channel = "inbound"])

\* record_answer; then come the other channels and the tracker comment.
Record(p) ==
    /\ At(p, "record")
    /\ LET j == proc[p].job  n == proc[p].number
       IN  input' = [input EXCEPT ![j] = [i \in DOMAIN @ |-> IF i = n THEN "answered" ELSE @[i]]]
    /\ Goto(p, "count")
    /\ UNCHANGED <<issue, job, launch, ckpt, byJob, orch, boot, stops>>

PendingOf(j) == {n \in DOMAIN input[j] : input[j][n] = "pending"}

CountPending_Any(p) == Step(p, "count", "guard")

CountPending_BeforeRecord(p) ==
    LET asked == IF proc[p].channel = "job" THEN {proc[p].job} ELSE Jobs
    IN  Step(p, "count",
             IF proc[p].kind = "comment" /\ \A j \in asked : PendingOf(j) = {} THEN "guard" ELSE "idle")

\* The handler goes on only once no blocking question is left.
CountPending(p) ==
    LET asked == IF proc[p].channel = "job" THEN {proc[p].job} ELSE Jobs
    IN  Step(p, "count", IF \A j \in asked : PendingOf(j) = {} THEN "guard" ELSE "idle")

(***************************************************************************)
(* The idempotency guards: the job route reads the job again, the others   *)
(* the issue (_resume_pipeline, resume_for_issue).                         *)
(***************************************************************************)
Guard(p) ==
    Step(p, "guard",
         IF proc[p].channel = "job"
         THEN IF job[proc[p].job] = "awaiting_input" THEN "resume" ELSE "idle"
         ELSE IF issue = "awaiting_input" THEN "find" ELSE "idle")

Resume(p) == At(p, "resume") /\ Schedule(p, "answer", proc[p].job)

Find_Newest(p) ==
    \E j \in Jobs :
       /\ job[j] # "absent" /\ \A k \in Jobs : job[k] # "absent" => k <= j
       /\ At(p, "find")
       /\ Schedule(p, "answer", j)

\* The issue's newest job that awaits input is resumed.  With none left,
\* resume_or_execute starts a new job and resume_for_issue does nothing.
Find(p) ==
    LET waiting == {j \in Jobs : job[j] = "awaiting_input"}
    IN  \/ \E j \in waiting :
              /\ \A k \in waiting : k <= j
              /\ At(p, "find")
              /\ Schedule(p, "answer", j)
        \/ /\ waiting = {}
           /\ Step(p, "find", IF proc[p].channel = "issue" THEN "claim_issue" ELSE "idle")

Reply(p) == Record(p) \/ CountPending(p) \/ Guard(p) \/ Resume(p) \/ Find(p)

\* POST /jobs/{id}/cancel.
BeginCancel(p) ==
    \E j \in Jobs :
       /\ job[j] \in ActiveStatuses
       /\ Begin(p, "cancel", Coroutine("cancel_task", "cancel", j))

CancelTask_NotCancelled(p) ==
    /\ At(p, "cancel_task")
    /\ Step(p, "cancel_task", "cancel_job")

\* cancel_job: the task registered for the job is cancelled ...
CancelTask(p) ==
    /\ At(p, "cancel_task")
    /\ LET t == byJob[proc[p].job]
       IN  proc' = [q \in Procs |->
                       IF q = p THEN [proc[p] EXCEPT !.pc = IF t = 0 THEN "cancel_job" ELSE "cancel_wait",
                                                     !.number = t]
                       ELSE IF q = t THEN AfterCancel(proc[q], orch = "draining")
                       ELSE proc[q]]
    /\ UNCHANGED <<issue, job, launch, ckpt, input, byJob, orch, boot, stops>>

\* ... waited for, five seconds at most, and then looked at again ...
CancelWait(p) ==
    /\ At(p, "cancel_wait")
    /\ Step(p, "cancel_wait",
            IF byJob[proc[p].job] = proc[p].number THEN "cancel_recheck" ELSE "cancel_job")

CancelRecheck(p) ==
    Step(p, "cancel_recheck",
         IF job[proc[p].job] \in {"completed", "failed"} THEN "idle" ELSE "cancel_job")

\* ... the rows are written, whatever the writes raise, and the checkpoint goes.
CancelJob(p) == UpdateJob(p, "cancel_job", "cancelled", "cancel_issue", "cancel_issue")

CancelIssue(p) == UpdateIssue(p, "cancel_issue", "open", "cancel_purge", "cancel_purge")

CancelPurge(p) == Purge(p, "cancel_purge", "idle")

Cancel(p) ==
    CancelTask(p) \/ CancelWait(p) \/ CancelRecheck(p) \/ CancelJob(p) \/ CancelIssue(p) \/ CancelPurge(p)

Arrival(p) ==
    BeginTriage(p) \/ BeginContinue(p) \/ BeginReply(p) \/ BeginComment(p) \/ BeginCancel(p)

-----------------------------------------------------------------------------
(* The process: drain, crash, boot.                                        *)

\* IssueExecutor.drain, once the server has let the requests under way end
\* and takes no more: no job starts any longer.
Drain ==
    /\ "drain" \in Faults
    /\ orch = "up"
    /\ \A p \in Procs : proc[p].kind \notin RequestKinds
    /\ stops < MaxStops
    /\ orch' = "draining"
    /\ stops' = stops + 1
    /\ proc' = [p \in Procs |-> IF proc[p].pc \in NotStarted /\ \E j \in Jobs : byJob[j] = p
                                THEN AfterCancel(proc[p], TRUE) ELSE proc[p]]
    /\ UNCHANGED <<issue, job, launch, ckpt, input, byJob, boot>>

\* No job of J is past its last node without a terminal status.
NotLate(J) == "late" \in Faults \/ \A j \in J : job[j] = "running" => ckpt[j] # "end"

\* The drain's deadline passed while the task was still at work.
DrainDeadline(p) ==
    /\ orch = "draining"
    /\ \E j \in Jobs : byJob[j] = p
    /\ proc[p].pc # "unwind"
    /\ NotLate({proc[p].job})
    /\ proc' = [proc EXCEPT ![p] = AfterCancel(@, TRUE)]
    /\ UNCHANGED <<issue, job, launch, ckpt, input, byJob, orch, boot, stops>>

\* Every coroutine is gone with the process.
ProcessEnds ==
    /\ orch' = "down"
    /\ proc' = [p \in Procs |-> Idle]
    /\ byJob' = [j \in Jobs |-> 0]
    /\ boot' = [keep |-> {}, orphaned |-> {}]
    /\ UNCHANGED <<issue, job, launch, ckpt, input>>

\* The drain has waited for its tasks.
Exit ==
    /\ orch = "draining"
    /\ \A j \in Jobs : byJob[j] = 0
    /\ ProcessEnds
    /\ UNCHANGED stops

Crash ==
    /\ "crash" \in Faults
    /\ orch \in {"up", "draining", "booting"}
    /\ stops < MaxStops
    /\ NotLate(Jobs)
    /\ stops' = stops + 1
    /\ ProcessEnds

\* plan_recovery: a job goes on from its checkpoint, or starts again from its
\* launch record.
Resumable(j) == job[j] = "running" /\ ckpt[j] # "none"
Recoverable(j) == Resumable(j) \/ (job[j] \in InFlightStatuses /\ launch[j])

BootDecide_PendingKept ==
    /\ orch = "down"
    /\ \E keep \in SUBSET {j \in Jobs : Recoverable(j)} :
          LET orphaned == {j \in Jobs : job[j] = "running"} \ keep
          IN  /\ boot' = [keep |-> keep, orphaned |-> orphaned]
              /\ job' = [j \in Jobs |-> IF j \in orphaned THEN "failed" ELSE job[j]]
    /\ orch' = "booting"
    /\ UNCHANGED <<issue, launch, ckpt, input, proc, byJob, stops>>

(***************************************************************************)
(* take_back_jobs and fail_orphaned.  The recoverable jobs boot does not   *)
(* keep have used up their resume attempts (module Recovery).              *)
(***************************************************************************)
BootDecide ==
    /\ orch = "down"
    /\ \E keep \in SUBSET {j \in Jobs : Recoverable(j)} :
          LET orphaned == {j \in Jobs : job[j] \in InFlightStatuses} \ keep
          IN  /\ boot' = [keep |-> keep, orphaned |-> orphaned]
              /\ job' = [j \in Jobs |-> IF j \in orphaned THEN "failed" ELSE job[j]]
    /\ orch' = "booting"
    /\ UNCHANGED <<issue, launch, ckpt, input, proc, byJob, stops>>

BootStart_ReopensAll ==
    /\ orch = "booting"
    /\ issue' = IF issue \in {"triaging", "awaiting_input"} THEN "open" ELSE issue
    /\ input' = [j \in Jobs |-> IF job[j] \in {"awaiting_input", "paused"} THEN input[j] ELSE <<>>]
    /\ proc' = [p \in Procs |-> IF p \notin boot.keep THEN Idle
                                ELSE Coroutine("slot", IF Resumable(p) THEN "restart" ELSE "fresh", p)]
    /\ byJob' = [j \in Jobs |-> IF j \in boot.keep THEN j ELSE 0]
    /\ boot' = [keep |-> {}, orphaned |-> {}]
    /\ orch' = "up"
    /\ UNCHANGED <<job, launch, ckpt, stops>>

\* reopen_stuck_for_jobs, the purge of orphan inputs, then the start of the
\* jobs that were taken back (_start_recovered_jobs).
BootStart ==
    /\ orch = "booting"
    /\ issue' = IF boot.orphaned # {} /\ issue \in {"triaging", "awaiting_input"} THEN "open" ELSE issue
    /\ input' = [j \in Jobs |-> IF job[j] \in {"awaiting_input", "paused"} THEN input[j] ELSE <<>>]
    /\ proc' = [p \in Procs |-> IF p \notin boot.keep THEN Idle
                                ELSE Coroutine("slot", IF Resumable(p) THEN "restart" ELSE "fresh", p)]
    /\ byJob' = [j \in Jobs |-> IF j \in boot.keep THEN j ELSE 0]
    /\ boot' = [keep |-> {}, orphaned |-> {}]
    /\ orch' = "up"
    /\ UNCHANGED <<job, launch, ckpt, stops>>

-----------------------------------------------------------------------------

Work(p) == ReadStatus(p) \/ Dispatch(p) \/ BeforeTheRun(p) \/ TheRun(p) \/ Continue(p) \/ Reply(p) \/ Cancel(p)

Process == Drain \/ Exit \/ Crash \/ BootDecide \/ BootStart

Next == Process \/ \E p \in Procs : Work(p) \/ Arrival(p) \/ DrainDeadline(p)

Spec == Init /\ [][Next]_vars

(***************************************************************************)
(* Coroutines are scheduled, every await returns (database, network and    *)
(* agent runs have time limits), a drain ends and the supervisor starts    *)
(* the process again.  Nobody has to make a request.                       *)
(***************************************************************************)
Fairness ==
    /\ \A p \in Procs : WF_vars(Work(p))
    /\ WF_vars(Exit)
    /\ WF_vars(BootDecide)
    /\ WF_vars(BootStart)

FairSpec == Spec /\ Fairness

-----------------------------------------------------------------------------
(* What the code is to keep.                                               *)

PCs == {"idle", "claim_issue", "exec", "create", "track", "rollback", "launching", "slot", "gate",
        "refuse_job", "refuse_issue", "start", "prior_job", "prior_issue", "resume_job",
        "resume_issue", "putback_job", "putback_issue", "stream", "nodes", "pause_job",
        "pause_issue", "asking", "auto_job", "finish_job", "finish_purge", "finish_issue",
        "fail_job", "fail_issue", "fail_purge", "unwind", "continue", "record", "count", "guard",
        "resume", "find", "cancel_task", "cancel_wait", "cancel_recheck", "cancel_job",
        "cancel_issue", "cancel_purge"}

(***************************************************************************)
(* The type invariant of the two rows, the checkpoints, the questions, the *)
(* coroutines and the registry of tasks.                                   *)
(***************************************************************************)
TypeOK ==
    /\ issue \in IssueStatuses
    /\ job \in [Jobs -> JobStatuses \cup {"absent"}]
    /\ launch \in [Jobs -> BOOLEAN]
    /\ ckpt \in [Jobs -> Checkpoints]
    /\ input \in [Jobs -> Seq({"pending", "answered"})]
    /\ proc \in [Procs -> [pc: PCs, kind: RequestKinds \cup TaskKinds \cup {"none"}, job: 0..MaxJobs,
                          seen: JobStatuses \cup IssueStatuses \cup {NoStatus},
                          priorJob: JobStatuses \cup {NoStatus},
                          priorIssue: IssueStatuses \cup {NoStatus},
                          ending: {"none", "completed", "failed", "split", "refused"},
                          channel: Channels \cup {"none", "inbound"},
                          number: Nat]]
    /\ byJob \in [Jobs -> 0..MaxProcs]
    /\ orch \in {"up", "draining", "down", "booting"}
    /\ boot \in [keep: SUBSET Jobs, orphaned: SUBSET Jobs]
    /\ stops \in 0..MaxStops

\* Nothing is under way: every task has ended, every request is answered.
Quiet == orch = "up" /\ \A p \in Procs : proc[p] = Idle

\* p executes the graph of job j.
Executes(p, j) == IsTask(p) /\ proc[p].job = j /\ proc[p].pc \in {"stream", "nodes"}

(***************************************************************************)
(* A job's graph is executed by one task at a time, whatever answers,      *)
(* continues, cancels and restarts meet: two would write one checkpoint    *)
(* thread, one sandbox and one branch.  resume_for_issue calls its guard   *)
(* an "idempotency guard so cross-channel races are safe".                 *)
(***************************************************************************)
OneRunner == \A j \in Jobs : Cardinality({p \in Procs : Executes(p, j)}) <= 1

(***************************************************************************)
(* A graph is begun, or gone on with after a restart, by one task alone:   *)
(* where two run it at once, both are resumes that a person asked for.     *)
(***************************************************************************)
StartedOnce ==
    \A j \in Jobs : \A p, q \in Procs :
        p # q /\ Executes(p, j) /\ Executes(q, j) => proc[p].kind \in {"answer", "choice"}

(***************************************************************************)
(* A job that says it is in flight is worked on by some coroutine of this  *)
(* process.  One that is not stays so until the next restart: the reaper   *)
(* leaves the containers of running jobs alone, execute refuses the issue. *)
(***************************************************************************)
WorkedOn(j) ==
    \E p \in Procs : proc[p].job = j \/ (At(p, "track") /\ proc[p].number = j)

NoStrandedRun ==
    orch = "up" => \A j \in Jobs : job[j] \in InFlightStatuses => WorkedOn(j)

(***************************************************************************)
(* "When all blocking questions are answered, the pipeline resumes": no    *)
(* job is left to wait for an answer it has.                               *)
(***************************************************************************)
AnsweredJobGoesOn ==
    Quiet => \A j \in Jobs : job[j] = "awaiting_input" => PendingOf(j) # {}

(***************************************************************************)
(* A job that waits for answers is resumed only when it has all of them:   *)
(* the agents read the answers once, at the start of the resume.           *)
(***************************************************************************)
ResumedWithAnswers ==
    [][\A j \in Jobs : job[j] = "awaiting_input" /\ job'[j] = "running" => PendingOf(j) = {}]_vars

(***************************************************************************)
(* An issue says it is being triaged, or waits for a person, only while    *)
(* one of its jobs is in flight or paused; nothing else will ever move it, *)
(* and a triaging issue refuses to be triaged.                             *)
(***************************************************************************)
IssueNotStuck ==
    Quiet /\ (\A j \in Jobs : job[j] \notin ActiveStatuses)
        => issue \notin {"triaging", "awaiting_input"}

(***************************************************************************)
(* At rest the issue shows what its active job does: it waits for input    *)
(* with the job and is open beside a paused one.                           *)
(***************************************************************************)
StatusesAgree ==
    Quiet => \A j \in Jobs : /\ job[j] = "awaiting_input" => issue = "awaiting_input"
                             /\ job[j] = "paused" => issue = "open"

(***************************************************************************)
(* The issue shows its job: neither of the two rows, written one after the *)
(* other by every pause, resume, refusal and cancel, is left behind by the *)
(* other for good.                                                         *)
(***************************************************************************)
IssueShowsJob == IssueNotStuck /\ StatusesAgree

(***************************************************************************)
(* A job held for a person has the checkpoint its resume starts from:      *)
(* without it the resume fails the job whose questions were answered.      *)
(***************************************************************************)
HeldJobResumable ==
    \A j \in Jobs : /\ job[j] = "awaiting_input" => ckpt[j] = "asked"
                    /\ job[j] = "paused" => ckpt[j] = "stuck"

(***************************************************************************)
(* A cancel that comes to delete the checkpoint has a job that will never  *)
(* run again, and that nobody executes any more.                           *)
(***************************************************************************)
CancelResolves ==
    \A p \in Procs : At(p, "cancel_purge") =>
        /\ job[proc[p].job] \in TerminalStatuses
        /\ \A q \in Procs : ~Executes(q, proc[p].job)

(***************************************************************************)
(* The issue of a job that is still active is held by it: nothing that     *)
(* writes the issue (a rollback, a refusal, a finish, a cancel, a boot)    *)
(* opens it for a second job while the first lives.                        *)
(***************************************************************************)
ActiveJobHoldsIssue ==
    \A j \in Jobs : job[j] \in ActiveStatuses =>
        \/ issue = "triaging"
        \/ issue = "awaiting_input" /\ ckpt[j] = "asked"
        \/ issue = "open" /\ ckpt[j] = "stuck"

(***************************************************************************)
(* An issue is closed only on the work of a job that completed: a run that *)
(* was cancelled, failed or overtaken under its own finish closes nothing. *)
(***************************************************************************)
ClosedByCompletion == issue = "closed" => \E j \in Jobs : job[j] = "completed"

(***************************************************************************)
(* Every status change of a job is a move of the table, the refusal of its *)
(* own gate, or boot failing a job whose process is gone, whatever wrote   *)
(* the row between the read of an update and its write.                    *)
(***************************************************************************)
TransitionsLegal ==
    [][\A j \in Jobs :
          \/ job'[j] = job[j]
          \/ job[j] = "absent" /\ job'[j] = "pending"
          \/ <<job[j], job'[j]>> \in JobMoves
          \/ /\ <<job[j], job'[j]>> \in GateRefusal
             /\ \E p \in Procs : At(p, "refuse_job") /\ proc[p].job = j
          \/ orch = "down" /\ job[j] \in InFlightStatuses /\ job'[j] = "failed"]_vars

(***************************************************************************)
(* A job in flight comes to rest or to a person: no status is left         *)
(* running for ever.                                                       *)
(***************************************************************************)
JobSettles ==
    \A j \in Jobs : job[j] \in InFlightStatuses ~> job[j] \notin InFlightStatuses
=============================================================================
