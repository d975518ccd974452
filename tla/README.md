# embry0: a specification and its verification

embry0 turns issues into pull requests: it takes an issue from a tracker, runs
a graph of LLM agents over it inside a sandbox, asks a person when the agents
need to know something, and opens a pull request at the end. One orchestrator
process (FastAPI, asyncio) does it all over one Postgres database and one Docker
daemon; the graphs are LangGraph's, which keeps a checkpoint of each run in the
same database.

This directory holds TLA+ modules for the part of embry0 where a mistake costs
most: **what happens to a job and its issue while requests, runs, answers,
cancels, drains, crashes and boots meet**, and what becomes of its pull request
afterwards: **how a merge is asked for, made, learnt of and judged**. Each definition is a translation of
the source at the lines `PROJECT.json` ("map") gives for it; source paths below
are relative to `src/embry0/` unless they begin with `docs/`.

To check it: `tlc -config MCRecovery.cfg MCRecovery` runs one configuration,
`tlapm RecoveryProofs.tla` one module of proofs.

## 1. The system

### Components

"Modelled" means that each operation that changes the component's state is an
action of some module; what is left out of a "partly" is in its note in `PROJECT.json`.

| Component | Source | State | Operations | Status |
|---|---|---|---|---|
| Run slots | `orchestration/run_slots.py` | holders, two queues | claim, wait, grant, release, position | modelled: `RunSlots` |
| Issue and job lifecycle | `services/issue_executor.py`, `_executor_run.py`, `_executor_outcomes.py` | `issues.status`, `jobs.status`, `_tasks_by_job`, `_started_jobs`, checkpoints | execute, run, resume, interrupt, finish, fail, cancel | partly: `IssueLifecycle` |
| Status tables and writes | `storage/repositories/jobs.py`, `issues.py` | the two tables of legal moves | update (read, then compare-and-swap), `cas_transition_on_conn` | partly: `StatusTables` |
| Restart: drain and recovery | `orchestration/restart.py`, `IssueExecutor.drain`, `api/app.py` | `jobs.launch`, `interrupted_at`, `resume_attempts` | drain, mark, plan, take back, fail orphans, start again | modelled: `Recovery` |
| Account waits | `services/account_waits.py` | `jobs.account_wait` | park, list, claim, go on, "Try now" | partly: `Recovery` (drains, restarts), `PausedJobs` (its rivals) |
| Application lifespan | `api/app.py` | phase of the process | boot sequence, shutdown sequence | partly: `Recovery`, `IssueLifecycle` |
| Questions and answers | `storage/repositories/issue_inputs.py`, the answer routes | `issue_inputs` | ask, record an answer or a skip, count what is pending | partly: `IssueLifecycle` |
| Budget gate | `orchestration/budget_gate.py`, `budget.py` | spend per period | admit, refuse | planned; its verdict is a free choice of the gate step |
| Reapers | `execution/image_manager.py`, `services/linear_reconciler.py` | containers, TTLs | expire paused jobs, remove containers, sweep stale triages | partly: `PausedJobs` |
| Merge approvals | `services/merge_approvals.py`, `storage/repositories/merge_approvals.py` | `merge_approvals` rows, one index: a PR has one pending ask | ask, post, retire, expire, claim, reject, verify, merge, finish | modelled: `MergeApprovals` |
| Merge sync | `services/merge_sync/`, `storage/repositories/job_delivery.py` | `jobs.pr_url`, `delivery_state`, `delivery_state_at`, the sweep's cursor | record a fact from a webhook or the sweep, align the job's status, close its issue | partly: `Delivery` |
| Healing cases | `services/healing/`, `storage/repositories/healing_cases.py` | a case's stage, path, merge, anchor, verdict, history | report, attach, merge, deploy, judge, reopen, close, backfill | partly: `HealingCases` |
| Intake | `trackers/`, `services/*_sync.py`, webhook routes | delivery marks | deduplicate, create an issue, triage it | planned |
| Issue-to-PR workflow | `workflows/issue_to_pr/` | graph state | routing between agents, retries, review rounds | planned |
| Local model leases | `services/local_slots.py`, `storage/repositories/local_model_leases.py` | leases | acquire, renew, expire | planned |
| Credentials, settings | `services/credentials/`, `settings/` | documents, quarantines | resolve, quarantine, write with a version | planned |
| Events and WebSocket replay | `services/job_events.py`, `qa/event_bus.py`, `execution/events.py` | event log, subscribers | persist, publish, replay | planned |
| Verification gate, log watcher, leads, quests, QA, onboarding, PR review, agents, channel adapters, safety policy, sandboxes, proxies, caches, MCP server, CLI, frontend | several | several | several | not modelled (section 7) |

### How they interact

* A **request** (triage, answer, continue, cancel) is a coroutine of the event
  loop. It moves the issue, inserts a job, starts or cancels an asyncio **task**
  that runs the job, and is done. `_tasks_by_job` says which task that is.
* A **task** records its launch, waits for its **run slot**, passes the budget
  gate, marks the job `running` and streams the graph. Each node the graph
  finishes is a **checkpoint**. The run ends with a result, an exception, or an
  `interrupt()`: questions for a person, or the choice offered when retries are
  used up. A task that interrupts is gone; its answer starts another.
* An **answer** comes over the job's route, the issue's route or an inbound
  channel (GitHub comments, Telegram). Each handler records it, counts what is
  still pending and, when nothing is, schedules a resume.
* The **account-wait loop** takes up jobs parked because an LLM account was
  spent. The **reaper** expires pauses that last too long and removes sandboxes
  nobody owns; the **stale-triage sweep** reopens issues left `triaging`.
* A completed run has opened a pull request. **Merge approvals** ask people
  whether to merge it, pinned to a commit, and merge it when somebody says yes.
  **Merge sync** learns from GitHub, by webhook or by asking, what became of each
  pull request, and moves the job (`pr_merged`, `pr_closed`) and its issue. The
  **healing ledger** follows a finding of the log watcher through ticket, job,
  pull request, merge and deploy to the verdict whether the error stopped.
* A **shutdown** drains: no job starts, running ones stop at their next node,
  what is in flight is stamped. **Boot** plans the recovery from the rows alone,
  takes jobs back, fails the others, and starts tasks.

Shared state is the database (two status columns that several writers move, the
checkpoint, the questions) and the executor's registries. There are no locks
around any of it: a status is protected by the table of moves and by a
compare-and-swap, and everything else by guards that read first and act later.

### What is hard

1. `update(status=...)` reads the status in one statement and swaps it in
   another; anything may come between.
2. Guards ("no active job", "still awaiting input", "nothing pending") are read
   before an await and used after it.
3. A run writes its job, its checkpoint and its issue in three steps; a cancel,
   a crash or a second job fits between any two.
4. `task.cancel()` takes effect where the task is suspended, and most of the
   code does not handle it.
5. A drain works on a list of tasks taken once, while the intake loops and the
   account-wait loop go on.
6. Boot can crash as well, between planning, counting, failing and starting.
7. What a job was promised is spread over a stamp, a counter, a launch record, a
   checkpoint and a wait mode, and the next process sees only those.
8. A paused job has four rivals (the loop, a person, the reaper, a cancel), each
   working from a list or a row it read earlier.
9. What GitHub says arrives late, twice, in reverse or never, by two ways at once,
   and GitHub itself changes between a read and the call it was read for; a call
   that succeeded may never be answered.
10. A verdict is measured from a deploy that a better fact may replace while it is
   measured.

### What makes each component correct

* *Run slots*: never more jobs than the limit; no slot lost or leaked whatever is
  cancelled when; nobody waits beside a free slot; resumes first, else in order.
* *Lifecycle*: one task executes a job's graph at a time (two resumes break it,
  nothing else does); an active job holds its issue (two dispatches break it);
  nothing in flight without a task; an answered job goes on, and only with
  all its answers; a cancelled job never runs again; an issue is not stuck and
  agrees with its job; an issue closes only on completed work; only legal moves.
* *Restart*: attempts and crashes are bounded; a clean drain is free and loses
  nothing; a process that is up works on every job in flight.
* *Account waits and reapers*: a parked job is gone on with once, and survives
  stops; its issue is not handed out; a live job keeps its sandbox;
  nothing (pause, sandbox, stranded issue) stays for ever.
* *Merge approvals*: what is merged is the commit somebody was asked about, with
  its CI green, under one claim; the row of a merge says so; an ask moves on.
* *Merge sync*: a row was true at its date, never goes back, ends at the latest
  fact, whatever is lost; the job's status and issue follow.
* *Healing cases*: the anchor is the earliest deploy of the merge of this attempt;
  a merge is credited; a verdict is about the anchor it stands beside; a fix that
  shipped is judged.
* *Planned parts*: a lease is never held past its cap; a late subscriber sees each
  event once and in order; a settings write never overwrites one it has not read.

## 2. The modules

| Module | What it is |
|---|---|
| `StatusTables` | The statuses, the two transition tables, and what an update or a compare-and-swap comes to. |
| `RunGate` | The abstract promise of the run slots: two sets, no queues. |
| `RunSlots` | The gate as it is written, and the tasks that claim its slots. Implements `RunGate`. |
| `MCRunSlots` | Its instance: five claims over two slots. |
| `RunSlotsProofs` | Proofs about `RunSlots` for any claims and limit. |
| `IssueLifecycle` | One issue, its jobs, every coroutine that moves them, and the process. Uses `StatusTables`. |
| `MCIssueLifecycle` | Its instances. |
| `IssueLifecycleProofs` | Proofs about `IssueLifecycle`: four for any requests and faults, five for one request at a time. |
| `Recovery` | Drains, crashes, boots, attempts and account waits of many jobs. Uses `StatusTables`. |
| `MCRecovery` | Its instances. |
| `RecoveryProofs` | Proofs about `Recovery` with every window open. |
| `RecoveryCleanProofs` | Proofs about clean drains, on top of those. |
| `PausedJobs`, `MCPausedJobs` | The jobs of one issue while they are paused, and all who end a pause. |
| `PausedJobsProofs` | Proofs about `PausedJobs`. |
| `MergeApprovals`, `MCMergeApprovals` | The asks about one pull request, who decides them, and GitHub. |
| `MergeApprovalsProofs` | Proofs about `MergeApprovals`. |
| `Delivery`, `MCDelivery` | Merge sync: facts, recorders, rows and the sweep. Uses `StatusTables`. |
| `DeliveryProofs` | Proofs about `Delivery`. |
| `HealingCases`, `MCHealingCases` | One case of the healing ledger and the loops around it. |
| `HealingCasesProofs` | Proofs about `HealingCases`. |

`IssueLifecycle` and `Recovery` are two cuts through the same code. The first
follows one issue with every await taken apart, and knows of a boot only what it
does to this issue's jobs (any recoverable job may be kept or given up). The
second follows several jobs over many stops with the stamps, attempts and waits
that decide which are kept, and takes a job's steps between two nodes as one.
`RunSlots` is the queue both abstract to "a slot is granted at some time", which
the refinement of `RunGate` and `ResumesServed` justify. `PausedJobs` is a third
cut: what happens to a job only while it is paused, against those who act on
pauses, with the run itself folded to "pauses or ends". `MergeApprovals`,
`Delivery` and `HealingCases` begin where a run ends, and meet in the pull
request: a merge made by the first is a fact to the second and a report to the
third, which take it in any order and any number of times. Nothing flows back,
so the three are checked apart, each against a GitHub that may do anything.

Operators called `Something_Variant` are altered forms of `Something` (a dropped
guard, an off-by-one, a swapped order, a missing reset). No specification uses
them: `PROJECT.json` ("mutants") names, for each property, one that makes it
fail, which shows that the property depends on the code it is about.

### RunSlots

`holders`, `priority` and `ordinary` are the three fields; `task` is where the
owner of each claim stands. Everything in the file runs between two awaits, so
`Claim` and `Release` are atomic; `Proceed` is the woken future, `Cancel` is
`task.cancel()`, which leaves the claim where it is until the task's `finally`:
so a queued claim can be granted to a task already cancelled. `GrantNext` is the
loop of `_grant_next` in closed form: `GrantCount` says how many rounds it makes.

### IssueLifecycle

State: `issue` and `job` are the status columns, `launch`, `ckpt` and `input`
the launch record, the checkpoint (where it stands, not what it holds) and the
questions; `proc` holds the coroutines, `byJob` is `_tasks_by_job`.

A coroutine is a record: `pc`, what it is (`kind`: a request, or a task that is
`fresh`, resumes with an `answer` or a `choice`, or goes on after a `restart`),
its job, and its locals that later steps use: the status an update has read
(`seen`), the statuses a resume keeps to put back, how the run ended, the channel.

* A status write is two steps, `ReadStatus` and the action named after it;
  `UpdateJob` and `UpdateIssue` take the pc it continues at and the pc of the
  handler of what it raises.
* `Dispatch` is `execute` with its rollback; `BeforeTheRun` is `_run_in_slot`,
  `_run_workflow` up to the stream, and `resume()`; `TheRun` is the stream and
  every way it ends; `Reply` is the three answer routes; `Cancel` is `cancel_job`
  with its five-second wait and its recheck.
* `AfterCancel` is where `CancelledError` leaves a coroutine.
* `Drain`, `DrainDeadline`, `Exit`, `Crash`, `BootDecide`, `BootStart` are the
  process.

Two constants narrow what people do, so that a run asks one question:
`Patient = TRUE` means nobody triages an issue or continues a paused job while a
task of it is at work (the routes do not ask for that), and `Kinds` lists which
requests arrive. `Faults` lists what goes wrong; `"late"` allows a crash exactly
between the last node of a run and the job's terminal status, `"gate"` an exception
of the budget gate's own check. `MaxRequests` says how many handlers are at work at
once; nothing else keeps two calls of `execute`, or two answers, apart, as nothing
in the code does. `BoundsAssumption` asks that there be
a place for the task of each job a boot takes back.

### Recovery

State per job: the columns that survive (`status`, `launch`, `stamp` =
`interrupted_at`, `attempts`, `wait`), whether there is a checkpoint, and its
task, `Task(pc, kind)`. Process: `orch` is the phase, `drained` the list `drain()`
took, `plan` what `plan_recovery` decided, `tick` the pass of the account loop.
`killed` and `last` are history, for the properties.

Boot is four steps in the order of `api/app.py`: `BootPlan` (plan and fail the
exhausted), `TakeBack` (count, clear the stamps), `FailOrphaned`,
`StartRecovered`; `Crash` may fall between any two. `PlanningFails` is the
`except` around it: no job is recovered and the boot goes on.

`Windows` names the short moments in which a stop does harm that the code does not
prevent: `dispatch` (a task whose launch is not recorded), `account_loop` (the
middle of a pass), `account_queue` (a parked job's resume waiting for its slot),
`planning` (recovery raises). Open, they are possible; a run that checks what the
code promises outside them closes them, and section 3 says what each of the first
three costs.

### PausedJobs

State per job: its row (status, the kind of wait for an account, `mode` =
resume or relaunch, `due`, and `old` = not updated for `paused_job_ttl_hours`),
the tasks at work on it, its sandbox; and the issue's row. A duration is the fact
that it has passed, which an `UPDATE` resets as the trigger on `jobs.updated_at`
does. What a rival remembers between two awaits is a variable: `waiting` (the
pass of the loop), `expiring` and `freeing` (the pass of the reaper),
`cancelling` (sandbox gone, row not yet written; `late` if its task did not end in
five seconds and goes on), `dispatching` (issue moved, `execute` not yet asked, or
it refused, or it admitted and the job is not yet inserted). Each of these may last
while the job is resumed, runs and pauses again. A dispatch is `Dispatch`, `Admit`,
and `Insert` or `RollBack`, which takes the issue back to open from wherever it is.

### MergeApprovals

One pull request, as each row, index and question is about one. `ask` is the
table, `at` where each process stands with what it read: `ask()` of a completed
job, the sweep, and the decisions of several people. Every change of a row is one
conditional `UPDATE`; every call to GitHub is a step of its own, and GitHub moves
in between: pushes, CI, merges and closes by others. `ci` says whether a commit
was green so far; that its CI runs again and fails is a choice of `Verify`, which
reads it. `MergePull` may be refused,
go through, or go through without an answer; `Reread` is what the code does then.
`Dies` is an exception in any step, `Restart` a new process, in which the mode may
be another. `SlowCalls = FALSE` says no decision outlasts `IN_FLIGHT_TIMEOUT`.

### Delivery

`forge` and `facts` are GitHub and what it ever said; a webhook delivers a fact at
any time and any number of times, or never. Each recorder (`RecordStep`) matches
jobs, writes them one locked row at a time, deciding anew on the row it locked
(`Decide` = `resolve_delivery`, `Aligned` = `aligned_status`), and then closes
issues. The sweep lists unsettled rows behind its cursor, asks GitHub within a
budget of requests, records within a budget of writes, and starts over; a
backfill pass also looks at jobs without a pull request. `heard`, `links`,
`closed` and `missed` are history. A job without a pull request is matched by its
branch (`ByBranch`): not from a fork (`Forks`), not a pull request opened before the
job was (`Opened`; the assumption on it says that those not in `Before` are opened
after the jobs), and of too many matches the first `MaxMatches`, follow-ups first.

### HealingCases

Each write of `HealingCaseService` runs under the case's row lock in one
transaction, so it is an operator from the record of the case to the record, and
one step. What is not atomic is around the lock, and is modelled as steps:
reports that come late and again, the deploy loop (`ReadCase`, `ReportDeploy`),
the confirm-healed sweep (`ReadPending`, `Judge`, `ReopenNotHealed`), the release
of a draft (`ReadDraft`, `CloseDraft`), and the backfill at a restart. The backfill
is one transaction: it replays what the jobs table knows, row by row (`ReplayRow`),
on a copy of the case (`replay`), before the loops start and requests are served,
and is committed with its last row or not at all (`BackfillFails`). A deploy is
the time of its marker and the merges it contains; `keys` and `answers` are the
event keys that dedupe redeliveries. The periodic sync may report any pull request
as opened or closed that once was so, however late.

## 3. The runs

Each run but `issue_double_answer` passes and is exhaustive for its bounds; that one
is a claim of the source that TLC refutes. Distinct states are in brackets.

| Run | Properties | Bounds, and why they are enough |
|---|---|---|
| `slots` (3 886) | `SlotsConserved`, `InOrder`, `ResumesServed`, `ImplementsGate` | Two resumes and three jobs over two slots, made again and again: both queues can hold two or more beside a full gate, so grants choose between queues and within one. The proofs cover all sizes. |
| `issue_answers` (42 024) | `TypeOK`, `AnsweredJobGoesOn`, `IssueShowsJob`, `ResumedWithAnswers` | Two jobs in succession, two questions in one interrupt or in two, three channels, one request at a time beside the tasks. Two questions make a "not the last answer"; two jobs make an "older job". |
| `issue_double_answer` (violated) | `OneRunner` | One job, two questions, two replies over an inbound channel, no fault: the least that lets two answers overlap. Told step by step below. |
| `issue_restart` (30 021) | `NoStrandedRun`, `ActiveJobHoldsIssue`, `HeldJobResumable`, `CancelResolves`, `JobSettles` | One job with two questions, two crashes or drains at any step but the `late` one (so also a crash in a drain or in a boot), refused sandboxes, and a cancel anywhere in the job's life, alone among the requests. |
| `issue_races` (1 820 434) | `StartedOnce`, `ClosedByCompletion`, `TransitionsLegal` | Two requests at once, all faults but `late`, impatient people, one job. Everything between the read and the write of an update, and every way two tasks may meet at a job. |
| `recovery` (324 772) | `RetriesBounded`, `InFlightHasTask`, `ComesToRest` | Two jobs, one not resumable, one attempt, four stops, every window. Four stops are two more than an attempt can absorb, so both limits are reached and boots crash half way. |
| `recovery_clean` (75 354) | `CleanDrainFree` | Two resumable jobs, three stops, windows closed. |
| `paused_jobs` (182 859) | `OneRun`, `ParkedIssueHeld`, `LiveJobKeepsBox`, `NothingLeft` | Two jobs in succession, two pauses of any kind, two restarts: a pause that follows a pause under the eyes of a reaper that listed the first, a second job after an expired one, a restart in the pass of the reaper. A Linear issue (the sweep acts on those). |
| `merge_approvals` (956 475) | `MergedAsAsked`, `OneHolder`, `RowsTellMerge`, `MergesUnderClaim`, `AsksMoveOn` | Two asks, two commits, two people, two decisions, one exception or restart, two completed jobs, one push: the second job supersedes the first's ask beside two decisions of it, and a decision is begun again after its holder died. A third INSERT does not happen: whoever would make it waits. |
| `delivery` (220 507) | `RowsTellTruth`, `LatestWins`, `MergeClosesIssue`, `NeverBack` | One pull request with a webhook and a redirected repository, two jobs of one issue on its branch, four events on it (opened, then closes, reopenings and a merge in any order), a write budget of one, one exception or crash. Two jobs make "one of several rows fails"; one write a pass makes the sweep stop half way. |
| `delivery_sweep` (126 829) | `RowsCatchUp` | Two pull requests without a webhook on two branches, a budget of two requests (one pull request's worth) and of one write, periodic passes and backfills, one crash: each pass sees a part and the cursor has to come round. |
| `healing` (976 783) | `TypeOK`, `FixAnchored`, `MergeIsItsOwn`, `VerdictFromAnchor`, `FixJudged` | Two pull requests, one of a job and closable, one of a person; three ticks, so a merge and two deploys in any order of report; one failed attempt, one restart with its backfill. |

What they show. With one request at a time, and between stops, statuses,
checkpoint, questions and tasks agree whenever things are at rest, through every
way a run can end and every channel an answer can take. With requests that
overlap, the compare-and-swap keeps each status legal, an issue is closed only
on completed work, and no graph is begun or restarted beside a task that executes
it; but two resumes of one job may execute it at once, and several other guards are
not strong enough, which the next table shows. Over restarts, the two limits hold
whatever crashes, and a clean drain is free outside the windows. A pause is ended once and by one, and what the reaper
takes is dead. Nobody's merge goes to another commit than the one he said yes to,
also when GitHub's answer is lost. With every webhook lost, repeated or reversed,
the rows end where GitHub is. In whatever order merge and deploys are reported,
the ledger is anchored on the first deploy of the fix.

**`issue_double_answer`, step by step.** A job has asked and its issue awaits input.
Two replies arrive over inbound channels (two GitHub comments, or a comment and a
Telegram reply; both go through `resume_for_issue`), to the one question or to the
last two. Each is looked up while its question is still open, each records its
answer (`answer()` updates unconditionally), and each then counts nothing pending. Both find the issue `awaiting_input` and the job
`awaiting_input`: these two reads are the "idempotency guard so cross-channel races
are safe" (`services/issue_executor.py:1489`). Both schedule a resume. The second
`resume()` writes `running` over `running`, which `update()` takes for no change and
lets pass (`storage/repositories/jobs.py:512`); both enter the stream. One thread, one
sandbox and one branch now have two writers, and `_tasks_by_job` knows one of them.
`StartedOnce` says that this is all: no other two tasks ever execute one graph.

Several properties are conjunctions (`SlotsConserved`, `IssueShowsJob`,
`RetriesBounded`, `CleanDrainFree`, `RowsTellTruth`, `RowsCatchUp`, `FixAnchored`,
`MergeIsItsOwn`, `NothingLeft`) of named parts that say one thing together; each
part is stated and commented by itself beside it, and where the parts can fail
apart there is an altered form of the code for each.

The type invariants of `RunSlots`, `Recovery`, `PausedJobs`, `MergeApprovals` and
`Delivery` are in no configuration: they are proved (section 5).

`CHECK_DEADLOCK FALSE` is said in the configurations of `IssueLifecycle`,
`Recovery`, `PausedJobs` and `MergeApprovals` because those systems really may
come to a stop: every job or ask has reached its end, a bound is used up, and
nobody has to make another request. In `RunSlots` a claim can always be made or
given back, in `Delivery` and `HealingCases` the loops come round for ever, and
deadlock is checked.

All bounds: `MaxJobs`, `MaxProcs` (coroutines at once), `MaxRequests` (handlers
at once), `MaxQuestions` and `RoundSize` (per job, per interrupt), `MaxStops`.
`Create` at its bound behaves as an INSERT that failed; a job at `MaxQuestions`
asks no more; the others limit what arrives. `MaxPauses`, `MaxRestarts`
(`PausedJobs`, `HealingCases`); `Asks`, `MaxJobs`, `MaxPushes`, `MaxAnswers`, `MaxFaults`
(`MergeApprovals`); `MaxTime`, `MaxFaults` (`Delivery`, whose `MaxMatches` is the code's `MAX_BRANCH_MATCHES`, set small); `MaxTime` and `Closable`
(`HealingCases`). `MaxReopens`, `MaxRequests` and `MaxWrites` of the last two are
limits of the code, set small.

### Where the code does otherwise

The runs avoid what the code does not prevent by a constant (`Patient`, `Kinds`,
`MaxRequests`, `Faults`, `Windows`, `Linear`, `SlowCalls`), never by a
guard that no value of a constant opens. Opening the constant shows the scenario, and after
a fix shows that it is gone. Where a doc or comment of the repository says
otherwise, it is quoted. `ONE` stands for `MaxQuestions = 1, RoundSize = 1`.

| Configuration and change | Fails | What happens |
|---|---|---|
| the run `issue_double_answer` | `OneRunner` | The last answers of a job come at once over an inbound channel, and the graph is executed twice at once (`services/issue_executor.py:1490`, "so cross-channel races are safe"). |
| `MCIssueAnswers`, `MaxRequests = 2` | each property but `TypeOK`; in `MCIssueRestart` each invariant | The same, and two dispatches, and what follows from them: a task that ends or asks beside another task of its job. |
| `MCIssueAnswers`, `ONE`, `Kinds = {"triage", "reply", "cancel"}`, `Channels = {"issue"}` | `AnsweredJobGoesOn` | A cancelled job leaves its question pending. The next job's answer over the issue route counts that one too and does not resume (`storage/repositories/issue_inputs.py:256`; `docs/architecture.md:278`). |
| `MCIssueRestart`, `Spec`, `ONE`, `MaxRequests = 2`, `Kinds = {"triage", "cancel"}`, `Channels = {"job"}`, `MaxStops = 0`, `Faults = {}` | `CancelResolves` | A cancel's update loses against pending -> running, takes that as resolved, and purges the checkpoint of a running job (`services/issue_executor.py:1143`). |
| `MCIssueRestart`, `Spec`, `ONE`, `MaxJobs = 2`, `MaxProcs = 3`, `MaxStops = 0`, `Faults = {}` | `CancelResolves` | The same with one request at a time: a run whose questions answer themselves triages again, and the cancel comes between the INSERT of its new job and the task (`services/issue_executor.py:505`, `:536`). |
| `MCIssueRestart`, `Spec`, `Faults = {"crash", "late"}` | `NoStrandedRun` | A crash after the last node and before the terminal status: the resumed graph streams nothing and nobody writes the job again (`services/issue_executor.py:1268`; `docs/architecture.md:1405`). |
| `MCRecovery`, one resumable job, `MaxStops = 2`, `Windows = {"account_queue"}` | `\A j \in Jobs : status[j] # "awaiting_input"` | A job taken up from an account wait, cancelled in the queue by a drain, becomes `awaiting_input` without a question (`services/issue_executor.py:1249`; `docs/configuration.md:38`). |
| `MCIssueAnswers`, `Patient = FALSE` | `AnsweredJobGoesOn` | An issue that awaits an answer may be triaged (`api/v1/issues.py:419`): it goes to triaging, `execute` refuses, it goes to open. An answer that comes meanwhile resumes nothing, and cannot be sent again. |
| `MCIssueAnswers`, `MaxRequests = 2` | `Cardinality({j \in Jobs : job[j] \in ActiveStatuses}) <= 1` | Two triages at once both pass the guard of `execute` (`services/issue_executor.py:490`; the comment above it: "reject if a job is already active for this issue"). With `MaxJobs = 3`, `Patient = FALSE` and `Kinds = {"triage", "reply"}` one request at a time is enough: a run whose questions answer themselves triages again beside it. |
| `MCIssueRestart`, `Spec`, `Patient = FALSE`, `MaxStops = 0`, `Faults = {}` | `NoStrandedRun` | A person continues a job as soon as it says `paused`; the pause then writes its issue, `open`, under the run that goes on. When that run asks a question, the issue is not `triaging`, the transaction aborts (`services/_executor_outcomes.py:1192`) and the job stays `running` with no task. |
| `MCIssueRestart`, `Spec`, `MaxStops = 0`, `Faults = {"gate"}` | `NoStrandedRun` | The check of the budget gate raises (`services/_executor_run.py:1353`). The handler writes `failed`, which a `pending` job may only become by a refusal of the gate itself: the write raises, and the job stays `pending` until the next boot. |
| `MCIssueAnswers`, `"comment"` in `Kinds` | `ResumedWithAnswers` | A comment without an answer counts zero questions just before they are posted, and resumes the job just after (`notifications/inbound_dispatch.py:134`). |
| `MCIssueAnswers`, `"cancel"` in `Kinds` | `IssueShowsJob` | The cancelled task has just written its terminal status; `cancel_job` then leaves the issue alone (`services/issue_executor.py:1129`) and the task never writes it. |
| `MCIssueAnswers`, `Faults = {"reenroll"}` | `AnsweredJobGoesOn` | The proxies refuse the sandbox of an answered job. It is put back to its question (`services/issue_executor.py:1293`), which is recorded as answered and refuses another answer. |
| `MCIssueAnswers`, `Faults = {"drain"}`, `MaxStops = 1` | `IssueShowsJob`, `AnsweredJobGoesOn` | A drain's deadline between a job's terminal write and its issue's; a drain that cancels an answered resume in the queue, put back as above though the log says "Send the answer again." (`services/issue_executor.py:1251`). |
| `MCRecoveryClean`, `Windows = {"account_loop"}` | `CleanDrainFree` (attempts) | A drain begins in a pass of the account loop (`services/account_waits.py:324`); the job claimed after it is not stamped, and costs an attempt. |
| `MCRecoveryClean`, `Windows = {"dispatch"}` | `CleanDrainFree` (lost job) | A drain cancels a task before its launch record is written (`services/issue_executor.py:1032`); boot fails the job. |
| `MCPausedJobs`, `Linear = FALSE` | `NothingLeft` | The stale-triage sweep is the Linear reconciler's. A GitHub issue stays triaging after a crash between its move and the INSERT of its job, or when its job expires in a wait: the executor never writes `paused` on an issue, so the reaper's reopen from `paused` matches nothing (`execution/image_manager.py:520`). |
| `MCPausedJobs` | `[][\A j \in Jobs : job[j].status = "paused" /\ job'[j].status = "expired" => job[j].old]_vars` | A pause the reaper listed is continued, and the job pauses again before the reaper claims it: the claim looks at the status, not at the age (`execution/image_manager.py:480`), though `docs/architecture.md:264` says a job expires "when the paused job passes `paused_job_ttl_hours`". |
| `MCPausedJobs` | `ParkedIssueHeld` without its second disjunct | A dispatch moves the open issue of a paused job to triaging, and `execute` refuses it because that job is active. A person continues the job, it parks for its account, and then the roll-back opens the issue (`api/v1/issues.py:67-87`). |
| `MCPausedJobs` | `ParkedIssueHeld` without its third disjunct | A cancel of a paused job has destroyed the sandbox. Before it writes, a person continues the job, the job ends, and a second job of the issue is dispatched and parks. The cancel, whose job is over, opens the issue all the same (`services/issue_executor.py:1151`). |
| `MCMergeApprovals`, `Spec`, `SlowCalls = TRUE`, `MaxAnswers = 3` | `OneHolder`, `MergesUnderClaim` | A decision that outlasts `IN_FLIGHT_TIMEOUT` is claimed again while it is still at work; the two may both call the merge. |

Further things the models show, each by a property too narrow to keep:

* A long wait for an account (up to eight days) is expired with the paused jobs
  after `paused_job_ttl_hours` (48), and `PausedJobs` has it so (`Expirable`),
  though `docs/glossary.md:50` says "It never fails for that. The account-wait
  loop goes on with it when `until` passes" (also `docs/architecture.md:264`).
* An open pull request can be left with only stale asks: after `stale` the ask is
  posted anew only if the pull request can be read at that moment
  (`services/merge_approvals.py:324`, `:737`), though `docs/merge-approvals.md`
  says "A push to the PR retires the posted ask as `stale` and posts a fresh one".
* A row that failed because the answer of its merge was lost can be rejected
  though the pull request is merged: `RowsTellMerge` allows for it (`lost`).
* A closed pull request that is opened again is not looked at by the periodic
  sweep: without a webhook the row says `closed` until a backfill. So
  `RowsCatchUp` speaks of pull requests that were closed or merged.
* The close of an issue lost to a crash or an illegal status is not tried again:
  `MergeClosesIssue` allows for it (`missed`).
* A verdict is measured, the anchor replaced, and the old verdict recorded on the
  new one (`services/healing/confirm_sweep.py`, between the read and
  `record_verdict`), though `services/healing/service.py:628` voids a verdict for
  just that reason. `VerdictFromAnchor` allows for it (`overtaken`).
* After a restart the backfill may report a merge without its commit, later
  completed with the commit of another pull request of the case.

The state diagram of `docs/architecture.md:254` also draws a move of the issue to
`paused` when its pipeline pauses. No code writes that status: the issue of a
paused job is `open` (`PauseIssue`), which is what `StatusesAgree` states.

## 4. Fairness

Nothing outside the process is fair: nobody has to make a request, answer a
question, find an account ready, or stop the process.

* `RunSlots`: `Proceed` and `Release`, per claim. The event loop runs each ready
  task, and a job's coroutine ends since each agent run has a wall-clock limit.
* `IssueLifecycle`: `Work(p)` per coroutine (each await is on a database, network
  or agent call with a limit, and a slot is granted in the end, by
  `ResumesServed` and the order of the queues), and the process's `Exit`,
  `BootDecide` and `BootStart`: the drain has a deadline
  (`SHUTDOWN_DRAIN_SECONDS`), and the supervisor (compose's restart policy)
  starts the process again. A run may ask, get stuck, end or raise at any node;
  it may not go on through nodes for ever, since graphs have a recursion limit
  and the model has no step that stays in `nodes`.
* `Recovery`: `Work(j)` and `Deadline(j)` per job, `Mark`, `Exit`, `Boot`. `Node`
  is a work step that may repeat without changing anything the model sees, so
  the fairness of `Work` is used only where it changes the state: an `executing`
  job ends because the only steps of its task that do change it are its next
  checkpoint, its end and its parking.

* `PausedJobs`: time passes (`AgeRow`, `AgeBox`, `AgeIssue`), a *short* wait's
  account becomes ready, the loop, the reaper and the reconciler come round, and
  what they or a request began goes on. A pass of the loop is one coroutine, and so
  is one of the reaper, and a dispatch: each has one weak fairness for all its steps. No run has to end, no person to act, and
  the account of a long wait need not be ready.
* `MergeApprovals`: what was begun goes on; strong fairness on the sweep's look at
  an ask that is answered, and on its posting: GitHub does not fail for ever, and
  the wait for CI has a limit in the code.
* `Delivery`: the sweep comes round, and (strong fairness) GitHub answers about a
  pull request it is asked about again and again. Webhooks may all be lost.
* `HealingCases`: the deploy loop and the confirm-healed sweep come round and
  finish a write; both are tasks of the lifespan that swallow what a pass raises;
  and a backfill ends.

`Drain` in `IssueLifecycle` waits for requests under way because uvicorn does
(`--timeout-graceful-shutdown`, before the lifespan's shutdown, where `drain()` is
called). In `Recovery` dispatches go on in a drain: the intake loops call
`execute` without a request.

## 5. What is proved

TLAPS checks these for every value of the constants, under the assumptions that
the modules name (`LimitAssumption`, `PriorityAssumption`, `RecoveryAssumption`,
`PausedAssumption`, `MergeAssumption`, `DeliveryAssumption`, `HealingAssumption`,
`BoundsAssumption`, `KindsAssumption`, `FaultsAssumption`, `ChannelsAssumption`:
the limits and bounds
are naturals, the resumes are claims, the resumable jobs are jobs, the jobs'
creation times differ, a budget answers at least one pull request, boot has a place
for each task, and requests, faults and channels are among those there are). Sets of
claims, jobs, pull requests, commits and people may be of any size.

**`RunSlotsProofs`** - `TypeCorrect`, `CapKept`, `NoLostSlot`, `NoLeakedClaim`
(together `SlotsKept`), `GateImplemented`. The cap is not inductive alone: `_grant_next` grants as many
claims as there is room for, and only because the gate was full whenever somebody
waited (`NoWaiterBesideFreeSlot`) is that at most one. To know that removing a
claim from its queue removes it altogether, each queue must hold each claim once
(`LineSound`), and to know that a release empties a place, the claims must be
where their tasks believe (`ClaimsWherePlaced`). `IInv` is the conjunction, and
`ReleaseIInv` is where the parts need each other. `GateImplemented` maps holders to
`running` and both queues together to `waiting`, and shows each step to be one of
`RunGate` or a stutter; that a release picks an *eligible* claim is the priority
queue's precedence. `LineInOrder` is about places in a line of two queues: when
each claim is in it once, its position is the only place that holds it
(`LinePlaces`), a place of the first queue is one of the line and a place of the
second is that much further back (`TwoQueues`). A grant then takes the head
(`HeadFirst`, `GrantedWasHead`), so that whoever is ahead of a granted claim is
granted with it; and nobody but a claim enters a queue (`OnlyClaimEnters`), at its
end (`ClaimBehind`).

**`RecoveryProofs`** - `TypeCorrect`, `AttemptsBounded`, `CrashLimit`
(together `RetriesLimited`), `NobodyStranded`, with every window open. A crash counts (`killed`) when it
happens; the attempt that pays for it is written by a later boot, which may crash
itself. So the invariant says where an unpaid crash may be (`Owed`): on a failed
job, or on a running one without a stamp that the boot under way will count or
fail. That needs that nothing ever executes under a stamp (`StampsSound`:
otherwise its crash would be free), which needs that no task outlives its process
and what a draining executor still starts is deferred or left at once
(`TasksSound`), and that a wait which ends with a resume is of a resumable
pipeline (`WaitsSound`). `FlightSound` carries "every job in flight has a task"
through the phases of a boot.

**`RecoveryCleanProofs`** - `CleanStopsFree`, `DrainsLoseNothing`
(together `CleanDrainsFree`), under `Closed`: recovery is on (`MaxAttempts > 0`) and no stop falls into the windows
`dispatch`, `account_loop` and `planning`; `account_queue` may be open. From the
moment a drain begins each job in flight is on its list or has a task that will
stamp it (`DrainSound`); each has a launch record before anything else happens to
it (`LaunchSound`); so boot finds a stamp, and a checkpoint or a launch record, on
each (`BootSound`). With `account_loop` or `dispatch` open the two properties fail
(section 3), so those cannot be left out.

**`PausedJobsProofs`** - `TypeCorrect`, `OneTaker`, `LiveJobsKeepBoxes`,
`ParkedIssuesHeld`, for any jobs, pauses and restarts and however passes, requests
and cancels overlap. That a job has one task is not inductive: it needs that a
paused or ended row has none (`RowSound`), which every claim relies on, as each is
a compare-and-swap from `paused`. `LiveJobKeepsBox` needs that the reaper frees
only what it has itself expired (`freeing`), and that a cancel under way is
remembered. `ParkedIssueHeld` needs that at most one job of the issue is live and
that an admitted dispatch has found none (`OneLive`): then the end of a run and a
boot's failing of a job concern no parked one, and the sweep finds a live job. That
no two dispatches overlap is a limit of this module, not an assumption of a theorem
(section 6).

**`MergeApprovalsProofs`** - `TypeCorrect`, `MergesWhatWasAsked`,
`OneQuestionAtATime` unconditionally; `OneHolderPerAsk`, `MergesOnlyUnderClaim`
and `RowsTellOfMerge` under `PromptCalls` (`SlowCalls = FALSE`). The merge call is
pinned to the ask's commit, so that what is merged is what was asked rests on what
a decision has read by each step (`AtSound`) and on the CI check before it
(`MergeSound`). `ClaimSound` says an approved row has one decision at work or
none, and that its holder is past the claim; `TellSound` follows the merge from
GitHub to the row: while the row does not yet say so, somebody is about to write
it, or the answer was lost.

**`DeliveryProofs`** - `TypeCorrect`, `RowsWereTrue`, `StatusesKeepMeaning`
(together `RowsTruthful`), `MergesReachIssues`, `RowsNeverBack`. The core is
`DecideSound`: whatever row `resolve_delivery` is applied to, and whatever true
fact, the result is true at its date and not older. The rest is that only true
facts reach it: facts are what the forge did (`FactsSound`), a recorder's fact and
the sweep's answers are among them (`RecordSound`, `SweepSound`), however late.
That a row was true *of a pull request it is or was linked to* needs the links
beside the rows (`LatestInv`). `MergeClosesIssue` is part of the invariant: the merge is on the row before the
issue is closed, so the issue is in some recorder's `closing` until it is closed or
missed.
`LatestWebhookWins` needs two more facts. Of each pull request the last fact is how
the forge has it, and a merge is the last there will be (`FactsLatest`). And what a
row says was said of a pull request it was linked to, at a date no older than the
latest webhook the row was shown, unless it is a merge (`RowHeard`).

**`HealingCasesProofs`** - `TypeCorrect`, `FixesAnchored`, `MergesAreTheirOwn`,
`VerdictsFromAnchor`, for any set of pull requests and any number of reopens. The
writes are operators from a record to a record, so each has one lemma, about any
sound record (`CaseSound`), used for the case and for the copy a backfill works on.
That the anchor is the *earliest* deploy needs all the deploys kept for the attempt,
in whatever order they came (`AnchorSound`), and that a deploy kept contains the
merge (`CarriesMerge`), also for the one the deploy loop has read and not reported
(`LoopsSound`). A verdict is about the anchor the sweep read unless `overtaken`.

**`IssueLifecycleProofs`** - For any requests, any faults, patient or not:
`TypeCorrect`, `TransitionsAreLegal`, `ClosedIsCompleted`, `GraphStartedOnce`. Types
need the shape of the registry (`ShapeInv`: a registered task works on the job it is
registered for). That an issue is closed by completion rests on what a finish knows
(`ClosedInv`): its issue write follows a job write that either set `completed` or
raised, and whoever is past the second does not close. `GraphStartedOnce` rests on
`BeginsAlone`: while a task that begins a job, or goes on with it after a restart,
stands anywhere up to the nodes, the job is not held for a person, and no other
coroutine has anything to do with its run. A resume starts from a held job, and a
job that runs becomes held only by the task that executes it, so nobody can come to
execute it beside the task that began it; two resumes of one held job can, and do
(`issue_double_answer`).

Under `Calm` (patient people, one request at a time, no comments, and a cancel only
where the issue ever has one job, `MaxJobs = 1`; otherwise any numbers of jobs, tasks,
questions and stops, and all faults): `ActiveJobsHoldIssues`, `HeldJobsResume`,
`ResumesHaveAnswers`, `CancelsResolve`; with `Prompt` (neither `late` nor `gate`)
`NoRunStranded`. These share one invariant. The idea is
that at most one coroutine is `Busy` at a time, which nothing in the code says: it
is so because each starts another only as its last act, or comes when all is at
rest. So the invariant is a table of what is true while the one coroutine stands
where it does (`Note`: the status it has read is still the status, its job's status
and checkpoint, the issue's), of each row (`Row`), and of rest (`AtRest`). A stop
leaves rows anywhere between two writes, so what a boot finds is in `Row` as well.

A cancel is the one request that comes while a task is at work. The two are kept
apart by where the cancel stands. Until it has called `task.cancel()` it has written
nothing, and is not counted as busy (`cancel_task`); from then on the task only
unwinds, and the cancel is the busy one. In between its job may be in any status
(`Stopping`, `StopNote`), but no other job is active. This needs to know that the
busy coroutine a cancel finds is the task it cancels: a busy task is registered
(`InRegistry`, without which a drain would exit beside it too), no second request is
about (`Requests`), and the issue has one job (`CancelFinds`, `CancelStops`). What a
cancel leaves is a job that is over, with questions that may stay open, which is why
`Row` allows those. `CancelsResolve` is then read off: a cancel about to purge stands
where no job is active (`Clear`), and being the busy one it is alone.

The hypotheses are not there for the proof: two requests at once break all
five, a comment `ResumedWithAnswers`, a cancel beside a second job `CancelResolves`,
and an impatient continue, a late crash or a gate that raises `NoStrandedRun`
(section 3). So these five theorems say what stops, boots, refusals, failures and a cancel cannot do, and
nothing about two requests that overlap.

Each theorem of a step has one lemma per action and under it one step per conjunct
that the action can disturb; the temporal theorems combine them with PTL.

Only model-checked: all liveness (`ResumesServed`, `JobSettles`, `ComesToRest`,
`NothingLeft`, `AsksMoveOn`, `RowsCatchUp`, `FixJudged`), which is beyond the prover,
and `AnsweredJobGoesOn` and `IssueShowsJob`, which hold only in runs without stops,
refusals and cancels. `OneRunner` does not hold. Every other invariant and action
property of the runs has a theorem.

## 6. What the results do not say

* `InFlightHasTask` and `NobodyStranded` take a run's last node and its terminal
  status as one step. The fault `"late"` of `IssueLifecycle` is the crash between
  the two (section 3).
* In `IssueLifecycle` a node is its outcome. What the agents do, which branch of
  the graph is taken and how often is not there; it is planned (section 7).
* A coroutine that is cancelled is taken to unwind in one step. Its `finally`
  blocks clean up containers and log; they write neither status, and what they
  raise they catch, so a cancel that waits for the task sees it end or time out.
* `skipped` and `partial` are in the tables but no modelled writer uses them;
  `pr_merged` and `pr_closed` are written in `Delivery` only, `expired` in
  `PausedJobs` only.
* `PausedJobs`: with a cancel of a parked job that overlaps the loop, the row goes
  from running to cancelled with a task at work, whose writes are then refused and
  whose sandbox is reaped. A loop whose `go_on` raises after the claim leaves the
  job to the next boot. Two Continue requests that overlap are `IssueLifecycle`'s
  matter (`OneRunner`), and so are two dispatches. The loop's record of the wait is taken to be the row's.
* `MergeApprovals`: the ages and limits (expiry, wait for CI) are choices; the
  mode changes only by a restart; CI reports on the commits asked about, while
  the pull request is open.
* `Delivery`: one page of rows, GitHub only, forge times distinct. The window of 90
  days of a match by branch and its allowance for skewed clocks are left out: every
  match is recent. In the runs each job is older than the pull requests it may match. The terminal
  write of a run may wipe a link merge sync made (`_executor_outcomes.py:845`);
  the model has it. A race between a recorder's commit and its report to the
  healing ledger is `HealingCases`' freedom to be told late or never.
* `HealingCases`: one case (cases share no lock). Links between cases, recurrence
  counters, the lookback window and the verdict `inconclusive` are not there.
* One orchestrator process is assumed, as the deployment does: the registries are
  in memory.
* The database is taken to be serial per statement and per transaction, and the
  checkpointer to write a node's checkpoint before the stream goes on.

## 7. What is not covered, and the plan

Not modelled for good: agents and model providers (what reaches the lifecycle is
that a node ends, raises or finds its account spent), sandboxes, proxies, images
and volumes (container I/O), the safety policy (a parser of shell text), the
reporting features (leads, quests, progression, standards, briefs), the QA,
onboarding and PR-review graphs (browser and container I/O; they appear as the
pipelines a restart does not resume), clients (MCP, CLI, frontend) and
infrastructure.

Hazards that no property covers, with their lines in `PROJECT.json`: those where the
code does go wrong, so that there is nothing to check until it is mended (a second
dispatch between the guard and the INSERT, what `cancel_job` makes of a status moved
under it, the question that aborts, the resume that is put back, the late crash, the
two gaps of a drain, the close that is lost; section 3 has a configuration or an
account of each), and a split without sub-tasks, which leaves its job running.

The plan, most important first:

1. **A cancel beside several jobs in `IssueLifecycle`**: with two jobs, one request at
   a time and a cancel, TLC violates `CancelResolves`, `HeldJobResumable`,
   `NoStrandedRun` and `OneRunner`, by the second dispatch of section 3 or by the
   question a cancelled job leaves open. So the theorems cannot be had without
   `MaxJobs = 1` until the code closes those two; the invariant is ready for it.
2. **`WorkflowRouting`**: the issue-to-PR graph's routing as a state machine of
   counters and verdicts. Properties: bounded rounds, no delivery without a passed
   gate, every path ends at a node that writes a status.
3. **`LocalLeases`** beside `RunSlots`: a cap in the database with expiry.
4. **`BudgetGate`**: what a period's spend adds up to while jobs run.
5. **`EventReplay`**: persist, publish, subscribe; each event once and in order.
6. **`CredentialHealth`** and **`SettingsStore`**: quarantine and fallback order;
   optimistic versions.
