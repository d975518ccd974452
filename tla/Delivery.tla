------------------------------ MODULE Delivery ------------------------------
(***************************************************************************)
(* Merge sync (embry0/services/merge_sync): how what a forge says about    *)
(* pull requests becomes jobs.delivery_state.  A fact reaches the          *)
(* DeliveryRecorder from the pull_request webhook, in any order, late,     *)
(* twice or never, and from the sweep, which asks GitHub about the pull    *)
(* requests not settled yet, within a budget of requests and of writes.    *)
(*                                                                         *)
(* The mode is "on" (a shadow sweep writes nothing).  Forge times are      *)
(* distinct and never missing.  Left out: the report to the healing        *)
(* ledger (HealingCases), pages after the first, GitLab, and the rewriting *)
(* of URLs for renamed repositories.                                       *)
(***************************************************************************)
EXTENDS Naturals, FiniteSets, StatusTables

CONSTANTS PRs, Jobs, Issues,
          NoPR,          \* an empty jobs.pr_url
          Created,       \* [Jobs -> Nat]: the order the jobs were created in
          IssueOf,       \* [Jobs -> Issues]
          BranchOf,      \* [Jobs -> branches]: branches_of, the branch a job pushes to
          HeadOf,        \* [PRs -> branches]: the head branch of a pull request
          Opened,        \* [PRs -> Nat]: the last job created before it was opened
          Forks,         \* the pull requests from a fork
          Before,        \* the pull requests that are open, unreported, at the start
          Earlier,       \* the jobs that failed before; on a branch of Before, they may be linked
          FollowUps,     \* the jobs dispatched onto a branch (context.ref)
          Renamed,       \* the pull requests whose repository GitHub redirects
          Passes,        \* the passes run: FALSE for the periodic one, TRUE for a backfill
          Hooked,        \* the pull requests of repositories with a webhook
          MaxMatches,    \* MAX_BRANCH_MATCHES
          Movable,       \* where others than merge sync move an issue
          MaxRequests,   \* max_requests_per_sweep
          MaxWrites,     \* max_writes_per_sweep
          MaxTime,       \* bound: events on the forge
          MaxFaults      \* bound: exceptions and crashes

(***************************************************************************)
(* Two requests answer any one pull request, so that a sweep whose first   *)
(* row is a redirected one gets past it.                                   *)
(***************************************************************************)
ASSUME DeliveryAssumption ==
    /\ NoPR \notin PRs
    /\ Created \in [Jobs -> Nat]
    /\ \A j, k \in Jobs : Created[j] = Created[k] => j = k
    /\ IssueOf \in [Jobs -> Issues]
    /\ Opened \in [PRs -> Nat] /\ Forks \subseteq PRs
    /\ \A p \in PRs \ Before, j \in Jobs : Created[j] <= Opened[p]
    /\ Before \subseteq PRs /\ Earlier \subseteq Jobs /\ FollowUps \subseteq Jobs
    /\ Passes \subseteq BOOLEAN /\ Hooked \subseteq PRs
    /\ Movable \subseteq IssueStatuses \ {"closed"}
    /\ MaxMatches \in Nat \ {0}
    /\ MaxRequests \in Nat /\ MaxRequests >= 2
    /\ MaxWrites \in Nat \ {0}
    /\ MaxTime \in Nat \ {0}
    /\ MaxFaults \in Nat

VARIABLES forge,    \* what the forge knows of each pull request
          clock,    \* forge time
          facts,    \* every fact so far: a webhook delivers one, none or one again
          job,      \* the jobs' rows: status, pr_url, delivery_state, delivery_state_at
          issue,    \* the status of each issue
          pc,       \* per recorder: where record() stands
          fact,     \* per recorder: the fact it records
          todo,     \* per recorder: the matched jobs still to be written
          closing,  \* per recorder: the issues to close
          wrote,    \* the rows the sweep's record() changed
          sweep,    \* the pass of the sweep
          cursor,   \* _tracked_cursor: the created of the last row looked at, or 0
          faults,   \* exceptions and crashes so far
          heard,    \* history: the latest webhook fact each job was shown
          links,    \* history: the pull requests each job was ever linked to
          closed,   \* history: issues a recorder closed, or found closed
          missed    \* history: issues whose close raised or was cut off

vars == <<forge, clock, facts, job, issue, pc, fact, todo, closing, wrote, sweep, cursor, faults,
          heard, links, closed, missed>>

world == <<forge, clock, facts>>
sweeping == <<sweep, cursor>>
recorder == <<pc, fact, todo, closing, wrote>>
history == <<heard, links, closed, missed>>

\* The two that run record(): a webhook request, and the sweep.
Recorders == {"webhook", "sweep"}

States == {"none", "pr_open", "closed", "merged"}
Times == 0..MaxTime
Facts == [pr : PRs, state : States, at : Times]
NoFact == [pr |-> NoPR, state |-> "none", at |-> 0]
OnBranch(j, p) == BranchOf[j] = HeadOf[p]

-----------------------------------------------------------------------------
Supersedes_AnyOrder(row, f, advance) ==
    row.delivery \notin {"merged", f.state}

Supersedes_NoAdvance(row, f, advance) ==
    \/ f.state = "merged" /\ row.delivery # "merged"
    \/ row.delivery \notin {"merged", f.state} /\ (row.at = 0 \/ f.at >= row.at)

(***************************************************************************)
(* resolve_delivery: whether fact f changes a row.  A merge is final; a    *)
(* newer fact replaces a state; a later date of the same state moves only  *)
(* the date, and a sweep fills it only where it is missing (0).            *)
(***************************************************************************)
Supersedes(row, f, advance) ==
    \/ /\ f.state = "merged"
       /\ row.delivery # "merged" \/ row.at = 0
    \/ /\ f.state # "merged"
       /\ row.delivery \notin {"merged", f.state}
       /\ row.at = 0 \/ (f.at # 0 /\ f.at >= row.at)
    \/ /\ f.state # "merged"
       /\ row.delivery = f.state
       /\ f.at # 0
       /\ row.at = 0 \/ (advance /\ f.at > row.at)

Follows_NoReopen ==
    {<<"completed", "merged", "pr_merged">>, <<"completed", "closed", "pr_closed">>,
     <<"pr_closed", "merged", "pr_merged">>}

\* _COMPLETED_FOLLOWS and _PR_CLOSED_FOLLOWS.
Follows == {<<"completed", "merged", "pr_merged">>, <<"completed", "closed", "pr_closed">>,
            <<"pr_closed", "merged", "pr_merged">>, <<"pr_closed", "pr_open", "completed">>}

\* aligned_status: the status after a write that leaves `delivery`.
Aligned(status, delivery) ==
    IF \E s \in JobStatuses : <<status, delivery, s>> \in Follows
    THEN CHOOSE s \in JobStatuses : <<status, delivery, s>> \in Follows
    ELSE status

Decide_OldDate(row, f, advance) ==
    IF row.url \notin {NoPR, f.pr} THEN row
    ELSE LET delivery == IF Supersedes(row, f, advance) THEN f.state ELSE row.delivery
         IN [status |-> Aligned(row.status, delivery), url |-> f.pr,
             delivery |-> delivery, at |-> IF row.at = 0 THEN f.at ELSE row.at]

(***************************************************************************)
(* decide, in record(): the row the locked row becomes.  A job linked to   *)
(* another pull request since it was matched is left alone.                *)
(***************************************************************************)
Decide(row, f, advance) ==
    IF row.url \notin {NoPR, f.pr} THEN row
    ELSE LET hit == Supersedes(row, f, advance)
             delivery == IF hit THEN f.state ELSE row.delivery
         IN [status |-> Aligned(row.status, delivery), url |-> f.pr,
             delivery |-> delivery, at |-> IF hit THEN f.at ELSE row.at]

-----------------------------------------------------------------------------
(***************************************************************************)
(* The forge.  GitHub keeps one open pull request of a branch.             *)
(***************************************************************************)
Snapshot(p) ==
    [pr |-> p, state |-> forge[p].state, at |-> forge[p].at]

ForgeMoves == {<<"none", "pr_open">>, <<"pr_open", "pr_open">>, <<"pr_open", "closed">>,
               <<"closed", "pr_open">>, <<"pr_open", "merged">>}

\* Opened, pushed to or commented on, closed, reopened or merged.
ForgeMove(p, s) ==
    /\ <<forge[p].state, s>> \in ForgeMoves
    /\ s = "pr_open" => \A q \in PRs \ {p} : HeadOf[q] = HeadOf[p] => forge[q].state # "pr_open"
    /\ clock < MaxTime
    /\ clock' = clock + 1
    /\ forge' = [forge EXCEPT ![p] = [state |-> s, at |-> clock + 1]]
    /\ facts' = facts \cup {[pr |-> p, state |-> s, at |-> clock + 1]}
    /\ UNCHANGED <<job, issue, recorder, sweeping, faults, history>>

-----------------------------------------------------------------------------
(***************************************************************************)
(* The job's own writes: JobsRepository.update lifts delivery_state from   *)
(* `none` with the first pr_url and never lowers it.                       *)
(***************************************************************************)
WithUrl(row, status, u) ==
    [row EXCEPT !.status = status, !.url = u,
                !.delivery = IF u # NoPR /\ @ = "none" THEN "pr_open" ELSE @]

\* The pull requests a run of j can end with: its branch's, or the one it went on with.
Known(j) ==
    IF job[j].url # NoPR /\ ~OnBranch(j, job[j].url)
    THEN {job[j].url}
    ELSE {p \in PRs : OnBranch(j, p) /\ forge[p].state # "none"}

(***************************************************************************)
(* A run goes on with the open pull request of an earlier, failed job of   *)
(* its issue (_executor_run, _failed_job_owning).                          *)
(***************************************************************************)
StoreUrl(j, p) ==
    /\ job[j].status = "running"
    /\ job[j].url = NoPR
    /\ forge[p].state = "pr_open"
    /\ \E k \in Jobs : job[k].status = "failed" /\ job[k].url = p /\ IssueOf[k] = IssueOf[j]
    /\ job' = [job EXCEPT ![j] = WithUrl(job[j], "running", p)]
    /\ links' = [links EXCEPT ![j] = @ \cup {p}]
    /\ UNCHANGED <<world, issue, recorder, sweeping, faults, heard, closed, missed>>

(***************************************************************************)
(* The terminal write of a run that came to its end: the status and        *)
(* result["pr_url"] in one UPDATE, so that a run that knows of no pull     *)
(* request writes NULL over a link it never heard of.                      *)
(***************************************************************************)
Finish(j, s, u) ==
    /\ job[j].status = "running"
    /\ s \in {"completed", "failed"}
    /\ u \in Known(j) \cup {NoPR}
    /\ job' = [job EXCEPT ![j] = WithUrl(job[j], s, u)]
    /\ links' = [links EXCEPT ![j] = @ \cup ({u} \ {NoPR})]
    /\ UNCHANGED <<world, issue, recorder, sweeping, faults, heard, closed, missed>>

\* That of a run that raised: the link is written only when there is one.
FinishRaised(j) ==
    /\ job[j].status = "running"
    /\ job' = [job EXCEPT ![j].status = "failed"]
    /\ UNCHANGED <<world, issue, recorder, sweeping, faults, history>>

\* Anyone else moves an issue: an operator, its jobs, a tracker.
IssueMove(i, s) ==
    /\ <<issue[i], s>> \in IssueMoves
    /\ s \in Movable
    /\ issue' = [issue EXCEPT ![i] = s]
    /\ UNCHANGED <<world, job, recorder, sweeping, faults, history>>

-----------------------------------------------------------------------------
(***************************************************************************)
(* record(): the matching, one locked write per matched job, one update    *)
(* per issue to close.                                                     *)
(***************************************************************************)
Idle(r) ==
    /\ pc' = [pc EXCEPT ![r] = "idle"]
    /\ fact' = [fact EXCEPT ![r] = NoFact]
    /\ todo' = [todo EXCEPT ![r] = {}]
    /\ closing' = [closing EXCEPT ![r] = {}]

\* record() returns: the sweep spends the rows it changed from its budget.
Return(r, rows) ==
    /\ Idle(r)
    /\ wrote' = IF r = "sweep" THEN 0 ELSE wrote
    /\ sweep' = IF r = "sweep" /\ ~sweep.full THEN [sweep EXCEPT !.writes = @ + rows] ELSE sweep

Begin(r, f) ==
    /\ pc[r] = "idle"
    /\ pc' = [pc EXCEPT ![r] = "match"]
    /\ fact' = [fact EXCEPT ![r] = f]
    /\ UNCHANGED <<todo, closing, wrote>>

\* _record_pull_request: any delivery, in any order, any number of times.
Webhook(f) ==
    /\ f \in facts
    /\ f.pr \in Hooked
    /\ Begin("webhook", f)
    /\ UNCHANGED <<world, job, issue, sweeping, faults, history>>

Unlinked(p) == {j \in Jobs : job[j].url = NoPR /\ OnBranch(j, p)}

(***************************************************************************)
(* The rest of matching_jobs: the unlinked follow-ups of the branch,       *)
(* whenever they were created, and, when no job claims the pull request by *)
(* URL, the newest of the others created before it was opened.  The oldest *)
(* MaxMatches of the list are taken; a fork's branch is nobody's here.     *)
(***************************************************************************)
ByBranch(p, claimed) ==
    LET followUps == Unlinked(p) \cap FollowUps
        derived == {j \in Unlinked(p) \ FollowUps : Created[j] <= Opened[p]}
        newest == {j \in derived : ~claimed /\ \A k \in derived : Created[k] <= Created[j]}
        first == {j \in followUps :
                     Cardinality({k \in followUps : Created[k] < Created[j]}) < MaxMatches}
    IN IF p \in Forks THEN {}
       ELSE first \cup (IF Cardinality(followUps) < MaxMatches THEN newest ELSE {})

(***************************************************************************)
(* matching_jobs: by URL, then by branch.  Its two queries are one step; a *)
(* job that is linked between them is missed until the next fact.          *)
(***************************************************************************)
Match(r) ==
    LET linked == {j \in Jobs : job[j].url = fact[r].pr}
        matched == linked \cup ByBranch(fact[r].pr, linked # {})
    IN /\ pc[r] = "match"
       /\ IF matched = {}
          THEN Return(r, 0)
          ELSE /\ todo' = [todo EXCEPT ![r] = matched]
               /\ pc' = [pc EXCEPT ![r] = "apply"]
               /\ UNCHANGED <<fact, closing, wrote, sweep>>
       /\ UNCHANGED <<world, job, issue, cursor, faults, history>>

\* JobChange.material: more than a date.
Material(old, new) == [old EXCEPT !.at = 0] # [new EXCEPT !.at = 0]

NewlyMerged_FromOpen(old, new) == old.delivery = "pr_open" /\ new.delivery = "merged"

NewlyMerged(old, new) == old.delivery # "merged" /\ new.delivery = "merged"

(***************************************************************************)
(* JobDeliveryRepository.apply: the row is locked while decide runs, and   *)
(* written with what it says.  A first merge is remembered for its issue.  *)
(***************************************************************************)
Apply(r, j) ==
    LET new == Decide(job[j], fact[r], r = "webhook")
        rows == wrote + (IF r = "sweep" /\ Material(job[j], new) THEN 1 ELSE 0)
        after == closing[r] \cup (IF NewlyMerged(job[j], new) THEN {IssueOf[j]} ELSE {})
    IN /\ pc[r] = "apply"
       /\ j \in todo[r]
       /\ \A k \in todo[r] : Created[j] <= Created[k]
       /\ job' = [job EXCEPT ![j] = new]
       /\ heard' = [heard EXCEPT ![j] =
                       IF r = "webhook" /\ new.url = fact[r].pr /\ fact[r].at > @
                       THEN fact[r].at ELSE @]
       /\ links' = [links EXCEPT ![j] = @ \cup {new.url}]
       /\ IF todo[r] = {j} /\ after = {}
          THEN Return(r, rows)
          ELSE /\ todo' = [todo EXCEPT ![r] = @ \ {j}]
               /\ closing' = [closing EXCEPT ![r] = after]
               /\ pc' = [pc EXCEPT ![r] = IF todo[r] = {j} THEN "close" ELSE "apply"]
               /\ wrote' = rows
               /\ UNCHANGED <<fact, sweep>>
       /\ UNCHANGED <<world, issue, cursor, faults, closed, missed>>

(***************************************************************************)
(* _close_issue: IssuesRepository.update reads the status, of which        *)
(* another writer may have moved the issue since, and writes under a       *)
(* compare-and-swap.  What it raises is logged.                            *)
(***************************************************************************)
CloseIssue(r, i, saw) ==
    LET raises == UpdateRaises(IssueMoves, saw, issue[i], "closed")
    IN /\ pc[r] = "close"
       /\ i \in closing[r]
       /\ saw = issue[i] \/ (issue[i] \in Movable /\ <<saw, issue[i]>> \in IssueMoves)
       /\ issue' = [issue EXCEPT ![i] = StatusAfter(IssueMoves, saw, @, "closed")]
       /\ closed' = IF raises THEN closed ELSE closed \cup {i}
       /\ missed' = IF raises THEN missed \cup {i} ELSE missed
       /\ IF closing[r] = {i}
          THEN Return(r, wrote)
          ELSE /\ closing' = [closing EXCEPT ![r] = @ \ {i}]
               /\ UNCHANGED <<pc, fact, todo, wrote, sweep>>
       /\ UNCHANGED <<world, job, cursor, faults, heard, links>>

\* A statement of record() raises: the webhook answers 500, the sweep goes on.
RecordFails(r) ==
    /\ pc[r] # "idle"
    /\ faults < MaxFaults
    /\ faults' = faults + 1
    /\ missed' = missed \cup closing[r]
    /\ Idle(r)
    /\ wrote' = IF r = "sweep" THEN 0 ELSE wrote
    /\ UNCHANGED <<world, job, issue, sweeping, heard, links, closed>>

-----------------------------------------------------------------------------
(***************************************************************************)
(* The sweep.  full is the operator's backfill: every state, no budgets.   *)
(***************************************************************************)
NoPass == [pc |-> "idle", full |-> FALSE, left |-> 0, stopped |-> FALSE, writes |-> 0,
           align |-> {}, rows |-> {}, short |-> FALSE, page |-> {}, done |-> {}]

\* _Budget.exhausted: GitHub said stop, or the write budget is spent.
Exhausted == sweep.stopped \/ (~sweep.full /\ sweep.writes >= MaxWrites)

Cost(p) == IF p \in Renamed THEN 2 ELSE 1

MisalignedJobs_Merged ==
    {j \in Jobs : job[j].status \in {"completed", "pr_closed"} /\ job[j].delivery = "merged"}

\* misaligned_statuses: the jobs whose status has not followed their delivery.
MisalignedJobs == {j \in Jobs : Aligned(job[j].status, job[j].delivery) # job[j].status}

StartPass(full) ==
    /\ sweep.pc = "idle"
    /\ sweep' = [NoPass EXCEPT !.pc = "align", !.full = full,
                               !.left = IF full THEN 0 ELSE MaxRequests,
                               !.align = MisalignedJobs]
    /\ UNCHANGED <<world, job, issue, recorder, cursor, faults, history>>

\* _align_statuses: each misaligned job, on its row as it is when locked.
AlignStatus(j) ==
    LET status == Aligned(job[j].status, job[j].delivery)
    IN /\ sweep.pc = "align"
       /\ j \in sweep.align
       /\ job' = [job EXCEPT ![j].status = status]
       /\ sweep' = [sweep EXCEPT !.align = @ \ {j},
                                 !.writes = @ + (IF status # job[j].status THEN 1 ELSE 0)]
       /\ UNCHANGED <<world, issue, recorder, cursor, faults, history>>

\* list_tracked: the pull requests stored by jobs in one of `states`, each
\* with the first of those jobs, after the cursor.
Tracked(states, after) ==
    {row \in [pr : PRs, key : {Created[j] : j \in Jobs}] :
        /\ row.key > after
        /\ \E j \in Jobs : /\ job[j].url = row.pr
                           /\ job[j].delivery \in states
                           /\ Created[j] = row.key
        /\ \A j \in Jobs : job[j].url = row.pr /\ job[j].delivery \in states
                             => row.key <= Created[j]}

FirstRows(rows, n) == {row \in rows : Cardinality({r \in rows : r.key < row.key}) < n}

ListTracked_NoWrap(full) == FirstRows(Tracked({"none", "pr_open"}, cursor), MaxRequests)

(***************************************************************************)
(* The rows of this pass.  Past the tail it starts over from the oldest.   *)
(***************************************************************************)
ListTracked(full) ==
    LET states == IF full THEN States ELSE {"none", "pr_open"}
        ahead == Tracked(states, IF full THEN 0 ELSE cursor)
    IN IF full THEN ahead
       ELSE FirstRows(IF ahead = {} THEN Tracked(states, 0) ELSE ahead, MaxRequests)

ListPass ==
    LET rows == ListTracked(sweep.full)
    IN /\ sweep.pc = "align"
       /\ sweep.align = {}
       /\ sweep' = [sweep EXCEPT !.pc = "track", !.rows = rows,
                                 !.short = Cardinality(rows) < MaxRequests]
       /\ cursor' = IF ~sweep.full /\ Tracked({"none", "pr_open"}, cursor) = {} THEN 0 ELSE cursor
       /\ UNCHANGED <<world, job, issue, recorder, faults, history>>

\* The sweep is between two records and may look at `row` next.
LookAt(row) ==
    /\ sweep.pc = "track"
    /\ pc["sweep"] = "idle"
    /\ ~Exhausted
    /\ row \in sweep.rows
    /\ \A other \in sweep.rows : row.key <= other.key

Spend(n) == IF sweep.full THEN 0 ELSE sweep.left - n

\* GitHub answers; fewer than rate_limit_floor calls left end the pass after it.
Answered(row, low) ==
    /\ LookAt(row)
    /\ sweep.full \/ sweep.left >= Cost(row.pr)
    /\ Begin("sweep", Snapshot(row.pr))
    /\ sweep' = [sweep EXCEPT !.rows = @ \ {row}, !.stopped = low,
                              !.left = Spend(Cost(row.pr)), !.done = @ \cup {row.pr}]
    /\ cursor' = IF sweep.full THEN cursor ELSE row.key
    /\ UNCHANGED <<world, job, issue, faults, history>>

\* The request fails, or the answer is no pull request: 404, 5xx.
Unanswered(row) ==
    /\ LookAt(row)
    /\ sweep.full \/ sweep.left >= 1
    /\ sweep' = [sweep EXCEPT !.rows = @ \ {row}, !.left = Spend(1)]
    /\ cursor' = IF sweep.full THEN cursor ELSE row.key
    /\ UNCHANGED <<world, job, issue, recorder, faults, history>>

\* 403 or 429, or no request left, the redirected one included: the row stays.
Refused(row) ==
    /\ LookAt(row)
    /\ sweep' = [sweep EXCEPT !.stopped = TRUE]
    /\ UNCHANGED <<world, job, issue, recorder, cursor, faults, history>>

\* A pass that got through a whole short listing starts from the top next time.
TrackedDone ==
    /\ sweep.pc = "track"
    /\ pc["sweep"] = "idle"
    /\ sweep.rows = {} \/ Exhausted
    /\ cursor' = IF ~sweep.full /\ ~Exhausted /\ sweep.short THEN 0 ELSE cursor
    /\ sweep' = IF Exhausted THEN NoPass
                ELSE [sweep EXCEPT !.pc = "unlinked", !.rows = {}, !.short = FALSE]
    /\ UNCHANGED <<world, job, issue, recorder, faults, history>>

(***************************************************************************)
(* _sweep_unlinked: one listing of the repository's pull requests, of      *)
(* which those on the branch of an unlinked job are recorded; a redirected *)
(* one takes a second request.  Without such a job, a request or an        *)
(* answer, the pass ends.                                                  *)
(***************************************************************************)
ListUnlinked ==
    LET found == {p \in PRs : forge[p].state # "none" /\ Unlinked(p) # {}}
        cost == IF \E p \in Renamed : Unlinked(p) # {} THEN 2 ELSE 1
    IN /\ sweep.pc = "unlinked"
       /\ sweep' = IF sweep.full \/ sweep.left >= cost
                   THEN [sweep EXCEPT !.pc = "page", !.left = Spend(cost),
                                      !.page = {Snapshot(p) : p \in found}]
                   ELSE NoPass
       /\ UNCHANGED <<world, job, issue, recorder, cursor, faults, history>>

\* A pull request of the page; one recorded in this pass is skipped (_seen).
RecordListed(f) ==
    /\ sweep.pc = "page"
    /\ pc["sweep"] = "idle"
    /\ ~Exhausted
    /\ f \in sweep.page
    /\ IF f.pr \in sweep.done
       THEN /\ sweep' = [sweep EXCEPT !.page = @ \ {f}]
            /\ UNCHANGED recorder
       ELSE /\ Begin("sweep", f)
            /\ sweep' = [sweep EXCEPT !.page = @ \ {f}, !.done = @ \cup {f.pr}]
    /\ UNCHANGED <<world, job, issue, cursor, faults, history>>

\* The pass ends, also when the listing was not answered.
PassDone ==
    /\ \/ sweep.pc = "unlinked"
       \/ /\ sweep.pc = "page"
          /\ pc["sweep"] = "idle"
          /\ sweep.page = {} \/ Exhausted
    /\ sweep' = NoPass
    /\ UNCHANGED <<world, job, issue, recorder, cursor, faults, history>>

\* The process stops and starts: requests and the pass are gone, and with
\* them the cursor, which is in memory.
Crash ==
    /\ faults < MaxFaults
    /\ faults' = faults + 1
    /\ pc' = [r \in Recorders |-> "idle"]
    /\ fact' = [r \in Recorders |-> NoFact]
    /\ todo' = [r \in Recorders |-> {}]
    /\ closing' = [r \in Recorders |-> {}]
    /\ wrote' = 0
    /\ sweep' = NoPass
    /\ cursor' = 0
    /\ missed' = missed \cup closing["webhook"] \cup closing["sweep"]
    /\ UNCHANGED <<world, job, issue, heard, links, closed>>

-----------------------------------------------------------------------------
Init ==
    /\ forge = [p \in PRs |-> IF p \in Before THEN [state |-> "pr_open", at |-> 1]
                             ELSE [state |-> "none", at |-> 0]]
    /\ clock = 1
    /\ facts = {[pr |-> p, state |-> "pr_open", at |-> 1] : p \in Before}
    /\ job \in [Jobs -> [status : {"running", "failed"}, url : PRs \cup {NoPR},
                         delivery : {"none", "pr_open"}, at : {0}]]
    /\ \A j \in Jobs :
        /\ job[j].status = IF j \in Earlier THEN "failed" ELSE "running"
        /\ job[j].url # NoPR => job[j].url \in Before /\ j \in Earlier /\ OnBranch(j, job[j].url)
        /\ job[j].delivery = IF job[j].url = NoPR THEN "none" ELSE "pr_open"
    /\ issue = [i \in Issues |-> "in_progress"]
    /\ pc = [r \in Recorders |-> "idle"]
    /\ fact = [r \in Recorders |-> NoFact]
    /\ todo = [r \in Recorders |-> {}]
    /\ closing = [r \in Recorders |-> {}]
    /\ wrote = 0
    /\ sweep = NoPass
    /\ cursor = 0
    /\ faults = 0
    /\ heard = [j \in Jobs |-> 0]
    /\ links = [j \in Jobs |-> {job[j].url} \ {NoPR}]
    /\ closed = {}
    /\ missed = {}

Rows == [pr : PRs, key : {Created[j] : j \in Jobs}]

RecordStep(r) ==
    \/ Match(r)
    \/ \E j \in Jobs : Apply(r, j)
    \/ \E i \in Issues, saw \in IssueStatuses : CloseIssue(r, i, saw)

Look(row) == (\E low \in BOOLEAN : Answered(row, low)) \/ Unanswered(row) \/ Refused(row)

SweepStep ==
    \/ \E j \in Jobs : AlignStatus(j)
    \/ ListPass \/ TrackedDone \/ ListUnlinked \/ PassDone
    \/ \E row \in Rows : Look(row)
    \/ \E f \in Facts : RecordListed(f)

JobStep ==
    \E j \in Jobs : \/ \E p \in PRs : StoreUrl(j, p)
                    \/ \E s \in {"completed", "failed"}, u \in PRs \cup {NoPR} : Finish(j, s, u)
                    \/ FinishRaised(j)

Next ==
    \/ \E p \in PRs, s \in States : ForgeMove(p, s)
    \/ JobStep
    \/ \E i \in Issues, s \in IssueStatuses : IssueMove(i, s)
    \/ \E f \in Facts : Webhook(f)
    \/ \E r \in Recorders : RecordStep(r) \/ RecordFails(r)
    \/ \E full \in Passes : StartPass(full)
    \/ SweepStep
    \/ Crash

Spec == Init /\ [][Next]_vars

(***************************************************************************)
(* The loop of the sweep never stops, and GitHub answers about a pull      *)
(* request it is asked about again and again.  Webhooks may all be lost    *)
(* and requests may hang.                                                  *)
(***************************************************************************)
FairSpec ==
    /\ Spec
    /\ WF_vars(SweepStep \/ RecordStep("sweep") \/ StartPass(FALSE))
    /\ \A p \in PRs : SF_vars(\E row \in Rows : row.pr = p /\ Answered(row, FALSE))

-----------------------------------------------------------------------------
JobRow == [status : JobStatuses, url : PRs \cup {NoPR}, delivery : States, at : Times]

Pass == [pc : {"idle", "align", "track", "unlinked", "page"}, full : BOOLEAN, left : Nat,
         stopped : BOOLEAN, writes : Nat, align : SUBSET Jobs, rows : SUBSET Rows,
         short : BOOLEAN, page : SUBSET Facts, done : SUBSET PRs]

TypeOK ==
    /\ forge \in [PRs -> [state : States, at : Times]]
    /\ clock \in Times
    /\ facts \subseteq Facts
    /\ job \in [Jobs -> JobRow]
    /\ issue \in [Issues -> IssueStatuses]
    /\ pc \in [Recorders -> {"idle", "match", "apply", "close"}]
    /\ fact \in [Recorders -> Facts \cup {NoFact}]
    /\ todo \in [Recorders -> SUBSET Jobs]
    /\ closing \in [Recorders -> SUBSET Issues]
    /\ wrote \in Nat
    /\ sweep \in Pass
    /\ cursor \in Nat
    /\ faults \in 0..MaxFaults
    /\ heard \in [Jobs -> Times]
    /\ links \in [Jobs -> SUBSET PRs]
    /\ closed \subseteq Issues /\ missed \subseteq Issues

(***************************************************************************)
(* What a row says its delivery is, was true on the forge at that time, of *)
(* a pull request the job is or was linked to.                             *)
(***************************************************************************)
RecordedWasTrue ==
    \A j \in Jobs : job[j].at # 0 =>
        \E f \in facts :
            /\ f.pr \in links[j]
            /\ f.state = job[j].delivery
            /\ f.at = job[j].at

(***************************************************************************)
(* pr_merged and pr_closed keep their meaning: the pull request of a job   *)
(* that completed was merged, or closed unmerged, and still is on the row. *)
(***************************************************************************)
StatusKeepsMeaning ==
    \A j \in Jobs :
        /\ job[j].status = "pr_merged" => job[j].delivery = "merged"
        /\ job[j].status = "pr_closed" => job[j].delivery = "closed"

(***************************************************************************)
(* A job tells the truth about its pull request: its delivery was the      *)
(* state on the forge at the date it gives, and its status agrees with its *)
(* delivery, whichever of webhook, sweep and executor wrote the row last.  *)
(***************************************************************************)
RowsTellTruth == RecordedWasTrue /\ StatusKeepsMeaning

(***************************************************************************)
(* A job that has the one pull request and was shown its latest webhook    *)
(* says what the forge says, whatever came before it, after it, twice or   *)
(* from the sweep.                                                         *)
(***************************************************************************)
LatestWins ==
    \A j \in Jobs, p \in PRs :
        (links[j] = {p} /\ heard[j] # 0 /\ heard[j] = forge[p].at) =>
            job[j].delivery = forge[p].state

(***************************************************************************)
(* A first merge closes the issue; what can keep it from it is the issue's *)
(* own status, another writer, or a record() cut off before it got there.  *)
(***************************************************************************)
MergeClosesIssue ==
    \A j \in Jobs : job[j].delivery = "merged" =>
        \/ IssueOf[j] \in closed \cup missed
        \/ \E r \in Recorders : IssueOf[j] \in closing[r]

(***************************************************************************)
(* A merge is final, and short of one the date of a row never goes back.   *)
(***************************************************************************)
NeverBack ==
    [][\A j \in Jobs : job'[j].delivery # "merged" =>
          job[j].delivery # "merged" /\ job'[j].at >= job[j].at]_vars

(***************************************************************************)
(* With every webhook lost, a job whose pull request was closed or merged  *)
(* learns of it from the sweep: no budget, failing request, crash or       *)
(* settled row hides it behind the cursor for ever.                        *)
(***************************************************************************)
Unsettled(p) ==
    /\ forge[p].state \in {"closed", "merged"}
    /\ \E j \in Jobs : links[j] = {p} /\ job[j].url = p /\ job[j].delivery = "pr_open"

SweepSettles == \A p \in PRs : Unsettled(p) ~> ~Unsettled(p)

\* A job that completes after its pull request was settled: its status follows.
Misaligned ==
    \E j \in Jobs : job[j].status = "completed" /\ job[j].delivery \in {"merged", "closed"}

StatusFollows == Misaligned ~> ~Misaligned

(***************************************************************************)
(* The sweep makes up for every webhook that was lost or that came before  *)
(* its job had completed: delivery and status of each row follow the forge *)
(* (sweep_once, align).                                                    *)
(***************************************************************************)
RowsCatchUp == SweepSettles /\ StatusFollows
=============================================================================
