---------------------------- MODULE HealingCases ----------------------------
(***************************************************************************)
(* One healing case: a finding of the log watcher on its way from the      *)
(* ticket over a job, a pull request, a merge and a deploy to the verdict  *)
(* whether the error stopped (services/healing).                           *)
(*                                                                         *)
(* Every write of HealingCaseService runs under the row lock of the case   *)
(* in one transaction, so a write is an operator on the record of the case *)
(* and one step.  What is not atomic is around the lock: merge sync reports*)
(* a merge late and again, the deploy loop and the confirm-healed sweep    *)
(* read the case, ask GitHub or the signature ledger, and only then write; *)
(* and a boot replays the jobs table in a transaction before they start.   *)
(*                                                                         *)
(* Times are the steps of a clock; 0 is "not set".  A merge commit is named*)
(* by its pull request, a deploy by the time of its marker.                *)
(***************************************************************************)
EXTENDS Integers, FiniteSetsExt

CONSTANTS
    PRs,            \* change requests made for the finding
    NoSha,          \* a merge whose commit is not known
    Owned,          \* the PRs opened by a job of the case (the rest: by people)
    Closable,       \* bound: the PRs that may be closed without a merge
    MaxReopens,     \* MAX_NOT_HEALED_RETRIES of confirm_sweep.py
    MaxTime,        \* bound: steps of the clock
    MaxRestarts     \* bound: restarts of the orchestrator

ASSUME HealingAssumption ==
    /\ NoSha \notin PRs
    /\ Owned \subseteq PRs /\ Closable \subseteq PRs
    /\ MaxReopens \in Nat
    /\ MaxTime \in Nat \ {0}
    /\ MaxRestarts \in Nat

VARIABLES
    now,        \* the clock
    forge,      \* forge[p]: the state of p on GitHub and the time of its merge
    deploys,    \* deploys[t]: the merges in the deploy marked at t, {} for none
    case,       \* the row of the case, its PR rows and what its history is asked for
    sync,       \* the marker the deploy loop has proven to carry the merge, or 0
    judging,    \* the anchor the confirm-healed sweep measures from, or 0
    verdictOf,  \* the judgement it came to
    dropping,   \* draft_released() read an unaccepted case and has yet to close it
    overtaken,  \* (history) the anchor moved while the sweep measured from it
    restarts,
    replay      \* the backfill's open transaction: rows it has to replay, the case as it has it

vars == <<now, forge, deploys, case, sync, judging, verdictOf, dropping,
          overtaken, restarts, replay>>

Times == 0..MaxTime
Stages == {"detected", "tracked", "accepted", "pr_open", "merged", "deployed", "verified", "closed"}
Verdicts == {"healed", "not_healed"}     \* `inconclusive` leaves a merged case as `healed` does
MergePaths == {"embry0", "out_of_band"}
Paths == MergePaths \cup {"none", "self_resolved", "cancelled", "abandoned"}

Rank == [detected |-> 1, tracked |-> 2, accepted |-> 3, pr_open |-> 4,
         merged |-> 5, deployed |-> 6, verified |-> 7, closed |-> 8]

Case == [stage : Stages, path : Paths, verdict : Verdicts \cup {"pending"}, measured : Times,
         sha : PRs \cup {NoSha}, mergedAt : Times, anchor : Times, judged : BOOLEAN,
         pr : [PRs -> {"none", "open", "closed", "merged"}],
         kept : SUBSET Times, keys : SUBSET Times, answers : SUBSET (Times \X Verdicts),
         shas : SUBSET PRs, old : SUBSET PRs, reopenAt : Times, reopens : 0..MaxReopens]

NewCase(stage) ==
    [stage |-> stage, path |-> "none", verdict |-> "pending", measured |-> 0,
     sha |-> NoSha, mergedAt |-> 0, anchor |-> 0, judged |-> FALSE,
     pr |-> [p \in PRs |-> "none"], kept |-> {}, keys |-> {}, answers |-> {},
     shas |-> {}, old |-> {}, reopenAt |-> 0, reopens |-> 0]

\* What the jobs table says of a PR of a job: merged or closed at a time, or neither.
JobRows == [pr : Owned, outcome : {"open", "merged", "closed"}, at : Times]
NoReplay == [rows |-> {}, case |-> NewCase("detected")]

\* The backfill is over: requests are served and the loops run.
Up == replay.rows = {}

-----------------------------------------------------------------------------
(* The stage machine.                                                      *)

Behind(c, target) == Rank[c.stage] < Rank[target]

\* A forward event: ahead of the case it moves it, behind it leaves it.
Forward(c, target) == IF Behind(c, target) THEN [c EXCEPT !.stage = target] ELSE c

FixDeployed(c) == c.sha # NoSha /\ c.mergedAt # 0 /\ c.anchor # 0 /\ c.anchor >= c.mergedAt

\* attach_tracker, attach_issue and attach_job, as far as they move the case
Tracked(c) == Forward(c, "tracked")
Accepted(c) == Forward(c, "accepted")

\* attach_pr: a new PR, or one reopened on the forge, is pr_opened; news of a
\* known one moves nothing
AttachPr(c, p, reopened) ==
    IF c.pr[p] = "none" \/ (reopened /\ c.pr[p] = "closed")
    THEN [Forward(c, "pr_open") EXCEPT !.pr[p] = "open"]
    ELSE c

\* close_pr: a case at pr_open without another open PR goes back to accepted
ClosePr(c, p) ==
    LET row == [c EXCEPT !.pr[p] = "closed"]
    IN IF c.pr[p] = "merged" THEN c
       ELSE IF c.stage = "pr_open" /\ \A q \in PRs \ {p} : c.pr[q] # "open"
            THEN [row EXCEPT !.stage = "accepted"]
            ELSE row

-----------------------------------------------------------------------------
(* Merges.                                                                 *)

\* the mutant: any merge reported after a reopen is the retry's
MergeIsCurrent_BySha(c, p, sha, at) == sha \notin c.old /\ (c.mergedAt # 0 \/ c.pr[p] # "merged")

\* _merge_is_current: after a reopen, a merge of the discarded attempt is not
MergeIsCurrent(c, p, sha, at) ==
    \/ c.reopenAt = 0
    \/ /\ at > c.reopenAt
       /\ sha \notin c.old
       /\ c.mergedAt # 0 \/ c.pr[p] # "merged"

\* _anchor_kept_deploy: the earliest deploy of this attempt not older than the merge.
\* The deploy loop waits for the merge, so it finds none; the service does not rely on it.
KeptFor(c) == {t \in c.kept : t >= c.mergedAt}

AnchorKept(c) ==
    IF KeptFor(c) = {} THEN c
    ELSE [Forward(c, "deployed") EXCEPT !.anchor = Min(KeptFor(c))]

\* the columns of a merge: overwritten when it moves the case, else filled
MergeFields(c, sha, at, path) ==
    IF Behind(c, "merged")
    THEN [c EXCEPT !.stage = "merged", !.sha = sha, !.mergedAt = at, !.path = path]
    ELSE [c EXCEPT !.sha = IF @ = NoSha THEN sha ELSE @,
                   !.mergedAt = IF @ = 0 THEN at ELSE @,
                   !.path = IF @ \in {"none", "self_resolved"} THEN path ELSE @]

\* record_merge.  The history keeps the sha unless the event came late and
\* found one already: then nothing of it is written.
RecordMerge(c, p, sha, at, path) ==
    LET current == MergeIsCurrent(c, p, sha, at)
        late == current /\ c.stage \in {"deployed", "verified"} /\ c.sha # NoSha
        row == [c EXCEPT !.pr[p] = "merged",
                         !.shas = IF late THEN @ ELSE @ \cup ({sha} \ {NoSha})]
        written == MergeFields(row, sha, at, path)
    IN IF c.stage = "closed" \/ ~current THEN row
       ELSE IF c.mergedAt = 0 /\ written.anchor = 0 THEN AnchorKept(written)
       ELSE written

-----------------------------------------------------------------------------
(* Deploys and verdicts.                                                   *)

\* the mutant: the verdict stands
Reanchored_KeepsVerdict(c, t) == [c EXCEPT !.anchor = t]

\* a deploy older than the anchor replaces it and voids what was measured
Reanchored(c, t) ==
    [c EXCEPT !.anchor = t, !.verdict = "pending", !.measured = 0]

\* the mutant: the first deploy reported stays
RecordDeploy_FirstStays(c, t) ==
    LET row == [c EXCEPT !.keys = @ \cup {t}, !.kept = @ \cup {t}]
    IN IF t \in c.keys THEN c
       ELSE IF c.stage = "closed" \/ c.mergedAt = 0 \/ t < c.mergedAt \/ c.anchor # 0 THEN row
       ELSE [Forward(row, "deployed") EXCEPT !.anchor = t]

\* record_deploy: the marker is the event key; one that cannot anchor is kept,
\* but one later than the anchor of a verified case changes nothing and leaves no row
RecordDeploy(c, t) ==
    LET row == [c EXCEPT !.keys = @ \cup {t}, !.kept = @ \cup {t}]
    IN IF t \in c.keys THEN c
       ELSE IF c.stage = "closed" \/ c.mergedAt = 0 \/ t < c.mergedAt THEN row
       ELSE IF c.anchor = 0 THEN [Forward(row, "deployed") EXCEPT !.anchor = t]
       ELSE IF t < c.anchor THEN Reanchored(Forward(row, "deployed"), t)
       ELSE IF c.stage = "verified" THEN c
       ELSE row

\* the resolution a verdict sets or withdraws
VerdictPath(c, v) ==
    IF v = "healed" /\ c.path = "none" THEN "self_resolved"
    ELSE IF v # "healed" /\ c.path = "self_resolved" /\ c.mergedAt = 0 THEN "none"
    ELSE c.path

\* the mutant: the event key names the verdict alone
RecordVerdict_KeyedByVerdict(c, v, from) ==
    IF <<0, v>> \in c.answers THEN c
    ELSE IF c.stage = "closed" THEN [c EXCEPT !.answers = @ \cup {<<0, v>>}]
    ELSE [Forward(c, "verified") EXCEPT !.verdict = v, !.measured = from, !.judged = TRUE,
                                        !.path = VerdictPath(c, v),
                                        !.answers = @ \cup {<<0, v>>}]

\* record_verdict: the event key names the anchor and the verdict
RecordVerdict(c, v, from) ==
    IF <<from, v>> \in c.answers THEN c
    ELSE IF c.stage = "closed" THEN [c EXCEPT !.answers = @ \cup {<<from, v>>}]
    ELSE [Forward(c, "verified") EXCEPT !.verdict = v, !.measured = from, !.judged = TRUE,
                                        !.path = VerdictPath(c, v),
                                        !.answers = @ \cup {<<from, v>>}]

\* reopen: the row describes the new attempt, the history keeps the old one
Reopened(c, at) ==
    [c EXCEPT !.stage = "tracked", !.verdict = "pending", !.measured = 0, !.path = "none",
              !.sha = NoSha, !.mergedAt = 0, !.anchor = 0, !.kept = {}, !.old = c.shas,
              !.reopenAt = at, !.reopens = @ + 1]

\* abandon: only an accepted case has an attempt to give up
Abandoned(c) ==
    IF c.stage = "accepted" THEN [c EXCEPT !.stage = "closed", !.path = "abandoned"] ELSE c

\* the mutant: the caller's resolution wins
Closed_CallersPath(c, path) ==
    IF c.stage = "closed" THEN c ELSE [c EXCEPT !.stage = "closed", !.path = path]

\* close: a resolution the case already has is kept
Closed(c, path) ==
    IF c.stage = "closed" THEN c
    ELSE [c EXCEPT !.stage = "closed", !.path = IF @ = "none" THEN path ELSE @]

-----------------------------------------------------------------------------
(* The world: GitHub, the deploys of the watched stack, the clock.         *)

World == <<now, forge, deploys>>
Loops == <<sync, judging, verdictOf, dropping, overtaken, restarts, replay>>

Clock == /\ now < MaxTime /\ now' = now + 1
         /\ UNCHANGED <<forge, deploys, case, Loops>>

ForgeOpens(p) ==
    /\ forge[p].state \in {"none", "closed"}
    /\ forge' = [forge EXCEPT ![p].state = "open"]
    /\ UNCHANGED <<now, deploys, case, Loops>>

ForgeCloses(p) ==
    /\ p \in Closable /\ forge[p].state = "open"
    /\ forge' = [forge EXCEPT ![p].state = "closed"]
    /\ UNCHANGED <<now, deploys, case, Loops>>

ForgeMerges(p) ==
    /\ forge[p].state = "open"
    /\ forge' = [forge EXCEPT ![p] = [state |-> "merged", at |-> now]]
    /\ UNCHANGED <<now, deploys, case, Loops>>

MergedPRs == {p \in PRs : forge[p].state = "merged"}

\* A deploy of the stack, of any branch: it carries some of the merges.
StackDeploys ==
    /\ deploys[now] = {}
    /\ \E carried \in SUBSET MergedPRs \ {{}} : deploys' = [deploys EXCEPT ![now] = carried]
    /\ UNCHANGED <<now, forge, case, Loops>>

Markers == {t \in 1..MaxTime : deploys[t] # {}}

-----------------------------------------------------------------------------
(* Reports to the ledger.                                                  *)

Becomes(c) == Up /\ case' = c /\ UNCHANGED <<World, Loops>>

\* a deferred finding gets its draft ticket
FileTicket == /\ case.stage = "detected"
              /\ Becomes(Tracked(case))

\* a deferred finding will never be filed
DropFinding == /\ case.stage = "detected"
               /\ Becomes(Closed(case, "cancelled"))

\* job_dispatched, pr_followup_dispatched
Dispatch == Becomes(Accepted(case))

\* pr_opened, existing_pr_found: a job ended with a change request
JobReportsPr(p) ==
    /\ forge[p].state # "none"
    /\ Becomes(AttachPr(case, p, FALSE))

\* merge sync reports the PR as GitHub has it or, late or again, as GitHub had
\* it: one that exists was opened, and one of Closable may have been closed and
\* reopened before it came to its present state
SyncReportsPr(p) ==
    /\ forge[p].state # "none"
    /\ \/ Becomes(AttachPr(case, p, case.pr[p] = "closed"))
       \/ p \in Closable /\ Becomes(ClosePr(case, p))

PathFor(p) == IF p \in Owned THEN "embry0" ELSE "out_of_band"

SyncReportsMerge(p) ==
    /\ forge[p].state = "merged"
    /\ Becomes(RecordMerge(case, p, p, forge[p].at, PathFor(p)))

\* job_abandoned: a person gave the attempt up
Abandon == Becomes(Abandoned(case))

\* draft_released: the stage is read before the lock of close() is taken
ReadDraft ==
    /\ Up /\ ~dropping
    /\ case.stage \in {"detected", "tracked"}
    /\ dropping' = TRUE
    /\ UNCHANGED <<World, case, sync, judging, verdictOf, overtaken, restarts, replay>>

CloseDraft ==
    /\ dropping
    /\ dropping' = FALSE
    /\ case' = Closed(case, "cancelled")
    /\ UNCHANGED <<World, sync, judging, verdictOf, overtaken, restarts, replay>>

-----------------------------------------------------------------------------
(* The deploy loop: read the case, prove ancestry, report.                 *)

\* the mutant: any deploy after the merge is taken to carry it
Provable_ByTime == {t \in Markers : /\ t >= case.mergedAt
                                    /\ case.anchor = 0 \/ t < case.anchor}

\* A marker whose ancestry GitHub cannot tell is skipped, so any may be chosen.
Provable == {t \in Markers : /\ t >= case.mergedAt
                             /\ case.anchor = 0 \/ t < case.anchor
                             /\ case.sha \in deploys[t]}

ReadCase ==
    /\ Up /\ sync = 0
    /\ case.stage # "closed" /\ case.sha # NoSha /\ case.mergedAt # 0
    /\ sync' \in Provable
    /\ UNCHANGED <<World, case, judging, verdictOf, dropping, overtaken, restarts, replay>>

ReportDeploy ==
    /\ sync # 0
    /\ sync' = 0
    /\ case' = RecordDeploy(case, sync)
    /\ overtaken' = (overtaken \/ (judging # 0 /\ case'.anchor # case.anchor))
    /\ UNCHANGED <<World, judging, verdictOf, dropping, restarts, replay>>

-----------------------------------------------------------------------------
(* The confirm-healed sweep: one loop, judging before reopening.           *)

ReadPending ==
    /\ Up /\ judging = 0
    /\ case.verdict = "pending" /\ FixDeployed(case)
    /\ judging' = case.anchor
    /\ verdictOf' \in Verdicts
    /\ overtaken' = FALSE
    /\ UNCHANGED <<World, case, sync, dropping, restarts, replay>>

Judge ==
    /\ judging # 0
    /\ case' = RecordVerdict(case, verdictOf, judging)
    /\ judging' = 0 /\ verdictOf' = "healed"
    /\ UNCHANGED <<World, sync, dropping, overtaken, restarts, replay>>

\* the mutant: as often as it fails
ReopenNotHealed_NoLimit ==
    /\ judging = 0
    /\ case.stage = "verified" /\ case.verdict = "not_healed"
    /\ Becomes(Reopened(case, now))

ReopenNotHealed ==
    /\ judging = 0
    /\ case.stage = "verified" /\ case.verdict = "not_healed" /\ case.reopens < MaxReopens
    /\ Becomes(Reopened(case, now))

-----------------------------------------------------------------------------
(* A restart loses what the loops held.  Before anything else runs, the    *)
(* boot replays the jobs table onto a case no verdict was ever recorded on *)
(* (backfill_watcher_proposals), in one transaction for the case.  The     *)
(* table may know of a merge the ledger was never told of: it has the time *)
(* merge sync set the job to pr_merged, after the merge, and no commit.    *)

Settled(c) == c.stage = "closed" \/ c.judged

\* What the job of a PR may say: the outcome GitHub has, or that it knows of none.
Told(p) ==
    {row \in JobRows :
        /\ row.pr = p
        /\ \/ row.outcome = "open" /\ row.at = 0
           \/ row.outcome = "closed" /\ row.at = 0 /\ forge[p].state = "closed"
           \/ row.outcome = "merged" /\ row.at \in forge[p].at..now /\ forge[p].state = "merged"}

OpenedPRs == {p \in Owned : forge[p].state # "none"}

Restart ==
    /\ restarts < MaxRestarts
    /\ restarts' = restarts + 1
    /\ \E table \in [OpenedPRs -> UNION {Told(p) : p \in OpenedPRs}] :
          /\ \A p \in OpenedPRs : table[p] \in Told(p)
          /\ replay' = IF Settled(case) \/ OpenedPRs = {} THEN NoReplay
                       ELSE [rows |-> {table[p] : p \in OpenedPRs}, case |-> case]
    /\ sync' = 0 /\ judging' = 0 /\ verdictOf' = "healed" /\ dropping' = FALSE
    /\ UNCHANGED <<World, case, overtaken>>

\* _replay_pipeline, for one PR of the case
Replayed(c, row) ==
    LET attached == AttachPr(Accepted(c), row.pr, FALSE)
    IN CASE row.outcome = "merged" -> RecordMerge(attached, row.pr, NoSha, row.at, "embry0")
         [] row.outcome = "closed" -> ClosePr(attached, row.pr)
         [] OTHER -> attached

\* The last row commits the transaction.
ReplayRow(row) ==
    LET left == replay.rows \ {row}
        replayed == Replayed(replay.case, row)
    IN /\ row \in replay.rows
       /\ case' = IF left = {} THEN replayed ELSE case
       /\ replay' = IF left = {} THEN NoReplay ELSE [rows |-> left, case |-> replayed]
       /\ UNCHANGED <<World, sync, judging, verdictOf, dropping, overtaken, restarts>>

\* It raises or overruns its minute: the boot goes on without it.
BackfillFails ==
    /\ ~Up
    /\ replay' = NoReplay
    /\ UNCHANGED <<World, case, sync, judging, verdictOf, dropping, overtaken, restarts>>

Backfill == BackfillFails \/ \E row \in JobRows : ReplayRow(row)

-----------------------------------------------------------------------------
Init ==
    /\ now = 1
    /\ forge = [p \in PRs |-> [state |-> "none", at |-> 0]]
    /\ deploys = [t \in 1..MaxTime |-> {}]
    /\ \E stage \in {"detected", "tracked"} : case = NewCase(stage)
    /\ sync = 0 /\ judging = 0 /\ verdictOf = "healed" /\ dropping = FALSE
    /\ overtaken = FALSE /\ restarts = 0 /\ replay = NoReplay

ForgeStep == \E p \in PRs : ForgeOpens(p) \/ ForgeCloses(p) \/ ForgeMerges(p)

Report ==
    \/ FileTicket \/ DropFinding \/ Dispatch \/ Abandon
    \/ \E p \in PRs : JobReportsPr(p) \/ SyncReportsPr(p) \/ SyncReportsMerge(p)

Next ==
    \/ Clock \/ StackDeploys \/ ForgeStep \/ Report
    \/ ReadDraft \/ CloseDraft \/ ReadCase \/ ReportDeploy
    \/ ReadPending \/ Judge \/ ReopenNotHealed
    \/ Restart \/ Backfill

Spec == Init /\ [][Next]_vars

\* The deploy loop and the sweep come round for ever, and finish a write they
\* began: both are tasks of the lifespan that swallow what one pass raises.
\* The backfill ends within its timeout.
Fairness ==
    /\ WF_vars(ReadCase) /\ WF_vars(ReportDeploy)
    /\ WF_vars(ReadPending) /\ WF_vars(Judge)
    /\ WF_vars(Backfill)

FairSpec == Spec /\ Fairness

-----------------------------------------------------------------------------
TypeOK ==
    /\ now \in 1..MaxTime
    /\ forge \in [PRs -> [state : {"none", "open", "closed", "merged"}, at : Times]]
    /\ deploys \in [1..MaxTime -> SUBSET PRs]
    /\ case \in Case
    /\ sync \in Times /\ judging \in Times /\ verdictOf \in Verdicts
    /\ dropping \in BOOLEAN /\ overtaken \in BOOLEAN /\ restarts \in 0..MaxRestarts
    /\ replay \in [rows : SUBSET JobRows, case : Case]

(***************************************************************************)
(* fix_deployed is true: the deploy the case is anchored on carries the    *)
(* merge the row names, though the loop vouched for the merge it had read. *)
(***************************************************************************)
AnchorCarriesFix == FixDeployed(case) => case.sha \in deploys[case.anchor]

(***************************************************************************)
(* In whatever order merge and deploys are reported, the anchor is the     *)
(* earliest deploy reported in this attempt that is not older than the     *)
(* merge (record_deploy, _anchor_kept_deploy).                             *)
(***************************************************************************)
AnchorIsEarliest ==
    case.stage # "closed" /\ case.mergedAt # 0 =>
        case.anchor = IF KeptFor(case) = {} THEN 0 ELSE Min(KeptFor(case))

(***************************************************************************)
(* The anchor is right: it is the earliest deploy after the merge, and     *)
(* where the case says its fix is deployed, one that contains the fix.     *)
(***************************************************************************)
FixAnchored == AnchorCarriesFix /\ AnchorIsEarliest

(***************************************************************************)
(* After a reopen the row describes the retry alone: a merge or a deploy   *)
(* of the failed attempt, delivered late or again, never becomes its own.  *)
(***************************************************************************)
RetryOnItsOwn ==
    case.reopenAt # 0 =>
        /\ case.mergedAt = 0 \/ case.mergedAt > case.reopenAt
        /\ case.anchor = 0 \/ case.anchor > case.reopenAt

(***************************************************************************)
(* A merge is credited: a case with one is resolved by it and by nothing   *)
(* that came before or after, not even a close that races it.              *)
(***************************************************************************)
MergeGetsCredit == case.mergedAt # 0 <=> case.path \in MergePaths

(***************************************************************************)
(* The merge on a row is its own: made in this attempt, and the one that   *)
(* the resolution of the case is put down to.                              *)
(***************************************************************************)
MergeIsItsOwn == RetryOnItsOwn /\ MergeGetsCredit

(***************************************************************************)
(* A verdict was measured from the anchor the case has: one measured from  *)
(* an anchor since replaced is void.  Only an anchor that moves while the  *)
(* sweep is measuring gets past this (overtaken).                          *)
(***************************************************************************)
VerdictFromAnchor ==
    case.verdict # "pending" /\ ~overtaken => case.measured = case.anchor

(***************************************************************************)
(* A shipped fix is judged: a case whose merge a marked deploy carries     *)
(* gets a verdict, whatever was reported before and in between.            *)
(***************************************************************************)
Shipped ==
    /\ case.stage # "closed" /\ case.sha # NoSha /\ case.verdict = "pending"
    /\ \E t \in Markers : t >= case.mergedAt /\ case.sha \in deploys[t]

FixJudged == Shipped ~> ~Shipped
=============================================================================
