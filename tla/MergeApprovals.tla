--------------------------- MODULE MergeApprovals ---------------------------
(***************************************************************************)
(* Merge approvals (embry0/services/merge_approvals.py): embry0 asks       *)
(* people whether to merge a pull request, pinned to its head commit, and  *)
(* merges it when somebody says yes.  One pull request, as every row, lock *)
(* and question is about one.  Every change of an ask is one conditional   *)
(* UPDATE; what a job's ask(), the sweep and the decisions of several      *)
(* people do between two of them interleaves, with GitHub and with pushes, *)
(* merges and closes on GitHub.                                            *)
(*                                                                         *)
(* Time is left to choice: an ask may expire at any look of the sweep, and *)
(* a claim is old when its holder is gone (see SlowCalls).  A closed pull  *)
(* request stays closed.  Left out: what an ask says, the recommendation,  *)
(* notifications and who may decide.                                       *)
(***************************************************************************)
EXTENDS Naturals, FiniteSets

CONSTANTS Asks,        \* the rows that may be written: numbers in the order of their insertion
          Heads,       \* the commits the head of the pull request may be
          FirstHead,   \* the one the first job pushed
          Deciders,    \* requests deciding at the same time
          Modes,       \* the modes embry0 may be started in
          SlowCalls,   \* whether a decision may take longer than IN_FLIGHT_TIMEOUT
          MaxJobs,     \* bound: completed jobs that ask about it
          MaxPushes,   \* bound: pushes after the first
          MaxAnswers,  \* bound: decisions people take
          MaxFaults    \* bound: exceptions and restarts

ASSUME MergeAssumption ==
    /\ Asks \subseteq Nat \ {0}
    /\ FirstHead \in Heads
    /\ {"job", "sweep"} \cap Deciders = {}
    /\ Modes \subseteq {"dry_run", "on"} /\ Modes # {}
    /\ SlowCalls \in BOOLEAN
    /\ MaxJobs \in Nat /\ MaxPushes \in Nat /\ MaxAnswers \in Nat /\ MaxFaults \in Nat

VARIABLES pr,       \* the pull request on GitHub; via is the ask embry0 merged it for, or 0
          ci,       \* per commit: whether its CI was green so far
          mode,     \* MERGE_APPROVAL_MODE, read at start
          ask,      \* the rows of merge_approvals; status "none" before the INSERT
          at,       \* per process: where it stands, the ask it works on, what it read
          jobs,     \* completed jobs so far
          pushes,   \* pushes so far
          answers,  \* decisions so far
          faults,   \* exceptions and restarts so far
          lost      \* history: the decision that merged died, or was never answered

vars == <<pr, ci, mode, ask, at, jobs, pushes, answers, faults, lost>>
github == <<pr, ci>>
people == <<jobs, pushes, answers>>

Job == "job"
Sweep == "sweep"
Procs == {Job, Sweep} \cup Deciders

Statuses == {"pending", "approved", "rejected", "merged", "failed", "stale", "closed", "expired"}
CiStates == {"not_green", "green"}
NoAsk == [status |-> "none", head |-> FirstHead, posted |-> FALSE, dry |-> FALSE]
Idle == [pc |-> "idle", row |-> 0, head |-> FirstHead, to |-> "none"]

Go(p, pc) == at' = [at EXCEPT ![p].pc = pc]
Stop(p) == at' = [at EXCEPT ![p] = Idle]
Pending == {a \in Asks : ask[a].status = "pending"}
Row(p) == ask[at[p].row]
SetStatus(a, from, status) ==
    ask' = [ask EXCEPT ![a].status = IF @ \in from THEN status ELSE @]

-----------------------------------------------------------------------------
(* GitHub and the people who work on the pull request there. *)
Push(h) ==
    /\ pr.state = "open" /\ h # pr.head
    /\ pushes < MaxPushes
    /\ pushes' = pushes + 1
    /\ pr' = [pr EXCEPT !.head = h]
    /\ UNCHANGED <<ci, mode, ask, at, jobs, answers, faults, lost>>

\* Merged or closed by somebody else.
Settle(state) ==
    /\ pr.state = "open"
    /\ pr' = [pr EXCEPT !.state = state]
    /\ UNCHANGED <<ci, mode, ask, at, people, faults, lost>>

(***************************************************************************)
(* The CI of a commit turns green.  That it runs again and fails is left   *)
(* to Verify.  Of an open pull request: once it is settled, all asks about *)
(* it end alike; and of a commit asked about: nobody looks at another's.   *)
(***************************************************************************)
CiReports(h) ==
    /\ pr.state = "open"
    /\ \E a \in Asks : ask[a].status # "none" /\ ask[a].head = h
    /\ ci[h] = "not_green"
    /\ ci' = [ci EXCEPT ![h] = "green"]
    /\ UNCHANGED <<pr, mode, ask, at, people, faults, lost>>

-----------------------------------------------------------------------------
(***************************************************************************)
(* ask(): reads the pull request, looks for a pending ask, supersedes one  *)
(* of another commit, inserts.  Run by a job, the sweep or a decision.     *)
(***************************************************************************)
\* What get_pull answers: there is nothing to ask about, or there is its head.
PullRead ==
    IF pr.state = "open" THEN [Idle EXCEPT !.pc = "find", !.head = pr.head] ELSE Idle

\* schedule_ask, when a job completes with the pull request.  A get_pull that
\* fails or has nothing to ask about ends it, which changes nothing.
JobAsks ==
    /\ at[Job].pc = "idle"
    /\ pr.state = "open"
    /\ jobs < MaxJobs
    /\ jobs' = jobs + 1
    /\ at' = [at EXCEPT ![Job] = PullRead]
    /\ UNCHANGED <<github, mode, ask, pushes, answers, faults, lost>>

AskAgain(p, answered) ==
    /\ at[p].pc = "ask"
    /\ at' = [at EXCEPT ![p] = IF answered THEN PullRead ELSE Idle]
    /\ UNCHANGED <<github, mode, ask, people, faults, lost>>

\* pending_for_pr.
AskFind(p) ==
    /\ at[p].pc = "find"
    /\ IF Pending = {}
       THEN Go(p, "create")
       ELSE \E a \in Pending : IF ask[a].head = at[p].head
                               THEN Stop(p)
                               ELSE at' = [at EXCEPT ![p].pc = "supersede", ![p].row = a]
    /\ UNCHANGED <<github, mode, ask, people, faults, lost>>

AskSupersede(p) ==
    /\ at[p].pc = "supersede"
    /\ SetStatus(at[p].row, {"pending", "approved", "failed"}, "stale")
    /\ at' = [at EXCEPT ![p].pc = "create", ![p].row = 0]
    /\ UNCHANGED <<github, mode, people, faults, lost>>

\* create_pending: ON CONFLICT DO NOTHING while the pull request has a pending ask.
AskCreate(p) ==
    /\ at[p].pc = "create"
    /\ IF Pending # {}
       THEN UNCHANGED ask
       ELSE \E a \in Asks : /\ ask[a].status = "none"
                            /\ \A b \in Asks : ask[b].status = "none" => a <= b
                            /\ ask' = [ask EXCEPT ![a] = [NoAsk EXCEPT !.status = "pending",
                                                                       !.head = at[p].head]]
    /\ Stop(p)
    /\ UNCHANGED <<github, mode, people, faults, lost>>

AskStep(p) ==
    \/ \E answered \in BOOLEAN : AskAgain(p, answered)
    \/ AskFind(p) \/ AskSupersede(p) \/ AskCreate(p)

-----------------------------------------------------------------------------
(***************************************************************************)
(* sweep_once lists the pending asks, the unposted first, then the posted  *)
(* ones not looked at for ten minutes; of one pull request there is at     *)
(* most one.  get_pull without an answer leaves the ask to the next pass,  *)
(* and a posted one nothing happened to is touched, which changes nothing  *)
(* here.                                                                   *)
(***************************************************************************)
SweepLooks(a, answered) ==
    LET next == IF ~answered THEN "idle"
                ELSE IF pr.state # "open" THEN "retire"
                ELSE IF pr.head # ask[a].head THEN "restale"
                ELSE IF ask[a].posted THEN "idle"
                ELSE "post"
    IN /\ at[Sweep].pc = "idle"
       /\ ask[a].status = "pending"
       /\ at' = [at EXCEPT ![Sweep] = IF next = "idle" THEN Idle
                                      ELSE [Idle EXCEPT !.pc = next, !.row = a]]
       /\ UNCHANGED <<github, mode, ask, people, faults, lost>>

\* _advance_posted: no answer within expiry_seconds of posted_at.
SweepExpires(a) ==
    /\ at[Sweep].pc = "idle"
    /\ ask[a].status = "pending" /\ ask[a].posted
    /\ SetStatus(a, {"pending"}, "expired")
    /\ UNCHANGED <<github, mode, at, people, faults, lost>>

\* _pr_gone: retire, while it is still pending.
SweepRetires ==
    /\ at[Sweep].pc = "retire"
    /\ SetStatus(at[Sweep].row, {"pending"}, "closed")
    /\ Stop(Sweep)
    /\ UNCHANGED <<github, mode, people, faults, lost>>

\* _head_moved: mark_stale, then a fresh ask.
SweepRestales ==
    /\ at[Sweep].pc = "restale"
    /\ SetStatus(at[Sweep].row, {"pending", "approved", "failed"}, "stale")
    /\ at' = [at EXCEPT ![Sweep] = [Idle EXCEPT !.pc = "ask"]]
    /\ UNCHANGED <<github, mode, people, faults, lost>>

SweepPosts_Settled ==
    /\ at[Sweep].pc = "post"
    /\ ask' = [ask EXCEPT ![at[Sweep].row].posted =
                            @ \/ (Row(Sweep).status = "pending" /\ ci[Row(Sweep).head] = "green")]
    /\ Stop(Sweep)
    /\ UNCHANGED <<github, mode, people, faults, lost>>

(***************************************************************************)
(* mark_posted, once the commit's CI is green or red or has been waited    *)
(* for long enough, and while nobody has decided.                          *)
(***************************************************************************)
SweepPosts ==
    /\ at[Sweep].pc = "post"
    /\ ask' = [ask EXCEPT ![at[Sweep].row].posted = @ \/ Row(Sweep).status = "pending"]
    /\ Stop(Sweep)
    /\ UNCHANGED <<github, mode, people, faults, lost>>

\* The CI runs (again), ci_wait_seconds are not over, or GitHub did not say.
SweepWaits ==
    /\ at[Sweep].pc = "post"
    /\ Stop(Sweep)
    /\ UNCHANGED <<github, mode, ask, people, faults, lost>>

SweepStep ==
    \/ \E a \in Asks : SweepExpires(a) \/ \E answered \in BOOLEAN : SweepLooks(a, answered)
    \/ SweepRetires \/ SweepRestales \/ SweepPosts \/ SweepWaits

-----------------------------------------------------------------------------
(***************************************************************************)
(* decide().  Handlers are alike: a request takes a certain free one.      *)
(***************************************************************************)
Decides(d) ==
    /\ at[d].pc = "idle"
    /\ d = CHOOSE e \in Deciders : at[e].pc = "idle"
    /\ answers < MaxAnswers
    /\ answers' = answers + 1

\* Who works on ask a after claiming it.
Holders(a) ==
    {d \in Deciders : a # 0 /\ at[d].row = a /\ at[d].pc # "supersede"}

Claimable_Approved(a, dry) ==
    ask[a].status \in {"pending", "failed", "approved"}

(***************************************************************************)
(* The WHERE of claim_approval: not decided, failed, left behind by a      *)
(* claim that never reported back, or a dry run now meant for real.        *)
(***************************************************************************)
Claimable(a, dry) ==
    \/ ask[a].status \in {"pending", "failed"}
    \/ ask[a].status = "approved" /\ ~ask[a].dry /\ (SlowCalls \/ Holders(a) = {})
    \/ ask[a].status = "approved" /\ ask[a].dry /\ ~dry

\* An approval claims the ask, or finds it decided already.
Approve(d, a) ==
    LET dry == mode # "on"
    IN /\ Decides(d)
       /\ Claimable(a, dry)
       /\ ask' = [ask EXCEPT ![a].status = "approved", ![a].dry = dry]
       /\ at' = [at EXCEPT ![d] = [Idle EXCEPT !.pc = "read", !.row = a]]
       /\ UNCHANGED <<github, mode, jobs, pushes, faults, lost>>

Reject_Approved(d, a) ==
    /\ Decides(d)
    /\ ask[a].status \in {"pending", "failed", "approved"}
    /\ ask' = [ask EXCEPT ![a].status = "rejected"]
    /\ UNCHANGED <<github, mode, at, jobs, pushes, faults, lost>>

Reject(d, a) ==
    /\ Decides(d)
    /\ ask[a].status \in {"pending", "failed"}
    /\ ask' = [ask EXCEPT ![a].status = "rejected"]
    /\ UNCHANGED <<github, mode, at, jobs, pushes, faults, lost>>

\* Where d goes on, with the outcome it is to finish with.
Then(d, pc, to) == at' = [at EXCEPT ![d].pc = pc, ![d].to = to]

Reading == UNCHANGED <<github, mode, ask, people, faults, lost>>

\* _approve: get_pull; None and an exception are a refusal.
ReadPull(d, answered) ==
    /\ at[d].pc = "read"
    /\ IF ~answered THEN Go(d, "refuse")
       ELSE IF pr.state = "merged" THEN Then(d, "finish", "merged")
       ELSE IF pr.state # "open" THEN Then(d, "finish", "failed")
       ELSE IF pr.head # Row(d).head THEN Go(d, "stale")
       ELSE Go(d, "verify")
    /\ Reading

(***************************************************************************)
(* The commit's CI, the verification gate and GitHub's mergeable, of the   *)
(* first read or of a later one (`polled`), which also shows whether the   *)
(* head moved.  A commit that was green `passes` or not: its CI may run    *)
(* again, or the gate refuse it.  A claim's dry_run does not change under  *)
(* it: the mode is read at the start of the process.                       *)
(***************************************************************************)
Verify(d, polled, passes) ==
    /\ at[d].pc = "verify"
    /\ IF ci[Row(d).head] # "green" THEN Go(d, "refuse")
       ELSE IF polled /\ pr.head # Row(d).head THEN Go(d, "stale")
       ELSE IF ~passes THEN Go(d, "refuse")
       ELSE IF Row(d).dry THEN Then(d, "finish", "approved")
       ELSE Go(d, "put")
    /\ Reading

MergePull_Unpinned(d) ==
    /\ at[d].pc = "put"
    /\ pr.state = "open"
    /\ pr' = [pr EXCEPT !.state = "merged", !.via = at[d].row]
    /\ UNCHANGED lost
    /\ Then(d, "finish", "merged")
    /\ UNCHANGED <<ci, mode, ask, people, faults>>

(***************************************************************************)
(* _merge: GitHub merges if the head is still the ask's.  The answer may   *)
(* be lost, which raises and is a failure, or the client's retry be        *)
(* refused, after which the pull request is read again.                    *)
(***************************************************************************)
MergePull(d) ==
    /\ at[d].pc = "put"
    /\ pr.state = "open" /\ pr.head = Row(d).head
    /\ pr' = [pr EXCEPT !.state = "merged", !.via = at[d].row]
    /\ \/ Then(d, "finish", "merged") /\ UNCHANGED lost
       \/ Go(d, "reread") /\ UNCHANGED lost
       \/ Then(d, "finish", "failed") /\ lost' = TRUE
    /\ UNCHANGED <<ci, mode, ask, people, faults>>

\* 409 when the head moved, 405 when it is not mergeable (any more), or the call fails.
MergeRefused(d) ==
    /\ at[d].pc = "put"
    /\ \/ pr.state = "open" /\ pr.head # Row(d).head /\ Go(d, "stale")
       \/ ~(pr.state = "open" /\ pr.head # Row(d).head) /\ Go(d, "reread")
       \/ Then(d, "finish", "failed")
    /\ Reading

Reread_Trusting(d, answered) ==
    /\ at[d].pc = "reread"
    /\ Then(d, "finish", IF answered THEN "merged" ELSE "failed")
    /\ lost' = (lost \/ (~answered /\ pr.via = at[d].row))
    /\ UNCHANGED <<github, mode, ask, people, faults>>

\* The pull request says whether it was merged, by this call or another.
Reread(d, answered) ==
    /\ at[d].pc = "reread"
    /\ Then(d, "finish", IF answered /\ pr.state = "merged" THEN "merged" ELSE "failed")
    /\ lost' = (lost \/ (~answered /\ pr.via = at[d].row))
    /\ UNCHANGED <<github, mode, ask, people, faults>>

\* finish: the outcome, if the ask is still claimed.
Finish(d) ==
    /\ at[d].pc = "finish"
    /\ SetStatus(at[d].row, {"approved"}, at[d].to)
    /\ Stop(d)
    /\ UNCHANGED <<github, mode, people, faults, lost>>

(***************************************************************************)
(* _refuse: the ask is pending again.  When another ask became pending     *)
(* meanwhile, the unique index raises and the ask stays approved.          *)
(***************************************************************************)
Refuse(d) ==
    /\ at[d].pc = "refuse"
    /\ IF Pending = {}
       THEN SetStatus(at[d].row, {"approved"}, "pending")
       ELSE UNCHANGED ask
    /\ Stop(d)
    /\ UNCHANGED <<github, mode, people, faults, lost>>

\* _stale, and the fresh ask.
Stale(d) ==
    /\ at[d].pc = "stale"
    /\ SetStatus(at[d].row, {"pending", "approved", "failed"}, "stale")
    /\ at' = [at EXCEPT ![d] = [Idle EXCEPT !.pc = "ask"]]
    /\ UNCHANGED <<github, mode, people, faults, lost>>

DecisionStep(d) ==
    \/ \E answered \in BOOLEAN : ReadPull(d, answered) \/ Reread(d, answered)
    \/ \E polled, passes \in BOOLEAN : Verify(d, polled, passes)
    \/ MergePull(d) \/ MergeRefused(d) \/ Finish(d) \/ Refuse(d) \/ Stale(d)

-----------------------------------------------------------------------------
\* A statement or a call of p raises, or its request is cancelled.
Dies(p) ==
    /\ at[p].pc # "idle"
    /\ faults < MaxFaults
    /\ faults' = faults + 1
    /\ lost' = (lost \/ p \in Holders(pr.via))
    /\ Stop(p)
    /\ UNCHANGED <<github, mode, ask, people>>

\* The process stops and is started again, in the same mode or another.
Restart(m) ==
    /\ faults < MaxFaults
    /\ faults' = faults + 1
    /\ mode' = m
    /\ lost' = (lost \/ \E p \in Procs : p \in Holders(pr.via))
    /\ at' = [p \in Procs |-> Idle]
    /\ UNCHANGED <<github, ask, people>>

Init ==
    /\ pr = [state |-> "open", head |-> FirstHead, via |-> 0]
    /\ ci = [h \in Heads |-> "not_green"]
    /\ mode \in Modes
    /\ ask = [a \in Asks |-> NoAsk]
    /\ at = [p \in Procs |-> Idle]
    /\ jobs = 0 /\ pushes = 0 /\ answers = 0 /\ faults = 0
    /\ lost = FALSE

Outside ==
    \/ \E h \in Heads : Push(h)
    \/ \E state \in {"merged", "closed"} : Settle(state)
    \/ \E h \in Heads : CiReports(h)

Next ==
    \/ Outside
    \/ JobAsks
    \/ \E p \in Procs : AskStep(p) \/ Dies(p)
    \/ SweepStep
    \/ \E d \in Deciders : \/ \E a \in Asks : Approve(d, a) \/ Reject(d, a)
                           \/ DecisionStep(d)
    \/ \E m \in Modes : Restart(m)

Spec == Init /\ [][Next]_vars

(***************************************************************************)
(* What was begun goes on; the loop of the sweep never stops, GitHub       *)
(* answers it again and again about the pull request, and it does not wait *)
(* for a commit's CI for ever.                                             *)
(***************************************************************************)
FairSpec ==
    /\ Spec
    /\ WF_vars(AskStep(Sweep) \/ SweepStep)
    /\ WF_vars(AskStep(Job))
    /\ \A d \in Deciders : WF_vars(AskStep(d) \/ DecisionStep(d))
    /\ SF_vars(\E a \in Asks : SweepLooks(a, TRUE))
    /\ SF_vars(SweepPosts)

-----------------------------------------------------------------------------
AskRow == [status : Statuses \cup {"none"}, head : Heads, posted : BOOLEAN, dry : BOOLEAN]

Places == {"idle", "ask", "find", "supersede", "create", "retire", "restale", "post",
           "read", "verify", "put", "reread", "finish", "refuse", "stale"}

Place == [pc : Places, row : Asks \cup {0}, head : Heads,
          to : {"none", "merged", "failed", "approved"}]

TypeOK ==
    /\ pr \in [state : {"open", "merged", "closed"}, head : Heads, via : Asks \cup {0}]
    /\ ci \in [Heads -> CiStates]
    /\ mode \in Modes
    /\ ask \in [Asks -> AskRow]
    /\ at \in [Procs -> Place]
    /\ jobs \in 0..MaxJobs /\ pushes \in 0..MaxPushes
    /\ answers \in 0..MaxAnswers /\ faults \in 0..MaxFaults
    /\ lost \in BOOLEAN

(***************************************************************************)
(* A push never rides along: what embry0 merged is the commit the ask      *)
(* named, and its CI had been green.                                       *)
(***************************************************************************)
MergedAsAsked ==
    pr.via # 0 => /\ pr.head = ask[pr.via].head
                  /\ ci[pr.head] = "green"

(***************************************************************************)
(* embry0 merges only under a claim of its own in mode "on": never for an  *)
(* ask that was rejected, retired, handed back or finished meanwhile.  It  *)
(* may have become stale, when the head moved away and back.               *)
(***************************************************************************)
MergesUnderClaim ==
    [][pr'.via # pr.via =>
        /\ ask[pr'.via].status \in {"approved", "stale"}
        /\ ~ask[pr'.via].dry /\ mode = "on"]_vars

\* Two people racing for one ask cannot both act.
OneHolder == \A a \in Asks : Cardinality(Holders(a)) <= 1

(***************************************************************************)
(* The rows tell of the merge: an ask says merged only when the pull       *)
(* request is, and a merge of embry0's is on its row or on its way, unless *)
(* its answer was lost or the ask had gone stale.                          *)
(***************************************************************************)
RowsTellMerge ==
    /\ \A a \in Asks : ask[a].status = "merged" => pr.state = "merged"
    /\ pr.via # 0 => \/ ask[pr.via].status \in {"merged", "stale"}
                     \/ lost
                     \/ Holders(pr.via) # {}

\* At most one ask of the pull request is open, and what ended an ask stays.
Ended == {"rejected", "merged", "stale", "closed", "expired"}

OneQuestion ==
    [][/\ Cardinality(Pending') <= 1
       /\ \A a \in Asks : ask[a].status \in Ended => ask'[a] = ask[a]]_vars

(***************************************************************************)
(* Nobody has to say "don't merge": the pending ask, if there is one, is   *)
(* not for ever unposted, or about a pull request that was merged, closed  *)
(* or pushed to.                                                           *)
(***************************************************************************)
Overdue ==
    \E a \in Pending : \/ pr.state # "open"
                       \/ ask[a].head # pr.head
                       \/ ~ask[a].posted

AsksMoveOn == Overdue ~> ~Overdue
=============================================================================
