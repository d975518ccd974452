------------------------ MODULE IssueLifecycleProofs ------------------------
(***************************************************************************)
(* What is proved about IssueLifecycle for every number of jobs,           *)
(* coroutines, requests, questions and stops.                              *)
(***************************************************************************)
EXTENDS IssueLifecycle, FiniteSetTheorems, TLAPS

-----------------------------------------------------------------------------
(* The status tables and what an update does to a row.                     *)

AllJobMoves == JobMoves \cup GateRefusal

(***************************************************************************)
(* update(status=new), whatever it has read: the row stays, or makes the   *)
(* one move it asks for from the very status it was read in.               *)
(***************************************************************************)
LEMMA StatusStep ==
    ASSUME NEW moves, NEW seen, NEW now, NEW new
    PROVE  \/ StatusAfter(moves, seen, now, new) = now
           \/ /\ seen = now
              /\ <<now, new>> \in moves
              /\ StatusAfter(moves, seen, now, new) = new
BY DEF StatusAfter, UpdateRaises

(***************************************************************************)
(* VALID_JOB_TRANSITIONS leads from a status of a job to another; none of  *)
(* its moves, and not the refusal of the gate, makes an inactive job       *)
(* active, and none but the pull request statuses leaves "completed".      *)
(***************************************************************************)
LEMMA JobMoveFacts ==
    ASSUME NEW a, NEW b, <<a, b>> \in AllJobMoves
    PROVE  /\ a \in JobStatuses
           /\ b \in JobStatuses
           /\ b \in ActiveStatuses => a \in ActiveStatuses
           /\ b \in InFlightStatuses => a \in ActiveStatuses
           /\ a = "completed" => b \in {"pr_merged", "pr_closed"}
<1>1. \/ a = "pending" /\ b \in {"running", "cancelled", "failed"}
      \/ a = "running" /\ b \in {"completed", "skipped", "failed", "partial",
                                 "cancelled", "awaiting_input", "paused"}
      \/ a = "awaiting_input" /\ b \in {"running", "cancelled", "failed"}
      \/ a = "paused" /\ b \in {"running", "cancelled", "failed", "expired"}
      \/ a = "completed" /\ b \in {"pr_merged", "pr_closed"}
      \/ a = "pr_closed" /\ b \in {"pr_merged", "completed"}
  BY DEF AllJobMoves, JobMoves, GateRefusal
<1> QED  BY <1>1 DEF JobStatuses, ActiveStatuses, TerminalStatuses, InFlightStatuses

\* VALID_ISSUE_TRANSITIONS leads from a status of an issue to another.
LEMMA IssueMoveFacts ==
    ASSUME NEW a, NEW b, <<a, b>> \in IssueMoves
    PROVE  a \in IssueStatuses /\ b \in IssueStatuses
BY DEF IssueMoves, IssueStatuses

LEMMA StatusNames ==
    /\ "absent" \notin JobStatuses
    /\ NoStatus \notin JobStatuses
    /\ NoStatus \notin IssueStatuses
    /\ ActiveStatuses \subseteq JobStatuses
    /\ InFlightStatuses \subseteq ActiveStatuses
BY DEF JobStatuses, IssueStatuses, ActiveStatuses, TerminalStatuses, InFlightStatuses, NoStatus

\* A job's row may go from a to b in one step: nothing else ever happens to it.
JobStep(a, b) == a = b \/ <<a, b>> \in AllJobMoves

-----------------------------------------------------------------------------
(* Types.                                                                  *)

Coroutines ==
    [pc: PCs, kind: RequestKinds \cup TaskKinds \cup {"none"}, job: 0..MaxJobs,
     seen: JobStatuses \cup IssueStatuses \cup {NoStatus},
     priorJob: JobStatuses \cup {NoStatus},
     priorIssue: IssueStatuses \cup {NoStatus},
     ending: {"none", "completed", "failed", "split", "refused"},
     channel: Channels \cup {"none", "inbound"},
     number: Nat]

\* Where a triage request or a comment, which belong to no job, may stand.
JoblessPCs == {"claim_issue", "exec", "create", "track", "rollback", "count", "guard", "find"}

\* Where requests alone stand, and where requests and tasks dispatch.
RequestPCs == {"continue", "record", "count", "guard", "resume", "find", "cancel_task",
               "cancel_wait", "cancel_recheck", "cancel_job", "cancel_issue", "cancel_purge"}
DispatchPCs == {"claim_issue", "exec", "create", "track", "rollback"}

(***************************************************************************)
(* A task stands where tasks do and a request where requests do; the job a *)
(* coroutine works on, or is about to track, has been inserted.            *)
(***************************************************************************)
HasItsJob(c, jb) ==
    /\ c.pc = "idle" => c = Idle
    /\ c.kind = "none" => c = Idle
    /\ c.job = 0 /\ c.pc # "idle" =>
          /\ c.pc \in JoblessPCs
          /\ c.kind \in {"triage", "comment"}
          /\ c.channel # "job"
    /\ c.kind \in TaskKinds => c.pc \notin RequestPCs
    /\ c.kind \in RequestKinds => c.pc \in RequestPCs \cup DispatchPCs
    /\ c.job # 0 => jb[c.job] # "absent"
    /\ c.pc = "track" => c.number \in Jobs /\ jb[c.number] # "absent"

\* The registry names, for each job, a task of that job.
Registered(pr, reg) ==
    \A j \in Jobs : reg[j] # 0 => pr[reg[j]].kind \in TaskKinds /\ pr[reg[j]].job = j

\* The type invariant with what it needs to be kept by every step.
ShapeInv ==
    /\ TypeOK
    /\ \A p \in Procs : HasItsJob(proc[p], job)
    /\ Registered(proc, byJob)
    /\ \A j \in Jobs : input[j] # <<>> => job[j] # "absent"
    /\ orch \in {"down", "booting"} => \A p \in Procs : proc[p] = Idle
    /\ orch # "up" => {"crash", "drain"} \cap Faults # {}
    /\ orch # "booting" => boot = [keep |-> {}, orphaned |-> {}]
    /\ \A j \in boot.keep : job[j] \in InFlightStatuses

(* The invariant, conjunct by conjunct, and its reassembly. *)
LEMMA ShapeParts ==
    ASSUME ShapeInv
    PROVE  /\ issue \in IssueStatuses
           /\ job \in [Jobs -> JobStatuses \cup {"absent"}]
           /\ launch \in [Jobs -> BOOLEAN]
           /\ ckpt \in [Jobs -> Checkpoints]
           /\ input \in [Jobs -> Seq({"pending", "answered"})]
           /\ proc \in [Procs -> Coroutines]
           /\ byJob \in [Jobs -> 0..MaxProcs]
           /\ orch \in {"up", "draining", "down", "booting"}
           /\ boot \in [keep: SUBSET Jobs, orphaned: SUBSET Jobs]
           /\ stops \in 0..MaxStops
           /\ \A p \in Procs : HasItsJob(proc[p], job)
           /\ Registered(proc, byJob)
           /\ \A j \in Jobs : input[j] # <<>> => job[j] # "absent"
           /\ orch \in {"down", "booting"} => \A p \in Procs : proc[p] = Idle
           /\ orch # "up" => {"crash", "drain"} \cap Faults # {}
           /\ orch # "booting" => boot = [keep |-> {}, orphaned |-> {}]
           /\ \A j \in boot.keep : job[j] \in InFlightStatuses
BY DEF ShapeInv, TypeOK, Coroutines

LEMMA ShapeWhole ==
    ASSUME issue' \in IssueStatuses,
           job' \in [Jobs -> JobStatuses \cup {"absent"}],
           launch' \in [Jobs -> BOOLEAN],
           ckpt' \in [Jobs -> Checkpoints],
           input' \in [Jobs -> Seq({"pending", "answered"})],
           proc' \in [Procs -> Coroutines],
           byJob' \in [Jobs -> 0..MaxProcs],
           orch' \in {"up", "draining", "down", "booting"},
           boot' \in [keep: SUBSET Jobs, orphaned: SUBSET Jobs],
           stops' \in 0..MaxStops,
           \A p \in Procs : HasItsJob(proc'[p], job'),
           Registered(proc', byJob'),
           \A j \in Jobs : input'[j] # <<>> => job'[j] # "absent",
           orch' \in {"down", "booting"} => \A p \in Procs : proc'[p] = Idle,
           orch' # "up" => {"crash", "drain"} \cap Faults # {},
           orch' # "booting" => boot' = [keep |-> {}, orphaned |-> {}],
           \A j \in boot'.keep : job'[j] \in InFlightStatuses
    PROVE  ShapeInv'
BY DEF ShapeInv, TypeOK, Coroutines, Registered

\* The fields of a coroutine, and what the names of the steps tell apart.
LEMMA CoroutineFields ==
    ASSUME NEW c \in Coroutines
    PROVE  /\ c.pc \in PCs
           /\ c.kind \in RequestKinds \cup TaskKinds \cup {"none"}
           /\ c.job \in 0..MaxJobs
           /\ c.seen \in JobStatuses \cup IssueStatuses \cup {NoStatus}
           /\ c.priorJob \in JobStatuses \cup {NoStatus}
           /\ c.priorIssue \in IssueStatuses \cup {NoStatus}
           /\ c.ending \in {"none", "completed", "failed", "split", "refused"}
           /\ c.channel \in Channels \cup {"none", "inbound"}
           /\ c.number \in Nat
BY DEF Coroutines

LEMMA IdleFields ==
    /\ Idle.pc = "idle" /\ Idle.kind = "none" /\ Idle.job = 0 /\ Idle.number = 0
    /\ Idle.seen = NoStatus /\ Idle.priorJob = NoStatus /\ Idle.priorIssue = NoStatus
    /\ Idle.ending = "none" /\ Idle.channel = "none"
    /\ Idle \in Coroutines
<1>1. 0 \in 0..MaxJobs  BY BoundsAssumption
<1> QED  BY <1>1 DEF Idle, Coroutine, Coroutines, PCs

LEMMA NewCoroutine ==
    ASSUME NEW pc \in PCs, NEW kind \in RequestKinds \cup TaskKinds, NEW j \in 0..MaxJobs
    PROVE  /\ Coroutine(pc, kind, j) \in Coroutines
           /\ Coroutine(pc, kind, j).pc = pc
           /\ Coroutine(pc, kind, j).kind = kind
           /\ Coroutine(pc, kind, j).job = j
           /\ Coroutine(pc, kind, j).channel = "none"
           /\ Coroutine(pc, kind, j).number = 0
           /\ Coroutine(pc, kind, j).seen = NoStatus
           /\ Coroutine(pc, kind, j).priorJob = NoStatus
           /\ Coroutine(pc, kind, j).priorIssue = NoStatus
           /\ Coroutine(pc, kind, j).ending = "none"
BY DEF Coroutine, Coroutines

LEMMA IdleHasItsJob == ASSUME NEW jb PROVE HasItsJob(Idle, jb)
BY IdleFields DEF HasItsJob, TaskKinds, RequestKinds

(***************************************************************************)
(* A coroutine that stands somewhere has a kind, and while it does not the *)
(* process is up or draining and no boot is under way.                     *)
(***************************************************************************)
LEMMA AtWork ==
    ASSUME ShapeInv, NEW p \in Procs, proc[p].pc # "idle"
    PROVE  /\ proc[p] \in Coroutines
           /\ proc[p] # Idle
           /\ proc[p].kind \in RequestKinds \cup TaskKinds
           /\ HasItsJob(proc[p], job)
           /\ IsTask(p) => proc[p].job \in Jobs /\ proc[p].pc \notin RequestPCs
           /\ ~IsTask(p) => proc[p].pc \in RequestPCs \cup DispatchPCs
           /\ proc[p].job \notin Jobs =>
                 /\ proc[p].job = 0
                 /\ proc[p].pc \in JoblessPCs
                 /\ proc[p].kind \in {"triage", "comment"}
                 /\ proc[p].channel # "job"
           /\ proc[p].job \in Jobs => job[proc[p].job] \in JobStatuses
           /\ orch \in {"up", "draining"}
           /\ boot = [keep |-> {}, orphaned |-> {}]
<1>1. proc[p] \in Coroutines /\ HasItsJob(proc[p], job)  BY ShapeParts
<1>2. proc[p] # Idle  BY IdleFields
<1>3. proc[p].kind # "none"  BY <1>1, <1>2 DEF HasItsJob
<1>4. proc[p].job \in 0..MaxJobs /\ Jobs = (0..MaxJobs) \ {0}
  BY <1>1, BoundsAssumption, CoroutineFields DEF Jobs
<1>5. orch \in {"up", "draining"}  BY <1>2, ShapeParts
<1>6. proc[p].job \notin Jobs => proc[p].job = 0  BY <1>4
<1>7. proc[p].job \in Jobs => job[proc[p].job] \in JobStatuses  BY <1>1, <1>4, ShapeParts DEF HasItsJob
<1>8. proc[p].kind \in RequestKinds \cup TaskKinds  BY <1>1, <1>3, CoroutineFields
<1>9. orch \in {"up", "draining"} => boot = [keep |-> {}, orphaned |-> {}]  BY ShapeParts
<1>10. proc[p].job = 0 => proc[p].kind \in {"triage", "comment"} /\ proc[p].channel # "job" /\ proc[p].pc \in JoblessPCs
  BY <1>1 DEF HasItsJob
<1>11. IsTask(p) => proc[p].job \in Jobs /\ proc[p].pc \notin RequestPCs
  BY <1>1, <1>6, <1>10 DEF HasItsJob, IsTask, TaskKinds
<1>12. ~IsTask(p) => proc[p].pc \in RequestPCs \cup DispatchPCs
  BY <1>1, <1>8 DEF HasItsJob, IsTask
<1> QED  BY <1>1, <1>2, <1>5, <1>6, <1>7, <1>8, <1>9, <1>10, <1>11, <1>12

\* The steps p may go to without leaving the company it is in.
MayGo(p, pc) ==
    /\ pc \in PCs \ {"track"}
    /\ IsTask(p) => pc \notin RequestPCs \cup {"idle"}
    /\ ~IsTask(p) => pc \in RequestPCs \cup DispatchPCs \cup {"idle"}
    /\ proc[p].job = 0 => pc \in JoblessPCs \cup {"idle"}

\* The pcs of tasks alone.
TaskPCs == PCs \ (RequestPCs \cup DispatchPCs \cup {"idle"})

LEMMA TasksAlone ==
    ASSUME ShapeInv, NEW p \in Procs, proc[p].pc \in TaskPCs
    PROVE  /\ IsTask(p) /\ proc[p].job \in Jobs /\ proc[p].job # 0
           /\ \A pc \in TaskPCs \cup (DispatchPCs \ {"track"}) : MayGo(p, pc)
<1>1. proc[p].pc # "idle" /\ proc[p].pc \notin RequestPCs \cup DispatchPCs  BY DEF TaskPCs
<1>2. IsTask(p) /\ proc[p].job \in Jobs  BY <1>1, AtWork
<1>3. proc[p].job # 0  BY <1>2 DEF Jobs
<1>4. \A pc \in TaskPCs \cup (DispatchPCs \ {"track"}) : pc \in PCs \ {"track"} /\ pc \notin RequestPCs \cup {"idle"}
  BY DEF TaskPCs, DispatchPCs, RequestPCs, PCs
<1> QED  BY <1>2, <1>3, <1>4 DEF MayGo

LEMMA RequestsAlone ==
    ASSUME ShapeInv, NEW p \in Procs, proc[p].pc \in RequestPCs
    PROVE  ~IsTask(p)
<1>1. proc[p].pc # "idle"  BY DEF RequestPCs
<1> QED  BY <1>1, AtWork

(***************************************************************************)
(* One coroutine's place is taken by another value: a task by a task of    *)
(* the same job, a request by anything.                                    *)
(***************************************************************************)
LEMMA PlaceShape ==
    ASSUME ShapeInv, NEW p \in Procs, NEW new \in Coroutines, HasItsJob(new, job'),
           IsTask(p) => new.kind \in TaskKinds /\ new.job = proc[p].job,
           proc' = [proc EXCEPT ![p] = new],
           \A j \in Jobs : job[j] # "absent" => job'[j] # "absent"
    PROVE  /\ proc' \in [Procs -> Coroutines]
           /\ \A q \in Procs : HasItsJob(proc'[q], job')
           /\ Registered(proc', byJob)
<1>1. /\ proc \in [Procs -> Coroutines] /\ \A q \in Procs : HasItsJob(proc[q], job)
      /\ Registered(proc, byJob) /\ byJob \in [Jobs -> 0..MaxProcs]
  BY ShapeParts
<1>2. ASSUME NEW q \in Procs PROVE HasItsJob(proc[q], job')
  <2>1. HasItsJob(proc[q], job) /\ proc[q].job \in 0..MaxJobs  BY <1>1, CoroutineFields
  <2>2. proc[q].job # 0 => proc[q].job \in Jobs  BY <2>1, BoundsAssumption DEF Jobs
  <2> QED  BY <2>1, <2>2 DEF HasItsJob
<1>3. Registered(proc', byJob)
  <2> SUFFICES ASSUME NEW j \in Jobs, byJob[j] # 0
               PROVE  proc'[byJob[j]].kind \in TaskKinds /\ proc'[byJob[j]].job = j
    BY DEF Registered
  <2>1. byJob[j] \in Procs  BY <1>1, BoundsAssumption DEF Procs
  <2>2. proc[byJob[j]].kind \in TaskKinds /\ proc[byJob[j]].job = j  BY <1>1 DEF Registered
  <2>3. CASE byJob[j] = p  BY <1>1, <2>1, <2>2, <2>3 DEF IsTask
  <2>4. CASE byJob[j] # p  BY <1>1, <2>1, <2>2, <2>4
  <2> QED  BY <2>3, <2>4
<1> QED  BY <1>1, <1>2, <1>3

(***************************************************************************)
(* Goto: the coroutine goes on and keeps its job.                          *)
(***************************************************************************)
LEMMA GotoShape ==
    ASSUME ShapeInv, NEW p \in Procs, NEW pc, proc[p].pc # "idle", MayGo(p, pc), Goto(p, pc),
           \A j \in Jobs : job[j] # "absent" => job'[j] # "absent"
    PROVE  /\ proc' \in [Procs -> Coroutines]
           /\ \A q \in Procs : HasItsJob(proc'[q], job')
           /\ Registered(proc', byJob)
<1>1. /\ proc[p] \in Coroutines /\ HasItsJob(proc[p], job) /\ proc[p] # Idle
      /\ proc[p].kind \in RequestKinds \cup TaskKinds
  BY AtWork
<1> DEFINE new == IF pc = "idle" THEN Idle ELSE [proc[p] EXCEPT !.pc = pc, !.seen = NoStatus]
<1>2. proc' = [proc EXCEPT ![p] = new]
  BY DEF Goto
<1>3. /\ new \in Coroutines
      /\ pc # "idle" => /\ new.pc = pc /\ new.kind = proc[p].kind /\ new.job = proc[p].job
                        /\ new.channel = proc[p].channel /\ new.number = proc[p].number
      /\ pc = "idle" => new = Idle
  <2>1. CASE pc = "idle"  BY <2>1, IdleFields
  <2>2. CASE pc # "idle"
    <3>1. pc \in PCs  BY DEF MayGo
    <3> QED  BY <1>1, <2>2, <3>1 DEF Coroutines
  <2> QED  BY <2>1, <2>2
<1>4. proc[p].job \in 0..MaxJobs /\ proc[p].kind # "none"
  BY <1>1, CoroutineFields DEF HasItsJob
<1> HIDE DEF new
<1>5. HasItsJob(new, job')
  <2>1. CASE pc = "idle"  BY <2>1, <1>3, IdleHasItsJob
  <2>2. CASE pc # "idle"
    <3>1. proc[p].job # 0 => job'[proc[p].job] # "absent"
      BY <1>1, <1>4, BoundsAssumption DEF HasItsJob, Jobs
    <3>2. proc[p].job = 0 => pc \in JoblessPCs /\ proc[p].kind \in {"triage", "comment"} /\ proc[p].channel # "job"
      BY <1>1, <2>2, AtWork DEF HasItsJob, MayGo
    <3>3. pc # "track"  BY DEF MayGo
    <3>4. proc[p].kind \in TaskKinds => pc \notin RequestPCs  BY DEF MayGo, IsTask
    <3>5. proc[p].kind \in RequestKinds => pc \in RequestPCs \cup DispatchPCs
      BY <2>2 DEF MayGo, IsTask, RequestKinds, TaskKinds
    <3> QED  BY <2>2, <3>1, <3>2, <3>3, <3>4, <3>5, <1>3, <1>4 DEF HasItsJob
  <2> QED  BY <2>1, <2>2
<1>6. IsTask(p) => new.kind \in TaskKinds /\ new.job = proc[p].job
  BY <1>3 DEF MayGo, IsTask
<1> QED  BY <1>2, <1>3, <1>5, <1>6, PlaceShape

(***************************************************************************)
(* The steps of a coroutine keep the shape.                                *)
(***************************************************************************)
LEMMA ReadStatusShape ==
    ASSUME ShapeInv, NEW p \in Procs, ReadStatus(p)
    PROVE  ShapeInv'
<1>1. proc[p].pc # "idle"  BY DEF ReadStatus, JobWrites, IssueWrites
<1>2. /\ proc[p] \in Coroutines
      /\ proc[p].job \notin Jobs => proc[p].pc \in JoblessPCs
      /\ proc[p].job \in Jobs => job[proc[p].job] \in JobStatuses
      /\ orch \in {"up", "draining"}
  BY <1>1, AtWork
<1>3. PICK s \in JobStatuses \cup IssueStatuses : proc' = [proc EXCEPT ![p].seen = s]
  <2>1. CASE proc[p].pc \in JobWrites
    BY <2>1, <1>2 DEF ReadStatus, JobWrites, IssueWrites, JoblessPCs
  <2>2. CASE proc[p].pc \in IssueWrites
    BY <2>2, ShapeParts DEF ReadStatus, JobWrites, IssueWrites
  <2> QED  BY <2>1, <2>2 DEF ReadStatus
<1> DEFINE new == [proc[p] EXCEPT !.seen = s]
<1>4. /\ new \in Coroutines
      /\ new.pc = proc[p].pc /\ new.kind = proc[p].kind /\ new.job = proc[p].job
      /\ new.channel = proc[p].channel /\ new.number = proc[p].number
  BY <1>2 DEF Coroutines
<1>5. proc' = [proc EXCEPT ![p] = new]  BY <1>3
<1> HIDE DEF new
<1>6. HasItsJob(new, job)
  <2>1. HasItsJob(proc[p], job) /\ proc[p].kind # "none"  BY <1>1, AtWork DEF RequestKinds, TaskKinds
  <2> QED  BY <1>1, <1>4, <2>1 DEF HasItsJob
<1>8. UNCHANGED <<issue, job, launch, ckpt, input, byJob, orch, boot, stops>>  BY DEF ReadStatus
<1> HIDE DEF ReadStatus
<1>9. /\ proc' \in [Procs -> Coroutines]
      /\ \A q \in Procs : HasItsJob(proc'[q], job')
      /\ Registered(proc', byJob)
  BY <1>4, <1>5, <1>6, <1>8, PlaceShape DEF IsTask
<1>10. boot.keep = {}  BY <1>1, AtWork
<1> QED  BY <1>2, <1>8, <1>9, <1>10, ShapeParts, ShapeWhole

\* What a compare-and-swap makes of the job's row.
LEMMA UpdateJobRow ==
    ASSUME ShapeInv, NEW p \in Procs, NEW moves \in {JobMoves, AllJobMoves}, NEW at, NEW new,
           NEW next, NEW handler, at \in JobWrites,
           UpdateJobBy(moves, p, at, new, next, handler)
    PROVE  /\ proc[p].pc # "idle"
           /\ proc[p].job \in Jobs
           /\ job' = [job EXCEPT ![proc[p].job] = job'[proc[p].job]]
           /\ JobStep(job[proc[p].job], job'[proc[p].job])
           /\ job' \in [Jobs -> JobStatuses \cup {"absent"}]
           /\ \A j \in Jobs : /\ job[j] # "absent" => job'[j] # "absent"
                              /\ JobStep(job[j], job'[j])
           /\ Goto(p, next) \/ Goto(p, handler)
           /\ UNCHANGED <<issue, launch, ckpt, input, byJob, orch, boot, stops>>
<1>1. proc[p].pc = at /\ at # "idle" /\ at \notin JoblessPCs
  BY DEF UpdateJobBy, At, JobWrites, JoblessPCs
<1>2. proc[p].job \in Jobs /\ job[proc[p].job] \in JobStatuses  BY <1>1, AtWork
<1> DEFINE after == StatusAfter(moves, proc[p].seen, job[proc[p].job], new)
<1>3. job' = [job EXCEPT ![proc[p].job] = after]
  <2> DEFINE j == proc[p].job
  <2>1. job \in [Jobs -> JobStatuses \cup {"absent"}] /\ j \in Jobs  BY <1>2, ShapeParts
  <2>2. job' = [job EXCEPT ![j] = StatusAfter(moves, proc[p].seen, @, new)]  BY DEF UpdateJobBy
  <2> HIDE DEF j
  <2>3. job' = [job EXCEPT ![j] = StatusAfter(moves, proc[p].seen, job[j], new)]  BY <2>1, <2>2
  <2> QED  BY <2>3 DEF j
<1>4. after = job[proc[p].job] \/ <<job[proc[p].job], after>> \in moves
  BY DEF StatusAfter, UpdateRaises
<1>5. moves \subseteq AllJobMoves  BY DEF AllJobMoves
<1> HIDE DEF after
<1>6. JobStep(job[proc[p].job], after) /\ after \in JobStatuses
  BY <1>2, <1>4, <1>5, JobMoveFacts DEF JobStep
<1>7. job \in [Jobs -> JobStatuses \cup {"absent"}]  BY ShapeParts
<1>8. after # "absent"  BY <1>6, StatusNames
<1>9. job'[proc[p].job] = after  BY <1>2, <1>3, <1>7
<1>10. \A j \in Jobs : j # proc[p].job => job'[j] = job[j]  BY <1>3, <1>7
<1>11. job' \in [Jobs -> JobStatuses \cup {"absent"}]  BY <1>3, <1>6, <1>7
<1>12. \A j \in Jobs : job[j] # "absent" => job'[j] # "absent"  BY <1>8, <1>9, <1>10
<1>13. \A j \in Jobs : JobStep(job[j], job'[j])  BY <1>6, <1>9, <1>10 DEF JobStep
<1>14. Goto(p, next) \/ Goto(p, handler)  BY DEF UpdateJobBy
<1>15. UNCHANGED <<issue, launch, ckpt, input, byJob, orch, boot, stops>>  BY DEF UpdateJobBy
<1> QED  BY <1>1, <1>2, <1>3, <1>6, <1>9, <1>11, <1>12, <1>13, <1>14, <1>15

LEMMA UpdateJobShape ==
    ASSUME ShapeInv, NEW p \in Procs, NEW moves \in {JobMoves, AllJobMoves}, NEW at, NEW new,
           NEW next, NEW handler, MayGo(p, next), MayGo(p, handler), at \in JobWrites,
           UpdateJobBy(moves, p, at, new, next, handler)
    PROVE  ShapeInv'
<1>1. /\ proc[p].pc # "idle"
      /\ proc[p].job \in Jobs
      /\ job' \in [Jobs -> JobStatuses \cup {"absent"}]
      /\ \A j \in Jobs : job[j] # "absent" => job'[j] # "absent"
      /\ Goto(p, next) \/ Goto(p, handler)
      /\ UNCHANGED <<issue, launch, ckpt, input, byJob, orch, boot, stops>>
  BY UpdateJobRow
<1>3. /\ proc' \in [Procs -> Coroutines]
      /\ \A q \in Procs : HasItsJob(proc'[q], job')
      /\ Registered(proc', byJob)
  BY <1>1, GotoShape
<1>4. orch \in {"up", "draining"} /\ boot.keep = {}  BY <1>1, AtWork
<1> QED  BY <1>1, <1>3, <1>4, ShapeParts, ShapeWhole

LEMMA IssueRow ==
    ASSUME NEW seen, NEW now \in IssueStatuses, NEW new
    PROVE  StatusAfter(IssueMoves, seen, now, new) \in IssueStatuses
<1>1. PICK s : s = StatusAfter(IssueMoves, seen, now, new)  OBVIOUS
<1>2. s = now \/ (<<now, new>> \in IssueMoves /\ s = new)  BY <1>1, StatusStep
<1> QED  BY <1>1, <1>2, IssueMoveFacts

LEMMA UpdateIssueShape ==
    ASSUME ShapeInv, NEW p \in Procs, NEW at, NEW new,
           NEW next, NEW handler, MayGo(p, next), MayGo(p, handler), at # "idle",
           UpdateIssue(p, at, new, next, handler)
    PROVE  ShapeInv'
<1>1. proc[p].pc # "idle"  BY DEF UpdateIssue, At
<1>2. UNCHANGED <<job, launch, ckpt, input, byJob, orch, boot, stops>>  BY DEF UpdateIssue
<1>3. Goto(p, next) \/ Goto(p, handler)  BY DEF UpdateIssue
<1>4. issue' \in IssueStatuses  BY ShapeParts, IssueRow DEF UpdateIssue
<1>5. /\ proc' \in [Procs -> Coroutines]
      /\ \A q \in Procs : HasItsJob(proc'[q], job')
      /\ Registered(proc', byJob)
  BY <1>1, <1>2, <1>3, GotoShape
<1>6. orch \in {"up", "draining"} /\ boot.keep = {}  BY <1>1, AtWork
<1> QED  BY <1>2, <1>4, <1>5, <1>6, ShapeParts, ShapeWhole

LEMMA PurgeShape ==
    ASSUME ShapeInv, NEW p \in Procs, NEW at, NEW next, MayGo(p, next),
           at # "idle", Purge(p, at, next)
    PROVE  ShapeInv'
<1>1. proc[p].pc # "idle"  BY DEF Purge, At
<1>3. UNCHANGED <<issue, job, launch, input, byJob, orch, boot, stops>> /\ Goto(p, next)  BY DEF Purge
<1>4. ckpt' \in [Jobs -> Checkpoints]  BY ShapeParts DEF Purge, Checkpoints
<1>5. /\ proc' \in [Procs -> Coroutines]
      /\ \A q \in Procs : HasItsJob(proc'[q], job')
      /\ Registered(proc', byJob)
  <2>1. \A j \in Jobs : job[j] # "absent" => job'[j] # "absent"  BY <1>3
  <2> QED  BY <1>1, <1>3, <2>1, GotoShape
<1>6. orch \in {"up", "draining"} /\ boot.keep = {}  BY <1>1, AtWork
<1> QED  BY <1>3, <1>4, <1>5, <1>6, ShapeParts, ShapeWhole

LEMMA ReachesShape ==
    ASSUME ShapeInv, NEW p \in Procs, NEW at, NEW point \in Checkpoints, NEW pc, MayGo(p, pc),
           at # "idle", Reaches(p, at, point, pc)
    PROVE  ShapeInv'
<1>1. proc[p].pc # "idle"  BY DEF Reaches, At
<1>3. UNCHANGED <<issue, job, launch, input, byJob, orch, boot, stops>> /\ Goto(p, pc)  BY DEF Reaches
<1>4. ckpt' \in [Jobs -> Checkpoints]  BY ShapeParts DEF Reaches
<1>5. /\ proc' \in [Procs -> Coroutines]
      /\ \A q \in Procs : HasItsJob(proc'[q], job')
      /\ Registered(proc', byJob)
  <2>1. \A j \in Jobs : job[j] # "absent" => job'[j] # "absent"  BY <1>3
  <2> QED  BY <1>1, <1>3, <2>1, GotoShape
<1>6. orch \in {"up", "draining"} /\ boot.keep = {}  BY <1>1, AtWork
<1> QED  BY <1>3, <1>4, <1>5, <1>6, ShapeParts, ShapeWhole

LEMMA StepShape ==
    ASSUME ShapeInv, NEW p \in Procs, NEW at, NEW pc, MayGo(p, pc), at # "idle",
           Step(p, at, pc)
    PROVE  ShapeInv'
<1>1. proc[p].pc # "idle" /\ proc[p].pc = at  BY DEF Step, At
<1>3. UNCHANGED <<issue, job, launch, ckpt, input, byJob, orch, boot, stops>> /\ Goto(p, pc)  BY DEF Step
<1>5. /\ proc' \in [Procs -> Coroutines]
      /\ \A q \in Procs : HasItsJob(proc'[q], job')
      /\ Registered(proc', byJob)
  <2>1. \A j \in Jobs : job[j] # "absent" => job'[j] # "absent"  BY <1>3
  <2> QED  BY <1>1, <1>3, <2>1, GotoShape
<1>6. orch \in {"up", "draining"} /\ boot.keep = {}  BY <1>1, AtWork
<1> QED  BY <1>3, <1>5, <1>6, ShapeParts, ShapeWhole

\* At a dispatch p goes on dispatching; only a request goes away from it.
LEMMA DispatchMay ==
    ASSUME ShapeInv, NEW p \in Procs, proc[p].pc \in DispatchPCs
    PROVE  /\ \A pc \in DispatchPCs \ {"track"} : MayGo(p, pc)
           /\ MayGo(p, Raised(p))
           /\ MayGo(p, IF IsTask(p) THEN "unwind" ELSE "idle")
<1>1. proc[p].pc # "idle"  BY DEF DispatchPCs
<1>2. IsTask(p) => proc[p].job # 0  BY <1>1, AtWork DEF Jobs
<1>3. \A pc \in DispatchPCs : pc \in PCs /\ pc \notin RequestPCs \cup {"idle"} /\ pc \in JoblessPCs
  BY DEF DispatchPCs, RequestPCs, PCs, JoblessPCs
<1>4. {"idle", "unwind", "fail_job"} \subseteq PCs \ {"track"} /\ {"unwind", "fail_job"} \cap (RequestPCs \cup {"idle"}) = {}
  BY DEF RequestPCs, PCs
<1> QED  BY <1>2, <1>3, <1>4 DEF MayGo, Raised

LEMMA CreateShape ==
    ASSUME ShapeInv, NEW p \in Procs, Create(p)
    PROVE  ShapeInv'
<1>1. ASSUME NEW j \in Jobs,
             At(p, "create"),
             job[j] = "absent",
             job' = [job EXCEPT ![j] = "pending"],
             proc' = [proc EXCEPT ![p].pc = "track", ![p].number = j],
             UNCHANGED <<issue, launch, ckpt, input, byJob, orch, boot, stops>>
      PROVE  ShapeInv'
  <2>3. /\ proc[p].pc = "create" /\ proc[p] \in Coroutines /\ HasItsJob(proc[p], job)
        /\ proc[p].kind # "none" /\ (~IsTask(p) => proc[p].kind \in RequestKinds) /\ proc[p].job \in 0..MaxJobs
        /\ orch \in {"up", "draining"} /\ boot.keep = {}
    <3>1. proc[p].pc = "create"  BY <1>1 DEF At
    <3>2. proc[p] \in Coroutines /\ orch \in {"up", "draining"} /\ boot.keep = {} /\ proc[p] # Idle
          /\ proc[p].kind \in RequestKinds \cup TaskKinds
      BY <3>1, AtWork
    <3> QED  BY <3>1, <3>2, ShapeParts, CoroutineFields DEF HasItsJob, IsTask
  <2> DEFINE new == [proc[p] EXCEPT !.pc = "track", !.number = j]
  <2>4. proc' = [proc EXCEPT ![p] = new]  BY <1>1, ShapeParts
  <2>5. j \in Nat  BY <1>1 DEF Jobs
  <2>6. /\ new \in Coroutines /\ new.pc = "track" /\ new.number = j
        /\ new.kind = proc[p].kind /\ new.job = proc[p].job /\ new.channel = proc[p].channel
    <3>1. proc[p] \in Coroutines /\ j \in Nat /\ "track" \in PCs  BY <2>3, <2>5 DEF PCs
    <3> QED  BY <3>1 DEF Coroutines
  <2> HIDE DEF new
  <2>7. /\ job' \in [Jobs -> JobStatuses \cup {"absent"}]
        /\ \A i \in Jobs : job[i] # "absent" => job'[i] # "absent"
        /\ job'[j] = "pending"
    BY <1>1, ShapeParts DEF JobStatuses, ActiveStatuses
  <2>8. HasItsJob(new, job')
    <3>1. proc[p].job # 0 => proc[p].job \in Jobs  BY <2>3, BoundsAssumption DEF Jobs
    <3> QED  BY <1>1, <2>3, <2>6, <2>7, <3>1 DEF HasItsJob, JoblessPCs, RequestPCs, DispatchPCs
  <2>9. /\ proc' \in [Procs -> Coroutines]
        /\ \A q \in Procs : HasItsJob(proc'[q], job')
        /\ Registered(proc', byJob)
    BY <2>4, <2>6, <2>7, <2>8, PlaceShape DEF IsTask
  <2> QED  BY <1>1, <2>3, <2>7, <2>9, ShapeParts, ShapeWhole
<1>2. ASSUME Step(p, "create", "rollback") PROVE ShapeInv'
  <2>1. proc[p].pc = "create"  BY <1>2 DEF Step, At
  <2>2. MayGo(p, "rollback")  BY <2>1, DispatchMay DEF DispatchPCs
  <2> QED  BY <1>2, <2>2, StepShape
<1> QED  BY <1>1, <1>2 DEF Create

LEMMA TrackShape ==
    ASSUME ShapeInv, NEW p \in Procs, Track(p)
    PROVE  ShapeInv'
<1> DEFINE j == proc[p].number
           task == Coroutine("launching", "fresh", j)
           rest == [proc[p] EXCEPT !.pc = "unwind"]
<1>1. proc[p].pc = "track"  BY DEF Track, At
<1>2. PICK q \in Procs :
          /\ proc' = [r \in Procs |-> IF r = q THEN task ELSE IF r = p THEN rest ELSE proc[r]]
          /\ byJob' = [byJob EXCEPT ![j] = q]
          /\ IF IsTask(p) THEN proc[q] = Idle ELSE q = p
  BY DEF Track
<1>3. UNCHANGED <<issue, job, launch, ckpt, input, orch, boot, stops>>  BY DEF Track
<1>4. /\ proc[p] \in Coroutines /\ HasItsJob(proc[p], job) /\ proc[p].kind # "none"
      /\ j \in Jobs /\ job[j] # "absent" /\ boot.keep = {} /\ orch \in {"up", "draining"}
  <2>1. proc[p] \in Coroutines /\ proc[p] # Idle /\ boot.keep = {} /\ orch \in {"up", "draining"}
    BY <1>1, AtWork
  <2> QED  BY <1>1, <2>1, ShapeParts, IdleFields DEF HasItsJob
<1>5. /\ task \in Coroutines /\ task.pc = "launching" /\ task.kind = "fresh" /\ task.job = j
      /\ task.channel = "none"
  <2>1. j \in 0..MaxJobs /\ "launching" \in PCs /\ "fresh" \in RequestKinds \cup TaskKinds
    BY <1>4 DEF Jobs, PCs, TaskKinds
  <2> QED  BY <2>1, NewCoroutine
<1>6. HasItsJob(task, job)  BY <1>4, <1>5 DEF HasItsJob, Jobs, TaskKinds, RequestKinds, RequestPCs
<1>7. IsTask(p) => rest \in Coroutines /\ HasItsJob(rest, job)
  <2> SUFFICES ASSUME IsTask(p) PROVE rest \in Coroutines /\ HasItsJob(rest, job)
    OBVIOUS
  <2>1. rest \in Coroutines /\ rest.pc = "unwind" /\ rest.kind = proc[p].kind /\ rest.job = proc[p].job
    BY <1>4 DEF Coroutines, PCs
  <2>2. proc[p].job # 0  BY <1>1, <1>4 DEF HasItsJob, IsTask, TaskKinds
  <2> HIDE DEF rest
  <2> QED  BY <1>4, <2>1, <2>2 DEF HasItsJob, IsTask, TaskKinds, RequestKinds, RequestPCs
<1>11. IsTask(p) => rest.kind \in TaskKinds /\ rest.job = proc[p].job
  BY <1>4 DEF Coroutines, IsTask
<1> HIDE DEF task, rest, j
<1>8. \A r \in Procs : proc'[r] \in Coroutines /\ HasItsJob(proc'[r], job)
  BY <1>2, <1>5, <1>6, <1>7, ShapeParts
<1>9. proc' \in [Procs -> Coroutines]  BY <1>2, <1>8
<1>10. byJob' \in [Jobs -> 0..MaxProcs]
  <2>1. q \in 0..MaxProcs  BY BoundsAssumption DEF Procs
  <2> QED  BY <1>2, <2>1, ShapeParts
<1>12. Registered(proc', byJob')
  <2> SUFFICES ASSUME NEW i \in Jobs, byJob'[i] # 0
               PROVE  proc'[byJob'[i]].kind \in TaskKinds /\ proc'[byJob'[i]].job = i
    BY DEF Registered
  <2>1. CASE i = j  BY <1>2, <1>5, <2>1, ShapeParts DEF TaskKinds
  <2>2. CASE i # j
    <3>1. byJob'[i] = byJob[i] /\ byJob[i] \in Procs
      BY <1>2, <2>2, ShapeParts, BoundsAssumption DEF Procs
    <3>2. proc[byJob[i]].kind \in TaskKinds /\ proc[byJob[i]].job = i
      BY <3>1, ShapeParts DEF Registered
    <3>3. byJob[i] # q  BY <1>2, <3>2, IdleFields DEF IsTask, TaskKinds
    <3> QED  BY <1>2, <1>11, <3>1, <3>2, <3>3 DEF IsTask
  <2> QED  BY <2>1, <2>2
<1> QED  BY <1>3, <1>4, <1>8, <1>9, <1>10, <1>12, ShapeParts, ShapeWhole

\* A task goes on among the steps of tasks, whatever else it keeps in mind.
LEMMA TaskOn ==
    ASSUME ShapeInv, NEW p \in Procs, proc[p].pc \in TaskPCs,
           NEW new \in Coroutines, new.kind = proc[p].kind, new.job = proc[p].job,
           new.pc \in TaskPCs,
           proc' = [proc EXCEPT ![p] = new],
           \A j \in Jobs : job[j] # "absent" => job'[j] # "absent"
    PROVE  /\ proc' \in [Procs -> Coroutines]
           /\ \A q \in Procs : HasItsJob(proc'[q], job')
           /\ Registered(proc', byJob)
<1>1. IsTask(p) /\ proc[p].job \in Jobs /\ proc[p].job # 0  BY TasksAlone
<1>2. job'[proc[p].job] # "absent"  BY <1>1, AtWork, StatusNames DEF TaskPCs
<1>3. HasItsJob(new, job')
  BY <1>1, <1>2 DEF HasItsJob, IsTask, TaskKinds, RequestKinds, TaskPCs, RequestPCs, DispatchPCs
<1> QED  BY <1>1, <1>3, PlaceShape DEF IsTask

LEMMA LaunchShape ==
    ASSUME ShapeInv, NEW p \in Procs, Launch(p)
    PROVE  ShapeInv'
<1>1. proc[p].pc = "launching"  BY DEF Launch, At
<1>2. orch \in {"up", "draining"} /\ boot.keep = {}  BY <1>1, AtWork
<1>20. MayGo(p, "unwind") /\ MayGo(p, "slot")
  BY <1>1, TasksAlone DEF TaskPCs, PCs, RequestPCs, DispatchPCs
<1>3. UNCHANGED <<issue, job, ckpt, input, byJob, orch, boot, stops>>  BY DEF Launch
<1>4. launch' \in [Jobs -> BOOLEAN]  BY ShapeParts DEF Launch
<1>5. Goto(p, "unwind") \/ Goto(p, "slot")  BY DEF Launch
<1>6. /\ proc' \in [Procs -> Coroutines]
      /\ \A q \in Procs : HasItsJob(proc'[q], job')
      /\ Registered(proc', byJob)
  BY <1>1, <1>3, <1>5, <1>20, GotoShape
<1> QED  BY <1>2, <1>3, <1>4, <1>6, ShapeParts, ShapeWhole

LEMMA KeepPriorShape ==
    ASSUME ShapeInv, NEW p \in Procs, KeepPrior(p)
    PROVE  ShapeInv'
<1>1. proc[p].pc \in {"prior_job", "prior_issue"}  BY DEF KeepPrior, At
<1>2. /\ proc[p] \in Coroutines /\ HasItsJob(proc[p], job) /\ proc[p].kind # "none"
      /\ proc[p].job \in Jobs /\ job[proc[p].job] \in JobStatuses
      /\ orch \in {"up", "draining"} /\ boot.keep = {}
  BY <1>1, AtWork DEF JoblessPCs, RequestKinds, TaskKinds
<1>3. UNCHANGED <<issue, job, launch, ckpt, input, byJob, orch, boot, stops>>  BY DEF KeepPrior
<1>4. PICK new \in Coroutines : /\ proc' = [proc EXCEPT ![p] = new]
                                /\ new.pc \in {"prior_issue", "resume_job"}
                                /\ new.kind = proc[p].kind /\ new.job = proc[p].job
  <2>1. CASE At(p, "prior_job")
    <3> DEFINE n == [proc[p] EXCEPT !.priorJob = job[proc[p].job], !.pc = "prior_issue"]
    <3>1. proc' = [proc EXCEPT ![p] = n]  BY <2>1, ShapeParts DEF KeepPrior, At
    <3>2. n \in Coroutines /\ n.pc = "prior_issue" /\ n.kind = proc[p].kind /\ n.job = proc[p].job
      <4>1. "prior_issue" \in PCs /\ job[proc[p].job] \in JobStatuses  BY <1>2 DEF PCs
      <4> QED  BY <1>2, <4>1 DEF Coroutines
    <3> QED  BY <3>1, <3>2
  <2>2. CASE At(p, "prior_issue")
    <3> DEFINE n == [proc[p] EXCEPT !.priorIssue = issue, !.pc = "resume_job"]
    <3>1. proc' = [proc EXCEPT ![p] = n]  BY <2>2, ShapeParts DEF KeepPrior, At
    <3>2. n \in Coroutines /\ n.pc = "resume_job" /\ n.kind = proc[p].kind /\ n.job = proc[p].job
      <4>1. issue \in IssueStatuses /\ "resume_job" \in PCs  BY ShapeParts DEF PCs
      <4> QED  BY <1>2, <4>1 DEF Coroutines
    <3> QED  BY <3>1, <3>2
  <2> QED  BY <2>1, <2>2 DEF KeepPrior
<1>5. proc[p].pc \in TaskPCs /\ new.pc \in TaskPCs
  BY <1>1, <1>4 DEF TaskPCs, PCs, RequestPCs, DispatchPCs
<1>6. /\ proc' \in [Procs -> Coroutines]
      /\ \A q \in Procs : HasItsJob(proc'[q], job')
      /\ Registered(proc', byJob)
  BY <1>3, <1>4, <1>5, TaskOn
<1> HIDE DEF KeepPrior
<1> QED  BY <1>2, <1>3, <1>6, ShapeParts, ShapeWhole

LEMMA ReenrollShape ==
    ASSUME ShapeInv, NEW p \in Procs, ReenrollFails(p)
    PROVE  ShapeInv'
<1>1. proc[p].pc = "stream"  BY DEF ReenrollFails, At
<1>2. /\ proc[p] \in Coroutines /\ HasItsJob(proc[p], job) /\ proc[p].kind # "none"
      /\ proc[p].job # 0
      /\ orch \in {"up", "draining"} /\ boot.keep = {}
  BY <1>1, AtWork DEF JoblessPCs, RequestKinds, TaskKinds, Jobs
<1>3. UNCHANGED <<issue, job, launch, ckpt, input, byJob, orch, boot, stops>>  BY DEF ReenrollFails
<1>4. PICK new \in Coroutines : /\ proc' = [proc EXCEPT ![p] = new]
                                /\ new.pc \in {"fail_job", "putback_job"}
                                /\ new.kind = proc[p].kind /\ new.job = proc[p].job
  <2> DEFINE pc == IF proc[p].kind = "restart" THEN "fail_job" ELSE "putback_job"
             n == [proc[p] EXCEPT !.pc = pc, !.ending = "refused"]
  <2>1. proc' = [proc EXCEPT ![p] = n]  BY ShapeParts DEF ReenrollFails
  <2>2. pc \in PCs /\ pc \in {"fail_job", "putback_job"}  BY DEF PCs
  <2> HIDE DEF pc
  <2>3. n \in Coroutines /\ n.pc = pc /\ n.kind = proc[p].kind /\ n.job = proc[p].job
    BY <1>2, <2>2 DEF Coroutines
  <2> QED  BY <2>1, <2>2, <2>3
<1>5. proc[p].pc \in TaskPCs /\ new.pc \in TaskPCs
  BY <1>1, <1>4 DEF TaskPCs, PCs, RequestPCs, DispatchPCs
<1>6. /\ proc' \in [Procs -> Coroutines]
      /\ \A q \in Procs : HasItsJob(proc'[q], job')
      /\ Registered(proc', byJob)
  BY <1>3, <1>4, <1>5, TaskOn
<1> QED  BY <1>2, <1>3, <1>6, ShapeParts, ShapeWhole

LEMMA EnterStreamShape ==
    ASSUME ShapeInv, NEW p \in Procs, EnterStream(p)
    PROVE  ShapeInv'
<1> DEFINE here == ckpt[proc[p].job]
           pc == CASE here = "node" -> "nodes"
                   [] here = "asked" -> "asking"
                   [] here = "moot" -> "auto_job"
                   [] here = "stuck" -> "pause_job"
                   [] here = "end" -> "unwind"
<1>1. proc[p].pc = "stream"  BY DEF EnterStream, At
<1>2. proc[p].job \in Jobs  BY <1>1, AtWork DEF JoblessPCs
<1>3. here # "none" => pc \in {"nodes", "asking", "auto_job", "pause_job", "unwind"}
  BY <1>2, ShapeParts DEF Checkpoints
<1>4. \/ Step(p, "stream", "unwind") \/ Step(p, "stream", "fail_job")
      \/ here # "none" /\ Step(p, "stream", pc)
      \/ proc[p].kind # "restart" /\ Reaches(p, "stream", "node", "nodes")
      \/ here = "none" /\ proc[p].kind = "restart"
  BY DEF EnterStream
<1>5. here = "none" /\ proc[p].kind = "restart" => Step(p, "stream", "unwind") \/ Step(p, "stream", "fail_job")
  BY DEF EnterStream
<1> HIDE DEF pc, here
<1>8. \A to \in {"nodes", "asking", "auto_job", "pause_job", "unwind", "fail_job"} : MayGo(p, to)
  BY <1>1, TasksAlone DEF TaskPCs, PCs, RequestPCs, DispatchPCs
<1>6. CASE \E to \in {"nodes", "asking", "auto_job", "pause_job", "unwind", "fail_job"} : Step(p, "stream", to)
  BY <1>6, <1>8, StepShape
<1>7. CASE Reaches(p, "stream", "node", "nodes")
  BY <1>7, <1>8, ReachesShape DEF Checkpoints
<1> QED  BY <1>3, <1>4, <1>5, <1>6, <1>7

LEMMA EndRunShape ==
    ASSUME ShapeInv, NEW p \in Procs, EndRun(p)
    PROVE  ShapeInv'
<1>1. proc[p].pc = "nodes"  BY DEF EndRun, At
<1>2. /\ proc[p] \in Coroutines /\ HasItsJob(proc[p], job) /\ proc[p].kind # "none"
      /\ proc[p].job # 0
      /\ orch \in {"up", "draining"} /\ boot.keep = {}
  BY <1>1, AtWork DEF JoblessPCs, RequestKinds, TaskKinds, Jobs
<1>3. UNCHANGED <<issue, job, launch, input, byJob, orch, boot, stops>>  BY DEF EndRun
<1>4. ckpt' \in [Jobs -> Checkpoints]  BY ShapeParts DEF EndRun, Checkpoints
<1>5. CASE Goto(p, "unwind")
  <2>1. /\ proc' \in [Procs -> Coroutines]
        /\ \A q \in Procs : HasItsJob(proc'[q], job')
        /\ Registered(proc', byJob)
    <3>1. MayGo(p, "unwind")  BY <1>1, TasksAlone DEF TaskPCs, PCs, RequestPCs, DispatchPCs
    <3> QED  BY <1>1, <1>3, <1>5, <3>1, GotoShape
  <2> QED  BY <1>2, <1>3, <1>4, <2>1, ShapeParts, ShapeWhole
<1>6. ASSUME NEW ending \in {"completed", "failed", "split"},
             proc' = [proc EXCEPT ![p].pc = "finish_job", ![p].ending = ending]
      PROVE  ShapeInv'
  <2> DEFINE new == [proc[p] EXCEPT !.pc = "finish_job", !.ending = ending]
  <2>1. proc' = [proc EXCEPT ![p] = new]  BY <1>6, ShapeParts
  <2>2. "finish_job" \in PCs  BY DEF PCs
  <2>3. new \in Coroutines /\ new.pc = "finish_job" /\ new.kind = proc[p].kind /\ new.job = proc[p].job
    BY <1>2, <2>2 DEF Coroutines
  <2> HIDE DEF new
  <2>4. proc[p].pc \in TaskPCs /\ new.pc \in TaskPCs
    BY <1>1, <2>3 DEF TaskPCs, PCs, RequestPCs, DispatchPCs
  <2>5. /\ proc' \in [Procs -> Coroutines]
        /\ \A q \in Procs : HasItsJob(proc'[q], job')
        /\ Registered(proc', byJob)
    BY <1>3, <2>1, <2>3, <2>4, TaskOn
  <2> QED  BY <1>2, <1>3, <1>4, <2>5, ShapeParts, ShapeWhole
<1> QED  BY <1>5, <1>6 DEF EndRun

LEMMA AskingShape ==
    ASSUME ShapeInv, NEW p \in Procs, Asking(p)
    PROVE  ShapeInv'
<1> DEFINE j == proc[p].job
<1>1. proc[p].pc = "asking"  BY DEF Asking, At
<1>2. j \in Jobs /\ j # 0 /\ job[j] \in JobStatuses /\ orch \in {"up", "draining"} /\ boot.keep = {}
  BY <1>1, AtWork DEF JoblessPCs, Jobs
<1>3. UNCHANGED <<launch, ckpt, byJob, orch, boot, stops>> /\ Goto(p, "unwind")  BY DEF Asking
<1>4. /\ issue' \in IssueStatuses
      /\ job' \in [Jobs -> JobStatuses \cup {"absent"}]
      /\ \A i \in Jobs : job[i] # "absent" => job'[i] # "absent"
      /\ input' \in [Jobs -> Seq({"pending", "answered"})]
      /\ \A i \in Jobs : input'[i] # input[i] => i = j
  <2>1. CASE UNCHANGED <<job, issue, input>>  BY <2>1, ShapeParts
  <2>2. CASE job' = [job EXCEPT ![j] = "awaiting_input"] /\ issue' = "awaiting_input" /\ AddQuestions(j)
    <3>1. PICK n \in 1..RoundSize : input' = [input EXCEPT ![j] = @ \o [i \in 1..n |-> "pending"]]
      BY <2>2 DEF AddQuestions
    <3>2. [i \in 1..n |-> "pending"] \in Seq({"pending", "answered"})
      BY BoundsAssumption
    <3>3. input[j] \o [i \in 1..n |-> "pending"] \in Seq({"pending", "answered"})
      BY <1>2, <3>2, ShapeParts
    <3>4. "awaiting_input" \in JobStatuses /\ "awaiting_input" \in IssueStatuses
      BY DEF JobStatuses, ActiveStatuses, IssueStatuses
    <3> HIDE DEF j
    <3>5. /\ input' \in [Jobs -> Seq({"pending", "answered"})]
          /\ \A i \in Jobs : input'[i] # input[i] => i = j
      BY <3>1, <3>3, <1>2, ShapeParts
    <3> QED  BY <2>2, <3>4, <3>5, ShapeParts
  <2> QED  BY <2>1, <2>2 DEF Asking
<1>5. /\ proc' \in [Procs -> Coroutines]
      /\ \A q \in Procs : HasItsJob(proc'[q], job')
      /\ Registered(proc', byJob)
  <2>1. MayGo(p, "unwind")  BY <1>1, TasksAlone DEF TaskPCs, PCs, RequestPCs, DispatchPCs
  <2> QED  BY <1>1, <1>3, <1>4, <2>1, GotoShape
<1>6. \A i \in Jobs : input'[i] # <<>> => job'[i] # "absent"
  BY <1>2, <1>4, ShapeParts, StatusNames
<1> QED  BY <1>2, <1>3, <1>4, <1>5, <1>6, ShapeParts, ShapeWhole

LEMMA UnwindShape ==
    ASSUME ShapeInv, NEW p \in Procs, Unwind(p)
    PROVE  ShapeInv'
<1>1. proc[p].pc = "unwind"  BY DEF Unwind, At
<1>2. orch \in {"up", "draining"} /\ boot.keep = {}  BY <1>1, AtWork
<1>3. UNCHANGED <<issue, job, launch, ckpt, input, orch, boot, stops>>  BY DEF Unwind
<1>4. byJob' \in [Jobs -> 0..MaxProcs]
  BY ShapeParts, BoundsAssumption DEF Unwind
<1>5. proc' = [proc EXCEPT ![p] = Idle] /\ byJob' = [j \in Jobs |-> IF byJob[j] = p THEN 0 ELSE byJob[j]]
  BY DEF Unwind
<1>6. /\ proc' \in [Procs -> Coroutines]
      /\ \A q \in Procs : HasItsJob(proc'[q], job')
  BY <1>3, <1>5, ShapeParts, IdleFields, IdleHasItsJob
<1>7. Registered(proc', byJob')
  <2> SUFFICES ASSUME NEW j \in Jobs, byJob'[j] # 0
               PROVE  proc'[byJob'[j]].kind \in TaskKinds /\ proc'[byJob'[j]].job = j
    BY DEF Registered
  <2>1. byJob'[j] = byJob[j] /\ byJob[j] # p /\ byJob[j] # 0  BY <1>5
  <2>2. byJob[j] \in Procs  BY <2>1, ShapeParts, BoundsAssumption DEF Procs
  <2>3. proc'[byJob[j]] = proc[byJob[j]]  BY <1>5, <2>1, <2>2, ShapeParts
  <2>4. proc[byJob[j]].kind \in TaskKinds /\ proc[byJob[j]].job = j  BY <2>1, ShapeParts DEF Registered
  <2> QED  BY <2>1, <2>3, <2>4
<1> QED  BY <1>2, <1>3, <1>4, <1>6, <1>7, ShapeParts, ShapeWhole

\* A step that leaves the rows and the registry alone and puts a coroutine in place.
LEMMA PlacedShape ==
    ASSUME ShapeInv, NEW p \in Procs, NEW new \in Coroutines, HasItsJob(new, job),
           IsTask(p) => new.kind \in TaskKinds /\ new.job = proc[p].job,
           proc' = [proc EXCEPT ![p] = new],
           orch \in {"up", "draining"},
           UNCHANGED <<issue, job, launch, ckpt, input, byJob, orch, boot, stops>>
    PROVE  ShapeInv'
<1>1. /\ proc' \in [Procs -> Coroutines]
      /\ \A q \in Procs : HasItsJob(proc'[q], job')
      /\ Registered(proc', byJob)
  BY PlaceShape
<1>2. boot.keep = {}  BY ShapeParts
<1> QED  BY <1>1, <1>2, ShapeParts, ShapeWhole

LEMMA ScheduleShape ==
    ASSUME ShapeInv, NEW p \in Procs, NEW kind \in TaskKinds, NEW j \in Jobs, job[j] # "absent",
           proc[p].pc \in RequestPCs, Schedule(p, kind, j)
    PROVE  ShapeInv'
<1>1. orch \in {"up", "draining"} /\ boot.keep = {} /\ ~IsTask(p)
  <2>1. proc[p].pc # "idle"  BY DEF RequestPCs
  <2> QED  BY <2>1, AtWork, RequestsAlone
<1>2. UNCHANGED <<issue, job, launch, ckpt, input, orch, boot, stops>>  BY DEF Schedule
<1>3. CASE orch = "draining"
  <2>1. proc' = [proc EXCEPT ![p] = Idle] /\ byJob' = byJob  BY <1>3 DEF Schedule, Goto
  <2> QED  BY <1>1, <1>2, <2>1, IdleFields, IdleHasItsJob, PlacedShape
<1>4. CASE orch # "draining"
  <2> DEFINE new == Coroutine("prior_job", kind, j)
  <2>1. proc' = [proc EXCEPT ![p] = new] /\ byJob' = [byJob EXCEPT ![j] = p]  BY <1>4 DEF Schedule
  <2>2. j \in 0..MaxJobs /\ j # 0 /\ p \in 0..MaxProcs /\ "prior_job" \in PCs
    BY BoundsAssumption DEF Jobs, Procs, PCs
  <2>3. new \in Coroutines /\ new.pc = "prior_job" /\ new.kind = kind /\ new.job = j
    BY <2>2, NewCoroutine
  <2> HIDE DEF new
  <2>4. HasItsJob(new, job)  BY <2>2, <2>3 DEF HasItsJob, TaskKinds, RequestKinds, RequestPCs
  <2>5. byJob' \in [Jobs -> 0..MaxProcs]  BY <2>1, <2>2, ShapeParts
  <2>6. /\ proc' \in [Procs -> Coroutines]
        /\ \A q \in Procs : HasItsJob(proc'[q], job')
        /\ Registered(proc', byJob)
    <3>1. \A i \in Jobs : job[i] # "absent" => job'[i] # "absent"  BY <1>2
    <3> QED  BY <1>1, <1>2, <2>1, <2>3, <2>4, <3>1, PlaceShape
  <2>7. Registered(proc', byJob')
    <3>1. proc'[p] = new  BY <2>1, ShapeParts
    <3> QED  BY <2>1, <2>3, <2>6, <3>1, ShapeParts DEF Registered
  <2> QED  BY <1>1, <1>2, <2>5, <2>6, <2>7, ShapeParts, ShapeWhole
<1> QED  BY <1>3, <1>4

\* A request goes on among the steps of requests, or is done.
LEMMA RequestMay ==
    ASSUME ShapeInv, NEW p \in Procs, proc[p].pc \in RequestPCs
    PROVE  /\ \A pc \in (RequestPCs \cup DispatchPCs \cup {"idle"}) \ {"track"} :
                 proc[p].job # 0 \/ pc \in JoblessPCs \cup {"idle"} => MayGo(p, pc)
<1>1. ~IsTask(p)  BY RequestsAlone
<1>2. RequestPCs \cup DispatchPCs \cup {"idle"} \subseteq PCs  BY DEF RequestPCs, DispatchPCs, PCs
<1> QED  BY <1>1, <1>2 DEF MayGo

LEMMA ContinueShape ==
    ASSUME ShapeInv, NEW p \in Procs, Continue(p)
    PROVE  ShapeInv'
<1>1. proc[p].pc = "continue" /\ Schedule(p, "choice", proc[p].job)  BY DEF Continue, At
<1>2. proc[p].job \in Jobs /\ job[proc[p].job] # "absent"  BY <1>1, AtWork, StatusNames DEF JoblessPCs
<1>3. proc[p].pc \in RequestPCs  BY <1>1 DEF RequestPCs
<1> QED  BY <1>1, <1>2, <1>3, ScheduleShape DEF TaskKinds

LEMMA ResumeShape ==
    ASSUME ShapeInv, NEW p \in Procs, Resume(p)
    PROVE  ShapeInv'
<1>1. proc[p].pc = "resume" /\ Schedule(p, "answer", proc[p].job)  BY DEF Resume, At
<1>2. proc[p].job \in Jobs /\ job[proc[p].job] # "absent"  BY <1>1, AtWork, StatusNames DEF JoblessPCs
<1>3. proc[p].pc \in RequestPCs  BY <1>1 DEF RequestPCs
<1> QED  BY <1>1, <1>2, <1>3, ScheduleShape DEF TaskKinds

LEMMA FindShape ==
    ASSUME ShapeInv, NEW p \in Procs, Find(p)
    PROVE  ShapeInv'
<1>1. ASSUME NEW j \in Jobs, job[j] = "awaiting_input", At(p, "find"), Schedule(p, "answer", j)
      PROVE  ShapeInv'
  <2>1. proc[p].pc \in RequestPCs /\ job[j] # "absent"  BY <1>1 DEF At, RequestPCs
  <2> QED  BY <1>1, <2>1, ScheduleShape DEF TaskKinds
<1>2. CASE Step(p, "find", "claim_issue") \/ Step(p, "find", "idle")
  <2>1. proc[p].pc = "find"  BY <1>2 DEF Step, At
  <2>2. MayGo(p, "claim_issue") /\ MayGo(p, "idle")
    BY <2>1, RequestMay DEF JoblessPCs, DispatchPCs, RequestPCs
  <2> QED  BY <1>2, <2>2, StepShape
<1> QED  BY <1>1, <1>2 DEF Find

LEMMA RecordShape ==
    ASSUME ShapeInv, NEW p \in Procs, Record(p)
    PROVE  ShapeInv'
<1> DEFINE j == proc[p].job
           n == proc[p].number
           answered == [i \in DOMAIN input[j] |-> IF i = n THEN "answered" ELSE input[j][i]]
<1>1. proc[p].pc = "record"  BY DEF Record, At
<1>2. j \in Jobs /\ job[j] # "absent" /\ j # 0 /\ orch \in {"up", "draining"} /\ boot.keep = {}
  BY <1>1, AtWork, StatusNames DEF JoblessPCs, Jobs
<1>3. UNCHANGED <<issue, job, launch, ckpt, byJob, orch, boot, stops>> /\ Goto(p, "count")
  BY DEF Record
<1>4. input' = [input EXCEPT ![j] = answered]
  BY <1>2, ShapeParts DEF Record
<1>5. answered \in Seq({"pending", "answered"})
  <2>1. PICK s \in Seq({"pending", "answered"}) : s = input[j]  BY <1>2, ShapeParts
  <2>2. Len(s) \in Nat /\ DOMAIN s = 1..Len(s) /\ \A i \in 1..Len(s) : s[i] \in {"pending", "answered"}
    BY <2>1
  <2>3. answered \in [1..Len(s) -> {"pending", "answered"}]
    BY <2>1, <2>2
  <2> HIDE DEF answered
  <2> QED  BY <2>2, <2>3
<1> HIDE DEF answered
<1>6. /\ input' \in [Jobs -> Seq({"pending", "answered"})]
      /\ \A i \in Jobs : input'[i] # input[i] => i = j
  BY <1>2, <1>4, <1>5, ShapeParts
<1>7. /\ proc' \in [Procs -> Coroutines]
      /\ \A q \in Procs : HasItsJob(proc'[q], job')
      /\ Registered(proc', byJob)
  <2>1. MayGo(p, "count")  BY <1>1, <1>2, RequestMay DEF RequestPCs
  <2>2. \A i \in Jobs : job[i] # "absent" => job'[i] # "absent"  BY <1>3
  <2> QED  BY <1>1, <1>3, <2>1, <2>2, GotoShape
<1> QED  BY <1>2, <1>3, <1>6, <1>7, ShapeParts, ShapeWhole

LEMMA AfterCancelFields ==
    ASSUME NEW c \in Coroutines, NEW draining
    PROVE  /\ AfterCancel(c, draining) \in Coroutines
           /\ AfterCancel(c, draining).pc \in {"putback_job", "unwind"}
           /\ AfterCancel(c, draining).kind = c.kind
           /\ AfterCancel(c, draining).job = c.job
           /\ AfterCancel(c, draining).number = c.number
           /\ AfterCancel(c, draining).seen = NoStatus
           /\ AfterCancel(c, draining).priorJob = c.priorJob
           /\ AfterCancel(c, draining).priorIssue = c.priorIssue
           /\ AfterCancel(c, draining).ending = c.ending
           /\ AfterCancel(c, draining).channel = c.channel
           /\ AfterCancel(c, draining).pc = "putback_job" =>
                 c.pc = "slot" /\ c.kind \in {"answer", "choice"}
<1> DEFINE pc == IF draining /\ c.pc = "slot" /\ c.kind \in {"answer", "choice"}
                 THEN "putback_job" ELSE "unwind"
<1>1. pc \in PCs /\ pc \in {"putback_job", "unwind"}
      /\ (pc = "putback_job" => c.pc = "slot" /\ c.kind \in {"answer", "choice"})
  BY DEF PCs
<1>2. AfterCancel(c, draining) = [c EXCEPT !.seen = NoStatus, !.pc = pc]  BY DEF AfterCancel
<1> HIDE DEF pc
<1> QED  BY <1>1, <1>2 DEF Coroutines

\* What a cancel leaves of a task still has its job.
LEMMA AfterCancelShape ==
    ASSUME ShapeInv, NEW p \in Procs, IsTask(p), NEW draining
    PROVE  HasItsJob(AfterCancel(proc[p], draining), job)
<1>1. proc[p] \in Coroutines /\ HasItsJob(proc[p], job)  BY ShapeParts
<1>2. proc[p].job # 0  BY <1>1, IdleFields DEF HasItsJob, IsTask, TaskKinds
<1> QED  BY <1>1, <1>2, AfterCancelFields DEF HasItsJob, IsTask, TaskKinds, RequestKinds, RequestPCs

LEMMA CancelTaskShape ==
    ASSUME ShapeInv, NEW p \in Procs, CancelTask(p)
    PROVE  ShapeInv'
<1> DEFINE t == byJob[proc[p].job]
           new == [proc[p] EXCEPT !.pc = IF t = 0 THEN "cancel_job" ELSE "cancel_wait", !.number = t]
           draining == orch = "draining"
<1>1. proc[p].pc = "cancel_task"  BY DEF CancelTask, At
<1>2. /\ proc[p] \in Coroutines /\ HasItsJob(proc[p], job) /\ proc[p].kind \in RequestKinds
      /\ proc[p].job \in Jobs /\ proc[p].job # 0
      /\ orch \in {"up", "draining"} /\ boot.keep = {} /\ ~IsTask(p)
  <2>1. ~IsTask(p)  BY <1>1, RequestsAlone DEF RequestPCs
  <2> QED  BY <1>1, <2>1, AtWork DEF JoblessPCs, Jobs, IsTask
<1>3. UNCHANGED <<issue, job, launch, ckpt, input, byJob, orch, boot, stops>>  BY DEF CancelTask
<1>4. proc' = [q \in Procs |-> IF q = p THEN new
                               ELSE IF q = t THEN AfterCancel(proc[q], draining) ELSE proc[q]]
  BY DEF CancelTask
<1>5. t \in 0..MaxProcs  BY <1>2, ShapeParts
<1>6. new \in Coroutines /\ HasItsJob(new, job)
  <2>1. t \in Nat /\ {"cancel_job", "cancel_wait"} \subseteq PCs  BY <1>5, BoundsAssumption DEF PCs
  <2>2. /\ new \in Coroutines /\ new.pc \in {"cancel_job", "cancel_wait"}
        /\ new.kind = proc[p].kind /\ new.job = proc[p].job
    BY <1>2, <2>1 DEF Coroutines
  <2> HIDE DEF new
  <2> QED  BY <1>2, <2>2 DEF HasItsJob, RequestPCs, RequestKinds, TaskKinds, JoblessPCs
<1>7. \A q \in Procs : q = t => IsTask(q) /\ q # p
  <2> SUFFICES ASSUME NEW q \in Procs, q = t PROVE IsTask(q) /\ q # p
    OBVIOUS
  <2>1. t # 0  BY BoundsAssumption DEF Procs
  <2>2. IsTask(q)  BY <1>2, <2>1, ShapeParts DEF Registered, IsTask
  <2> QED  BY <1>2, <2>2
<1>11. draining \in BOOLEAN  OBVIOUS
<1> HIDE DEF new, t, draining
<1>8. \A q \in Procs : /\ proc'[q] \in Coroutines /\ HasItsJob(proc'[q], job)
                       /\ IsTask(q) => proc'[q].kind = proc[q].kind /\ proc'[q].job = proc[q].job
  <2> SUFFICES ASSUME NEW q \in Procs
               PROVE  /\ proc'[q] \in Coroutines /\ HasItsJob(proc'[q], job)
                      /\ IsTask(q) => proc'[q].kind = proc[q].kind /\ proc'[q].job = proc[q].job
    OBVIOUS
  <2>1. CASE q = p  BY <1>2, <1>4, <1>6, <2>1
  <2>2. CASE q # p /\ q = t
    <3>1. proc'[q] = AfterCancel(proc[q], draining)  BY <1>4, <2>2
    <3> QED  BY <1>7, <2>2, <3>1, ShapeParts, AfterCancelFields, AfterCancelShape
  <2>3. CASE q # p /\ q # t  BY <1>4, <2>3, ShapeParts
  <2> QED  BY <2>1, <2>2, <2>3
<1>9. proc' \in [Procs -> Coroutines]
  <2>1. proc' = [q \in Procs |-> proc'[q]]  BY <1>4
  <2>2. \A q \in Procs : proc'[q] \in Coroutines  BY <1>8
  <2> QED  BY <2>1, <2>2
<1>10. Registered(proc', byJob')
  <2> SUFFICES ASSUME NEW j \in Jobs, byJob[j] # 0
               PROVE  proc'[byJob[j]].kind \in TaskKinds /\ proc'[byJob[j]].job = j
    BY <1>3 DEF Registered
  <2>1. byJob[j] \in Procs  BY ShapeParts, BoundsAssumption DEF Procs
  <2>2. proc[byJob[j]].kind \in TaskKinds /\ proc[byJob[j]].job = j  BY ShapeParts DEF Registered
  <2>3. /\ proc'[byJob[j]].kind = proc[byJob[j]].kind
        /\ proc'[byJob[j]].job = proc[byJob[j]].job
    BY <1>8, <2>1, <2>2 DEF IsTask
  <2> QED  BY <2>2, <2>3
<1>12. \A q \in Procs : HasItsJob(proc'[q], job')
  <2>1. job' = job  BY <1>3
  <2> QED  BY <2>1, <1>8
<1> QED  BY <1>2, <1>3, <1>9, <1>10, <1>12, ShapeParts, ShapeWhole

\* Some tasks are cancelled and everything else stays.
LEMMA CancelledShape ==
    ASSUME ShapeInv, NEW Cut \in SUBSET Procs, \A p \in Cut : IsTask(p), NEW draining,
           proc' = [p \in Procs |-> IF p \in Cut THEN AfterCancel(proc[p], draining) ELSE proc[p]],
           UNCHANGED <<job, byJob>>
    PROVE  /\ proc' \in [Procs -> Coroutines]
           /\ \A p \in Procs : HasItsJob(proc'[p], job')
           /\ Registered(proc', byJob')
<1>1. \A p \in Procs : proc'[p] \in Coroutines /\ HasItsJob(proc'[p], job)
  BY ShapeParts, AfterCancelFields, AfterCancelShape
<1>2. \A p \in Procs : proc'[p].kind = proc[p].kind /\ proc'[p].job = proc[p].job
  BY ShapeParts, AfterCancelFields
<1>3. proc' \in [Procs -> Coroutines]  BY <1>1
<1>4. Registered(proc', byJob')
  <2> SUFFICES ASSUME NEW j \in Jobs, byJob[j] # 0
               PROVE  proc'[byJob[j]].kind \in TaskKinds /\ proc'[byJob[j]].job = j
    BY DEF Registered
  <2>1. byJob[j] \in Procs  BY ShapeParts, BoundsAssumption DEF Procs
  <2>2. proc[byJob[j]].kind \in TaskKinds /\ proc[byJob[j]].job = j  BY ShapeParts DEF Registered
  <2> QED  BY <1>2, <2>1, <2>2
<1> QED  BY <1>1, <1>3, <1>4

LEMMA DrainShape ==
    ASSUME ShapeInv, Drain
    PROVE  ShapeInv'
<1> DEFINE Cut == {p \in Procs : proc[p].pc \in NotStarted /\ \E j \in Jobs : byJob[j] = p}
<1>1. /\ "drain" \in Faults /\ orch = "up" /\ orch' = "draining"
      /\ stops < MaxStops /\ stops' = stops + 1
      /\ UNCHANGED <<issue, job, launch, ckpt, input, byJob, boot>>
      /\ proc' = [p \in Procs |-> IF p \in Cut THEN AfterCancel(proc[p], TRUE) ELSE proc[p]]
  BY DEF Drain
<1>2. \A p \in Cut : IsTask(p)  BY ShapeParts, BoundsAssumption DEF Registered, IsTask, Procs
<1> HIDE DEF Cut
<1>3. Cut \subseteq Procs  BY DEF Cut
<1>4. /\ proc' \in [Procs -> Coroutines]
      /\ \A p \in Procs : HasItsJob(proc'[p], job')
      /\ Registered(proc', byJob')
  BY <1>1, <1>2, <1>3, CancelledShape
<1>5. stops' \in 0..MaxStops  BY <1>1, ShapeParts, BoundsAssumption
<1>6. boot = [keep |-> {}, orphaned |-> {}]  BY <1>1, ShapeParts
<1> QED  BY <1>1, <1>4, <1>5, <1>6, ShapeParts, ShapeWhole

LEMMA DeadlineShape ==
    ASSUME ShapeInv, NEW p \in Procs, DrainDeadline(p)
    PROVE  ShapeInv'
<1>1. /\ orch = "draining"
      /\ proc' = [proc EXCEPT ![p] = AfterCancel(proc[p], TRUE)]
      /\ UNCHANGED <<issue, job, launch, ckpt, input, byJob, orch, boot, stops>>
  BY ShapeParts DEF DrainDeadline
<1>2. IsTask(p)
  <2>1. PICK j \in Jobs : byJob[j] = p  BY DEF DrainDeadline
  <2> QED  BY <2>1, ShapeParts, BoundsAssumption DEF Registered, IsTask, Procs
<1>3. /\ AfterCancel(proc[p], TRUE) \in Coroutines /\ HasItsJob(AfterCancel(proc[p], TRUE), job)
      /\ AfterCancel(proc[p], TRUE).kind = proc[p].kind /\ AfterCancel(proc[p], TRUE).job = proc[p].job
  BY <1>2, ShapeParts, AfterCancelFields, AfterCancelShape
<1> QED  BY <1>1, <1>2, <1>3, PlacedShape DEF IsTask

LEMMA EndShape ==
    ASSUME ShapeInv, ProcessEnds, stops' \in 0..MaxStops, {"crash", "drain"} \cap Faults # {}
    PROVE  ShapeInv'
<1>1. /\ orch' = "down" /\ boot' = [keep |-> {}, orphaned |-> {}]
      /\ proc' = [p \in Procs |-> Idle] /\ byJob' = [j \in Jobs |-> 0]
      /\ UNCHANGED <<issue, job, launch, ckpt, input>>
  BY DEF ProcessEnds
<1>2. /\ proc' \in [Procs -> Coroutines]
      /\ \A p \in Procs : HasItsJob(proc'[p], job')
      /\ Registered(proc', byJob')
  BY <1>1, IdleFields, IdleHasItsJob DEF Registered
<1>3. byJob' \in [Jobs -> 0..MaxProcs]  BY <1>1, BoundsAssumption
<1>4. boot' \in [keep: SUBSET Jobs, orphaned: SUBSET Jobs] /\ boot'.keep = {}  BY <1>1
<1> QED  BY <1>1, <1>2, <1>3, <1>4, ShapeParts, ShapeWhole

LEMMA BootDecideShape ==
    ASSUME ShapeInv, BootDecide
    PROVE  ShapeInv'
<1>1. PICK keep \in SUBSET {j \in Jobs : Recoverable(j)} :
         /\ boot' = [keep |-> keep, orphaned |-> {j \in Jobs : job[j] \in InFlightStatuses} \ keep]
         /\ job' = [j \in Jobs |-> IF j \in {i \in Jobs : job[i] \in InFlightStatuses} \ keep
                                   THEN "failed" ELSE job[j]]
  BY DEF BootDecide
<1>2. /\ orch = "down" /\ orch' = "booting"
      /\ UNCHANGED <<issue, launch, ckpt, input, proc, byJob, stops>>
  BY DEF BootDecide
<1>3. \A p \in Procs : proc[p] = Idle  BY <1>2, ShapeParts
<1>4. job' \in [Jobs -> JobStatuses \cup {"absent"}] /\ \A j \in Jobs : job[j] # "absent" => job'[j] # "absent"
  BY <1>1, ShapeParts DEF JobStatuses, TerminalStatuses
<1>5. /\ boot' \in [keep: SUBSET Jobs, orphaned: SUBSET Jobs]
      /\ \A j \in boot'.keep : job'[j] \in InFlightStatuses
  <2>1. boot'.keep = keep  BY <1>1
  <2>2. \A j \in keep : job[j] \in InFlightStatuses /\ job'[j] = job[j]
    BY <1>1 DEF Recoverable, Resumable, InFlightStatuses
  <2> QED  BY <1>1, <2>1, <2>2
<1>6. \A p \in Procs : HasItsJob(proc'[p], job')  BY <1>2, <1>3, IdleHasItsJob
<1>7. Registered(proc', byJob')  BY <1>2, ShapeParts DEF Registered
<1>8. \A j \in Jobs : input'[j] # <<>> => job'[j] # "absent"  BY <1>2, <1>4, ShapeParts
<1> QED  BY <1>2, <1>3, <1>4, <1>5, <1>6, <1>7, <1>8, ShapeParts, ShapeWhole

LEMMA BootStartShape ==
    ASSUME ShapeInv, BootStart
    PROVE  ShapeInv'
<1> DEFINE task == [p \in Procs |-> Coroutine("slot", IF Resumable(p) THEN "restart" ELSE "fresh", p)]
<1>1. /\ orch = "booting" /\ orch' = "up" /\ boot' = [keep |-> {}, orphaned |-> {}]
      /\ issue' = IF boot.orphaned # {} /\ issue \in {"triaging", "awaiting_input"} THEN "open" ELSE issue
      /\ input' = [j \in Jobs |-> IF job[j] \in {"awaiting_input", "paused"} THEN input[j] ELSE <<>>]
      /\ proc' = [p \in Procs |-> IF p \notin boot.keep THEN Idle ELSE task[p]]
      /\ byJob' = [j \in Jobs |-> IF j \in boot.keep THEN j ELSE 0]
      /\ UNCHANGED <<job, launch, ckpt, stops>>
  BY DEF BootStart
<1>2. boot.keep \subseteq Jobs /\ Jobs \subseteq Procs /\ \A j \in boot.keep : job[j] # "absent"
  <2>1. MaxJobs <= MaxProcs  BY <1>1, ShapeParts, BoundsAssumption
  <2> QED  BY <2>1, ShapeParts, BoundsAssumption, StatusNames DEF Jobs, Procs
<1>3. \A p \in boot.keep : /\ task[p] \in Coroutines /\ HasItsJob(task[p], job)
                           /\ task[p].kind \in TaskKinds /\ task[p].job = p
  <2> SUFFICES ASSUME NEW p \in boot.keep
               PROVE  /\ task[p] \in Coroutines /\ HasItsJob(task[p], job)
                      /\ task[p].kind \in TaskKinds /\ task[p].job = p
    OBVIOUS
  <2> DEFINE kind == IF Resumable(p) THEN "restart" ELSE "fresh"
  <2>1. kind \in TaskKinds /\ "slot" \in PCs /\ p \in 0..MaxJobs /\ p # 0 /\ p \in Procs
    BY <1>2 DEF TaskKinds, PCs, Jobs
  <2>2. task[p] = Coroutine("slot", kind, p)  BY <2>1
  <2> HIDE DEF kind, task
  <2>3. task[p] \in Coroutines /\ task[p].pc = "slot" /\ task[p].kind = kind /\ task[p].job = p
    BY <2>1, <2>2, NewCoroutine
  <2>4. HasItsJob(task[p], job)
    BY <1>2, <2>1, <2>3 DEF HasItsJob, TaskKinds, RequestKinds, RequestPCs
  <2> QED  BY <2>1, <2>3, <2>4
<1> HIDE DEF task
<1>4. \A p \in Procs : proc'[p] \in Coroutines /\ HasItsJob(proc'[p], job)
  BY <1>1, <1>3, IdleFields, IdleHasItsJob
<1>5. proc' \in [Procs -> Coroutines]  BY <1>1, <1>4
<1>6. Registered(proc', byJob')
  <2>1. \A j \in Jobs : byJob'[j] # 0 => j \in boot.keep /\ byJob'[j] = j  BY <1>1
  <2>2. \A j \in boot.keep : proc'[j] = task[j]  BY <1>1, <1>2
  <2> QED  BY <2>1, <2>2, <1>3 DEF Registered
<1>7. byJob' \in [Jobs -> 0..MaxProcs]
  <2>1. Jobs \subseteq 0..MaxProcs \/ boot.keep = {}  BY <1>2, BoundsAssumption DEF Procs
  <2>2. 0 \in 0..MaxProcs  BY BoundsAssumption
  <2> QED  BY <1>1, <2>1, <2>2
<1>8. input' \in [Jobs -> Seq({"pending", "answered"})] /\ \A j \in Jobs : input'[j] # <<>> => job'[j] # "absent"
  BY <1>1, ShapeParts
<1>9. issue' \in IssueStatuses  BY <1>1, ShapeParts DEF IssueStatuses
<1>10. boot' \in [keep: SUBSET Jobs, orphaned: SUBSET Jobs] /\ boot'.keep = {}  BY <1>1
<1> QED  BY <1>1, <1>4, <1>5, <1>6, <1>7, <1>8, <1>9, <1>10, ShapeParts, ShapeWhole

LEMMA ProcessShape ==
    ASSUME ShapeInv, Process
    PROVE  ShapeInv'
<1>1. CASE Drain  BY <1>1, DrainShape
<1>2. CASE Exit
  <2>1. ProcessEnds /\ stops' = stops /\ orch # "up"  BY <1>2 DEF Exit
  <2> QED  BY <2>1, ShapeParts, EndShape
<1>3. CASE Crash
  <2>1. ProcessEnds /\ stops' = stops + 1 /\ stops < MaxStops /\ "crash" \in Faults  BY <1>3 DEF Crash
  <2> QED  BY <2>1, ShapeParts, BoundsAssumption, EndShape
<1>4. CASE BootDecide  BY <1>4, BootDecideShape
<1>5. CASE BootStart  BY <1>5, BootStartShape
<1> QED  BY <1>1, <1>2, <1>3, <1>4, <1>5 DEF Process

LEMMA DispatchShape ==
    ASSUME ShapeInv, NEW p \in Procs, Dispatch(p)
    PROVE  ShapeInv'
<1>1. CASE ClaimIssue(p)
  <2>1. proc[p].pc \in DispatchPCs  BY <1>1 DEF ClaimIssue, UpdateIssue, At, DispatchPCs
  <2>2. MayGo(p, "exec") /\ MayGo(p, Raised(p))  BY <2>1, DispatchMay DEF DispatchPCs
  <2> QED  BY <1>1, <2>2, UpdateIssueShape DEF ClaimIssue
<1>2. CASE Exec(p)
  <2>1. Step(p, "exec", "rollback") \/ Step(p, "exec", "create")  BY <1>2 DEF Exec
  <2>2. proc[p].pc \in DispatchPCs  BY <2>1 DEF Step, At, DispatchPCs
  <2>3. MayGo(p, "rollback") /\ MayGo(p, "create")  BY <2>2, DispatchMay DEF DispatchPCs
  <2> QED  BY <2>1, <2>3, StepShape
<1>3. CASE Create(p)  BY <1>3, CreateShape
<1>4. CASE Track(p)  BY <1>4, TrackShape
<1>5. CASE Rollback(p)
  <2>1. proc[p].pc \in DispatchPCs  BY <1>5 DEF Rollback, UpdateIssue, At, DispatchPCs
  <2>2. MayGo(p, IF IsTask(p) THEN "unwind" ELSE "idle") /\ MayGo(p, Raised(p))  BY <2>1, DispatchMay
  <2> QED  BY <1>5, <2>2, UpdateIssueShape DEF Rollback
<1> QED  BY <1>1, <1>2, <1>3, <1>4, <1>5 DEF Dispatch

\* The named steps of a task that only move it, write a row or purge.
LEMMA TaskMay ==
    ASSUME ShapeInv, NEW p \in Procs, proc[p].pc \in TaskPCs
    PROVE  \A pc \in {"unwind", "slot", "gate", "stream", "start", "refuse_job", "refuse_issue",
                      "fail_job", "prior_issue", "resume_job", "resume_issue", "putback_job",
                      "putback_issue", "nodes", "asking", "auto_job", "pause_job", "pause_issue",
                      "claim_issue", "finish_issue", "finish_purge", "fail_issue", "fail_purge"} : MayGo(p, pc)
BY TasksAlone DEF TaskPCs, PCs, RequestPCs, DispatchPCs
LEMMA BeforeTheRunShape ==
    ASSUME ShapeInv, NEW p \in Procs, BeforeTheRun(p)
    PROVE  ShapeInv'
<1>1. CASE Launch(p)  BY <1>1, LaunchShape
<1>2. CASE TakeSlot(p)
  <2>1. proc[p].pc \in TaskPCs
    BY <1>2 DEF TakeSlot, Step, At, TaskPCs, PCs, RequestPCs, DispatchPCs
  <2>2. MayGo(p, IF proc[p].kind = "fresh" THEN "gate" ELSE "stream")  BY <2>1, TaskMay
  <2> QED  BY <1>2, <2>2, StepShape DEF TakeSlot
<1>3. CASE Gate(p)
  <2>1. proc[p].pc \in TaskPCs
    BY <1>3 DEF Gate, Step, At, TaskPCs, PCs, RequestPCs, DispatchPCs
  <2>2. MayGo(p, "start") /\ MayGo(p, "refuse_job") /\ MayGo(p, "fail_job")  BY <2>1, TaskMay
  <2> QED  BY <1>3, <2>2, StepShape DEF Gate
<1>4. CASE RefuseJob(p)
  <2>1. proc[p].pc \in TaskPCs
    BY <1>4 DEF RefuseJob, UpdateJobBy, At, TaskPCs, PCs, RequestPCs, DispatchPCs
  <2>2. MayGo(p, "refuse_issue")  BY <2>1, TaskMay
  <2> QED  BY <1>4, <2>2, UpdateJobShape DEF RefuseJob, JobWrites, AllJobMoves
<1>5. CASE RefuseIssue(p)
  <2>1. proc[p].pc \in TaskPCs
    BY <1>5 DEF RefuseIssue, UpdateIssue, At, TaskPCs, PCs, RequestPCs, DispatchPCs
  <2>2. MayGo(p, "unwind")  BY <2>1, TaskMay
  <2> QED  BY <1>5, <2>2, UpdateIssueShape DEF RefuseIssue
<1>6. CASE Start(p)
  <2>1. proc[p].pc \in TaskPCs
    BY <1>6 DEF Start, UpdateJob, UpdateJobBy, At, TaskPCs, PCs, RequestPCs, DispatchPCs
  <2>2. MayGo(p, "stream") /\ MayGo(p, "fail_job")  BY <2>1, TaskMay
  <2> QED  BY <1>6, <2>2, UpdateJobShape DEF Start, UpdateJob, JobWrites, AllJobMoves
<1>7. CASE KeepPrior(p)  BY <1>7, KeepPriorShape
<1>8. CASE ResumeJob(p)
  <2>1. proc[p].pc \in TaskPCs
    BY <1>8 DEF ResumeJob, UpdateJob, UpdateJobBy, At, TaskPCs, PCs, RequestPCs, DispatchPCs
  <2>2. MayGo(p, "resume_issue") /\ MayGo(p, "fail_job")  BY <2>1, TaskMay
  <2> QED  BY <1>8, <2>2, UpdateJobShape DEF ResumeJob, UpdateJob, JobWrites, AllJobMoves
<1>9. CASE ResumeIssue(p)
  <2>1. proc[p].pc \in TaskPCs
    BY <1>9 DEF ResumeIssue, UpdateIssue, At, TaskPCs, PCs, RequestPCs, DispatchPCs
  <2>2. MayGo(p, "slot") /\ MayGo(p, "fail_job")  BY <2>1, TaskMay
  <2> QED  BY <1>9, <2>2, UpdateIssueShape DEF ResumeIssue
<1>10. CASE ReenrollFails(p)  BY <1>10, ReenrollShape
<1>11. CASE PutBackJob(p)
  <2>1. proc[p].pc \in TaskPCs
    BY <1>11 DEF PutBackJob, UpdateJob, UpdateJobBy, At, TaskPCs, PCs, RequestPCs, DispatchPCs
  <2>2. MayGo(p, "putback_issue") /\ MayGo(p, PutBackRaised(p))  BY <2>1, TaskMay DEF PutBackRaised
  <2> QED  BY <1>11, <2>2, UpdateJobShape DEF PutBackJob, UpdateJob, JobWrites, AllJobMoves
<1>12. CASE PutBackIssue(p)
  <2>1. proc[p].pc \in TaskPCs
    BY <1>12 DEF PutBackIssue, UpdateIssue, At, TaskPCs, PCs, RequestPCs, DispatchPCs
  <2>2. MayGo(p, "unwind") /\ MayGo(p, PutBackRaised(p))  BY <2>1, TaskMay DEF PutBackRaised
  <2> QED  BY <1>12, <2>2, UpdateIssueShape DEF PutBackIssue
<1> QED  BY <1>1, <1>2, <1>3, <1>4, <1>5, <1>6, <1>7, <1>8, <1>9, <1>10, <1>11, <1>12 DEF BeforeTheRun

LEMMA TheRunShape ==
    ASSUME ShapeInv, NEW p \in Procs, TheRun(p)
    PROVE  ShapeInv'
<1>1. CASE EnterStream(p)  BY <1>1, EnterStreamShape
<1>2. CASE Ask(p)
  <2>1. proc[p].pc \in TaskPCs
    BY <1>2 DEF Ask, Reaches, At, TaskPCs, PCs, RequestPCs, DispatchPCs
  <2>2. MayGo(p, NextOrDrained("asking"))  BY <2>1, TaskMay DEF NextOrDrained
  <2> QED  BY <1>2, <2>2, ReachesShape DEF Ask, Checkpoints
<1>3. CASE AskNothing(p)
  <2>1. proc[p].pc \in TaskPCs
    BY <1>3 DEF AskNothing, Reaches, At, TaskPCs, PCs, RequestPCs, DispatchPCs
  <2>2. MayGo(p, NextOrDrained("auto_job"))  BY <2>1, TaskMay DEF NextOrDrained
  <2> QED  BY <1>3, <2>2, ReachesShape DEF AskNothing, Checkpoints
<1>4. CASE GetStuck(p)
  <2>1. proc[p].pc \in TaskPCs
    BY <1>4 DEF GetStuck, Reaches, At, TaskPCs, PCs, RequestPCs, DispatchPCs
  <2>2. MayGo(p, NextOrDrained("pause_job"))  BY <2>1, TaskMay DEF NextOrDrained
  <2> QED  BY <1>4, <2>2, ReachesShape DEF GetStuck, Checkpoints
<1>5. CASE EndRun(p)  BY <1>5, EndRunShape
<1>6. CASE Raise(p)
  <2>1. proc[p].pc \in TaskPCs
    BY <1>6 DEF Raise, Step, At, TaskPCs, PCs, RequestPCs, DispatchPCs
  <2>2. MayGo(p, "fail_job")  BY <2>1, TaskMay
  <2> QED  BY <1>6, <2>2, StepShape DEF Raise
<1>7. CASE PauseJob(p)
  <2>1. proc[p].pc \in TaskPCs
    BY <1>7 DEF PauseJob, UpdateJob, UpdateJobBy, At, TaskPCs, PCs, RequestPCs, DispatchPCs
  <2>2. MayGo(p, "pause_issue") /\ MayGo(p, "fail_job")  BY <2>1, TaskMay
  <2> QED  BY <1>7, <2>2, UpdateJobShape DEF PauseJob, UpdateJob, JobWrites, AllJobMoves
<1>8. CASE PauseIssue(p)
  <2>1. proc[p].pc \in TaskPCs
    BY <1>8 DEF PauseIssue, UpdateIssue, At, TaskPCs, PCs, RequestPCs, DispatchPCs
  <2>2. MayGo(p, "unwind") /\ MayGo(p, "fail_job")  BY <2>1, TaskMay
  <2> QED  BY <1>8, <2>2, UpdateIssueShape DEF PauseIssue
<1>9. CASE Asking(p)  BY <1>9, AskingShape
<1>10. CASE AutoJob(p)
  <2>1. proc[p].pc \in TaskPCs
    BY <1>10 DEF AutoJob, UpdateJob, UpdateJobBy, At, TaskPCs, PCs, RequestPCs, DispatchPCs
  <2>2. MayGo(p, "claim_issue") /\ MayGo(p, "finish_issue") /\ MayGo(p, "fail_job")  BY <2>1, TaskMay
  <2>3. \/ UpdateJobBy(JobMoves, p, "auto_job", "completed", "claim_issue", "fail_job")
        \/ UpdateJobBy(JobMoves, p, "auto_job", "failed", "finish_issue", "fail_job")
    BY <1>10 DEF AutoJob, UpdateJob
  <2> QED  BY <2>2, <2>3, UpdateJobShape DEF JobWrites, AllJobMoves
<1>11. CASE FinishJob(p)
  <2>1. proc[p].pc \in TaskPCs
    BY <1>11 DEF FinishJob, UpdateJob, UpdateJobBy, At, TaskPCs, PCs, RequestPCs, DispatchPCs
  <2>2. MayGo(p, IF proc[p].ending = "split" THEN "finish_issue" ELSE "finish_purge") /\ MayGo(p, "fail_job")  BY <2>1, TaskMay
  <2> QED  BY <1>11, <2>2, UpdateJobShape DEF FinishJob, UpdateJob, JobWrites, AllJobMoves
<1>12. CASE FinishPurge(p)
  <2>1. proc[p].pc \in TaskPCs
    BY <1>12 DEF FinishPurge, Purge, At, TaskPCs, PCs, RequestPCs, DispatchPCs
  <2>2. MayGo(p, "finish_issue")  BY <2>1, TaskMay
  <2> QED  BY <1>12, <2>2, PurgeShape DEF FinishPurge
<1>13. CASE FinishIssue(p)
  <2>1. proc[p].pc \in TaskPCs
    BY <1>13 DEF FinishIssue, UpdateIssue, At, TaskPCs, PCs, RequestPCs, DispatchPCs
  <2>2. MayGo(p, "unwind") /\ MayGo(p, "fail_job")  BY <2>1, TaskMay
  <2> QED  BY <1>13, <2>2, UpdateIssueShape DEF FinishIssue
<1>14. CASE FailJob(p)
  <2>1. proc[p].pc \in TaskPCs
    BY <1>14 DEF FailJob, UpdateJob, UpdateJobBy, At, TaskPCs, PCs, RequestPCs, DispatchPCs
  <2>2. MayGo(p, "fail_issue") /\ MayGo(p, "unwind")  BY <2>1, TaskMay
  <2> QED  BY <1>14, <2>2, UpdateJobShape DEF FailJob, UpdateJob, JobWrites, AllJobMoves
<1>15. CASE FailIssue(p)
  <2>1. proc[p].pc \in TaskPCs
    BY <1>15 DEF FailIssue, UpdateIssue, At, TaskPCs, PCs, RequestPCs, DispatchPCs
  <2>2. MayGo(p, IF proc[p].kind = "fresh" THEN "fail_purge" ELSE "unwind") /\ MayGo(p, "unwind")  BY <2>1, TaskMay
  <2> QED  BY <1>15, <2>2, UpdateIssueShape DEF FailIssue
<1>16. CASE FailPurge(p)
  <2>1. proc[p].pc \in TaskPCs
    BY <1>16 DEF FailPurge, Purge, At, TaskPCs, PCs, RequestPCs, DispatchPCs
  <2>2. MayGo(p, "unwind")  BY <2>1, TaskMay
  <2> QED  BY <1>16, <2>2, PurgeShape DEF FailPurge
<1>17. CASE Unwind(p)  BY <1>17, UnwindShape
<1> QED  BY <1>1, <1>2, <1>3, <1>4, <1>5, <1>6, <1>7, <1>8, <1>9, <1>10, <1>11, <1>12, <1>13, <1>14, <1>15, <1>16, <1>17 DEF TheRun

LEMMA ReplyShape ==
    ASSUME ShapeInv, NEW p \in Procs, Reply(p)
    PROVE  ShapeInv'
<1>1. CASE Record(p)  BY <1>1, RecordShape
<1>2. CASE CountPending(p)
  <2>1. proc[p].pc \in RequestPCs /\ (proc[p].pc \notin JoblessPCs => proc[p].job # 0)
    <3>1. proc[p].pc \in RequestPCs  BY <1>2 DEF CountPending, Step, At, RequestPCs
    <3> QED  BY <3>1, AtWork DEF RequestPCs, Jobs
  <2>2. MayGo(p, "guard") /\ MayGo(p, "idle")
    <3> QED  BY <2>1, RequestMay DEF RequestPCs, JoblessPCs
  <2> QED  BY <1>2, <2>2, StepShape DEF CountPending
<1>3. CASE Guard(p)
  <2>1. proc[p].pc \in RequestPCs /\ (proc[p].pc \notin JoblessPCs => proc[p].job # 0)
    <3>1. proc[p].pc \in RequestPCs  BY <1>3 DEF Guard, Step, At, RequestPCs
    <3> QED  BY <3>1, AtWork DEF RequestPCs, Jobs
  <2>2. MayGo(p, IF proc[p].channel = "job" THEN IF job[proc[p].job] = "awaiting_input" THEN "resume" ELSE "idle" ELSE IF issue = "awaiting_input" THEN "find" ELSE "idle")
    <3>1. proc[p].channel = "job" => proc[p].job # 0  BY <2>1, AtWork DEF RequestPCs, Jobs
    <3> QED  BY <2>1, <3>1, RequestMay DEF RequestPCs, JoblessPCs
  <2> QED  BY <1>3, <2>2, StepShape DEF Guard
<1>4. CASE Resume(p)  BY <1>4, ResumeShape
<1>5. CASE Find(p)  BY <1>5, FindShape
<1> QED  BY <1>1, <1>2, <1>3, <1>4, <1>5 DEF Reply

LEMMA CancelShape ==
    ASSUME ShapeInv, NEW p \in Procs, Cancel(p)
    PROVE  ShapeInv'
<1>1. CASE CancelTask(p)  BY <1>1, CancelTaskShape
<1>2. CASE CancelWait(p)
  <2>1. proc[p].pc \in RequestPCs /\ (proc[p].pc \notin JoblessPCs => proc[p].job # 0)
    <3>1. proc[p].pc \in RequestPCs  BY <1>2 DEF CancelWait, Step, At, RequestPCs
    <3> QED  BY <3>1, AtWork DEF RequestPCs, Jobs
  <2>2. MayGo(p, "cancel_recheck") /\ MayGo(p, "cancel_job")
    <3>1. proc[p].pc \notin JoblessPCs  BY <1>2 DEF CancelWait, Step, At, JoblessPCs
    <3> QED  BY <2>1, <3>1, RequestMay DEF RequestPCs, JoblessPCs
  <2> QED  BY <1>2, <2>2, StepShape DEF CancelWait
<1>3. CASE CancelRecheck(p)
  <2>1. proc[p].pc \in RequestPCs /\ (proc[p].pc \notin JoblessPCs => proc[p].job # 0)
    <3>1. proc[p].pc \in RequestPCs  BY <1>3 DEF CancelRecheck, Step, At, RequestPCs
    <3> QED  BY <3>1, AtWork DEF RequestPCs, Jobs
  <2>2. MayGo(p, "idle") /\ MayGo(p, "cancel_job")
    <3>1. proc[p].pc \notin JoblessPCs  BY <1>3 DEF CancelRecheck, Step, At, JoblessPCs
    <3> QED  BY <2>1, <3>1, RequestMay DEF RequestPCs, JoblessPCs
  <2> QED  BY <1>3, <2>2, StepShape DEF CancelRecheck
<1>4. CASE CancelJob(p)
  <2>1. proc[p].pc \in RequestPCs /\ (proc[p].pc \notin JoblessPCs => proc[p].job # 0)
    <3>1. proc[p].pc \in RequestPCs  BY <1>4 DEF CancelJob, UpdateJob, UpdateJobBy, At, RequestPCs
    <3> QED  BY <3>1, AtWork DEF RequestPCs, Jobs
  <2>2. MayGo(p, "cancel_issue")
    <3>1. proc[p].pc \notin JoblessPCs  BY <1>4 DEF CancelJob, UpdateJob, UpdateJobBy, At, JoblessPCs
    <3> QED  BY <2>1, <3>1, RequestMay DEF RequestPCs, JoblessPCs
  <2> QED  BY <1>4, <2>2, UpdateJobShape DEF CancelJob, UpdateJob, JobWrites
<1>5. CASE CancelIssue(p)
  <2>1. proc[p].pc \in RequestPCs /\ (proc[p].pc \notin JoblessPCs => proc[p].job # 0)
    <3>1. proc[p].pc \in RequestPCs  BY <1>5 DEF CancelIssue, UpdateIssue, At, RequestPCs
    <3> QED  BY <3>1, AtWork DEF RequestPCs, Jobs
  <2>2. MayGo(p, "cancel_purge")
    <3>1. proc[p].pc \notin JoblessPCs  BY <1>5 DEF CancelIssue, UpdateIssue, At, JoblessPCs
    <3> QED  BY <2>1, <3>1, RequestMay DEF RequestPCs, JoblessPCs
  <2> QED  BY <1>5, <2>2, UpdateIssueShape DEF CancelIssue
<1>6. CASE CancelPurge(p)
  <2>1. proc[p].pc \in RequestPCs /\ (proc[p].pc \notin JoblessPCs => proc[p].job # 0)
    <3>1. proc[p].pc \in RequestPCs  BY <1>6 DEF CancelPurge, Purge, At, RequestPCs
    <3> QED  BY <3>1, AtWork DEF RequestPCs, Jobs
  <2>2. MayGo(p, "idle")
    <3>1. proc[p].pc \notin JoblessPCs  BY <1>6 DEF CancelPurge, Purge, At, JoblessPCs
    <3> QED  BY <2>1, <3>1, RequestMay DEF RequestPCs, JoblessPCs
  <2> QED  BY <1>6, <2>2, PurgeShape DEF CancelPurge
<1> QED  BY <1>1, <1>2, <1>3, <1>4, <1>5, <1>6 DEF Cancel

LEMMA BeginShape ==
    ASSUME ShapeInv, NEW p \in Procs, NEW kind, NEW c \in Coroutines, Begin(p, kind, c), HasItsJob(c, job)
    PROVE  ShapeInv'
<1>1. /\ orch = "up" /\ proc[p] = Idle /\ proc' = [proc EXCEPT ![p] = c]
      /\ UNCHANGED <<issue, job, launch, ckpt, input, byJob, orch, boot, stops>>
  BY DEF Begin
<1>2. ~IsTask(p)  BY <1>1, IdleFields DEF IsTask, TaskKinds
<1> QED  BY <1>1, <1>2, PlacedShape

LEMMA ArrivalShape ==
    ASSUME ShapeInv, NEW p \in Procs, Arrival(p)
    PROVE  ShapeInv'
<1>0. /\ 0 \in 0..MaxJobs /\ Jobs \subseteq 0..MaxJobs /\ \A j \in Jobs : j # 0
      /\ {"claim_issue", "continue", "record", "count", "cancel_task"} \subseteq PCs
  BY BoundsAssumption DEF Jobs, PCs
<1>1. CASE BeginTriage(p)
  <2> DEFINE c == Coroutine("claim_issue", "triage", 0)
  <2>1. /\ c \in Coroutines /\ c.pc = "claim_issue" /\ c.kind = "triage" /\ c.job = 0 /\ c.channel = "none"
    BY <1>0, NewCoroutine DEF RequestKinds
  <2>2. Begin(p, "triage", c)  BY <1>1 DEF BeginTriage
  <2> HIDE DEF c
  <2>3. HasItsJob(c, job)  BY <2>1 DEF HasItsJob, JoblessPCs, DispatchPCs, TaskKinds
  <2> QED  BY <2>1, <2>2, <2>3, BeginShape
<1>2. CASE BeginContinue(p)
  <2>1. PICK j \in Jobs : job[j] = "paused" /\ Begin(p, "continue", Coroutine("continue", "continue", j))
    BY <1>2 DEF BeginContinue
  <2> DEFINE c == Coroutine("continue", "continue", j)
  <2>2. /\ c \in Coroutines /\ c.pc = "continue" /\ c.kind = "continue" /\ c.job = j
    BY <1>0, NewCoroutine DEF RequestKinds
  <2> HIDE DEF c
  <2>3. HasItsJob(c, job)  BY <1>0, <2>1, <2>2 DEF HasItsJob, RequestPCs, TaskKinds
  <2>4. Begin(p, "continue", c)  BY <2>1 DEF c
  <2> QED  BY <2>2, <2>3, <2>4, BeginShape
<1>3. CASE BeginReply(p)
  <2>1. PICK j \in Jobs, ch \in Channels : \E n \in DOMAIN input[j] :
          Begin(p, "reply", [Coroutine("record", "reply", j) EXCEPT !.channel = ch, !.number = n])
    BY <1>3 DEF BeginReply
  <2>2. PICK n \in DOMAIN input[j] :
          Begin(p, "reply", [Coroutine("record", "reply", j) EXCEPT !.channel = ch, !.number = n])
    BY <2>1
  <2>3. n \in Nat /\ input[j] # <<>>
    <3>1. input[j] \in Seq({"pending", "answered"})  BY ShapeParts
    <3> QED  BY <2>2, <3>1
  <2> DEFINE c == [Coroutine("record", "reply", j) EXCEPT !.channel = ch, !.number = n]
  <2>4. /\ c \in Coroutines /\ c.pc = "record" /\ c.kind = "reply" /\ c.job = j
    <3>1. Coroutine("record", "reply", j) \in Coroutines /\ Coroutine("record", "reply", j).pc = "record"
          /\ Coroutine("record", "reply", j).kind = "reply" /\ Coroutine("record", "reply", j).job = j
      <4>1. "record" \in PCs /\ "reply" \in RequestKinds \cup TaskKinds /\ j \in 0..MaxJobs
        BY <1>0 DEF RequestKinds
      <4> QED  BY <4>1, NewCoroutine
    <3> QED  BY <2>3, <3>1 DEF Coroutines
  <2> HIDE DEF c
  <2>5. job[j] # "absent"  BY <2>3, ShapeParts
  <2>6. HasItsJob(c, job)  BY <1>0, <2>4, <2>5 DEF HasItsJob, RequestPCs, TaskKinds
  <2>7. Begin(p, "reply", c)  BY <2>2 DEF c
  <2> QED  BY <2>4, <2>6, <2>7, BeginShape
<1>4. CASE BeginComment(p)
  <2> DEFINE c == [Coroutine("count", "comment", 0) EXCEPT !.channel = "inbound"]
  <2>1. /\ c \in Coroutines /\ c.pc = "count" /\ c.kind = "comment" /\ c.job = 0 /\ c.channel = "inbound"
    <3>1. Coroutine("count", "comment", 0) \in Coroutines /\ Coroutine("count", "comment", 0).pc = "count"
          /\ Coroutine("count", "comment", 0).kind = "comment" /\ Coroutine("count", "comment", 0).job = 0
      BY <1>0, NewCoroutine DEF RequestKinds
    <3> QED  BY <3>1 DEF Coroutines
  <2>2. Begin(p, "comment", c)  BY <1>4 DEF BeginComment
  <2> HIDE DEF c
  <2>3. HasItsJob(c, job)  BY <2>1 DEF HasItsJob, JoblessPCs, RequestPCs, TaskKinds
  <2> QED  BY <2>1, <2>2, <2>3, BeginShape
<1>5. CASE BeginCancel(p)
  <2>1. PICK j \in Jobs : job[j] \in ActiveStatuses /\ Begin(p, "cancel", Coroutine("cancel_task", "cancel", j))
    BY <1>5 DEF BeginCancel
  <2> DEFINE c == Coroutine("cancel_task", "cancel", j)
  <2>2. /\ c \in Coroutines /\ c.pc = "cancel_task" /\ c.kind = "cancel" /\ c.job = j
    BY <1>0, NewCoroutine DEF RequestKinds
  <2> HIDE DEF c
  <2>3. HasItsJob(c, job)  BY <1>0, <2>1, <2>2, StatusNames DEF HasItsJob, RequestPCs, TaskKinds
  <2>4. Begin(p, "cancel", c)  BY <2>1 DEF c
  <2> QED  BY <2>2, <2>3, <2>4, BeginShape
<1> QED  BY <1>1, <1>2, <1>3, <1>4, <1>5 DEF Arrival

LEMMA WorkShape ==
    ASSUME ShapeInv, NEW p \in Procs, Work(p)
    PROVE  ShapeInv'
BY ReadStatusShape, DispatchShape, BeforeTheRunShape, TheRunShape, ContinueShape, ReplyShape, CancelShape
   DEF Work

LEMMA ShapeInit == Init => ShapeInv
<1> SUFFICES ASSUME Init PROVE ShapeInv
  OBVIOUS
<1>1. proc \in [Procs -> Coroutines] /\ \A p \in Procs : HasItsJob(proc[p], job)
  BY IdleFields, IdleHasItsJob DEF Init
<1>2. byJob \in [Jobs -> 0..MaxProcs] /\ Registered(proc, byJob)
  BY BoundsAssumption DEF Init, Registered
<1>3. issue \in IssueStatuses /\ job \in [Jobs -> JobStatuses \cup {"absent"}] /\ launch \in [Jobs -> BOOLEAN]
  BY DEF Init, IssueStatuses
<1>4. ckpt \in [Jobs -> Checkpoints] /\ input \in [Jobs -> Seq({"pending", "answered"})]
  BY DEF Init, Checkpoints
<1>5. stops \in 0..MaxStops /\ orch = "up" /\ boot = [keep |-> {}, orphaned |-> {}]
  BY BoundsAssumption DEF Init
<1>6. boot \in [keep: SUBSET Jobs, orphaned: SUBSET Jobs] /\ boot.keep = {}  BY <1>5
<1>7. \A j \in Jobs : input[j] = <<>>  BY DEF Init
<1> QED  BY <1>1, <1>2, <1>3, <1>4, <1>5, <1>6, <1>7 DEF ShapeInv, TypeOK, Coroutines

LEMMA ShapeStep == ShapeInv /\ [Next]_vars => ShapeInv'
<1> SUFFICES ASSUME ShapeInv, [Next]_vars PROVE ShapeInv'
  OBVIOUS
<1>1. CASE Process  BY <1>1, ProcessShape
<1>2. ASSUME NEW p \in Procs, Work(p) PROVE ShapeInv'  BY <1>2, WorkShape
<1>3. ASSUME NEW p \in Procs, Arrival(p) PROVE ShapeInv'  BY <1>3, ArrivalShape
<1>4. ASSUME NEW p \in Procs, DrainDeadline(p) PROVE ShapeInv'  BY <1>4, DeadlineShape
<1>5. CASE UNCHANGED vars
  BY <1>5 DEF vars, ShapeInv, TypeOK, HasItsJob, Registered, Idle, Coroutine
<1> QED  BY <1>1, <1>2, <1>3, <1>4, <1>5 DEF Next

LEMMA ShapeAlways == Spec => []ShapeInv
BY ShapeInit, ShapeStep, PTL DEF Spec

(***************************************************************************)
(* The rows, checkpoints, questions, coroutines and the registry have      *)
(* their types: no update is ever made of a row that is not there          *)
(* (JobsRepository.update would skip it silently), and a coroutine         *)
(* stands only where its kind can.                                         *)
(***************************************************************************)
THEOREM TypeCorrect == Spec => []TypeOK
<1>1. ShapeInv => TypeOK  BY DEF ShapeInv
<1> QED  BY <1>1, ShapeAlways, PTL

-----------------------------------------------------------------------------
(* The rows of the jobs, and the closing of the issue.                     *)

\* The statuses MergeSync writes: no step of this module does.
PrStatuses == {"pr_merged", "pr_closed"}

\* No step undoes a completion.
KeepsCompleted(before, after) == \A j \in Jobs : before[j] = "completed" => after[j] = "completed"

\* Where a run is once its last node has said how it ended.
Over == {"finish_job", "finish_purge", "finish_issue", "fail_job", "fail_issue", "fail_purge", "unwind"}

(***************************************************************************)
(* What a coroutine may conclude from what it carries: a status it has     *)
(* read it is about to swap, "completed" stays, and a finish with the      *)
(* ending "completed" comes after the job's own terminal write.            *)
(***************************************************************************)
Knows(c, jb) ==
    /\ c.priorJob \notin PrStatuses
    /\ c.priorIssue = "closed" => \E j \in Jobs : jb[j] = "completed"
    /\ c.seen # NoStatus => c.pc \in JobWrites \cup IssueWrites
    /\ c.pc \in JobWrites /\ c.seen = "completed" => jb[c.job] = "completed"
    /\ c.pc \in {"finish_purge", "finish_issue"} /\ c.ending = "completed" => jb[c.job] = "completed"
    /\ c.ending = "completed" => c.pc \in Over

\* ClosedByCompletion with what every step needs to keep it.
ClosedInv ==
    /\ ShapeInv
    /\ \A j \in Jobs : job[j] \notin PrStatuses
    /\ ClosedByCompletion
    /\ \A p \in Procs : Knows(proc[p], job)

\* What TransitionsLegal says of one step and one job, but for its creation.
Legal(j) ==
    \/ job'[j] = job[j]
    \/ <<job[j], job'[j]>> \in JobMoves
    \/ /\ <<job[j], job'[j]>> \in GateRefusal
       /\ \E p \in Procs : At(p, "refuse_job") /\ proc[p].job = j
    \/ orch = "down" /\ job[j] \in InFlightStatuses /\ job'[j] = "failed"

(***************************************************************************)
(* A step that creates no job and lets no coroutine past the guard of      *)
(* execute.                                                                *)
(***************************************************************************)
Ordinary ==
    /\ \A j \in Jobs : Legal(j)
    /\ \A p \in Procs : proc'[p].pc = "create" => proc[p].pc = "create"
    /\ ClosedInv'

LEMMA LegalIsMove ==
    ASSUME NEW j \in Jobs, Legal(j)
    PROVE  JobStep(job[j], job'[j])
<1>1. job[j] \in InFlightStatuses => <<job[j], "failed">> \in AllJobMoves
  BY DEF InFlightStatuses, AllJobMoves, JobMoves, GateRefusal
<1> QED  BY <1>1 DEF Legal, JobStep, AllJobMoves

LEMMA LegalKeepsCompleted ==
    ASSUME \A j \in Jobs : Legal(j) /\ job'[j] \notin PrStatuses
    PROVE  KeepsCompleted(job, job')
<1> SUFFICES ASSUME NEW j \in Jobs, job[j] = "completed" PROVE job'[j] = "completed"
  BY DEF KeepsCompleted
<1>1. JobStep(job[j], job'[j])  BY LegalIsMove
<1> QED  BY <1>1, JobMoveFacts DEF JobStep, PrStatuses

LEMMA KnowsStays ==
    ASSUME NEW c \in Coroutines, NEW jb, NEW ja, Knows(c, jb), KeepsCompleted(jb, ja),
           c.pc # "idle" => c.pc \in JoblessPCs \/ c.job \in Jobs
    PROVE  Knows(c, ja)
<1>1. c.pc \in JobWrites \cup {"finish_purge", "finish_issue"} => c.job \in Jobs
  BY DEF JobWrites, JoblessPCs
<1> QED  BY <1>1 DEF Knows, KeepsCompleted

\* A coroutine that has read no status, and whose run has not ended well.
LEMMA KnowsLittle ==
    ASSUME NEW c, NEW jb, c.seen = NoStatus, c.priorJob \notin PrStatuses, c.priorIssue # "closed",
           c.ending # "completed"
    PROVE  Knows(c, jb)
BY DEF Knows, NoStatus

LEMMA KnowsIdle == ASSUME NEW jb PROVE Knows(Idle, jb)
BY IdleFields, KnowsLittle DEF NoStatus, PrStatuses

LEMMA ClosedParts ==
    ASSUME ClosedInv
    PROVE  /\ ShapeInv
           /\ \A j \in Jobs : job[j] \notin PrStatuses
           /\ issue = "closed" => \E j \in Jobs : job[j] = "completed"
           /\ \A p \in Procs : Knows(proc[p], job)
           /\ \A p \in Procs : proc[p] \in Coroutines
BY ShapeParts DEF ClosedInv, ClosedByCompletion

LEMMA ClosedKnows ==
    ASSUME ClosedInv, NEW p \in Procs, KeepsCompleted(job, job')
    PROVE  Knows(proc[p], job')
<1>1. proc[p] \in Coroutines /\ Knows(proc[p], job)  BY ClosedParts
<1>2. proc[p].pc # "idle" => proc[p].pc \in JoblessPCs \/ proc[p].job \in Jobs  BY ClosedParts, AtWork
<1> QED  BY <1>1, <1>2, KnowsStays

(***************************************************************************)
(* The coroutines know no less than before, the rows make legal moves, and *)
(* an issue that is closed now was closed before or has its completed job. *)
(***************************************************************************)
LEMMA ClosedKept ==
    ASSUME ClosedInv, ShapeInv', KeepsCompleted(job, job'),
           \A q \in Procs : Knows(proc[q], job') => Knows(proc'[q], job'),
           \A j \in Jobs : job'[j] \notin PrStatuses,
           issue' = "closed" => issue = "closed" \/ \E j \in Jobs : job[j] = "completed"
    PROVE  ClosedInv'
<1>1. \A q \in Procs : Knows(proc'[q], job')  BY ClosedKnows
<1>2. issue' = "closed" => \E j \in Jobs : job'[j] = "completed"  BY ClosedParts DEF KeepsCompleted
<1> QED  BY <1>1, <1>2 DEF ClosedInv, ClosedByCompletion

LEMMA OrdinaryKept ==
    ASSUME ClosedInv, ShapeInv',
           \A q \in Procs : proc'[q].pc = "create" => proc[q].pc = "create",
           \A q \in Procs : Knows(proc[q], job') => Knows(proc'[q], job'),
           \A j \in Jobs : Legal(j) /\ job'[j] \notin PrStatuses,
           issue' = "closed" => issue = "closed" \/ \E j \in Jobs : job[j] = "completed"
    PROVE  Ordinary
<1>1. KeepsCompleted(job, job')  BY LegalKeepsCompleted
<1>2. ClosedInv'  BY <1>1, ClosedKept
<1> QED  BY <1>2 DEF Ordinary

\* The same when one coroutine changes.
LEMMA OrdinaryPlace ==
    ASSUME ClosedInv, ShapeInv', NEW p \in Procs, NEW new,
           proc' = [proc EXCEPT ![p] = new],
           new.pc # "create", Knows(new, job'),
           \A j \in Jobs : Legal(j) /\ job'[j] \notin PrStatuses,
           issue' = "closed" => issue = "closed" \/ \E j \in Jobs : job[j] = "completed"
    PROVE  Ordinary
<1>1. proc \in [Procs -> Coroutines]  BY ClosedParts, ShapeParts
<1>2. \A q \in Procs : proc'[q] = (IF q = p THEN new ELSE proc[q])  BY <1>1
<1>3. \A q \in Procs : proc'[q].pc = "create" => proc[q].pc = "create"  BY <1>2
<1>4. \A q \in Procs : Knows(proc[q], job') => Knows(proc'[q], job')  BY <1>2
<1> QED  BY <1>3, <1>4, OrdinaryKept

LEMMA OrdinaryGoto ==
    ASSUME ClosedInv, ShapeInv', NEW p \in Procs, NEW pc, Goto(p, pc), pc # "create",
           proc[p].pc \in Over => pc \in Over \cup {"idle"},
           pc \in {"finish_purge", "finish_issue"} /\ proc[p].ending = "completed"
              => job'[proc[p].job] = "completed",
           \A j \in Jobs : Legal(j) /\ job'[j] \notin PrStatuses,
           issue' = "closed" => issue = "closed" \/ \E j \in Jobs : job[j] = "completed"
    PROVE  Ordinary
<1> DEFINE new == IF pc = "idle" THEN Idle ELSE [proc[p] EXCEPT !.pc = pc, !.seen = NoStatus]
<1>1. proc' = [proc EXCEPT ![p] = new]  BY DEF Goto
<1>2. proc[p] \in Coroutines  BY ClosedParts
<1>3. Knows(proc[p], job')  BY LegalKeepsCompleted, ClosedKnows
<1>4. CASE pc = "idle"
  <2>1. new.pc # "create" /\ Knows(new, job')  BY <1>4, IdleFields, KnowsIdle
  <2> HIDE DEF new
  <2> QED  BY <1>1, <2>1, OrdinaryPlace
<1>5. CASE pc # "idle"
  <2>1. /\ new.pc = pc /\ new.seen = NoStatus /\ new.priorJob = proc[p].priorJob
        /\ new.priorIssue = proc[p].priorIssue /\ new.ending = proc[p].ending /\ new.job = proc[p].job
    BY <1>2, <1>5 DEF Coroutines
  <2> HIDE DEF new
  <2>2. Knows(new, job')  BY <1>3, <1>5, <2>1 DEF Knows, NoStatus
  <2> QED  BY <1>1, <2>1, <2>2, OrdinaryPlace
<1> QED  BY <1>4, <1>5

LEMMA LegalSame == ASSUME ClosedInv, job' = job PROVE \A j \in Jobs : Legal(j) /\ job'[j] \notin PrStatuses
BY ClosedParts DEF Legal


(***************************************************************************)
(* The ordinary steps, by the kind of step they are.                       *)
(***************************************************************************)
Finish == {"finish_purge", "finish_issue"}

LEMMA OrdinaryMove ==
    ASSUME ClosedInv, ShapeInv', NEW p \in Procs, NEW pc, Goto(p, pc), pc # "create",
           proc[p].pc \in Over => pc \in Over \cup {"idle"},
           pc \in Finish => pc = "finish_issue" /\ proc[p].pc = "finish_purge",
           UNCHANGED <<issue, job>>
    PROVE  Ordinary
<1>1. \A j \in Jobs : Legal(j) /\ job'[j] \notin PrStatuses  BY LegalSame
<1>2. pc \in Finish /\ proc[p].ending = "completed" => job'[proc[p].job] = "completed"
  BY ClosedParts DEF Knows, Finish
<1> QED  BY <1>1, <1>2, OrdinaryGoto DEF Finish

LEMMA OrdinaryStep ==
    ASSUME ClosedInv, ShapeInv', NEW p \in Procs, NEW at, NEW pc, Step(p, at, pc),
           pc # "create", pc \notin Finish, at \in Over => pc \in Over \cup {"idle"}
    PROVE  Ordinary
<1>1. Goto(p, pc) /\ UNCHANGED <<issue, job>> /\ proc[p].pc = at  BY DEF Step, At
<1> QED  BY <1>1, OrdinaryMove

LEMMA OrdinaryJob ==
    ASSUME ClosedInv, ShapeInv', NEW p \in Procs, NEW moves \in {JobMoves, AllJobMoves}, NEW at, NEW new,
           NEW next, NEW handler, UpdateJobBy(moves, p, at, new, next, handler),
           at \in JobWrites, new \notin PrStatuses, moves = JobMoves \/ at = "refuse_job",
           next # "create", handler # "create", handler \notin Finish,
           at \in Over => next \in Over \cup {"idle"} /\ handler \in Over \cup {"idle"},
           next \in Finish /\ proc[p].ending = "completed" => new = "completed"
    PROVE  Ordinary
<1> DEFINE mine == proc[p].job
           seen == proc[p].seen
<1>1. /\ proc[p].pc = at /\ seen # NoStatus
      /\ mine \in Jobs
      /\ job' = [job EXCEPT ![mine] = job'[mine]]
      /\ UNCHANGED <<issue, launch, ckpt, input, byJob, orch, boot, stops>>
  BY ClosedParts, UpdateJobRow DEF UpdateJobBy, At
<1>2. job \in [Jobs -> JobStatuses \cup {"absent"}]  BY ClosedParts, ShapeParts
<1>3. job'[mine] = StatusAfter(moves, seen, job[mine], new)
  <2>1. job' = [job EXCEPT ![mine] = StatusAfter(moves, seen, @, new)]  BY DEF UpdateJobBy
  <2> HIDE DEF mine, seen
  <2> QED  BY <1>1, <1>2, <2>1
<1>4. Goto(p, IF UpdateRaises(moves, seen, job[mine], new) THEN handler ELSE next)  BY DEF UpdateJobBy
<1>5. seen = "completed" => job[mine] = "completed"  BY <1>1, ClosedParts DEF Knows
<1> HIDE DEF mine, seen
<1>6. \/ job'[mine] = job[mine]
      \/ job'[mine] = new /\ <<job[mine], new>> \in moves
  BY <1>3, StatusStep
<1>7. Legal(mine) /\ job'[mine] \notin PrStatuses
  <2>1. CASE job'[mine] = job[mine]  BY <1>1, <2>1, ClosedParts DEF Legal
  <2>2. CASE job'[mine] = new /\ <<job[mine], new>> \in moves
    <3>1. moves = JobMoves \/ (at = "refuse_job" /\ <<job[mine], new>> \in JobMoves \cup GateRefusal)
      BY <2>2 DEF AllJobMoves
    <3> QED  BY <1>1, <2>2, <3>1 DEF Legal, At, mine
  <2> QED  BY <1>6, <2>1, <2>2
<1>8. \A j \in Jobs : Legal(j) /\ job'[j] \notin PrStatuses
  <2>1. ASSUME NEW j \in Jobs, j # mine PROVE Legal(j) /\ job'[j] \notin PrStatuses
    <3>1. job'[j] = job[j]  BY <1>1, <1>2, <2>1
    <3> QED  BY <3>1, ClosedParts DEF Legal
  <2> QED  BY <1>7, <2>1
<1>9. CASE UpdateRaises(moves, seen, job[mine], new)
  <2>1. Goto(p, handler)  BY <1>4, <1>9
  <2> QED  BY <1>1, <1>8, <2>1, OrdinaryGoto DEF Finish
<1>10. CASE ~UpdateRaises(moves, seen, job[mine], new)
  <2>1. Goto(p, next)  BY <1>4, <1>10
  <2>2. next \in Finish /\ proc[p].ending = "completed" => job'[mine] = "completed"
    <3>1. new = "completed" => job'[mine] = "completed"  BY <1>3, <1>5, <1>10 DEF StatusAfter
    <3> QED  BY <3>1
  <2> QED  BY <1>1, <1>8, <2>1, <2>2, OrdinaryGoto DEF Finish, mine
<1> QED  BY <1>9, <1>10

LEMMA OrdinaryIssue ==
    ASSUME ClosedInv, ShapeInv', NEW p \in Procs, NEW at, NEW new, NEW next, NEW handler,
           UpdateIssue(p, at, new, next, handler),
           next # "create", handler # "create", next \notin Finish, handler \notin Finish,
           at \in Over => next \in Over \cup {"idle"} /\ handler \in Over \cup {"idle"},
           new = "closed" => \E j \in Jobs : job[j] = "completed"
    PROVE  Ordinary
<1>1. /\ issue' = StatusAfter(IssueMoves, proc[p].seen, issue, new)
      /\ Goto(p, next) \/ Goto(p, handler)
      /\ job' = job /\ proc[p].pc = at
  BY DEF UpdateIssue, At
<1>2. issue' = issue \/ issue' = new  BY <1>1 DEF StatusAfter
<1>3. \A j \in Jobs : Legal(j) /\ job'[j] \notin PrStatuses  BY <1>1, LegalSame
<1> QED  BY <1>1, <1>2, <1>3, OrdinaryGoto DEF Finish

LEMMA OrdinaryPurge ==
    ASSUME ClosedInv, ShapeInv', NEW p \in Procs, NEW at, NEW next, Purge(p, at, next),
           next # "create", next \in Finish => next = "finish_issue" /\ at = "finish_purge",
           at \in Over => next \in Over \cup {"idle"}
    PROVE  Ordinary
<1>1. Goto(p, next) /\ UNCHANGED <<issue, job>> /\ proc[p].pc = at  BY DEF Purge, At
<1> QED  BY <1>1, OrdinaryMove

LEMMA OrdinaryReaches ==
    ASSUME ClosedInv, ShapeInv', NEW p \in Procs, NEW at, NEW point, NEW pc, Reaches(p, at, point, pc),
           pc # "create", pc \notin Finish, at \in Over => pc \in Over \cup {"idle"}
    PROVE  Ordinary
<1>1. Goto(p, pc) /\ UNCHANGED <<issue, job>> /\ proc[p].pc = at  BY DEF Reaches, At
<1> QED  BY <1>1, OrdinaryMove

\* A coroutine that only moves on its own account, with what it carries along.
LEMMA OrdinaryCarry ==
    ASSUME ClosedInv, ShapeInv', NEW p \in Procs, NEW new, proc' = [proc EXCEPT ![p] = new],
           UNCHANGED <<issue, job>>, new.pc # "create", Knows(new, job)
    PROVE  Ordinary
<1>1. \A j \in Jobs : Legal(j) /\ job'[j] \notin PrStatuses  BY LegalSame
<1> QED  BY <1>1, OrdinaryPlace

\* What a new coroutine and one that was cancelled know.
LEMMA KnowsNew ==
    ASSUME NEW pc \in PCs, NEW kind \in RequestKinds \cup TaskKinds, NEW j \in 0..MaxJobs, NEW jb
    PROVE  Knows(Coroutine(pc, kind, j), jb)
<1>1. NoStatus \notin PrStatuses /\ NoStatus # "closed"  BY DEF NoStatus, PrStatuses
<1> QED  BY <1>1, NewCoroutine, KnowsLittle

LEMMA KnowsCancelled ==
    ASSUME NEW c \in Coroutines, NEW draining, NEW jb, Knows(c, jb)
    PROVE  Knows(AfterCancel(c, draining), jb) /\ AfterCancel(c, draining).pc # "create"
<1> DEFINE d == AfterCancel(c, draining)
<1>1. /\ d.pc \in {"putback_job", "unwind"} /\ d.seen = NoStatus
      /\ d.priorJob = c.priorJob /\ d.priorIssue = c.priorIssue
      /\ d.ending = c.ending /\ (d.pc = "putback_job" => c.pc = "slot")
  BY AfterCancelFields
<1> HIDE DEF d
<1>2. Knows(d, jb) /\ d.pc # "create"  BY <1>1 DEF Knows, NoStatus, Over
<1> QED  BY <1>2 DEF d

-----------------------------------------------------------------------------
(* Every step but the insertion of a job and the guard before it.          *)

LEMMA ReadStatusOrdinary ==
    ASSUME ClosedInv, ShapeInv', NEW p \in Procs, ReadStatus(p)
    PROVE  Ordinary
<1>1. proc[p] \in Coroutines /\ Knows(proc[p], job)  BY ClosedParts
<1>2. UNCHANGED <<issue, job>>  BY DEF ReadStatus
<1>3. PICK s : /\ proc' = [proc EXCEPT ![p].seen = s]
               /\ \/ proc[p].pc \in JobWrites /\ s = job[proc[p].job]
                  \/ proc[p].pc \in IssueWrites
  BY DEF ReadStatus
<1> DEFINE new == [proc[p] EXCEPT !.seen = s]
<1>4. /\ proc' = [proc EXCEPT ![p] = new]
      /\ new.pc = proc[p].pc /\ new.seen = s /\ new.job = proc[p].job /\ new.ending = proc[p].ending
      /\ new.priorJob = proc[p].priorJob /\ new.priorIssue = proc[p].priorIssue
  BY <1>1, <1>3 DEF Coroutines
<1> HIDE DEF new
<1>5. JobWrites \cap IssueWrites = {} /\ "create" \notin JobWrites \cup IssueWrites
  BY DEF JobWrites, IssueWrites
<1>6. Knows(new, job)  BY <1>1, <1>3, <1>4, <1>5 DEF Knows
<1>7. new.pc # "create"  BY <1>3, <1>4, <1>5
<1> QED  BY <1>2, <1>4, <1>6, <1>7, OrdinaryCarry

\* A coroutine outside its writes has read no status.
LEMMA ReadNothing ==
    ASSUME ClosedInv, NEW p \in Procs, proc[p].pc \notin JobWrites \cup IssueWrites
    PROVE  proc[p].seen = NoStatus
BY ClosedParts DEF Knows

LEMMA KeepPriorOrdinary ==
    ASSUME ClosedInv, ShapeInv', NEW p \in Procs, KeepPrior(p)
    PROVE  Ordinary
<1>1. proc[p] \in Coroutines /\ Knows(proc[p], job)  BY ClosedParts
<1>2. UNCHANGED <<issue, job>> /\ proc[p].pc \in {"prior_job", "prior_issue"}  BY DEF KeepPrior, At
<1>3. proc[p].seen = NoStatus
  <2>1. proc[p].pc \notin JobWrites \cup IssueWrites  BY <1>2 DEF JobWrites, IssueWrites
  <2> QED  BY <2>1, ReadNothing
<1>4. CASE proc[p].pc = "prior_job"
  <2> DEFINE new == [proc[p] EXCEPT !.priorJob = job[proc[p].job], !.pc = "prior_issue"]
  <2>1. proc' = [proc EXCEPT ![p] = new]  BY <1>4 DEF KeepPrior, At
  <2>2. /\ new.pc = "prior_issue" /\ new.seen = NoStatus /\ new.priorJob = job[proc[p].job]
        /\ new.priorIssue = proc[p].priorIssue /\ new.ending = proc[p].ending
    BY <1>1, <1>3 DEF Coroutines
  <2> HIDE DEF new
  <2>3. proc[p].job \in Jobs  BY <1>4, ClosedParts, AtWork DEF JoblessPCs
  <2>4. Knows(new, job)  BY <1>1, <1>4, <2>2, <2>3, ClosedParts DEF Knows, JobWrites, Over
  <2> QED  BY <1>2, <2>1, <2>2, <2>4, OrdinaryCarry
<1>5. CASE proc[p].pc = "prior_issue"
  <2> DEFINE new == [proc[p] EXCEPT !.priorIssue = issue, !.pc = "resume_job"]
  <2>1. proc' = [proc EXCEPT ![p] = new]  BY <1>5 DEF KeepPrior, At
  <2>2. /\ new.pc = "resume_job" /\ new.seen = NoStatus /\ new.priorJob = proc[p].priorJob
        /\ new.priorIssue = issue /\ new.ending = proc[p].ending
    BY <1>1, <1>3 DEF Coroutines
  <2> HIDE DEF new
  <2>4. Knows(new, job)  BY <1>1, <1>5, <2>2, ClosedParts DEF Knows, NoStatus, Over
  <2> QED  BY <1>2, <2>1, <2>2, <2>4, OrdinaryCarry
<1> QED  BY <1>2, <1>4, <1>5

LEMMA ReenrollOrdinary ==
    ASSUME ClosedInv, ShapeInv', NEW p \in Procs, ReenrollFails(p)
    PROVE  Ordinary
<1>1. proc[p] \in Coroutines /\ Knows(proc[p], job)  BY ClosedParts
<1>2. UNCHANGED <<issue, job>> /\ proc[p].pc = "stream"  BY DEF ReenrollFails, At
<1>3. proc[p].seen = NoStatus
  <2>1. proc[p].pc \notin JobWrites \cup IssueWrites  BY <1>2 DEF JobWrites, IssueWrites
  <2> QED  BY <2>1, ReadNothing
<1> DEFINE to == IF proc[p].kind = "restart" THEN "fail_job" ELSE "putback_job"
           new == [proc[p] EXCEPT !.pc = to, !.ending = "refused"]
<1>4. to \in {"fail_job", "putback_job"}  OBVIOUS
<1>5. proc' = [proc EXCEPT ![p] = new]  BY DEF ReenrollFails
<1> HIDE DEF to
<1>6. /\ new.pc = to /\ new.seen = NoStatus /\ new.priorJob = proc[p].priorJob
      /\ new.priorIssue = proc[p].priorIssue /\ new.ending = "refused"
  BY <1>1, <1>3 DEF Coroutines
<1> HIDE DEF new
<1>7. Knows(new, job)  BY <1>1, <1>4, <1>6 DEF Knows, NoStatus
<1>8. new.pc # "create"  BY <1>4, <1>6
<1> QED  BY <1>2, <1>5, <1>7, <1>8, OrdinaryCarry

LEMMA EndRunOrdinary ==
    ASSUME ClosedInv, ShapeInv', NEW p \in Procs, EndRun(p)
    PROVE  Ordinary
<1>1. proc[p] \in Coroutines /\ Knows(proc[p], job)  BY ClosedParts
<1>2. UNCHANGED <<issue, job>> /\ proc[p].pc = "nodes"  BY DEF EndRun, At
<1>3. proc[p].seen = NoStatus
  <2>1. proc[p].pc \notin JobWrites \cup IssueWrites  BY <1>2 DEF JobWrites, IssueWrites
  <2> QED  BY <2>1, ReadNothing
<1>4. CASE Goto(p, "unwind")  BY <1>2, <1>4, OrdinaryMove DEF Finish, Over
<1>5. ASSUME NEW ending \in {"completed", "failed", "split"},
             proc' = [proc EXCEPT ![p].pc = "finish_job", ![p].ending = ending]
      PROVE  Ordinary
  <2> DEFINE new == [proc[p] EXCEPT !.pc = "finish_job", !.ending = ending]
  <2>1. proc' = [proc EXCEPT ![p] = new]  BY <1>5
  <2>2. /\ new.pc = "finish_job" /\ new.seen = NoStatus /\ new.priorJob = proc[p].priorJob
        /\ new.priorIssue = proc[p].priorIssue
    BY <1>1, <1>3 DEF Coroutines
  <2> HIDE DEF new
  <2>3. Knows(new, job)  BY <1>1, <2>2 DEF Knows, NoStatus, Over
  <2> QED  BY <1>2, <2>1, <2>2, <2>3, OrdinaryCarry
<1> QED  BY <1>4, <1>5 DEF EndRun

LEMMA AskingOrdinary ==
    ASSUME ClosedInv, ShapeInv', NEW p \in Procs, Asking(p)
    PROVE  Ordinary
<1>1. proc[p].pc = "asking" /\ Goto(p, "unwind")  BY DEF Asking, At
<1>2. proc[p].job \in Jobs  BY <1>1, ClosedParts, AtWork DEF JoblessPCs
<1>3. CASE UNCHANGED <<job, issue>>  BY <1>1, <1>3, OrdinaryMove DEF Finish, Over
<1>4. CASE /\ CasMatches(job[proc[p].job], "awaiting_input", {"running"})
           /\ job' = [job EXCEPT ![proc[p].job] = "awaiting_input"]
           /\ issue' = "awaiting_input"
  <2> DEFINE mine == proc[p].job
  <2>1. job[mine] \in {"running", "awaiting_input"}  BY <1>4 DEF CasMatches
  <2> HIDE DEF mine
  <2>2. \A j \in Jobs : job'[j] = (IF j = mine THEN "awaiting_input" ELSE job[j])
    BY <1>2, <1>4, ClosedParts, ShapeParts DEF mine
  <2>3. <<"running", "awaiting_input">> \in JobMoves  BY DEF JobMoves
  <2>4. \A j \in Jobs : Legal(j) /\ job'[j] \notin PrStatuses
    BY <2>1, <2>2, <2>3, ClosedParts DEF Legal, PrStatuses
  <2> QED  BY <1>1, <1>4, <2>4, OrdinaryGoto DEF Over
<1> QED  BY <1>3, <1>4 DEF Asking

LEMMA ScheduleOrdinary ==
    ASSUME ClosedInv, ShapeInv', NEW p \in Procs, NEW kind \in TaskKinds, NEW j \in Jobs, Schedule(p, kind, j)
    PROVE  Ordinary
<1>1. UNCHANGED <<issue, job>>  BY DEF Schedule
<1>2. CASE Goto(p, "idle")  BY <1>1, <1>2, OrdinaryMove DEF Finish, Over
<1>3. CASE proc' = [proc EXCEPT ![p] = Coroutine("prior_job", kind, j)]
  <2> DEFINE new == Coroutine("prior_job", kind, j)
  <2>1. "prior_job" \in PCs /\ j \in 0..MaxJobs  BY BoundsAssumption DEF PCs, Jobs
  <2>2. new.pc = "prior_job" /\ Knows(new, job)  BY <2>1, NewCoroutine, KnowsNew
  <2> HIDE DEF new
  <2>3. proc' = [proc EXCEPT ![p] = new]  BY <1>3 DEF new
  <2> QED  BY <1>1, <2>2, <2>3, OrdinaryCarry
<1> QED  BY <1>2, <1>3 DEF Schedule

LEMMA TrackOrdinary ==
    ASSUME ClosedInv, ShapeInv', NEW p \in Procs, Track(p)
    PROVE  Ordinary
<1>1. proc[p].pc = "track" /\ UNCHANGED <<issue, job>>  BY DEF Track, At
<1>2. proc[p] \in Coroutines /\ Knows(proc[p], job) /\ HasItsJob(proc[p], job)  BY ClosedParts, ShapeParts
<1>3. proc[p].seen = NoStatus
  <2>1. proc[p].pc \notin JobWrites \cup IssueWrites  BY <1>1 DEF JobWrites, IssueWrites
  <2> QED  BY <2>1, ReadNothing
<1> DEFINE task == Coroutine("launching", "fresh", proc[p].number)
           rest == [proc[p] EXCEPT !.pc = "unwind"]
<1>4. task.pc = "launching" /\ Knows(task, job)
  <2>1. proc[p].number \in Jobs /\ "launching" \in PCs /\ "fresh" \in TaskKinds
    BY <1>1, <1>2 DEF HasItsJob, PCs, TaskKinds
  <2>2. proc[p].number \in 0..MaxJobs  BY <2>1, BoundsAssumption DEF Jobs
  <2> QED  BY <2>1, <2>2, NewCoroutine, KnowsNew
<1>5. rest.pc = "unwind" /\ Knows(rest, job)
  <2>1. /\ rest.pc = "unwind" /\ rest.seen = NoStatus /\ rest.priorJob = proc[p].priorJob
        /\ rest.priorIssue = proc[p].priorIssue
    BY <1>2, <1>3 DEF Coroutines
  <2> HIDE DEF rest
  <2> QED  BY <1>2, <2>1 DEF Knows, JobWrites, Over
<1>6. PICK q \in Procs : proc' = [r \in Procs |-> IF r = q THEN task ELSE IF r = p THEN rest ELSE proc[r]]
  BY DEF Track
<1> HIDE DEF task, rest
<1>7. \A r \in Procs : proc'[r].pc = "create" => proc[r].pc = "create"  BY <1>4, <1>5, <1>6
<1>8. \A r \in Procs : Knows(proc[r], job') => Knows(proc'[r], job')  BY <1>1, <1>4, <1>5, <1>6
<1>9. \A j \in Jobs : Legal(j) /\ job'[j] \notin PrStatuses  BY <1>1, LegalSame
<1> QED  BY <1>1, <1>7, <1>8, <1>9, OrdinaryKept

LEMMA CancelTaskOrdinary ==
    ASSUME ClosedInv, ShapeInv', NEW p \in Procs, CancelTask(p)
    PROVE  Ordinary
<1>1. proc[p].pc = "cancel_task" /\ UNCHANGED <<issue, job>>  BY DEF CancelTask, At
<1>2. \A q \in Procs : proc[q] \in Coroutines /\ Knows(proc[q], job)  BY ClosedParts
<1>3. proc[p].seen = NoStatus
  <2>1. proc[p].pc \notin JobWrites \cup IssueWrites  BY <1>1 DEF JobWrites, IssueWrites
  <2> QED  BY <2>1, ReadNothing
<1> DEFINE t == byJob[proc[p].job]
           to == IF t = 0 THEN "cancel_job" ELSE "cancel_wait"
           new == [proc[p] EXCEPT !.pc = to, !.number = t]
           cut(q) == AfterCancel(proc[q], orch = "draining")
<1>4. proc' = [q \in Procs |-> IF q = p THEN new ELSE IF q = t THEN cut(q) ELSE proc[q]]
  BY DEF CancelTask
<1>5. to \in {"cancel_job", "cancel_wait"}  OBVIOUS
<1> HIDE DEF to, t
<1>6. /\ new.pc = to /\ new.seen = NoStatus /\ new.priorJob = proc[p].priorJob
      /\ new.priorIssue = proc[p].priorIssue /\ new.ending = proc[p].ending
  BY <1>2, <1>3 DEF Coroutines
<1> HIDE DEF new
<1>7. Knows(new, job) /\ new.pc # "create"  BY <1>1, <1>2, <1>5, <1>6 DEF Knows, NoStatus, Over
<1>8. \A q \in Procs : Knows(cut(q), job) /\ cut(q).pc # "create"  BY <1>2, KnowsCancelled
<1> HIDE DEF cut
<1>9. \A q \in Procs : proc'[q].pc = "create" => proc[q].pc = "create"  BY <1>4, <1>7, <1>8
<1>10. \A q \in Procs : Knows(proc[q], job') => Knows(proc'[q], job')  BY <1>1, <1>4, <1>7, <1>8
<1>11. \A j \in Jobs : Legal(j) /\ job'[j] \notin PrStatuses  BY <1>1, LegalSame
<1> QED  BY <1>1, <1>9, <1>10, <1>11, OrdinaryKept

LEMMA UnwindOrdinary ==
    ASSUME ClosedInv, ShapeInv', NEW p \in Procs, Unwind(p)
    PROVE  Ordinary
<1>1. proc' = [proc EXCEPT ![p] = Idle] /\ UNCHANGED <<issue, job>>  BY DEF Unwind
<1> QED  BY <1>1, IdleFields, KnowsIdle, OrdinaryCarry

LEMMA BeginOrdinary ==
    ASSUME ClosedInv, ShapeInv', NEW p \in Procs, NEW kind, NEW c, Begin(p, kind, c),
           c.seen = NoStatus, c.priorJob = NoStatus, c.priorIssue = NoStatus, c.ending = "none",
           c.pc \in PCs \ ({"create"} \cup Finish)
    PROVE  Ordinary
<1>1. proc' = [proc EXCEPT ![p] = c] /\ UNCHANGED <<issue, job>>  BY DEF Begin
<1>2. Knows(c, job)  BY DEF Knows, NoStatus, PrStatuses, Finish, Over
<1> QED  BY <1>1, <1>2, OrdinaryCarry

LEMMA DrainOrdinary ==
    ASSUME ClosedInv, ShapeInv', Drain
    PROVE  Ordinary
<1>1. UNCHANGED <<issue, job>>  BY DEF Drain
<1>2. \A q \in Procs : proc'[q] = proc[q] \/ proc'[q] = AfterCancel(proc[q], TRUE)  BY DEF Drain
<1>3. \A q \in Procs : proc[q] \in Coroutines /\ Knows(proc[q], job)  BY ClosedParts
<1>4. \A q \in Procs : Knows(AfterCancel(proc[q], TRUE), job) /\ AfterCancel(proc[q], TRUE).pc # "create"
  BY <1>3, KnowsCancelled
<1>5. \A q \in Procs : Knows(proc'[q], job) /\ (proc'[q].pc = "create" => proc[q].pc = "create")
  BY <1>2, <1>3, <1>4
<1>6. \A j \in Jobs : Legal(j) /\ job'[j] \notin PrStatuses  BY <1>1, LegalSame
<1> QED  BY <1>1, <1>5, <1>6, OrdinaryKept

LEMMA DeadlineOrdinary ==
    ASSUME ClosedInv, ShapeInv', NEW p \in Procs, DrainDeadline(p)
    PROVE  Ordinary
<1> DEFINE new == AfterCancel(proc[p], TRUE)
<1>1. proc' = [proc EXCEPT ![p] = new] /\ UNCHANGED <<issue, job>>
  BY ClosedParts, ShapeParts DEF DrainDeadline
<1>2. Knows(new, job) /\ new.pc # "create"  BY ClosedParts, KnowsCancelled
<1> HIDE DEF new
<1> QED  BY <1>1, <1>2, OrdinaryCarry

LEMMA EndsOrdinary ==
    ASSUME ClosedInv, ShapeInv', ProcessEnds
    PROVE  Ordinary
<1>1. UNCHANGED <<issue, job>> /\ \A q \in Procs : proc'[q] = Idle  BY DEF ProcessEnds
<1>2. \A q \in Procs : Knows(proc'[q], job') /\ proc'[q].pc # "create"
  BY <1>1, IdleFields, KnowsIdle
<1>3. \A j \in Jobs : Legal(j) /\ job'[j] \notin PrStatuses  BY <1>1, LegalSame
<1> QED  BY <1>1, <1>2, <1>3, OrdinaryKept

LEMMA BootDecideOrdinary ==
    ASSUME ClosedInv, ShapeInv', BootDecide
    PROVE  Ordinary
<1>1. UNCHANGED <<issue, proc>> /\ orch = "down"  BY DEF BootDecide
<1>2. PICK orphaned \in SUBSET {j \in Jobs : job[j] \in InFlightStatuses} :
        job' = [j \in Jobs |-> IF j \in orphaned THEN "failed" ELSE job[j]]
  BY DEF BootDecide
<1>3. \A j \in Jobs : job'[j] = (IF j \in orphaned THEN "failed" ELSE job[j])  BY <1>2
<1>4. \A j \in Jobs : Legal(j) /\ job'[j] \notin PrStatuses
  BY <1>1, <1>3, ClosedParts DEF Legal, PrStatuses
<1> QED  BY <1>1, <1>4, OrdinaryKept

LEMMA BootStartOrdinary ==
    ASSUME ClosedInv, ShapeInv', BootStart
    PROVE  Ordinary
<1>1. job' = job /\ (issue' = issue \/ issue' = "open")  BY DEF BootStart
<1>2. \A q \in Procs : \/ proc'[q] = Idle
                       \/ q \in Jobs /\ \E kind \in {"restart", "fresh"} : proc'[q] = Coroutine("slot", kind, q)
  <2>1. boot.keep \subseteq Jobs  BY ClosedParts, ShapeParts
  <2> QED  BY <2>1 DEF BootStart
<1>3. \A q \in Procs : Knows(proc'[q], job') /\ proc'[q].pc # "create"
  <2> SUFFICES ASSUME NEW q \in Procs PROVE Knows(proc'[q], job') /\ proc'[q].pc # "create"
    OBVIOUS
  <2>1. CASE proc'[q] = Idle  BY <2>1, IdleFields, KnowsIdle
  <2>2. ASSUME q \in Jobs, NEW kind \in {"restart", "fresh"}, proc'[q] = Coroutine("slot", kind, q)
        PROVE  Knows(proc'[q], job') /\ proc'[q].pc # "create"
    <3>1. q \in 0..MaxJobs /\ kind \in TaskKinds /\ "slot" \in PCs
      BY <2>2, BoundsAssumption DEF Jobs, TaskKinds, PCs
    <3> QED  BY <2>2, <3>1, NewCoroutine, KnowsNew
  <2> QED  BY <1>2, <2>1, <2>2
<1>4. \A j \in Jobs : Legal(j) /\ job'[j] \notin PrStatuses  BY <1>1, LegalSame
<1> QED  BY <1>1, <1>3, <1>4, OrdinaryKept

LEMMA BeforeTheRunOrdinary ==
    ASSUME ClosedInv, ShapeInv', NEW p \in Procs, BeforeTheRun(p)
    PROVE  Ordinary
<1>1. CASE Launch(p)
  <2>1. (Goto(p, "unwind") \/ Goto(p, "slot")) /\ proc[p].pc = "launching"  BY <1>1 DEF Launch, At
  <2>2. UNCHANGED <<issue, job>>  BY <1>1 DEF Launch
  <2> QED  BY <2>1, <2>2, OrdinaryMove DEF Finish, Over
<1>2. CASE TakeSlot(p)  BY <1>2, OrdinaryStep DEF TakeSlot, Finish, Over
<1>3. CASE Gate(p)  BY <1>3, OrdinaryStep DEF Gate, Finish, Over
<1>4. CASE RefuseJob(p)
  <2>1. UpdateJobBy(AllJobMoves, p, "refuse_job", "failed", "refuse_issue", "refuse_issue")
    BY <1>4 DEF RefuseJob, AllJobMoves
  <2> QED  BY <2>1, OrdinaryJob DEF JobWrites, PrStatuses, Finish, Over
<1>5. CASE RefuseIssue(p)  BY <1>5, OrdinaryIssue DEF RefuseIssue, Finish, Over
<1>6. CASE Start(p)  BY <1>6, OrdinaryJob DEF Start, UpdateJob, JobWrites, PrStatuses, Finish, Over
<1>7. CASE KeepPrior(p)  BY <1>7, KeepPriorOrdinary
<1>8. CASE ResumeJob(p)  BY <1>8, OrdinaryJob DEF ResumeJob, UpdateJob, JobWrites, PrStatuses, Finish, Over
<1>9. CASE ResumeIssue(p)  BY <1>9, OrdinaryIssue DEF ResumeIssue, Finish, Over
<1>10. CASE ReenrollFails(p)  BY <1>10, ReenrollOrdinary
<1>11. CASE PutBackJob(p)
  <2>1. proc[p].priorJob \notin PrStatuses  BY ClosedParts DEF Knows
  <2>2. PutBackRaised(p) \in {"unwind", "fail_job"}  BY DEF PutBackRaised
  <2> QED  BY <1>11, <2>1, <2>2, OrdinaryJob DEF PutBackJob, UpdateJob, JobWrites, Finish, Over
<1>12. CASE PutBackIssue(p)
  <2>1. proc[p].priorIssue = "closed" => \E j \in Jobs : job[j] = "completed"  BY ClosedParts DEF Knows
  <2>2. PutBackRaised(p) \in {"unwind", "fail_job"}  BY DEF PutBackRaised
  <2> QED  BY <1>12, <2>1, <2>2, OrdinaryIssue DEF PutBackIssue, Finish, Over
<1> QED  BY <1>1, <1>2, <1>3, <1>4, <1>5, <1>6, <1>7, <1>8, <1>9, <1>10, <1>11, <1>12 DEF BeforeTheRun

LEMMA TheRunOrdinary ==
    ASSUME ClosedInv, ShapeInv', NEW p \in Procs, TheRun(p)
    PROVE  Ordinary
<1>1. CASE EnterStream(p)
  <2> DEFINE here == ckpt[proc[p].job]
             pc == CASE here = "node" -> "nodes"
                     [] here = "asked" -> "asking"
                     [] here = "moot" -> "auto_job"
                     [] here = "stuck" -> "pause_job"
                     [] here = "end" -> "unwind"
  <2>1. proc[p].pc = "stream"  BY <1>1 DEF EnterStream, At
  <2>2. proc[p].job \in Jobs  BY <2>1, ClosedParts, AtWork DEF JoblessPCs
  <2>3. here \in Checkpoints  BY <2>2, ClosedParts, ShapeParts
  <2>4. here # "none" => pc \in {"nodes", "asking", "auto_job", "pause_job", "unwind"}
    BY <2>3 DEF Checkpoints
  <2>5. \/ Step(p, "stream", "unwind") \/ Step(p, "stream", "fail_job")
        \/ here # "none" /\ Step(p, "stream", pc)
        \/ here = "none" /\ proc[p].kind = "restart" /\ Step(p, "stream", "fail_job")
        \/ Reaches(p, "stream", "node", "nodes")
    BY <1>1, <2>3 DEF EnterStream
  <2> HIDE DEF pc, here
  <2> QED  BY <2>4, <2>5, OrdinaryStep, OrdinaryReaches DEF Finish, Over
<1>2. CASE Ask(p)  BY <1>2, OrdinaryReaches DEF Ask, NextOrDrained, Finish, Over
<1>3. CASE AskNothing(p)  BY <1>3, OrdinaryReaches DEF AskNothing, NextOrDrained, Finish, Over
<1>4. CASE GetStuck(p)  BY <1>4, OrdinaryReaches DEF GetStuck, NextOrDrained, Finish, Over
<1>5. CASE EndRun(p)  BY <1>5, EndRunOrdinary
<1>6. CASE Raise(p)  BY <1>6, OrdinaryStep DEF Raise, Finish, Over
<1>7. CASE PauseJob(p)  BY <1>7, OrdinaryJob DEF PauseJob, UpdateJob, JobWrites, PrStatuses, Finish, Over
<1>8. CASE PauseIssue(p)  BY <1>8, OrdinaryIssue DEF PauseIssue, Finish, Over
<1>9. CASE Asking(p)  BY <1>9, AskingOrdinary
<1>10. CASE AutoJob(p)
  <2>1. CASE UpdateJobBy(JobMoves, p, "auto_job", "completed", "claim_issue", "fail_job")
    BY <2>1, OrdinaryJob DEF JobWrites, PrStatuses, Finish, Over
  <2>2. CASE UpdateJobBy(JobMoves, p, "auto_job", "failed", "finish_issue", "fail_job")
    <3>1. proc[p].ending # "completed"  BY <2>2, ClosedParts DEF UpdateJobBy, At, Knows, Over
    <3> QED  BY <2>2, <3>1, OrdinaryJob DEF JobWrites, PrStatuses, Finish, Over
  <2> QED  BY <1>10, <2>1, <2>2 DEF AutoJob, UpdateJob
<1>11. CASE FinishJob(p)
  <2> DEFINE new == IF proc[p].ending = "failed" THEN "failed" ELSE "completed"
             next == IF proc[p].ending = "split" THEN "finish_issue" ELSE "finish_purge"
  <2>1. UpdateJobBy(JobMoves, p, "finish_job", new, next, "fail_job")  BY <1>11 DEF FinishJob, UpdateJob
  <2>2. /\ new \notin PrStatuses /\ next \in Finish
        /\ proc[p].ending = "completed" => new = "completed"
    BY DEF PrStatuses, Finish
  <2> HIDE DEF new, next
  <2> QED  BY <2>1, <2>2, OrdinaryJob DEF JobWrites, Finish, Over
<1>12. CASE FinishPurge(p)  BY <1>12, OrdinaryPurge DEF FinishPurge, Finish, Over
<1>13. CASE FinishIssue(p)
  <2> DEFINE new == IF proc[p].ending = "completed" THEN "closed" ELSE "open"
  <2>1. UpdateIssue(p, "finish_issue", new, "unwind", "fail_job") /\ proc[p].pc = "finish_issue"
    BY <1>13 DEF FinishIssue, UpdateIssue, At
  <2>2. proc[p].job \in Jobs  BY <2>1, ClosedParts, AtWork DEF JoblessPCs
  <2>3. new = "closed" => \E j \in Jobs : job[j] = "completed"
    BY <2>1, <2>2, ClosedParts DEF Knows
  <2> HIDE DEF new
  <2> QED  BY <2>1, <2>3, OrdinaryIssue DEF Finish, Over
<1>14. CASE FailJob(p)  BY <1>14, OrdinaryJob DEF FailJob, UpdateJob, JobWrites, PrStatuses, Finish, Over
<1>15. CASE FailIssue(p)  BY <1>15, OrdinaryIssue DEF FailIssue, Finish, Over
<1>16. CASE FailPurge(p)  BY <1>16, OrdinaryPurge DEF FailPurge, Finish, Over
<1>17. CASE Unwind(p)  BY <1>17, UnwindOrdinary
<1> QED  BY <1>1, <1>2, <1>3, <1>4, <1>5, <1>6, <1>7, <1>8, <1>9, <1>10, <1>11, <1>12, <1>13, <1>14, <1>15, <1>16, <1>17 DEF TheRun

LEMMA ReplyOrdinary ==
    ASSUME ClosedInv, ShapeInv', NEW p \in Procs, Reply(p)
    PROVE  Ordinary
<1>1. CASE Record(p)
  <2>1. Goto(p, "count") /\ UNCHANGED <<issue, job>> /\ proc[p].pc = "record"  BY <1>1 DEF Record, At
  <2> QED  BY <2>1, OrdinaryMove DEF Finish, Over
<1>2. CASE CountPending(p)  BY <1>2, OrdinaryStep DEF CountPending, Finish, Over
<1>3. CASE Guard(p)  BY <1>3, OrdinaryStep DEF Guard, Finish, Over
<1>4. CASE Resume(p)
  <2>1. proc[p].pc = "resume" /\ Schedule(p, "answer", proc[p].job)  BY <1>4 DEF Resume, At
  <2>2. proc[p].job \in Jobs  BY <2>1, ClosedParts, AtWork DEF JoblessPCs
  <2> QED  BY <2>1, <2>2, ScheduleOrdinary DEF TaskKinds
<1>5. CASE Find(p)
  <2>1. ASSUME NEW j \in Jobs, Schedule(p, "answer", j) PROVE Ordinary
    BY <2>1, ScheduleOrdinary DEF TaskKinds
  <2>2. CASE Step(p, "find", "claim_issue") \/ Step(p, "find", "idle")
    BY <2>2, OrdinaryStep DEF Finish, Over
  <2> QED  BY <1>5, <2>1, <2>2 DEF Find
<1> QED  BY <1>1, <1>2, <1>3, <1>4, <1>5 DEF Reply

LEMMA CancelOrdinary ==
    ASSUME ClosedInv, ShapeInv', NEW p \in Procs, Cancel(p)
    PROVE  Ordinary
<1>1. CASE CancelTask(p)  BY <1>1, CancelTaskOrdinary
<1>2. CASE CancelWait(p)  BY <1>2, OrdinaryStep DEF CancelWait, Finish, Over
<1>3. CASE CancelRecheck(p)  BY <1>3, OrdinaryStep DEF CancelRecheck, Finish, Over
<1>4. CASE CancelJob(p)  BY <1>4, OrdinaryJob DEF CancelJob, UpdateJob, JobWrites, PrStatuses, Finish, Over
<1>5. CASE CancelIssue(p)  BY <1>5, OrdinaryIssue DEF CancelIssue, Finish, Over
<1>6. CASE CancelPurge(p)  BY <1>6, OrdinaryPurge DEF CancelPurge, Finish, Over
<1> QED  BY <1>1, <1>2, <1>3, <1>4, <1>5, <1>6 DEF Cancel

LEMMA ArrivalOrdinary ==
    ASSUME ClosedInv, ShapeInv', NEW p \in Procs, Arrival(p)
    PROVE  Ordinary
<1>0. /\ 0 \in 0..MaxJobs /\ Jobs \subseteq 0..MaxJobs
      /\ {"claim_issue", "continue", "record", "count", "cancel_task"} \subseteq PCs \ ({"create"} \cup Finish)
      /\ RequestKinds = {"triage", "reply", "comment", "continue", "cancel"}
  BY BoundsAssumption DEF Jobs, PCs, Finish, RequestKinds
<1>1. ASSUME NEW pc \in {"claim_issue", "continue", "record", "count", "cancel_task"}, NEW kind \in RequestKinds,
             NEW j \in 0..MaxJobs, NEW c, NEW channel, NEW n,
             \/ c = Coroutine(pc, kind, j)
             \/ c = [Coroutine(pc, kind, j) EXCEPT !.channel = channel]
             \/ c = [Coroutine(pc, kind, j) EXCEPT !.channel = channel, !.number = n],
             Begin(p, kind, c)
      PROVE  Ordinary
  <2>1. /\ c.pc = pc /\ c.seen = NoStatus /\ c.priorJob = NoStatus /\ c.priorIssue = NoStatus
        /\ c.ending = "none"
    <3> DEFINE d == Coroutine(pc, kind, j)
    <3>1. /\ d \in Coroutines /\ d.pc = pc /\ d.seen = NoStatus
          /\ d.priorJob = NoStatus /\ d.priorIssue = NoStatus /\ d.ending = "none"
      <4>1. pc \in PCs /\ kind \in RequestKinds \cup TaskKinds  BY <1>0
      <4> QED  BY <4>1, NewCoroutine
    <3> HIDE DEF d
    <3>2. CASE c = d  BY <3>1, <3>2
    <3>3. CASE c = [d EXCEPT !.channel = channel]  BY <3>1, <3>3 DEF Coroutines
    <3>4. CASE c = [d EXCEPT !.channel = channel, !.number = n]  BY <3>1, <3>4 DEF Coroutines
    <3> QED  BY <1>1, <3>2, <3>3, <3>4 DEF d
  <2> QED  BY <1>0, <1>1, <2>1, BeginOrdinary
<1>2. CASE BeginTriage(p)
  <2>1. Begin(p, "triage", Coroutine("claim_issue", "triage", 0))  BY <1>2 DEF BeginTriage
  <2> QED  BY <1>0, <1>1, <2>1
<1>3. CASE BeginContinue(p)
  <2>1. PICK j \in Jobs : Begin(p, "continue", Coroutine("continue", "continue", j))  BY <1>3 DEF BeginContinue
  <2> QED  BY <1>0, <1>1, <2>1
<1>4. CASE BeginReply(p)
  <2>1. PICK j \in Jobs, ch \in Channels : \E n \in DOMAIN input[j] :
          Begin(p, "reply", [Coroutine("record", "reply", j) EXCEPT !.channel = ch, !.number = n])
    BY <1>4 DEF BeginReply
  <2>2. PICK n \in DOMAIN input[j] :
          Begin(p, "reply", [Coroutine("record", "reply", j) EXCEPT !.channel = ch, !.number = n])
    BY <2>1
  <2> QED  BY <1>0, <1>1, <2>2
<1>5. CASE BeginComment(p)
  <2>1. Begin(p, "comment", [Coroutine("count", "comment", 0) EXCEPT !.channel = "inbound"])
    BY <1>5 DEF BeginComment
  <2> QED  BY <1>0, <1>1, <2>1
<1>6. CASE BeginCancel(p)
  <2>1. PICK j \in Jobs : Begin(p, "cancel", Coroutine("cancel_task", "cancel", j))  BY <1>6 DEF BeginCancel
  <2> QED  BY <1>0, <1>1, <2>1
<1> QED  BY <1>2, <1>3, <1>4, <1>5, <1>6 DEF Arrival

LEMMA ProcessOrdinary ==
    ASSUME ClosedInv, ShapeInv', Process
    PROVE  Ordinary
BY DrainOrdinary, EndsOrdinary, BootDecideOrdinary, BootStartOrdinary DEF Process, Exit, Crash

-----------------------------------------------------------------------------
(* execute: the guard, and the job it inserts.                             *)

PassesGuard(p) ==
    /\ \A j \in Jobs : job[j] \notin ActiveStatuses
    /\ Step(p, "exec", "create")

Inserts(p, j) ==
    /\ At(p, "create")
    /\ job[j] = "absent"
    /\ job' = [job EXCEPT ![j] = "pending"]
    /\ proc' = [proc EXCEPT ![p].pc = "track", ![p].number = j]
    /\ UNCHANGED <<issue, launch, ckpt, input, byJob, orch, boot, stops>>

LEMMA DispatchKinds ==
    ASSUME ClosedInv, ShapeInv', NEW p \in Procs, Dispatch(p)
    PROVE  Ordinary \/ PassesGuard(p) \/ \E j \in Jobs : Inserts(p, j)
<1>1. Raised(p) \in {"fail_job", "idle"}  BY DEF Raised
<1>2. CASE ClaimIssue(p)  BY <1>1, <1>2, OrdinaryIssue DEF ClaimIssue, Finish, Over
<1>3. CASE Exec(p)
  <2>1. CASE Step(p, "exec", "rollback")  BY <2>1, OrdinaryStep DEF Finish, Over
  <2> QED  BY <1>3, <2>1 DEF Exec, PassesGuard
<1>4. CASE Create(p)
  <2>1. CASE Step(p, "create", "rollback")  BY <2>1, OrdinaryStep DEF Finish, Over
  <2> QED  BY <1>4, <2>1 DEF Create, Inserts
<1>5. CASE Track(p)  BY <1>5, TrackOrdinary
<1>6. CASE Rollback(p)
  <2>1. (IF IsTask(p) THEN "unwind" ELSE "idle") \in {"unwind", "idle"}  OBVIOUS
  <2> QED  BY <1>1, <1>6, <2>1, OrdinaryIssue DEF Rollback, Finish, Over
<1> QED  BY <1>2, <1>3, <1>4, <1>5, <1>6 DEF Dispatch

LEMMA StepKinds ==
    ASSUME ClosedInv, ShapeInv', Next
    PROVE  \/ Ordinary
           \/ \E p \in Procs : PassesGuard(p)
           \/ \E p \in Procs, j \in Jobs : Inserts(p, j)
<1>1. CASE Process  BY <1>1, ProcessOrdinary
<1>2. ASSUME NEW p \in Procs, Continue(p) PROVE Ordinary
  <2>1. proc[p].pc = "continue" /\ Schedule(p, "choice", proc[p].job)  BY <1>2 DEF Continue, At
  <2>2. proc[p].job \in Jobs  BY <2>1, ClosedParts, AtWork DEF JoblessPCs
  <2> QED  BY <2>1, <2>2, ScheduleOrdinary DEF TaskKinds
<1>3. ASSUME NEW p \in Procs, Work(p)
      PROVE  Ordinary \/ PassesGuard(p) \/ \E j \in Jobs : Inserts(p, j)
  BY <1>2, <1>3, ReadStatusOrdinary, DispatchKinds, BeforeTheRunOrdinary, TheRunOrdinary,
     ReplyOrdinary, CancelOrdinary DEF Work
<1>4. ASSUME NEW p \in Procs, Arrival(p) \/ DrainDeadline(p) PROVE Ordinary
  BY <1>4, ArrivalOrdinary, DeadlineOrdinary
<1> QED  BY <1>1, <1>3, <1>4 DEF Next

LEMMA GuardPassed ==
    ASSUME ClosedInv, ShapeInv', NEW p \in Procs, PassesGuard(p)
    PROVE  /\ ClosedInv'
           /\ job' = job
           /\ \A q \in Procs : q # p => proc'[q] = proc[q]
<1>1. /\ proc[p] \in Coroutines /\ Knows(proc[p], job) /\ proc \in [Procs -> Coroutines]
      /\ \A j \in Jobs : job[j] \notin PrStatuses
  BY ClosedParts, ShapeParts
<1> DEFINE new == [proc[p] EXCEPT !.pc = "create", !.seen = NoStatus]
<1>2. proc' = [proc EXCEPT ![p] = new] /\ UNCHANGED <<issue, job>>
  BY DEF PassesGuard, Step, Goto
<1>3. new.pc = "create" /\ new.seen = NoStatus /\ new.priorJob = proc[p].priorJob
      /\ new.priorIssue = proc[p].priorIssue /\ new.ending = proc[p].ending /\ proc[p].pc = "exec"
  BY <1>1 DEF Coroutines, PassesGuard, Step, At
<1> HIDE DEF new
<1>4. Knows(new, job)  BY <1>1, <1>3 DEF Knows, NoStatus, Over
<1>5. \A q \in Procs : proc'[q] = (IF q = p THEN new ELSE proc[q])  BY <1>1, <1>2
<1>6. \A q \in Procs : Knows(proc[q], job') => Knows(proc'[q], job')  BY <1>2, <1>4, <1>5
<1>7. KeepsCompleted(job, job')  BY <1>2 DEF KeepsCompleted
<1>8. ClosedInv'  BY <1>1, <1>2, <1>6, <1>7, ClosedKept
<1> QED  BY <1>2, <1>5, <1>8

LEMMA JobInserted ==
    ASSUME ClosedInv, ShapeInv', NEW p \in Procs, NEW j \in Jobs, Inserts(p, j)
    PROVE  /\ ClosedInv'
           /\ \A i \in Jobs : job'[i] = (IF i = j THEN "pending" ELSE job[i])
           /\ \A q \in Procs : q # p => proc'[q] = proc[q]
           /\ proc'[p].pc = "track"
<1>1. /\ proc[p] \in Coroutines /\ Knows(proc[p], job) /\ proc \in [Procs -> Coroutines]
      /\ \A i \in Jobs : job[i] \notin PrStatuses
      /\ job \in [Jobs -> JobStatuses \cup {"absent"}]
  BY ClosedParts, ShapeParts
<1>2. proc[p].seen = NoStatus
  <2>1. proc[p].pc \notin JobWrites \cup IssueWrites  BY DEF Inserts, At, JobWrites, IssueWrites
  <2> QED  BY <2>1, ReadNothing
<1> DEFINE new == [proc[p] EXCEPT !.pc = "track", !.number = j]
<1>3. proc' = [proc EXCEPT ![p] = new] /\ issue' = issue  BY DEF Inserts
<1>4. new.pc = "track" /\ new.seen = NoStatus /\ new.priorJob = proc[p].priorJob
      /\ new.priorIssue = proc[p].priorIssue /\ new.ending = proc[p].ending /\ proc[p].pc = "create"
  BY <1>1, <1>2 DEF Coroutines, Inserts, At
<1> HIDE DEF new
<1>5. \A i \in Jobs : job'[i] = (IF i = j THEN "pending" ELSE job[i])  BY <1>1 DEF Inserts
<1>6. KeepsCompleted(job, job')  BY <1>5 DEF KeepsCompleted, Inserts
<1>7. Knows(new, job')  BY <1>1, <1>4, <1>6 DEF Knows, NoStatus, JobWrites, KeepsCompleted, Over
<1>8. \A q \in Procs : proc'[q] = (IF q = p THEN new ELSE proc[q])  BY <1>1, <1>3
<1>9. \A q \in Procs : Knows(proc[q], job') => Knows(proc'[q], job')  BY <1>7, <1>8
<1>10. \A i \in Jobs : job'[i] \notin PrStatuses  BY <1>1, <1>5 DEF PrStatuses
<1>11. ClosedInv'  BY <1>3, <1>6, <1>9, <1>10, ClosedKept
<1> QED  BY <1>4, <1>5, <1>8, <1>11

LEMMA ClosedInit == Init => ClosedInv
<1> SUFFICES ASSUME Init PROVE ClosedInv
  OBVIOUS
<1>1. ShapeInv  BY ShapeInit
<1>2. \A p \in Procs : Knows(proc[p], job)  BY KnowsIdle DEF Init
<1>3. \A j \in Jobs : job[j] \notin PrStatuses  BY DEF Init, PrStatuses
<1>4. ClosedByCompletion  BY DEF Init, ClosedByCompletion
<1> QED  BY <1>1, <1>2, <1>3, <1>4 DEF ClosedInv

LEMMA ClosedStep == ClosedInv /\ [Next]_vars => ClosedInv'
<1> SUFFICES ASSUME ClosedInv, [Next]_vars PROVE ClosedInv'
  OBVIOUS
<1>1. ShapeInv'  BY ShapeStep DEF ClosedInv
<1>2. CASE Next  BY <1>1, <1>2, StepKinds, GuardPassed, JobInserted DEF Ordinary
<1>3. CASE UNCHANGED vars
  <2>1. UNCHANGED <<issue, job, proc>>  BY <1>3 DEF vars
  <2> QED  BY <1>1, <2>1 DEF ClosedInv, ClosedByCompletion, Knows
<1> QED  BY <1>2, <1>3

LEMMA ClosedAlways == Spec => []ClosedInv
BY ClosedInit, ClosedStep, PTL DEF Spec

(***************************************************************************)
(* An issue is closed only on the work of a job that completed, however    *)
(* many runs, answers, cancels and restarts met on the way to its close:   *)
(* the finish writes the job first, and what overtakes that write keeps it *)
(* from the issue (_handle_workflow_result).                               *)
(***************************************************************************)
THEOREM ClosedIsCompleted == Spec => []ClosedByCompletion
<1>1. ClosedInv => ClosedByCompletion  BY DEF ClosedInv
<1> QED  BY <1>1, ClosedAlways, PTL

(***************************************************************************)
(* Every status change of a job is a move of VALID_JOB_TRANSITIONS, the    *)
(* refusal of its gate or boot failing it: the compare-and-swap of update  *)
(* lets no stale read write, and nothing but the handler at its gate fails *)
(* a job that is pending.                                                  *)
(***************************************************************************)
THEOREM TransitionsAreLegal == Spec => TransitionsLegal
<1> DEFINE A == \A j \in Jobs :
                  \/ job'[j] = job[j]
                  \/ job[j] = "absent" /\ job'[j] = "pending"
                  \/ <<job[j], job'[j]>> \in JobMoves
                  \/ /\ <<job[j], job'[j]>> \in GateRefusal
                     /\ \E p \in Procs : At(p, "refuse_job") /\ proc[p].job = j
                  \/ orch = "down" /\ job[j] \in InFlightStatuses /\ job'[j] = "failed"
<1>1. ClosedInv /\ [Next]_vars => [A]_vars
  <2> SUFFICES ASSUME ClosedInv, Next PROVE A
    OBVIOUS
  <2>1. ShapeInv'  BY ShapeStep DEF ClosedInv
  <2>2. CASE Ordinary  BY <2>2 DEF Ordinary, Legal
  <2>3. ASSUME NEW p \in Procs, PassesGuard(p) PROVE A  BY <2>1, <2>3, GuardPassed
  <2>4. ASSUME NEW p \in Procs, NEW i \in Jobs, Inserts(p, i) PROVE A
    <3>1. job[i] = "absent"  BY <2>4 DEF Inserts
    <3>2. \A j \in Jobs : job'[j] = (IF j = i THEN "pending" ELSE job[j])  BY <2>1, <2>4, JobInserted
    <3> QED  BY <3>1, <3>2
  <2> QED  BY <2>1, <2>2, <2>3, <2>4, StepKinds
<1> QED  BY <1>1, ClosedAlways, PTL DEF Spec, TransitionsLegal

-----------------------------------------------------------------------------
(* One thing at a time: the scenario of the runs about answers and         *)
(* restarts, for any number of questions, coroutines and stops; without a  *)
(* cancel also of jobs.                                                    *)

Calm ==
    /\ Patient
    /\ MaxRequests = 1
    /\ Kinds \subseteq {"triage", "reply", "continue", "cancel"}
    /\ "cancel" \in Kinds => MaxJobs = 1

\* No stop falls between the last node of a run and the job's terminal status,
\* and the budget gate's check does not raise.
Prompt == {"late", "gate"} \cap Faults = {}

(***************************************************************************)
(* A coroutine that may still write.  A cancel that has not yet cancelled  *)
(* the task stands beside one that may.                                    *)
(***************************************************************************)
Busy(c) == c.pc \notin {"idle", "unwind", "cancel_task"}

NoneActive == \A j \in Jobs : job[j] \notin ActiveStatuses

\* What a resume finds: the status of its job, the checkpoint, the issue.
Resumes == {"answer", "choice"}
HeldAs(kind) == IF kind = "answer" THEN "awaiting_input" ELSE "paused"
HeldAt(kind) == IF kind = "answer" THEN "asked" ELSE "stuck"
HeldIssue(kind) == IF kind = "answer" THEN "awaiting_input" ELSE "open"

(***************************************************************************)
(* What holds while the one busy coroutine stands where it does.  First:   *)
(* a status it has read is still the status.                               *)
(***************************************************************************)
ReadsRight(c) ==
    /\ c.pc \in JobWrites => c.seen \in {NoStatus, job[c.job]}
    /\ c.pc \in IssueWrites => c.seen \in {NoStatus, issue}

\* Where its own job is over, or not yet there: no job is active.
Clear == {"claim_issue", "exec", "create", "rollback", "refuse_issue", "finish_purge", "finish_issue",
          "fail_issue", "fail_purge", "cancel_issue", "cancel_purge"}

\* A cancel whose task is gone and whose job is in any status.
Stopping == {"cancel_wait", "cancel_recheck", "cancel_job"}

\* A reply on its way to a resume.
Replying == {"record", "count", "guard", "resume", "find"}

\* Who will write a terminal status onto a job past its last node.
Ending == {"finish_job"} \cup Stopping

ClearNote(c) ==
    /\ NoneActive
    /\ c.pc \in {"exec", "create", "rollback", "refuse_issue", "finish_purge", "finish_issue"}
          => issue = "triaging"
    /\ c.pc = "claim_issue" /\ c.kind \in TaskKinds => issue = "triaging"
    /\ c.pc \in DispatchPCs => c.kind \in TaskKinds \cup {"triage", "reply"}
    /\ c.kind \in TaskKinds => \A j \in Jobs : PendingOf(j) = {}
    /\ c.pc = "fail_issue" => issue \in {"triaging", "awaiting_input", "open"}
    /\ c.pc = "fail_purge" => issue = "open"
    /\ c.pc \in {"cancel_issue", "cancel_purge"} => "cancel" \in Kinds /\ c.kind = "cancel"

TrackNote(c) == job[c.number] = "pending" /\ c.kind \in TaskKinds \cup {"triage", "reply"}

\* A first run, or one started again from its launch record, before its first node.
FreshNote(c) ==
    /\ c.kind = "fresh"
    /\ ckpt[c.job] = "none"
    /\ job[c.job] \in InFlightStatuses
    /\ c.pc = "stream" => job[c.job] = "running"

\* A run that goes on from its checkpoint.
RestartNote(c) ==
    /\ c.kind = "restart"
    /\ job[c.job] = "running"
    /\ ckpt[c.job] # "none"

\* A resume whose job is, or is again, held.
HeldNote(c) ==
    /\ c.kind \in Resumes
    /\ job[c.job] = HeldAs(c.kind)
    /\ PendingOf(c.job) = {}
    /\ c.pc # "prior_job" => c.priorJob = HeldAs(c.kind)
    /\ c.pc \in {"resume_job", "putback_issue"} => c.priorIssue \in {"triaging", HeldIssue(c.kind)}
    /\ c.pc = "putback_issue" => issue = "triaging"

\* A resume that has marked its job running and not passed the interrupt.
ResumeNote(c) ==
    /\ c.kind \in Resumes
    /\ job[c.job] = "running"
    /\ ckpt[c.job] = HeldAt(c.kind)
    /\ c.priorJob = HeldAs(c.kind)
    /\ c.priorIssue \in {"triaging", HeldIssue(c.kind)}
    /\ c.pc # "resume_issue" => issue = "triaging"

RunNote(c) ==
    /\ job[c.job] = "running"
    /\ c.pc = "nodes" => ckpt[c.job] = "node"
    /\ c.pc = "asking" => ckpt[c.job] = "asked"
    /\ c.pc = "auto_job" => ckpt[c.job] = "moot"
    /\ c.pc = "pause_job" => ckpt[c.job] = "stuck"
    /\ c.pc = "finish_job" => ckpt[c.job] = "end"

ReplyNote(c) ==
    /\ c.kind = "reply" /\ c.job # 0
    /\ \/ job[c.job] = "awaiting_input" /\ issue = "awaiting_input"
       \/ "cancel" \in Kinds /\ NoneActive
    /\ c.pc \in {"guard", "resume", "find"} => PendingOf(c.job) = {}
    /\ c.pc = "resume" => job[c.job] = "awaiting_input"

StopNote(c) ==
    /\ "cancel" \in Kinds /\ c.kind = "cancel"
    /\ \A i \in Jobs : i # c.job => job[i] \notin ActiveStatuses

Note(c) ==
    /\ ReadsRight(c)
    /\ \/ c.pc \in Clear /\ ClearNote(c)
       \/ c.pc = "track" /\ TrackNote(c)
       \/ c.pc \in {"launching", "slot", "gate", "start", "refuse_job", "stream"} /\ FreshNote(c)
       \/ c.pc = "fail_job" /\ ~Prompt /\ FreshNote(c) /\ job[c.job] = "pending"
       \/ c.pc \in {"slot", "stream"} /\ RestartNote(c)
       \/ c.pc \in {"prior_job", "prior_issue", "resume_job", "putback_issue"} /\ HeldNote(c)
       \/ c.pc \in {"resume_issue", "slot", "stream", "putback_job"} /\ ResumeNote(c)
       \/ c.pc \in {"nodes", "asking", "auto_job", "pause_job", "finish_job", "fail_job"} /\ RunNote(c)
       \/ c.pc \in {"pause_issue", "continue"} /\ job[c.job] = "paused"
       \/ c.pc \in {"record", "count", "guard", "resume", "find"} /\ ReplyNote(c)
       \/ c.pc \in Stopping /\ StopNote(c)

(***************************************************************************)
(* What holds of a job's row beside its questions, its checkpoint and the  *)
(* issue.                                                                  *)
(***************************************************************************)
Row(j) ==
    /\ PendingOf(j) # {} => \/ job[j] = "awaiting_input" /\ issue = "awaiting_input"
                            \/ "cancel" \in Kinds /\ job[j] \notin ActiveStatuses \cup {"absent"}
    /\ job[j] = "awaiting_input" => ckpt[j] = "asked"
    /\ job[j] = "paused" => ckpt[j] = "stuck"
    /\ job[j] \in {"absent", "pending"} => ckpt[j] = "none"
    /\ job[j] \in ActiveStatuses => \/ issue = "triaging"
                                    \/ issue = "awaiting_input" /\ ckpt[j] = "asked"
                                    \/ issue = "open" /\ ckpt[j] = "stuck"
    /\ Prompt /\ job[j] = "running" /\ ckpt[j] = "end" =>
          \E p \in Procs : proc[p].pc \in Ending /\ proc[p].job = j

(***************************************************************************)
(* What holds while no coroutine is busy: nothing is in flight.            *)
(***************************************************************************)
AtRest == Prompt /\ orch = "up" => \A j \in Jobs : job[j] \notin InFlightStatuses

CalmInv ==
    /\ ClosedInv
    /\ \A p, q \in Procs : Busy(proc[p]) /\ Busy(proc[q]) => p = q
    /\ \A i, j \in Jobs : job[i] \in ActiveStatuses /\ job[j] \in ActiveStatuses => i = j
    /\ \A p \in Procs : Busy(proc[p]) => Note(proc[p])
    /\ \A j \in Jobs : Row(j)
    /\ (\A p \in Procs : ~Busy(proc[p])) => AtRest
    /\ orch = "booting" => /\ \A j \in Jobs : job[j] \in InFlightStatuses => j \in boot.keep
                           /\ boot.orphaned # {} => NoneActive

LEMMA ActiveNames ==
    /\ ActiveStatuses = {"pending", "running", "awaiting_input", "paused"}
    /\ InFlightStatuses = {"pending", "running"}
BY DEF ActiveStatuses, InFlightStatuses

\* The note a coroutine has, by where it stands.
LEMMA NoteAt ==
    ASSUME NEW c, Note(c)
    PROVE  /\ ReadsRight(c)
           /\ c.pc \in Clear => ClearNote(c)
           /\ c.pc = "track" => TrackNote(c)
           /\ c.pc \in {"launching", "gate", "start", "refuse_job"} => FreshNote(c)
           /\ c.pc \in {"slot", "stream"} => FreshNote(c) \/ RestartNote(c) \/ ResumeNote(c)
           /\ c.pc \in {"prior_job", "prior_issue", "resume_job", "putback_issue"} => HeldNote(c)
           /\ c.pc \in {"resume_issue", "putback_job"} => ResumeNote(c)
           /\ c.pc \in {"nodes", "asking", "auto_job", "pause_job", "finish_job"} => RunNote(c)
           /\ c.pc = "fail_job" => RunNote(c) \/ (~Prompt /\ FreshNote(c) /\ job[c.job] = "pending")
           /\ c.pc \in {"pause_issue", "continue"} => job[c.job] = "paused"
           /\ c.pc \in {"record", "count", "guard", "resume", "find"} => ReplyNote(c)
           /\ c.pc \in Stopping => StopNote(c)
           /\ c.pc \notin {"cancel_task", "idle", "unwind"}
BY DEF Note, Clear, Stopping

\* The job a busy coroutine works on.
Mine(c) == IF c.pc = "track" THEN c.number ELSE c.job

(***************************************************************************)
(* A busy coroutine is the only one, and no job is active but its own.     *)
(***************************************************************************)
LEMMA Alone ==
    ASSUME CalmInv, NEW p \in Procs, Busy(proc[p])
    PROVE  /\ \A q \in Procs : q # p => ~Busy(proc[q])
           /\ Note(proc[p])
           /\ proc[p].pc \notin Clear => Mine(proc[p]) \in Jobs
           /\ \/ proc[p].pc \in Clear \cup Stopping \cup Replying
              \/ job[Mine(proc[p])] \in ActiveStatuses
           /\ \A i \in Jobs : i # Mine(proc[p]) => job[i] \notin ActiveStatuses
           /\ orch \in {"up", "draining"}
<1>1. /\ Note(proc[p])
      /\ \A q \in Procs : q # p => ~Busy(proc[q])
      /\ ClosedInv
  BY DEF CalmInv
<1>2. proc[p].pc # "idle"  BY DEF Busy
<1>3. /\ proc[p] \in Coroutines /\ HasItsJob(proc[p], job) /\ orch \in {"up", "draining"}
      /\ proc[p].job \in 0..MaxJobs
  BY <1>1, <1>2, ClosedParts, AtWork, CoroutineFields
<1>4. ASSUME proc[p].pc \notin Clear
      PROVE  /\ Mine(proc[p]) \in Jobs
             /\ \/ job[Mine(proc[p])] \in ActiveStatuses
                \/ proc[p].pc \in Replying /\ NoneActive
                \/ proc[p].pc \in Stopping /\ StopNote(proc[p])
  <2>1. CASE proc[p].pc = "track"
    <3>1. TrackNote(proc[p])  BY <1>1, <2>1, NoteAt
    <3> QED  BY <1>3, <2>1, <3>1, ActiveNames DEF HasItsJob, TrackNote, Mine
  <2>2. CASE proc[p].pc # "track"
    <3>1. proc[p].job \in Jobs
      <4>1. CASE proc[p].pc \in {"count", "guard", "find"}
        <5>1. proc[p].job # 0  BY <1>1, <4>1, NoteAt DEF ReplyNote
        <5> QED  BY <1>3, <5>1, BoundsAssumption DEF Jobs
      <4>2. CASE proc[p].pc \notin {"count", "guard", "find"}
        <5>1. proc[p].pc \notin JoblessPCs  BY <1>4, <2>2, <4>2 DEF JoblessPCs, Clear
        <5> QED  BY <1>1, <1>2, <5>1, ClosedParts, AtWork
      <4> QED  BY <4>1, <4>2
    <3>2. \/ job[proc[p].job] \in {"pending", "running", "awaiting_input", "paused"}
          \/ proc[p].pc \in Replying /\ NoneActive
          \/ proc[p].pc \in Stopping /\ StopNote(proc[p])
      BY <1>1, <1>4, <2>2 DEF Note, FreshNote, RestartNote, HeldNote, HeldAs, ResumeNote, RunNote, ReplyNote,
                              InFlightStatuses, Replying
    <3> QED  BY <2>2, <3>1, <3>2, ActiveNames DEF Mine
  <2> QED  BY <2>1, <2>2
<1>5. ASSUME NEW i \in Jobs, i # Mine(proc[p]) PROVE job[i] \notin ActiveStatuses
  <2>1. CASE proc[p].pc \in Clear  BY <1>1, <2>1, NoteAt DEF ClearNote, NoneActive
  <2>2. CASE job[Mine(proc[p])] \in ActiveStatuses /\ Mine(proc[p]) \in Jobs  BY <1>5, <2>2 DEF CalmInv
  <2>3. CASE proc[p].pc \in Stopping /\ StopNote(proc[p])
    BY <1>5, <2>3 DEF StopNote, Mine, Stopping
  <2> QED  BY <1>4, <1>5, <2>1, <2>2, <2>3 DEF NoneActive
<1> QED  BY <1>1, <1>3, <1>4, <1>5

\* An inactive job whose row, checkpoint and questions stay keeps its Row.
LEMMA OtherRow ==
    ASSUME NEW i \in Jobs, Row(i), job[i] \notin ActiveStatuses,
           job'[i] = job[i], ckpt'[i] = ckpt[i], input'[i] = input[i]
    PROVE  Row(i)'
<1>1. PendingOf(i)' = PendingOf(i)  BY DEF PendingOf
<1>2. job[i] \notin {"pending", "running", "awaiting_input", "paused"}  BY ActiveNames
<1> QED  BY <1>1, <1>2, ActiveNames DEF Row

(***************************************************************************)
(* The invariant again, when at most one coroutine is busy.                *)
(***************************************************************************)
LEMMA CalmWhole ==
    ASSUME ClosedInv', NEW p \in Procs,
           \A q \in Procs : q # p => ~Busy(proc'[q]),
           \A i, k \in Jobs : job'[i] \in ActiveStatuses /\ job'[k] \in ActiveStatuses => i = k,
           \A i \in Jobs : Row(i)',
           Busy(proc'[p]) => Note(proc[p])',
           ~Busy(proc'[p]) => AtRest',
           orch' # "booting"
    PROVE  CalmInv'
<1>1. \A q \in Procs : q # p => ~Busy(proc[q])'  BY DEF Busy
<1>4. Busy(proc'[p]) <=> Busy(proc[p])'  BY DEF Busy
<1>5. (\A q \in Procs : ~Busy(proc[q])') => AtRest'  BY <1>4
<1>7. \A q \in Procs : Busy(proc[q])' => Note(proc[q])'  BY <1>1, <1>4
<1>8. \A q, r \in Procs : Busy(proc[q])' /\ Busy(proc[r])' => q = r  BY <1>1
<1> QED  BY <1>5, <1>7, <1>8 DEF CalmInv

(***************************************************************************)
(* One coroutine steps and at most one row changes with it.                *)
(***************************************************************************)
LEMMA CalmRows ==
    ASSUME CalmInv, ClosedInv', NEW p \in Procs, NEW j, Busy(proc[p]),
           \A q \in Procs : q # p => proc'[q] = proc[q],
           \A i \in Jobs : i # j => /\ job[i] \notin ActiveStatuses
                                    /\ job'[i] = job[i] /\ ckpt'[i] = ckpt[i] /\ input'[i] = input[i],
           j \in Jobs => Row(j)',
           Busy(proc'[p]) => Note(proc[p])',
           ~Busy(proc'[p]) => AtRest',
           orch' # "booting"
    PROVE  CalmInv'
<1>1. \A q \in Procs : q # p => ~Busy(proc'[q])  BY Alone
<1>2. \A i \in Jobs : i # j => job'[i] \notin ActiveStatuses  OBVIOUS
<1>3. \A i \in Jobs : i # j => Row(i)'  BY OtherRow DEF CalmInv
<1>6. \A i \in Jobs : Row(i)'  BY <1>3
<1>9. \A i, k \in Jobs : job'[i] \in ActiveStatuses /\ job'[k] \in ActiveStatuses => i = k  BY <1>2
<1> QED  BY <1>1, <1>6, <1>9, CalmWhole

\* A row beside which nothing changes.
LEMMA SameRow ==
    ASSUME NEW j \in Jobs, Row(j), issue' = issue,
           job'[j] = job[j], ckpt'[j] = ckpt[j], input'[j] = input[j],
           \A q \in Procs : proc[q].pc \in Ending =>
              /\ proc'[q].pc \in Ending
              /\ proc'[q].job = proc[q].job
    PROVE  Row(j)'
<1>1. PendingOf(j)' = PendingOf(j)  BY DEF PendingOf
<1> QED  BY <1>1 DEF Row

(***************************************************************************)
(* One coroutine steps and no row changes.                                 *)
(***************************************************************************)
LEMMA CalmMove ==
    ASSUME CalmInv, ClosedInv', NEW p \in Procs, Busy(proc[p]),
           proc[p].pc \notin Ending,
           \A q \in Procs : q # p => proc'[q] = proc[q],
           UNCHANGED <<issue, job, ckpt, input>>, orch' # "booting",
           Busy(proc'[p]) => Note(proc[p])',
           ~Busy(proc'[p]) => AtRest'
    PROVE  CalmInv'
<1>1. \A q \in Procs : q # p => ~Busy(proc'[q])  BY Alone
<1>2. \A q \in Procs : proc[q].pc \in Ending => proc'[q] = proc[q]  OBVIOUS
<1>3. \A i \in Jobs : Row(i)'  BY <1>2, SameRow DEF CalmInv
<1>4. \A i, k \in Jobs : job'[i] \in ActiveStatuses /\ job'[k] \in ActiveStatuses => i = k  BY DEF CalmInv
<1> QED  BY <1>1, <1>3, <1>4, CalmWhole

(***************************************************************************)
(* What is at rest: an executor that drains, and an issue whose jobs are   *)
(* over.                                                                   *)
(***************************************************************************)
LEMMA RestDown ==
    ASSUME orch' # "up"
    PROVE  AtRest'
BY DEF AtRest

LEMMA RestClear ==
    ASSUME \A j \in Jobs : job'[j] \notin ActiveStatuses
    PROVE  AtRest'
<1>1. \A j \in Jobs : job'[j] \notin {"pending", "running", "awaiting_input", "paused"}  BY ActiveNames
<1> QED  BY <1>1, ActiveNames DEF AtRest

\* Where Goto leaves the coroutine.
LEMMA Went ==
    ASSUME CalmInv, NEW p \in Procs, NEW pc, Goto(p, pc)
    PROVE  /\ \A q \in Procs : q # p => proc'[q] = proc[q]
           /\ pc = "idle" => proc'[p] = Idle
           /\ pc # "idle" => /\ proc'[p].pc = pc /\ proc'[p].seen = NoStatus
                             /\ proc'[p].kind = proc[p].kind /\ proc'[p].job = proc[p].job
                             /\ proc'[p].priorJob = proc[p].priorJob /\ proc'[p].priorIssue = proc[p].priorIssue
                             /\ proc'[p].ending = proc[p].ending /\ proc'[p].channel = proc[p].channel
                             /\ proc'[p].number = proc[p].number
                             /\ ReadsRight(proc[p])'
           /\ Busy(proc'[p]) <=> pc \notin {"idle", "unwind", "cancel_task"}
<1>1. proc \in [Procs -> Coroutines] /\ proc[p] \in Coroutines  BY ClosedParts, ShapeParts DEF CalmInv
<1>2. CASE pc = "idle"
  <2>1. proc' = [proc EXCEPT ![p] = Idle]  BY <1>2 DEF Goto
  <2> QED  BY <1>1, <1>2, <2>1, IdleFields DEF Busy
<1>3. CASE pc # "idle"
  <2>1. proc' = [proc EXCEPT ![p] = [proc[p] EXCEPT !.pc = pc, !.seen = NoStatus]]  BY <1>1, <1>3 DEF Goto
  <2>2. proc'[p] = [proc[p] EXCEPT !.pc = pc, !.seen = NoStatus]  BY <1>1, <2>1
  <2>3. /\ proc'[p].pc = pc /\ proc'[p].seen = NoStatus
        /\ proc'[p].kind = proc[p].kind /\ proc'[p].job = proc[p].job
        /\ proc'[p].priorJob = proc[p].priorJob /\ proc'[p].priorIssue = proc[p].priorIssue
        /\ proc'[p].ending = proc[p].ending /\ proc'[p].channel = proc[p].channel
        /\ proc'[p].number = proc[p].number
    BY <1>1, <2>2 DEF Coroutines
  <2>4. \A q \in Procs : q # p => proc'[q] = proc[q]  BY <1>1, <2>1
  <2>5. ReadsRight(proc[p])'  BY <2>3 DEF ReadsRight
  <2> QED  BY <1>3, <2>3, <2>4, <2>5 DEF Busy
<1> QED  BY <1>2, <1>3

\* A step that only moves p.
LEMMA CalmStep ==
    ASSUME CalmInv, ClosedInv', NEW p \in Procs, NEW at, NEW pc, Step(p, at, pc),
           at \notin Ending \cup {"idle", "unwind", "cancel_task"},
           pc \notin {"idle", "unwind", "cancel_task"} => Note(proc[p])',
           pc \in {"idle", "unwind", "cancel_task"} => AtRest'
    PROVE  CalmInv'
<1>1. Goto(p, pc) /\ UNCHANGED <<issue, job, ckpt, input, orch>> /\ proc[p].pc = at  BY DEF Step, At
<1>2. Busy(proc[p]) /\ orch' # "booting"  BY <1>1, Alone DEF Busy
<1> QED  BY <1>1, <1>2, Went, CalmMove DEF Ending, Stopping

(***************************************************************************)
(* An update whose move the table has: what it has read is what is there,  *)
(* so it writes and goes on.                                               *)
(***************************************************************************)
LEMMA CalmJob ==
    ASSUME CalmInv, NEW p \in Procs, NEW moves, NEW at, NEW new, NEW next, NEW handler,
           UpdateJobBy(moves, p, at, new, next, handler), at \in JobWrites,
           job[proc[p].job] = new \/ <<job[proc[p].job], new>> \in moves
    PROVE  /\ proc[p].pc = at /\ Busy(proc[p]) /\ proc[p].job \in Jobs
           /\ job'[proc[p].job] = new
           /\ \A i \in Jobs : i # proc[p].job => /\ job[i] \notin ActiveStatuses
                                                 /\ job'[i] = job[i] /\ ckpt'[i] = ckpt[i] /\ input'[i] = input[i]
           /\ Goto(p, next)
           /\ UNCHANGED <<issue, launch, ckpt, input, byJob, orch, boot, stops>>
           /\ orch' # "booting"
<1> DEFINE mine == proc[p].job
<1>1. proc[p].pc = at /\ Busy(proc[p]) /\ proc[p].seen # NoStatus
  BY DEF UpdateJobBy, At, Busy, JobWrites
<1>2. mine \in Jobs
  <2>1. proc[p].pc \notin JoblessPCs /\ proc[p].pc # "idle"  BY <1>1 DEF JobWrites, JoblessPCs
  <2> QED  BY <2>1, ClosedParts, AtWork DEF CalmInv
<1>3. proc[p].seen = job[mine]  BY <1>1, Alone, NoteAt DEF ReadsRight
<1>4. job \in [Jobs -> JobStatuses \cup {"absent"}]  BY ClosedParts, ShapeParts DEF CalmInv
<1>5. \A i \in Jobs : i # mine => job[i] \notin ActiveStatuses
  BY <1>1, Alone DEF Mine, JobWrites
<1>6. UNCHANGED <<issue, launch, ckpt, input, byJob, orch, boot, stops>>  BY DEF UpdateJobBy
<1>7. job' = [job EXCEPT ![mine] = StatusAfter(moves, proc[p].seen, @, new)]  BY DEF UpdateJobBy
<1>8. Goto(p, IF UpdateRaises(moves, proc[p].seen, job[mine], new) THEN handler ELSE next)  BY DEF UpdateJobBy
<1>9. orch' # "booting"  BY <1>1, <1>6, Alone
<1>10. job[mine] = new \/ <<job[mine], new>> \in moves  OBVIOUS
<1> HIDE DEF mine
<1>11. ~UpdateRaises(moves, proc[p].seen, job[mine], new)  BY <1>3, <1>10 DEF UpdateRaises
<1>12. StatusAfter(moves, proc[p].seen, job[mine], new) = new  BY <1>3, <1>11 DEF StatusAfter
<1>13. job'[mine] = new /\ \A i \in Jobs : i # mine => job'[i] = job[i]  BY <1>2, <1>4, <1>7, <1>12
<1>14. Goto(p, next)  BY <1>8, <1>11
<1> QED  BY <1>1, <1>2, <1>5, <1>6, <1>9, <1>13, <1>14 DEF mine

LEMMA CalmIssue ==
    ASSUME CalmInv, NEW p \in Procs, NEW at, NEW new, NEW next, NEW handler,
           UpdateIssue(p, at, new, next, handler), at \in IssueWrites,
           issue = new \/ <<issue, new>> \in IssueMoves
    PROVE  /\ proc[p].pc = at /\ Busy(proc[p])
           /\ issue' = new
           /\ Goto(p, next)
           /\ UNCHANGED <<job, launch, ckpt, input, byJob, orch, boot, stops>>
           /\ orch' # "booting"
<1>1. proc[p].pc = at /\ Busy(proc[p]) /\ proc[p].seen # NoStatus
  BY DEF UpdateIssue, At, Busy, IssueWrites
<1>2. proc[p].seen = issue  BY <1>1, Alone, NoteAt DEF ReadsRight
<1>3. UNCHANGED <<job, launch, ckpt, input, byJob, orch, boot, stops>>  BY DEF UpdateIssue
<1>4. ~UpdateRaises(IssueMoves, proc[p].seen, issue, new)  BY <1>2 DEF UpdateRaises
<1>5. issue' = new  BY <1>2, <1>4 DEF UpdateIssue, StatusAfter
<1>6. Goto(p, next)  BY <1>4 DEF UpdateIssue
<1>7. orch' # "booting"  BY <1>1, <1>3, Alone
<1> QED  BY <1>1, <1>3, <1>5, <1>6, <1>7

-----------------------------------------------------------------------------
(* How a row comes out of a write.                                         *)

\* The job is taken to running, or held where its checkpoint is.
LEMMA RowHeldOrRuns ==
    ASSUME NEW j \in Jobs, Row(j), job[j] \in ActiveStatuses, PendingOf(j) = {},
           issue' = issue, ckpt'[j] = ckpt[j], input'[j] = input[j], ckpt[j] # "end",
           \/ job'[j] = "running"
           \/ job'[j] = "awaiting_input" /\ ckpt[j] = "asked"
           \/ job'[j] = "paused" /\ ckpt[j] = "stuck"
    PROVE  Row(j)'
<1>1. PendingOf(j)' = {}  BY DEF PendingOf
<1> QED  BY <1>1 DEF Row

\* The job is over.
LEMMA RowOver ==
    ASSUME NEW j \in Jobs, PendingOf(j) = {}, input'[j] = input[j],
           job'[j] \notin ActiveStatuses \cup {"absent"}
    PROVE  Row(j)'
<1>1. PendingOf(j)' = {}  BY DEF PendingOf
<1>2. job'[j] \notin {"pending", "running", "awaiting_input", "paused"}  BY ActiveNames
<1> QED  BY <1>1, <1>2, ActiveNames DEF Row

\* The run comes to another point, with the issue triaging.
LEMMA RowPoint ==
    ASSUME NEW j \in Jobs, Row(j), job[j] = "running", issue' = "triaging", issue = "triaging", job'[j] = job[j],
           input'[j] = input[j], ckpt'[j] # "end"
    PROVE  Row(j)'
<1>1. PendingOf(j)' = {}  BY ActiveNames DEF PendingOf, Row
<1> QED  BY <1>1 DEF Row

\* The issue is moved beside a job that has nothing pending.
LEMMA RowIssue ==
    ASSUME NEW j \in Jobs, Row(j), PendingOf(j) = {}, ckpt[j] # "end",
           job'[j] = job[j], ckpt'[j] = ckpt[j], input'[j] = input[j],
           \/ issue' = "triaging"
           \/ issue' = "awaiting_input" /\ ckpt[j] = "asked"
           \/ issue' = "open" /\ ckpt[j] = "stuck"
    PROVE  Row(j)'
<1>1. PendingOf(j)' = {}  BY DEF PendingOf
<1> QED  BY <1>1 DEF Row

\* Nothing is pending when the one active job has nothing pending.
LEMMA NoneOpen ==
    ASSUME Calm, CalmInv, NEW j \in Jobs, job[j] \in ActiveStatuses, PendingOf(j) = {}, input' = input
    PROVE  \A i \in Jobs : PendingOf(i)' = {}
<1>1. ASSUME NEW i \in Jobs, PendingOf(i) # {} PROVE FALSE
  <2>1. i # j  BY <1>1
  <2>2. job[i] \notin ActiveStatuses  BY <2>1 DEF CalmInv
  <2>3. "cancel" \in Kinds  BY <1>1, <2>2, ActiveNames DEF CalmInv, Row
  <2>4. MaxJobs = 1  BY <2>3 DEF Calm
  <2> QED  BY <2>1, <2>4, BoundsAssumption DEF Jobs
<1> QED  BY <1>1 DEF PendingOf

\* The moves of the tables that the sequence of the handlers makes.
LEMMA MovesMade ==
    /\ {"pending", "awaiting_input", "paused"} \X {"running", "failed"} \subseteq AllJobMoves
    /\ {"pending", "awaiting_input", "paused"} \X {"running"} \subseteq JobMoves
    /\ {"running"} \X {"completed", "failed", "awaiting_input", "paused"} \subseteq JobMoves
    /\ {"running"} \X {"completed", "failed", "awaiting_input", "paused"} \subseteq AllJobMoves
    /\ {"open", "awaiting_input"} \X {"triaging"} \subseteq IssueMoves
    /\ {"triaging"} \X {"open", "awaiting_input", "closed"} \subseteq IssueMoves
    /\ <<"awaiting_input", "open">> \in IssueMoves
BY DEF AllJobMoves, JobMoves, GateRefusal, IssueMoves

-----------------------------------------------------------------------------
(* One thing at a time: a task before its run.                             *)

LEMMA LaunchCalm ==
    ASSUME CalmInv, ClosedInv', NEW p \in Procs, Launch(p)
    PROVE  CalmInv'
<1>1. proc[p].pc = "launching" /\ Busy(proc[p])  BY DEF Launch, At, Busy
<1>2. FreshNote(proc[p]) /\ orch \in {"up", "draining"}  BY <1>1, Alone, NoteAt
<1>3. UNCHANGED <<issue, job, ckpt, input, orch>>  BY DEF Launch
<1>4. CASE orch = "draining"
  <2>1. Goto(p, "unwind")  BY <1>4 DEF Launch
  <2>2. AtRest'  BY <1>3, <1>4, ClosedParts, RestDown DEF ClosedInv
  <2> QED  BY <1>1, <1>2, <1>3, <2>1, <2>2, Went, CalmMove DEF Ending, Stopping
<1>5. CASE orch # "draining"
  <2>1. Goto(p, "slot")  BY <1>5 DEF Launch
  <2>2. FreshNote(proc[p])'  BY <1>2, <1>3, <2>1, Went DEF FreshNote
  <2>3. Note(proc[p])'  BY <2>1, <2>2, Went DEF Note
  <2> QED  BY <1>1, <1>2, <1>3, <2>1, <2>3, Went, CalmMove DEF Ending, Stopping
<1> QED  BY <1>4, <1>5

LEMMA TakeSlotCalm ==
    ASSUME CalmInv, ClosedInv', NEW p \in Procs, TakeSlot(p)
    PROVE  CalmInv'
<1>1. PICK pc : pc = (IF proc[p].kind = "fresh" THEN "gate" ELSE "stream")  OBVIOUS
<1>2. Step(p, "slot", pc)  BY <1>1 DEF TakeSlot
<1>3. proc[p].pc = "slot" /\ Goto(p, pc) /\ UNCHANGED <<issue, job, ckpt, input>>  BY <1>2 DEF Step, At
<1>4. FreshNote(proc[p]) \/ RestartNote(proc[p]) \/ ResumeNote(proc[p])
  BY <1>3, Alone, NoteAt DEF Busy
<1>5. CASE FreshNote(proc[p])
  <2>1. pc = "gate"  BY <1>1, <1>5 DEF FreshNote
  <2>2. FreshNote(proc[p])'  BY <1>3, <1>5, <2>1, Went DEF FreshNote
  <2>3. Note(proc[p])'  BY <1>3, <2>1, <2>2, Went DEF Note
  <2> QED  BY <1>2, <2>1, <2>3, CalmStep DEF Ending, Stopping
<1>6. CASE RestartNote(proc[p])
  <2>1. pc = "stream"  BY <1>1, <1>6 DEF RestartNote
  <2>2. RestartNote(proc[p])'  BY <1>3, <1>6, <2>1, Went DEF RestartNote
  <2>3. Note(proc[p])'  BY <1>3, <2>1, <2>2, Went DEF Note
  <2> QED  BY <1>2, <2>1, <2>3, CalmStep DEF Ending, Stopping
<1>7. CASE ResumeNote(proc[p])
  <2>1. pc = "stream"  BY <1>1, <1>7 DEF ResumeNote, Resumes
  <2>2. ResumeNote(proc[p])'  BY <1>3, <1>7, <2>1, Went DEF ResumeNote, PendingOf
  <2>3. Note(proc[p])'  BY <1>3, <2>1, <2>2, Went DEF Note
  <2> QED  BY <1>2, <2>1, <2>3, CalmStep DEF Ending, Stopping
<1> QED  BY <1>4, <1>5, <1>6, <1>7

LEMMA GateCalm ==
    ASSUME CalmInv, ClosedInv', NEW p \in Procs, Gate(p)
    PROVE  CalmInv'
<1>1. PICK pc \in {"start", "refuse_job", "fail_job"} :
           Step(p, "gate", pc) /\ (pc = "fail_job" => "gate" \in Faults)
  BY DEF Gate
<1>2. proc[p].pc = "gate" /\ Goto(p, pc) /\ UNCHANGED <<issue, job, ckpt, input>>  BY <1>1 DEF Step, At
<1>3. FreshNote(proc[p])  BY <1>2, Alone, NoteAt DEF Busy
<1>4. /\ FreshNote(proc[p])' /\ proc'[p].pc = pc /\ ReadsRight(proc[p])'
      /\ proc'[p].job = proc[p].job /\ job' = job
  BY <1>2, <1>3, Went DEF FreshNote
<1>5. Note(proc[p])'
  <2>1. CASE pc # "fail_job"  BY <1>1, <1>4, <2>1 DEF Note
  <2>2. CASE pc = "fail_job" /\ job[proc[p].job] = "pending"
    <3>1. ~Prompt  BY <1>1, <2>2 DEF Prompt
    <3> QED  BY <1>4, <2>2, <3>1 DEF Note, Prompt
  <2>3. CASE pc = "fail_job" /\ job[proc[p].job] = "running"
    <3>1. RunNote(proc[p])'  BY <1>4, <2>3 DEF RunNote
    <3> QED  BY <1>4, <2>3, <3>1 DEF Note
  <2> QED  BY <1>3, <2>1, <2>2, <2>3, ActiveNames DEF FreshNote
<1> QED  BY <1>1, <1>5, CalmStep DEF Ending, Stopping

\* A fresh run's issue is triaging, and nothing of its job is pending.
LEMMA FreshRow ==
    ASSUME CalmInv, NEW j \in Jobs, job[j] \in InFlightStatuses, ckpt[j] = "none"
    PROVE  Row(j) /\ PendingOf(j) = {} /\ issue = "triaging" /\ job[j] \in ActiveStatuses
<1>1. Row(j)  BY DEF CalmInv
<1> QED  BY <1>1, ActiveNames DEF Row

LEMMA RunningRow ==
    ASSUME CalmInv, NEW j \in Jobs, job[j] = "running"
    PROVE  /\ Row(j) /\ PendingOf(j) = {} /\ job[j] \in ActiveStatuses
           /\ \/ issue = "triaging"
              \/ issue = "awaiting_input" /\ ckpt[j] = "asked"
              \/ issue = "open" /\ ckpt[j] = "stuck"
<1>1. Row(j)  BY DEF CalmInv
<1> QED  BY <1>1, ActiveNames DEF Row

LEMMA RefuseJobCalm ==
    ASSUME Calm, CalmInv, ClosedInv', NEW p \in Procs, RefuseJob(p)
    PROVE  CalmInv'
<1>1. PICK j : j = proc[p].job  OBVIOUS
<1>2. /\ UpdateJobBy(AllJobMoves, p, "refuse_job", "failed", "refuse_issue", "refuse_issue")
      /\ proc[p].pc = "refuse_job"
  BY DEF RefuseJob, AllJobMoves, UpdateJobBy, At
<1>3. FreshNote(proc[p])  BY <1>2, Alone, NoteAt DEF Busy
<1>4. <<job[j], "failed">> \in AllJobMoves /\ "refuse_job" \in JobWrites
  BY <1>1, <1>3, MovesMade, ActiveNames DEF FreshNote, JobWrites
<1>5. /\ Busy(proc[p]) /\ j \in Jobs /\ job'[j] = "failed" /\ Goto(p, "refuse_issue")
      /\ \A i \in Jobs : i # j => /\ job[i] \notin ActiveStatuses
                                  /\ job'[i] = job[i] /\ ckpt'[i] = ckpt[i] /\ input'[i] = input[i]
      /\ UNCHANGED <<issue, launch, ckpt, input, byJob, orch, boot, stops>> /\ orch' # "booting"
  BY <1>1, <1>2, <1>4, CalmJob
<1>6. PendingOf(j) = {} /\ issue = "triaging"  BY <1>1, <1>3, <1>5, FreshRow DEF FreshNote
<1>7. Row(j)'  BY <1>5, <1>6, RowOver, ActiveNames
<1>8. NoneActive'  BY <1>5, ActiveNames DEF NoneActive
<1>9. ClearNote(proc[p])'
  <2>1. \A i \in Jobs : PendingOf(i)' = {}  BY <1>1, <1>3, <1>5, <1>6, FreshRow, NoneOpen DEF FreshNote
  <2> QED  BY <1>5, <1>6, <1>8, <2>1, Went DEF ClearNote, DispatchPCs
<1>10. Note(proc[p])'  BY <1>5, <1>9, Went DEF Note, Clear
<1> QED  BY <1>5, <1>7, <1>10, Went, CalmRows

LEMMA RefuseIssueCalm ==
    ASSUME CalmInv, ClosedInv', NEW p \in Procs, RefuseIssue(p)
    PROVE  CalmInv'
<1>1. proc[p].pc = "refuse_issue"  BY DEF RefuseIssue, UpdateIssue, At
<1>2. ClearNote(proc[p])  BY <1>1, Alone, NoteAt DEF Busy, Clear
<1>3. issue = "triaging" /\ NoneActive  BY <1>1, <1>2 DEF ClearNote
<1>4. /\ Busy(proc[p]) /\ issue' = "open" /\ Goto(p, "unwind") /\ orch' # "booting"
      /\ UNCHANGED <<job, launch, ckpt, input, byJob, orch, boot, stops>>
  <2>1. UpdateIssue(p, "refuse_issue", "open", "unwind", "unwind")  BY DEF RefuseIssue
  <2>2. <<issue, "open">> \in IssueMoves /\ "refuse_issue" \in IssueWrites  BY <1>3, MovesMade DEF IssueWrites
  <2> QED  BY <2>1, <2>2, CalmIssue
<1>5. AtRest'  BY <1>3, <1>4, RestClear DEF NoneActive
<1>6. 0 \notin Jobs  BY DEF Jobs
<1> QED  BY <1>3, <1>4, <1>5, <1>6, Went, CalmRows DEF NoneActive

LEMMA StartCalm ==
    ASSUME CalmInv, ClosedInv', NEW p \in Procs, Start(p)
    PROVE  CalmInv'
<1>1. PICK j : j = proc[p].job  OBVIOUS
<1>2. UpdateJobBy(JobMoves, p, "start", "running", "stream", "fail_job") /\ proc[p].pc = "start"
  BY DEF Start, UpdateJob, UpdateJobBy, At
<1>3. FreshNote(proc[p])  BY <1>2, Alone, NoteAt DEF Busy
<1>4. job[proc[p].job] = "running" \/ <<job[proc[p].job], "running">> \in JobMoves
  BY <1>3, MovesMade, ActiveNames DEF FreshNote
<1>5. /\ Busy(proc[p]) /\ j \in Jobs /\ job'[j] = "running" /\ Goto(p, "stream")
      /\ \A i \in Jobs : i # j => /\ job[i] \notin ActiveStatuses
                                  /\ job'[i] = job[i] /\ ckpt'[i] = ckpt[i] /\ input'[i] = input[i]
      /\ UNCHANGED <<issue, launch, ckpt, input, byJob, orch, boot, stops>> /\ orch' # "booting"
  <2>1. "start" \in JobWrites  BY DEF JobWrites
  <2>2. /\ Busy(proc[p]) /\ proc[p].job \in Jobs /\ job'[proc[p].job] = "running" /\ Goto(p, "stream")
        /\ \A i \in Jobs : i # proc[p].job => /\ job[i] \notin ActiveStatuses
                                              /\ job'[i] = job[i] /\ ckpt'[i] = ckpt[i] /\ input'[i] = input[i]
        /\ UNCHANGED <<issue, launch, ckpt, input, byJob, orch, boot, stops>> /\ orch' # "booting"
    BY <1>2, <1>4, <2>1, CalmJob
  <2> QED  BY <1>1, <2>2
<1>6. Row(j) /\ PendingOf(j) = {} /\ job[j] \in ActiveStatuses /\ ckpt[j] = "none"
  BY <1>1, <1>3, <1>5, FreshRow DEF FreshNote
<1>7. Row(j)'  BY <1>5, <1>6, RowHeldOrRuns
<1>8. FreshNote(proc[p])'  BY <1>1, <1>3, <1>5, Went, ActiveNames DEF FreshNote
<1>9. Note(proc[p])'  BY <1>5, <1>8, Went DEF Note
<1> QED  BY <1>5, <1>7, <1>9, Went, CalmRows

\* The row of a held job.
LEMMA HeldRow ==
    ASSUME CalmInv, NEW j \in Jobs, NEW kind \in Resumes, job[j] = HeldAs(kind)
    PROVE  /\ Row(j) /\ job[j] \in ActiveStatuses /\ ckpt[j] = HeldAt(kind) /\ ckpt[j] # "end"
           /\ issue \in {"triaging", HeldIssue(kind)}
           /\ job[j] \notin InFlightStatuses
<1>1. Row(j)  BY DEF CalmInv
<1> QED  BY <1>1, ActiveNames DEF Row, Resumes, HeldAs, HeldAt, HeldIssue

LEMMA KeepPriorCalm ==
    ASSUME CalmInv, ClosedInv', NEW p \in Procs, KeepPrior(p)
    PROVE  CalmInv'
<1>1. /\ proc[p].pc \in {"prior_job", "prior_issue"}
      /\ UNCHANGED <<issue, job, launch, ckpt, input, byJob, orch, boot, stops>>
  BY DEF KeepPrior, At
<1>2. Busy(proc[p]) /\ HeldNote(proc[p]) /\ orch' # "booting"  BY <1>1, Alone, NoteAt DEF Busy
<1>3. proc \in [Procs -> Coroutines] /\ proc[p] \in Coroutines /\ ClosedInv  BY ClosedParts, ShapeParts DEF CalmInv
<1>4. proc[p].job \in Jobs
  <2>1. proc[p].pc \notin JoblessPCs /\ proc[p].pc # "idle"  BY <1>1 DEF JoblessPCs
  <2> QED  BY <1>3, <2>1, ClosedParts, AtWork
<1>5. proc[p].seen = NoStatus
  <2>1. proc[p].pc \notin JobWrites \cup IssueWrites  BY <1>1 DEF JobWrites, IssueWrites
  <2> QED  BY <1>3, <2>1, ReadNothing
<1>6. CASE proc[p].pc = "prior_job"
  <2>1. proc' = [proc EXCEPT ![p] = [proc[p] EXCEPT !.priorJob = job[proc[p].job], !.pc = "prior_issue"]]
    BY <1>3, <1>6 DEF KeepPrior, At
  <2>2. proc'[p] = [proc[p] EXCEPT !.priorJob = job[proc[p].job], !.pc = "prior_issue"]  BY <1>3, <2>1
  <2>3. /\ proc'[p].pc = "prior_issue" /\ proc'[p].seen = NoStatus /\ proc'[p].kind = proc[p].kind
        /\ proc'[p].job = proc[p].job /\ proc'[p].priorJob = job[proc[p].job]
    BY <1>3, <1>5, <2>2 DEF Coroutines
  <2>4. \A q \in Procs : q # p => proc'[q] = proc[q]  BY <1>3, <2>1
  <2>5. HeldNote(proc[p])'  BY <1>1, <1>2, <2>3 DEF HeldNote, PendingOf
  <2>6. Note(proc[p])'  BY <2>3, <2>5 DEF Note, ReadsRight
  <2> QED  BY <1>1, <1>2, <1>6, <2>3, <2>4, <2>6, CalmMove DEF Busy, Ending, Stopping
<1>7. CASE proc[p].pc = "prior_issue"
  <2>1. proc' = [proc EXCEPT ![p] = [proc[p] EXCEPT !.priorIssue = issue, !.pc = "resume_job"]]
    BY <1>3, <1>7 DEF KeepPrior, At
  <2>2. proc'[p] = [proc[p] EXCEPT !.priorIssue = issue, !.pc = "resume_job"]  BY <1>3, <2>1
  <2>3. /\ proc'[p].pc = "resume_job" /\ proc'[p].seen = NoStatus /\ proc'[p].kind = proc[p].kind
        /\ proc'[p].job = proc[p].job /\ proc'[p].priorJob = proc[p].priorJob /\ proc'[p].priorIssue = issue
    BY <1>3, <1>5, <2>2 DEF Coroutines
  <2>4. \A q \in Procs : q # p => proc'[q] = proc[q]  BY <1>3, <2>1
  <2>5. issue \in {"triaging", HeldIssue(proc[p].kind)}  BY <1>2, <1>4, HeldRow DEF HeldNote
  <2>6. HeldNote(proc[p])'  BY <1>1, <1>2, <1>7, <2>3, <2>5 DEF HeldNote, PendingOf
  <2>7. Note(proc[p])'  BY <2>3, <2>6 DEF Note, ReadsRight
  <2> QED  BY <1>1, <1>2, <1>7, <2>3, <2>4, <2>7, CalmMove DEF Busy, Ending, Stopping
<1> QED  BY <1>1, <1>6, <1>7

LEMMA ResumeJobCalm ==
    ASSUME CalmInv, ClosedInv', NEW p \in Procs, ResumeJob(p)
    PROVE  CalmInv'
<1>1. PICK j : j = proc[p].job  OBVIOUS
<1>2. UpdateJobBy(JobMoves, p, "resume_job", "running", "resume_issue", "fail_job") /\ proc[p].pc = "resume_job"
  BY DEF ResumeJob, UpdateJob, UpdateJobBy, At
<1>3. HeldNote(proc[p])  BY <1>2, Alone, NoteAt DEF Busy
<1>4. <<job[j], "running">> \in JobMoves /\ "resume_job" \in JobWrites
  BY <1>1, <1>3, MovesMade DEF HeldNote, HeldAs, JobWrites
<1>5. /\ Busy(proc[p]) /\ j \in Jobs /\ job'[j] = "running" /\ Goto(p, "resume_issue")
      /\ \A i \in Jobs : i # j => /\ job[i] \notin ActiveStatuses
                                  /\ job'[i] = job[i] /\ ckpt'[i] = ckpt[i] /\ input'[i] = input[i]
      /\ UNCHANGED <<issue, launch, ckpt, input, byJob, orch, boot, stops>> /\ orch' # "booting"
  BY <1>1, <1>2, <1>4, CalmJob
<1>6. PICK kind : kind = proc[p].kind  OBVIOUS
<1>7. /\ kind \in Resumes /\ job[j] = HeldAs(kind) /\ PendingOf(j) = {}
      /\ proc[p].priorJob = HeldAs(kind) /\ proc[p].priorIssue \in {"triaging", HeldIssue(kind)}
  BY <1>1, <1>2, <1>3, <1>6 DEF HeldNote
<1>8. /\ Row(j) /\ job[j] \in ActiveStatuses /\ ckpt[j] = HeldAt(kind) /\ ckpt[j] # "end"
  BY <1>5, <1>7, HeldRow
<1>9. Row(j)'  BY <1>5, <1>7, <1>8, RowHeldOrRuns
<1>10. ResumeNote(proc[p])'  BY <1>1, <1>5, <1>6, <1>7, <1>8, Went DEF ResumeNote
<1>11. Note(proc[p])'  BY <1>5, <1>10, Went DEF Note
<1> QED  BY <1>5, <1>9, <1>11, Went, CalmRows

\* What a resume that has marked its job running has of it.
LEMMA ResumingRow ==
    ASSUME CalmInv, NEW p \in Procs, Busy(proc[p]), proc[p].pc # "track", proc[p].job \in Jobs, ResumeNote(proc[p])
    PROVE  /\ proc[p].kind \in Resumes
           /\ \A i \in Jobs : i # proc[p].job => job[i] \notin ActiveStatuses
           /\ Row(proc[p].job) /\ PendingOf(proc[p].job) = {}
           /\ job[proc[p].job] = "running" /\ job[proc[p].job] \in ActiveStatuses
           /\ ckpt[proc[p].job] = HeldAt(proc[p].kind) /\ ckpt[proc[p].job] # "end"
           /\ issue \in {"triaging", HeldIssue(proc[p].kind)}
<1>1. \A i \in Jobs : i # proc[p].job => job[i] \notin ActiveStatuses  BY Alone DEF Mine
<1>2. job[proc[p].job] = "running"  BY DEF ResumeNote
<1>3. Row(proc[p].job) /\ PendingOf(proc[p].job) = {} /\ job[proc[p].job] \in ActiveStatuses  BY <1>2, RunningRow
<1>4. /\ proc[p].kind \in Resumes /\ ckpt[proc[p].job] = HeldAt(proc[p].kind)
  BY DEF ResumeNote
<1>5. issue \in {"triaging", HeldIssue(proc[p].kind)} /\ ckpt[proc[p].job] # "end"
  BY <1>2, <1>4, RunningRow DEF Resumes, HeldAt, HeldIssue
<1> QED  BY <1>1, <1>2, <1>3, <1>4, <1>5

LEMMA ResumeIssueCalm ==
    ASSUME CalmInv, ClosedInv', NEW p \in Procs, ResumeIssue(p)
    PROVE  CalmInv'
<1>1. PICK j : j = proc[p].job  OBVIOUS
<1>2. proc[p].pc = "resume_issue"  BY DEF ResumeIssue, UpdateIssue, At
<1>3. ResumeNote(proc[p]) /\ Busy(proc[p])  BY <1>2, Alone, NoteAt DEF Busy
<1>4. j \in Jobs
  <2>1. proc[p].pc \notin JoblessPCs /\ proc[p].pc # "idle"  BY <1>2 DEF JoblessPCs
  <2> QED  BY <1>1, <2>1, ClosedParts, AtWork DEF CalmInv
<1>5. /\ \A i \in Jobs : i # j => job[i] \notin ActiveStatuses
      /\ Row(j) /\ PendingOf(j) = {} /\ ckpt[j] # "end" /\ proc[p].kind \in Resumes
      /\ issue \in {"triaging", HeldIssue(proc[p].kind)}
  BY <1>1, <1>2, <1>3, <1>4, ResumingRow
<1>6. issue = "triaging" \/ <<issue, "triaging">> \in IssueMoves
  BY <1>5, MovesMade DEF HeldIssue
<1>7. /\ issue' = "triaging" /\ Goto(p, "slot") /\ orch' # "booting"
      /\ UNCHANGED <<job, launch, ckpt, input, byJob, orch, boot, stops>>
  BY <1>6, CalmIssue DEF ResumeIssue, IssueWrites
<1>8. Row(j)'  BY <1>4, <1>5, <1>7, RowIssue
<1>9. ResumeNote(proc[p])'  BY <1>3, <1>7, Went DEF ResumeNote
<1>10. Note(proc[p])'  BY <1>7, <1>9, Went DEF Note
<1> QED  BY <1>3, <1>5, <1>7, <1>8, <1>10, Went, CalmRows

\* What holds of a busy coroutine that has a job of its own, and of that job.
LEMMA Own ==
    ASSUME CalmInv, NEW p \in Procs,
           proc[p].pc \notin Clear \cup Stopping \cup Replying \cup {"idle", "unwind", "cancel_task", "track"}
    PROVE  /\ Busy(proc[p]) /\ Note(proc[p]) /\ proc[p].job \in Jobs
           /\ job[proc[p].job] \in ActiveStatuses /\ Row(proc[p].job)
           /\ \A i \in Jobs : i # proc[p].job => job[i] \notin ActiveStatuses
           /\ orch \in {"up", "draining"}
<1>1. Busy(proc[p])  BY DEF Busy
<1>2. Mine(proc[p]) = proc[p].job  BY DEF Mine
<1> QED  BY <1>1, <1>2, Alone DEF CalmInv

LEMMA ReenrollFailsCalm ==
    ASSUME CalmInv, ClosedInv', NEW p \in Procs, ReenrollFails(p)
    PROVE  CalmInv'
<1>1. /\ proc[p].pc = "stream" /\ proc[p].kind # "fresh" /\ "reenroll" \in Faults
      /\ UNCHANGED <<issue, job, launch, ckpt, input, byJob, orch, boot, stops>>
  BY DEF ReenrollFails, At
<1>2. Busy(proc[p]) /\ Note(proc[p]) /\ orch' # "booting"  BY <1>1, Own DEF Clear, Stopping, Replying
<1>3. RestartNote(proc[p]) \/ ResumeNote(proc[p])  BY <1>1, <1>2, NoteAt DEF FreshNote
<1>4. proc \in [Procs -> Coroutines] /\ proc[p] \in Coroutines /\ ClosedInv  BY ClosedParts, ShapeParts DEF CalmInv
<1>5. proc[p].seen = NoStatus
  <2>1. proc[p].pc \notin JobWrites \cup IssueWrites  BY <1>1 DEF JobWrites, IssueWrites
  <2> QED  BY <1>4, <2>1, ReadNothing
<1>6. PICK pc : pc = (IF proc[p].kind = "restart" THEN "fail_job" ELSE "putback_job")  OBVIOUS
<1>7. proc' = [proc EXCEPT ![p] = [proc[p] EXCEPT !.pc = pc, !.ending = "refused"]]
  BY <1>4, <1>6 DEF ReenrollFails
<1>8. proc'[p] = [proc[p] EXCEPT !.pc = pc, !.ending = "refused"] /\ \A q \in Procs : q # p => proc'[q] = proc[q]
  BY <1>4, <1>7
<1>9. /\ proc'[p].pc = pc /\ proc'[p].seen = NoStatus /\ proc'[p].kind = proc[p].kind
      /\ proc'[p].job = proc[p].job /\ proc'[p].priorJob = proc[p].priorJob
      /\ proc'[p].priorIssue = proc[p].priorIssue
  BY <1>4, <1>5, <1>8 DEF Coroutines
<1>10. CASE RestartNote(proc[p])
  <2>1. pc = "fail_job"  BY <1>6, <1>10 DEF RestartNote
  <2>2. RunNote(proc[p])'  BY <1>1, <1>9, <1>10, <2>1 DEF RestartNote, RunNote
  <2>3. Note(proc[p])'  BY <1>9, <2>1, <2>2 DEF Note, ReadsRight
  <2> QED  BY <1>1, <1>2, <1>8, <1>9, <2>1, <2>3, CalmMove DEF Busy, Ending, Stopping
<1>11. CASE ResumeNote(proc[p])
  <2>1. pc = "putback_job"  BY <1>6, <1>11 DEF ResumeNote, Resumes
  <2>3. ResumeNote(proc[p])'  BY <1>1, <1>9, <1>11, <2>1 DEF ResumeNote
  <2>4. Note(proc[p])'  BY <1>9, <2>1, <2>3 DEF Note, ReadsRight
  <2> QED  BY <1>1, <1>2, <1>8, <1>9, <2>1, <2>4, CalmMove DEF Busy, Ending, Stopping
<1> QED  BY <1>3, <1>10, <1>11

LEMMA PutBackJobCalm ==
    ASSUME CalmInv, ClosedInv', NEW p \in Procs, PutBackJob(p)
    PROVE  CalmInv'
<1>1. PICK j : j = proc[p].job  OBVIOUS
<1>2. PICK kind : kind = proc[p].kind  OBVIOUS
<1>3. /\ UpdateJobBy(JobMoves, p, "putback_job", proc[p].priorJob, "putback_issue", PutBackRaised(p))
      /\ proc[p].pc = "putback_job"
  BY DEF PutBackJob, UpdateJob, UpdateJobBy, At
<1>4. Busy(proc[p]) /\ ResumeNote(proc[p]) /\ j \in Jobs  BY <1>1, <1>3, Own, NoteAt DEF Clear, Stopping, Replying
<1>5. /\ kind \in Resumes /\ job[j] = "running" /\ proc[p].priorJob = HeldAs(kind) /\ issue = "triaging"
      /\ proc[p].priorIssue \in {"triaging", HeldIssue(kind)}
  BY <1>1, <1>2, <1>3, <1>4 DEF ResumeNote
<1>6. /\ Row(j) /\ PendingOf(j) = {} /\ job[j] \in ActiveStatuses /\ ckpt[j] = HeldAt(kind) /\ ckpt[j] # "end"
  BY <1>1, <1>2, <1>3, <1>4, ResumingRow
<1>7. /\ j \in Jobs /\ job'[j] = HeldAs(kind) /\ Goto(p, "putback_issue")
      /\ \A i \in Jobs : i # j => /\ job[i] \notin ActiveStatuses
                                  /\ job'[i] = job[i] /\ ckpt'[i] = ckpt[i] /\ input'[i] = input[i]
      /\ UNCHANGED <<issue, launch, ckpt, input, byJob, orch, boot, stops>> /\ orch' # "booting"
  <2>1. <<job[proc[p].job], proc[p].priorJob>> \in JobMoves /\ "putback_job" \in JobWrites
    BY <1>1, <1>5, MovesMade DEF HeldAs, JobWrites
  <2>2. /\ proc[p].job \in Jobs /\ job'[proc[p].job] = proc[p].priorJob /\ Goto(p, "putback_issue")
        /\ \A i \in Jobs : i # proc[p].job => /\ job[i] \notin ActiveStatuses
                                              /\ job'[i] = job[i] /\ ckpt'[i] = ckpt[i] /\ input'[i] = input[i]
        /\ UNCHANGED <<issue, launch, ckpt, input, byJob, orch, boot, stops>> /\ orch' # "booting"
    BY <1>3, <2>1, CalmJob
  <2> QED  BY <1>1, <1>5, <2>2
<1>8. \/ job'[j] = "awaiting_input" /\ ckpt[j] = "asked"
      \/ job'[j] = "paused" /\ ckpt[j] = "stuck"
  BY <1>5, <1>6, <1>7 DEF Resumes, HeldAs, HeldAt
<1>9. Row(j)'  BY <1>6, <1>7, <1>8, RowHeldOrRuns
<1>10. /\ proc'[p].pc = "putback_issue" /\ proc'[p].kind = kind /\ proc'[p].job = j
       /\ proc'[p].priorJob = HeldAs(kind) /\ proc'[p].priorIssue \in {"triaging", HeldIssue(kind)}
       /\ ReadsRight(proc[p])'
  BY <1>1, <1>2, <1>5, <1>7, Went
<1>11. PendingOf(j)' = {}  BY <1>6, <1>7 DEF PendingOf
<1>12. HeldNote(proc[p])'  BY <1>5, <1>7, <1>10, <1>11 DEF HeldNote
<1>13. Note(proc[p])'  BY <1>10, <1>12 DEF Note
<1> QED  BY <1>4, <1>7, <1>9, <1>13, Went, CalmRows

LEMMA PutBackIssueCalm ==
    ASSUME CalmInv, ClosedInv', NEW p \in Procs, PutBackIssue(p)
    PROVE  CalmInv'
<1>1. PICK j : j = proc[p].job  OBVIOUS
<1>2. PICK kind : kind = proc[p].kind  OBVIOUS
<1>3. proc[p].pc = "putback_issue"  BY DEF PutBackIssue, UpdateIssue, At
<1>4. /\ Busy(proc[p]) /\ HeldNote(proc[p]) /\ j \in Jobs
      /\ \A i \in Jobs : i # j => job[i] \notin ActiveStatuses
  BY <1>1, <1>3, Own, NoteAt DEF Clear, Stopping, Replying
<1>5. /\ kind \in Resumes /\ job[j] = HeldAs(kind) /\ PendingOf(j) = {} /\ issue = "triaging"
      /\ proc[p].priorIssue \in {"triaging", HeldIssue(kind)}
  BY <1>1, <1>2, <1>3, <1>4 DEF HeldNote
<1>6. Row(j) /\ ckpt[j] = HeldAt(kind) /\ ckpt[j] # "end" /\ job[j] \notin InFlightStatuses
  BY <1>4, <1>5, HeldRow
<1>7. /\ issue' = proc[p].priorIssue /\ Goto(p, "unwind") /\ orch' # "booting"
      /\ UNCHANGED <<job, launch, ckpt, input, byJob, orch, boot, stops>>
  <2>1. UpdateIssue(p, "putback_issue", proc[p].priorIssue, "unwind", PutBackRaised(p))  BY DEF PutBackIssue
  <2>2. issue = proc[p].priorIssue \/ <<issue, proc[p].priorIssue>> \in IssueMoves
    BY <1>5, MovesMade DEF HeldIssue
  <2>3. "putback_issue" \in IssueWrites  BY DEF IssueWrites
  <2> QED  BY <2>1, <2>2, <2>3, CalmIssue
<1>8. \/ issue' = "triaging"
      \/ issue' = "awaiting_input" /\ ckpt[j] = "asked"
      \/ issue' = "open" /\ ckpt[j] = "stuck"
  BY <1>5, <1>6, <1>7 DEF Resumes, HeldIssue, HeldAt
<1>9. Row(j)'  BY <1>4, <1>5, <1>6, <1>7, <1>8, RowIssue
<1>10. AtRest'
  <2>1. \A i \in Jobs : job'[i] \notin InFlightStatuses  BY <1>4, <1>6, <1>7, ActiveNames
  <2> QED  BY <1>5, <2>1 DEF AtRest
<1> QED  BY <1>4, <1>7, <1>9, <1>10, Went, CalmRows

LEMMA BeforeTheRunCalm ==
    ASSUME Calm, CalmInv, ClosedInv', NEW p \in Procs, BeforeTheRun(p)
    PROVE  CalmInv'
BY LaunchCalm, TakeSlotCalm, GateCalm, RefuseJobCalm, RefuseIssueCalm, StartCalm, KeepPriorCalm,
   ResumeJobCalm, ResumeIssueCalm, ReenrollFailsCalm, PutBackJobCalm, PutBackIssueCalm DEF BeforeTheRun

-----------------------------------------------------------------------------
(* One thing at a time: the run of the graph.                              *)

LEMMA ReachesCalm ==
    ASSUME CalmInv, ClosedInv', NEW p \in Procs, NEW at, NEW point, NEW pc, Reaches(p, at, point, pc),
           at \in {"stream", "nodes"}, job[proc[p].job] = "running", issue = "triaging",
           point # "end", pc \notin {"idle", "cancel_task"},
           pc = "unwind" => orch = "draining",
           pc # "unwind" => Note(proc[p])'
    PROVE  CalmInv'
<1>1. PICK j : j = proc[p].job  OBVIOUS
<1>2. /\ proc[p].pc = at /\ Goto(p, pc) /\ ckpt' = [ckpt EXCEPT ![j] = point]
      /\ UNCHANGED <<issue, job, launch, input, byJob, orch, boot, stops>>
  BY <1>1 DEF Reaches, At
<1>3. /\ Busy(proc[p]) /\ j \in Jobs /\ Row(j) /\ orch' # "booting"
      /\ \A i \in Jobs : i # j => job[i] \notin ActiveStatuses
  BY <1>1, <1>2, Own DEF Clear, Stopping, Replying
<1>4. ckpt \in [Jobs -> Checkpoints]  BY ClosedParts, ShapeParts DEF CalmInv
<1>5. ckpt'[j] = point /\ \A i \in Jobs : i # j => ckpt'[i] = ckpt[i]  BY <1>2, <1>3, <1>4
<1>6. Row(j)'  BY <1>1, <1>2, <1>3, <1>5, RowPoint
<1>7. pc = "unwind" => AtRest'
  BY <1>2, ClosedParts, RestDown DEF ClosedInv
<1> QED  BY <1>2, <1>3, <1>5, <1>6, <1>7, Went, CalmRows

LEMMA EnterStreamCalm ==
    ASSUME CalmInv, ClosedInv', NEW p \in Procs, EnterStream(p)
    PROVE  CalmInv'
<1>1. PICK j : j = proc[p].job  OBVIOUS
<1>2. PICK pc : pc = CASE ckpt[j] = "node" -> "nodes"
                       [] ckpt[j] = "asked" -> "asking"
                       [] ckpt[j] = "moot" -> "auto_job"
                       [] ckpt[j] = "stuck" -> "pause_job"
                       [] ckpt[j] = "end" -> "unwind"
  OBVIOUS
<1>3. /\ proc[p].pc = "stream"
      /\ IF orch = "draining" THEN Step(p, "stream", "unwind")
         ELSE IF proc[p].kind # "fresh" /\ ckpt[j] = "none" THEN Step(p, "stream", "fail_job")
         ELSE IF proc[p].kind = "restart" THEN Step(p, "stream", pc)
         ELSE Reaches(p, "stream", "node", "nodes")
  BY <1>1, <1>2 DEF EnterStream, At
<1>4. Busy(proc[p]) /\ Note(proc[p]) /\ j \in Jobs /\ Row(j)  BY <1>1, <1>3, Own DEF Clear, Stopping, Replying
<1>5. FreshNote(proc[p]) \/ RestartNote(proc[p]) \/ ResumeNote(proc[p])  BY <1>3, <1>4, NoteAt
<1>6. CASE orch = "draining"
  <2>1. Step(p, "stream", "unwind")  BY <1>3, <1>6
  <2>2. orch' = "draining"  BY <1>6, <2>1 DEF Step
  <2>3. AtRest'  BY <2>2, ClosedParts, RestDown DEF ClosedInv
  <2> QED  BY <2>1, <2>3, CalmStep DEF Ending, Stopping
<1>7. CASE orch # "draining" /\ RestartNote(proc[p])
  <2>1. job[j] = "running" /\ ckpt[j] # "none" /\ proc[p].kind = "restart"  BY <1>1, <1>7 DEF RestartNote
  <2>2. Step(p, "stream", pc)  BY <1>3, <1>7, <2>1
  <2>3. Goto(p, pc) /\ UNCHANGED <<issue, job, ckpt, input>>  BY <2>2 DEF Step
  <2>4. ckpt[j] \in Checkpoints  BY <1>4, ClosedParts, ShapeParts DEF CalmInv
  <2>5. CASE ckpt[j] = "end"
    <3>1. pc = "unwind"  BY <1>2, <2>5
    <3>2. ~Prompt
      <4> SUFFICES ASSUME Prompt PROVE FALSE
        OBVIOUS
      <4>1. PICK q \in Procs : proc[q].pc \in Ending  BY <1>4, <2>1, <2>5 DEF Row
      <4>2. Busy(proc[q]) /\ q # p  BY <1>3, <4>1 DEF Ending, Stopping, Busy
      <4> QED  BY <1>4, <4>2, Alone
    <3>4. AtRest'  BY <3>2 DEF AtRest, Prompt
    <3> QED  BY <2>2, <3>1, <3>4, CalmStep DEF Ending, Stopping
  <2>6. CASE ckpt[j] # "end"
    <3>1. \/ ckpt[j] = "node" /\ pc = "nodes"
          \/ ckpt[j] = "asked" /\ pc = "asking"
          \/ ckpt[j] = "moot" /\ pc = "auto_job"
          \/ ckpt[j] = "stuck" /\ pc = "pause_job"
      BY <1>2, <2>1, <2>4, <2>6 DEF Checkpoints
    <3>2. proc'[p].pc = pc /\ proc'[p].job = j /\ ReadsRight(proc[p])'  BY <1>1, <2>3, <3>1, Went
    <3>3. RunNote(proc[p])'  BY <2>1, <2>3, <3>1, <3>2 DEF RunNote
    <3>4. Note(proc[p])'  BY <3>1, <3>2, <3>3 DEF Note
    <3> QED  BY <2>2, <3>1, <3>4, CalmStep DEF Ending, Stopping
  <2> QED  BY <2>5, <2>6
<1>8. CASE orch # "draining" /\ (FreshNote(proc[p]) \/ ResumeNote(proc[p]))
  <2>1. job[j] = "running" /\ issue = "triaging"
    <3>1. CASE FreshNote(proc[p])
      <4>1. job[j] = "running" /\ ckpt[j] = "none" /\ job[j] \in InFlightStatuses
        BY <1>1, <1>3, <3>1 DEF FreshNote
      <4> QED  BY <1>4, <4>1, FreshRow
    <3>2. CASE ResumeNote(proc[p])  BY <1>1, <1>3, <3>2 DEF ResumeNote
    <3> QED  BY <1>8, <3>1, <3>2
  <2>2. Reaches(p, "stream", "node", "nodes")
    <3>1. CASE FreshNote(proc[p])
      <4>1. proc[p].kind = "fresh"  BY <3>1 DEF FreshNote
      <4> QED  BY <1>3, <1>8, <4>1
    <3>2. CASE ResumeNote(proc[p])
      <4>1. proc[p].kind \in {"answer", "choice"} /\ ckpt[j] \in {"asked", "stuck"}
        BY <1>1, <3>2 DEF ResumeNote, Resumes, HeldAt
      <4>2. ckpt[j] # "none" /\ proc[p].kind # "restart"  BY <4>1
      <4> QED  BY <1>3, <1>8, <4>2
    <3> QED  BY <1>8, <3>1, <3>2
  <2>3. ckpt \in [Jobs -> Checkpoints]  BY ClosedParts, ShapeParts DEF CalmInv
  <2>4. ckpt'[j] = "node" /\ job' = job /\ Goto(p, "nodes")  BY <1>1, <1>4, <2>2, <2>3 DEF Reaches
  <2>5. proc'[p].pc = "nodes" /\ proc'[p].job = j /\ ReadsRight(proc[p])'  BY <1>1, <2>4, Went
  <2>6. RunNote(proc[p])'  BY <2>1, <2>4, <2>5 DEF RunNote
  <2>7. Note(proc[p])'  BY <2>5, <2>6 DEF Note
  <2> QED  BY <1>1, <2>1, <2>2, <2>7, ReachesCalm
<1> QED  BY <1>5, <1>6, <1>7, <1>8

\* What the run of the graph has of its job.
LEMMA RunsRow ==
    ASSUME CalmInv, NEW p \in Procs,
           proc[p].pc \in {"nodes", "asking", "auto_job", "pause_job", "finish_job", "fail_job"},
           proc[p].pc = "fail_job" => job[proc[p].job] # "pending"
    PROVE  /\ Busy(proc[p]) /\ RunNote(proc[p]) /\ proc[p].job \in Jobs /\ Row(proc[p].job)
           /\ job[proc[p].job] = "running" /\ PendingOf(proc[p].job) = {}
           /\ job[proc[p].job] \in ActiveStatuses
           /\ \A i \in Jobs : i # proc[p].job => job[i] \notin ActiveStatuses
           /\ orch \in {"up", "draining"}
           /\ proc[p].pc \in {"nodes", "auto_job", "finish_job"} => issue = "triaging"
           /\ issue \in {"triaging", "awaiting_input", "open"}
<1>1. /\ Busy(proc[p]) /\ Note(proc[p]) /\ proc[p].job \in Jobs /\ orch \in {"up", "draining"}
      /\ \A i \in Jobs : i # proc[p].job => job[i] \notin ActiveStatuses
  BY Own DEF Clear, Stopping, Replying
<1>2. RunNote(proc[p])  BY <1>1, NoteAt
<1>3. job[proc[p].job] = "running"  BY <1>2 DEF RunNote
<1>4. /\ Row(proc[p].job) /\ PendingOf(proc[p].job) = {} /\ job[proc[p].job] \in ActiveStatuses
      /\ \/ issue = "triaging"
         \/ issue = "awaiting_input" /\ ckpt[proc[p].job] = "asked"
         \/ issue = "open" /\ ckpt[proc[p].job] = "stuck"
  BY <1>1, <1>3, RunningRow
<1>5. proc[p].pc \in {"nodes", "auto_job", "finish_job"} => ckpt[proc[p].job] \notin {"asked", "stuck"}
  BY <1>2 DEF RunNote
<1> QED  BY <1>1, <1>2, <1>3, <1>4, <1>5

LEMMA NextPointCalm ==
    ASSUME CalmInv, ClosedInv', NEW p \in Procs, NEW point, NEW pc,
           Reaches(p, "nodes", point, NextOrDrained(pc)),
           \/ point = "asked" /\ pc = "asking"
           \/ point = "moot" /\ pc = "auto_job"
           \/ point = "stuck" /\ pc = "pause_job"
    PROVE  CalmInv'
<1>1. PICK j : j = proc[p].job  OBVIOUS
<1>2. PICK next : next = NextOrDrained(pc)  OBVIOUS
<1>3. proc[p].pc = "nodes" /\ Goto(p, next) /\ ckpt' = [ckpt EXCEPT ![j] = point] /\ job' = job
  BY <1>1, <1>2 DEF Reaches, At
<1>4. j \in Jobs /\ job[j] = "running" /\ issue = "triaging"  BY <1>1, <1>3, RunsRow
<1>5. ckpt \in [Jobs -> Checkpoints]  BY ClosedParts, ShapeParts DEF CalmInv
<1>6. ckpt'[j] = point  BY <1>3, <1>4, <1>5
<1>7. (next = "unwind" /\ orch = "draining") \/ next = pc  BY <1>2 DEF NextOrDrained
<1>8. ASSUME next = pc PROVE Note(proc[p])'
  <2>1. proc'[p].pc = pc /\ proc'[p].job = j /\ ReadsRight(proc[p])'  BY <1>1, <1>3, <1>8, Went
  <2>2. RunNote(proc[p])'  BY <1>3, <1>4, <1>6, <2>1 DEF RunNote
  <2> QED  BY <2>1, <2>2 DEF Note
<1>9. Reaches(p, "nodes", point, next)  BY <1>2
<1>10. next = "unwind" => orch = "draining"  BY <1>7
<1>11. next \notin {"idle", "cancel_task"} /\ (next # "unwind" => Note(proc[p])')  BY <1>7, <1>8
<1> QED  BY <1>1, <1>4, <1>9, <1>10, <1>11, ReachesCalm

LEMMA EndRunCalm ==
    ASSUME CalmInv, ClosedInv', NEW p \in Procs, EndRun(p)
    PROVE  CalmInv'
<1>1. PICK j : j = proc[p].job  OBVIOUS
<1>2. proc[p].pc = "nodes" /\ UNCHANGED <<issue, job, launch, input, byJob, orch, boot, stops>>
  BY DEF EndRun, At
<1>3. /\ Busy(proc[p]) /\ j \in Jobs /\ Row(j) /\ job[j] = "running" /\ PendingOf(j) = {} /\ issue = "triaging"
      /\ \A i \in Jobs : i # j => job[i] \notin ActiveStatuses
      /\ orch \in {"up", "draining"}
  BY <1>1, <1>2, RunsRow
<1>4. CASE orch = "draining"
  <2>1. Goto(p, "unwind") /\ ckpt' = ckpt  BY <1>4 DEF EndRun
  <2>2. AtRest'  BY <1>2, <1>4, ClosedParts, RestDown DEF ClosedInv
  <2> QED  BY <1>2, <1>3, <2>1, <2>2, Went, CalmMove DEF Ending, Stopping
<1>5. CASE orch # "draining"
  <2>1. PICK ending \in {"completed", "failed", "split"} :
             proc' = [proc EXCEPT ![p].pc = "finish_job", ![p].ending = ending]
    BY <1>5 DEF EndRun
  <2>2. ckpt' = [ckpt EXCEPT ![j] = "end"]  BY <1>1, <1>5 DEF EndRun
  <2>3. /\ proc \in [Procs -> Coroutines] /\ proc[p] \in Coroutines /\ ckpt \in [Jobs -> Checkpoints] /\ ClosedInv
    BY ClosedParts, ShapeParts DEF CalmInv
  <2>4. proc[p].seen = NoStatus
    <3>1. proc[p].pc \notin JobWrites \cup IssueWrites  BY <1>2 DEF JobWrites, IssueWrites
    <3> QED  BY <2>3, <3>1, ReadNothing
  <2>5. ckpt'[j] = "end" /\ \A i \in Jobs : i # j => ckpt'[i] = ckpt[i]  BY <1>3, <2>2, <2>3
  <2>6. proc' = [proc EXCEPT ![p] = [proc[p] EXCEPT !.pc = "finish_job", !.ending = ending]]  BY <2>1, <2>3
  <2>7. proc'[p] = [proc[p] EXCEPT !.pc = "finish_job", !.ending = ending] /\ \A q \in Procs : q # p => proc'[q] = proc[q]
    BY <2>3, <2>6
  <2>8. proc'[p].pc = "finish_job" /\ proc'[p].seen = NoStatus /\ proc'[p].job = j
    BY <1>1, <2>3, <2>4, <2>7 DEF Coroutines
  <2>9. PendingOf(j)' = {}  BY <1>2, <1>3 DEF PendingOf
  <2>10. proc'[p].pc \in Ending /\ proc'[p].job = j  BY <2>8 DEF Ending
  <2>11. Row(j)'  BY <1>2, <1>3, <2>5, <2>9, <2>10 DEF Row
  <2>12. RunNote(proc[p])'  BY <1>2, <1>3, <2>5, <2>8 DEF RunNote
  <2>13. Note(proc[p])'  BY <2>8, <2>12 DEF Note, ReadsRight
  <2>14. Busy(proc'[p]) /\ orch' # "booting"  BY <1>2, <1>3, <2>8 DEF Busy
  <2> QED  BY <1>2, <1>3, <2>5, <2>7, <2>11, <2>13, <2>14, CalmRows
<1> QED  BY <1>4, <1>5

LEMMA RaiseCalm ==
    ASSUME CalmInv, ClosedInv', NEW p \in Procs, Raise(p)
    PROVE  CalmInv'
<1>1. Step(p, "nodes", "fail_job")  BY DEF Raise
<1>2. proc[p].pc = "nodes" /\ Goto(p, "fail_job") /\ job' = job  BY <1>1 DEF Step, At
<1>3. job[proc[p].job] = "running"  BY <1>2, RunsRow
<1>4. RunNote(proc[p])'  BY <1>2, <1>3, Went DEF RunNote
<1>5. Note(proc[p])'  BY <1>2, <1>4, Went DEF Note
<1> QED  BY <1>1, <1>5, CalmStep DEF Ending, Stopping

\* A status written by a run of the graph.
LEMMA RunWrites ==
    ASSUME Calm, CalmInv, NEW p \in Procs, NEW at \in {"auto_job", "pause_job", "finish_job", "fail_job"},
           NEW new \in {"completed", "failed", "paused"}, NEW next, NEW handler,
           NEW j, j = proc[p].job, UpdateJob(p, at, new, next, handler),
           at = "fail_job" => job[j] # "pending"
    PROVE  /\ proc[p].pc = at /\ Busy(proc[p]) /\ j \in Jobs
           /\ job'[j] = new
           /\ \A i \in Jobs : i # j => /\ job[i] \notin ActiveStatuses
                                       /\ job'[i] = job[i] /\ ckpt'[i] = ckpt[i] /\ input'[i] = input[i]
           /\ Goto(p, next)
           /\ UNCHANGED <<issue, launch, ckpt, input, byJob, orch, boot, stops>>
           /\ orch' # "booting"
           /\ new # "paused" => Row(j)' /\ NoneActive' /\ \A i \in Jobs : PendingOf(i)' = {}
<1>1. UpdateJobBy(JobMoves, p, at, new, next, handler) /\ proc[p].pc = at
  BY DEF UpdateJob, UpdateJobBy, At
<1>2. job[proc[p].job] = "running" /\ PendingOf(proc[p].job) = {}  BY <1>1, RunsRow
<1>3. <<job[proc[p].job], new>> \in JobMoves  BY <1>2, MovesMade
<1>4. at \in JobWrites  BY DEF JobWrites
<1>5. /\ proc[p].pc = at /\ Busy(proc[p]) /\ proc[p].job \in Jobs
      /\ job'[proc[p].job] = new
      /\ \A i \in Jobs : i # proc[p].job => /\ job[i] \notin ActiveStatuses
                                            /\ job'[i] = job[i] /\ ckpt'[i] = ckpt[i] /\ input'[i] = input[i]
      /\ Goto(p, next)
      /\ UNCHANGED <<issue, launch, ckpt, input, byJob, orch, boot, stops>>
      /\ orch' # "booting"
  BY <1>1, <1>3, <1>4, CalmJob
<1>6. ASSUME new # "paused" PROVE Row(j)' /\ NoneActive' /\ \A i \in Jobs : PendingOf(i)' = {}
  <2>1. job'[j] \notin ActiveStatuses \cup {"absent"} /\ input'[j] = input[j] /\ j \in Jobs /\ PendingOf(j) = {}
    BY <1>2, <1>5, <1>6, ActiveNames
  <2>2. Row(j)'  BY <2>1, RowOver
  <2>3. \A i \in Jobs : job'[i] \notin ActiveStatuses  BY <1>5, <2>1
  <2>4. \A i \in Jobs : PendingOf(i)' = {}  BY <1>1, <1>2, <1>5, RunsRow, NoneOpen
  <2> QED  BY <2>2, <2>3, <2>4 DEF NoneActive
<1> QED  BY <1>5, <1>6

LEMMA PauseJobCalm ==
    ASSUME Calm, CalmInv, ClosedInv', NEW p \in Procs, PauseJob(p)
    PROVE  CalmInv'
<1>1. PICK j : j = proc[p].job  OBVIOUS
<1>2. UpdateJob(p, "pause_job", "paused", "pause_issue", "fail_job")  BY DEF PauseJob
<1>3. /\ proc[p].pc = "pause_job" /\ Busy(proc[p]) /\ j \in Jobs /\ job'[j] = "paused"
      /\ \A i \in Jobs : i # j => /\ job[i] \notin ActiveStatuses
                                  /\ job'[i] = job[i] /\ ckpt'[i] = ckpt[i] /\ input'[i] = input[i]
      /\ Goto(p, "pause_issue")
      /\ UNCHANGED <<issue, launch, ckpt, input, byJob, orch, boot, stops>> /\ orch' # "booting"
  BY <1>1, <1>2, RunWrites
<1>4. Row(j) /\ PendingOf(j) = {} /\ job[j] \in ActiveStatuses /\ RunNote(proc[p])  BY <1>1, <1>3, RunsRow
<1>5. ckpt[j] = "stuck"  BY <1>1, <1>3, <1>4 DEF RunNote
<1>6. Row(j)'  BY <1>3, <1>4, <1>5, RowHeldOrRuns
<1>7. proc'[p].pc = "pause_issue" /\ proc'[p].job = j /\ ReadsRight(proc[p])'  BY <1>1, <1>3, Went
<1>8. Note(proc[p])'  BY <1>3, <1>7 DEF Note
<1> QED  BY <1>3, <1>6, <1>8, Went, CalmRows

LEMMA PauseIssueCalm ==
    ASSUME CalmInv, ClosedInv', NEW p \in Procs, PauseIssue(p)
    PROVE  CalmInv'
<1>1. PICK j : j = proc[p].job  OBVIOUS
<1>2. proc[p].pc = "pause_issue"  BY DEF PauseIssue, UpdateIssue, At
<1>3. /\ Busy(proc[p]) /\ Note(proc[p]) /\ j \in Jobs /\ Row(j)
      /\ \A i \in Jobs : i # j => job[i] \notin ActiveStatuses
  BY <1>1, <1>2, Own DEF Clear, Stopping, Replying
<1>4. job[j] = "paused"  BY <1>1, <1>2, <1>3, NoteAt
<1>5. ckpt[j] = "stuck" /\ PendingOf(j) = {} /\ issue \in {"triaging", "open"} /\ job[j] \notin InFlightStatuses
  BY <1>3, <1>4, ActiveNames DEF Row
<1>6. /\ issue' = "open" /\ Goto(p, "unwind") /\ orch' # "booting"
      /\ UNCHANGED <<job, launch, ckpt, input, byJob, orch, boot, stops>>
  <2>1. UpdateIssue(p, "pause_issue", "open", "unwind", "fail_job")  BY DEF PauseIssue
  <2>2. issue = "open" \/ <<issue, "open">> \in IssueMoves  BY <1>5, MovesMade
  <2>3. "pause_issue" \in IssueWrites  BY DEF IssueWrites
  <2> QED  BY <2>1, <2>2, <2>3, CalmIssue
<1>7. Row(j)'  BY <1>3, <1>5, <1>6, RowIssue
<1>8. AtRest'
  <2>1. \A i \in Jobs : job'[i] \notin InFlightStatuses  BY <1>3, <1>5, <1>6, ActiveNames
  <2> QED  BY <2>1 DEF AtRest
<1> QED  BY <1>3, <1>6, <1>7, <1>8, Went, CalmRows

\* The questions of an interrupt are open when they are inserted.
LEMMA Appended ==
    ASSUME NEW S, NEW s \in Seq(S), NEW t \in Seq(S), Len(t) >= 1
    PROVE  \E k \in DOMAIN (s \o t) : (s \o t)[k] = t[1]
<1>1. Len(s) \in Nat /\ Len(t) \in Nat  OBVIOUS
<1>2. (s \o t)[Len(s) + 1] = t[1]  BY <1>1
<1>3. s \o t \in Seq(S) /\ Len(s \o t) = Len(s) + Len(t)  OBVIOUS
<1>4. Len(s) + 1 \in 1..Len(s \o t)  BY <1>1, <1>3
<1>5. DOMAIN (s \o t) = 1..Len(s \o t)  BY <1>3
<1> QED  BY <1>2, <1>4, <1>5

LEMMA QuestionsOpen ==
    ASSUME NEW j \in Jobs, input[j] \in Seq({"pending", "answered"}), NEW n \in 1..RoundSize,
           input'[j] = input[j] \o [i \in 1..n |-> "pending"]
    PROVE  PendingOf(j)' # {}
<1>1. n \in Nat /\ n >= 1  BY BoundsAssumption
<1>2. PICK asked : asked = [i \in 1..n |-> "pending"]  OBVIOUS
<1>3. asked \in Seq({"pending", "answered"}) /\ Len(asked) = n /\ asked[1] = "pending"
  BY <1>1, <1>2
<1>4. input'[j] = input[j] \o asked  BY <1>2
<1>5. \E k \in DOMAIN (input[j] \o asked) : (input[j] \o asked)[k] = "pending"  BY <1>1, <1>3, Appended
<1> QED  BY <1>4, <1>5 DEF PendingOf

LEMMA AskingCalm ==
    ASSUME CalmInv, ClosedInv', NEW p \in Procs, Asking(p)
    PROVE  CalmInv'
<1>1. PICK j : j = proc[p].job  OBVIOUS
<1>2. /\ proc[p].pc = "asking" /\ Goto(p, "unwind") /\ UNCHANGED <<launch, ckpt, byJob, orch, boot, stops>>
  BY DEF Asking, At
<1>3. /\ Busy(proc[p]) /\ RunNote(proc[p]) /\ j \in Jobs /\ Row(j) /\ job[j] = "running" /\ job[j] \in ActiveStatuses
      /\ \A i \in Jobs : i # j => job[i] \notin ActiveStatuses
      /\ orch \in {"up", "draining"}
  BY <1>1, <1>2, RunsRow
<1>4. ckpt[j] = "asked"  BY <1>1, <1>2, <1>3 DEF RunNote
<1>5. issue \in {"triaging", "awaiting_input"}  BY <1>3, <1>4 DEF Row
<1>6. CasMatches(job[j], "awaiting_input", {"running"})  BY <1>3 DEF CasMatches
<1>7. CasMatches(issue, "awaiting_input", {"triaging", "in_progress"})  BY <1>5 DEF CasMatches
<1>8. job' = [job EXCEPT ![j] = "awaiting_input"] /\ issue' = "awaiting_input" /\ AddQuestions(j)
  BY <1>1, <1>6, <1>7 DEF Asking
<1>9. PICK n \in 1..RoundSize : input' = [input EXCEPT ![j] = @ \o [i \in 1..n |-> "pending"]]
  BY <1>8 DEF AddQuestions
<1>10. /\ job \in [Jobs -> JobStatuses \cup {"absent"}] /\ input \in [Jobs -> Seq({"pending", "answered"})]
  BY ClosedParts, ShapeParts DEF CalmInv
<1>11. /\ input'[j] = input[j] \o [i \in 1..n |-> "pending"]
       /\ \A i \in Jobs : i # j => input'[i] = input[i]
  BY <1>3, <1>9, <1>10
<1>12. job'[j] = "awaiting_input" /\ \A i \in Jobs : i # j => job'[i] = job[i]  BY <1>3, <1>8, <1>10
<1>13. PendingOf(j)' # {}  BY <1>3, <1>10, <1>11, QuestionsOpen
<1>14. Row(j)'  BY <1>2, <1>4, <1>8, <1>12 DEF Row
<1>15. AtRest'
  <2>1. \A i \in Jobs : i # j => job'[i] \notin {"pending", "running", "awaiting_input", "paused"}
    BY <1>3, <1>12, ActiveNames
  <2>2. \A i \in Jobs : job'[i] \notin InFlightStatuses  BY <1>12, <2>1, ActiveNames
  <2> QED  BY <2>2 DEF AtRest
<1> QED  BY <1>2, <1>3, <1>11, <1>12, <1>14, <1>15, Went, CalmRows

LEMMA AutoJobCalm ==
    ASSUME Calm, CalmInv, ClosedInv', NEW p \in Procs, AutoJob(p)
    PROVE  CalmInv'
<1>1. PICK j : j = proc[p].job  OBVIOUS
<1>2. PICK new \in {"completed", "failed"}, next \in {"claim_issue", "finish_issue"} :
          UpdateJob(p, "auto_job", new, next, "fail_job")
  BY DEF AutoJob
<1>3. /\ proc[p].pc = "auto_job" /\ Busy(proc[p]) /\ j \in Jobs /\ Row(j)' /\ NoneActive'
      /\ \A i \in Jobs : PendingOf(i)' = {}
      /\ \A i \in Jobs : i # j => /\ job[i] \notin ActiveStatuses
                                  /\ job'[i] = job[i] /\ ckpt'[i] = ckpt[i] /\ input'[i] = input[i]
      /\ Goto(p, next) /\ issue' = issue /\ orch' # "booting"
  BY <1>1, <1>2, RunWrites
<1>4. issue = "triaging"  BY <1>3, RunsRow
<1>5. proc[p].kind \in TaskKinds
  <2>1. proc[p].pc \in TaskPCs  BY <1>3 DEF TaskPCs, PCs, RequestPCs, DispatchPCs
  <2> QED  BY <2>1, ClosedParts, TasksAlone DEF CalmInv, IsTask
<1>6. /\ proc'[p].pc = next /\ proc'[p].kind \in TaskKinds /\ ReadsRight(proc[p])'
  BY <1>2, <1>3, <1>5, Went
<1>7. ClearNote(proc[p])'  BY <1>2, <1>3, <1>4, <1>6 DEF ClearNote, TaskKinds
<1>8. Note(proc[p])'  BY <1>2, <1>6, <1>7 DEF Note, Clear
<1> QED  BY <1>2, <1>3, <1>8, Went, CalmRows

LEMMA FinishJobCalm ==
    ASSUME Calm, CalmInv, ClosedInv', NEW p \in Procs, FinishJob(p)
    PROVE  CalmInv'
<1>1. PICK j : j = proc[p].job  OBVIOUS
<1>2. PICK new \in {"completed", "failed"}, next \in {"finish_issue", "finish_purge"} :
          UpdateJob(p, "finish_job", new, next, "fail_job")
  BY DEF FinishJob
<1>3. /\ proc[p].pc = "finish_job" /\ Busy(proc[p]) /\ j \in Jobs /\ Row(j)' /\ NoneActive'
      /\ \A i \in Jobs : PendingOf(i)' = {}
      /\ \A i \in Jobs : i # j => /\ job[i] \notin ActiveStatuses
                                  /\ job'[i] = job[i] /\ ckpt'[i] = ckpt[i] /\ input'[i] = input[i]
      /\ Goto(p, next) /\ issue' = issue /\ orch' # "booting"
  BY <1>1, <1>2, RunWrites
<1>4. issue = "triaging"  BY <1>3, RunsRow
<1>5. proc'[p].pc = next /\ ReadsRight(proc[p])'  BY <1>2, <1>3, Went
<1>6. ClearNote(proc[p])'  BY <1>2, <1>3, <1>4, <1>5 DEF ClearNote, DispatchPCs
<1>7. Note(proc[p])'  BY <1>2, <1>5, <1>6 DEF Note, Clear
<1> QED  BY <1>2, <1>3, <1>7, Went, CalmRows

LEMMA FailJobCalm ==
    ASSUME Calm, CalmInv, ClosedInv', NEW p \in Procs, FailJob(p)
    PROVE  CalmInv'
<1>1. PICK j : j = proc[p].job  OBVIOUS
<1>2. UpdateJob(p, "fail_job", "failed", "fail_issue", "unwind")  BY DEF FailJob
<1>3. CASE job[j] # "pending"
  <2>1. /\ proc[p].pc = "fail_job" /\ Busy(proc[p]) /\ j \in Jobs /\ Row(j)' /\ NoneActive'
        /\ \A i \in Jobs : PendingOf(i)' = {}
        /\ \A i \in Jobs : i # j => /\ job[i] \notin ActiveStatuses
                                    /\ job'[i] = job[i] /\ ckpt'[i] = ckpt[i] /\ input'[i] = input[i]
        /\ Goto(p, "fail_issue") /\ issue' = issue /\ orch' # "booting"
    BY <1>1, <1>2, <1>3, RunWrites
  <2>2. issue \in {"triaging", "awaiting_input", "open"}  BY <1>1, <1>3, <2>1, RunsRow
  <2>3. proc'[p].pc = "fail_issue" /\ ReadsRight(proc[p])'  BY <2>1, Went
  <2>4. ClearNote(proc[p])'  BY <2>1, <2>2, <2>3 DEF ClearNote, DispatchPCs
  <2>5. Note(proc[p])'  BY <2>3, <2>4 DEF Note, Clear
  <2> QED  BY <2>1, <2>5, Went, CalmRows
\* The gate's check raised: a pending job does not take "failed".
<1>4. CASE job[j] = "pending"
  <2>1. proc[p].pc = "fail_job" /\ proc[p].seen # NoStatus /\ UNCHANGED <<issue, ckpt, input, orch>>
    BY <1>2 DEF UpdateJob, UpdateJobBy, At
  <2>2. Busy(proc[p]) /\ Note(proc[p]) /\ orch' # "booting"
    <3>1. Busy(proc[p])  BY <2>1 DEF Busy
    <3> QED  BY <2>1, <3>1, Alone
  <2>3. proc[p].seen = "pending"  BY <1>1, <1>4, <2>1, <2>2, NoteAt DEF ReadsRight, JobWrites
  <2>4. ~Prompt
    <3>1. RunNote(proc[p]) \/ ~Prompt  BY <2>1, <2>2, NoteAt
    <3> QED  BY <1>1, <1>4, <3>1 DEF RunNote
  <2>5. <<"pending", "failed">> \notin JobMoves  BY DEF JobMoves
  <2>6. UpdateRaises(JobMoves, "pending", job[j], "failed")  BY <1>4, <2>5 DEF UpdateRaises
  <2>7. StatusAfter(JobMoves, "pending", job[j], "failed") = job[j]  BY <2>6 DEF StatusAfter
  <2>8. job \in [Jobs -> JobStatuses \cup {"absent"}]  BY ClosedParts, ShapeParts DEF CalmInv
  <2>9. /\ job' = [job EXCEPT ![j] = StatusAfter(JobMoves, proc[p].seen, @, "failed")]
        /\ Goto(p, IF UpdateRaises(JobMoves, proc[p].seen, job[j], "failed") THEN "unwind" ELSE "fail_issue")
    BY <1>1, <1>2 DEF UpdateJob, UpdateJobBy
  <2>10. job' = job /\ Goto(p, "unwind")  BY <2>3, <2>6, <2>7, <2>8, <2>9
  <2>11. AtRest'  BY <2>4 DEF AtRest, Prompt
  <2> QED  BY <2>1, <2>2, <2>10, <2>11, Went, CalmMove DEF Ending, Stopping
<1> QED  BY <1>3, <1>4

\* No job is active: whatever becomes of the issue and of old checkpoints.
LEMMA ClearRows ==
    ASSUME CalmInv, NoneActive, UNCHANGED <<job, input>>, \A i \in Jobs : ckpt'[i] \in {ckpt[i], "none"}
    PROVE  \A i \in Jobs : Row(i)'
<1> SUFFICES ASSUME NEW i \in Jobs PROVE Row(i)'
  OBVIOUS
<1>1. Row(i) /\ job[i] \notin {"pending", "running", "awaiting_input", "paused"}
  BY ActiveNames DEF CalmInv, NoneActive
<1>2. PendingOf(i)' = PendingOf(i)  BY DEF PendingOf
<1> QED  BY <1>1, <1>2, ActiveNames DEF Row

LEMMA ClearStep ==
    ASSUME CalmInv, ClosedInv', NEW p \in Procs, NEW pc, Goto(p, pc), Busy(proc[p]), NoneActive,
           UNCHANGED <<job, input, orch>>, \A i \in Jobs : ckpt'[i] \in {ckpt[i], "none"},
           pc \notin {"idle", "unwind", "cancel_task"} => Note(proc[p])'
    PROVE  CalmInv'
<1>1. \A i \in Jobs : Row(i)'  BY ClearRows
<1>2. \A i \in Jobs : job'[i] \notin ActiveStatuses  BY DEF NoneActive
<1>3. pc \in {"idle", "unwind", "cancel_task"} => AtRest'  BY <1>2, RestClear
<1>4. \A q \in Procs : q # p => ~Busy(proc'[q])  BY Went, Alone
<1>5. orch' # "booting"  BY Alone
<1> QED  BY <1>1, <1>2, <1>3, <1>4, <1>5, Went, CalmWhole

LEMMA FinishPurgeCalm ==
    ASSUME CalmInv, ClosedInv', NEW p \in Procs, FinishPurge(p)
    PROVE  CalmInv'
<1>1. proc[p].pc = "finish_purge" /\ Goto(p, "finish_issue") /\ UNCHANGED <<issue, job, input, orch>>
  BY DEF FinishPurge, Purge, At
<1>2. Busy(proc[p])  BY <1>1 DEF Busy
<1>3. ClearNote(proc[p])  BY <1>1, <1>2, Alone, NoteAt DEF Clear
<1>4. NoneActive /\ issue = "triaging"  BY <1>1, <1>3 DEF ClearNote
<1>5. \A i \in Jobs : ckpt'[i] \in {ckpt[i], "none"}
  <2>1. ckpt \in [Jobs -> Checkpoints]  BY ClosedParts, ShapeParts DEF CalmInv
  <2> QED  BY <2>1 DEF FinishPurge, Purge
<1>6. proc'[p].pc = "finish_issue" /\ ReadsRight(proc[p])'  BY <1>1, Went
<1>7. ClearNote(proc[p])'  BY <1>1, <1>3, <1>4, <1>6, Went DEF ClearNote, NoneActive, DispatchPCs, PendingOf
<1>8. Note(proc[p])'  BY <1>6, <1>7 DEF Note, Clear
<1> QED  BY <1>1, <1>2, <1>4, <1>5, <1>8, ClearStep

\* The issue's write where no job is active.
LEMMA ClearIssue ==
    ASSUME CalmInv, NEW p \in Procs, NEW at, NEW new, NEW next, NEW handler,
           UpdateIssue(p, at, new, next, handler), at \in IssueWrites \cap Clear
    PROVE  /\ proc[p].pc = at /\ Busy(proc[p]) /\ ClearNote(proc[p]) /\ NoneActive
           /\ UNCHANGED <<job, launch, ckpt, input, byJob, orch, boot, stops>>
           /\ \A i \in Jobs : ckpt'[i] \in {ckpt[i], "none"}
           /\ \/ issue' = new /\ Goto(p, next)
              \/ issue' = issue /\ Goto(p, handler)
           /\ issue = new \/ <<issue, new>> \in IssueMoves => issue' = new /\ Goto(p, next)
<1>1. proc[p].pc = at /\ proc[p].seen # NoStatus /\ UNCHANGED <<job, launch, ckpt, input, byJob, orch, boot, stops>>
  BY DEF UpdateIssue, At
<1>2. Busy(proc[p])  BY <1>1 DEF Busy, Clear
<1>3. Note(proc[p])  BY <1>2, Alone
<1>4. ClearNote(proc[p]) /\ proc[p].seen = issue  BY <1>1, <1>3, NoteAt DEF ReadsRight
<1>5. /\ issue' = StatusAfter(IssueMoves, issue, issue, new)
      /\ Goto(p, IF UpdateRaises(IssueMoves, issue, issue, new) THEN handler ELSE next)
  BY <1>4 DEF UpdateIssue
<1>6. NoneActive  BY <1>4 DEF ClearNote
<1>7. CASE UpdateRaises(IssueMoves, issue, issue, new)
  <2>1. issue' = issue /\ Goto(p, handler)  BY <1>5, <1>7 DEF StatusAfter
  <2>2. ~(issue = new \/ <<issue, new>> \in IssueMoves)  BY <1>7 DEF UpdateRaises
  <2> QED  BY <1>1, <1>2, <1>4, <1>6, <2>1, <2>2
<1>8. CASE ~UpdateRaises(IssueMoves, issue, issue, new)
  <2>1. issue' = new /\ Goto(p, next)  BY <1>5, <1>8 DEF StatusAfter
  <2> QED  BY <1>1, <1>2, <1>4, <1>6, <2>1
<1> QED  BY <1>7, <1>8

LEMMA FinishIssueCalm ==
    ASSUME CalmInv, ClosedInv', NEW p \in Procs, FinishIssue(p)
    PROVE  CalmInv'
<1>1. PICK new \in {"closed", "open"} : UpdateIssue(p, "finish_issue", new, "unwind", "fail_job")
  BY DEF FinishIssue
<1>2. "finish_issue" \in IssueWrites \cap Clear  BY DEF IssueWrites, Clear
<1>3. /\ proc[p].pc = "finish_issue" /\ Busy(proc[p]) /\ ClearNote(proc[p]) /\ NoneActive
      /\ UNCHANGED <<job, launch, ckpt, input, byJob, orch, boot, stops>>
      /\ \A i \in Jobs : ckpt'[i] \in {ckpt[i], "none"}
      /\ issue = new \/ <<issue, new>> \in IssueMoves => issue' = new /\ Goto(p, "unwind")
  BY <1>1, <1>2, ClearIssue
<1>4. issue = "triaging"  BY <1>3 DEF ClearNote
<1>5. <<issue, new>> \in IssueMoves  BY <1>4, MovesMade
<1>6. issue' = new /\ Goto(p, "unwind")  BY <1>3, <1>5
<1> QED  BY <1>3, <1>6, ClearStep

LEMMA FailIssueCalm ==
    ASSUME CalmInv, ClosedInv', NEW p \in Procs, FailIssue(p)
    PROVE  CalmInv'
<1>1. PICK next \in {"fail_purge", "unwind"} : UpdateIssue(p, "fail_issue", "open", next, "unwind")
  BY DEF FailIssue
<1>2. "fail_issue" \in IssueWrites \cap Clear  BY DEF IssueWrites, Clear
<1>3. /\ proc[p].pc = "fail_issue" /\ Busy(proc[p]) /\ ClearNote(proc[p]) /\ NoneActive
      /\ UNCHANGED <<job, launch, ckpt, input, byJob, orch, boot, stops>>
      /\ \A i \in Jobs : ckpt'[i] \in {ckpt[i], "none"}
      /\ issue = "open" \/ <<issue, "open">> \in IssueMoves => issue' = "open" /\ Goto(p, next)
  BY <1>1, <1>2, ClearIssue
<1>4. issue \in {"triaging", "awaiting_input", "open"}  BY <1>3 DEF ClearNote
<1>5. issue = "open" \/ <<issue, "open">> \in IssueMoves  BY <1>4, MovesMade
<1>6. issue' = "open" /\ Goto(p, next)  BY <1>3, <1>5
<1>7. ASSUME next = "fail_purge" PROVE Note(proc[p])'
  <2>1. proc'[p].pc = "fail_purge" /\ ReadsRight(proc[p])'  BY <1>6, <1>7, Went
  <2>2. ClearNote(proc[p])'  BY <1>3, <1>6, <1>7, <2>1, Went DEF ClearNote, NoneActive, DispatchPCs, PendingOf
  <2> QED  BY <2>1, <2>2 DEF Note, Clear
<1> QED  BY <1>1, <1>3, <1>6, <1>7, ClearStep

LEMMA FailPurgeCalm ==
    ASSUME CalmInv, ClosedInv', NEW p \in Procs, FailPurge(p)
    PROVE  CalmInv'
<1>1. proc[p].pc = "fail_purge" /\ Goto(p, "unwind") /\ UNCHANGED <<issue, job, input, orch>>
  BY DEF FailPurge, Purge, At
<1>2. Busy(proc[p])  BY <1>1 DEF Busy
<1>3. ClearNote(proc[p])  BY <1>1, <1>2, Alone, NoteAt DEF Clear
<1>4. NoneActive /\ issue = "open"  BY <1>1, <1>3 DEF ClearNote
<1>5. \A i \in Jobs : ckpt'[i] \in {ckpt[i], "none"}
  <2>1. ckpt \in [Jobs -> Checkpoints]  BY ClosedParts, ShapeParts DEF CalmInv
  <2> QED  BY <2>1 DEF FailPurge, Purge
<1> QED  BY <1>1, <1>2, <1>4, <1>5, ClearStep

(***************************************************************************)
(* Nothing of the rows changes and nobody becomes busy or idle.            *)
(***************************************************************************)
LEMMA CalmQuiet ==
    ASSUME CalmInv, ClosedInv', UNCHANGED <<issue, job, ckpt, input, orch, boot>>,
           \A q \in Procs : Busy(proc'[q]) <=> Busy(proc[q]),
           \A q \in Procs : proc[q].pc \in Ending => proc'[q].pc \in Ending /\ proc'[q].job = proc[q].job,
           \A q \in Procs : Busy(proc'[q]) => Note(proc[q])'
    PROVE  CalmInv'
<1>1. \A q \in Procs : Busy(proc[q])' <=> Busy(proc[q])  BY DEF Busy
<1>2. \A i \in Jobs : Row(i)'
  <2> SUFFICES ASSUME NEW i \in Jobs PROVE Row(i)'
    OBVIOUS
  <2>1. Row(i) /\ PendingOf(i)' = PendingOf(i)  BY DEF CalmInv, PendingOf
  <2>2. \A q \in Procs : proc[q].pc \in Ending /\ proc[q].job = i => proc'[q].pc \in Ending /\ proc'[q].job = i
    OBVIOUS
  <2> QED  BY <2>1, <2>2 DEF Row
<1>3. AtRest => AtRest'
  <2>1. \A i \in Jobs : PendingOf(i)' = PendingOf(i)  BY DEF PendingOf
  <2>2. NoneActive' <=> NoneActive  BY DEF NoneActive
  <2> QED  BY <2>1, <2>2 DEF AtRest
<1>4. (\A q \in Procs : ~Busy(proc[q])') => AtRest'  BY <1>1, <1>3 DEF CalmInv
<1>5. \A q, r \in Procs : Busy(proc[q])' /\ Busy(proc[r])' => q = r  BY <1>1 DEF CalmInv
<1>6. \A q \in Procs : Busy(proc[q])' => Note(proc[q])'  BY <1>1
<1>7. \A i, k \in Jobs : job'[i] \in ActiveStatuses /\ job'[k] \in ActiveStatuses => i = k  BY DEF CalmInv
<1>8. orch' = "booting" => /\ \A i \in Jobs : job'[i] \in InFlightStatuses => i \in boot'.keep
                           /\ boot'.orphaned # {} => NoneActive'
  BY DEF CalmInv, NoneActive
<1> QED  BY <1>2, <1>4, <1>5, <1>6, <1>7, <1>8 DEF CalmInv

\* A note stays while its coroutine and the rows do.
LEMMA SameNote ==
    ASSUME NEW p, proc'[p] = proc[p], UNCHANGED <<issue, job, ckpt, input>>, Note(proc[p])
    PROVE  Note(proc[p])'
<1>1. \A i : PendingOf(i)' = PendingOf(i)  BY DEF PendingOf
<1>2. NoneActive' <=> NoneActive  BY DEF NoneActive
<1>3. ReadsRight(proc[p])'  BY DEF Note, ReadsRight
<1>4. ClearNote(proc[p]) => ClearNote(proc[p])'  BY <1>1, <1>2 DEF ClearNote
<1>5. TrackNote(proc[p]) => TrackNote(proc[p])'  BY DEF TrackNote
<1>6. FreshNote(proc[p]) => FreshNote(proc[p])'  BY DEF FreshNote
<1>7. RestartNote(proc[p]) => RestartNote(proc[p])'  BY DEF RestartNote
<1>8. HeldNote(proc[p]) => HeldNote(proc[p])'  BY <1>1 DEF HeldNote
<1>9. ResumeNote(proc[p]) => ResumeNote(proc[p])'  BY DEF ResumeNote
<1>10. RunNote(proc[p]) => RunNote(proc[p])'  BY DEF RunNote
<1>11. ReplyNote(proc[p]) => ReplyNote(proc[p])'  BY <1>1, <1>2 DEF ReplyNote
<1>12. StopNote(proc[p]) => StopNote(proc[p])'  BY DEF StopNote
<1> QED  BY <1>3, <1>4, <1>5, <1>6, <1>7, <1>8, <1>9, <1>10, <1>11, <1>12 DEF Note

LEMMA UnwindCalm ==
    ASSUME CalmInv, ClosedInv', NEW p \in Procs, Unwind(p)
    PROVE  CalmInv'
<1>1. /\ proc[p].pc = "unwind" /\ proc' = [proc EXCEPT ![p] = Idle]
      /\ UNCHANGED <<issue, job, launch, ckpt, input, orch, boot, stops>>
  BY DEF Unwind, At
<1>2. proc \in [Procs -> Coroutines]  BY ClosedParts, ShapeParts DEF CalmInv
<1>3. proc'[p].pc = "idle" /\ \A q \in Procs : q # p => proc'[q] = proc[q]  BY <1>1, <1>2, IdleFields
<1>4. \A q \in Procs : Busy(proc'[q]) <=> Busy(proc[q])  BY <1>1, <1>3 DEF Busy
<1>5. \A q \in Procs : proc[q].pc \in Ending => proc'[q].pc \in Ending /\ proc'[q].job = proc[q].job
  BY <1>1, <1>3 DEF Ending, Stopping
<1>6. \A q \in Procs : Busy(proc'[q]) => Note(proc[q])'
  <2> SUFFICES ASSUME NEW q \in Procs, Busy(proc'[q]) PROVE Note(proc[q])'
    OBVIOUS
  <2>1. q # p  BY <1>3 DEF Busy
  <2>2. proc'[q] = proc[q] /\ Note(proc[q])  BY <1>3, <1>4, <2>1 DEF CalmInv
  <2> QED  BY <1>1, <2>2, SameNote
<1> QED  BY <1>1, <1>4, <1>5, <1>6, CalmQuiet

LEMMA TheRunCalm ==
    ASSUME Calm, CalmInv, ClosedInv', NEW p \in Procs, TheRun(p)
    PROVE  CalmInv'
<1>1. Ask(p) \/ AskNothing(p) \/ GetStuck(p) => CalmInv'
  BY NextPointCalm DEF Ask, AskNothing, GetStuck
<1> QED  BY <1>1, EnterStreamCalm, EndRunCalm, RaiseCalm, PauseJobCalm, PauseIssueCalm, AskingCalm, AutoJobCalm,
            FinishJobCalm, FinishPurgeCalm, FinishIssueCalm, FailJobCalm, FailIssueCalm, FailPurgeCalm,
            UnwindCalm DEF TheRun

(***************************************************************************)
(* The SELECT of an update: what it reads is what is there.                *)
(***************************************************************************)
LEMMA ReadStatusCalm ==
    ASSUME CalmInv, ClosedInv', NEW p \in Procs, ReadStatus(p)
    PROVE  CalmInv'
<1>1. /\ proc[p].pc \in JobWrites \cup IssueWrites
      /\ UNCHANGED <<issue, job, launch, ckpt, input, byJob, orch, boot, stops>>
  BY DEF ReadStatus
<1>2. PICK s : /\ proc' = [proc EXCEPT ![p].seen = s]
               /\ \/ proc[p].pc \in JobWrites /\ s = job[proc[p].job]
                  \/ proc[p].pc \in IssueWrites /\ s = issue
  <2>1. CASE proc[p].pc \in JobWrites /\ proc' = [proc EXCEPT ![p].seen = job[proc[p].job]]  BY <2>1
  <2>2. CASE proc[p].pc \in IssueWrites /\ proc' = [proc EXCEPT ![p].seen = issue]  BY <2>2
  <2> QED  BY <2>1, <2>2 DEF ReadStatus
<1>3. proc \in [Procs -> Coroutines] /\ proc[p] \in Coroutines  BY ClosedParts, ShapeParts DEF CalmInv
<1>4. proc' = [proc EXCEPT ![p] = [proc[p] EXCEPT !.seen = s]]  BY <1>2, <1>3
<1>5. proc'[p] = [proc[p] EXCEPT !.seen = s] /\ \A q \in Procs : q # p => proc'[q] = proc[q]  BY <1>3, <1>4
<1>6. /\ proc'[p].pc = proc[p].pc /\ proc'[p].seen = s /\ proc'[p].kind = proc[p].kind /\ proc'[p].job = proc[p].job
      /\ proc'[p].priorJob = proc[p].priorJob /\ proc'[p].priorIssue = proc[p].priorIssue
      /\ proc'[p].number = proc[p].number
  BY <1>3, <1>5 DEF Coroutines
<1>7. Busy(proc[p]) /\ Busy(proc'[p])  BY <1>1, <1>6 DEF Busy, JobWrites, IssueWrites
<1>8. JobWrites \cap IssueWrites = {}  BY DEF JobWrites, IssueWrites
<1>9. ReadsRight(proc[p])'  BY <1>1, <1>2, <1>6, <1>8 DEF ReadsRight
<1>10. Note(proc[p])'
  <2>1. Note(proc[p])  BY <1>7 DEF CalmInv
  <2>2. \A i : PendingOf(i)' = PendingOf(i)  BY <1>1 DEF PendingOf
  <2>3. NoneActive' <=> NoneActive  BY <1>1 DEF NoneActive
  <2>4. ClearNote(proc[p]) => ClearNote(proc[p])'  BY <1>1, <1>6, <2>2, <2>3 DEF ClearNote
  <2>5. TrackNote(proc[p]) => TrackNote(proc[p])'  BY <1>1, <1>6 DEF TrackNote
  <2>6. FreshNote(proc[p]) => FreshNote(proc[p])'  BY <1>1, <1>6 DEF FreshNote
  <2>7. RestartNote(proc[p]) => RestartNote(proc[p])'  BY <1>1, <1>6 DEF RestartNote
  <2>8. HeldNote(proc[p]) => HeldNote(proc[p])'  BY <1>1, <1>6, <2>2 DEF HeldNote
  <2>9. ResumeNote(proc[p]) => ResumeNote(proc[p])'  BY <1>1, <1>6 DEF ResumeNote
  <2>10. RunNote(proc[p]) => RunNote(proc[p])'  BY <1>1, <1>6 DEF RunNote
  <2>11. ReplyNote(proc[p]) => ReplyNote(proc[p])'  BY <1>1, <1>6, <2>2, <2>3 DEF ReplyNote
  <2>12. StopNote(proc[p]) => StopNote(proc[p])'  BY <1>1, <1>6 DEF StopNote
  <2> QED  BY <1>1, <1>6, <1>9, <2>1, <2>4, <2>5, <2>6, <2>7, <2>8, <2>9, <2>10, <2>11, <2>12 DEF Note
<1>11. \A q \in Procs : Busy(proc'[q]) <=> Busy(proc[q])  BY <1>5, <1>7
<1>12. \A q \in Procs : proc[q].pc \in Ending => proc'[q].pc \in Ending /\ proc'[q].job = proc[q].job
  BY <1>5, <1>6
<1>13. \A q \in Procs : Busy(proc'[q]) => Note(proc[q])'
  BY <1>5, <1>7, <1>10, Alone
<1> QED  BY <1>1, <1>11, <1>12, <1>13, CalmQuiet

-----------------------------------------------------------------------------
(* One thing at a time: execute, and the answers.                          *)

LEMMA ClaimIssueCalm ==
    ASSUME CalmInv, ClosedInv', NEW p \in Procs, ClaimIssue(p)
    PROVE  CalmInv'
<1>1. UpdateIssue(p, "claim_issue", "triaging", "exec", Raised(p))  BY DEF ClaimIssue
<1>2. "claim_issue" \in IssueWrites \cap Clear  BY DEF IssueWrites, Clear
<1>3. /\ proc[p].pc = "claim_issue" /\ Busy(proc[p]) /\ ClearNote(proc[p]) /\ NoneActive
      /\ UNCHANGED <<job, launch, ckpt, input, byJob, orch, boot, stops>>
      /\ \A i \in Jobs : ckpt'[i] \in {ckpt[i], "none"}
      /\ \/ issue' = "triaging" /\ Goto(p, "exec")
         \/ issue' = issue /\ Goto(p, Raised(p))
      /\ issue = "triaging" => issue' = "triaging" /\ Goto(p, "exec")
  BY <1>1, <1>2, ClearIssue
<1>4. proc[p].kind \in TaskKinds \cup {"triage", "reply"}  BY <1>3 DEF ClearNote, DispatchPCs
<1>5. CASE issue' = "triaging" /\ Goto(p, "exec")
  <2>1. proc'[p].pc = "exec" /\ proc'[p].kind = proc[p].kind /\ ReadsRight(proc[p])'  BY <1>5, Went
  <2>2. \A i : PendingOf(i)' = PendingOf(i)  BY <1>3 DEF PendingOf
  <2>3. ClearNote(proc[p])'  BY <1>3, <1>4, <1>5, <2>1, <2>2 DEF ClearNote, NoneActive
  <2>4. Note(proc[p])'  BY <2>1, <2>3 DEF Note, Clear
  <2> QED  BY <1>3, <1>5, <2>4, ClearStep
<1>6. CASE issue' = issue /\ Goto(p, Raised(p)) /\ issue # "triaging"
  <2>1. proc[p].kind \notin TaskKinds  BY <1>3, <1>6 DEF ClearNote
  <2>2. Goto(p, "idle")  BY <1>6, <2>1 DEF Raised, IsTask
  <2> QED  BY <1>3, <2>2, ClearStep
<1> QED  BY <1>3, <1>5, <1>6

LEMMA ExecStepCalm ==
    ASSUME CalmInv, ClosedInv', NEW p \in Procs, NEW at \in {"exec", "create"}, NEW pc \in {"create", "rollback"},
           Step(p, at, pc)
    PROVE  CalmInv'
<1>1. proc[p].pc = at /\ Goto(p, pc) /\ UNCHANGED <<issue, job, launch, ckpt, input, byJob, orch, boot, stops>>
  BY DEF Step, At
<1>2. Busy(proc[p])  BY <1>1 DEF Busy
<1>3. ClearNote(proc[p])  BY <1>1, <1>2, Alone, NoteAt DEF Clear
<1>4. NoneActive /\ issue = "triaging" /\ proc[p].kind \in TaskKinds \cup {"triage", "reply"}
  BY <1>1, <1>3 DEF ClearNote, DispatchPCs
<1>5. proc'[p].pc = pc /\ proc'[p].kind = proc[p].kind /\ ReadsRight(proc[p])'  BY <1>1, Went
<1>6. proc[p].kind \in TaskKinds => \A i \in Jobs : PendingOf(i)' = {}
  BY <1>1, <1>3 DEF ClearNote, PendingOf
<1>7. ClearNote(proc[p])'  BY <1>1, <1>4, <1>5, <1>6 DEF ClearNote, NoneActive
<1>8. Note(proc[p])'  BY <1>5, <1>7 DEF Note, Clear
<1>9. at \notin Ending \cup {"idle", "unwind", "cancel_task"}  BY DEF Ending, Stopping
<1> QED  BY <1>8, <1>9, CalmStep

LEMMA InsertsCalm ==
    ASSUME CalmInv, ClosedInv', NEW p \in Procs, NEW j \in Jobs, Inserts(p, j)
    PROVE  CalmInv'
<1>1. /\ proc[p].pc = "create" /\ job[j] = "absent" /\ job' = [job EXCEPT ![j] = "pending"]
      /\ proc' = [proc EXCEPT ![p].pc = "track", ![p].number = j]
      /\ UNCHANGED <<issue, launch, ckpt, input, byJob, orch, boot, stops>>
  BY DEF Inserts, At
<1>2. Busy(proc[p])  BY <1>1 DEF Busy
<1>3. ClearNote(proc[p]) /\ orch' # "booting"  BY <1>1, <1>2, Alone, NoteAt DEF Clear
<1>4. NoneActive /\ issue = "triaging" /\ proc[p].kind \in TaskKinds \cup {"triage", "reply"}
  BY <1>1, <1>3 DEF ClearNote, DispatchPCs
<1>5. /\ proc \in [Procs -> Coroutines] /\ proc[p] \in Coroutines /\ ClosedInv
      /\ job \in [Jobs -> JobStatuses \cup {"absent"}]
  BY ClosedParts, ShapeParts DEF CalmInv
<1>6. proc[p].seen = NoStatus
  <2>1. proc[p].pc \notin JobWrites \cup IssueWrites  BY <1>1 DEF JobWrites, IssueWrites
  <2> QED  BY <1>5, <2>1, ReadNothing
<1>7. proc' = [proc EXCEPT ![p] = [proc[p] EXCEPT !.pc = "track", !.number = j]]  BY <1>1, <1>5
<1>8. proc'[p] = [proc[p] EXCEPT !.pc = "track", !.number = j] /\ \A q \in Procs : q # p => proc'[q] = proc[q]
  BY <1>5, <1>7
<1>9. proc'[p].pc = "track" /\ proc'[p].number = j /\ proc'[p].kind = proc[p].kind  BY <1>5, <1>8 DEF Coroutines
<1>10. job'[j] = "pending" /\ \A i \in Jobs : i # j => job'[i] = job[i]  BY <1>1, <1>5
<1>11. \A i \in Jobs : i # j => /\ job[i] \notin ActiveStatuses
                                /\ job'[i] = job[i] /\ ckpt'[i] = ckpt[i] /\ input'[i] = input[i]
  BY <1>1, <1>4, <1>10 DEF NoneActive
<1>12. Row(j)'
  <2>1. Row(j)  BY DEF CalmInv
  <2>2. PendingOf(j)' = {} /\ ckpt[j] = "none"  BY <1>1, <2>1 DEF Row, PendingOf
  <2> QED  BY <1>1, <1>4, <1>10, <2>2 DEF Row
<1>13. TrackNote(proc[p])'  BY <1>4, <1>9, <1>10 DEF TrackNote
<1>14. Note(proc[p])'  BY <1>9, <1>13 DEF Note, ReadsRight, JobWrites, IssueWrites
<1>15. Busy(proc'[p])  BY <1>9 DEF Busy
<1> QED  BY <1>2, <1>3, <1>8, <1>11, <1>12, <1>14, <1>15, CalmRows

LEMMA TrackCalm ==
    ASSUME CalmInv, ClosedInv', NEW p \in Procs, Track(p)
    PROVE  CalmInv'
<1>1. PICK j : j = proc[p].number  OBVIOUS
<1>2. /\ proc[p].pc = "track" /\ UNCHANGED <<issue, job, launch, ckpt, input, orch, boot, stops>>
  BY DEF Track, At
<1>3. /\ Busy(proc[p]) /\ Note(proc[p]) /\ j \in Jobs /\ orch' # "booting"
      /\ \A q \in Procs : q # p => ~Busy(proc[q])
  BY <1>1, <1>2, Alone DEF Busy, Clear, Mine
<1>4. job[j] = "pending" /\ Row(j)  BY <1>1, <1>2, <1>3, NoteAt DEF TrackNote, CalmInv
<1>5. ckpt[j] = "none"  BY <1>4 DEF Row
<1>6. PICK q \in IF IsTask(p) THEN {r \in Procs : proc[r] = Idle} ELSE {p} :
           proc' = [r \in Procs |-> IF r = q THEN Coroutine("launching", "fresh", j)
                                    ELSE IF r = p THEN [proc[p] EXCEPT !.pc = "unwind"]
                                    ELSE proc[r]]
  BY <1>1 DEF Track
<1>7. proc[p] \in Coroutines  BY ClosedParts DEF CalmInv
<1>8. q \in Procs  BY <1>6
<1>9. /\ proc'[q] = Coroutine("launching", "fresh", j)
      /\ \A r \in Procs : r # q => IF r = p THEN proc'[r] = [proc[p] EXCEPT !.pc = "unwind"] ELSE proc'[r] = proc[r]
  BY <1>6, <1>8
<1>10. \A r \in Procs : r # q => ~Busy(proc'[r])
  <2>1. p # q => proc'[p].pc = "unwind"  BY <1>7, <1>9 DEF Coroutines
  <2> QED  BY <1>3, <1>9, <2>1 DEF Busy
<1>11. /\ proc'[q].pc = "launching" /\ proc'[q].kind = "fresh" /\ proc'[q].job = j
  BY <1>9 DEF Coroutine
<1>12. FreshNote(proc[q])'  BY <1>2, <1>4, <1>5, <1>11 DEF FreshNote, InFlightStatuses
<1>13. Note(proc[q])'  BY <1>11, <1>12 DEF Note, ReadsRight, JobWrites, IssueWrites
<1>14. \A i \in Jobs : Row(i)'
  <2>1. \A r \in Procs : proc[r].pc \in Ending => proc'[r] = proc[r]
    <3> SUFFICES ASSUME NEW r \in Procs, proc[r].pc \in Ending PROVE FALSE
      OBVIOUS
    <3>1. Busy(proc[r]) /\ r # p  BY <1>2 DEF Ending, Stopping, Busy
    <3> QED  BY <1>3, <3>1
  <2>2. \A i \in Jobs : Row(i)  BY DEF CalmInv
  <2> QED  BY <1>2, <2>1, <2>2, SameRow
<1>15. \A i, k \in Jobs : job'[i] \in ActiveStatuses /\ job'[k] \in ActiveStatuses => i = k  BY <1>2 DEF CalmInv
<1>16. Busy(proc'[q])  BY <1>11 DEF Busy
<1> QED  BY <1>3, <1>8, <1>10, <1>13, <1>14, <1>15, <1>16, CalmWhole

LEMMA RollbackCalm ==
    ASSUME CalmInv, ClosedInv', NEW p \in Procs, Rollback(p)
    PROVE  CalmInv'
<1>1. PICK next \in {"unwind", "idle"} : UpdateIssue(p, "rollback", "open", next, Raised(p))
  BY DEF Rollback
<1>2. "rollback" \in IssueWrites \cap Clear  BY DEF IssueWrites, Clear
<1>3. /\ proc[p].pc = "rollback" /\ Busy(proc[p]) /\ ClearNote(proc[p]) /\ NoneActive
      /\ UNCHANGED <<job, launch, ckpt, input, byJob, orch, boot, stops>>
      /\ \A i \in Jobs : ckpt'[i] \in {ckpt[i], "none"}
      /\ issue = "open" \/ <<issue, "open">> \in IssueMoves => issue' = "open" /\ Goto(p, next)
  BY <1>1, <1>2, ClearIssue
<1>4. issue = "triaging"  BY <1>3 DEF ClearNote
<1>5. <<issue, "open">> \in IssueMoves  BY <1>4, MovesMade
<1>6. issue' = "open" /\ Goto(p, next)  BY <1>3, <1>5
<1> QED  BY <1>3, <1>6, ClearStep

LEMMA DispatchCalm ==
    ASSUME CalmInv, ClosedInv', NEW p \in Procs, Dispatch(p)
    PROVE  CalmInv'
<1>1. CASE Exec(p)  BY <1>1, ExecStepCalm DEF Exec
<1>2. CASE Create(p)
  <2>1. (\E j \in Jobs : Inserts(p, j)) \/ Step(p, "create", "rollback")  BY <1>2 DEF Create, Inserts
  <2> QED  BY <2>1, InsertsCalm, ExecStepCalm
<1> QED  BY <1>1, <1>2, ClaimIssueCalm, TrackCalm, RollbackCalm DEF Dispatch

(***************************************************************************)
(* schedule_resume of a held job that has its answers.                     *)
(***************************************************************************)
LEMMA ScheduleCalm ==
    ASSUME CalmInv, ClosedInv', NEW p \in Procs, NEW kind \in Resumes, NEW j \in Jobs, Schedule(p, kind, j),
           Busy(proc[p]), proc[p].pc \notin Ending, job[j] = HeldAs(kind), PendingOf(j) = {}
    PROVE  CalmInv'
<1>1. UNCHANGED <<issue, job, launch, ckpt, input, orch, boot, stops>> /\ orch' # "booting"
  BY Alone DEF Schedule
<1>2. CASE orch = "draining"
  <2>1. Goto(p, "idle")  BY <1>2 DEF Schedule
  <2>2. AtRest'  BY <1>1, <1>2, ClosedParts, RestDown DEF ClosedInv
  <2> QED  BY <1>1, <2>1, <2>2, Went, CalmMove DEF Ending, Stopping
<1>3. CASE orch # "draining"
  <2>1. proc' = [proc EXCEPT ![p] = Coroutine("prior_job", kind, j)]  BY <1>3 DEF Schedule
  <2>2. proc \in [Procs -> Coroutines]  BY ClosedParts, ShapeParts DEF CalmInv
  <2>3. proc'[p] = Coroutine("prior_job", kind, j) /\ \A q \in Procs : q # p => proc'[q] = proc[q]
    BY <2>1, <2>2
  <2>4. proc'[p].pc = "prior_job" /\ proc'[p].kind = kind /\ proc'[p].job = j  BY <2>3 DEF Coroutine
  <2>5. PendingOf(j)' = {}  BY <1>1 DEF PendingOf
  <2>6. HeldNote(proc[p])'  BY <1>1, <2>4, <2>5 DEF HeldNote
  <2>7. Note(proc[p])'  BY <2>4, <2>6 DEF Note, ReadsRight, JobWrites, IssueWrites
  <2>8. Busy(proc'[p])  BY <2>4 DEF Busy
  <2> QED  BY <1>1, <2>3, <2>7, <2>8, CalmMove DEF Ending, Stopping
<1> QED  BY <1>2, <1>3

LEMMA ContinueCalm ==
    ASSUME CalmInv, ClosedInv', NEW p \in Procs, Continue(p)
    PROVE  CalmInv'
<1>1. PICK j : j = proc[p].job  OBVIOUS
<1>2. proc[p].pc = "continue" /\ Schedule(p, "choice", j)  BY <1>1 DEF Continue, At
<1>3. Busy(proc[p]) /\ Note(proc[p]) /\ j \in Jobs /\ Row(j)  BY <1>1, <1>2, Own DEF Clear, Stopping, Replying
<1>4. job[j] = "paused"  BY <1>1, <1>2, <1>3, NoteAt
<1>5. PendingOf(j) = {}  BY <1>3, <1>4, ActiveNames DEF Row
<1>6. "choice" \in Resumes /\ job[j] = HeldAs("choice")  BY <1>4 DEF Resumes, HeldAs
<1>7. proc[p].pc \notin Ending  BY <1>2 DEF Ending, Stopping
<1> QED  BY <1>2, <1>3, <1>5, <1>6, <1>7, ScheduleCalm

(***************************************************************************)
(* What an answer on its way has of its job: it waits still, or a cancel   *)
(* has left its questions open.                                            *)
(***************************************************************************)
LEMMA ReplyRow ==
    ASSUME CalmInv, NEW p \in Procs, proc[p].pc \in Replying
    PROVE  /\ Busy(proc[p]) /\ proc[p].job \in Jobs /\ proc[p].job # 0 /\ proc[p].kind = "reply"
           /\ Row(proc[p].job) /\ job[proc[p].job] # "running"
           /\ \/ job[proc[p].job] = "awaiting_input" /\ issue = "awaiting_input"
              \/ "cancel" \in Kinds /\ NoneActive
           /\ proc[p].pc \in {"guard", "resume", "find"} => PendingOf(proc[p].job) = {}
           /\ proc[p].pc = "resume" => job[proc[p].job] = "awaiting_input"
           /\ \A i \in Jobs : i # proc[p].job => job[i] \notin ActiveStatuses
           /\ orch \in {"up", "draining"}
<1>1. Busy(proc[p]) /\ Mine(proc[p]) = proc[p].job /\ proc[p].pc \notin Clear
  BY DEF Replying, Busy, Mine, Clear
<1>2. /\ Note(proc[p]) /\ proc[p].job \in Jobs /\ orch \in {"up", "draining"}
      /\ \A i \in Jobs : i # proc[p].job => job[i] \notin ActiveStatuses
  BY <1>1, Alone
<1>3. ReplyNote(proc[p])  BY <1>2, NoteAt DEF Replying
<1>4. job[proc[p].job] # "running"  BY <1>2, <1>3, ActiveNames DEF ReplyNote, NoneActive
<1> QED  BY <1>1, <1>2, <1>3, <1>4 DEF ReplyNote, CalmInv

\* A reply goes on while its job's row stays and no question is opened.
LEMMA ReplyGoesOn ==
    ASSUME CalmInv, NEW p \in Procs, proc[p].pc \in Replying, NEW pc \in Replying, Goto(p, pc),
           UNCHANGED <<issue, job>>, NEW j, j = proc[p].job,
           pc \in {"guard", "resume", "find"} => PendingOf(j)' = {},
           pc = "resume" => job[j] = "awaiting_input"
    PROVE  Note(proc[p])'
<1>1. /\ proc'[p].pc = pc /\ proc'[p].job = j /\ proc'[p].kind = proc[p].kind /\ ReadsRight(proc[p])'
  BY Went DEF Replying
<1>2. /\ j # 0 /\ proc[p].kind = "reply"
      /\ \/ job[j] = "awaiting_input" /\ issue = "awaiting_input"
         \/ "cancel" \in Kinds /\ NoneActive
  BY ReplyRow
<1>3. ReplyNote(proc[p])'  BY <1>1, <1>2 DEF ReplyNote, NoneActive
<1> QED  BY <1>1, <1>3 DEF Note, Replying

LEMMA RecordCalm ==
    ASSUME CalmInv, ClosedInv', NEW p \in Procs, Record(p)
    PROVE  CalmInv'
<1>1. PICK j : j = proc[p].job  OBVIOUS
<1>2. /\ proc[p].pc = "record" /\ Goto(p, "count")
      /\ UNCHANGED <<issue, job, launch, ckpt, byJob, orch, boot, stops>>
  BY DEF Record, At
<1>3. /\ Busy(proc[p]) /\ j \in Jobs /\ Row(j) /\ job[j] # "running"
      /\ \A i \in Jobs : i # j => job[i] \notin ActiveStatuses
      /\ orch \in {"up", "draining"}
  BY <1>1, <1>2, ReplyRow DEF Replying
<1>4. input \in [Jobs -> Seq({"pending", "answered"})]  BY ClosedParts, ShapeParts DEF CalmInv
<1>5. PICK n : n = proc[p].number  OBVIOUS
<1>6. input' = [input EXCEPT ![j] = [i \in DOMAIN input[j] |-> IF i = n THEN "answered" ELSE input[j][i]]]
  BY <1>1, <1>3, <1>5 DEF Record
<1>7. /\ \A i \in Jobs : i # j => input'[i] = input[i]
      /\ input'[j] = [i \in DOMAIN input[j] |-> IF i = n THEN "answered" ELSE input[j][i]]
  BY <1>3, <1>4, <1>6
<1>8. PendingOf(j)' \subseteq PendingOf(j)  BY <1>7 DEF PendingOf
<1>9. Row(j)'  BY <1>2, <1>3, <1>8 DEF Row
<1>10. Note(proc[p])'  BY <1>1, <1>2, ReplyGoesOn DEF Replying
<1> QED  BY <1>2, <1>3, <1>7, <1>9, <1>10, Went, CalmRows

LEMMA CountPendingCalm ==
    ASSUME CalmInv, ClosedInv', NEW p \in Procs, CountPending(p)
    PROVE  CalmInv'
<1>1. PICK j : j = proc[p].job  OBVIOUS
<1>2. PICK asked : asked = (IF proc[p].channel = "job" THEN {j} ELSE Jobs)  OBVIOUS
<1>3. PICK pc : pc = (IF \A i \in asked : PendingOf(i) = {} THEN "guard" ELSE "idle")  OBVIOUS
<1>4. Step(p, "count", pc)  BY <1>1, <1>2, <1>3 DEF CountPending
<1>5. proc[p].pc = "count" /\ Goto(p, pc) /\ UNCHANGED <<issue, job, ckpt, input, orch>>  BY <1>4 DEF Step, At
<1>6. /\ Busy(proc[p]) /\ j \in Jobs /\ job[j] # "running"
      /\ \/ job[j] = "awaiting_input" /\ issue = "awaiting_input"
         \/ "cancel" \in Kinds /\ NoneActive
      /\ \A i \in Jobs : i # j => job[i] \notin ActiveStatuses
  BY <1>1, <1>5, ReplyRow DEF Replying
<1>7. \A i : PendingOf(i)' = PendingOf(i)  BY <1>5 DEF PendingOf
<1>8. j \in asked /\ asked \subseteq Jobs  BY <1>2, <1>6
<1>9. CASE \A i \in asked : PendingOf(i) = {}
  <2>1. pc = "guard" /\ PendingOf(j) = {}  BY <1>3, <1>8, <1>9
  <2>2. Note(proc[p])'  BY <1>1, <1>5, <1>7, <2>1, ReplyGoesOn DEF Replying
  <2> QED  BY <1>4, <2>1, <2>2, CalmStep DEF Ending, Stopping
<1>10. CASE ~\A i \in asked : PendingOf(i) = {}
  <2>2. \A k \in Jobs : k # j => job'[k] \notin {"pending", "running", "awaiting_input", "paused"}
    BY <1>5, <1>6, ActiveNames
  <2>3. \A k \in Jobs : job'[k] \notin InFlightStatuses
    BY <1>5, <1>6, <2>2, ActiveNames DEF NoneActive
  <2>4. AtRest'  BY <2>3 DEF AtRest
  <2>5. pc = "idle"  BY <1>3, <1>10
  <2> QED  BY <1>4, <2>4, <2>5, CalmStep DEF Ending, Stopping
<1> QED  BY <1>9, <1>10

LEMMA GuardCalm ==
    ASSUME CalmInv, ClosedInv', NEW p \in Procs, Guard(p)
    PROVE  CalmInv'
<1>1. PICK j : j = proc[p].job  OBVIOUS
<1>2. PICK pc \in {"resume", "find", "idle"} :
         /\ Step(p, "guard", pc)
         /\ pc = "resume" => job[j] = "awaiting_input"
         /\ pc = "idle" => job[j] # "awaiting_input" \/ issue # "awaiting_input"
  BY <1>1 DEF Guard
<1>3. proc[p].pc = "guard" /\ Goto(p, pc) /\ UNCHANGED <<issue, job, ckpt, input>>  BY <1>2 DEF Step, At
<1>4. /\ PendingOf(j) = {}
      /\ \/ job[j] = "awaiting_input" /\ issue = "awaiting_input"
         \/ "cancel" \in Kinds /\ NoneActive
  BY <1>1, <1>3, ReplyRow DEF Replying
<1>5. CASE pc \in {"resume", "find"}
  <2>1. PendingOf(j)' = {}  BY <1>3, <1>4 DEF PendingOf
  <2>2. Note(proc[p])'  BY <1>1, <1>2, <1>3, <1>5, <2>1, ReplyGoesOn DEF Replying
  <2> QED  BY <1>2, <1>5, <2>2, CalmStep DEF Ending, Stopping
<1>6. CASE pc = "idle"
  <2>1. "cancel" \in Kinds /\ NoneActive  BY <1>2, <1>4, <1>6
  <2>2. AtRest'  BY <1>3, <2>1, RestClear DEF NoneActive
  <2> QED  BY <1>2, <1>6, <2>2, CalmStep DEF Ending, Stopping
<1> QED  BY <1>2, <1>5, <1>6

LEMMA ResumeCalm ==
    ASSUME CalmInv, ClosedInv', NEW p \in Procs, Resume(p)
    PROVE  CalmInv'
<1>1. PICK j : j = proc[p].job  OBVIOUS
<1>2. proc[p].pc = "resume" /\ Schedule(p, "answer", j)  BY <1>1 DEF Resume, At
<1>3. Busy(proc[p]) /\ j \in Jobs /\ job[j] = "awaiting_input" /\ PendingOf(j) = {}
  BY <1>1, <1>2, ReplyRow DEF Replying
<1>4. "answer" \in Resumes /\ job[j] = HeldAs("answer")  BY <1>3 DEF Resumes, HeldAs
<1>5. proc[p].pc \notin Ending  BY <1>2 DEF Ending, Stopping
<1> QED  BY <1>2, <1>3, <1>4, <1>5, ScheduleCalm

LEMMA FindCalm ==
    ASSUME CalmInv, ClosedInv', NEW p \in Procs, Find(p)
    PROVE  CalmInv'
<1>1. PICK j : j = proc[p].job  OBVIOUS
<1>2. proc[p].pc = "find" /\ proc[p].pc \notin Ending  BY DEF Find, Step, At, Ending, Stopping
<1>3. /\ Busy(proc[p]) /\ j \in Jobs /\ PendingOf(j) = {} /\ proc[p].kind = "reply"
      /\ \/ job[j] = "awaiting_input"
         \/ "cancel" \in Kinds /\ NoneActive
      /\ \A i \in Jobs : i # j => job[i] \notin ActiveStatuses
  BY <1>1, <1>2, ReplyRow DEF Replying
<1>4. CASE job[j] = "awaiting_input"
  <2>1. \A i \in Jobs : job[i] = "awaiting_input" => i = j  BY <1>3, ActiveNames
  <2>2. Schedule(p, "answer", j)  BY <1>3, <1>4, <2>1 DEF Find
  <2>3. "answer" \in Resumes /\ job[j] = HeldAs("answer")  BY <1>4 DEF Resumes, HeldAs
  <2> QED  BY <1>2, <1>3, <2>2, <2>3, ScheduleCalm
<1>5. CASE "cancel" \in Kinds /\ NoneActive
  <2>1. \A i \in Jobs : job[i] # "awaiting_input"  BY <1>5, ActiveNames DEF NoneActive
  <2>2. PICK pc \in {"claim_issue", "idle"} : Step(p, "find", pc)  BY <2>1 DEF Find
  <2>3. Goto(p, pc) /\ UNCHANGED <<issue, job, ckpt, input>>  BY <2>2 DEF Step
  <2>4. ASSUME pc = "claim_issue" PROVE Note(proc[p])'
    <3>1. proc'[p].pc = "claim_issue" /\ proc'[p].kind = "reply" /\ ReadsRight(proc[p])'
      BY <1>3, <2>3, <2>4, Went
    <3>2. ClearNote(proc[p])'  BY <1>5, <2>3, <3>1 DEF ClearNote, NoneActive, TaskKinds
    <3> QED  BY <3>1, <3>2 DEF Note, Clear
  <2>5. AtRest'  BY <1>5, <2>3, RestClear DEF NoneActive
  <2> QED  BY <2>2, <2>4, <2>5, CalmStep DEF Ending, Stopping
<1> QED  BY <1>3, <1>4, <1>5

LEMMA ReplyCalm ==
    ASSUME CalmInv, ClosedInv', NEW p \in Procs, Reply(p)
    PROVE  CalmInv'
BY RecordCalm, CountPendingCalm, GuardCalm, ResumeCalm, FindCalm DEF Reply

-----------------------------------------------------------------------------
(* One thing at a time: a cancel.                                          *)

(***************************************************************************)
(* The busy task is the one the registry has for its job: a drain waits    *)
(* for it, and a cancel finds it.                                          *)
(***************************************************************************)
InRegistry == \A p \in Procs : Busy(proc[p]) /\ IsTask(p) => byJob[proc[p].job] = p

\* One request at a time, and none but of a process that is up.
Requests ==
    /\ \A p, q \in Procs : proc[p].kind \in RequestKinds /\ proc[q].kind \in RequestKinds => p = q
    /\ \A p \in Procs : proc[p].kind \in RequestKinds => orch = "up"
    /\ \A p \in Procs : proc[p].pc = "cancel_task" => proc[p].kind = "cancel" /\ "cancel" \in Kinds

\* Nobody is busy beside a cancel but the one task of its job.
LEMMA CancelFinds ==
    ASSUME Calm, CalmInv, InRegistry, Requests, NEW p \in Procs, proc[p].pc = "cancel_task",
           NEW q \in Procs, Busy(proc[q])
    PROVE  q # p /\ byJob[proc[p].job] = q /\ orch = "up"
<1>1. proc[p].kind = "cancel" /\ "cancel" \in Kinds /\ MaxJobs = 1  BY DEF Requests, Calm
<1>2. q # p /\ proc[q].pc # "idle"  BY DEF Busy
<1>3. proc[p].kind \in RequestKinds  BY <1>1 DEF RequestKinds
<1>4. orch = "up" /\ proc[q].kind \notin RequestKinds  BY <1>2, <1>3 DEF Requests
<1>5. IsTask(q)  BY <1>2, <1>4, ClosedParts, AtWork DEF CalmInv, IsTask
<1>6. byJob[proc[q].job] = q /\ proc[q].job \in Jobs
  BY <1>2, <1>5, ClosedParts, AtWork DEF InRegistry, CalmInv
<1>7. proc[p].job \in Jobs
  <2>1. proc[p].pc \notin JoblessPCs /\ proc[p].pc # "idle"  BY DEF JoblessPCs
  <2> QED  BY <2>1, ClosedParts, AtWork DEF CalmInv
<1>8. proc[p].job = proc[q].job  BY <1>1, <1>6, <1>7 DEF Jobs
<1> QED  BY <1>2, <1>4, <1>6, <1>8

\* cancel_job once it has cancelled the task: it is the only one at work.
LEMMA CancelStops ==
    ASSUME Calm, CalmInv, InRegistry, Requests, NEW p \in Procs, CancelTask(p)
    PROVE  /\ "cancel" \in Kinds /\ orch = "up" /\ Jobs = {proc[p].job}
           /\ proc'[p].pc \in {"cancel_job", "cancel_wait"} /\ proc'[p].kind = "cancel"
           /\ proc[p].kind = "cancel" /\ proc'[p].job = proc[p].job /\ proc'[p].seen = NoStatus
           /\ \A q \in Procs : q # p => /\ ~Busy(proc'[q])
                                        /\ proc'[q].kind = proc[q].kind
                                        /\ proc'[q].pc = "cancel_task" => proc[q].pc = "cancel_task"
<1>1. PICK j, t : j = proc[p].job /\ t = byJob[j]  OBVIOUS
<1>2. PICK pc : pc = (IF t = 0 THEN "cancel_job" ELSE "cancel_wait")  OBVIOUS
<1>3. /\ proc[p].pc = "cancel_task"
      /\ proc' = [q \in Procs |-> IF q = p THEN [proc[p] EXCEPT !.pc = pc, !.number = t]
                                  ELSE IF q = t THEN AfterCancel(proc[q], orch = "draining")
                                  ELSE proc[q]]
  BY <1>1, <1>2 DEF CancelTask, At
<1>4. proc[p].kind = "cancel" /\ "cancel" \in Kinds /\ MaxJobs = 1 /\ orch = "up"
  BY <1>3 DEF Requests, Calm, RequestKinds
<1>5. proc \in [Procs -> Coroutines] /\ proc[p] \in Coroutines  BY ClosedParts, ShapeParts DEF CalmInv
<1>6. Jobs = {j}
  <2>1. proc[p].pc \notin JoblessPCs /\ proc[p].pc # "idle"  BY <1>3 DEF JoblessPCs
  <2>2. j \in Jobs  BY <1>1, <2>1, ClosedParts, AtWork DEF CalmInv
  <2> QED  BY <1>4, <2>2 DEF Jobs
<1>7. proc[p].seen = NoStatus
  <2>1. proc[p].pc \notin JobWrites \cup IssueWrites  BY <1>3 DEF JobWrites, IssueWrites
  <2> QED  BY <1>5, <2>1, ClosedParts, ReadNothing DEF CalmInv
<1>8. proc'[p].pc = pc /\ proc'[p].kind = "cancel" /\ proc'[p].job = j /\ proc'[p].seen = NoStatus
  BY <1>1, <1>3, <1>4, <1>5, <1>7 DEF Coroutines
<1>9. pc \in {"cancel_job", "cancel_wait"}  BY <1>2
<1>10. ASSUME NEW q \in Procs, q # p
       PROVE  /\ ~Busy(proc'[q])
              /\ proc'[q].kind = proc[q].kind
              /\ proc'[q].pc = "cancel_task" => proc[q].pc = "cancel_task"
  <2>1. CASE q = t
    <3>1. proc'[q] = AfterCancel(proc[q], FALSE) /\ proc[q] \in Coroutines
      BY <1>3, <1>4, <1>5, <1>10, <2>1
    <3>2. proc'[q].pc = "unwind" /\ proc'[q].kind = proc[q].kind  BY <3>1 DEF AfterCancel, Coroutines
    <3> QED  BY <3>2 DEF Busy
  <2>2. CASE q # t
    <3>1. proc'[q] = proc[q]  BY <1>3, <1>10, <2>2
    <3>2. ~Busy(proc[q])  BY <1>1, <1>3, <2>2, CancelFinds
    <3> QED  BY <3>1, <3>2
  <2> QED  BY <2>1, <2>2
<1> QED  BY <1>1, <1>4, <1>6, <1>8, <1>9, <1>10

LEMMA CancelTaskCalm ==
    ASSUME Calm, CalmInv, ClosedInv', InRegistry, Requests, NEW p \in Procs, CancelTask(p)
    PROVE  CalmInv'
<1>1. UNCHANGED <<issue, job, launch, ckpt, input, byJob, orch, boot, stops>>  BY DEF CancelTask
<1>2. /\ "cancel" \in Kinds /\ orch = "up" /\ Jobs = {proc[p].job}
      /\ proc'[p].pc \in {"cancel_job", "cancel_wait"} /\ proc'[p].kind = "cancel"
      /\ proc'[p].job = proc[p].job /\ proc'[p].seen = NoStatus
      /\ \A q \in Procs : q # p => ~Busy(proc'[q])
  BY CancelStops
<1>3. \A i \in Jobs : Row(i)'
  <2> SUFFICES ASSUME NEW i \in Jobs PROVE Row(i)'
    OBVIOUS
  <2>1. Row(i) /\ PendingOf(i)' = PendingOf(i)  BY <1>1 DEF CalmInv, PendingOf
  <2>2. proc'[p].pc \in Ending /\ proc'[p].job = i  BY <1>2 DEF Ending, Stopping
  <2> QED  BY <1>1, <2>1, <2>2 DEF Row
<1>4. StopNote(proc[p])'  BY <1>2 DEF StopNote
<1>5. Note(proc[p])'  BY <1>2, <1>4 DEF Note, Stopping, ReadsRight
<1>6. Busy(proc'[p]) /\ orch' # "booting"  BY <1>1, <1>2 DEF Busy
<1>7. \A i, k \in Jobs : job'[i] \in ActiveStatuses /\ job'[k] \in ActiveStatuses => i = k  BY <1>2
<1> QED  BY <1>2, <1>3, <1>5, <1>6, <1>7, CalmWhole

\* What a cancel whose task is gone has.
LEMMA StoppingRow ==
    ASSUME CalmInv, NEW p \in Procs, proc[p].pc \in Stopping
    PROVE  /\ Busy(proc[p]) /\ Note(proc[p]) /\ proc[p].job \in Jobs /\ job[proc[p].job] # "absent"
           /\ proc[p].kind = "cancel" /\ "cancel" \in Kinds
           /\ \A i \in Jobs : i # proc[p].job => job[i] \notin ActiveStatuses
           /\ orch # "booting"
<1>1. Busy(proc[p]) /\ proc[p].pc \notin Clear /\ Mine(proc[p]) = proc[p].job
  BY DEF Stopping, Busy, Clear, Mine
<1>2. Note(proc[p]) /\ proc[p].job \in Jobs /\ orch # "booting"  BY <1>1, Alone
<1>3. StopNote(proc[p])  BY <1>2, NoteAt
<1>4. job[proc[p].job] # "absent"  BY <1>2, ClosedParts, ShapeParts DEF CalmInv, HasItsJob, Jobs
<1> QED  BY <1>1, <1>2, <1>3, <1>4 DEF StopNote

LEMMA StopGoesOn ==
    ASSUME CalmInv, ClosedInv', NEW p \in Procs, NEW at \in Stopping, NEW pc \in Stopping, Step(p, at, pc)
    PROVE  CalmInv'
<1>1. proc[p].pc = at /\ Goto(p, pc) /\ UNCHANGED <<issue, job, ckpt, input, orch, boot>>  BY DEF Step, At
<1>2. /\ Busy(proc[p]) /\ proc[p].kind = "cancel" /\ "cancel" \in Kinds
      /\ \A i \in Jobs : i # proc[p].job => job[i] \notin ActiveStatuses
  BY <1>1, StoppingRow
<1>3. /\ proc'[p].pc = pc /\ proc'[p].kind = proc[p].kind /\ proc'[p].job = proc[p].job /\ ReadsRight(proc[p])'
      /\ \A q \in Procs : q # p => proc'[q] = proc[q]
      /\ Busy(proc'[p])
  BY <1>1, Went DEF Stopping
<1>4. StopNote(proc[p])'  BY <1>1, <1>2, <1>3 DEF StopNote
<1>5. Note(proc[p])'  BY <1>3, <1>4 DEF Note
<1>6. \A q \in Procs : Busy(proc'[q]) <=> Busy(proc[q])  BY <1>2, <1>3
<1>7. \A q \in Procs : proc[q].pc \in Ending => proc'[q].pc \in Ending /\ proc'[q].job = proc[q].job
  BY <1>3 DEF Ending
<1>8. \A q \in Procs : Busy(proc'[q]) => Note(proc[q])'  BY <1>2, <1>3, <1>5, Alone
<1> QED  BY <1>1, <1>6, <1>7, <1>8, CalmQuiet

LEMMA CancelWaitCalm ==
    ASSUME CalmInv, ClosedInv', NEW p \in Procs, CancelWait(p)
    PROVE  CalmInv'
<1>1. PICK pc \in {"cancel_recheck", "cancel_job"} : Step(p, "cancel_wait", pc)  BY DEF CancelWait
<1> QED  BY <1>1, StopGoesOn DEF Stopping

LEMMA CancelRecheckCalm ==
    ASSUME CalmInv, ClosedInv', NEW p \in Procs, CancelRecheck(p)
    PROVE  CalmInv'
<1>1. CASE job[proc[p].job] \notin {"completed", "failed"}
  <2>1. Step(p, "cancel_recheck", "cancel_job")  BY <1>1 DEF CancelRecheck
  <2> QED  BY <2>1, StopGoesOn DEF Stopping
<1>2. CASE job[proc[p].job] \in {"completed", "failed"}
  <2>1. Step(p, "cancel_recheck", "idle")  BY <1>2 DEF CancelRecheck
  <2>2. proc[p].pc = "cancel_recheck" /\ Goto(p, "idle") /\ UNCHANGED <<issue, job, ckpt, input, orch>>
    BY <2>1 DEF Step, At
  <2>3. /\ Busy(proc[p]) /\ "cancel" \in Kinds
        /\ \A i \in Jobs : i # proc[p].job => job[i] \notin ActiveStatuses
    BY <2>2, StoppingRow DEF Stopping
  <2>4. NoneActive  BY <1>2, <2>3, ActiveNames DEF NoneActive
  <2> QED  BY <2>2, <2>3, <2>4, ClearStep
<1> QED  BY <1>1, <1>2

\* A job that a cancel has come to write is over when it has.
LEMMA CancelJobCalm ==
    ASSUME CalmInv, ClosedInv', NEW p \in Procs, CancelJob(p)
    PROVE  CalmInv'
<1>1. PICK j : j = proc[p].job  OBVIOUS
<1>2. /\ proc[p].pc = "cancel_job" /\ proc[p].seen # NoStatus
      /\ job' = [job EXCEPT ![j] = StatusAfter(JobMoves, proc[p].seen, job[j], "cancelled")]
      /\ Goto(p, "cancel_issue")
      /\ UNCHANGED <<issue, launch, ckpt, input, byJob, orch, boot, stops>>
  BY <1>1 DEF CancelJob, UpdateJob, UpdateJobBy, At
<1>3. /\ Busy(proc[p]) /\ Note(proc[p]) /\ j \in Jobs /\ job[j] # "absent"
      /\ proc[p].kind = "cancel" /\ "cancel" \in Kinds
      /\ \A i \in Jobs : i # j => job[i] \notin ActiveStatuses
      /\ orch # "booting"
  BY <1>1, <1>2, StoppingRow DEF Stopping
<1>4. proc[p].seen = job[j]  BY <1>1, <1>2, <1>3, NoteAt DEF ReadsRight, JobWrites
<1>5. job \in [Jobs -> JobStatuses \cup {"absent"}]  BY ClosedParts, ShapeParts DEF CalmInv
<1>6. /\ job'[j] = StatusAfter(JobMoves, job[j], job[j], "cancelled")
      /\ \A i \in Jobs : i # j => job'[i] = job[i]
  BY <1>2, <1>3, <1>4, <1>5
<1>7. job'[j] \notin ActiveStatuses \cup {"absent"}
  <2>1. "cancelled" \notin ActiveStatuses \cup {"absent"}  BY ActiveNames
  <2>2. CASE job[j] \in ActiveStatuses
    <3>1. <<job[j], "cancelled">> \in JobMoves  BY <2>2, ActiveNames DEF JobMoves
    <3>2. job'[j] = "cancelled"  BY <1>6, <3>1 DEF StatusAfter, UpdateRaises
    <3> QED  BY <2>1, <3>2
  <2>3. CASE job[j] \notin ActiveStatuses
    <3>1. job'[j] \in {job[j], "cancelled"}  BY <1>6 DEF StatusAfter
    <3> QED  BY <1>3, <2>1, <2>3, <3>1
  <2> QED  BY <2>2, <2>3
<1>8. Row(j)'
  <2>1. job'[j] \notin {"absent", "pending", "running", "awaiting_input", "paused"}  BY <1>7, ActiveNames
  <2> QED  BY <1>3, <1>7, <2>1 DEF Row
<1>9. NoneActive'  BY <1>3, <1>6, <1>7 DEF NoneActive
<1>10. proc'[p].pc = "cancel_issue" /\ proc'[p].kind = "cancel" /\ ReadsRight(proc[p])'  BY <1>2, <1>3, Went
<1>11. ClearNote(proc[p])'  BY <1>3, <1>9, <1>10 DEF ClearNote, DispatchPCs, TaskKinds
<1>12. Note(proc[p])'  BY <1>10, <1>11 DEF Note, Clear
<1> QED  BY <1>2, <1>3, <1>6, <1>8, <1>12, Went, CalmRows

LEMMA CancelIssueCalm ==
    ASSUME CalmInv, ClosedInv', NEW p \in Procs, CancelIssue(p)
    PROVE  CalmInv'
<1>1. UpdateIssue(p, "cancel_issue", "open", "cancel_purge", "cancel_purge")  BY DEF CancelIssue
<1>2. "cancel_issue" \in IssueWrites \cap Clear  BY DEF IssueWrites, Clear
<1>3. /\ proc[p].pc = "cancel_issue" /\ Busy(proc[p]) /\ ClearNote(proc[p]) /\ NoneActive
      /\ UNCHANGED <<job, launch, ckpt, input, byJob, orch, boot, stops>>
      /\ \A i \in Jobs : ckpt'[i] \in {ckpt[i], "none"}
      /\ Goto(p, "cancel_purge")
  BY <1>1, <1>2, ClearIssue
<1>4. proc'[p].pc = "cancel_purge" /\ proc'[p].kind = proc[p].kind /\ ReadsRight(proc[p])'  BY <1>3, Went
<1>5. "cancel" \in Kinds /\ proc[p].kind = "cancel"  BY <1>3 DEF ClearNote
<1>6. ClearNote(proc[p])'  BY <1>3, <1>4, <1>5 DEF ClearNote, NoneActive, DispatchPCs, TaskKinds
<1>7. Note(proc[p])'  BY <1>4, <1>6 DEF Note, Clear
<1> QED  BY <1>3, <1>7, ClearStep

LEMMA CancelPurgeCalm ==
    ASSUME CalmInv, ClosedInv', NEW p \in Procs, CancelPurge(p)
    PROVE  CalmInv'
<1>1. proc[p].pc = "cancel_purge" /\ Goto(p, "idle") /\ UNCHANGED <<issue, job, input, orch>>
  BY DEF CancelPurge, Purge, At
<1>2. Busy(proc[p])  BY <1>1 DEF Busy
<1>3. ClearNote(proc[p])  BY <1>1, <1>2, Alone, NoteAt DEF Clear
<1>4. NoneActive  BY <1>1, <1>3 DEF ClearNote
<1>5. \A i \in Jobs : ckpt'[i] \in {ckpt[i], "none"}
  <2>1. ckpt \in [Jobs -> Checkpoints]  BY ClosedParts, ShapeParts DEF CalmInv
  <2> QED  BY <2>1 DEF CancelPurge, Purge
<1> QED  BY <1>1, <1>2, <1>4, <1>5, ClearStep

LEMMA CancelCalm ==
    ASSUME Calm, CalmInv, ClosedInv', InRegistry, Requests, NEW p \in Procs, Cancel(p)
    PROVE  CalmInv'
BY CancelTaskCalm, CancelWaitCalm, CancelRecheckCalm, CancelJobCalm, CancelIssueCalm, CancelPurgeCalm DEF Cancel

LEMMA WorkCalm ==
    ASSUME Calm, CalmInv, ClosedInv', InRegistry, Requests, NEW p \in Procs, Work(p)
    PROVE  CalmInv'
BY ReadStatusCalm, DispatchCalm, BeforeTheRunCalm, TheRunCalm, ContinueCalm, ReplyCalm, CancelCalm DEF Work

-----------------------------------------------------------------------------
(* One thing at a time: the requests, and the process.                     *)

(***************************************************************************)
(* A coroutine is started while nobody is busy.                            *)
(***************************************************************************)
LEMMA BeginCalm ==
    ASSUME CalmInv, ClosedInv', NEW p \in Procs, NEW kind, NEW c, Begin(p, kind, c),
           \A q \in Procs : ~Busy(proc[q]), c.pc \notin {"idle", "unwind", "cancel_task"}, Note(proc[p])'
    PROVE  CalmInv'
<1>1. /\ proc' = [proc EXCEPT ![p] = c] /\ orch = "up"
      /\ UNCHANGED <<issue, job, launch, ckpt, input, byJob, orch, boot, stops>>
  BY DEF Begin
<1>2. proc \in [Procs -> Coroutines]  BY ClosedParts, ShapeParts DEF CalmInv
<1>3. proc'[p] = c /\ \A q \in Procs : q # p => proc'[q] = proc[q]  BY <1>1, <1>2
<1>4. \A q \in Procs : q # p => ~Busy(proc'[q])  BY <1>3
<1>5. \A q \in Procs : proc[q].pc \notin Ending  BY DEF Ending, Stopping, Busy
<1>6. \A i \in Jobs : Row(i)'  BY <1>1, <1>5, SameRow DEF CalmInv
<1>7. \A i, k \in Jobs : job'[i] \in ActiveStatuses /\ job'[k] \in ActiveStatuses => i = k  BY <1>1 DEF CalmInv
<1>8. Busy(proc'[p]) /\ orch' # "booting"  BY <1>1, <1>3 DEF Busy
<1> QED  BY <1>4, <1>6, <1>7, <1>8, CalmWhole

\* With one request at a time, a request begins when there is none.
LEMMA NoRequestYet ==
    ASSUME MaxRequests = 1, NEW p \in Procs, NEW kind, NEW c, Begin(p, kind, c)
    PROVE  \A q \in Procs : proc[q].kind \notin RequestKinds
<1> DEFINE S == {q \in Procs : proc[q].kind \in RequestKinds}
<1>1. Cardinality(S) < 1  BY DEF Begin
<1>2. IsFiniteSet(S) /\ S \subseteq Procs
  <2>1. IsFiniteSet(Procs)  BY BoundsAssumption, FS_Interval DEF Procs
  <2> QED  BY <2>1, FS_Subset
<1> HIDE DEF S
<1>3. Cardinality(S) \in Nat  BY <1>2, FS_CardinalityType
<1>4. Cardinality(S) = 0  BY <1>1, <1>3
<1>5. S = {}  BY <1>2, <1>4, FS_EmptySet
<1> QED  BY <1>5 DEF S

LEMMA FirstRequest ==
    ASSUME CalmInv, MaxRequests = 1, NEW p \in Procs, NEW kind, NEW c, Begin(p, kind, c)
    PROVE  \A q \in Procs : Busy(proc[q]) => IsTask(q)
<1> SUFFICES ASSUME NEW q \in Procs, Busy(proc[q]) PROVE IsTask(q)
  OBVIOUS
<1>1. proc[q].pc # "idle"  BY DEF Busy
<1>2. proc[q].kind \in RequestKinds \cup TaskKinds  BY <1>1, ClosedParts, AtWork DEF CalmInv
<1> QED  BY <1>2, NoRequestYet DEF IsTask

LEMMA BeginTriageCalm ==
    ASSUME Calm, CalmInv, ClosedInv', NEW p \in Procs, BeginTriage(p)
    PROVE  CalmInv'
<1>1. Begin(p, "triage", Coroutine("claim_issue", "triage", 0))  BY DEF BeginTriage
<1>2. NoTask /\ NoneActive  BY DEF BeginTriage, Calm, NoneActive
<1>3. \A q \in Procs : ~Busy(proc[q])  BY <1>1, <1>2, FirstRequest DEF Calm, NoTask
<1>6. UNCHANGED <<issue, job>>  BY <1>1 DEF Begin
<1>7. proc'[p] = Coroutine("claim_issue", "triage", 0)
  BY <1>1, ClosedParts, ShapeParts DEF Begin, CalmInv
<1>8. proc'[p].pc = "claim_issue" /\ proc'[p].kind = "triage" /\ proc'[p].seen = NoStatus
  BY <1>7 DEF Coroutine
<1>9. ClearNote(proc[p])'  BY <1>2, <1>6, <1>8 DEF ClearNote, NoneActive, TaskKinds
<1>10. Note(proc[p])'  BY <1>8, <1>9 DEF Note, ReadsRight, Clear, JobWrites
<1>11. Coroutine("claim_issue", "triage", 0).pc \notin {"idle", "unwind", "cancel_task"}  BY DEF Coroutine
<1> QED  BY <1>1, <1>3, <1>10, <1>11, BeginCalm

LEMMA BeginContinueCalm ==
    ASSUME Calm, CalmInv, ClosedInv', NEW p \in Procs, BeginContinue(p)
    PROVE  CalmInv'
<1>1. PICK j \in Jobs : job[j] = "paused" /\ NoTask /\ Begin(p, "continue", Coroutine("continue", "continue", j))
  BY DEF BeginContinue, Calm
<1>2. \A q \in Procs : ~Busy(proc[q])  BY <1>1, FirstRequest DEF Calm, NoTask
<1>3. job' = job  BY <1>1 DEF Begin
<1>4. proc'[p] = Coroutine("continue", "continue", j)
  BY <1>1, ClosedParts, ShapeParts DEF Begin, CalmInv
<1>5. proc'[p].pc = "continue" /\ proc'[p].job = j  BY <1>4 DEF Coroutine
<1>6. Note(proc[p])'  BY <1>1, <1>3, <1>5 DEF Note, ReadsRight, JobWrites, IssueWrites
<1>7. Coroutine("continue", "continue", j).pc \notin {"idle", "unwind", "cancel_task"}  BY DEF Coroutine
<1> QED  BY <1>1, <1>2, <1>6, <1>7, BeginCalm

(***************************************************************************)
(* While a job has an open question, no task is busy.                      *)
(***************************************************************************)
LEMMA WaitingRests ==
    ASSUME Calm, CalmInv, NEW j \in Jobs, PendingOf(j) # {}, NEW q \in Procs, Busy(proc[q]), IsTask(q)
    PROVE  FALSE
<1>1. /\ Note(proc[q]) /\ (j # Mine(proc[q]) => job[j] \notin ActiveStatuses)
      /\ proc[q].pc \notin Clear => Mine(proc[q]) \in Jobs
      /\ proc[q].pc \in Clear \cup Stopping \cup Replying \/ job[Mine(proc[q])] \in ActiveStatuses
  BY Alone
<1>2. proc[q].pc \notin Stopping \cup Replying
  <2>1. proc[q].pc # "idle"  BY DEF Busy
  <2>2. proc[q].pc \notin RequestPCs  BY <2>1, ClosedParts, AtWork DEF CalmInv
  <2> QED  BY <2>2 DEF RequestPCs, Stopping, Replying
<1>3. proc[q].pc \notin Clear
  <2>1. proc[q].pc \in Clear => PendingOf(j) = {}  BY <1>1, NoteAt DEF ClearNote, IsTask
  <2> QED  BY <2>1
<1>4. job[Mine(proc[q])] \in ActiveStatuses /\ Mine(proc[q]) \in Jobs  BY <1>1, <1>2, <1>3
<1>5. job[j] = "awaiting_input"
  <2>1. Row(j)  BY DEF CalmInv
  <2>2. ASSUME "cancel" \in Kinds, job[j] \notin ActiveStatuses PROVE FALSE
    <3>1. Mine(proc[q]) = j  BY <1>4, <2>2 DEF Calm, Jobs
    <3> QED  BY <1>4, <2>2, <3>1
  <2> QED  BY <2>1, <2>2 DEF Row
<1>6. j = Mine(proc[q])  BY <1>1, <1>5, ActiveNames
<1>7. proc[q].pc # "track"
  <2>1. proc[q].pc = "track" => job[j] = "pending"  BY <1>1, <1>6, NoteAt DEF TrackNote, Mine
  <2> QED  BY <1>5, <2>1
<1>8. proc[q].job = j  BY <1>6, <1>7 DEF Mine
<1>9. FreshNote(proc[q]) \/ RestartNote(proc[q]) \/ HeldNote(proc[q]) \/ ResumeNote(proc[q]) \/ RunNote(proc[q])
       \/ job[proc[q].job] = "paused"
  BY <1>1, <1>2, <1>3, <1>7 DEF Note, Replying
<1>10. ~HeldNote(proc[q])  BY <1>8 DEF HeldNote
<1>11. job[j] \in {"pending", "running", "paused"}
  BY <1>8, <1>9, <1>10, ActiveNames DEF FreshNote, RestartNote, ResumeNote, RunNote
<1> QED  BY <1>5, <1>11

LEMMA BeginReplyCalm ==
    ASSUME Calm, CalmInv, ClosedInv', NEW p \in Procs, BeginReply(p)
    PROVE  CalmInv'
<1>1. PICK j \in Jobs, ch \in Channels : \E n \in DOMAIN input[j] :
          /\ input[j][n] # "answered"
          /\ Begin(p, "reply", [Coroutine("record", "reply", j) EXCEPT !.channel = ch, !.number = n])
  BY DEF BeginReply
<1>2. PICK n \in DOMAIN input[j] :
          /\ input[j][n] # "answered"
          /\ Begin(p, "reply", [Coroutine("record", "reply", j) EXCEPT !.channel = ch, !.number = n])
  BY <1>1
<1>3. PendingOf(j) # {}
  <2>1. input[j] \in Seq({"pending", "answered"})  BY ClosedParts, ShapeParts DEF CalmInv
  <2>2. input[j][n] \in {"pending", "answered"}  BY <1>2, <2>1
  <2> QED  BY <1>2, <2>2 DEF PendingOf
<1>4. \A q \in Procs : ~Busy(proc[q])  BY <1>2, <1>3, FirstRequest, WaitingRests DEF Calm
<1>5. \/ job[j] = "awaiting_input" /\ issue = "awaiting_input"
      \/ "cancel" \in Kinds /\ NoneActive
  <2>1. "cancel" \in Kinds /\ job[j] \notin ActiveStatuses => NoneActive  BY DEF Calm, NoneActive, Jobs
  <2> QED  BY <1>3, <2>1 DEF CalmInv, Row
<1>6. UNCHANGED <<issue, job>>  BY <1>2 DEF Begin
<1> DEFINE c == [Coroutine("record", "reply", j) EXCEPT !.channel = ch, !.number = n]
<1>7. Begin(p, "reply", c)  BY <1>2
<1>8. c.pc = "record" /\ c.job = j /\ c.kind = "reply"  BY DEF Coroutine
<1> HIDE DEF c
<1>9. proc'[p] = c  BY <1>7, ClosedParts, ShapeParts DEF Begin, CalmInv
<1>10. j # 0  BY DEF Jobs
<1>11. ReplyNote(proc[p])'  BY <1>5, <1>6, <1>8, <1>9, <1>10 DEF ReplyNote, NoneActive
<1>12. Note(proc[p])'  BY <1>8, <1>9, <1>11 DEF Note, ReadsRight, JobWrites, IssueWrites
<1> QED  BY <1>4, <1>7, <1>8, <1>12, BeginCalm

\* A cancel that has not cancelled the task yet leaves everybody else at work.
LEMMA BeginCancelCalm ==
    ASSUME CalmInv, ClosedInv', NEW p \in Procs, BeginCancel(p)
    PROVE  CalmInv'
<1>1. PICK j \in Jobs : Begin(p, "cancel", Coroutine("cancel_task", "cancel", j))  BY DEF BeginCancel
<1>2. /\ UNCHANGED <<issue, job, launch, ckpt, input, byJob, orch, boot, stops>>
      /\ proc' = [proc EXCEPT ![p] = Coroutine("cancel_task", "cancel", j)] /\ proc[p] = Idle
  BY <1>1 DEF Begin
<1>3. proc \in [Procs -> Coroutines]  BY ClosedParts, ShapeParts DEF CalmInv
<1>4. proc'[p] = Coroutine("cancel_task", "cancel", j) /\ \A q \in Procs : q # p => proc'[q] = proc[q]
  BY <1>2, <1>3
<1>5. proc'[p].pc = "cancel_task" /\ proc[p].pc = "idle"  BY <1>2, <1>4, IdleFields DEF Coroutine
<1>6. \A q \in Procs : Busy(proc'[q]) <=> Busy(proc[q])  BY <1>4, <1>5 DEF Busy
<1>7. \A q \in Procs : proc[q].pc \in Ending => proc'[q].pc \in Ending /\ proc'[q].job = proc[q].job
  BY <1>4, <1>5 DEF Ending, Stopping
<1>8. \A q \in Procs : Busy(proc'[q]) => Note(proc[q])'
  <2> SUFFICES ASSUME NEW q \in Procs, Busy(proc'[q]) PROVE Note(proc[q])'
    OBVIOUS
  <2>1. proc'[q] = proc[q]  BY <1>4, <1>5 DEF Busy
  <2>2. Note(proc[q])  BY <1>6 DEF CalmInv
  <2> QED  BY <1>2, <2>1, <2>2, SameNote
<1> QED  BY <1>2, <1>6, <1>7, <1>8, CalmQuiet

LEMMA ArrivalCalm ==
    ASSUME Calm, CalmInv, ClosedInv', NEW p \in Procs, Arrival(p)
    PROVE  CalmInv'
<1>1. ~BeginComment(p)  BY DEF BeginComment, Begin, Calm
<1> QED  BY <1>1, BeginTriageCalm, BeginContinueCalm, BeginReplyCalm, BeginCancelCalm DEF Arrival

(***************************************************************************)
(* Coroutines are cancelled or gone, the rows stay, and the executor does  *)
(* not take work.                                                          *)
(***************************************************************************)
LEMMA CalmDown ==
    ASSUME CalmInv, ClosedInv', UNCHANGED <<issue, job, ckpt, input>>, orch' \notin {"up", "booting"},
           \A q \in Procs : Busy(proc'[q]) => Busy(proc[q]) /\ Note(proc[q])',
           \A i \in Jobs : \A q \in Procs :
              /\ proc[q].pc \in Ending /\ proc[q].job = i
              /\ Prompt /\ job[i] = "running" /\ ckpt[i] = "end"
              => proc'[q] = proc[q]
    PROVE  CalmInv'
<1>1. \A q \in Procs : Busy(proc[q])' => Busy(proc[q])  BY DEF Busy
<1>2. \A i \in Jobs : Row(i)'
  <2> SUFFICES ASSUME NEW i \in Jobs PROVE Row(i)'
    OBVIOUS
  <2>1. Row(i) /\ PendingOf(i)' = PendingOf(i)  BY DEF CalmInv, PendingOf
  <2>2. Prompt /\ job[i] = "running" /\ ckpt[i] = "end" =>
           \E q \in Procs : proc'[q].pc \in Ending /\ proc'[q].job = i
    BY <2>1 DEF Row
  <2> QED  BY <2>1, <2>2 DEF Row, Prompt
<1>3. AtRest'  BY ClosedParts, RestDown DEF ClosedInv
<1>4. \A q, r \in Procs : Busy(proc[q])' /\ Busy(proc[r])' => q = r  BY <1>1 DEF CalmInv
<1>5. \A q \in Procs : Busy(proc[q])' => Note(proc[q])'  BY DEF Busy
<1>6. \A i, k \in Jobs : job'[i] \in ActiveStatuses /\ job'[k] \in ActiveStatuses => i = k  BY DEF CalmInv
<1> QED  BY <1>2, <1>3, <1>4, <1>5, <1>6 DEF CalmInv

\* A cancel leaves at work only a resume that puts its job back.
LEMMA CancelledNote ==
    ASSUME CalmInv, UNCHANGED <<issue, job, ckpt, input>>, NEW q \in Procs,
           proc'[q] = AfterCancel(proc[q], TRUE), Busy(proc'[q])
    PROVE  Busy(proc[q]) /\ Note(proc[q])'
<1>1. proc[q] \in Coroutines  BY ClosedParts DEF CalmInv
<1> DEFINE pc == IF proc[q].pc = "slot" /\ proc[q].kind \in {"answer", "choice"} THEN "putback_job" ELSE "unwind"
<1>8. proc'[q] = [proc[q] EXCEPT !.seen = NoStatus, !.pc = pc]  BY DEF AfterCancel
<1>9. pc = "putback_job" => proc[q].pc = "slot" /\ proc[q].kind \in {"answer", "choice"}  OBVIOUS
<1>10. pc \in {"putback_job", "unwind"}  OBVIOUS
<1> HIDE DEF pc
<1>2. /\ proc'[q].pc = "putback_job" /\ proc'[q].kind = proc[q].kind /\ proc'[q].job = proc[q].job
      /\ proc'[q].seen = NoStatus /\ proc'[q].priorJob = proc[q].priorJob
      /\ proc'[q].priorIssue = proc[q].priorIssue
      /\ proc[q].pc = "slot" /\ proc[q].kind \in {"answer", "choice"}
  BY <1>1, <1>8, <1>9, <1>10 DEF Busy, Coroutines
<1>3. Busy(proc[q])  BY <1>2 DEF Busy
<1>4. Note(proc[q])  BY <1>3 DEF CalmInv
<1>5. ResumeNote(proc[q])  BY <1>2, <1>4, NoteAt DEF FreshNote, RestartNote
<1>6. ResumeNote(proc[q])'  BY <1>2, <1>5 DEF ResumeNote
<1>7. Note(proc[q])'  BY <1>2, <1>6 DEF Note, ReadsRight
<1> QED  BY <1>3, <1>7

LEMMA DrainCalm ==
    ASSUME CalmInv, ClosedInv', Drain
    PROVE  CalmInv'
<1>1. /\ "drain" \in Faults /\ orch' = "draining" /\ UNCHANGED <<issue, job, launch, ckpt, input, byJob, boot>>
      /\ proc' = [p \in Procs |-> IF proc[p].pc \in NotStarted /\ \E j \in Jobs : byJob[j] = p
                                  THEN AfterCancel(proc[p], TRUE) ELSE proc[p]]
  BY DEF Drain
<1>3. \A q \in Procs : proc'[q] = proc[q] \/ proc'[q] = AfterCancel(proc[q], TRUE)  BY <1>1
<1>4. \A q \in Procs : Busy(proc'[q]) => Busy(proc[q]) /\ Note(proc[q])'
  <2> SUFFICES ASSUME NEW q \in Procs, Busy(proc'[q]) PROVE Busy(proc[q]) /\ Note(proc[q])'
    OBVIOUS
  <2>1. CASE proc'[q] = proc[q]
    <3>1. Busy(proc[q]) /\ Note(proc[q])  BY <2>1 DEF CalmInv
    <3> QED  BY <1>1, <2>1, <3>1, SameNote
  <2>2. CASE proc'[q] = AfterCancel(proc[q], TRUE)  BY <1>1, <2>2, CancelledNote
  <2> QED  BY <1>3, <2>1, <2>2
<1>5. \A q \in Procs : proc[q].pc \in Ending => proc'[q] = proc[q]  BY <1>1 DEF Ending, Stopping, NotStarted
<1> QED  BY <1>1, <1>4, <1>5, CalmDown

LEMMA DeadlineCalm ==
    ASSUME CalmInv, ClosedInv', NEW p \in Procs, DrainDeadline(p)
    PROVE  CalmInv'
<1>1. /\ orch = "draining" /\ UNCHANGED <<issue, job, launch, ckpt, input, byJob, orch, boot, stops>>
      /\ proc' = [proc EXCEPT ![p] = AfterCancel(proc[p], TRUE)]
      /\ NotLate({proc[p].job})
  BY ClosedParts, ShapeParts DEF DrainDeadline, CalmInv
<1>4. proc \in [Procs -> Coroutines]  BY ClosedParts, ShapeParts DEF CalmInv
<1>5. proc'[p] = AfterCancel(proc[p], TRUE) /\ \A q \in Procs : q # p => proc'[q] = proc[q]  BY <1>1, <1>4
<1>6. \A q \in Procs : Busy(proc'[q]) => Busy(proc[q]) /\ Note(proc[q])'
  <2> SUFFICES ASSUME NEW q \in Procs, Busy(proc'[q]) PROVE Busy(proc[q]) /\ Note(proc[q])'
    OBVIOUS
  <2>1. CASE q # p
    <3>1. proc'[q] = proc[q]  BY <1>5, <2>1
    <3>2. Busy(proc[q]) /\ Note(proc[q])  BY <3>1 DEF CalmInv
    <3> QED  BY <1>1, <3>1, <3>2, SameNote
  <2>2. CASE q = p  BY <1>1, <1>5, <2>2, CancelledNote
  <2> QED  BY <2>1, <2>2
<1>7. \A i \in Jobs : \A q \in Procs :
         /\ proc[q].pc \in Ending /\ proc[q].job = i
         /\ Prompt /\ job[i] = "running" /\ ckpt[i] = "end"
         => proc'[q] = proc[q]
  BY <1>1, <1>5 DEF NotLate, Prompt
<1> QED  BY <1>1, <1>6, <1>7, CalmDown

\* The process is gone, and no job was past its last node without a terminal status.
LEMMA EndsCalm ==
    ASSUME CalmInv, ClosedInv', ProcessEnds,
           Prompt => \A i \in Jobs : job[i] = "running" => ckpt[i] # "end"
    PROVE  CalmInv'
<1>1. UNCHANGED <<issue, job, ckpt, input>> /\ orch' = "down" /\ \A q \in Procs : proc'[q] = Idle
  BY DEF ProcessEnds
<1>2. \A q \in Procs : ~Busy(proc'[q])  BY <1>1, IdleFields DEF Busy
<1> QED  BY <1>1, <1>2, CalmDown

LEMMA CrashCalm ==
    ASSUME CalmInv, ClosedInv', Crash
    PROVE  CalmInv'
<1>1. ProcessEnds /\ NotLate(Jobs)  BY DEF Crash
<1>2. Prompt => \A i \in Jobs : job[i] = "running" => ckpt[i] # "end"  BY <1>1 DEF NotLate, Prompt
<1> QED  BY <1>1, <1>2, EndsCalm

LEMMA ExitCalm ==
    ASSUME CalmInv, ClosedInv', InRegistry, Requests, Exit
    PROVE  CalmInv'
<1>1. ProcessEnds /\ orch = "draining" /\ \A j \in Jobs : byJob[j] = 0  BY DEF Exit
<1>2. \A q \in Procs : proc[q].pc \notin Ending
  <2> SUFFICES ASSUME NEW q \in Procs, proc[q].pc \in Ending PROVE FALSE
    OBVIOUS
  <2>1. Busy(proc[q]) /\ proc[q].pc # "idle"  BY DEF Ending, Stopping, Busy
  <2>2. IsTask(q)
    <3>1. proc[q].kind \notin RequestKinds  BY <1>1 DEF Requests
    <3> QED  BY <2>1, <3>1, ClosedParts, AtWork DEF CalmInv, IsTask
  <2>3. byJob[proc[q].job] = q /\ proc[q].job \in Jobs
    BY <2>1, <2>2, ClosedParts, AtWork DEF InRegistry, CalmInv
  <2> QED  BY <1>1, <2>3 DEF Procs
<1>3. Prompt => \A i \in Jobs : job[i] = "running" => ckpt[i] # "end"  BY <1>2 DEF CalmInv, Row
<1> QED  BY <1>1, <1>3, EndsCalm

LEMMA BootDecideCalm ==
    ASSUME CalmInv, ClosedInv', BootDecide
    PROVE  CalmInv'
<1>1. PICK keep \in SUBSET {j \in Jobs : Recoverable(j)} :
          LET orphaned == {j \in Jobs : job[j] \in InFlightStatuses} \ keep
          IN  /\ boot' = [keep |-> keep, orphaned |-> orphaned]
              /\ job' = [j \in Jobs |-> IF j \in orphaned THEN "failed" ELSE job[j]]
  BY DEF BootDecide
<1> DEFINE orphaned == {j \in Jobs : job[j] \in InFlightStatuses} \ keep
<1>2. /\ orch = "down" /\ orch' = "booting" /\ UNCHANGED <<issue, launch, ckpt, input, proc, byJob, stops>>
      /\ boot'.keep = keep /\ boot'.orphaned = orphaned
      /\ \A j \in Jobs : job'[j] = IF j \in orphaned THEN "failed" ELSE job[j]
  BY <1>1 DEF BootDecide
<1>3. orphaned \subseteq Jobs /\ \A j \in orphaned : job[j] \in InFlightStatuses /\ job[j] \in ActiveStatuses
  BY ActiveNames
<1>4. \A j \in Jobs : job[j] \in InFlightStatuses => j \in orphaned \cup keep  OBVIOUS
<1> HIDE DEF orphaned
<1>5. \A q \in Procs : ~Busy(proc'[q])
  <2>1. \A q \in Procs : proc[q] = Idle  BY <1>2, ClosedParts, ShapeParts DEF CalmInv
  <2> QED  BY <1>2, <2>1, IdleFields DEF Busy
<1>6. "failed" \notin ActiveStatuses  BY ActiveNames
<1>7. \A j \in Jobs : job'[j] \in ActiveStatuses => job[j] \in ActiveStatuses /\ j \notin orphaned  BY <1>2, <1>6
<1>8. \A i, k \in Jobs : job'[i] \in ActiveStatuses /\ job'[k] \in ActiveStatuses => i = k  BY <1>7 DEF CalmInv
<1>9. \A j \in Jobs : Row(j)'
  <2> SUFFICES ASSUME NEW j \in Jobs PROVE Row(j)'
    OBVIOUS
  <2>1. Row(j)  BY DEF CalmInv
  <2>2. CASE j \in orphaned
    <3>1. PendingOf(j) = {}  BY <1>3, <2>1, <2>2, ActiveNames DEF Row
    <3>2. job'[j] \notin ActiveStatuses \cup {"absent"}  BY <1>2, <1>6, <2>2
    <3> QED  BY <1>2, <3>1, <3>2, RowOver
  <2>3. CASE j \notin orphaned  BY <1>2, <2>1, <2>3, SameRow
  <2> QED  BY <2>2, <2>3
<1>10. AtRest'  BY <1>2, ClosedParts, RestDown DEF ClosedInv
<1>11. /\ \A j \in Jobs : job'[j] \in InFlightStatuses => j \in boot'.keep
       /\ boot'.orphaned # {} => NoneActive'
  <2>1. \A j \in Jobs : job'[j] \in InFlightStatuses => j \in keep  BY <1>2, <1>4, <1>6, ActiveNames
  <2>2. orphaned # {} => \A k \in Jobs : job'[k] \notin ActiveStatuses  BY <1>3, <1>7 DEF CalmInv
  <2> QED  BY <1>2, <2>1, <2>2 DEF NoneActive
<1>12. \A q \in Procs : ~Busy(proc[q])'  BY <1>5 DEF Busy
<1> QED  BY <1>8, <1>9, <1>10, <1>11, <1>12 DEF CalmInv

LEMMA BootStartCalm ==
    ASSUME CalmInv, ClosedInv', BootStart
    PROVE  CalmInv'
<1> DEFINE kind(p) == IF Resumable(p) THEN "restart" ELSE "fresh"
<1>1. /\ orch = "booting" /\ orch' = "up" /\ UNCHANGED <<job, launch, ckpt, stops>>
      /\ issue' = IF boot.orphaned # {} /\ issue \in {"triaging", "awaiting_input"} THEN "open" ELSE issue
      /\ \A j \in Jobs : input'[j] = IF job[j] \in {"awaiting_input", "paused"} THEN input[j] ELSE <<>>
      /\ \A p \in Procs : proc'[p] = IF p \notin boot.keep THEN Idle ELSE Coroutine("slot", kind(p), p)
  BY DEF BootStart
<1>2. /\ boot.keep \subseteq Jobs /\ \A j \in boot.keep : job[j] \in InFlightStatuses
      /\ \A q \in Procs : proc[q] = Idle /\ ~Busy(proc[q])
      /\ {"crash", "drain"} \cap Faults # {} /\ Jobs \subseteq Procs
      /\ \A i \in Jobs : Row(i)
  <2>1. /\ boot \in [keep: SUBSET Jobs, orphaned: SUBSET Jobs] /\ \A j \in boot.keep : job[j] \in InFlightStatuses
        /\ \A q \in Procs : proc[q] = Idle
        /\ {"crash", "drain"} \cap Faults # {}
    BY <1>1, ClosedParts, ShapeParts DEF CalmInv
  <2>2. Jobs \subseteq Procs  BY <2>1, BoundsAssumption DEF Jobs, Procs
  <2>3. \A q \in Procs : ~Busy(proc[q])  BY <2>1, IdleFields DEF Busy
  <2> QED  BY <2>1, <2>2, <2>3 DEF CalmInv
<1>4. \A q \in Procs : Busy(proc'[q]) => q \in boot.keep  BY <1>1, IdleFields DEF Busy
<1>5. \A q, r \in Procs : Busy(proc'[q]) /\ Busy(proc'[r]) => q = r
  <2>1. \A q, r \in boot.keep : q = r  BY <1>2, ActiveNames DEF CalmInv
  <2> QED  BY <1>4, <2>1
<1>6. ASSUME NEW q \in Procs, Busy(proc'[q]) PROVE Note(proc[q])'
  <2>1. q \in boot.keep /\ q \in Jobs /\ job[q] \in InFlightStatuses /\ Row(q)  BY <1>2, <1>4, <1>6
  <2>2. proc'[q] = Coroutine("slot", kind(q), q)  BY <1>1, <2>1
  <2>3. proc'[q].pc = "slot" /\ proc'[q].kind = kind(q) /\ proc'[q].job = q  BY <2>2 DEF Coroutine
  <2>4. ReadsRight(proc[q])'  BY <2>3 DEF ReadsRight, JobWrites, IssueWrites
  <2>5. CASE Resumable(q)
    <3>1. RestartNote(proc[q])'  BY <1>1, <2>3, <2>5 DEF RestartNote, Resumable
    <3> QED  BY <2>3, <2>4, <3>1 DEF Note
  <2>6. CASE ~Resumable(q)
    <3>1. ckpt[q] = "none"  BY <2>1, <2>6, ActiveNames DEF Resumable, Row
    <3>2. FreshNote(proc[q])'  BY <1>1, <2>1, <2>3, <2>6, <3>1 DEF FreshNote
    <3> QED  BY <2>3, <2>4, <3>2 DEF Note
  <2> QED  BY <2>5, <2>6
<1> HIDE DEF kind
<1>7. \A j \in Jobs : Row(j)'
  <2> SUFFICES ASSUME NEW j \in Jobs PROVE Row(j)'
    OBVIOUS
  <2>1. Row(j)  BY <1>2
  <2>2. PendingOf(j)' # {} => PendingOf(j) # {}  BY <1>1 DEF PendingOf
  <2>3. ~(Prompt /\ job[j] = "running" /\ ckpt[j] = "end")
    <3>1. \A q \in Procs : proc[q].pc \notin Ending  BY <1>2 DEF Ending, Stopping, Busy
    <3> QED  BY <2>1, <3>1 DEF Row
  <2>4. CASE boot.orphaned # {}
    <3>1. job[j] \notin {"pending", "running", "awaiting_input", "paused"}
      BY <1>1, <2>4, ActiveNames DEF CalmInv, NoneActive
    <3>2. PendingOf(j)' = {}
      <4>1. input'[j] = <<>>  BY <1>1, <3>1
      <4> QED  BY <4>1 DEF PendingOf
    <3> QED  BY <1>1, <2>1, <3>1, <3>2, ActiveNames DEF Row
  <2>5. CASE boot.orphaned = {}
    <3>1. issue' = issue  BY <1>1, <2>5
    <3> QED  BY <1>1, <2>1, <2>2, <2>3, <3>1 DEF Row, Prompt
  <2> QED  BY <2>4, <2>5
<1>8. \A i, k \in Jobs : job'[i] \in ActiveStatuses /\ job'[k] \in ActiveStatuses => i = k  BY <1>1 DEF CalmInv
<1>9. ASSUME \A q \in Procs : ~Busy(proc'[q]) PROVE AtRest'
  <2>1. ASSUME NEW j \in Jobs PROVE job'[j] \notin InFlightStatuses
    <3> SUFFICES ASSUME job'[j] \in InFlightStatuses PROVE FALSE
      OBVIOUS
    <3>1. j \in boot.keep /\ j \in Procs  BY <1>1, <1>2 DEF CalmInv
    <3>2. proc'[j] = Coroutine("slot", kind(j), j)  BY <1>1, <3>1
    <3>3. proc'[j].pc = "slot"  BY <3>2 DEF Coroutine
    <3> QED  BY <1>9, <3>1, <3>3 DEF Busy
  <2> QED  BY <2>1 DEF AtRest
<1>10. \A q, r \in Procs : Busy(proc[q])' /\ Busy(proc[r])' => q = r  BY <1>5 DEF Busy
<1>11. \A q \in Procs : Busy(proc[q])' => Note(proc[q])'  BY <1>6 DEF Busy
<1>12. (\A q \in Procs : ~Busy(proc[q])') => AtRest'  BY <1>9 DEF Busy
<1>13. orch' # "booting"  BY <1>1
<1> QED  BY <1>7, <1>8, <1>10, <1>11, <1>12, <1>13 DEF CalmInv

-----------------------------------------------------------------------------
(* One thing at a time: the registry of tasks.                             *)

Registry == InRegistry /\ Requests

\* No request begins at q, and no cancel comes back to its first step.
NoNewRequest(q) ==
    /\ proc'[q].kind \in RequestKinds => proc[q].kind = proc'[q].kind
    /\ proc'[q].pc = "cancel_task" => proc[q].pc = "cancel_task" /\ proc[q].kind = proc'[q].kind

LEMMA RequestsKept ==
    ASSUME Requests, \A q \in Procs : NoNewRequest(q),
           orch' = orch \/ \A q \in Procs : proc[q].kind \notin RequestKinds
    PROVE  Requests'
BY DEF Requests, NoNewRequest

LEMMA RegistryKept ==
    ASSUME Registry, byJob' = byJob, \A q \in Procs : NoNewRequest(q),
           orch' = orch \/ \A q \in Procs : proc[q].kind \notin RequestKinds,
           \A q \in Procs : Busy(proc'[q]) /\ proc'[q].kind \in TaskKinds =>
              Busy(proc[q]) /\ proc[q].kind = proc'[q].kind /\ proc[q].job = proc'[q].job
    PROVE  Registry'
<1>1. \A q \in Procs : Busy(proc[q])' /\ IsTask(q)' => Busy(proc[q]) /\ IsTask(q) /\ proc[q].job = proc'[q].job
  BY DEF Busy, IsTask
<1>2. InRegistry'  BY <1>1 DEF Registry, InRegistry
<1> QED  BY <1>2, RequestsKept DEF Registry

\* One busy coroutine steps and is gone or stays what it is.
LEMMA RegistryOne ==
    ASSUME Registry, byJob' = byJob, orch' = orch, NEW p \in Procs, Busy(proc[p]),
           \A q \in Procs : q # p => proc'[q] = proc[q],
           \/ proc'[p] = Idle
           \/ /\ proc'[p].kind = proc[p].kind /\ proc'[p].job = proc[p].job
              /\ proc'[p].pc # "cancel_task"
    PROVE  Registry'
<1>1. /\ Idle.kind \notin RequestKinds \cup TaskKinds /\ Idle.pc # "cancel_task"
  BY IdleFields DEF RequestKinds, TaskKinds
<1>2. \A q \in Procs : Busy(proc'[q]) /\ proc'[q].kind \in TaskKinds =>
         Busy(proc[q]) /\ proc[q].kind = proc'[q].kind /\ proc[q].job = proc'[q].job
  BY <1>1
<1>3. \A q \in Procs : NoNewRequest(q)  BY <1>1 DEF NoNewRequest
<1> QED  BY <1>2, <1>3, RegistryKept

LEMMA RegistryGoto ==
    ASSUME CalmInv, Registry, UNCHANGED <<byJob, orch>>, NEW p \in Procs, Busy(proc[p]),
           NEW pc, pc # "cancel_task", Goto(p, pc)
    PROVE  Registry'
<1>1. \A q \in Procs : q # p => proc'[q] = proc[q]  BY Went
<1>2. \/ proc'[p] = Idle
      \/ proc'[p].kind = proc[p].kind /\ proc'[p].job = proc[p].job /\ proc'[p].pc = pc
  BY Went
<1> QED  BY <1>1, <1>2, RegistryOne

\* Where a coroutine that is not busy stands.
Still == {"idle", "unwind", "cancel_task"}

LEMMA RegistryUpdateJob ==
    ASSUME CalmInv, Registry, NEW p \in Procs, NEW moves, NEW at, at \notin Still, NEW new, NEW next, NEW handler,
           UpdateJobBy(moves, p, at, new, next, handler),
           "cancel_task" \notin {next, handler}
    PROVE  Registry'
<1>1. Busy(proc[p]) /\ UNCHANGED <<byJob, orch>>  BY DEF UpdateJobBy, At, Busy, Still
<1>2. PICK pc \in {next, handler} : Goto(p, pc)
  <2>1. Goto(p, IF UpdateRaises(moves, proc[p].seen, job[proc[p].job], new) THEN handler ELSE next)
    BY DEF UpdateJobBy
  <2>2. CASE UpdateRaises(moves, proc[p].seen, job[proc[p].job], new)  BY <2>1, <2>2
  <2>3. CASE ~UpdateRaises(moves, proc[p].seen, job[proc[p].job], new)  BY <2>1, <2>3
  <2> QED  BY <2>2, <2>3
<1> QED  BY <1>1, <1>2, RegistryGoto

LEMMA RegistryUpdateIssue ==
    ASSUME CalmInv, Registry, NEW p \in Procs, NEW at, at \notin Still, NEW new, NEW next, NEW handler,
           UpdateIssue(p, at, new, next, handler),
           "cancel_task" \notin {next, handler}
    PROVE  Registry'
<1>1. Busy(proc[p]) /\ UNCHANGED <<byJob, orch>>  BY DEF UpdateIssue, At, Busy, Still
<1>2. PICK pc \in {next, handler} : Goto(p, pc)
  <2>1. Goto(p, IF UpdateRaises(IssueMoves, proc[p].seen, issue, new) THEN handler ELSE next)
    BY DEF UpdateIssue
  <2>2. CASE UpdateRaises(IssueMoves, proc[p].seen, issue, new)  BY <2>1, <2>2
  <2>3. CASE ~UpdateRaises(IssueMoves, proc[p].seen, issue, new)  BY <2>1, <2>3
  <2> QED  BY <2>2, <2>3
<1> QED  BY <1>1, <1>2, RegistryGoto

LEMMA RegistryStep ==
    ASSUME CalmInv, Registry, NEW p \in Procs, NEW at, at \notin Still, NEW pc, pc # "cancel_task", Step(p, at, pc)
    PROVE  Registry'
<1>1. Busy(proc[p]) /\ UNCHANGED <<byJob, orch>> /\ Goto(p, pc)  BY DEF Step, At, Busy, Still
<1> QED  BY <1>1, RegistryGoto

LEMMA RegistryPurge ==
    ASSUME CalmInv, Registry, NEW p \in Procs, NEW at, at \notin Still, NEW next, next # "cancel_task",
           Purge(p, at, next)
    PROVE  Registry'
<1>1. Busy(proc[p]) /\ UNCHANGED <<byJob, orch>> /\ Goto(p, next)  BY DEF Purge, At, Busy, Still
<1> QED  BY <1>1, RegistryGoto

LEMMA RegistryReaches ==
    ASSUME CalmInv, Registry, NEW p \in Procs, NEW at, at \notin Still, NEW point, NEW pc, pc # "cancel_task",
           Reaches(p, at, point, pc)
    PROVE  Registry'
<1>1. Busy(proc[p]) /\ UNCHANGED <<byJob, orch>> /\ Goto(p, pc)  BY DEF Reaches, At, Busy, Still
<1> QED  BY <1>1, RegistryGoto

\* One coroutine is the only busy one, and registered if it is a task.
LEMMA RegistryAlone ==
    ASSUME Requests, orch' = orch, \A q \in Procs : NoNewRequest(q),
           NEW p \in Procs, \A q \in Procs : q # p => ~Busy(proc'[q]),
           Busy(proc'[p]) /\ proc'[p].kind \in TaskKinds => byJob'[proc'[p].job] = p
    PROVE  Registry'
<1>1. \A q \in Procs : Busy(proc[q])' => q = p /\ Busy(proc'[p])  BY DEF Busy
<1>2. InRegistry'  BY <1>1 DEF InRegistry, IsTask
<1> QED  BY <1>2, RequestsKept DEF Registry

LEMMA TrackRegistry ==
    ASSUME CalmInv, Registry, NEW p \in Procs, Track(p)
    PROVE  Registry'
<1>1. PICK j : j = proc[p].number  OBVIOUS
<1>2. proc[p].pc = "track"  BY DEF Track, At
<1>3. j \in Jobs /\ \A q \in Procs : q # p => ~Busy(proc[q])  BY <1>1, <1>2, Alone DEF Busy, Clear, Mine
<1>4. PICK q \in IF IsTask(p) THEN {r \in Procs : proc[r] = Idle} ELSE {p} :
           /\ proc' = [r \in Procs |-> IF r = q THEN Coroutine("launching", "fresh", j)
                                       ELSE IF r = p THEN [proc[p] EXCEPT !.pc = "unwind"]
                                       ELSE proc[r]]
           /\ byJob' = [byJob EXCEPT ![j] = q]
  BY <1>1 DEF Track
<1>5. proc[p] \in Coroutines /\ byJob \in [Jobs -> 0..MaxProcs]  BY ClosedParts, ShapeParts DEF CalmInv
<1>6. q \in Procs  BY <1>4
<1>7. /\ proc'[q] = Coroutine("launching", "fresh", j)
      /\ \A r \in Procs : r # q => IF r = p THEN proc'[r] = [proc[p] EXCEPT !.pc = "unwind"] ELSE proc'[r] = proc[r]
  BY <1>4, <1>6
<1>8. \A r \in Procs : r # q => ~Busy(proc'[r])
  <2>1. p # q => proc'[p].pc = "unwind"  BY <1>5, <1>7 DEF Coroutines
  <2> QED  BY <1>3, <1>7, <2>1 DEF Busy
<1>9. byJob'[j] = q /\ proc'[q].job = j  BY <1>3, <1>4, <1>5, <1>7 DEF Coroutine
<1>10. \A r \in Procs : NoNewRequest(r)
  <2>1. proc'[q].kind \notin RequestKinds /\ proc'[q].pc # "cancel_task"  BY <1>7 DEF Coroutine, RequestKinds
  <2>2. p # q => proc'[p].kind = proc[p].kind /\ proc'[p].pc # "cancel_task"  BY <1>5, <1>7 DEF Coroutines
  <2> QED  BY <1>7, <2>1, <2>2 DEF NoNewRequest
<1>11. orch' = orch  BY DEF Track
<1> QED  BY <1>6, <1>8, <1>9, <1>10, <1>11, RegistryAlone DEF Registry

LEMMA ScheduleRegistry ==
    ASSUME CalmInv, Registry, NEW p \in Procs, NEW kind \in TaskKinds, NEW j \in Jobs,
           Schedule(p, kind, j), Busy(proc[p])
    PROVE  Registry'
<1>1. /\ proc \in [Procs -> Coroutines] /\ byJob \in [Jobs -> 0..MaxProcs]
      /\ orch' = orch
  BY ClosedParts, ShapeParts DEF CalmInv, Schedule
<1>2. CASE orch = "draining"
  <2>1. Goto(p, "idle") /\ UNCHANGED <<byJob, orch>>  BY <1>1, <1>2 DEF Schedule
  <2> QED  BY <2>1, RegistryGoto
<1>3. CASE orch # "draining"
  <2>1. proc' = [proc EXCEPT ![p] = Coroutine("prior_job", kind, j)] /\ byJob' = [byJob EXCEPT ![j] = p]
    BY <1>3 DEF Schedule
  <2>2. /\ proc'[p] = Coroutine("prior_job", kind, j) /\ byJob'[j] = p
        /\ \A q \in Procs : q # p => proc'[q] = proc[q] /\ ~Busy(proc'[q])
    BY <1>1, <2>1, Alone
  <2>3. proc'[p].job = j /\ proc'[p].kind = kind /\ proc'[p].pc = "prior_job"  BY <2>2 DEF Coroutine
  <2>4. kind \notin RequestKinds  BY DEF TaskKinds, RequestKinds
  <2>5. \A q \in Procs : NoNewRequest(q)  BY <2>2, <2>3, <2>4 DEF NoNewRequest
  <2> QED  BY <1>1, <2>2, <2>3, <2>5, RegistryAlone DEF Registry
<1> QED  BY <1>2, <1>3

LEMMA UnwindRegistry ==
    ASSUME CalmInv, Registry, NEW p \in Procs, Unwind(p)
    PROVE  Registry'
<1>1. /\ proc' = [proc EXCEPT ![p] = Idle]
      /\ byJob' = [j \in Jobs |-> IF byJob[j] = p THEN 0 ELSE byJob[j]]
  BY DEF Unwind
<1>2. proc \in [Procs -> Coroutines]  BY ClosedParts, ShapeParts DEF CalmInv
<1>3. proc'[p] = Idle /\ \A q \in Procs : q # p => proc'[q] = proc[q]  BY <1>1, <1>2
<1>4. ASSUME NEW q \in Procs, Busy(proc'[q]), proc'[q].kind \in TaskKinds PROVE byJob'[proc'[q].job] = q
  <2>1. q # p /\ proc'[q] = proc[q]  BY <1>3, <1>4, IdleFields DEF Busy
  <2>2. IsTask(q) /\ Busy(proc[q])  BY <1>4, <2>1 DEF IsTask
  <2>3. proc[q].job \in Jobs  BY <2>2, ClosedParts, AtWork DEF CalmInv, Busy
  <2>4. byJob[proc[q].job] = q  BY <2>2 DEF Registry, InRegistry
  <2> QED  BY <1>1, <2>1, <2>3, <2>4
<1>5. \A q \in Procs : Busy(proc[q])' /\ IsTask(q)' => byJob'[proc'[q].job] = q  BY <1>4 DEF Busy, IsTask
<1>6. InRegistry'  BY <1>5 DEF InRegistry
<1>7. \A q \in Procs : NoNewRequest(q)
  <2>1. Idle.kind \notin RequestKinds /\ Idle.pc # "cancel_task"  BY IdleFields DEF RequestKinds
  <2> QED  BY <1>3, <2>1 DEF NoNewRequest
<1>8. orch' = orch  BY DEF Unwind
<1> QED  BY <1>6, <1>7, <1>8, RequestsKept DEF Registry

LEMMA DispatchRegistry ==
    ASSUME CalmInv, Registry, NEW p \in Procs, Dispatch(p)
    PROVE  Registry'
<1>1. CASE ClaimIssue(p)  BY <1>1, RegistryUpdateIssue DEF ClaimIssue, Still, Raised
<1>2. CASE Rollback(p)
  <2>1. PICK next \in {"unwind", "idle"} : UpdateIssue(p, "rollback", "open", next, Raised(p))  BY <1>2 DEF Rollback
  <2> QED  BY <2>1, RegistryUpdateIssue DEF Still, Raised
<1>3. CASE Exec(p)  BY <1>3, RegistryStep DEF Exec, Still
<1>4. CASE Create(p)
  <2>1. CASE Step(p, "create", "rollback")  BY <2>1, RegistryStep DEF Still
  <2>2. CASE \E j \in Jobs : Inserts(p, j)
    <3>1. PICK j \in Jobs : Inserts(p, j)  BY <2>2
    <3>2. /\ proc[p].pc = "create" /\ UNCHANGED <<byJob, orch>>
          /\ proc' = [proc EXCEPT ![p].pc = "track", ![p].number = j]
      BY <3>1 DEF Inserts, At
    <3>3. proc \in [Procs -> Coroutines] /\ proc[p] \in Coroutines  BY ClosedParts, ShapeParts DEF CalmInv
    <3>4. proc' = [proc EXCEPT ![p] = [proc[p] EXCEPT !.pc = "track", !.number = j]]  BY <3>2, <3>3
    <3>5. proc'[p] = [proc[p] EXCEPT !.pc = "track", !.number = j] /\ \A q \in Procs : q # p => proc'[q] = proc[q]
      BY <3>3, <3>4
    <3>6. proc'[p].kind = proc[p].kind /\ proc'[p].job = proc[p].job /\ proc'[p].pc = "track"
      BY <3>3, <3>5 DEF Coroutines
    <3>7. Busy(proc[p])  BY <3>2 DEF Busy
    <3> QED  BY <3>2, <3>5, <3>6, <3>7, RegistryOne
  <2> QED  BY <1>4, <2>1, <2>2 DEF Create, Inserts
<1> QED  BY <1>1, <1>2, <1>3, <1>4, TrackRegistry DEF Dispatch

LEMMA ReadStatusRegistry ==
    ASSUME CalmInv, Registry, NEW p \in Procs, ReadStatus(p)
    PROVE  Registry'
<1>1. proc[p].pc \in JobWrites \cup IssueWrites /\ UNCHANGED <<byJob, orch>>  BY DEF ReadStatus
<1>2. Busy(proc[p])  BY <1>1 DEF Busy, JobWrites, IssueWrites
<1>3. PICK s : proc' = [proc EXCEPT ![p].seen = s]  BY DEF ReadStatus
<1>4. proc \in [Procs -> Coroutines] /\ proc[p] \in Coroutines  BY ClosedParts, ShapeParts DEF CalmInv
<1>5. proc' = [proc EXCEPT ![p] = [proc[p] EXCEPT !.seen = s]]  BY <1>3, <1>4
<1>6. proc'[p] = [proc[p] EXCEPT !.seen = s] /\ \A q \in Procs : q # p => proc'[q] = proc[q]  BY <1>4, <1>5
<1>7. /\ proc'[p].kind = proc[p].kind /\ proc'[p].job = proc[p].job
      /\ proc'[p].pc # "cancel_task"
  BY <1>1, <1>4, <1>6 DEF Coroutines, JobWrites, IssueWrites
<1> QED  BY <1>1, <1>2, <1>6, <1>7, RegistryOne

LEMMA BeforeTheRunRegistry ==
    ASSUME CalmInv, Registry, NEW p \in Procs, BeforeTheRun(p)
    PROVE  Registry'
<1> USE DEF Still
<1>1. CASE Launch(p)
  <2>1. PICK pc \in {"unwind", "slot"} : Goto(p, pc) /\ UNCHANGED <<byJob, orch>> /\ proc[p].pc = "launching"
    BY <1>1 DEF Launch, At
  <2> QED  BY <2>1, RegistryGoto DEF Busy
<1>2. CASE TakeSlot(p)
  <2>1. PICK pc \in {"gate", "stream"} : Step(p, "slot", pc)  BY <1>2 DEF TakeSlot
  <2> QED  BY <2>1, RegistryStep
<1>3. CASE Gate(p)
  <2>1. PICK pc \in {"start", "refuse_job", "fail_job"} : Step(p, "gate", pc)  BY <1>3 DEF Gate
  <2> QED  BY <2>1, RegistryStep
<1>4. CASE RefuseJob(p)  BY <1>4, RegistryUpdateJob DEF RefuseJob
<1>5. CASE RefuseIssue(p)  BY <1>5, RegistryUpdateIssue DEF RefuseIssue
<1>6. CASE Start(p)  BY <1>6, RegistryUpdateJob DEF Start, UpdateJob
<1>7. CASE KeepPrior(p) \/ ReenrollFails(p)
  <2>1. proc[p].pc \in {"prior_job", "prior_issue", "stream"} /\ UNCHANGED <<byJob, orch>>
    BY <1>7 DEF KeepPrior, ReenrollFails, At
  <2>2. proc \in [Procs -> Coroutines] /\ proc[p] \in Coroutines  BY ClosedParts, ShapeParts DEF CalmInv
  <2>3. PICK c : proc' = [proc EXCEPT ![p] = c] /\ c.kind = proc[p].kind /\ c.job = proc[p].job /\ c.pc # "cancel_task"
    <3>1. CASE proc' = [proc EXCEPT ![p].priorJob = job[proc[p].job], ![p].pc = "prior_issue"]
      <4> DEFINE c == [proc[p] EXCEPT !.priorJob = job[proc[p].job], !.pc = "prior_issue"]
      <4>1. proc' = [proc EXCEPT ![p] = c]  BY <2>2, <3>1
      <4>2. c.kind = proc[p].kind /\ c.job = proc[p].job /\ c.pc # "cancel_task"  BY <2>2 DEF Coroutines
      <4> QED  BY <4>1, <4>2
    <3>2. CASE proc' = [proc EXCEPT ![p].priorIssue = issue, ![p].pc = "resume_job"]
      <4> DEFINE c == [proc[p] EXCEPT !.priorIssue = issue, !.pc = "resume_job"]
      <4>1. proc' = [proc EXCEPT ![p] = c]  BY <2>2, <3>2
      <4>2. c.kind = proc[p].kind /\ c.job = proc[p].job /\ c.pc # "cancel_task"  BY <2>2 DEF Coroutines
      <4> QED  BY <4>1, <4>2
    <3>3. CASE proc' = [proc EXCEPT ![p].pc = IF proc[p].kind = "restart" THEN "fail_job" ELSE "putback_job",
                                    ![p].ending = "refused"]
      <4> DEFINE c == [proc[p] EXCEPT !.pc = IF proc[p].kind = "restart" THEN "fail_job" ELSE "putback_job",
                                      !.ending = "refused"]
      <4>1. proc' = [proc EXCEPT ![p] = c]  BY <2>2, <3>3
      <4>2. c.kind = proc[p].kind /\ c.job = proc[p].job /\ c.pc # "cancel_task"  BY <2>2 DEF Coroutines
      <4> QED  BY <4>1, <4>2
    <3> QED  BY <1>7, <3>1, <3>2, <3>3 DEF KeepPrior, ReenrollFails
  <2>4. proc'[p] = c /\ \A q \in Procs : q # p => proc'[q] = proc[q]  BY <2>2, <2>3
  <2>5. Busy(proc[p])  BY <2>1 DEF Busy
  <2> QED  BY <2>1, <2>3, <2>4, <2>5, RegistryOne
<1>8. CASE ResumeJob(p)  BY <1>8, RegistryUpdateJob DEF ResumeJob, UpdateJob
<1>9. CASE ResumeIssue(p)  BY <1>9, RegistryUpdateIssue DEF ResumeIssue
<1>10. CASE PutBackJob(p)  BY <1>10, RegistryUpdateJob DEF PutBackJob, UpdateJob, PutBackRaised
<1>11. CASE PutBackIssue(p)  BY <1>11, RegistryUpdateIssue DEF PutBackIssue, PutBackRaised
<1> QED  BY <1>1, <1>2, <1>3, <1>4, <1>5, <1>6, <1>7, <1>8, <1>9, <1>10, <1>11 DEF BeforeTheRun

LEMMA TheRunRegistry ==
    ASSUME CalmInv, Registry, NEW p \in Procs, TheRun(p)
    PROVE  Registry'
<1> USE DEF Still
<1>1. CASE EnterStream(p)
  <2>1. proc[p].pc = "stream"  BY <1>1 DEF EnterStream, At
  <2>2. ckpt[proc[p].job] \in Checkpoints
    <3>1. proc[p].job \in Jobs  BY <2>1, Own DEF Clear, Stopping, Replying
    <3> QED  BY <3>1, ClosedParts, ShapeParts DEF CalmInv
  <2>3. \/ \E pc \in {"unwind", "fail_job", "nodes", "asking", "auto_job", "pause_job"} : Step(p, "stream", pc)
        \/ Reaches(p, "stream", "node", "nodes")
    BY <1>1, <2>2 DEF EnterStream, Checkpoints
  <2> QED  BY <2>3, RegistryStep, RegistryReaches
<1>2. CASE Ask(p) \/ AskNothing(p) \/ GetStuck(p)
  <2>1. PICK point \in Checkpoints, pc \in {"unwind", "asking", "auto_job", "pause_job"} :
           Reaches(p, "nodes", point, pc)
    BY <1>2 DEF Ask, AskNothing, GetStuck, NextOrDrained, Checkpoints
  <2> QED  BY <2>1, RegistryReaches
<1>3. CASE EndRun(p)
  <2>1. proc[p].pc = "nodes" /\ UNCHANGED <<byJob, orch>>  BY <1>3 DEF EndRun, At
  <2>2. Busy(proc[p])  BY <2>1 DEF Busy
  <2>3. CASE orch = "draining"
    <3>1. Goto(p, "unwind")  BY <1>3, <2>3 DEF EndRun
    <3> QED  BY <2>1, <2>2, <3>1, RegistryGoto
  <2>4. CASE orch # "draining"
    <3>1. PICK ending : proc' = [proc EXCEPT ![p].pc = "finish_job", ![p].ending = ending]
      BY <1>3, <2>4 DEF EndRun
    <3>2. proc \in [Procs -> Coroutines] /\ proc[p] \in Coroutines  BY ClosedParts, ShapeParts DEF CalmInv
    <3>3. proc' = [proc EXCEPT ![p] = [proc[p] EXCEPT !.pc = "finish_job", !.ending = ending]]  BY <3>1, <3>2
    <3>4. proc'[p] = [proc[p] EXCEPT !.pc = "finish_job", !.ending = ending] /\ \A q \in Procs : q # p => proc'[q] = proc[q]
      BY <3>2, <3>3
    <3>5. /\ proc'[p].kind = proc[p].kind /\ proc'[p].job = proc[p].job
          /\ proc'[p].pc = "finish_job"
      BY <3>2, <3>4 DEF Coroutines
    <3> QED  BY <2>1, <2>2, <3>4, <3>5, RegistryOne
  <2> QED  BY <2>3, <2>4
<1>4. CASE Raise(p)  BY <1>4, RegistryStep DEF Raise
<1>5. CASE PauseJob(p)  BY <1>5, RegistryUpdateJob DEF PauseJob, UpdateJob
<1>6. CASE PauseIssue(p)  BY <1>6, RegistryUpdateIssue DEF PauseIssue
<1>7. CASE Asking(p)
  <2>1. Goto(p, "unwind") /\ UNCHANGED <<byJob, orch>> /\ proc[p].pc = "asking"  BY <1>7 DEF Asking, At
  <2> QED  BY <2>1, RegistryGoto DEF Busy
<1>8. CASE AutoJob(p)  BY <1>8, RegistryUpdateJob DEF AutoJob, UpdateJob
<1>9. CASE FinishJob(p)  BY <1>9, RegistryUpdateJob DEF FinishJob, UpdateJob
<1>10. CASE FinishPurge(p)  BY <1>10, RegistryPurge DEF FinishPurge
<1>11. CASE FinishIssue(p)  BY <1>11, RegistryUpdateIssue DEF FinishIssue
<1>12. CASE FailJob(p)  BY <1>12, RegistryUpdateJob DEF FailJob, UpdateJob
<1>13. CASE FailIssue(p)  BY <1>13, RegistryUpdateIssue DEF FailIssue
<1>14. CASE FailPurge(p)  BY <1>14, RegistryPurge DEF FailPurge
<1> QED  BY <1>1, <1>2, <1>3, <1>4, <1>5, <1>6, <1>7, <1>8, <1>9, <1>10, <1>11, <1>12, <1>13, <1>14,
            UnwindRegistry DEF TheRun

LEMMA ReplyRegistry ==
    ASSUME CalmInv, Registry, NEW p \in Procs, Reply(p) \/ Continue(p)
    PROVE  Registry'
<1> USE DEF Still
<1>1. CASE Record(p)
  <2>1. Goto(p, "count") /\ UNCHANGED <<byJob, orch>> /\ proc[p].pc = "record"  BY <1>1 DEF Record, At
  <2> QED  BY <2>1, RegistryGoto DEF Busy
<1>2. CASE CountPending(p)  BY <1>2, RegistryStep DEF CountPending
<1>3. CASE Guard(p)  BY <1>3, RegistryStep DEF Guard
<1>4. CASE Resume(p) \/ Continue(p)
  <2>1. PICK kind \in TaskKinds : Schedule(p, kind, proc[p].job) /\ proc[p].pc \in {"resume", "continue"}
    BY <1>4 DEF Resume, Continue, At, TaskKinds
  <2>2. Busy(proc[p]) /\ proc[p].job \in Jobs
    <3>1. proc[p].pc \notin JoblessPCs /\ proc[p].pc # "idle"  BY <2>1 DEF JoblessPCs
    <3> QED  BY <2>1, <3>1, ClosedParts, AtWork DEF CalmInv, Busy
  <2> QED  BY <2>1, <2>2, ScheduleRegistry
<1>5. CASE Find(p)
  <2>1. CASE \E j \in Jobs : At(p, "find") /\ Schedule(p, "answer", j)
    <3>1. Busy(proc[p]) /\ "answer" \in TaskKinds  BY <2>1 DEF At, Busy, TaskKinds
    <3> QED  BY <2>1, <3>1, ScheduleRegistry
  <2>2. CASE \E pc \in {"claim_issue", "idle"} : Step(p, "find", pc)  BY <2>2, RegistryStep
  <2> QED  BY <1>5, <2>1, <2>2 DEF Find
<1> QED  BY <1>1, <1>2, <1>3, <1>4, <1>5 DEF Reply

LEMMA CancelRegistry ==
    ASSUME Calm, CalmInv, Registry, NEW p \in Procs, Cancel(p)
    PROVE  Registry'
<1> USE DEF Still
<1>1. CASE CancelTask(p)
  <2>1. /\ proc'[p].kind = proc[p].kind /\ proc'[p].kind \notin TaskKinds /\ proc'[p].pc # "cancel_task"
        /\ \A q \in Procs : q # p => /\ ~Busy(proc'[q])
                                     /\ proc'[q].kind = proc[q].kind
                                     /\ proc'[q].pc = "cancel_task" => proc[q].pc = "cancel_task"
    BY <1>1, CancelStops DEF Registry, TaskKinds
  <2>2. \A q \in Procs : NoNewRequest(q)  BY <2>1 DEF NoNewRequest
  <2>3. orch' = orch  BY <1>1 DEF CancelTask
  <2> QED  BY <2>1, <2>2, <2>3, RegistryAlone DEF Registry
<1>2. CASE CancelWait(p)
  <2>1. PICK pc \in {"cancel_recheck", "cancel_job"} : Step(p, "cancel_wait", pc)  BY <1>2 DEF CancelWait
  <2> QED  BY <2>1, RegistryStep
<1>3. CASE CancelRecheck(p)
  <2>1. PICK pc \in {"idle", "cancel_job"} : Step(p, "cancel_recheck", pc)  BY <1>3 DEF CancelRecheck
  <2> QED  BY <2>1, RegistryStep
<1>4. CASE CancelJob(p)  BY <1>4, RegistryUpdateJob DEF CancelJob, UpdateJob
<1>5. CASE CancelIssue(p)  BY <1>5, RegistryUpdateIssue DEF CancelIssue
<1>6. CASE CancelPurge(p)  BY <1>6, RegistryPurge DEF CancelPurge
<1> QED  BY <1>1, <1>2, <1>3, <1>4, <1>5, <1>6 DEF Cancel

LEMMA WorkRegistry ==
    ASSUME Calm, CalmInv, Registry, NEW p \in Procs, Work(p)
    PROVE  Registry'
BY ReadStatusRegistry, DispatchRegistry, BeforeTheRunRegistry, TheRunRegistry, ReplyRegistry, CancelRegistry DEF Work

LEMMA OthersRegistry ==
    ASSUME Calm, CalmInv, Registry,
           \/ Process
           \/ \E p \in Procs : DrainDeadline(p)
           \/ \E p \in Procs : Arrival(p)
    PROVE  Registry'
<1>1. CASE Drain \/ \E p \in Procs : DrainDeadline(p)
  <2>1. byJob' = byJob /\ \A q \in Procs : proc'[q] = proc[q] \/ proc'[q] = AfterCancel(proc[q], TRUE)
    <3>1. proc \in [Procs -> Coroutines]  BY ClosedParts, ShapeParts DEF CalmInv
    <3> QED  BY <1>1, <3>1 DEF Drain, DrainDeadline
  <2>2. ASSUME NEW q \in Procs, Busy(proc'[q])
        PROVE  Busy(proc[q]) /\ proc[q].kind = proc'[q].kind /\ proc[q].job = proc'[q].job
    <3>1. CASE proc'[q] = proc[q]  BY <2>2, <3>1
    <3>2. CASE proc'[q] = AfterCancel(proc[q], TRUE)
      <4> DEFINE pc == IF proc[q].pc = "slot" /\ proc[q].kind \in {"answer", "choice"} THEN "putback_job" ELSE "unwind"
      <4>1. proc'[q] = [proc[q] EXCEPT !.seen = NoStatus, !.pc = pc]  BY <3>2 DEF AfterCancel
      <4>2. pc # "unwind" => proc[q].pc = "slot"  OBVIOUS
      <4>3. proc[q] \in Coroutines  BY ClosedParts DEF CalmInv
      <4> HIDE DEF pc
      <4>4. proc'[q].pc = pc /\ proc[q].kind = proc'[q].kind /\ proc[q].job = proc'[q].job
        BY <4>1, <4>3 DEF Coroutines
      <4> QED  BY <2>2, <4>2, <4>4 DEF Busy
    <3> QED  BY <2>1, <3>1, <3>2
  <2>3. \A q \in Procs : NoNewRequest(q)
    <3> SUFFICES ASSUME NEW q \in Procs PROVE NoNewRequest(q)
      OBVIOUS
    <3>1. CASE proc'[q] = proc[q]  BY <3>1 DEF NoNewRequest
    <3>2. CASE proc'[q] = AfterCancel(proc[q], TRUE)
      <4>1. proc[q] \in Coroutines  BY ClosedParts DEF CalmInv
      <4>2. proc'[q].kind = proc[q].kind /\ proc'[q].pc # "cancel_task"
        BY <3>2, <4>1 DEF AfterCancel, Coroutines
      <4> QED  BY <4>2 DEF NoNewRequest
    <3> QED  BY <2>1, <3>1, <3>2
  <2>4. orch' = orch \/ \A q \in Procs : proc[q].kind \notin RequestKinds  BY <1>1 DEF Drain, DrainDeadline
  <2> QED  BY <2>1, <2>2, <2>3, <2>4, RegistryKept
<1>2. CASE Exit \/ Crash
  <2>1. \A q \in Procs : proc'[q] = Idle  BY <1>2 DEF Exit, Crash, ProcessEnds
  <2>2. \A q \in Procs : ~Busy(proc[q])'  BY <2>1, IdleFields DEF Busy
  <2>3. \A q \in Procs : proc'[q].kind \notin RequestKinds /\ proc'[q].pc # "cancel_task"
    BY <2>1, IdleFields DEF RequestKinds
  <2> QED  BY <2>2, <2>3 DEF Registry, InRegistry, Requests
<1>3. CASE BootDecide
  <2>1. byJob' = byJob /\ proc' = proc /\ orch = "down"  BY <1>3 DEF BootDecide
  <2>2. \A q \in Procs : NoNewRequest(q)  BY <2>1 DEF NoNewRequest
  <2>3. \A q \in Procs : proc[q].kind \notin RequestKinds
    <3>1. \A q \in Procs : proc[q] = Idle  BY <2>1, ClosedParts, ShapeParts DEF CalmInv
    <3> QED  BY <3>1, IdleFields DEF RequestKinds
  <2> QED  BY <2>1, <2>2, <2>3, RegistryKept
<1>4. CASE BootStart
  <2>1. /\ \A q \in Procs : proc'[q] = IF q \notin boot.keep THEN Idle
                                       ELSE Coroutine("slot", IF Resumable(q) THEN "restart" ELSE "fresh", q)
        /\ \A j \in Jobs : byJob'[j] = IF j \in boot.keep THEN j ELSE 0
    BY <1>4 DEF BootStart
  <2>2. boot.keep \subseteq Jobs
    <3>1. boot \in [keep: SUBSET Jobs, orphaned: SUBSET Jobs]  BY ClosedParts, ShapeParts DEF CalmInv
    <3> QED  BY <3>1
  <2>3. ASSUME NEW q \in Procs, Busy(proc'[q]) PROVE byJob'[proc'[q].job] = q
    <3>1. q \in boot.keep  BY <2>1, <2>3, IdleFields DEF Busy
    <3> DEFINE kind == IF Resumable(q) THEN "restart" ELSE "fresh"
    <3>2. proc'[q] = Coroutine("slot", kind, q)  BY <2>1, <3>1
    <3> HIDE DEF kind
    <3>3. proc'[q].job = q  BY <3>2 DEF Coroutine
    <3> QED  BY <2>1, <2>2, <3>1, <3>3
  <2>4. \A q \in Procs : Busy(proc[q])' => byJob'[proc'[q].job] = q  BY <2>3 DEF Busy
  <2>5. ASSUME NEW q \in Procs PROVE proc'[q].kind \notin RequestKinds /\ proc'[q].pc # "cancel_task"
    <3>1. CASE q \notin boot.keep
      <4>1. proc'[q] = Idle  BY <2>1, <3>1
      <4> QED  BY <4>1, IdleFields DEF RequestKinds
    <3>2. CASE q \in boot.keep
      <4>1. PICK kind \in {"restart", "fresh"} : proc'[q] = Coroutine("slot", kind, q)  BY <2>1, <3>2
      <4>2. proc'[q].kind = kind /\ proc'[q].pc = "slot"  BY <4>1 DEF Coroutine
      <4> QED  BY <4>2 DEF RequestKinds
    <3> QED  BY <3>1, <3>2
  <2> QED  BY <2>4, <2>5 DEF Registry, InRegistry, Requests
<1>5. ASSUME NEW p \in Procs, Arrival(p) PROVE Registry'
  <2>1. PICK kind, c : /\ Begin(p, kind, c) /\ c.kind \in RequestKinds
                       /\ c.pc = "cancel_task" => c.kind = "cancel" /\ kind = "cancel"
    <3>1. CASE BeginTriage(p)
      <4>1. /\ Coroutine("claim_issue", "triage", 0).kind = "triage"
            /\ Coroutine("claim_issue", "triage", 0).pc = "claim_issue"
        BY DEF Coroutine
      <4> QED  BY <3>1, <4>1 DEF BeginTriage, RequestKinds
    <3>2. CASE BeginContinue(p)
      <4>1. PICK j \in Jobs : Begin(p, "continue", Coroutine("continue", "continue", j))
        BY <3>2 DEF BeginContinue
      <4>2. /\ Coroutine("continue", "continue", j).kind = "continue"
            /\ Coroutine("continue", "continue", j).pc = "continue"
        BY DEF Coroutine
      <4> QED  BY <4>1, <4>2 DEF RequestKinds
    <3>3. CASE BeginReply(p)
      <4>1. PICK j \in Jobs, ch \in Channels :
               \E n : Begin(p, "reply", [Coroutine("record", "reply", j) EXCEPT !.channel = ch, !.number = n])
        BY <3>3 DEF BeginReply
      <4>2. PICK n : Begin(p, "reply", [Coroutine("record", "reply", j) EXCEPT !.channel = ch, !.number = n])
        BY <4>1
      <4> DEFINE d == [Coroutine("record", "reply", j) EXCEPT !.channel = ch, !.number = n]
      <4>3. d.kind = "reply" /\ d.pc = "record"  BY DEF Coroutine
      <4>4. Begin(p, "reply", d)  BY <4>2
      <4> HIDE DEF d
      <4> QED  BY <4>3, <4>4 DEF RequestKinds
    <3>4. CASE BeginComment(p)
      <4> DEFINE d == [Coroutine("count", "comment", 0) EXCEPT !.channel = "inbound"]
      <4>1. d.kind = "comment" /\ d.pc = "count"  BY DEF Coroutine
      <4>2. Begin(p, "comment", d)  BY <3>4 DEF BeginComment
      <4> HIDE DEF d
      <4> QED  BY <4>1, <4>2 DEF RequestKinds
    <3>5. CASE BeginCancel(p)
      <4>1. PICK j \in Jobs : Begin(p, "cancel", Coroutine("cancel_task", "cancel", j))
        BY <3>5 DEF BeginCancel
      <4>2. Coroutine("cancel_task", "cancel", j).kind = "cancel"  BY DEF Coroutine
      <4> QED  BY <4>1, <4>2 DEF RequestKinds
    <3> QED  BY <1>5, <3>1, <3>2, <3>3, <3>4, <3>5 DEF Arrival
  <2>2. /\ proc' = [proc EXCEPT ![p] = c] /\ UNCHANGED <<byJob, orch>>
        /\ orch = "up" /\ kind \in Kinds
    BY <2>1 DEF Begin
  <2>3. proc \in [Procs -> Coroutines]  BY ClosedParts, ShapeParts DEF CalmInv
  <2>4. proc'[p] = c /\ \A q \in Procs : q # p => proc'[q] = proc[q]  BY <2>2, <2>3
  <2>5. c.kind \notin TaskKinds  BY <2>1 DEF TaskKinds, RequestKinds
  <2>6. InRegistry'
    <3>1. ASSUME NEW q \in Procs, Busy(proc'[q]), proc'[q].kind \in TaskKinds PROVE byJob'[proc'[q].job] = q
      <4>1. proc'[q] = proc[q]  BY <2>4, <2>5, <3>1
      <4>2. Busy(proc[q]) /\ IsTask(q)  BY <3>1, <4>1 DEF IsTask
      <4> QED  BY <2>2, <4>1, <4>2 DEF Registry, InRegistry
    <3>2. \A q \in Procs : Busy(proc[q])' /\ IsTask(q)' => byJob'[proc'[q].job] = q  BY <3>1 DEF Busy, IsTask
    <3> QED  BY <3>2 DEF InRegistry
  <2>7. \A q \in Procs : proc[q].kind \notin RequestKinds  BY <2>1, NoRequestYet DEF Calm
  <2>8. Requests'  BY <2>1, <2>2, <2>4, <2>7 DEF Registry, Requests
  <2> QED  BY <2>6, <2>8 DEF Registry
<1> QED  BY <1>1, <1>2, <1>3, <1>4, <1>5 DEF Process

-----------------------------------------------------------------------------
(* One thing at a time: the whole.                                         *)

CalmWithRegistry == CalmInv /\ Registry

LEMMA CalmInit == Init => CalmWithRegistry
<1> SUFFICES ASSUME Init PROVE CalmWithRegistry
  OBVIOUS
<1>1. ClosedInv  BY ClosedInit
<1>2. \A p \in Procs : ~Busy(proc[p])  BY IdleFields DEF Init, Busy
<1>3. \A j \in Jobs : job[j] = "absent" /\ ckpt[j] = "none" /\ PendingOf(j) = {}  BY DEF Init, PendingOf
<1>4. NoneActive /\ \A j \in Jobs : job[j] \notin {"pending", "running", "awaiting_input", "paused"}
  BY <1>3, ActiveNames DEF NoneActive
<1>5. \A j \in Jobs : Row(j)  BY <1>3, <1>4, ActiveNames DEF Row
<1>6. issue = "open" /\ orch = "up"  BY DEF Init
<1>7. AtRest  BY <1>4, <1>6, ActiveNames DEF AtRest
<1>8. CalmInv  BY <1>1, <1>2, <1>4, <1>5, <1>6, <1>7 DEF CalmInv, NoneActive
<1>9. Requests
  <2>1. \A p \in Procs : proc[p].kind \notin RequestKinds /\ proc[p].pc # "cancel_task"
    BY IdleFields DEF Init, RequestKinds
  <2> QED  BY <2>1 DEF Requests
<1> QED  BY <1>2, <1>8, <1>9 DEF CalmWithRegistry, Registry, InRegistry

LEMMA CalmStutters ==
    ASSUME CalmWithRegistry, ClosedInv', UNCHANGED vars
    PROVE  CalmWithRegistry'
<1>1. UNCHANGED <<issue, job, ckpt, input, proc, byJob, orch, boot>>  BY DEF vars
<1>2. CalmInv /\ Registry  BY DEF CalmWithRegistry
<1>3. \A p \in Procs : Busy(proc'[p]) => Note(proc[p])'
  <2> SUFFICES ASSUME NEW p \in Procs, Busy(proc'[p]) PROVE Note(proc[p])'
    OBVIOUS
  <2>1. proc'[p] = proc[p]  BY <1>1
  <2>2. Note(proc[p])  BY <1>2, <2>1 DEF CalmInv
  <2> QED  BY <1>1, <2>1, <2>2, SameNote
<1>4. \A q \in Procs : Busy(proc'[q]) <=> Busy(proc[q])  BY <1>1
<1>5. \A q \in Procs : proc[q].pc \in Ending => proc'[q].pc \in Ending /\ proc'[q].job = proc[q].job
  BY <1>1
<1>6. CalmInv'  BY <1>1, <1>2, <1>3, <1>4, <1>5, CalmQuiet
<1>7. Registry'  BY <1>1, <1>2, RegistryKept DEF NoNewRequest
<1> QED  BY <1>6, <1>7 DEF CalmWithRegistry

LEMMA CalmNext ==
    ASSUME Calm
    PROVE  CalmWithRegistry /\ [Next]_vars => CalmWithRegistry'
<1> SUFFICES ASSUME CalmWithRegistry, [Next]_vars PROVE CalmWithRegistry'
  OBVIOUS
<1>1. CalmInv /\ Registry  BY DEF CalmWithRegistry
<1>2. ClosedInv'  BY <1>1, ClosedStep DEF CalmInv
<1>3. CASE Process
  <2>1. CalmInv'
    BY <1>1, <1>2, <1>3, DrainCalm, ExitCalm, CrashCalm, BootDecideCalm, BootStartCalm DEF Process, Registry
  <2> QED  BY <1>1, <1>3, <2>1, OthersRegistry DEF CalmWithRegistry
<1>4. ASSUME NEW p \in Procs, Work(p) PROVE CalmWithRegistry'
  BY <1>1, <1>2, <1>4, WorkCalm, WorkRegistry DEF CalmWithRegistry, Registry
<1>5. ASSUME NEW p \in Procs, Arrival(p) PROVE CalmWithRegistry'
  BY <1>1, <1>2, <1>5, ArrivalCalm, OthersRegistry DEF CalmWithRegistry
<1>6. ASSUME NEW p \in Procs, DrainDeadline(p) PROVE CalmWithRegistry'
  BY <1>1, <1>2, <1>6, DeadlineCalm, OthersRegistry DEF CalmWithRegistry
<1>7. CASE UNCHANGED vars  BY <1>2, <1>7, CalmStutters
<1> QED  BY <1>3, <1>4, <1>5, <1>6, <1>7 DEF Next

LEMMA CalmAlways ==
    ASSUME Calm
    PROVE  Spec => []CalmWithRegistry
<1>1. CalmWithRegistry /\ [Next]_vars => CalmWithRegistry'  BY CalmNext
<1> QED  BY <1>1, CalmInit, PTL DEF Spec

(***************************************************************************)
(* A job held for a person keeps the checkpoint its resume starts from,    *)
(* through every crash, drain, refused sandbox and restart: the pauses     *)
(* write the checkpoint before the status, and no purge reaches a held     *)
(* job.                                                                    *)
(***************************************************************************)
THEOREM HeldJobsResume ==
    ASSUME Calm
    PROVE  Spec => []HeldJobResumable
<1>1. CalmWithRegistry => HeldJobResumable  BY DEF CalmWithRegistry, CalmInv, Row, HeldJobResumable
<1> QED  BY <1>1, CalmAlways, PTL

(***************************************************************************)
(* A job that says it is in flight is worked on by a coroutine of this     *)
(* process: boot takes back or fails every one the last process left, and  *)
(* no exit of a run leaves its status behind.                              *)
(***************************************************************************)
THEOREM NoRunStranded ==
    ASSUME Calm, Prompt
    PROVE  Spec => []NoStrandedRun
<1>1. CalmWithRegistry => NoStrandedRun
  <2> SUFFICES ASSUME CalmInv, orch = "up", NEW j \in Jobs, job[j] \in InFlightStatuses
               PROVE  WorkedOn(j)
    BY DEF CalmWithRegistry, NoStrandedRun
  <2>1. PICK p \in Procs : Busy(proc[p])  BY DEF CalmInv, AtRest
  <2>2. job[j] \in ActiveStatuses  BY StatusNames
  <2>3. Mine(proc[p]) = j  BY <2>1, <2>2, Alone
  <2> QED  BY <2>3 DEF Mine, WorkedOn, At
<1> QED  BY <1>1, CalmAlways, PTL

(***************************************************************************)
(* While a job is active its issue is in its hands: triaging, or awaiting  *)
(* input beside a question, or open beside a job that is paused.  No       *)
(* refusal, rollback, finish, cancel, crash, drain or boot opens it for a  *)
(* second job.                                                             *)
(***************************************************************************)
THEOREM ActiveJobsHoldIssues ==
    ASSUME Calm
    PROVE  Spec => []ActiveJobHoldsIssue
<1>1. CalmWithRegistry => ActiveJobHoldsIssue  BY DEF CalmWithRegistry, CalmInv, Row, ActiveJobHoldsIssue
<1> QED  BY <1>1, CalmAlways, PTL

-----------------------------------------------------------------------------
(* A resume has its answers.                                               *)

(***************************************************************************)
(* While a job waits for an answer, only a reply that counts them or a     *)
(* cancel is busy.                                                         *)
(***************************************************************************)
LEMMA WaitingCounts ==
    ASSUME Calm, CalmInv, NEW j \in Jobs, PendingOf(j) # {}, job[j] = "awaiting_input",
           NEW q \in Procs, Busy(proc[q])
    PROVE  proc[q].pc \in {"record", "count"} \cup Stopping
<1>1. job[j] \in ActiveStatuses  BY ActiveNames
<1>2. Note(proc[q]) /\ (j # Mine(proc[q]) => job[j] \notin ActiveStatuses)  BY Alone
<1>3. ~IsTask(q)  BY WaitingRests
<1>4. proc[q].pc \in RequestPCs \cup DispatchPCs  BY <1>3, ClosedParts, AtWork DEF CalmInv, Busy
<1>5. proc[q].pc \notin Clear
  <2>1. proc[q].pc \in Clear => NoneActive  BY <1>2, NoteAt DEF ClearNote
  <2> QED  BY <1>1, <2>1 DEF NoneActive
<1>6. proc[q].pc # "track"
  <2>1. proc[q].pc = "track" => job[proc[q].number] = "pending"  BY <1>2, NoteAt DEF TrackNote
  <2> QED  BY <1>1, <1>2, <2>1 DEF Mine
<1>7. proc[q].job = j  BY <1>1, <1>2, <1>6 DEF Mine
<1>8. proc[q].pc # "continue"
  <2>1. proc[q].pc = "continue" => job[j] = "paused"  BY <1>2, <1>7, NoteAt
  <2> QED  BY <2>1
<1>9. proc[q].pc \notin {"guard", "resume", "find"}
  <2>1. proc[q].pc \in {"guard", "resume", "find"} => PendingOf(j) = {}  BY <1>2, <1>7, NoteAt DEF ReplyNote
  <2> QED  BY <2>1
<1>10. proc[q].pc # "cancel_task"  BY <1>2, NoteAt
<1> QED  BY <1>4, <1>5, <1>6, <1>8, <1>9, <1>10 DEF RequestPCs, DispatchPCs, Clear, Stopping

\* What a counting reply, a cancel, or a coroutine that is gone, does not do.
LEMMA CountingRunsNoJob ==
    ASSUME ShapeInv, NEW p \in Procs, Work(p),
           proc[p].pc \in {"idle", "unwind", "cancel_task", "record", "count"} \cup Stopping
    PROVE  \A j \in Jobs : job'[j] = "running" => job[j] = "running"
<1> USE DEF Stopping
<1>1. ~BeforeTheRun(p)
  BY DEF BeforeTheRun, Launch, TakeSlot, Gate, RefuseJob, RefuseIssue, Start, KeepPrior, ResumeJob, ResumeIssue,
         ReenrollFails, PutBackJob, PutBackIssue, UpdateJob, UpdateJobBy, UpdateIssue, Step, At
<1>2. ~Dispatch(p)
  BY DEF Dispatch, ClaimIssue, Exec, Create, Track, Rollback, UpdateIssue, Step, At
<1>3. TheRun(p) => job' = job
  BY DEF TheRun, EnterStream, Ask, AskNothing, GetStuck, EndRun, Raise, PauseJob, PauseIssue, Asking, AutoJob,
         FinishJob, FinishPurge, FinishIssue, FailJob, FailIssue, FailPurge, Unwind,
         UpdateJob, UpdateJobBy, UpdateIssue, Purge, Reaches, Step, At
<1>4. Reply(p) => job' = job  BY DEF Reply, Record, CountPending, Guard, Resume, Find, Schedule, Step, At
<1>5. ~Continue(p)  BY DEF Continue, At
<1>6. ReadStatus(p) => job' = job  BY DEF ReadStatus
<1>7. Cancel(p) => job' = job \/ CancelJob(p)
  BY DEF Cancel, CancelTask, CancelWait, CancelRecheck, CancelIssue, CancelPurge, UpdateIssue, Purge, Step, At
<1>8. ASSUME CancelJob(p), NEW j \in Jobs PROVE job'[j] \in {job[j], "cancelled"}
  <2>1. PICK k : k = proc[p].job  OBVIOUS
  <2>2. job' = [job EXCEPT ![k] = StatusAfter(JobMoves, proc[p].seen, job[k], "cancelled")]
    BY <1>8, <2>1 DEF CancelJob, UpdateJob, UpdateJobBy
  <2>3. StatusAfter(JobMoves, proc[p].seen, job[k], "cancelled") \in {job[k], "cancelled"}  BY DEF StatusAfter
  <2>4. job \in [Jobs -> JobStatuses \cup {"absent"}]  BY ShapeParts
  <2> QED  BY <2>2, <2>3, <2>4
<1> QED  BY <1>1, <1>2, <1>3, <1>4, <1>5, <1>6, <1>7, <1>8 DEF Work

(***************************************************************************)
(* A job that waits for answers is resumed only when it has all of them,   *)
(* over the job route, the issue route and the inbound channels alike,     *)
(* whatever crashes and restarts come between.                             *)
(***************************************************************************)
THEOREM ResumesHaveAnswers ==
    ASSUME Calm
    PROVE  Spec => ResumedWithAnswers
<1> DEFINE A == \A j \in Jobs : job[j] = "awaiting_input" /\ job'[j] = "running" => PendingOf(j) = {}
<1>1. CalmWithRegistry /\ [Next]_vars => [A]_vars
  <2> SUFFICES ASSUME CalmInv, Next, NEW j \in Jobs, PendingOf(j) # {},
                      job[j] = "awaiting_input", job'[j] = "running"
               PROVE  FALSE
    BY DEF CalmWithRegistry
  <2>1. ASSUME NEW p \in Procs, Work(p) PROVE FALSE
    <3>1. proc[p].pc \in {"idle", "unwind", "cancel_task", "record", "count"} \cup Stopping
      BY WaitingCounts DEF Busy
    <3>2. job[j] = "running"  BY <2>1, <3>1, CountingRunsNoJob, ClosedParts DEF CalmInv
    <3> QED  BY <3>2
  <2>2. CASE BootDecide
    <3>1. PICK keep : job' = [i \in Jobs |-> IF i \in {k \in Jobs : job[k] \in InFlightStatuses} \ keep
                                             THEN "failed" ELSE job[i]]
      BY <2>2 DEF BootDecide
    <3>2. job'[j] \in {"failed", job[j]}  BY <3>1
    <3> QED  BY <3>2
  <2>3. CASE Drain \/ Exit \/ Crash \/ BootStart
    <3>1. job' = job  BY <2>3 DEF Drain, Exit, Crash, ProcessEnds, BootStart
    <3> QED  BY <3>1
  <2>4. ASSUME NEW p \in Procs, Arrival(p) \/ DrainDeadline(p) PROVE FALSE
    <3>1. job' = job
      BY <2>4 DEF Arrival, BeginTriage, BeginContinue, BeginReply, BeginComment, BeginCancel, Begin, DrainDeadline
    <3> QED  BY <3>1
  <2> QED  BY <2>1, <2>2, <2>3, <2>4 DEF Next, Process
<1> QED  BY <1>1, CalmAlways, PTL DEF Spec, ResumedWithAnswers

-----------------------------------------------------------------------------
(* A cancel.                                                               *)

(***************************************************************************)
(* A cancel that comes to delete the checkpoint has a job that is over for *)
(* good and that nobody executes, wherever the job's task was when it was  *)
(* cancelled: a task that moved the row first has brought it to a status   *)
(* the cancel reads afresh, the registry still had the task to be          *)
(* cancelled, and a process that ended took the cancel with it.            *)
(***************************************************************************)
THEOREM CancelsResolve ==
    ASSUME Calm
    PROVE  Spec => []CancelResolves
<1>1. CalmWithRegistry => CancelResolves
  <2> SUFFICES ASSUME CalmInv, NEW p \in Procs, proc[p].pc = "cancel_purge"
               PROVE  /\ job[proc[p].job] \in TerminalStatuses
                      /\ \A q \in Procs : ~Executes(q, proc[p].job)
    BY DEF CalmWithRegistry, CancelResolves, At
  <2>1. Busy(proc[p])  BY DEF Busy
  <2>2. NoneActive  BY <2>1, Alone, NoteAt DEF Clear, ClearNote
  <2>3. job[proc[p].job] \in JobStatuses /\ proc[p].job \in Jobs
    <3>1. proc[p].pc \notin JoblessPCs /\ proc[p].pc # "idle"  BY DEF JoblessPCs
    <3> QED  BY <3>1, ClosedParts, AtWork DEF CalmInv
  <2>4. job[proc[p].job] \in TerminalStatuses
    <3>1. job[proc[p].job] \notin PrStatuses  BY <2>3, ClosedParts DEF CalmInv
    <3> QED  BY <2>2, <2>3, <3>1 DEF NoneActive, JobStatuses, PrStatuses
  <2>5. \A q \in Procs : Executes(q, proc[p].job) => Busy(proc[q])  BY DEF Executes, Busy
  <2>6. ~Executes(p, proc[p].job)  BY DEF Executes
  <2> QED  BY <2>1, <2>4, <2>5, <2>6, Alone
<1> QED  BY <1>1, CalmAlways, PTL

-----------------------------------------------------------------------------
(* A graph is started once, whatever answers, continues, cancels, faults   *)
(* and restarts meet: for any number of jobs, requests and coroutines.     *)

Held == {"awaiting_input", "paused"}

\* From where a task may still come to execute the graph, and from where it
\* may still write "awaiting_input" or "paused".
StartPCs == {"launching", "slot", "gate", "start", "prior_job", "prior_issue", "resume_job",
             "resume_issue", "stream", "nodes"}
HoldPCs == {"asking", "pause_job", "putback_job"}

\* c is, or is about to be, the task that begins job j or goes on with it
\* after a restart.
Begins(c, j) ==
    \/ c.kind \in {"fresh", "restart"} /\ c.job = j /\ c.pc \in StartPCs
    \/ c.pc = "track" /\ c.number = j

\* c may come to execute job j, to hold it for a person, or to resume it.
Runs(c, j) == c.job = j /\ c.pc \in StartPCs \cup HoldPCs \cup {"resume", "continue"}

(***************************************************************************)
(* While a task begins a job the job is not held, so that nothing resumes  *)
(* it, and no other coroutine has to do with its run: a new job is nobody  *)
(* else's, and at boot every coroutine is gone.                            *)
(***************************************************************************)
BeginsAlone ==
    \A p \in Procs, j \in Jobs : Begins(proc[p], j) =>
        /\ job[j] \notin Held
        /\ \A q \in Procs : q # p => ~Begins(proc[q], j) /\ ~Runs(proc[q], j)

StartInv == ShapeInv /\ BeginsAlone

\* No coroutine comes to have more to do with any job.
LEMMA NoMore ==
    ASSUME StartInv,
           \A q \in Procs, j \in Jobs : /\ Begins(proc'[q], j) => Begins(proc[q], j)
                                        /\ Runs(proc'[q], j) => Runs(proc[q], j) \/ Begins(proc[q], j),
           \A j \in Jobs : job'[j] \in Held => job[j] \in Held
    PROVE  BeginsAlone'
<1> SUFFICES ASSUME NEW p \in Procs, NEW j \in Jobs, Begins(proc'[p], j)
             PROVE  /\ job'[j] \notin Held
                    /\ \A q \in Procs : q # p => ~Begins(proc'[q], j) /\ ~Runs(proc'[q], j)
  BY DEF BeginsAlone, Begins, Runs
<1>1. /\ Begins(proc[p], j) /\ job[j] \notin Held
      /\ \A q \in Procs : q # p => ~Begins(proc[q], j) /\ ~Runs(proc[q], j)
  BY DEF StartInv, BeginsAlone
<1> QED  BY <1>1

\* One coroutine changes: it has no more to do with a job than before, unless
\* the job is held; and a job comes to be held by the one that runs it.
LEMMA OneMoves ==
    ASSUME StartInv, NEW p \in Procs, \A q \in Procs : q # p => proc'[q] = proc[q],
           \A j \in Jobs : /\ Begins(proc'[p], j) => Begins(proc[p], j) /\ (job'[j] \in Held => job[j] \in Held)
                           /\ Runs(proc'[p], j) => Runs(proc[p], j) \/ Begins(proc[p], j) \/ job[j] \in Held
                           /\ job'[j] \in Held => job[j] \in Held \/ Runs(proc[p], j)
    PROVE  BeginsAlone'
<1> SUFFICES ASSUME NEW r \in Procs, NEW j \in Jobs, Begins(proc'[r], j)
             PROVE  /\ job'[j] \notin Held
                    /\ \A q \in Procs : q # r => ~Begins(proc'[q], j) /\ ~Runs(proc'[q], j)
  BY DEF BeginsAlone, Begins, Runs
<1>1. Begins(proc[r], j)  OBVIOUS
<1>2. /\ job[j] \notin Held
      /\ \A q \in Procs : q # r => ~Begins(proc[q], j) /\ ~Runs(proc[q], j)
  BY <1>1 DEF StartInv, BeginsAlone
<1>3. CASE r = p  BY <1>2, <1>3
<1>4. CASE r # p
  <2>1. ~Begins(proc[p], j) /\ ~Runs(proc[p], j)  BY <1>2, <1>4
  <2>2. ~Begins(proc'[p], j) /\ ~Runs(proc'[p], j) /\ job'[j] \notin Held  BY <1>2, <2>1
  <2> QED  BY <1>2, <2>2
<1> QED  BY <1>3, <1>4

\* Goto keeps all of a coroutine but its place.
LEMMA GotoFields ==
    ASSUME ShapeInv, NEW p \in Procs, NEW pc, Goto(p, pc)
    PROVE  /\ \A q \in Procs : q # p => proc'[q] = proc[q]
           /\ pc = "idle" => proc'[p] = Idle
           /\ pc # "idle" => /\ proc'[p].pc = pc /\ proc'[p].kind = proc[p].kind
                             /\ proc'[p].job = proc[p].job /\ proc'[p].number = proc[p].number
<1>1. proc \in [Procs -> Coroutines] /\ proc[p] \in Coroutines  BY ShapeParts
<1>2. CASE pc = "idle"
  <2>1. proc' = [proc EXCEPT ![p] = Idle]  BY <1>2 DEF Goto
  <2> QED  BY <1>1, <1>2, <2>1
<1>3. CASE pc # "idle"
  <2>1. proc' = [proc EXCEPT ![p] = [proc[p] EXCEPT !.pc = pc, !.seen = NoStatus]]  BY <1>1, <1>3 DEF Goto
  <2>2. proc'[p] = [proc[p] EXCEPT !.pc = pc, !.seen = NoStatus] /\ \A q \in Procs : q # p => proc'[q] = proc[q]
    BY <1>1, <2>1
  <2>3. /\ proc'[p].pc = pc /\ proc'[p].kind = proc[p].kind
        /\ proc'[p].job = proc[p].job /\ proc'[p].number = proc[p].number
    BY <1>1, <2>2 DEF Coroutines
  <2> QED  BY <1>3, <2>2, <2>3
<1> QED  BY <1>2, <1>3

LEMMA IdleRunsNothing == ASSUME NEW j PROVE ~Begins(Idle, j) /\ ~Runs(Idle, j)
BY IdleFields DEF Begins, Runs, StartPCs, HoldPCs

(***************************************************************************)
(* A coroutine goes from `at` to pc, and towards the run of its job only   *)
(* from before it.                                                         *)
(***************************************************************************)
LEMMA StartsGoto ==
    ASSUME StartInv, NEW p \in Procs, NEW at, NEW pc, proc[p].pc = at, Goto(p, pc),
           pc \notin {"track", "resume", "continue"},
           pc \in StartPCs => at \in StartPCs,
           pc \in HoldPCs => at \in StartPCs \cup HoldPCs,
           \A j \in Jobs : job'[j] \in Held => job[j] \in Held \/ (j = proc[p].job /\ at \in HoldPCs)
    PROVE  BeginsAlone'
<1>1. \A q \in Procs : q # p => proc'[q] = proc[q]  BY GotoFields DEF StartInv
<1>2. \A j \in Jobs : job'[j] \in Held => job[j] \in Held \/ Runs(proc[p], j)  BY DEF Runs
<1>3. CASE pc = "idle"
  <2>1. proc'[p] = Idle  BY <1>3, GotoFields DEF StartInv
  <2> QED  BY <1>1, <1>2, <2>1, IdleRunsNothing, OneMoves
<1>4. CASE pc # "idle"
  <2>1. proc'[p].pc = pc /\ proc'[p].kind = proc[p].kind /\ proc'[p].job = proc[p].job
    BY <1>4, GotoFields DEF StartInv
  <2>2. \A j \in Jobs : Runs(proc'[p], j) => Runs(proc[p], j)  BY <2>1 DEF Runs
  <2>3. ASSUME NEW j \in Jobs, Begins(proc'[p], j)
        PROVE  Begins(proc[p], j) /\ (job'[j] \in Held => job[j] \in Held)
    <3>1. proc[p].kind \in {"fresh", "restart"} /\ proc[p].job = j /\ pc \in StartPCs  BY <2>1, <2>3 DEF Begins
    <3>2. Begins(proc[p], j) /\ at \in StartPCs  BY <3>1 DEF Begins
    <3>3. at \notin HoldPCs  BY <3>2 DEF StartPCs, HoldPCs
    <3> QED  BY <3>2, <3>3
  <2> QED  BY <1>1, <1>2, <2>2, <2>3, OneMoves
<1> QED  BY <1>3, <1>4

\* Those steps by their kind.
LEMMA StartsStep ==
    ASSUME StartInv, NEW p \in Procs, NEW at, NEW pc, Goto(p, pc), At(p, at), job' = job,
           pc \notin {"track", "resume", "continue"},
           pc \in StartPCs => at \in StartPCs,
           pc \in HoldPCs => at \in StartPCs \cup HoldPCs
    PROVE  BeginsAlone'
BY StartsGoto DEF At

LEMMA StartsIssue ==
    ASSUME StartInv, NEW p \in Procs, NEW at, NEW new, NEW next, NEW handler,
           UpdateIssue(p, at, new, next, handler),
           {next, handler} \cap ({"track", "resume", "continue"} \cup HoldPCs) = {},
           next \in StartPCs => at \in StartPCs, handler \notin StartPCs
    PROVE  BeginsAlone'
<1>1. PICK pc \in {next, handler} : Goto(p, pc)  BY DEF UpdateIssue
<1>2. At(p, at) /\ job' = job  BY DEF UpdateIssue
<1> QED  BY <1>1, <1>2, StartsStep

LEMMA StartsJob ==
    ASSUME StartInv, NEW p \in Procs, NEW moves \in {JobMoves, AllJobMoves}, NEW at, NEW new,
           NEW next, NEW handler, UpdateJobBy(moves, p, at, new, next, handler), at \in JobWrites,
           {next, handler} \cap ({"track", "resume", "continue"} \cup HoldPCs) = {},
           next \in StartPCs => at \in StartPCs, handler \notin StartPCs,
           new \in Held => at \in HoldPCs
    PROVE  BeginsAlone'
<1>1. PICK pc \in {next, handler} : Goto(p, pc)  BY DEF UpdateJobBy
<1>2. proc[p].pc = at  BY DEF UpdateJobBy, At
<1>3. ShapeInv  BY DEF StartInv
<1>4. proc[p].job \in Jobs /\ job' = [job EXCEPT ![proc[p].job] = job'[proc[p].job]]  BY <1>3, UpdateJobRow
<1>5. job \in [Jobs -> JobStatuses \cup {"absent"}]  BY <1>3, ShapeParts
<1> DEFINE mine == proc[p].job
<1>6. job'[mine] \in {job[mine], new}
  <2>1. job' = [job EXCEPT ![mine] = StatusAfter(moves, proc[p].seen, @, new)]  BY DEF UpdateJobBy
  <2> HIDE DEF mine
  <2>2. mine \in Jobs  BY <1>4 DEF mine
  <2>3. job'[mine] = StatusAfter(moves, proc[p].seen, job[mine], new)  BY <1>5, <2>1, <2>2
  <2> QED  BY <2>3 DEF StatusAfter
<1>7. \A j \in Jobs : j # mine => job'[j] = job[j]  BY <1>4, <1>5
<1>8. \A j \in Jobs : job'[j] \in Held => job[j] \in Held \/ (j = proc[p].job /\ at \in HoldPCs)
  BY <1>6, <1>7
<1> QED  BY <1>1, <1>2, <1>8, StartsGoto

\* The steps of a task before its run and in it.
LEMMA BeforeTheRunStarts ==
    ASSUME StartInv, NEW p \in Procs, BeforeTheRun(p)
    PROVE  BeginsAlone'
<1> USE DEF StartPCs, HoldPCs
<1>1. CASE Launch(p)
  <2>1. /\ Goto(p, "unwind") \/ Goto(p, "slot")
        /\ At(p, "launching") /\ job' = job
    BY <1>1 DEF Launch
  <2> QED  BY <2>1, StartsStep
<1>2. CASE TakeSlot(p) \/ Gate(p)
  <2>1. PICK at \in {"slot", "gate"}, pc \in {"gate", "stream", "start", "refuse_job", "fail_job"} : Step(p, at, pc)
    BY <1>2 DEF TakeSlot, Gate
  <2> QED  BY <2>1, StartsStep DEF Step
<1>3. CASE RefuseJob(p)
  <2>1. UpdateJobBy(AllJobMoves, p, "refuse_job", "failed", "refuse_issue", "refuse_issue")
    BY <1>3 DEF RefuseJob, AllJobMoves
  <2> QED  BY <2>1, StartsJob DEF JobWrites, Held
<1>4. CASE RefuseIssue(p)  BY <1>4, StartsIssue DEF RefuseIssue
<1>5. CASE Start(p)  BY <1>5, StartsJob DEF Start, UpdateJob, JobWrites, Held
<1>6. CASE KeepPrior(p)
  <2>1. proc \in [Procs -> Coroutines] /\ proc[p] \in Coroutines  BY ShapeParts DEF StartInv
  <2>2. PICK pc \in {"prior_issue", "resume_job"} :
           /\ proc[p].pc \in {"prior_job", "prior_issue"} /\ job' = job
           /\ proc'[p].pc = pc /\ proc'[p].kind = proc[p].kind /\ proc'[p].job = proc[p].job
           /\ \A q \in Procs : q # p => proc'[q] = proc[q]
    <3>1. CASE At(p, "prior_job")
      <4>1. /\ proc' = [proc EXCEPT ![p].priorJob = job[proc[p].job], ![p].pc = "prior_issue"] /\ job' = job
            /\ proc[p].pc = "prior_job"
        BY <1>6, <3>1 DEF KeepPrior, At
      <4> QED  BY <2>1, <4>1 DEF Coroutines
    <3>2. CASE At(p, "prior_issue")
      <4>1. /\ proc' = [proc EXCEPT ![p].priorIssue = issue, ![p].pc = "resume_job"] /\ job' = job
            /\ proc[p].pc = "prior_issue"
        BY <1>6, <3>2 DEF KeepPrior, At
      <4> QED  BY <2>1, <4>1 DEF Coroutines
    <3> QED  BY <1>6, <3>1, <3>2 DEF KeepPrior
  <2>3. \A j \in Jobs : Begins(proc'[p], j) => Begins(proc[p], j)  BY <2>2 DEF Begins
  <2>4. \A j \in Jobs : Runs(proc'[p], j) => Runs(proc[p], j)  BY <2>2 DEF Runs
  <2> QED  BY <2>2, <2>3, <2>4, OneMoves
<1>7. CASE ResumeJob(p)  BY <1>7, StartsJob DEF ResumeJob, UpdateJob, JobWrites, Held
<1>8. CASE ResumeIssue(p)  BY <1>8, StartsIssue DEF ResumeIssue
<1>9. CASE ReenrollFails(p)
  <2>1. proc \in [Procs -> Coroutines] /\ proc[p] \in Coroutines  BY ShapeParts DEF StartInv
  <2>2. PICK pc \in {"fail_job", "putback_job"} : proc' = [proc EXCEPT ![p].pc = pc, ![p].ending = "refused"]
    BY <1>9 DEF ReenrollFails
  <2>3. /\ proc[p].pc = "stream" /\ job' = job /\ proc'[p].pc = pc /\ proc'[p].job = proc[p].job
        /\ \A q \in Procs : q # p => proc'[q] = proc[q]
    BY <1>9, <2>1, <2>2 DEF ReenrollFails, At, Coroutines
  <2>4. \A j \in Jobs : ~Begins(proc'[p], j)  BY <2>3 DEF Begins
  <2>5. \A j \in Jobs : Runs(proc'[p], j) => Runs(proc[p], j)  BY <2>3 DEF Runs
  <2> QED  BY <2>3, <2>4, <2>5, OneMoves
<1>10. CASE PutBackJob(p)
  <2>1. UpdateJobBy(JobMoves, p, "putback_job", proc[p].priorJob, "putback_issue", PutBackRaised(p))
    BY <1>10 DEF PutBackJob, UpdateJob
  <2>2. PutBackRaised(p) \in {"unwind", "fail_job"}  BY DEF PutBackRaised
  <2> QED  BY <2>1, <2>2, StartsJob DEF JobWrites
<1>11. CASE PutBackIssue(p)
  <2>1. PutBackRaised(p) \in {"unwind", "fail_job"}  BY DEF PutBackRaised
  <2> QED  BY <1>11, <2>1, StartsIssue DEF PutBackIssue
<1> QED  BY <1>1, <1>2, <1>3, <1>4, <1>5, <1>6, <1>7, <1>8, <1>9, <1>10, <1>11 DEF BeforeTheRun

LEMMA AskingStarts ==
    ASSUME StartInv, NEW p \in Procs, Asking(p)
    PROVE  BeginsAlone'
<1>1. proc[p].pc = "asking" /\ Goto(p, "unwind")  BY DEF Asking, At
<1>2. job \in [Jobs -> JobStatuses \cup {"absent"}]  BY ShapeParts DEF StartInv
<1>3. \A j \in Jobs : j # proc[p].job => job'[j] = job[j]  BY <1>2 DEF Asking
<1> QED  BY <1>1, <1>3, StartsGoto DEF StartPCs, HoldPCs

LEMMA TheRunStarts ==
    ASSUME StartInv, NEW p \in Procs, TheRun(p)
    PROVE  BeginsAlone'
<1> USE DEF StartPCs, HoldPCs
<1>1. CASE EnterStream(p)
  <2>1. At(p, "stream") /\ job' = job  BY <1>1 DEF EnterStream, Step, Reaches
  <2>2. ckpt[proc[p].job] \in Checkpoints
    <3>1. proc[p].job \in Jobs  BY <2>1, AtWork DEF At, JoblessPCs, StartInv
    <3> QED  BY <3>1, ShapeParts DEF StartInv
  <2>3. \E pc \in {"unwind", "fail_job", "nodes", "asking", "auto_job", "pause_job"} : Goto(p, pc)
    BY <1>1, <2>2 DEF EnterStream, Checkpoints, Step, Reaches
  <2> QED  BY <2>1, <2>3, StartsStep
<1>2. CASE Ask(p) \/ AskNothing(p) \/ GetStuck(p)
  <2>1. At(p, "nodes") /\ job' = job
    BY <1>2 DEF Ask, AskNothing, GetStuck, Reaches
  <2>2. \E pc \in {"unwind", "asking", "auto_job", "pause_job"} : Goto(p, pc)
    BY <1>2 DEF Ask, AskNothing, GetStuck, Reaches, NextOrDrained
  <2> QED  BY <2>1, <2>2, StartsStep
<1>3. CASE EndRun(p)
  <2>1. At(p, "nodes") /\ job' = job  BY <1>3 DEF EndRun
  <2>2. CASE Goto(p, "unwind")  BY <2>1, <2>2, StartsStep
  <2>3. ASSUME NEW ending, proc' = [proc EXCEPT ![p].pc = "finish_job", ![p].ending = ending]
        PROVE  BeginsAlone'
    <3>1. proc \in [Procs -> Coroutines] /\ proc[p] \in Coroutines  BY ShapeParts DEF StartInv
    <3>2. proc'[p].pc = "finish_job" /\ \A q \in Procs : q # p => proc'[q] = proc[q]
      BY <2>3, <3>1 DEF Coroutines
    <3>3. \A j \in Jobs : ~Begins(proc'[p], j) /\ ~Runs(proc'[p], j)  BY <3>2 DEF Begins, Runs
    <3> QED  BY <2>1, <3>2, <3>3, OneMoves
  <2> QED  BY <1>3, <2>2, <2>3 DEF EndRun
<1>4. CASE Raise(p)  BY <1>4, StartsStep DEF Raise, Step
<1>5. CASE PauseJob(p)  BY <1>5, StartsJob DEF PauseJob, UpdateJob, JobWrites
<1>6. CASE PauseIssue(p)  BY <1>6, StartsIssue DEF PauseIssue
<1>7. CASE Asking(p)  BY <1>7, AskingStarts
<1>8. CASE AutoJob(p)
  <2>1. CASE UpdateJobBy(JobMoves, p, "auto_job", "completed", "claim_issue", "fail_job")
    BY <2>1, StartsJob DEF JobWrites, Held
  <2>2. CASE UpdateJobBy(JobMoves, p, "auto_job", "failed", "finish_issue", "fail_job")
    BY <2>2, StartsJob DEF JobWrites, Held
  <2> QED  BY <1>8, <2>1, <2>2 DEF AutoJob, UpdateJob
<1>9. CASE FinishJob(p)
  <2>1. PICK new \in {"completed", "failed"}, next \in {"finish_issue", "finish_purge"} :
           UpdateJobBy(JobMoves, p, "finish_job", new, next, "fail_job")
    BY <1>9 DEF FinishJob, UpdateJob
  <2> QED  BY <2>1, StartsJob DEF JobWrites, Held
<1>10. CASE FinishPurge(p) \/ FailPurge(p)  BY <1>10, StartsStep DEF FinishPurge, FailPurge, Purge
<1>11. CASE FinishIssue(p)  BY <1>11, StartsIssue DEF FinishIssue
<1>12. CASE FailJob(p)  BY <1>12, StartsJob DEF FailJob, UpdateJob, JobWrites, Held
<1>13. CASE FailIssue(p)
  <2>1. PICK next \in {"fail_purge", "unwind"} : UpdateIssue(p, "fail_issue", "open", next, "unwind")
    BY <1>13 DEF FailIssue
  <2> QED  BY <2>1, StartsIssue
<1>14. CASE Unwind(p)
  <2>1. proc' = [proc EXCEPT ![p] = Idle] /\ job' = job /\ proc \in [Procs -> Coroutines]
    BY <1>14, ShapeParts DEF Unwind, StartInv
  <2>2. proc'[p] = Idle /\ \A q \in Procs : q # p => proc'[q] = proc[q]  BY <2>1
  <2> QED  BY <2>1, <2>2, IdleRunsNothing, OneMoves
<1> QED  BY <1>1, <1>2, <1>3, <1>4, <1>5, <1>6, <1>7, <1>8, <1>9, <1>10, <1>11, <1>12, <1>13, <1>14 DEF TheRun

-----------------------------------------------------------------------------
(* The steps of the handlers and of the process.                           *)

LEMMA ReadStatusStarts ==
    ASSUME StartInv, NEW p \in Procs, ReadStatus(p)
    PROVE  BeginsAlone'
<1>1. PICK s : proc' = [proc EXCEPT ![p].seen = s] /\ job' = job  BY DEF ReadStatus
<1>2. proc \in [Procs -> Coroutines] /\ proc[p] \in Coroutines  BY ShapeParts DEF StartInv
<1>3. /\ proc'[p].pc = proc[p].pc /\ proc'[p].kind = proc[p].kind
      /\ proc'[p].job = proc[p].job /\ proc'[p].number = proc[p].number
      /\ \A q \in Procs : q # p => proc'[q] = proc[q]
  BY <1>1, <1>2 DEF Coroutines
<1>4. \A j \in Jobs : /\ Begins(proc'[p], j) => Begins(proc[p], j)
                      /\ Runs(proc'[p], j) => Runs(proc[p], j)
  BY <1>3 DEF Begins, Runs
<1> QED  BY <1>1, <1>3, <1>4, OneMoves

\* A job that is absent is nobody's, and the one who inserts it begins it.
LEMMA CreateStarts ==
    ASSUME StartInv, NEW p \in Procs, NEW j \in Jobs, Inserts(p, j)
    PROVE  BeginsAlone'
<1>1. /\ proc \in [Procs -> Coroutines] /\ proc[p] \in Coroutines /\ job \in [Jobs -> JobStatuses \cup {"absent"}]
      /\ \A q \in Procs : HasItsJob(proc[q], job)
  BY ShapeParts DEF StartInv
<1>2. /\ proc'[p].pc = "track" /\ proc'[p].number = j
      /\ \A q \in Procs : q # p => proc'[q] = proc[q]
      /\ \A i \in Jobs : job'[i] = IF i = j THEN "pending" ELSE job[i]
      /\ job[j] = "absent"
  BY <1>1 DEF Inserts, Coroutines
<1>3. \A i \in Jobs : /\ Begins(proc'[p], i) => i = j
                      /\ ~Runs(proc'[p], i)
  BY <1>2 DEF Begins, Runs, StartPCs, HoldPCs
<1>4. \A q \in Procs : ~Begins(proc[q], j) /\ ~Runs(proc[q], j)
  <2>1. j # 0  BY DEF Jobs
  <2> QED  BY <1>1, <1>2, <2>1 DEF HasItsJob, Begins, Runs
<1> SUFFICES ASSUME NEW r \in Procs, NEW i \in Jobs, Begins(proc'[r], i)
             PROVE  /\ job'[i] \notin Held
                    /\ \A q \in Procs : q # r => ~Begins(proc'[q], i) /\ ~Runs(proc'[q], i)
  BY DEF BeginsAlone, Begins, Runs
<1>5. CASE r = p  BY <1>2, <1>3, <1>4, <1>5 DEF Held
<1>6. CASE r # p
  <2>1. Begins(proc[r], i)  BY <1>2, <1>6
  <2>2. i # j  BY <1>4, <2>1
  <2>3. /\ job[i] \notin Held
        /\ \A q \in Procs : q # r => ~Begins(proc[q], i) /\ ~Runs(proc[q], i)
    BY <2>1 DEF StartInv, BeginsAlone
  <2> QED  BY <1>2, <1>3, <2>2, <2>3
<1> QED  BY <1>5, <1>6

\* The new task takes over what the coroutine that tracks it had to begin.
LEMMA TrackStarts ==
    ASSUME StartInv, NEW p \in Procs, Track(p)
    PROVE  BeginsAlone'
<1>1. proc \in [Procs -> Coroutines] /\ proc[p] \in Coroutines  BY ShapeParts DEF StartInv
<1>2. proc[p].pc = "track" /\ job' = job  BY DEF Track, At
<1>3. proc[p].number \in Jobs  BY <1>2, ShapeParts DEF StartInv, HasItsJob
<1> DEFINE task == Coroutine("launching", "fresh", proc[p].number)
           rest == [proc[p] EXCEPT !.pc = "unwind"]
<1>4. PICK q \in Procs : proc' = [r \in Procs |-> IF r = q THEN task ELSE IF r = p THEN rest ELSE proc[r]]
  BY DEF Track
<1>5. task.pc = "launching" /\ task.job = proc[p].number
  <2>1. proc[p].number \in 0..MaxJobs /\ "launching" \in PCs /\ "fresh" \in RequestKinds \cup TaskKinds
    BY <1>3, BoundsAssumption DEF Jobs, PCs, TaskKinds
  <2> QED  BY <2>1, NewCoroutine
<1>6. rest.pc = "unwind"  BY <1>1 DEF Coroutines
<1> HIDE DEF task, rest
<1>7. \A j \in Jobs : /\ Begins(task, j) \/ Runs(task, j) => j = proc[p].number
                      /\ ~Begins(rest, j) /\ ~Runs(rest, j)
  BY <1>5, <1>6 DEF Begins, Runs, StartPCs, HoldPCs
<1>8. Begins(proc[p], proc[p].number)  BY <1>2 DEF Begins
<1>9. \A r \in Procs : proc'[r] = (IF r = q THEN task ELSE IF r = p THEN rest ELSE proc[r])  BY <1>4
<1> SUFFICES ASSUME NEW r \in Procs, NEW j \in Jobs, Begins(proc'[r], j)
             PROVE  /\ job'[j] \notin Held
                    /\ \A s \in Procs : s # r => ~Begins(proc'[s], j) /\ ~Runs(proc'[s], j)
  BY DEF BeginsAlone, Begins, Runs
<1>10. CASE r = q
  <2>1. j = proc[p].number  BY <1>7, <1>9, <1>10
  <2>2. /\ job[j] \notin Held
        /\ \A s \in Procs : s # p => ~Begins(proc[s], j) /\ ~Runs(proc[s], j)
    BY <1>8, <2>1 DEF StartInv, BeginsAlone
  <2> QED  BY <1>2, <1>7, <1>9, <1>10, <2>2
<1>11. CASE r # q
  <2>1. r # p /\ Begins(proc[r], j)  BY <1>7, <1>9, <1>11
  <2>2. /\ job[j] \notin Held
        /\ \A s \in Procs : s # r => ~Begins(proc[s], j) /\ ~Runs(proc[s], j)
    BY <2>1 DEF StartInv, BeginsAlone
  <2>3. j # proc[p].number  BY <1>8, <2>1, <2>2
  <2> QED  BY <1>2, <1>7, <1>9, <2>2, <2>3
<1> QED  BY <1>10, <1>11

LEMMA DispatchStarts ==
    ASSUME StartInv, NEW p \in Procs, Dispatch(p)
    PROVE  BeginsAlone'
<1> USE DEF StartPCs, HoldPCs
<1>1. Raised(p) \in {"fail_job", "idle"}  BY DEF Raised
<1>2. CASE ClaimIssue(p)  BY <1>1, <1>2, StartsIssue DEF ClaimIssue
<1>3. CASE Exec(p)
  <2>1. \E pc \in {"rollback", "create"} : Step(p, "exec", pc)  BY <1>3 DEF Exec
  <2> QED  BY <2>1, StartsStep DEF Step
<1>4. CASE Create(p)
  <2>1. CASE Step(p, "create", "rollback")  BY <2>1, StartsStep DEF Step
  <2> QED  BY <1>4, <2>1, CreateStarts DEF Create, Inserts
<1>5. CASE Track(p)  BY <1>5, TrackStarts
<1>6. CASE Rollback(p)
  <2>1. (IF IsTask(p) THEN "unwind" ELSE "idle") \in {"unwind", "idle"}  OBVIOUS
  <2> QED  BY <1>1, <1>6, <2>1, StartsIssue DEF Rollback
<1> QED  BY <1>2, <1>3, <1>4, <1>5, <1>6 DEF Dispatch

\* A resume is scheduled for a job that is held, or was on its way to one.
LEMMA ScheduleStarts ==
    ASSUME StartInv, NEW p \in Procs, NEW kind \in {"answer", "choice"}, NEW j \in Jobs, Schedule(p, kind, j),
           Runs(proc[p], j) \/ job[j] \in Held
    PROVE  BeginsAlone'
<1>1. job' = job  BY DEF Schedule
<1>2. CASE Goto(p, "idle")
  <2>1. proc'[p] = Idle /\ \A q \in Procs : q # p => proc'[q] = proc[q]
    BY <1>2, GotoFields DEF StartInv
  <2> QED  BY <1>1, <2>1, IdleRunsNothing, OneMoves
<1>3. CASE proc' = [proc EXCEPT ![p] = Coroutine("prior_job", kind, j)]
  <2> DEFINE new == Coroutine("prior_job", kind, j)
  <2>1. new.pc = "prior_job" /\ new.kind = kind /\ new.job = j
    <3>1. "prior_job" \in PCs /\ j \in 0..MaxJobs /\ kind \in RequestKinds \cup TaskKinds
      BY BoundsAssumption DEF PCs, Jobs, TaskKinds
    <3> QED  BY <3>1, NewCoroutine
  <2>2. proc \in [Procs -> Coroutines]  BY ShapeParts DEF StartInv
  <2>3. proc'[p] = new /\ \A q \in Procs : q # p => proc'[q] = proc[q]  BY <1>3, <2>2
  <2> HIDE DEF new
  <2>4. \A i \in Jobs : /\ ~Begins(proc'[p], i)
                        /\ Runs(proc'[p], i) => Runs(proc[p], i) \/ job[i] \in Held
    BY <2>1, <2>3 DEF Begins, Runs
  <2> QED  BY <1>1, <2>3, <2>4, OneMoves
<1> QED  BY <1>2, <1>3 DEF Schedule

LEMMA ReplyStarts ==
    ASSUME StartInv, NEW p \in Procs, Reply(p) \/ Continue(p)
    PROVE  BeginsAlone'
<1>1. CASE Record(p)
  <2>1. Goto(p, "count") /\ At(p, "record") /\ job' = job  BY <1>1 DEF Record
  <2> QED  BY <2>1, StartsStep DEF StartPCs, HoldPCs
<1>2. CASE CountPending(p)
  <2>1. \E pc \in {"guard", "idle"} : Step(p, "count", pc)  BY <1>2 DEF CountPending
  <2> QED  BY <2>1, StartsStep DEF Step, StartPCs, HoldPCs
<1>3. CASE Guard(p)
  <2>1. PICK pc \in {"resume", "find", "idle"} :
           /\ Step(p, "guard", pc)
           /\ pc = "resume" => job[proc[p].job] = "awaiting_input"
    BY <1>3 DEF Guard
  <2>2. CASE pc # "resume"  BY <2>1, <2>2, StartsStep DEF Step, StartPCs, HoldPCs
  <2>3. CASE pc = "resume"
    <3>1. /\ proc'[p].pc = "resume" /\ proc'[p].job = proc[p].job /\ job' = job
          /\ \A q \in Procs : q # p => proc'[q] = proc[q]
      BY <2>1, <2>3, GotoFields DEF StartInv, Step
    <3>2. \A j \in Jobs : ~Begins(proc'[p], j) /\ (Runs(proc'[p], j) => job[j] \in Held)
      BY <2>1, <2>3, <3>1 DEF Begins, Runs, StartPCs, Held
    <3> QED  BY <3>1, <3>2, OneMoves
  <2> QED  BY <2>2, <2>3
<1>4. CASE Resume(p)
  <2>1. proc[p].pc = "resume" /\ Schedule(p, "answer", proc[p].job)  BY <1>4 DEF Resume, At
  <2>2. proc[p].job \in Jobs  BY <2>1, AtWork DEF JoblessPCs, StartInv
  <2>3. Runs(proc[p], proc[p].job)  BY <2>1 DEF Runs
  <2> QED  BY <2>1, <2>2, <2>3, ScheduleStarts
<1>5. CASE Find(p)
  <2>1. ASSUME NEW j \in Jobs, job[j] = "awaiting_input", Schedule(p, "answer", j) PROVE BeginsAlone'
    BY <2>1, ScheduleStarts DEF Held
  <2>2. ASSUME NEW pc \in {"claim_issue", "idle"}, Step(p, "find", pc) PROVE BeginsAlone'
    BY <2>2, StartsStep DEF Step, StartPCs, HoldPCs
  <2> QED  BY <1>5, <2>1, <2>2 DEF Find
<1>6. CASE Continue(p)
  <2>1. proc[p].pc = "continue" /\ Schedule(p, "choice", proc[p].job)  BY <1>6 DEF Continue, At
  <2>2. proc[p].job \in Jobs  BY <2>1, AtWork DEF JoblessPCs, StartInv
  <2>3. Runs(proc[p], proc[p].job)  BY <2>1 DEF Runs
  <2> QED  BY <2>1, <2>2, <2>3, ScheduleStarts
<1> QED  BY <1>1, <1>2, <1>3, <1>4, <1>5, <1>6 DEF Reply

\* A coroutine that was cancelled does no more than it did.
LEMMA CancelledRunsNoMore ==
    ASSUME NEW c \in Coroutines, NEW draining, NEW j
    PROVE  /\ ~Begins(AfterCancel(c, draining), j)
           /\ Runs(AfterCancel(c, draining), j) => Runs(c, j)
BY AfterCancelFields DEF Begins, Runs, StartPCs, HoldPCs

LEMMA CancelStarts ==
    ASSUME StartInv, NEW p \in Procs, Cancel(p)
    PROVE  BeginsAlone'
<1> USE DEF StartPCs, HoldPCs
<1>1. CASE CancelTask(p)
  <2>1. proc \in [Procs -> Coroutines]  BY ShapeParts DEF StartInv
  <2> DEFINE t == byJob[proc[p].job]
             to == IF t = 0 THEN "cancel_job" ELSE "cancel_wait"
  <2>2. proc' = [q \in Procs |-> IF q = p THEN [proc[p] EXCEPT !.pc = to, !.number = t]
                                  ELSE IF q = t THEN AfterCancel(proc[q], orch = "draining")
                                  ELSE proc[q]]
    BY <1>1 DEF CancelTask
  <2>8. to \in {"cancel_job", "cancel_wait"}  OBVIOUS
  <2> HIDE DEF to, t
  <2>3. proc'[p].pc = to  BY <2>1, <2>2 DEF Coroutines
  <2>4. \A j \in Jobs : ~Begins(proc'[p], j) /\ ~Runs(proc'[p], j)  BY <2>3, <2>8 DEF Begins, Runs
  <2>5. \A q \in Procs : q # p => proc'[q] \in {proc[q], AfterCancel(proc[q], orch = "draining")}  BY <2>2
  <2>6. \A q \in Procs, j \in Jobs : /\ Begins(proc'[q], j) => Begins(proc[q], j)
                                     /\ Runs(proc'[q], j) => Runs(proc[q], j)
    BY <2>1, <2>4, <2>5, CancelledRunsNoMore
  <2>7. job' = job  BY <1>1 DEF CancelTask
  <2> QED  BY <2>6, <2>7, NoMore
<1>2. CASE CancelWait(p) \/ CancelRecheck(p)
  <2>1. PICK at \in {"cancel_wait", "cancel_recheck"}, pc \in {"cancel_recheck", "cancel_job", "idle"} : Step(p, at, pc)
    BY <1>2 DEF CancelWait, CancelRecheck
  <2> QED  BY <2>1, StartsStep DEF Step
<1>3. CASE CancelJob(p)  BY <1>3, StartsJob DEF CancelJob, UpdateJob, JobWrites, Held
<1>4. CASE CancelIssue(p)  BY <1>4, StartsIssue DEF CancelIssue
<1>5. CASE CancelPurge(p)  BY <1>5, StartsStep DEF CancelPurge, Purge
<1> QED  BY <1>1, <1>2, <1>3, <1>4, <1>5 DEF Cancel

(***************************************************************************)
(* A request begins: only a continue may come to run a job, a paused one.  *)
(***************************************************************************)
LEMMA BeginStarts ==
    ASSUME StartInv, NEW p \in Procs, NEW kind, NEW c, Begin(p, kind, c),
           c.pc \in {"claim_issue", "count", "record", "cancel_task", "continue"},
           c.pc = "continue" => c.job \in Jobs /\ job[c.job] \in Held
    PROVE  BeginsAlone'
<1>1. proc' = [proc EXCEPT ![p] = c] /\ job' = job  BY DEF Begin
<1>2. proc \in [Procs -> Coroutines]  BY ShapeParts DEF StartInv
<1>3. proc'[p] = c /\ \A q \in Procs : q # p => proc'[q] = proc[q]  BY <1>1, <1>2
<1>4. \A j \in Jobs : ~Begins(proc'[p], j) /\ (Runs(proc'[p], j) => job[j] \in Held)
  BY <1>3 DEF Begins, Runs, StartPCs, HoldPCs
<1> QED  BY <1>1, <1>3, <1>4, OneMoves

LEMMA ArrivalStarts ==
    ASSUME StartInv, NEW p \in Procs, Arrival(p)
    PROVE  BeginsAlone'
<1>1. CASE BeginTriage(p)
  <2>1. Begin(p, "triage", Coroutine("claim_issue", "triage", 0))  BY <1>1 DEF BeginTriage
  <2>2. Coroutine("claim_issue", "triage", 0).pc = "claim_issue"  BY DEF Coroutine
  <2> QED  BY <2>1, <2>2, BeginStarts
<1>2. CASE BeginContinue(p)
  <2>1. PICK j \in Jobs : job[j] = "paused" /\ Begin(p, "continue", Coroutine("continue", "continue", j))
    BY <1>2 DEF BeginContinue
  <2> DEFINE c == Coroutine("continue", "continue", j)
  <2>2. c.pc = "continue" /\ c.job = j  BY DEF Coroutine
  <2>3. Begin(p, "continue", c)  BY <2>1
  <2> HIDE DEF c
  <2> QED  BY <2>1, <2>2, <2>3, BeginStarts DEF Held
<1>3. CASE BeginReply(p)
  <2>0. PICK j \in Jobs, ch \in Channels :
           \E n : Begin(p, "reply", [Coroutine("record", "reply", j) EXCEPT !.channel = ch, !.number = n])
    BY <1>3 DEF BeginReply
  <2>1. PICK n : Begin(p, "reply", [Coroutine("record", "reply", j) EXCEPT !.channel = ch, !.number = n])
    BY <2>0
  <2> DEFINE c == [Coroutine("record", "reply", j) EXCEPT !.channel = ch, !.number = n]
  <2>2. c.pc = "record"  BY DEF Coroutine
  <2>3. Begin(p, "reply", c)  BY <2>1
  <2> HIDE DEF c
  <2> QED  BY <2>2, <2>3, BeginStarts
<1>4. CASE BeginComment(p)
  <2> DEFINE c == [Coroutine("count", "comment", 0) EXCEPT !.channel = "inbound"]
  <2>1. c.pc = "count"  BY DEF Coroutine
  <2>2. Begin(p, "comment", c)  BY <1>4 DEF BeginComment
  <2> HIDE DEF c
  <2> QED  BY <2>1, <2>2, BeginStarts
<1>5. CASE BeginCancel(p)
  <2>1. PICK j \in Jobs : Begin(p, "cancel", Coroutine("cancel_task", "cancel", j))  BY <1>5 DEF BeginCancel
  <2>2. Coroutine("cancel_task", "cancel", j).pc = "cancel_task"  BY DEF Coroutine
  <2> QED  BY <2>1, <2>2, BeginStarts
<1> QED  BY <1>1, <1>2, <1>3, <1>4, <1>5 DEF Arrival

\* The process stops and boots; a boot starts every job it takes back once.
LEMMA ProcessStarts ==
    ASSUME StartInv, Process \/ \E p \in Procs : DrainDeadline(p)
    PROVE  BeginsAlone'
<1>1. proc \in [Procs -> Coroutines] /\ job \in [Jobs -> JobStatuses \cup {"absent"}]
  BY ShapeParts DEF StartInv
<1>2. CASE Drain \/ \E p \in Procs : DrainDeadline(p)
  <2>1. job' = job  BY <1>2 DEF Drain, DrainDeadline
  <2>2. \A q \in Procs : proc'[q] \in {proc[q], AfterCancel(proc[q], TRUE)}
    BY <1>1, <1>2 DEF Drain, DrainDeadline
  <2>3. \A q \in Procs, j \in Jobs : /\ Begins(proc'[q], j) => Begins(proc[q], j)
                                     /\ Runs(proc'[q], j) => Runs(proc[q], j)
    BY <1>1, <2>2, CancelledRunsNoMore
  <2> QED  BY <2>1, <2>3, NoMore
<1>3. CASE Exit \/ Crash
  <2>1. job' = job /\ \A q \in Procs : proc'[q] = Idle  BY <1>3 DEF Exit, Crash, ProcessEnds
  <2> QED  BY <2>1, IdleRunsNothing, NoMore
<1>4. CASE BootDecide
  <2>1. PICK orphaned : job' = [j \in Jobs |-> IF j \in orphaned THEN "failed" ELSE job[j]]
    BY <1>4 DEF BootDecide
  <2>2. \A j \in Jobs : job'[j] \in Held => job[j] \in Held  BY <2>1 DEF Held
  <2>3. proc' = proc  BY <1>4 DEF BootDecide
  <2> QED  BY <2>2, <2>3, NoMore
<1>5. CASE BootStart
  <2> DEFINE Task(p) == Coroutine("slot", IF Resumable(p) THEN "restart" ELSE "fresh", p)
  <2>1. job' = job /\ \A p \in Procs : proc'[p] = (IF p \notin boot.keep THEN Idle ELSE Task(p))
    BY <1>5 DEF BootStart
  <2>2. \A p \in Procs : Task(p).pc = "slot" /\ Task(p).job = p  BY DEF Coroutine
  <2> HIDE DEF Task
  <2>3. \A p \in Procs, j \in Jobs : /\ Begins(proc'[p], j) => p = j /\ j \in boot.keep
                                     /\ Runs(proc'[p], j) => p = j
    BY <2>1, <2>2, IdleRunsNothing DEF Begins, Runs
  <2>4. \A j \in Jobs : j \in boot.keep => job[j] \notin Held
    BY ShapeParts DEF StartInv, Held, InFlightStatuses
  <2> SUFFICES ASSUME NEW p \in Procs, NEW j \in Jobs, Begins(proc'[p], j)
               PROVE  /\ job'[j] \notin Held
                      /\ \A q \in Procs : q # p => ~Begins(proc'[q], j) /\ ~Runs(proc'[q], j)
    BY DEF BeginsAlone, Begins, Runs
  <2> QED  BY <2>1, <2>3, <2>4
<1> QED  BY <1>2, <1>3, <1>4, <1>5 DEF Process

LEMMA StartInit == Init => BeginsAlone
<1> SUFFICES ASSUME Init PROVE BeginsAlone
  OBVIOUS
<1>1. \A p \in Procs : proc[p] = Idle  BY DEF Init
<1> QED  BY <1>1, IdleRunsNothing DEF BeginsAlone

LEMMA StartNext ==
    ASSUME StartInv, [Next]_vars
    PROVE  StartInv'
<1>1. ShapeInv'  BY ShapeStep DEF StartInv
<1>2. BeginsAlone'
  <2>1. ASSUME NEW p \in Procs, Work(p) PROVE BeginsAlone'
    BY <2>1, ReadStatusStarts, DispatchStarts, BeforeTheRunStarts, TheRunStarts, ReplyStarts, CancelStarts DEF Work
  <2>2. ASSUME NEW p \in Procs, Arrival(p) PROVE BeginsAlone'  BY <2>2, ArrivalStarts
  <2>3. ASSUME Process \/ \E p \in Procs : DrainDeadline(p) PROVE BeginsAlone'  BY <2>3, ProcessStarts
  <2>4. CASE UNCHANGED vars
    <3>1. proc' = proc /\ job' = job  BY <2>4 DEF vars
    <3> QED  BY <3>1, NoMore
  <2> QED  BY <2>1, <2>2, <2>3, <2>4 DEF Next
<1> QED  BY <1>1, <1>2 DEF StartInv

(***************************************************************************)
(* StartedOnce, for any number of jobs, requests and coroutines and with   *)
(* every fault: a graph is begun, or gone on with after a restart, by one  *)
(* task, and nothing resumes the job while that task is at it.  What the   *)
(* idempotency guards leave to two resumes of one job is all there is.     *)
(***************************************************************************)
THEOREM GraphStartedOnce == Spec => []StartedOnce
<1>1. Init => StartInv  BY ShapeInit, StartInit DEF StartInv
<1>2. StartInv /\ [Next]_vars => StartInv'  BY StartNext
<1>3. StartInv => StartedOnce
  <2> SUFFICES ASSUME StartInv, NEW j \in Jobs, NEW p \in Procs, NEW q \in Procs, p # q,
                      Executes(p, j), Executes(q, j), proc[p].kind \notin {"answer", "choice"}
               PROVE  FALSE
    BY DEF StartedOnce
  <2>1. Begins(proc[p], j)  BY DEF Executes, IsTask, TaskKinds, Begins, StartPCs
  <2>2. Runs(proc[q], j)  BY DEF Executes, Runs, StartPCs
  <2> QED  BY <2>1, <2>2 DEF StartInv, BeginsAlone
<1> QED  BY <1>1, <1>2, <1>3, PTL DEF Spec
=============================================================================
