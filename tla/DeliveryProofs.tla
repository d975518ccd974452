--------------------------- MODULE DeliveryProofs ---------------------------
(***************************************************************************)
(* What Delivery promises of the rows, proved for every set of pull        *)
(* requests and jobs, every order of the facts and every number of faults: *)
(* rows say what was true, keep the meaning of their status, never go back *)
(* in time, and a merge reaches the issue of its job.                      *)
(***************************************************************************)
EXTENDS Delivery, TLAPS

\* What the forge says of a pull request is a fact.
ForgeSound == \A p \in PRs : forge[p].state # "none" => Snapshot(p) \in facts

FactsSound == \A f \in facts : f.state # "none" /\ f.at # 0 /\ forge[f.pr].state # "none"

\* A row links a pull request that exists, and what it says of it is a fact.
RowSound(j) ==
    /\ job[j].url # NoPR => forge[job[j].url].state # "none"
    /\ job[j].at # 0 => \E f \in facts : f.state = job[j].delivery /\ f.at = job[j].at
    /\ job[j].status = "pr_merged" => job[j].delivery = "merged"
    /\ job[j].status = "pr_closed" => job[j].delivery = "closed"

\* A recorder records a fact, and closes issues last.
RecordSound(r) ==
    /\ pc[r] # "idle" => fact[r] \in facts
    /\ pc[r] \in {"idle", "match"} => closing[r] = {}

\* The sweep asks about pull requests that exist, and lists facts.
SweepSound ==
    /\ \A row \in sweep.rows : forge[row.pr].state # "none"
    /\ sweep.page \subseteq facts

(***************************************************************************)
(* The inductive invariant.                                                *)
(***************************************************************************)
IInv ==
    /\ TypeOK /\ ForgeSound /\ FactsSound /\ SweepSound /\ MergeClosesIssue
    /\ \A j \in Jobs : RowSound(j)
    /\ \A r \in Recorders : RecordSound(r)

-----------------------------------------------------------------------------
(* decide, apart from where it is called.                                  *)

\* Every status a job may follow to, and from where.
LEMMA AlignedSound ==
    ASSUME NEW s \in JobStatuses, NEW d \in States
    PROVE  /\ Aligned(s, d) \in JobStatuses
           /\ Aligned(s, d) = "pr_merged" => s = "pr_merged" \/ d = "merged"
           /\ Aligned(s, d) = "pr_closed" => d = "closed" \/ (s = "pr_closed" /\ d = "none")
<1>1. CASE \E t \in JobStatuses : <<s, d, t>> \in Follows
  <2>1. Aligned(s, d) \in JobStatuses /\ <<s, d, Aligned(s, d)>> \in Follows
    BY <1>1, Zenon DEF Aligned
  <2>2. QED  BY <2>1 DEF Follows
<1>2. CASE ~\E t \in JobStatuses : <<s, d, t>> \in Follows
  <2>1. Aligned(s, d) = s
    BY <1>2, Zenon DEF Aligned
  <2>2. {"completed", "pr_merged"} \subseteq JobStatuses
    BY DEF JobStatuses, ActiveStatuses, TerminalStatuses
  <2>3. s = "pr_closed" => d \notin {"merged", "pr_open"}
    BY <1>2, <2>2 DEF Follows
  <2>4. QED  BY <2>1, <2>3 DEF States
<1>3. QED  BY <1>1, <1>2

\* What the write of one fact leaves of a row, against the row and the fact.
Applied(row, f, new) ==
    /\ new \in JobRow
    /\ new.url \in {row.url, f.pr} /\ new.url # NoPR
    /\ \/ new.at = f.at /\ new.delivery = f.state
       \/ new.at = row.at /\ new.delivery = row.delivery
    /\ new.status = "pr_merged" => new.delivery = "merged"
    /\ new.status = "pr_closed" => new.delivery = "closed"
    /\ new.delivery # "merged" => row.delivery # "merged" /\ new.at >= row.at

\* What one fact makes of one row.
LEMMA DecideSound ==
    ASSUME NEW row \in JobRow, NEW f \in Facts, f.state # "none", f.at # 0, NEW advance \in BOOLEAN,
           row.status = "pr_merged" => row.delivery = "merged",
           row.status = "pr_closed" => row.delivery = "closed"
    PROVE  Applied(row, f, Decide(row, f, advance))
<1> DEFINE new == Decide(row, f, advance)
<1>1. row.delivery \in States /\ row.status \in JobStatuses /\ row.at \in Times /\ row.url \in PRs \cup {NoPR}
  BY DEF JobRow
<1>2. f.state \in States /\ f.at \in Times /\ f.pr \in PRs /\ NoPR \notin PRs
  BY DeliveryAssumption DEF Facts, DeliveryAssumption
<1>3. CASE row.url \notin {NoPR, f.pr}
  <2>1. new = row
    BY <1>3 DEF Decide
  <2> HIDE DEF new
  <2>2. Applied(row, f, new)
    BY <1>1, <1>3, <2>1, DeliveryAssumption DEF Applied, Times, DeliveryAssumption
  <2>3. QED  BY <2>2 DEF new
<1>4. CASE row.url \in {NoPR, f.pr}
  <2> DEFINE hit == Supersedes(row, f, advance)
             delivery == IF hit THEN f.state ELSE row.delivery
             date == IF hit THEN f.at ELSE row.at
  <2>1. new = [status |-> Aligned(row.status, delivery), url |-> f.pr, delivery |-> delivery, at |-> date]
    BY <1>4, Zenon DEF Decide
  <2>2. delivery \in States /\ date \in Times
    BY <1>1, <1>2
  <2>3. /\ delivery # "merged" => row.delivery # "merged" /\ date >= row.at
        /\ row.delivery = "merged" => delivery = "merged"
    BY <1>1, <1>2, DeliveryAssumption DEF Supersedes, Times, DeliveryAssumption
  <2>4. delivery # "none" \/ (delivery = row.delivery /\ date = row.at)
    BY <1>2
  <2>5. /\ new.status = Aligned(row.status, delivery) /\ new.url = f.pr
        /\ new.delivery = delivery /\ new.at = date
    BY <2>1
  <2>6. /\ new.status \in JobStatuses
        /\ new.status = "pr_merged" => row.status = "pr_merged" \/ delivery = "merged"
        /\ new.status = "pr_closed" => delivery = "closed" \/ (row.status = "pr_closed" /\ delivery = "none")
    BY <1>1, <2>2, <2>5, AlignedSound
  <2>7. new \in JobRow
    BY <1>2, <2>1, <2>2, <2>5, <2>6 DEF JobRow
  <2>8. \/ new.at = f.at /\ new.delivery = f.state
        \/ new.at = row.at /\ new.delivery = row.delivery
    BY <2>5
  <2> HIDE DEF new, hit, delivery, date
  <2>9. Applied(row, f, new)
    BY <1>2, <2>3, <2>4, <2>5, <2>6, <2>7, <2>8 DEF Applied
  <2>10. QED  BY <2>9 DEF new
<1>5. QED  BY <1>3, <1>4

\* A recorder applies facts to the rows of the table.
LEMMA AppliedRow ==
    ASSUME TypeOK, FactsSound, NEW k \in Jobs, RowSound(k), NEW f \in facts, NEW advance \in BOOLEAN
    PROVE  Applied(job[k], f, Decide(job[k], f, advance))
<1>1. job[k] \in JobRow /\ f \in Facts
  BY DEF TypeOK
<1>2. f.state # "none" /\ f.at # 0
  BY DEF FactsSound
<1>3. /\ job[k].status = "pr_merged" => job[k].delivery = "merged"
      /\ job[k].status = "pr_closed" => job[k].delivery = "closed"
  BY DEF RowSound
<1>4. QED
  BY <1>1, <1>2, <1>3, DecideSound

-----------------------------------------------------------------------------
(* Types. *)

\* The rows a job's own writes leave are rows.
LEMMA LinkTypes ==
    ASSUME TypeOK, NEW j \in Jobs
    PROVE  /\ \A s \in JobStatuses : [job[j] EXCEPT !.status = s] \in JobRow
           /\ \A s \in {"running", "completed", "failed"}, u \in PRs \cup {NoPR} :
                  WithUrl(job[j], s, u) \in JobRow
           /\ {"running", "completed", "failed"} \subseteq JobStatuses
<1>1. job[j] \in JobRow
  BY DEF TypeOK
<1>2. {"running", "completed", "failed"} \subseteq JobStatuses
  BY DEF JobStatuses, ActiveStatuses, TerminalStatuses
<1>3. ASSUME NEW s \in JobStatuses PROVE [job[j] EXCEPT !.status = s] \in JobRow
  BY <1>1 DEF JobRow
<1>4. ASSUME NEW s \in {"running", "completed", "failed"}, NEW u \in PRs \cup {NoPR}
      PROVE  WithUrl(job[j], s, u) \in JobRow
  BY <1>1, <1>2 DEF WithUrl, JobRow, States
<1>5. QED  BY <1>2, <1>3, <1>4

\* A pass, and what a new value of one of its fields makes of it.
LEMMA PassTypes ==
    /\ NoPass \in Pass
    /\ \A s \in Pass :
          /\ \A v \in {"idle", "align", "track", "unlinked", "page"} : [s EXCEPT !.pc = v] \in Pass
          /\ \A v \in BOOLEAN : /\ [s EXCEPT !.full = v] \in Pass
                                /\ [s EXCEPT !.stopped = v] \in Pass
                                /\ [s EXCEPT !.short = v] \in Pass
          /\ \A v \in Nat : /\ [s EXCEPT !.left = v] \in Pass
                            /\ [s EXCEPT !.writes = s.writes + v] \in Pass
          /\ \A v \in SUBSET Jobs : [s EXCEPT !.align = v] \in Pass
          /\ \A v \in SUBSET Rows : [s EXCEPT !.rows = v] \in Pass
          /\ \A v \in SUBSET Facts : [s EXCEPT !.page = v] \in Pass
          /\ \A v \in SUBSET PRs : [s EXCEPT !.done = v] \in Pass
<1>1. NoPass \in Pass
  BY DEF NoPass, Pass
<1>2. ASSUME NEW s \in Pass, NEW v \in {"idle", "align", "track", "unlinked", "page"}
      PROVE  [s EXCEPT !.pc = v] \in Pass
  BY DEF Pass
<1>3. ASSUME NEW s \in Pass, NEW v \in BOOLEAN
      PROVE  /\ [s EXCEPT !.full = v] \in Pass
             /\ [s EXCEPT !.stopped = v] \in Pass
             /\ [s EXCEPT !.short = v] \in Pass
  BY DEF Pass
<1>4. ASSUME NEW s \in Pass, NEW v \in Nat
      PROVE  [s EXCEPT !.left = v] \in Pass /\ [s EXCEPT !.writes = s.writes + v] \in Pass
  BY DEF Pass
<1>5. ASSUME NEW s \in Pass, NEW v \in SUBSET Jobs PROVE [s EXCEPT !.align = v] \in Pass
  BY DEF Pass
<1>6. ASSUME NEW s \in Pass, NEW v \in SUBSET Rows PROVE [s EXCEPT !.rows = v] \in Pass
  BY DEF Pass
<1>7. ASSUME NEW s \in Pass, NEW v \in SUBSET Facts PROVE [s EXCEPT !.page = v] \in Pass
  BY DEF Pass
<1>8. ASSUME NEW s \in Pass, NEW v \in SUBSET PRs PROVE [s EXCEPT !.done = v] \in Pass
  BY DEF Pass
<1>9. QED  BY <1>1, <1>2, <1>3, <1>4, <1>5, <1>6, <1>7, <1>8

\* The budget of requests is never overdrawn.
LEMMA SpendTypes ==
    ASSUME sweep \in Pass
    PROVE  /\ \A n \in {1, 2} : sweep.full \/ sweep.left >= n => Spend(n) \in Nat
           /\ \A p \in PRs : sweep.full \/ sweep.left >= Cost(p) => Spend(Cost(p)) \in Nat
<1>1. sweep.left \in Nat
  BY DEF Pass
<1>2. QED  BY <1>1 DEF Spend, Cost

\* Each step leaves the rows rows.
LEMMA JobTypes ==
    ASSUME IInv, [Next]_vars
    PROVE  job' \in [Jobs -> JobRow]
<1>a. TypeOK
  BY DEF IInv
<1>b. FactsSound /\ (\A i \in Recorders : RecordSound(i)) /\ \A i \in Jobs : RowSound(i)
  BY DEF IInv
<1>. USE <1>a DEF TypeOK, world, sweeping, recorder, history
<1>1. ASSUME NEW p \in PRs, NEW s \in States, ForgeMove(p, s)
     PROVE  job' \in [Jobs -> JobRow]
  BY <1>1 DEF ForgeMove
<1>2. ASSUME NEW j \in Jobs, NEW p \in PRs, StoreUrl(j, p) PROVE job' \in [Jobs -> JobRow]
  <2>1. WithUrl(job[j], "running", p) \in JobRow
    BY LinkTypes
  <2>2. QED  BY <1>2, <2>1 DEF StoreUrl
<1>3. ASSUME NEW j \in Jobs, NEW s \in {"completed", "failed"}, NEW u \in PRs \cup {NoPR}, Finish(j, s, u)
     PROVE  job' \in [Jobs -> JobRow]
  <2>1. WithUrl(job[j], s, u) \in JobRow
    BY LinkTypes
  <2>2. QED  BY <1>3, <2>1 DEF Finish
<1>4. ASSUME NEW j \in Jobs, FinishRaised(j) PROVE job' \in [Jobs -> JobRow]
  <2>1. [job[j] EXCEPT !.status = "failed"] \in JobRow
    BY LinkTypes
  <2>2. job' = [job EXCEPT ![j] = [job[j] EXCEPT !.status = "failed"]]
    BY <1>4 DEF FinishRaised
  <2>3. QED  BY <2>1, <2>2
<1>5. ASSUME NEW i \in Issues, NEW s \in IssueStatuses, IssueMove(i, s)
     PROVE  job' \in [Jobs -> JobRow]
  BY <1>5 DEF IssueMove
<1>6. ASSUME NEW f \in Facts, Webhook(f) PROVE job' \in [Jobs -> JobRow]
  BY <1>6 DEF Webhook, Begin
<1>7. ASSUME NEW r \in Recorders, Match(r) PROVE job' \in [Jobs -> JobRow]
  BY <1>7 DEF Match, Return, Idle
<1>8. ASSUME NEW r \in Recorders, NEW j \in Jobs, Apply(r, j)
     PROVE  job' \in [Jobs -> JobRow]
  <2>1. fact[r] \in facts /\ RowSound(j)
    BY <1>8, <1>b DEF Apply, RecordSound
  <2>2. Applied(job[j], fact[r], Decide(job[j], fact[r], r = "webhook"))
    BY ONLY <1>a, <1>b, <2>1, j \in Jobs, (r = "webhook") \in BOOLEAN, AppliedRow
  <2>3. Decide(job[j], fact[r], r = "webhook") \in JobRow
    BY <2>2 DEF Applied
  <2>4. QED  BY <1>8, <2>3 DEF Apply
<1>9. ASSUME NEW r \in Recorders, NEW i \in Issues, NEW saw \in IssueStatuses, CloseIssue(r, i, saw)
     PROVE  job' \in [Jobs -> JobRow]
  BY <1>9 DEF CloseIssue, Return, Idle
<1>10. ASSUME NEW r \in Recorders, RecordFails(r) PROVE job' \in [Jobs -> JobRow]
  BY <1>10 DEF RecordFails, Idle
<1>11. ASSUME NEW full \in Passes, StartPass(full) PROVE job' \in [Jobs -> JobRow]
  BY <1>11 DEF StartPass
<1>12. ASSUME NEW j \in Jobs, AlignStatus(j) PROVE job' \in [Jobs -> JobRow]
  <2>1. Aligned(job[j].status, job[j].delivery) \in JobStatuses
    BY AlignedSound DEF JobRow
  <2>2. [job[j] EXCEPT !.status = Aligned(job[j].status, job[j].delivery)] \in JobRow
    BY <2>1, LinkTypes
  <2>3. job' = [job EXCEPT ![j] = [job[j] EXCEPT !.status = Aligned(job[j].status, job[j].delivery)]]
    BY <1>12 DEF AlignStatus
  <2>4. QED  BY <2>2, <2>3
<1>13. CASE ListPass
  BY <1>13 DEF ListPass
<1>14. CASE TrackedDone
  BY <1>14 DEF TrackedDone
<1>15. CASE ListUnlinked
  BY <1>15 DEF ListUnlinked, Snapshot
<1>16. CASE PassDone
  BY <1>16 DEF PassDone
<1>17. ASSUME NEW row \in Rows, NEW low \in BOOLEAN, Answered(row, low)
     PROVE  job' \in [Jobs -> JobRow]
  BY <1>17 DEF Answered, LookAt, Begin, Snapshot
<1>18. ASSUME NEW row \in Rows, Unanswered(row) PROVE job' \in [Jobs -> JobRow]
  BY <1>18 DEF Unanswered, LookAt
<1>19. ASSUME NEW row \in Rows, Refused(row) PROVE job' \in [Jobs -> JobRow]
  BY <1>19 DEF Refused, LookAt
<1>20. ASSUME NEW f \in Facts, RecordListed(f) PROVE job' \in [Jobs -> JobRow]
  BY <1>20 DEF RecordListed, Begin
<1>21. CASE Crash
  BY <1>21 DEF Crash
<1>22. CASE UNCHANGED vars
  BY <1>22 DEF vars
<1>. HIDE DEF TypeOK, world, sweeping, recorder, history
<1>23. QED
  BY <1>1, <1>2, <1>3, <1>4, <1>5, <1>6, <1>7, <1>8, <1>9, <1>10, <1>11, <1>12, <1>13,
     <1>14, <1>15, <1>16, <1>17, <1>18, <1>19, <1>20, <1>21, <1>22 DEF Next, JobStep,
     RecordStep, SweepStep, Look

\* Each step leaves the pass a pass.
LEMMA SweepTypes ==
    ASSUME TypeOK, [Next]_vars
    PROVE  sweep' \in Pass
<1>b. sweep \in Pass /\ wrote \in Nat
  BY DEF TypeOK
<1>c. forge \in [PRs -> [state : States, at : Times]]
  BY DEF TypeOK
<1>. USE <1>b DEF world, sweeping, recorder, history
<1>1. ASSUME NEW p \in PRs, NEW s \in States, ForgeMove(p, s) PROVE sweep' \in Pass
  BY <1>1 DEF ForgeMove
<1>2. ASSUME NEW j \in Jobs, NEW p \in PRs, StoreUrl(j, p) PROVE sweep' \in Pass
  BY <1>2 DEF StoreUrl
<1>3. ASSUME NEW j \in Jobs, NEW s \in {"completed", "failed"}, NEW u \in PRs \cup {NoPR}, Finish(j, s, u)
     PROVE  sweep' \in Pass
  BY <1>3 DEF Finish
<1>4. ASSUME NEW j \in Jobs, FinishRaised(j) PROVE sweep' \in Pass
  BY <1>4 DEF FinishRaised
<1>5. ASSUME NEW i \in Issues, NEW s \in IssueStatuses, IssueMove(i, s)
     PROVE  sweep' \in Pass
  BY <1>5 DEF IssueMove
<1>6. ASSUME NEW f \in Facts, Webhook(f) PROVE sweep' \in Pass
  BY <1>6 DEF Webhook, Begin
<1>7. ASSUME NEW r \in Recorders, Match(r) PROVE sweep' \in Pass
  <2>1. sweep' = sweep \/ sweep' = [sweep EXCEPT !.writes = sweep.writes + 0]
    BY <1>7 DEF Match, Return, Idle
  <2>2. [sweep EXCEPT !.writes = sweep.writes + 0] \in Pass
    BY ONLY <1>b, PassTypes, 0 \in Nat
  <2>3. QED  BY <2>1, <2>2
<1>8. ASSUME NEW r \in Recorders, NEW j \in Jobs, Apply(r, j) PROVE sweep' \in Pass
  <2> DEFINE rows == wrote + (IF r = "sweep" /\ Material(job[j], Decide(job[j], fact[r], r = "webhook"))
                              THEN 1 ELSE 0)
  <2>1. rows \in Nat
    BY ONLY <1>b
  <2>2. sweep' = sweep \/ sweep' = [sweep EXCEPT !.writes = sweep.writes + rows]
    BY <1>8 DEF Apply, Return, Idle
  <2> HIDE DEF rows
  <2>3. [sweep EXCEPT !.writes = sweep.writes + rows] \in Pass
    BY ONLY <1>b, <2>1, PassTypes
  <2>4. QED  BY <2>2, <2>3
<1>9. ASSUME NEW r \in Recorders, NEW i \in Issues, NEW saw \in IssueStatuses, CloseIssue(r, i, saw)
     PROVE  sweep' \in Pass
  <2>1. sweep' = sweep \/ sweep' = [sweep EXCEPT !.writes = sweep.writes + wrote]
    BY <1>9 DEF CloseIssue, Return, Idle
  <2>2. [sweep EXCEPT !.writes = sweep.writes + wrote] \in Pass
    BY ONLY <1>b, PassTypes
  <2>3. QED  BY <2>1, <2>2
<1>10. ASSUME NEW r \in Recorders, RecordFails(r) PROVE sweep' \in Pass
  BY <1>10 DEF RecordFails, Idle
<1>11. ASSUME NEW full \in Passes, StartPass(full) PROVE sweep' \in Pass
  <2> DEFINE left == IF full THEN 0 ELSE MaxRequests
             a == [NoPass EXCEPT !.pc = "align"]
             b == [a EXCEPT !.full = full]
             c == [b EXCEPT !.left = left]
  <2>1. full \in BOOLEAN /\ left \in Nat /\ MisalignedJobs \subseteq Jobs
    BY DeliveryAssumption DEF DeliveryAssumption, MisalignedJobs
  <2>2. sweep' = [c EXCEPT !.align = MisalignedJobs]
    BY <1>11, PassTypes DEF StartPass, NoPass
  <2>3. c \in Pass
    <3> HIDE DEF left
    <3>1. a \in Pass
      BY PassTypes
    <3>2. b \in Pass
      <4> HIDE DEF a
      <4>1. QED  BY <2>1, <3>1, PassTypes
    <3> HIDE DEF b
    <3>3. QED  BY <2>1, <3>2, PassTypes
  <2> HIDE DEF c
  <2>4. QED  BY ONLY <2>1, <2>2, <2>3, PassTypes
<1>12. ASSUME NEW j \in Jobs, AlignStatus(j) PROVE sweep' \in Pass
  <2> DEFINE n == IF Aligned(job[j].status, job[j].delivery) # job[j].status THEN 1 ELSE 0
             a == [sweep EXCEPT !.align = sweep.align \ {j}]
  <2>1. n \in Nat
    OBVIOUS
  <2>2. sweep' = [a EXCEPT !.writes = a.writes + n]
    BY <1>12, <1>b DEF AlignStatus, Pass
  <2>3. a \in Pass
    BY <1>b, PassTypes DEF Pass
  <2> HIDE DEF n, a
  <2>4. QED  BY ONLY <2>1, <2>2, <2>3, PassTypes
<1>13. CASE ListPass
  <2> DEFINE rows == ListTracked(sweep.full)
             a == [sweep EXCEPT !.pc = "track"]
             b == [a EXCEPT !.rows = rows]
  <2>1. rows \subseteq Rows
    BY DEF ListTracked, FirstRows, Tracked, Rows
  <2>2. sweep' = [b EXCEPT !.short = (Cardinality(rows) < MaxRequests)]
    BY <1>13, <1>b DEF ListPass, Pass
  <2>3. a \in Pass
    BY <1>b, PassTypes
  <2>4. b \in Pass
    <3> HIDE DEF a, rows
    <3>1. QED  BY <2>1, <2>3, PassTypes
  <2>5. (Cardinality(rows) < MaxRequests) \in BOOLEAN
    OBVIOUS
  <2> HIDE DEF b, rows
  <2>6. QED  BY ONLY <2>2, <2>4, <2>5, PassTypes
<1>14. CASE TrackedDone
  <2> DEFINE a == [sweep EXCEPT !.pc = "unlinked"]
             b == [a EXCEPT !.rows = {}]
  <2>1. sweep' = NoPass \/ sweep' = [b EXCEPT !.short = FALSE]
    BY <1>14, <1>b DEF TrackedDone, Pass
  <2>2. a \in Pass
    BY <1>b, PassTypes
  <2>3. b \in Pass
    <3> HIDE DEF a
    <3>1. QED  BY <2>2, PassTypes
  <2> HIDE DEF b
  <2>4. QED  BY ONLY <2>1, <2>3, PassTypes
<1>15. CASE ListUnlinked
  <2> DEFINE found == {p \in PRs : forge[p].state # "none" /\ Unlinked(p) # {}}
             cost == IF \E p \in Renamed : Unlinked(p) # {} THEN 2 ELSE 1
             page == {Snapshot(p) : p \in found}
             a == [sweep EXCEPT !.pc = "page"]
             b == [a EXCEPT !.left = Spend(cost)]
  <2>1. page \in SUBSET Facts
    BY <1>c DEF Snapshot, Facts
  <2>2. sweep' = NoPass \/ (sweep' = [b EXCEPT !.page = page] /\ (sweep.full \/ sweep.left >= cost))
    BY <1>15, <1>b DEF ListUnlinked, Pass
  <2>3. a \in Pass
    BY <1>b, PassTypes
  <2>4. sweep.full \/ sweep.left >= cost => b \in Pass
    <3>1. sweep.full \/ sweep.left >= cost => Spend(cost) \in Nat
      BY <1>b, SpendTypes
    <3> HIDE DEF a
    <3>2. QED  BY <2>3, <3>1, PassTypes
  <2> HIDE DEF b, page, cost
  <2>5. b \in Pass => [b EXCEPT !.page = page] \in Pass
    BY ONLY <2>1, PassTypes
  <2>6. QED  BY <2>2, <2>4, <2>5, PassTypes
<1>16. CASE PassDone
  BY <1>16, PassTypes DEF PassDone
<1>17. ASSUME NEW row \in Rows, NEW low \in BOOLEAN, Answered(row, low)
     PROVE  sweep' \in Pass
  <2> DEFINE a == [sweep EXCEPT !.rows = sweep.rows \ {row}]
             b == [a EXCEPT !.stopped = low]
             c == [b EXCEPT !.left = Spend(Cost(row.pr))]
  <2>1. row.pr \in PRs /\ Spend(Cost(row.pr)) \in Nat
    BY <1>17, <1>b, SpendTypes DEF Answered, Rows
  <2>2. sweep' = [c EXCEPT !.done = c.done \cup {row.pr}]
    BY <1>17, <1>b DEF Answered, LookAt, Pass
  <2>3. a \in Pass
    BY <1>b, PassTypes DEF Pass
  <2>4. b \in Pass
    <3> HIDE DEF a
    <3>1. QED  BY <2>3, PassTypes
  <2>5. c \in Pass
    <3> HIDE DEF b
    <3>1. QED  BY <2>1, <2>4, PassTypes
  <2> HIDE DEF c
  <2>6. c.done \cup {row.pr} \in SUBSET PRs
    BY ONLY <2>1, <2>5 DEF Pass
  <2>7. QED  BY ONLY <2>2, <2>5, <2>6, PassTypes
<1>18. ASSUME NEW row \in Rows, Unanswered(row) PROVE sweep' \in Pass
  <2> DEFINE a == [sweep EXCEPT !.rows = sweep.rows \ {row}]
  <2>1. Spend(1) \in Nat
    BY <1>18, <1>b, SpendTypes DEF Unanswered
  <2>2. sweep' = [a EXCEPT !.left = Spend(1)]
    BY <1>18, <1>b DEF Unanswered, LookAt, Pass
  <2>3. a \in Pass
    BY <1>b, PassTypes DEF Pass
  <2> HIDE DEF a
  <2>4. QED  BY ONLY <2>1, <2>2, <2>3, PassTypes
<1>19. ASSUME NEW row \in Rows, Refused(row) PROVE sweep' \in Pass
  <2>1. sweep' = [sweep EXCEPT !.stopped = TRUE]
    BY <1>19 DEF Refused
  <2>2. QED  BY <1>b, <2>1, PassTypes
<1>20. ASSUME NEW f \in Facts, RecordListed(f) PROVE sweep' \in Pass
  <2> DEFINE a == [sweep EXCEPT !.page = sweep.page \ {f}]
  <2>1. f.pr \in PRs
    BY DEF Facts
  <2>2. sweep' = a \/ sweep' = [a EXCEPT !.done = a.done \cup {f.pr}]
    <3>1. CASE f.pr \in sweep.done
      BY <1>20, <3>1 DEF RecordListed
    <3>2. CASE f.pr \notin sweep.done
      BY <1>20, <1>b, <3>2 DEF RecordListed, Pass
    <3>3. QED  BY <3>1, <3>2
  <2>3. a \in Pass
    BY <1>b, PassTypes DEF Pass
  <2> HIDE DEF a
  <2>4. a.done \cup {f.pr} \in SUBSET PRs
    BY ONLY <2>1, <2>3 DEF Pass
  <2>5. QED  BY ONLY <2>2, <2>3, <2>4, PassTypes
<1>21. CASE Crash
  BY <1>21, PassTypes DEF Crash
<1>22. CASE UNCHANGED vars
  BY <1>22 DEF vars
<1>. HIDE DEF world, sweeping, recorder, history
<1>23. QED
  BY <1>1, <1>2, <1>3, <1>4, <1>5, <1>6, <1>7, <1>8, <1>9, <1>10, <1>11, <1>12, <1>13,
     <1>14, <1>15, <1>16, <1>17, <1>18, <1>19, <1>20, <1>21, <1>22 DEF Next, JobStep,
     RecordStep, SweepStep, Look

\* The types of the rest.
RestOK ==
    /\ forge \in [PRs -> [state : States, at : Times]]
    /\ clock \in Times
    /\ facts \subseteq Facts
    /\ issue \in [Issues -> IssueStatuses]
    /\ pc \in [Recorders -> {"idle", "match", "apply", "close"}]
    /\ fact \in [Recorders -> Facts \cup {NoFact}]
    /\ todo \in [Recorders -> SUBSET Jobs]
    /\ closing \in [Recorders -> SUBSET Issues]
    /\ wrote \in Nat
    /\ cursor \in Nat
    /\ faults \in 0..MaxFaults
    /\ heard \in [Jobs -> Times]
    /\ links \in [Jobs -> SUBSET PRs]
    /\ closed \subseteq Issues /\ missed \subseteq Issues

\* Each step keeps them.
LEMMA RestTypes ==
    ASSUME IInv, [Next]_vars
    PROVE  RestOK'
<1>a. RestOK
  BY DEF IInv, TypeOK, RestOK
<1>b. DeliveryAssumption
  BY DeliveryAssumption
<1>c. TypeOK /\ FactsSound /\ (\A i \in Recorders : RecordSound(i)) /\ \A i \in Jobs : RowSound(i)
  BY DEF IInv
<1>. USE <1>a DEF world, sweeping, recorder, history, RestOK
<1>1. ASSUME NEW p \in PRs, NEW s \in States, ForgeMove(p, s) PROVE RestOK'
  <2>1. clock + 1 \in Times
    BY <1>1, <1>b DEF ForgeMove, Times, DeliveryAssumption
  <2>2. /\ [state |-> s, at |-> clock + 1] \in [state : States, at : Times]
        /\ [pr |-> p, state |-> s, at |-> clock + 1] \in Facts
    BY <2>1 DEF Facts
  <2>3. QED  BY <1>1, <2>1, <2>2 DEF ForgeMove
<1>2. ASSUME NEW j \in Jobs, NEW p \in PRs, StoreUrl(j, p) PROVE RestOK'
  BY <1>2 DEF StoreUrl
<1>3. ASSUME NEW j \in Jobs, NEW s \in {"completed", "failed"}, NEW u \in PRs \cup {NoPR}, Finish(j, s, u)
     PROVE  RestOK'
  BY <1>3 DEF Finish
<1>4. ASSUME NEW j \in Jobs, FinishRaised(j) PROVE RestOK'
  BY <1>4 DEF FinishRaised
<1>5. ASSUME NEW i \in Issues, NEW s \in IssueStatuses, IssueMove(i, s) PROVE RestOK'
  BY <1>5 DEF IssueMove
<1>6. ASSUME NEW f \in Facts, Webhook(f) PROVE RestOK'
  BY <1>6 DEF Webhook, Begin, Recorders
<1>7. ASSUME NEW r \in Recorders, Match(r) PROVE RestOK'
  <2> DEFINE linked == {j \in Jobs : job[j].url = fact[r].pr}
             matched == linked \cup ByBranch(fact[r].pr, linked # {})
  <2>1. matched \in SUBSET Jobs
    BY DEF ByBranch, Unlinked
  <2>2. todo' = [todo EXCEPT ![r] = {}] \/ todo' = [todo EXCEPT ![r] = matched]
    BY <1>7 DEF Match, Return, Idle
  <2> HIDE DEF matched
  <2>3. todo' \in [Recorders -> SUBSET Jobs]
    BY <2>1, <2>2
  <2>4. QED  BY <1>7, <2>3 DEF Match, Return, Idle
<1>8. ASSUME NEW r \in Recorders, NEW j \in Jobs, Apply(r, j) PROVE RestOK'
  <2> DEFINE new == Decide(job[j], fact[r], r = "webhook")
             after == closing[r] \cup (IF NewlyMerged(job[j], new) THEN {IssueOf[j]} ELSE {})
             rows == wrote + (IF r = "sweep" /\ Material(job[j], new) THEN 1 ELSE 0)
  <2>1. fact[r] \in facts /\ RowSound(j)
    BY <1>8, <1>c DEF Apply, RecordSound
  <2>2. Applied(job[j], fact[r], new)
    BY ONLY <1>c, <2>1, j \in Jobs, (r = "webhook") \in BOOLEAN, AppliedRow
  <2>3. new.url \in PRs /\ fact[r].at \in Times
    BY ONLY <2>1, <2>2, facts \subseteq Facts, <1>a DEF Applied, JobRow, Facts, RestOK
  <2>4. after \in SUBSET Issues /\ rows \in Nat
    BY ONLY <1>a, <1>b, r \in Recorders, j \in Jobs DEF RestOK, DeliveryAssumption
  <2>5. /\ closing' = [closing EXCEPT ![r] = {}] \/ closing' = [closing EXCEPT ![r] = after]
        /\ wrote' = wrote \/ wrote' = 0 \/ wrote' = rows
        /\ links' = [links EXCEPT ![j] = links[j] \cup {new.url}]
        /\ heard' = heard \/ heard' = [heard EXCEPT ![j] = fact[r].at]
    BY <1>8 DEF Apply, Return, Idle
  <2> HIDE DEF new, after, rows
  <2>6. /\ closing' \in [Recorders -> SUBSET Issues] /\ wrote' \in Nat
        /\ links' \in [Jobs -> SUBSET PRs] /\ heard' \in [Jobs -> Times]
    BY <2>3, <2>4, <2>5
  <2>7. QED  BY <1>8, <2>6 DEF Apply, Return, Idle
<1>9. ASSUME NEW r \in Recorders, NEW i \in Issues, NEW saw \in IssueStatuses, CloseIssue(r, i, saw)
     PROVE  RestOK'
  <2>1. issue' \in [Issues -> IssueStatuses] /\ closed' \subseteq Issues /\ missed' \subseteq Issues
    BY <1>9 DEF CloseIssue, StatusAfter, IssueStatuses
  <2>2. /\ closing' = [closing EXCEPT ![r] = {}] \/ closing' = [closing EXCEPT ![r] = closing[r] \ {i}]
        /\ wrote' = wrote \/ wrote' = 0
    BY <1>9 DEF CloseIssue, Return, Idle
  <2>3. closing' \in [Recorders -> SUBSET Issues] /\ wrote' \in Nat
    BY <2>2
  <2>4. /\ pc' = pc \/ pc' = [pc EXCEPT ![r] = "idle"]
        /\ fact' = fact \/ fact' = [fact EXCEPT ![r] = NoFact]
        /\ todo' = todo \/ todo' = [todo EXCEPT ![r] = {}]
    BY <1>9 DEF CloseIssue, Return, Idle
  <2>5. /\ pc' \in [Recorders -> {"idle", "match", "apply", "close"}]
        /\ fact' \in [Recorders -> Facts \cup {NoFact}]
        /\ todo' \in [Recorders -> SUBSET Jobs]
    BY <2>4
  <2>6. QED  BY <1>9, <2>1, <2>3, <2>5 DEF CloseIssue
<1>10. ASSUME NEW r \in Recorders, RecordFails(r) PROVE RestOK'
  <2>1. faults' \in 0..MaxFaults /\ wrote' \in Nat
    BY <1>10, <1>b DEF RecordFails, DeliveryAssumption
  <2>2. missed' \subseteq Issues
    BY <1>10 DEF RecordFails
  <2>3. QED  BY <1>10, <2>1, <2>2 DEF RecordFails, Idle
<1>11. ASSUME NEW full \in Passes, StartPass(full) PROVE RestOK'
  BY <1>11 DEF StartPass
<1>12. ASSUME NEW j \in Jobs, AlignStatus(j) PROVE RestOK'
  BY <1>12 DEF AlignStatus
<1>13. CASE ListPass
  BY <1>13 DEF ListPass
<1>14. CASE TrackedDone
  BY <1>14 DEF TrackedDone
<1>15. CASE ListUnlinked
  BY <1>15 DEF ListUnlinked, Snapshot
<1>16. CASE PassDone
  BY <1>16 DEF PassDone
<1>17. ASSUME NEW row \in Rows, NEW low \in BOOLEAN, Answered(row, low) PROVE RestOK'
  <2>1. Snapshot(row.pr) \in Facts /\ row.key \in Nat
    BY <1>b DEF Rows, Snapshot, Facts, DeliveryAssumption
  <2>2. QED  BY <1>17, <2>1 DEF Answered, Begin, Recorders
<1>18. ASSUME NEW row \in Rows, Unanswered(row) PROVE RestOK'
  <2>1. row.key \in Nat
    BY <1>b DEF Rows, DeliveryAssumption
  <2>2. QED  BY <1>18, <2>1 DEF Unanswered
<1>19. ASSUME NEW row \in Rows, Refused(row) PROVE RestOK'
  BY <1>19 DEF Refused, LookAt
<1>20. ASSUME NEW f \in Facts, RecordListed(f) PROVE RestOK'
  BY <1>20 DEF RecordListed, Begin, Recorders
<1>21. CASE Crash
  <2>1. faults' \in 0..MaxFaults
    BY <1>21, <1>b DEF Crash, DeliveryAssumption
  <2>2. missed' \subseteq Issues
    BY <1>21 DEF Crash, Recorders
  <2>3. QED  BY <1>21, <2>1, <2>2 DEF Crash
<1>22. CASE UNCHANGED vars
  BY <1>22 DEF vars
<1>. HIDE DEF world, sweeping, recorder, history, RestOK
<1>23. QED
  BY <1>1, <1>2, <1>3, <1>4, <1>5, <1>6, <1>7, <1>8, <1>9, <1>10, <1>11, <1>12, <1>13,
     <1>14, <1>15, <1>16, <1>17, <1>18, <1>19, <1>20, <1>21, <1>22 DEF Next, JobStep,
     RecordStep, SweepStep, Look

-----------------------------------------------------------------------------
(* One lemma per part of the invariant, one step per action. *)

\* The forge moves to states that are told.
LEMMA ForgeStep ==
    ASSUME IInv, [Next]_vars
    PROVE  ForgeSound'
<1>a. TypeOK /\ ForgeSound
  BY DEF IInv
<1>. USE <1>a DEF TypeOK, world, sweeping, recorder, history, ForgeSound, Snapshot
<1>1. ASSUME NEW p \in PRs, NEW s \in States, ForgeMove(p, s) PROVE ForgeSound'
  BY <1>1 DEF ForgeMove
<1>2. ASSUME NEW j \in Jobs, NEW p \in PRs, StoreUrl(j, p) PROVE ForgeSound'
  BY <1>2 DEF StoreUrl
<1>3. ASSUME NEW j \in Jobs, NEW s \in {"completed", "failed"}, NEW u \in PRs \cup {NoPR}, Finish(j, s, u)
     PROVE  ForgeSound'
  BY <1>3 DEF Finish
<1>4. ASSUME NEW j \in Jobs, FinishRaised(j) PROVE ForgeSound'
  BY <1>4 DEF FinishRaised
<1>5. ASSUME NEW i \in Issues, NEW s \in IssueStatuses, IssueMove(i, s) PROVE ForgeSound'
  BY <1>5 DEF IssueMove
<1>6. ASSUME NEW f \in Facts, Webhook(f) PROVE ForgeSound'
  BY <1>6 DEF Webhook, Begin
<1>7. ASSUME NEW r \in Recorders, Match(r) PROVE ForgeSound'
  BY <1>7 DEF Match, Return, Idle
<1>8. ASSUME NEW r \in Recorders, NEW j \in Jobs, Apply(r, j) PROVE ForgeSound'
  BY <1>8 DEF Apply, Return, Idle
<1>9. ASSUME NEW r \in Recorders, NEW i \in Issues, NEW saw \in IssueStatuses, CloseIssue(r, i, saw)
     PROVE  ForgeSound'
  BY <1>9 DEF CloseIssue, Return, Idle
<1>10. ASSUME NEW r \in Recorders, RecordFails(r) PROVE ForgeSound'
  BY <1>10 DEF RecordFails, Idle
<1>11. ASSUME NEW full \in Passes, StartPass(full) PROVE ForgeSound'
  BY <1>11 DEF StartPass
<1>12. ASSUME NEW j \in Jobs, AlignStatus(j) PROVE ForgeSound'
  BY <1>12 DEF AlignStatus
<1>13. CASE ListPass
  BY <1>13 DEF ListPass
<1>14. CASE TrackedDone
  BY <1>14 DEF TrackedDone
<1>15. CASE ListUnlinked
  BY <1>15 DEF ListUnlinked, Snapshot
<1>16. CASE PassDone
  BY <1>16 DEF PassDone
<1>17. ASSUME NEW row \in Rows, NEW low \in BOOLEAN, Answered(row, low) PROVE ForgeSound'
  BY <1>17 DEF Answered, LookAt, Begin, Snapshot
<1>18. ASSUME NEW row \in Rows, Unanswered(row) PROVE ForgeSound'
  BY <1>18 DEF Unanswered, LookAt
<1>19. ASSUME NEW row \in Rows, Refused(row) PROVE ForgeSound'
  BY <1>19 DEF Refused, LookAt
<1>20. ASSUME NEW f \in Facts, RecordListed(f) PROVE ForgeSound'
  BY <1>20 DEF RecordListed, Begin
<1>21. CASE Crash
  BY <1>21 DEF Crash
<1>22. CASE UNCHANGED vars
  BY <1>22 DEF vars
<1>. HIDE DEF TypeOK, world, sweeping, recorder, history
<1>23. QED
  BY <1>1, <1>2, <1>3, <1>4, <1>5, <1>6, <1>7, <1>8, <1>9, <1>10, <1>11, <1>12, <1>13,
     <1>14, <1>15, <1>16, <1>17, <1>18, <1>19, <1>20, <1>21, <1>22 DEF Next, JobStep,
     RecordStep, SweepStep, Look

\* A fact is of a pull request that exists, and none ever ceases to.
LEMMA FactsStep ==
    ASSUME IInv, [Next]_vars
    PROVE  FactsSound'
<1>a. TypeOK /\ FactsSound
  BY DEF IInv
<1>. USE <1>a DEF TypeOK, world, sweeping, recorder, history, FactsSound, ForgeMoves, States
<1>1. ASSUME NEW p \in PRs, NEW s \in States, ForgeMove(p, s) PROVE FactsSound'
  <2>1. facts' = facts \cup {[pr |-> p, state |-> s, at |-> clock + 1]} /\ s # "none" /\ clock + 1 # 0
        /\ forge' = [forge EXCEPT ![p] = [state |-> s, at |-> clock + 1]]
    BY <1>1 DEF ForgeMove, Times
  <2>2. \A f \in facts : f.pr \in PRs
    BY DEF Facts
  <2>3. QED  BY <2>1, <2>2
<1>2. ASSUME NEW j \in Jobs, NEW p \in PRs, StoreUrl(j, p) PROVE FactsSound'
  BY <1>2 DEF StoreUrl
<1>3. ASSUME NEW j \in Jobs, NEW s \in {"completed", "failed"}, NEW u \in PRs \cup {NoPR}, Finish(j, s, u)
     PROVE  FactsSound'
  BY <1>3 DEF Finish
<1>4. ASSUME NEW j \in Jobs, FinishRaised(j) PROVE FactsSound'
  BY <1>4 DEF FinishRaised
<1>5. ASSUME NEW i \in Issues, NEW s \in IssueStatuses, IssueMove(i, s) PROVE FactsSound'
  BY <1>5 DEF IssueMove
<1>6. ASSUME NEW f \in Facts, Webhook(f) PROVE FactsSound'
  BY <1>6 DEF Webhook, Begin
<1>7. ASSUME NEW r \in Recorders, Match(r) PROVE FactsSound'
  BY <1>7 DEF Match, Return, Idle
<1>8. ASSUME NEW r \in Recorders, NEW j \in Jobs, Apply(r, j) PROVE FactsSound'
  BY <1>8 DEF Apply, Return, Idle
<1>9. ASSUME NEW r \in Recorders, NEW i \in Issues, NEW saw \in IssueStatuses, CloseIssue(r, i, saw)
     PROVE  FactsSound'
  BY <1>9 DEF CloseIssue, Return, Idle
<1>10. ASSUME NEW r \in Recorders, RecordFails(r) PROVE FactsSound'
  BY <1>10 DEF RecordFails, Idle
<1>11. ASSUME NEW full \in Passes, StartPass(full) PROVE FactsSound'
  BY <1>11 DEF StartPass
<1>12. ASSUME NEW j \in Jobs, AlignStatus(j) PROVE FactsSound'
  BY <1>12 DEF AlignStatus
<1>13. CASE ListPass
  BY <1>13 DEF ListPass
<1>14. CASE TrackedDone
  BY <1>14 DEF TrackedDone
<1>15. CASE ListUnlinked
  BY <1>15 DEF ListUnlinked, Snapshot
<1>16. CASE PassDone
  BY <1>16 DEF PassDone
<1>17. ASSUME NEW row \in Rows, NEW low \in BOOLEAN, Answered(row, low) PROVE FactsSound'
  BY <1>17 DEF Answered, LookAt, Begin, Snapshot
<1>18. ASSUME NEW row \in Rows, Unanswered(row) PROVE FactsSound'
  BY <1>18 DEF Unanswered, LookAt
<1>19. ASSUME NEW row \in Rows, Refused(row) PROVE FactsSound'
  BY <1>19 DEF Refused, LookAt
<1>20. ASSUME NEW f \in Facts, RecordListed(f) PROVE FactsSound'
  BY <1>20 DEF RecordListed, Begin
<1>21. CASE Crash
  BY <1>21 DEF Crash
<1>22. CASE UNCHANGED vars
  BY <1>22 DEF vars
<1>. HIDE DEF TypeOK, world, sweeping, recorder, history
<1>23. QED
  BY <1>1, <1>2, <1>3, <1>4, <1>5, <1>6, <1>7, <1>8, <1>9, <1>10, <1>11, <1>12, <1>13,
     <1>14, <1>15, <1>16, <1>17, <1>18, <1>19, <1>20, <1>21, <1>22 DEF Next, JobStep,
     RecordStep, SweepStep, Look

\* Who writes a row: a run, merge sync, and the alignment of its status.
LEMMA RowStep ==
    ASSUME IInv, [Next]_vars, NEW k \in Jobs
    PROVE  RowSound(k)'
<1>a. TypeOK /\ ForgeSound /\ FactsSound /\ RowSound(k)
  BY DEF IInv
<1>b. DeliveryAssumption /\ \A i \in Recorders : RecordSound(i)
  BY DeliveryAssumption DEF IInv
<1>. USE <1>a, <1>b DEF TypeOK, world, sweeping, recorder, history, RowSound
<1>1. ASSUME NEW p \in PRs, NEW s \in States, ForgeMove(p, s) PROVE RowSound(k)'
  <2>1. facts \subseteq facts' /\ \A x \in PRs : forge[x].state # "none" => forge'[x].state # "none"
    BY <1>1 DEF ForgeMove, ForgeMoves
  <2>2. job' = job /\ job[k].url \in PRs \cup {NoPR}
    BY <1>1 DEF ForgeMove, JobRow
  <2>3. QED  BY <2>1, <2>2
<1>2. ASSUME NEW j \in Jobs, NEW p \in PRs, StoreUrl(j, p) PROVE RowSound(k)'
  <2>1. CASE k # j
    BY <1>2, <2>1 DEF StoreUrl
  <2>2. CASE k = j
    <3>1. job[k] \in JobRow /\ job'[k] = WithUrl(job[k], "running", p) /\ UNCHANGED world
      BY <1>2, <2>2 DEF StoreUrl
    <3>2. p \in PRs /\ forge[p].state # "none"
      BY <1>2, <2>2, <1>b DEF StoreUrl, Known, DeliveryAssumption
    <3>3. job[k].at # 0 => job[k].delivery # "none"
      BY DEF RowSound, FactsSound
    <3>4. QED  BY <3>1, <3>2, <3>3 DEF RowSound, WithUrl, JobRow
  <2>3. QED  BY <2>1, <2>2
<1>3. ASSUME NEW j \in Jobs, NEW s \in {"completed", "failed"}, NEW u \in PRs \cup {NoPR}, Finish(j, s, u)
     PROVE  RowSound(k)'
  <2>1. CASE k # j
    BY <1>3, <2>1 DEF Finish
  <2>2. CASE k = j
    <3>1. job[k] \in JobRow /\ job'[k] = WithUrl(job[k], s, u) /\ UNCHANGED world
      BY <1>3, <2>2 DEF Finish
    <3>2. u # NoPR => forge[u].state # "none"
      BY <1>3, <2>2, <1>b DEF Finish, Known, DeliveryAssumption
    <3>3. job[k].at # 0 => job[k].delivery # "none"
      BY DEF RowSound, FactsSound
    <3>4. QED  BY <1>3, <3>1, <3>2, <3>3 DEF RowSound, WithUrl, JobRow, Finish
  <2>3. QED  BY <2>1, <2>2
<1>4. ASSUME NEW j \in Jobs, FinishRaised(j) PROVE RowSound(k)'
  BY <1>4 DEF FinishRaised
<1>5. ASSUME NEW i \in Issues, NEW s \in IssueStatuses, IssueMove(i, s) PROVE RowSound(k)'
  BY <1>5 DEF IssueMove
<1>6. ASSUME NEW f \in Facts, Webhook(f) PROVE RowSound(k)'
  BY <1>6 DEF Webhook, Begin
<1>7. ASSUME NEW r \in Recorders, Match(r) PROVE RowSound(k)'
  BY <1>7 DEF Match, Return, Idle
<1>8. ASSUME NEW r \in Recorders, NEW j \in Jobs, Apply(r, j) PROVE RowSound(k)'
  <2>1. RowSound(k) /\ job[k] \in JobRow /\ fact[r] \in facts
    BY <1>8 DEF Apply, RecordSound
  <2>2. CASE k # j
    BY <1>8, <2>2 DEF Apply
  <2>3. CASE k = j
    <3> DEFINE new == Decide(job[k], fact[r], r = "webhook")
    <3>1. job'[k] = new /\ UNCHANGED world
      BY <1>8, <2>3 DEF Apply
    <3>2. fact[r] \in Facts /\ fact[r].state # "none" /\ fact[r].at # 0 /\ forge[fact[r].pr].state # "none"
      BY <2>1 DEF FactsSound
    <3>3. Applied(job[k], fact[r], new)
      BY ONLY <1>a, <2>1, (r = "webhook") \in BOOLEAN, AppliedRow
    <3> HIDE DEF new
    <3>4. QED  BY <2>1, <3>1, <3>2, <3>3 DEF RowSound, world, Applied
  <2>4. QED  BY <2>2, <2>3
<1>9. ASSUME NEW r \in Recorders, NEW i \in Issues, NEW saw \in IssueStatuses, CloseIssue(r, i, saw)
     PROVE  RowSound(k)'
  BY <1>9 DEF CloseIssue, Return, Idle
<1>10. ASSUME NEW r \in Recorders, RecordFails(r) PROVE RowSound(k)'
  BY <1>10 DEF RecordFails, Idle
<1>11. ASSUME NEW full \in Passes, StartPass(full) PROVE RowSound(k)'
  BY <1>11 DEF StartPass
<1>12. ASSUME NEW j \in Jobs, AlignStatus(j) PROVE RowSound(k)'
  <2>1. CASE k # j
    BY <1>12, <2>1 DEF AlignStatus
  <2>2. CASE k = j
    <3>1. job[k] \in JobRow /\ job[k].status \in JobStatuses /\ job[k].delivery \in States
      BY DEF JobRow
    <3>2. job'[k] = [job[k] EXCEPT !.status = Aligned(job[k].status, job[k].delivery)] /\ UNCHANGED world
      BY <1>12, <2>2 DEF AlignStatus
    <3>3. QED  BY <3>1, <3>2, AlignedSound DEF RowSound, JobRow
  <2>3. QED  BY <2>1, <2>2
<1>13. CASE ListPass
  BY <1>13 DEF ListPass
<1>14. CASE TrackedDone
  BY <1>14 DEF TrackedDone
<1>15. CASE ListUnlinked
  BY <1>15 DEF ListUnlinked, Snapshot
<1>16. CASE PassDone
  BY <1>16 DEF PassDone
<1>17. ASSUME NEW row \in Rows, NEW low \in BOOLEAN, Answered(row, low) PROVE RowSound(k)'
  BY <1>17 DEF Answered, LookAt, Begin, Snapshot
<1>18. ASSUME NEW row \in Rows, Unanswered(row) PROVE RowSound(k)'
  BY <1>18 DEF Unanswered, LookAt
<1>19. ASSUME NEW row \in Rows, Refused(row) PROVE RowSound(k)'
  BY <1>19 DEF Refused, LookAt
<1>20. ASSUME NEW f \in Facts, RecordListed(f) PROVE RowSound(k)'
  BY <1>20 DEF RecordListed, Begin
<1>21. CASE Crash
  BY <1>21 DEF Crash
<1>22. CASE UNCHANGED vars
  BY <1>22 DEF vars
<1>. HIDE DEF TypeOK, world, sweeping, recorder, history
<1>23. QED
  BY <1>1, <1>2, <1>3, <1>4, <1>5, <1>6, <1>7, <1>8, <1>9, <1>10, <1>11, <1>12, <1>13,
     <1>14, <1>15, <1>16, <1>17, <1>18, <1>19, <1>20, <1>21, <1>22 DEF Next, JobStep,
     RecordStep, SweepStep, Look

\* A record() begins with a fact, and has closed its issues when it ends.
LEMMA RecordSoundStep ==
    ASSUME IInv, [Next]_vars, NEW q \in Recorders
    PROVE  RecordSound(q)'
<1>a. TypeOK /\ ForgeSound /\ SweepSound /\ \A i \in Recorders : RecordSound(i)
  BY DEF IInv
<1>. USE <1>a DEF TypeOK, world, sweeping, recorder, history, RecordSound, SweepSound,
   Snapshot, NoPass, NoFact, ForgeSound
<1>1. ASSUME NEW p \in PRs, NEW s \in States, ForgeMove(p, s) PROVE RecordSound(q)'
  BY <1>1 DEF ForgeMove
<1>2. ASSUME NEW j \in Jobs, NEW p \in PRs, StoreUrl(j, p) PROVE RecordSound(q)'
  BY <1>2 DEF StoreUrl
<1>3. ASSUME NEW j \in Jobs, NEW s \in {"completed", "failed"}, NEW u \in PRs \cup {NoPR}, Finish(j, s, u)
     PROVE  RecordSound(q)'
  BY <1>3 DEF Finish
<1>4. ASSUME NEW j \in Jobs, FinishRaised(j) PROVE RecordSound(q)'
  BY <1>4 DEF FinishRaised
<1>5. ASSUME NEW i \in Issues, NEW s \in IssueStatuses, IssueMove(i, s)
     PROVE  RecordSound(q)'
  BY <1>5 DEF IssueMove
<1>6. ASSUME NEW f \in Facts, Webhook(f) PROVE RecordSound(q)'
  BY <1>6 DEF Webhook, Begin
<1>7. ASSUME NEW r \in Recorders, Match(r) PROVE RecordSound(q)'
  BY <1>7 DEF Match, Return, Idle
<1>8. ASSUME NEW r \in Recorders, NEW j \in Jobs, Apply(r, j) PROVE RecordSound(q)'
  BY <1>8 DEF Apply, Return, Idle
<1>9. ASSUME NEW r \in Recorders, NEW i \in Issues, NEW saw \in IssueStatuses, CloseIssue(r, i, saw)
     PROVE  RecordSound(q)'
  BY <1>9 DEF CloseIssue, Return, Idle
<1>10. ASSUME NEW r \in Recorders, RecordFails(r) PROVE RecordSound(q)'
  BY <1>10 DEF RecordFails, Idle
<1>11. ASSUME NEW full \in Passes, StartPass(full) PROVE RecordSound(q)'
  BY <1>11 DEF StartPass
<1>12. ASSUME NEW j \in Jobs, AlignStatus(j) PROVE RecordSound(q)'
  BY <1>12 DEF AlignStatus
<1>13. CASE ListPass
  BY <1>13 DEF ListPass
<1>14. CASE TrackedDone
  BY <1>14 DEF TrackedDone
<1>15. CASE ListUnlinked
  BY <1>15 DEF ListUnlinked, Snapshot
<1>16. CASE PassDone
  BY <1>16 DEF PassDone
<1>17. ASSUME NEW row \in Rows, NEW low \in BOOLEAN, Answered(row, low)
     PROVE  RecordSound(q)'
  <2>1. Snapshot(row.pr) \in facts
    BY <1>17 DEF Answered, LookAt, Rows
  <2>2. QED  BY <1>17, <2>1 DEF Answered, Begin
<1>18. ASSUME NEW row \in Rows, Unanswered(row) PROVE RecordSound(q)'
  BY <1>18 DEF Unanswered, LookAt
<1>19. ASSUME NEW row \in Rows, Refused(row) PROVE RecordSound(q)'
  BY <1>19 DEF Refused, LookAt
<1>20. ASSUME NEW f \in Facts, RecordListed(f) PROVE RecordSound(q)'
  BY <1>20 DEF RecordListed, Begin
<1>21. CASE Crash
  BY <1>21 DEF Crash
<1>22. CASE UNCHANGED vars
  BY <1>22 DEF vars
<1>. HIDE DEF TypeOK, world, sweeping, recorder, history
<1>23. QED
  BY <1>1, <1>2, <1>3, <1>4, <1>5, <1>6, <1>7, <1>8, <1>9, <1>10, <1>11, <1>12, <1>13,
     <1>14, <1>15, <1>16, <1>17, <1>18, <1>19, <1>20, <1>21, <1>22 DEF Next, JobStep,
     RecordStep, SweepStep, Look

\* The rows of a pass link what exists.
LEMMA SweepStepSound ==
    ASSUME IInv, [Next]_vars
    PROVE  SweepSound'
<1>a. TypeOK /\ ForgeSound /\ SweepSound /\ \A i \in Jobs : RowSound(i)
  BY DEF IInv
<1>. USE <1>a DEF TypeOK, world, sweeping, recorder, history, RecordSound, SweepSound,
   Snapshot, NoPass, NoFact, ForgeSound, RowSound
<1>1. ASSUME NEW p \in PRs, NEW s \in States, ForgeMove(p, s) PROVE SweepSound'
  <2>1. facts \subseteq facts' /\ \A x \in PRs : forge[x].state # "none" => forge'[x].state # "none"
    BY <1>1 DEF ForgeMove, ForgeMoves
  <2>2. sweep' = sweep /\ \A row \in sweep.rows : row.pr \in PRs
    BY <1>1 DEF ForgeMove, Pass, Rows
  <2>3. QED  BY <2>1, <2>2
<1>2. ASSUME NEW j \in Jobs, NEW p \in PRs, StoreUrl(j, p) PROVE SweepSound'
  BY <1>2 DEF StoreUrl
<1>3. ASSUME NEW j \in Jobs, NEW s \in {"completed", "failed"}, NEW u \in PRs \cup {NoPR}, Finish(j, s, u)
     PROVE  SweepSound'
  BY <1>3 DEF Finish
<1>4. ASSUME NEW j \in Jobs, FinishRaised(j) PROVE SweepSound'
  BY <1>4 DEF FinishRaised
<1>5. ASSUME NEW i \in Issues, NEW s \in IssueStatuses, IssueMove(i, s) PROVE SweepSound'
  BY <1>5 DEF IssueMove
<1>6. ASSUME NEW f \in Facts, Webhook(f) PROVE SweepSound'
  BY <1>6 DEF Webhook, Begin
<1>7. ASSUME NEW r \in Recorders, Match(r) PROVE SweepSound'
  <2>1. sweep'.rows = sweep.rows /\ sweep'.page = sweep.page
    BY <1>7 DEF Match, Return, Idle, Pass
  <2>2. UNCHANGED world
    BY <1>7 DEF Match
  <2>3. QED  BY <2>1, <2>2
<1>8. ASSUME NEW r \in Recorders, NEW j \in Jobs, Apply(r, j) PROVE SweepSound'
  <2>1. sweep'.rows = sweep.rows /\ sweep'.page = sweep.page
    BY <1>8 DEF Apply, Return, Idle, Pass
  <2>2. UNCHANGED world
    BY <1>8 DEF Apply
  <2>3. QED  BY <2>1, <2>2
<1>9. ASSUME NEW r \in Recorders, NEW i \in Issues, NEW saw \in IssueStatuses, CloseIssue(r, i, saw)
     PROVE  SweepSound'
  <2>1. sweep'.rows = sweep.rows /\ sweep'.page = sweep.page
    BY <1>9 DEF CloseIssue, Return, Idle, Pass
  <2>2. UNCHANGED world
    BY <1>9 DEF CloseIssue
  <2>3. QED  BY <2>1, <2>2
<1>10. ASSUME NEW r \in Recorders, RecordFails(r) PROVE SweepSound'
  BY <1>10 DEF RecordFails, Idle
<1>11. ASSUME NEW full \in Passes, StartPass(full) PROVE SweepSound'
  BY <1>11 DEF StartPass
<1>12. ASSUME NEW j \in Jobs, AlignStatus(j) PROVE SweepSound'
  BY <1>12 DEF AlignStatus
<1>13. CASE ListPass
  <2>1. sweep'.rows \subseteq [pr : PRs, key : {Created[j] : j \in Jobs}] /\ sweep'.page = sweep.page
    BY <1>13 DEF ListPass, ListTracked, FirstRows, Tracked, Pass
  <2>2. \A row \in sweep'.rows : \E j \in Jobs : job[j].url = row.pr
    BY <1>13 DEF ListPass, ListTracked, FirstRows, Tracked, Pass
  <2>3. \A row \in sweep'.rows : forge[row.pr].state # "none"
    BY <2>1, <2>2, DeliveryAssumption DEF DeliveryAssumption
  <2>4. UNCHANGED world
    BY <1>13 DEF ListPass
  <2>5. QED  BY <2>1, <2>3, <2>4
<1>14. CASE TrackedDone
  BY <1>14 DEF TrackedDone
<1>15. CASE ListUnlinked
  BY <1>15 DEF ListUnlinked, Snapshot
<1>16. CASE PassDone
  BY <1>16 DEF PassDone
<1>17. ASSUME NEW row \in Rows, NEW low \in BOOLEAN, Answered(row, low) PROVE SweepSound'
  BY <1>17 DEF Answered, LookAt, Begin, Snapshot
<1>18. ASSUME NEW row \in Rows, Unanswered(row) PROVE SweepSound'
  BY <1>18 DEF Unanswered, LookAt
<1>19. ASSUME NEW row \in Rows, Refused(row) PROVE SweepSound'
  BY <1>19 DEF Refused, LookAt
<1>20. ASSUME NEW f \in Facts, RecordListed(f) PROVE SweepSound'
  <2>1. sweep'.rows = sweep.rows /\ sweep'.page \subseteq sweep.page
    <3>1. CASE f.pr \in sweep.done
      BY <1>20, <3>1 DEF RecordListed, Pass
    <3>2. CASE f.pr \notin sweep.done
      <4> DEFINE looked == [sweep EXCEPT !.page = sweep.page \ {f}]
      <4>1. looked \in Pass /\ looked.rows = sweep.rows /\ looked.page \subseteq sweep.page
        BY DEF Pass
      <4>2. sweep' = [looked EXCEPT !.done = looked.done \cup {f.pr}]
        BY <1>20, <3>2 DEF RecordListed, Pass
      <4> HIDE DEF looked
      <4>3. QED  BY <4>1, <4>2 DEF Pass
    <3>3. QED  BY <3>1, <3>2
  <2>2. UNCHANGED world
    BY <1>20 DEF RecordListed
  <2>3. QED  BY <2>1, <2>2
<1>21. CASE Crash
  BY <1>21 DEF Crash
<1>22. CASE UNCHANGED vars
  BY <1>22 DEF vars
<1>. HIDE DEF TypeOK, world, sweeping, recorder, history
<1>23. QED
  BY <1>1, <1>2, <1>3, <1>4, <1>5, <1>6, <1>7, <1>8, <1>9, <1>10, <1>11, <1>12, <1>13,
     <1>14, <1>15, <1>16, <1>17, <1>18, <1>19, <1>20, <1>21, <1>22 DEF Next, JobStep,
     RecordStep, SweepStep, Look

\* A first merge is handed to whoever closes its issue.
LEMMA CloseStep ==
    ASSUME IInv, [Next]_vars
    PROVE  MergeClosesIssue'
<1>a. TypeOK /\ MergeClosesIssue /\ FactsSound /\ \A i \in Recorders : RecordSound(i)
  BY DEF IInv
<1>. SUFFICES ASSUME NEW k \in Jobs, job'[k].delivery = "merged"
              PROVE  \/ IssueOf[k] \in closed' \cup missed'
                     \/ \E w \in Recorders : IssueOf[k] \in closing'[w]
  BY DEF MergeClosesIssue
<1>b. /\ IssueOf[k] \in Issues
      /\ job[k].delivery = "merged" => \/ IssueOf[k] \in closed \cup missed
                                       \/ \E i \in Recorders : IssueOf[k] \in closing[i]
  BY <1>a, DeliveryAssumption DEF MergeClosesIssue, DeliveryAssumption
<1>. USE <1>a, <1>b DEF TypeOK, world, sweeping, recorder, history, RecordSound
<1>1. ASSUME NEW p \in PRs, NEW s \in States, ForgeMove(p, s)
     PROVE  IssueOf[k] \in closed' \cup missed' \/ \E w \in Recorders : IssueOf[k] \in closing'[w]
  BY <1>1 DEF ForgeMove
<1>2. ASSUME NEW j \in Jobs, NEW p \in PRs, StoreUrl(j, p)
     PROVE  IssueOf[k] \in closed' \cup missed' \/ \E w \in Recorders : IssueOf[k] \in closing'[w]
  <2>1. job'[k].delivery = "merged" => job[k].delivery = "merged"
    BY <1>2 DEF StoreUrl, WithUrl, JobRow
  <2>2. QED  BY <1>2, <2>1 DEF StoreUrl
<1>3. ASSUME NEW j \in Jobs, NEW s \in {"completed", "failed"}, NEW u \in PRs \cup {NoPR}, Finish(j, s, u)
     PROVE  IssueOf[k] \in closed' \cup missed' \/ \E w \in Recorders : IssueOf[k] \in closing'[w]
  <2>1. job'[k].delivery = "merged" => job[k].delivery = "merged"
    BY <1>3 DEF Finish, WithUrl, JobRow
  <2>2. QED  BY <1>3, <2>1 DEF Finish
<1>4. ASSUME NEW j \in Jobs, FinishRaised(j)
     PROVE  IssueOf[k] \in closed' \cup missed' \/ \E w \in Recorders : IssueOf[k] \in closing'[w]
  BY <1>4 DEF FinishRaised
<1>5. ASSUME NEW i \in Issues, NEW s \in IssueStatuses, IssueMove(i, s)
     PROVE  IssueOf[k] \in closed' \cup missed' \/ \E w \in Recorders : IssueOf[k] \in closing'[w]
  BY <1>5 DEF IssueMove
<1>6. ASSUME NEW f \in Facts, Webhook(f)
     PROVE  IssueOf[k] \in closed' \cup missed' \/ \E w \in Recorders : IssueOf[k] \in closing'[w]
  BY <1>6 DEF Webhook, Begin
<1>7. ASSUME NEW r \in Recorders, Match(r)
     PROVE  IssueOf[k] \in closed' \cup missed' \/ \E w \in Recorders : IssueOf[k] \in closing'[w]
  BY <1>7 DEF Match, Return, Idle
<1>8. ASSUME NEW r \in Recorders, NEW j \in Jobs, Apply(r, j)
     PROVE  IssueOf[k] \in closed' \cup missed' \/ \E w \in Recorders : IssueOf[k] \in closing'[w]
  <2>1. CASE job[k].delivery = "merged"
    <3>1. \A i \in Recorders : IssueOf[k] \in closing[i] => IssueOf[k] \in closing'[i]
      BY <1>8 DEF Apply, Return, Idle
    <3>2. UNCHANGED <<closed, missed>>
      BY <1>8 DEF Apply
    <3>3. QED  BY <2>1, <3>1, <3>2
  <2>2. CASE job[k].delivery # "merged"
    <3>1. k = j
      BY <1>8, <2>2 DEF Apply
    <3>2. NewlyMerged(job[k], Decide(job[k], fact[r], r = "webhook"))
      BY <1>8, <2>2, <3>1 DEF Apply, NewlyMerged
    <3>3. IssueOf[k] \in closing'[r]
      BY <1>8, <1>b, <3>1, <3>2 DEF Apply
    <3>4. QED  BY <3>3
  <2>3. QED  BY <2>1, <2>2
<1>9. ASSUME NEW r \in Recorders, NEW i \in Issues, NEW saw \in IssueStatuses, CloseIssue(r, i, saw)
     PROVE  IssueOf[k] \in closed' \cup missed' \/ \E w \in Recorders : IssueOf[k] \in closing'[w]
  BY <1>9 DEF CloseIssue, Return, Idle
<1>10. ASSUME NEW r \in Recorders, RecordFails(r)
     PROVE  IssueOf[k] \in closed' \cup missed' \/ \E w \in Recorders : IssueOf[k] \in closing'[w]
  BY <1>10 DEF RecordFails, Idle
<1>11. ASSUME NEW full \in Passes, StartPass(full)
     PROVE  IssueOf[k] \in closed' \cup missed' \/ \E w \in Recorders : IssueOf[k] \in closing'[w]
  BY <1>11 DEF StartPass
<1>12. ASSUME NEW j \in Jobs, AlignStatus(j)
     PROVE  IssueOf[k] \in closed' \cup missed' \/ \E w \in Recorders : IssueOf[k] \in closing'[w]
  BY <1>12 DEF AlignStatus
<1>13. CASE ListPass
  BY <1>13 DEF ListPass
<1>14. CASE TrackedDone
  BY <1>14 DEF TrackedDone
<1>15. CASE ListUnlinked
  BY <1>15 DEF ListUnlinked, Snapshot
<1>16. CASE PassDone
  BY <1>16 DEF PassDone
<1>17. ASSUME NEW row \in Rows, NEW low \in BOOLEAN, Answered(row, low)
     PROVE  IssueOf[k] \in closed' \cup missed' \/ \E w \in Recorders : IssueOf[k] \in closing'[w]
  BY <1>17 DEF Answered, LookAt, Begin, Snapshot
<1>18. ASSUME NEW row \in Rows, Unanswered(row)
     PROVE  IssueOf[k] \in closed' \cup missed' \/ \E w \in Recorders : IssueOf[k] \in closing'[w]
  BY <1>18 DEF Unanswered, LookAt
<1>19. ASSUME NEW row \in Rows, Refused(row)
     PROVE  IssueOf[k] \in closed' \cup missed' \/ \E w \in Recorders : IssueOf[k] \in closing'[w]
  BY <1>19 DEF Refused, LookAt
<1>20. ASSUME NEW f \in Facts, RecordListed(f)
     PROVE  IssueOf[k] \in closed' \cup missed' \/ \E w \in Recorders : IssueOf[k] \in closing'[w]
  BY <1>20 DEF RecordListed, Begin
<1>21. CASE Crash
  BY <1>21 DEF Crash, Recorders
<1>22. CASE UNCHANGED vars
  BY <1>22 DEF vars
<1>. HIDE DEF TypeOK, world, sweeping, recorder, history
<1>23. QED
  BY <1>1, <1>2, <1>3, <1>4, <1>5, <1>6, <1>7, <1>8, <1>9, <1>10, <1>11, <1>12, <1>13,
     <1>14, <1>15, <1>16, <1>17, <1>18, <1>19, <1>20, <1>21, <1>22 DEF Next, JobStep,
     RecordStep, SweepStep, Look

-----------------------------------------------------------------------------
(* The invariant, and what it is for. *)

\* At the start the jobs of open pull requests are linked, and nothing is recorded.
LEMMA InitSound == Init => IInv
<1>. SUFFICES ASSUME Init PROVE IInv
  OBVIOUS
<1>. USE DeliveryAssumption DEF DeliveryAssumption
<1>1. 0 \in Times /\ 1 \in Times
  BY DEF Times
<1>2. {"none", "pr_open"} \subseteq States /\ {"running", "failed"} \subseteq JobStatuses
  BY DEF States, JobStatuses, ActiveStatuses, TerminalStatuses
<1>3. job \in [Jobs -> JobRow]
  <2>1. job \in [Jobs -> [status : {"running", "failed"}, url : PRs \cup {NoPR},
                        delivery : {"none", "pr_open"}, at : {0}]]
    BY DEF Init
  <2>2. [status : {"running", "failed"}, url : PRs \cup {NoPR}, delivery : {"none", "pr_open"}, at : {0}]
           \subseteq JobRow
    BY <1>1, <1>2 DEF JobRow
  <2>3. QED  BY <2>1, <2>2
<1>4. forge \in [PRs -> [state : States, at : Times]]
  BY <1>1, <1>2 DEF Init
<1>5. facts \subseteq Facts
  BY <1>1, <1>2 DEF Init, Facts
<1>6. RestOK
  <2>1. links \in [Jobs -> SUBSET PRs]
    BY <1>3 DEF Init, JobRow
  <2>2. issue \in [Issues -> IssueStatuses]
    BY DEF Init, IssueStatuses
  <2>3. QED  BY <1>1, <1>4, <1>5, <2>1, <2>2 DEF Init, RestOK
<1>7. TypeOK
  BY <1>3, <1>6, PassTypes DEF Init, RestOK, TypeOK
<1>8. ForgeSound /\ FactsSound
  <2>1. \A p \in PRs : forge[p] = IF p \in Before THEN [state |-> "pr_open", at |-> 1]
                                                 ELSE [state |-> "none", at |-> 0]
    BY DEF Init
  <2>2. facts = {[pr |-> p, state |-> "pr_open", at |-> 1] : p \in Before} /\ Before \subseteq PRs
    BY DEF Init
  <2>3. QED  BY <2>1, <2>2 DEF ForgeSound, FactsSound, Snapshot
<1>9. ASSUME NEW j \in Jobs PROVE RowSound(j) /\ job[j].delivery # "merged"
  <2>1. job[j].status \in {"running", "failed"} /\ job[j].at = 0 /\ job[j].delivery \in {"none", "pr_open"}
    BY DEF Init
  <2>2. job[j].url # NoPR => job[j].url \in PRs /\ job[j].url \in Before
    BY <1>3 DEF Init, JobRow
  <2>3. QED  BY <2>1, <2>2 DEF Init, RowSound
<1>10. SweepSound /\ \A r \in Recorders : RecordSound(r)
  BY DEF Init, NoPass, SweepSound, RecordSound
<1>11. QED  BY <1>7, <1>8, <1>9, <1>10 DEF IInv, MergeClosesIssue

\* Each step keeps the invariant.
LEMMA InvariantStep == IInv /\ [Next]_vars => IInv'
<1>1. SUFFICES ASSUME IInv, [Next]_vars PROVE IInv'
  OBVIOUS
<1>2. TypeOK'
  BY <1>1, JobTypes, SweepTypes, RestTypes DEF IInv, RestOK, TypeOK
<1>3. \A j \in Jobs : RowSound(j)'
  BY <1>1, RowStep
<1>4. \A r \in Recorders : RecordSound(r)'
  BY <1>1, RecordSoundStep
<1>5. QED  BY <1>1, <1>2, <1>3, <1>4, ForgeStep, FactsStep, SweepStepSound, CloseStep DEF IInv

\* The induction, once for everything below.
LEMMA Invariant == Spec => []IInv
BY InitSound, InvariantStep, PTL DEF Spec

(***************************************************************************)
(* Every row, recorder and pass of the sweep keeps its type: dates stay    *)
(* dates of the forge, and the sweep never overdraws its request budget    *)
(* (_Budget.remaining).                                                    *)
(***************************************************************************)
THEOREM TypeCorrect == Spec => []TypeOK
<1>1. IInv => TypeOK
  BY DEF IInv
<1>2. QED  BY <1>1, Invariant, PTL

(***************************************************************************)
(* pr_merged and pr_closed mean merged and closed, although a run's        *)
(* terminal write, a webhook and two passes of the sweep set them apart    *)
(* (aligned_status).                                                       *)
(***************************************************************************)
THEOREM StatusesKeepMeaning == Spec => []StatusKeepsMeaning
<1>1. IInv => StatusKeepsMeaning
  BY DEF IInv, RowSound, StatusKeepsMeaning
<1>2. QED  BY <1>1, Invariant, PTL

(***************************************************************************)
(* A first merge reaches the issue of its job, or is among the closes that *)
(* raised or were cut off (record, _close_issue).                          *)
(***************************************************************************)
THEOREM MergesReachIssues == Spec => []MergeClosesIssue
<1>1. IInv => MergeClosesIssue
  BY DEF IInv
<1>2. QED  BY <1>1, Invariant, PTL

\* Each step takes no row back.
LEMMA BackStep ==
    ASSUME IInv, [Next]_vars, NEW k \in Jobs
    PROVE  job'[k].delivery # "merged" => job[k].delivery # "merged" /\ job'[k].at >= job[k].at
<1>a. TypeOK /\ FactsSound
  BY DEF IInv
<1>b. (\A i \in Recorders : RecordSound(i)) /\ \A i \in Jobs : RowSound(i)
  BY DEF IInv
<1>c. job[k] \in JobRow /\ job[k].at >= job[k].at
  BY <1>a, DeliveryAssumption DEF TypeOK, JobRow, Times, DeliveryAssumption
<1> DEFINE Forth == job'[k].delivery # "merged" => job[k].delivery # "merged" /\ job'[k].at >= job[k].at
<1>d. job'[k] = job[k] => Forth
  BY <1>c
<1>e. job' = job => Forth
  BY <1>d
<1> SUFFICES Forth
  OBVIOUS
<1> HIDE DEF Forth
<1>. USE <1>e DEF world, sweeping, recorder, history
<1>1. ASSUME NEW p \in PRs, NEW s \in States, ForgeMove(p, s) PROVE Forth
  BY <1>1 DEF ForgeMove
<1>2. ASSUME NEW j \in Jobs, NEW p \in PRs, StoreUrl(j, p) PROVE Forth
  <2>1. k # j => job'[k] = job[k]
    BY <1>2, <1>a DEF StoreUrl, TypeOK
  <2>2. k = j => job'[k] = WithUrl(job[k], "running", p)
    BY <1>2, <1>a DEF StoreUrl, TypeOK
  <2>3. QED  BY <1>c, <1>d, <2>1, <2>2 DEF Forth, WithUrl, JobRow
<1>3. ASSUME NEW j \in Jobs, NEW s \in {"completed", "failed"}, NEW u \in PRs \cup {NoPR}, Finish(j, s, u)
     PROVE  Forth
  <2>1. k # j => job'[k] = job[k]
    BY <1>3, <1>a DEF Finish, TypeOK
  <2>2. k = j => job'[k] = WithUrl(job[k], s, u)
    BY <1>3, <1>a DEF Finish, TypeOK
  <2>3. QED  BY <1>c, <1>d, <2>1, <2>2 DEF Forth, WithUrl, JobRow
<1>4. ASSUME NEW j \in Jobs, FinishRaised(j) PROVE Forth
  <2>1. job'[k].delivery = job[k].delivery /\ job'[k].at = job[k].at
    BY <1>4, <1>a DEF FinishRaised, TypeOK, JobRow
  <2>2. QED  BY <1>c, <2>1 DEF Forth
<1>5. ASSUME NEW i \in Issues, NEW s \in IssueStatuses, IssueMove(i, s) PROVE Forth
  BY <1>5 DEF IssueMove
<1>6. ASSUME NEW f \in Facts, Webhook(f) PROVE Forth
  BY <1>6 DEF Webhook, Begin
<1>7. ASSUME NEW r \in Recorders, Match(r) PROVE Forth
  BY <1>7 DEF Match, Return, Idle
<1>8. ASSUME NEW r \in Recorders, NEW j \in Jobs, Apply(r, j) PROVE Forth
  <2>1. k # j => job'[k] = job[k]
    BY <1>8, <1>a DEF Apply, TypeOK
  <2>2. k = j => job'[k] = Decide(job[k], fact[r], r = "webhook")
    BY <1>8, <1>a DEF Apply, TypeOK
  <2>3. fact[r] \in facts
    BY <1>8, <1>b DEF Apply, RecordSound
  <2>4. Applied(job[k], fact[r], Decide(job[k], fact[r], r = "webhook"))
    BY ONLY <1>a, <1>b, <2>3, k \in Jobs, (r = "webhook") \in BOOLEAN, AppliedRow
  <2>5. QED  BY <1>d, <2>1, <2>2, <2>4 DEF Forth, Applied
<1>9. ASSUME NEW r \in Recorders, NEW i \in Issues, NEW saw \in IssueStatuses, CloseIssue(r, i, saw)
     PROVE  Forth
  BY <1>9 DEF CloseIssue, Return, Idle
<1>10. ASSUME NEW r \in Recorders, RecordFails(r) PROVE Forth
  BY <1>10 DEF RecordFails, Idle
<1>11. ASSUME NEW full \in Passes, StartPass(full) PROVE Forth
  BY <1>11 DEF StartPass
<1>12. ASSUME NEW j \in Jobs, AlignStatus(j) PROVE Forth
  <2>1. job'[k].delivery = job[k].delivery /\ job'[k].at = job[k].at
    BY <1>12, <1>a DEF AlignStatus, TypeOK, JobRow
  <2>2. QED  BY <1>c, <2>1 DEF Forth
<1>13. CASE ListPass
  BY <1>13 DEF ListPass
<1>14. CASE TrackedDone
  BY <1>14 DEF TrackedDone
<1>15. CASE ListUnlinked
  BY <1>15 DEF ListUnlinked, Snapshot
<1>16. CASE PassDone
  BY <1>16 DEF PassDone
<1>17. ASSUME NEW row \in Rows, NEW low \in BOOLEAN, Answered(row, low) PROVE Forth
  BY <1>17 DEF Answered, LookAt, Begin, Snapshot
<1>18. ASSUME NEW row \in Rows, Unanswered(row) PROVE Forth
  BY <1>18 DEF Unanswered, LookAt
<1>19. ASSUME NEW row \in Rows, Refused(row) PROVE Forth
  BY <1>19 DEF Refused, LookAt
<1>20. ASSUME NEW f \in Facts, RecordListed(f) PROVE Forth
  BY <1>20 DEF RecordListed, Begin
<1>21. CASE Crash
  BY <1>21 DEF Crash
<1>22. CASE UNCHANGED vars
  BY <1>22 DEF vars
<1>. HIDE DEF world, sweeping, recorder, history
<1>23. QED
  BY <1>1, <1>2, <1>3, <1>4, <1>5, <1>6, <1>7, <1>8, <1>9, <1>10, <1>11, <1>12, <1>13,
     <1>14, <1>15, <1>16, <1>17, <1>18, <1>19, <1>20, <1>21, <1>22 DEF Next, JobStep,
     RecordStep, SweepStep, Look

(***************************************************************************)
(* No late, repeated or reordered webhook, no pass of the sweep and no     *)
(* terminal write takes a row back in time, or a merge off it              *)
(* (resolve_delivery, JobsRepository.update).                              *)
(***************************************************************************)
THEOREM RowsNeverBack == Spec => NeverBack
<1>1. ASSUME IInv, [Next]_vars
      PROVE  [\A j \in Jobs : job'[j].delivery # "merged" =>
                job[j].delivery # "merged" /\ job'[j].at >= job[j].at]_vars
  BY <1>1, BackStep
<1>2. QED  BY <1>1, Invariant, PTL DEF Spec, NeverBack
-----------------------------------------------------------------------------
(* The latest webhook a job was shown.                                     *)

\* The last of a pull request's facts is how the forge has it, and a merge is its last.
FactsLatest ==
    /\ \A p \in PRs : forge[p].at <= clock
    /\ \A f \in facts :
          /\ f.at <= forge[f.pr].at
          /\ f.at = forge[f.pr].at => f.state = forge[f.pr].state
          /\ f.state = "merged" => forge[f.pr].state = "merged"

(***************************************************************************)
(* What a row says of a date is a fact of a pull request it was linked to, *)
(* and short of a merge no older than the latest webhook it was shown.     *)
(***************************************************************************)
RowHeard(j) ==
    /\ job[j].url # NoPR => job[j].url \in links[j]
    /\ job[j].at # 0 => \E f \in facts : f.pr \in links[j] /\ f.state = job[j].delivery /\ f.at = job[j].at
    /\ job[j].delivery = "merged" => job[j].at # 0
    /\ job[j].delivery = "none" => job[j].at = 0
    /\ heard[j] # 0 => job[j].delivery # "none"
    /\ heard[j] # 0 /\ job[j].delivery # "merged" => job[j].at >= heard[j]

LatestInv == IInv /\ FactsLatest /\ \A j \in Jobs : RowHeard(j)

\* What one fact makes of what a row says, when the row is the fact's or is left alone.
LEMMA DecideHeard ==
    ASSUME NEW row \in JobRow, NEW f \in Facts, f.state # "none", f.at # 0, NEW advance \in BOOLEAN,
           row.delivery = "merged" => row.at # 0, row.delivery = "none" => row.at = 0,
           NEW new, new = Decide(row, f, advance)
    PROVE  /\ new.url = f.pr \/ new = row
           /\ new.url = f.pr => /\ new.delivery # "none"
                                /\ advance /\ new.delivery # "merged" => new.at >= f.at
                                /\ new.delivery = "merged" => new.at # 0
                                /\ \/ new.at = f.at /\ new.delivery = f.state
                                   \/ new.at = row.at /\ new.delivery = row.delivery
<1>1. row.delivery \in States /\ row.at \in Nat /\ row.url \in PRs \cup {NoPR}
  BY DEF JobRow, Times
<1>2. f.state \in States /\ f.at \in Nat /\ f.pr \in PRs /\ NoPR \notin PRs
  BY DeliveryAssumption DEF Facts, Times, DeliveryAssumption
<1>3. CASE row.url \notin {NoPR, f.pr}
  BY <1>2, <1>3 DEF Decide
<1>4. CASE row.url \in {NoPR, f.pr}
  <2> DEFINE hit == Supersedes(row, f, advance)
             delivery == IF hit THEN f.state ELSE row.delivery
             date == IF hit THEN f.at ELSE row.at
  <2>1. new = [status |-> Aligned(row.status, delivery), url |-> f.pr, delivery |-> delivery, at |-> date]
    BY <1>4, Zenon DEF Decide
  <2>2. /\ delivery # "none"
        /\ advance /\ delivery # "merged" => date >= f.at
        /\ delivery = "merged" => date # 0
    <3>1. CASE hit
      <4>1. delivery = f.state /\ date = f.at
        BY <3>1
      <4>2. QED  BY <1>2, <4>1
    <3>2. CASE ~hit
      <4>1. delivery = row.delivery /\ date = row.at
        BY <3>2
      <4>2. f.state = "merged" => row.delivery = "merged"
        BY <3>2 DEF Supersedes
      <4>3. row.delivery # "none" /\ (advance /\ row.delivery # "merged" => row.at >= f.at)
        <5>1. CASE f.state = "merged"
          BY <4>2, <5>1
        <5>2. CASE f.state # "merged" /\ row.delivery \notin {"merged", f.state}
          <6>1. row.at # 0 /\ ~(f.at >= row.at)
            BY <3>2, <5>2 DEF Supersedes
          <6>2. QED  BY <1>1, <1>2, <6>1
        <5>3. CASE f.state # "merged" /\ row.delivery = f.state
          <6>1. row.at # 0 /\ ~(advance /\ f.at > row.at)
            BY <3>2, <5>3 DEF Supersedes
          <6>2. QED  BY <1>1, <1>2, <5>3, <6>1
        <5>4. QED  BY <5>1, <5>2, <5>3
      <4>4. QED  BY <1>1, <4>1, <4>3
    <3>3. QED  BY <3>1, <3>2
  <2>3. new.url = f.pr /\ new.delivery = delivery /\ new.at = date
    BY <2>1
  <2>4. QED  BY <2>2, <2>3
<1>5. QED  BY <1>3, <1>4

\* The forge tells the last fact of a pull request last.
LEMMA LatestStep ==
    ASSUME IInv, FactsLatest, [Next]_vars
    PROVE  FactsLatest'
<1>a. TypeOK /\ FactsLatest
  BY DEF IInv
<1>. USE <1>a DEF TypeOK, world, sweeping, recorder, history, FactsLatest
<1>1. ASSUME NEW p \in PRs, NEW s \in States, ForgeMove(p, s) PROVE FactsLatest'
  <2>1. clock + 1 \in Nat /\ clock \in Nat /\ \A x \in PRs : forge[x].at \in Nat
    BY DEF Times
  <2>2. /\ forge[p].state # "merged"
        /\ forge' = [forge EXCEPT ![p] = [state |-> s, at |-> clock + 1]]
        /\ clock' = clock + 1
        /\ facts' = facts \cup {[pr |-> p, state |-> s, at |-> clock + 1]}
    BY <1>1 DEF ForgeMove, ForgeMoves
  <2>3. \A f \in facts : f.pr \in PRs /\ f.at \in Nat
    BY DEF Facts, Times
  <2>4. \A x \in PRs : forge'[x].at <= clock'
    BY <2>1, <2>2 DEF FactsLatest
  <2>5. ASSUME NEW f \in facts'
        PROVE  /\ f.at <= forge'[f.pr].at
               /\ f.at = forge'[f.pr].at => f.state = forge'[f.pr].state
               /\ f.state = "merged" => forge'[f.pr].state = "merged"
    <3>1. CASE f \in facts /\ f.pr # p
      BY <2>2, <2>3, <3>1 DEF FactsLatest
    <3>2. CASE f \in facts /\ f.pr = p
      <4>1. f.at <= clock /\ f.state # "merged"
        BY <2>1, <2>2, <2>3, <3>2 DEF FactsLatest
      <4>2. forge'[f.pr].at = clock + 1
        BY <2>2, <3>2
      <4>3. QED  BY <2>1, <2>3, <3>2, <4>1, <4>2
    <3>3. CASE f = [pr |-> p, state |-> s, at |-> clock + 1]
      <4>1. forge'[f.pr].at = clock + 1 /\ forge'[f.pr].state = s /\ f.at = clock + 1 /\ f.state = s
        BY <2>2, <3>3
      <4>2. QED  BY <2>1, <4>1
    <3>4. QED  BY <2>2, <2>5, <3>1, <3>2, <3>3
  <2>6. QED  BY <2>4, <2>5 DEF FactsLatest
<1>2. ASSUME NEW j \in Jobs, NEW p \in PRs, StoreUrl(j, p) PROVE FactsLatest'
  BY <1>2 DEF StoreUrl
<1>3. ASSUME NEW j \in Jobs, NEW s \in {"completed", "failed"}, NEW u \in PRs \cup {NoPR}, Finish(j, s, u)
     PROVE  FactsLatest'
  BY <1>3 DEF Finish
<1>4. ASSUME NEW j \in Jobs, FinishRaised(j) PROVE FactsLatest'
  BY <1>4 DEF FinishRaised
<1>5. ASSUME NEW i \in Issues, NEW s \in IssueStatuses, IssueMove(i, s) PROVE FactsLatest'
  BY <1>5 DEF IssueMove
<1>6. ASSUME NEW f \in Facts, Webhook(f) PROVE FactsLatest'
  BY <1>6 DEF Webhook, Begin
<1>7. ASSUME NEW r \in Recorders, Match(r) PROVE FactsLatest'
  BY <1>7 DEF Match, Return, Idle
<1>8. ASSUME NEW r \in Recorders, NEW j \in Jobs, Apply(r, j) PROVE FactsLatest'
  BY <1>8 DEF Apply, Return, Idle
<1>9. ASSUME NEW r \in Recorders, NEW i \in Issues, NEW saw \in IssueStatuses, CloseIssue(r, i, saw)
     PROVE  FactsLatest'
  BY <1>9 DEF CloseIssue, Return, Idle
<1>10. ASSUME NEW r \in Recorders, RecordFails(r) PROVE FactsLatest'
  BY <1>10 DEF RecordFails, Idle
<1>11. ASSUME NEW full \in Passes, StartPass(full) PROVE FactsLatest'
  BY <1>11 DEF StartPass
<1>12. ASSUME NEW j \in Jobs, AlignStatus(j) PROVE FactsLatest'
  BY <1>12 DEF AlignStatus
<1>13. CASE ListPass
  BY <1>13 DEF ListPass
<1>14. CASE TrackedDone
  BY <1>14 DEF TrackedDone
<1>15. CASE ListUnlinked
  BY <1>15 DEF ListUnlinked, Snapshot
<1>16. CASE PassDone
  BY <1>16 DEF PassDone
<1>17. ASSUME NEW row \in Rows, NEW low \in BOOLEAN, Answered(row, low) PROVE FactsLatest'
  BY <1>17 DEF Answered, LookAt, Begin, Snapshot
<1>18. ASSUME NEW row \in Rows, Unanswered(row) PROVE FactsLatest'
  BY <1>18 DEF Unanswered, LookAt
<1>19. ASSUME NEW row \in Rows, Refused(row) PROVE FactsLatest'
  BY <1>19 DEF Refused, LookAt
<1>20. ASSUME NEW f \in Facts, RecordListed(f) PROVE FactsLatest'
  BY <1>20 DEF RecordListed, Begin
<1>21. CASE Crash
  BY <1>21 DEF Crash
<1>22. CASE UNCHANGED vars
  BY <1>22 DEF vars
<1>. HIDE DEF TypeOK, world, sweeping, recorder, history, FactsLatest
<1>23. QED
  BY <1>1, <1>2, <1>3, <1>4, <1>5, <1>6, <1>7, <1>8, <1>9, <1>10, <1>11, <1>12, <1>13,
     <1>14, <1>15, <1>16, <1>17, <1>18, <1>19, <1>20, <1>21, <1>22 DEF Next, JobStep,
     RecordStep, SweepStep, Look

\* Who writes a row knows of the date it leaves, and shows the job its pull request.
LEMMA HeardStep ==
    ASSUME IInv, FactsLatest, [Next]_vars, NEW k \in Jobs, RowHeard(k)
    PROVE  RowHeard(k)'
<1>a. TypeOK /\ RowHeard(k)
  BY DEF IInv
<1>b. DeliveryAssumption /\ FactsSound /\ (\A i \in Recorders : RecordSound(i))
  BY DeliveryAssumption DEF IInv
<1>c. job[k] \in JobRow /\ links[k] \subseteq PRs /\ heard[k] \in Nat /\ NoPR \notin PRs
  BY DeliveryAssumption DEF IInv, TypeOK, Times, DeliveryAssumption
<1>. USE <1>a DEF TypeOK, world, sweeping, recorder, history, RowHeard
<1>1. ASSUME NEW p \in PRs, NEW s \in States, ForgeMove(p, s) PROVE RowHeard(k)'
  <2>1. facts \subseteq facts' /\ UNCHANGED <<job, links, heard>>
    BY <1>1 DEF ForgeMove
  <2>2. QED  BY <2>1
<1>2. ASSUME NEW j \in Jobs, NEW p \in PRs, StoreUrl(j, p) PROVE RowHeard(k)'
  <2>1. k # j => job'[k] = job[k] /\ links'[k] = links[k]
    BY <1>2 DEF StoreUrl
  <2>2. k = j => job'[k] = WithUrl(job[k], "running", p) /\ links'[k] = links[k] \cup {p}
    BY <1>2 DEF StoreUrl
  <2>3. UNCHANGED <<facts, heard>>
    BY <1>2 DEF StoreUrl
  <2>4. CASE k # j
    BY <2>1, <2>3, <2>4
  <2>5. CASE k = j
    <3>1. /\ job'[k].url = p /\ job'[k].at = job[k].at
          /\ job'[k].delivery = job[k].delivery
             \/ (job[k].delivery = "none" /\ job'[k].delivery = "pr_open")
      BY <1>c, <2>2, <2>5 DEF WithUrl, JobRow
    <3>2. links[k] \subseteq links'[k] /\ (p # NoPR => p \in links'[k])
      BY <2>2, <2>5
    <3>3. QED  BY <2>3, <3>1, <3>2
  <2>6. QED  BY <2>4, <2>5
<1>3. ASSUME NEW j \in Jobs, NEW s \in {"completed", "failed"}, NEW u \in PRs \cup {NoPR}, Finish(j, s, u)
     PROVE  RowHeard(k)'
  <2>1. k # j => job'[k] = job[k] /\ links'[k] = links[k]
    BY <1>3 DEF Finish
  <2>2. k = j => job'[k] = WithUrl(job[k], s, u) /\ links'[k] = links[k] \cup ({u} \ {NoPR})
    BY <1>3 DEF Finish
  <2>3. UNCHANGED <<facts, heard>>
    BY <1>3 DEF Finish
  <2>4. CASE k # j
    BY <2>1, <2>3, <2>4
  <2>5. CASE k = j
    <3>1. /\ job'[k].url = u /\ job'[k].at = job[k].at
          /\ job'[k].delivery = job[k].delivery
             \/ (job[k].delivery = "none" /\ job'[k].delivery = "pr_open")
      BY <1>c, <2>2, <2>5 DEF WithUrl, JobRow
    <3>2. links[k] \subseteq links'[k] /\ (u # NoPR => u \in links'[k])
      BY <2>2, <2>5
    <3>3. QED  BY <2>3, <3>1, <3>2
  <2>6. QED  BY <2>4, <2>5
<1>4. ASSUME NEW j \in Jobs, FinishRaised(j) PROVE RowHeard(k)'
  <2>1. job'[k].delivery = job[k].delivery /\ job'[k].at = job[k].at /\ job'[k].url = job[k].url
    BY <1>4, <1>c DEF FinishRaised, JobRow
  <2>2. UNCHANGED <<facts, links, heard>>
    BY <1>4 DEF FinishRaised
  <2>3. QED  BY <2>1, <2>2
<1>5. ASSUME NEW i \in Issues, NEW s \in IssueStatuses, IssueMove(i, s) PROVE RowHeard(k)'
  BY <1>5 DEF IssueMove
<1>6. ASSUME NEW f \in Facts, Webhook(f) PROVE RowHeard(k)'
  BY <1>6 DEF Webhook, Begin
<1>7. ASSUME NEW r \in Recorders, Match(r) PROVE RowHeard(k)'
  BY <1>7 DEF Match, Return, Idle
<1>8. ASSUME NEW r \in Recorders, NEW j \in Jobs, Apply(r, j) PROVE RowHeard(k)'
  <2> DEFINE new == Decide(job[j], fact[r], r = "webhook")
  <2>1. /\ job' = [job EXCEPT ![j] = new] /\ facts' = facts
        /\ links' = [links EXCEPT ![j] = links[j] \cup {new.url}]
        /\ heard' = heard \/ (/\ new.url = fact[r].pr /\ r = "webhook"
                              /\ heard' = [heard EXCEPT ![j] = fact[r].at])
        /\ fact[r] \in facts
    BY <1>8, <1>b DEF Apply, RecordSound
  <2>2. CASE k # j
    BY <2>1, <2>2
  <2>3. CASE k = j
    <3>1. fact[r] \in Facts /\ fact[r].state # "none" /\ fact[r].at # 0 /\ fact[r].at \in Nat
      BY <1>b, <2>1 DEF FactsSound, Facts, Times
    <3>2. Applied(job[k], fact[r], new)
      BY ONLY IInv, <2>1, <2>3, k \in Jobs, (r = "webhook") \in BOOLEAN, AppliedRow DEF IInv
    <3>3. /\ new.url = fact[r].pr \/ new = job[k]
          /\ new.url = fact[r].pr => /\ new.delivery # "none"
                                     /\ r = "webhook" /\ new.delivery # "merged" => new.at >= fact[r].at
                                     /\ new.delivery = "merged" => new.at # 0
                                     /\ \/ new.at = fact[r].at /\ new.delivery = fact[r].state
                                        \/ new.at = job[k].at /\ new.delivery = job[k].delivery
      <4>1. job[k] \in JobRow /\ (job[k].delivery = "merged" => job[k].at # 0)
            /\ (job[k].delivery = "none" => job[k].at = 0)
        BY <1>c
      <4>2. new = Decide(job[k], fact[r], r = "webhook") /\ (r = "webhook") \in BOOLEAN
        BY <2>3
      <4> DEFINE told == r = "webhook"
      <4> HIDE DEF new, told
      <4>3. new = Decide(job[k], fact[r], told) /\ told \in BOOLEAN
        BY <4>2 DEF told
      <4>4. /\ new.url = fact[r].pr \/ new = job[k]
            /\ new.url = fact[r].pr => /\ new.delivery # "none"
                                       /\ told /\ new.delivery # "merged" => new.at >= fact[r].at
                                       /\ new.delivery = "merged" => new.at # 0
                                       /\ \/ new.at = fact[r].at /\ new.delivery = fact[r].state
                                          \/ new.at = job[k].at /\ new.delivery = job[k].delivery
        BY ONLY <3>1, <4>1, <4>3, DecideHeard
      <4>5. QED  BY <4>4 DEF told
    <3> HIDE DEF new
    <3>4. job'[k] = new /\ links'[k] = links[k] \cup {new.url} /\ new.at \in Nat /\ job[k].at \in Nat
      BY <1>c, <2>1, <2>3, <3>2 DEF Applied, JobRow, Times
    <3>5. CASE new.url # fact[r].pr
      <4>1. new = job[k] /\ heard' = heard /\ links'[k] = links[k] \cup {job[k].url}
        BY <2>1, <3>3, <3>4, <3>5
      <4>2. new.url # NoPR /\ links'[k] = links[k]
        BY <3>2, <4>1 DEF Applied
      <4>3. QED  BY <2>1, <3>4, <4>1, <4>2
    <3>6. CASE new.url = fact[r].pr
      <4>1. new.at # 0 => \E f \in facts : f.pr \in links'[k] /\ f.state = new.delivery /\ f.at = new.at
        <5>1. CASE new.at = fact[r].at /\ new.delivery = fact[r].state
          BY <2>1, <3>4, <3>6, <5>1
        <5>2. CASE new.at = job[k].at /\ new.delivery = job[k].delivery
          BY <3>4, <5>2
        <5>3. QED  BY <3>3, <3>6, <5>1, <5>2
      <4>2. new.delivery # "merged" => new.at >= job[k].at /\ job[k].delivery # "merged"
        BY <3>2 DEF Applied
      <4>3. heard'[k] = heard[k] \/ (heard'[k] = fact[r].at /\ r = "webhook")
        BY <2>1, <2>3
      <4>4. heard'[k] # 0 /\ new.delivery # "merged" => new.at >= heard'[k]
        BY <1>c, <3>1, <3>3, <3>4, <3>6, <4>2, <4>3
      <4>5. QED  BY <2>1, <3>3, <3>4, <3>6, <4>1, <4>4
    <3>7. QED  BY <3>5, <3>6
  <2>4. QED  BY <2>2, <2>3
<1>9. ASSUME NEW r \in Recorders, NEW i \in Issues, NEW saw \in IssueStatuses, CloseIssue(r, i, saw)
     PROVE  RowHeard(k)'
  BY <1>9 DEF CloseIssue, Return, Idle
<1>10. ASSUME NEW r \in Recorders, RecordFails(r) PROVE RowHeard(k)'
  BY <1>10 DEF RecordFails, Idle
<1>11. ASSUME NEW full \in Passes, StartPass(full) PROVE RowHeard(k)'
  BY <1>11 DEF StartPass
<1>12. ASSUME NEW j \in Jobs, AlignStatus(j) PROVE RowHeard(k)'
  <2>1. job'[k].delivery = job[k].delivery /\ job'[k].at = job[k].at /\ job'[k].url = job[k].url
    BY <1>12, <1>c DEF AlignStatus, JobRow
  <2>2. UNCHANGED <<facts, links, heard>>
    BY <1>12 DEF AlignStatus
  <2>3. QED  BY <2>1, <2>2
<1>13. CASE ListPass
  BY <1>13 DEF ListPass
<1>14. CASE TrackedDone
  BY <1>14 DEF TrackedDone
<1>15. CASE ListUnlinked
  BY <1>15 DEF ListUnlinked, Snapshot
<1>16. CASE PassDone
  BY <1>16 DEF PassDone
<1>17. ASSUME NEW row \in Rows, NEW low \in BOOLEAN, Answered(row, low) PROVE RowHeard(k)'
  BY <1>17 DEF Answered, LookAt, Begin, Snapshot
<1>18. ASSUME NEW row \in Rows, Unanswered(row) PROVE RowHeard(k)'
  BY <1>18 DEF Unanswered, LookAt
<1>19. ASSUME NEW row \in Rows, Refused(row) PROVE RowHeard(k)'
  BY <1>19 DEF Refused, LookAt
<1>20. ASSUME NEW f \in Facts, RecordListed(f) PROVE RowHeard(k)'
  BY <1>20 DEF RecordListed, Begin
<1>21. CASE Crash
  BY <1>21 DEF Crash
<1>22. CASE UNCHANGED vars
  BY <1>22 DEF vars
<1>. HIDE DEF TypeOK, world, sweeping, recorder, history, RowHeard
<1>23. QED
  BY <1>1, <1>2, <1>3, <1>4, <1>5, <1>6, <1>7, <1>8, <1>9, <1>10, <1>11, <1>12, <1>13,
     <1>14, <1>15, <1>16, <1>17, <1>18, <1>19, <1>20, <1>21, <1>22 DEF Next, JobStep,
     RecordStep, SweepStep, Look

\* What the sources of facts and the rows have to do with each other, throughout.
LEMMA LatestInvariant == Spec => []LatestInv
<1>1. Init => FactsLatest /\ \A j \in Jobs : RowHeard(j)
  <2>1. SUFFICES ASSUME Init PROVE FactsLatest /\ \A j \in Jobs : RowHeard(j)
    OBVIOUS
  <2>2. IInv
    BY <2>1, InitSound
  <2>3. FactsLatest
    <3>1. \A x \in PRs : forge[x] = IF x \in Before THEN [state |-> "pr_open", at |-> 1]
                                                   ELSE [state |-> "none", at |-> 0]
      BY <2>1 DEF Init
    <3>2. facts = {[pr |-> p, state |-> "pr_open", at |-> 1] : p \in Before} /\ clock = 1
      BY <2>1 DEF Init
    <3>3. Before \subseteq PRs
      BY DeliveryAssumption DEF DeliveryAssumption
    <3>4. QED  BY <3>1, <3>2, <3>3 DEF FactsLatest
  <2>4. ASSUME NEW j \in Jobs PROVE RowHeard(j)
    <3>1. job[j] \in JobRow
      BY <2>2 DEF IInv, TypeOK
    <3>2. job[j].at = 0 /\ job[j].delivery \in {"none", "pr_open"} /\ heard[j] = 0
          /\ links[j] = {job[j].url} \ {NoPR}
      BY <2>1 DEF Init
    <3>3. QED  BY <3>1, <3>2 DEF RowHeard, JobRow
  <2>5. QED  BY <2>3, <2>4
<1>2. ASSUME LatestInv, [Next]_vars PROVE LatestInv'
  <2>1. IInv'
    BY <1>2, InvariantStep DEF LatestInv
  <2>2. FactsLatest' /\ \A j \in Jobs : RowHeard(j)'
    BY <1>2, LatestStep, HeardStep DEF LatestInv
  <2>3. QED  BY <2>1, <2>2 DEF LatestInv
<1>3. QED  BY <1>1, <1>2, InitSound, PTL DEF Spec, LatestInv

(***************************************************************************)
(* A job with the one pull request that was shown its latest webhook says  *)
(* what the forge says: no earlier fact that comes late, no fact that      *)
(* comes twice and no pass of the sweep takes it from there                *)
(* (resolve_delivery).                                                     *)
(***************************************************************************)
THEOREM LatestWebhookWins == Spec => []LatestWins
<1>1. LatestInv => LatestWins
  <2>1. SUFFICES ASSUME LatestInv, NEW j \in Jobs, NEW p \in PRs,
                        links[j] = {p}, heard[j] # 0, heard[j] = forge[p].at
                 PROVE  job[j].delivery = forge[p].state
    BY DEF LatestWins
  <2>2. RowHeard(j) /\ FactsLatest /\ TypeOK
    BY <2>1 DEF LatestInv, IInv
  <2>3. job[j].at \in Nat /\ heard[j] \in Nat
    BY <2>2 DEF TypeOK, JobRow, Times
  <2>4. job[j].at # 0
    BY <2>1, <2>2, <2>3 DEF RowHeard
  <2>5. PICK f \in facts : f.pr = p /\ f.state = job[j].delivery /\ f.at = job[j].at
    BY <2>1, <2>2, <2>4 DEF RowHeard
  <2>6. f.at <= forge[p].at /\ (f.at = forge[p].at => f.state = forge[p].state)
        /\ (f.state = "merged" => forge[p].state = "merged")
    BY <2>2, <2>5 DEF FactsLatest
  <2>7. job[j].delivery # "merged" => job[j].at >= heard[j]
    BY <2>1, <2>2 DEF RowHeard
  <2>8. QED  BY <2>1, <2>3, <2>5, <2>6, <2>7
<1>2. QED  BY <1>1, LatestInvariant, PTL

(***************************************************************************)
(* What a row says of its pull request was so at the time it says, of a    *)
(* pull request it is or was linked to (resolve_delivery writes state and  *)
(* date together, apply decides on the locked row).                        *)
(***************************************************************************)
THEOREM RowsWereTrue == Spec => []RecordedWasTrue
<1>1. LatestInv => RecordedWasTrue
  BY DEF LatestInv, RowHeard, RecordedWasTrue
<1>2. QED  BY <1>1, LatestInvariant, PTL

(***************************************************************************)
(* A job tells the truth about its pull request: state, date and status    *)
(* (resolve_delivery, aligned_status).                                     *)
(***************************************************************************)
THEOREM RowsTruthful == Spec => []RowsTellTruth
BY RowsWereTrue, StatusesKeepMeaning, PTL DEF RowsTellTruth
=============================================================================
