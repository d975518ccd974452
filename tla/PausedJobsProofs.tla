-------------------------- MODULE PausedJobsProofs --------------------------
(***************************************************************************)
(* What PausedJobs promises, proved for every set of jobs and every number *)
(* of pauses and restarts, whatever outlasts whatever else.                *)
(***************************************************************************)
EXTENDS PausedJobs, TLAPS

\* The row of a job agrees with the tasks at work on it: a claim is one
\* statement, so there is a task only where the row is running or is over.
RowSound(j) ==
    /\ job[j].status # "paused" => job[j].wait = "none"
    /\ runs[j] > 0 => job[j].status \in {"running", "ended"}
    /\ runs[j] <= 1
    /\ j \in freeing => job[j].status = "expired"

Sound == \A j \in Jobs : RowSound(j)

\* A dispatch inserts the issue's next job only after it found none live.
OneLive ==
    /\ \A j, k \in Jobs : IsLive(j) /\ IsLive(k) => j = k
    /\ dispatching = "admitted" => NoneLive


-----------------------------------------------------------------------------
(* The types and the rows. *)

\* A row written by an UPDATE or an INSERT is a row.
LEMMA RowType ==
    ASSUME NEW s \in {"none", "running", "paused", "expired", "ended"}, NEW w \in Waits,
           NEW m \in {"resume", "relaunch"}
    PROVE  Row(s, w, m) \in JobRow
BY DEF Row, JobRow

\* The rows the actions write for a job.
LEMMA ChangedRows ==
    ASSUME TypeOK, NEW i \in Jobs
    PROVE  /\ job[i] \in JobRow
           /\ Row("running", "none", "resume") \in JobRow
           /\ Row("paused", job[i].wait, job[i].mode) \in JobRow
           /\ Row("ended", "none", "resume") \in JobRow
           /\ Row("expired", "none", "resume") \in JobRow
           /\ [job[i] EXCEPT !.due = TRUE] \in JobRow
           /\ [job[i] EXCEPT !.old = TRUE] \in JobRow
<1>1. job[i] \in JobRow
  BY DEF TypeOK
<1>2. [job[i] EXCEPT !.due = TRUE] \in JobRow /\ [job[i] EXCEPT !.old = TRUE] \in JobRow
  BY <1>1 DEF JobRow
<1>3. QED  BY <1>1, <1>2, RowType DEF JobRow, Waits

\* The rows they write for the issue.
LEMMA IssueTypes ==
    ASSUME NEW s \in {"open", "triaging", "closed"}
    PROVE  Issue(s) \in IssueRow
BY DEF Issue, IssueRow

\* No job is there yet.
LEMMA InitSound == Init => TypeOK /\ Sound
<1>. SUFFICES ASSUME Init PROVE TypeOK /\ Sound
  OBVIOUS
<1>1. Row("none", "none", "resume") \in JobRow
  BY RowType DEF Waits
<1>2. job \in [Jobs -> JobRow] /\ box \in [Jobs -> {"none", "young", "old"}] /\ runs \in [Jobs -> Nat]
  BY <1>1 DEF Init
<1>3. /\ issue \in IssueRow /\ dispatching = "no" /\ pauses \in Nat /\ restarts \in Nat
      /\ waiting \subseteq Jobs /\ expiring \subseteq Jobs
      /\ freeing \subseteq Jobs /\ cancelling \subseteq Jobs /\ late \subseteq Jobs
  BY IssueTypes DEF Init
<1>4. ASSUME NEW j \in Jobs PROVE RowSound(j)
  <2>1. job[j] = Row("none", "none", "resume") /\ runs[j] = 0 /\ freeing = {}
    BY DEF Init
  <2>2. QED  BY <2>1 DEF RowSound, Row
<1>5. QED  BY <1>2, <1>3, <1>4, Zenon DEF TypeOK, Sound

\* Each step keeps the types.
LEMMA TypeStep ==
    ASSUME TypeOK, Sound, [Next]_vars
    PROVE  TypeOK'
<1>. USE PausedAssumption, TypeOK, Sound DEF TypeOK, memory
<1>1. CASE Dispatch
  BY <1>1, IssueTypes DEF Dispatch
<1>2. CASE Admit
  BY <1>2 DEF Admit
<1>3. CASE RollBack
  BY <1>3, IssueTypes DEF RollBack
<1>4. CASE ListWaits
  BY <1>4 DEF ListWaits
<1>5. CASE ListPauses
  BY <1>5 DEF ListPauses, Expirable
<1>6. CASE Reap
  BY <1>6 DEF Reap, Spared
<1>7. CASE AgeIssue
  BY <1>7 DEF AgeIssue, IssueRow
<1>8. CASE HealStaleTriaging
  BY <1>8, IssueTypes DEF HealStaleTriaging
<1>9. CASE Restart
  <2>1. PICK kept \in SUBSET {j \in Jobs : ~IsLive(j)} :
          box' = [j \in Jobs |-> IF IsLive(j) \/ j \in kept THEN box[j] ELSE "none"]
    BY <1>9, Zenon DEF Restart
  <2>2. box' \in [Jobs -> {"none", "young", "old"}]
    BY TypeOK, <2>1 DEF TypeOK
  <2>3. runs' \in [Jobs -> Nat]
    BY <1>9 DEF Restart
  <2>4. /\ dispatching' = "no" /\ waiting' = {} /\ expiring' = {} /\ freeing' = {} /\ cancelling' = {} /\ late' = {}
        /\ restarts' = restarts + 1 /\ UNCHANGED <<job, issue, pauses>>
    BY <1>9, Zenon DEF Restart
  <2>5. /\ restarts' \in Nat
        /\ waiting' \subseteq Jobs /\ expiring' \subseteq Jobs
        /\ freeing' \subseteq Jobs /\ cancelling' \subseteq Jobs /\ late' \subseteq Jobs
    <3>1. restarts \in Nat
      BY TypeOK, Zenon DEF TypeOK
    <3>2. restarts' \in Nat
      BY <3>1, <2>4
    <3>3. QED  BY <3>2, <2>4, Zenon
  <2>6. QED  BY TypeOK, <2>2, <2>3, <2>4, <2>5, Zenon DEF TypeOK
<1>10. ASSUME NEW i \in Jobs, Insert(i) PROVE TypeOK'
  <2>1. job' \in [Jobs -> JobRow]
    BY <1>10, ChangedRows DEF Insert, Unused
  <2>2. runs' \in [Jobs -> Nat] /\ freeing' \subseteq Jobs
    BY <1>10 DEF Insert, Unused, Waiting
  <2>3. issue' \in IssueRow
    BY <1>10, IssueTypes DEF Insert, Unused
  <2>4. QED  BY <1>10, <2>1, <2>2, <2>3 DEF Insert, Unused
<1>11. ASSUME NEW i \in Jobs, StartBox(i) PROVE TypeOK'
  BY <1>11 DEF StartBox
<1>12. ASSUME NEW i \in Jobs, PauseForPerson(i) PROVE TypeOK'
  <2>1. job' \in [Jobs -> JobRow]
    BY <1>12, ChangedRows DEF PauseForPerson
  <2>2. runs' \in [Jobs -> Nat] /\ freeing' \subseteq Jobs
    BY <1>12 DEF PauseForPerson, Waiting
  <2>3. issue' \in IssueRow
    BY <1>12, IssueTypes DEF PauseForPerson
  <2>4. QED  BY <1>12, <2>1, <2>2, <2>3 DEF PauseForPerson
<1>13. ASSUME NEW i \in Jobs, End(i) PROVE TypeOK'
  <2>1. job' \in [Jobs -> JobRow]
    BY <1>13, ChangedRows DEF End
  <2>2. runs' \in [Jobs -> Nat] /\ freeing' \subseteq Jobs
    BY <1>13 DEF End, Waiting
  <2>3. issue' \in IssueRow
    BY <1>13, IssueTypes DEF End
  <2>4. QED  BY <1>13, <2>1, <2>2, <2>3 DEF End
<1>14. ASSUME NEW i \in Jobs, NEW w \in Waits \ {"none"},
            NEW m \in {"resume", "relaunch"}, Park(i, w, m)
     PROVE  TypeOK'
  <2>1. Row("paused", w, m) \in JobRow
    BY RowType
  <2>2. job' \in [Jobs -> JobRow]
    BY <1>14, <2>1 DEF Park, Parked
  <2>3. QED  BY <1>14, <2>2 DEF Park
<1>15. ASSUME NEW i \in Jobs, AccountDue(i) PROVE TypeOK'
  <2>1. job' \in [Jobs -> JobRow]
    BY <1>15, ChangedRows DEF AccountDue
  <2>2. runs' \in [Jobs -> Nat] /\ freeing' \subseteq Jobs
    BY <1>15 DEF AccountDue, Waiting
  <2>3. issue' \in IssueRow
    BY <1>15, IssueTypes DEF AccountDue
  <2>4. QED  BY <1>15, <2>1, <2>2, <2>3 DEF AccountDue
<1>16. ASSUME NEW i \in Jobs, GoOn(i) PROVE TypeOK'
  <2>1. job' \in [Jobs -> JobRow]
    BY <1>16, ChangedRows DEF GoOn, ClaimedWait
  <2>2. runs' \in [Jobs -> Nat] /\ freeing' \subseteq Jobs
    BY <1>16 DEF GoOn, ClaimedWait, Waiting
  <2>3. issue' \in IssueRow
    BY <1>16, IssueTypes DEF GoOn, ClaimedWait
  <2>4. QED  BY <1>16, <2>1, <2>2, <2>3 DEF GoOn, ClaimedWait
<1>17. ASSUME NEW i \in Jobs, TryNow(i) PROVE TypeOK'
  <2>1. job' \in [Jobs -> JobRow]
    BY <1>17, ChangedRows DEF TryNow, ClaimedWait
  <2>2. runs' \in [Jobs -> Nat] /\ freeing' \subseteq Jobs
    BY <1>17 DEF TryNow, ClaimedWait, Waiting
  <2>3. issue' \in IssueRow
    BY <1>17, IssueTypes DEF TryNow, ClaimedWait
  <2>4. QED  BY <1>17, <2>1, <2>2, <2>3 DEF TryNow, ClaimedWait
<1>18. ASSUME NEW i \in Jobs, Continue(i) PROVE TypeOK'
  <2>1. job' \in [Jobs -> JobRow]
    BY <1>18, ChangedRows DEF Continue
  <2>2. runs' \in [Jobs -> Nat] /\ freeing' \subseteq Jobs
    BY <1>18 DEF Continue, Waiting
  <2>3. issue' \in IssueRow
    BY <1>18, IssueTypes DEF Continue
  <2>4. QED  BY <1>18, <2>1, <2>2, <2>3 DEF Continue
<1>19. ASSUME NEW i \in Jobs, CancelBegin(i) PROVE TypeOK'
  BY <1>19 DEF CancelBegin
<1>20. ASSUME NEW i \in Jobs, CancelWrite(i) PROVE TypeOK'
  <2>1. job' \in [Jobs -> JobRow]
    BY <1>20, ChangedRows DEF CancelWrite
  <2>2. runs' \in [Jobs -> Nat] /\ freeing' \subseteq Jobs
    BY <1>20 DEF CancelWrite, Waiting
  <2>3. issue' \in IssueRow
    BY <1>20, IssueTypes DEF CancelWrite
  <2>4. QED  BY <1>20, <2>1, <2>2, <2>3 DEF CancelWrite
<1>21. ASSUME NEW i \in Jobs, AgeBox(i) PROVE TypeOK'
  BY <1>21 DEF AgeBox
<1>22. ASSUME NEW i \in Jobs, AgeRow(i) PROVE TypeOK'
  <2>1. job' \in [Jobs -> JobRow]
    BY <1>22, ChangedRows DEF AgeRow
  <2>2. runs' \in [Jobs -> Nat] /\ freeing' \subseteq Jobs
    BY <1>22 DEF AgeRow, Waiting
  <2>3. issue' \in IssueRow
    BY <1>22, IssueTypes DEF AgeRow
  <2>4. QED  BY <1>22, <2>1, <2>2, <2>3 DEF AgeRow
<1>23. ASSUME NEW i \in Jobs, Expire(i) PROVE TypeOK'
  <2>1. job' \in [Jobs -> JobRow]
    BY <1>23, ChangedRows DEF Expire
  <2>2. runs' \in [Jobs -> Nat] /\ freeing' \subseteq Jobs
    BY <1>23 DEF Expire, Waiting
  <2>3. issue' \in IssueRow
    BY <1>23, IssueTypes DEF Expire
  <2>4. QED  BY <1>23, <2>1, <2>2, <2>3 DEF Expire
<1>24. ASSUME NEW i \in Jobs, Free(i) PROVE TypeOK'
  BY <1>24 DEF Free
<1>25. ASSUME NEW i \in Jobs, Recover(i) PROVE TypeOK'
  <2>1. job' \in [Jobs -> JobRow]
    BY <1>25, ChangedRows DEF Recover
  <2>2. runs' \in [Jobs -> Nat] /\ freeing' \subseteq Jobs
    BY <1>25 DEF Recover, Waiting
  <2>3. issue' \in IssueRow
    BY <1>25, IssueTypes DEF Recover
  <2>4. QED  BY <1>25, <2>1, <2>2, <2>3 DEF Recover
<1>26. CASE UNCHANGED vars
  BY <1>26 DEF vars
<1>27. QED
  BY <1>1, <1>2, <1>3, <1>4, <1>5, <1>6, <1>7, <1>8, <1>9, <1>10, <1>11, <1>12, <1>13,
     <1>14, <1>15, <1>16, <1>17, <1>18, <1>19, <1>20, <1>21, <1>22, <1>23, <1>24, <1>25,
     <1>26 DEF Next

\* Each step keeps the rows, the tasks and the expired jobs in agreement.
LEMMA SoundStep ==
    ASSUME TypeOK, Sound, [Next]_vars
    PROVE  Sound'
<1>. SUFFICES ASSUME NEW j \in Jobs PROVE RowSound(j)'
  BY DEF Sound
<1>a. RowSound(j)
  BY DEF Sound
<1>. USE TypeOK, Sound, <1>a DEF TypeOK, JobRow, Row, Waits, Live, memory, RowSound,
   IsLive, Waiting, Sound
<1>1. CASE Dispatch
  BY <1>1 DEF Dispatch
<1>2. CASE Admit
  BY <1>2 DEF Admit
<1>3. CASE RollBack
  BY <1>3 DEF RollBack
<1>4. CASE ListWaits
  BY <1>4 DEF ListWaits
<1>5. CASE ListPauses
  BY <1>5 DEF ListPauses, Expirable
<1>6. CASE Reap
  BY <1>6 DEF Reap, Spared
<1>7. CASE AgeIssue
  BY <1>7 DEF AgeIssue
<1>8. CASE HealStaleTriaging
  BY <1>8 DEF HealStaleTriaging, Unattended
<1>9. CASE Restart
  BY <1>9 DEF Restart
<1>10. ASSUME NEW i \in Jobs, Insert(i) PROVE RowSound(j)'
  BY <1>10 DEF Insert, Unused
<1>11. ASSUME NEW i \in Jobs, StartBox(i) PROVE RowSound(j)'
  BY <1>11 DEF StartBox
<1>12. ASSUME NEW i \in Jobs, PauseForPerson(i) PROVE RowSound(j)'
  BY <1>12 DEF PauseForPerson
<1>13. ASSUME NEW i \in Jobs, End(i) PROVE RowSound(j)'
  BY <1>13 DEF End
<1>14. ASSUME NEW i \in Jobs, NEW w \in Waits \ {"none"},
            NEW m \in {"resume", "relaunch"}, Park(i, w, m)
     PROVE  RowSound(j)'
  BY <1>14 DEF Park, Parked
<1>15. ASSUME NEW i \in Jobs, AccountDue(i) PROVE RowSound(j)'
  BY <1>15 DEF AccountDue
<1>16. ASSUME NEW i \in Jobs, GoOn(i) PROVE RowSound(j)'
  BY <1>16 DEF GoOn, ClaimedWait
<1>17. ASSUME NEW i \in Jobs, TryNow(i) PROVE RowSound(j)'
  BY <1>17 DEF TryNow, ClaimedWait
<1>18. ASSUME NEW i \in Jobs, Continue(i) PROVE RowSound(j)'
  BY <1>18 DEF Continue
<1>19. ASSUME NEW i \in Jobs, CancelBegin(i) PROVE RowSound(j)'
  BY <1>19 DEF CancelBegin
<1>20. ASSUME NEW i \in Jobs, CancelWrite(i) PROVE RowSound(j)'
  BY <1>20 DEF CancelWrite
<1>21. ASSUME NEW i \in Jobs, AgeBox(i) PROVE RowSound(j)'
  BY <1>21 DEF AgeBox
<1>22. ASSUME NEW i \in Jobs, AgeRow(i) PROVE RowSound(j)'
  BY <1>22 DEF AgeRow
<1>23. ASSUME NEW i \in Jobs, Expire(i) PROVE RowSound(j)'
  BY <1>23 DEF Expire
<1>24. ASSUME NEW i \in Jobs, Free(i) PROVE RowSound(j)'
  BY <1>24 DEF Free
<1>25. ASSUME NEW i \in Jobs, Recover(i) PROVE RowSound(j)'
  BY <1>25 DEF Recover
<1>26. CASE UNCHANGED vars
  BY <1>26 DEF vars
<1>27. QED
  BY <1>1, <1>2, <1>3, <1>4, <1>5, <1>6, <1>7, <1>8, <1>9, <1>10, <1>11, <1>12, <1>13,
     <1>14, <1>15, <1>16, <1>17, <1>18, <1>19, <1>20, <1>21, <1>22, <1>23, <1>24, <1>25,
     <1>26 DEF Next

-----------------------------------------------------------------------------
(* The issue has one live job. *)

\* No job is live yet.
LEMMA InitOne == Init => OneLive
BY DEF Init, OneLive, IsLive, Live, Row

\* Only a dispatch makes a job live, which found no live job and is the only one.
LEMMA OneStep ==
    ASSUME TypeOK, Sound, OneLive, [Next]_vars
    PROVE  OneLive'
<1>. USE TypeOK, OneLive DEF TypeOK, JobRow, Row, Live, memory, OneLive, IsLive,
   NoneLive, Waiting
<1>1. CASE Dispatch
  BY <1>1 DEF Dispatch
<1>2. CASE Admit
  BY <1>2 DEF Admit
<1>3. CASE RollBack
  BY <1>3 DEF RollBack
<1>4. CASE ListWaits
  BY <1>4 DEF ListWaits
<1>5. CASE ListPauses
  BY <1>5 DEF ListPauses, Expirable
<1>6. CASE Reap
  BY <1>6 DEF Reap, Spared
<1>7. CASE AgeIssue
  BY <1>7 DEF AgeIssue
<1>8. CASE HealStaleTriaging
  BY <1>8 DEF HealStaleTriaging, Unattended
<1>9. CASE Restart
  BY <1>9 DEF Restart
<1>10. ASSUME NEW i \in Jobs, Insert(i) PROVE OneLive'
  BY <1>10 DEF Insert, Unused
<1>11. ASSUME NEW i \in Jobs, StartBox(i) PROVE OneLive'
  BY <1>11 DEF StartBox
<1>12. ASSUME NEW i \in Jobs, PauseForPerson(i) PROVE OneLive'
  BY <1>12 DEF PauseForPerson
<1>13. ASSUME NEW i \in Jobs, End(i) PROVE OneLive'
  BY <1>13 DEF End
<1>14. ASSUME NEW i \in Jobs, NEW w \in Waits \ {"none"},
            NEW m \in {"resume", "relaunch"}, Park(i, w, m)
     PROVE  OneLive'
  BY <1>14 DEF Park, Parked
<1>15. ASSUME NEW i \in Jobs, AccountDue(i) PROVE OneLive'
  BY <1>15 DEF AccountDue
<1>16. ASSUME NEW i \in Jobs, GoOn(i) PROVE OneLive'
  BY <1>16 DEF GoOn, ClaimedWait
<1>17. ASSUME NEW i \in Jobs, TryNow(i) PROVE OneLive'
  BY <1>17 DEF TryNow, ClaimedWait
<1>18. ASSUME NEW i \in Jobs, Continue(i) PROVE OneLive'
  BY <1>18 DEF Continue
<1>19. ASSUME NEW i \in Jobs, CancelBegin(i) PROVE OneLive'
  BY <1>19 DEF CancelBegin
<1>20. ASSUME NEW i \in Jobs, CancelWrite(i) PROVE OneLive'
  BY <1>20 DEF CancelWrite
<1>21. ASSUME NEW i \in Jobs, AgeBox(i) PROVE OneLive'
  BY <1>21 DEF AgeBox
<1>22. ASSUME NEW i \in Jobs, AgeRow(i) PROVE OneLive'
  BY <1>22 DEF AgeRow
<1>23. ASSUME NEW i \in Jobs, Expire(i) PROVE OneLive'
  BY <1>23 DEF Expire
<1>24. ASSUME NEW i \in Jobs, Free(i) PROVE OneLive'
  BY <1>24 DEF Free
<1>25. ASSUME NEW i \in Jobs, Recover(i) PROVE OneLive'
  BY <1>25 DEF Recover
<1>26. CASE UNCHANGED vars
  BY <1>26 DEF vars
<1>27. QED
  BY <1>1, <1>2, <1>3, <1>4, <1>5, <1>6, <1>7, <1>8, <1>9, <1>10, <1>11, <1>12, <1>13,
     <1>14, <1>15, <1>16, <1>17, <1>18, <1>19, <1>20, <1>21, <1>22, <1>23, <1>24, <1>25,
     <1>26 DEF Next

-----------------------------------------------------------------------------
(* The theorems. *)

(***************************************************************************)
(* The inductive invariant.                                                *)
(***************************************************************************)
LEMMA Invariant == Spec => [](TypeOK /\ Sound /\ OneLive)
<1>1. Init => TypeOK /\ Sound /\ OneLive
  BY InitSound, InitOne
<1>2. (TypeOK /\ Sound /\ OneLive) /\ [Next]_vars => (TypeOK /\ Sound /\ OneLive)'
  BY TypeStep, SoundStep, OneStep
<1>3. QED  BY <1>1, <1>2, PTL DEF Spec

(***************************************************************************)
(* The types (TypeOK), for every set of jobs and all bounds.               *)
(***************************************************************************)
THEOREM TypeCorrect == Spec => []TypeOK
BY Invariant, PTL

(***************************************************************************)
(* However the loop, "Try now", a person and the boot of the next process  *)
(* interleave, one task works on a job (claim_account_wait).               *)
(***************************************************************************)
THEOREM OneTaker == Spec => []OneRun
<1>1. Sound => OneRun
  BY DEF Sound, RowSound, OneRun
<1>2. QED  BY <1>1, Invariant, PTL

(***************************************************************************)
(* A live job keeps its sandbox: the expiry claims the row before it       *)
(* destroys the sandbox (_expire_paused_jobs, RAV-1063).                   *)
(***************************************************************************)
THEOREM LiveJobsKeepBoxes == Spec => LiveJobKeepsBox
<1> DEFINE Kept(j) ==
       box[j] # "none" /\ box'[j] = "none" =>
          \/ job'[j].status \notin Live
          \/ j \in cancelling'
          \/ job'[j].status = "paused" /\ job'[j].mode = "relaunch"
<1>1. ASSUME TypeOK, Sound, [Next]_vars PROVE [\A j \in Jobs : Kept(j)]_vars
  <2>. SUFFICES ASSUME NEW j \in Jobs PROVE Kept(j)
    OBVIOUS
  <2>a. RowSound(j)
    BY <1>1 DEF Sound
  <2>. USE TypeOK, Sound, <1>1, <2>a DEF TypeOK, JobRow, Row, Waits, Live, memory,
     RowSound, IsLive
  <2>1. CASE Dispatch
    BY <2>1 DEF Dispatch
  <2>2. CASE Admit
    BY <2>2 DEF Admit
  <2>3. CASE RollBack
    BY <2>3 DEF RollBack
  <2>4. CASE ListWaits
    BY <2>4 DEF ListWaits
  <2>5. CASE ListPauses
    BY <2>5 DEF ListPauses, Expirable
  <2>6. CASE Reap
    BY <2>6 DEF Reap, Spared
  <2>7. CASE AgeIssue
    BY <2>7 DEF AgeIssue
  <2>8. CASE HealStaleTriaging
    BY <2>8 DEF HealStaleTriaging, Unattended
  <2>9. CASE Restart
    BY <2>9 DEF Restart
  <2>10. ASSUME NEW i \in Jobs, Insert(i) PROVE Kept(j)
    BY <2>10 DEF Insert, Unused
  <2>11. ASSUME NEW i \in Jobs, StartBox(i) PROVE Kept(j)
    BY <2>11 DEF StartBox
  <2>12. ASSUME NEW i \in Jobs, PauseForPerson(i) PROVE Kept(j)
    BY <2>12 DEF PauseForPerson
  <2>13. ASSUME NEW i \in Jobs, End(i) PROVE Kept(j)
    BY <2>13 DEF End
  <2>14. ASSUME NEW i \in Jobs, NEW w \in Waits \ {"none"},
              NEW m \in {"resume", "relaunch"}, Park(i, w, m)
       PROVE  Kept(j)
    BY <2>14 DEF Park, Parked
  <2>15. ASSUME NEW i \in Jobs, AccountDue(i) PROVE Kept(j)
    BY <2>15 DEF AccountDue
  <2>16. ASSUME NEW i \in Jobs, GoOn(i) PROVE Kept(j)
    BY <2>16 DEF GoOn, ClaimedWait
  <2>17. ASSUME NEW i \in Jobs, TryNow(i) PROVE Kept(j)
    BY <2>17 DEF TryNow, ClaimedWait
  <2>18. ASSUME NEW i \in Jobs, Continue(i) PROVE Kept(j)
    BY <2>18 DEF Continue
  <2>19. ASSUME NEW i \in Jobs, CancelBegin(i) PROVE Kept(j)
    BY <2>19 DEF CancelBegin
  <2>20. ASSUME NEW i \in Jobs, CancelWrite(i) PROVE Kept(j)
    BY <2>20 DEF CancelWrite
  <2>21. ASSUME NEW i \in Jobs, AgeBox(i) PROVE Kept(j)
    BY <2>21 DEF AgeBox
  <2>22. ASSUME NEW i \in Jobs, AgeRow(i) PROVE Kept(j)
    BY <2>22 DEF AgeRow
  <2>23. ASSUME NEW i \in Jobs, Expire(i) PROVE Kept(j)
    BY <2>23 DEF Expire
  <2>24. ASSUME NEW i \in Jobs, Free(i) PROVE Kept(j)
    BY <2>24 DEF Free
  <2>25. ASSUME NEW i \in Jobs, Recover(i) PROVE Kept(j)
    BY <2>25 DEF Recover
  <2>26. CASE UNCHANGED vars
    BY <2>26 DEF vars
  <2>27. QED
    BY <2>1, <2>2, <2>3, <2>4, <2>5, <2>6, <2>7, <2>8, <2>9, <2>10, <2>11, <2>12, <2>13,
       <2>14, <2>15, <2>16, <2>17, <2>18, <2>19, <2>20, <2>21, <2>22, <2>23, <2>24,
       <2>25, <2>26 DEF Next
<1>2. (TypeOK /\ Sound /\ OneLive) /\ [Next]_vars => [\A j \in Jobs : Kept(j)]_vars
  BY <1>1
<1>3. QED  BY <1>2, Invariant, PTL DEF Spec, LiveJobKeepsBox

(***************************************************************************)
(* The issue of a parked job stays triaging (park_for_account leaves it    *)
(* there) under every step but the two its statement names: the sweep, a   *)
(* boot and the end of a run would need a second live job.                 *)
(***************************************************************************)
THEOREM ParkedIssuesHeld == Spec => ParkedIssueHeld
<1> DEFINE Stays(j) ==
       Waiting(j) /\ Waiting(j)' /\ issue.status = "triaging" =>
          \/ issue'.status = "triaging"
          \/ dispatching = "refused" /\ dispatching' = "no"
          \/ ~(cancelling \subseteq cancelling')
<1>1. ASSUME TypeOK, Sound, OneLive, [Next]_vars PROVE [\A j \in Jobs : Stays(j)]_vars
  <2>. SUFFICES ASSUME NEW j \in Jobs PROVE Stays(j)
    OBVIOUS
  <2>a. OneLive /\ RowSound(j)
    BY <1>1 DEF Sound
  <2>. USE TypeOK, <1>1, <2>a DEF TypeOK, JobRow, IssueRow, Row, Issue, Waits, Live,
     memory, RowSound, OneLive, IsLive, NoneLive, Waiting
  <2>1. CASE Dispatch
    BY <2>1 DEF Dispatch
  <2>2. CASE Admit
    BY <2>2 DEF Admit
  <2>3. CASE RollBack
    BY <2>3 DEF RollBack
  <2>4. CASE ListWaits
    BY <2>4 DEF ListWaits
  <2>5. CASE ListPauses
    BY <2>5 DEF ListPauses, Expirable
  <2>6. CASE Reap
    BY <2>6 DEF Reap, Spared
  <2>7. CASE AgeIssue
    BY <2>7 DEF AgeIssue
  <2>8. CASE HealStaleTriaging
    BY <2>8 DEF HealStaleTriaging, Unattended
  <2>9. CASE Restart
    BY <2>9 DEF Restart
  <2>10. ASSUME NEW i \in Jobs, Insert(i) PROVE Stays(j)
    BY <2>10 DEF Insert, Unused
  <2>11. ASSUME NEW i \in Jobs, StartBox(i) PROVE Stays(j)
    BY <2>11 DEF StartBox
  <2>12. ASSUME NEW i \in Jobs, PauseForPerson(i) PROVE Stays(j)
    BY <2>12 DEF PauseForPerson
  <2>13. ASSUME NEW i \in Jobs, End(i) PROVE Stays(j)
    BY <2>13 DEF End
  <2>14. ASSUME NEW i \in Jobs, NEW w \in Waits \ {"none"},
              NEW m \in {"resume", "relaunch"}, Park(i, w, m)
       PROVE  Stays(j)
    BY <2>14 DEF Park, Parked
  <2>15. ASSUME NEW i \in Jobs, AccountDue(i) PROVE Stays(j)
    BY <2>15 DEF AccountDue
  <2>16. ASSUME NEW i \in Jobs, GoOn(i) PROVE Stays(j)
    BY <2>16 DEF GoOn, ClaimedWait
  <2>17. ASSUME NEW i \in Jobs, TryNow(i) PROVE Stays(j)
    BY <2>17 DEF TryNow, ClaimedWait
  <2>18. ASSUME NEW i \in Jobs, Continue(i) PROVE Stays(j)
    BY <2>18 DEF Continue
  <2>19. ASSUME NEW i \in Jobs, CancelBegin(i) PROVE Stays(j)
    BY <2>19 DEF CancelBegin
  <2>20. ASSUME NEW i \in Jobs, CancelWrite(i) PROVE Stays(j)
    BY <2>20 DEF CancelWrite
  <2>21. ASSUME NEW i \in Jobs, AgeBox(i) PROVE Stays(j)
    BY <2>21 DEF AgeBox
  <2>22. ASSUME NEW i \in Jobs, AgeRow(i) PROVE Stays(j)
    BY <2>22 DEF AgeRow
  <2>23. ASSUME NEW i \in Jobs, Expire(i) PROVE Stays(j)
    BY <2>23 DEF Expire
  <2>24. ASSUME NEW i \in Jobs, Free(i) PROVE Stays(j)
    BY <2>24 DEF Free
  <2>25. ASSUME NEW i \in Jobs, Recover(i) PROVE Stays(j)
    BY <2>25 DEF Recover
  <2>26. CASE UNCHANGED vars
    BY <2>26 DEF vars
  <2>27. QED
    BY <2>1, <2>2, <2>3, <2>4, <2>5, <2>6, <2>7, <2>8, <2>9, <2>10, <2>11, <2>12, <2>13,
       <2>14, <2>15, <2>16, <2>17, <2>18, <2>19, <2>20, <2>21, <2>22, <2>23, <2>24,
       <2>25, <2>26 DEF Next
<1>2. (TypeOK /\ Sound /\ OneLive) /\ [Next]_vars => [\A j \in Jobs : Stays(j)]_vars
  BY <1>1
<1>3. QED  BY <1>2, Invariant, PTL DEF Spec, ParkedIssueHeld
=============================================================================
