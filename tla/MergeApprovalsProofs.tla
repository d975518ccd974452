------------------------ MODULE MergeApprovalsProofs ------------------------
(***************************************************************************)
(* What MergeApprovals promises, proved for every number of asks, commits, *)
(* requests and faults.  That a merge is the one asked for, and that one   *)
(* ask is open at a time, need no assumption; that an ask has one holder,  *)
(* and what rests on it, assumes that no decision outlasts                 *)
(* IN_FLIGHT_TIMEOUT.                                                      *)
(***************************************************************************)
EXTENDS MergeApprovals, FiniteSetTheorems, TLAPS

\* A process works on a row that was inserted, and a decision reaches the
\* merge only with a commit whose CI was green.
AtSound(p) ==
    /\ at[p].row # 0 => ask[at[p].row].status # "none"
    /\ at[p].row = 0 <=> at[p].pc \in {"idle", "ask", "find", "create"}
    /\ p # Sweep => at[p].pc \notin {"retire", "restale", "post"}
    /\ at[p].pc \in {"read", "verify", "put", "reread", "finish", "refuse", "stale"} => p \in Deciders
    /\ at[p].pc = "finish" => at[p].to # "none"
    /\ at[p].pc = "put" => ci[Row(p).head] # "not_green"

MergeSound ==
    pr.via # 0 => /\ pr.state = "merged" /\ pr.head = ask[pr.via].head
                  /\ ask[pr.via].status # "none" /\ ci[pr.head] # "not_green"

OnePending == \A a, b \in Asks : ask[a].status = "pending" /\ ask[b].status = "pending" => a = b

(***************************************************************************)
(* The inductive invariant that needs no assumption.                       *)
(***************************************************************************)
IInv == TypeOK /\ MergeSound /\ OnePending /\ \A p \in Procs : AtSound(p)

PromptCalls == SlowCalls = FALSE

Holds(d) == at[d].row # 0 /\ at[d].pc # "supersede"

\* A claimed ask has one holder, and is approved, or stale when a push took it
\* away, for as long as it is held; the claim is for real in mode "on" only.
ClaimSound(d) ==
    Holds(d) => /\ Row(d).status \in {"approved", "stale"}
                /\ Row(d).dry <=> mode # "on"
                /\ at[d].pc = "put" => mode = "on"
                /\ at[d].pc = "finish" /\ at[d].to = "merged" => pr.state = "merged"
                /\ \A e \in Deciders : Holds(e) /\ at[e].row = at[d].row => e = d

Tells(d) ==
    at[d].row = pr.via /\ (at[d].pc = "reread" \/ (at[d].pc = "finish" /\ at[d].to = "merged"))

\* The decision that merged is about to say so, unless it has or will never know.
TellSound ==
    /\ \A a \in Asks : ask[a].status = "merged" => pr.state = "merged"
    /\ pr.via # 0 => \/ ask[pr.via].status \in {"merged", "stale"}
                     \/ lost
                     \/ \E d \in Deciders : Tells(d)

(***************************************************************************)
(* What is added when no decision outlasts its claim.                      *)
(***************************************************************************)
CInv == TellSound /\ \A d \in Deciders : ClaimSound(d)

-----------------------------------------------------------------------------
(* One lemma per part of the invariant, one step per action. *)

\* Where a process starts is a place.
LEMMA StartTypes ==
    /\ Idle \in Place
    /\ \A pc \in Places : /\ [Idle EXCEPT !.pc = pc] \in Place
                          /\ \A a \in Asks : [Idle EXCEPT !.pc = pc, !.row = a] \in Place
    /\ TypeOK => PullRead \in Place
<1>1. Idle \in Place
  BY MergeAssumption DEF Idle, Place, Places, MergeAssumption
<1>2. ASSUME NEW pc \in Places
      PROVE  /\ [Idle EXCEPT !.pc = pc] \in Place
             /\ \A h \in Heads : [Idle EXCEPT !.pc = pc, !.head = h] \in Place
             /\ \A a \in Asks : [Idle EXCEPT !.pc = pc, !.row = a] \in Place
  BY <1>1 DEF Place
<1>3. ASSUME TypeOK PROVE PullRead \in Place
  <2>1. "find" \in Places /\ pr.head \in Heads
    BY <1>3 DEF Places, TypeOK
  <2>2. [Idle EXCEPT !.pc = "find", !.head = pr.head] \in Place
    BY <1>2, <2>1
  <2>3. QED  BY <1>1, <2>2 DEF PullRead
<1>4. QED  BY <1>1, <1>2, <1>3

\* Where it goes from there is one, too.
LEMMA PlaceTypes ==
    ASSUME TypeOK, NEW p \in Procs
    PROVE  /\ Stop(p) => at' \in [Procs -> Place]
           /\ \A r \in Place : at' = [at EXCEPT ![p] = r] => at' \in [Procs -> Place]
           /\ \A pc \in Places :
                 /\ Go(p, pc) => at' \in [Procs -> Place]
                 /\ \A to \in {"none", "merged", "failed", "approved"} :
                       Then(p, pc, to) => at' \in [Procs -> Place]
                 /\ \A a \in Asks \cup {0} :
                       at' = [at EXCEPT ![p].pc = pc, ![p].row = a] => at' \in [Procs -> Place]
<1>1. at \in [Procs -> Place]
  BY DEF TypeOK
<1>2. Stop(p) => at' \in [Procs -> Place]
  BY <1>1, StartTypes DEF Stop
<1>3. ASSUME NEW pc \in Places PROVE Go(p, pc) => at' \in [Procs -> Place]
  BY <1>1 DEF Go, Place
<1>4. ASSUME NEW pc \in Places, NEW to \in {"none", "merged", "failed", "approved"}, Then(p, pc, to)
      PROVE  at' \in [Procs -> Place]
  <2> DEFINE one == [at EXCEPT ![p].pc = pc]
  <2>1. one \in [Procs -> Place]
    BY <1>1 DEF Place
  <2>2. at' = [one EXCEPT ![p].to = to]
    BY <1>4 DEF Then
  <2> HIDE DEF one
  <2>3. QED  BY <2>1, <2>2 DEF Place
<1>5. ASSUME NEW pc \in Places, NEW a \in Asks \cup {0}, at' = [at EXCEPT ![p].pc = pc, ![p].row = a]
      PROVE  at' \in [Procs -> Place]
  <2> DEFINE one == [at EXCEPT ![p].pc = pc]
  <2>1. one \in [Procs -> Place]
    BY <1>1 DEF Place
  <2>2. at' = [one EXCEPT ![p].row = a]
    BY <1>5
  <2> HIDE DEF one
  <2>3. QED  BY <2>1, <2>2 DEF Place
<1>6. ASSUME NEW r \in Place, at' = [at EXCEPT ![p] = r] PROVE at' \in [Procs -> Place]
  BY <1>1, <1>6
<1>7. QED  BY <1>2, <1>3, <1>4, <1>5, <1>6

\* A change of a row's status leaves it a row.
LEMMA StatusTypes ==
    ASSUME TypeOK, NEW a, NEW from, NEW status \in Statuses \cup {"none"}, SetStatus(a, from, status)
    PROVE  ask' \in [Asks -> AskRow]
BY DEF TypeOK, AskRow, SetStatus

\* A row that was inserted or claimed is one.
LEMMA RowTypes ==
    /\ NoAsk \in AskRow
    /\ \A h \in Heads : [NoAsk EXCEPT !.status = "pending", !.head = h] \in AskRow
    /\ TypeOK => \A a \in Asks, dry \in BOOLEAN :
                    [ask EXCEPT ![a].status = "approved", ![a].dry = dry] \in [Asks -> AskRow]
<1>1. NoAsk \in AskRow
  BY MergeAssumption DEF NoAsk, AskRow, MergeAssumption
<1>2. ASSUME NEW h \in Heads PROVE [NoAsk EXCEPT !.status = "pending", !.head = h] \in AskRow
  BY <1>1 DEF AskRow, Statuses
<1>3. ASSUME TypeOK, NEW a \in Asks, NEW dry \in BOOLEAN
      PROVE  [ask EXCEPT ![a].status = "approved", ![a].dry = dry] \in [Asks -> AskRow]
  <2> DEFINE one == [ask EXCEPT ![a].status = "approved"]
  <2>1. one \in [Asks -> AskRow]
    BY <1>3 DEF TypeOK, AskRow, Statuses
  <2>2. [one EXCEPT ![a].dry = dry] \in [Asks -> AskRow]
    <3> HIDE DEF one
    <3>1. QED  BY <2>1 DEF AskRow
  <2>3. QED  BY <2>2
<1>4. QED  BY <1>1, <1>2, <1>3

\* Nothing was asked yet.
LEMMA InitSound == Init => IInv
<1>. SUFFICES ASSUME Init PROVE IInv
  OBVIOUS
<1>1. ask \in [Asks -> AskRow] /\ at \in [Procs -> Place]
  BY RowTypes, StartTypes DEF Init
<1>2. TypeOK
  <2>1. pr \in [state : {"open", "merged", "closed"}, head : Heads, via : Asks \cup {0}]
    BY MergeAssumption DEF Init, MergeAssumption
  <2>2. ci \in [Heads -> CiStates] /\ mode \in Modes /\ lost \in BOOLEAN
    BY DEF Init, CiStates
  <2>3. jobs \in 0..MaxJobs /\ pushes \in 0..MaxPushes /\ answers \in 0..MaxAnswers /\ faults \in 0..MaxFaults
    BY MergeAssumption DEF Init, MergeAssumption
  <2>4. QED  BY <1>1, <2>1, <2>2, <2>3 DEF TypeOK
<1>3. MergeSound /\ OnePending
  BY DEF Init, MergeSound, OnePending, NoAsk
<1>4. ASSUME NEW p \in Procs PROVE AtSound(p)
  BY DEF Init, AtSound, Idle
<1>5. QED  BY <1>2, <1>3, <1>4 DEF IInv

\* Each step keeps the types.
LEMMA TypeStep ==
    ASSUME TypeOK, [Next]_vars
    PROVE  TypeOK'
<1>. USE TypeOK DEF Decides
<1>1. ASSUME NEW h \in Heads, Push(h) PROVE TypeOK'
  BY <1>1, MergeAssumption DEF Push, TypeOK, Reading, github, people, CiStates, MergeAssumption
<1>2. ASSUME NEW s \in {"merged", "closed"}, Settle(s) PROVE TypeOK'
  BY <1>2, MergeAssumption DEF Settle, TypeOK, Reading, github, people, CiStates,
     MergeAssumption
<1>3. ASSUME NEW h \in Heads, CiReports(h) PROVE TypeOK'
  BY <1>3, MergeAssumption DEF CiReports, TypeOK, Reading, github, people, CiStates,
     MergeAssumption
<1>4. CASE JobAsks
  <2>2. at' \in [Procs -> Place]
    BY <1>4, PlaceTypes, StartTypes DEF JobAsks, Places, Procs, Job, Sweep, Reading
  <2>3. QED  BY <1>4, <2>2, MergeAssumption DEF JobAsks, TypeOK, Reading, github, people,
     CiStates, MergeAssumption
<1>5. ASSUME NEW q \in Procs, NEW answered \in BOOLEAN, AskAgain(q, answered) PROVE TypeOK'
  <2>2. at' \in [Procs -> Place]
    BY <1>5, PlaceTypes, StartTypes DEF AskAgain, Places, Procs, Job, Sweep, Reading
  <2>3. QED  BY <1>5, <2>2, MergeAssumption DEF AskAgain, TypeOK, Reading, github, people,
     CiStates, MergeAssumption
<1>6. ASSUME NEW q \in Procs, AskFind(q) PROVE TypeOK'
  <2>2. at' \in [Procs -> Place]
    BY <1>6, PlaceTypes, StartTypes DEF AskFind, Pending, Places, Procs, Job, Sweep, Reading
  <2>3. QED  BY <1>6, <2>2, MergeAssumption DEF AskFind, TypeOK, Reading, github, people,
     CiStates, MergeAssumption
<1>7. ASSUME NEW q \in Procs, AskSupersede(q) PROVE TypeOK'
  <2>1. ask' \in [Asks -> AskRow]
    BY <1>7, StatusTypes DEF AskSupersede, Statuses
  <2>2. at' \in [Procs -> Place]
    BY <1>7, PlaceTypes, StartTypes DEF AskSupersede, Places, Procs, Job, Sweep, Reading
  <2>3. QED  BY <1>7, <2>1, <2>2, MergeAssumption DEF AskSupersede, TypeOK, Reading, github,
     people, CiStates, MergeAssumption
<1>8. ASSUME NEW q \in Procs, AskCreate(q) PROVE TypeOK'
  <2>0. at[q].head \in Heads /\ ask \in [Asks -> AskRow]
    BY DEF TypeOK, Place
  <2>1. ask' \in [Asks -> AskRow]
    BY <1>8, <2>0, RowTypes DEF AskCreate
  <2>2. at' \in [Procs -> Place]
    BY <1>8, PlaceTypes, StartTypes DEF AskCreate, Places, Procs, Job, Sweep, Reading
  <2>3. QED  BY <1>8, <2>1, <2>2, MergeAssumption DEF AskCreate, TypeOK, Reading, github,
     people, CiStates, MergeAssumption
<1>9. ASSUME NEW k \in Asks, NEW answered \in BOOLEAN, SweepLooks(k, answered) PROVE TypeOK'
  <2>2. at' \in [Procs -> Place]
    BY <1>9, PlaceTypes, StartTypes DEF SweepLooks, Places, Procs, Job, Sweep, Reading
  <2>3. QED  BY <1>9, <2>2, MergeAssumption DEF SweepLooks, TypeOK, Reading, github, people,
     CiStates, MergeAssumption
<1>10. ASSUME NEW k \in Asks, SweepExpires(k) PROVE TypeOK'
  <2>1. ask' \in [Asks -> AskRow]
    BY <1>10, StatusTypes DEF SweepExpires, Statuses
  <2>3. QED  BY <1>10, <2>1, MergeAssumption DEF SweepExpires, TypeOK, Reading, github, people,
     CiStates, MergeAssumption
<1>11. CASE SweepRetires
  <2>1. ask' \in [Asks -> AskRow]
    BY <1>11, StatusTypes DEF SweepRetires, Statuses
  <2>2. at' \in [Procs -> Place]
    BY <1>11, PlaceTypes, StartTypes DEF SweepRetires, Places, Procs, Job, Sweep, Reading
  <2>3. QED  BY <1>11, <2>1, <2>2, MergeAssumption DEF SweepRetires, TypeOK, Reading, github,
     people, CiStates, MergeAssumption
<1>12. CASE SweepRestales
  <2>1. ask' \in [Asks -> AskRow]
    BY <1>12, StatusTypes DEF SweepRestales, Statuses
  <2>2. at' \in [Procs -> Place]
    BY <1>12, PlaceTypes, StartTypes DEF SweepRestales, Places, Procs, Job, Sweep, Reading
  <2>3. QED  BY <1>12, <2>1, <2>2, MergeAssumption DEF SweepRestales, TypeOK, Reading, github,
     people, CiStates, MergeAssumption
<1>13. CASE SweepPosts
  <2>1. ask' \in [Asks -> AskRow]
    BY <1>13 DEF SweepPosts, TypeOK, AskRow
  <2>2. at' \in [Procs -> Place]
    BY <1>13, PlaceTypes, StartTypes DEF SweepPosts, Places, Procs, Job, Sweep, Reading
  <2>3. QED  BY <1>13, <2>1, <2>2, MergeAssumption DEF SweepPosts, TypeOK, Reading, github,
     people, CiStates, MergeAssumption
<1>14. CASE SweepWaits
  <2>2. at' \in [Procs -> Place]
    BY <1>14, PlaceTypes, StartTypes DEF SweepWaits, Places, Procs, Job, Sweep, Reading
  <2>3. QED  BY <1>14, <2>2, MergeAssumption DEF SweepWaits, TypeOK, Reading, github, people,
     CiStates, MergeAssumption
<1>15. ASSUME NEW c \in Deciders, NEW k \in Asks, Approve(c, k) PROVE TypeOK'
  <2>1. ask' \in [Asks -> AskRow]
    BY <1>15, RowTypes DEF Approve
  <2>2. at' \in [Procs -> Place]
    BY <1>15, PlaceTypes, StartTypes DEF Approve, Decides, Places, Procs, Job, Sweep, Reading
  <2>3. QED  BY <1>15, <2>1, <2>2, MergeAssumption DEF Approve, Decides, TypeOK, Reading,
     github, people, CiStates, MergeAssumption
<1>16. ASSUME NEW c \in Deciders, NEW k \in Asks, Reject(c, k) PROVE TypeOK'
  <2>1. ask' \in [Asks -> AskRow]
    BY <1>16 DEF Reject, Decides, TypeOK, AskRow, Statuses
  <2>3. QED  BY <1>16, <2>1, MergeAssumption DEF Reject, Decides, TypeOK, Reading, github,
     people, CiStates, MergeAssumption
<1>17. ASSUME NEW c \in Deciders, NEW answered \in BOOLEAN, ReadPull(c, answered)
     PROVE  TypeOK'
  <2>2. at' \in [Procs -> Place]
    BY <1>17, PlaceTypes, StartTypes DEF ReadPull, Places, Procs, Job, Sweep, Reading
  <2>3. QED  BY <1>17, <2>2, MergeAssumption DEF ReadPull, TypeOK, Reading, github, people,
     CiStates, MergeAssumption
<1>18. ASSUME NEW c \in Deciders, NEW polled \in BOOLEAN, NEW passes \in BOOLEAN, Verify(c, polled, passes)
     PROVE  TypeOK'
  <2>2. at' \in [Procs -> Place]
    BY <1>18, PlaceTypes, StartTypes DEF Verify, Places, Procs, Job, Sweep, Reading
  <2>3. QED  BY <1>18, <2>2, MergeAssumption DEF Verify, TypeOK, Reading, github, people,
     CiStates, MergeAssumption
<1>19. ASSUME NEW c \in Deciders, MergePull(c) PROVE TypeOK'
  <2>2. at' \in [Procs -> Place]
    BY <1>19, PlaceTypes, StartTypes DEF MergePull, Places, Procs, Job, Sweep, Reading
  <2>3. QED  BY <1>19, <2>2, MergeAssumption DEF MergePull, Place, Procs, TypeOK, Reading,
     github, people, CiStates, MergeAssumption
<1>20. ASSUME NEW c \in Deciders, MergeRefused(c) PROVE TypeOK'
  <2>2. at' \in [Procs -> Place]
    BY <1>20, PlaceTypes, StartTypes DEF MergeRefused, Places, Procs, Job, Sweep, Reading
  <2>3. QED  BY <1>20, <2>2, MergeAssumption DEF MergeRefused, TypeOK, Reading, github, people,
     CiStates, MergeAssumption
<1>21. ASSUME NEW c \in Deciders, NEW answered \in BOOLEAN, Reread(c, answered)
     PROVE  TypeOK'
  <2>2. at' \in [Procs -> Place]
    BY <1>21, PlaceTypes, StartTypes DEF Reread, Places, Procs, Job, Sweep, Reading
  <2>3. QED  BY <1>21, <2>2, MergeAssumption DEF Reread, TypeOK, Reading, github, people,
     CiStates, MergeAssumption
<1>22. ASSUME NEW c \in Deciders, Finish(c) PROVE TypeOK'
  <2>1. ask' \in [Asks -> AskRow]
    BY <1>22, StatusTypes DEF Finish, TypeOK, Place, Procs, Statuses
  <2>2. at' \in [Procs -> Place]
    BY <1>22, PlaceTypes, StartTypes DEF Finish, Places, Procs, Job, Sweep, Reading
  <2>3. QED  BY <1>22, <2>1, <2>2, MergeAssumption DEF Finish, TypeOK, Reading, github, people,
     CiStates, MergeAssumption
<1>23. ASSUME NEW c \in Deciders, Refuse(c) PROVE TypeOK'
  <2>1. ask' \in [Asks -> AskRow]
    BY <1>23, StatusTypes DEF Refuse, TypeOK, Statuses
  <2>2. at' \in [Procs -> Place]
    BY <1>23, PlaceTypes, StartTypes DEF Refuse, Places, Procs, Job, Sweep, Reading
  <2>3. QED  BY <1>23, <2>1, <2>2, MergeAssumption DEF Refuse, TypeOK, Reading, github, people,
     CiStates, MergeAssumption
<1>24. ASSUME NEW c \in Deciders, Stale(c) PROVE TypeOK'
  <2>1. ask' \in [Asks -> AskRow]
    BY <1>24, StatusTypes DEF Stale, Statuses
  <2>2. at' \in [Procs -> Place]
    BY <1>24, PlaceTypes, StartTypes DEF Stale, Places, Procs, Job, Sweep, Reading
  <2>3. QED  BY <1>24, <2>1, <2>2, MergeAssumption DEF Stale, TypeOK, Reading, github, people,
     CiStates, MergeAssumption
<1>25. ASSUME NEW q \in Procs, Dies(q) PROVE TypeOK'
  <2>2. at' \in [Procs -> Place]
    BY <1>25, PlaceTypes, StartTypes DEF Dies, Places, Procs, Job, Sweep, Reading
  <2>3. QED  BY <1>25, <2>2, MergeAssumption DEF Dies, TypeOK, Reading, github, people,
     CiStates, MergeAssumption
<1>26. ASSUME NEW m \in Modes, Restart(m) PROVE TypeOK'
  <2>2. at' \in [Procs -> Place]
    BY <1>26, PlaceTypes, StartTypes DEF Restart, Places, Procs, Job, Sweep, Reading
  <2>3. QED  BY <1>26, <2>2, MergeAssumption DEF Restart, TypeOK, Reading, github, people,
     CiStates, MergeAssumption
<1>27. CASE UNCHANGED vars
  BY <1>27 DEF vars, TypeOK
<1>. HIDE DEF Decides
<1>28. QED
  BY <1>1, <1>2, <1>3, <1>4, <1>5, <1>6, <1>7, <1>8, <1>9, <1>10, <1>11, <1>12, <1>13,
     <1>14, <1>15, <1>16, <1>17, <1>18, <1>19, <1>20, <1>21, <1>22, <1>23, <1>24, <1>25,
     <1>26, <1>27 DEF Next, Outside, AskStep, SweepStep, DecisionStep

\* Each step leaves every process with a row of its own, or none.
LEMMA AtStep ==
    ASSUME IInv, [Next]_vars, NEW p \in Procs
    PROVE  AtSound(p)'
<1>a. TypeOK /\ \A i \in Procs : AtSound(i)
  BY DEF IInv
<1>. USE MergeAssumption, <1>a DEF MergeAssumption, TypeOK, Places, Statuses, CiStates,
   Procs, Job, Sweep, Idle, NoAsk, Go, Stop, Then, Row, SetStatus, Reading, github, people,
   AskRow, Place, AtSound
<1>1. ASSUME NEW h \in Heads, Push(h) PROVE AtSound(p)'
  BY <1>1 DEF Push
<1>2. ASSUME NEW s \in {"merged", "closed"}, Settle(s) PROVE AtSound(p)'
  BY <1>2 DEF Settle
<1>3. ASSUME NEW h \in Heads, CiReports(h) PROVE AtSound(p)'
  BY <1>3 DEF CiReports
<1>4. CASE JobAsks
  BY <1>4 DEF JobAsks, PullRead
<1>5. ASSUME NEW q \in Procs, NEW answered \in BOOLEAN, AskAgain(q, answered)
     PROVE  AtSound(p)'
  BY <1>5 DEF AskAgain, PullRead
<1>6. ASSUME NEW q \in Procs, AskFind(q) PROVE AtSound(p)'
  BY <1>6 DEF AskFind, Pending
<1>7. ASSUME NEW q \in Procs, AskSupersede(q) PROVE AtSound(p)'
  BY <1>7 DEF AskSupersede
<1>8. ASSUME NEW q \in Procs, AskCreate(q) PROVE AtSound(p)'
  BY <1>8 DEF AskCreate
<1>9. ASSUME NEW k \in Asks, NEW answered \in BOOLEAN, SweepLooks(k, answered)
     PROVE  AtSound(p)'
  BY <1>9 DEF SweepLooks
<1>10. ASSUME NEW k \in Asks, SweepExpires(k) PROVE AtSound(p)'
  BY <1>10 DEF SweepExpires
<1>11. CASE SweepRetires
  BY <1>11 DEF SweepRetires
<1>12. CASE SweepRestales
  BY <1>12 DEF SweepRestales
<1>13. CASE SweepPosts
  BY <1>13 DEF SweepPosts
<1>14. CASE SweepWaits
  BY <1>14 DEF SweepWaits
<1>15. ASSUME NEW c \in Deciders, NEW k \in Asks, Approve(c, k) PROVE AtSound(p)'
  BY <1>15 DEF Approve, Decides
<1>16. ASSUME NEW c \in Deciders, NEW k \in Asks, Reject(c, k) PROVE AtSound(p)'
  BY <1>16 DEF Reject, Decides
<1>17. ASSUME NEW c \in Deciders, NEW answered \in BOOLEAN, ReadPull(c, answered)
     PROVE  AtSound(p)'
  BY <1>17 DEF ReadPull
<1>18. ASSUME NEW c \in Deciders, NEW polled \in BOOLEAN, NEW passes \in BOOLEAN, Verify(c, polled, passes)
     PROVE  AtSound(p)'
  <2>1. /\ at[c].pc = "verify" /\ ask' = ask /\ mode' = mode /\ pr' = pr /\ ci' = ci
    BY <1>18 DEF Verify
  <2>2. \/ Go(c, "refuse") \/ Go(c, "stale") \/ Then(c, "finish", "approved")
        \/ Go(c, "put") /\ ci[Row(c).head] = "green" /\ ~Row(c).dry
    BY <1>18, Zenon DEF Verify
  <2>3. /\ at'[c].pc \in {"refuse", "stale", "finish", "put"} /\ at'[c].row = at[c].row
        /\ at'[c].pc = "finish" => at'[c].to = "approved"
        /\ at'[c].pc = "put" => ci[Row(c).head] = "green" /\ ~Row(c).dry
        /\ \A e \in Procs \ {c} : at'[e] = at[e]
    <3>1. CASE Go(c, "refuse") \/ Go(c, "stale")
      BY <3>1 DEF Go
    <3>2. CASE Then(c, "finish", "approved")
      BY <3>2 DEF Then
    <3>3. CASE Go(c, "put") /\ ci[Row(c).head] = "green" /\ ~Row(c).dry
      BY <3>3 DEF Go
    <3>4. QED  BY <2>2, <3>1, <3>2, <3>3
  <2>4. QED  BY <2>1, <2>3
<1>19. ASSUME NEW c \in Deciders, MergePull(c) PROVE AtSound(p)'
  BY <1>19 DEF MergePull
<1>20. ASSUME NEW c \in Deciders, MergeRefused(c) PROVE AtSound(p)'
  BY <1>20 DEF MergeRefused
<1>21. ASSUME NEW c \in Deciders, NEW answered \in BOOLEAN, Reread(c, answered)
     PROVE  AtSound(p)'
  BY <1>21 DEF Reread
<1>22. ASSUME NEW c \in Deciders, Finish(c) PROVE AtSound(p)'
  BY <1>22 DEF Finish
<1>23. ASSUME NEW c \in Deciders, Refuse(c) PROVE AtSound(p)'
  BY <1>23 DEF Refuse
<1>24. ASSUME NEW c \in Deciders, Stale(c) PROVE AtSound(p)'
  BY <1>24 DEF Stale
<1>25. ASSUME NEW q \in Procs, Dies(q) PROVE AtSound(p)'
  BY <1>25 DEF Dies
<1>26. ASSUME NEW m \in Modes, Restart(m) PROVE AtSound(p)'
  BY <1>26 DEF Restart
<1>27. CASE UNCHANGED vars
  BY <1>27 DEF vars
<1>. HIDE MergeAssumption DEF MergeAssumption, TypeOK, Places, Statuses, CiStates, Procs,
   Job, Sweep, Idle, NoAsk, Go, Stop, Then, Row, SetStatus, Reading, github, people, AskRow,
   Place, AtSound
<1>28. QED
  BY <1>1, <1>2, <1>3, <1>4, <1>5, <1>6, <1>7, <1>8, <1>9, <1>10, <1>11, <1>12, <1>13,
     <1>14, <1>15, <1>16, <1>17, <1>18, <1>19, <1>20, <1>21, <1>22, <1>23, <1>24, <1>25,
     <1>26, <1>27 DEF Next, Outside, AskStep, SweepStep, DecisionStep

\* Only the ask a decision holds, and its commit, are merged.
LEMMA MergeStep ==
    ASSUME IInv, [Next]_vars
    PROVE  MergeSound'
<1>a. TypeOK /\ MergeSound /\ \A i \in Procs : AtSound(i)
  BY DEF IInv
<1>. USE MergeAssumption, <1>a DEF MergeAssumption, TypeOK, Places, Statuses, CiStates,
   Procs, Job, Sweep, Idle, NoAsk, Go, Stop, Then, Row, SetStatus, Reading, github, people,
   AskRow, Place, AtSound, MergeSound
<1>1. ASSUME NEW h \in Heads, Push(h) PROVE MergeSound'
  BY <1>1 DEF Push
<1>2. ASSUME NEW s \in {"merged", "closed"}, Settle(s) PROVE MergeSound'
  BY <1>2 DEF Settle
<1>3. ASSUME NEW h \in Heads, CiReports(h) PROVE MergeSound'
  BY <1>3 DEF CiReports
<1>4. CASE JobAsks
  BY <1>4 DEF JobAsks, PullRead
<1>5. ASSUME NEW q \in Procs, NEW answered \in BOOLEAN, AskAgain(q, answered)
     PROVE  MergeSound'
  BY <1>5 DEF AskAgain, PullRead
<1>6. ASSUME NEW q \in Procs, AskFind(q) PROVE MergeSound'
  BY <1>6 DEF AskFind
<1>7. ASSUME NEW q \in Procs, AskSupersede(q) PROVE MergeSound'
  BY <1>7 DEF AskSupersede
<1>8. ASSUME NEW q \in Procs, AskCreate(q) PROVE MergeSound'
  BY <1>8 DEF AskCreate
<1>9. ASSUME NEW k \in Asks, NEW answered \in BOOLEAN, SweepLooks(k, answered)
     PROVE  MergeSound'
  BY <1>9 DEF SweepLooks
<1>10. ASSUME NEW k \in Asks, SweepExpires(k) PROVE MergeSound'
  BY <1>10 DEF SweepExpires
<1>11. CASE SweepRetires
  BY <1>11 DEF SweepRetires
<1>12. CASE SweepRestales
  BY <1>12 DEF SweepRestales
<1>13. CASE SweepPosts
  BY <1>13 DEF SweepPosts
<1>14. CASE SweepWaits
  BY <1>14 DEF SweepWaits
<1>15. ASSUME NEW c \in Deciders, NEW k \in Asks, Approve(c, k) PROVE MergeSound'
  BY <1>15 DEF Approve, Decides
<1>16. ASSUME NEW c \in Deciders, NEW k \in Asks, Reject(c, k) PROVE MergeSound'
  BY <1>16 DEF Reject, Decides
<1>17. ASSUME NEW c \in Deciders, NEW answered \in BOOLEAN, ReadPull(c, answered)
     PROVE  MergeSound'
  BY <1>17 DEF ReadPull
<1>18. ASSUME NEW c \in Deciders, NEW polled \in BOOLEAN, NEW passes \in BOOLEAN, Verify(c, polled, passes)
     PROVE  MergeSound'
  BY <1>18 DEF Verify
<1>19. ASSUME NEW c \in Deciders, MergePull(c) PROVE MergeSound'
  BY <1>19 DEF MergePull
<1>20. ASSUME NEW c \in Deciders, MergeRefused(c) PROVE MergeSound'
  BY <1>20 DEF MergeRefused
<1>21. ASSUME NEW c \in Deciders, NEW answered \in BOOLEAN, Reread(c, answered)
     PROVE  MergeSound'
  BY <1>21 DEF Reread
<1>22. ASSUME NEW c \in Deciders, Finish(c) PROVE MergeSound'
  BY <1>22 DEF Finish
<1>23. ASSUME NEW c \in Deciders, Refuse(c) PROVE MergeSound'
  BY <1>23 DEF Refuse
<1>24. ASSUME NEW c \in Deciders, Stale(c) PROVE MergeSound'
  BY <1>24 DEF Stale
<1>25. ASSUME NEW q \in Procs, Dies(q) PROVE MergeSound'
  BY <1>25 DEF Dies
<1>26. ASSUME NEW m \in Modes, Restart(m) PROVE MergeSound'
  BY <1>26 DEF Restart
<1>27. CASE UNCHANGED vars
  BY <1>27 DEF vars
<1>. HIDE MergeAssumption DEF MergeAssumption, TypeOK, Places, Statuses, CiStates, Procs,
   Job, Sweep, Idle, NoAsk, Go, Stop, Then, Row, SetStatus, Reading, github, people, AskRow,
   Place, AtSound, MergeSound
<1>28. QED
  BY <1>1, <1>2, <1>3, <1>4, <1>5, <1>6, <1>7, <1>8, <1>9, <1>10, <1>11, <1>12, <1>13,
     <1>14, <1>15, <1>16, <1>17, <1>18, <1>19, <1>20, <1>21, <1>22, <1>23, <1>24, <1>25,
     <1>26, <1>27 DEF Next, Outside, AskStep, SweepStep, DecisionStep

\* An ask becomes pending, by an INSERT or a release, when none is.
LEMMA PendingStep ==
    ASSUME IInv, [Next]_vars
    PROVE  OnePending'
<1>a. TypeOK /\ OnePending
  BY DEF IInv
<1>. USE MergeAssumption, <1>a DEF MergeAssumption, TypeOK, Places, Statuses, CiStates,
   Procs, Job, Sweep, Idle, NoAsk, Go, Stop, Then, Row, SetStatus, Reading, github, people,
   AskRow, Place, OnePending
<1>1. ASSUME NEW h \in Heads, Push(h) PROVE OnePending'
  BY <1>1 DEF Push
<1>2. ASSUME NEW s \in {"merged", "closed"}, Settle(s) PROVE OnePending'
  BY <1>2 DEF Settle
<1>3. ASSUME NEW h \in Heads, CiReports(h) PROVE OnePending'
  BY <1>3 DEF CiReports
<1>4. CASE JobAsks
  BY <1>4 DEF JobAsks, PullRead
<1>5. ASSUME NEW q \in Procs, NEW answered \in BOOLEAN, AskAgain(q, answered)
     PROVE  OnePending'
  BY <1>5 DEF AskAgain, PullRead
<1>6. ASSUME NEW q \in Procs, AskFind(q) PROVE OnePending'
  BY <1>6 DEF AskFind
<1>7. ASSUME NEW q \in Procs, AskSupersede(q) PROVE OnePending'
  BY <1>7 DEF AskSupersede
<1>8. ASSUME NEW q \in Procs, AskCreate(q) PROVE OnePending'
  BY <1>8 DEF AskCreate, Pending
<1>9. ASSUME NEW k \in Asks, NEW answered \in BOOLEAN, SweepLooks(k, answered)
     PROVE  OnePending'
  BY <1>9 DEF SweepLooks
<1>10. ASSUME NEW k \in Asks, SweepExpires(k) PROVE OnePending'
  BY <1>10 DEF SweepExpires
<1>11. CASE SweepRetires
  BY <1>11 DEF SweepRetires
<1>12. CASE SweepRestales
  BY <1>12 DEF SweepRestales
<1>13. CASE SweepPosts
  BY <1>13 DEF SweepPosts
<1>14. CASE SweepWaits
  BY <1>14 DEF SweepWaits
<1>15. ASSUME NEW c \in Deciders, NEW k \in Asks, Approve(c, k) PROVE OnePending'
  BY <1>15 DEF Approve, Decides, Claimable
<1>16. ASSUME NEW c \in Deciders, NEW k \in Asks, Reject(c, k) PROVE OnePending'
  BY <1>16 DEF Reject, Decides
<1>17. ASSUME NEW c \in Deciders, NEW answered \in BOOLEAN, ReadPull(c, answered)
     PROVE  OnePending'
  BY <1>17 DEF ReadPull
<1>18. ASSUME NEW c \in Deciders, NEW polled \in BOOLEAN, NEW passes \in BOOLEAN, Verify(c, polled, passes)
     PROVE  OnePending'
  BY <1>18 DEF Verify
<1>19. ASSUME NEW c \in Deciders, MergePull(c) PROVE OnePending'
  BY <1>19 DEF MergePull
<1>20. ASSUME NEW c \in Deciders, MergeRefused(c) PROVE OnePending'
  BY <1>20 DEF MergeRefused
<1>21. ASSUME NEW c \in Deciders, NEW answered \in BOOLEAN, Reread(c, answered)
     PROVE  OnePending'
  BY <1>21 DEF Reread
<1>22. ASSUME NEW c \in Deciders, Finish(c) PROVE OnePending'
  BY <1>22 DEF Finish
<1>23. ASSUME NEW c \in Deciders, Refuse(c) PROVE OnePending'
  BY <1>23 DEF Refuse, Pending
<1>24. ASSUME NEW c \in Deciders, Stale(c) PROVE OnePending'
  BY <1>24 DEF Stale
<1>25. ASSUME NEW q \in Procs, Dies(q) PROVE OnePending'
  BY <1>25 DEF Dies
<1>26. ASSUME NEW m \in Modes, Restart(m) PROVE OnePending'
  BY <1>26 DEF Restart
<1>27. CASE UNCHANGED vars
  BY <1>27 DEF vars
<1>. HIDE MergeAssumption DEF MergeAssumption, TypeOK, Places, Statuses, CiStates, Procs,
   Job, Sweep, Idle, NoAsk, Go, Stop, Then, Row, SetStatus, Reading, github, people, AskRow,
   Place, OnePending
<1>28. QED
  BY <1>1, <1>2, <1>3, <1>4, <1>5, <1>6, <1>7, <1>8, <1>9, <1>10, <1>11, <1>12, <1>13,
     <1>14, <1>15, <1>16, <1>17, <1>18, <1>19, <1>20, <1>21, <1>22, <1>23, <1>24, <1>25,
     <1>26, <1>27 DEF Next, Outside, AskStep, SweepStep, DecisionStep

\* Nobody holds an ask yet.
LEMMA InitClaims == Init => CInv
<1>. SUFFICES ASSUME Init PROVE CInv
  OBVIOUS
<1>1. TellSound
  BY DEF Init, TellSound, NoAsk
<1>2. ASSUME NEW d \in Deciders PROVE ClaimSound(d)
  <2>1. at[d].row = 0
    BY DEF Init, Idle, Procs
  <2>2. QED  BY <2>1 DEF ClaimSound, Holds
<1>3. QED  BY <1>1, <1>2 DEF CInv

\* A claim is taken from nobody, and a held ask changes at its holder's hand or becomes stale.
LEMMA ClaimStep ==
    ASSUME PromptCalls, IInv, CInv, [Next]_vars, NEW d \in Deciders
    PROVE  ClaimSound(d)'
<1>a. /\ PromptCalls /\ TypeOK /\ MergeSound /\ \A p \in Procs : AtSound(p)
      /\ \A e \in Deciders : ClaimSound(e)
  BY DEF IInv, CInv
<1>. USE MergeAssumption, <1>a DEF MergeAssumption, PromptCalls, TypeOK, Places, Statuses,
   CiStates, Procs, Job, Sweep, Idle, NoAsk, Go, Stop, Then, Row, SetStatus, Reading,
   github, people, AskRow, Place, AtSound, ClaimSound, Holds, Holders, Claimable, Pending,
   MergeSound
<1>1. ASSUME NEW h \in Heads, Push(h) PROVE ClaimSound(d)'
  BY <1>1 DEF Push
<1>2. ASSUME NEW s \in {"merged", "closed"}, Settle(s) PROVE ClaimSound(d)'
  BY <1>2 DEF Settle
<1>3. ASSUME NEW h \in Heads, CiReports(h) PROVE ClaimSound(d)'
  BY <1>3 DEF CiReports
<1>4. CASE JobAsks
  BY <1>4 DEF JobAsks, PullRead
<1>5. ASSUME NEW q \in Procs, NEW answered \in BOOLEAN, AskAgain(q, answered)
     PROVE  ClaimSound(d)'
  BY <1>5 DEF AskAgain, PullRead
<1>6. ASSUME NEW q \in Procs, AskFind(q) PROVE ClaimSound(d)'
  BY <1>6 DEF AskFind
<1>7. ASSUME NEW q \in Procs, AskSupersede(q) PROVE ClaimSound(d)'
  BY <1>7 DEF AskSupersede
<1>8. ASSUME NEW q \in Procs, AskCreate(q) PROVE ClaimSound(d)'
  BY <1>8 DEF AskCreate
<1>9. ASSUME NEW k \in Asks, NEW answered \in BOOLEAN, SweepLooks(k, answered)
     PROVE  ClaimSound(d)'
  BY <1>9 DEF SweepLooks
<1>10. ASSUME NEW k \in Asks, SweepExpires(k) PROVE ClaimSound(d)'
  BY <1>10 DEF SweepExpires
<1>11. CASE SweepRetires
  BY <1>11 DEF SweepRetires
<1>12. CASE SweepRestales
  BY <1>12 DEF SweepRestales
<1>13. CASE SweepPosts
  BY <1>13 DEF SweepPosts
<1>14. CASE SweepWaits
  BY <1>14 DEF SweepWaits
<1>15. ASSUME NEW c \in Deciders, NEW k \in Asks, Approve(c, k) PROVE ClaimSound(d)'
  <2>1. ~\E e \in Deciders : Holds(e) /\ at[e].row = k
    <3>1. SUFFICES ASSUME NEW e \in Deciders, Holds(e), at[e].row = k PROVE FALSE
      OBVIOUS
    <3>2. ask[k].status = "approved" /\ (ask[k].dry <=> mode # "on") /\ e \in Holders(k)
      BY <1>15, <3>1 DEF Approve
    <3>3. ask[k].dry /\ ~(mode # "on")
      BY <1>15, <3>2, Zenon DEF Approve, PromptCalls, Claimable
    <3>4. QED  BY <3>2, <3>3
  <2>2. /\ at[c].pc = "idle" /\ at' = [at EXCEPT ![c] = [Idle EXCEPT !.pc = "read", !.row = k]]
        /\ ask' = [ask EXCEPT ![k].status = "approved", ![k].dry = (mode # "on")]
        /\ pr' = pr /\ mode' = mode
    BY <1>15 DEF Approve, Decides
  <2>3. /\ ask'[k].status = "approved" /\ (ask'[k].dry <=> mode # "on")
        /\ \A a \in Asks \ {k} : ask'[a] = ask[a]
    BY <2>2
  <2>4. /\ at'[c].row = k /\ at'[c].pc = "read"
        /\ \A e \in Deciders \ {c} : at'[e] = at[e]
    BY <2>2
  <2>5. CASE d = c
    BY <2>1, <2>2, <2>3, <2>4, <2>5 DEF ClaimSound, Holds
  <2>6. CASE d # c
    BY <2>1, <2>2, <2>3, <2>4, <2>6 DEF ClaimSound, Holds
  <2>7. QED  BY <2>5, <2>6
<1>16. ASSUME NEW c \in Deciders, NEW k \in Asks, Reject(c, k) PROVE ClaimSound(d)'
  BY <1>16 DEF Reject, Decides
<1>17. ASSUME NEW c \in Deciders, NEW answered \in BOOLEAN, ReadPull(c, answered)
     PROVE  ClaimSound(d)'
  BY <1>17 DEF ReadPull
<1>18. ASSUME NEW c \in Deciders, NEW polled \in BOOLEAN, NEW passes \in BOOLEAN, Verify(c, polled, passes)
     PROVE  ClaimSound(d)'
  <2>1. /\ at[c].pc = "verify" /\ ask' = ask /\ mode' = mode /\ pr' = pr /\ ci' = ci
    BY <1>18 DEF Verify
  <2>2. \/ Go(c, "refuse") \/ Go(c, "stale") \/ Then(c, "finish", "approved")
        \/ Go(c, "put") /\ ci[Row(c).head] = "green" /\ ~Row(c).dry
    BY <1>18, Zenon DEF Verify
  <2>3. /\ at'[c].pc \in {"refuse", "stale", "finish", "put"} /\ at'[c].row = at[c].row
        /\ at'[c].pc = "finish" => at'[c].to = "approved"
        /\ at'[c].pc = "put" => ci[Row(c).head] = "green" /\ ~Row(c).dry
        /\ \A e \in Deciders \ {c} : at'[e] = at[e]
    <3>1. CASE Go(c, "refuse") \/ Go(c, "stale")
      BY <3>1 DEF Go
    <3>2. CASE Then(c, "finish", "approved")
      BY <3>2 DEF Then
    <3>3. CASE Go(c, "put") /\ ci[Row(c).head] = "green" /\ ~Row(c).dry
      BY <3>3 DEF Go
    <3>4. QED  BY <2>2, <3>1, <3>2, <3>3
  <2>4. Holds(c)' /\ Holds(c) /\ ClaimSound(c)
    BY <2>1, <2>3
  <2>5. CASE d = c
    BY <2>1, <2>3, <2>4, <2>5
  <2>6. CASE d # c
    BY <2>1, <2>3, <2>4, <2>6
  <2>7. QED  BY <2>5, <2>6
<1>19. ASSUME NEW c \in Deciders, MergePull(c) PROVE ClaimSound(d)'
  BY <1>19 DEF MergePull
<1>20. ASSUME NEW c \in Deciders, MergeRefused(c) PROVE ClaimSound(d)'
  <2>1. /\ at[c].pc = "put" /\ ask' = ask /\ mode' = mode /\ pr' = pr
    BY <1>20 DEF MergeRefused
  <2>2. Go(c, "stale") \/ Go(c, "reread") \/ Then(c, "finish", "failed")
    BY <1>20, Zenon DEF MergeRefused
  <2>3. /\ at'[c].pc \in {"stale", "reread", "finish"} /\ at'[c].row = at[c].row
        /\ at'[c].pc = "finish" => at'[c].to = "failed"
        /\ \A e \in Deciders \ {c} : at'[e] = at[e]
    <3>1. CASE Go(c, "stale")
      BY <3>1 DEF Go
    <3>2. CASE Go(c, "reread")
      BY <3>2 DEF Go
    <3>3. CASE Then(c, "finish", "failed")
      BY <3>3 DEF Then
    <3>4. QED  BY <2>2, <3>1, <3>2, <3>3
  <2>4. Holds(c)' /\ Holds(c) /\ ClaimSound(c)
    BY <2>1, <2>3
  <2>5. CASE d = c
    BY <2>1, <2>3, <2>4, <2>5
  <2>6. CASE d # c
    BY <2>1, <2>3, <2>4, <2>6
  <2>7. QED  BY <2>5, <2>6
<1>21. ASSUME NEW c \in Deciders, NEW answered \in BOOLEAN, Reread(c, answered)
     PROVE  ClaimSound(d)'
  BY <1>21 DEF Reread
<1>22. ASSUME NEW c \in Deciders, Finish(c) PROVE ClaimSound(d)'
  BY <1>22 DEF Finish
<1>23. ASSUME NEW c \in Deciders, Refuse(c) PROVE ClaimSound(d)'
  BY <1>23 DEF Refuse
<1>24. ASSUME NEW c \in Deciders, Stale(c) PROVE ClaimSound(d)'
  BY <1>24 DEF Stale
<1>25. ASSUME NEW q \in Procs, Dies(q) PROVE ClaimSound(d)'
  BY <1>25 DEF Dies
<1>26. ASSUME NEW m \in Modes, Restart(m) PROVE ClaimSound(d)'
  BY <1>26 DEF Restart
<1>27. CASE UNCHANGED vars
  BY <1>27 DEF vars
<1>. HIDE MergeAssumption DEF MergeAssumption, PromptCalls, TypeOK, Places, Statuses,
   CiStates, Procs, Job, Sweep, Idle, NoAsk, Go, Stop, Then, Row, SetStatus, Reading,
   github, people, AskRow, Place, AtSound, ClaimSound, Holds, Holders, Claimable, Pending,
   MergeSound
<1>28. QED
  BY <1>1, <1>2, <1>3, <1>4, <1>5, <1>6, <1>7, <1>8, <1>9, <1>10, <1>11, <1>12, <1>13,
     <1>14, <1>15, <1>16, <1>17, <1>18, <1>19, <1>20, <1>21, <1>22, <1>23, <1>24, <1>25,
     <1>26, <1>27 DEF Next, Outside, AskStep, SweepStep, DecisionStep

\* Who merges keeps the outcome until it is on the row.
LEMMA TellStep ==
    ASSUME PromptCalls, IInv, CInv, [Next]_vars
    PROVE  TellSound'
<1>a. /\ TypeOK /\ MergeSound /\ TellSound
      /\ \A p \in Procs : AtSound(p)
      /\ \A e \in Deciders : ClaimSound(e)
  BY DEF IInv, CInv
<1>b. pr.via # 0 => pr.via \in Asks
  BY <1>a DEF TypeOK
<1>. USE MergeAssumption, <1>a DEF MergeAssumption, TypeOK, Places, Statuses, CiStates,
   Procs, Job, Sweep, Idle, NoAsk, Go, Stop, Then, Row, SetStatus, Reading, github, people,
   AskRow, Place, AtSound, ClaimSound, TellSound, Tells, Holds, Holders, Claimable, Pending,
   MergeSound
<1>1. ASSUME NEW h \in Heads, Push(h) PROVE TellSound'
  BY <1>1 DEF Push
<1>2. ASSUME NEW s \in {"merged", "closed"}, Settle(s) PROVE TellSound'
  BY <1>2 DEF Settle
<1>3. ASSUME NEW h \in Heads, CiReports(h) PROVE TellSound'
  BY <1>3 DEF CiReports
<1>4. CASE JobAsks
  BY <1>4 DEF JobAsks, PullRead
<1>5. ASSUME NEW q \in Procs, NEW answered \in BOOLEAN, AskAgain(q, answered)
     PROVE  TellSound'
  BY <1>5 DEF AskAgain, PullRead
<1>6. ASSUME NEW q \in Procs, AskFind(q) PROVE TellSound'
  BY <1>6 DEF AskFind
<1>7. ASSUME NEW q \in Procs, AskSupersede(q) PROVE TellSound'
  BY <1>7 DEF AskSupersede
<1>8. ASSUME NEW q \in Procs, AskCreate(q) PROVE TellSound'
  <2>1. /\ at[q].pc = "create" /\ at'[q].pc = "idle"
        /\ \A e \in Deciders \ {q} : at'[e] = at[e]
        /\ pr' = pr /\ lost' = lost
    BY <1>8 DEF AskCreate
  <2>2. \A a \in Asks : ask'[a] = ask[a] \/ (ask[a].status = "none" /\ ask'[a].status = "pending")
    <3>1. CASE UNCHANGED ask
      BY <3>1
    <3>2. ASSUME NEW a \in Asks, ask[a].status = "none",
                 ask' = [ask EXCEPT ![a] = [NoAsk EXCEPT !.status = "pending", !.head = at[q].head]]
          PROVE  \A b \in Asks : ask'[b] = ask[b] \/ (ask[b].status = "none" /\ ask'[b].status = "pending")
      BY <3>2
    <3>3. QED  BY <1>8, <3>1, <3>2, Zenon DEF AskCreate
  <2>3. \A e \in Deciders : Tells(e) => Tells(e)'
    BY <2>1
  <2>4. \A a \in Asks : ask'[a].status = "merged" => pr'.state = "merged"
    BY <2>1, <2>2
  <2>5. pr.via # 0 => \/ ask'[pr.via].status \in {"merged", "stale"}
                      \/ lost \/ \E e \in Deciders : Tells(e)
    BY <1>b, <2>2
  <2>6. QED  BY <2>1, <2>3, <2>4, <2>5
<1>9. ASSUME NEW k \in Asks, NEW answered \in BOOLEAN, SweepLooks(k, answered)
     PROVE  TellSound'
  BY <1>9 DEF SweepLooks
<1>10. ASSUME NEW k \in Asks, SweepExpires(k) PROVE TellSound'
  BY <1>10 DEF SweepExpires
<1>11. CASE SweepRetires
  BY <1>11 DEF SweepRetires
<1>12. CASE SweepRestales
  BY <1>12 DEF SweepRestales
<1>13. CASE SweepPosts
  BY <1>13 DEF SweepPosts
<1>14. CASE SweepWaits
  BY <1>14 DEF SweepWaits
<1>15. ASSUME NEW c \in Deciders, NEW k \in Asks, Approve(c, k) PROVE TellSound'
  BY <1>15 DEF Approve, Decides
<1>16. ASSUME NEW c \in Deciders, NEW k \in Asks, Reject(c, k) PROVE TellSound'
  BY <1>16 DEF Reject, Decides
<1>17. ASSUME NEW c \in Deciders, NEW answered \in BOOLEAN, ReadPull(c, answered)
     PROVE  TellSound'
  BY <1>17 DEF ReadPull
<1>18. ASSUME NEW c \in Deciders, NEW polled \in BOOLEAN, NEW passes \in BOOLEAN, Verify(c, polled, passes)
     PROVE  TellSound'
  BY <1>18 DEF Verify
<1>19. ASSUME NEW c \in Deciders, MergePull(c) PROVE TellSound'
  BY <1>19 DEF MergePull
<1>20. ASSUME NEW c \in Deciders, MergeRefused(c) PROVE TellSound'
  BY <1>20 DEF MergeRefused
<1>21. ASSUME NEW c \in Deciders, NEW answered \in BOOLEAN, Reread(c, answered)
     PROVE  TellSound'
  <2>1. /\ at[c].pc = "reread" /\ at'[c].row = at[c].row /\ at'[c].pc = "finish"
        /\ \A e \in Deciders \ {c} : at'[e] = at[e]
        /\ ask' = ask /\ pr' = pr
    BY <1>21 DEF Reread
  <2>2. lost => lost'
    BY <1>21, Zenon DEF Reread
  <2>3. CASE at[c].row = pr.via /\ pr.via # 0
    <3>1. CASE answered
      <4>1. at'[c].to = "merged"
        BY <1>21, <3>1, <2>3 DEF Reread
      <4>2. QED  BY <2>1, <2>2, <2>3, <4>1
    <3>2. CASE ~answered
      <4>1. lost'
        BY <1>21, <3>2, <2>3, Zenon DEF Reread
      <4>2. QED  BY <2>1, <4>1
    <3>3. QED  BY <3>1, <3>2
  <2>4. CASE ~(at[c].row = pr.via /\ pr.via # 0)
    BY <2>1, <2>2, <2>4
  <2>5. QED  BY <2>3, <2>4
<1>22. ASSUME NEW c \in Deciders, Finish(c) PROVE TellSound'
  BY <1>22 DEF Finish
<1>23. ASSUME NEW c \in Deciders, Refuse(c) PROVE TellSound'
  BY <1>23 DEF Refuse
<1>24. ASSUME NEW c \in Deciders, Stale(c) PROVE TellSound'
  BY <1>24 DEF Stale
<1>25. ASSUME NEW q \in Procs, Dies(q) PROVE TellSound'
  BY <1>25 DEF Dies
<1>26. ASSUME NEW m \in Modes, Restart(m) PROVE TellSound'
  BY <1>26 DEF Restart
<1>27. CASE UNCHANGED vars
  BY <1>27 DEF vars
<1>. HIDE MergeAssumption DEF MergeAssumption, TypeOK, Places, Statuses, CiStates, Procs,
   Job, Sweep, Idle, NoAsk, Go, Stop, Then, Row, SetStatus, Reading, github, people, AskRow,
   Place, AtSound, ClaimSound, TellSound, Tells, Holds, Holders, Claimable, Pending,
   MergeSound
<1>28. QED
  BY <1>1, <1>2, <1>3, <1>4, <1>5, <1>6, <1>7, <1>8, <1>9, <1>10, <1>11, <1>12, <1>13,
     <1>14, <1>15, <1>16, <1>17, <1>18, <1>19, <1>20, <1>21, <1>22, <1>23, <1>24, <1>25,
     <1>26, <1>27 DEF Next, Outside, AskStep, SweepStep, DecisionStep

-----------------------------------------------------------------------------
(* The theorems. *)

\* Who is pending or holds, one by one, makes a cardinality of at most one.
LEMMA AtMostOne ==
    ASSUME NEW S, \A x, y \in S : x = y
    PROVE  Cardinality(S) <= 1
<1>1. CASE S = {}
  BY <1>1, FS_EmptySet
<1>2. CASE S # {}
  <2>1. PICK x \in S : TRUE
    BY <1>2
  <2>2. S = {x}
    BY <2>1
  <2>3. Cardinality(S) = 1
    BY <2>2, FS_Singleton
  <2>4. QED  BY <2>3
<1>3. QED  BY <1>1, <1>2

(***************************************************************************)
(* The invariant that needs no assumption.                                 *)
(***************************************************************************)
LEMMA Invariant == Spec => []IInv
<1>1. ASSUME IInv, [Next]_vars PROVE IInv'
  <2>1. TypeOK' /\ MergeSound' /\ OnePending' /\ \A p \in Procs : AtSound(p)'
    BY <1>1, TypeStep, MergeStep, PendingStep, AtStep DEF IInv
  <2>2. Procs' = Procs
    BY DEF Procs, Job, Sweep
  <2>3. QED  BY <2>1, <2>2 DEF IInv
<1>2. IInv /\ [Next]_vars => IInv'
  BY <1>1
<1>3. QED  BY <1>2, InitSound, PTL DEF Spec

(***************************************************************************)
(* The one that assumes that no decision outlasts its claim.               *)
(***************************************************************************)
LEMMA ClaimInvariant == PromptCalls /\ Spec => [](IInv /\ CInv)
<1> SUFFICES ASSUME PromptCalls PROVE Spec => [](IInv /\ CInv)
  OBVIOUS
<1>1. ASSUME IInv, CInv, [Next]_vars PROVE CInv'
  <2>1. TellSound' /\ \A d \in Deciders : ClaimSound(d)'
    BY <1>1, TellStep, ClaimStep
  <2>2. QED  BY <2>1 DEF CInv
<1>2. IInv /\ CInv /\ [Next]_vars => CInv'
  BY <1>1
<1>3. QED  BY <1>2, InitClaims, Invariant, PTL DEF Spec

(***************************************************************************)
(* The types (TypeOK), for all bounds.                                     *)
(***************************************************************************)
THEOREM TypeCorrect == Spec => []TypeOK
<1>1. IInv => TypeOK
  BY DEF IInv
<1>2. QED  BY <1>1, Invariant, PTL

(***************************************************************************)
(* A push never rides along with a merge of embry0's (_merge pins the      *)
(* head, _verify wants its CI green), however pushes, asks, decisions,     *)
(* lost answers and restarts interleave, and with slow calls too.          *)
(***************************************************************************)
THEOREM MergesWhatWasAsked == Spec => []MergedAsAsked
<1>1. IInv => MergedAsAsked
  <2>. SUFFICES ASSUME IInv, pr.via # 0
                PROVE  pr.head = ask[pr.via].head /\ ci[pr.head] = "green"
    BY DEF MergedAsAsked
  <2>1. pr.head = ask[pr.via].head /\ ci[pr.head] # "not_green" /\ ci[pr.head] \in CiStates
    BY DEF IInv, MergeSound, TypeOK
  <2>2. QED  BY <2>1 DEF CiStates
<1>2. QED  BY <1>1, Invariant, PTL

(***************************************************************************)
(* At most one ask is open (create_pending, release), and an ended one     *)
(* never changes again: every UPDATE names the statuses it starts from.    *)
(***************************************************************************)
THEOREM OneQuestionAtATime == Spec => OneQuestion
<1> DEFINE Stays == \A a \in Asks : ask[a].status \in Ended => ask'[a] = ask[a]
<1>1. ASSUME IInv, [Next]_vars PROVE Stays
  <2>. SUFFICES ASSUME NEW a \in Asks, ask[a].status \in Ended PROVE ask'[a] = ask[a]
    OBVIOUS
  <2>a. TypeOK
    BY <1>1 DEF IInv
  <2>. USE <1>1, <2>a DEF TypeOK, Procs, Job, Sweep, Row, SetStatus, Reading, github,
     people, AskRow, Ended, Place
  <2>1. ASSUME NEW h \in Heads, Push(h) PROVE ask'[a] = ask[a]
    BY <2>1 DEF Push
  <2>2. ASSUME NEW s \in {"merged", "closed"}, Settle(s) PROVE ask'[a] = ask[a]
    BY <2>2 DEF Settle
  <2>3. ASSUME NEW h \in Heads, CiReports(h) PROVE ask'[a] = ask[a]
    BY <2>3 DEF CiReports
  <2>4. CASE JobAsks
    BY <2>4 DEF JobAsks, PullRead
  <2>5. ASSUME NEW q \in Procs, NEW answered \in BOOLEAN, AskAgain(q, answered)
       PROVE  ask'[a] = ask[a]
    BY <2>5 DEF AskAgain, PullRead
  <2>6. ASSUME NEW q \in Procs, AskFind(q) PROVE ask'[a] = ask[a]
    BY <2>6 DEF AskFind
  <2>7. ASSUME NEW q \in Procs, AskSupersede(q) PROVE ask'[a] = ask[a]
    BY <2>7 DEF AskSupersede
  <2>8. ASSUME NEW q \in Procs, AskCreate(q) PROVE ask'[a] = ask[a]
    BY <2>8 DEF AskCreate
  <2>9. ASSUME NEW k \in Asks, NEW answered \in BOOLEAN, SweepLooks(k, answered)
       PROVE  ask'[a] = ask[a]
    BY <2>9 DEF SweepLooks
  <2>10. ASSUME NEW k \in Asks, SweepExpires(k) PROVE ask'[a] = ask[a]
    BY <2>10 DEF SweepExpires
  <2>11. CASE SweepRetires
    BY <2>11 DEF SweepRetires
  <2>12. CASE SweepRestales
    BY <2>12 DEF SweepRestales
  <2>13. CASE SweepPosts
    BY <2>13 DEF SweepPosts
  <2>14. CASE SweepWaits
    BY <2>14 DEF SweepWaits
  <2>15. ASSUME NEW c \in Deciders, NEW k \in Asks, Approve(c, k) PROVE ask'[a] = ask[a]
    BY <2>15 DEF Approve, Decides, Claimable
  <2>16. ASSUME NEW c \in Deciders, NEW k \in Asks, Reject(c, k) PROVE ask'[a] = ask[a]
    BY <2>16 DEF Reject, Decides
  <2>17. ASSUME NEW c \in Deciders, NEW answered \in BOOLEAN, ReadPull(c, answered)
       PROVE  ask'[a] = ask[a]
    BY <2>17 DEF ReadPull
  <2>18. ASSUME NEW c \in Deciders, NEW polled \in BOOLEAN, NEW passes \in BOOLEAN, Verify(c, polled, passes)
       PROVE  ask'[a] = ask[a]
    BY <2>18 DEF Verify
  <2>19. ASSUME NEW c \in Deciders, MergePull(c) PROVE ask'[a] = ask[a]
    BY <2>19 DEF MergePull
  <2>20. ASSUME NEW c \in Deciders, MergeRefused(c) PROVE ask'[a] = ask[a]
    BY <2>20 DEF MergeRefused
  <2>21. ASSUME NEW c \in Deciders, NEW answered \in BOOLEAN, Reread(c, answered)
       PROVE  ask'[a] = ask[a]
    BY <2>21 DEF Reread
  <2>22. ASSUME NEW c \in Deciders, Finish(c) PROVE ask'[a] = ask[a]
    BY <2>22 DEF Finish
  <2>23. ASSUME NEW c \in Deciders, Refuse(c) PROVE ask'[a] = ask[a]
    BY <2>23 DEF Refuse
  <2>24. ASSUME NEW c \in Deciders, Stale(c) PROVE ask'[a] = ask[a]
    BY <2>24 DEF Stale
  <2>25. ASSUME NEW q \in Procs, Dies(q) PROVE ask'[a] = ask[a]
    BY <2>25 DEF Dies
  <2>26. ASSUME NEW m \in Modes, Restart(m) PROVE ask'[a] = ask[a]
    BY <2>26 DEF Restart
  <2>27. CASE UNCHANGED vars
    BY <2>27 DEF vars
  <2>. HIDE DEF Procs, Job, Sweep
  <2>28. QED
    BY <2>1, <2>2, <2>3, <2>4, <2>5, <2>6, <2>7, <2>8, <2>9, <2>10, <2>11, <2>12, <2>13,
       <2>14, <2>15, <2>16, <2>17, <2>18, <2>19, <2>20, <2>21, <2>22, <2>23, <2>24, <2>25,
       <2>26, <2>27 DEF Next, Outside, AskStep, SweepStep, DecisionStep
<1>2. IInv /\ IInv' /\ [Next]_vars => [Cardinality(Pending') <= 1 /\ Stays]_vars
  <2>1. IInv' => Cardinality(Pending') <= 1
    <3>1. ASSUME IInv' PROVE Cardinality(Pending') <= 1
      <4>1. \A a, b \in Pending' : a = b
        BY <3>1 DEF IInv, OnePending, Pending
      <4>2. QED  BY <4>1, AtMostOne
    <3>2. QED  BY <3>1
  <2>2. QED  BY <1>1, <2>1
<1>3. QED  BY <1>2, Invariant, PTL DEF Spec, OneQuestion

(***************************************************************************)
(* Two people who approve one ask cannot both act (claim_approval), as     *)
(* long as neither takes longer than IN_FLIGHT_TIMEOUT.                    *)
(***************************************************************************)
THEOREM OneHolderPerAsk == PromptCalls /\ Spec => []OneHolder
<1>1. CInv => OneHolder
  <2>. SUFFICES ASSUME CInv, NEW a \in Asks PROVE Cardinality(Holders(a)) <= 1
    BY DEF OneHolder
  <2>1. \A d, e \in Holders(a) : d = e
    BY DEF Holders, CInv, ClaimSound, Holds
  <2>2. QED  BY <2>1, AtMostOne
<1>2. QED  BY <1>1, ClaimInvariant, PTL

(***************************************************************************)
(* embry0 merges only for an ask that is claimed, and not in a dry run.    *)
(***************************************************************************)
THEOREM MergesOnlyUnderClaim == PromptCalls /\ Spec => MergesUnderClaim
<1> SUFFICES ASSUME PromptCalls PROVE Spec => MergesUnderClaim
  OBVIOUS
<1> DEFINE Claimed == pr'.via # pr.via => /\ ask[pr'.via].status \in {"approved", "stale"}
                                          /\ ~ask[pr'.via].dry /\ mode = "on"
<1>1. ASSUME IInv, CInv, [Next]_vars PROVE Claimed
  <2>a. TypeOK /\ (\A p \in Procs : AtSound(p)) /\ \A d \in Deciders : ClaimSound(d)
    BY <1>1 DEF IInv, CInv
  <2>. USE MergeAssumption, <1>1, <2>a DEF MergeAssumption, TypeOK, Procs, Job, Sweep, Row,
     Reading, github, people, AskRow, Place, AtSound, ClaimSound, Holds
  <2>1. ASSUME NEW h \in Heads, Push(h) PROVE Claimed
    BY <2>1 DEF Push
  <2>2. ASSUME NEW s \in {"merged", "closed"}, Settle(s) PROVE Claimed
    BY <2>2 DEF Settle
  <2>3. ASSUME NEW h \in Heads, CiReports(h) PROVE Claimed
    BY <2>3 DEF CiReports
  <2>4. CASE JobAsks
    BY <2>4 DEF JobAsks, PullRead
  <2>5. ASSUME NEW q \in Procs, NEW answered \in BOOLEAN, AskAgain(q, answered)
       PROVE  Claimed
    BY <2>5 DEF AskAgain, PullRead
  <2>6. ASSUME NEW q \in Procs, AskFind(q) PROVE Claimed
    BY <2>6 DEF AskFind
  <2>7. ASSUME NEW q \in Procs, AskSupersede(q) PROVE Claimed
    BY <2>7 DEF AskSupersede
  <2>8. ASSUME NEW q \in Procs, AskCreate(q) PROVE Claimed
    BY <2>8 DEF AskCreate
  <2>9. ASSUME NEW k \in Asks, NEW answered \in BOOLEAN, SweepLooks(k, answered)
       PROVE  Claimed
    BY <2>9 DEF SweepLooks
  <2>10. ASSUME NEW k \in Asks, SweepExpires(k) PROVE Claimed
    BY <2>10 DEF SweepExpires
  <2>11. CASE SweepRetires
    BY <2>11 DEF SweepRetires
  <2>12. CASE SweepRestales
    BY <2>12 DEF SweepRestales
  <2>13. CASE SweepPosts
    BY <2>13 DEF SweepPosts
  <2>14. CASE SweepWaits
    BY <2>14 DEF SweepWaits
  <2>15. ASSUME NEW c \in Deciders, NEW k \in Asks, Approve(c, k) PROVE Claimed
    BY <2>15 DEF Approve, Decides
  <2>16. ASSUME NEW c \in Deciders, NEW k \in Asks, Reject(c, k) PROVE Claimed
    BY <2>16 DEF Reject, Decides
  <2>17. ASSUME NEW c \in Deciders, NEW answered \in BOOLEAN, ReadPull(c, answered)
       PROVE  Claimed
    BY <2>17 DEF ReadPull
  <2>18. ASSUME NEW c \in Deciders, NEW polled \in BOOLEAN, NEW passes \in BOOLEAN, Verify(c, polled, passes)
       PROVE  Claimed
    BY <2>18 DEF Verify
  <2>19. ASSUME NEW c \in Deciders, MergePull(c) PROVE Claimed
    BY <2>19 DEF MergePull
  <2>20. ASSUME NEW c \in Deciders, MergeRefused(c) PROVE Claimed
    BY <2>20 DEF MergeRefused
  <2>21. ASSUME NEW c \in Deciders, NEW answered \in BOOLEAN, Reread(c, answered)
       PROVE  Claimed
    BY <2>21 DEF Reread
  <2>22. ASSUME NEW c \in Deciders, Finish(c) PROVE Claimed
    BY <2>22 DEF Finish
  <2>23. ASSUME NEW c \in Deciders, Refuse(c) PROVE Claimed
    BY <2>23 DEF Refuse
  <2>24. ASSUME NEW c \in Deciders, Stale(c) PROVE Claimed
    BY <2>24 DEF Stale
  <2>25. ASSUME NEW q \in Procs, Dies(q) PROVE Claimed
    BY <2>25 DEF Dies
  <2>26. ASSUME NEW m \in Modes, Restart(m) PROVE Claimed
    BY <2>26 DEF Restart
  <2>27. CASE UNCHANGED vars
    BY <2>27 DEF vars
  <2>. HIDE DEF Procs, Job, Sweep, Reading, github, people
  <2>28. QED
    BY <2>1, <2>2, <2>3, <2>4, <2>5, <2>6, <2>7, <2>8, <2>9, <2>10, <2>11, <2>12, <2>13,
       <2>14, <2>15, <2>16, <2>17, <2>18, <2>19, <2>20, <2>21, <2>22, <2>23, <2>24, <2>25,
       <2>26, <2>27 DEF Next, Outside, AskStep, SweepStep, DecisionStep
<1>2. IInv /\ CInv /\ [Next]_vars => [Claimed]_vars
  BY <1>1
<1>3. QED  BY <1>2, ClaimInvariant, PTL DEF Spec, MergesUnderClaim

(***************************************************************************)
(* The rows tell of the merge (finish), unless its answer was lost.        *)
(***************************************************************************)
THEOREM RowsTellOfMerge == PromptCalls /\ Spec => []RowsTellMerge
<1>1. IInv /\ CInv => RowsTellMerge
  <2>. SUFFICES ASSUME IInv, CInv PROVE RowsTellMerge
    OBVIOUS
  <2>1. \A d \in Deciders : Tells(d) /\ pr.via # 0 => d \in Holders(pr.via)
    BY DEF Tells, Holders
  <2>2. QED  BY <2>1 DEF CInv, TellSound, RowsTellMerge
<1>2. QED  BY <1>1, ClaimInvariant, PTL
=============================================================================
