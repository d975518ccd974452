------------------------- MODULE HealingCasesProofs -------------------------
(***************************************************************************)
(* What HealingCases promises of a case, proved for every set of change    *)
(* requests, any number of reopens, restarts and steps of the clock.       *)
(***************************************************************************)
EXTENDS HealingCases, TLAPS

(***************************************************************************)
(* GitHub and the stack: what happened, happened by now.                   *)
(***************************************************************************)
WorldSound ==
    /\ \A p \in PRs : forge[p].state = "merged" => forge[p].at \in 1..now
    /\ \A t \in 1..MaxTime : deploys[t] # {} => t <= now

(***************************************************************************)
(* Of a case c at a time n, when d are the deploys.  A deploy reported in  *)
(* this attempt, or about to be, carries its merge.                        *)
(***************************************************************************)
CarriesMerge(c, t, n, d) ==
    /\ t \in 1..n
    /\ c.mergedAt = 0 => t <= c.reopenAt
    /\ c.mergedAt # 0 /\ t >= c.mergedAt => c.sha # NoSha /\ c.sha \in d[t]

Shipping == {"merged", "deployed", "verified"}

\* The stage says whether a merge is known, and the path credits it.
MergeSound(c, n) ==
    /\ c.stage \in Shipping => c.mergedAt # 0
    /\ c.mergedAt # 0 => c.stage \in Shipping \cup {"closed"}
    /\ c.mergedAt # 0 <=> c.path \in MergePaths
    /\ c.reopenAt # 0 /\ c.mergedAt # 0 => c.mergedAt > c.reopenAt
    /\ c.reopenAt <= n

\* The anchor is the first of the deploys kept, and nothing is measured without it.
AnchorSound(c, n, d) ==
    /\ \A t \in c.kept : CarriesMerge(c, t, n, d)
    /\ c.anchor # 0 => c.mergedAt # 0 /\ c.anchor \in KeptFor(c)
    /\ c.stage # "closed" /\ c.mergedAt # 0 =>
          IF c.anchor = 0 THEN KeptFor(c) = {} ELSE \A t \in KeptFor(c) : c.anchor <= t
    /\ c.verdict # "pending" => c.anchor # 0 /\ c.judged

CaseSound(c, n, d) == c \in Case /\ MergeSound(c, n) /\ AnchorSound(c, n, d)

\* What the loops hold of the case.
LoopsSound ==
    /\ sync # 0 => CarriesMerge(case, sync, now, deploys)
    /\ judging # 0 => case.anchor # 0 /\ (~overtaken => judging = case.anchor)
    /\ case.verdict # "pending" /\ ~overtaken => case.measured = case.anchor

\* A replay runs alone, on a case that was never judged.
ReplaySound ==
    /\ CaseSound(replay.case, now, deploys) /\ ~replay.case.judged
    /\ ~Up => sync = 0 /\ judging = 0
    /\ \A row \in replay.rows : row.outcome = "merged" => row.at \in 1..now

(***************************************************************************)
(* The inductive invariant.                                                *)
(***************************************************************************)
IInv == TypeOK /\ WorldSound /\ CaseSound(case, now, deploys) /\ LoopsSound /\ ReplaySound

-----------------------------------------------------------------------------
(* The operators on the record of a case, apart from where they are used.  *)

\* A record of a case, field by field.
LEMMA CaseFields ==
    ASSUME NEW c \in Case
    PROVE  /\ c.stage \in Stages /\ c.path \in Paths /\ c.verdict \in Verdicts \cup {"pending"}
           /\ c.measured \in Times /\ c.sha \in PRs \cup {NoSha} /\ c.mergedAt \in Times
           /\ c.anchor \in Times /\ c.judged \in BOOLEAN
           /\ c.pr \in [PRs -> {"none", "open", "closed", "merged"}]
           /\ c.kept \subseteq Times /\ c.keys \subseteq Times
           /\ c.answers \subseteq Times \X Verdicts
           /\ c.shas \subseteq PRs /\ c.old \subseteq PRs
           /\ c.reopenAt \in Times /\ c.reopens \in 0..MaxReopens
BY DEF Case

\* Of a merge, its deploys and its verdict, d says what c says.
SameFix(c, d) ==
    /\ d.path = c.path /\ d.verdict = c.verdict /\ d.measured = c.measured /\ d.sha = c.sha
    /\ d.mergedAt = c.mergedAt /\ d.anchor = c.anchor /\ d.judged = c.judged /\ d.kept = c.kept
    /\ d.reopenAt = c.reopenAt

\* What every report but that of a deploy keeps of the case.
Keeps(c, d, n, m) ==
    /\ CaseSound(d, n, m)
    /\ \A t : CarriesMerge(c, t, n, m) => CarriesMerge(d, t, n, m)
    /\ d.anchor = c.anchor /\ d.verdict = c.verdict /\ d.measured = c.measured
    /\ d.judged = c.judged

\* A change of the stage alone, within what the merge allows.
LEMMA SameFixKeeps ==
    ASSUME NEW c, NEW n \in Nat, NEW m, CaseSound(c, n, m), NEW d \in Case, SameFix(c, d),
           d.stage \in Shipping => c.mergedAt # 0,
           c.mergedAt # 0 => d.stage \in Shipping \cup {"closed"},
           c.stage = "closed" => d.stage = "closed"
    PROVE  Keeps(c, d, n, m)
<1>1. KeptFor(d) = KeptFor(c)
  BY DEF KeptFor, SameFix
<1>2. \A t : CarriesMerge(d, t, n, m) <=> CarriesMerge(c, t, n, m)
  BY DEF CarriesMerge, SameFix
<1>3. MergeSound(d, n)
  BY DEF CaseSound, MergeSound, SameFix
<1>4. AnchorSound(d, n, m)
  BY <1>1, <1>2 DEF CaseSound, AnchorSound, SameFix
<1>5. QED  BY <1>2, <1>3, <1>4 DEF Keeps, CaseSound, SameFix

LEMMA KeepsTrans ==
    ASSUME NEW c, NEW d, NEW e, NEW n, NEW m, Keeps(c, d, n, m), Keeps(d, e, n, m)
    PROVE  Keeps(c, e, n, m)
BY DEF Keeps

\* transition(): forward, or nothing.
LEMMA ForwardCase ==
    ASSUME NEW c \in Case, NEW s \in Stages
    PROVE  /\ Forward(c, s) \in Case /\ SameFix(c, Forward(c, s))
           /\ Forward(c, s).pr = c.pr
           /\ Forward(c, s).stage = IF Rank[c.stage] < Rank[s] THEN s ELSE c.stage
BY DEF Forward, Behind, SameFix, Case

\* The tracker, the job, an abandoned attempt and a close move the stage alone.
LEMMA StageKeeps ==
    ASSUME NEW c, NEW n \in Nat, NEW m, CaseSound(c, n, m)
    PROVE  /\ Keeps(c, Tracked(c), n, m) /\ Keeps(c, Accepted(c), n, m)
           /\ Keeps(c, Forward(c, "pr_open"), n, m)
<1>1. ASSUME NEW s \in {"tracked", "accepted", "pr_open"} PROVE Keeps(c, Forward(c, s), n, m)
  <2> DEFINE d == Forward(c, s)
  <2>1. c \in Case /\ s \in Stages /\ c.stage \in Stages
    BY CaseFields DEF CaseSound, Stages
  <2>2. d \in Case /\ SameFix(c, d) /\ d.stage = IF Rank[c.stage] < Rank[s] THEN s ELSE c.stage
    BY <2>1, ForwardCase
  <2>3. c.mergedAt # 0 => d.stage = c.stage
    BY <2>2 DEF CaseSound, MergeSound, Shipping, Rank
  <2>4. d.stage \in {s, c.stage} /\ (c.stage = "closed" => d.stage = "closed")
    BY <2>2 DEF Rank
  <2> HIDE DEF d
  <2>5. /\ d.stage \in Shipping => c.mergedAt # 0
        /\ c.mergedAt # 0 => d.stage \in Shipping \cup {"closed"}
    BY <2>3, <2>4 DEF CaseSound, MergeSound, Shipping
  <2>6. Keeps(c, d, n, m)
    BY <2>2, <2>4, <2>5, SameFixKeeps
  <2>7. QED  BY <2>6 DEF d
<1>2. QED  BY <1>1 DEF Tracked, Accepted

LEMMA AttachKeeps ==
    ASSUME NEW c, NEW n \in Nat, NEW m, CaseSound(c, n, m), NEW p \in PRs, NEW reopened \in BOOLEAN
    PROVE  Keeps(c, AttachPr(c, p, reopened), n, m)
<1> DEFINE f == Forward(c, "pr_open")
           d == [f EXCEPT !.pr[p] = "open"]
<1>1. Keeps(c, f, n, m)
  BY StageKeeps
<1>2. f \in Case /\ CaseSound(f, n, m)
  BY <1>1 DEF Keeps, CaseSound
<1>3. AttachPr(c, p, reopened) \in {c, d}
  BY DEF AttachPr
<1> HIDE DEF f
<1>4. d \in Case /\ SameFix(f, d) /\ d.stage = f.stage
  BY <1>2 DEF Case, SameFix
<1> HIDE DEF d
<1>5. Keeps(f, d, n, m)
  BY <1>2, <1>4, SameFixKeeps DEF CaseSound, MergeSound
<1>6. Keeps(c, d, n, m) /\ Keeps(c, c, n, m)
  BY <1>1, <1>5, KeepsTrans DEF Keeps
<1>7. QED  BY <1>3, <1>6

LEMMA CloseKeeps ==
    ASSUME NEW c, NEW n \in Nat, NEW m, CaseSound(c, n, m)
    PROVE  /\ \A p \in PRs : Keeps(c, ClosePr(c, p), n, m)
           /\ Keeps(c, Abandoned(c), n, m)
           /\ Keeps(c, Closed(c, "cancelled"), n, m)
<1>1. c \in Case /\ Keeps(c, c, n, m)
  BY DEF CaseSound, Keeps
<1>2. ASSUME NEW p \in PRs PROVE Keeps(c, ClosePr(c, p), n, m)
  <2> DEFINE row == [c EXCEPT !.pr[p] = "closed"]
             back == [row EXCEPT !.stage = "accepted"]
  <2>1. ClosePr(c, p) \in {c, row} \/ (ClosePr(c, p) = back /\ c.stage = "pr_open")
    BY DEF ClosePr
  <2>2. row \in Case /\ SameFix(c, row) /\ row.stage = c.stage
    BY <1>1 DEF Case, SameFix
  <2>3. back \in Case /\ SameFix(c, back) /\ back.stage = "accepted"
    BY <1>1 DEF Case, SameFix, Stages
  <2> HIDE DEF row, back
  <2>4. Keeps(c, row, n, m)
    BY <2>2, SameFixKeeps DEF CaseSound, MergeSound
  <2>5. c.stage = "pr_open" => c.mergedAt = 0
    BY DEF CaseSound, MergeSound, Shipping
  <2>6. c.stage = "pr_open" => Keeps(c, back, n, m)
    BY <2>3, <2>5, SameFixKeeps DEF Shipping
  <2>7. QED  BY <1>1, <2>1, <2>4, <2>6
<1>3. ASSUME NEW d \in Case, d.stage = "closed", c.mergedAt # 0 <=> d.path \in MergePaths,
             d = [c EXCEPT !.stage = "closed", !.path = d.path]
      PROVE  Keeps(c, d, n, m)
  <2>1. /\ d.verdict = c.verdict /\ d.measured = c.measured /\ d.sha = c.sha
        /\ d.mergedAt = c.mergedAt /\ d.anchor = c.anchor /\ d.judged = c.judged /\ d.kept = c.kept
        /\ d.reopenAt = c.reopenAt
    BY <1>1, <1>3 DEF Case
  <2>2. KeptFor(d) = KeptFor(c)
    BY <2>1 DEF KeptFor
  <2>3. \A t : CarriesMerge(d, t, n, m) <=> CarriesMerge(c, t, n, m)
    BY <2>1 DEF CarriesMerge
  <2>4. MergeSound(d, n)
    BY <1>3, <2>1 DEF CaseSound, MergeSound, Shipping
  <2>5. AnchorSound(d, n, m)
    BY <1>3, <2>1, <2>2, <2>3 DEF CaseSound, AnchorSound
  <2>6. QED  BY <2>1, <2>3, <2>4, <2>5 DEF Keeps, CaseSound
<1>4. Keeps(c, Abandoned(c), n, m)
  <2> DEFINE d == [c EXCEPT !.stage = "closed", !.path = "abandoned"]
  <2>1. Abandoned(c) = c \/ (Abandoned(c) = d /\ c.stage = "accepted")
    BY DEF Abandoned
  <2>2. d \in Case /\ d.stage = "closed" /\ d.path = "abandoned"
    BY <1>1 DEF Case, Stages, Paths
  <2>3. c.stage = "accepted" => c.mergedAt = 0
    BY DEF CaseSound, MergeSound, Shipping
  <2>4. d = [c EXCEPT !.stage = "closed", !.path = d.path]
    BY <2>2
  <2> HIDE DEF d
  <2>5. c.stage = "accepted" => Keeps(c, d, n, m)
    BY <1>3, <2>2, <2>3, <2>4 DEF MergePaths
  <2>6. QED  BY <1>1, <2>1, <2>5
<1>5. Keeps(c, Closed(c, "cancelled"), n, m)
  <2> DEFINE path == IF c.path = "none" THEN "cancelled" ELSE c.path
             d == [c EXCEPT !.stage = "closed", !.path = path]
  <2>1. Closed(c, "cancelled") \in {c, d}
    BY DEF Closed
  <2>2. d \in Case /\ d.stage = "closed" /\ d.path = path
    <3>1. path \in Paths
      BY <1>1, CaseFields DEF Paths
    <3> HIDE DEF path
    <3>2. QED  BY <1>1, <3>1 DEF Case, Stages
  <2>3. c.mergedAt # 0 <=> path \in MergePaths
    BY DEF CaseSound, MergeSound, MergePaths
  <2>4. d = [c EXCEPT !.stage = "closed", !.path = d.path]
    BY <2>2
  <2> HIDE DEF d, path
  <2>5. Keeps(c, d, n, m)
    BY <1>3, <2>2, <2>3, <2>4
  <2>6. QED  BY <1>1, <2>1, <2>5
<1>6. QED  BY <1>2, <1>4, <1>5

\* record_merge: the first merge of the attempt, or one more report of it.
LEMMA MergeKeeps ==
    ASSUME NEW n \in Times, NEW c, NEW m, CaseSound(c, n, m), NEW p \in PRs,
           NEW sha \in PRs \cup {NoSha}, NEW at \in 1..n, NEW path \in MergePaths
    PROVE  Keeps(c, RecordMerge(c, p, sha, at, path), n, m)
<1> DEFINE current == MergeIsCurrent(c, p, sha, at)
           late == current /\ c.stage \in {"deployed", "verified"} /\ c.sha # NoSha
           seen == IF late THEN c.shas ELSE c.shas \cup ({sha} \ {NoSha})
           row == [c EXCEPT !.pr[p] = "merged", !.shas = seen]
           written == MergeFields(row, sha, at, path)
<1>1. c \in Case /\ n \in Nat /\ at \in Nat /\ at # 0 /\ at \in Times /\ path \in Paths
  BY HealingAssumption DEF CaseSound, Times, HealingAssumption, Paths
<1>2. c.mergedAt \in Nat /\ c.reopenAt \in Nat /\ c.anchor \in Nat /\ c.stage \in Stages
  BY <1>1, CaseFields DEF Times
<1>3. seen \subseteq PRs
  BY <1>1, CaseFields
<1>4. /\ c.stage = "closed" \/ ~current => RecordMerge(c, p, sha, at, path) = row
      /\ ~(c.stage = "closed" \/ ~current) =>
            RecordMerge(c, p, sha, at, path) =
               IF c.mergedAt = 0 /\ written.anchor = 0 THEN AnchorKept(written) ELSE written
  BY DEF RecordMerge
<1> HIDE DEF seen
<1>5. row \in Case /\ SameFix(c, row) /\ row.stage = c.stage
  BY <1>1, <1>3 DEF Case, SameFix
<1> HIDE DEF row
<1>6. Keeps(c, row, n, m)
  BY <1>1, <1>5, SameFixKeeps DEF CaseSound, MergeSound
<1>7. CASE c.stage = "closed" \/ ~current
  BY <1>4, <1>6, <1>7
<1>8. CASE c.stage # "closed" /\ current /\ c.mergedAt # 0
  <2> DEFINE commit == IF row.sha = NoSha THEN sha ELSE row.sha
             d == [row EXCEPT !.sha = commit]
  <2>1. c.stage \in Shipping /\ c.path \in MergePaths
    BY <1>8 DEF CaseSound, MergeSound
  <2>2. ~Behind(row, "merged")
    BY <1>5, <2>1 DEF Behind, Rank, Shipping
  <2>3. row.mergedAt = c.mergedAt /\ row.path = c.path /\ row.sha = c.sha
    BY <1>5 DEF SameFix
  <2>4. written = d
    <3>1. written = [row EXCEPT !.sha = commit,
                                !.mergedAt = IF row.mergedAt = 0 THEN at ELSE row.mergedAt,
                                !.path = IF row.path \in {"none", "self_resolved"} THEN path ELSE row.path]
      BY <2>2 DEF MergeFields
    <3>2. (IF row.mergedAt = 0 THEN at ELSE row.mergedAt) = row.mergedAt
          /\ (IF row.path \in {"none", "self_resolved"} THEN path ELSE row.path) = row.path
      BY <1>8, <2>1, <2>3 DEF MergePaths
    <3> HIDE DEF commit, written
    <3>3. QED  BY <1>5, <3>1, <3>2 DEF Case
  <2>5. commit \in PRs \cup {NoSha}
    BY <1>1, <2>3, CaseFields
  <2> HIDE DEF commit, written
  <2>6. /\ d \in Case /\ d.sha = commit /\ d.stage = c.stage
        /\ d.path = c.path /\ d.verdict = c.verdict /\ d.measured = c.measured
        /\ d.mergedAt = c.mergedAt /\ d.anchor = c.anchor /\ d.judged = c.judged /\ d.kept = c.kept
        /\ d.reopenAt = c.reopenAt
    BY <1>5, <2>5 DEF Case, SameFix
  <2> HIDE DEF d
  <2>7. \A t : CarriesMerge(c, t, n, m) => CarriesMerge(d, t, n, m)
    BY <2>3, <2>6 DEF CarriesMerge, commit
  <2>8. KeptFor(d) = KeptFor(c)
    BY <2>6 DEF KeptFor
  <2>9. MergeSound(d, n)
    BY <2>6 DEF CaseSound, MergeSound
  <2>10. AnchorSound(d, n, m)
    BY <2>6, <2>7, <2>8 DEF CaseSound, AnchorSound
  <2>11. Keeps(c, d, n, m)
    BY <2>6, <2>7, <2>9, <2>10 DEF Keeps, CaseSound
  <2>12. QED  BY <1>4, <1>8, <2>4, <2>11
<1>9. CASE c.stage # "closed" /\ current /\ c.mergedAt = 0
  <2> DEFINE d == [row EXCEPT !.stage = "merged", !.sha = sha, !.mergedAt = at, !.path = path]
  <2>1. c.stage \notin Shipping \cup {"closed"} /\ c.anchor = 0
    BY <1>9 DEF CaseSound, MergeSound, AnchorSound
  <2>2. Behind(row, "merged")
    BY <1>2, <1>5, <2>1 DEF Behind, Rank, Shipping, Stages
  <2>3. written = d
    BY <2>2 DEF MergeFields
  <2> HIDE DEF written
  <2>4. /\ d \in Case /\ d.sha = sha /\ d.stage = "merged" /\ d.path = path /\ d.mergedAt = at
        /\ d.verdict = c.verdict /\ d.measured = c.measured
        /\ d.anchor = c.anchor /\ d.judged = c.judged /\ d.kept = c.kept /\ d.reopenAt = c.reopenAt
    BY <1>1, <1>5 DEF Case, SameFix, Stages
  <2> HIDE DEF d
  <2>5. c.reopenAt = 0 \/ at > c.reopenAt
    BY <1>9 DEF MergeIsCurrent
  <2>6. \A t : CarriesMerge(c, t, n, m) => t \in Nat /\ t < at
    BY <1>1, <1>2, <1>9, <2>5 DEF CarriesMerge
  <2>7. \A t : CarriesMerge(c, t, n, m) => CarriesMerge(d, t, n, m)
    BY <1>1, <2>4, <2>6 DEF CarriesMerge
  <2>8. KeptFor(d) = {}
    BY <1>1, <2>4, <2>6 DEF KeptFor, CaseSound, AnchorSound
  <2>9. MergeSound(d, n)
    BY <1>1, <2>4, <2>5 DEF CaseSound, MergeSound, Shipping
  <2>10. AnchorSound(d, n, m)
    BY <2>1, <2>4, <2>7, <2>8 DEF CaseSound, AnchorSound
  <2>11. Keeps(c, d, n, m)
    BY <2>4, <2>7, <2>9, <2>10 DEF Keeps, CaseSound
  <2>12. AnchorKept(d) = d
    BY <2>8 DEF AnchorKept
  <2>13. QED  BY <1>4, <1>9, <2>3, <2>11, <2>12
<1>10. QED  BY <1>7, <1>8, <1>9

\* record_deploy, of a deploy that carries the merge.
LEMMA DeploySound ==
    ASSUME NEW n \in Times, NEW c, NEW m, CaseSound(c, n, m), NEW t \in 1..n, CarriesMerge(c, t, n, m),
           NEW d, d = RecordDeploy(c, t)
    PROVE  /\ CaseSound(d, n, m)
           /\ d.anchor = c.anchor => d.verdict = c.verdict /\ d.measured = c.measured
           /\ d.anchor # c.anchor => d.verdict = "pending"
           /\ c.anchor # 0 => d.anchor # 0
<1> DEFINE row == [c EXCEPT !.keys = c.keys \cup {t}, !.kept = c.kept \cup {t}]
           f == Forward(row, "deployed")
<1>1. c \in Case /\ n \in Nat /\ t \in Nat /\ t # 0 /\ t \in Times
  BY HealingAssumption DEF CaseSound, Times, HealingAssumption
<1>2. /\ c.mergedAt \in Nat /\ c.reopenAt \in Nat /\ c.anchor \in Nat /\ c.stage \in Stages
      /\ \A u \in c.kept : u \in Nat
  BY <1>1, CaseFields DEF Times
<1>3. CASE d = c
  BY <1>3
<1>4. CASE d # c
  <2>1. /\ c.stage = "closed" \/ c.mergedAt = 0 \/ t < c.mergedAt => d = row
        /\ ~(c.stage = "closed" \/ c.mergedAt = 0 \/ t < c.mergedAt) =>
              d = IF c.anchor = 0 THEN [f EXCEPT !.anchor = t]
                  ELSE IF t < c.anchor THEN Reanchored(f, t) ELSE row
    BY <1>4 DEF RecordDeploy
  <2>2. /\ row \in Case /\ row.stage = c.stage /\ row.kept = c.kept \cup {t}
        /\ row.path = c.path /\ row.verdict = c.verdict /\ row.measured = c.measured
        /\ row.sha = c.sha /\ row.mergedAt = c.mergedAt /\ row.anchor = c.anchor
        /\ row.judged = c.judged /\ row.reopenAt = c.reopenAt
    BY <1>1 DEF Case
  <2> HIDE DEF row
  <2>3. \A u : CarriesMerge(row, u, n, m) <=> CarriesMerge(c, u, n, m)
    BY <2>2 DEF CarriesMerge
  <2>4. \A u : u \in KeptFor(row) <=> u \in KeptFor(c) \/ (u = t /\ t >= c.mergedAt)
    BY <2>2 DEF KeptFor
  <2>5. CASE c.stage = "closed" \/ c.mergedAt = 0 \/ t < c.mergedAt
    <3>1. MergeSound(row, n)
      BY <2>2 DEF CaseSound, MergeSound
    <3>2. c.anchor # 0 => c.mergedAt # 0 /\ c.anchor \in KeptFor(row)
      BY <2>4 DEF CaseSound, AnchorSound
    <3>3. c.stage # "closed" /\ c.mergedAt # 0 => KeptFor(row) = KeptFor(c)
      BY <1>1, <1>2, <2>4, <2>5
    <3>4. \A u \in row.kept : CarriesMerge(row, u, n, m)
      BY <2>2, <2>3 DEF CaseSound, AnchorSound
    <3>5. AnchorSound(row, n, m)
      BY <2>2, <3>2, <3>3, <3>4 DEF CaseSound, AnchorSound
    <3>6. QED  BY <2>1, <2>2, <2>5, <3>1, <3>5 DEF CaseSound
  <2>6. CASE ~(c.stage = "closed" \/ c.mergedAt = 0 \/ t < c.mergedAt)
    <3>1. c.stage \in Shipping
      BY <2>6 DEF CaseSound, MergeSound
    <3>2. f \in Case /\ SameFix(row, f) /\ f.stage \in Shipping
      BY <2>2, <3>1, ForwardCase DEF Stages, Shipping
    <3> HIDE DEF f
    <3> DEFINE e == Reanchored(f, t)
               g == [f EXCEPT !.anchor = t]
    <3>3. /\ g \in Case /\ g.anchor = t /\ g.stage \in Shipping /\ g.kept = c.kept \cup {t}
          /\ g.path = c.path /\ g.verdict = c.verdict /\ g.sha = c.sha /\ g.mergedAt = c.mergedAt
          /\ g.judged = c.judged /\ g.reopenAt = c.reopenAt
      BY <1>1, <2>2, <3>2 DEF Case, SameFix
    <3>4. /\ e \in Case /\ e.anchor = t /\ e.stage \in Shipping /\ e.kept = c.kept \cup {t}
          /\ e.path = c.path /\ e.verdict = "pending" /\ e.sha = c.sha /\ e.mergedAt = c.mergedAt
          /\ e.judged = c.judged /\ e.reopenAt = c.reopenAt
      <4>1. 0 \in Times
        BY HealingAssumption DEF Times, HealingAssumption
      <4>2. QED  BY <1>1, <2>2, <3>2, <4>1 DEF Case, SameFix, Reanchored
    <3> HIDE DEF e, g
    <3>5. ASSUME NEW x \in {e, g}, c.anchor = 0 \/ t < c.anchor, x.verdict = "pending"
          PROVE  CaseSound(x, n, m)
      <4>1. /\ x \in Case /\ x.anchor = t /\ x.stage \in Shipping /\ x.kept = c.kept \cup {t}
            /\ x.path = c.path /\ x.sha = c.sha /\ x.mergedAt = c.mergedAt /\ x.reopenAt = c.reopenAt
        BY <3>3, <3>4, <3>5
      <4>2. MergeSound(x, n)
        BY <2>6, <4>1 DEF CaseSound, MergeSound
      <4>3. \A u \in x.kept : CarriesMerge(x, u, n, m)
        BY <4>1 DEF CaseSound, AnchorSound, CarriesMerge
      <4>4. \A u : u \in KeptFor(x) <=> u \in KeptFor(c) \/ u = t
        BY <2>6, <4>1, <1>1, <1>2 DEF KeptFor
      <4>5. \A u \in KeptFor(x) : t <= u
        <5>1. CASE c.anchor = 0
          <6>1. KeptFor(c) = {}
            BY <2>6, <5>1 DEF CaseSound, AnchorSound
          <6>2. QED  BY <1>1, <4>4, <6>1
        <5>2. CASE t < c.anchor /\ c.anchor # 0
          <6>1. \A u \in KeptFor(c) : c.anchor <= u /\ u \in Nat
            BY <1>2, <2>6, <5>2 DEF CaseSound, AnchorSound, KeptFor
          <6>2. QED  BY <1>1, <1>2, <4>4, <5>2, <6>1
        <5>3. QED  BY <3>5, <5>1, <5>2
      <4>6. t \in KeptFor(x)
        BY <4>4
      <4>7. AnchorSound(x, n, m)
        BY <1>1, <2>6, <3>5, <4>1, <4>3, <4>5, <4>6 DEF AnchorSound
      <4>8. QED  BY <4>1, <4>2, <4>7 DEF CaseSound
    <3>6. CASE c.anchor = 0
      <4>1. c.verdict = "pending"
        BY <3>6 DEF CaseSound, AnchorSound
      <4>2. d = g
        BY <2>1, <2>6, <3>6 DEF g
      <4>3. QED  BY <1>1, <3>3, <3>5, <3>6, <4>1, <4>2
    <3>7. CASE c.anchor # 0 /\ t < c.anchor
      <4>1. d = e
        BY <2>1, <2>6, <3>7 DEF e
      <4>2. QED  BY <1>1, <1>2, <3>4, <3>5, <3>7, <4>1
    <3>8. CASE c.anchor # 0 /\ ~(t < c.anchor)
      <4>1. d = row
        BY <2>1, <2>6, <3>8
      <4>2. MergeSound(row, n)
        BY <2>2 DEF CaseSound, MergeSound
      <4>3. \A u \in row.kept : CarriesMerge(row, u, n, m)
        BY <2>2, <2>3 DEF CaseSound, AnchorSound
      <4>4. \A u \in KeptFor(row) : c.anchor <= u
        <5>1. \A u \in KeptFor(c) : c.anchor <= u
          BY <2>6, <3>8 DEF CaseSound, AnchorSound
        <5>2. QED  BY <1>1, <1>2, <2>4, <3>8, <5>1
      <4>5. c.anchor \in KeptFor(row)
        BY <2>4, <3>8 DEF CaseSound, AnchorSound
      <4>6. AnchorSound(row, n, m)
        BY <2>2, <2>6, <3>8, <4>3, <4>4, <4>5 DEF CaseSound, AnchorSound
      <4>7. QED  BY <2>2, <4>1, <4>2, <4>6 DEF CaseSound
    <3>9. QED  BY <3>6, <3>7, <3>8
  <2>7. QED  BY <2>5, <2>6
<1>5. QED  BY <1>3, <1>4

\* record_verdict, on a case that has an anchor.
LEMMA VerdictSound ==
    ASSUME NEW n \in Times, NEW c, NEW m, CaseSound(c, n, m), c.anchor # 0,
           NEW v \in Verdicts, NEW from \in Times, NEW d, d = RecordVerdict(c, v, from)
    PROVE  /\ CaseSound(d, n, m) /\ d.anchor = c.anchor
           /\ \A t : CarriesMerge(c, t, n, m) => CarriesMerge(d, t, n, m)
           /\ (d.verdict = c.verdict /\ d.measured = c.measured) \/ d.measured = from
<1> DEFINE answered == [c EXCEPT !.answers = c.answers \cup {<<from, v>>}]
           f == Forward(c, "verified")
           judged == [f EXCEPT !.verdict = v, !.measured = from, !.judged = TRUE,
                               !.answers = f.answers \cup {<<from, v>>}]
<1>1. c \in Case /\ c.stage \in Stages /\ <<from, v>> \in Times \X Verdicts
  BY CaseFields DEF CaseSound
<1>2. c.mergedAt # 0 /\ c.path \in MergePaths /\ c.stage \in Shipping \cup {"closed"}
  BY DEF CaseSound, AnchorSound, MergeSound
<1>3. f \in Case /\ SameFix(c, f) /\ (c.stage # "closed" => f.stage = "verified")
  <2>1. f \in Case /\ SameFix(c, f) /\ f.stage = IF Rank[c.stage] < Rank["verified"] THEN "verified" ELSE c.stage
    BY <1>1, ForwardCase DEF Stages
  <2>2. QED  BY <1>2, <2>1 DEF Rank, Shipping
<1>4. VerdictPath(c, v) = c.path
  BY <1>2 DEF VerdictPath, MergePaths
<1>5. answered \in Case /\ SameFix(c, answered) /\ answered.stage = c.stage
  BY <1>1 DEF Case, SameFix
<1>6. CASE <<from, v>> \in c.answers
  BY <1>6 DEF RecordVerdict
<1>7. CASE <<from, v>> \notin c.answers /\ c.stage = "closed"
  <2>1. d = answered
    BY <1>7 DEF RecordVerdict
  <2> HIDE DEF answered
  <2>2. n \in Nat
    BY DEF Times
  <2>3. Keeps(c, answered, n, m)
    BY <1>5, <1>2, <2>2, SameFixKeeps DEF CaseSound, MergeSound
  <2>4. QED  BY <2>1, <2>3 DEF Keeps
<1>8. CASE <<from, v>> \notin c.answers /\ c.stage # "closed"
  <2>1. d = [f EXCEPT !.verdict = v, !.measured = from, !.judged = TRUE,
                      !.path = VerdictPath(c, v), !.answers = f.answers \cup {<<from, v>>}]
    BY <1>8 DEF RecordVerdict
  <2> HIDE DEF f
  <2>2. d = [f EXCEPT !.verdict = v, !.measured = from, !.judged = TRUE,
                      !.path = f.path, !.answers = f.answers \cup {<<from, v>>}]
    BY <1>3, <1>4, <2>1 DEF SameFix
  <2>3. /\ d \in Case /\ d.stage = "verified" /\ d.measured = from /\ d.judged /\ d.path = c.path
        /\ d.sha = c.sha /\ d.mergedAt = c.mergedAt /\ d.anchor = c.anchor /\ d.kept = c.kept
        /\ d.reopenAt = c.reopenAt
    <3> DEFINE answers == f.answers \cup {<<from, v>>}
    <3>1. answers \in SUBSET (Times \X Verdicts)
      BY <1>1, <1>3, CaseFields
    <3> HIDE DEF answers
    <3>2. d = [f EXCEPT !.verdict = v, !.measured = from, !.judged = TRUE, !.path = f.path,
                        !.answers = answers]
      BY <2>2 DEF answers
    <3>3. d \in Case
      BY <1>3, <3>1, <3>2 DEF Case
    <3>4. /\ d.stage = f.stage /\ d.measured = from /\ d.judged = TRUE /\ d.path = f.path
          /\ d.sha = f.sha /\ d.mergedAt = f.mergedAt /\ d.anchor = f.anchor /\ d.kept = f.kept
          /\ d.reopenAt = f.reopenAt
      BY <1>3, <3>2 DEF Case
    <3>5. QED  BY <1>3, <1>8, <3>3, <3>4 DEF SameFix
  <2>4. KeptFor(d) = KeptFor(c) /\ \A t : CarriesMerge(d, t, n, m) <=> CarriesMerge(c, t, n, m)
    BY <2>3 DEF KeptFor, CarriesMerge
  <2>5. MergeSound(d, n)
    BY <1>2, <2>3 DEF CaseSound, MergeSound, Shipping
  <2>6. AnchorSound(d, n, m)
    BY <1>8, <2>3, <2>4 DEF CaseSound, AnchorSound
  <2>7. QED  BY <2>3, <2>4, <2>5, <2>6 DEF CaseSound
<1>9. QED  BY <1>6, <1>7, <1>8

\* reopen: of the failed attempt the row keeps nothing.
LEMMA ReopenSound ==
    ASSUME NEW n \in Times, NEW c, NEW m, CaseSound(c, n, m), c.reopens < MaxReopens,
           NEW d, d = Reopened(c, n)
    PROVE  /\ CaseSound(d, n, m) /\ d.verdict = "pending"
           /\ \A t \in 1..n : CarriesMerge(d, t, n, m)
<1>1. c \in Case /\ n \in Nat /\ 0 \in Times
  BY HealingAssumption DEF CaseSound, Times, HealingAssumption
<1>2. c.reopens + 1 \in 0..MaxReopens
  BY <1>1, CaseFields, HealingAssumption DEF HealingAssumption
<1>3. /\ d \in Case /\ d.stage = "tracked" /\ d.verdict = "pending" /\ d.path = "none" /\ d.sha = NoSha
      /\ d.mergedAt = 0 /\ d.anchor = 0 /\ d.kept = {} /\ d.reopenAt = n
  BY <1>1, <1>2 DEF Reopened, Case, Stages, Paths
<1>4. KeptFor(d) = {}
  BY <1>3 DEF KeptFor
<1>5. MergeSound(d, n)
  BY <1>1, <1>3 DEF MergeSound, Shipping, MergePaths
<1>6. AnchorSound(d, n, m)
  BY <1>3, <1>4 DEF AnchorSound
<1>7. QED  BY <1>1, <1>3, <1>5, <1>6 DEF CaseSound, CarriesMerge

\* _replay_pipeline, one row.
LEMMA ReplayKeeps ==
    ASSUME NEW n \in Times, NEW c, NEW m, CaseSound(c, n, m), NEW row \in JobRows,
           row.outcome = "merged" => row.at \in 1..n
    PROVE  Keeps(c, Replayed(c, row), n, m)
<1> DEFINE a == Accepted(c)
           b == AttachPr(a, row.pr, FALSE)
<1>1. n \in Nat /\ row.pr \in PRs /\ row.outcome \in {"open", "merged", "closed"}
  BY HealingAssumption DEF HealingAssumption, JobRows, Times
<1>2. Keeps(c, a, n, m)
  BY <1>1, StageKeeps
<1>3. Keeps(a, b, n, m)
  BY <1>1, <1>2, AttachKeeps DEF Keeps
<1>4. Keeps(c, b, n, m) /\ CaseSound(b, n, m)
  BY <1>2, <1>3, KeepsTrans DEF Keeps
<1>5. Replayed(c, row) = CASE row.outcome = "merged" -> RecordMerge(b, row.pr, NoSha, row.at, "embry0")
                          [] row.outcome = "closed" -> ClosePr(b, row.pr)
                          [] OTHER -> b
  BY DEF Replayed
<1> HIDE DEF b
<1>6. CASE row.outcome = "merged"
  <2>1. Keeps(b, RecordMerge(b, row.pr, NoSha, row.at, "embry0"), n, m)
    BY <1>1, <1>4, <1>6, MergeKeeps DEF MergePaths
  <2>2. QED  BY <1>4, <1>5, <1>6, <2>1, KeepsTrans
<1>7. CASE row.outcome = "closed"
  <2>1. Keeps(b, ClosePr(b, row.pr), n, m)
    BY <1>1, <1>4, CloseKeeps
  <2>2. QED  BY <1>4, <1>5, <1>7, <2>1, KeepsTrans
<1>8. CASE row.outcome = "open"
  BY <1>4, <1>5, <1>8
<1>9. QED  BY <1>1, <1>6, <1>7, <1>8

-----------------------------------------------------------------------------
(* Each step keeps the invariant.                                          *)

\* Time passes, and the stack is deployed where it was not.
LEMMA LaterSound ==
    ASSUME NEW n \in Times, NEW k \in Times, n <= k, NEW m, NEW e,
           \A t \in 1..MaxTime : m[t] # {} => e[t] = m[t], NEW c, CaseSound(c, n, m)
    PROVE  /\ CaseSound(c, k, e)
           /\ \A t : CarriesMerge(c, t, n, m) => CarriesMerge(c, t, k, e)
<1>1. n \in Nat /\ k \in Nat /\ 1..n \subseteq 1..k /\ 1..n \subseteq 1..MaxTime
  BY HealingAssumption DEF Times, HealingAssumption
<1>2. \A t : CarriesMerge(c, t, n, m) => CarriesMerge(c, t, k, e)
  BY <1>1 DEF CarriesMerge
<1>3. MergeSound(c, k)
  <2>1. c.reopenAt \in Nat
    BY CaseFields DEF CaseSound, Times
  <2>2. QED  BY <1>1, <2>1 DEF CaseSound, MergeSound
<1>4. AnchorSound(c, k, e)
  BY <1>2 DEF CaseSound, AnchorSound
<1>5. QED  BY <1>2, <1>3, <1>4 DEF CaseSound

\* The world moves, the orchestrator does not.
LEMMA WorldStep ==
    ASSUME IInv, UNCHANGED <<case, Loops>>, WorldSound', now <= now',
           now' \in 1..MaxTime, forge' \in [PRs -> [state : {"none", "open", "closed", "merged"}, at : Times]],
           deploys' \in [1..MaxTime -> SUBSET PRs],
           \A t \in 1..MaxTime : deploys[t] # {} => deploys'[t] = deploys[t]
    PROVE  IInv'
<1>1. /\ now \in Times /\ now' \in Times /\ now \in Nat /\ now' \in Nat
  BY HealingAssumption DEF IInv, TypeOK, Times, HealingAssumption
<1>2. CaseSound(case, now, deploys) /\ CaseSound(replay.case, now, deploys)
  BY DEF IInv, ReplaySound
<1>3. /\ CaseSound(case, now', deploys') /\ CaseSound(replay.case, now', deploys')
      /\ \A t : CarriesMerge(case, t, now, deploys) => CarriesMerge(case, t, now', deploys')
  BY <1>1, <1>2, LaterSound
<1>4. UNCHANGED <<case, sync, judging, verdictOf, dropping, overtaken, restarts, replay>>
  BY DEF Loops
<1>5. LoopsSound'
  BY <1>3, <1>4 DEF IInv, LoopsSound
<1>6. ReplaySound'
  BY <1>1, <1>3, <1>4 DEF IInv, ReplaySound, Up
<1>7. TypeOK'
  BY <1>4 DEF IInv, TypeOK
<1>8. QED  BY <1>3, <1>4, <1>5, <1>6, <1>7 DEF IInv

\* A report changes the case, and leaves what the loops rely on.
LEMMA ReportStep ==
    ASSUME IInv, NEW d, Becomes(d), Keeps(case, d, now, deploys)
    PROVE  IInv'
<1>1. UNCHANGED <<now, forge, deploys, sync, judging, verdictOf, dropping, overtaken, restarts, replay>>
      /\ case' = d
  BY DEF Becomes, World, Loops
<1>2. CaseSound(d, now, deploys) /\ d \in Case
  BY DEF Keeps, CaseSound
<1>3. LoopsSound'
  BY <1>1 DEF IInv, LoopsSound, Keeps
<1>4. ReplaySound' /\ WorldSound'
  BY <1>1 DEF IInv, ReplaySound, WorldSound, Up
<1>5. TypeOK'
  BY <1>1, <1>2 DEF IInv, TypeOK
<1>6. QED  BY <1>1, <1>2, <1>3, <1>4, <1>5 DEF IInv

\* The case stays as it is, and the loops take hold of it or let go.
LEMMA LoopStep ==
    ASSUME IInv, UNCHANGED <<now, forge, deploys, case>>, LoopsSound', ReplaySound',
           sync' \in Times, judging' \in Times, verdictOf' \in Verdicts, dropping' \in BOOLEAN,
           overtaken' \in BOOLEAN, restarts' \in 0..MaxRestarts, replay' \in [rows : SUBSET JobRows, case : Case]
    PROVE  IInv'
BY DEF IInv, TypeOK, WorldSound

LEMMA NewCaseSound ==
    ASSUME NEW stage \in {"detected", "tracked"}, NEW n \in Nat, NEW m
    PROVE  CaseSound(NewCase(stage), n, m)
<1> DEFINE c == NewCase(stage)
<1>1. 0 \in Times /\ 0 \in 0..MaxReopens
  BY HealingAssumption DEF Times, HealingAssumption
<1>2. c \in Case
  BY <1>1 DEF NewCase, Case, Stages, Paths, Verdicts
<1>3. /\ c.stage = stage /\ c.path = "none" /\ c.verdict = "pending" /\ c.mergedAt = 0 /\ c.anchor = 0
      /\ c.kept = {} /\ c.reopenAt = 0
  BY DEF NewCase
<1> HIDE DEF c
<1>4. CaseSound(c, n, m)
  BY <1>2, <1>3 DEF CaseSound, MergeSound, AnchorSound, Shipping, MergePaths
<1>5. QED  BY <1>4 DEF c

\* No replay.
LEMMA NoReplaySound ==
    /\ NoReplay \in [rows : SUBSET JobRows, case : Case]
    /\ NoReplay.rows = {} /\ ~NoReplay.case.judged
    /\ \A n \in Nat : \A m : CaseSound(NoReplay.case, n, m)
<1>1. NoReplay.rows = {} /\ NoReplay.case = NewCase("detected")
  BY DEF NoReplay
<1>2. \A n \in Nat : \A m : CaseSound(NewCase("detected"), n, m)
  BY NewCaseSound
<1>3. NewCase("detected") \in Case
  BY <1>2, 0 \in Nat DEF CaseSound
<1>4. ~NewCase("detected").judged
  BY DEF NewCase
<1>5. QED  BY <1>1, <1>2, <1>3, <1>4 DEF NoReplay

LEMMA InitSound == Init => IInv
<1>1. SUFFICES ASSUME Init PROVE IInv
  OBVIOUS
<1>2. now = 1 /\ 1 \in 1..MaxTime /\ 0 \in Times /\ 1 \in Nat /\ 0 \in 0..MaxRestarts
  BY <1>1, HealingAssumption DEF Init, Times, HealingAssumption
<1>3. CaseSound(case, now, deploys)
  BY <1>1, <1>2, NewCaseSound DEF Init
<1>4. case.verdict = "pending"
  BY <1>1 DEF Init, NewCase
<1>5. /\ sync = 0 /\ judging = 0 /\ verdictOf = "healed" /\ dropping = FALSE
      /\ overtaken = FALSE /\ restarts = 0 /\ replay = NoReplay
  BY <1>1 DEF Init
<1>6. LoopsSound /\ ReplaySound
  BY <1>2, <1>4, <1>5, NoReplaySound DEF LoopsSound, ReplaySound, Up
<1>7. WorldSound
  BY <1>1 DEF Init, WorldSound
<1>8. TypeOK
  BY <1>1, <1>2, <1>3, <1>5, NoReplaySound DEF Init, TypeOK, CaseSound, Verdicts
<1>9. QED  BY <1>3, <1>6, <1>7, <1>8 DEF IInv

LEMMA InvariantStep == IInv /\ [Next]_vars => IInv'
<1> SUFFICES ASSUME IInv, [Next]_vars PROVE IInv'
  OBVIOUS
<1>a. /\ TypeOK /\ WorldSound /\ CaseSound(case, now, deploys) /\ LoopsSound /\ ReplaySound
      /\ case \in Case
  BY DEF IInv, CaseSound
<1>b. /\ now \in Nat /\ now \in Times /\ now \in 1..MaxTime /\ 0 \in Times
      /\ MaxTime \in Nat /\ MaxRestarts \in Nat /\ Owned \subseteq PRs
  BY <1>a, HealingAssumption DEF TypeOK, Times, HealingAssumption
<1>c. Keeps(case, case, now, deploys)
  BY <1>a DEF Keeps
<1>1. CASE Clock
  <2>1. now' = now + 1 /\ now' \in 1..MaxTime /\ UNCHANGED <<forge, deploys, case, Loops>>
    BY <1>1, <1>b DEF Clock
  <2>2. WorldSound'
    BY <1>a, <1>b, <2>1 DEF WorldSound, TypeOK, Times
  <2>3. QED  BY <1>a, <1>b, <2>1, <2>2, WorldStep DEF TypeOK
<1>2. CASE StackDeploys
  <2>1. PICK carried \in SUBSET MergedPRs \ {{}} : deploys' = [deploys EXCEPT ![now] = carried]
    BY <1>2 DEF StackDeploys
  <2>2. deploys[now] = {} /\ UNCHANGED <<now, forge, case, Loops>>
    BY <1>2 DEF StackDeploys
  <2>3. carried \subseteq PRs
    BY DEF MergedPRs
  <2>4. deploys' \in [1..MaxTime -> SUBSET PRs]
        /\ \A t \in 1..MaxTime : deploys'[t] = IF t = now THEN carried ELSE deploys[t]
    BY <1>a, <2>1, <2>3 DEF TypeOK
  <2>5. WorldSound'
    BY <1>a, <1>b, <2>2, <2>4 DEF WorldSound
  <2>6. QED  BY <1>a, <1>b, <2>2, <2>4, <2>5, WorldStep DEF TypeOK
<1>3. ASSUME NEW p \in PRs, ForgeOpens(p) \/ ForgeCloses(p) \/ ForgeMerges(p) PROVE IInv'
  <2>1. PICK s \in {"open", "closed"}, t \in Times :
           forge' = [forge EXCEPT ![p].state = s] \/ (t = now /\ forge' = [forge EXCEPT ![p] = [state |-> "merged", at |-> t]])
    BY <1>3, <1>b DEF ForgeOpens, ForgeCloses, ForgeMerges
  <2>2. UNCHANGED <<now, deploys, case, Loops>>
    BY <1>3 DEF ForgeOpens, ForgeCloses, ForgeMerges
  <2>3. forge' \in [PRs -> [state : {"none", "open", "closed", "merged"}, at : Times]]
    BY <1>a, <2>1 DEF TypeOK
  <2>4. \A q \in PRs : forge'[q].state = "merged" => forge'[q] = forge[q] \/ forge'[q].at = now
    BY <1>a, <2>1 DEF TypeOK
  <2>5. WorldSound'
    <3>1. \A q \in PRs : forge'[q].state = "merged" => forge'[q].at \in 1..now
      BY <1>a, <1>b, <2>4 DEF WorldSound
    <3>2. QED  BY <1>a, <2>2, <3>1 DEF WorldSound
  <2>6. QED  BY <1>a, <1>b, <2>2, <2>3, <2>5, WorldStep DEF TypeOK
<1>4. CASE FileTicket \/ DropFinding \/ Dispatch \/ Abandon
  <2>1. PICK d \in {Tracked(case), Closed(case, "cancelled"), Accepted(case), Abandoned(case)} : Becomes(d)
    BY <1>4 DEF FileTicket, DropFinding, Dispatch, Abandon
  <2>2. Keeps(case, d, now, deploys)
    BY <1>a, <1>b, StageKeeps, CloseKeeps
  <2>3. QED  BY <2>1, <2>2, ReportStep
<1>5. ASSUME NEW p \in PRs, JobReportsPr(p) \/ SyncReportsPr(p) \/ SyncReportsMerge(p) PROVE IInv'
  <2>1. CASE JobReportsPr(p)
    <3>1. Becomes(AttachPr(case, p, FALSE))
      BY <2>1 DEF JobReportsPr
    <3>2. QED  BY <1>a, <1>b, <3>1, AttachKeeps, ReportStep
  <2>2. CASE SyncReportsPr(p)
    <3> DEFINE again == case.pr[p] = "closed"
    <3>1. Becomes(AttachPr(case, p, again)) \/ Becomes(ClosePr(case, p))
      BY <2>2 DEF SyncReportsPr
    <3>2. again \in BOOLEAN
      OBVIOUS
    <3> HIDE DEF again
    <3>3. Keeps(case, AttachPr(case, p, again), now, deploys) /\ Keeps(case, ClosePr(case, p), now, deploys)
      BY <1>a, <1>b, <3>2, AttachKeeps, CloseKeeps
    <3>4. QED  BY <3>1, <3>3, ReportStep
  <2>3. CASE SyncReportsMerge(p)
    <3>1. forge[p].state = "merged" /\ Becomes(RecordMerge(case, p, p, forge[p].at, PathFor(p)))
      BY <2>3 DEF SyncReportsMerge
    <3>2. forge[p].at \in 1..now /\ PathFor(p) \in MergePaths /\ p \in PRs \cup {NoSha}
      BY <1>a, <3>1 DEF WorldSound, PathFor, MergePaths
    <3>3. Keeps(case, RecordMerge(case, p, p, forge[p].at, PathFor(p)), now, deploys)
      BY <1>a, <1>b, <3>2, MergeKeeps
    <3>4. QED  BY <3>1, <3>3, ReportStep
  <2>4. QED  BY <1>5, <2>1, <2>2, <2>3
<1>6. CASE ReadDraft
  <2>1. UNCHANGED <<now, forge, deploys, case, sync, judging, verdictOf, overtaken, restarts, replay>>
        /\ dropping' = TRUE
    BY <1>6 DEF ReadDraft, World
  <2>2. LoopsSound' /\ ReplaySound'
    BY <1>a, <2>1 DEF LoopsSound, ReplaySound, Up
  <2>3. QED  BY <1>a, <2>1, <2>2, LoopStep DEF TypeOK
<1>7. CASE CloseDraft
  <2>1. UNCHANGED <<now, forge, deploys, sync, judging, verdictOf, overtaken, restarts, replay>>
        /\ dropping' = FALSE /\ case' = Closed(case, "cancelled")
    BY <1>7 DEF CloseDraft, World
  <2>2. Keeps(case, case', now, deploys)
    BY <1>a, <1>b, <2>1, CloseKeeps
  <2>3. CaseSound(case', now, deploys) /\ case' \in Case
    BY <2>2 DEF Keeps, CaseSound
  <2>4. LoopsSound' /\ ReplaySound' /\ WorldSound'
    BY <1>a, <2>1, <2>2 DEF Keeps, LoopsSound, ReplaySound, WorldSound, Up
  <2>5. TypeOK'
    BY <1>a, <2>1, <2>3 DEF TypeOK
  <2>6. QED  BY <2>1, <2>3, <2>4, <2>5 DEF IInv
<1>8. CASE ReadCase
  <2>1. /\ UNCHANGED <<now, forge, deploys, case, judging, verdictOf, dropping, overtaken, restarts, replay>>
        /\ sync' \in Provable /\ case.sha # NoSha /\ case.mergedAt # 0 /\ Up
    BY <1>8 DEF ReadCase, World
  <2>2. /\ sync' \in 1..MaxTime /\ deploys[sync'] # {} /\ case.sha \in deploys[sync']
    BY <2>1 DEF Provable, Markers
  <2>3. sync' \in 1..now /\ sync' \in Times
    BY <1>a, <1>b, <2>2 DEF WorldSound, Times
  <2>4. CarriesMerge(case, sync', now, deploys)
    BY <2>1, <2>2, <2>3 DEF CarriesMerge
  <2>5. LoopsSound' /\ ReplaySound'
    BY <1>a, <2>1, <2>4 DEF LoopsSound, ReplaySound, Up
  <2>6. QED  BY <1>a, <2>1, <2>3, <2>5, LoopStep DEF TypeOK
<1>9. CASE ReportDeploy
  <2>1. /\ UNCHANGED <<now, forge, deploys, judging, verdictOf, dropping, restarts, replay>>
        /\ sync # 0 /\ sync' = 0 /\ case' = RecordDeploy(case, sync)
        /\ overtaken' = (overtaken \/ (judging # 0 /\ case'.anchor # case.anchor))
    BY <1>9 DEF ReportDeploy, World
  <2>2. CarriesMerge(case, sync, now, deploys) /\ sync \in 1..now
    BY <1>a, <2>1 DEF LoopsSound, CarriesMerge
  <2>3. /\ CaseSound(case', now, deploys)
        /\ case'.anchor = case.anchor => case'.verdict = case.verdict /\ case'.measured = case.measured
        /\ case'.anchor # case.anchor => case'.verdict = "pending"
        /\ case.anchor # 0 => case'.anchor # 0
    BY ONLY <1>a, <1>b, <2>1, <2>2, DeploySound
  <2>4. overtaken' \in BOOLEAN
    BY <2>1, Zenon
  <2>5. /\ ~overtaken' => ~overtaken
        /\ ~overtaken' /\ judging # 0 => case'.anchor = case.anchor
    BY <2>1, Zenon
  <2>6. LoopsSound'
    BY <1>a, <2>1, <2>3, <2>5 DEF LoopsSound
  <2>7. ReplaySound' /\ WorldSound'
    BY <1>a, <2>1 DEF ReplaySound, WorldSound, Up
  <2>8. TypeOK'
    BY <1>a, <1>b, <2>1, <2>3, <2>4 DEF TypeOK, CaseSound
  <2>9. QED  BY <2>1, <2>3, <2>6, <2>7, <2>8 DEF IInv
<1>10. CASE ReadPending
  <2>1. /\ UNCHANGED <<now, forge, deploys, case, sync, dropping, restarts, replay>>
        /\ Up /\ case.verdict = "pending" /\ case.anchor # 0
        /\ judging' = case.anchor /\ verdictOf' \in Verdicts /\ overtaken' = FALSE
    BY <1>10 DEF ReadPending, World, FixDeployed
  <2>2. LoopsSound' /\ ReplaySound'
    BY <1>a, <2>1 DEF LoopsSound, ReplaySound, Up
  <2>3. judging' \in Times
    BY <1>a, <2>1, CaseFields
  <2>4. QED  BY <1>a, <2>1, <2>2, <2>3, LoopStep DEF TypeOK
<1>11. CASE Judge
  <2>1. /\ UNCHANGED <<now, forge, deploys, sync, dropping, overtaken, restarts, replay>>
        /\ judging # 0 /\ case' = RecordVerdict(case, verdictOf, judging)
        /\ judging' = 0 /\ verdictOf' = "healed"
    BY <1>11 DEF Judge, World
  <2>2. case.anchor # 0 /\ verdictOf \in Verdicts /\ judging \in Times
    BY <1>a, <2>1 DEF LoopsSound, TypeOK
  <2>3. /\ CaseSound(case', now, deploys) /\ case'.anchor = case.anchor
        /\ \A t : CarriesMerge(case, t, now, deploys) => CarriesMerge(case', t, now, deploys)
        /\ (case'.verdict = case.verdict /\ case'.measured = case.measured) \/ case'.measured = judging
    BY ONLY <1>a, <1>b, <2>1, <2>2, VerdictSound
  <2>4. LoopsSound'
    BY <1>a, <2>1, <2>3 DEF LoopsSound
  <2>5. ReplaySound' /\ WorldSound'
    BY <1>a, <2>1 DEF ReplaySound, WorldSound, Up
  <2>6. TypeOK'
    BY <1>a, <1>b, <2>1, <2>3 DEF TypeOK, CaseSound, Verdicts
  <2>7. QED  BY <2>1, <2>3, <2>4, <2>5, <2>6 DEF IInv
<1>12. CASE ReopenNotHealed
  <2>1. /\ UNCHANGED <<now, forge, deploys, sync, judging, verdictOf, dropping, overtaken, restarts, replay>>
        /\ judging = 0 /\ case.reopens < MaxReopens /\ case' = Reopened(case, now)
    BY <1>12 DEF ReopenNotHealed, Becomes, World, Loops
  <2>2. /\ CaseSound(case', now, deploys) /\ case'.verdict = "pending"
        /\ \A t \in 1..now : CarriesMerge(case', t, now, deploys)
    BY ONLY <1>a, <1>b, <2>1, ReopenSound
  <2>3. LoopsSound'
    BY <1>a, <2>1, <2>2 DEF LoopsSound, CarriesMerge
  <2>4. ReplaySound' /\ WorldSound'
    BY <1>a, <2>1 DEF ReplaySound, WorldSound, Up
  <2>5. TypeOK'
    BY <1>a, <2>1, <2>2 DEF TypeOK, CaseSound
  <2>6. QED  BY <2>1, <2>2, <2>3, <2>4, <2>5 DEF IInv
<1>13. CASE Restart
  <2>1. PICK table \in [OpenedPRs -> UNION {Told(p) : p \in OpenedPRs}] :
            /\ \A p \in OpenedPRs : table[p] \in Told(p)
            /\ replay' = IF Settled(case) \/ OpenedPRs = {} THEN NoReplay
                         ELSE [rows |-> {table[p] : p \in OpenedPRs}, case |-> case]
    BY <1>13 DEF Restart
  <2>2. /\ UNCHANGED <<now, forge, deploys, case, overtaken>>
        /\ sync' = 0 /\ judging' = 0 /\ verdictOf' = "healed" /\ dropping' = FALSE
        /\ restarts < MaxRestarts /\ restarts' = restarts + 1
    BY <1>13 DEF Restart, World
  <2> DEFINE told == {table[p] : p \in OpenedPRs}
  <2>3. \A row \in told : row \in JobRows /\ (row.outcome = "merged" => row.at \in 1..now)
    <3>1. \A p \in OpenedPRs : \A row \in Told(p) :
             row \in JobRows /\ (row.outcome = "merged" =>
                row.pr = p /\ forge[p].state = "merged" /\ row.at \in forge[p].at..now)
      BY DEF Told
    <3>2. \A p \in OpenedPRs : forge[p].state = "merged" => forge[p].at \in 1..now
      BY <1>a, <1>b DEF OpenedPRs, WorldSound
    <3>3. \A p \in OpenedPRs : \A row \in Told(p) : row.outcome = "merged" => row.at \in 1..now
      BY <1>b, <3>1, <3>2
    <3>4. QED  BY <2>1, <3>1, <3>3
  <2> HIDE DEF told
  <2>4. \/ replay' = NoReplay
        \/ ~Settled(case) /\ replay' = [rows |-> told, case |-> case]
    BY <2>1 DEF told
  <2>5. replay' \in [rows : SUBSET JobRows, case : Case]
    BY <1>a, <2>3, <2>4, NoReplaySound
  <2>6. ReplaySound'
    <3>1. CASE replay' = NoReplay
      BY <1>b, <2>2, <3>1, NoReplaySound DEF ReplaySound, Up
    <3>2. CASE ~Settled(case) /\ replay' = [rows |-> told, case |-> case]
      <4>1. replay'.rows = told /\ replay'.case = case /\ ~case.judged
        BY <3>2 DEF Settled
      <4>2. QED  BY <1>a, <2>2, <2>3, <4>1 DEF ReplaySound
    <3>3. QED  BY <2>4, <3>1, <3>2
  <2>7. LoopsSound'
    BY <1>a, <2>2 DEF LoopsSound
  <2>8. restarts' \in 0..MaxRestarts
    BY <1>a, <1>b, <2>2 DEF TypeOK
  <2>9. QED  BY <1>a, <1>b, <2>2, <2>5, <2>6, <2>7, <2>8, LoopStep DEF TypeOK, Verdicts
<1>14. CASE BackfillFails
  <2>1. UNCHANGED <<now, forge, deploys, case, sync, judging, verdictOf, dropping, overtaken, restarts>>
        /\ replay' = NoReplay
    BY <1>14 DEF BackfillFails, World
  <2>2. LoopsSound' /\ ReplaySound'
    BY <1>a, <1>b, <2>1, NoReplaySound DEF LoopsSound, ReplaySound, Up
  <2>3. QED  BY <1>a, <2>1, <2>2, NoReplaySound, LoopStep DEF TypeOK
<1>15. ASSUME NEW row \in JobRows, ReplayRow(row) PROVE IInv'
  <2> DEFINE left == replay.rows \ {row}
             replayed == Replayed(replay.case, row)
  <2>1. /\ UNCHANGED <<now, forge, deploys, sync, judging, verdictOf, dropping, overtaken, restarts>>
        /\ row \in replay.rows
        /\ case' = IF left = {} THEN replayed ELSE case
        /\ replay' = IF left = {} THEN NoReplay ELSE [rows |-> left, case |-> replayed]
    BY <1>15 DEF ReplayRow, World
  <2>2. sync = 0 /\ judging = 0 /\ (row.outcome = "merged" => row.at \in 1..now)
        /\ CaseSound(replay.case, now, deploys) /\ ~replay.case.judged
    BY <1>a, <2>1 DEF ReplaySound, Up
  <2>3. Keeps(replay.case, replayed, now, deploys)
    BY ONLY <1>b, <2>2, row \in JobRows, ReplayKeeps
  <2> HIDE DEF replayed
  <2>4. CaseSound(replayed, now, deploys) /\ replayed \in Case /\ ~replayed.judged
    BY <2>2, <2>3 DEF Keeps, CaseSound
  <2>5. replayed.verdict = "pending"
    BY <2>4 DEF CaseSound, AnchorSound
  <2>6. CaseSound(case', now, deploys) /\ case' \in Case
    BY <1>a, <2>1, <2>4
  <2>7. LoopsSound'
    BY <1>a, <2>1, <2>2, <2>5 DEF LoopsSound
  <2>8. left \subseteq replay.rows /\ replay.rows \subseteq JobRows
    BY <1>a DEF TypeOK
  <2> HIDE DEF left
  <2>9. replay' = NoReplay \/ (replay'.rows = left /\ replay'.case = replayed
                               /\ replay' = [rows |-> left, case |-> replayed])
    BY <2>1
  <2>10. replay' \in [rows : SUBSET JobRows, case : Case]
    BY <2>4, <2>8, <2>9, NoReplaySound
  <2>11. ReplaySound'
    BY <1>a, <1>b, <2>1, <2>2, <2>4, <2>8, <2>9, NoReplaySound DEF ReplaySound, Up
  <2>12. TypeOK' /\ WorldSound'
    BY <1>a, <2>1, <2>6, <2>10 DEF TypeOK, WorldSound
  <2>13. QED  BY <2>1, <2>6, <2>7, <2>11, <2>12 DEF IInv
<1>16. CASE UNCHANGED vars
  BY <1>a, <1>16 DEF vars, IInv, TypeOK, WorldSound, LoopsSound, ReplaySound, Up
<1>17. QED
  BY <1>1, <1>2, <1>3, <1>4, <1>5, <1>6, <1>7, <1>8, <1>9, <1>10, <1>11, <1>12, <1>13, <1>14,
     <1>15, <1>16 DEF Next, ForgeStep, Report, Backfill

\* The induction, once for everything below.
LEMMA Invariant == Spec => []IInv
BY InitSound, InvariantStep, PTL DEF Spec

-----------------------------------------------------------------------------
(* What the invariant is for.                                              *)

(***************************************************************************)
(* Case, loops and backfill keep their types: no stage, path or verdict    *)
(* outside the tables of lifecycle.py, no reopen beyond                    *)
(* MAX_NOT_HEALED_RETRIES.                                                 *)
(***************************************************************************)
THEOREM TypeCorrect == Spec => []TypeOK
<1>1. IInv => TypeOK
  BY DEF IInv
<1>2. QED  BY <1>1, Invariant, PTL

(***************************************************************************)
(* The anchor is the earliest deploy reported after the merge, and where   *)
(* the case says that its fix is deployed, one that contains the fix       *)
(* (record_deploy, _anchor_kept_deploy, fix_deployed).                     *)
(***************************************************************************)
THEOREM FixesAnchored == Spec => []FixAnchored
<1>1. IInv => FixAnchored
  <2>1. SUFFICES ASSUME IInv PROVE FixAnchored
    OBVIOUS
  <2>2. case \in Case /\ AnchorSound(case, now, deploys)
    BY <2>1 DEF IInv, CaseSound
  <2>3. AnchorCarriesFix
    BY <2>2 DEF AnchorCarriesFix, AnchorSound, FixDeployed, KeptFor, CarriesMerge
  <2>4. AnchorIsEarliest
    <3>1. SUFFICES ASSUME case.stage # "closed", case.mergedAt # 0, KeptFor(case) # {}
                   PROVE  case.anchor = Min(KeptFor(case))
      BY <2>2 DEF AnchorIsEarliest, AnchorSound, KeptFor, CarriesMerge
    <3>2. case.anchor \in KeptFor(case) /\ \A t \in KeptFor(case) : case.anchor <= t
      BY <2>2, <3>1 DEF AnchorSound
    <3>3. \A t \in KeptFor(case) : t \in Nat
      BY <2>2, CaseFields DEF KeptFor, Times
    <3>4. \A t \in KeptFor(case) : (\A u \in KeptFor(case) : t =< u) => t = case.anchor
      BY <3>2, <3>3
    <3>5. Min(KeptFor(case)) = CHOOSE t \in KeptFor(case) : \A u \in KeptFor(case) : t =< u
      BY DEF Min
    <3>6. Min(KeptFor(case)) \in KeptFor(case) /\ \A u \in KeptFor(case) : Min(KeptFor(case)) =< u
      BY <3>2, <3>5
    <3>7. QED  BY <3>4, <3>6
  <2>5. QED  BY <2>3, <2>4 DEF FixAnchored
<1>2. QED  BY <1>1, Invariant, PTL

(***************************************************************************)
(* The merge on a row was made in this attempt, however late the merge or  *)
(* the deploy of a failed one is delivered, and the resolution of the case *)
(* is put down to it (_merge_is_current, _apply, close).                   *)
(***************************************************************************)
THEOREM MergesAreTheirOwn == Spec => []MergeIsItsOwn
<1>1. IInv => MergeIsItsOwn
  <2>1. SUFFICES ASSUME IInv PROVE MergeIsItsOwn
    OBVIOUS
  <2>2. case \in Case /\ MergeSound(case, now) /\ AnchorSound(case, now, deploys)
    BY <2>1 DEF IInv, CaseSound
  <2>3. MergeGetsCredit
    BY <2>2 DEF MergeGetsCredit, MergeSound
  <2>4. RetryOnItsOwn
    <3>1. case.mergedAt \in Nat /\ case.anchor \in Nat /\ case.reopenAt \in Nat
      BY <2>2, CaseFields DEF Times
    <3>2. QED  BY <2>2, <3>1 DEF RetryOnItsOwn, MergeSound, AnchorSound, KeptFor
  <2>5. QED  BY <2>3, <2>4 DEF MergeIsItsOwn
<1>2. QED  BY <1>1, Invariant, PTL

(***************************************************************************)
(* A verdict on a case was measured from the anchor the case has; only a   *)
(* deploy reported while the sweep was measuring gets past this            *)
(* (record_deploy voids, ConfirmHealedSweep judges).                       *)
(***************************************************************************)
THEOREM VerdictsFromAnchor == Spec => []VerdictFromAnchor
<1>1. IInv => VerdictFromAnchor
  BY DEF IInv, LoopsSound, VerdictFromAnchor
<1>2. QED  BY <1>1, Invariant, PTL
=============================================================================
