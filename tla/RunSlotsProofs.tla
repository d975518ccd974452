--------------------------- MODULE RunSlotsProofs ---------------------------
(***************************************************************************)
(* The gate of RunSlots, proved for every set of claims and every limit:   *)
(* the cap is kept, no slot is lost and no claim is left behind.           *)
(***************************************************************************)
EXTENDS RunSlots, FiniteSetTheorems, SequenceTheorems, TLAPS

\* Each queue holds claims of its kind, each once.
LineSound ==
    /\ IsInjective(priority)
    /\ IsInjective(ordinary)
    /\ QueueKinds

(***************************************************************************)
(* The inductive invariant.  RunningWithinLimit alone is not inductive: a  *)
(* release grants as many claims as there is room, and only because the    *)
(* gate was full whenever somebody waited is that at most one.             *)
(***************************************************************************)
IInv ==
    /\ TypeOK
    /\ RunningWithinLimit
    /\ NoWaiterBesideFreeSlot
    /\ ClaimsWherePlaced
    /\ LineSound

-----------------------------------------------------------------------------
(* Queues as sequences without repetition.                                 *)

\* An element that joins a queue it is not in is its last and only one.
LEMMA AppendOnce ==
    ASSUME NEW S, NEW s \in Seq(S), NEW e \in S, IsInjective(s), e \notin Range(s)
    PROVE  /\ Append(s, e) \in Seq(S)
           /\ IsInjective(Append(s, e))
           /\ Range(Append(s, e)) = Range(s) \cup {e}
<1> DEFINE t == Append(s, e)
<1>1. /\ t \in Seq(S)
      /\ Len(t) = Len(s) + 1
      /\ \A i \in 1..Len(s) : t[i] = s[i]
      /\ t[Len(s) + 1] = e
  BY AppendProperties
<1>2. Len(s) \in Nat /\ DOMAIN s = 1..Len(s) /\ DOMAIN t = 1..(Len(s) + 1)
  BY <1>1, LenProperties
<1> HIDE DEF t
<1>3. IsInjective(t)
  <2> SUFFICES ASSUME NEW a \in 1..(Len(s) + 1), NEW b \in 1..(Len(s) + 1), t[a] = t[b]
               PROVE  a = b
    BY <1>2 DEF IsInjective
  <2>1. CASE a \in 1..Len(s) /\ b \in 1..Len(s)
    BY <2>1, <1>1, <1>2 DEF IsInjective
  <2>2. CASE a = Len(s) + 1 \/ b = Len(s) + 1
    <3>1. \A i \in 1..Len(s) : t[i] # e
      BY <1>1, <1>2 DEF Range
    <3>2. QED  BY <2>2, <3>1, <1>1, <1>2
  <2>3. QED  BY <2>1, <2>2, <1>2
<1>4. Range(t) = Range(s) \cup {e}
  BY <1>1, <1>2 DEF Range
<1>5. QED  BY <1>1, <1>3, <1>4 DEF t

\* A queue without its head.
LEMMA DropHead ==
    ASSUME NEW S, NEW s \in Seq(S), s # <<>>, IsInjective(s)
    PROVE  /\ SubSeq(s, 2, Len(s)) \in Seq(S)
           /\ IsInjective(SubSeq(s, 2, Len(s)))
           /\ Range(SubSeq(s, 2, Len(s))) = Range(s) \ {s[1]}
           /\ s[1] \in Range(s)
<1> DEFINE t == SubSeq(s, 2, Len(s))
<1>1. Len(s) \in Nat /\ Len(s) > 0 /\ DOMAIN s = 1..Len(s)
  BY LenProperties, EmptySeq
<1>2. \A i \in 2..Len(s) : s[i] \in S
  BY <1>1, ElementOfSeq
<1>3. /\ t \in Seq(S)
      /\ Len(t) = Len(s) - 1
      /\ \A i \in 1..(Len(s) - 1) : t[i] = s[i + 1]
  BY <1>1, <1>2, SubSeqProperties
<1>4. DOMAIN t = 1..(Len(s) - 1)
  BY <1>3, LenProperties
<1> HIDE DEF t
<1>5. IsInjective(t)
  BY <1>1, <1>3, <1>4 DEF IsInjective
<1>6. Range(t) \subseteq Range(s) \ {s[1]}
  <2> SUFFICES ASSUME NEW i \in 1..(Len(s) - 1)
               PROVE  t[i] \in Range(s) /\ t[i] # s[1]
    BY <1>4 DEF Range
  <2>1. t[i] = s[i + 1] /\ i + 1 \in 1..Len(s) /\ i + 1 # 1 /\ 1 \in 1..Len(s)
    BY <1>1, <1>3
  <2>2. QED  BY <2>1, <1>1 DEF Range, IsInjective
<1>7. Range(s) \ {s[1]} \subseteq Range(t)
  <2> SUFFICES ASSUME NEW i \in 1..Len(s), s[i] # s[1]
               PROVE  s[i] \in Range(t)
    BY <1>1 DEF Range
  <2>1. i - 1 \in 1..(Len(s) - 1) /\ t[i - 1] = s[i]
    BY <1>1, <1>3
  <2>2. QED  BY <2>1, <1>4 DEF Range
<1>8. s[1] \in Range(s)
  BY <1>1 DEF Range
<1>9. QED  BY <1>3, <1>5, <1>6, <1>7, <1>8 DEF t

\* A queue without an element somewhere in it (deque.remove).
LEMMA RemoveOnce ==
    ASSUME NEW S, NEW s \in Seq(S), NEW e, e \in Range(s), IsInjective(s)
    PROVE  /\ Without(s, e) \in Seq(S)
           /\ IsInjective(Without(s, e))
           /\ Range(Without(s, e)) = Range(s) \ {e}
<1> DEFINE n == Len(s)
           i == CHOOSE j \in DOMAIN s : s[j] = e
           u == SubSeq(s, 1, i - 1)
           v == SubSeq(s, i + 1, n)
           t == u \o v
<1>1. n \in Nat /\ DOMAIN s = 1..n
  BY LenProperties
<1>2. i \in 1..n /\ s[i] = e
  BY <1>1 DEF Range
<1> HIDE DEF i, n
<1>3. \A k \in 1..n : s[k] \in S
  BY <1>1, ElementOfSeq DEF n
<1>4. /\ u \in Seq(S) /\ Len(u) = i - 1
      /\ \A k \in 1..(i - 1) : u[k] = s[k]
  <2>1. \A k \in 1..(i - 1) : s[k] \in S
    BY <1>1, <1>2, <1>3
  <2>2. i - 1 \in Int /\ (1 <= i - 1 => i - 1 - 1 + 1 = i - 1) /\ (i - 1 < 1 => i - 1 = 0)
    BY <1>1, <1>2
  <2>3. QED  BY <2>1, <2>2, SubSeqProperties
<1>5. /\ v \in Seq(S) /\ Len(v) = n - i
      /\ \A k \in 1..(n - i) : v[k] = s[i + k]
  <2>1. \A k \in (i + 1)..n : s[k] \in S
    BY <1>1, <1>2, <1>3
  <2>2. /\ i + 1 \in Int /\ n \in Int
        /\ n - (i + 1) + 1 = n - i
        /\ \A k \in 1..(n - i) : i + 1 + k - 1 = i + k
        /\ ~(i + 1 <= n) => n - i = 0
    BY <1>1, <1>2
  <2>3. /\ v \in Seq(S)
        /\ Len(v) = IF i + 1 <= n THEN n - (i + 1) + 1 ELSE 0
        /\ \A k \in 1..(n - (i + 1) + 1) : v[k] = s[i + 1 + k - 1]
    BY <2>1, <2>2, SubSeqProperties
  <2>4. QED  BY <2>2, <2>3
<1> HIDE DEF u, v
<1>6. /\ t \in Seq(S) /\ Len(t) = n - 1
      /\ \A k \in 1..(n - 1) : t[k] = IF k < i THEN s[k] ELSE s[k + 1]
  <2>1. /\ t \in Seq(S) /\ Len(t) = Len(u) + Len(v)
        /\ \A k \in 1..(Len(u) + Len(v)) : t[k] = IF k <= Len(u) THEN u[k] ELSE v[k - Len(u)]
    BY <1>4, <1>5, ConcatProperties
  <2>2. Len(u) + Len(v) = n - 1
    BY <1>1, <1>2, <1>4, <1>5
  <2>3. ASSUME NEW k \in 1..(n - 1)
        PROVE  t[k] = IF k < i THEN s[k] ELSE s[k + 1]
    <3>1. CASE k < i
      BY <3>1, <2>1, <2>2, <1>1, <1>2, <1>4
    <3>2. CASE ~(k < i)
      <4>1. k - (i - 1) \in 1..(n - i) /\ i + (k - (i - 1)) = k + 1
        BY <3>2, <1>1, <1>2
      <4>2. t[k] = v[k - (i - 1)]
        BY <3>2, <2>1, <2>2, <1>1, <1>2, <1>4
      <4>3. QED  BY <3>2, <4>1, <4>2, <1>5
    <3>3. QED  BY <3>1, <3>2
  <2>4. QED  BY <2>1, <2>2, <2>3
<1> HIDE DEF t
<1>7. DOMAIN t = 1..(n - 1)
  BY <1>6, LenProperties
<1>8. IsInjective(t)
  <2> SUFFICES ASSUME NEW a \in 1..(n - 1), NEW b \in 1..(n - 1), t[a] = t[b]
               PROVE  a = b
    BY <1>7 DEF IsInjective
  <2> DEFINE at(k) == IF k < i THEN k ELSE k + 1
  <2>1. at(a) \in 1..n /\ at(b) \in 1..n /\ s[at(a)] = s[at(b)]
    BY <1>1, <1>2, <1>6
  <2>2. at(a) = at(b)
    BY <2>1, <1>1 DEF IsInjective
  <2>3. QED  BY <2>2, <1>1, <1>2
<1>9. Range(t) \subseteq Range(s) \ {e}
  <2> SUFFICES ASSUME NEW k \in 1..(n - 1)
               PROVE  t[k] \in Range(s) /\ t[k] # e
    BY <1>7 DEF Range
  <2> DEFINE m == IF k < i THEN k ELSE k + 1
  <2>1. m \in 1..n /\ m # i /\ t[k] = s[m]
    BY <1>1, <1>2, <1>6
  <2>2. QED  BY <2>1, <1>1, <1>2 DEF Range, IsInjective
<1>10. Range(s) \ {e} \subseteq Range(t)
  <2> SUFFICES ASSUME NEW m \in 1..n, s[m] # e
               PROVE  s[m] \in Range(t)
    BY <1>1 DEF Range
  <2> DEFINE k == IF m < i THEN m ELSE m - 1
  <2>1. k \in 1..(n - 1) /\ t[k] = s[m]
    BY <1>1, <1>2, <1>6
  <2>2. QED  BY <2>1, <1>7 DEF Range
<1>11. Without(s, e) = t
  BY DEF Without, RemoveAt, t, u, v, i, n
<1>12. QED  BY <1>6, <1>8, <1>9, <1>10, <1>11

-----------------------------------------------------------------------------

\* A held slot that is given back goes to the head of the line, if any.
LEMMA ReleaseGrantsHead ==
    ASSUME IInv, NEW c \in holders, GrantNext(holders \ {c})
    PROVE  \/ /\ priority = <<>> /\ ordinary = <<>>
              /\ holders' = holders \ {c}
              /\ UNCHANGED <<priority, ordinary>>
           \/ /\ priority # <<>>
              /\ holders' = (holders \ {c}) \cup {priority[1]}
              /\ priority' = SubSeq(priority, 2, Len(priority))
              /\ UNCHANGED ordinary
           \/ /\ priority = <<>> /\ ordinary # <<>>
              /\ holders' = (holders \ {c}) \cup {ordinary[1]}
              /\ ordinary' = SubSeq(ordinary, 2, Len(ordinary))
              /\ UNCHANGED priority
<1> DEFINE p == Len(priority)
           o == Len(ordinary)
           n == GrantCount(holders \ {c})
           f == IF n < p THEN n ELSE p
           line == priority \o ordinary
<1>1. p \in Nat /\ o \in Nat /\ (p = 0 <=> priority = <<>>) /\ (o = 0 <=> ordinary = <<>>)
  BY EmptySeq, LenProperties DEF IInv, TypeOK
<1>2. /\ Cardinality(holders) \in Nat
      /\ Cardinality(holders \ {c}) = Cardinality(holders) - 1
      /\ Cardinality(holders) > 0
  BY FS_RemoveElement, FS_CardinalityType, FS_EmptySet DEF IInv, TypeOK
<1>3. Queued = {} => p = 0 /\ o = 0
  <2>1. DOMAIN priority = 1..p /\ DOMAIN ordinary = 1..o
    BY LenProperties DEF IInv, TypeOK
  <2> HIDE DEF p, o
  <2>2. (p > 0 => priority[1] \in Queued) /\ (o > 0 => ordinary[1] \in Queued)
    BY <2>1, <1>1 DEF Queued, Range
  <2>3. QED  BY <2>2, <1>1
<1>4. n = IF p + o > 0 THEN 1 ELSE 0
  BY <1>1, <1>2, <1>3, LimitAssumption
  DEF GrantCount, IInv, RunningWithinLimit, NoWaiterBesideFreeSlot, HasRoom
<1>5. \A k \in 1..(p + o) : line[k] = IF k <= p THEN priority[k] ELSE ordinary[k - p]
  BY ConcatProperties DEF IInv, TypeOK
<1>6. /\ holders' = (holders \ {c}) \cup {line[k] : k \in 1..n}
      /\ priority' = SubSeq(priority, f + 1, p)
      /\ ordinary' = SubSeq(ordinary, n - f + 1, o)
  BY DEF GrantNext
<1>7. SubSeq(priority, 1, p) = priority /\ SubSeq(ordinary, 1, o) = ordinary
  BY SubSeqFull DEF IInv, TypeOK
<1> HIDE DEF n, line, p, o
<1>8. CASE p + o = 0
  <2>1. n = 0 /\ f = 0 /\ p = 0 /\ o = 0
    BY <1>8, <1>1, <1>4
  <2>2. /\ holders' = (holders \ {c}) \cup {line[k] : k \in 1..0}
        /\ priority' = SubSeq(priority, 1, p)
        /\ ordinary' = SubSeq(ordinary, 1, o)
    BY <2>1, <1>6
  <2>3. holders' = holders \ {c} /\ UNCHANGED <<priority, ordinary>>
    BY <2>2, <1>7
  <2>4. priority = <<>> /\ ordinary = <<>>
    BY <2>1, <1>1
  <2>5. QED  BY <2>3, <2>4
<1>9. CASE p > 0
  <2>1. n = 1 /\ f = 1 /\ n - f + 1 = 1 /\ f + 1 = 2
    BY <1>9, <1>1, <1>4
  <2>2. 1 \in 1..(p + o) /\ line[1] = priority[1]
    BY <1>9, <1>1, <1>5
  <2>3. /\ holders' = (holders \ {c}) \cup {line[k] : k \in 1..1}
        /\ priority' = SubSeq(priority, 2, p)
        /\ ordinary' = SubSeq(ordinary, 1, o)
    BY <2>1, <1>6
  <2>4. holders' = (holders \ {c}) \cup {priority[1]} /\ UNCHANGED ordinary
    BY <2>2, <2>3, <1>7
  <2>5. priority # <<>>
    BY <1>1, <1>9
  <2>6. QED  BY <2>3, <2>4, <2>5 DEF p, o
<1>10. CASE p = 0 /\ o > 0
  <2>1. n = 1 /\ f = 0 /\ n - f + 1 = 2 /\ f + 1 = 1
    BY <1>10, <1>1, <1>4
  <2>2. 1 \in 1..(p + o) /\ line[1] = ordinary[1]
    BY <1>10, <1>1, <1>5
  <2>3. /\ holders' = (holders \ {c}) \cup {line[k] : k \in 1..1}
        /\ priority' = SubSeq(priority, 1, p)
        /\ ordinary' = SubSeq(ordinary, 2, o)
    BY <2>1, <1>6
  <2>4. holders' = (holders \ {c}) \cup {ordinary[1]} /\ UNCHANGED priority
    BY <2>2, <2>3, <1>7
  <2>5. priority = <<>> /\ ordinary # <<>>
    BY <1>1, <1>10
  <2>6. QED  BY <2>3, <2>4, <2>5 DEF p, o
<1>11. QED  BY <1>1, <1>8, <1>9, <1>10

-----------------------------------------------------------------------------
(* One lemma per operation: it keeps the invariant.                        *)

\* An empty gate is sound.
LEMMA InitIInv == Init => IInv
<1> SUFFICES ASSUME Init PROVE IInv
  OBVIOUS
<1>1. IsFiniteSet(holders) /\ Cardinality(holders) = 0
  BY FS_EmptySet DEF Init
<1>2. Range(priority) = {} /\ Range(ordinary) = {}
  BY DEF Init, Range
<1>3. TypeOK
  BY <1>1, <1>2 DEF Init, TypeOK, TaskStates, QueueKinds
<1>4. RunningWithinLimit
  BY <1>1, LimitAssumption DEF RunningWithinLimit
<1>5. QED
  BY <1>2, <1>3, <1>4
  DEF Init, IInv, NoWaiterBesideFreeSlot, ClaimsWherePlaced, LineSound, QueueKinds, Queued, IsInjective

\* A claim is granted only in a gate with room, and queued only in a full one.
LEMMA ClaimIInv ==
    ASSUME IInv, NEW c \in Claims, Claim(c)
    PROVE  IInv'
<1> USE DEF IInv
<1>1. c \notin holders /\ c \notin Queued
  BY DEF Claim, ClaimsWherePlaced
<1>2. CASE HasRoom(holders)
  <2>1. /\ holders' = holders \cup {c}
        /\ task' = [task EXCEPT ![c] = "running"]
        /\ UNCHANGED <<priority, ordinary>>
    BY <1>2 DEF Claim
  <2>2. /\ Cardinality(holders) \in Nat
        /\ IsFiniteSet(holders')
        /\ Cardinality(holders') = Cardinality(holders) + 1
    BY <2>1, <1>1, FS_AddElement, FS_CardinalityType DEF TypeOK
  <2>3. Queued = {} /\ Queued' = {}
    BY <1>2, <2>1 DEF NoWaiterBesideFreeSlot, Queued
  <2>4. TypeOK'
    BY <2>1, <2>2 DEF TypeOK, TaskStates, LineSound, QueueKinds
  <2>5. RunningWithinLimit'
    BY <2>2, <1>2, LimitAssumption DEF RunningWithinLimit, HasRoom
  <2>6. ClaimsWherePlaced'
    BY <2>1, <2>3 DEF ClaimsWherePlaced, TypeOK
  <2>7. QED
    BY <2>1, <2>3, <2>4, <2>5, <2>6 DEF NoWaiterBesideFreeSlot, LineSound, QueueKinds
<1>3. CASE ~HasRoom(holders)
  <2>1. /\ UNCHANGED holders
        /\ task' = [task EXCEPT ![c] = "waiting"]
        /\ IF c \in Priority THEN priority' = Append(priority, c) /\ UNCHANGED ordinary
                             ELSE ordinary' = Append(ordinary, c) /\ UNCHANGED priority
    BY <1>3 DEF Claim
  <2>2. /\ priority' \in Seq(Claims) /\ ordinary' \in Seq(Claims)
        /\ LineSound'
        /\ Queued' = Queued \cup {c}
    <3>1. CASE c \in Priority
      <4>1. priority' = Append(priority, c) /\ ordinary' = ordinary
        BY <3>1, <2>1
      <4>2. priority \in Seq(Claims) /\ IsInjective(priority) /\ c \notin Range(priority)
        BY <1>1 DEF TypeOK, LineSound, QueueKinds, Queued
      <4>3. /\ priority' \in Seq(Claims)
            /\ IsInjective(priority')
            /\ Range(priority') = Range(priority) \cup {c}
        BY <4>1, <4>2, AppendOnce
      <4>4. QED
        BY <4>1, <4>3, <3>1 DEF TypeOK, LineSound, QueueKinds, Queued
    <3>2. CASE c \notin Priority
      <4>1. ordinary' = Append(ordinary, c) /\ priority' = priority
        BY <3>2, <2>1
      <4>2. ordinary \in Seq(Claims) /\ IsInjective(ordinary) /\ c \notin Range(ordinary)
        BY <1>1 DEF TypeOK, LineSound, QueueKinds, Queued
      <4>3. /\ ordinary' \in Seq(Claims)
            /\ IsInjective(ordinary')
            /\ Range(ordinary') = Range(ordinary) \cup {c}
        BY <4>1, <4>2, AppendOnce
      <4>4. QED
        BY <4>1, <4>3, <3>2 DEF TypeOK, LineSound, QueueKinds, Queued
    <3>3. QED  BY <3>1, <3>2
  <2>3. TypeOK'
    BY <2>1, <2>2 DEF TypeOK, TaskStates, LineSound, QueueKinds
  <2>4. RunningWithinLimit' /\ NoWaiterBesideFreeSlot'
    BY <2>1, <1>3 DEF RunningWithinLimit, NoWaiterBesideFreeSlot, HasRoom
  <2>5. ClaimsWherePlaced'
    BY <2>1, <2>2, <1>1 DEF ClaimsWherePlaced, TypeOK
  <2>6. QED
    BY <2>2, <2>3, <2>4, <2>5
<1>4. QED  BY <1>2, <1>3

\* Only a task that holds its slot goes on.
LEMMA ProceedIInv ==
    ASSUME IInv, NEW c \in Claims, Proceed(c)
    PROVE  IInv'
<1>1. UNCHANGED <<holders, priority, ordinary>> /\ task' = [task EXCEPT ![c] = "running"]
  BY DEF Proceed
<1>2. TypeOK'
  BY <1>1 DEF IInv, TypeOK, TaskStates, LineSound, QueueKinds
<1>3. ClaimsWherePlaced'
  BY <1>1 DEF Proceed, IInv, TypeOK, ClaimsWherePlaced, Queued
<1>4. QED
  BY <1>1, <1>2, <1>3
  DEF IInv, RunningWithinLimit, NoWaiterBesideFreeSlot, HasRoom, LineSound, QueueKinds, Queued

\* A cancelled task leaves its claim where it is.
LEMMA CancelIInv ==
    ASSUME IInv, NEW c \in Claims, Cancel(c)
    PROVE  IInv'
<1>1. UNCHANGED <<holders, priority, ordinary>> /\ task' = [task EXCEPT ![c] = "unwinding"]
  BY DEF Cancel
<1>2. TypeOK'
  BY <1>1 DEF IInv, TypeOK, TaskStates, LineSound, QueueKinds
<1>3. ClaimsWherePlaced'
  BY <1>1 DEF Cancel, IInv, TypeOK, ClaimsWherePlaced, Queued
<1>4. QED
  BY <1>1, <1>2, <1>3
  DEF IInv, RunningWithinLimit, NoWaiterBesideFreeSlot, HasRoom, LineSound, QueueKinds, Queued

\* The gate after the head h of the line took the slot of c.
LEMMA HandOver ==
    ASSUME IInv, NEW c \in holders, NEW h \in Queued, Release(c),
           priority' \in Seq(Claims), ordinary' \in Seq(Claims), LineSound',
           holders' = (holders \ {c}) \cup {h}, Queued' = Queued \ {h}
    PROVE  IInv'
<1> USE DEF IInv
<1>1. c \in Claims /\ h \in Claims /\ h \notin holders
  BY RangeOfSeq DEF TypeOK, ClaimsWherePlaced, Queued
<1>2. /\ IsFiniteSet(holders')
      /\ Cardinality(holders') = Cardinality(holders)
  <2>1. /\ Cardinality(holders) \in Nat
        /\ IsFiniteSet(holders \ {c})
        /\ Cardinality(holders \ {c}) = Cardinality(holders) - 1
    BY FS_RemoveElement, FS_CardinalityType DEF TypeOK
  <2>2. /\ IsFiniteSet(holders')
        /\ Cardinality(holders') = Cardinality(holders \ {c}) + 1
    BY <2>1, <1>1, FS_AddElement
  <2>3. QED  BY <2>1, <2>2
<1>3. task' = [task EXCEPT ![c] = "idle"]
  BY DEF Release
<1>4. TypeOK'
  BY <1>1, <1>2, <1>3 DEF TypeOK, TaskStates, LineSound, QueueKinds
<1>5. RunningWithinLimit'
  BY <1>2 DEF RunningWithinLimit
<1>6. ~HasRoom(holders')
  BY <1>2 DEF NoWaiterBesideFreeSlot, HasRoom
<1>7. ClaimsWherePlaced'
  BY <1>1, <1>3 DEF ClaimsWherePlaced, TypeOK
<1>8. QED
  BY <1>4, <1>5, <1>6, <1>7 DEF NoWaiterBesideFreeSlot, HasRoom

\* The gate after the queued claim c left the line.
LEMMA LeaveLine ==
    ASSUME IInv, NEW c \in Queued, Release(c), UNCHANGED holders,
           priority' \in Seq(Claims), ordinary' \in Seq(Claims), LineSound',
           Queued' = Queued \ {c}
    PROVE  IInv'
<1> USE DEF IInv
<1>1. c \in Claims
  BY RangeOfSeq DEF TypeOK, Queued
<1>2. task' = [task EXCEPT ![c] = "idle"]
  BY DEF Release
<1>3. TypeOK'
  BY <1>1, <1>2 DEF TypeOK, TaskStates, LineSound, QueueKinds
<1>4. RunningWithinLimit' /\ NoWaiterBesideFreeSlot'
  BY DEF RunningWithinLimit, NoWaiterBesideFreeSlot, HasRoom
<1>5. ClaimsWherePlaced'
  BY <1>1, <1>2 DEF ClaimsWherePlaced, TypeOK
<1>6. QED  BY <1>3, <1>4, <1>5

\* A release frees one slot and grants at most one claim.
LEMMA ReleaseIInv ==
    ASSUME IInv, NEW c \in Claims, Release(c)
    PROVE  IInv'
<1> USE DEF IInv
<1>1. /\ priority \in Seq(Claims) /\ IsInjective(priority)
      /\ ordinary \in Seq(Claims) /\ IsInjective(ordinary)
      /\ Range(priority) \cap Range(ordinary) = {}
      /\ Queued \cap holders = {}
  BY DEF TypeOK, LineSound, QueueKinds, ClaimsWherePlaced
<1>2. CASE c \in holders
  <2>1. GrantNext(holders \ {c})
    BY <1>2 DEF Release, DropFromGate
  <2>2. CASE priority = <<>> /\ ordinary = <<>> /\ holders' = holders \ {c} /\ UNCHANGED <<priority, ordinary>>
    <3>1. Queued = {} /\ Queued' = {}
      BY <2>2 DEF Queued, Range
    <3>2. /\ Cardinality(holders) \in Nat
          /\ IsFiniteSet(holders')
          /\ Cardinality(holders') = Cardinality(holders) - 1
      BY <2>2, <1>2, FS_RemoveElement, FS_CardinalityType DEF TypeOK
    <3>3. task' = [task EXCEPT ![c] = "idle"]
      BY DEF Release
    <3>4. TypeOK'
      BY <2>2, <3>2, <3>3 DEF TypeOK, TaskStates, LineSound, QueueKinds
    <3>5. RunningWithinLimit'
      BY <3>2, LimitAssumption DEF RunningWithinLimit
    <3>6. ClaimsWherePlaced'
      BY <2>2, <3>1, <3>3 DEF ClaimsWherePlaced, TypeOK
    <3>7. QED
      BY <2>2, <3>1, <3>4, <3>5, <3>6 DEF NoWaiterBesideFreeSlot, LineSound, QueueKinds
  <2>3. CASE /\ priority # <<>>
             /\ holders' = (holders \ {c}) \cup {priority[1]}
             /\ priority' = SubSeq(priority, 2, Len(priority))
             /\ UNCHANGED ordinary
    <3>1. /\ priority' \in Seq(Claims) /\ IsInjective(priority')
          /\ Range(priority') = Range(priority) \ {priority[1]}
          /\ priority[1] \in Range(priority)
      BY <2>3, <1>1, DropHead
    <3>2. LineSound' /\ Queued' = Queued \ {priority[1]} /\ priority[1] \in Queued
      BY <3>1, <2>3, <1>1 DEF LineSound, QueueKinds, Queued
    <3>3. QED
      BY <3>1, <3>2, <2>3, <1>1, <1>2, HandOver
  <2>4. CASE /\ priority = <<>> /\ ordinary # <<>>
             /\ holders' = (holders \ {c}) \cup {ordinary[1]}
             /\ ordinary' = SubSeq(ordinary, 2, Len(ordinary))
             /\ UNCHANGED priority
    <3>1. /\ ordinary' \in Seq(Claims) /\ IsInjective(ordinary')
          /\ Range(ordinary') = Range(ordinary) \ {ordinary[1]}
          /\ ordinary[1] \in Range(ordinary)
      BY <2>4, <1>1, DropHead
    <3>2. LineSound' /\ Queued' = Queued \ {ordinary[1]} /\ ordinary[1] \in Queued
      BY <3>1, <2>4, <1>1 DEF LineSound, QueueKinds, Queued
    <3>3. QED
      BY <3>1, <3>2, <2>4, <1>1, <1>2, HandOver
  <2>5. QED  BY <2>1, <2>2, <2>3, <2>4, <1>2, ReleaseGrantsHead
<1>3. CASE c \in Range(priority)
  <2>1. priority' = Without(priority, c) /\ UNCHANGED <<holders, ordinary>> /\ c \in Queued
    BY <1>1, <1>3 DEF Release, DropFromGate, Queued
  <2>2. /\ priority' \in Seq(Claims) /\ IsInjective(priority')
        /\ Range(priority') = Range(priority) \ {c}
    BY <2>1, <1>1, <1>3, RemoveOnce
  <2>3. LineSound' /\ Queued' = Queued \ {c}
    BY <2>1, <2>2, <1>1, <1>3 DEF LineSound, QueueKinds, Queued
  <2>4. QED
    BY <2>1, <2>2, <2>3, <1>1, LeaveLine
<1>4. CASE c \in Range(ordinary)
  <2>1. ordinary' = Without(ordinary, c) /\ UNCHANGED <<holders, priority>> /\ c \in Queued
    BY <1>1, <1>4 DEF Release, DropFromGate, Queued
  <2>2. /\ ordinary' \in Seq(Claims) /\ IsInjective(ordinary')
        /\ Range(ordinary') = Range(ordinary) \ {c}
    BY <2>1, <1>1, <1>4, RemoveOnce
  <2>3. LineSound' /\ Queued' = Queued \ {c}
    BY <2>1, <2>2, <1>1, <1>4 DEF LineSound, QueueKinds, Queued
  <2>4. QED
    BY <2>1, <2>2, <2>3, <1>1, LeaveLine
<1>5. c \in holders \cup Queued
  BY DEF Release, ClaimsWherePlaced
<1>6. QED  BY <1>2, <1>3, <1>4, <1>5 DEF Queued

-----------------------------------------------------------------------------

(***************************************************************************)
(* The invariant, on which every theorem below rests.                      *)
(***************************************************************************)
LEMMA Inductive == Spec => []IInv
<1>1. Init => IInv
  BY InitIInv
<1>2. IInv /\ [Next]_vars => IInv'
  <2> SUFFICES ASSUME IInv, [Next]_vars PROVE IInv'
    OBVIOUS
  <2>1. CASE UNCHANGED vars
    BY <2>1
    DEF vars, IInv, TypeOK, RunningWithinLimit, NoWaiterBesideFreeSlot, HasRoom,
        ClaimsWherePlaced, LineSound, QueueKinds, Queued
  <2>2. ASSUME NEW c \in Claims, Claim(c) PROVE IInv'
    BY <2>2, ClaimIInv
  <2>3. ASSUME NEW c \in Claims, Proceed(c) PROVE IInv'
    BY <2>3, ProceedIInv
  <2>4. ASSUME NEW c \in Claims, Cancel(c) PROVE IInv'
    BY <2>4, CancelIInv
  <2>5. ASSUME NEW c \in Claims, Release(c) PROVE IInv'
    BY <2>5, ReleaseIInv
  <2>6. QED
    BY <2>1, <2>2, <2>3, <2>4, <2>5 DEF Next
<1>3. QED  BY <1>1, <1>2, PTL DEF Spec

(***************************************************************************)
(* Every variable of the gate has its type in every reachable state.       *)
(***************************************************************************)
THEOREM TypeCorrect == Spec => []TypeOK
<1>1. IInv => TypeOK
  BY DEF IInv
<1>2. QED  BY <1>1, Inductive, PTL

(***************************************************************************)
(* MAX_RUNNING_JOBS holds for any number of claims: RunSlots never has     *)
(* more than Limit holders.                                                *)
(***************************************************************************)
THEOREM CapKept == Spec => []RunningWithinLimit
<1>1. IInv => RunningWithinLimit
  BY DEF IInv
<1>2. QED  BY <1>1, Inductive, PTL

(***************************************************************************)
(* RunSlots._grant_next never leaves a claim waiting beside a free slot.   *)
(***************************************************************************)
THEOREM NoLostSlot == Spec => []NoWaiterBesideFreeSlot
<1>1. IInv => NoWaiterBesideFreeSlot
  BY DEF IInv
<1>2. QED  BY <1>1, Inductive, PTL

(***************************************************************************)
(* No claim leaks: a task that ended, returned or was cancelled at any     *)
(* point, has left both the holders and the queues.                        *)
(***************************************************************************)
THEOREM NoLeakedClaim == Spec => []ClaimsWherePlaced
<1>1. IInv => ClaimsWherePlaced
  BY DEF IInv
<1>2. QED  BY <1>1, Inductive, PTL

(***************************************************************************)
(* The gate conserves its slots: none too many, none idle beside a waiter, *)
(* none leaked (claim, _grant_next, _release).                             *)
(***************************************************************************)
THEOREM SlotsKept == Spec => []SlotsConserved
BY CapKept, NoLostSlot, NoLeakedClaim, PTL DEF SlotsConserved

-----------------------------------------------------------------------------

\* RunGate counts its holders as RunSlots does.
LEMMA SameCount == \A held : Gate!Cardinality(held) = Cardinality(held)
BY DEF Gate!Cardinality, Cardinality

\* The head of a nonempty line is one of the claims RunGate may let in.
LEMMA HeadEligible ==
    ASSUME IInv
    PROVE  /\ priority # <<>> => priority[1] \in Gate!Eligible
           /\ priority = <<>> /\ ordinary # <<>> => ordinary[1] \in Gate!Eligible
<1>1. /\ priority # <<>> => priority[1] \in Range(priority)
      /\ ordinary # <<>> => ordinary[1] \in Range(ordinary)
  BY DropHead DEF IInv, TypeOK, LineSound, QueueKinds
<1>2. priority = <<>> => Range(priority) = {}
  BY DEF Range
<1>3. Queued \cap Priority = Range(priority)
  BY DEF IInv, LineSound, QueueKinds, Queued
<1>4. QED
  BY <1>1, <1>2, <1>3 DEF Gate!Eligible, Queued

(***************************************************************************)
(* Every step of the gate is a step of RunGate or leaves it unchanged.     *)
(***************************************************************************)
THEOREM GateImplemented == Spec => ImplementsGate
<1>1. Init => Gate!Init
  BY DEF Init, Gate!Init, Queued, Range
<1>2. IInv /\ IInv' /\ [Next]_vars => [Gate!Next]_<<holders, Queued>>
  <2> SUFFICES ASSUME IInv, IInv', [Next]_vars PROVE [Gate!Next]_<<holders, Queued>>
    OBVIOUS
  <2>1. CASE UNCHANGED vars
    BY <2>1 DEF vars, Queued
  <2>2. ASSUME NEW c \in Claims, Claim(c) PROVE Gate!Arrive(c)
    <3>1. c \notin holders \cup Queued
      BY <2>2 DEF IInv, Claim, ClaimsWherePlaced
    <3>2. CASE HasRoom(holders)
      BY <2>2, <3>1, <3>2, SameCount DEF Claim, Gate!Arrive, Gate!Free, HasRoom, Queued
    <3>3. CASE ~HasRoom(holders)
      <4>1. UNCHANGED holders /\ Queued' = Queued \cup {c}
        <5>1. CASE c \in Priority
          <6>1. priority' = Append(priority, c) /\ UNCHANGED <<ordinary, holders>>
            BY <2>2, <3>3, <5>1 DEF Claim
          <6>2. Range(priority') = Range(priority) \cup {c}
            BY <6>1, <3>1, AppendOnce DEF IInv, TypeOK, LineSound, QueueKinds, Queued
          <6>3. QED  BY <6>1, <6>2 DEF Queued
        <5>2. CASE c \notin Priority
          <6>1. ordinary' = Append(ordinary, c) /\ UNCHANGED <<priority, holders>>
            BY <2>2, <3>3, <5>2 DEF Claim
          <6>2. Range(ordinary') = Range(ordinary) \cup {c}
            BY <6>1, <3>1, AppendOnce DEF IInv, TypeOK, LineSound, QueueKinds, Queued
          <6>3. QED  BY <6>1, <6>2 DEF Queued
        <5>3. QED  BY <5>1, <5>2
      <4>2. QED
        BY <3>1, <3>3, <4>1, SameCount DEF Gate!Arrive, Gate!Free, HasRoom
    <3>4. QED  BY <3>2, <3>3
  <2>3. ASSUME NEW c \in Claims, Proceed(c) \/ Cancel(c) PROVE UNCHANGED <<holders, Queued>>
    BY <2>3 DEF Proceed, Cancel, Queued
  <2>4. ASSUME NEW c \in Claims, Release(c), c \in holders PROVE Gate!Leave(c)
    <3>1. GrantNext(holders \ {c})
      BY <2>4 DEF Release, DropFromGate
    <3>2. CASE /\ priority = <<>> /\ ordinary = <<>>
               /\ holders' = holders \ {c} /\ UNCHANGED <<priority, ordinary>>
      BY <3>2, <2>4 DEF Gate!Leave, Queued, Range
    <3>3. CASE /\ priority # <<>>
               /\ holders' = (holders \ {c}) \cup {priority[1]}
               /\ priority' = SubSeq(priority, 2, Len(priority))
               /\ UNCHANGED ordinary
      <4>1. Range(priority') = Range(priority) \ {priority[1]} /\ priority[1] \in Range(priority)
        BY <3>3, DropHead DEF IInv, TypeOK, LineSound, QueueKinds
      <4>2. Queued' = Queued \ {priority[1]}
        BY <4>1, <3>3 DEF IInv, LineSound, QueueKinds, Queued
      <4>3. QED
        BY <4>2, <3>3, <2>4, HeadEligible DEF Gate!Leave
    <3>4. CASE /\ priority = <<>> /\ ordinary # <<>>
               /\ holders' = (holders \ {c}) \cup {ordinary[1]}
               /\ ordinary' = SubSeq(ordinary, 2, Len(ordinary))
               /\ UNCHANGED priority
      <4>1. Range(ordinary') = Range(ordinary) \ {ordinary[1]} /\ ordinary[1] \in Range(ordinary)
        BY <3>4, DropHead DEF IInv, TypeOK, LineSound, QueueKinds
      <4>2. Queued' = Queued \ {ordinary[1]}
        BY <4>1, <3>4 DEF IInv, LineSound, QueueKinds, Queued
      <4>3. QED
        BY <4>2, <3>4, <2>4, HeadEligible DEF Gate!Leave
    <3>5. QED  BY <3>1, <3>2, <3>3, <3>4, <2>4, ReleaseGrantsHead
  <2>5. ASSUME NEW c \in Claims, Release(c), c \notin holders PROVE Gate!GiveUp(c)
    <3>1. c \in Queued /\ c \notin Queued'
      BY <2>5 DEF Release, IInv, TypeOK, ClaimsWherePlaced
    <3>2. CASE c \in Range(priority)
      <4>1. priority' = Without(priority, c) /\ UNCHANGED <<holders, ordinary>>
        BY <2>5, <3>2 DEF Release, DropFromGate
      <4>2. Range(priority') = Range(priority) \ {c}
        BY <4>1, <3>2, RemoveOnce DEF IInv, TypeOK, LineSound, QueueKinds
      <4>3. QED
        BY <3>1, <4>1, <4>2 DEF Gate!GiveUp, Queued
    <3>3. CASE c \notin Range(priority)
      <4>1. c \in Range(ordinary)
        BY <3>1, <3>3 DEF Queued
      <4>2. ordinary' = Without(ordinary, c) /\ UNCHANGED <<holders, priority>>
        BY <2>5, <3>3, <4>1 DEF Release, DropFromGate
      <4>3. Range(ordinary') = Range(ordinary) \ {c}
        BY <4>1, <4>2, RemoveOnce DEF IInv, TypeOK, LineSound, QueueKinds
      <4>4. QED
        BY <3>1, <4>2, <4>3 DEF Gate!GiveUp, Queued
    <3>4. QED  BY <3>2, <3>3
  <2>6. QED
    BY <2>1, <2>2, <2>3, <2>4, <2>5 DEF Next, Gate!Next
<1>3. QED
  BY <1>1, <1>2, Inductive, PTL DEF Spec, ImplementsGate, Gate!Spec, Gate!vars
-----------------------------------------------------------------------------
(* The line.                                                               *)

\* The place of c in the line of two queues.
PlaceIn(first, second, c) ==
    LET queue == first \o second
    IN  CHOOSE i \in DOMAIN queue : queue[i] = c

(***************************************************************************)
(* A claim of the first queue stands at its index, one of the second       *)
(* behind all of the first.                                                *)
(***************************************************************************)
LEMMA LinePlaces ==
    ASSUME NEW S, NEW s \in Seq(S), NEW t \in Seq(S), Range(s) \cap Range(t) = {}
    PROVE  /\ \A c \in Range(s) : PlaceIn(s, t, c) \in 1..Len(s) /\ s[PlaceIn(s, t, c)] = c
           /\ \A c \in Range(t) : /\ PlaceIn(s, t, c) \in (Len(s) + 1)..(Len(s) + Len(t))
                                  /\ t[PlaceIn(s, t, c) - Len(s)] = c
<1> DEFINE m == Len(s)
           n == Len(t)
           line == s \o t
<1>1. m \in Nat /\ n \in Nat /\ DOMAIN s = 1..m /\ DOMAIN t = 1..n
  BY LenProperties
<1>2. /\ line \in Seq(S) /\ Len(line) = m + n
      /\ \A k \in 1..(m + n) : line[k] = IF k <= m THEN s[k] ELSE t[k - m]
  BY ConcatProperties
<1>3. DOMAIN line = 1..(m + n)
  BY <1>2, LenProperties
<1>4. \A c : PlaceIn(s, t, c) = CHOOSE i \in DOMAIN line : line[i] = c
  BY DEF PlaceIn
<1> HIDE DEF line, m, n
<1>5. \A k \in 1..m : line[k] = s[k] /\ s[k] \in Range(s)
  <2>1. \A k \in 1..m : k \in 1..(m + n) /\ k <= m
    BY <1>1
  <2>2. \A k \in 1..m : s[k] \in Range(s)
    BY <1>1 DEF Range
  <2>3. QED  BY <2>1, <2>2, <1>2
<1>6. \A k \in (m + 1)..(m + n) : line[k] = t[k - m] /\ t[k - m] \in Range(t)
  <2> SUFFICES ASSUME NEW k \in (m + 1)..(m + n) PROVE line[k] = t[k - m] /\ t[k - m] \in Range(t)
    OBVIOUS
  <2>1. k \in 1..(m + n) /\ ~(k <= m) /\ k - m \in 1..n
    BY <1>1
  <2>2. QED  BY <2>1, <1>1, <1>2 DEF Range
<1>7. ASSUME NEW c \in Range(s) \cup Range(t)
      PROVE  PlaceIn(s, t, c) \in 1..(m + n) /\ line[PlaceIn(s, t, c)] = c
  <2>1. CASE c \in Range(s)
    <3>1. PICK k \in 1..m : s[k] = c
      BY <2>1, <1>1 DEF Range
    <3>2. k \in 1..(m + n) /\ line[k] = c
      BY <3>1, <1>1, <1>5
    <3>3. QED  BY <3>2, <1>3, <1>4
  <2>2. CASE c \in Range(t)
    <3>1. PICK k \in 1..n : t[k] = c
      BY <2>2, <1>1 DEF Range
    <3>2. m + k \in 1..(m + n) /\ m + k \in (m + 1)..(m + n) /\ (m + k) - m = k
      BY <1>1
    <3>3. line[m + k] = c
      BY <3>1, <3>2, <1>6
    <3>4. QED  BY <3>2, <3>3, <1>3, <1>4
  <2>3. QED  BY <2>1, <2>2
<1>8. 1..(m + n) = 1..m \cup (m + 1)..(m + n)
  BY <1>1
<1>9. ASSUME NEW c \in Range(s)
      PROVE  PlaceIn(s, t, c) \in 1..m /\ s[PlaceIn(s, t, c)] = c
  <2>1. PlaceIn(s, t, c) \notin (m + 1)..(m + n)
    BY <1>6, <1>7
  <2>2. QED  BY <2>1, <1>5, <1>7, <1>8
<1>10. ASSUME NEW c \in Range(t)
       PROVE  PlaceIn(s, t, c) \in (m + 1)..(m + n) /\ t[PlaceIn(s, t, c) - m] = c
  <2>1. PlaceIn(s, t, c) \notin 1..m
    BY <1>5, <1>7
  <2>2. QED  BY <2>1, <1>6, <1>7, <1>8
<1>11. QED  BY <1>9, <1>10 DEF m, n

\* The two queues of the invariant make such a line.
LEMMA TwoQueues ==
    ASSUME IInv
    PROVE  /\ priority \in Seq(Claims) /\ IsInjective(priority)
           /\ ordinary \in Seq(Claims) /\ IsInjective(ordinary)
           /\ Range(priority) \cap Range(ordinary) = {}
           /\ Queued \cap holders = {}
           /\ Range(priority) = Queued \cap Priority
           /\ Range(ordinary) = Queued \ Priority
BY DEF IInv, TypeOK, LineSound, QueueKinds, ClaimsWherePlaced, Queued

\* The head of the line stands before everybody else in it.
LEMMA HeadFirst ==
    ASSUME IInv, NEW c, NEW d \in Queued, c # d,
           \/ priority # <<>> /\ c = priority[1]
           \/ priority = <<>> /\ ordinary # <<>> /\ c = ordinary[1]
    PROVE  /\ Position(c) < Position(d)
           /\ d \in Priority => c \in Priority
<1> DEFINE p == Len(priority)
           o == Len(ordinary)
<1>1. \A e : Position(e) = PlaceIn(priority, ordinary, e)
  BY DEF Position, PlaceIn
<1>2. /\ p \in Nat /\ DOMAIN priority = 1..p
      /\ o \in Nat /\ DOMAIN ordinary = 1..o
  BY TwoQueues, LenProperties
<1>3. /\ \A e \in Range(priority) : Position(e) \in 1..p /\ priority[Position(e)] = e
      /\ \A e \in Range(ordinary) : /\ Position(e) \in (p + 1)..(p + o)
                                    /\ ordinary[Position(e) - p] = e
  BY <1>1, TwoQueues, LinePlaces
<1>4. d \in Range(priority) \cup Range(ordinary)
  BY DEF Queued
<1>5. CASE priority # <<>> /\ c = priority[1]
  <2>1. c \in Range(priority)
    BY <1>5, TwoQueues, DropHead
  <2>2. p > 0
    BY <1>2, <1>5, TwoQueues, EmptySeq
  <2> HIDE DEF p, o
  <2>3. Position(c) = 1
    BY <2>1, <2>2, <1>2, <1>3, <1>5, TwoQueues DEF IsInjective
  <2>4. Position(d) > 1
    <3>1. CASE d \in Range(priority)
      BY <3>1, <1>2, <1>3, <1>5
    <3>2. CASE d \in Range(ordinary)
      BY <3>2, <2>2, <1>2, <1>3
    <3>3. QED  BY <3>1, <3>2, <1>4
  <2>5. c \in Priority
    BY <2>1, TwoQueues
  <2>6. Position(d) \in Nat
    BY <1>2, <1>3, <1>4
  <2>7. QED  BY <2>3, <2>4, <2>5, <2>6
<1>6. CASE priority = <<>> /\ ordinary # <<>> /\ c = ordinary[1]
  <2>1. c \in Range(ordinary)
    BY <1>6, TwoQueues, DropHead
  <2>2. p = 0 /\ o > 0
    BY <1>2, <1>6, TwoQueues, EmptySeq
  <2> HIDE DEF p, o
  <2>3. \A e \in Range(ordinary) : Position(e) \in 1..o /\ ordinary[Position(e)] = e
    <3> SUFFICES ASSUME NEW e \in Range(ordinary) PROVE Position(e) \in 1..o /\ ordinary[Position(e)] = e
      OBVIOUS
    <3>1. Position(e) \in 1..o /\ Position(e) - p = Position(e)
      BY <2>2, <1>2, <1>3
    <3>2. QED  BY <3>1, <1>3
  <2>4. Position(c) = 1
    BY <2>1, <2>2, <2>3, <1>2, <1>6, TwoQueues DEF IsInjective
  <2>5. d \in Range(ordinary) /\ d \notin Priority
    <3>1. Range(priority) = {}
      BY <1>6 DEF Range
    <3>2. QED  BY <3>1, <1>4, TwoQueues
  <2>6. Position(d) > 1 /\ Position(d) \in Nat
    BY <2>3, <2>5, <1>2, <1>6
  <2>7. QED  BY <2>4, <2>5, <2>6
<1>7. QED  BY <1>5, <1>6

(***************************************************************************)
(* A claim goes to the end of its queue: behind those of its kind.         *)
(***************************************************************************)
LEMMA ClaimBehind ==
    ASSUME IInv, IInv', NEW e \in Claims, Claim(e),
           NEW c \in Queued, NEW d, d \notin Queued \cup holders,
           c \in Queued', c \in Priority <=> d \in Priority
    PROVE  d \notin holders' /\ (d \in Queued' => Position(c)' < Position(d)')
<1>1. ~HasRoom(holders)
  BY DEF IInv, NoWaiterBesideFreeSlot
<1>2. /\ UNCHANGED holders
      /\ IF e \in Priority THEN priority' = Append(priority, e) /\ UNCHANGED ordinary
                           ELSE ordinary' = Append(ordinary, e) /\ UNCHANGED priority
  BY <1>1 DEF Claim
<1>3. d \notin holders'
  BY <1>2
<1> SUFFICES ASSUME d \in Queued' PROVE Position(c)' < Position(d)'
  BY <1>3
<1> DEFINE p == Len(priority)
           o == Len(ordinary)
<1>4. e \notin Queued \cup holders
  BY DEF IInv, Claim, ClaimsWherePlaced
<1>5. \A x : Position(x)' = PlaceIn(priority', ordinary', x)
  BY DEF Position, PlaceIn
<1>6. /\ priority' \in Seq(Claims) /\ ordinary' \in Seq(Claims)
      /\ IsInjective(priority') /\ IsInjective(ordinary')
      /\ Range(priority') \cap Range(ordinary') = {}
  BY DEF IInv, TypeOK, LineSound, QueueKinds
<1>7. /\ \A x \in Range(priority') : /\ Position(x)' \in 1..Len(priority')
                                     /\ priority'[Position(x)'] = x
      /\ \A x \in Range(ordinary') : /\ Position(x)' \in (Len(priority') + 1)..(Len(priority') + Len(ordinary'))
                                     /\ ordinary'[Position(x)' - Len(priority')] = x
  BY <1>5, <1>6, LinePlaces
<1>8. p \in Nat /\ o \in Nat /\ DOMAIN priority = 1..p /\ DOMAIN ordinary = 1..o
  BY TwoQueues, LenProperties
<1>9. CASE e \in Priority
  <2>1. priority' = Append(priority, e) /\ ordinary' = ordinary
    BY <1>2, <1>9
  <2>2. Range(priority') = Range(priority) \cup {e}
    BY <2>1, <1>4, TwoQueues, AppendOnce DEF Queued
  <2>3. /\ Len(priority') = p + 1 /\ priority'[p + 1] = e
        /\ \A i \in 1..p : priority'[i] = priority[i] /\ priority[i] \in Range(priority)
    BY <2>1, <1>8, TwoQueues, AppendProperties DEF Range
  <2>4. d = e
    BY <2>1, <2>2 DEF Queued
  <2>5. c \in Range(priority) /\ c # e
    BY <2>4, <1>4, <1>9, TwoQueues DEF Queued
  <2> HIDE DEF p, o
  <2>6. Position(c)' \in 1..(p + 1) /\ priority'[Position(c)'] = c
    BY <2>2, <2>3, <2>5, <1>7
  <2>7. Position(d)' \in 1..(p + 1) /\ priority'[Position(d)'] = e
    BY <2>2, <2>3, <2>4, <1>7
  <2>8. Position(d)' = p + 1
    <3>1. Position(d)' \notin 1..p
      BY <2>3, <2>7, <1>4 DEF Queued
    <3>2. QED  BY <3>1, <2>7, <1>8
  <2>9. Position(c)' # p + 1
    BY <2>3, <2>5, <2>6
  <2>10. QED  BY <2>6, <2>8, <2>9, <1>8
<1>10. CASE e \notin Priority
  <2>1. ordinary' = Append(ordinary, e) /\ priority' = priority
    BY <1>2, <1>10
  <2>2. Range(ordinary') = Range(ordinary) \cup {e}
    BY <2>1, <1>4, TwoQueues, AppendOnce DEF Queued
  <2>3. /\ Len(ordinary') = o + 1 /\ ordinary'[o + 1] = e
        /\ \A i \in 1..o : ordinary'[i] = ordinary[i] /\ ordinary[i] \in Range(ordinary)
    BY <2>1, <1>8, TwoQueues, AppendProperties DEF Range
  <2>4. d = e
    BY <2>1, <2>2 DEF Queued
  <2>5. c \in Range(ordinary) /\ c # e
    BY <2>4, <1>4, <1>10, TwoQueues DEF Queued
  <2>6. Len(priority') = p
    BY <2>1
  <2> HIDE DEF p, o
  <2>7. Position(c)' \in (p + 1)..(p + (o + 1)) /\ ordinary'[Position(c)' - p] = c
    BY <2>2, <2>3, <2>5, <2>6, <1>7
  <2>8. Position(d)' \in (p + 1)..(p + (o + 1)) /\ ordinary'[Position(d)' - p] = e
    BY <2>2, <2>3, <2>4, <2>6, <1>7
  <2>9. Position(d)' - p = o + 1
    <3>1. Position(d)' - p \notin 1..o
      BY <2>3, <2>8, <1>4 DEF Queued
    <3>2. QED  BY <3>1, <2>8, <1>8
  <2>10. Position(c)' - p # o + 1
    BY <2>3, <2>5, <2>7
  <2>11. QED  BY <2>7, <2>8, <2>9, <2>10, <1>8
<1>11. QED  BY <1>9, <1>10

\* No other step brings a claim into the gate.
LEMMA OnlyClaimEnters ==
    ASSUME IInv, NEW e \in Claims, Proceed(e) \/ Cancel(e) \/ Release(e)
    PROVE  Queued' \cup holders' \subseteq Queued \cup holders
<1>1. CASE Proceed(e) \/ Cancel(e)
  BY <1>1 DEF Proceed, Cancel, Queued
<1>2. CASE Release(e)
  <2>1. CASE e \in holders
    <3>1. GrantNext(holders \ {e})
      BY <1>2, <2>1 DEF Release, DropFromGate
    <3>2. CASE priority # <<>>
      <4>1. /\ holders' = (holders \ {e}) \cup {priority[1]}
            /\ priority' = SubSeq(priority, 2, Len(priority)) /\ UNCHANGED ordinary
        BY <2>1, <3>1, <3>2, ReleaseGrantsHead
      <4>2. Range(priority') \subseteq Range(priority) /\ priority[1] \in Range(priority)
        BY <3>2, <4>1, TwoQueues, DropHead
      <4>3. QED  BY <4>1, <4>2 DEF Queued
    <3>3. CASE priority = <<>> /\ ordinary # <<>>
      <4>1. /\ holders' = (holders \ {e}) \cup {ordinary[1]}
            /\ ordinary' = SubSeq(ordinary, 2, Len(ordinary)) /\ UNCHANGED priority
        BY <2>1, <3>1, <3>3, ReleaseGrantsHead
      <4>2. Range(ordinary') \subseteq Range(ordinary) /\ ordinary[1] \in Range(ordinary)
        BY <3>3, <4>1, TwoQueues, DropHead
      <4>3. QED  BY <4>1, <4>2 DEF Queued
    <3>4. CASE priority = <<>> /\ ordinary = <<>>
      <4>1. holders' = holders \ {e} /\ UNCHANGED <<priority, ordinary>>
        BY <2>1, <3>1, <3>4, ReleaseGrantsHead
      <4>2. QED  BY <4>1 DEF Queued
    <3>5. QED  BY <3>2, <3>3, <3>4
  <2>2. CASE e \notin holders /\ e \in Range(priority)
    <3>1. priority' = Without(priority, e) /\ UNCHANGED <<holders, ordinary>>
      BY <1>2, <2>2 DEF Release, DropFromGate
    <3>2. Range(priority') \subseteq Range(priority)
      BY <2>2, <3>1, TwoQueues, RemoveOnce
    <3>3. QED  BY <3>1, <3>2 DEF Queued
  <2>3. CASE e \notin holders /\ e \notin Range(priority) /\ e \in Range(ordinary)
    <3>1. ordinary' = Without(ordinary, e) /\ UNCHANGED <<holders, priority>>
      BY <1>2, <2>3 DEF Release, DropFromGate
    <3>2. Range(ordinary') \subseteq Range(ordinary)
      BY <2>3, <3>1, TwoQueues, RemoveOnce
    <3>3. QED  BY <3>1, <3>2 DEF Queued
  <2>4. CASE e \notin holders /\ e \notin Range(priority) /\ e \notin Range(ordinary)
    BY <1>2, <2>4 DEF Release, DropFromGate, Queued
  <2>5. QED  BY <2>1, <2>2, <2>3, <2>4
<1>3. QED  BY <1>1, <1>2

(***************************************************************************)
(* Who enters a slot from the line is its head.                            *)
(***************************************************************************)
LEMMA GrantedWasHead ==
    ASSUME IInv, NEW e \in Claims, Claim(e) \/ Proceed(e) \/ Cancel(e) \/ Release(e),
           NEW c \in Queued, c \in holders'
    PROVE  \/ priority # <<>> /\ c = priority[1]
           \/ priority = <<>> /\ ordinary # <<>> /\ c = ordinary[1]
<1>1. c \notin holders
  BY TwoQueues
<1>2. CASE Claim(e)
  <2>1. e \notin Queued
    BY <1>2 DEF IInv, Claim, ClaimsWherePlaced
  <2>2. holders' \subseteq holders \cup {e}
    BY <1>2 DEF Claim
  <2>3. QED  BY <2>1, <2>2, <1>1
<1>3. CASE Proceed(e) \/ Cancel(e)
  BY <1>1, <1>3 DEF Proceed, Cancel
<1>4. CASE Release(e)
  <2>1. e \in holders
    BY <1>1, <1>4 DEF Release, DropFromGate
  <2>2. GrantNext(holders \ {e})
    BY <2>1, <1>4 DEF Release, DropFromGate
  <2>3. QED  BY <2>1, <2>2, <1>1, ReleaseGrantsHead
<1>5. QED  BY <1>2, <1>3, <1>4

(***************************************************************************)
(* The line of RunSlots is served from its head and entered at the end of  *)
(* a queue, for any number of claims, however many are cancelled while     *)
(* they wait: first come, first served among resumes, then among the rest. *)
(***************************************************************************)
THEOREM LineInOrder == Spec => InOrder
<1> DEFINE A == \A c, d \in Claims :
                  /\ c \in Queued /\ c \in holders'
                  /\ d \in Queued /\ d \notin holders'
                  => /\ Position(c) < Position(d)
                     /\ d \in Priority => c \in Priority
           B == \A c, d \in Claims :
                  /\ c \in Queued /\ d \notin Queued \cup holders
                  /\ c \in Queued' /\ (c \in Priority <=> d \in Priority)
                  => d \notin holders' /\ (d \in Queued' => Position(c)' < Position(d)')
<1>1. IInv /\ [Next]_vars => [A]_vars
  <2> SUFFICES ASSUME IInv, Next PROVE A
    OBVIOUS
  <2>1. PICK e \in Claims : Claim(e) \/ Proceed(e) \/ Cancel(e) \/ Release(e)
    BY DEF Next
  <2>2. QED  BY <2>1, GrantedWasHead, HeadFirst
<1>2. IInv /\ IInv' /\ [Next]_vars => [B]_vars
  <2> SUFFICES ASSUME IInv, IInv', Next PROVE B
    OBVIOUS
  <2>1. PICK e \in Claims : Claim(e) \/ Proceed(e) \/ Cancel(e) \/ Release(e)
    BY DEF Next
  <2>2. CASE Claim(e)
    BY <2>2, ClaimBehind
  <2>3. CASE Proceed(e) \/ Cancel(e) \/ Release(e)
    BY <2>3, OnlyClaimEnters
  <2>4. QED  BY <2>1, <2>2, <2>3
<1>3. Spec => [][A]_vars
  BY <1>1, Inductive, PTL DEF Spec
<1>4. Spec => [][B]_vars
  BY <1>2, Inductive, PTL DEF Spec
<1>5. QED  BY <1>3, <1>4 DEF InOrder, GrantsInOrder, NoOvertaking
=============================================================================
