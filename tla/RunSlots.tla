------------------------------ MODULE RunSlots ------------------------------
(***************************************************************************)
(* The cap on jobs running at once: RunSlots and RunSlot of                *)
(* embry0/orchestration/run_slots.py, with the two callers that claim and  *)
(* release slots (IssueExecutor._acquire_run_slot and _run_in_slot).       *)
(*                                                                         *)
(* A claim is one RunSlot object, owned by one asyncio task.  Everything   *)
(* the gate does runs between two awaits of the event loop, so claim() and *)
(* release() are atomic; what interleaves is the life of the owning tasks: *)
(* a task that was granted its slot has yet to be woken, and a task that   *)
(* was cancelled has yet to reach its "finally".                           *)
(***************************************************************************)
EXTENDS Naturals, Sequences, FiniteSets, SequencesExt

CONSTANTS Claims,    \* the claims (RunSlot objects) tasks may make
          Priority,  \* the ones made with priority=True: resumes
          Limit      \* MAX_RUNNING_JOBS; 0 means no cap

ASSUME LimitAssumption == Limit \in Nat

ASSUME PriorityAssumption == Priority \subseteq Claims

VARIABLES holders,   \* RunSlots._holders
          priority,  \* RunSlots._priority
          ordinary,  \* RunSlots._ordinary
          task       \* where the task that owns each claim stands

vars == <<holders, priority, ordinary, task>>

(***************************************************************************)
(* "idle"      no claim: not made yet, or released                         *)
(* "waiting"   suspended in RunSlot.wait()                                 *)
(* "running"   inside the job's coroutine                                  *)
(* "unwinding" cancelled, its finally (release) not reached yet            *)
(***************************************************************************)
TaskStates == {"idle", "waiting", "running", "unwinding"}

Queued == Range(priority) \cup Range(ordinary)

\* Resumes queue with resumes, jobs that have not started with their like.
QueueKinds ==
    /\ Range(priority) \subseteq Priority
    /\ Range(ordinary) \cap Priority = {}

(***************************************************************************)
(* The gate's fields hold claims, each queue claims of its own kind.       *)
(***************************************************************************)
TypeOK ==
    /\ holders \subseteq Claims
    /\ IsFiniteSet(holders)
    /\ priority \in Seq(Claims)
    /\ ordinary \in Seq(Claims)
    /\ QueueKinds
    /\ task \in [Claims -> TaskStates]

Init ==
    /\ holders = {}
    /\ priority = <<>>
    /\ ordinary = <<>>
    /\ task = [c \in Claims |-> "idle"]

-----------------------------------------------------------------------------

HasRoom_OffByOne(held) == Limit = 0 \/ Cardinality(held) <= Limit

\* A slot is free when `held` are the granted claims.
HasRoom(held) == Limit = 0 \/ Cardinality(held) < Limit

Claim_NewestFirst(c) ==
    /\ task[c] = "idle"
    /\ IF HasRoom(holders)
       THEN /\ holders' = holders \cup {c}
            /\ task' = [task EXCEPT ![c] = "running"]
            /\ UNCHANGED <<priority, ordinary>>
       ELSE /\ IF c \in Priority
               THEN priority' = <<c>> \o priority /\ UNCHANGED ordinary
               ELSE ordinary' = <<c>> \o ordinary /\ UNCHANGED priority
            /\ task' = [task EXCEPT ![c] = "waiting"]
            /\ UNCHANGED holders

(***************************************************************************)
(* RunSlots.claim, as _acquire_run_slot calls it: a granted claim runs on, *)
(* any other joins the queue of its kind and waits.                        *)
(***************************************************************************)
Claim(c) ==
    /\ task[c] = "idle"
    /\ IF HasRoom(holders)
       THEN /\ holders' = holders \cup {c}
            /\ task' = [task EXCEPT ![c] = "running"]
            /\ UNCHANGED <<priority, ordinary>>
       ELSE /\ IF c \in Priority
               THEN priority' = Append(priority, c) /\ UNCHANGED ordinary
               ELSE ordinary' = Append(ordinary, c) /\ UNCHANGED priority
            /\ task' = [task EXCEPT ![c] = "waiting"]
            /\ UNCHANGED holders

(***************************************************************************)
(* The waiter's future is set: the suspended task goes on.                 *)
(***************************************************************************)
Proceed(c) ==
    /\ task[c] = "waiting"
    /\ c \in holders
    /\ task' = [task EXCEPT ![c] = "running"]
    /\ UNCHANGED <<holders, priority, ordinary>>

(***************************************************************************)
(* task.cancel(), by cancel_job, by drain or by shutdown.  The claim stays *)
(* where it is until the task's except/finally runs: a queued claim can    *)
(* still be granted meanwhile.                                             *)
(***************************************************************************)
Cancel(c) ==
    /\ task[c] \in {"waiting", "running"}
    /\ task' = [task EXCEPT ![c] = "unwinding"]
    /\ UNCHANGED <<holders, priority, ordinary>>

-----------------------------------------------------------------------------

\* How many claims _grant_next grants when `held` are the granted ones: it
\* pops while there is room and anyone waits.
GrantCount(held) ==
    LET waiting == Len(priority) + Len(ordinary)
        room == Limit - Cardinality(held)
    IN  IF Limit = 0 \/ room > waiting THEN waiting ELSE room

GrantNext_OrdinaryFirst(held) ==
    LET n == GrantCount(held)
        queue == ordinary \o priority
        fromOrdinary == IF n < Len(ordinary) THEN n ELSE Len(ordinary)
    IN  /\ holders' = held \cup {queue[i] : i \in 1..n}
        /\ ordinary' = SubSeq(ordinary, fromOrdinary + 1, Len(ordinary))
        /\ priority' = SubSeq(priority, n - fromOrdinary + 1, Len(priority))

(***************************************************************************)
(* RunSlots._grant_next: the priority queue first, each from its head.     *)
(***************************************************************************)
GrantNext(held) ==
    LET n == GrantCount(held)
        queue == priority \o ordinary
        fromPriority == IF n < Len(priority) THEN n ELSE Len(priority)
    IN  /\ holders' = held \cup {queue[i] : i \in 1..n}
        /\ priority' = SubSeq(priority, fromPriority + 1, Len(priority))
        /\ ordinary' = SubSeq(ordinary, n - fromPriority + 1, Len(ordinary))

\* deque.remove: the claim's only occurrence leaves the queue.
Without(queue, c) ==
    LET i == CHOOSE j \in DOMAIN queue : queue[j] = c
    IN  RemoveAt(queue, i)

DropFromGate_NoGrant(c) ==
    IF c \in holders
    THEN holders' = holders \ {c} /\ UNCHANGED <<priority, ordinary>>
    ELSE IF c \in Range(priority)
    THEN priority' = Without(priority, c) /\ UNCHANGED <<holders, ordinary>>
    ELSE IF c \in Range(ordinary)
    THEN ordinary' = Without(ordinary, c) /\ UNCHANGED <<holders, priority>>
    ELSE UNCHANGED <<holders, priority, ordinary>>

DropFromGate_HoldersOnly(c) ==
    IF c \in holders
    THEN GrantNext(holders \ {c})
    ELSE UNCHANGED <<holders, priority, ordinary>>

(***************************************************************************)
(* RunSlots._release: a holder's slot goes to the next in line, a queued   *)
(* claim leaves its queue.                                                 *)
(***************************************************************************)
DropFromGate(c) ==
    IF c \in holders
    THEN GrantNext(holders \ {c})
    ELSE IF c \in Range(priority)
    THEN priority' = Without(priority, c) /\ UNCHANGED <<holders, ordinary>>
    ELSE IF c \in Range(ordinary)
    THEN ordinary' = Without(ordinary, c) /\ UNCHANGED <<holders, priority>>
    ELSE UNCHANGED <<holders, priority, ordinary>>

(***************************************************************************)
(* RunSlot.release from the "finally" of a coroutine that returned, or     *)
(* from the except/finally of a cancelled one.                             *)
(***************************************************************************)
Release(c) ==
    /\ task[c] \in {"running", "unwinding"}
    /\ DropFromGate(c)
    /\ task' = [task EXCEPT ![c] = "idle"]

-----------------------------------------------------------------------------

Next == \E c \in Claims : Claim(c) \/ Proceed(c) \/ Cancel(c) \/ Release(c)

Spec == Init /\ [][Next]_vars

(***************************************************************************)
(* The event loop runs every ready task, and every job's coroutine ends    *)
(* (each agent run has a wall-clock limit), so wake-ups and releases are   *)
(* weakly fair.  Nobody has to claim or to cancel.                         *)
(***************************************************************************)
Fairness == \A c \in Claims : WF_vars(Proceed(c)) /\ WF_vars(Release(c))

FairSpec == Spec /\ Fairness

-----------------------------------------------------------------------------

(***************************************************************************)
(* The cap (RunSlots: "At most limit granted slots"): whatever claims,     *)
(* cancellations and releases happen, no more than Limit claims hold a     *)
(* slot.                                                                   *)
(***************************************************************************)
RunningWithinLimit == Limit # 0 => Cardinality(holders) <= Limit

(***************************************************************************)
(* No lost slot: _grant_next never leaves a claim queued while a slot is   *)
(* free, even when the slot comes from a cancelled task or the freed claim *)
(* was itself cancelled while it waited.                                   *)
(***************************************************************************)
NoWaiterBesideFreeSlot == HasRoom(holders) => Queued = {}

(***************************************************************************)
(* Every claim is in exactly the place its task believes: a task that runs *)
(* holds a slot, one that waits is queued or granted, never both, and one  *)
(* that gave its claim back is nowhere in the gate, so no slot leaks.      *)
(***************************************************************************)
ClaimsWherePlaced ==
    /\ \A c \in Claims :
          /\ task[c] = "running" => c \in holders
          /\ task[c] \in {"waiting", "unwinding"} <=> (c \in Queued \cup holders /\ task[c] # "running")
    /\ Queued \cap holders = {}

(***************************************************************************)
(* What the gate conserves: no more slots are held than there are, none is *)
(* left idle beside a waiter, and none leaks with a claim that its task no *)
(* longer knows (_release, _grant_next).                                   *)
(***************************************************************************)
SlotsConserved == RunningWithinLimit /\ NoWaiterBesideFreeSlot /\ ClaimsWherePlaced

\* The place of claim c in the line: RunSlots.position.
Position(c) ==
    LET queue == priority \o ordinary
    IN  CHOOSE i \in DOMAIN queue : queue[i] = c

(***************************************************************************)
(* First come, first served, resumes first: when a release grants a queued *)
(* claim, every claim ahead of it in the line (RunSlots.position) is       *)
(* granted in the same step, and an ordinary claim is never granted past a *)
(* waiting resume.                                                         *)
(***************************************************************************)
GrantsInOrder ==
    [][\A c, d \in Claims :
          /\ c \in Queued /\ c \in holders'
          /\ d \in Queued /\ d \notin holders'
          => /\ Position(c) < Position(d)
             /\ d \in Priority => c \in Priority]_vars

(***************************************************************************)
(* New arrivals do not overtake: while c waits, a claim made later and of  *)
(* the same kind stays behind it.                                          *)
(***************************************************************************)
NoOvertaking ==
    [][\A c, d \in Claims :
          /\ c \in Queued /\ d \notin Queued \cup holders
          /\ c \in Queued' /\ (c \in Priority <=> d \in Priority)
          => d \notin holders' /\ (d \in Queued' => Position(c)' < Position(d)')]_vars

(***************************************************************************)
(* The line is a line: it is served from its head (_grant_next), and       *)
(* nobody enters it in front of one who waits (claim).                     *)
(***************************************************************************)
InOrder == GrantsInOrder /\ NoOvertaking

(***************************************************************************)
(* A resume is not starved: however often other jobs claim and come back,  *)
(* a resume in the line is granted its slot or gives up.                   *)
(***************************************************************************)
ResumesServed ==
    \A c \in Priority : (c \in Range(priority)) ~> (c \in holders \/ task[c] = "idle")

(***************************************************************************)
(* The gate implements RunGate: queues, futures and half-cancelled tasks   *)
(* add nothing a caller could observe.                                     *)
(***************************************************************************)
Gate == INSTANCE RunGate WITH running <- holders, waiting <- Queued

ImplementsGate == Gate!Spec
=============================================================================
