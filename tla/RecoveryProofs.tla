--------------------------- MODULE RecoveryProofs ---------------------------
(***************************************************************************)
(* Recovery, proved for every set of jobs, every MAX_RESUME_ATTEMPTS and   *)
(* every number of stops, with every window open: attempts and crashes are *)
(* bounded, and a process that is up works on every job in flight.         *)
(***************************************************************************)
EXTENDS Recovery, TLAPS

Booting == orch \in {"down", "planned", "taken", "reconciled"}

\* No task outlives its process, and what a draining one still starts is
\* either deferred or left at once.
TasksSound(j) ==
    /\ Booting => task[j] = NoTask
    /\ task[j] # NoTask => status[j] \in {"pending", "running"}
    /\ At(j, "executing") => status[j] = "running"
    /\ At(j, "deferring") => Draining
    /\ At(j, "created") => task[j].kind \in {"start", "account"}
    /\ task[j].kind = "account" => j \in Resumable
    /\ Draining /\ At(j, "launching") => task[j].kind \in {"start", "account"}
    /\ Draining /\ At(j, "queued") => task[j].kind = "account"

\* A wait that ends with a resume is of a resumable pipeline, and no pass of
\* the loop outlives its process.
WaitsSound(j) ==
    /\ Booting => tick = NoTick
    /\ wait[j] = "resume" => j \in Resumable
    /\ [job |-> j, mode |-> "resume"] \in tick.listed => j \in Resumable

\* A stamp is on a job in flight and no task runs over it: recovery clears it.
StampsSound(j) ==
    /\ stamp[j] => status[j] \notin {"absent", "paused"}
    /\ stamp[j] => ~At(j, "executing")
    /\ stamp[j] /\ orch = "up" => task[j] = NoTask
    /\ stamp[j] /\ orch \in {"taken", "reconciled"} => j \notin Recovered

\* The last crash of j is not counted yet, and either will be by the boot
\* under way or no longer matters.
Owed(j) ==
    /\ killed[j] = attempts[j] + 1
    /\ \/ status[j] = "failed"
       \/ /\ status[j] = "running"
          /\ ~stamp[j]
          /\ \/ orch = "down"
             \/ orch = "planned" /\ (j \in plan.counted \/ j \notin Recovered)
             \/ orch = "taken" /\ j \notin Recovered

CountsSound(j) ==
    /\ attempts[j] <= MaxAttempts
    /\ orch = "planned" /\ j \in plan.counted => attempts[j] < MaxAttempts
    /\ killed[j] <= attempts[j] \/ Owed(j)

FlightSound(j) ==
    /\ orch = "up" /\ InFlight(j) => task[j] # NoTask
    /\ orch = "reconciled" /\ InFlight(j) => j \in Recovered
    /\ orch \in {"planned", "taken", "reconciled"} /\ j \in Recovered => InFlight(j)

(***************************************************************************)
(* The inductive invariant.  The bound on crashes needs to know where a    *)
(* crash that no attempt has paid for may hide: on a job in flight without *)
(* a stamp, which the boot under way counts or fails; and so that nothing  *)
(* ever executes under a stamp, which would make its crash free.           *)
(***************************************************************************)
Sound(j) == TasksSound(j) /\ WaitsSound(j) /\ StampsSound(j) /\ CountsSound(j) /\ FlightSound(j)

IInv == TypeOK /\ \A j \in Jobs : Sound(j)

-----------------------------------------------------------------------------
(* Steps of one job's task.                                                *)

\* The values that stand for nothing have their types.
LEMMA Fresh ==
    /\ NoTask \in [pc: JobPhases, kind: {"none", "start", "restart", "account"}]
    /\ NoTick \in [pc: {"idle", "listing", "claiming"},
                   listed: SUBSET [job: Jobs, mode: {"none", "resume", "relaunch"}]]
    /\ NoPlan \in [resume: SUBSET Jobs, relaunch: SUBSET Jobs, exhausted: SUBSET Jobs,
                   counted: SUBSET Jobs]
BY DEF NoTask, Task, JobPhases, NoTick, NoPlan

\* A new row has no stamp and owes nothing.
LEMMA DispatchKeeps ==
    ASSUME IInv, NEW j \in Jobs, Dispatch(j)
    PROVE  IInv'
<1>1. TypeOK /\ Sound(j)
  BY DEF IInv
<1>2. TypeOK'
  BY <1>1 DEF Dispatch, TypeOK, JobPhases, Draining, Task, process
<1>3. ASSUME NEW k \in Jobs PROVE Sound(k)'
  <2>1. Sound(k)
    BY DEF IInv
  <2>2. TasksSound(k)'
    BY <1>1, <2>1 DEF Dispatch, TypeOK, Sound, TasksSound, WaitsSound, At, Booting, Draining,
         NoTask, Task, process
  <2>3. WaitsSound(k)'
    BY <1>1, <2>1 DEF Dispatch, TypeOK, Sound, WaitsSound, At, Booting, NoTick, Draining, Task,
         process
  <2>4. StampsSound(k)'
    BY <1>1, <2>1 DEF Dispatch, TypeOK, Sound, StampsSound, TasksSound, At, Recovered, NoTask,
         Task, Draining, process
  <2>5. CountsSound(k)'
    BY <1>1, <2>1 DEF Dispatch, TypeOK, Sound, CountsSound, StampsSound, TasksSound, Owed,
         Recovered, Booting, NoTask, Task, Draining, process
  <2>6. FlightSound(k)'
    BY <1>1, <2>1 DEF Dispatch, TypeOK, Sound, FlightSound, TasksSound, At, Booting, InFlight,
         InFlightStatuses, Recovered, NoTask, Task, Draining, process
  <2>7. QED  BY <2>2, <2>3, <2>4, <2>5, <2>6 DEF Sound
<1>4. QED  BY <1>2, <1>3 DEF IInv

\* A created task is registered.
LEMMA TrackKeeps ==
    ASSUME IInv, NEW j \in Jobs, Track(j)
    PROVE  IInv'
<1>1. TypeOK /\ Sound(j)
  BY DEF IInv
<1>2. TypeOK'
  BY <1>1 DEF Track, TypeOK, JobPhases, At, Goto, rows, process
<1>3. ASSUME NEW k \in Jobs PROVE Sound(k)'
  <2>1. Sound(k)
    BY DEF IInv
  <2>2. TasksSound(k)'
    BY <1>1, <2>1 DEF Track, TypeOK, Sound, TasksSound, WaitsSound, At, Booting, Draining, NoTask,
         Task, Goto, rows, process
  <2>3. WaitsSound(k)'
    BY <1>1, <2>1 DEF Track, TypeOK, Sound, WaitsSound, At, Booting, NoTick, Goto, rows, process
  <2>4. StampsSound(k)'
    BY <1>1, <2>1 DEF Track, TypeOK, Sound, StampsSound, TasksSound, At, Recovered, NoTask, Task,
         Goto, rows, process
  <2>5. CountsSound(k)'
    BY <1>1, <2>1 DEF Track, TypeOK, Sound, CountsSound, StampsSound, TasksSound, Owed, Recovered,
         Booting, NoTask, Task, At, Goto, rows, process
  <2>6. FlightSound(k)'
    BY <1>1, <2>1 DEF Track, TypeOK, Sound, FlightSound, TasksSound, At, Booting, InFlight,
         InFlightStatuses, Recovered, NoTask, Task, Goto, rows, process
  <2>7. QED  BY <2>2, <2>3, <2>4, <2>5, <2>6 DEF Sound
<1>4. QED  BY <1>2, <1>3 DEF IInv

\* A drain lets only an account wait go on to a slot.
LEMMA RecordLaunchKeeps ==
    ASSUME IInv, NEW j \in Jobs, RecordLaunch(j)
    PROVE  IInv'
<1>1. TypeOK /\ Sound(j)
  BY DEF IInv
<1>2. TypeOK'
  BY <1>1 DEF RecordLaunch, TypeOK, JobPhases, At, Goto, Draining, process
<1>3. ASSUME NEW k \in Jobs PROVE Sound(k)'
  <2>1. Sound(k)
    BY DEF IInv
  <2>2. TasksSound(k)'
    BY <1>1, <2>1 DEF RecordLaunch, TypeOK, Sound, TasksSound, WaitsSound, At, Booting, Draining,
         NoTask, Task, Goto, process
  <2>3. WaitsSound(k)'
    BY <1>1, <2>1 DEF RecordLaunch, TypeOK, Sound, WaitsSound, At, Booting, NoTick, Goto,
         Draining, process
  <2>4. StampsSound(k)'
    BY <1>1, <2>1 DEF RecordLaunch, TypeOK, Sound, StampsSound, TasksSound, At, Recovered, NoTask,
         Task, Goto, Draining, process
  <2>5. CountsSound(k)'
    BY <1>1, <2>1 DEF RecordLaunch, TypeOK, Sound, CountsSound, StampsSound, TasksSound, Owed,
         Recovered, Booting, NoTask, Task, At, Goto, Draining, process
  <2>6. FlightSound(k)'
    BY <1>1, <2>1 DEF RecordLaunch, TypeOK, Sound, FlightSound, TasksSound, At, Booting, InFlight,
         InFlightStatuses, Recovered, NoTask, Task, Goto, Draining, process
  <2>7. QED  BY <2>2, <2>3, <2>4, <2>5, <2>6 DEF Sound
<1>4. QED  BY <1>2, <1>3 DEF IInv

\* What is deferred had not started.
LEMMA DeferKeeps ==
    ASSUME IInv, NEW j \in Jobs, Defer(j)
    PROVE  IInv'
<1>1. TypeOK /\ Sound(j)
  BY DEF IInv
<1>2. TypeOK'
  BY <1>1 DEF Defer, TypeOK, JobPhases, At, End, NoTask, Task, InFlight, InFlightStatuses,
       Draining, process
<1>3. ASSUME NEW k \in Jobs PROVE Sound(k)'
  <2>1. Sound(k)
    BY DEF IInv
  <2>2. TasksSound(k)'
    BY <1>1, <2>1 DEF Defer, TypeOK, Sound, TasksSound, WaitsSound, At, Booting, Draining, NoTask,
         Task, End, InFlight, InFlightStatuses, process
  <2>3. WaitsSound(k)'
    BY <1>1, <2>1 DEF Defer, TypeOK, Sound, WaitsSound, At, Booting, NoTick, End, NoTask, Task,
         InFlight, InFlightStatuses, Draining, process
  <2>4. StampsSound(k)'
    BY <1>1, <2>1 DEF Defer, TypeOK, Sound, StampsSound, TasksSound, At, Recovered, NoTask, Task,
         End, InFlight, InFlightStatuses, Draining, process
  <2>5. CountsSound(k)'
    BY <1>1, <2>1 DEF Defer, TypeOK, Sound, CountsSound, StampsSound, TasksSound, Owed, Recovered,
         Booting, NoTask, Task, At, End, InFlight, InFlightStatuses, Draining, process
  <2>6. FlightSound(k)'
    BY <1>1, <2>1 DEF Defer, TypeOK, Sound, FlightSound, TasksSound, At, Booting, InFlight,
         InFlightStatuses, Recovered, NoTask, Task, End, Draining, process
  <2>7. QED  BY <2>2, <2>3, <2>4, <2>5, <2>6 DEF Sound
<1>4. QED  BY <1>2, <1>3 DEF IInv

\* Nothing starts under a stamp: what starts in a drain is resumable, and leaves at once.
LEMMA StartKeeps ==
    ASSUME IInv, NEW j \in Jobs, Start(j)
    PROVE  IInv'
<1>1. TypeOK /\ Sound(j)
  BY DEF IInv
<1>2. /\ At(j, "queued") /\ ~Booting
      /\ status' = [status EXCEPT ![j] = "running"]
      /\ UNCHANGED <<launch, ckpt, stamp, attempts, wait, tick, orch, drained, plan, killed, last, stops>>
  BY <1>1 DEF Start, Sound, TasksSound, At, NoTask, Task, process
<1>3. CASE Draining /\ j \in Resumable
  <2>1. task' = [task EXCEPT ![j] = NoTask]
    BY <1>3 DEF Start, End
  <2>2. TypeOK'
    BY <1>1, <1>2, <2>1, Fresh DEF TypeOK
  <2>3. ASSUME NEW k \in Jobs PROVE Sound(k)'
    <3>1. Sound(k)
      BY DEF IInv
    <3>2. TasksSound(k)'
      BY <1>1, <1>2, <3>1, <1>3, <2>1 DEF TypeOK, Sound, TasksSound, WaitsSound, At, Booting,
           Draining, NoTask, Task
    <3>3. WaitsSound(k)'
      BY <1>1, <1>2, <3>1, <1>3, <2>1 DEF TypeOK, Sound, WaitsSound, At, Booting, NoTick,
           Draining, NoTask, Task
    <3>4. StampsSound(k)'
      BY <1>1, <1>2, <3>1, <1>3, <2>1 DEF TypeOK, Sound, StampsSound, TasksSound, At, Recovered,
           NoTask, Task, Draining
    <3>5. CountsSound(k)'
      BY <1>1, <1>2, <3>1, <1>3, <2>1 DEF TypeOK, Sound, CountsSound, StampsSound, TasksSound,
           Owed, Recovered, Booting, NoTask, Task, At, Draining
    <3>6. FlightSound(k)'
      BY <1>1, <1>2, <3>1, <1>3, <2>1 DEF TypeOK, Sound, FlightSound, TasksSound, At, Booting,
           InFlight, InFlightStatuses, Recovered, NoTask, Task, Draining
    <3>7. QED  BY <3>2, <3>3, <3>4, <3>5, <3>6 DEF Sound
  <2>4. QED  BY <2>2, <2>3 DEF IInv
<1>4. CASE ~(Draining /\ j \in Resumable)
  <2>1. task' = [task EXCEPT ![j].pc = "executing"] /\ orch = "up"
    BY <1>1, <1>2, <1>4 DEF Start, Goto, Sound, TasksSound, TypeOK, Draining, Booting
  <2>2. TypeOK'
    BY <1>1, <1>2, <2>1 DEF TypeOK, JobPhases
  <2>3. ~stamp[j]
    BY <1>1, <1>2, <2>1 DEF Sound, StampsSound, At, NoTask, Task
  <2>4. ASSUME NEW k \in Jobs PROVE Sound(k)'
    <3>1. Sound(k)
      BY DEF IInv
    <3>2. TasksSound(k)'
      BY <1>1, <1>2, <3>1, <2>1, <2>3 DEF TypeOK, Sound, TasksSound, WaitsSound, At, Booting,
           Draining, NoTask, Task
    <3>3. WaitsSound(k)'
      BY <1>1, <1>2, <3>1, <2>1, <2>3 DEF TypeOK, Sound, WaitsSound, At, Booting, NoTick,
           Draining, NoTask, Task
    <3>4. StampsSound(k)'
      BY <1>1, <1>2, <3>1, <2>1, <2>3 DEF TypeOK, Sound, StampsSound, TasksSound, At, Recovered,
           NoTask, Task, Draining
    <3>5. CountsSound(k)'
      BY <1>1, <1>2, <3>1, <2>1, <2>3 DEF TypeOK, Sound, CountsSound, StampsSound, TasksSound,
           Owed, Recovered, Booting, NoTask, Task, At, Draining
    <3>6. FlightSound(k)'
      BY <1>1, <1>2, <3>1, <2>1, <2>3 DEF TypeOK, Sound, FlightSound, TasksSound, At, Booting,
           InFlight, InFlightStatuses, Recovered, NoTask, Task, Draining
    <3>7. QED  BY <3>2, <3>3, <3>4, <3>5, <3>6 DEF Sound
  <2>5. QED  BY <2>2, <2>4 DEF IInv
<1>5. QED  BY <1>3, <1>4


\* A node boundary.
LEMMA NodeKeeps ==
    ASSUME IInv, NEW j \in Jobs, Node(j)
    PROVE  IInv'
<1>1. TypeOK /\ Sound(j)
  BY DEF IInv
<1>2. TypeOK'
  BY <1>1 DEF Node, TypeOK, JobPhases, At, End, NoTask, Task, Draining, process
<1>3. ASSUME NEW k \in Jobs PROVE Sound(k)'
  <2>1. Sound(k)
    BY DEF IInv
  <2>2. TasksSound(k)'
    BY <1>1, <2>1 DEF Node, TypeOK, Sound, TasksSound, WaitsSound, At, Booting, Draining, NoTask,
         Task, End, process
  <2>3. WaitsSound(k)'
    BY <1>1, <2>1 DEF Node, TypeOK, Sound, WaitsSound, At, Booting, NoTick, End, NoTask, Task,
         Draining, process
  <2>4. StampsSound(k)'
    BY <1>1, <2>1 DEF Node, TypeOK, Sound, StampsSound, TasksSound, At, Recovered, NoTask, Task,
         End, Draining, process
  <2>5. CountsSound(k)'
    BY <1>1, <2>1 DEF Node, TypeOK, Sound, CountsSound, StampsSound, TasksSound, Owed, Recovered,
         Booting, NoTask, Task, At, End, Draining, process
  <2>6. FlightSound(k)'
    BY <1>1, <2>1 DEF Node, TypeOK, Sound, FlightSound, TasksSound, At, Booting, InFlight,
         InFlightStatuses, Recovered, NoTask, Task, End, Draining, process
  <2>7. QED  BY <2>2, <2>3, <2>4, <2>5, <2>6 DEF Sound
<1>4. QED  BY <1>2, <1>3 DEF IInv

\* The end of a run.
LEMMA FinishKeeps ==
    ASSUME IInv, NEW j \in Jobs, Finish(j)
    PROVE  IInv'
<1>1. TypeOK /\ Sound(j)
  BY DEF IInv
<1>2. TypeOK'
  BY <1>1 DEF Finish, TypeOK, JobPhases, At, End, NoTask, Task, process
<1>3. ASSUME NEW k \in Jobs PROVE Sound(k)'
  <2>1. Sound(k)
    BY DEF IInv
  <2>2. TasksSound(k)'
    BY <1>1, <2>1 DEF Finish, TypeOK, Sound, TasksSound, WaitsSound, At, Booting, Draining,
         NoTask, Task, End, process
  <2>3. WaitsSound(k)'
    BY <1>1, <2>1 DEF Finish, TypeOK, Sound, WaitsSound, At, Booting, NoTick, End, NoTask, Task,
         process
  <2>4. StampsSound(k)'
    BY <1>1, <2>1 DEF Finish, TypeOK, Sound, StampsSound, TasksSound, At, Recovered, NoTask, Task,
         End, process
  <2>5. CountsSound(k)'
    BY <1>1, <2>1 DEF Finish, TypeOK, Sound, CountsSound, StampsSound, TasksSound, Owed,
         Recovered, Booting, NoTask, Task, At, End, process
  <2>6. FlightSound(k)'
    BY <1>1, <2>1 DEF Finish, TypeOK, Sound, FlightSound, TasksSound, At, Booting, InFlight,
         InFlightStatuses, Recovered, NoTask, Task, End, process
  <2>7. QED  BY <2>2, <2>3, <2>4, <2>5, <2>6 DEF Sound
<1>4. QED  BY <1>2, <1>3 DEF IInv

\* A job that executes has no stamp, so a parked one has none.
LEMMA ParkKeeps ==
    ASSUME IInv, NEW j \in Jobs, Park(j)
    PROVE  IInv'
<1>1. TypeOK /\ Sound(j)
  BY DEF IInv
<1>2. TypeOK'
  BY <1>1 DEF Park, TypeOK, JobPhases, At, End, NoTask, Task, process
<1>3. ASSUME NEW k \in Jobs PROVE Sound(k)'
  <2>1. Sound(k)
    BY DEF IInv
  <2>2. TasksSound(k)'
    BY <1>1, <2>1 DEF Park, TypeOK, Sound, TasksSound, WaitsSound, At, Booting, Draining, NoTask,
         Task, End, process
  <2>3. WaitsSound(k)'
    BY <1>1, <2>1 DEF Park, TypeOK, Sound, WaitsSound, At, Booting, NoTick, End, NoTask, Task,
         process
  <2>4. StampsSound(k)'
    BY <1>1, <2>1 DEF Park, TypeOK, Sound, StampsSound, TasksSound, At, Recovered, NoTask, Task,
         End, process
  <2>5. CountsSound(k)'
    BY <1>1, <2>1 DEF Park, TypeOK, Sound, CountsSound, StampsSound, TasksSound, Owed, Recovered,
         Booting, NoTask, Task, At, End, process
  <2>6. FlightSound(k)'
    BY <1>1, <2>1 DEF Park, TypeOK, Sound, FlightSound, TasksSound, At, Booting, InFlight,
         InFlightStatuses, Recovered, NoTask, Task, End, process
  <2>7. QED  BY <2>2, <2>3, <2>4, <2>5, <2>6 DEF Sound
<1>4. QED  BY <1>2, <1>3 DEF IInv

\* A job cancelled at the deadline stays as it is.
LEMMA DeadlineKeeps ==
    ASSUME IInv, NEW j \in Jobs, Deadline(j)
    PROVE  IInv'
<1>1. TypeOK /\ Sound(j)
  BY DEF IInv
<1>2. TypeOK'
  BY <1>1 DEF Deadline, TypeOK, JobPhases, At, End, NoTask, Task, rows, process
<1>3. ASSUME NEW k \in Jobs PROVE Sound(k)'
  <2>1. Sound(k)
    BY DEF IInv
  <2>2. TasksSound(k)'
    BY <1>1, <2>1 DEF Deadline, TypeOK, Sound, TasksSound, WaitsSound, At, Booting, Draining,
         NoTask, Task, End, rows, process
  <2>3. WaitsSound(k)'
    BY <1>1, <2>1 DEF Deadline, TypeOK, Sound, WaitsSound, At, Booting, NoTick, End, NoTask, Task,
         rows, process
  <2>4. StampsSound(k)'
    BY <1>1, <2>1 DEF Deadline, TypeOK, Sound, StampsSound, TasksSound, At, Recovered, NoTask,
         Task, End, rows, process
  <2>5. CountsSound(k)'
    BY <1>1, <2>1 DEF Deadline, TypeOK, Sound, CountsSound, StampsSound, TasksSound, Owed,
         Recovered, Booting, NoTask, Task, At, End, rows, process
  <2>6. FlightSound(k)'
    BY <1>1, <2>1 DEF Deadline, TypeOK, Sound, FlightSound, TasksSound, At, Booting, InFlight,
         InFlightStatuses, Recovered, NoTask, Task, End, rows, process
  <2>7. QED  BY <2>2, <2>3, <2>4, <2>5, <2>6 DEF Sound
<1>4. QED  BY <1>2, <1>3 DEF IInv

-----------------------------------------------------------------------------
(* Steps of the account-wait loop and of the process.                      *)

\* The pass begins.
LEMMA TickBeginKeeps ==
    ASSUME IInv, TickBegin
    PROVE  IInv'
<1>1. TypeOK
  BY DEF IInv
<1>2. TypeOK'
  BY <1>1, Fresh, RecoveryAssumption DEF TickBegin, TypeOK, JobPhases, rows, process
<1>3. ASSUME NEW k \in Jobs PROVE Sound(k)'
  <2>1. Sound(k)
    BY DEF IInv
  <2>2. TasksSound(k)'
    BY <1>1, <2>1, RecoveryAssumption DEF TickBegin, TypeOK, Sound, TasksSound, WaitsSound, At,
         Booting, Draining, NoTask, Task, rows, process
  <2>3. WaitsSound(k)'
    BY <1>1, <2>1, RecoveryAssumption DEF TickBegin, TypeOK, Sound, WaitsSound, At, Booting,
         NoTick, rows, process
  <2>4. StampsSound(k)'
    BY <1>1, <2>1, RecoveryAssumption DEF TickBegin, TypeOK, Sound, StampsSound, TasksSound, At,
         Recovered, NoTask, Task, rows, process
  <2>5. CountsSound(k)'
    BY <1>1, <2>1, RecoveryAssumption DEF TickBegin, TypeOK, Sound, CountsSound, StampsSound,
         TasksSound, Owed, Recovered, Booting, NoTask, Task, rows, process
  <2>6. FlightSound(k)'
    BY <1>1, <2>1, RecoveryAssumption DEF TickBegin, TypeOK, Sound, FlightSound, TasksSound, At,
         Booting, InFlight, InFlightStatuses, Recovered, NoTask, Task, rows, process
  <2>7. QED  BY <2>2, <2>3, <2>4, <2>5, <2>6 DEF Sound
<1>4. QED  BY <1>2, <1>3 DEF IInv

\* A job listed to resume is of a resumable pipeline.
LEMMA TickListKeeps ==
    ASSUME IInv, TickList
    PROVE  IInv'
<1>1. TypeOK
  BY DEF IInv
<1>2. TypeOK'
  BY <1>1, Fresh, RecoveryAssumption DEF TickList, TypeOK, JobPhases, rows, process
<1>3. ASSUME NEW k \in Jobs PROVE Sound(k)'
  <2>1. Sound(k)
    BY DEF IInv
  <2>2. TasksSound(k)'
    BY <1>1, <2>1, RecoveryAssumption DEF TickList, TypeOK, Sound, TasksSound, WaitsSound, At,
         Booting, Draining, NoTask, Task, rows, process
  <2>3. WaitsSound(k)'
    <3>1. ~Booting /\ UNCHANGED <<wait, orch>>
      BY <2>1 DEF TickList, Sound, WaitsSound, NoTick, rows, process
    <3>2. ASSUME [job |-> k, mode |-> "resume"] \in tick'.listed PROVE k \in Resumable
      <4>1. PICK i \in Jobs : [job |-> k, mode |-> "resume"] = [job |-> i, mode |-> wait[i]]
        BY <3>2 DEF TickList
      <4>2. wait[k] = "resume"
        BY <4>1
      <4>3. QED  BY <4>2, <2>1 DEF Sound, WaitsSound
    <3>3. QED  BY <2>1, <3>1, <3>2 DEF Sound, WaitsSound, Booting
  <2>4. StampsSound(k)'
    BY <1>1, <2>1, RecoveryAssumption DEF TickList, TypeOK, Sound, StampsSound, TasksSound, At,
         Recovered, NoTask, Task, rows, process
  <2>5. CountsSound(k)'
    BY <1>1, <2>1, RecoveryAssumption DEF TickList, TypeOK, Sound, CountsSound, StampsSound,
         TasksSound, Owed, Recovered, Booting, NoTask, Task, rows, process
  <2>6. FlightSound(k)'
    BY <1>1, <2>1, RecoveryAssumption DEF TickList, TypeOK, Sound, FlightSound, TasksSound, At,
         Booting, InFlight, InFlightStatuses, Recovered, NoTask, Task, rows, process
  <2>7. QED  BY <2>2, <2>3, <2>4, <2>5, <2>6 DEF Sound
<1>4. QED  BY <1>2, <1>3 DEF IInv

\* The pass ends.
LEMMA TickEndKeeps ==
    ASSUME IInv, TickEnd
    PROVE  IInv'
<1>1. TypeOK
  BY DEF IInv
<1>2. TypeOK'
  BY <1>1, Fresh, RecoveryAssumption DEF TickEnd, TypeOK, JobPhases, rows, process, NoTick
<1>3. ASSUME NEW k \in Jobs PROVE Sound(k)'
  <2>1. Sound(k)
    BY DEF IInv
  <2>2. TasksSound(k)'
    BY <1>1, <2>1, RecoveryAssumption DEF TickEnd, TypeOK, Sound, TasksSound, WaitsSound, At,
         Booting, Draining, NoTask, Task, rows, process, NoTick
  <2>3. WaitsSound(k)'
    BY <1>1, <2>1, RecoveryAssumption DEF TickEnd, TypeOK, Sound, WaitsSound, At, Booting, NoTick,
         rows, process
  <2>4. StampsSound(k)'
    BY <1>1, <2>1, RecoveryAssumption DEF TickEnd, TypeOK, Sound, StampsSound, TasksSound, At,
         Recovered, NoTask, Task, rows, process, NoTick
  <2>5. CountsSound(k)'
    BY <1>1, <2>1, RecoveryAssumption DEF TickEnd, TypeOK, Sound, CountsSound, StampsSound,
         TasksSound, Owed, Recovered, Booting, NoTask, Task, rows, process, NoTick
  <2>6. FlightSound(k)'
    BY <1>1, <2>1, RecoveryAssumption DEF TickEnd, TypeOK, Sound, FlightSound, TasksSound, At,
         Booting, InFlight, InFlightStatuses, Recovered, NoTask, Task, rows, process, NoTick
  <2>7. QED  BY <2>2, <2>3, <2>4, <2>5, <2>6 DEF Sound
<1>4. QED  BY <1>2, <1>3 DEF IInv

\* What a drain leaves to start is an account wait on its way to a slot.
LEMMA DrainKeeps ==
    ASSUME IInv, Drain
    PROVE  IInv'
<1>1. TypeOK
  BY DEF IInv
<1>2. TypeOK'
  BY <1>1, Fresh, RecoveryAssumption DEF Drain, TypeOK, JobPhases, NotStarted, StatusOnCancel, At,
       Task, NoTask
<1>3. ASSUME NEW k \in Jobs PROVE Sound(k)'
  <2>1. Sound(k)
    BY DEF IInv
  <2>2. TasksSound(k)'
    BY <1>1, <2>1, RecoveryAssumption DEF Drain, TypeOK, Sound, TasksSound, WaitsSound, At,
         Booting, Draining, NoTask, Task, NotStarted, StatusOnCancel
  <2>3. WaitsSound(k)'
    BY <1>1, <2>1, RecoveryAssumption DEF Drain, TypeOK, Sound, WaitsSound, At, Booting, NoTick,
         NotStarted, StatusOnCancel, Task, NoTask
  <2>4. StampsSound(k)'
    BY <1>1, <2>1, RecoveryAssumption DEF Drain, TypeOK, Sound, StampsSound, TasksSound, At,
         Recovered, NoTask, Task, NotStarted, StatusOnCancel
  <2>5. CountsSound(k)'
    BY <1>1, <2>1, RecoveryAssumption DEF Drain, TypeOK, Sound, CountsSound, StampsSound,
         TasksSound, Owed, Recovered, Booting, NoTask, Task, NotStarted, StatusOnCancel, At
  <2>6. FlightSound(k)'
    BY <1>1, <2>1, RecoveryAssumption DEF Drain, TypeOK, Sound, FlightSound, TasksSound, At,
         Booting, InFlight, InFlightStatuses, Recovered, NoTask, Task, NotStarted, StatusOnCancel
  <2>7. QED  BY <2>2, <2>3, <2>4, <2>5, <2>6 DEF Sound
<1>4. QED  BY <1>2, <1>3 DEF IInv

\* The jobs it stamps do not execute.
LEMMA MarkKeeps ==
    ASSUME IInv, Mark
    PROVE  IInv'
<1>1. TypeOK
  BY DEF IInv
<1>2. TypeOK'
  BY <1>1, Fresh, RecoveryAssumption DEF Mark, TypeOK, JobPhases, At, InFlight, InFlightStatuses
<1>3. ASSUME NEW k \in Jobs PROVE Sound(k)'
  <2>1. Sound(k)
    BY DEF IInv
  <2>2. TasksSound(k)'
    BY <1>1, <2>1, RecoveryAssumption DEF Mark, TypeOK, Sound, TasksSound, WaitsSound, At,
         Booting, Draining, NoTask, Task, InFlight, InFlightStatuses
  <2>3. WaitsSound(k)'
    BY <1>1, <2>1, RecoveryAssumption DEF Mark, TypeOK, Sound, WaitsSound, At, Booting, NoTick,
         InFlight, InFlightStatuses
  <2>4. StampsSound(k)'
    BY <1>1, <2>1, RecoveryAssumption DEF Mark, TypeOK, Sound, StampsSound, TasksSound, At,
         Recovered, NoTask, Task, InFlight, InFlightStatuses
  <2>5. CountsSound(k)'
    BY <1>1, <2>1, RecoveryAssumption DEF Mark, TypeOK, Sound, CountsSound, StampsSound,
         TasksSound, Owed, Recovered, Booting, NoTask, Task, At, InFlight, InFlightStatuses
  <2>6. FlightSound(k)'
    BY <1>1, <2>1, RecoveryAssumption DEF Mark, TypeOK, Sound, FlightSound, TasksSound, At,
         Booting, InFlight, InFlightStatuses, Recovered, NoTask, Task
  <2>7. QED  BY <2>2, <2>3, <2>4, <2>5, <2>6 DEF Sound
<1>4. QED  BY <1>2, <1>3 DEF IInv

\* A clean end leaves no task.
LEMMA ExitKeeps ==
    ASSUME IInv, Exit
    PROVE  IInv'
<1>1. TypeOK
  BY DEF IInv
<1>2. TypeOK'
  BY <1>1, Fresh, RecoveryAssumption DEF Exit, TypeOK, JobPhases, Down, NoTick, NoPlan,
       StatusOnCancel, Task
<1>3. ASSUME NEW k \in Jobs PROVE Sound(k)'
  <2>1. Sound(k)
    BY DEF IInv
  <2>2. TasksSound(k)'
    BY <1>1, <2>1, RecoveryAssumption DEF Exit, TypeOK, Sound, TasksSound, WaitsSound, At,
         Booting, Draining, NoTask, Task, Down, NoTick, NoPlan, StatusOnCancel
  <2>3. WaitsSound(k)'
    BY <1>1, <2>1, RecoveryAssumption DEF Exit, TypeOK, Sound, WaitsSound, At, Booting, NoTick,
         Down, NoPlan, StatusOnCancel, Task
  <2>4. StampsSound(k)'
    BY <1>1, <2>1, RecoveryAssumption DEF Exit, TypeOK, Sound, StampsSound, TasksSound, At,
         Recovered, NoTask, Task, Down, NoTick, NoPlan, StatusOnCancel
  <2>5. CountsSound(k)'
    BY <1>1, <2>1, RecoveryAssumption DEF Exit, TypeOK, Sound, CountsSound, StampsSound,
         TasksSound, Owed, Recovered, Booting, NoTask, Task, Down, NoTick, NoPlan, StatusOnCancel
  <2>6. FlightSound(k)'
    BY <1>1, <2>1, RecoveryAssumption DEF Exit, TypeOK, Sound, FlightSound, TasksSound, At,
         Booting, InFlight, InFlightStatuses, Recovered, NoTask, Task, Down, NoTick, NoPlan,
         StatusOnCancel
  <2>7. QED  BY <2>2, <2>3, <2>4, <2>5, <2>6 DEF Sound
<1>4. QED  BY <1>2, <1>3 DEF IInv

\* A crash under a job that executes is owed: no stamp is on the job.
LEMMA CrashKeeps ==
    ASSUME IInv, Crash
    PROVE  IInv'
<1>1. TypeOK
  BY DEF IInv
<1>2. TypeOK'
  BY <1>1, Fresh, RecoveryAssumption DEF Crash, TypeOK, JobPhases, Down, NoTick, NoPlan, At
<1>3. ASSUME NEW k \in Jobs PROVE Sound(k)'
  <2>1. Sound(k)
    BY DEF IInv
  <2>2. TasksSound(k)'
    BY <1>1, <2>1, RecoveryAssumption DEF Crash, TypeOK, Sound, TasksSound, WaitsSound, At,
         Booting, Draining, NoTask, Task, Down, NoTick, NoPlan
  <2>3. WaitsSound(k)'
    BY <1>1, <2>1, RecoveryAssumption DEF Crash, TypeOK, Sound, WaitsSound, At, Booting, NoTick,
         Down, NoPlan
  <2>4. StampsSound(k)'
    BY <1>1, <2>1, RecoveryAssumption DEF Crash, TypeOK, Sound, StampsSound, TasksSound, At,
         Recovered, NoTask, Task, Down, NoTick, NoPlan
  <2>5. CountsSound(k)'
    <3>1. orch' = "down" /\ UNCHANGED <<status, stamp, attempts>>
      BY DEF Crash, Down
    <3>2. CASE At(k, "executing")
      <4>1. status[k] = "running" /\ ~stamp[k] /\ killed[k] <= attempts[k] /\ attempts[k] <= MaxAttempts
        BY <1>1, <2>1, <3>2 DEF TypeOK, Sound, CountsSound, Owed, StampsSound, TasksSound, At, Booting,
           NoTask, Task
      <4>2. killed'[k] = killed[k] + 1
        BY <1>1, <3>2 DEF Crash, TypeOK
      <4>3. killed[k] \in Nat /\ attempts[k] \in Nat
        BY <1>1 DEF TypeOK
      <4>4. killed'[k] <= attempts'[k] \/ killed'[k] = attempts'[k] + 1
        BY <3>1, <4>1, <4>2, <4>3
      <4>5. QED
        BY <3>1, <4>1, <4>4 DEF CountsSound, Owed
    <3>3. CASE ~At(k, "executing")
      <4>1. killed'[k] = killed[k]
        BY <1>1, <3>3 DEF Crash, TypeOK
      <4>2. QED
        BY <2>1, <3>1, <4>1 DEF Sound, CountsSound, Owed
    <3>4. QED  BY <3>2, <3>3
  <2>6. FlightSound(k)'
    BY <1>1, <2>1, RecoveryAssumption DEF Crash, TypeOK, Sound, FlightSound, TasksSound, At,
         Booting, InFlight, InFlightStatuses, Recovered, NoTask, Task, Down, NoTick, NoPlan
  <2>7. QED  BY <2>2, <2>3, <2>4, <2>5, <2>6 DEF Sound
<1>4. QED  BY <1>2, <1>3 DEF IInv

\* Boot fails an owed job, counts it, or leaves it to fail_orphaned.
LEMMA BootPlanKeeps ==
    ASSUME IInv, BootPlan
    PROVE  IInv'
<1>1. TypeOK
  BY DEF IInv
<1>2. TypeOK'
  BY <1>1, Fresh, RecoveryAssumption DEF BootPlan, TypeOK, JobPhases, PlanRecovery, Exhausted,
       CanResume, CanRelaunch, Begun, InFlight, InFlightStatuses
<1>3. ASSUME NEW k \in Jobs PROVE Sound(k)'
  <2>1. Sound(k)
    BY DEF IInv
  <2>2. TasksSound(k)'
    BY <1>1, <2>1, RecoveryAssumption DEF BootPlan, TypeOK, Sound, TasksSound, WaitsSound, At,
         Booting, Draining, NoTask, Task, PlanRecovery, Exhausted, CanResume, CanRelaunch, Begun,
         InFlight, InFlightStatuses
  <2>3. WaitsSound(k)'
    BY <1>1, <2>1, RecoveryAssumption DEF BootPlan, TypeOK, Sound, WaitsSound, At, Booting,
         NoTick, PlanRecovery, Exhausted, CanResume, CanRelaunch, Begun, InFlight,
         InFlightStatuses
  <2>4. StampsSound(k)'
    BY <1>1, <2>1, RecoveryAssumption DEF BootPlan, TypeOK, Sound, StampsSound, TasksSound, At,
         Recovered, NoTask, Task, PlanRecovery, Exhausted, CanResume, CanRelaunch, Begun,
         InFlight, InFlightStatuses
  <2>5. CountsSound(k)'
    BY <1>1, <2>1, RecoveryAssumption DEF BootPlan, TypeOK, Sound, CountsSound, StampsSound,
         TasksSound, Owed, Recovered, Booting, NoTask, Task, PlanRecovery, Exhausted, CanResume,
         CanRelaunch, Begun, InFlight, InFlightStatuses
  <2>6. FlightSound(k)'
    BY <1>1, <2>1, RecoveryAssumption DEF BootPlan, TypeOK, Sound, FlightSound, TasksSound, At,
         Booting, InFlight, InFlightStatuses, Recovered, NoTask, Task, PlanRecovery, Exhausted,
         CanResume, CanRelaunch, Begun
  <2>7. QED  BY <2>2, <2>3, <2>4, <2>5, <2>6 DEF Sound
<1>4. QED  BY <1>2, <1>3 DEF IInv

\* Boot counts what is owed and clears the stamps.
LEMMA TakeBackKeeps ==
    ASSUME IInv, TakeBack
    PROVE  IInv'
<1>1. TypeOK
  BY DEF IInv
<1>2. TypeOK'
  BY <1>1, Fresh, RecoveryAssumption DEF TakeBack, TypeOK, JobPhases
<1>3. ASSUME NEW k \in Jobs PROVE Sound(k)'
  <2>1. Sound(k)
    BY DEF IInv
  <2>2. TasksSound(k)'
    BY <1>1, <2>1, RecoveryAssumption DEF TakeBack, TypeOK, Sound, TasksSound, WaitsSound, At,
         Booting, Draining, NoTask, Task
  <2>3. WaitsSound(k)'
    BY <1>1, <2>1, RecoveryAssumption DEF TakeBack, TypeOK, Sound, WaitsSound, At, Booting, NoTick
  <2>4. StampsSound(k)'
    BY <1>1, <2>1, RecoveryAssumption DEF TakeBack, TypeOK, Sound, StampsSound, TasksSound, At,
         Recovered, NoTask, Task
  <2>5. CountsSound(k)'
    BY <1>1, <2>1, RecoveryAssumption DEF TakeBack, TypeOK, Sound, CountsSound, StampsSound,
         TasksSound, Owed, Recovered, Booting, NoTask, Task
  <2>6. FlightSound(k)'
    BY <1>1, <2>1, RecoveryAssumption DEF TakeBack, TypeOK, Sound, FlightSound, TasksSound, At,
         Booting, InFlight, InFlightStatuses, Recovered, NoTask, Task
  <2>7. QED  BY <2>2, <2>3, <2>4, <2>5, <2>6 DEF Sound
<1>4. QED  BY <1>2, <1>3 DEF IInv

\* A plan that failed recovers nothing.
LEMMA PlanningFailsKeeps ==
    ASSUME IInv, PlanningFails
    PROVE  IInv'
<1>1. TypeOK
  BY DEF IInv
<1>2. TypeOK'
  BY <1>1, Fresh, RecoveryAssumption DEF PlanningFails, TypeOK, JobPhases, rows, NoPlan
<1>3. ASSUME NEW k \in Jobs PROVE Sound(k)'
  <2>1. Sound(k)
    BY DEF IInv
  <2>2. TasksSound(k)'
    BY <1>1, <2>1, RecoveryAssumption DEF PlanningFails, TypeOK, Sound, TasksSound, WaitsSound,
         At, Booting, Draining, NoTask, Task, rows, NoPlan
  <2>3. WaitsSound(k)'
    BY <1>1, <2>1, RecoveryAssumption DEF PlanningFails, TypeOK, Sound, WaitsSound, At, Booting,
         NoTick, rows, NoPlan
  <2>4. StampsSound(k)'
    BY <1>1, <2>1, RecoveryAssumption DEF PlanningFails, TypeOK, Sound, StampsSound, TasksSound,
         At, Recovered, NoTask, Task, rows, NoPlan
  <2>5. CountsSound(k)'
    BY <1>1, <2>1, RecoveryAssumption DEF PlanningFails, TypeOK, Sound, CountsSound, StampsSound,
         TasksSound, Owed, Recovered, Booting, NoTask, Task, rows, NoPlan
  <2>6. FlightSound(k)'
    BY <1>1, <2>1, RecoveryAssumption DEF PlanningFails, TypeOK, Sound, FlightSound, TasksSound,
         At, Booting, InFlight, InFlightStatuses, Recovered, NoTask, Task, rows, NoPlan
  <2>7. QED  BY <2>2, <2>3, <2>4, <2>5, <2>6 DEF Sound
<1>4. QED  BY <1>2, <1>3 DEF IInv

\* What is owed and not recovered fails.
LEMMA FailOrphanedKeeps ==
    ASSUME IInv, FailOrphaned
    PROVE  IInv'
<1>1. TypeOK
  BY DEF IInv
<1>2. TypeOK'
  BY <1>1, Fresh, RecoveryAssumption DEF FailOrphaned, TypeOK, JobPhases, InFlight,
       InFlightStatuses
<1>3. ASSUME NEW k \in Jobs PROVE Sound(k)'
  <2>1. Sound(k)
    BY DEF IInv
  <2>2. TasksSound(k)'
    BY <1>1, <2>1, RecoveryAssumption DEF FailOrphaned, TypeOK, Sound, TasksSound, WaitsSound, At,
         Booting, Draining, NoTask, Task, InFlight, InFlightStatuses
  <2>3. WaitsSound(k)'
    BY <1>1, <2>1, RecoveryAssumption DEF FailOrphaned, TypeOK, Sound, WaitsSound, At, Booting,
         NoTick, InFlight, InFlightStatuses
  <2>4. StampsSound(k)'
    BY <1>1, <2>1, RecoveryAssumption DEF FailOrphaned, TypeOK, Sound, StampsSound, TasksSound,
         At, Recovered, NoTask, Task, InFlight, InFlightStatuses
  <2>5. CountsSound(k)'
    BY <1>1, <2>1, RecoveryAssumption DEF FailOrphaned, TypeOK, Sound, CountsSound, StampsSound,
         TasksSound, Owed, Recovered, Booting, NoTask, Task, InFlight, InFlightStatuses
  <2>6. FlightSound(k)'
    BY <1>1, <2>1, RecoveryAssumption DEF FailOrphaned, TypeOK, Sound, FlightSound, TasksSound,
         At, Booting, InFlight, InFlightStatuses, Recovered, NoTask, Task
  <2>7. QED  BY <2>2, <2>3, <2>4, <2>5, <2>6 DEF Sound
<1>4. QED  BY <1>2, <1>3 DEF IInv

\* Every job left in flight is started, none under a stamp.
LEMMA StartRecoveredKeeps ==
    ASSUME IInv, StartRecovered
    PROVE  IInv'
<1>1. TypeOK
  BY DEF IInv
<1>2. TypeOK'
  BY <1>1, Fresh, RecoveryAssumption DEF StartRecovered, TypeOK, JobPhases, rows, Task, NoTask,
       NoPlan
<1>3. ASSUME NEW k \in Jobs PROVE Sound(k)'
  <2>1. Sound(k)
    BY DEF IInv
  <2>2. TasksSound(k)'
    BY <1>1, <2>1, RecoveryAssumption DEF StartRecovered, TypeOK, Sound, TasksSound, WaitsSound,
         FlightSound, InFlight, InFlightStatuses, Recovered, At, Booting, Draining, NoTask, Task,
         rows, NoPlan
  <2>3. WaitsSound(k)'
    BY <1>1, <2>1, RecoveryAssumption DEF StartRecovered, TypeOK, Sound, WaitsSound, At, Booting,
         NoTick, rows, Task, NoTask, NoPlan
  <2>4. StampsSound(k)'
    BY <1>1, <2>1, RecoveryAssumption DEF StartRecovered, TypeOK, Sound, StampsSound, TasksSound,
         At, Recovered, NoTask, Task, rows, NoPlan
  <2>5. CountsSound(k)'
    BY <1>1, <2>1, RecoveryAssumption DEF StartRecovered, TypeOK, Sound, CountsSound, StampsSound,
         TasksSound, Owed, Recovered, Booting, NoTask, Task, rows, NoPlan
  <2>6. FlightSound(k)'
    BY <1>1, <2>1, RecoveryAssumption DEF StartRecovered, TypeOK, Sound, FlightSound, TasksSound,
         At, Booting, InFlight, InFlightStatuses, Recovered, NoTask, Task, rows, NoPlan
  <2>7. QED  BY <2>2, <2>3, <2>4, <2>5, <2>6 DEF Sound
<1>4. QED  BY <1>2, <1>3 DEF IInv

\* A job is claimed only while it is parked, hence without a stamp.
LEMMA TickClaimKeeps ==
    ASSUME IInv, NEW row \in tick.listed, TickClaim(row)
    PROVE  IInv'
<1> DEFINE j == row.job
<1>1. TypeOK /\ j \in Jobs /\ row = [job |-> j, mode |-> row.mode] /\ Sound(j)
  BY DEF IInv, TypeOK
<1>2. TypeOK'
  BY <1>1 DEF TickClaim, TypeOK, JobPhases, Task, process
<1> DEFINE kind == IF row.mode = "resume" THEN "account" ELSE "start"
<1>3. /\ kind \in {"start", "account"}
      /\ kind = "account" => j \in Resumable
  BY <1>1 DEF TickClaim, Sound, WaitsSound
<1>4. /\ task' = [task EXCEPT ![j] = [pc |-> "created", kind |-> kind]]
      /\ status' = [status EXCEPT ![j] = "running"]
      /\ wait' = [wait EXCEPT ![j] = "none"]
      /\ status[j] = "paused"
      /\ tick'.listed \subseteq tick.listed
      /\ UNCHANGED <<launch, ckpt, stamp, attempts, orch, drained, plan, killed, last, stops>>
  BY <1>1 DEF TickClaim, Task, process, TypeOK
<1>5. ~Booting
  BY <1>1 DEF TickClaim, Sound, WaitsSound, Booting, NoTick, TypeOK
<1> HIDE DEF kind, j
<1>6. ASSUME NEW k \in Jobs PROVE Sound(k)'
  <2>1. Sound(k)
    BY DEF IInv
  <2>2. TasksSound(k)'
    BY <1>1, <1>3, <1>4, <1>5, <2>1 DEF TypeOK, Sound, TasksSound, WaitsSound, At, Booting,
         Draining, NoTask, Task
  <2>3. WaitsSound(k)'
    BY <1>1, <1>3, <1>4, <1>5, <2>1 DEF TypeOK, Sound, WaitsSound, At, Booting, NoTick, Task,
         NoTask
  <2>4. StampsSound(k)'
    BY <1>1, <1>3, <1>4, <1>5, <2>1 DEF TypeOK, Sound, StampsSound, TasksSound, At, Recovered,
         NoTask, Task
  <2>5. CountsSound(k)'
    BY <1>1, <1>3, <1>4, <1>5, <2>1 DEF TypeOK, Sound, CountsSound, StampsSound, TasksSound, Owed,
         Recovered, Booting, NoTask, Task
  <2>6. FlightSound(k)'
    BY <1>1, <1>3, <1>4, <1>5, <2>1 DEF TypeOK, Sound, FlightSound, TasksSound, At, Booting,
         InFlight, InFlightStatuses, Recovered, NoTask, Task
  <2>7. QED  BY <2>2, <2>3, <2>4, <2>5, <2>6 DEF Sound
<1>7. QED  BY <1>2, <1>6 DEF IInv

-----------------------------------------------------------------------------

\* With no job dispatched there is nothing to be unsound.
LEMMA Starts == Init => IInv
<1> SUFFICES ASSUME Init PROVE IInv
  OBVIOUS
<1>1. TypeOK
  BY Fresh, RecoveryAssumption DEF Init, TypeOK
<1>2. ASSUME NEW j \in Jobs PROVE Sound(j)
  BY RecoveryAssumption DEF Init, Sound, TasksSound, WaitsSound, StampsSound, CountsSound, FlightSound,
     At, Booting, Draining, NoTask, Task, NoTick, InFlight, InFlightStatuses
<1>3. QED  BY <1>1, <1>2 DEF IInv

\* Every step of Recovery keeps the inductive invariant.
LEMMA Keeps == IInv /\ [Next]_vars => IInv'
<1> SUFFICES ASSUME IInv, [Next]_vars PROVE IInv'
  OBVIOUS
<1>1. CASE Stop
  BY <1>1, DrainKeeps, MarkKeeps, ExitKeeps, CrashKeeps DEF Stop
<1>2. CASE Boot
  BY <1>2, BootPlanKeeps, TakeBackKeeps, PlanningFailsKeeps, FailOrphanedKeeps, StartRecoveredKeeps
     DEF Boot
<1>3. CASE Tick
  BY <1>3, TickBeginKeeps, TickListKeeps, TickEndKeeps, TickClaimKeeps DEF Tick
<1>4. ASSUME NEW j \in Jobs, Dispatch(j) \/ Work(j) \/ Deadline(j) PROVE IInv'
  BY <1>4, DispatchKeeps, TrackKeeps, RecordLaunchKeeps, DeferKeeps, StartKeeps, NodeKeeps,
     FinishKeeps, ParkKeeps, DeadlineKeeps DEF Work
<1>5. CASE UNCHANGED vars
  BY <1>5 DEF vars, IInv, TypeOK, Sound, TasksSound, WaitsSound, StampsSound, CountsSound, FlightSound,
     Owed, Recovered, At, Booting, Draining, InFlight
<1>6. QED  BY <1>1, <1>2, <1>3, <1>4, <1>5 DEF Next

\* What restart.py, the executor and the account loop keep true of every row.
THEOREM Inductive == Spec => []IInv
BY Starts, Keeps, PTL DEF Spec

(***************************************************************************)
(* The rows, the tasks and the process keep their types.                   *)
(***************************************************************************)
THEOREM TypeCorrect == Spec => []TypeOK
BY Inductive, PTL DEF IInv

(***************************************************************************)
(* MAX_RESUME_ATTEMPTS is kept (plan_recovery with begin_recovery).        *)
(***************************************************************************)
THEOREM AttemptsBounded == Spec => []AttemptsWithinLimit
<1>1. IInv => AttemptsWithinLimit
  BY DEF IInv, Sound, CountsSound, AttemptsWithinLimit
<1>2. QED  BY <1>1, Inductive, PTL

(***************************************************************************)
(* A job takes the process down with it at most MAX_RESUME_ATTEMPTS + 1    *)
(* times, with every drain, boot and account wait in between.              *)
(***************************************************************************)
THEOREM CrashLimit == Spec => []CrashesBounded
<1>1. ASSUME IInv, NEW j \in Jobs PROVE killed[j] <= MaxAttempts + 1
  <2>1. /\ killed[j] \in Nat /\ attempts[j] \in Nat /\ attempts[j] <= MaxAttempts
        /\ killed[j] <= attempts[j] \/ killed[j] = attempts[j] + 1
    BY <1>1 DEF IInv, TypeOK, Sound, CountsSound, Owed
  <2>2. QED  BY <2>1, RecoveryAssumption
<1>2. IInv => CrashesBounded
  BY <1>1 DEF CrashesBounded
<1>3. QED  BY <1>2, Inductive, PTL

(***************************************************************************)
(* MAX_RESUME_ATTEMPTS limits what a row is charged and, one crash more,   *)
(* what its job can do to the process.                                     *)
(***************************************************************************)
THEOREM RetriesLimited == Spec => []RetriesBounded
BY AttemptsBounded, CrashLimit, PTL DEF RetriesBounded

(***************************************************************************)
(* A process that is up has a task for every job in flight                 *)
(* (_start_recovered_jobs after fail_orphaned).                            *)
(***************************************************************************)
THEOREM NobodyStranded == Spec => []InFlightHasTask
<1>1. IInv => InFlightHasTask
  BY DEF IInv, Sound, FlightSound, InFlightHasTask
<1>2. QED  BY <1>1, Inductive, PTL
=============================================================================
