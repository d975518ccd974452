------------------------- MODULE RecoveryCleanProofs -------------------------
(***************************************************************************)
(* What a clean drain promises, proved for every set of jobs and number of *)
(* stops: as long as it falls into none of the short windows of Recovery,  *)
(* it costs no job an attempt and loses none.                              *)
(***************************************************************************)
EXTENDS RecoveryProofs

\* No window is open but the wait of an account resume for its slot.
Closed == Windows \subseteq {"account_queue"} /\ MaxAttempts > 0

\* A job has its launch record from before its task did anything else.
LaunchSound(j) ==
    /\ At(j, "none") => task[j] = NoTask
    /\ At(j, "created") /\ task[j].kind = "account" => status[j] = "running"
    /\ status[j] = "paused" => launch[j]
    /\ ~Booting /\ status[j] \in {"pending", "running"} /\ ~launch[j]
          => task[j].pc \in {"created", "launching"} /\ task[j].kind = "start" /\ status[j] = "pending"
    /\ ckpt[j] \/ wait[j] # "none" => launch[j]
    /\ orch \in {"planned", "taken", "reconciled"} /\ j \in Recovered => launch[j]

\* While a drain is on, the jobs in flight are those it found at work and
\* those dispatched since.
DrainSound(j) ==
    /\ Draining => tick.pc = "idle" /\ ~At(j, "queued")
    /\ Draining /\ task[j].pc \in {"created", "launching", "deferring"} =>
          task[j].kind = "start" /\ status[j] = "pending"
    /\ Draining /\ At(j, "executing") => orch = "draining" /\ j \in drained
    /\ Draining /\ InFlight(j) /\ task[j].kind # "start" => launch[j]
    /\ orch = "draining" /\ InFlight(j) => j \in drained \/ task[j].kind = "start" \/ stamp[j]
    /\ orch = "marked" /\ InFlight(j) => task[j].kind = "start" \/ stamp[j]

\* After a clean stop every job in flight carries the stamp and can go on.
BootSound(j) ==
    /\ orch = "down" /\ last = "clean" /\ InFlight(j) => stamp[j] /\ launch[j]
    /\ orch = "planned" /\ last = "clean" => j \notin plan.counted
    /\ orch \in {"planned", "taken"} /\ last = "clean" /\ InFlight(j) /\ j \in Resumable => j \in Recovered

(***************************************************************************)
(* What is added to IInv, and preserved only with the windows closed: from *)
(* the moment a drain begins, each job in flight is on its list or will    *)
(* stamp itself, and each has a launch record or is about to.              *)
(***************************************************************************)
CInv == \A j \in Jobs : LaunchSound(j) /\ DrainSound(j) /\ BootSound(j)

-----------------------------------------------------------------------------
(* Steps of one job's task.                                                *)

\* A job dispatched in a drain has a task that will stamp it.
LEMMA DispatchClean ==
    ASSUME Closed, IInv, CInv, NEW j \in Jobs, Dispatch(j)
    PROVE  CInv'
<1>1. TypeOK /\ RecoveryAssumption /\ Sound(j) /\ LaunchSound(j) /\ DrainSound(j)
  BY RecoveryAssumption DEF IInv, CInv
<1>2. ASSUME NEW k \in Jobs PROVE (LaunchSound(k) /\ DrainSound(k) /\ BootSound(k))'
  <2>1. Sound(k) /\ LaunchSound(k) /\ DrainSound(k) /\ BootSound(k)
    BY DEF IInv, CInv
  <2>2. LaunchSound(k)'
    BY Closed, <1>1, <2>1 DEF Dispatch, Closed, TypeOK, RecoveryAssumption, Sound, LaunchSound,
       TasksSound, WaitsSound, At, Booting, NoTask, Task, Recovered, Draining, process
  <2>3. DrainSound(k)'
    BY Closed, <1>1, <2>1 DEF Dispatch, Closed, TypeOK, RecoveryAssumption, Sound, DrainSound,
       LaunchSound, TasksSound, FlightSound, WaitsSound, At, Draining, InFlight, InFlightStatuses,
       NoTask, Task, Booting, process
  <2>4. BootSound(k)'
    BY Closed, <1>1, <2>1 DEF Dispatch, Closed, TypeOK, RecoveryAssumption, Sound, BootSound,
       TasksSound, DrainSound, InFlight, InFlightStatuses, Recovered, Booting, Draining, Task,
       process
  <2>5. QED  BY <2>2, <2>3, <2>4
<1>3. QED  BY <1>2 DEF CInv

\* A created task is registered.
LEMMA TrackClean ==
    ASSUME Closed, IInv, CInv, NEW j \in Jobs, Track(j)
    PROVE  CInv'
<1>1. TypeOK /\ RecoveryAssumption /\ Sound(j) /\ LaunchSound(j) /\ DrainSound(j)
  BY RecoveryAssumption DEF IInv, CInv
<1>2. ASSUME NEW k \in Jobs PROVE (LaunchSound(k) /\ DrainSound(k) /\ BootSound(k))'
  <2>1. Sound(k) /\ LaunchSound(k) /\ DrainSound(k) /\ BootSound(k)
    BY DEF IInv, CInv
  <2>2. LaunchSound(k)'
    BY Closed, <1>1, <2>1 DEF Track, Closed, TypeOK, RecoveryAssumption, Sound, LaunchSound,
       TasksSound, WaitsSound, At, Booting, NoTask, Task, Recovered, Goto, rows, process
  <2>3. DrainSound(k)'
    BY Closed, <1>1, <2>1 DEF Track, Closed, TypeOK, RecoveryAssumption, Sound, DrainSound,
       LaunchSound, TasksSound, FlightSound, WaitsSound, At, Draining, InFlight, InFlightStatuses,
       NoTask, Task, Booting, Goto, rows, process
  <2>4. BootSound(k)'
    BY Closed, <1>1, <2>1 DEF Track, Closed, TypeOK, RecoveryAssumption, Sound, BootSound,
       TasksSound, DrainSound, InFlight, InFlightStatuses, Recovered, Booting, At, Goto, rows,
       process
  <2>5. QED  BY <2>2, <2>3, <2>4
<1>3. QED  BY <1>2 DEF CInv

\* The launch is recorded before the task looks at the drain.
LEMMA RecordLaunchClean ==
    ASSUME Closed, IInv, CInv, NEW j \in Jobs, RecordLaunch(j)
    PROVE  CInv'
<1>1. TypeOK /\ RecoveryAssumption /\ Sound(j) /\ LaunchSound(j) /\ DrainSound(j)
  BY RecoveryAssumption DEF IInv, CInv
<1>2. ASSUME NEW k \in Jobs PROVE (LaunchSound(k) /\ DrainSound(k) /\ BootSound(k))'
  <2>1. Sound(k) /\ LaunchSound(k) /\ DrainSound(k) /\ BootSound(k)
    BY DEF IInv, CInv
  <2>2. LaunchSound(k)'
    <3>1. /\ launch[j] \/ task[j].kind = "start"
          /\ launch' = [launch EXCEPT ![j] = launch[j] \/ task[j].kind = "start"]
      BY <1>1 DEF RecordLaunch, TypeOK, Sound, LaunchSound, TasksSound, At, Booting, NoTask, Task
    <3>2. launch' = [launch EXCEPT ![j] = TRUE]
      BY <3>1, Zenon
    <3>3. CASE k = j
      BY <1>1, <2>1, <3>2, <3>3 DEF RecordLaunch, TypeOK, Sound, LaunchSound, TasksSound, At, Booting,
         Goto, NoTask, Task, Recovered, process
    <3>4. CASE k # j
      BY <1>1, <2>1, <3>2, <3>4 DEF RecordLaunch, TypeOK, LaunchSound, At, Booting, Goto, Recovered,
         process
    <3>5. QED  BY <3>3, <3>4
  <2>3. DrainSound(k)'
    BY Closed, <1>1, <2>1 DEF RecordLaunch, Closed, TypeOK, RecoveryAssumption, Sound, DrainSound,
       LaunchSound, TasksSound, FlightSound, WaitsSound, At, Draining, InFlight, InFlightStatuses,
       NoTask, Task, Booting, Goto, process
  <2>4. BootSound(k)'
    BY Closed, <1>1, <2>1 DEF RecordLaunch, Closed, TypeOK, RecoveryAssumption, Sound, BootSound,
       TasksSound, DrainSound, InFlight, InFlightStatuses, Recovered, Booting, At, Goto, Draining,
       process
  <2>5. QED  BY <2>2, <2>3, <2>4
<1>3. QED  BY <1>2 DEF CInv

\* A deferred job stamps itself.
LEMMA DeferClean ==
    ASSUME Closed, IInv, CInv, NEW j \in Jobs, Defer(j)
    PROVE  CInv'
<1>1. TypeOK /\ RecoveryAssumption /\ Sound(j) /\ LaunchSound(j) /\ DrainSound(j)
  BY RecoveryAssumption DEF IInv, CInv
<1>2. ASSUME NEW k \in Jobs PROVE (LaunchSound(k) /\ DrainSound(k) /\ BootSound(k))'
  <2>1. Sound(k) /\ LaunchSound(k) /\ DrainSound(k) /\ BootSound(k)
    BY DEF IInv, CInv
  <2>2. LaunchSound(k)'
    BY Closed, <1>1, <2>1 DEF Defer, Closed, TypeOK, RecoveryAssumption, Sound, LaunchSound,
       TasksSound, WaitsSound, At, Booting, NoTask, Task, Recovered, End, InFlight,
       InFlightStatuses, process
  <2>3. DrainSound(k)'
    BY Closed, <1>1, <2>1 DEF Defer, Closed, TypeOK, RecoveryAssumption, Sound, DrainSound,
       LaunchSound, TasksSound, FlightSound, WaitsSound, At, Draining, InFlight, InFlightStatuses,
       NoTask, Task, Booting, End, process
  <2>4. BootSound(k)'
    BY Closed, <1>1, <2>1 DEF Defer, Closed, TypeOK, RecoveryAssumption, Sound, BootSound,
       TasksSound, DrainSound, InFlight, InFlightStatuses, Recovered, Booting, At, End, NoTask,
       Task, process
  <2>5. QED  BY <2>2, <2>3, <2>4
<1>3. QED  BY <1>2 DEF CInv

\* While a drain is on no task is left to start.
LEMMA StartClean ==
    ASSUME Closed, IInv, CInv, NEW j \in Jobs, Start(j)
    PROVE  CInv'
<1>1. TypeOK /\ RecoveryAssumption /\ Sound(j) /\ LaunchSound(j) /\ DrainSound(j)
  BY RecoveryAssumption DEF IInv, CInv
<1>2. ASSUME NEW k \in Jobs PROVE (LaunchSound(k) /\ DrainSound(k) /\ BootSound(k))'
  <2>1. Sound(k) /\ LaunchSound(k) /\ DrainSound(k) /\ BootSound(k)
    BY DEF IInv, CInv
  <2>2. LaunchSound(k)'
    BY Closed, <1>1, <2>1 DEF Start, Closed, TypeOK, RecoveryAssumption, Sound, LaunchSound,
       TasksSound, WaitsSound, At, Booting, NoTask, Task, Recovered, Goto, End, Draining, process
  <2>3. DrainSound(k)'
    BY Closed, <1>1, <2>1 DEF Start, Closed, TypeOK, RecoveryAssumption, Sound, DrainSound,
       LaunchSound, TasksSound, FlightSound, WaitsSound, At, Draining, InFlight, InFlightStatuses,
       NoTask, Task, Booting, Goto, End, process
  <2>4. BootSound(k)'
    BY Closed, <1>1, <2>1 DEF Start, Closed, TypeOK, RecoveryAssumption, Sound, BootSound,
       TasksSound, DrainSound, InFlight, InFlightStatuses, Recovered, Booting, At, Goto, End,
       NoTask, Task, Draining, process
  <2>5. QED  BY <2>2, <2>3, <2>4
<1>3. QED  BY <1>2 DEF CInv

\* A run that leaves at a node boundary is on the list of the drain.
LEMMA NodeClean ==
    ASSUME Closed, IInv, CInv, NEW j \in Jobs, Node(j)
    PROVE  CInv'
<1>1. TypeOK /\ RecoveryAssumption /\ Sound(j) /\ LaunchSound(j) /\ DrainSound(j)
  BY RecoveryAssumption DEF IInv, CInv
<1>2. ASSUME NEW k \in Jobs PROVE (LaunchSound(k) /\ DrainSound(k) /\ BootSound(k))'
  <2>1. Sound(k) /\ LaunchSound(k) /\ DrainSound(k) /\ BootSound(k)
    BY DEF IInv, CInv
  <2>2. LaunchSound(k)'
    BY Closed, <1>1, <2>1 DEF Node, Closed, TypeOK, RecoveryAssumption, Sound, LaunchSound,
       TasksSound, WaitsSound, At, Booting, NoTask, Task, Recovered, End, Draining, process
  <2>3. DrainSound(k)'
    BY Closed, <1>1, <2>1 DEF Node, Closed, TypeOK, RecoveryAssumption, Sound, DrainSound,
       LaunchSound, TasksSound, FlightSound, WaitsSound, At, Draining, InFlight, InFlightStatuses,
       NoTask, Task, Booting, End, process
  <2>4. BootSound(k)'
    BY Closed, <1>1, <2>1 DEF Node, Closed, TypeOK, RecoveryAssumption, Sound, BootSound,
       TasksSound, DrainSound, InFlight, InFlightStatuses, Recovered, Booting, At, End, NoTask,
       Task, Draining, process
  <2>5. QED  BY <2>2, <2>3, <2>4
<1>3. QED  BY <1>2 DEF CInv

\* The end of a run.
LEMMA FinishClean ==
    ASSUME Closed, IInv, CInv, NEW j \in Jobs, Finish(j)
    PROVE  CInv'
<1>1. TypeOK /\ RecoveryAssumption /\ Sound(j) /\ LaunchSound(j) /\ DrainSound(j)
  BY RecoveryAssumption DEF IInv, CInv
<1>2. ASSUME NEW k \in Jobs PROVE (LaunchSound(k) /\ DrainSound(k) /\ BootSound(k))'
  <2>1. Sound(k) /\ LaunchSound(k) /\ DrainSound(k) /\ BootSound(k)
    BY DEF IInv, CInv
  <2>2. LaunchSound(k)'
    BY Closed, <1>1, <2>1 DEF Finish, Closed, TypeOK, RecoveryAssumption, Sound, LaunchSound,
       TasksSound, WaitsSound, At, Booting, NoTask, Task, Recovered, End, process
  <2>3. DrainSound(k)'
    BY Closed, <1>1, <2>1 DEF Finish, Closed, TypeOK, RecoveryAssumption, Sound, DrainSound,
       LaunchSound, TasksSound, FlightSound, WaitsSound, At, Draining, InFlight, InFlightStatuses,
       NoTask, Task, Booting, End, process
  <2>4. BootSound(k)'
    BY Closed, <1>1, <2>1 DEF Finish, Closed, TypeOK, RecoveryAssumption, Sound, BootSound,
       TasksSound, DrainSound, InFlight, InFlightStatuses, Recovered, Booting, At, End, NoTask,
       Task, process
  <2>5. QED  BY <2>2, <2>3, <2>4
<1>3. QED  BY <1>2 DEF CInv

\* A parked job has its launch record.
LEMMA ParkClean ==
    ASSUME Closed, IInv, CInv, NEW j \in Jobs, Park(j)
    PROVE  CInv'
<1>1. TypeOK /\ RecoveryAssumption /\ Sound(j) /\ LaunchSound(j) /\ DrainSound(j)
  BY RecoveryAssumption DEF IInv, CInv
<1>2. ASSUME NEW k \in Jobs PROVE (LaunchSound(k) /\ DrainSound(k) /\ BootSound(k))'
  <2>1. Sound(k) /\ LaunchSound(k) /\ DrainSound(k) /\ BootSound(k)
    BY DEF IInv, CInv
  <2>2. LaunchSound(k)'
    BY Closed, <1>1, <2>1 DEF Park, Closed, TypeOK, RecoveryAssumption, Sound, LaunchSound,
       TasksSound, WaitsSound, At, Booting, NoTask, Task, Recovered, End, process
  <2>3. DrainSound(k)'
    BY Closed, <1>1, <2>1 DEF Park, Closed, TypeOK, RecoveryAssumption, Sound, DrainSound,
       LaunchSound, TasksSound, FlightSound, WaitsSound, At, Draining, InFlight, InFlightStatuses,
       NoTask, Task, Booting, End, process
  <2>4. BootSound(k)'
    BY Closed, <1>1, <2>1 DEF Park, Closed, TypeOK, RecoveryAssumption, Sound, BootSound,
       TasksSound, DrainSound, InFlight, InFlightStatuses, Recovered, Booting, At, End, NoTask,
       Task, process
  <2>5. QED  BY <2>2, <2>3, <2>4
<1>3. QED  BY <1>2 DEF CInv

\* A job cancelled at the deadline is on the list of the drain.
LEMMA DeadlineClean ==
    ASSUME Closed, IInv, CInv, NEW j \in Jobs, Deadline(j)
    PROVE  CInv'
<1>1. TypeOK /\ RecoveryAssumption /\ Sound(j) /\ LaunchSound(j) /\ DrainSound(j)
  BY RecoveryAssumption DEF IInv, CInv
<1>2. ASSUME NEW k \in Jobs PROVE (LaunchSound(k) /\ DrainSound(k) /\ BootSound(k))'
  <2>1. Sound(k) /\ LaunchSound(k) /\ DrainSound(k) /\ BootSound(k)
    BY DEF IInv, CInv
  <2>2. LaunchSound(k)'
    BY Closed, <1>1, <2>1 DEF Deadline, Closed, TypeOK, RecoveryAssumption, Sound, LaunchSound,
       TasksSound, WaitsSound, At, Booting, NoTask, Task, Recovered, End, rows, process
  <2>3. DrainSound(k)'
    BY Closed, <1>1, <2>1 DEF Deadline, Closed, TypeOK, RecoveryAssumption, Sound, DrainSound,
       LaunchSound, TasksSound, FlightSound, WaitsSound, At, Draining, InFlight, InFlightStatuses,
       NoTask, Task, Booting, End, rows, process
  <2>4. BootSound(k)'
    BY Closed, <1>1, <2>1 DEF Deadline, Closed, TypeOK, RecoveryAssumption, Sound, BootSound,
       TasksSound, DrainSound, InFlight, InFlightStatuses, Recovered, Booting, At, End, NoTask,
       Task, rows, process
  <2>5. QED  BY <2>2, <2>3, <2>4
<1>3. QED  BY <1>2 DEF CInv

-----------------------------------------------------------------------------
(* Steps of the account-wait loop and of the process.                      *)

\* No pass begins in a drain.
LEMMA TickBeginClean ==
    ASSUME Closed, IInv, CInv, TickBegin
    PROVE  CInv'
<1>1. TypeOK /\ RecoveryAssumption
  BY RecoveryAssumption DEF IInv, CInv
<1>2. ASSUME NEW k \in Jobs PROVE (LaunchSound(k) /\ DrainSound(k) /\ BootSound(k))'
  <2>1. Sound(k) /\ LaunchSound(k) /\ DrainSound(k) /\ BootSound(k)
    BY DEF IInv, CInv
  <2>2. LaunchSound(k)'
    BY Closed, <1>1, <2>1 DEF TickBegin, Closed, TypeOK, RecoveryAssumption, Sound, LaunchSound,
       TasksSound, WaitsSound, At, Booting, NoTask, Task, Recovered, rows, process, Draining,
       NoTick
  <2>3. DrainSound(k)'
    BY Closed, <1>1, <2>1 DEF TickBegin, Closed, TypeOK, RecoveryAssumption, Sound, DrainSound,
       LaunchSound, TasksSound, FlightSound, WaitsSound, At, Draining, InFlight, InFlightStatuses,
       NoTask, Task, Booting, rows, process, NoTick
  <2>4. BootSound(k)'
    BY Closed, <1>1, <2>1 DEF TickBegin, Closed, TypeOK, RecoveryAssumption, Sound, BootSound,
       TasksSound, DrainSound, InFlight, InFlightStatuses, Recovered, Booting, rows, process,
       Draining, NoTick
  <2>5. QED  BY <2>2, <2>3, <2>4
<1>3. QED  BY <1>2 DEF CInv

\* No pass is under way in a drain.
LEMMA TickListClean ==
    ASSUME Closed, IInv, CInv, TickList
    PROVE  CInv'
<1>1. TypeOK /\ RecoveryAssumption
  BY RecoveryAssumption DEF IInv, CInv
<1>2. ASSUME NEW k \in Jobs PROVE (LaunchSound(k) /\ DrainSound(k) /\ BootSound(k))'
  <2>1. Sound(k) /\ LaunchSound(k) /\ DrainSound(k) /\ BootSound(k)
    BY DEF IInv, CInv
  <2>2. LaunchSound(k)'
    BY Closed, <1>1, <2>1 DEF TickList, Closed, TypeOK, RecoveryAssumption, Sound, LaunchSound,
       TasksSound, WaitsSound, At, Booting, NoTask, Task, Recovered, rows, process, Draining,
       NoTick
  <2>3. DrainSound(k)'
    BY Closed, <1>1, <2>1 DEF TickList, Closed, TypeOK, RecoveryAssumption, Sound, DrainSound,
       LaunchSound, TasksSound, FlightSound, WaitsSound, At, Draining, InFlight, InFlightStatuses,
       NoTask, Task, Booting, rows, process, NoTick
  <2>4. BootSound(k)'
    BY Closed, <1>1, <2>1 DEF TickList, Closed, TypeOK, RecoveryAssumption, Sound, BootSound,
       TasksSound, DrainSound, InFlight, InFlightStatuses, Recovered, Booting, rows, process,
       Draining, NoTick
  <2>5. QED  BY <2>2, <2>3, <2>4
<1>3. QED  BY <1>2 DEF CInv

\* The pass ends.
LEMMA TickEndClean ==
    ASSUME Closed, IInv, CInv, TickEnd
    PROVE  CInv'
<1>1. TypeOK /\ RecoveryAssumption
  BY RecoveryAssumption DEF IInv, CInv
<1>2. ASSUME NEW k \in Jobs PROVE (LaunchSound(k) /\ DrainSound(k) /\ BootSound(k))'
  <2>1. Sound(k) /\ LaunchSound(k) /\ DrainSound(k) /\ BootSound(k)
    BY DEF IInv, CInv
  <2>2. LaunchSound(k)'
    BY Closed, <1>1, <2>1 DEF TickEnd, Closed, TypeOK, RecoveryAssumption, Sound, LaunchSound,
       TasksSound, WaitsSound, At, Booting, NoTask, Task, Recovered, rows, process, NoTick
  <2>3. DrainSound(k)'
    BY Closed, <1>1, <2>1 DEF TickEnd, Closed, TypeOK, RecoveryAssumption, Sound, DrainSound,
       LaunchSound, TasksSound, FlightSound, WaitsSound, At, Draining, InFlight, InFlightStatuses,
       NoTask, Task, Booting, rows, process, NoTick
  <2>4. BootSound(k)'
    BY Closed, <1>1, <2>1 DEF TickEnd, Closed, TypeOK, RecoveryAssumption, Sound, BootSound,
       TasksSound, DrainSound, InFlight, InFlightStatuses, Recovered, Booting, rows, process,
       NoTick
  <2>5. QED  BY <2>2, <2>3, <2>4
<1>3. QED  BY <1>2 DEF CInv

\* Every job in flight has a task; those not created yet are on the list.
LEMMA DrainClean ==
    ASSUME Closed, IInv, CInv, Drain
    PROVE  CInv'
<1>1. TypeOK /\ RecoveryAssumption
  BY RecoveryAssumption DEF IInv, CInv
<1>2. ASSUME NEW k \in Jobs PROVE (LaunchSound(k) /\ DrainSound(k) /\ BootSound(k))'
  <2>1. Sound(k) /\ LaunchSound(k) /\ DrainSound(k) /\ BootSound(k)
    BY DEF IInv, CInv
  <2>2. LaunchSound(k)'
    BY Closed, <1>1, <2>1 DEF Drain, Closed, TypeOK, RecoveryAssumption, Sound, LaunchSound,
       TasksSound, WaitsSound, At, Booting, NoTask, Task, Recovered, NotStarted, StatusOnCancel,
       Claimed, InFlight, InFlightStatuses, Draining
  <2>3. DrainSound(k)'
    BY Closed, <1>1, <2>1 DEF Drain, Closed, TypeOK, RecoveryAssumption, Sound, DrainSound,
       LaunchSound, TasksSound, FlightSound, WaitsSound, At, Draining, InFlight, InFlightStatuses,
       NoTask, Task, Booting, NotStarted, StatusOnCancel, Claimed
  <2>4. BootSound(k)'
    BY Closed, <1>1, <2>1 DEF Drain, Closed, TypeOK, RecoveryAssumption, Sound, BootSound,
       TasksSound, DrainSound, InFlight, InFlightStatuses, Recovered, Booting, NotStarted,
       StatusOnCancel, Claimed, At, Task, NoTask, Draining
  <2>5. QED  BY <2>2, <2>3, <2>4
<1>3. QED  BY <1>2 DEF CInv

\* The jobs in flight are stamped, or will stamp themselves.
LEMMA MarkClean ==
    ASSUME Closed, IInv, CInv, Mark
    PROVE  CInv'
<1>1. TypeOK /\ RecoveryAssumption
  BY RecoveryAssumption DEF IInv, CInv
<1>2. ASSUME NEW k \in Jobs PROVE (LaunchSound(k) /\ DrainSound(k) /\ BootSound(k))'
  <2>1. Sound(k) /\ LaunchSound(k) /\ DrainSound(k) /\ BootSound(k)
    BY DEF IInv, CInv
  <2>2. LaunchSound(k)'
    BY Closed, <1>1, <2>1 DEF Mark, Closed, TypeOK, RecoveryAssumption, Sound, LaunchSound,
       TasksSound, WaitsSound, At, Booting, NoTask, Task, Recovered, InFlight, InFlightStatuses,
       Draining
  <2>3. DrainSound(k)'
    BY Closed, <1>1, <2>1 DEF Mark, Closed, TypeOK, RecoveryAssumption, Sound, DrainSound,
       LaunchSound, TasksSound, FlightSound, WaitsSound, At, Draining, InFlight, InFlightStatuses,
       NoTask, Task, Booting
  <2>4. BootSound(k)'
    BY Closed, <1>1, <2>1 DEF Mark, Closed, TypeOK, RecoveryAssumption, Sound, BootSound,
       TasksSound, DrainSound, InFlight, InFlightStatuses, Recovered, Booting, At, Draining
  <2>5. QED  BY <2>2, <2>3, <2>4
<1>3. QED  BY <1>2 DEF CInv

\* No task is left to stamp its job.
LEMMA ExitClean ==
    ASSUME Closed, IInv, CInv, Exit
    PROVE  CInv'
<1>1. TypeOK /\ RecoveryAssumption
  BY RecoveryAssumption DEF IInv, CInv
<1>2. ASSUME NEW k \in Jobs PROVE (LaunchSound(k) /\ DrainSound(k) /\ BootSound(k))'
  <2>1. Sound(k) /\ LaunchSound(k) /\ DrainSound(k) /\ BootSound(k)
    BY DEF IInv, CInv
  <2>2. LaunchSound(k)'
    BY Closed, <1>1, <2>1 DEF Exit, Closed, TypeOK, RecoveryAssumption, Sound, LaunchSound,
       TasksSound, WaitsSound, At, Booting, NoTask, Task, Recovered, Down, NoTick, NoPlan,
       StatusOnCancel, InFlight, InFlightStatuses, Draining
  <2>3. DrainSound(k)'
    BY Closed, <1>1, <2>1 DEF Exit, Closed, TypeOK, RecoveryAssumption, Sound, DrainSound,
       LaunchSound, TasksSound, FlightSound, WaitsSound, At, Draining, InFlight, InFlightStatuses,
       NoTask, Task, Booting, Down, NoTick, NoPlan, StatusOnCancel
  <2>4. BootSound(k)'
    BY Closed, <1>1, <2>1 DEF Exit, Closed, TypeOK, RecoveryAssumption, Sound, BootSound,
       TasksSound, DrainSound, InFlight, InFlightStatuses, Recovered, Booting, Down, NoTick,
       NoPlan, StatusOnCancel, Task, NoTask, Draining
  <2>5. QED  BY <2>2, <2>3, <2>4
<1>3. QED  BY <1>2 DEF CInv

\* A crash is no clean stop.
LEMMA CrashClean ==
    ASSUME Closed, IInv, CInv, Crash
    PROVE  CInv'
<1>1. TypeOK /\ RecoveryAssumption
  BY RecoveryAssumption DEF IInv, CInv
<1>2. ASSUME NEW k \in Jobs PROVE (LaunchSound(k) /\ DrainSound(k) /\ BootSound(k))'
  <2>1. Sound(k) /\ LaunchSound(k) /\ DrainSound(k) /\ BootSound(k)
    BY DEF IInv, CInv
  <2>2. LaunchSound(k)'
    BY Closed, <1>1, <2>1 DEF Crash, Closed, TypeOK, RecoveryAssumption, Sound, LaunchSound,
       TasksSound, WaitsSound, At, Booting, NoTask, Task, Recovered, Down, NoTick, NoPlan
  <2>3. DrainSound(k)'
    BY Closed, <1>1, <2>1 DEF Crash, Closed, TypeOK, RecoveryAssumption, Sound, DrainSound,
       LaunchSound, TasksSound, FlightSound, WaitsSound, At, Draining, InFlight, InFlightStatuses,
       NoTask, Task, Booting, Down, NoTick, NoPlan
  <2>4. BootSound(k)'
    BY Closed, <1>1, <2>1 DEF Crash, Closed, TypeOK, RecoveryAssumption, Sound, BootSound,
       TasksSound, DrainSound, InFlight, InFlightStatuses, Recovered, Booting, Down, NoTick,
       NoPlan, At, NoTask, Task
  <2>5. QED  BY <2>2, <2>3, <2>4
<1>3. QED  BY <1>2 DEF CInv

\* A stamped job is neither exhausted nor counted, and one with a launch record can go on.
LEMMA BootPlanClean ==
    ASSUME Closed, IInv, CInv, BootPlan
    PROVE  CInv'
<1>1. TypeOK /\ RecoveryAssumption
  BY RecoveryAssumption DEF IInv, CInv
<1>2. ASSUME NEW k \in Jobs PROVE (LaunchSound(k) /\ DrainSound(k) /\ BootSound(k))'
  <2>1. Sound(k) /\ LaunchSound(k) /\ DrainSound(k) /\ BootSound(k)
    BY DEF IInv, CInv
  <2>2. LaunchSound(k)'
    BY Closed, <1>1, <2>1 DEF BootPlan, Closed, TypeOK, RecoveryAssumption, Sound, LaunchSound,
       TasksSound, WaitsSound, At, Booting, NoTask, Task, Recovered, PlanRecovery, Exhausted,
       CanResume, CanRelaunch, Begun, InFlight, InFlightStatuses
  <2>3. DrainSound(k)'
    BY Closed, <1>1, <2>1 DEF BootPlan, Closed, TypeOK, RecoveryAssumption, Sound, DrainSound,
       LaunchSound, TasksSound, FlightSound, WaitsSound, At, Draining, InFlight, InFlightStatuses,
       NoTask, Task, Booting, PlanRecovery, Exhausted, CanResume, CanRelaunch, Begun, Recovered
  <2>4. BootSound(k)'
    BY Closed, <1>1, <2>1 DEF BootPlan, Closed, TypeOK, RecoveryAssumption, Sound, BootSound,
       TasksSound, DrainSound, InFlight, InFlightStatuses, Recovered, Booting, PlanRecovery,
       Exhausted, CanResume, CanRelaunch, Begun
  <2>5. QED  BY <2>2, <2>3, <2>4
<1>3. QED  BY <1>2 DEF CInv

\* What was planned is taken back.
LEMMA TakeBackClean ==
    ASSUME Closed, IInv, CInv, TakeBack
    PROVE  CInv'
<1>1. TypeOK /\ RecoveryAssumption
  BY RecoveryAssumption DEF IInv, CInv
<1>2. ASSUME NEW k \in Jobs PROVE (LaunchSound(k) /\ DrainSound(k) /\ BootSound(k))'
  <2>1. Sound(k) /\ LaunchSound(k) /\ DrainSound(k) /\ BootSound(k)
    BY DEF IInv, CInv
  <2>2. LaunchSound(k)'
    BY Closed, <1>1, <2>1 DEF TakeBack, Closed, TypeOK, RecoveryAssumption, Sound, LaunchSound,
       TasksSound, WaitsSound, At, Booting, NoTask, Task, Recovered
  <2>3. DrainSound(k)'
    BY Closed, <1>1, <2>1 DEF TakeBack, Closed, TypeOK, RecoveryAssumption, Sound, DrainSound,
       LaunchSound, TasksSound, FlightSound, WaitsSound, At, Draining, InFlight, InFlightStatuses,
       NoTask, Task, Booting, Recovered
  <2>4. BootSound(k)'
    BY Closed, <1>1, <2>1 DEF TakeBack, Closed, TypeOK, RecoveryAssumption, Sound, BootSound,
       TasksSound, DrainSound, InFlight, InFlightStatuses, Recovered, Booting
  <2>5. QED  BY <2>2, <2>3, <2>4
<1>3. QED  BY <1>2 DEF CInv

\* The jobs in flight are left as they are.
LEMMA FailOrphanedClean ==
    ASSUME Closed, IInv, CInv, FailOrphaned
    PROVE  CInv'
<1>1. TypeOK /\ RecoveryAssumption
  BY RecoveryAssumption DEF IInv, CInv
<1>2. ASSUME NEW k \in Jobs PROVE (LaunchSound(k) /\ DrainSound(k) /\ BootSound(k))'
  <2>1. Sound(k) /\ LaunchSound(k) /\ DrainSound(k) /\ BootSound(k)
    BY DEF IInv, CInv
  <2>2. LaunchSound(k)'
    BY Closed, <1>1, <2>1 DEF FailOrphaned, Closed, TypeOK, RecoveryAssumption, Sound,
       LaunchSound, TasksSound, WaitsSound, At, Booting, NoTask, Task, Recovered, InFlight,
       InFlightStatuses
  <2>3. DrainSound(k)'
    BY Closed, <1>1, <2>1 DEF FailOrphaned, Closed, TypeOK, RecoveryAssumption, Sound, DrainSound,
       LaunchSound, TasksSound, FlightSound, WaitsSound, At, Draining, InFlight, InFlightStatuses,
       NoTask, Task, Booting, Recovered
  <2>4. BootSound(k)'
    BY Closed, <1>1, <2>1 DEF FailOrphaned, Closed, TypeOK, RecoveryAssumption, Sound, BootSound,
       TasksSound, DrainSound, InFlight, InFlightStatuses, Recovered, Booting
  <2>5. QED  BY <2>2, <2>3, <2>4
<1>3. QED  BY <1>2 DEF CInv

\* The jobs started have their launch records.
LEMMA StartRecoveredClean ==
    ASSUME Closed, IInv, CInv, StartRecovered
    PROVE  CInv'
<1>1. TypeOK /\ RecoveryAssumption
  BY RecoveryAssumption DEF IInv, CInv
<1>2. ASSUME NEW k \in Jobs PROVE (LaunchSound(k) /\ DrainSound(k) /\ BootSound(k))'
  <2>1. Sound(k) /\ LaunchSound(k) /\ DrainSound(k) /\ BootSound(k)
    BY DEF IInv, CInv
  <2>2. LaunchSound(k)'
    BY Closed, <1>1, <2>1 DEF StartRecovered, Closed, TypeOK, RecoveryAssumption, Sound,
       LaunchSound, TasksSound, WaitsSound, FlightSound, At, Booting, NoTask, Task, Recovered, rows, NoPlan,
       InFlight, InFlightStatuses
  <2>3. DrainSound(k)'
    BY Closed, <1>1, <2>1 DEF StartRecovered, Closed, TypeOK, RecoveryAssumption, Sound,
       DrainSound, LaunchSound, TasksSound, FlightSound, WaitsSound, At, Draining, InFlight,
       InFlightStatuses, NoTask, Task, Booting, rows, NoPlan, Recovered
  <2>4. BootSound(k)'
    BY Closed, <1>1, <2>1 DEF StartRecovered, Closed, TypeOK, RecoveryAssumption, Sound,
       BootSound, TasksSound, DrainSound, InFlight, InFlightStatuses, Recovered, Booting, rows,
       Task, NoTask, NoPlan
  <2>5. QED  BY <2>2, <2>3, <2>4
<1>3. QED  BY <1>2 DEF CInv

\* No job is claimed in a drain, and a claimed one has its launch record.
LEMMA TickClaimClean ==
    ASSUME Closed, IInv, CInv, NEW row \in tick.listed, TickClaim(row)
    PROVE  CInv'
<1> DEFINE j == row.job
           kind == IF row.mode = "resume" THEN "account" ELSE "start"
<1>1. TypeOK /\ j \in Jobs /\ Sound(j) /\ LaunchSound(j) /\ DrainSound(j)
  BY DEF IInv, CInv, TypeOK
<1>2. /\ task' = [task EXCEPT ![j] = [pc |-> "created", kind |-> kind]]
      /\ kind \in {"start", "account"}
      /\ status' = [status EXCEPT ![j] = "running"]
      /\ wait' = [wait EXCEPT ![j] = "none"]
      /\ status[j] = "paused"
      /\ tick'.pc = tick.pc
      /\ UNCHANGED <<launch, ckpt, stamp, attempts, orch, drained, plan, killed, last, stops>>
  BY <1>1 DEF TickClaim, Task, process, TypeOK
<1>3. ~Booting /\ ~Draining /\ launch[j]
  BY <1>1 DEF TickClaim, Sound, WaitsSound, LaunchSound, DrainSound, Booting, NoTick, TypeOK
<1> HIDE DEF kind, j
<1>4. ASSUME NEW k \in Jobs PROVE (LaunchSound(k) /\ DrainSound(k) /\ BootSound(k))'
  <2>1. Sound(k) /\ LaunchSound(k) /\ DrainSound(k) /\ BootSound(k)
    BY DEF IInv, CInv
  <2>2. LaunchSound(k)'
    BY <1>1, <1>2, <1>3, <2>1 DEF TypeOK, LaunchSound, At, Booting, Recovered, NoTask, Task
  <2>3. DrainSound(k)'
    BY <1>1, <1>2, <1>3, <2>1 DEF TypeOK, DrainSound, Draining
  <2>4. BootSound(k)'
    BY <1>1, <1>2, <1>3, <2>1 DEF TypeOK, BootSound, Booting
  <2>5. QED  BY <2>2, <2>3, <2>4
<1>5. QED  BY <1>4 DEF CInv

-----------------------------------------------------------------------------

\* A process that has just started has no job in flight.
LEMMA StartsClean == Init => CInv
BY RecoveryAssumption DEF Init, CInv, LaunchSound, DrainSound, BootSound, At, Booting, Draining, NoTask,
   Task, NoTick, InFlight, InFlightStatuses

\* Every step of Recovery outside the closed windows keeps CInv.
LEMMA KeepsClean == Closed /\ IInv /\ CInv /\ [Next]_vars => CInv'
<1> SUFFICES ASSUME Closed, IInv, CInv, [Next]_vars PROVE CInv'
  OBVIOUS
<1>1. CASE Stop
  BY <1>1, DrainClean, MarkClean, ExitClean, CrashClean DEF Stop
<1>2. CASE Boot
  <2>1. ~PlanningFails
    BY DEF PlanningFails, Closed
  <2>2. QED
    BY <1>2, <2>1, BootPlanClean, TakeBackClean, FailOrphanedClean, StartRecoveredClean DEF Boot
<1>3. CASE Tick
  BY <1>3, TickBeginClean, TickListClean, TickEndClean, TickClaimClean DEF Tick
<1>4. ASSUME NEW j \in Jobs, Dispatch(j) \/ Work(j) \/ Deadline(j) PROVE CInv'
  BY <1>4, DispatchClean, TrackClean, RecordLaunchClean, DeferClean, StartClean, NodeClean,
     FinishClean, ParkClean, DeadlineClean DEF Work
<1>5. CASE UNCHANGED vars
  BY <1>5 DEF vars, CInv, LaunchSound, DrainSound, BootSound, Recovered, At, Booting, Draining, InFlight
<1>6. QED  BY <1>1, <1>2, <1>3, <1>4, <1>5 DEF Next

\* From the moment a drain begins, every job in flight is listed or stamps
\* itself, and boot finds what it needs to go on with it.
THEOREM InductiveClean == Closed /\ Spec => []CInv
<1> SUFFICES ASSUME Closed PROVE Spec => []CInv
  OBVIOUS
<1>1. IInv /\ CInv /\ [Next]_vars => CInv'
  BY KeepsClean
<1>2. QED  BY <1>1, StartsClean, Inductive, PTL DEF Spec

(***************************************************************************)
(* A recovery after a clean drain costs no attempt (mark_interrupted and   *)
(* _defer_for_shutdown reach every job in flight).                         *)
(***************************************************************************)
THEOREM CleanStopsFree == Closed /\ Spec => CleanStopFree
<1>1. IInv /\ CInv /\ [Next]_vars => (last = "clean" => attempts' = attempts) \/ UNCHANGED vars
  <2> SUFFICES ASSUME IInv, CInv, Next, last = "clean" PROVE attempts' = attempts
    BY DEF vars
  <2>1. CASE TakeBack
    <3>1. attempts' = [j \in Jobs |-> attempts[j]]
      BY <2>1 DEF TakeBack, CInv, BootSound
    <3>2. QED  BY <3>1 DEF IInv, TypeOK
  <2>2. CASE Stop
    BY <2>2 DEF Stop, Drain, Mark, Exit, Crash, Down
  <2>3. CASE Boot /\ ~TakeBack
    BY <2>3 DEF Boot, BootPlan, PlanningFails, FailOrphaned, StartRecovered, rows
  <2>4. CASE Tick
    BY <2>4 DEF Tick, TickBegin, TickList, TickEnd, TickClaim, rows
  <2>5. ASSUME NEW j \in Jobs, Dispatch(j) \/ Work(j) \/ Deadline(j) PROVE attempts' = attempts
    BY <2>5 DEF Work, Dispatch, Track, RecordLaunch, Defer, Start, Node, Finish, Park, Deadline, rows
  <2>6. QED  BY <2>1, <2>2, <2>3, <2>4, <2>5 DEF Next
<1>2. QED  BY <1>1, Inductive, InductiveClean, PTL DEF Spec, CleanStopFree

(***************************************************************************)
(* The boot after a clean drain fails no job of a resumable pipeline.      *)
(***************************************************************************)
THEOREM DrainsLoseNothing == Closed /\ Spec => DrainLosesNothing
<1> SUFFICES ASSUME Closed PROVE Spec => DrainLosesNothing
  OBVIOUS
<1> DEFINE Kept == last = "clean" /\ orch \in {"down", "planned", "taken"} =>
                      \A j \in Resumable : InFlight(j) => status'[j] # "failed"
<1>1. IInv /\ CInv /\ [Next]_vars => Kept \/ UNCHANGED vars
  <2> SUFFICES ASSUME IInv, CInv, Next, last = "clean", orch \in {"down", "planned", "taken"},
                      NEW j \in Resumable, InFlight(j)
               PROVE  status'[j] # "failed"
    BY DEF vars
  <2>1. TypeOK /\ j \in Jobs /\ Sound(j) /\ BootSound(j) /\ status[j] # "failed"
    BY RecoveryAssumption DEF IInv, CInv, RecoveryAssumption, InFlight, InFlightStatuses
  <2>2. CASE Stop
    BY <2>1, <2>2 DEF Stop, Drain, Mark, Exit, Crash
  <2>3. CASE BootPlan
    BY <2>1, <2>3 DEF BootPlan, BootSound, Exhausted
  <2>4. CASE FailOrphaned
    BY <2>1, <2>4 DEF FailOrphaned, BootSound, InFlight
  <2>5. CASE TakeBack \/ PlanningFails \/ StartRecovered
    BY <2>1, <2>5 DEF TakeBack, PlanningFails, StartRecovered, rows
  <2>6. CASE Tick
    BY <2>1, <2>6 DEF Tick, TickBegin, TickList, TickEnd, TickClaim, Sound, WaitsSound, Booting, NoTick,
       rows
  <2>7. ASSUME NEW i \in Jobs, Dispatch(i) \/ Work(i) \/ Deadline(i) PROVE status'[j] # "failed"
    <3>1. task[i] = NoTask
      BY DEF IInv, Sound, TasksSound, Booting
    <3>2. QED
      BY <3>1, <2>7 DEF Work, Dispatch, Track, RecordLaunch, Defer, Start, Node, Finish, Park, Deadline,
         Draining, At, NoTask, Task
  <2>8. QED  BY <2>2, <2>3, <2>4, <2>5, <2>6, <2>7 DEF Next, Boot
<1>2. QED  BY <1>1, Inductive, InductiveClean, PTL DEF Spec, DrainLosesNothing, Kept

(***************************************************************************)
(* A drain that ends in time costs no job an attempt, nor its life.        *)
(***************************************************************************)
THEOREM CleanDrainsFree == Closed /\ Spec => CleanDrainFree
BY CleanStopsFree, DrainsLoseNothing DEF CleanDrainFree
=============================================================================
