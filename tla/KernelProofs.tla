---------------------------- MODULE KernelProofs ----------------------------
(***************************************************************************)
(* Machine-checked proofs about module Kernel, for every number of thread  *)
(* slots, bootstrap ticks and init restarts: KernelInv is inductive, and   *)
(* the run-queue, dispatch and init-lifecycle invariants follow from it.   *)
(***************************************************************************)
EXTENDS SchedulerProofs

USE ThreadsAssumption, TicksAssumption, RestartsAssumption

\* A tracked process stays alive through a step that keeps every live user
\* thread alive and in its slot.
LEMMA TrackedKept ==
    ASSUME SchedTypeOK, TrackedInitIsLive, init_pid' = init_pid,
           thread_count' \in 0 .. MaxThreads, thread_count' >= thread_count,
           \A s \in LiveUserSlots : /\ threads'[s].pid = threads[s].pid
                                    /\ threads'[s].role = threads[s].role
                                    /\ threads'[s].state # "Exited"
    PROVE  TrackedInitIsLive'
<1>1. CASE init_pid = 0
  BY <1>1 DEF TrackedInitIsLive
<1>2. CASE init_pid # 0
  <2>1. PICK s \in LiveUserSlots : threads[s].pid = init_pid
    BY <1>2 DEF TrackedInitIsLive
  <2>2. s \in Slots /\ s < thread_count'
    BY <2>1 DEF LiveUserSlots, SchedTypeOK, Slots
  <2>3. s \in LiveUserSlots' /\ threads'[s].pid = init_pid'
    BY <2>1, <2>2 DEF LiveUserSlots
  <2> QED
    BY <2>3 DEF TrackedInitIsLive
<1> QED
  BY <1>1, <1>2

\* In particular through a switch from one thread to another.
LEMMA SwitchTracked ==
    ASSUME SchedTypeOK, TrackedInitIsLive, SameThreads, init_pid' = init_pid,
           thread_count' = thread_count
    PROVE  TrackedInitIsLive'
<1>1. \A s \in LiveUserSlots : /\ threads'[s].pid = threads[s].pid
                               /\ threads'[s].role = threads[s].role
                               /\ threads'[s].state # "Exited"
  BY DEF SameThreads, LiveUserSlots
<1>2. thread_count' \in 0 .. MaxThreads /\ thread_count' >= thread_count
  BY DEF SchedTypeOK
<1> QED
  BY <1>1, <1>2, TrackedKept

\* Loading one more image adds at most one init, and none if it is another
\* program.
LEMMA BudgetStep ==
    ASSUME NEW im \in [Slots -> Images], NEW k \in Slots, NEW n \in Nat,
           Cardinality({s \in Slots : im[s] = "init"}) <= n
    PROVE  /\ Cardinality({s \in Slots : [im EXCEPT ![k] = "init"][s] = "init"}) <= n + 1
           /\ Cardinality({s \in Slots : [im EXCEPT ![k] = "other"][s] = "init"}) <= n
<1> DEFINE A == {s \in Slots : im[s] = "init"}
           B == {s \in Slots : [im EXCEPT ![k] = "init"][s] = "init"}
           C == {s \in Slots : [im EXCEPT ![k] = "other"][s] = "init"}
<1>1. IsFiniteSet(Slots)
  BY FS_Interval, 0 \in Int, MaxThreads - 1 \in Int DEF Slots
<1>2. A \subseteq Slots /\ B = A \cup {k} /\ C \subseteq A
  OBVIOUS
<1> HIDE DEF A, B, C
<1>3. IsFiniteSet(A) /\ Cardinality(A) \in Nat
  BY <1>1, <1>2, FS_Subset, FS_CardinalityType
<1>4. Cardinality(C) <= Cardinality(A) /\ Cardinality(C) \in Nat
  BY <1>2, <1>3, FS_Subset, FS_CardinalityType
<1>5. Cardinality(B) <= Cardinality(A) + 1 /\ Cardinality(B) \in Nat
  <2>1. CASE k \in A
    <3>1. B = A
      BY <1>2, <2>1
    <3> QED
      BY <1>3, <3>1
  <2>2. CASE k \notin A
    BY <1>2, <1>3, <2>2, FS_AddElement
  <2> QED
    BY <2>1, <2>2
<1>6. Cardinality(A) <= n
  BY DEF A
<1>7. Cardinality(B) <= n + 1 /\ Cardinality(C) <= n
  BY <1>3, <1>4, <1>5, <1>6
<1> QED
  BY <1>7 DEF B, C

\* A spawn tracks the process it created, which is alive and queued.
LEMMA SpawnTracked ==
    ASSUME TypeOK, TableSound, Dispatched, NEW img \in Images, SpawnProcess(img)
    PROVE  /\ init_pid' \in Nat /\ TrackedInitIsLive'
           /\ thread_count \in Slots
           /\ image' = [image EXCEPT ![thread_count] = img]
           /\ image' \in [Slots -> Images]
<1>1. SchedTypeOK /\ CreateUserThread
  BY DEF TypeOK, SpawnProcess
<1>2. /\ thread_count \in Slots /\ Len(runqueue) < MaxThreads
      /\ threads'[thread_count] = [id |-> next_thread_id, pid |-> next_thread_id,
                                   role |-> "User", state |-> "Runnable"]
  BY <1>1, SpawnStep
<1>3. init_pid' = next_thread_id /\ image' = [image EXCEPT ![thread_count] = img]
  BY <1>2 DEF SpawnProcess
<1>4. thread_count' = thread_count + 1
  BY <1>1 DEF CreateUserThread
<1>5. thread_count \in LiveUserSlots' /\ threads'[thread_count].pid = init_pid'
  BY <1>1, <1>2, <1>3, <1>4 DEF LiveUserSlots, SchedTypeOK
<1>6. TrackedInitIsLive'
  BY <1>5 DEF TrackedInitIsLive
<1> QED
  BY <1>1, <1>2, <1>3, <1>6 DEF TypeOK, SchedTypeOK

\* The end of the tracked process is noticed; any other process's end leaves the
\* tracked one alive.
LEMMA EndTracked ==
    ASSUME TypeOK, TableSound, Dispatched, threads[current_slot].role = "User",
           TrackedInitIsLive, restart_pending => restart_count < MaxInitRestarts,
           RequestExitGroup, NoteInitExit(threads[current_slot].pid),
           UNCHANGED restart_count
    PROVE  /\ init_pid' \in Nat /\ TrackedInitIsLive'
           /\ restart_pending' \in BOOLEAN
           /\ restart_pending' => restart_count' < MaxInitRestarts
<1>1. SchedTypeOK
  BY DEF TypeOK
<1>2. /\ \A s \in Slots : /\ threads'[s].id = threads[s].id
                          /\ threads'[s].pid = threads[s].pid
                          /\ threads'[s].role = threads[s].role
                          /\ s # current_slot /\ threads[s].state # "Exited"
                                    => threads'[s].state # "Exited"
  BY <1>1, ExitStep
<1>3. CASE init_pid = 0 \/ init_pid # threads[current_slot].pid
  <2>1. UNCHANGED <<init_pid, restart_pending>>
    BY <1>3 DEF NoteInitExit
  <2>2. TrackedInitIsLive'
    <3>1. CASE init_pid = 0
      BY <2>1, <3>1 DEF TrackedInitIsLive
    <3>2. CASE init_pid # 0
      <4>1. PICK s \in LiveUserSlots : threads[s].pid = init_pid
        BY <3>2 DEF TrackedInitIsLive
      <4>2. s # current_slot
        BY <1>3, <3>2, <4>1
      <4>3. UNCHANGED thread_count
        BY DEF RequestExitGroup
      <4>4. s \in LiveUserSlots' /\ threads'[s].pid = init_pid'
        BY <1>2, <2>1, <4>1, <4>2, <4>3 DEF LiveUserSlots
      <4> QED
        BY <4>4 DEF TrackedInitIsLive
    <3> QED
      BY <3>1, <3>2
  <2> QED
    BY <2>1, <2>2 DEF TypeOK
<1>4. CASE ~ (init_pid = 0 \/ init_pid # threads[current_slot].pid)
  <2>1. init_pid' = 0 /\ restart_pending' = (restart_count < MaxInitRestarts)
    BY <1>4 DEF NoteInitExit
  <2> QED
    BY <2>1 DEF TypeOK, TrackedInitIsLive
<1> QED
  BY <1>3, <1>4

-----------------------------------------------------------------------------
IndInv == TypeOK /\ KernelInv

\* The state in which sched::bootstrap is entered satisfies the invariant.
LEMMA InitInd == Init => IndInv
<1> SUFFICES ASSUME Init PROVE IndInv
  OBVIOUS
<1>1. EmptyThread \in Thread
  BY DEF EmptyThread, Thread, Roles, States
<1>2. TypeOK
  <2>1. SchedTypeOK
    <3>1. <<>> \in Seq(Slots) /\ 0 \in 0 .. MaxThreads /\ 0 \in 0 .. BootstrapTargetTicks
      OBVIOUS
    <3> QED
      BY Zenon, <1>1, <3>1 DEF Init, SchedInit, SchedTypeOK
  <2>2. BootstrapSlot \in Slots
    BY DEF BootstrapSlot, Slots
  <2>3. image \in [Slots -> Images]
    BY DEF Init, Images
  <2>4. activation \in BOOLEAN /\ restart_pending \in BOOLEAN
    BY Zenon DEF Init
  <2>5. phase \in Phases /\ cpu \in Slots /\ idle_pc \in IdlePcs
    BY <2>2 DEF Init, Phases, IdlePcs
  <2>6. init_pid \in Nat /\ restart_count \in 0 .. MaxInitRestarts
    BY DEF Init
  <2> QED
    BY <2>1, <2>3, <2>4, <2>5, <2>6 DEF TypeOK
<1>3. {s \in Slots : image[s] = "init"} = {}
  BY DEF Init
<1>4. RestartBudget
  BY <1>3, FS_EmptySet DEF Init, RestartBudget
<1>5. KernelInv
  BY <1>4 DEF Init, SchedInit, KernelInv, TrackedInitIsLive
<1> QED
  BY <1>2, <1>5 DEF IndInv

\* One step per action of the boot sequence.
LEMMA BootActions ==
    ASSUME IndInv, Bootstrap \/ BootstrapTimeout \/ BootstrapDone \/ SpawnInitAtBoot \/ IdleLoop
    PROVE  IndInv'
<1> USE DEF IndInv
<1>0. BootstrapSlot \in Slots
  BY DEF BootstrapSlot, Slots
<1>1. CASE Bootstrap
  <2>1. phase = "boot" /\ phase' \in {"ticking", "halted"} /\ (boot_active' <=> phase' = "ticking")
        /\ UNCHANGED initVars
    BY <1>1 DEF Bootstrap
  <2>2. /\ threads' \in [Slots -> Thread] /\ thread_count' \in 0 .. MaxThreads
        /\ next_thread_id' \in Nat /\ runqueue' \in Seq(Slots)
        /\ current_slot' \in Slots \cup {NoSlot} /\ TableSound' /\ BootTicks'
    BY <1>1, InitializeStep DEF Bootstrap
  <2>3. TypeOK'
    <3>1. /\ boot_active' \in BOOLEAN /\ sched_ready' \in BOOLEAN /\ phase' \in Phases
          /\ ticks' \in 0 .. BootstrapTargetTicks
      <4>1. boot_active' \in BOOLEAN /\ sched_ready' \in BOOLEAN
        BY Zenon, <1>1 DEF Bootstrap
      <4>2. phase' \in Phases
        BY <2>1 DEF Phases
      <4>3. ticks' \in 0 .. BootstrapTargetTicks
        BY <1>1 DEF Bootstrap
      <4> QED
        BY <4>1, <4>2, <4>3
    <3>2. SchedTypeOK'
      BY <1>1, <2>2, <3>1 DEF Bootstrap, TypeOK, SchedTypeOK
    <3> QED
      BY <1>1, <3>1, <3>2 DEF Bootstrap, TypeOK, initVars
  <2>4. init_pid = 0
    <3>1. LiveUserSlots = {}
      BY <2>1 DEF KernelInv, LiveUserSlots, EmptyThread
    <3> QED
      BY <3>1 DEF KernelInv, TrackedInitIsLive
  <2>5. TrackedInitIsLive' /\ RestartBudget'
    BY <2>1, <2>4 DEF TrackedInitIsLive, RestartBudget, KernelInv, initVars
  <2> QED
    BY <2>1, <2>2, <2>3, <2>5 DEF KernelInv, initVars
<1>2. CASE BootstrapTimeout
  <2>1. TypeOK'
    BY <1>2, ZenonT(30) DEF BootstrapTimeout, TypeOK, SchedTypeOK, table, initVars, Phases
  <2>2. TrackedInitIsLive' /\ RestartBudget'
    BY <1>2 DEF BootstrapTimeout, KernelInv, TrackedInitIsLive, LiveUserSlots, RestartBudget,
                table, initVars
  <2>3. TableSound'
    BY <1>2 DEF BootstrapTimeout, KernelInv, TableSound, table
  <2> QED
    BY <1>2, <2>1, <2>2, <2>3 DEF BootstrapTimeout, KernelInv, initVars
<1>3. CASE BootstrapDone
  <2>1. SchedTypeOK /\ TableSound /\ BootTicks /\ ticks >= BootstrapTargetTicks
        /\ RestoreBootstrapAsCurrent
    BY <1>3 DEF BootstrapDone, KernelInv, TypeOK
  <2>2. /\ threads' \in [Slots -> Thread] /\ runqueue' \in Seq(Slots)
        /\ current_slot' = BootstrapSlot /\ TableSound' /\ Dispatched' /\ SameThreads
    BY <2>1, RestoreStep
  <2>3. thread_count' = thread_count /\ next_thread_id' = next_thread_id /\ thread_count = 2
    BY <2>1 DEF RestoreBootstrapAsCurrent, BootTicks
  <2>4. TypeOK'
    BY <1>0, <1>3, <2>2, <2>3, ZenonT(30) DEF BootstrapDone, TypeOK, SchedTypeOK, initVars, Phases
  <2>5. TrackedInitIsLive'
    BY <1>3, <2>1, <2>2, <2>3, TrackedKept
       DEF BootstrapDone, KernelInv, LiveUserSlots, SameThreads, initVars, SchedTypeOK
  <2>6. RestartBudget'
    BY <1>3 DEF BootstrapDone, KernelInv, RestartBudget, initVars
  <2> QED
    BY <1>3, <2>2, <2>3, <2>4, <2>5, <2>6 DEF BootstrapDone, KernelInv, initVars
<1>4. CASE SpawnInitAtBoot
  <2>1. TableSound /\ Dispatched /\ current_slot = BootstrapSlot /\ thread_count = 2
        /\ phase = "spawn_init" /\ phase' = "enter_idle" /\ ~ boot_active
        /\ SchedTypeOK
    BY <1>4 DEF SpawnInitAtBoot, KernelInv, TypeOK
  <2>2. CASE UNCHANGED <<table, runqueue, current_slot, image, init_pid, restart_pending>>
    <3>1. TypeOK'
      BY <1>4, <2>2, ZenonT(30) DEF SpawnInitAtBoot, TypeOK, SchedTypeOK, table, Phases
    <3>2. TrackedInitIsLive' /\ RestartBudget'
      BY <1>4, <2>2 DEF SpawnInitAtBoot, KernelInv, TrackedInitIsLive, LiveUserSlots,
                        RestartBudget, table
    <3>3. TableSound' /\ Dispatched'
      BY <2>1, <2>2 DEF TableSound, Dispatched, InState, table
    <3> QED
      BY <1>4, <2>1, <2>2, <3>1, <3>2, <3>3 DEF SpawnInitAtBoot, KernelInv, table
  <2>3. CASE SpawnProcess("init") /\ restart_pending' = FALSE
    <3>1. CreateUserThread /\ "init" \in Images
      BY <2>3 DEF SpawnProcess, Images
    <3>2. /\ threads' \in [Slots -> Thread] /\ thread_count' \in 0 .. MaxThreads
          /\ next_thread_id' \in Nat /\ runqueue' \in Seq(Slots)
          /\ TableSound' /\ Dispatched'
      BY <2>1, <3>1, SpawnStep
    <3>3. /\ init_pid' \in Nat /\ TrackedInitIsLive' /\ thread_count \in Slots
          /\ image' = [image EXCEPT ![thread_count] = "init"] /\ image' \in [Slots -> Images]
      BY <2>1, <2>3, <3>1, SpawnTracked
    <3>4. current_slot' = current_slot /\ thread_count' = 3
      BY <2>1, <3>1 DEF CreateUserThread
    <3>5. TypeOK'
      BY <1>4, <2>3, <3>2, <3>3, <3>4, ZenonT(30) DEF SpawnInitAtBoot, TypeOK, SchedTypeOK, Phases
    <3>6. RestartBudget'
      <4>1. {s \in Slots : image[s] = "init"} = {}
        BY <2>1 DEF KernelInv
      <4>2. Cardinality({s \in Slots : image[s] = "init"}) <= 0
        BY <4>1, FS_EmptySet
      <4>3. Cardinality({s \in Slots : image'[s] = "init"}) <= 0 + 1
        BY Zenon, <3>3, <4>2, BudgetStep DEF TypeOK
      <4>4. restart_count' = restart_count /\ restart_count \in Nat
        BY <1>4 DEF SpawnInitAtBoot, TypeOK
      <4>5. IsFiniteSet({s \in Slots : image'[s] = "init"})
        <5>1. 0 \in Int /\ MaxThreads - 1 \in Int
          OBVIOUS
        <5>2. IsFiniteSet(Slots)
          BY Zenon, <5>1, FS_Interval DEF Slots
        <5> QED
          BY Zenon, <5>2, FS_Subset
      <4>6. Cardinality({s \in Slots : image'[s] = "init"}) \in Nat
        BY <4>5, FS_CardinalityType
      <4> QED
        BY <4>3, <4>4, <4>6 DEF RestartBudget
    <3> QED
      BY <1>4, <2>1, <2>3, <3>2, <3>3, <3>4, <3>5, <3>6 DEF SpawnInitAtBoot, KernelInv
  <2> QED
    BY Zenon, <1>4, <2>2, <2>3 DEF SpawnInitAtBoot
<1>5. CASE IdleLoop
  <2>1. TableSound /\ Dispatched /\ current_slot = BootstrapSlot /\ thread_count <= 3
        /\ SchedTypeOK /\ InitialContextPair
    BY <1>5 DEF IdleLoop, KernelInv, TypeOK
  <2>2. /\ threads' \in [Slots -> Thread] /\ runqueue' \in Seq(Slots)
        /\ InitialTarget \in Slots /\ current_slot' = InitialTarget
        /\ TableSound' /\ Dispatched' /\ threads'[BootstrapSlot].state = "Exited"
    BY <2>1, IdleEntryStep
  <2>3. \A s \in Slots : /\ threads'[s].pid = threads[s].pid
                         /\ threads'[s].role = threads[s].role
                         /\ s # BootstrapSlot /\ threads[s].state # "Exited"
                              => threads'[s].state # "Exited"
    BY <2>1, IdleEntryStep
  <2>4. thread_count' = thread_count /\ next_thread_id' = next_thread_id
    BY <2>1 DEF InitialContextPair
  <2>5. BootstrapSlot \notin LiveUserSlots
    BY <2>1 DEF LiveUserSlots, TableSound, RoleOf
  <2>6. TrackedInitIsLive'
    <3>1. \A s \in LiveUserSlots : /\ threads'[s].pid = threads[s].pid
                                   /\ threads'[s].role = threads[s].role
                                   /\ threads'[s].state # "Exited"
      <4> TAKE s \in LiveUserSlots
      <4>1. s # BootstrapSlot
        BY <2>5
      <4>2. s \in Slots /\ threads[s].state # "Exited"
        BY DEF LiveUserSlots
      <4> QED
        BY <2>3, <4>1, <4>2
    <3>2. init_pid' = init_pid /\ TrackedInitIsLive
      BY <1>5 DEF IdleLoop, KernelInv, initVars
    <3>3. thread_count' \in 0 .. MaxThreads /\ thread_count' >= thread_count
      BY <2>1, <2>4 DEF SchedTypeOK
    <3> QED
      BY <2>1, <3>1, <3>2, <3>3, TrackedKept
  <2>7. TypeOK'
    BY <1>5, <2>2, <2>4, ZenonT(30) DEF IdleLoop, TypeOK, SchedTypeOK, initVars, Phases
  <2>8. RestartBudget'
    BY <1>5 DEF IdleLoop, KernelInv, RestartBudget, initVars
  <2> QED
    BY <1>5, <2>2, <2>6, <2>7, <2>8 DEF IdleLoop, KernelInv, initVars
<1> QED
  BY <1>1, <1>2, <1>3, <1>4, <1>5

\* A step taken while no boot phase is active that leaves the table, the queue,
\* the phase and the init record alone needs only its types checked.
LEMMA Frame ==
    ASSUME IndInv, TypeOK', phase # "ticking",
           UNCHANGED <<table, runqueue, current_slot, boot_active, phase, cpu, initVars>>
    PROVE  IndInv'
<1>1. TableSound => TableSound'
  BY DEF TableSound, table
<1>2. Dispatched => Dispatched'
  BY DEF Dispatched, InState, table
<1>3. TrackedInitIsLive' /\ RestartBudget'
  BY DEF IndInv, KernelInv, TrackedInitIsLive, LiveUserSlots, RestartBudget, table, initVars
<1> QED
  BY <1>1, <1>2, <1>3 DEF IndInv, KernelInv, table, initVars

\* What a step of running threads has to preserve.
LEMMA Dispatching ==
    ASSUME IndInv, phase = "multitask", phase' = "multitask", UNCHANGED boot_active,
           TypeOK', TableSound', Dispatched', cpu' = current_slot',
           threads'[BootstrapSlot].state = "Exited", TrackedInitIsLive', RestartBudget',
           restart_pending' => restart_count' < MaxInitRestarts
    PROVE  IndInv'
BY DEF IndInv, KernelInv

\* One step per action of the running system.
LEMMA ThreadActions ==
    ASSUME IndInv,
           \/ TimerInterrupt \/ OtherInterrupt \/ HaltForever
           \/ UserYield \/ UserSpawn \/ UserExitGroup \/ UserFault
           \/ IdleService \/ IdleCycle
    PROVE  IndInv'
<1> DEFINE Busy == /\ SchedTypeOK /\ TableSound /\ Dispatched /\ TrackedInitIsLive /\ RestartBudget
                   /\ cpu = current_slot /\ current_slot \in Slots
                   /\ threads[BootstrapSlot].state = "Exited"
                   /\ restart_pending => restart_count < MaxInitRestarts
<1>0. phase = "multitask" => Busy
  BY DEF IndInv, KernelInv, TypeOK, SchedTypeOK, Dispatched
<1>t. BootstrapSlot \in Slots /\ TypeOK
  BY DEF BootstrapSlot, Slots, IndInv
<1> HIDE DEF Busy
<1>1. CASE TimerInterrupt
  <2>0. ticks' \in 0 .. BootstrapTargetTicks
    BY <1>1, <1>t DEF TimerInterrupt, OnTimerInterrupt, TypeOK, SchedTypeOK
  <2>1. CASE boot_active
    <3>1. phase = "ticking" /\ SchedTypeOK /\ TableSound /\ BootTicks
      BY <2>1 DEF IndInv, KernelInv, TypeOK
    <3>2. OnTimerTick /\ ticks' = IF ticks < BootstrapTargetTicks THEN ticks + 1 ELSE ticks
      BY <1>1, <2>1 DEF TimerInterrupt, OnTimerInterrupt
    <3>3. /\ threads' \in [Slots -> Thread] /\ runqueue' \in Seq(Slots) /\ current_slot' \in Slots
          /\ TableSound' /\ BootTicks' /\ SameThreads
      BY <3>1, <3>2, BootTickStep
    <3>4. /\ UNCHANGED <<thread_count, next_thread_id, need_reschedule, boot_active, sched_ready>>
          /\ UNCHANGED <<phase, cpu, initVars, idle_pc>>
      BY <1>1, <2>1, <3>1, <3>2
         DEF TimerInterrupt, OnTimerInterrupt, OnTimerTick, WakeIdle, InIdle
    <3>5. TypeOK'
      BY <1>t, <2>0, <3>3, <3>4, ZenonT(30) DEF TypeOK, SchedTypeOK, initVars
    <3>6. SchedTypeOK /\ TrackedInitIsLive /\ UNCHANGED <<thread_count, init_pid>>
      BY Zenon, <3>1, <3>4 DEF IndInv, KernelInv, initVars
    <3>7. TrackedInitIsLive'
      BY SMTT(30), <3>3, <3>6, SwitchTracked
    <3>8. RestartBudget'
      BY Zenon, <3>4 DEF IndInv, KernelInv, RestartBudget, initVars
    <3> QED
      BY <3>1, <3>3, <3>4, <3>5, <3>7, <3>8 DEF IndInv, KernelInv, initVars
  <2>2. CASE ~ boot_active
    <3>1. phase # "ticking"
      BY <2>2 DEF IndInv, KernelInv
    <3>2. UNCHANGED <<table, runqueue, current_slot, boot_active, sched_ready, phase, cpu, initVars>>
      BY <1>1, <2>2 DEF TimerInterrupt, OnTimerInterrupt
    <3>3. need_reschedule' \in BOOLEAN /\ idle_pc' \in IdlePcs
      <4>1. need_reschedule' \in BOOLEAN
        BY <1>1, <2>2 DEF TimerInterrupt, OnTimerInterrupt
      <4>2. idle_pc' \in IdlePcs
        BY <1>1, <1>t DEF TimerInterrupt, WakeIdle, TypeOK, IdlePcs
      <4> QED
        BY <4>1, <4>2
    <3>4. TypeOK'
      BY <1>t, <2>0, <3>2, <3>3, ZenonT(30) DEF TypeOK, SchedTypeOK, table, initVars
    <3> QED
      BY <3>1, <3>2, <3>4, Frame
  <2> QED
    BY <2>1, <2>2
<1>2. CASE OtherInterrupt
  <2>1. phase # "ticking" /\ UNCHANGED <<schedVars, phase, cpu, initVars>>
    BY <1>2 DEF OtherInterrupt, InIdle
  <2>2. idle_pc' \in IdlePcs
    BY <1>2, <1>t DEF OtherInterrupt, WakeIdle, TypeOK, IdlePcs
  <2>3. TypeOK'
    BY <1>t, <2>1, <2>2, ZenonT(30) DEF TypeOK, SchedTypeOK, schedVars, initVars
  <2> QED
    BY <2>1, <2>3, Frame DEF schedVars, table
<1>3. CASE HaltForever
  <2>1. TypeOK' /\ phase # "ticking"
    BY SMTT(30), <1>3, <1>t DEF HaltForever, vars, TypeOK, SchedTypeOK
  <2> QED
    BY <1>3, <2>1, Frame DEF HaltForever, vars, table, initVars
<1>4. CASE UserYield
  <2>1. phase = "multitask" /\ phase' = "multitask" /\ Busy
    BY <1>0, <1>4 DEF UserYield, InUserMode
  <2>2. Requeue(current_slot) # <<>>
    <3>1. threads[current_slot].state = "Running"
      BY <2>1 DEF Busy, Dispatched, InState
    <3>2. current_slot \notin Range(runqueue)
      BY <2>1, <3>1 DEF Busy, Dispatched, InState
    <3>3. Len(runqueue) < MaxThreads
      BY <2>1, <3>2, QueueHasRoom DEF Busy, SchedTypeOK, Dispatched, Slots
    <3>4. Requeue(current_slot) = Append(runqueue, current_slot)
      BY <2>1, <3>1, <3>3 DEF Busy, Requeue, Enqueue, SchedTypeOK
    <3> QED
      BY <2>1, <3>4 DEF Busy, SchedTypeOK
  <2>3. /\ threads' = SetState(StopRunning(current_slot), Head(Requeue(current_slot)), "Running")
        /\ runqueue' = Tail(Requeue(current_slot))
        /\ current_slot' = Head(Requeue(current_slot))
        /\ UNCHANGED <<thread_count, next_thread_id>>
    BY <1>4, <2>2 DEF UserYield, YieldCurrentUserThread
  <2>4. /\ threads' \in [Slots -> Thread] /\ runqueue' \in Seq(Slots) /\ current_slot' \in Slots
        /\ TableSound' /\ Dispatched' /\ SameThreads
    BY <2>1, <2>3, SwitchStep DEF Busy
  <2>5. /\ UNCHANGED <<need_reschedule, ticks, boot_active, sched_ready, idle_pc, initVars>>
        /\ cpu' = current_slot'
    BY <1>4 DEF UserYield
  <2>6. TypeOK'
    BY <1>t, <2>1, <2>3, <2>4, <2>5, ZenonT(30) DEF TypeOK, SchedTypeOK, initVars, Phases
  <2>7. SchedTypeOK /\ TrackedInitIsLive /\ UNCHANGED <<thread_count, init_pid>>
    BY <2>1, <2>3, <2>5 DEF Busy, initVars
  <2>8. TrackedInitIsLive'
    BY <2>4, <2>7, SwitchTracked
  <2>9. RestartBudget' /\ threads'[BootstrapSlot].state = "Exited"
    BY <1>t, <2>1, <2>4, <2>5 DEF Busy, RestartBudget, SameThreads, initVars
  <2> QED
    BY <2>1, <2>4, <2>5, <2>6, <2>8, <2>9, Dispatching DEF Busy, initVars
<1>5. CASE UserSpawn
  <2>1. phase = "multitask" /\ phase' = "multitask" /\ Busy /\ SpawnProcess("other")
        /\ "other" \in Images /\ CreateUserThread
    BY <1>0, <1>5 DEF UserSpawn, InUserMode, SpawnProcess, Images
  <2>2. /\ threads' \in [Slots -> Thread] /\ thread_count' \in 0 .. MaxThreads
        /\ next_thread_id' \in Nat /\ runqueue' \in Seq(Slots)
        /\ threads[thread_count].state = "Unused"
        /\ \A s \in Slots : s # thread_count => threads'[s] = threads[s]
        /\ TableSound' /\ Dispatched'
    BY <2>1, SpawnStep DEF Busy
  <2>3. /\ init_pid' \in Nat /\ TrackedInitIsLive' /\ thread_count \in Slots
        /\ image' = [image EXCEPT ![thread_count] = "other"] /\ image' \in [Slots -> Images]
    BY <1>t, <2>1, SpawnTracked DEF Busy
  <2>4. /\ UNCHANGED <<need_reschedule, ticks, boot_active, sched_ready, idle_pc, activation>>
        /\ UNCHANGED <<cpu, restart_pending, restart_count, current_slot>>
    BY <1>5, <2>1 DEF UserSpawn, CreateUserThread
  <2>5. TypeOK'
    BY <1>t, <2>1, <2>2, <2>3, <2>4, ZenonT(30) DEF TypeOK, SchedTypeOK, Phases
  <2>6. RestartBudget'
    <3>1. 1 + restart_count \in Nat /\ image \in [Slots -> Images]
      BY <1>t DEF TypeOK
    <3>2. Cardinality({s \in Slots : image[s] = "init"}) <= 1 + restart_count
      BY <2>1 DEF Busy, RestartBudget
    <3>3. Cardinality({s \in Slots : image'[s] = "init"}) <= 1 + restart_count
      BY <2>3, <3>1, <3>2, BudgetStep
    <3> QED
      BY <2>4, <3>3 DEF RestartBudget
  <2>7. threads'[BootstrapSlot].state = "Exited"
    BY <1>t, <2>1, <2>2 DEF Busy
  <2> QED
    BY SMTT(30), <2>1, <2>2, <2>3, <2>4, <2>5, <2>6, <2>7, Dispatching DEF Busy
<1>6. CASE UserExitGroup \/ UserFault
  <2>1. EndCurrentGroup /\ phase = "multitask"
    BY SMTT(30), <1>6 DEF UserExitGroup, UserFault, EndCurrentGroup, InUserMode
  <2>2. Busy /\ threads[current_slot].role = "User" /\ RequestExitGroup
        /\ NoteInitExit(threads[current_slot].pid)
        /\ UNCHANGED <<need_reschedule, ticks, boot_active, sched_ready, idle_pc>>
        /\ UNCHANGED <<image, activation, restart_count>>
    BY SMTT(30), <1>0, <2>1 DEF EndCurrentGroup, InUserMode, Busy
  <2>3. /\ threads' \in [Slots -> Thread] /\ runqueue' \in Seq(Slots) /\ current_slot' \in Slots
        /\ TableSound' /\ Dispatched'
        /\ \A s \in Slots : threads[s].state = "Exited" => threads'[s].state = "Exited"
    BY Zenon, <2>2, ExitStep DEF Busy
  <2>4. /\ init_pid' \in Nat /\ TrackedInitIsLive' /\ restart_pending' \in BOOLEAN
        /\ restart_pending' => restart_count' < MaxInitRestarts
    BY <1>t, <2>2, EndTracked DEF Busy
  <2>5. cpu' = current_slot' /\ phase' = "multitask"
    <3>1. current_slot' # NoSlot
      BY <2>3 DEF NoSlot, Slots
    <3> QED
      BY <1>6, <2>1, <3>1 DEF EndCurrentGroup, UserExitGroup, UserFault
  <2>6. UNCHANGED <<thread_count, next_thread_id>>
    BY <2>2 DEF RequestExitGroup
  <2>7. TypeOK'
    BY <1>t, <2>2, <2>3, <2>4, <2>5, <2>6, ZenonT(30) DEF TypeOK, SchedTypeOK, Phases
  <2>8. RestartBudget' /\ threads'[BootstrapSlot].state = "Exited"
    BY Zenon, <1>t, <2>2, <2>3 DEF Busy, RestartBudget
  <2> QED
    BY SMTT(30), <2>1, <2>2, <2>3, <2>4, <2>5, <2>7, <2>8, Dispatching
<1>7. CASE IdleService
  <2>1. phase = "multitask" /\ phase' = "multitask" /\ Busy /\ idle_pc' \in IdlePcs
        /\ restart_pending' = FALSE
        /\ UNCHANGED <<ticks, boot_active, sched_ready, cpu, activation>>
    BY SMTT(30), <1>0, <1>7 DEF IdleService, InIdle, IdlePcs
  <2>2. ASSUME UNCHANGED <<table, runqueue, current_slot, need_reschedule, image, init_pid>>,
               restart_count' \in {restart_count, restart_count + 1},
               restart_count' \in 0 .. MaxInitRestarts
        PROVE  IndInv'
    <3>1. TypeOK'
      BY <1>t, <2>1, <2>2, ZenonT(30) DEF TypeOK, SchedTypeOK, table, Phases
    <3>2. TableSound' /\ Dispatched' /\ cpu' = current_slot' /\ threads'[BootstrapSlot].state = "Exited"
      BY <2>1, <2>2 DEF Busy, TableSound, Dispatched, InState, table
    <3>3. TrackedInitIsLive'
      BY <2>1, <2>2 DEF Busy, TrackedInitIsLive, LiveUserSlots, table
    <3>4. RestartBudget'
      <4>1. IsFiniteSet(Slots)
        BY FS_Interval, 0 \in Int, MaxThreads - 1 \in Int DEF Slots
      <4>2. Cardinality({s \in Slots : image[s] = "init"}) \in Nat
        BY <4>1, FS_Subset, FS_CardinalityType
      <4> QED
        BY <1>t, <2>1, <2>2, <4>2 DEF Busy, RestartBudget, TypeOK
    <3> QED
      BY Zenon, <2>1, <3>1, <3>2, <3>3, <3>4, Dispatching
  <2>3. ASSUME restart_pending, restart_count' = restart_count + 1, SpawnProcess("init"),
               need_reschedule' =
                 (need_reschedule \/ (runqueue' # <<>> /\ Head(runqueue') # current_slot))
        PROVE  IndInv'
    <3>0. CreateUserThread /\ "init" \in Images /\ need_reschedule' \in BOOLEAN
      BY <2>3 DEF SpawnProcess, Images
    <3>1. /\ threads' \in [Slots -> Thread] /\ thread_count' \in 0 .. MaxThreads
          /\ next_thread_id' \in Nat /\ runqueue' \in Seq(Slots)
          /\ threads[thread_count].state = "Unused"
          /\ \A s \in Slots : s # thread_count => threads'[s] = threads[s]
          /\ TableSound' /\ Dispatched'
      BY <2>1, <3>0, SpawnStep DEF Busy
    <3>2. /\ init_pid' \in Nat /\ TrackedInitIsLive' /\ thread_count \in Slots
          /\ image' = [image EXCEPT ![thread_count] = "init"] /\ image' \in [Slots -> Images]
      BY <1>t, <2>1, <2>3, <3>0, SpawnTracked DEF Busy
    <3>3. restart_count' \in 0 .. MaxInitRestarts
      <4>1. restart_count < MaxInitRestarts
        BY <2>1, <2>3 DEF Busy
      <4>2. restart_count \in 0 .. MaxInitRestarts
        BY <1>t DEF TypeOK
      <4> QED
        BY <2>3, <4>1, <4>2, RestartsAssumption
    <3>4. current_slot' = current_slot
      BY <3>0 DEF CreateUserThread
    <3>5. TypeOK'
      BY <1>t, <2>1, <3>0, <3>1, <3>2, <3>3, <3>4, ZenonT(30) DEF TypeOK, SchedTypeOK, Phases
    <3>6. RestartBudget'
      <4>1. restart_count \in Nat /\ 1 + restart_count \in Nat /\ image \in [Slots -> Images]
        BY <1>t DEF TypeOK
      <4>2. Cardinality({s \in Slots : image[s] = "init"}) <= 1 + restart_count
        BY <2>1 DEF Busy, RestartBudget
      <4>3. Cardinality({s \in Slots : [image EXCEPT ![thread_count] = "init"][s] = "init"})
              <= 1 + restart_count + 1
        BY <3>2, <4>1, <4>2, BudgetStep, Zenon
      <4> QED
        BY <2>3, <3>2, <4>1, <4>3 DEF RestartBudget
    <3>7. threads'[BootstrapSlot].state = "Exited" /\ cpu' = current_slot'
      BY <1>t, <2>1, <3>1, <3>4 DEF Busy
    <3> QED
      BY <2>1, <3>1, <3>2, <3>5, <3>6, <3>7, Dispatching
  <2>4. CASE ~ restart_pending
    <3>1. restart_count' = restart_count /\ restart_count \in 0 .. MaxInitRestarts
          /\ UNCHANGED <<table, runqueue, current_slot, need_reschedule, image, init_pid>>
      BY <1>7, <1>t, <2>4 DEF IdleService, TypeOK
    <3> QED
      BY <2>2, <3>1
  <2>5. CASE restart_pending
    <3>1. restart_count' = restart_count + 1 /\ restart_count' \in 0 .. MaxInitRestarts
      <4>1. restart_count' = restart_count + 1
        BY <1>7, <2>5 DEF IdleService
      <4>2. restart_count < MaxInitRestarts
        BY <2>1, <2>5 DEF Busy
      <4>3. restart_count \in 0 .. MaxInitRestarts
        BY <1>t DEF TypeOK
      <4> QED
        BY <4>1, <4>2, <4>3, RestartsAssumption
    <3> QED
      BY <1>7, <2>2, <2>3, <2>5, <3>1 DEF IdleService
  <2> QED
    BY <2>4, <2>5
<1>8. CASE IdleCycle
  <2>1. phase = "multitask" /\ phase' = "multitask" /\ Busy /\ idle_pc' \in IdlePcs
        /\ need_reschedule' = FALSE
        /\ UNCHANGED <<ticks, boot_active, sched_ready, initVars>>
    BY <1>0, <1>8 DEF IdleCycle, InIdle, IdlePcs
  <2>2. CASE need_reschedule /\ NextSwitchExists
    <3>1. /\ threads' = SetState(StopRunning(current_slot), Head(Requeue(current_slot)), "Running")
          /\ runqueue' = Tail(Requeue(current_slot))
          /\ current_slot' = Head(Requeue(current_slot))
          /\ UNCHANGED <<thread_count, next_thread_id>>
          /\ cpu' = current_slot'
      BY <1>8, <2>2 DEF IdleCycle, ContextSwitchPair
    <3>2. /\ threads' \in [Slots -> Thread] /\ runqueue' \in Seq(Slots) /\ current_slot' \in Slots
          /\ TableSound' /\ Dispatched' /\ SameThreads
      BY <2>1, <3>1, SwitchStep DEF Busy
    <3>3. TypeOK'
      BY <1>t, <2>1, <3>1, <3>2, ZenonT(30) DEF TypeOK, SchedTypeOK, initVars, Phases
    <3>4. SchedTypeOK /\ TrackedInitIsLive /\ UNCHANGED <<thread_count, init_pid>>
      BY <2>1, <3>1 DEF Busy, initVars
    <3>5. TrackedInitIsLive'
      BY <3>2, <3>4, SwitchTracked
    <3>6. RestartBudget' /\ threads'[BootstrapSlot].state = "Exited"
      BY <1>t, <2>1, <3>2 DEF Busy, RestartBudget, SameThreads, initVars
    <3> QED
      BY <2>1, <3>1, <3>2, <3>3, <3>5, <3>6, Dispatching DEF Busy, initVars
  <2>3. CASE ~ (need_reschedule /\ NextSwitchExists)
    <3>1. UNCHANGED <<table, runqueue, current_slot, boot_active, phase, cpu, initVars>>
      BY <1>8, <2>1, <2>3 DEF IdleCycle
    <3>2. TypeOK'
      BY <1>t, <2>1, <3>1, ZenonT(30) DEF TypeOK, SchedTypeOK, table, initVars
    <3> QED
      BY <2>1, <3>1, <3>2, Frame
  <2> QED
    BY <2>2, <2>3
<1> QED
  BY <1>1, <1>2, <1>3, <1>4, <1>5, <1>6, <1>7, <1>8

-----------------------------------------------------------------------------
\* KernelInv and the types hold in every reachable state, for any number of
\* thread slots, bootstrap ticks and restarts.
THEOREM KernelInvariant == Spec => [](TypeOK /\ KernelInv)
<1>1. Init => IndInv
  BY InitInd
<1>2. IndInv /\ [Next]_vars => IndInv'
  <2> SUFFICES ASSUME IndInv, [Next]_vars PROVE IndInv'
    OBVIOUS
  <2>1. CASE Bootstrap \/ BootstrapTimeout \/ BootstrapDone \/ SpawnInitAtBoot \/ IdleLoop
    BY <2>1, BootActions
  <2>2. CASE \/ TimerInterrupt \/ OtherInterrupt \/ HaltForever
             \/ UserYield \/ UserSpawn \/ UserExitGroup \/ UserFault
             \/ IdleService \/ IdleCycle
    BY <2>2, ThreadActions
  <2>3. CASE UNCHANGED vars
    <3>1. UNCHANGED <<table, runqueue, current_slot, boot_active, phase, cpu, initVars>>
      BY <2>3 DEF vars, table, initVars
    <3>2. TypeOK'
      BY <2>3, ZenonT(30) DEF vars, IndInv, TypeOK, SchedTypeOK
    <3>3. phase = "ticking" => BootTicks'
      BY SMTT(30), <2>3 DEF vars, IndInv, KernelInv, BootTicks
    <3>4. TableSound => TableSound'
      BY ZenonT(30), <2>3 DEF vars, TableSound
    <3>5. TrackedInitIsLive' /\ RestartBudget'
      BY <2>3 DEF vars, IndInv, KernelInv, TrackedInitIsLive, LiveUserSlots, RestartBudget
    <3>6. CASE phase # "ticking"
      BY <3>1, <3>2, <3>6, Frame
    <3>7. CASE phase = "ticking"
      BY <3>1, <3>2, <3>3, <3>4, <3>5, <3>7 DEF IndInv, KernelInv, initVars
    <3> QED
      BY <3>6, <3>7
  <2> QED
    BY <2>1, <2>2, <2>3 DEF Next
<1>3. IndInv <=> TypeOK /\ KernelInv
  BY DEF IndInv
<1> QED
  BY <1>1, <1>2, <1>3, PTL DEF Spec

\* Every variable keeps its type; in particular restart_count never exceeds
\* MAX_INIT_RESTARTS and thread_count never exceeds MAX_THREADS.
THEOREM TypeCorrect == Spec => []TypeOK
<1>1. TypeOK /\ KernelInv => TypeOK
  OBVIOUS
<1> QED
  BY <1>1, KernelInvariant, PTL

\* The run queue holds exactly the Runnable slots, each once.
THEOREM RunQueueIsSound == Spec => []RunQueueSound
<1>1. TypeOK /\ KernelInv => RunQueueSound
  BY DEF KernelInv, RunQueueSound, Multitasking, Dispatched
<1> QED
  BY <1>1, KernelInvariant, PTL

\* The CPU executes the current slot, the only Running one.
THEOREM CpuIsCurrent == Spec => []CpuRunsCurrent
<1>1. TypeOK /\ KernelInv => CpuRunsCurrent
  BY DEF KernelInv, CpuRunsCurrent, Multitasking, Dispatched
<1> QED
  BY <1>1, KernelInvariant, PTL

\* An exiting or yielding user thread always finds the idle thread queued.
THEOREM IdleIsQueued == Spec => []SuccessorExists
<1>1. TypeOK /\ KernelInv => SuccessorExists
  <2> SUFFICES ASSUME TypeOK, KernelInv, InUserMode PROVE IdleSlot \in Range(runqueue)
    BY DEF SuccessorExists
  <2>1. TableSound /\ Dispatched /\ cpu = current_slot /\ threads[cpu].role = "User"
    BY DEF InUserMode, KernelInv
  <2>2. IdleSlot \in Slots /\ IdleSlot # BootstrapSlot
    BY DEF IdleSlot, BootstrapSlot, Slots
  <2>3. threads[IdleSlot].role = "Idle"
    BY <2>2 DEF KernelInv, TableSound, RoleOf, IdleSlot, InUserMode, TypeOK, SchedTypeOK
  <2>4. threads[IdleSlot].state = "Runnable"
    BY SMTT(30), <2>1, <2>2, <2>3 DEF TableSound, Dispatched, InState
  <2> QED
    BY <2>1, <2>2, <2>4 DEF Dispatched, InState
<1> QED
  BY <1>1, KernelInvariant, PTL

\* The CPU never returns to the bootstrap context.
THEOREM BootstrapIsGone == Spec => []BootstrapGone
<1>1. TypeOK /\ KernelInv => BootstrapGone
  BY DEF KernelInv, BootstrapGone, Multitasking, Dispatched, InState
<1> QED
  BY <1>1, KernelInvariant, PTL

\* The tracked process is alive, and starts of init stay within the budget.
THEOREM InitLifecycle == Spec => [](TrackedInitIsLive /\ RestartBudget)
<1>1. TypeOK /\ KernelInv => TrackedInitIsLive /\ RestartBudget
  BY DEF KernelInv
<1> QED
  BY <1>1, KernelInvariant, PTL

\* A program that keeps failing is restarted a bounded number of times
\* (service_pending_restart).
THEOREM RestartsAreBounded == Spec => []RestartBudget
  BY InitLifecycle, PTL

\* No step reuses a slot or revives a thread that has exited.
THEOREM SlotsAreNotRecycled == Spec => SlotNeverRecycled
<1> DEFINE Kept == \A s \in Slots : threads[s].state # "Unused" =>
                     /\ threads'[s].id = threads[s].id
                     /\ threads[s].state = "Exited" => threads'[s].state = "Exited"
<1>1. TypeOK /\ KernelInv /\ [Next]_vars => [Kept]_vars
  <2> SUFFICES ASSUME TypeOK, KernelInv, Next PROVE Kept
    OBVIOUS
  <2>0. SchedTypeOK
    BY DEF TypeOK
  <2>1. CASE Bootstrap
    BY <2>1 DEF Bootstrap, KernelInv, EmptyThread
  <2>2. CASE BootstrapDone
    <3>1. TableSound /\ BootTicks /\ ticks >= BootstrapTargetTicks /\ RestoreBootstrapAsCurrent
      BY <2>2 DEF BootstrapDone, KernelInv
    <3>2. SameThreads
      BY <2>0, <3>1, RestoreStep
    <3> QED
      BY <3>2 DEF SameThreads
  <2>3. CASE CreateUserThread /\ TableSound /\ Dispatched
    BY <2>0, <2>3, SpawnStep
  <2>4. CASE IdleLoop
    <3>1. TableSound /\ Dispatched /\ current_slot = BootstrapSlot /\ thread_count <= 3
          /\ InitialContextPair
      BY <2>4 DEF IdleLoop, KernelInv
    <3> QED
      BY <2>0, <3>1, IdleEntryStep
  <2>5. CASE TimerInterrupt /\ boot_active
    <3>1. TableSound /\ BootTicks
      BY <2>5 DEF KernelInv
    <3>2. OnTimerTick /\ ticks' = IF ticks < BootstrapTargetTicks THEN ticks + 1 ELSE ticks
      BY <2>5 DEF TimerInterrupt, OnTimerInterrupt
    <3>3. SameThreads
      BY <2>0, <3>1, <3>2, BootTickStep
    <3> QED
      BY <3>3 DEF SameThreads
  <2>6. CASE UNCHANGED threads
    BY <2>6
  <2>7. CASE EndCurrentGroup
    <3>1. TableSound /\ Dispatched /\ threads[current_slot].role = "User" /\ RequestExitGroup
      BY <2>7 DEF EndCurrentGroup, InUserMode, KernelInv
    <3> QED
      BY SMTT(30), <2>0, <3>1, ExitStep
  <2>8. ASSUME TableSound, Dispatched,
               threads' = SetState(StopRunning(current_slot), Head(Requeue(current_slot)), "Running"),
               runqueue' = Tail(Requeue(current_slot)),
               current_slot' = Head(Requeue(current_slot)),
               UNCHANGED <<thread_count, next_thread_id>>
        PROVE  Kept
    <3>1. SameThreads
      BY <2>0, <2>8, SwitchStep
    <3> QED
      BY <3>1 DEF SameThreads
  <2>9. CASE UserYield
    <3>1. TableSound /\ Dispatched /\ current_slot \in Slots
      BY <2>9 DEF UserYield, InUserMode, KernelInv, Dispatched, TypeOK, SchedTypeOK
    <3>2. threads[current_slot].state = "Running"
      BY <3>1 DEF Dispatched, InState
    <3>3. CASE Requeue(current_slot) = <<>>
      <4>1. threads' = SetState(threads, current_slot, "Runnable")
        BY Zenon, <2>9, <3>2, <3>3 DEF UserYield, YieldCurrentUserThread, StopRunning
      <4>2. \A s \in Slots :
              /\ threads'[s].id = threads[s].id
              /\ threads'[s].state = IF s = current_slot THEN "Runnable" ELSE threads[s].state
        BY SMTT(30), <2>0, <3>1, <4>1, SetStateFacts DEF SchedTypeOK, States
      <4> QED
        BY SMTT(30), <3>2, <4>2
    <3>4. CASE Requeue(current_slot) # <<>>
      BY <2>8, <2>9, <3>1, <3>4 DEF UserYield, YieldCurrentUserThread
    <3> QED
      BY <3>3, <3>4
  <2>10. CASE IdleCycle
    <3>1. TableSound /\ Dispatched
      BY <2>10 DEF IdleCycle, InIdle, KernelInv
    <3>2. CASE need_reschedule /\ NextSwitchExists
      BY <2>8, <2>10, <3>1, <3>2 DEF IdleCycle, ContextSwitchPair
    <3>3. CASE ~ (need_reschedule /\ NextSwitchExists)
      BY <2>6, <2>10, <3>3 DEF IdleCycle, table
    <3> QED
      BY <3>2, <3>3
  <2>11. CASE SpawnInitAtBoot \/ UserSpawn \/ IdleService
    <3>1. TableSound /\ Dispatched
      BY <2>11 DEF SpawnInitAtBoot, UserSpawn, IdleService, InUserMode, InIdle, KernelInv
    <3>2. CreateUserThread \/ UNCHANGED threads
      BY <2>11 DEF SpawnInitAtBoot, UserSpawn, IdleService, SpawnProcess, table
    <3> QED
      BY SMTT(30), <2>3, <2>6, <3>1, <3>2
  <2>12. CASE BootstrapTimeout \/ HaltForever \/ OtherInterrupt \/ (TimerInterrupt /\ ~ boot_active)
    <3>1. UNCHANGED threads
      BY <2>12 DEF BootstrapTimeout, HaltForever, OtherInterrupt, TimerInterrupt, OnTimerInterrupt,
                   table, vars, schedVars
    <3> QED
      BY <2>6, <3>1
  <2>13. CASE UserExitGroup \/ UserFault
    BY <2>7, <2>13 DEF UserExitGroup, UserFault
  <2> HIDE DEF Kept
  <2> QED
    BY <2>1, <2>2, <2>4, <2>5, <2>9, <2>10, <2>11, <2>12, <2>13 DEF Next
<1>2. Spec => [](TypeOK /\ KernelInv)
  BY KernelInvariant
<1>3. SlotNeverRecycled <=> [][Kept]_vars
  BY DEF SlotNeverRecycled
<1> QED
  BY <1>1, <1>2, <1>3, PTL DEF Spec
=============================================================================
