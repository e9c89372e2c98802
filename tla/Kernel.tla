------------------------------- MODULE Kernel -------------------------------
(***************************************************************************)
(* The single-CPU kernel from sched::bootstrap on: the boot sequence of    *)
(* main.rs, the idle thread's loop, the timer interrupt, the traps a user  *)
(* thread makes (sched_yield, spawn, exit_group, a fatal exception) and    *)
(* the init lifecycle of init_exec.rs (restart of the tracked process,     *)
(* at most MAX_INIT_RESTARTS times).                                       *)
(*                                                                         *)
(* Traps and IRQ handlers run with interrupts off and the scheduler is     *)
(* cooperative, so a trap, an IRQ and each stretch of idle-thread code     *)
(* between two points where an interrupt matters is one step.              *)
(***************************************************************************)
EXTENDS Scheduler, FiniteSets

CONSTANT MaxInitRestarts     \* MAX_INIT_RESTARTS, 4 in the code

ASSUME RestartsAssumption == MaxInitRestarts \in Nat

VARIABLES
    phase,      \* how far main.rs has come
    cpu,        \* the slot whose code the CPU executes
    idle_pc,    \* where the idle thread is, or will resume, in its loop
    image,      \* slot -> the program its address space was built from
    activation, \* INIT_EXEC.activation is Some
    init_pid,   \* INIT_EXEC.current_process_id
    restart_pending,
    restart_count

initVars == <<image, activation, init_pid, restart_pending, restart_count>>
vars == <<threads, thread_count, next_thread_id, runqueue, current_slot,
          need_reschedule, ticks, boot_active, sched_ready, phase, cpu, idle_pc,
          image, activation, init_pid, restart_pending, restart_count>>

Phases == {"boot", "ticking", "spawn_init", "enter_idle", "multitask", "halted"}

\* "entry" is the first pass through the loop, still with interrupts off.
IdlePcs == {"entry", "service", "cycle", "hlt"}
Images == {"none", "init", "other"}

TypeOK ==
    /\ SchedTypeOK
    /\ phase \in Phases
    /\ cpu \in Slots
    /\ idle_pc \in IdlePcs
    /\ image \in [Slots -> Images]
    /\ activation \in BOOLEAN
    /\ init_pid \in Nat
    /\ restart_pending \in BOOLEAN
    /\ restart_count \in 0 .. MaxInitRestarts

\* activate_init_handoff has run, and found an init image or not.
Init ==
    /\ SchedInit
    /\ phase = "boot"
    /\ cpu = BootstrapSlot
    /\ idle_pc = "entry"
    /\ image = [s \in Slots |-> "none"]
    /\ activation \in BOOLEAN
    /\ init_pid = 0
    /\ restart_pending = FALSE
    /\ restart_count = 0

-----------------------------------------------------------------------------
\* sched::bootstrap up to its wait loop.  Without a timer it returns an error,
\* on which main.rs halts.
Bootstrap ==
    /\ phase = "boot"
    /\ InitializeBootstrapThreads
    /\ \/ phase' = "ticking" /\ boot_active' = TRUE
       \/ phase' = "halted" /\ boot_active' = FALSE
    /\ ticks' = 0
    /\ sched_ready' = FALSE
    /\ UNCHANGED <<need_reschedule, cpu, idle_pc, initVars>>

BootstrapTimeout ==
    /\ phase = "ticking"
    /\ ticks < BootstrapTargetTicks
    /\ boot_active' = FALSE
    /\ phase' = "halted"
    /\ UNCHANGED <<table, runqueue, current_slot, need_reschedule, ticks,
                   sched_ready, cpu, idle_pc, initVars>>

BootstrapDone ==
    /\ phase = "ticking"
    /\ ticks >= BootstrapTargetTicks
    /\ boot_active' = FALSE
    /\ sched_ready' = TRUE
    /\ RestoreBootstrapAsCurrent
    /\ phase' = "spawn_init"
    /\ UNCHANGED <<need_reschedule, ticks, cpu, idle_pc, initVars>>

\* Mutant: every spawn maps the cached init activation, not the file asked for.
SpawnProcessCached(img) ==
    /\ CreateUserThread
    /\ image' = [image EXCEPT ![thread_count] = "init"]
    /\ init_pid' = IF Len(runqueue) < MaxThreads THEN next_thread_id ELSE init_pid

\* The part of spawn_executable and spawn_init_process that follows the load:
\* the new process becomes the one INIT_EXEC tracks, whatever its image.
SpawnProcess(img) ==
    /\ CreateUserThread
    /\ image' = [image EXCEPT ![thread_count] = img]
    /\ init_pid' = IF Len(runqueue) < MaxThreads THEN next_thread_id ELSE init_pid

\* main.rs goes on when the spawn fails: no image, no memory, no slot.
SpawnInitAtBoot ==
    /\ phase = "spawn_init"
    /\ phase' = "enter_idle"
    /\ \/ /\ activation
          /\ SpawnProcess("init")
          /\ restart_pending' = FALSE
       \/ UNCHANGED <<table, runqueue, current_slot, image, init_pid, restart_pending>>
    /\ UNCHANGED <<need_reschedule, ticks, boot_active, sched_ready, cpu, idle_pc,
                   activation, restart_count>>

\* sched::idle_loop: leave the bootstrap context for good.
IdleLoop ==
    /\ phase = "enter_idle"
    /\ InitialContextPair
    /\ cpu' = InitialTarget
    /\ phase' = "multitask"
    /\ UNCHANGED <<need_reschedule, ticks, boot_active, sched_ready, idle_pc, initVars>>

HaltForever == phase = "halted" /\ UNCHANGED vars

-----------------------------------------------------------------------------
InUserMode == phase = "multitask" /\ threads[cpu].role = "User"
InIdle == phase = "multitask" /\ cpu = IdleSlot

\* The idle thread runs with interrupts off in its first pass and inside
\* run_idle_cycle, and sleeps in hlt until an interrupt.
InterruptsOn ==
    \/ phase = "ticking"
    \/ InUserMode
    \/ InIdle /\ idle_pc \in {"service", "hlt"}

\* Mutant: the idle thread does not leave its hlt.
WakeIdleNever == UNCHANGED idle_pc

WakeIdle == idle_pc' = IF InIdle /\ idle_pc = "hlt" THEN "service" ELSE idle_pc

TimerInterrupt ==
    /\ InterruptsOn
    /\ OnTimerInterrupt
    /\ WakeIdle
    /\ UNCHANGED <<phase, cpu, initVars>>

\* Any other IRQ (vector 0x81, a spurious one) also ends the hlt.
OtherInterrupt ==
    /\ InIdle /\ idle_pc = "hlt"
    /\ WakeIdle
    /\ UNCHANGED <<schedVars, phase, cpu, initVars>>

\* Mutant: the trap returns to the caller's frame instead of the chosen one.
UserYieldSameFrame ==
    /\ InUserMode
    /\ YieldCurrentUserThread
    /\ UNCHANGED <<cpu, need_reschedule, ticks, boot_active, sched_ready, phase, idle_pc, initVars>>

\* sched_yield: the CPU resumes the context of the slot that is now current.
UserYield ==
    /\ InUserMode
    /\ YieldCurrentUserThread
    /\ cpu' = current_slot'
    /\ UNCHANGED <<need_reschedule, ticks, boot_active, sched_ready, phase, idle_pc, initVars>>

\* hxnu_spawn of an executable that loads; a failed one changes nothing here.
UserSpawn ==
    /\ InUserMode
    /\ SpawnProcess("other")
    /\ UNCHANGED <<need_reschedule, ticks, boot_active, sched_ready, phase, cpu,
                   idle_pc, activation, restart_pending, restart_count>>

\* Mutant: the tracked pid outlives its process.
NoteInitExitKeepsPid(pid) ==
    /\ UNCHANGED init_pid
    /\ restart_pending' = (restart_pending \/ (init_pid = pid /\ restart_count < MaxInitRestarts))

\* The tracked process ended: schedule a restart while the budget lasts.
NoteInitExit(pid) ==
    IF init_pid = 0 \/ init_pid # pid
    THEN UNCHANGED <<init_pid, restart_pending>>
    ELSE /\ init_pid' = 0
         /\ restart_pending' = (restart_count < MaxInitRestarts)

\* The end of a group, by exit_group or by a fatal exception.  The CPU resumes
\* the thread that became current; with none, exit_group returns to the caller.
EndCurrentGroup ==
    /\ InUserMode
    /\ RequestExitGroup
    /\ NoteInitExit(threads[current_slot].pid)
    /\ cpu' = IF current_slot' = NoSlot THEN cpu ELSE current_slot'
    /\ UNCHANGED <<need_reschedule, ticks, boot_active, sched_ready, idle_pc,
                   image, activation, restart_count>>

UserExitGroup == EndCurrentGroup /\ UNCHANGED phase

\* A fault that finds no thread to resume is reported and halts the CPU.
UserFault ==
    /\ EndCurrentGroup
    /\ phase' = IF current_slot' = NoSlot THEN "halted" ELSE phase

\* service_pending_restart at the top of the idle loop.  The flag is cleared
\* and the attempt counted before the spawn, which may fail.
IdleService ==
    /\ InIdle
    /\ idle_pc \in {"entry", "service"}
    /\ idle_pc' = "cycle"
    /\ restart_pending' = FALSE
    /\ \/ /\ ~restart_pending
          /\ UNCHANGED <<table, runqueue, current_slot, need_reschedule, image,
                         init_pid, restart_count>>
       \/ /\ restart_pending
          /\ restart_count' = restart_count + 1
          /\ \/ /\ activation
                /\ SpawnProcess("init")
                /\ need_reschedule' =
                     (need_reschedule \/ (runqueue' # <<>> /\ Head(runqueue') # current_slot))
             \/ UNCHANGED <<table, runqueue, current_slot, need_reschedule, image, init_pid>>
    /\ UNCHANGED <<ticks, boot_active, sched_ready, phase, cpu, activation>>

\* run_idle_cycle and the hlt that follows.  A switch saves the idle context
\* inside run_idle_cycle, so the idle thread resumes in front of the hlt.
IdleCycle ==
    /\ InIdle
    /\ idle_pc = "cycle"
    /\ idle_pc' = "hlt"
    /\ need_reschedule' = FALSE
    /\ IF need_reschedule /\ NextSwitchExists
       THEN ContextSwitchPair /\ cpu' = current_slot'
       ELSE UNCHANGED <<table, runqueue, current_slot, cpu>>
    /\ UNCHANGED <<ticks, boot_active, sched_ready, phase, initVars>>

Next ==
    \/ Bootstrap \/ BootstrapTimeout \/ BootstrapDone
    \/ SpawnInitAtBoot \/ IdleLoop \/ HaltForever
    \/ TimerInterrupt \/ OtherInterrupt
    \/ UserYield \/ UserSpawn \/ UserExitGroup \/ UserFault
    \/ IdleService \/ IdleCycle

Spec == Init /\ [][Next]_vars

\* Every boot step and idle-loop stretch is finished once begun.  The local APIC
\* timer is periodic, and its interrupt stays pending while interrupts are off,
\* hence strong fairness.  User programs are trusted to make a system call that
\* gives up the CPU, as user/init-zero does in its loop: nothing preempts them.
Fairness ==
    /\ WF_vars(Bootstrap) /\ WF_vars(BootstrapDone)
    /\ WF_vars(SpawnInitAtBoot) /\ WF_vars(IdleLoop)
    /\ SF_vars(TimerInterrupt)
    /\ WF_vars(UserYield \/ UserExitGroup \/ UserFault)
    /\ WF_vars(IdleService) /\ WF_vars(IdleCycle)

FairSpec == Spec /\ Fairness

-----------------------------------------------------------------------------
Multitasking == phase = "multitask"
InState(st) == {s \in Slots : threads[s].state = st}

\* Once threads run, the run queue holds every Runnable slot, no other slot,
\* and none twice: no enqueue is lost or doubled by yield, exit, spawn, restart
\* or an idle switch (enqueue, dequeue and the unlink loops of sched.rs).
RunQueueSound ==
    Multitasking => /\ IsInjective(runqueue)
                    /\ Range(runqueue) = InState("Runnable")

\* The CPU executes the slot the scheduler calls current, and that slot alone
\* is Running (the trap paths resume the context the scheduler has chosen).
CpuRunsCurrent ==
    Multitasking => cpu = current_slot /\ InState("Running") = {cpu}

\* While a user thread has the CPU the idle thread waits in the queue, so the
\* dequeue(..).unwrap() of yield and exit_group cannot fail and an exit always
\* finds a thread to resume.
SuccessorExists == InUserMode => IdleSlot \in Range(runqueue)

\* The bootstrap context is never resumed: the unreachable!() that follows the
\* switch in sched::idle_loop is never executed.
BootstrapGone ==
    Multitasking => /\ cpu # BootstrapSlot
                    /\ BootstrapSlot \notin Range(runqueue)

\* INIT_EXEC never tracks a process that is gone: a tracked pid belongs to a
\* live user thread, so its exit will still be noticed (note_init_exit).
TrackedInitIsLive ==
    init_pid # 0 => \E s \in LiveUserSlots : threads[s].pid = init_pid

\* Init is started at most once plus once per counted restart, also when
\* restarts fail (service_pending_restart counts before it spawns).
RestartBudget ==
    Cardinality({s \in Slots : image[s] = "init"}) <= 1 + restart_count

\* A slot once used keeps its thread id, and an Exited thread stays Exited: a
\* late wake-up or a spawn cannot revive or overwrite it (create_thread).
SlotNeverRecycled ==
    [][\A s \in Slots : threads[s].state # "Unused" =>
         /\ threads'[s].id = threads[s].id
         /\ threads[s].state = "Exited" => threads'[s].state = "Exited"]_vars

\* Under cooperative user programs and a periodic timer every Runnable thread
\* eventually gets the CPU, the idle thread included.
NoStarvation ==
    \A s \in Slots : (Multitasking /\ threads[s].state = "Runnable") ~> (cpu = s)

\* A scheduled restart of init is eventually attempted by the idle thread.
RestartServiced == restart_pending ~> ~restart_pending

-----------------------------------------------------------------------------
\* The inductive invariant behind the safety properties.  Slots fill in order
\* and are never freed, so a thread's id is its slot number plus one.
RoleOf(s) == IF s = BootstrapSlot THEN "Bootstrap" ELSE IF s = IdleSlot THEN "Idle" ELSE "User"

TableSound ==
    /\ thread_count >= 2
    /\ next_thread_id = thread_count + 1
    /\ \A s \in Slots :
         IF s < thread_count
         THEN /\ threads[s].id = s + 1
              /\ threads[s].pid = IF s = IdleSlot THEN 0 ELSE s + 1
              /\ threads[s].role = RoleOf(s)
              /\ threads[s].state \in {"Runnable", "Running", "Exited"}
         ELSE threads[s] = EmptyThread
    /\ threads[IdleSlot].state \in {"Runnable", "Running"}

Dispatched ==
    /\ IsInjective(runqueue)
    /\ Range(runqueue) = InState("Runnable")
    /\ current_slot # NoSlot
    /\ InState("Running") = {current_slot}

\* What the bootstrap ticks make of the table: bootstrap counts as Running from
\* the start, but leaves the queue only with the first tick.
BootTicks ==
    /\ thread_count = 2
    /\ \/ /\ current_slot = NoSlot /\ ticks = 0
          /\ runqueue = <<BootstrapSlot, IdleSlot>>
          /\ threads[BootstrapSlot].state = "Running" /\ threads[IdleSlot].state = "Runnable"
       \/ /\ current_slot = BootstrapSlot
          /\ runqueue = <<IdleSlot>>
          /\ threads[BootstrapSlot].state = "Running" /\ threads[IdleSlot].state = "Runnable"
       \/ /\ current_slot = IdleSlot
          /\ runqueue = <<BootstrapSlot>>
          /\ threads[BootstrapSlot].state = "Runnable" /\ threads[IdleSlot].state = "Running"

\* Where each phase of the boot leaves the scheduler.  The safety invariants
\* follow from it, and every step of Next preserves it.
KernelInv ==
    /\ phase = "boot" => threads = [s \in Slots |-> EmptyThread]
    /\ phase # "boot" => TableSound
    /\ phase = "ticking" => BootTicks
    /\ phase \in {"spawn_init", "enter_idle"} =>
         Dispatched /\ current_slot = BootstrapSlot
    /\ phase = "spawn_init" => thread_count = 2
    /\ phase = "enter_idle" => thread_count <= 3
    /\ phase = "multitask" =>
         Dispatched /\ cpu = current_slot /\ threads[BootstrapSlot].state = "Exited"
    /\ boot_active <=> phase = "ticking"
    /\ TrackedInitIsLive
    /\ restart_pending => restart_count < MaxInitRestarts
    /\ phase \in {"boot", "ticking", "spawn_init"} => \A s \in Slots : image[s] = "none"
    /\ RestartBudget

\* At most one live process runs the init image ("a single well-defined first
\* user process").
SingleInit ==
    Cardinality({s \in LiveUserSlots : image[s] = "init"}) <= 1
=============================================================================
