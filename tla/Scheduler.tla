----------------------------- MODULE Scheduler -----------------------------
(***************************************************************************)
(* The thread table and run queue of kernel/src/sched.rs: the fields of    *)
(* `struct Scheduler`, the atomics next to it, and one definition per      *)
(* method.  The methods run with interrupts off (or read only), so each is *)
(* one step; module Kernel says who calls them and when.                   *)
(*                                                                         *)
(* base_priority is 0 in every thread the code creates, so of the 64 run   *)
(* queues only the one of priority 0 is ever used: it is `runqueue`, and   *)
(* the bitmap test `runqueue_bitmap == 0` is `runqueue = <<>>`.  Dispatch  *)
(* and tick statistics, names and register contexts are left out.          *)
(***************************************************************************)
EXTENDS Integers, Sequences, FiniteSetsExt, Functions

CONSTANTS
    MaxThreads,           \* MAX_THREADS, 8 in the code
    BootstrapTargetTicks  \* BOOTSTRAP_TARGET_TICKS, 3 in the code

\* initialize_bootstrap_threads needs two slots; user threads take the rest.
ASSUME ThreadsAssumption == MaxThreads \in Nat /\ MaxThreads >= 2
ASSUME TicksAssumption == BootstrapTargetTicks \in Nat \ {0}

VARIABLES
    threads,         \* slot -> the Thread in it
    thread_count,
    next_thread_id,
    runqueue,        \* runqueues[0] up to its depth, head first
    current_slot,
    need_reschedule, \* NEED_RESCHEDULE
    ticks,           \* SCHEDULER_TICKS, capped at BootstrapTargetTicks
    boot_active,     \* BOOTSTRAP_ACTIVE
    sched_ready      \* SCHEDULER_READY

table == <<threads, thread_count, next_thread_id>>
schedVars == <<threads, thread_count, next_thread_id, runqueue, current_slot,
               need_reschedule, ticks, boot_active, sched_ready>>

Slots == 0 .. MaxThreads - 1
NoSlot == -1                 \* current_slot = None
BootstrapSlot == 0           \* the slots initialize_bootstrap_threads gives
IdleSlot == 1                \* the two kernel threads

Roles == {"None", "Bootstrap", "Idle", "User"}
States == {"Unused", "Runnable", "Running", "Blocked", "Exited"}

\* process_id and thread_group_id are equal in every thread: both are `pid`.
Thread == [id : Nat, pid : Nat, role : Roles, state : States]
EmptyThread == [id |-> 0, pid |-> 0, role |-> "None", state |-> "Unused"]

SchedTypeOK ==
    /\ threads \in [Slots -> Thread]
    /\ thread_count \in 0 .. MaxThreads
    /\ next_thread_id \in Nat
    /\ runqueue \in Seq(Slots)
    /\ current_slot \in Slots \cup {NoSlot}
    /\ need_reschedule \in BOOLEAN
    /\ ticks \in 0 .. BootstrapTargetTicks
    /\ boot_active \in BOOLEAN
    /\ sched_ready \in BOOLEAN

SchedInit ==
    /\ threads = [s \in Slots |-> EmptyThread]
    /\ thread_count = 0
    /\ next_thread_id = 1
    /\ runqueue = <<>>
    /\ current_slot = NoSlot
    /\ need_reschedule = FALSE
    /\ ticks = 0
    /\ boot_active = FALSE
    /\ sched_ready = FALSE

-----------------------------------------------------------------------------
\* The run queue.  A full queue makes enqueue return RunQueueFull, which every
\* caller but create_user_thread discards.
Enqueue(q, s) == IF Len(q) >= MaxThreads THEN q ELSE Append(q, s)

\* Entries are unlinked by a search for the slot and a shift of the rest.
Unlink(q, s) ==
    LET at == {i \in DOMAIN q : q[i] = s}
    IN  IF at = {} THEN q ELSE SubSeq(q, 1, Min(at) - 1) \o SubSeq(q, Min(at) + 1, Len(q))

SetState(t, s, st) == [t EXCEPT ![s].state = st]

\* The thread that gives up the CPU goes to the back of the queue if it is
\* still Running; a Blocked or Exited one does not.
StopRunning(s) ==
    IF threads[s].state = "Running" THEN SetState(threads, s, "Runnable") ELSE threads

\* Mutant: the thread that gives up the CPU is not queued again.
RequeueForgotten(s) == runqueue

Requeue(s) ==
    IF threads[s].state = "Running" THEN Enqueue(runqueue, s) ELSE runqueue

\* Some slot other than the current one is at the head of the queue.
NextSwitchExists == runqueue # <<>> /\ Head(runqueue) # current_slot

-----------------------------------------------------------------------------
\* Both kernel threads are queued, and bootstrap, though queued, is Running.
InitializeBootstrapThreads ==
    /\ threads' = [s \in Slots |->
         IF s = BootstrapSlot
         THEN [id |-> 1, pid |-> 1, role |-> "Bootstrap", state |-> "Running"]
         ELSE IF s = IdleSlot
              THEN [id |-> 2, pid |-> 0, role |-> "Idle", state |-> "Runnable"]
              ELSE EmptyThread]
    /\ thread_count' = 2
    /\ next_thread_id' = 3
    /\ runqueue' = <<BootstrapSlot, IdleSlot>>
    /\ current_slot' = NoSlot

\* Mutant: thread_count is not advanced, so the next thread takes the same slot.
CreateUserThreadUncounted ==
    /\ thread_count < MaxThreads
    /\ threads' = [threads EXCEPT ![thread_count] =
         [id |-> next_thread_id, pid |-> next_thread_id,
          role |-> "User", state |-> "Runnable"]]
    /\ next_thread_id' = next_thread_id + 1
    /\ runqueue' = Enqueue(runqueue, thread_count)
    /\ UNCHANGED <<thread_count, current_slot>>

\* create_thread takes the slot numbered thread_count, whatever is in it.
CreateUserThread ==
    /\ thread_count < MaxThreads
    /\ threads' = [threads EXCEPT ![thread_count] =
         [id |-> next_thread_id, pid |-> next_thread_id,
          role |-> "User", state |-> "Runnable"]]
    /\ thread_count' = thread_count + 1
    /\ next_thread_id' = next_thread_id + 1
    /\ runqueue' = Enqueue(runqueue, thread_count)
    /\ UNCHANGED current_slot

\* The tick of the bootstrap phase: the table records a switch to the head of
\* the queue, while the CPU goes on with the bootstrap code.
OnTimerTick ==
    LET stopped == IF current_slot = NoSlot THEN threads ELSE StopRunning(current_slot)
        queue   == IF current_slot = NoSlot THEN runqueue ELSE Requeue(current_slot)
    IN  /\ IF queue = <<>>
           THEN /\ threads' = stopped
                /\ runqueue' = queue
                /\ current_slot' = NoSlot
           ELSE /\ threads' = SetState(stopped, Head(queue), "Running")
                /\ runqueue' = Tail(queue)
                /\ current_slot' = Head(queue)
        /\ UNCHANGED <<thread_count, next_thread_id>>

\* Every Running thread is requeued in slot order (thread_count is 2 here),
\* then bootstrap is unlinked and made current again.
RestoreBootstrapAsCurrent ==
    LET put(q, s) == IF threads[s].state = "Running" THEN Enqueue(q, s) ELSE q
        stopped   == [s \in Slots |-> IF threads[s].state = "Running"
                                      THEN [threads[s] EXCEPT !.state = "Runnable"]
                                      ELSE threads[s]]
    IN  /\ threads' = SetState(stopped, BootstrapSlot, "Running")
        /\ runqueue' = Unlink(put(put(runqueue, BootstrapSlot), IdleSlot), BootstrapSlot)
        /\ current_slot' = BootstrapSlot
        /\ UNCHANGED <<thread_count, next_thread_id>>

-----------------------------------------------------------------------------
LiveUserSlots ==
    {s \in Slots : s < thread_count /\ threads[s].role = "User" /\ threads[s].state # "Exited"}

\* first_runnable_user_slot, else the idle thread.
InitialTarget ==
    IF LiveUserSlots = {} THEN IdleSlot
    ELSE CHOOSE s \in LiveUserSlots : \A r \in LiveUserSlots : s <= r

\* initial_context_pair: bootstrap exits, so activate_thread_slot finds it not
\* Running and does not requeue it; the target leaves the queue and runs.
InitialContextPair ==
    LET exited == SetState(threads, BootstrapSlot, "Exited")
    IN  /\ threads' = SetState(exited, InitialTarget, "Running")
        /\ runqueue' = Unlink(runqueue, InitialTarget)
        /\ current_slot' = InitialTarget
        /\ UNCHANGED <<thread_count, next_thread_id>>

\* Mutant: the thread switched away from is not put back into the queue.
ContextSwitchPairNoRequeue ==
    /\ current_slot # NoSlot
    /\ NextSwitchExists
    /\ threads' = SetState(StopRunning(current_slot), Head(runqueue), "Running")
    /\ runqueue' = Tail(runqueue)
    /\ current_slot' = Head(runqueue)
    /\ UNCHANGED <<thread_count, next_thread_id>>

\* Returns Some: the current thread is requeued and the head runs.
ContextSwitchPair ==
    /\ current_slot # NoSlot
    /\ NextSwitchExists
    /\ LET queue == Requeue(current_slot)
       IN  /\ threads' = SetState(StopRunning(current_slot), Head(queue), "Running")
           /\ runqueue' = Tail(queue)
           /\ current_slot' = Head(queue)
    /\ UNCHANGED <<thread_count, next_thread_id>>

\* sched_yield of the user thread that is current.  With an empty queue after
\* the requeue nothing is dispatched and the caller keeps the CPU.
YieldCurrentUserThread ==
    LET queue   == Requeue(current_slot)
        stopped == StopRunning(current_slot)
    IN  /\ current_slot # NoSlot
        /\ threads[current_slot].role = "User"
        /\ threads[current_slot].state # "Exited"
        /\ IF queue = <<>>
           THEN /\ threads' = stopped
                /\ UNCHANGED <<runqueue, current_slot>>
           ELSE /\ threads' = SetState(stopped, Head(queue), "Running")
                /\ runqueue' = Tail(queue)
                /\ current_slot' = Head(queue)
        /\ UNCHANGED <<thread_count, next_thread_id>>

Group(g) ==
    {s \in Slots : s < thread_count /\ threads[s].pid = g /\ threads[s].state # "Exited"}

\* The queue is rewritten only when a member of the group is found in it.
UnlinkGroup(q, G) ==
    IF Range(q) \cap G = {} THEN q ELSE SelectSeq(q, LAMBDA s : s \notin G)

\* Every thread of the current thread's group exits and leaves the queue, and
\* the head of the queue becomes current; nothing does if the queue is empty.
RequestExitGroup ==
    LET G      == Group(threads[current_slot].pid)
        queue  == UnlinkGroup(runqueue, G)
        exited == [s \in Slots |-> IF s \in G
                                   THEN [threads[s] EXCEPT !.state = "Exited"]
                                   ELSE threads[s]]
    IN  /\ current_slot # NoSlot
        /\ threads[current_slot].state # "Exited"
        /\ threads[current_slot].pid # 0
        /\ IF queue = <<>>
           THEN /\ threads' = exited
                /\ runqueue' = queue
                /\ current_slot' = NoSlot
           ELSE /\ threads' = SetState(exited, Head(queue), "Running")
                /\ runqueue' = Tail(queue)
                /\ current_slot' = Head(queue)
        /\ UNCHANGED <<thread_count, next_thread_id>>

\* Mutant: the tick after boot forgets to ask for a reschedule.
OnTimerInterruptNoRequest ==
    /\ boot_active \/ sched_ready
    /\ ticks' = IF ticks < BootstrapTargetTicks THEN ticks + 1 ELSE ticks
    /\ IF boot_active THEN OnTimerTick ELSE UNCHANGED <<table, runqueue, current_slot>>
    /\ UNCHANGED <<need_reschedule, boot_active, sched_ready>>

\* on_timer_interrupt: a tick of the bootstrap phase switches threads in the
\* table; later ones only ask the idle thread to look at the queue.  Outside
\* both phases it returns at once.
OnTimerInterrupt ==
    /\ boot_active \/ sched_ready
    /\ ticks' = IF ticks < BootstrapTargetTicks THEN ticks + 1 ELSE ticks
    /\ IF boot_active
       THEN OnTimerTick /\ UNCHANGED need_reschedule
       ELSE /\ need_reschedule' = (need_reschedule \/ NextSwitchExists)
            /\ UNCHANGED <<table, runqueue, current_slot>>
    /\ UNCHANGED <<boot_active, sched_ready>>
=============================================================================
