------------------------------- MODULE HSched -------------------------------
(***************************************************************************)
(* The lock-free ring of kernel/src/hsched.rs: submit_workload by any      *)
(* number of producers (system calls, vector 0x81, other cores) against    *)
(* dispatch_pending by any number of dispatchers (the kernel, or a .hxext  *)
(* extension that got the ring from hps_get_shared_buffer).                *)
(*                                                                         *)
(* One step per access to shared memory.  Stores become visible in order   *)
(* (x86, and Release on `sequence`).  Positions do not wrap: 2^64 are more *)
(* than a run can claim.  A task is its id; an encoded task has its valid  *)
(* bit set and so is never 0, the value of a cell that was never written.  *)
(***************************************************************************)
EXTENDS Integers, Sequences, FiniteSets

CONSTANTS
    Producers,
    Consumers,
    Size,        \* the length of SharedRingBuffer.buffer, 16 in the code
    MaxSubmits   \* bound on the calls of submit_workload

ASSUME RingAssumption ==
    /\ Size \in Nat /\ Size >= 2
    /\ MaxSubmits \in Nat
    /\ Producers \cap Consumers = {}

VARIABLES
    next_id,
    tail, head,
    sequence, data,  \* the two fields of buffer[i]
    pc, pos,         \* of every producer and dispatcher
    task,            \* producer -> id it submits; dispatcher -> data it read
    log              \* history: the accepted tasks, by position

vars == <<next_id, tail, head, sequence, data, pc, pos, task, log>>
ring == <<next_id, tail, head, sequence, data, log>>

Procs == Producers \cup Consumers
Cells == 0 .. Size - 1
Cell(n) == n % Size

Init ==
    /\ next_id = 1
    /\ tail = 0 /\ head = 0
    /\ sequence = [i \in Cells |-> i]
    /\ data = [i \in Cells |-> 0]
    /\ pc = [p \in Procs |-> "idle"]
    /\ pos = [p \in Procs |-> 0]
    /\ task = [p \in Procs |-> 0]
    /\ log = <<>>

Goto(p, l) == pc' = [pc EXCEPT ![p] = l]

-----------------------------------------------------------------------------
\* submit_workload.  The id is taken first, so a rejected call uses one up.
SubmitBegin(p) ==
    /\ pc[p] = "idle"
    /\ next_id <= MaxSubmits
    /\ next_id' = next_id + 1
    /\ task' = [task EXCEPT ![p] = next_id]
    /\ Goto(p, "load_pos")
    /\ UNCHANGED <<tail, head, sequence, data, pos, log>>

SubmitLoadTail(p) ==
    /\ pc[p] = "load_pos"
    /\ pos' = [pos EXCEPT ![p] = tail]
    /\ Goto(p, "load_seq")
    /\ UNCHANGED <<ring, task>>

\* Mutant: a full ring is waited for.
SubmitLoadSeqSpins(p) ==
    /\ pc[p] = "load_seq"
    /\ Goto(p, IF sequence[Cell(pos[p])] = pos[p] THEN "cas" ELSE "load_pos")
    /\ UNCHANGED <<ring, pos, task>>

\* The cell is free for this position, still taken ("Task queue is full"), or
\* already used by a later one.
SubmitLoadSeq(p) ==
    LET dif == sequence[Cell(pos[p])] - pos[p]
    IN  /\ pc[p] = "load_seq"
        /\ Goto(p, IF dif = 0 THEN "cas" ELSE IF dif < 0 THEN "idle" ELSE "load_pos")
        /\ UNCHANGED <<ring, pos, task>>

SubmitCas(p) ==
    /\ pc[p] = "cas"
    /\ IF tail = pos[p]
       THEN /\ tail' = tail + 1
            /\ log' = Append(log, task[p])
            /\ Goto(p, "access")
            /\ UNCHANGED pos
       ELSE /\ pos' = [pos EXCEPT ![p] = tail]
            /\ Goto(p, "load_seq")
            /\ UNCHANGED <<tail, log>>
    /\ UNCHANGED <<next_id, head, sequence, data, task>>

SubmitStoreData(p) ==
    /\ pc[p] = "access"
    /\ data' = [data EXCEPT ![Cell(pos[p])] = task[p]]
    /\ Goto(p, "store_seq")
    /\ UNCHANGED <<next_id, tail, head, sequence, pos, task, log>>

SubmitStoreSeq(p) ==
    /\ pc[p] = "store_seq"
    /\ sequence' = [sequence EXCEPT ![Cell(pos[p])] = pos[p] + 1]
    /\ Goto(p, "idle")
    /\ UNCHANGED <<next_id, tail, head, data, pos, task, log>>

Submit(p) ==
    \/ SubmitLoadTail(p) \/ SubmitLoadSeq(p) \/ SubmitCas(p)
    \/ SubmitStoreData(p) \/ SubmitStoreSeq(p)

-----------------------------------------------------------------------------
\* dispatch_pending takes tasks until it meets a cell that is not published.
DispatchLoadHead(c) ==
    /\ pc[c] \in {"idle", "load_pos"}
    /\ pos' = [pos EXCEPT ![c] = head]
    /\ Goto(c, "load_seq")
    /\ UNCHANGED <<ring, task>>

\* Mutant: a lost race is taken for an empty ring.
DispatchLoadSeqGivesUp(c) ==
    /\ pc[c] = "load_seq"
    /\ Goto(c, IF sequence[Cell(pos[c])] = pos[c] + 1 THEN "cas" ELSE "idle")
    /\ UNCHANGED <<ring, pos, task>>

DispatchLoadSeq(c) ==
    LET dif == sequence[Cell(pos[c])] - (pos[c] + 1)
    IN  /\ pc[c] = "load_seq"
        /\ Goto(c, IF dif = 0 THEN "cas" ELSE IF dif < 0 THEN "idle" ELSE "load_pos")
        /\ UNCHANGED <<ring, pos, task>>

\* Mutant: head is stored without comparing it with the position read before.
DispatchCasBlind(c) ==
    /\ pc[c] = "cas"
    /\ head' = pos[c] + 1
    /\ Goto(c, "access")
    /\ UNCHANGED <<next_id, tail, sequence, data, pos, task, log>>

DispatchCas(c) ==
    /\ pc[c] = "cas"
    /\ IF head = pos[c]
       THEN head' = head + 1 /\ Goto(c, "access") /\ UNCHANGED pos
       ELSE /\ pos' = [pos EXCEPT ![c] = head]
            /\ Goto(c, "load_seq")
            /\ UNCHANGED head
    /\ UNCHANGED <<next_id, tail, sequence, data, task, log>>

DispatchLoadData(c) ==
    /\ pc[c] = "access"
    /\ task' = [task EXCEPT ![c] = data[Cell(pos[c])]]
    /\ Goto(c, "store_seq")
    /\ UNCHANGED <<ring, pos>>

DispatchStoreSeq(c) ==
    /\ pc[c] = "store_seq"
    /\ sequence' = [sequence EXCEPT ![Cell(pos[c])] = pos[c] + Size]
    /\ pos' = [pos EXCEPT ![c] = pos[c] + 1]
    /\ Goto(c, "load_seq")
    /\ UNCHANGED <<next_id, tail, head, data, task, log>>

Dispatch(c) ==
    \/ DispatchLoadSeq(c) \/ DispatchCas(c)
    \/ DispatchLoadData(c) \/ DispatchStoreSeq(c)

\* Mutant: the position before the task's own counts as its completion.
PollEarly(t) == t <= head + 1

\* sys_heterexec_poll: a task id up to head counts as completed.
Poll(t) == t <= head

Next ==
    \/ \E p \in Producers : SubmitBegin(p) \/ Submit(p)
    \/ \E c \in Consumers : DispatchLoadHead(c) \/ Dispatch(c)

Spec == Init /\ [][Next]_vars

\* Only one producer is sure to go on; every other process may stop anywhere,
\* as a submit interrupted on its way or a dispatcher on another device does.
Urgent == CHOOSE p \in Producers : TRUE
UrgentSpec == Spec /\ WF_vars(Submit(Urgent))

-----------------------------------------------------------------------------
Owns(p, n) == pc[p] \in {"access", "store_seq"} /\ pos[p] = n

\* What the ring is to its users: the positions from head to tail wait, and a
\* dispatcher has the task of the position it took until it frees the cell.
Waiting == SubSeq(log, head + 1, tail)
InHand ==
    [c \in Consumers |-> CASE pc[c] = "access"    -> data[Cell(pos[c])]
                           [] pc[c] = "store_seq" -> task[c]
                           [] OTHER               -> 0]
Accepted == {log[i] : i \in 1 .. Len(log)}

Queue == INSTANCE TaskQueue WITH
    Tasks <- 1 .. MaxSubmits, queue <- Waiting, hand <- InHand, accepted <- Accepted

\* The ring implements the bounded queue: claimed positions are dispatched in
\* order, each to one dispatcher, which reads the task stored for that position
\* and not one of an earlier or later lap of the ring.
IsBoundedQueue == Queue!Spec

\* A step at which submit_workload or dispatch_pending gives up has a reason.
HonestStep ==
    /\ \A p \in Producers : pc[p] = "load_seq" /\ pc'[p] = "idle" =>
         /\ pos[p] = tail /\ tail >= Size
         /\ tail - Size >= head \/ \E c \in Consumers : Owns(c, tail - Size)
    /\ \A c \in Consumers : pc[c] = "load_seq" /\ pc'[c] = "idle" =>
         /\ pos[c] = head
         /\ head = tail \/ \E p \in Producers : Owns(p, head)

\* Neither side gives up for a race it lost.  submit_workload reports "Task
\* queue is full" only while the task accepted Size positions earlier still
\* occupies its cell, and dispatch_pending stops only when nothing is queued or
\* the oldest position is claimed by a submit that has not published its task.
RefusalsHonest == [][HonestStep]_vars

\* A submit returns although every other process may have stopped at any point
\* ("bypasses Neonix OS blocking", hsched.rs:116).
SubmitNeverBlocks == pc[Urgent] # "idle" ~> pc[Urgent] = "idle"

\* heterexec_poll compares a task id with a ring position.  While submits do not
\* overlap (system calls and vector 0x81 run with interrupts off on one CPU) it
\* never reports a task that still waits in the ring, rejected submits or not.
PollIsSound == \A i \in 1 .. Len(log) : Poll(log[i]) => i <= head
=============================================================================
