------------------------------ MODULE Devices ------------------------------
(***************************************************************************)
(* Two drivers behind a spin lock that masks interrupts: supernova.rs,     *)
(* whose doorbell and completion registers are served by the coprocessor's *)
(* own processor (GSP), and neoio/mod.rs, whose device tree grows when a   *)
(* hot-plug interrupt arrives.  syscall.rs guards LCL_QUEUE the same way.  *)
(*                                                                         *)
(* One CPU: `contexts` is the running code, the last entry on top of those *)
(* it interrupted.  Each locked section ends with sti, also inside an      *)
(* interrupt handler, so handlers nest.  The coprocessor latches the last  *)
(* value written to the doorbell, and may miss one that is overwritten.    *)
(***************************************************************************)
EXTENDS Integers, Sequences

CONSTANTS
    TreeNodes,    \* nodes of the device tree, 64
    RouteSizes,   \* payload sizes of route_sxrc, which double as its task ids
    MaxSyncs,     \* bound: calls of synchronize
    MaxNesting    \* bound: interrupts on top of each other

\* synchronize counts its ids from 1 while route_sxrc uses the payload's size: a
\* size that is also a later id would be taken for its completion.
ASSUME DeviceAssumption ==
    /\ TreeNodes \in Nat /\ MaxSyncs \in Nat /\ MaxNesting \in Nat
    /\ \A n \in RouteSizes : n \in Nat /\ n > MaxSyncs

VARIABLES
    contexts,     \* the call each context is in and its next step
    irq_on,       \* the CPU's interrupt flag
    tree_active,  \* NeoIoManager::is_active
    tree,         \* nodes[..node_count]
    lock_held,    \* driver -> its lock flag
    seq_tracker,
    doorbell, completion, ack,
    rung,         \* the doorbell has been written and not served
    served        \* ids the GSP has worked on since their last doorbell

devVars == <<contexts, irq_on, tree_active, tree, lock_held, seq_tracker, doorbell, completion,
             ack, rung, served>>

Drivers == {"supernova", "neoio"}
DriverOf(op) == IF op \in {"sync", "route"} THEN "supernova" ELSE "neoio"
Call(op, arg) == [op |-> op, at |-> "cli", id |-> arg]

DevInit ==
    /\ contexts = <<>> /\ irq_on = TRUE
    /\ tree_active = FALSE /\ tree = <<>>
    /\ lock_held = [d \in Drivers |-> FALSE]
    /\ seq_tracker = 0
    /\ doorbell = 0 /\ completion = 0 /\ ack = 0 /\ rung = FALSE
    /\ served = {}

regs == <<seq_tracker, doorbell, completion, ack, rung, served>>
trees == <<tree_active, tree>>
Top == contexts[Len(contexts)]
Running(at) == contexts # <<>> /\ Top.at = at
Goto(at) == contexts' = [contexts EXCEPT ![Len(contexts)].at = at]

-----------------------------------------------------------------------------
\* Kernel code calls a driver.
CallDriver(op, arg) ==
    /\ contexts = <<>>
    /\ op = "sync" => seq_tracker < MaxSyncs
    /\ contexts' = <<Call(op, arg)>>
    /\ UNCHANGED <<irq_on, trees, lock_held, regs>>

\* The hot-plug interrupt: the gate clears the flag.  Before init the
\* handler returns at once.
HotPlug ==
    /\ irq_on /\ Len(contexts) <= MaxNesting
    /\ tree_active
    /\ contexts' = Append(contexts, Call("inject", 0)) /\ irq_on' = FALSE
    /\ UNCHANGED <<trees, lock_held, regs>>

\* Mutant: the lock does not mask interrupts.
MaskForgotten ==
    /\ Running("cli")
    /\ Goto("spin")
    /\ UNCHANGED <<irq_on, trees, lock_held, regs>>

Mask ==
    /\ Running("cli")
    /\ irq_on' = FALSE /\ Goto("spin")
    /\ UNCHANGED <<trees, lock_held, regs>>

\* compare_exchange, tried until it succeeds.
Acquire ==
    /\ Running("spin") /\ ~ lock_held[DriverOf(Top.op)]
    /\ lock_held' = [lock_held EXCEPT ![DriverOf(Top.op)] = TRUE]
    /\ Goto("body")
    /\ UNCHANGED <<irq_on, trees, regs>>

\* NeoIoManager::init.
ActivateTree ==
    /\ Running("body") /\ Top.op = "init"
    /\ tree_active' = TRUE /\ Goto("unlock")
    /\ UNCHANGED <<irq_on, tree, lock_held, regs>>

\* inject_dynamic_fdt_node: a full tree only logs.
InjectNode ==
    /\ Running("body") /\ Top.op = "inject"
    /\ tree' = IF Len(tree) < TreeNodes THEN Append(tree, "isolated") ELSE tree
    /\ Goto("unlock")
    /\ UNCHANGED <<irq_on, tree_active, lock_held, regs>>

Ring(id) == doorbell' = id /\ rung' = TRUE /\ served' = served \ {id}

\* write_to_ring_buffer: a payload must lie in its data and fit the shared memory.
RingBufferTakes == BOOLEAN

\* route_sxrc rings for a payload that was written and does not wait.
Route ==
    /\ Running("body") /\ Top.op = "route"
    /\ \E written \in RingBufferTakes :
          IF written THEN Ring(Top.id) ELSE UNCHANGED <<doorbell, rung, served>>
    /\ Goto("unlock")
    /\ UNCHANGED <<irq_on, trees, lock_held, seq_tracker, completion, ack>>

\* Mutant: fetch_add's old value is the id, without the wrapping_add(1).
SyncRingOldId ==
    /\ Running("body") /\ Top.op = "sync"
    /\ seq_tracker' = seq_tracker + 1
    /\ Ring(seq_tracker)
    /\ contexts' = [contexts EXCEPT ![Len(contexts)].at = "wait", ![Len(contexts)].id = seq_tracker]
    /\ UNCHANGED <<irq_on, trees, lock_held, completion, ack>>

SyncRing ==
    /\ Running("body") /\ Top.op = "sync"
    /\ seq_tracker' = seq_tracker + 1
    /\ Ring(seq_tracker + 1)
    /\ contexts' = [contexts EXCEPT ![Len(contexts)].at = "wait", ![Len(contexts)].id = seq_tracker + 1]
    /\ UNCHANGED <<irq_on, trees, lock_held, completion, ack>>

\* wait_for_gsp and ack_task.
SyncAck ==
    /\ Running("wait") /\ completion = Top.id
    /\ ack' = Top.id /\ Goto("unlock")
    /\ UNCHANGED <<irq_on, trees, lock_held, seq_tracker, doorbell, completion, rung, served>>

\* Drop of the guard and unlock_tree: the flag is cleared, then sti.
Release ==
    /\ Running("unlock")
    /\ lock_held' = [lock_held EXCEPT ![DriverOf(Top.op)] = FALSE]
    /\ Goto("sti")
    /\ UNCHANGED <<irq_on, trees, regs>>

Unmask ==
    /\ Running("sti")
    /\ irq_on' = TRUE /\ Goto("return")
    /\ UNCHANGED <<trees, lock_held, regs>>

\* iret and ret both leave interrupts on: a handler interrupted code that had them on.
Return ==
    /\ Running("return")
    /\ contexts' = SubSeq(contexts, 1, Len(contexts) - 1)
    /\ irq_on' = TRUE
    /\ UNCHANGED <<trees, lock_held, regs>>

\* The coprocessor.
Gsp ==
    /\ rung
    /\ completion' = doorbell /\ served' = served \cup {doorbell} /\ rung' = FALSE
    /\ UNCHANGED <<contexts, irq_on, trees, lock_held, seq_tracker, doorbell, ack>>

DevNext ==
    \/ \E op \in {"sync", "init"} : CallDriver(op, 0)
    \/ \E n \in RouteSizes : CallDriver("route", n)
    \/ HotPlug \/ Mask \/ Acquire \/ ActivateTree \/ InjectNode \/ Route \/ SyncRing \/ SyncAck
    \/ Release \/ Unmask \/ Return \/ Gsp

DevSpec == DevInit /\ [][DevNext]_devVars

-----------------------------------------------------------------------------
\* No context waits for a lock: the code that holds one cannot be interrupted
\* by a handler that wants it, however deep handlers nest, so on the one CPU
\* the spin loops of lock_tree and lock never turn.
NeverSpins ==
    Running("spin") => ~ lock_held[DriverOf(Top.op)]

\* When synchronize acknowledges its task the GSP has worked on it: the
\* completion it saw is not one left over from an earlier task or route.
SyncWaits ==
    Running("unlock") /\ Top.op = "sync" => Top.id \in served
=============================================================================
