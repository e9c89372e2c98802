------------------------------ MODULE Processes ------------------------------
(***************************************************************************)
(* Process calls that involve two processes: fork and wait4 of syscall.rs  *)
(* over sched.rs's thread table, and the forwarding of POSIX calls to a    *)
(* compatibility server in user space (LCL): the caller's request goes     *)
(* into the ring LCL_QUEUE and the caller blocks; a server receives the    *)
(* request and returns a result, which unblocks the caller.                *)
(*                                                                         *)
(* Which ready thread runs next is module Scheduler's; here any of them    *)
(* may.  A forked thread is a process of its own, so a thread's id is its  *)
(* process id.  No dispatch table names fork or wait4 yet and no ABI       *)
(* selector decodes to the forwarded one; the handlers are modelled as     *)
(* they stand.  Arguments and results of calls are left out.               *)
(***************************************************************************)
EXTENDS Integers, Sequences, FiniteSets

CONSTANTS
    ProcSlots,    \* MAX_THREADS, 8
    LclSlots,     \* messages in LCL_QUEUE, 64
    MaxPid,       \* bound: ids given out
    MaxCalls,     \* bound: forwarded calls
    Statuses      \* exit statuses

\* A blocked thread has one request and the server does not block, so the ring
\* holds the requests of all threads.
ASSUME ProcAssumption ==
    /\ {ProcSlots, LclSlots} \subseteq Nat \ {0} /\ ProcSlots >= 2
    /\ MaxPid \in Nat /\ MaxCalls \in Nat
    /\ ProcSlots - 1 <= LclSlots

VARIABLES
    procs,        \* slot -> thread
    proc_count,   \* thread_count
    next_pid,     \* next_thread_id
    failed_forks, \* forks that found a slot but no memory
    reaped,       \* what wait4 returned, in order
    lcl,          \* LCL_QUEUE
    held,         \* requests received and not answered yet: <<server, request>>
    lost,         \* requests dropped: not copied out, or received by a server that exited
    calls         \* forwarded calls made

procVars == <<procs, proc_count, next_pid, failed_forks, reaped, lcl, held, lost, calls>>

Proc == 0 .. ProcSlots - 1
Server == 2                   \* the id of the compatibility server
NoMessage == [tid |-> 0, call |-> 0]
UnusedThread == [id |-> 0, parent |-> 0, state |-> "Unused", status |-> 0, call |-> 0]

\* init and the server are running.
ProcInit ==
    /\ procs = [s \in Proc |-> CASE s = 0 -> [UnusedThread EXCEPT !.id = 1, !.state = "Ready"]
                                 [] s = 1 -> [UnusedThread EXCEPT !.id = Server, !.state = "Ready"]
                                 [] OTHER -> UnusedThread]
    /\ proc_count = 2 /\ next_pid = 3 /\ failed_forks = 0
    /\ reaped = <<>>
    /\ lcl = [messages |-> [i \in 0 .. LclSlots - 1 |-> NoMessage], head |-> 0, tail |-> 0]
    /\ held = {} /\ lost = {} /\ calls = 0

lclVars == <<lcl, held, lost, calls>>
First(S) == CHOOSE s \in S : \A t \in S : s <= t
Ready(s) == procs[s].state = "Ready"

-----------------------------------------------------------------------------
\* fork_current_thread takes the first Unused slot.  The id and the count are
\* spent before the address space is cloned, also when that fails.
Fork(s, cloned) ==
    LET unused == {i \in Proc : procs[i].state = "Unused"}
    IN  /\ Ready(s) /\ unused # {}
        /\ next_pid <= MaxPid
        /\ next_pid' = next_pid + 1 /\ proc_count' = proc_count + 1
        /\ IF cloned
           THEN /\ procs' = [procs EXCEPT ![First(unused)] =
                      [id |-> next_pid, parent |-> procs[s].id, state |-> "Ready", status |-> 0,
                       call |-> 0]]
                /\ UNCHANGED failed_forks
           ELSE failed_forks' = failed_forks + 1 /\ UNCHANGED procs
        /\ UNCHANGED <<reaped, lclVars>>

\* request_exit_group, and the exit of a server with requests in hand.
ProcExit(s, status) ==
    /\ Ready(s) /\ procs[s].id # 1
    /\ procs' = [procs EXCEPT ![s].state = "Exited", ![s].status = status]
    /\ held' = {h \in held : h[1] # procs[s].id}
    /\ lost' = lost \cup {h[2] : h \in held \ held'}
    /\ UNCHANGED <<proc_count, next_pid, failed_forks, reaped, lcl, calls>>

\* Mutant: the slot of a reaped child stays Exited.
Wait4Again(s) ==
    LET done == {i \in Proc : procs[i].parent = procs[s].id /\ procs[i].state = "Exited"}
    IN  /\ Ready(s) /\ done # {} /\ Len(reaped) <= MaxPid
        /\ reaped' = Append(reaped, [parent |-> procs[s].id, pid |-> procs[First(done)].id,
                                     status |-> procs[First(done)].status])
        /\ UNCHANGED <<procs, proc_count, next_pid, failed_forks, lclVars>>

\* sys_wait4(-1) and reap_child: the first Exited child.  With none, the call
\* answers 0 or an error and changes nothing.
Wait4(s) ==
    LET done == {i \in Proc : procs[i].parent = procs[s].id /\ procs[i].state = "Exited"}
    IN  /\ Ready(s) /\ done # {}
        /\ reaped' = Append(reaped, [parent |-> procs[s].id, pid |-> procs[First(done)].id,
                                     status |-> procs[First(done)].status])
        /\ procs' = [procs EXCEPT ![First(done)].state = "Unused"]
        /\ proc_count' = proc_count - 1
        /\ UNCHANGED <<next_pid, failed_forks, lclVars>>

-----------------------------------------------------------------------------
\* enqueue_lcl_message overwrites whatever is at the head.
EnqueueLcl(q, m) ==
    [q EXCEPT !.messages = [@ EXCEPT ![q.head] = m], !.head = (q.head + 1) % LclSlots]

\* Mutant: the message is copied and not taken out of its slot.
DequeueLclCopies(q) ==
    LET m == q.messages[q.tail]
    IN  [message |-> m,
         queue |-> IF m = NoMessage THEN q ELSE [q EXCEPT !.tail = (q.tail + 1) % LclSlots]]

\* dequeue_lcl_message: equal indices mean empty or full, and the slot tells.
DequeueLcl(q) ==
    LET m == q.messages[q.tail]
    IN  [message |-> m,
         queue |-> IF m = NoMessage THEN q
                   ELSE [q EXCEPT !.messages = [@ EXCEPT ![q.tail] = NoMessage],
                                  !.tail = (q.tail + 1) % LclSlots]]

\* dispatch of a forwarded call: enqueue, block_current_thread, yield.
LclCall(s) ==
    /\ Ready(s) /\ procs[s].id # Server
    /\ calls < MaxCalls
    /\ calls' = calls + 1
    /\ lcl' = EnqueueLcl(lcl, [tid |-> procs[s].id, call |-> calls + 1])
    /\ procs' = [procs EXCEPT ![s].state = "Blocked", ![s].call = calls + 1]
    /\ UNCHANGED <<proc_count, next_pid, failed_forks, reaped, held, lost>>

\* lcl_receive: the request is gone from the ring also when the server's
\* buffer is bad (copied = FALSE).
LclReceive(s, copied) ==
    LET got == DequeueLcl(lcl)
    IN  /\ Ready(s) /\ procs[s].id = Server
        /\ got.message # NoMessage
        /\ lcl' = got.queue
        /\ held' = IF copied THEN held \cup {<<Server, got.message>>} ELSE held
        /\ lost' = IF copied THEN lost ELSE lost \cup {got.message}
        /\ UNCHANGED <<procs, proc_count, next_pid, failed_forks, reaped, calls>>

\* lcl_return and unblock_thread_with_result: a server answers a request it
\* has received, in any order.
LclReturn(s, h) ==
    /\ Ready(s) /\ procs[s].id = h[1]
    /\ held' = held \ {h}
    /\ procs' = [i \in Proc |-> IF procs[i].id = h[2].tid /\ procs[i].state = "Blocked"
                                THEN [procs[i] EXCEPT !.state = "Ready"] ELSE procs[i]]
    /\ UNCHANGED <<proc_count, next_pid, failed_forks, reaped, lcl, lost, calls>>

ProcNext ==
    \E s \in Proc :
        \/ \E cloned \in BOOLEAN : Fork(s, cloned)
        \/ \E st \in Statuses : ProcExit(s, st)
        \/ Wait4(s)
        \/ LclCall(s)
        \/ \E copied \in BOOLEAN : LclReceive(s, copied)
        \/ \E h \in held : LclReturn(s, h)

ProcSpec == ProcInit /\ [][ProcNext]_procVars

-----------------------------------------------------------------------------
InRing == {i \in DOMAIN lcl.messages : lcl.messages[i] # NoMessage}
Outstanding == {lcl.messages[i] : i \in InRing} \cup {h[2] : h \in held} \cup lost

\* A thread is blocked exactly while one request of its own, its last, is in
\* the ring, with a server, or lost by a failed copy or a server's exit: no
\* request is overwritten although enqueue_lcl_message never looks whether
\* the ring is full, no thread is woken by an answer to someone else or to an
\* earlier call, and the ring's two indices never hide a request.
CallsConserved ==
    /\ \A m \in Outstanding : \E s \in Proc :
          procs[s] = [procs[s] EXCEPT !.id = m.tid, !.state = "Blocked", !.call = m.call]
    /\ \A s \in Proc : procs[s].state = "Blocked" =>
          Cardinality({i \in InRing : lcl.messages[i].tid = procs[s].id})
            + Cardinality({h \in held : h[2].tid = procs[s].id})
            + Cardinality({m \in lost : m.tid = procs[s].id}) = 1
    /\ InRing # {} => lcl.messages[lcl.tail] # NoMessage

\* wait4 returns each child's exit status once, to its parent: a status is in
\* the table until the parent has it, and thread_count is the number of used
\* slots plus the forks that failed for want of memory.
ChildrenAccounted ==
    /\ \A i, j \in DOMAIN reaped : reaped[i].pid = reaped[j].pid => i = j
    /\ \A i \in DOMAIN reaped : \A s \in Proc :
          procs[s].state # "Unused" => procs[s].id # reaped[i].pid
    /\ proc_count = Cardinality({s \in Proc : procs[s].state # "Unused"}) + failed_forks
=============================================================================
