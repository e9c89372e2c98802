----------------------------- MODULE FileTable -----------------------------
(***************************************************************************)
(* Open files of kernel/src/syscall.rs: the system-wide FILE_TABLE with    *)
(* its reference counts, and the descriptor table each thread of sched.rs  *)
(* carries (fd_table).  A system call runs with interrupts off, so a call  *)
(* is one step; any live thread may make the next one.  A call that fails  *)
(* changes nothing and has no action.                                      *)
(*                                                                         *)
(* The dispatch tables reach open, close, exit and the calls that only     *)
(* read; dup, dup2 and pipe are handlers that no table names yet, and are  *)
(* modelled with the rest.  Paths, contents and offsets are left out.      *)
(***************************************************************************)
EXTENDS Integers, FiniteSets, FiniteSetsExt

CONSTANTS
    Threads,     \* the threads that are ever created
    MaxFds,      \* MAX_PROCESS_FDS, 64 in the code
    MaxFiles     \* MAX_SYSTEM_FILES, 128 in the code

ASSUME FilesAssumption ==
    /\ IsFiniteSet(Threads)
    /\ MaxFds \in Nat /\ MaxFds >= 3
    /\ MaxFiles \in Nat

VARIABLES
    files,   \* FILE_TABLE: index -> is_used, ref_count
    fds,     \* thread -> descriptor -> index, or None
    life     \* thread -> whether it lives, or how it ended

vars == <<files, fds, life>>

Fds == 0 .. MaxFds - 1
FirstFd == 3                 \* 0 to 2 are never given out, but dup2 may name them
Files == 0 .. MaxFiles - 1
None == -1

OpenFile == [used : BOOLEAN, refs : Nat \ {0}]
Lives == {"unborn", "live", "exited", "faulted"}

TypeOK ==
    /\ files \in [Files -> OpenFile]
    /\ fds \in [Threads -> [Fds -> Files \cup {None}]]
    /\ life \in [Threads -> Lives]

\* ref_count of an unused entry is never read: 1 stands for its initial 0.
Init ==
    /\ files = [i \in Files |-> [used |-> FALSE, refs |-> 1]]
    /\ fds = [t \in Threads |-> [d \in Fds |-> None]]
    /\ life = [t \in Threads |-> "unborn"]

Live(t) == life[t] = "live"
FreeFiles == {i \in Files : ~files[i].used}
FreeFds(t) == {d \in Fds : d >= FirstFd /\ fds[t][d] = None}
Fresh == [used |-> TRUE, refs |-> 1]

-----------------------------------------------------------------------------
\* create_thread: the new thread has no descriptors.
Spawn(t) ==
    /\ life[t] = "unborn"
    /\ life' = [life EXCEPT ![t] = "live"]
    /\ UNCHANGED <<files, fds>>

\* alloc_open_file takes the lowest free descriptor and the lowest free entry.
Open(t) ==
    /\ Live(t)
    /\ FreeFds(t) # {} /\ FreeFiles # {}
    /\ files' = [files EXCEPT ![Min(FreeFiles)] = Fresh]
    /\ fds' = [fds EXCEPT ![t][Min(FreeFds(t))] = Min(FreeFiles)]
    /\ UNCHANGED life

\* sys_pipe: the two lowest entries and descriptors.  They stay allocated also
\* when the descriptors cannot be copied out to the caller.
Pipe(t) ==
    LET r  == Min(FreeFiles)   w  == Min(FreeFiles \ {r})
        rd == Min(FreeFds(t))  wd == Min(FreeFds(t) \ {rd})
    IN  /\ Live(t)
        /\ Cardinality(FreeFds(t)) >= 2 /\ Cardinality(FreeFiles) >= 2
        /\ files' = [files EXCEPT ![r] = Fresh, ![w] = Fresh]
        /\ fds' = [fds EXCEPT ![t] = [fds[t] EXCEPT ![rd] = r, ![wd] = w]]
        /\ UNCHANGED life

AddRef(f) == IF f.used THEN [f EXCEPT !.refs = @ + 1] ELSE f

\* Mutant: dup copies the descriptor and does not count it.
DupUncounted(t, old) ==
    /\ Live(t)
    /\ fds[t][old] # None
    /\ FreeFds(t) # {}
    /\ fds' = [fds EXCEPT ![t][Min(FreeFds(t))] = fds[t][old]]
    /\ UNCHANGED <<files, life>>

Dup(t, old) ==
    /\ Live(t)
    /\ fds[t][old] # None
    /\ FreeFds(t) # {}
    /\ fds' = [fds EXCEPT ![t][Min(FreeFds(t))] = fds[t][old]]
    /\ files' = [files EXCEPT ![fds[t][old]] = AddRef(@)]
    /\ UNCHANGED life

\* What giving up k descriptors of an entry leaves of it: the count goes down
\* to 1 and the next one frees the entry.
Drop(f, k) ==
    IF k = 0 \/ ~f.used THEN f
    ELSE IF k < f.refs THEN [f EXCEPT !.refs = @ - k]
    ELSE [used |-> FALSE, refs |-> 1]

\* dup2 closes the target first, then counts the new use.
Dup2(t, old, new) ==
    LET closed == IF fds[t][new] = None THEN files
                  ELSE [files EXCEPT ![fds[t][new]] = Drop(@, 1)]
    IN  /\ Live(t)
        /\ old # new
        /\ fds[t][old] # None
        /\ files' = [closed EXCEPT ![fds[t][old]] = AddRef(@)]
        /\ fds' = [fds EXCEPT ![t][new] = fds[t][old]]
        /\ UNCHANGED life

Close(t, d) ==
    /\ Live(t)
    /\ fds[t][d] # None
    /\ fds' = [fds EXCEPT ![t][d] = None]
    /\ files' = [files EXCEPT ![fds[t][d]] = Drop(@, 1)]
    /\ UNCHANGED life

\* Mutant: the purge forgets the first descriptor it should close.
PurgedShort(t) == {d \in Fds : d > FirstFd /\ fds[t][d] # None}

\* The descriptors purge_open_files_for_process closes: none below FirstFd.
Purged(t) == {d \in Fds : d >= FirstFd /\ fds[t][d] # None}

\* exit_group, or the exit of a bootstrap probe: the thread's table is purged
\* before the scheduler ends the thread.
ExitGroup(t) ==
    /\ Live(t)
    /\ files' = [i \in Files |-> Drop(files[i], Cardinality({d \in Purged(t) : fds[t][d] = i}))]
    /\ fds' = [fds EXCEPT ![t] = [d \in Fds |-> IF d \in Purged(t) THEN None ELSE fds[t][d]]]
    /\ life' = [life EXCEPT ![t] = "exited"]

\* resume_after_user_exception ends the thread and purges nothing.
Fault(t) ==
    /\ Live(t)
    /\ life' = [life EXCEPT ![t] = "faulted"]
    /\ UNCHANGED <<files, fds>>

Next ==
    \E t \in Threads :
        \/ Spawn(t) \/ Open(t) \/ Pipe(t) \/ ExitGroup(t) \/ Fault(t)
        \/ \E d \in Fds : Dup(t, d) \/ Close(t, d) \/ \E e \in Fds : Dup2(t, d, e)

Spec == Init /\ [][Next]_vars

-----------------------------------------------------------------------------
Holders(i) == {td \in Threads \X Fds : fds[td[1]][td[2]] = i}

\* The count of every open entry is the number of descriptors that name it, and
\* no descriptor names a free entry: no entry is freed, and so given to another
\* file, while a descriptor still reads from it, and none outlives its last one.
RefCountsExact ==
    \A i \in Files :
        IF files[i].used THEN files[i].refs = Cardinality(Holders(i)) ELSE Holders(i) = {}

\* Two threads never share an entry, and so an offset: tables are not inherited
\* (create_thread) and entries are not given out twice (alloc_open_file).
ThreadsShareNoFile ==
    \A i \in Files : \A x, y \in Holders(i) : x[1] = y[1]

\* Files leak in two ways only: an entry in use is named by a live thread, by one
\* that died of an exception, or by a descriptor below 3 that dup2 set.  After
\* any other exit it is free again (purge_open_files_for_process).
LeaksOnlyByFault ==
    \A i \in Files : files[i].used =>
        \E x \in Holders(i) : life[x[1]] \in {"live", "faulted"} \/ x[2] < FirstFd
=============================================================================
