--------------------------- MODULE SchedulerProofs ---------------------------
(***************************************************************************)
(* What each method of module Scheduler does to the table and the queue:   *)
(* first facts about duplicate-free queues, then one lemma per method,     *)
(* each saying that it keeps TableSound and Dispatched (or the boot-time   *)
(* shape of the table) and what it leaves alone.  KernelProofs puts the    *)
(* kernel's actions together from them.                                    *)
(***************************************************************************)
EXTENDS Kernel, FiniteSets, FiniteSetTheorems, SequenceTheorems, TLAPS

-----------------------------------------------------------------------------
(* Queues without duplicates, as the run queue is one.                     *)

\* Appending a value that is not queued keeps the queue free of duplicates and
\* adds exactly that value (Scheduler::enqueue).
LEMMA AppendQueue ==
    ASSUME NEW S, NEW q \in Seq(S), NEW x \in S, IsInjective(q), x \notin Range(q)
    PROVE  /\ Append(q, x) \in Seq(S)
           /\ IsInjective(Append(q, x))
           /\ Range(Append(q, x)) = Range(q) \cup {x}
<1>1. Append(q, x) \in Seq(S) /\ Len(Append(q, x)) = Len(q) + 1
  OBVIOUS
<1>2. \A i \in 1 .. Len(q) : Append(q, x)[i] = q[i]
  OBVIOUS
<1>3. Append(q, x)[Len(q) + 1] = x
  OBVIOUS
<1>4. DOMAIN Append(q, x) = 1 .. Len(q) + 1 /\ DOMAIN q = 1 .. Len(q)
  OBVIOUS
<1>5. IsInjective(Append(q, x))
  BY <1>1, <1>2, <1>3, <1>4 DEF IsInjective, Range
<1>6. Range(Append(q, x)) = Range(q) \cup {x}
  BY <1>1, <1>2, <1>3, <1>4 DEF Range
<1> QED
  BY <1>1, <1>5, <1>6

\* Taking the head removes exactly the head (Scheduler::dequeue).
LEMMA TailQueue ==
    ASSUME NEW S, NEW q \in Seq(S), IsInjective(q), q # <<>>
    PROVE  /\ Head(q) \in S /\ Head(q) \in Range(q)
           /\ Tail(q) \in Seq(S)
           /\ IsInjective(Tail(q))
           /\ Range(Tail(q)) = Range(q) \ {Head(q)}
<1>1. Len(q) \in Nat /\ Len(q) >= 1 /\ DOMAIN q = 1 .. Len(q) /\ Head(q) = q[1]
  OBVIOUS
<1>2. Tail(q) \in Seq(S) /\ Len(Tail(q)) = Len(q) - 1 /\ DOMAIN Tail(q) = 1 .. Len(q) - 1
  OBVIOUS
<1>3. \A i \in 1 .. Len(q) - 1 : Tail(q)[i] = q[i + 1]
  OBVIOUS
<1>4. IsInjective(Tail(q))
  BY <1>1, <1>2, <1>3 DEF IsInjective
<1>5. Range(Tail(q)) \subseteq Range(q) \ {Head(q)}
  BY <1>1, <1>2, <1>3 DEF IsInjective, Range
<1>6. ASSUME NEW y \in Range(q) \ {Head(q)} PROVE y \in Range(Tail(q))
  <2>1. PICK i \in 1 .. Len(q) : q[i] = y
    BY <1>1 DEF Range
  <2>2. i - 1 \in 1 .. Len(q) - 1 /\ Tail(q)[i - 1] = y
    BY <1>1, <1>3, <2>1
  <2> QED
    BY Zenon, <1>2, <2>2 DEF Range
<1>7. Head(q) \in S /\ Head(q) \in Range(q)
  BY <1>1 DEF Range
<1> QED
  BY <1>2, <1>4, <1>5, <1>6, <1>7

\* Searching for an entry and shifting the rest over it removes exactly that
\* entry (the unlink loops of sched.rs).
LEMMA UnlinkQueue ==
    ASSUME NEW S, NEW q \in Seq(S), IsInjective(q), NEW x
    PROVE  /\ Unlink(q, x) \in Seq(S)
           /\ IsInjective(Unlink(q, x))
           /\ Range(Unlink(q, x)) = Range(q) \ {x}
<1>1. CASE ~ \E i \in 1 .. Len(q) : q[i] = x
  <2>1. {i \in DOMAIN q : q[i] = x} = {}
    BY <1>1
  <2>2. Unlink(q, x) = q
    BY <2>1 DEF Unlink
  <2> QED
    BY <2>2, <1>1 DEF Range
<1>2. CASE \E i \in 1 .. Len(q) : q[i] = x
  <2> DEFINE I == {i \in DOMAIN q : q[i] = x}
             r == SubSeq(q, 1, Min(I) - 1) \o SubSeq(q, Min(I) + 1, Len(q))
  <2>1. PICK k \in 1 .. Len(q) : q[k] = x
    BY <1>2
  <2>2. I = {k}
    BY <2>1 DEF IsInjective
  <2>3. Min(I) = k
    BY <2>1, <2>2 DEF Min
  <2>4. Unlink(q, x) = r
    BY Zenon, <2>2 DEF Unlink
  <2> DEFINE a == SubSeq(q, 1, k - 1)
             b == SubSeq(q, k + 1, Len(q))
  <2>5. r = a \o b
    BY Zenon, <2>3
  <2>6. /\ a \in Seq(S) /\ Len(a) = k - 1 /\ \A i \in 1 .. k - 1 : a[i] = q[i]
        /\ b \in Seq(S) /\ Len(b) = Len(q) - k
        /\ \A i \in 1 .. Len(q) - k : b[i] = q[k + i]
    OBVIOUS
  <2> HIDE DEF r, a, b
  <2>7. r \in Seq(S) /\ Len(r) = Len(q) - 1 /\ DOMAIN r = 1 .. Len(q) - 1
    <3>1. Len(q) \in Nat /\ Len(a) + Len(b) = Len(q) - 1
      BY <2>6
    <3>2. a \o b \in Seq(S) /\ Len(a \o b) = Len(a) + Len(b)
      <4>1. a \in Seq(S) /\ b \in Seq(S)
        BY <2>6
      <4>2. a \o b \in Seq(S)
        BY <4>1
      <4>3. Len(a \o b) = Len(a) + Len(b)
        BY <4>1
      <4> QED
        BY <4>2, <4>3
    <3>3. DOMAIN (a \o b) = 1 .. Len(a \o b)
      BY <3>2
    <3> QED
      BY <2>5, <3>1, <3>2, <3>3
  <2>8. \A i \in 1 .. Len(q) - 1 : r[i] = IF i < k THEN q[i] ELSE q[i + 1]
    <3> SUFFICES ASSUME NEW i \in 1 .. Len(q) - 1
                 PROVE  r[i] = IF i < k THEN q[i] ELSE q[i + 1]
      OBVIOUS
    <3>1. CASE i < k
      BY <3>1, <2>5, <2>6
    <3>2. CASE i >= k
      <4>1. r[i] = b[i - (k - 1)]
        BY <3>2, <2>5, <2>6
      <4> QED
        BY <4>1, <3>2, <2>6
    <3> QED
      BY <3>1, <3>2
  <2>9. IsInjective(r)
    <3> SUFFICES ASSUME NEW i \in 1 .. Len(q) - 1, NEW j \in 1 .. Len(q) - 1, r[i] = r[j]
                 PROVE  i = j
      BY <2>7 DEF IsInjective
    <3>1. \A m, n \in 1 .. Len(q) : q[m] = q[n] => m = n
      BY DEF IsInjective
    <3>2. i \in 1 .. Len(q) /\ i + 1 \in 1 .. Len(q) /\ j \in 1 .. Len(q) /\ j + 1 \in 1 .. Len(q)
      OBVIOUS
    <3>3. CASE i < k /\ j < k
      BY <2>8, <3>1, <3>2, <3>3
    <3>4. CASE i < k /\ j >= k
      BY <2>8, <3>1, <3>2, <3>4
    <3>5. CASE i >= k /\ j < k
      BY <2>8, <3>1, <3>2, <3>5
    <3>6. CASE i >= k /\ j >= k
      BY <2>8, <3>1, <3>2, <3>6
    <3> QED
      BY <3>3, <3>4, <3>5, <3>6
  <2>10. Range(r) \subseteq Range(q) \ {x}
    <3> SUFFICES ASSUME NEW y \in Range(r) PROVE y \in Range(q) /\ y # x
      OBVIOUS
    <3>1. PICK i \in 1 .. Len(q) - 1 : r[i] = y
      BY <2>7 DEF Range
    <3>2. PICK j \in 1 .. Len(q) : q[j] = y /\ j # k
      BY <3>1, <2>8
    <3> QED
      BY <3>2, <2>1 DEF IsInjective, Range
  <2>11. ASSUME NEW y \in Range(q) \ {x} PROVE y \in Range(r)
    <3>1. PICK i \in 1 .. Len(q) : q[i] = y /\ i # k
      BY <2>1 DEF Range
    <3>2. CASE i < k
      BY <3>1, <3>2, <2>7, <2>8 DEF Range
    <3>3. CASE i > k
      <4>1. i - 1 \in 1 .. Len(q) - 1 /\ r[i - 1] = y
        BY <3>1, <3>3, <2>8
      <4> QED
        BY <4>1, <2>7 DEF Range
    <3> QED
      BY <3>1, <3>2, <3>3
  <2> QED
    BY <2>4, <2>7, <2>9, <2>10, <2>11
<1> QED
  BY <1>1, <1>2

\* A queue of slots 0 .. n-1 without duplicates that lacks some slot has fewer
\* than n entries (an array of MAX_THREADS entries never overflows).
LEMMA QueueHasRoom ==
    ASSUME NEW n \in Nat, NEW q \in Seq(0 .. n - 1), IsInjective(q),
           NEW x \in 0 .. n - 1, x \notin Range(q)
    PROVE  Len(q) < n
<1> DEFINE T == (0 .. n - 1) \ {x}
<1>1. IsFiniteSet(0 .. n - 1) /\ Cardinality(0 .. n - 1) = n
  BY FS_Interval
<1>2. IsFiniteSet(T) /\ Cardinality(T) = n - 1
  BY Zenon, <1>1, FS_RemoveElement
<1>3. q \in [1 .. Len(q) -> T]
  BY DEF Range
<1>4. q \in Injection(1 .. Len(q), T)
  BY <1>3 DEF Injection
<1>5. Cardinality(1 .. Len(q)) <= n - 1
  BY <1>2, <1>4, FS_Injection
<1>6. Cardinality(1 .. Len(q)) = Len(q)
  <2>1. Len(q) \in Nat
    OBVIOUS
  <2>2. \A m \in Nat : Cardinality(1 .. m) = m
    <3> TAKE m \in Nat
    <3> QED
      BY FS_Interval, 1 \in Int, m \in Int
  <2> QED
    BY <2>1, <2>2
<1> QED
  BY <1>5, <1>6

\* Queueing behind a single entry and taking the head swaps the two (the ticks
\* of the bootstrap phase).
LEMMA SwapQueue ==
    ASSUME NEW S, NEW a \in S, NEW b \in S
    PROVE  /\ Append(<<b>>, a) # <<>>
           /\ Head(Append(<<b>>, a)) = b
           /\ Tail(Append(<<b>>, a)) = <<a>>
<1>1. <<b>> \in Seq(S) /\ <<b>> # <<>> /\ Head(<<b>>) = b
  OBVIOUS
<1>2. Tail(<<b>>) = <<>>
  OBVIOUS
<1>3. Append(<<>>, a) = <<a>>
  OBVIOUS
<1>4. Append(<<b>>, a) # <<>>
  BY <1>1, AppendProperties
<1> QED
  BY ZenonT(30), <1>1, <1>2, <1>3, <1>4, HeadTailAppend

-----------------------------------------------------------------------------
(* The methods of Scheduler.                                               *)

USE ThreadsAssumption, TicksAssumption, RestartsAssumption

\* What no scheduler step may touch: who is in a slot, and the end of a thread.
SameThreads ==
    \A s \in Slots : /\ threads'[s].id = threads[s].id
                     /\ threads'[s].pid = threads[s].pid
                     /\ threads'[s].role = threads[s].role
                     /\ threads'[s].state = "Unused" <=> threads[s].state = "Unused"
                     /\ threads'[s].state = "Exited" <=> threads[s].state = "Exited"

\* Setting the state of one thread changes nothing else in the table.
LEMMA SetStateFacts ==
    ASSUME NEW t \in [Slots -> Thread], NEW s \in Slots, NEW st \in States
    PROVE  /\ SetState(t, s, st) \in [Slots -> Thread]
           /\ \A r \in Slots : /\ SetState(t, s, st)[r].id = t[r].id
                               /\ SetState(t, s, st)[r].pid = t[r].pid
                               /\ SetState(t, s, st)[r].role = t[r].role
                               /\ SetState(t, s, st)[r].state = IF r = s THEN st ELSE t[r].state
                               /\ r # s => SetState(t, s, st)[r] = t[r]
<1>1. SetState(t, s, st) = [r \in Slots |-> IF r = s THEN [t[r] EXCEPT !.state = st] ELSE t[r]]
  BY Zenon DEF SetState
<1>2. \A r \in Slots : t[r] \in Thread /\ [t[r] EXCEPT !.state = st] \in Thread
  BY DEF Thread
<1>3. \A r \in Slots : LET u == [t[r] EXCEPT !.state = st]
                       IN  u.id = t[r].id /\ u.pid = t[r].pid /\ u.role = t[r].role /\ u.state = st
  BY <1>2 DEF Thread
<1> QED
  BY <1>1, <1>2, <1>3

\* Handing the CPU from the current slot to the head of the queue, as yield and
\* the idle switch do, keeps queue, table and running thread in step.
LEMMA SwitchStep ==
    ASSUME SchedTypeOK, TableSound, Dispatched,
           threads' = SetState(StopRunning(current_slot), Head(Requeue(current_slot)), "Running"),
           runqueue' = Tail(Requeue(current_slot)),
           current_slot' = Head(Requeue(current_slot)),
           UNCHANGED <<thread_count, next_thread_id>>
    PROVE  /\ threads' \in [Slots -> Thread]
           /\ runqueue' \in Seq(Slots)
           /\ current_slot' \in Slots
           /\ Requeue(current_slot) # <<>>
           /\ TableSound' /\ Dispatched' /\ SameThreads
<1> DEFINE c == current_slot
           q == Append(runqueue, c)
           n == Head(q)
<1>1. c \in Slots /\ threads[c].state = "Running"
  BY DEF SchedTypeOK, Dispatched, InState
<1>2. c \notin Range(runqueue)
  BY <1>1 DEF Dispatched, InState
<1>3. Len(runqueue) < MaxThreads
  BY <1>1, <1>2, QueueHasRoom DEF SchedTypeOK, Dispatched, Slots
<1>4. Requeue(c) = q
  BY <1>1, <1>3 DEF Requeue, Enqueue, SchedTypeOK
<1>5. q \in Seq(Slots) /\ IsInjective(q) /\ Range(q) = Range(runqueue) \cup {c}
  BY <1>1, <1>2, AppendQueue DEF SchedTypeOK, Dispatched
<1>6. q # <<>>
  BY <1>5 DEF Range
<1>7. /\ n \in Slots /\ n \in Range(q) /\ Tail(q) \in Seq(Slots) /\ IsInjective(Tail(q))
      /\ Range(Tail(q)) = Range(q) \ {n}
  BY Zenon, <1>5, <1>6, TailQueue
<1> HIDE DEF q, n
<1>8. threads' = SetState(SetState(threads, c, "Runnable"), n, "Running")
  BY <1>1, <1>4 DEF n, StopRunning
<1>9. runqueue' = Tail(q) /\ current_slot' = n
  BY <1>4 DEF n
<1>10. threads[n].state \in {"Runnable", "Running"}
  BY <1>1, <1>5, <1>7 DEF Dispatched, InState
<1>11. /\ threads' \in [Slots -> Thread]
       /\ \A s \in Slots : /\ threads'[s].id = threads[s].id
                           /\ threads'[s].pid = threads[s].pid
                           /\ threads'[s].role = threads[s].role
                           /\ threads'[s].state = IF s = n THEN "Running"
                                                  ELSE IF s = c THEN "Runnable" ELSE threads[s].state
                           /\ s # c /\ s # n => threads'[s] = threads[s]
  <2> DEFINE t == SetState(threads, c, "Runnable")
  <2>1. /\ t \in [Slots -> Thread]
        /\ \A s \in Slots : /\ t[s].id = threads[s].id
                            /\ t[s].pid = threads[s].pid
                            /\ t[s].role = threads[s].role
                            /\ t[s].state = IF s = c THEN "Runnable" ELSE threads[s].state
                            /\ s # c => t[s] = threads[s]
    BY <1>1, SetStateFacts DEF SchedTypeOK, States
  <2>2. threads' = SetState(t, n, "Running")
    BY <1>8
  <2> HIDE DEF t
  <2>3. /\ threads' \in [Slots -> Thread]
        /\ \A s \in Slots : /\ threads'[s].id = t[s].id
                            /\ threads'[s].pid = t[s].pid
                            /\ threads'[s].role = t[s].role
                            /\ threads'[s].state = IF s = n THEN "Running" ELSE t[s].state
                            /\ s # n => threads'[s] = t[s]
    BY <1>7, <2>1, <2>2, SetStateFacts DEF States
  <2> QED
    BY <2>1, <2>3
<1>12. SameThreads
  BY <1>1, <1>7, <1>10, <1>11 DEF SameThreads
<1>13. TableSound'
  <2>1. c < thread_count /\ n < thread_count
    BY <1>1, <1>7, <1>10 DEF TableSound, EmptyThread
  <2>2. IdleSlot \in Slots
    BY DEF IdleSlot, Slots
  <2> QED
    BY <1>1, <1>7, <1>11, <2>1, <2>2 DEF TableSound
<1>14. Dispatched'
  <2>1. \A s \in Slots : s \in Range(runqueue) <=> threads[s].state = "Runnable"
    BY DEF Dispatched, InState
  <2>2. \A s \in Slots : threads[s].state = "Running" <=> s = c
    BY <1>1 DEF Dispatched, InState
  <2>3. Range(Tail(q)) \subseteq Slots
    BY <1>7 DEF Range
  <2>4. Range(Tail(q)) = InState("Runnable")'
    BY <1>1, <1>5, <1>7, <1>11, <2>1, <2>2, <2>3 DEF InState
  <2>5. InState("Running")' = {n}
    BY <1>1, <1>7, <1>11, <2>2 DEF InState
  <2>6. n # NoSlot
    BY <1>7 DEF NoSlot, Slots
  <2> QED
    BY Zenon, <1>7, <1>9, <2>4, <2>5, <2>6 DEF Dispatched
<1> QED
  BY <1>4, <1>6, <1>7, <1>9, <1>11, <1>12, <1>13, <1>14

\* Creating a user thread fills the next slot, queues it, and disturbs no other
\* thread; there is always room for it in the queue.
LEMMA SpawnStep ==
    ASSUME SchedTypeOK, TableSound, Dispatched, CreateUserThread
    PROVE  /\ threads' \in [Slots -> Thread]
           /\ thread_count' \in 0 .. MaxThreads
           /\ next_thread_id' \in Nat
           /\ runqueue' \in Seq(Slots)
           /\ thread_count \in Slots
           /\ Len(runqueue) < MaxThreads
           /\ threads'[thread_count] = [id |-> next_thread_id, pid |-> next_thread_id,
                                       role |-> "User", state |-> "Runnable"]
           /\ threads[thread_count].state = "Unused"
           /\ \A s \in Slots : s # thread_count => threads'[s] = threads[s]
           /\ TableSound' /\ Dispatched'
<1> DEFINE k == thread_count
           u == [id |-> next_thread_id, pid |-> next_thread_id, role |-> "User", state |-> "Runnable"]
<1>1. k \in Slots /\ k >= 2 /\ threads[k] = EmptyThread
  BY DEF SchedTypeOK, CreateUserThread, TableSound, Slots
<1>2. threads' = [threads EXCEPT ![k] = u] /\ u \in Thread
  BY DEF CreateUserThread, Thread, SchedTypeOK, Roles, States
<1>3. /\ threads' \in [Slots -> Thread]
      /\ threads'[k] = u
      /\ \A s \in Slots : s # k => threads'[s] = threads[s]
  BY <1>1, <1>2 DEF SchedTypeOK
<1>4. threads[k].state = "Unused"
  BY <1>1 DEF EmptyThread
<1>5. k \notin Range(runqueue)
  BY <1>4 DEF Dispatched, InState
<1>6. Len(runqueue) < MaxThreads
  BY <1>1, <1>5, QueueHasRoom DEF SchedTypeOK, Dispatched, Slots
<1>7. runqueue' = Append(runqueue, k)
  BY <1>6 DEF CreateUserThread, Enqueue, SchedTypeOK
<1>8. runqueue' \in Seq(Slots) /\ IsInjective(runqueue') /\ Range(runqueue') = Range(runqueue) \cup {k}
  BY <1>1, <1>5, <1>7, AppendQueue DEF SchedTypeOK, Dispatched
<1>9. thread_count' \in 0 .. MaxThreads /\ next_thread_id' \in Nat
  BY DEF CreateUserThread, SchedTypeOK
<1>10. Dispatched'
  <2>1. InState("Runnable")' = InState("Runnable") \cup {k}
    BY <1>1, <1>3 DEF InState
  <2>2. InState("Running")' = InState("Running")
    BY <1>1, <1>3, <1>4 DEF InState
  <2>3. current_slot' = current_slot
    BY DEF CreateUserThread
  <2> QED
    BY <1>8, <2>1, <2>2, <2>3 DEF Dispatched
<1>11. TableSound'
  <2>1. thread_count' = k + 1 /\ next_thread_id' = next_thread_id + 1
    BY DEF CreateUserThread
  <2>2. thread_count' >= 2 /\ next_thread_id' = thread_count' + 1
    BY <2>1 DEF TableSound, SchedTypeOK
  <2>3. threads'[k].id = k + 1 /\ threads'[k].pid = k + 1 /\ threads'[k].role = RoleOf(k)
        /\ threads'[k].state = "Runnable" /\ k # IdleSlot
    BY <1>1, <1>3 DEF TableSound, RoleOf, BootstrapSlot, IdleSlot
  <2>4. IdleSlot \in Slots /\ IdleSlot # k
    BY <1>1 DEF IdleSlot, Slots
  <2>5. ASSUME NEW s \in Slots
        PROVE  IF s < thread_count'
               THEN /\ threads'[s].id = s + 1
                    /\ threads'[s].pid = IF s = IdleSlot THEN 0 ELSE s + 1
                    /\ threads'[s].role = RoleOf(s)
                    /\ threads'[s].state \in {"Runnable", "Running", "Exited"}
               ELSE threads'[s] = EmptyThread
    <3>1. CASE s = k
      BY <1>1, <2>1, <2>3, <3>1 DEF Slots
    <3>2. CASE s # k
      <4>1. s < thread_count' <=> s < thread_count
        BY <1>1, <2>1, <3>2 DEF Slots
      <4> QED
        BY <1>3, <3>2, <4>1 DEF TableSound
    <3> QED
      BY <3>1, <3>2
  <2> QED
    BY <1>3, <2>2, <2>4, <2>5 DEF TableSound
<1> QED
  BY <1>1, <1>3, <1>4, <1>6, <1>8, <1>9, <1>10, <1>11

\* Ending the current user thread's group ends that thread only, and always
\* finds a thread to run: the idle thread is queued behind it.
LEMMA ExitStep ==
    ASSUME SchedTypeOK, TableSound, Dispatched, threads[current_slot].role = "User",
           RequestExitGroup
    PROVE  /\ threads' \in [Slots -> Thread]
           /\ runqueue' \in Seq(Slots)
           /\ current_slot' \in Slots
           /\ TableSound' /\ Dispatched'
           /\ threads'[current_slot].state = "Exited"
           /\ \A s \in Slots : /\ threads'[s].id = threads[s].id
                               /\ threads'[s].pid = threads[s].pid
                               /\ threads'[s].role = threads[s].role
                               /\ threads[s].state = "Exited" => threads'[s].state = "Exited"
                               /\ s # current_slot /\ threads[s].state # "Exited"
                                    => threads'[s].state # "Exited"
<1> DEFINE c == current_slot
           G == Group(threads[c].pid)
           n == Head(runqueue)
           e == [s \in Slots |-> IF s \in G THEN [threads[s] EXCEPT !.state = "Exited"]
                                            ELSE threads[s]]
<1>1. c \in Slots /\ threads[c].state = "Running"
  BY DEF SchedTypeOK, Dispatched, InState
<1>2. c < thread_count /\ threads[c].pid = c + 1 /\ c # IdleSlot
  BY <1>1 DEF TableSound, RoleOf, EmptyThread
<1>3. G = {c}
  <2>1. c \in G
    BY <1>1, <1>2 DEF Group
  <2>2. ASSUME NEW s \in G PROVE s = c
    <3>1. s \in Slots /\ s < thread_count /\ threads[s].pid = c + 1
      BY <1>2 DEF Group
    <3> QED
      BY <1>1, <3>1 DEF TableSound, Slots
  <2> QED
    BY <2>1, <2>2
<1>4. c \notin Range(runqueue)
  BY <1>1 DEF Dispatched, InState
<1>5. UnlinkGroup(runqueue, G) = runqueue
  BY <1>3, <1>4 DEF UnlinkGroup
<1>6. IdleSlot \in Range(runqueue)
  <2>1. IdleSlot \in Slots
    BY DEF IdleSlot, Slots
  <2>2. threads[IdleSlot].state = "Runnable"
    BY <1>2, <2>1 DEF TableSound, Dispatched, InState
  <2> QED
    BY <2>1, <2>2 DEF Dispatched, InState
<1>7. runqueue # <<>>
  BY <1>6 DEF Range
<1>8. /\ n \in Slots /\ n \in Range(runqueue) /\ Tail(runqueue) \in Seq(Slots)
      /\ IsInjective(Tail(runqueue)) /\ Range(Tail(runqueue)) = Range(runqueue) \ {n}
  BY <1>7, TailQueue DEF SchedTypeOK, Dispatched
<1>9. threads' = SetState(e, n, "Running") /\ runqueue' = Tail(runqueue) /\ current_slot' = n
  BY <1>5, <1>7 DEF RequestExitGroup
<1>10. e = SetState(threads, c, "Exited")
  BY Zenon, <1>1, <1>3 DEF SetState, SchedTypeOK
<1> HIDE DEF e, G, n
<1>11. /\ e \in [Slots -> Thread]
       /\ \A s \in Slots : /\ e[s].id = threads[s].id
                           /\ e[s].pid = threads[s].pid
                           /\ e[s].role = threads[s].role
                           /\ e[s].state = IF s = c THEN "Exited" ELSE threads[s].state
                           /\ s # c => e[s] = threads[s]
  BY <1>1, <1>10, SetStateFacts DEF SchedTypeOK, States
<1>12. /\ threads' \in [Slots -> Thread]
       /\ \A s \in Slots : /\ threads'[s].id = e[s].id
                           /\ threads'[s].pid = e[s].pid
                           /\ threads'[s].role = e[s].role
                           /\ threads'[s].state = IF s = n THEN "Running" ELSE e[s].state
                           /\ s # n => threads'[s] = e[s]
  BY <1>8, <1>9, <1>11, SetStateFacts DEF States
<1>13. threads[n].state = "Runnable" /\ n # c
  BY <1>1, <1>8 DEF Dispatched, InState
<1>14. TableSound'
  <2>1. n < thread_count
    BY <1>8, <1>13 DEF TableSound, EmptyThread
  <2>2. IdleSlot \in Slots
    BY DEF IdleSlot, Slots
  <2>3. UNCHANGED <<thread_count, next_thread_id>>
    BY DEF RequestExitGroup
  <2> QED
    BY <1>1, <1>2, <1>8, <1>11, <1>12, <2>1, <2>2, <2>3 DEF TableSound
<1>15. Dispatched'
  <2>1. \A s \in Slots : s \in Range(runqueue) <=> threads[s].state = "Runnable"
    BY DEF Dispatched, InState
  <2>2. \A s \in Slots : threads[s].state = "Running" <=> s = c
    BY <1>1 DEF Dispatched, InState
  <2>3. Range(Tail(runqueue)) \subseteq Slots
    BY <1>8 DEF Range
  <2>4. Range(Tail(runqueue)) = InState("Runnable")'
    BY <1>1, <1>8, <1>11, <1>12, <1>13, <2>1, <2>2, <2>3 DEF InState
  <2>5. InState("Running")' = {n}
    BY <1>1, <1>8, <1>11, <1>12, <2>2 DEF InState
  <2>6. n # NoSlot
    BY <1>8 DEF NoSlot, Slots
  <2> QED
    BY <1>8, <1>9, <2>4, <2>5, <2>6 DEF Dispatched
<1> QED
  BY <1>1, <1>8, <1>9, <1>11, <1>12, <1>13, <1>14, <1>15

-----------------------------------------------------------------------------
\* The boot steps.

\* initialize_bootstrap_threads fills the first two slots and no other.
LEMMA InitializeStep ==
    ASSUME InitializeBootstrapThreads, ticks' = 0
    PROVE  /\ threads' \in [Slots -> Thread]
           /\ thread_count' \in 0 .. MaxThreads
           /\ next_thread_id' \in Nat
           /\ runqueue' \in Seq(Slots)
           /\ current_slot' \in Slots \cup {NoSlot}
           /\ TableSound' /\ BootTicks'
<1>1. BootstrapSlot \in Slots /\ IdleSlot \in Slots /\ BootstrapSlot # IdleSlot
  BY DEF BootstrapSlot, IdleSlot, Slots
<1>2. /\ threads'[BootstrapSlot] = [id |-> 1, pid |-> 1, role |-> "Bootstrap", state |-> "Running"]
      /\ threads'[IdleSlot] = [id |-> 2, pid |-> 0, role |-> "Idle", state |-> "Runnable"]
      /\ \A s \in Slots : s # BootstrapSlot /\ s # IdleSlot => threads'[s] = EmptyThread
  BY <1>1 DEF InitializeBootstrapThreads
<1>3. threads' \in [Slots -> Thread]
  <2>1. EmptyThread \in Thread
    BY DEF EmptyThread, Thread, Roles, States
  <2>2. \A s \in Slots : threads'[s] \in Thread
    BY <1>2, <2>1 DEF Thread, Roles, States
  <2> QED
    BY <2>2 DEF InitializeBootstrapThreads
<1>4. thread_count' = 2 /\ next_thread_id' = 3
  BY DEF InitializeBootstrapThreads
<1>5. runqueue' \in Seq(Slots)
  BY <1>1 DEF InitializeBootstrapThreads
<1>6. TableSound'
  BY <1>1, <1>2, <1>4 DEF TableSound, RoleOf, BootstrapSlot, IdleSlot, Slots
<1>7. BootTicks'
  BY <1>2, <1>4 DEF BootTicks, InitializeBootstrapThreads
<1> QED
  BY <1>3, <1>4, <1>5, <1>6, <1>7 DEF InitializeBootstrapThreads

\* A bootstrap tick moves the table along its short cycle.
LEMMA BootTickStep ==
    ASSUME SchedTypeOK, TableSound, BootTicks, OnTimerTick,
           ticks' = IF ticks < BootstrapTargetTicks THEN ticks + 1 ELSE ticks
    PROVE  /\ threads' \in [Slots -> Thread]
           /\ runqueue' \in Seq(Slots)
           /\ current_slot' \in Slots
           /\ TableSound' /\ BootTicks' /\ SameThreads
<1>1. BootstrapSlot \in Slots /\ IdleSlot \in Slots /\ BootstrapSlot # IdleSlot
      /\ BootstrapSlot # NoSlot /\ IdleSlot # NoSlot /\ thread_count = 2 /\ MaxThreads >= 2
  BY DEF BootstrapSlot, IdleSlot, Slots, NoSlot, BootTicks
<1>2. CASE current_slot = NoSlot
  <2>1. runqueue = <<BootstrapSlot, IdleSlot>> /\ threads[BootstrapSlot].state = "Running"
        /\ threads[IdleSlot].state = "Runnable"
    BY <1>1, <1>2 DEF BootTicks
  <2>2. /\ threads' = SetState(threads, BootstrapSlot, "Running")
        /\ runqueue' = <<IdleSlot>> /\ current_slot' = BootstrapSlot
        /\ UNCHANGED <<thread_count, next_thread_id>>
    BY <1>2, <2>1 DEF OnTimerTick
  <2>3. /\ threads' \in [Slots -> Thread]
        /\ \A s \in Slots : /\ threads'[s].id = threads[s].id
                            /\ threads'[s].pid = threads[s].pid
                            /\ threads'[s].role = threads[s].role
                            /\ threads'[s].state = threads[s].state
                            /\ s # BootstrapSlot => threads'[s] = threads[s]
    BY <1>1, <2>1, <2>2, SetStateFacts DEF SchedTypeOK, States
  <2>4. TableSound'
    BY <1>1, <2>2, <2>3 DEF TableSound, BootstrapSlot
  <2>5. BootTicks'
    BY <1>1, <2>1, <2>2, <2>3 DEF BootTicks
  <2> QED
    BY <1>1, <2>2, <2>3, <2>4, <2>5 DEF SameThreads
<1>3. ASSUME NEW a \in {BootstrapSlot, IdleSlot}, NEW b \in {BootstrapSlot, IdleSlot}, a # b,
             current_slot = a, runqueue = <<b>>,
             threads[a].state = "Running", threads[b].state = "Runnable"
      PROVE  /\ threads' \in [Slots -> Thread]
             /\ \A s \in Slots : /\ threads'[s].id = threads[s].id
                                 /\ threads'[s].pid = threads[s].pid
                                 /\ threads'[s].role = threads[s].role
                                 /\ threads'[s].state = IF s = b THEN "Running"
                                       ELSE IF s = a THEN "Runnable" ELSE threads[s].state
                                 /\ s # a /\ s # b => threads'[s] = threads[s]
             /\ runqueue' = <<a>> /\ current_slot' = b
             /\ UNCHANGED <<thread_count, next_thread_id>>
  <2>1. a # NoSlot /\ a \in Slots /\ b \in Slots
    BY <1>1, <1>3
  <2>2. /\ Requeue(a) # <<>>
        /\ Head(Requeue(a)) = b
        /\ Tail(Requeue(a)) = <<a>>
    <3>1. Len(<<b>>) = 1
      OBVIOUS
    <3>2. Enqueue(<<b>>, a) = Append(<<b>>, a)
      BY <3>1, 1 < MaxThreads DEF Enqueue
    <3>3. Requeue(a) = Append(<<b>>, a)
      BY <1>3, <3>2 DEF Requeue
    <3> QED
      BY <2>1, <3>3, SwapQueue
  <2>3. StopRunning(a) = SetState(threads, a, "Runnable")
    BY <1>3 DEF StopRunning
  <2>4. /\ threads' = SetState(SetState(threads, a, "Runnable"), b, "Running")
        /\ runqueue' = <<a>> /\ current_slot' = b
        /\ UNCHANGED <<thread_count, next_thread_id>>
    BY Zenon, <1>3, <2>1, <2>2, <2>3 DEF OnTimerTick
  <2> DEFINE t == SetState(threads, a, "Runnable")
  <2>5. /\ t \in [Slots -> Thread]
        /\ \A s \in Slots : /\ t[s].id = threads[s].id
                            /\ t[s].pid = threads[s].pid
                            /\ t[s].role = threads[s].role
                            /\ t[s].state = IF s = a THEN "Runnable" ELSE threads[s].state
                            /\ s # a => t[s] = threads[s]
    BY <2>1, SetStateFacts DEF SchedTypeOK, States
  <2>6. threads' = SetState(t, b, "Running")
    BY <2>4
  <2> HIDE DEF t
  <2>7. /\ threads' \in [Slots -> Thread]
        /\ \A s \in Slots : /\ threads'[s].id = t[s].id
                            /\ threads'[s].pid = t[s].pid
                            /\ threads'[s].role = t[s].role
                            /\ threads'[s].state = IF s = b THEN "Running" ELSE t[s].state
                            /\ s # b => threads'[s] = t[s]
    BY <2>1, <2>5, <2>6, SetStateFacts DEF States
  <2> QED
    BY <2>4, <2>5, <2>7
<1>4. ASSUME NEW a \in {BootstrapSlot, IdleSlot}, NEW b \in {BootstrapSlot, IdleSlot}, a # b,
             current_slot = a, runqueue = <<b>>,
             threads[a].state = "Running", threads[b].state = "Runnable"
      PROVE  /\ runqueue' \in Seq(Slots) /\ current_slot' \in Slots
             /\ TableSound' /\ BootTicks' /\ SameThreads
  <2>1. a \in Slots /\ b \in Slots /\ a < 2 /\ b < 2
    BY <1>1 DEF BootstrapSlot, IdleSlot
  <2>2. SameThreads
    BY <1>3, <1>4, <2>1 DEF SameThreads
  <2>3. TableSound'
    BY <1>1, <1>3, <1>4, <2>1 DEF TableSound
  <2>4. BootTicks'
    BY <1>1, <1>3, <1>4 DEF BootTicks
  <2>5. runqueue' = <<a>> /\ current_slot' = b
    BY <1>3, <1>4
  <2>6. <<a>> \in Seq(Slots)
    BY <2>1
  <2> QED
    BY <2>1, <2>2, <2>3, <2>4, <2>5, <2>6
<1>5. CASE current_slot = BootstrapSlot
  BY <1>1, <1>3, <1>4, <1>5 DEF BootTicks
<1>6. CASE current_slot = IdleSlot
  BY <1>1, <1>3, <1>4, <1>6 DEF BootTicks
<1> QED
  BY <1>2, <1>5, <1>6 DEF BootTicks

\* The end of the bootstrap ticks: whichever thread the table called Running,
\* bootstrap is current again and idle alone is queued.
LEMMA RestoreStep ==
    ASSUME SchedTypeOK, TableSound, BootTicks, ticks >= BootstrapTargetTicks,
           RestoreBootstrapAsCurrent
    PROVE  /\ threads' \in [Slots -> Thread]
           /\ runqueue' \in Seq(Slots)
           /\ current_slot' = BootstrapSlot
           /\ TableSound' /\ Dispatched' /\ SameThreads
<1>1. /\ BootstrapSlot \in Slots /\ IdleSlot \in Slots /\ BootstrapSlot # IdleSlot
      /\ BootstrapSlot # NoSlot /\ thread_count = 2 /\ MaxThreads >= 2
      /\ BootstrapSlot < 2 /\ IdleSlot < 2 /\ \A s \in Slots : s < 2 => s \in {BootstrapSlot, IdleSlot}
  BY DEF BootstrapSlot, IdleSlot, Slots, NoSlot, BootTicks
<1> DEFINE put(q, s) == IF threads[s].state = "Running" THEN Enqueue(q, s) ELSE q
           q == put(put(runqueue, BootstrapSlot), IdleSlot)
           stopped == [s \in Slots |-> IF threads[s].state = "Running"
                                       THEN [threads[s] EXCEPT !.state = "Runnable"]
                                       ELSE threads[s]]
<1>2. /\ threads' = SetState(stopped, BootstrapSlot, "Running")
      /\ runqueue' = Unlink(q, BootstrapSlot)
      /\ current_slot' = BootstrapSlot
      /\ UNCHANGED <<thread_count, next_thread_id>>
  BY DEF RestoreBootstrapAsCurrent
<1>3. \A s \in Slots : /\ IsInjective(<<s>>) /\ Range(<<s>>) = {s}
                       /\ <<s>> \in Seq(Slots) /\ Len(<<s>>) = 1
  BY DEF IsInjective, Range
<1> HIDE DEF q, put, stopped
<1>4. ASSUME NEW a \in {BootstrapSlot, IdleSlot}, NEW b \in {BootstrapSlot, IdleSlot}, a # b,
             q = Enqueue(<<b>>, a)
      PROVE  /\ q \in Seq(Slots) /\ IsInjective(q) /\ Range(q) = {BootstrapSlot, IdleSlot}
  <2> DEFINE r == <<b>>
  <2>1. a \in Slots /\ b \in Slots
    BY <1>1
  <2>2. r \in Seq(Slots) /\ Len(r) = 1 /\ IsInjective(r) /\ Range(r) = {b}
    BY <1>3, <2>1
  <2>3. q = Enqueue(r, a)
    BY <1>4
  <2> HIDE DEF r
  <2>4. q = Append(r, a)
    BY <2>2, <2>3, 1 < MaxThreads DEF Enqueue
  <2>5. a \notin Range(r)
    BY <1>4, <2>2
  <2>6. q \in Seq(Slots) /\ IsInjective(q) /\ Range(q) = {b, a}
    BY <2>1, <2>2, <2>4, <2>5, AppendQueue
  <2> QED
    BY <1>4, <2>6
<1>5. /\ threads[BootstrapSlot].state \in {"Runnable", "Running"}
      /\ threads[IdleSlot].state \in {"Runnable", "Running"}
      /\ q \in Seq(Slots) /\ IsInjective(q) /\ Range(q) = {BootstrapSlot, IdleSlot}
  <2>1. ticks # 0
    BY DEF SchedTypeOK
  <2>2. CASE /\ runqueue = <<IdleSlot>>
             /\ threads[BootstrapSlot].state = "Running" /\ threads[IdleSlot].state = "Runnable"
    <3>1. q = Enqueue(<<IdleSlot>>, BootstrapSlot)
      BY <2>2 DEF q, put
    <3> QED
      BY <1>1, <1>4, <2>2, <3>1
  <2>3. CASE /\ runqueue = <<BootstrapSlot>>
             /\ threads[BootstrapSlot].state = "Runnable" /\ threads[IdleSlot].state = "Running"
    <3>1. q = Enqueue(<<BootstrapSlot>>, IdleSlot)
      BY <2>3 DEF q, put
    <3> QED
      BY <1>1, <1>4, <2>3, <3>1
  <2> QED
    BY <2>1, <2>2, <2>3 DEF BootTicks
<1>6. /\ runqueue' \in Seq(Slots) /\ IsInjective(runqueue')
      /\ Range(runqueue') = {IdleSlot}
  BY <1>1, <1>2, <1>5, UnlinkQueue
<1>7. /\ stopped \in [Slots -> Thread]
      /\ \A s \in Slots : /\ stopped[s].id = threads[s].id
                          /\ stopped[s].pid = threads[s].pid
                          /\ stopped[s].role = threads[s].role
                          /\ stopped[s].state = IF threads[s].state = "Running" THEN "Runnable"
                                                ELSE threads[s].state
                          /\ threads[s].state # "Running" => stopped[s] = threads[s]
  <2>1. \A s \in Slots : LET u == [threads[s] EXCEPT !.state = "Runnable"]
                        IN  /\ threads[s] \in Thread /\ u \in Thread
                            /\ u.id = threads[s].id /\ u.pid = threads[s].pid
                            /\ u.role = threads[s].role /\ u.state = "Runnable"
    BY Zenon DEF SchedTypeOK, Thread, States
  <2> QED
    BY <2>1 DEF stopped
<1>8. /\ threads' \in [Slots -> Thread]
      /\ \A s \in Slots : /\ threads'[s].id = stopped[s].id
                          /\ threads'[s].pid = stopped[s].pid
                          /\ threads'[s].role = stopped[s].role
                          /\ threads'[s].state = IF s = BootstrapSlot THEN "Running"
                                                 ELSE stopped[s].state
                          /\ s # BootstrapSlot => threads'[s] = stopped[s]
  BY <1>1, <1>2, <1>7, SetStateFacts DEF States
<1>9. \A s \in Slots : s # BootstrapSlot /\ s # IdleSlot => threads'[s] = EmptyThread
                      /\ threads[s] = EmptyThread
  BY <1>1, <1>7, <1>8 DEF TableSound, EmptyThread, Slots
<1>10. SameThreads
  BY <1>1, <1>5, <1>7, <1>8 DEF SameThreads
<1>11. TableSound'
  BY <1>1, <1>2, <1>5, <1>7, <1>8, <1>9 DEF TableSound
<1>12. Dispatched'
  <2>1. InState("Runnable")' = {IdleSlot} /\ InState("Running")' = {BootstrapSlot}
    BY <1>1, <1>5, <1>7, <1>8, <1>9 DEF InState, EmptyThread
  <2> QED
    BY <1>1, <1>2, <1>6, <2>1 DEF Dispatched
<1> QED
  BY <1>2, <1>6, <1>8, <1>10, <1>11, <1>12

\* Entering the idle loop ends bootstrap and starts the only user thread there
\* can be, or the idle thread; either was queued.
LEMMA IdleEntryStep ==
    ASSUME SchedTypeOK, TableSound, Dispatched, current_slot = BootstrapSlot, thread_count <= 3,
           InitialContextPair
    PROVE  /\ threads' \in [Slots -> Thread]
           /\ runqueue' \in Seq(Slots)
           /\ InitialTarget \in Slots /\ current_slot' = InitialTarget
           /\ TableSound' /\ Dispatched'
           /\ threads'[BootstrapSlot].state = "Exited"
           /\ \A s \in Slots : /\ threads'[s].id = threads[s].id
                               /\ threads'[s].pid = threads[s].pid
                               /\ threads'[s].role = threads[s].role
                               /\ threads[s].state = "Exited" => threads'[s].state = "Exited"
                               /\ s # BootstrapSlot /\ threads[s].state # "Exited"
                                    => threads'[s].state # "Exited"
<1> DEFINE n == InitialTarget
           e == SetState(threads, BootstrapSlot, "Exited")
<1>1. /\ BootstrapSlot \in Slots /\ IdleSlot \in Slots /\ BootstrapSlot # IdleSlot
      /\ BootstrapSlot < 2 /\ IdleSlot < 2
  BY DEF BootstrapSlot, IdleSlot, Slots
<1>2. threads[BootstrapSlot].state = "Running"
      /\ \A s \in Slots : threads[s].state = "Running" <=> s = BootstrapSlot
  BY <1>1 DEF Dispatched, InState
<1>3. n \in Slots /\ n # BootstrapSlot /\ threads[n].state = "Runnable" /\ n < thread_count
  <2>1. CASE LiveUserSlots = {}
    <3>1. n = IdleSlot
      BY <2>1 DEF InitialTarget
    <3>2. thread_count >= 2 /\ threads[IdleSlot].state \in {"Runnable", "Running"}
      BY DEF TableSound
    <3>3. IdleSlot < thread_count
      BY <3>2 DEF IdleSlot, SchedTypeOK
    <3> HIDE DEF n
    <3> QED
      BY <1>1, <1>2, <3>1, <3>2, <3>3
  <2>2. CASE LiveUserSlots # {}
    <3>1. LiveUserSlots \subseteq {2}
      BY DEF LiveUserSlots, TableSound, RoleOf, BootstrapSlot, IdleSlot, Slots, SchedTypeOK
    <3>2. LiveUserSlots = {2}
      BY Zenon, <2>2, <3>1
    <3>3. n = 2
      BY <2>2, <3>2 DEF InitialTarget
    <3>4. 2 \in Slots /\ 2 < thread_count /\ threads[2].state # "Exited"
      BY <3>2 DEF LiveUserSlots
    <3> QED
      BY <1>2, <3>3, <3>4 DEF TableSound, BootstrapSlot
  <2> QED
    BY <2>1, <2>2
<1>4. /\ threads' = SetState(e, n, "Running")
      /\ runqueue' = Unlink(runqueue, n)
      /\ current_slot' = n
      /\ UNCHANGED <<thread_count, next_thread_id>>
  BY DEF InitialContextPair
<1> HIDE DEF n
<1>5. /\ e \in [Slots -> Thread]
      /\ \A s \in Slots : /\ e[s].id = threads[s].id
                          /\ e[s].pid = threads[s].pid
                          /\ e[s].role = threads[s].role
                          /\ e[s].state = IF s = BootstrapSlot THEN "Exited" ELSE threads[s].state
                          /\ s # BootstrapSlot => e[s] = threads[s]
  BY <1>1, SetStateFacts DEF SchedTypeOK, States
<1> HIDE DEF e
<1>6. /\ threads' \in [Slots -> Thread]
      /\ \A s \in Slots : /\ threads'[s].id = e[s].id
                          /\ threads'[s].pid = e[s].pid
                          /\ threads'[s].role = e[s].role
                          /\ threads'[s].state = IF s = n THEN "Running" ELSE e[s].state
                          /\ s # n => threads'[s] = e[s]
  BY <1>3, <1>4, <1>5, SetStateFacts DEF States
<1>7. /\ runqueue' \in Seq(Slots) /\ IsInjective(runqueue')
      /\ Range(runqueue') = Range(runqueue) \ {n}
  BY <1>4, UnlinkQueue DEF SchedTypeOK, Dispatched
<1>8. TableSound'
  <2>1. BootstrapSlot < thread_count
    BY DEF TableSound, BootstrapSlot, SchedTypeOK
  <2>2. ASSUME NEW s \in Slots
        PROVE  IF s < thread_count
               THEN /\ threads'[s].id = s + 1
                    /\ threads'[s].pid = IF s = IdleSlot THEN 0 ELSE s + 1
                    /\ threads'[s].role = RoleOf(s)
                    /\ threads'[s].state \in {"Runnable", "Running", "Exited"}
               ELSE threads'[s] = EmptyThread
    BY <1>1, <1>3, <1>5, <1>6, <2>1 DEF TableSound
  <2>3. threads'[IdleSlot].state \in {"Runnable", "Running"}
    BY <1>1, <1>5, <1>6 DEF TableSound
  <2> QED
    BY <1>4, <2>2, <2>3 DEF TableSound
<1>9. Dispatched'
  <2>1. \A s \in Slots : s \in Range(runqueue) <=> threads[s].state = "Runnable"
    BY DEF Dispatched, InState
  <2>2. Range(runqueue') \subseteq Slots
    BY <1>7 DEF Range
  <2>3. Range(runqueue') = InState("Runnable")'
    BY <1>2, <1>3, <1>5, <1>6, <1>7, <2>1, <2>2 DEF InState
  <2>4. InState("Running")' = {n}
    BY <1>2, <1>3, <1>5, <1>6 DEF InState
  <2>5. n # NoSlot
    BY <1>3 DEF NoSlot, Slots
  <2> QED
    BY <1>4, <1>7, <2>3, <2>4, <2>5 DEF Dispatched
<1> QED
  BY <1>1, <1>2, <1>3, <1>4, <1>5, <1>6, <1>7, <1>8, <1>9 DEF n
=============================================================================
