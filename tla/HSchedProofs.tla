---------------------------- MODULE HSchedProofs ----------------------------
(***************************************************************************)
(* The ring of kernel/src/hsched.rs, for any number of producers and       *)
(* dispatchers and any length of at least two: it implements the bounded   *)
(* queue of TaskQueue, and neither side gives up for a race it lost.       *)
(*                                                                         *)
(* The argument is a window of Size positions, head .. head + Size - 1, in *)
(* which each cell occurs once.  The sequence number of a cell says where  *)
(* its position stands: free for a claim, claimed by one producer,         *)
(* published, or still in the hands of the dispatcher of the lap before.   *)
(***************************************************************************)
EXTENDS HSched, TLAPS

Labels == {"idle", "load_pos", "load_seq", "cas", "access", "store_seq"}

\* The types of the ring and of the locals of its users.
TypeOK ==
    /\ next_id \in 1 .. MaxSubmits + 1
    /\ tail \in Nat /\ head \in Nat
    /\ sequence \in [Cells -> Nat]
    /\ data \in [Cells -> Nat]
    /\ pc \in [Procs -> Labels]
    /\ pos \in [Procs -> Nat]
    /\ task \in [Procs -> Nat]
    /\ log \in Seq(1 .. MaxSubmits) /\ Len(log) = tail

Holds(p) == pc[p] \in {"access", "store_seq"}
Claiming(p) == pc[p] \in {"load_pos", "load_seq", "cas"}

\* A producer between its compare-and-swap and its store to sequence.
ProducerHolds ==
    \A p \in Producers : Holds(p) =>
        /\ head <= pos[p] /\ pos[p] < tail
        /\ sequence[Cell(pos[p])] = pos[p]
        /\ task[p] = log[pos[p] + 1]
        /\ pc[p] = "store_seq" => data[Cell(pos[p])] = task[p]

\* A dispatcher between its compare-and-swap and its store to sequence.
ConsumerHolds ==
    \A c \in Consumers : Holds(c) =>
        /\ pos[c] < head /\ tail <= pos[c] + Size
        /\ sequence[Cell(pos[c])] = pos[c] + 1
        /\ pc[c] = "store_seq" => task[c] = log[pos[c] + 1]

OneHolder ==
    \A p, q \in Procs : Holds(p) /\ Holds(q) /\ pos[p] = pos[q] => p = q

\* Where the positions of the window stand.
Window ==
    /\ head <= tail /\ tail <= head + Size
    /\ \A n \in Nat : head <= n /\ n < tail =>
         \/ sequence[Cell(n)] = n + 1
         \/ sequence[Cell(n)] = n /\ \E p \in Producers : Owns(p, n)
    /\ \A n \in Nat : tail <= n /\ n < head + Size =>
         \/ sequence[Cell(n)] = n
         \/ sequence[Cell(n)] = n - Size + 1 /\ \E c \in Consumers : Owns(c, n - Size)

\* A position that was dispatched never looks free or published again.
Past == \A n \in Nat : n < head => sequence[Cell(n)] > n

\* A published cell holds the task accepted at its position.
Published ==
    \A n \in Nat : n < tail /\ sequence[Cell(n)] = n + 1 => data[Cell(n)] = log[n + 1]

\* A position that was read is not ahead of the counter it was read from, and
\* what the sequence number said of it is true while that counter stands.
ProducerPositions ==
    \A p \in Producers :
        /\ pc[p] \in {"load_seq", "cas"} => pos[p] <= tail
        /\ pc[p] = "cas" /\ pos[p] = tail => sequence[Cell(tail)] = tail

ConsumerPositions ==
    \A c \in Consumers :
        /\ pc[c] \in {"load_seq", "cas"} => pos[c] <= head
        /\ pc[c] = "cas" /\ pos[c] = head => sequence[Cell(head)] = head + 1

\* Every submit works with an id of its own.
FreshTasks ==
    /\ \A i \in 1 .. tail : log[i] < next_id
    /\ \A p \in Producers : Claiming(p) =>
         /\ 1 <= task[p] /\ task[p] < next_id
         /\ \A i \in 1 .. tail : log[i] # task[p]
    /\ \A p, q \in Producers : Claiming(p) /\ Claiming(q) /\ task[p] = task[q] => p = q

RingInv ==
    /\ ProducerHolds /\ ConsumerHolds /\ OneHolder
    /\ Window /\ Past /\ Published
    /\ ProducerPositions /\ ConsumerPositions
    /\ FreshTasks

IndInv == TypeOK /\ RingInv
-----------------------------------------------------------------------------
\* A function with one value replaced by one of its range.
LEMMA Updated ==
    ASSUME NEW S, NEW T, NEW f \in [S -> T], NEW x \in S, NEW v \in T
    PROVE  [f EXCEPT ![x] = v] \in [S -> T]
OBVIOUS

\* A number is determined by its quotient and its remainder.
LEMMA RemainderIs ==
    ASSUME NEW n \in Int, NEW k \in Int, NEW q \in Int, NEW r \in Int,
           k >= 2, 0 <= r, r < k, n = k * q + r
    PROVE  n % k = r
OBVIOUS

\* The arithmetic of `pos % 16`: a lap later the same cell, one position later
\* another one.
LEMMA CellFacts ==
    ASSUME NEW n \in Nat
    PROVE  /\ Cell(n) \in Cells
           /\ Cell(n + Size) = Cell(n)
           /\ Cell(n + 1) # Cell(n)
<1> USE RingAssumption
<1> DEFINE q == n \div Size
           r == n % Size
<1>1. q \in Int /\ r \in 0 .. Size - 1 /\ n = Size * q + r
  OBVIOUS
<1> HIDE DEF q, r
<1>2. Cell(n) = r
  BY DEF Cell, r
<1>3. Cell(n + Size) = r
  <2>1. n + Size = Size * (q + 1) + r
    BY <1>1
  <2>2. n + Size \in Int /\ q + 1 \in Int /\ r \in Int /\ Size \in Int /\ 0 <= r /\ r < Size
    BY <1>1
  <2> QED
    BY <2>1, <2>2, RemainderIs, Zenon DEF Cell
<1>4. CASE r < Size - 1
  <2>1. n + 1 = Size * q + (r + 1)
    BY <1>1
  <2>2. /\ n + 1 \in Int /\ q \in Int /\ r + 1 \in Int /\ Size \in Int
        /\ 0 <= r + 1 /\ r + 1 < Size
    BY <1>1, <1>4
  <2>3. Cell(n + 1) = r + 1
    BY <2>1, <2>2, RemainderIs, Zenon DEF Cell
  <2> QED
    BY <1>1, <1>2, <1>3, <2>3 DEF Cells
<1>5. CASE r = Size - 1
  <2>1. n + 1 = Size * (q + 1) + 0
    BY <1>1, <1>5
  <2>2. n + 1 \in Int /\ q + 1 \in Int /\ Size \in Int /\ 0 \in Int /\ 0 <= 0 /\ 0 < Size
    BY <1>1
  <2>3. Cell(n + 1) = 0
    BY <2>1, <2>2, RemainderIs, Zenon DEF Cell
  <2> QED
    BY <1>1, <1>2, <1>3, <1>5, <2>3 DEF Cells
<1> QED
  BY <1>1, <1>4, <1>5

\* The same facts in the form the steps below use them.
LEMMA Adjacent ==
    ASSUME NEW m \in Nat, NEW n \in Nat, Cell(m) = Cell(n)
    PROVE  m # n + 1 /\ n # m + 1 /\ m # n + Size - 1 /\ n # m + Size - 1
<1> USE RingAssumption
<1>1. m # n + 1 /\ n # m + 1
  BY CellFacts
<1>2. m # n + Size - 1
  <2> SUFFICES ASSUME m = n + Size - 1 PROVE FALSE
    OBVIOUS
  <2>1. m + 1 = n + Size
    OBVIOUS
  <2> QED
    BY <2>1, CellFacts
<1>3. n # m + Size - 1
  <2> SUFFICES ASSUME n = m + Size - 1 PROVE FALSE
    OBVIOUS
  <2>1. n + 1 = m + Size
    OBVIOUS
  <2> QED
    BY <2>1, CellFacts
<1> QED
  BY <1>1, <1>2, <1>3

\* An empty ring whose cells carry their own numbers (RingBuffer::new).
LEMMA InitRing == Init => IndInv
<1> SUFFICES ASSUME Init PROVE IndInv
  OBVIOUS
<1> USE RingAssumption
<1>1. TypeOK
  BY DEF Init, TypeOK, Cells, Labels
<1>2. \A p \in Procs : ~ Holds(p) /\ ~ Claiming(p) /\ pc[p] = "idle"
  BY DEF Init, Holds, Claiming
<1>3. \A n \in Nat : n < Size => Cell(n) = n /\ Cell(n) \in Cells
  <2> TAKE n \in Nat
  <2> HAVE n < Size
  <2>1. n = Size * 0 + n
    OBVIOUS
  <2>2. n \in Int /\ Size \in Int /\ 0 \in Int /\ Size >= 2 /\ 0 <= n
    OBVIOUS
  <2>3. n % Size = n
    BY <2>1, <2>2, RemainderIs, Zenon
  <2> QED
    BY <2>3 DEF Cell, Cells
<1>4. Window
  BY <1>3 DEF Init, Window
<1>5. Past /\ Published
  BY DEF Init, Past, Published
<1>6. FreshTasks
  BY <1>2 DEF Init, FreshTasks, Procs
<1> QED
  BY <1>1, <1>2, <1>4, <1>5, <1>6
     DEF IndInv, RingInv, ProducerHolds, ConsumerHolds, OneHolder, ProducerPositions,
         ConsumerPositions, Procs

\* A step that only reads the ring: it changes no holder, and its process goes
\* on with a position that was read and, before its compare-and-swap, with a
\* sequence number that was read.
LEMMA ReadStep ==
    ASSUME IndInv, NEW p \in Procs, ~ Holds(p),
           NEW l \in {"idle", "load_pos", "load_seq", "cas"}, NEW n \in Nat,
           pc' = [pc EXCEPT ![p] = l], pos' = [pos EXCEPT ![p] = n],
           UNCHANGED <<ring, task>>,
           p \in Producers =>
               /\ l # "idle" => Claiming(p)
               /\ l \in {"load_seq", "cas"} => n <= tail
               /\ l = "cas" /\ n = tail => sequence[Cell(tail)] = tail,
           p \in Consumers =>
               /\ l \in {"load_seq", "cas"} => n <= head
               /\ l = "cas" /\ n = head => sequence[Cell(head)] = head + 1
    PROVE  IndInv'
<1> USE DEF IndInv, RingInv
<1>1. UNCHANGED <<next_id, tail, head, sequence, data, task, log>>
  BY DEF ring
<1>2. /\ pc'[p] = l /\ pos'[p] = n
      /\ \A q \in Procs : q # p => pc'[q] = pc[q] /\ pos'[q] = pos[q]
  BY DEF TypeOK
<1>3. TypeOK'
  <2>1. pc' \in [Procs -> Labels] /\ pos' \in [Procs -> Nat]
    BY DEF TypeOK, Labels
  <2> QED
    BY <1>1, <2>1 DEF TypeOK
<1>4. ~ Holds(p)' /\ \A q \in Procs : q # p => (Holds(q)' <=> Holds(q))
  BY <1>2 DEF Holds
<1>5. ProducerHolds' /\ ConsumerHolds' /\ OneHolder'
  BY <1>1, <1>2, <1>4 DEF ProducerHolds, ConsumerHolds, OneHolder, Procs
<1>6. Window'
  <2>1. \A q \in Procs, k \in Int : Owns(q, k) => Owns(q, k)'
    BY <1>2 DEF Owns, Holds
  <2> QED
    BY <1>1, <2>1, RingAssumption DEF Window, Procs, TypeOK
<1>7. Past' /\ Published'
  BY <1>1 DEF Past, Published
<1>8. ProducerPositions'
  BY <1>1, <1>2 DEF ProducerPositions, Procs
<1>9. ConsumerPositions'
  BY <1>1, <1>2 DEF ConsumerPositions, Procs
<1>10. FreshTasks'
  <2>1. \A q \in Producers : Claiming(q)' => Claiming(q)
    BY <1>2 DEF Claiming, Procs
  <2> QED
    BY <1>1, <2>1 DEF FreshTasks
<1> QED
  BY <1>3, <1>5, <1>6, <1>7, <1>8, <1>9, <1>10

\* submit_workload up to its compare-and-swap, and the one that fails.
LEMMA SubmitReads ==
    ASSUME IndInv, NEW p \in Producers,
           \/ SubmitLoadTail(p) \/ SubmitLoadSeq(p)
           \/ SubmitCas(p) /\ tail # pos[p]
    PROVE  IndInv'
<1> USE DEF IndInv, RingInv
<1>1. p \in Procs /\ p \notin Consumers /\ pc[p] \in Labels /\ pos[p] \in Nat /\ tail \in Nat
      /\ pos = [pos EXCEPT ![p] = pos[p]]
  BY RingAssumption DEF Procs, TypeOK
<1>2. CASE SubmitLoadTail(p)
  <2>1. /\ ~ Holds(p) /\ Claiming(p) /\ pc' = [pc EXCEPT ![p] = "load_seq"]
        /\ pos' = [pos EXCEPT ![p] = tail] /\ UNCHANGED <<ring, task>>
    BY <1>2 DEF SubmitLoadTail, Goto, Holds, Claiming
  <2>2. "load_seq" \in {"idle", "load_pos", "load_seq", "cas"} /\ "load_seq" # "cas" /\ tail <= tail
    BY <1>1
  <2> QED
    BY <1>1, <2>1, <2>2, ReadStep, Zenon
<1>3. CASE SubmitLoadSeq(p)
  <2> DEFINE dif == sequence[Cell(pos[p])] - pos[p]
             l == IF dif = 0 THEN "cas" ELSE IF dif < 0 THEN "idle" ELSE "load_pos"
  <2>1. /\ pc[p] = "load_seq" /\ pc' = [pc EXCEPT ![p] = l] /\ UNCHANGED <<ring, pos, task>>
    BY <1>3 DEF SubmitLoadSeq, Goto
  <2>2. l \in {"idle", "load_pos", "load_seq", "cas"}
    OBVIOUS
  <2>3. sequence[Cell(pos[p])] \in Nat /\ pos[p] <= tail
    BY <1>1, <2>1, CellFacts DEF TypeOK, ProducerPositions
  <2>4. l = "cas" /\ pos[p] = tail => sequence[Cell(tail)] = tail
    BY <1>1, <2>3
  <2> HIDE DEF l
  <2>5. ~ Holds(p) /\ Claiming(p)
    BY <2>1 DEF Holds, Claiming
  <2> QED
    BY Zenon, <1>1, <2>1, <2>2, <2>3, <2>4, <2>5, ReadStep
<1>4. CASE SubmitCas(p) /\ tail # pos[p]
  <2>1. /\ ~ Holds(p) /\ Claiming(p) /\ pc' = [pc EXCEPT ![p] = "load_seq"]
        /\ pos' = [pos EXCEPT ![p] = tail] /\ UNCHANGED <<ring, task>>
    BY <1>4 DEF SubmitCas, Goto, Holds, Claiming, ring
  <2>2. "load_seq" \in {"idle", "load_pos", "load_seq", "cas"} /\ "load_seq" # "cas" /\ tail <= tail
    BY <1>1
  <2> QED
    BY <1>1, <2>1, <2>2, ReadStep, Zenon
<1> QED
  BY <1>2, <1>3, <1>4

\* dispatch_pending up to its compare-and-swap, and the one that fails.
LEMMA DispatchReads ==
    ASSUME IndInv, NEW c \in Consumers,
           \/ DispatchLoadHead(c) \/ DispatchLoadSeq(c)
           \/ DispatchCas(c) /\ head # pos[c]
    PROVE  IndInv'
<1> USE DEF IndInv, RingInv
<1>1. c \in Procs /\ c \notin Producers /\ pc[c] \in Labels /\ pos[c] \in Nat /\ head \in Nat
      /\ pos = [pos EXCEPT ![c] = pos[c]]
  BY RingAssumption DEF Procs, TypeOK
<1>2. CASE DispatchLoadHead(c)
  <2>1. /\ ~ Holds(c) /\ pc' = [pc EXCEPT ![c] = "load_seq"]
        /\ pos' = [pos EXCEPT ![c] = head] /\ UNCHANGED <<ring, task>>
    BY <1>2 DEF DispatchLoadHead, Goto, Holds
  <2>2. "load_seq" \in {"idle", "load_pos", "load_seq", "cas"} /\ "load_seq" # "cas" /\ head <= head
    BY <1>1
  <2> QED
    BY <1>1, <2>1, <2>2, ReadStep, Zenon
<1>3. CASE DispatchLoadSeq(c)
  <2> DEFINE dif == sequence[Cell(pos[c])] - (pos[c] + 1)
             l == IF dif = 0 THEN "cas" ELSE IF dif < 0 THEN "idle" ELSE "load_pos"
  <2>1. /\ pc[c] = "load_seq" /\ pc' = [pc EXCEPT ![c] = l] /\ UNCHANGED <<ring, pos, task>>
    BY <1>3 DEF DispatchLoadSeq, Goto
  <2>2. l \in {"idle", "load_pos", "load_seq", "cas"}
    OBVIOUS
  <2>3. sequence[Cell(pos[c])] \in Nat /\ pos[c] <= head
    BY <1>1, <2>1, CellFacts DEF TypeOK, ConsumerPositions
  <2>4. l = "cas" /\ pos[c] = head => sequence[Cell(head)] = head + 1
    BY <1>1, <2>3
  <2> HIDE DEF l
  <2>5. ~ Holds(c)
    BY <2>1 DEF Holds
  <2> QED
    BY Zenon, <1>1, <2>1, <2>2, <2>3, <2>4, <2>5, ReadStep
<1>4. CASE DispatchCas(c) /\ head # pos[c]
  <2>1. /\ ~ Holds(c) /\ pc' = [pc EXCEPT ![c] = "load_seq"]
        /\ pos' = [pos EXCEPT ![c] = head] /\ UNCHANGED <<ring, task>>
    BY <1>4 DEF DispatchCas, Goto, Holds, ring
  <2>2. "load_seq" \in {"idle", "load_pos", "load_seq", "cas"} /\ "load_seq" # "cas" /\ head <= head
    BY <1>1
  <2> QED
    BY <1>1, <2>1, <2>2, ReadStep, Zenon
<1> QED
  BY <1>2, <1>3, <1>4

\* submit_workload takes the next id.
LEMMA SubmitBegins ==
    ASSUME IndInv, NEW p \in Producers, SubmitBegin(p)
    PROVE  IndInv'
<1> USE RingAssumption DEF IndInv, RingInv
<1>1. /\ pc[p] = "idle" /\ next_id <= MaxSubmits /\ next_id' = next_id + 1
      /\ task' = [task EXCEPT ![p] = next_id] /\ pc' = [pc EXCEPT ![p] = "load_pos"]
      /\ UNCHANGED <<tail, head, sequence, data, pos, log>>
  BY DEF SubmitBegin, Goto
<1>2. /\ p \in Procs /\ pc'[p] = "load_pos" /\ task'[p] = next_id
      /\ \A q \in Procs : q # p => pc'[q] = pc[q] /\ task'[q] = task[q]
  BY <1>1 DEF TypeOK, Procs
<1>3. TypeOK'
  <2>1. next_id' \in 1 .. MaxSubmits + 1
    BY <1>1 DEF TypeOK
  <2>2. next_id \in Nat
    BY DEF TypeOK
  <2>3. task' \in [Procs -> Nat]
    BY <1>1, <2>2, Updated, Zenon DEF TypeOK
  <2>4. pc' \in [Procs -> Labels]
    BY <1>1, Updated, Zenon DEF TypeOK, Labels
  <2> QED
    BY <1>1, <2>1, <2>3, <2>4 DEF TypeOK
<1>4. ~ Holds(p)' /\ ~ Holds(p) /\ \A q \in Procs : q # p => (Holds(q)' <=> Holds(q))
  BY <1>1, <1>2 DEF Holds
<1>5. ProducerHolds' /\ ConsumerHolds' /\ OneHolder'
  BY <1>1, <1>2, <1>4 DEF ProducerHolds, ConsumerHolds, OneHolder, Procs
<1>6. Window'
  <2>1. \A q \in Procs, k \in Int : Owns(q, k) => Owns(q, k)'
    BY <1>1, <1>2, <1>4 DEF Owns, Holds
  <2> QED
    BY <1>1, <2>1 DEF Window, Procs, TypeOK
<1>7. Past' /\ Published'
  BY <1>1 DEF Past, Published
<1>8. ProducerPositions' /\ ConsumerPositions'
  BY <1>1, <1>2 DEF ProducerPositions, ConsumerPositions, Procs
<1>9. FreshTasks'
  <2>1. /\ ~ Claiming(p) /\ Claiming(p)'
        /\ \A q \in Producers : q # p => (Claiming(q)' <=> Claiming(q)) /\ task'[q] = task[q]
    BY <1>1, <1>2 DEF Claiming, Procs
  <2>2. \A i \in 1 .. tail : log[i] \in Nat
    BY DEF TypeOK
  <2>3. \A i \in 1 .. tail : log[i] < next_id'
    BY <1>1, <2>2 DEF FreshTasks, TypeOK
  <2>4. ASSUME NEW q \in Producers, Claiming(q)'
        PROVE  1 <= task'[q] /\ task'[q] < next_id' /\ \A i \in 1 .. tail : log[i] # task'[q]
    BY <1>1, <1>2, <2>1, <2>2, <2>4 DEF FreshTasks, TypeOK, Procs
  <2>5. ASSUME NEW q \in Producers, NEW r \in Producers, Claiming(q)', Claiming(r)',
               task'[q] = task'[r]
        PROVE  q = r
    BY <1>1, <1>2, <2>1, <2>5 DEF FreshTasks, TypeOK, Procs
  <2> QED
    BY <1>1, <2>3, <2>4, <2>5 DEF FreshTasks
<1> QED
  BY <1>3, <1>5, <1>6, <1>7, <1>8, <1>9

\* What a free cell says: the ring is not full and no dispatcher is left in it.
LEMMA FreeCell ==
    ASSUME IndInv, sequence[Cell(tail)] = tail
    PROVE  tail < head + Size /\ \A c \in Consumers : Holds(c) => tail < pos[c] + Size
<1> USE RingAssumption DEF IndInv, RingInv
<1>1. tail \in Nat /\ head \in Nat /\ head <= tail /\ tail <= head + Size
  BY DEF TypeOK, Window
<1>2. tail < head + Size
  <2> SUFFICES ASSUME tail = head + Size PROVE FALSE
    BY <1>1
  <2>1. Cell(tail) = Cell(head)
    BY <1>1, CellFacts
  <2>2. sequence[Cell(head)] = head + 1 \/ sequence[Cell(head)] = head
    BY <1>1 DEF Window
  <2> QED
    BY <1>1, <2>1, <2>2
<1>3. ASSUME NEW c \in Consumers, Holds(c) PROVE tail < pos[c] + Size
  <2>1. pos[c] \in Nat /\ tail <= pos[c] + Size /\ sequence[Cell(pos[c])] = pos[c] + 1
    BY <1>3 DEF ConsumerHolds, TypeOK, Procs
  <2>2. tail # pos[c] + Size
    <3> SUFFICES ASSUME tail = pos[c] + Size PROVE FALSE
      OBVIOUS
    <3>1. Cell(tail) = Cell(pos[c])
      BY <2>1, CellFacts
    <3> QED
      BY <1>1, <2>1, <3>1
  <2> QED
    BY <1>1, <2>1, <2>2
<1> QED
  BY <1>2, <1>3

\* The compare-and-swap on tail claims the position for one producer.
LEMMA SubmitClaims ==
    ASSUME IndInv, NEW p \in Producers, SubmitCas(p), tail = pos[p]
    PROVE  IndInv'
<1> USE RingAssumption DEF IndInv, RingInv
<1>1. /\ pc[p] = "cas" /\ tail' = tail + 1 /\ log' = Append(log, task[p])
      /\ pc' = [pc EXCEPT ![p] = "access"]
      /\ UNCHANGED <<next_id, head, sequence, data, pos, task>>
  BY DEF SubmitCas, Goto
<1>2. /\ p \in Procs /\ p \notin Consumers /\ pc'[p] = "access"
      /\ \A q \in Procs : q # p => pc'[q] = pc[q]
  BY <1>1 DEF TypeOK, Procs
<1>3. /\ tail \in Nat /\ head \in Nat /\ next_id \in 1 .. MaxSubmits + 1
      /\ pos[p] \in Nat /\ Cell(tail) \in Cells
  BY <1>2, CellFacts DEF TypeOK
<1>4. Claiming(p) /\ ~ Holds(p) /\ task[p] \in 1 .. MaxSubmits
  <2>1. Claiming(p) /\ ~ Holds(p) /\ task[p] \in Nat
    BY <1>1, <1>2 DEF Claiming, Holds, TypeOK
  <2> QED
    BY <1>3, <2>1 DEF FreshTasks
<1>5. sequence[Cell(tail)] = tail
  BY <1>1 DEF ProducerPositions
<1>6. tail < head + Size /\ \A c \in Consumers : Holds(c) => tail < pos[c] + Size
  BY <1>5, FreeCell
<1>7. /\ log' \in Seq(1 .. MaxSubmits) /\ Len(log') = tail'
      /\ log'[tail + 1] = task[p] /\ \A i \in 1 .. tail : log'[i] = log[i]
  BY <1>1, <1>3, <1>4 DEF TypeOK
<1>8. TypeOK'
  <2>1. pc' \in [Procs -> Labels]
    BY <1>1, Updated, Zenon DEF TypeOK, Labels
  <2> QED
    BY <1>1, <1>3, <1>7, <2>1 DEF TypeOK
<1>9. Holds(p)' /\ \A q \in Procs : q # p => (Holds(q)' <=> Holds(q))
  BY <1>2 DEF Holds
<1>10. ProducerHolds'
  <2> SUFFICES ASSUME NEW q \in Producers, Holds(q)'
      PROVE  /\ head <= pos[q] /\ pos[q] < tail + 1
             /\ sequence[Cell(pos[q])] = pos[q]
             /\ task[q] = log'[pos[q] + 1]
             /\ pc'[q] = "store_seq" => data[Cell(pos[q])] = task[q]
    BY Zenon, <1>1 DEF ProducerHolds
  <2>1. CASE q = p
    BY <1>1, <1>2, <1>3, <1>5, <1>7, <2>1 DEF Window
  <2>2. CASE q # p
    <3>1. Holds(q) /\ pc'[q] = pc[q] /\ pos[q] \in Nat
      BY <1>2, <1>9, <2>2 DEF Procs, TypeOK
    <3>2. /\ head <= pos[q] /\ pos[q] < tail /\ sequence[Cell(pos[q])] = pos[q]
          /\ task[q] = log[pos[q] + 1]
          /\ pc[q] = "store_seq" => data[Cell(pos[q])] = task[q]
      BY <3>1 DEF ProducerHolds
    <3>3. pos[q] + 1 \in 1 .. tail
      BY <1>3, <3>1, <3>2
    <3> QED
      BY <1>3, <1>7, <3>1, <3>2, <3>3
  <2> QED
    BY <2>1, <2>2
<1>11. ConsumerHolds'
  <2> SUFFICES ASSUME NEW c \in Consumers, Holds(c)'
      PROVE  /\ pos[c] < head /\ tail + 1 <= pos[c] + Size
             /\ sequence[Cell(pos[c])] = pos[c] + 1
             /\ pc'[c] = "store_seq" => task[c] = log'[pos[c] + 1]
    BY <1>1, Zenon DEF ConsumerHolds
  <2>1. Holds(c) /\ pc'[c] = pc[c] /\ pos[c] \in Nat
    BY <1>2, <1>9 DEF Procs, TypeOK
  <2>2. /\ pos[c] < head /\ sequence[Cell(pos[c])] = pos[c] + 1
        /\ pc[c] = "store_seq" => task[c] = log[pos[c] + 1]
    BY <2>1 DEF ConsumerHolds
  <2>3. pos[c] + 1 \in 1 .. tail
    BY <1>3, <2>1, <2>2 DEF Window
  <2>4. tail + 1 <= pos[c] + Size
    BY <1>3, <1>6, <2>1
  <2>5. log'[pos[c] + 1] = log[pos[c] + 1]
    BY <1>7, <2>3
  <2> QED
    BY <2>1, <2>2, <2>4, <2>5, Zenon
<1>12. OneHolder'
  <2>1. ASSUME NEW q \in Procs, Holds(q) PROVE pos[q] < tail
    BY <1>3, <2>1 DEF ProducerHolds, ConsumerHolds, Window, Procs, TypeOK
  <2> QED
    BY <1>1, <1>2, <1>3, <1>9, <2>1 DEF OneHolder
<1>13. Window'
  <2>1. \A k \in Int : /\ k = tail => Owns(p, k)'
                       /\ \A q \in Procs : Owns(q, k) => Owns(q, k)'
    BY <1>1, <1>2, <1>4, <1>9 DEF Owns, Holds
  <2>2. head' <= tail' /\ tail' <= head' + Size
    BY <1>1, <1>3, <1>6 DEF Window
  <2>3. ASSUME NEW n \in Nat, head <= n, n < tail + 1
        PROVE  \/ sequence[Cell(n)] = n + 1
               \/ sequence[Cell(n)] = n /\ \E q \in Producers : Owns(q, n)'
    BY <1>3, <1>5, <2>1, <2>3 DEF Window, Procs
  <2>4. ASSUME NEW n \in Nat, tail + 1 <= n, n < head + Size
        PROVE  \/ sequence[Cell(n)] = n
               \/ sequence[Cell(n)] = n - Size + 1 /\ \E c \in Consumers : Owns(c, n - Size)'
    BY <1>3, <2>1, <2>4 DEF Window, Procs
  <2> QED
    BY <1>1, <2>2, <2>3, <2>4 DEF Window
<1>14. Past'
  BY <1>1 DEF Past
<1>15. Published'
  <2> SUFFICES ASSUME NEW n \in Nat, n < tail + 1, sequence[Cell(n)] = n + 1
      PROVE  data[Cell(n)] = log'[n + 1]
    BY Zenon, <1>1 DEF Published
  <2>1. n # tail
    BY <1>3, <1>5
  <2>2. n < tail /\ n + 1 \in 1 .. tail
    BY <1>3, <2>1
  <2> QED
    BY <1>7, <2>2 DEF Published
<1>16. ProducerPositions'
  <2> SUFFICES ASSUME NEW q \in Producers, pc'[q] \in {"load_seq", "cas"}
      PROVE  pos[q] <= tail + 1 /\ pos[q] # tail + 1
    BY <1>1, <1>3 DEF ProducerPositions
  <2>1. q # p /\ pc'[q] = pc[q] /\ pos[q] \in Nat
    BY <1>2 DEF Procs, TypeOK
  <2> QED
    BY <1>3, <2>1 DEF ProducerPositions
<1>17. ConsumerPositions'
  BY <1>1, <1>2 DEF ConsumerPositions, Procs
<1>18. FreshTasks'
  <2>1. ~ Claiming(p)' /\ \A q \in Producers : q # p => (Claiming(q)' <=> Claiming(q))
    BY <1>2 DEF Claiming, Procs
  <2>2. \A i \in 1 .. tail + 1 : log'[i] = IF i \in 1 .. tail THEN log[i] ELSE task[p]
    BY <1>3, <1>7
  <2>3. \A i \in 1 .. tail + 1 : log'[i] < next_id
    BY <1>4, <2>2 DEF FreshTasks
  <2>4. ASSUME NEW q \in Producers, Claiming(q)'
        PROVE  /\ 1 <= task[q] /\ task[q] < next_id
               /\ \A i \in 1 .. tail + 1 : log'[i] # task[q]
    <3>1. Claiming(q) /\ task[q] # task[p]
      BY <1>4, <2>1, <2>4 DEF FreshTasks
    <3>2. 1 <= task[q] /\ task[q] < next_id /\ \A i \in 1 .. tail : log[i] # task[q]
      BY <3>1 DEF FreshTasks
    <3> QED
      BY <2>2, <3>1, <3>2
  <2>5. \A q, r \in Producers : Claiming(q)' /\ Claiming(r)' /\ task[q] = task[r] => q = r
    BY <2>1, Zenon DEF FreshTasks
  <2> QED
    BY Zenon, <1>1, <2>3, <2>4, <2>5 DEF FreshTasks
<1> QED
  BY <1>8, <1>10, <1>11, <1>12, <1>13, <1>14, <1>15, <1>16, <1>17, <1>18

\* The store to data goes to a cell no other holder and no reader looks at.
LEMMA SubmitStores ==
    ASSUME IndInv, NEW p \in Producers, SubmitStoreData(p)
    PROVE  IndInv'
<1> USE RingAssumption DEF IndInv, RingInv
<1>1. /\ pc[p] = "access" /\ data' = [data EXCEPT ![Cell(pos[p])] = task[p]]
      /\ pc' = [pc EXCEPT ![p] = "store_seq"]
      /\ UNCHANGED <<next_id, tail, head, sequence, pos, task, log>>
  BY DEF SubmitStoreData, Goto
<1>2. /\ p \in Procs /\ p \notin Consumers /\ pc'[p] = "store_seq"
      /\ \A q \in Procs : q # p => pc'[q] = pc[q]
  BY <1>1 DEF TypeOK, Procs
<1>3. /\ pos[p] \in Nat /\ task[p] \in Nat /\ Cell(pos[p]) \in Cells
      /\ data'[Cell(pos[p])] = task[p]
      /\ \A i \in Cells : i # Cell(pos[p]) => data'[i] = data[i]
  BY SMTT(30), <1>1, <1>2, CellFacts DEF TypeOK
<1>4. \A q \in Procs : Holds(q)' <=> Holds(q)
  BY <1>1, <1>2 DEF Holds
<1>5. /\ Holds(p) /\ head <= pos[p] /\ pos[p] < tail
      /\ sequence[Cell(pos[p])] = pos[p] /\ task[p] = log[pos[p] + 1]
  BY <1>1 DEF ProducerHolds, Holds
<1>6. TypeOK'
  <2>1. pc' \in [Procs -> Labels]
    BY <1>1, Updated, Zenon DEF TypeOK, Labels
  <2>2. data' \in [Cells -> Nat]
    BY <1>1, <1>3, Updated, Zenon DEF TypeOK
  <2> QED
    BY <1>1, <2>1, <2>2 DEF TypeOK
<1>7. ProducerHolds'
  <2>1. ASSUME NEW q \in Producers, Holds(q), q # p PROVE Cell(pos[q]) # Cell(pos[p])
    BY <1>2, <1>5, <2>1 DEF ProducerHolds, OneHolder, Procs
  <2>2. \A q \in Producers : pos[q] \in Nat /\ Cell(pos[q]) \in Cells
    BY Zenon, CellFacts DEF TypeOK, Procs
  <2> QED
    BY <1>1, <1>2, <1>3, <1>4, <1>5, <2>1, <2>2 DEF ProducerHolds, Procs
<1>8. ConsumerHolds' /\ OneHolder'
  BY <1>1, <1>2, <1>4 DEF ConsumerHolds, OneHolder, Procs
<1>9. Window'
  <2>1. \A q \in Procs, k \in Int : Owns(q, k) => Owns(q, k)'
    BY <1>1, <1>4 DEF Owns, Holds
  <2> QED
    BY <1>1, <2>1 DEF Window, Procs, TypeOK
<1>10. Past'
  BY <1>1 DEF Past
<1>11. Published'
  <2> SUFFICES ASSUME NEW n \in Nat, n < tail, sequence[Cell(n)] = n + 1
      PROVE  data'[Cell(n)] = log[n + 1]
    BY <1>1 DEF Published
  <2>1. Cell(n) # Cell(pos[p]) /\ Cell(n) \in Cells
    BY <1>3, <1>5, Adjacent, CellFacts
  <2> QED
    BY <1>3, <2>1 DEF Published
<1>12. ProducerPositions' /\ ConsumerPositions'
  BY <1>1, <1>2 DEF ProducerPositions, ConsumerPositions, Procs
<1>13. FreshTasks'
  <2>1. \A q \in Producers : Claiming(q)' <=> Claiming(q)
    BY <1>1, <1>2 DEF Claiming, Procs
  <2> QED
    BY <1>1, <2>1 DEF FreshTasks
<1> QED
  BY <1>6, <1>7, <1>8, <1>9, <1>10, <1>11, <1>12, <1>13

\* The store to sequence publishes the claimed position.
LEMMA SubmitPublishes ==
    ASSUME IndInv, NEW p \in Producers, SubmitStoreSeq(p)
    PROVE  IndInv'
<1> USE RingAssumption DEF IndInv, RingInv
<1> DEFINE n == pos[p]
<1>1. /\ pc[p] = "store_seq" /\ sequence' = [sequence EXCEPT ![Cell(n)] = n + 1]
      /\ pc' = [pc EXCEPT ![p] = "idle"]
      /\ UNCHANGED <<next_id, tail, head, data, pos, task, log>>
  BY DEF SubmitStoreSeq, Goto
<1>2. /\ p \in Procs /\ p \notin Consumers /\ pc'[p] = "idle"
      /\ \A q \in Procs : q # p => pc'[q] = pc[q]
  BY <1>1 DEF TypeOK, Procs
<1>3. /\ n \in Nat /\ Cell(n) \in Cells /\ sequence'[Cell(n)] = n + 1
      /\ \A i \in Cells : i # Cell(n) => sequence'[i] = sequence[i]
  BY <1>1, <1>2, CellFacts DEF TypeOK
<1>4. Holds(p) /\ ~ Holds(p)' /\ \A q \in Procs : q # p => (Holds(q)' <=> Holds(q))
  BY <1>1, <1>2 DEF Holds
<1>5. /\ head <= n /\ n < tail /\ sequence[Cell(n)] = n
      /\ task[p] = log[n + 1] /\ data[Cell(n)] = task[p]
  BY <1>1, <1>4 DEF ProducerHolds
<1>6. tail \in Nat /\ head \in Nat /\ \A i \in Cells : sequence[i] \in Nat
  BY DEF TypeOK
<1>7. n = pos'[p] /\ \A q \in Procs : pos'[q] = pos[q] /\ pos[q] \in Nat /\ Cell(pos[q]) \in Cells
  BY SMTT(30), <1>1, CellFacts DEF TypeOK
<1> HIDE DEF n
<1>8. TypeOK'
  <2>1. pc' \in [Procs -> Labels]
    BY <1>1, Updated, Zenon DEF TypeOK, Labels
  <2>2. n + 1 \in Nat
    BY <1>3
  <2>3. sequence' \in [Cells -> Nat]
    BY <1>1, <2>2, Updated, Zenon DEF TypeOK
  <2> QED
    BY <1>1, <2>1, <2>3 DEF TypeOK
<1>9. ProducerHolds'
  <2> SUFFICES ASSUME NEW q \in Producers, Holds(q)'
      PROVE  /\ head <= pos[q] /\ pos[q] < tail
             /\ sequence'[Cell(pos[q])] = pos[q]
             /\ task[q] = log[pos[q] + 1]
             /\ pc'[q] = "store_seq" => data[Cell(pos[q])] = task[q]
    BY <1>1 DEF ProducerHolds
  <2>1. q \in Procs /\ q # p /\ Holds(q) /\ pc'[q] = pc[q]
    BY <1>2, <1>4 DEF Procs
  <2>2. /\ head <= pos[q] /\ pos[q] < tail /\ sequence[Cell(pos[q])] = pos[q]
        /\ task[q] = log[pos[q] + 1]
        /\ pc[q] = "store_seq" => data[Cell(pos[q])] = task[q]
    BY <2>1 DEF ProducerHolds
  <2>3. pos[q] # n
    BY <1>2, <1>4, <2>1 DEF OneHolder, n
  <2>4. sequence'[Cell(pos[q])] = sequence[Cell(pos[q])]
    BY <1>3, <1>5, <1>7, <2>1, <2>2, <2>3
  <2> QED
    BY <2>1, <2>2, <2>4
<1>10. ConsumerHolds'
  <2> SUFFICES ASSUME NEW c \in Consumers, Holds(c)'
      PROVE  /\ pos[c] < head /\ tail <= pos[c] + Size
             /\ sequence'[Cell(pos[c])] = pos[c] + 1
             /\ pc'[c] = "store_seq" => task[c] = log[pos[c] + 1]
    BY <1>1 DEF ConsumerHolds
  <2>1. c \in Procs /\ Holds(c) /\ pc'[c] = pc[c]
    BY <1>2, <1>4 DEF Procs
  <2>2. /\ pos[c] < head /\ tail <= pos[c] + Size /\ sequence[Cell(pos[c])] = pos[c] + 1
        /\ pc[c] = "store_seq" => task[c] = log[pos[c] + 1]
    BY <2>1 DEF ConsumerHolds
  <2>3. Cell(pos[c]) # Cell(n)
    BY <1>3, <1>5, <1>7, <2>1, <2>2, Adjacent
  <2>4. sequence'[Cell(pos[c])] = sequence[Cell(pos[c])]
    BY <1>3, <1>7, <2>1, <2>3
  <2> QED
    BY <2>1, <2>2, <2>4
<1>11. OneHolder'
  BY <1>2, <1>4, <1>7 DEF OneHolder
<1>12. \A m \in Nat : Cell(m) \in Cells /\ (Cell(m) = Cell(n) => m # n - 1 /\ m # n + Size - 1)
  BY <1>3, CellFacts, Adjacent
<1>13. Window'
  <2>1. \A q \in Procs, k \in Int : q # p /\ Owns(q, k) => Owns(q, k)'
    BY <1>2, <1>7 DEF Owns
  <2>2. \A k \in Int : Owns(p, k) => k = n
    BY DEF Owns, n
  <2>3. ASSUME NEW m \in Nat, head <= m, m < tail
        PROVE  \/ sequence'[Cell(m)] = m + 1
               \/ sequence'[Cell(m)] = m /\ \E q \in Producers : Owns(q, m)'
    <3>1. \/ sequence[Cell(m)] = m + 1
          \/ sequence[Cell(m)] = m /\ \E q \in Producers : Owns(q, m)
      BY <2>3 DEF Window
    <3>2. CASE Cell(m) = Cell(n)
      <4>1. m = n
        BY <1>3, <1>5, <1>12, <3>1, <3>2
      <4> QED
        BY <1>3, <4>1
    <3>3. CASE Cell(m) # Cell(n)
      BY <1>3, <1>12, <2>1, <2>2, <3>1, <3>3 DEF Procs
    <3> QED
      BY <3>2, <3>3
  <2>4. ASSUME NEW m \in Nat, tail <= m, m < head + Size
        PROVE  \/ sequence'[Cell(m)] = m
               \/ sequence'[Cell(m)] = m - Size + 1 /\ \E c \in Consumers : Owns(c, m - Size)'
    <3>1. \/ sequence[Cell(m)] = m
          \/ sequence[Cell(m)] = m - Size + 1 /\ \E c \in Consumers : Owns(c, m - Size)
      BY <2>4 DEF Window
    <3>2. Cell(m) # Cell(n)
      BY <1>3, <1>5, <1>6, <1>12, <2>4, <3>1
    <3>3. sequence'[Cell(m)] = sequence[Cell(m)]
      BY <1>3, <1>12, <3>2
    <3> QED
      BY <1>2, <2>1, <3>1, <3>3 DEF Procs
  <2> QED
    BY <1>1, <2>3, <2>4 DEF Window
<1>14. Past'
  <2> SUFFICES ASSUME NEW m \in Nat, m < head PROVE sequence'[Cell(m)] > m
    BY <1>1 DEF Past
  <2>1. sequence[Cell(m)] > m
    BY DEF Past
  <2> QED
    BY <1>3, <1>5, <1>6, <1>12, <2>1
<1>15. Published'
  <2> SUFFICES ASSUME NEW m \in Nat, m < tail, sequence'[Cell(m)] = m + 1
      PROVE  data[Cell(m)] = log[m + 1]
    BY <1>1 DEF Published
  <2>1. CASE Cell(m) = Cell(n)
    BY <1>3, <1>5, <2>1
  <2>2. CASE Cell(m) # Cell(n)
    BY <1>3, <1>12, <2>2 DEF Published
  <2> QED
    BY <2>1, <2>2
<1>16. ProducerPositions'
  <2> SUFFICES ASSUME NEW q \in Producers, pc'[q] \in {"load_seq", "cas"}
      PROVE  /\ pos[q] <= tail
             /\ pc'[q] = "cas" /\ pos[q] = tail => sequence'[Cell(tail)] = tail
    BY <1>1 DEF ProducerPositions
  <2>1. q # p /\ pc'[q] = pc[q]
    BY <1>2 DEF Procs
  <2>2. sequence[Cell(tail)] = tail => sequence'[Cell(tail)] = tail
    BY <1>3, <1>5, <1>6, <1>12
  <2> QED
    BY <2>1, <2>2 DEF ProducerPositions
<1>17. ConsumerPositions'
  <2>1. sequence[Cell(head)] = head + 1 => sequence'[Cell(head)] = head + 1
    BY <1>3, <1>5, <1>6, <1>12
  <2> QED
    BY <1>1, <1>2, <2>1 DEF ConsumerPositions, Procs
<1>18. FreshTasks'
  <2>1. \A q \in Producers : Claiming(q)' <=> Claiming(q)
    BY <1>1, <1>2 DEF Claiming, Procs
  <2> QED
    BY <1>1, <2>1 DEF FreshTasks
<1> QED
  BY <1>8, <1>9, <1>10, <1>11, <1>13, <1>14, <1>15, <1>16, <1>17, <1>18

\* What a published cell says: a task waits.
LEMMA PublishedCell ==
    ASSUME IndInv, sequence[Cell(head)] = head + 1
    PROVE  head < tail
<1> USE RingAssumption DEF IndInv, RingInv
<1>1. tail \in Nat /\ head \in Nat /\ head <= tail
  BY DEF TypeOK, Window
<1>2. head # tail
  <2> SUFFICES ASSUME head = tail PROVE FALSE
    OBVIOUS
  <2>1. sequence[Cell(head)] = head \/ sequence[Cell(head)] = head - Size + 1
    BY <1>1 DEF Window
  <2> QED
    BY <1>1, <2>1
<1> QED
  BY <1>1, <1>2

\* The compare-and-swap on head takes the oldest task for one dispatcher.
LEMMA DispatchTakes ==
    ASSUME IndInv, NEW c \in Consumers, DispatchCas(c), head = pos[c]
    PROVE  IndInv'
<1> USE RingAssumption DEF IndInv, RingInv
<1>1. /\ pc[c] = "cas" /\ head' = head + 1 /\ pc' = [pc EXCEPT ![c] = "access"]
      /\ UNCHANGED <<next_id, tail, sequence, data, pos, task, log>>
  BY DEF DispatchCas, Goto
<1>2. /\ c \in Procs /\ c \notin Producers /\ pc'[c] = "access"
      /\ \A q \in Procs : q # c => pc'[q] = pc[q]
  BY <1>1 DEF TypeOK, Procs
<1>3. tail \in Nat /\ head \in Nat /\ \A q \in Procs : pos[q] \in Nat
  BY DEF TypeOK
<1>4. sequence[Cell(head)] = head + 1 /\ head < tail /\ tail <= head + Size
  BY <1>1, PublishedCell DEF ConsumerPositions, Window
<1>5. ~ Holds(c) /\ Holds(c)' /\ \A q \in Procs : q # c => (Holds(q)' <=> Holds(q))
  BY <1>1, <1>2 DEF Holds
<1>6. TypeOK'
  <2>1. pc' \in [Procs -> Labels]
    BY <1>1, Updated, Zenon DEF TypeOK, Labels
  <2>2. head' \in Nat
    BY <1>1, <1>3
  <2> QED
    BY <1>1, <2>1, <2>2 DEF TypeOK
<1>7. ProducerHolds'
  <2> SUFFICES ASSUME NEW p \in Producers, Holds(p)'
      PROVE  /\ head + 1 <= pos[p] /\ pos[p] < tail
             /\ sequence[Cell(pos[p])] = pos[p]
             /\ task[p] = log[pos[p] + 1]
             /\ pc'[p] = "store_seq" => data[Cell(pos[p])] = task[p]
    BY <1>1 DEF ProducerHolds
  <2>1. Holds(p) /\ pc'[p] = pc[p] /\ p \in Procs
    BY <1>2, <1>5 DEF Procs
  <2>2. /\ head <= pos[p] /\ pos[p] < tail /\ sequence[Cell(pos[p])] = pos[p]
        /\ task[p] = log[pos[p] + 1]
        /\ pc[p] = "store_seq" => data[Cell(pos[p])] = task[p]
    BY <2>1 DEF ProducerHolds
  <2>3. head + 1 <= pos[p]
    BY <1>3, <1>4, <2>1, <2>2
  <2> QED
    BY <2>1, <2>2, <2>3
<1>8. ConsumerHolds'
  <2> SUFFICES ASSUME NEW d \in Consumers, Holds(d)'
      PROVE  /\ pos[d] < head + 1 /\ tail <= pos[d] + Size
             /\ sequence[Cell(pos[d])] = pos[d] + 1
             /\ pc'[d] = "store_seq" => task[d] = log[pos[d] + 1]
    BY <1>1 DEF ConsumerHolds
  <2>1. CASE d = c
    BY <1>2, <1>3, <1>4, <2>1
  <2>2. CASE d # c
    <3>1. Holds(d) /\ pc'[d] = pc[d] /\ pos[d] \in Nat
      BY <1>2, <1>3, <1>5, <2>2 DEF Procs
    <3>2. /\ pos[d] < head /\ tail <= pos[d] + Size /\ sequence[Cell(pos[d])] = pos[d] + 1
          /\ pc[d] = "store_seq" => task[d] = log[pos[d] + 1]
      BY <3>1 DEF ConsumerHolds
    <3>3. pos[d] < head + 1
      BY <1>3, <3>1, <3>2
    <3> QED
      BY <3>1, <3>2, <3>3
  <2> QED
    BY <2>1, <2>2
<1>9. OneHolder'
  <2>1. ASSUME NEW q \in Procs, Holds(q) PROVE pos[q] # head
    BY <1>3, <1>4, <2>1 DEF ProducerHolds, ConsumerHolds, Procs
  <2> QED
    BY <1>1, <1>2, <1>5, <2>1 DEF OneHolder
<1>10. Window'
  <2>1. \A k \in Int : /\ k = head => Owns(c, k)'
                       /\ \A q \in Procs : Owns(q, k) => Owns(q, k)'
    BY <1>1, <1>2, <1>5 DEF Owns, Holds
  <2>2. head' <= tail' /\ tail' <= head' + Size
    BY <1>1, <1>3, <1>4
  <2>3. ASSUME NEW n \in Nat, head + 1 <= n, n < tail
        PROVE  \/ sequence[Cell(n)] = n + 1
               \/ sequence[Cell(n)] = n /\ \E q \in Producers : Owns(q, n)'
    BY <1>3, <2>1, <2>3 DEF Window, Procs
  <2>4. ASSUME NEW n \in Nat, tail <= n, n < head + 1 + Size
        PROVE  \/ sequence[Cell(n)] = n
               \/ sequence[Cell(n)] = n - Size + 1 /\ \E d \in Consumers : Owns(d, n - Size)'
    <3>1. CASE n = head + Size
      <4>1. Cell(n) = Cell(head) /\ n - Size = head /\ n - Size \in Int
        BY <1>3, <3>1, CellFacts
      <4>2. Owns(c, n - Size)'
        BY <1>1, <1>2, <4>1 DEF Owns
      <4> QED
        BY <1>4, <4>1, <4>2
    <3>2. CASE n # head + Size
      <4>1. n < head + Size
        BY <1>3, <2>4, <3>2
      <4> QED
        BY <1>3, <2>1, <2>4, <4>1 DEF Window, Procs
    <3> QED
      BY <3>1, <3>2
  <2> QED
    BY <1>1, <2>2, <2>3, <2>4 DEF Window
<1>11. Past'
  <2> SUFFICES ASSUME NEW n \in Nat, n < head + 1 PROVE sequence[Cell(n)] > n
    BY <1>1 DEF Past
  <2>1. n = head \/ n < head
    BY <1>3
  <2> QED
    BY <1>3, <1>4, <2>1 DEF Past
<1>12. Published'
  BY <1>1 DEF Published
<1>13. ProducerPositions'
  BY <1>1, <1>2 DEF ProducerPositions, Procs
<1>14. ConsumerPositions'
  <2> SUFFICES ASSUME NEW d \in Consumers, pc'[d] \in {"load_seq", "cas"}
      PROVE  pos[d] <= head + 1 /\ pos[d] # head + 1
    BY <1>1, <1>3 DEF ConsumerPositions
  <2>1. d # c /\ pc'[d] = pc[d] /\ pos[d] \in Nat
    BY <1>2, <1>3 DEF Procs
  <2> QED
    BY <1>3, <2>1 DEF ConsumerPositions
<1>15. FreshTasks'
  <2>1. \A q \in Producers : Claiming(q)' <=> Claiming(q)
    BY <1>1, <1>2 DEF Claiming, Procs
  <2> QED
    BY <1>1, <2>1 DEF FreshTasks
<1> QED
  BY <1>6, <1>7, <1>8, <1>9, <1>10, <1>11, <1>12, <1>13, <1>14, <1>15

\* The dispatcher reads the task of the position it took.
LEMMA DispatchLoads ==
    ASSUME IndInv, NEW c \in Consumers, DispatchLoadData(c)
    PROVE  IndInv'
<1> USE RingAssumption DEF IndInv, RingInv
<1>1. /\ pc[c] = "access" /\ task' = [task EXCEPT ![c] = data[Cell(pos[c])]]
      /\ pc' = [pc EXCEPT ![c] = "store_seq"]
      /\ UNCHANGED <<next_id, tail, head, sequence, data, pos, log>>
  BY DEF DispatchLoadData, Goto, ring
<1>2. /\ c \in Procs /\ c \notin Producers /\ pc'[c] = "store_seq"
      /\ task'[c] = data[Cell(pos[c])] /\ Cell(pos[c]) \in Cells /\ pos[c] \in Nat
      /\ \A q \in Procs : q # c => pc'[q] = pc[q] /\ task'[q] = task[q]
  <2>1. c \in Procs /\ c \notin Producers /\ pos[c] \in Nat
    BY DEF TypeOK, Procs
  <2>2. Cell(pos[c]) \in Cells
    BY <2>1, CellFacts
  <2>3. /\ pc'[c] = "store_seq" /\ task'[c] = data[Cell(pos[c])]
        /\ \A q \in Procs : q # c => pc'[q] = pc[q] /\ task'[q] = task[q]
    BY <1>1, <2>1 DEF TypeOK
  <2> QED
    BY <2>1, <2>2, <2>3
<1>3. \A q \in Procs : Holds(q)' <=> Holds(q)
  BY <1>1, <1>2 DEF Holds
<1>4. pos[c] < head /\ sequence[Cell(pos[c])] = pos[c] + 1
  BY <1>1 DEF ConsumerHolds, Holds
<1>5. data[Cell(pos[c])] = log[pos[c] + 1]
  <2>1. head <= tail /\ head \in Nat /\ tail \in Nat
    BY DEF Window, TypeOK
  <2>2. pos[c] < tail
    BY <1>2, <1>4, <2>1
  <2> QED
    BY <1>2, <1>4, <2>2 DEF Published
<1>6. TypeOK'
  <2>1. data[Cell(pos[c])] \in Nat
    BY <1>2 DEF TypeOK
  <2>2. pc' \in [Procs -> Labels]
    BY <1>1, Updated, Zenon DEF TypeOK, Labels
  <2>3. task' \in [Procs -> Nat]
    BY <1>1, <2>1, Updated, Zenon DEF TypeOK
  <2> QED
    BY <1>1, <2>2, <2>3 DEF TypeOK
<1>7. ProducerHolds' /\ OneHolder'
  BY <1>1, <1>2, <1>3 DEF ProducerHolds, OneHolder, Procs
<1>8. ConsumerHolds'
  BY <1>1, <1>2, <1>3, <1>5 DEF ConsumerHolds, Procs
<1>9. Window'
  <2>1. \A q \in Procs, k \in Int : Owns(q, k) => Owns(q, k)'
    BY <1>1, <1>3 DEF Owns, Holds
  <2> QED
    BY <1>1, <2>1 DEF Window, Procs, TypeOK
<1>10. Past' /\ Published'
  BY <1>1 DEF Past, Published
<1>11. ProducerPositions' /\ ConsumerPositions'
  BY <1>1, <1>2 DEF ProducerPositions, ConsumerPositions, Procs
<1>12. FreshTasks'
  <2>1. \A q \in Producers : (Claiming(q)' <=> Claiming(q)) /\ task'[q] = task[q]
    BY <1>1, <1>2 DEF Claiming, Procs
  <2> QED
    BY <1>1, <2>1 DEF FreshTasks
<1> QED
  BY <1>6, <1>7, <1>8, <1>9, <1>10, <1>11, <1>12

\* The store to sequence frees the cell for the position a lap later.
LEMMA DispatchFrees ==
    ASSUME IndInv, NEW c \in Consumers, DispatchStoreSeq(c)
    PROVE  IndInv'
<1> USE RingAssumption DEF IndInv, RingInv
<1> DEFINE n == pos[c]
<1>1. /\ pc[c] = "store_seq" /\ sequence' = [sequence EXCEPT ![Cell(n)] = n + Size]
      /\ pos' = [pos EXCEPT ![c] = n + 1] /\ pc' = [pc EXCEPT ![c] = "load_seq"]
      /\ UNCHANGED <<next_id, tail, head, data, task, log>>
  BY DEF DispatchStoreSeq, Goto
<1>2. /\ c \in Procs /\ c \notin Producers /\ pc'[c] = "load_seq" /\ pos'[c] = n + 1
      /\ \A q \in Procs : q # c => pc'[q] = pc[q] /\ pos'[q] = pos[q]
  BY <1>1 DEF TypeOK, Procs
<1>3. /\ n \in Nat /\ Cell(n) \in Cells /\ sequence'[Cell(n)] = n + Size
      /\ \A i \in Cells : i # Cell(n) => sequence'[i] = sequence[i]
  BY SMTT(30), <1>1, <1>2, CellFacts DEF TypeOK
<1>4. Holds(c) /\ ~ Holds(c)' /\ \A q \in Procs : q # c => (Holds(q)' <=> Holds(q))
  BY <1>1, <1>2 DEF Holds
<1>5. n < head /\ tail <= n + Size /\ sequence[Cell(n)] = n + 1
  BY <1>4 DEF ConsumerHolds
<1>6. tail \in Nat /\ head \in Nat /\ head <= tail /\ \A i \in Cells : sequence[i] \in Nat
  BY DEF TypeOK, Window
<1>7. \A q \in Procs : pos[q] \in Nat /\ Cell(pos[q]) \in Cells
  BY SMTT(30), CellFacts DEF TypeOK
<1>8. \A k \in Int : Owns(c, k) => k = n
  BY DEF Owns
<1>9. \A q \in Procs : Holds(q) /\ pos[q] = n => q = c
  BY <1>2, <1>4 DEF OneHolder
<1> HIDE DEF n
<1>10. TypeOK'
  <2>1. n + Size \in Nat /\ n + 1 \in Nat
    BY <1>3
  <2>2. pc' \in [Procs -> Labels]
    BY <1>1, Updated, Zenon DEF TypeOK, Labels
  <2>3. pos' \in [Procs -> Nat]
    BY <1>1, <2>1, Updated, Zenon DEF TypeOK
  <2>4. sequence' \in [Cells -> Nat]
    BY <1>1, <2>1, Updated, Zenon DEF TypeOK
  <2> QED
    BY <1>1, <2>2, <2>3, <2>4 DEF TypeOK
<1>11. \A m \in Nat : Cell(m) \in Cells /\ (Cell(m) = Cell(n) => m # n + 1)
  BY <1>3, CellFacts, Adjacent
<1>12. ProducerHolds'
  <2> SUFFICES ASSUME NEW p \in Producers, Holds(p)'
      PROVE  /\ head <= pos'[p] /\ pos'[p] < tail
             /\ sequence'[Cell(pos'[p])] = pos'[p]
             /\ task[p] = log[pos'[p] + 1]
             /\ pc'[p] = "store_seq" => data[Cell(pos'[p])] = task[p]
    BY <1>1 DEF ProducerHolds
  <2>1. p \in Procs /\ Holds(p) /\ pc'[p] = pc[p] /\ pos'[p] = pos[p]
    BY <1>2, <1>4 DEF Procs
  <2>2. /\ head <= pos[p] /\ pos[p] < tail /\ sequence[Cell(pos[p])] = pos[p]
        /\ task[p] = log[pos[p] + 1]
        /\ pc[p] = "store_seq" => data[Cell(pos[p])] = task[p]
    BY <2>1 DEF ProducerHolds
  <2>3. Cell(pos[p]) # Cell(n)
    BY <1>5, <1>7, <1>11, <2>1, <2>2
  <2>4. sequence'[Cell(pos[p])] = sequence[Cell(pos[p])]
    BY <1>3, <1>7, <2>1, <2>3
  <2> QED
    BY <2>1, <2>2, <2>4
<1>13. ConsumerHolds'
  <2> SUFFICES ASSUME NEW d \in Consumers, Holds(d)'
      PROVE  /\ pos'[d] < head /\ tail <= pos'[d] + Size
             /\ sequence'[Cell(pos'[d])] = pos'[d] + 1
             /\ pc'[d] = "store_seq" => task[d] = log[pos'[d] + 1]
    BY <1>1 DEF ConsumerHolds
  <2>1. d \in Procs /\ d # c /\ Holds(d) /\ pc'[d] = pc[d] /\ pos'[d] = pos[d]
    BY SMTT(30), <1>2, <1>4 DEF Procs
  <2>2. /\ pos[d] < head /\ tail <= pos[d] + Size /\ sequence[Cell(pos[d])] = pos[d] + 1
        /\ pc[d] = "store_seq" => task[d] = log[pos[d] + 1]
    BY SMTT(30), <2>1 DEF ConsumerHolds
  <2>3. pos[d] # n
    BY <1>9, <2>1
  <2>4. Cell(pos[d]) # Cell(n)
    BY <1>3, <1>5, <1>7, <2>1, <2>2, <2>3
  <2>5. sequence'[Cell(pos[d])] = sequence[Cell(pos[d])]
    BY <1>3, <1>7, <2>1, <2>4
  <2> QED
    BY <2>1, <2>2, <2>5
<1>14. OneHolder'
  BY <1>2, <1>4 DEF OneHolder
<1>15. Window'
  <2>1. \A q \in Procs, k \in Int : Owns(q, k) /\ k # n => Owns(q, k)'
    BY <1>2, <1>8 DEF Owns
  <2>2. ASSUME NEW m \in Nat, head <= m, m < tail
        PROVE  \/ sequence'[Cell(m)] = m + 1
               \/ sequence'[Cell(m)] = m /\ \E p \in Producers : Owns(p, m)'
    <3>1. \/ sequence[Cell(m)] = m + 1
          \/ sequence[Cell(m)] = m /\ \E p \in Producers : Owns(p, m)
      BY <2>2 DEF Window
    <3>2. Cell(m) # Cell(n) /\ m # n
      BY <1>3, <1>5, <1>6, <1>11, <2>2, <3>1
    <3>3. sequence'[Cell(m)] = sequence[Cell(m)]
      BY <1>3, <1>11, <3>2
    <3> QED
      BY <2>1, <3>1, <3>2, <3>3 DEF Procs
  <2>3. ASSUME NEW m \in Nat, tail <= m, m < head + Size
        PROVE  \/ sequence'[Cell(m)] = m
               \/ sequence'[Cell(m)] = m - Size + 1 /\ \E d \in Consumers : Owns(d, m - Size)'
    <3>1. \/ sequence[Cell(m)] = m
          \/ sequence[Cell(m)] = m - Size + 1 /\ \E d \in Consumers : Owns(d, m - Size)
      BY <2>3 DEF Window
    <3>2. CASE Cell(m) = Cell(n)
      <4>1. m = n + Size
        BY <1>3, <1>5, <1>11, <3>1, <3>2
      <4> QED
        BY <1>3, <3>2, <4>1
    <3>3. CASE Cell(m) # Cell(n)
      <4>1. sequence'[Cell(m)] = sequence[Cell(m)]
        BY <1>3, <1>11, <3>3
      <4>2. m - Size \in Int /\ m - Size # n
        BY <1>3, <3>3, CellFacts
      <4> QED
        BY <2>1, <3>1, <4>1, <4>2 DEF Procs
    <3> QED
      BY <3>2, <3>3
  <2> QED
    BY <1>1, <2>2, <2>3 DEF Window
<1>16. Past'
  <2> SUFFICES ASSUME NEW m \in Nat, m < head PROVE sequence'[Cell(m)] > m
    BY <1>1 DEF Past
  <2>1. sequence[Cell(m)] > m
    BY DEF Past
  <2> QED
    BY <1>3, <1>5, <1>6, <1>11, <2>1
<1>17. Published'
  <2> SUFFICES ASSUME NEW m \in Nat, m < tail, sequence'[Cell(m)] = m + 1
      PROVE  data[Cell(m)] = log[m + 1]
    BY <1>1 DEF Published
  <2>1. Cell(m) # Cell(n)
    <3> SUFFICES ASSUME Cell(m) = Cell(n) PROVE FALSE
      OBVIOUS
    <3>1. m = n + Size - 1
      BY <1>3
    <3> QED
      BY <1>3, <3>1, Adjacent
  <2> QED
    BY <1>3, <1>11, <2>1 DEF Published
<1>18. ProducerPositions'
  <2>1. sequence[Cell(tail)] = tail => sequence'[Cell(tail)] = tail
    BY <1>3, <1>5, <1>6, <1>11
  <2> QED
    BY <1>1, <1>2, <2>1 DEF ProducerPositions, Procs
<1>19. ConsumerPositions'
  <2> SUFFICES ASSUME NEW d \in Consumers, pc'[d] \in {"load_seq", "cas"}
      PROVE  /\ pos'[d] <= head
             /\ pc'[d] = "cas" /\ pos'[d] = head => sequence'[Cell(head)] = head + 1
    BY <1>1 DEF ConsumerPositions
  <2>1. CASE d = c
    BY <1>2, <1>3, <1>5, <1>6, <2>1
  <2>2. CASE d # c
    <3>1. sequence[Cell(head)] = head + 1 => sequence'[Cell(head)] = head + 1
      BY <1>3, <1>5, <1>6, <1>11
    <3> QED
      BY <1>2, <2>2, <3>1 DEF ConsumerPositions, Procs
  <2> QED
    BY <2>1, <2>2
<1>20. FreshTasks'
  <2>1. \A q \in Producers : Claiming(q)' <=> Claiming(q)
    BY <1>1, <1>2 DEF Claiming, Procs
  <2> QED
    BY <1>1, <2>1 DEF FreshTasks
<1> QED
  BY <1>10, <1>12, <1>13, <1>14, <1>15, <1>16, <1>17, <1>18, <1>19, <1>20

\* Every step of the ring keeps the invariant.
LEMMA NextRing == IndInv /\ [Next]_vars => IndInv'
<1> SUFFICES ASSUME IndInv, [Next]_vars PROVE IndInv'
  OBVIOUS
<1>1. CASE UNCHANGED vars
  <2> USE <1>1 DEF vars, IndInv, RingInv
  <2>1. TypeOK'
    BY DEF TypeOK
  <2>2. ProducerHolds' /\ ConsumerHolds' /\ OneHolder'
    BY DEF ProducerHolds, ConsumerHolds, OneHolder, Holds
  <2>3. Window' /\ Past' /\ Published'
    BY DEF Window, Past, Published, Owns, Holds
  <2>4. ProducerPositions' /\ ConsumerPositions' /\ FreshTasks'
    BY DEF ProducerPositions, ConsumerPositions, FreshTasks, Claiming
  <2> QED
    BY <2>1, <2>2, <2>3, <2>4
<1>2. ASSUME NEW p \in Producers, SubmitBegin(p) \/ Submit(p) PROVE IndInv'
  BY <1>2, SubmitBegins, SubmitReads, SubmitClaims, SubmitStores, SubmitPublishes DEF Submit
<1>3. ASSUME NEW c \in Consumers, DispatchLoadHead(c) \/ Dispatch(c) PROVE IndInv'
  BY <1>3, DispatchReads, DispatchTakes, DispatchLoads, DispatchFrees DEF Dispatch
<1> QED
  BY <1>1, <1>2, <1>3 DEF Next

\* The ring of submit_workload and dispatch_pending always satisfies IndInv,
\* whatever its length and whoever uses it.
THEOREM RingSound == Spec => []IndInv
<1> QED
  BY InitRing, NextRing, PTL DEF Spec

-----------------------------------------------------------------------------
\* A position that was claimed is never behind its cell, so a submit that reads
\* a smaller sequence number stands at tail; the same for head.
LEMMA BehindIsCurrent ==
    ASSUME IndInv, NEW n \in Nat
    PROVE  /\ n < tail => sequence[Cell(n)] >= n
           /\ n < head => sequence[Cell(n)] >= n + 1
<1> USE RingAssumption DEF IndInv, RingInv
<1>1. tail \in Nat /\ head \in Nat /\ sequence[Cell(n)] \in Nat
  BY CellFacts DEF TypeOK
<1>2. n < head => sequence[Cell(n)] >= n + 1
  BY <1>1 DEF Past
<1>3. ASSUME head <= n, n < tail PROVE sequence[Cell(n)] >= n
  BY <1>1, <1>3 DEF Window
<1> QED
  BY <1>1, <1>2, <1>3

\* A refusal has its reason in the state it is made in.
LEMMA HonestNext == IndInv /\ [Next]_vars => [HonestStep]_vars
<1> SUFFICES ASSUME IndInv, Next PROVE HonestStep
  OBVIOUS
<1> USE RingAssumption
<1>0. IndInv
  OBVIOUS
<1> USE DEF IndInv, RingInv
<1>1. /\ tail \in Nat /\ head \in Nat /\ pc \in [Procs -> Labels]
      /\ \A q \in Procs : pos[q] \in Nat /\ sequence[Cell(pos[q])] \in Nat
      /\ sequence[Cell(tail)] \in Nat /\ sequence[Cell(head)] \in Nat
  <2>1. /\ tail \in Nat /\ head \in Nat /\ pc \in [Procs -> Labels]
        /\ \A q \in Procs : pos[q] \in Nat
        /\ \A i \in Cells : sequence[i] \in Nat
    BY DEF TypeOK
  <2>2. \A n \in Nat : Cell(n) \in Cells
    BY CellFacts
  <2> QED
    BY <2>1, <2>2, Zenon
<1>2. ASSUME NEW q \in Procs, pc[q] = "load_seq", pc'[q] = "idle"
      PROVE  \/ q \in Producers /\ SubmitLoadSeq(q)
             \/ q \in Consumers /\ DispatchLoadSeq(q)
  <2>1. PICK r \in Procs : /\ \/ r \in Producers /\ (SubmitBegin(r) \/ Submit(r))
                              \/ r \in Consumers /\ (DispatchLoadHead(r) \/ Dispatch(r))
                           /\ \E l \in Labels : pc' = [pc EXCEPT ![r] = l]
    BY ZenonT(30) DEF Next, SubmitBegin, Submit, SubmitLoadTail, SubmitLoadSeq, SubmitCas, SubmitStoreData,
           SubmitStoreSeq, DispatchLoadHead, Dispatch, DispatchLoadSeq, DispatchCas,
           DispatchLoadData, DispatchStoreSeq, Goto, Labels, Procs
  <2>2. r = q
    BY <1>1, <1>2, <2>1
  <2> QED
    BY SMTT(30), <1>1, <1>2, <2>1, <2>2
       DEF SubmitBegin, Submit, SubmitLoadTail, SubmitCas, SubmitStoreData,
           SubmitStoreSeq, DispatchLoadHead, Dispatch, DispatchCas,
           DispatchLoadData, DispatchStoreSeq
<1>3. ASSUME NEW p \in Producers, pc[p] = "load_seq", pc'[p] = "idle"
      PROVE  /\ pos[p] = tail /\ tail >= Size
             /\ tail - Size >= head \/ \E c \in Consumers : Owns(c, tail - Size)
  <2>1. p \in Procs /\ SubmitLoadSeq(p) /\ pos[p] \in Nat /\ pos[p] <= tail
    BY <1>1, <1>2, <1>3 DEF Procs, ProducerPositions
  <2>2. sequence[Cell(pos[p])] < pos[p]
    <3> DEFINE dif == sequence[Cell(pos[p])] - pos[p]
    <3>1. "idle" = IF dif = 0 THEN "cas" ELSE IF dif < 0 THEN "idle" ELSE "load_pos"
      BY <1>1, <1>3, <2>1 DEF SubmitLoadSeq, Goto
    <3> QED
      BY <1>1, <2>1, <3>1
  <2>3. pos[p] = tail
    BY <1>0, <1>1, <2>1, <2>2, BehindIsCurrent
  <2>4. CASE tail = head + Size
    BY <1>1, <2>3, <2>4
  <2>5. CASE tail < head + Size
    <3>1. \E c \in Consumers : Owns(c, tail - Size)
      BY <1>1, <2>2, <2>3, <2>5 DEF Window
    <3>2. tail - Size \in Nat
      BY <3>1, <1>1 DEF Owns, Procs
    <3> QED
      BY <1>1, <2>3, <3>1, <3>2
  <2> QED
    BY <1>1, <2>4, <2>5 DEF Window
<1>4. ASSUME NEW c \in Consumers, pc[c] = "load_seq", pc'[c] = "idle"
      PROVE  /\ pos[c] = head
             /\ head = tail \/ \E p \in Producers : Owns(p, head)
  <2>1. c \in Procs /\ DispatchLoadSeq(c) /\ pos[c] \in Nat /\ pos[c] <= head
    BY <1>1, <1>2, <1>4 DEF Procs, ConsumerPositions
  <2>2. sequence[Cell(pos[c])] < pos[c] + 1
    <3> DEFINE dif == sequence[Cell(pos[c])] - (pos[c] + 1)
    <3>1. "idle" = IF dif = 0 THEN "cas" ELSE IF dif < 0 THEN "idle" ELSE "load_pos"
      BY <1>1, <1>4, <2>1 DEF DispatchLoadSeq, Goto
    <3> QED
      BY <1>1, <2>1, <3>1
  <2>3. pos[c] = head
    BY <1>0, <1>1, <2>1, <2>2, BehindIsCurrent
  <2>4. head # tail => \E p \in Producers : Owns(p, head)
    BY <1>1, <2>2, <2>3 DEF Window
  <2> QED
    BY <2>3, <2>4
<1> QED
  BY <1>3, <1>4 DEF HonestStep

\* "Task queue is full" is only reported while the cell of the next position is
\* still occupied by the lap before, and dispatch_pending only returns when the
\* oldest position has nothing published: for every length of the ring and any
\* number of producers and dispatchers.
THEOREM RefusalsAreHonest == Spec => RefusalsHonest
<1> QED
  BY RingSound, HonestNext, PTL DEF Spec, RefusalsHonest

-----------------------------------------------------------------------------
\* While submits do not overlap, ids are accepted in the order they are taken.
SerialSubmits == \A p, q \in Producers : p = q

IdsAhead ==
    /\ tail < next_id
    /\ \A i \in 1 .. tail : log[i] >= i
    /\ \A p \in Producers : Claiming(p) => task[p] > tail

\* Every step of a ring with one producer keeps the ids ahead of the positions.
LEMMA IdsAheadStep ==
    ASSUME SerialSubmits, IndInv, IdsAhead, [Next]_vars
    PROVE  IdsAhead'
<1> USE DEF IndInv, RingInv
<1>1. /\ tail \in Nat /\ next_id \in Nat /\ \A i \in 1 .. tail : log[i] \in Nat
      /\ \A q \in Procs : task[q] \in Nat
  BY RingAssumption DEF TypeOK
<1>2. ASSUME UNCHANGED <<tail, log, next_id>>,
             \A p \in Producers : task'[p] = task[p] /\ (Claiming(p)' => Claiming(p))
      PROVE  IdsAhead'
  BY <1>2 DEF IdsAhead
<1>3. CASE UNCHANGED vars
  BY <1>2, <1>3 DEF vars, Claiming
<1>4. ASSUME NEW p \in Producers, SubmitBegin(p) PROVE IdsAhead'
  <2>1. /\ tail' = tail /\ log' = log /\ next_id' = next_id + 1 /\ task'[p] = next_id
    BY <1>4 DEF SubmitBegin, TypeOK, Procs
  <2>2. \A q \in Producers : q = p
    BY DEF SerialSubmits
  <2> QED
    BY <1>1, <2>1, <2>2 DEF IdsAhead
<1>5. ASSUME NEW p \in Producers, SubmitCas(p), tail = pos[p] PROVE IdsAhead'
  <2>1. /\ tail' = tail + 1 /\ next_id' = next_id /\ log' = Append(log, task[p])
        /\ pc'[p] = "access" /\ Claiming(p)
    BY <1>5 DEF SubmitCas, Goto, Claiming, TypeOK, Procs
  <2>2. \A q \in Producers : ~ Claiming(q)'
    BY <2>1 DEF SerialSubmits, Claiming
  <2>3. task[p] \in Nat /\ task[p] < next_id /\ task[p] > tail
    BY <1>1, <2>1 DEF FreshTasks, IdsAhead, Procs
  <2>4. \A i \in 1 .. tail + 1 : log'[i] = IF i \in 1 .. tail THEN log[i] ELSE task[p]
    BY <1>1, <2>1 DEF TypeOK
  <2>5. ASSUME NEW i \in 1 .. tail + 1 PROVE log'[i] >= i
    <3>1. CASE i \in 1 .. tail
      BY <2>4, <3>1 DEF IdsAhead
    <3>2. CASE i = tail + 1
      BY <1>1, <2>3, <2>4, <3>2
    <3> QED
      BY <1>1, <3>1, <3>2
  <2>6. tail' < next_id'
    BY <1>1, <2>1, <2>3
  <2> QED
    BY Zenon, <2>1, <2>2, <2>5, <2>6 DEF IdsAhead
<1>6. ASSUME NEW p \in Producers,
             \/ SubmitLoadTail(p) \/ SubmitLoadSeq(p)
             \/ SubmitCas(p) /\ tail # pos[p]
             \/ SubmitStoreData(p) \/ SubmitStoreSeq(p)
      PROVE  IdsAhead'
  <2>1. UNCHANGED <<tail, log, next_id, task>>
    BY <1>6 DEF SubmitLoadTail, SubmitLoadSeq, SubmitCas, SubmitStoreData, SubmitStoreSeq, ring
  <2>2. pc'[p] \in {"load_pos", "load_seq", "cas"} => Claiming(p)
    BY <1>6 DEF SubmitLoadTail, SubmitLoadSeq, SubmitCas, SubmitStoreData, SubmitStoreSeq, Goto,
                Claiming, TypeOK, Procs
  <2>3. \A q \in Producers : q = p
    BY DEF SerialSubmits
  <2> QED
    BY <1>2, <2>1, <2>2, <2>3 DEF Claiming
<1>7. ASSUME NEW c \in Consumers, DispatchLoadHead(c) \/ Dispatch(c) PROVE IdsAhead'
  <2>1. c \in Procs /\ c \notin Producers
    BY RingAssumption DEF Procs
  <2>2. UNCHANGED <<tail, log, next_id>> /\ \E l \in Labels : pc' = [pc EXCEPT ![c] = l]
    BY <1>7 DEF DispatchLoadHead, Dispatch, DispatchLoadSeq, DispatchCas, DispatchLoadData,
                DispatchStoreSeq, Goto, ring, Labels
  <2>3. task' = task \/ \E x : task' = [task EXCEPT ![c] = x]
    BY <1>7 DEF DispatchLoadHead, Dispatch, DispatchLoadSeq, DispatchCas, DispatchLoadData,
                DispatchStoreSeq, ring
  <2>4. \A p \in Producers : pc'[p] = pc[p] /\ task'[p] = task[p]
    BY <2>1, <2>2, <2>3 DEF TypeOK, Procs
  <2> QED
    BY <1>2, <2>2, <2>4 DEF Claiming
<1>8. ASSUME NEW p \in Producers, SubmitBegin(p) \/ Submit(p) PROVE IdsAhead'
  BY <1>4, <1>5, <1>6, <1>8 DEF Submit
<1> QED
  BY <1>3, <1>7, <1>8 DEF Next

\* While submits do not overlap, heterexec_poll never reports a task as
\* completed that still waits in the ring, for any number of submits, rejected
\* ones included.
THEOREM PollSound ==
    ASSUME SerialSubmits
    PROVE  Spec => []PollIsSound
<1>1. Init => IdsAhead
  BY DEF Init, IdsAhead, Claiming, Procs
<1>2. IndInv /\ IdsAhead /\ [Next]_vars => IdsAhead'
  BY IdsAheadStep
<1>3. IndInv /\ IdsAhead => PollIsSound
  <2> SUFFICES ASSUME IndInv, IdsAhead, NEW i \in 1 .. Len(log), log[i] <= head
      PROVE  i <= head
    BY DEF PollIsSound, Poll
  <2>1. head \in Nat /\ log[i] \in Nat /\ i \in 1 .. tail /\ tail \in Nat
    BY RingAssumption DEF IndInv, TypeOK
  <2>2. log[i] >= i
    BY <2>1 DEF IdsAhead
  <2> QED
    BY <2>1, <2>2
<1> QED
  BY <1>1, <1>2, <1>3, RingSound, PTL DEF Spec

-----------------------------------------------------------------------------
\* A dispatcher that holds a position has in hand the task accepted there, from
\* its compare-and-swap on head until it frees the cell.
HandsRight ==
    \A c \in Consumers :
        /\ InHand[c] = IF Holds(c) THEN log[pos[c] + 1] ELSE 0
        /\ Holds(c) => log[pos[c] + 1] \in 1 .. MaxSubmits

\* It has, although the ring is written and read in separate steps.
LEMMA HandIs == IndInv => HandsRight
<1> SUFFICES ASSUME IndInv, NEW c \in Consumers
    PROVE  /\ InHand[c] = IF Holds(c) THEN log[pos[c] + 1] ELSE 0
           /\ Holds(c) => log[pos[c] + 1] \in 1 .. MaxSubmits
  BY DEF HandsRight
<1> USE RingAssumption DEF IndInv, RingInv
<1>1. InHand[c] = CASE pc[c] = "access"    -> data[Cell(pos[c])]
                    [] pc[c] = "store_seq" -> task[c]
                    [] OTHER               -> 0
  BY DEF InHand
<1>2. CASE Holds(c)
  <2>1. pos[c] \in Nat /\ pos[c] < head /\ head <= tail /\ head \in Nat /\ tail \in Nat
    BY <1>2 DEF ConsumerHolds, Window, TypeOK, Procs
  <2>2. pos[c] < tail /\ pos[c] + 1 \in 1 .. Len(log)
    BY <2>1 DEF TypeOK
  <2>3. data[Cell(pos[c])] = log[pos[c] + 1]
    <3>1. sequence[Cell(pos[c])] = pos[c] + 1
      BY <1>2 DEF ConsumerHolds
    <3> QED
      BY <2>1, <2>2, <3>1 DEF Published
  <2>4. pc[c] = "store_seq" => task[c] = log[pos[c] + 1]
    BY <1>2 DEF ConsumerHolds
  <2>5. log[pos[c] + 1] \in 1 .. MaxSubmits
    <3>1. log \in Seq(1 .. MaxSubmits)
      BY DEF TypeOK
    <3> QED
      BY <2>2, <3>1
  <2>6. pc[c] = "access" \/ pc[c] = "store_seq"
    BY <1>2 DEF Holds
  <2> QED
    BY <1>1, <1>2, <2>3, <2>4, <2>5, <2>6
<1>3. CASE ~ Holds(c)
  <2>1. pc[c] # "access" /\ pc[c] # "store_seq"
    BY <1>3 DEF Holds
  <2> QED
    BY <1>1, <1>3, <2>1
<1> QED
  BY <1>2, <1>3

\* The library's facts about finite sets, which only the capacity needs.
Fin == INSTANCE FiniteSetTheorems

\* The library and the queue count as this module does.
LEMMA SameCardinality ==
    ASSUME NEW S
    PROVE  Fin!Cardinality(S) = Cardinality(S) /\ Queue!Cardinality(S) = Cardinality(S)
<1>1. Fin!Cardinality(S) = Cardinality(S)
  BY DEF Cardinality, Fin!Cardinality
<1>2. Queue!Cardinality(S) = Cardinality(S)
  BY DEF Cardinality, Queue!Cardinality
<1> QED
  BY <1>1, <1>2

\* The dispatchers with a task in hand are the holders, and together with the
\* waiting tasks they leave room for the one that is claimed.
LEMMA RoomForOne ==
    ASSUME IndInv, sequence[Cell(tail)] = tail
    PROVE  tail - head + Cardinality(Queue!Busy) < Size
<1> USE RingAssumption
<1> DEFINE lo == tail + 1 - Size
           hi == head - 1
           B == {c \in Consumers : Holds(c)}
           f == [c \in B |-> pos[c]]
<1>1. Queue!Busy = B
  BY HandIs DEF HandsRight, Queue!Busy
<1>2. tail \in Nat /\ head \in Nat /\ tail < head + Size /\ lo \in Int /\ hi \in Int /\ lo <= hi + 1
  BY FreeCell DEF IndInv, TypeOK
<1>3. ASSUME NEW c \in B PROVE f[c] \in lo .. hi
  <2>1. pos[c] \in Nat /\ pos[c] < head
    BY DEF IndInv, RingInv, TypeOK, ConsumerHolds, Procs
  <2>2. tail < pos[c] + Size
    BY FreeCell
  <2> QED
    BY <1>2, <2>1, <2>2
<1>4. \A a, b \in B : f[a] = f[b] => a = b
  BY DEF IndInv, RingInv, OneHolder, Procs
<1>5. f \in Fin!Injection(B, lo .. hi)
  <2>1. f \in [B -> lo .. hi]
    BY <1>3
  <2> HIDE DEF f, B, lo, hi
  <2> QED
    BY <1>4, <2>1 DEF Fin!Injection, Fin!IsInjective
<1>6. Fin!IsFiniteSet(lo .. hi) /\ Fin!Cardinality(lo .. hi) = hi - lo + 1
  <2> HIDE DEF lo, hi
  <2>1. Fin!IsFiniteSet(lo .. hi) /\ Fin!Cardinality(lo .. hi) = IF lo > hi THEN 0 ELSE hi - lo + 1
    BY <1>2, Fin!FS_Interval
  <2> QED
    BY <1>2, <2>1
<1>7. Fin!IsFiniteSet(B) /\ Fin!Cardinality(B) <= Fin!Cardinality(lo .. hi)
  <2> HIDE DEF f, B, lo, hi
  <2> QED
    BY <1>5, <1>6, Fin!FS_Injection
<1>8. Fin!Cardinality(B) \in Nat
  <2> HIDE DEF B
  <2> QED
    BY <1>7, Fin!FS_CardinalityType
<1>9. Fin!Cardinality(B) <= head - 1 - (tail + 1 - Size) + 1
  BY <1>6, <1>7
<1> HIDE DEF B
<1> QED
  BY <1>1, <1>2, <1>8, <1>9, SameCardinality

\* The empty ring is the empty queue.
LEMMA QueueInit == Init => Queue!Init
<1> SUFFICES ASSUME Init PROVE Queue!Init
  OBVIOUS
<1>1. Waiting = <<>>
  BY DEF Init, Waiting
<1>2. InHand = [c \in Consumers |-> 0]
  BY DEF Init, InHand, Procs
<1>3. Accepted = {}
  BY DEF Init, Accepted
<1> QED
  BY <1>1, <1>2, <1>3 DEF Queue!Init

\* A step that claims, takes and frees nothing is none of the queue.
LEMMA QueueStutters ==
    ASSUME IndInv, IndInv', UNCHANGED <<tail, head, log>>,
           \A c \in Consumers : (Holds(c)' <=> Holds(c)) /\ (Holds(c) => pos'[c] = pos[c])
    PROVE  UNCHANGED Queue!vars
<1>1. Waiting' = Waiting /\ Accepted' = Accepted
  BY DEF Waiting, Accepted
<1>2. HandsRight
  BY HandIs
<1>3. HandsRight'
  BY HandIs, PTL
<1>4. InHand' = InHand
  <2>1. \A c \in Consumers : InHand'[c] = InHand[c]
    BY <1>2, <1>3 DEF HandsRight
  <2> QED
    BY <2>1 DEF InHand
<1> QED
  BY <1>1, <1>4 DEF Queue!vars

\* The part of a sequence from a position to its end.
LEMMA SuffixOf ==
    ASSUME NEW S, NEW s \in Seq(S), NEW h \in Nat, h <= Len(s)
    PROVE  /\ SubSeq(s, h + 1, Len(s)) \in Seq(S)
           /\ Len(SubSeq(s, h + 1, Len(s))) = Len(s) - h
           /\ \A i \in 1 .. Len(s) - h : SubSeq(s, h + 1, Len(s))[i] = s[h + i]
<1> DEFINE n == Len(s)
<1>1. n \in Nat /\ n \in Int /\ h + 1 \in Int
  OBVIOUS
<1>2. \A i \in h + 1 .. n : s[i] \in S
  OBVIOUS
<1> HIDE DEF n
<1>3. /\ SubSeq(s, h + 1, n) \in Seq(S)
      /\ Len(SubSeq(s, h + 1, n)) = IF h + 1 <= n THEN n - (h + 1) + 1 ELSE 0
      /\ \A i \in 1 .. n - (h + 1) + 1 : SubSeq(s, h + 1, n)[i] = s[(h + 1) + i - 1]
  BY <1>1, <1>2
<1>4. n - (h + 1) + 1 = n - h /\ \A i \in Int : (h + 1) + i - 1 = h + i
  BY <1>1
<1>5. Len(SubSeq(s, h + 1, n)) = n - h
  BY <1>1, <1>3 DEF n
<1>6. \A i \in 1 .. n - h : SubSeq(s, h + 1, n)[i] = s[h + i]
  BY <1>3, <1>4
<1> QED
  BY <1>3, <1>5, <1>6 DEF n

\* Sequences of one length with the same elements are the same.
LEMMA SameElements ==
    ASSUME NEW S, NEW v \in Seq(S), NEW a \in Seq(S), Len(v) = Len(a),
           \A i \in 1 .. Len(v) : v[i] = a[i]
    PROVE  v = a
OBVIOUS

\* Appending to a sequence appends to what follows a position.
AppendsToSuffix(s, h, x) ==
    SubSeq(Append(s, x), h + 1, Len(s) + 1) = Append(SubSeq(s, h + 1, Len(s)), x)

\* It does so for every sequence and position.
LEMMA SuffixGrows ==
    ASSUME NEW S, NEW s \in Seq(S), NEW h \in Nat, h <= Len(s), NEW x \in S
    PROVE  AppendsToSuffix(s, h, x)
<1> DEFINE t == Append(s, x)
           u == SubSeq(s, h + 1, Len(s))
           v == SubSeq(t, h + 1, Len(t))
           a == Append(u, x)
<1>1. /\ t \in Seq(S) /\ Len(t) = Len(s) + 1 /\ Len(s) \in Nat /\ h <= Len(t)
      /\ t[Len(s) + 1] = x /\ \A i \in 1 .. Len(s) : t[i] = s[i]
  OBVIOUS
<1>2. /\ u \in Seq(S) /\ Len(u) = Len(s) - h
      /\ \A i \in 1 .. Len(s) - h : u[i] = s[h + i]
  BY SuffixOf
<1> HIDE DEF t, u
<1>3. /\ v \in Seq(S) /\ Len(v) = Len(t) - h
      /\ \A i \in 1 .. Len(t) - h : v[i] = t[h + i]
  BY <1>1, SuffixOf
<1>4. /\ a \in Seq(S) /\ Len(a) = Len(u) + 1 /\ a[Len(u) + 1] = x
      /\ \A i \in 1 .. Len(u) : a[i] = u[i]
  BY <1>2
<1> HIDE DEF v, a
<1>5. Len(v) = Len(a)
  BY <1>1, <1>2, <1>3, <1>4
<1>6. ASSUME NEW i \in 1 .. Len(v) PROVE v[i] = a[i]
  <2>1. CASE i \in 1 .. Len(u)
    <3>1. h + i \in 1 .. Len(s) /\ i \in 1 .. Len(s) - h /\ i \in 1 .. Len(t) - h
      BY <1>1, <1>2, <2>1
    <3> QED
      BY <1>1, <1>2, <1>3, <1>4, <2>1, <3>1
  <2>2. CASE i = Len(u) + 1
    <3>1. h + i = Len(s) + 1 /\ i \in 1 .. Len(t) - h
      BY <1>1, <1>2, <2>2
    <3> QED
      BY <1>1, <1>3, <1>4, <2>2, <3>1
  <2> QED
    BY <1>1, <1>2, <1>3, <2>1, <2>2
<1>7. v = a
  BY <1>3, <1>4, <1>5, <1>6, SameElements, Zenon
<1>8. SubSeq(t, h + 1, Len(s) + 1) = a
  BY <1>1, <1>7, Zenon DEF v
<1> QED
  BY <1>8, Zenon DEF t, u, a, AppendsToSuffix

\* The first element of what follows a position, and the rest.
LEMMA SuffixShrinks ==
    ASSUME NEW S, NEW s \in Seq(S), NEW h \in Nat, h < Len(s)
    PROVE  /\ SubSeq(s, h + 1, Len(s)) # <<>>
           /\ Head(SubSeq(s, h + 1, Len(s))) = s[h + 1]
           /\ Tail(SubSeq(s, h + 1, Len(s))) = SubSeq(s, h + 1 + 1, Len(s))
<1> DEFINE u == SubSeq(s, h + 1, Len(s))
           v == SubSeq(s, h + 1 + 1, Len(s))
           a == Tail(u)
<1>1. h + 1 \in Nat /\ h <= Len(s) /\ h + 1 <= Len(s) /\ Len(s) \in Nat
  OBVIOUS
<1>2. /\ u \in Seq(S) /\ Len(u) = Len(s) - h
      /\ \A i \in 1 .. Len(s) - h : u[i] = s[h + i]
  BY <1>1, SuffixOf
<1>3. /\ v \in Seq(S) /\ Len(v) = Len(s) - (h + 1)
      /\ \A i \in 1 .. Len(s) - (h + 1) : v[i] = s[(h + 1) + i]
  BY <1>1, SuffixOf
<1> HIDE DEF u, v
<1>4. u # <<>> /\ Head(u) = u[1] /\ u[1] = s[h + 1]
  BY <1>1, <1>2
<1>5. a \in Seq(S) /\ Len(a) = Len(u) - 1 /\ \A i \in 1 .. Len(u) - 1 : a[i] = u[i + 1]
  BY <1>2, <1>4
<1> HIDE DEF a
<1>6. Len(v) = Len(a)
  BY <1>1, <1>2, <1>3, <1>5
<1>7. ASSUME NEW i \in 1 .. Len(v) PROVE v[i] = a[i]
  <2>1. /\ i \in 1 .. Len(s) - (h + 1) /\ i \in 1 .. Len(u) - 1
        /\ i + 1 \in 1 .. Len(s) - h /\ (h + 1) + i = h + (i + 1)
    BY <1>1, <1>2, <1>3
  <2> QED
    BY <1>2, <1>3, <1>5, <2>1, ZenonT(30)
<1>8. v = a
  BY <1>3, <1>5, <1>6, <1>7, SameElements, Zenon
<1> QED
  BY <1>4, <1>8, Zenon DEF u, v, a

\* Claiming a position is accepting a task.
LEMMA QueueAccepts ==
    ASSUME IndInv, IndInv', NEW p \in Producers, SubmitCas(p), tail = pos[p]
    PROVE  task[p] \in 1 .. MaxSubmits /\ Queue!Accept(task[p])
<1> USE RingAssumption
<1>1. /\ pc[p] = "cas" /\ tail' = tail + 1 /\ log' = Append(log, task[p])
      /\ pc' = [pc EXCEPT ![p] = "access"] /\ UNCHANGED <<head, pos>>
  BY DEF SubmitCas, Goto
<1>2. /\ tail \in Nat /\ head \in Nat /\ head <= tail /\ log \in Seq(1 .. MaxSubmits)
      /\ Len(log) = tail /\ pc \in [Procs -> Labels] /\ next_id \in 1 .. MaxSubmits + 1
      /\ task[p] \in Nat
  BY DEF IndInv, RingInv, TypeOK, Window, Procs
<1>3. Claiming(p) /\ sequence[Cell(tail)] = tail
  BY <1>1 DEF Claiming, IndInv, RingInv, ProducerPositions
<1>4. /\ task[p] \in 1 .. MaxSubmits /\ \A i \in 1 .. tail : log[i] # task[p]
  <2>1. 1 <= task[p] /\ task[p] < next_id /\ \A i \in 1 .. tail : log[i] # task[p]
    BY Zenon, <1>3 DEF IndInv, RingInv, FreshTasks
  <2>2. task[p] \in 1 .. MaxSubmits
    BY <1>2, <2>1
  <2> QED
    BY SMTT(30), <2>1, <2>2
<1>5. /\ Len(log') = tail + 1 /\ log'[tail + 1] = task[p]
      /\ \A i \in 1 .. tail : log'[i] = log[i]
  <2>1. log \in Seq(1 .. MaxSubmits) /\ Len(log) = tail /\ task[p] \in 1 .. MaxSubmits
    BY <1>2, <1>4
  <2> QED
    BY <1>1, <2>1
<1>6. task[p] \notin Accepted /\ Accepted' = Accepted \cup {task[p]}
  <2>1. Accepted = {log[i] : i \in 1 .. tail}
    BY <1>2 DEF Accepted
  <2>2. Accepted' = {log'[i] : i \in 1 .. tail + 1}
    BY <1>5 DEF Accepted
  <2>3. task[p] \notin Accepted
    BY <1>4, <2>1
  <2>4. task[p] \in Accepted'
    <3>1. tail + 1 \in 1 .. tail + 1
      BY <1>2
    <3> QED
      BY <1>5, <2>2, <3>1, Zenon
  <2>5. ASSUME NEW y \in Accepted PROVE y \in Accepted'
    <3>1. PICK i \in 1 .. tail : y = log[i]
      BY <2>1
    <3>2. i \in 1 .. tail + 1 /\ y = log'[i]
      BY SMTT(30), <1>2, <1>5, <3>1
    <3> QED
      BY <2>2, <3>2
  <2>6. ASSUME NEW y \in Accepted', y # task[p] PROVE y \in Accepted
    <3>1. PICK i \in 1 .. tail + 1 : y = log'[i]
      BY <2>2
    <3>2. i # tail + 1
      BY <1>5, <2>6, <3>1, ZenonT(30)
    <3>3. i \in 1 .. tail
      BY <1>2, <3>2
    <3> QED
      BY <1>5, <2>1, <3>1, <3>3, Zenon
  <2> QED
    BY <2>3, <2>4, <2>5, <2>6
<1>7. Len(Waiting) = tail - head
  <2>1. Waiting = SubSeq(log, head + 1, Len(log)) /\ head <= Len(log)
    BY <1>2 DEF Waiting
  <2>2. Len(SubSeq(log, head + 1, Len(log))) = Len(log) - head
    BY <1>2, <2>1, SuffixOf, Zenon
  <2> QED
    BY <1>2, <2>1, <2>2
<1>8. Waiting' = SubSeq(Append(log, task[p]), head + 1, Len(log) + 1)
  BY <1>1, <1>2 DEF Waiting
<1>9. Waiting' = Append(Waiting, task[p])
  <2>1. Waiting = SubSeq(log, head + 1, Len(log)) /\ head <= Len(log)
    BY <1>2 DEF Waiting
  <2>2. SubSeq(Append(log, task[p]), head + 1, Len(log) + 1)
          = Append(SubSeq(log, head + 1, Len(log)), task[p])
    <3>1. /\ log \in Seq(1 .. MaxSubmits) /\ head \in Nat /\ head <= Len(log)
          /\ task[p] \in 1 .. MaxSubmits
      BY SMTT(30), <1>2, <1>4
    <3>2. AppendsToSuffix(log, head, task[p])
      BY Zenon, <3>1, SuffixGrows
    <3> QED
      BY <3>2, Zenon DEF AppendsToSuffix
  <2> QED
    BY <1>8, <2>1, <2>2, Zenon
<1>10. Len(Waiting) + Cardinality(Queue!Busy) < Size
  BY <1>3, <1>7, RoomForOne
<1>11. InHand' = InHand
  <2>1. \A c \in Consumers : c # p /\ pc'[c] = pc[c]
    BY <1>1, <1>2 DEF Procs
  <2> QED
    BY <2>1 DEF InHand, SubmitCas
<1> QED
  BY <1>4, <1>6, <1>9, <1>10, <1>11, SameCardinality DEF Queue!Accept

\* Winning the compare-and-swap on head is taking the oldest task.
LEMMA QueueTakes ==
    ASSUME IndInv, IndInv', NEW c \in Consumers, DispatchCas(c), head = pos[c]
    PROVE  Queue!Take(c)
<1> USE RingAssumption
<1>1. /\ pc[c] = "cas" /\ head' = head + 1 /\ pc' = [pc EXCEPT ![c] = "access"]
      /\ UNCHANGED <<tail, sequence, data, pos, task, log>>
  BY DEF DispatchCas, Goto
<1>2. /\ tail \in Nat /\ head \in Nat /\ log \in Seq(1 .. MaxSubmits) /\ Len(log) = tail
      /\ pc \in [Procs -> Labels] /\ c \in Procs
  BY DEF IndInv, TypeOK, Procs
<1>3. sequence[Cell(head)] = head + 1
  BY <1>1 DEF IndInv, RingInv, ConsumerPositions
<1>4. head < tail
  BY <1>3, PublishedCell
<1>5. Waiting = SubSeq(log, head + 1, Len(log)) /\ head < Len(log)
  BY <1>2, <1>4 DEF Waiting
<1>6. /\ Waiting # <<>> /\ Head(Waiting) = log[head + 1]
      /\ Tail(Waiting) = SubSeq(log, head + 1 + 1, tail)
  <2>1. /\ SubSeq(log, head + 1, Len(log)) # <<>>
        /\ Head(SubSeq(log, head + 1, Len(log))) = log[head + 1]
        /\ Tail(SubSeq(log, head + 1, Len(log))) = SubSeq(log, head + 1 + 1, Len(log))
    BY <1>2, <1>5, SuffixShrinks, Zenon
  <2> QED
    BY <1>2, <1>5, <2>1, Zenon
<1>7. Waiting' = Tail(Waiting)
  <2>1. Waiting' = SubSeq(log, head + 1 + 1, tail)
    BY <1>1 DEF Waiting
  <2> QED
    BY <1>6, <2>1, Zenon
<1>8. HandsRight /\ HandsRight'
  BY HandIs, PTL
<1>9. InHand[c] = 0 /\ InHand'[c] = Head(Waiting)
  <2>1. ~ Holds(c) /\ Holds(c)'
    BY <1>1, <1>2 DEF Holds
  <2> QED
    BY <1>1, <1>6, <1>8, <2>1 DEF HandsRight
<1>10. \A d \in Consumers : d # c => InHand'[d] = InHand[d]
  BY <1>1, <1>2 DEF InHand, Procs
<1>11. InHand' = [InHand EXCEPT ![c] = Head(Waiting)]
  <2>1. /\ InHand = [d \in Consumers |-> InHand[d]]
        /\ InHand' = [d \in Consumers |-> InHand'[d]]
    BY Zenon DEF InHand
  <2> QED
    BY <1>9, <1>10, <2>1
<1>12. Accepted' = Accepted
  BY <1>1 DEF Accepted
<1> QED
  BY <1>6, <1>7, <1>9, <1>11, <1>12 DEF Queue!Take

\* Freeing the cell is finishing the task.
LEMMA QueueFinishes ==
    ASSUME IndInv, IndInv', NEW c \in Consumers, DispatchStoreSeq(c)
    PROVE  Queue!Finish(c)
<1> USE RingAssumption
<1>1. /\ pc[c] = "store_seq" /\ pc' = [pc EXCEPT ![c] = "load_seq"]
      /\ pos' = [pos EXCEPT ![c] = pos[c] + 1]
      /\ UNCHANGED <<tail, head, data, task, log>>
  BY DEF DispatchStoreSeq, Goto
<1>2. pc \in [Procs -> Labels] /\ pos \in [Procs -> Nat] /\ c \in Procs
  BY DEF IndInv, TypeOK, Procs
<1>3. HandsRight /\ HandsRight'
  BY HandIs, PTL
<1>4. InHand[c] # 0 /\ InHand'[c] = 0
  <2>1. Holds(c) /\ ~ Holds(c)'
    BY <1>1, <1>2 DEF Holds
  <2> QED
    BY <1>3, <2>1 DEF HandsRight
<1>5. \A d \in Consumers : d # c => InHand'[d] = InHand[d]
  BY <1>1, <1>2 DEF InHand, Procs
<1>6. InHand' = [InHand EXCEPT ![c] = 0]
  <2>1. /\ InHand = [d \in Consumers |-> InHand[d]]
        /\ InHand' = [d \in Consumers |-> InHand'[d]]
    BY Zenon DEF InHand
  <2> QED
    BY <1>4, <1>5, <2>1
<1>7. Waiting' = Waiting /\ Accepted' = Accepted
  BY <1>1 DEF Waiting, Accepted
<1> QED
  BY <1>4, <1>6, <1>7 DEF Queue!Finish

\* Every step of the ring is a step of the queue or none.
LEMMA QueueNext == IndInv /\ IndInv' /\ [Next]_vars => [Queue!Next]_(Queue!vars)
<1> SUFFICES ASSUME IndInv, IndInv', [Next]_vars PROVE [Queue!Next]_(Queue!vars)
  OBVIOUS
<1>1. CASE UNCHANGED vars
  <2>1. UNCHANGED <<tail, head, log, pc, pos>>
    BY <1>1 DEF vars
  <2>2. \A c \in Consumers : (Holds(c)' <=> Holds(c)) /\ (Holds(c) => pos'[c] = pos[c])
    BY <2>1 DEF Holds
  <2> QED
    BY <2>1, <2>2, QueueStutters
<1>2. ASSUME NEW p \in Producers, SubmitBegin(p) \/ Submit(p) PROVE [Queue!Next]_(Queue!vars)
  <2>1. CASE SubmitCas(p) /\ tail = pos[p]
    BY <2>1, QueueAccepts DEF Queue!Next
  <2>2. CASE ~ (SubmitCas(p) /\ tail = pos[p])
    <3>1. UNCHANGED <<tail, head, log>> /\ \E l \in Labels : pc' = [pc EXCEPT ![p] = l]
      BY SMTT(30), <1>2, <2>2 DEF SubmitBegin, Submit, SubmitLoadTail, SubmitLoadSeq, SubmitCas,
                        SubmitStoreData, SubmitStoreSeq, Goto, ring, Labels
    <3>2. pos' = pos \/ \E x : pos' = [pos EXCEPT ![p] = x]
      BY Zenon, <1>2, <2>2 DEF SubmitBegin, Submit, SubmitLoadTail, SubmitLoadSeq, SubmitCas,
                        SubmitStoreData, SubmitStoreSeq
    <3>3. \A c \in Consumers : pc'[c] = pc[c] /\ pos'[c] = pos[c]
      BY SMTT(30), <3>1, <3>2, RingAssumption DEF IndInv, TypeOK, Procs
    <3>4. \A c \in Consumers : (Holds(c)' <=> Holds(c)) /\ (Holds(c) => pos'[c] = pos[c])
      BY Zenon, <3>3 DEF Holds
    <3> QED
      BY SMTT(30), <3>1, <3>4, QueueStutters
  <2> QED
    BY <2>1, <2>2
<1>3. ASSUME NEW c \in Consumers, DispatchLoadHead(c) \/ Dispatch(c)
      PROVE  [Queue!Next]_(Queue!vars)
  <2>1. CASE DispatchCas(c) /\ head = pos[c]
    BY <2>1, QueueTakes DEF Queue!Next
  <2>2. CASE DispatchStoreSeq(c)
    BY <2>2, QueueFinishes DEF Queue!Next
  <2>3. CASE ~ (DispatchCas(c) /\ head = pos[c]) /\ ~ DispatchStoreSeq(c)
    <3>1. UNCHANGED <<tail, head, log>> /\ \E l \in Labels : pc' = [pc EXCEPT ![c] = l]
      BY Zenon, <1>3, <2>3 DEF DispatchLoadHead, Dispatch, DispatchLoadSeq, DispatchCas,
                        DispatchLoadData, Goto, ring, Labels
    <3>2. (Holds(c)' <=> Holds(c)) /\ (Holds(c) => pos'[c] = pos[c])
      BY Zenon, <1>3, <2>3 DEF DispatchLoadHead, Dispatch, DispatchLoadSeq, DispatchCas,
                        DispatchLoadData, Goto, Holds, IndInv, TypeOK, Procs
    <3>3. pos' = pos \/ \E x : pos' = [pos EXCEPT ![c] = x]
      BY Zenon, <1>3, <2>3 DEF DispatchLoadHead, Dispatch, DispatchLoadSeq, DispatchCas,
                        DispatchLoadData
    <3>4. \A d \in Consumers : d # c => pc'[d] = pc[d] /\ pos'[d] = pos[d]
      BY <3>1, <3>3 DEF IndInv, TypeOK, Procs
    <3>5. \A d \in Consumers : (Holds(d)' <=> Holds(d)) /\ (Holds(d) => pos'[d] = pos[d])
      BY <3>2, <3>4 DEF Holds
    <3> QED
      BY SMTT(30), <3>1, <3>5, QueueStutters
  <2> QED
    BY <2>1, <2>2, <2>3
<1> QED
  BY <1>1, <1>2, <1>3 DEF Next

\* The lock-free ring implements the bounded queue, for every length of at least
\* two and any number of producers and dispatchers stopped at any point: no task
\* is lost, duplicated or overtaken, no cell of an earlier lap is read, and no
\* more than Size tasks are in it.
THEOREM RingIsBoundedQueue == Spec => IsBoundedQueue
<1>1. IndInv /\ IndInv' /\ [Next]_vars => [Queue!Next]_(Queue!vars)
  BY QueueNext
<1> QED
  BY RingSound, QueueInit, <1>1, PTL DEF Spec, IsBoundedQueue, Queue!Spec

=============================================================================
