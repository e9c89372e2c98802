--------------------------- MODULE ProcessesProofs ---------------------------
(***************************************************************************)
(* fork, wait4 and the calls forwarded to the compatibility server, for    *)
(* any number of threads and ring slots.  ProcInv follows every forwarded  *)
(* request from the caller to the server and back, and counts the slots of *)
(* the thread table.                                                       *)
(***************************************************************************)
EXTENDS Processes, TLAPS

States == {"Unused", "Ready", "Blocked", "Exited"}
Threads == [id : Nat, parent : Nat, state : States, status : Statuses \cup {0}, call : Nat]
Answers == [parent : Nat, pid : Nat, status : Statuses \cup {0}]
Messages == [tid : Nat, call : Nat]
RingSlots == 0 .. LclSlots - 1

ProcTypes ==
  /\ procs \in [Proc -> Threads]
  /\ proc_count \in Int /\ failed_forks \in Nat /\ next_pid \in Nat /\ next_pid >= 3
  /\ reaped \in Seq(Answers)
  /\ lcl \in [messages : [RingSlots -> Messages], head : RingSlots, tail : RingSlots]
  /\ held \subseteq {Server} \X Messages /\ lost \subseteq Messages /\ calls \in Nat

\* The ids of threads in use are distinct, and the server keeps its slot: it has
\* no parent to reap it and never blocks.
IdsUnique ==
  /\ \A s \in Proc : procs[s].id < next_pid
  /\ \A s \in Proc : procs[s].state # "Unused" => procs[s].id >= 1
  /\ \A s, t \in Proc : /\ procs[s].state # "Unused" /\ procs[t].state # "Unused"
                        /\ procs[s].id = procs[t].id
                        => s = t
  /\ procs[1].id = Server /\ procs[1].parent = 0 /\ procs[1].state \in {"Ready", "Exited"}

\* A request has the thread that waits for it ...
Owner(s, m) == procs[s].id = m.tid /\ procs[s].state = "Blocked" /\ procs[s].call = m.call
Owned(m) == \E s \in Proc : Owner(s, m)
RequestsOwned ==
  /\ \A i \in InRing : Owned(lcl.messages[i])
  /\ \A h \in held : Owned(h[2])
  /\ \A m \in lost : Owned(m)

\* ... is in one place ...
RequestsOnce ==
  /\ \A i, j \in InRing : lcl.messages[i].tid = lcl.messages[j].tid => i = j
  /\ \A g, h \in held : g[2].tid = h[2].tid => g = h
  /\ \A m, n \in lost : m.tid = n.tid => m = n
  /\ \A i \in InRing, h \in held : lcl.messages[i].tid # h[2].tid
  /\ \A i \in InRing, m \in lost : lcl.messages[i].tid # m.tid
  /\ \A h \in held, m \in lost : h[2].tid # m.tid

\* ... and a blocked thread has one.
BlockedWaits ==
  \A s \in Proc : procs[s].state = "Blocked" =>
      \/ \E i \in InRing : lcl.messages[i].tid = procs[s].id
      \/ \E h \in held : h[2].tid = procs[s].id
      \/ \E m \in lost : m.tid = procs[s].id

\* The ring's messages are the ones from the tail up to the head: n of them,
\* where equal indices may mean none or LclSlots.
Turn(a, k) == IF a + k < LclSlots THEN a + k ELSE a + k - LclSlots
HoldsOnly(q, n) ==
  /\ q.head = Turn(q.tail, n)
  /\ \A k \in RingSlots : q.messages[Turn(q.tail, k)] # NoMessage <=> k < n
RingShape == \E n \in 0 .. LclSlots : HoldsOnly(lcl, n)

\* A pid that wait4 returned is not in use, and was not returned before.
ReapedOnce ==
  /\ \A i \in DOMAIN reaped : reaped[i].pid < next_pid
  /\ \A i, j \in DOMAIN reaped : reaped[i].pid = reaped[j].pid => i = j
  /\ \A i \in DOMAIN reaped : \A s \in Proc :
         procs[s].state # "Unused" => procs[s].id # reaped[i].pid

Counted ==
  proc_count = Cardinality({s \in Proc : procs[s].state # "Unused"}) + failed_forks

ProcInv ==
  /\ ProcTypes /\ IdsUnique
  /\ RequestsOwned /\ RequestsOnce /\ BlockedWaits /\ RingShape
  /\ ReapedOnce /\ Counted

-----------------------------------------------------------------------------
USE ProcAssumption

\* The ring's remainder is one turn at most.
LEMMA TurnIs ==
  ASSUME NEW a \in RingSlots
  PROVE  (a + 1) % LclSlots = Turn(a, 1) /\ Turn(a, 1) \in RingSlots
<1>1. LclSlots \in Nat \ {0} /\ a \in Nat /\ a < LclSlots
  BY DEF RingSlots
<1>2. CASE a + 1 < LclSlots
  <2>1. (a + 1) % LclSlots = a + 1
    BY <1>1, <1>2
  <2> QED BY <1>1, <1>2, <2>1 DEF Turn, RingSlots
<1>3. CASE a + 1 = LclSlots
  <2>1. (a + 1) % LclSlots = 0
    BY <1>1, <1>3
  <2> QED BY <1>1, <1>3, <2>1 DEF Turn, RingSlots
<1> QED BY <1>1, <1>2, <1>3

\* Turning meets every slot of the ring once.
LEMMA TurnFacts ==
  ASSUME NEW a \in RingSlots
  PROVE  /\ Turn(a, 0) = a /\ Turn(a, LclSlots) = a
         /\ \A k \in RingSlots : Turn(a, k) \in RingSlots
         /\ \A k, m \in RingSlots : Turn(a, k) = Turn(a, m) => k = m
         /\ \A i \in RingSlots : \E k \in RingSlots : Turn(a, k) = i
         /\ \A k \in 0 .. LclSlots - 1 : Turn(Turn(a, 1), k) = Turn(a, k + 1)
         /\ \A k \in 0 .. LclSlots - 1 : Turn(Turn(a, k), 1) = Turn(a, k + 1)
<1>1. LclSlots \in Nat \ {0} /\ a \in Nat /\ a < LclSlots
  BY DEF RingSlots
<1>2. Turn(a, 0) = a /\ Turn(a, LclSlots) = a
  BY <1>1 DEF Turn
<1>3. \A k \in RingSlots : Turn(a, k) \in RingSlots
  BY <1>1 DEF Turn, RingSlots
<1>4. \A k, m \in RingSlots : Turn(a, k) = Turn(a, m) => k = m
  BY <1>1 DEF Turn, RingSlots
<1>5. ASSUME NEW i \in RingSlots PROVE \E k \in RingSlots : Turn(a, k) = i
  <2>1. CASE i >= a
    <3>1. i - a \in RingSlots /\ Turn(a, i - a) = i
      BY <1>1, <2>1 DEF Turn, RingSlots
    <3> QED BY <3>1
  <2>2. CASE i < a
    <3>1. i - a + LclSlots \in RingSlots /\ Turn(a, i - a + LclSlots) = i
      BY <1>1, <2>2 DEF Turn, RingSlots
    <3> QED BY <3>1
  <2> QED BY <1>1, <2>1, <2>2 DEF RingSlots
<1>6. \A k \in 0 .. LclSlots - 1 : Turn(Turn(a, 1), k) = Turn(a, k + 1)
  BY <1>1 DEF Turn
<1>7. \A k \in 0 .. LclSlots - 1 : Turn(Turn(a, k), 1) = Turn(a, k + 1)
  BY <1>1 DEF Turn
<1> QED BY <1>2, <1>3, <1>4, <1>5, <1>6, <1>7

\* What the shape of the ring says of its slots: an empty ring has no message,
\* and a ring with one has it at the tail.
LEMMA RingFacts ==
  ASSUME ProcTypes, NEW n \in 0 .. LclSlots, HoldsOnly(lcl, n)
  PROVE  /\ n = 0 => InRing = {}
         /\ n > 0 => lcl.messages[lcl.tail] # NoMessage
         /\ n < LclSlots => lcl.messages[lcl.head] = NoMessage
         /\ n = LclSlots => InRing = RingSlots
<1> USE DEF HoldsOnly
<1>1. lcl.tail \in RingSlots /\ DOMAIN lcl.messages = RingSlots /\ 0 \in RingSlots
  BY DEF ProcTypes, RingSlots
<1>2. \A i \in RingSlots : \E k \in RingSlots : Turn(lcl.tail, k) = i
  BY Zenon, <1>1, TurnFacts
<1>3. ASSUME NEW i \in RingSlots
      PROVE  (n = 0 => i \notin InRing) /\ (n = LclSlots => i \in InRing)
  <2>1. PICK k \in RingSlots : Turn(lcl.tail, k) = i
    BY <1>2
  <2>2. i \in InRing <=> k < n
    BY <1>1, <2>1 DEF InRing
  <2>3. k \in Nat /\ k < LclSlots
    BY DEF RingSlots
  <2> QED BY <2>2, <2>3
<1>4. n > 0 => lcl.messages[lcl.tail] # NoMessage
  BY <1>1, TurnFacts
<1>5. n < LclSlots => lcl.messages[lcl.head] = NoMessage
  BY <1>1 DEF RingSlots
<1>6. InRing \subseteq RingSlots
  BY <1>1 DEF InRing
<1> QED BY <1>3, <1>4, <1>5, <1>6

\* What wait4 has returned are ids.
LEMMA ReapedTypes ==
  ASSUME ProcTypes
  PROVE  /\ DOMAIN reaped = 1 .. Len(reaped) /\ Len(reaped) \in Nat
         /\ \A k \in DOMAIN reaped : reaped[k].pid \in Nat
<1>1. reaped \in Seq(Answers)
  BY DEF ProcTypes
<1>2. /\ DOMAIN reaped = 1 .. Len(reaped) /\ Len(reaped) \in Nat
      /\ \A k \in DOMAIN reaped : reaped[k] \in Answers
  BY <1>1
<1> QED BY <1>2 DEF Answers

\* A step that leaves the blocked threads alone, and loses at most what servers
\* that are gone had received, conserves the requests.
LEMMA BlockedKept ==
  ASSUME ProcTypes, RequestsOwned, RequestsOnce, BlockedWaits, RingShape,
         \A s \in Proc : /\ procs'[s].state = "Blocked" <=> procs[s].state = "Blocked"
                         /\ procs[s].state = "Blocked" => procs'[s] = procs[s],
         lcl' = lcl, held' \subseteq held, lost' = lost \cup {h[2] : h \in held \ held'}
  PROVE  RequestsOwned' /\ RequestsOnce' /\ BlockedWaits' /\ RingShape'
<1>1. InRing' = InRing
  BY DEF InRing
<1>2. ASSUME NEW m, Owned(m) PROVE Owned(m)'
  BY <1>2 DEF Owned, Owner
<1>3. \A m \in lost' : m \in lost \/ \E h \in held \ held' : m = h[2]
  OBVIOUS
<1>4. RequestsOwned'
  <2>1. \A i \in InRing : \E s \in Proc :
           /\ procs'[s].id = lcl.messages[i].tid /\ procs'[s].state = "Blocked"
           /\ procs'[s].call = lcl.messages[i].call
    BY DEF RequestsOwned, Owned, Owner
  <2>2. \A h \in held' : Owned(h[2])'
    BY <1>2 DEF RequestsOwned
  <2>3. \A m \in lost' : Owned(m)'
    BY <1>2, <1>3 DEF RequestsOwned
  <2> QED BY <1>1, <2>1, <2>2, <2>3 DEF RequestsOwned, Owned, Owner
<1>5. RequestsOnce'
  <2>1. \A m, n \in lost' : m.tid = n.tid => m = n
    BY <1>3 DEF RequestsOnce
  <2>2. \A i \in InRing, m \in lost' : lcl.messages[i].tid # m.tid
    BY <1>3 DEF RequestsOnce
  <2>3. \A h \in held', m \in lost' : h[2].tid # m.tid
    BY <1>3 DEF RequestsOnce
  <2>4. \A g, h \in held' : g[2].tid = h[2].tid => g = h
    BY DEF RequestsOnce
  <2>5. \A i \in InRing, h \in held' : lcl.messages[i].tid # h[2].tid
    BY DEF RequestsOnce
  <2> QED BY <1>1, <2>1, <2>2, <2>3, <2>4, <2>5 DEF RequestsOnce
<1>6. BlockedWaits'
  <2> SUFFICES ASSUME NEW s \in Proc, procs'[s].state = "Blocked"
      PROVE  \/ \E i \in InRing : lcl.messages[i].tid = procs'[s].id
             \/ \E h \in held' : h[2].tid = procs'[s].id
             \/ \E m \in lost' : m.tid = procs'[s].id
    BY <1>1 DEF BlockedWaits
  <2>1. procs[s].state = "Blocked" /\ procs'[s].id = procs[s].id
    OBVIOUS
  <2>2. CASE \E h \in held : h[2].tid = procs[s].id
    BY <2>1, <2>2
  <2> QED BY <2>1, <2>2 DEF BlockedWaits
<1>7. RingShape'
  BY DEF RingShape, HoldsOnly
<1> QED BY <1>4, <1>5, <1>6, <1>7

Forked(s) ==
  [id |-> next_pid, parent |-> procs[s].id, state |-> "Ready", status |-> 0, call |-> 0]

\* fork_current_thread with a new address space, in any Unused slot.
LEMMA ForkStep ==
  ASSUME ProcInv, NEW s \in Proc, Ready(s), NEW i \in Proc, procs[i].state = "Unused",
         next_pid' = next_pid + 1, proc_count' = proc_count + 1,
         procs' = [procs EXCEPT ![i] = Forked(s)],
         UNCHANGED <<failed_forks, reaped, lclVars>>
  PROVE  ProcTypes' /\ IdsUnique' /\ RequestsOwned' /\ RequestsOnce' /\ BlockedWaits'
         /\ RingShape' /\ ReapedOnce'
<1> USE DEF ProcInv
<1>1. procs \in [Proc -> Threads] /\ next_pid \in Nat /\ next_pid >= 3 /\ 1 \in Proc
  BY DEF ProcTypes, Proc
<1>2. Forked(s) \in Threads /\ Forked(s).id = next_pid /\ Forked(s).state = "Ready"
  BY <1>1 DEF Forked, Threads, States
<1>3. procs' \in [Proc -> Threads] /\ procs'[i] = Forked(s)
      /\ \A t \in Proc \ {i} : procs'[t] = procs[t]
  BY <1>1, <1>2
<1>4. ProcTypes'
  BY <1>3 DEF ProcTypes, lclVars
<1>5. IdsUnique'
  <2>1. i # 1
    BY DEF IdsUnique
  <2> QED BY <1>1, <1>2, <1>3, <2>1 DEF IdsUnique, Threads
<1>6. RequestsOwned' /\ RequestsOnce' /\ BlockedWaits' /\ RingShape'
  <2>1. \A t \in Proc : /\ procs'[t].state = "Blocked" <=> procs[t].state = "Blocked"
                        /\ procs[t].state = "Blocked" => procs'[t] = procs[t]
    BY <1>2, <1>3
  <2>2. held' = held /\ lost' = lost \cup {h[2] : h \in held \ held'} /\ lcl' = lcl
    BY DEF lclVars
  <2> QED BY Zenon, <2>1, <2>2, BlockedKept
<1>7. ReapedOnce'
  <2>1. \A k \in DOMAIN reaped : reaped[k].pid \in Nat
    BY ReapedTypes
  <2> QED BY <1>1, <1>2, <1>3, <2>1 DEF ReapedOnce
<1> QED BY <1>4, <1>5, <1>6, <1>7

\* A fork that finds no memory has spent its id.
LEMMA FailedForkStep ==
  ASSUME ProcInv, next_pid' = next_pid + 1, UNCHANGED <<procs, reaped, lclVars>>,
         proc_count' = proc_count + 1, failed_forks' = failed_forks + 1
  PROVE  ProcTypes' /\ IdsUnique' /\ RequestsOwned' /\ RequestsOnce' /\ BlockedWaits'
         /\ RingShape' /\ ReapedOnce'
<1> USE DEF ProcInv
<1>1. ProcTypes'
  BY DEF ProcTypes, lclVars
<1>2. IdsUnique'
  BY DEF IdsUnique, ProcTypes, Threads
<1>3. RequestsOwned' /\ RequestsOnce' /\ BlockedWaits' /\ RingShape'
  <2>1. held' = held /\ lost' = lost \cup {h[2] : h \in held \ held'} /\ lcl' = lcl
    BY DEF lclVars
  <2> QED BY <2>1, BlockedKept
<1>4. ReapedOnce'
  <2>1. next_pid \in Nat /\ \A k \in DOMAIN reaped : reaped[k].pid \in Nat
    BY ReapedTypes DEF ProcTypes
  <2> QED BY <2>1 DEF ReapedOnce
<1> QED BY <1>1, <1>2, <1>3, <1>4

\* request_exit_group: the requests a server had received are lost with it.
LEMMA ExitStep ==
  ASSUME ProcInv, NEW s \in Proc, NEW status \in Statuses, ProcExit(s, status)
  PROVE  ProcTypes' /\ IdsUnique' /\ RequestsOwned' /\ RequestsOnce' /\ BlockedWaits'
         /\ RingShape' /\ ReapedOnce'
<1> USE DEF ProcInv
<1> DEFINE gone == [procs[s] EXCEPT !.state = "Exited", !.status = status]
<1>1. /\ procs[s].state = "Ready" /\ procs' = [procs EXCEPT ![s] = gone]
      /\ held' \subseteq held /\ lost' = lost \cup {h[2] : h \in held \ held'}
      /\ UNCHANGED <<proc_count, next_pid, failed_forks, reaped, lcl, calls>>
  BY Zenon DEF ProcExit, Ready
<1>2. procs \in [Proc -> Threads] /\ 1 \in Proc
  BY DEF ProcTypes, Proc
<1>3. /\ gone \in Threads /\ gone.id = procs[s].id /\ gone.state = "Exited"
      /\ gone.parent = procs[s].parent
  BY Zenon, <1>2 DEF Threads, States
<1> HIDE DEF gone
<1>4. procs' \in [Proc -> Threads] /\ procs'[s] = gone
      /\ \A t \in Proc \ {s} : procs'[t] = procs[t]
  BY <1>1, <1>2, <1>3
<1>5. ProcTypes'
  <2>1. \A h \in held : h[2] \in Messages
    BY DEF ProcTypes
  <2> QED BY <1>1, <1>4, <2>1 DEF ProcTypes
<1>6. IdsUnique'
  BY <1>1, <1>2, <1>3, <1>4 DEF IdsUnique
<1>7. RequestsOwned' /\ RequestsOnce' /\ BlockedWaits' /\ RingShape'
  <2>1. \A t \in Proc : /\ procs'[t].state = "Blocked" <=> procs[t].state = "Blocked"
                        /\ procs[t].state = "Blocked" => procs'[t] = procs[t]
    BY Zenon, <1>1, <1>3, <1>4
  <2> QED BY <1>1, <2>1, BlockedKept
<1>8. ReapedOnce'
  BY <1>1, <1>3, <1>4 DEF ReapedOnce
<1> QED BY <1>5, <1>6, <1>7, <1>8

\* wait4 of any Exited child: its slot is free and its pid is returned.
LEMMA WaitStep ==
  ASSUME ProcInv, NEW s \in Proc, Ready(s), NEW i \in Proc, procs[i].parent = procs[s].id,
         procs[i].state = "Exited",
         reaped' = Append(reaped, [parent |-> procs[s].id, pid |-> procs[i].id,
                                   status |-> procs[i].status]),
         procs' = [procs EXCEPT ![i].state = "Unused"], proc_count' = proc_count - 1,
         UNCHANGED <<next_pid, failed_forks, lclVars>>
  PROVE  ProcTypes' /\ IdsUnique' /\ RequestsOwned' /\ RequestsOnce' /\ BlockedWaits'
         /\ RingShape' /\ ReapedOnce'
<1> USE DEF ProcInv
<1> DEFINE free == [procs[i] EXCEPT !.state = "Unused"]
           answer == [parent |-> procs[s].id, pid |-> procs[i].id, status |-> procs[i].status]
<1>1. procs \in [Proc -> Threads] /\ 1 \in Proc /\ procs' = [procs EXCEPT ![i] = free]
  BY DEF ProcTypes, Proc
<1>2. free \in Threads /\ free.id = procs[i].id /\ free.state = "Unused"
      /\ free.parent = procs[i].parent
  <2>1. procs[i] \in Threads
    BY <1>1
  <2> QED BY ONLY <2>1, ProcAssumption DEF Threads, States, free
<1>3. answer \in Answers /\ answer.pid = procs[i].id
  BY <1>1 DEF Threads, Answers
<1>4. procs[s].id >= 1 /\ i # 1 /\ procs[i].id < next_pid
  BY DEF IdsUnique, Ready
<1> HIDE DEF free, answer
<1>5. procs' \in [Proc -> Threads] /\ procs'[i] = free
      /\ \A t \in Proc \ {i} : procs'[t] = procs[t]
  BY <1>1, <1>2
<1>6. reaped' = Append(reaped, answer) /\ reaped \in Seq(Answers)
  BY DEF answer, ProcTypes
<1>7. /\ reaped' \in Seq(Answers) /\ Len(reaped') = Len(reaped) + 1
      /\ DOMAIN reaped' = 1 .. Len(reaped) + 1
      /\ reaped'[Len(reaped) + 1] = answer
      /\ \A k \in 1 .. Len(reaped) : reaped'[k] = reaped[k]
  BY <1>3, <1>6
<1>8. ProcTypes'
  BY <1>5, <1>7 DEF ProcTypes, lclVars
<1>9. IdsUnique'
  BY <1>1, <1>2, <1>4, <1>5 DEF IdsUnique
<1>10. RequestsOwned' /\ RequestsOnce' /\ BlockedWaits' /\ RingShape'
  <2>1. \A t \in Proc : /\ procs'[t].state = "Blocked" <=> procs[t].state = "Blocked"
                        /\ procs[t].state = "Blocked" => procs'[t] = procs[t]
    BY <1>2, <1>5
  <2>2. held' = held /\ lost' = lost \cup {h[2] : h \in held \ held'} /\ lcl' = lcl
    BY DEF lclVars
  <2> QED BY <2>1, <2>2, BlockedKept
<1>11. ReapedOnce'
  <2>1. DOMAIN reaped = 1 .. Len(reaped) /\ Len(reaped) \in Nat
    BY ReapedTypes
  <2>2. \A k \in DOMAIN reaped' : reaped'[k].pid < next_pid'
    BY <1>3, <1>4, <1>7, <2>1 DEF ReapedOnce
  <2>3. \A k \in DOMAIN reaped : reaped[k].pid # procs[i].id
    BY DEF ReapedOnce
  <2>4. \A j, k \in DOMAIN reaped' : reaped'[j].pid = reaped'[k].pid => j = k
    BY <1>3, <1>7, <2>1, <2>3 DEF ReapedOnce
  <2>5. \A t \in Proc : procs'[t].state # "Unused" =>
           t # i /\ procs[t].state # "Unused" /\ procs'[t].id = procs[t].id
    BY <1>2, <1>5
  <2>6. \A t \in Proc : procs'[t].state # "Unused" => procs'[t].id # procs[i].id
    BY <2>5 DEF IdsUnique
  <2>7. \A k \in DOMAIN reaped' : \A t \in Proc :
            procs'[t].state # "Unused" => procs'[t].id # reaped'[k].pid
    BY <1>3, <1>7, <2>1, <2>5, <2>6 DEF ReapedOnce
  <2> QED BY <2>2, <2>4, <2>7 DEF ReapedOnce
<1> QED BY <1>8, <1>9, <1>10, <1>11

\* What the caller's request becomes: its thread is the one Blocked with it.
Caller(s) == [procs[s] EXCEPT !.state = "Blocked", !.call = calls + 1]
Request(s) == [tid |-> procs[s].id, call |-> calls + 1]

\* A thread that is not Blocked has no request anywhere.
LEMMA ReadyHasNone ==
  ASSUME ProcTypes, IdsUnique, RequestsOwned, NEW s \in Proc,
         procs[s].state \in {"Ready", "Exited"}
  PROVE  /\ \A i \in InRing : lcl.messages[i].tid # procs[s].id
         /\ \A h \in held : h[2].tid # procs[s].id
         /\ \A m \in lost : m.tid # procs[s].id
<1>1. ASSUME NEW m, Owned(m) PROVE m.tid # procs[s].id
  <2>1. PICK t \in Proc : procs[t].id = m.tid /\ procs[t].state = "Blocked"
    BY <1>1 DEF Owned, Owner
  <2> QED BY <2>1 DEF IdsUnique
<1> QED BY <1>1 DEF RequestsOwned

\* dispatch of a forwarded call while the ring has room: the caller is Blocked
\* and its request is the newest of the ring.
LEMMA CallStep ==
  ASSUME ProcInv, NEW s \in Proc, LclCall(s), NEW n \in RingSlots, HoldsOnly(lcl, n)
  PROVE  ProcTypes' /\ IdsUnique' /\ RequestsOwned' /\ RequestsOnce' /\ BlockedWaits'
         /\ RingShape' /\ ReapedOnce'
<1> USE DEF ProcInv
<1>1. /\ procs \in [Proc -> Threads] /\ 1 \in Proc /\ calls \in Nat
      /\ lcl.head \in RingSlots /\ lcl.tail \in RingSlots
      /\ lcl.messages \in [RingSlots -> Messages]
  BY DEF ProcTypes, Proc
<1>2. /\ procs[s].state = "Ready" /\ s # 1 /\ calls' = calls + 1
      /\ procs' = [procs EXCEPT ![s] = Caller(s)]
      /\ lcl' = EnqueueLcl(lcl, Request(s))
      /\ UNCHANGED <<proc_count, next_pid, failed_forks, reaped, held, lost>>
  BY Zenon DEF LclCall, Caller, Request, Ready, IdsUnique
<1>3. /\ Caller(s) \in Threads /\ Caller(s).id = procs[s].id
      /\ Caller(s).state = "Blocked" /\ Caller(s).call = calls + 1
      /\ Caller(s).parent = procs[s].parent
  <2>1. procs[s] \in Threads
    BY <1>1
  <2>2. calls + 1 \in Nat
    BY <1>1
  <2> QED BY ONLY Zenon, <2>1, <2>2 DEF Threads, States, Caller
<1>4. /\ Request(s) \in Messages /\ Request(s) # NoMessage
      /\ Request(s).tid = procs[s].id /\ Request(s).call = calls + 1
  <2>1. procs[s].id \in Nat
    BY <1>1 DEF Threads
  <2> QED BY <1>1, <2>1 DEF Request, Messages, NoMessage
<1>5. /\ lcl'.messages = [lcl.messages EXCEPT ![lcl.head] = Request(s)]
      /\ lcl'.head = Turn(lcl.head, 1) /\ lcl'.tail = lcl.tail
      /\ lcl' \in [messages : [RingSlots -> Messages], head : RingSlots, tail : RingSlots]
  <2>1. [lcl.messages EXCEPT ![lcl.head] = Request(s)] \in [RingSlots -> Messages]
    BY Zenon, <1>1, <1>4
  <2>2. (lcl.head + 1) % LclSlots = Turn(lcl.head, 1) /\ Turn(lcl.head, 1) \in RingSlots
    BY Zenon, <1>1, TurnIs
  <2>3. lcl \in [messages : [RingSlots -> Messages], head : RingSlots, tail : RingSlots]
    BY DEF ProcTypes
  <2>4. lcl' = [lcl EXCEPT !.messages = [lcl.messages EXCEPT ![lcl.head] = Request(s)],
                           !.head = Turn(lcl.head, 1)]
    BY ONLY Zenon, <1>2, <2>2 DEF EnqueueLcl
  <2> QED BY ONLY Zenon, <2>1, <2>2, <2>3, <2>4
<1>6. /\ procs' \in [Proc -> Threads] /\ procs'[s] = Caller(s)
      /\ \A t \in Proc \ {s} : procs'[t] = procs[t]
  BY Zenon, <1>1, <1>2, <1>3
<1>7. /\ lcl'.messages \in [RingSlots -> Messages]
      /\ lcl'.messages[lcl.head] = Request(s)
      /\ \A i \in RingSlots \ {lcl.head} : lcl'.messages[i] = lcl.messages[i]
  BY <1>1, <1>4, <1>5
<1>8. lcl.messages[lcl.head] = NoMessage
  <2>1. n \in 0 .. LclSlots /\ n < LclSlots
    BY DEF RingSlots
  <2> QED BY <2>1, RingFacts
<1>9. /\ InRing' = InRing \cup {lcl.head} /\ lcl.head \notin InRing
      /\ \A i \in InRing : lcl'.messages[i] = lcl.messages[i]
  <2>1. DOMAIN lcl'.messages = RingSlots /\ DOMAIN lcl.messages = RingSlots
    BY <1>1, <1>7
  <2> QED BY <1>1, <1>4, <1>7, <1>8, <2>1 DEF InRing
<1>10. ProcTypes'
  BY <1>1, <1>2, <1>5, <1>6 DEF ProcTypes
<1>11. IdsUnique'
  BY <1>1, <1>2, <1>3, <1>6 DEF IdsUnique
<1>12. RequestsOwned'
  <2>1. ASSUME NEW m, Owned(m) PROVE Owned(m)'
    <3>1. PICK t \in Proc : Owner(t, m)
      BY <2>1 DEF Owned
    <3>2. t # s
      BY Zenon, <1>2, <3>1 DEF Owner
    <3> QED BY <1>6, <3>1, <3>2 DEF Owned, Owner
  <2>2. \E t \in Proc : /\ procs'[t].id = Request(s).tid /\ procs'[t].state = "Blocked"
                        /\ procs'[t].call = Request(s).call
    BY Zenon, <1>3, <1>4, <1>6
  <2>3. ASSUME NEW i \in InRing'
        PROVE  \E t \in Proc : /\ procs'[t].id = lcl'.messages[i].tid
                               /\ procs'[t].state = "Blocked"
                               /\ procs'[t].call = lcl'.messages[i].call
    <3>1. CASE i = lcl.head
      BY <1>7, <2>2, <3>1
    <3>2. CASE i \in InRing
      <4>1. Owned(lcl.messages[i]) /\ lcl'.messages[i] = lcl.messages[i]
        BY <1>9, <3>2 DEF RequestsOwned
      <4>2. PICK t \in Proc : /\ procs[t].id = lcl.messages[i].tid /\ procs[t].state = "Blocked"
                              /\ procs[t].call = lcl.messages[i].call
        BY <4>1 DEF Owned, Owner
      <4>3. procs'[t] = procs[t]
        BY <1>2, <1>6, <4>2
      <4> QED BY <4>1, <4>2, <4>3
    <3> QED BY <1>9, <3>1, <3>2
  <2>4. (\A h \in held' : Owned(h[2])') /\ (\A m \in lost' : Owned(m)')
    BY Zenon, <1>2, <2>1 DEF RequestsOwned
  <2> QED BY Zenon, <2>3, <2>4 DEF RequestsOwned, Owned, Owner
<1>13. RequestsOnce'
  <2>1. /\ \A i \in InRing : lcl.messages[i].tid # procs[s].id
        /\ \A h \in held : h[2].tid # procs[s].id
        /\ \A m \in lost : m.tid # procs[s].id
    BY <1>2, ReadyHasNone
  <2>2. \A i \in InRing' : \/ i = lcl.head /\ lcl'.messages[i].tid = procs[s].id
                           \/ i \in InRing /\ lcl'.messages[i] = lcl.messages[i]
    BY Zenon, <1>4, <1>7, <1>9
  <2>3. \A i, j \in InRing' : lcl'.messages[i].tid = lcl'.messages[j].tid => i = j
    BY <2>1, <2>2 DEF RequestsOnce
  <2>4. \A i \in InRing', h \in held : lcl'.messages[i].tid # h[2].tid
    BY <2>1, <2>2 DEF RequestsOnce
  <2>5. \A i \in InRing', m \in lost : lcl'.messages[i].tid # m.tid
    BY <2>1, <2>2 DEF RequestsOnce
  <2> QED BY Zenon, <1>2, <2>3, <2>4, <2>5 DEF RequestsOnce
<1>14. BlockedWaits'
  <2> SUFFICES ASSUME NEW t \in Proc, procs'[t].state = "Blocked"
      PROVE  \/ \E i \in InRing' : lcl'.messages[i].tid = procs'[t].id
             \/ \E h \in held : h[2].tid = procs'[t].id
             \/ \E m \in lost : m.tid = procs'[t].id
    BY Zenon, <1>2 DEF BlockedWaits
  <2>1. CASE t = s
    BY Zenon, <1>3, <1>4, <1>6, <1>7, <1>9, <2>1
  <2>2. CASE t # s
    BY Zenon, <1>6, <1>9, <2>2 DEF BlockedWaits
  <2> QED BY <2>1, <2>2
<1>15. RingShape'
  <2>1. /\ \A k \in RingSlots : Turn(lcl.tail, k) \in RingSlots
        /\ \A k, m \in RingSlots : Turn(lcl.tail, k) = Turn(lcl.tail, m) => k = m
        /\ Turn(Turn(lcl.tail, n), 1) = Turn(lcl.tail, n + 1)
    BY Zenon, <1>1, TurnFacts DEF RingSlots
  <2>2. lcl.head = Turn(lcl.tail, n)
    BY DEF HoldsOnly
  <2>3. lcl'.head = Turn(lcl'.tail, n + 1)
    BY <1>5, <2>1, <2>2
  <2>4. ASSUME NEW k \in RingSlots
        PROVE  lcl'.messages[Turn(lcl.tail, k)] # NoMessage <=> k < n + 1
    <3>1. k \in Int /\ n \in Int
      BY DEF RingSlots
    <3>2. CASE k = n
      BY <1>4, <1>7, <2>2, <3>1, <3>2
    <3>3. CASE k # n
      <4>1. lcl'.messages[Turn(lcl.tail, k)] = lcl.messages[Turn(lcl.tail, k)]
        BY <1>7, <2>1, <2>2, <3>3
      <4> QED BY <3>1, <3>3, <4>1 DEF HoldsOnly
    <3> QED BY <3>2, <3>3
  <2>5. n + 1 \in 0 .. LclSlots
    BY DEF RingSlots
  <2>6. HoldsOnly(lcl, n + 1)'
    BY <1>5, <2>3, <2>4 DEF HoldsOnly
  <2> QED BY <2>5, <2>6 DEF RingShape
<1>16. ReapedOnce'
  BY <1>2, <1>3, <1>6 DEF ReapedOnce
<1> QED BY <1>10, <1>11, <1>12, <1>13, <1>14, <1>15, <1>16

\* lcl_receive: the ring's oldest request moves to the server, or is lost.
LEMMA ReceiveStep ==
  ASSUME ProcInv, NEW s \in Proc, NEW copied \in BOOLEAN, LclReceive(s, copied)
  PROVE  ProcTypes' /\ IdsUnique' /\ RequestsOwned' /\ RequestsOnce' /\ BlockedWaits'
         /\ RingShape' /\ ReapedOnce'
<1> USE DEF ProcInv
<1> DEFINE m == lcl.messages[lcl.tail]
<1>1. /\ lcl.head \in RingSlots /\ lcl.tail \in RingSlots
      /\ lcl.messages \in [RingSlots -> Messages] /\ m \in Messages /\ NoMessage \in Messages
  BY DEF ProcTypes, Messages, NoMessage
<1>2. /\ m # NoMessage /\ lcl' = DequeueLcl(lcl).queue
      /\ held' = (IF copied THEN held \cup {<<Server, m>>} ELSE held)
      /\ lost' = (IF copied THEN lost ELSE lost \cup {m})
      /\ UNCHANGED <<procs, proc_count, next_pid, failed_forks, reaped, calls>>
  BY DEF LclReceive, DequeueLcl
<1>3. /\ lcl'.messages = [lcl.messages EXCEPT ![lcl.tail] = NoMessage]
      /\ lcl'.tail = Turn(lcl.tail, 1) /\ lcl'.head = lcl.head
      /\ lcl' \in [messages : [RingSlots -> Messages], head : RingSlots, tail : RingSlots]
  <2>1. [lcl.messages EXCEPT ![lcl.tail] = NoMessage] \in [RingSlots -> Messages]
    BY <1>1
  <2>2. (lcl.tail + 1) % LclSlots = Turn(lcl.tail, 1) /\ Turn(lcl.tail, 1) \in RingSlots
    BY <1>1, TurnIs
  <2>3. lcl \in [messages : [RingSlots -> Messages], head : RingSlots, tail : RingSlots]
    BY DEF ProcTypes
  <2>4. lcl' = [lcl EXCEPT !.messages = [lcl.messages EXCEPT ![lcl.tail] = NoMessage],
                           !.tail = Turn(lcl.tail, 1)]
    BY ONLY Zenon, <1>2, <2>2 DEF DequeueLcl
  <2> QED BY ONLY Zenon, <2>1, <2>2, <2>3, <2>4
<1>4. /\ lcl'.messages \in [RingSlots -> Messages]
      /\ lcl'.messages[lcl.tail] = NoMessage
      /\ \A i \in RingSlots \ {lcl.tail} : lcl'.messages[i] = lcl.messages[i]
  BY <1>1, <1>3
<1>5. /\ InRing' = InRing \ {lcl.tail} /\ lcl.tail \in InRing
      /\ \A i \in InRing' : lcl'.messages[i] = lcl.messages[i]
  <2>1. DOMAIN lcl'.messages = RingSlots /\ DOMAIN lcl.messages = RingSlots
    BY <1>1, <1>4
  <2> QED BY <1>1, <1>2, <1>4, <2>1 DEF InRing
<1> HIDE DEF m
<1>6. /\ \A h \in held' : h \in held \/ (copied /\ h = <<Server, m>> /\ h[2] = m)
      /\ \A x \in lost' : x \in lost \/ (~copied /\ x = m)
  BY <1>2
<1>7. ProcTypes'
  <2>1. held' \subseteq {Server} \X Messages /\ lost' \subseteq Messages
    BY <1>1, <1>2 DEF ProcTypes
  <2> QED BY <1>2, <1>3, <2>1 DEF ProcTypes
<1>8. IdsUnique' /\ ReapedOnce'
  BY <1>2 DEF IdsUnique, ReapedOnce
<1>9. Owned(m) /\ \A i \in InRing \ {lcl.tail} : lcl.messages[i].tid # m.tid
  BY Zenon, <1>5 DEF RequestsOwned, RequestsOnce, m
<1>10. (\A h \in held : h[2].tid # m.tid) /\ (\A x \in lost : x.tid # m.tid)
  BY <1>5 DEF RequestsOnce, m
<1>11. RequestsOwned'
  <2>1. \A x : Owned(x)' <=> Owned(x)
    BY Zenon, <1>2 DEF Owned, Owner
  <2>2. \A i \in InRing' : Owned(lcl.messages[i]) /\ lcl'.messages[i] = lcl.messages[i]
    BY Zenon, <1>5 DEF RequestsOwned
  <2>3. \A i \in InRing' : \E t \in Proc :
           /\ procs[t].id = lcl'.messages[i].tid /\ procs[t].state = "Blocked"
           /\ procs[t].call = lcl'.messages[i].call
    BY <2>2 DEF Owned, Owner
  <2>4. (\A h \in held' : Owned(h[2])') /\ (\A x \in lost' : Owned(x)')
    BY <1>6, <1>9, <2>1 DEF RequestsOwned
  <2> QED BY Zenon, <1>2, <2>3, <2>4 DEF RequestsOwned, Owned, Owner
<1>12. RequestsOnce'
  <2>1. \A i, j \in InRing' : lcl'.messages[i].tid = lcl'.messages[j].tid => i = j
    BY <1>5 DEF RequestsOnce
  <2>2. \A i \in InRing', h \in held' : lcl'.messages[i].tid # h[2].tid
    BY <1>5, <1>6, <1>9 DEF RequestsOnce
  <2>3. \A i \in InRing', x \in lost' : lcl'.messages[i].tid # x.tid
    BY <1>5, <1>6, <1>9 DEF RequestsOnce
  <2>4. \A g, h \in held' : g[2].tid = h[2].tid => g = h
    BY <1>6, <1>10 DEF RequestsOnce
  <2>5. \A x, y \in lost' : x.tid = y.tid => x = y
    BY <1>6, <1>10 DEF RequestsOnce
  <2>6. \A h \in held', x \in lost' : h[2].tid # x.tid
    BY <1>6, <1>10 DEF RequestsOnce
  <2> QED BY <2>1, <2>2, <2>3, <2>4, <2>5, <2>6 DEF RequestsOnce
<1>13. BlockedWaits'
  <2> SUFFICES ASSUME NEW t \in Proc, procs[t].state = "Blocked"
      PROVE  \/ \E i \in InRing' : lcl'.messages[i].tid = procs[t].id
             \/ \E h \in held' : h[2].tid = procs[t].id
             \/ \E x \in lost' : x.tid = procs[t].id
    BY Zenon, <1>2 DEF BlockedWaits
  <2>1. CASE m.tid = procs[t].id
    <3>1. CASE copied
      <4>1. <<Server, m>> \in held' /\ <<Server, m>>[2] = m
        BY Zenon, <1>2, <3>1
      <4> QED BY Zenon, <2>1, <4>1
    <3>2. CASE ~copied
      BY <1>2, <2>1, <3>2
    <3> QED BY Zenon, <3>1, <3>2
  <2>2. CASE \E i \in InRing : i # lcl.tail /\ lcl.messages[i].tid = procs[t].id
    BY <1>5, <2>2
  <2>3. CASE \E h \in held : h[2].tid = procs[t].id
    BY <1>2, <2>3
  <2>4. CASE \E x \in lost : x.tid = procs[t].id
    BY <1>2, <2>4
  <2> QED BY Zenon, <2>1, <2>2, <2>3, <2>4 DEF BlockedWaits, m
<1>14. RingShape'
  <2>1. PICK n \in 0 .. LclSlots : HoldsOnly(lcl, n)
    BY DEF RingShape
  <2>2. /\ \A k \in RingSlots : Turn(lcl.tail, k) \in RingSlots
        /\ \A k, j \in RingSlots : Turn(lcl.tail, k) = Turn(lcl.tail, j) => k = j
        /\ Turn(lcl.tail, 0) = lcl.tail /\ Turn(lcl.tail, LclSlots) = lcl.tail
        /\ \A k \in RingSlots : Turn(Turn(lcl.tail, 1), k) = Turn(lcl.tail, k + 1)
    BY Zenon, <1>1, TurnFacts DEF RingSlots
  <2>3. n > 0 /\ n - 1 \in RingSlots /\ n \in Int
    BY <1>1, <1>2, <2>1, RingFacts DEF RingSlots, m, HoldsOnly, InRing
  <2>4. lcl'.head = Turn(lcl'.tail, n - 1)
    BY <1>3, <2>1, <2>2, <2>3 DEF HoldsOnly
  <2>5. ASSUME NEW k \in RingSlots
        PROVE  lcl'.messages[Turn(lcl'.tail, k)] # NoMessage <=> k < n - 1
    <3>1. k \in Int /\ 0 \in RingSlots /\ k >= 0 /\ k < LclSlots /\ LclSlots \in Int
      BY DEF RingSlots
    <3>2. Turn(lcl'.tail, k) = Turn(lcl.tail, k + 1)
      BY <1>3, <2>2
    <3>3. CASE k + 1 = LclSlots
      <4>1. lcl'.messages[Turn(lcl'.tail, k)] = NoMessage
        BY <1>4, <2>2, <3>2, <3>3
      <4>2. ~(k < n - 1)
        BY <2>3, <3>1, <3>3
      <4> QED BY <4>1, <4>2
    <3>4. CASE k + 1 # LclSlots
      <4>1. k + 1 \in RingSlots /\ k + 1 # 0
        BY <3>1, <3>4 DEF RingSlots
      <4>2. Turn(lcl.tail, k + 1) \in RingSlots \ {lcl.tail}
        BY <2>2, <3>1, <4>1
      <4>3. lcl'.messages[Turn(lcl'.tail, k)] # NoMessage <=> k + 1 < n
        BY <1>4, <2>1, <3>2, <4>1, <4>2 DEF HoldsOnly
      <4> QED BY <2>3, <3>1, <4>3
    <3> QED BY <3>3, <3>4
  <2>6. n - 1 \in 0 .. LclSlots
    BY <2>3 DEF RingSlots
  <2>7. HoldsOnly(lcl, n - 1)'
    BY <2>4, <2>5 DEF HoldsOnly
  <2> QED BY <2>6, <2>7 DEF RingShape
<1> QED BY <1>7, <1>8, <1>11, <1>12, <1>13, <1>14

\* lcl_return wakes the one thread that waits for the answered request.
LEMMA ReturnStep ==
  ASSUME ProcInv, NEW s \in Proc, NEW h \in held, LclReturn(s, h)
  PROVE  ProcTypes' /\ IdsUnique' /\ RequestsOwned' /\ RequestsOnce' /\ BlockedWaits'
         /\ RingShape' /\ ReapedOnce'
<1> USE DEF ProcInv
<1>1. procs \in [Proc -> Threads] /\ 1 \in Proc
  BY DEF ProcTypes, Proc
<1>2. PICK w \in Proc : procs[w].id = h[2].tid /\ procs[w].state = "Blocked"
  BY DEF RequestsOwned, Owned, Owner
<1> DEFINE woken == [procs[w] EXCEPT !.state = "Ready"]
<1>3. /\ held' = held \ {h}
      /\ UNCHANGED <<proc_count, next_pid, failed_forks, reaped, lcl, lost, calls>>
  BY DEF LclReturn
<1>4. /\ woken \in Threads /\ woken.id = procs[w].id /\ woken.state = "Ready"
      /\ woken.parent = procs[w].parent
  <2>1. procs[w] \in Threads
    BY <1>1
  <2> QED BY ONLY <2>1 DEF Threads, States
<1>5. \A t \in Proc : procs[t].id = h[2].tid /\ procs[t].state = "Blocked" <=> t = w
  BY <1>2 DEF IdsUnique
<1>6. procs' \in [Proc -> Threads] /\ procs'[w] = woken
      /\ \A t \in Proc \ {w} : procs'[t] = procs[t]
  <2>1. procs' = [t \in Proc |-> IF procs[t].id = h[2].tid /\ procs[t].state = "Blocked"
                                 THEN [procs[t] EXCEPT !.state = "Ready"] ELSE procs[t]]
    BY DEF LclReturn
  <2>2. \A t \in Proc : procs'[t] = IF t = w THEN woken ELSE procs[t]
    BY <1>5, <2>1
  <2>3. DOMAIN procs' = Proc /\ procs' = [t \in Proc |-> procs'[t]]
    BY <2>1
  <2> HIDE DEF woken
  <2>4. \A t \in Proc : procs'[t] \in Threads
    BY <1>1, <1>4, <2>2
  <2> QED BY <2>2, <2>3, <2>4
<1> HIDE DEF woken
<1>7. ProcTypes'
  BY <1>3, <1>6 DEF ProcTypes
<1>8. IdsUnique'
  <2>1. w # 1
    BY Zenon, <1>2 DEF IdsUnique
  <2> QED BY <1>1, <1>2, <1>3, <1>4, <1>6, <2>1 DEF IdsUnique
<1>9. ReapedOnce'
  BY <1>2, <1>3, <1>4, <1>6 DEF ReapedOnce
<1>10. InRing' = InRing
  BY <1>3 DEF InRing
<1>11. /\ \A i \in InRing : lcl.messages[i].tid # procs[w].id
       /\ \A g \in held \ {h} : g[2].tid # procs[w].id
       /\ \A x \in lost : x.tid # procs[w].id
  BY <1>2 DEF RequestsOnce
<1>12. ASSUME NEW x, Owned(x), x.tid # procs[w].id
       PROVE  \E t \in Proc : /\ procs'[t].id = x.tid /\ procs'[t].state = "Blocked"
                              /\ procs'[t].call = x.call
  BY <1>6, <1>12 DEF Owned, Owner
<1>13. RequestsOwned'
  <2>1. \A i \in InRing : \E t \in Proc :
           /\ procs'[t].id = lcl.messages[i].tid /\ procs'[t].state = "Blocked"
           /\ procs'[t].call = lcl.messages[i].call
    BY Zenon, <1>11, <1>12 DEF RequestsOwned
  <2>2. /\ \A g \in held' : Owned(g[2])'
        /\ \A x \in lost : Owned(x)'
    BY Zenon, <1>3, <1>11, <1>12 DEF RequestsOwned, Owned, Owner
  <2> QED BY Zenon, <1>3, <1>10, <2>1, <2>2 DEF RequestsOwned, Owned, Owner
<1>14. RequestsOnce'
  <2>1. held' \subseteq held
    BY <1>3
  <2> QED BY Zenon, <1>3, <1>10, <2>1 DEF RequestsOnce
<1>15. BlockedWaits'
  <2> SUFFICES ASSUME NEW t \in Proc, procs'[t].state = "Blocked"
      PROVE  \/ \E i \in InRing : lcl.messages[i].tid = procs'[t].id
             \/ \E g \in held' : g[2].tid = procs'[t].id
             \/ \E x \in lost : x.tid = procs'[t].id
    BY <1>3, <1>10 DEF BlockedWaits
  <2>1. t # w /\ procs'[t] = procs[t] /\ procs[t].state = "Blocked"
    BY <1>4, <1>6
  <2>2. procs[t].id # h[2].tid
    BY <1>5, <2>1
  <2> QED BY Zenon, <1>3, <2>1, <2>2 DEF BlockedWaits
<1>16. RingShape'
  BY <1>3 DEF RingShape, HoldsOnly
<1> QED BY <1>7, <1>8, <1>9, <1>13, <1>14, <1>15, <1>16

-----------------------------------------------------------------------------
Fin == INSTANCE FiniteSetTheorems
Wf == INSTANCE WellFoundedInduction

\* The library counts as this module does.
LEMMA SameCardinality == \A S : Fin!Cardinality(S) = Cardinality(S)
  BY DEF Cardinality, Fin!Cardinality

\* The thread table and the ring have as many slots as their constants say.
LEMMA SlotsFinite ==
  /\ Fin!IsFiniteSet(Proc) /\ Fin!Cardinality(Proc) = ProcSlots
  /\ Fin!Cardinality(RingSlots) = LclSlots
  BY Fin!FS_Interval DEF Proc, RingSlots

\* A thread that calls is not Blocked and neither is the server, so the ring
\* has a slot for the request although enqueue_lcl_message does not look.
LEMMA Room ==
  ASSUME ProcInv, NEW s \in Proc, Ready(s), procs[s].id # Server,
         NEW n \in 0 .. LclSlots, HoldsOnly(lcl, n)
  PROVE  n \in RingSlots
<1> USE DEF ProcInv
<1> DEFINE B == Proc \ {1, s}
           Waiter(i) == CHOOSE t \in Proc : Owner(t, lcl.messages[i])
           f == [i \in RingSlots |-> Waiter(i)]
<1> SUFFICES ASSUME n = LclSlots PROVE FALSE
  BY DEF RingSlots
<1>1. InRing = RingSlots
  BY RingFacts
<1>2. \A i \in RingSlots : Waiter(i) \in Proc /\ Owner(Waiter(i), lcl.messages[i])
  BY <1>1 DEF RequestsOwned, Owned
<1>3. s # 1 /\ 1 \in Proc /\ ~(procs[1].state = "Blocked") /\ ~(procs[s].state = "Blocked")
  BY DEF IdsUnique, Ready, Proc
<1>4. \A i \in RingSlots : Waiter(i) \in B
  BY Zenon, <1>2, <1>3 DEF Owner
<1>5. \A i, j \in RingSlots : Waiter(i) = Waiter(j) => i = j
  BY <1>1, <1>2 DEF Owner, RequestsOnce
<1> HIDE DEF Waiter
<1>6. f \in Fin!Injection(RingSlots, B)
  BY <1>4, <1>5 DEF Fin!Injection, Fin!IsInjective
<1>7. /\ Fin!IsFiniteSet(Proc) /\ Fin!Cardinality(Proc) = ProcSlots
      /\ Fin!Cardinality(RingSlots) = LclSlots
  BY SlotsFinite
<1> DEFINE P == Proc \ {1}
<1>8. /\ Fin!IsFiniteSet(P) /\ Fin!Cardinality(P) = ProcSlots - 1
  BY <1>3, <1>7, Fin!FS_RemoveElement
<1>9. s \in P /\ P \ {s} = B
  BY <1>3
<1> HIDE DEF B, f, P
<1>10. Fin!IsFiniteSet(P \ {s}) /\ Fin!Cardinality(P \ {s}) = Fin!Cardinality(P) - 1
  BY ONLY <1>8, <1>9, Fin!FS_RemoveElement
<1>11. Fin!Cardinality(RingSlots) <= Fin!Cardinality(B)
  BY <1>6, <1>9, <1>10, Fin!FS_Injection
<1>12. Fin!Cardinality(B) = (ProcSlots - 1) - 1
  BY ONLY <1>8, <1>9, <1>10
<1>13. ProcSlots \in Nat /\ LclSlots \in Nat /\ ProcSlots - 1 <= LclSlots
  OBVIOUS
<1> QED BY ONLY <1>7, <1>11, <1>12, <1>13

\* The first of some slots is one of them.
LEMMA FirstIn ==
  ASSUME NEW S, S \subseteq Proc, S # {}
  PROVE  First(S) \in S
<1>1. S \subseteq Nat
  BY DEF Proc
<1>2. PICK x \in S : \A y \in S : <<y, x>> \notin Wf!OpToRel(<, Nat)
  BY Zenon, <1>1, Wf!WFMin, Wf!NatLessThanWellFounded
<1>3. ASSUME NEW y \in S PROVE x <= y
  <2>1. x \in Nat /\ y \in Nat /\ ~(y < x)
    BY Zenon, <1>1, <1>2 DEF Wf!OpToRel
  <2> QED BY <2>1
<1> QED BY Zenon, <1>2, <1>3 DEF First

InUse == {t \in Proc : procs[t].state # "Unused"}

\* thread_count follows the slots: a fork that succeeds takes a slot, one that
\* fails leaves the count one ahead, and wait4 gives a slot back.
LEMMA CountStep ==
  ASSUME ProcTypes, Counted, NEW i \in Proc, failed_forks' \in Nat,
         \/ InUse' = InUse /\ proc_count' - failed_forks' = proc_count - failed_forks
         \/ /\ i \notin InUse /\ InUse' = InUse \cup {i}
            /\ failed_forks' = failed_forks /\ proc_count' = proc_count + 1
         \/ /\ i \in InUse /\ InUse' = InUse \ {i}
            /\ failed_forks' = failed_forks /\ proc_count' = proc_count - 1,
         proc_count' \in Int
  PROVE  Counted'
<1>1. Fin!IsFiniteSet(Proc) /\ InUse \subseteq Proc
  BY SlotsFinite DEF InUse
<1>2. Fin!IsFiniteSet(InUse)
  BY <1>1, Fin!FS_Subset
<1>3. Fin!Cardinality(InUse) \in Nat
  BY <1>2, Fin!FS_CardinalityType
<1>4. i \notin InUse => Fin!Cardinality(InUse \cup {i}) = Fin!Cardinality(InUse) + 1
  BY <1>2, Fin!FS_AddElement
<1>5. i \in InUse => Fin!Cardinality(InUse \ {i}) = Fin!Cardinality(InUse) - 1
  BY Zenon, <1>2, Fin!FS_RemoveElement
<1>6. proc_count = Fin!Cardinality(InUse) + failed_forks
  BY SameCardinality DEF Counted, InUse
<1>7. proc_count \in Int /\ failed_forks \in Nat
  BY DEF ProcTypes
<1>8. proc_count' = Fin!Cardinality(InUse') + failed_forks'
  <2>1. CASE InUse' = InUse /\ proc_count' - failed_forks' = proc_count - failed_forks
    BY <1>3, <1>6, <1>7, <2>1
  <2>2. CASE /\ i \notin InUse /\ InUse' = InUse \cup {i}
             /\ failed_forks' = failed_forks /\ proc_count' = proc_count + 1
    BY <1>3, <1>4, <1>6, <1>7, <2>2
  <2>3. CASE /\ i \in InUse /\ InUse' = InUse \ {i}
             /\ failed_forks' = failed_forks /\ proc_count' = proc_count - 1
    BY <1>3, <1>5, <1>6, <1>7, <2>3
  <2> QED BY <2>1, <2>2, <2>3
<1>9. proc_count' = Cardinality(InUse') + failed_forks'
  BY <1>8, SameCardinality
<1> QED BY <1>9 DEF Counted, InUse

\* A step of ProcNext keeps the invariant.
LEMMA ProcStep == ProcInv /\ [ProcNext]_procVars => ProcInv'
<1> DEFINE Rest == ProcTypes' /\ IdsUnique' /\ RequestsOwned' /\ RequestsOnce' /\ BlockedWaits'
                   /\ RingShape' /\ ReapedOnce'
<1> SUFFICES ASSUME ProcInv, [ProcNext]_procVars PROVE ProcInv'
  OBVIOUS
<1>0. /\ ProcTypes /\ Counted /\ proc_count \in Int /\ failed_forks \in Nat
      /\ procs \in [Proc -> Threads]
  BY DEF ProcInv, ProcTypes
<1>1. ASSUME NEW i \in Proc, Rest, failed_forks' = failed_forks, proc_count' = proc_count,
             \A t \in Proc : procs'[t].state # "Unused" <=> procs[t].state # "Unused"
      PROVE  ProcInv'
  <2>1. InUse' = InUse
    BY <1>1 DEF InUse
  <2>2. Counted'
    BY <1>0, <1>1, <2>1, CountStep
  <2> QED BY <1>1, <2>2 DEF ProcInv
<1>2. ASSUME NEW s \in Proc, NEW cloned \in BOOLEAN, Fork(s, cloned) PROVE ProcInv'
  <2> DEFINE unused == {i \in Proc : procs[i].state = "Unused"}
             i == First(unused)
  <2>1. unused # {} /\ unused \subseteq Proc
    BY <1>2 DEF Fork
  <2>2. i \in Proc /\ procs[i].state = "Unused"
    BY <2>1, FirstIn
  <2>3. /\ Ready(s) /\ next_pid' = next_pid + 1 /\ proc_count' = proc_count + 1
        /\ cloned => procs' = [procs EXCEPT ![i] = Forked(s)] /\ failed_forks' = failed_forks
        /\ ~cloned => failed_forks' = failed_forks + 1 /\ procs' = procs
        /\ UNCHANGED <<reaped, lclVars>>
    BY <1>2 DEF Fork, Forked
  <2> HIDE DEF unused, i
  <2>4. CASE cloned
    <3>1. Rest
      BY <2>2, <2>3, <2>4, ForkStep
    <3>2. InUse' = InUse \cup {i} /\ i \notin InUse
      <4>1. procs'[i].state = "Ready" /\ \A t \in Proc \ {i} : procs'[t] = procs[t]
        BY <1>0, <2>2, <2>3, <2>4 DEF Forked
      <4> QED BY <2>2, <4>1 DEF InUse
    <3>3. Counted'
      BY <1>0, <2>2, <2>3, <2>4, <3>2, CountStep
    <3> QED BY <3>1, <3>3 DEF ProcInv
  <2>5. CASE ~cloned
    <3>1. Rest
      BY <2>3, <2>5, FailedForkStep
    <3>2. InUse' = InUse
      BY <2>3, <2>5 DEF InUse
    <3>3. Counted'
      BY <1>0, <2>2, <2>3, <2>5, <3>2, CountStep
    <3> QED BY <3>1, <3>3 DEF ProcInv
  <2> QED BY <2>4, <2>5
<1>3. ASSUME NEW s \in Proc, NEW st \in Statuses, ProcExit(s, st) PROVE ProcInv'
  <2>1. Rest
    BY <1>3, ExitStep
  <2>2. /\ failed_forks' = failed_forks /\ proc_count' = proc_count /\ procs[s].state = "Ready"
        /\ procs' = [procs EXCEPT ![s] = [procs[s] EXCEPT !.state = "Exited", !.status = st]]
    BY Zenon, <1>3 DEF ProcExit, Ready
  <2>3. procs'[s].state = "Exited" /\ \A t \in Proc \ {s} : procs'[t] = procs[t]
    <3>1. [procs[s] EXCEPT !.state = "Exited", !.status = st].state = "Exited"
      BY <1>0 DEF Threads
    <3> QED BY <1>0, <2>2, <3>1
  <2>4. \A t \in Proc : procs'[t].state # "Unused" <=> procs[t].state # "Unused"
    BY <2>2, <2>3
  <2> HIDE DEF Rest
  <2> QED BY <1>1, <2>1, <2>2, <2>4
<1>4. ASSUME NEW s \in Proc, Wait4(s) PROVE ProcInv'
  <2> DEFINE done == {i \in Proc : procs[i].parent = procs[s].id /\ procs[i].state = "Exited"}
             i == First(done)
  <2>1. done # {} /\ done \subseteq Proc
    BY <1>4 DEF Wait4
  <2>2. i \in Proc /\ procs[i].parent = procs[s].id /\ procs[i].state = "Exited"
    BY <2>1, FirstIn
  <2>3. /\ Ready(s) /\ proc_count' = proc_count - 1
        /\ reaped' = Append(reaped, [parent |-> procs[s].id, pid |-> procs[i].id,
                                     status |-> procs[i].status])
        /\ procs' = [procs EXCEPT ![i].state = "Unused"]
        /\ UNCHANGED <<next_pid, failed_forks, lclVars>>
    BY <1>4 DEF Wait4
  <2> HIDE DEF done, i
  <2>4. Rest
    BY Zenon, <2>2, <2>3, WaitStep
  <2>5. InUse' = InUse \ {i} /\ i \in InUse
    <3>1. procs' = [procs EXCEPT ![i] = [procs[i] EXCEPT !.state = "Unused"]]
      BY <2>3
    <3>2. [procs[i] EXCEPT !.state = "Unused"].state = "Unused"
      BY <1>0, <2>2 DEF Threads
    <3>3. procs'[i].state = "Unused" /\ \A t \in Proc \ {i} : procs'[t] = procs[t]
      BY <1>0, <2>2, <3>1, <3>2
    <3> QED BY <2>2, <3>3 DEF InUse
  <2>6. Counted'
    BY <1>0, <2>2, <2>3, <2>5, CountStep
  <2> QED BY <2>4, <2>6 DEF ProcInv
<1>5. ASSUME NEW s \in Proc, LclCall(s) PROVE ProcInv'
  <2>1. PICK n \in 0 .. LclSlots : HoldsOnly(lcl, n)
    BY DEF ProcInv, RingShape
  <2>2. n \in RingSlots
    BY <1>5, <2>1, Room DEF LclCall
  <2>3. Rest
    BY <1>5, <2>1, <2>2, CallStep
  <2>4. /\ failed_forks' = failed_forks /\ proc_count' = proc_count /\ procs[s].state = "Ready"
        /\ procs' = [procs EXCEPT ![s] = Caller(s)]
    BY Zenon, <1>5 DEF LclCall, Ready, Caller
  <2>5. Caller(s).state = "Blocked"
    BY <1>0 DEF Caller, Threads
  <2>6. \A t \in Proc : procs'[t].state # "Unused" <=> procs[t].state # "Unused"
    BY <1>0, <2>4, <2>5
  <2> HIDE DEF Rest
  <2> QED BY <1>1, <2>3, <2>4, <2>6
<1>6. ASSUME NEW s \in Proc, NEW copied \in BOOLEAN, LclReceive(s, copied) PROVE ProcInv'
  <2>1. Rest
    BY <1>6, ReceiveStep
  <2>2. procs' = procs /\ failed_forks' = failed_forks /\ proc_count' = proc_count
    BY <1>6 DEF LclReceive
  <2> HIDE DEF Rest
  <2> QED BY <1>1, <2>1, <2>2
<1>7. ASSUME NEW s \in Proc, NEW h \in held, LclReturn(s, h) PROVE ProcInv'
  <2>1. Rest
    BY <1>7, ReturnStep
  <2>2. /\ failed_forks' = failed_forks /\ proc_count' = proc_count
        /\ procs' = [t \in Proc |-> IF procs[t].id = h[2].tid /\ procs[t].state = "Blocked"
                                    THEN [procs[t] EXCEPT !.state = "Ready"] ELSE procs[t]]
    BY <1>7 DEF LclReturn
  <2>3. ASSUME NEW t \in Proc
        PROVE  procs'[t].state # "Unused" <=> procs[t].state # "Unused"
    <3>1. [procs[t] EXCEPT !.state = "Ready"].state = "Ready"
      BY <1>0 DEF Threads
    <3> QED BY <2>2, <3>1
  <2> HIDE DEF Rest
  <2> QED BY <1>1, <2>1, <2>2, <2>3
<1>8. CASE UNCHANGED procVars
  <2>1. ProcTypes' /\ IdsUnique' /\ ReapedOnce' /\ Counted'
    BY Zenon, <1>8 DEF ProcInv, ProcTypes, IdsUnique, ReapedOnce, Counted, procVars
  <2>2. RequestsOwned' /\ RequestsOnce' /\ BlockedWaits' /\ RingShape'
    BY <1>8 DEF ProcInv, RequestsOwned, Owned, Owner, RequestsOnce, BlockedWaits, RingShape,
                HoldsOnly, InRing, procVars
  <2> QED BY <2>1, <2>2 DEF ProcInv
<1> QED BY <1>2, <1>3, <1>4, <1>5, <1>6, <1>7, <1>8 DEF ProcNext

\* init and the server in their slots, and an empty ring.
LEMMA ProcInitInv == ProcInit => ProcInv
<1> SUFFICES ASSUME ProcInit PROVE ProcInv
  OBVIOUS
<1> DEFINE first == [UnusedThread EXCEPT !.id = 1, !.state = "Ready"]
           server == [UnusedThread EXCEPT !.id = Server, !.state = "Ready"]
<1>0. UnusedThread \in Threads /\ UnusedThread.parent = 0
  BY DEF Threads, States, UnusedThread
<1>1. first \in Threads /\ server \in Threads /\ UnusedThread \in Threads
  BY Zenon, <1>0 DEF Threads, States, Server
<1>2. 0 \in Proc /\ 1 \in Proc
  BY DEF Proc
<1>3. procs = [t \in Proc |-> CASE t = 0 -> first [] t = 1 -> server [] OTHER -> UnusedThread]
  BY DEF ProcInit
<1> HIDE DEF first, server
<1>4. /\ procs \in [Proc -> Threads] /\ procs[0] = first /\ procs[1] = server
      /\ \A t \in Proc \ {0, 1} : procs[t] = UnusedThread
  BY <1>1, <1>2, <1>3
<1>5. /\ first.id = 1 /\ first.state = "Ready" /\ server.id = 2 /\ server.state = "Ready"
      /\ server.parent = 0 /\ UnusedThread.id = 0 /\ UnusedThread.state = "Unused"
  BY <1>0 DEF first, server, Threads, UnusedThread, Server
<1>6. /\ proc_count = 2 /\ next_pid = 3 /\ failed_forks = 0 /\ reaped = <<>>
      /\ held = {} /\ lost = {} /\ calls = 0
      /\ lcl = [messages |-> [i \in RingSlots |-> NoMessage], head |-> 0, tail |-> 0]
  BY DEF ProcInit, RingSlots
<1>7. NoMessage \in Messages /\ 0 \in RingSlots
  BY DEF NoMessage, Messages, RingSlots
<1>8. ProcTypes
  <2>1. lcl \in [messages : [RingSlots -> Messages], head : RingSlots, tail : RingSlots]
    BY <1>6, <1>7
  <2> QED BY <1>4, <1>6, <2>1 DEF ProcTypes
<1>9. IdsUnique
  <2>1. \A t \in Proc : /\ procs[t].state # "Unused" => t \in {0, 1}
                        /\ procs[t].id \in {0, 1, 2}
    BY <1>4, <1>5
  <2> QED BY <1>4, <1>5, <1>6, <2>1 DEF IdsUnique, Server
<1>10. InRing = {}
  BY <1>6 DEF InRing
<1>11. \A t \in Proc : procs[t].state # "Blocked"
  BY <1>4, <1>5
<1>12. RequestsOwned /\ RequestsOnce /\ BlockedWaits
  BY Zenon, <1>6, <1>10, <1>11 DEF RequestsOwned, RequestsOnce, BlockedWaits
<1>13. RingShape
  <2>1. Turn(0, 0) = 0 /\ \A k \in RingSlots : Turn(0, k) \in RingSlots
    BY <1>7, TurnFacts
  <2>2. \A k \in RingSlots : ~(k < 0)
    BY DEF RingSlots
  <2>3. HoldsOnly(lcl, 0)
    BY <1>6, <2>1, <2>2 DEF HoldsOnly
  <2> QED BY <2>3 DEF RingShape
<1>14. ReapedOnce
  BY <1>6 DEF ReapedOnce
<1>15. Counted
  <2> DEFINE U == {t \in Proc : procs[t].state # "Unused"}
  <2>1. U = {0} \cup {1}
    BY <1>2, <1>4, <1>5
  <2>2. Fin!IsFiniteSet({0}) /\ Fin!Cardinality({0}) = 1
    BY Zenon, Fin!FS_Singleton
  <2>3. Fin!Cardinality({0} \cup {1}) = 2
    BY <2>2, Fin!FS_AddElement
  <2>4. Fin!Cardinality(U) = Cardinality(U)
    BY SameCardinality
  <2> HIDE DEF U
  <2>5. Cardinality(U) = 2
    BY ONLY <2>1, <2>3, <2>4
  <2>6. proc_count = Cardinality(U) + failed_forks
    BY ONLY <1>6, <2>5
  <2> QED BY <2>6 DEF Counted, U
<1> QED BY <1>8, <1>9, <1>12, <1>13, <1>14, <1>15 DEF ProcInv

\* A set in which any two are the same has one member or none.
LEMMA AtMostOne ==
  ASSUME NEW S, \A x, y \in S : x = y
  PROVE  /\ S = {} => Cardinality(S) = 0
         /\ S # {} => Cardinality(S) = 1
<1>1. ASSUME S # {} PROVE \E x : S = {x}
  <2>1. PICK x : x \in S
    BY <1>1
  <2>2. S = {x}
    BY <2>1
  <2> QED BY <2>2
<1>2. Fin!Cardinality({}) = 0 /\ \A x : Fin!Cardinality({x}) = 1
  BY Zenon, Fin!FS_EmptySet, Fin!FS_Singleton
<1> QED BY Zenon, <1>1, <1>2, SameCardinality

\* What the invariant says of the forwarded calls.
LEMMA ConservedByInv == ProcInv => CallsConserved
<1> SUFFICES ASSUME ProcInv PROVE CallsConserved
  OBVIOUS
<1> USE DEF ProcInv
<1>1. ASSUME NEW m \in Outstanding
      PROVE  \E t \in Proc :
                procs[t] = [procs[t] EXCEPT !.id = m.tid, !.state = "Blocked", !.call = m.call]
  <2>1. Owned(m)
    BY DEF Outstanding, RequestsOwned
  <2>2. PICK t \in Proc : procs[t].id = m.tid /\ procs[t].state = "Blocked"
                          /\ procs[t].call = m.call
    BY <2>1 DEF Owned, Owner
  <2>3. procs[t] \in Threads
    BY DEF ProcTypes
  <2>4. procs[t] = [procs[t] EXCEPT !.id = m.tid, !.state = "Blocked", !.call = m.call]
    BY ONLY Zenon, <2>2, <2>3 DEF Threads
  <2> QED BY Zenon, <2>4
<1>2. ASSUME NEW t \in Proc, procs[t].state = "Blocked"
      PROVE  Cardinality({i \in InRing : lcl.messages[i].tid = procs[t].id})
               + Cardinality({h \in held : h[2].tid = procs[t].id})
               + Cardinality({m \in lost : m.tid = procs[t].id}) = 1
  <2> DEFINE R == {i \in InRing : lcl.messages[i].tid = procs[t].id}
             H == {h \in held : h[2].tid = procs[t].id}
             L == {m \in lost : m.tid = procs[t].id}
  <2>1. \A x, y \in R : x = y
    BY Zenon DEF RequestsOnce
  <2>2. \A x, y \in H : x = y
    BY DEF RequestsOnce
  <2>3. \A x, y \in L : x = y
    BY DEF RequestsOnce
  <2>4. (R = {} \/ H = {}) /\ (R = {} \/ L = {}) /\ (H = {} \/ L = {})
    BY Zenon DEF RequestsOnce
  <2>5. R # {} \/ H # {} \/ L # {}
    BY <1>2 DEF BlockedWaits
  <2> HIDE DEF R, H, L
  <2>6. /\ R = {} => Cardinality(R) = 0
        /\ R # {} => Cardinality(R) = 1
    BY <2>1, AtMostOne
  <2>7. /\ H = {} => Cardinality(H) = 0
        /\ H # {} => Cardinality(H) = 1
    BY <2>2, AtMostOne
  <2>8. /\ L = {} => Cardinality(L) = 0
        /\ L # {} => Cardinality(L) = 1
    BY <2>3, AtMostOne
  <2>9. Cardinality(R) + Cardinality(H) + Cardinality(L) = 1
    BY <2>4, <2>5, <2>6, <2>7, <2>8
  <2> QED BY <2>9 DEF R, H, L
<1>3. InRing # {} => lcl.messages[lcl.tail] # NoMessage
  <2>1. PICK n \in 0 .. LclSlots : HoldsOnly(lcl, n)
    BY DEF RingShape
  <2>2. n = 0 \/ n > 0
    OBVIOUS
  <2> QED BY <2>1, <2>2, RingFacts
<1> QED BY Zenon, <1>1, <1>2, <1>3 DEF CallsConserved

\* A thread is Blocked exactly while one request of its own, its last, is in
\* LCL_QUEUE, with the server, or lost: enqueue_lcl_message overwrites no
\* request although it never looks whether the ring is full, and lcl_return
\* wakes the thread that asked and no other.
THEOREM NoCallOverwritten == ProcSpec => []CallsConserved
<1>1. ProcInit => ProcInv
  BY ProcInitInv
<1>2. ProcInv /\ [ProcNext]_procVars => ProcInv'
  BY ProcStep
<1>3. ProcInv => CallsConserved
  BY ConservedByInv
<1> QED BY <1>1, <1>2, <1>3, PTL DEF ProcSpec

\* wait4 answers with a child once, a pid it returned is never in use again,
\* and thread_count is the slots in use plus the forks that failed for want of
\* memory.
THEOREM ChildrenReapedOnce == ProcSpec => []ChildrenAccounted
<1>1. ProcInit => ProcInv
  BY ProcInitInv
<1>2. ProcInv /\ [ProcNext]_procVars => ProcInv'
  BY ProcStep
<1>3. ProcInv => ChildrenAccounted
  BY DEF ProcInv, ReapedOnce, Counted, ChildrenAccounted
<1> QED BY <1>1, <1>2, <1>3, PTL DEF ProcSpec
=============================================================================
