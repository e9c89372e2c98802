----------------------------- MODULE TaskQueue -----------------------------
(***************************************************************************)
(* What the shared ring of the heterogeneous scheduler promises: a first-  *)
(* in first-out queue of tasks that holds at most Size of them, those in a *)
(* dispatcher's hands included, accepts no task twice and hands each one   *)
(* to one dispatcher.                                                      *)
(***************************************************************************)
EXTENDS Integers, Sequences, FiniteSets

CONSTANTS Tasks, Consumers, Size

VARIABLES
    queue,     \* the tasks waiting, oldest first
    hand,      \* dispatcher -> the task it is dispatching, 0 if none
    accepted   \* every task that was ever accepted

vars == <<queue, hand, accepted>>

Busy == {c \in Consumers : hand[c] # 0}

Init ==
    /\ queue = <<>>
    /\ hand = [c \in Consumers |-> 0]
    /\ accepted = {}

Accept(t) ==
    /\ t \notin accepted
    /\ Len(queue) + Cardinality(Busy) < Size
    /\ queue' = Append(queue, t)
    /\ accepted' = accepted \cup {t}
    /\ UNCHANGED hand

Take(c) ==
    /\ hand[c] = 0
    /\ queue # <<>>
    /\ hand' = [hand EXCEPT ![c] = Head(queue)]
    /\ queue' = Tail(queue)
    /\ UNCHANGED accepted

Finish(c) ==
    /\ hand[c] # 0
    /\ hand' = [hand EXCEPT ![c] = 0]
    /\ UNCHANGED <<queue, accepted>>

Next ==
    \/ \E t \in Tasks : Accept(t)
    \/ \E c \in Consumers : Take(c) \/ Finish(c)

Spec == Init /\ [][Next]_vars
=============================================================================
