------------------------------ MODULE BoundedQueue -------------------------------
(***************************************************************************)
(* What a ring (lib/ring) promises to its users: a bounded first-in        *)
(* first-out queue on which a call takes effect at one moment, although    *)
(* the calls of several threads overlap.  A thread puts a prefix of what   *)
(* it has in hand, all of it at once, or takes the first objects of the    *)
(* queue, all at once; an object is never in the queue and in a hand, nor  *)
(* in two hands.                                                           *)
(***************************************************************************)
EXTENDS Naturals, Sequences

CONSTANTS
    Thread,     \* the threads that use the queue
    Object,     \* the objects
    Capacity    \* the most objects the queue holds

VARIABLES
    queue,      \* the objects in the queue, the oldest first
    hand        \* hand[t]: what the call of t is putting, or has taken

vars == <<queue, hand>>

\* The elements of a sequence.
In(s) == {s[i] : i \in DOMAIN s}

\* Sequences of different objects.
Distinct(s) == \A i, j \in DOMAIN s : s[i] = s[j] => i = j

\* The objects that no call and no queue holds.
Outside == Object \ (In(queue) \cup UNION {In(hand[t]) : t \in Thread})

Init ==
    /\ queue = <<>>
    /\ hand = [t \in Thread |-> <<>>]

\* A call to put some of the objects outside begins.
Offer(t) ==
    /\ hand[t] = <<>>
    /\ hand'[t] \in Seq(Outside)
    /\ Distinct(hand'[t])
    /\ hand' = [hand EXCEPT ![t] = hand'[t]]
    /\ UNCHANGED queue

\* The first n objects in hand enter the queue; the others are not taken.
Put(t, n) ==
    /\ Len(queue) + n <= Capacity
    /\ queue' = queue \o SubSeq(hand[t], 1, n)
    /\ hand' = [hand EXCEPT ![t] = <<>>]

\* The first n objects of the queue are taken.
Take(t, n) ==
    /\ hand[t] = <<>>
    /\ hand' = [hand EXCEPT ![t] = SubSeq(queue, 1, n)]
    /\ queue' = SubSeq(queue, n + 1, Len(queue))

\* The call returns: what was taken, or not put, is outside.
Return(t) ==
    /\ hand' = [hand EXCEPT ![t] = <<>>]
    /\ UNCHANGED queue

Next ==
    \E t \in Thread :
        \/ Offer(t)
        \/ \E n \in 1..Len(hand[t]) : Put(t, n)
        \/ \E n \in 1..Len(queue) : Take(t, n)
        \/ Return(t)

Spec == Init /\ [][Next]_vars
=============================================================================
