--------------------------------- MODULE RteRing ---------------------------------
(***************************************************************************)
(* The multi-producer, multi-consumer ring (lib/ring) on which the packet  *)
(* pools of the applications rest: they are created without a per-lcore    *)
(* cache, so that every allocation is a dequeue and every release an       *)
(* enqueue of the pool's ring, by lcores of one or two processes.          *)
(*                                                                         *)
(* A call reserves its slots by moving a head with a compare-and-swap,     *)
(* copies its objects, and publishes them by moving the tail, after every  *)
(* call that reserved before it has done so.  Indices are words that wrap; *)
(* the ring begins drained at an index close to the wrap.                  *)
(*                                                                         *)
(* A step is one load, compare-and-swap, copy of one object, or the store  *)
(* of a tail; a call that waits for a tail has no step.  Memory is         *)
(* sequentially consistent: the barriers of the code order exactly the     *)
(* accesses that are steps here.  The objects are outside the ring, in     *)
(* obj_table of a call, or in the ring.                                    *)
(***************************************************************************)
EXTENDS Naturals, Sequences, FiniteSets

CONSTANTS
    Thread,     \* the threads: lcores, of any process that maps the ring
    Object,     \* what the ring's users own, and pass through it
    None,       \* a slot never written
    Size,       \* r->size, a power of two
    Word,       \* 2^32: the number of values of an index
    Start,      \* the index at which the ring begins, drained
    MaxBulk,    \* bound: objects of one call
    MaxCalls,   \* bound: calls in a behaviour
    Killable    \* the threads that may be killed inside a call

ASSUME SizeAssumption ==
    /\ Size \in Nat /\ Size > 1
    /\ Word \in Nat
    /\ Word > Size /\ Word % Size = 0
    /\ Start \in Nat /\ Start < Word
ASSUME BoundAssumption == MaxBulk \in Nat /\ MaxCalls \in Nat
ASSUME ThreadAssumption ==
    Killable \subseteq Thread /\ IsFiniteSet(Thread) /\ None \notin Object

VARIABLES
    prodHead,   \* r->prod.head
    prodTail,   \* r->prod.tail
    consHead,   \* r->cons.head
    consTail,   \* r->cons.tail
    slot,       \* the slots of the ring
    pc,         \* where t's call is: idle, head, room, swap, copy
    op,         \* "enq" or "deq"
    fixed,      \* behavior is RTE_RING_QUEUE_FIXED (bulk), not VARIABLE (burst)
    want,       \* the number of objects asked for
    oldHead,    \* old_head
    num,        \* n, as computed from the room
    done,       \* how many objects are copied
    table,      \* obj_table
    outside,    \* the objects that the users own and no call holds
    dead,       \* the threads that were killed
    calls       \* calls so far

index == <<prodHead, prodTail, consHead, consTail>>
request == <<op, fixed, want>>
vars == <<index, slot, pc, request, oldHead, num, done, table, outside, dead, calls>>

Index == 0..Word - 1
Slot == 0..Size - 1
Capacity == Size - 1

\* The elements of a sequence.
In(s) == {s[i] : i \in DOMAIN s}

\* Requests: non-empty sequences of different objects of S.
Table(S) ==
    {s \in UNION {[1..k -> S] : k \in 1..MaxBulk} :
        \A i, j \in DOMAIN s : s[i] = s[j] => i = j}

\* Mutant: the addition does not wrap.
PlusWide(i, n) == i + n

\* Sum and difference of words.
Plus(i, n) == (i + n) % Word
Minus(i, j) == (i + Word - j) % Word

\* The slot of an index (r->mask).
SlotOf(i) == i % Size

IndexType ==
    /\ prodHead \in Index /\ prodTail \in Index
    /\ consHead \in Index /\ consTail \in Index
    /\ oldHead \in [Thread -> Index]

CallType ==
    /\ pc \in [Thread -> {"idle", "head", "room", "swap", "copy"}]
    /\ op \in [Thread -> {"enq", "deq"}]
    /\ fixed \in [Thread -> BOOLEAN]
    /\ want \in [Thread -> 0..MaxBulk]
    /\ num \in [Thread -> 0..MaxBulk]
    /\ done \in [Thread -> 0..MaxBulk]
    /\ dead \subseteq Killable
    /\ calls \in 0..MaxCalls
    /\ \A t \in Thread : done[t] <= num[t] /\ num[t] <= want[t]
    /\ \A t \in Thread : num[t] > 0 <=> pc[t] \in {"swap", "copy"}
    /\ \A t \in Thread : done[t] > 0 => pc[t] = "copy"

ObjectType ==
    /\ slot \in [Slot -> Object \cup {None}]
    /\ table \in [Thread -> Seq(Object)]
    /\ outside \subseteq Object
    /\ \A t \in Thread :
        pc[t] # "idle" => Len(table[t]) = IF op[t] = "enq" THEN want[t] ELSE done[t]

TypeOK == IndexType /\ CallType /\ ObjectType

Init ==
    /\ prodHead = Start /\ prodTail = Start
    /\ consHead = Start /\ consTail = Start
    /\ slot = [i \in Slot |-> None]
    /\ pc = [t \in Thread |-> "idle"]
    /\ op = [t \in Thread |-> "enq"]
    /\ fixed = [t \in Thread |-> FALSE]
    /\ want = [t \in Thread |-> 0]
    /\ oldHead = [t \in Thread |-> 0]
    /\ num = [t \in Thread |-> 0]
    /\ done = [t \in Thread |-> 0]
    /\ table = [t \in Thread |-> <<>>]
    /\ outside = Object
    /\ dead = {}
    /\ calls = 0

-----------------------------------------------------------------------------
(* The beginning and the end of a call.                                    *)

Begin(t, o, s, k, b) ==
    /\ pc[t] = "idle" /\ t \notin dead
    /\ calls < MaxCalls
    /\ calls' = calls + 1
    /\ pc' = [pc EXCEPT ![t] = "head"]
    /\ op' = [op EXCEPT ![t] = o]
    /\ fixed' = [fixed EXCEPT ![t] = b]
    /\ want' = [want EXCEPT ![t] = k]
    /\ table' = [table EXCEPT ![t] = s]
    /\ outside' = outside \ In(s)
    /\ UNCHANGED <<index, slot, oldHead, num, done, dead>>

\* rte_ring_mp_enqueue_bulk or _burst: the caller gives up the objects of s.
Enqueue(t, s, b) == Begin(t, "enq", s, Len(s), b)

\* rte_ring_mc_dequeue_bulk or _burst.
Dequeue(t, k, b) == Begin(t, "deq", <<>>, k, b)

\* The call returns, and the objects of back are the caller's.  Its local variables
\* are gone.
Return(t, back) ==
    /\ outside' = outside \cup back
    /\ pc' = [pc EXCEPT ![t] = "idle"]
    /\ op' = [op EXCEPT ![t] = "enq"]
    /\ fixed' = [fixed EXCEPT ![t] = FALSE]
    /\ want' = [want EXCEPT ![t] = 0]
    /\ oldHead' = [oldHead EXCEPT ![t] = 0]
    /\ num' = [num EXCEPT ![t] = 0]
    /\ done' = [done EXCEPT ![t] = 0]
    /\ table' = [table EXCEPT ![t] = <<>>]

-----------------------------------------------------------------------------
(* __rte_ring_move_prod_head and __rte_ring_move_cons_head.                *)

\* The head that t moves.
Head0(t) == IF op[t] = "enq" THEN prodHead ELSE consHead

\* *old_head = r->prod.head, or r->cons.head.
LoadHead(t) ==
    /\ pc[t] = "head"
    /\ oldHead' = [oldHead EXCEPT ![t] = Head0(t)]
    /\ pc' = [pc EXCEPT ![t] = "room"]
    /\ UNCHANGED <<index, slot, request, num, done, table, outside, dead, calls>>

\* Mutant: a slot is free as soon as a consumer has reserved it.
RoomFromHead(t) ==
    IF op[t] = "enq" THEN Minus(Plus(Capacity, consHead), oldHead[t])
                     ELSE Minus(prodTail, oldHead[t])

\* Mutant: an entry is held back.
RoomShort(t) ==
    LET r == IF op[t] = "enq" THEN Minus(Plus(Capacity, consTail), oldHead[t])
                              ELSE Minus(prodTail, oldHead[t])
    IN  IF r > 0 THEN r - 1 ELSE 0

\* free_entries, or entries: from the tail of the other side.
Room(t) ==
    IF op[t] = "enq" THEN Minus(Plus(Capacity, consTail), oldHead[t])
                     ELSE Minus(prodTail, oldHead[t])

\* n: what is asked for, or what there is, or nothing.
Granted(t) ==
    IF want[t] <= Room(t) THEN want[t] ELSE IF fixed[t] THEN 0 ELSE Room(t)

Reserve(t) ==
    /\ pc[t] = "room"
    /\ Granted(t) > 0
    /\ num' = [num EXCEPT ![t] = Granted(t)]
    /\ pc' = [pc EXCEPT ![t] = "swap"]
    /\ UNCHANGED <<index, slot, request, oldHead, done, table, outside, dead, calls>>

\* if (n == 0) return 0.
Refuse(t) ==
    /\ pc[t] = "room"
    /\ Granted(t) = 0
    /\ Return(t, In(table[t]))
    /\ UNCHANGED <<index, slot, dead, calls>>

\* Mutant: the head is stored, as with a single producer or consumer.
HeadUnmovedAlways(t) == t \in Thread

\* The compare-and-swap finds the head where it was loaded.
HeadUnmoved(t) == Head0(t) = oldHead[t]

MoveHead(t) ==
    /\ pc[t] = "swap"
    /\ HeadUnmoved(t)
    /\ IF op[t] = "enq"
       THEN prodHead' = Plus(oldHead[t], num[t]) /\ UNCHANGED consHead
       ELSE consHead' = Plus(oldHead[t], num[t]) /\ UNCHANGED prodHead
    /\ pc' = [pc EXCEPT ![t] = "copy"]
    /\ UNCHANGED <<prodTail, consTail, slot, request, oldHead, num, done, table,
                   outside, dead, calls>>

\* Mutant: the loop goes on with the head loaded before.
RetryStale(t) ==
    /\ pc[t] = "swap"
    /\ ~HeadUnmoved(t)
    /\ num' = [num EXCEPT ![t] = 0]
    /\ pc' = [pc EXCEPT ![t] = "room"]
    /\ UNCHANGED <<index, slot, request, oldHead, done, table, outside, dead, calls>>

\* The compare-and-swap fails: n is reset and the head is loaded again.
Retry(t) ==
    /\ pc[t] = "swap"
    /\ ~HeadUnmoved(t)
    /\ num' = [num EXCEPT ![t] = 0]
    /\ pc' = [pc EXCEPT ![t] = "head"]
    /\ UNCHANGED <<index, slot, request, oldHead, done, table, outside, dead, calls>>

-----------------------------------------------------------------------------
(* __rte_ring_enqueue_elems, __rte_ring_dequeue_elems: one object a step.  *)

StoreElement(t) ==
    /\ pc[t] = "copy" /\ op[t] = "enq"
    /\ done[t] < num[t]
    /\ slot' = [slot EXCEPT ![SlotOf(Plus(oldHead[t], done[t]))] = table[t][done[t] + 1]]
    /\ done' = [done EXCEPT ![t] = @ + 1]
    /\ UNCHANGED <<index, pc, request, oldHead, num, table, outside, dead, calls>>

LoadElement(t) ==
    /\ pc[t] = "copy" /\ op[t] = "deq"
    /\ done[t] < num[t]
    /\ table' = [table EXCEPT ![t] = Append(@, slot[SlotOf(Plus(oldHead[t], done[t]))])]
    /\ done' = [done EXCEPT ![t] = @ + 1]
    /\ UNCHANGED <<index, slot, pc, request, oldHead, num, outside, dead, calls>>

-----------------------------------------------------------------------------
(* __rte_ring_update_tail and the return of the call.                      *)

\* Mutant: the tail is not waited for, as with a single producer or consumer.
TurnOfAny(t) == t \in Thread

\* rte_wait_until_equal_32: the calls that reserved before t have published.
TurnOf(t) == oldHead[t] = IF op[t] = "enq" THEN prodTail ELSE consTail

UpdateTail(t) ==
    /\ pc[t] = "copy"
    /\ done[t] = num[t]
    /\ TurnOf(t)
    /\ IF op[t] = "enq"
       THEN /\ prodTail' = Plus(oldHead[t], num[t])
            /\ UNCHANGED consTail
            /\ Return(t, In(SubSeq(table[t], num[t] + 1, want[t])))
       ELSE /\ consTail' = Plus(oldHead[t], num[t])
            /\ UNCHANGED prodTail
            /\ Return(t, In(table[t]))
    /\ UNCHANGED <<prodHead, consHead, slot, dead, calls>>

-----------------------------------------------------------------------------
\* The process of t is killed inside a call (script/kill-leader.py: pkill -9): the
\* ring lives on in the memory of the other processes.
Kill(t) ==
    /\ t \in Killable \ dead
    /\ pc[t] # "idle"
    /\ dead' = dead \cup {t}
    /\ UNCHANGED <<index, slot, pc, request, oldHead, num, done, table, outside, calls>>

\* The steps of a call that has begun.
Step(t) ==
    /\ t \notin dead
    /\ \/ LoadHead(t) \/ Reserve(t) \/ Refuse(t) \/ MoveHead(t) \/ Retry(t)
       \/ StoreElement(t) \/ LoadElement(t) \/ UpdateTail(t)

\* Bulk or burst; for one object they are the same.
Behavior(k) == IF k = 1 THEN {TRUE} ELSE BOOLEAN

\* Callers hand in one of the given sequences of objects.
NextWith(Tables) ==
    \E t \in Thread :
        \/ \E s \in Tables : \E b \in Behavior(Len(s)) : Enqueue(t, s, b)
        \/ \E k \in 1..MaxBulk : \E b \in Behavior(k) : Dequeue(t, k, b)
        \/ Step(t)
        \/ Kill(t)

Next == NextWith(Table(outside))

Spec == Init /\ [][Next]_vars

\* A thread inside a call runs on.
Fairness == \A t \in Thread : WF_vars(Step(t))

LiveSpec == Spec /\ Fairness

-----------------------------------------------------------------------------
(* What the ring implements.                                               *)

\* What n slots from index i on hold.
Contents(i, n) == [j \in 1..n |-> slot[SlotOf(Plus(i, j - 1))]]

\* The queue: what is published and not reserved by a consumer.
queue == Contents(consHead, Minus(prodTail, consHead))

\* A dequeue has its objects from the moment it has moved the head.
hand ==
    [t \in Thread |->
        IF op[t] = "enq" THEN table[t]
        ELSE IF pc[t] = "copy" THEN Contents(oldHead[t], num[t]) ELSE <<>>]

Abstract == INSTANCE BoundedQueue

-----------------------------------------------------------------------------
(* Properties.                                                             *)

\* The head and tail moves of overlapping calls, across the wrap of the indices and
\* the deaths of threads, amount to a bounded queue on which each call takes effect
\* at once (rte_ring_elem_pvt.h 320-389).
ImplementsQueue == Abstract!Spec

\* Around the ring the indices stay in the order consumer tail, consumer head,
\* producer tail, producer head, and never spread over more than the capacity, so
\* that no producer writes a slot that is not free, whatever stale heads and tails
\* the calls compute with (rte_ring_generic_pvt.h 65-99, 135-170).
IndicesInOrder ==
    Minus(consHead, consTail) + Minus(prodTail, consHead) + Minus(prodHead, prodTail)
        <= Capacity

\* Every object is in exactly one place: outside, given to an enqueue that has not
\* published it, in the queue, or reserved by one dequeue: none is handed out twice
\* and none is lost, but with a killed thread; what a dequeue has copied is what it
\* reserved, although producers go on writing (rte_ring_elem_pvt.h 334-336, 381-383).
OneOwner ==
    /\ In(queue) \cap outside = {}
    /\ \A t \in Thread :
        /\ In(hand[t]) \cap (outside \cup In(queue)) = {}
        /\ Cardinality(In(hand[t])) = Len(hand[t])
        /\ \A u \in Thread \ {t} : In(hand[t]) \cap In(hand[u]) = {}
    /\ outside \cup In(queue) \cup UNION {In(hand[t]) : t \in Thread} = Object
    /\ \A t \in Thread :
        op[t] = "deq" /\ pc[t] = "copy" =>
            \A i \in 1..done[t] : table[t][i] = hand[t][i]

\* The objects that a call could get at this moment: in the queue, or free slots.
Available(t) ==
    IF op[t] = "enq" THEN Capacity - Minus(prodHead, consTail) ELSE Len(queue)

\* A call that returns 0 tells the truth: at that moment there is not the number it
\* asked for, or nothing at all for a burst, although it compared a head and a tail
\* loaded at two moments (rte_ring_generic_pvt.h 85-90, 155-159).
RefusesTruthfully ==
    [][\A t \in Thread :
        pc[t] = "room" /\ pc'[t] = "idle" =>
            Available(t) < IF fixed[t] THEN want[t] ELSE 1]_vars

\* A killed thread has left a reservation that it will never publish.
Stuck == \E t \in dead : pc[t] = "copy"

\* Every call returns, unless a thread was killed between its head and its tail
\* (rte_ring_generic_pvt.h 25-27 waits for ever then).
CallsReturn ==
    \A t \in Thread : pc[t] # "idle" ~> (pc[t] = "idle" \/ t \in dead \/ Stuck)

-----------------------------------------------------------------------------
(* The inductive invariants behind these properties.                       *)

\* Fewer objects pass than an index has values, the capacity apart: a thread is not
\* held up in a call while the indices go once around.
NoLap == Capacity + MaxBulk * MaxCalls < Word

\* The number of objects that had passed when an index was i.
Passed(i) == Minus(i, Start)

\* The calls that may still move the producer head.
Reserving == {t \in Thread : op[t] = "enq" /\ pc[t] \in {"head", "room", "swap"}}

\* Each call moves the head once, by a bulk at most.
PassInv == Passed(prodHead) + MaxBulk * Cardinality(Reserving) <= MaxBulk * calls

\* The order of the indices, counted from the start.
OrderInv ==
    /\ Passed(consTail) <= Passed(consHead)
    /\ Passed(consHead) <= Passed(prodTail)
    /\ Passed(prodTail) <= Passed(prodHead)
    /\ Passed(prodHead) <= Passed(consTail) + Capacity

\* A head that was loaded is not ahead of the head, and what was granted is there,
\* since the other side's tail only goes on.
Limit(t) ==
    IF op[t] = "enq" THEN Passed(consTail) + Capacity ELSE Passed(prodTail)

CallInv ==
    \A t \in Thread :
        /\ pc[t] # "idle" => want[t] > 0
        /\ pc[t] \in {"room", "swap"} => Passed(oldHead[t]) <= Passed(Head0(t))
        /\ pc[t] = "swap" => Passed(oldHead[t]) + num[t] <= Limit(t)
        /\ pc[t] = "copy" => Passed(oldHead[t]) + num[t] <= Passed(Head0(t))

\* An index below the producer tail, or among the slots that an enqueue has written
\* already, is of a slot that holds an object: there is no other that a dequeue reads.
WrittenInv ==
    \A i \in Index : slot[SlotOf(i)] = None =>
        /\ Passed(prodTail) <= Passed(i)
        /\ \A t \in Thread : op[t] = "enq" /\ pc[t] = "copy" =>
            Passed(i) < Passed(oldHead[t]) \/ Passed(oldHead[t]) + done[t] <= Passed(i)
=============================================================================
