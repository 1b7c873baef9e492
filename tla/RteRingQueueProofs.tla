--------------------------- MODULE RteRingQueueProofs ----------------------------
(***************************************************************************)
(* The ring as a queue: under NoLap every object is in one place, and the  *)
(* overlapping calls implement BoundedQueue.  The invariant of             *)
(* RteRingProofs, which orders the indices, is strengthened by who has     *)
(* reserved which slots, what has been copied, and where each object is.   *)
(***************************************************************************)
EXTENDS RteRingProofs

\* i is an index of the slots that t has reserved.
Within(t, i) ==
    Passed(oldHead[t]) <= Passed(i) /\ Passed(i) < Passed(oldHead[t]) + num[t]

\* t has reserved slots, as a producer or a consumer.
Copying(t, o) == pc[t] = "copy" /\ op[t] = o

\* The reservations lie between tail and head, side by side, and leave no slot out.
RangeInv ==
    /\ \A t \in Thread :
        /\ Copying(t, "enq") => Passed(prodTail) <= Passed(oldHead[t])
        /\ Copying(t, "deq") => Passed(consTail) <= Passed(oldHead[t])
        /\ \A u \in Thread \ {t}, o \in {"enq", "deq"}, i \in Index :
            Copying(t, o) /\ Copying(u, o) => ~(Within(t, i) /\ Within(u, i))
    /\ \A i \in Index :
        Passed(consTail) <= Passed(i) /\ Passed(i) < Passed(consHead) =>
            \E t \in Thread : Copying(t, "deq") /\ Within(t, i)
    /\ \A i \in Index :
        Passed(prodTail) <= Passed(i) /\ Passed(i) < Passed(prodHead) =>
            \E t \in Thread : Copying(t, "enq") /\ Within(t, i)

\* What has been copied is the same in the slots and in obj_table.
CopyInv ==
    \A t \in Thread, i \in Index :
        /\ pc[t] = "copy"
        /\ Passed(oldHead[t]) <= Passed(i) /\ Passed(i) < Passed(oldHead[t]) + done[t]
        => slot[SlotOf(i)] = table[t][Passed(i) - Passed(oldHead[t]) + 1]

\* i is an index of a slot whose object is the ring's, or a dequeue's.
Held(i) == Passed(consTail) <= Passed(i) /\ Passed(i) < Passed(prodTail)

\* What t was given to enqueue, until the call returns.
Given(t) == IF op[t] = "enq" THEN In(table[t]) ELSE {}

\* A call has nothing in hand before it begins and after it has returned.
IdleInv == \A t \in Thread : pc[t] = "idle" => op[t] = "enq" /\ table[t] = <<>>

\* An object is in one place at most: outside, given to one enqueue, or in one slot
\* that is held.
ApartInv ==
    /\ \A i, j \in Index :
        Held(i) /\ Held(j) /\ slot[SlotOf(i)] = slot[SlotOf(j)] => i = j
    /\ \A i \in Index : Held(i) =>
        slot[SlotOf(i)] \notin outside /\ \A t \in Thread : slot[SlotOf(i)] \notin Given(t)
    /\ \A t \in Thread :
        /\ Given(t) \cap outside = {}
        /\ \A u \in Thread \ {t} : Given(t) \cap Given(u) = {}
        /\ op[t] = "enq" =>
            \A i, j \in 1..Len(table[t]) : table[t][i] = table[t][j] => i = j

\* And in one place at least.
NoneLost ==
    \A x \in Object :
        \/ x \in outside
        \/ \E t \in Thread : x \in Given(t)
        \/ \E i \in Index : Held(i) /\ slot[SlotOf(i)] = x

\* The inductive invariant: the order of the indices, and who has which slots and which
\* objects.
QInv == IInv /\ RangeInv /\ CopyInv /\ IdleInv /\ ApartInv /\ NoneLost

-----------------------------------------------------------------------------
(* Slots and indices.                                                      *)

\* A multiple of n that is less than n is nothing.
LEMMA MultipleLess ==
    ASSUME NEW n \in Nat, n > 0, NEW k \in Int, n * k < n, n * k > -n
    PROVE  k = 0
<1>1. CASE k >= 1
  <2>1. n * k >= n
    BY <1>1
  <2> QED
    BY <2>1
<1>2. CASE k <= -1
  <2>1. n * k <= -n
    BY <1>2
  <2> QED
    BY <2>1
<1> QED
  BY <1>1, <1>2

\* Indices that are less than the size of the ring apart have different slots.
LEMMA SlotsDiffer ==
    ASSUME NEW i \in Index, NEW j \in Index, SlotOf(i) = SlotOf(j),
           Passed(i) < Passed(j) + Size, Passed(j) < Passed(i) + Size
    PROVE  i = j
<1> DEFINE q(k) == k \div Size
<1>1. /\ Size \in Nat /\ Size > 1 /\ Word \in Nat /\ Word > Size
      /\ Start \in Nat /\ Start < Word
      /\ i \in Nat /\ i < Word /\ j \in Nat /\ j < Word
  BY SizeAssumption DEF Index
<1>2. \A k \in Nat : q(k) \in Int /\ k = Size * q(k) + (k % Size)
  BY <1>1
<1>3. Word = Size * q(Word) /\ q(Word) \in Int
  BY <1>1, <1>2, SizeAssumption
<1>4. i - j = Size * (q(i) - q(j)) /\ q(i) - q(j) \in Int
  <2>1. i = Size * q(i) + (i % Size) /\ j = Size * q(j) + (j % Size) /\ i % Size = j % Size
    BY <1>1, <1>2 DEF SlotOf
  <2>2. q(i) \in Int /\ q(j) \in Int /\ i % Size \in Int
    BY <1>1, <1>2
  <2> HIDE DEF q
  <2>3. Size * (q(i) - q(j)) = Size * q(i) - Size * q(j)
    BY <1>1, <2>2
  <2>4. Size * q(i) \in Int /\ Size * q(j) \in Int
    BY <1>1, <2>2
  <2> QED
    BY <1>1, <2>1, <2>2, <2>3, <2>4
<1>5. /\ Passed(i) = IF Start <= i THEN i - Start ELSE i + Word - Start
      /\ Passed(j) = IF Start <= j THEN j - Start ELSE j + Word - Start
  BY PassedIsWord
<1>6. \E k \in Int : Passed(i) - Passed(j) = Size * k
  <2>0. /\ i - j = Size * (q(i) - q(j)) /\ Word = Size * q(Word)
        /\ q(i) - q(j) \in Int /\ q(Word) \in Int
    BY <1>3, <1>4
  <2> DEFINE d == q(i) - q(j)
             w == q(Word)
  <2>1. i - j = Size * d /\ Word = Size * w /\ d \in Int /\ w \in Int
    BY <2>0
  <2> HIDE DEF d, w
  <2>2. Size * (d + w) = Size * d + Size * w /\ Size * (d - w) = Size * d - Size * w
    BY <1>1, <2>1
  <2>3. \/ Passed(i) - Passed(j) = i - j
        \/ Passed(i) - Passed(j) = i - j + Word
        \/ Passed(i) - Passed(j) = i - j - Word
    BY <1>1, <1>5
  <2>4. d + w \in Int /\ d - w \in Int
    BY <2>1
  <2> QED
    BY <1>1, <2>1, <2>2, <2>3, <2>4
<1>7. PICK k \in Int : Passed(i) - Passed(j) = Size * k
  BY <1>6
<1>8. /\ Passed(i) \in Nat /\ Passed(j) \in Nat /\ Size * k \in Int
      /\ Size * k < Size /\ Size * k > -Size
  BY <1>1, <1>7, PassedIsWord
<1>9. k = 0
  BY <1>1, <1>8, MultipleLess
<1>10. Passed(i) = Passed(j)
  BY <1>1, <1>7, <1>8, <1>9
<1> QED
  BY <1>10, PassedInjective

-----------------------------------------------------------------------------
(* Reservations.                                                           *)

\* The indices and the reservations stay.
Calm ==
    /\ UNCHANGED index
    /\ \A t \in Thread :
        /\ pc'[t] = "copy" <=> pc[t] = "copy"
        /\ pc[t] = "copy" => op'[t] = op[t] /\ oldHead'[t] = oldHead[t] /\ num'[t] = num[t]

\* They stay side by side then.
LEMMA CalmRange ==
    ASSUME RangeInv, Calm PROVE RangeInv'
<1>1. \A t \in Thread, o \in {"enq", "deq"} : Copying(t, o)' <=> Copying(t, o)
  BY DEF Calm, Copying
<1>2. \A t \in Thread, o \in {"enq", "deq"}, i \in Index :
        Copying(t, o) => (Within(t, i)' <=> Within(t, i)) /\ oldHead'[t] = oldHead[t]
  BY DEF Calm, Copying, Within
<1>3. UNCHANGED <<prodTail, prodHead, consTail, consHead>>
  BY DEF Calm, index
<1>4. \A t \in Thread :
        /\ Copying(t, "enq")' => Passed(prodTail') <= Passed(oldHead'[t])
        /\ Copying(t, "deq")' => Passed(consTail') <= Passed(oldHead'[t])
  BY <1>1, <1>2, <1>3 DEF RangeInv, Calm, Copying
<1>5. ASSUME NEW t \in Thread, NEW u \in Thread \ {t}, NEW o \in {"enq", "deq"},
             NEW i \in Index, Copying(t, o)', Copying(u, o)'
      PROVE  ~(Within(t, i)' /\ Within(u, i)')
  BY <1>1, <1>2, <1>5 DEF RangeInv
<1>6. ASSUME NEW i \in Index, Passed(consTail') <= Passed(i), Passed(i) < Passed(consHead')
      PROVE  \E t \in Thread : Copying(t, "deq")' /\ Within(t, i)'
  BY <1>1, <1>2, <1>3, <1>6 DEF RangeInv
<1>7. ASSUME NEW i \in Index, Passed(prodTail') <= Passed(i), Passed(i) < Passed(prodHead')
      PROVE  \E t \in Thread : Copying(t, "enq")' /\ Within(t, i)'
  BY <1>1, <1>2, <1>3, <1>7 DEF RangeInv
<1> QED
  BY <1>4, <1>5, <1>6, <1>7 DEF RangeInv

\* Reservations stay side by side between tail and head.
LEMMA RangeNext ==
    ASSUME NoLap, IInv, RangeInv, [Next]_vars PROVE RangeInv'
<1>1. ASSUME NEW t \in Thread, NEW o, NEW s, NEW k, NEW b, Call(o, s, k, b),
             Begin(t, o, s, k, b)
      PROVE  RangeInv'
  <2>1. Calm
    BY <1>1 DEF Calm, Begin, Call, request, IInv, TypeOK, IndexType, CallType
  <2> QED
    BY <2>1, CalmRange
<1>2. ASSUME NEW t \in Thread, LoadHead(t)
      PROVE  RangeInv'
  <2>1. Calm
    BY <1>2 DEF Calm, LoadHead, request, IInv, TypeOK, IndexType, CallType
  <2> QED
    BY <2>1, CalmRange
<1>3. ASSUME NEW t \in Thread, Reserve(t)
      PROVE  RangeInv'
  <2>1. Calm
    BY <1>3 DEF Calm, Reserve, request, IInv, TypeOK, IndexType, CallType
  <2> QED
    BY <2>1, CalmRange
<1>4. ASSUME NEW t \in Thread, Refuse(t)
      PROVE  RangeInv'
  <2>1. Calm
    BY <1>4 DEF Calm, Refuse, Return, request, IInv, TypeOK, IndexType, CallType
  <2> QED
    BY <2>1, CalmRange
<1>5. ASSUME NEW t \in Thread, MoveHead(t)
      PROVE  RangeInv'
  <2>1. /\ pc' = [pc EXCEPT ![t] = "copy"] /\ pc[t] = "swap"
        /\ UNCHANGED <<op, oldHead, num>> /\ op[t] \in {"enq", "deq"}
    BY <1>5 DEF MoveHead, request, IInv, TypeOK, CallType
  <2>2. \A u \in Thread, o \in {"enq", "deq"} :
            Copying(u, o)' <=> Copying(u, o) \/ (u = t /\ op[t] = o)
    BY <2>1 DEF Copying, IInv, TypeOK, CallType
  <2>3. \A u \in Thread, i \in Index : Within(u, i)' <=> Within(u, i)
    BY <2>1 DEF Within
  <2>4. UNCHANGED <<prodTail, consTail>> /\ num[t] \in Nat
    BY <1>5, HeadMoves
  <2>5. /\ op[t] = "enq" => Passed(prodTail) <= Passed(oldHead[t])
        /\ op[t] = "deq" => Passed(consTail) <= Passed(oldHead[t])
    BY <1>5, HeadMoves, Order
  <2>6. ASSUME NEW u \in Thread \ {t}, NEW i \in Index, Copying(u, op[t]), Within(u, i)
        PROVE  ~Within(t, i)
    <3>1. Passed(oldHead[u]) + num[u] <= Passed(Head0(t)) /\ num[u] \in Nat
      BY <2>6, BoundAssumption DEF Copying, IInv, TypeOK, CallType, CallInv, Head0
    <3>2. Passed(Head0(t)) = Passed(oldHead[t]) /\ Passed(i) \in Nat
      BY <1>5, <2>1, HeadMoves, PassedIsWord DEF Head0
    <3> QED
      BY <2>6, <3>1, <3>2, Order DEF Within
  <2>7. ASSUME NEW i \in Index, Passed(consTail) <= Passed(i), Passed(i) < Passed(consHead')
        PROVE  \E u \in Thread : Copying(u, "deq")' /\ Within(u, i)
    <3>1. CASE Passed(i) < Passed(consHead)
      BY <2>2, <2>7, <3>1 DEF RangeInv
    <3>2. CASE ~(Passed(i) < Passed(consHead))
      <4>1. op[t] = "deq"
        BY <1>5, <2>1, <2>7, <3>2, HeadMoves
      <4>2. Within(t, i)
        BY <1>5, <2>7, <3>2, <4>1, HeadMoves, Order, PassedIsWord DEF Within
      <4> QED
        BY <2>2, <4>1, <4>2
    <3> QED
      BY <3>1, <3>2
  <2>8. \A u \in Thread : /\ Copying(u, "enq")' => Passed(prodTail) <= Passed(oldHead[u])
                          /\ Copying(u, "deq")' => Passed(consTail) <= Passed(oldHead[u])
    BY <2>2, <2>5 DEF RangeInv
  <2>9. ASSUME NEW u \in Thread, NEW v \in Thread \ {u}, NEW o \in {"enq", "deq"},
               NEW i \in Index, Copying(u, o)', Copying(v, o)'
        PROVE  ~(Within(u, i) /\ Within(v, i))
    <3>1. CASE u = t
      BY <2>1, <2>2, <2>6, <2>9, <3>1 DEF Copying
    <3>2. CASE v = t
      BY <2>1, <2>2, <2>6, <2>9, <3>2 DEF Copying
    <3>3. CASE u # t /\ v # t
      BY <2>2, <2>9, <3>3 DEF RangeInv
    <3> QED
      BY <3>1, <3>2, <3>3
  <2>10. ASSUME NEW i \in Index, Passed(prodTail) <= Passed(i), Passed(i) < Passed(prodHead')
        PROVE  \E u \in Thread : Copying(u, "enq")' /\ Within(u, i)
    <3>1. CASE Passed(i) < Passed(prodHead)
      BY <2>2, <2>10, <3>1 DEF RangeInv
    <3>2. CASE ~(Passed(i) < Passed(prodHead))
      <4>1. op[t] = "enq"
        BY <1>5, <2>1, <2>10, <3>2, HeadMoves
      <4>2. Within(t, i)
        BY <1>5, <2>10, <3>2, <4>1, HeadMoves, Order, PassedIsWord DEF Within
      <4> QED
        BY <2>2, <4>1, <4>2
    <3> QED
      BY <3>1, <3>2
  <2> QED
    BY <2>1, <2>3, <2>4, <2>7, <2>8, <2>9, <2>10 DEF RangeInv
<1>6. ASSUME NEW t \in Thread, Retry(t)
      PROVE  RangeInv'
  <2>1. Calm
    BY <1>6 DEF Calm, Retry, request, IInv, TypeOK, IndexType, CallType
  <2> QED
    BY <2>1, CalmRange
<1>7. ASSUME NEW t \in Thread, StoreElement(t)
      PROVE  RangeInv'
  <2>1. Calm
    BY <1>7 DEF Calm, StoreElement, request, IInv, TypeOK, IndexType, CallType
  <2> QED
    BY <2>1, CalmRange
<1>8. ASSUME NEW t \in Thread, LoadElement(t)
      PROVE  RangeInv'
  <2>1. Calm
    BY <1>8 DEF Calm, LoadElement, request, IInv, TypeOK, IndexType, CallType
  <2> QED
    BY <2>1, CalmRange
<1>9. ASSUME NEW t \in Thread, UpdateTail(t)
      PROVE  RangeInv'
  <2>1. /\ pc' = [pc EXCEPT ![t] = "idle"] /\ pc[t] = "copy"
        /\ op' = [op EXCEPT ![t] = "enq"] /\ oldHead' = [oldHead EXCEPT ![t] = 0]
        /\ num' = [num EXCEPT ![t] = 0] /\ op[t] \in {"enq", "deq"}
    BY <1>9 DEF UpdateTail, Return, IInv, TypeOK, CallType
  <2>2. \A u \in Thread, o \in {"enq", "deq"} :
            Copying(u, o)' <=> Copying(u, o) /\ u # t
    BY <2>1 DEF Copying, IInv, TypeOK, CallType
  <2>3. \A u \in Thread \ {t} : oldHead'[u] = oldHead[u] /\ num'[u] = num[u]
    BY <2>1 DEF IInv, TypeOK, CallType, IndexType
  <2>4. \A u \in Thread \ {t}, i \in Index : Within(u, i)' <=> Within(u, i)
    BY <2>3 DEF Within
  <2>5. ASSUME NEW u \in Thread \ {t}, Copying(u, op[t])
        PROVE  Passed(oldHead[t]) + num[t] <= Passed(oldHead[u])
    <3>1. oldHead[u] \in Index /\ num[u] \in Nat /\ num[u] > 0 /\ num[t] \in Nat
      BY <2>1, <2>5, BoundAssumption DEF IInv, TypeOK, IndexType, CallType, Copying
    <3>2. Within(u, oldHead[u]) /\ Copying(t, op[t])
      BY <2>1, <3>1, Order DEF Within, Copying
    <3>3. ~Within(t, oldHead[u])
      BY <2>1, <2>5, <3>1, <3>2 DEF RangeInv
    <3>4. Passed(oldHead[t]) <= Passed(oldHead[u])
      BY <1>9, <2>1, <2>5, TailMoves DEF RangeInv, Copying
    <3> QED
      BY <3>1, <3>3, <3>4, Order DEF Within
  <2>6. \A u \in Thread \ {t} :
            /\ Copying(u, "enq") => Passed(prodTail') <= Passed(oldHead[u])
            /\ Copying(u, "deq") => Passed(consTail') <= Passed(oldHead[u])
    BY <1>9, <2>1, <2>5, TailMoves DEF RangeInv
  <2>7. ASSUME NEW i \in Index, Passed(consTail') <= Passed(i), Passed(i) < Passed(consHead)
        PROVE  \E u \in Thread \ {t} : Copying(u, "deq") /\ Within(u, i)
    <3>1. Passed(consTail) <= Passed(i)
      BY <1>9, <2>1, <2>7, TailMoves, Order, PassedIsWord
    <3>2. PICK u \in Thread : Copying(u, "deq") /\ Within(u, i)
      BY <2>7, <3>1 DEF RangeInv
    <3>3. u # t
      BY <1>9, <2>7, <3>2, TailMoves, Order, PassedIsWord DEF Within, Copying
    <3> QED
      BY <3>2, <3>3
  <2>8. consHead' = consHead /\ prodHead' = prodHead
    BY <1>9, TailMoves
  <2>9. \A u \in Thread : /\ Copying(u, "enq")' => Passed(prodTail') <= Passed(oldHead'[u])
                          /\ Copying(u, "deq")' => Passed(consTail') <= Passed(oldHead'[u])
    BY <2>2, <2>3, <2>6
  <2>10. ASSUME NEW u \in Thread, NEW v \in Thread \ {u}, NEW o \in {"enq", "deq"},
                NEW i \in Index, Copying(u, o)', Copying(v, o)'
         PROVE  ~(Within(u, i)' /\ Within(v, i)')
    BY <2>2, <2>4, <2>10 DEF RangeInv
  <2>11. ASSUME NEW i \in Index, Passed(consTail') <= Passed(i), Passed(i) < Passed(consHead')
         PROVE  \E u \in Thread : Copying(u, "deq")' /\ Within(u, i)'
    BY <2>2, <2>4, <2>7, <2>8, <2>11
  <2>12. ASSUME NEW i \in Index, Passed(prodTail') <= Passed(i), Passed(i) < Passed(prodHead)
        PROVE  \E u \in Thread \ {t} : Copying(u, "enq") /\ Within(u, i)
    <3>1. Passed(prodTail) <= Passed(i)
      BY <1>9, <2>1, <2>12, TailMoves, Order, PassedIsWord
    <3>2. PICK u \in Thread : Copying(u, "enq") /\ Within(u, i)
      BY <2>12, <3>1 DEF RangeInv
    <3>3. u # t
      BY <1>9, <2>12, <3>2, TailMoves, Order, PassedIsWord DEF Within, Copying
    <3> QED
      BY <3>2, <3>3
  <2>13. ASSUME NEW i \in Index, Passed(prodTail') <= Passed(i), Passed(i) < Passed(prodHead')
         PROVE  \E u \in Thread : Copying(u, "enq")' /\ Within(u, i)'
    BY <2>2, <2>4, <2>12, <2>8, <2>13
  <2> QED
    BY <2>9, <2>10, <2>11, <2>13 DEF RangeInv
<1>10. ASSUME NEW t \in Thread, Kill(t)
      PROVE  RangeInv'
  <2>1. Calm
    BY <1>10 DEF Calm, Kill, request, IInv, TypeOK, IndexType, CallType
  <2> QED
    BY <2>1, CalmRange
<1>11. CASE UNCHANGED vars
  BY <1>11, CalmRange DEF vars, Calm, request
<1> QED
  BY <1>1, <1>2, <1>3, <1>4, <1>5, <1>6, <1>7, <1>8, <1>9, <1>10, <1>11,
     CallOfEnqueue, CallOfDequeue
     DEF Next, NextWith, Step, Enqueue, Dequeue

-----------------------------------------------------------------------------
(* Copies.                                                                 *)

\* The slots stay, and what calls have copied.
Quiet ==
    /\ UNCHANGED slot
    /\ \A t \in Thread : pc'[t] = "copy" /\ done'[t] > 0 =>
        /\ pc[t] = "copy" /\ oldHead'[t] = oldHead[t]
        /\ done'[t] = done[t] /\ table'[t] = table[t]

\* What has been copied stays the same then.
LEMMA QuietCopy ==
    ASSUME IInv, IInv', CopyInv, Quiet PROVE CopyInv'
<1> SUFFICES ASSUME NEW t \in Thread, NEW i \in Index, pc'[t] = "copy",
                    Passed(oldHead'[t]) <= Passed(i),
                    Passed(i) < Passed(oldHead'[t]) + done'[t]
             PROVE  slot'[SlotOf(i)] = table'[t][Passed(i) - Passed(oldHead'[t]) + 1]
  BY DEF CopyInv
<1>1. done'[t] > 0
  <2>1. done'[t] \in Nat /\ oldHead'[t] \in Index
    BY BoundAssumption DEF IInv, TypeOK, CallType, IndexType
  <2> QED
    BY <2>1, PassedIsWord
<1> QED
  BY <1>1 DEF Quiet, CopyInv

\* An object is stored in the slot of its index, and no slot of another index that is
\* held or about to be changes.
LEMMA Stores ==
    ASSUME NoLap, IInv, RangeInv, NEW t \in Thread, StoreElement(t)
    PROVE  \E j \in Index :
              /\ j = Plus(oldHead[t], done[t])
              /\ Passed(j) = Passed(oldHead[t]) + done[t]
              /\ Within(t, j) /\ Passed(prodTail) <= Passed(j)
              /\ slot'[SlotOf(j)] = table[t][done[t] + 1]
              /\ \A i \in Index : i # j /\ Passed(consTail) <= Passed(i)
                                        /\ Passed(i) < Passed(prodHead) =>
                    slot'[SlotOf(i)] = slot[SlotOf(i)]
<1> DEFINE j == Plus(oldHead[t], done[t])
<1>1. /\ slot' = [slot EXCEPT ![SlotOf(j)] = table[t][done[t] + 1]]
      /\ done[t] < num[t] /\ pc[t] = "copy" /\ op[t] = "enq"
  BY DEF StoreElement
<1>2. /\ j \in Index /\ Passed(j) = Passed(oldHead[t]) + done[t]
      /\ Passed(j) < Passed(prodHead) /\ Passed(prodTail) <= Passed(oldHead[t])
      /\ done[t] \in Nat /\ num[t] \in Nat
  BY <1>1, CopyIndex, BoundAssumption
     DEF Head0, RangeInv, Copying, IInv, TypeOK, CallType
<1> HIDE DEF j
<1>3. slot'[SlotOf(j)] = table[t][done[t] + 1]
  BY <1>1, <1>2, SlotOfIndex DEF IInv, TypeOK, ObjectType
<1>4. Within(t, j) /\ Passed(prodTail) <= Passed(j)
  BY <1>1, <1>2, Order DEF Within
<1>5. ASSUME NEW i \in Index, i # j, Passed(consTail) <= Passed(i), Passed(i) < Passed(prodHead)
      PROVE  slot'[SlotOf(i)] = slot[SlotOf(i)]
  <2>1. Size \in Nat /\ Capacity = Size - 1 /\ Passed(i) \in Nat /\ Passed(j) \in Nat
    BY <1>2, SizeAssumption, PassedIsWord DEF Capacity
  <2>2. Passed(i) < Passed(j) + Size /\ Passed(j) < Passed(i) + Size
    BY <1>2, <1>4, <1>5, <2>1, Order
  <2>3. SlotOf(i) # SlotOf(j)
    BY <1>2, <1>5, <2>2, SlotsDiffer
  <2> QED
    BY <1>1, <2>3, SlotOfIndex DEF IInv, TypeOK, ObjectType
<1> QED
  BY <1>2, <1>3, <1>4, <1>5 DEF j

\* Slots and tables agree on what has been copied.
LEMMA CopyNext ==
    ASSUME NoLap, IInv, IInv', RangeInv, CopyInv, [Next]_vars PROVE CopyInv'
<1>1. ASSUME NEW t \in Thread, NEW o, NEW s, NEW k, NEW b, Call(o, s, k, b),
             Begin(t, o, s, k, b)
      PROVE  CopyInv'
  <2>1. Quiet
    BY <1>1 DEF Quiet, Begin, Call, request, IInv, TypeOK, IndexType, CallType, ObjectType
  <2> QED
    BY <2>1, QuietCopy
<1>2. ASSUME NEW t \in Thread, LoadHead(t)
      PROVE  CopyInv'
  <2>1. Quiet
    BY <1>2 DEF Quiet, LoadHead, request, IInv, TypeOK, IndexType, CallType, ObjectType
  <2> QED
    BY <2>1, QuietCopy
<1>3. ASSUME NEW t \in Thread, Reserve(t)
      PROVE  CopyInv'
  <2>1. Quiet
    BY <1>3 DEF Quiet, Reserve, request, IInv, TypeOK, IndexType, CallType, ObjectType
  <2> QED
    BY <2>1, QuietCopy
<1>4. ASSUME NEW t \in Thread, Refuse(t)
      PROVE  CopyInv'
  <2>1. Quiet
    BY <1>4 DEF Quiet, Refuse, Return, request, IInv, TypeOK, IndexType, CallType, ObjectType
  <2> QED
    BY <2>1, QuietCopy
<1>5. ASSUME NEW t \in Thread, MoveHead(t)
      PROVE  CopyInv'
  <2>1. Quiet
    BY <1>5 DEF Quiet, MoveHead, request, IInv, TypeOK, IndexType, CallType, ObjectType
  <2> QED
    BY <2>1, QuietCopy
<1>6. ASSUME NEW t \in Thread, Retry(t)
      PROVE  CopyInv'
  <2>1. Quiet
    BY <1>6 DEF Quiet, Retry, request, IInv, TypeOK, IndexType, CallType, ObjectType
  <2> QED
    BY <2>1, QuietCopy
<1>7. ASSUME NEW t \in Thread, StoreElement(t)
      PROVE  CopyInv'
  <2>1. /\ done' = [done EXCEPT ![t] = done[t] + 1] /\ pc[t] = "copy" /\ op[t] = "enq"
        /\ UNCHANGED <<pc, op, oldHead, num, table>>
    BY <1>7 DEF StoreElement, request
  <2>2. PICK j \in Index :
              /\ Passed(j) = Passed(oldHead[t]) + done[t]
              /\ Within(t, j) /\ Passed(prodTail) <= Passed(j)
              /\ slot'[SlotOf(j)] = table[t][done[t] + 1]
              /\ \A i \in Index : i # j /\ Passed(consTail) <= Passed(i)
                                        /\ Passed(i) < Passed(prodHead) =>
                    slot'[SlotOf(i)] = slot[SlotOf(i)]
    BY <1>7, Stores
  <2> SUFFICES ASSUME NEW u \in Thread, NEW i \in Index, pc[u] = "copy",
                      Passed(oldHead[u]) <= Passed(i),
                      Passed(i) < Passed(oldHead[u]) + done'[u]
               PROVE  slot'[SlotOf(i)] = table[u][Passed(i) - Passed(oldHead[u]) + 1]
    BY <2>1 DEF CopyInv
  <2>3. /\ Passed(i) \in Nat /\ done[u] \in Nat /\ num[u] \in Nat /\ done[u] <= num[u]
        /\ op[u] \in {"enq", "deq"} /\ done[t] \in Nat /\ Passed(oldHead[u]) \in Nat
        /\ done'[t] = done[t] + 1 /\ (u # t => done'[u] = done[u])
    BY <2>1, PassedIsWord, BoundAssumption, Order DEF IInv, TypeOK, CallType
  <2>4. CASE i = j /\ u = t
    <3>1. Passed(i) - Passed(oldHead[u]) + 1 = done[t] + 1
      BY <2>2, <2>3, <2>4, Order
    <3> QED
      BY <2>2, <2>4, <3>1
  <2>5. CASE i = j /\ u # t
    <3>1. Within(u, i)
      BY <2>3, <2>5 DEF Within
    <3>2. CASE op[u] = "enq"
      BY <2>1, <2>2, <2>5, <3>1, <3>2 DEF RangeInv, Copying
    <3>3. CASE op[u] = "deq"
      <4>1. Passed(oldHead[u]) + num[u] <= Passed(consHead)
        BY <3>3 DEF IInv, CallInv, Head0
      <4> QED
        BY <2>2, <2>3, <2>5, <3>1, <4>1, Order DEF Within
    <3> QED
      BY <2>3, <3>2, <3>3
  <2>6. CASE i # j
    <3>1. Passed(i) < Passed(oldHead[u]) + done[u]
      <4>1. CASE u = t
        <5>1. Passed(i) # Passed(j)
          BY <2>6, PassedInjective
        <5> QED
          BY <2>2, <2>3, <4>1, <5>1, Order
      <4>2. CASE u # t
        BY <2>3, <4>2
      <4> QED
        BY <4>1, <4>2
    <3>2. Passed(consTail) <= Passed(oldHead[u]) /\ Passed(oldHead[u]) + num[u] <= Passed(prodHead)
      <4>1. CASE op[u] = "enq"
        BY <4>1, Order DEF IInv, CallInv, Head0, RangeInv, Copying
      <4>2. CASE op[u] = "deq"
        <5>1. /\ Passed(consTail) <= Passed(oldHead[u])
              /\ Passed(oldHead[u]) + num[u] <= Passed(consHead)
          BY <4>2 DEF IInv, CallInv, Head0, RangeInv, Copying
        <5> QED
          BY <2>3, <5>1, Order
      <4> QED
        BY <2>3, <4>1, <4>2
    <3>3. slot'[SlotOf(i)] = slot[SlotOf(i)]
      BY <2>2, <2>3, <2>6, <3>1, <3>2, Order
    <3> QED
      BY <3>1, <3>3 DEF CopyInv
  <2> QED
    BY <2>4, <2>5, <2>6
<1>8. ASSUME NEW t \in Thread, LoadElement(t)
      PROVE  CopyInv'
  <2> DEFINE j == Plus(oldHead[t], done[t])
             s == Append(table[t], slot[SlotOf(j)])
  <2>1. /\ done' = [done EXCEPT ![t] = done[t] + 1] /\ table' = [table EXCEPT ![t] = s]
        /\ pc[t] = "copy" /\ op[t] = "deq" /\ done[t] < num[t]
        /\ UNCHANGED <<pc, oldHead, slot>>
    BY <1>8 DEF LoadElement
  <2>2. /\ table[t] \in Seq(Object) /\ Len(table[t]) = done[t] /\ done[t] \in Nat
    <3>1. table[t] \in Seq(Object)
      BY DEF IInv, TypeOK, ObjectType
    <3>2. Len(table[t]) = done[t]
      BY <2>1 DEF IInv, TypeOK, ObjectType
    <3>3. done[t] \in Nat
      BY BoundAssumption DEF IInv, TypeOK, CallType
    <3> QED
      BY <3>1, <3>2, <3>3
  <2>3. /\ \A k \in 1..done[t] : s[k] = table[t][k]
        /\ s[done[t] + 1] = slot[SlotOf(j)]
    BY <1>8, <2>2, LoadsObject, AppendProperties
  <2>4. j \in Index /\ Passed(j) = Passed(oldHead[t]) + done[t]
    BY <2>1, CopyIndex
  <2> HIDE DEF j, s
  <2> SUFFICES ASSUME NEW u \in Thread, NEW i \in Index, pc[u] = "copy",
                      Passed(oldHead[u]) <= Passed(i),
                      Passed(i) < Passed(oldHead[u]) + done'[u]
               PROVE  slot[SlotOf(i)] = table'[u][Passed(i) - Passed(oldHead[u]) + 1]
    BY <2>1 DEF CopyInv
  <2>5. CASE u # t
    <3>1. done'[u] = done[u] /\ table'[u] = table[u]
      BY <2>1, <2>5 DEF IInv, TypeOK, CallType, ObjectType
    <3> QED
      BY <3>1 DEF CopyInv
  <2>6. CASE u = t
    <3>1. done'[u] = done[t] + 1 /\ table'[u] = s
      BY <2>1, <2>6 DEF IInv, TypeOK, CallType, ObjectType
    <3>2. Passed(i) \in Nat /\ Passed(oldHead[t]) \in Nat
      BY PassedIsWord, Order
    <3>3. CASE Passed(i) = Passed(j)
      <4>1. i = j
        BY <2>4, <3>3, PassedInjective
      <4>2. Passed(i) - Passed(oldHead[t]) + 1 = done[t] + 1
        BY <2>2, <2>4, <3>2, <3>3
      <4> QED
        BY <2>3, <2>6, <3>1, <4>1, <4>2
    <3>4. CASE Passed(i) # Passed(j)
      <4> DEFINE k == Passed(i) - Passed(oldHead[t]) + 1
      <4>1. Passed(i) < Passed(oldHead[t]) + done[t] /\ k \in 1..done[t]
        <5>1. /\ Passed(oldHead[t]) <= Passed(i)
              /\ Passed(i) < Passed(oldHead[t]) + (done[t] + 1)
              /\ Passed(i) # Passed(oldHead[t]) + done[t]
          BY <2>4, <2>6, <3>1, <3>4
        <5> QED
          BY <2>2, <3>2, <5>1
      <4>2. slot[SlotOf(i)] = table[t][k]
        BY <2>1, <2>6, <4>1 DEF CopyInv
      <4> QED
        BY <2>3, <2>6, <3>1, <4>1, <4>2
    <3> QED
      BY <3>3, <3>4
  <2> QED
    BY <2>5, <2>6
<1>9. ASSUME NEW t \in Thread, UpdateTail(t)
      PROVE  CopyInv'
  <2>1. /\ UNCHANGED slot
        /\ pc' = [pc EXCEPT ![t] = "idle"] /\ oldHead' = [oldHead EXCEPT ![t] = 0]
        /\ done' = [done EXCEPT ![t] = 0] /\ table' = [table EXCEPT ![t] = <<>>]
    <3>1. \E back : Return(t, back)
      BY <1>9 DEF UpdateTail
    <3>2. UNCHANGED slot
      BY <1>9 DEF UpdateTail
    <3> QED
      BY <3>1, <3>2 DEF Return
  <2>2. /\ DOMAIN pc = Thread /\ DOMAIN oldHead = Thread
        /\ DOMAIN done = Thread /\ DOMAIN table = Thread
    BY DEF IInv, TypeOK, IndexType, CallType, ObjectType
  <2>3. Quiet
    BY <2>1, <2>2 DEF Quiet
  <2> QED
    BY <2>3, QuietCopy
<1>10. ASSUME NEW t \in Thread, Kill(t)
      PROVE  CopyInv'
  <2>1. Quiet
    BY <1>10 DEF Quiet, Kill, request, IInv, TypeOK, IndexType, CallType, ObjectType
  <2> QED
    BY <2>1, QuietCopy
<1>11. CASE UNCHANGED vars
  BY <1>11, QuietCopy DEF vars, Quiet
<1> QED
  BY <1>1, <1>2, <1>3, <1>4, <1>5, <1>6, <1>7, <1>8, <1>9, <1>10, <1>11,
     CallOfEnqueue, CallOfDequeue
     DEF Next, NextWith, Step, Enqueue, Dequeue

-----------------------------------------------------------------------------
(* Owners.                                                                 *)

\* The elements of a table are those at its places.
LEMMA ElementsOf ==
    ASSUME NEW S, NEW s \in Seq(S)
    PROVE  /\ DOMAIN s = 1..Len(s) /\ Len(s) \in Nat
           /\ \A x : x \in In(s) <=> \E k \in 1..Len(s) : s[k] = x
BY LenProperties DEF In

\* Nothing is in an empty table.
LEMMA NothingIn == In(<<>>) = {}
<1>1. <<>> \in Seq({}) /\ Len(<<>>) = 0
  BY EmptySeq
<1>2. \A x : x \in In(<<>>) <=> \E k \in 1..Len(<<>>) : <<>>[k] = x
  BY <1>1, ElementsOf
<1>3. 1..Len(<<>>) = {}
  BY <1>1
<1> QED
  BY <1>2, <1>3

\* The places of a table that is full are the indices of the reservation, in order.
LEMMA Copied ==
    ASSUME NoLap, IInv, CopyInv, NEW t \in Thread, pc[t] = "copy", done[t] = num[t]
    PROVE  /\ \A i \in Index : Within(t, i) =>
                \E k \in 1..num[t] : /\ Passed(i) = Passed(oldHead[t]) + k - 1
                                     /\ slot[SlotOf(i)] = table[t][k]
           /\ \A k \in 1..num[t] : \E i \in Index :
                Within(t, i) /\ slot[SlotOf(i)] = table[t][k]
<1>1. /\ num[t] \in Nat /\ oldHead[t] \in Index /\ Passed(oldHead[t]) \in Nat
      /\ Passed(oldHead[t]) + num[t] <= Passed(Head0(t))
  BY BoundAssumption, Order DEF IInv, TypeOK, IndexType, CallType, CallInv
<1>2. Passed(Head0(t)) \in Nat /\ Passed(Head0(t)) < Word /\ Word \in Nat
  BY Order, PassedBound DEF Head0
<1>3. ASSUME NEW i \in Index, Within(t, i)
      PROVE  /\ Passed(i) - Passed(oldHead[t]) + 1 \in 1..num[t] /\ Passed(i) \in Nat
             /\ slot[SlotOf(i)] = table[t][Passed(i) - Passed(oldHead[t]) + 1]
  BY <1>1, <1>3, PassedIsWord DEF Within, CopyInv
<1>4. ASSUME NEW i \in Index, Within(t, i)
      PROVE  \E k \in 1..num[t] : /\ Passed(i) = Passed(oldHead[t]) + k - 1
                                  /\ slot[SlotOf(i)] = table[t][k]
  <2> DEFINE k == Passed(i) - Passed(oldHead[t]) + 1
  <2>1. k \in 1..num[t] /\ slot[SlotOf(i)] = table[t][k] /\ Passed(i) \in Nat
    BY <1>3, <1>4
  <2>2. Passed(i) = Passed(oldHead[t]) + k - 1
    BY <1>1, <2>1
  <2> QED
    BY <2>1, <2>2
<1>5. ASSUME NEW k \in 1..num[t]
      PROVE  \E i \in Index : Within(t, i) /\ slot[SlotOf(i)] = table[t][k]
  <2> DEFINE i == Plus(oldHead[t], k - 1)
  <2>1. k - 1 \in Nat /\ k \in Nat /\ k <= num[t] /\ Passed(oldHead[t]) + (k - 1) < Word
    BY <1>1, <1>2
  <2>2. i \in Index /\ Passed(i) = Passed(oldHead[t]) + (k - 1)
    BY <1>1, <2>1, Words, PassedPlus
  <2> HIDE DEF i
  <2>3. Within(t, i) /\ Passed(i) - Passed(oldHead[t]) + 1 = k
    BY <1>1, <2>1, <2>2 DEF Within
  <2>4. slot[SlotOf(i)] = table[t][k]
    BY <1>3, <2>2, <2>3
  <2> QED
    BY <2>2, <2>3, <2>4
<1> QED
  BY <1>4, <1>5

\* No object changes hands.
Settled ==
    /\ \A i \in Index : /\ Held(i)' <=> Held(i)
                        /\ Held(i) => slot'[SlotOf(i)] = slot[SlotOf(i)]
    /\ outside' = outside
    /\ \A t \in Thread : /\ Given(t)' = Given(t)
                         /\ op'[t] = "enq" /\ table'[t] # <<>> =>
                                op[t] = "enq" /\ table'[t] = table[t]

\* Each object is in one place at most then.
LEMMA SettledApart ==
    ASSUME ApartInv, Settled PROVE ApartInv'
<1>1. ASSUME NEW i \in Index, NEW j \in Index, Held(i)', Held(j)',
             slot'[SlotOf(i)] = slot'[SlotOf(j)]
      PROVE  i = j
  BY <1>1 DEF Settled, ApartInv
<1>2. ASSUME NEW i \in Index, Held(i)'
      PROVE  /\ slot'[SlotOf(i)] \notin outside'
             /\ \A t \in Thread : slot'[SlotOf(i)] \notin Given(t)'
  BY <1>2 DEF Settled, ApartInv
<1>3. ASSUME NEW t \in Thread
      PROVE  /\ Given(t)' \cap outside' = {}
             /\ \A u \in Thread \ {t} : Given(t)' \cap Given(u)' = {}
  BY DEF Settled, ApartInv
<1>4. ASSUME NEW t \in Thread, op'[t] = "enq",
             NEW i \in 1..Len(table'[t]), NEW j \in 1..Len(table'[t]),
             table'[t][i] = table'[t][j]
      PROVE  i = j
  <2>1. CASE table'[t] = <<>>
    <3>1. Len(table'[t]) = 0
      BY <2>1, EmptySeq
    <3> QED
      BY <1>4, <3>1
  <2>2. CASE table'[t] # <<>>
    BY <1>4, <2>2 DEF Settled, ApartInv
  <2> QED
    BY <2>1, <2>2
<1> QED
  BY <1>1, <1>2, <1>3, <1>4 DEF ApartInv

\* And in one place at least.
LEMMA SettledNone ==
    ASSUME NoneLost, Settled PROVE NoneLost'
BY DEF NoneLost, Settled

\* The steps inside a call hand nothing over.
LEMMA InsideCall ==
    ASSUME NoLap, IInv, RangeInv, NEW t \in Thread,
           \/ LoadHead(t) \/ Reserve(t) \/ MoveHead(t) \/ Retry(t) \/ Kill(t)
           \/ StoreElement(t) \/ LoadElement(t)
    PROVE  Settled
<1>1. UNCHANGED <<prodTail, consTail, op, outside>>
  BY DEF LoadHead, Reserve, MoveHead, Retry, Kill, StoreElement, LoadElement, index, request
<1>2. \A u \in Thread : op[u] = "enq" => table'[u] = table[u]
  BY DEF LoadHead, Reserve, MoveHead, Retry, Kill, StoreElement, LoadElement,
         IInv, TypeOK, ObjectType
<1>3. \A u \in Thread : Given(u)' = Given(u)
  BY <1>1, <1>2 DEF Given
<1>4. ASSUME NEW i \in Index, Held(i) PROVE slot'[SlotOf(i)] = slot[SlotOf(i)]
  <2>1. CASE StoreElement(t)
    <3>1. Passed(i) \in Nat
      BY PassedIsWord
    <3>2. \A j \in Index : Passed(prodTail) <= Passed(j) => i # j
      BY <1>4, <3>1, Order DEF Held
    <3>3. Passed(consTail) <= Passed(i) /\ Passed(i) < Passed(prodHead)
      BY <1>4, <3>1, Order DEF Held
    <3> QED
      BY <2>1, <3>2, <3>3, Stores
  <2>2. CASE ~StoreElement(t)
    BY <2>2 DEF LoadHead, Reserve, MoveHead, Retry, Kill, LoadElement
  <2> QED
    BY <2>1, <2>2
<1>5. \A i \in Index : Held(i)' <=> Held(i)
  BY <1>1 DEF Held
<1> QED
  BY <1>1, <1>2, <1>3, <1>4, <1>5 DEF Settled

\* A call leaves nothing behind.
LEMMA IdleNext ==
    ASSUME IInv, IdleInv, [Next]_vars PROVE IdleInv'
<1>1. ASSUME NEW t \in Thread, NEW o, NEW s, NEW k, NEW b, Call(o, s, k, b),
             Begin(t, o, s, k, b)
      PROVE  IdleInv'
  BY <1>1 DEF Begin, Call, IdleInv, request, IInv, TypeOK, CallType, ObjectType
<1>2. ASSUME NEW t \in Thread, LoadHead(t)
      PROVE  IdleInv'
  BY <1>2 DEF LoadHead, IdleInv, request, IInv, TypeOK, CallType, ObjectType
<1>3. ASSUME NEW t \in Thread, Reserve(t)
      PROVE  IdleInv'
  BY <1>3 DEF Reserve, IdleInv, request, IInv, TypeOK, CallType, ObjectType
<1>4. ASSUME NEW t \in Thread, Refuse(t)
      PROVE  IdleInv'
  BY <1>4 DEF Refuse, Return, IdleInv, request, IInv, TypeOK, CallType, ObjectType
<1>5. ASSUME NEW t \in Thread, MoveHead(t)
      PROVE  IdleInv'
  BY <1>5 DEF MoveHead, IdleInv, request, IInv, TypeOK, CallType, ObjectType
<1>6. ASSUME NEW t \in Thread, Retry(t)
      PROVE  IdleInv'
  BY <1>6 DEF Retry, IdleInv, request, IInv, TypeOK, CallType, ObjectType
<1>7. ASSUME NEW t \in Thread, StoreElement(t)
      PROVE  IdleInv'
  BY <1>7 DEF StoreElement, IdleInv, request, IInv, TypeOK, CallType, ObjectType
<1>8. ASSUME NEW t \in Thread, LoadElement(t)
      PROVE  IdleInv'
  BY <1>8 DEF LoadElement, IdleInv, request, IInv, TypeOK, CallType, ObjectType
<1>9. ASSUME NEW t \in Thread, UpdateTail(t)
      PROVE  IdleInv'
  BY <1>9 DEF UpdateTail, Return, IdleInv, request, IInv, TypeOK, CallType, ObjectType
<1>10. ASSUME NEW t \in Thread, Kill(t)
      PROVE  IdleInv'
  BY <1>10 DEF Kill, IdleInv, request, IInv, TypeOK, CallType, ObjectType
<1>11. CASE UNCHANGED vars
  BY <1>11 DEF vars, request, IdleInv
<1> QED
  BY <1>1, <1>2, <1>3, <1>4, <1>5, <1>6, <1>7, <1>8, <1>9, <1>10, <1>11,
     CallOfEnqueue, CallOfDequeue
     DEF Next, NextWith, Step, Enqueue, Dequeue

\* The other threads keep what they have.
Others(t) ==
    \A u \in Thread \ {t} :
        Given(u)' = Given(u) /\ op'[u] = op[u] /\ table'[u] = table[u]

\* The ring keeps what it has.
Still ==
    /\ \A i \in Index : Held(i)' <=> Held(i)
    /\ UNCHANGED slot

\* What an enqueue is given was outside.
LEMMA Begins ==
    ASSUME IInv, IdleInv, NEW t \in Thread, NEW o, NEW s, NEW k, NEW b,
           Call(o, s, k, b), Begin(t, o, s, k, b)
    PROVE  /\ Still /\ Others(t) /\ Given(t) = {}
           /\ Given(t)' = In(s) /\ In(s) \subseteq outside
           /\ outside' = outside \ In(s) /\ table'[t] = s
           /\ \A i, j \in 1..Len(s) : s[i] = s[j] => i = j
<1>1. /\ op' = [op EXCEPT ![t] = o] /\ table' = [table EXCEPT ![t] = s]
      /\ outside' = outside \ In(s) /\ pc[t] = "idle"
      /\ UNCHANGED <<slot, consTail, prodTail>>
  BY DEF Begin, index
<1>2. op'[t] = o /\ table'[t] = s /\ o \in {"enq", "deq"}
  BY <1>1 DEF Call, IInv, TypeOK, CallType, ObjectType
<1>3. /\ In(s) \subseteq outside
      /\ \A i, j \in 1..Len(s) : s[i] = s[j] => i = j
  <2>1. CASE o = "enq"
    <3>1. s \in Table(outside) /\ s \in Seq(Object)
      BY <2>1 DEF Call
    <3>2. PICK n \in 1..MaxBulk : s \in [1..n -> outside]
      BY <3>1 DEF Table
    <3>3. DOMAIN s = 1..Len(s)
      BY <3>1, LenProperties
    <3>4. \A i, j \in 1..Len(s) : s[i] = s[j] => i = j
      BY <3>1, <3>3 DEF Table
    <3>5. In(s) \subseteq outside
      BY <3>2 DEF In
    <3> QED
      BY <3>4, <3>5
  <2>2. CASE o = "deq"
    <3>1. s = <<>> /\ Len(s) = 0
      BY <2>2, EmptySeq DEF Call
    <3> QED
      BY <3>1, NothingIn
  <2> QED
    BY <1>2, <2>1, <2>2
<1>4. Given(t) = {}
  BY <1>1, NothingIn DEF IdleInv, Given
<1>5. Given(t)' = In(s)
  <2>1. o = "deq" => In(s) = {}
    BY NothingIn DEF Call
  <2> QED
    BY <1>2, <2>1 DEF Given
<1>6. Others(t)
  BY <1>1 DEF Others, Given, IInv, TypeOK, CallType, ObjectType
<1>7. Still
  BY <1>1 DEF Still, Held
<1> QED
  BY <1>1, <1>2, <1>3, <1>4, <1>5, <1>6, <1>7

\* What a refused enqueue was given is outside again.
LEMMA Refuses ==
    ASSUME IInv, NEW t \in Thread, Refuse(t)
    PROVE  /\ Still /\ Others(t) /\ Given(t)' = {} /\ table'[t] = <<>>
           /\ outside' = outside \cup Given(t)
           /\ In(table[t]) = Given(t)
<1>1. /\ op' = [op EXCEPT ![t] = "enq"] /\ table' = [table EXCEPT ![t] = <<>>]
      /\ outside' = outside \cup In(table[t]) /\ pc[t] = "room"
      /\ UNCHANGED <<slot, consTail, prodTail>>
  BY DEF Refuse, Return, index
<1>2. op'[t] = "enq" /\ table'[t] = <<>>
  BY <1>1 DEF IInv, TypeOK, CallType, ObjectType
<1>3. In(table[t]) = Given(t)
  <2>1. CASE op[t] = "enq"
    BY <2>1 DEF Given
  <2>2. CASE op[t] = "deq"
    <3>1. done[t] = 0
      BY <1>1, BoundAssumption DEF IInv, TypeOK, CallType
    <3>2. table[t] \in Seq(Object) /\ Len(table[t]) = 0
      BY <1>1, <2>2, <3>1 DEF IInv, TypeOK, ObjectType
    <3>3. table[t] = <<>>
      BY <3>2, EmptySeq
    <3> QED
      BY <2>2, <3>3, NothingIn DEF Given
  <2> QED
    BY <2>1, <2>2 DEF IInv, TypeOK, CallType
<1>4. Given(t)' = {}
  BY <1>2, NothingIn DEF Given
<1>5. Others(t)
  BY <1>1 DEF Others, Given, IInv, TypeOK, CallType, ObjectType
<1>6. Still
  BY <1>1 DEF Still, Held
<1> QED
  BY <1>1, <1>2, <1>3, <1>4, <1>5, <1>6

\* The objects of a reservation that is complete pass to the ring, or to the caller.
LEMMA Returns ==
    ASSUME NoLap, IInv, NEW t \in Thread, UpdateTail(t)
    PROVE  /\ Others(t) /\ UNCHANGED slot /\ Given(t)' = {} /\ table'[t] = <<>>
           /\ pc[t] = "copy" /\ done[t] = num[t] /\ num[t] \in Nat
           /\ op[t] = "enq" =>
                /\ \A i \in Index : Held(i)' <=> Held(i) \/ Within(t, i)
                /\ outside' = outside \cup In(SubSeq(table[t], num[t] + 1, want[t]))
                /\ Len(table[t]) = want[t] /\ num[t] <= want[t] /\ want[t] \in Nat
                /\ \A x : x \in In(SubSeq(table[t], num[t] + 1, want[t])) <=>
                        \E k \in num[t] + 1..want[t] : table[t][k] = x
           /\ op[t] = "deq" =>
                /\ \A i \in Index : /\ Held(i)' <=> Held(i) /\ ~Within(t, i)
                                    /\ Within(t, i) => Held(i)
                /\ outside' = outside \cup In(table[t])
                /\ \A x : x \in In(table[t]) <=> \E k \in 1..num[t] : table[t][k] = x
<1>1. /\ op' = [op EXCEPT ![t] = "enq"] /\ table' = [table EXCEPT ![t] = <<>>]
      /\ pc[t] = "copy" /\ done[t] = num[t] /\ UNCHANGED slot
      /\ outside' = outside \cup
              (IF op[t] = "enq" THEN In(SubSeq(table[t], num[t] + 1, want[t]))
                                ELSE In(table[t]))
  BY DEF UpdateTail, Return
<1>2. op'[t] = "enq" /\ table'[t] = <<>>
  BY <1>1 DEF IInv, TypeOK, CallType, ObjectType
<1>3. Given(t)' = {}
  BY <1>2, NothingIn DEF Given
<1>4. Others(t)
  BY <1>1 DEF Others, Given, IInv, TypeOK, CallType, ObjectType
<1>5. /\ num[t] \in Nat /\ want[t] \in Nat /\ num[t] <= want[t]
      /\ table[t] \in Seq(Object)
  BY BoundAssumption DEF IInv, TypeOK, CallType, ObjectType
<1>6. ASSUME op[t] = "enq"
      PROVE  /\ \A i \in Index : Held(i)' <=> Held(i) \/ Within(t, i)
             /\ Len(table[t]) = want[t]
             /\ \A x : x \in In(SubSeq(table[t], num[t] + 1, want[t])) <=>
                     \E k \in num[t] + 1..want[t] : table[t][k] = x
  <2>1. Len(table[t]) = want[t]
    BY <1>1, <1>6 DEF IInv, TypeOK, ObjectType
  <2>2. \A i \in Index : Held(i)' <=> Held(i) \/ Within(t, i)
    BY <1>5, <1>6, TailMoves, Order, PassedIsWord DEF Held, Within
  <2> DEFINE s == SubSeq(table[t], num[t] + 1, want[t])
             n == num[t]
  <2>3. \A k \in n + 1..want[t] : table[t][k] \in Object
    BY <1>5, <2>1, ElementOfSeq
  <2>4. /\ s \in Seq(Object)
        /\ Len(s) = IF n + 1 <= want[t] THEN want[t] - (n + 1) + 1 ELSE 0
        /\ \A k \in 1..want[t] - (n + 1) + 1 : s[k] = table[t][n + 1 + k - 1]
    <3>1. n + 1 \in Int /\ want[t] \in Int
      BY <1>5
    <3> QED
      BY <2>3, <3>1, SubSeqProperties
  <2> HIDE DEF s
  <2>5. \A x : x \in In(s) <=> \E k \in 1..Len(s) : s[k] = x
    BY <2>4, ElementsOf
  <2>6. ASSUME NEW k \in 1..Len(s)
        PROVE  n + k \in n + 1..want[t] /\ s[k] = table[t][n + k]
    <3>1. k \in 1..want[t] - (n + 1) + 1 /\ n + 1 + k - 1 = n + k
      BY <1>5, <2>4
    <3>2. n + k \in n + 1..want[t]
      BY <1>5, <3>1
    <3>3. s[k] = table[t][n + 1 + k - 1]
      BY <2>4, <3>1
    <3> QED
      BY <3>1, <3>2, <3>3
  <2>7. ASSUME NEW k \in n + 1..want[t]
        PROVE  k - n \in 1..Len(s) /\ s[k - n] = table[t][k]
    <3>1. k - n \in 1..want[t] - (n + 1) + 1 /\ n + 1 + (k - n) - 1 = k
      BY <1>5
    <3>2. k - n \in 1..Len(s)
      BY <1>5, <2>4
    <3> QED
      BY <2>4, <3>1, <3>2
  <2> HIDE DEF n
  <2>8. \A x : x \in In(s) <=> \E k \in n + 1..want[t] : table[t][k] = x
    BY <2>5, <2>6, <2>7
  <2> QED
    BY <2>1, <2>2, <2>8 DEF s, n
<1>7. ASSUME op[t] = "deq"
      PROVE  /\ \A i \in Index : /\ Held(i)' <=> Held(i) /\ ~Within(t, i)
                                 /\ Within(t, i) => Held(i)
             /\ \A x : x \in In(table[t]) <=> \E k \in 1..num[t] : table[t][k] = x
  <2>1. Len(table[t]) = num[t]
    BY <1>1, <1>7 DEF IInv, TypeOK, ObjectType
  <2>2. \A x : x \in In(table[t]) <=> \E k \in 1..num[t] : table[t][k] = x
    BY <1>5, <2>1, ElementsOf
  <2>3. \A i \in Index : /\ Held(i)' <=> Held(i) /\ ~Within(t, i)
                         /\ Within(t, i) => Held(i)
    BY <1>5, <1>7, TailMoves, Order, PassedIsWord DEF Held, Within
  <2> QED
    BY <2>2, <2>3
<1> QED
  BY <1>1, <1>2, <1>3, <1>4, <1>5, <1>6, <1>7

\* No object comes to be in two places.
LEMMA ApartNext ==
    ASSUME NoLap, QInv, [Next]_vars PROVE ApartInv'
<1>0. IInv /\ RangeInv /\ CopyInv /\ IdleInv /\ ApartInv /\ NoneLost
  BY DEF QInv
<1> USE <1>0
<1>1. ASSUME NEW t \in Thread, NEW o, NEW s, NEW k, NEW b, Call(o, s, k, b),
             Begin(t, o, s, k, b)
      PROVE  ApartInv'
  <2>1. /\ Still /\ Others(t) /\ Given(t)' = In(s) /\ In(s) \subseteq outside
        /\ outside' = outside \ In(s) /\ table'[t] = s
        /\ \A i, j \in 1..Len(s) : s[i] = s[j] => i = j
    BY <1>1, Begins
  <2>2. ASSUME NEW i \in Index, NEW j \in Index, Held(i)', Held(j)',
              slot'[SlotOf(i)] = slot'[SlotOf(j)]
       PROVE  i = j
    BY <2>1, <2>2 DEF Still, ApartInv
  <2>3. ASSUME NEW i \in Index, Held(i)'
       PROVE  /\ slot'[SlotOf(i)] \notin outside'
              /\ \A u \in Thread : slot'[SlotOf(i)] \notin Given(u)'
    BY <2>1, <2>3 DEF Still, Others, ApartInv
  <2>4. ASSUME NEW u \in Thread
       PROVE  /\ Given(u)' \cap outside' = {}
              /\ \A v \in Thread \ {u} : Given(u)' \cap Given(v)' = {}
    BY <2>1 DEF Others, ApartInv
  <2>5. ASSUME NEW u \in Thread, op'[u] = "enq",
              NEW i \in 1..Len(table'[u]), NEW j \in 1..Len(table'[u]),
              table'[u][i] = table'[u][j]
       PROVE  i = j
    BY <2>1, <2>5 DEF Others, ApartInv
  <2> QED
    BY <2>2, <2>3, <2>4, <2>5 DEF ApartInv
<1>2. ASSUME NEW t \in Thread, LoadHead(t)
      PROVE  ApartInv'
  <2>1. Settled
    BY <1>2, InsideCall
  <2> QED
    BY <2>1, SettledApart
<1>3. ASSUME NEW t \in Thread, Reserve(t)
      PROVE  ApartInv'
  <2>1. Settled
    BY <1>3, InsideCall
  <2> QED
    BY <2>1, SettledApart
<1>4. ASSUME NEW t \in Thread, Refuse(t)
      PROVE  ApartInv'
  <2>1. /\ Still /\ Others(t) /\ Given(t)' = {} /\ table'[t] = <<>>
        /\ outside' = outside \cup Given(t)
    BY <1>4, Refuses
  <2>2. ASSUME NEW i \in Index, NEW j \in Index, Held(i)', Held(j)',
              slot'[SlotOf(i)] = slot'[SlotOf(j)]
       PROVE  i = j
    BY <2>1, <2>2 DEF Still, ApartInv
  <2>3. ASSUME NEW i \in Index, Held(i)'
       PROVE  /\ slot'[SlotOf(i)] \notin outside'
              /\ \A u \in Thread : slot'[SlotOf(i)] \notin Given(u)'
    BY <2>1, <2>3 DEF Still, Others, ApartInv
  <2>4. ASSUME NEW u \in Thread
       PROVE  /\ Given(u)' \cap outside' = {}
              /\ \A v \in Thread \ {u} : Given(u)' \cap Given(v)' = {}
    BY <2>1 DEF Others, ApartInv
  <2>5. ASSUME NEW u \in Thread, op'[u] = "enq",
              NEW i \in 1..Len(table'[u]), NEW j \in 1..Len(table'[u]),
              table'[u][i] = table'[u][j]
       PROVE  i = j
    <3>1. CASE u = t
      <4>1. Len(table'[u]) = 0
        BY <2>1, <3>1, EmptySeq
      <4> QED
        BY <2>5, <4>1
    <3>2. CASE u # t
      BY <2>1, <2>5, <3>2 DEF Others, ApartInv
    <3> QED
      BY <3>1, <3>2
  <2> QED
    BY <2>2, <2>3, <2>4, <2>5 DEF ApartInv
<1>5. ASSUME NEW t \in Thread, MoveHead(t)
      PROVE  ApartInv'
  <2>1. Settled
    BY <1>5, InsideCall
  <2> QED
    BY <2>1, SettledApart
<1>6. ASSUME NEW t \in Thread, Retry(t)
      PROVE  ApartInv'
  <2>1. Settled
    BY <1>6, InsideCall
  <2> QED
    BY <2>1, SettledApart
<1>7. ASSUME NEW t \in Thread, StoreElement(t)
      PROVE  ApartInv'
  <2>1. Settled
    BY <1>7, InsideCall
  <2> QED
    BY <2>1, SettledApart
<1>8. ASSUME NEW t \in Thread, LoadElement(t)
      PROVE  ApartInv'
  <2>1. Settled
    BY <1>8, InsideCall
  <2> QED
    BY <2>1, SettledApart
<1>9. ASSUME NEW t \in Thread, UpdateTail(t)
      PROVE  ApartInv'
  <2>1. /\ Others(t) /\ UNCHANGED slot /\ Given(t)' = {} /\ table'[t] = <<>>
        /\ pc[t] = "copy" /\ done[t] = num[t] /\ num[t] \in Nat
    BY <1>9, Returns
  <2>2. \A i \in Index : Within(t, i) =>
            \E k \in 1..num[t] : /\ Passed(i) = Passed(oldHead[t]) + k - 1
                                 /\ slot[SlotOf(i)] = table[t][k]
    BY <2>1, Copied
  <2>3. \A u \in Thread : \A v \in Thread \ {u} : Given(u)' \cap Given(v)' = {}
    BY <2>1 DEF Others, ApartInv
  <2>4. ASSUME NEW u \in Thread, op'[u] = "enq",
               NEW i \in 1..Len(table'[u]), NEW j \in 1..Len(table'[u]),
               table'[u][i] = table'[u][j]
        PROVE  i = j
    <3>1. CASE u = t
      <4>1. Len(table'[u]) = 0
        BY <2>1, <3>1, EmptySeq
      <4> QED
        BY <2>4, <4>1
    <3>2. CASE u # t
      BY <2>1, <2>4, <3>2 DEF Others, ApartInv
    <3> QED
      BY <3>1, <3>2
  <2>5. CASE op[t] = "enq"
    <3> DEFINE rest == In(SubSeq(table[t], num[t] + 1, want[t]))
    <3>1. /\ \A i \in Index : Held(i)' <=> Held(i) \/ Within(t, i)
          /\ outside' = outside \cup rest
          /\ Len(table[t]) = want[t] /\ num[t] <= want[t] /\ want[t] \in Nat
          /\ \A x : x \in rest <=> \E k \in num[t] + 1..want[t] : table[t][k] = x
      BY <1>9, <2>5, Returns
    <3> HIDE DEF rest
    <3>2. \A x : x \in Given(t) <=> \E k \in 1..want[t] : table[t][k] = x
      <4>1. table[t] \in Seq(Object)
        BY DEF IInv, TypeOK, ObjectType
      <4> QED
        BY <2>5, <3>1, <4>1, ElementsOf DEF Given
    <3>3. rest \subseteq Given(t)
      <4>1. num[t] + 1..want[t] \subseteq 1..want[t]
        BY <2>1, <3>1
      <4> QED
        BY <3>1, <3>2, <4>1
    <3>4. \A i \in Index : Within(t, i) =>
            slot[SlotOf(i)] \in Given(t) /\ slot[SlotOf(i)] \notin rest
      <4> SUFFICES ASSUME NEW i \in Index, Within(t, i)
                   PROVE  slot[SlotOf(i)] \in Given(t) /\ slot[SlotOf(i)] \notin rest
        OBVIOUS
      <4>1. PICK k \in 1..num[t] : slot[SlotOf(i)] = table[t][k]
        BY <2>2
      <4>2. k \in 1..want[t] /\ \A m \in num[t] + 1..want[t] : m \in 1..want[t] /\ m # k
        BY <2>1, <3>1
      <4>3. \A m \in num[t] + 1..want[t] : table[t][m] # table[t][k]
        BY <2>5, <3>1, <4>2 DEF ApartInv
      <4> QED
        BY <3>1, <3>2, <4>1, <4>2, <4>3
    <3>5. ASSUME NEW i \in Index, NEW j \in Index, Held(i)', Held(j)',
                 slot[SlotOf(i)] = slot[SlotOf(j)]
          PROVE  i = j
      <4>1. CASE Held(i) /\ Held(j)
        BY <3>5, <4>1 DEF ApartInv
      <4>2. CASE Within(t, i) /\ Within(t, j)
        <5>1. PICK k \in 1..num[t] : /\ Passed(i) = Passed(oldHead[t]) + k - 1
                                     /\ slot[SlotOf(i)] = table[t][k]
          BY <2>2, <4>2
        <5>2. PICK m \in 1..num[t] : /\ Passed(j) = Passed(oldHead[t]) + m - 1
                                     /\ slot[SlotOf(j)] = table[t][m]
          BY <2>2, <4>2
        <5>3. k \in 1..want[t] /\ m \in 1..want[t]
          BY <2>1, <3>1
        <5>4. k = m
          BY <2>5, <3>1, <3>5, <5>1, <5>2, <5>3 DEF ApartInv
        <5> QED
          BY <5>1, <5>2, <5>4, PassedInjective
      <4>3. CASE Held(i) /\ Within(t, j)
        BY <3>4, <3>5, <4>3 DEF ApartInv
      <4>4. CASE Within(t, i) /\ Held(j)
        BY <3>4, <3>5, <4>4 DEF ApartInv
      <4> QED
        BY <3>1, <3>5, <4>1, <4>2, <4>3, <4>4
    <3>6. ASSUME NEW i \in Index, Held(i)'
          PROVE  /\ slot[SlotOf(i)] \notin outside'
                 /\ \A u \in Thread : slot[SlotOf(i)] \notin Given(u)'
      <4>1. CASE Held(i)
        BY <2>1, <3>1, <3>3, <4>1 DEF Others, ApartInv
      <4>2. CASE Within(t, i)
        BY <2>1, <3>1, <3>4, <4>2 DEF Others, ApartInv
      <4> QED
        BY <3>1, <3>6, <4>1, <4>2
    <3>7. \A u \in Thread : Given(u)' \cap outside' = {}
      BY <2>1, <3>1, <3>3 DEF Others, ApartInv
    <3> QED
      BY <2>1, <2>3, <2>4, <3>5, <3>6, <3>7 DEF ApartInv
  <2>6. CASE op[t] = "deq"
    <3>1. /\ \A i \in Index : /\ Held(i)' <=> Held(i) /\ ~Within(t, i)
                              /\ Within(t, i) => Held(i)
          /\ outside' = outside \cup In(table[t])
          /\ \A x : x \in In(table[t]) <=> \E k \in 1..num[t] : table[t][k] = x
      BY <1>9, <2>6, Returns
    <3>2. \A x \in In(table[t]) : \E i \in Index :
            Within(t, i) /\ Held(i) /\ slot[SlotOf(i)] = x
      BY <2>1, <3>1, Copied
    <3>3. Given(t) = {}
      BY <2>6 DEF Given
    <3>4. \A i, j \in Index : Held(i)' /\ Held(j)' /\ slot[SlotOf(i)] = slot[SlotOf(j)] => i = j
      BY <3>1 DEF ApartInv
    <3>5. ASSUME NEW i \in Index, Held(i)'
          PROVE  /\ slot[SlotOf(i)] \notin outside'
                 /\ \A u \in Thread : slot[SlotOf(i)] \notin Given(u)'
      <4>1. Held(i) /\ ~Within(t, i)
        BY <3>1, <3>5
      <4>2. slot[SlotOf(i)] \notin In(table[t])
        BY <3>2, <4>1 DEF ApartInv
      <4> QED
        BY <2>1, <3>1, <4>1, <4>2 DEF Others, ApartInv
    <3>6. \A u \in Thread : Given(u)' \cap outside' = {}
      BY <2>1, <3>1, <3>2 DEF Others, ApartInv
    <3> QED
      BY <2>1, <2>3, <2>4, <3>4, <3>5, <3>6 DEF ApartInv
  <2> QED
    BY <2>5, <2>6 DEF IInv, TypeOK, CallType
<1>10. ASSUME NEW t \in Thread, Kill(t)
      PROVE  ApartInv'
  <2>1. Settled
    BY <1>10, InsideCall
  <2> QED
    BY <2>1, SettledApart
<1>11. CASE UNCHANGED vars
  <2>1. Settled
    BY <1>11 DEF vars, index, request, Settled, Held, Given
  <2> QED
    BY <2>1, SettledApart
<1> QED
  BY <1>1, <1>2, <1>3, <1>4, <1>5, <1>6, <1>7, <1>8, <1>9, <1>10, <1>11,
     CallOfEnqueue, CallOfDequeue
     DEF Next, NextWith, Step, Enqueue, Dequeue

\* No object is lost.
LEMMA NoneLostNext ==
    ASSUME NoLap, QInv, [Next]_vars PROVE NoneLost'
<1>0. IInv /\ RangeInv /\ CopyInv /\ IdleInv /\ ApartInv /\ NoneLost
  BY DEF QInv
<1> USE <1>0
<1>1. ASSUME NEW t \in Thread, NEW o, NEW s, NEW k, NEW b, Call(o, s, k, b),
             Begin(t, o, s, k, b)
      PROVE  NoneLost'
  <2>1. /\ Still /\ Others(t) /\ Given(t) = {} /\ Given(t)' = In(s)
        /\ outside' = outside \ In(s)
    BY <1>1, Begins
  <2> QED
    BY <2>1 DEF Still, Others, NoneLost
<1>2. ASSUME NEW t \in Thread, LoadHead(t)
      PROVE  NoneLost'
  <2>1. Settled
    BY <1>2, InsideCall
  <2> QED
    BY <2>1, SettledNone
<1>3. ASSUME NEW t \in Thread, Reserve(t)
      PROVE  NoneLost'
  <2>1. Settled
    BY <1>3, InsideCall
  <2> QED
    BY <2>1, SettledNone
<1>4. ASSUME NEW t \in Thread, Refuse(t)
      PROVE  NoneLost'
  <2>1. Still /\ Others(t) /\ outside' = outside \cup Given(t)
    BY <1>4, Refuses
  <2> QED
    BY <2>1 DEF Still, Others, NoneLost
<1>5. ASSUME NEW t \in Thread, MoveHead(t)
      PROVE  NoneLost'
  <2>1. Settled
    BY <1>5, InsideCall
  <2> QED
    BY <2>1, SettledNone
<1>6. ASSUME NEW t \in Thread, Retry(t)
      PROVE  NoneLost'
  <2>1. Settled
    BY <1>6, InsideCall
  <2> QED
    BY <2>1, SettledNone
<1>7. ASSUME NEW t \in Thread, StoreElement(t)
      PROVE  NoneLost'
  <2>1. Settled
    BY <1>7, InsideCall
  <2> QED
    BY <2>1, SettledNone
<1>8. ASSUME NEW t \in Thread, LoadElement(t)
      PROVE  NoneLost'
  <2>1. Settled
    BY <1>8, InsideCall
  <2> QED
    BY <2>1, SettledNone
<1>9. ASSUME NEW t \in Thread, UpdateTail(t)
      PROVE  NoneLost'
  <2>1. /\ Others(t) /\ UNCHANGED slot
        /\ pc[t] = "copy" /\ done[t] = num[t] /\ num[t] \in Nat
    BY <1>9, Returns
  <2>2. /\ \A i \in Index : Within(t, i) =>
                \E k \in 1..num[t] : slot[SlotOf(i)] = table[t][k]
        /\ \A k \in 1..num[t] : \E i \in Index :
                Within(t, i) /\ slot[SlotOf(i)] = table[t][k]
    BY <2>1, Copied
  <2>3. CASE op[t] = "enq"
    <3> DEFINE rest == In(SubSeq(table[t], num[t] + 1, want[t]))
    <3>1. /\ \A i \in Index : Held(i)' <=> Held(i) \/ Within(t, i)
          /\ outside' = outside \cup rest
          /\ Len(table[t]) = want[t] /\ num[t] <= want[t] /\ want[t] \in Nat
          /\ \A x : x \in rest <=> \E k \in num[t] + 1..want[t] : table[t][k] = x
      BY <1>9, <2>3, Returns
    <3> HIDE DEF rest
    <3>2. ASSUME NEW x \in Given(t)
          PROVE  x \in outside' \/ \E i \in Index : Held(i)' /\ slot[SlotOf(i)] = x
      <4>1. table[t] \in Seq(Object)
        BY DEF IInv, TypeOK, ObjectType
      <4>2. PICK k \in 1..want[t] : table[t][k] = x
        BY <2>3, <3>1, <3>2, <4>1, ElementsOf DEF Given
      <4>3. CASE k \in 1..num[t]
        BY <2>2, <3>1, <4>2, <4>3
      <4>4. CASE k \in num[t] + 1..want[t]
        BY <3>1, <4>2, <4>4
      <4>5. k \in 1..num[t] \/ k \in num[t] + 1..want[t]
        BY <2>1, <3>1
      <4> QED
        BY <4>3, <4>4, <4>5
    <3> QED
      BY <2>1, <3>1, <3>2 DEF Others, NoneLost
  <2>4. CASE op[t] = "deq"
    <3>1. /\ \A i \in Index : Held(i)' <=> Held(i) /\ ~Within(t, i)
          /\ outside' = outside \cup In(table[t])
          /\ \A x : x \in In(table[t]) <=> \E k \in 1..num[t] : table[t][k] = x
      BY <1>9, <2>4, Returns
    <3>2. \A i \in Index : Within(t, i) => slot[SlotOf(i)] \in outside'
      BY <2>2, <3>1
    <3>3. Given(t) = {}
      BY <2>4 DEF Given
    <3> QED
      BY <2>1, <3>1, <3>2, <3>3 DEF Others, NoneLost
  <2> QED
    BY <2>3, <2>4 DEF IInv, TypeOK, CallType
<1>10. ASSUME NEW t \in Thread, Kill(t)
      PROVE  NoneLost'
  <2>1. Settled
    BY <1>10, InsideCall
  <2> QED
    BY <2>1, SettledNone
<1>11. CASE UNCHANGED vars
  <2>1. Settled
    BY <1>11 DEF vars, index, request, Settled, Held, Given
  <2> QED
    BY <2>1, SettledNone
<1> QED
  BY <1>1, <1>2, <1>3, <1>4, <1>5, <1>6, <1>7, <1>8, <1>9, <1>10, <1>11,
     CallOfEnqueue, CallOfDequeue
     DEF Next, NextWith, Step, Enqueue, Dequeue

-----------------------------------------------------------------------------
(* The queue and the hands.                                                *)

\* What a stretch of the ring holds.
LEMMA ContentsOf ==
    ASSUME NEW i \in Index, NEW n \in Nat, Passed(i) + n < Word
    PROVE  /\ DOMAIN Contents(i, n) = 1..n /\ Len(Contents(i, n)) = n
           /\ \A j \in 1..n :
                /\ Plus(i, j - 1) \in Index /\ Passed(Plus(i, j - 1)) = Passed(i) + (j - 1)
                /\ Contents(i, n)[j] = slot[SlotOf(Plus(i, j - 1))]
           /\ \A x : x \in In(Contents(i, n)) <=>
                \E k \in Index : /\ Passed(i) <= Passed(k) /\ Passed(k) < Passed(i) + n
                                 /\ slot[SlotOf(k)] = x
<1> DEFINE c == Contents(i, n)
<1>1. /\ DOMAIN c = 1..n /\ Len(c) = n
      /\ \A j \in 1..n : c[j] = slot[SlotOf(Plus(i, j - 1))]
  BY DEF Contents
<1>2. Passed(i) \in Nat /\ Word \in Nat
  BY PassedIsWord, SizeAssumption
<1>3. ASSUME NEW j \in 1..n
      PROVE  Plus(i, j - 1) \in Index /\ Passed(Plus(i, j - 1)) = Passed(i) + (j - 1)
  <2>1. j - 1 \in Nat /\ Passed(i) + (j - 1) < Word
    BY <1>2
  <2> QED
    BY <2>1, Words, PassedPlus
<1>4. ASSUME NEW k \in Index, Passed(i) <= Passed(k), Passed(k) < Passed(i) + n
      PROVE  slot[SlotOf(k)] \in In(c)
  <2> DEFINE j == Passed(k) - Passed(i) + 1
  <2>1. Passed(k) \in Nat
    BY PassedIsWord
  <2>2. j \in 1..n /\ Passed(i) + (j - 1) = Passed(k)
    BY <1>2, <1>4, <2>1
  <2>3. Plus(i, j - 1) = k
    BY <1>3, <2>2, PassedInjective
  <2> HIDE DEF j
  <2>4. c[j] = slot[SlotOf(k)]
    BY <1>1, <2>2, <2>3
  <2> QED
    BY <1>1, <2>2, <2>4 DEF In
<1>5. ASSUME NEW x \in In(c)
      PROVE  \E k \in Index : /\ Passed(i) <= Passed(k) /\ Passed(k) < Passed(i) + n
                              /\ slot[SlotOf(k)] = x
  <2>1. PICK j \in 1..n : c[j] = x
    BY <1>1 DEF In
  <2>2. Passed(i) <= Passed(i) + (j - 1) /\ Passed(i) + (j - 1) < Passed(i) + n
    BY <1>2
  <2> QED
    BY <1>1, <1>3, <2>1, <2>2
<1> QED
  BY <1>1, <1>3, <1>4, <1>5

\* The queue is what is held and not reserved.
LEMMA QueueIs ==
    ASSUME NoLap, IInv
    PROVE  /\ Passed(prodTail) - Passed(consHead) \in Nat
           /\ queue = Contents(consHead, Passed(prodTail) - Passed(consHead))
           /\ Len(queue) = Passed(prodTail) - Passed(consHead)
           /\ \A x : x \in In(queue) <=>
                \E k \in Index : /\ Passed(consHead) <= Passed(k) /\ Passed(k) < Passed(prodTail)
                                 /\ slot[SlotOf(k)] = x
<1> DEFINE n == Passed(prodTail) - Passed(consHead)
<1>1. consHead \in Index /\ prodTail \in Index
  BY DEF IInv, TypeOK, IndexType
<1>2. n \in Nat /\ Passed(consHead) + n = Passed(prodTail) /\ Passed(consHead) + n < Word
  BY Order, PassedBound
<1>3. Minus(prodTail, consHead) = n
  BY <1>1, Order, MinusPassed
<1> HIDE DEF n
<1>4. queue = Contents(consHead, n)
  BY <1>3 DEF queue
<1>5. Len(queue) = n /\ \A x : x \in In(queue) <=>
            \E k \in Index : /\ Passed(consHead) <= Passed(k) /\ Passed(k) < Passed(consHead) + n
                             /\ slot[SlotOf(k)] = x
  BY <1>1, <1>2, <1>4, ContentsOf
<1> QED
  BY <1>2, <1>4, <1>5 DEF n

\* The reservation of a dequeue is a stretch of the ring that is held.
LEMMA Reservation ==
    ASSUME NoLap, IInv, RangeInv, NEW t \in Thread, Copying(t, "deq")
    PROVE  /\ oldHead[t] \in Index /\ num[t] \in Nat /\ Passed(oldHead[t]) + num[t] < Word
           /\ \A k \in Index : Within(t, k) => Held(k) /\ Passed(k) < Passed(consHead)
<1>1. /\ oldHead[t] \in Index /\ num[t] \in Nat /\ Passed(oldHead[t]) \in Nat
      /\ Passed(oldHead[t]) + num[t] <= Passed(consHead)
      /\ Passed(consTail) <= Passed(oldHead[t])
  BY BoundAssumption, Order
     DEF IInv, TypeOK, IndexType, CallType, CallInv, Head0, Copying, RangeInv
<1>2. Passed(oldHead[t]) + num[t] < Word
  BY <1>1, Order, PassedBound
<1>3. \A k \in Index : Within(t, k) => Held(k) /\ Passed(k) < Passed(consHead)
  BY <1>1, Order, PassedIsWord DEF Within, Held
<1> QED
  BY <1>1, <1>2, <1>3

\* A hand holds what was given, or what is reserved.
LEMMA HandIs ==
    ASSUME NoLap, IInv, RangeInv, NEW t \in Thread
    PROVE  /\ op[t] = "enq" => hand[t] = table[t] /\ In(hand[t]) = Given(t)
           /\ Copying(t, "deq") =>
                /\ hand[t] = Contents(oldHead[t], num[t])
                /\ \A x : x \in In(hand[t]) <=>
                        \E k \in Index : Within(t, k) /\ slot[SlotOf(k)] = x
           /\ op[t] = "deq" /\ pc[t] # "copy" => hand[t] = <<>> /\ In(hand[t]) = {}
<1>1. /\ op[t] = "enq" => hand[t] = table[t]
      /\ Copying(t, "deq") => hand[t] = Contents(oldHead[t], num[t])
      /\ op[t] = "deq" /\ pc[t] # "copy" => hand[t] = <<>>
  BY DEF hand, Copying
<1>2. ASSUME Copying(t, "deq")
      PROVE  \A x : x \in In(hand[t]) <=>
                \E k \in Index : Within(t, k) /\ slot[SlotOf(k)] = x
  BY <1>1, <1>2, Reservation, ContentsOf DEF Within
<1> QED
  BY <1>1, <1>2, NothingIn DEF Given

\* A sequence of different things has as many elements as places.
LEMMA DistinctCount ==
    ASSUME NEW S, NEW s \in Seq(S), \A i, j \in 1..Len(s) : s[i] = s[j] => i = j
    PROVE  Cardinality(In(s)) = Len(s)
<1>1. /\ Len(s) \in Nat /\ DOMAIN s = 1..Len(s) /\ s \in [1..Len(s) -> S]
  BY LenProperties
<1>2. s \in Bijection(1..Len(s), In(s))
  BY <1>1 DEF In, Bijection, Injection, Surjection, IsInjective
<1>3. IsFiniteSet(1..Len(s)) /\ Cardinality(1..Len(s)) = Len(s)
  BY <1>1, FS_Interval
<1>4. ExistsBijection(1..Len(s), In(s))
  BY <1>2 DEF ExistsBijection
<1> QED
  BY <1>3, <1>4, FS_Bijection

-----------------------------------------------------------------------------
(* One owner.                                                              *)

\* The initial state has the invariant.
LEMMA InitQInv ==
    ASSUME Init PROVE QInv
<1>1. IInv
  BY InitInv
<1>2. RangeInv
  <2>1. /\ \A t \in Thread, o \in {"enq", "deq"} : ~Copying(t, o)
        /\ consTail = Start /\ consHead = Start /\ prodTail = Start /\ prodHead = Start
    BY DEF Init, Copying
  <2>2. /\ Passed(Start) \in Nat /\ \A i \in Index : Passed(i) \in Nat
    <3>1. Start \in Index
      BY SizeAssumption DEF Index
    <3> QED
      BY <3>1, PassedIsWord
  <2> QED
    BY <2>1, <2>2 DEF RangeInv
<1>3. CopyInv /\ IdleInv
  BY DEF Init, CopyInv, IdleInv
<1>4. \A i \in Index : ~Held(i)
  <2>1. Start \in Index
    BY SizeAssumption DEF Index
  <2> QED
    BY <2>1, PassedIsWord DEF Init, Held
<1>5. \A t \in Thread : Given(t) = {}
  BY NothingIn DEF Init, Given
<1>6. ApartInv
  <2>1. \A t \in Thread : Len(table[t]) = 0
    BY EmptySeq DEF Init
  <2> QED
    BY <1>4, <1>5, <2>1 DEF ApartInv
<1>7. NoneLost
  BY DEF Init, NoneLost
<1> QED
  BY <1>1, <1>2, <1>3, <1>6, <1>7 DEF QInv

\* The invariant is inductive.
LEMMA QInvNext ==
    ASSUME NoLap, QInv, [Next]_vars PROVE QInv'
<1>1. IInv /\ RangeInv /\ CopyInv /\ IdleInv /\ ApartInv /\ NoneLost
  BY DEF QInv
<1>2. IInv'
  BY <1>1, IInvNext
<1>3. RangeInv' /\ CopyInv' /\ IdleInv'
  BY <1>1, <1>2, RangeNext, CopyNext, IdleNext
<1>4. ApartInv' /\ NoneLost'
  BY ApartNext, NoneLostNext
<1> QED
  BY <1>2, <1>3, <1>4 DEF QInv

\* The invariant holds always.
LEMMA QInvCorrect ==
    ASSUME NoLap PROVE Spec => []QInv
<1>1. QInv /\ [Next]_vars => QInv'
  BY QInvNext
<1> QED
  BY <1>1, InitQInv, PTL DEF Spec

\* Whoever has the invariant has one owner of each object.
LEMMA QInvOwner ==
    ASSUME NoLap, QInv PROVE OneOwner
<1>1. IInv /\ RangeInv /\ CopyInv /\ IdleInv /\ ApartInv /\ NoneLost
  BY DEF QInv
<1> USE <1>1
<1>2. \A x : x \in In(queue) <=>
          \E k \in Index : /\ Passed(consHead) <= Passed(k) /\ Passed(k) < Passed(prodTail)
                           /\ slot[SlotOf(k)] = x
  BY QueueIs
<1>3. \A k \in Index : Passed(k) \in Nat
  BY PassedIsWord
<1>4. \A x \in In(queue) : \E k \in Index :
          Held(k) /\ ~(Passed(k) < Passed(consHead)) /\ slot[SlotOf(k)] = x
  BY <1>2, <1>3, Order DEF Held
<1>5. \A t \in Thread : \A x \in In(hand[t]) :
          \/ op[t] = "enq" /\ x \in Given(t)
          \/ /\ Copying(t, "deq")
             /\ \E k \in Index : /\ Within(t, k) /\ Held(k) /\ Passed(k) < Passed(consHead)
                                 /\ slot[SlotOf(k)] = x
  <2> SUFFICES ASSUME NEW t \in Thread, NEW x \in In(hand[t])
               PROVE  \/ op[t] = "enq" /\ x \in Given(t)
                      \/ /\ Copying(t, "deq")
                         /\ \E k \in Index : /\ Within(t, k) /\ Held(k)
                                             /\ Passed(k) < Passed(consHead)
                                             /\ slot[SlotOf(k)] = x
    OBVIOUS
  <2>1. CASE op[t] = "enq"
    BY <2>1, HandIs
  <2>2. CASE Copying(t, "deq")
    BY <2>2, HandIs, Reservation
  <2>3. CASE op[t] = "deq" /\ pc[t] # "copy"
    BY <2>3, HandIs
  <2> QED
    BY <2>1, <2>2, <2>3 DEF IInv, TypeOK, CallType, Copying
<1>6. In(queue) \cap outside = {}
  BY <1>4 DEF ApartInv
<1>7. ASSUME NEW t \in Thread
      PROVE  In(hand[t]) \cap (outside \cup In(queue)) = {}
  <2>1. ASSUME NEW x \in In(hand[t]) PROVE x \notin outside /\ x \notin In(queue)
    <3>1. CASE op[t] = "enq" /\ x \in Given(t)
      BY <1>4, <3>1 DEF ApartInv
    <3>2. CASE \E k \in Index : /\ Within(t, k) /\ Held(k) /\ Passed(k) < Passed(consHead)
                                /\ slot[SlotOf(k)] = x
      BY <1>4, <3>2 DEF ApartInv
    <3> QED
      BY <1>5, <3>1, <3>2
  <2> QED
    BY <2>1
<1>8. ASSUME NEW t \in Thread, NEW u \in Thread \ {t}
      PROVE  In(hand[t]) \cap In(hand[u]) = {}
  <2>1. ASSUME NEW x \in In(hand[t]), x \in In(hand[u]) PROVE FALSE
    <3>1. CASE x \in Given(t) /\ x \in Given(u)
      BY <3>1 DEF ApartInv
    <3>2. CASE x \in Given(t) \cup Given(u) /\ \E k \in Index : Held(k) /\ slot[SlotOf(k)] = x
      BY <3>2 DEF ApartInv
    <3>3. CASE Copying(t, "deq") /\ Copying(u, "deq")
      <4>1. PICK k \in Index : Within(t, k) /\ Held(k) /\ slot[SlotOf(k)] = x
        BY <2>1, <3>3, HandIs, Reservation
      <4>2. PICK m \in Index : Within(u, m) /\ Held(m) /\ slot[SlotOf(m)] = x
        BY <2>1, <3>3, HandIs, Reservation
      <4>3. k = m
        BY <4>1, <4>2 DEF ApartInv
      <4> QED
        BY <3>3, <4>1, <4>2, <4>3 DEF RangeInv
    <3> QED
      BY <1>5, <2>1, <3>1, <3>2, <3>3
  <2> QED
    BY <2>1
<1>9. ASSUME NEW t \in Thread PROVE Cardinality(In(hand[t])) = Len(hand[t])
  <2>1. CASE op[t] = "enq"
    <3>1. table[t] \in Seq(Object)
      BY DEF IInv, TypeOK, ObjectType
    <3>2. Cardinality(In(table[t])) = Len(table[t])
      BY <2>1, <3>1, DistinctCount DEF ApartInv
    <3> QED
      BY <2>1, <3>2, HandIs
  <2>2. CASE Copying(t, "deq")
    <3> DEFINE s == Contents(oldHead[t], num[t])
               S == {slot[SlotOf(k)] : k \in Index}
    <3>1. /\ oldHead[t] \in Index /\ num[t] \in Nat /\ Passed(oldHead[t]) + num[t] < Word
          /\ \A k \in Index : Within(t, k) => Held(k)
      BY <2>2, Reservation
    <3>2. /\ DOMAIN s = 1..num[t] /\ Len(s) = num[t]
          /\ \A j \in 1..num[t] :
                /\ Plus(oldHead[t], j - 1) \in Index
                /\ Passed(Plus(oldHead[t], j - 1)) = Passed(oldHead[t]) + (j - 1)
                /\ s[j] = slot[SlotOf(Plus(oldHead[t], j - 1))]
      BY <3>1, ContentsOf
    <3>3. s \in Seq(S)
      <4>1. \A j \in 1..num[t] : s[j] \in S
        BY <3>2
      <4>2. s = [j \in 1..num[t] |-> s[j]]
        BY DEF Contents
      <4> HIDE DEF s, S
      <4>3. s \in [1..num[t] -> S]
        BY <4>1, <4>2
      <4> QED
        BY <3>1, <4>3
    <3> HIDE DEF s
    <3>4. ASSUME NEW i \in 1..Len(s), NEW j \in 1..Len(s), s[i] = s[j]
          PROVE  i = j
      <4> DEFINE k(a) == Plus(oldHead[t], a - 1)
      <4>1. /\ k(i) \in Index /\ Passed(k(i)) = Passed(oldHead[t]) + (i - 1)
            /\ k(j) \in Index /\ Passed(k(j)) = Passed(oldHead[t]) + (j - 1)
            /\ slot[SlotOf(k(i))] = slot[SlotOf(k(j))]
        BY <3>2, <3>4
      <4> HIDE DEF k
      <4>2. i \in Nat /\ j \in Nat /\ 1 <= i /\ 1 <= j /\ i <= num[t] /\ j <= num[t]
        BY <3>1, <3>2
      <4>3. Within(t, k(i)) /\ Within(t, k(j))
        BY <3>1, <4>1, <4>2, Order DEF Within
      <4>4. k(i) = k(j)
        BY <3>1, <4>1, <4>3 DEF ApartInv
      <4>5. Passed(oldHead[t]) + (i - 1) = Passed(oldHead[t]) + (j - 1)
        BY <4>1, <4>4
      <4> QED
        BY <4>2, <4>5, Order
    <3>5. Cardinality(In(s)) = Len(s)
      BY <3>3, <3>4, DistinctCount
    <3> QED
      BY <2>2, <3>5, HandIs DEF s
  <2>3. CASE op[t] = "deq" /\ pc[t] # "copy"
    <3>1. hand[t] = <<>> /\ In(hand[t]) = {}
      BY <2>3, HandIs
    <3> QED
      BY <3>1, EmptySeq, FS_EmptySet
  <2> QED
    BY <2>1, <2>2, <2>3 DEF IInv, TypeOK, CallType, Copying
<1>10. \A k \in Index : Held(k) => slot[SlotOf(k)] \in Object
  <2> SUFFICES ASSUME NEW k \in Index, Held(k) PROVE slot[SlotOf(k)] \in Object
    OBVIOUS
  <2>1. ~(Passed(prodTail) <= Passed(k))
    BY <1>3, Order DEF Held
  <2>2. slot[SlotOf(k)] # None
    BY <2>1 DEF IInv, WrittenInv
  <2> QED
    BY <2>2, SlotOfIndex DEF IInv, TypeOK, ObjectType
<1>11. \A t \in Thread : Given(t) \subseteq Object
  BY ElementsOfSeq DEF Given, IInv, TypeOK, ObjectType
<1>12. outside \cup In(queue) \cup UNION {In(hand[t]) : t \in Thread} \subseteq Object
  <2>1. outside \subseteq Object
    BY DEF IInv, TypeOK, ObjectType
  <2>2. In(queue) \subseteq Object
    BY <1>4, <1>10
  <2>3. \A t \in Thread : In(hand[t]) \subseteq Object
    BY <1>5, <1>10, <1>11
  <2> QED
    BY <2>1, <2>2, <2>3
<1>13. ASSUME NEW x \in Object
       PROVE  x \in outside \/ x \in In(queue) \/ \E t \in Thread : x \in In(hand[t])
  <2>1. CASE \E t \in Thread : x \in Given(t)
    <3>1. PICK t \in Thread : x \in Given(t)
      BY <2>1
    <3>2. op[t] = "enq"
      BY <3>1 DEF Given
    <3> QED
      BY <3>1, <3>2, HandIs
  <2>2. CASE \E i \in Index : Held(i) /\ slot[SlotOf(i)] = x
    <3>1. PICK i \in Index : Held(i) /\ slot[SlotOf(i)] = x
      BY <2>2
    <3>2. CASE Passed(i) < Passed(consHead)
      <4>1. PICK t \in Thread : Copying(t, "deq") /\ Within(t, i)
        BY <3>1, <3>2 DEF Held, RangeInv
      <4> QED
        BY <3>1, <4>1, HandIs
    <3>3. CASE ~(Passed(i) < Passed(consHead))
      BY <1>2, <1>3, <3>1, <3>3, Order DEF Held
    <3> QED
      BY <3>2, <3>3
  <2> QED
    BY <2>1, <2>2 DEF NoneLost
<1>14. outside \cup In(queue) \cup UNION {In(hand[t]) : t \in Thread} = Object
  BY <1>12, <1>13
<1>15. ASSUME NEW t \in Thread, op[t] = "deq", pc[t] = "copy", NEW i \in 1..done[t]
       PROVE  table[t][i] = hand[t][i]
  <2> DEFINE k == Plus(oldHead[t], i - 1)
  <2>1. /\ done[t] \in Nat /\ num[t] \in Nat /\ done[t] <= num[t] /\ Passed(oldHead[t]) \in Nat
    BY BoundAssumption, Order DEF IInv, TypeOK, CallType
  <2>2. Copying(t, "deq") /\ i \in 1..num[t] /\ i \in Nat /\ i <= done[t] /\ 1 <= i
    BY <1>15, <2>1 DEF Copying
  <2>3. /\ k \in Index /\ Passed(k) = Passed(oldHead[t]) + (i - 1)
        /\ hand[t][i] = slot[SlotOf(k)]
    BY <2>2, HandIs, Reservation, ContentsOf
  <2> HIDE DEF k
  <2>4. /\ Passed(oldHead[t]) <= Passed(k) /\ Passed(k) < Passed(oldHead[t]) + done[t]
        /\ Passed(k) - Passed(oldHead[t]) + 1 = i
    BY <2>1, <2>2, <2>3
  <2>5. slot[SlotOf(k)] = table[t][Passed(k) - Passed(oldHead[t]) + 1]
    BY <1>15, <2>3, <2>4 DEF CopyInv
  <2> QED
    BY <2>3, <2>4, <2>5
<1> QED
  BY <1>6, <1>7, <1>8, <1>9, <1>14, <1>15 DEF OneOwner

\* Every object is outside, given to one enqueue, queued, or reserved by one dequeue, and
\* a dequeue copies what it reserved, however the copies of any number of threads
\* interleave and whoever is killed (rte_ring_elem_pvt.h 334-336, 381-383).
THEOREM OwnerCorrect ==
    ASSUME NoLap PROVE Spec => []OneOwner
<1>1. QInv => OneOwner
  BY QInvOwner
<1> QED
  BY <1>1, QInvCorrect, PTL

-----------------------------------------------------------------------------
(* Whose turn it is.                                                       *)

\* While calls of a side have reserved slots and not published them, the tail is the
\* turn of exactly one of them.
OneTurn ==
    /\ \A t \in Thread : pc[t] = "copy" =>
        \E u \in Thread : pc[u] = "copy" /\ op[u] = op[t] /\ TurnOf(u)
    /\ \A t \in Thread : \A u \in Thread \ {t} :
        ~ /\ pc[t] = "copy" /\ TurnOf(t)
          /\ pc[u] = "copy" /\ op[u] = op[t] /\ TurnOf(u)

\* The reservations cover the slots from tail to head one by one: the call that has
\* reserved the first of them is the one whose turn it is.
LEMMA TurnFromRange ==
    ASSUME NoLap, IInv, RangeInv PROVE OneTurn
<1> DEFINE tail(o) == IF o = "enq" THEN prodTail ELSE consTail
<1>1. \A t \in Thread : pc[t] = "copy" =>
        /\ op[t] \in {"enq", "deq"} /\ Copying(t, op[t]) /\ tail(op[t]) \in Index
        /\ num[t] \in Nat /\ num[t] > 0 /\ oldHead[t] \in Index
  BY BoundAssumption DEF Copying, IInv, TypeOK, IndexType, CallType
<1>2. \A t \in Thread : pc[t] = "copy" =>
        /\ Passed(tail(op[t])) <= Passed(oldHead[t])
        /\ Passed(oldHead[t]) + num[t] <= Passed(Head0(t))
  BY <1>1 DEF RangeInv, IInv, CallInv, Copying
<1>3. \A i \in Index : Passed(i) \in Nat
  BY PassedIsWord
<1>4. \A u \in Thread : pc[u] = "copy" /\ TurnOf(u) => Within(u, tail(op[u]))
  <2> SUFFICES ASSUME NEW u \in Thread, pc[u] = "copy", TurnOf(u)
      PROVE  Within(u, tail(op[u]))
    OBVIOUS
  <2>1. oldHead[u] = tail(op[u])
    BY DEF TurnOf
  <2>2. Passed(oldHead[u]) \in Nat /\ num[u] \in Nat /\ num[u] > 0
    BY <1>1, <1>3
  <2> QED
    BY <2>1, <2>2 DEF Within
<1>5. ASSUME NEW t \in Thread, pc[t] = "copy"
      PROVE  \E u \in Thread : pc[u] = "copy" /\ op[u] = op[t] /\ TurnOf(u)
  <2>1. Passed(tail(op[t])) < Passed(Head0(t))
    <3>1. /\ Passed(tail(op[t])) \in Nat /\ Passed(oldHead[t]) \in Nat
          /\ num[t] \in Nat /\ num[t] > 0
      BY <1>1, <1>3, <1>5
    <3>2. Passed(Head0(t)) \in Nat
      BY Order DEF Head0
    <3> QED
      BY <1>2, <1>5, <3>1, <3>2
  <2>2. PICK u \in Thread : Copying(u, op[t]) /\ Within(u, tail(op[t]))
    <3>1. Passed(tail(op[t])) <= Passed(tail(op[t])) /\ tail(op[t]) \in Index
      BY <1>1, <1>3, <1>5
    <3>2. CASE op[t] = "enq"
      BY <2>1, <3>1, <3>2 DEF RangeInv, Head0
    <3>3. CASE op[t] = "deq"
      BY <2>1, <3>1, <3>3 DEF RangeInv, Head0
    <3> QED
      BY <1>1, <1>5, <3>2, <3>3
  <2>3. pc[u] = "copy" /\ op[u] = op[t]
    BY <2>2 DEF Copying
  <2>4. Passed(oldHead[u]) = Passed(tail(op[t]))
    BY <1>1, <1>2, <1>3, <2>2, <2>3 DEF Within
  <2>5. oldHead[u] = tail(op[t])
    BY <1>1, <1>5, <2>3, <2>4, PassedInjective
  <2> QED
    BY <2>3, <2>5 DEF TurnOf
<1>6. ASSUME NEW t \in Thread, NEW u \in Thread \ {t},
             pc[t] = "copy", TurnOf(t), pc[u] = "copy", op[u] = op[t], TurnOf(u)
      PROVE  FALSE
  <2>1. Within(t, tail(op[t])) /\ Within(u, tail(op[t]))
    BY <1>4, <1>6
  <2>2. /\ Copying(t, op[t]) /\ Copying(u, op[t])
        /\ op[t] \in {"enq", "deq"} /\ tail(op[t]) \in Index
    BY <1>1, <1>6
  <2> HIDE DEF tail
  <2> QED
    BY <1>6, <2>1, <2>2 DEF RangeInv
<1> QED
  BY <1>5, <1>6 DEF OneTurn

\* The calls that wait for a tail never wait for each other in a circle, and no two
\* publish at once: while any call of a side is copying, the tail waits for exactly one
\* of them, at which it is the turn to publish (rte_ring_generic_pvt.h 25-29).
THEOREM TurnCorrect ==
    ASSUME NoLap PROVE Spec => []OneTurn
<1>1. QInv => OneTurn
  BY TurnFromRange DEF QInv
<1> QED
  BY <1>1, QInvCorrect, PTL

-----------------------------------------------------------------------------
(* The steps of the queue.                                                 *)

\* A stretch of the ring is a sequence.
LEMMA ContentsSeq ==
    ASSUME IInv, NEW k \in Index, NEW p \in Nat, Passed(k) + p < Word
    PROVE  Contents(k, p) \in Seq(Object \cup {None}) /\ Len(Contents(k, p)) = p
<1>1. \A j \in 1..p : Contents(k, p)[j] \in Object \cup {None}
  <2>1. \A j \in 1..p : /\ Plus(k, j - 1) \in Index
                        /\ Contents(k, p)[j] = slot[SlotOf(Plus(k, j - 1))]
    BY ContentsOf
  <2> QED
    BY <2>1, SlotOfIndex DEF IInv, TypeOK, ObjectType
<1>2. Contents(k, p) = [j \in 1..p |-> Contents(k, p)[j]]
  BY DEF Contents
<1>3. Contents(k, p) \in [1..p -> Object \cup {None}]
  BY <1>1, <1>2
<1>4. Len(Contents(k, p)) = p
  BY ContentsOf
<1> QED
  BY <1>3, <1>4

\* A stretch of the ring is the stretch of its first places and that of the others.
LEMMA ContentsSplit ==
    ASSUME IInv, NEW i \in Index, NEW n \in Nat, NEW m \in Nat, m <= n, Passed(i) + n < Word
    PROVE  /\ SubSeq(Contents(i, n), 1, m) = Contents(i, m)
           /\ SubSeq(Contents(i, n), m + 1, n) = Contents(Plus(i, m), n - m)
           /\ Contents(i, n) = Contents(i, m) \o Contents(Plus(i, m), n - m)
<1> DEFINE S == Object \cup {None}
           c == Contents(i, n)
           first == Contents(i, m)
           last == Contents(Plus(i, m), n - m)
<1>1. /\ Passed(i) \in Nat /\ Word \in Nat /\ Passed(i) + m < Word /\ n - m \in Nat
      /\ Plus(i, m) \in Index /\ Passed(Plus(i, m)) = Passed(i) + m
  <2>1. Passed(i) \in Nat /\ Word \in Nat
    BY PassedIsWord, SizeAssumption
  <2>2. Passed(i) + m < Word /\ n - m \in Nat
    BY <2>1
  <2> QED
    BY <2>1, <2>2, Words, PassedPlus
<1>3. /\ c \in Seq(S) /\ Len(c) = n
      /\ first \in Seq(S) /\ Len(first) = m
      /\ last \in Seq(S) /\ Len(last) = n - m
  <2>1. Passed(Plus(i, m)) + (n - m) < Word
    BY <1>1
  <2> QED
    BY <1>1, <2>1, ContentsSeq
<1>4. \A j \in 1..n : c[j] = slot[SlotOf(Plus(i, j - 1))]
  BY ContentsOf
<1>5. \A j \in 1..m : first[j] = c[j]
  <2>1. \A j \in 1..m : first[j] = slot[SlotOf(Plus(i, j - 1))] /\ j \in 1..n
    BY <1>1, ContentsOf
  <2> QED
    BY <1>4, <2>1
<1>6. ASSUME NEW j \in 1..n - m PROVE last[j] = c[m + 1 + j - 1]
  <2>1. Passed(Plus(i, m)) + (n - m) < Word /\ m + j \in 1..n /\ m + 1 + j - 1 = m + j
    BY <1>1
  <2>2. /\ Plus(Plus(i, m), j - 1) \in Index
        /\ Passed(Plus(Plus(i, m), j - 1)) = Passed(Plus(i, m)) + (j - 1)
        /\ last[j] = slot[SlotOf(Plus(Plus(i, m), j - 1))]
    BY <1>1, <2>1, ContentsOf
  <2> DEFINE p == m + j
  <2>3. /\ Plus(i, p - 1) \in Index
        /\ Passed(Plus(i, p - 1)) = Passed(i) + (p - 1)
        /\ c[p] = slot[SlotOf(Plus(i, p - 1))]
    <3>1. p \in 1..n
      BY <2>1
    <3> HIDE DEF p
    <3> QED
      BY <3>1, ContentsOf
  <2>4. Passed(Plus(Plus(i, m), j - 1)) = Passed(Plus(i, p - 1))
    <3>1. Passed(Plus(Plus(i, m), j - 1)) = Passed(i) + m + (j - 1)
      BY <1>1, <2>2
    <3>2. Passed(Plus(i, p - 1)) = Passed(i) + (m + j - 1)
      BY <2>3
    <3>3. Passed(i) + m + (j - 1) = Passed(i) + (m + j - 1)
      BY <1>1
    <3> QED
      BY <3>1, <3>2, <3>3
  <2>5. Plus(Plus(i, m), j - 1) = Plus(i, p - 1)
    BY <2>2, <2>3, <2>4, PassedInjective
  <2> QED
    BY <2>1, <2>2, <2>3, <2>5
<1> HIDE DEF S, c, first, last
<1>7. SubSeq(c, 1, m) = first
  <2>1. \A j \in 1..m : c[j] \in S
    BY <1>3, <1>5, ElementOfSeq
  <2>2. /\ SubSeq(c, 1, m) \in Seq(S) /\ Len(SubSeq(c, 1, m)) = IF 1 <= m THEN m - 1 + 1 ELSE 0
        /\ \A j \in 1..m - 1 + 1 : SubSeq(c, 1, m)[j] = c[1 + j - 1]
    BY <2>1, SubSeqProperties
  <2>3. Len(SubSeq(c, 1, m)) = Len(first) /\ m - 1 + 1 = m
    BY <1>3, <2>2
  <2>4. \A j \in 1..Len(SubSeq(c, 1, m)) : SubSeq(c, 1, m)[j] = first[j]
    BY <1>3, <1>5, <2>2, <2>3
  <2> QED
    BY <1>3, <2>2, <2>3, <2>4, SeqEqual
<1>8. SubSeq(c, m + 1, n) = last
  <2>1. \A j \in m + 1..n : c[j] \in S
    BY <1>3, ElementOfSeq
  <2>2. /\ SubSeq(c, m + 1, n) \in Seq(S)
        /\ Len(SubSeq(c, m + 1, n)) = IF m + 1 <= n THEN n - (m + 1) + 1 ELSE 0
        /\ \A j \in 1..n - (m + 1) + 1 : SubSeq(c, m + 1, n)[j] = c[m + 1 + j - 1]
    <3>1. m + 1 \in Int /\ n \in Int
      OBVIOUS
    <3> QED
      BY <2>1, <3>1, SubSeqProperties
  <2>3. Len(SubSeq(c, m + 1, n)) = Len(last) /\ n - (m + 1) + 1 = n - m
    BY <1>3, <2>2
  <2>4. \A j \in 1..Len(SubSeq(c, m + 1, n)) : SubSeq(c, m + 1, n)[j] = last[j]
    BY <1>3, <1>6, <2>2, <2>3
  <2> QED
    BY <1>3, <2>2, <2>3, <2>4, SeqEqual
<1>9. c = first \o last
  <2>1. SubSeq(c, 1, m) \o SubSeq(c, m + 1, n) = SubSeq(c, 1, n)
    <3>1. 1 \in 1..Len(c) + 1 /\ m \in 1 - 1..Len(c) /\ n \in m..Len(c)
      BY <1>3
    <3> QED
      BY <1>3, <3>1, ConcatAdjacentSubSeq
  <2>2. SubSeq(c, 1, n) = c
    BY <1>3, SubSeqFull
  <2> QED
    BY <1>7, <1>8, <2>1, <2>2
<1> QED
  BY <1>3, <1>7, <1>8, <1>9 DEF S, c, first, last

\* The slots that are held keep what they hold.
Keeps == \A i \in Index : Held(i) => slot'[SlotOf(i)] = slot[SlotOf(i)]

\* A held stretch of the ring keeps what it holds.
LEMMA StretchKept ==
    ASSUME Keeps, NEW i \in Index, NEW n \in Nat, Passed(i) + n < Word,
           \A k \in Index : Passed(i) <= Passed(k) /\ Passed(k) < Passed(i) + n => Held(k)
    PROVE  [j \in 1..n |-> slot'[SlotOf(Plus(i, j - 1))]] = Contents(i, n)
<1>1. Passed(i) \in Nat
  BY PassedIsWord
<1>2. ASSUME NEW j \in 1..n
      PROVE  slot'[SlotOf(Plus(i, j - 1))] = slot[SlotOf(Plus(i, j - 1))]
  <2>1. Plus(i, j - 1) \in Index /\ Passed(Plus(i, j - 1)) = Passed(i) + (j - 1)
    BY ContentsOf
  <2>2. Held(Plus(i, j - 1))
    BY <1>1, <2>1
  <2> QED
    BY <2>1, <2>2 DEF Keeps
<1> QED
  BY <1>2 DEF Contents

\* The queue stays while its ends do.
LEMMA QueueKept ==
    ASSUME NoLap, IInv, Keeps, UNCHANGED <<consHead, prodTail>>
    PROVE  queue' = queue
<1> DEFINE n == Passed(prodTail) - Passed(consHead)
<1>1. /\ consHead \in Index /\ prodTail \in Index /\ n \in Nat
      /\ Passed(consHead) + n = Passed(prodTail) /\ Passed(consHead) + n < Word
  BY Order, PassedBound DEF IInv, TypeOK, IndexType
<1>2. Minus(prodTail, consHead) = n
  BY <1>1, Order, MinusPassed
<1>3. \A k \in Index : Passed(consHead) <= Passed(k) /\ Passed(k) < Passed(prodTail) => Held(k)
  BY Order, PassedIsWord DEF Held
<1> HIDE DEF n
<1>4. queue' = [j \in 1..n |-> slot'[SlotOf(Plus(consHead, j - 1))]]
  BY <1>2 DEF queue, Contents
<1>5. queue = Contents(consHead, n)
  BY <1>2 DEF queue
<1> QED
  BY <1>1, <1>3, <1>4, <1>5, StretchKept

\* A hand stays while its call does nothing.
LEMMA HandKept ==
    ASSUME NoLap, IInv, RangeInv, Keeps, NEW t \in Thread,
           op'[t] = op[t], op[t] = "enq" => table'[t] = table[t],
           op[t] = "deq" => (pc'[t] = "copy" <=> pc[t] = "copy"),
           Copying(t, "deq") => oldHead'[t] = oldHead[t] /\ num'[t] = num[t]
    PROVE  hand'[t] = hand[t]
<1>1. CASE op[t] = "enq"
  BY <1>1 DEF hand
<1>2. CASE Copying(t, "deq")
  <2>1. [j \in 1..num[t] |-> slot'[SlotOf(Plus(oldHead[t], j - 1))]]
            = Contents(oldHead[t], num[t])
    BY <1>2, Reservation, StretchKept DEF Within
  <2>2. hand'[t] = [j \in 1..num[t] |-> slot'[SlotOf(Plus(oldHead[t], j - 1))]]
    BY <1>2 DEF hand, Contents, Copying
  <2>3. hand[t] = Contents(oldHead[t], num[t])
    BY <1>2, HandIs
  <2> QED
    BY <2>1, <2>2, <2>3
<1>3. CASE op[t] = "deq" /\ pc[t] # "copy"
  BY <1>3 DEF hand
<1> QED
  BY <1>1, <1>2, <1>3 DEF IInv, TypeOK, CallType, Copying

\* One hand changes.
LEMMA OneHand ==
    ASSUME NEW t \in Thread, NEW s, hand'[t] = s,
           \A u \in Thread \ {t} : hand'[u] = hand[u]
    PROVE  hand' = [hand EXCEPT ![t] = s]
<1>1. hand = [u \in Thread |-> hand[u]]
  BY DEF hand
<1>2. hand' = [u \in Thread |-> hand'[u]]
  BY DEF hand
<1> QED
  BY <1>1, <1>2

\* The hands of the threads that do nothing stay.
LEMMA OtherHands ==
    ASSUME NoLap, IInv, RangeInv, Keeps, NEW t \in Thread,
           \A u \in Thread \ {t} :
               /\ op'[u] = op[u] /\ table'[u] = table[u] /\ pc'[u] = pc[u]
               /\ oldHead'[u] = oldHead[u] /\ num'[u] = num[u]
    PROVE  \A u \in Thread \ {t} : hand'[u] = hand[u]
BY HandKept

\* The steps that the queue does not see.
LEMMA Unseen ==
    ASSUME NoLap, QInv, NEW t \in Thread,
           \/ LoadHead(t) \/ Reserve(t) \/ Retry(t) \/ Kill(t)
           \/ StoreElement(t) \/ LoadElement(t)
           \/ MoveHead(t) /\ op[t] = "enq"
    PROVE  UNCHANGED <<queue, hand>>
<1>1. IInv /\ RangeInv
  BY DEF QInv
<1>2. Keeps
  BY <1>1, InsideCall DEF Settled, Keeps
<1>3. UNCHANGED <<op, prodTail, consHead>>
  BY DEF LoadHead, Reserve, MoveHead, Retry, Kill, StoreElement, LoadElement, index, request
<1>4. \A u \in Thread :
        /\ op[u] = "enq" => table'[u] = table[u]
        /\ op[u] = "deq" => (pc'[u] = "copy" <=> pc[u] = "copy")
        /\ Copying(u, "deq") => oldHead'[u] = oldHead[u] /\ num'[u] = num[u]
  <2> USE <1>1 DEF IInv, TypeOK, CallType, IndexType, ObjectType, Copying
  <2>1. CASE LoadHead(t)
    BY <2>1 DEF LoadHead
  <2>2. CASE Reserve(t)
    BY <2>2 DEF Reserve
  <2>3. CASE Retry(t)
    BY <2>3 DEF Retry
  <2>4. CASE Kill(t)
    BY <2>4 DEF Kill
  <2>5. CASE StoreElement(t)
    BY <2>5 DEF StoreElement
  <2>6. CASE LoadElement(t)
    BY <2>6 DEF LoadElement
  <2>7. CASE MoveHead(t) /\ op[t] = "enq"
    BY <2>7 DEF MoveHead
  <2> QED
    BY <2>1, <2>2, <2>3, <2>4, <2>5, <2>6, <2>7
<1>5. \A u \in Thread : hand'[u] = hand[u]
  BY <1>1, <1>2, <1>3, <1>4, HandKept
<1>6. hand' = hand
  <2>1. hand' = [u \in Thread |-> hand'[u]]
    BY DEF hand
  <2>2. hand = [u \in Thread |-> hand[u]]
    BY DEF hand
  <2> QED
    BY <1>5, <2>1, <2>2
<1> QED
  BY <1>1, <1>2, <1>3, <1>6, QueueKept

\* A call to enqueue offers its objects; a call to dequeue begins unseen.
LEMMA BeginSeen ==
    ASSUME NoLap, QInv, NEW t \in Thread, NEW o, NEW s, NEW k, NEW b,
           Call(o, s, k, b), Begin(t, o, s, k, b)
    PROVE  Abstract!Offer(t) \/ UNCHANGED <<queue, hand>>
<1>1. IInv /\ RangeInv /\ IdleInv
  BY DEF QInv
<1>2. /\ op' = [op EXCEPT ![t] = o] /\ table' = [table EXCEPT ![t] = s]
      /\ pc' = [pc EXCEPT ![t] = "head"] /\ pc[t] = "idle"
      /\ UNCHANGED <<slot, consHead, prodTail, oldHead, num>>
  BY DEF Begin, index
<1>3. op'[t] = o /\ table'[t] = s /\ pc'[t] = "head" /\ o \in {"enq", "deq"}
  BY <1>1, <1>2 DEF Call, IInv, TypeOK, CallType, ObjectType
<1>4. Keeps
  BY <1>2 DEF Keeps
<1>5. queue' = queue
  BY <1>1, <1>2, <1>4, QueueKept
<1>6. \A u \in Thread \ {t} : hand'[u] = hand[u]
  <2>1. \A u \in Thread \ {t} :
            /\ op'[u] = op[u] /\ table'[u] = table[u] /\ pc'[u] = pc[u]
            /\ oldHead'[u] = oldHead[u] /\ num'[u] = num[u]
    BY <1>1, <1>2 DEF IInv, TypeOK, CallType, ObjectType
  <2> QED
    BY <1>1, <1>4, <2>1, OtherHands
<1>7. hand[t] = <<>>
  BY <1>1, <1>2, HandIs DEF IdleInv
<1>8. CASE o = "enq"
  <2>1. hand'[t] = s
    BY <1>3, <1>8 DEF hand
  <2>2. s \in Table(outside) /\ s \in Seq(Object)
    BY <1>8 DEF Call
  <2>3. outside \subseteq Abstract!Outside
    <3>1. OneOwner /\ outside \subseteq Object
      BY <1>1, QInvOwner DEF IInv, TypeOK, ObjectType
    <3>2. \A r : Abstract!In(r) = In(r)
      BY DEF Abstract!In, In
    <3> QED
      BY <3>1, <3>2 DEF OneOwner, Abstract!Outside
  <2>4. s \in Seq(Abstract!Outside)
    <3>1. PICK n \in 1..MaxBulk : s \in [1..n -> outside]
      BY <2>2 DEF Table
    <3>2. s \in [1..n -> Abstract!Outside]
      BY <2>3, <3>1
    <3>3. n \in Nat
      BY BoundAssumption
    <3> QED
      BY <3>2, <3>3
  <2>5. Abstract!Distinct(s)
    BY <2>2 DEF Table, Abstract!Distinct
  <2>6. hand' = [hand EXCEPT ![t] = s]
    BY <1>6, <2>1, OneHand
  <2> QED
    BY <1>5, <1>7, <2>1, <2>4, <2>5, <2>6 DEF Abstract!Offer
<1>9. CASE o = "deq"
  <2>1. hand'[t] = <<>>
    BY <1>3, <1>9 DEF hand
  <2>2. hand' = [hand EXCEPT ![t] = <<>>]
    BY <1>6, <2>1, OneHand
  <2>3. hand = [u \in Thread |-> hand[u]]
    BY DEF hand
  <2> QED
    BY <1>5, <1>7, <2>2, <2>3
<1> QED
  BY <1>3, <1>8, <1>9

\* The end of a call empties the hand of its thread, and leaves the others theirs.
LEMMA EmptyHand ==
    ASSUME NoLap, IInv, RangeInv, Keeps, NEW t \in Thread, NEW back, Return(t, back)
    PROVE  hand' = [hand EXCEPT ![t] = <<>>]
<1>1. /\ op' = [op EXCEPT ![t] = "enq"] /\ table' = [table EXCEPT ![t] = <<>>]
      /\ pc' = [pc EXCEPT ![t] = "idle"] /\ oldHead' = [oldHead EXCEPT ![t] = 0]
      /\ num' = [num EXCEPT ![t] = 0]
  BY DEF Return
<1>2. op'[t] = "enq" /\ table'[t] = <<>>
  BY <1>1 DEF IInv, TypeOK, CallType, ObjectType
<1>3. hand'[t] = <<>>
  BY <1>2 DEF hand
<1>4. \A u \in Thread \ {t} :
        /\ op'[u] = op[u] /\ table'[u] = table[u] /\ pc'[u] = pc[u]
        /\ oldHead'[u] = oldHead[u] /\ num'[u] = num[u]
  BY <1>1 DEF IInv, TypeOK, CallType, ObjectType, IndexType
<1> QED
  BY <1>3, <1>4, OtherHands, OneHand

\* A call that is refused returns.
LEMMA RefuseSeen ==
    ASSUME NoLap, QInv, NEW t \in Thread, Refuse(t)
    PROVE  Abstract!Return(t)
<1>1. IInv /\ RangeInv
  BY DEF QInv
<1>2. Return(t, In(table[t])) /\ UNCHANGED <<slot, consHead, prodTail>>
  BY DEF Refuse, index
<1>3. Keeps
  BY <1>2 DEF Keeps
<1> QED
  BY <1>1, <1>2, <1>3, EmptyHand, QueueKept DEF Abstract!Return

\* A dequeue takes its objects when it moves the head.
LEMMA TakeSeen ==
    ASSUME NoLap, QInv, NEW t \in Thread, MoveHead(t), op[t] = "deq"
    PROVE  \E n \in 1..Len(queue) : Abstract!Take(t, n)
<1> DEFINE n == num[t]
           N == Passed(prodTail) - Passed(consHead)
<1>1. IInv /\ RangeInv
  BY DEF QInv
<1>2. /\ oldHead[t] = consHead /\ consHead' = Plus(consHead, n)
      /\ pc' = [pc EXCEPT ![t] = "copy"] /\ pc[t] = "swap"
      /\ UNCHANGED <<prodTail, slot, op, oldHead, num, table>>
  BY DEF MoveHead, HeadUnmoved, Head0, request
<1>3. /\ n \in Nat /\ n > 0 /\ consHead \in Index /\ prodTail \in Index
      /\ pc'[t] = "copy"
  BY <1>1, <1>2, BoundAssumption DEF IInv, TypeOK, CallType, IndexType
<1>4. /\ Passed(consHead') = Passed(consHead) + n /\ Passed(consHead') <= Passed(prodTail)
      /\ Passed(consHead) \in Nat /\ Passed(prodTail) \in Nat
      /\ Passed(prodTail) < Word
  BY <1>1, <1>3, HeadMoves, Order, PassedIsWord
<1>5. /\ N \in Nat /\ n <= N /\ Passed(consHead) + N < Word
      /\ queue = Contents(consHead, N) /\ Len(queue) = N
  BY <1>1, <1>3, <1>4, QueueIs
<1>6. /\ SubSeq(queue, 1, n) = Contents(consHead, n)
      /\ SubSeq(queue, n + 1, N) = Contents(Plus(consHead, n), N - n)
  BY <1>1, <1>3, <1>5, ContentsSplit
<1>7. queue' = Contents(Plus(consHead, n), N - n)
  <2>1. Plus(consHead, n) \in Index
    BY <1>3, Words
  <2>2. Minus(prodTail, Plus(consHead, n)) = N - n
    BY <1>2, <1>3, <1>4, <2>1, MinusPassed
  <2> HIDE DEF N, n
  <2> QED
    BY <1>2, <2>2 DEF queue, Contents
<1>8. hand[t] = <<>>
  BY <1>1, <1>2, HandIs
<1>9. hand'[t] = Contents(consHead, n)
  <2> HIDE DEF n
  <2>1. oldHead'[t] = consHead /\ num'[t] = n /\ op'[t] = "deq" /\ slot' = slot
    BY <1>2 DEF n
  <2> QED
    BY <1>3, <2>1 DEF hand, Contents
<1>10. \A u \in Thread \ {t} : hand'[u] = hand[u]
  <2>1. Keeps
    BY <1>2 DEF Keeps
  <2>2. \A u \in Thread \ {t} :
            /\ op'[u] = op[u] /\ table'[u] = table[u] /\ pc'[u] = pc[u]
            /\ oldHead'[u] = oldHead[u] /\ num'[u] = num[u]
    BY <1>1, <1>2 DEF IInv, TypeOK, CallType
  <2> QED
    BY <1>1, <2>1, <2>2, OtherHands
<1>11. hand' = [hand EXCEPT ![t] = SubSeq(queue, 1, n)]
  BY <1>6, <1>9, <1>10, OneHand
<1>12. n \in 1..Len(queue)
  BY <1>3, <1>5
<1> HIDE DEF n, N
<1>13. Abstract!Take(t, n)
  BY <1>5, <1>6, <1>7, <1>8, <1>11 DEF Abstract!Take
<1> QED
  BY <1>12, <1>13

\* An enqueue puts its objects when it moves the tail.
LEMMA PutSeen ==
    ASSUME NoLap, QInv, NEW t \in Thread, UpdateTail(t), op[t] = "enq"
    PROVE  \E n \in 1..Len(hand[t]) : Abstract!Put(t, n)
<1> DEFINE n == num[t]
           N == Passed(prodTail) - Passed(consHead)
<1>1. IInv /\ RangeInv /\ CopyInv
  BY DEF QInv
<1>2. /\ pc[t] = "copy" /\ done[t] = n /\ UNCHANGED <<slot, consHead>>
      /\ Return(t, In(SubSeq(table[t], n + 1, want[t])))
      /\ oldHead[t] = prodTail /\ prodTail' = Plus(prodTail, n)
  BY DEF UpdateTail, TurnOf
<1>3. /\ n \in Nat /\ n > 0 /\ consHead \in Index /\ prodTail \in Index
      /\ want[t] \in Nat /\ n <= want[t]
      /\ table[t] \in Seq(Object) /\ Len(table[t]) = want[t]
  BY <1>1, <1>2, BoundAssumption DEF IInv, TypeOK, CallType, IndexType, ObjectType
<1>4. /\ Passed(prodTail') = Passed(prodTail) + n
      /\ Passed(prodTail) + n <= Passed(prodHead)
      /\ Passed(consTail) \in Nat /\ Passed(consHead) \in Nat /\ Passed(prodTail) \in Nat
      /\ Passed(prodHead) \in Nat /\ Passed(consTail) <= Passed(consHead)
      /\ Passed(consHead) <= Passed(prodTail)
      /\ Passed(prodHead) <= Passed(consTail) + Capacity
      /\ Capacity \in Nat /\ Word \in Nat
      /\ Passed(prodTail) + n < Word
  <2>1. /\ Passed(prodTail') = Passed(prodTail) + n /\ Passed(prodTail') <= Passed(prodHead)
    BY <1>1, TailMoves
  <2>2. Passed(prodHead) + Capacity < Word /\ Capacity \in Nat /\ Word \in Nat
    BY <1>1, PassedBound
  <2> QED
    BY <1>1, <1>3, <2>1, <2>2, Order
<1>5. /\ N \in Nat /\ queue = Contents(consHead, N) /\ Len(queue) = N
      /\ Passed(consHead) + (N + n) < Word
      /\ Passed(consHead) + N = Passed(prodTail)
  BY <1>1, <1>3, <1>4, QueueIs
<1>6. N + n <= Capacity
  BY <1>3, <1>4
<1>7. Plus(consHead, N) = prodTail
  <2>1. Passed(consHead) + N < Word
    BY <1>3, <1>4, <1>5
  <2>2. Passed(Plus(consHead, N)) = Passed(prodTail) /\ Plus(consHead, N) \in Index
    BY <1>3, <1>5, <2>1, PassedPlus, Words
  <2> QED
    BY <1>3, <2>2, PassedInjective
<1>8. /\ queue' = Contents(consHead, N + n)
      /\ Contents(consHead, N + n) = Contents(consHead, N) \o Contents(prodTail, n)
  <2>1. N + n \in Nat /\ N <= N + n /\ (N + n) - N = n
    BY <1>3, <1>5
  <2>2. Contents(consHead, N + n) = Contents(consHead, N) \o Contents(prodTail, n)
    <3> DEFINE M == N + n
    <3>1. M \in Nat /\ N <= M /\ M - N = n /\ Passed(consHead) + M < Word
      BY <1>5, <2>1
    <3> HIDE DEF M
    <3>2. Contents(consHead, M) = Contents(consHead, N) \o Contents(Plus(consHead, N), M - N)
      BY <1>1, <1>3, <1>5, <3>1, ContentsSplit
    <3> QED
      BY <1>7, <3>1, <3>2 DEF M
  <2>3. Minus(prodTail', consHead) = N + n
    <3>1. prodTail' \in Index /\ Passed(prodTail') - Passed(consHead) = N + n
          /\ Passed(consHead) <= Passed(prodTail')
      <4>1. prodTail' \in Index
        BY <1>2, <1>3, Words
      <4> QED
        BY <1>3, <1>4, <4>1
    <3> QED
      BY <1>3, <3>1, MinusPassed
  <2> HIDE DEF n, N
  <2>4. queue' = Contents(consHead, N + n)
    BY <1>2, <2>3 DEF queue, Contents
  <2> QED
    BY <2>2, <2>4
<1>9. Contents(prodTail, n) = SubSeq(table[t], 1, n)
  <2> DEFINE a == SubSeq(table[t], 1, n)
             c == Contents(prodTail, n)
             S == Object \cup {None}
  <2>1. c \in Seq(S)
    BY <1>1, <1>3, <1>4, ContentsSeq
  <2>2. /\ Len(c) = n
        /\ \A j \in 1..n : /\ Plus(prodTail, j - 1) \in Index
                           /\ Passed(Plus(prodTail, j - 1)) = Passed(prodTail) + (j - 1)
                           /\ c[j] = slot[SlotOf(Plus(prodTail, j - 1))]
    BY <1>3, <1>4, ContentsOf
  <2>3. \A j \in 1..n : table[t][j] \in S
    BY <1>3, ElementOfSeq
  <2>4. /\ a \in Seq(S) /\ Len(a) = IF 1 <= n THEN n - 1 + 1 ELSE 0
        /\ \A j \in 1..n - 1 + 1 : a[j] = table[t][1 + j - 1]
    <3>1. 1 \in Int /\ n \in Int
      BY <1>3
    <3> QED
      BY <2>3, <3>1, SubSeqProperties
  <2> HIDE DEF a, c
  <2>5. Len(a) = n /\ \A j \in 1..n : a[j] = table[t][j]
    BY <1>3, <2>4
  <2>6. ASSUME NEW j \in 1..n PROVE c[j] = table[t][j]
    <3> DEFINE i == Plus(prodTail, j - 1)
    <3>1. i \in Index /\ Passed(i) = Passed(prodTail) + (j - 1) /\ c[j] = slot[SlotOf(i)]
      BY <2>2
    <3> HIDE DEF i
    <3>2. /\ Passed(oldHead[t]) <= Passed(i) /\ Passed(i) < Passed(oldHead[t]) + done[t]
          /\ Passed(i) - Passed(oldHead[t]) + 1 = j
      BY <1>2, <1>3, <1>4, <3>1
    <3>3. slot[SlotOf(i)] = table[t][Passed(i) - Passed(oldHead[t]) + 1]
      BY <1>1, <1>2, <3>1, <3>2 DEF CopyInv
    <3> QED
      BY <3>1, <3>2, <3>3
  <2>7. \A j \in 1..Len(c) : c[j] = a[j]
    BY <2>2, <2>5, <2>6
  <2>8. c = a
    BY <2>1, <2>2, <2>4, <2>5, <2>7, SeqEqual
  <2> QED
    BY <2>8 DEF a, c
<1>10. hand[t] = table[t]
  BY <1>1, HandIs
<1>11. hand' = [hand EXCEPT ![t] = <<>>]
  <2>1. Keeps
    BY <1>2 DEF Keeps
  <2> QED
    BY <1>1, <1>2, <2>1, EmptyHand
<1>12. n \in 1..Len(hand[t])
  BY <1>3, <1>10
<1> HIDE DEF n, N
<1>13. Abstract!Put(t, n)
  BY <1>5, <1>6, <1>8, <1>9, <1>10, <1>11 DEF Abstract!Put
<1> QED
  BY <1>12, <1>13

\* A dequeue that has published its slots returns.
LEMMA ReturnSeen ==
    ASSUME NoLap, QInv, NEW t \in Thread, UpdateTail(t), op[t] = "deq"
    PROVE  Abstract!Return(t)
<1>1. IInv /\ RangeInv
  BY DEF QInv
<1>2. Return(t, In(table[t])) /\ UNCHANGED <<slot, consHead, prodTail>>
  BY DEF UpdateTail
<1>3. Keeps
  BY <1>2 DEF Keeps
<1> QED
  BY <1>1, <1>2, <1>3, EmptyHand, QueueKept DEF Abstract!Return

\* The ring begins as an empty queue.
LEMMA InitSeen ==
    ASSUME Init PROVE Abstract!Init
<1>1. Minus(Start, Start) = 0
  BY SizeAssumption DEF Minus
<1>2. queue = <<>>
  BY <1>1 DEF Init, queue, Contents
<1>3. hand = [t \in Thread |-> <<>>]
  BY DEF Init, hand
<1> QED
  BY <1>2, <1>3 DEF Abstract!Init

\* Every step of the ring is a step of the queue, or none.
LEMMA NextSeen ==
    ASSUME NoLap, QInv, [Next]_vars
    PROVE  Abstract!Next \/ UNCHANGED <<queue, hand>>
<1>1. ASSUME NEW t \in Thread, NEW o, NEW s, NEW k, NEW b, Call(o, s, k, b),
             Begin(t, o, s, k, b)
      PROVE  Abstract!Next \/ UNCHANGED <<queue, hand>>
  BY <1>1, BeginSeen DEF Abstract!Next
<1>2. ASSUME NEW t \in Thread,
             \/ LoadHead(t) \/ Reserve(t) \/ Retry(t) \/ Kill(t)
             \/ StoreElement(t) \/ LoadElement(t)
      PROVE  UNCHANGED <<queue, hand>>
  BY <1>2, Unseen
<1>3. ASSUME NEW t \in Thread, MoveHead(t) \/ UpdateTail(t)
      PROVE  Abstract!Next \/ UNCHANGED <<queue, hand>>
  <2>1. CASE op[t] = "enq"
    BY <1>3, <2>1, Unseen, PutSeen DEF Abstract!Next
  <2>2. CASE op[t] = "deq"
    BY <1>3, <2>2, TakeSeen, ReturnSeen DEF Abstract!Next
  <2> QED
    BY <2>1, <2>2 DEF QInv, IInv, TypeOK, CallType
<1>4. ASSUME NEW t \in Thread, Refuse(t)
      PROVE  Abstract!Next
  BY <1>4, RefuseSeen DEF Abstract!Next
<1>5. CASE UNCHANGED vars
  <2>1. UNCHANGED <<consHead, prodTail, slot, op, pc, table, oldHead, num>>
    BY <1>5 DEF vars, index, request
  <2> QED
    BY <2>1 DEF queue, hand, Contents
<1>6. IInv
  BY DEF QInv
<1> QED
  BY <1>1, <1>2, <1>3, <1>4, <1>5, <1>6, CallOfEnqueue, CallOfDequeue
     DEF Next, NextWith, Step, Enqueue, Dequeue

\* The overlapping calls of any number of threads amount to a bounded queue on which an
\* enqueue takes effect when it moves the tail, and a dequeue when it moves the head,
\* across the wrap of the indices and whoever is killed (rte_ring_elem_pvt.h 320-389).
THEOREM QueueCorrect ==
    ASSUME NoLap PROVE Spec => ImplementsQueue
<1>1. Init => Abstract!Init
  BY InitSeen
<1>2. QInv /\ [Next]_vars => [Abstract!Next]_<<queue, hand>>
  BY NextSeen
<1> QED
  BY <1>1, <1>2, QInvCorrect, PTL
     DEF Spec, ImplementsQueue, Abstract!Spec, Abstract!vars
=============================================================================
