----------------------------- MODULE RteRingProofs ------------------------------
EXTENDS RteRing, SequenceTheorems, FiniteSetTheorems, TLAPS

\* The inductive invariant.
IInv == TypeOK /\ PassInv /\ OrderInv /\ CallInv /\ WrittenInv

-----------------------------------------------------------------------------
(* The arithmetic of indices.                                              *)

\* A word plus a number less than Word wraps once at most.
LEMMA WrapOnce ==
    ASSUME NEW x \in Nat, x < 2 * Word
    PROVE  x % Word = IF x < Word THEN x ELSE x - Word
BY SizeAssumption

\* Sums and differences of words are words.
LEMMA Words ==
    ASSUME NEW i \in Index, NEW j \in Index, NEW n \in Nat
    PROVE  /\ Plus(i, n) \in Index
           /\ Minus(i, j) \in Index
           /\ Minus(i, j) = IF j <= i THEN i - j ELSE i + Word - j
<1>1. Word \in Nat /\ Word > 1
  BY SizeAssumption
<1>2. Plus(i, n) \in Index
  BY <1>1 DEF Index, Plus
<1>3. i + Word - j \in Nat /\ i + Word - j < 2 * Word
  BY <1>1 DEF Index
<1>4. Minus(i, j) = IF i + Word - j < Word THEN i + Word - j ELSE i + Word - j - Word
  BY <1>1, <1>3, WrapOnce DEF Minus, Index
<1> QED
  BY <1>1, <1>2, <1>4 DEF Index

\* The number of objects that have passed is a word.
LEMMA PassedIsWord ==
    ASSUME NEW i \in Index
    PROVE  /\ Passed(i) \in Nat /\ Passed(i) < Word
           /\ Passed(i) = IF Start <= i THEN i - Start ELSE i + Word - Start
<1>1. Start \in Index /\ Word \in Nat
  BY SizeAssumption DEF Index
<1> QED
  BY <1>1, Words DEF Passed, Index

\* An index that goes on by n has passed n objects more, unless it laps its start.
LEMMA PassedPlus ==
    ASSUME NEW i \in Index, NEW n \in Nat, Passed(i) + n < Word
    PROVE  Passed(Plus(i, n)) = Passed(i) + n
<1>1. Start \in Index /\ Word \in Nat /\ i \in Nat /\ i < Word
  BY SizeAssumption DEF Index
<1>2. Plus(i, n) = IF i + n < Word THEN i + n ELSE i + n - Word
  <2>1. n < Word
    BY <1>1, PassedIsWord
  <2>2. i + n \in Nat /\ i + n < 2 * Word
    BY <1>1, <2>1
  <2> QED
    BY <1>1, <2>2, WrapOnce DEF Plus
<1>3. /\ Passed(i) = IF Start <= i THEN i - Start ELSE i + Word - Start
      /\ Passed(Plus(i, n)) =
            IF Start <= Plus(i, n) THEN Plus(i, n) - Start ELSE Plus(i, n) + Word - Start
  BY Words, PassedIsWord
<1> QED
  BY <1>1, <1>2, <1>3 DEF Index

\* The difference of two indices is the difference of what has passed.
LEMMA MinusPassed ==
    ASSUME NEW i \in Index, NEW j \in Index, Passed(j) <= Passed(i)
    PROVE  Minus(i, j) = Passed(i) - Passed(j)
<1>1. Start \in Index /\ Word \in Nat
  BY SizeAssumption DEF Index
<1>2. Minus(i, j) = IF j <= i THEN i - j ELSE i + Word - j
  BY Words
<1>3. /\ Passed(i) = IF Start <= i THEN i - Start ELSE i + Word - Start
      /\ Passed(j) = IF Start <= j THEN j - Start ELSE j + Word - Start
  BY PassedIsWord
<1> QED
  BY <1>1, <1>2, <1>3 DEF Index

-----------------------------------------------------------------------------
(* What calls are given and granted.                                       *)

\* A call of a user.
Call(o, s, k, b) ==
    /\ b \in BOOLEAN /\ k \in 1..MaxBulk
    /\ \/ o = "enq" /\ s \in Table(outside) /\ s \in Seq(Object) /\ Len(s) = k
       \/ o = "deq" /\ s = <<>>

LEMMA CallOfEnqueue ==
    ASSUME NEW s \in Table(outside), NEW b \in Behavior(Len(s)), IInv
    PROVE  Call("enq", s, Len(s), b)
<1>1. PICK k \in 1..MaxBulk : s \in [1..k -> outside]
  BY DEF Table
<1>2. s \in Seq(outside) /\ Len(s) = k
  BY <1>1, BoundAssumption
<1>3. s \in Seq(Object)
  BY <1>1, BoundAssumption DEF IInv, TypeOK, ObjectType
<1> QED
  BY <1>1, <1>2, <1>3 DEF Call, Behavior

LEMMA CallOfDequeue ==
    ASSUME NEW k \in 1..MaxBulk, NEW b \in Behavior(k)
    PROVE  Call("deq", <<>>, k, b)
BY DEF Call, Behavior

\* The indices that a step stores are words.
LEMMA NewIndex ==
    ASSUME IndexType, CallType, NEW t \in Thread
    PROVE  0 \in Index /\ Head0(t) \in Index /\ Plus(oldHead[t], num[t]) \in Index
<1>1. 0 \in Index
  BY SizeAssumption DEF Index
<1>2. Head0(t) \in Index
  BY DEF IndexType, Head0
<1>3. oldHead[t] \in Index /\ num[t] \in Nat
  BY BoundAssumption DEF IndexType, CallType
<1> QED
  BY <1>1, <1>2, <1>3, Words

\* No more is granted than was asked for.
LEMMA GrantedBound ==
    ASSUME TypeOK, NEW t \in Thread
    PROVE  /\ Room(t) \in Nat /\ Granted(t) \in 0..MaxBulk
           /\ Granted(t) <= want[t] /\ Granted(t) <= Room(t)
<1>1. /\ consTail \in Index /\ prodTail \in Index /\ oldHead[t] \in Index
      /\ want[t] \in 0..MaxBulk /\ MaxBulk \in Nat
  BY BoundAssumption DEF TypeOK, IndexType, CallType
<1>2. Capacity \in Index /\ \A i \in Index : i \in Nat
  BY SizeAssumption DEF Capacity, Index
<1>3. Plus(Capacity, consTail) \in Index
  BY <1>1, <1>2, Words
<1>4. /\ Minus(Plus(Capacity, consTail), oldHead[t]) \in Index
      /\ Minus(prodTail, oldHead[t]) \in Index
  BY <1>1, <1>3, <1>2, Words
<1>5. Room(t) \in Nat
  BY <1>2, <1>4 DEF Room
<1> QED
  BY <1>1, <1>5 DEF Granted

-----------------------------------------------------------------------------
(* What the order of the indices says of a call.                           *)

\* What has passed the indices are numbers that stay below the wrap, even with what a
\* call may still add.
LEMMA PassedBound ==
    ASSUME NoLap, IInv
    PROVE  /\ Passed(prodHead) + Capacity < Word
           /\ \A t \in Reserving : Passed(prodHead) + MaxBulk <= MaxBulk * calls
           /\ MaxBulk * calls + Capacity < Word
           /\ Capacity \in Nat /\ MaxBulk \in Nat /\ MaxBulk * calls \in Nat /\ Word \in Nat
           /\ Cardinality(Reserving) \in Nat
<1> DEFINE n == Cardinality(Reserving)
<1>1. IsFiniteSet(Reserving)
  BY ThreadAssumption, FS_Subset DEF Reserving
<1>2. n \in Nat /\ \A t \in Reserving : n > 0
  BY <1>1, FS_CardinalityType, FS_EmptySet
<1>3. /\ MaxBulk \in Nat /\ MaxCalls \in Nat /\ calls \in Nat /\ calls <= MaxCalls
      /\ Capacity \in Nat /\ Word \in Nat /\ prodHead \in Index
  BY SizeAssumption, BoundAssumption DEF IInv, TypeOK, CallType, IndexType, Capacity
<1>4. Passed(prodHead) \in Nat /\ Passed(prodHead) + MaxBulk * n <= MaxBulk * calls
  BY <1>3, PassedIsWord DEF IInv, PassInv
<1> HIDE DEF n
<1>5. MaxBulk * calls <= MaxBulk * MaxCalls /\ MaxBulk * calls \in Nat /\ MaxBulk * n \in Nat
  BY <1>2, <1>3
<1>6. n > 0 => MaxBulk <= MaxBulk * n
  BY <1>2, <1>3
<1>7. Capacity + MaxBulk * MaxCalls < Word /\ MaxBulk * MaxCalls \in Nat
  BY <1>3 DEF NoLap
<1>8. \A t \in Reserving : Passed(prodHead) + MaxBulk <= MaxBulk * calls
  BY <1>2, <1>3, <1>4, <1>5, <1>6
<1>9. MaxBulk * calls + Capacity < Word
  BY <1>3, <1>5, <1>7
<1> QED
  BY <1>2, <1>3, <1>4, <1>5, <1>8, <1>9 DEF n

\* The indices in numbers.
LEMMA Order ==
    ASSUME NoLap, IInv
    PROVE  /\ Passed(consTail) \in Nat /\ Passed(consHead) \in Nat
           /\ Passed(prodTail) \in Nat /\ Passed(prodHead) \in Nat
           /\ Passed(consTail) <= Passed(consHead)
           /\ Passed(consHead) <= Passed(prodTail)
           /\ Passed(prodTail) <= Passed(prodHead)
           /\ Passed(prodHead) <= Passed(consTail) + Capacity
           /\ \A t \in Thread : Passed(oldHead[t]) \in Nat
BY PassedIsWord DEF IInv, TypeOK, IndexType, OrderInv

\* The room that a call computes is what is left up to its limit.
LEMMA RoomIsLeft ==
    ASSUME NoLap, IInv, NEW t \in Thread, pc[t] = "room"
    PROVE  /\ Limit(t) \in Nat
           /\ Passed(oldHead[t]) <= Limit(t)
           /\ Room(t) = Limit(t) - Passed(oldHead[t])
<1>1. /\ oldHead[t] \in Index /\ prodTail \in Index /\ consTail \in Index
      /\ op[t] \in {"enq", "deq"}
      /\ Passed(oldHead[t]) <= Passed(IF op[t] = "enq" THEN prodHead ELSE consHead)
  BY DEF IInv, TypeOK, IndexType, CallType, CallInv, Head0
<1>2. CASE op[t] = "enq"
  <2>1. Passed(consTail) + Capacity < Word
    BY Order, PassedBound
  <2>2. Passed(Plus(consTail, Capacity)) = Passed(consTail) + Capacity
    BY <1>1, <2>1, PassedPlus, PassedBound
  <2>3. Plus(Capacity, consTail) = Plus(consTail, Capacity)
    BY <1>1, PassedBound DEF Plus, Index
  <2>4. Plus(consTail, Capacity) \in Index
    BY <1>1, Words, PassedBound
  <2>5. Passed(oldHead[t]) <= Passed(Plus(consTail, Capacity))
    BY <1>1, <1>2, <2>2, Order, PassedBound
  <2>6. Minus(Plus(consTail, Capacity), oldHead[t])
            = Passed(Plus(consTail, Capacity)) - Passed(oldHead[t])
    BY <1>1, <2>4, <2>5, MinusPassed
  <2> QED
    BY <1>2, <2>2, <2>3, <2>5, <2>6, Order, PassedBound DEF Room, Limit
<1>3. CASE op[t] = "deq"
  <2>1. Passed(oldHead[t]) <= Passed(prodTail)
    BY <1>1, <1>3, Order
  <2>2. Minus(prodTail, oldHead[t]) = Passed(prodTail) - Passed(oldHead[t])
    BY <1>1, <2>1, MinusPassed
  <2> QED
    BY <1>3, <2>1, <2>2, Order DEF Room, Limit
<1> QED
  BY <1>1, <1>2, <1>3

\* A head that moves goes on by what was reserved, up to its limit.
LEMMA HeadMoves ==
    ASSUME NoLap, IInv, NEW t \in Thread, MoveHead(t)
    PROVE  /\ num[t] \in Nat
           /\ UNCHANGED <<prodTail, consTail>>
           /\ op[t] = "enq" =>
                /\ Passed(prodHead') = Passed(prodHead) + num[t]
                /\ Passed(prodHead) = Passed(oldHead[t])
                /\ Passed(prodHead') <= Passed(consTail) + Capacity
                /\ UNCHANGED consHead
           /\ op[t] = "deq" =>
                /\ Passed(consHead') = Passed(consHead) + num[t]
                /\ Passed(consHead) = Passed(oldHead[t])
                /\ Passed(consHead') <= Passed(prodTail)
                /\ UNCHANGED prodHead
<1>1. /\ num[t] \in Nat /\ oldHead[t] \in Index /\ pc[t] = "swap"
      /\ HeadUnmoved(t) /\ op[t] \in {"enq", "deq"}
  BY BoundAssumption DEF IInv, TypeOK, IndexType, CallType, MoveHead
<1>2. Passed(oldHead[t]) + num[t] <= Limit(t)
  BY <1>1 DEF IInv, CallInv
<1>3. Limit(t) < Word
  BY <1>1, Order, PassedBound DEF Limit
<1>4. Passed(Plus(oldHead[t], num[t])) = Passed(oldHead[t]) + num[t]
  <2>1. Limit(t) \in Nat
    BY Order, PassedBound DEF Limit
  <2>2. Passed(oldHead[t]) + num[t] < Word
    BY <1>1, <1>2, <1>3, <2>1, Order, PassedBound
  <2> QED
    BY <1>1, <2>2, PassedPlus
<1> QED
  BY <1>1, <1>2, <1>4 DEF MoveHead, HeadUnmoved, Head0, Limit

\* A tail that moves goes on by what was reserved, up to its head.
LEMMA TailMoves ==
    ASSUME NoLap, IInv, NEW t \in Thread, UpdateTail(t)
    PROVE  /\ num[t] \in Nat /\ done[t] = num[t]
           /\ UNCHANGED <<prodHead, consHead>>
           /\ op[t] = "enq" =>
                /\ Passed(prodTail') = Passed(prodTail) + num[t]
                /\ Passed(prodTail) = Passed(oldHead[t])
                /\ Passed(prodTail') <= Passed(prodHead)
                /\ UNCHANGED consTail
           /\ op[t] = "deq" =>
                /\ Passed(consTail') = Passed(consTail) + num[t]
                /\ Passed(consTail) = Passed(oldHead[t])
                /\ Passed(consTail') <= Passed(consHead)
                /\ UNCHANGED prodTail
<1>1. /\ num[t] \in Nat /\ oldHead[t] \in Index /\ pc[t] = "copy"
      /\ TurnOf(t) /\ op[t] \in {"enq", "deq"} /\ done[t] = num[t]
  BY BoundAssumption DEF IInv, TypeOK, IndexType, CallType, UpdateTail
<1>2. Passed(oldHead[t]) + num[t] <= Passed(Head0(t))
  BY <1>1 DEF IInv, CallInv
<1>3. Passed(Head0(t)) \in Nat /\ Passed(Head0(t)) < Word
  BY Order, PassedBound DEF Head0
<1>4. Passed(Plus(oldHead[t], num[t])) = Passed(oldHead[t]) + num[t]
  <2>1. Passed(oldHead[t]) + num[t] < Word
    BY <1>1, <1>2, <1>3, Order, PassedBound
  <2> QED
    BY <1>1, <2>1, PassedPlus
<1> QED
  BY <1>1, <1>2, <1>4 DEF UpdateTail, TurnOf, Head0

-----------------------------------------------------------------------------
(* Types.                                                                  *)

\* Indices are words.
LEMMA IndexNext ==
    ASSUME IInv, [Next]_vars PROVE IndexType'
<1> USE DEF IInv, TypeOK, IndexType, request, index
<1>1. ASSUME NEW t \in Thread, NEW o, NEW s, NEW k, NEW b, Call(o, s, k, b),
             Begin(t, o, s, k, b)
      PROVE  IndexType'
  BY <1>1 DEF Begin, Call
<1>2. ASSUME NEW t \in Thread, LoadHead(t)
      PROVE  IndexType'
  BY <1>2, NewIndex DEF LoadHead
<1>3. ASSUME NEW t \in Thread, Reserve(t)
      PROVE  IndexType'
  BY <1>3 DEF Reserve
<1>4. ASSUME NEW t \in Thread, Refuse(t)
      PROVE  IndexType'
  BY <1>4, NewIndex DEF Refuse, Return
<1>5. ASSUME NEW t \in Thread, MoveHead(t)
      PROVE  IndexType'
  BY <1>5, NewIndex DEF MoveHead
<1>6. ASSUME NEW t \in Thread, Retry(t)
      PROVE  IndexType'
  BY <1>6 DEF Retry
<1>7. ASSUME NEW t \in Thread, StoreElement(t)
      PROVE  IndexType'
  BY <1>7 DEF StoreElement
<1>8. ASSUME NEW t \in Thread, LoadElement(t)
      PROVE  IndexType'
  BY <1>8 DEF LoadElement
<1>9. ASSUME NEW t \in Thread, UpdateTail(t)
      PROVE  IndexType'
  BY <1>9, NewIndex DEF UpdateTail, Return
<1>10. ASSUME NEW t \in Thread, Kill(t)
      PROVE  IndexType'
  BY <1>10 DEF Kill
<1>11. CASE UNCHANGED vars
  BY <1>11 DEF vars
<1> HIDE DEF IInv, TypeOK, IndexType, request, index
<1> QED
  BY <1>1, <1>2, <1>3, <1>4, <1>5, <1>6, <1>7, <1>8, <1>9, <1>10, <1>11,
     CallOfEnqueue, CallOfDequeue
     DEF Next, NextWith, Step, Enqueue, Dequeue

\* The local variables of a call keep their types.
LEMMA CallTypeNext ==
    ASSUME IInv, [Next]_vars PROVE CallType'
<1> USE BoundAssumption DEF IInv, TypeOK, CallType, request
<1>1. ASSUME NEW t \in Thread, NEW o, NEW s, NEW k, NEW b, Call(o, s, k, b),
             Begin(t, o, s, k, b)
      PROVE  CallType'
  BY <1>1 DEF Begin, Call
<1>2. ASSUME NEW t \in Thread, LoadHead(t)
      PROVE  CallType'
  BY <1>2 DEF LoadHead
<1>3. ASSUME NEW t \in Thread, Reserve(t)
      PROVE  CallType'
  <2>1. /\ pc' = [pc EXCEPT ![t] = "swap"] /\ num' = [num EXCEPT ![t] = Granted(t)]
        /\ pc[t] = "room" /\ Granted(t) > 0
        /\ UNCHANGED <<op, fixed, want, done, dead, calls>>
    BY <1>3 DEF Reserve
  <2> QED
    BY <2>1, GrantedBound
<1>4. ASSUME NEW t \in Thread, Refuse(t)
      PROVE  CallType'
  BY <1>4 DEF Refuse, Return
<1>5. ASSUME NEW t \in Thread, MoveHead(t)
      PROVE  CallType'
  BY <1>5 DEF MoveHead
<1>6. ASSUME NEW t \in Thread, Retry(t)
      PROVE  CallType'
  BY <1>6 DEF Retry
<1>7. ASSUME NEW t \in Thread, StoreElement(t)
      PROVE  CallType'
  BY <1>7 DEF StoreElement
<1>8. ASSUME NEW t \in Thread, LoadElement(t)
      PROVE  CallType'
  BY <1>8 DEF LoadElement
<1>9. ASSUME NEW t \in Thread, UpdateTail(t)
      PROVE  CallType'
  <2>1. /\ pc' = [pc EXCEPT ![t] = "idle"] /\ op' = [op EXCEPT ![t] = "enq"]
        /\ fixed' = [fixed EXCEPT ![t] = FALSE] /\ want' = [want EXCEPT ![t] = 0]
        /\ num' = [num EXCEPT ![t] = 0] /\ done' = [done EXCEPT ![t] = 0]
        /\ UNCHANGED <<dead, calls>>
    BY <1>9 DEF UpdateTail, Return
  <2> QED
    BY <2>1
<1>10. ASSUME NEW t \in Thread, Kill(t)
      PROVE  CallType'
  BY <1>10 DEF Kill
<1>11. CASE UNCHANGED vars
  BY <1>11 DEF vars
<1> HIDE DEF IInv, TypeOK, CallType, request
<1> QED
  BY <1>1, <1>2, <1>3, <1>4, <1>5, <1>6, <1>7, <1>8, <1>9, <1>10, <1>11,
     CallOfEnqueue, CallOfDequeue
     DEF Next, NextWith, Step, Enqueue, Dequeue

-----------------------------------------------------------------------------
(* The order of the indices.                                               *)

\* The indices keep their order.
LEMMA OrderNext ==
    ASSUME NoLap, IInv, [Next]_vars PROVE OrderInv'
<1> USE DEF IInv, OrderInv, index
<1>1. ASSUME NEW t \in Thread, NEW o, NEW s, NEW k, NEW b, Call(o, s, k, b),
             Begin(t, o, s, k, b)
      PROVE  OrderInv'
  BY <1>1 DEF Begin, Call
<1>2. ASSUME NEW t \in Thread, LoadHead(t)
      PROVE  OrderInv'
  BY <1>2 DEF LoadHead
<1>3. ASSUME NEW t \in Thread, Reserve(t)
      PROVE  OrderInv'
  BY <1>3 DEF Reserve
<1>4. ASSUME NEW t \in Thread, Refuse(t)
      PROVE  OrderInv'
  BY <1>4 DEF Refuse, Return
<1>5. ASSUME NEW t \in Thread, MoveHead(t)
      PROVE  OrderInv'
  <2>1. op[t] \in {"enq", "deq"}
    BY DEF TypeOK, CallType
  <2>2. CASE op[t] = "enq"
    BY <1>5, <2>2, HeadMoves, Order, PassedBound
  <2>3. CASE op[t] = "deq"
    BY <1>5, <2>3, HeadMoves, Order, PassedBound
  <2> QED
    BY <2>1, <2>2, <2>3
<1>6. ASSUME NEW t \in Thread, Retry(t)
      PROVE  OrderInv'
  BY <1>6 DEF Retry
<1>7. ASSUME NEW t \in Thread, StoreElement(t)
      PROVE  OrderInv'
  BY <1>7 DEF StoreElement
<1>8. ASSUME NEW t \in Thread, LoadElement(t)
      PROVE  OrderInv'
  BY <1>8 DEF LoadElement
<1>9. ASSUME NEW t \in Thread, UpdateTail(t)
      PROVE  OrderInv'
  <2>1. op[t] \in {"enq", "deq"}
    BY DEF TypeOK, CallType
  <2>2. CASE op[t] = "enq"
    BY <1>9, <2>2, TailMoves, Order, PassedBound
  <2>3. CASE op[t] = "deq"
    BY <1>9, <2>3, TailMoves, Order, PassedBound
  <2> QED
    BY <2>1, <2>2, <2>3
<1>10. ASSUME NEW t \in Thread, Kill(t)
      PROVE  OrderInv'
  BY <1>10 DEF Kill
<1>11. CASE UNCHANGED vars
  BY <1>11 DEF vars
<1> HIDE DEF IInv, OrderInv, index
<1> QED
  BY <1>1, <1>2, <1>3, <1>4, <1>5, <1>6, <1>7, <1>8, <1>9, <1>10, <1>11,
     CallOfEnqueue, CallOfDequeue
     DEF Next, NextWith, Step, Enqueue, Dequeue

\* Each call makes the producer head pass a bulk at most.
LEMMA PassNext ==
    ASSUME NoLap, IInv, [Next]_vars PROVE PassInv'
<1>1. ASSUME NEW t \in Thread, NEW o, NEW s, NEW k, NEW b, Call(o, s, k, b),
             Begin(t, o, s, k, b)
      PROVE  PassInv'
  <2>1. /\ Reserving' = (IF o = "enq" THEN Reserving \cup {t} ELSE Reserving)
        /\ prodHead' = prodHead /\ calls' = calls + 1 /\ calls \in Nat
    BY <1>1 DEF Begin, Call, Reserving, index, IInv, TypeOK, CallType
  <2>2. IsFiniteSet(Reserving)
    BY ThreadAssumption, FS_Subset DEF Reserving
  <2>3. Cardinality(Reserving') \in Nat /\ Cardinality(Reserving') <= Cardinality(Reserving) + 1
    <3>1. /\ Cardinality(Reserving \cup {t}) \in Nat
          /\ Cardinality(Reserving \cup {t}) <= Cardinality(Reserving) + 1
      <4>1. Cardinality(Reserving \cup {t})
                = IF t \in Reserving THEN Cardinality(Reserving) ELSE Cardinality(Reserving) + 1
        BY <2>2, FS_AddElement, Zenon
      <4> QED
        BY <4>1, PassedBound
    <3> QED
      BY <2>1, <3>1, PassedBound
  <2> DEFINE n == Cardinality(Reserving)
             m == Cardinality(Reserving')
  <2>4. n \in Nat /\ m \in Nat /\ m <= n + 1
    BY <2>3, PassedBound
  <2> HIDE DEF n, m
  <2>5. MaxBulk * m <= MaxBulk * n + MaxBulk /\ MaxBulk * m \in Nat /\ MaxBulk * n \in Nat
    BY <2>4, PassedBound
  <2>6. MaxBulk * calls' = MaxBulk * calls + MaxBulk
    BY <2>1, PassedBound
  <2>7. Passed(prodHead) + MaxBulk * n <= MaxBulk * calls
    BY DEF IInv, PassInv, n
  <2>8. Passed(prodHead) + MaxBulk * m <= MaxBulk * calls'
    BY <2>5, <2>6, <2>7, Order, PassedBound
  <2> QED
    BY <2>1, <2>8 DEF PassInv, m
<1>2. ASSUME NEW t \in Thread, LoadHead(t)
      PROVE  PassInv'
  <2>1. Reserving' = Reserving /\ UNCHANGED <<prodHead, calls>>
    BY <1>2 DEF LoadHead, index, request, Reserving, IInv, TypeOK, CallType
  <2> QED
    BY <2>1 DEF PassInv, IInv
<1>3. ASSUME NEW t \in Thread, Reserve(t)
      PROVE  PassInv'
  <2>1. Reserving' = Reserving /\ UNCHANGED <<prodHead, calls>>
    BY <1>3 DEF Reserve, index, request, Reserving, IInv, TypeOK, CallType
  <2> QED
    BY <2>1 DEF PassInv, IInv
<1>4. ASSUME NEW t \in Thread, Refuse(t)
      PROVE  PassInv'
  <2>1. Reserving' = Reserving \ {t} /\ UNCHANGED <<prodHead, calls>>
    BY <1>4 DEF Refuse, Return, Reserving, index, IInv, TypeOK, CallType
  <2>2. IsFiniteSet(Reserving)
    BY ThreadAssumption, FS_Subset DEF Reserving
  <2>3. Cardinality(Reserving') \in Nat /\ Cardinality(Reserving') <= Cardinality(Reserving)
    <3>1. /\ Cardinality(Reserving \ {t}) \in Nat
          /\ Cardinality(Reserving \ {t}) <= Cardinality(Reserving)
      <4>1. /\ IsFiniteSet(Reserving \ {t})
            /\ Cardinality(Reserving \ {t})
                = IF t \in Reserving THEN Cardinality(Reserving) - 1 ELSE Cardinality(Reserving)
        BY <2>2, FS_RemoveElement, Zenon
      <4>2. Cardinality(Reserving \ {t}) \in Nat
        BY <4>1, FS_CardinalityType, Zenon
      <4> QED
        BY <4>1, <4>2, PassedBound
    <3> QED
      BY <2>1, <3>1
  <2> DEFINE n == Cardinality(Reserving)
             m == Cardinality(Reserving')
  <2>4. n \in Nat /\ m \in Nat /\ m <= n
    BY <2>3, PassedBound
  <2> HIDE DEF n, m
  <2>5. MaxBulk * m <= MaxBulk * n /\ MaxBulk * m \in Nat /\ MaxBulk * n \in Nat
    BY <2>4, PassedBound
  <2>6. Passed(prodHead) + MaxBulk * n <= MaxBulk * calls
    BY DEF IInv, PassInv, n
  <2>7. Passed(prodHead) + MaxBulk * m <= MaxBulk * calls
    BY <2>5, <2>6, Order, PassedBound
  <2> QED
    BY <2>1, <2>7 DEF PassInv, m
<1>5. ASSUME NEW t \in Thread, MoveHead(t)
      PROVE  PassInv'
  <2>1. op[t] \in {"enq", "deq"} /\ num[t] <= MaxBulk
    BY PassedBound DEF IInv, TypeOK, CallType
  <2>2. CASE op[t] = "deq"
    <3>1. Reserving' = Reserving /\ calls' = calls
      BY <1>5, <2>2 DEF MoveHead, Reserving, request, IInv, TypeOK, CallType
    <3> QED
      BY <1>5, <2>2, <3>1, HeadMoves DEF PassInv, IInv
  <2>3. CASE op[t] = "enq"
    <3>1. Reserving' = Reserving \ {t} /\ calls' = calls /\ t \in Reserving
      BY <1>5, <2>3 DEF MoveHead, Reserving, request, IInv, TypeOK, CallType
    <3>2. IsFiniteSet(Reserving)
      BY ThreadAssumption, FS_Subset DEF Reserving
    <3>3. Cardinality(Reserving') = Cardinality(Reserving) - 1 /\ Cardinality(Reserving') \in Nat
      BY <3>1, <3>2, FS_RemoveElement, FS_Subset, FS_CardinalityType
    <3> DEFINE n == Cardinality(Reserving)
               m == Cardinality(Reserving')
    <3>4. n \in Nat /\ m \in Nat /\ m = n - 1
      BY <3>3, PassedBound
    <3> HIDE DEF n, m
    <3>5. MaxBulk * m + MaxBulk = MaxBulk * n /\ MaxBulk * m \in Nat
      BY <3>4, PassedBound
    <3>6. Passed(prodHead) + MaxBulk * n <= MaxBulk * calls
      BY DEF IInv, PassInv, n
    <3>7. Passed(prodHead') = Passed(prodHead) + num[t] /\ num[t] \in Nat
      BY <1>5, <2>3, HeadMoves
    <3>8. Passed(prodHead') + MaxBulk * m <= MaxBulk * calls
      BY <2>1, <3>5, <3>6, <3>7, Order, PassedBound
    <3> QED
      BY <3>1, <3>8 DEF PassInv, m
  <2> QED
    BY <2>1, <2>2, <2>3
<1>6. ASSUME NEW t \in Thread, Retry(t)
      PROVE  PassInv'
  <2>1. Reserving' = Reserving /\ UNCHANGED <<prodHead, calls>>
    BY <1>6 DEF Retry, index, request, Reserving, IInv, TypeOK, CallType
  <2> QED
    BY <2>1 DEF PassInv, IInv
<1>7. ASSUME NEW t \in Thread, StoreElement(t)
      PROVE  PassInv'
  <2>1. Reserving' = Reserving /\ UNCHANGED <<prodHead, calls>>
    BY <1>7 DEF StoreElement, index, request, Reserving, IInv, TypeOK, CallType
  <2> QED
    BY <2>1 DEF PassInv, IInv
<1>8. ASSUME NEW t \in Thread, LoadElement(t)
      PROVE  PassInv'
  <2>1. Reserving' = Reserving /\ UNCHANGED <<prodHead, calls>>
    BY <1>8 DEF LoadElement, index, request, Reserving, IInv, TypeOK, CallType
  <2> QED
    BY <2>1 DEF PassInv, IInv
<1>9. ASSUME NEW t \in Thread, UpdateTail(t)
      PROVE  PassInv'
  <2>1. Reserving' = Reserving /\ UNCHANGED <<prodHead, calls>>
    BY <1>9 DEF UpdateTail, Return, Reserving, IInv, TypeOK, CallType
  <2> QED
    BY <2>1 DEF PassInv, IInv
<1>10. ASSUME NEW t \in Thread, Kill(t)
      PROVE  PassInv'
  <2>1. Reserving' = Reserving /\ UNCHANGED <<prodHead, calls>>
    BY <1>10 DEF Kill, index, request, Reserving, IInv, TypeOK, CallType
  <2> QED
    BY <2>1 DEF PassInv, IInv
<1>11. CASE UNCHANGED vars
  BY <1>11 DEF vars, index, request, PassInv, Reserving, IInv
<1> QED
  BY <1>1, <1>2, <1>3, <1>4, <1>5, <1>6, <1>7, <1>8, <1>9, <1>10, <1>11,
     CallOfEnqueue, CallOfDequeue
     DEF Next, NextWith, Step, Enqueue, Dequeue

\* What a call has computed stays true.
LEMMA CallNext ==
    ASSUME NoLap, IInv, [Next]_vars PROVE CallInv'
<1> USE BoundAssumption DEF IInv, TypeOK, CallType, CallInv, index, request
<1>1. ASSUME NEW t \in Thread, NEW o, NEW s, NEW k, NEW b, Call(o, s, k, b),
             Begin(t, o, s, k, b)
      PROVE  CallInv'
  BY <1>1 DEF Begin, Call, Limit, Head0
<1>2. ASSUME NEW t \in Thread, LoadHead(t)
      PROVE  CallInv'
  <2>1. /\ oldHead' = [oldHead EXCEPT ![t] = Head0(t)] /\ pc' = [pc EXCEPT ![t] = "room"]
        /\ pc[t] = "head" /\ UNCHANGED <<index, op, want, num>>
    BY <1>2 DEF LoadHead
  <2>2. Passed(Head0(t)) \in Nat /\ oldHead'[t] = Head0(t)
    BY <2>1, Order DEF Head0, IndexType
  <2>3. \A u \in Thread : Head0(u)' = Head0(u) /\ Limit(u)' = Limit(u)
    BY <2>1 DEF Head0, Limit
  <2> QED
    BY <2>1, <2>2, <2>3 DEF IndexType
<1>3. ASSUME NEW t \in Thread, Reserve(t)
      PROVE  CallInv'
  <2>1. /\ num' = [num EXCEPT ![t] = Granted(t)] /\ pc' = [pc EXCEPT ![t] = "swap"]
        /\ pc[t] = "room" /\ UNCHANGED <<index, op, want, oldHead>>
    BY <1>3 DEF Reserve
  <2>2. Passed(oldHead[t]) + Granted(t) <= Limit(t)
    BY <2>1, GrantedBound, RoomIsLeft, Order, PassedBound
  <2> QED
    BY <2>1, <2>2 DEF Limit, Head0
<1>4. ASSUME NEW t \in Thread, Refuse(t)
      PROVE  CallInv'
  BY <1>4 DEF Refuse, Return, Limit, Head0
<1>5. ASSUME NEW t \in Thread, MoveHead(t)
      PROVE  CallInv'
  <2>1. /\ pc' = [pc EXCEPT ![t] = "copy"] /\ pc[t] = "swap"
        /\ UNCHANGED <<op, want, oldHead, num>>
    BY <1>5 DEF MoveHead
  <2>2. /\ Passed(prodHead) <= Passed(prodHead') /\ Passed(consHead) <= Passed(consHead')
        /\ Passed(prodHead') \in Nat /\ Passed(consHead') \in Nat
        /\ UNCHANGED <<prodTail, consTail>>
        /\ Passed(oldHead[t]) + num[t] <= Passed(Head0(t)')
    BY <1>5, <2>1, HeadMoves, Order DEF Head0
  <2>3. \A u \in Thread \ {t} : /\ Passed(Head0(u)) <= Passed(Head0(u)')
                                /\ Limit(u)' = Limit(u)
    BY <2>1, <2>2, Order DEF Head0, Limit
  <2>4. \A u \in Thread : Passed(Head0(u)) \in Nat /\ num[u] \in Nat
    BY Order, BoundAssumption DEF Head0
  <2>5. ASSUME NEW u \in Thread PROVE Passed(Head0(u)') \in Nat
    BY <2>2 DEF Head0
  <2> QED
    BY <2>1, <2>2, <2>3, <2>4, <2>5, Order
<1>6. ASSUME NEW t \in Thread, Retry(t)
      PROVE  CallInv'
  BY <1>6 DEF Retry, Limit, Head0
<1>7. ASSUME NEW t \in Thread, StoreElement(t)
      PROVE  CallInv'
  BY <1>7 DEF StoreElement, Limit, Head0
<1>8. ASSUME NEW t \in Thread, LoadElement(t)
      PROVE  CallInv'
  BY <1>8 DEF LoadElement, Limit, Head0
<1>9. ASSUME NEW t \in Thread, UpdateTail(t)
      PROVE  CallInv'
  <2>1. /\ pc' = [pc EXCEPT ![t] = "idle"] /\ op' = [op EXCEPT ![t] = "enq"]
        /\ want' = [want EXCEPT ![t] = 0] /\ num' = [num EXCEPT ![t] = 0]
        /\ oldHead' = [oldHead EXCEPT ![t] = 0] /\ UNCHANGED <<prodHead, consHead>>
    BY <1>9 DEF UpdateTail, Return
  <2>2. /\ Passed(prodTail) <= Passed(prodTail') /\ Passed(consTail) <= Passed(consTail')
        /\ Passed(prodTail') \in Nat /\ Passed(consTail') \in Nat
    BY <1>9, TailMoves, Order
  <2>3. \A u \in Thread \ {t} : /\ Head0(u)' = Head0(u)
                                /\ Limit(u) <= Limit(u)' /\ Limit(u)' \in Nat
                                /\ Limit(u) \in Nat
    BY <2>1, <2>2, Order, PassedBound DEF Head0, Limit
  <2>4. \A u \in Thread : num[u] \in Nat /\ (u # t => oldHead'[u] = oldHead[u])
    BY <2>1 DEF IndexType
  <2> QED
    BY <2>1, <2>3, <2>4, Order
<1>10. ASSUME NEW t \in Thread, Kill(t)
      PROVE  CallInv'
  BY <1>10 DEF Kill, Limit, Head0
<1>11. CASE UNCHANGED vars
  BY <1>11 DEF vars, Limit, Head0
<1> HIDE DEF IInv, TypeOK, CallType, CallInv, index, request
<1> QED
  BY <1>1, <1>2, <1>3, <1>4, <1>5, <1>6, <1>7, <1>8, <1>9, <1>10, <1>11,
     CallOfEnqueue, CallOfDequeue
     DEF Next, NextWith, Step, Enqueue, Dequeue

-----------------------------------------------------------------------------
(* What the slots and the tables hold.                                     *)

\* An index is of a slot of the ring.
LEMMA SlotOfIndex ==
    ASSUME NEW i \in Index PROVE SlotOf(i) \in Slot
BY SizeAssumption DEF Index, SlotOf, Slot

\* Different indices have passed different numbers of objects.
LEMMA PassedInjective ==
    ASSUME NEW i \in Index, NEW j \in Index, Passed(i) = Passed(j)
    PROVE  i = j
<1> DEFINE At(n) == IF Start + n < Word THEN Start + n ELSE Start + n - Word
<1>1. ASSUME NEW k \in Index PROVE k = At(Passed(k))
  <2>1. /\ Passed(k) = IF Start <= k THEN k - Start ELSE k + Word - Start
        /\ k \in Nat /\ k < Word /\ Word \in Nat /\ Start \in Nat /\ Start < Word
    BY PassedIsWord, SizeAssumption DEF Index
  <2>2. CASE Start <= k
    BY <2>1, <2>2
  <2>3. CASE ~(Start <= k)
    BY <2>1, <2>3
  <2> QED
    BY <2>2, <2>3
<1>2. i = At(Passed(i)) /\ j = At(Passed(j))
  BY <1>1
<1> HIDE DEF At
<1> QED
  BY <1>2

\* The elements of a sequence over S are in S.
LEMMA ElementsOfSeq ==
    ASSUME NEW S, NEW s \in Seq(S)
    PROVE  In(s) \subseteq S
<1>1. \A i \in DOMAIN s : s[i] \in S
  BY LenProperties, ElementOfSeq
<1> QED
  BY <1>1 DEF In

\* The index that a call copies to or from next is a word, below the head it moved.
LEMMA CopyIndex ==
    ASSUME NoLap, IInv, NEW t \in Thread, pc[t] = "copy", done[t] < num[t]
    PROVE  /\ Plus(oldHead[t], done[t]) \in Index
           /\ Passed(Plus(oldHead[t], done[t])) = Passed(oldHead[t]) + done[t]
           /\ Passed(oldHead[t]) + done[t] < Passed(Head0(t))
<1>1. /\ oldHead[t] \in Index /\ done[t] \in Nat /\ num[t] \in Nat
      /\ Passed(oldHead[t]) + num[t] <= Passed(Head0(t))
  BY BoundAssumption DEF IInv, TypeOK, IndexType, CallType, CallInv
<1>2. Passed(Head0(t)) \in Nat /\ Passed(Head0(t)) < Word
  BY Order, PassedBound DEF Head0
<1>3. Passed(oldHead[t]) + done[t] < Word
  BY <1>1, <1>2, Order, PassedBound
<1> QED
  BY <1>1, <1>2, <1>3, Words, PassedPlus, Order

\* A dequeue copies an object.
LEMMA LoadsObject ==
    ASSUME NoLap, IInv, NEW t \in Thread, LoadElement(t)
    PROVE  slot[SlotOf(Plus(oldHead[t], done[t]))] \in Object
<1> DEFINE i == Plus(oldHead[t], done[t])
<1>1. pc[t] = "copy" /\ op[t] = "deq" /\ done[t] < num[t]
  BY DEF LoadElement
<1>2. i \in Index /\ Passed(i) < Passed(consHead) /\ Passed(i) \in Nat
  BY <1>1, CopyIndex, PassedIsWord DEF Head0
<1> HIDE DEF i
<1>3. ~(Passed(prodTail) <= Passed(i))
  BY <1>2, Order
<1>4. slot[SlotOf(i)] # None
  BY <1>2, <1>3 DEF IInv, WrittenInv
<1>5. slot[SlotOf(i)] \in Object \cup {None}
  BY <1>2, SlotOfIndex DEF IInv, TypeOK, ObjectType
<1> QED
  BY <1>4, <1>5 DEF i

\* Calls are given, copy and hand out objects.
LEMMA ObjectNext ==
    ASSUME NoLap, IInv, [Next]_vars PROVE ObjectType'
<1> USE DEF IInv, TypeOK, CallType, ObjectType, request
<1>1. ASSUME NEW t \in Thread, NEW o, NEW s, NEW k, NEW b, Call(o, s, k, b),
             Begin(t, o, s, k, b)
      PROVE  ObjectType'
  <2>1. /\ pc' = [pc EXCEPT ![t] = "head"] /\ op' = [op EXCEPT ![t] = o]
        /\ want' = [want EXCEPT ![t] = k] /\ table' = [table EXCEPT ![t] = s]
        /\ pc[t] = "idle" /\ outside' = outside \ In(s) /\ UNCHANGED <<slot, done>>
    BY <1>1 DEF Begin
  <2>2. s \in Seq(Object) /\ Len(s) = IF o = "enq" THEN k ELSE done[t]
    <3>1. done[t] = 0
      <4>1. done[t] \in Nat /\ ~(done[t] > 0)
        BY <2>1, BoundAssumption
      <4> QED
        BY <4>1
    <3> QED
      BY <1>1, <3>1, EmptySeq DEF Call
  <2> QED
    BY <2>1, <2>2
<1>2. ASSUME NEW t \in Thread, LoadHead(t)
      PROVE  ObjectType'
  BY <1>2 DEF LoadHead
<1>3. ASSUME NEW t \in Thread, Reserve(t)
      PROVE  ObjectType'
  BY <1>3 DEF Reserve
<1>4. ASSUME NEW t \in Thread, Refuse(t)
      PROVE  ObjectType'
  <2>1. /\ pc' = [pc EXCEPT ![t] = "idle"] /\ table' = [table EXCEPT ![t] = <<>>]
        /\ op' = [op EXCEPT ![t] = "enq"] /\ want' = [want EXCEPT ![t] = 0]
        /\ done' = [done EXCEPT ![t] = 0]
        /\ outside' = outside \cup In(table[t]) /\ UNCHANGED slot
    BY <1>4 DEF Refuse, Return
  <2>2. In(table[t]) \subseteq Object
    BY ElementsOfSeq
  <2> QED
    BY <2>1, <2>2, EmptySeq
<1>5. ASSUME NEW t \in Thread, MoveHead(t)
      PROVE  ObjectType'
  BY <1>5 DEF MoveHead
<1>6. ASSUME NEW t \in Thread, Retry(t)
      PROVE  ObjectType'
  BY <1>6 DEF Retry
<1>7. ASSUME NEW t \in Thread, StoreElement(t)
      PROVE  ObjectType'
  <2>1. table[t][done[t] + 1] \in Object
    <3>1. done[t] + 1 \in 1..Len(table[t])
      BY <1>7, BoundAssumption DEF StoreElement
    <3> QED
      BY <3>1, ElementOfSeq
  <2>2. slot' \in [Slot -> Object \cup {None}]
    BY <1>7, <2>1 DEF StoreElement
  <2>3. /\ done' = [done EXCEPT ![t] = done[t] + 1] /\ op[t] = "enq"
        /\ UNCHANGED <<pc, op, want, table, outside>>
    BY <1>7 DEF StoreElement
  <2> QED
    BY <2>2, <2>3
<1>8. ASSUME NEW t \in Thread, LoadElement(t)
      PROVE  ObjectType'
  <2> DEFINE s == Append(table[t], slot[SlotOf(Plus(oldHead[t], done[t]))])
  <2>1. s \in Seq(Object) /\ Len(s) = Len(table[t]) + 1
    BY <1>8, LoadsObject, AppendProperties
  <2>2. /\ table' = [table EXCEPT ![t] = s] /\ done' = [done EXCEPT ![t] = done[t] + 1]
        /\ op[t] = "deq" /\ UNCHANGED <<slot, outside, pc, op, want>>
    BY <1>8 DEF LoadElement
  <2> HIDE DEF s
  <2> QED
    BY <2>1, <2>2
<1>9. ASSUME NEW t \in Thread, UpdateTail(t)
      PROVE  ObjectType'
  <2>1. /\ pc' = [pc EXCEPT ![t] = "idle"] /\ table' = [table EXCEPT ![t] = <<>>]
        /\ op' = [op EXCEPT ![t] = "enq"] /\ want' = [want EXCEPT ![t] = 0]
        /\ done' = [done EXCEPT ![t] = 0]
        /\ outside' = outside \cup
                (IF op[t] = "enq" THEN In(SubSeq(table[t], num[t] + 1, want[t]))
                                  ELSE In(table[t]))
        /\ pc[t] = "copy" /\ UNCHANGED slot
    BY <1>9 DEF UpdateTail, Return
  <2>2. In(table[t]) \subseteq Object
    BY ElementsOfSeq
  <2>3. op[t] = "enq" => In(SubSeq(table[t], num[t] + 1, want[t])) \subseteq Object
    <3>1. op[t] = "enq" => SubSeq(table[t], num[t] + 1, want[t]) \in Seq(Object)
      BY <2>1, BoundAssumption
    <3> QED
      BY <3>1, ElementsOfSeq
  <2> QED
    BY <2>1, <2>2, <2>3, EmptySeq
<1>10. ASSUME NEW t \in Thread, Kill(t)
      PROVE  ObjectType'
  BY <1>10 DEF Kill
<1>11. CASE UNCHANGED vars
  BY <1>11 DEF vars
<1> HIDE DEF IInv, TypeOK, CallType, ObjectType, request
<1> QED
  BY <1>1, <1>2, <1>3, <1>4, <1>5, <1>6, <1>7, <1>8, <1>9, <1>10, <1>11,
     CallOfEnqueue, CallOfDequeue
     DEF Next, NextWith, Step, Enqueue, Dequeue

\* A slot that holds an object goes on holding one.
LEMMA WrittenNext ==
    ASSUME NoLap, IInv, [Next]_vars PROVE WrittenInv'
<1> USE DEF IInv, TypeOK, CallType, WrittenInv, request, index
<1>1. ASSUME NEW t \in Thread, NEW o, NEW s, NEW k, NEW b, Call(o, s, k, b),
             Begin(t, o, s, k, b)
      PROVE  WrittenInv'
  BY <1>1 DEF Begin, Call
<1>2. ASSUME NEW t \in Thread, LoadHead(t)
      PROVE  WrittenInv'
  BY <1>2 DEF LoadHead, IndexType
<1>3. ASSUME NEW t \in Thread, Reserve(t)
      PROVE  WrittenInv'
  BY <1>3 DEF Reserve
<1>4. ASSUME NEW t \in Thread, Refuse(t)
      PROVE  WrittenInv'
  BY <1>4 DEF Refuse, Return, IndexType
<1>5. ASSUME NEW t \in Thread, MoveHead(t)
      PROVE  WrittenInv'
  <2>1. /\ pc' = [pc EXCEPT ![t] = "copy"] /\ pc[t] = "swap"
        /\ UNCHANGED <<prodTail, slot, op, oldHead, done>> /\ done[t] = 0
    BY <1>5 DEF MoveHead
  <2>2. \A i \in Index : Passed(i) \in Nat
    BY PassedIsWord
  <2> QED
    BY <2>1, <2>2, Order
<1>6. ASSUME NEW t \in Thread, Retry(t)
      PROVE  WrittenInv'
  BY <1>6 DEF Retry
<1>7. ASSUME NEW t \in Thread, StoreElement(t)
      PROVE  WrittenInv'
  <2> DEFINE j == Plus(oldHead[t], done[t])
  <2>1. /\ slot' = [slot EXCEPT ![SlotOf(j)] = table[t][done[t] + 1]]
        /\ done' = [done EXCEPT ![t] = done[t] + 1] /\ op[t] = "enq" /\ pc[t] = "copy"
        /\ done[t] < num[t] /\ UNCHANGED <<prodTail, pc, op, oldHead>>
    BY <1>7 DEF StoreElement
  <2>2. table[t][done[t] + 1] # None
    <3>1. done[t] + 1 \in 1..Len(table[t])
      BY <2>1, BoundAssumption DEF ObjectType
    <3>2. table[t][done[t] + 1] \in Object
      BY <3>1, ElementOfSeq DEF ObjectType
    <3> QED
      BY <3>2, ThreadAssumption
  <2>3. j \in Index /\ Passed(j) = Passed(oldHead[t]) + done[t] /\ SlotOf(j) \in Slot
    BY <2>1, CopyIndex, SlotOfIndex
  <2> HIDE DEF j
  <2> SUFFICES ASSUME NEW i \in Index, slot'[SlotOf(i)] = None
               PROVE  /\ Passed(prodTail) <= Passed(i)
                      /\ \A u \in Thread : op[u] = "enq" /\ pc[u] = "copy" =>
                            \/ Passed(i) < Passed(oldHead[u])
                            \/ Passed(oldHead[u]) + done'[u] <= Passed(i)
    BY <2>1
  <2>4. SlotOf(i) # SlotOf(j) /\ slot[SlotOf(i)] = None
    BY <2>1, <2>2, <2>3, SlotOfIndex DEF ObjectType
  <2>5. Passed(i) # Passed(oldHead[t]) + done[t]
    BY <2>3, <2>4, PassedInjective
  <2>6. Passed(i) \in Nat /\ Passed(oldHead[t]) \in Nat /\ done[t] \in Nat
    BY PassedIsWord, Order, BoundAssumption
  <2> QED
    BY <2>1, <2>4, <2>5, <2>6
<1>8. ASSUME NEW t \in Thread, LoadElement(t)
      PROVE  WrittenInv'
  BY <1>8 DEF LoadElement
<1>9. ASSUME NEW t \in Thread, UpdateTail(t)
      PROVE  WrittenInv'
  <2>1. /\ pc' = [pc EXCEPT ![t] = "idle"] /\ op' = [op EXCEPT ![t] = "enq"]
        /\ done' = [done EXCEPT ![t] = 0] /\ oldHead' = [oldHead EXCEPT ![t] = 0]
        /\ pc[t] = "copy" /\ UNCHANGED slot /\ op[t] \in {"enq", "deq"}
    BY <1>9 DEF UpdateTail, Return
  <2>2. \A i \in Index : Passed(i) \in Nat
    BY PassedIsWord
  <2>3. CASE op[t] = "deq"
    <3>1. prodTail' = prodTail
      BY <1>9, <2>3, TailMoves
    <3> QED
      BY <2>1, <3>1 DEF IndexType
  <2>4. CASE op[t] = "enq"
    <3>1. /\ Passed(prodTail') = Passed(prodTail) + num[t] /\ num[t] \in Nat
          /\ Passed(prodTail) = Passed(oldHead[t]) /\ done[t] = num[t]
      BY <1>9, <2>4, TailMoves
    <3> QED
      BY <2>1, <2>2, <2>4, <3>1, Order DEF IndexType
  <2> QED
    BY <2>1, <2>3, <2>4
<1>10. ASSUME NEW t \in Thread, Kill(t)
      PROVE  WrittenInv'
  BY <1>10 DEF Kill
<1>11. CASE UNCHANGED vars
  BY <1>11 DEF vars
<1> HIDE DEF IInv, TypeOK, CallType, WrittenInv, request, index
<1> QED
  BY <1>1, <1>2, <1>3, <1>4, <1>5, <1>6, <1>7, <1>8, <1>9, <1>10, <1>11,
     CallOfEnqueue, CallOfDequeue
     DEF Next, NextWith, Step, Enqueue, Dequeue

-----------------------------------------------------------------------------
(* The theorems.                                                           *)

\* The initial state has it.
LEMMA InitInv ==
    ASSUME Init PROVE IInv
<1>1. Start \in Index /\ 0 \in Index /\ 0 \in 0..MaxBulk /\ 0 \in 0..MaxCalls
  BY SizeAssumption, BoundAssumption DEF Index
<1>2. IndexType
  BY <1>1 DEF Init, IndexType
<1>3. CallType
  BY <1>1, BoundAssumption DEF Init, CallType
<1>4. ObjectType
  BY EmptySeq DEF Init, ObjectType
<1>5. Passed(Start) = 0
  BY <1>1, PassedIsWord, SizeAssumption
<1>6. Reserving = {}
  BY DEF Init, Reserving
<1>7. PassInv
  <2>1. Cardinality(Reserving) = 0
    BY <1>6, FS_EmptySet
  <2> QED
    BY <1>5, <2>1, BoundAssumption DEF Init, PassInv
<1>8. OrderInv
  BY <1>5, SizeAssumption DEF Init, OrderInv, Capacity
<1>9. CallInv
  BY DEF Init, CallInv
<1>10. WrittenInv
  BY <1>5, PassedIsWord DEF Init, WrittenInv
<1> QED
  BY <1>2, <1>3, <1>4, <1>7, <1>8, <1>9, <1>10 DEF IInv, TypeOK

\* The invariant is inductive.
LEMMA IInvNext ==
    ASSUME NoLap, IInv, [Next]_vars PROVE IInv'
<1>1. TypeOK'
  BY IndexNext, CallTypeNext, ObjectNext DEF TypeOK
<1> QED
  BY <1>1, PassNext, OrderNext, CallNext, WrittenNext DEF IInv

\* The invariant holds in every behaviour in which the indices do not lap a call.
LEMMA InvCorrect ==
    ASSUME NoLap PROVE Spec => []IInv
<1>1. IInv /\ [Next]_vars => IInv'
  BY IInvNext
<1> QED
  BY <1>1, InitInv, PTL DEF Spec

\* Heads and tails are words, a call's counts are those of its bulk, and what the ring
\* takes, holds and hands out are objects, never a slot that was not written, for any
\* number of threads, any size of ring and any start (rte_ring_generic_pvt.h 65-99).
THEOREM TypeCorrect ==
    ASSUME NoLap PROVE Spec => []TypeOK
<1>1. IInv => TypeOK
  BY DEF IInv
<1> QED
  BY <1>1, InvCorrect, PTL

\* Consumer tail, consumer head, producer tail and producer head keep their order
\* around the ring, within its capacity, whatever the compare-and-swaps of any number
\* of threads and whoever is killed (rte_ring_generic_pvt.h 98-104, 168-174).
THEOREM OrderCorrect ==
    ASSUME NoLap PROVE Spec => []IndicesInOrder
<1>1. IInv => IndicesInOrder
  <2> SUFFICES ASSUME IInv PROVE IndicesInOrder
    OBVIOUS
  <2>1. /\ consTail \in Index /\ consHead \in Index
        /\ prodTail \in Index /\ prodHead \in Index
    BY DEF IInv, TypeOK, IndexType
  <2>2. /\ Minus(consHead, consTail) = Passed(consHead) - Passed(consTail)
        /\ Minus(prodTail, consHead) = Passed(prodTail) - Passed(consHead)
        /\ Minus(prodHead, prodTail) = Passed(prodHead) - Passed(prodTail)
    BY <2>1, Order, MinusPassed
  <2> QED
    BY <2>2, Order, PassedBound DEF IndicesInOrder
<1> QED
  BY <1>1, InvCorrect, PTL

\* A call that gives up has seen too little room: at the moment it returns there is no
\* more than it computed from an older head and a tail (rte_ring_generic_pvt.h 85-90).
THEOREM RefusalsCorrect ==
    ASSUME NoLap PROVE Spec => RefusesTruthfully
<1>1. ASSUME IInv, [Next]_vars, NEW t \in Thread, pc[t] = "room", pc'[t] = "idle"
      PROVE  Available(t) < IF fixed[t] THEN want[t] ELSE 1
  <2>0. TypeOK
    BY <1>1 DEF IInv
  <2>1. Refuse(t)
    BY <1>1 DEF Next, NextWith, Enqueue, Dequeue, Begin, Step, LoadHead, Reserve, MoveHead,
         Retry, StoreElement, LoadElement, UpdateTail, Return, Kill, vars, Refuse,
         IInv, TypeOK, CallType
  <2>2. /\ Granted(t) = 0 /\ want[t] \in Nat /\ want[t] > 0 /\ fixed[t] \in BOOLEAN
        /\ op[t] \in {"enq", "deq"}
        /\ Passed(oldHead[t]) <= Passed(Head0(t))
    BY <1>1, <2>1, BoundAssumption DEF Refuse, IInv, TypeOK, CallType, CallInv
  <2>3. Room(t) < want[t] /\ (fixed[t] = FALSE => Room(t) = 0)
    BY <2>0, <2>2, GrantedBound DEF Granted
  <2>4. Available(t) <= Room(t) /\ Available(t) \in Int
    <3>1. /\ consTail \in Index /\ consHead \in Index
          /\ prodTail \in Index /\ prodHead \in Index
      BY <1>1 DEF IInv, TypeOK, IndexType
    <3>2. /\ Minus(prodTail, consHead) = Passed(prodTail) - Passed(consHead)
          /\ Minus(prodHead, consTail) = Passed(prodHead) - Passed(consTail)
      <4>1. Passed(consTail) <= Passed(prodHead)
        BY <1>1, Order
      <4> QED
        BY <1>1, <3>1, <4>1, Order, MinusPassed
    <3>3. Len(queue) = Minus(prodTail, consHead)
      BY <1>1, <3>2, Order DEF queue, Contents
    <3>4. /\ Limit(t) \in Nat /\ Room(t) = Limit(t) - Passed(oldHead[t])
          /\ Passed(oldHead[t]) \in Nat
      BY <1>1, RoomIsLeft, Order
    <3>5. Available(t) = Limit(t) - Passed(Head0(t)) /\ Passed(Head0(t)) \in Nat
      <4>1. CASE op[t] = "enq"
        BY <1>1, <4>1, <3>2, Order, PassedBound DEF Available, Limit, Head0
      <4>2. CASE op[t] = "deq"
        BY <1>1, <4>2, <3>2, <3>3, Order DEF Available, Limit, Head0
      <4> QED
        BY <2>2, <4>1, <4>2
    <3> QED
      BY <2>2, <3>4, <3>5
  <2>5. Room(t) \in Nat
    BY <2>0, GrantedBound
  <2> QED
    BY <2>2, <2>3, <2>4, <2>5
<1>2. IInv /\ [Next]_vars =>
        [\A t \in Thread :
            pc[t] = "room" /\ pc'[t] = "idle" =>
                Available(t) < IF fixed[t] THEN want[t] ELSE 1]_vars
  BY <1>1
<1> QED
  BY <1>2, InvCorrect, PTL DEF Spec, RefusesTruthfully
=============================================================================
