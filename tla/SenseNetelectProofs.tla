--------------------------- MODULE SenseNetelectProofs ---------------------------
EXTENDS SenseNetelect, SequenceTheorems, TLAPS

\* The inductive invariant.
IInv == TypeOK /\ PublishInv /\ AttachInv /\ TimersInv /\ LoopInv /\ MbufInv

-----------------------------------------------------------------------------
(* What the steps of a loop do.                                            *)

\* publish_mp_info stores one field a step.
LEMMA FieldStep ==
    ASSUME PublishField
    PROVE  /\ \/ /\ pc["main"] = "portId" /\ Goto("main", "rxq")
                 /\ info' = [info EXCEPT !.port = SensePort]
              \/ /\ pc["main"] = "rxq" /\ Goto("main", "txq")
                 /\ info' = [info EXCEPT !.rxq = 1]
              \/ /\ pc["main"] = "txq" /\ Goto("main", "name")
                 /\ info' = [info EXCEPT !.txq = 1]
              \/ /\ pc["main"] = "name" /\ Goto("main", "flow")
                 /\ info' = [info EXCEPT !.name = TRUE]
           /\ UNCHANGED <<zone, flow, attached, timers, starts, bufferVars, killed>>
<1>1. PICK step \in DOMAIN FieldSteps :
        /\ pc["main"] = step
        /\ Goto("main", FieldSteps[step])
        /\ info' = CASE step = "portId" -> [info EXCEPT !.port = SensePort]
                     [] step = "rxq"    -> [info EXCEPT !.rxq = 1]
                     [] step = "txq"    -> [info EXCEPT !.txq = 1]
                     [] step = "name"   -> [info EXCEPT !.name = TRUE]
        /\ UNCHANGED <<zone, flow, attached, timers, starts, bufferVars, killed>>
  BY DEF PublishField
<1>2. step \in {"portId", "rxq", "txq", "name"}
  BY DEF FieldSteps
<1>3. /\ FieldSteps["portId"] = "rxq" /\ FieldSteps["rxq"] = "txq"
      /\ FieldSteps["txq"] = "name" /\ FieldSteps["name"] = "flow"
  BY DEF FieldSteps
<1>4. CASE step = "portId"
  BY <1>1, <1>3, <1>4
<1>5. CASE step = "rxq"
  BY <1>1, <1>3, <1>5
<1>6. CASE step = "txq"
  BY <1>1, <1>3, <1>6
<1>7. CASE step = "name"
  BY <1>1, <1>3, <1>7
<1> QED
  BY <1>2, <1>4, <1>5, <1>6, <1>7

\* A user that runs its loop stays in it, and touches nobody else's step.
LEMMA LoopPcs ==
    ASSUME TypeOK, NEW u \in User, LoopStep(u)
    PROVE  /\ pc[u] \in LoopPc
           /\ \E next \in LoopPc : Goto(u, next)
           /\ UNCHANGED <<startVars, killed>>
<1> USE DEF Goto, LoopPc
<1>1. Sent(u) \in LoopPc
  BY DEF Sent
<1>2. CASE Poll(u)
  <2>1. \E n \in {Ready(u)} : Goto(u, IF n = 0 THEN "timers" ELSE "packet")
    BY <1>2 DEF Poll
  <2> QED
    BY <1>2, <2>1 DEF Poll
<1>3. CASE AnswerPacket(u)
  BY <1>3 DEF AnswerPacket
<1>4. CASE FreePacket(u)
  BY <1>4 DEF FreePacket
<1>5. CASE Alloc(u)
  BY <1>1, <1>5 DEF Alloc
<1>6. CASE TxBurst(u)
  BY <1>1, <1>6 DEF TxBurst
<1>7. CASE Timers(u)
  BY <1>7 DEF Timers
<1> QED
  BY <1>2, <1>3, <1>4, <1>5, <1>6, <1>7 DEF LoopStep

\* rte_eth_rx_burst returns no more packets than wait, than there are mbufs to replace
\* them, and than the burst.
LEMMA ReadyBound ==
    ASSUME TypeOK, NEW u \in Poller
    PROVE  /\ Ready(u) \in Nat /\ Ready(u) <= free /\ Ready(u) <= Burst
           /\ RxQueue(u) \in Queue /\ Ready(u) <= Len(rx[RxQueue(u)])
<1>1. RxQueue(u) \in Queue
  BY DEF TypeOK, StartType, RxQueue, Queue
<1> DEFINE a == Len(rx[RxQueue(u)])
           S == {a, free, Burst}
<1>2. a \in Nat
  <2>1. rx[RxQueue(u)] \in Seq(Kind)
    BY <1>1 DEF TypeOK, BufferType
  <2> QED
    BY <2>1, LenProperties
<1>3. free \in Nat /\ Burst \in Nat
  BY SizeAssumption DEF TypeOK, BufferType
<1>4. \E x \in S : \A y \in S : x <= y
  <2> HIDE DEF a
  <2>1. CASE a <= free /\ a <= Burst
    BY <1>2, <1>3, <2>1
  <2>2. CASE free <= a /\ free <= Burst
    BY <1>2, <1>3, <2>2
  <2>3. CASE Burst <= a /\ Burst <= free
    BY <1>2, <1>3, <2>3
  <2> QED
    BY <1>2, <1>3, <2>1, <2>2, <2>3
<1>5. Min(S) \in S /\ \A y \in S : Min(S) <= y
  BY <1>4 DEF Min
<1>6. CASE OnPort(u)
  <2>1. Ready(u) = Min(S)
    BY <1>6 DEF Ready
  <2> QED
    BY <1>1, <1>2, <1>3, <1>5, <2>1
<1>7. CASE ~OnPort(u)
  <2>1. Ready(u) = 0
    BY <1>7 DEF Ready
  <2> QED
    BY <1>1, <1>2, <1>3, <2>1
<1> QED
  BY <1>6, <1>7

\* Polling moves that many packets from the queue into the hand, for as many mbufs.
LEMMA PollTakes ==
    ASSUME TypeOK, NEW u \in Poller, Poll(u)
    PROVE  \E n \in 0..Burst : \E burst, rest \in Seq(Kind), q \in Queue :
        /\ n <= free /\ free' = free - n
        /\ Len(burst) = n /\ hand' = [hand EXCEPT ![u] = burst]
        /\ Len(rest) <= Len(rx[q]) /\ rx' = [rx EXCEPT ![q] = rest]
        /\ Goto(u, IF burst = <<>> THEN "timers" ELSE "packet")
<1> DEFINE n == Ready(u)
           q == RxQueue(u)
           burst == SubSeq(rx[q], 1, n)
           rest == SubSeq(rx[q], n + 1, Len(rx[q]))
<1>1. n \in Nat /\ n <= free /\ n <= Burst /\ q \in Queue /\ n <= Len(rx[q])
  BY ReadyBound
<1>2. rx[q] \in Seq(Kind) /\ q \in DOMAIN rx
  BY <1>1 DEF TypeOK, BufferType
<1>3. Len(rx[q]) \in Nat /\ rx[q] \in [1..Len(rx[q]) -> Kind]
  BY <1>2, LenProperties
<1>4. n \in 0..Burst
  BY <1>1, SizeAssumption
<1>5. /\ free' = free - n
      /\ hand' = [hand EXCEPT ![u] = burst]
      /\ rx' = [rx EXCEPT ![q] = rest]
      /\ Goto(u, IF n = 0 THEN "timers" ELSE "packet")
  BY <1>2 DEF Poll
<1> HIDE DEF n, q
<1>6. burst \in Seq(Kind) /\ Len(burst) = n
  <2>1. \A i \in 1..n : rx[q][i] \in Kind
    BY <1>1, <1>3
  <2> QED
    BY <1>1, <2>1, SubSeqProperties
<1>7. rest \in Seq(Kind) /\ Len(rest) <= Len(rx[q])
  <2>1. \A i \in n + 1..Len(rx[q]) : rx[q][i] \in Kind
    BY <1>1, <1>3
  <2>2. n + 1 \in Int /\ Len(rx[q]) \in Int
    BY <1>1, <1>3
  <2>3. /\ rest \in Seq(Kind)
        /\ Len(rest) = IF n + 1 <= Len(rx[q]) THEN Len(rx[q]) - (n + 1) + 1 ELSE 0
    BY <2>1, <2>2, SubSeqProperties
  <2> QED
    BY <1>1, <1>3, <2>3
<1>8. burst = <<>> <=> n = 0
  BY <1>6, EmptySeq
<1> HIDE DEF burst, rest
<1> QED
  BY <1>1, <1>4, <1>5, <1>6, <1>7, <1>8

\* The packet that is freed is the first of the hand.
LEMMA FreeTakes ==
    ASSUME TypeOK, LoopInv, NEW u \in Poller, FreePacket(u)
    PROVE  \E rest \in Seq(Kind) :
        /\ Len(rest) = Len(hand[u]) - 1 /\ hand' = [hand EXCEPT ![u] = rest]
        /\ free' = free + 1
        /\ Goto(u, IF rest = <<>> THEN "timers" ELSE "packet")
<1>1. hand[u] \in Seq(Kind) /\ hand[u] # <<>>
  BY DEF TypeOK, BufferType, LoopInv, InLoop, FreePacket, Poller, User
<1>2. Tail(hand[u]) \in Seq(Kind) /\ Len(Tail(hand[u])) = Len(hand[u]) - 1
  BY <1>1, HeadTailProperties
<1>3. Len(hand[u]) = 1 <=> Tail(hand[u]) = <<>>
  <2>1. Len(hand[u]) \in Nat
    BY <1>1, LenProperties
  <2>2. Len(Tail(hand[u])) = 0 <=> Tail(hand[u]) = <<>>
    BY <1>2, EmptySeq
  <2> QED
    BY <1>2, <2>1, <2>2
<1> QED
  BY <1>2, <1>3 DEF FreePacket, Freed

\* What is to be sent for a packet, and in a user's own time, is at least one packet.
LEMMA AnswerBound ==
    ASSUME TypeOK, LoopInv, NEW u \in Poller, AnswerPacket(u)
    PROVE  \E n \in 1..Peers :
        toSend' = [toSend EXCEPT ![u] = n] /\ Goto(u, "alloc")
<1>1. Head(hand[u]) \in Kind
  <2>1. hand[u] \in Seq(Kind) /\ hand[u] # <<>>
    BY DEF TypeOK, BufferType, LoopInv, InLoop, AnswerPacket, Poller, User
  <2> QED
    BY <2>1, HeadTailProperties
<1>2. Answer[u][Head(hand[u])] \subseteq 1..Peers
  BY <1>1, SizeAssumption DEF Answer, Poller, Kind
<1> QED
  BY <1>2 DEF AnswerPacket

\* A step of one user need be looked at for that user only.
LEMMA OthersInLoop ==
    ASSUME LoopInv, NEW u \in User, InLoop(u)',
           \A v \in User \ {u} :
               pc'[v] = pc[v] /\ hand'[v] = hand[v] /\ toSend'[v] = toSend[v]
    PROVE  LoopInv'
BY DEF LoopInv, InLoop

\* A step of a loop keeps the account of what its user holds and has to send.
LEMMA LoopStepInLoop ==
    ASSUME TypeOK, LoopInv, NEW u \in User, LoopStep(u)
    PROVE  LoopInv'
<1> USE DEF Goto
<1>1. /\ pc \in [User -> LoopPc \cup PublishPc \cup AttachPc \cup {"down"}]
      /\ hand \in [User -> Seq(Kind)]
      /\ toSend \in [User -> Nat] /\ InLoop(u)
  <2>1. 0..Peers \subseteq Nat
    BY SizeAssumption
  <2> QED
    BY <2>1 DEF TypeOK, PcType, BufferType, LoopInv
<1>2. ASSUME u \in Poller, Poll(u) PROVE LoopInv'
  <2>1. PICK burst \in Seq(Kind) :
          /\ hand' = [hand EXCEPT ![u] = burst]
          /\ Goto(u, IF burst = <<>> THEN "timers" ELSE "packet")
    BY <1>2, PollTakes
  <2>2. UNCHANGED toSend
    BY <1>2 DEF Poll
  <2>3. InLoop(u)'
    BY <1>1, <1>2, <2>1 DEF InLoop, Poller
  <2> QED
    BY <1>1, <2>1, <2>2, <2>3, OthersInLoop
<1>3. ASSUME u \in Poller, AnswerPacket(u) PROVE LoopInv'
  <2>1. PICK n \in 1..Peers : toSend' = [toSend EXCEPT ![u] = n] /\ Goto(u, "alloc")
    BY <1>3, AnswerBound
  <2>2. UNCHANGED hand
    BY <1>3 DEF AnswerPacket
  <2>3. n > 0
    BY SizeAssumption
  <2>4. InLoop(u)'
    BY <1>1, <1>3, <2>1, <2>2, <2>3 DEF InLoop, Poller
  <2> QED
    BY <1>1, <2>1, <2>2, <2>4, OthersInLoop
<1>4. ASSUME u \in Poller, FreePacket(u) PROVE LoopInv'
  <2>1. PICK rest \in Seq(Kind) :
          /\ hand' = [hand EXCEPT ![u] = rest]
          /\ Goto(u, IF rest = <<>> THEN "timers" ELSE "packet")
    BY <1>4, FreeTakes
  <2>2. UNCHANGED toSend
    BY <1>4 DEF FreePacket
  <2>3. InLoop(u)'
    BY <1>1, <1>4, <2>1 DEF InLoop, Poller
  <2> QED
    BY <1>1, <2>1, <2>2, <2>3, OthersInLoop
<1>5. ASSUME pc[u] \in {"alloc", "tx"}, UNCHANGED hand,
             \/ UNCHANGED toSend /\ Goto(u, "tx")
             \/ /\ toSend' = [toSend EXCEPT ![u] = @ - 1]
                /\ Goto(u, IF toSend[u] = 1 THEN Sent(u) ELSE "alloc")
      PROVE  LoopInv'
  <2>1. InLoop(u)'
    BY <1>1, <1>5 DEF InLoop, Sent
  <2> QED
    BY <1>1, <1>5, <2>1, OthersInLoop
<1>6. ASSUME Timers(u) PROVE LoopInv'
  <2>1. Own[u] > 0 /\ UNCHANGED hand
    BY <1>6, SizeAssumption DEF Own, User, Timers
  <2>2. InLoop(u)'
    BY <1>1, <1>6, <2>1 DEF InLoop, Timers
  <2> QED
    BY <1>1, <1>6, <2>1, <2>2, OthersInLoop DEF Timers
<1>7. Alloc(u) \/ TxBurst(u) => LoopInv'
  BY <1>5 DEF Alloc, TxBurst
<1> QED
  BY <1>2, <1>3, <1>4, <1>6, <1>7 DEF LoopStep

\* What somebody holds is a number.
HoldingNat ==
    /\ InUse \in Nat /\ tx[0] \in Nat /\ tx[1] \in Nat
    /\ \A u \in User : Holds(u) \in Nat /\ Len(hand[u]) \in Nat

LEMMA InUseNat == TypeOK => HoldingNat
<1> SUFFICES ASSUME TypeOK PROVE HoldingNat
  OBVIOUS
<1>1. ASSUME NEW u \in User PROVE Holds(u) \in Nat /\ Len(hand[u]) \in Nat
  <2>1. hand[u] \in Seq(Kind)
    BY DEF TypeOK, BufferType
  <2>2. Len(hand[u]) \in Nat
    BY <2>1, LenProperties
  <2> QED
    BY <2>2 DEF Holds
<1>2. tx[0] \in Nat /\ tx[1] \in Nat
  BY SizeAssumption DEF TypeOK, BufferType, Queue
<1> QED
  BY <1>1, <1>2 DEF InUse, User, HoldingNat

\* The same of the next state.
LEMMA InUseNatNext == TypeOK' => HoldingNat'
BY InUseNat, PTL

\* Mbufs move between the pool and those who hold them, or are lost in one of the two
\* known ways.
LEMMA Balance ==
    ASSUME TypeOK, TypeOK', MbufInv,
           pc["main"] = "port" <=> pc'["main"] = "port",
           pc["main"] = "port" => UNCHANGED free,
           NEW d \in Nat, free' + InUse' + d = free + InUse,
           ~refused' /\ "mbuf" \notin killed' =>
               ~refused /\ "mbuf" \notin killed /\ d = 0
    PROVE  MbufInv'
<1>1. free \in Nat /\ free' \in Nat /\ RxRing \in Nat /\ Pool \in Nat
  BY SizeAssumption DEF TypeOK, BufferType
<1>2. /\ Holds("main") \in Nat /\ Holds("worker") \in Nat /\ Holds("netelect") \in Nat
      /\ Holds("main")' \in Nat /\ Holds("worker")' \in Nat /\ Holds("netelect")' \in Nat
      /\ tx[0] \in Nat /\ tx[1] \in Nat /\ tx'[0] \in Nat /\ tx'[1] \in Nat
  BY InUseNat, InUseNatNext DEF HoldingNat, User
<1>3. CASE pc'["main"] = "port"
  BY <1>1, <1>2, <1>3 DEF MbufInv, InUse, NoMbufLost
<1>4. CASE pc'["main"] # "port"
  <2>1. free' + 2 * RxRing + InUse' <= Pool
    BY <1>1, <1>2, <1>4 DEF MbufInv, InUse
  <2>2. NoMbufLost'
    BY <1>1, <1>2, <1>4 DEF MbufInv, NoMbufLost, InUse
  <2> QED
    BY <1>4, <2>1, <2>2 DEF MbufInv
<1> QED
  BY <1>3, <1>4

\* A step of one user changes what that user holds.
LEMMA UserBalance ==
    ASSUME TypeOK, TypeOK', NEW u \in User, NEW d \in Nat,
           \A v \in User \ {u} : pc'[v] = pc[v] /\ hand'[v] = hand[v],
           free' + Holds(u)' + tx'[0] + tx'[1] + d = free + Holds(u) + tx[0] + tx[1]
    PROVE  free' + InUse' + d = free + InUse
<1>1. \A v \in User \ {u} : Holds(v)' = Holds(v)
  BY DEF Holds
<1>2. /\ tx[0] \in Nat /\ tx[1] \in Nat /\ tx'[0] \in Nat /\ tx'[1] \in Nat
      /\ \A v \in User : Holds(v) \in Nat /\ Holds(v)' \in Nat
  BY InUseNat, InUseNatNext DEF HoldingNat
<1>3. free \in Nat /\ free' \in Nat
  BY SizeAssumption DEF TypeOK, BufferType
<1>4. /\ Holds("main") \in Nat /\ Holds("worker") \in Nat /\ Holds("netelect") \in Nat
      /\ Holds("main")' \in Nat /\ Holds("worker")' \in Nat /\ Holds("netelect")' \in Nat
      /\ tx[0] \in Nat /\ tx[1] \in Nat /\ tx'[0] \in Nat /\ tx'[1] \in Nat
  BY <1>2 DEF User
<1>5. ASSUME NEW others \in Nat,
             InUse = tx[0] + tx[1] + Holds(u) + others,
             InUse' = tx'[0] + tx'[1] + Holds(u)' + others
      PROVE  free' + InUse' + d = free + InUse
  BY <1>2, <1>3, <1>5
<1>6. CASE u = "main"
  <2> DEFINE others == Holds("worker") + Holds("netelect")
  <2>1. Holds("worker")' = Holds("worker") /\ Holds("netelect")' = Holds("netelect")
    BY <1>1, <1>6 DEF User
  <2>2. /\ others \in Nat
        /\ InUse = tx[0] + tx[1] + Holds("main") + others
        /\ InUse' = tx'[0] + tx'[1] + Holds("main")' + others
    BY <1>4, <2>1 DEF InUse
  <2> HIDE DEF others
  <2> QED
    BY <1>5, <1>6, <2>2
<1>7. CASE u = "worker"
  <2> DEFINE others == Holds("main") + Holds("netelect")
  <2>1. Holds("main")' = Holds("main") /\ Holds("netelect")' = Holds("netelect")
    BY <1>1, <1>7 DEF User
  <2>2. /\ others \in Nat
        /\ InUse = tx[0] + tx[1] + Holds("worker") + others
        /\ InUse' = tx'[0] + tx'[1] + Holds("worker")' + others
    BY <1>4, <2>1 DEF InUse
  <2> HIDE DEF others
  <2> QED
    BY <1>5, <1>7, <2>2
<1>8. CASE u = "netelect"
  <2> DEFINE others == Holds("main") + Holds("worker")
  <2>1. Holds("main")' = Holds("main") /\ Holds("worker")' = Holds("worker")
    BY <1>1, <1>8 DEF User
  <2>2. /\ others \in Nat
        /\ InUse = tx[0] + tx[1] + Holds("netelect") + others
        /\ InUse' = tx'[0] + tx'[1] + Holds("netelect")' + others
    BY <1>4, <2>1 DEF InUse
  <2> HIDE DEF others
  <2> QED
    BY <1>5, <1>8, <2>2
<1> QED
  BY <1>6, <1>7, <1>8 DEF User

\* A step of a loop takes what it gives back, but for a packet that is not taken.
LEMMA LoopBalance ==
    ASSUME TypeOK, TypeOK', LoopInv, NEW u \in User, LoopStep(u)
    PROVE  \/ free' + InUse' + 0 = free + InUse /\ UNCHANGED refused
           \/ free' + InUse' + 1 = free + InUse /\ refused'
<1> USE DEF Goto
<1>1. /\ pc \in [User -> LoopPc \cup PublishPc \cup AttachPc \cup {"down"}]
      /\ hand \in [User -> Seq(Kind)] /\ tx \in [Queue -> Nat]
      /\ free \in Nat /\ free' \in Nat /\ tx' \in [Queue -> Nat] /\ InLoop(u)
  <2>1. 0..TxRing \subseteq Nat /\ 0..Pool \subseteq Nat
    BY SizeAssumption
  <2> QED
    BY <2>1 DEF TypeOK, PcType, BufferType, LoopInv
<1>2. /\ tx[0] \in Nat /\ tx[1] \in Nat /\ tx'[0] \in Nat /\ tx'[1] \in Nat
      /\ \A v \in User : /\ Holds(v) \in Nat /\ Holds(v)' \in Nat
                         /\ Len(hand[v]) \in Nat /\ Len(hand'[v]) \in Nat
  BY InUseNat, InUseNatNext DEF HoldingNat
<1>3. ASSUME \A v \in User \ {u} : pc'[v] = pc[v] /\ hand'[v] = hand[v],
             free' + Holds(u)' = free + Holds(u), UNCHANGED <<tx, refused>>
      PROVE  free' + InUse' + 0 = free + InUse /\ UNCHANGED refused
  <2>1. free' + Holds(u)' + tx'[0] + tx'[1] + 0 = free + Holds(u) + tx[0] + tx[1]
    BY <1>1, <1>2, <1>3
  <2> QED
    BY <1>3, <2>1, UserBalance
<1>4. ASSUME u \in Poller, Poll(u)
      PROVE  /\ \A v \in User \ {u} : pc'[v] = pc[v] /\ hand'[v] = hand[v]
             /\ free' + Holds(u)' = free + Holds(u) /\ UNCHANGED <<tx, refused>>
  <2>1. PICK n \in 0..Burst, burst \in Seq(Kind) :
          /\ free' = free - n
          /\ Len(burst) = n /\ hand' = [hand EXCEPT ![u] = burst]
          /\ Goto(u, IF burst = <<>> THEN "timers" ELSE "packet")
    BY <1>4, PollTakes
  <2>2. pc[u] = "loop" /\ hand[u] = <<>>
    BY <1>1, <1>4 DEF Poll, InLoop
  <2>3. Len(hand[u]) = 0
    BY <2>2, EmptySeq
  <2>4. Holds(u) = 0
    BY <2>2, <2>3 DEF Holds
  <2>5. Holds(u)' = n
    BY <1>1, <2>1, SizeAssumption DEF Holds
  <2>6. UNCHANGED <<tx, refused>>
    BY <1>4 DEF Poll
  <2> QED
    BY <1>1, <2>1, <2>4, <2>5, <2>6, SizeAssumption
<1>5. ASSUME u \in Poller, FreePacket(u)
      PROVE  /\ \A v \in User \ {u} : pc'[v] = pc[v] /\ hand'[v] = hand[v]
             /\ free' + Holds(u)' = free + Holds(u) /\ UNCHANGED <<tx, refused>>
  <2>1. PICK rest \in Seq(Kind) :
          /\ Len(rest) = Len(hand[u]) - 1 /\ hand' = [hand EXCEPT ![u] = rest]
          /\ free' = free + 1
          /\ Goto(u, IF rest = <<>> THEN "timers" ELSE "packet")
    BY <1>5, FreeTakes
  <2>2. pc[u] # "tx" /\ UNCHANGED <<tx, refused>>
    BY <1>5 DEF FreePacket
  <2>3. Holds(u) = Len(hand[u]) /\ Holds(u)' = Len(hand[u]) - 1
    BY <1>1, <1>2, <2>1, <2>2 DEF Holds
  <2> QED
    BY <1>1, <1>2, <2>1, <2>2, <2>3
<1>6. ASSUME AnswerPacket(u) \/ Timers(u) \/ Alloc(u)
      PROVE  /\ \A v \in User \ {u} : pc'[v] = pc[v] /\ hand'[v] = hand[v]
             /\ free' + Holds(u)' = free + Holds(u) /\ UNCHANGED <<tx, refused>>
  <2>1. /\ pc[u] # "tx" /\ UNCHANGED <<hand, tx, refused>>
        /\ \/ (\E next \in LoopPc : next # "tx" /\ Goto(u, next)) /\ UNCHANGED free
           \/ Goto(u, "tx") /\ free' = free - 1
    <3>1. CASE AnswerPacket(u)
      BY <3>1 DEF AnswerPacket, LoopPc
    <3>2. CASE Timers(u)
      BY <3>2 DEF Timers, LoopPc
    <3>3. CASE Alloc(u)
      BY <3>3 DEF Alloc, LoopPc, Sent
    <3> QED
      BY <1>6, <3>1, <3>2, <3>3
  <2>2. Holds(u) = Len(hand[u])
    BY <2>1 DEF Holds
  <2>3. CASE UNCHANGED free /\ pc'[u] # "tx"
    <3>1. Holds(u)' = Len(hand[u])
      BY <2>1, <2>3 DEF Holds
    <3> QED
      BY <1>1, <1>2, <2>1, <2>2, <2>3, <3>1
  <2>4. CASE Goto(u, "tx") /\ free' = free - 1
    <3>1. Holds(u)' = Len(hand[u]) + 1
      BY <1>1, <2>1, <2>4 DEF Holds
    <3> QED
      BY <1>1, <1>2, <2>1, <2>2, <2>4, <3>1
  <2> QED
    BY <1>1, <2>1, <2>3, <2>4
<1>7. ASSUME TxBurst(u)
      PROVE  \/ free' + InUse' + 0 = free + InUse /\ UNCHANGED refused
             \/ free' + InUse' + 1 = free + InUse /\ refused'
  <2>1. TxQueue(u) \in Queue
    BY DEF TxQueue, TypeOK, StartType, Queue
  <2>2. \A v \in User \ {u} : pc'[v] = pc[v] /\ hand'[v] = hand[v]
    BY <1>1, <1>7 DEF TxBurst
  <2>3. Holds(u)' = Holds(u) - 1 /\ UNCHANGED free
    <3>1. pc[u] = "tx" /\ pc'[u] # "tx" /\ UNCHANGED <<hand, free>>
      BY <1>1, <1>7 DEF TxBurst, Sent
    <3> QED
      BY <1>1, <1>2, <3>1 DEF Holds
  <2>6. /\ free \in Nat /\ tx[0] \in Nat /\ tx[1] \in Nat
        /\ Holds(u) \in Nat /\ Holds(u)' \in Nat
    BY <1>1, <1>2
  <2>4. CASE OnPort(u) /\ tx[TxQueue(u)] < TxRing
    <3>1. tx' = [tx EXCEPT ![TxQueue(u)] = @ + 1] /\ UNCHANGED refused
      BY <1>7, <2>4 DEF TxBurst
    <3>2. CASE TxQueue(u) = 0
      <4>1. tx'[0] = tx[0] + 1 /\ tx'[1] = tx[1]
        BY <1>1, <3>1, <3>2 DEF Queue
      <4>2. free' + Holds(u)' + tx'[0] + tx'[1] + 0 = free + Holds(u) + tx[0] + tx[1]
        BY <2>3, <2>6, <4>1
      <4> QED
        BY <2>2, <3>1, <4>2, UserBalance
    <3>3. CASE TxQueue(u) = 1
      <4>1. tx'[0] = tx[0] /\ tx'[1] = tx[1] + 1
        BY <1>1, <3>1, <3>3 DEF Queue
      <4>2. free' + Holds(u)' + tx'[0] + tx'[1] + 0 = free + Holds(u) + tx[0] + tx[1]
        BY <2>3, <2>6, <4>1
      <4> QED
        BY <2>2, <3>1, <4>2, UserBalance
    <3> QED
      BY <2>1, <3>2, <3>3 DEF Queue
  <2>5. CASE ~(OnPort(u) /\ tx[TxQueue(u)] < TxRing)
    <3>1. refused' /\ UNCHANGED tx
      BY <1>7, <2>5 DEF TxBurst
    <3>2. free' + Holds(u)' + tx'[0] + tx'[1] + 1 = free + Holds(u) + tx[0] + tx[1]
      BY <2>3, <2>6, <3>1
    <3> QED
      BY <2>2, <3>1, <3>2, UserBalance
  <2> QED
    BY <2>4, <2>5
<1> QED
  BY <1>3, <1>4, <1>5, <1>6, <1>7 DEF LoopStep

\* Steps that move no mbuf.
LEMMA Quiet ==
    ASSUME TypeOK, TypeOK', MbufInv,
           pc["main"] = "port" <=> pc'["main"] = "port",
           \A u \in User : pc[u] = "tx" <=> pc'[u] = "tx",
           UNCHANGED <<hand, free, tx, refused, killed>>
    PROVE  MbufInv'
<1>1. \A u \in User : Holds(u)' = Holds(u)
  BY DEF Holds
<1>2. /\ free \in Nat /\ Holds("main") \in Nat /\ Holds("worker") \in Nat
      /\ Holds("netelect") \in Nat /\ tx[0] \in Nat /\ tx[1] \in Nat
  <2>1. free \in Nat
    BY SizeAssumption DEF TypeOK, BufferType
  <2> QED
    BY <2>1, InUseNat DEF HoldingNat, User
<1>3. free' + InUse' + 0 = free + InUse
  BY <1>1, <1>2 DEF InUse, User
<1> QED
  BY <1>3, Balance

\* Mbufs are counted right, whatever is done.
LEMMA MbufNext ==
    ASSUME IInv, TypeOK', [Next]_vars PROVE MbufInv'
<1> USE DEF Goto
<1>1. /\ TypeOK /\ PublishInv /\ AttachInv /\ LoopInv /\ MbufInv
      /\ pc \in [User -> LoopPc \cup PublishPc \cup AttachPc \cup {"down"}]
      /\ User = {"main", "worker", "netelect"}
  BY DEF IInv, TypeOK, PcType, User
<1>2. ASSUME InitPort PROVE MbufInv'
  <2>1. /\ pc["main"] = "port" /\ pc'["main"] = "zone" /\ free' = free - 2 * RxRing
        /\ \A u \in User : pc[u] = "tx" <=> pc'[u] = "tx"
        /\ UNCHANGED <<hand, tx, refused, killed>>
    BY <1>1, <1>2 DEF InitPort
  <2>2. /\ Holds("main") \in Nat /\ Holds("worker") \in Nat /\ Holds("netelect") \in Nat
        /\ tx[0] \in Nat /\ tx[1] \in Nat /\ RxRing \in Nat /\ Pool \in Nat
    BY <1>1, InUseNat, SizeAssumption DEF HoldingNat
  <2>3. \A u \in User : Holds(u)' = Holds(u)
    BY <2>1 DEF Holds
  <2>4. free = Pool /\ InUse = 0
    BY <1>1, <2>1 DEF MbufInv
  <2>5. InUse' = 0
    BY <1>1, <2>1, <2>3, <2>4 DEF InUse
  <2>6. free' + 2 * RxRing = Pool
    BY <2>1, <2>2, <2>4
  <2>7. /\ tx'[0] = 0 /\ tx'[1] = 0
        /\ Holds("main")' = 0 /\ Holds("worker")' = 0 /\ Holds("netelect")' = 0
    <3> DEFINE s == tx[0] + tx[1] + Holds("main")
    <3>1. s \in Nat /\ s + Holds("worker") + Holds("netelect") = 0
      BY <2>2, <2>4 DEF InUse
    <3>2. s = 0 /\ Holds("worker") = 0 /\ Holds("netelect") = 0
      <4> HIDE DEF s
      <4> QED
        BY <2>2, <3>1
    <3>3. tx[0] = 0 /\ tx[1] = 0 /\ Holds("main") = 0
      BY <2>2, <3>2
    <3> QED
      BY <1>1, <2>1, <2>3, <3>2, <3>3
  <2>8. NoMbufLost'
    BY <2>2, <2>6, <2>7 DEF NoMbufLost
  <2> QED
    BY <2>1, <2>2, <2>5, <2>6, <2>7, <2>8 DEF MbufInv, InUse
<1>3. ASSUME ReserveZone \/ PublishField \/ CreateFlow PROVE MbufInv'
  <2>1. /\ pc["main"] \in PublishPc \ {"port"} /\ pc["worker"] = "down"
        /\ UNCHANGED <<hand, free, tx, refused, killed>>
    <3>1. pc["main"] \in PublishPc \ {"port"} /\ UNCHANGED <<bufferVars, killed>>
      BY <1>3, FieldStep DEF ReserveZone, CreateFlow, PublishPc
    <3> QED
      BY <1>1, <3>1 DEF PublishInv, PublishPc, LoopPc, bufferVars
  <2>2. /\ pc'["main"] \notin {"port", "tx"} /\ pc'["worker"] # "tx"
        /\ pc'["netelect"] = pc["netelect"]
    BY <1>1, <1>3, <2>1, FieldStep DEF ReserveZone, CreateFlow
  <2> QED
    BY <1>1, <2>1, <2>2, Quiet DEF PublishPc
<1>4. ASSUME Start \/ NetAttach PROVE MbufInv'
  <2>1. pc["netelect"] \notin LoopPc /\ UNCHANGED <<bufferVars, killed>>
    BY <1>4 DEF Start, NetAttach, LookupZone, ComparePort, OverridePort, LookupPool,
                ReadRxq, ReadTxq, RaftInit, Attach, LoopPc
  <2>2. \E next \in AttachPc \cup {"down", "loop"} : Goto("netelect", next)
    BY <1>4 DEF Start, NetAttach, LookupZone, ComparePort, OverridePort, LookupPool,
                ReadRxq, ReadTxq, RaftInit, Attach, AttachPc
  <2>3. /\ pc["netelect"] # "tx" /\ pc'["netelect"] # "tx"
        /\ pc'["main"] = pc["main"] /\ pc'["worker"] = pc["worker"]
    BY <1>1, <2>1, <2>2 DEF LoopPc, AttachPc
  <2> QED
    BY <1>1, <2>1, <2>3, Quiet DEF bufferVars
<1>5. ASSUME Kill PROVE MbufInv'
  <2>1. /\ \A v \in User \ {"netelect"} : pc'[v] = pc[v] /\ hand'[v] = hand[v]
        /\ pc'["netelect"] = "down" /\ hand'["netelect"] = <<>>
        /\ UNCHANGED <<free, tx, refused>>
    BY <1>1, <1>5 DEF Kill, TypeOK, PcType, BufferType
  <2>2. Holds("netelect")' = 0
    BY <2>1, EmptySeq DEF Holds
  <2>3. /\ Holds("netelect") \in Nat /\ free \in Nat /\ tx[0] \in Nat /\ tx[1] \in Nat
    <3>1. free \in Nat
      BY <1>1, SizeAssumption DEF TypeOK, BufferType
    <3> QED
      BY <1>1, <3>1, InUseNat DEF HoldingNat
  <2>4. free' + Holds("netelect")' + tx'[0] + tx'[1] + Holds("netelect")
            = free + Holds("netelect") + tx[0] + tx[1]
    BY <2>1, <2>2, <2>3
  <2>5. free' + InUse' + Holds("netelect") = free + InUse
    BY <1>1, <2>1, <2>3, <2>4, UserBalance
  <2>6. "mbuf" \notin killed' => "mbuf" \notin killed /\ Holds("netelect") = 0
    BY <1>5, <2>3 DEF Kill
  <2> QED
    BY <1>1, <2>1, <2>3, <2>5, <2>6, Balance
<1>6. ASSUME NEW u \in User, LoopStep(u) PROVE MbufInv'
  <2>1. /\ pc[u] \in LoopPc /\ (\E next \in LoopPc : Goto(u, next)) /\ UNCHANGED killed
    BY <1>1, <1>6, LoopPcs
  <2>2. pc["main"] # "port" /\ pc'["main"] # "port"
    BY <1>1, <2>1 DEF PublishInv, AttachInv, LoopPc
  <2>3. \/ free' + InUse' + 0 = free + InUse /\ UNCHANGED refused
        \/ free' + InUse' + 1 = free + InUse /\ refused'
    BY <1>1, <1>6, LoopBalance
  <2> QED
    BY <1>1, <2>1, <2>2, <2>3, Balance
<1>7. ASSUME NEW q \in Queue, Transmit(q) PROVE MbufInv'
  <2>1. /\ tx[q] > 0 /\ tx' = [tx EXCEPT ![q] = @ - 1] /\ free' = free + 1
        /\ UNCHANGED <<pc, hand, refused, killed>>
    BY <1>7 DEF Transmit
  <2>2. \A u \in User : Holds(u)' = Holds(u)
    BY <2>1 DEF Holds
  <2>3. /\ Holds("main") \in Nat /\ Holds("worker") \in Nat /\ Holds("netelect") \in Nat
        /\ tx[0] \in Nat /\ tx[1] \in Nat /\ free \in Nat /\ tx \in [Queue -> 0..TxRing]
    <3>1. free \in Nat /\ tx \in [Queue -> 0..TxRing]
      BY <1>1, SizeAssumption DEF TypeOK, BufferType
    <3> QED
      BY <1>1, <3>1, InUseNat DEF HoldingNat
  <2>4. tx'[0] + tx'[1] + 1 = tx[0] + tx[1]
    BY <2>1, <2>3, SizeAssumption DEF Queue
  <2>5. free' + InUse' + 0 = free + InUse
    BY <1>1, <2>1, <2>2, <2>3, <2>4 DEF InUse
  <2>6. pc["main"] # "port"
    BY <1>1, <2>1, <2>3 DEF MbufInv, InUse, Queue
  <2> QED
    BY <1>1, <2>1, <2>5, <2>6, Balance
<1>8. ASSUME (\E kind \in Kind : Arrive(kind)) \/ UNCHANGED vars PROVE MbufInv'
  <2>1. UNCHANGED <<pc, hand, free, tx, refused, killed>>
    BY <1>8 DEF Arrive, vars, bufferVars
  <2> QED
    BY <1>1, <2>1, Quiet
<1> QED
  BY <1>2, <1>3, <1>4, <1>5, <1>6, <1>7, <1>8 DEF Next, NetInit

\* The types of what a loop step changes: rings and bursts keep their sizes, and the pool
\* does not overflow.
LEMMA LoopType ==
    ASSUME TypeOK, LoopInv, MbufInv, pc["main"] # "port", NEW u \in User, LoopStep(u)
    PROVE  /\ hand' \in [User -> Seq(Kind)] /\ \A v \in User : Len(hand'[v]) <= Burst
           /\ toSend' \in [User -> 0..Peers]
           /\ free' \in 0..Pool
           /\ rx' \in [Queue -> Seq(Kind)] /\ \A q \in Queue : Len(rx'[q]) <= RxRing
           /\ tx' \in [Queue -> 0..TxRing]
           /\ refused' \in BOOLEAN
<1>1. /\ hand \in [User -> Seq(Kind)] /\ \A v \in User : Len(hand[v]) <= Burst
      /\ toSend \in [User -> 0..Peers]
      /\ free \in 0..Pool
      /\ rx \in [Queue -> Seq(Kind)] /\ \A q \in Queue : Len(rx[q]) <= RxRing
      /\ tx \in [Queue -> 0..TxRing]
      /\ refused \in BOOLEAN
  BY DEF TypeOK, BufferType
<1>2. /\ Pool \in Nat /\ Burst \in Nat /\ RxRing \in Nat /\ TxRing \in Nat
      /\ Peers \in Nat /\ Peers > 0
  BY SizeAssumption
<1>3. /\ \A v \in User : Len(hand[v]) \in Nat
      /\ \A q \in Queue : Len(rx[q]) \in Nat
  BY <1>1, LenProperties
<1>4. ASSUME u \in Poller, Poll(u)
      PROVE  /\ hand' \in [User -> Seq(Kind)] /\ \A v \in User : Len(hand'[v]) <= Burst
             /\ free' \in 0..Pool
             /\ rx' \in [Queue -> Seq(Kind)] /\ \A q \in Queue : Len(rx'[q]) <= RxRing
             /\ UNCHANGED <<toSend, tx, refused>>
  <2>1. PICK n \in 0..Burst, burst \in Seq(Kind), rest \in Seq(Kind), q \in Queue :
          /\ n <= free /\ free' = free - n
          /\ Len(burst) = n /\ hand' = [hand EXCEPT ![u] = burst]
          /\ Len(rest) <= Len(rx[q]) /\ rx' = [rx EXCEPT ![q] = rest]
    BY <1>4, PollTakes
  <2>2. Len(burst) <= Burst /\ free' \in 0..Pool
    BY <1>1, <1>2, <2>1
  <2>3. Len(rest) <= RxRing
    <3>1. Len(rest) \in Nat
      BY LenProperties
    <3> QED
      BY <1>1, <1>2, <1>3, <2>1, <3>1
  <2>4. UNCHANGED <<toSend, tx, refused>>
    BY <1>4 DEF Poll
  <2>5. hand' \in [User -> Seq(Kind)] /\ \A v \in User : Len(hand'[v]) <= Burst
    BY <1>1, <2>1, <2>2
  <2>6. rx' \in [Queue -> Seq(Kind)] /\ \A p \in Queue : Len(rx'[p]) <= RxRing
    BY <1>1, <2>1, <2>3
  <2> QED
    BY <2>2, <2>4, <2>5, <2>6
<1>5. ASSUME u \in Poller, AnswerPacket(u)
      PROVE  toSend' \in [User -> 0..Peers] /\ UNCHANGED <<hand, free, rx, tx, refused>>
  <2>1. PICK n \in 1..Peers : toSend' = [toSend EXCEPT ![u] = n]
    BY <1>5, AnswerBound
  <2>2. n \in 0..Peers
    BY <1>2
  <2> QED
    BY <1>1, <1>5, <2>1, <2>2 DEF AnswerPacket
<1>6. ASSUME u \in Poller, FreePacket(u)
      PROVE  /\ hand' \in [User -> Seq(Kind)] /\ \A v \in User : Len(hand'[v]) <= Burst
             /\ free' \in 0..Pool /\ UNCHANGED <<toSend, rx, tx, refused>>
  <2>1. PICK rest \in Seq(Kind) :
          /\ Len(rest) = Len(hand[u]) - 1 /\ hand' = [hand EXCEPT ![u] = rest]
          /\ free' = free + 1
    BY <1>6, FreeTakes
  <2>2. Len(rest) \in Nat /\ Len(rest) <= Burst
    <3>1. Len(rest) \in Nat
      BY LenProperties
    <3> QED
      BY <1>1, <1>2, <1>3, <2>1, <3>1
  <2>3. free' \in 0..Pool
    <3>1. Holds(u) \in Nat /\ Holds(u) >= 1
      BY <1>3, <2>1, <2>2 DEF Holds
    <3>2. InUse >= 1
      <4>1. /\ \A v \in User : Holds(v) \in Nat
            /\ tx[0] \in Nat /\ tx[1] \in Nat
        BY InUseNat DEF HoldingNat
      <4>2. Holds("main") \in Nat /\ Holds("worker") \in Nat /\ Holds("netelect") \in Nat
        BY <4>1 DEF User
      <4>3. Holds("main") >= 1 \/ Holds("worker") >= 1 \/ Holds("netelect") >= 1
        BY <3>1 DEF User
      <4> QED
        BY <4>1, <4>2, <4>3 DEF InUse
    <3>3. InUse \in Nat
      BY InUseNat DEF HoldingNat
    <3> QED
      BY <1>1, <1>2, <2>1, <3>2, <3>3 DEF MbufInv
  <2>4. UNCHANGED <<toSend, rx, tx, refused>>
    BY <1>6 DEF FreePacket
  <2> QED
    BY <1>1, <2>1, <2>2, <2>3, <2>4
<1>7. ASSUME Alloc(u)
      PROVE  /\ toSend' \in [User -> 0..Peers] /\ free' \in 0..Pool
             /\ UNCHANGED <<hand, rx, tx, refused>>
  <2>1. toSend[u] - 1 \in 0..Peers
    BY <1>1, <1>2, <1>7 DEF Alloc, LoopInv, InLoop
  <2>2. MayAlloc => free - 1 \in 0..Pool
    BY <1>1, <1>2 DEF MayAlloc
  <2> QED
    BY <1>1, <1>7, <2>1, <2>2 DEF Alloc
<1>8. ASSUME TxBurst(u)
      PROVE  /\ toSend' \in [User -> 0..Peers] /\ tx' \in [Queue -> 0..TxRing]
             /\ refused' \in BOOLEAN /\ UNCHANGED <<hand, free, rx>>
  <2>1. toSend[u] - 1 \in 0..Peers
    BY <1>1, <1>2, <1>8 DEF TxBurst, LoopInv, InLoop
  <2>2. TxQueue(u) \in Queue
    BY DEF TxQueue, TypeOK, StartType, Queue
  <2>3. tx[TxQueue(u)] < TxRing => tx[TxQueue(u)] + 1 \in 0..TxRing
    BY <1>1, <1>2, <2>2
  <2> QED
    BY <1>1, <1>8, <2>1, <2>2, <2>3 DEF TxBurst
<1>9. ASSUME Timers(u)
      PROVE  toSend' \in [User -> 0..Peers] /\ UNCHANGED <<hand, free, rx, tx, refused>>
  <2>1. Own[u] \in 0..Peers
    BY <1>2 DEF Own, User
  <2> QED
    BY <1>1, <1>9, <2>1 DEF Timers
<1> QED
  BY <1>1, <1>4, <1>5, <1>6, <1>7, <1>8, <1>9 DEF LoopStep

\* What start-up writes keeps its type.
LEMMA StartTypeNext ==
    ASSUME IInv, [Next]_vars PROVE StartType'
<1> USE SizeAssumption DEF IInv, vars, startVars, bufferVars, Goto, TypeOK,
        StartType, User, Queue, Lcore
<1>1. ASSUME InitPort PROVE StartType'
  BY <1>1 DEF InitPort
<1>2. ASSUME ReserveZone PROVE StartType'
  BY <1>2 DEF ReserveZone
<1>3. ASSUME PublishField PROVE StartType'
  BY <1>3, FieldStep
<1>4. ASSUME CreateFlow PROVE StartType'
  <2>1. /\ flow' \in {"ok", "failed"}
        /\ UNCHANGED <<zone, info, attached, timers, starts, killed>>
    BY <1>4 DEF CreateFlow
  <2> QED
    BY <2>1
<1>5. ASSUME Start PROVE StartType'
  BY <1>5 DEF Start
<1>6. ASSUME LookupZone PROVE StartType'
  BY <1>6 DEF LookupZone, Attach
<1>7. ASSUME ComparePort PROVE StartType'
  BY <1>7 DEF ComparePort, Attach
<1>8. ASSUME OverridePort PROVE StartType'
  BY <1>8 DEF OverridePort, Attach
<1>9. ASSUME LookupPool PROVE StartType'
  BY <1>9 DEF LookupPool, Attach
<1>10. ASSUME ReadRxq PROVE StartType'
  BY <1>10 DEF ReadRxq, Attach
<1>11. ASSUME ReadTxq PROVE StartType'
  BY <1>11 DEF ReadTxq, Attach
<1>12. ASSUME RaftInit PROVE StartType'
  <2>1. UNCHANGED <<zone, info, flow, attached, starts, killed>>
    BY <1>12 DEF RaftInit
  <2>2. /\ timers[NetelectLcore] \in SUBSET (0..MaxStarts)
        /\ timers' \in {timers, [timers EXCEPT
                                   ![NetelectLcore] = timers[NetelectLcore] \cup {starts}]}
    BY <1>12 DEF RaftInit, NetelectLcore
  <2>3. timers[NetelectLcore] \cup {starts} \in SUBSET (0..MaxStarts)
    BY <2>2
  <2>4. timers' \in [Lcore -> SUBSET (0..MaxStarts)]
    BY <2>2, <2>3
  <2> QED
    BY <2>1, <2>4
<1>13. ASSUME Kill PROVE StartType'
  <2>1. \E one \in {{"mbuf"}, {}}, two \in {{"timer"}, {}} :
          killed' = killed \cup one \cup two
    BY <1>13 DEF Kill
  <2>2. killed' \subseteq {"mbuf", "timer"}
    BY <2>1
  <2> QED
    BY <1>13, <2>2 DEF Kill
<1>14. ASSUME NEW u \in User, LoopStep(u) PROVE StartType'
  BY <1>14, LoopPcs
<1>15. ASSUME NEW kind \in Kind, Arrive(kind) PROVE StartType'
  BY <1>15 DEF Arrive
<1>16. ASSUME NEW q \in Queue, Transmit(q) PROVE StartType'
  BY <1>16 DEF Transmit
<1>17. CASE UNCHANGED vars
  BY <1>17
<1> HIDE DEF IInv, vars, startVars, bufferVars, Goto, TypeOK, StartType, User,
        Queue, Lcore
<1> QED
  BY <1>1, <1>2, <1>3, <1>4, <1>5, <1>6, <1>7, <1>8, <1>9, <1>10, <1>11, <1>12,
     <1>13, <1>14, <1>15, <1>16, <1>17
     DEF Next, NetInit, NetAttach

\* Each program stays at one of its own steps.
LEMMA PcTypeNext ==
    ASSUME IInv, [Next]_vars PROVE PcType'
<1> USE SizeAssumption DEF IInv, vars, startVars, bufferVars, Goto, TypeOK, PcType,
        User, LoopPc, PublishPc, AttachPc
<1>1. ASSUME InitPort PROVE PcType'
  BY <1>1 DEF InitPort
<1>2. ASSUME ReserveZone PROVE PcType'
  BY <1>2 DEF ReserveZone
<1>3. ASSUME PublishField PROVE PcType'
  <2>1. \E next \in PublishPc : pc' = [pc EXCEPT !["main"] = next]
    BY <1>3, FieldStep
  <2> QED
    BY <2>1
<1>4. ASSUME CreateFlow PROVE PcType'
  BY <1>4 DEF CreateFlow
<1>5. ASSUME Start PROVE PcType'
  BY <1>5 DEF Start
<1>6. ASSUME LookupZone PROVE PcType'
  BY <1>6 DEF LookupZone, Attach
<1>7. ASSUME ComparePort PROVE PcType'
  BY <1>7 DEF ComparePort, Attach
<1>8. ASSUME OverridePort PROVE PcType'
  BY <1>8 DEF OverridePort, Attach
<1>9. ASSUME LookupPool PROVE PcType'
  BY <1>9 DEF LookupPool, Attach
<1>10. ASSUME ReadRxq PROVE PcType'
  BY <1>10 DEF ReadRxq, Attach
<1>11. ASSUME ReadTxq PROVE PcType'
  BY <1>11 DEF ReadTxq, Attach
<1>12. ASSUME RaftInit PROVE PcType'
  <2>1. \E next \in LoopPc \cup {"down"} : pc' = [pc EXCEPT !["netelect"] = next]
    BY <1>12 DEF RaftInit
  <2> QED
    BY <2>1
<1>13. ASSUME Kill PROVE PcType'
  BY <1>13 DEF Kill
<1>14. ASSUME NEW u \in User, LoopStep(u) PROVE PcType'
  <2>1. PICK next \in LoopPc : pc' = [pc EXCEPT ![u] = next]
    BY <1>14, LoopPcs
  <2> HIDE DEF LoopPc, PublishPc, AttachPc
  <2> QED
    BY <2>1
<1>15. ASSUME NEW kind \in Kind, Arrive(kind) PROVE PcType'
  BY <1>15 DEF Arrive
<1>16. ASSUME NEW q \in Queue, Transmit(q) PROVE PcType'
  BY <1>16 DEF Transmit
<1>17. CASE UNCHANGED vars
  BY <1>17
<1> HIDE DEF IInv, vars, startVars, bufferVars, Goto, TypeOK, PcType, User, LoopPc,
        PublishPc, AttachPc
<1> QED
  BY <1>1, <1>2, <1>3, <1>4, <1>5, <1>6, <1>7, <1>8, <1>9, <1>10, <1>11, <1>12,
     <1>13, <1>14, <1>15, <1>16, <1>17
     DEF Next, NetInit, NetAttach

\* The bursts, the rings and the pool keep their sizes.
LEMMA BufferTypeNext ==
    ASSUME IInv, [Next]_vars PROVE BufferType'
<1>1. /\ TypeOK /\ PublishInv /\ AttachInv /\ LoopInv /\ MbufInv
      /\ hand \in [User -> Seq(Kind)] /\ \A u \in User : Len(hand[u]) <= Burst
      /\ toSend \in [User -> 0..Peers]
      /\ free \in 0..Pool /\ Pool \in Nat /\ Pool >= 2 * RxRing /\ RxRing \in Nat
      /\ rx \in [Queue -> Seq(Kind)] /\ \A q \in Queue : Len(rx[q]) <= RxRing
      /\ tx \in [Queue -> 0..TxRing] /\ TxRing \in Nat
      /\ refused \in BOOLEAN
  BY SizeAssumption DEF IInv, TypeOK, BufferType
<1>2. ASSUME InitPort PROVE BufferType'
  <2>1. free' \in 0..Pool
    BY <1>1, <1>2 DEF InitPort, MbufInv
  <2>2. UNCHANGED <<hand, toSend, rx, tx, refused>>
    BY <1>2 DEF InitPort
  <2> QED
    BY <1>1, <2>1, <2>2 DEF BufferType
<1>3. ASSUME Kill PROVE BufferType'
  <2>1. <<>> \in Seq(Kind) /\ Len(<<>>) <= Burst /\ 0 \in 0..Peers
    BY EmptySeq, SizeAssumption
  <2>2. hand' \in [User -> Seq(Kind)] /\ \A u \in User : Len(hand'[u]) <= Burst
    BY <1>1, <1>3, <2>1 DEF Kill
  <2> QED
    BY <1>1, <1>3, <2>1, <2>2 DEF Kill, BufferType
<1>4. ASSUME NEW u \in User, LoopStep(u) PROVE BufferType'
  <2>1. pc["main"] # "port"
    <3>1. pc[u] \in LoopPc
      BY <1>1, <1>4, LoopPcs
    <3> QED
      BY <1>1, <3>1 DEF PublishInv, AttachInv, LoopPc, User
  <2> QED
    BY <1>1, <1>4, <2>1, LoopType DEF BufferType
<1>5. ASSUME NEW kind \in Kind, Arrive(kind) PROVE BufferType'
  <2>1. Steer(kind) \in Queue
    BY DEF Steer, Queue
  <2>2. rx[Steer(kind)] \in Seq(Kind)
    BY <1>1, <2>1
  <2>3. /\ Append(rx[Steer(kind)], kind) \in Seq(Kind)
        /\ Len(Append(rx[Steer(kind)], kind)) = Len(rx[Steer(kind)]) + 1
    BY <2>2, AppendProperties
  <2>4. Len(rx[Steer(kind)]) \in Nat
    BY <2>2, LenProperties
  <2>5. Len(Append(rx[Steer(kind)], kind)) <= RxRing
    BY <1>1, <1>5, <2>3, <2>4 DEF Arrive
  <2>6. rx' = [rx EXCEPT ![Steer(kind)] = Append(rx[Steer(kind)], kind)]
    BY <1>5 DEF Arrive
  <2>7. rx' \in [Queue -> Seq(Kind)] /\ \A q \in Queue : Len(rx'[q]) <= RxRing
    BY <1>1, <2>1, <2>3, <2>5, <2>6
  <2>8. UNCHANGED <<hand, toSend, free, tx, refused>>
    BY <1>5 DEF Arrive
  <2> QED
    BY <1>1, <2>7, <2>8 DEF BufferType
<1>6. ASSUME NEW q \in Queue, Transmit(q) PROVE BufferType'
  <2>1. tx[q] > 0 /\ tx' = [tx EXCEPT ![q] = @ - 1] /\ free' = free + 1
    BY <1>6 DEF Transmit
  <2>2. InUse >= 1 /\ InUse \in Nat
    <3>1. /\ InUse \in Nat /\ tx[0] \in Nat /\ tx[1] \in Nat
          /\ Holds("main") \in Nat /\ Holds("worker") \in Nat /\ Holds("netelect") \in Nat
      BY <1>1, InUseNat DEF HoldingNat, User
    <3> QED
      BY <2>1, <3>1 DEF InUse, Queue
  <2>3. free' \in 0..Pool
    BY <1>1, <2>1, <2>2 DEF MbufInv
  <2>4. tx' \in [Queue -> 0..TxRing]
    BY <1>1, <2>1
  <2>5. UNCHANGED <<hand, toSend, rx, refused>>
    BY <1>6 DEF Transmit
  <2> QED
    BY <1>1, <2>3, <2>4, <2>5 DEF BufferType
<1>7. ASSUME UNCHANGED bufferVars PROVE BufferType'
  BY <1>1, <1>7 DEF bufferVars, BufferType
<1>8. ReserveZone \/ PublishField \/ CreateFlow \/ Start \/ NetAttach
        => UNCHANGED bufferVars
  BY FieldStep
     DEF ReserveZone, CreateFlow, Start, NetAttach, LookupZone, ComparePort, OverridePort,
         LookupPool, ReadRxq, ReadTxq, RaftInit, Attach
<1> QED
  BY <1>2, <1>3, <1>4, <1>5, <1>6, <1>7, <1>8 DEF Next, NetInit, vars

\* The memzone fills up in the order of the stores.
LEMMA PublishNext ==
    ASSUME IInv, [Next]_vars PROVE PublishInv'
<1> USE SizeAssumption DEF IInv, vars, startVars, bufferVars, Goto, TypeOK,
        StartType, PcType, BufferType, User, Poller, LoopPc, PublishPc, AttachPc,
        Queue, PublishInv
<1>1. ASSUME InitPort PROVE PublishInv'
  BY <1>1 DEF InitPort
<1>2. ASSUME ReserveZone PROVE PublishInv'
  BY <1>2 DEF ReserveZone
<1>3. ASSUME PublishField PROVE PublishInv'
  <2>1. UNCHANGED zone /\ pc'["worker"] = pc["worker"]
    BY <1>3, FieldStep
  <2>2. ASSUME pc["main"] = "portId", Goto("main", "rxq"), info' = [info EXCEPT !.port = SensePort]
        PROVE  PublishInv'
    BY <2>1, <2>2
  <2>3. ASSUME pc["main"] = "rxq", Goto("main", "txq"), info' = [info EXCEPT !.rxq = 1]
        PROVE  PublishInv'
    BY <2>1, <2>3
  <2>4. ASSUME pc["main"] = "txq", Goto("main", "name"), info' = [info EXCEPT !.txq = 1]
        PROVE  PublishInv'
    BY <2>1, <2>4
  <2>5. ASSUME pc["main"] = "name", Goto("main", "flow"), info' = [info EXCEPT !.name = TRUE]
        PROVE  PublishInv'
    BY <2>1, <2>5
  <2> QED
    BY <1>3, <2>2, <2>3, <2>4, <2>5, FieldStep
<1>4. ASSUME CreateFlow PROVE PublishInv'
  BY <1>4 DEF CreateFlow
<1>5. ASSUME Start PROVE PublishInv'
  BY <1>5 DEF Start
<1>6. ASSUME LookupZone PROVE PublishInv'
  BY <1>6 DEF LookupZone, Attach
<1>7. ASSUME ComparePort PROVE PublishInv'
  BY <1>7 DEF ComparePort, Attach
<1>8. ASSUME OverridePort PROVE PublishInv'
  BY <1>8 DEF OverridePort, Attach
<1>9. ASSUME LookupPool PROVE PublishInv'
  BY <1>9 DEF LookupPool, Attach
<1>10. ASSUME ReadRxq PROVE PublishInv'
  BY <1>10 DEF ReadRxq, Attach
<1>11. ASSUME ReadTxq PROVE PublishInv'
  BY <1>11 DEF ReadTxq, Attach
<1>12. ASSUME RaftInit PROVE PublishInv'
  BY <1>12 DEF RaftInit
<1>13. ASSUME Kill PROVE PublishInv'
  BY <1>13 DEF Kill, Running
<1>14. ASSUME NEW u \in User, LoopStep(u) PROVE PublishInv'
  <2>1. UNCHANGED <<zone, info>> /\ (pc'["worker"] = pc["worker"] \/ pc["worker"] # "down")
    BY <1>14, LoopPcs
  <2>2. pc'["main"] = pc["main"] \/ (pc["main"] \in LoopPc /\ pc'["main"] \in LoopPc)
    BY <1>14, LoopPcs
  <2>3. CASE pc'["main"] = pc["main"]
    BY <2>1, <2>3
  <2>4. CASE pc["main"] \in LoopPc /\ pc'["main"] \in LoopPc
    BY <2>1, <2>4
  <2> QED
    BY <2>2, <2>3, <2>4
<1>15. ASSUME NEW kind \in Kind, Arrive(kind) PROVE PublishInv'
  BY <1>15 DEF Arrive
<1>16. ASSUME NEW q \in Queue, Transmit(q) PROVE PublishInv'
  BY <1>16 DEF Transmit
<1>17. CASE UNCHANGED vars
  BY <1>17
<1> HIDE DEF IInv, vars, startVars, bufferVars, Goto, TypeOK, StartType, PcType,
        BufferType, User, Poller, LoopPc, PublishPc, AttachPc, Queue, PublishInv
<1> QED
  BY <1>1, <1>2, <1>3, <1>4, <1>5, <1>6, <1>7, <1>8, <1>9, <1>10, <1>11, <1>12,
     <1>13, <1>14, <1>15, <1>16, <1>17
     DEF Next, NetInit, NetAttach

\* netelect goes on only with what it has found, and what sense has published stays.
LEMMA AttachNext ==
    ASSUME IInv, [Next]_vars PROVE AttachInv'
<1> USE SizeAssumption DEF IInv, vars, startVars, bufferVars, Goto, TypeOK,
        StartType, PcType, BufferType, User, Poller, LoopPc, PublishPc, AttachPc,
        Queue, PublishInv, AttachInv
<1>1. ASSUME InitPort PROVE AttachInv'
  BY <1>1 DEF InitPort
<1>2. ASSUME ReserveZone PROVE AttachInv'
  BY <1>2 DEF ReserveZone
<1>3. ASSUME PublishField PROVE AttachInv'
  BY <1>3, FieldStep
<1>4. ASSUME CreateFlow PROVE AttachInv'
  BY <1>4 DEF CreateFlow
<1>5. ASSUME Start PROVE AttachInv'
  BY <1>5 DEF Start
<1>6. ASSUME LookupZone PROVE AttachInv'
  BY <1>6 DEF LookupZone, Attach
<1>7. ASSUME ComparePort PROVE AttachInv'
  BY <1>7 DEF ComparePort, Attach
<1>8. ASSUME OverridePort PROVE AttachInv'
  BY <1>8 DEF OverridePort, Attach
<1>9. ASSUME LookupPool PROVE AttachInv'
  BY <1>9 DEF LookupPool, Attach
<1>10. ASSUME ReadRxq PROVE AttachInv'
  BY <1>10 DEF ReadRxq, Attach
<1>11. ASSUME ReadTxq PROVE AttachInv'
  BY <1>11 DEF ReadTxq, Attach
<1>12. ASSUME RaftInit PROVE AttachInv'
  BY <1>12 DEF RaftInit
<1>13. ASSUME Kill PROVE AttachInv'
  BY <1>13 DEF Kill, Running
<1>14. ASSUME NEW u \in User, LoopStep(u) PROVE AttachInv'
  BY <1>14, LoopPcs
<1>15. ASSUME NEW kind \in Kind, Arrive(kind) PROVE AttachInv'
  BY <1>15 DEF Arrive
<1>16. ASSUME NEW q \in Queue, Transmit(q) PROVE AttachInv'
  BY <1>16 DEF Transmit
<1>17. CASE UNCHANGED vars
  BY <1>17
<1> HIDE DEF IInv, vars, startVars, bufferVars, Goto, TypeOK, StartType, PcType,
        BufferType, User, Poller, LoopPc, PublishPc, AttachPc, Queue, PublishInv,
        AttachInv
<1> QED
  BY <1>1, <1>2, <1>3, <1>4, <1>5, <1>6, <1>7, <1>8, <1>9, <1>10, <1>11, <1>12,
     <1>13, <1>14, <1>15, <1>16, <1>17
     DEF Next, NetInit, NetAttach

\* Only raft_init of netelect links a timer in the list of its lcore.
LEMMA TimersNext ==
    ASSUME IInv, [Next]_vars PROVE TimersInv'
<1> USE SizeAssumption DEF IInv, vars, startVars, bufferVars, Goto, TypeOK,
        StartType, PcType, BufferType, User, Poller, LoopPc, PublishPc, AttachPc,
        Queue, TimersInv, Running, NetelectLcore, Lcore, Sense
<1>1. ASSUME InitPort PROVE TimersInv'
  BY <1>1 DEF InitPort
<1>2. ASSUME ReserveZone PROVE TimersInv'
  BY <1>2 DEF ReserveZone
<1>3. ASSUME PublishField PROVE TimersInv'
  BY <1>3, FieldStep
<1>4. ASSUME CreateFlow PROVE TimersInv'
  BY <1>4 DEF CreateFlow
<1>5. ASSUME Start PROVE TimersInv'
  BY <1>5 DEF Start
<1>6. ASSUME LookupZone PROVE TimersInv'
  BY <1>6 DEF LookupZone, Attach
<1>7. ASSUME ComparePort PROVE TimersInv'
  BY <1>7 DEF ComparePort, Attach
<1>8. ASSUME OverridePort PROVE TimersInv'
  BY <1>8 DEF OverridePort, Attach
<1>9. ASSUME LookupPool PROVE TimersInv'
  BY <1>9 DEF LookupPool, Attach
<1>10. ASSUME ReadRxq PROVE TimersInv'
  BY <1>10 DEF ReadRxq, Attach
<1>11. ASSUME ReadTxq PROVE TimersInv'
  BY <1>11 DEF ReadTxq, Attach
<1>12. ASSUME RaftInit PROVE TimersInv'
  BY <1>12 DEF RaftInit
<1>13. ASSUME Kill PROVE TimersInv'
  BY <1>13 DEF Kill
<1>14. ASSUME NEW u \in User, LoopStep(u) PROVE TimersInv'
  BY <1>14, LoopPcs
<1>15. ASSUME NEW kind \in Kind, Arrive(kind) PROVE TimersInv'
  BY <1>15 DEF Arrive
<1>16. ASSUME NEW q \in Queue, Transmit(q) PROVE TimersInv'
  BY <1>16 DEF Transmit
<1>17. CASE UNCHANGED vars
  BY <1>17
<1> HIDE DEF IInv, vars, startVars, bufferVars, Goto, TypeOK, StartType, PcType,
        BufferType, User, Poller, LoopPc, PublishPc, AttachPc, Queue, TimersInv,
        Running, NetelectLcore, Lcore, Sense
<1> QED
  BY <1>1, <1>2, <1>3, <1>4, <1>5, <1>6, <1>7, <1>8, <1>9, <1>10, <1>11, <1>12,
     <1>13, <1>14, <1>15, <1>16, <1>17
     DEF Next, NetInit, NetAttach

\* A user that is not in its loop holds no packet, and the loop keeps its account.
LEMMA LoopNext ==
    ASSUME IInv, [Next]_vars PROVE LoopInv'
<1> USE SizeAssumption DEF IInv, vars, startVars, bufferVars, Goto, TypeOK,
        StartType, PcType, BufferType, User, Poller, LoopPc, PublishPc, AttachPc,
        Queue, LoopInv, InLoop
<1>1. ASSUME InitPort PROVE LoopInv'
  BY <1>1 DEF InitPort
<1>2. ASSUME ReserveZone PROVE LoopInv'
  <2>1. /\ UNCHANGED <<hand, toSend>> /\ pc["main"] = "zone"
        /\ pc' = [pc EXCEPT !["main"] = "portId"]
    BY <1>2 DEF ReserveZone
  <2> QED
    BY <2>1
<1>3. ASSUME PublishField PROVE LoopInv'
  <2>1. UNCHANGED <<hand, toSend>> /\ pc["main"] \in {"portId", "rxq", "txq", "name"}
    BY <1>3, FieldStep
  <2>2. \E next \in {"rxq", "txq", "name", "flow"} : pc' = [pc EXCEPT !["main"] = next]
    BY <1>3, FieldStep
  <2> QED
    BY <2>1, <2>2
<1>4. ASSUME CreateFlow PROVE LoopInv'
  BY <1>4 DEF CreateFlow
<1>5. ASSUME Start PROVE LoopInv'
  BY <1>5 DEF Start
<1>6. ASSUME LookupZone PROVE LoopInv'
  BY <1>6 DEF LookupZone, Attach
<1>7. ASSUME ComparePort PROVE LoopInv'
  BY <1>7 DEF ComparePort, Attach
<1>8. ASSUME OverridePort PROVE LoopInv'
  BY <1>8 DEF OverridePort, Attach
<1>9. ASSUME LookupPool PROVE LoopInv'
  BY <1>9 DEF LookupPool, Attach
<1>10. ASSUME ReadRxq PROVE LoopInv'
  BY <1>10 DEF ReadRxq, Attach
<1>11. ASSUME ReadTxq PROVE LoopInv'
  BY <1>11 DEF ReadTxq, Attach
<1>12. ASSUME RaftInit PROVE LoopInv'
  BY <1>12 DEF RaftInit
<1>13. ASSUME Kill PROVE LoopInv'
  BY <1>13 DEF Kill, Running
<1>14. ASSUME NEW u \in User, LoopStep(u) PROVE LoopInv'
  <2> HIDE DEF TypeOK, LoopInv, InLoop
  <2> QED
    BY <1>14, LoopStepInLoop
<1>15. ASSUME NEW kind \in Kind, Arrive(kind) PROVE LoopInv'
  BY <1>15 DEF Arrive
<1>16. ASSUME NEW q \in Queue, Transmit(q) PROVE LoopInv'
  BY <1>16 DEF Transmit
<1>17. CASE UNCHANGED vars
  BY <1>17
<1> HIDE DEF IInv, vars, startVars, bufferVars, Goto, TypeOK, StartType, PcType,
        BufferType, User, Poller, LoopPc, PublishPc, AttachPc, Queue, LoopInv,
        InLoop
<1> QED
  BY <1>1, <1>2, <1>3, <1>4, <1>5, <1>6, <1>7, <1>8, <1>9, <1>10, <1>11, <1>12,
     <1>13, <1>14, <1>15, <1>16, <1>17
     DEF Next, NetInit, NetAttach

-----------------------------------------------------------------------------

\* The initial states satisfy the invariant.
LEMMA InvInit == Init => IInv
<1> SUFFICES ASSUME Init PROVE IInv
  OBVIOUS
<1> USE SizeAssumption DEF Init
<1>1. StartType
  <2>1. 0 \in 0..MaxStarts /\ {0} \in SUBSET (0..MaxStarts)
    BY Z3
  <2>2. timers \in [Lcore -> SUBSET (0..MaxStarts)]
    BY <2>1 DEF Sense
  <2> QED
    BY <2>1, <2>2 DEF StartType, Queue
<1>2. PcType
  BY DEF PcType, User, LoopPc, PublishPc
<1>3. BufferType
  <2>1. <<>> \in Seq(Kind) /\ Len(<<>>) = 0
    BY EmptySeq
  <2>2. 0 \in 0..Peers /\ 0 \in 0..TxRing /\ Pool \in 0..Pool
    OBVIOUS
  <2>3. hand \in [User -> Seq(Kind)] /\ \A u \in User : Len(hand[u]) <= Burst
    BY <2>1
  <2>4. rx \in [Queue -> Seq(Kind)] /\ \A q \in Queue : Len(rx[q]) <= RxRing
    BY <2>1
  <2>5. toSend \in [User -> 0..Peers] /\ tx \in [Queue -> 0..TxRing]
    BY <2>2
  <2> QED
    BY <2>2, <2>3, <2>4, <2>5 DEF BufferType
<1>4. PublishInv /\ AttachInv
  BY DEF PublishInv, AttachInv, User, LoopPc
<1>5. TimersInv
  BY DEF TimersInv, Running, NetelectLcore, Lcore, User, LoopPc
<1>6. LoopInv
  BY DEF LoopInv, InLoop, User
<1>7. MbufInv
  <2>1. /\ \A u \in User : Holds(u) = 0
        /\ tx[0] = 0 /\ tx[1] = 0
    BY EmptySeq DEF Holds, Queue, User
  <2> QED
    BY <2>1 DEF MbufInv, NoMbufLost, InUse, User
<1> QED
  BY <1>1, <1>2, <1>3, <1>4, <1>5, <1>6, <1>7 DEF IInv, TypeOK

\* Every reachable state satisfies it.
LEMMA InvCorrect == Spec => []IInv
<1>1. IInv /\ [Next]_vars => IInv'
  <2> SUFFICES ASSUME IInv, [Next]_vars PROVE IInv'
    OBVIOUS
  <2>1. TypeOK'
    BY StartTypeNext, PcTypeNext, BufferTypeNext DEF TypeOK
  <2> QED
    BY <2>1, PublishNext, AttachNext, TimersNext, LoopNext, MbufNext DEF IInv
<1> QED
  BY <1>1, InvInit, PTL DEF Spec

\* The memzone, the rings, the pool and both programs keep their types: no ring
\* overflows, and the pool never holds more buffers than it was created with.
THEOREM TypeCorrect == Spec => []TypeOK
<1>1. IInv => TypeOK
  BY DEF IInv
<1> QED
  BY <1>1, InvCorrect, PTL

\* Whoever races whom, an mbuf is lost only if a transmit queue refuses it or netelect
\* is killed with it in hand.
THEOREM MbufCorrect == Spec => []NoMbufLost
<1>1. IInv => NoMbufLost
  BY DEF IInv, MbufInv
<1> QED
  BY <1>1, InvCorrect, PTL

\* The name in the memzone is stored last and looked up before the queues are read: a
\* netelect that runs uses the queues sense keeps for it.
THEOREM AttachCorrect == Spec => []AttachedAsPublished
<1>1. IInv => AttachedAsPublished
  BY DEF IInv, AttachInv, AttachedAsPublished, Running
<1> QED
  BY <1>1, InvCorrect, PTL

\* Until a netelect is killed after raft_init, every lcore's list holds the timers of its
\* own process only.
THEOREM TimersCorrect == Spec => []ListsOwnTimers
<1>1. IInv => ListsOwnTimers
  BY DEF IInv, TimersInv, ListsOwnTimers
<1> QED
  BY <1>1, InvCorrect, PTL

-----------------------------------------------------------------------------
(* Whether the pool can run dry.                                           *)

\* The pool has more buffers than the four rings, a burst in the hands of each of the
\* two receivers and a packet that each of the three users is sending can take.
PoolIsLarge == Pool > 2 * RxRing + 2 * TxRing + 2 * Burst + 3

\* An allocation finds a buffer and a burst is not cut short by the pool, until a
\* buffer has been lost.
PoolSuffices == pc["main"] # "port" /\ ~refused /\ "mbuf" \notin killed => free > 0

\* What one user can hold.
LEMMA HoldsBound ==
    ASSUME TypeOK, LoopInv, NEW u \in User
    PROVE  Holds(u) \in Nat /\ Holds(u) <= Burst + 1 /\ (u = "worker" => Holds(u) <= 1)
<1>1. hand[u] \in Seq(Kind) /\ Len(hand[u]) <= Burst
  BY DEF TypeOK, BufferType
<1>2. Len(hand[u]) \in Nat /\ Burst \in Nat
  BY <1>1, LenProperties, SizeAssumption
<1>3. u = "worker" => Len(hand[u]) = 0
  BY DEF LoopInv, InLoop
<1> QED
  BY <1>1, <1>2, <1>3 DEF Holds

\* With the sizes of the source (4096 buffers, 128 receive and 512 transmit descriptors a
\* queue, bursts of 32; app/sense networking.c 22-23, 148-171) no allocation of either
\* process ever fails until a buffer is lost: to a transmit queue that did not take it,
\* whose result nobody looks at, or to the death of netelect.
THEOREM PoolCorrect == PoolIsLarge => (Spec => []PoolSuffices)
<1> SUFFICES ASSUME PoolIsLarge PROVE Spec => []PoolSuffices
  OBVIOUS
<1>1. IInv => PoolSuffices
  <2> SUFFICES ASSUME IInv, pc["main"] # "port", ~refused, "mbuf" \notin killed
               PROVE  free > 0
    BY DEF PoolSuffices
  <2>1. free + 2 * RxRing + tx[0] + tx[1]
             + Holds("main") + Holds("worker") + Holds("netelect") = Pool
    BY DEF IInv, MbufInv, NoMbufLost
  <2>2. /\ Holds("main") \in Nat /\ Holds("main") <= Burst + 1
        /\ Holds("netelect") \in Nat /\ Holds("netelect") <= Burst + 1
        /\ Holds("worker") \in Nat /\ Holds("worker") <= 1
    BY HoldsBound DEF IInv, User
  <2>3. tx[0] \in 0..TxRing /\ tx[1] \in 0..TxRing /\ free \in Nat
    BY SizeAssumption DEF IInv, TypeOK, BufferType, Queue
  <2>4. RxRing \in Nat /\ TxRing \in Nat /\ Burst \in Nat /\ Pool \in Nat
    BY SizeAssumption
  <2> QED
    BY <2>1, <2>2, <2>3, <2>4 DEF PoolIsLarge
<1> QED
  BY <1>1, InvCorrect, PTL

\* The pool has more buffers than the four rings, the burst of sense and the packets its
\* two lcores are sending can take: netelect polls with empty hands.
PoolFeedsReception == Pool > 2 * RxRing + 2 * TxRing + Burst + 2

\* When netelect polls its queue the pool has a buffer for what it hands out, until a
\* buffer has been lost: the safety part of ElectionPacketsReceived.
ReceptionFed ==
    pc["netelect"] = "loop" /\ pc["main"] # "port" /\ ~refused /\ "mbuf" \notin killed
        => free > 0

\* A smaller pool than PoolIsLarge is enough for the reception of the election: packets
\* may then fail to be sent, but none that waits for netelect is left in the ring for want
\* of a buffer (app/raft-netelect main.c 56-74, networking.c 179-182).
THEOREM ReceptionCorrect == PoolFeedsReception => (Spec => []ReceptionFed)
<1> SUFFICES ASSUME PoolFeedsReception PROVE Spec => []ReceptionFed
  OBVIOUS
<1>1. IInv => ReceptionFed
  <2> SUFFICES ASSUME IInv, pc["netelect"] = "loop", pc["main"] # "port",
                      ~refused, "mbuf" \notin killed
               PROVE  free > 0
    BY DEF ReceptionFed
  <2>1. free + 2 * RxRing + tx[0] + tx[1]
             + Holds("main") + Holds("worker") + Holds("netelect") = Pool
    BY DEF IInv, MbufInv, NoMbufLost
  <2>2. /\ Holds("main") \in Nat /\ Holds("main") <= Burst + 1
        /\ Holds("worker") \in Nat /\ Holds("worker") <= 1
    BY HoldsBound DEF IInv, User
  <2>3. Holds("netelect") = 0
    <3>1. hand["netelect"] = <<>>
      BY DEF IInv, LoopInv, InLoop, User
    <3> QED
      BY <3>1 DEF Holds
  <2>4. tx[0] \in 0..TxRing /\ tx[1] \in 0..TxRing /\ free \in Nat
    BY SizeAssumption DEF IInv, TypeOK, BufferType, Queue
  <2>5. RxRing \in Nat /\ TxRing \in Nat /\ Burst \in Nat /\ Pool \in Nat
    BY SizeAssumption
  <2> QED
    BY <2>1, <2>2, <2>3, <2>4, <2>5 DEF PoolFeedsReception
<1> QED
  BY <1>1, InvCorrect, PTL
==================================================================================
