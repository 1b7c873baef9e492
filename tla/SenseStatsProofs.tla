---------------------------- MODULE SenseStatsProofs ----------------------------
(***************************************************************************)
(* Theorems about SenseStats, for every set of peers, every ring, window   *)
(* and bound, and counters wide enough for the bounds.                     *)
(***************************************************************************)
EXTENDS SenseStats, FiniteSetTheorems, WellFoundedInduction, TLAPS

USE PeerAssumption, SizeAssumption

\* A remainder is below the divisor.
LEMMA ModuloRange ==
    ASSUME NEW w \in Nat \ {0}, NEW a \in Int PROVE a % w \in 0..w - 1
OBVIOUS

\* A word that does not overflow is kept (unsigned arithmetic of the counters).
LEMMA Modulo ==
    ASSUME NEW a \in 0..Word - 1 PROVE a % Word = a
OBVIOUS

\* The packets of an interval (send_ping_packet).
LEMMA PingPackets ==
    ASSUME NEW sent \in SUBSET Peer, now \in Times
    PROVE  Pings(sent) \subseteq Packet
BY DEF Pings, Packet

\* What a handler leaves on the wire was on it, but for its reply; and when it
\* leaves no second copy it takes the packet off.
LEMMA Received ==
    ASSUME NEW m \in net, NEW reply, Receive(m, reply)
    PROVE  /\ net' \subseteq net \cup reply
           /\ duplicated' \in BOOLEAN
           /\ ~duplicated' => ~duplicated /\ net' \subseteq (net \ {m}) \cup reply
<1>1. PICK kept \in SUBSET {m}, sent \in SUBSET reply :
          /\ net' = (net \ {m}) \cup kept \cup sent
          /\ duplicated' = (duplicated \/ kept # {})
  BY DEF Receive
<1>2. net' \subseteq net \cup reply
  BY <1>1
<1>3. duplicated' \in BOOLEAN
  BY <1>1
<1>4. ASSUME ~duplicated' PROVE ~duplicated /\ kept = {}
  BY <1>1, <1>4
<1> QED
  BY <1>1, <1>2, <1>3, <1>4

\* The clamp of ping_sent keeps it a word that is not below pong_recv.
LEMMA RaisedFacts ==
    ASSUME NEW a \in 0..Word - 1, NEW b \in 0..Word - 1
    PROVE  /\ Raised(a, b) \in 0..Word - 1
           /\ Raised(a, b) >= b
           /\ a >= b => Raised(a, b) = a
           /\ a < b => Raised(a, b) = b
BY DEF Raised

\* The index of the sample ring stays in it (stats.c 91).
LEMMA NextSlotInRing ==
    ASSUME NEW i \in Slots PROVE NextSlot(i) \in Slots
BY ModuloRange DEF NextSlot, Slots


-----------------------------------------------------------------------------
\* A peer's unanswered pings are a finite set, of at most lastPing of them.
LEMMA UnansweredFacts ==
    ASSUME TypeOK, CountInv, NEW p \in Peer
    PROVE  /\ IsFiniteSet(Unanswered(p))
           /\ Cardinality(Unanswered(p)) \in 0..lastPing
<1>1. lastPing \in Nat /\ 1 <= lastPing
  BY DEF TypeOK, Times, CountInv
<1>2. IsFiniteSet(1..lastPing) /\ Cardinality(1..lastPing) = lastPing
  BY <1>1, FS_Interval
<1>3. Unanswered(p) \in SUBSET (1..lastPing)
  BY DEF Unanswered, CountInv
<1>4. IsFiniteSet(Unanswered(p)) /\ Cardinality(Unanswered(p)) <= Cardinality(1..lastPing)
  BY <1>2, <1>3, FS_Subset
<1> QED
  BY <1>1, <1>2, <1>4, FS_CardinalityType

\* The counters of a peer as numbers (sense_rtt_entry).
LEMMA CounterFacts ==
    ASSUME TypeOK, CountInv, NEW p \in Peer
    PROVE  /\ pingSent[p] \in Nat /\ pongRecv[p] \in 0..MaxPongs
           /\ lossCount[p] \in Nat
           /\ pingSent[p] = pongRecv[p] + lossCount[p]
           /\ lossCount[p] <= lastPing /\ lastPing <= now /\ now <= MaxTime
<1>1. Cardinality(Unanswered(p)) \in 0..lastPing
  BY UnansweredFacts
<1>2. lastPing \in Nat /\ now \in Nat /\ lastPing <= now /\ now <= MaxTime
  BY DEF TypeOK, Times, CountInv
<1>3. pingSent[p] \in Nat /\ pongRecv[p] \in Nat /\ lossCount[p] \in Nat
  BY DEF TypeOK
<1>4. /\ pongRecv[p] <= MaxPongs
      /\ lossCount[p] = pingSent[p] - pongRecv[p]
      /\ lossCount[p] <= Cardinality(Unanswered(p))
  BY DEF CountInv
<1> QED
  BY <1>1, <1>2, <1>3, <1>4

\* SendPings, as arithmetic: one more ping is missing of every peer.
LEMMA SendPingsCounts ==
    ASSUME TypeOK, CountInv, SendPings, NEW p \in Peer
    PROVE  /\ pingSent'[p] = pingSent[p] + 1
           /\ lossCount'[p] = lossCount[p] + 1
           /\ pingSent'[p] \in 0..Word - 1 /\ lossCount'[p] \in 0..Word - 1
<1>1. lastPing < now
  BY DEF SendPings, TypeOK, Times
<1>2. pingSent[p] + 1 \in 0..Word - 1 /\ lossCount[p] + 1 \in 0..Word - 1
  <2>1. lossCount[p] + 1 <= MaxTime
    <3>1. lossCount[p] <= lastPing /\ now <= MaxTime /\ lossCount[p] \in Nat
      BY CounterFacts
    <3>2. lastPing \in Nat /\ now \in Nat /\ MaxTime \in Nat
      BY SizeAssumption DEF TypeOK, Times
    <3> QED
      BY <1>1, <3>1, <3>2
  <2> QED
    BY <2>1, CounterFacts
<1>3. (pingSent[p] + 1) % Word = pingSent[p] + 1
  BY <1>2, Modulo, Zenon
<1>4. pingSent'[p] = Raised(pingSent[p] + 1, pongRecv[p])
  BY <1>3 DEF SendPings
<1>5. pingSent'[p] = pingSent[p] + 1
  <2>1. pongRecv[p] \in 0..Word - 1 /\ pongRecv[p] <= pingSent[p] + 1
    BY CounterFacts DEF TypeOK
  <2> QED
    BY <1>2, <1>4, <2>1, RaisedFacts
<1>6. lossCount'[p] = (lossCount[p] + 1) % Word
  BY <1>5, CounterFacts DEF SendPings, Minus
<1>7. (lossCount[p] + 1) % Word = lossCount[p] + 1
  BY <1>2, Modulo, Zenon
<1> QED
  BY <1>2, <1>5, <1>6, <1>7

\* HandlePong, as arithmetic: one ping less is missing of the sender, if any was,
\* and the other peers' counters stay.
LEMMA HandlePongCounts ==
    ASSUME TypeOK, CountInv, NEW m \in net, HandlePong(m), NEW p \in Peer
    PROVE  /\ pongRecv'[p] \in 0..Word - 1
           /\ pingSent'[p] \in 0..Word - 1
           /\ lossCount'[p] \in 0..Word - 1
           /\ pongRecv'[p] = IF p = m.peer THEN pongRecv[p] + 1 ELSE pongRecv[p]
           /\ pongRecv'[p] <= pingSent'[p]
           /\ lossCount'[p] = pingSent'[p] - pongRecv'[p]
           /\ lossCount'[p] = IF p = m.peer /\ lossCount[p] > 0 THEN lossCount[p] - 1
                                                                ELSE lossCount[p]
<1>1. m.peer \in Peer
  BY DEF TypeOK, Packet
<1>2. CASE p # m.peer
  <2>1. /\ pongRecv'[p] = pongRecv[p] /\ pingSent'[p] = pingSent[p]
        /\ lossCount'[p] = lossCount[p]
    BY <1>1, <1>2 DEF HandlePong, TypeOK
  <2> QED
    <3>1. pingSent[p] \in Nat /\ pongRecv[p] \in Nat /\ pingSent[p] = pongRecv[p] + lossCount[p]
      BY CounterFacts
    <3>2. /\ pingSent[p] \in 0..Word - 1 /\ pongRecv[p] \in 0..Word - 1
          /\ lossCount[p] \in 0..Word - 1
      BY DEF TypeOK
    <3> QED
      BY <1>2, <2>1, <3>1, <3>2
<1>3. CASE p = m.peer
  <2>1. pongRecv[p] + 1 \in 0..Word - 1
    <3>1. Len(samples[p]) < MaxPongs /\ pongRecv[p] = Len(samples[p])
      BY <1>3 DEF HandlePong, CountInv
    <3> QED
      BY <3>1, CounterFacts DEF TypeOK
  <2>2. pongRecv'[p] = pongRecv[p] + 1
    <3>1. (pongRecv[p] + 1) % Word = pongRecv[p] + 1
      BY <2>1, Modulo, Zenon
    <3> QED
      BY <1>3, <3>1 DEF HandlePong, TypeOK
  <2>3. pingSent'[p] = Raised(pingSent[p], pongRecv[p] + 1)
    BY <1>3, <2>2 DEF HandlePong, TypeOK
  <2>4. pingSent[p] \in 0..Word - 1
    BY DEF TypeOK
  <2>5. /\ pingSent'[p] \in 0..Word - 1
        /\ pingSent'[p] - pongRecv'[p] =
              IF lossCount[p] > 0 THEN lossCount[p] - 1 ELSE 0
    BY <2>1, <2>2, <2>3, <2>4, CounterFacts, RaisedFacts
  <2>6. lossCount'[p] = (pingSent'[p] - pongRecv'[p]) % Word
    BY <1>3 DEF HandlePong, Minus, TypeOK
  <2>7. /\ pingSent'[p] - pongRecv'[p] \in Nat
        /\ pingSent'[p] - pongRecv'[p] < Word
    BY <2>1, <2>2, <2>5, CounterFacts
  <2>8. lossCount'[p] = pingSent'[p] - pongRecv'[p]
    BY <2>6, <2>7, Modulo
  <2>9. pongRecv'[p] \in 0..Word - 1
    BY <2>1, <2>2
  <2>10. lossCount'[p] \in 0..Word - 1 /\ pongRecv'[p] <= pingSent'[p]
    BY <2>5, <2>7, <2>8, <2>9
  <2>11. lossCount'[p] = IF lossCount[p] > 0 THEN lossCount[p] - 1 ELSE lossCount[p]
    BY <2>5, <2>8, CounterFacts
  <2> QED
    BY <1>3, <2>2, <2>5, <2>8, <2>9, <2>10, <2>11
<1> QED
  BY <1>2, <1>3

-----------------------------------------------------------------------------
\* Every variable keeps its type: the counters are words, and the sample ring is
\* written inside its bounds only.
LEMMA TypeNext ==
    ASSUME TypeOK, CountInv, [Next]_vars PROVE TypeOK'
<1> USE DEF counters, ring, history
<1>1. CASE Restart
  BY <1>1 DEF Restart, TypeOK, ZeroPeer, ZeroRing, Slots, Sample, Times
<1>2. CASE Tick
  BY <1>2 DEF Tick, TypeOK, Times
<1>3. CASE SendPings
  <2>1. net' \in SUBSET Packet
    <3>1. PICK sent \in SUBSET Peer : net' = net \cup Pings(sent)
      BY <1>3 DEF SendPings
    <3> QED
      BY <3>1, PingPackets DEF TypeOK
  <2>2. pingSent' \in [Peer -> 0..Word - 1] /\ lossCount' \in [Peer -> 0..Word - 1]
    <3>1. \A p \in Peer : pingSent'[p] \in 0..Word - 1 /\ lossCount'[p] \in 0..Word - 1
      BY <1>3, SendPingsCounts
    <3> QED
      BY <1>3, <3>1 DEF SendPings
  <2>3. pings' \in [Peer -> SUBSET Times]
    BY <1>3 DEF SendPings, TypeOK
  <2> QED
    BY <1>3, <2>1, <2>2, <2>3 DEF SendPings, TypeOK
<1>4. ASSUME NEW m \in net, AnswerPing(m) PROVE TypeOK'
  <2>1. [m EXCEPT !.type = "Pong"] \in Packet
    BY DEF TypeOK, Packet
  <2>2. net' \subseteq Packet /\ duplicated' \in BOOLEAN
    <3>1. Receive(m, {[m EXCEPT !.type = "Pong"]})
      BY <1>4 DEF AnswerPing
    <3>2. net' \subseteq net \cup {[m EXCEPT !.type = "Pong"]} /\ duplicated' \in BOOLEAN
      BY <3>1, Received
    <3> QED
      BY <2>1, <3>2 DEF TypeOK
  <2> QED
    BY <1>4, <2>2 DEF AnswerPing, TypeOK
<1>5. ASSUME NEW m \in net, HandlePong(m) PROVE TypeOK'
  <2>1. m.peer \in Peer /\ m.ts \in Times /\ m.ts <= now
    BY DEF TypeOK, Packet, CountInv
  <2>2. [tsc |-> now, rtt |-> now - m.ts] \in Sample
    BY <2>1 DEF Sample, TypeOK, Times
  <2>3. net' \subseteq Packet /\ duplicated' \in BOOLEAN
    BY <1>5, Received DEF HandlePong, TypeOK
  <2>4. /\ pingSent' \in [Peer -> 0..Word - 1] /\ pongRecv' \in [Peer -> 0..Word - 1]
        /\ lossCount' \in [Peer -> 0..Word - 1]
    <3>1. \A p \in Peer : /\ pingSent'[p] \in 0..Word - 1
                          /\ pongRecv'[p] \in 0..Word - 1
                          /\ lossCount'[p] \in 0..Word - 1
      BY <1>5, HandlePongCounts
    <3>2. /\ DOMAIN pingSent' = Peer /\ DOMAIN pongRecv' = Peer /\ DOMAIN lossCount' = Peer
          /\ pingSent' = [p \in Peer |-> pingSent'[p]]
          /\ pongRecv' = [p \in Peer |-> pongRecv'[p]]
          /\ lossCount' = [p \in Peer |-> lossCount'[p]]
      BY <1>5 DEF HandlePong, TypeOK
    <3> QED
      BY <3>1, <3>2
  <2>5. AppendSample(m.peer, [tsc |-> now, rtt |-> now - m.ts])
    BY <1>5 DEF HandlePong
  <2>6. /\ sampleRing' \in [Peer -> [Slots -> Sample]]
        /\ samples' \in [Peer -> Seq(Sample)]
    BY <2>1, <2>2, <2>5 DEF AppendSample, TypeOK
  <2>7. ringHead' \in [Peer -> Slots]
    <3>1. NextSlot(ringHead[m.peer]) \in Slots
      BY <2>1, NextSlotInRing DEF TypeOK
    <3> QED
      BY <2>1, <2>5, <3>1 DEF AppendSample, TypeOK
  <2>8. ringCount' \in [Peer -> 0..MaxSamples]
    BY <2>1, <2>5 DEF AppendSample, TypeOK
  <2>9. answered' \in [Peer -> SUBSET Times]
    BY <1>5, <2>1 DEF HandlePong, TypeOK
  <2> QED
    BY <1>5, <2>3, <2>4, <2>6, <2>7, <2>8, <2>9 DEF HandlePong, TypeOK
<1>6. CASE UNCHANGED vars
  BY <1>6 DEF vars, TypeOK
<1> QED
  BY <1>1, <1>2, <1>3, <1>4, <1>5, <1>6 DEF Next

-----------------------------------------------------------------------------
\* A ping sent now is one more unanswered ping of every peer.
LEMMA SendPingsUnanswered ==
    ASSUME TypeOK, CountInv, SendPings, NEW p \in Peer
    PROVE  /\ Unanswered(p)' = Unanswered(p) \cup {now}
           /\ now \notin Unanswered(p)
           /\ Cardinality(Unanswered(p)') = Cardinality(Unanswered(p)) + 1
<1>1. now \notin pings[p] /\ now \notin answered[p]
  <2>1. ~(now <= lastPing)
    BY DEF SendPings, TypeOK, Times
  <2> QED
    BY <2>1 DEF CountInv, TypeOK, Times
<1>2. pings'[p] = pings[p] \cup {now} /\ answered'[p] = answered[p]
  BY DEF SendPings
<1>3. Unanswered(p)' = Unanswered(p) \cup {now} /\ now \notin Unanswered(p)
  BY <1>1, <1>2 DEF Unanswered
<1> QED
  BY <1>3, UnansweredFacts, FS_AddElement

\* A pong leaves one unanswered ping less of its sender, or none less.
LEMMA HandlePongUnanswered ==
    ASSUME TypeOK, CountInv, NEW m \in net, HandlePong(m), NEW p \in Peer
    PROVE  /\ p # m.peer => Unanswered(p)' = Unanswered(p)
           /\ p = m.peer => Unanswered(p)' = Unanswered(p) \ {m.ts}
           /\ Cardinality(Unanswered(p)') =
                IF p = m.peer /\ m.ts \in Unanswered(p) THEN Cardinality(Unanswered(p)) - 1
                                                        ELSE Cardinality(Unanswered(p))
           /\ Cardinality(Unanswered(p)') \in Nat
           /\ answered'[p] \subseteq pings'[p]
<1>1. pings'[p] = pings[p]
  BY DEF HandlePong
<1>2. /\ p # m.peer => answered'[p] = answered[p]
      /\ p = m.peer => answered'[p] = answered[p] \cup ({m.ts} \cap pings[p])
  BY DEF HandlePong, TypeOK
<1>3. /\ p # m.peer => Unanswered(p)' = Unanswered(p)
      /\ p = m.peer => Unanswered(p)' = Unanswered(p) \ {m.ts}
  BY <1>1, <1>2 DEF Unanswered
<1>4. answered'[p] \subseteq pings'[p]
  BY <1>1, <1>2 DEF CountInv
<1>5. IsFiniteSet(Unanswered(p))
  BY UnansweredFacts
<1>6. /\ Cardinality(Unanswered(p) \ {m.ts}) =
              IF m.ts \in Unanswered(p) THEN Cardinality(Unanswered(p)) - 1
                                        ELSE Cardinality(Unanswered(p))
      /\ Cardinality(Unanswered(p) \ {m.ts}) \in Nat
  BY <1>5, FS_RemoveElement, FS_CardinalityType
<1>7. Cardinality(Unanswered(p)) \in Nat
  BY <1>5, FS_CardinalityType
<1> QED
  BY <1>3, <1>4, <1>6, <1>7

\* No handler lets the counters and the unanswered pings drift apart.
LEMMA CountNext ==
    ASSUME TypeOK, CountInv, [Next]_vars PROVE CountInv'
<1> USE DEF counters, ring, history
<1>0. now \in Nat /\ lastPing \in Nat
  BY DEF TypeOK, Times
<1>1. CASE Restart
  <2>1. \A p \in Peer : Unanswered(p)' = {} /\ Cardinality(Unanswered(p)') = 0
    BY <1>1, FS_EmptySet DEF Restart, Unanswered
  <2> QED
    BY <1>0, <1>1, <2>1 DEF Restart, CountInv, ZeroPeer
<1>2. CASE Tick
  <2>1. \A p \in Peer : Unanswered(p)' = Unanswered(p)
    BY <1>2 DEF Tick, Unanswered
  <2>2. \A m \in net : m.ts \in Nat
    BY DEF TypeOK, Packet, Times
  <2> QED
    BY <1>0, <1>2, <2>1, <2>2 DEF Tick, CountInv
<1>3. CASE SendPings
  <2>1. lastPing' = now /\ now' = now /\ 1 <= lastPing'
    BY <1>0, <1>3 DEF SendPings, CountInv
  <2>2. \A m \in net' : m.ts <= now
    <3>1. PICK sent \in SUBSET Peer : net' = net \cup Pings(sent)
      BY <1>3 DEF SendPings
    <3>2. \A m \in Pings(sent) : m.ts = now
      BY DEF Pings
    <3> QED
      BY <1>0, <3>1, <3>2 DEF CountInv
  <2>3. ASSUME NEW p \in Peer
        PROVE  /\ answered'[p] \subseteq pings'[p] /\ pings'[p] \subseteq 1..lastPing'
               /\ Len(samples'[p]) <= MaxPongs /\ pongRecv'[p] = Len(samples'[p])
               /\ pongRecv'[p] <= pingSent'[p]
               /\ lossCount'[p] = pingSent'[p] - pongRecv'[p]
               /\ lossCount'[p] <= Cardinality(Unanswered(p)')
    <3>1. /\ pings'[p] = pings[p] \cup {now} /\ answered'[p] = answered[p]
          /\ samples'[p] = samples[p] /\ pongRecv'[p] = pongRecv[p]
      BY <1>3 DEF SendPings
    <3>2. answered'[p] \subseteq pings'[p] /\ pings'[p] \subseteq 1..lastPing'
      BY <1>0, <2>1, <3>1 DEF CountInv
    <3>3. /\ lossCount[p] <= Cardinality(Unanswered(p))
          /\ Cardinality(Unanswered(p)) \in Nat
          /\ Len(samples[p]) <= MaxPongs /\ pongRecv[p] = Len(samples[p])
      BY UnansweredFacts DEF CountInv
    <3> QED
      <4>1. pingSent'[p] = pingSent[p] + 1 /\ lossCount'[p] = lossCount[p] + 1
        BY <1>3, SendPingsCounts
      <4>2. Cardinality(Unanswered(p)') = Cardinality(Unanswered(p)) + 1
        BY <1>3, SendPingsUnanswered
      <4>3. /\ pingSent[p] \in Nat /\ pongRecv[p] \in Nat /\ lossCount[p] \in Nat
            /\ pingSent[p] = pongRecv[p] + lossCount[p]
        BY CounterFacts
      <4> QED
        BY <3>1, <3>2, <3>3, <4>1, <4>2, <4>3
  <2> QED
    BY <1>0, <2>1, <2>2, <2>3 DEF CountInv
<1>4. ASSUME NEW m \in net, AnswerPing(m) PROVE CountInv'
  <2>1. Receive(m, {[m EXCEPT !.type = "Pong"]})
    BY <1>4 DEF AnswerPing
  <2>2. net' \subseteq net \cup {[m EXCEPT !.type = "Pong"]}
    BY <2>1, Received
  <2>3. [m EXCEPT !.type = "Pong"].ts = m.ts
    BY DEF TypeOK, Packet
  <2>4. \A k \in net' : k.ts <= now
    BY <2>2, <2>3 DEF CountInv
  <2>5. \A p \in Peer : Unanswered(p)' = Unanswered(p)
    BY <1>4 DEF AnswerPing, Unanswered
  <2> QED
    BY <1>4, <2>4, <2>5 DEF AnswerPing, CountInv
<1>5. ASSUME NEW m \in net, HandlePong(m) PROVE CountInv'
  <2>1. net' \subseteq net
    BY <1>5, Received DEF HandlePong
  <2>2. ASSUME NEW p \in Peer
        PROVE  /\ answered'[p] \subseteq pings'[p] /\ pings'[p] \subseteq 1..lastPing'
               /\ Len(samples'[p]) <= MaxPongs /\ pongRecv'[p] = Len(samples'[p])
               /\ pongRecv'[p] <= pingSent'[p]
               /\ lossCount'[p] = pingSent'[p] - pongRecv'[p]
               /\ lossCount'[p] <= Cardinality(Unanswered(p)')
    <3>1. Len(samples'[p]) <= MaxPongs /\ pongRecv'[p] = Len(samples'[p])
      <4>1. /\ m.peer \in Peer /\ samples[p] \in Seq(Sample)
            /\ Len(samples[p]) <= MaxPongs /\ pongRecv[p] = Len(samples[p])
        BY DEF TypeOK, Packet, CountInv
      <4>2. Len(samples[m.peer]) < MaxPongs
        BY <1>5 DEF HandlePong
      <4>3. samples'[p] = IF p = m.peer
                          THEN Append(samples[p], [tsc |-> now, rtt |-> now - m.ts])
                          ELSE samples[p]
        BY <1>5, <4>1 DEF HandlePong, AppendSample, TypeOK
      <4>4. CASE p = m.peer
        <5>1. Len(samples'[p]) = Len(samples[p]) + 1
          BY <4>1, <4>3, <4>4
        <5> QED
          BY <1>5, <4>1, <4>2, <4>4, <5>1, HandlePongCounts
      <4>5. CASE p # m.peer
        BY <1>5, <4>1, <4>3, <4>5, HandlePongCounts
      <4> QED
        BY <4>4, <4>5
    <3>2. /\ lossCount[p] <= Cardinality(Unanswered(p))
          /\ Cardinality(Unanswered(p)) \in Nat /\ lossCount[p] \in Nat
      BY UnansweredFacts, CounterFacts DEF CountInv
    <3>3. lossCount'[p] <= Cardinality(Unanswered(p)')
      <4>1. lossCount'[p] = IF p = m.peer /\ lossCount[p] > 0 THEN lossCount[p] - 1
                                                              ELSE lossCount[p]
        BY <1>5, HandlePongCounts
      <4>2. /\ Cardinality(Unanswered(p)') \in Nat
            /\ \/ Cardinality(Unanswered(p)') = Cardinality(Unanswered(p))
               \/ /\ p = m.peer
                  /\ Cardinality(Unanswered(p)') = Cardinality(Unanswered(p)) - 1
        BY <1>5, HandlePongUnanswered
      <4> QED
        BY <3>2, <4>1, <4>2
    <3>4. pings'[p] \subseteq 1..lastPing'
      BY <1>5 DEF HandlePong, CountInv
    <3> QED
      BY <1>5, <3>1, <3>3, <3>4, HandlePongCounts, HandlePongUnanswered
  <2>3. now' = now /\ lastPing' = lastPing
    BY <1>5 DEF HandlePong
  <2> QED
    BY <2>1, <2>2, <2>3 DEF CountInv
<1>6. CASE UNCHANGED vars
  <2>1. \A p \in Peer : Unanswered(p)' = Unanswered(p)
    BY <1>6 DEF vars, Unanswered
  <2> QED
    BY <1>6, <2>1 DEF vars, CountInv
<1> QED
  BY <1>1, <1>2, <1>3, <1>4, <1>5, <1>6 DEF Next

\* A packet on the wire stands for an unanswered ping of its own, until something is
\* duplicated or forgotten.
LEMMA ExactNext ==
    ASSUME TypeOK, CountInv, ExactInv, [Next]_vars PROVE ExactInv'
<1> SUFFICES ASSUME ~duplicated', restarts' = 0
    PROVE  /\ \A m \in net' : m.ts \in Unanswered(m.peer)'
           /\ \A m, n \in net' : m.peer = n.peer /\ m.ts = n.ts => m = n
           /\ \A p \in Peer : lossCount'[p] = Cardinality(Unanswered(p)')
  BY DEF ExactInv
<1> USE DEF counters, ring, history
<1>0. /\ net \subseteq Packet
      /\ lastPing \in Nat /\ now \in Nat /\ restarts \in Nat
  BY DEF TypeOK, Times
<1>1. CASE Restart
  BY <1>0, <1>1 DEF Restart
<1>2. CASE Tick \/ UNCHANGED vars
  <2>1. /\ net' = net /\ duplicated' = duplicated /\ restarts' = restarts
        /\ lossCount' = lossCount
        /\ \A p : Unanswered(p)' = Unanswered(p)
    BY <1>2 DEF Tick, vars, Unanswered
  <2> QED
    BY <2>1 DEF ExactInv
<1>3. CASE SendPings
  <2>1. ~duplicated /\ restarts = 0
    BY <1>3 DEF SendPings
  <2>2. PICK sent \in SUBSET Peer : net' = net \cup Pings(sent)
    BY <1>3 DEF SendPings
  <2>3. \A m \in Pings(sent) : m.ts = now /\ m.peer \in Peer /\ m.type = "Ping"
    BY DEF Pings
  <2>4. \A m, n \in Pings(sent) : m.peer = n.peer => m = n
    BY DEF Pings
  <2>5. \A m \in net : m.ts # now
    BY <1>0, <1>3, <2>1, SendPingsUnanswered DEF ExactInv, Packet
  <2>6. \A p \in Peer : /\ Unanswered(p)' = Unanswered(p) \cup {now}
                        /\ Cardinality(Unanswered(p)') = Cardinality(Unanswered(p)) + 1
                        /\ lossCount'[p] = lossCount[p] + 1
    BY <1>3, SendPingsUnanswered, SendPingsCounts
  <2>7. \A m \in net' : m.ts \in Unanswered(m.peer)'
    BY <1>0, <2>1, <2>2, <2>3, <2>6 DEF ExactInv, Packet
  <2>8. \A m, n \in net' : m.peer = n.peer /\ m.ts = n.ts => m = n
    BY <2>1, <2>2, <2>3, <2>4, <2>5 DEF ExactInv
  <2> QED
    BY <2>1, <2>6, <2>7, <2>8 DEF ExactInv
<1>4. ASSUME NEW m \in net, AnswerPing(m) PROVE ExactInv'
  <2> DEFINE pong == [m EXCEPT !.type = "Pong"]
  <2>1. Receive(m, {pong}) /\ restarts' = restarts
    BY <1>4 DEF AnswerPing
  <2>2. ~duplicated /\ restarts = 0 /\ net' \subseteq (net \ {m}) \cup {pong}
    BY <2>1, Received
  <2>3. pong.peer = m.peer /\ pong.ts = m.ts
    BY <1>0 DEF Packet
  <2>4. \A p : Unanswered(p)' = Unanswered(p)
    BY <1>4 DEF AnswerPing, Unanswered
  <2>5. lossCount' = lossCount
    BY <1>4 DEF AnswerPing
  <2> HIDE DEF pong
  <2>6. \A k \in net' : k.ts \in Unanswered(k.peer)
    BY <2>2, <2>3 DEF ExactInv
  <2>7. \A k, n \in net' : k.peer = n.peer /\ k.ts = n.ts => k = n
    BY <2>2, <2>3 DEF ExactInv
  <2> QED
    BY <2>2, <2>4, <2>5, <2>6, <2>7 DEF ExactInv
<1>5. ASSUME NEW m \in net, HandlePong(m) PROVE ExactInv'
  <2>1. Receive(m, {}) /\ restarts' = restarts
    BY <1>5 DEF HandlePong
  <2>2. ~duplicated /\ restarts = 0 /\ net' \subseteq net \ {m}
    BY <2>1, Received
  <2>3. /\ m.peer \in Peer /\ m.ts \in Unanswered(m.peer)
        /\ \A k \in net' : k \in Packet /\ k.ts \in Unanswered(k.peer)
        /\ \A k \in net' : ~(k.peer = m.peer /\ k.ts = m.ts)
        /\ \A k, n \in net' : k.peer = n.peer /\ k.ts = n.ts => k = n
    BY <1>0, <2>2 DEF ExactInv, Packet
  <2>4. \A p \in Peer : Unanswered(p)' =
            IF p = m.peer THEN Unanswered(p) \ {m.ts} ELSE Unanswered(p)
    BY <1>5, HandlePongUnanswered
  <2>5. \A k \in net' : k.ts \in Unanswered(k.peer)'
    BY <2>3, <2>4 DEF Packet
  <2>6. ASSUME NEW p \in Peer PROVE lossCount'[p] = Cardinality(Unanswered(p)')
    <3>1. lossCount[p] = Cardinality(Unanswered(p)) /\ lossCount[p] \in Nat
      BY <2>2, CounterFacts DEF ExactInv
    <3>2. /\ Cardinality(Unanswered(p)') \in Nat
          /\ Cardinality(Unanswered(p)') =
                IF p = m.peer THEN Cardinality(Unanswered(p)) - 1
                              ELSE Cardinality(Unanswered(p))
      BY <1>5, <2>3, HandlePongUnanswered
    <3>3. lossCount'[p] = IF p = m.peer /\ lossCount[p] > 0 THEN lossCount[p] - 1
                                                            ELSE lossCount[p]
      BY <1>5, HandlePongCounts
    <3> QED
      BY <3>1, <3>2, <3>3
  <2> QED
    BY <2>3, <2>5, <2>6 DEF ExactInv
<1> QED
  BY <1>1, <1>2, <1>3, <1>4, <1>5 DEF Next, ExactInv

-----------------------------------------------------------------------------
(* Sums over finite sets.                                                  *)

\* Induction over a finite set: a class of its subsets that holds the empty set and is
\* closed under adding an element holds the set.  (A class of subsets without the set
\* would leave a smallest one outside, by the strict subset order of the library.)
LEMMA SetInduction ==
    ASSUME NEW S, IsFiniteSet(S), NEW C, C \subseteq SUBSET S, {} \in C,
           \A s \in C : \A x \in S \ s : s \cup {x} \in C
    PROVE  S \in C
<1> SUFFICES ASSUME S \notin C PROVE FALSE
  OBVIOUS
<1> DEFINE T == (SUBSET S) \ C
           R == StrictSubsetOrdering(S)
<1>1. IsWellFoundedOn(R, SUBSET S)
  BY FS_StrictSubsetOrderingWellFounded, FS_FiniteSubsetsOfFinite
<1>2. T \subseteq SUBSET S /\ T # {}
  OBVIOUS
<1>3. PICK s \in T : \A r \in T : <<r, s>> \notin R
  <2> HIDE DEF T, R
  <2> QED
    BY <1>1, <1>2, WFMin
<1>4. PICK x \in s : TRUE
  BY <1>3
<1>5. <<s \ {x}, s>> \in R
  BY <1>3, <1>4 DEF StrictSubsetOrdering
<1>6. s \ {x} \in C
  BY <1>3, <1>5
<1>7. (s \ {x}) \cup {x} \in C
  BY <1>3, <1>4, <1>6
<1>8. (s \ {x}) \cup {x} = s
  BY <1>4
<1> QED
  BY <1>3, <1>7, <1>8

\* h gives every subset of S its sum of f: nothing for the empty set, and each element
\* adds its value.
IsSum(h, f, S) ==
    /\ h \in [SUBSET S -> Int]
    /\ h[{}] = 0
    /\ \A s \in SUBSET S : \A x \in s : h[s] = f[x] + h[s \ {x}]

\* Every function has such a sum (the averages of avg_in_window need one).
LEMMA SumExists ==
    ASSUME NEW S, IsFiniteSet(S), NEW f \in [S -> Int]
    PROVE  \E h : IsSum(h, f, S)
<1> DEFINE C == {s \in SUBSET S : \E h : IsSum(h, f, s)}
<1>1. {} \in C
  <2> DEFINE h == [s \in {{}} |-> 0]
  <2>1. IsSum(h, f, {})
    BY DEF IsSum
  <2> QED
    BY <2>1
<1>2. ASSUME NEW s \in C, NEW a \in S \ s PROVE s \cup {a} \in C
  <2>1. PICK h : IsSum(h, f, s)
    OBVIOUS
  <2> DEFINE g == [r \in SUBSET (s \cup {a}) |->
                      IF a \in r THEN f[a] + h[r \ {a}] ELSE h[r]]
  <2>2. h \in [SUBSET s -> Int] /\ f[a] \in Int /\ \A x \in s : f[x] \in Int
    BY <2>1 DEF IsSum
  <2>3. \A r \in SUBSET (s \cup {a}) : r \ {a} \in SUBSET s /\ (a \notin r => r \in SUBSET s)
    OBVIOUS
  <2>4. \A r \in SUBSET (s \cup {a}) : g[r] \in Int
    BY <2>2, <2>3
  <2>5. ASSUME NEW r \in SUBSET (s \cup {a}), NEW x \in r PROVE g[r] = f[x] + g[r \ {x}]
    <3>0. r \ {x} \in SUBSET (s \cup {a})
      OBVIOUS
    <3>1. CASE x = a
      BY <2>3, <3>0, <3>1
    <3>2. CASE x # a /\ a \in r
      <4>1. g[r] = f[a] + h[r \ {a}] /\ g[r \ {x}] = f[a] + h[(r \ {x}) \ {a}]
        BY <3>0, <3>2
      <4>2. (r \ {x}) \ {a} = (r \ {a}) \ {x}
        OBVIOUS
      <4>3. r \ {a} \in SUBSET s /\ x \in r \ {a} /\ x \in s /\ (r \ {a}) \ {x} \in SUBSET s
        BY <3>2
      <4>4. h[r \ {a}] = f[x] + h[(r \ {a}) \ {x}]
        BY <2>1, <4>3 DEF IsSum
      <4>5. f[x] \in Int /\ h[(r \ {a}) \ {x}] \in Int
        BY <2>2, <4>3
      <4>6. h[(r \ {x}) \ {a}] = h[(r \ {a}) \ {x}]
        BY <4>2
      <4>7. g[r] = f[a] + (f[x] + h[(r \ {a}) \ {x}])
        BY <4>1, <4>4
      <4>8. g[r \ {x}] = f[a] + h[(r \ {a}) \ {x}]
        BY <4>1, <4>6
      <4> HIDE DEF g
      <4> QED
        BY <2>2, <4>5, <4>7, <4>8
    <3>3. CASE a \notin r
      <4>1. g[r] = h[r] /\ g[r \ {x}] = h[r \ {x}] /\ r \in SUBSET s
        BY <3>0, <3>3
      <4> QED
        BY <2>1, <4>1 DEF IsSum
    <3> QED
      BY <3>1, <3>2, <3>3
  <2>6. g[{}] = 0
    BY <2>1 DEF IsSum
  <2>7. g \in [SUBSET (s \cup {a}) -> Int]
    BY <2>4
  <2>8. IsSum(g, f, s \cup {a})
    <3> HIDE DEF g
    <3> QED
      BY <2>5, <2>6, <2>7 DEF IsSum
  <2> QED
    BY <2>8
<1>3. S \in C
  <2>1. C \subseteq SUBSET S
    OBVIOUS
  <2> HIDE DEF C
  <2> QED
    BY <1>1, <1>2, <2>1, SetInduction
<1> QED
  BY <1>3

\* The element a fold takes first, and the fold of f over the subsets of S.
Pick(s) == CHOOSE x \in s : TRUE

IsFold(g, f, S) ==
    g = [s \in SUBSET S |-> IF s = {} THEN 0 ELSE f[Pick(s)] + g[s \ {Pick(s)}]]

\* The fold by which MapThenSumSet is defined computes that sum.
LEMMA SumUnique ==
    ASSUME NEW S, IsFiniteSet(S), NEW f \in [S -> Int],
           NEW h, IsSum(h, f, S), NEW g, IsFold(g, f, S)
    PROVE  g = h
<1> USE DEF IsFold
<1> DEFINE T == {s \in SUBSET S : g[s] # h[s]}
           R == StrictSubsetOrdering(S)
<1>1. IsWellFoundedOn(R, SUBSET S)
  BY FS_StrictSubsetOrderingWellFounded, FS_FiniteSubsetsOfFinite
<1>2. ASSUME T # {} PROVE FALSE
  <2>1. PICK s \in T : \A r \in T : <<r, s>> \notin R
    <3>1. T \subseteq SUBSET S
      OBVIOUS
    <3> HIDE DEF T, R
    <3> QED
      BY <1>1, <1>2, <3>1, WFMin
  <2>2. s # {}
    BY <2>1 DEF IsSum
  <2> DEFINE x == Pick(s)
  <2>3. x \in s
    BY <2>2 DEF Pick
  <2>4. <<s \ {x}, s>> \in R
    <3> HIDE DEF x
    <3> QED
      BY <2>1, <2>3 DEF StrictSubsetOrdering
  <2>5. g[s \ {x}] = h[s \ {x}]
    BY <2>1, <2>4
  <2>6. g[s] = f[x] + g[s \ {x}]
    BY <2>1, <2>2
  <2>7. h[s] = f[x] + h[s \ {x}]
    BY <2>1, <2>3 DEF IsSum
  <2> QED
    BY <2>1, <2>5, <2>6, <2>7
<1> QED
  BY <1>2 DEF IsSum

\* A sum stays when what it adds is renamed one to one.
LEMMA SumMoved ==
    ASSUME NEW S, NEW T, NEW b \in [S -> T],
           \A x, y \in S : b[x] = b[y] => x = y, \A t \in T : \E x \in S : b[x] = t,
           NEW f, NEW g, \A x \in S : f[x] = g[b[x]],
           NEW k, IsSum(k, g, T)
    PROVE  \E h : IsSum(h, f, S) /\ h[S] = k[T]
<1> DEFINE img(s) == {b[x] : x \in s}
           h == [s \in SUBSET S |-> k[img(s)]]
<1>1. \A s \in SUBSET S : img(s) \in SUBSET T
  OBVIOUS
<1>2. h \in [SUBSET S -> Int]
  BY <1>1 DEF IsSum
<1>3. h[{}] = 0
  <2>1. img({}) = {}
    OBVIOUS
  <2> QED
    BY <2>1 DEF IsSum
<1>4. ASSUME NEW s \in SUBSET S, NEW x \in s PROVE h[s] = f[x] + h[s \ {x}]
  <2>1. img(s \ {x}) = img(s) \ {b[x]} /\ b[x] \in img(s)
    OBVIOUS
  <2>2. k[img(s)] = g[b[x]] + k[img(s) \ {b[x]}]
    <3> HIDE DEF img
    <3> QED
      BY <1>1, <2>1 DEF IsSum
  <2>3. h[s] = k[img(s)] /\ h[s \ {x}] = k[img(s \ {x})] /\ f[x] = g[b[x]]
    OBVIOUS
  <2> HIDE DEF img, h
  <2> QED
    BY <2>1, <2>2, <2>3
<1>5. h[S] = k[T]
  <2>1. img(S) = T
    OBVIOUS
  <2> QED
    BY <2>1
<1> HIDE DEF h
<1>6. IsSum(h, f, S)
  BY <1>2, <1>3, <1>4 DEF IsSum
<1> QED
  BY <1>5, <1>6

\* What avg_in_window adds up over the slots walked is their sum (stats.c 104-119).
LEMMA Fold ==
    ASSUME NEW p, NEW W, IsFiniteSet(W), \A i \in W : sampleRing[p][Back(p, i)].rtt \in Int,
           NEW h, IsSum(h, [i \in W |-> sampleRing[p][Back(p, i)].rtt], W)
    PROVE  MapThenSumSet(LAMBDA i : sampleRing[p][Back(p, i)].rtt, W) = h[W]
<1> DEFINE f == [i \in W |-> sampleRing[p][Back(p, i)].rtt]
           byF(g) == g = [s \in SUBSET W |->
                        IF s = {} THEN 0 ELSE f[Pick(s)] + g[s \ {Pick(s)}]]
           byRing(g) == g = [s \in SUBSET W |->
                        IF s = {} THEN 0
                        ELSE sampleRing[p][Back(p, Pick(s))].rtt + g[s \ {Pick(s)}]]
<1>1. \A s \in SUBSET W : s # {} => Pick(s) \in s
  BY DEF Pick
<1>2. byF(h)
  BY <1>1 DEF IsSum
<1>3. \A g : byF(g) <=> byRing(g)
  BY <1>1
<1>4. MapThenSumSet(LAMBDA i : sampleRing[p][Back(p, i)].rtt, W) = (CHOOSE g : byRing(g))[W]
  BY DEF MapThenSumSet, MapThenFoldSet, Pick
<1>5. byF(CHOOSE g : byRing(g))
  <2>1. byRing(CHOOSE g : byRing(g))
    <3>1. \E g : byRing(g)
      BY <1>2, <1>3
    <3> HIDE DEF byRing
    <3> QED
      BY <3>1
  <2> QED
    BY <1>3, <2>1
<1>6. f \in [W -> Int]
  OBVIOUS
<1>7. (CHOOSE g : byRing(g)) = h
  <2> DEFINE r == CHOOSE g : byRing(g)
  <2>1. IsFold(r, f, W)
    BY <1>5 DEF IsFold
  <2>2. IsSum(h, f, W)
    OBVIOUS
  <2> HIDE DEF r, f
  <2>3. r = h
    BY <1>6, <2>1, <2>2, SumUnique
  <2> QED
    BY <2>3 DEF r
<1> QED
  BY <1>4, <1>7

\* The same of the samples handled.
LEMMA FoldSamples ==
    ASSUME NEW p, NEW R, IsFiniteSet(R), \A i \in R : samples[p][i].rtt \in Int,
           NEW h, IsSum(h, [i \in R |-> samples[p][i].rtt], R)
    PROVE  MapThenSumSet(LAMBDA k : samples[p][k].rtt, R) = h[R]
<1> DEFINE f == [i \in R |-> samples[p][i].rtt]
           byF(g) == g = [s \in SUBSET R |->
                        IF s = {} THEN 0 ELSE f[Pick(s)] + g[s \ {Pick(s)}]]
           bySamples(g) == g = [s \in SUBSET R |->
                        IF s = {} THEN 0
                        ELSE samples[p][Pick(s)].rtt + g[s \ {Pick(s)}]]
<1>1. \A s \in SUBSET R : s # {} => Pick(s) \in s
  BY DEF Pick
<1>2. byF(h)
  BY <1>1 DEF IsSum
<1>3. \A g : byF(g) <=> bySamples(g)
  BY <1>1
<1>4. MapThenSumSet(LAMBDA k : samples[p][k].rtt, R) = (CHOOSE g : bySamples(g))[R]
  BY DEF MapThenSumSet, MapThenFoldSet, Pick
<1>5. byF(CHOOSE g : bySamples(g))
  <2>1. bySamples(CHOOSE g : bySamples(g))
    <3>1. \E g : bySamples(g)
      BY <1>2, <1>3
    <3> HIDE DEF bySamples
    <3> QED
      BY <3>1
  <2> QED
    BY <1>3, <2>1
<1>6. f \in [R -> Int]
  OBVIOUS
<1>7. (CHOOSE g : bySamples(g)) = h
  <2> DEFINE r == CHOOSE g : bySamples(g)
  <2>1. IsFold(r, f, R)
    BY <1>5 DEF IsFold
  <2>2. IsSum(h, f, R)
    OBVIOUS
  <2> HIDE DEF r, f
  <2>3. r = h
    BY <1>6, <2>1, <2>2, SumUnique
  <2> QED
    BY <2>3 DEF r
<1> QED
  BY <1>4, <1>7

-----------------------------------------------------------------------------
(* The ring of samples.                                                    *)

\* Numbers that differ by a multiple have the same remainder (stats.c 91, 105).
LEMMA SameRemainder ==
    ASSUME NEW m \in Nat, m > 0, NEW a \in Int, NEW b \in Int, NEW q \in Int, a = b + m * q
    PROVE  a % m = b % m
<1> DEFINE d == b \div m
           r == b % m
<1>1. d \in Int /\ r \in 0..m - 1 /\ b = m * d + r
  OBVIOUS
<1> HIDE DEF d
<1>2. m * (d + q) = m * d + m * q /\ d + q \in Int
  BY <1>1
<1>3. a = m * (d + q) + r
  <2>1. m * d \in Int /\ m * q \in Int /\ r \in Int
    BY <1>1
  <2> HIDE DEF r
  <2> QED
    BY <1>1, <1>2, <2>1
<1>4. \A e \in Int, x \in 0..m - 1 : (m * e + x) % m = x
  OBVIOUS
<1> HIDE DEF r
<1>5. a % m = r
  BY <1>1, <1>2, <1>3, <1>4
<1> QED
  BY <1>5 DEF r

\* Different numbers less than m apart have different remainders: a new sample
\* overwrites none of the MaxSamples - 1 before it (stats.c 88-91).
LEMMA OtherRemainder ==
    ASSUME NEW m \in Nat, m > 0, NEW a \in Int, NEW b \in Int, a < b, b - a < m
    PROVE  a % m # b % m
<1> SUFFICES ASSUME a % m = b % m PROVE FALSE
  OBVIOUS
<1> DEFINE c == a \div m
           d == b \div m
           r == a % m
<1>1. c \in Int /\ d \in Int /\ a = m * c + r /\ b = m * d + r /\ r \in 0..m - 1
  OBVIOUS
<1> HIDE DEF c, d, r
<1>2. m * (d - c) = m * d - m * c /\ d - c \in Int
  BY <1>1
<1>3. m * d \in Int /\ m * c \in Int
  BY <1>1
<1>4. m * (d - c) = b - a
  BY <1>1, <1>2, <1>3
<1>5. CASE d - c >= 1
  <2>1. m * (d - c) >= m
    BY <1>2, <1>5
  <2> QED
    BY <1>4, <2>1
<1>6. CASE d - c <= 0
  <2>1. m * (d - c) <= 0
    BY <1>2, <1>6
  <2> QED
    BY <1>4, <2>1
<1> QED
  BY <1>2, <1>5, <1>6

\* The head of the ring is the number of samples, as a remainder (stats.c 91).
LEMMA HeadMoves ==
    ASSUME NEW n \in Nat PROVE NextSlot(n % MaxSamples) = (n + 1) % MaxSamples
<1> DEFINE r == n % MaxSamples
           q == n \div MaxSamples
<1>1. r \in 0..MaxSamples - 1 /\ q \in Int /\ n = MaxSamples * q + r
  OBVIOUS
<1> HIDE DEF q, r
<1>2. n + 1 = (r + 1) + MaxSamples * q
  <2>1. MaxSamples * q \in Int
    BY <1>1
  <2> QED
    BY <1>1, <2>1
<1>3. (n + 1) % MaxSamples = (r + 1) % MaxSamples
  BY <1>1, <1>2, SameRemainder
<1> QED
  BY <1>3 DEF NextSlot, r

\* The walk numbers the slots from the newest sample back (stats.c 104-107).
LEMMA BackIs ==
    ASSUME NEW p \in Peer, NEW n \in Nat, ringHead[p] = n % MaxSamples, NEW i \in Int
    PROVE  Back(p, i) = (n - i - 1) % MaxSamples
<1> DEFINE r == n % MaxSamples
           q == n \div MaxSamples
<1>1. r \in 0..MaxSamples - 1 /\ q \in Int /\ n = MaxSamples * q + r
  OBVIOUS
<1> HIDE DEF q, r
<1> DEFINE a == n - i - 1
           b == r - 1 - i
<1>2. a \in Int /\ b \in Int /\ MaxSamples \in Nat /\ MaxSamples > 0
  BY <1>1
<1>3. a = b + MaxSamples * q
  <2>1. MaxSamples * q \in Int
    BY <1>1
  <2> QED
    BY <1>1, <2>1
<1> HIDE DEF a, b
<1>4. a % MaxSamples = b % MaxSamples
  BY <1>1, <1>2, <1>3, SameRemainder
<1> QED
  BY <1>4 DEF Back, r, a, b

\* It stays in the ring (stats.c 104-107).
LEMMA BackInRing ==
    ASSUME TypeOK, NEW p \in Peer, NEW i \in Int PROVE Back(p, i) \in Slots
<1>1. ringHead[p] \in Int /\ ringHead[p] - 1 - i \in Int /\ MaxSamples \in Nat \ {0}
  BY DEF TypeOK, Slots
<1> QED
  BY <1>1, ModuloRange DEF Back, Slots

\* sense_samples_append keeps the ring the latest of the samples (stats.c 84-98).
LEMMA RingNext ==
    ASSUME TypeOK, CountInv, RingInv, [Next]_vars PROVE RingInv'
<1> USE DEF counters, ring, history
<1>0. now \in Nat /\ now >= 1 /\ \A p \in Peer : Len(samples[p]) \in Nat
  <2>1. \A p \in Peer : samples[p] \in Seq(Sample)
    BY DEF TypeOK
  <2>2. now \in Nat /\ lastPing \in Nat /\ 1 <= lastPing /\ lastPing <= now
    BY DEF TypeOK, Times, CountInv
  <2> QED
    BY <2>1, <2>2
<1>1. CASE Restart
  <2> SUFFICES ASSUME NEW p \in Peer
        PROVE  /\ ringHead'[p] = Len(samples'[p]) % MaxSamples
               /\ ringCount'[p] = IF Len(samples'[p]) < MaxSamples THEN Len(samples'[p])
                                                                   ELSE MaxSamples
               /\ 1..Len(samples'[p]) = {}
    BY DEF RingInv
  <2>1. samples'[p] = << >> /\ ringHead'[p] = 0 /\ ringCount'[p] = 0
    BY <1>1 DEF Restart, ZeroPeer
  <2>2. Len(samples'[p]) = 0
    BY <2>1
  <2>3. 0 % MaxSamples = 0 /\ 1..0 = {}
    OBVIOUS
  <2> QED
    BY <2>1, <2>2, <2>3
<1>2. CASE Tick
  <2>1. \A a \in 1..now : a \in 1..now'
    BY <1>0, <1>2 DEF Tick
  <2>2. sampleRing' = sampleRing /\ ringHead' = ringHead /\ ringCount' = ringCount
        /\ samples' = samples
    BY <1>2 DEF Tick
  <2> QED
    BY <2>1, <2>2 DEF RingInv
<1>3. CASE SendPings
  BY <1>3 DEF SendPings, RingInv
<1>4. ASSUME NEW m \in net, AnswerPing(m) PROVE RingInv'
  BY <1>4 DEF AnswerPing, RingInv
<1>5. ASSUME NEW m \in net, HandlePong(m) PROVE RingInv'
  <2> DEFINE s == [tsc |-> now, rtt |-> now - m.ts]
  <2>1. /\ sampleRing' = [sampleRing EXCEPT ![m.peer][ringHead[m.peer]] = s]
        /\ ringHead' = [ringHead EXCEPT ![m.peer] = NextSlot(@)]
        /\ ringCount' = [ringCount EXCEPT ![m.peer] = IF @ < MaxSamples THEN @ + 1 ELSE @]
        /\ samples' = [samples EXCEPT ![m.peer] = Append(@, s)]
        /\ now' = now /\ s.tsc = now
    BY <1>5 DEF HandlePong, AppendSample
  <2>s. s \in Sample
    BY <1>5 DEF TypeOK, CountInv, Sample, Packet, Times
  <2> HIDE DEF s
  <2> SUFFICES ASSUME NEW p \in Peer
        PROVE  /\ ringHead'[p] = Len(samples'[p]) % MaxSamples
               /\ ringCount'[p] = IF Len(samples'[p]) < MaxSamples THEN Len(samples'[p])
                                                                   ELSE MaxSamples
               /\ \A k \in 1..Len(samples'[p]) :
                   /\ samples'[p][k].tsc \in 1..now
                   /\ k > Len(samples'[p]) - MaxSamples =>
                        sampleRing'[p][(k - 1) % MaxSamples] = samples'[p][k]
                   /\ \A j \in 1..k : samples'[p][j].tsc <= samples'[p][k].tsc
    <3>1. now' = now
      BY <2>1
    <3> QED
      BY <3>1 DEF RingInv
  <2>2. m.peer \in Peer
    BY DEF TypeOK, Packet
  <2>3. CASE p # m.peer
    <3>1. /\ sampleRing'[p] = sampleRing[p] /\ ringHead'[p] = ringHead[p]
          /\ ringCount'[p] = ringCount[p] /\ samples'[p] = samples[p]
      BY <2>1, <2>2, <2>3 DEF TypeOK
    <3> QED
      BY <3>1 DEF RingInv
  <2>4. CASE p = m.peer
    <3> DEFINE n == Len(samples[p])
    <3>1. /\ n \in Nat /\ ringHead[p] = n % MaxSamples /\ ringHead[p] \in Slots
          /\ ringCount[p] = IF n < MaxSamples THEN n ELSE MaxSamples
          /\ samples[p] \in Seq(Sample)
      BY <1>0 DEF TypeOK, RingInv
    <3>2. /\ samples'[p] = Append(samples[p], s) /\ Len(samples'[p]) = n + 1
          /\ samples'[p][n + 1] = s /\ \A k \in 1..n : samples'[p][k] = samples[p][k]
      <4>1. samples'[p] = Append(samples[p], s)
        BY <2>1, <2>2, <2>4 DEF TypeOK
      <4> QED
        BY <3>1, <4>1, <2>s
    <3>3. ringHead'[p] = (n + 1) % MaxSamples
      BY <2>1, <2>2, <2>4, <3>1, HeadMoves DEF TypeOK
    <3>4. ringCount'[p] = IF n + 1 < MaxSamples THEN n + 1 ELSE MaxSamples
      <4>1. ringCount'[p] = IF ringCount[p] < MaxSamples THEN ringCount[p] + 1 ELSE ringCount[p]
        BY <2>1, <2>2, <2>4 DEF TypeOK
      <4> QED
        BY <3>1, <4>1
    <3>5. /\ sampleRing'[p][ringHead[p]] = s
          /\ \A i \in Slots : i # ringHead[p] => sampleRing'[p][i] = sampleRing[p][i]
      <4>1. sampleRing'[p] = [sampleRing[p] EXCEPT ![ringHead[p]] = s]
        BY <2>1, <2>2, <2>4 DEF TypeOK
      <4>2. sampleRing[p] \in [Slots -> Sample]
        BY DEF TypeOK
      <4> QED
        BY <3>1, <4>1, <4>2
    <3>6. ASSUME NEW k \in 1..n
          PROVE  /\ samples[p][k].tsc \in 1..now
                 /\ k > n - MaxSamples =>
                        sampleRing[p][(k - 1) % MaxSamples] = samples[p][k]
                 /\ \A j \in 1..k : samples[p][j].tsc <= samples[p][k].tsc
      BY DEF RingInv
    <3> HIDE DEF n
    <3>7. ASSUME NEW k \in 1..n + 1
          PROVE  /\ samples'[p][k].tsc \in 1..now
                 /\ k > (n + 1) - MaxSamples =>
                      sampleRing'[p][(k - 1) % MaxSamples] = samples'[p][k]
                 /\ \A j \in 1..k : samples'[p][j].tsc <= samples'[p][k].tsc
      <4>1. CASE k = n + 1
        <5>1. k - 1 = n /\ samples'[p][k] = s
          BY <3>1, <3>2, <4>1
        <5>2. \A j \in 1..k : j = n + 1 \/ j \in 1..n
          BY <3>1, <4>1
        <5>3. \A j \in 1..n : samples[p][j].tsc \in 1..now
          BY <3>6
        <5>4. \A j \in 1..k : samples'[p][j].tsc <= now
          <6> SUFFICES ASSUME NEW j \in 1..k PROVE samples'[p][j].tsc <= now
            OBVIOUS
          <6>1. CASE j = n + 1
            BY <1>0, <2>1, <3>2, <6>1
          <6>2. CASE j \in 1..n
            <7>1. samples'[p][j] = samples[p][j] /\ samples[p][j].tsc \in 1..now
              BY <3>2, <5>3, <6>2
            <7> QED
              BY <1>0, <7>1
          <6> QED
            BY <5>2, <6>1, <6>2
        <5>5. s.tsc \in 1..now /\ s.tsc = now
          BY <1>0, <2>1
        <5>6. sampleRing'[p][(k - 1) % MaxSamples] = s
          BY <3>1, <3>5, <5>1
        <5> QED
          BY <5>1, <5>4, <5>5, <5>6
      <4>2. CASE k \in 1..n
        <5>1. k > (n + 1) - MaxSamples =>
                sampleRing'[p][(k - 1) % MaxSamples] = sampleRing[p][(k - 1) % MaxSamples]
          <6> SUFFICES ASSUME k > (n + 1) - MaxSamples
              PROVE sampleRing'[p][(k - 1) % MaxSamples] = sampleRing[p][(k - 1) % MaxSamples]
            OBVIOUS
          <6>1. k - 1 \in Int /\ k - 1 < n /\ n - (k - 1) < MaxSamples
            BY <3>1, <4>2
          <6>2. (k - 1) % MaxSamples # n % MaxSamples
            BY <3>1, <6>1, OtherRemainder
          <6>3. (k - 1) % MaxSamples \in Slots
            BY <6>1, ModuloRange DEF Slots
          <6> QED
            BY <3>1, <3>5, <6>2, <6>3
        <5>2. k > (n + 1) - MaxSamples => k > n - MaxSamples
          BY <3>1, <4>2
        <5>3. \A j \in 1..k : j \in 1..n
          BY <3>1, <4>2
        <5> QED
          BY <3>2, <3>6, <4>2, <5>1, <5>2, <5>3
      <4> QED
        BY <3>1, <4>1, <4>2
    <3> QED
      BY <3>2, <3>3, <3>4, <3>7
  <2> QED
    BY <2>3, <2>4
<1>6. CASE UNCHANGED vars
  BY <1>6 DEF vars, RingInv
<1> QED
  BY <1>1, <1>2, <1>3, <1>4, <1>5, <1>6 DEF Next

-----------------------------------------------------------------------------
(* The average.                                                            *)

\* The walk meets the samples from the newest back, and takes each for fresh just when
\* it is of the window: no sample has the time 0 that marks an unused slot
\* (stats.c 104-113).
LEMMA WalkMeets ==
    ASSUME TypeOK, CountInv, RingInv, NEW p \in Peer, NEW i \in 0..ringCount[p] - 1
    PROVE  /\ Len(samples[p]) - i \in 1..Len(samples[p])
           /\ Len(samples[p]) - i > Len(samples[p]) - MaxSamples
           /\ sampleRing[p][Back(p, i)] = samples[p][Len(samples[p]) - i]
           /\ Fresh(sampleRing[p][Back(p, i)])
                <=> now - samples[p][Len(samples[p]) - i].tsc <= Window
<1> DEFINE n == Len(samples[p])
<1>1. n \in Nat /\ samples[p] \in Seq(Sample) /\ ringCount[p] \in Nat
  BY DEF TypeOK
<1>2. ringHead[p] = n % MaxSamples /\ ringCount[p] = IF n < MaxSamples THEN n ELSE MaxSamples
  BY DEF RingInv
<1>3. \A k \in 1..n : /\ samples[p][k].tsc \in 1..now
                      /\ k > n - MaxSamples => sampleRing[p][(k - 1) % MaxSamples] = samples[p][k]
  BY DEF RingInv
<1> HIDE DEF n
<1>4. n - i \in 1..n /\ n - i > n - MaxSamples
  BY <1>1, <1>2
<1>5. Back(p, i) = ((n - i) - 1) % MaxSamples
  BY <1>1, <1>2, BackIs
<1>6. sampleRing[p][Back(p, i)] = samples[p][n - i]
  BY <1>3, <1>4, <1>5
<1>7. samples[p][n - i].tsc # 0
  BY <1>3, <1>4
<1>8. Fresh(sampleRing[p][Back(p, i)]) <=> now - samples[p][n - i].tsc <= Window
  BY <1>6, <1>7 DEF Fresh
<1> QED
  BY <1>4, <1>6, <1>8 DEF n

\* The samples walked are those of the window: a sample behind one that is too old is
\* older still (stats.c 108-113).
LEMMA WalkedAreRecent ==
    ASSUME TypeOK, CountInv, RingInv, NEW p \in Peer
    PROVE  /\ \A i \in Walked(p) : Len(samples[p]) - i \in RecentSamples(p)
           /\ \A k \in RecentSamples(p) : Len(samples[p]) - k \in Walked(p)
<1> DEFINE n == Len(samples[p])
<1>1. n \in Nat /\ samples[p] \in Seq(Sample) /\ DOMAIN samples[p] = 1..n
  BY DEF TypeOK
<1>2. ringCount[p] = IF n < MaxSamples THEN n ELSE MaxSamples
  BY DEF RingInv
<1>3. ASSUME NEW i \in Walked(p) PROVE n - i \in RecentSamples(p)
  <2>1. i \in 0..ringCount[p] - 1 /\ \A j \in 0..i : Fresh(sampleRing[p][Back(p, j)])
    BY DEF Walked
  <2>2. Fresh(sampleRing[p][Back(p, i)])
    BY <2>1
  <2> QED
    BY <1>1, <2>1, <2>2, WalkMeets DEF RecentSamples
<1>4. ASSUME NEW k \in RecentSamples(p) PROVE n - k \in Walked(p)
  <2>1. k \in 1..n /\ k > n - MaxSamples /\ now - samples[p][k].tsc <= Window
    BY <1>1 DEF RecentSamples
  <2> HIDE DEF n
  <2>2. n - k \in 0..ringCount[p] - 1
    BY <1>1, <1>2, <2>1
  <2>3. ASSUME NEW j \in 0..(n - k) PROVE Fresh(sampleRing[p][Back(p, j)])
    <3>1. j \in 0..ringCount[p] - 1 /\ n - j \in 1..n /\ k \in 1..(n - j)
      BY <1>1, <1>2, <2>1, <2>2
    <3>2. samples[p][k].tsc <= samples[p][n - j].tsc
      BY <3>1 DEF RingInv, n
    <3>3. samples[p][k].tsc \in 1..now /\ samples[p][n - j].tsc \in 1..now
      BY <2>1, <3>1 DEF RingInv, n
    <3>4. now - samples[p][n - j].tsc <= Window
      <4>1. now \in Nat
        BY DEF TypeOK, Times
      <4> QED
        BY <2>1, <3>2, <3>3, <4>1
    <3> QED
      BY <3>1, <3>4, WalkMeets DEF n
  <2> QED
    BY <2>2, <2>3 DEF Walked
<1> QED
  BY <1>3, <1>4

\* The average of avg_in_window is that of the window, in every state of the invariants:
\* distance from the newest is a renaming of the samples (stats.c 100-120).
LEMMA AverageOf ==
    ASSUME TypeOK, CountInv, RingInv PROVE AverageIsOfWindow
<1> SUFFICES ASSUME NEW p \in Peer
    PROVE  /\ MapThenSumSet(LAMBDA i : sampleRing[p][Back(p, i)].rtt, Walked(p))
                = MapThenSumSet(LAMBDA k : samples[p][k].rtt, RecentSamples(p))
           /\ Cardinality(Walked(p)) = Cardinality(RecentSamples(p))
  BY DEF AverageIsOfWindow, AvgInWindow
<1> DEFINE n == Len(samples[p])
           W == Walked(p)
           R == RecentSamples(p)
           f == [i \in W |-> sampleRing[p][Back(p, i)].rtt]
           g == [k \in R |-> samples[p][k].rtt]
           b == [i \in W |-> n - i]
<1>1. n \in Nat /\ samples[p] \in Seq(Sample) /\ DOMAIN samples[p] = 1..n /\ ringCount[p] \in Nat
  BY DEF TypeOK
<1>2. W \in SUBSET (0..ringCount[p] - 1) /\ R \in SUBSET (1..n)
  BY <1>1 DEF Walked, RecentSamples
<1>3. IsFiniteSet(W) /\ IsFiniteSet(R)
  <2>1. ringCount[p] - 1 \in Int
    BY <1>1
  <2>2. IsFiniteSet(0..ringCount[p] - 1) /\ IsFiniteSet(1..n)
    <3> HIDE DEF n
    <3>1. 0 \in Int /\ 1 \in Int /\ n \in Int
      BY <1>1
    <3> QED
      BY <2>1, <3>1, FS_Interval
  <2> QED
    BY <1>2, <2>2, FS_Subset
<1>4. \A i \in W : i \in Int /\ n - i \in R /\ b[i] = n - i
  BY <1>2, WalkedAreRecent
<1>5. b \in [W -> R]
  BY <1>4
<1>6. \A x, y \in W : b[x] = b[y] => x = y
  BY <1>1, <1>4
<1>7. \A k \in R : \E i \in W : b[i] = k
  <2> SUFFICES ASSUME NEW k \in R PROVE \E i \in W : b[i] = k
    OBVIOUS
  <2>1. n - k \in W /\ k \in Int /\ n - (n - k) = k
    BY <1>1, <1>2, WalkedAreRecent
  <2> QED
    BY <1>4, <2>1
<1>8. \A i \in W : sampleRing[p][Back(p, i)].rtt \in Int /\ f[i] = g[b[i]]
  <2> SUFFICES ASSUME NEW i \in W
      PROVE  sampleRing[p][Back(p, i)].rtt \in Int /\ f[i] = g[b[i]]
    OBVIOUS
  <2>1. sampleRing[p][Back(p, i)] = samples[p][n - i]
    BY <1>2, WalkMeets
  <2>2. sampleRing[p][Back(p, i)].rtt \in Int
    <3>1. Back(p, i) \in Slots
      BY <1>4, BackInRing
    <3>2. sampleRing[p][Back(p, i)] \in Sample
      BY <3>1 DEF TypeOK
    <3> QED
      BY <3>2 DEF Sample, Times
  <2> QED
    BY <1>4, <2>1, <2>2
<1>9. \A k \in R : samples[p][k].rtt \in Int
  <2>1. \A k \in 1..n : samples[p][k] \in Sample
    BY <1>1
  <2> QED
    BY <1>2, <2>1 DEF Sample, Times
<1>10. g \in [R -> Int]
  BY <1>9
<1>11. PICK k : IsSum(k, g, R)
  <2> HIDE DEF g, R
  <2> QED
    BY <1>3, <1>10, SumExists
<1>12. PICK h : IsSum(h, f, W) /\ h[W] = k[R]
  <2> HIDE DEF f, g, b, W, R
  <2> QED
    BY <1>5, <1>6, <1>7, <1>8, <1>11, SumMoved
<1>13. MapThenSumSet(LAMBDA i : sampleRing[p][Back(p, i)].rtt, Walked(p)) = h[W]
  <2>1. \A i \in W : sampleRing[p][Back(p, i)].rtt \in Int
    BY <1>8
  <2>2. IsSum(h, f, W)
    BY <1>12
  <2> QED
    BY <1>3, <2>1, <2>2, Fold
<1>14. MapThenSumSet(LAMBDA i : samples[p][i].rtt, RecentSamples(p)) = k[R]
  BY <1>3, <1>9, <1>11, FoldSamples
<1>15. Cardinality(W) = Cardinality(R)
  <2> HIDE DEF b, W, R
  <2>1. ExistsBijection(W, R)
    BY <1>5, <1>6, <1>7 DEF ExistsBijection, Bijection, Injection, Surjection, IsInjective
  <2> QED
    BY <1>3, <2>1, FS_Bijection
<1> QED
  BY <1>12, <1>13, <1>14, <1>15

-----------------------------------------------------------------------------
\* The invariants hold at the start (sense_stats_init).
LEMMA InvInit == Init => TypeOK /\ CountInv /\ ExactInv /\ RingInv
<1> SUFFICES ASSUME Init PROVE TypeOK /\ CountInv /\ ExactInv /\ RingInv
  OBVIOUS
<1>1. \A p \in Peer : Unanswered(p) = {} /\ Cardinality(Unanswered(p)) = 0
  BY FS_EmptySet DEF Init, Unanswered
<1>2. TypeOK
  <2>1. 0 \in Times /\ 1 \in Times /\ 0 \in Slots /\ 0 \in 0..MaxSamples /\ 0 \in 0..Word - 1
    BY DEF Times, Slots
  <2>2. sampleRing \in [Peer -> [Slots -> Sample]]
    BY <2>1 DEF Init, ZeroRing, Sample
  <2>3. samples \in [Peer -> Seq(Sample)]
    BY DEF Init
  <2>4. /\ pingSent \in [Peer -> 0..Word - 1] /\ pongRecv \in [Peer -> 0..Word - 1]
        /\ lossCount \in [Peer -> 0..Word - 1] /\ ringHead \in [Peer -> Slots]
        /\ ringCount \in [Peer -> 0..MaxSamples]
    BY <2>1 DEF Init, ZeroPeer
  <2>5. /\ pings \in [Peer -> SUBSET Times] /\ answered \in [Peer -> SUBSET Times]
    BY DEF Init
  <2>6. now \in Times /\ lastPing \in Times /\ restarts \in 0..MaxRestarts
    BY <2>1 DEF Init
  <2>7. net \subseteq Packet /\ duplicated \in BOOLEAN
    BY DEF Init
  <2> QED
    BY <2>2, <2>3, <2>4, <2>5, <2>6, <2>7 DEF TypeOK
<1>3. CountInv
  BY <1>1 DEF Init, CountInv, ZeroPeer
<1>4. ExactInv
  BY <1>1 DEF Init, ExactInv, ZeroPeer
<1>5. RingInv
  <2>1. \A q \in Peer : Len(samples[q]) = 0 /\ ringHead[q] = 0 /\ ringCount[q] = 0
    BY DEF Init, ZeroPeer
  <2>2. 0 % MaxSamples = 0 /\ 1..0 = {} /\ 0 < MaxSamples
    OBVIOUS
  <2> QED
    BY <2>1, <2>2 DEF RingInv
<1> QED
  BY <1>2, <1>3, <1>4, <1>5

\* Every reachable state satisfies the inductive invariants.
THEOREM InvCorrect == Spec => [](TypeOK /\ CountInv /\ ExactInv /\ RingInv)
<1>1. TypeOK /\ CountInv /\ ExactInv /\ RingInv /\ [Next]_vars
          => (TypeOK /\ CountInv /\ ExactInv /\ RingInv)'
  BY TypeNext, CountNext, ExactNext, RingNext
<1> QED
  BY InvInit, <1>1, PTL DEF Spec

\* The counters are words and the sample ring is written and walked inside its
\* bounds, whatever the network and restarts do.
THEOREM TypeCorrect == Spec => []TypeOK
BY InvCorrect, PTL

\* The loss count never exceeds the unanswered pings, whatever is lost, delayed,
\* reordered or duplicated, and however often the observer restarts.
THEOREM LossCorrect == Spec => []LossNotOverstated
<1>1. CountInv => LossNotOverstated
  BY DEF CountInv, LossNotOverstated
<1> QED
  BY InvCorrect, <1>1, PTL

\* Without duplicates and restarts the loss count is the number of unanswered pings.
THEOREM ExactCorrect == Spec => []LossIsUnanswered
<1>1. ExactInv => LossIsUnanswered
  BY DEF ExactInv, LossIsUnanswered
<1> QED
  BY InvCorrect, <1>1, PTL

\* The average that is published is of just the samples of the past window, as far as
\* the ring can hold them: the walk that stops at the first old sample misses none, and
\* a slot that is overwritten is not counted twice.
THEOREM AverageCorrect == Spec => []AverageIsOfWindow
<1>1. TypeOK /\ CountInv /\ RingInv => AverageIsOfWindow
  BY AverageOf
<1> QED
  BY InvCorrect, <1>1, PTL
=============================================================================
