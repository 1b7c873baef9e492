--------------------------- MODULE RaftElectionProofs ---------------------------
(***************************************************************************)
(* Theorems about RaftElection, for every set of nodes, every bound and    *)
(* every network.                                                          *)
(***************************************************************************)
EXTENDS RaftElection, FiniteSetTheorems, TLAPS

USE NodeAssumption, BoundAssumption, FlagAssumption

\* The packets of a broadcast (election.c 60-67).
LEMMA BroadcastPackets ==
    ASSUME NEW type \in {"VoteRequest", "VoteResponse", "Heartbeat"},
           NEW term \in Terms, NEW n \in Node,
           NEW m \in Broadcast(type, term, n)
    PROVE  /\ m \in Packet
           /\ m.type = type /\ m.term = term /\ m.src = n /\ m.dst # n
BY DEF Broadcast, Packet

\* A packet that is received was on the wire, and others stay or go (networking.c 126-157).
LEMMA ConsumedPackets ==
    ASSUME NEW m PROVE Consume(m) \subseteq net
BY DEF Consume

\* What TypeOK says of a packet on the wire and of its receiver.
LEMMA PacketFacts ==
    ASSUME TypeOK, NEW m \in net
    PROVE  /\ m.type \in {"VoteRequest", "VoteResponse", "Heartbeat"}
           /\ m.term \in Terms /\ m.src \in Node /\ m.dst \in Node
           /\ TermSeen(m) \in Terms
           /\ StateSeen(m) \in {"FOLLOWER", "CANDIDATE", "LEADER"}
           /\ VoteSeen(m) \in Node \cup {NoVote}
           /\ TermSeen(m) >= currentTerm[m.dst]
           /\ m.term <= TermSeen(m)
BY DEF TypeOK, Packet, Terms, TermSeen, StateSeen, VoteSeen, Newer

\* Every variable keeps its type (the fields of raft_node_t and the timers).
THEOREM TypeCorrect == Spec => []TypeOK
<1>1. Init => TypeOK
  BY DEF Init, TypeOK, Terms
<1>2. TypeOK /\ [Next]_vars => TypeOK'
  <2> SUFFICES ASSUME TypeOK, [Next]_vars PROVE TypeOK'
    OBVIOUS
  <2> USE DEF TypeOK, nodeVars, timerVars, history
  <2>1. ASSUME NEW n \in Node, Restart(n) PROVE TypeOK'
    BY <2>1 DEF Restart, Terms
  <2>2. ASSUME NEW n \in Node, ElectionTimeout(n) PROVE TypeOK'
    <3>1. currentTerm[n] + 1 \in Terms
      BY <2>2 DEF ElectionTimeout, Terms
    <3>2. Broadcast("VoteRequest", currentTerm[n] + 1, n) \subseteq Packet
      BY <3>1, BroadcastPackets
    <3> QED
      BY <2>2, <3>1, <3>2 DEF ElectionTimeout
  <2>3. ASSUME NEW n \in Node, FailTimeout(n) \/ RecoverTimeout(n) \/ WalkLoop(n)
        PROVE  TypeOK'
    BY <2>3 DEF FailTimeout, RecoverTimeout, WalkLoop
  <2>4. ASSUME NEW n \in Node, SendHeartbeat(n) PROVE TypeOK'
    <3>1. Broadcast("Heartbeat", currentTerm[n], n) \subseteq Packet
      BY BroadcastPackets
    <3> QED
      BY <2>4, <3>1 DEF SendHeartbeat
  <2>5. ASSUME NEW m \in net, DropWhileFailed(m) \/ IgnoreHeartbeat(m) \/ Lose(m)
        PROVE  TypeOK'
    BY <2>5, ConsumedPackets DEF DropWhileFailed, IgnoreHeartbeat, Lose
  <2>6. ASSUME NEW m \in net, GrantVote(m) PROVE TypeOK'
    <3>1. [type |-> "VoteResponse", term |-> TermSeen(m), src |-> m.dst, dst |-> m.src]
             \in Packet
      BY PacketFacts DEF Packet
    <3> QED
      BY <2>6, <3>1, PacketFacts, ConsumedPackets DEF GrantVote
  <2>7. ASSUME NEW m \in net, DenyVote(m) \/ IgnoreVoteResponse(m) PROVE TypeOK'
    <3>1. AdoptTerm(m) /\ net' = Consume(m)
      BY <2>7 DEF DenyVote, IgnoreVoteResponse
    <3>2. electionTimer' \in [Node -> BOOLEAN]
      BY <3>1 DEF AdoptTerm
    <3> QED
      BY <3>1, <3>2, PacketFacts, ConsumedPackets DEF AdoptTerm
  <2>8. ASSUME NEW m \in net, CountVote(m) PROVE TypeOK'
    BY <2>8, PacketFacts, ConsumedPackets DEF CountVote
  <2>9. ASSUME NEW m \in net, WinElection(m) PROVE TypeOK'
    <3>1. Broadcast("Heartbeat", currentTerm[m.dst], m.dst) \subseteq Packet
      BY PacketFacts, BroadcastPackets
    <3>2. Cardinality(Node) \in Nat
      BY FS_CardinalityType
    <3> QED
      BY <2>9, <3>1, <3>2, PacketFacts, ConsumedPackets DEF WinElection, ArmFailTimer
  <2>10. ASSUME NEW m \in net, AcceptHeartbeat(m) PROVE TypeOK'
    BY <2>10, PacketFacts, ConsumedPackets DEF AcceptHeartbeat, IsCurrent
  <2>11. CASE UNCHANGED vars
    BY <2>11 DEF vars
  <2> QED
    BY <2>1, <2>2, <2>3, <2>4, <2>5, <2>6, <2>7, <2>8, <2>9, <2>10, <2>11
       DEF Next, NodeStep, HandlePacket
<1> QED
  BY <1>1, <1>2, PTL DEF Spec

-----------------------------------------------------------------------------
\* The first packets, votes and leaders of ElectionInv: there are none (raft_init).
LEMMA ElectionInvInit == Init => ElectionInv
BY DEF Init, ElectionInv, ResponsesAreVotes, LeadersAreElected

\* A step of the packet handler or of a callback keeps ElectionInv.
LEMMA ElectionInvNext ==
    ASSUME TypeOK, ElectionInv, [Next]_vars PROVE ElectionInv'
<1> USE DEF ElectionInv, ResponsesAreVotes, LeadersAreElected,
            nodeVars, timerVars, history
<1>1. ASSUME NEW n \in Node, Restart(n) PROVE ElectionInv'
  BY <1>1 DEF Restart, TypeOK
<1>2. ASSUME NEW n \in Node, ElectionTimeout(n) PROVE ElectionInv'
  <2>1. currentTerm[n] + 1 \in Terms
    BY <1>2 DEF ElectionTimeout, TypeOK, Terms
  <2>2. \A m \in net' : m \in net \/ (m.type = "VoteRequest" /\ m.src # m.dst)
    BY <1>2, <2>1, BroadcastPackets DEF ElectionTimeout
  <2> QED
    BY <1>2, <2>2 DEF ElectionTimeout, TypeOK
<1>3. ASSUME NEW n \in Node, FailTimeout(n) \/ RecoverTimeout(n) \/ WalkLoop(n)
      PROVE  ElectionInv'
  BY <1>3 DEF FailTimeout, RecoverTimeout, WalkLoop
<1>4. ASSUME NEW n \in Node, SendHeartbeat(n) PROVE ElectionInv'
  <2>1. \A m \in net' : m \in net \/ (/\ m.type = "Heartbeat" /\ m.src # m.dst
                                     /\ m.src = n /\ m.term = currentTerm[n])
    BY <1>4, BroadcastPackets DEF SendHeartbeat, TypeOK
  <2> QED
    BY <1>4, <2>1 DEF SendHeartbeat
<1>5. ASSUME NEW m \in net, DropWhileFailed(m) \/ IgnoreHeartbeat(m) \/ Lose(m)
      PROVE  ElectionInv'
  BY <1>5, ConsumedPackets DEF DropWhileFailed, IgnoreHeartbeat, Lose
<1>6. ASSUME NEW m \in net, GrantVote(m) PROVE ElectionInv'
  <2>1. \A k \in net' : k \in net \/ (/\ k.type = "VoteResponse"
                                     /\ k.src = m.dst /\ k.dst = m.src
                                     /\ k.term = TermSeen(m))
    BY <1>6, ConsumedPackets DEF GrantVote
  <2> QED
    BY <1>6, <2>1, PacketFacts DEF GrantVote, TypeOK
<1>7. ASSUME NEW m \in net, DenyVote(m) \/ IgnoreVoteResponse(m) PROVE ElectionInv'
  <2>1. AdoptTerm(m) /\ net' \subseteq net
    BY <1>7, ConsumedPackets DEF DenyVote, IgnoreVoteResponse
  <2>2. \A n \in Node : state'[n] # "FOLLOWER" =>
            state'[n] = state[n] /\ currentTerm'[n] = currentTerm[n]
    BY <2>1, PacketFacts DEF AdoptTerm, TermSeen, StateSeen, TypeOK
  <2>3. votes' = votes /\ elected' = elected
    BY <2>1 DEF AdoptTerm
  <2>4. (\A n \in Node : state[n] = "CANDIDATE" => <<n, currentTerm[n], n>> \in votes)'
    BY <2>2, <2>3
  <2>5. LeadersAreElected'
    BY <2>1, <2>2, <2>3
  <2>6. (\A k \in net : k.src # k.dst)' /\ ResponsesAreVotes'
    BY <2>1, <2>3
  <2>7. (\A e \in elected : /\ <<e[1], e[2], e[1]>> \in votes
                            /\ \E v \in Node \ {e[1]} : <<v, e[2], e[1]>> \in votes)'
    BY <2>3
  <2> QED
    BY <2>4, <2>5, <2>6, <2>7
<1>8. ASSUME NEW m \in net, CountVote(m) PROVE ElectionInv'
  BY <1>8, ConsumedPackets DEF CountVote
<1>9. ASSUME NEW m \in net, WinElection(m) PROVE ElectionInv'
  <2>1. \A k \in net' : k \in net \/ (/\ k.type = "Heartbeat" /\ k.src # k.dst
                                     /\ k.src = m.dst /\ k.term = currentTerm[m.dst])
    BY <1>9, PacketFacts, ConsumedPackets, BroadcastPackets DEF WinElection, TypeOK
  <2>2. state[m.dst] = "CANDIDATE" /\ m.term = currentTerm[m.dst]
        /\ m.type = "VoteResponse"
    BY <1>9, PacketFacts DEF WinElection, Counts, StateSeen, TermSeen
  <2>3. /\ <<m.dst, currentTerm[m.dst], m.dst>> \in votes
        /\ <<m.src, currentTerm[m.dst], m.dst>> \in votes
        /\ m.src \in Node \ {m.dst}
    BY <2>2, PacketFacts
  <2>4. /\ votes' = votes /\ currentTerm' = currentTerm
        /\ elected' = elected \cup {<<m.dst, currentTerm[m.dst]>>}
        /\ state' = [state EXCEPT ![m.dst] = "LEADER"]
    BY <1>9 DEF WinElection
  <2>5. (\A k \in net : k.src # k.dst)' /\ ResponsesAreVotes'
    BY <2>1, <2>4
  <2>6. (\A n \in Node : state[n] = "CANDIDATE" => <<n, currentTerm[n], n>> \in votes)'
    BY <2>4 DEF TypeOK
  <2>7. (\A e \in elected : /\ <<e[1], e[2], e[1]>> \in votes
                            /\ \E v \in Node \ {e[1]} : <<v, e[2], e[1]>> \in votes)'
    <3> SUFFICES ASSUME NEW e \in elected'
                 PROVE  /\ <<e[1], e[2], e[1]>> \in votes
                        /\ \E v \in Node \ {e[1]} : <<v, e[2], e[1]>> \in votes
      BY <2>4
    <3>1. CASE e \in elected
      BY <3>1
    <3>2. CASE e = <<m.dst, currentTerm[m.dst]>>
      <4>1. e[1] = m.dst /\ e[2] = currentTerm[m.dst]
        BY <3>2
      <4> QED
        BY <2>3, <4>1
    <3> QED
      BY <2>4, <3>1, <3>2
  <2>8. LeadersAreElected'
    BY <2>1, <2>4 DEF TypeOK
  <2> QED
    BY <2>5, <2>6, <2>7, <2>8
<1>10. ASSUME NEW m \in net, AcceptHeartbeat(m) PROVE ElectionInv'
  BY <1>10, PacketFacts, ConsumedPackets DEF AcceptHeartbeat, IsCurrent, TypeOK
<1>11. CASE UNCHANGED vars
  BY <1>11 DEF vars
<1> QED
  BY <1>1, <1>2, <1>3, <1>4, <1>5, <1>6, <1>7, <1>8, <1>9, <1>10, <1>11
     DEF Next, NodeStep, HandlePacket

\* A leader has its own vote and another node's, and heartbeats are sent by elected
\* leaders only, however often nodes restart.
THEOREM ElectionCorrect == Spec => []ElectionInv
<1>1. TypeOK /\ ElectionInv /\ [Next]_vars => ElectionInv'
  BY ElectionInvNext
<1> QED
  BY <1>1, ElectionInvInit, TypeCorrect, PTL DEF Spec

\* Whoever leads, or is heard as a leader, has won the election of that term.
THEOREM LeadersCorrect == Spec => []LeadersAreElected
<1>1. ElectionInv => LeadersAreElected
  BY DEF ElectionInv
<1> QED
  BY <1>1, ElectionCorrect, PTL

-----------------------------------------------------------------------------
(* Where terms come from.                                                  *)

\* Of the votes cast, one is a candidate's that began term t: start_election raises
\* current_term and votes for the node itself (election.c 82-90).
Started(t, cast) == t = 0 \/ \E c \in Node : <<c, t, c>> \in cast

TermsAreStarted ==
    /\ \A n \in Node : Started(currentTerm[n], votes)
    /\ \A m \in net : Started(m.term, votes)

\* Where a node's term, and a packet's term, of the next state come from.
LEMMA TermStep ==
    ASSUME TypeOK, [Next]_vars
    PROVE  /\ votes \subseteq votes'
           /\ \A n \in Node : \/ currentTerm'[n] \in {0, currentTerm[n]}
                              \/ \E m \in net : currentTerm'[n] = m.term
                              \/ <<n, currentTerm'[n], n>> \in votes'
           /\ \A m \in net' : \/ m \in net
                              \/ \E n \in Node : m.term = currentTerm'[n]
<1> DEFINE Claim ==
             /\ votes \subseteq votes'
             /\ \A n \in Node : \/ currentTerm'[n] \in {0, currentTerm[n]}
                                \/ \E m \in net : currentTerm'[n] = m.term
                                \/ <<n, currentTerm'[n], n>> \in votes'
             /\ \A m \in net' : m \in net \/ \E n \in Node : m.term = currentTerm'[n]
<1> USE DEF TypeOK, nodeVars, timerVars, history
<1>1. ASSUME NEW n \in Node, Restart(n) PROVE Claim
  BY <1>1 DEF Restart
<1>2. ASSUME NEW n \in Node, ElectionTimeout(n) PROVE Claim
  <2>1. currentTerm[n] + 1 \in Terms
    BY <1>2 DEF ElectionTimeout, Terms
  <2>2. \A m \in net' : m \in net \/ m.term = currentTerm[n] + 1
    BY <1>2, <2>1, BroadcastPackets DEF ElectionTimeout
  <2>3. currentTerm' = [currentTerm EXCEPT ![n] = currentTerm[n] + 1]
        /\ votes' = votes \cup {<<n, currentTerm[n] + 1, n>>}
    BY <1>2 DEF ElectionTimeout
  <2>4. currentTerm'[n] = currentTerm[n] + 1
    BY <2>3
  <2>5. \A k \in Node \ {n} : currentTerm'[k] = currentTerm[k]
    BY <2>3
  <2>6. <<n, currentTerm'[n], n>> \in votes'
    BY <2>3, <2>4
  <2>7. votes \subseteq votes'
    BY <2>3
  <2>8. \A k \in Node : currentTerm'[k] = currentTerm[k] \/ <<k, currentTerm'[k], k>> \in votes'
    BY <2>5, <2>6
  <2>9. \A m \in net' : m \in net \/ m.term = currentTerm'[n]
    BY <2>2, <2>4
  <2> QED
    BY <2>7, <2>8, <2>9
<1>3. ASSUME NEW n \in Node, FailTimeout(n) \/ RecoverTimeout(n) \/ WalkLoop(n) PROVE Claim
  BY <1>3 DEF FailTimeout, RecoverTimeout, WalkLoop
<1>4. ASSUME NEW n \in Node, SendHeartbeat(n) PROVE Claim
  <2>1. \A m \in net' : m \in net \/ m.term = currentTerm[n]
    BY <1>4, BroadcastPackets DEF SendHeartbeat
  <2> QED
    BY <1>4, <2>1 DEF SendHeartbeat
<1>5. ASSUME NEW m \in net,
             \/ DropWhileFailed(m) \/ IgnoreHeartbeat(m) \/ Lose(m) \/ CountVote(m)
      PROVE  Claim
  BY <1>5, ConsumedPackets DEF DropWhileFailed, IgnoreHeartbeat, Lose, CountVote
<1>6. ASSUME NEW m \in net, currentTerm' = [currentTerm EXCEPT ![m.dst] = TermSeen(m)]
      PROVE  \A n \in Node : \/ currentTerm'[n] = currentTerm[n]
                             \/ currentTerm'[n] = m.term
  BY <1>6, PacketFacts DEF TermSeen
<1>7. ASSUME NEW m \in net, GrantVote(m) PROVE Claim
  <2>1. /\ votes \subseteq votes'
        /\ currentTerm' = [currentTerm EXCEPT ![m.dst] = TermSeen(m)]
    BY <1>7 DEF GrantVote
  <2>2. \A k \in net' : k \in net \/ k.term = TermSeen(m)
    BY <1>7, ConsumedPackets DEF GrantVote
  <2>3. m.dst \in Node /\ currentTerm'[m.dst] = TermSeen(m)
    BY <2>1, PacketFacts
  <2> QED
    BY <1>6, <2>1, <2>2, <2>3
<1>8. ASSUME NEW m \in net, DenyVote(m) \/ IgnoreVoteResponse(m) PROVE Claim
  BY <1>6, <1>8, ConsumedPackets DEF DenyVote, IgnoreVoteResponse, AdoptTerm
<1>9. ASSUME NEW m \in net, WinElection(m) PROVE Claim
  <2>1. \A k \in net' : k \in net \/ k.term = currentTerm[m.dst]
    BY <1>9, PacketFacts, ConsumedPackets, BroadcastPackets DEF WinElection
  <2> QED
    BY <1>9, <2>1, PacketFacts DEF WinElection
<1>10. ASSUME NEW m \in net, AcceptHeartbeat(m) PROVE Claim
  BY <1>10, PacketFacts, ConsumedPackets DEF AcceptHeartbeat, IsCurrent
<1>11. ASSUME UNCHANGED vars PROVE Claim
  BY <1>11 DEF vars
<1> HIDE DEF Claim, TypeOK, nodeVars, timerVars, history
<1>12. ASSUME NEW n \in Node, NodeStep(n) PROVE Claim
  BY <1>1, <1>2, <1>3, <1>4, <1>12 DEF NodeStep
<1>13. ASSUME NEW m \in net, HandlePacket(m) \/ Lose(m) PROVE Claim
  BY <1>5, <1>7, <1>8, <1>9, <1>10, <1>13 DEF HandlePacket
<1>14. Claim
  BY <1>11, <1>12, <1>13 DEF Next
<1> QED
  BY <1>14 DEF Claim

\* No node is ever in a term, and no packet carries one, that no election time-out
\* began, however nodes restart and packets are delayed or repeated: current_term
\* cannot run ahead of the time-outs (election.c 86, 107-109).
THEOREM TermsCorrect == Spec => []TermsAreStarted
<1>1. Init => TermsAreStarted
  BY DEF Init, TermsAreStarted, Started
<1>2. TypeOK /\ TermsAreStarted /\ [Next]_vars => TermsAreStarted'
  <2> SUFFICES ASSUME TypeOK, TermsAreStarted, [Next]_vars PROVE TermsAreStarted'
    OBVIOUS
  <2>1. votes \subseteq votes'
    BY TermStep
  <2>2. ASSUME NEW n \in Node PROVE Started(currentTerm'[n], votes')
    <3>1. \/ currentTerm'[n] \in {0, currentTerm[n]}
          \/ \E m \in net : currentTerm'[n] = m.term
          \/ <<n, currentTerm'[n], n>> \in votes'
      BY TermStep
    <3>2. CASE <<n, currentTerm'[n], n>> \in votes'
      BY <3>2 DEF Started
    <3>3. CASE currentTerm'[n] \in {0, currentTerm[n]}
      BY <2>1, <3>3 DEF TermsAreStarted, Started
    <3>4. CASE \E m \in net : currentTerm'[n] = m.term
      BY <2>1, <3>4 DEF TermsAreStarted, Started
    <3> QED
      BY <3>1, <3>2, <3>3, <3>4
  <2>3. ASSUME NEW m \in net' PROVE Started(m.term, votes')
    <3>1. CASE m \in net
      BY <2>1, <3>1 DEF TermsAreStarted, Started
    <3>2. CASE m \notin net
      <4>1. PICK n \in Node : m.term = currentTerm'[n]
        BY <3>2, TermStep
      <4> QED
        BY <2>2, <4>1
    <3> QED
      BY <3>1, <3>2
  <2> QED
    BY <2>2, <2>3 DEF TermsAreStarted
<1> QED
  BY <1>1, <1>2, TypeCorrect, PTL DEF Spec

-----------------------------------------------------------------------------
(* What needs the nodes' memory: no restarts.                              *)

\* The steps with no packet and no vote: nothing of MemoryInv or OneVotePerTerm is
\* touched; the state and the term of a node change together.
LEMMA MemoryKept ==
    ASSUME MemoryInv, OneVotePerTerm,
           votes' = votes, elected' = elected,
           \A n \in Node : \/ /\ currentTerm'[n] = currentTerm[n]
                             /\ votedFor'[n] = votedFor[n]
                          \/ currentTerm'[n] > currentTerm[n],
           \A n \in Node : state'[n] = "CANDIDATE" =>
                state[n] = "CANDIDATE" /\ currentTerm'[n] = currentTerm[n],
           TypeOK, TypeOK'
    PROVE  MemoryInv' /\ OneVotePerTerm'
<1>1. \A w \in votes : w[1] \in Node /\ w[2] \in Nat
  BY DEF TypeOK, Terms
<1>2. \A n \in Node : currentTerm[n] \in Nat /\ currentTerm'[n] \in Nat
  BY DEF TypeOK, Terms
<1>3. ASSUME NEW w \in votes
      PROVE  w[2] <= currentTerm'[w[1]] /\ (w[2] = currentTerm'[w[1]] => votedFor'[w[1]] = w[3])
  BY <1>1, <1>2, <1>3 DEF MemoryInv
<1> QED
  BY <1>3 DEF MemoryInv, OneVotePerTerm

\* A vote added in the voter's term, which is its vote of that term.
LEMMA MemoryOfNewVote ==
    ASSUME TypeOK, TypeOK', MemoryInv, OneVotePerTerm,
           NEW v \in Node, NEW c \in Node, NEW t \in Terms,
           votes' = votes \cup {<<v, t, c>>},
           elected' = elected,
           currentTerm' = [currentTerm EXCEPT ![v] = t],
           votedFor' = [votedFor EXCEPT ![v] = c],
           \/ t > currentTerm[v]
           \/ t = currentTerm[v] /\ votedFor[v] \in {NoVote, c},
           \A n \in Node : state'[n] = "CANDIDATE" =>
                <<n, currentTerm'[n]>> \notin elected
    PROVE  MemoryInv' /\ OneVotePerTerm'
<1>1. \A w \in votes : w[1] \in Node /\ w[2] \in Nat /\ w[3] \in Node
  BY DEF TypeOK, Terms
<1>2. \A n \in Node : currentTerm[n] \in Nat /\ currentTerm'[n] \in Nat
  BY DEF TypeOK, Terms
<1>3. t \in Nat
  BY DEF Terms
<1>4. currentTerm'[v] = t /\ votedFor'[v] = c
  BY DEF TypeOK
<1>5. \A n \in Node \ {v} : currentTerm'[n] = currentTerm[n] /\ votedFor'[n] = votedFor[n]
  BY DEF TypeOK
<1>6. \A d \in Node : <<v, t, d>> \in votes => d = c
  <2> SUFFICES ASSUME NEW d \in Node, <<v, t, d>> \in votes PROVE d = c
    OBVIOUS
  <2>1. t <= currentTerm[v] /\ (t = currentTerm[v] => votedFor[v] = d)
    BY DEF MemoryInv
  <2> QED
    BY <2>1, <1>2, <1>3
<1>7. OneVotePerTerm'
  BY <1>6 DEF OneVotePerTerm
<1>8. ASSUME NEW w \in votes'
      PROVE  w[2] <= currentTerm'[w[1]] /\ (w[2] = currentTerm'[w[1]] => votedFor'[w[1]] = w[3])
  <2>1. CASE w = <<v, t, c>>
    BY <2>1, <1>3, <1>4
  <2>2. CASE w \in votes /\ w[1] # v
    BY <2>2, <1>1, <1>5 DEF MemoryInv
  <2>3. CASE w \in votes /\ w[1] = v
    <3>1. w[2] <= currentTerm[v] /\ (w[2] = currentTerm[v] => votedFor[v] = w[3])
      BY <2>3 DEF MemoryInv
    <3>2. w[2] \in Nat /\ w[3] \in Node
      BY <2>3, <1>1
    <3> QED
      BY <2>3, <3>1, <3>2, <1>2, <1>3, <1>4
  <2> QED
    BY <1>8, <2>1, <2>2, <2>3
<1>9. (\A n \in Node : state[n] = "CANDIDATE" => <<n, currentTerm[n]>> \notin elected)'
  OBVIOUS
<1> QED
  BY <1>7, <1>8, <1>9 DEF MemoryInv

\* A step of the packet handler or of a callback keeps what the nodes remember, and
\* the one vote per term (election.c 107-123).
LEMMA MemoryNext ==
    ASSUME MaxRestarts = 0, TypeOK, TypeOK', ElectionInv, MemoryInv, OneVotePerTerm,
           [Next]_vars
    PROVE  MemoryInv' /\ OneVotePerTerm'
<1> USE DEF nodeVars, timerVars, history
<1>0. \A n \in Node : currentTerm[n] \in Nat
  BY DEF TypeOK, Terms
<1>1. ASSUME NEW n \in Node, Restart(n) PROVE FALSE
  BY <1>1 DEF Restart, TypeOK
<1>2. ASSUME NEW n \in Node, ElectionTimeout(n) PROVE MemoryInv' /\ OneVotePerTerm'
  <2> DEFINE t == currentTerm[n] + 1
  <2>1. /\ votes' = votes \cup {<<n, t, n>>} /\ elected' = elected
        /\ currentTerm' = [currentTerm EXCEPT ![n] = t]
        /\ votedFor' = [votedFor EXCEPT ![n] = n]
        /\ state' = [state EXCEPT ![n] = "CANDIDATE"]
    BY <1>2 DEF ElectionTimeout
  <2>2. t \in Terms /\ t > currentTerm[n]
    BY <1>0, <1>2 DEF ElectionTimeout, Terms
  <2>3. <<n, t>> \notin elected
    <3> SUFFICES ASSUME <<n, t>> \in elected PROVE FALSE
      OBVIOUS
    <3>1. <<n, t, n>> \in votes
      BY DEF ElectionInv
    <3>2. t <= currentTerm[n]
      BY <3>1 DEF MemoryInv
    <3> QED
      BY <3>2, <1>0
  <2>4. \A k \in Node : state'[k] = "CANDIDATE" => <<k, currentTerm'[k]>> \notin elected
    BY <2>1, <2>3 DEF MemoryInv, TypeOK
  <2> HIDE DEF t
  <2> QED
    BY <2>1, <2>2, <2>4, MemoryOfNewVote
<1>3. ASSUME NEW n \in Node,
             FailTimeout(n) \/ RecoverTimeout(n) \/ WalkLoop(n) \/ SendHeartbeat(n)
      PROVE  MemoryInv' /\ OneVotePerTerm'
  BY <1>3, MemoryKept DEF FailTimeout, RecoverTimeout, WalkLoop, SendHeartbeat
<1>4. ASSUME NEW m \in net,
             \/ DropWhileFailed(m) \/ IgnoreHeartbeat(m) \/ Lose(m) \/ CountVote(m)
      PROVE  MemoryInv' /\ OneVotePerTerm'
  BY <1>4, MemoryKept DEF DropWhileFailed, IgnoreHeartbeat, Lose, CountVote
<1>5. ASSUME NEW m \in net, GrantVote(m) PROVE MemoryInv' /\ OneVotePerTerm'
  <2>1. /\ votes' = votes \cup {<<m.dst, TermSeen(m), m.src>>} /\ elected' = elected
        /\ currentTerm' = [currentTerm EXCEPT ![m.dst] = TermSeen(m)]
        /\ votedFor' = [votedFor EXCEPT ![m.dst] = m.src]
        /\ state' = [state EXCEPT ![m.dst] = "FOLLOWER"]
    BY <1>5 DEF GrantVote
  <2>2. \/ TermSeen(m) > currentTerm[m.dst]
        \/ TermSeen(m) = currentTerm[m.dst] /\ votedFor[m.dst] \in {NoVote, m.src}
    BY <1>5 DEF GrantVote, CanGrant, VoteSeen, TermSeen, Newer
  <2>3. \A k \in Node : state'[k] = "CANDIDATE" => <<k, currentTerm'[k]>> \notin elected
    BY <2>1 DEF MemoryInv, TypeOK
  <2> QED
    BY <2>1, <2>2, <2>3, PacketFacts, MemoryOfNewVote
<1>6. ASSUME NEW m \in net, DenyVote(m) \/ IgnoreVoteResponse(m)
      PROVE  MemoryInv' /\ OneVotePerTerm'
  <2>1. AdoptTerm(m)
    BY <1>6 DEF DenyVote, IgnoreVoteResponse
  <2>2. \A n \in Node : \/ currentTerm'[n] = currentTerm[n] /\ votedFor'[n] = votedFor[n]
                        \/ currentTerm'[n] > currentTerm[n]
    BY <2>1, PacketFacts DEF AdoptTerm, TermSeen, VoteSeen, Newer, TypeOK
  <2>3. \A n \in Node : state'[n] = "CANDIDATE" =>
            state[n] = "CANDIDATE" /\ currentTerm'[n] = currentTerm[n]
    BY <2>1, PacketFacts DEF AdoptTerm, TermSeen, StateSeen, TypeOK
  <2>4. votes' = votes /\ elected' = elected
    BY <2>1 DEF AdoptTerm
  <2> QED
    BY <2>2, <2>3, <2>4, MemoryKept
<1>7. ASSUME NEW m \in net, WinElection(m) PROVE MemoryInv' /\ OneVotePerTerm'
  <2>1. /\ votes' = votes /\ currentTerm' = currentTerm /\ votedFor' = votedFor
        /\ elected' = elected \cup {<<m.dst, currentTerm[m.dst]>>}
        /\ state' = [state EXCEPT ![m.dst] = "LEADER"]
    BY <1>7 DEF WinElection
  <2>2. (\A n \in Node : state[n] = "CANDIDATE" => <<n, currentTerm[n]>> \notin elected)'
    BY <2>1, PacketFacts DEF MemoryInv, TypeOK
  <2> QED
    BY <2>1, <2>2 DEF MemoryInv, OneVotePerTerm
<1>8. ASSUME NEW m \in net, AcceptHeartbeat(m) PROVE MemoryInv' /\ OneVotePerTerm'
  <2>1. \A n \in Node : \/ currentTerm'[n] = currentTerm[n] /\ votedFor'[n] = votedFor[n]
                        \/ currentTerm'[n] > currentTerm[n]
    BY <1>8, PacketFacts DEF AcceptHeartbeat, IsCurrent, VoteSeen, Newer, TypeOK, Terms
  <2>2. \A n \in Node : state'[n] = "CANDIDATE" =>
            state[n] = "CANDIDATE" /\ currentTerm'[n] = currentTerm[n]
    BY <1>8, PacketFacts DEF AcceptHeartbeat, IsCurrent, TypeOK
  <2>3. votes' = votes /\ elected' = elected
    BY <1>8 DEF AcceptHeartbeat, IsCurrent
  <2> QED
    BY <2>1, <2>2, <2>3, MemoryKept
<1>9. CASE UNCHANGED vars
  BY <1>9 DEF vars, MemoryInv, OneVotePerTerm
<1> QED
  BY <1>1, <1>2, <1>3, <1>4, <1>5, <1>6, <1>7, <1>8, <1>9
     DEF Next, NodeStep, HandlePacket

\* Without restarts, the invariants of the whole state.
LEMMA AllInvariants ==
    MaxRestarts = 0 => (Spec => [](TypeOK /\ ElectionInv /\ MemoryInv /\ OneVotePerTerm))
<1> SUFFICES ASSUME MaxRestarts = 0
             PROVE  Spec => [](TypeOK /\ ElectionInv /\ MemoryInv /\ OneVotePerTerm)
  OBVIOUS
<1>1. Init => MemoryInv /\ OneVotePerTerm
  BY DEF Init, MemoryInv, OneVotePerTerm
<1>2. /\ TypeOK /\ TypeOK' /\ ElectionInv /\ MemoryInv /\ OneVotePerTerm
      /\ [Next]_vars
      => MemoryInv' /\ OneVotePerTerm'
  BY MemoryNext
<1> QED
  BY <1>1, <1>2, TypeCorrect, ElectionCorrect, PTL DEF Spec

\* Without restarts no node votes twice in a term, for any number of nodes and
\* however packets are delayed, repeated or lost.
THEOREM OneVoteCorrect == MaxRestarts = 0 => (Spec => []OneVotePerTerm)
BY AllInvariants, PTL

-----------------------------------------------------------------------------
(* What holds for any number of nodes: an elected node has its own vote    *)
(* and one more (its response may have been counted twice), and no node    *)
(* votes twice in a term, so that each leader costs the term another node. *)

\* The nodes that became leader of term t (election.c 146-148).
LeadersOf(t) == {n \in Node : <<n, t>> \in elected}

\* At most half of the nodes lead in one term.
AtMostHalfLead == \A t \in Terms : 2 * Cardinality(LeadersOf(t)) <= Cardinality(Node)

\* A leader of t has a voter that does not lead in t, who voted for no other node:
\* a leader has voted for itself (election.c 120-123).
LEMMA VoterOfLeader ==
    ASSUME TypeOK, ElectionInv, OneVotePerTerm, NEW t \in Terms
    PROVE  \E f : f \in Injection(LeadersOf(t), Node \ LeadersOf(t))
<1> DEFINE L == LeadersOf(t)
           voter(n) == CHOOSE v \in Node \ {n} : <<v, t, n>> \in votes
           f == [n \in L |-> voter(n)]
<1>1. ASSUME NEW n \in L
      PROVE  /\ n \in Node /\ <<n, t, n>> \in votes
             /\ voter(n) \in Node \ {n} /\ <<voter(n), t, n>> \in votes
  <2> DEFINE e == <<n, t>>
  <2>1. n \in Node /\ e \in elected /\ e[1] = n /\ e[2] = t
    BY DEF LeadersOf
  <2> HIDE DEF e
  <2>2. <<n, t, n>> \in votes /\ \E v \in Node \ {n} : <<v, t, n>> \in votes
    BY <2>1 DEF ElectionInv
  <2> QED
    BY <2>1, <2>2
<1> HIDE DEF voter
<1>2. ASSUME NEW n \in L PROVE voter(n) \in Node \ L
  <2> SUFFICES ASSUME voter(n) \in L PROVE FALSE
    BY <1>1
  <2>1. <<voter(n), t, voter(n)>> \in votes
    BY <1>1
  <2> QED
    BY <1>1, <2>1 DEF OneVotePerTerm
<1>3. ASSUME NEW n \in L, NEW m \in L, voter(n) = voter(m) PROVE n = m
  BY <1>1, <1>3 DEF OneVotePerTerm
<1>4. f \in Injection(L, Node \ L)
  <2>1. f \in [L -> Node \ L]
    BY <1>2
  <2>2. \A n, m \in L : f[n] = f[m] => n = m
    BY <1>3
  <2> HIDE DEF f
  <2> QED
    BY <2>1, <2>2 DEF Injection, IsInjective
<1> QED
  BY <1>4

\* A set that maps one to one to the rest of the nodes is at most half of them.
LEMMA HalfOfNodes ==
    ASSUME NEW L \in SUBSET Node, NEW f \in Injection(L, Node \ L)
    PROVE  2 * Cardinality(L) <= Cardinality(Node)
<1>1. /\ IsFiniteSet(L) /\ Cardinality(L) \in Nat /\ Cardinality(Node) \in Nat
      /\ IsFiniteSet(Node \ L)
  BY FS_Subset, FS_Difference, FS_CardinalityType
<1>2. Cardinality(Node \ L) = Cardinality(Node) - Cardinality(L)
  <2>1. Node \cap L = L
    OBVIOUS
  <2> QED
    BY <2>1, FS_Difference
<1>3. Cardinality(L) <= Cardinality(Node \ L)
  BY <1>1, FS_Injection
<1> QED
  BY <1>1, <1>2, <1>3

\* Never do more than half of the nodes become leader in one term, for any number of
\* nodes, however often a vote response is delivered and counted (election.c 143-146
\* keeps no record of who granted), as long as nodes do not restart.
THEOREM HalfCorrect == MaxRestarts = 0 => (Spec => []AtMostHalfLead)
<1>1. TypeOK /\ ElectionInv /\ OneVotePerTerm => AtMostHalfLead
  <2> SUFFICES ASSUME TypeOK, ElectionInv, OneVotePerTerm, NEW t \in Terms
               PROVE  2 * Cardinality(LeadersOf(t)) <= Cardinality(Node)
    BY DEF AtMostHalfLead
  <2>1. LeadersOf(t) \in SUBSET Node
    BY DEF LeadersOf
  <2> QED
    BY <2>1, VoterOfLeader, HalfOfNodes
<1> QED
  BY <1>1, AllInvariants, PTL

\* A cluster of one node, however often it restarts, never elects it: vote_granted is
\* compared with the majority only when a response arrives (election.c 143-146), and
\* broadcast_raft_packet leaves the node itself out.
THEOREM LoneNodeNeverLeads ==
    (\A n, m \in Node : n = m) =>
        (Spec => [](elected = {} /\ \A n \in Node : state[n] # "LEADER"))
<1> SUFFICES ASSUME \A n, m \in Node : n = m
             PROVE  Spec => [](elected = {} /\ \A n \in Node : state[n] # "LEADER")
  OBVIOUS
<1>1. TypeOK /\ ElectionInv => elected = {} /\ \A n \in Node : state[n] # "LEADER"
  <2> SUFFICES ASSUME TypeOK, ElectionInv
               PROVE  elected = {} /\ \A n \in Node : state[n] # "LEADER"
    OBVIOUS
  <2>1. elected = {}
    <3> SUFFICES ASSUME NEW e \in elected PROVE FALSE
      OBVIOUS
    <3>1. e[1] \in Node /\ \E v \in Node \ {e[1]} : <<v, e[2], e[1]>> \in votes
      BY DEF ElectionInv, TypeOK
    <3> QED
      BY <3>1
  <2> QED
    BY <2>1 DEF ElectionInv, LeadersAreElected
<1> QED
  BY <1>1, TypeCorrect, ElectionCorrect, PTL

-----------------------------------------------------------------------------
(* What needs a cluster of at most three nodes: there, any other node's    *)
(* vote makes a majority and a response counted twice can do no harm.      *)

\* A set with one more element.
LEMMA OneMore ==
    ASSUME NEW S, NEW T, NEW x, NEW k \in Nat,
           T = S \cup {x}, x \notin S, IsFiniteSet(S), Cardinality(S) = k
    PROVE  IsFiniteSet(T) /\ Cardinality(T) = k + 1
BY FS_AddElement

\* Three nodes at most: of four, two are the same.
LEMMA NoFourNodes ==
    ASSUME Cardinality(Node) <= 3,
           NEW a \in Node, NEW b \in Node, NEW c \in Node, NEW d \in Node,
           a # b, a # c, a # d, b # c, b # d, c # d
    PROVE  FALSE
<1>1. IsFiniteSet({a}) /\ Cardinality({a}) = 1
  BY FS_Singleton
<1>2. IsFiniteSet({a, b}) /\ Cardinality({a, b}) = 2
  <2>1. {a, b} = {a} \cup {b} /\ b \notin {a}
    OBVIOUS
  <2> QED
    BY <1>1, <2>1, OneMore
<1>3. IsFiniteSet({a, b, c}) /\ Cardinality({a, b, c}) = 3
  <2>1. {a, b, c} = {a, b} \cup {c} /\ c \notin {a, b}
    OBVIOUS
  <2> QED
    BY <1>2, <2>1, OneMore
<1>4. Cardinality({a, b, c, d}) = 4
  <2>1. {a, b, c, d} = {a, b, c} \cup {d} /\ d \notin {a, b, c}
    OBVIOUS
  <2> QED
    BY <1>3, <2>1, OneMore
<1>5. {a, b, c, d} \subseteq Node
  OBVIOUS
<1>6. Cardinality({a, b, c, d}) <= Cardinality(Node) /\ Cardinality(Node) \in Nat
  BY <1>5, FS_Subset, FS_CardinalityType
<1> QED
  BY <1>4, <1>6

\* Two nodes elected in one term would take four distinct nodes.
LEMMA OneWinner ==
    ASSUME Cardinality(Node) <= 3, OneVotePerTerm,
           NEW n \in Node, NEW m \in Node, NEW t \in Terms,
           NEW v \in Node, NEW w \in Node, v # n, w # m,
           <<n, t, n>> \in votes, <<m, t, m>> \in votes,
           <<v, t, n>> \in votes, <<w, t, m>> \in votes
    PROVE  n = m
<1> SUFFICES ASSUME n # m PROVE FALSE
  OBVIOUS
<1>1. v # m /\ w # n /\ v # w
  BY DEF OneVotePerTerm
<1> QED
  BY <1>1, NoFourNodes

\* The invariant that excludes two leaders of a term.
LEMMA InvImpliesSafety ==
    ASSUME Cardinality(Node) <= 3, ElectionInv, OneVotePerTerm
    PROVE  ElectionSafety
<1> SUFFICES ASSUME NEW n \in Node, NEW m \in Node, NEW t \in Terms,
                    <<n, t>> \in elected, <<m, t>> \in elected
             PROVE  n = m
  BY DEF ElectionSafety
<1>1. /\ <<n, t, n>> \in votes
      /\ \E v \in Node \ {n} : <<v, t, n>> \in votes
  <2> DEFINE e == <<n, t>>
  <2>1. e \in elected /\ e[1] = n /\ e[2] = t
    OBVIOUS
  <2> HIDE DEF e
  <2> QED
    BY <2>1 DEF ElectionInv
<1>2. /\ <<m, t, m>> \in votes
      /\ \E w \in Node \ {m} : <<w, t, m>> \in votes
  <2> DEFINE e == <<m, t>>
  <2>1. e \in elected /\ e[1] = m /\ e[2] = t
    OBVIOUS
  <2> HIDE DEF e
  <2> QED
    BY <2>1 DEF ElectionInv
<1> QED
  BY <1>1, <1>2, OneWinner

\* No term has two leaders, in a cluster of at most three nodes without restarts.
THEOREM SafetyCorrect ==
    MaxRestarts = 0 /\ Cardinality(Node) <= 3 => (Spec => []ElectionSafety)
<1> SUFFICES ASSUME MaxRestarts = 0, Cardinality(Node) <= 3
             PROVE  Spec => []ElectionSafety
  OBVIOUS
<1>1. ElectionInv /\ OneVotePerTerm => ElectionSafety
  BY InvImpliesSafety
<1> QED
  BY <1>1, AllInvariants, PTL

\* Its own vote and another one are more than half of three nodes.
LEMMA TwoVotesAreMajority ==
    ASSUME Cardinality(Node) <= 3, TypeOK, ElectionInv PROVE LeaderHasMajority
<1> SUFFICES ASSUME NEW e \in elected
             PROVE  2 * Cardinality({v \in Node : <<v, e[2], e[1]>> \in votes})
                       > Cardinality(Node)
  BY DEF LeaderHasMajority
<1> DEFINE voters == {v \in Node : <<v, e[2], e[1]>> \in votes}
<1>1. PICK v \in Node \ {e[1]} : <<v, e[2], e[1]>> \in votes
  BY DEF ElectionInv
<1>2. e[1] \in Node
  BY DEF TypeOK
<1>3. 2 * Cardinality(voters) > Cardinality(Node)
  <2>1. {v, e[1]} \subseteq voters
    BY <1>1, <1>2 DEF ElectionInv
  <2>2. Cardinality({v, e[1]}) = 2
    <3>1. {v, e[1]} = {v} \cup {e[1]} /\ e[1] \notin {v}
      BY <1>1
    <3>2. IsFiniteSet({v}) /\ Cardinality({v}) = 1
      BY FS_Singleton
    <3> QED
      BY <3>1, <3>2, OneMore
  <2>3. IsFiniteSet(voters) /\ Cardinality(voters) \in Nat /\ Cardinality(Node) \in Nat
    BY FS_Subset, FS_CardinalityType
  <2>4. Cardinality({v, e[1]}) <= Cardinality(voters)
    BY <2>1, <2>3, FS_Subset
  <2> QED
    BY <2>2, <2>3, <2>4
<1> QED
  BY <1>3

\* Every leader was elected by a majority, in a cluster of at most three nodes
\* and however often they restart.
THEOREM MajorityCorrect ==
    Cardinality(Node) <= 3 => (Spec => []LeaderHasMajority)
<1> SUFFICES ASSUME Cardinality(Node) <= 3 PROVE Spec => []LeaderHasMajority
  OBVIOUS
<1>1. TypeOK /\ ElectionInv => LeaderHasMajority
  BY TwoVotesAreMajority
<1> QED
  BY <1>1, TypeCorrect, ElectionCorrect, PTL

-----------------------------------------------------------------------------
(* Steps: how a lead begins and ends.                                      *)

\* What each step does to the term, the lead and the history of one node: it
\* changes nothing, moves to a later term, or takes the lead of its term.
LEMMA StepOfNode ==
    ASSUME MaxRestarts = 0, Cardinality(Node) <= 3, TypeOK, TypeOK',
           ElectionInv, MemoryInv, OneVotePerTerm, [Next]_vars
    PROVE  \/ UNCHANGED <<currentTerm, elected, Leading>>
           \/ \E n \in Node : TL!Advance(n) \/ TL!Lead(n)
<1> USE DEF nodeVars, timerVars, history
<1>0. \A n \in Node : currentTerm[n] \in Nat
  BY DEF TypeOK, Terms
<1>1. ASSUME NEW n \in Node, Restart(n) PROVE FALSE
  BY <1>1 DEF Restart, TypeOK
\* A node that moves to a later term does not lead there yet.
<1>2. ASSUME NEW n \in Node, NEW t \in Terms, t > currentTerm[n],
             currentTerm' = [currentTerm EXCEPT ![n] = t], elected' = elected,
             NEW s \in {"FOLLOWER", "CANDIDATE"}, state' = [state EXCEPT ![n] = s]
      PROVE  TL!Advance(n)
  <2>1. Leading' = Leading \ {n}
    BY <1>2 DEF Leading, TypeOK
  <2> QED
    BY <1>2, <2>1 DEF TL!Advance, Terms
\* A node that stays in its term and was not leading does not begin to.
<1>3. ASSUME NEW n \in Node, currentTerm' = currentTerm, elected' = elected,
             state[n] # "LEADER",
             NEW s \in {"FOLLOWER", "CANDIDATE"}, state' = [state EXCEPT ![n] = s]
      PROVE  UNCHANGED <<currentTerm, elected, Leading>>
  <2>1. Leading' = Leading
    BY <1>3 DEF Leading, TypeOK
  <2> QED
    BY <1>3, <2>1
<1>4. ASSUME NEW n \in Node, ElectionTimeout(n) PROVE TL!Advance(n)
  <2>1. currentTerm[n] + 1 \in Terms /\ currentTerm[n] + 1 > currentTerm[n]
    BY <1>0, <1>4 DEF ElectionTimeout, Terms
  <2> QED
    BY <1>2, <1>4, <2>1 DEF ElectionTimeout
<1>5. ASSUME NEW n \in Node,
             FailTimeout(n) \/ RecoverTimeout(n) \/ WalkLoop(n) \/ SendHeartbeat(n)
      PROVE  UNCHANGED <<currentTerm, elected, Leading>>
  BY <1>5 DEF FailTimeout, RecoverTimeout, WalkLoop, SendHeartbeat, Leading
<1>6. ASSUME NEW m \in net,
             \/ DropWhileFailed(m) \/ IgnoreHeartbeat(m) \/ Lose(m) \/ CountVote(m)
      PROVE  UNCHANGED <<currentTerm, elected, Leading>>
  BY <1>6 DEF DropWhileFailed, IgnoreHeartbeat, Lose, CountVote, Leading
<1>7. ASSUME NEW m \in net, GrantVote(m)
      PROVE  TL!Advance(m.dst) \/ UNCHANGED <<currentTerm, elected, Leading>>
  <2>1. CASE Newer(m)
    BY <1>2, <1>7, <2>1, PacketFacts DEF GrantVote, TermSeen, Newer
  <2>2. CASE ~Newer(m)
    <3>1. state[m.dst] = "FOLLOWER" /\ TermSeen(m) = currentTerm[m.dst]
      BY <1>7, <2>2 DEF GrantVote, CanGrant, StateSeen, TermSeen
    <3>2. currentTerm' = currentTerm
      BY <1>7, <3>1, PacketFacts DEF GrantVote, TypeOK
    <3> QED
      BY <1>3, <1>7, <3>1, <3>2, PacketFacts DEF GrantVote
  <2> QED
    BY <2>1, <2>2
<1>8. ASSUME NEW m \in net, DenyVote(m) \/ IgnoreVoteResponse(m)
      PROVE  TL!Advance(m.dst) \/ UNCHANGED <<currentTerm, elected, Leading>>
  <2>0. AdoptTerm(m)
    BY <1>8 DEF DenyVote, IgnoreVoteResponse
  <2>1. CASE Newer(m)
    BY <1>2, <2>0, <2>1, PacketFacts DEF AdoptTerm, TermSeen, StateSeen, Newer
  <2>2. CASE ~Newer(m)
    <3>1. currentTerm' = currentTerm /\ state' = state /\ elected' = elected
      BY <2>0, <2>2, PacketFacts DEF AdoptTerm, TermSeen, StateSeen, TypeOK
    <3> QED
      BY <3>1 DEF Leading
  <2> QED
    BY <2>1, <2>2
<1>9. ASSUME NEW m \in net, WinElection(m) PROVE TL!Lead(m.dst)
  <2> DEFINE n == m.dst
             t == currentTerm[n]
  <2>1. /\ state[n] = "CANDIDATE" /\ m.term = t /\ m.type = "VoteResponse"
        /\ n \in Node /\ t \in Terms /\ m.src \in Node
    BY <1>9, PacketFacts DEF WinElection, Counts, StateSeen, TermSeen, TypeOK
  <2>2. <<n, t, n>> \in votes /\ <<m.src, t, n>> \in votes /\ m.src # n
    BY <2>1 DEF ElectionInv, ResponsesAreVotes
  <2>3. \A k \in Node : <<k, t>> \notin elected
    <3> SUFFICES ASSUME NEW k \in Node, <<k, t>> \in elected PROVE FALSE
      OBVIOUS
    <3>1. <<k, t, k>> \in votes /\ \E w \in Node \ {k} : <<w, t, k>> \in votes
      <4> DEFINE e == <<k, t>>
      <4>1. e \in elected /\ e[1] = k /\ e[2] = t
        OBVIOUS
      <4> HIDE DEF e
      <4> QED
        BY <4>1 DEF ElectionInv
    <3>2. n = k
      BY <2>1, <2>2, <3>1, OneWinner
    <3> QED
      BY <2>1, <3>2 DEF MemoryInv
  <2>4. Leading' = Leading \cup {n}
    BY <1>9, <2>1 DEF WinElection, Leading, TypeOK
  <2> QED
    BY <1>9, <2>3, <2>4 DEF WinElection, TL!Lead
<1>10. ASSUME NEW m \in net, AcceptHeartbeat(m)
       PROVE  TL!Advance(m.dst) \/ UNCHANGED <<currentTerm, elected, Leading>>
  <2>1. CASE m.term > currentTerm[m.dst]
    BY <1>2, <1>10, <2>1, PacketFacts DEF AcceptHeartbeat, IsCurrent
  <2>2. CASE m.term = currentTerm[m.dst]
    <3>1. currentTerm' = currentTerm
      BY <1>10, <2>2, PacketFacts DEF AcceptHeartbeat, IsCurrent, TypeOK
    <3>2. state[m.dst] # "LEADER"
      <4> SUFFICES ASSUME state[m.dst] = "LEADER" PROVE FALSE
        OBVIOUS
      <4>1. <<m.dst, m.term>> \in elected /\ <<m.src, m.term>> \in elected
            /\ m.src # m.dst
        BY <1>10, <2>2, PacketFacts DEF AcceptHeartbeat, IsCurrent, ElectionInv, LeadersAreElected
      <4> QED
        BY <4>1, PacketFacts, InvImpliesSafety DEF ElectionSafety
    <3> QED
      BY <1>3, <1>10, <3>1, <3>2, PacketFacts DEF AcceptHeartbeat, IsCurrent
  <2>3. m.term \in Nat /\ m.dst \in Node /\ m.term >= currentTerm[m.dst]
    BY <1>10, PacketFacts DEF AcceptHeartbeat, IsCurrent, Terms
  <2> QED
    BY <1>0, <2>1, <2>2, <2>3
<1>11. CASE UNCHANGED vars
  BY <1>11 DEF vars, Leading
<1>12. \A m \in net : m.dst \in Node
  BY PacketFacts
<1> QED
  BY <1>1, <1>4, <1>5, <1>6, <1>7, <1>8, <1>9, <1>10, <1>11, <1>12
     DEF Next, NodeStep, HandlePacket

\* The cluster does what TermLeaders promises: one leader per term, that leads until
\* it moves to a later term (three nodes at most, no restarts).
THEOREM Implementation ==
    MaxRestarts = 0 /\ Cardinality(Node) <= 3 => (Spec => ImplementsTermLeaders)
<1> SUFFICES ASSUME MaxRestarts = 0, Cardinality(Node) <= 3
             PROVE  Spec => TL!Spec
  BY DEF ImplementsTermLeaders
<1>1. Init => TL!Init
  BY DEF Init, TL!Init, Leading
<1>2. /\ TypeOK /\ TypeOK' /\ ElectionInv /\ MemoryInv /\ OneVotePerTerm
      /\ [Next]_vars
      => [TL!Next]_(TL!tlVars)
  BY StepOfNode DEF TL!Next, TL!tlVars
<1> QED
  BY <1>1, <1>2, AllInvariants, PTL DEF Spec, TL!Spec

\* A leader steps down only for a later term, in such a cluster.
THEOREM DeposedCorrect ==
    MaxRestarts = 0 /\ Cardinality(Node) <= 3 => (Spec => DeposedByLaterTerm)
<1> SUFFICES ASSUME MaxRestarts = 0, Cardinality(Node) <= 3
             PROVE  Spec => DeposedByLaterTerm
  OBVIOUS
<1> DEFINE Step == \A n \in Node : state[n] = "LEADER" /\ state'[n] # "LEADER"
                                      => currentTerm'[n] > currentTerm[n]
<1>1. /\ TypeOK /\ TypeOK' /\ ElectionInv /\ MemoryInv /\ OneVotePerTerm
      /\ [Next]_vars
      => Step
  <2> SUFFICES ASSUME TypeOK, TypeOK', ElectionInv, MemoryInv, OneVotePerTerm,
                      [Next]_vars,
                      NEW n \in Node, n \in Leading, n \notin Leading'
               PROVE  currentTerm'[n] > currentTerm[n]
    BY DEF Leading
  <2>1. PICK k \in Node : TL!Advance(k) \/ TL!Lead(k)
    BY StepOfNode
  <2>2. k = n /\ TL!Advance(n)
    BY <2>1 DEF TL!Advance, TL!Lead
  <2> QED
    BY <2>2 DEF TL!Advance, TypeOK
<1>2. Step => [Step]_vars
  OBVIOUS
<1> HIDE DEF Step
<1>3. TypeOK /\ TypeOK' /\ ElectionInv /\ MemoryInv /\ OneVotePerTerm /\ [Next]_vars
      => [Step]_vars
  BY <1>1
<1>4. Spec => [][Step]_vars
  BY <1>3, AllInvariants, PTL DEF Spec
<1> QED
  BY <1>4 DEF DeposedByLaterTerm, Step

-----------------------------------------------------------------------------
\* Every node that is not leading keeps an armed election timer, and every node that
\* plays dead an armed recovery, in every step of every cluster.
THEOREM TimersCorrect == Spec => []TimersMatchState
<1>1. Init => TimersMatchState
  BY DEF Init, TimersMatchState
<1>2. TypeOK /\ TimersMatchState /\ [Next]_vars => TimersMatchState'
  <2> SUFFICES ASSUME TypeOK, TimersMatchState, [Next]_vars,
                      NEW n \in Node
               PROVE  (/\ electionTimer[n] <=> state[n] # "LEADER"
                       /\ recoverTimer[n] <=> failed[n]
                       /\ failTimer[n] = "pending" => ~failed[n])'
    BY DEF TimersMatchState
  <2> USE DEF TypeOK, TimersMatchState, nodeVars, timerVars, history
  <2>1. ASSUME NEW k \in Node, NodeStep(k)
        PROVE  (/\ electionTimer[n] <=> state[n] # "LEADER"
                /\ recoverTimer[n] <=> failed[n]
                /\ failTimer[n] = "pending" => ~failed[n])'
    BY <2>1 DEF NodeStep, Restart, ElectionTimeout, FailTimeout, RecoverTimeout,
                WalkLoop, SendHeartbeat
  <2>2. ASSUME NEW m \in net,
               \/ DropWhileFailed(m) \/ IgnoreHeartbeat(m) \/ Lose(m)
               \/ CountVote(m) \/ AcceptHeartbeat(m) \/ GrantVote(m)
        PROVE  (/\ electionTimer[n] <=> state[n] # "LEADER"
                /\ recoverTimer[n] <=> failed[n]
                /\ failTimer[n] = "pending" => ~failed[n])'
    BY <2>2, PacketFacts DEF DropWhileFailed, IgnoreHeartbeat, Lose, CountVote,
                             AcceptHeartbeat, IsCurrent, GrantVote
  <2>3. ASSUME NEW m \in net, DenyVote(m) \/ IgnoreVoteResponse(m)
        PROVE  (/\ electionTimer[n] <=> state[n] # "LEADER"
                /\ recoverTimer[n] <=> failed[n]
                /\ failTimer[n] = "pending" => ~failed[n])'
    <3>1. AdoptTerm(m)
      BY <2>3 DEF DenyVote, IgnoreVoteResponse
    <3> QED
      BY <3>1, PacketFacts DEF AdoptTerm, StateSeen
  <2>4. ASSUME NEW m \in net, WinElection(m)
        PROVE  (/\ electionTimer[n] <=> state[n] # "LEADER"
                /\ recoverTimer[n] <=> failed[n]
                /\ failTimer[n] = "pending" => ~failed[n])'
    BY <2>4, PacketFacts DEF WinElection, Handles, ArmFailTimer
  <2>5. CASE UNCHANGED vars
    BY <2>5 DEF vars
  <2> QED
    BY <2>1, <2>2, <2>3, <2>4, <2>5 DEF Next, HandlePacket
<1> QED
  BY <1>1, <1>2, TypeCorrect, PTL DEF Spec
=============================================================================
