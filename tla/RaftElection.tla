------------------------------ MODULE RaftElection ------------------------------
(***************************************************************************)
(* Leader election of the dpdk-raft application (app/raft, and app/raft-   *)
(* netelect, which differs from it only in how the port is opened).  A     *)
(* node is one process whose main lcore alternates between handling the    *)
(* received packets, running the expired timers and sending heartbeats     *)
(* (main.c lcore_main), so each handler, callback and heartbeat is one     *)
(* atomic step.  Nodes share nothing but the packets on the wire.          *)
(*                                                                         *)
(* The network keeps a set of packets.  Ethernet and UDP neither order nor *)
(* acknowledge anything: a packet is delivered at any later time or never; *)
(* Duplication says whether it may be delivered again, Loss whether a      *)
(* heartbeat may disappear in a step of its own (wanted by liveness only). *)
(***************************************************************************)
EXTENDS Naturals, FiniteSets

CONSTANTS
    Node,          \* the node ids 1..node_num of config.json
    NoVote,        \* voted_for = 0
    MaxTerm,       \* bound: no election is started beyond this term
    MaxRestarts,   \* bound: process restarts in a behaviour
    TestAutoFail,  \* config.json test_auto_fail
    Duplication,   \* the network may deliver a packet twice
    Loss           \* the network may drop a packet

ASSUME NodeAssumption == IsFiniteSet(Node) /\ NoVote \notin Node
ASSUME BoundAssumption == MaxTerm \in Nat /\ MaxRestarts \in Nat
ASSUME FlagAssumption ==
    TestAutoFail \in BOOLEAN /\ Duplication \in BOOLEAN /\ Loss \in BOOLEAN

VARIABLES
    currentTerm,    \* raft_node.current_term
    votedFor,       \* raft_node.voted_for
    voteGranted,    \* raft_node.vote_granted
    state,          \* raft_node.current_state
    electionTimer,  \* election_timer is in the timer list
    failTimer,      \* fail_timer: "off", "pending", or "looped" (see ArmFailTimer)
    recoverTimer,   \* recover_timer is in the timer list
    failed,         \* test_auto_fail_enabled
    hung,           \* the main lcore spins in the timer list and never returns
    net,            \* the packets on the wire
    restarts,       \* restarts so far
    votes,          \* history: <<v, t, c>> when v voted for c in term t
    elected         \* history: <<n, t>> when n became leader of term t

nodeVars  == <<currentTerm, votedFor, voteGranted, state>>
timerVars == <<electionTimer, failTimer, recoverTimer, failed, hung>>
history   == <<votes, elected>>
vars == <<nodeVars, timerVars, net, restarts, history>>

Terms == 0..MaxTerm
Packet == [type : {"VoteRequest", "VoteResponse", "Heartbeat"},
           term : Terms, src : Node, dst : Node]

TypeOK ==
    /\ currentTerm \in [Node -> Terms]
    /\ votedFor \in [Node -> Node \cup {NoVote}]
    /\ voteGranted \in [Node -> Nat]
    /\ state \in [Node -> {"FOLLOWER", "CANDIDATE", "LEADER"}]
    /\ electionTimer \in [Node -> BOOLEAN]
    /\ failTimer \in [Node -> {"off", "pending", "looped"}]
    /\ recoverTimer \in [Node -> BOOLEAN]
    /\ failed \in [Node -> BOOLEAN]
    /\ hung \in [Node -> BOOLEAN]
    /\ net \subseteq Packet
    /\ restarts \in 0..MaxRestarts
    /\ votes \subseteq Node \X Terms \X Node
    /\ elected \subseteq Node \X Terms

-----------------------------------------------------------------------------
(* The packets.                                                            *)

\* broadcast_raft_packet: one packet to every other node.
Broadcast(type, term, n) ==
    {[type |-> type, term |-> term, src |-> n, dst |-> p] : p \in Node \ {n}}

\* rte_eth_rx_burst takes the packet off the wire.
Consume(m) == IF Duplication THEN net ELSE net \ {m}

-----------------------------------------------------------------------------
(* raft_init.                                                              *)

Init ==
    /\ currentTerm = [n \in Node |-> 0]
    /\ votedFor = [n \in Node |-> NoVote]
    /\ voteGranted = [n \in Node |-> 0]
    /\ state = [n \in Node |-> "FOLLOWER"]
    /\ electionTimer = [n \in Node |-> TRUE]
    /\ failTimer = [n \in Node |-> "off"]
    /\ recoverTimer = [n \in Node |-> FALSE]
    /\ failed = [n \in Node |-> FALSE]
    /\ hung = [n \in Node |-> FALSE]
    /\ net = {}
    /\ restarts = 0
    /\ votes = {}
    /\ elected = {}

\* The process is killed (script/kill-leader.py) and started again: nothing
\* was saved, raft_init begins anew while old packets are still on the wire.
Restart(n) ==
    /\ restarts < MaxRestarts
    /\ restarts' = restarts + 1
    /\ currentTerm' = [currentTerm EXCEPT ![n] = 0]
    /\ votedFor' = [votedFor EXCEPT ![n] = NoVote]
    /\ voteGranted' = [voteGranted EXCEPT ![n] = 0]
    /\ state' = [state EXCEPT ![n] = "FOLLOWER"]
    /\ electionTimer' = [electionTimer EXCEPT ![n] = TRUE]
    /\ failTimer' = [failTimer EXCEPT ![n] = "off"]
    /\ recoverTimer' = [recoverTimer EXCEPT ![n] = FALSE]
    /\ failed' = [failed EXCEPT ![n] = FALSE]
    /\ hung' = [hung EXCEPT ![n] = FALSE]
    /\ UNCHANGED <<net, history>>

-----------------------------------------------------------------------------
(* The timer callbacks, run by rte_timer_manage.                           *)

\* start_election, from election_timeout_cb.  The callback does nothing for a
\* LEADER, whose election timer is stopped (TimersMatchState).  It does not look
\* at test_auto_fail_enabled.
ElectionTimeout(n) ==
    /\ ~hung[n]
    /\ electionTimer[n]
    /\ state[n] # "LEADER"
    /\ currentTerm[n] < MaxTerm
    /\ LET term == currentTerm[n] + 1
       IN  /\ currentTerm' = [currentTerm EXCEPT ![n] = term]
           /\ net' = net \cup Broadcast("VoteRequest", term, n)
           /\ votes' = votes \cup {<<n, term, n>>}
    /\ state' = [state EXCEPT ![n] = "CANDIDATE"]
    /\ votedFor' = [votedFor EXCEPT ![n] = n]
    /\ voteGranted' = [voteGranted EXCEPT ![n] = 1]
    /\ UNCHANGED <<timerVars, restarts, elected>>

\* fail_enable_cb: the node plays dead and arms its recovery.
FailTimeout(n) ==
    /\ ~hung[n]
    /\ failTimer[n] = "pending"
    /\ failTimer' = [failTimer EXCEPT ![n] = "off"]
    /\ failed' = [failed EXCEPT ![n] = TRUE]
    /\ recoverTimer' = [recoverTimer EXCEPT ![n] = TRUE]
    /\ UNCHANGED <<nodeVars, electionTimer, hung, net, restarts, history>>

\* fail_disable_cb.
RecoverTimeout(n) ==
    /\ ~hung[n]
    /\ recoverTimer[n]
    /\ recoverTimer' = [recoverTimer EXCEPT ![n] = FALSE]
    /\ failed' = [failed EXCEPT ![n] = FALSE]
    /\ UNCHANGED <<nodeVars, electionTimer, failTimer, hung, net, restarts, history>>

\* A walk of the timer list (by rte_timer_manage when fail_timer expires, or by a
\* restart of election_timer beyond it) meets the loop and never ends.
WalkLoop(n) ==
    /\ ~hung[n]
    /\ failTimer[n] = "looped"
    /\ hung' = [hung EXCEPT ![n] = TRUE]
    /\ UNCHANGED <<nodeVars, electionTimer, failTimer, recoverTimer, failed,
                   net, restarts, history>>

\* Mutants: a leader sends nothing after its first heartbeat; a node that stepped
\* down goes on sending.
SendHeartbeatNever(n) == FALSE /\ UNCHANGED vars

SendHeartbeatAlways(n) ==
    /\ currentTerm[n] > 0
    /\ net' = net \cup Broadcast("Heartbeat", currentTerm[n], n)
    /\ UNCHANGED <<nodeVars, timerVars, restarts, history>>

\* The leader's branch of lcore_main and raft_send_heartbeat.
SendHeartbeat(n) ==
    /\ ~hung[n]
    /\ state[n] = "LEADER"
    /\ ~failed[n]
    /\ net' = net \cup Broadcast("Heartbeat", currentTerm[n], n)
    /\ UNCHANGED <<nodeVars, timerVars, restarts, history>>

-----------------------------------------------------------------------------
(* raft_handle_packet.                                                     *)

\* What the switch sees: a packet of a later term has already moved the node to
\* that term, as a FOLLOWER that has not voted.
Newer(m) == m.term > currentTerm[m.dst]

\* Mutants: the term is taken one too high; the lead is not given up; the vote is
\* forgotten by a packet of the same term.
TermSeenPlusOne(m) == IF Newer(m) THEN m.term + 1 ELSE currentTerm[m.dst]
StateSeenKept(m) == state[m.dst]
VoteSeenForgotten(m) == IF m.term >= currentTerm[m.dst] THEN NoVote ELSE votedFor[m.dst]

TermSeen(m) == IF Newer(m) THEN m.term ELSE currentTerm[m.dst]
StateSeen(m) == IF Newer(m) THEN "FOLLOWER" ELSE state[m.dst]
VoteSeen(m) == IF Newer(m) THEN NoVote ELSE votedFor[m.dst]

\* Mutant: the node handles packets while it plays dead.
HandlesWhileFailed(m) == m \in net /\ ~hung[m.dst]

\* The node polls its queue and is not playing dead.
Handles(m) ==
    /\ m \in net
    /\ ~hung[m.dst]
    /\ ~failed[m.dst]

\* What the packet's term alone does when the switch does nothing more.
\* timeout_start_election: stop, init, reset.
AdoptTerm(m) ==
    /\ currentTerm' = [currentTerm EXCEPT ![m.dst] = TermSeen(m)]
    /\ state' = [state EXCEPT ![m.dst] = StateSeen(m)]
    /\ votedFor' = [votedFor EXCEPT ![m.dst] = VoteSeen(m)]
    /\ electionTimer' = IF Newer(m) THEN [electionTimer EXCEPT ![m.dst] = TRUE]
                                    ELSE electionTimer
    /\ UNCHANGED <<voteGranted, failTimer, recoverTimer, failed, hung,
                   restarts, history>>

\* The early return of a node that plays dead: the packet is freed unread.
DropWhileFailed(m) ==
    /\ m \in net
    /\ ~hung[m.dst]
    /\ failed[m.dst]
    /\ net' = Consume(m)
    /\ UNCHANGED <<nodeVars, timerVars, restarts, history>>

\* Mutant: voted_for is not looked at.
CanGrantTwice(m) == StateSeen(m) = "FOLLOWER"

\* MSG_VOTE_REQUEST: the condition of the grant.  The term of a stale request is
\* not compared; the response carries the voter's own term.
CanGrant(m) ==
    /\ StateSeen(m) = "FOLLOWER"
    /\ VoteSeen(m) \in {NoVote, m.src}

GrantVote(m) ==
    /\ Handles(m)
    /\ m.type = "VoteRequest"
    /\ CanGrant(m)
    /\ LET term == TermSeen(m)
       IN  /\ currentTerm' = [currentTerm EXCEPT ![m.dst] = term]
           /\ votes' = votes \cup {<<m.dst, term, m.src>>}
           /\ net' = Consume(m) \cup {[type |-> "VoteResponse", term |-> term,
                                       src |-> m.dst, dst |-> m.src]}
    /\ state' = [state EXCEPT ![m.dst] = "FOLLOWER"]
    /\ votedFor' = [votedFor EXCEPT ![m.dst] = m.src]
    /\ electionTimer' = [electionTimer EXCEPT ![m.dst] = TRUE]
    /\ UNCHANGED <<voteGranted, failTimer, recoverTimer, failed, hung,
                   restarts, elected>>

DenyVote(m) ==
    /\ Handles(m)
    /\ m.type = "VoteRequest"
    /\ ~CanGrant(m)
    /\ net' = Consume(m)
    /\ AdoptTerm(m)

\* Mutant: the response's term is not compared.
CountsAnyTerm(m) == m.type = "VoteResponse" /\ StateSeen(m) = "CANDIDATE"

\* MSG_VOTE_RESPONSE: the condition under which the response is tallied.  The
\* sender is not looked at: a second response of one voter counts again.
Counts(m) ==
    /\ m.type = "VoteResponse"
    /\ StateSeen(m) = "CANDIDATE"
    /\ m.term = TermSeen(m)

\* vote_granted > node_num / 2
Wins(count) == count > Cardinality(Node) \div 2

CountVote(m) ==
    /\ Handles(m)
    /\ Counts(m)
    /\ ~Wins(voteGranted[m.dst] + 1)
    /\ net' = Consume(m)
    /\ voteGranted' = [voteGranted EXCEPT ![m.dst] = @ + 1]
    /\ UNCHANGED <<currentTerm, votedFor, state, timerVars, restarts, history>>

\* rte_timer_init then rte_timer_reset of fail_timer.  The init forgets that the
\* timer is in the list, so the reset inserts it a second time, behind itself:
\* its sl_next is then the timer.  A third insertion walks that loop.
ArmFailTimer(n) ==
    /\ failTimer' = [failTimer EXCEPT ![n] =
                        IF ~TestAutoFail THEN "off"
                        ELSE IF @ = "off" THEN "pending" ELSE "looped"]
    /\ hung' = [hung EXCEPT ![n] = TestAutoFail /\ failTimer[n] = "looped"]

WinElection(m) ==
    /\ Handles(m)
    /\ Counts(m)
    /\ Wins(voteGranted[m.dst] + 1)
    /\ net' = Consume(m) \cup Broadcast("Heartbeat", currentTerm[m.dst], m.dst)
    /\ state' = [state EXCEPT ![m.dst] = "LEADER"]
    /\ voteGranted' = [voteGranted EXCEPT ![m.dst] =
                          IF @ + 1 > Cardinality(Node) THEN Cardinality(Node) ELSE @ + 1]
    /\ elected' = elected \cup {<<m.dst, currentTerm[m.dst]>>}
    /\ electionTimer' = [electionTimer EXCEPT ![m.dst] = FALSE]
    /\ ArmFailTimer(m.dst)
    /\ UNCHANGED <<currentTerm, votedFor, recoverTimer, failed, restarts, votes>>

IgnoreVoteResponse(m) ==
    /\ Handles(m)
    /\ m.type = "VoteResponse"
    /\ ~Counts(m)
    /\ net' = Consume(m)
    /\ AdoptTerm(m)

\* Mutant: a heartbeat of any term is obeyed.
IsCurrentAny(m) == m.type = "Heartbeat"

\* MSG_HEARTBEAT of the node's term or a later one.
IsCurrent(m) == m.type = "Heartbeat" /\ m.term >= currentTerm[m.dst]

\* The vote of the term is kept.
AcceptHeartbeat(m) ==
    /\ Handles(m)
    /\ IsCurrent(m)
    /\ net' = Consume(m)
    /\ currentTerm' = [currentTerm EXCEPT ![m.dst] = m.term]
    /\ state' = [state EXCEPT ![m.dst] = "FOLLOWER"]
    /\ votedFor' = [votedFor EXCEPT ![m.dst] = VoteSeen(m)]
    /\ electionTimer' = [electionTimer EXCEPT ![m.dst] = TRUE]
    /\ UNCHANGED <<voteGranted, failTimer, recoverTimer, failed, hung,
                   restarts, history>>

IgnoreHeartbeat(m) ==
    /\ Handles(m)
    /\ m.type = "Heartbeat"
    /\ ~IsCurrent(m)
    /\ net' = Consume(m)
    /\ UNCHANGED <<nodeVars, timerVars, restarts, history>>

\* A heartbeat is lost: no mbuf, a full transmit or receive queue, or the wire.  The
\* loss of another packet needs no step, as nothing forces its delivery.
Lose(m) ==
    /\ Loss
    /\ m \in net
    /\ m.type = "Heartbeat"
    /\ net' = net \ {m}
    /\ UNCHANGED <<nodeVars, timerVars, restarts, history>>

-----------------------------------------------------------------------------
HandlePacket(m) ==
    \/ DropWhileFailed(m)
    \/ GrantVote(m) \/ DenyVote(m)
    \/ CountVote(m) \/ WinElection(m) \/ IgnoreVoteResponse(m)
    \/ AcceptHeartbeat(m) \/ IgnoreHeartbeat(m)

NodeStep(n) ==
    \/ Restart(n)
    \/ ElectionTimeout(n) \/ FailTimeout(n) \/ RecoverTimeout(n)
    \/ WalkLoop(n)
    \/ SendHeartbeat(n)

Next ==
    \/ \E n \in Node : NodeStep(n)
    \/ \E m \in net : HandlePacket(m) \/ Lose(m)

Spec == Init /\ [][Next]_vars

\* A link that is used again and again delivers again and again: a deposed leader
\* that is polling its queue gets one of the heartbeats of the later term.
HearNewerLeader(n) == \E m \in net : m.dst = n /\ Newer(m) /\ AcceptHeartbeat(m)

\* lcore_main never stops sending heartbeats while it leads, nor polling.
Fairness == \A n \in Node : WF_vars(SendHeartbeat(n)) /\ SF_vars(HearNewerLeader(n))

LiveSpec == Spec /\ Fairness

-----------------------------------------------------------------------------
(* Properties.                                                             *)

\* A node promises at most one vote per term (voted_for, election.c 120-123),
\* whatever the number of nodes and however packets are delayed or repeated;
\* only a restart, which forgets voted_for, could break the promise.
OneVotePerTerm ==
    \A v, c, d \in Node, t \in Terms :
        <<v, t, c>> \in votes /\ <<v, t, d>> \in votes => c = d

\* A node becomes leader with the votes of more than half of the nodes, as RAFT.md
\* says of the tally (election.c 143-148).  The code counts responses, not
\* voters, so this is true of at most three nodes only.
LeaderHasMajority ==
    \A e \in elected :
        2 * Cardinality({v \in Node : <<v, e[2], e[1]>> \in votes}) > Cardinality(Node)

\* No term has two leaders (the tally at election.c 146).  Claimed for runs of at most
\* three nodes in which none restarts: from four nodes on two votes elect a leader, and
\* a restarted voter votes twice in a term.
ElectionSafety ==
    \A n, m \in Node, t \in Terms :
        <<n, t>> \in elected /\ <<m, t>> \in elected => n = m

\* Whoever acts as a leader, or whose heartbeat is on the wire, has won the
\* election of that very term (raft_send_heartbeat reads current_term when it
\* sends, election.c 195-200).
LeadersAreElected ==
    /\ \A n \in Node : state[n] = "LEADER" => <<n, currentTerm[n]>> \in elected
    /\ \A m \in net : m.type = "Heartbeat" => <<m.src, m.term>> \in elected

\* A vote response on the wire stands for a vote given in its term to its
\* receiver (election.c 129-134), so that no tally counts a vote of another term.
ResponsesAreVotes ==
    \A m \in net : m.type = "VoteResponse" => <<m.src, m.term, m.dst>> \in votes

\* A node that is not leading has its election timer armed, or it would never
\* again take part when the leader dies; a leader's is stopped.  A node playing
\* dead has its recovery armed, and no second failure (election.c 35-50, 162).
TimersMatchState ==
    \A n \in Node :
        /\ electionTimer[n] <=> state[n] # "LEADER"
        /\ recoverTimer[n] <=> failed[n]
        /\ failTimer[n] = "pending" => ~failed[n]

\* A leader steps down only for a later term: no heartbeat of its own term ever
\* reaches it from another node (election.c 177 accepts equal terms).  Claimed, like
\* ElectionSafety, for at most three nodes without restart.
DeposedByLaterTerm ==
    [][\A n \in Node : state[n] = "LEADER" /\ state'[n] # "LEADER"
                            => currentTerm'[n] > currentTerm[n]]_vars

\* Several nodes may lead at once, in different terms, but not for ever: heartbeats
\* of the later term reach the others, also those that played dead meanwhile
\* (election.c 107-116).
AtMostOneLeads ==
    Cardinality({n \in Node : state[n] = "LEADER" /\ ~failed[n] /\ ~hung[n]}) <= 1

StaleLeaderStepsDown == []<>AtMostOneLeads

\* The comment of lib/timer/rte_timer.c 388: a timer that is added to the list is
\* not in the list.
AddedTimerNotInList == \A n \in Node : failTimer[n] # "looped"

-----------------------------------------------------------------------------
(* The inductive invariants behind these properties.                       *)

\* What no number of restarts breaks, as none of it needs a node's memory: no node
\* talks to itself; a candidate has voted for itself; a leader was elected with
\* its own vote and that of another node (election.c 60-67, 87, 143-146).
ElectionInv ==
    /\ \A m \in net : m.src # m.dst
    /\ \A n \in Node : state[n] = "CANDIDATE" => <<n, currentTerm[n], n>> \in votes
    /\ \A e \in elected : /\ <<e[1], e[2], e[1]>> \in votes
                          /\ \E v \in Node \ {e[1]} : <<v, e[2], e[1]>> \in votes
    /\ ResponsesAreVotes
    /\ LeadersAreElected

\* What a node remembers as long as it is not restarted: it votes in no term later
\* than its own, voted_for is its vote of that term, and a candidate has not yet
\* led it (election.c 86-87, 107-111, 120-123).
MemoryInv ==
    /\ \A w \in votes : /\ w[2] <= currentTerm[w[1]]
                        /\ w[2] = currentTerm[w[1]] => votedFor[w[1]] = w[3]
    /\ \A n \in Node : state[n] = "CANDIDATE" => <<n, currentTerm[n]>> \notin elected

-----------------------------------------------------------------------------
(* What the cluster promises: TermLeaders.                                 *)

Leading == {n \in Node : state[n] = "LEADER"}

TL == INSTANCE TermLeaders WITH term <- currentTerm, leaders <- elected,
                                leading <- Leading
ImplementsTermLeaders == TL!Spec
=============================================================================
