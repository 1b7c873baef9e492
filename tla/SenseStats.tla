-------------------------------- MODULE SenseStats --------------------------------
(***************************************************************************)
(* Round-trip and loss accounting of the dpdk-sense application (app/      *)
(* sense).  One node, the observer, pings its peers once per interval; a   *)
(* peer, which runs the same process_rx, returns the time stamp in a pong. *)
(* The observer's main lcore keeps per peer the counters of the shared     *)
(* memzone (sense_stats_record_ping, sense_stats_update) and a ring of the *)
(* last samples (sense_samples_append), from which averages over a time    *)
(* window are computed (avg_in_window).  Only the main lcore writes them,  *)
(* so each of its handlers is one step; what the worker lcore reads        *)
(* meanwhile is the subject of SenseLcores.                                *)
(*                                                                         *)
(* Packets are kept in a set: they may be delayed, reordered, lost (never  *)
(* delivered) or delivered again.  A ping is known by the time of its      *)
(* sending, as the code knows it.                                          *)
(***************************************************************************)
EXTENDS Integers, FiniteSets, Sequences, FiniteSetsExt

CONSTANTS
    Peer,         \* the nodes pinged
    MaxSamples,   \* SENSE_MAX_SAMPLES, the size of the ring
    Window,       \* window_ms, in ticks
    Word,         \* 2^w for the unsigned width of the counters
    MaxTime,      \* bound: the clock stops there
    MaxRestarts,  \* bound: restarts of the observer
    MaxPongs      \* bound: the pongs of one peer that one process handles

ASSUME PeerAssumption == IsFiniteSet(Peer)
ASSUME SizeAssumption ==
    /\ MaxSamples \in Nat \ {0} /\ Window \in Nat
    /\ MaxTime \in Nat \ {0} /\ MaxRestarts \in Nat /\ MaxPongs \in Nat
    /\ Word \in Nat /\ Word > MaxTime + MaxPongs

VARIABLES
    now,         \* rte_get_tsc_cycles, in ticks of the ping interval
    lastPing,    \* last_ping_cycles of main
    net,         \* the packets on the wire
    pingSent,    \* entries[p].ping_sent
    pongRecv,    \* entries[p].pong_recv
    lossCount,   \* entries[p].loss_count
    sampleRing,  \* sample_ring[p]
    ringHead,    \* ring_head[p]
    ringCount,   \* ring_count[p]
    restarts,    \* restarts so far
    duplicated,  \* history: the network has delivered some packet and kept it
    pings,       \* history: pings[p], the times of this process's pings
    answered,    \* history: answered[p], those whose pong was handled
    samples      \* history: samples[p], every sample of this process

counters == <<pingSent, pongRecv, lossCount>>
ring     == <<sampleRing, ringHead, ringCount>>
history  == <<pings, answered, samples>>
vars == <<now, lastPing, net, duplicated, counters, ring, restarts, history>>

Times  == 0..MaxTime
Slots  == 0..MaxSamples - 1
Sample == [tsc : Times, rtt : Times]
Packet == [type : {"Ping", "Pong"}, peer : Peer, ts : Times]

TypeOK ==
    /\ now \in Times /\ lastPing \in Times
    /\ net \subseteq Packet /\ duplicated \in BOOLEAN
    /\ pingSent \in [Peer -> 0..Word - 1]
    /\ pongRecv \in [Peer -> 0..Word - 1]
    /\ lossCount \in [Peer -> 0..Word - 1]
    /\ sampleRing \in [Peer -> [Slots -> Sample]]
    /\ ringHead \in [Peer -> Slots]
    /\ ringCount \in [Peer -> 0..MaxSamples]
    /\ restarts \in 0..MaxRestarts
    /\ pings \in [Peer -> SUBSET Times]
    /\ answered \in [Peer -> SUBSET Times]
    /\ samples \in [Peer -> Seq(Sample)]

-----------------------------------------------------------------------------
(* sense_stats_init.                                                       *)

ZeroRing == [p \in Peer |-> [i \in Slots |-> [tsc |-> 0, rtt |-> 0]]]
ZeroPeer == [p \in Peer |-> 0]

Init ==
    /\ now = 1
    /\ lastPing = 1
    /\ net = {} /\ duplicated = FALSE
    /\ pingSent = ZeroPeer /\ pongRecv = ZeroPeer /\ lossCount = ZeroPeer
    /\ sampleRing = ZeroRing /\ ringHead = ZeroPeer /\ ringCount = ZeroPeer
    /\ restarts = 0
    /\ pings = [p \in Peer |-> {}]
    /\ answered = [p \in Peer |-> {}]
    /\ samples = [p \in Peer |-> <<>>]

\* A restarted process clears the memzone and its rings; pings and pongs of its
\* predecessor are still on the wire.
Restart ==
    /\ restarts < MaxRestarts
    /\ restarts' = restarts + 1
    /\ lastPing' = now
    /\ pingSent' = ZeroPeer /\ pongRecv' = ZeroPeer /\ lossCount' = ZeroPeer
    /\ sampleRing' = ZeroRing /\ ringHead' = ZeroPeer /\ ringCount' = ZeroPeer
    /\ pings' = [p \in Peer |-> {}]
    /\ answered' = [p \in Peer |-> {}]
    /\ samples' = [p \in Peer |-> <<>>]
    /\ UNCHANGED <<now, net, duplicated>>

Tick ==
    /\ now < MaxTime
    /\ now' = now + 1
    /\ UNCHANGED <<lastPing, net, duplicated, counters, ring, restarts, history>>

-----------------------------------------------------------------------------
(* The counters.                                                           *)

\* Unsigned subtraction.
Minus(a, b) == (a - b) % Word

\* Mutant: ping_sent is not raised to pong_recv.
RaisedNever(sent, recv) == sent

\* sense_stats_record_ping and sense_stats_update: ping_sent is at least pong_recv.
Raised(sent, recv) == IF sent < recv THEN recv ELSE sent

\* The pings of one interval, one to every peer.  A ping is counted before it is
\* sent; it is not sent when no mbuf is free or the transmit ring is full.
Pings(sent) == {[type |-> "Ping", peer |-> p, ts |-> now] : p \in sent}

\* Mutant: a ping that cannot be sent is not counted.
SendPingsIfSent ==
    /\ now > lastPing
    /\ lastPing' = now
    /\ \E sent \in SUBSET Peer :
          /\ net' = net \cup Pings(sent)
          /\ pingSent' = [p \in Peer |->
                Raised(pingSent[p] + (IF p \in sent THEN 1 ELSE 0), pongRecv[p])]
    /\ lossCount' = [p \in Peer |-> Minus(pingSent'[p], pongRecv[p])]
    /\ pings' = [p \in Peer |-> pings[p] \cup {now}]
    /\ UNCHANGED <<now, duplicated, pongRecv, ring, restarts, answered, samples>>

SendPings ==
    /\ now > lastPing
    /\ lastPing' = now
    /\ \E sent \in SUBSET Peer : net' = net \cup Pings(sent)
    /\ pingSent' = [p \in Peer |-> Raised((pingSent[p] + 1) % Word, pongRecv[p])]
    /\ lossCount' = [p \in Peer |-> Minus(pingSent'[p], pongRecv[p])]
    /\ pings' = [p \in Peer |-> pings[p] \cup {now}]
    /\ UNCHANGED <<now, duplicated, pongRecv, ring, restarts, answered, samples>>

-----------------------------------------------------------------------------
(* process_rx.                                                             *)

\* rte_eth_rx_burst takes the packet off the wire, which may hold a second copy;
\* reply is what the handler sends, if it succeeds to.
Receive(m, reply) ==
    \E kept \in SUBSET {m}, sent \in SUBSET reply :
        /\ net' = (net \ {m}) \cup kept \cup sent
        /\ duplicated' = (duplicated \/ kept # {})

\* A peer handles a ping: the pong carries its time stamp.
AnswerPing(m) ==
    /\ m.type = "Ping"
    /\ Receive(m, {[m EXCEPT !.type = "Pong"]})
    /\ UNCHANGED <<now, lastPing, counters, ring, restarts, history>>

\* Mutants: the index leaves the ring; its last slot is not used.
NextSlotBeyond(i) == i + 1
NextSlotEarly(i) == IF i + 1 >= MaxSamples - 1 THEN 0 ELSE i + 1

NextSlot(i) == (i + 1) % MaxSamples

\* sense_samples_append.
AppendSample(p, s) ==
    /\ sampleRing' = [sampleRing EXCEPT ![p][ringHead[p]] = s]
    /\ ringHead' = [ringHead EXCEPT ![p] = NextSlot(@)]
    /\ ringCount' = [ringCount EXCEPT ![p] = IF @ < MaxSamples THEN @ + 1 ELSE @]
    /\ samples' = [samples EXCEPT ![p] = Append(@, s)]

\* The observer handles a pong: sense_stats_update, sense_samples_append.  Whose
\* ping it answers, and whether it was answered before, is not looked at.
HandlePong(m) ==
    /\ m.type = "Pong"
    /\ Len(samples[m.peer]) < MaxPongs
    /\ Receive(m, {})
    /\ pongRecv' = [pongRecv EXCEPT ![m.peer] = (@ + 1) % Word]
    /\ pingSent' = [pingSent EXCEPT ![m.peer] = Raised(@, pongRecv'[m.peer])]
    /\ lossCount' = [lossCount EXCEPT ![m.peer] =
                        Minus(pingSent'[m.peer], pongRecv'[m.peer])]
    /\ AppendSample(m.peer, [tsc |-> now, rtt |-> now - m.ts])
    /\ answered' = [answered EXCEPT ![m.peer] = @ \cup ({m.ts} \cap pings[m.peer])]
    /\ UNCHANGED <<now, lastPing, restarts, pings>>

-----------------------------------------------------------------------------
(* avg_in_window.                                                          *)

\* The slot of the sample i places before the newest.
Back(p, i) == (ringHead[p] - 1 - i) % MaxSamples

Fresh(s) == s.tsc # 0 /\ now - s.tsc <= Window

\* The walk from the newest sample back, up to the first that is not fresh: the
\* samples averaged, numbered by their distance from the newest.
Walked(p) ==
    {i \in 0..ringCount[p] - 1 : \A j \in 0..i : Fresh(sampleRing[p][Back(p, j)])}

\* The average as a pair: the sum of the samples and their number, 0 for none.
AvgInWindow(p) ==
    <<MapThenSumSet(LAMBDA i : sampleRing[p][Back(p, i)].rtt, Walked(p)),
      Cardinality(Walked(p))>>

-----------------------------------------------------------------------------
Next ==
    \/ Restart \/ Tick \/ SendPings
    \/ \E m \in net : AnswerPing(m) \/ HandlePong(m)

Spec == Init /\ [][Next]_vars

-----------------------------------------------------------------------------
(* Properties.                                                             *)

Unanswered(p) == pings[p] \ answered[p]

\* loss_count never exceeds the pings of this process that are still unanswered,
\* whatever is duplicated, and whatever answers the pings of the process before
\* it (stats.c 55-58, 77-81).
LossNotOverstated ==
    \A p \in Peer : lossCount[p] <= Cardinality(Unanswered(p))

\* As long as the network duplicates nothing and the process is not restarted,
\* loss_count is exactly the number of unanswered pings, on their way or lost, also
\* when they could not even be sent (stats.h 46, networking.c 131-132).
LossIsUnanswered ==
    ~duplicated /\ restarts = 0
        => \A p \in Peer : lossCount[p] = Cardinality(Unanswered(p))

\* What avg_in_window should return: of all the samples of this process, those of
\* the past window, as many of the latest as the ring can hold.
RecentSamples(p) ==
    {k \in DOMAIN samples[p] : /\ k > Len(samples[p]) - MaxSamples
                               /\ now - samples[p][k].tsc <= Window}

\* The walk over the ring averages just the samples of the past window (stats.h
\* 49), although it stops at the first old one (stats.c 108-118).
AverageIsOfWindow ==
    \A p \in Peer :
        AvgInWindow(p) = <<MapThenSumSet(LAMBDA k : samples[p][k].rtt, RecentSamples(p)),
                           Cardinality(RecentSamples(p))>>

-----------------------------------------------------------------------------
(* The inductive invariants behind these properties.                       *)

\* The counters never wrap: every pong counted left a sample, and as many pings
\* are missing at most as are unanswered (stats.c 55-58, 76-81).
CountInv ==
    /\ 1 <= lastPing /\ lastPing <= now
    /\ \A m \in net : m.ts <= now
    /\ \A p \in Peer :
        /\ answered[p] \subseteq pings[p] /\ pings[p] \subseteq 1..lastPing
        /\ Len(samples[p]) <= MaxPongs
        /\ pongRecv[p] = Len(samples[p])
        /\ pongRecv[p] <= pingSent[p]
        /\ lossCount[p] = pingSent[p] - pongRecv[p]
        /\ lossCount[p] <= Cardinality(Unanswered(p))

\* Until something is duplicated or forgotten, a packet on the wire stands for one
\* unanswered ping, and no ping has two packets (networking.c 124-144).
ExactInv ==
    ~duplicated /\ restarts = 0 =>
        /\ \A m \in net : m.ts \in Unanswered(m.peer)
        /\ \A m, n \in net : m.peer = n.peer /\ m.ts = n.ts => m = n
        /\ \A p \in Peer : lossCount[p] = Cardinality(Unanswered(p))

\* The ring holds the latest samples in the order they came, as many as fit, and
\* their times do not go back (stats.c 84-98).
RingInv ==
    \A p \in Peer :
        /\ ringHead[p] = Len(samples[p]) % MaxSamples
        /\ ringCount[p] = IF Len(samples[p]) < MaxSamples THEN Len(samples[p])
                                                          ELSE MaxSamples
        /\ \A k \in 1..Len(samples[p]) :
            /\ samples[p][k].tsc \in 1..now
            /\ k > Len(samples[p]) - MaxSamples
                    => sampleRing[p][(k - 1) % MaxSamples] = samples[p][k]
            /\ \A j \in 1..k : samples[p][j].tsc <= samples[p][k].tsc
=============================================================================
