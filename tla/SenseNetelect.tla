------------------------------ MODULE SenseNetelect ------------------------------
(***************************************************************************)
(* The election run beside the measurements on one host: dpdk-sense is the *)
(* primary process, which opens the port with two queues and publishes in a*)
(* memzone which of them a secondary process may use (app/sense            *)
(* networking.c net_init); dpdk-raft-netelect is that secondary            *)
(* (app/raft-netelect networking.c net_attach_secondary).  They share, in  *)
(* huge pages, the memzone, the pool of packet buffers, the queues of the  *)
(* port and the timer lists of rte_timer.  The secondary may be killed and *)
(* started again at any time (script/kill-leader.py).                      *)
(*                                                                         *)
(* Three users take and give back buffers: the main lcore of sense, its    *)
(* worker lcore (the reports to the collector) and the lcore of netelect.  *)
(* A packet is its kind; buffers are counted, one for each descriptor of a *)
(* receive queue, full or empty, among them.                               *)
(***************************************************************************)
EXTENDS Naturals, Sequences, FiniteSetsExt

CONSTANTS
    Pool,        \* MBUF_POOL_SIZE
    RxRing,      \* descriptors of a receive queue
    TxRing,      \* descriptors of a transmit queue
    Burst,       \* BURST_SIZE
    Peers,       \* node_num - 1
    SensePort,   \* port_id in the config.json of sense
    OwnPort,     \* port_id in the config.json of netelect
    MaxStarts    \* bound: starts of netelect

ASSUME SizeAssumption ==
    /\ {RxRing, TxRing, Burst, Peers, MaxStarts} \subseteq Nat \ {0}
    /\ Pool \in Nat /\ Pool >= 2 * RxRing
    /\ {SensePort, OwnPort} \subseteq Nat

VARIABLES
    zone,      \* the memzone SENSE_MP_INFO exists
    info,      \* its content; name: mempool_name is written
    flow,      \* secondary_flow: "none" yet, "ok", or "failed"
    attached,  \* netelect: port_id, rx_queue_id, tx_queue_id
    pc,        \* the next step of each user
    hand,      \* the packets received and not yet freed
    toSend,    \* the packets the user has still to send
    free,      \* the mbufs in the pool
    rx,        \* the packets waiting in each receive queue
    tx,        \* the packets waiting in each transmit queue
    timers,    \* the processes whose timers are linked in the list of an lcore
    starts,    \* starts of netelect so far
    refused,   \* history: rte_eth_tx_burst has returned 0
    killed     \* history: netelect was killed with an mbuf in hand
               \* ("mbuf"), or with its timers armed ("timer")

startVars == <<zone, info, flow, attached, timers, starts>>
bufferVars == <<hand, toSend, free, rx, tx, refused>>
vars == <<startVars, bufferVars, pc, killed>>

User == {"main", "worker", "netelect"}
Poller == {"main", "netelect"}
Kind == {"ping", "election", "other"}
Queue == {0, 1}
Lcore == User
Sense == 0              \* in timers: sense; the n-th start of netelect is n

\* The steps of the loops, of net_init of sense, and of netelect up to raft_init.
LoopPc == {"loop", "packet", "alloc", "tx", "free", "timers"}
PublishPc == {"port", "zone", "portId", "rxq", "txq", "name", "flow"}
AttachPc == {"lookup", "port", "override", "name", "rxq", "txq", "raftInit"}

Running == pc["netelect"] \in LoopPc

StartType ==
    /\ zone \in BOOLEAN
    /\ info \in [port : {0, SensePort}, rxq : Queue, txq : Queue, name : BOOLEAN]
    /\ flow \in {"none", "ok", "failed"}
    /\ attached \in [port : {0, SensePort, OwnPort}, rxq : Queue, txq : Queue]
    /\ timers \in [Lcore -> SUBSET (0..MaxStarts)]
    /\ starts \in 0..MaxStarts
    /\ killed \subseteq {"mbuf", "timer"}

PcType ==
    /\ pc \in [User -> LoopPc \cup PublishPc \cup AttachPc \cup {"down"}]
    /\ pc["main"] \in LoopPc \cup PublishPc
    /\ pc["worker"] \in LoopPc \cup {"down"}
    /\ pc["netelect"] \in LoopPc \cup AttachPc \cup {"down"}

BufferType ==
    /\ hand \in [User -> Seq(Kind)] /\ \A u \in User : Len(hand[u]) <= Burst
    /\ toSend \in [User -> 0..Peers]
    /\ free \in 0..Pool
    /\ rx \in [Queue -> Seq(Kind)] /\ \A q \in Queue : Len(rx[q]) <= RxRing
    /\ tx \in [Queue -> 0..TxRing]
    /\ refused \in BOOLEAN

TypeOK == StartType /\ PcType /\ BufferType

\* Sense has initialised the timer library and armed the timer of its snapshot
\* (app/sense main.c 65-76); net_init begins.
Init ==
    /\ zone = FALSE
    /\ info = [port |-> 0, rxq |-> 0, txq |-> 0, name |-> FALSE]
    /\ flow = "none"
    /\ attached = [port |-> OwnPort, rxq |-> 0, txq |-> 0]
    /\ pc = [u \in User |-> IF u = "main" THEN "port" ELSE "down"]
    /\ hand = [u \in User |-> <<>>]
    /\ toSend = [u \in User |-> 0]
    /\ free = Pool
    /\ rx = [q \in Queue |-> <<>>]
    /\ tx = [q \in Queue |-> 0]
    /\ timers = [l \in Lcore |-> IF l = "main" THEN {Sense} ELSE {}]
    /\ starts = 0
    /\ refused = FALSE
    /\ killed = {}

Goto(u, step) == pc' = [pc EXCEPT ![u] = step]

-----------------------------------------------------------------------------
(* net_init of sense.                                                      *)

\* The pool is created, the port configured and started: every receive descriptor
\* takes an mbuf.
InitPort ==
    /\ pc["main"] = "port"
    /\ Goto("main", "zone")
    /\ free' = free - 2 * RxRing
    /\ UNCHANGED <<startVars, hand, toSend, rx, tx, refused, killed>>

\* publish_mp_info: the zone is found from now on, and it is zero.
ReserveZone ==
    /\ pc["main"] = "zone"
    /\ Goto("main", "portId")
    /\ zone' = TRUE
    /\ UNCHANGED <<info, flow, attached, timers, starts, bufferVars, killed>>

\* Mutant: the name, which the secondary takes for the sign that all is there, first.
FieldStepsNameFirst == [portId |-> "name", name |-> "rxq", rxq |-> "txq", txq |-> "flow"]

\* The order of its stores; those of the primary's own queues are read by nobody.
FieldSteps == [portId |-> "rxq", rxq |-> "txq", txq |-> "name", name |-> "flow"]

PublishField ==
    \E step \in DOMAIN FieldSteps :
        /\ pc["main"] = step
        /\ Goto("main", FieldSteps[step])
        /\ info' = CASE step = "portId" -> [info EXCEPT !.port = SensePort]
                     [] step = "rxq"    -> [info EXCEPT !.rxq = 1]
                     [] step = "txq"    -> [info EXCEPT !.txq = 1]
                     [] step = "name"   -> [info EXCEPT !.name = TRUE]
        /\ UNCHANGED <<zone, flow, attached, timers, starts, bufferVars, killed>>

\* The flow rule is created, or it is not and sense only warns; main launches
\* xstats_worker and enters its loop.
CreateFlow ==
    /\ pc["main"] = "flow"
    /\ pc' = [pc EXCEPT !["main"] = "loop", !["worker"] = "timers"]
    /\ flow' \in {"ok", "failed"}
    /\ UNCHANGED <<zone, info, attached, timers, starts, bufferVars, killed>>

NetInit == InitPort \/ ReserveZone \/ PublishField \/ CreateFlow

-----------------------------------------------------------------------------
(* netelect starts, attaches, and is killed.                               *)

\* Mutant: netelect runs on the lcore of sense.
NetelectLcoreShared == "main"

\* The lcore whose timer list netelect uses.
NetelectLcore == "netelect"

\* rte_eal_init joins sense; rte_timer_subsystem_init finds the memzone of the timer
\* lists and leaves them as they are.
Start ==
    /\ pc["netelect"] = "down"
    /\ starts < MaxStarts
    /\ starts' = starts + 1
    /\ attached' = [port |-> OwnPort, rxq |-> 0, txq |-> 0]
    /\ Goto("netelect", "lookup")
    /\ UNCHANGED <<zone, info, flow, timers, bufferVars, killed>>

\* A step of net_attach_secondary: it goes on to next, or rte_exit.
Attach(step, next, found) ==
    /\ pc["netelect"] = step
    /\ Goto("netelect", IF found THEN next ELSE "down")
    /\ UNCHANGED <<zone, info, flow, timers, starts, bufferVars, killed>>

LookupZone == Attach("lookup", "port", zone) /\ UNCHANGED attached

ComparePort ==
    /\ Attach("port", IF info.port = attached.port THEN "name" ELSE "override", TRUE)
    /\ UNCHANGED attached

OverridePort ==
    /\ Attach("override", "name", TRUE)
    /\ attached' = [attached EXCEPT !.port = info.port]

LookupPool == Attach("name", "rxq", info.name) /\ UNCHANGED attached

ReadRxq ==
    /\ Attach("rxq", "txq", TRUE)
    /\ attached' = [attached EXCEPT !.rxq = info.rxq]

ReadTxq ==
    /\ Attach("txq", "raftInit", TRUE)
    /\ attached' = [attached EXCEPT !.txq = info.txq]

\* raft_init arms the election timer: timer_add walks the list of the lcore.  The
\* timers of a process that is gone are at addresses that mean nothing in this one.
RaftInit ==
    /\ pc["netelect"] = "raftInit"
    /\ \/ /\ Goto("netelect", "loop")
          /\ timers' = [timers EXCEPT ![NetelectLcore] = @ \cup {starts}]
       \/ /\ timers[NetelectLcore] # {}
          /\ Goto("netelect", "down")
          /\ UNCHANGED timers
    /\ UNCHANGED <<zone, info, flow, attached, starts, bufferVars, killed>>

Holds(u) == IF pc[u] = "tx" THEN Len(hand[u]) + 1 ELSE Len(hand[u])

\* Nothing gives back what the process had in hand, nor unlinks its timers.
Kill ==
    /\ pc["netelect"] # "down"
    /\ Goto("netelect", "down")
    /\ killed' = killed \cup (IF Holds("netelect") > 0 THEN {"mbuf"} ELSE {})
                        \cup (IF Running THEN {"timer"} ELSE {})
    /\ hand' = [hand EXCEPT !["netelect"] = <<>>]
    /\ toSend' = [toSend EXCEPT !["netelect"] = 0]
    /\ UNCHANGED <<startVars, free, rx, tx, refused>>

NetAttach ==
    \/ LookupZone \/ ComparePort \/ OverridePort \/ LookupPool
    \/ ReadRxq \/ ReadTxq \/ RaftInit

-----------------------------------------------------------------------------
(* The loops: poll, handle the packets of the burst, run the timers, send. *)

RxQueue(u) == IF u = "netelect" THEN attached.rxq ELSE 0
TxQueue(u) == IF u = "netelect" THEN attached.txq ELSE 0
OnPort(u) == u = "netelect" => attached.port = SensePort

\* What rte_eth_rx_burst returns: a new mbuf replaces each in its descriptor.
Ready(u) == IF OnPort(u) THEN Min({Len(rx[RxQueue(u)]), free, Burst}) ELSE 0

Poll(u) ==
    /\ pc[u] = "loop"
    /\ LET q == RxQueue(u)
           n == Ready(u)
       IN  /\ hand' = [hand EXCEPT ![u] = SubSeq(rx[q], 1, n)]
           /\ rx' = [rx EXCEPT ![q] = SubSeq(@, n + 1, Len(@))]
           /\ free' = free - n
           /\ Goto(u, IF n = 0 THEN "timers" ELSE "packet")
    /\ UNCHANGED <<startVars, toSend, tx, refused, killed>>

\* What a user sends when it handles a packet, or in its own time.
Answer == [main |-> [ping |-> {1}, election |-> {}, other |-> {}],
           netelect |-> [ping |-> {}, election |-> {1, Peers}, other |-> {}]]
Own == [main |-> Peers, worker |-> 1, netelect |-> Peers]

AnswerPacket(u) ==
    /\ pc[u] = "packet"
    /\ \E n \in Answer[u][Head(hand[u])] : toSend' = [toSend EXCEPT ![u] = n]
    /\ Goto(u, "alloc")
    /\ UNCHANGED <<startVars, hand, free, rx, tx, refused, killed>>

\* Where a user is when it has nothing more to send.
Sent(u) ==
    IF hand[u] # <<>> THEN "free" ELSE IF u = "worker" THEN "timers" ELSE "loop"

\* Mutant: the result of rte_pktmbuf_alloc is not looked at.
MayAllocAlways == TRUE

\* rte_pktmbuf_alloc finds an mbuf.
MayAlloc == free > 0

\* With none, the packet is not sent.
Alloc(u) ==
    /\ pc[u] = "alloc"
    /\ IF MayAlloc
       THEN free' = free - 1 /\ Goto(u, "tx") /\ UNCHANGED toSend
       ELSE /\ toSend' = [toSend EXCEPT ![u] = @ - 1]
            /\ Goto(u, IF toSend[u] = 1 THEN Sent(u) ELSE "alloc")
            /\ UNCHANGED free
    /\ UNCHANGED <<startVars, hand, rx, tx, refused, killed>>

\* The result of rte_eth_tx_burst is ignored: an mbuf that is not taken stays nowhere.
TxBurst(u) ==
    /\ pc[u] = "tx"
    /\ toSend' = [toSend EXCEPT ![u] = @ - 1]
    /\ Goto(u, IF toSend[u] = 1 THEN Sent(u) ELSE "alloc")
    /\ IF OnPort(u) /\ tx[TxQueue(u)] < TxRing
       THEN tx' = [tx EXCEPT ![TxQueue(u)] = @ + 1] /\ UNCHANGED refused
       ELSE refused' = TRUE /\ UNCHANGED tx
    /\ UNCHANGED <<startVars, hand, free, rx, killed>>

\* Mutant: a packet that is not for this application is passed over, not freed.
FreedUnlessForeign(u) == IF Answer[u][Head(hand[u])] = {} THEN 0 ELSE 1

\* Every branch of process_rx and process_packets frees the mbuf.
Freed(u) == 1

FreePacket(u) ==
    /\ pc[u] \in {"packet", "free"}
    /\ free' = free + Freed(u)
    /\ hand' = [hand EXCEPT ![u] = Tail(@)]
    /\ Goto(u, IF Len(hand[u]) = 1 THEN "timers" ELSE "packet")
    /\ UNCHANGED <<startVars, toSend, rx, tx, refused, killed>>

\* A timer expires, or the interval of pings, heartbeats or reports is over; or not.
Timers(u) ==
    /\ pc[u] = "timers"
    /\ \/ Goto(u, "alloc") /\ toSend' = [toSend EXCEPT ![u] = Own[u]]
       \/ u # "worker" /\ Goto(u, "loop") /\ UNCHANGED toSend
    /\ UNCHANGED <<startVars, hand, free, rx, tx, refused, killed>>

LoopStep(u) ==
    \/ u \in Poller /\ (Poll(u) \/ AnswerPacket(u) \/ FreePacket(u))
    \/ Alloc(u) \/ TxBurst(u) \/ Timers(u)

-----------------------------------------------------------------------------
(* The port (external): it steers by the flow rule, drops a packet that    *)
(* finds no descriptor, and gives back the mbuf of a packet it has sent.   *)

Steer(kind) == IF kind = "election" /\ flow = "ok" THEN 1 ELSE 0

Arrive(kind) ==
    /\ pc["main"] # "port"
    /\ Len(rx[Steer(kind)]) < RxRing
    /\ rx' = [rx EXCEPT ![Steer(kind)] = Append(@, kind)]
    /\ UNCHANGED <<startVars, pc, hand, toSend, free, tx, refused, killed>>

Transmit(q) ==
    /\ tx[q] > 0
    /\ tx' = [tx EXCEPT ![q] = @ - 1]
    /\ free' = free + 1
    /\ UNCHANGED <<startVars, pc, hand, toSend, rx, refused, killed>>

-----------------------------------------------------------------------------
Next ==
    \/ NetInit
    \/ Start \/ NetAttach \/ Kill
    \/ \E u \in User : LoopStep(u)
    \/ \E kind \in Kind : Arrive(kind)
    \/ \E q \in Queue : Transmit(q)

Spec == Init /\ [][Next]_vars

\* Sense starts, the lcores of both processes run, and a report that is begun ends;
\* nothing is assumed of the port, nor that netelect is started or killed.
Fairness ==
    /\ WF_vars(NetInit)
    /\ WF_vars(NetAttach)
    /\ \A u \in Poller : WF_vars(LoopStep(u))
    /\ WF_vars(Alloc("worker") \/ TxBurst("worker"))

LiveSpec == Spec /\ Fairness

-----------------------------------------------------------------------------
(* Properties.                                                             *)

\* No buffer is lost or counted twice, whatever way the three users interleave and
\* whichever branch a packet takes, unless rte_eth_tx_burst did not take a packet or
\* netelect was killed with one in hand (app/sense networking.c 246-309,
\* app/raft-netelect networking.c 121-211).
NoMbufLost ==
    pc["main"] # "port" /\ ~refused /\ "mbuf" \notin killed =>
        free + 2 * RxRing + tx[0] + tx[1]
             + Holds("main") + Holds("worker") + Holds("netelect") = Pool

\* A netelect that did not exit uses the queues sense keeps for it and a pool that
\* exists, however it raced with the publication, and never a port nobody published:
\* the port of sense or, when it looked too early, the 0 of a cleared memzone, which
\* this does not tell from a published port
\* (app/raft-netelect networking.c 77-100, app/sense networking.c 42-48).
AttachedAsPublished ==
    Running =>
        /\ info.name
        /\ attached.rxq = 1 /\ attached.txq = 1
        /\ attached.port \in {0, SensePort}

\* The timer list of an lcore that runs links timers of its own process only, as long
\* as no netelect was killed before (lib/timer rte_timer.c 122-127).
ListsOwnTimers ==
    /\ timers["main"] = {Sense}
    /\ Running /\ "timer" \notin killed => timers[NetelectLcore] = {starts}

\* An election packet that waits in the queue of netelect is received, once netelect
\* runs on the port of sense, until a buffer is lost by a full transmit ring or a kill:
\* whatever arrives at sense, and whoever was started before, reception never finds the
\* pool drained for good (app/raft-netelect main.c 56-74, networking.c 179-182, app/sense
\* networking.c 246-309).  Claimed for pools larger than what rings and the other users
\* can hold together, as the source's is.
ElectionPacketsReceived ==
    <>[](Running /\ attached.port = SensePort /\ ~refused /\ "mbuf" \notin killed)
        => (rx[1] # <<>> ~> hand["netelect"] # <<>>)
-----------------------------------------------------------------------------
(* The inductive invariants behind these properties.                       *)

\* What the memzone holds at each step of net_init (app/sense networking.c 30-48).
PublishInv ==
    LET at == pc["main"] IN
    /\ zone <=> at \notin {"port", "zone"}
    /\ info.port = IF at \in {"port", "zone", "portId"} THEN 0 ELSE SensePort
    /\ info.rxq = IF at \in {"port", "zone", "portId", "rxq"} THEN 0 ELSE 1
    /\ info.txq = IF at \in {"port", "zone", "portId", "rxq", "txq"} THEN 0 ELSE 1
    /\ info.name <=> at \in LoopPc \cup {"flow"}
    /\ pc["worker"] # "down" => at \in LoopPc

\* What netelect has found at each step of net_attach_secondary
\* (app/raft-netelect networking.c 77-100).
AttachInv ==
    LET at == pc["netelect"] IN
    /\ at \notin {"down", "lookup"} => zone
    /\ at \in LoopPc \cup {"name", "rxq", "txq", "raftInit"} =>
        attached.port \in {0, SensePort}
    /\ at \in LoopPc \cup {"rxq", "txq", "raftInit"} => info.name
    /\ at \in LoopPc \cup {"txq", "raftInit"} => attached.rxq = 1
    /\ at \in LoopPc \cup {"raftInit"} => attached.txq = 1

\* The list of netelect's lcore is empty until raft_init, and again after an exit.
TimersInv ==
    /\ timers["main"] = {Sense}
    /\ "timer" \notin killed =>
        timers[NetelectLcore] = IF Running THEN {starts} ELSE {}

\* A user holds the packets of its burst until the last is freed, and counts what it
\* has to send down to none.
InLoop(u) ==
    /\ u = "worker" => hand[u] = <<>>
    /\ pc[u] \in {"packet", "free"} => hand[u] # <<>>
    /\ pc[u] \notin {"packet", "free", "alloc", "tx"} => hand[u] = <<>>
    /\ pc[u] \in {"alloc", "tx"} => toSend[u] > 0

LoopInv == \A u \in User : InLoop(u)

\* The mbufs that somebody has.
InUse == tx[0] + tx[1] + Holds("main") + Holds("worker") + Holds("netelect")

\* No more mbufs are in use than there are; as many, until some are lost.
MbufInv ==
    /\ pc["main"] = "port" => free = Pool /\ InUse = 0
    /\ pc["main"] # "port" => free + 2 * RxRing + InUse <= Pool
    /\ NoMbufLost
=============================================================================
