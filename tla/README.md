# A verification project for DPDK-Dev

This directory holds TLA+ models of the applications of this repository and of
the library code whose concurrency they rest on, the TLC configurations that
check them on small instances, and theorems that TLAPS proves for every
instance. `src/` below is the repository; unless said otherwise paths are
relative to `src/dpdk-23.11/`.

To check a run: `tlc -config RaftSafety.cfg MCRaftElection.tla`; to check the
proofs: `tlapm RaftElectionProofs.tla`, and likewise the other `...Proofs` modules. `PROJECT.json` lists every run, the
mutant that shows each property can fail, and the source lines each definition
stands for.

## 1. Inventory

The repository is DPDK 23.11 with a handful of applications of its own under
`app/`. The applications carry the repository's logic; of DPDK itself the parts
that matter are those they call.

| Part | State it keeps | Operations | Talks to |
|---|---|---|---|
| `app/raft` leader election (`election.c`, `timeout.c`, `main.c`, `networking.c`) | term, vote, vote count, state, three timers, the "play dead" flag | handle a packet, time out, win, send a heartbeat, play dead, recover | the other nodes by UDP packets; the timer library |
| `app/raft-netelect` | as `app/raft` | the same files, but the port may belong to another process | `app/sense`, through the memzone `SENSE_MP_INFO`, the pool, queue 1 and a flow rule |
| `app/raft-netelect-backup` | an estimate of every peer's clock | older election, clock synchronisation; no `meson.build` builds it | |
| `app/sense` measurements (`stats.c`, `networking.c`) | per peer: pings, pongs, losses, a ring of samples | ping, answer a ping, handle a pong, average over a window | the peers by UDP packets |
| `app/sense` reports (`main.c`, `api.c`) | the snapshot of averages, the report number | snapshot callback (main lcore), copy and report (worker lcore) | main and worker lcore share memory and a transmit queue; the collector `host_udp_server.py` |
| `app/pingpong-ping`, `app/pingpong-pong` | the frame in flight | answer a frame by a frame | each other |
| `app/see-metadata`, `metadata.c`, `config.c` | none | print counters, read `config.json` | |
| `lib/timer` | per lcore a list of timers, a lock, a run list; per timer a status word | reset, stop, manage, from any lcore and from callbacks | every application's main loop |
| `lib/ring`, `lib/mempool`, `lib/mbuf` | the pool of packet buffers, a ring with two pairs of head and tail | allocate (dequeue), free (enqueue) | every sender and receiver, of both processes |
| `lib/eal` launch and clean-up | per worker lcore: state word, function, argument, result, two pipes | launch one, launch all, wait, clean up | main lcore and worker lcores, without a lock |
| `app/sense` port (`net_init`, `sense_mp.h`) | two queues, the flow rule, the memzone `SENSE_MP_INFO` | set up, publish, steer | the secondary process that attaches |
| drivers, `lib/ethdev`, flow rules | queues | | the wire |

What is hard in this code:

- *Messages*: UDP over Ethernet, neither ordered nor acknowledged, no
  duplicate elimination; sending fails silently when no buffer is free.
- *Timers*: a node's timers are re-initialised while they may be in the list;
  on several lcores a timer is stopped while its owner is about to run it.
- *Memory lost*: an election node persists nothing, and neither does sense.
- *Test failures*: `test_auto_fail` makes a leader play dead while its timers
  and its state live on.
- *Two lcores without a lock*: the snapshot, the loss table and the transmit
  queue of sense.
- *Life cycles*: clean-up under a running worker, a secondary process that
  attaches to a primary that is not ready, is killed, and comes back.
- *Lock-free sharing*: any lcore of either process moves the heads and tails of
  the pool's ring; a launch is handed over by a state word and two pipes.
- *Scarce buffers*: reception needs a free buffer for every packet it hands
  out, and a packet that the transmit ring refuses is never freed.

What correctness means, part by part: the election gives a term at most one
leader, a leader is deposed only by a later term and then is deposed in the end,
and no node is left without the timer that would bring it back; the timer
library links a timer once, runs it once per reset, never after a successful
stop, and does not lose it; the measurements never overstate a loss and average
the samples of the window; the reports never go back; the ring hands an object to one
owner at a time, in order, and tells the truth when it refuses; a launched
function is called once, with its argument, and its result is what a wait
returns; a secondary attaches to what was published, and no buffer is lost.

## 2. Modules

| Module | Models | Proofs |
|---|---|---|
| `TermLeaders` | what an election promises: terms grow, a term has one leader | |
| `RaftElection` | the election of `app/raft` and `app/raft-netelect` | `RaftElectionProofs` |
| `RteTimer` | `lib/timer/rte_timer.c` on several lcores | `RteTimerProofs` |
| `SenseStats` | pings, pongs, loss counts and the sample ring of sense | `SenseStatsProofs` |
| `SenseLcores` | the snapshot, the report and the transmit queue of sense's two lcores | `SenseLcoresProofs` |
| `BoundedQueue` | what a ring promises: a bounded FIFO with calls that take effect at once | |
| `RteRing` | the multi-producer, multi-consumer ring of `lib/ring` | `RteRingProofs`, `RteRingQueueProofs` |
| `EalLaunch` | the hand-shake by which the main lcore launches functions on workers | `EalLaunchProofs` |
| `SenseNetelect` | sense and netelect on one host: publication, attaching, death, the shared pool | `SenseNetelectProofs` |
| `MC...` | symmetry sets and reduced choices for TLC | |

### RaftElection

A node is one process on one lcore (README.md starts it with `-l 0`): `lcore_main`
handles the received packets, runs the expired timers, then sends a heartbeat if
it leads and the interval is over. None of these is interrupted, so each handler,
callback and heartbeat is one step. `raft_node` is `currentTerm`, `votedFor`,
`voteGranted`, `state`; whether a timer is in the list is `electionTimer`,
`failTimer`, `recoverTimer`; `test_auto_fail_enabled` is `failed`.

`raft_handle_packet` is split by its outcome: dropped by a node that plays dead,
vote granted or denied, response counted, response that wins, response ignored,
heartbeat accepted or ignored. Every one of them begins with the adoption of a
later term (`TermSeen`, `StateSeen`, `VoteSeen`: what the `switch` sees). The
network is a set of packets; a packet is delivered at any later time, in any
order, or never. `Duplication` keeps a delivered packet on the wire, `Loss`
removes heartbeats by a step of its own, which matters to liveness only.

Time is abstracted: an armed timer may fire at any moment, a heartbeat may be
sent at any moment while the node leads. That the election timeout is longer
than the heartbeat interval is not used by any safety property.

`fail_timer` deserves its three values. `rte_timer_init` of a timer that is in
the list makes the library believe it is not, and `rte_timer_reset` inserts it
behind itself: its next pointer then points to itself, and the next walk that
reaches it never ends. `"looped"` is that state and `hung` the lcore that walked
into it.

### TermLeaders

The abstract specification has no messages and no votes: a node moves to a later
term and stops leading, or takes the lead of its term if the term has had no
leader. `RaftElection` implements it with `term <- currentTerm`, `leaders <-
elected` and `leading` the nodes in state LEADER (`ImplementsTermLeaders`).

### RteTimer

Every lcore runs its own `rte_timer_manage` and may reset or stop any timer from
its loop or from a callback. A call is the compare-and-swap to CONFIG
(`BeginReset`, `BeginStop`), the deletion from the old list under the owner's
lock (`Delete`), and the insertion under the new owner's lock (`Add`) or the
store of STOP (`EndStop`). `rte_timer_manage` cuts the expired timers from its
list (`Cut`, lock held), marks each RUNNING by compare-and-swap or drops it
(`Mark`), unlocks, and calls the callbacks one by one; afterwards a one-shot timer
becomes STOP and a periodic one is reloaded under the lock in two steps
(`Reload`, `ReloadReset`), unless the callback has reset or stopped it
(`updated`).

A list is the set of its timers. The order of the skip list, which only decides
which of the expired timers is called first, and the clock are left out. A call
that fails because the timer is busy returns -1, changes nothing, and is no
step; so the `_sync` variants are loops around the modelled calls. The
destination `LCORE_ID_ANY` is one of the lcores.

### SenseStats

One node observes its peers. Only the main lcore writes the counters and the
ring, so each handler is one step: `SendPings` (the once-a-second loop, each
ping counted before it is sent, and sent or not), `AnswerPing` (the peer's
`process_rx`), `HandlePong` (counters and ring), `Restart` (memory cleared, the
wire not). The counters are unsigned words: a difference that went below zero
would show as a huge loss. `avg_in_window` is the walk back from the newest
sample; its result is kept as sum and number, the quotient being the average.
The clock counts ping intervals.

### SenseLcores

The main lcore is in its loop, in `snapshot_cb`, or in `rte_eth_tx_burst`; the
worker is idle, copying, reading loss counts, or in `rte_eth_tx_burst`. Each load
and store of one peer's figure is a step, and since the figures are only told
apart by age, the average of a peer is the number of the round that computed it
and its loss count the number of its last update. Loads and stores of one figure
are whole (aligned words on the 64-bit machines this runs on); the order of the
loads of a `memcpy` and of the callback's stores is left open. `force_quit`
makes the worker return at the top of its loop and makes the main lcore clean up
at once.

### BoundedQueue and RteRing

The pools of these applications have no per-lcore cache
(`rte_pktmbuf_pool_create(..., 0, 0, ...)`), so every allocation dequeues from, and
every release enqueues to, the pool's ring. `RteRing` has a step for each load,
compare-and-swap, copied object and tail store of `rte_ring_generic_pvt.h` (the
variant that is built on x86) and `rte_ring_elem_pvt.h`: `LoadHead`; `Reserve` or
`Refuse`, from the other side's tail; `MoveHead`, or `Retry` when the
compare-and-swap fails; `StoreElement` or `LoadElement`; `UpdateTail`, once it is
the call's turn. A call that waits for a tail has no step. Indices are words
that wrap (`Word`), and the ring begins drained at an index near the wrap, which is
a state any ring that is used comes to. `Kill` stops a thread inside a call; the ring
lives on in memory shared with the other processes.

`BoundedQueue` is the abstract queue: a call puts a prefix of what it has in hand, all
at once, or takes the first objects, all at once. The refinement maps the queue to
the slots from the consumer head to the producer tail: an enqueue takes effect
with its tail store, a dequeue already with its head move (`ImplementsQueue`).
`free_entries` is not always "between 0 and capacity" as the comment at
`rte_ring_generic_pvt.h:77-80` has it: with a head loaded before others have moved it,
it may be larger; but then the compare-and-swap fails.

The model's memory is sequentially consistent; the barriers of the code order exactly
the accesses that are steps here.

### EalLaunch

`lcore_config[w]` is `state`, `f`, `arg`, `ret`; `toWorker` and `toMain` are the bytes in the
two pipes. The worker goes round `eal_thread_loop` one load or store at a time
(`After` is the order of the loop); the main lcore is in user code, checking states
(`rte_eal_mp_remote_launch`), launching (`StoreArg`, `StoreF`, `WakeWorker`, `ReadAck`),
calling the function itself (CALL_MAIN), or waiting. The functions return. A job is a
function with its argument, stored and loaded apart, so that a call may be told
from a call with another launch's argument. `rte_eal_init` itself begins with one
launch of all workers and a wait.

### SenseNetelect

Sense is at `net_init`, netelect does not run. `InitPort` creates the pool and fills the
receive descriptors; `ReserveZone` makes the memzone visible, and `PublishField`
writes it field by field, the name of the pool last; `CreateFlow` succeeds, or fails
with a warning. Netelect attaches load by load (`LookupZone` to `ReadTxq`), and
exits if the zone or the pool is not there. `Kill` (`src/script/kill-leader.py`: `pkill -9`)
may strike anywhere.

Then three users share the pool: the main lcore of sense, its worker lcore, and
netelect. Each polls, handles the packets of its burst (`AnswerPacket` if it is one
to answer, then `FreePacket`), runs its timers, and sends: `Alloc`, `TxBurst`. Every
packet taken from a receive queue is replaced there by a free buffer, as drivers do;
a transmit queue that is full, or a port that is not started, refuses. Buffers are
counted; how the pool's ring hands them out is `RteRing`. The elections' contents
are `RaftElection`; here an election packet is one that netelect may answer.

`timers` is the array of timer lists that all processes share. A process that is
killed leaves its timers in it: see below.

## 3. Runs

| Run | Question | Instance | Result |
|---|---|---|---|
| `raft_safety` | one leader per term, one vote per term, no deposition within a term, timers against states while leaders play dead, refinement of `TermLeaders` | 3 nodes, 3 terms, auto-fail, duplication | holds |
| `raft_restart` | what survives nodes that forget their vote | 3 nodes, 2 terms, 2 restarts, duplication | holds |
| `raft_live` | stale leaders step down | 3 nodes, 2 terms, auto-fail, duplication, loss | holds |
| `raft_no_majority` | a leader has a majority | 4 nodes, 2 terms | violated |
| `raft_timer_twice` | a timer that is added is in no list | 3 nodes, 3 terms, auto-fail, duplication | violated |
| `rte_timer` | list, status word and run list agree; an armed timer runs or is stopped | 2 lcores, a one-shot and a periodic timer, 6 calls | holds |
| `rte_ring` | the ring is a bounded FIFO; one owner per object; refusals are true; calls return | 2 threads, 4 slots, indices modulo 16 from 14, 5 calls of 1 or 2 objects, one thread may be killed | holds |
| `eal_launch` | one user of the launch record, one call per launch, the right result, no deadlock | 2 workers, 3 launches | holds |
| `sense_netelect` | published queues and pool used; no buffer lost; own timers; reception of the election not starved | 8 buffers, 2 of them in descriptors, transmit queues of 1, 1 peer, 2 starts of netelect | holds |
| `sense_stats` | losses not overstated, exact while nothing is duplicated, average of the window | 1 peer, 4 ticks, ring of 3, window of 2, 4 pongs, a restart | holds |
| `sense_lcores` | reports recent, never back, never joined to older losses | 2 peers, 2 rounds, 2 updates, 2 reports | holds |
| `sense_tx_queue` | one lcore per transmit queue | the same | violated |

### Bounds

Three nodes are the smallest cluster with a majority that is not everybody, four
the smallest in which two votes are not a majority; the tally goes wrong exactly
from four on. Three terms let a leader be deposed and elected again (terms 1, 2,
3), which is what it takes to insert `fail_timer` twice; two terms are enough for a
stale leader beside a current one. Two restarts let a majority of three nodes
forget. Six timer calls let each lcore reset and stop each timer, and one callback
meddle; two lcores are the two sides of every race of the library, which
concerns one timer and one list. Peers do not share anything in `SenseStats`, so
one is enough; four ticks and four pongs make a ring of three wrap, inside and
outside a window of two. Two rounds and two reports are the least that
tear a copy and compare two reports. Two threads are the two sides of every race of
the ring; four slots with bulks of two let calls be refused, cut short, and
overlap, and 14 of 16 makes heads, tails and differences wrap within five calls.
The calls' objects are taken in order (`MCRteRing`), since a ring does not look at
them. Three launches let a worker be launched again while the other runs, and all be
launched while one does. With rings and bursts of one, eight buffers are the least that
never starve netelect's reception while none is lost (`ReceptionCorrect`), and few enough
for allocations to fail; a transmit queue of one is full after one packet, and refusals
then empty the pool. A packet for each peer is one allocation after another, so one peer is
enough; two starts are one restart. The proofs of `RaftElection` do not depend
on any of the election's bounds.

`CHECK_DEADLOCK FALSE` is set where a behaviour may reach its bounds and stop: in
the timer, ring and sense modules, and in the election with `test_auto_fail`, where
the last term may be reached with every packet handled and no leader, or all
nodes may hang in a looped list (that is finding 2). In `EalLaunch` the main lcore
need not make another call; that the hand-shake does not block is `CallsReturn`.

### Fairness

`raft_live` assumes that a node that leads keeps sending heartbeats (weak fairness
of `SendHeartbeat`: `lcore_main` never leaves its loop) and that a link used
again and again delivers again and again (strong fairness of the acceptance of
a later term's heartbeat: heartbeats may be lost, but not all of them, and the
node polls). No election is assumed to succeed: with randomised time-outs that
is a matter of probability, and the property says that leaders do not coexist
for ever, not that there is one.

`rte_timer` assumes for `EventuallyRuns` that time passes, that a begun call goes on,
and that every lcore keeps calling `rte_timer_manage`. The property is conditional:
one-shot timers run or are stopped in the end if periodic timers come to rest. Without
the condition it fails, because the spinlock is unfair: an lcore can be kept from
its list by another one that resets a periodic timer in time again and again.
Nothing in the code excludes that, so it is not assumed away.

`rte_ring` assumes that a thread inside a call runs on, and nothing of how often calls
are made; `CallsReturn` excepts the calls after a thread was killed between its head
and its tail, which do wait for ever. A call may retry without end only if other calls
succeed without end, and those are bounded in the model. `eal_launch` assumes that every
lcore runs on and launched functions return. `sense_netelect` assumes that sense
starts, that the loops of the main lcore and of netelect go round, and that a begun
report is sent. It assumes nothing of the network card, which may never transmit: then a
transmit ring fills up and refuses, and `ElectionPacketsReceived` claims nothing more. It
speaks of a netelect on the right port until a buffer is lost, and that sense does not
starve its reception is a matter of the size of the pool: with seven buffers
instead of eight TLC finds netelect polling for ever at moments when sense and the
transmit rings hold all there are.
Nor does it say that the packets reach its queue: a refused flow rule leaves them on
queue 0.

### What the violated runs show

1. *Two responses of one voter are two votes* (`election.c:143`). A voter grants a
   late request of the same candidate's earlier term again, since only `voted_for`
   is compared, and answers with its current term; the candidate counts it
   twice. In a cluster of four, two nodes elect a leader.
2. *A pending timer is initialised* (`election.c:168`), by a leader deposed and
   elected again within the delay of one to two seconds; see `RaftElection` above.
3. *A shared transmit queue* (`sense/networking.c:108`): the worker's report and the
   main lcore's pings and pongs enter `rte_eth_tx_burst` on queue 0 at once.

Also true, and seen in the models, though no run is devoted to it:

- After a restart a node may vote twice in a term, and a term may have two leaders;
  a cluster of one never elects itself (`LoneNodeNeverLeads`).
- A node that plays dead is not quite down (`election.c:224`): `fail_timer` is not
  stopped when a leader is deposed; it fires in a follower whose election timer
  is armed, and that timer's callback does not test the flag and broadcasts.
- The main lcore of sense calls `rte_eal_cleanup` without waiting for the worker
  (`sense/main.c:123`), which may still send a report; `rte_eal.h:118` forbids it.
- The worker's copy of the snapshot may be torn, with averages of two rounds
  (`api.c:32`), which is why the properties of `SenseLcores` speak of each peer's
  figures and not of the report as a whole.
- A netelect that looks at `port_id` before sense has written it, and at the name
  after, runs on port 0 whatever the port of sense
  (`raft-netelect/networking.c:85`); that is why `AttachedAsPublished` allows port 0 and
  does not catch this. With the `port_id` 0 of the applications' own `config.json`
  (`app/sense/`, `app/raft-netelect/`) it cannot be told; but with the top-level
  `config.json`, next to which `src/README.md:41` says to run, `port_id` is 2, and a netelect
  that looks too early polls port 0, where none of its packets arrive.
- A netelect that was killed cannot safely be started again beside the same sense:
  its timers are still linked in the shared list of its lcore, and `raft_init` of
  the next one walks into them (`rte_timer.c:122-127` assumes that processes differ
  in their lcores, which a process and its successor do not). `RaftInit` then crashes
  or goes on, and `ListsOwnTimers` is claimed only until such a death.
- Each packet that a full transmit ring refuses is a buffer lost for good; with a link
  that is down the pool drains, and then neither process receives any more, even
  when the link is back. `NoMbufLost` names this and the killed process as
  the only two ways a buffer is lost.
- If the flow rule is refused, or before it exists, election packets go to queue 0 and
  sense frees them.
- In ping-pong one lost frame ends the exchange: nothing is sent again.

## 4. Theorems

### The election

In `RaftElectionProofs`, for every set of nodes, every `MaxTerm`, every
combination of `TestAutoFail`, `Duplication`, `Loss`; the assumptions are those of
the module: the set of nodes is finite, `NoVote` is not a node.

| Theorem | Needs | States |
|---|---|---|
| `TypeCorrect` | | `TypeOK` |
| `TimersCorrect` | | `TimersMatchState` |
| `ElectionCorrect`, `LeadersCorrect` | | `ElectionInv`, `LeadersAreElected` |
| `TermsCorrect` | | `TermsAreStarted`: a time-out began every term that is seen |
| `LoneNodeNeverLeads` | one node | a cluster of one elects nobody |
| `OneVoteCorrect` | no restart | `OneVotePerTerm` |
| `HalfCorrect` | no restart | `AtMostHalfLead` |
| `MajorityCorrect` | at most three nodes | `LeaderHasMajority` |
| `SafetyCorrect`, `DeposedCorrect` | both | `ElectionSafety`, `DeposedByLaterTerm` |
| `Implementation` | both | `Spec => TermLeaders!Spec` |

The argument. `ElectionSafety` is not inductive: that a second leader cannot win
depends on the packets on the wire and on what voters remember. `ElectionInv` says
what packets and states stand for, and no restart can break: a response on the
wire is a vote given in its term to its receiver, a candidate has voted for
itself, and whoever was elected had its own vote and that of another node.
`MemoryInv` says what voters remember, and holds until a restart: a node has voted
in no term beyond its own, `voted_for` is its vote of that term, and a candidate has
not led its term yet. From the second follows `OneVotePerTerm`; from the first, with at
most three nodes, that an elected node has a majority (two of three); two
majorities share a voter, and one vote per term then makes two leaders one
(`ElectionSafety`). A heartbeat of its own term would have to come from a second
leader of that term, hence `DeposedByLaterTerm`, and with it every step is a step
of `TermLeaders` or a stutter. The hypothesis of three nodes is needed: the run
`raft_no_majority` is the counterexample for four. The hypothesis of no restart is
needed as well, for a term's uniqueness but not for its leader's majority.

What is left of `ElectionSafety` for larger clusters is `AtMostHalfLead`: at most half of the
nodes become leader in one term. An elected node's second voter is no leader of that
term, since a leader has given its one vote to itself, and it is the voter of that
leader alone (`VoterOfLeader`); so the leaders of a term map one to one to the other
nodes (`HalfOfNodes`). TLC finds the bound reached: with four nodes and a network that
repeats packets, two nodes become leader of term 1. For three nodes it is `ElectionSafety`
again; for one it says that nobody leads, which `LoneNodeNeverLeads` states with restarts.

### The timers

In `RteTimerProofs`, for every set of lcores and of timers, one-shot and periodic, and
every number of calls.

| Theorem | States |
|---|---|
| `TypeCorrect` | `TypeOK` |
| `OneListCorrect` | `OneList` |
| `StoppedCorrect` | `StoppedIsUnlinked` |
| `ArmedCorrect` | `RunsOnlyIfArmed` |
| `ListedCorrect` | `ArmedIsListed` |
| `CallbackCorrect` | `CallbackAlone`: a callback has its timer to itself until it resets or stops it |
| `LocksCorrect` | `HoldersGoOn`: the holder of a lock waits for no lock |

The argument. No lock protects a timer, and the lock of a list is released while the timer
changes hands; what protects it is its status word. A timer in CONFIG belongs to exactly
one call (`CallInv`). One in RUNNING is in the run list of its owner or is the one being
served, and `updated` tells whether its callback has changed it (`RunInv`): so the
reload after a callback never touches a timer that a call has taken. A list links only
timers whose status names it, or that a call is about to delete from it, and all the
pending ones but the one its lcore is putting back under the lock (`ListInv`); hence a
deletion finds what it looks for, and nothing is inserted twice. That a timer is armed
then shows in its status and its place (`LiveInv`).

The last two follow from the same invariant. `CallbackAlone` is more than mutual exclusion
of callbacks: other lcores may still have the timer as the one they last ran, and
the status word of a RUNNING timer must keep them from touching it.
`HoldersGoOn` is the safety part of `EventuallyRuns`: locks are taken one at a time, but for
one place, the reload of a periodic timer, which calls `__rte_timer_reset` with the
lcore's own list locked. Had the timer moved to another owner's list by then, its
deletion would take a second lock, and two lcores could wait for each other. It cannot
have moved: whoever took it must first have the lock of the list it was marked
pending in.

### The measurements

In `SenseStatsProofs`, for every finite set of peers, every ring, window and bound;
the one assumption is that the counters are wide enough for the bounds
(`Word > MaxTime + MaxPongs`), as 32 bits are for a ping a second.

| Theorem | States |
|---|---|
| `TypeCorrect` | `TypeOK` |
| `LossCorrect` | `LossNotOverstated` |
| `ExactCorrect` | `LossIsUnanswered` |
| `AverageCorrect` | `AverageIsOfWindow` |

The argument. That no subtraction wraps needs three facts at once (`CountInv`):
every pong counted left a sample, `ping_sent` is never below `pong_recv` (the clamp),
and as many pings are missing at most as are unanswered. A pong that answers
nothing, whether a duplicate or one to the process before, can then only lower
the loss count; a pong that answers lowers both sides. `ExactInv` adds what the
wire holds: until the network duplicates something or the process restarts, each
packet stands for an unanswered ping of its own, so no pong answers nothing.

`AverageIsOfWindow` compares two sums: the code walks the ring backwards from its head and
stops at the first sample too old, the property folds over the samples of the window.
`RingInv` says what the ring holds: the last `MaxSamples` samples in order, at their number
modulo the size of the ring, with times that never go back; so the walk stops at the right
place, and what it has walked is the end of the sequence of samples (`WalkMeets`,
`WalkedAreRecent`). That the two sums agree needs an induction, over finite sets. The library's
theorems for it take an operator, which the provers cannot instantiate; the proof
uses that the strict subsets of a finite set are well founded, which needs none:
the smallest counterexample has an element, and without it is no counterexample
(`SetInduction`). A sum is then described by a function that gives every subset its sum
(`IsSum`); there is one and only one (`SumExists`, `SumUnique`), the fold of the
community modules computes it (`Fold`), and it does not change when the elements are renamed
one to one (`SumMoved`), which takes slots to samples.

### The reports

In `SenseLcoresProofs`, for every set of peers and every bound.

| Theorem | States |
|---|---|
| `TypeCorrect` | `TypeOK` |
| `RecentCorrect` | `ReportIsRecent` |
| `ForwardCorrect` | `ReportsDoNotGoBack` |
| `LossCorrect` | `LossNotOlderThanAverage` |

The argument. Main only ever moves a figure forward: a callback under way holds
the round before for the peers it has still to write (`SnapshotInv`). So what the
worker holds is behind main and ahead of every report (`WorkerInv`, `ReportsInv`),
peer by peer, whatever rounds a torn copy mixes; and the loss count recorded
with an average that is written is not written again, so one read after it is
not older.

### The ring

In `RteRingProofs` and `RteRingQueueProofs`, for every finite set of threads, every size of ring that divides the
word, every start and every bulk.

| Theorem | Needs | States |
|---|---|---|
| `TypeCorrect` | `NoLap` | `TypeOK`: nothing but objects is ever handed out |
| `OrderCorrect` | `NoLap` | `IndicesInOrder` |
| `RefusalsCorrect` | `NoLap` | `RefusesTruthfully` |
| `OwnerCorrect` | `NoLap` | `OneOwner` |
| `QueueCorrect` | `NoLap` | `ImplementsQueue`: the ring implements `BoundedQueue` |
| `TurnCorrect` | `NoLap` | `OneTurn`: one call of a side has its turn, whenever any is copying |

The argument. Indices are compared after a wrap, so the proof counts what has passed each
of them since the start (`Passed`), which is a number and turns differences of words into
differences (`PassedPlus`, `MinusPassed`). Then the order is an inequality of four numbers
(`OrderInv`), and what a call has loaded or computed can only be behind: a head loaded is
not ahead of the head, and the room granted is there, because the tail it was
computed from only goes on (`CallInv`). A dequeue reads slots below the producer tail only,
and an enqueue has written all of its own before that tail passes them (`WrittenInv`).

The order of the indices does not say who has which slot, so `RteRingQueueProofs`
strengthens it (`QInv`). The reservations of the calls that copy lie side by side between a tail
and its head and leave no slot out (`RangeInv`). Indices less than
`Size` apart have different slots (`SlotsDiffer`), so a store touches nothing that another
call has reserved or that is in the queue (`Stores`), and what a call has copied stays
the same in the slots and in its table (`CopyInv`). Each object is outside, given to
one enqueue, or in one slot that is held, the two tails being the bounds (`ApartInv`, `NoneLost`).
For the refinement, an enqueue puts its objects when it moves the producer tail, and
a dequeue takes its own when it moves the consumer head; every other step of a call is
a stutter, because it changes neither of these indices and no held slot (`QueueKept`,
`HandKept`). A stretch of the ring is the sequence of its slots, cut or extended
as the head or the tail moves (`ContentsSplit`).

A call whose slots are copied waits for the tail to reach them. `OneTurn` is the safety part of
`CallsReturn`: as the reservations leave no slot out, the first slot past the tail is
the beginning of one of them, and of one only; its call can go on, unless it was killed
there, and the others wait for it in the order of their slots.

`NoLap` says that fewer objects pass in a behaviour than an index has values (`PassInv`
bounds them by `MaxBulk * MaxCalls`). It is what the compare-and-swap needs: a thread that is held up
between loading a head and swapping it while 2^32 objects pass finds the head where it
was, with a room that is no longer true. The indices do wrap under `NoLap`, since they may
start anywhere.

### The launch

In `EalLaunchProofs`, for every finite set of workers and every number of launches.

| Theorem | States |
|---|---|
| `TypeCorrect` | `TypeOK`: no pipe ever holds a second byte |
| `ExclusiveCorrect` | `ConfigHasOneUser` |
| `CalledOnceCorrect` | `CallsWhatWasLaunched` |
| `WaitCorrect` | `WaitReturnsResult` |
| `ProgressCorrect` | `NoMutualWait`: the main lcore and a worker never wait for each other |

The argument. There is no lock, so what protects the record is where the two sides stand:
the state word is WAIT exactly while the worker is at its read or about to set RUNNING,
a byte is in one pipe at most, and only while the main lcore waits for the answer
(`HandshakeInv`). Hence the main lcore stores while the worker is blocked, and `f` and
`arg` are those of the last launch from the stores until the worker clears them
(`LaunchInv`). A job not yet handed to a worker was never called there (`FreshInv`),
and one that was handed over is either still to be called, or its result is in the record
(`ResultInv`): a wait that finds WAIT finds that result. `NoMutualWait` is the safety
part of `CallsReturn`: it adds that a command is not lost between the pipes, so that while
the main lcore reads its answer the command is in the worker's pipe or the answer is
due (`AnswerInv`).

### The two processes

In `SenseNetelectProofs`, for every size of pool, rings and burst with a pool that fills
both receive rings, every number of peers, any ports, and any number of starts.

| Theorem | States |
|---|---|
| `TypeCorrect` | `TypeOK`: no ring overflows, nor does the pool |
| `MbufCorrect` | `NoMbufLost` |
| `AttachCorrect` | `AttachedAsPublished` |
| `TimersCorrect` | `ListsOwnTimers` |
| `PoolCorrect` | `PoolSuffices`: with `PoolIsLarge`, no allocation fails before a buffer is lost |
| `ReceptionCorrect` | `ReceptionFed`: with `PoolFeedsReception`, a poll of netelect finds a buffer before one is lost |

The argument. The memzone fills up in the order of the stores (`PublishInv`) and nothing
is ever taken back, so what netelect has seen stays true (`AttachInv`): having found the
name, it finds the queues. Nothing but `raft_init` links a timer in the list of
netelect's lcore (`TimersInv`). For the buffers, a user outside its loop holds none
and one that is sending has something left to send (`LoopInv`), and every step either
keeps the sum of the buffers in the pool, the descriptors, the transmit rings and the
hands, or is one of the two known losses. The sum alone is not inductive: after a loss the
pool must still have room for what comes back, so `MbufInv` keeps "at most the
pool" for ever beside "exactly the pool" until the first loss.

`PoolCorrect` puts the sizes in: a user holds a burst and the packet it is sending at most
(`HoldsBound`), so a pool of more than `2 * RxRing + 2 * TxRing + 2 * Burst + 3` buffers never
runs dry until one is lost. The source has 4096 against 1347 (descriptors 128 and 512,
bursts of 32), and no per-lcore caches that would keep buffers from others: there, a
failed allocation means that hundreds of buffers have leaked. TLC finds the bound
exact: with rings and bursts of one, a pool of ten suffices and one of nine does not.
`SenseNetelect.cfg` has a smaller pool on purpose, so that allocations fail. What it must
still do is feed the reception of the election: netelect polls with empty hands, so
more than `2 * RxRing + 2 * TxRing + Burst + 2` buffers are enough (`ReceptionCorrect`), and
`ElectionPacketsReceived` holds from that size on: of eight buffers, and not of seven.

### What is only model-checked

Liveness: the temporal properties of `raft_live`, `rte_timer`, `rte_ring`, `eal_launch` and
`sense_netelect`, which rest on fairness. Of four of them the proofs have the safety part:
that nobody waits for somebody who waits (`HoldersGoOn`, `OneTurn`, `NoMutualWait`), and
that reception is fed (`ReceptionFed`). Every
invariant and every action property of the passing runs is a theorem. `AtMostHalfLead`,
`TermsAreStarted`, `CallbackAlone`, `HoldersGoOn`, `OneTurn`, `NoMutualWait`,
`PoolSuffices` and `ReceptionFed` are stated in the modules of the proofs and are in no run.

## 5. Not modelled

- Configuration, printing of counters, scripts, collector: input and output only.
- Set-up errors that end a process at once (`rte_exit` before anything is shared), and
  sense leaving while netelect runs.
- Single-producer and single-consumer rings, the RTS and HTS modes, and per-lcore
  caches of pools: these applications use none of them. Reference counts and chains of
  mbufs: every packet here is one buffer with one owner.
- Weak memory: the models are sequentially consistent. The ring, the launch and the
  timers carry the barriers for it; the snapshot of sense does not, and its model
  leaves the order of loads and stores open.
- `raft_node` shared by several lcores (`-l 0-3`): the model assumes one lcore.
- Wrap-around of terms and counters (the models bound them well below).
- Ping-pong: one frame that is answered by a frame; two states.
- `app/raft-netelect-backup`, which is not built.
- Drivers and hardware, beyond what the models take from them as external; the rest of
  DPDK, which these applications do not call.

## 6. Plan

Done: the election with its abstract specification, the timer library, both sides of
sense, the launch, the ring with its abstract queue, and the two processes on one port,
all with proofs. Every invariant that is checked is proved. Open are what section 5 leaves
out, and the liveness properties, whose proof is out of the prover's reach.
