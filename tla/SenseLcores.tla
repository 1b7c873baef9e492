------------------------------- MODULE SenseLcores --------------------------------
(***************************************************************************)
(* The two lcores of dpdk-sense (app/sense main.c).  The main lcore polls, *)
(* pings, and once a second rewrites the snapshot of averages, peer by peer*)
(* (snapshot_cb).  The worker lcore, every five seconds, copies that       *)
(* snapshot (api.c sense_get_unified_snapshot_latest), joins to it the     *)
(* loss counts of the live table (sense_stats_build_report) and sends the  *)
(* report to the collector.  They share the snapshot, the table and the    *)
(* transmit queue, without any lock.                                       *)
(*                                                                         *)
(* Averages and loss counts are told apart by their age only: the average  *)
(* of a peer is the number of the snapshot round that computed it, its loss*)
(* count the number of the update that set it.  Every load and store of one*)
(* peer's figure is a step of its own; the order of the loads of a memcpy, *)
(* and of the stores of the callback's loop, is the compiler's and the     *)
(* processor's to choose.                                                  *)
(***************************************************************************)
EXTENDS Naturals, Sequences

CONSTANTS
    Peer,         \* the peers in the snapshot
    MaxRounds,    \* bound: snapshot rounds in a behaviour
    MaxUpdates,   \* bound: updates of one peer's loss count
    MaxReports    \* bound: reports sent

ASSUME BoundAssumption ==
    MaxRounds \in Nat /\ MaxUpdates \in Nat /\ MaxReports \in Nat

VARIABLES
    mainPc,     \* main lcore: "loop", "callback", "tx", "left", "exited"
    workerPc,   \* worker lcore: "idle", "copy", "read", "tx", "returned"
    forceQuit,  \* force_quit
    round,      \* snapshot rounds begun
    unwritten,  \* main: the peers the callback has still to write
    snapshot,   \* snapshot.avg_us[p], as the round that computed it
    lossCount,  \* rtt_tbl->entries[p].loss_count, as the number of its update
    todo,       \* worker: the peers still to copy or to read
    snap,       \* worker: its copy of the snapshot
    report,     \* worker: the loss counts of the report being built
    statsSeq,   \* stats_seq
    since,      \* history: the last round complete when the copy began
    lossAt,     \* history: lossAt[p][r], loss_count of p when round r wrote its average
    reports     \* history: the reports sent, in order

mainVars   == <<mainPc, round, unwritten, snapshot, lossCount, lossAt>>
workerVars == <<workerPc, todo, snap, report, statsSeq, since, reports>>
vars == <<mainVars, workerVars, forceQuit>>

Rounds  == 0..MaxRounds
Updates == 0..MaxUpdates

TypeOK ==
    /\ mainPc \in {"loop", "callback", "tx", "left", "exited"}
    /\ workerPc \in {"idle", "copy", "read", "tx", "returned"}
    /\ forceQuit \in BOOLEAN
    /\ round \in Rounds
    /\ unwritten \subseteq Peer
    /\ unwritten # {} => mainPc = "callback"
    /\ snapshot \in [Peer -> Rounds]
    /\ lossCount \in [Peer -> Updates]
    /\ todo \subseteq Peer
    /\ snap \in [Peer -> Rounds]
    /\ report \in [Peer -> Updates]
    /\ statsSeq \in 0..MaxReports
    /\ since \in Rounds
    /\ lossAt \in [Peer -> [Rounds -> Updates]]
    /\ reports \in Seq([seq : 1..MaxReports, since : Rounds,
                        avg : [Peer -> Rounds], loss : [Peer -> Updates]])

Init ==
    /\ mainPc = "loop" /\ workerPc = "idle"
    /\ forceQuit = FALSE
    /\ round = 0 /\ unwritten = {}
    /\ snapshot = [p \in Peer |-> 0]
    /\ lossCount = [p \in Peer |-> 0]
    /\ todo = {}
    /\ snap = [p \in Peer |-> 0]
    /\ report = [p \in Peer |-> 0]
    /\ statsSeq = 0
    /\ since = 0
    /\ lossAt = [p \in Peer |-> [r \in Rounds |-> 0]]
    /\ reports = <<>>

\* signal_handler.
Signal ==
    /\ ~forceQuit
    /\ forceQuit' = TRUE
    /\ UNCHANGED <<mainVars, workerVars>>

-----------------------------------------------------------------------------
(* The main lcore.                                                         *)

\* The rounds whose averages are all written.
Complete == IF mainPc = "callback" THEN round - 1 ELSE round

\* process_rx handles a pong: sense_stats_update sets loss_count.
HandlePong(p) ==
    /\ mainPc = "loop"
    /\ lossCount[p] < MaxUpdates
    /\ lossCount' = [lossCount EXCEPT ![p] = @ + 1]
    /\ UNCHANGED <<mainPc, round, unwritten, snapshot, lossAt, workerVars, forceQuit>>

\* send_ping_packet: loss_count is set before the ping enters rte_eth_tx_burst.
SendPing(p) ==
    /\ mainPc = "loop"
    /\ lossCount[p] < MaxUpdates
    /\ lossCount' = [lossCount EXCEPT ![p] = @ + 1]
    /\ mainPc' = "tx"
    /\ UNCHANGED <<round, unwritten, snapshot, lossAt, workerVars, forceQuit>>

\* send_pong_packet enters rte_eth_tx_burst.
SendPong ==
    /\ mainPc = "loop"
    /\ mainPc' = "tx"
    /\ UNCHANGED <<round, unwritten, snapshot, lossCount, lossAt, workerVars, forceQuit>>

MainTxDone ==
    /\ mainPc = "tx"
    /\ mainPc' = "loop"
    /\ UNCHANGED <<round, unwritten, snapshot, lossCount, lossAt, workerVars, forceQuit>>

\* Mutant: the callback begins by clearing the snapshot, as sense_get_rtt_avg_all does.
SnapshotTimeoutClears ==
    /\ mainPc = "loop"
    /\ round < MaxRounds
    /\ round' = round + 1
    /\ unwritten' = Peer
    /\ snapshot' = [p \in Peer |-> 0]
    /\ mainPc' = "callback"
    /\ UNCHANGED <<lossCount, lossAt, workerVars, forceQuit>>

\* rte_timer_manage runs snapshot_cb.
SnapshotTimeout ==
    /\ mainPc = "loop"
    /\ round < MaxRounds
    /\ round' = round + 1
    /\ unwritten' = Peer
    /\ mainPc' = "callback"
    /\ UNCHANGED <<snapshot, lossCount, lossAt, workerVars, forceQuit>>

WriteAverage(p) ==
    /\ p \in unwritten
    /\ unwritten' = unwritten \ {p}
    /\ snapshot' = [snapshot EXCEPT ![p] = round]
    /\ lossAt' = [lossAt EXCEPT ![p][round] = lossCount[p]]
    /\ mainPc' = IF unwritten' = {} THEN "loop" ELSE "callback"
    /\ UNCHANGED <<round, lossCount, workerVars, forceQuit>>

\* main leaves its loop and calls rte_eal_cleanup; it does not wait for the worker.
EalCleanup ==
    /\ mainPc = "loop"
    /\ forceQuit
    /\ mainPc' = "left"
    /\ UNCHANGED <<round, unwritten, snapshot, lossCount, lossAt, workerVars, forceQuit>>

\* main returns, which ends the process and the worker with it.
Exit ==
    /\ mainPc = "left"
    /\ mainPc' = "exited"
    /\ UNCHANGED <<round, unwritten, snapshot, lossCount, lossAt, workerVars, forceQuit>>

-----------------------------------------------------------------------------
(* The worker lcore: xstats_worker.                                        *)

Running == mainPc # "exited"

\* Five seconds are over: memcpy of the snapshot begins.
BeginCopy ==
    /\ Running
    /\ workerPc = "idle"
    /\ ~forceQuit
    /\ statsSeq < MaxReports
    /\ workerPc' = "copy"
    /\ todo' = Peer
    /\ since' = Complete
    /\ UNCHANGED <<mainVars, snap, report, statsSeq, reports, forceQuit>>

\* Mutant: the average of an earlier copy is kept.
CopyAverageStale(p) ==
    /\ Running
    /\ workerPc = "copy"
    /\ p \in todo
    /\ todo' = todo \ {p}
    /\ \E r \in {snap[p], snapshot[p]} : snap' = [snap EXCEPT ![p] = r]
    /\ UNCHANGED <<mainVars, workerPc, report, statsSeq, since, reports, forceQuit>>

CopyAverage(p) ==
    /\ Running
    /\ workerPc = "copy"
    /\ p \in todo
    /\ todo' = todo \ {p}
    /\ snap' = [snap EXCEPT ![p] = snapshot[p]]
    /\ UNCHANGED <<mainVars, workerPc, report, statsSeq, since, reports, forceQuit>>

\* sense_metadata_snapshot fails, or no collector is configured: no report.
Abandon ==
    /\ Running
    /\ workerPc = "copy" /\ todo = {}
    /\ workerPc' = "idle"
    /\ UNCHANGED <<mainVars, todo, snap, report, statsSeq, since, reports, forceQuit>>

\* sense_publish_stats calls sense_stats_build_report.
BeginReport ==
    /\ Running
    /\ workerPc = "copy" /\ todo = {}
    /\ workerPc' = "read"
    /\ todo' = Peer
    /\ UNCHANGED <<mainVars, snap, report, statsSeq, since, reports, forceQuit>>

\* Mutant: the loss counts of the report before are kept.
ReadLossNever(p) ==
    /\ Running
    /\ workerPc = "read"
    /\ p \in todo
    /\ todo' = todo \ {p}
    /\ UNCHANGED <<mainVars, workerPc, snap, report, statsSeq, since, reports, forceQuit>>

ReadLoss(p) ==
    /\ Running
    /\ workerPc = "read"
    /\ p \in todo
    /\ todo' = todo \ {p}
    /\ report' = [report EXCEPT ![p] = lossCount[p]]
    /\ UNCHANGED <<mainVars, workerPc, snap, statsSeq, since, reports, forceQuit>>

\* Mutant: the number is taken before it is incremented (stats_seq++).
PublishOldSeq ==
    /\ Running
    /\ workerPc = "read" /\ todo = {}
    /\ statsSeq' = statsSeq + 1
    /\ reports' = Append(reports, [seq |-> statsSeq, since |-> since,
                                   avg |-> snap, loss |-> report])
    /\ workerPc' = "tx"
    /\ UNCHANGED <<mainVars, todo, snap, report, since, forceQuit>>

\* The report gets its number and enters rte_eth_tx_burst, on the queue that the
\* main lcore uses (SENSE_PRIMARY_TXQ).
Publish ==
    /\ Running
    /\ workerPc = "read" /\ todo = {}
    /\ statsSeq' = statsSeq + 1
    /\ reports' = Append(reports, [seq |-> statsSeq + 1, since |-> since,
                                   avg |-> snap, loss |-> report])
    /\ workerPc' = "tx"
    /\ UNCHANGED <<mainVars, todo, snap, report, since, forceQuit>>

WorkerTxDone ==
    /\ Running
    /\ workerPc = "tx"
    /\ workerPc' = "idle"
    /\ UNCHANGED <<mainVars, todo, snap, report, statsSeq, since, reports, forceQuit>>

\* The loop's condition is read between two iterations only.
WorkerReturn ==
    /\ Running
    /\ workerPc = "idle"
    /\ forceQuit
    /\ workerPc' = "returned"
    /\ UNCHANGED <<mainVars, todo, snap, report, statsSeq, since, reports, forceQuit>>

-----------------------------------------------------------------------------
MainStep ==
    \/ \E p \in Peer : HandlePong(p) \/ SendPing(p) \/ WriteAverage(p)
    \/ SendPong \/ MainTxDone \/ SnapshotTimeout \/ EalCleanup \/ Exit

WorkerStep ==
    \/ \E p \in Peer : CopyAverage(p) \/ ReadLoss(p)
    \/ BeginCopy \/ Abandon \/ BeginReport \/ Publish \/ WorkerTxDone \/ WorkerReturn

Next == Signal \/ MainStep \/ WorkerStep

Spec == Init /\ [][Next]_vars

-----------------------------------------------------------------------------
(* Properties.                                                             *)

\* No average of a report is older than the snapshot that was complete when the
\* worker began to copy, nor newer than the report (api.c 29-33 without a lock).
ReportIsRecent ==
    \A i \in DOMAIN reports, p \in Peer : reports[i].avg[p] \in reports[i].since..round

\* A report with a higher number never carries an older figure for a peer, so that
\* a collector may keep the highest number (packet.h 37), torn copies or not.
ReportsDoNotGoBack ==
    \A i, j \in DOMAIN reports, p \in Peer :
        reports[i].seq < reports[j].seq =>
            /\ i < j
            /\ reports[i].avg[p] <= reports[j].avg[p]
            /\ reports[i].loss[p] <= reports[j].loss[p]

\* The loss count of a peer is read from the live table after its average was
\* copied, so a report never joins an average to a loss count older than it
\* (stats.c 176-178).
LossNotOlderThanAverage ==
    \A i \in DOMAIN reports, p \in Peer :
        reports[i].loss[p] >= lossAt[p][reports[i].avg[p]]

\* rte_ethdev.h 25-31: no two lcores are ever in rte_eth_tx_burst on one queue.
TxQueueExclusive == ~(mainPc = "tx" /\ workerPc = "tx")

-----------------------------------------------------------------------------
(* The inductive invariants behind these properties.                       *)

\* While the callback runs, the peers it has still to write hold the round before;
\* no average was computed with a loss count of the future (stats.c 138-143).
SnapshotInv ==
    /\ mainPc = "callback" => round >= 1
    /\ \A p \in Peer : snapshot[p] = IF p \in unwritten THEN round - 1 ELSE round
    /\ \A p \in Peer, r \in Rounds : lossAt[p][r] <= lossCount[p]

\* The worker's figures are never ahead of main's, those it has copied are of the
\* round complete at the beginning or later, and the loss counts it has read are
\* those of the averages copied or later (api.c 31-33, stats.c 172-180).
WorkerInv ==
    /\ since <= Complete
    /\ workerPc \in {"copy", "read"} => statsSeq < MaxReports
    /\ \A p \in Peer : snap[p] <= snapshot[p] /\ report[p] <= lossCount[p]
    /\ \A p \in Peer :
        workerPc = "read" \/ (workerPc = "copy" /\ p \notin todo) => since <= snap[p]
    /\ \A p \in Peer :
        workerPc = "read" /\ p \notin todo => report[p] >= lossAt[p][snap[p]]

\* The reports are numbered in their order, and none has a figure beyond those the
\* worker holds (sense/networking.c 318-322).
ReportsInv ==
    /\ Len(reports) = statsSeq
    /\ \A i \in DOMAIN reports :
        /\ reports[i].seq = i
        /\ \A p \in Peer :
            /\ reports[i].since <= reports[i].avg[p]
            /\ reports[i].avg[p] <= snap[p]
            /\ reports[i].loss[p] <= report[p]
            /\ reports[i].loss[p] >= lossAt[p][reports[i].avg[p]]
    /\ \A i, j \in DOMAIN reports, p \in Peer :
        i < j => /\ reports[i].avg[p] <= reports[j].avg[p]
                 /\ reports[i].loss[p] <= reports[j].loss[p]
=============================================================================
