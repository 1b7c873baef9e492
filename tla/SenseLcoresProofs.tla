---------------------------- MODULE SenseLcoresProofs ----------------------------
(***************************************************************************)
(* Theorems about SenseLcores, for every set of peers and every bound.     *)
(***************************************************************************)
EXTENDS SenseLcores, TLAPS

USE BoundAssumption

Report == [seq : 1..MaxReports, since : Rounds,
           avg : [Peer -> Rounds], loss : [Peer -> Updates]]

\* A step of the main lcore keeps the types (main.c 96-121, stats.c 138-143).
LEMMA MainType == ASSUME TypeOK, MainStep PROVE TypeOK'
<1> USE DEF mainVars, workerVars, TypeOK, Rounds, Updates
<1>1. ASSUME NEW p \in Peer, HandlePong(p) \/ SendPing(p) PROVE TypeOK'
  <2>1. /\ lossCount[p] < MaxUpdates /\ lossCount' = [lossCount EXCEPT ![p] = @ + 1]
        /\ mainPc = "loop" /\ mainPc' \in {"loop", "tx"}
        /\ UNCHANGED <<round, unwritten, snapshot, lossAt, workerVars, forceQuit>>
    BY <1>1 DEF HandlePong, SendPing
  <2>2. lossCount' \in [Peer -> Updates]
    BY <2>1
  <2> QED
    BY <2>1, <2>2
<1>2. ASSUME NEW p \in Peer, WriteAverage(p) PROVE TypeOK'
  <2>1. lossAt' \in [Peer -> [Rounds -> Updates]]
    BY <1>2 DEF WriteAverage
  <2> QED
    BY <1>2, <2>1 DEF WriteAverage
<1>3. CASE SnapshotTimeout
  BY <1>3 DEF SnapshotTimeout
<1>4. CASE SendPong \/ MainTxDone \/ EalCleanup \/ Exit
  BY <1>4 DEF SendPong, MainTxDone, EalCleanup, Exit
<1> QED
  BY <1>1, <1>2, <1>3, <1>4 DEF MainStep

\* A step of the worker lcore keeps the types (xstats_worker).
LEMMA WorkerType ==
    ASSUME TypeOK, SnapshotInv, WorkerInv, WorkerStep PROVE TypeOK'
<1> USE DEF mainVars, workerVars, TypeOK, Rounds, Updates
<1>1. ASSUME NEW p \in Peer, CopyAverage(p) \/ ReadLoss(p) PROVE TypeOK'
  BY <1>1 DEF CopyAverage, ReadLoss
<1>2. CASE BeginCopy
  <2>1. Complete \in Rounds
    BY DEF Complete, SnapshotInv
  <2> QED
    BY <1>2, <2>1 DEF BeginCopy
<1>3. CASE Abandon \/ BeginReport \/ WorkerTxDone \/ WorkerReturn
  BY <1>3 DEF Abandon, BeginReport, WorkerTxDone, WorkerReturn
<1>4. CASE Publish
  <2>1. statsSeq + 1 \in 1..MaxReports
    BY <1>4 DEF Publish, WorkerInv
  <2>2. [seq |-> statsSeq + 1, since |-> since, avg |-> snap, loss |-> report] \in Report
    BY <2>1 DEF Report
  <2>3. reports' \in Seq(Report)
    BY <1>4, <2>2 DEF Publish, Report
  <2> QED
    BY <1>4, <2>1, <2>3 DEF Publish, Report
<1> QED
  BY <1>1, <1>2, <1>3, <1>4 DEF WorkerStep

-----------------------------------------------------------------------------
\* What TypeOK says of a report (sense_stats_report_packet).
LEMMA ReportFacts ==
    ASSUME TypeOK, NEW i \in DOMAIN reports
    PROVE  /\ i \in Nat /\ reports[i].seq \in Nat /\ reports[i].since \in Nat
           /\ \A p \in Peer : /\ reports[i].avg[p] \in Nat /\ reports[i].avg[p] \in Rounds
                              /\ reports[i].loss[p] \in Nat
<1>1. reports \in Seq(Report)
  BY DEF TypeOK, Report
<1>2. reports[i] \in Report /\ i \in Nat
  BY <1>1
<1> QED
  BY <1>2 DEF Report, Rounds, Updates

\* The worker's figures as numbers.
LEMMA WorkerFacts ==
    ASSUME TypeOK, NEW p \in Peer
    PROVE  /\ snap[p] \in Nat /\ snap[p] \in Rounds /\ report[p] \in Nat
           /\ lossCount[p] \in Nat /\ since \in Nat /\ snapshot[p] \in Nat
           /\ \A r \in Rounds : lossAt[p][r] \in Nat
BY DEF TypeOK, Rounds, Updates

\* Where the callback stands, peer by peer.
LEMMA SnapshotFacts ==
    ASSUME TypeOK, SnapshotInv, NEW p \in Peer
    PROVE  /\ Complete \in Nat /\ snapshot[p] \in Nat /\ round \in Nat
           /\ Complete <= snapshot[p] /\ snapshot[p] <= round
           /\ p \in unwritten => snapshot[p] < round
BY DEF TypeOK, SnapshotInv, Complete, Rounds

\* Main's figures only grow, and the loss count recorded with an average that has
\* been written is not written again.
LEMMA MainGrows ==
    ASSUME TypeOK, SnapshotInv, MainStep
    PROVE  /\ SnapshotInv' /\ Complete <= Complete' /\ Complete' \in Nat
           /\ \A p \in Peer : snapshot[p] <= snapshot'[p] /\ lossCount[p] <= lossCount'[p]
           /\ \A p \in Peer : \A r \in 0..snapshot[p] : lossAt'[p][r] = lossAt[p][r]
           /\ UNCHANGED workerVars
<1>0. /\ round \in Nat /\ round \in Rounds /\ Rounds \subseteq Nat
      /\ snapshot \in [Peer -> Nat] /\ lossCount \in [Peer -> Nat]
      /\ lossAt \in [Peer -> [Rounds -> Nat]]
      /\ unwritten \subseteq Peer /\ (unwritten # {} => mainPc = "callback")
  BY DEF TypeOK, Rounds, Updates
<1>00. \A p \in Peer : 0..snapshot[p] \subseteq Rounds
  BY DEF TypeOK, Rounds
<1>1. ASSUME NEW p \in Peer, HandlePong(p) \/ SendPing(p)
      PROVE  /\ SnapshotInv' /\ Complete' = Complete
             /\ \A q \in Peer : snapshot[q] = snapshot'[q] /\ lossCount[q] <= lossCount'[q]
             /\ lossAt' = lossAt
             /\ UNCHANGED workerVars
  <2>1. /\ mainPc = "loop" /\ mainPc' \in {"loop", "tx"}
        /\ lossCount' = [lossCount EXCEPT ![p] = @ + 1]
        /\ UNCHANGED <<round, unwritten, snapshot, lossAt, workerVars>>
    BY <1>1 DEF HandlePong, SendPing
  <2>2. \A q \in Peer : lossCount[q] <= lossCount'[q] /\ lossCount'[q] \in Nat
    BY <1>0, <2>1
  <2>3. \A q \in Peer, r \in Rounds : lossAt'[q][r] <= lossCount'[q]
    <3> SUFFICES ASSUME NEW q \in Peer, NEW r \in Rounds PROVE lossAt'[q][r] <= lossCount'[q]
      OBVIOUS
    <3>1. lossAt'[q][r] = lossAt[q][r] /\ lossAt[q][r] \in Nat /\ lossCount[q] \in Nat
      BY <1>0, <2>1
    <3>2. lossAt[q][r] <= lossCount[q]
      BY DEF SnapshotInv
    <3> QED
      BY <2>2, <3>1, <3>2
  <2>4. snapshot' = snapshot /\ lossAt' = lossAt /\ Complete' = Complete
    BY <2>1 DEF Complete
  <2>5. SnapshotInv'
    BY <2>1, <2>3, <2>4 DEF SnapshotInv
  <2> QED
    BY <1>0, <2>1, <2>2, <2>4, <2>5
<1>2. ASSUME NEW p \in Peer, WriteAverage(p)
      PROVE  /\ SnapshotInv' /\ Complete <= Complete' /\ Complete' \in Nat
             /\ \A q \in Peer : snapshot[q] <= snapshot'[q] /\ lossCount[q] <= lossCount'[q]
             /\ \A q \in Peer : \A r \in 0..snapshot[q] : lossAt'[q][r] = lossAt[q][r]
             /\ UNCHANGED workerVars
  <2>1. /\ p \in unwritten /\ unwritten' = unwritten \ {p}
        /\ snapshot' = [snapshot EXCEPT ![p] = round]
        /\ lossAt' = [lossAt EXCEPT ![p][round] = lossCount[p]]
        /\ mainPc' = IF unwritten' = {} THEN "loop" ELSE "callback"
        /\ UNCHANGED <<round, lossCount, workerVars>>
    BY <1>2 DEF WriteAverage
  <2>2. mainPc = "callback" /\ round >= 1 /\ snapshot[p] = round - 1
    BY <1>0, <2>1 DEF SnapshotInv
  <2>3. Complete <= Complete' /\ Complete' \in Nat
    BY <1>0, <2>1, <2>2 DEF Complete
  <2>4. \A q \in Peer : snapshot'[q] = IF q \in unwritten' THEN round - 1 ELSE round
    <3> SUFFICES ASSUME NEW q \in Peer
                 PROVE  snapshot'[q] = IF q \in unwritten' THEN round - 1 ELSE round
      OBVIOUS
    <3>1. snapshot'[q] = IF q = p THEN round ELSE snapshot[q]
      BY <1>0, <2>1
    <3>2. snapshot[q] = IF q \in unwritten THEN round - 1 ELSE round
      BY DEF SnapshotInv
    <3> QED
      BY <2>1, <3>1, <3>2
  <2>5. \A q \in Peer, r \in Rounds :
            lossAt'[q][r] = IF q = p /\ r = round THEN lossCount[p] ELSE lossAt[q][r]
    BY <1>0, <2>1
  <2>6. \A q \in Peer, r \in Rounds : lossAt'[q][r] <= lossCount'[q]
    <3> SUFFICES ASSUME NEW q \in Peer, NEW r \in Rounds PROVE lossAt'[q][r] <= lossCount'[q]
      OBVIOUS
    <3>1. lossAt[q][r] <= lossCount[q] /\ lossCount'[q] = lossCount[q]
      BY <2>1 DEF SnapshotInv
    <3> QED
      BY <1>0, <2>5, <3>1
  <2>7. SnapshotInv'
    BY <2>1, <2>2, <2>4, <2>6 DEF SnapshotInv
  <2>8. \A q \in Peer : \A r \in 0..snapshot[q] : lossAt'[q][r] = lossAt[q][r]
    <3> SUFFICES ASSUME NEW q \in Peer, NEW r \in 0..snapshot[q]
                 PROVE  lossAt'[q][r] = lossAt[q][r]
      OBVIOUS
    <3>1. r \in Rounds /\ r \in Nat /\ r <= snapshot[q]
      BY <1>0, <1>00
    <3>2. ~(q = p /\ r = round)
      BY <1>0, <2>2, <3>1
    <3> QED
      BY <2>5, <3>1, <3>2
  <2>9. \A q \in Peer : snapshot[q] <= snapshot'[q]
    <3> SUFFICES ASSUME NEW q \in Peer PROVE snapshot[q] <= snapshot'[q]
      OBVIOUS
    <3>1. snapshot'[q] = IF q = p THEN round ELSE snapshot[q]
      BY <1>0, <2>1
    <3> QED
      BY <1>0, <2>2, <3>1
  <2> QED
    BY <1>0, <2>1, <2>3, <2>7, <2>8, <2>9
<1>3. CASE SnapshotTimeout
  <2>1. /\ mainPc = "loop" /\ mainPc' = "callback" /\ round' = round + 1 /\ unwritten' = Peer
        /\ UNCHANGED <<snapshot, lossCount, lossAt, workerVars>>
    BY <1>3 DEF SnapshotTimeout
  <2>2. \A p \in Peer : snapshot[p] = round
    BY <1>0, <2>1 DEF SnapshotInv
  <2>3. SnapshotInv'
    BY <1>0, <2>1, <2>2 DEF SnapshotInv
  <2>4. Complete <= Complete' /\ Complete' \in Nat
    BY <1>0, <2>1 DEF Complete
  <2> QED
    BY <1>0, <2>1, <2>3, <2>4
<1>4. CASE SendPong \/ MainTxDone \/ EalCleanup \/ Exit
  <2>1. /\ mainPc # "callback" /\ mainPc' # "callback"
        /\ UNCHANGED <<round, unwritten, snapshot, lossCount, lossAt, workerVars>>
    BY <1>4 DEF SendPong, MainTxDone, EalCleanup, Exit
  <2> QED
    BY <1>0, <2>1 DEF SnapshotInv, Complete
<1>5. Complete \in Nat
  BY <1>0 DEF Complete, SnapshotInv
<1>6. ASSUME NEW p \in Peer, HandlePong(p) \/ SendPing(p)
      PROVE  /\ \A q \in Peer : snapshot[q] <= snapshot'[q]
             /\ \A q \in Peer : \A r \in 0..snapshot[q] : lossAt'[q][r] = lossAt[q][r]
             /\ Complete <= Complete' /\ Complete' \in Nat
  BY <1>0, <1>1, <1>5, <1>6
<1> QED
  BY <1>1, <1>2, <1>3, <1>4, <1>6 DEF MainStep

\* Main's steps do not overtake what the worker holds (api.c 29-33, stats.c 178).
LEMMA MainInv ==
    ASSUME TypeOK, SnapshotInv, WorkerInv, ReportsInv, MainStep
    PROVE  SnapshotInv' /\ WorkerInv' /\ ReportsInv'
<1>1. /\ SnapshotInv' /\ Complete <= Complete' /\ Complete' \in Nat
      /\ \A p \in Peer : snapshot[p] <= snapshot'[p] /\ lossCount[p] <= lossCount'[p]
      /\ \A p \in Peer : \A r \in 0..snapshot[p] : lossAt'[p][r] = lossAt[p][r]
      /\ UNCHANGED <<workerPc, todo, snap, report, statsSeq, since, reports>>
  BY MainGrows DEF workerVars
<1>2. /\ since \in Nat /\ Complete \in Nat
      /\ \A p \in Peer : snap[p] \in 0..snapshot[p]
      /\ \A p \in Peer : /\ snapshot[p] \in Nat /\ snapshot'[p] \in Nat
                         /\ lossCount[p] \in Nat /\ lossCount'[p] \in Nat
                         /\ report[p] \in Nat
  <2>1. TypeOK'
    BY MainType
  <2>2. \A p \in Peer : /\ snapshot[p] \in Nat /\ snapshot'[p] \in Nat
                        /\ lossCount[p] \in Nat /\ lossCount'[p] \in Nat
                        /\ report[p] \in Nat /\ snap[p] \in Nat
    BY <2>1 DEF TypeOK, Rounds, Updates
  <2>3. since \in Nat
    BY DEF TypeOK, Rounds
  <2>4. Complete \in Nat
    BY DEF Complete, SnapshotInv, TypeOK, Rounds
  <2> QED
    BY <2>2, <2>3, <2>4 DEF WorkerInv
<1>3. \A p \in Peer : lossAt'[p][snap[p]] = lossAt[p][snap[p]]
  BY <1>1, <1>2
<1>4. WorkerInv'
  <2>1. since' <= Complete'
    BY <1>1, <1>2 DEF WorkerInv
  <2>2. \A p \in Peer : snap'[p] <= snapshot'[p] /\ report'[p] <= lossCount'[p]
    BY <1>1, <1>2 DEF WorkerInv
  <2> QED
    BY <1>1, <1>3, <2>1, <2>2 DEF WorkerInv
<1>5. ASSUME NEW i \in DOMAIN reports, NEW p \in Peer
      PROVE  lossAt'[p][reports[i].avg[p]] = lossAt[p][reports[i].avg[p]]
  <2>1. reports[i].avg[p] \in Nat /\ snap[p] \in Nat
    BY ReportFacts, WorkerFacts
  <2>2. reports[i].avg[p] <= snap[p]
    BY DEF ReportsInv
  <2> QED
    BY <1>1, <1>2, <2>1, <2>2
<1>6. ReportsInv'
  BY <1>1, <1>5 DEF ReportsInv
<1> QED
  BY <1>1, <1>4, <1>6

\* A copied average: of the complete round at least, and no older than the copy before.
LEMMA CopyAverageInv ==
    ASSUME TypeOK, SnapshotInv, WorkerInv, ReportsInv, NEW p \in Peer, CopyAverage(p)
    PROVE  WorkerInv' /\ ReportsInv'
<1>1. /\ snap \in [Peer -> Rounds] /\ snap' = [snap EXCEPT ![p] = snapshot[p]]
      /\ workerPc = "copy" /\ todo' = todo \ {p}
      /\ UNCHANGED <<mainVars, workerPc, report, statsSeq, since, reports>>
  BY DEF CopyAverage, TypeOK
<1>2. Complete' = Complete
  BY <1>1 DEF Complete, mainVars
<1>3. \A q \in Peer : snap'[q] = IF q = p THEN snapshot[q] ELSE snap[q]
  BY <1>1
<1>4. since <= snapshot[p]
  BY SnapshotFacts, WorkerFacts DEF WorkerInv
<1>5. \A q \in Peer : snap[q] <= snap'[q] /\ snap'[q] <= snapshot[q]
  BY <1>3, WorkerFacts DEF WorkerInv
<1>6. WorkerInv'
  BY <1>1, <1>2, <1>3, <1>4, <1>5 DEF WorkerInv, mainVars
<1>7. ASSUME NEW i \in DOMAIN reports, NEW q \in Peer
      PROVE  reports[i].avg[q] <= snap'[q]
  <2>1. reports[i].avg[q] <= snap[q]
    BY DEF ReportsInv
  <2>2. snap'[q] \in Nat
    BY <1>3, WorkerFacts
  <2> QED
    BY <1>5, <2>1, <2>2, ReportFacts, WorkerFacts
<1>8. ReportsInv'
  BY <1>1, <1>7 DEF ReportsInv, mainVars
<1> QED
  BY <1>6, <1>8

\* A loss count read: no older than its average, nor than the one read before.
LEMMA ReadLossInv ==
    ASSUME TypeOK, SnapshotInv, WorkerInv, ReportsInv, NEW p \in Peer, ReadLoss(p)
    PROVE  WorkerInv' /\ ReportsInv'
<1>1. /\ report \in [Peer -> Updates] /\ report' = [report EXCEPT ![p] = lossCount[p]]
      /\ workerPc = "read" /\ todo' = todo \ {p}
      /\ UNCHANGED <<mainVars, workerPc, snap, statsSeq, since, reports>>
  BY DEF ReadLoss, TypeOK
<1>2. Complete' = Complete
  BY <1>1 DEF Complete, mainVars
<1>3. \A q \in Peer : report'[q] = IF q = p THEN lossCount[q] ELSE report[q]
  BY <1>1
<1>4. lossCount[p] >= lossAt[p][snap[p]]
  BY WorkerFacts DEF SnapshotInv
<1>5. \A q \in Peer : report[q] <= report'[q] /\ report'[q] <= lossCount[q]
  BY <1>3, WorkerFacts DEF WorkerInv
<1>6. WorkerInv'
  BY <1>1, <1>2, <1>3, <1>4, <1>5 DEF WorkerInv, mainVars
<1>7. ASSUME NEW i \in DOMAIN reports, NEW q \in Peer
      PROVE  reports[i].loss[q] <= report'[q]
  <2>1. reports[i].loss[q] <= report[q]
    BY DEF ReportsInv
  <2>2. report'[q] \in Nat
    BY <1>3, WorkerFacts
  <2> QED
    BY <1>5, <2>1, <2>2, ReportFacts, WorkerFacts
<1>8. ReportsInv'
  BY <1>1, <1>7 DEF ReportsInv, mainVars
<1> QED
  BY <1>6, <1>8

\* A report published follows the reports before it.
LEMMA PublishInv ==
    ASSUME TypeOK, SnapshotInv, WorkerInv, ReportsInv, Publish
    PROVE  WorkerInv' /\ ReportsInv'
<1> DEFINE new == [seq |-> statsSeq + 1, since |-> since, avg |-> snap, loss |-> report]
<1>1. /\ workerPc = "read" /\ todo = {} /\ workerPc' = "tx" /\ statsSeq' = statsSeq + 1
      /\ reports' = Append(reports, new)
      /\ UNCHANGED <<mainVars, todo, snap, report, since>>
  BY DEF Publish
<1>2. Complete' = Complete
  BY <1>1 DEF Complete, mainVars
<1>3. WorkerInv'
  BY <1>1, <1>2 DEF WorkerInv, mainVars
<1>4. /\ Len(reports) = statsSeq /\ statsSeq \in Nat /\ reports \in Seq(Report)
      /\ DOMAIN reports = 1..statsSeq
  BY DEF ReportsInv, TypeOK, Report
<1>5. /\ Len(reports') = statsSeq' /\ DOMAIN reports' = 1..statsSeq + 1
      /\ reports'[statsSeq + 1] = new
      /\ \A i \in DOMAIN reports : reports'[i] = reports[i]
  BY <1>1, <1>4
<1>6. /\ new.seq = statsSeq + 1 /\ new.since = since /\ new.avg = snap /\ new.loss = report
  OBVIOUS
<1> HIDE DEF new
<1>7. ASSUME NEW i \in DOMAIN reports'
      PROVE  /\ reports'[i].seq = i
             /\ \A p \in Peer :
                 /\ reports'[i].since <= reports'[i].avg[p]
                 /\ reports'[i].avg[p] <= snap[p]
                 /\ reports'[i].loss[p] <= report[p]
                 /\ reports'[i].loss[p] >= lossAt[p][reports'[i].avg[p]]
  <2>1. CASE i \in DOMAIN reports
    BY <1>5, <2>1 DEF ReportsInv
  <2>2. CASE i = statsSeq + 1
    BY <1>1, <1>5, <1>6, <2>2, WorkerFacts DEF WorkerInv
  <2> QED
    BY <1>4, <1>5, <2>1, <2>2
<1>8. ASSUME NEW i \in DOMAIN reports', NEW j \in DOMAIN reports', NEW p \in Peer, i < j
      PROVE  /\ reports'[i].avg[p] <= reports'[j].avg[p]
             /\ reports'[i].loss[p] <= reports'[j].loss[p]
  <2>1. i \in DOMAIN reports
    BY <1>4, <1>5, <1>8
  <2>2. CASE j \in DOMAIN reports
    BY <1>5, <1>8, <2>1, <2>2 DEF ReportsInv
  <2>3. CASE j = statsSeq + 1
    BY <1>5, <1>6, <1>7, <2>3
  <2> QED
    BY <1>4, <1>5, <2>2, <2>3
<1>9. ReportsInv'
  <2>1. UNCHANGED <<snap, report, lossAt>>
    BY <1>1 DEF mainVars
  <2> QED
    BY <1>5, <1>7, <1>8, <2>1 DEF ReportsInv
<1> QED
  BY <1>3, <1>9

\* A step of the worker lcore (xstats_worker).
LEMMA WorkerStepInv ==
    ASSUME TypeOK, SnapshotInv, WorkerInv, ReportsInv, WorkerStep
    PROVE  SnapshotInv' /\ WorkerInv' /\ ReportsInv'
<1>1. SnapshotInv'
  <2>1. UNCHANGED mainVars
    BY DEF WorkerStep, CopyAverage, ReadLoss, BeginCopy, Abandon, BeginReport, Publish,
           WorkerTxDone, WorkerReturn
  <2> QED
    BY <2>1 DEF SnapshotInv, mainVars
<1>2. CASE \E p \in Peer : CopyAverage(p) \/ ReadLoss(p)
  BY <1>1, <1>2, CopyAverageInv, ReadLossInv
<1>3. CASE BeginCopy
  <2>1. /\ workerPc' = "copy" /\ todo' = Peer /\ since' = Complete /\ statsSeq < MaxReports
        /\ UNCHANGED <<mainVars, snap, report, statsSeq, reports>>
    BY <1>3 DEF BeginCopy
  <2>2. Complete' = Complete /\ Complete <= Complete
    <3>1. Complete \in Nat
      BY DEF Complete, SnapshotInv, TypeOK, Rounds
    <3> QED
      BY <2>1, <3>1 DEF Complete, mainVars
  <2>3. WorkerInv'
    BY <2>1, <2>2 DEF WorkerInv, mainVars
  <2> QED
    BY <1>1, <2>1, <2>3 DEF ReportsInv, mainVars
<1>4. CASE BeginReport
  <2>1. /\ workerPc = "copy" /\ todo = {} /\ workerPc' = "read" /\ todo' = Peer
        /\ UNCHANGED <<mainVars, snap, report, statsSeq, since, reports>>
    BY <1>4 DEF BeginReport
  <2>2. WorkerInv'
    BY <2>1 DEF WorkerInv, mainVars, Complete
  <2> QED
    BY <1>1, <2>1, <2>2 DEF ReportsInv, mainVars
<1>5. CASE Publish
  BY <1>1, <1>5, PublishInv
<1>6. CASE Abandon \/ WorkerTxDone \/ WorkerReturn
  <2>1. /\ workerPc' \in {"idle", "returned"}
        /\ UNCHANGED <<mainVars, todo, snap, report, statsSeq, since, reports>>
    BY <1>6 DEF Abandon, WorkerTxDone, WorkerReturn
  <2>2. WorkerInv'
    BY <2>1 DEF WorkerInv, mainVars, Complete
  <2> QED
    BY <1>1, <2>1, <2>2 DEF ReportsInv, mainVars
<1> QED
  BY <1>2, <1>3, <1>4, <1>5, <1>6 DEF WorkerStep

-----------------------------------------------------------------------------
LcoresInv == TypeOK /\ SnapshotInv /\ WorkerInv /\ ReportsInv

\* The invariants hold when the lcores start (sense_stats_init).
LEMMA LcoresInit == Init => LcoresInv
<1> SUFFICES ASSUME Init PROVE LcoresInv
  OBVIOUS
<1>1. 0 \in Rounds /\ 0 \in Updates /\ 0 \in 0..MaxReports
  BY DEF Rounds, Updates
<1>2. TypeOK
  <2>1. /\ snapshot \in [Peer -> Rounds] /\ lossCount \in [Peer -> Updates]
        /\ snap \in [Peer -> Rounds] /\ report \in [Peer -> Updates]
        /\ lossAt \in [Peer -> [Rounds -> Updates]]
    BY <1>1 DEF Init
  <2>2. reports \in Seq(Report)
    BY DEF Init
  <2>3. round \in Rounds /\ since \in Rounds /\ statsSeq \in 0..MaxReports
    BY <1>1 DEF Init
  <2>4. unwritten = {} /\ todo = {} /\ forceQuit = FALSE /\ mainPc = "loop" /\ workerPc = "idle"
    BY DEF Init
  <2> QED
    BY <2>1, <2>2, <2>3, <2>4 DEF TypeOK, Report
<1>3. \A p \in Peer, r \in Rounds : lossAt[p][r] = 0
  BY DEF Init
<1>4. SnapshotInv
  BY <1>3 DEF Init, SnapshotInv
<1>5. WorkerInv
  BY DEF Init, WorkerInv, Complete
<1>6. ReportsInv
  BY DEF Init, ReportsInv
<1> QED
  BY <1>2, <1>4, <1>5, <1>6 DEF LcoresInv

\* Every reachable state satisfies the inductive invariant.
THEOREM LcoresCorrect == Spec => []LcoresInv
<1>1. LcoresInv /\ [Next]_vars => LcoresInv'
  <2> SUFFICES ASSUME LcoresInv, [Next]_vars PROVE LcoresInv'
    OBVIOUS
  <2> USE DEF LcoresInv
  <2>1. CASE MainStep
    BY <2>1, MainType, MainInv
  <2>2. CASE WorkerStep
    BY <2>2, WorkerType, WorkerStepInv
  <2>3. CASE Signal \/ UNCHANGED vars
    <3>1. UNCHANGED <<mainVars, workerVars>> /\ forceQuit' \in BOOLEAN
      BY <2>3 DEF Signal, vars, TypeOK
    <3>2. TypeOK'
      BY <3>1 DEF TypeOK, mainVars, workerVars
    <3> QED
      BY <3>1, <3>2 DEF SnapshotInv, WorkerInv, ReportsInv, Complete, mainVars, workerVars
  <2> QED
    BY <2>1, <2>2, <2>3 DEF Next
<1> QED
  BY LcoresInit, <1>1, PTL DEF Spec

\* The variables of both lcores keep their types.
THEOREM TypeCorrect == Spec => []TypeOK
<1>1. LcoresInv => TypeOK
  BY DEF LcoresInv
<1> QED
  BY LcoresCorrect, <1>1, PTL

\* Copied while they are rewritten, averages are still never older than the snapshot
\* that was complete before the copy (api.c 29-33).
THEOREM RecentCorrect == Spec => []ReportIsRecent
<1>1. LcoresInv => ReportIsRecent
  <2> SUFFICES ASSUME LcoresInv, NEW i \in DOMAIN reports, NEW p \in Peer
               PROVE  reports[i].avg[p] \in reports[i].since..round
    BY DEF ReportIsRecent
  <2>1. /\ reports[i].since <= reports[i].avg[p] /\ reports[i].avg[p] <= snap[p]
        /\ snap[p] <= snapshot[p]
    BY DEF LcoresInv, ReportsInv, WorkerInv
  <2>2. snapshot[p] <= round /\ round \in Nat /\ snapshot[p] \in Nat
    BY SnapshotFacts DEF LcoresInv
  <2> QED
    BY <2>1, <2>2, ReportFacts, WorkerFacts DEF LcoresInv
<1> QED
  BY LcoresCorrect, <1>1, PTL

\* A report with a higher number never carries an older figure (packet.h 37).
THEOREM ForwardCorrect == Spec => []ReportsDoNotGoBack
<1>1. LcoresInv => ReportsDoNotGoBack
  BY DEF LcoresInv, ReportsInv, ReportsDoNotGoBack
<1> QED
  BY LcoresCorrect, <1>1, PTL

\* A report never joins an average to an older loss count (stats.c 176-178).
THEOREM LossCorrect == Spec => []LossNotOlderThanAverage
<1>1. LcoresInv => LossNotOlderThanAverage
  BY DEF LcoresInv, ReportsInv, LossNotOlderThanAverage
<1> QED
  BY LcoresCorrect, <1>1, PTL
=============================================================================
