----------------------------- MODULE EalLaunchProofs -----------------------------
(***************************************************************************)
(* What EalLaunch promises, for every set of workers and any number of     *)
(* launches.  Each part of the inductive invariant has a lemma, with a     *)
(* step for every action.                                                  *)
(***************************************************************************)
EXTENDS EalLaunch, TLAPS

\* The inductive invariant.
IInv == TypeOK /\ HandshakeInv /\ LaunchInv /\ JobsInv /\ FreshInv /\ ResultInv

\* A pipe never holds a second byte, and what is launched is a job.
LEMMA TypeNext ==
    ASSUME IInv, [Next]_vars PROVE TypeOK'
<1> USE JobAssumption DEF IInv, TypeOK, HandshakeInv, JobsInv, JobOrNone, Job,
        Result, Launching, vars, config, pipes, workerVars, mainVars
<1>1. ASSUME NEW w \in Worker, WaitCommand(w) PROVE TypeOK'
  BY <1>1 DEF WaitCommand, At, After
<1>2. ASSUME NEW w \in Worker, SetRunning(w) PROVE TypeOK'
  BY <1>2 DEF SetRunning, At, After
<1>3. ASSUME NEW w \in Worker, AckCommand(w) PROVE TypeOK'
  BY <1>3 DEF AckCommand, At, After
<1>4. ASSUME NEW w \in Worker, LoadF(w) PROVE TypeOK'
  BY <1>4 DEF LoadF, At, After
<1>5. ASSUME NEW w \in Worker, CallF(w) PROVE TypeOK'
  BY <1>5 DEF CallF, At, After
<1>6. ASSUME NEW w \in Worker, ClearF(w) PROVE TypeOK'
  BY <1>6 DEF ClearF, At, After
<1>7. ASSUME NEW w \in Worker, ClearArg(w) PROVE TypeOK'
  BY <1>7 DEF ClearArg, At, After
<1>8. ASSUME NEW w \in Worker, SetWait(w) PROVE TypeOK'
  BY <1>8 DEF SetWait, At, After
<1>9. ASSUME NEW w \in Worker, RemoteLaunch(w) PROVE TypeOK'
  <2>1. jobs' \in 0..MaxJobs /\ todo' \subseteq Worker
    BY <1>9 DEF RemoteLaunch
  <2> QED
    BY <1>9, <2>1 DEF RemoteLaunch
<1>10. ASSUME NEW w \in Worker, CheckState(w) PROVE TypeOK'
  BY <1>10 DEF CheckState
<1>11. ASSUME NEW w \in Worker, BeginLaunch(w) PROVE TypeOK'
  <2>1. todo' \subseteq Worker /\ target' \in Worker
    BY <1>11 DEF BeginLaunch
  <2>2. launched' \in [Worker -> JobOrNone]
    <3>1. jobs \in JobOrNone
      BY <1>11 DEF BeginLaunch
    <3>2. launched' = launched \/ launched' = [launched EXCEPT ![w] = jobs]
      BY <1>11 DEF BeginLaunch
    <3> QED
      BY <3>1, <3>2
  <2>3. mainPc' \in {"user", "check", "launch", "arg", "f", "wake", "ack", "call", "wait"}
    BY <1>11 DEF BeginLaunch, NextPc
  <2> QED
    BY <1>11, <2>1, <2>2, <2>3 DEF BeginLaunch
<1>12. ASSUME NEW w \in Worker, WaitLcore(w) PROVE TypeOK'
  BY <1>12 DEF WaitLcore
<1>13. ASSUME NEW W \in SUBSET Worker, BeginWait(W) PROVE TypeOK'
  BY <1>13 DEF BeginWait
<1>14. ASSUME MpRemoteLaunch PROVE TypeOK'
  BY <1>14 DEF MpRemoteLaunch
<1>15. ASSUME StoreArg PROVE TypeOK'
  BY <1>15 DEF StoreArg
<1>16. ASSUME StoreF PROVE TypeOK'
  BY <1>16 DEF StoreF
<1>17. ASSUME WakeWorker PROVE TypeOK'
  BY <1>17 DEF WakeWorker
<1>18. ASSUME ReadAck PROVE TypeOK'
  BY <1>18 DEF ReadAck, NextPc
<1>19. ASSUME CallOnMain PROVE TypeOK'
  BY <1>19 DEF CallOnMain
<1>20. CASE UNCHANGED vars
  BY <1>20
<1> HIDE DEF IInv, TypeOK, HandshakeInv, JobsInv, JobOrNone, Job, Result, Launching,
        vars, config, pipes, workerVars, mainVars
<1> QED
    BY <1>1, <1>2, <1>3, <1>4, <1>5, <1>6, <1>7, <1>8, <1>9, <1>10, <1>11, <1>12,
     <1>13, <1>14, <1>15, <1>16, <1>17, <1>18, <1>19, <1>20
     DEF Next, MainCall, MainStep, WorkerStep

\* The worker is at a step that the main lcore's step allows, and the pipes agree.
LEMMA HandshakeNext ==
    ASSUME IInv, [Next]_vars PROVE HandshakeInv'
<1> USE JobAssumption DEF IInv, TypeOK, HandshakeInv, Launching, vars, config,
        pipes, workerVars, mainVars
<1>1. ASSUME NEW w \in Worker, WaitCommand(w) PROVE HandshakeInv'
  BY <1>1 DEF WaitCommand, At, After
<1>2. ASSUME NEW w \in Worker, SetRunning(w) PROVE HandshakeInv'
  BY <1>2 DEF SetRunning, At, After
<1>3. ASSUME NEW w \in Worker, AckCommand(w) PROVE HandshakeInv'
  BY <1>3 DEF AckCommand, At, After
<1>4. ASSUME NEW w \in Worker, LoadF(w) PROVE HandshakeInv'
  BY <1>4 DEF LoadF, At, After
<1>5. ASSUME NEW w \in Worker, CallF(w) PROVE HandshakeInv'
  BY <1>5 DEF CallF, At, After
<1>6. ASSUME NEW w \in Worker, ClearF(w) PROVE HandshakeInv'
  BY <1>6 DEF ClearF, At, After
<1>7. ASSUME NEW w \in Worker, ClearArg(w) PROVE HandshakeInv'
  BY <1>7 DEF ClearArg, At, After
<1>8. ASSUME NEW w \in Worker, SetWait(w) PROVE HandshakeInv'
  BY <1>8 DEF SetWait, At, After
<1>9. ASSUME NEW w \in Worker, RemoteLaunch(w) PROVE HandshakeInv'
  BY <1>9 DEF RemoteLaunch
<1>10. ASSUME NEW w \in Worker, CheckState(w) PROVE HandshakeInv'
  BY <1>10 DEF CheckState
<1>11. ASSUME NEW w \in Worker, BeginLaunch(w) PROVE HandshakeInv'
  BY <1>11 DEF BeginLaunch, MayLaunch, NextPc
<1>12. ASSUME NEW w \in Worker, WaitLcore(w) PROVE HandshakeInv'
  BY <1>12 DEF WaitLcore
<1>13. ASSUME NEW W \in SUBSET Worker, BeginWait(W) PROVE HandshakeInv'
  BY <1>13 DEF BeginWait
<1>14. ASSUME MpRemoteLaunch PROVE HandshakeInv'
  BY <1>14 DEF MpRemoteLaunch
<1>15. ASSUME StoreArg PROVE HandshakeInv'
  BY <1>15 DEF StoreArg
<1>16. ASSUME StoreF PROVE HandshakeInv'
  BY <1>16 DEF StoreF
<1>17. ASSUME WakeWorker PROVE HandshakeInv'
  BY <1>17 DEF WakeWorker
<1>18. ASSUME ReadAck PROVE HandshakeInv'
  BY <1>18 DEF ReadAck, NextPc
<1>19. ASSUME CallOnMain PROVE HandshakeInv'
  BY <1>19 DEF CallOnMain
<1>20. CASE UNCHANGED vars
  BY <1>20
<1> HIDE DEF IInv, TypeOK, HandshakeInv, Launching, vars, config, pipes, workerVars,
        mainVars
<1> QED
    BY <1>1, <1>2, <1>3, <1>4, <1>5, <1>6, <1>7, <1>8, <1>9, <1>10, <1>11, <1>12,
     <1>13, <1>14, <1>15, <1>16, <1>17, <1>18, <1>19, <1>20
     DEF Next, MainCall, MainStep, WorkerStep

\* Only the worker clears f and arg, and only after it has loaded them.
LEMMA LaunchNext ==
    ASSUME IInv, [Next]_vars PROVE LaunchInv'
<1> USE JobAssumption DEF IInv, TypeOK, HandshakeInv, LaunchInv, JobsInv, Launching,
        Job, vars, config, pipes, workerVars, mainVars
<1>1. ASSUME NEW w \in Worker, WaitCommand(w) PROVE LaunchInv'
  BY <1>1 DEF WaitCommand, At, After
<1>2. ASSUME NEW w \in Worker, SetRunning(w) PROVE LaunchInv'
  BY <1>2 DEF SetRunning, At, After
<1>3. ASSUME NEW w \in Worker, AckCommand(w) PROVE LaunchInv'
  BY <1>3 DEF AckCommand, At, After
<1>4. ASSUME NEW w \in Worker, LoadF(w) PROVE LaunchInv'
  BY <1>4 DEF LoadF, At, After
<1>5. ASSUME NEW w \in Worker, CallF(w) PROVE LaunchInv'
  BY <1>5 DEF CallF, At, After
<1>6. ASSUME NEW w \in Worker, ClearF(w) PROVE LaunchInv'
  BY <1>6 DEF ClearF, At, After
<1>7. ASSUME NEW w \in Worker, ClearArg(w) PROVE LaunchInv'
  BY <1>7 DEF ClearArg, At, After
<1>8. ASSUME NEW w \in Worker, SetWait(w) PROVE LaunchInv'
  BY <1>8 DEF SetWait, At, After
<1>9. ASSUME NEW w \in Worker, RemoteLaunch(w) PROVE LaunchInv'
  BY <1>9 DEF RemoteLaunch
<1>10. ASSUME NEW w \in Worker, CheckState(w) PROVE LaunchInv'
  BY <1>10 DEF CheckState
<1>11. ASSUME NEW w \in Worker, BeginLaunch(w) PROVE LaunchInv'
  BY <1>11 DEF BeginLaunch, MayLaunch, NextPc
<1>12. ASSUME NEW w \in Worker, WaitLcore(w) PROVE LaunchInv'
  BY <1>12 DEF WaitLcore
<1>13. ASSUME NEW W \in SUBSET Worker, BeginWait(W) PROVE LaunchInv'
  BY <1>13 DEF BeginWait
<1>14. ASSUME MpRemoteLaunch PROVE LaunchInv'
  BY <1>14 DEF MpRemoteLaunch
<1>15. ASSUME StoreArg PROVE LaunchInv'
  BY <1>15 DEF StoreArg
<1>16. ASSUME StoreF PROVE LaunchInv'
  BY <1>16 DEF StoreF
<1>17. ASSUME WakeWorker PROVE LaunchInv'
  BY <1>17 DEF WakeWorker
<1>18. ASSUME ReadAck PROVE LaunchInv'
  BY <1>18 DEF ReadAck, NextPc
<1>19. ASSUME CallOnMain PROVE LaunchInv'
  BY <1>19 DEF CallOnMain
<1>20. CASE UNCHANGED vars
  BY <1>20
<1> HIDE DEF IInv, TypeOK, HandshakeInv, LaunchInv, JobsInv, Launching, Job, vars,
        config, pipes, workerVars, mainVars
<1> QED
    BY <1>1, <1>2, <1>3, <1>4, <1>5, <1>6, <1>7, <1>8, <1>9, <1>10, <1>11, <1>12,
     <1>13, <1>14, <1>15, <1>16, <1>17, <1>18, <1>19, <1>20
     DEF Next, MainCall, MainStep, WorkerStep

\* f and arg are of the same launch when f is called.
LEMMA JobsNext ==
    ASSUME IInv, [Next]_vars PROVE JobsInv'
<1> USE JobAssumption DEF IInv, TypeOK, HandshakeInv, LaunchInv, JobsInv, Launching,
        Job, vars, config, pipes, workerVars, mainVars
<1>1. ASSUME NEW w \in Worker, WaitCommand(w) PROVE JobsInv'
  BY <1>1 DEF WaitCommand, At, After
<1>2. ASSUME NEW w \in Worker, SetRunning(w) PROVE JobsInv'
  BY <1>2 DEF SetRunning, At, After
<1>3. ASSUME NEW w \in Worker, AckCommand(w) PROVE JobsInv'
  BY <1>3 DEF AckCommand, At, After
<1>4. ASSUME NEW w \in Worker, LoadF(w) PROVE JobsInv'
  BY <1>4 DEF LoadF, At, After
<1>5. ASSUME NEW w \in Worker, CallF(w) PROVE JobsInv'
  <2>1. fct[w] = launched[w] /\ arg[w] = launched[w] /\ launched[w] \in 1..jobs
    BY <1>5 DEF CallF, At, ResultInv, Pending
  <2>2. ASSUME NEW u \in Worker, NEW r \in runs'[u] PROVE r[1] = r[2] /\ r[1] \in 1..jobs
    BY <1>5, <2>1, <2>2 DEF CallF, At
  <2> QED
    BY <1>5, <2>2 DEF CallF, At
<1>6. ASSUME NEW w \in Worker, ClearF(w) PROVE JobsInv'
  BY <1>6 DEF ClearF, At, After
<1>7. ASSUME NEW w \in Worker, ClearArg(w) PROVE JobsInv'
  BY <1>7 DEF ClearArg, At, After
<1>8. ASSUME NEW w \in Worker, SetWait(w) PROVE JobsInv'
  BY <1>8 DEF SetWait, At, After
<1>9. ASSUME NEW w \in Worker, RemoteLaunch(w) PROVE JobsInv'
  BY <1>9 DEF RemoteLaunch
<1>10. ASSUME NEW w \in Worker, CheckState(w) PROVE JobsInv'
  BY <1>10 DEF CheckState
<1>11. ASSUME NEW w \in Worker, BeginLaunch(w) PROVE JobsInv'
  <2>1. mainPc = "launch" /\ jobs' = jobs /\ runs' = runs /\ jobs \in 1..jobs
    BY <1>11 DEF BeginLaunch
  <2>2. CASE MayLaunch(w)
    <3>1. mainPc' = "arg" /\ target' = w /\ launched' = [launched EXCEPT ![w] = jobs]
      BY <1>11, <2>2 DEF BeginLaunch
    <3> QED
      BY <2>1, <3>1
  <2>3. CASE ~MayLaunch(w)
    <3>1. mainPc' \in {"launch", "call", "user"} /\ UNCHANGED launched
      BY <1>11, <2>3 DEF BeginLaunch, NextPc
    <3> QED
      BY <2>1, <3>1
  <2> QED
    BY <2>2, <2>3
<1>12. ASSUME NEW w \in Worker, WaitLcore(w) PROVE JobsInv'
  BY <1>12 DEF WaitLcore
<1>13. ASSUME NEW W \in SUBSET Worker, BeginWait(W) PROVE JobsInv'
  BY <1>13 DEF BeginWait
<1>14. ASSUME MpRemoteLaunch PROVE JobsInv'
  BY <1>14 DEF MpRemoteLaunch
<1>15. ASSUME StoreArg PROVE JobsInv'
  BY <1>15 DEF StoreArg
<1>16. ASSUME StoreF PROVE JobsInv'
  BY <1>16 DEF StoreF
<1>17. ASSUME WakeWorker PROVE JobsInv'
  BY <1>17 DEF WakeWorker
<1>18. ASSUME ReadAck PROVE JobsInv'
  BY <1>18 DEF ReadAck, NextPc
<1>19. ASSUME CallOnMain PROVE JobsInv'
  BY <1>19 DEF CallOnMain
<1>20. CASE UNCHANGED vars
  BY <1>20
<1> HIDE DEF IInv, TypeOK, HandshakeInv, LaunchInv, JobsInv, Launching, Job, vars,
        config, pipes, workerVars, mainVars
<1> QED
    BY <1>1, <1>2, <1>3, <1>4, <1>5, <1>6, <1>7, <1>8, <1>9, <1>10, <1>11, <1>12,
     <1>13, <1>14, <1>15, <1>16, <1>17, <1>18, <1>19, <1>20
     DEF Next, MainCall, MainStep, WorkerStep

\* A call treats each worker once, so that it gives no job twice.
LEMMA FreshNext ==
    ASSUME IInv, [Next]_vars PROVE FreshInv'
<1> USE JobAssumption DEF IInv, TypeOK, HandshakeInv, LaunchInv, JobsInv, FreshInv,
        Launching, Job, vars, config, pipes, workerVars, mainVars
<1>1. ASSUME NEW w \in Worker, WaitCommand(w) PROVE FreshInv'
  BY <1>1 DEF WaitCommand, At, After
<1>2. ASSUME NEW w \in Worker, SetRunning(w) PROVE FreshInv'
  BY <1>2 DEF SetRunning, At, After
<1>3. ASSUME NEW w \in Worker, AckCommand(w) PROVE FreshInv'
  BY <1>3 DEF AckCommand, At, After
<1>4. ASSUME NEW w \in Worker, LoadF(w) PROVE FreshInv'
  BY <1>4 DEF LoadF, At, After
<1>5. ASSUME NEW w \in Worker, CallF(w) PROVE FreshInv'
  <2>1. /\ runs' = [runs EXCEPT ![w] = runs[w] \cup {<<fct[w], arg[w]>>}]
        /\ UNCHANGED mainVars
        /\ workerPc[w] = "call"
    BY <1>5 DEF CallF, At
  <2> QED
    BY <2>1
<1>6. ASSUME NEW w \in Worker, ClearF(w) PROVE FreshInv'
  BY <1>6 DEF ClearF, At, After
<1>7. ASSUME NEW w \in Worker, ClearArg(w) PROVE FreshInv'
  BY <1>7 DEF ClearArg, At, After
<1>8. ASSUME NEW w \in Worker, SetWait(w) PROVE FreshInv'
  BY <1>8 DEF SetWait, At, After
<1>9. ASSUME NEW w \in Worker, RemoteLaunch(w) PROVE FreshInv'
  BY <1>9 DEF RemoteLaunch
<1>10. ASSUME NEW w \in Worker, CheckState(w) PROVE FreshInv'
  BY <1>10 DEF CheckState
<1>11. ASSUME NEW w \in Worker, BeginLaunch(w) PROVE FreshInv'
  BY <1>11 DEF BeginLaunch, MayLaunch, NextPc
<1>12. ASSUME NEW w \in Worker, WaitLcore(w) PROVE FreshInv'
  BY <1>12 DEF WaitLcore
<1>13. ASSUME NEW W \in SUBSET Worker, BeginWait(W) PROVE FreshInv'
  BY <1>13 DEF BeginWait
<1>14. ASSUME MpRemoteLaunch PROVE FreshInv'
  BY <1>14 DEF MpRemoteLaunch
<1>15. ASSUME StoreArg PROVE FreshInv'
  BY <1>15 DEF StoreArg
<1>16. ASSUME StoreF PROVE FreshInv'
  BY <1>16 DEF StoreF
<1>17. ASSUME WakeWorker PROVE FreshInv'
  BY <1>17 DEF WakeWorker
<1>18. ASSUME ReadAck PROVE FreshInv'
  BY <1>18 DEF ReadAck, NextPc
<1>19. ASSUME CallOnMain PROVE FreshInv'
  BY <1>19 DEF CallOnMain
<1>20. CASE UNCHANGED vars
  BY <1>20
<1> HIDE DEF IInv, TypeOK, HandshakeInv, LaunchInv, JobsInv, FreshInv, Launching,
        Job, vars, config, pipes, workerVars, mainVars
<1> QED
    BY <1>1, <1>2, <1>3, <1>4, <1>5, <1>6, <1>7, <1>8, <1>9, <1>10, <1>11, <1>12,
     <1>13, <1>14, <1>15, <1>16, <1>17, <1>18, <1>19, <1>20
     DEF Next, MainCall, MainStep, WorkerStep

\* The result is stored before the worker can be given another job.
LEMMA ResultNext ==
    ASSUME IInv, [Next]_vars PROVE ResultInv'
<1> USE JobAssumption DEF IInv, TypeOK, HandshakeInv, LaunchInv, JobsInv, FreshInv,
        ResultInv, Launching, Pending, Job, vars, config, pipes, workerVars,
        mainVars
<1>1. ASSUME NEW w \in Worker, WaitCommand(w) PROVE ResultInv'
  BY <1>1 DEF WaitCommand, At, After
<1>2. ASSUME NEW w \in Worker, SetRunning(w) PROVE ResultInv'
  BY <1>2 DEF SetRunning, At, After
<1>3. ASSUME NEW w \in Worker, AckCommand(w) PROVE ResultInv'
  BY <1>3 DEF AckCommand, At, After
<1>4. ASSUME NEW w \in Worker, LoadF(w) PROVE ResultInv'
  BY <1>4 DEF LoadF, At, After
<1>5. ASSUME NEW w \in Worker, CallF(w) PROVE ResultInv'
  BY <1>5 DEF CallF, At, After
<1>6. ASSUME NEW w \in Worker, ClearF(w) PROVE ResultInv'
  BY <1>6 DEF ClearF, At, After
<1>7. ASSUME NEW w \in Worker, ClearArg(w) PROVE ResultInv'
  BY <1>7 DEF ClearArg, At, After
<1>8. ASSUME NEW w \in Worker, SetWait(w) PROVE ResultInv'
  BY <1>8 DEF SetWait, At, After
<1>9. ASSUME NEW w \in Worker, RemoteLaunch(w) PROVE ResultInv'
  BY <1>9 DEF RemoteLaunch
<1>10. ASSUME NEW w \in Worker, CheckState(w) PROVE ResultInv'
  BY <1>10 DEF CheckState
<1>11. ASSUME NEW w \in Worker, BeginLaunch(w) PROVE ResultInv'
  <2>1. CASE MayLaunch(w)
    <3>1. workerPc[w] = "command" /\ toWorker[w] = 0 /\ launched'[w] = jobs
      BY <1>11, <2>1 DEF BeginLaunch, MayLaunch
    <3>2. jobs # None /\ <<jobs, jobs>> \notin runs[w]
      BY <1>11 DEF BeginLaunch
    <3>3. ASSUME NEW u \in Worker, u # w
          PROVE  launched'[u] = launched[u] /\ ~Launching(u, {"arg", "f", "wake"})'
      BY <1>11, <2>1, <3>3 DEF BeginLaunch
    <3>4. ASSUME NEW u \in Worker
          PROVE  ~Launching(u, {"arg", "f", "wake"})
      BY <1>11 DEF BeginLaunch
    <3>5. UNCHANGED <<toWorker, workerPc, runs, ret>>
      BY <1>11 DEF BeginLaunch
    <3>6. /\ Pending(w)' /\ launched'[w] # None
          /\ <<launched'[w], launched'[w]>> \notin runs'[w]
      BY <1>11, <2>1, <3>1, <3>2, <3>5 DEF BeginLaunch
    <3>7. ASSUME NEW u \in Worker, u # w PROVE Pending(u)' <=> Pending(u)
      BY <3>3, <3>4, <3>5, <3>7
    <3> DEFINE Settled(u) ==
          IF Pending(u)
          THEN launched[u] # None /\ <<launched[u], launched[u]>> \notin runs[u]
          ELSE ret[u] = <<launched[u], launched[u]>>
    <3>8. ASSUME NEW u \in Worker, u # w PROVE Settled(u)'
      <4>1. Settled(u)
        OBVIOUS
      <4>2. launched'[u] = launched[u]
        BY <3>3, <3>8
      <4>3. Pending(u)' <=> Pending(u)
        BY <3>7, <3>8
      <4> HIDE DEF Pending
      <4> QED
        BY <3>5, <4>1, <4>2, <4>3
    <3> QED
      BY <3>6, <3>8
  <2>2. CASE ~MayLaunch(w)
    BY <1>11, <2>2 DEF BeginLaunch, NextPc
  <2> QED
    BY <2>1, <2>2
<1>12. ASSUME NEW w \in Worker, WaitLcore(w) PROVE ResultInv'
  BY <1>12 DEF WaitLcore
<1>13. ASSUME NEW W \in SUBSET Worker, BeginWait(W) PROVE ResultInv'
  BY <1>13 DEF BeginWait
<1>14. ASSUME MpRemoteLaunch PROVE ResultInv'
  BY <1>14 DEF MpRemoteLaunch
<1>15. ASSUME StoreArg PROVE ResultInv'
  BY <1>15 DEF StoreArg
<1>16. ASSUME StoreF PROVE ResultInv'
  BY <1>16 DEF StoreF
<1>17. ASSUME WakeWorker PROVE ResultInv'
  BY <1>17 DEF WakeWorker
<1>18. ASSUME ReadAck PROVE ResultInv'
  BY <1>18 DEF ReadAck, NextPc
<1>19. ASSUME CallOnMain PROVE ResultInv'
  BY <1>19 DEF CallOnMain
<1>20. CASE UNCHANGED vars
  BY <1>20
<1> HIDE DEF IInv, TypeOK, HandshakeInv, LaunchInv, JobsInv, FreshInv, ResultInv,
        Launching, Pending, Job, vars, config, pipes, workerVars, mainVars
<1> QED
    BY <1>1, <1>2, <1>3, <1>4, <1>5, <1>6, <1>7, <1>8, <1>9, <1>10, <1>11, <1>12,
     <1>13, <1>14, <1>15, <1>16, <1>17, <1>18, <1>19, <1>20
     DEF Next, MainCall, MainStep, WorkerStep

-----------------------------------------------------------------------------

\* The initial states satisfy the invariant.
LEMMA InvInit == Init => IInv
<1> SUFFICES ASSUME Init PROVE IInv
  OBVIOUS
<1>1. TypeOK
  <2>1. Nothing \in Result /\ <<Nothing, Nothing>> \in Result \X Result
    BY DEF Nothing, Result, JobOrNone
  <2>2. waited \in [Worker -> Result \X Result] /\ ret \in [Worker -> Result]
    BY <2>1 DEF Init
  <2>3. /\ f \in [Worker -> JobOrNone] /\ arg \in [Worker -> JobOrNone]
        /\ fct \in [Worker -> JobOrNone] /\ launched \in [Worker -> JobOrNone]
        /\ runs \in [Worker -> SUBSET (JobOrNone \X JobOrNone)]
    BY DEF Init, JobOrNone
  <2>4. /\ toWorker \in [Worker -> 0..1] /\ toMain \in [Worker -> 0..1]
        /\ jobs \in 0..MaxJobs
    BY JobAssumption DEF Init
  <2> QED
    BY <2>2, <2>3, <2>4 DEF Init, TypeOK
<1>2. HandshakeInv /\ LaunchInv
  BY DEF Init, HandshakeInv, LaunchInv, Launching
<1>3. ASSUME NEW w \in Worker PROVE ~Pending(w) /\ ret[w] = <<launched[w], launched[w]>>
  <2>1. ret[w] = Nothing /\ launched[w] = None
    BY DEF Init
  <2>2. ~Pending(w)
    BY DEF Init, Pending, Launching
  <2> QED
    BY <2>1, <2>2 DEF Nothing
<1>4. JobsInv /\ FreshInv
  BY DEF Init, JobsInv, FreshInv, Launching
<1> QED
  BY <1>1, <1>2, <1>3, <1>4 DEF IInv, ResultInv

\* Every reachable state satisfies it.
LEMMA InvCorrect == Spec => []IInv
<1>1. IInv /\ [Next]_vars => IInv'
  BY TypeNext, HandshakeNext, LaunchNext, JobsNext, FreshNext, ResultNext DEF IInv
<1> QED
  BY <1>1, InvInit, PTL DEF Spec

\* The shared record, the pipes and the local variables of both sides keep their types
\* (rte_launch.h, eal_thread.h, eal_private.h).
THEOREM TypeCorrect == Spec => []TypeOK
<1>1. IInv => TypeOK
  BY DEF IInv
<1> QED
  BY <1>1, InvCorrect, PTL

\* The main lcore never writes f or arg while the worker reads or clears them: that the
\* state is WAIT is enough, since the worker sets it last (eal_common_launch.c 38-50).
THEOREM ExclusiveCorrect == Spec => []ConfigHasOneUser
<1>1. IInv => ConfigHasOneUser
  BY DEF IInv, TypeOK, HandshakeInv, Launching, ConfigHasOneUser
<1> QED
  BY <1>1, InvCorrect, PTL

\* Each launched function is called at most once, with its own argument
\* (eal_common_thread.c 204-212).
THEOREM CalledOnceCorrect == Spec => []CallsWhatWasLaunched
<1>1. IInv => CallsWhatWasLaunched
  BY DEF IInv, LaunchInv, JobsInv, ResultInv, Pending, CallsWhatWasLaunched
<1> QED
  BY <1>1, InvCorrect, PTL

\* rte_eal_wait_lcore returns the result of the last launch (eal_common_launch.c 21-25).
THEOREM WaitCorrect == Spec => []WaitReturnsResult
<1>1. Init => WaitReturnsResult
  <2> SUFFICES ASSUME Init, NEW w \in Worker PROVE waited[w][1] = waited[w][2]
    BY DEF WaitReturnsResult
  <2>1. waited[w] = <<Nothing, Nothing>>
    BY DEF Init
  <2> QED
    BY <2>1
<1>2. IInv /\ WaitReturnsResult /\ [Next]_vars => WaitReturnsResult'
  <2> SUFFICES ASSUME IInv, WaitReturnsResult, [Next]_vars PROVE WaitReturnsResult'
    OBVIOUS
  <2>1. ASSUME NEW w \in Worker, WaitLcore(w) PROVE WaitReturnsResult'
    <3>1. ~Pending(w)
      BY <2>1 DEF WaitLcore, IInv, HandshakeInv, Launching, Pending
    <3>2. ret[w] = <<launched[w], launched[w]>>
      BY <3>1 DEF IInv, ResultInv
    <3> QED
      BY <2>1, <3>2 DEF WaitLcore, WaitReturnsResult, IInv, TypeOK
  <2>2. ASSUME UNCHANGED waited PROVE WaitReturnsResult'
    BY <2>2 DEF WaitReturnsResult
  <2>3. (\E w \in Worker : WaitLcore(w)) \/ UNCHANGED waited
    BY DEF Next, MainCall, MainStep, WorkerStep, vars, mainVars, At,
           WaitCommand, SetRunning, AckCommand, LoadF, CallF, ClearF, ClearArg, SetWait,
           RemoteLaunch, MpRemoteLaunch, CheckState, BeginLaunch, StoreArg, StoreF,
           WakeWorker, ReadAck, CallOnMain, BeginWait
  <2> QED
    BY <2>1, <2>2, <2>3
<1> QED
  BY <1>1, <1>2, InvCorrect, PTL DEF Spec

-----------------------------------------------------------------------------
(* No mutual wait: the safety part of CallsReturn and LaunchesRun.         *)

\* The main lcore cannot go on before w has: it reads w's answer, or waits for its state.
MainWaitsFor(w) ==
    \/ Launching(w, {"ack"}) /\ toMain[w] = 0
    \/ mainPc = "wait" /\ w \in todo /\ state[w] # "WAIT"

\* w cannot go on before the main lcore has: it reads its command, or waits for f.
WaitsForMain(w) ==
    \/ workerPc[w] = "command" /\ toWorker[w] = 0
    \/ workerPc[w] = "f" /\ f[w] = None

\* No two sides wait for each other; and a worker that has its command never waits for
\* f, which was stored before the command was sent.
NoMutualWait ==
    \A w \in Worker :
        /\ ~(MainWaitsFor(w) /\ WaitsForMain(w))
        /\ workerPc[w] = "f" => ~WaitsForMain(w)

\* What the main lcore reads after a command is sent, or is on its way: its command is
\* in the pipe, or the worker has read it and will answer, or has answered.
AnswerInv ==
    mainPc = "ack" =>
        toWorker[target] = 1 \/ toMain[target] = 1 \/ workerPc[target] \in {"running", "ack"}

\* No byte is read by anyone but the side it was sent to.
LEMMA AnswerNext ==
    ASSUME IInv, IInv', AnswerInv, [Next]_vars PROVE AnswerInv'
<1> SUFFICES ASSUME mainPc' = "ack"
    PROVE  \/ toWorker'[target'] = 1 \/ toMain'[target'] = 1
           \/ workerPc'[target'] \in {"running", "ack"}
  BY DEF AnswerInv
<1>0. TypeOK /\ TypeOK'
  BY DEF IInv
<1> USE <1>0 DEF TypeOK, AnswerInv, vars, config, pipes, workerVars, mainVars
<1>1. ASSUME NEW w \in Worker, WaitCommand(w) PROVE AnswerInv'
  BY <1>1 DEF WaitCommand, At, After
<1>2. ASSUME NEW w \in Worker, SetRunning(w) PROVE AnswerInv'
  BY <1>2 DEF SetRunning, At, After
<1>3. ASSUME NEW w \in Worker, AckCommand(w) PROVE AnswerInv'
  <2>1. toMain'[w] = toMain[w] + 1 /\ toMain[w] \in 0..1 /\ toMain'[w] \in 0..1
    BY <1>3 DEF AckCommand
  <2> QED
    BY <1>3, <2>1 DEF AckCommand, At, After
<1>4. ASSUME NEW w \in Worker,
             LoadF(w) \/ CallF(w) \/ ClearF(w) \/ ClearArg(w) \/ SetWait(w)
      PROVE  AnswerInv'
  BY <1>4 DEF LoadF, CallF, ClearF, ClearArg, SetWait, At, After
<1>5. ASSUME NEW w \in Worker, RemoteLaunch(w) \/ CheckState(w) \/ BeginLaunch(w) \/ WaitLcore(w)
      PROVE  FALSE
  BY <1>5 DEF RemoteLaunch, CheckState, BeginLaunch, MayLaunch, NextPc, WaitLcore
<1>6. ASSUME MpRemoteLaunch \/ StoreArg \/ StoreF \/ ReadAck \/ CallOnMain PROVE FALSE
  BY <1>6 DEF MpRemoteLaunch, StoreArg, StoreF, ReadAck, NextPc, CallOnMain
<1>7. ASSUME NEW W \in SUBSET Worker, BeginWait(W) PROVE FALSE
  BY <1>7 DEF BeginWait
<1>8. ASSUME WakeWorker PROVE AnswerInv'
  <2>1. /\ toWorker'[target] = toWorker[target] + 1
        /\ toWorker[target] \in 0..1 /\ toWorker'[target] \in 0..1
    BY <1>8 DEF WakeWorker
  <2> QED
    BY <1>8, <2>1 DEF WakeWorker
<1>9. CASE UNCHANGED vars
  BY <1>9
<1> HIDE DEF TypeOK, vars, config, pipes, workerVars, mainVars
<1> QED
  BY <1>1, <1>2, <1>3, <1>4, <1>5, <1>6, <1>7, <1>8, <1>9
     DEF Next, MainCall, MainStep, WorkerStep

\* The hand-shake has no deadlock: whenever the main lcore is blocked in a launch or a
\* wait, the worker it waits for is not blocked itself, for any number of workers and
\* launches (eal_unix_thread.c 13-64, eal_common_thread.c 201-215).
THEOREM ProgressCorrect == Spec => []NoMutualWait
<1>1. Init => AnswerInv
  BY DEF Init, AnswerInv
<1>2. IInv /\ IInv' /\ AnswerInv /\ [Next]_vars => AnswerInv'
  BY AnswerNext
<1>3. IInv /\ AnswerInv => NoMutualWait
  <2> SUFFICES ASSUME IInv, AnswerInv, NEW w \in Worker
      PROVE  /\ ~(MainWaitsFor(w) /\ WaitsForMain(w))
             /\ workerPc[w] = "f" => ~WaitsForMain(w)
    BY DEF NoMutualWait
  <2>1. workerPc[w] = "f" => f[w] # None
    <3> SUFFICES ASSUME workerPc[w] = "f" PROVE f[w] # None
      OBVIOUS
    <3>1. f[w] = launched[w]
      BY DEF IInv, LaunchInv
    <3>2. Pending(w)
      BY DEF Pending
    <3> QED
      BY <3>1, <3>2 DEF IInv, ResultInv
  <2>2. MainWaitsFor(w) => ~(workerPc[w] = "command" /\ toWorker[w] = 0)
    BY DEF IInv, TypeOK, HandshakeInv, AnswerInv, MainWaitsFor, Launching
  <2> QED
    BY <2>1, <2>2 DEF WaitsForMain
<1> QED
  BY <1>1, <1>2, <1>3, InvCorrect, PTL DEF Spec
=============================================================================
