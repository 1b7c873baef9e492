----------------------------- MODULE RteTimerProofs -----------------------------
EXTENDS RteTimer, FiniteSetTheorems, TLAPS

\* The inductive invariant.
IInv == TypeOK /\ CallInv /\ RunInv /\ ListInv /\ LiveInv

-----------------------------------------------------------------------------
(* Facts about calls.                                                      *)

\* A call that names a timer has it in CONFIG.
LEMMA CallConfigures ==
    ASSUME TypeOK, CallInv, NEW l \in Lcore, call[l].tim \in Timer
    PROVE  /\ call[l] # NoCall /\ InState(call[l].tim, "CONFIG", l)
           /\ manage[l] \in {"idle", "callback"}
BY NoneAssumption DEF CallInv, NoCall

\* Two calls never concern one timer.
LEMMA CallIsAlone ==
    ASSUME TypeOK, CallInv, NEW k \in Lcore, NEW l \in Lcore,
           call[k].tim \in Timer, call[k].tim = call[l].tim
    PROVE  k = l
BY CallConfigures DEF InState

\* A timer that a call has deleted, or that was stopped, is in no list and about to be
\* put in none.
LEMMA CallUnlinked ==
    ASSUME TypeOK, CallInv, ListInv, NEW l \in Lcore, call[l].tim \in Timer,
           call[l].from = None
    PROVE  \A m \in Lcore : /\ call[l].tim \notin pending[m] \cup scan[m]
                            /\ ~PuttingBack(m, call[l].tim)
<1>1. ASSUME NEW m \in Lcore, MayLink(call[l].tim, m) PROVE FALSE
  <2>1. PICK k \in Lcore : call[k].tim = call[l].tim /\ call[k].from = m
    BY <1>1, CallConfigures DEF MayLink, InState
  <2>2. k = l
    BY <2>1, CallIsAlone
  <2> QED
    BY <2>1, <2>2, NoneAssumption
<1>2. \A m \in Lcore : \A t \in pending[m] \cup scan[m] : MayLink(t, m)
  BY DEF ListInv
<1>3. \A m \in Lcore, t \in Timer : PuttingBack(m, t) => MayLink(t, m)
  BY DEF ListInv, PuttingBack
<1> QED
  BY <1>1, <1>2, <1>3

-----------------------------------------------------------------------------
(* Every step preserves every part of the invariant.                       *)

\* The variables keep their types.
LEMMA TypeNext ==
    ASSUME TypeOK, CallInv, [Next]_vars PROVE TypeOK'
<1> USE NoneAssumption, PeriodicAssumption, CallsAssumption DEF TypeOK, CallInv, Call,
        NoCall, manageVars
<1>1. ASSUME NEW t \in Timer, Expire(t)
      PROVE  TypeOK'
  BY <1>1 DEF Expire
<1>2. ASSUME NEW l \in Lcore, NEW t \in Timer, NEW op \in {"reset", "stop"},
             NEW dest \in Lcore \cup {None}, op = "reset" => dest \in Lcore,
             Configure(l, t, op, dest)
      PROVE  TypeOK'
  BY <1>2 DEF Configure, InUserCode, MayConfigure
<1>3. ASSUME NEW l \in Lcore, Delete(l)
      PROVE  TypeOK'
  BY <1>3 DEF Delete, LockFree
<1>4. ASSUME NEW l \in Lcore, Add(l)
      PROVE  TypeOK'
  BY <1>4 DEF Add, LockFree
<1>5. ASSUME NEW l \in Lcore, EndStop(l)
      PROVE  TypeOK'
  BY <1>5 DEF EndStop
<1>6. ASSUME NEW l \in Lcore, Cut(l)
      PROVE  TypeOK'
  BY <1>6 DEF Cut, LockFree
<1>7. ASSUME NEW l \in Lcore, NEW t \in Timer, Mark(l, t)
      PROVE  TypeOK'
  <2>1. /\ manage[l] = "scan" /\ t \in scan[l]
        /\ scan' = [scan EXCEPT ![l] = scan[l] \ {t}]
        /\ UNCHANGED <<pending, due, lock, call, manage, running, updated, live, calls>>
    BY <1>7 DEF Mark
  <2>2. CASE status[t].state = "PENDING"
    <3>1. /\ status' = [status EXCEPT ![t] = [state |-> "RUNNING", owner |-> l]]
          /\ runList' = [runList EXCEPT ![l] = runList[l] \cup {t}]
      BY <1>7, <2>2 DEF Mark, MayRun
    <3> QED
      BY <2>1, <2>2, <3>1
  <2>3. CASE status[t].state # "PENDING"
    <3>1. UNCHANGED <<status, runList>>
      BY <1>7, <2>3 DEF Mark, MayRun
    <3> QED
      BY <2>1, <2>3, <3>1
  <2> QED
    BY <2>2, <2>3
<1>8. ASSUME NEW l \in Lcore, Unlock(l)
      PROVE  TypeOK'
  BY <1>8 DEF Unlock
<1>9. ASSUME NEW l \in Lcore, NEW t \in Timer, CallbackStart(l, t)
      PROVE  TypeOK'
  BY <1>9 DEF CallbackStart
<1>10. ASSUME NEW l \in Lcore, CallbackReturn(l)
      PROVE  TypeOK'
  BY <1>10 DEF CallbackReturn, Touched
<1>11. ASSUME NEW l \in Lcore, Reload(l)
      PROVE  TypeOK'
  BY <1>11 DEF Reload, LockFree
<1>12. ASSUME NEW l \in Lcore, ReloadReset(l)
      PROVE  TypeOK'
  BY <1>12 DEF ReloadReset, MayRun
<1>13. ASSUME NEW l \in Lcore, ManageReturn(l)
      PROVE  TypeOK'
  BY <1>13 DEF ManageReturn, ServedAll
<1>14. CASE UNCHANGED vars
  BY <1>14 DEF vars, manageVars
<1> HIDE DEF TypeOK, CallInv, Call, NoCall, manageVars
<1> QED
  BY <1>1, <1>2, <1>3, <1>4, <1>5, <1>6, <1>7, <1>8, <1>9, <1>10, <1>11, <1>12, <1>13,
     <1>14
     DEF Next, CallStep, ManageStep, BeginReset, BeginStop

\* Calls and the status CONFIG stay together.
LEMMA CallNext ==
    ASSUME TypeOK, TypeOK', CallInv, RunInv, ListInv, [Next]_vars PROVE CallInv'
<1> USE NoneAssumption DEF TypeOK, CallInv, RunInv, ListInv, NoCall, InState,
        manageVars, Serving, PuttingBack, MayLink
<1>1. ASSUME NEW t \in Timer, Expire(t)
      PROVE  CallInv'
  BY <1>1 DEF Expire
<1>2. ASSUME NEW l \in Lcore, NEW t \in Timer, NEW op \in {"reset", "stop"},
             NEW dest \in Lcore \cup {None}, op = "reset" => dest \in Lcore,
             Configure(l, t, op, dest)
      PROVE  CallInv'
  BY <1>2 DEF Configure, InUserCode, MayConfigure
<1>3. ASSUME NEW l \in Lcore, Delete(l)
      PROVE  CallInv'
  BY <1>3 DEF Delete, LockFree
<1>4. ASSUME NEW l \in Lcore, Add(l)
      PROVE  CallInv'
  BY <1>4 DEF Add, LockFree
<1>5. ASSUME NEW l \in Lcore, EndStop(l)
      PROVE  CallInv'
  BY <1>5 DEF EndStop
<1>6. ASSUME NEW l \in Lcore, Cut(l)
      PROVE  CallInv'
  BY <1>6 DEF Cut, LockFree
<1>7. ASSUME NEW l \in Lcore, NEW t \in Timer, Mark(l, t)
      PROVE  CallInv'
  <2>1. /\ manage[l] = "scan" /\ t \in scan[l]
        /\ scan' = [scan EXCEPT ![l] = scan[l] \ {t}]
        /\ UNCHANGED <<pending, due, lock, call, manage, running, updated, live, calls>>
    BY <1>7 DEF Mark
  <2>2. CASE status[t].state = "PENDING"
    <3>1. /\ status' = [status EXCEPT ![t] = [state |-> "RUNNING", owner |-> l]]
          /\ runList' = [runList EXCEPT ![l] = runList[l] \cup {t}]
      BY <1>7, <2>2 DEF Mark, MayRun
    <3> QED
      BY <2>1, <2>2, <3>1
  <2>3. CASE status[t].state # "PENDING"
    <3>1. UNCHANGED <<status, runList>>
      BY <1>7, <2>3 DEF Mark, MayRun
    <3> QED
      BY <2>1, <2>3, <3>1
  <2> QED
    BY <2>2, <2>3
<1>8. ASSUME NEW l \in Lcore, Unlock(l)
      PROVE  CallInv'
  BY <1>8 DEF Unlock
<1>9. ASSUME NEW l \in Lcore, NEW t \in Timer, CallbackStart(l, t)
      PROVE  CallInv'
  BY <1>9 DEF CallbackStart
<1>10. ASSUME NEW l \in Lcore, CallbackReturn(l)
      PROVE  CallInv'
  BY <1>10 DEF CallbackReturn, Touched
<1>11. ASSUME NEW l \in Lcore, Reload(l)
      PROVE  CallInv'
  BY <1>11 DEF Reload, LockFree
<1>12. ASSUME NEW l \in Lcore, ReloadReset(l)
      PROVE  CallInv'
  BY <1>12 DEF ReloadReset, MayRun
<1>13. ASSUME NEW l \in Lcore, ManageReturn(l)
      PROVE  CallInv'
  BY <1>13 DEF ManageReturn, ServedAll
<1>14. CASE UNCHANGED vars
  BY <1>14 DEF vars, manageVars
<1> HIDE DEF TypeOK, CallInv, RunInv, ListInv, NoCall, InState, manageVars, Serving,
        PuttingBack, MayLink
<1> QED
  BY <1>1, <1>2, <1>3, <1>4, <1>5, <1>6, <1>7, <1>8, <1>9, <1>10, <1>11, <1>12, <1>13,
     <1>14
     DEF Next, CallStep, ManageStep, BeginReset, BeginStop

\* The run lists, what is served, and the status RUNNING stay together.
LEMMA RunNext ==
    ASSUME TypeOK, CallInv, RunInv, [Next]_vars PROVE RunInv'
<1> USE NoneAssumption DEF TypeOK, CallInv, NoCall, RunInv, Serving, InState,
        manageVars
<1>1. ASSUME NEW t \in Timer, Expire(t)
      PROVE  RunInv'
  BY <1>1 DEF Expire
<1>2. ASSUME NEW l \in Lcore, NEW t \in Timer, NEW op \in {"reset", "stop"},
             NEW dest \in Lcore \cup {None}, op = "reset" => dest \in Lcore,
             Configure(l, t, op, dest)
      PROVE  RunInv'
  <2>1. CASE status[t].state = "RUNNING"
    <3>1. updated' = [updated EXCEPT ![l] = TRUE] /\ running[l] = t /\ status[t].owner = l
      BY <1>2, <2>1 DEF Configure, MayConfigure
    <3> QED
      BY <1>2, <2>1, <3>1 DEF Configure, InUserCode
  <2>2. CASE status[t].state # "RUNNING"
    <3>1. UNCHANGED updated /\ status[t].state \in {"STOP", "PENDING"}
      BY <1>2, <2>2 DEF Configure, MayConfigure
    <3> QED
      BY <1>2, <2>2, <3>1 DEF Configure, InUserCode
  <2> QED
    BY <2>1, <2>2
<1>3. ASSUME NEW l \in Lcore, Delete(l)
      PROVE  RunInv'
  BY <1>3 DEF Delete, LockFree
<1>4. ASSUME NEW l \in Lcore, Add(l)
      PROVE  RunInv'
  BY <1>4 DEF Add, LockFree
<1>5. ASSUME NEW l \in Lcore, EndStop(l)
      PROVE  RunInv'
  BY <1>5 DEF EndStop
<1>6. ASSUME NEW l \in Lcore, Cut(l)
      PROVE  RunInv'
  BY <1>6 DEF Cut, LockFree
<1>7. ASSUME NEW l \in Lcore, NEW t \in Timer, Mark(l, t)
      PROVE  RunInv'
  <2>1. /\ manage[l] = "scan" /\ t \in scan[l]
        /\ scan' = [scan EXCEPT ![l] = scan[l] \ {t}]
        /\ UNCHANGED <<pending, due, lock, call, manage, running, updated, live, calls>>
    BY <1>7 DEF Mark
  <2>2. CASE status[t].state = "PENDING"
    <3>1. /\ status' = [status EXCEPT ![t] = [state |-> "RUNNING", owner |-> l]]
          /\ runList' = [runList EXCEPT ![l] = runList[l] \cup {t}]
      BY <1>7, <2>2 DEF Mark, MayRun
    <3> QED
      BY <2>1, <2>2, <3>1
  <2>3. CASE status[t].state # "PENDING"
    <3>1. UNCHANGED <<status, runList>>
      BY <1>7, <2>3 DEF Mark, MayRun
    <3> QED
      BY <2>1, <2>3, <3>1
  <2> QED
    BY <2>2, <2>3
<1>8. ASSUME NEW l \in Lcore, Unlock(l)
      PROVE  RunInv'
  BY <1>8 DEF Unlock
<1>9. ASSUME NEW l \in Lcore, NEW t \in Timer, CallbackStart(l, t)
      PROVE  RunInv'
  BY <1>9 DEF CallbackStart
<1>10. ASSUME NEW l \in Lcore, CallbackReturn(l)
      PROVE  RunInv'
  BY <1>10 DEF CallbackReturn, Touched
<1>11. ASSUME NEW l \in Lcore, Reload(l)
      PROVE  RunInv'
  BY <1>11 DEF Reload, LockFree
<1>12. ASSUME NEW l \in Lcore, ReloadReset(l)
      PROVE  RunInv'
  BY <1>12 DEF ReloadReset, MayRun
<1>13. ASSUME NEW l \in Lcore, ManageReturn(l)
      PROVE  RunInv'
  BY <1>13 DEF ManageReturn, ServedAll
<1>14. CASE UNCHANGED vars
  BY <1>14 DEF vars, manageVars
<1> HIDE DEF TypeOK, CallInv, NoCall, RunInv, Serving, InState, manageVars
<1> QED
  BY <1>1, <1>2, <1>3, <1>4, <1>5, <1>6, <1>7, <1>8, <1>9, <1>10, <1>11, <1>12, <1>13,
     <1>14
     DEF Next, CallStep, ManageStep, BeginReset, BeginStop

\* A timer stays in the list that its status names.
LEMMA ListNext ==
    ASSUME TypeOK, CallInv, RunInv, ListInv, [Next]_vars PROVE ListInv'
<1> USE NoneAssumption DEF TypeOK, CallInv, RunInv, NoCall, ListInv, Serving, MayLink,
        PuttingBack, InState, manageVars
<1>1. ASSUME NEW t \in Timer, Expire(t)
      PROVE  ListInv'
  BY <1>1 DEF Expire
<1>2. ASSUME NEW l \in Lcore, NEW t \in Timer, NEW op \in {"reset", "stop"},
             NEW dest \in Lcore \cup {None}, op = "reset" => dest \in Lcore,
             Configure(l, t, op, dest)
      PROVE  ListInv'
  BY <1>2 DEF Configure, InUserCode, MayConfigure
<1>3. ASSUME NEW l \in Lcore, Delete(l)
      PROVE  ListInv'
  BY <1>3 DEF Delete, LockFree
<1>4. ASSUME NEW l \in Lcore, Add(l)
      PROVE  ListInv'
  <2> DEFINE t == call[l].tim
             d == call[l].dest
  <2>1. t \in Timer /\ d \in Lcore /\ InState(t, "CONFIG", l) /\ call[l].from = None
    BY <1>4 DEF Add
  <2>2. \A m \in Lcore : t \notin pending[m] \cup scan[m] /\ ~PuttingBack(m, t)
    BY <2>1, CallUnlinked
  <2>3. scan[d] = {}
    <3>1. lock[d] = None
      BY <1>4 DEF Add, LockFree
    <3>2. manage[d] # "scan"
      BY <2>1, <3>1
    <3> QED
      BY <2>1, <3>2
  <2>4. /\ pending' = [pending EXCEPT ![d] = pending[d] \cup {t}]
        /\ status' = [status EXCEPT ![t] = [state |-> "PENDING", owner |-> d]]
        /\ call' = [call EXCEPT ![l] = NoCall]
        /\ UNCHANGED <<scan, manage, running>>
    BY <1>4 DEF Add
  <2> QED
    BY <2>1, <2>2, <2>3, <2>4
<1>5. ASSUME NEW l \in Lcore, EndStop(l)
      PROVE  ListInv'
  BY <1>5 DEF EndStop
<1>6. ASSUME NEW l \in Lcore, Cut(l)
      PROVE  ListInv'
  BY <1>6 DEF Cut, LockFree
<1>7. ASSUME NEW l \in Lcore, NEW t \in Timer, Mark(l, t)
      PROVE  ListInv'
  <2>1. /\ manage[l] = "scan" /\ t \in scan[l]
        /\ scan' = [scan EXCEPT ![l] = scan[l] \ {t}]
        /\ UNCHANGED <<pending, due, lock, call, manage, running, updated, live, calls>>
    BY <1>7 DEF Mark
  <2>2. CASE status[t].state = "PENDING"
    <3>1. /\ status' = [status EXCEPT ![t] = [state |-> "RUNNING", owner |-> l]]
          /\ runList' = [runList EXCEPT ![l] = runList[l] \cup {t}]
      BY <1>7, <2>2 DEF Mark, MayRun
    <3>2. \A m \in Lcore : MayLink(t, m) => m = l
      <4>1. \A k \in Lcore : call[k].tim # t
        BY <2>2, CallConfigures
      <4>2. InState(t, "PENDING", l)
        BY <2>1, <4>1
      <4> QED
        BY <4>1, <4>2
    <3>3. t \notin pending[l] /\ \A m \in Lcore \ {l} : t \notin pending[m] \cup scan[m]
      BY <2>1, <3>2
    <3>4. \A m \in Lcore : ~PuttingBack(m, t)
      BY <2>1, <3>2
    <3> QED
      BY <2>1, <2>2, <3>1, <3>3, <3>4
  <2>3. CASE status[t].state # "PENDING"
    <3>1. UNCHANGED <<status, runList>>
      BY <1>7, <2>3 DEF Mark, MayRun
    <3> QED
      BY <2>1, <2>3, <3>1
  <2> QED
    BY <2>2, <2>3
<1>8. ASSUME NEW l \in Lcore, Unlock(l)
      PROVE  ListInv'
  BY <1>8 DEF Unlock
<1>9. ASSUME NEW l \in Lcore, NEW t \in Timer, CallbackStart(l, t)
      PROVE  ListInv'
  BY <1>9 DEF CallbackStart
<1>10. ASSUME NEW l \in Lcore, CallbackReturn(l)
      PROVE  ListInv'
  BY <1>10 DEF CallbackReturn, Touched
<1>11. ASSUME NEW l \in Lcore, Reload(l)
      PROVE  ListInv'
  BY <1>11 DEF Reload, LockFree
<1>12. ASSUME NEW l \in Lcore, ReloadReset(l)
      PROVE  ListInv'
  BY <1>12 DEF ReloadReset, MayRun
<1>13. ASSUME NEW l \in Lcore, ManageReturn(l)
      PROVE  ListInv'
  BY <1>13 DEF ManageReturn, ServedAll
<1>14. CASE UNCHANGED vars
  BY <1>14 DEF vars, manageVars
<1> HIDE DEF TypeOK, CallInv, RunInv, NoCall, ListInv, Serving, MayLink, PuttingBack,
        InState, manageVars
<1> QED
  BY <1>1, <1>2, <1>3, <1>4, <1>5, <1>6, <1>7, <1>8, <1>9, <1>10, <1>11, <1>12, <1>13,
     <1>14
     DEF Next, CallStep, ManageStep, BeginReset, BeginStop

\* A timer is armed when its status says so.
LEMMA LiveNext ==
    ASSUME TypeOK, CallInv, RunInv, ListInv, LiveInv, [Next]_vars PROVE LiveInv'
<1> USE NoneAssumption DEF TypeOK, CallInv, RunInv, ListInv, Serving, MayLink,
        PuttingBack, LiveInv, InState, manageVars
<1>1. ASSUME NEW t \in Timer, Expire(t)
      PROVE  LiveInv'
  BY <1>1 DEF Expire
<1>2. ASSUME NEW l \in Lcore, NEW t \in Timer, NEW op \in {"reset", "stop"},
             NEW dest \in Lcore \cup {None}, op = "reset" => dest \in Lcore,
             Configure(l, t, op, dest)
      PROVE  LiveInv'
  BY <1>2 DEF Configure, InUserCode, MayConfigure
<1>3. ASSUME NEW l \in Lcore, Delete(l)
      PROVE  LiveInv'
  BY <1>3 DEF Delete, LockFree
<1>4. ASSUME NEW l \in Lcore, Add(l)
      PROVE  LiveInv'
  BY <1>4 DEF Add, LockFree
<1>5. ASSUME NEW l \in Lcore, EndStop(l)
      PROVE  LiveInv'
  BY <1>5 DEF EndStop
<1>6. ASSUME NEW l \in Lcore, Cut(l)
      PROVE  LiveInv'
  BY <1>6 DEF Cut, LockFree
<1>7. ASSUME NEW l \in Lcore, NEW t \in Timer, Mark(l, t)
      PROVE  LiveInv'
  <2>1. /\ manage[l] = "scan" /\ t \in scan[l]
        /\ scan' = [scan EXCEPT ![l] = scan[l] \ {t}]
        /\ UNCHANGED <<pending, due, lock, call, manage, running, updated, live, calls>>
    BY <1>7 DEF Mark
  <2>2. CASE status[t].state = "PENDING"
    <3>1. /\ status' = [status EXCEPT ![t] = [state |-> "RUNNING", owner |-> l]]
          /\ runList' = [runList EXCEPT ![l] = runList[l] \cup {t}]
      BY <1>7, <2>2 DEF Mark, MayRun
    <3> QED
      BY <2>1, <2>2, <3>1
  <2>3. CASE status[t].state # "PENDING"
    <3>1. UNCHANGED <<status, runList>>
      BY <1>7, <2>3 DEF Mark, MayRun
    <3> QED
      BY <2>1, <2>3, <3>1
  <2> QED
    BY <2>2, <2>3
<1>8. ASSUME NEW l \in Lcore, Unlock(l)
      PROVE  LiveInv'
  BY <1>8 DEF Unlock
<1>9. ASSUME NEW l \in Lcore, NEW t \in Timer, CallbackStart(l, t)
      PROVE  LiveInv'
  BY <1>9 DEF CallbackStart
<1>10. ASSUME NEW l \in Lcore, CallbackReturn(l)
      PROVE  LiveInv'
  BY <1>10 DEF CallbackReturn, Touched
<1>11. ASSUME NEW l \in Lcore, Reload(l)
      PROVE  LiveInv'
  BY <1>11 DEF Reload, LockFree
<1>12. ASSUME NEW l \in Lcore, ReloadReset(l)
      PROVE  LiveInv'
  BY <1>12 DEF ReloadReset, MayRun
<1>13. ASSUME NEW l \in Lcore, ManageReturn(l)
      PROVE  LiveInv'
  BY <1>13 DEF ManageReturn, ServedAll
<1>14. CASE UNCHANGED vars
  BY <1>14 DEF vars, manageVars
<1> HIDE DEF TypeOK, CallInv, RunInv, ListInv, Serving, MayLink, PuttingBack, LiveInv,
        InState, manageVars
<1> QED
  BY <1>1, <1>2, <1>3, <1>4, <1>5, <1>6, <1>7, <1>8, <1>9, <1>10, <1>11, <1>12, <1>13,
     <1>14
     DEF Next, CallStep, ManageStep, BeginReset, BeginStop

-----------------------------------------------------------------------------

\* The initial states satisfy the invariant.
LEMMA InvInit == Init => IInv
<1> SUFFICES ASSUME Init PROVE IInv
  OBVIOUS
<1> USE NoneAssumption, CallsAssumption DEF Init, NoCall, InState
<1>1. TypeOK
  BY DEF TypeOK, Call
<1>2. CallInv
  BY DEF CallInv
<1>3. RunInv
  BY DEF RunInv, Serving
<1>4. ListInv
  BY DEF ListInv, MayLink, PuttingBack
<1>5. LiveInv
  BY DEF LiveInv
<1> QED
  BY <1>1, <1>2, <1>3, <1>4, <1>5 DEF IInv

\* Every reachable state satisfies it.
LEMMA InvCorrect == Spec => []IInv
<1>1. IInv /\ [Next]_vars => IInv'
  <2> SUFFICES ASSUME IInv, [Next]_vars PROVE IInv'
    OBVIOUS
  <2>1. TypeOK'
    BY TypeNext DEF IInv
  <2> QED
    BY <2>1, CallNext, RunNext, ListNext, LiveNext DEF IInv
<1> QED
  BY <1>1, InvInit, PTL DEF Spec

-----------------------------------------------------------------------------

\* The statuses, lists and locks keep their types, and an lcore holds no other lock than
\* that of its own list when it is between two steps (rte_timer.c 549-730).
THEOREM TypeCorrect == Spec => []TypeOK
<1>1. IInv => TypeOK
  BY DEF IInv
<1> QED
  BY <1>1, InvCorrect, PTL

\* A timer may be linked in the list of one lcore only, and while it is RUNNING in none.
LEMMA MayLinkOne ==
    ASSUME IInv, NEW t \in Timer, NEW l \in Lcore, MayLink(t, l)
    PROVE  /\ \A m \in Lcore : MayLink(t, m) => m = l
           /\ status[t].state \in {"PENDING", "CONFIG"}
<1>1. TypeOK /\ CallInv
  BY DEF IInv
<1>2. CASE InState(t, "PENDING", l)
  <2>1. \A k \in Lcore : call[k].tim # t
    BY <1>1, <1>2, CallConfigures DEF InState
  <2> QED
    BY <1>2, <2>1 DEF MayLink, InState
<1>3. CASE ~InState(t, "PENDING", l)
  <2>1. PICK k \in Lcore : call[k].tim = t /\ call[k].from = l
    BY <1>3 DEF MayLink
  <2>2. InState(t, "CONFIG", k)
    BY <1>1, <2>1, CallConfigures
  <2>3. ASSUME NEW m \in Lcore, MayLink(t, m) PROVE m = l
    <3>1. PICK j \in Lcore : call[j].tim = t /\ call[j].from = m
      BY <2>2, <2>3 DEF MayLink, InState
    <3>2. j = k
      BY <1>1, <2>1, <3>1, CallIsAlone
    <3> QED
      BY <2>1, <3>1, <3>2
  <2> QED
    BY <2>2, <2>3 DEF InState
<1> QED
  BY <1>2, <1>3

\* A timer has one place at most.
LEMMA OnePlace ==
    ASSUME IInv, NEW t \in Timer, NEW p \in Places(t), NEW q \in Places(t)
    PROVE  p = q
<1> DEFINE Linked(l) == t \in pending[l] \/ t \in scan[l]
<1>1. \A l \in Lcore : Linked(l) => MayLink(t, l) /\ ~(t \in pending[l] /\ t \in scan[l])
  BY DEF IInv, ListInv
<1>2. \A l \in Lcore : t \in runList[l] => InState(t, "RUNNING", l)
  BY DEF IInv, RunInv
<1>3. CASE \E l \in Lcore : Linked(l)
  <2>1. PICK l \in Lcore : Linked(l)
    BY <1>3
  <2>2. MayLink(t, l)
    BY <1>1, <2>1
  <2>3. \A m \in Lcore : (Linked(m) => m = l) /\ t \notin runList[m]
    BY <1>1, <1>2, <2>2, MayLinkOne DEF InState
  <2> QED
    BY <1>1, <2>1, <2>3 DEF Places
<1>4. CASE ~ \E l \in Lcore : Linked(l)
  <2>1. \A l, m \in Lcore : t \in runList[l] /\ t \in runList[m] => l = m
    BY <1>2 DEF InState
  <2> QED
    BY <1>4, <2>1 DEF Places
<1> QED
  BY <1>3, <1>4

\* Whatever lcores reset, stop and manage at once, a timer is linked in one list at most:
\* that of its owner (rte_timer.c 385-389).
THEOREM OneListCorrect == Spec => []OneList
<1>1. IInv => OneList
  <2> SUFFICES ASSUME IInv, NEW t \in Timer PROVE Cardinality(Places(t)) <= 1
    BY DEF OneList
  <2>1. CASE Places(t) = {}
    BY <2>1, FS_EmptySet
  <2>2. CASE \E p : p \in Places(t)
    <3>1. PICK p : p \in Places(t)
      BY <2>2
    <3>2. Places(t) = {p}
      BY <3>1, OnePlace
    <3> QED
      BY <3>2, FS_Singleton
  <2> QED
    BY <2>1, <2>2
<1> QED
  BY <1>1, InvCorrect, PTL

\* A timer that rte_timer_stop has stopped is in no list of any lcore (rte_timer.h
\* 288-291).
THEOREM StoppedCorrect == Spec => []StoppedIsUnlinked
<1>1. IInv => StoppedIsUnlinked
  <2> SUFFICES ASSUME IInv, NEW t \in Timer, status[t].state = "STOP" PROVE Places(t) = {}
    BY DEF StoppedIsUnlinked
  <2>1. \A l \in Lcore : ~MayLink(t, l)
    BY MayLinkOne
  <2>2. \A l \in Lcore : t \notin pending[l] /\ t \notin scan[l]
    BY <2>1 DEF IInv, ListInv
  <2>3. \A l \in Lcore : t \notin runList[l]
    BY DEF IInv, RunInv, InState
  <2> QED
    BY <2>2, <2>3 DEF Places
<1> QED
  BY <1>1, InvCorrect, PTL

\* No callback is called after a successful stop, nor twice for one SINGLE reset
\* (app/test/test_timer.c 38-39).
THEOREM ArmedCorrect == Spec => []RunsOnlyIfArmed
<1>1. IInv => RunsOnlyIfArmed
  <2> SUFFICES ASSUME IInv, NEW l \in Lcore, NEW t \in runList[l] PROVE t \in live
    BY DEF RunsOnlyIfArmed
  <2>1. t \in Timer /\ status[t].state = "RUNNING" /\ status[t].owner = l
    BY DEF IInv, TypeOK, RunInv, InState
  <2> QED
    BY <2>1 DEF IInv, LiveInv
<1> QED
  BY <1>1, InvCorrect, PTL

\* No race loses a timer that is armed.
THEOREM ListedCorrect == Spec => []ArmedIsListed
<1>1. IInv => ArmedIsListed
  <2> SUFFICES ASSUME IInv, NEW t \in live, ~InTransit(t)
               PROVE  \E l \in Lcore : /\ status[t].owner = l
                                       /\ t \in pending[l] \cup scan[l] \cup runList[l]
    BY DEF ArmedIsListed
  <2>1. t \in Timer /\ status[t].owner \in Lcore \cup {None}
        /\ status[t].state \in {"STOP", "PENDING", "RUNNING", "CONFIG"}
    BY DEF IInv, TypeOK
  <2>2. status[t].state # "STOP" /\ status[t].owner \in Lcore
    BY <2>1 DEF IInv, LiveInv, CallInv
  <2>3. status[t].state # "CONFIG"
    BY <2>1, <2>2 DEF IInv, CallInv, InTransit
  <2>4. CASE status[t].state = "PENDING"
    BY <2>1, <2>2, <2>4 DEF IInv, ListInv, PuttingBack, InTransit, InState
  <2>5. CASE status[t].state = "RUNNING"
    BY <2>1, <2>2, <2>5 DEF IInv, RunInv, Serving, InTransit, InState
  <2> QED
    BY <2>1, <2>2, <2>3, <2>4, <2>5
<1> QED
  BY <1>1, InvCorrect, PTL

-----------------------------------------------------------------------------
(* What a callback may count on.                                           *)

\* Until a callback resets or stops its own timer, the library refers to the timer
\* from no list, no lcore is inside a call on it, and an lcore that ran its callback
\* before has let it go: the object is the callback's alone (rte_timer.c 736-747).
CallbackAlone ==
    \A l \in Lcore : manage[l] = "callback" /\ ~updated[l] =>
        /\ Places(running[l]) = {}
        /\ \A k \in Lcore : call[k].tim # running[l]
        /\ \A k \in Lcore \ {l} : running[k] = running[l] =>
              /\ manage[k] \notin {"reload", "reset"}
              /\ manage[k] = "callback" => updated[k]

\* A callback that has not touched its timer has it to itself, whatever the other
\* lcores reset, stop and manage meanwhile: the RUNNING status refuses them
\* (rte_timer.c 174-225), and lcores that hold the timer from earlier have lost it.
THEOREM CallbackCorrect == Spec => []CallbackAlone
<1>1. IInv => CallbackAlone
  <2> SUFFICES ASSUME IInv, NEW l \in Lcore, manage[l] = "callback", ~updated[l]
               PROVE  /\ Places(running[l]) = {}
                      /\ \A k \in Lcore : call[k].tim # running[l]
                      /\ \A k \in Lcore \ {l} : running[k] = running[l] =>
                            /\ manage[k] \notin {"reload", "reset"}
                            /\ manage[k] = "callback" => updated[k]
    BY DEF CallbackAlone
  <2> DEFINE t == running[l]
  <2>1. t \in Timer
    BY DEF IInv, TypeOK
  <2>2. InState(t, "RUNNING", l)
    <3>1. updated[l] = FALSE
      BY DEF IInv, TypeOK
    <3> QED
      BY <3>1 DEF IInv, RunInv
  <2> HIDE DEF t
  <2>3. \A k \in Lcore : ~MayLink(t, k)
    BY <2>1, <2>2, MayLinkOne DEF InState
  <2>4. \A k \in Lcore : t \notin pending[k] /\ t \notin scan[k]
    BY <2>3 DEF IInv, ListInv
  <2>5. \A k \in Lcore : t \notin runList[k]
    <3> SUFFICES ASSUME NEW k \in Lcore, t \in runList[k] PROVE FALSE
      OBVIOUS
    <3>1. InState(t, "RUNNING", k) /\ ~Serving(k, t)
      BY DEF IInv, RunInv
    <3>2. Serving(l, t)
      BY DEF Serving, t
    <3> QED
      BY <2>2, <3>1, <3>2 DEF InState
  <2>6. \A k \in Lcore : call[k].tim # t
    BY <2>1, <2>2, CallConfigures DEF InState, IInv
  <2>7. ASSUME NEW k \in Lcore \ {l}, running[k] = t
        PROVE  /\ manage[k] \notin {"reload", "reset"}
               /\ manage[k] = "callback" => updated[k]
    <3>1. ~InState(t, "RUNNING", k)
      BY <2>2, <2>7 DEF InState
    <3>2. manage[k] # "reset"
      BY <2>3, <2>7 DEF IInv, ListInv
    <3>3. manage[k] # "reload" /\ (manage[k] = "callback" => updated[k] # FALSE)
      BY <2>7, <3>1 DEF IInv, RunInv
    <3>4. updated[k] \in BOOLEAN
      BY DEF IInv, TypeOK
    <3> QED
      BY <3>2, <3>3, <3>4
  <2> QED
    BY <2>4, <2>5, <2>6, <2>7 DEF Places, t
<1> QED
  BY <1>1, InvCorrect, PTL

-----------------------------------------------------------------------------
(* Why the locks let every lcore go on.                                    *)

\* l is about to take the lock of x's list: to delete from it or add to it in a call,
\* to cut its own expired timers, to put a periodic timer back, or, with its own lock
\* already held for that, to delete the timer from the list of another owner
\* (rte_timer.c 439-440, 520-521, 684, 761).
WaitsForLock(l, x) ==
    \/ call[l].op # "none" /\ call[l].from = x
    \/ call[l].op = "reset" /\ call[l].from = None /\ call[l].dest = x
    \/ x = l /\ manage[l] = "idle" /\ call[l] = NoCall /\ pending[l] \cap due # {}
    \/ x = l /\ manage[l] = "reload"
    \/ x # l /\ manage[l] = "reset" /\ InState(running[l], "PENDING", x)

\* An lcore that holds a lock waits for none.
HoldersGoOn ==
    \A x, k \in Lcore : lock[x] = k => \A y \in Lcore : ~WaitsForLock(k, y)

\* Callbacks reset timers of other lcores, whose callbacks may do the same in return:
\* no lcore waits for a lock whose holder waits in its turn, so that no cycle of
\* spinning lcores can form.  The one place where a second lock could be taken is the
\* reload of a periodic timer: it is safe because whoever takes the timer meanwhile
\* cannot add it elsewhere before it has had the lock of the list (rte_timer.c 761-772).
THEOREM LocksCorrect == Spec => []HoldersGoOn
<1>1. IInv => HoldersGoOn
  <2> SUFFICES ASSUME IInv, NEW x \in Lcore, NEW k \in Lcore, lock[x] = k,
                      NEW y \in Lcore, WaitsForLock(k, y)
               PROVE  FALSE
    BY DEF HoldersGoOn
  <2>1. k = x /\ manage[x] \in {"scan", "reset"}
    BY NoneAssumption DEF IInv, TypeOK
  <2>2. call[x] = NoCall
    BY <2>1 DEF IInv, CallInv
  <2>3. manage[x] = "reset" => ~(y # x /\ InState(running[x], "PENDING", y))
    <3> SUFFICES ASSUME manage[x] = "reset", InState(running[x], "PENDING", y), y # x
                 PROVE  FALSE
      OBVIOUS
    <3>1. running[x] \in Timer
      BY DEF IInv, TypeOK
    <3>2. MayLink(running[x], x)
      BY DEF IInv, ListInv
    <3>3. MayLink(running[x], y)
      BY DEF MayLink
    <3> QED
      BY <3>1, <3>2, <3>3, MayLinkOne
  <2> QED
    BY <2>1, <2>2, <2>3, NoneAssumption DEF WaitsForLock, NoCall
<1> QED
  BY <1>1, InvCorrect, PTL
=============================================================================
