-------------------------------- MODULE RteTimer --------------------------------
(***************************************************************************)
(* The timer library (lib/timer/rte_timer.c) that the applications' main   *)
(* loops run on.  Every lcore has a list of pending timers under a         *)
(* spinlock; any lcore may reset or stop any timer, from its main loop or  *)
(* from a timer's callback, while the owner's rte_timer_manage moves the   *)
(* expired timers to a run list and calls their callbacks.  What keeps     *)
(* them apart is the timer's status word, changed by compare-and-swap, and *)
(* the lock.                                                               *)
(*                                                                         *)
(* A list is the set of its timers: their order by expiry is left out, and *)
(* with it which of the expired timers runs first.  Time is left out too:  *)
(* a pending timer becomes due at any moment.  A failed compare-and-swap   *)
(* (return value -1) changes nothing and is no step.                       *)
(***************************************************************************)
EXTENDS Naturals, FiniteSets

CONSTANTS
    Lcore,      \* the lcores
    Timer,      \* the timers, all initialised once with rte_timer_init
    None,       \* RTE_TIMER_NO_OWNER, a free lock, no timer
    Periodic,   \* the timers that are reset as PERIODICAL
    MaxCalls    \* bound: successful resets and stops in a behaviour

ASSUME NoneAssumption == None \notin Lcore \cup Timer
ASSUME PeriodicAssumption == Periodic \subseteq Timer
ASSUME CallsAssumption == MaxCalls \in Nat

VARIABLES
    status,   \* tim->status: state and owner
    pending,  \* the timers in priv_timer[l].pending_head's list
    due,      \* the timers in some list whose expiry time has passed
    lock,     \* priv_timer[l].list_lock: its holder
    call,     \* the rte_timer_reset or rte_timer_stop that l is in
    manage,   \* where l is in rte_timer_manage
    scan,     \* the timers cut from l's list and not yet marked RUNNING
    runList,  \* l's run list, without the timer whose callback runs
    running,  \* priv_timer[l].running_tim
    updated,  \* priv_timer[l].updated
    live,     \* history: timers reset, and neither stopped nor fired since
    calls     \* resets and stops so far

vars == <<status, pending, due, lock, call, manage, scan, runList, running,
          updated, live, calls>>
manageVars == <<manage, scan, runList, running>>

NoCall == [op |-> "none", tim |-> None, dest |-> None, from |-> None]

Call == [op : {"none", "reset", "stop"}, tim : Timer \cup {None},
         dest : Lcore \cup {None},   \* tim_lcore of the reset
         from : Lcore \cup {None}]   \* the list the timer must be deleted from

TypeOK ==
    /\ status \in [Timer -> [state : {"STOP", "PENDING", "RUNNING", "CONFIG"},
                             owner : Lcore \cup {None}]]
    /\ pending \in [Lcore -> SUBSET Timer]
    /\ due \subseteq Timer
    /\ lock \in [Lcore -> Lcore \cup {None}]
    /\ call \in [Lcore -> Call]
    /\ manage \in [Lcore -> {"idle", "scan", "run", "callback", "reload", "reset"}]
    /\ scan \in [Lcore -> SUBSET Timer]
    /\ runList \in [Lcore -> SUBSET Timer]
    /\ running \in [Lcore -> Timer \cup {None}]
    /\ updated \in [Lcore -> BOOLEAN]
    /\ live \subseteq Timer
    /\ calls \in 0..MaxCalls
    /\ \A l \in Lcore :
        /\ manage[l] = "idle" => running[l] = None /\ runList[l] = {}
        /\ manage[l] \in {"callback", "reload", "reset"} => running[l] # None
        /\ scan[l] # {} => manage[l] = "scan"
        /\ lock[l] = IF manage[l] \in {"scan", "reset"} THEN l ELSE None

Init ==
    /\ status = [t \in Timer |-> [state |-> "STOP", owner |-> None]]
    /\ pending = [l \in Lcore |-> {}]
    /\ due = {}
    /\ lock = [l \in Lcore |-> None]
    /\ call = [l \in Lcore |-> NoCall]
    /\ manage = [l \in Lcore |-> "idle"]
    /\ scan = [l \in Lcore |-> {}]
    /\ runList = [l \in Lcore |-> {}]
    /\ running = [l \in Lcore |-> None]
    /\ updated = [l \in Lcore |-> FALSE]
    /\ live = {}
    /\ calls = 0

\* The expiry time of a timer passes.
Expire(t) ==
    /\ t \notin due
    /\ \E l \in Lcore : t \in pending[l]
    /\ due' = due \cup {t}
    /\ UNCHANGED <<status, pending, lock, call, manageVars, updated, live, calls>>

-----------------------------------------------------------------------------
(* rte_timer_reset and rte_timer_stop, called by lcore l.                  *)

\* Mutant: a RUNNING timer of the lcore's own run list may be configured, whether
\* or not it is the one whose callback runs.
MayConfigureOwn(l, t) ==
    \/ status[t].state \in {"STOP", "PENDING"}
    \/ status[t].state = "RUNNING" /\ status[t].owner = l

\* timer_set_config_state succeeds: the timer is stopped or pending, or its own
\* callback makes the call.
MayConfigure(l, t) ==
    \/ status[t].state \in {"STOP", "PENDING"}
    \/ /\ status[t].state = "RUNNING"
       /\ status[t].owner = l
       /\ running[l] = t

\* An lcore makes calls in its main loop and in a callback.
InUserCode(l) == manage[l] \in {"idle", "callback"} /\ call[l] = NoCall

\* The compare-and-swap to CONFIG, and the note that the callback's own timer is
\* dealt with.
Configure(l, t, op, dest) ==
    /\ calls < MaxCalls
    /\ calls' = calls + 1
    /\ InUserCode(l)
    /\ MayConfigure(l, t)
    /\ call' = [call EXCEPT ![l] =
                  [op |-> op, tim |-> t, dest |-> dest,
                   from |-> IF status[t].state = "PENDING" THEN status[t].owner ELSE None]]
    /\ updated' = [updated EXCEPT ![l] = @ \/ status[t].state = "RUNNING"]
    /\ status' = [status EXCEPT ![t] = [state |-> "CONFIG", owner |-> l]]
    /\ UNCHANGED <<pending, due, lock, manageVars, live>>

BeginReset(l, t, dest) == Configure(l, t, "reset", dest)

BeginStop(l, t) == Configure(l, t, "stop", None)

\* Mutant: the list is changed without waiting for its lock.
LockFreeAlways(l) == l \in Lcore

\* rte_spinlock_lock returns.
LockFree(l) == lock[l] = None

\* timer_del, with the lock of the list's owner for its duration.  The timer may
\* have been cut from the list meanwhile.
Delete(l) ==
    /\ call[l].from # None
    /\ LockFree(call[l].from)
    /\ pending' = [pending EXCEPT ![call[l].from] = @ \ {call[l].tim}]
    /\ due' = due \ {call[l].tim}
    /\ call' = [call EXCEPT ![l].from = None]
    /\ UNCHANGED <<status, lock, manageVars, updated, live, calls>>

\* timer_add and the status PENDING, with the lock of the destination.
Add(l) ==
    /\ call[l].op = "reset"
    /\ call[l].from = None
    /\ LockFree(call[l].dest)
    /\ pending' = [pending EXCEPT ![call[l].dest] = @ \cup {call[l].tim}]
    /\ status' = [status EXCEPT ![call[l].tim] = [state |-> "PENDING", owner |-> call[l].dest]]
    /\ live' = live \cup {call[l].tim}
    /\ call' = [call EXCEPT ![l] = NoCall]
    /\ UNCHANGED <<due, lock, manageVars, updated, calls>>

\* The end of rte_timer_stop: it returns 0.
EndStop(l) ==
    /\ call[l].op = "stop"
    /\ call[l].from = None
    /\ status' = [status EXCEPT ![call[l].tim] = [state |-> "STOP", owner |-> None]]
    /\ live' = live \ {call[l].tim}
    /\ call' = [call EXCEPT ![l] = NoCall]
    /\ UNCHANGED <<pending, due, lock, manageVars, updated, calls>>

-----------------------------------------------------------------------------
(* __rte_timer_manage on lcore l.                                          *)

\* Take the lock and break the list at the current time.
Cut(l) ==
    /\ manage[l] = "idle"
    /\ call[l] = NoCall
    /\ pending[l] \cap due # {}
    /\ LockFree(l)
    /\ lock' = [lock EXCEPT ![l] = l]
    /\ scan' = [scan EXCEPT ![l] = pending[l] \cap due]
    /\ pending' = [pending EXCEPT ![l] = @ \ due]
    /\ due' = due \ pending[l]
    /\ manage' = [manage EXCEPT ![l] = "scan"]
    /\ UNCHANGED <<status, call, runList, running, updated, live, calls>>

\* Mutant: the status is stored, not compared and swapped.
MayRunAlways(t) == t \in Timer

\* timer_set_running_state succeeds; otherwise another lcore is configuring it.
MayRun(t) == status[t].state = "PENDING"

\* One timer of the cut: marked RUNNING, or dropped from the run list.
Mark(l, t) ==
    /\ manage[l] = "scan"
    /\ t \in scan[l]
    /\ scan' = [scan EXCEPT ![l] = @ \ {t}]
    /\ IF MayRun(t)
       THEN /\ status' = [status EXCEPT ![t] = [state |-> "RUNNING", owner |-> l]]
            /\ runList' = [runList EXCEPT ![l] = @ \cup {t}]
       ELSE UNCHANGED <<status, runList>>
    /\ UNCHANGED <<pending, due, lock, call, manage, running, updated, live, calls>>

Unlock(l) ==
    /\ manage[l] = "scan"
    /\ scan[l] = {}
    /\ lock' = [lock EXCEPT ![l] = None]
    /\ manage' = [manage EXCEPT ![l] = "run"]
    /\ UNCHANGED <<status, pending, due, call, scan, runList, running, updated,
                   live, calls>>

CallbackStart(l, t) ==
    /\ manage[l] = "run"
    /\ t \in runList[l]
    /\ runList' = [runList EXCEPT ![l] = @ \ {t}]
    /\ running' = [running EXCEPT ![l] = t]
    /\ updated' = [updated EXCEPT ![l] = FALSE]
    /\ live' = IF t \in Periodic THEN live ELSE live \ {t}
    /\ manage' = [manage EXCEPT ![l] = "callback"]
    /\ UNCHANGED <<status, pending, due, lock, call, scan, calls>>

\* Mutant: the callback's own reset or stop is overlooked.
TouchedNever(l) == FALSE

\* The timer was stopped or reloaded by its callback.
Touched(l) == updated[l]

CallbackReturn(l) ==
    /\ manage[l] = "callback"
    /\ call[l] = NoCall
    /\ LET t == running[l]
       IN  /\ status' = IF Touched(l) \/ t \in Periodic THEN status
                        ELSE [status EXCEPT ![t] = [state |-> "STOP", owner |-> None]]
           /\ manage' = [manage EXCEPT ![l] =
                            IF ~Touched(l) /\ t \in Periodic THEN "reload" ELSE "run"]
    /\ UNCHANGED <<pending, due, lock, call, scan, runList, running, updated,
                   live, calls>>

\* A PERIODICAL timer: lock the list, mark the timer PENDING ...
Reload(l) ==
    /\ manage[l] = "reload"
    /\ LockFree(l)
    /\ lock' = [lock EXCEPT ![l] = l]
    /\ status' = [status EXCEPT ![running[l]] = [state |-> "PENDING", owner |-> l]]
    /\ manage' = [manage EXCEPT ![l] = "reset"]
    /\ UNCHANGED <<pending, due, call, scan, runList, running, updated, live, calls>>

\* ... and __rte_timer_reset with the lock held: it fails if another lcore has
\* taken the PENDING timer meanwhile.
ReloadReset(l) ==
    /\ manage[l] = "reset"
    /\ pending' = IF MayRun(running[l])
                  THEN [pending EXCEPT ![l] = @ \cup {running[l]}] ELSE pending
    /\ lock' = [lock EXCEPT ![l] = None]
    /\ manage' = [manage EXCEPT ![l] = "run"]
    /\ UNCHANGED <<status, due, call, scan, runList, running, updated, live, calls>>

\* Mutant: the lcore returns after one callback.
ServedOne(l) == l \in Lcore

\* All the callbacks of the run list have been called.
ServedAll(l) == runList[l] = {}

ManageReturn(l) ==
    /\ manage[l] = "run"
    /\ ServedAll(l)
    /\ running' = [running EXCEPT ![l] = None]
    /\ manage' = [manage EXCEPT ![l] = "idle"]
    /\ UNCHANGED <<status, pending, due, lock, call, scan, runList, updated,
                   live, calls>>

-----------------------------------------------------------------------------
CallStep(l) ==
    \/ \E t \in Timer, d \in Lcore : BeginReset(l, t, d)
    \/ \E t \in Timer : BeginStop(l, t)
    \/ Delete(l) \/ Add(l) \/ EndStop(l)

ManageStep(l) ==
    \/ Cut(l)
    \/ \E t \in Timer : Mark(l, t)
    \/ Unlock(l)
    \/ \E t \in Timer : CallbackStart(l, t)
    \/ CallbackReturn(l) \/ Reload(l) \/ ReloadReset(l) \/ ManageReturn(l)

Next ==
    \/ \E t \in Timer : Expire(t)
    \/ \E l \in Lcore : CallStep(l) \/ ManageStep(l)

Spec == Init /\ [][Next]_vars

\* Time passes, a call that was begun goes on, and every lcore keeps calling
\* rte_timer_manage.
Fairness ==
    /\ \A t \in Timer : WF_vars(Expire(t))
    /\ \A l \in Lcore : /\ WF_vars(Delete(l) \/ Add(l) \/ EndStop(l))
                        /\ WF_vars(ManageStep(l))

LiveSpec == Spec /\ Fairness

-----------------------------------------------------------------------------
(* Properties.                                                             *)

\* How many times the library refers to t from a list.
Places(t) ==
    {<<"pending", l>> : l \in {k \in Lcore : t \in pending[k]}}
       \cup {<<"scan", l>> : l \in {k \in Lcore : t \in scan[k]}}
       \cup {<<"run", l>> : l \in {k \in Lcore : t \in runList[k]}}

\* A timer is in one list at most: timer_add (rte_timer.c 385-389) is never given a
\* timer that is in a list, a pending or a run list, of any lcore.
OneList == \A t \in Timer : Cardinality(Places(t)) <= 1

\* A stopped timer is in no list, so that its memory may be freed (rte_timer.h
\* 288-291), even while another lcore was about to run it.
StoppedIsUnlinked == \A t \in Timer : status[t].state = "STOP" => Places(t) = {}

\* A callback that is about to be called belongs to a reset that was neither
\* stopped nor served: rte_timer_stop that returned 0 is final, and a SINGLE reset
\* runs its callback once (app/test/test_timer.c 38-39).
RunsOnlyIfArmed == \A l \in Lcore : runList[l] \subseteq live

\* Somebody is changing t: a call, or the reload of a periodic timer.
InTransit(t) ==
    \E l \in Lcore :
        \/ call[l].tim = t
        \/ running[l] = t /\ manage[l] \in {"callback", "reload", "reset"}

\* No race loses a timer: one that was reset, and neither stopped nor fired, is in
\* the list of the lcore that owns it, which will find it there.
ArmedIsListed ==
    \A t \in live :
        \/ InTransit(t)
        \/ \E l \in Lcore : /\ status[t].owner = l
                            /\ t \in pending[l] \cup scan[l] \cup runList[l]

\* When the calls end, every one-shot timer that is armed runs or is stopped, unless
\* a periodic timer stays armed: its lcore, or another one in its callback, may then
\* keep the unfair lock of a list from an lcore for ever (rte_timer.c 684, 763).
EventuallyRuns ==
    <>[](live \cap Periodic = {}) =>
        \A t \in Timer \ Periodic : t \in live ~> t \notin live

-----------------------------------------------------------------------------
(* The inductive invariants behind these properties.                       *)

InState(t, state, l) == status[t].state = state /\ status[t].owner = l

\* A timer in CONFIG belongs to one call of its owner, which is in user code for as
\* long as the call lasts; nobody else may change it (rte_timer.c 174-225).
CallInv ==
    /\ \A t \in Timer :
        /\ status[t].state = "STOP" <=> status[t].owner = None
        /\ status[t].state = "CONFIG" => call[status[t].owner].tim = t
    /\ \A l \in Lcore : call[l] # NoCall =>
        /\ call[l].tim \in Timer /\ InState(call[l].tim, "CONFIG", l)
        /\ call[l].op = "stop" \/ (call[l].op = "reset" /\ call[l].dest \in Lcore)
        /\ manage[l] \in {"idle", "callback"}

\* l runs the callback of t, or is about to reload it.
Serving(l, t) == running[l] = t /\ manage[l] \in {"callback", "reload"}

\* A timer in RUNNING is in the run list of its owner or is the one it serves; and
\* updated tells whether the callback has changed its own timer (rte_timer.c 658-720).
RunInv ==
    \A l \in Lcore :
        /\ \A t \in runList[l] : InState(t, "RUNNING", l) /\ ~Serving(l, t)
        /\ \A t \in Timer : InState(t, "RUNNING", l) => t \in runList[l] \/ Serving(l, t)
        /\ manage[l] = "callback" =>
            (updated[l] = FALSE <=> InState(running[l], "RUNNING", l))
        /\ manage[l] = "reload" =>
            running[l] \in Periodic /\ InState(running[l], "RUNNING", l)

\* The pending list of l, with its cut, is the one that t may be linked in.
MayLink(t, l) ==
    InState(t, "PENDING", l) \/ \E k \in Lcore : call[k].tim = t /\ call[k].from = l

\* l holds its lock to put t back in its list.
PuttingBack(l, t) == manage[l] = "reset" /\ running[l] = t

\* A list links only timers that are its own, and all of them, but for the one that is
\* put back; a call that deletes a timer waits for the lock till then.
ListInv ==
    \A l \in Lcore :
        /\ pending[l] \cap scan[l] = {}
        /\ \A t \in pending[l] \cup scan[l] : MayLink(t, l) /\ ~PuttingBack(l, t)
        /\ \A t \in Timer : InState(t, "PENDING", l) =>
            t \in pending[l] \cup scan[l] \/ PuttingBack(l, t)
        /\ manage[l] = "reset" => MayLink(running[l], l)

\* Which timers are armed shows in the status, but for those in CONFIG.
LiveInv ==
    \A t \in Timer :
        /\ status[t].state = "STOP" => t \notin live
        /\ status[t].state = "PENDING" => t \in live
        /\ status[t].state = "RUNNING" =>
            (t \in live <=> t \in Periodic \/ t \in runList[status[t].owner])
=============================================================================
