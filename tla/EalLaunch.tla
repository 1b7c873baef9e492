-------------------------------- MODULE EalLaunch --------------------------------
(***************************************************************************)
(* How the main lcore gives a function to a worker lcore and waits for it  *)
(* (lib/eal eal_common_launch.c, eal_common_thread.c, eal_unix_thread.c):  *)
(* rte_eal_init starts every worker this way, sense its xstats_worker, and *)
(* the election applications their lcore_main.  The two sides share        *)
(* lcore_config[w] - state, f, arg, ret - without a lock; a byte in each of*)
(* two pipes and the state word decide who may touch it.                   *)
(*                                                                         *)
(* Every load, store, pipe read and pipe write is a step.  A job stands    *)
(* for the function and its argument of one launch; they are stored and    *)
(* loaded apart.  A call of f with arg returns the pair of them.           *)
(***************************************************************************)
EXTENDS Naturals

CONSTANTS
    Worker,     \* the worker lcores
    None,       \* NULL, no job
    MaxJobs     \* bound: launches, of one or of all workers

ASSUME JobAssumption == MaxJobs \in Nat /\ None \notin Nat

VARIABLES
    state,      \* lcore_config[w].state
    f,          \* lcore_config[w].f
    arg,        \* lcore_config[w].arg
    ret,        \* lcore_config[w].ret
    toWorker,   \* bytes in pipe_main2worker
    toMain,     \* bytes in pipe_worker2main
    workerPc,   \* the next step of eal_thread_loop on w
    fct,        \* the local variables f and fct_arg of eal_thread_loop
    mainPc,     \* the next step of the main lcore
    todo,       \* the workers that the call of the main lcore has still to treat
    callMain,   \* call_main of rte_eal_mp_remote_launch is CALL_MAIN
    target,     \* worker_id in rte_eal_remote_launch
    jobs,       \* the number of the last job
    launched,   \* history: the last job launched on w
    runs,       \* history: the jobs whose function w called, with the arguments
    waited      \* history: what rte_eal_wait_lcore returned, and what it was to return

config == <<state, f, arg, ret>>
pipes == <<toWorker, toMain>>
workerVars == <<workerPc, fct, runs>>
mainVars == <<mainPc, todo, callMain, target, jobs, launched, waited>>
vars == <<config, pipes, workerVars, mainVars>>

Job == 1..MaxJobs
JobOrNone == Job \cup {None}
Result == JobOrNone \X JobOrNone

TypeOK ==
    /\ state \in [Worker -> {"WAIT", "RUNNING"}]
    /\ f \in [Worker -> JobOrNone]
    /\ arg \in [Worker -> JobOrNone]
    /\ ret \in [Worker -> Result]
    /\ toWorker \in [Worker -> 0..1]
    /\ toMain \in [Worker -> 0..1]
    /\ workerPc \in [Worker -> {"command", "running", "ack", "f", "call", "clearF",
                                "clearArg", "wait"}]
    /\ fct \in [Worker -> JobOrNone]
    /\ mainPc \in {"user", "check", "launch", "arg", "f", "wake", "ack", "call", "wait"}
    /\ todo \subseteq Worker
    /\ callMain \in BOOLEAN
    /\ target \in Worker
    /\ jobs \in 0..MaxJobs
    /\ launched \in [Worker -> JobOrNone]
    /\ runs \in [Worker -> SUBSET (JobOrNone \X JobOrNone)]
    /\ waited \in [Worker -> Result \X Result]

Nothing == <<None, None>>

\* rte_eal_init has created the pipes and the threads (linux/eal.c 1236-1263).
Init ==
    /\ state = [w \in Worker |-> "WAIT"]
    /\ f = [w \in Worker |-> None]
    /\ arg = [w \in Worker |-> None]
    /\ ret = [w \in Worker |-> Nothing]
    /\ toWorker = [w \in Worker |-> 0]
    /\ toMain = [w \in Worker |-> 0]
    /\ workerPc = [w \in Worker |-> "command"]
    /\ fct = [w \in Worker |-> None]
    /\ mainPc = "user"
    /\ todo = {}
    /\ callMain = FALSE
    /\ target \in Worker
    /\ jobs = 0
    /\ launched = [w \in Worker |-> None]
    /\ runs = [w \in Worker |-> {}]
    /\ waited = [w \in Worker |-> <<Nothing, Nothing>>]

-----------------------------------------------------------------------------
(* eal_thread_loop on worker w.                                            *)

\* Mutant: the command is acknowledged before the state is RUNNING.
AfterAckFirst(pc) ==
    CASE pc = "command" -> "ack" [] pc = "ack" -> "running" [] pc = "running" -> "f"
      [] pc = "f" -> "call" [] pc = "call" -> "clearF" [] pc = "clearF" -> "clearArg"
      [] pc = "clearArg" -> "wait" [] pc = "wait" -> "command"

\* Mutant: the state is WAIT before f and arg are cleared.
AfterWaitFirst(pc) ==
    CASE pc = "command" -> "running" [] pc = "running" -> "ack" [] pc = "ack" -> "f"
      [] pc = "f" -> "call" [] pc = "call" -> "wait" [] pc = "wait" -> "clearF"
      [] pc = "clearF" -> "clearArg" [] pc = "clearArg" -> "command"

\* The order of the loop's steps.
After(pc) ==
    CASE pc = "command" -> "running" [] pc = "running" -> "ack" [] pc = "ack" -> "f"
      [] pc = "f" -> "call" [] pc = "call" -> "clearF" [] pc = "clearF" -> "clearArg"
      [] pc = "clearArg" -> "wait" [] pc = "wait" -> "command"

At(w, pc) ==
    /\ workerPc[w] = pc
    /\ workerPc' = [workerPc EXCEPT ![w] = After(pc)]
    /\ UNCHANGED mainVars

\* eal_thread_wait_command: the read blocks until there is a byte.
WaitCommand(w) ==
    /\ At(w, "command")
    /\ toWorker[w] > 0
    /\ toWorker' = [toWorker EXCEPT ![w] = @ - 1]
    /\ UNCHANGED <<config, toMain, fct, runs>>

SetRunning(w) ==
    /\ At(w, "running")
    /\ state' = [state EXCEPT ![w] = "RUNNING"]
    /\ UNCHANGED <<f, arg, ret, pipes, fct, runs>>

AckCommand(w) ==
    /\ At(w, "ack")
    /\ toMain' = [toMain EXCEPT ![w] = @ + 1]
    /\ UNCHANGED <<config, toWorker, fct, runs>>

\* The loop that loads f until it is not NULL.
LoadF(w) ==
    /\ At(w, "f")
    /\ f[w] # None
    /\ fct' = [fct EXCEPT ![w] = f[w]]
    /\ UNCHANGED <<config, pipes, runs>>

\* arg is loaded, f is called and returns, and ret is stored.
CallF(w) ==
    /\ At(w, "call")
    /\ runs' = [runs EXCEPT ![w] = @ \cup {<<fct[w], arg[w]>>}]
    /\ ret' = [ret EXCEPT ![w] = <<fct[w], arg[w]>>]
    /\ UNCHANGED <<state, f, arg, pipes, fct>>

ClearF(w) ==
    /\ At(w, "clearF")
    /\ f' = [f EXCEPT ![w] = None]
    /\ UNCHANGED <<state, arg, ret, pipes, fct, runs>>

ClearArg(w) ==
    /\ At(w, "clearArg")
    /\ arg' = [arg EXCEPT ![w] = None]
    /\ UNCHANGED <<state, f, ret, pipes, fct, runs>>

SetWait(w) ==
    /\ At(w, "wait")
    /\ state' = [state EXCEPT ![w] = "WAIT"]
    /\ UNCHANGED <<f, arg, ret, pipes, fct, runs>>

WorkerStep(w) ==
    \/ WaitCommand(w) \/ SetRunning(w) \/ AckCommand(w) \/ LoadF(w)
    \/ CallF(w) \/ ClearF(w) \/ ClearArg(w) \/ SetWait(w)

-----------------------------------------------------------------------------
(* The main lcore.                                                         *)

\* rte_eal_remote_launch(f, arg, w) is called.
RemoteLaunch(w) ==
    /\ mainPc = "user"
    /\ jobs < MaxJobs
    /\ jobs' = jobs + 1
    /\ todo' = {w}
    /\ mainPc' = "launch"
    /\ callMain' = FALSE
    /\ UNCHANGED <<config, pipes, workerVars, target, launched, waited>>

\* rte_eal_mp_remote_launch(f, arg, SKIP_MAIN or CALL_MAIN) is called.
MpRemoteLaunch ==
    /\ mainPc = "user"
    /\ jobs < MaxJobs
    /\ jobs' = jobs + 1
    /\ callMain' \in BOOLEAN
    /\ todo' = Worker
    /\ mainPc' = "check"
    /\ UNCHANGED <<config, pipes, workerVars, target, launched, waited>>

\* It looks at the states, one after the other, and returns -EBUSY at the first that
\* is not WAIT.
CheckState(w) ==
    /\ mainPc = "check"
    /\ w \in todo
    /\ IF state[w] = "WAIT"
       THEN /\ todo' = IF todo = {w} THEN Worker ELSE todo \ {w}
            /\ mainPc' = IF todo = {w} THEN "launch" ELSE "check"
       ELSE todo' = {} /\ mainPc' = "user"
    /\ UNCHANGED <<config, pipes, workerVars, callMain, target, jobs, launched, waited>>

\* Mutant: the state is not looked at.
MayLaunchAlways(w) == w \in Worker

\* The worker has finished its job.
MayLaunch(w) == state[w] = "WAIT"

\* The main lcore goes on to the next worker, or calls the function itself, or returns.
NextPc(rest) ==
    IF rest # {} THEN "launch" ELSE IF callMain THEN "call" ELSE "user"

\* rte_eal_remote_launch looks at the state: -EBUSY, or the launch begins.
BeginLaunch(w) ==
    /\ mainPc = "launch"
    /\ w \in todo
    /\ todo' = todo \ {w}
    /\ IF MayLaunch(w)
       THEN /\ mainPc' = "arg"
            /\ target' = w
            /\ launched' = [launched EXCEPT ![w] = jobs]
       ELSE /\ mainPc' = NextPc(todo')
            /\ UNCHANGED <<target, launched>>
    /\ UNCHANGED <<config, pipes, workerVars, callMain, jobs, waited>>

StoreArg ==
    /\ mainPc = "arg"
    /\ arg' = [arg EXCEPT ![target] = jobs]
    /\ mainPc' = "f"
    /\ UNCHANGED <<state, f, ret, pipes, workerVars, todo, callMain, target, jobs, launched, waited>>

StoreF ==
    /\ mainPc = "f"
    /\ f' = [f EXCEPT ![target] = jobs]
    /\ mainPc' = "wake"
    /\ UNCHANGED <<state, arg, ret, pipes, workerVars, todo, callMain, target, jobs, launched, waited>>

\* eal_thread_wake_worker writes its byte ...
WakeWorker ==
    /\ mainPc = "wake"
    /\ toWorker' = [toWorker EXCEPT ![target] = @ + 1]
    /\ mainPc' = "ack"
    /\ UNCHANGED <<config, toMain, workerVars, todo, callMain, target, jobs, launched, waited>>

\* Mutant: the answer of the worker is not read.
ReadNothing ==
    /\ mainPc = "ack"
    /\ mainPc' = NextPc(todo)
    /\ UNCHANGED <<config, pipes, workerVars, todo, callMain, target, jobs, launched, waited>>

\* ... and reads the worker's; rte_eal_remote_launch returns 0.
ReadAck ==
    /\ mainPc = "ack"
    /\ toMain[target] > 0
    /\ toMain' = [toMain EXCEPT ![target] = @ - 1]
    /\ mainPc' = NextPc(todo)
    /\ UNCHANGED <<config, toWorker, workerVars, todo, callMain, target, jobs, launched, waited>>

\* CALL_MAIN: the main lcore calls f, and f returns.
CallOnMain ==
    /\ mainPc = "call"
    /\ mainPc' = "user"
    /\ UNCHANGED <<config, pipes, workerVars, todo, callMain, target, jobs, launched, waited>>

\* rte_eal_wait_lcore(w) is called, or rte_eal_mp_wait_lcore.
BeginWait(W) ==
    /\ mainPc = "user"
    /\ todo' = W
    /\ mainPc' = "wait"
    /\ UNCHANGED <<config, pipes, workerVars, callMain, target, jobs, launched, waited>>

\* The loop that loads the state ends; ret is returned.
WaitLcore(w) ==
    /\ mainPc = "wait"
    /\ w \in todo
    /\ state[w] = "WAIT"
    /\ waited' = [waited EXCEPT ![w] = <<ret[w], <<launched[w], launched[w]>> >>]
    /\ todo' = todo \ {w}
    /\ mainPc' = IF todo' = {} THEN "user" ELSE "wait"
    /\ UNCHANGED <<config, pipes, workerVars, callMain, target, jobs, launched>>

MainStep ==
    \/ \E w \in Worker : CheckState(w) \/ BeginLaunch(w) \/ WaitLcore(w)
    \/ StoreArg \/ StoreF \/ WakeWorker \/ ReadAck \/ CallOnMain

MainCall ==
    \/ \E w \in Worker : RemoteLaunch(w) \/ BeginWait({w})
    \/ MpRemoteLaunch
    \/ BeginWait(Worker)

Next == MainCall \/ MainStep \/ \E w \in Worker : WorkerStep(w)

Spec == Init /\ [][Next]_vars

\* Every lcore runs on, and the functions return; that the main lcore makes a call is
\* not assumed.
Fairness == WF_vars(MainStep) /\ \A w \in Worker : WF_vars(WorkerStep(w))

LiveSpec == Spec /\ Fairness

-----------------------------------------------------------------------------
(* Properties.                                                             *)

\* While the main lcore writes f and arg of a worker, the worker is blocked in its
\* read, and no byte is on the way in either direction: the state word alone keeps
\* the two apart (eal_common_launch.c 38-50, eal_common_thread.c 210-223).
ConfigHasOneUser ==
    mainPc \in {"arg", "f", "wake"} =>
        /\ workerPc[target] = "command"
        /\ toWorker[target] = 0 /\ toMain[target] = 0

\* A worker calls a function once per launch, with the argument given with it, and
\* calls none that was not launched (eal_common_thread.c 204-212).
CallsWhatWasLaunched ==
    \A w \in Worker :
        /\ \A r \in runs[w] : r[1] = r[2] /\ r[1] \in 1..jobs
        /\ workerPc[w] = "call" =>
            fct[w] = launched[w] /\ arg[w] = launched[w] /\ <<fct[w], arg[w]>> \notin runs[w]

\* rte_eal_wait_lcore returns what the function of the last launch returned, never
\* that of an earlier one and never before it has returned
\* (rte_launch.h 128-135, eal_common_launch.c 21-25).
WaitReturnsResult == \A w \in Worker : waited[w][1] = waited[w][2]

\* A launch that was not refused is called with its argument: none is lost between the
\* pipe, the state word and f, and f is not cleared under the worker that waits for it
\* (eal_common_thread.c 201-215).
LaunchesRun ==
    \A w \in Worker, j \in Job : launched[w] = j ~> <<j, j>> \in runs[w]

\* A launch, and a wait, return (the hand-shake of eal_unix_thread.c 13-64 blocks both
\* sides, and eal_common_thread.c 204 waits for f).
CallsReturn == mainPc # "user" ~> mainPc = "user"
-----------------------------------------------------------------------------
(* The inductive invariants behind these properties.                       *)

\* The main lcore is at one of the steps pcs of a launch on w.
Launching(w, pcs) == target = w /\ mainPc \in pcs

\* The launch on w that the function has still to be called for.
Pending(w) ==
    \/ Launching(w, {"arg", "f", "wake"})
    \/ toWorker[w] = 1
    \/ workerPc[w] \in {"running", "ack", "f", "call"}

\* There is a byte in one pipe at most, and only while the main lcore waits for its
\* answer; the worker sets RUNNING before it answers (eal_unix_thread.c 13-64).
HandshakeInv ==
    \A w \in Worker :
        /\ state[w] = "WAIT" <=> workerPc[w] \in {"command", "running"}
        /\ Launching(w, {"arg", "f", "wake"}) => workerPc[w] = "command"
        /\ toWorker[w] = 1 =>
            Launching(w, {"ack"}) /\ workerPc[w] = "command" /\ toMain[w] = 0
        /\ toMain[w] = 1 => Launching(w, {"ack"}) /\ workerPc[w] \notin {"running", "ack"}
        /\ workerPc[w] \in {"running", "ack"} => Launching(w, {"ack"})

\* f and arg are those of the last launch from the store on until they are cleared
\* (eal_common_thread.c 204-215).
LaunchInv ==
    \A w \in Worker :
        /\ f[w] = IF \/ Launching(w, {"wake"}) \/ toWorker[w] = 1
                     \/ workerPc[w] \in {"running", "ack", "f", "call", "clearF"}
                  THEN launched[w] ELSE None
        /\ arg[w] = IF \/ Launching(w, {"f", "wake"}) \/ toWorker[w] = 1
                       \/ workerPc[w] \in {"running", "ack", "f", "call", "clearF", "clearArg"}
                    THEN launched[w] ELSE None
        /\ workerPc[w] = "call" => fct[w] = launched[w]

\* The jobs that are launched and that were called are jobs.
JobsInv ==
    /\ mainPc \notin {"user", "wait"} => jobs \in Job
    /\ \A w \in Worker :
        /\ launched[w] \in 1..jobs \cup {None}
        /\ Launching(w, {"arg", "f", "wake"}) => launched[w] = jobs
        /\ \A r \in runs[w] : r[1] = r[2] /\ r[1] \in 1..jobs

\* The workers that the call under way has still to treat, or all while it looks at the
\* states, have neither been given nor have called its job.
FreshInv ==
    \A w \in Worker :
        \/ mainPc = "check"
        \/ mainPc \in {"launch", "arg", "f", "wake", "ack"} /\ w \in todo
        => launched[w] # jobs /\ <<jobs, jobs>> \notin runs[w]

\* A job that was launched is either still to be called, or its result is stored.
ResultInv ==
    \A w \in Worker :
        IF Pending(w)
        THEN launched[w] # None /\ <<launched[w], launched[w]>> \notin runs[w]
        ELSE ret[w] = <<launched[w], launched[w]>>
=============================================================================
