-------------------------- MODULE WorkerSupervisor --------------------------
(***************************************************************************)
(* How the host keeps one long-running worker alive (the indexer, the      *)
(* lifecycle keeper or the buyback keeper) and what its health check says  *)
(* of it.  The worker runs ticks, woken by program logs or by its interval,*)
(* ends itself when a tick takes too long, and reports each tick over IPC; *)
(* a worker whose event loop is stuck reports nothing and is terminated.   *)
(* Times are ages, in units of the host's watchdog interval.               *)
(***************************************************************************)
EXTENDS Naturals

CONSTANTS
    HEARTBEAT_TIMEOUT,    \* heartbeatTimeoutMs
    SUCCESS_FRESHNESS,    \* workerSuccessFreshnessMs of the worker
    ERROR_LIMIT,          \* repeatedTickErrorLimit
    MaxFaults,            \* bound: failing ticks, deaths and freezes
    Never                 \* no timestamp

\* A success stays fresh for more than one check; bounds of the host's main.
TimeoutBounds ==
    HEARTBEAT_TIMEOUT \in Nat \ {0} /\ SUCCESS_FRESHNESS \in Nat \ {0} /\ ERROR_LIMIT \in Nat \ {0}

VARIABLES
    mode,       \* the host's mode: "live", or "observe" with the indexer alone
    failFast,   \* the worker runs with FAIL_FAST=1
    ready,      \* state.ready, the verdict of the last preflight
    proc,       \* the child process
    wake,       \* pending flag of the wake signal
    status,     \* the host's record of the worker
    exited,     \* exit of the child the host has not handled
    timer,      \* a restart is scheduled
    faults

setup == <<mode, failFast>>
vars == <<mode, failFast, ready, proc, wake, status, exited, timer, faults>>

Cap == (IF HEARTBEAT_TIMEOUT > SUCCESS_FRESHNESS THEN HEARTBEAT_TIMEOUT ELSE SUCCESS_FRESHNESS) + 1
Older(age) == IF age = Never THEN Never ELSE IF age < Cap THEN age + 1 ELSE age

Alive == proc # "none"

-----------------------------------------------------------------------------
(* The worker process.                                                     *)

recordWorkerHeartbeat(st, phase) == [st EXCEPT !.beat = 0, !.phase = phase]

\* An event that arrives while a tick runs wakes the next wait.
attachProgramWake ==
    /\ Alive /\ ~wake /\ wake' = TRUE
    /\ UNCHANGED <<setup, ready, proc, status, exited, timer, faults>>

\* wait returns on an event or after the interval.
tickStart ==
    /\ proc = "waiting"
    /\ proc' = "tick" /\ wake' = FALSE
    /\ status' = recordWorkerHeartbeat(status, "tick-start")
    /\ UNCHANGED <<setup, ready, exited, timer, faults>>

ErrorsKept ==
    /\ proc = "tick" /\ proc' = "waiting"
    /\ status' = [recordWorkerHeartbeat(status, "tick-complete") EXCEPT !.success = 0]
    /\ UNCHANGED <<setup, ready, wake, exited, timer, faults>>
tickComplete ==
    /\ proc = "tick" /\ proc' = "waiting"
    /\ status' = [recordWorkerHeartbeat(status, "tick-complete") EXCEPT !.errors = 0, !.success = 0]
    /\ UNCHANGED <<setup, ready, wake, exited, timer, faults>>

\* Some rounds of the tick failed: an error that ends nothing.
tickPartialError ==
    /\ proc = "tick" /\ faults < MaxFaults /\ proc' = "waiting"
    /\ status' = [recordWorkerHeartbeat(status, "tick-complete") EXCEPT !.errors = @ + 1]
    /\ faults' = faults + 1
    /\ UNCHANGED <<setup, ready, wake, exited, timer>>

\* The tick throws.
tickError ==
    /\ proc = "tick" /\ faults < MaxFaults
    /\ status' = [recordWorkerHeartbeat(status, "tick-error") EXCEPT !.errors = @ + 1]
    /\ IF failFast THEN proc' = "none" /\ exited' = TRUE ELSE proc' = "waiting" /\ UNCHANGED exited
    /\ faults' = faults + 1
    /\ UNCHANGED <<setup, ready, wake, timer>>

\* runWorkerTick: a tick that awaits for too long reports and exits with 75.
tickTimeout ==
    /\ proc = "tick" /\ faults < MaxFaults
    /\ status' = [recordWorkerHeartbeat(status, "tick-error") EXCEPT !.errors = @ + 1]
    /\ proc' = "none" /\ exited' = TRUE /\ faults' = faults + 1
    /\ UNCHANGED <<setup, ready, wake, timer>>

Die ==
    /\ Alive /\ faults < MaxFaults
    /\ proc' = "none" /\ exited' = TRUE /\ faults' = faults + 1
    /\ UNCHANGED <<setup, ready, wake, status, timer>>

Freeze ==
    /\ proc \in {"waiting", "tick"} /\ faults < MaxFaults
    /\ proc' = "frozen" /\ faults' = faults + 1
    /\ UNCHANGED <<setup, ready, wake, status, exited, timer>>

-----------------------------------------------------------------------------
(* The host.                                                               *)

NewStatus == [running |-> FALSE, beat |-> Never, phase |-> "none", errors |-> 0,
              success |-> Never, terminating |-> FALSE]

StartChild ==
    /\ timer /\ timer' = FALSE
    /\ proc' = "waiting" /\ wake' = FALSE
    /\ status' = [status EXCEPT !.running = TRUE, !.beat = 0, !.phase = "starting",
                                !.success = Never, !.terminating = FALSE]
    /\ UNCHANGED <<setup, ready, exited, faults>>

startWorker == mode = "live" /\ StartChild
startObserver == mode = "observe" /\ StartChild

\* An exit that its worker has reported is not counted twice, and neither is
\* one the watchdog has caused.
onExit ==
    /\ exited /\ exited' = FALSE /\ timer' = TRUE
    /\ status' = [status EXCEPT !.running = FALSE, !.terminating = FALSE,
                      !.errors = IF status.phase # "tick-error" /\ ~status.terminating
                                 THEN @ + 1 ELSE @]
    /\ UNCHANGED <<setup, ready, proc, wake, faults>>

workerHeartbeatFresh(st) == st.running /\ st.beat # Never /\ st.beat <= HEARTBEAT_TIMEOUT

StaleChild ==
    /\ Alive /\ ~status.terminating /\ ~workerHeartbeatFresh(status)
    /\ status' = [status EXCEPT !.terminating = TRUE]
    /\ UNCHANGED <<setup, ready, proc, wake, exited, timer, faults>>

checkWorkerHeartbeats == mode = "live" /\ StaleChild
superviseObserver == mode = "observe" /\ StaleChild

\* SIGTERM, and SIGKILL five seconds later to what is still the same child.
Terminated ==
    /\ Alive /\ status.terminating
    /\ proc' = "none" /\ exited' = TRUE
    /\ UNCHANGED <<setup, ready, wake, status, timer, faults>>

\* minimumWorkerHeartbeatTimeoutMs: the timeout exceeds the interval and the
\* tick timeout, so a worker that is not frozen reports before it is stale.
TimePasses ==
    /\ proc \in {"waiting", "tick"} => status.beat < HEARTBEAT_TIMEOUT
    /\ status' = [status EXCEPT !.beat = Older(@), !.success = Older(@)]
    /\ UNCHANGED <<setup, ready, proc, wake, exited, timer, faults>>

\* An observing host repeats its preflight every thirty seconds; one that fails
\* turns the health check red until the next one succeeds.
validateObserver ==
    /\ mode = "observe"
    /\ \/ ready' = TRUE /\ UNCHANGED faults
       \/ faults < MaxFaults /\ ready' = FALSE /\ faults' = faults + 1
    /\ UNCHANGED <<setup, proc, wake, status, exited, timer>>
validateSafely == validateObserver /\ ready'

\* publicHealth, the part about one essential worker.  A live host looks at the
\* last success, an observing one at the freshness of its projection.
publicHealth(st) ==
    /\ ready /\ workerHeartbeatFresh(st) /\ st.errors < ERROR_LIMIT
    /\ st.success # Never /\ st.success <= SUCCESS_FRESHNESS

-----------------------------------------------------------------------------
Init ==
    /\ mode \in {"live", "observe"} /\ failFast \in BOOLEAN /\ (mode = "observe" => failFast)
    /\ ready = TRUE /\ proc = "none" /\ wake = FALSE /\ status = NewStatus
    /\ exited = FALSE /\ timer = TRUE /\ faults = 0

WorkerStep == tickStart \/ tickComplete
HostStep ==
    \/ startWorker \/ startObserver \/ onExit \/ Terminated
    \/ checkWorkerHeartbeats \/ superviseObserver

Next ==
    \/ WorkerStep \/ HostStep \/ TimePasses \/ attachProgramWake \/ validateObserver
    \/ tickPartialError \/ tickError \/ tickTimeout \/ Die \/ Freeze

Spec == Init /\ [][Next]_vars

\* Timers fire, the watchdog runs, time passes, a preflight succeeds, and a worker that is neither
\* dead nor frozen goes on with its ticks.
FairSpec ==
    /\ Spec
    /\ WF_vars(WorkerStep) /\ WF_vars(HostStep) /\ WF_vars(TimePasses) /\ WF_vars(validateSafely)

-----------------------------------------------------------------------------
\* The worker process, its restart timer and its error count keep their types.
TypeOK ==
    /\ proc \in {"none", "waiting", "tick", "frozen"} /\ timer \in BOOLEAN
    /\ status.errors \in Nat

\* The supervisor never loses its worker: there is always a process, an exit to
\* handle or a restart on its way, and never two of them.
WorkerNeverLost ==
    \/ Alive /\ ~exited /\ ~timer
    \/ ~Alive /\ exited /\ ~timer
    \/ ~Alive /\ ~exited /\ timer
=============================================================================
