--------------------------- MODULE GatewayRunLoop ---------------------------
(***************************************************************************)
(* The life of the gateway process: runGatewayLoop                         *)
(* (cli/gateway-cli/run-loop.ts) starts the server, waits to be told to    *)
(* restart, and starts over; signals begin a shutdown that runs beside the *)
(* loop and wakes it at its end.  Restarts are scheduled, deferred and     *)
(* emitted by infra/restart.ts.  The lanes are those of CommandQueue.      *)
(*                                                                         *)
(* emitGatewayRestart calls the SIGUSR1 listener synchronously, and the    *)
(* listener consumes authorization and token at once, so between steps no  *)
(* emitted restart is unconsumed and both are left out.  The force-exit    *)
(* timer is longer than the drain, so it can only fire while the server    *)
(* closes.  A drain that has nothing left to wait for and one that runs    *)
(* into its timeout end alike, so it may end at any time.                  *)
(***************************************************************************)
EXTENDS CommandQueue

CONSTANT MaxSchedules  \* bound: how often a restart is asked for

ASSUME SchedulesAssumption == MaxSchedules \in Nat /\ MaxSchedules <= MaxGeneration

VARIABLES
  loop,        \* "starting": params.start() is pending; "waiting": for a restart
  iteration,   \* which turn of the loop this is
  server,      \* BOOLEAN: the variable `server` is not null
  lock,        \* BOOLEAN: the variable `lock` is not null
  shutdown,    \* what the shutdown begun by `request` awaits; "none": shuttingDown is false
  action,      \* its action, "stop" or "restart"
  timer,       \* BOOLEAN: pendingRestartTimer is set
  polls,       \* deferrals polling for idleness
  scheduled,   \* restarts asked for so far
  exitCode,    \* -1 while the process runs
  \* History, read by properties only:
  raced,       \* a shutdown for a restart overtook a pending start
  startFailed  \* a start failed and the process stayed alive

loopVars == <<loop, iteration, startFailed>>
shutdownVars == <<shutdown, action, raced>>
schedulerVars == <<timer, polls, scheduled>>
processVars == <<loopVars, shutdownVars, schedulerVars, server, lock, exitCode>>
allVars == <<vars, processVars>>

Alive == exitCode = -1

\* The first acquireGatewayLock has succeeded.
LoopInit ==
  /\ Init
  /\ loop = "starting" /\ iteration = 1
  /\ server = FALSE /\ lock = TRUE
  /\ shutdown = "none" /\ action = "stop"
  /\ timer = FALSE /\ polls = 0 /\ scheduled = 0
  /\ exitCode = -1
  /\ raced = FALSE /\ startFailed = FALSE

-----------------------------------------------------------------------------
(* The loop *)

StartSucceeds ==
  /\ loop = "starting"
  /\ loop' = "waiting" /\ server' = TRUE
  /\ UNCHANGED <<vars, shutdownVars, schedulerVars, lock, iteration, startFailed, exitCode>>

\* The first start's error leaves the loop, whose finally releases the lock, and
\* ends the process; a later one is logged and the process stays, unlocked.
StartFails ==
  /\ loop = "starting"
  /\ lock' = FALSE /\ server' = FALSE
  /\ IF iteration = 1
       THEN exitCode' = 1 /\ UNCHANGED loopVars
       ELSE /\ loop' = "waiting" /\ startFailed' = TRUE
            /\ UNCHANGED <<iteration, exitCode>>
  /\ UNCHANGED <<vars, shutdownVars, schedulerVars>>

\* Faults: the lanes are not reset; the promise is never settled.
WakeWithoutReset ==
  IF loop = "waiting"
    THEN /\ loop' = "starting" /\ iteration' = iteration + 1
         /\ UNCHANGED <<vars, startFailed>>
    ELSE UNCHANGED <<vars, loopVars>>
NoWake == UNCHANGED <<vars, loopVars>>

\* restartResolver: the promise it settles is awaited only while the loop waits.
\* A loop that wakes runs onIteration, which resets the lanes.
WakeLoop ==
  IF loop = "waiting"
    THEN /\ loop' = "starting" /\ iteration' = iteration + 1
         /\ ResetAllLanes
         /\ UNCHANGED startFailed
    ELSE UNCHANGED <<vars, loopVars>>

-----------------------------------------------------------------------------
(* The shutdown *)

\* `await server?.close()` takes time only if there is a server.
CloseServer(a) ==
  /\ shutdown' = IF server THEN "closing" ELSE "releasing"
  /\ raced' = (raced \/ (loop = "starting" /\ a = "restart"))

\* request: active tasks and embedded runs, the latter unknown here, are drained.
Request(a) ==
  /\ shutdown = "none"
  /\ action' = a
  /\ IF a = "restart"
       THEN /\ MarkGatewayDraining
            /\ \/ shutdown' = "draining" /\ UNCHANGED raced
               \/ AllActive = {} /\ CloseServer(a)
       ELSE CloseServer(a) /\ UNCHANGED vars
  /\ UNCHANGED <<loopVars, server, lock, exitCode>>

DrainEnds ==
  /\ shutdown = "draining"
  /\ CloseServer(action)
  /\ UNCHANGED <<vars, loopVars, schedulerVars, action, server, lock, exitCode>>

\* close() returns or throws; the finally clause goes on either way.
ServerClosed ==
  /\ shutdown = "closing"
  /\ shutdown' = "releasing" /\ server' = FALSE
  /\ UNCHANGED <<vars, loopVars, schedulerVars, action, raced, lock, exitCode>>

ForceExit ==
  /\ shutdown = "closing"
  /\ exitCode' = 1
  /\ UNCHANGED <<vars, loopVars, shutdownVars, schedulerVars, server, lock>>

\* Faults: the process exits with the lock; a held lock is not acquired again; a
\* stop goes the way of a restart.
ExitBeforeRelease ==
  /\ shutdown = "releasing"
  /\ \/ exitCode' = 0 /\ UNCHANGED <<vars, loopVars, shutdown, lock>>
     \/ /\ action = "restart" /\ UNCHANGED exitCode /\ lock' = FALSE
        /\ IF lock
             THEN shutdown' = "reacquiring" /\ UNCHANGED <<vars, loopVars>>
             ELSE shutdown' = "none" /\ WakeLoop
  /\ UNCHANGED <<schedulerVars, action, raced, server>>
NeverReacquire ==
  /\ shutdown = "releasing"
  /\ lock' = FALSE
  /\ \/ exitCode' = 0 /\ UNCHANGED <<vars, loopVars, shutdown>>
     \/ action = "restart" /\ UNCHANGED exitCode /\ shutdown' = "none" /\ WakeLoop
  /\ UNCHANGED <<schedulerVars, action, raced, server>>
StopLikeRestart ==
  /\ shutdown = "releasing"
  /\ lock' = FALSE
  /\ shutdown' = "reacquiring"
  /\ UNCHANGED <<vars, loopVars, schedulerVars, action, raced, server, exitCode>>

\* The lock is released; then a stop exits, and a restart exits if a fresh
\* process was spawned or a supervisor starts one.  If not, the lock that was
\* held is acquired again.
ReleaseLock ==
  /\ shutdown = "releasing"
  /\ lock' = FALSE
  /\ \/ exitCode' = 0 /\ UNCHANGED <<vars, loopVars, shutdown>>
     \/ /\ action = "restart" /\ UNCHANGED exitCode
        /\ IF lock
             THEN shutdown' = "reacquiring" /\ UNCHANGED <<vars, loopVars>>
             ELSE shutdown' = "none" /\ WakeLoop
  /\ UNCHANGED <<schedulerVars, action, raced, server>>

ReacquireLock ==
  /\ shutdown = "reacquiring"
  /\ \/ /\ lock' = TRUE /\ shutdown' = "none" /\ WakeLoop
        /\ UNCHANGED exitCode
     \/ exitCode' = 1 /\ UNCHANGED <<vars, loopVars, lock, shutdown>>
  /\ UNCHANGED <<schedulerVars, action, raced, server>>

-----------------------------------------------------------------------------
(* Signals and the restart scheduler *)

\* SIGTERM or SIGINT.
StopSignal == Request("stop") /\ UNCHANGED schedulerVars

\* emitGatewayRestart and the listener onSigusr1: a pending timer is cleared, and
\* a restart during a shutdown is ignored.
EmitRestart ==
  /\ timer' = FALSE
  /\ IF shutdown = "none"
       THEN Request("restart")
       ELSE UNCHANGED <<vars, loopVars, shutdownVars, server, lock, exitCode>>

\* scheduleGatewaySigusr1Restart, from a chat command, a tool, or an external
\* SIGUSR1; one timer serves all requests made while it is set.
ScheduleRestart ==
  /\ scheduled < MaxSchedules
  /\ timer' = TRUE /\ scheduled' = scheduled + 1
  /\ UNCHANGED <<vars, loopVars, shutdownVars, polls, server, lock, exitCode>>

\* Faults: the timer stays set; a restart that cannot happen now is forgotten.
TimerNotCleared ==
  /\ timer
  /\ polls' = polls + 1
  /\ UNCHANGED <<vars, loopVars, shutdownVars, timer, scheduled, server, lock, exitCode>>
TimerForgets ==
  /\ timer
  /\ \/ /\ AllActive = {} /\ \A l \in Lanes : queue[l] = <<>>
        /\ EmitRestart
     \/ /\ timer' = FALSE
        /\ UNCHANGED <<vars, loopVars, shutdownVars, server, lock, exitCode>>
  /\ UNCHANGED <<scheduled, polls>>

\* The timer fires.  If nothing is pending the restart is emitted, and if
\* something is, which may be a reply this model does not know, a poll begins.
TimerFires ==
  /\ timer
  /\ \/ /\ AllActive = {} /\ \A l \in Lanes : queue[l] = <<>>
        /\ EmitRestart
        /\ UNCHANGED polls
     \/ /\ timer' = FALSE /\ polls' = polls + 1
        /\ UNCHANGED <<vars, loopVars, shutdownVars, server, lock, exitCode>>
  /\ UNCHANGED scheduled

\* A poll finds nothing pending any more, or gives up waiting.
PollEnds ==
  /\ polls > 0
  /\ polls' = polls - 1
  /\ EmitRestart
  /\ UNCHANGED scheduled

-----------------------------------------------------------------------------
Lifecycle == StartSucceeds \/ StartFails
Shutdown == DrainEnds \/ ServerClosed \/ ForceExit \/ ReleaseLock \/ ReacquireLock
Scheduler == TimerFires \/ PollEnds
Outside == StopSignal \/ ScheduleRestart
Work == TaskNext /\ UNCHANGED processVars

LoopNext == Alive /\ (Lifecycle \/ Shutdown \/ Scheduler \/ Outside \/ Work)

LoopSpec == LoopInit /\ [][LoopNext]_allVars

\* start() and close() settle, timers fire.  Nothing is owed to tasks: the drain
\* has a timeout.
FairLoopSpec ==
  /\ LoopSpec
  /\ WF_allVars(Alive /\ Lifecycle)
  /\ WF_allVars(Alive /\ Shutdown)
  /\ WF_allVars(Alive /\ TimerFires)
  /\ WF_allVars(Alive /\ PollEnds)

-----------------------------------------------------------------------------
(* Properties *)

\* Every variable of the process has a value of its kind.
LoopTypeOK ==
  /\ loop \in {"starting", "waiting"} /\ iteration \in 1..(MaxGeneration + 1)
  /\ {server, lock, timer, raced, startFailed} \subseteq BOOLEAN
  /\ shutdown \in {"none", "draining", "closing", "releasing", "reacquiring"}
  /\ action \in {"stop", "restart"}
  /\ polls \in 0..MaxSchedules /\ scheduled \in 0..MaxSchedules
  /\ exitCode \in {-1, 0, 1}

\* "Release the lock BEFORE spawning so the child can acquire it immediately": a
\* process that exits cleanly has given its lock up, whatever overlapped.
CleanExitFreesLock == exitCode = 0 => ~lock

\* A new lifecycle does not inherit occupied slots: each is held by a call that
\* started in it, not by one whose finally block never ran.
SlotsOfThisLifecycle ==
  \A l \in Lanes : \A t \in activeTaskIds[l] : taskGeneration[t] = iteration - 1

\* Work is refused only while a shutdown for a restart is under way, unless one
\* overtook a pending start.
DrainingEnds ==
  Alive /\ gatewayDraining /\ ~raced => shutdown # "none" /\ action = "restart"

\* A server that serves does so under the lock, unless an earlier start failed or
\* a restart overtook a start.
ServesLocked == Alive /\ server /\ ~startFailed /\ ~raced => lock

\* A process told to stop ends, whichever restart is scheduled or under way.
StopEnds == (shutdown # "none" /\ action = "stop") ~> ~Alive

\* A restart accepted while the loop waits begins a new turn of the loop, or
\* ends the process.
RestartTurnsLoop ==
  (shutdown # "none" /\ action = "restart" /\ loop = "waiting")
    ~> (loop = "starting" \/ ~Alive)

\* A scheduled restart is not lost to coalescing and deferral: a shutdown follows.
ScheduledRestartFires == timer ~> (shutdown # "none" \/ ~Alive)

\* "Reject new enqueues immediately during the drain window" (request): and not
\* while the gateway serves with no shutdown under way.
RefusesOnlyInDrainWindow ==
  Alive /\ server /\ shutdown = "none" => ~gatewayDraining

\* "reacquiring the gateway lock for in-process restart fallback paths"
\* (CHANGELOG.md): a lifecycle that no restart overtook serves under the lock.
ServesLockedAlways == Alive /\ server /\ ~raced => lock
=============================================================================
