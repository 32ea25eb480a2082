------------------------ MODULE GatewayRunLoopProofs ------------------------
(***************************************************************************)
(* Proofs about GatewayRunLoop, for any lanes, calls, waiters and number   *)
(* of scheduled restarts.  The process keeps the invariant of              *)
(* CommandQueueProofs, whose step lemmas are cited here; to it are added   *)
(* what the counters of the loop and of the scheduler say of each other    *)
(* (Asked) and how far a shutdown has got (Overtaken, InOrder).            *)
(***************************************************************************)
EXTENDS CommandQueueProofs, GatewayRunLoop

-----------------------------------------------------------------------------
(* The inductive invariant *)

RestartUnderWay == shutdown # "none" /\ action = "restart"
PastDrain == shutdown \in {"closing", "releasing", "reacquiring"}

Flags ==
  /\ loop \in {"starting", "waiting"}
  /\ server \in BOOLEAN /\ lock \in BOOLEAN /\ timer \in BOOLEAN
  /\ raced \in BOOLEAN /\ startFailed \in BOOLEAN
  /\ shutdown \in {"none", "draining", "closing", "releasing", "reacquiring"}
  /\ action \in {"stop", "restart"}
  /\ exitCode \in {-1, 0, 1}
Counters == iteration \in Nat \ {0} /\ polls \in Nat /\ scheduled \in 0..MaxSchedules

\* The lanes are reset once per turn of the loop.
Turns == \A l \in Lanes : generation[l] = iteration - 1

One(b) == IF b THEN 1 ELSE 0

\* Every turn, poll, timer and shutdown for a restart was asked for, and by a request
\* of its own.
Asked ==
  iteration - 1 + polls + One(timer) + One(RestartUnderWay)
    <= scheduled

\* A shutdown for a restart that is past its drain while a start is pending began so.
Overtaken == PastDrain /\ action = "restart" /\ loop = "starting" => raced

\* What the shutdown has done so far: the server is closed before the lock is given
\* up, and a lock given up to restart is to be acquired again.
InOrder ==
  /\ shutdown = "reacquiring" => action = "restart"
  /\ PastDrain /\ shutdown # "closing" /\ action = "restart" /\ ~raced => ~server
  /\ Alive /\ ~startFailed /\ ~raced => lock \/ shutdown = "reacquiring"

ProcessInv == Overtaken /\ InOrder /\ CleanExitFreesLock /\ DrainingEnds

LoopInv == IInv /\ Flags /\ Counters /\ Turns /\ Asked /\ ProcessInv

LEMMA OneIsOne == ASSUME NEW b PROVE One(b) \in {0, 1}
  BY DEF One

LEMMA LoopInitInv == LoopInit => LoopInv
<1> SUFFICES ASSUME LoopInit PROVE LoopInv
  OBVIOUS
<1>1. IInv
  BY InitInv DEF LoopInit
<1>2. Flags
  BY Zenon DEF LoopInit, Flags
<1>3. Counters /\ Turns
  BY SchedulesAssumption DEF LoopInit, Init, Counters, Turns
<1>4. Asked
  BY DEF LoopInit, Asked, RestartUnderWay, One
<1>5. ProcessInv
  BY DEF LoopInit, Init, ProcessInv, Overtaken, InOrder, PastDrain, CleanExitFreesLock,
         DrainingEnds
<1> QED
  BY <1>1, <1>2, <1>3, <1>4, <1>5 DEF LoopInv

\* The loop that is woken resets the lanes, which the bound on generations never
\* prevents; one that is not waiting is not woken.
LEMMA WakeLemma ==
  ASSUME Flags, WakeLoop
  PROVE  /\ Next \/ UNCHANGED vars
         /\ startFailed' = startFailed
         /\ \/ /\ loop = "waiting" /\ loop' = "starting" /\ iteration' = iteration + 1
               /\ generation' = [l \in Lanes |-> generation[l] + 1]
               /\ ~gatewayDraining'
            \/ /\ loop = "starting"
               /\ UNCHANGED <<loop, iteration, generation, gatewayDraining>>
  BY DEF Flags, WakeLoop, ResetAllLanes, DrainLanes, Next, LaneNext, vars, laneVars, loopVars

\* Steps that leave the lanes alone, and steps of their calls.
LEMMA StillLemma ==
  ASSUME UNCHANGED vars
  PROVE  UNCHANGED <<gatewayDraining, generation>>
  BY DEF vars, laneVars

LEMMA WorkLemma ==
  ASSUME TaskNext
  PROVE  UNCHANGED <<gatewayDraining, generation>>
  BY DEF TaskNext, Enqueue, FinishAny, Finish, DrainLanes, laneVars

\* Steps that leave the lanes or the process alone.
LEMMA StillTurns ==
  ASSUME Turns, UNCHANGED <<generation, iteration>> PROVE Turns'
  BY DEF Turns

-----------------------------------------------------------------------------
(* The actions, one by one: Flags and ProcessInv, Counters with Asked, Turns. *)

ProcessGood == Flags' /\ Counters' /\ Turns' /\ Asked' /\ ProcessInv'

LEMMA StartStep ==
  ASSUME LoopInv, Alive, Lifecycle PROVE ProcessGood /\ [Next]_vars
<1>1. CASE StartSucceeds
  <2>1. /\ loop = "starting" /\ loop' = "waiting" /\ server' = TRUE
        /\ UNCHANGED <<lock, iteration, startFailed, exitCode, shutdown, action, raced, timer,
                       polls, scheduled>>
        /\ UNCHANGED <<gatewayDraining, generation>> /\ UNCHANGED vars
    BY <1>1, StillLemma DEF StartSucceeds, shutdownVars, schedulerVars
  <2>2. Flags'
    BY <2>1, Zenon DEF LoopInv, Flags
  <2>3. Counters' /\ Asked' /\ Turns'
    BY <2>1 DEF LoopInv, Counters, Asked, RestartUnderWay, One, Turns
  <2>4. ProcessInv'
    BY <2>1 DEF LoopInv, ProcessInv, Overtaken, InOrder, PastDrain, CleanExitFreesLock,
                DrainingEnds, Alive
  <2> QED
    BY <2>1, <2>2, <2>3, <2>4 DEF ProcessGood
<1>2. CASE StartFails
  <2>1. /\ loop = "starting" /\ lock' = FALSE /\ server' = FALSE
        /\ \/ exitCode' = 1 /\ UNCHANGED <<loop, startFailed>>
           \/ loop' = "waiting" /\ startFailed' = TRUE /\ UNCHANGED exitCode
        /\ UNCHANGED <<iteration, shutdown, action, raced, timer, polls, scheduled>>
        /\ UNCHANGED <<gatewayDraining, generation>> /\ UNCHANGED vars
    BY <1>2, StillLemma DEF StartFails, shutdownVars, schedulerVars, loopVars
  <2>2. Flags'
    BY <2>1, Zenon DEF LoopInv, Flags
  <2>3. Counters' /\ Asked' /\ Turns'
    BY <2>1 DEF LoopInv, Counters, Asked, RestartUnderWay, One, Turns
  <2>4. ProcessInv'
    BY <2>1 DEF LoopInv, ProcessInv, Overtaken, InOrder, PastDrain, CleanExitFreesLock,
                DrainingEnds, Alive
  <2> QED
    BY <2>1, <2>2, <2>3, <2>4 DEF ProcessGood
<1> QED
  BY <1>1, <1>2 DEF Lifecycle

\* What a request does, signal or restart, when no shutdown is under way.
LEMMA RequestLemma ==
  ASSUME LoopInv, NEW a \in {"stop", "restart"}, Request(a)
  PROVE  /\ shutdown = "none" /\ action' = a /\ [Next]_vars
         /\ UNCHANGED <<loop, iteration, startFailed, server, lock, exitCode, generation>>
         /\ \/ a = "restart" /\ shutdown' = "draining" /\ UNCHANGED raced
            \/ /\ shutdown' = IF server THEN "closing" ELSE "releasing"
               /\ raced' = (raced \/ (loop = "starting" /\ a = "restart"))
         /\ a = "stop" => UNCHANGED gatewayDraining
<1>1. /\ shutdown = "none" /\ action' = a
      /\ UNCHANGED <<loop, iteration, startFailed, server, lock, exitCode>>
  BY DEF Request, loopVars
<1>2. CASE a = "restart"
  BY <1>1, <1>2 DEF Request, CloseServer, MarkGatewayDraining, Next, LaneNext, laneVars
<1>3. CASE a = "stop"
  BY <1>1, <1>3, StillLemma DEF Request, CloseServer
<1> QED
  BY <1>2, <1>3

\* A request keeps the invariant if the timer or a poll pays for it, or it is a stop.
LEMMA RequestGood ==
  ASSUME LoopInv, Alive, NEW a \in {"stop", "restart"}, Request(a),
         UNCHANGED scheduled, timer' \in BOOLEAN, polls' \in Nat,
         polls' + One(timer') + One(a = "restart")
           <= polls + One(timer)
  PROVE  ProcessGood /\ [Next]_vars
<1>1. /\ shutdown = "none" /\ action' = a /\ [Next]_vars
      /\ UNCHANGED <<loop, iteration, startFailed, server, lock, exitCode, generation>>
      /\ \/ a = "restart" /\ shutdown' = "draining" /\ UNCHANGED raced
         \/ /\ shutdown' = IF server THEN "closing" ELSE "releasing"
            /\ raced' = (raced \/ (loop = "starting" /\ a = "restart"))
      /\ a = "stop" => UNCHANGED gatewayDraining
  BY RequestLemma
<1>2. Flags'
  BY <1>1, Zenon DEF LoopInv, Flags
<1>3. Counters' /\ Asked'
  <2>1. ~RestartUnderWay /\ (RestartUnderWay' => a = "restart")
    BY <1>1 DEF RestartUnderWay
  <2>2. /\ iteration \in Nat \ {0} /\ polls \in Nat /\ scheduled \in 0..MaxSchedules
        /\ iteration - 1 + polls + One(timer) <= scheduled
    BY <2>1, OneIsOne DEF LoopInv, Counters, Asked, One
  <2>3. One(RestartUnderWay') <= One(a = "restart")
    BY <2>1 DEF One
  <2> QED
    BY <1>1, <2>2, <2>3, OneIsOne, SchedulesAssumption DEF Counters, Asked
<1>4. ProcessInv'
  BY <1>1 DEF LoopInv, ProcessInv, Overtaken, InOrder, PastDrain, CleanExitFreesLock,
              DrainingEnds, Alive, Flags
<1> QED
  BY <1>1, <1>2, <1>3, <1>4, StillTurns DEF ProcessGood, LoopInv

\* The timer or a poll emits a restart: one of them is used up.
LEMMA EmitGood ==
  ASSUME LoopInv, Alive, EmitRestart, UNCHANGED scheduled, polls' \in Nat,
         polls' + 1 <= polls + One(timer)
  PROVE  ProcessGood /\ [Next]_vars
<1>1. CASE shutdown = "none"
  <2>1. Request("restart") /\ timer' = FALSE
    BY <1>1 DEF EmitRestart
  <2>2. timer' \in BOOLEAN
    BY <2>1, Zenon
  <2>3. polls' + One(timer') + One("restart" = "restart")
          <= polls + One(timer)
    <3>1. One(timer') = 0 /\ One("restart" = "restart") = 1 /\ One(timer) \in {0, 1}
      BY <2>1, OneIsOne DEF One
    <3> QED
      BY <3>1 DEF LoopInv, Counters
  <2> QED
    BY <2>1, <2>2, <2>3, RequestGood
<1>2. CASE shutdown # "none"
  <2>1. /\ timer' = FALSE
        /\ UNCHANGED <<loop, iteration, startFailed, shutdown, action, raced, server, lock,
                       exitCode>>
        /\ UNCHANGED <<gatewayDraining, generation>> /\ UNCHANGED vars
    BY <1>2, StillLemma DEF EmitRestart, loopVars, shutdownVars
  <2>2. Flags'
    BY <2>1, Zenon DEF LoopInv, Flags
  <2>3. Counters' /\ Asked'
    <3>1. One(timer') = 0 /\ One(timer) \in {0, 1}
      BY <2>1, OneIsOne DEF One
    <3>2. One(RestartUnderWay') = One(RestartUnderWay) /\ One(RestartUnderWay) \in {0, 1}
      BY <2>1, OneIsOne DEF RestartUnderWay, One
    <3> QED
      BY <2>1, <3>1, <3>2, SchedulesAssumption DEF LoopInv, Counters, Asked
  <2>4. ProcessInv'
    BY <2>1 DEF LoopInv, ProcessInv, Overtaken, InOrder, PastDrain, CleanExitFreesLock,
                DrainingEnds, Alive
  <2> QED
    BY <2>1, <2>2, <2>3, <2>4, StillTurns DEF ProcessGood, LoopInv
<1> QED
  BY <1>1, <1>2

LEMMA SchedulerStep ==
  ASSUME LoopInv, Alive, Scheduler PROVE ProcessGood /\ [Next]_vars
<1>1. CASE TimerFires
  <2>1. CASE EmitRestart /\ UNCHANGED <<polls, scheduled>>
    <3>1. timer /\ polls' \in Nat /\ polls' + 1 <= polls + One(timer)
      BY <1>1, <2>1 DEF TimerFires, LoopInv, Counters, One
    <3> QED
      BY <2>1, <3>1, EmitGood
  <2>2. CASE ~(EmitRestart /\ UNCHANGED <<polls, scheduled>>)
    <3>1. /\ timer /\ timer' = FALSE /\ polls' = polls + 1 /\ UNCHANGED scheduled
          /\ UNCHANGED <<loop, iteration, startFailed, shutdown, action, raced, server, lock,
                         exitCode>>
          /\ UNCHANGED <<gatewayDraining, generation>> /\ UNCHANGED vars
      BY <1>1, <2>2, StillLemma DEF TimerFires, loopVars, shutdownVars
    <3>2. Flags'
      BY <3>1, Zenon DEF LoopInv, Flags
    <3>3. Counters' /\ Asked' /\ Turns'
      BY <3>1 DEF LoopInv, Counters, Asked, RestartUnderWay, One, Turns
    <3>4. ProcessInv'
      BY <3>1 DEF LoopInv, ProcessInv, Overtaken, InOrder, PastDrain, CleanExitFreesLock,
                  DrainingEnds, Alive
    <3> QED
      BY <3>1, <3>2, <3>3, <3>4 DEF ProcessGood
  <2> QED
    BY <2>1, <2>2
<1>2. CASE PollEnds
  <2>1. EmitRestart /\ UNCHANGED scheduled /\ polls > 0 /\ polls' = polls - 1
    BY <1>2 DEF PollEnds
  <2>2. polls' \in Nat /\ polls' + 1 <= polls + One(timer)
    BY <2>1, OneIsOne DEF LoopInv, Counters
  <2> QED
    BY <2>1, <2>2, EmitGood
<1> QED
  BY <1>1, <1>2 DEF Scheduler

LEMMA OutsideStep ==
  ASSUME LoopInv, Alive, Outside PROVE ProcessGood /\ [Next]_vars
<1>1. CASE StopSignal
  <2>1. Request("stop") /\ UNCHANGED <<timer, polls, scheduled>>
    BY <1>1 DEF StopSignal, schedulerVars
  <2>2. timer' \in BOOLEAN
    BY <2>1, Zenon DEF LoopInv, Flags
  <2>3. /\ polls' \in Nat
        /\ polls' + One(timer') + One("stop" = "restart")
             <= polls + One(timer)
    BY <2>1 DEF LoopInv, Counters, One
  <2> QED
    BY <2>1, <2>2, <2>3, RequestGood
<1>2. CASE ScheduleRestart
  <2>1. /\ scheduled < MaxSchedules /\ timer' = TRUE /\ scheduled' = scheduled + 1
        /\ UNCHANGED <<loop, iteration, startFailed, shutdown, action, raced, server, lock,
                       polls, exitCode>>
        /\ UNCHANGED <<gatewayDraining, generation>> /\ UNCHANGED vars
    BY <1>2, StillLemma DEF ScheduleRestart, loopVars, shutdownVars
  <2>2. Flags'
    BY <2>1, Zenon DEF LoopInv, Flags
  <2>3. Counters' /\ Asked' /\ Turns'
    BY <2>1, SchedulesAssumption DEF LoopInv, Counters, Asked, RestartUnderWay, One, Turns
  <2>4. ProcessInv'
    BY <2>1 DEF LoopInv, ProcessInv, Overtaken, InOrder, PastDrain, CleanExitFreesLock,
                DrainingEnds, Alive
  <2> QED
    BY <2>1, <2>2, <2>3, <2>4 DEF ProcessGood
<1> QED
  BY <1>1, <1>2 DEF Outside

LEMMA WorkStep ==
  ASSUME LoopInv, Alive, Work PROVE ProcessGood /\ [Next]_vars
<1>1. /\ UNCHANGED <<loop, iteration, startFailed, shutdown, action, raced, timer, polls,
                     scheduled, server, lock, exitCode>>
      /\ UNCHANGED <<gatewayDraining, generation>> /\ Next
  BY WorkLemma DEF Work, processVars, loopVars, shutdownVars, schedulerVars, Next
<1>2. Flags'
  BY <1>1, Zenon DEF LoopInv, Flags
<1>3. Counters' /\ Asked' /\ Turns'
  BY <1>1 DEF LoopInv, Counters, Asked, RestartUnderWay, One, Turns
<1>4. ProcessInv'
  BY <1>1 DEF LoopInv, ProcessInv, Overtaken, InOrder, PastDrain, CleanExitFreesLock,
              DrainingEnds, Alive
<1> QED
  BY <1>1, <1>2, <1>3, <1>4 DEF ProcessGood

\* The end of a shutdown for a restart wakes the loop: the turn it begins was asked for
\* by the restart.  (lock' is what the caller has written.)
LEMMA WakeGood ==
  ASSUME LoopInv, Alive, RestartUnderWay, PastDrain, shutdown # "closing", WakeLoop,
         shutdown' = "none", lock' \in BOOLEAN, ~startFailed /\ ~raced => lock',
         UNCHANGED <<action, raced, timer, polls, scheduled, server, exitCode>>
  PROVE  ProcessGood /\ [Next]_vars
<1>1. /\ Next \/ UNCHANGED vars
      /\ startFailed' = startFailed
      /\ \/ /\ loop = "waiting" /\ loop' = "starting" /\ iteration' = iteration + 1
            /\ generation' = [l \in Lanes |-> generation[l] + 1]
            /\ ~gatewayDraining'
         \/ /\ loop = "starting"
            /\ UNCHANGED <<loop, iteration, generation, gatewayDraining>>
  BY WakeLemma DEF LoopInv
<1>2. Flags'
  BY <1>1, Zenon DEF LoopInv, Flags
<1>3. Counters' /\ Asked'
  <2>1. One(RestartUnderWay) = 1 /\ One(RestartUnderWay') = 0
    BY DEF RestartUnderWay, One
  <2>2. One(timer') = One(timer) /\ One(timer) \in {0, 1}
    BY OneIsOne
  <2>3. /\ iteration \in Nat \ {0} /\ polls \in Nat /\ scheduled \in 0..MaxSchedules
        /\ iteration - 1 + polls + One(timer) + One(RestartUnderWay) <= scheduled
    BY DEF LoopInv, Counters, Asked
  <2>4. /\ iteration' \in {iteration, iteration + 1}
        /\ polls' = polls /\ scheduled' = scheduled
    BY <1>1
  <2>0. iteration \in Nat /\ polls \in Nat /\ scheduled \in Int
    BY <2>3, SchedulesAssumption
  <2> DEFINE t == One(timer)
             u == One(RestartUnderWay)
             t2 == One(timer')
             u2 == One(RestartUnderWay')
  <2>5. t \in {0, 1} /\ t2 = t /\ u = 1 /\ u2 = 0
    BY <2>1, <2>2
  <2>6. iteration - 1 + polls + t + u <= scheduled
    BY <2>3
  <2> HIDE DEF t, u, t2, u2
  <2>7. iteration' - 1 + polls' + t2 + u2 <= scheduled'
    <3>1. iteration' - 1 + polls + t + 0 <= scheduled
      <4> SUFFICES ASSUME NEW i \in {iteration, iteration + 1}, NEW a \in {0, 1}, a = t
                   PROVE  i - 1 + polls + a + 0 <= scheduled
        BY <2>4, <2>5
      <4>1. iteration - 1 + polls + a + 1 <= scheduled
        BY <2>5, <2>6
      <4> QED
        BY ONLY <2>0, <4>1
    <3> QED
      BY ONLY <3>1, <2>4, <2>5
  <2> QED
    BY <2>3, <2>4, <2>7 DEF Counters, Asked, t2, u2
<1>4. Turns'
  BY <1>1 DEF LoopInv, Turns, Counters
<1>5. ProcessInv'
  BY <1>1 DEF LoopInv, ProcessInv, Overtaken, InOrder, PastDrain, CleanExitFreesLock,
              DrainingEnds, Alive, RestartUnderWay, Flags
<1> QED
  BY <1>1, <1>2, <1>3, <1>4, <1>5 DEF ProcessGood

LEMMA ShutdownStep ==
  ASSUME LoopInv, Alive, Shutdown PROVE ProcessGood /\ [Next]_vars
<1>1. CASE DrainEnds
  <2>1. /\ shutdown = "draining"
        /\ shutdown' = IF server THEN "closing" ELSE "releasing"
        /\ raced' = (raced \/ (loop = "starting" /\ action = "restart"))
        /\ UNCHANGED <<loop, iteration, startFailed, action, timer, polls, scheduled, server,
                       lock, exitCode>>
        /\ UNCHANGED <<gatewayDraining, generation>> /\ UNCHANGED vars
    BY <1>1, StillLemma DEF DrainEnds, CloseServer, loopVars, schedulerVars
  <2>2. Flags'
    BY <2>1, Zenon DEF LoopInv, Flags
  <2>3. Counters' /\ Asked' /\ Turns'
    BY <2>1 DEF LoopInv, Counters, Asked, RestartUnderWay, One, Turns
  <2>4. ProcessInv'
    BY <2>1 DEF LoopInv, ProcessInv, Overtaken, InOrder, PastDrain, CleanExitFreesLock,
                DrainingEnds, Alive, Flags
  <2> QED
    BY <2>1, <2>2, <2>3, <2>4 DEF ProcessGood
<1>2. CASE ServerClosed
  <2>1. /\ shutdown = "closing" /\ shutdown' = "releasing" /\ server' = FALSE
        /\ UNCHANGED <<loop, iteration, startFailed, action, raced, timer, polls, scheduled,
                       lock, exitCode>>
        /\ UNCHANGED <<gatewayDraining, generation>> /\ UNCHANGED vars
    BY <1>2, StillLemma DEF ServerClosed, loopVars, schedulerVars
  <2>2. Flags'
    BY <2>1, Zenon DEF LoopInv, Flags
  <2>3. Counters' /\ Asked' /\ Turns'
    BY <2>1 DEF LoopInv, Counters, Asked, RestartUnderWay, One, Turns
  <2>4. ProcessInv'
    BY <2>1 DEF LoopInv, ProcessInv, Overtaken, InOrder, PastDrain, CleanExitFreesLock,
                DrainingEnds, Alive, Flags
  <2> QED
    BY <2>1, <2>2, <2>3, <2>4 DEF ProcessGood
<1>3. CASE ForceExit
  <2>1. /\ exitCode' = 1
        /\ UNCHANGED <<loop, iteration, startFailed, shutdown, action, raced, timer, polls,
                       scheduled, server, lock>>
        /\ UNCHANGED <<gatewayDraining, generation>> /\ UNCHANGED vars
    BY <1>3, StillLemma DEF ForceExit, loopVars, schedulerVars, shutdownVars
  <2>2. Flags'
    BY <2>1, Zenon DEF LoopInv, Flags
  <2>3. Counters' /\ Asked' /\ Turns'
    BY <2>1 DEF LoopInv, Counters, Asked, RestartUnderWay, One, Turns
  <2>4. ProcessInv'
    BY <2>1 DEF LoopInv, ProcessInv, Overtaken, InOrder, PastDrain, CleanExitFreesLock,
                DrainingEnds, Alive, Flags
  <2> QED
    BY <2>1, <2>2, <2>3, <2>4 DEF ProcessGood
<1>4. CASE ReleaseLock
  <2> DEFINE Stay == UNCHANGED <<timer, polls, scheduled, action, raced, server>>
  <2>a. shutdown = "releasing" /\ lock' = FALSE /\ Stay
    BY <1>4 DEF ReleaseLock, schedulerVars
  <2>b. \/ exitCode' = 0 /\ UNCHANGED <<vars, loopVars, shutdown>>
        \/ /\ action = "restart" /\ UNCHANGED exitCode
           /\ lock /\ shutdown' = "reacquiring" /\ UNCHANGED <<vars, loopVars>>
        \/ /\ action = "restart" /\ UNCHANGED exitCode
           /\ ~lock /\ shutdown' = "none" /\ WakeLoop
    BY <1>4 DEF ReleaseLock
  <2>c. CASE exitCode' = 0 /\ UNCHANGED <<vars, loopVars, shutdown>>
    <3>1. /\ exitCode' = 0 /\ UNCHANGED <<loop, iteration, startFailed, shutdown>>
          /\ UNCHANGED <<gatewayDraining, generation>> /\ UNCHANGED vars
      BY <2>c, StillLemma DEF loopVars
    <3>2. Flags'
      BY <2>a, <3>1, Zenon DEF LoopInv, Flags
    <3>3. Counters' /\ Asked' /\ Turns'
      BY <2>a, <3>1 DEF LoopInv, Counters, Asked, RestartUnderWay, One, Turns
    <3>4. ProcessInv'
      BY <2>a, <3>1 DEF LoopInv, ProcessInv, Overtaken, InOrder, PastDrain,
                        CleanExitFreesLock, DrainingEnds, Alive
    <3> QED
      BY <3>1, <3>2, <3>3, <3>4 DEF ProcessGood
  <2>d. CASE /\ action = "restart" /\ UNCHANGED exitCode
             /\ lock /\ shutdown' = "reacquiring" /\ UNCHANGED <<vars, loopVars>>
    <3>1. /\ action = "restart" /\ shutdown' = "reacquiring"
          /\ UNCHANGED <<loop, iteration, startFailed, exitCode>>
          /\ UNCHANGED <<gatewayDraining, generation>> /\ UNCHANGED vars
      BY <2>d, StillLemma DEF loopVars
    <3>2. Flags'
      BY <2>a, <3>1, Zenon DEF LoopInv, Flags
    <3>3. Counters' /\ Asked' /\ Turns'
      BY <2>a, <3>1 DEF LoopInv, Counters, Asked, RestartUnderWay, One, Turns
    <3>4. ProcessInv'
      BY <2>a, <3>1 DEF LoopInv, ProcessInv, Overtaken, InOrder, PastDrain,
                        CleanExitFreesLock, DrainingEnds, Alive
    <3> QED
      BY <3>1, <3>2, <3>3, <3>4 DEF ProcessGood
  <2>e. CASE /\ action = "restart" /\ UNCHANGED exitCode
             /\ ~lock /\ shutdown' = "none" /\ WakeLoop
    <3>1. startFailed \/ raced
      BY <2>a, <2>e DEF LoopInv, ProcessInv, InOrder
    <3>2. lock' \in BOOLEAN
      BY <2>a, Zenon
    <3> QED
      BY <2>a, <2>e, <3>1, <3>2, WakeGood DEF RestartUnderWay, PastDrain
  <2> QED
    BY <2>b, <2>c, <2>d, <2>e
<1>5. CASE ReacquireLock
  <2>1. CASE /\ shutdown = "reacquiring" /\ lock' = TRUE /\ shutdown' = "none" /\ WakeLoop
             /\ UNCHANGED <<timer, polls, scheduled, action, raced, server, exitCode>>
    <3>1. lock' \in BOOLEAN /\ lock'
      BY <2>1, Zenon
    <3>2. RestartUnderWay
      BY <2>1 DEF RestartUnderWay, LoopInv, ProcessInv, InOrder
    <3> QED
      BY <2>1, <3>1, <3>2, WakeGood DEF PastDrain
  <2>2. CASE /\ exitCode' = 1
             /\ UNCHANGED <<vars, loopVars, lock, shutdown, timer, polls, scheduled, action,
                            raced, server>>
    <3>1. /\ UNCHANGED <<loop, iteration, startFailed>>
          /\ UNCHANGED <<gatewayDraining, generation>> /\ UNCHANGED vars
      BY <2>2, StillLemma DEF loopVars
    <3>2. Flags'
      BY <2>2, <3>1, Zenon DEF LoopInv, Flags
    <3>3. Counters' /\ Asked' /\ Turns'
      BY <2>2, <3>1 DEF LoopInv, Counters, Asked, RestartUnderWay, One, Turns
    <3>4. ProcessInv'
      BY <2>2, <3>1 DEF LoopInv, ProcessInv, Overtaken, InOrder, PastDrain,
                        CleanExitFreesLock, DrainingEnds, Alive
    <3> QED
      BY <3>1, <3>2, <3>3, <3>4 DEF ProcessGood
  <2> QED
    BY <1>5, <2>1, <2>2 DEF ReacquireLock, schedulerVars
<1> QED
  BY <1>1, <1>2, <1>3, <1>4, <1>5 DEF Shutdown

LEMMA LoopNextInv ==
  ASSUME LoopInv, [LoopNext]_allVars
  PROVE  LoopInv' /\ [Next]_vars
<1>1. CASE LoopNext
  <2>1. ProcessGood /\ [Next]_vars
    BY <1>1, StartStep, ShutdownStep, SchedulerStep, OutsideStep, WorkStep DEF LoopNext
  <2>2. IInv'
    BY <2>1, NextStep DEF Good, LoopInv
  <2> QED
    BY <2>1, <2>2 DEF ProcessGood, LoopInv
<1>2. CASE UNCHANGED allVars
  <2>1. UNCHANGED <<loop, iteration, startFailed, shutdown, action, raced, timer, polls,
                    scheduled, server, lock, exitCode, gatewayDraining, generation>>
        /\ UNCHANGED vars
    BY <1>2, StillLemma DEF allVars, processVars, loopVars, shutdownVars, schedulerVars
  <2>2. Flags'
    BY <2>1, Zenon DEF LoopInv, Flags
  <2>3. Counters' /\ Asked' /\ Turns'
    BY <2>1 DEF LoopInv, Counters, Asked, RestartUnderWay, One, Turns
  <2>4. ProcessInv'
    BY <2>1 DEF LoopInv, ProcessInv, Overtaken, InOrder, PastDrain, CleanExitFreesLock,
                DrainingEnds, Alive
  <2>5. IInv'
    BY <2>1, NextStep DEF Good, LoopInv
  <2> QED
    BY <2>1, <2>2, <2>3, <2>4, <2>5 DEF LoopInv
<1> QED
  BY <1>1, <1>2

\* A lifecycle's slots: the queue's accounting, and one generation per turn.
LEMMA LoopInvImplies ==
  ASSUME LoopInv
  PROVE  LoopTypeOK /\ SlotsOfThisLifecycle /\ ServesLocked
<1>1. LoopTypeOK
  <2>1. /\ iteration \in 1..(MaxGeneration + 1)
        /\ polls \in 0..MaxSchedules /\ scheduled \in 0..MaxSchedules
    <3>1. One(timer) \in {0, 1} /\ One(RestartUnderWay) \in {0, 1}
      BY OneIsOne
    <3> QED
      BY <3>1, SchedulesAssumption, GenerationAssumption DEF LoopInv, Counters, Asked
  <2> QED
    BY <2>1, Zenon DEF LoopInv, Flags, LoopTypeOK
<1>2. SlotsOfThisLifecycle
  <2>1. SlotAccounting
    BY InvImplies DEF LoopInv
  <2> QED
    BY <2>1 DEF SlotsOfThisLifecycle, SlotAccounting, LoopInv, Turns
<1>3. ServesLocked
  BY DEF LoopInv, ProcessInv, InOrder, PastDrain, ServesLocked
<1> QED
  BY <1>1, <1>2, <1>3

-----------------------------------------------------------------------------
(* The theorems about the gateway's life *)

\* The invariant of the process, with that of its lanes.
THEOREM LoopInvariance == LoopSpec => []LoopInv
<1>1. LoopInv /\ [LoopNext]_allVars => LoopInv'
  BY LoopNextInv
<1> QED
  BY LoopInitInv, <1>1, PTL DEF LoopSpec

\* The variables of the process keep their kinds; that the turns of the loop stay
\* within their bound also shows that the bound on resets is never what stops one.
THEOREM LoopTypeCorrect == LoopSpec => []LoopTypeOK
<1>1. LoopInv => LoopTypeOK
  BY LoopInvImplies
<1> QED
  BY LoopInvariance, <1>1, PTL

\* The gateway uses its lanes only as the command queue allows (onIteration's reset,
\* markGatewayDraining, the calls), so what is proved of the queue holds in it.
THEOREM LoopRefinement == LoopSpec => Spec
<1>1. LoopInit => Init
  BY DEF LoopInit
<1>2. LoopInv /\ [LoopNext]_allVars => [Next]_vars
  BY LoopNextInv
<1> QED
  BY LoopInvariance, <1>1, <1>2, PTL DEF LoopSpec, Spec

\* A process that exits cleanly has released its lock (releaseLockIfHeld before exit).
THEOREM LockFreedOnExit == LoopSpec => []CleanExitFreesLock
<1>1. LoopInv => CleanExitFreesLock
  BY DEF LoopInv, ProcessInv
<1> QED
  BY LoopInvariance, <1>1, PTL

\* No slot of an earlier lifecycle is inherited (resetAllLanes at every turn).
THEOREM SlotsAreFresh == LoopSpec => []SlotsOfThisLifecycle
<1>1. LoopInv => SlotsOfThisLifecycle
  BY LoopInvImplies
<1> QED
  BY LoopInvariance, <1>1, PTL

\* Work is refused only during a shutdown for a restart, if none overtook a start.
THEOREM DrainWindowCloses == LoopSpec => []DrainingEnds
<1>1. LoopInv => DrainingEnds
  BY DEF LoopInv, ProcessInv
<1> QED
  BY LoopInvariance, <1>1, PTL

\* A server serves under the lock, if no start failed and none was overtaken.
THEOREM ServedUnderLock == LoopSpec => []ServesLocked
<1>1. LoopInv => ServesLocked
  BY LoopInvImplies
<1> QED
  BY LoopInvariance, <1>1, PTL
=============================================================================
