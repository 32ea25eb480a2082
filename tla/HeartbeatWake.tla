--------------------------- MODULE HeartbeatWake ---------------------------
(***************************************************************************)
(* Heartbeat wakes: requests are queued by target, a timer takes all of    *)
(* them and hands them one by one to the registered handler                *)
(* (infra/heartbeat-wake.ts).  The handler belongs to a heartbeat runner   *)
(* (infra/heartbeat-runner.ts), which asks for a wake whenever its         *)
(* interval is over; an in-process restart stops the runner and starts     *)
(* another, while the firing of the old one may still be under way.        *)
(*                                                                         *)
(* Runners have one agent.  Timers fire at any time, so of a timer only    *)
(* its kind is kept.  The runner's handler catches what a heartbeat throws. *)
(***************************************************************************)
EXTENDS Naturals, FiniteSets

CONSTANTS
  Runners,     \* 1..n, in the order they are started (bound)
  Sessions,    \* targets with a session key
  Untargeted,  \* the target without agent and session
  Firings      \* firings of the wake timer that may be under way at once (bound)

ASSUME WakeAssumption == Untargeted \notin Sessions

VARIABLES
  handler,       \* the runner whose handler is registered, or 0
  alive,         \* the runner that is not stopped, or 0
  lastRunner,    \* runners started so far
  interval,      \* BOOLEAN: the runner's timer is set
  enabled,       \* heartbeatsEnabled
  pendingWakes,  \* pendingWakes[t]: the priority of target t's wake, 0 if there is none
  scheduled, running,
  wakeTimer,     \* timerKind: "none", "normal" or "retry"
  firing,        \* firing[f]: whose handler, the wakes of the batch not done, which is awaited
  \* History:
  owed,          \* targets with an event (an Action wake) that no handler has been given yet
  lapsed         \* a wake came while heartbeats were off

runnerVars == <<handler, alive, lastRunner, interval, enabled>>
wakeVars == <<runnerVars, pendingWakes, scheduled, running, wakeTimer, firing, owed,
              lapsed>>

Targets == Sessions \cup {Untargeted}
\* REASON_PRIORITY, one higher; RETRY and DEFAULT are not told apart from these.
Interval == 1
Action == 2

Batches == [Targets -> 0..Action]
Nothing == [t \in Targets |-> 0]
Wakes(b) == {t \in Targets : b[t] # 0}
NotFiring == [by |-> 0, left |-> Nothing, now |-> Untargeted]
UnderWay == {f \in Firings : firing[f].by # 0}

WakeInit ==
  /\ handler = 0 /\ alive = 0 /\ lastRunner = 0 /\ interval = FALSE /\ enabled = TRUE
  /\ pendingWakes = Nothing /\ scheduled = FALSE /\ running = FALSE /\ wakeTimer = "none"
  /\ firing = [f \in Firings |-> NotFiring]
  /\ owed = {} /\ lapsed = FALSE

-----------------------------------------------------------------------------
(* heartbeat-wake.ts *)

\* queuePendingWakeReason for every wake of b: a wake never lowers the priority.
Queue(p, b) == [t \in Targets |-> IF b[t] > p[t] THEN b[t] ELSE p[t]]
Only(t, priority) == [Nothing EXCEPT ![t] = priority]

\* schedule: a retry timer stays; another stays if it is due before, else it is
\* replaced.
Scheduled(timer, kind) ==
  CASE timer = "none" -> {kind} [] timer = "retry" -> {timer} [] OTHER -> {timer, kind}

\* requestHeartbeatNow
Wake(t, priority) ==
  /\ pendingWakes' = Queue(pendingWakes, Only(t, priority))
  /\ wakeTimer' \in Scheduled(wakeTimer, "normal")

Request(t) ==
  /\ Wake(t, Action)
  /\ owed' = owed \cup {t}
  /\ UNCHANGED <<runnerVars, scheduled, running, firing, lapsed>>

\* The loop of firing f with the wakes of b left.  One is handed to the handler and
\* awaited.  A handler whose runner is stopped, or with heartbeats off, answers
\* "disabled" to all of them at once: those wakes are gone.  At the end of the batch
\* the flag is reset, whoever set it, and what has come in is scheduled.
Proceed(f, by, b, flag, timers, due) ==
  IF by = alive /\ enabled /\ b # Nothing
    THEN \E t \in Wakes(b) :
           /\ firing' = [firing EXCEPT ![f] = [by |-> by, left |-> b, now |-> t]]
           /\ owed' = due \ {t}
           /\ running' = flag
           /\ wakeTimer' \in timers
           /\ UNCHANGED lapsed
    ELSE /\ firing' = [firing EXCEPT ![f] = NotFiring]
         /\ owed' = due \ Wakes(b)
         /\ running' = FALSE
         /\ lapsed' = (lapsed \/ (by = alive /\ b # Nothing))
         /\ wakeTimer' \in IF pendingWakes' # Nothing \/ scheduled'
                            THEN UNION {Scheduled(w, "normal") : w \in timers} ELSE timers

\* The timer fires.  No handler: the wakes stay.  Another firing is under way: the
\* timer is set again.  Else all wakes are taken.
TimerFires ==
  /\ wakeTimer # "none"
  /\ IF handler = 0
       THEN wakeTimer' = "none" /\ scheduled' = FALSE
            /\ UNCHANGED <<pendingWakes, running, firing, owed, lapsed>>
     ELSE IF running
       THEN scheduled' = TRUE
            /\ UNCHANGED <<wakeTimer, pendingWakes, running, firing, owed, lapsed>>
     ELSE /\ UnderWay # Firings
          /\ pendingWakes' = Nothing /\ scheduled' = FALSE
          /\ Proceed(CHOOSE f \in Firings : f \notin UnderWay, handler, pendingWakes, TRUE,
                     {"none"}, owed)
  /\ UNCHANGED runnerVars

\* scheduleNext of the runner whose handler this is: nothing if it is stopped.
Rearm(f) == interval' = (interval \/ firing[f].by = alive)

Rest(f) == [firing[f].left EXCEPT ![firing[f].now] = 0]

\* The heartbeat ran, failed, or was skipped for good.
HeartbeatEnds(f) ==
  /\ f \in UnderWay
  /\ UNCHANGED <<handler, alive, lastRunner, enabled, pendingWakes, scheduled>>
  /\ Proceed(f, firing[f].by, Rest(f), running, {wakeTimer}, owed)
  /\ Rearm(f)

\* Fault: a skipped wake is taken for served.
ForgetSkipped(f) == pendingWakes
Requeued(f) == Queue(pendingWakes, Only(firing[f].now, firing[f].left[firing[f].now]))

\* A wake skipped because requests are in flight is queued again.  The runner
\* re-arms its timer only if the wake was targeted.
HeartbeatSkipped(f) ==
  /\ f \in UnderWay
  /\ pendingWakes' = Requeued(f)
  /\ UNCHANGED <<handler, alive, lastRunner, enabled, scheduled>>
  /\ Proceed(f, firing[f].by, Rest(f), running, Scheduled(wakeTimer, "retry"),
             owed \cup {t \in {firing[f].now} : firing[f].left[t] = Action})
  /\ IF firing[f].now = Untargeted THEN UNCHANGED interval ELSE Rearm(f)

\* Fault: the flags of the last lifecycle stay.
KeepFlags == UNCHANGED <<running, scheduled>>
\* Fault: a new handler leaves the wakes that wait to the next request.
ScheduleNothing == wakeTimer' = "none"

ResetFlags == running' = FALSE /\ scheduled' = FALSE
\* The old timer is cleared, and one is set for wakes that wait.
TimerOfNewHandler == wakeTimer' = IF pendingWakes = Nothing THEN "none" ELSE "normal"

-----------------------------------------------------------------------------
(* heartbeat-runner.ts *)

\* startHeartbeatRunner: setHeartbeatWakeHandler, updateConfig
StartRunner ==
  /\ alive = 0 /\ lastRunner + 1 \in Runners
  /\ lastRunner' = lastRunner + 1 /\ alive' = lastRunner + 1 /\ handler' = lastRunner + 1
  /\ interval' = TRUE
  /\ ResetFlags /\ TimerOfNewHandler
  /\ UNCHANGED <<enabled, pendingWakes, firing, owed, lapsed>>

\* stop: its disposer clears the handler, its timer is cleared.
StopRunner ==
  /\ alive # 0
  /\ alive' = 0 /\ interval' = FALSE
  /\ handler' = IF handler = alive THEN 0 ELSE handler
  /\ UNCHANGED <<lastRunner, enabled, pendingWakes, scheduled, running, wakeTimer, firing,
                 owed, lapsed>>

IntervalOver ==
  /\ interval
  /\ interval' = FALSE
  /\ Wake(Untargeted, Interval)
  /\ UNCHANGED <<handler, alive, lastRunner, enabled, scheduled, running, firing, owed,
                 lapsed>>

\* set-heartbeats
SetHeartbeats(on) ==
  /\ enabled # on
  /\ enabled' = on
  /\ UNCHANGED <<handler, alive, lastRunner, interval, pendingWakes, scheduled, running, wakeTimer,
                 firing, owed, lapsed>>

OwnHeartbeatEnds == \E f \in Firings : firing[f].by = alive /\ HeartbeatEnds(f)

WakeNext ==
  \/ \E t \in Targets : Request(t)
  \/ TimerFires
  \/ \E f \in Firings : HeartbeatEnds(f) \/ HeartbeatSkipped(f)
  \/ StartRunner \/ StopRunner \/ IntervalOver
  \/ \E on \in BOOLEAN : SetHeartbeats(on)

\* Timers fire, and heartbeats of the live runner end, the main lane not being busy at
\* every retry.  Those of a stopped runner may hang in what the restart interrupted.
WakeFair ==
  /\ WF_wakeVars(TimerFires) /\ WF_wakeVars(IntervalOver)
  /\ SF_wakeVars(OwnHeartbeatEnds)

WakeSpec == WakeInit /\ [][WakeNext]_wakeVars /\ WakeFair

-----------------------------------------------------------------------------
WakeTypeOK ==
  /\ handler \in Runners \cup {0} /\ alive \in Runners \cup {0} /\ lastRunner \in Runners \cup {0}
  /\ interval \in BOOLEAN /\ enabled \in BOOLEAN /\ scheduled \in BOOLEAN /\ running \in BOOLEAN
  /\ pendingWakes \in Batches
  /\ wakeTimer \in {"none", "normal", "retry"}
  /\ firing \in [Firings -> [by : Runners \cup {0}, left : Batches, now : Targets]]
  /\ owed \subseteq Targets /\ lapsed \in BOOLEAN

\* No event's wake is lost or downgraded to an interval wake (which a runner may
\* skip as not due) in the coalescing, the retries and the changes of handler:
\* until a handler is given it, it is pending or in a batch.
WakeKept ==
  \A t \in owed : \/ pendingWakes[t] = Action
                  \/ \E f \in UnderWay : firing[f].left[t] = Action /\ t # firing[f].now

\* Nor does it wait for ever while a runner is there to serve it: whatever the
\* flags and timers that earlier firings and runners left behind, a wake timer is
\* set or a firing of its own is under way that will set it, and nothing but such a
\* firing makes the timer wait.
WakeNotStalled ==
  handler # 0 =>
    LET own == \E f \in UnderWay : firing[f].by = handler IN
      /\ pendingWakes # Nothing => wakeTimer # "none" \/ own
      /\ running => own

\* The interval heartbeat of a runner that stays goes on for ever, through busy lanes
\* and in-process restarts, unless a wake came while heartbeats were switched off.
HeartbeatGoesOn == <>[](alive # 0) => []<>(interval \/ lapsed)

\* docs/cli/system.md: `enable` turns "heartbeats back on (use this if they were
\* disabled)".
EnableTurnsBackOn == <>[](alive # 0 /\ enabled) => []<>interval
=============================================================================
