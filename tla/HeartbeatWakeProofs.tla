------------------------ MODULE HeartbeatWakeProofs ------------------------
(***************************************************************************)
(* No event's wake is lost or downgraded, and none stalls, for any         *)
(* sessions, runners and number of firings under way.  With the types,     *)
(* WakeKept is inductive: what leaves pendingWakes goes into a batch, and  *)
(* what leaves a batch is handed over, queued again, or discarded together *)
(* with its debt.  So is WakeNotStalled: a firing that ends leaves a timer *)
(* to what is pending, one that goes on is the reason not to need it, and  *)
(* a new handler begins without flags and with a timer of its own.         *)
(***************************************************************************)
EXTENDS HeartbeatWake, TLAPS

WakeInv == WakeTypeOK /\ WakeKept

LEMMA WakeInitInv == WakeInit => WakeInv
<1> SUFFICES ASSUME WakeInit PROVE WakeInv
  OBVIOUS
<1>1. Nothing \in Batches /\ Untargeted \in Targets
  BY SMT DEF Nothing, Batches, Action, Targets
<1>2. NotFiring \in [by : Runners \cup {0}, left : Batches, now : Targets]
  BY <1>1, SMT DEF NotFiring
<1>3. firing \in [Firings -> [by : Runners \cup {0}, left : Batches, now : Targets]]
  BY <1>2, SMT DEF WakeInit
<1>4. WakeTypeOK
  BY <1>1, <1>3, Zenon DEF WakeInit, WakeTypeOK
<1>5. WakeKept
  BY Zenon DEF WakeInit, WakeKept
<1> QED
  BY <1>4, <1>5 DEF WakeInv

\* Queueing keeps types, and an Action wake stays one.
LEMMA QueueLemma ==
  ASSUME NEW p \in Batches, NEW b \in Batches
  PROVE  /\ Queue(p, b) \in Batches
         /\ \A t \in Targets : p[t] = Action \/ b[t] = Action => Queue(p, b)[t] = Action
  BY SMT DEF Queue, Batches, Action

LEMMA OnlyLemma ==
  ASSUME NEW t \in Targets, NEW n \in 0..Action
  PROVE  Only(t, n) \in Batches /\ Only(t, n)[t] = n
  BY SMT DEF Only, Nothing, Batches, Action

LEMMA ScheduledLemma ==
  ASSUME NEW w \in {"none", "normal", "retry"}, NEW k \in {"normal", "retry"}
  PROVE  Scheduled(w, k) \subseteq {"none", "normal", "retry"}
  BY SMT DEF Scheduled

\* The wakes b of firing f: if what is owed is pending, in a batch of another firing, or
\* in b, it still is so after the loop goes on, less what is handed over or discarded.
LEMMA ProceedLemma ==
  ASSUME WakeTypeOK, NEW f \in Firings, NEW by \in Runners, by # 0, NEW b \in Batches,
         NEW flag \in BOOLEAN, NEW timers \in SUBSET {"none", "normal", "retry"},
         NEW due \in SUBSET Targets,
         Proceed(f, by, b, flag, timers, due),
         pendingWakes' \in Batches, scheduled' \in BOOLEAN,
         \A t \in due : \/ pendingWakes'[t] = Action
                        \/ b[t] = Action
                        \/ \E g \in UnderWay \ {f} : firing[g].left[t] = Action /\ t # firing[g].now
  PROVE  /\ firing' \in [Firings -> [by : Runners \cup {0}, left : Batches, now : Targets]]
         /\ owed' \subseteq Targets /\ lapsed' \in BOOLEAN /\ running' \in BOOLEAN
         /\ wakeTimer' \in {"none", "normal", "retry"}
         /\ WakeKept'
<1>1. CASE by = alive /\ enabled /\ b # Nothing
  <2>1. PICK t \in Wakes(b) :
          /\ firing' = [firing EXCEPT ![f] = [by |-> by, left |-> b, now |-> t]]
          /\ owed' = due \ {t} /\ running' = flag /\ wakeTimer' \in timers /\ UNCHANGED lapsed
    BY <1>1, SMT DEF Proceed
  <2>2. t \in Targets
    BY DEF Wakes
  <2>3. firing' \in [Firings -> [by : Runners \cup {0}, left : Batches, now : Targets]]
    BY <2>1, <2>2, SMT DEF WakeTypeOK
  <2>4. firing'[f].by # 0 /\ firing'[f].left = b /\ firing'[f].now = t
    BY <2>1, SMT DEF WakeTypeOK
  <2>5. \A g \in Firings \ {f} : firing'[g] = firing[g]
    BY <2>1, SMT DEF WakeTypeOK
  <2>6. WakeKept'
    BY <2>1, <2>4, <2>5, SMT DEF WakeKept, UnderWay
  <2> QED
    BY <2>1, <2>3, <2>6, SMT DEF WakeTypeOK
<1>2. CASE ~(by = alive /\ enabled /\ b # Nothing)
  <2>1. /\ firing' = [firing EXCEPT ![f] = NotFiring]
        /\ owed' = due \ Wakes(b) /\ running' = FALSE
        /\ lapsed' = (lapsed \/ (by = alive /\ b # Nothing))
        /\ wakeTimer' \in IF pendingWakes' # Nothing \/ scheduled'
                            THEN UNION {Scheduled(w, "normal") : w \in timers} ELSE timers
    BY <1>2, SMT DEF Proceed
  <2>2. firing' \in [Firings -> [by : Runners \cup {0}, left : Batches, now : Targets]]
    BY <2>1, SMT DEF WakeTypeOK, NotFiring, Nothing, Batches, Targets, Action
  <2>3. \A g \in Firings \ {f} : firing'[g] = firing[g]
    BY <2>1, SMT DEF WakeTypeOK
  <2>4. \A t \in Targets : b[t] = Action => t \in Wakes(b)
    BY SMT DEF Wakes, Action
  <2>5. WakeKept'
    BY <2>1, <2>3, <2>4, SMT DEF WakeKept, UnderWay
  <2>6. wakeTimer' \in {"none", "normal", "retry"}
    BY <2>1, ScheduledLemma, SMT
  <2>7. owed' \subseteq Targets
    BY <2>1, SMT
  <2>8. lapsed' \in BOOLEAN /\ running' \in BOOLEAN
    BY <2>1, Zenon DEF WakeTypeOK
  <2> QED
    BY <2>2, <2>5, <2>6, <2>7, <2>8
<1> QED
  BY <1>1, <1>2

LEMMA WakeNextInv == WakeInv /\ [WakeNext]_wakeVars => WakeInv'
<1> SUFFICES ASSUME WakeInv, [WakeNext]_wakeVars PROVE WakeInv'
  OBVIOUS
<1> USE DEF WakeInv
<1>1. ASSUME NEW t \in Targets, Request(t) PROVE WakeInv'
  <2>1. /\ pendingWakes' = Queue(pendingWakes, Only(t, Action))
        /\ wakeTimer' \in Scheduled(wakeTimer, "normal") /\ owed' = owed \cup {t}
        /\ UNCHANGED <<handler, alive, lastRunner, interval, enabled, scheduled, running,
                       firing, lapsed>>
    BY <1>1 DEF Request, Wake, runnerVars
  <2>2. Only(t, Action) \in Batches /\ Only(t, Action)[t] = Action
    BY OnlyLemma, SMT DEF Action
  <2>3. /\ pendingWakes' \in Batches /\ pendingWakes'[t] = Action
        /\ \A u \in Targets : pendingWakes[u] = Action => pendingWakes'[u] = Action
    BY <2>1, <2>2, QueueLemma, SMT DEF WakeTypeOK
  <2>4. wakeTimer' \in {"none", "normal", "retry"}
    BY <2>1, ScheduledLemma, SMT DEF WakeTypeOK
  <2>5. owed' \subseteq Targets
    BY <1>1, <2>1, SMT DEF WakeTypeOK
  <2>6. WakeTypeOK'
    BY <2>1, <2>3, <2>4, <2>5, Zenon DEF WakeTypeOK
  <2>7. WakeKept'
    BY <2>1, <2>3, SMT DEF WakeKept, WakeTypeOK, UnderWay
  <2> QED
    BY <2>6, <2>7
<1>2. ASSUME TimerFires PROVE WakeInv'
  <2>1. CASE handler = 0
    <3>1. /\ wakeTimer' = "none" /\ scheduled' = FALSE
          /\ UNCHANGED <<pendingWakes, running, firing, owed, lapsed, handler, alive, lastRunner,
                         interval, enabled>>
      BY <1>2, <2>1 DEF TimerFires, runnerVars
    <3> QED
      BY <3>1, Zenon DEF WakeTypeOK, WakeKept, UnderWay
  <2>2. CASE handler # 0 /\ running
    <3>1. /\ scheduled' = TRUE
          /\ UNCHANGED <<wakeTimer, pendingWakes, running, firing, owed, lapsed, handler, alive,
                         lastRunner, interval, enabled>>
      BY <1>2, <2>2 DEF TimerFires, runnerVars
    <3> QED
      BY <3>1, Zenon DEF WakeTypeOK, WakeKept, UnderWay
  <2>3. CASE handler # 0 /\ ~running
    <3> DEFINE f == CHOOSE f \in Firings : f \notin UnderWay
    <3> DEFINE timers == {"none"}
    <3> DEFINE flag == TRUE
    <3>1. /\ UnderWay # Firings /\ pendingWakes' = Nothing /\ scheduled' = FALSE
          /\ Proceed(f, handler, pendingWakes, flag, timers, owed)
          /\ UNCHANGED runnerVars
      BY <1>2, <2>3 DEF TimerFires
    <3>2. f \in Firings /\ f \notin UnderWay
      BY <3>1 DEF UnderWay
    <3> timers \in SUBSET {"none", "normal", "retry"} /\ flag \in BOOLEAN
      OBVIOUS
    <3> HIDE DEF f, timers, flag
    <3>3. pendingWakes' \in Batches /\ scheduled' \in BOOLEAN
      <4>1. Nothing \in Batches
        BY SMT DEF Nothing, Batches, Action
      <4> QED
        BY <3>1, <4>1, Zenon
    <3>4. \A t \in owed : \/ pendingWakes'[t] = Action
                          \/ pendingWakes[t] = Action
                          \/ \E g \in UnderWay \ {f} : firing[g].left[t] = Action /\ t # firing[g].now
      BY <3>2 DEF WakeKept
    <3>5. /\ handler \in Runners /\ pendingWakes \in Batches /\ owed \in SUBSET Targets
      BY <2>3 DEF WakeTypeOK
    <3>6. /\ firing' \in [Firings -> [by : Runners \cup {0}, left : Batches, now : Targets]]
          /\ owed' \subseteq Targets /\ lapsed' \in BOOLEAN /\ running' \in BOOLEAN
          /\ wakeTimer' \in {"none", "normal", "retry"}
          /\ WakeKept'
      BY <2>3, <3>1, <3>2, <3>3, <3>4, <3>5, ProceedLemma
    <3>7. WakeTypeOK'
      BY <3>1, <3>3, <3>6 DEF WakeTypeOK, runnerVars
    <3> QED
      BY <3>6, <3>7
  <2> QED
    BY <2>1, <2>2, <2>3
<1>3. ASSUME NEW f \in Firings, HeartbeatEnds(f) PROVE WakeInv'
  <2> DEFINE timers == {wakeTimer}
  <2>1. /\ f \in UnderWay
        /\ UNCHANGED <<handler, alive, lastRunner, enabled, pendingWakes, scheduled>>
        /\ Proceed(f, firing[f].by, Rest(f), running, timers, owed)
        /\ Rearm(f)
    BY <1>3 DEF HeartbeatEnds
  <2>2. /\ firing[f].by \in Runners /\ firing[f].by # 0
        /\ Rest(f) \in Batches
        /\ \A t \in Targets : t # firing[f].now => Rest(f)[t] = firing[f].left[t]
    BY <2>1, SMT DEF UnderWay, WakeTypeOK, Rest, Batches, Action
  <2>3. \A t \in owed : \/ pendingWakes'[t] = Action
                        \/ Rest(f)[t] = Action
                        \/ \E g \in UnderWay \ {f} : firing[g].left[t] = Action /\ t # firing[g].now
    BY <2>1, <2>2, SMT DEF WakeKept, WakeTypeOK, UnderWay
  <2>4. /\ pendingWakes' \in Batches /\ scheduled' \in BOOLEAN /\ owed \in SUBSET Targets
        /\ timers \in SUBSET {"none", "normal", "retry"} /\ running \in BOOLEAN
    BY <2>1 DEF WakeTypeOK
  <2> HIDE DEF timers
  <2>5. /\ firing' \in [Firings -> [by : Runners \cup {0}, left : Batches, now : Targets]]
        /\ owed' \subseteq Targets /\ lapsed' \in BOOLEAN /\ running' \in BOOLEAN
        /\ wakeTimer' \in {"none", "normal", "retry"}
        /\ WakeKept'
    BY <2>1, <2>2, <2>3, <2>4, ProceedLemma
  <2>6. interval' \in BOOLEAN
    BY <2>1 DEF Rearm
  <2> QED
    BY <2>1, <2>4, <2>5, <2>6 DEF WakeTypeOK
<1>4. ASSUME NEW f \in Firings, HeartbeatSkipped(f) PROVE WakeInv'
  <2> DEFINE due == owed \cup {t \in {firing[f].now} : firing[f].left[t] = Action}
  <2>1. /\ f \in UnderWay
        /\ pendingWakes' = Requeued(f)
        /\ UNCHANGED <<handler, alive, lastRunner, enabled, scheduled>>
        /\ Proceed(f, firing[f].by, Rest(f), running, Scheduled(wakeTimer, "retry"), due)
    BY <1>4 DEF HeartbeatSkipped
  <2>2. /\ firing[f].by \in Runners /\ firing[f].by # 0
        /\ firing[f].now \in Targets /\ firing[f].left \in Batches
        /\ Rest(f) \in Batches
        /\ \A t \in Targets : t # firing[f].now => Rest(f)[t] = firing[f].left[t]
    BY <2>1, SMT DEF UnderWay, WakeTypeOK, Rest, Batches, Action
  <2>3. firing[f].left[firing[f].now] \in 0..Action
    BY <2>2 DEF Batches
  <2>4. /\ pendingWakes' \in Batches
        /\ \A t \in Targets : pendingWakes[t] = Action => pendingWakes'[t] = Action
        /\ firing[f].left[firing[f].now] = Action => pendingWakes'[firing[f].now] = Action
    BY <2>1, <2>2, <2>3, QueueLemma, OnlyLemma DEF Requeued, WakeTypeOK
  <2>5. due \in SUBSET Targets
    BY <2>2 DEF WakeTypeOK
  <2>6. \A t \in due : \/ pendingWakes'[t] = Action
                       \/ Rest(f)[t] = Action
                       \/ \E g \in UnderWay \ {f} : firing[g].left[t] = Action /\ t # firing[g].now
    BY <2>1, <2>2, <2>4, <2>5, SMT DEF WakeKept, WakeTypeOK, UnderWay
  <2>7. /\ scheduled' \in BOOLEAN /\ running \in BOOLEAN
        /\ Scheduled(wakeTimer, "retry") \in SUBSET {"none", "normal", "retry"}
    BY <2>1, ScheduledLemma DEF WakeTypeOK
  <2> HIDE DEF due
  <2>8. /\ firing' \in [Firings -> [by : Runners \cup {0}, left : Batches, now : Targets]]
        /\ owed' \subseteq Targets /\ lapsed' \in BOOLEAN /\ running' \in BOOLEAN
        /\ wakeTimer' \in {"none", "normal", "retry"}
        /\ WakeKept'
    BY <2>1, <2>2, <2>4, <2>5, <2>6, <2>7, ProceedLemma
  <2>9. interval' \in BOOLEAN
    BY <1>4 DEF HeartbeatSkipped, Rearm, WakeTypeOK
  <2> QED
    BY <2>1, <2>4, <2>7, <2>8, <2>9 DEF WakeTypeOK
<1>5. ASSUME StartRunner PROVE WakeInv'
  <2>1. /\ lastRunner' \in Runners /\ alive' \in Runners /\ handler' \in Runners
        /\ interval' = TRUE /\ running' = FALSE /\ scheduled' = FALSE
        /\ wakeTimer' \in {"none", "normal"}
        /\ UNCHANGED <<enabled, pendingWakes, firing, owed, lapsed>>
    BY <1>5, Zenon DEF StartRunner, ResetFlags, TimerOfNewHandler
  <2> QED
    BY <2>1, Zenon DEF WakeTypeOK, WakeKept, UnderWay
<1>6. ASSUME StopRunner PROVE WakeInv'
  <2>1. /\ alive' = 0 /\ interval' = FALSE /\ handler' \in {0, handler}
        /\ UNCHANGED <<lastRunner, enabled, pendingWakes, scheduled, running, wakeTimer, firing,
                       owed, lapsed>>
    BY <1>6, Zenon DEF StopRunner
  <2> QED
    BY <2>1, Zenon DEF WakeTypeOK, WakeKept, UnderWay
<1>7. ASSUME IntervalOver PROVE WakeInv'
  <2>1. /\ pendingWakes' = Queue(pendingWakes, Only(Untargeted, Interval)) /\ interval' = FALSE
        /\ wakeTimer' \in Scheduled(wakeTimer, "normal")
        /\ UNCHANGED <<handler, alive, lastRunner, enabled, scheduled, running, firing, owed, lapsed>>
    BY <1>7 DEF IntervalOver, Wake
  <2>2. Untargeted \in Targets /\ Interval \in 0..Action
    BY SMT DEF Targets, Interval, Action
  <2>3. /\ pendingWakes' \in Batches
        /\ \A u \in Targets : pendingWakes[u] = Action => pendingWakes'[u] = Action
    BY <2>1, <2>2, QueueLemma, OnlyLemma DEF WakeTypeOK
  <2>4. wakeTimer' \in {"none", "normal", "retry"}
    BY <2>1, ScheduledLemma DEF WakeTypeOK
  <2>5. WakeTypeOK'
    BY <2>1, <2>3, <2>4, Zenon DEF WakeTypeOK
  <2>6. WakeKept'
    BY <2>1, <2>3, SMT DEF WakeKept, WakeTypeOK, UnderWay
  <2> QED
    BY <2>5, <2>6
<1>8. ASSUME NEW on \in BOOLEAN, SetHeartbeats(on) PROVE WakeInv'
  BY <1>8, SMT DEF SetHeartbeats, WakeTypeOK, WakeKept, UnderWay
<1>9. CASE UNCHANGED wakeVars
  BY <1>9, SMT DEF wakeVars, runnerVars, WakeTypeOK, WakeKept, UnderWay
<1> QED
  BY <1>1, <1>2, <1>3, <1>4, <1>5, <1>6, <1>7, <1>8, <1>9 DEF WakeNext

-----------------------------------------------------------------------------
(* No stalling *)

\* The loop of a firing leaves the other firings alone ...
LEMMA LoopOfOneFiring ==
  ASSUME WakeTypeOK, NEW f \in Firings, NEW by \in Runners, by # 0, NEW b \in Batches,
         NEW flag \in BOOLEAN, NEW timers \in SUBSET {"none", "normal", "retry"},
         NEW due \in SUBSET Targets,
         Proceed(f, by, b, flag, timers, due)
  PROVE  \A g \in UnderWay \ {f} : g \in UnderWay' /\ firing'[g].by = firing[g].by
<1>1. \A g \in Firings \ {f} : firing'[g] = firing[g]
  BY SMT DEF Proceed, WakeTypeOK
<1> QED
  BY <1>1, SMT DEF UnderWay

\* ... and goes on with its handler, or ends, resets the flag and leaves a timer to
\* what is pending.
LEMMA LoopEndsOrGoesOn ==
  ASSUME WakeTypeOK, NEW f \in Firings, NEW by \in Runners, by # 0, NEW b \in Batches,
         NEW flag \in BOOLEAN, NEW timers \in SUBSET {"none", "normal", "retry"},
         NEW due \in SUBSET Targets,
         Proceed(f, by, b, flag, timers, due)
  PROVE  \/ /\ f \in UnderWay' /\ firing'[f].by = by
            /\ (running' => flag) /\ wakeTimer' \in timers
         \/ running' = FALSE /\ (pendingWakes' # Nothing => wakeTimer' # "none")
<1>1. CASE by = alive /\ enabled /\ b # Nothing
  <2>1. PICK t \in Wakes(b) :
          /\ firing' = [firing EXCEPT ![f] = [by |-> by, left |-> b, now |-> t]]
          /\ running' = flag /\ wakeTimer' \in timers
    BY <1>1, SMT DEF Proceed
  <2> QED
    BY <2>1, SMT DEF WakeTypeOK, UnderWay
<1>2. CASE ~(by = alive /\ enabled /\ b # Nothing)
  <2>1. /\ running' = FALSE
        /\ wakeTimer' \in IF pendingWakes' # Nothing \/ scheduled'
                            THEN UNION {Scheduled(w, "normal") : w \in timers} ELSE timers
    BY <1>2, SMT DEF Proceed
  <2>2. \A w \in timers : "none" \notin Scheduled(w, "normal")
    BY SMT DEF Scheduled
  <2> QED
    BY <2>1, <2>2, SMT
<1> QED
  BY <1>1, <1>2

LEMMA InitNotStalled == WakeInit => WakeNotStalled
  BY DEF WakeInit, WakeNotStalled

LEMMA NextNotStalled == WakeInv /\ WakeNotStalled /\ [WakeNext]_wakeVars => WakeNotStalled'
<1> SUFFICES ASSUME WakeInv, WakeNotStalled, [WakeNext]_wakeVars PROVE WakeNotStalled'
  OBVIOUS
<1>0. WakeTypeOK
  BY DEF WakeInv
<1> USE DEF WakeInv
<1>1. ASSUME NEW t, NEW n, Wake(t, n), UNCHANGED <<handler, running, firing>>
      PROVE  WakeNotStalled'
  <2>1. wakeTimer' # "none"
    BY <1>1, SMT DEF Wake, Scheduled, WakeTypeOK
  <2> QED
    BY <1>1, <2>1, Zenon DEF WakeNotStalled, UnderWay
<1>2. ASSUME TimerFires PROVE WakeNotStalled'
  <2>1. UNCHANGED handler
    BY <1>2 DEF TimerFires, runnerVars
  <2>2. CASE handler = 0
    BY <2>1, <2>2 DEF WakeNotStalled
  <2>3. CASE handler # 0 /\ running
    BY <1>2, <2>3, Zenon DEF TimerFires, runnerVars, WakeNotStalled, UnderWay
  <2>4. CASE handler # 0 /\ ~running
    <3> DEFINE f == CHOOSE f \in Firings : f \notin UnderWay
    <3> DEFINE timers == {"none"}
    <3> DEFINE flag == TRUE
    <3>1. /\ UnderWay # Firings /\ pendingWakes' = Nothing
          /\ Proceed(f, handler, pendingWakes, flag, timers, owed)
      BY <1>2, <2>4 DEF TimerFires
    <3>2. f \in Firings
      BY <3>1 DEF UnderWay
    <3>3. timers \in SUBSET {"none", "normal", "retry"} /\ flag \in BOOLEAN
      OBVIOUS
    <3>4. handler \in Runners /\ pendingWakes \in Batches /\ owed \in SUBSET Targets
      BY <2>4 DEF WakeTypeOK
    <3> HIDE DEF f, timers, flag
    <3>5. \/ f \in UnderWay' /\ firing'[f].by = handler
          \/ running' = FALSE
      BY <1>0, <2>4, <3>1, <3>2, <3>3, <3>4, LoopEndsOrGoesOn
    <3> QED
      BY <2>1, <3>1, <3>5 DEF WakeNotStalled
  <2> QED
    BY <2>2, <2>3, <2>4
\* A firing goes on with the rest of its batch; a timer stays a timer.
<1>3. ASSUME NEW f \in UnderWay, NEW timers \in SUBSET {"none", "normal", "retry"},
             NEW due \in SUBSET Targets,
             Proceed(f, firing[f].by, Rest(f), running, timers, due),
             UNCHANGED handler,
             pendingWakes' # pendingWakes \/ wakeTimer # "none" => "none" \notin timers
      PROVE  WakeNotStalled'
  <2>1. /\ f \in Firings /\ firing[f].by \in Runners /\ firing[f].by # 0
        /\ Rest(f) \in Batches /\ running \in BOOLEAN
    BY SMT DEF UnderWay, WakeTypeOK, Rest, Batches, Action
  <2>2. \A g \in UnderWay \ {f} : g \in UnderWay' /\ firing'[g].by = firing[g].by
    BY <1>0, <1>3, <2>1, LoopOfOneFiring
  <2>3. CASE f \in UnderWay' /\ firing'[f].by = firing[f].by
             /\ (running' => running) /\ wakeTimer' \in timers
    <3>1. \A g \in UnderWay : g \in UnderWay' /\ firing'[g].by = firing[g].by
      BY <2>2, <2>3
    <3>2. (pendingWakes' = pendingWakes /\ wakeTimer = "none") \/ wakeTimer' # "none"
      BY <1>3, <2>3
    <3> QED
      BY <1>3, <2>3, <3>1, <3>2 DEF WakeNotStalled
  <2>4. CASE running' = FALSE /\ (pendingWakes' # Nothing => wakeTimer' # "none")
    BY <2>4 DEF WakeNotStalled
  <2> QED
    BY <1>0, <1>3, <2>1, <2>3, <2>4, LoopEndsOrGoesOn
<1>4. ASSUME NEW f \in Firings, HeartbeatEnds(f) PROVE WakeNotStalled'
  <2>1. /\ {wakeTimer} \in SUBSET {"none", "normal", "retry"} /\ owed \in SUBSET Targets
    BY DEF WakeTypeOK
  <2>2. /\ f \in UnderWay /\ UNCHANGED <<handler, pendingWakes>>
        /\ Proceed(f, firing[f].by, Rest(f), running, {wakeTimer}, owed)
    BY <1>4 DEF HeartbeatEnds
  <2> QED
    BY <1>3, <2>1, <2>2
<1>5. ASSUME NEW f \in Firings, HeartbeatSkipped(f) PROVE WakeNotStalled'
  <2> DEFINE due == owed \cup {t \in {firing[f].now} : firing[f].left[t] = Action}
  <2> DEFINE timers == Scheduled(wakeTimer, "retry")
  <2>1. /\ f \in UnderWay /\ UNCHANGED handler
        /\ Proceed(f, firing[f].by, Rest(f), running, timers, due)
    BY <1>5 DEF HeartbeatSkipped
  <2>2. timers \in SUBSET {"none", "normal", "retry"} /\ "none" \notin timers
    BY SMT DEF Scheduled, WakeTypeOK
  <2>3. due \in SUBSET Targets
    BY <2>1, SMT DEF WakeTypeOK, UnderWay
  <2> HIDE DEF due, timers
  <2> QED
    BY <1>3, <2>1, <2>2, <2>3
<1>6. ASSUME StartRunner PROVE WakeNotStalled'
  BY <1>6, Zenon DEF StartRunner, ResetFlags, TimerOfNewHandler, WakeNotStalled
<1>7. ASSUME StopRunner PROVE WakeNotStalled'
  BY <1>7, Zenon DEF StopRunner, WakeNotStalled, UnderWay
<1>8. ASSUME NEW on \in BOOLEAN, SetHeartbeats(on) PROVE WakeNotStalled'
  BY <1>8, Zenon DEF SetHeartbeats, WakeNotStalled, UnderWay
<1>9. CASE UNCHANGED wakeVars
  BY <1>9, Zenon DEF wakeVars, runnerVars, WakeNotStalled, UnderWay
<1>10. ASSUME NEW t \in Targets, Request(t) PROVE WakeNotStalled'
  BY <1>1, <1>10 DEF Request, runnerVars
<1>11. ASSUME IntervalOver PROVE WakeNotStalled'
  BY <1>1, <1>11 DEF IntervalOver
<1> QED
  BY <1>2, <1>4, <1>5, <1>6, <1>7, <1>8, <1>9, <1>10, <1>11 DEF WakeNext

-----------------------------------------------------------------------------
(* The theorems *)

\* The wake queue, the runner and the firings have their types, for all sets of sessions,
\* runners and firings.
THEOREM WakeTypeCorrect == WakeSpec => []WakeTypeOK
<1>1. WakeInv => WakeTypeOK
  BY DEF WakeInv
<1> QED
  BY WakeInitInv, WakeNextInv, <1>1, PTL DEF WakeSpec

\* No event's wake is lost or downgraded by coalescing, retries and changes of handler
\* (queuePendingWakeReason, the timer's callback, setHeartbeatWakeHandler).
THEOREM WakesKept == WakeSpec => []WakeKept
<1>1. WakeInv => WakeKept
  BY DEF WakeInv
<1> QED
  BY WakeInitInv, WakeNextInv, <1>1, PTL DEF WakeSpec

\* While a handler is registered, wakes that are pending have a timer or a firing of
\* that handler that will set one, and the running flag is up only for such a firing,
\* whatever earlier firings and runners left behind (setHeartbeatWakeHandler, schedule).
THEOREM WakesGoOn == WakeSpec => []WakeNotStalled
<1>1. WakeInit => WakeInv /\ WakeNotStalled
  BY WakeInitInv, InitNotStalled
<1>2. WakeInv /\ WakeNotStalled /\ [WakeNext]_wakeVars => WakeInv' /\ WakeNotStalled'
  BY WakeNextInv, NextNotStalled
<1> QED
  BY <1>1, <1>2, PTL DEF WakeSpec
=============================================================================
