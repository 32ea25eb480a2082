---------------------------- MODULE CommandQueue ----------------------------
(***************************************************************************)
(* The lane-aware FIFO command queue of process/command-queue.ts.          *)
(*                                                                         *)
(* JavaScript runs one callback at a time and `pump` contains no await, so *)
(* one exported function, or one completion of a task together with the    *)
(* pump it triggers, is one step.  A task started by the pump is a call    *)
(* whose promise settles in a later step.  The flag `draining` is set and  *)
(* cleared inside one pump, so it is FALSE between steps and is no         *)
(* variable; a task that enqueues synchronously into the lane being pumped *)
(* is picked up by the loop that is already running, which is the same     *)
(* outcome as enqueueing right after it.                                   *)
(*                                                                         *)
(* A task id is drawn from a counter each time an entry starts, and an     *)
(* entry starts at most once, so the call itself stands for its task id.   *)
(* Lanes are created on demand with the values of Init; bumping the        *)
(* generation of a lane nobody has used yet is invisible.                  *)
(***************************************************************************)
EXTENDS Integers, Sequences, FiniteSets

CONSTANTS
  Lanes,          \* lane names
  Tasks,          \* calls of enqueueCommandInLane
  Waiters,        \* calls of waitForActiveTasks
  ConcurrencyArgs,\* the values setCommandLaneConcurrency is called with
  MaxGeneration   \* bound: how often resetAllLanes runs

ASSUME ConcurrencyAssumption == ConcurrencyArgs \subseteq Int
ASSUME GenerationAssumption == MaxGeneration \in Nat

VARIABLES
  gatewayDraining,  \* BOOLEAN
  queue,            \* lane -> sequence of the calls waiting in it
  activeTaskIds,    \* lane -> calls holding one of its slots
  maxConcurrent,    \* lane -> number of slots
  generation,       \* lane -> number of resets it went through
  phase,            \* call -> where its promise is
  laneOf,           \* call -> the lane it was made in
  taskGeneration,   \* call -> the lane's generation when it started
  waiterState,      \* waiter -> its promise
  activeAtStart     \* waiter -> the tasks it waits for

laneVars == <<queue, activeTaskIds, maxConcurrent, generation>>
callVars == <<phase, laneOf, taskGeneration>>
waiterVars == <<waiterState, activeAtStart>>
vars == <<gatewayDraining, laneVars, callVars, waiterVars>>

\* "running" covers every call whose task executes, whether or not it still
\* holds a slot; the last four are the ways its promise settles.
Settled == {"resolved", "rejected", "cleared", "refused"}
Phases == {"absent", "queued", "running"} \cup Settled

Init ==
  /\ gatewayDraining = FALSE
  /\ queue = [l \in Lanes |-> <<>>]
  /\ activeTaskIds = [l \in Lanes |-> {}]
  /\ maxConcurrent = [l \in Lanes |-> 1]
  /\ generation = [l \in Lanes |-> 0]
  /\ phase = [t \in Tasks |-> "absent"]
  /\ laneOf \in [Tasks -> Lanes]
  /\ taskGeneration = [t \in Tasks |-> 0]
  /\ waiterState = [w \in Waiters |-> "idle"]
  /\ activeAtStart = [w \in Waiters |-> {}]

-----------------------------------------------------------------------------
\* Fault: the pump starts one entry too many.
PumpPastLimit(q, active, max) ==
  LET free == max - Cardinality(active) + 1
  IN  IF free <= 0 THEN 0 ELSE IF free <= Len(q) THEN free ELSE Len(q)

\* How many entries one pump starts: slots that are free, entries permitting.
PumpCount(q, active, max) ==
  LET free == max - Cardinality(active)
  IN  IF free <= 0 THEN 0 ELSE IF free <= Len(q) THEN free ELSE Len(q)

\* The entries it starts, and those it leaves.
PumpStarts(q, active, max) == {q[i] : i \in 1..PumpCount(q, active, max)}
PumpLeaves(q, active, max) == SubSeq(q, PumpCount(q, active, max) + 1, Len(q))

\* drainLane on each lane of `lanes`, begun in the lane state q, active, max,
\* gen and the phases ph that the calling function has already written.
DrainLanes(lanes, q, active, max, gen, ph) ==
  LET starts(l) == IF l \in lanes THEN PumpStarts(q[l], active[l], max[l])
                                  ELSE {}
      started == UNION {starts(l) : l \in Lanes}
  IN  /\ queue' = [l \in Lanes |-> IF l \in lanes
                                     THEN PumpLeaves(q[l], active[l], max[l])
                                     ELSE q[l]]
      /\ activeTaskIds' = [l \in Lanes |-> active[l] \cup starts(l)]
      /\ maxConcurrent' = max
      /\ generation' = gen
      /\ phase' = [t \in Tasks |-> IF t \in started THEN "running" ELSE ph[t]]
      /\ taskGeneration' = [t \in Tasks |-> IF t \in started
                                              THEN gen[laneOf[t]]
                                              ELSE taskGeneration[t]]

SlotsFreedBy(t) ==
  IF taskGeneration[t] = generation[laneOf[t]] THEN {laneOf[t]} ELSE {}

\* enqueueCommandInLane: the call t, made in its lane.
Enqueue(t) ==
  /\ phase[t] = "absent"
  /\ IF gatewayDraining
       THEN /\ phase' = [phase EXCEPT ![t] = "refused"]
            /\ UNCHANGED <<laneVars, taskGeneration>>
       ELSE DrainLanes({laneOf[t]},
              [queue EXCEPT ![laneOf[t]] = Append(@, t)], activeTaskIds,
              maxConcurrent, generation, [phase EXCEPT ![t] = "queued"])
  /\ UNCHANGED <<gatewayDraining, laneOf, waiterVars>>

\* A task settles: completeTask, the pump of its lane unless the lane was reset
\* since it started, then entry.resolve or entry.reject.
Finish(t, outcome) ==
  /\ phase[t] = "running"
  /\ DrainLanes(SlotsFreedBy(t), queue,
       [l \in Lanes |-> IF l \in SlotsFreedBy(t) THEN activeTaskIds[l] \ {t}
                                                 ELSE activeTaskIds[l]],
       maxConcurrent, generation, [phase EXCEPT ![t] = outcome])
  /\ UNCHANGED <<gatewayDraining, laneOf, waiterVars>>

MarkGatewayDraining ==
  /\ gatewayDraining' = TRUE
  /\ UNCHANGED <<laneVars, callVars, waiterVars>>

\* Fault: the argument is not clamped.
SetConcurrencyUnclamped(l, n) ==
  /\ DrainLanes({l}, queue, activeTaskIds, [maxConcurrent EXCEPT ![l] = n],
       generation, phase)
  /\ UNCHANGED <<gatewayDraining, laneOf, waiterVars>>

\* setCommandLaneConcurrency; the argument comes from the configuration.
SetCommandLaneConcurrency(l, n) ==
  /\ DrainLanes({l}, queue, activeTaskIds,
       [maxConcurrent EXCEPT ![l] = IF n < 1 THEN 1 ELSE n], generation, phase)
  /\ UNCHANGED <<gatewayDraining, laneOf, waiterVars>>

\* Fault: the queue is truncated, the entries are not rejected.
ClearWithoutRejecting(l) ==
  /\ queue' = [queue EXCEPT ![l] = <<>>]
  /\ UNCHANGED <<gatewayDraining, activeTaskIds, maxConcurrent, generation,
                 callVars, waiterVars>>

\* clearCommandLane: every queued entry is rejected, running ones go on.
ClearCommandLane(l) ==
  LET pending == {queue[l][i] : i \in 1..Len(queue[l])}
  IN  /\ queue' = [queue EXCEPT ![l] = <<>>]
      /\ phase' = [t \in Tasks |-> IF t \in pending THEN "cleared" ELSE phase[t]]
      /\ UNCHANGED <<gatewayDraining, activeTaskIds, maxConcurrent, generation,
                     laneOf, taskGeneration, waiterVars>>

\* Faults of resetAllLanes: the preserved entries are not pumped; the generation
\* is not bumped; the queues go too.
ResetWithoutPump ==
  /\ \A l \in Lanes : generation[l] < MaxGeneration
  /\ gatewayDraining' = FALSE
  /\ DrainLanes({}, queue, [l \in Lanes |-> {}], maxConcurrent,
       [l \in Lanes |-> generation[l] + 1], phase)
  /\ UNCHANGED <<laneOf, waiterVars>>
ResetSameGeneration ==
  /\ gatewayDraining' = FALSE
  /\ DrainLanes({l \in Lanes : queue[l] # <<>>}, queue, [l \in Lanes |-> {}],
       maxConcurrent, generation, phase)
  /\ UNCHANGED <<laneOf, waiterVars>>
ResetDroppingQueues ==
  /\ \A l \in Lanes : generation[l] < MaxGeneration
  /\ gatewayDraining' = FALSE
  /\ DrainLanes({}, [l \in Lanes |-> <<>>], [l \in Lanes |-> {}], maxConcurrent,
       [l \in Lanes |-> generation[l] + 1],
       [t \in Tasks |-> IF phase[t] = "queued" THEN "cleared" ELSE phase[t]])
  /\ UNCHANGED <<laneOf, waiterVars>>

\* resetAllLanes: all lanes are reset first, then those with entries drained.
ResetAllLanes ==
  /\ \A l \in Lanes : generation[l] < MaxGeneration
  /\ gatewayDraining' = FALSE
  /\ DrainLanes({l \in Lanes : queue[l] # <<>>}, queue, [l \in Lanes |-> {}],
       maxConcurrent, [l \in Lanes |-> generation[l] + 1], phase)
  /\ UNCHANGED <<laneOf, waiterVars>>

AllActive == UNION {activeTaskIds[l] : l \in Lanes}

\* Fault: one finished task is taken for all of them.
DrainCheckAny(snap) ==
  IF snap = {} \/ ~(snap \subseteq AllActive) THEN {"drained"} ELSE {"waiting", "expired"}

\* One call of `check`: the tasks snap are waited for.  While one of them holds
\* a slot the answer is "expired" once the deadline has passed, which with a
\* timeout of zero is at once, and another poll otherwise.
DrainCheck(snap) ==
  IF snap \cap AllActive = {} THEN {"drained"} ELSE {"waiting", "expired"}

WaitForActiveTasks(w) ==
  /\ waiterState[w] = "idle"
  /\ activeAtStart' = [activeAtStart EXCEPT ![w] = AllActive]
  /\ \E s \in DrainCheck(AllActive) : waiterState' = [waiterState EXCEPT ![w] = s]
  /\ UNCHANGED <<gatewayDraining, laneVars, callVars>>

PollActiveTasks(w) ==
  /\ waiterState[w] = "waiting"
  /\ \E s \in DrainCheck(activeAtStart[w]) :
       waiterState' = [waiterState EXCEPT ![w] = s]
  /\ UNCHANGED <<gatewayDraining, laneVars, callVars, activeAtStart>>

-----------------------------------------------------------------------------
FinishAny(t) == Finish(t, "resolved") \/ Finish(t, "rejected")

TaskNext == \E t \in Tasks : Enqueue(t) \/ FinishAny(t)
LaneNext ==
  \/ \E l \in Lanes, n \in ConcurrencyArgs : SetCommandLaneConcurrency(l, n)
  \/ \E l \in Lanes : ClearCommandLane(l)
  \/ MarkGatewayDraining
  \/ ResetAllLanes
WaiterNext == \E w \in Waiters : WaitForActiveTasks(w) \/ PollActiveTasks(w)

Next == TaskNext \/ LaneNext \/ WaiterNext

Spec == Init /\ [][Next]_vars

-----------------------------------------------------------------------------
(* Properties *)

\* Every variable holds a value of its kind; a lane has at least one slot.
TypeOK ==
  /\ gatewayDraining \in BOOLEAN
  /\ queue \in [Lanes -> Seq(Tasks)]
  /\ activeTaskIds \in [Lanes -> SUBSET Tasks]
  /\ \A l \in Lanes : IsFiniteSet(activeTaskIds[l])
  /\ maxConcurrent \in [Lanes -> Nat \ {0}]
  /\ generation \in [Lanes -> Nat]
  /\ phase \in [Tasks -> Phases]
  /\ laneOf \in [Tasks -> Lanes]
  /\ taskGeneration \in [Tasks -> Nat]
  /\ waiterState \in [Waiters -> {"idle", "waiting", "drained", "expired"}]
  /\ activeAtStart \in [Waiters -> SUBSET Tasks]

\* A lane's queue holds exactly the calls whose promise waits in it, each once:
\* no call is dropped without settling, none is run twice (queue.push, shift
\* and splice against resolve and reject).
QueueAccounting ==
  \A l \in Lanes :
    /\ \A i, j \in 1..Len(queue[l]) : queue[l][i] = queue[l][j] => i = j
    /\ {queue[l][i] : i \in 1..Len(queue[l])}
         = {t \in Tasks : phase[t] = "queued" /\ laneOf[t] = l}

\* A lane's slots are held by exactly the executing calls of its current
\* generation.  A slot nobody gives back would block the lane for good, which
\* is what resetAllLanes exists to repair; a slot given back early would run
\* two agent turns of one session at once.
SlotAccounting ==
  /\ \A l \in Lanes :
       activeTaskIds[l] = {t \in Tasks : /\ phase[t] = "running"
                                         /\ laneOf[t] = l
                                         /\ taskGeneration[t] = generation[l]}
  /\ \A t \in Tasks :
       phase[t] = "running" => taskGeneration[t] <= generation[laneOf[t]]

\* No lost wakeup: a call waits only while its lane's slots are all taken, so
\* preserved work never depends on "a future enqueueCommandInLane() call
\* (which may never come)", after any function and any completion.
WorkConserving ==
  \A l \in Lanes :
    queue[l] # <<>> => Cardinality(activeTaskIds[l]) >= maxConcurrent[l]

\* A waiter records tasks that have started and nothing else, and a "drained"
\* verdict is true and stays true: none of them holds a slot, whatever started
\* after the call.
DrainedVerdict ==
  \A w \in Waiters :
    /\ \A t \in activeAtStart[w] : phase[t] \notin {"absent", "queued"}
    /\ waiterState[w] = "drained" => activeAtStart[w] \cap AllActive = {}

\* A reset starts queued calls or leaves them waiting; it settles nothing
\* ("queued entries are intentionally preserved").
ResetPreservesWork ==
  [][generation' # generation =>
       \A t \in Tasks : /\ phase[t] = "queued" => phase'[t] \in {"queued", "running"}
                        /\ phase[t] = "running" => phase'[t] = "running"]_vars

\* Seen from outside, the lanes are the FIFO servers of module LaneServers: each
\* pump starts calls in order, as many as fit and no more, after every step.
Servers == INSTANCE LaneServers WITH
  Calls <- Tasks, waiting <- queue, working <- activeTaskIds,
  capacity <- maxConcurrent
LanesAreServers == Servers!Spec
=============================================================================
