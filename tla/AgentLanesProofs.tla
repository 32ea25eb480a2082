-------------------------- MODULE AgentLanesProofs --------------------------
(***************************************************************************)
(* Proofs about AgentLanes, for any runs, sessions, lanes and resets.      *)
(* Every action is a function of the command queue or several of them in   *)
(* one step, so the invariant of CommandQueueProofs is kept; to it are     *)
(* added that a session's lane has one slot and one holder (Exclusive) and *)
(* how far each level of a run can be ahead of the next (Chain).           *)
(***************************************************************************)
EXTENDS CommandQueueProofs, AgentLanes

-----------------------------------------------------------------------------
(* The inductive invariant *)

\* Nothing resizes a session's lane, so that one call at a time holds its slot.
Exclusive ==
  \A r \in Runs :
    /\ maxConcurrent[SessionLane[r]] = 1
    /\ \A t, u \in activeTaskIds[SessionLane[r]] : t = u

\* A call is made only by a caller that has begun, and a message has no job.
Begun == {"running", "resolved", "rejected"}
Chain ==
  \A r \in Runs :
    /\ phase[Leaf(r)] # "absent" => phase[<<r, "session">>] \in Begun
    /\ Kind[r] = "cron" /\ phase[<<r, "session">>] # "absent"
         => phase[<<r, "job">>] \in Begun
    /\ Kind[r] = "message" => phase[<<r, "job">>] = "absent"

NestedInv ==
  /\ IInv
  /\ laneOf = LaneOfCall
  /\ Exclusive
  /\ Chain
  /\ NoOrphanTurn

\* The calls of a run are three, and distinct.
LEMMA Calls ==
  ASSUME NEW r \in Runs
  PROVE  /\ \A level \in {"job", "session", "global"} : <<r, level>> \in Tasks
         /\ Leaf(r) = <<r, "global">>
         /\ Root(r) \in {<<r, "job">>, <<r, "session">>}
         /\ InnerOf(<<r, "job">>) = <<r, "session">>
         /\ InnerOf(<<r, "session">>) = <<r, "global">>
BY TasksAssumption DEF Leaf, Root, InnerOf

LEMMA NestedInitInv == NestedInit => NestedInv
<1> SUFFICES ASSUME NestedInit PROVE NestedInv
  OBVIOUS
<1>1. /\ IInv /\ laneOf = LaneOfCall
      /\ maxConcurrent = [l \in Lanes |-> 1]
      /\ activeTaskIds = [l \in Lanes |-> {}]
      /\ phase = [t \in Tasks |-> "absent"]
  BY InitInv DEF NestedInit, Init
<1>2. Exclusive
  BY <1>1, SessionAssumption DEF Exclusive
<1>3. Chain /\ NoOrphanTurn
  BY <1>1, Calls DEF Chain, NoOrphanTurn, Leaf
<1> QED
  BY <1>1, <1>2, <1>3 DEF NestedInv

-----------------------------------------------------------------------------
(* What a step does to one lane and to one call *)

\* A set of calls that may hold one slot at most has one element at most.
LEMMA AtMostOne ==
  ASSUME NEW S, IsFiniteSet(S), Cardinality(S) <= 1, NEW t \in S, NEW u \in S
  PROVE  t = u
<1> SUFFICES ASSUME t # u PROVE FALSE
  OBVIOUS
<1>1. IsFiniteSet({t}) /\ Cardinality({t}) = 1
  BY FS_Singleton
<1>2. IsFiniteSet({t} \cup {u}) /\ Cardinality({t} \cup {u}) = 2
  <2>1. u \notin {t}
    OBVIOUS
  <2> DEFINE T == {t}
  <2> HIDE DEF T
  <2>2. IsFiniteSet(T) /\ Cardinality(T) = 1 /\ u \notin T
    BY <1>1, <2>1 DEF T
  <2>3. IsFiniteSet(T \cup {u}) /\ Cardinality(T \cup {u}) = Cardinality(T) + 1
    BY ONLY <2>2, FS_AddElement
  <2> QED
    BY <2>2, <2>3 DEF T
<1>3. {t} \cup {u} \subseteq S
  OBVIOUS
<1>4. Cardinality({t} \cup {u}) <= Cardinality(S)
  BY <1>3, FS_Subset
<1>5. Cardinality(S) \in Nat
  BY FS_CardinalityType
<1> QED
  BY <1>2, <1>4, <1>5

\* A server with one place serves one call at a time, whatever else happens to it.
LEMMA OnePlace ==
  ASSUME NEW l \in Lanes, Servers!LaneStep(l), maxConcurrent'[l] = 1,
         IsFiniteSet(activeTaskIds'[l]),
         \A t, u \in activeTaskIds[l] : t = u
  PROVE  \A t, u \in activeTaskIds'[l] : t = u
<1>1. CASE Servers!Flush(l) \/ Servers!Idle(l)
  BY <1>1 DEF Servers!Flush, Servers!Idle
<1>2. ASSUME NEW line, NEW busy, busy \subseteq activeTaskIds[l],
             Servers!Admit(l, line, busy, maxConcurrent'[l])
      PROVE  \A t, u \in activeTaskIds'[l] : t = u
  <2>1. PICK n \in 0..Servers!Len(line) :
          /\ activeTaskIds'[l] = busy \cup {line[i] : i \in 1..n}
          /\ n > 0 => Servers!Cardinality(activeTaskIds'[l]) <= maxConcurrent'[l]
    BY <1>2 DEF Servers!Admit
  <2>2. CASE n > 0
    <3>1. Cardinality(activeTaskIds'[l]) <= 1
      BY <2>1, <2>2, SameCardinality
    <3> QED
      BY <3>1, AtMostOne
  <2>3. CASE ~(n > 0)
    <3>1. 1..n = {}
      BY <2>3
    <3>2. activeTaskIds'[l] = busy
      BY <2>1, <3>1
    <3> QED
      BY <3>2, <1>2
  <2> QED
    BY <2>2, <2>3
<1>3. CASE \E t \in Tasks : Servers!Arrive(l, t) \/ Servers!Leave(l, t)
  BY <1>2, <1>3 DEF Servers!Arrive, Servers!Leave, Servers!Admit
<1>4. CASE Servers!Resize(l)
  <2>1. Servers!Admit(l, queue[l], activeTaskIds[l], maxConcurrent'[l])
    BY <1>4 DEF Servers!Resize
  <2> QED
    BY <1>2, <2>1
<1>5. CASE Servers!Restart(l)
  <2>1. /\ Servers!Admit(l, queue[l], {}, maxConcurrent[l])
        /\ maxConcurrent'[l] = maxConcurrent[l]
    BY <1>5 DEF Servers!Restart, Servers!Admit
  <2> DEFINE none == {}
  <2>2. none \subseteq activeTaskIds[l]
    OBVIOUS
  <2>3. Servers!Admit(l, queue[l], none, maxConcurrent'[l])
    BY <2>1
  <2> HIDE DEF none
  <2> QED
    BY <1>2, <2>2, <2>3
<1> QED
  BY <1>1, <1>3, <1>4, <1>5 DEF Servers!LaneStep

\* What a function does to the calls it is not about: it starts or clears those that
\* wait, and settles no other.
Moves(ph, t) ==
  \/ phase'[t] = ph[t]
  \/ ph[t] = "queued" /\ phase'[t] \in {"running", "cleared"}

\* A drain only starts calls that wait.
LEMMA DrainMoves ==
  ASSUME NEW ls, NEW q \in [Lanes -> Seq(Tasks)], NEW act, NEW max \in [Lanes -> Nat \ {0}],
         NEW gen, NEW ph,
         \A l \in Lanes : IsFiniteSet(act[l]),
         \A l \in Lanes : \A i \in 1..Len(q[l]) : ph[q[l][i]] = "queued",
         DrainLanes(ls, q, act, max, gen, ph)
  PROVE  \A t \in Tasks : Moves(ph, t)
<1> SUFFICES ASSUME NEW t \in Tasks, phase'[t] # ph[t]
             PROVE  ph[t] = "queued" /\ phase'[t] = "running"
  BY DEF Moves
<1> DEFINE starts(l) == IF l \in ls THEN PumpStarts(q[l], act[l], max[l]) ELSE {}
<1>1. phase' = [u \in Tasks |-> IF u \in UNION {starts(l) : l \in Lanes}
                                 THEN "running" ELSE ph[u]]
  BY DEF DrainLanes
<1>2. PICK l \in Lanes : t \in PumpStarts(q[l], act[l], max[l])
  BY <1>1
<1>3. PICK i \in 1..PumpCount(q[l], act[l], max[l]) : q[l][i] = t
  BY <1>2 DEF PumpStarts
<1>4. Cardinality(act[l]) \in Nat /\ max[l] \in Nat /\ Len(q[l]) \in Nat
  BY FS_CardinalityType, LenProperties
<1>5. i \in 1..Len(q[l])
  BY <1>3, <1>4 DEF PumpCount
<1> QED
  BY <1>1, <1>3, <1>5

\* What IInv says of the queues, as the lemmas below need it.
LEMMA Waiting ==
  ASSUME IInv
  PROVE  /\ queue \in [Lanes -> Seq(Tasks)]
         /\ maxConcurrent \in [Lanes -> Nat \ {0}]
         /\ phase \in [Tasks -> Phases]
         /\ laneOf \in [Tasks -> Lanes]
         /\ \A l \in Lanes : IsFiniteSet(activeTaskIds[l])
         /\ \A l \in Lanes : \A i \in 1..Len(queue[l]) :
              queue[l][i] \in Tasks /\ phase[queue[l][i]] = "queued"
<1>1. /\ queue \in [Lanes -> Seq(Tasks)]
      /\ maxConcurrent \in [Lanes -> Nat \ {0}]
      /\ phase \in [Tasks -> Phases]
      /\ laneOf \in [Tasks -> Lanes]
      /\ \A l \in Lanes : IsFiniteSet(activeTaskIds[l])
      /\ \A l \in Lanes : {queue[l][i] : i \in 1..Len(queue[l])}
                            = {t \in Tasks : phase[t] = "queued" /\ laneOf[t] = l}
  BY DEF IInv, LaneInv, Consistent
<1> QED
  BY <1>1

\* Each function, in these terms; and none but a resizing touches the slots.
LEMMA EnqueueMoves ==
  ASSUME IInv, NEW t \in Tasks, Enqueue(t)
  PROVE  /\ phase[t] = "absent" /\ phase'[t] \in {"queued", "running", "cleared", "refused"}
         /\ \A u \in Tasks : u # t => Moves(phase, u)
         /\ laneOf' = laneOf /\ maxConcurrent' = maxConcurrent
<1> DEFINE q == [queue EXCEPT ![laneOf[t]] = Append(@, t)]
           ph == [phase EXCEPT ![t] = "queued"]
<1>1. phase[t] = "absent" /\ laneOf' = laneOf /\ maxConcurrent' = maxConcurrent
  BY DEF Enqueue, laneVars, DrainLanes
<1>2. CASE gatewayDraining
  BY <1>1, <1>2, Waiting DEF Enqueue, Moves
<1>3. CASE ~gatewayDraining
  <2>1. DrainLanes({laneOf[t]}, q, activeTaskIds, maxConcurrent, generation, ph)
    BY <1>3 DEF Enqueue
  <2>2. /\ ph \in [Tasks -> Phases] /\ ph[t] = "queued"
        /\ \A u \in Tasks : u # t => ph[u] = phase[u]
    BY Waiting DEF Phases
  <2>3. \A l \in Lanes : q[l] = IF l = laneOf[t] THEN Append(queue[l], t) ELSE queue[l]
    BY Waiting
  <2>4. \A l \in Lanes : q[l] \in Seq(Tasks) /\ \A i \in 1..Len(q[l]) : ph[q[l][i]] = "queued"
    <3> SUFFICES ASSUME NEW l \in Lanes
                 PROVE  q[l] \in Seq(Tasks) /\ \A i \in 1..Len(q[l]) : ph[q[l][i]] = "queued"
      OBVIOUS
    <3> DEFINE s == queue[l]
               r == Append(s, t)
    <3>1. s \in Seq(Tasks) /\ \A i \in 1..Len(s) : ph[s[i]] = "queued"
      BY Waiting, <2>2
    <3> HIDE DEF s
    <3>2. /\ r \in Seq(Tasks) /\ Len(r) = Len(s) + 1 /\ Len(s) \in Nat
          /\ \A i \in 1..Len(s) : r[i] = s[i]
          /\ r[Len(s) + 1] = t
      BY <3>1, AppendProperties, LenProperties
    <3> HIDE DEF r
    <3>3. \A i \in 1..Len(r) : ph[r[i]] = "queued"
      BY <3>1, <3>2, <2>2
    <3> QED
      BY <2>3, <3>1, <3>2, <3>3 DEF s, r
  <2>5. q \in [Lanes -> Seq(Tasks)]
    BY <2>4, Waiting
  <2> HIDE DEF q, ph
  <2> DEFINE ls == {laneOf[t]}
  <2>6. DrainLanes(ls, q, activeTaskIds, maxConcurrent, generation, ph)
    BY <2>1
  <2> HIDE DEF ls
  <2>7. \A u \in Tasks : Moves(ph, u)
    BY <2>4, <2>5, <2>6, Waiting, DrainMoves
  <2> QED
    BY <1>1, <2>2, <2>7 DEF Moves
<1> QED
  BY <1>2, <1>3

LEMMA FinishMoves ==
  ASSUME IInv, NEW t \in Tasks, NEW outcome \in {"resolved", "rejected"}, Finish(t, outcome)
  PROVE  /\ phase[t] = "running" /\ phase'[t] = outcome
         /\ \A u \in Tasks : u # t => Moves(phase, u)
         /\ laneOf' = laneOf /\ maxConcurrent' = maxConcurrent
<1> DEFINE act == [l \in Lanes |-> IF l \in SlotsFreedBy(t) THEN activeTaskIds[l] \ {t}
                                                            ELSE activeTaskIds[l]]
           ph == [phase EXCEPT ![t] = outcome]
           ls == SlotsFreedBy(t)
<1>1. /\ phase[t] = "running" /\ laneOf' = laneOf /\ maxConcurrent' = maxConcurrent
      /\ DrainLanes(ls, queue, act, maxConcurrent, generation, ph)
  BY DEF Finish, DrainLanes
<1>2. ph[t] = outcome /\ \A u \in Tasks : u # t => ph[u] = phase[u]
  BY Waiting
<1>3. \A l \in Lanes : IsFiniteSet(act[l])
  BY Waiting, FS_RemoveElement
<1>4. \A l \in Lanes : \A i \in 1..Len(queue[l]) : ph[queue[l][i]] = "queued"
  BY <1>1, <1>2, Waiting
<1> HIDE DEF act, ph, ls
<1>5. \A u \in Tasks : Moves(ph, u)
  BY <1>1, <1>3, <1>4, Waiting, DrainMoves
<1> QED
  BY <1>1, <1>2, <1>5 DEF Moves

LEMMA ClearMoves ==
  ASSUME IInv, NEW l \in Lanes, ClearCommandLane(l)
  PROVE  (\A t \in Tasks : Moves(phase, t)) /\ laneOf' = laneOf /\ maxConcurrent' = maxConcurrent
<1>1. phase \in [Tasks -> Phases]
  BY Waiting
<1>2. \A t \in Tasks : t \in {queue[l][i] : i \in 1..Len(queue[l])} => phase[t] = "queued"
  BY Waiting
<1> QED
  BY <1>1, <1>2 DEF ClearCommandLane, Moves

LEMMA ResetMoves ==
  ASSUME IInv, ResetAllLanes
  PROVE  (\A t \in Tasks : Moves(phase, t)) /\ laneOf' = laneOf /\ maxConcurrent' = maxConcurrent
<1> DEFINE ls == {l \in Lanes : queue[l] # <<>>}
           act == [l \in Lanes |-> {}]
           gen == [l \in Lanes |-> generation[l] + 1]
<1>1. /\ DrainLanes(ls, queue, act, maxConcurrent, gen, phase)
      /\ laneOf' = laneOf /\ maxConcurrent' = maxConcurrent
  BY DEF ResetAllLanes, DrainLanes
<1>2. \A l \in Lanes : IsFiniteSet(act[l])
  BY FS_EmptySet
<1> HIDE DEF ls, act, gen
<1> QED
  BY <1>1, <1>2, Waiting, DrainMoves

\* Resizing three lanes at once: every lane keeps at least one slot, and the ones
\* that are pumped take calls in as far as their new sizes allow.
LEMMA ApplyStep ==
  ASSUME IInv, NEW n \in ConcurrencyArgs, ApplyGatewayLaneConcurrency(n)
  PROVE  /\ Good /\ laneOf' = laneOf
         /\ \A t \in Tasks : Moves(phase, t)
         /\ \A r \in Runs : maxConcurrent'[SessionLane[r]] = maxConcurrent[SessionLane[r]]
<1> DEFINE ls == {"cron", "main", "subagent"}
           slots == IF n < 1 THEN 1 ELSE n
           max == [l \in Lanes |-> IF l \in ls THEN slots ELSE maxConcurrent[l]]
           sized == ls \cap Lanes
<1>1. /\ laneOf' = laneOf /\ UNCHANGED waiterVars /\ gatewayDraining' \in BOOLEAN
      /\ Consistent(queue, activeTaskIds, maxConcurrent, generation, phase, laneOf,
                    taskGeneration)
      /\ Busy(Lanes, queue, activeTaskIds, maxConcurrent)
      /\ DrainLanes(ls, queue, activeTaskIds, max, generation, phase)
  BY DEF ApplyGatewayLaneConcurrency, IInv, LaneInv
<1>2. maxConcurrent \in [Lanes -> Nat \ {0}]
  BY Waiting
<1>3. /\ max \in [Lanes -> Nat \ {0}]
      /\ \A l \in Lanes : l \notin ls => max[l] = maxConcurrent[l]
      /\ \A r \in Runs : SessionLane[r] \in Lanes /\ SessionLane[r] \notin ls
  BY <1>2, ConcurrencyAssumption, SessionAssumption DEF SharedLanes
<1>4. DrainLanes(sized, queue, activeTaskIds, max, generation, phase)
  <2>1. \A l \in Lanes : l \in ls <=> l \in sized
    OBVIOUS
  <2> HIDE DEF ls, sized, max
  <2>2. [l \in Lanes |-> IF l \in ls THEN PumpLeaves(queue[l], activeTaskIds[l], max[l])
                                     ELSE queue[l]]
          = [l \in Lanes |-> IF l \in sized THEN PumpLeaves(queue[l], activeTaskIds[l], max[l])
                                            ELSE queue[l]]
    BY <2>1
  <2>3. \A l \in Lanes : (IF l \in ls THEN PumpStarts(queue[l], activeTaskIds[l], max[l]) ELSE {})
          = (IF l \in sized THEN PumpStarts(queue[l], activeTaskIds[l], max[l]) ELSE {})
    BY <2>1
  <2> DEFINE f(l) == IF l \in ls THEN PumpStarts(queue[l], activeTaskIds[l], max[l]) ELSE {}
             g(l) == IF l \in sized THEN PumpStarts(queue[l], activeTaskIds[l], max[l]) ELSE {}
  <2>4. \A l \in Lanes : f(l) = g(l)
    BY <2>3
  <2>5. UNION {f(l) : l \in Lanes} = UNION {g(l) : l \in Lanes}
    BY <2>4
  <2>6. [l \in Lanes |-> activeTaskIds[l] \cup f(l)] = [l \in Lanes |-> activeTaskIds[l] \cup g(l)]
    BY <2>4
  <2> QED
    BY <1>1, <2>2, <2>5, <2>6 DEF DrainLanes
<1>5. sized \in SUBSET Lanes /\ \A l \in Lanes : l \notin sized => l \notin ls
  OBVIOUS
<1>6. maxConcurrent' = max
  BY <1>4 DEF DrainLanes
<1> HIDE DEF ls, sized, max
<1>7. Consistent(queue, activeTaskIds, max, generation, phase, laneOf, taskGeneration)
  BY <1>1, <1>3 DEF Consistent
<1>8. Busy(Lanes \ sized, queue, activeTaskIds, max)
  BY <1>1, <1>3, <1>5 DEF Busy
<1>9. \A l \in Lanes : Servers!Admit(l, queue[l], activeTaskIds[l], max[l]) /\ l \in sized
                        => Servers!LaneStep(l)
  <2> SUFFICES ASSUME NEW l \in Lanes, Servers!Admit(l, queue[l], activeTaskIds[l], max[l])
               PROVE  Servers!LaneStep(l)
    OBVIOUS
  <2>1. maxConcurrent'[l] = max[l] /\ max[l] \in Nat \ {0}
    BY <1>3, <1>6
  <2>2. Servers!Resize(l)
    BY <2>1 DEF Servers!Resize
  <2> QED
    BY <2>2 DEF Servers!LaneStep
<1>10. \A l \in Lanes : l \notin sized => /\ queue[l] = queue[l]
                                          /\ activeTaskIds[l] = activeTaskIds[l]
                                          /\ max[l] = maxConcurrent[l]
  BY <1>3, <1>5
<1>11. Good
  BY <1>1, <1>4, <1>5, <1>7, <1>8, <1>9, <1>10, DrainGood
<1>12. \A t \in Tasks : Moves(phase, t)
  <2>1. /\ max \in [Lanes -> Nat \ {0}]
        /\ queue \in [Lanes -> Seq(Tasks)]
        /\ \A l \in Lanes : IsFiniteSet(activeTaskIds[l])
        /\ \A l \in Lanes : \A i \in 1..Len(queue[l]) : phase[queue[l][i]] = "queued"
    BY <1>3, Waiting
  <2> QED
    BY ONLY <2>1, <1>4, DrainMoves
<1> QED
  BY <1>1, <1>3, <1>6, <1>11, <1>12

-----------------------------------------------------------------------------
(* The invariant, part by part *)

\* A step that is good for the queue and resizes no session's lane.
LEMMA KeepsExclusive ==
  ASSUME NestedInv, Good, laneOf' = laneOf,
         \A r \in Runs : maxConcurrent'[SessionLane[r]] = maxConcurrent[SessionLane[r]]
  PROVE  IInv' /\ laneOf' = LaneOfCall' /\ Exclusive'
<1>1. IInv' /\ laneOf' = LaneOfCall'
  <2>1. LaneOfCall' = LaneOfCall
    BY DEF LaneOfCall, GlobalLane
  <2> QED
    BY <2>1 DEF NestedInv, Good
<1>2. ASSUME NEW r \in Runs
      PROVE  \A t, u \in activeTaskIds'[SessionLane[r]] : t = u
  <2> DEFINE l == SessionLane[r]
  <2>1. /\ l \in Lanes /\ maxConcurrent'[l] = 1
        /\ \A t, u \in activeTaskIds[l] : t = u
    BY SessionAssumption DEF NestedInv, Exclusive
  <2>2. IsFiniteSet(activeTaskIds'[l])
    BY <1>1, <2>1 DEF IInv, LaneInv, Consistent
  <2>3. CASE Servers!Next
    BY <2>1, <2>2, <2>3, OnePlace DEF Servers!Next
  <2>4. CASE UNCHANGED Servers!vars
    BY <2>1, <2>4 DEF Servers!vars
  <2> QED
    BY <2>3, <2>4 DEF Good
<1> QED
  BY <1>1, <1>2 DEF NestedInv, Exclusive

\* A function that makes no call and settles none that runs: what has begun or settled
\* stays so, what has not been made stays so.
LEMMA StillCall ==
  ASSUME NEW t \in Tasks, Moves(phase, t)
  PROVE  /\ (phase'[t] = "absent") <=> (phase[t] = "absent")
         /\ phase[t] \in Begun => phase'[t] \in Begun
         /\ phase[t] \in Settled => phase'[t] = phase[t]
         /\ phase'[t] \in {"resolved", "rejected"} => phase[t] = phase'[t]
BY DEF Moves, Begun, Settled

LEMMA KeptChain ==
  ASSUME Chain, \A t \in Tasks : /\ (phase'[t] = "absent") <=> (phase[t] = "absent")
                                 /\ phase[t] \in Begun => phase'[t] \in Begun
  PROVE  Chain'
<1> SUFFICES ASSUME NEW r \in Runs
             PROVE  /\ phase'[Leaf(r)] # "absent" => phase'[<<r, "session">>] \in Begun
                    /\ Kind[r] = "cron" /\ phase'[<<r, "session">>] # "absent"
                         => phase'[<<r, "job">>] \in Begun
                    /\ Kind[r] = "message" => phase'[<<r, "job">>] = "absent"
  BY DEF Chain, Leaf, Begun
<1>1. <<r, "job">> \in Tasks /\ <<r, "session">> \in Tasks /\ Leaf(r) \in Tasks
  BY Calls
<1>2. /\ phase[Leaf(r)] # "absent" => phase[<<r, "session">>] \in Begun
      /\ Kind[r] = "cron" /\ phase[<<r, "session">>] # "absent"
           => phase[<<r, "job">>] \in Begun
      /\ Kind[r] = "message" => phase[<<r, "job">>] = "absent"
  BY DEF Chain
<1> QED
  BY <1>1, <1>2

LEMMA StillChain ==
  ASSUME NestedInv, \A t \in Tasks : Moves(phase, t)
  PROVE  Chain' /\ NoOrphanTurn'
<1>1. Chain /\ NoOrphanTurn
  BY DEF NestedInv
<1>2. Chain'
  BY <1>1, StillCall, KeptChain
<1>3. NoOrphanTurn'
  <2> SUFFICES ASSUME NEW r \in Runs, NEW level \in {"job", "session"},
                      phase'[<<r, level>>] \in {"resolved", "rejected"}
               PROVE  phase'[InnerOf(<<r, level>>)] \in Settled
    BY DEF NoOrphanTurn
  <2>1. <<r, level>> \in Tasks /\ InnerOf(<<r, level>>) \in Tasks
    BY Calls
  <2> QED
    BY <1>1, <2>1, StillCall DEF NoOrphanTurn
<1> QED
  BY <1>2, <1>3

\* A call made by its caller, which runs, or by nobody.
LEMMA EnqueueChain ==
  ASSUME NestedInv, NEW r \in Runs, NEW t \in {<<r, "job">>, <<r, "session">>, <<r, "global">>},
         phase[t] = "absent", phase'[t] \in {"queued", "running", "cleared", "refused"},
         t = <<r, "job">> => Kind[r] = "cron",
         t = <<r, "session">> /\ Kind[r] = "cron" => phase[<<r, "job">>] = "running",
         t = <<r, "global">> => phase[<<r, "session">>] = "running",
         \A u \in Tasks : u # t => Moves(phase, u)
  PROVE  Chain' /\ NoOrphanTurn'
<1>1. Chain /\ NoOrphanTurn
  BY DEF NestedInv
<1>2. ASSUME NEW s \in Runs
      PROVE  /\ phase'[Leaf(s)] # "absent" => phase'[<<s, "session">>] \in Begun
             /\ Kind[s] = "cron" /\ phase'[<<s, "session">>] # "absent"
                  => phase'[<<s, "job">>] \in Begun
             /\ Kind[s] = "message" => phase'[<<s, "job">>] = "absent"
  <2> DEFINE j == <<s, "job">>
             m == <<s, "session">>
             g == <<s, "global">>
  <2>1. j \in Tasks /\ m \in Tasks /\ g \in Tasks /\ Leaf(s) = g /\ j # m /\ m # g /\ j # g
    BY Calls
  <2>2. /\ phase[g] # "absent" => phase[m] \in Begun
        /\ Kind[s] = "cron" /\ phase[m] # "absent" => phase[j] \in Begun
        /\ Kind[s] = "message" => phase[j] = "absent"
    BY <1>1, <2>1 DEF Chain
  <2>3. CASE t \notin {j, m, g}
    BY <2>1, <2>2, <2>3, StillCall
  <2>4. CASE t \in {j, m, g}
    <3>1. s = r
      BY <2>4
    <3>2. "absent" \notin Begun /\ "running" \in Begun
      BY DEF Begun
    <3>3. \A u \in {j, m, g} : u # t =>
            /\ (phase'[u] = "absent") <=> (phase[u] = "absent")
            /\ phase[u] \in Begun => phase'[u] \in Begun
      BY <2>1, StillCall
    <3>4. CASE t = j
      BY <3>1, <3>2, <3>3, <3>4, <2>1, <2>2, KindAssumption
    <3>5. CASE t = m
      BY <3>1, <3>2, <3>3, <3>5, <2>1, <2>2
    <3>6. CASE t = g
      BY <3>1, <3>2, <3>3, <3>6, <2>1, <2>2
    <3> QED
      BY <2>4, <3>4, <3>5, <3>6
  <2> QED
    BY <2>3, <2>4
<1>3. NoOrphanTurn'
  <2> SUFFICES ASSUME NEW s \in Runs, NEW level \in {"job", "session"},
                      phase'[<<s, level>>] \in {"resolved", "rejected"}
               PROVE  phase'[InnerOf(<<s, level>>)] \in Settled
    BY DEF NoOrphanTurn
  <2>1. <<s, level>> \in Tasks /\ InnerOf(<<s, level>>) \in Tasks /\ <<s, level>> # t
    BY Calls
  <2>2. phase[<<s, level>>] \in {"resolved", "rejected"}
    BY <2>1, StillCall
  <2>3. phase[InnerOf(<<s, level>>)] \in Settled /\ InnerOf(<<s, level>>) # t
    BY <1>1, <2>2 DEF NoOrphanTurn, Settled
  <2> QED
    BY <2>1, <2>3, StillCall
<1> QED
  BY <1>2, <1>3 DEF Chain

\* A call returns when the one it awaits has settled.
LEMMA FinishChain ==
  ASSUME NestedInv, NEW r \in Runs, NEW t \in {<<r, "job">>, <<r, "session">>, <<r, "global">>},
         phase[t] = "running", phase'[t] \in {"resolved", "rejected"},
         t # Leaf(r) => phase[InnerOf(t)] \in Settled,
         \A u \in Tasks : u # t => Moves(phase, u)
  PROVE  Chain' /\ NoOrphanTurn'
<1>1. Chain /\ NoOrphanTurn
  BY DEF NestedInv
<1>2. \A u \in Tasks : /\ (phase'[u] = "absent") <=> (phase[u] = "absent")
                       /\ phase[u] \in Begun => phase'[u] \in Begun
  BY StillCall DEF Begun
<1>3. Chain'
  BY <1>1, <1>2, KeptChain
<1>4. NoOrphanTurn'
  <2> SUFFICES ASSUME NEW s \in Runs, NEW level \in {"job", "session"},
                      phase'[<<s, level>>] \in {"resolved", "rejected"}
               PROVE  phase'[InnerOf(<<s, level>>)] \in Settled
    BY DEF NoOrphanTurn
  <2>1. <<s, level>> \in Tasks /\ InnerOf(<<s, level>>) \in Tasks /\ <<s, level>> # Leaf(s)
    BY Calls DEF Leaf
  <2>2. phase[InnerOf(<<s, level>>)] \in Settled
    <3>1. CASE <<s, level>> = t
      BY <3>1, <2>1 DEF Leaf
    <3>2. CASE <<s, level>> # t
      <4>1. phase[<<s, level>>] \in {"resolved", "rejected"}
        BY <3>2, <2>1, StillCall
      <4> QED
        BY <1>1, <4>1 DEF NoOrphanTurn
    <3> QED
      BY <3>1, <3>2
  <2>3. InnerOf(<<s, level>>) # t
    BY <2>2 DEF Settled
  <2> QED
    BY <2>1, <2>2, <2>3, StillCall
<1> QED
  BY <1>3, <1>4

-----------------------------------------------------------------------------
(* The steps *)

\* A step of the queue that keeps the parts keeps the invariant.
LEMMA Parts ==
  ASSUME NestedInv, Good, laneOf' = laneOf, maxConcurrent' = maxConcurrent,
         Chain', NoOrphanTurn'
  PROVE  NestedInv' /\ Good
BY KeepsExclusive DEF NestedInv

LEMMA SubmitStep ==
  ASSUME NestedInv, NEW r \in Runs, Submit(r)
  PROVE  NestedInv' /\ Good
<1>1. Root(r) \in Tasks /\ Enqueue(Root(r))
  BY Calls DEF Submit
<1>2. /\ Good
      /\ phase[Root(r)] = "absent"
      /\ phase'[Root(r)] \in {"queued", "running", "cleared", "refused"}
      /\ \A u \in Tasks : u # Root(r) => Moves(phase, u)
      /\ laneOf' = laneOf /\ maxConcurrent' = maxConcurrent
  BY <1>1, EnqueueStep, EnqueueMoves DEF NestedInv
<1>3. Root(r) = IF Kind[r] = "cron" THEN <<r, "job">> ELSE <<r, "session">>
  BY DEF Root
<1>4. Chain' /\ NoOrphanTurn'
  BY <1>2, <1>3, EnqueueChain
<1> QED
  BY <1>2, <1>4, Parts

LEMMA NestStep ==
  ASSUME NestedInv, NEW r \in Runs, NEW level \in {"job", "session"}, Nest(r, level)
  PROVE  NestedInv' /\ Good
<1> DEFINE t == InnerOf(<<r, level>>)
<1>1. t \in Tasks /\ Enqueue(t) /\ phase[<<r, level>>] = "running"
  BY Calls DEF Nest
<1>2. \/ level = "job" /\ t = <<r, "session">>
      \/ level = "session" /\ t = <<r, "global">>
  BY Calls
<1> HIDE DEF t
<1>3. /\ Good
      /\ phase[t] = "absent"
      /\ phase'[t] \in {"queued", "running", "cleared", "refused"}
      /\ \A u \in Tasks : u # t => Moves(phase, u)
      /\ laneOf' = laneOf /\ maxConcurrent' = maxConcurrent
  BY <1>1, EnqueueStep, EnqueueMoves DEF NestedInv
<1>4. Chain' /\ NoOrphanTurn'
  BY <1>1, <1>2, <1>3, EnqueueChain
<1> QED
  BY <1>3, <1>4, Parts

LEMMA SettleStep ==
  ASSUME NestedInv, NEW r \in Runs, NEW t \in {<<r, "job">>, <<r, "session">>, <<r, "global">>},
         NEW outcome \in {"resolved", "rejected"}, Finish(t, outcome),
         t # Leaf(r) => phase[InnerOf(t)] \in Settled
  PROVE  NestedInv' /\ Good
<1>1. t \in Tasks
  BY Calls
<1>2. /\ Good
      /\ phase[t] = "running" /\ phase'[t] = outcome
      /\ \A u \in Tasks : u # t => Moves(phase, u)
      /\ laneOf' = laneOf /\ maxConcurrent' = maxConcurrent
  BY <1>1, FinishStep, FinishMoves DEF NestedInv
<1>3. Chain' /\ NoOrphanTurn'
  BY <1>2, FinishChain
<1> QED
  BY <1>2, <1>3, Parts

LEMMA ProgressStep ==
  ASSUME NestedInv, RunProgress
  PROVE  NestedInv' /\ Good
<1>1. ASSUME NEW r \in Runs, TurnEnds(r)
      PROVE  NestedInv' /\ Good
  <2>1. Leaf(r) = <<r, "global">> /\ Finish(<<r, "global">>, "resolved")
    BY <1>1 DEF TurnEnds, Leaf
  <2> QED
    BY <2>1, SettleStep
<1>2. ASSUME NEW r \in Runs, NEW level \in {"job", "session"}, Return(r, level)
      PROVE  NestedInv' /\ Good
  <2>1. PICK outcome \in {"resolved", "rejected"} : Finish(<<r, level>>, outcome)
    BY <1>2 DEF Return
  <2>2. phase[InnerOf(<<r, level>>)] \in Settled
    BY <1>2 DEF Return
  <2>3. <<r, level>> \in {<<r, "job">>, <<r, "session">>, <<r, "global">>}
    OBVIOUS
  <2> QED
    BY <2>1, <2>2, <2>3, SettleStep
<1> QED
  BY <1>1, <1>2, NestStep DEF RunProgress

LEMMA OutsideStep ==
  ASSUME NestedInv, OutsideNext
  PROVE  NestedInv' /\ Good
<1> USE DEF NestedInv
<1>1. ASSUME NEW l \in Lanes, ClearCommandLane(l)
      PROVE  NestedInv' /\ Good
  <2>1. /\ Good /\ laneOf' = laneOf /\ maxConcurrent' = maxConcurrent
        /\ \A t \in Tasks : Moves(phase, t)
    BY <1>1, ClearStep, ClearMoves
  <2> QED
    BY <2>1, StillChain, Parts
<1>2. ASSUME NEW n \in ConcurrencyArgs, ApplyGatewayLaneConcurrency(n)
      PROVE  NestedInv' /\ Good
  <2>1. /\ Good /\ laneOf' = laneOf
        /\ \A t \in Tasks : Moves(phase, t)
        /\ \A r \in Runs : maxConcurrent'[SessionLane[r]] = maxConcurrent[SessionLane[r]]
    BY <1>2, ApplyStep
  <2>2. IInv' /\ laneOf' = LaneOfCall' /\ Exclusive'
    BY <2>1, KeepsExclusive
  <2> QED
    BY <2>1, <2>2, StillChain
<1>3. CASE MarkGatewayDraining
  <2>1. /\ Good /\ laneOf' = laneOf /\ maxConcurrent' = maxConcurrent
        /\ \A t \in Tasks : Moves(phase, t)
    BY <1>3, MarkDrainingStep DEF MarkGatewayDraining, laneVars, callVars, Moves
  <2> QED
    BY <2>1, StillChain, Parts
<1>4. CASE ResetAllLanes
  <2>1. /\ Good /\ laneOf' = laneOf /\ maxConcurrent' = maxConcurrent
        /\ \A t \in Tasks : Moves(phase, t)
    BY <1>4, ResetStep, ResetMoves
  <2> QED
    BY <2>1, StillChain, Parts
<1> QED
  BY <1>1, <1>2, <1>3, <1>4, SubmitStep, SessionAssumption DEF OutsideNext

LEMMA NestedNextInv ==
  ASSUME NestedInv, [NestedNext]_vars
  PROVE  NestedInv' /\ [Servers!Next]_Servers!vars
<1>1. CASE NestedNext
  <2>1. NestedInv' /\ Good
    BY <1>1, NestStep, ProgressStep, OutsideStep DEF NestedNext
  <2> QED
    BY <2>1 DEF Good
<1>2. CASE UNCHANGED vars
  <2>1. Good
    BY <1>2, NextStep DEF NestedInv
  <2>2. /\ laneOf' = laneOf /\ maxConcurrent' = maxConcurrent
        /\ \A t \in Tasks : Moves(phase, t)
    BY <1>2 DEF vars, laneVars, callVars, Moves
  <2> QED
    BY <2>1, <2>2, StillChain, Parts DEF Good
<1> QED
  BY <1>1, <1>2

-----------------------------------------------------------------------------
(* The theorems *)

\* The inductive invariant: nested runs keep it with every step.
THEOREM NestedInvariance == NestedSpec => []NestedInv
<1>1. NestedInv /\ [NestedNext]_vars => NestedInv'
  BY NestedNextInv
<1> QED
  BY NestedInitInv, <1>1, PTL DEF NestedSpec

\* No caller settles before the call it awaits, through clears, drains and resets, for
\* any number of runs: NoOrphanTurn.
THEOREM CallersOutliveCalls == NestedSpec => []NoOrphanTurn
<1>1. NestedInv => NoOrphanTurn
  BY DEF NestedInv
<1> QED
  BY NestedInvariance, <1>1, PTL

\* One agent turn at a time touches a session, whatever the sizes of the shared lanes and
\* however often the lanes are reset: OneTurnPerSession.  The turn's session call is still
\* running (NoOrphanTurn), so it holds the only slot of the session's lane.
THEOREM SessionsAreSerial == NestedSpec => []OneTurnPerSession
<1>1. ASSUME NestedInv PROVE OneTurnPerSession
  <2> SUFFICES ASSUME NEW r \in Runs, NEW s \in Runs, CurrentTurn(r), CurrentTurn(s),
                      SessionLane[r] = SessionLane[s]
               PROVE  r = s
    BY DEF OneTurnPerSession
  <2>1. ASSUME NEW x \in Runs, CurrentTurn(x)
        PROVE  <<x, "session">> \in activeTaskIds[SessionLane[x]]
    <3>1. phase[<<x, "session">>] \in Begun
      BY <1>1, <2>1, Calls DEF CurrentTurn, NestedInv, Chain
    <3>2. phase[<<x, "session">>] \notin {"resolved", "rejected"}
      <4>1. phase[InnerOf(<<x, "session">>)] \notin Settled
        BY <2>1, Calls DEF CurrentTurn, Settled
      <4> QED
        BY <1>1, <4>1 DEF NestedInv, NoOrphanTurn
    <3>3. <<x, "session">> \in Tasks /\ laneOf[<<x, "session">>] = SessionLane[x]
      BY <1>1, Calls DEF NestedInv, LaneOfCall
    <3>4. SessionLane[x] \in Lanes
      BY SessionAssumption
    <3>5. activeTaskIds[SessionLane[x]]
            = {t \in Tasks : /\ phase[t] = "running"
                             /\ laneOf[t] = SessionLane[x]
                             /\ taskGeneration[t] = generation[SessionLane[x]]}
      BY <1>1, <3>4 DEF NestedInv, IInv, LaneInv, Consistent
    <3> QED
      BY <2>1, <3>1, <3>2, <3>3, <3>5 DEF CurrentTurn, Begun
  <2>2. <<r, "session">> = <<s, "session">>
    BY <1>1, <2>1 DEF NestedInv, Exclusive
  <2> QED
    BY <2>2
<1>2. NestedInv => OneTurnPerSession
  BY <1>1
<1> QED
  BY NestedInvariance, <1>2, PTL

\* Under nested runs too, every lane is a FIFO server: LanesAreServers.
THEOREM NestedRefinement == NestedSpec => LanesAreServers
<1>1. NestedInit => Servers!Init
  BY DEF NestedInit, Init, Servers!Init
<1>2. NestedInv /\ [NestedNext]_vars => [Servers!Next]_Servers!vars
  BY NestedNextInv
<1> QED
  BY NestedInvariance, <1>1, <1>2, PTL DEF NestedSpec, LanesAreServers, Servers!Spec
=============================================================================
