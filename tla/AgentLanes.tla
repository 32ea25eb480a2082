----------------------------- MODULE AgentLanes -----------------------------
(***************************************************************************)
(* Agent runs on top of the command queue.  One run is a chain of nested   *)
(* calls, each of which awaits the next: a manually triggered cron job     *)
(* holds a slot of lane "cron" (cron/service/ops.ts enqueueRun) while its  *)
(* agent run holds the session's lane (runEmbeddedPiAgent) and, inside it, *)
(* a slot of a global lane, where the turn executes.                       *)
(*                                                                         *)
(* The call inside a session's lane is made synchronously by the task the  *)
(* pump starts, so nothing else happens until it is made; a cron job       *)
(* awaits its store first.                                                 *)
(***************************************************************************)
EXTENDS CommandQueue

CONSTANTS
  Runs,       \* agent runs
  Kind,       \* run -> "cron" or "message"
  SessionLane \* run -> resolveSessionLane of its session key

\* Calls are named by run and level, so that Tasks is the set of both.
ASSUME TasksAssumption == Tasks = Runs \X {"job", "session", "global"}
ASSUME KindAssumption == Kind \in [Runs -> {"cron", "message"}]
\* A session's lane has the prefix "session:", which no other lane has.
SharedLanes == {"main", "cron", "subagent", "nested"}
ASSUME SessionAssumption == SessionLane \in [Runs -> Lanes \ SharedLanes]

\* agents/lanes.ts and pi-embedded-runner/lanes.ts; "" stands for undefined.
ResolveNestedAgentLane(lane) == IF lane \in {"", "cron"} THEN "nested" ELSE lane
ResolveGlobalLane(lane) ==
  IF lane = "cron" THEN "nested" ELSE IF lane = "" THEN "main" ELSE lane

\* Fault: a cron job's run uses the lane its caller holds.
GlobalLaneOfCaller(r) == IF Kind[r] = "cron" THEN "cron" ELSE "main"

\* The lane a run asks for and the global lane it gets.
GlobalLane(r) ==
  ResolveGlobalLane(CASE Kind[r] = "cron" -> ResolveNestedAgentLane("cron")
                      [] Kind[r] = "message" -> "")

LaneOfCall ==
  [t \in Tasks |-> CASE t[2] = "job" -> "cron"
                     [] t[2] = "session" -> SessionLane[t[1]]
                     [] t[2] = "global" -> GlobalLane(t[1])]

Root(r) == IF Kind[r] = "cron" THEN <<r, "job">> ELSE <<r, "session">>
Leaf(r) == <<r, "global">>
InnerOf(t) == IF t[2] = "job" THEN <<t[1], "session">> ELSE <<t[1], "global">>

NestedInit == laneOf = LaneOfCall /\ Init

-----------------------------------------------------------------------------
Submit(r) == Enqueue(Root(r))

\* A running outer call makes its inner call.
Nest(r, level) ==
  /\ phase[<<r, level>>] = "running"
  /\ Enqueue(InnerOf(<<r, level>>))

\* The agent turn ends.  One that fails differs only in the outcome its callers
\* pass on, which a refused or cleared inner call already gives them.
TurnEnds(r) == Finish(Leaf(r), "resolved")

\* Fault: the inner call is not awaited.
ReturnEarly(r, level) ==
  /\ phase[InnerOf(<<r, level>>)] # "absent"
  /\ Finish(<<r, level>>, "resolved")

\* An outer call returns what its inner call gave; a cron job records a failed
\* run and resolves either way.
Return(r, level) ==
  LET inner == InnerOf(<<r, level>>)
  IN  /\ phase[inner] \in Settled
      /\ Finish(<<r, level>>, IF phase[inner] = "resolved" \/ level = "job"
                                THEN "resolved" ELSE "rejected")

\* A configuration (re)load resizes three lanes, one after the other, in one
\* synchronous step (applyGatewayLaneConcurrency); the same size for each here,
\* clamped by setCommandLaneConcurrency.
ApplyGatewayLaneConcurrency(n) ==
  LET sized == {"cron", "main", "subagent"}
      slots == IF n < 1 THEN 1 ELSE n
  IN  /\ DrainLanes(sized, queue, activeTaskIds,
           [l \in Lanes |-> IF l \in sized THEN slots ELSE maxConcurrent[l]],
           generation, phase)
      /\ UNCHANGED <<gatewayDraining, laneOf, waiterVars>>

\* Interrupting or resetting a session clears its lane; restarts drain, reset.
OutsideNext ==
  \/ \E r \in Runs : Submit(r)
  \/ \E r \in Runs : ClearCommandLane(SessionLane[r])
  \/ \E n \in ConcurrencyArgs : ApplyGatewayLaneConcurrency(n)
  \/ MarkGatewayDraining
  \/ ResetAllLanes

\* Turns have a timeout, and an await resumes once its promise has settled: the
\* event loop does not stay idle while one of these is due.  Which one it runs
\* is left open; a run takes finitely many such steps.
RunProgress ==
  \E r \in Runs :
    \/ TurnEnds(r)
    \/ \E level \in {"job", "session"} : Nest(r, level) \/ Return(r, level)

\* A session call has started and is about to make its inner call, still in the
\* callback whose pump started it.
InCallback == \E r \in Runs : /\ phase[<<r, "session">>] = "running"
                             /\ phase[Leaf(r)] = "absent"

NestedNext ==
  \/ InCallback /\ \E r \in Runs : Nest(r, "session")
  \/ ~InCallback /\ RunProgress
  \/ ~InCallback /\ OutsideNext

NestedSpec == NestedInit /\ [][NestedNext]_vars /\ WF_vars(RunProgress)

-----------------------------------------------------------------------------
(* Properties *)

Accepted(t) == phase[t] \notin {"absent", "refused"}

\* No deadlock across lanes: a run that was accepted settles at every level.
\* "Cron jobs hold the cron lane slot; inner operations must use nested to
\* avoid deadlock" (pi-embedded-runner/lanes.ts).
AcceptedRunSettles ==
  \A r \in Runs : Accepted(Root(r)) ~> (phase[Root(r)] \in Settled)

\* "Per-session lanes guarantee that only one agent run touches a given
\* session at a time" (docs/concepts/queue.md), counting the turns that began
\* since the last reset.
CurrentTurn(r) ==
  /\ phase[Leaf(r)] = "running"
  /\ taskGeneration[<<r, "session">>] = generation[SessionLane[r]]

OneTurnPerSession ==
  \A r, s \in Runs :
    /\ CurrentTurn(r) /\ CurrentTurn(s)
    /\ SessionLane[r] = SessionLane[s]
    => r = s

\* A caller's promise never settles before that of the call it awaits, through
\* clears, drains and resets: no turn goes on behind a settled run.
NoOrphanTurn ==
  \A r \in Runs, level \in {"job", "session"} :
    phase[<<r, level>>] \in {"resolved", "rejected"} =>
      phase[InnerOf(<<r, level>>)] \in Settled

\* "Queued entries are intentionally preserved - they represent pending user
\* work that should still execute after restart" (resetAllLanes): a run that
\* waits in its session's lane during a drain never has its turn refused.
WaitingRunSurvivesDrain ==
  \A r \in Runs :
    [](gatewayDraining /\ phase[<<r, "session">>] = "queued"
         => [](phase[Leaf(r)] # "refused"))
=============================================================================
