---------------------------- MODULE FollowupQueue ----------------------------
(***************************************************************************)
(* The followup queue of one session (auto-reply/reply/queue/*.ts and      *)
(* utils/queue-helpers.ts): messages that arrive while the session's agent *)
(* runs are kept in an in-memory queue, and a drain loop feeds them to the *)
(* agent as later turns, one by one or as a batch.                         *)
(*                                                                         *)
(* The code between two awaits is one step.  A drain loop awaits in two    *)
(* places: the debounce, whose length is left open, and the turn.  It      *)
(* holds its queue OBJECT, while everybody else finds the queue through    *)
(* the registry FOLLOWUP_QUEUES, so a queue that was cleared and its       *)
(* successor can live side by side: queues are objects, `registered` is    *)
(* the one the session key maps to.                                        *)
(*                                                                         *)
(* Messages enter the way runReplyAgent sends them: dedupe by message id,  *)
(* no restart of an idle drain, then a look at whether a run is active.    *)
(* The text of a message is left out; a summary is the set of messages it  *)
(* counts.  A redelivery comes within the time the dedupe cache remembers. *)
(***************************************************************************)
EXTENDS Integers, Sequences, FiniteSets

CONSTANTS
  Messages,
  Routes,       \* message -> the destination its reply goes to
  Unroutable,   \* the destination no reply can be routed to
  Settings,     \* the settings messages arrive with: [mode, cap, dropPolicy]
  Queues,       \* bound: queue objects alive at once
  None,         \* no queue
  MaxFailures   \* bound: turns that throw

ASSUME RoutesAssumption == DOMAIN Routes = Messages
ASSUME NoneAssumption == None \notin Queues
ASSUME SettingsAssumption ==
  Settings # {} /\ \A s \in Settings : s.cap \in Nat \ {0}

VARIABLES
  queues,       \* queue object -> its record
  registered,   \* FOLLOWUP_QUEUES.get(key)
  agentRun,     \* the session's direct run: "active", "ended", "none"
  recent,       \* message ids in RECENT_QUEUE_MESSAGE_IDS
  failures,
  \* What became of the messages; the code keeps none of this.
  accepted,     \* messages enqueueFollowupRun returned true for, in order
  handed,       \* those given to a turn, and those whose turn was completed
  ran,
  announced,    \* those a completed turn mentioned as dropped
  cleared,      \* those removed by clearSessionQueues
  overflowed,   \* a full queue dropped something
  clearedMidDrain  \* the queue was cleared under a running drain loop

registry == <<queues, registered>>
fates == <<accepted, handed, ran, announced, cleared, overflowed, clearedMidDrain>>
vars == <<registry, agentRun, recent, failures, fates>>

\* `step`, `turn`, `noted` and `forced` belong to the loop that drains it: where
\* it is, the messages and the dropped ones in the prompt, collectState.
NewQueue(s) ==
  [items |-> <<>>, dropped |-> {}, lastRun |-> FALSE, draining |-> FALSE,
   mode |-> s.mode, cap |-> s.cap, dropPolicy |-> s.dropPolicy,
   step |-> "none", turn |-> <<>>, noted |-> {}, forced |-> FALSE]

Blank == NewQueue(CHOOSE s \in Settings : TRUE)

Init ==
  /\ queues = [q \in Queues |-> Blank]
  /\ registered = None
  /\ agentRun = "active"
  /\ recent = {} /\ failures = 0
  /\ accepted = <<>> /\ handed = {} /\ ran = {} /\ announced = {} /\ cleared = {}
  /\ overflowed = FALSE /\ clearedMidDrain = FALSE

-----------------------------------------------------------------------------
Elems(s) == {s[i] : i \in 1..Len(s)}
Work(q) == q.items # <<>> \/ q.dropped # {}
InTurn(q) == q.step \in {"item", "collect", "summary"}

\* An object nobody refers to any more stands for the next queue that is made.
Unused == {q \in Queues :
             q # registered /\ ~queues[q].draining /\ ~Work(queues[q])}
Found == IF registered # None THEN {registered}
         ELSE IF Unused # {} THEN {CHOOSE q \in Unused : TRUE} ELSE {}

\* hasCrossChannelItems: more than one destination (having none counts as one),
\* or one that is no destination.
CrossChannel(items) ==
  LET targets == {Routes[m] : m \in Elems(items)}
  IN  Unroutable \in targets \/ Cardinality(targets) > 1

\* buildQueueSummaryPrompt returns something.
HasSummary(q) == q.dropPolicy = "summarize" /\ q.dropped # {}

\* The registry (a pair: the objects, the registered one) after a call of
\* scheduleFollowupDrain.  A loop that finds no work ends where it starts, and
\* deletes the queue.
Schedule(qs, reg) ==
  IF reg = None THEN <<qs, reg>>
  ELSE IF qs[reg].draining THEN <<qs, reg>>
  ELSE IF Work(qs[reg])
    THEN <<[qs EXCEPT ![reg].draining = TRUE, ![reg].step = "debounce",
                      ![reg].forced = FALSE], reg>>
    ELSE <<[qs EXCEPT ![reg] = Blank], None>>

Becomes(r) == queues' = r[1] /\ registered' = r[2]

\* Faults of the end of a loop: the flag stays up; the rest is left behind.
EndDrainFlagged(qs, reg, q) ==
  IF Work(qs[q]) THEN Schedule(qs, reg)
  ELSE <<[qs EXCEPT ![q].step = "none", ![q].turn = <<>>, ![q].noted = {}], None>>
EndDrainNoRestart(qs, reg, q) ==
  LET idle == [qs EXCEPT ![q].draining = FALSE, ![q].step = "none",
                         ![q].turn = <<>>, ![q].noted = {}]
  IN  IF Work(qs[q]) THEN <<idle, reg>>
      ELSE <<[qs EXCEPT ![q] = Blank], None>>

\* The `finally` of the loop on q: whatever the key maps to by now is deleted
\* when q is empty, and drained when it is not.
EndDrain(qs, reg, q) ==
  LET idle == [qs EXCEPT ![q].draining = FALSE, ![q].step = "none",
                         ![q].turn = <<>>, ![q].noted = {}]
  IN  IF Work(qs[q]) THEN Schedule(idle, reg)
      ELSE <<[qs EXCEPT ![q] = Blank], None>>

\* The `while` condition of the loop on q.
Continue(qs, reg, q) ==
  IF Work(qs[q])
    THEN <<[qs EXCEPT ![q].step = "debounce", ![q].turn = <<>>, ![q].noted = {}],
           reg>>
    ELSE EndDrain(qs, reg, q)

-----------------------------------------------------------------------------
\* applyQueueDropPolicy on a queue whose dropPolicy is not "new": the items that
\* stay and those that go.
Kept(q) == IF Len(q.items) < q.cap THEN q.items
           ELSE SubSeq(q.items, Len(q.items) - q.cap + 2, Len(q.items))
Dropped(q) == Elems(q.items) \ Elems(Kept(q))

\* isRunActive() as the inbound path sees it: a followup turn counts only while
\* it is inside the embedded runner.
RunActive ==
  IF agentRun = "active" THEN {TRUE}
  ELSE IF \E q \in Queues : InTurn(queues[q]) THEN BOOLEAN ELSE {FALSE}

\* RECENT_QUEUE_MESSAGE_IDS.peek and isRunAlreadyQueued.
Duplicate(m, q) == m \in recent \cup Elems(q.items)

\* enqueueFollowupRun and the recheck after it in runReplyAgent.  The caller
\* found a run active some time ago.
Enqueue(m, s) ==
  \E q \in Found,
     active \in RunActive :
    LET found == IF registered = None THEN NewQueue(s)
                 ELSE [queues[q] EXCEPT !.mode = s.mode, !.cap = s.cap,
                                        !.dropPolicy = s.dropPolicy]
        full == Len(found.items) >= found.cap
        refused == Duplicate(m, found) \/ (full /\ found.dropPolicy = "new")
        stored ==
          IF Duplicate(m, found) THEN found
          ELSE IF refused THEN [found EXCEPT !.lastRun = TRUE]
          ELSE [found EXCEPT
                  !.lastRun = TRUE, !.items = Append(Kept(found), m),
                  !.dropped = @ \cup (IF found.dropPolicy = "summarize"
                                        THEN Dropped(found) ELSE {})]
        after == [queues EXCEPT ![q] = stored]
    IN  /\ Becomes(IF active THEN <<after, q>> ELSE Schedule(after, q))
        /\ recent' = IF refused THEN recent ELSE recent \cup {m}
        /\ accepted' = IF refused THEN accepted ELSE Append(accepted, m)
        /\ overflowed' = (overflowed \/ (~refused /\ full))
        /\ UNCHANGED <<agentRun, failures, handed, ran, announced, cleared,
                       clearedMidDrain>>

\* clearSessionQueues; the lane it clears as well is AgentLanes' business.
Clear ==
  /\ registered # None
  /\ LET q == queues[registered]
     IN  /\ cleared' = cleared \cup Elems(q.items) \cup q.dropped
         /\ clearedMidDrain' = (clearedMidDrain \/ q.draining)
         /\ queues' = [queues EXCEPT ![registered] =
              IF ~q.draining THEN Blank
              ELSE [@ EXCEPT !.items = <<>>, !.dropped = {}, !.lastRun = FALSE]]
         /\ registered' = None
  /\ UNCHANGED <<agentRun, recent, failures, accepted, handed, ran, announced,
                 overflowed>>

\* The direct run of the session: one starts when none is active, stops being
\* active, and then calls finalizeWithFollowup.
StartRun ==
  /\ agentRun = "none"
  /\ FALSE \in RunActive
  /\ agentRun' = "active"
  /\ UNCHANGED <<registry, recent, failures, fates>>

RunStops ==
  /\ agentRun = "active"
  /\ agentRun' = "ended"
  /\ UNCHANGED <<registry, recent, failures, fates>>

Finalize ==
  /\ agentRun = "ended"
  /\ agentRun' = "none"
  /\ Becomes(Schedule(queues, registered))
  /\ UNCHANGED <<recent, failures, fates>>

-----------------------------------------------------------------------------
\* The three kinds of turn a pass of the loop can start after the debounce.
Individually(q) == q.mode = "collect" /\ (q.forced \/ CrossChannel(q.items))
ItemTurn(q) ==
  /\ q.items # <<>>
  /\ Individually(q) \/ (q.mode # "collect" /\ ~HasSummary(q))
CollectTurn(q) ==
  /\ q.mode = "collect" /\ ~Individually(q)
  /\ q.items # <<>> \/ q.lastRun
SummaryTurn(q) ==
  /\ q.mode # "collect" /\ HasSummary(q)
  /\ q.lastRun /\ q.items # <<>>

\* effectiveRunFollowup is called with the messages `turn` in its prompt, and
\* the dropped messages `noted`.
StartTurn(q, kind, turn, noted) ==
  /\ queues[q].step = "debounce"
  /\ queues' = [queues EXCEPT ![q].step = kind, ![q].turn = turn,
                              ![q].noted = noted,
                              ![q].forced = @ \/ Individually(queues[q])]
  /\ handed' = handed \cup Elems(turn)
  /\ UNCHANGED <<registered, agentRun, recent, failures, accepted, ran,
                 announced, cleared, overflowed, clearedMidDrain>>

\* Fault: the newest message first.
StartLatest(q) ==
  /\ ItemTurn(queues[q])
  /\ StartTurn(q, "item", <<queues[q].items[Len(queues[q].items)]>>, {})

StartItem(q) ==
  /\ ItemTurn(queues[q])
  /\ StartTurn(q, "item", SubSeq(queues[q].items, 1, 1), {})
StartCollect(q) ==
  /\ CollectTurn(queues[q])
  /\ StartTurn(q, "collect", queues[q].items,
               IF HasSummary(queues[q]) THEN queues[q].dropped ELSE {})
\* The summary takes the place of the first item, whose prompt is not sent.
StartSummary(q) ==
  /\ SummaryTurn(queues[q])
  /\ StartTurn(q, "summary", <<>>, queues[q].dropped)

\* None of them: the loop is left.
BreakLoop(q) ==
  /\ queues[q].step = "debounce"
  /\ ~(ItemTurn(queues[q]) \/ CollectTurn(queues[q]) \/ SummaryTurn(queues[q]))
  /\ Becomes(EndDrain(queues, registered, q))
  /\ UNCHANGED <<agentRun, recent, failures, fates>>

\* Faults: nothing is removed; all that is there by then is.
UsedNothing(q) == 0
UsedAll(q) == Len(q.items)

\* How many items the end of a turn removes from the front of the queue.
Used(q) == IF q.step = "collect" THEN Len(q.turn) ELSE 1

\* The turn of the loop on q returned.
TurnDone(q) ==
  /\ InTurn(queues[q])
  /\ LET rest == [queues EXCEPT
           ![q].items = SubSeq(@, Used(queues[q]) + 1, Len(@)),
           ![q].dropped = IF queues[q].noted # {} THEN {} ELSE @]
     IN  Becomes(Continue(rest, registered, q))
  /\ ran' = ran \cup Elems(queues[q].turn)
  /\ announced' = announced \cup queues[q].noted
  /\ UNCHANGED <<agentRun, recent, failures, accepted, handed, cleared,
                 overflowed, clearedMidDrain>>

\* It threw: the queue is as it was, and drained anew.
TurnFails(q) ==
  /\ InTurn(queues[q])
  /\ failures < MaxFailures
  /\ failures' = failures + 1
  /\ Becomes(EndDrain(queues, registered, q))
  /\ UNCHANGED <<agentRun, recent, fates>>

-----------------------------------------------------------------------------
DebounceOver(q) ==
  StartItem(q) \/ StartCollect(q) \/ StartSummary(q) \/ BreakLoop(q)
TurnEnds(q) == TurnDone(q) \/ TurnFails(q)

Next ==
  \/ \E m \in Messages, s \in Settings : Enqueue(m, s)
  \/ Clear \/ StartRun \/ RunStops \/ Finalize
  \/ \E q \in Queues : DebounceOver(q) \/ TurnEnds(q)

Spec == Init /\ [][Next]_vars

\* Debounce timers fire, and every agent run has a time limit.
FairSpec ==
  /\ Spec
  /\ WF_vars(RunStops) /\ WF_vars(Finalize)
  /\ \A q \in Queues : WF_vars(DebounceOver(q)) /\ WF_vars(TurnEnds(q))

-----------------------------------------------------------------------------
(* Properties *)

Queued(m) == \E q \in Queues : m \in Elems(queues[q].items)
Counted(m) == \E q \in Queues : m \in queues[q].dropped

\* Position of an accepted message.
Rank(m) == CHOOSE i \in 1..Len(accepted) : accepted[i] = m

\* The variables have their kinds, `draining` says whether a loop runs on the
\* queue, and an object is empty once its loop and its registration are gone.
FollowupTypeOK ==
  /\ registered \in Queues \cup {None}
  /\ agentRun \in {"active", "ended", "none"}
  /\ handed \cup ran \cup announced \cup cleared \cup recent \subseteq Messages
  /\ \A q \in Queues :
       /\ queues[q].items \in Seq(Messages)
       /\ queues[q].dropped \subseteq Messages
       /\ queues[q].draining <=> queues[q].step # "none"

\* Dropping, retries and clears while a turn is awaited never make the session
\* answer a message twice: a turn holds no message whose turn was completed, and
\* no two loops hold the same message.
AnsweredOnce ==
  \A p, q \in Queues :
    LET held == Elems(queues[p].turn)
    IN  /\ held \cap ran = {}
        /\ p # q => held \cap Elems(queues[q].turn) = {}

\* Messages are handed to the agent in the order they were accepted, whichever
\* mode the queue is in, except across a queue cleared under its loop.
HandedInOrder ==
  [][\A m \in handed' \ handed, n \in handed :
       Rank(n) < Rank(m) \/ clearedMidDrain]_vars

\* A full queue is the only thing that loses a message: without overflow every
\* accepted message is waiting, was run, or was cleared on request, however
\* turns fail and whatever arrives while they are awaited.
OnlyOverflowLoses ==
  \A m \in Elems(accepted) :
    Queued(m) \/ m \in ran \cup cleared \/ overflowed

\* An accepted message leaves the queue: the run that was active when it came,
\* the recheck after it, or the loop already there sees to it.  (A queue cleared
\* under its loop is the exception.)
AcceptedMessageRuns ==
  \A m \in Messages : Queued(m) ~> (~Queued(m) \/ clearedMidDrain)

\* "drop: summarize" accounts for what it drops: every accepted message is
\* waiting, was run, was announced or waits to be, or was cleared on request.
DroppedAreAnnounced ==
  \A m \in Elems(accepted) :
    Queued(m) \/ Counted(m) \/ m \in ran \cup announced \cup cleared

\* "enqueue for the next agent turn after the current run ends" (docs/concepts/
\* queue.md): every message the queue took leaves it, with no exception.
EveryFollowupRuns == \A m \in Messages : Queued(m) ~> ~Queued(m)

\* A drained queue is deleted: the loop on it ends.
DrainRetires ==
  \A q \in Queues : queues[q].draining ~> ~queues[q].draining
=============================================================================
