-------------------------- MODULE SubagentRegistry --------------------------
(***************************************************************************)
(* The registry of sub-agent runs (agents/subagent-registry*.ts): when a   *)
(* run ends, its result is announced to whoever asked for it.  That it     *)
(* ended is reported twice, by the agent.wait call and by the lifecycle    *)
(* event; announcements fail and are retried by timers, wait for the run's *)
(* own sub-agents, and are held back while the run is steered (aborted and *)
(* started anew).  Runs are killed, and the process may die; persist()     *)
(* saves the whole map.                                                    *)
(*                                                                         *)
(* Runs expect a completion message, as those of sessions_spawn do.  A run *)
(* that replaces another takes its place here: what is still under way for *)
(* a run that is gone finds no record and is left out.  An announcement    *)
(* may expire at any time.                                                 *)
(***************************************************************************)
EXTENDS Naturals

CONSTANTS
  Subagents,     \* child sessions, each with one run at a time
  ParentOf,      \* the sub-agent that spawned it, or Gone if a chat did
  Deleting,      \* those with cleanup "delete"; the others have "keep"
  Embedded,      \* those that run in this process: their events are heard
  Gone,          \* no record
  MaxTries,      \* MAX_ANNOUNCE_RETRY_COUNT
  MaxTroubles    \* bound: steers, kills, replacements, crashes and failures

\* endedAt, cleanupHandled, cleanupCompletedAt, suppressAnnounceReason,
\* announceRetryCount, wakeOnDescendantSettle ("due", or "over" when it was), and
\* whether the child session exists
RunRecord == [ended : BOOLEAN, handled : BOOLEAN, completed : BOOLEAN,
              suppress : {"none", "steer", "killed"}, tries : Nat,
              wake : {"no", "due", "over", "woken"}, session : BOOLEAN]

ASSUME SubagentAssumption ==
  /\ Gone \notin RunRecord
  /\ ParentOf \in [Subagents -> Subagents \cup {Gone}]
  /\ Deleting \subseteq Subagents /\ Embedded \subseteq Subagents
  /\ MaxTries \in Nat \ {0} /\ MaxTroubles \in Nat

VARIABLES
  record,    \* record[r]: the SubagentRunRecord, or Gone
  saved,     \* record as it is on disk
  task,      \* task[r]: what only the process knows of r's run
  steering,  \* sub-agents whose steer is under way
  troubles,
  spawned,   \* sub-agents registered so far
  \* History:
  announced,      \* announced[r]: how often r's run was announced
  hit        \* sub-agents caught by a crash, whose bookkeeping failed, or that
             \* nobody waits for

subagentVars == <<record, saved, task, steering, troubles, spawned, announced, hit>>

NewRecord == [ended |-> FALSE, handled |-> FALSE, completed |-> FALSE, suppress |-> "none",
              tries |-> 0, wake |-> "no", session |-> TRUE]

\* reports that are to come, completions under way, timers that
\* resume the run, its announcement, and membership in resumedRuns
Quiet == [owing |-> {}, completing |-> {}, timers |-> {}, flow |-> "none",
          resumed |-> FALSE]
Watched(r) ==
  [Quiet EXCEPT !.owing = IF r \in Embedded THEN {"wait", "event"} ELSE {"wait"}]

There(r) == record[r] # Gone
Steered(e) == e.suppress = "steer"

\* countPendingDescendantRuns
ChildrenOf(r) == {c \in Subagents : ParentOf[c] = r}
Unsettled(c) == There(c) /\ ~(record[c].ended /\ record[c].completed)
AwaitsChildren(r) ==
  \E c \in ChildrenOf(r) : Unsettled(c) \/ \E d \in ChildrenOf(c) : Unsettled(d)

SubagentInit ==
  /\ record = [r \in Subagents |-> Gone] /\ saved = record
  /\ task = [r \in Subagents |-> Quiet]
  /\ steering = {} /\ troubles = 0 /\ spawned = {}
  /\ announced = [r \in Subagents |-> 0] /\ hit = {}

Trouble == troubles < MaxTroubles /\ troubles' = troubles + 1

\* The record and the task of r are these now.
Becomes(r, s) ==
  /\ record' = [record EXCEPT ![r] = s.e]
  /\ task' = [task EXCEPT ![r] = s.k]
Persist == saved' = record'

-----------------------------------------------------------------------------
(* Beginning an announcement *)

\* Fault: one that is under way does not stop another.
BeginsAgain(e) == ~e.completed
MayBegin(e) == ~e.completed /\ ~e.handled

\* startSubagentAnnounceCleanupFlow, with beginSubagentCleanup
StartFlow(e, k) ==
  IF MayBegin(e) THEN [e |-> [e EXCEPT !.handled = TRUE], k |-> [k EXCEPT !.flow = "sending"]]
                 ELSE [e |-> e, k |-> k]

\* resumeSubagentRun, in the order of its checks: nothing to do; the child session is
\* gone, and the run is pruned; no try is left; early, the delay after the last try is
\* not over; still running after a restart; held back by a steer; else announce.
ResumeRun(e, k, early) ==
  LET noted == [k EXCEPT !.resumed = TRUE] IN
    IF e = Gone \/ k.resumed THEN [e |-> e, k |-> k]
    ELSE IF ~e.session THEN [e |-> Gone, k |-> Quiet]
    ELSE IF e.completed THEN [e |-> e, k |-> k]
    ELSE IF e.tries >= MaxTries THEN [e |-> e, k |-> [k EXCEPT !.flow = "closing"]]
    ELSE IF early THEN [e |-> e, k |-> [noted EXCEPT !.timers = @ \cup {"again"}]]
    ELSE IF ~e.ended THEN [e |-> e, k |-> [noted EXCEPT !.owing = @ \cup {"wait"}]]
    ELSE IF Steered(e) THEN [e |-> e, k |-> noted]
    ELSE StartFlow(e, IF MayBegin(e) THEN noted ELSE k)

\* A delay runs after a failed try only.
MayBeEarly(e) == e # Gone /\ (e.tries > 0 \/ e.wake # "no")

\* retryDeferredCompletedAnnounces, at the end of what leaves records es and tasks ks:
\* every other run that ended and is not being announced is resumed.
RetryDeferred(r, es, ks) ==
  LET deferred == {q \in Subagents \ {r} : /\ es[q] # Gone /\ es[q].ended
                                           /\ MayBegin(es[q]) /\ ~Steered(es[q])} IN
    \E late \in SUBSET {q \in deferred : MayBeEarly(es[q])} :
      LET after == [q \in deferred |->
                      ResumeRun(es[q], [ks[q] EXCEPT !.resumed = FALSE], q \in late)] IN
        /\ record' = [q \in Subagents |-> IF q \in deferred THEN after[q].e ELSE es[q]]
        /\ task' = [q \in Subagents |-> IF q \in deferred THEN after[q].k ELSE ks[q]]
        /\ Persist

\* completeCleanupBookkeeping
Bookkeep(r, e, k) ==
  IF r \in Deleting
    THEN RetryDeferred(r, [record EXCEPT ![r] = Gone], [task EXCEPT ![r] = Quiet])
    ELSE RetryDeferred(r, [record EXCEPT ![r] = [e EXCEPT !.completed = TRUE]],
                          [task EXCEPT ![r] = k])

-----------------------------------------------------------------------------
(* Registering and replacing runs *)

\* registerSubagentRun, for a chat or for a sub-agent that runs
RegisterRun(r) ==
  /\ r \notin spawned
  /\ ParentOf[r] # Gone => There(ParentOf[r]) /\ ~record[ParentOf[r]].ended
  /\ spawned' = spawned \cup {r}
  /\ Becomes(r, [e |-> NewRecord, k |-> Watched(r)])
  /\ Persist
  /\ UNCHANGED <<steering, troubles, announced, hit>>

\* replaceSubagentRunAfterSteer: a new run in the same session
Replace(r, wake) ==
  /\ Becomes(r, [e |-> [NewRecord EXCEPT !.wake = wake], k |-> Watched(r)])
  /\ announced' = [announced EXCEPT ![r] = 0]
  /\ Persist

\* A user's message reactivates an ended run, or a run the last process left is
\* recovered.
ReplaceRun(r) ==
  /\ There(r) /\ (record[r].ended \/ r \in hit)
  /\ Trouble
  /\ Replace(r, "no")
  /\ UNCHANGED <<steering, spawned, hit>>

-----------------------------------------------------------------------------
(* A run ends *)

\* completeSubagentRun up to its awaits; a run that was killed and completes without
\* an error after all is reopened.
Completed(e) ==
  {[e EXCEPT !.ended = TRUE]} \cup
  IF e.suppress = "killed"
    THEN {[e EXCEPT !.suppress = "none", !.handled = FALSE, !.completed = FALSE]} ELSE {}

Complete(r, source) ==
  \E e \in Completed(record[r]) :
    Becomes(r, [e |-> e, k |-> [task[r] EXCEPT !.owing = @ \ {source},
                                               !.completing = @ \cup {source}]])

\* agent.wait answers: "ok", "timeout" or "error".  The run manager saves endedAt.
WaitAnswers(r) ==
  /\ There(r) /\ "wait" \in task[r].owing
  /\ Complete(r, "wait")
  /\ saved' = [record EXCEPT ![r].ended = TRUE]
  /\ UNCHANGED <<steering, troubles, spawned, announced, hit>>

\* The call fails, and nobody waits any more: only the event is left, if one can come.
WaitFails(r) ==
  /\ There(r) /\ "wait" \in task[r].owing
  /\ Trouble
  /\ task' = [task EXCEPT ![r].owing = @ \ {"wait"}]
  /\ hit' = hit \cup ({r} \ Embedded)
  /\ UNCHANGED <<record, saved, steering, spawned, announced>>

\* The lifecycle event: "end", or an "error" that no retry of the model followed within
\* the grace period.
EventComes(r) ==
  /\ There(r) /\ "event" \in task[r].owing
  /\ Complete(r, "event")
  /\ UNCHANGED <<saved, steering, troubles, spawned, announced, hit>>

\* Fault: a run that is being steered is announced.
Unheeded(e) == FALSE
HeldBack(e) == Steered(e)

\* The rest of completeSubagentRun, after its awaits
CompletionGoesOn(r, source) ==
  /\ source \in task[r].completing
  /\ LET k == [task[r] EXCEPT !.completing = @ \ {source}] IN
       Becomes(r, IF HeldBack(record[r]) THEN [e |-> record[r], k |-> k]
                                         ELSE StartFlow(record[r], k))
  /\ Persist
  /\ UNCHANGED <<steering, troubles, spawned, announced, hit>>

-----------------------------------------------------------------------------
(* The announcement: runSubagentAnnounceFlow and finalizeSubagentCleanup *)

NoWake(e) == [e EXCEPT !.wake = IF @ = "due" THEN "over" ELSE @]

\* Delivered, or nothing to deliver
AnnounceSucceeds(r) ==
  /\ task[r].flow = "sending" /\ ~AwaitsChildren(r)
  /\ Becomes(r, [e |-> NoWake(record[r]), k |-> [task[r] EXCEPT !.flow = "closing"]])
  /\ announced' = [announced EXCEPT ![r] = @ + 1]
  /\ UNCHANGED <<saved, steering, troubles, spawned, hit>>

\* The children a run waited for have settled: their findings wake its session, once.
AnnounceWakes(r) ==
  /\ task[r].flow = "sending" /\ ~AwaitsChildren(r) /\ record[r].wake = "due"
  /\ Replace(r, "woken")
  /\ UNCHANGED <<steering, troubles, spawned, hit>>

\* Fault: the run stays in resumedRuns.
StillResumed(k) == [k EXCEPT !.flow = "none", !.timers = @ \cup {"retry"}]
Retried(k) == [k EXCEPT !.flow = "none", !.timers = @ \cup {"retry"}, !.resumed = FALSE]

\* Not delivered.  Children it awaits put the announcement off; else the child session
\* of a "delete" run may be deleted by now, and the next try counts.
AnnounceFails(r) ==
  /\ task[r].flow = "sending"
  /\ LET e == record[r] IN
       \/ /\ AwaitsChildren(r)
          /\ Becomes(r, [e |-> [e EXCEPT !.wake = IF @ = "woken" THEN @ ELSE "due",
                                        !.handled = FALSE],
                         k |-> Retried(task[r])])
          /\ Persist
       \/ /\ ~AwaitsChildren(r) /\ e.tries + 1 < MaxTries
          /\ \E session \in {TRUE, r \notin Deleting} :
               Becomes(r, [e |-> [e EXCEPT !.tries = @ + 1, !.handled = FALSE, !.session = session],
                           k |-> Retried(task[r])])
          /\ Persist
       \* The last try, or it has expired: give up.
       \/ /\ Becomes(r, [e |-> IF AwaitsChildren(r) \/ e.tries = MaxTries THEN NoWake(e)
                               ELSE [NoWake(e) EXCEPT !.tries = @ + 1],
                         k |-> [task[r] EXCEPT !.flow = "closing"]])
          /\ UNCHANGED saved
  /\ UNCHANGED <<steering, troubles, spawned, announced, hit>>

\* Hooks and attachments are done with.
CloseRun(r) ==
  /\ task[r].flow = "closing"
  /\ Bookkeep(r, record[r], [task[r] EXCEPT !.flow = "none"])
  /\ UNCHANGED <<steering, troubles, spawned, announced, hit>>

\* They threw: the run may be announced again.
CloseFails(r) ==
  /\ task[r].flow = "closing"
  /\ Trouble
  /\ Becomes(r, [e |-> [record[r] EXCEPT !.handled = FALSE],
                 k |-> [task[r] EXCEPT !.flow = "none"]])
  /\ Persist
  /\ hit' = hit \cup {r}
  /\ UNCHANGED <<steering, spawned, announced>>

\* The timers of a retry, and of a run that was resumed too early
RetryTimer(r) ==
  /\ "retry" \in task[r].timers
  /\ Becomes(r, ResumeRun(record[r], [task[r] EXCEPT !.timers = @ \ {"retry"}], FALSE))
  /\ Persist
  /\ UNCHANGED <<steering, troubles, spawned, announced, hit>>

AgainTimer(r) ==
  /\ "again" \in task[r].timers
  /\ Becomes(r, ResumeRun(record[r],
                          [task[r] EXCEPT !.timers = @ \ {"again"}, !.resumed = FALSE], FALSE))
  /\ Persist
  /\ UNCHANGED <<steering, troubles, spawned, announced, hit>>

-----------------------------------------------------------------------------
(* Steering, killing, sweeping, crashing *)

\* steerControlledSubagentRun up to its awaits
Steer(r) ==
  /\ There(r) /\ r \notin steering
  /\ ~record[r].ended \/ AwaitsChildren(r)
  /\ Trouble
  /\ steering' = steering \cup {r}
  /\ record' = [record EXCEPT ![r].suppress = "steer"]
  /\ Persist
  /\ UNCHANGED <<task, spawned, announced, hit>>

\* The restart was dispatched; it works from a copy if the record is gone.
SteerSucceeds(r) ==
  /\ r \in steering
  /\ steering' = steering \ {r}
  /\ Replace(r, "no")
  /\ UNCHANGED <<troubles, spawned, hit>>

\* clearSubagentRunSteerRestart
SteerFails(r) ==
  /\ r \in steering
  /\ steering' = steering \ {r}
  /\ IF There(r) /\ Steered(record[r])
       THEN LET e == [record[r] EXCEPT !.suppress = "none"]
                k == [task[r] EXCEPT !.resumed = FALSE] IN
              /\ \E early \in {FALSE, MayBeEarly(e)} :
                   Becomes(r, IF e.ended THEN ResumeRun(e, k, early) ELSE [e |-> e, k |-> k])
              /\ Persist
       ELSE UNCHANGED <<record, task, saved>>
  /\ UNCHANGED <<troubles, spawned, announced, hit>>

\* markSubagentRunTerminated
Kill(r) ==
  /\ There(r) /\ ~record[r].ended
  /\ Trouble
  /\ Bookkeep(r, [record[r] EXCEPT !.ended = TRUE, !.handled = TRUE, !.suppress = "killed"], task[r])
  /\ UNCHANGED <<steering, spawned, announced, hit>>

\* A "delete" run is archived after a time, whatever its state.
Sweep(r) ==
  /\ There(r) /\ r \in Deleting
  /\ Becomes(r, [e |-> Gone, k |-> Quiet])
  /\ Persist
  /\ UNCHANGED <<steering, troubles, spawned, announced, hit>>

\* The process dies and starts again: restoreSubagentRunsOnce resumes what was saved.
SubagentCrash ==
  /\ Trouble
  /\ \E late \in SUBSET {r \in Subagents : MayBeEarly(saved[r])} :
       LET after == [r \in Subagents |-> ResumeRun(saved[r], Quiet, r \in late)] IN
         /\ record' = [r \in Subagents |-> after[r].e]
         /\ task' = [r \in Subagents |-> after[r].k]
  /\ Persist
  /\ steering' = {}
  /\ hit' = hit \cup {r \in Subagents : There(r)}
  /\ UNCHANGED <<spawned, announced>>

RunStep(r) ==
  \/ WaitAnswers(r) \/ EventComes(r)
  \/ \E source \in {"wait", "event"} : CompletionGoesOn(r, source)
  \/ AnnounceSucceeds(r) \/ AnnounceWakes(r) \/ AnnounceFails(r) \/ CloseRun(r)
  \/ RetryTimer(r) \/ AgainTimer(r)

SteerEnds(r) == SteerSucceeds(r) \/ SteerFails(r)

SubagentNext ==
  \/ \E r \in Subagents :
       \/ RegisterRun(r) \/ ReplaceRun(r) \/ RunStep(r) \/ WaitFails(r)
       \/ CloseFails(r) \/ Steer(r) \/ SteerEnds(r) \/ Kill(r) \/ Sweep(r)
  \/ SubagentCrash

\* Agents end, announcements and hooks settle, timers fire, calls are answered.
SubagentFair ==
  /\ \A r \in Subagents : WF_subagentVars(RunStep(r))
  /\ WF_subagentVars(\E r \in Subagents : SteerEnds(r))

SubagentSpec == SubagentInit /\ [][SubagentNext]_subagentVars /\ SubagentFair

-----------------------------------------------------------------------------
SubagentTypeOK ==
  /\ \A f \in {record, saved} :
       f \in [Subagents -> {Gone} \cup {e \in RunRecord : e.tries <= MaxTries}]
  /\ task \in [Subagents ->
                [owing : SUBSET {"wait", "event"}, completing : SUBSET {"wait", "event"},
                 timers : SUBSET {"retry", "again"},
                 flow : {"none", "sending", "closing"}, resumed : BOOLEAN]]
  /\ steering \subseteq Subagents /\ spawned \subseteq Subagents /\ hit \subseteq spawned
  /\ troubles \in 0..MaxTroubles

\* Two reports of the end, retry timers, a finished sibling, a failed steer, a late
\* completion of a killed run and a restart may all set an announcement going: a
\* run is announced once all the same, unless its bookkeeping failed afterwards.
AnnouncedOnce == \A r \in Subagents \ hit : announced[r] <= 1

\* No announcement begins for a run that a steer is about to replace.
NotWhileSteered ==
  [][\A r \in Subagents :
       task'[r].flow = "sending" /\ task[r].flow # "sending" => ~Steered(record'[r])]_subagentVars

\* Without crashes, failing bookkeeping and lost agent.wait calls of runs elsewhere, no
\* run is forgotten: it is announced, given up, killed or removed in the end, whatever
\* becomes of its retries, of the sub-agents it waits for and of its steers.
EveryRunSettles ==
  <>[](hit = {}) =>
    []<>(\A r \in Subagents : There(r) => record[r].ended /\ record[r].completed)
=============================================================================
