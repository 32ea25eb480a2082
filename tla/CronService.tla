---------------------------- MODULE CronService ----------------------------
(***************************************************************************)
(* The scheduler of cron jobs (cron/service/ops.ts, timer.ts, jobs.ts,     *)
(* locked.ts).  What reads or changes the store does so in a section under *)
(* one lock; jobs are executed outside it, with a running marker in the    *)
(* store: by the timer's tick, by the catch-up of a start, and by manual   *)
(* runs, which the cron lane serialises.  A reload of the configuration    *)
(* stops the service's timer and starts another service on the same store; *)
(* what the old one has under way goes on, and re-arms its timer when done.*)
(*                                                                         *)
(* A time is kept as what it is to the clock ("later" or "due").  Sections *)
(* save what they change, so memory and file are one.  How often an error  *)
(* is retried, and schedules that cannot be computed, are left out.        *)
(***************************************************************************)
EXTENDS Naturals, FiniteSets

CONSTANTS
  Jobs,
  OneShots,        \* jobs with an "at" schedule; the others recur
  MaxServices,     \* bound: services in one process
  MaxImmediate,    \* maxMissedJobsPerRestart
  MaxLoad,         \* bound: jobs there are, and disturbances so far: edits, reloads,
                   \* crashes, failing saves, executions that take hours
  Removed          \* no such job

\* enabled, nextRunAtMs, runningAtMs ("stuck" when older than STUCK_RUN_MS), lastStatus
JobRecord == [on : BOOLEAN, next : {"none", "later", "due"},
              marker : {"none", "fresh", "stuck"}, last : {"none", "ok", "error"}]

ASSUME CronAssumption == /\ OneShots \subseteq Jobs /\ IsFiniteSet(Jobs)
                         /\ Removed \notin JobRecord
                         /\ MaxServices \in Nat \ {0} /\ MaxImmediate \in Nat
                         /\ MaxLoad \in Nat

VARIABLES
  job,          \* job[j]: a JobRecord, or Removed
  current,      \* the service in use, 0 when the process is down
  armed,        \* services whose timer is set
  batch,        \* batch[<<s, k>>][j]: executions of a tick or a catch-up
  deferred,     \* deferred[s]: jobs the catch-up puts off
  manual,       \* manual[j]: the manual run of j
  disturbances,
  \* History:
  cleared,      \* jobs whose marker was cleared while they were executed
  served        \* one-shots that succeeded since they were last edited

cronVars == <<job, current, armed, batch, deferred, manual, disturbances, cleared, served>>

Services == 1..MaxServices
Kinds == {"tick", "boot"}
Tick(s) == <<s, "tick">>
Boot(s) == <<s, "boot">>
Outcomes == {"ok", "error"}
Idle == [j \in Jobs |-> "none"]

Exists(j) == job[j] # Removed
Marked(j) == Exists(j) /\ job[j].marker # "none"
Executions(j) == {g \in Services \X Kinds : batch[g][j] # "none"}
ManualRuns == {"due", "forced"}
InProgress(j) == Executions(j) # {} \/ manual[j] \in ManualRuns

Fresh(next) == [on |-> TRUE, next |-> next, marker |-> "none", last |-> "none"]

CronInit ==
  /\ job \in [Jobs -> {Removed, Fresh("later")}]
  /\ current = 0 /\ armed = {}
  /\ batch = [g \in Services \X Kinds |-> Idle]
  /\ deferred = [s \in Services |-> {}]
  /\ manual = Idle
  /\ disturbances = 0
  /\ cleared = {} /\ served = {}

Disturb ==
  /\ Cardinality({j \in Jobs : Exists(j)}) + disturbances < MaxLoad
  /\ disturbances' = disturbances + 1

-----------------------------------------------------------------------------
(* jobs.ts *)

\* computeJobNextRunAtMs of a slot that is due or missing: a one-shot stays due
\* until it succeeds.
ComputeNext(j, b) ==
  IF j \notin OneShots THEN "later" ELSE IF b.last = "ok" THEN "none" ELSE "due"

\* Fault: a stuck marker stays.
KeepStuck(b) == IF b.on THEN b ELSE [b EXCEPT !.next = "none", !.marker = "none"]

\* normalizeJobTickState; a marker is stuck when it is older than STUCK_RUN_MS.
Normalize(b) ==
  IF ~b.on THEN [b EXCEPT !.next = "none", !.marker = "none"]
  ELSE IF b.marker = "stuck" THEN [b EXCEPT !.marker = "none"] ELSE b

\* recomputeNextRunsForMaintenance fills what is missing ...
Maintain(js) ==
  [j \in Jobs |->
    IF js[j] = Removed THEN Removed
    ELSE LET b == Normalize(js[j]) IN
           IF b.on /\ b.next = "none" THEN [b EXCEPT !.next = ComputeNext(j, b)] ELSE b]

\* ... recomputeNextRuns also advances what is due.
Recompute(js) ==
  [j \in Jobs |->
    IF js[j] = Removed THEN Removed
    ELSE LET b == Normalize(js[j]) IN
           IF b.on /\ b.next # "later" THEN [b EXCEPT !.next = ComputeNext(j, b)] ELSE b]

\* armTimer: set if an enabled job has a next run (nextWakeAtMs).
Wanted(js) == \E j \in Jobs : js[j] # Removed /\ js[j].on /\ js[j].next # "none"
Arm(s, js) == armed' = IF Wanted(js) THEN armed \cup {s} ELSE armed \ {s}

\* The marker of an execution under way was cleared by something else than its end.
NoteCleared(ended) ==
  cleared' = {j \in Jobs : InProgress(j)' /\ (j \in cleared \/ (Marked(j) /\ ~Marked(j)' /\ j \notin ended))}

-----------------------------------------------------------------------------
(* timer.ts: applyJobResult and the tick *)

\* Fault: a one-shot that succeeded keeps its slot.
KeepSlot(j, b, o) ==
  IF b = Removed THEN {Removed}
  ELSE {[b EXCEPT !.marker = "none", !.last = o, !.next = IF j \in OneShots THEN @ ELSE "later"]}

\* The jobs an outcome can leave.  One-shot: deleted or disabled when it succeeded,
\* disabled or retried after an error.
Applied(j, b, o) ==
  LET r == [b EXCEPT !.marker = "none", !.last = o]
      off == [r EXCEPT !.on = FALSE, !.next = "none"] IN
    IF b = Removed THEN {Removed}
    ELSE IF j \notin OneShots THEN {[r EXCEPT !.next = IF b.on THEN "later" ELSE "none"]}
    ELSE IF o = "ok" THEN {Removed, off} ELSE {off, [r EXCEPT !.next = "later"]}

\* The outcomes a batch can have had, and the stores they can leave.  An error only
\* moves a recurring job's next slot further away.
InBatch(b) == {j \in Jobs : b[j] # "none"}
OutcomesOf(b) == {o \in [InBatch(b) -> Outcomes] : \A j \in InBatch(b) \ OneShots : o[j] = "ok"}
After(o) ==
  {js \in [Jobs -> UNION {Applied(j, job[j], o[j]) : j \in DOMAIN o} \cup {job[j] : j \in Jobs}] :
     \A j \in Jobs : IF j \in DOMAIN o THEN js[j] \in Applied(j, job[j], o[j]) ELSE js[j] = job[j]}
Served(o) == {j \in DOMAIN o \cap OneShots : o[j] = "ok"}

Mark(js, marked) ==
  [j \in Jobs |-> IF j \in marked THEN [js[j] EXCEPT !.marker = "fresh"] ELSE js[j]]

Runnable(j) == Exists(j) /\ job[j].on /\ job[j].marker = "none" /\ job[j].next = "due"

\* onTimer up to the executions.  While a tick is under way the timer is only set
\* again.  Nothing due: maintenance, and the timer is set anew.
OnTimer(s) ==
  LET due == {j \in Jobs : Runnable(j)} IN
    /\ s \in armed /\ batch[Tick(s)] = Idle
    /\ IF due = {}
         THEN job' = Maintain(job) /\ Arm(s, job') /\ UNCHANGED batch
         ELSE /\ job' = Mark(job, due) /\ UNCHANGED armed
              /\ batch' = [batch EXCEPT ![Tick(s)] =
                             [j \in Jobs |-> IF j \in due THEN "running" ELSE "none"]]
    /\ UNCHANGED <<current, deferred, manual, disturbances, served>>
    /\ NoteCleared({})

\* executeJobCoreWithTimeout; a timeout is an error.
ExecutionEnds(g, j) ==
  /\ batch[g][j] = "running"
  /\ batch' = [batch EXCEPT ![g][j] = "over"]
  /\ UNCHANGED <<job, current, armed, deferred, manual, disturbances, cleared, served>>

\* All executions of the batch are over, and its section has the lock: a manual run
\* that was inspected before the batch marked its jobs has asked for it earlier.
BatchOver(g) ==
  /\ batch[g] # Idle
  /\ \A j \in Jobs : batch[g][j] # "running"
  /\ \A j \in Jobs : batch[g][j] # "none" => manual[j] \notin {"asked due", "asked forced"}

\* The rest of onTimer; the timer is set whether the service was stopped or not.
TickEnds(s) ==
  /\ BatchOver(Tick(s))
  /\ \E o \in OutcomesOf(batch[Tick(s)]) :
       /\ \E js \in After(o) : job' = Maintain(js)
       /\ served' = served \cup Served(o)
  /\ Arm(s, job')
  /\ batch' = [batch EXCEPT ![Tick(s)] = Idle]
  /\ UNCHANGED <<current, deferred, manual, disturbances>>
  /\ NoteCleared(InBatch(batch[Tick(s)]))

\* The save fails: the outcomes are lost with the next reload, the markers stay.
TickSaveFails(s) ==
  /\ BatchOver(Tick(s))
  /\ Disturb
  /\ \E o \in OutcomesOf(batch[Tick(s)]) : \E js \in After(o) : Arm(s, Maintain(js))
  /\ batch' = [batch EXCEPT ![Tick(s)] = Idle]
  /\ UNCHANGED <<job, current, deferred, manual, served>>
  /\ NoteCleared({})

-----------------------------------------------------------------------------
(* start and its catch-up *)

Startable(j) == Exists(j) /\ ~Marked(j) /\ job[j].on

\* Jobs the catch-up surely runs, and jobs it may: one-shots that wait for a retry,
\* and recurring ones with a slot since their last run.
Missed == {j \in Jobs : Runnable(j) /\ (j \in OneShots => job[j].last = "none")}
MaybeMissed == {j \in Jobs : Startable(j) /\ job[j].last # "none"
                               /\ (j \in OneShots => job[j].next = "due" /\ job[j].last = "error")}

\* Every marker is cleared, and the jobs that had one take no part in the catch-up.
Start(s) ==
  \E missed \in {m \in SUBSET (Missed \cup MaybeMissed) : Missed \subseteq m} :
    \E now \in SUBSET missed :
      /\ Cardinality(now) = IF Cardinality(missed) < MaxImmediate THEN Cardinality(missed)
                                                                  ELSE MaxImmediate
      /\ LET unmarked == [j \in Jobs |-> IF Exists(j) THEN [job[j] EXCEPT !.marker = "none"]
                                                      ELSE Removed] IN
           job' = IF missed = {} THEN Recompute(unmarked) ELSE Mark(unmarked, now)
      /\ batch' = [batch EXCEPT ![Boot(s)] =
                     [j \in Jobs |-> IF j \in now THEN "running" ELSE "none"]]
      /\ deferred' = [deferred EXCEPT ![s] = missed \ now]
      /\ armed' = (armed \ {current}) \cup (IF missed = {} /\ Wanted(job') THEN {s} ELSE {})
      /\ current' = s

StartProcess ==
  /\ current = 0
  /\ Start(1)
  /\ UNCHANGED <<manual, disturbances, served>>
  /\ NoteCleared({})

\* applyStartupCatchupOutcomes, then the rest of start
StartEnds(s) ==
  /\ batch[Boot(s)] # Idle \/ deferred[s] # {}
  /\ batch[Boot(s)] = Idle \/ BatchOver(Boot(s))
  /\ \E o \in OutcomesOf(batch[Boot(s)]) :
       /\ \E js \in After(o) :
            job' = Recompute([j \in Jobs |->
                      IF j \in deferred[s] /\ js[j] # Removed /\ js[j].on
                        THEN [js[j] EXCEPT !.next = "later"] ELSE js[j]])
       /\ served' = served \cup Served(o)
  /\ Arm(s, job')
  /\ batch' = [batch EXCEPT ![Boot(s)] = Idle]
  /\ deferred' = [deferred EXCEPT ![s] = {}]
  /\ UNCHANGED <<current, manual, disturbances>>
  /\ NoteCleared(InBatch(batch[Boot(s)]))

-----------------------------------------------------------------------------
(* ops.ts: edits and manual runs, of the service in use *)

Edit == current # 0 /\ Disturb

\* Ids are new: nothing of an earlier job is left.
AddJob(j) ==
  /\ Edit /\ ~Exists(j) /\ ~InProgress(j)
  /\ \E next \in {"later", "due"} : job' = Recompute([job EXCEPT ![j] = Fresh(next)])
  /\ Arm(current, job')
  /\ served' = served \ {j}
  /\ UNCHANGED <<current, batch, deferred, manual>>
  /\ NoteCleared({})

\* nextRunAtMs after an edit of the schedule or of enabled; a one-shot that has
\* succeeded needs a new time.
EditedNext(j) ==
  IF j \notin OneShots THEN {"later"}
  ELSE IF job[j].last = "ok" THEN {"none", "later"} ELSE {"later", "due"}

UpdateJob(j, on) ==
  /\ Edit /\ Exists(j)
  /\ IF on
       THEN \E next \in EditedNext(j) : job' = [job EXCEPT ![j].on = TRUE, ![j].next = next]
       ELSE job' = [job EXCEPT ![j].on = FALSE, ![j].next = "none", ![j].marker = "none"]
  /\ Arm(current, job')
  /\ served' = served \ {j}
  /\ UNCHANGED <<current, batch, deferred, manual>>
  /\ NoteCleared({})

RemoveJob(j) ==
  /\ Edit /\ Exists(j)
  /\ job' = [job EXCEPT ![j] = Removed]
  /\ Arm(current, job')
  /\ UNCHANGED <<current, batch, deferred, manual, served>>
  /\ NoteCleared({})

\* list and status
ReadJobs ==
  /\ current # 0
  /\ job' = Maintain(job)
  /\ UNCHANGED <<current, armed, batch, deferred, manual, disturbances, served>>
  /\ NoteCleared({})

\* inspectManualRunPreflight
InspectRun(j, forced) ==
  /\ current # 0 /\ manual = Idle /\ Exists(j)
  /\ job' = Maintain(job)
  /\ job'[j].marker = "none"
  /\ forced \/ (job'[j].on /\ job'[j].next = "due")
  /\ manual' = [manual EXCEPT ![j] = IF forced THEN "asked forced" ELSE "asked due"]
  /\ UNCHANGED <<current, armed, batch, deferred, disturbances, served>>
  /\ NoteCleared({})

\* Fault: the inspection is relied on.
Inspected(j) == Exists(j)
\* prepareManualRun looks at the marker again.
Unreserved(j) == Exists(j) /\ ~Marked(j)

ReserveRun(j) ==
  /\ manual[j] \in {"asked due", "asked forced"}
  /\ IF Unreserved(j)
       THEN /\ job' = Mark(job, {j})
            /\ manual' = [manual EXCEPT ![j] = IF @ = "asked due" THEN "due" ELSE "forced"]
       ELSE manual' = Idle /\ UNCHANGED job
  /\ UNCHANGED <<current, armed, batch, deferred, disturbances, cleared, served>>

\* finishPreparedManualRun: the execution ends and its section gets the lock; a job
\* that is gone by now changes nothing.
ManualEnds(j) ==
  /\ manual[j] \in ManualRuns
  /\ IF Exists(j)
       THEN \E o \in OutcomesOf([Idle EXCEPT ![j] = "over"]) :
              /\ \E js \in After(o) : job' = Maintain(js)
              /\ Arm(current, job')
              /\ served' = served \cup Served(o)
       ELSE UNCHANGED <<job, armed, served>>
  /\ manual' = Idle
  /\ UNCHANGED <<current, batch, deferred, disturbances>>
  /\ NoteCleared({j})

\* The configuration of cron is reloaded.  (Manual runs under way are left out: the
\* old service would finish them on its own memory.)
Reload ==
  /\ Edit /\ current < MaxServices /\ manual = Idle
  /\ Start(current + 1)
  /\ UNCHANGED <<manual, served>>
  /\ NoteCleared({})

\* The process dies; what it executed leaves its marker.
CronCrash ==
  /\ Edit
  /\ current' = 0 /\ armed' = {}
  /\ batch' = [g \in Services \X Kinds |-> Idle]
  /\ deferred' = [s \in Services |-> {}]
  /\ manual' = Idle
  /\ cleared' = {}
  /\ UNCHANGED <<job, served>>

-----------------------------------------------------------------------------
SlotComes(j) ==
  /\ Exists(j) /\ job[j].next = "later"
  /\ job' = [job EXCEPT ![j].next = "due"]
  /\ UNCHANGED <<current, armed, batch, deferred, manual, disturbances, cleared, served>>

MarkerAges(j) ==
  /\ Exists(j) /\ job[j].marker = "fresh"
  /\ job' = [job EXCEPT ![j].marker = "stuck"]
  /\ IF InProgress(j) THEN Disturb ELSE UNCHANGED disturbances
  /\ UNCHANGED <<current, armed, batch, deferred, manual, cleared, served>>

ExecutionStep(s) == \E k \in Kinds, j \in Jobs : ExecutionEnds(<<s, k>>, j)
BatchEnds(s) == TickEnds(s) \/ StartEnds(s)
ManualStep(j) == ReserveRun(j) \/ ManualEnds(j)

CronNext ==
  \/ StartProcess \/ Reload \/ CronCrash \/ ReadJobs
  \/ \E s \in Services : OnTimer(s) \/ ExecutionStep(s) \/ BatchEnds(s) \/ TickSaveFails(s)
  \/ \E j \in Jobs :
       \/ AddJob(j) \/ (\E on \in BOOLEAN : UpdateJob(j, on)) \/ RemoveJob(j)
       \/ (\E forced \in BOOLEAN : InspectRun(j, forced)) \/ ManualStep(j)
       \/ SlotComes(j) \/ MarkerAges(j)

\* Timers fire and time passes; executions end, if only by their timeout; the lock
\* is first come, first served.
CronFair ==
  /\ \A s \in Services : /\ WF_cronVars(OnTimer(s)) /\ WF_cronVars(ExecutionStep(s))
                         /\ SF_cronVars(BatchEnds(s))
  /\ \A j \in Jobs \ OneShots : WF_cronVars(SlotComes(j))
  /\ WF_cronVars(\E j \in Jobs : ManualStep(j)) /\ WF_cronVars(\E j \in Jobs : MarkerAges(j))

CronSpec == CronInit /\ [][CronNext]_cronVars /\ CronFair

-----------------------------------------------------------------------------
CronTypeOK ==
  /\ job \in [Jobs -> JobRecord \cup {Removed}]
  /\ current \in 0..MaxServices /\ armed \subseteq 1..current
  /\ batch \in [Services \X Kinds -> [Jobs -> {"none", "running", "over"}]]
  /\ deferred \in [Services -> SUBSET Jobs]
  /\ manual \in [Jobs -> {"none", "asked due", "asked forced"} \cup ManualRuns]
  /\ disturbances \in 0..MaxLoad
  /\ cleared \subseteq Jobs /\ served \subseteq OneShots

\* The timer, the catch-up, manual runs and the timer of a service that was replaced
\* never execute a job twice at once, unless its marker was cleared meanwhile: the
\* job was disabled, started anew with the service, or ran for hours.
OneRunAtOnce ==
  \A j \in Jobs \ cleared :
    /\ Cardinality(Executions(j)) <= 1
    /\ manual[j] \in ManualRuns => Executions(j) = {}

\* A one-shot that succeeded is not executed again by the scheduler until it is
\* edited, whatever runs, errors and starts come between, if its outcome was saved.
OneShotOnce ==
  \A j \in served \ cleared :
    manual[j] # "due" /\ \A g \in Services \X Kinds : batch[g][j] # "running"

\* A recurring job that stays enabled runs again and again: no error, failed save,
\* crash, edit, reload or manual run leaves it without a slot, blocked by a marker,
\* or the service without a timer.
JobGoesOn ==
  \A j \in Jobs \ OneShots :
    <>[](current # 0 /\ Exists(j) /\ job[j].on) => []<>InProgress(j)
=============================================================================
