---------------------------- MODULE GatewayLock ----------------------------
(***************************************************************************)
(* The lock file of a gateway (infra/gateway-lock.ts) between processes    *)
(* that serve one profile on one port, as the run loop uses it: acquired   *)
(* before the server starts, released after it closed.  Opening the file,  *)
(* writing the owner into it, reading it, probing the port and removing it *)
(* are awaited one by one, so other processes act in between; the file is  *)
(* removed by its path, whoever it belongs to by then.                     *)
(*                                                                         *)
(* A process that starts anew is another owner (its start time differs):   *)
(* an owner that is gone is NoLongerAlive.  /proc can be read.             *)
(***************************************************************************)
EXTENDS Naturals, FiniteSets

CONSTANTS
  Gateways,       \* processes, each started any number of times
  Supervised,     \* those a supervisor starts again when they end
  NobodyYet,      \* the lock file has no owner in it
  NoLongerAlive,  \* its owner's process has ended
  MaxFaults       \* bound: crashes and failing starts

ASSUME LockAssumption == /\ Supervised \subseteq Gateways
                         /\ NobodyYet \notin Gateways /\ NoLongerAlive \notin Gateways
                         /\ MaxFaults \in Nat

VARIABLES
  phase,      \* where each process is
  holding,    \* gateways whose `lock` is not null
  restarted,  \* gateways past their first start
  stopping,   \* gateways that close to stop, not to restart
  lockFile,   \* the file: exists, creator, written (its payload), aged (past staleMs)
  ownerSeen,  \* lastPayload's pid
  met,        \* history: gateways that served when this one began to acquire
  lockFaults

loopState == <<holding, restarted, stopping>>
lockVars == <<phase, loopState, lockFile, ownerSeen, met, lockFaults>>

NoFile == [exists |-> FALSE, creator |-> NobodyYet, written |-> FALSE, aged |-> FALSE]
Phases == {"off", "down", "acquiring", "again", "writing", "probing", "removing",
           "starting", "serving", "idle", "closing"}

Serving == {g \in Gateways : phase[g] = "serving"}
\* checkPortFree, seen from a gateway that does not serve itself
PortFree == Serving = {}

LockInit ==
  /\ phase = [g \in Gateways |-> "off"]
  /\ holding = {} /\ restarted = {} /\ stopping = {}
  /\ lockFile = NoFile
  /\ ownerSeen = [g \in Gateways |-> NobodyYet]
  /\ met = [g \in Gateways |-> {}]
  /\ lockFaults = 0

Goto(g, p) == phase' = [phase EXCEPT ![g] = p]

\* A gateway that stops serving is nobody's acquaintance any more.
Forget(g) == met' = [q \in Gateways |-> IF q = g THEN {} ELSE met[q] \ {g}]

BeginAcquire(g) ==
  /\ Goto(g, "acquiring")
  /\ ownerSeen' = [ownerSeen EXCEPT ![g] = NobodyYet]
  /\ met' = [met EXCEPT ![g] = Serving]

-----------------------------------------------------------------------------
(* acquireGatewayLock *)

Ended(g) == phase[g] \in {"off", "down"}

Launch(g) ==
  /\ Ended(g)
  /\ BeginAcquire(g)
  /\ UNCHANGED <<loopState, lockFile, lockFaults>>

\* open(path, "wx")
OpenLock(g) ==
  /\ phase[g] \in {"acquiring", "again"}
  /\ ~lockFile.exists
  /\ lockFile' = [NoFile EXCEPT !.exists = TRUE, !.creator = g]
  /\ Goto(g, "writing")
  /\ UNCHANGED <<loopState, ownerSeen, met, lockFaults>>

\* The payload goes to the file opened, which may have been removed since.
WriteLock(g) ==
  /\ phase[g] = "writing"
  /\ lockFile' = IF lockFile.creator = g
                   THEN [lockFile EXCEPT !.written = TRUE, !.aged = FALSE] ELSE lockFile
  /\ holding' = holding \cup {g}
  /\ Goto(g, "starting")
  /\ UNCHANGED <<restarted, stopping, ownerSeen, met, lockFaults>>

\* EEXIST, and readLockPayload
ReadLock(g) ==
  /\ phase[g] \in {"acquiring", "again"}
  /\ lockFile.exists
  /\ ownerSeen' = [ownerSeen EXCEPT
       ![g] = IF lockFile.written THEN lockFile.creator ELSE NobodyYet]
  /\ Goto(g, "probing")
  /\ UNCHANGED <<loopState, lockFile, met, lockFaults>>

OwnerDead(g) == ownerSeen[g] # NobodyYet /\ (PortFree \/ ownerSeen[g] = NoLongerAlive)
\* Fault: a live owner's lock also expires.
StaleWhoever(g) == lockFile.exists /\ lockFile.aged
\* Fault: only a lock that names its owner expires.
StaleNever(g) == FALSE
\* Only a lock whose owner is unknown is judged by its age.
Stale(g) == ownerSeen[g] = NobodyYet /\ lockFile.exists /\ lockFile.aged

\* resolveGatewayOwnerStatus and the choice to remove or to wait
ProbeOwner(g) ==
  /\ phase[g] = "probing"
  /\ Goto(g, IF OwnerDead(g) \/ Stale(g) THEN "removing" ELSE "again")
  /\ UNCHANGED <<loopState, lockFile, ownerSeen, met, lockFaults>>

RemoveLock(g) ==
  /\ phase[g] = "removing"
  /\ lockFile' = NoFile
  /\ Goto(g, "again")
  /\ UNCHANGED <<loopState, ownerSeen, met, lockFaults>>

\* The deadline has passed: "gateway already running".  The process ends; a
\* supervised one tries again.
GiveUp(g) ==
  /\ phase[g] = "again"
  /\ Goto(g, "down")
  /\ Forget(g)
  /\ restarted' = restarted \ {g}
  /\ UNCHANGED <<holding, stopping, lockFile, ownerSeen, lockFaults>>

LockAges ==
  /\ lockFile.exists /\ ~lockFile.aged
  /\ lockFile' = [lockFile EXCEPT !.aged = TRUE]
  /\ UNCHANGED <<phase, loopState, ownerSeen, met, lockFaults>>

-----------------------------------------------------------------------------
(* The run loop around it *)

\* params.start() binds the port.
Bind(g) ==
  /\ phase[g] = "starting" /\ PortFree
  /\ Goto(g, "serving")
  /\ UNCHANGED <<loopState, lockFile, ownerSeen, met, lockFaults>>

\* releaseLockIfHeld
Release(g) ==
  /\ lockFile' = IF g \in holding THEN NoFile ELSE lockFile
  /\ holding' = holding \ {g}

\* The port is taken (EADDRINUSE), or the start fails for a reason of its own:
\* the first start ends the process, a later one leaves it idle.
StartFails(g) ==
  /\ phase[g] = "starting"
  /\ IF PortFree THEN lockFaults < MaxFaults /\ lockFaults' = lockFaults + 1
                 ELSE UNCHANGED lockFaults
  /\ Release(g)
  /\ Goto(g, IF g \in restarted THEN "idle" ELSE "down")
  /\ Forget(g)
  /\ UNCHANGED <<restarted, stopping, ownerSeen>>

\* The server, if there is one, has closed: the port is free, the lock still there.
CloseGateway(g, stop) ==
  /\ phase[g] \in {"serving", "idle"}
  /\ Goto(g, "closing")
  /\ Forget(g)
  /\ stopping' = IF stop THEN stopping \cup {g} ELSE stopping \ {g}
  /\ UNCHANGED <<holding, restarted, lockFile, ownerSeen, lockFaults>>

\* A stop, or a restart for which another process takes over, ends the process;
\* a restart in the process acquires again the lock it held.
ReleaseAndExit(g) ==
  /\ phase[g] = "closing"
  /\ Release(g)
  /\ Goto(g, "down") /\ Forget(g)
  /\ restarted' = restarted \ {g} /\ stopping' = stopping \ {g}
  /\ UNCHANGED <<ownerSeen, lockFaults>>

ReleaseAndRestart(g) ==
  /\ phase[g] = "closing" /\ g \notin stopping
  /\ Release(g)
  /\ IF g \in holding
       THEN BeginAcquire(g)
       ELSE Goto(g, "starting") /\ UNCHANGED <<ownerSeen, met>>
  /\ restarted' = restarted \cup {g}
  /\ UNCHANGED <<stopping, lockFaults>>

\* Killed, or forced to exit: what it holds stays behind.
KillGateway(g) ==
  /\ ~Ended(g) /\ lockFaults < MaxFaults
  /\ lockFaults' = lockFaults + 1
  /\ Goto(g, "down") /\ Forget(g)
  /\ holding' = holding \ {g} /\ restarted' = restarted \ {g} /\ stopping' = stopping \ {g}
  /\ lockFile' = IF lockFile.creator = g THEN [lockFile EXCEPT !.creator = NoLongerAlive]
                                         ELSE lockFile
  /\ ownerSeen' = [q \in Gateways |-> IF ownerSeen[q] = g THEN NoLongerAlive ELSE ownerSeen[q]]

\* A process that has run before is started again.
Relaunch(g) == phase[g] = "down" /\ Launch(g)

AcquireStep(g) == OpenLock(g) \/ WriteLock(g) \/ ReadLock(g) \/ ProbeOwner(g) \/ RemoveLock(g)
OwnStep(g) ==
  AcquireStep(g) \/ Bind(g) \/ StartFails(g) \/ ReleaseAndExit(g) \/ ReleaseAndRestart(g)

LockNext ==
  \/ \E g \in Gateways :
       \/ Launch(g) \/ AcquireStep(g) \/ GiveUp(g)
       \/ Bind(g) \/ StartFails(g) \/ (\E s \in BOOLEAN : CloseGateway(g, s))
       \/ ReleaseAndExit(g) \/ ReleaseAndRestart(g) \/ KillGateway(g)
  \/ LockAges

\* What the processes do of themselves.  A supervisor starts those it watches; a
\* file gets older.
LockFair ==
  /\ \A g \in Supervised : WF_lockVars(Relaunch(g))
  /\ \A g \in Gateways : WF_lockVars(OwnStep(g))
  /\ WF_lockVars(LockAges)

LockSpec == LockInit /\ [][LockNext]_lockVars /\ LockFair

-----------------------------------------------------------------------------
LockTypeOK ==
  /\ phase \in [Gateways -> Phases]
  /\ holding \subseteq Gateways /\ restarted \subseteq Gateways /\ stopping \subseteq Gateways
  /\ lockFile \in [exists : BOOLEAN, creator : Gateways \cup {NobodyYet, NoLongerAlive},
                   written : BOOLEAN, aged : BOOLEAN]
  /\ ownerSeen \in [Gateways -> Gateways \cup {NobodyYet, NoLongerAlive}]
  /\ met \in [Gateways -> SUBSET Gateways]
  /\ lockFaults \in 0..MaxFaults

\* A gateway serves, its lock file in place, and every other one that runs began
\* to acquire while it was serving.
Established(g) ==
  /\ g \in Serving /\ lockFile.creator = g /\ lockFile.written
  /\ \A q \in Gateways \ {g} : ~Ended(q) => g \in met[q]

\* A process that begins to acquire while a gateway serves never takes that
\* gateway's lock, neither by judging it dead or stale nor by releasing a lock
\* of its own: the file stays the server's as long as it serves.
ServerKeepsLock ==
  [][\A g \in Gateways :
       Established(g) /\ phase'[g] = "serving" => lockFile'.creator = g]_lockVars

\* Whatever a crash leaves behind (a lock of a dead process, a file that was
\* opened but never written), a supervised gateway that stays alone gets through
\* to serving again and again: no lock file keeps it out for ever.
NoLockOut ==
  \A g \in Supervised :
    <>[](phase[g] # "off" /\ \A q \in Gateways \ {g} : Ended(q))
      => []<>(phase[g] \in {"serving", "idle"})
=============================================================================
