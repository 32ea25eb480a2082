----------------------- MODULE GatewayServicesProofs -----------------------
(***************************************************************************)
(* The lock, the cron service and the sub-agent registry, each for any     *)
(* values of its constants, and then the composition: every behaviour of   *)
(* GatewayServices is one of each service, so what is proved of a service  *)
(* holds in it.                                                            *)
(***************************************************************************)
EXTENDS GatewayServices, DeliveryQueueProofs, ExecApprovalsProofs, HeartbeatWakeProofs

-----------------------------------------------------------------------------
(* The lock.  A gateway that serves with its own file in place wrote it     *)
(* before it served, so whoever has met it can only have read that it is    *)
(* the owner, and waits.                                                    *)

Owns(g) == lockFile.creator = g

MetServe == \A q \in Gateways : met[q] \subseteq Serving

\* What is known of a file that belongs to a process.
FileKnown ==
  /\ lockFile.creator # NobodyYet => lockFile.exists
  /\ \A g \in Gateways :
       Owns(g) /\ phase[g] \in {"starting", "serving", "idle", "closing"} => lockFile.written

HoldersRun == \A g \in Gateways : g \in holding => phase[g] \in {"starting", "serving", "closing"}

\* Those who met a server that has its file wait for it.
Waits(q, g) ==
  /\ phase[q] \in {"acquiring", "again", "probing"}
  /\ ownerSeen[q] \in {NobodyYet, g}
  /\ phase[q] = "probing" => ownerSeen[q] = g
OutsidersWait ==
  \A g \in Serving : Owns(g) => \A q \in Gateways \ {g} : g \in met[q] => Waits(q, g)

LockInv == LockTypeOK /\ MetServe /\ FileKnown /\ HoldersRun /\ OutsidersWait

Owners == Gateways \cup {NobodyYet, NoLongerAlive}
\* What ServerKeepsLock says of a step.
Kept == \A g \in Gateways : Established(g) /\ phase'[g] = "serving" => Owns(g)'

LEMMA GotoLemma ==
  ASSUME LockTypeOK, NEW g \in Gateways, NEW p \in Phases, Goto(g, p)
  PROVE  /\ phase' \in [Gateways -> Phases] /\ phase'[g] = p
         /\ \A q \in Gateways \ {g} : phase'[q] = phase[q]
  BY DEF Goto, LockTypeOK

LEMMA ForgetLemma ==
  ASSUME LockTypeOK, NEW g \in Gateways, Forget(g)
  PROVE  /\ met' \in [Gateways -> SUBSET Gateways] /\ met'[g] = {}
         /\ \A q \in Gateways \ {g} : met'[q] = met[q] \ {g}
  BY DEF Forget, LockTypeOK

LEMMA BeginLemma ==
  ASSUME LockTypeOK, NEW g \in Gateways, BeginAcquire(g)
  PROVE  /\ phase' \in [Gateways -> Phases] /\ phase'[g] = "acquiring"
         /\ \A q \in Gateways \ {g} : phase'[q] = phase[q]
         /\ ownerSeen' \in [Gateways -> Owners] /\ ownerSeen'[g] = NobodyYet
         /\ \A q \in Gateways \ {g} : ownerSeen'[q] = ownerSeen[q]
         /\ met' \in [Gateways -> SUBSET Gateways] /\ met'[g] = Serving
         /\ \A q \in Gateways \ {g} : met'[q] = met[q]
  BY DEF BeginAcquire, Goto, LockTypeOK, Owners, Serving, Phases

\* The file is removed by its path, or stays.
LEMMA ReleaseLemma ==
  ASSUME LockInv, NEW g \in Gateways, Release(g)
  PROVE  /\ lockFile' \in {NoFile, lockFile} /\ (g \notin holding => lockFile' = lockFile)
         /\ holding' = holding \ {g}
         /\ lockFile' \in [exists : BOOLEAN, creator : Owners, written : BOOLEAN, aged : BOOLEAN]
  BY DEF Release, NoFile, LockInv, LockTypeOK, Owners

\* A gateway with its file in place, and whoever else runs: it waits, and holds no lock.
LEMMA EstablishedLemma ==
  ASSUME LockInv, NEW g \in Gateways, Established(g), NEW q \in Gateways \ {g}, ~Ended(q)
  PROVE  Waits(q, g) /\ q \notin holding
  BY DEF LockInv, Established, OutsidersWait, Owns, HoldersRun, Waits, Serving

LEMMA LockInitInv == LockInit => LockInv
<1> SUFFICES ASSUME LockInit PROVE LockInv
  OBVIOUS
<1>1. LockTypeOK
  BY LockAssumption DEF LockInit, LockTypeOK, NoFile, Phases
<1>2. Serving = {} /\ lockFile.creator = NobodyYet
  BY DEF LockInit, NoFile, Serving
<1> QED
  BY <1>1, <1>2, LockAssumption
     DEF LockInit, LockInv, MetServe, FileKnown, HoldersRun, OutsidersWait, Owns

LEMMA LaunchStep ==
  ASSUME LockInv, NEW g \in Gateways, Launch(g)
  PROVE  LockInv' /\ Kept
<1> USE DEF LockInv
<1>1. /\ phase' \in [Gateways -> Phases] /\ phase'[g] = "acquiring"
      /\ \A q \in Gateways \ {g} : phase'[q] = phase[q]
      /\ ownerSeen' \in [Gateways -> Owners] /\ ownerSeen'[g] = NobodyYet
      /\ \A q \in Gateways \ {g} : ownerSeen'[q] = ownerSeen[q]
      /\ met' \in [Gateways -> SUBSET Gateways] /\ met'[g] = Serving
      /\ \A q \in Gateways \ {g} : met'[q] = met[q]
      /\ Ended(g) /\ UNCHANGED <<holding, restarted, stopping, lockFile, lockFaults>>
  BY BeginLemma DEF Launch, loopState
<1>2. Serving' = Serving
  BY <1>1 DEF Serving, Ended
<1>3. LockTypeOK'
  BY <1>1 DEF LockTypeOK, Owners
<1>4. MetServe' /\ FileKnown' /\ HoldersRun'
  BY <1>1, <1>2 DEF MetServe, FileKnown, HoldersRun, Owns, Ended
<1>5. OutsidersWait'
  BY <1>1, <1>2 DEF OutsidersWait, Waits, Owns
<1>6. Kept
  BY <1>1 DEF Kept, Established, Owns
<1> QED
  BY <1>3, <1>4, <1>5, <1>6

LEMMA OpenLockStep ==
  ASSUME LockInv, NEW g \in Gateways, OpenLock(g)
  PROVE  LockInv' /\ Kept
<1> USE DEF LockInv
<1>1. /\ phase[g] \in {"acquiring", "again"} /\ ~lockFile.exists
      /\ lockFile' = [exists |-> TRUE, creator |-> g, written |-> FALSE, aged |-> FALSE]
      /\ phase' \in [Gateways -> Phases] /\ phase'[g] = "writing"
      /\ \A q \in Gateways \ {g} : phase'[q] = phase[q]
      /\ UNCHANGED <<holding, restarted, stopping, ownerSeen, met, lockFaults>>
  BY GotoLemma DEF OpenLock, loopState, Phases, NoFile
<1>2. Serving' = Serving
  BY <1>1 DEF Serving
<1>3. LockTypeOK'
  BY <1>1 DEF LockTypeOK
<1>4. MetServe' /\ FileKnown' /\ HoldersRun'
  BY <1>1, <1>2, LockAssumption DEF MetServe, FileKnown, HoldersRun, Owns
<1>5. OutsidersWait'
  BY <1>1, <1>2 DEF OutsidersWait, Owns, Serving
<1>6. Kept
  BY <1>1, LockAssumption DEF Kept, Established, Owns, FileKnown
<1> QED
  BY <1>3, <1>4, <1>5, <1>6

LEMMA WriteLockStep ==
  ASSUME LockInv, NEW g \in Gateways, WriteLock(g)
  PROVE  LockInv' /\ Kept
<1> USE DEF LockInv
<1>1. /\ phase[g] = "writing"
      /\ lockFile' = IF lockFile.creator = g
                       THEN [lockFile EXCEPT !.written = TRUE, !.aged = FALSE] ELSE lockFile
      /\ holding' = holding \cup {g}
      /\ phase' \in [Gateways -> Phases] /\ phase'[g] = "starting"
      /\ \A q \in Gateways \ {g} : phase'[q] = phase[q]
      /\ UNCHANGED <<restarted, stopping, ownerSeen, met, lockFaults>>
  BY GotoLemma DEF WriteLock, Phases
<1>2. /\ lockFile' \in [exists : BOOLEAN, creator : Owners, written : BOOLEAN, aged : BOOLEAN]
      /\ lockFile'.creator = lockFile.creator /\ lockFile'.exists = lockFile.exists
      /\ lockFile.creator = g => lockFile'.written
      /\ lockFile.creator # g => lockFile'.written = lockFile.written
  BY <1>1 DEF LockTypeOK, Owners
<1>3. Serving' = Serving
  BY <1>1 DEF Serving
<1>4. LockTypeOK'
  BY <1>1, <1>2 DEF LockTypeOK, Owners
<1>5. MetServe' /\ FileKnown' /\ HoldersRun'
  BY <1>1, <1>2, <1>3 DEF MetServe, FileKnown, HoldersRun, Owns
<1>6. OutsidersWait'
  BY <1>1, <1>2, <1>3 DEF OutsidersWait, Waits, Owns
<1>7. Kept
  BY <1>1, <1>2 DEF Kept, Established, Owns
<1> QED
  BY <1>4, <1>5, <1>6, <1>7

LEMMA ReadLockStep ==
  ASSUME LockInv, NEW g \in Gateways, ReadLock(g)
  PROVE  LockInv' /\ Kept
<1> USE DEF LockInv
<1>1. /\ phase[g] \in {"acquiring", "again"} /\ lockFile.exists
      /\ ownerSeen' = [ownerSeen EXCEPT
           ![g] = IF lockFile.written THEN lockFile.creator ELSE NobodyYet]
      /\ phase' \in [Gateways -> Phases] /\ phase'[g] = "probing"
      /\ \A q \in Gateways \ {g} : phase'[q] = phase[q]
      /\ UNCHANGED <<holding, restarted, stopping, lockFile, met, lockFaults>>
  BY GotoLemma DEF ReadLock, loopState, Phases
<1>2. /\ ownerSeen' \in [Gateways -> Owners]
      /\ ownerSeen'[g] = IF lockFile.written THEN lockFile.creator ELSE NobodyYet
      /\ \A q \in Gateways \ {g} : ownerSeen'[q] = ownerSeen[q]
  BY <1>1 DEF LockTypeOK, Owners
<1>3. Serving' = Serving
  BY <1>1 DEF Serving
<1>4. LockTypeOK'
  BY <1>1, <1>2 DEF LockTypeOK, Owners
<1>5. MetServe' /\ FileKnown' /\ HoldersRun'
  BY <1>1, <1>3 DEF MetServe, FileKnown, HoldersRun, Owns
<1>6. \A o \in Serving : Owns(o) => lockFile.written
  BY DEF FileKnown, Serving
<1>7. OutsidersWait'
  BY <1>1, <1>2, <1>3, <1>6 DEF OutsidersWait, Waits, Owns
<1>8. Kept
  BY <1>1 DEF Kept, Established, Owns
<1> QED
  BY <1>4, <1>5, <1>7, <1>8

\* Who has read that a server owns the file finds the owner alive: the port is not free.
LEMMA ProbeOwnerStep ==
  ASSUME LockInv, NEW g \in Gateways, ProbeOwner(g)
  PROVE  LockInv' /\ Kept
<1> USE DEF LockInv
<1>1. /\ phase[g] = "probing"
      /\ phase' \in [Gateways -> Phases] /\ phase'[g] \in {"removing", "again"}
      /\ phase'[g] = "removing" => OwnerDead(g) \/ Stale(g)
      /\ \A q \in Gateways \ {g} : phase'[q] = phase[q]
      /\ UNCHANGED <<holding, restarted, stopping, lockFile, ownerSeen, met, lockFaults>>
  BY GotoLemma DEF ProbeOwner, loopState, Phases
<1>2. Serving' = Serving
  BY <1>1 DEF Serving
<1>3. LockTypeOK'
  BY <1>1 DEF LockTypeOK
<1>4. MetServe' /\ FileKnown' /\ HoldersRun'
  BY <1>1, <1>2 DEF MetServe, FileKnown, HoldersRun, Owns
<1>5. ASSUME NEW o \in Serving, Owns(o), g \in Gateways \ {o}, o \in met[g]
      PROVE  phase'[g] = "again"
  <2>1. ownerSeen[g] = o /\ o \in Gateways
    BY <1>1, <1>5 DEF OutsidersWait, Waits, Serving
  <2>2. ~OwnerDead(g) /\ ~Stale(g)
    BY <1>5, <2>1, LockAssumption DEF OwnerDead, Stale, PortFree
  <2> QED
    BY <1>1, <2>2
<1>6. OutsidersWait'
  BY <1>1, <1>2, <1>5 DEF OutsidersWait, Waits, Owns
<1>7. Kept
  BY <1>1 DEF Kept, Established, Owns
<1> QED
  BY <1>3, <1>4, <1>6, <1>7

LEMMA RemoveLockStep ==
  ASSUME LockInv, NEW g \in Gateways, RemoveLock(g)
  PROVE  LockInv' /\ Kept
<1> USE DEF LockInv
<1>1. /\ phase[g] = "removing" /\ lockFile' = NoFile
      /\ phase' \in [Gateways -> Phases] /\ phase'[g] = "again"
      /\ \A q \in Gateways \ {g} : phase'[q] = phase[q]
      /\ UNCHANGED <<holding, restarted, stopping, ownerSeen, met, lockFaults>>
  BY GotoLemma DEF RemoveLock, loopState, Phases
<1>2. Serving' = Serving
  BY <1>1 DEF Serving
<1>3. LockTypeOK'
  BY <1>1 DEF LockTypeOK, NoFile
<1>4. MetServe' /\ FileKnown' /\ HoldersRun' /\ OutsidersWait'
  BY <1>1, <1>2, LockAssumption
     DEF MetServe, FileKnown, HoldersRun, OutsidersWait, Owns, NoFile, Serving
<1>5. Kept
  BY <1>1, EstablishedLemma DEF Kept, Waits, Ended, Established, Serving
<1> QED
  BY <1>3, <1>4, <1>5

LEMMA GiveUpStep ==
  ASSUME LockInv, NEW g \in Gateways, GiveUp(g)
  PROVE  LockInv' /\ Kept
<1> USE DEF LockInv
<1>1. /\ phase[g] = "again"
      /\ phase' \in [Gateways -> Phases] /\ phase'[g] = "down"
      /\ \A q \in Gateways \ {g} : phase'[q] = phase[q]
      /\ met' \in [Gateways -> SUBSET Gateways] /\ met'[g] = {}
      /\ \A q \in Gateways \ {g} : met'[q] = met[q] \ {g}
      /\ restarted' = restarted \ {g}
      /\ UNCHANGED <<holding, stopping, lockFile, ownerSeen, lockFaults>>
  BY GotoLemma, ForgetLemma DEF GiveUp, Phases
<1>2. Serving' = Serving /\ g \notin Serving
  BY <1>1 DEF Serving
<1>3. LockTypeOK'
  BY <1>1 DEF LockTypeOK
<1>4. MetServe' /\ FileKnown' /\ HoldersRun'
  BY <1>1, <1>2 DEF MetServe, FileKnown, HoldersRun, Owns
<1>5. OutsidersWait'
  BY <1>1, <1>2 DEF OutsidersWait, Waits, Owns
<1>6. Kept
  BY <1>1 DEF Kept, Established, Owns
<1> QED
  BY <1>3, <1>4, <1>5, <1>6

LEMMA LockAgesStep ==
  ASSUME LockInv, LockAges
  PROVE  LockInv' /\ Kept
<1> USE DEF LockInv
<1>1. /\ lockFile' = [lockFile EXCEPT !.aged = TRUE]
      /\ UNCHANGED <<phase, holding, restarted, stopping, ownerSeen, met, lockFaults>>
  BY DEF LockAges, loopState
<1>2. /\ lockFile' \in [exists : BOOLEAN, creator : Owners, written : BOOLEAN, aged : BOOLEAN]
      /\ lockFile'.creator = lockFile.creator /\ lockFile'.exists = lockFile.exists
      /\ lockFile'.written = lockFile.written
  BY <1>1 DEF LockTypeOK, Owners
<1>3. LockTypeOK'
  BY <1>1, <1>2 DEF LockTypeOK, Owners
<1>4. MetServe' /\ FileKnown' /\ HoldersRun' /\ OutsidersWait' /\ Kept
  BY <1>1, <1>2
     DEF MetServe, FileKnown, HoldersRun, OutsidersWait, Waits, Owns, Serving, Kept, Established
<1> QED
  BY <1>3, <1>4

\* Nobody has met a gateway that only begins to serve.
LEMMA BindStep ==
  ASSUME LockInv, NEW g \in Gateways, Bind(g)
  PROVE  LockInv' /\ Kept
<1> USE DEF LockInv
<1>1. /\ phase[g] = "starting" /\ Serving = {}
      /\ phase' \in [Gateways -> Phases] /\ phase'[g] = "serving"
      /\ \A q \in Gateways \ {g} : phase'[q] = phase[q]
      /\ UNCHANGED <<holding, restarted, stopping, lockFile, ownerSeen, met, lockFaults>>
  BY GotoLemma DEF Bind, loopState, Phases, PortFree
<1>2. \A q \in Gateways : met[q] = {}
  BY <1>1 DEF MetServe
<1>3. LockTypeOK'
  BY <1>1 DEF LockTypeOK
<1>4. MetServe' /\ FileKnown' /\ HoldersRun' /\ OutsidersWait'
  BY <1>1, <1>2 DEF MetServe, FileKnown, HoldersRun, OutsidersWait, Owns, Serving
<1>5. Kept
  BY <1>1 DEF Kept, Established, Owns
<1> QED
  BY <1>3, <1>4, <1>5

\* What a process leaves behind that releases what it holds, or loses its lock, is not
\* the file of a server it has met.
LEMMA ReleaseKeeps ==
  ASSUME LockInv, NEW g \in Gateways, Release(g), ~Ended(g), phase'[g] # "serving"
  PROVE  Kept
<1> SUFFICES ASSUME NEW o \in Gateways, Established(o), phase'[o] = "serving"
             PROVE  Owns(o)'
  BY DEF Kept
<1>1. g # o
  OBVIOUS
<1>2. g \notin holding
  BY <1>1, EstablishedLemma
<1> QED
  BY <1>2, ReleaseLemma DEF Established, Owns

LEMMA StartFailsStep ==
  ASSUME LockInv, NEW g \in Gateways, StartFails(g)
  PROVE  LockInv' /\ Kept
<1> USE DEF LockInv
<1>1. /\ phase[g] = "starting" /\ Release(g)
      /\ phase' \in [Gateways -> Phases] /\ phase'[g] \in {"idle", "down"}
      /\ \A q \in Gateways \ {g} : phase'[q] = phase[q]
      /\ met' \in [Gateways -> SUBSET Gateways] /\ met'[g] = {}
      /\ \A q \in Gateways \ {g} : met'[q] = met[q] \ {g}
      /\ UNCHANGED <<restarted, stopping, ownerSeen>>
  BY GotoLemma, ForgetLemma DEF StartFails, Phases
<1>2. lockFaults' \in 0..MaxFaults
  BY LockAssumption DEF StartFails, LockTypeOK
<1>3. /\ lockFile' \in {NoFile, lockFile} /\ (g \notin holding => lockFile' = lockFile)
      /\ holding' = holding \ {g}
      /\ lockFile' \in [exists : BOOLEAN, creator : Owners, written : BOOLEAN, aged : BOOLEAN]
  BY <1>1, ReleaseLemma
<1>4. Serving' = Serving /\ g \notin Serving
  BY <1>1 DEF Serving
<1>5. LockTypeOK'
  BY <1>1, <1>2, <1>3 DEF LockTypeOK, Owners
<1>6. MetServe' /\ FileKnown' /\ HoldersRun'
  BY <1>1, <1>3, <1>4, LockAssumption DEF MetServe, FileKnown, HoldersRun, Owns, NoFile
<1>7. OutsidersWait'
  BY <1>1, <1>3, <1>4, LockAssumption DEF OutsidersWait, Waits, Owns, NoFile, Serving
<1>8. Kept
  BY <1>1, ReleaseKeeps DEF Ended
<1> QED
  BY <1>5, <1>6, <1>7, <1>8

LEMMA CloseGatewayStep ==
  ASSUME LockInv, NEW g \in Gateways, NEW stop \in BOOLEAN, CloseGateway(g, stop)
  PROVE  LockInv' /\ Kept
<1> USE DEF LockInv
<1>1. /\ phase[g] \in {"serving", "idle"}
      /\ phase' \in [Gateways -> Phases] /\ phase'[g] = "closing"
      /\ \A q \in Gateways \ {g} : phase'[q] = phase[q]
      /\ met' \in [Gateways -> SUBSET Gateways] /\ met'[g] = {}
      /\ \A q \in Gateways \ {g} : met'[q] = met[q] \ {g}
      /\ stopping' \in {stopping \cup {g}, stopping \ {g}}
      /\ UNCHANGED <<holding, restarted, lockFile, ownerSeen, lockFaults>>
  BY GotoLemma, ForgetLemma DEF CloseGateway, Phases
<1>2. Serving' = Serving \ {g}
  BY <1>1 DEF Serving
<1>3. LockTypeOK'
  BY <1>1 DEF LockTypeOK
<1>4. MetServe' /\ FileKnown' /\ HoldersRun'
  BY <1>1, <1>2 DEF MetServe, FileKnown, HoldersRun, Owns
<1>5. OutsidersWait'
  BY <1>1, <1>2 DEF OutsidersWait, Waits, Owns
<1>6. Kept
  BY <1>1 DEF Kept, Established, Owns
<1> QED
  BY <1>3, <1>4, <1>5, <1>6

LEMMA ReleaseAndExitStep ==
  ASSUME LockInv, NEW g \in Gateways, ReleaseAndExit(g)
  PROVE  LockInv' /\ Kept
<1> USE DEF LockInv
<1>1. /\ phase[g] = "closing" /\ Release(g)
      /\ phase' \in [Gateways -> Phases] /\ phase'[g] = "down"
      /\ \A q \in Gateways \ {g} : phase'[q] = phase[q]
      /\ met' \in [Gateways -> SUBSET Gateways] /\ met'[g] = {}
      /\ \A q \in Gateways \ {g} : met'[q] = met[q] \ {g}
      /\ restarted' = restarted \ {g} /\ stopping' = stopping \ {g}
      /\ UNCHANGED <<ownerSeen, lockFaults>>
  BY GotoLemma, ForgetLemma DEF ReleaseAndExit, Phases
<1>2. /\ lockFile' \in {NoFile, lockFile} /\ (g \notin holding => lockFile' = lockFile)
      /\ holding' = holding \ {g}
      /\ lockFile' \in [exists : BOOLEAN, creator : Owners, written : BOOLEAN, aged : BOOLEAN]
  BY <1>1, ReleaseLemma
<1>3. Serving' = Serving /\ g \notin Serving
  BY <1>1 DEF Serving
<1>4. LockTypeOK'
  BY <1>1, <1>2 DEF LockTypeOK, Owners
<1>5. MetServe' /\ FileKnown' /\ HoldersRun'
  BY <1>1, <1>2, <1>3, LockAssumption DEF MetServe, FileKnown, HoldersRun, Owns, NoFile
<1>6. OutsidersWait'
  BY <1>1, <1>2, <1>3, LockAssumption DEF OutsidersWait, Waits, Owns, NoFile, Serving
<1>7. Kept
  BY <1>1, ReleaseKeeps DEF Ended
<1> QED
  BY <1>4, <1>5, <1>6, <1>7

\* A process that acquires anew has given up the lock it held.
LEMMA ReleaseAndRestartStep ==
  ASSUME LockInv, NEW g \in Gateways, ReleaseAndRestart(g)
  PROVE  LockInv' /\ Kept
<1> USE DEF LockInv
<1>1. /\ phase[g] = "closing" /\ Release(g)
      /\ restarted' = restarted \cup {g} /\ UNCHANGED <<stopping, lockFaults>>
  BY DEF ReleaseAndRestart
<1>2. /\ lockFile' \in {NoFile, lockFile} /\ (g \notin holding => lockFile' = lockFile)
      /\ (g \in holding => lockFile' = NoFile)
      /\ holding' = holding \ {g}
      /\ lockFile' \in [exists : BOOLEAN, creator : Owners, written : BOOLEAN, aged : BOOLEAN]
  BY <1>1, ReleaseLemma DEF Release
<1>3. CASE g \in holding
  <2>1. /\ phase' \in [Gateways -> Phases] /\ phase'[g] = "acquiring"
        /\ \A q \in Gateways \ {g} : phase'[q] = phase[q]
        /\ ownerSeen' \in [Gateways -> Owners]
        /\ met' \in [Gateways -> SUBSET Gateways] /\ met'[g] = Serving
        /\ \A q \in Gateways \ {g} : met'[q] = met[q]
    BY <1>3, BeginLemma DEF ReleaseAndRestart
  <2>2. Serving' = Serving
    BY <1>1, <2>1 DEF Serving
  <2>3. LockTypeOK'
    BY <1>1, <1>2, <2>1 DEF LockTypeOK, Owners
  <2>4. MetServe' /\ FileKnown' /\ HoldersRun' /\ OutsidersWait'
    BY <1>2, <1>3, <2>1, <2>2, LockAssumption
       DEF MetServe, FileKnown, HoldersRun, OutsidersWait, Owns, NoFile, Serving
  <2>5. Kept
    BY <1>1, <2>1, ReleaseKeeps DEF Ended
  <2> QED
    BY <2>3, <2>4, <2>5
<1>4. CASE g \notin holding
  <2>1. /\ phase' \in [Gateways -> Phases] /\ phase'[g] = "starting"
        /\ \A q \in Gateways \ {g} : phase'[q] = phase[q]
        /\ UNCHANGED <<ownerSeen, met>>
    BY <1>4, GotoLemma DEF ReleaseAndRestart, Phases
  <2>2. Serving' = Serving
    BY <1>1, <2>1 DEF Serving
  <2>3. LockTypeOK'
    BY <1>1, <1>2, <2>1 DEF LockTypeOK, Owners
  <2>4. MetServe' /\ FileKnown' /\ HoldersRun'
    BY <1>1, <1>2, <1>4, <2>1, <2>2 DEF MetServe, FileKnown, HoldersRun, Owns
  <2>5. OutsidersWait'
    BY <1>1, <1>2, <1>4, <2>1, <2>2 DEF OutsidersWait, Waits, Owns
  <2>6. Kept
    BY <1>1, <2>1, ReleaseKeeps DEF Ended
  <2> QED
    BY <2>3, <2>4, <2>5, <2>6
<1> QED
  BY <1>3, <1>4

LEMMA KillGatewayStep ==
  ASSUME LockInv, NEW g \in Gateways, KillGateway(g)
  PROVE  LockInv' /\ Kept
<1> USE DEF LockInv
<1>1. /\ phase' \in [Gateways -> Phases] /\ phase'[g] = "down"
      /\ \A q \in Gateways \ {g} : phase'[q] = phase[q]
      /\ met' \in [Gateways -> SUBSET Gateways] /\ met'[g] = {}
      /\ \A q \in Gateways \ {g} : met'[q] = met[q] \ {g}
      /\ holding' = holding \ {g} /\ restarted' = restarted \ {g} /\ stopping' = stopping \ {g}
      /\ lockFile' = IF lockFile.creator = g THEN [lockFile EXCEPT !.creator = NoLongerAlive]
                                             ELSE lockFile
  BY GotoLemma, ForgetLemma DEF KillGateway, Phases
<1>2. /\ ownerSeen' \in [Gateways -> Owners]
      /\ \A q \in Gateways : ownerSeen'[q] = IF ownerSeen[q] = g THEN NoLongerAlive ELSE ownerSeen[q]
  BY DEF KillGateway, LockTypeOK, Owners
<1>3. lockFaults' \in 0..MaxFaults
  BY LockAssumption DEF KillGateway, LockTypeOK
<1>4. /\ lockFile' \in [exists : BOOLEAN, creator : Owners, written : BOOLEAN, aged : BOOLEAN]
      /\ lockFile'.exists = lockFile.exists /\ lockFile'.written = lockFile.written
      /\ lockFile'.creator = IF lockFile.creator = g THEN NoLongerAlive ELSE lockFile.creator
  BY <1>1 DEF LockTypeOK, Owners
<1>5. Serving' = Serving \ {g}
  BY <1>1 DEF Serving
<1>6. LockTypeOK'
  BY <1>1, <1>2, <1>3, <1>4 DEF LockTypeOK, Owners
<1>7. MetServe' /\ HoldersRun'
  BY <1>1, <1>5 DEF MetServe, HoldersRun
<1>8. FileKnown'
  BY <1>1, <1>4, LockAssumption DEF FileKnown, Owns
<1>9. OutsidersWait'
  BY <1>1, <1>2, <1>4, <1>5, LockAssumption DEF OutsidersWait, Waits, Owns, Serving
<1>10. Kept
  BY <1>1, <1>4, LockAssumption DEF Kept, Established, Owns
<1> QED
  BY <1>6, <1>7, <1>8, <1>9, <1>10

LEMMA LockNextInv ==
  ASSUME LockInv, [LockNext]_lockVars
  PROVE  LockInv' /\ [Kept]_lockVars
<1>1. CASE LockNext
  BY <1>1, LaunchStep, OpenLockStep, WriteLockStep, ReadLockStep, ProbeOwnerStep, RemoveLockStep,
     GiveUpStep, BindStep, StartFailsStep, CloseGatewayStep, ReleaseAndExitStep,
     ReleaseAndRestartStep, KillGatewayStep, LockAgesStep DEF LockNext, AcquireStep
<1>2. CASE UNCHANGED lockVars
  BY <1>2 DEF lockVars, loopState, LockInv, LockTypeOK, MetServe, FileKnown, HoldersRun,
     OutsidersWait, Waits, Owns, Serving
<1> QED
  BY <1>1, <1>2

\* The lock's variables keep their types, for any processes and any number of faults:
\* LockTypeOK, a part of ServicesTypeOK.
THEOREM LockTypeCorrect == LockSpec => []LockTypeOK
<1>1. LockInv /\ [LockNext]_lockVars => LockInv'
  BY LockNextInv
<1>2. LockInv => LockTypeOK
  BY DEF LockInv
<1> QED
  BY LockInitInv, <1>1, <1>2, PTL DEF LockSpec

\* Whoever begins to acquire while a gateway serves leaves that gateway its lock file
\* (acquireGatewayLock, resolveGatewayOwnerStatus, releaseLockIfHeld): ServerKeepsLock.
THEOREM NobodyTakesTheLock == LockSpec => ServerKeepsLock
<1>1. LockInv /\ [LockNext]_lockVars => LockInv' /\ [Kept]_lockVars
  BY LockNextInv
<1>2. Kept => \A g \in Gateways :
                Established(g) /\ phase'[g] = "serving" => lockFile'.creator = g
  BY DEF Kept, Owns
<1> QED
  BY LockInitInv, <1>1, <1>2, PTL DEF LockSpec, ServerKeepsLock

-----------------------------------------------------------------------------
(* Cron.  A marker that nobody cleared is held by the one execution of its  *)
(* job, and executions begin with jobs that have none.                      *)

\* Services that are to come have nothing under way, nor has a process that is down.
LatestFirst ==
  /\ \A s \in Services : s > current =>
       deferred[s] = {} /\ \A k \in Kinds : batch[<<s, k>>] = Idle
  /\ current = 0 => \A j \in Jobs : manual[j] = "none"

MarkerHeld == \A j \in Jobs \ cleared : InProgress(j) => Marked(j)

OneRun ==
  \A j \in Jobs \ cleared :
    /\ \A g, h \in Executions(j) : g = h
    /\ manual[j] \in ManualRuns => Executions(j) = {}

\* A one-shot that succeeded is disabled, if it is still there ...
ServedOff == \A j \in served : Exists(j) => ~job[j].on

\* ... so nothing asks for it, and what executes it began before.
ServedDone ==
  \A j \in served :
    /\ manual[j] # "asked due"
    /\ j \notin cleared => /\ manual[j] # "due"
                           /\ \A g \in Services \X Kinds : batch[g][j] # "running"

CronInv == CronTypeOK /\ LatestFirst /\ MarkerHeld /\ OneRun /\ ServedOff /\ ServedDone

Stores == [Jobs -> JobRecord \cup {Removed}]
CronBatches == [Jobs -> {"none", "running", "over"}]

\* No job appears and none is enabled between js and js2.
Below(js2, js) ==
  \A j \in Jobs : js2[j] # Removed => js[j] # Removed /\ (js2[j].on => js[j].on)

\* Nothing of j begins.
Shrinks(j) ==
  /\ Executions(j)' \subseteq Executions(j)
  /\ \A g \in Services \X Kinds : batch'[g][j] = "running" => batch[g][j] = "running"
  /\ manual'[j] \in ManualRuns => manual'[j] = manual[j]

LEMMA KindLemma ==
  /\ \A s \in Services : Tick(s) \in Services \X Kinds /\ Boot(s) \in Services \X Kinds
  /\ Idle \in CronBatches /\ \A j \in Jobs : Idle[j] = "none"
  /\ Services \subseteq Nat \ {0}
  BY CronAssumption DEF Tick, Boot, Services, Kinds, Idle, CronBatches

LEMMA DisturbLemma ==
  ASSUME CronTypeOK, Disturb
  PROVE  disturbances' \in 0..MaxLoad
<1> DEFINE there == {j \in Jobs : Exists(j)}
<1>1. Cardinality(there) \in Nat
  <2>1. IsFiniteSet(there)
    BY CronAssumption, FS_Subset
  <2> QED
    BY <2>1, FS_CardinalityType
<1>2. Cardinality(there) + disturbances < MaxLoad /\ disturbances' = disturbances + 1
  BY DEF Disturb
<1> HIDE DEF there
<1>3. disturbances \in 0..MaxLoad
  BY DEF CronTypeOK
<1>4. MaxLoad \in Nat
  BY CronAssumption
<1> QED
  BY <1>1, <1>2, <1>3, <1>4

LEMMA ArmLemma ==
  ASSUME CronTypeOK, NEW s \in 1..current, NEW js, Arm(s, js)
  PROVE  armed' \subseteq 1..current
  BY DEF Arm, CronTypeOK

LEMMA ComputeNextLemma ==
  ASSUME NEW j, NEW b
  PROVE  ComputeNext(j, b) \in {"none", "later", "due"}
  BY DEF ComputeNext

LEMMA NormalizeLemma ==
  ASSUME NEW b \in JobRecord
  PROVE  Normalize(b) \in JobRecord /\ (Normalize(b).on => b.on)
  BY DEF Normalize, JobRecord

LEMMA MaintainLemma ==
  ASSUME NEW js \in Stores
  PROVE  /\ Maintain(js) \in Stores /\ Below(Maintain(js), js)
         /\ \A j \in Jobs : js[j] # Removed => Maintain(js)[j] # Removed
<1>1. ASSUME NEW j \in Jobs, js[j] # Removed
      PROVE  Maintain(js)[j] \in JobRecord /\ (Maintain(js)[j].on => js[j].on)
  <2> DEFINE b == Normalize(js[j])
  <2>1. b \in JobRecord /\ (b.on => js[j].on)
    BY <1>1, NormalizeLemma DEF Stores
  <2>2. Maintain(js)[j] = IF b.on /\ b.next = "none" THEN [b EXCEPT !.next = ComputeNext(j, b)] ELSE b
    BY <1>1 DEF Maintain
  <2> HIDE DEF b
  <2> QED
    BY <2>1, <2>2, ComputeNextLemma DEF JobRecord
<1>2. \A j \in Jobs : js[j] = Removed => Maintain(js)[j] = Removed
  BY DEF Maintain
<1>3. Maintain(js) \in Stores
  <2>1. \A j \in Jobs : Maintain(js)[j] \in JobRecord \cup {Removed}
    BY <1>1, <1>2
  <2> QED
    BY <2>1 DEF Maintain, Stores
<1> QED
  BY <1>1, <1>2, <1>3, CronAssumption DEF Below

LEMMA RecomputeLemma ==
  ASSUME NEW js \in Stores
  PROVE  Recompute(js) \in Stores /\ Below(Recompute(js), js)
<1>1. ASSUME NEW j \in Jobs, js[j] # Removed
      PROVE  Recompute(js)[j] \in JobRecord /\ (Recompute(js)[j].on => js[j].on)
  <2> DEFINE b == Normalize(js[j])
  <2>1. b \in JobRecord /\ (b.on => js[j].on)
    BY <1>1, NormalizeLemma DEF Stores
  <2>2. Recompute(js)[j] = IF b.on /\ b.next # "later" THEN [b EXCEPT !.next = ComputeNext(j, b)] ELSE b
    BY <1>1 DEF Recompute
  <2> HIDE DEF b
  <2> QED
    BY <2>1, <2>2, ComputeNextLemma DEF JobRecord
<1>2. \A j \in Jobs : js[j] = Removed => Recompute(js)[j] = Removed
  BY DEF Recompute
<1>3. Recompute(js) \in Stores
  <2>1. \A j \in Jobs : Recompute(js)[j] \in JobRecord \cup {Removed}
    BY <1>1, <1>2
  <2> QED
    BY <2>1 DEF Recompute, Stores
<1> QED
  BY <1>1, <1>2, <1>3 DEF Below

LEMMA MarkLemma ==
  ASSUME NEW js \in Stores, NEW marked \in SUBSET Jobs, \A j \in marked : js[j] # Removed
  PROVE  /\ Mark(js, marked) \in Stores /\ Below(Mark(js, marked), js)
         /\ \A j \in marked : Mark(js, marked)[j] # Removed /\ Mark(js, marked)[j].marker = "fresh"
         /\ \A j \in Jobs \ marked : Mark(js, marked)[j] = js[j]
<1>1. \A j \in marked : js[j] \in JobRecord
  BY DEF Stores
<1>2. \A j \in marked : /\ Mark(js, marked)[j] \in JobRecord
                        /\ Mark(js, marked)[j].marker = "fresh"
                        /\ (Mark(js, marked)[j].on => js[j].on)
  BY <1>1 DEF Mark, JobRecord
<1>3. \A j \in Jobs \ marked : Mark(js, marked)[j] = js[j]
  BY DEF Mark
<1>4. Mark(js, marked) \in Stores
  <2>1. \A j \in Jobs : Mark(js, marked)[j] \in JobRecord \cup {Removed}
    BY <1>2, <1>3 DEF Stores
  <2> QED
    BY <2>1 DEF Mark, Stores
<1> QED
  BY <1>2, <1>3, <1>4, CronAssumption DEF Below

LEMMA AppliedLemma ==
  ASSUME NEW j, NEW b \in JobRecord \cup {Removed}, NEW o \in Outcomes, NEW x \in Applied(j, b, o)
  PROVE  /\ x \in JobRecord \cup {Removed}
         /\ x # Removed => b # Removed /\ (x.on => b.on)
         /\ x # Removed /\ j \in OneShots /\ o = "ok" => ~x.on
<1>1. CASE b = Removed
  BY <1>1 DEF Applied
<1>2. CASE b # Removed
  <2> DEFINE r == [b EXCEPT !.marker = "none", !.last = o]
  <2> DEFINE off == [r EXCEPT !.on = FALSE, !.next = "none"]
  <2> DEFINE later == [r EXCEPT !.next = "later"]
  <2> DEFINE gone == [r EXCEPT !.next = IF b.on THEN "later" ELSE "none"]
  <2>1. b \in JobRecord
    BY <1>2
  <2>2. r \in JobRecord /\ (r.on => b.on)
    BY <2>1 DEF JobRecord, Outcomes
  <2> HIDE DEF r
  <2>3. /\ off \in JobRecord /\ ~off.on
        /\ later \in JobRecord /\ (later.on => r.on)
        /\ gone \in JobRecord /\ (gone.on => r.on)
    BY <2>2 DEF JobRecord
  <2>4. x \in IF j \notin OneShots THEN {gone}
              ELSE IF o = "ok" THEN {Removed, off} ELSE {off, later}
    BY <1>2 DEF Applied, r
  <2> HIDE DEF off, later, gone
  <2> QED
    BY <1>2, <2>2, <2>3, <2>4
<1> QED
  BY <1>1, <1>2

\* What a batch's outcomes leave in the store.
LEMMA AfterLemma ==
  ASSUME job \in Stores, NEW b \in CronBatches, NEW o \in OutcomesOf(b), NEW js \in After(o)
  PROVE  /\ js \in Stores /\ Below(js, job)
         /\ Served(o) \subseteq InBatch(b) \cap OneShots
         /\ \A j \in Served(o) : js[j] # Removed => ~js[j].on
         /\ \A j \in Jobs \ InBatch(b) : js[j] = job[j]
<1>1. /\ InBatch(b) \subseteq Jobs /\ DOMAIN o = InBatch(b)
      /\ \A j \in InBatch(b) : o[j] \in Outcomes
  BY DEF InBatch, OutcomesOf
<1>2. \A j \in Jobs : IF j \in InBatch(b) THEN js[j] \in Applied(j, job[j], o[j]) ELSE js[j] = job[j]
  BY <1>1 DEF After
<1>3. \A j \in Jobs : job[j] \in JobRecord \cup {Removed}
  BY DEF Stores
<1>4. ASSUME NEW j \in InBatch(b)
      PROVE  /\ js[j] \in JobRecord \cup {Removed}
             /\ js[j] # Removed => job[j] # Removed /\ (js[j].on => job[j].on)
             /\ js[j] # Removed /\ j \in OneShots /\ o[j] = "ok" => ~js[j].on
  BY <1>1, <1>2, <1>3, AppliedLemma
<1>5. js \in Stores
  <2>1. \A j \in Jobs : js[j] \in JobRecord \cup {Removed}
    BY <1>2, <1>3, <1>4
  <2>2. js = [j \in Jobs |-> js[j]]
    BY DEF After
  <2> QED
    BY <2>1, <2>2 DEF Stores
<1>6. Below(js, job)
  BY <1>2, <1>4 DEF Below
<1> QED
  BY <1>1, <1>2, <1>4, <1>5, <1>6 DEF Served

\* A step in which nothing begins, and executions of `ended` end with their sections.
LEMMA ShrinkLemma ==
  ASSUME CronInv, NEW ended, NoteCleared(ended), \A j \in Jobs : Shrinks(j),
         \A j \in Jobs : j \in ended /\ j \notin cleared => ~InProgress(j)',
         served' \subseteq served \cup ended, served' \subseteq Jobs,
         \A j \in served' : manual'[j] # "asked due"
  PROVE  MarkerHeld' /\ OneRun' /\ ServedDone'
<1> USE DEF CronInv
<1>1. \A j \in Jobs : InProgress(j)' => InProgress(j)
  BY DEF Shrinks, InProgress
<1>2. ASSUME NEW j \in Jobs, j \notin cleared', InProgress(j)'
      PROVE  j \notin cleared /\ Marked(j)' /\ j \notin ended
  BY <1>1, <1>2 DEF NoteCleared, MarkerHeld
<1>3. MarkerHeld'
  BY <1>2 DEF MarkerHeld
<1>4. ASSUME NEW j \in Jobs, j \notin cleared'
      PROVE  /\ \A g, h \in Executions(j)' : g = h
             /\ manual'[j] \in ManualRuns => Executions(j)' = {}
             /\ j \in served' => /\ manual'[j] # "due"
                                 /\ \A g \in Services \X Kinds : batch'[g][j] # "running"
  <2>1. CASE ~InProgress(j)'
    BY <2>1 DEF InProgress, Executions, ManualRuns
  <2>2. CASE InProgress(j)'
    <3>1. j \notin cleared /\ j \notin ended
      BY <1>2, <1>4, <2>2
    <3>2. Shrinks(j)
      OBVIOUS
    <3>3. /\ \A g, h \in Executions(j) : g = h
          /\ manual[j] \in ManualRuns => Executions(j) = {}
          /\ j \in served => /\ manual[j] # "due"
                             /\ \A g \in Services \X Kinds : batch[g][j] # "running"
      BY <3>1 DEF OneRun, ServedDone
    <3> QED
      BY <3>1, <3>2, <3>3 DEF Shrinks, ManualRuns
  <2> QED
    BY <2>1, <2>2
<1>5. OneRun'
  BY <1>4 DEF OneRun
<1>6. ServedDone'
  BY <1>4 DEF ServedDone
<1> QED
  BY <1>3, <1>5, <1>6

\* A step in which g begins to execute jobs that have no marker.
LEMMA GrowLemma ==
  ASSUME CronInv, NoteCleared({}), NEW starting \in SUBSET Jobs, NEW g0,
         \A j \in starting : /\ ~Marked(j) /\ Marked(j)'
                           /\ Executions(j)' \subseteq Executions(j) \cup {g0}
                           /\ j \notin served,
         \A j \in Jobs \ starting : Shrinks(j),
         manual' = manual, served' = served
  PROVE  MarkerHeld' /\ OneRun' /\ ServedDone'
<1> USE DEF CronInv
<1>1. \A j \in Jobs \ starting : InProgress(j)' => InProgress(j)
  BY DEF Shrinks, InProgress
<1>2. ASSUME NEW j \in Jobs \ starting, j \notin cleared', InProgress(j)'
      PROVE  j \notin cleared /\ Marked(j)'
  BY <1>1, <1>2 DEF NoteCleared, MarkerHeld
<1>3. ASSUME NEW j \in starting, j \notin cleared', InProgress(j)'
      PROVE  j \notin cleared /\ Executions(j) = {} /\ manual[j] \notin ManualRuns
  BY <1>3 DEF NoteCleared, MarkerHeld, InProgress
<1>4. MarkerHeld'
  BY <1>2 DEF MarkerHeld
<1>5. ASSUME NEW j \in Jobs, j \notin cleared'
      PROVE  /\ \A g, h \in Executions(j)' : g = h
             /\ manual'[j] \in ManualRuns => Executions(j)' = {}
             /\ j \in served' => /\ manual'[j] # "due"
                                 /\ \A g \in Services \X Kinds : batch'[g][j] # "running"
  <2>1. CASE ~InProgress(j)'
    BY <2>1 DEF InProgress, Executions, ManualRuns
  <2>2. CASE InProgress(j)' /\ j \notin starting
    <3>1. j \notin cleared
      BY <1>2, <1>5, <2>2
    <3>2. Shrinks(j)
      BY <2>2
    <3>3. /\ \A g, h \in Executions(j) : g = h
          /\ manual[j] \in ManualRuns => Executions(j) = {}
          /\ j \in served => /\ manual[j] # "due"
                             /\ \A g \in Services \X Kinds : batch[g][j] # "running"
      BY <3>1 DEF OneRun, ServedDone
    <3> QED
      BY <3>1, <3>2, <3>3 DEF Shrinks, ManualRuns
  <2>3. CASE InProgress(j)' /\ j \in starting
    <3>1. Executions(j) = {} /\ manual[j] \notin ManualRuns /\ j \notin served
      BY <1>3, <1>5, <2>3
    <3>2. Executions(j)' \subseteq {g0}
      BY <2>3, <3>1
    <3> QED
      BY <3>1, <3>2
  <2> QED
    BY <2>1, <2>2, <2>3
<1>6. OneRun'
  BY <1>5 DEF OneRun
<1>7. served \subseteq Jobs
  BY CronAssumption DEF CronTypeOK
<1>8. ServedDone'
  BY <1>5, <1>7 DEF ServedDone
<1> QED
  BY <1>4, <1>6, <1>8

LEMMA CronTypes ==
  ASSUME CronTypeOK
  PROVE  /\ job \in Stores /\ current \in 0..MaxServices /\ armed \subseteq 1..current
         /\ batch \in [Services \X Kinds -> CronBatches]
         /\ \A g \in Services \X Kinds : batch[g] \in CronBatches
         /\ served \subseteq OneShots /\ served \subseteq Jobs /\ cleared \subseteq Jobs
         /\ deferred \in [Services -> SUBSET Jobs]
  BY CronAssumption DEF CronTypeOK, Stores, CronBatches

\* A step that neither begins nor ends an execution, nor clears more markers than it
\* notes, and enables no one-shot that succeeded.
LEMMA EditLemma ==
  ASSUME CronInv, NoteCleared({}), job' \in Stores, armed' \subseteq 1..current,
         disturbances' \in 0..MaxLoad, served' \subseteq served,
         \A j \in served' : job'[j] # Removed => job[j] # Removed /\ (job'[j].on => job[j].on),
         UNCHANGED <<current, batch, deferred, manual>>
  PROVE  CronInv'
<1> USE DEF CronInv
<1>1. \A j \in Jobs : Shrinks(j)
  BY DEF Shrinks, Executions
<1>2. served' \subseteq Jobs /\ served' \subseteq OneShots
  BY CronTypes
<1>3. \A j \in served' : manual'[j] # "asked due"
  BY DEF ServedDone
<1>4. MarkerHeld' /\ OneRun' /\ ServedDone'
  BY <1>1, <1>2, <1>3, ShrinkLemma
<1>5. cleared' \subseteq Jobs
  BY DEF NoteCleared
<1>6. CronTypeOK'
  BY <1>2, <1>5 DEF CronTypeOK, Stores
<1>7. LatestFirst'
  BY DEF LatestFirst
<1>8. ServedOff'
  BY DEF ServedOff, Exists
<1> QED
  BY <1>4, <1>6, <1>7, <1>8

LEMMA CronInitInv == CronInit => CronInv
<1> SUFFICES ASSUME CronInit PROVE CronInv
  OBVIOUS
<1>1. \A next \in {"later", "due"} : Fresh(next) \in JobRecord
  BY DEF Fresh, JobRecord
<1>2. job \in [Jobs -> JobRecord \cup {Removed}]
  BY <1>1 DEF CronInit
<1>3. /\ batch \in [Services \X Kinds -> [Jobs -> {"none", "running", "over"}]]
      /\ \A g \in Services \X Kinds : batch[g] = Idle
  BY KindLemma DEF CronInit, CronBatches
<1>4. manual \in [Jobs -> {"none", "asked due", "asked forced"} \cup ManualRuns]
  BY DEF CronInit, Idle
<1>5. CronTypeOK
  <2>1. 0 \in 0..MaxServices /\ 0 \in 0..MaxLoad
    BY CronAssumption
  <2>2. current = 0 /\ armed = {} /\ disturbances = 0 /\ cleared = {} /\ served = {}
    BY DEF CronInit
  <2>3. deferred \in [Services -> SUBSET Jobs]
    BY DEF CronInit
  <2> QED
    BY <1>2, <1>3, <1>4, <2>1, <2>2, <2>3 DEF CronTypeOK
<1>6. \A j \in Jobs : ~InProgress(j)
  BY <1>3, KindLemma DEF CronInit, InProgress, Executions, ManualRuns
<1>7. LatestFirst
  BY <1>3, KindLemma DEF CronInit, LatestFirst
<1>8. MarkerHeld /\ OneRun /\ ServedOff /\ ServedDone
  BY <1>6 DEF CronInit, MarkerHeld, OneRun, ServedOff, ServedDone, InProgress
<1> QED
  BY <1>5, <1>7, <1>8 DEF CronInv

LEMMA BelowTrans ==
  ASSUME NEW a, NEW b, NEW c, Below(a, b), Below(b, c)
  PROVE  Below(a, c)
  BY DEF Below

LEMMA OnTimerStep ==
  ASSUME CronInv, NEW s \in Services, OnTimer(s)
  PROVE  CronInv'
<1> USE DEF CronInv
<1> DEFINE due == {j \in Jobs : Runnable(j)}
<1>1. /\ s \in armed /\ batch[Tick(s)] = Idle
      /\ UNCHANGED <<current, deferred, manual, disturbances, served>> /\ NoteCleared({})
  BY DEF OnTimer
<1>2. s \in 1..current /\ job \in Stores
  BY <1>1, CronTypes
<1>3. CASE due = {}
  <2>1. job' = Maintain(job) /\ Arm(s, job') /\ UNCHANGED batch
    BY <1>3 DEF OnTimer
  <2>2. job' \in Stores /\ Below(job', job)
    BY <1>2, <2>1, MaintainLemma
  <2>3. armed' \subseteq 1..current
    BY <1>2, <2>1, ArmLemma
  <2>4. disturbances' \in 0..MaxLoad
    BY <1>1 DEF CronTypeOK
  <2>5. served' \subseteq served /\ served \subseteq Jobs
    BY <1>1, CronTypes
  <2> QED
    BY <1>1, <2>1, <2>2, <2>3, <2>4, <2>5, EditLemma DEF Below
<1>4. CASE due # {}
  <2>1. /\ job' = Mark(job, due) /\ UNCHANGED armed
        /\ batch' = [batch EXCEPT ![Tick(s)] =
                       [j \in Jobs |-> IF j \in due THEN "running" ELSE "none"]]
    BY <1>4 DEF OnTimer
  <2>2. \A j \in due : j \in Jobs /\ Exists(j) /\ job[j].on /\ ~Marked(j)
    BY DEF Runnable, Marked
  <2>3. /\ job' \in Stores /\ Below(job', job)
        /\ \A j \in due : Marked(j)'
    BY <1>2, <2>1, <2>2, MarkLemma DEF Marked, Exists
  <2> HIDE DEF due
  <2>4. /\ batch' \in [Services \X Kinds -> CronBatches]
        /\ \A g \in Services \X Kinds : g # Tick(s) => batch'[g] = batch[g]
        /\ \A j \in Jobs : batch'[Tick(s)][j] = IF j \in due THEN "running" ELSE "none"
    <3>1. [j \in Jobs |-> IF j \in due THEN "running" ELSE "none"] \in CronBatches
      BY DEF CronBatches
    <3> QED
      BY <2>1, <3>1, KindLemma, CronTypes
  <2>5. \A j \in due : Executions(j)' \subseteq Executions(j) \cup {Tick(s)}
    BY <2>4 DEF Executions
  <2>6. \A j \in Jobs \ due : Shrinks(j)
    BY <1>1, <2>4 DEF Shrinks, Executions
  <2>7. \A j \in due : j \notin served
    BY <2>2 DEF ServedOff
  <2>8. MarkerHeld' /\ OneRun' /\ ServedDone'
    BY <1>1, <2>2, <2>3, <2>5, <2>6, <2>7, GrowLemma
  <2>9. CronTypeOK'
    BY <1>1, <2>1, <2>3, <2>4 DEF CronTypeOK, Stores, CronBatches, NoteCleared
  <2>10. LatestFirst'
    BY <1>1, <1>2, <2>4, CronAssumption, CronTypes DEF LatestFirst, Tick, Services, Kinds
  <2>11. ServedOff'
    BY <1>1, <2>3, CronTypes DEF ServedOff, Below, Exists
  <2> QED
    BY <2>8, <2>9, <2>10, <2>11
<1> QED
  BY <1>3, <1>4

LEMMA ExecutionEndsStep ==
  ASSUME CronInv, NEW g \in Services \X Kinds, NEW j \in Jobs, ExecutionEnds(g, j)
  PROVE  CronInv'
<1> USE DEF CronInv
<1>1. /\ batch[g][j] = "running"
      /\ batch' = [batch EXCEPT ![g][j] = "over"]
      /\ UNCHANGED <<job, current, armed, deferred, manual, disturbances, cleared, served>>
  BY DEF ExecutionEnds
<1>2. /\ batch' \in [Services \X Kinds -> CronBatches]
      /\ \A h \in Services \X Kinds : h # g => batch'[h] = batch[h]
      /\ \A i \in Jobs : i # j => batch'[g][i] = batch[g][i]
      /\ batch'[g][j] = "over"
  BY <1>1, CronTypes DEF CronBatches
<1>3. \A i \in Jobs : Executions(i)' = Executions(i)
  BY <1>1, <1>2 DEF Executions
<1>4. CronTypeOK'
  BY <1>1, <1>2 DEF CronTypeOK, CronBatches
<1>5. LatestFirst'
  <2>1. batch[g] # Idle
    BY <1>1, KindLemma
  <2> QED
    BY <1>1, <1>2, <2>1 DEF LatestFirst
<1>6. MarkerHeld' /\ OneRun' /\ ServedOff'
  BY <1>1, <1>3 DEF MarkerHeld, OneRun, ServedOff, InProgress, Marked, Exists
<1>7. \A h \in Services \X Kinds, i \in Jobs : batch'[h][i] = "running" => batch[h][i] = "running"
  BY <1>1, <1>2
<1>8. ServedDone'
  BY <1>1, <1>7, CronTypes DEF ServedDone
<1> QED
  BY <1>4, <1>5, <1>6, <1>8

\* What the section at the end of batch g does to it.
LEMMA BatchOverLemma ==
  ASSUME CronInv, NEW g \in Services \X Kinds, BatchOver(g) \/ batch[g] = Idle,
         batch' = [batch EXCEPT ![g] = Idle], UNCHANGED <<current, manual>>
  PROVE  /\ batch' \in [Services \X Kinds -> CronBatches]
         /\ \A h \in Services \X Kinds : h # g => batch'[h] = batch[h]
         /\ batch'[g] = Idle
         /\ \A j \in Jobs : Shrinks(j)
         /\ \A j \in InBatch(batch[g]) : /\ j \notin cleared => ~InProgress(j)'
                                         /\ manual[j] # "asked due"
<1> USE DEF CronInv
<1>1. /\ batch' \in [Services \X Kinds -> CronBatches]
      /\ \A h \in Services \X Kinds : h # g => batch'[h] = batch[h]
      /\ batch'[g] = Idle
  BY KindLemma, CronTypes
<1>2. \A j \in Jobs : batch'[g][j] = "none"
  BY <1>1, KindLemma
<1>3. \A j \in Jobs : Shrinks(j)
  BY <1>1, <1>2 DEF Shrinks, Executions
<1>4. ASSUME NEW j \in InBatch(batch[g]), j \notin cleared
      PROVE  ~InProgress(j)'
  <2>1. j \in Jobs /\ g \in Executions(j)
    BY DEF InBatch, Executions
  <2>2. (\A h \in Executions(j) : h = g) /\ manual[j] \notin ManualRuns
    BY <1>4, <2>1 DEF OneRun
  <2>3. Executions(j)' = {}
    BY <1>1, <1>2, <2>1, <2>2 DEF Executions
  <2> QED
    BY <2>2, <2>3 DEF InProgress
<1>5. ASSUME NEW j \in InBatch(batch[g])
      PROVE  manual[j] # "asked due"
  <2>1. j \in Jobs /\ batch[g][j] # "none"
    BY DEF InBatch
  <2> QED
    BY <2>1, KindLemma DEF BatchOver
<1> QED
  BY <1>1, <1>3, <1>4, <1>5

\* A section that applies the outcomes o of its batch b and then a change that enables
\* nothing.
LEMMA ServedOffLemma ==
  ASSUME CronInv, NEW b \in CronBatches, NEW o \in OutcomesOf(b), NEW js \in After(o),
         Below(job', js), served' = served \cup Served(o)
  PROVE  ServedOff'
<1> USE DEF CronInv
<1>1. Below(js, job) /\ \A j \in Served(o) : j \in Jobs /\ (js[j] # Removed => ~js[j].on)
  BY CronTypes, AfterLemma DEF InBatch
<1>2. served \subseteq Jobs
  BY CronTypes
<1>3. ASSUME NEW j \in served', job'[j] # Removed
      PROVE  ~job'[j].on
  <2>1. j \in Jobs /\ js[j] # Removed /\ (job'[j].on => js[j].on)
    BY <1>1, <1>2, <1>3 DEF Below
  <2>2. CASE j \in Served(o)
    BY <1>1, <2>1, <2>2
  <2>3. CASE j \in served
    <3>1. job[j] # Removed /\ (js[j].on => job[j].on)
      BY <1>1, <2>1 DEF Below
    <3> QED
      BY <2>1, <2>3, <3>1 DEF ServedOff, Exists
  <2> QED
    BY <2>2, <2>3
<1> QED
  BY <1>3 DEF ServedOff, Exists

\* Only services that were started have something under way.
LEMMA StartedLemma ==
  ASSUME CronInv, NEW s \in Services, NEW k \in Kinds,
         batch[<<s, k>>] # Idle \/ deferred[s] # {}
  PROVE  s \in 1..current
<1>1. ~(s > current)
  BY DEF CronInv, LatestFirst
<1>2. s \in Nat \ {0} /\ current \in 0..MaxServices /\ MaxServices \in Nat
  BY CronTypes, KindLemma, CronAssumption DEF CronInv
<1> QED
  BY ONLY <1>1, <1>2

LEMMA TickEndsStep ==
  ASSUME CronInv, NEW s \in Services, TickEnds(s)
  PROVE  CronInv'
<1> USE DEF CronInv
<1> DEFINE b == batch[Tick(s)]
<1>1. PICK o \in OutcomesOf(b) :
        (\E js \in After(o) : job' = Maintain(js)) /\ served' = served \cup Served(o)
  BY DEF TickEnds
<1>2. PICK js \in After(o) : job' = Maintain(js)
  BY <1>1
<1>3. /\ BatchOver(Tick(s)) /\ Arm(s, job')
      /\ batch' = [batch EXCEPT ![Tick(s)] = Idle]
      /\ UNCHANGED <<current, deferred, manual, disturbances>>
      /\ NoteCleared(InBatch(b))
  BY DEF TickEnds
<1>4. b \in CronBatches /\ Tick(s) \in Services \X Kinds
  BY CronTypes, KindLemma
<1> HIDE DEF b
<1>5. /\ js \in Stores /\ Served(o) \subseteq InBatch(b) \cap OneShots
  BY <1>1, <1>2, <1>4, CronTypes, AfterLemma
<1>6. job' \in Stores /\ Below(job', js)
  BY <1>2, <1>5, MaintainLemma
<1>7. /\ batch' \in [Services \X Kinds -> CronBatches]
      /\ \A h \in Services \X Kinds : h # Tick(s) => batch'[h] = batch[h]
      /\ batch'[Tick(s)] = Idle
      /\ \A j \in Jobs : Shrinks(j)
      /\ \A j \in InBatch(b) : (j \notin cleared => ~InProgress(j)') /\ manual[j] # "asked due"
  BY <1>3, <1>4, BatchOverLemma DEF b
<1>8. s \in 1..current
  <2>1. b # Idle
    BY <1>3 DEF BatchOver, b
  <2> QED
    BY <2>1, StartedLemma DEF Kinds, Tick, b
<1>9. armed' \subseteq 1..current
  BY <1>3, <1>8, ArmLemma
<1>10. served' \subseteq OneShots /\ served' \subseteq Jobs /\ served' \subseteq served \cup InBatch(b)
  BY <1>1, <1>5, CronTypes, CronAssumption
<1>11. \A j \in served' : manual'[j] # "asked due"
  BY <1>3, <1>7, <1>10 DEF ServedDone
<1>12. MarkerHeld' /\ OneRun' /\ ServedDone'
  BY <1>3, <1>7, <1>10, <1>11, ShrinkLemma
<1>13. CronTypeOK'
  BY <1>3, <1>6, <1>7, <1>9, <1>10 DEF CronTypeOK, Stores, CronBatches, NoteCleared
<1>14. LatestFirst'
  BY <1>3, <1>7 DEF LatestFirst, Tick
<1>15. ServedOff'
  BY <1>1, <1>2, <1>4, <1>6, ServedOffLemma
<1> QED
  BY <1>12, <1>13, <1>14, <1>15

LEMMA TickSaveFailsStep ==
  ASSUME CronInv, NEW s \in Services, TickSaveFails(s)
  PROVE  CronInv'
<1> USE DEF CronInv
<1>1. /\ BatchOver(Tick(s)) /\ Disturb
      /\ batch' = [batch EXCEPT ![Tick(s)] = Idle]
      /\ UNCHANGED <<job, current, deferred, manual, served>>
      /\ NoteCleared({})
  BY DEF TickSaveFails
<1>2. Tick(s) \in Services \X Kinds
  BY KindLemma
<1>3. /\ batch' \in [Services \X Kinds -> CronBatches]
      /\ \A h \in Services \X Kinds : h # Tick(s) => batch'[h] = batch[h]
      /\ batch'[Tick(s)] = Idle
      /\ \A j \in Jobs : Shrinks(j)
  BY <1>1, <1>2, BatchOverLemma
<1>4. s \in 1..current
  BY <1>1, StartedLemma DEF BatchOver, Kinds, Tick
<1>5. armed' \subseteq 1..current
  BY <1>4, ArmLemma DEF TickSaveFails
<1>6. served' \subseteq Jobs /\ \A j \in served' : manual'[j] # "asked due"
  BY <1>1, CronTypes DEF ServedDone
<1>7. MarkerHeld' /\ OneRun' /\ ServedDone'
  BY <1>1, <1>3, <1>6, ShrinkLemma
<1>8. disturbances' \in 0..MaxLoad
  BY <1>1, DisturbLemma
<1>9. CronTypeOK'
  BY <1>1, <1>3, <1>5, <1>8 DEF CronTypeOK, CronBatches, NoteCleared
<1>10. LatestFirst' /\ ServedOff'
  BY <1>1, <1>3 DEF LatestFirst, ServedOff, Tick, Exists
<1> QED
  BY <1>7, <1>9, <1>10

\* Start clears all markers and executes jobs that had none.
LEMMA StartLemma ==
  ASSUME CronInv, NEW s \in Services, s > current, Start(s),
         UNCHANGED <<manual, served>>, NoteCleared({}), disturbances' \in 0..MaxLoad
  PROVE  CronInv'
<1> USE DEF CronInv
<1> DEFINE unmarked == [j \in Jobs |-> IF Exists(j) THEN [job[j] EXCEPT !.marker = "none"]
                                                   ELSE Removed]
<1>0. PICK missed \in {m \in SUBSET (Missed \cup MaybeMissed) : Missed \subseteq m} :
        \E now \in SUBSET missed :
          /\ job' = IF missed = {} THEN Recompute(unmarked) ELSE Mark(unmarked, now)
          /\ batch' = [batch EXCEPT ![Boot(s)] =
                         [j \in Jobs |-> IF j \in now THEN "running" ELSE "none"]]
          /\ deferred' = [deferred EXCEPT ![s] = missed \ now]
          /\ armed' = (armed \ {current}) \cup (IF missed = {} /\ Wanted(job') THEN {s} ELSE {})
          /\ current' = s
  BY DEF Start
<1>1. PICK now \in SUBSET missed :
        /\ job' = IF missed = {} THEN Recompute(unmarked) ELSE Mark(unmarked, now)
        /\ batch' = [batch EXCEPT ![Boot(s)] =
                       [j \in Jobs |-> IF j \in now THEN "running" ELSE "none"]]
        /\ deferred' = [deferred EXCEPT ![s] = missed \ now]
        /\ armed' = (armed \ {current}) \cup (IF missed = {} /\ Wanted(job') THEN {s} ELSE {})
        /\ current' = s
  BY <1>0
<1>2. \A j \in missed : j \in Jobs /\ Exists(j) /\ job[j].on /\ ~Marked(j)
  BY DEF Missed, MaybeMissed, Runnable, Startable, Marked
<1>3. unmarked \in Stores /\ Below(unmarked, job)
  <2>1. \A j \in Jobs : Exists(j) => job[j] \in JobRecord
    BY CronTypes DEF Stores, Exists
  <2>2. \A j \in Jobs : IF Exists(j) THEN /\ unmarked[j] \in JobRecord
                                       /\ (unmarked[j].on => job[j].on)
                                     ELSE unmarked[j] = Removed
    BY <2>1 DEF JobRecord
  <2>3. unmarked \in Stores
    BY <2>2 DEF Stores
  <2> QED
    BY <2>2, <2>3 DEF Below, Exists
<1>4. \A j \in now : unmarked[j] # Removed
  <2>1. \A j \in now : j \in Jobs /\ job[j] \in JobRecord
    BY <1>2, CronTypes DEF Stores, Exists
  <2>2. \A j \in now : unmarked[j] \in JobRecord
    BY <1>2, <2>1 DEF JobRecord
  <2> QED
    BY <2>2, CronAssumption
<1> HIDE DEF unmarked
<1>5. now \in SUBSET Jobs
  BY <1>2
<1>6. /\ job' \in Stores /\ Below(job', unmarked)
      /\ \A j \in now : Marked(j)'
  BY <1>1, <1>3, <1>4, <1>5, RecomputeLemma, MarkLemma DEF Marked, Exists
<1>7. Below(job', job)
  BY <1>3, <1>6, BelowTrans
<1>8. batch[Boot(s)] = Idle
  BY DEF LatestFirst, Kinds, Boot
<1>9. /\ batch' \in [Services \X Kinds -> CronBatches]
      /\ \A g \in Services \X Kinds : g # Boot(s) => batch'[g] = batch[g]
      /\ \A j \in Jobs : batch'[Boot(s)][j] = IF j \in now THEN "running" ELSE "none"
  <2>1. [j \in Jobs |-> IF j \in now THEN "running" ELSE "none"] \in CronBatches
    BY DEF CronBatches
  <2> QED
    BY <1>1, <2>1, KindLemma, CronTypes
<1>10. \A j \in now : Executions(j)' \subseteq Executions(j) \cup {Boot(s)}
  BY <1>9 DEF Executions
<1>11. \A j \in Jobs \ now : Shrinks(j)
  BY <1>9 DEF Shrinks, Executions
<1>12. \A j \in now : ~Marked(j) /\ j \notin served
  BY <1>2 DEF ServedOff
<1>13. MarkerHeld' /\ OneRun' /\ ServedDone'
  BY <1>5, <1>6, <1>10, <1>11, <1>12, GrowLemma
<1>14. /\ s \in 0..MaxServices /\ armed \subseteq 1..s /\ s \in 1..s
  <2>1. /\ s \in 1..MaxServices /\ MaxServices \in Nat /\ armed \subseteq 1..current
        /\ current \in 0..MaxServices /\ s > current
    BY CronTypes, CronAssumption DEF Services
  <2> QED
    BY ONLY <2>1
<1>15. armed' \subseteq 1..current' /\ current' \in 0..MaxServices
  BY <1>1, <1>14
<1>16. deferred' \in [Services -> SUBSET Jobs]
  BY <1>1, <1>2, CronTypes
<1>17. CronTypeOK'
  BY <1>6, <1>9, <1>15, <1>16 DEF CronTypeOK, Stores, CronBatches, NoteCleared
<1>18. LatestFirst'
  <2>1. ASSUME NEW t \in Services, t > s
        PROVE  t > current /\ t # s
    <3>1. /\ s \in Nat /\ t \in Nat /\ current \in Nat /\ s > current
      BY CronTypes, KindLemma, CronAssumption
    <3> QED
      BY ONLY <2>1, <3>1
  <2>2. \A t \in Services, k \in Kinds : <<t, k>> \in Services \X Kinds /\ (t # s => <<t, k>> # Boot(s))
    BY DEF Boot
  <2>3. \A t \in Services : t # s => deferred'[t] = deferred[t]
    BY <1>1, CronTypes
  <2> QED
    BY <1>1, <1>9, <2>1, <2>2, <2>3, KindLemma DEF LatestFirst
<1>19. ServedOff'
  BY <1>7, CronTypes DEF ServedOff, Below, Exists
<1> QED
  BY <1>13, <1>17, <1>18, <1>19

LEMMA StartEndsStep ==
  ASSUME CronInv, NEW s \in Services, StartEnds(s)
  PROVE  CronInv'
<1> USE DEF CronInv
<1> DEFINE b == batch[Boot(s)]
<1> DEFINE Postponed(js) == [j \in Jobs |->
                      IF j \in deferred[s] /\ js[j] # Removed /\ js[j].on
                        THEN [js[j] EXCEPT !.next = "later"] ELSE js[j]]
<1>1. PICK o \in OutcomesOf(b) :
        /\ \E js \in After(o) : job' = Recompute(Postponed(js))
        /\ served' = served \cup Served(o)
  BY DEF StartEnds
<1>2. PICK js \in After(o) : job' = Recompute(Postponed(js))
  BY <1>1
<1>3. /\ b # Idle \/ deferred[s] # {}
      /\ BatchOver(Boot(s)) \/ b = Idle
      /\ Arm(s, job')
      /\ batch' = [batch EXCEPT ![Boot(s)] = Idle]
      /\ deferred' = [deferred EXCEPT ![s] = {}]
      /\ UNCHANGED <<current, manual, disturbances>>
      /\ NoteCleared(InBatch(b))
  BY DEF StartEnds
<1>4. b \in CronBatches /\ Boot(s) \in Services \X Kinds
  BY CronTypes, KindLemma
<1> HIDE DEF b
<1>5. js \in Stores /\ Served(o) \subseteq InBatch(b) \cap OneShots
  BY <1>1, <1>2, <1>4, CronTypes, AfterLemma
<1>6. Postponed(js) \in Stores /\ Below(Postponed(js), js)
  <2>1. \A j \in Jobs : js[j] # Removed => js[j] \in JobRecord
    BY <1>5 DEF Stores
  <2>2. \A j \in Jobs : IF js[j] # Removed THEN /\ Postponed(js)[j] \in JobRecord
                                             /\ (Postponed(js)[j].on => js[j].on)
                                           ELSE Postponed(js)[j] = Removed
    BY <2>1 DEF JobRecord
  <2>3. Postponed(js) \in Stores
    BY <2>2 DEF Stores
  <2> QED
    BY <2>2, <2>3 DEF Below
<1> HIDE DEF Postponed
<1>7. job' \in Stores /\ Below(job', js)
  BY <1>2, <1>6, RecomputeLemma, BelowTrans
<1>8. /\ batch' \in [Services \X Kinds -> CronBatches]
      /\ \A h \in Services \X Kinds : h # Boot(s) => batch'[h] = batch[h]
      /\ batch'[Boot(s)] = Idle
      /\ \A j \in Jobs : Shrinks(j)
      /\ \A j \in InBatch(b) : (j \notin cleared => ~InProgress(j)') /\ manual[j] # "asked due"
  BY <1>3, <1>4, BatchOverLemma DEF b
<1>9. s \in 1..current
  BY <1>3, StartedLemma DEF Kinds, Boot, b
<1>10. armed' \subseteq 1..current
  BY <1>3, <1>9, ArmLemma
<1>11. served' \subseteq OneShots /\ served' \subseteq Jobs /\ served' \subseteq served \cup InBatch(b)
  BY <1>1, <1>5, CronTypes, CronAssumption
<1>12. \A j \in served' : manual'[j] # "asked due"
  BY <1>3, <1>8, <1>11 DEF ServedDone
<1>13. MarkerHeld' /\ OneRun' /\ ServedDone'
  BY <1>3, <1>8, <1>11, <1>12, ShrinkLemma
<1>14. deferred' \in [Services -> SUBSET Jobs]
  BY <1>3, CronTypes
<1>15. CronTypeOK'
  BY <1>3, <1>7, <1>8, <1>10, <1>11, <1>14 DEF CronTypeOK, Stores, CronBatches, NoteCleared
<1>16. LatestFirst'
  BY <1>3, <1>8, CronTypes DEF LatestFirst, Boot
<1>17. ServedOff'
  BY <1>1, <1>2, <1>4, <1>7, ServedOffLemma
<1> QED
  BY <1>13, <1>15, <1>16, <1>17

LEMMA ServiceEdits ==
  ASSUME CronInv, ReadJobs \/ \E j \in Jobs : AddJob(j) \/ RemoveJob(j)
                                          \/ \E on \in BOOLEAN : UpdateJob(j, on)
  PROVE  CronInv'
<1> USE DEF CronInv
<1>1. current # 0 /\ current \in 1..current
  <2>1. current # 0 /\ current \in 0..MaxServices /\ MaxServices \in Nat
    BY CronTypes, CronAssumption DEF ReadJobs, AddJob, RemoveJob, UpdateJob, Edit
  <2> QED
    BY ONLY <2>1
<1>2. job \in Stores /\ served \subseteq Jobs /\ armed \subseteq 1..current
  BY CronTypes
<1>3. CASE ReadJobs
  <2>1. job' \in Stores /\ Below(job', job)
    BY <1>2, <1>3, MaintainLemma DEF ReadJobs
  <2>2. disturbances' \in 0..MaxLoad
    BY <1>3 DEF ReadJobs, CronTypeOK
  <2> QED
    BY <1>2, <1>3, <2>1, <2>2, EditLemma DEF ReadJobs, Below
<1>4. ASSUME NEW j \in Jobs, AddJob(j) PROVE CronInv'
  <2>1. PICK next \in {"later", "due"} : job' = Recompute([job EXCEPT ![j] = Fresh(next)])
    BY <1>4 DEF AddJob
  <2> DEFINE added == [job EXCEPT ![j] = Fresh(next)]
  <2>2. Fresh(next) \in JobRecord
    BY DEF Fresh, JobRecord
  <2>3. added \in Stores /\ \A i \in Jobs \ {j} : added[i] = job[i]
    BY <1>2, <2>2 DEF Stores
  <2> HIDE DEF added
  <2>4. job' \in Stores /\ Below(job', added)
    BY <2>1, <2>3, RecomputeLemma DEF added
  <2>5. armed' \subseteq 1..current /\ disturbances' \in 0..MaxLoad
    BY <1>1, <1>4, ArmLemma, DisturbLemma DEF AddJob, Edit
  <2>6. served' = served \ {j} /\ NoteCleared({}) /\ UNCHANGED <<current, batch, deferred, manual>>
    BY <1>4 DEF AddJob
  <2>7. \A i \in served' : job'[i] # Removed => job[i] # Removed /\ (job'[i].on => job[i].on)
    BY <1>2, <2>3, <2>4, <2>6 DEF Below
  <2> QED
    BY <2>4, <2>5, <2>6, <2>7, EditLemma
<1>5. ASSUME NEW j \in Jobs, RemoveJob(j) PROVE CronInv'
  <2>1. job' \in Stores /\ Below(job', job)
    BY <1>2, <1>5 DEF RemoveJob, Stores, Below
  <2>2. armed' \subseteq 1..current /\ disturbances' \in 0..MaxLoad
    BY <1>1, <1>5, ArmLemma, DisturbLemma DEF RemoveJob, Edit
  <2> QED
    BY <1>2, <1>5, <2>1, <2>2, EditLemma DEF RemoveJob, Below
<1>6. ASSUME NEW j \in Jobs, NEW on \in BOOLEAN, UpdateJob(j, on) PROVE CronInv'
  <2>1. job[j] \in JobRecord
    BY <1>2, <1>6 DEF UpdateJob, Exists, Stores
  <2>2. /\ job' \in Stores /\ \A i \in Jobs \ {j} : job'[i] = job[i]
    <3>1. CASE on
      <4>1. PICK next \in EditedNext(j) : job' = [job EXCEPT ![j].on = TRUE, ![j].next = next]
        BY <1>6, <3>1 DEF UpdateJob
      <4>2. next \in {"none", "later", "due"}
        BY DEF EditedNext
      <4> QED
        BY <1>2, <2>1, <4>1, <4>2 DEF Stores, JobRecord
    <3>2. CASE ~on
      <4> DEFINE disabled == [job[j] EXCEPT !.on = FALSE, !.next = "none", !.marker = "none"]
      <4>1. job' = [job EXCEPT ![j].on = FALSE, ![j].next = "none", ![j].marker = "none"]
        BY <1>6, <3>2 DEF UpdateJob
      <4>2. job' = [job EXCEPT ![j] = disabled]
        BY <4>1
      <4>3. disabled \in JobRecord
        BY <2>1 DEF JobRecord
      <4> HIDE DEF disabled
      <4> QED
        BY <1>2, <4>2, <4>3 DEF Stores
    <3> QED
      BY <3>1, <3>2
  <2>3. armed' \subseteq 1..current /\ disturbances' \in 0..MaxLoad
    BY <1>1, <1>6, ArmLemma, DisturbLemma DEF UpdateJob, Edit
  <2>4. served' = served \ {j} /\ NoteCleared({}) /\ UNCHANGED <<current, batch, deferred, manual>>
    BY <1>6 DEF UpdateJob
  <2>5. \A i \in served' : job'[i] = job[i]
    BY <1>2, <2>2, <2>4
  <2> QED
    BY <2>2, <2>3, <2>4, <2>5, EditLemma
<1> QED
  BY <1>3, <1>4, <1>5, <1>6

ManualStates == {"none", "asked due", "asked forced"} \cup ManualRuns

LEMMA InspectRunStep ==
  ASSUME CronInv, NEW j \in Jobs, NEW forced \in BOOLEAN, InspectRun(j, forced)
  PROVE  CronInv'
<1> USE DEF CronInv
<1>1. /\ current # 0 /\ manual = Idle /\ job' = Maintain(job) /\ (forced \/ job'[j].on) /\ Exists(j)
      /\ manual' = [manual EXCEPT ![j] = IF forced THEN "asked forced" ELSE "asked due"]
      /\ UNCHANGED <<current, armed, batch, deferred, disturbances, served>>
      /\ NoteCleared({}) /\ job'[j].marker = "none"
  BY DEF InspectRun
<1>2. job' \in Stores /\ Below(job', job)
  BY <1>1, CronTypes, MaintainLemma
<1>3. /\ manual' \in [Jobs -> ManualStates]
      /\ manual'[j] \in {"asked forced", "asked due"} /\ (forced => manual'[j] # "asked due")
      /\ \A i \in Jobs \ {j} : manual'[i] = "none"
  BY <1>1, KindLemma DEF ManualStates, CronTypeOK
<1>4. \A i \in Jobs : Shrinks(i)
  BY <1>1, <1>3 DEF Shrinks, Executions, ManualRuns
<1>5. ASSUME NEW i \in served'
      PROVE  manual'[i] # "asked due"
  <2>1. CASE i # j
    BY <1>1, <1>3, <2>1, CronTypes
  <2>2. CASE i = j /\ ~forced
    <3>1. job'[j].on
      BY <1>1, <2>2
    <3>2. job'[j] # Removed
      BY <1>1, CronTypes, MaintainLemma DEF Exists
    <3> QED
      BY <1>1, <1>2, <1>5, <2>2, <3>1, <3>2 DEF Below, ServedOff, Exists
  <2>3. CASE i = j /\ forced
    BY <1>3, <2>3
  <2> QED
    BY <2>1, <2>2, <2>3
<1>6. MarkerHeld' /\ OneRun' /\ ServedDone'
  BY <1>1, <1>4, <1>5, CronTypes, ShrinkLemma
<1>7. CronTypeOK'
  BY <1>1, <1>2, <1>3 DEF CronTypeOK, Stores, ManualStates, NoteCleared
<1>8. LatestFirst'
  BY <1>1 DEF LatestFirst
<1>9. ServedOff'
  BY <1>1, <1>2, CronTypes DEF ServedOff, Below, Exists
<1> QED
  BY <1>6, <1>7, <1>8, <1>9

LEMMA ReserveRunStep ==
  ASSUME CronInv, NEW j \in Jobs, ReserveRun(j)
  PROVE  CronInv'
<1> USE DEF CronInv
<1>1. /\ manual[j] \in {"asked due", "asked forced"}
      /\ UNCHANGED <<current, armed, batch, deferred, disturbances, cleared, served>>
  BY DEF ReserveRun
<1>2. manual \in [Jobs -> ManualStates] /\ served \subseteq Jobs
  BY CronTypes DEF CronTypeOK, ManualStates
<1>3. \A i \in Jobs : Executions(i)' = Executions(i)
  BY <1>1 DEF Executions
<1>4. CASE Unreserved(j)
  <2>1. /\ job' = Mark(job, {j})
        /\ manual' = [manual EXCEPT ![j] = IF @ = "asked due" THEN "due" ELSE "forced"]
    BY <1>4 DEF ReserveRun
  <2>2. Exists(j) /\ ~Marked(j)
    BY <1>4 DEF Unreserved
  <2>3. /\ job' \in Stores /\ Below(job', job) /\ Marked(j)'
        /\ \A i \in Jobs \ {j} : job'[i] = job[i]
    <3>1. job \in Stores /\ {j} \in SUBSET Jobs /\ \A i \in {j} : job[i] # Removed
      BY <2>2, CronTypes DEF Exists
    <3>2. /\ job' \in Stores /\ Below(job', job)
          /\ \A i \in {j} : job'[i] # Removed /\ job'[i].marker = "fresh"
          /\ \A i \in Jobs \ {j} : job'[i] = job[i]
      BY <2>1, <3>1, MarkLemma
    <3>3. job'[j] # Removed /\ job'[j].marker # "none"
      BY <3>2
    <3> QED
      BY <3>2, <3>3 DEF Marked, Exists
  <2>4. /\ manual' \in [Jobs -> ManualStates] /\ manual'[j] \in ManualRuns
        /\ manual'[j] = "due" => manual[j] = "asked due"
        /\ \A i \in Jobs \ {j} : manual'[i] = manual[i]
    BY <1>1, <1>2, <2>1 DEF ManualStates, ManualRuns
  <2>5. j \notin cleared => Executions(j) = {}
    BY <2>2 DEF MarkerHeld, InProgress
  <2>6. MarkerHeld'
    BY <1>1, <1>3, <2>3, <2>4 DEF MarkerHeld, InProgress, Marked, Exists
  <2>7. OneRun'
    <3>1. ASSUME NEW i \in Jobs, i \notin cleared
          PROVE  manual'[i] \in ManualRuns => Executions(i) = {}
      BY <2>4, <2>5, <3>1 DEF OneRun
    <3>2. \A i \in Jobs \ cleared : \A g, h \in Executions(i)' : g = h
      BY <1>3 DEF OneRun
    <3> QED
      BY <1>1, <1>3, <3>1, <3>2 DEF OneRun
  <2>8. ServedDone'
    <3>1. \A i \in served : manual'[i] # "asked due"
      BY <1>2, <2>4 DEF ServedDone, ManualRuns
    <3>2. \A i \in served : i \notin cleared => manual'[i] # "due"
      BY <1>2, <2>4 DEF ServedDone
    <3> QED
      BY <1>1, <3>1, <3>2 DEF ServedDone
  <2>9. CronTypeOK'
    BY <1>1, <2>3, <2>4 DEF CronTypeOK, Stores, ManualStates
  <2>10. LatestFirst' /\ ServedOff'
    BY <1>1, <1>2, <2>3 DEF LatestFirst, ServedOff, Below, Exists
  <2> QED
    BY <2>6, <2>7, <2>8, <2>9, <2>10
<1>5. CASE ~Unreserved(j)
  <2>1. manual' = Idle /\ UNCHANGED job
    BY <1>5 DEF ReserveRun
  <2>2. \A i \in Jobs : manual'[i] = "none"
    BY <2>1, KindLemma
  <2>3. manual' \in [Jobs -> ManualStates]
    BY <2>1 DEF Idle, ManualStates
  <2>4. MarkerHeld' /\ OneRun' /\ ServedDone'
    BY <1>1, <1>2, <1>3, <2>1, <2>2
       DEF MarkerHeld, OneRun, ServedDone, InProgress, Marked, Exists, ManualRuns
  <2>5. CronTypeOK'
    BY <1>1, <2>1, <2>3 DEF CronTypeOK, ManualStates
  <2>6. LatestFirst' /\ ServedOff'
    BY <1>1, <2>1 DEF LatestFirst, ServedOff, Exists
  <2> QED
    BY <2>4, <2>5, <2>6
<1> QED
  BY <1>4, <1>5

LEMMA ManualEndsStep ==
  ASSUME CronInv, NEW j \in Jobs, ManualEnds(j)
  PROVE  CronInv'
<1> USE DEF CronInv
<1> DEFINE b == [Idle EXCEPT ![j] = "over"]
<1>1. /\ manual[j] \in ManualRuns /\ manual' = Idle
      /\ UNCHANGED <<current, batch, deferred, disturbances>> /\ NoteCleared({j})
  BY DEF ManualEnds
<1>2. b \in CronBatches /\ InBatch(b) = {j}
  BY KindLemma DEF CronBatches, InBatch
<1> HIDE DEF b
<1>3. (\A i \in Jobs : manual'[i] = "none") /\ manual' \in [Jobs -> ManualStates]
  BY <1>1, KindLemma DEF Idle, ManualStates
<1>4. \A i \in Jobs : Shrinks(i)
  BY <1>1, <1>3 DEF Shrinks, Executions, ManualRuns
<1>5. j \notin cleared => ~InProgress(j)'
  BY <1>1, <1>3 DEF OneRun, InProgress, Executions, ManualRuns
<1>6. CASE Exists(j)
  <2>1. PICK o \in OutcomesOf(b) :
          (\E js \in After(o) : job' = Maintain(js)) /\ Arm(current, job') /\ served' = served \cup Served(o)
    BY <1>6 DEF ManualEnds, b
  <2>2. PICK js \in After(o) : job' = Maintain(js)
    BY <2>1
  <2>3. js \in Stores /\ Served(o) \subseteq {j} \cap OneShots
    BY <1>2, <2>1, <2>2, CronTypes, AfterLemma
  <2>4. job' \in Stores /\ Below(job', js)
    BY <2>2, <2>3, MaintainLemma
  <2>5. armed' \subseteq 1..current
    <3>1. current \in 0..MaxServices /\ MaxServices \in Nat
      BY CronTypes, CronAssumption
    <3>2. current # 0
      BY <1>1 DEF LatestFirst, ManualRuns
    <3>3. current \in 1..current
      BY ONLY <3>1, <3>2
    <3> QED
      BY <2>1, <3>3, ArmLemma
  <2>6. served' \subseteq OneShots /\ served' \subseteq Jobs /\ served' \subseteq served \cup {j}
    BY <2>1, <2>3, CronTypes, CronAssumption
  <2>7. MarkerHeld' /\ OneRun' /\ ServedDone'
    BY <1>1, <1>3, <1>4, <1>5, <2>6, ShrinkLemma
  <2>8. CronTypeOK'
    BY <1>1, <1>3, <2>4, <2>5, <2>6 DEF CronTypeOK, Stores, ManualStates, NoteCleared
  <2>9. LatestFirst'
    BY <1>1, <1>3 DEF LatestFirst
  <2>10. ServedOff'
    BY <1>2, <2>1, <2>2, <2>4, ServedOffLemma
  <2> QED
    BY <2>7, <2>8, <2>9, <2>10
<1>7. CASE ~Exists(j)
  <2>1. UNCHANGED <<job, armed, served>>
    BY <1>7 DEF ManualEnds
  <2>2. MarkerHeld' /\ OneRun' /\ ServedDone'
    BY <1>1, <1>3, <1>4, <1>5, <2>1, CronTypes, ShrinkLemma
  <2>3. CronTypeOK'
    BY <1>1, <1>3, <2>1 DEF CronTypeOK, ManualStates, NoteCleared
  <2>4. LatestFirst' /\ ServedOff'
    BY <1>1, <1>3, <2>1 DEF LatestFirst, ServedOff, Exists
  <2> QED
    BY <2>2, <2>3, <2>4
<1> QED
  BY <1>6, <1>7

LEMMA CrashAndClock ==
  ASSUME CronInv, CronCrash \/ \E j \in Jobs : SlotComes(j) \/ MarkerAges(j)
  PROVE  CronInv'
<1> USE DEF CronInv
<1>1. CASE CronCrash
  <2>1. /\ current' = 0 /\ armed' = {} /\ cleared' = {}
        /\ batch' = [g \in Services \X Kinds |-> Idle]
        /\ deferred' = [s \in Services |-> {}] /\ manual' = Idle
        /\ UNCHANGED <<job, served>> /\ disturbances' \in 0..MaxLoad
    BY <1>1, DisturbLemma DEF CronCrash, Edit
  <2>2. \A j \in Jobs : ~InProgress(j)' /\ manual'[j] = "none"
    BY <2>1, KindLemma DEF InProgress, Executions, ManualRuns
  <2>3. /\ batch' \in [Services \X Kinds -> CronBatches] /\ manual' \in [Jobs -> ManualStates]
        /\ \A g \in Services \X Kinds, j \in Jobs : batch'[g][j] = "none"
    BY <2>1, KindLemma DEF Idle, ManualStates
  <2>4. 0 \in 0..MaxServices
    BY CronAssumption
  <2>5. CronTypeOK'
    BY <2>1, <2>3, <2>4 DEF CronTypeOK, CronBatches, ManualStates
  <2>6. LatestFirst' /\ ServedOff'
    BY <2>1, <2>2, <2>3 DEF LatestFirst, ServedOff, Exists
  <2>7. MarkerHeld' /\ OneRun'
    BY <2>2 DEF MarkerHeld, OneRun, InProgress
  <2>8. ServedDone'
    <3>1. served' = served /\ served \subseteq Jobs
      BY <2>1, CronTypes
    <3> QED
      BY <2>2, <2>3, <3>1 DEF ServedDone
  <2> QED
    BY <2>5, <2>6, <2>7, <2>8
<1>2. ASSUME NEW j \in Jobs, SlotComes(j) \/ MarkerAges(j) PROVE CronInv'
  <2>1. job[j] \in JobRecord /\ served \subseteq Jobs
    BY <1>2, CronTypes DEF SlotComes, MarkerAges, Exists, Stores
  <2>2. UNCHANGED <<current, armed, batch, deferred, manual, cleared, served>>
    BY <1>2 DEF SlotComes, MarkerAges
  <2>3. disturbances' \in 0..MaxLoad
    BY <1>2, DisturbLemma DEF SlotComes, MarkerAges, CronTypeOK
  <2>4. /\ job'[j] \in JobRecord /\ (job'[j].on => job[j].on)
        /\ (Marked(j) => job'[j].marker # "none")
        /\ job' \in Stores /\ \A i \in Jobs \ {j} : job'[i] = job[i]
    <3>1. CASE SlotComes(j)
      BY <2>1, <3>1, CronTypes DEF SlotComes, Marked, Stores, JobRecord
    <3>2. CASE MarkerAges(j)
      BY <2>1, <3>2, CronTypes DEF MarkerAges, Marked, Stores, JobRecord
    <3> QED
      BY <1>2, <3>1, <3>2
  <2>5. \A i \in Jobs : (Marked(i) => Marked(i)') /\ (Exists(i)' => Exists(i))
    BY <2>1, <2>4, CronAssumption DEF Marked, Exists
  <2>6. CronTypeOK'
    BY <2>2, <2>3, <2>4 DEF CronTypeOK, Stores
  <2>7. LatestFirst' /\ OneRun' /\ ServedDone'
    <3>1. LatestFirst' /\ ServedDone'
      BY <2>2 DEF LatestFirst, ServedDone
    <3>2. OneRun'
      BY <2>2 DEF OneRun, Executions
    <3> QED
      BY <3>1, <3>2
  <2>8. MarkerHeld'
    BY <2>2, <2>5 DEF MarkerHeld, InProgress, Executions
  <2>9. ServedOff'
    BY <2>1, <2>2, <2>4, <2>5 DEF ServedOff
  <2> QED
    BY <2>6, <2>7, <2>8, <2>9
<1> QED
  BY <1>1, <1>2

LEMMA CronNextInv == CronInv /\ [CronNext]_cronVars => CronInv'
<1> SUFFICES ASSUME CronInv, [CronNext]_cronVars PROVE CronInv'
  OBVIOUS
<1> USE DEF CronInv
<1>1. CASE StartProcess
  <2>1. 1 \in Services /\ 1 > current
    BY <1>1, CronAssumption DEF StartProcess, Services
  <2>2. disturbances' \in 0..MaxLoad
    BY <1>1 DEF StartProcess, CronTypeOK
  <2> QED
    BY <1>1, <2>1, <2>2, StartLemma DEF StartProcess
<1>2. CASE Reload
  <2>1. current + 1 \in Services /\ current + 1 > current
    <3>1. current \in 0..MaxServices /\ MaxServices \in Nat /\ current < MaxServices
      BY <1>2, CronTypes, CronAssumption DEF Reload
    <3> QED
      BY ONLY <3>1 DEF Services
  <2>2. disturbances' \in 0..MaxLoad
    BY <1>2, DisturbLemma DEF Reload, Edit
  <2> QED
    BY <1>2, <2>1, <2>2, StartLemma DEF Reload
<1>3. ASSUME NEW s \in Services, OnTimer(s) \/ ExecutionStep(s) \/ BatchEnds(s) \/ TickSaveFails(s)
      PROVE  CronInv'
  <2>1. \A k \in Kinds : <<s, k>> \in Services \X Kinds
    OBVIOUS
  <2> QED
    BY <1>3, <2>1, OnTimerStep, ExecutionEndsStep, TickEndsStep, StartEndsStep, TickSaveFailsStep
       DEF ExecutionStep, BatchEnds
<1>4. ASSUME NEW j \in Jobs,
             \/ AddJob(j) \/ (\E on \in BOOLEAN : UpdateJob(j, on)) \/ RemoveJob(j)
             \/ (\E forced \in BOOLEAN : InspectRun(j, forced)) \/ ManualStep(j)
             \/ SlotComes(j) \/ MarkerAges(j)
      PROVE  CronInv'
  BY <1>4, ServiceEdits, InspectRunStep, ReserveRunStep, ManualEndsStep, CrashAndClock
     DEF ManualStep
<1>5. CASE UNCHANGED cronVars
  <2>1. CronTypeOK'
    BY <1>5 DEF cronVars, CronTypeOK
  <2>2. LatestFirst' /\ ServedOff' /\ ServedDone'
    BY <1>5 DEF cronVars, LatestFirst, ServedOff, ServedDone, Exists
  <2>3. MarkerHeld' /\ OneRun'
    BY <1>5 DEF cronVars, MarkerHeld, OneRun, InProgress, Executions, Marked, Exists
  <2> QED
    BY <2>1, <2>2, <2>3
<1> QED
  BY <1>1, <1>2, <1>3, <1>4, <1>5, ServiceEdits, CrashAndClock DEF CronNext

\* The cron service's variables keep their types: CronTypeOK, a part of ServicesTypeOK.
THEOREM CronTypeCorrect == CronSpec => []CronTypeOK
<1>1. CronInv => CronTypeOK
  BY DEF CronInv
<1> QED
  BY CronInitInv, CronNextInv, <1>1, PTL DEF CronSpec

\* Ticks, catch-ups, manual runs and the timers of replaced services never execute a
\* job twice at once, unless its marker was cleared under it (onTimer, start,
\* prepareManualRun), for any jobs and any number of services: OneRunAtOnce.
THEOREM JobsRunOnceAtATime == CronSpec => []OneRunAtOnce
<1>1. CronInv => OneRunAtOnce
  <2> SUFFICES ASSUME CronInv, NEW j \in Jobs \ cleared
               PROVE  Cardinality(Executions(j)) <= 1 /\ (manual[j] \in ManualRuns => Executions(j) = {})
    BY DEF OneRunAtOnce
  <2>1. /\ \A g, h \in Executions(j) : g = h
        /\ manual[j] \in ManualRuns => Executions(j) = {}
    BY DEF CronInv, OneRun
  <2>2. CASE Executions(j) = {}
    BY <2>1, <2>2, FS_EmptySet
  <2>3. CASE Executions(j) # {}
    <3>1. PICK g \in Executions(j) : TRUE
      BY <2>3
    <3>2. Executions(j) = {g}
      BY <2>1, <3>1
    <3> QED
      BY <2>1, <3>2, FS_Singleton
  <2> QED
    BY <2>2, <2>3
<1> QED
  BY CronInitInv, CronNextInv, <1>1, PTL DEF CronSpec

\* The scheduler does not execute a one-shot again that succeeded, until it is edited
\* (applyJobResult disables it): OneShotOnce.
THEOREM OneShotsRunOnce == CronSpec => []OneShotOnce
<1>1. CronInv => OneShotOnce
  BY DEF CronInv, ServedDone, OneShotOnce
<1> QED
  BY CronInitInv, CronNextInv, <1>1, PTL DEF CronSpec

-----------------------------------------------------------------------------
(* Sub-agents.  What is under way for a run says whether it was announced:  *)
(* a run that is neither being announced nor completed was not.             *)

Records == {Gone} \cup {e \in RunRecord : e.tries <= MaxTries}
Tasks == [owing : SUBSET {"wait", "event"}, completing : SUBSET {"wait", "event"},
          timers : SUBSET {"retry", "again"},
          flow : {"none", "sending", "closing"}, resumed : BOOLEAN]

\* Nothing waits for a record that is gone.
Matched(e, k) ==
  /\ e \in Records /\ k \in Tasks
  /\ e = Gone => k.flow = "none" /\ k.completing = {}

\* A run with record e and task k that was announced n times, and no crash or failure
\* hit it.
Accounted(e, k, n) ==
  /\ n \in 0..1
  /\ e # Gone =>
       /\ e.completed \/ k.flow # "none" \/ k.completing # {} \/ e.suppress = "killed" => e.ended
       /\ k.flow # "none" => e.handled /\ ~e.completed
       /\ k.flow = "sending" => n = 0
       /\ k.flow = "none" /\ ~e.completed => n = 0
       /\ e.suppress = "killed" => e.completed /\ n = 0 /\ e.tries # MaxTries
       /\ e.tries = MaxTries => e.completed \/ k.flow = "closing"

\* The announcement of a run that began between tasks k0 and k.
Heeds(e, k, k0) == k.flow = "sending" /\ k0.flow # "sending" => ~Steered(e)
Heeded == \A q \in Subagents : Heeds(record'[q], task'[q], task[q])

RunsKnown ==
  /\ announced \in [Subagents -> Nat]
  /\ \A r \in Subagents : record[r] = Gone => saved[r] = Gone
  /\ \A r \in Subagents : There(r) \/ r \in steering => r \in spawned
  /\ \A r \in Subagents : r \notin spawned => announced[r] = 0

SubagentInv ==
  /\ SubagentTypeOK /\ RunsKnown
  /\ \A r \in Subagents : Matched(record[r], task[r])
  /\ \A r \in Subagents : r \notin hit => Accounted(record[r], task[r], announced[r])

LEMMA QuietLemma ==
  /\ Quiet \in Tasks /\ Quiet.flow = "none" /\ Quiet.completing = {}
  /\ Matched(Gone, Quiet)
  /\ \A n \in 0..1 : Accounted(Gone, Quiet, n)
  BY DEF Quiet, Tasks, Records, Matched, Accounted

\* A run begins: registered, or in the place of another.
LEMMA NewLemma ==
  ASSUME NEW r \in Subagents, NEW wake \in {"no", "woken"}
  PROVE  LET e == [NewRecord EXCEPT !.wake = wake] IN
           /\ e # Gone /\ Matched(e, Watched(r)) /\ Accounted(e, Watched(r), 0)
           /\ Watched(r).flow = "none"
<1> DEFINE e == [NewRecord EXCEPT !.wake = wake]
<1>1. /\ e \in RunRecord /\ e.tries = 0 /\ ~e.ended /\ ~e.completed /\ e.suppress = "none"
  BY DEF NewRecord, RunRecord
<1>2. /\ Watched(r) \in Tasks /\ Watched(r).flow = "none" /\ Watched(r).completing = {}
  BY DEF Watched, Quiet, Tasks
<1>3. MaxTries \in Nat \ {0} /\ Gone \notin RunRecord
  BY SubagentAssumption
<1> HIDE DEF e
<1>4. e # Gone /\ Matched(e, Watched(r)) /\ Accounted(e, Watched(r), 0)
  BY <1>1, <1>2, <1>3 DEF Matched, Accounted, Records
<1> QED
  BY <1>2, <1>4 DEF e

\* startSubagentAnnounceCleanupFlow announces once.
LEMMA FlowLemma ==
  ASSUME NEW e \in Records, e # Gone, NEW k \in Tasks
  PROVE  LET x == StartFlow(e, k) IN
           /\ x.e # Gone /\ Matched(x.e, x.k) /\ (~Steered(e) => Heeds(x.e, x.k, k))
           /\ \A n \in Nat : e.ended /\ Accounted(e, k, n) => Accounted(x.e, x.k, n)
<1> DEFINE e1 == [e EXCEPT !.handled = TRUE]
<1> DEFINE k1 == [k EXCEPT !.flow = "sending"]
<1>0. e \in RunRecord /\ e.tries <= MaxTries /\ Gone \notin RunRecord
  BY SubagentAssumption DEF Records
<1>1. /\ e1 \in RunRecord /\ e1.handled /\ e1.ended = e.ended /\ e1.completed = e.completed
      /\ e1.suppress = e.suppress /\ e1.tries = e.tries
  BY <1>0 DEF RunRecord
<1>2. k1 \in Tasks /\ k1.flow = "sending" /\ k1.completing = k.completing
  BY DEF Tasks
<1> HIDE DEF e1, k1
<1>3. CASE MayBegin(e)
  <2>1. StartFlow(e, k) = [e |-> e1, k |-> k1]
    BY <1>3 DEF StartFlow, e1, k1
  <2>2. e1 # Gone /\ Matched(e1, k1) /\ (~Steered(e) => Heeds(e1, k1, k))
    BY <1>0, <1>1, <1>2 DEF Matched, Records, Heeds, Steered
  <2>3. ASSUME NEW n \in Nat, e.ended, Accounted(e, k, n)
        PROVE  Accounted(e1, k1, n)
    BY <1>0, <1>1, <1>2, <1>3, <2>3 DEF Accounted, MayBegin, RunRecord
  <2> QED
    BY <2>1, <2>2, <2>3
<1>4. CASE ~MayBegin(e)
  <2>1. StartFlow(e, k) = [e |-> e, k |-> k]
    BY <1>4 DEF StartFlow
  <2> QED
    BY <2>1 DEF Matched, Heeds
<1> QED
  BY <1>3, <1>4

\* Only the announcement and the completions under way matter to the account.
LEMMA TaskLemma ==
  ASSUME NEW e, NEW k \in Tasks, NEW k1 \in Tasks, Matched(e, k),
         k1.flow = k.flow, k1.completing \subseteq k.completing
  PROVE  /\ Matched(e, k1)
         /\ \A n : Accounted(e, k, n) => Accounted(e, k1, n)
         /\ \A x, l : Heeds(x, l, k1) => Heeds(x, l, k)
  BY DEF Matched, Accounted, Heeds

\* resumeSubagentRun, wherever it is called.
LEMMA ResumeLemma ==
  ASSUME NEW e, NEW k, Matched(e, k), NEW early
  PROVE  LET x == ResumeRun(e, k, early) IN
           /\ Matched(x.e, x.k) /\ Heeds(x.e, x.k, k) /\ (e = Gone => x.e = Gone)
           /\ \A n \in Nat : Accounted(e, k, n) => Accounted(x.e, x.k, n)
<1> DEFINE x == ResumeRun(e, k, early)
<1> DEFINE noted == [k EXCEPT !.resumed = TRUE]
<1> DEFINE Goal == /\ Matched(x.e, x.k) /\ Heeds(x.e, x.k, k) /\ (e = Gone => x.e = Gone)
                   /\ \A n \in Nat : Accounted(e, k, n) => Accounted(x.e, x.k, n)
<1> SUFFICES Goal
  OBVIOUS
<1>0. e \in Records /\ k \in Tasks /\ noted \in Tasks
  BY DEF Matched, Tasks
<1>1. CASE e = Gone \/ k.resumed
  <2>1. x = [e |-> e, k |-> k]
    BY <1>1 DEF ResumeRun
  <2> HIDE DEF x
  <2> QED
    BY <2>1 DEF Heeds
<1>2. CASE e # Gone /\ ~k.resumed
  <2>0. e \in RunRecord /\ e.tries <= MaxTries /\ MaxTries \in Nat \ {0}
    BY <1>0, <1>2, SubagentAssumption DEF Records
  <2>1. CASE ~e.session
    <3>1. x = [e |-> Gone, k |-> Quiet]
      BY <1>2, <2>1 DEF ResumeRun
    <3>2. \A n \in Nat : Accounted(e, k, n) => n \in 0..1
      BY DEF Accounted
    <3> HIDE DEF x
    <3> QED
      BY <3>1, <3>2, QuietLemma DEF Heeds
  <2>2. CASE e.session /\ e.completed
    <3>1. x = [e |-> e, k |-> k]
      BY <1>2, <2>2 DEF ResumeRun
    <3> HIDE DEF x
    <3> QED
      BY <3>1 DEF Heeds
  <2>3. CASE e.session /\ ~e.completed /\ e.tries >= MaxTries
    <3> DEFINE k1 == [k EXCEPT !.flow = "closing"]
    <3>1. x = [e |-> e, k |-> k1]
      BY <1>2, <2>3 DEF ResumeRun
    <3>2. k1 \in Tasks /\ k1.flow = "closing" /\ k1.completing = k.completing
      BY <1>0 DEF Tasks
    <3>3. e.tries = MaxTries
      BY ONLY <2>0, <2>3 DEF RunRecord
    <3> HIDE DEF x, k1
    <3>4. ASSUME NEW n \in Nat, Accounted(e, k, n)
          PROVE  Accounted(e, k1, n)
      BY <1>2, <2>3, <3>2, <3>3, <3>4 DEF Accounted
    <3>5. Matched(e, k1) /\ Heeds(e, k1, k)
      BY <1>0, <1>2, <3>2 DEF Matched, Heeds
    <3> QED
      BY <1>2, <3>1, <3>4, <3>5
  <2>4. CASE e.session /\ ~e.completed /\ ~(e.tries >= MaxTries)
    <3>1. CASE early \/ ~e.ended \/ Steered(e)
      <4> DEFINE a == [noted EXCEPT !.timers = @ \cup {"again"}]
      <4> DEFINE b == [noted EXCEPT !.owing = @ \cup {"wait"}]
      <4>1. x = [e |-> e, k |-> IF early THEN a ELSE IF ~e.ended THEN b ELSE noted]
        BY <1>2, <2>4, <3>1 DEF ResumeRun
      <4>2. /\ a \in Tasks /\ a.flow = k.flow /\ a.completing = k.completing
            /\ b \in Tasks /\ b.flow = k.flow /\ b.completing = k.completing
            /\ noted.flow = k.flow /\ noted.completing = k.completing
        BY <1>0 DEF Tasks
      <4> HIDE DEF x, a, b, noted
      <4>3. PICK k1 \in Tasks : /\ x = [e |-> e, k |-> k1]
                                /\ k1.flow = k.flow /\ k1.completing = k.completing
        BY <1>0, <4>1, <4>2
      <4>4. /\ Matched(e, k1) /\ \A n : Accounted(e, k, n) => Accounted(e, k1, n)
        BY <1>0, <4>3, TaskLemma
      <4>5. Heeds(e, k1, k)
        BY <4>3 DEF Heeds
      <4> QED
        BY <1>2, <4>3, <4>4, <4>5
    <3>2. CASE ~(early \/ ~e.ended \/ Steered(e))
      <4> DEFINE k1 == IF MayBegin(e) THEN noted ELSE k
      <4>1. x = StartFlow(e, k1)
        BY <1>2, <2>4, <3>2 DEF ResumeRun
      <4>2. k1 \in Tasks /\ k1.flow = k.flow /\ k1.completing = k.completing
        BY <1>0 DEF Tasks
      <4> HIDE DEF x, k1, noted
      <4>3. \A n : Accounted(e, k, n) => Accounted(e, k1, n)
        BY <1>0, <4>2, TaskLemma
      <4>4. /\ Matched(x.e, x.k) /\ Heeds(x.e, x.k, k1)
            /\ \A n \in Nat : Accounted(e, k1, n) => Accounted(x.e, x.k, n)
        BY <1>0, <1>2, <3>2, <4>1, <4>2, FlowLemma
      <4>5. Heeds(x.e, x.k, k)
        BY <4>2, <4>4 DEF Heeds
      <4> QED
        BY <1>2, <4>3, <4>4, <4>5
    <3> QED
      BY <3>1, <3>2
  <2> HIDE DEF Goal
  <2> QED
    BY <2>1, <2>2, <2>3, <2>4
<1> HIDE DEF Goal
<1> QED
  BY <1>1, <1>2

LEMMA RunTypes ==
  ASSUME SubagentInv
  PROVE  /\ record \in [Subagents -> Records] /\ saved \in [Subagents -> Records]
         /\ task \in [Subagents -> Tasks] /\ announced \in [Subagents -> Nat]
         /\ steering \subseteq spawned /\ spawned \subseteq Subagents /\ hit \subseteq spawned
         /\ troubles \in 0..MaxTroubles
  BY DEF SubagentInv, SubagentTypeOK, RunsKnown, Records, Tasks

LEMMA TroubleLemma ==
  ASSUME SubagentInv, Trouble
  PROVE  troubles' \in 0..MaxTroubles
<1>1. troubles \in 0..MaxTroubles /\ MaxTroubles \in Nat
  BY RunTypes, SubagentAssumption
<1> QED
  BY <1>1 DEF Trouble

LEMMA RunInvIntro ==
  ASSUME record' \in [Subagents -> Records], saved' \in [Subagents -> Records],
         task' \in [Subagents -> Tasks], announced' \in [Subagents -> Nat],
         steering' \subseteq spawned', spawned' \subseteq Subagents, hit' \subseteq spawned',
         troubles' \in 0..MaxTroubles,
         \A q \in Subagents : /\ record'[q] = Gone => saved'[q] = Gone
                              /\ record'[q] # Gone => q \in spawned'
                              /\ q \notin spawned' => announced'[q] = 0
                              /\ Matched(record'[q], task'[q])
                              /\ q \notin hit' => Accounted(record'[q], task'[q], announced'[q])
  PROVE  SubagentInv'
<1>1. SubagentTypeOK'
  BY DEF SubagentTypeOK, Records, Tasks
<1>2. RunsKnown'
  BY DEF RunsKnown, There
<1>3. /\ \A q \in Subagents : Matched(record[q], task[q])'
      /\ \A q \in Subagents : q \notin hit' => Accounted(record[q], task[q], announced[q])'
  BY DEF Matched, Accounted
<1> QED
  BY <1>1, <1>2, <1>3 DEF SubagentInv

\* A step that is about r alone.
LEMMA BecomesLemma ==
  ASSUME SubagentInv, NEW r \in Subagents, NEW e, NEW k,
         record' = [record EXCEPT ![r] = e], task' = [task EXCEPT ![r] = k],
         Matched(e, k), Heeds(e, k, task[r]), e # Gone => r \in spawned',
         r \notin hit' => Accounted(e, k, announced'[r]),
         announced' \in [Subagents -> Nat], r \notin spawned' => announced'[r] = 0,
         \A q \in Subagents \ {r} : announced'[q] = announced[q],
         saved' \in [Subagents -> Records],
         \A q \in Subagents : record'[q] = Gone => saved'[q] = Gone,
         steering' \subseteq spawned', spawned \subseteq spawned', spawned' \subseteq Subagents,
         hit \subseteq hit', hit' \subseteq spawned', troubles' \in 0..MaxTroubles
  PROVE  SubagentInv' /\ Heeded
<1>1. e \in Records /\ k \in Tasks
  BY DEF Matched
<1>2. /\ record' \in [Subagents -> Records] /\ record'[r] = e
      /\ \A q \in Subagents \ {r} : record'[q] = record[q]
      /\ task' \in [Subagents -> Tasks] /\ task'[r] = k
      /\ \A q \in Subagents \ {r} : task'[q] = task[q]
  BY <1>1, RunTypes
<1>3. ASSUME NEW q \in Subagents \ {r}
      PROVE  /\ record'[q] # Gone => q \in spawned'
             /\ q \notin spawned' => announced'[q] = 0
             /\ Matched(record'[q], task'[q])
             /\ q \notin hit' => Accounted(record'[q], task'[q], announced'[q])
  BY <1>2 DEF SubagentInv, RunsKnown, There
<1>4. Heeded
  <2>1. \A q \in Subagents \ {r} : Heeds(record'[q], task'[q], task[q])
    BY <1>2 DEF Heeds
  <2>2. Heeds(record'[r], task'[r], task[r])
    BY <1>2
  <2> QED
    BY <2>1, <2>2 DEF Heeded
<1>5. \A q \in Subagents :
         /\ record'[q] = Gone => saved'[q] = Gone
         /\ record'[q] # Gone => q \in spawned'
         /\ q \notin spawned' => announced'[q] = 0
         /\ Matched(record'[q], task'[q])
         /\ q \notin hit' => Accounted(record'[q], task'[q], announced'[q])
  BY <1>2, <1>3
<1>6. SubagentInv'
  BY <1>2, <1>5, RunInvIntro
<1> QED
  BY <1>4, <1>6

\* What persist() saves, and what a step saves that leaves r a record.
LEMMA SavedLemma ==
  ASSUME SubagentInv, NEW r \in Subagents, NEW e \in Records,
         record' = [record EXCEPT ![r] = e], Persist \/ (saved' = saved /\ e # Gone)
  PROVE  /\ saved' \in [Subagents -> Records]
         /\ \A q \in Subagents : record'[q] = Gone => saved'[q] = Gone
<1>1. record \in [Subagents -> Records] /\ saved \in [Subagents -> Records]
  BY RunTypes
<1>2. \A q \in Subagents : record[q] = Gone => saved[q] = Gone
  BY DEF SubagentInv, RunsKnown
<1> QED
  BY <1>1, <1>2 DEF Persist

\* The common case: what becomes of r is in its account, and nothing else changes.
LEMMA PlainLemma ==
  ASSUME SubagentInv, NEW r \in Subagents, NEW e, NEW k,
         record' = [record EXCEPT ![r] = e], task' = [task EXCEPT ![r] = k],
         Matched(e, k), Heeds(e, k, task[r]), e # Gone => There(r),
         Persist \/ (saved' = saved /\ e # Gone),
         Accounted(record[r], task[r], announced[r]) => Accounted(e, k, announced[r]),
         steering' \subseteq spawned, troubles' \in 0..MaxTroubles,
         UNCHANGED <<spawned, announced, hit>>
  PROVE  SubagentInv' /\ Heeded
<1>1. e \in Records
  BY DEF Matched
<1>2. /\ saved' \in [Subagents -> Records]
      /\ \A q \in Subagents : record'[q] = Gone => saved'[q] = Gone
  BY <1>1, SavedLemma
<1>3. /\ e # Gone => r \in spawned'
      /\ r \notin hit' => Accounted(e, k, announced'[r])
      /\ r \notin spawned' => announced'[r] = 0
  BY DEF SubagentInv, RunsKnown
<1>4. /\ announced' \in [Subagents -> Nat] /\ spawned' \subseteq Subagents /\ hit' \subseteq spawned'
      /\ steering' \subseteq spawned' /\ spawned \subseteq spawned' /\ hit \subseteq hit'
      /\ \A q \in Subagents \ {r} : announced'[q] = announced[q]
  BY RunTypes
<1> QED
  BY <1>2, <1>3, <1>4, BecomesLemma

\* A step that changes r and then resumes what is deferred.
LEMMA RetryLemma ==
  ASSUME SubagentInv, NEW r \in Subagents, NEW e, NEW k,
         Matched(e, k), Heeds(e, k, task[r]), e # Gone => There(r),
         Accounted(record[r], task[r], announced[r]) => Accounted(e, k, announced[r]),
         RetryDeferred(r, [record EXCEPT ![r] = e], [task EXCEPT ![r] = k]),
         troubles' \in 0..MaxTroubles, UNCHANGED <<steering, spawned, announced, hit>>
  PROVE  SubagentInv' /\ Heeded
<1> DEFINE es == [record EXCEPT ![r] = e]
           ks == [task EXCEPT ![r] = k]
           resumable == {q \in Subagents \ {r} : /\ es[q] # Gone /\ es[q].ended
                                                 /\ MayBegin(es[q]) /\ ~Steered(es[q])}
           Renewed(q) == [ks[q] EXCEPT !.resumed = FALSE]
<1>1. PICK late \in SUBSET {q \in resumable : MayBeEarly(es[q])} :
        LET after == [q \in resumable |-> ResumeRun(es[q], Renewed(q), q \in late)] IN
          /\ record' = [q \in Subagents |-> IF q \in resumable THEN after[q].e ELSE es[q]]
          /\ task' = [q \in Subagents |-> IF q \in resumable THEN after[q].k ELSE ks[q]]
          /\ Persist
  BY DEF RetryDeferred
<1>2. /\ DOMAIN record' = Subagents /\ DOMAIN task' = Subagents /\ Persist
      /\ record' = [q \in Subagents |-> record'[q]] /\ task' = [q \in Subagents |-> task'[q]]
  BY <1>1
<1>3. \A q \in resumable : /\ record'[q] = ResumeRun(es[q], Renewed(q), q \in late).e
                           /\ task'[q] = ResumeRun(es[q], Renewed(q), q \in late).k
  BY <1>1
<1>4. \A q \in Subagents \ resumable : record'[q] = es[q] /\ task'[q] = ks[q]
  BY <1>1
<1>5. /\ es[r] = e /\ ks[r] = k /\ r \notin resumable /\ resumable \subseteq Subagents
      /\ \A q \in Subagents \ {r} : es[q] = record[q] /\ ks[q] = task[q]
  BY RunTypes
<1> HIDE DEF es, ks, resumable
<1> DEFINE Settled(q) == /\ record'[q] # Gone => There(q)
                         /\ Matched(record'[q], task'[q]) /\ Heeds(record'[q], task'[q], task[q])
                         /\ \/ ~Accounted(record[q], task[q], announced[q])
                            \/ Accounted(record'[q], task'[q], announced[q])
<1>6. ASSUME NEW q \in resumable
      PROVE  Settled(q)
  <2>1. q \in Subagents /\ es[q] = record[q] /\ ks[q] = task[q] /\ task[q] \in Tasks
    BY <1>5, RunTypes
  <2>2. Renewed(q) \in Tasks /\ Renewed(q).flow = task[q].flow
        /\ Renewed(q).completing = task[q].completing
    BY <2>1 DEF Tasks
  <2> HIDE DEF Renewed
  <2>3. Matched(record[q], task[q]) /\ announced[q] \in Nat
    BY <2>1, RunTypes DEF SubagentInv
  <2>4. /\ Matched(record[q], Renewed(q))
        /\ \A n : Accounted(record[q], task[q], n) => Accounted(record[q], Renewed(q), n)
        /\ \A x, l : Heeds(x, l, Renewed(q)) => Heeds(x, l, task[q])
    BY <2>1, <2>2, <2>3, TaskLemma
  <2> DEFINE x == ResumeRun(record[q], Renewed(q), q \in late)
  <2>5. /\ Matched(x.e, x.k) /\ Heeds(x.e, x.k, Renewed(q)) /\ (record[q] = Gone => x.e = Gone)
        /\ \A n \in Nat : Accounted(record[q], Renewed(q), n) => Accounted(x.e, x.k, n)
    BY <2>4, ResumeLemma
  <2>6. record'[q] = x.e /\ task'[q] = x.k
    BY <1>3, <2>1
  <2> HIDE DEF x
  <2> QED
    BY <2>3, <2>4, <2>5, <2>6 DEF There
<1>7. ASSUME NEW q \in Subagents \ resumable
      PROVE  Settled(q)
  <2>1. CASE q = r
    BY <1>4, <1>5, <2>1
  <2>2. CASE q # r
    <3>1. record'[q] = record[q] /\ task'[q] = task[q]
      BY <1>4, <1>5, <2>2
    <3> QED
      BY <3>1 DEF There, Heeds, SubagentInv
  <2> QED
    BY <2>1, <2>2
<1>8. \A q \in Subagents : Settled(q)
  BY <1>6, <1>7
<1>9. record' \in [Subagents -> Records] /\ task' \in [Subagents -> Tasks] /\ saved' = record'
  BY <1>2, <1>8 DEF Matched, Persist
<1>10. \A q \in Subagents : /\ record'[q] = Gone => saved'[q] = Gone
                            /\ record'[q] # Gone => q \in spawned'
                            /\ q \notin spawned' => announced'[q] = 0
                            /\ Matched(record'[q], task'[q])
                            /\ q \notin hit' => Accounted(record'[q], task'[q], announced'[q])
  BY <1>8, <1>9 DEF SubagentInv, RunsKnown
<1>11. SubagentInv'
  BY <1>9, <1>10, RunTypes, RunInvIntro
<1> QED
  BY <1>8, <1>11 DEF Heeded

LEMMA SubagentInitInv == SubagentInit => SubagentInv
<1> SUFFICES ASSUME SubagentInit PROVE SubagentInv
  OBVIOUS
<1>1. /\ record \in [Subagents -> Records] /\ saved = record /\ \A q \in Subagents : record[q] = Gone
      /\ task \in [Subagents -> Tasks] /\ \A q \in Subagents : task[q] = Quiet
      /\ announced \in [Subagents -> Nat] /\ \A q \in Subagents : announced[q] = 0
      /\ steering = {} /\ spawned = {} /\ hit = {}
  BY QuietLemma DEF SubagentInit, Records
<1>2. troubles \in 0..MaxTroubles
  BY SubagentAssumption DEF SubagentInit
<1>3. SubagentTypeOK
  BY <1>1, <1>2 DEF SubagentTypeOK, Records, Tasks
<1>4. RunsKnown
  BY <1>1 DEF RunsKnown, There
<1>5. 0 \in 0..1
  OBVIOUS
<1>6. /\ \A q \in Subagents : Matched(record[q], task[q])
      /\ \A q \in Subagents : Accounted(record[q], task[q], announced[q])
  BY <1>1, <1>5, QuietLemma
<1> QED
  BY <1>3, <1>4, <1>6 DEF SubagentInv

LEMMA ReplaceLemma ==
  ASSUME SubagentInv, NEW r \in Subagents, r \in spawned, NEW wake \in {"no", "woken"},
         Replace(r, wake), steering' \subseteq spawned, troubles' \in 0..MaxTroubles,
         UNCHANGED <<spawned, hit>>
  PROVE  SubagentInv' /\ Heeded
<1> DEFINE e == [NewRecord EXCEPT !.wake = wake]
<1>1. /\ record' = [record EXCEPT ![r] = e] /\ task' = [task EXCEPT ![r] = Watched(r)]
      /\ announced' = [announced EXCEPT ![r] = 0] /\ Persist
  BY DEF Replace, Becomes
<1>2. /\ e # Gone /\ Matched(e, Watched(r)) /\ Accounted(e, Watched(r), 0)
      /\ Watched(r).flow = "none"
  BY NewLemma
<1> HIDE DEF e
<1>3. /\ announced' \in [Subagents -> Nat] /\ announced'[r] = 0
      /\ \A q \in Subagents \ {r} : announced'[q] = announced[q]
  BY <1>1, RunTypes
<1>4. e \in Records /\ Heeds(e, Watched(r), task[r])
  BY <1>2 DEF Matched, Heeds
<1>5. /\ saved' \in [Subagents -> Records]
      /\ \A q \in Subagents : record'[q] = Gone => saved'[q] = Gone
  BY <1>1, <1>4, SavedLemma
<1> QED
  BY <1>1, <1>2, <1>3, <1>4, <1>5, RunTypes, BecomesLemma

LEMMA RegisterStep ==
  ASSUME SubagentInv, NEW r \in Subagents, RegisterRun(r)
  PROVE  SubagentInv' /\ Heeded
<1>1. /\ r \notin spawned /\ spawned' = spawned \cup {r} /\ Persist
      /\ record' = [record EXCEPT ![r] = NewRecord] /\ task' = [task EXCEPT ![r] = Watched(r)]
      /\ UNCHANGED <<steering, troubles, announced, hit>>
  BY DEF RegisterRun, Becomes
<1>2. /\ NewRecord # Gone /\ Matched(NewRecord, Watched(r)) /\ Accounted(NewRecord, Watched(r), 0)
      /\ Watched(r).flow = "none"
  <2>1. NewRecord = [NewRecord EXCEPT !.wake = "no"]
    BY DEF NewRecord
  <2> QED
    BY <2>1, NewLemma
<1>3. announced'[r] = 0
  BY <1>1 DEF SubagentInv, RunsKnown
<1>4. NewRecord \in Records /\ Heeds(NewRecord, Watched(r), task[r])
  BY <1>2 DEF Matched, Heeds
<1>5. /\ saved' \in [Subagents -> Records]
      /\ \A q \in Subagents : record'[q] = Gone => saved'[q] = Gone
  BY <1>1, <1>4, SavedLemma
<1>6. spawned' \subseteq Subagents /\ hit' \subseteq spawned' /\ steering' \subseteq spawned'
  BY <1>1, RunTypes
<1> QED
  BY <1>1, <1>2, <1>3, <1>4, <1>5, <1>6, RunTypes, BecomesLemma

\* The facts about a run that is there.
LEMMA RunLemma ==
  ASSUME SubagentInv, NEW r \in Subagents
  PROVE  /\ Matched(record[r], task[r]) /\ task[r] \in Tasks
         /\ There(r) => record[r] \in RunRecord /\ record[r].tries <= MaxTries /\ r \in spawned
         /\ task[r].flow # "none" \/ task[r].completing # {} => There(r)
         /\ MaxTries \in Nat \ {0} /\ Gone \notin RunRecord
  BY RunTypes, SubagentAssumption DEF SubagentInv, RunsKnown, There, Matched, Records

\* completeSubagentRun keeps the account.
LEMMA CompleteLemma ==
  ASSUME SubagentInv, NEW r \in Subagents, There(r), NEW source \in {"wait", "event"},
         NEW e \in Completed(record[r]), NEW k,
         k = [task[r] EXCEPT !.owing = @ \ {source}, !.completing = @ \cup {source}]
  PROVE  /\ e # Gone /\ Matched(e, k) /\ Heeds(e, k, task[r])
         /\ Accounted(record[r], task[r], announced[r]) => Accounted(e, k, announced[r])
<1> DEFINE b == record[r]
           l == task[r]
           n == announced[r]
           e1 == [b EXCEPT !.ended = TRUE]
           e2 == [b EXCEPT !.suppress = "none", !.handled = FALSE, !.completed = FALSE]
<1>1. b \in RunRecord /\ b.tries <= MaxTries /\ l \in Tasks /\ Gone \notin RunRecord
  BY RunLemma
<1>2. e = e1 \/ (e = e2 /\ b.suppress = "killed")
  BY DEF Completed
<1> HIDE DEF b, l, n
<1>3. k \in Tasks /\ k.flow = l.flow
  BY <1>1 DEF Tasks, l
<1>4. /\ e1 \in RunRecord /\ e1.ended /\ e1.handled = b.handled /\ e1.completed = b.completed
      /\ e1.suppress = b.suppress /\ e1.tries = b.tries
      /\ e2 \in RunRecord /\ e2.ended = b.ended /\ ~e2.handled /\ ~e2.completed
      /\ e2.suppress = "none" /\ e2.tries = b.tries
  BY <1>1 DEF RunRecord
<1> HIDE DEF e1, e2
<1>5. e # Gone /\ Matched(e, k) /\ Heeds(e, k, l)
  BY <1>1, <1>2, <1>3, <1>4 DEF Matched, Records, Heeds
<1>6. Accounted(b, l, n) => Accounted(e, k, n)
  <2> SUFFICES ASSUME Accounted(b, l, n) PROVE Accounted(e, k, n)
    OBVIOUS
  <2>1. CASE e = e1
    BY <1>1, <1>3, <1>4, <2>1 DEF Accounted
  <2>2. CASE e = e2 /\ b.suppress = "killed"
    <3>1. b # Gone
      BY <1>1
    <3>2. b.ended /\ b.completed /\ n = 0 /\ b.tries # MaxTries /\ l.flow = "none"
      BY <2>2, <3>1 DEF Accounted
    <3> QED
      BY <1>3, <1>4, <2>2, <3>2 DEF Accounted
  <2> QED
    BY <1>2, <2>1, <2>2
<1> QED
  BY <1>5, <1>6 DEF b, l, n

LEMMA EndStep ==
  ASSUME SubagentInv, NEW r \in Subagents, WaitAnswers(r) \/ EventComes(r)
  PROVE  SubagentInv' /\ Heeded
<1>1. /\ There(r) /\ UNCHANGED <<steering, troubles, spawned, announced, hit>>
      /\ saved' = saved \/ saved' = [record EXCEPT ![r].ended = TRUE]
  BY DEF WaitAnswers, EventComes
<1>2. PICK source \in {"wait", "event"} : Complete(r, source)
  BY DEF WaitAnswers, EventComes
<1> DEFINE k == [task[r] EXCEPT !.owing = @ \ {source}, !.completing = @ \cup {source}]
<1>3. PICK e \in Completed(record[r]) :
        record' = [record EXCEPT ![r] = e] /\ task' = [task EXCEPT ![r] = k]
  BY <1>2 DEF Complete, Becomes
<1>4. /\ e # Gone /\ Matched(e, k) /\ Heeds(e, k, task[r])
      /\ Accounted(record[r], task[r], announced[r]) => Accounted(e, k, announced[r])
  BY <1>1, CompleteLemma
<1> HIDE DEF k
<1>5. e \in Records /\ record[r] \in RunRecord /\ record[r].tries <= MaxTries
  BY <1>1, <1>4, RunLemma DEF Matched
<1>6. /\ saved' \in [Subagents -> Records]
      /\ \A q \in Subagents : record'[q] = Gone => saved'[q] = Gone
  <2>1. CASE saved' = saved
    BY <1>3, <1>4, <1>5, <2>1, SavedLemma
  <2>2. CASE saved' = [record EXCEPT ![r].ended = TRUE]
    <3>1. [record[r] EXCEPT !.ended = TRUE] \in Records
      BY <1>5 DEF Records, RunRecord
    <3>2. saved' = [record EXCEPT ![r] = [record[r] EXCEPT !.ended = TRUE]]
      BY <2>2
    <3>3. record \in [Subagents -> Records]
      BY RunTypes
    <3> QED
      BY <1>3, <1>4, <3>1, <3>2, <3>3
  <2> QED
    BY <1>1, <2>1, <2>2
<1>7. r \in spawned /\ (r \notin hit => Accounted(e, k, announced[r]))
  BY <1>1, <1>4, RunLemma DEF SubagentInv
<1> QED
  BY <1>1, <1>3, <1>4, <1>6, <1>7, RunTypes, BecomesLemma

LEMMA WaitFailsStep ==
  ASSUME SubagentInv, NEW r \in Subagents, WaitFails(r)
  PROVE  SubagentInv' /\ Heeded
<1> DEFINE k == [task[r] EXCEPT !.owing = @ \ {"wait"}]
<1>1. /\ There(r) /\ Trouble /\ task' = [task EXCEPT ![r] = k]
      /\ hit' = hit \cup ({r} \ Embedded)
      /\ UNCHANGED <<record, saved, steering, spawned, announced>>
  BY DEF WaitFails
<1>2. k \in Tasks /\ k.flow = task[r].flow /\ k.completing = task[r].completing
  BY RunLemma DEF Tasks
<1> HIDE DEF k
<1>3. /\ Matched(record[r], k) /\ Heeds(record[r], k, task[r])
      /\ Accounted(record[r], task[r], announced[r]) => Accounted(record[r], k, announced[r])
  BY <1>2, RunLemma, TaskLemma DEF Heeds
<1>4. record' = [record EXCEPT ![r] = record[r]]
  BY <1>1, RunTypes
<1>5. record[r] # Gone /\ r \in spawned /\ record[r] \in Records
  BY <1>1, RunLemma, RunTypes DEF There
<1>6. \A q \in Subagents : record'[q] = Gone => saved'[q] = Gone
  BY <1>1 DEF SubagentInv, RunsKnown
<1>7. r \notin hit' => Accounted(record[r], k, announced'[r])
  BY <1>1, <1>3 DEF SubagentInv
<1>8. troubles' \in 0..MaxTroubles /\ hit' \subseteq spawned' /\ hit \subseteq hit'
  BY <1>1, <1>5, RunTypes, TroubleLemma
<1> QED
  BY <1>1, <1>3, <1>4, <1>5, <1>6, <1>7, <1>8, RunTypes, BecomesLemma

LEMMA CompletionStep ==
  ASSUME SubagentInv, NEW r \in Subagents, NEW source \in {"wait", "event"},
         CompletionGoesOn(r, source)
  PROVE  SubagentInv' /\ Heeded
<1> DEFINE k == [task[r] EXCEPT !.completing = @ \ {source}]
           x == IF HeldBack(record[r]) THEN [e |-> record[r], k |-> k]
                                       ELSE StartFlow(record[r], k)
<1>1. /\ source \in task[r].completing /\ Becomes(r, x) /\ Persist
      /\ UNCHANGED <<steering, troubles, spawned, announced, hit>>
  BY DEF CompletionGoesOn
<1>2. There(r) /\ record[r] \in Records /\ announced[r] \in Nat
  BY <1>1, RunLemma, RunTypes
<1>3. /\ k \in Tasks /\ k.flow = task[r].flow /\ k.completing \subseteq task[r].completing
  BY RunLemma DEF Tasks
<1> HIDE DEF k
<1>4. /\ Matched(record[r], k)
      /\ \A n : Accounted(record[r], task[r], n) => Accounted(record[r], k, n)
      /\ \A y, l : Heeds(y, l, k) => Heeds(y, l, task[r])
  BY <1>3, RunLemma, TaskLemma
<1>5. Accounted(record[r], task[r], announced[r]) => record[r].ended
  BY <1>1, <1>2 DEF Accounted, There
<1>6. /\ x.e # Gone /\ Matched(x.e, x.k) /\ Heeds(x.e, x.k, k)
      /\ Accounted(record[r], task[r], announced[r]) => Accounted(x.e, x.k, announced[r])
  <2>1. CASE HeldBack(record[r])
    <3>1. x = [e |-> record[r], k |-> k]
      BY <2>1
    <3> HIDE DEF x
    <3> QED
      BY <1>2, <1>4, <3>1 DEF Heeds, There
  <2>2. CASE ~HeldBack(record[r])
    <3>1. x = StartFlow(record[r], k)
      BY <2>2
    <3> HIDE DEF x
    <3>2. /\ x.e # Gone /\ Matched(x.e, x.k) /\ Heeds(x.e, x.k, k)
          /\ \A n \in Nat : record[r].ended /\ Accounted(record[r], k, n) => Accounted(x.e, x.k, n)
      BY <1>2, <1>3, <2>2, <3>1, FlowLemma DEF HeldBack, There
    <3> QED
      BY <1>2, <1>4, <1>5, <3>2
  <2> QED
    BY <2>1, <2>2
<1> HIDE DEF x
<1>7. record' = [record EXCEPT ![r] = x.e] /\ task' = [task EXCEPT ![r] = x.k]
  BY <1>1 DEF Becomes
<1> QED
  BY <1>1, <1>2, <1>4, <1>6, <1>7, RunTypes, PlainLemma

\* NoWake and the end of an announcement leave the account to the flow.
LEMMA NoWakeLemma ==
  ASSUME NEW e \in RunRecord
  PROVE  /\ NoWake(e) \in RunRecord /\ NoWake(e).ended = e.ended /\ NoWake(e).handled = e.handled
         /\ NoWake(e).completed = e.completed /\ NoWake(e).suppress = e.suppress
         /\ NoWake(e).tries = e.tries
  BY DEF NoWake, RunRecord

LEMMA SucceedsStep ==
  ASSUME SubagentInv, NEW r \in Subagents, AnnounceSucceeds(r)
  PROVE  SubagentInv' /\ Heeded
<1> DEFINE e == NoWake(record[r])
           k == [task[r] EXCEPT !.flow = "closing"]
<1>1. /\ task[r].flow = "sending"
      /\ record' = [record EXCEPT ![r] = e] /\ task' = [task EXCEPT ![r] = k]
      /\ announced' = [announced EXCEPT ![r] = @ + 1]
      /\ UNCHANGED <<saved, steering, troubles, spawned, hit>>
  BY DEF AnnounceSucceeds, Becomes
<1>2. /\ There(r) /\ record[r] \in RunRecord /\ record[r].tries <= MaxTries /\ r \in spawned
      /\ Gone \notin RunRecord
  BY <1>1, RunLemma
<1>3. /\ e \in RunRecord /\ e.ended = record[r].ended /\ e.handled = record[r].handled
      /\ e.completed = record[r].completed /\ e.suppress = record[r].suppress
      /\ e.tries = record[r].tries
  BY <1>2, NoWakeLemma
<1>4. k \in Tasks /\ k.flow = "closing" /\ k.completing = task[r].completing
  BY RunLemma DEF Tasks
<1> HIDE DEF e, k
<1>5. /\ e # Gone /\ e \in Records /\ Matched(e, k) /\ Heeds(e, k, task[r])
  BY <1>2, <1>3, <1>4 DEF Matched, Records, Heeds
<1>6. /\ announced' \in [Subagents -> Nat] /\ announced'[r] = announced[r] + 1
      /\ \A q \in Subagents \ {r} : announced'[q] = announced[q]
  BY <1>1, RunTypes
<1>7. r \notin hit' => Accounted(e, k, announced'[r])
  <2> SUFFICES ASSUME r \notin hit PROVE Accounted(e, k, announced'[r])
    BY <1>1
  <2>1. Accounted(record[r], task[r], announced[r])
    BY DEF SubagentInv
  <2>2. /\ announced[r] = 0 /\ record[r].ended /\ record[r].handled /\ ~record[r].completed
        /\ record[r].suppress # "killed"
    BY <1>1, <1>2, <2>1 DEF Accounted
  <2> QED
    BY <1>3, <1>4, <1>6, <2>2 DEF Accounted
<1>8. /\ saved' \in [Subagents -> Records]
      /\ \A q \in Subagents : record'[q] = Gone => saved'[q] = Gone
  BY <1>1, <1>5, SavedLemma
<1> QED
  BY <1>1, <1>2, <1>5, <1>6, <1>7, <1>8, RunTypes, BecomesLemma

LEMMA WakesStep ==
  ASSUME SubagentInv, NEW r \in Subagents, AnnounceWakes(r)
  PROVE  SubagentInv' /\ Heeded
<1>1. /\ Replace(r, "woken") /\ r \in spawned
      /\ UNCHANGED <<steering, troubles, spawned, hit>>
  BY RunLemma DEF AnnounceWakes
<1> QED
  BY <1>1, RunTypes, ReplaceLemma

LEMMA FailsStep ==
  ASSUME SubagentInv, NEW r \in Subagents, AnnounceFails(r)
  PROVE  SubagentInv' /\ Heeded
<1> DEFINE b == record[r]
           l == task[r]
<1>1. /\ l.flow = "sending" /\ UNCHANGED <<steering, troubles, spawned, announced, hit>>
  BY DEF AnnounceFails
<1>2. /\ There(r) /\ b \in RunRecord /\ b.tries <= MaxTries /\ l \in Tasks
      /\ MaxTries \in Nat \ {0} /\ Gone \notin RunRecord /\ b # Gone
  BY <1>1, RunLemma DEF There
<1>3. /\ Retried(l) \in Tasks /\ Retried(l).flow = "none" /\ Retried(l).completing = l.completing
  BY <1>2 DEF Retried, Tasks
<1> DEFINE waits == [b EXCEPT !.wake = IF @ = "woken" THEN @ ELSE "due", !.handled = FALSE]
<1>4. CASE /\ AwaitsChildren(r) /\ Becomes(r, [e |-> waits, k |-> Retried(l)]) /\ Persist
  <2>1. /\ waits \in RunRecord /\ waits.tries = b.tries /\ waits.ended = b.ended
        /\ waits.completed = b.completed /\ waits.suppress = b.suppress
    BY <1>2 DEF RunRecord
  <2>2. record' = [record EXCEPT ![r] = waits] /\ task' = [task EXCEPT ![r] = Retried(l)]
    BY <1>4 DEF Becomes
  <2> HIDE DEF b, l, waits
  <2>3. Matched(waits, Retried(l)) /\ Heeds(waits, Retried(l), l) /\ waits # Gone
    BY <1>2, <1>3, <2>1 DEF Matched, Records, Heeds
  <2>4. Accounted(b, l, announced[r]) => Accounted(waits, Retried(l), announced[r])
    BY <1>1, <1>2, <1>3, <2>1 DEF Accounted
  <2> QED
    BY <1>1, <1>2, <1>4, <2>2, <2>3, <2>4, RunTypes, PlainLemma DEF b, l
<1>5. CASE /\ b.tries + 1 < MaxTries
           /\ \E session \in {TRUE, r \notin Deleting} :
                Becomes(r, [e |-> [b EXCEPT !.tries = @ + 1, !.handled = FALSE, !.session = session],
                            k |-> Retried(l)])
           /\ Persist
  <2>1. PICK session \in {TRUE, r \notin Deleting} :
          Becomes(r, [e |-> [b EXCEPT !.tries = @ + 1, !.handled = FALSE, !.session = session],
                      k |-> Retried(l)])
    BY <1>5
  <2> DEFINE again == [b EXCEPT !.tries = @ + 1, !.handled = FALSE, !.session = session]
  <2>2. session = TRUE \/ session = FALSE
    OBVIOUS
  <2>3. /\ again \in RunRecord /\ again.tries = b.tries + 1 /\ again.ended = b.ended
        /\ again.completed = b.completed /\ again.suppress = b.suppress
    <3> DEFINE counted == [b EXCEPT !.tries = @ + 1]
               open == [counted EXCEPT !.handled = FALSE]
    <3>1. /\ counted \in RunRecord /\ counted.tries = b.tries + 1 /\ counted.ended = b.ended
          /\ counted.completed = b.completed /\ counted.suppress = b.suppress
      BY <1>2 DEF RunRecord
    <3>2. again = [open EXCEPT !.session = session]
      BY <1>2 DEF RunRecord
    <3> HIDE DEF counted
    <3>3. /\ open \in RunRecord /\ open.tries = counted.tries /\ open.ended = counted.ended
          /\ open.completed = counted.completed /\ open.suppress = counted.suppress
      BY <3>1 DEF RunRecord
    <3> HIDE DEF open, again
    <3> QED
      BY <2>2, <3>1, <3>2, <3>3 DEF RunRecord
  <2>4. record' = [record EXCEPT ![r] = again] /\ task' = [task EXCEPT ![r] = Retried(l)]
    BY <2>1 DEF Becomes
  <2>5. b.tries \in Nat
    BY <1>2 DEF RunRecord
  <2> HIDE DEF b, l, again
  <2>6. again.tries <= MaxTries /\ again.tries # MaxTries
    BY <1>2, <1>5, <2>3, <2>5
  <2>7. Matched(again, Retried(l)) /\ Heeds(again, Retried(l), l) /\ again # Gone
    BY <1>2, <1>3, <2>3, <2>6 DEF Matched, Records, Heeds
  <2>8. Accounted(b, l, announced[r]) => Accounted(again, Retried(l), announced[r])
    BY <1>1, <1>2, <1>3, <2>3, <2>6 DEF Accounted
  <2> QED
    BY <1>1, <1>2, <1>5, <2>4, <2>7, <2>8, RunTypes, PlainLemma DEF b, l
<1> DEFINE counts == ~(AwaitsChildren(r) \/ b.tries = MaxTries)
           given == IF AwaitsChildren(r) \/ b.tries = MaxTries THEN NoWake(b)
                    ELSE [NoWake(b) EXCEPT !.tries = @ + 1]
           k == [l EXCEPT !.flow = "closing"]
<1>6. CASE Becomes(r, [e |-> given, k |-> k]) /\ UNCHANGED saved
  <2>1. /\ NoWake(b) \in RunRecord /\ NoWake(b).ended = b.ended /\ NoWake(b).handled = b.handled
        /\ NoWake(b).completed = b.completed /\ NoWake(b).suppress = b.suppress
        /\ NoWake(b).tries = b.tries
    BY <1>2, NoWakeLemma
  <2>2. /\ given \in RunRecord /\ given.ended = b.ended /\ given.handled = b.handled
        /\ given.completed = b.completed /\ given.suppress = b.suppress
        /\ given.tries \in {b.tries, b.tries + 1}
        /\ b.tries = MaxTries => given.tries = b.tries
    <3>1. CASE AwaitsChildren(r) \/ b.tries = MaxTries
      BY <2>1, <3>1
    <3>2. CASE ~(AwaitsChildren(r) \/ b.tries = MaxTries)
      BY <2>1, <3>2 DEF RunRecord
    <3> QED
      BY <3>1, <3>2
  <2>3. k \in Tasks /\ k.flow = "closing" /\ k.completing = l.completing
    BY <1>2 DEF Tasks
  <2>4. record' = [record EXCEPT ![r] = given] /\ task' = [task EXCEPT ![r] = k]
    BY <1>6 DEF Becomes
  <2>5. b.tries \in Nat
    BY <1>2 DEF RunRecord
  <2> HIDE DEF b, l, given, k
  <2>6. given.tries <= MaxTries
    BY <1>2, <2>2, <2>5
  <2>7. Matched(given, k) /\ Heeds(given, k, l) /\ given # Gone
    BY <1>2, <2>2, <2>3, <2>6 DEF Matched, Records, Heeds
  <2>8. Accounted(b, l, announced[r]) => Accounted(given, k, announced[r])
    BY <1>1, <1>2, <2>2, <2>3 DEF Accounted
  <2> QED
    BY <1>1, <1>2, <1>6, <2>4, <2>7, <2>8, RunTypes, PlainLemma DEF b, l
<1> QED
  BY <1>4, <1>5, <1>6 DEF AnnounceFails

\* completeCleanupBookkeeping: the record is removed, or completed.
LEMMA BookkeepLemma ==
  ASSUME SubagentInv, NEW r \in Subagents, There(r), NEW e \in RunRecord, NEW k \in Tasks,
         e.tries <= MaxTries, k.flow \in {"none", task[r].flow}, Bookkeep(r, e, k),
         troubles' \in 0..MaxTroubles, UNCHANGED <<steering, spawned, announced, hit>>,
         Accounted(record[r], task[r], announced[r]) =>
           k.flow = "none" /\ e.ended /\ (e.suppress = "killed" => announced[r] = 0 /\ e.tries # MaxTries)
  PROVE  SubagentInv' /\ Heeded
<1> DEFINE done == [e EXCEPT !.completed = TRUE]
<1>1. CASE r \in Deleting
  <2>1. RetryDeferred(r, [record EXCEPT ![r] = Gone], [task EXCEPT ![r] = Quiet])
    BY <1>1 DEF Bookkeep
  <2>2. Heeds(Gone, Quiet, task[r])
    BY QuietLemma DEF Heeds
  <2>3. Accounted(record[r], task[r], announced[r]) => Accounted(Gone, Quiet, announced[r])
    BY QuietLemma DEF Accounted
  <2> QED
    BY <2>1, <2>2, <2>3, QuietLemma, RetryLemma
<1>2. CASE r \notin Deleting
  <2>1. RetryDeferred(r, [record EXCEPT ![r] = done], [task EXCEPT ![r] = k])
    BY <1>2 DEF Bookkeep
  <2>2. /\ done \in RunRecord /\ done.completed /\ done.ended = e.ended /\ done.tries = e.tries
        /\ done.suppress = e.suppress
    BY DEF RunRecord
  <2> HIDE DEF done
  <2>3. Matched(done, k) /\ Heeds(done, k, task[r])
    BY <2>2, SubagentAssumption DEF Matched, Records, Heeds
  <2>4. Accounted(record[r], task[r], announced[r]) => Accounted(done, k, announced[r])
    BY <2>2 DEF Accounted
  <2> QED
    BY <2>1, <2>3, <2>4, RetryLemma
<1> QED
  BY <1>1, <1>2

LEMMA CloseStep ==
  ASSUME SubagentInv, NEW r \in Subagents, CloseRun(r)
  PROVE  SubagentInv' /\ Heeded
<1> DEFINE k == [task[r] EXCEPT !.flow = "none"]
<1>1. /\ task[r].flow = "closing" /\ Bookkeep(r, record[r], k)
      /\ UNCHANGED <<steering, troubles, spawned, announced, hit>>
  BY DEF CloseRun
<1>2. There(r) /\ record[r] \in RunRecord /\ record[r].tries <= MaxTries
  BY <1>1, RunLemma
<1>3. k \in Tasks /\ k.flow = "none"
  BY RunLemma DEF Tasks
<1>4. Accounted(record[r], task[r], announced[r]) =>
        record[r].ended /\ record[r].suppress # "killed"
  BY <1>1, <1>2 DEF Accounted, There
<1> HIDE DEF k
<1> QED
  BY <1>1, <1>2, <1>3, <1>4, RunTypes, BookkeepLemma

LEMMA KillStep ==
  ASSUME SubagentInv, NEW r \in Subagents, Kill(r)
  PROVE  SubagentInv' /\ Heeded
<1> DEFINE e == [record[r] EXCEPT !.ended = TRUE, !.handled = TRUE, !.suppress = "killed"]
<1>1. /\ There(r) /\ ~record[r].ended /\ Bookkeep(r, e, task[r]) /\ Trouble
      /\ UNCHANGED <<steering, spawned, announced, hit>>
  BY DEF Kill
<1>2. record[r] \in RunRecord /\ record[r].tries <= MaxTries
  BY <1>1, RunLemma
<1>3. e \in RunRecord /\ e.tries = record[r].tries /\ e.ended /\ e.suppress = "killed"
  BY <1>2 DEF RunRecord
<1>4. Accounted(record[r], task[r], announced[r]) =>
        announced[r] = 0 /\ record[r].tries # MaxTries /\ task[r].flow = "none"
  BY <1>1 DEF Accounted, There
<1> HIDE DEF e
<1> QED
  BY <1>1, <1>2, <1>3, <1>4, TroubleLemma, BookkeepLemma, RunLemma

LEMMA CloseFailsStep ==
  ASSUME SubagentInv, NEW r \in Subagents, CloseFails(r)
  PROVE  SubagentInv' /\ Heeded
<1> DEFINE e == [record[r] EXCEPT !.handled = FALSE]
           k == [task[r] EXCEPT !.flow = "none"]
<1>1. /\ task[r].flow = "closing" /\ Trouble /\ Persist /\ hit' = hit \cup {r}
      /\ record' = [record EXCEPT ![r] = e] /\ task' = [task EXCEPT ![r] = k]
      /\ UNCHANGED <<steering, spawned, announced>>
  BY DEF CloseFails, Becomes
<1>2. /\ There(r) /\ record[r] \in RunRecord /\ record[r].tries <= MaxTries /\ r \in spawned
      /\ Gone \notin RunRecord
  BY <1>1, RunLemma
<1>3. e \in RunRecord /\ e.tries = record[r].tries
  BY <1>2 DEF RunRecord
<1>4. k \in Tasks /\ k.flow = "none"
  BY RunLemma DEF Tasks
<1> HIDE DEF e, k
<1>5. e \in Records /\ Matched(e, k) /\ Heeds(e, k, task[r])
  BY <1>2, <1>3, <1>4 DEF Matched, Records, Heeds
<1>6. /\ saved' \in [Subagents -> Records]
      /\ \A q \in Subagents : record'[q] = Gone => saved'[q] = Gone
  BY <1>1, <1>5, SavedLemma
<1>7. /\ r \in hit' /\ hit \subseteq hit' /\ hit' \subseteq spawned' /\ r \in spawned'
      /\ troubles' \in 0..MaxTroubles
  BY <1>1, <1>2, RunTypes, TroubleLemma
<1> QED
  BY <1>1, <1>5, <1>6, <1>7, RunTypes, BecomesLemma

\* A step that resumes r, after its record or its task was changed to e and k.
LEMMA ResumedLemma ==
  ASSUME SubagentInv, NEW r \in Subagents, NEW e, NEW k, NEW early,
         Becomes(r, ResumeRun(e, k, early)), Persist,
         Matched(e, k), k.flow = task[r].flow, e # Gone => There(r),
         Accounted(record[r], task[r], announced[r]) => Accounted(e, k, announced[r]),
         steering' \subseteq spawned, UNCHANGED <<troubles, spawned, announced, hit>>
  PROVE  SubagentInv' /\ Heeded
<1> DEFINE x == ResumeRun(e, k, early)
<1>1. /\ Matched(x.e, x.k) /\ Heeds(x.e, x.k, k) /\ (e = Gone => x.e = Gone)
      /\ \A n \in Nat : Accounted(e, k, n) => Accounted(x.e, x.k, n)
  BY ResumeLemma
<1>2. record' = [record EXCEPT ![r] = x.e] /\ task' = [task EXCEPT ![r] = x.k]
  BY DEF Becomes
<1> HIDE DEF x
<1>3. Heeds(x.e, x.k, task[r])
  BY <1>1 DEF Heeds
<1>4. announced[r] \in Nat
  BY RunTypes
<1> QED
  BY <1>1, <1>2, <1>3, <1>4, RunTypes, PlainLemma

LEMMA TimerStep ==
  ASSUME SubagentInv, NEW r \in Subagents, RetryTimer(r) \/ AgainTimer(r)
  PROVE  SubagentInv' /\ Heeded
<1> DEFINE k1 == [task[r] EXCEPT !.timers = @ \ {"retry"}]
           k2 == [task[r] EXCEPT !.timers = @ \ {"again"}, !.resumed = FALSE]
<1>1. PICK k \in {k1, k2} :
        /\ Becomes(r, ResumeRun(record[r], k, FALSE)) /\ Persist
        /\ UNCHANGED <<steering, troubles, spawned, announced, hit>>
  BY DEF RetryTimer, AgainTimer
<1>2. k \in Tasks /\ k.flow = task[r].flow /\ k.completing = task[r].completing
  <2>1. task[r] \in Tasks
    BY RunLemma
  <2>2. /\ k1 \in Tasks /\ k1.flow = task[r].flow /\ k1.completing = task[r].completing
        /\ k2 \in Tasks /\ k2.flow = task[r].flow /\ k2.completing = task[r].completing
    BY <2>1 DEF Tasks
  <2> HIDE DEF k1, k2
  <2> QED
    BY <2>2
<1> HIDE DEF k1, k2
<1>3. /\ Matched(record[r], k)
      /\ \A n : Accounted(record[r], task[r], n) => Accounted(record[r], k, n)
  BY <1>2, RunLemma, TaskLemma
<1> QED
  BY <1>1, <1>2, <1>3, RunTypes, ResumedLemma DEF There

\* What a steer changes in a record is not in its account, unless it ends a kill's.
LEMMA SuppressLemma ==
  ASSUME SubagentInv, NEW r \in Subagents, There(r), NEW why \in {"none", "steer"}
  PROVE  LET e == [record[r] EXCEPT !.suppress = why] IN
           /\ e # Gone /\ e.suppress = why /\ e.ended = record[r].ended
           /\ \A k \in Tasks : Matched(e, k)
           /\ \A k, n : Accounted(record[r], k, n) => Accounted(e, k, n)
<1> DEFINE e == [record[r] EXCEPT !.suppress = why]
<1>1. /\ record[r] \in RunRecord /\ record[r].tries <= MaxTries /\ Gone \notin RunRecord
      /\ record[r] # Gone
  BY RunLemma DEF There
<1>2. /\ e \in RunRecord /\ e.ended = record[r].ended /\ e.handled = record[r].handled
      /\ e.completed = record[r].completed /\ e.suppress = why /\ e.tries = record[r].tries
  BY <1>1 DEF RunRecord
<1> HIDE DEF e
<1>3. e # Gone /\ \A k \in Tasks : Matched(e, k)
  BY <1>1, <1>2 DEF Matched, Records
<1>4. ASSUME NEW k, NEW n, Accounted(record[r], k, n)
      PROVE  Accounted(e, k, n)
  BY <1>1, <1>2, <1>4 DEF Accounted
<1> QED
  BY <1>2, <1>3, <1>4 DEF e

LEMMA SteerStep ==
  ASSUME SubagentInv, NEW r \in Subagents, Steer(r)
  PROVE  SubagentInv' /\ Heeded
<1> DEFINE e == [record[r] EXCEPT !.suppress = "steer"]
<1>1. /\ There(r) /\ Trouble /\ Persist /\ record' = [record EXCEPT ![r] = e]
      /\ steering' = steering \cup {r} /\ UNCHANGED <<task, spawned, announced, hit>>
  BY DEF Steer
<1>2. /\ e # Gone /\ Matched(e, task[r])
      /\ Accounted(record[r], task[r], announced[r]) => Accounted(e, task[r], announced[r])
  BY <1>1, SuppressLemma, RunLemma
<1> HIDE DEF e
<1>3. task' = [task EXCEPT ![r] = task[r]] /\ Heeds(e, task[r], task[r])
  BY <1>1, RunTypes DEF Heeds
<1>4. steering' \subseteq spawned /\ troubles' \in 0..MaxTroubles
  BY <1>1, RunTypes, RunLemma, TroubleLemma
<1> QED
  BY <1>1, <1>2, <1>3, <1>4, PlainLemma

LEMMA SteerEndsStep ==
  ASSUME SubagentInv, NEW r \in Subagents, SteerEnds(r)
  PROVE  SubagentInv' /\ Heeded
<1>1. CASE SteerSucceeds(r)
  <2>1. /\ r \in spawned /\ steering' \subseteq spawned /\ Replace(r, "no")
        /\ UNCHANGED <<troubles, spawned, hit>>
    BY <1>1, RunTypes DEF SteerSucceeds
  <2> QED
    BY <2>1, RunTypes, ReplaceLemma
<1>2. CASE SteerFails(r)
  <2> DEFINE e == [record[r] EXCEPT !.suppress = "none"]
             k == [task[r] EXCEPT !.resumed = FALSE]
  <2>1. steering' \subseteq spawned /\ UNCHANGED <<troubles, spawned, announced, hit>>
    BY <1>2, RunTypes DEF SteerFails
  <2>2. CASE There(r) /\ Steered(record[r])
    <3>1. PICK early \in {FALSE, MayBeEarly(e)} :
            Becomes(r, IF e.ended THEN ResumeRun(e, k, early) ELSE [e |-> e, k |-> k])
      BY <1>2, <2>2 DEF SteerFails
    <3>2. Persist
      BY <1>2, <2>2 DEF SteerFails
    <3>3. k \in Tasks /\ k.flow = task[r].flow /\ k.completing = task[r].completing
      BY RunLemma DEF Tasks
    <3>4. /\ e # Gone /\ Matched(e, task[r])
          /\ \A n : Accounted(record[r], task[r], n) => Accounted(e, task[r], n)
      BY <2>2, SuppressLemma, RunLemma
    <3> HIDE DEF e, k
    <3>5. /\ Matched(e, k) /\ Heeds(e, k, task[r])
          /\ \A n : Accounted(record[r], task[r], n) => Accounted(e, k, n)
      BY <3>3, <3>4, RunLemma, TaskLemma DEF Heeds
    <3>6. CASE e.ended
      BY <2>1, <2>2, <3>1, <3>2, <3>3, <3>5, <3>6, ResumedLemma
    <3>7. CASE ~e.ended
      <4>1. record' = [record EXCEPT ![r] = e] /\ task' = [task EXCEPT ![r] = k]
        BY <3>1, <3>7 DEF Becomes
      <4> QED
        BY <2>1, <2>2, <3>2, <3>5, <4>1, RunTypes, PlainLemma
    <3> QED
      BY <3>6, <3>7
  <2>3. CASE ~(There(r) /\ Steered(record[r]))
    <3>1. UNCHANGED <<record, task, saved>>
      BY <1>2, <2>3 DEF SteerFails
    <3>2. \A q \in Subagents : /\ record'[q] = Gone => saved'[q] = Gone
                               /\ record'[q] # Gone => q \in spawned'
                               /\ q \notin spawned' => announced'[q] = 0
                               /\ Matched(record'[q], task'[q])
                               /\ q \notin hit' => Accounted(record'[q], task'[q], announced'[q])
      BY <2>1, <3>1 DEF SubagentInv, RunsKnown, There
    <3>3. Heeded
      BY <3>1 DEF Heeded, Heeds
    <3>4. SubagentInv'
      BY <2>1, <3>1, <3>2, RunTypes, RunInvIntro
    <3> QED
      BY <3>3, <3>4
  <2> QED
    BY <2>2, <2>3
<1> QED
  BY <1>1, <1>2 DEF SteerEnds

LEMMA SweepStep ==
  ASSUME SubagentInv, NEW r \in Subagents, Sweep(r)
  PROVE  SubagentInv' /\ Heeded
<1>1. /\ record' = [record EXCEPT ![r] = Gone] /\ task' = [task EXCEPT ![r] = Quiet] /\ Persist
      /\ UNCHANGED <<steering, troubles, spawned, announced, hit>>
  BY DEF Sweep, Becomes
<1>2. Matched(Gone, Quiet) /\ Heeds(Gone, Quiet, task[r])
  BY QuietLemma DEF Heeds
<1>3. Accounted(record[r], task[r], announced[r]) => Accounted(Gone, Quiet, announced[r])
  BY QuietLemma DEF Accounted
<1> QED
  BY <1>1, <1>2, <1>3, RunTypes, PlainLemma

\* Whoever is there when the process dies is hit; whoever is not stays gone.
LEMMA SubagentCrashStep ==
  ASSUME SubagentInv, SubagentCrash
  PROVE  SubagentInv' /\ Heeded
<1>1. PICK late \in SUBSET {r \in Subagents : MayBeEarly(saved[r])} :
        LET after == [r \in Subagents |-> ResumeRun(saved[r], Quiet, r \in late)] IN
          /\ record' = [r \in Subagents |-> after[r].e]
          /\ task' = [r \in Subagents |-> after[r].k]
  BY DEF SubagentCrash
<1>2. /\ Trouble /\ Persist /\ steering' = {} /\ UNCHANGED <<spawned, announced>>
      /\ hit' = hit \cup {r \in Subagents : There(r)}
  BY DEF SubagentCrash
<1>3. ASSUME NEW q \in Subagents
      PROVE  /\ Matched(record'[q], task'[q]) /\ Heeds(record'[q], task'[q], task[q])
             /\ record'[q] # Gone => There(q)
             /\ q \notin hit' => Accounted(record'[q], task'[q], announced'[q])
  <2> DEFINE x == ResumeRun(saved[q], Quiet, q \in late)
  <2>1. record'[q] = x.e /\ task'[q] = x.k
    BY <1>1
  <2>2. Matched(saved[q], Quiet)
    BY RunTypes, QuietLemma DEF Matched
  <2>3. /\ Matched(x.e, x.k) /\ Heeds(x.e, x.k, Quiet) /\ (saved[q] = Gone => x.e = Gone)
        /\ \A n \in Nat : Accounted(saved[q], Quiet, n) => Accounted(x.e, x.k, n)
    BY <2>2, ResumeLemma
  <2> HIDE DEF x
  <2>4. x.k.flow = "sending" => ~Steered(x.e)
    BY <2>3, QuietLemma DEF Heeds
  <2>5. record[q] = Gone => saved[q] = Gone
    BY DEF SubagentInv, RunsKnown
  <2>6. ASSUME q \notin hit'
        PROVE  Accounted(x.e, x.k, announced'[q])
    <3>1. ~There(q) /\ q \notin hit
      BY <1>2, <2>6
    <3>2. Accounted(record[q], task[q], announced[q])
      BY <3>1 DEF SubagentInv
    <3>3. announced[q] \in 0..1 /\ announced[q] \in Nat
      BY <3>2, RunTypes DEF Accounted
    <3>4. Accounted(Gone, Quiet, announced[q])
      BY <3>3, QuietLemma
    <3> QED
      BY <1>2, <2>3, <2>5, <3>1, <3>3, <3>4 DEF There
  <2> QED
    BY <2>1, <2>3, <2>4, <2>5, <2>6 DEF Heeds, There
<1>4. /\ record' = [q \in Subagents |-> record'[q]] /\ task' = [q \in Subagents |-> task'[q]]
  BY <1>1
<1>5. record' \in [Subagents -> Records] /\ task' \in [Subagents -> Tasks] /\ saved' = record'
  BY <1>2, <1>3, <1>4 DEF Matched, Persist
<1>6. \A q \in Subagents : /\ record'[q] = Gone => saved'[q] = Gone
                           /\ record'[q] # Gone => q \in spawned'
                           /\ q \notin spawned' => announced'[q] = 0
                           /\ Matched(record'[q], task'[q])
                           /\ q \notin hit' => Accounted(record'[q], task'[q], announced'[q])
  BY <1>2, <1>3, <1>5 DEF SubagentInv, RunsKnown
<1>7. hit' \subseteq spawned' /\ troubles' \in 0..MaxTroubles /\ steering' \subseteq spawned'
  BY <1>2, RunTypes, RunLemma, TroubleLemma
<1>8. SubagentInv'
  BY <1>2, <1>5, <1>6, <1>7, RunTypes, RunInvIntro
<1> QED
  BY <1>3, <1>8 DEF Heeded

LEMMA SubagentStep ==
  ASSUME SubagentInv, SubagentNext
  PROVE  SubagentInv' /\ Heeded
<1>1. ASSUME NEW r \in Subagents, ReplaceRun(r)
      PROVE  SubagentInv' /\ Heeded
  <2>1. /\ r \in spawned /\ Replace(r, "no") /\ Trouble
        /\ UNCHANGED <<steering, spawned, hit>>
    BY <1>1, RunLemma DEF ReplaceRun
  <2> QED
    BY <2>1, RunTypes, TroubleLemma, ReplaceLemma
<1>2. ASSUME NEW r \in Subagents, RunStep(r)
      PROVE  SubagentInv' /\ Heeded
  BY <1>2, EndStep, CompletionStep, SucceedsStep, WakesStep, FailsStep, CloseStep, TimerStep
     DEF RunStep
<1> QED
  BY <1>1, <1>2, RegisterStep, WaitFailsStep, CloseFailsStep, SteerStep, SteerEndsStep, KillStep,
     SweepStep, SubagentCrashStep DEF SubagentNext

LEMMA SubagentNextInv == SubagentInv /\ [SubagentNext]_subagentVars => SubagentInv'
<1> SUFFICES ASSUME SubagentInv, [SubagentNext]_subagentVars PROVE SubagentInv'
  OBVIOUS
<1>1. CASE SubagentNext
  BY <1>1, SubagentStep
<1>2. CASE UNCHANGED subagentVars
  <2>1. UNCHANGED <<record, saved, task, steering, troubles, spawned, announced, hit>>
    BY <1>2 DEF subagentVars
  <2>2. \A q \in Subagents : /\ record'[q] = Gone => saved'[q] = Gone
                             /\ record'[q] # Gone => q \in spawned'
                             /\ q \notin spawned' => announced'[q] = 0
                             /\ Matched(record'[q], task'[q])
                             /\ q \notin hit' => Accounted(record'[q], task'[q], announced'[q])
    BY <2>1 DEF SubagentInv, RunsKnown, There
  <2> QED
    BY <2>1, <2>2, RunTypes, RunInvIntro
<1> QED
  BY <1>1, <1>2

\* The registry keeps its types: SubagentTypeOK, a part of ServicesTypeOK.
THEOREM SubagentTypeCorrect == SubagentSpec => []SubagentTypeOK
<1>1. SubagentInv => SubagentTypeOK
  BY DEF SubagentInv
<1> QED
  BY SubagentInitInv, SubagentNextInv, <1>1, PTL DEF SubagentSpec

\* Two reports of a run's end, its retry timers, finished siblings, steers and kills
\* announce a run once (beginSubagentCleanup, finalizeSubagentCleanup), for any tree of
\* sub-agents: AnnouncedOnce.
THEOREM RunsAnnouncedOnce == SubagentSpec => []AnnouncedOnce
<1>1. SubagentInv => AnnouncedOnce
  <2> SUFFICES ASSUME SubagentInv, NEW r \in Subagents \ hit
               PROVE  announced[r] <= 1
    BY DEF AnnouncedOnce
  <2>1. announced[r] \in 0..1
    BY DEF SubagentInv, Accounted
  <2> QED
    BY <2>1
<1> QED
  BY SubagentInitInv, SubagentNextInv, <1>1, PTL DEF SubagentSpec

\* No announcement begins for a run that is being steered (completeSubagentRun,
\* resumeSubagentRun): NotWhileSteered.
THEOREM SteeredRunsWait == SubagentSpec => NotWhileSteered
<1>1. SubagentInv /\ SubagentNext =>
        \A r \in Subagents :
          task'[r].flow = "sending" /\ task[r].flow # "sending" => ~Steered(record'[r])
  BY SubagentStep DEF Heeded, Heeds
<1>2. SubagentInv /\ [SubagentNext]_subagentVars =>
        [\A r \in Subagents :
          task'[r].flow = "sending" /\ task[r].flow # "sending" => ~Steered(record'[r])]_subagentVars
  BY <1>1
<1> QED
  BY SubagentInitInv, SubagentNextInv, <1>2, PTL DEF SubagentSpec, NotWhileSteered

-----------------------------------------------------------------------------
(* The services beside each other.  A step of one leaves the variables of   *)
(* the others alone, so the behaviours of the whole are behaviours of each. *)

\* The gateway's services together behave as each does alone, fairness included: what
\* is proved of LockSpec, DeliverySpec, WakeSpec, ApprovalSpec, CronSpec and
\* SubagentSpec holds of the composition.
THEOREM ServicesBesideEachOther ==
  Spec => LockSpec /\ DeliverySpec /\ WakeSpec /\ ApprovalSpec /\ CronSpec /\ SubagentSpec
<1>1. Init => /\ LockInit /\ DeliveryInit /\ WakeInit /\ ApprovalInit /\ CronInit /\ SubagentInit
  BY DEF Init
<1>2. [Next]_vars => [LockNext]_lockVars
  BY DEF Next, vars, LockActs, DeliveryActs, WakeActs, ApprovalActs, CronActs, SubagentActs
<1>3. [Next]_vars => [DeliveryNext]_deliveryVars
  BY DEF Next, vars, LockActs, DeliveryActs, WakeActs, ApprovalActs, CronActs, SubagentActs
<1>4. [Next]_vars => [WakeNext]_wakeVars
  BY DEF Next, vars, LockActs, DeliveryActs, WakeActs, ApprovalActs, CronActs, SubagentActs
<1>5. [Next]_vars => [ApprovalNext]_approvalVars
  BY DEF Next, vars, LockActs, DeliveryActs, WakeActs, ApprovalActs, CronActs, SubagentActs
<1>6. [Next]_vars => [CronNext]_cronVars
  BY DEF Next, vars, LockActs, DeliveryActs, WakeActs, ApprovalActs, CronActs, SubagentActs
<1>7. [Next]_vars => [SubagentNext]_subagentVars
  BY DEF Next, vars, LockActs, DeliveryActs, WakeActs, ApprovalActs, CronActs, SubagentActs
<1> QED
  BY <1>1, <1>2, <1>3, <1>4, <1>5, <1>6, <1>7, PTL
     DEF Spec, Fair, LockSpec, DeliverySpec, WakeSpec, ApprovalSpec, CronSpec, SubagentSpec

\* Every variable of every service keeps its type: ServicesTypeOK.
THEOREM ServicesTypeCorrect == Spec => []ServicesTypeOK
<1>1. /\ LockTypeOK /\ DeliveryTypeOK /\ WakeTypeOK /\ ApprovalTypeOK /\ CronTypeOK /\ SubagentTypeOK
      => ServicesTypeOK
  BY DEF ServicesTypeOK
<1> QED
  BY <1>1, ServicesBesideEachOther, LockTypeCorrect, DeliveryTypeCorrect, WakeTypeCorrect,
     ApprovalTypeCorrect, CronTypeCorrect, SubagentTypeCorrect, PTL

\* The safety of the services holds of their composition: no message, wake or decision
\* is lost or doubled, no job or run is executed or announced twice, nobody takes a
\* server's lock.
THEOREM ServicesSafe ==
  Spec => /\ []NothingLost /\ []WakeKept /\ []WakeNotStalled /\ []OneDecision
          /\ []OneRunAtOnce /\ []OneShotOnce /\ []AnnouncedOnce
          /\ ServerKeepsLock /\ ClosedIsFinal /\ NotWhileSteered
  BY ServicesBesideEachOther, NoMessageLost, WakesKept, WakesGoOn, DecidedOnce,
     JobsRunOnceAtATime, OneShotsRunOnce, RunsAnnouncedOnce, NobodyTakesTheLock,
     ClosedStaysClosed, SteeredRunsWait, PTL
=============================================================================
