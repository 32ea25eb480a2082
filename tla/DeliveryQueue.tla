--------------------------- MODULE DeliveryQueue ---------------------------
(***************************************************************************)
(* Outbound messages: deliverOutboundPayloads (infra/outbound/deliver.ts)  *)
(* writes each message to a file of its own before it sends it and removes *)
(* the file afterwards (delivery-queue-storage.ts); after every start of   *)
(* the gateway server a pass over the files sends what was left            *)
(* (delivery-queue-recovery.ts).  The process may die between any two file *)
(* operations, and passes run beside live deliveries and, when the server  *)
(* restarts in the process, beside the previous pass.                      *)
(*                                                                         *)
(* A handler is whatever works on an entry: the live delivery of message m *)
(* (written m) or a pass.  A send either reaches the channel or does not,  *)
(* and reports success or an error, not always the right one.  Reading the *)
(* directory is one step; files of other processes are left out.           *)
(***************************************************************************)
EXTENDS Naturals, Sequences, FiniteSets

CONSTANTS
  Messages,    \* 1..n, in the order they are enqueued
  Passes,      \* passes that may run at once (bound)
  NoEntry,     \* there is no .json file
  MaxRetries,  \* MAX_RETRIES
  MaxCrashes   \* bound

ASSUME DeliveryAssumption == MaxRetries \in Nat \ {0} /\ MaxCrashes \in Nat
ASSUME HandlersAssumption == Messages \subseteq Nat \ {0} /\ Messages \cap Passes = {}
ASSUME NoEntryAssumption == NoEntry \notin [retries : 0..MaxRetries, cooling : BOOLEAN]

VARIABLES
  gatewayUp,
  entry,       \* entry[m]: the .json file, its retryCount and whether its backoff runs
  failedDir,   \* messages in failed/
  begun,       \* messages whose delivery began
  at,          \* at[h]: what handler h is doing
  todo,        \* todo[r]: what pass r has read and not dealt with, the current one first
  overdue,     \* passes past their deadline
  countRead,   \* countRead[h]: the retryCount failDelivery has read
  crashes,
  \* History:
  accepted,    \* messages that were written to the queue
  discharged,  \* messages that reached the channel, were aborted, or whose error
               \* bestEffort swallowed
  closed       \* messages acknowledged or moved by the only handler they had

files == <<entry, failedDir>>
fate == <<accepted, discharged>>
deliveryVars == <<gatewayUp, files, begun, at, todo, overdue, countRead, crashes, fate, closed>>

Handlers == Messages \cup Passes
Snapshot == [id : Messages, retries : 0..MaxRetries, cooling : BOOLEAN]
Current(h) == IF h \in Passes THEN Head(todo[h]).id ELSE h
Concerned(h) ==
  IF h \in Passes THEN {todo[h][i].id : i \in DOMAIN todo[h]}
                  ELSE IF at[h] = "idle" THEN {} ELSE {h}
Others(h) == UNION {Concerned(k) : k \in Handlers \ {h}}

DeliveryInit ==
  /\ gatewayUp = TRUE
  /\ entry = [m \in Messages |-> NoEntry] /\ failedDir = {}
  /\ begun = {}
  /\ at = [h \in Handlers |-> "idle"]
  /\ todo = [r \in Passes |-> <<>>] /\ overdue = {}
  /\ countRead = [h \in Handlers |-> 0]
  /\ crashes = 0
  /\ accepted = {} /\ discharged = {} /\ closed = {}

Turn(h, s) == at' = [at EXCEPT ![h] = s]

\* The handler is through with its message.
Done(h) ==
  IF h \in Passes
    THEN todo' = [todo EXCEPT ![h] = Tail(@)] /\ Turn(h, "looping")
    ELSE Turn(h, "idle") /\ UNCHANGED todo

-----------------------------------------------------------------------------
(* deliverOutboundPayloads *)

\* enqueueDelivery, and on to the send; a write that fails does not stop it, but
\* that send leaves no trace here.
Deliver(m) ==
  /\ gatewayUp /\ m \notin begun /\ (m > 1 => m - 1 \in begun)
  /\ begun' = begun \cup {m}
  /\ \/ /\ entry' = [entry EXCEPT ![m] = [retries |-> 0, cooling |-> FALSE]]
        /\ accepted' = accepted \cup {m}
        /\ Turn(m, "sending")
     \/ UNCHANGED <<entry, accepted, at>>
  /\ UNCHANGED <<gatewayUp, failedDir, todo, overdue, countRead, crashes,
                 discharged, closed>>

\* The channel's answer: the message was sent, aborted, or failed with an error
\* nobody is told of; or an error is reported, whether it was sent or not.
Answer(h) ==
  \/ Turn(h, "acking") /\ discharged' = discharged \cup {Current(h)}
  \/ Turn(h, "failing") /\ discharged' \in {discharged, discharged \cup {Current(h)}}
  \* In a pass only: isPermanentDeliveryError
  \/ h \in Passes /\ Turn(h, "moving") /\ UNCHANGED discharged

SendEnds(h) ==
  /\ at[h] = "sending"
  /\ Answer(h)
  /\ UNCHANGED <<gatewayUp, files, begun, todo, overdue, countRead, crashes, accepted, closed>>

-----------------------------------------------------------------------------
(* The entry files *)

\* Fault: the entry's own file is unlinked, which may fail silently.
AckUnlinks(h) ==
  /\ at[h] = "acking"
  /\ entry' \in {entry, [entry EXCEPT ![Current(h)] = NoEntry]}
  /\ closed' = closed \cup ({Current(h)} \ Others(h))

\* ackDelivery renames the .json file to a .delivered one, which is unlinked here or by
\* the next pass and never read; a file that is gone is acknowledged already.
AckRename(h) ==
  LET m == Current(h) IN
    /\ at[h] = "acking"
    /\ entry' = [entry EXCEPT ![m] = NoEntry]
    /\ closed' = IF entry[m] # NoEntry THEN closed \cup ({m} \ Others(h)) ELSE closed

Ack(h) ==
  /\ AckRename(h)
  /\ Done(h)
  /\ UNCHANGED <<gatewayUp, failedDir, begun, overdue, countRead, crashes, fate>>

\* failDelivery reads the entry (and throws, without effect, if there is none) ...
FailRead(h) ==
  /\ at[h] = "failing"
  /\ IF entry[Current(h)] # NoEntry
       THEN /\ countRead' = [countRead EXCEPT ![h] = entry[Current(h)].retries]
            /\ Turn(h, "rewriting") /\ UNCHANGED todo
       ELSE Done(h) /\ UNCHANGED countRead
  /\ UNCHANGED <<gatewayUp, files, begun, overdue, crashes, fate, closed>>

\* ... and writes it back, whatever happened to it since; counts stop at the maximum.
FailWrite(h) ==
  /\ at[h] = "rewriting"
  /\ LET n == IF countRead[h] < MaxRetries THEN countRead[h] + 1 ELSE MaxRetries IN
       entry' = [entry EXCEPT ![Current(h)] = [retries |-> n, cooling |-> TRUE]]
  /\ countRead' = [countRead EXCEPT ![h] = 0]
  /\ Done(h)
  /\ UNCHANGED <<gatewayUp, failedDir, begun, overdue, crashes, fate, closed>>

\* Fault: an entry to be set aside is acknowledged instead.
MoveByAck(r) ==
  /\ entry' = [entry EXCEPT ![Current(r)] = NoEntry]
  /\ UNCHANGED <<failedDir, closed>>

\* moveToFailed renames; it fails if there is no entry.
MoveEntry(r) ==
  LET m == Current(r) IN
    IF entry[m] # NoEntry
      THEN /\ entry' = [entry EXCEPT ![m] = NoEntry] /\ failedDir' = failedDir \cup {m}
           /\ closed' = closed \cup ({m} \ Others(r))
      ELSE UNCHANGED <<entry, failedDir, closed>>

Move(r) ==
  /\ at[r] = "moving"
  /\ MoveEntry(r)
  /\ Done(r)
  /\ UNCHANGED <<gatewayUp, begun, overdue, countRead, crashes, fate>>

-----------------------------------------------------------------------------
(* recoverPendingDeliveries *)

\* The server starts, in a new process or in this one, and a pass with it.
StartPass(r) ==
  /\ at[r] = "idle"
  /\ gatewayUp' = TRUE
  /\ Turn(r, "loading")
  /\ UNCHANGED <<files, begun, todo, overdue, countRead, crashes, fate, closed>>

\* loadPendingDeliveries, and the sort by age
Pending == {m \in Messages : entry[m] # NoEntry}
ByAge == {ms \in [1..Cardinality(Pending) -> Pending] :
            \A i, j \in DOMAIN ms : i < j => ms[i] < ms[j]}

Load(r) ==
  /\ at[r] = "loading"
  /\ \E ms \in ByAge :
       todo' = [todo EXCEPT ![r] =
         [i \in DOMAIN ms |-> [id |-> ms[i], retries |-> entry[ms[i]].retries,
                               cooling |-> entry[ms[i]].cooling]]]
  /\ Turn(r, "first")
  /\ UNCHANGED <<gatewayUp, entry, failedDir, begun, overdue, countRead, crashes, fate, closed>>

\* Fault: an entry is tried however often it has failed.
RetryForever(r) == FALSE
Exhausted(r) == Head(todo[r]).retries >= MaxRetries

\* One entry of the loop.  The deadline may pass before any entry but the first,
\* and from then on the entries are only counted as failed.  A backoff that ran
\* when the entry was read may be over by now.
Consider(r) ==
  /\ at[r] \in {"first", "looping"} /\ todo[r] # <<>>
  /\ \/ (r \in overdue \/ at[r] = "looping")
        /\ overdue' = overdue \cup {r} /\ Turn(r, "failing") /\ UNCHANGED todo
     \/ /\ r \notin overdue /\ UNCHANGED overdue
        /\ \/ Exhausted(r) /\ Turn(r, "moving") /\ UNCHANGED todo
           \/ ~Exhausted(r) /\ Turn(r, "sending") /\ UNCHANGED todo
           \/ ~Exhausted(r) /\ Head(todo[r]).cooling /\ Done(r)
  /\ UNCHANGED <<gatewayUp, files, begun, countRead, crashes, fate, closed>>

EndPass(r) ==
  /\ at[r] \in {"first", "looping"} /\ todo[r] = <<>>
  /\ Turn(r, "idle")
  /\ overdue' = overdue \ {r}
  /\ UNCHANGED <<gatewayUp, files, begun, todo, countRead, crashes, fate, closed>>

-----------------------------------------------------------------------------
BackoffEnds(m) ==
  /\ entry[m] # NoEntry /\ entry[m].cooling
  /\ entry' = [entry EXCEPT ![m].cooling = FALSE]
  /\ UNCHANGED <<gatewayUp, failedDir, begun, at, todo, overdue, countRead, crashes,
                 fate, closed>>

\* The process dies; the files stay.
DeliveryCrash ==
  /\ gatewayUp /\ crashes < MaxCrashes
  /\ crashes' = crashes + 1
  /\ gatewayUp' = FALSE
  /\ at' = [h \in Handlers |-> "idle"]
  /\ todo' = [r \in Passes |-> <<>>] /\ overdue' = {}
  /\ countRead' = [h \in Handlers |-> 0]
  /\ UNCHANGED <<files, begun, fate, closed>>

HandlerStep(h) == SendEnds(h) \/ Ack(h) \/ FailRead(h) \/ FailWrite(h)
PassStep(r) == Load(r) \/ Consider(r) \/ EndPass(r) \/ Move(r)

DeliveryNext ==
  \/ \E m \in Messages : Deliver(m) \/ BackoffEnds(m)
  \/ \E h \in Handlers : HandlerStep(h)
  \/ \E r \in Passes : StartPass(r) \/ PassStep(r)
  \/ DeliveryCrash

\* Sends end and file operations settle; time passes.  That the server is started
\* again is not assumed.
DeliveryFair ==
  /\ WF_deliveryVars(\E m \in Messages : HandlerStep(m))
  /\ \A r \in Passes : WF_deliveryVars(HandlerStep(r) \/ PassStep(r))
  /\ WF_deliveryVars(\E m \in Messages : BackoffEnds(m))

DeliverySpec == DeliveryInit /\ [][DeliveryNext]_deliveryVars /\ DeliveryFair

-----------------------------------------------------------------------------
DeliveryTypeOK ==
  /\ gatewayUp \in BOOLEAN
  /\ entry \in [Messages -> {NoEntry} \cup [retries : 0..MaxRetries, cooling : BOOLEAN]]
  /\ failedDir \subseteq Messages
  /\ at \in [Handlers -> {"idle", "sending", "acking", "failing",
                          "rewriting", "moving", "loading", "first", "looping"}]
  /\ \A r \in Passes : todo[r] \in Seq(Snapshot)
  /\ countRead \in [Handlers -> 0..MaxRetries]
  /\ accepted \subseteq begun /\ begun \subseteq Messages

\* A message that was written to the queue is, at every moment and after every
\* crash, still in it, set aside in failed/, or it reached its channel, unless it
\* was aborted or best-effort delivery swallowed its error.
NothingLost ==
  \A m \in accepted : entry[m] # NoEntry \/ m \in failedDir \cup discharged

\* ackDelivery's "two-phase approach so that a crash between delivery and cleanup
\* does not cause the message to be replayed": an entry acknowledged, or set
\* aside, by its only handler is never sent again, whatever crashes follow.
ClosedIsFinal ==
  [][\A h \in Handlers : at'[h] = "sending" /\ at[h] # "sending"
        => Current(h)' \notin closed]_deliveryVars

\* As long as the server is started again and again, no message stays in the
\* queue for ever: it is discharged, or tried until it is set aside.
QueueDrains ==
  []<>(\E r \in Passes : at[r] = "loading") => []<>(accepted \subseteq failedDir \cup discharged)
=============================================================================
