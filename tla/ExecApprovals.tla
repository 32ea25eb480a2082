--------------------------- MODULE ExecApprovals ---------------------------
(***************************************************************************)
(* Exec approvals: a client asks to run a command, approvers decide, a     *)
(* timer expires the request, and a node run consumes the decision         *)
(* (gateway/exec-approval-manager.ts, server-methods/exec-approval.ts,     *)
(* node-invoke-system-run-approval.ts).  The entry of a request stays for  *)
(* a grace period after its outcome, then its id is free again; clients    *)
(* may choose ids.  The request handler awaits the forwarder between       *)
(* registration and waiting, with the answer "are there approval clients"  *)
(* taken before.                                                           *)
(*                                                                         *)
(* An entry is named by the request that registered it.                    *)
(***************************************************************************)
EXTENDS Naturals

CONSTANTS
  Requests,  \* calls of exec.approval.request
  Ids,       \* approval ids
  Nobody,    \* no entry under an id
  MaxRuns    \* bound: node runs per request

ASSUME ApprovalAssumption == Nobody \notin Requests /\ MaxRuns \in Nat

VARIABLES
  pending,   \* pending[i]: the request whose entry the map holds under id i
  idOf,      \* idOf[q]: the id q registered under
  handlerAt, \* handlerAt[q]: "new", "forwarding", "waiting" or "answered"
  clients,   \* requests that found approval clients connected
  outcome,   \* outcome[q]: what the promise was resolved with; "open" before
  decision,  \* decision[q]: the record's decision, "none" when undefined
  runs,      \* runs[q]: node runs its decision let through
  \* History:
  told,      \* told[q]: the decision in the response to q, "nothing" before
  confirmed  \* confirmed[q]: decisions for which an approver was answered "ok"

approvalVars == <<pending, idOf, handlerAt, clients, outcome, decision, runs, told, confirmed>>

Decisions == {"allow-once", "allow-always", "deny"}

ApprovalInit ==
  /\ pending = [i \in Ids |-> Nobody]
  /\ idOf \in [Requests -> Ids]
  /\ handlerAt = [q \in Requests |-> "new"]
  /\ clients = {}
  /\ outcome = [q \in Requests |-> "open"]
  /\ decision = [q \in Requests |-> "none"]
  /\ runs = [q \in Requests |-> 0]
  /\ told = [q \in Requests |-> "nothing"]
  /\ confirmed = [q \in Requests |-> {}]

HandlerGoes(q, s) == handlerAt' = [handlerAt EXCEPT ![q] = s]

\* The entry whose outcome is settled is found in the map, but not pending.
Open(q) == outcome[q] = "open"

Settle(q, d) == outcome' = [outcome EXCEPT ![q] = d]

\* exec.approval.request: an id in the map is refused; else the entry is made and
\* its timer set, and the forwarder is called.
RequestApproval(q) ==
  /\ handlerAt[q] = "new" /\ pending[idOf[q]] = Nobody
  /\ pending' = [pending EXCEPT ![idOf[q]] = q]
  /\ clients' \in {clients, clients \cup {q}}
  /\ HandlerGoes(q, "forwarding")
  /\ UNCHANGED <<idOf, outcome, decision, runs, told, confirmed>>

\* Fault: expire does not look whether there is an outcome already.
ExpireAnyway(i) ==
  IF pending[i] # Nobody
    THEN Settle(pending[i], "null") /\ decision' = [decision EXCEPT ![pending[i]] = "none"]
    ELSE UNCHANGED <<outcome, decision>>

\* Fault: expire also records null as the decision.
ExpireDecides(i) ==
  IF pending[i] # Nobody /\ Open(pending[i])
    THEN Settle(pending[i], "null") /\ decision' = [decision EXCEPT ![pending[i]] = "null"]
    ELSE UNCHANGED <<outcome, decision>>

\* manager.expire, by id
ExpireId(i) ==
  IF pending[i] # Nobody /\ Open(pending[i])
    THEN Settle(pending[i], "null") /\ UNCHANGED decision
    ELSE UNCHANGED <<outcome, decision>>

\* The forwarder has answered.  No route: whatever is under the id by now is
\* expired and null is answered; else the promise is awaited.
Forwarded(q, forwarded) ==
  /\ handlerAt[q] = "forwarding"
  /\ IF q \in clients \/ forwarded
       THEN HandlerGoes(q, "waiting") /\ UNCHANGED <<outcome, decision, told>>
       ELSE /\ ExpireId(idOf[q])
            /\ HandlerGoes(q, "answered")
            /\ told' = [told EXCEPT ![q] = "unrouted"]
  /\ UNCHANGED <<pending, idOf, clients, runs, confirmed>>

\* Fault: the timer removes the entry and settles nothing.
TimerDeletes(q) ==
  /\ pending[idOf[q]] = q /\ Open(q)
  /\ pending' = [pending EXCEPT ![idOf[q]] = Nobody]
  /\ UNCHANGED <<idOf, handlerAt, clients, outcome, decision, runs, told, confirmed>>

\* The entry's timer, cleared when there is an outcome.
TimeOut(q) ==
  /\ pending[idOf[q]] = q /\ Open(q)
  /\ ExpireId(idOf[q])
  /\ UNCHANGED <<pending, idOf, handlerAt, clients, runs, told, confirmed>>

\* exec.approval.resolve: lookupPendingId finds open entries only; resolve checks
\* again.
ResolveApproval(i, d) ==
  /\ pending[i] # Nobody /\ Open(pending[i])
  /\ LET q == pending[i] IN
       /\ Settle(q, d)
       /\ decision' = [decision EXCEPT ![q] = d]
       /\ confirmed' = [confirmed EXCEPT ![q] = @ \cup {d}]
  /\ UNCHANGED <<pending, idOf, handlerAt, clients, runs, told>>

\* The awaited promise settles.
AnswerRequest(q) ==
  /\ handlerAt[q] = "waiting" /\ ~Open(q)
  /\ HandlerGoes(q, "answered")
  /\ told' = [told EXCEPT ![q] = outcome[q]]
  /\ UNCHANGED <<pending, idOf, clients, outcome, decision, runs, confirmed>>

\* The grace timer: deletes the entry if it is still that one.
GraceOver(q) ==
  /\ pending[idOf[q]] = q /\ ~Open(q)
  /\ pending' = [pending EXCEPT ![idOf[q]] = Nobody]
  /\ UNCHANGED <<idOf, handlerAt, clients, outcome, decision, runs, told, confirmed>>

\* system.run forwarded to a node: an allow-once decision is consumed.  Runs that
\* are refused, or let through by a timeout's fallback, change nothing.
SystemRun(q) ==
  /\ pending[idOf[q]] = q /\ decision[q] \in {"allow-once", "allow-always"}
  /\ runs[q] < MaxRuns
  /\ runs' = [runs EXCEPT ![q] = @ + 1]
  /\ decision' = IF decision[q] = "allow-once" THEN [decision EXCEPT ![q] = "none"] ELSE decision
  /\ UNCHANGED <<pending, idOf, handlerAt, clients, outcome, told, confirmed>>

ApprovalNext ==
  \/ \E q \in Requests :
       \/ RequestApproval(q) \/ TimeOut(q) \/ AnswerRequest(q) \/ GraceOver(q) \/ SystemRun(q)
       \/ \E forwarded \in BOOLEAN : Forwarded(q, forwarded)
  \/ \E i \in Ids, d \in Decisions : ResolveApproval(i, d)

\* Timers fire; the forwarder settles; awaited promises resume.
ApprovalFair ==
  WF_approvalVars(\E q \in Requests :
    (\E forwarded \in BOOLEAN : Forwarded(q, forwarded)) \/ TimeOut(q) \/ AnswerRequest(q))

ApprovalSpec == ApprovalInit /\ [][ApprovalNext]_approvalVars /\ ApprovalFair

-----------------------------------------------------------------------------
ApprovalTypeOK ==
  /\ pending \in [Ids -> Requests \cup {Nobody}] /\ idOf \in [Requests -> Ids]
  /\ handlerAt \in [Requests -> {"new", "forwarding", "waiting", "answered"}]
  /\ clients \subseteq Requests
  /\ outcome \in [Requests -> Decisions \cup {"open", "null"}]
  /\ decision \in [Requests -> Decisions \cup {"none"}]
  /\ runs \in [Requests -> 0..MaxRuns]
  /\ told \in [Requests -> Decisions \cup {"nothing", "null", "unrouted"}]
  /\ confirmed \in [Requests -> SUBSET Decisions]

\* Timeouts, approvers, node runs and the reuse of ids may race: an approver who
\* is told "ok" made the one decision, a requester who waits is told that one, and
\* (a timeout's fallback apart) a command runs only if allowed, once if allowed once.
OneDecision ==
  \A q \in Requests :
    /\ confirmed[q] \subseteq {outcome[q]}
    /\ told[q] \notin {"nothing", "unrouted"} => told[q] = outcome[q]
    /\ runs[q] > 0 => outcome[q] \in {"allow-once", "allow-always"}
    /\ outcome[q] = "allow-once" => runs[q] <= 1

\* Every request is answered, however its id is reused meanwhile: no entry leaves
\* the map, and no timer is cleared, before the promise is settled.
RequestsAnswered == []<>(\A q \in Requests : handlerAt[q] \in {"new", "answered"})
=============================================================================
