------------------------ MODULE ExecApprovalsProofs ------------------------
(***************************************************************************)
(* One decision per exec approval, for any numbers of requests, ids and    *)
(* node runs.  OneDecision is not inductive: that an outcome is settled    *)
(* once says nothing of what the record's decision still lets through.     *)
(* ApprovalInv adds that an open entry has let nothing happen yet, that a record  *)
(* holds no decision but the outcome, and that an allow-once decision is   *)
(* there only as long as no run has used it.                               *)
(***************************************************************************)
EXTENDS ExecApprovals, TLAPS

\* What holds of request q while its entry is open, and what its decision allows.
Untouched(q) == Open(q) => confirmed[q] = {} /\ decision[q] = "none" /\ runs[q] = 0
Unused(q) == decision[q] = "allow-once" => runs[q] = 0
Faithful(q) == decision[q] \in {"none", outcome[q]}

ApprovalInv ==
  /\ ApprovalTypeOK
  /\ OneDecision
  /\ \A q \in Requests : Untouched(q) /\ Unused(q) /\ Faithful(q)

USE ApprovalAssumption DEF Decisions

LEMMA ApprovalInitInv == ApprovalInit => ApprovalInv
  BY SMT DEF ApprovalInit, ApprovalInv, ApprovalTypeOK, OneDecision, Untouched, Unused, Faithful, Open

\* Settling an open request keeps the invariant, whoever settles it: nobody has been
\* told of an outcome, and no run has been let through.
LEMMA ExpireLemma ==
  ASSUME ApprovalInv, NEW i \in Ids, ExpireId(i),
         UNCHANGED <<pending, idOf, clients, runs, confirmed>>,
         handlerAt' \in [Requests -> {"new", "forwarding", "waiting", "answered"}],
         told' \in [Requests -> Decisions \cup {"nothing", "null", "unrouted"}],
         \A q \in Requests : told'[q] \in {told[q], "unrouted"}
  PROVE  ApprovalInv'
<1>1. outcome' \in [Requests -> Decisions \cup {"open", "null"}] /\ decision' = decision
  BY SMT DEF ApprovalInv, ApprovalTypeOK, ExpireId, Settle, Open
<1>2. ApprovalTypeOK'
  BY <1>1, SMT DEF ApprovalInv, ApprovalTypeOK
<1>3. ASSUME NEW q \in Requests
      PROVE  outcome'[q] = outcome[q] \/ (Open(q) /\ outcome'[q] = "null")
  BY <1>1, SMT DEF ApprovalInv, ApprovalTypeOK, ExpireId, Settle, Open
<1>4. ASSUME NEW q \in Requests
      PROVE  Open(q) => told[q] \in {"nothing", "unrouted"}
  BY SMT DEF ApprovalInv, ApprovalTypeOK, OneDecision, Open
<1>5. OneDecision'
  BY <1>1, <1>3, <1>4, SMT DEF ApprovalInv, ApprovalTypeOK, OneDecision, Untouched, Open
<1>6. ASSUME NEW q \in Requests
      PROVE  (Untouched(q) /\ Unused(q) /\ Faithful(q))'
  BY <1>1, <1>3, SMT DEF ApprovalInv, ApprovalTypeOK, Untouched, Unused, Faithful, Open
<1> QED
  BY <1>2, <1>5, <1>6 DEF ApprovalInv

LEMMA ApprovalNextInv == ApprovalInv /\ [ApprovalNext]_approvalVars => ApprovalInv'
<1> SUFFICES ASSUME ApprovalInv, [ApprovalNext]_approvalVars PROVE ApprovalInv'
  OBVIOUS
<1>1. ASSUME NEW q \in Requests, RequestApproval(q) PROVE ApprovalInv'
  BY <1>1, SMT DEF RequestApproval, HandlerGoes, ApprovalInv, ApprovalTypeOK, OneDecision, Untouched, Unused,
     Faithful, Open
<1>2. ASSUME NEW q \in Requests, NEW forwarded \in BOOLEAN, Forwarded(q, forwarded) PROVE ApprovalInv'
  <2>1. CASE q \in clients \/ forwarded
    BY <1>2, <2>1, SMT DEF Forwarded, HandlerGoes, ApprovalInv, ApprovalTypeOK, OneDecision, Untouched,
       Unused, Faithful, Open
  <2>2. CASE ~(q \in clients \/ forwarded)
    <3>1. idOf[q] \in Ids /\ ExpireId(idOf[q])
      BY <1>2, <2>2, SMT DEF Forwarded, ApprovalInv, ApprovalTypeOK
    <3>2. /\ handlerAt' \in [Requests -> {"new", "forwarding", "waiting", "answered"}]
          /\ told' \in [Requests -> Decisions \cup {"nothing", "null", "unrouted"}]
          /\ \A r \in Requests : told'[r] \in {told[r], "unrouted"}
      BY <1>2, <2>2, SMT DEF Forwarded, HandlerGoes, ApprovalInv, ApprovalTypeOK
    <3> QED
      BY <1>2, <3>1, <3>2, ExpireLemma DEF Forwarded
  <2> QED
    BY <2>1, <2>2
<1>3. ASSUME NEW q \in Requests, TimeOut(q) PROVE ApprovalInv'
  <2>1. idOf[q] \in Ids /\ ExpireId(idOf[q])
    BY <1>3, SMT DEF TimeOut, ApprovalInv, ApprovalTypeOK
  <2>2. /\ handlerAt' \in [Requests -> {"new", "forwarding", "waiting", "answered"}]
        /\ told' \in [Requests -> Decisions \cup {"nothing", "null", "unrouted"}]
        /\ \A r \in Requests : told'[r] \in {told[r], "unrouted"}
    BY <1>3, SMT DEF TimeOut, ApprovalInv, ApprovalTypeOK
  <2> QED
    BY <1>3, <2>1, <2>2, ExpireLemma DEF TimeOut
<1>4. ASSUME NEW i \in Ids, NEW d \in Decisions, ResolveApproval(i, d) PROVE ApprovalInv'
  <2> DEFINE q == pending[i]
  <2>1. q \in Requests /\ Open(q)
    BY <1>4, SMT DEF ResolveApproval, ApprovalInv, ApprovalTypeOK
  <2>2. confirmed[q] = {} /\ runs[q] = 0 /\ told[q] \in {"nothing", "unrouted"}
    BY <2>1, SMT DEF ApprovalInv, ApprovalTypeOK, OneDecision, Untouched, Open
  <2>3. /\ outcome' = [outcome EXCEPT ![q] = d] /\ decision' = [decision EXCEPT ![q] = d]
        /\ confirmed' = [confirmed EXCEPT ![q] = {d}]
        /\ UNCHANGED <<pending, idOf, handlerAt, clients, runs, told>>
    BY <1>4, <2>1, <2>2, SMT DEF ResolveApproval, Settle, ApprovalInv, ApprovalTypeOK
  <2> HIDE DEF q
  <2>4. ApprovalTypeOK'
    BY <2>1, <2>3, SMT DEF ApprovalInv, ApprovalTypeOK
  <2>5. OneDecision'
    BY <2>1, <2>2, <2>3, SMT DEF ApprovalInv, ApprovalTypeOK, OneDecision
  <2>6. \A r \in Requests : (Untouched(r) /\ Unused(r) /\ Faithful(r))'
    BY <2>1, <2>2, <2>3, SMT DEF ApprovalInv, ApprovalTypeOK, Untouched, Unused, Faithful, Open
  <2> QED
    BY <2>4, <2>5, <2>6 DEF ApprovalInv
<1>5. ASSUME NEW q \in Requests, AnswerRequest(q) PROVE ApprovalInv'
  BY <1>5, SMT DEF AnswerRequest, HandlerGoes, ApprovalInv, ApprovalTypeOK, OneDecision, Untouched, Unused,
     Faithful, Open
<1>6. ASSUME NEW q \in Requests, GraceOver(q) PROVE ApprovalInv'
  BY <1>6, SMT DEF GraceOver, ApprovalInv, ApprovalTypeOK, OneDecision, Untouched, Unused, Faithful, Open
<1>7. ASSUME NEW q \in Requests, SystemRun(q) PROVE ApprovalInv'
  <2>1. ~Open(q) /\ outcome[q] = decision[q] /\ (decision[q] = "allow-once" => runs[q] = 0)
    BY <1>7, SMT DEF SystemRun, ApprovalInv, Untouched, Unused, Faithful
  <2>2. ApprovalTypeOK'
    BY <1>7, SMT DEF SystemRun, ApprovalInv, ApprovalTypeOK
  <2>3. OneDecision'
    BY <1>7, <2>1, SMT DEF SystemRun, ApprovalInv, ApprovalTypeOK, OneDecision
  <2>4. \A r \in Requests : (Untouched(r) /\ Unused(r) /\ Faithful(r))'
    BY <1>7, <2>1, SMT DEF SystemRun, ApprovalInv, ApprovalTypeOK, Untouched, Unused, Faithful, Open
  <2> QED
    BY <2>2, <2>3, <2>4 DEF ApprovalInv
<1>8. CASE UNCHANGED approvalVars
  BY <1>8, SMT DEF approvalVars, ApprovalInv, ApprovalTypeOK, OneDecision, Untouched, Unused, Faithful, Open
<1> QED
  BY <1>1, <1>2, <1>3, <1>4, <1>5, <1>6, <1>7, <1>8 DEF ApprovalNext

\* Entries, handlers and answers have their types, for all sets of requests and ids.
THEOREM ApprovalTypeCorrect == ApprovalSpec => []ApprovalTypeOK
<1>1. ApprovalInv => ApprovalTypeOK
  BY DEF ApprovalInv
<1> QED
  BY ApprovalInitInv, ApprovalNextInv, <1>1, PTL DEF ApprovalSpec

\* Approvers, requesters and node runs act on one decision per request, and what was
\* allowed once runs once, in every race of timers, approvers, runs and reused ids
\* (ExecApprovalManager's resolve, expire and consumeAllowOnce).
THEOREM DecidedOnce == ApprovalSpec => []OneDecision
<1>1. ApprovalInv => OneDecision
  BY DEF ApprovalInv
<1> QED
  BY ApprovalInitInv, ApprovalNextInv, <1>1, PTL DEF ApprovalSpec
=============================================================================
