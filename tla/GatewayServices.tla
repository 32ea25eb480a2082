-------------------------- MODULE GatewayServices --------------------------
(***************************************************************************)
(* The services of a gateway beside its lanes, checked in one run: the     *)
(* lock, the delivery queue, heartbeat wakes, exec approvals, cron and the *)
(* sub-agent registry.  They keep no state in common, so no interleaving   *)
(* of two of them matters: each behaviour is one service's, and the others *)
(* stay as they start, with nothing to do.  Then the fairness of a service *)
(* asks nothing of the behaviours of another, since none of its actions is *)
(* ever enabled there (hence no cron jobs but in those of cron).           *)
(***************************************************************************)
EXTENDS GatewayLock, DeliveryQueue, HeartbeatWake, ExecApprovals, CronService, SubagentRegistry

VARIABLE service  \* the service this behaviour is about

vars == <<service, lockVars, deliveryVars, wakeVars, approvalVars, cronVars, subagentVars>>

Init ==
  /\ service \in {"lock", "delivery", "wake", "approvals", "cron", "subagents"}
  /\ LockInit /\ DeliveryInit /\ WakeInit /\ ApprovalInit /\ CronInit /\ SubagentInit
  /\ service # "cron" => job = [j \in Jobs |-> Removed]

LockActs ==
  /\ service = "lock" /\ LockNext
  /\ UNCHANGED <<service, deliveryVars, wakeVars, approvalVars, cronVars, subagentVars>>

DeliveryActs ==
  /\ service = "delivery" /\ DeliveryNext
  /\ UNCHANGED <<service, lockVars, wakeVars, approvalVars, cronVars, subagentVars>>

WakeActs ==
  /\ service = "wake" /\ WakeNext
  /\ UNCHANGED <<service, lockVars, deliveryVars, approvalVars, cronVars, subagentVars>>

ApprovalActs ==
  /\ service = "approvals" /\ ApprovalNext
  /\ UNCHANGED <<service, lockVars, deliveryVars, wakeVars, cronVars, subagentVars>>

CronActs ==
  /\ service = "cron" /\ CronNext
  /\ UNCHANGED <<service, lockVars, deliveryVars, wakeVars, approvalVars, subagentVars>>

SubagentActs ==
  /\ service = "subagents" /\ SubagentNext
  /\ UNCHANGED <<service, lockVars, deliveryVars, wakeVars, approvalVars, cronVars>>

Next == LockActs \/ DeliveryActs \/ WakeActs \/ ApprovalActs \/ CronActs \/ SubagentActs

Fair == LockFair /\ DeliveryFair /\ WakeFair /\ ApprovalFair /\ CronFair /\ SubagentFair

Spec == Init /\ [][Next]_vars /\ Fair

\* The types of all services (lock file and phases, queue entries, wakes and timers,
\* approval entries, cron jobs, sub-agent records).
ServicesTypeOK ==
  /\ LockTypeOK /\ DeliveryTypeOK /\ WakeTypeOK /\ ApprovalTypeOK
  /\ CronTypeOK /\ SubagentTypeOK
=============================================================================
