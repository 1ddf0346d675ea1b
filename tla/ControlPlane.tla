---------------------------- MODULE ControlPlane ----------------------------
(***************************************************************************)
(* The control center with the failover of the one service its VMs form:   *)
(* CorrelationEngine and FailoverOrchestrator composed as control_center.py *)
(* and its main() compose them.  The engine calls the orchestrator in two  *)
(* places, both without the engine's lock: handle_compromise at the end of *)
(* a response and reset_service at the end of an operator's abort.  The    *)
(* orchestrator never calls back; its cure threads run on their own.       *)
(*                                                                         *)
(* A VM is the node of its number: 1 is the VM registered as active.       *)
(***************************************************************************)
EXTENDS CorrelationEngine

CONSTANTS CureThread, PromoteOutcomes, RedirectOutcomes, HealthOutcomes

ASSUME NodesAssumption == VM = 1..Cardinality(VM) /\ VM # {} /\ NoVM = 0

VARIABLES role, healthy, state, active_node, vip, phase, target

serviceVars == <<role, healthy, state, active_node, vip, phase, target>>
controlVars == <<engineVars, serviceVars>>

FO == INSTANCE FailoverOrchestrator
        WITH NodeCount <- Cardinality(VM), OperatorResets <- OperatorAborts

Init == EngineInit /\ FO!Init

(* Mutant of RespondedAndFailedOver: the orchestrator is not told. *)
RespondedOnly(t) == Failover(t) /\ UNCHANGED serviceVars

(* _trigger_isolation ends with failover.handle_compromise(vm_id). *)
RespondedAndFailedOver(t) == Failover(t) /\ FO!HandleCompromise(subject[t])

(* abort_and_restore ends with failover.reset_service(svc). *)
AbortedAndReset(t) == ResetFailover(t) /\ FO!ResetService

CureStep(t) == FO!CureStep(t) /\ UNCHANGED engineVars

Next ==
    \/ LocalStep /\ UNCHANGED serviceVars
    \/ \E t \in Thread : RespondedAndFailedOver(t) \/ AbortedAndReset(t)
    \/ \E t \in CureThread : CureStep(t)

Spec == Init /\ [][Next]_controlVars
FairSpec == Spec /\ EngineFairness /\ FO!CureFairness

-----------------------------------------------------------------------------
(* What the engine and the orchestrator know of a VM agrees: as long as the *)
(* operator aborts nothing, a node the orchestrator holds in quarantine is  *)
(* one the engine has decided to isolate (control_center.py:362-367, 409;  *)
(* failover_orchestrator.py:213-226).                                      *)
QuarantinedIsIsolated == \A v \in VM : ~healthy[v] => isolated[v]

(* The engine's test-and-set keeps the orchestrator to one cure per node:   *)
(* without operator aborts two responses, automatic and manual, never      *)
(* reach handle_compromise for the same VM, so no cure thread outlives the  *)
(* decision it belongs to (control_center.py:362-367, 423-426;              *)
(* failover_orchestrator.py:219-226, 287-320).                             *)
OneCurePerNode ==
    \A t, u \in CureThread : (t # u /\ target[t] # FO!NoNode) => target[t] # target[u]

(* The service goes down only when there is nothing left to promote: with   *)
(* a backend that promotes what it is asked to, and no aborts, NO_STANDBY   *)
(* is reached only after every VM of the service has been isolated          *)
(* (failover_orchestrator.py:236-254; control_center.py:362-409).          *)
OutageOnlyIfAllIsolated == state = "NO_STANDBY" => \A v \in VM : isolated[v]

(* Up means serving: without aborts and failed promotions a service that is *)
(* not RESTORED or out of standbys runs on a healthy ACTIVE node; what      *)
(* refutes this for the orchestrator alone, a second compromise of a node   *)
(* under cure, the engine never sends (failover_orchestrator.py:70-74;      *)
(* control_center.py:362-367).                                             *)
UpMeansServing == state \in {"HEALTHY", "DEGRADED"} => FO!Serving

(* Nobody fails over a VM on no one's decision: also with aborts, a healthy *)
(* node is quarantined only if the engine holds it isolated, or at the end  *)
(* of a response whose decision the operator aborted when it was too late   *)
(* to stop it (control_center.py:362-409, 428-446).                         *)
NoUndecidedFailover ==
    [][\A v \in VM : (healthy[v] /\ ~healthy'[v]) =>
         isolated[v] \/ \E t \in revoked : subject[t] = v]_controlVars

(* Continuity follows isolation: when a response to the serving VM has      *)
(* begun, the service moves to another node or is declared without a        *)
(* standby; the steps between them do not lose it (control_center.py:       *)
(* 362-409).                                                               *)
UnderResponse(v) == \E t \in Thread : pc[t] \in Responding /\ subject[t] = v

ContinuityFollowsIsolation ==
    \A v \in VM : (active_node = v /\ UnderResponse(v)) ~> (active_node # v \/ state = "NO_STANDBY")

-----------------------------------------------------------------------------
(* What the repository says of the program and the code does not do.        *)

(* failover_orchestrator.py:26: "the orchestrator promotes a standby to     *)
(* ACTIVE" so that the work continues; control_center.py:23: the cured VM   *)
(* comes back as that standby.  Here: a VM that is promoted is not one that *)
(* the control center still holds isolated.                                *)
PromotedIsNotIsolated ==
    [][(active_node' # active_node /\ state' = "DEGRADED") => ~isolated[active_node']]_controlVars
=============================================================================
