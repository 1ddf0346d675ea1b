------------------------ MODULE FailoverOrchestrator ------------------------
(***************************************************************************)
(* The continuity failover of one service                                  *)
(* (src/host_control_plane/failover_orchestrator.py).                      *)
(*                                                                         *)
(* A ServicePair is registered with one ACTIVE node and any number of      *)
(* STANDBY nodes.  Its nodes are numbered in registration order, so 1 is   *)
(* the node registered ACTIVE and "the first healthy standby" is the one   *)
(* with the smallest number.                                               *)
(*                                                                         *)
(* handle_compromise, reset_service and the two locked sections of a cure  *)
(* thread each hold the orchestrator's RLock from end to end, backend      *)
(* calls included: each is one action.  Between its sections a cure        *)
(* thread sleeps (phase "sleeping") and waits for the backend's health     *)
(* check (phase "checking") without the lock, so every other action may    *)
(* come in between.                                                        *)
(***************************************************************************)
EXTENDS Integers, FiniteSets

CONSTANTS
    NodeCount,         \* nodes of the service, the registered ACTIVE one included
    CureThread,        \* BOUND: the cure threads that may be alive at one time
    PromoteOutcomes,   \* what the backend's promote may return
    RedirectOutcomes,  \* what the backend's redirect_traffic may do
    HealthOutcomes,    \* what the backend's health_check may return
    OperatorResets     \* whether the operator may call reset_service

ASSUME NodeCountAssumption == NodeCount \in Nat \ {0}
ASSUME OutcomesAssumption ==
    /\ PromoteOutcomes \subseteq BOOLEAN
    /\ RedirectOutcomes \subseteq BOOLEAN
    /\ HealthOutcomes \subseteq BOOLEAN
    /\ OperatorResets \in BOOLEAN

Node == 1..NodeCount
NoNode == 0

NodeRole == {"ACTIVE", "STANDBY", "PROMOTING", "CURING", "REJOINING", "FAILED"}
ServiceState == {"HEALTHY", "FAILING_OVER", "DEGRADED", "RESTORED", "NO_STANDBY"}

VARIABLES
    role,         \* Node.role
    healthy,      \* Node.healthy
    state,        \* ServicePair.state
    active_node,  \* ServicePair.active_node
    vip,          \* the node the backend routes the service's VIP to
    phase,        \* where each cure thread is: "idle" when it does not exist
    target        \* the node a cure thread was started for

pairVars == <<role, healthy, state, active_node, vip>>
cureVars == <<phase, target>>
vars == <<role, healthy, state, active_node, vip, phase, target>>

-----------------------------------------------------------------------------
(* register_service: the state every later step starts from. *)
RoleAtStart == [n \in Node |-> IF n = 1 THEN "ACTIVE" ELSE "STANDBY"]

Init ==
    /\ role = RoleAtStart
    /\ healthy = [n \in Node |-> TRUE]
    /\ state = "HEALTHY"
    /\ active_node = 1
    /\ vip = 1
    /\ phase = [t \in CureThread |-> "idle"]
    /\ target = [t \in CureThread |-> NoNode]

(* Mutants of HealthyStandbys: a node under validation is eligible too; the *)
(* health test is inverted.                                                *)
RecoveringStandbys == {n \in Node : role[n] \in {"STANDBY", "REJOINING"}}
UnhealthyStandbys == {n \in Node : role[n] = "STANDBY" /\ ~healthy[n]}

(* The standbys _failover_active may pick, and the one its next(...) does. *)
HealthyStandbys == {n \in Node : role[n] = "STANDBY" /\ healthy[n]}
IsFirst(n, S) == n \in S /\ \A m \in S : n <= m

(* threading.Thread(target=_cure_and_rejoin, args=(service, n)).start() *)
StartCure(n) ==
    \E t \in CureThread :
        /\ phase[t] = "idle"
        /\ phase' = [phase EXCEPT ![t] = "sleeping"]
        /\ target' = [target EXCEPT ![t] = n]

(* Mutants of StandbyLost: the node keeps its role; no cure is started. *)
StandbyLostKeepsRole(n) ==
    /\ role[n] # "ACTIVE"
    /\ healthy' = [healthy EXCEPT ![n] = FALSE]
    /\ StartCure(n)
    /\ UNCHANGED <<role, state, active_node, vip>>

StandbyLostUncured(n) ==
    /\ role[n] # "ACTIVE"
    /\ healthy' = [healthy EXCEPT ![n] = FALSE]
    /\ role' = [role EXCEPT ![n] = "CURING"]
    /\ UNCHANGED <<state, active_node, vip, phase, target>>

(* handle_compromise of a node that is not ACTIVE: redundancy is lost. *)
StandbyLost(n) ==
    /\ role[n] # "ACTIVE"
    /\ healthy' = [healthy EXCEPT ![n] = FALSE]
    /\ role' = [role EXCEPT ![n] = "CURING"]
    /\ StartCure(n)
    /\ UNCHANGED <<state, active_node, vip>>

(* handle_compromise of the ACTIVE node: a standby takes over.  The result *)
(* of redirect_traffic is ignored.                                         *)
PromoteStandby(n, s) ==
    /\ role[n] = "ACTIVE"
    /\ IsFirst(s, HealthyStandbys)
    /\ TRUE \in PromoteOutcomes
    /\ \E redirected \in RedirectOutcomes : vip' = IF redirected THEN s ELSE vip
    /\ healthy' = [healthy EXCEPT ![n] = FALSE]
    /\ role' = [role EXCEPT ![n] = "CURING", ![s] = "ACTIVE"]
    /\ active_node' = s
    /\ state' = "DEGRADED"
    /\ StartCure(n)

(* ... the backend refuses the promotion: no cure thread is started. *)
PromoteFailed(n, s) ==
    /\ role[n] = "ACTIVE"
    /\ IsFirst(s, HealthyStandbys)
    /\ FALSE \in PromoteOutcomes
    /\ healthy' = [healthy EXCEPT ![n] = FALSE]
    /\ role' = [role EXCEPT ![s] = "FAILED"]
    /\ state' = "NO_STANDBY"
    /\ UNCHANGED <<active_node, vip, phase, target>>

(* ... no healthy standby is left: the service is down, the node is cured. *)
NoStandby(n) ==
    /\ role[n] = "ACTIVE"
    /\ HealthyStandbys = {}
    /\ healthy' = [healthy EXCEPT ![n] = FALSE]
    /\ role' = [role EXCEPT ![n] = "CURING"]
    /\ state' = "NO_STANDBY"
    /\ StartCure(n)
    /\ UNCHANGED <<active_node, vip>>

HandleCompromise(n) ==
    \/ StandbyLost(n)
    \/ \E s \in Node : PromoteStandby(n, s) \/ PromoteFailed(n, s)
    \/ NoStandby(n)

(* First locked section of _cure_and_rejoin, after its sleep. *)
CureValidate(t) ==
    /\ phase[t] = "sleeping"
    /\ role' = [role EXCEPT ![target[t]] = "REJOINING"]
    /\ phase' = [phase EXCEPT ![t] = "checking"]
    /\ UNCHANGED <<healthy, state, active_node, vip, target>>

(* Mutant of EndCure: the thread ends without giving up its node. *)
EndCureKeepsTarget(t) ==
    /\ phase' = [phase EXCEPT ![t] = "idle"]
    /\ UNCHANGED target

EndCure(t) ==
    /\ phase' = [phase EXCEPT ![t] = "idle"]
    /\ target' = [target EXCEPT ![t] = NoNode]

(* Mutant of CureRejoin: only an outage is closed. *)
CureRejoinLeavesDegraded(t) ==
    LET n == target[t] IN
    /\ phase[t] = "checking"
    /\ TRUE \in HealthOutcomes
    /\ role' = [role EXCEPT ![n] = "STANDBY"]
    /\ healthy' = [healthy EXCEPT ![n] = TRUE]
    /\ state' = IF state = "NO_STANDBY" /\ healthy'[active_node] THEN "RESTORED" ELSE state
    /\ EndCure(t)
    /\ UNCHANGED <<active_node, vip>>

(* Second locked section, the health check having passed. *)
CureRejoin(t) ==
    LET n == target[t] IN
    /\ phase[t] = "checking"
    /\ TRUE \in HealthOutcomes
    /\ role' = [role EXCEPT ![n] = "STANDBY"]
    /\ healthy' = [healthy EXCEPT ![n] = TRUE]
    /\ state' = IF state \in {"DEGRADED", "NO_STANDBY"} /\ healthy'[active_node]
                THEN "RESTORED" ELSE state
    /\ EndCure(t)
    /\ UNCHANGED <<active_node, vip>>

(* Mutant of CureFailed: the failed node is not marked. *)
CureFailedUnmarked(t) ==
    /\ phase[t] = "checking"
    /\ FALSE \in HealthOutcomes
    /\ EndCure(t)
    /\ UNCHANGED pairVars

(* Second locked section, the health check having failed. *)
CureFailed(t) ==
    /\ phase[t] = "checking"
    /\ FALSE \in HealthOutcomes
    /\ role' = [role EXCEPT ![target[t]] = "FAILED"]
    /\ EndCure(t)
    /\ UNCHANGED <<healthy, state, active_node, vip>>

(* Mutant of ResetService: the record of the active node is not reset. *)
ResetKeepsActiveNode ==
    /\ OperatorResets
    /\ role' = RoleAtStart
    /\ healthy' = [n \in Node |-> TRUE]
    /\ state' = "HEALTHY"
    /\ UNCHANGED <<active_node, vip, phase, target>>

(* reset_service: cure threads keep running and the VIP is not redirected. *)
ResetService ==
    /\ OperatorResets
    /\ role' = RoleAtStart
    /\ healthy' = [n \in Node |-> TRUE]
    /\ active_node' = 1
    /\ state' = "HEALTHY"
    /\ UNCHANGED <<vip, phase, target>>

CureStep(t) == CureValidate(t) \/ CureRejoin(t) \/ CureFailed(t)

Next ==
    \/ \E n \in Node : HandleCompromise(n)
    \/ \E t \in CureThread : CureStep(t)
    \/ ResetService

(* A cure thread is a started thread whose sleep is finite and whose health *)
(* check returns (30 s subprocess timeout): it takes each of its steps.     *)
CureFairness == \A t \in CureThread : WF_vars(CureStep(t))

Spec == Init /\ [][Next]_vars
FairSpec == Spec /\ CureFairness

-----------------------------------------------------------------------------
(* Every variable has its type, whatever threads and resets interleave.    *)
TypeOK ==
    /\ role \in [Node -> NodeRole]
    /\ healthy \in [Node -> BOOLEAN]
    /\ state \in ServiceState
    /\ active_node \in Node
    /\ vip \in Node
    /\ phase \in [CureThread -> {"idle", "sleeping", "checking"}]
    /\ target \in [CureThread -> Node \cup {NoNode}]
    /\ \A t \in CureThread : phase[t] = "idle" <=> target[t] = NoNode

(* No split brain: whatever compromises, stale cure threads, failed         *)
(* promotions and operator resets interleave, only the node recorded as     *)
(* active_node ever has the role ACTIVE (failover_orchestrator.py:274-277,  *)
(* 343-345).                                                                *)
OnlyRecordedNodeIsActive == \A n \in Node : role[n] = "ACTIVE" => n = active_node

(* A node in the standby pool is never one that was compromised and not    *)
(* validated since: every path that makes a node STANDBY also marks it     *)
(* healthy, and every compromise of it takes it out of the pool (213-226,  *)
(* 311-312).                                                               *)
StandbyPoolIsHealthy == \A n \in Node : role[n] = "STANDBY" => healthy[n]

(* No recovery is forgotten: a node shown as CURING still has a cure        *)
(* thread that has not validated it, and one shown as REJOINING a thread    *)
(* that waits for its health check, even when several threads of the node   *)
(* overlap (219-226, 247-254, 277-283, 287-320).                            *)
RecoveryHasAThread ==
    \A n \in Node :
        /\ role[n] = "CURING" => \E t \in CureThread : phase[t] = "sleeping" /\ target[t] = n
        /\ role[n] = "REJOINING" => \E t \in CureThread : phase[t] = "checking" /\ target[t] = n

(* The active node moves only in a failover away from the ACTIVE node that *)
(* was compromised, onto a node of the healthy standby pool, or in an      *)
(* operator reset (38-39, "not a double promotion"; 236-277, 345).         *)
NoDoublePromotion ==
    [][active_node' # active_node =>
         \/ state' = "HEALTHY" /\ role' = RoleAtStart
         \/ /\ role[active_node] = "ACTIVE" /\ ~healthy'[active_node]
            /\ role[active_node'] = "STANDBY" /\ healthy[active_node']
            /\ role'[active_node'] = "ACTIVE"]_vars

(* Self-healing: a degraded service does not stay so.  Its primary's cure   *)
(* ends, and the service is RESTORED, unless it is reset, fails over again  *)
(* or has a node that could not be recovered (22, 287-320).                 *)
DegradedServiceHeals ==
    state = "DEGRADED" ~> (state # "DEGRADED" \/ \E n \in Node : role[n] = "FAILED")

(* A compromised node leaves quarantine: it rejoins, is promoted or is      *)
(* declared FAILED; it is not left CURING or REJOINING for ever (61-66).    *)
CuringEnds ==
    \A n \in Node : role[n] \in {"CURING", "REJOINING"} ~> role[n] \notin {"CURING", "REJOINING"}

(* The service runs: its active node is ACTIVE and healthy.                 *)
Serving == role[active_node] = "ACTIVE" /\ healthy[active_node]
=============================================================================
