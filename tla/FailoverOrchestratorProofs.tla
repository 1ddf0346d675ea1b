--------------------- MODULE FailoverOrchestratorProofs ---------------------
(***************************************************************************)
(* Safety of the failover orchestrator for every number of nodes, every    *)
(* number of concurrent cure threads and every behaviour of the backend.   *)
(***************************************************************************)
EXTENDS FailoverOrchestrator, TLAPS

(* Every variable keeps its type (property TypeOK), the target of a cure    *)
(* thread is a node exactly while the thread is alive.                     *)
THEOREM TypeCorrect == Spec => []TypeOK
<1>1. Init => TypeOK
  BY NodeCountAssumption DEF Init, TypeOK, RoleAtStart, NodeRole, ServiceState, Node, NoNode
<1>2. TypeOK /\ [Next]_vars => TypeOK'
  <2> SUFFICES ASSUME TypeOK, [Next]_vars
               PROVE  TypeOK'
    OBVIOUS
  <2> USE DEF TypeOK, NodeRole, ServiceState
  <2>1. ASSUME NEW n \in Node, StandbyLost(n)
        PROVE  TypeOK'
    <3>1. n # NoNode
      BY DEF Node, NoNode
    <3> QED
      BY <2>1, <3>1 DEF StandbyLost, StartCure
  <2>2. ASSUME NEW n \in Node, NEW s \in Node, PromoteStandby(n, s)
        PROVE  TypeOK'
    <3>1. n # NoNode
      BY DEF Node, NoNode
    <3> QED
      BY <2>2, <3>1 DEF PromoteStandby, StartCure
  <2>3. ASSUME NEW n \in Node, NEW s \in Node, PromoteFailed(n, s)
        PROVE  TypeOK'
    BY <2>3 DEF PromoteFailed
  <2>4. ASSUME NEW n \in Node, NoStandby(n)
        PROVE  TypeOK'
    <3>1. n # NoNode
      BY DEF Node, NoNode
    <3> QED
      BY <2>4, <3>1 DEF NoStandby, StartCure
  <2>5. ASSUME NEW t \in CureThread, CureStep(t)
        PROVE  TypeOK'
    <3>1. CASE CureValidate(t)
      BY <3>1 DEF CureValidate
    <3>2. CASE CureRejoin(t)
      BY <3>2 DEF CureRejoin, EndCure
    <3>3. CASE CureFailed(t)
      BY <3>3 DEF CureFailed, EndCure
    <3> QED
      BY <2>5, <3>1, <3>2, <3>3 DEF CureStep
  <2>6. CASE ResetService
    BY <2>6, NodeCountAssumption DEF ResetService, RoleAtStart, Node
  <2>7. CASE UNCHANGED vars
    BY <2>7 DEF vars
  <2> QED
    BY <2>1, <2>2, <2>3, <2>4, <2>5, <2>6, <2>7 DEF Next, HandleCompromise
<1> QED
  BY <1>1, <1>2, PTL DEF Spec

-----------------------------------------------------------------------------
(* No split brain (property OnlyRecordedNodeIsActive): it is inductive with *)
(* the types, because a failover gives the ACTIVE role away in the step     *)
(* that records the new active node.                                       *)
THEOREM NoSplitBrain == Spec => []OnlyRecordedNodeIsActive
<1> USE DEF OnlyRecordedNodeIsActive
<1>1. Init => OnlyRecordedNodeIsActive
  BY DEF Init, RoleAtStart
<1>2. TypeOK /\ OnlyRecordedNodeIsActive /\ [Next]_vars => OnlyRecordedNodeIsActive'
  <2> SUFFICES ASSUME TypeOK, OnlyRecordedNodeIsActive, [Next]_vars
               PROVE  OnlyRecordedNodeIsActive'
    OBVIOUS
  <2> USE DEF TypeOK
  <2>1. ASSUME NEW n \in Node, StandbyLost(n)
        PROVE  OnlyRecordedNodeIsActive'
    BY <2>1 DEF StandbyLost
  <2>2. ASSUME NEW n \in Node, NEW s \in Node, PromoteStandby(n, s)
        PROVE  OnlyRecordedNodeIsActive'
    BY <2>2 DEF PromoteStandby
  <2>3. ASSUME NEW n \in Node, NEW s \in Node, PromoteFailed(n, s)
        PROVE  OnlyRecordedNodeIsActive'
    BY <2>3 DEF PromoteFailed
  <2>4. ASSUME NEW n \in Node, NoStandby(n)
        PROVE  OnlyRecordedNodeIsActive'
    BY <2>4 DEF NoStandby
  <2>5. ASSUME NEW t \in CureThread, CureStep(t)
        PROVE  OnlyRecordedNodeIsActive'
    <3>1. CASE CureValidate(t)
      BY <3>1 DEF CureValidate
    <3>2. CASE CureRejoin(t)
      BY <3>2 DEF CureRejoin
    <3>3. CASE CureFailed(t)
      BY <3>3 DEF CureFailed
    <3> QED
      BY <2>5, <3>1, <3>2, <3>3 DEF CureStep
  <2>6. CASE ResetService
    BY <2>6 DEF ResetService, RoleAtStart
  <2>7. CASE UNCHANGED vars
    BY <2>7 DEF vars
  <2> QED
    BY <2>1, <2>2, <2>3, <2>4, <2>5, <2>6, <2>7 DEF Next, HandleCompromise
<1> QED
  BY <1>1, <1>2, TypeCorrect, PTL DEF Spec

(* A compromised node is out of the standby pool until it is validated      *)
(* (property StandbyPoolIsHealthy).                                        *)
THEOREM StandbyPoolClean == Spec => []StandbyPoolIsHealthy
<1> USE DEF StandbyPoolIsHealthy
<1>1. Init => StandbyPoolIsHealthy
  BY DEF Init
<1>2. TypeOK /\ StandbyPoolIsHealthy /\ [Next]_vars => StandbyPoolIsHealthy'
  <2> SUFFICES ASSUME TypeOK, StandbyPoolIsHealthy, [Next]_vars
               PROVE  StandbyPoolIsHealthy'
    OBVIOUS
  <2> USE DEF TypeOK
  <2>1. ASSUME NEW n \in Node, StandbyLost(n)
        PROVE  StandbyPoolIsHealthy'
    BY <2>1 DEF StandbyLost
  <2>2. ASSUME NEW n \in Node, NEW s \in Node, PromoteStandby(n, s)
        PROVE  StandbyPoolIsHealthy'
    BY <2>2 DEF PromoteStandby
  <2>3. ASSUME NEW n \in Node, NEW s \in Node, PromoteFailed(n, s)
        PROVE  StandbyPoolIsHealthy'
    BY <2>3 DEF PromoteFailed
  <2>4. ASSUME NEW n \in Node, NoStandby(n)
        PROVE  StandbyPoolIsHealthy'
    BY <2>4 DEF NoStandby
  <2>5. ASSUME NEW t \in CureThread, CureStep(t)
        PROVE  StandbyPoolIsHealthy'
    BY <2>5 DEF CureStep, CureValidate, CureRejoin, CureFailed
  <2>6. CASE ResetService
    BY <2>6 DEF ResetService
  <2>7. CASE UNCHANGED vars
    BY <2>7 DEF vars
  <2> QED
    BY <2>1, <2>2, <2>3, <2>4, <2>5, <2>6, <2>7 DEF Next, HandleCompromise
<1> QED
  BY <1>1, <1>2, TypeCorrect, PTL DEF Spec
-----------------------------------------------------------------------------
(* The threads that still owe node n a validation, and those that wait for  *)
(* its health check.                                                       *)
Sleepers(n) == {t \in CureThread : phase[t] = "sleeping" /\ target[t] = n}
Checkers(n) == {t \in CureThread : phase[t] = "checking" /\ target[t] = n}

(* A step that keeps the threads alive that a CURING or REJOINING node      *)
(* needs, and gives no other node one of those roles, keeps the property.  *)
LEMMA ThreadsKept ==
    ASSUME TypeOK, RecoveryHasAThread,
           \A m \in Node : role'[m] = "CURING" =>
              \/ role[m] = "CURING" /\ Sleepers(m) \subseteq Sleepers(m)'
              \/ Sleepers(m)' # {},
           \A m \in Node : role'[m] = "REJOINING" =>
              \/ role[m] = "REJOINING" /\ Checkers(m) \subseteq Checkers(m)'
              \/ Checkers(m)' # {}
    PROVE  RecoveryHasAThread'
BY DEF RecoveryHasAThread, Sleepers, Checkers

(* StartCure leaves a sleeping thread for its node and takes none away.     *)
LEMMA StartCureAddsSleeper ==
    ASSUME TypeOK, NEW n \in Node, StartCure(n)
    PROVE  /\ Sleepers(n)' # {}
           /\ \A m \in Node : Sleepers(m) \subseteq Sleepers(m)'
           /\ \A m \in Node : Checkers(m) \subseteq Checkers(m)'
<1>1. PICK t \in CureThread :
        /\ phase[t] = "idle"
        /\ phase' = [phase EXCEPT ![t] = "sleeping"]
        /\ target' = [target EXCEPT ![t] = n]
  BY DEF StartCure
<1>2. t \in Sleepers(n)'
  BY <1>1 DEF Sleepers, TypeOK
<1> QED
  BY <1>1, <1>2 DEF Sleepers, Checkers, TypeOK

(* Every CURING or REJOINING node has the thread that will move it on       *)
(* (property RecoveryHasAThread).                                          *)
THEOREM NoForgottenRecovery == Spec => []RecoveryHasAThread
<1>1. Init => RecoveryHasAThread
  BY DEF Init, RoleAtStart, RecoveryHasAThread
<1>2. TypeOK /\ RecoveryHasAThread /\ [Next]_vars => RecoveryHasAThread'
  <2> SUFFICES ASSUME TypeOK, RecoveryHasAThread, [Next]_vars
               PROVE  RecoveryHasAThread'
    OBVIOUS
  <2>1. ASSUME NEW n \in Node, StandbyLost(n)
        PROVE  RecoveryHasAThread'
    BY <2>1, StartCureAddsSleeper, ThreadsKept DEF StandbyLost, TypeOK
  <2>2. ASSUME NEW n \in Node, NEW s \in Node, PromoteStandby(n, s)
        PROVE  RecoveryHasAThread'
    BY <2>2, StartCureAddsSleeper, ThreadsKept DEF PromoteStandby, TypeOK
  <2>3. ASSUME NEW n \in Node, NEW s \in Node, PromoteFailed(n, s)
        PROVE  RecoveryHasAThread'
    BY <2>3, ThreadsKept DEF PromoteFailed, TypeOK, Sleepers, Checkers
  <2>4. ASSUME NEW n \in Node, NoStandby(n)
        PROVE  RecoveryHasAThread'
    BY <2>4, StartCureAddsSleeper, ThreadsKept DEF NoStandby, TypeOK
  <2>5. ASSUME NEW t \in CureThread, CureValidate(t)
        PROVE  RecoveryHasAThread'
    <3>1. \A m \in Node : m = target[t] => t \in Checkers(m)'
      BY <2>5 DEF CureValidate, TypeOK, Checkers
    <3>2. \A m \in Node : m # target[t] => Sleepers(m) \subseteq Sleepers(m)'
      BY <2>5 DEF CureValidate, TypeOK, Sleepers
    <3>3. \A m \in Node : Checkers(m) \subseteq Checkers(m)'
      BY <2>5 DEF CureValidate, TypeOK, Checkers
    <3>4. \A m \in Node : role'[m] = IF m = target[t] THEN "REJOINING" ELSE role[m]
      BY <2>5 DEF CureValidate, TypeOK
    <3> QED
      BY <3>1, <3>2, <3>3, <3>4, ThreadsKept
  <2>6. ASSUME NEW t \in CureThread, CureRejoin(t) \/ CureFailed(t)
        PROVE  RecoveryHasAThread'
    <3>1. \A m \in Node : Sleepers(m) \subseteq Sleepers(m)'
      BY <2>6 DEF CureRejoin, CureFailed, EndCure, TypeOK, Sleepers
    <3>2. \A m \in Node : m # target[t] => Checkers(m) \subseteq Checkers(m)'
      BY <2>6 DEF CureRejoin, CureFailed, EndCure, TypeOK, Checkers
    <3>3. \A m \in Node : role'[m] = role[m] \/ role'[m] \in {"STANDBY", "FAILED"}
      BY <2>6 DEF CureRejoin, CureFailed, TypeOK
    <3>4. role'[target[t]] \in {"STANDBY", "FAILED"} \/ target[t] \notin Node
      BY <2>6 DEF CureRejoin, CureFailed, TypeOK
    <3> QED
      BY <3>1, <3>2, <3>3, <3>4, ThreadsKept
  <2>7. CASE ResetService
    BY <2>7 DEF ResetService, RoleAtStart, RecoveryHasAThread
  <2>8. CASE UNCHANGED vars
    BY <2>8 DEF vars, RecoveryHasAThread
  <2> QED
    BY <2>1, <2>2, <2>3, <2>4, <2>5, <2>6, <2>7, <2>8 DEF Next, HandleCompromise, CureStep
<1> QED
  BY <1>1, <1>2, TypeCorrect, PTL DEF Spec

-----------------------------------------------------------------------------
(* The active node moves only by promoting a healthy standby when the       *)
(* ACTIVE node is compromised, or by an operator reset (property            *)
(* NoDoublePromotion).  It needs NoSplitBrain: the compromised ACTIVE node  *)
(* is the recorded one.                                                    *)
THEOREM SinglePromotion == Spec => NoDoublePromotion
<1> DEFINE Moved ==
      active_node' # active_node =>
         \/ state' = "HEALTHY" /\ role' = RoleAtStart
         \/ /\ role[active_node] = "ACTIVE" /\ ~healthy'[active_node]
            /\ role[active_node'] = "STANDBY" /\ healthy[active_node']
            /\ role'[active_node'] = "ACTIVE"
<1>1. TypeOK /\ OnlyRecordedNodeIsActive /\ [Next]_vars => [Moved]_vars
  <2> SUFFICES ASSUME TypeOK, OnlyRecordedNodeIsActive, Next, active_node' # active_node
               PROVE  Moved
    BY DEF vars
  <2>1. ASSUME NEW n \in Node, NEW s \in Node, PromoteStandby(n, s)
        PROVE  Moved
    BY <2>1 DEF PromoteStandby, IsFirst, HealthyStandbys, TypeOK, OnlyRecordedNodeIsActive
  <2>2. CASE ResetService
    BY <2>2 DEF ResetService
  <2> QED
    BY <2>1, <2>2 DEF Next, HandleCompromise, StandbyLost, PromoteFailed, NoStandby,
                      CureStep, CureValidate, CureRejoin, CureFailed
<1> QED
  BY <1>1, TypeCorrect, NoSplitBrain, PTL DEF Spec, NoDoublePromotion
=============================================================================
