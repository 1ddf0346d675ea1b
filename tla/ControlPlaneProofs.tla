------------------------- MODULE ControlPlaneProofs -------------------------
(***************************************************************************)
(* Safety of the correlation engine for every set of VMs, every number of  *)
(* request threads, every batch and every outcome of the hypervisor; and   *)
(* of its composition with the failover orchestrator: neither component    *)
(* does anything in it that it does not do alone, so what is proved of one *)
(* holds of the control plane, and a failover always has a decision behind *)
(* it.                                                                     *)
(***************************************************************************)
EXTENDS ControlPlane, InductionLemmas, SequenceTheorems, FunctionTheorems

-----------------------------------------------------------------------------
(* Lemmas about the data.                                                  *)

(* A batch queues its VM any finite number of times. *)
LEMMA InstantOfType ==
    ASSUME NEW v \in VM, NEW b \in Batches
    PROVE  InstantOf(v, b) \in Seq(VM)
<1>1. PICK k \in 0..BatchBound : b \in [1..k -> EventTypes]
  BY DEF Batches
<1> DEFINE instant == {i \in DOMAIN b : b[i] \in INSTANT_BLOCK_TYPES}
<1>2. k \in Nat /\ IsFiniteSet(1..k)
  BY <1>1, BoundsAssumption, FS_Interval
<1>3. Cardinality(instant) \in Nat
  BY <1>1, <1>2, FS_Subset, FS_CardinalityType
<1> QED
  BY <1>3 DEF InstantOf

(* Any order of a set of VMs can be appended to a work queue. *)
LEMMA OrdersType ==
    ASSUME NEW S \in SUBSET VM, NEW order \in Orders(S)
    PROVE  order \in Seq(VM)
<1>1. Cardinality(S) \in Nat
  BY VMAssumption, FS_Subset, FS_CardinalityType
<1> QED
  BY <1>1 DEF Orders

(* The displayed status is a status, and it is ISOLATED exactly when the    *)
(* decision and its enforcement both hold.                                 *)
LEMMA StatusOfType ==
    ASSUME NEW score, NEW iso \in BOOLEAN, NEW enforced \in BOOLEAN
    PROVE  /\ StatusOf(score, iso, enforced) \in Status
           /\ StatusOf(score, iso, enforced) = "ISOLATED" => iso /\ enforced
BY DEF StatusOf, Status

LEMMA ThreadFacts ==
    /\ "main" \in Thread
    /\ ApiThread \subseteq Thread
    /\ \A v \in VM : v # NoVM
BY VMAssumption DEF Thread

-----------------------------------------------------------------------------
(* The control state keeps its type: queues hold VMs, a thread has a        *)
(* subject exactly while it works on one.                                  *)
THEOREM ControlTypeCorrect == EngineSpec => []ControlTypeOK
<1>1. EngineInit => ControlTypeOK
  BY VMAssumption DEF EngineInit, ControlTypeOK, Status, PC, Responding
<1>2. ControlTypeOK /\ [EngineNext]_engineVars => ControlTypeOK'
  <2> SUFFICES ASSUME ControlTypeOK, [EngineNext]_engineVars
               PROVE  ControlTypeOK'
    OBVIOUS
  <2> USE ThreadFacts DEF ControlTypeOK, vmVars, queueVars, threadVars, historyVars
  <2>1. ASSUME NEW v \in VM, NEW b \in Batches, ProcessBatch(v, b)
        PROVE  ControlTypeOK'
    <3>1. PICK k \in 0..(IF Len(b) < Len(Keep(scored_events[v] \o b))
                         THEN Len(Keep(scored_events[v] \o b)) - Len(b) ELSE 0) :
            LET score == Score(Purge(Keep(scored_events[v] \o b), k)) IN
            /\ status' = [status EXCEPT ![v] = StatusOf(score, isolated[v], isolation_enforced[v])]
            /\ isolation_queue' \in {isolation_queue, Append(isolation_queue, v)}
            /\ alarmed' \in {alarmed, alarmed \cup {v}}
            /\ seen' = [seen EXCEPT ![v] = TRUE]
            /\ silent' = [silent EXCEPT ![v] = FALSE]
            /\ block_queue' = block_queue \o InstantOf(v, b)
            /\ UNCHANGED <<isolated, isolation_enforced, pc, subject, net_ok, nic_cut, revoked>>
      BY <2>1 DEF ProcessBatch
    <3>2. status' \in [VM -> Status]
      BY <3>1, StatusOfType
    <3>3. isolation_queue' \in Seq(VM) /\ block_queue' \in Seq(VM)
      <4>1. Append(isolation_queue, v) \in Seq(VM)
        OBVIOUS
      <4>2. InstantOf(v, b) \in Seq(VM)
        BY InstantOfType
      <4>3. block_queue \o InstantOf(v, b) \in Seq(VM)
        BY <4>2
      <4> QED
        BY <3>1, <4>1, <4>3
    <3>4. alarmed' \subseteq VM /\ seen' \in [VM -> BOOLEAN] /\ silent' \in [VM -> BOOLEAN]
      BY <3>1
    <3> QED
      BY <3>1, <3>2, <3>3, <3>4
  <2>2. CASE PopBlock
    <3>1. Head(block_queue) \in VM /\ Tail(block_queue) \in Seq(VM)
      BY <2>2 DEF PopBlock
    <3>2. CASE isolated[Head(block_queue)]
      BY <2>2, <3>1, <3>2 DEF PopBlock
    <3>3. CASE ~isolated[Head(block_queue)]
      <4>1. /\ pc["main"] = "blocks"
            /\ pc' = [pc EXCEPT !["main"] = "blocking"]
            /\ subject' = [subject EXCEPT !["main"] = Head(block_queue)]
            /\ block_queue' = Tail(block_queue)
            /\ UNCHANGED <<vmVars, isolation_queue, net_ok, nic_cut, historyVars>>
        BY <2>2, <3>3 DEF PopBlock, Work
      <4> HIDE DEF vmVars, historyVars
      <4>2. pc' \in [Thread -> PC] /\ subject' \in [Thread -> VM \cup {NoVM}]
        BY <3>1, <4>1 DEF PC
      <4>3. \A t \in Thread : subject'[t] \in VM <=> pc'[t] \in Responding \cup {"blocking", "resetting"}
        BY <3>1, <4>1 DEF Responding
      <4>4. \A t \in Thread : pc[t] \in Responding => pc'[t] \in Responding
        BY <4>1 DEF Responding
      <4> QED
        BY <3>1, <4>1, <4>2, <4>3, <4>4 DEF vmVars, historyVars
    <3> QED
      BY <3>2, <3>3
  <2>3. CASE BlockNetwork
    BY <2>3 DEF BlockNetwork, Work, PC, Responding, VMAssumption
  <2>4. CASE BlocksDrained
    BY <2>4 DEF BlocksDrained, PC, Responding
  <2>5. CASE PopIsolation
    <3>1. Head(isolation_queue) \in VM /\ Tail(isolation_queue) \in Seq(VM)
      BY <2>5 DEF PopIsolation
    <3>2. CASE isolated[Head(isolation_queue)]
      BY <2>5, <3>1, <3>2 DEF PopIsolation
    <3>3. CASE ~isolated[Head(isolation_queue)]
      <4>1. /\ pc["main"] = "isolations"
            /\ isolated' = [isolated EXCEPT ![Head(isolation_queue)] = TRUE]
            /\ pc' = [pc EXCEPT !["main"] = "isolating"]
            /\ subject' = [subject EXCEPT !["main"] = Head(isolation_queue)]
            /\ isolation_queue' = Tail(isolation_queue)
            /\ UNCHANGED <<status, isolation_enforced, silent, seen, block_queue, net_ok,
                           nic_cut, historyVars>>
        BY <2>5, <3>3 DEF PopIsolation, Decide, Work
      <4> HIDE DEF historyVars
      <4>2. /\ pc' \in [Thread -> PC] /\ subject' \in [Thread -> VM \cup {NoVM}]
            /\ isolated' \in [VM -> BOOLEAN]
        BY <3>1, <4>1 DEF PC, Responding
      <4>3. \A t \in Thread : subject'[t] \in VM <=> pc'[t] \in Responding \cup {"blocking", "resetting"}
        BY <3>1, <4>1 DEF Responding
      <4>4. \A t \in Thread : pc[t] \in Responding => pc'[t] \in Responding
        BY <4>1 DEF Responding
      <4> QED
        BY <3>1, <4>1, <4>2, <4>3, <4>4 DEF historyVars
    <3> QED
      BY <3>2, <3>3
  <2>6. CASE Watchdog
    <3> DEFINE SweptTypes ==
          /\ status' \in [VM -> Status] /\ silent' \in [VM -> BOOLEAN]
          /\ isolation_queue' \in Seq(VM) /\ alarmed' \subseteq VM
    <3>1. SweptTypes
      <4>1. CASE UNCHANGED <<silent, scored_events, threat_score, status, isolation_queue, alarmed>>
        BY <4>1
      <4>2. ASSUME NEW S \in SUBSET VM, WatchdogSweep(S)
            PROVE  SweptTypes
        <5>1. PICK k \in [S -> 0..(MaxEvents - 1)] :
                LET window(v) == Keep(Append(scored_events[v], "agent_silence"))
                    after(v) == Purge(window(v), k[v])
                    hot == {v \in S : NeedsResponse(v, Score(after(v)))} IN
                /\ silent' = [v \in VM |-> silent[v] \/ v \in S]
                /\ status' = [v \in VM |-> IF v \in S THEN StatusOf(Score(after(v)), FALSE, FALSE)
                                                      ELSE status[v]]
                /\ \E order \in Orders(hot) : isolation_queue' = isolation_queue \o order
                /\ alarmed' = alarmed \cup hot
          BY <4>2 DEF WatchdogSweep
        <5> DEFINE hot == {v \in S :
            NeedsResponse(v, Score(Purge(Keep(Append(scored_events[v], "agent_silence")), k[v])))}
        <5>2. PICK order \in Orders(hot) : isolation_queue' = isolation_queue \o order
          BY <5>1
        <5>3. order \in Seq(VM)
          BY OrdersType
        <5>4. isolation_queue' \in Seq(VM)
          BY <5>2, <5>3
        <5>5. status' \in [VM -> Status]
          BY <5>1, StatusOfType
        <5> QED
          BY <5>1, <5>4, <5>5
      <4> QED
        BY <2>6, <4>1, <4>2 DEF Watchdog
    <3> QED
      BY <2>6, <3>1 DEF Watchdog, PC, Responding
  <2>7. ASSUME NEW t \in Thread, ResponseStep(t)
        PROVE  ControlTypeOK'
    <3>1. CASE IsolateNetwork(t)
      BY <2>7, <3>1, OutcomesAssumption, ConfigAssumption DEF IsolateNetwork, PC, Responding, HostOutcomes
    <3>2. CASE RestoreSnapshot(t)
      BY <3>2 DEF RestoreSnapshot, PC, Responding
    <3>3. CASE RecordEnforcement(t)
      BY <3>3 DEF RecordEnforcement, PC, Responding, Status
    <3> QED
      BY <2>7, <3>1, <3>2, <3>3 DEF ResponseStep
  <2>8. ASSUME NEW t \in ApiThread, NEW v \in VM, ManualIsolate(t, v)
        PROVE  ControlTypeOK'
    BY <2>8 DEF ManualIsolate, Decide, Work, PC, Responding
  <2>9. ASSUME NEW t \in ApiThread, NEW v \in VM, AbortAndRestore(t, v)
        PROVE  ControlTypeOK'
    BY <2>9 DEF AbortAndRestore, Work, PC, Responding, Status
  <2>10. CASE PollStatus
    <3>1. status' \in [VM -> Status]
      BY <2>10, StatusOfType DEF PollStatus
    <3> QED
      BY <2>10, <3>1 DEF PollStatus
  <2>11. ASSUME NEW t \in Thread, Failover(t)
         PROVE  ControlTypeOK'
    BY <2>11, VMAssumption, ThreadsAssumption DEF Failover, Work, PC, Responding
  <2>12. ASSUME NEW t \in Thread, ResetFailover(t)
         PROVE  ControlTypeOK'
    BY <2>12, VMAssumption DEF ResetFailover, Work, PC, Responding
  <2>13. CASE UNCHANGED engineVars
    BY <2>13 DEF engineVars
  <2> QED
    BY <2>1, <2>2, <2>3, <2>4, <2>5, <2>6, <2>7, <2>8, <2>9, <2>10, <2>11, <2>12, <2>13
       DEF EngineNext, LocalStep, MainStep
<1> QED
  BY <1>1, <1>2, PTL DEF EngineSpec
-----------------------------------------------------------------------------
(* One response per decision (property OneResponsePerDecision).  The        *)
(* strengthening: a response whose decision stands has its VM isolated, so  *)
(* the test-and-set of a second thread finds the flag set; an abort that    *)
(* clears the flag revokes every response of that VM in the same section.  *)
StandingResponseIsolates ==
    \A t \in Thread : (pc[t] \in Responding /\ t \notin revoked) => isolated[subject[t]]

ResponseInv == OneResponsePerDecision /\ StandingResponseIsolates

(* A step that starts no response, clears no decision and forgets no        *)
(* revocation of a running response keeps the invariant.                   *)
LEMMA NoNewResponse ==
    ASSUME ControlTypeOK, ResponseInv,
           \A t \in Thread : pc'[t] \in Responding =>
              pc[t] \in Responding /\ subject'[t] = subject[t] /\ (t \in revoked => t \in revoked'),
           \A t \in Thread : (pc'[t] \in Responding /\ t \notin revoked') =>
              (isolated[subject[t]] => isolated'[subject[t]])
    PROVE  ResponseInv'
BY DEF ResponseInv, OneResponsePerDecision, StandingResponseIsolates

(* The test-and-set: the one thread that starts a response found its VM not *)
(* isolated, so every other response to that VM is revoked.                *)
LEMMA DecisionKeepsInv ==
    ASSUME ControlTypeOK, ResponseInv, NEW t \in Thread, NEW v \in VM,
           ~isolated[v], pc[t] \notin Responding, Decide(t, v), revoked' = revoked
    PROVE  ResponseInv'
<1>1. /\ \A u \in Thread : u # t => pc'[u] = pc[u] /\ subject'[u] = subject[u]
      /\ subject'[t] = v
      /\ \A w \in VM : isolated'[w] = (isolated[w] \/ w = v)
  BY DEF Decide, Work, ControlTypeOK
<1>2. \A u \in Thread : (u # t /\ pc[u] \in Responding /\ subject[u] = v) => u \in revoked
  BY DEF ResponseInv, StandingResponseIsolates
<1>3. OneResponsePerDecision'
  BY <1>1, <1>2 DEF ResponseInv, OneResponsePerDecision
<1>4. ASSUME NEW u \in Thread, pc'[u] \in Responding, u \notin revoked
      PROVE  isolated'[subject'[u]]
  <2>1. CASE u = t
    BY <1>1, <2>1
  <2>2. CASE u # t
    <3>1. pc[u] \in Responding /\ subject[u] \in VM
      BY <1>1, <1>4, <2>2 DEF ControlTypeOK
    <3> QED
      BY <1>1, <1>4, <2>2, <3>1 DEF ResponseInv, StandingResponseIsolates
  <2> QED
    BY <2>1, <2>2
<1> QED
  BY <1>3, <1>4 DEF ResponseInv, StandingResponseIsolates

THEOREM ResponseInvHolds == EngineSpec => []ResponseInv
<1>1. EngineInit => ResponseInv
  BY DEF EngineInit, ResponseInv, OneResponsePerDecision, StandingResponseIsolates, Responding
<1>2. ControlTypeOK /\ ResponseInv /\ [EngineNext]_engineVars => ResponseInv'
  <2> SUFFICES ASSUME ControlTypeOK, ResponseInv, [EngineNext]_engineVars
               PROVE  ResponseInv'
    OBVIOUS
  <2> USE ThreadFacts DEF vmVars, queueVars, threadVars, historyVars
  <2>1. ASSUME NEW v \in VM, NEW b \in Batches, ProcessBatch(v, b)
        PROVE  ResponseInv'
    <3>1. UNCHANGED <<isolated, pc, subject, revoked>>
      BY <2>1 DEF ProcessBatch
    <3> QED
      BY <3>1, NoNewResponse
  <2>2. CASE PopBlock \/ BlockNetwork \/ BlocksDrained \/ Watchdog
    <3>1. /\ \A t \in Thread : pc'[t] \in Responding => pc'[t] = pc[t] /\ subject'[t] = subject[t]
          /\ UNCHANGED <<isolated, revoked>>
      BY <2>2 DEF PopBlock, BlockNetwork, BlocksDrained, Watchdog, Work, Responding, ControlTypeOK
    <3> QED
      BY <3>1, NoNewResponse
  <2>3. CASE PopIsolation
    <3>1. Head(isolation_queue) \in VM
      BY <2>3 DEF PopIsolation, ControlTypeOK
    <3>2. CASE isolated[Head(isolation_queue)]
      BY <2>3, <3>2, NoNewResponse DEF PopIsolation
    <3>3. CASE ~isolated[Head(isolation_queue)]
      BY <2>3, <3>1, <3>3, DecisionKeepsInv DEF PopIsolation, Responding
    <3> QED
      BY <3>2, <3>3
  <2>4. ASSUME NEW t \in Thread, ResponseStep(t)
        PROVE  ResponseInv'
    <3>1. /\ \A u \in Thread : pc'[u] \in Responding => pc[u] \in Responding
          /\ UNCHANGED <<subject, isolated, revoked>>
      BY <2>4 DEF ResponseStep, IsolateNetwork, RestoreSnapshot, RecordEnforcement, Responding,
                  ControlTypeOK
    <3> QED
      BY <3>1, NoNewResponse
  <2>5. ASSUME NEW t \in ApiThread, NEW v \in VM, ManualIsolate(t, v)
        PROVE  ResponseInv'
    BY <2>5, DecisionKeepsInv DEF ManualIsolate, Responding
  <2>6. ASSUME NEW t \in ApiThread, NEW v \in VM, AbortAndRestore(t, v)
        PROVE  ResponseInv'
    <3>1. /\ \A u \in Thread : pc'[u] \in Responding =>
               u # t /\ pc'[u] = pc[u] /\ subject'[u] = subject[u]
          /\ revoked' = revoked \cup {u \in Thread : pc[u] \in Responding /\ subject[u] = v}
          /\ \A w \in VM : w # v => isolated'[w] = isolated[w]
      BY <2>6 DEF AbortAndRestore, Work, Responding, ControlTypeOK
    <3>2. \A u \in Thread : (pc'[u] \in Responding /\ u \notin revoked') =>
             subject[u] \in VM /\ subject[u] # v
      BY <3>1 DEF ControlTypeOK
    <3> QED
      BY <3>1, <3>2, NoNewResponse
  <2>7. CASE PollStatus
    <3>1. UNCHANGED <<isolated, pc, subject, revoked>>
      BY <2>7 DEF PollStatus
    <3> QED
      BY <3>1, NoNewResponse
  <2>8. ASSUME NEW t \in Thread, Failover(t) \/ ResetFailover(t)
        PROVE  ResponseInv'
    <3>1. /\ \A u \in Thread : pc'[u] \in Responding =>
               u # t /\ pc'[u] = pc[u] /\ subject'[u] = subject[u]
          /\ revoked \subseteq revoked' \cup {t}
          /\ isolated' = isolated
      BY <2>8 DEF Failover, ResetFailover, Work, Responding, ControlTypeOK
    <3>2. \A u \in Thread : pc'[u] \in Responding =>
             pc[u] \in Responding /\ subject'[u] = subject[u] /\ (u \in revoked => u \in revoked')
      BY <3>1
    <3> QED
      BY <3>1, <3>2, NoNewResponse
  <2>9. CASE UNCHANGED engineVars
    BY <2>9, NoNewResponse DEF engineVars
  <2> QED
    BY <2>1, <2>2, <2>3, <2>4, <2>5, <2>6, <2>7, <2>8, <2>9 DEF EngineNext, LocalStep, MainStep
<1> QED
  BY <1>1, <1>2, ControlTypeCorrect, PTL DEF EngineSpec

(* Whatever the IR worker, the request threads and the operator do, of two  *)
(* threads responding to one VM one answers an aborted decision.           *)
THEOREM OneResponse == EngineSpec => []OneResponsePerDecision
<1>1. ResponseInv => OneResponsePerDecision
  BY DEF ResponseInv
<1> QED
  BY <1>1, ResponseInvHolds, PTL

-----------------------------------------------------------------------------
(* The dashboard is honest (property IsolatedMeansCut) as long as the host  *)
(* firewall is the default dry run.  The strengthening follows the truth    *)
(* from the hypervisor's answer to the recorded flag: a response that holds *)
(* a success has cut its VM, and so has every enforced VM; nothing ever     *)
(* reconnects one.                                                         *)
EnforcedMeansCut == \A v \in VM : isolation_enforced[v] => v \in nic_cut

CutInv ==
    /\ IsolatedMeansCut
    /\ EnforcedMeansCut
    /\ \A t \in Thread : (pc[t] \in {"restoring", "recording"} /\ net_ok[t]) => subject[t] \in nic_cut

(* A step that reports no new success keeps the invariant. *)
LEMMA NoNewSuccess ==
    ASSUME ControlTypeOK, CutInv,
           nic_cut \subseteq nic_cut',
           \A v \in VM : isolation_enforced'[v] => isolation_enforced[v],
           \A v \in VM : status'[v] = "ISOLATED" => status[v] = "ISOLATED" \/ isolation_enforced[v],
           \A t \in Thread : (pc'[t] \in {"restoring", "recording"} /\ net_ok'[t]) =>
              pc[t] \in {"restoring", "recording"} /\ net_ok[t] /\ subject'[t] = subject[t]
    PROVE  CutInv'
BY DEF CutInv, IsolatedMeansCut, EnforcedMeansCut

THEOREM HonestIsolation ==
    ASSUME HostContainment = "dry_run"
    PROVE  EngineSpec => []IsolatedMeansCut
<1>1. EngineInit => CutInv
  BY DEF EngineInit, CutInv, IsolatedMeansCut, EnforcedMeansCut
<1>2. ControlTypeOK /\ CutInv /\ [EngineNext]_engineVars => CutInv'
  <2> SUFFICES ASSUME ControlTypeOK, CutInv, [EngineNext]_engineVars
               PROVE  CutInv'
    OBVIOUS
  <2> USE ThreadFacts DEF vmVars, queueVars, threadVars, historyVars
  <2>1. ASSUME NEW v \in VM, NEW b \in Batches, ProcessBatch(v, b)
        PROVE  CutInv'
    <3>1. PICK score :
            /\ status' = [status EXCEPT ![v] = StatusOf(score, isolated[v], isolation_enforced[v])]
            /\ UNCHANGED <<isolation_enforced, pc, subject, net_ok, nic_cut>>
      BY <2>1 DEF ProcessBatch
    <3>2. \A w \in VM : status'[w] = "ISOLATED" => status[w] = "ISOLATED" \/ isolation_enforced[w]
      BY <3>1, StatusOfType DEF ControlTypeOK
    <3> QED
      BY <3>1, <3>2, NoNewSuccess
  <2>2. CASE PopBlock \/ BlockNetwork \/ BlocksDrained
    <3>1. /\ \A t \in Thread : pc'[t] \in {"restoring", "recording"} =>
                pc'[t] = pc[t] /\ subject'[t] = subject[t]
          /\ nic_cut \subseteq nic_cut'
          /\ UNCHANGED <<isolation_enforced, status, net_ok>>
      BY <2>2 DEF PopBlock, BlockNetwork, BlocksDrained, Work, ControlTypeOK
    <3> QED
      BY <3>1, NoNewSuccess
  <2>3. CASE PopIsolation
    <3>1. /\ \A t \in Thread : pc'[t] \in {"restoring", "recording"} =>
                pc'[t] = pc[t] /\ subject'[t] = subject[t]
          /\ UNCHANGED <<isolation_enforced, status, net_ok, nic_cut>>
      BY <2>3 DEF PopIsolation, Decide, Work, ControlTypeOK
    <3> QED
      BY <3>1, NoNewSuccess
  <2>4. CASE Watchdog
    <3>1. /\ \A t \in Thread : pc'[t] \in {"restoring", "recording"} => pc'[t] = pc[t]
          /\ UNCHANGED <<isolation_enforced, subject, net_ok, nic_cut>>
      BY <2>4 DEF Watchdog, ControlTypeOK
    <3>2. \A v \in VM : status'[v] = "ISOLATED" => status[v] = "ISOLATED"
      <4>1. CASE UNCHANGED <<silent, scored_events, threat_score, status, isolation_queue, alarmed>>
        BY <4>1
      <4>2. ASSUME NEW S \in SUBSET VM, WatchdogSweep(S)
            PROVE  \A v \in VM : status'[v] = "ISOLATED" => status[v] = "ISOLATED"
        <5>1. PICK k \in [S -> 0..(MaxEvents - 1)] :
                status' = [v \in VM |-> IF v \in S
                    THEN StatusOf(Score(Purge(Keep(Append(scored_events[v], "agent_silence")), k[v])),
                                  FALSE, FALSE)
                    ELSE status[v]]
          BY <4>2 DEF WatchdogSweep
        <5> QED
          BY <5>1, StatusOfType
      <4> QED
        BY <2>4, <4>1, <4>2 DEF Watchdog
    <3> QED
      BY <3>1, <3>2, NoNewSuccess
  <2>5. ASSUME NEW t \in Thread, IsolateNetwork(t)
        PROVE  CutInv'
    <3>1. PICK ok \in BOOLEAN :
            /\ nic_cut' = IF ok THEN nic_cut \cup {subject[t]} ELSE nic_cut
            /\ net_ok' = [net_ok EXCEPT ![t] = ok]
      BY <2>5, OutcomesAssumption DEF IsolateNetwork, HostOutcomes
    <3>2. UNCHANGED <<status, isolation_enforced, subject>>
          /\ \A u \in Thread : u # t => pc'[u] = pc[u]
      BY <2>5 DEF IsolateNetwork, ControlTypeOK
    <3> QED
      BY <3>1, <3>2 DEF CutInv, IsolatedMeansCut, EnforcedMeansCut, ControlTypeOK
  <2>6. ASSUME NEW t \in Thread, RestoreSnapshot(t)
        PROVE  CutInv'
    BY <2>6, NoNewSuccess DEF RestoreSnapshot, ControlTypeOK
  <2>7. ASSUME NEW t \in Thread, RecordEnforcement(t)
        PROVE  CutInv'
    <3>1. net_ok[t] => subject[t] \in nic_cut
      BY <2>7 DEF RecordEnforcement, CutInv
    <3>2. /\ \A v \in VM : v # subject[t] =>
                status'[v] = status[v] /\ isolation_enforced'[v] = isolation_enforced[v]
          /\ subject[t] \in VM =>
                /\ isolation_enforced'[subject[t]] = net_ok[t]
                /\ status'[subject[t]] = "ISOLATED" => net_ok[t]
      BY <2>7 DEF RecordEnforcement, ControlTypeOK
    <3>3. /\ UNCHANGED <<nic_cut, net_ok, subject>>
          /\ \A u \in Thread : pc'[u] \in {"restoring", "recording"} => pc'[u] = pc[u]
      BY <2>7 DEF RecordEnforcement, ControlTypeOK
    <3> QED
      BY <3>1, <3>2, <3>3 DEF CutInv, IsolatedMeansCut, EnforcedMeansCut
  <2>8. ASSUME NEW t \in ApiThread, NEW v \in VM, ManualIsolate(t, v) \/ AbortAndRestore(t, v)
        PROVE  CutInv'
    <3>1. /\ \A u \in Thread : pc'[u] \in {"restoring", "recording"} =>
                pc'[u] = pc[u] /\ subject'[u] = subject[u]
          /\ \A w \in VM : isolation_enforced'[w] => isolation_enforced[w]
          /\ \A w \in VM : status'[w] = "ISOLATED" => status[w] = "ISOLATED"
          /\ UNCHANGED <<net_ok, nic_cut>>
      BY <2>8 DEF ManualIsolate, AbortAndRestore, Decide, Work, ControlTypeOK
    <3> QED
      BY <3>1, NoNewSuccess
  <2>9. CASE PollStatus
    <3>1. \A v \in VM : status'[v] = "ISOLATED" => isolation_enforced[v]
      <4>1. PICK k : status' = [v \in VM |-> StatusOf(Score(Purge(scored_events[v], k[v])),
                                                      isolated[v], isolation_enforced[v])]
        BY <2>9 DEF PollStatus
      <4> QED
        BY <4>1, StatusOfType DEF ControlTypeOK
    <3>2. UNCHANGED <<isolation_enforced, pc, subject, net_ok, nic_cut>>
      BY <2>9 DEF PollStatus
    <3> QED
      BY <3>1, <3>2, NoNewSuccess
  <2>10. ASSUME NEW t \in Thread, Failover(t) \/ ResetFailover(t)
         PROVE  CutInv'
    <3>1. /\ \A u \in Thread : pc'[u] \in {"restoring", "recording"} =>
                u # t /\ pc'[u] = pc[u] /\ subject'[u] = subject[u]
          /\ \A u \in Thread : u # t => net_ok'[u] = net_ok[u]
          /\ UNCHANGED <<status, isolation_enforced, nic_cut>>
      BY <2>10 DEF Failover, ResetFailover, Work, ControlTypeOK
    <3> QED
      BY <3>1, NoNewSuccess
  <2>11. CASE UNCHANGED engineVars
    BY <2>11, NoNewSuccess DEF engineVars
  <2> QED
    BY <2>1, <2>2, <2>3, <2>4, <2>5, <2>6, <2>7, <2>8, <2>9, <2>10, <2>11
       DEF EngineNext, LocalStep, MainStep, ResponseStep
<1>3. CutInv => IsolatedMeansCut
  BY DEF CutInv
<1> QED
  BY <1>1, <1>2, <1>3, ControlTypeCorrect, PTL DEF EngineSpec
-----------------------------------------------------------------------------
(* The score of a window.  Score is a recursive function of the position;  *)
(* Total is that function, and its equation is recovered by induction.     *)
Total(s) == CHOOSE total : total =
    [i \in 0..Len(s) |-> IF i = 0 THEN 0 ELSE total[i - 1] + ResolveDelta(s[i])]

LEMMA ResolveDeltaType == \A e : ResolveDelta(e) \in Nat
BY DEF ResolveDelta, SCORE_WEIGHTS

(* The running total is the sum of the weights up to each position. *)
LEMMA TotalDefined ==
    ASSUME NEW T, NEW s \in Seq(T)
    PROVE  /\ Total(s) \in [0..Len(s) -> Nat]
           /\ Total(s)[0] = 0
           /\ \A i \in 1..Len(s) : Total(s)[i] = Total(s)[i - 1] + ResolveDelta(s[i])
<1> DEFINE step == [i \in Nat |-> [x \in Nat |-> x + ResolveDelta(s[i])]]
<1>1. step \in [Nat -> [Nat -> Nat]]
  BY ResolveDeltaType
<1>2. Len(s) \in Nat /\ 0 \in Nat
  OBVIOUS
<1>3. PICK h : IsRecursive(h, Len(s), Nat, 0, step)
  <2> HIDE DEF step
  <2> QED
    BY <1>1, <1>2, PrimRec
<1>4. /\ h \in [0..Len(s) -> Nat] /\ h[0] = 0
      /\ \A i \in 1..Len(s) : h[i] = step[i][h[i - 1]]
  BY <1>3 DEF IsRecursive
<1>5. \A i \in 1..Len(s) : h[i] = h[i - 1] + ResolveDelta(s[i])
  <2> TAKE i \in 1..Len(s)
  <2>1. i \in Nat /\ h[i - 1] \in Nat
    BY <1>2, <1>4
  <2> QED
    BY <1>4, <2>1
<1> HIDE DEF step
<1>6. h = [i \in 0..Len(s) |-> IF i = 0 THEN 0 ELSE h[i - 1] + ResolveDelta(s[i])]
  BY <1>2, <1>4, <1>5
<1>7. Total(s) = [i \in 0..Len(s) |-> IF i = 0 THEN 0 ELSE Total(s)[i - 1] + ResolveDelta(s[i])]
  BY <1>6 DEF Total
<1>8. /\ Total(s)[0] = 0
      /\ \A i \in 1..Len(s) : Total(s)[i] = Total(s)[i - 1] + ResolveDelta(s[i])
  BY <1>2, <1>7
<1> DEFINE D == {i \in Nat : i <= Len(s) => Total(s)[i] \in Nat}
<1>9. D = Nat
  <2>1. D \in SUBSET Nat /\ 0 \in D /\ \A i \in D : i + 1 \in D
    <3>1. 0 \in D
      BY <1>8
    <3>2. ASSUME NEW i \in D PROVE i + 1 \in D
      <4> SUFFICES ASSUME i + 1 <= Len(s) PROVE Total(s)[i + 1] \in Nat
        OBVIOUS
      <4>1. i + 1 \in 1..Len(s) /\ (i + 1) - 1 = i /\ Total(s)[i] \in Nat
        BY <1>2
      <4>2. Total(s)[i + 1] = Total(s)[i] + ResolveDelta(s[i + 1])
        BY <1>8, <4>1
      <4> QED
        BY <4>1, <4>2, ResolveDeltaType
    <3> QED
      BY <3>1, <3>2
  <2> HIDE DEF D
  <2> QED
    BY <2>1, NatSetInduction
<1>10. \A i \in 0..Len(s) : Total(s)[i] \in Nat
  BY <1>2, <1>9
<1> QED
  BY <1>7, <1>8, <1>10

(* A score is a number from 0 to SCORE_CAP, and an empty window scores 0.  *)
LEMMA ScoreType ==
    ASSUME NEW T, NEW s \in Seq(T)
    PROVE  /\ Score(s) \in 0..SCORE_CAP
           /\ s = <<>> => Score(s) = 0
<1>1. Len(s) \in Nat /\ Total(s)[Len(s)] \in Nat /\ (s = <<>> => Total(s)[Len(s)] = 0)
  BY TotalDefined
<1>2. Score(s) = IF Total(s)[Len(s)] < SCORE_CAP THEN Total(s)[Len(s)] ELSE SCORE_CAP
  BY DEF Score, Total
<1>3. ASSUME NEW t \in Nat PROVE (IF t < SCORE_CAP THEN t ELSE SCORE_CAP) \in 0..SCORE_CAP
  BY DEF SCORE_CAP
<1>4. 0 < SCORE_CAP
  BY DEF SCORE_CAP
<1> QED
  BY <1>1, <1>2, <1>3, <1>4

(* The window after a purge: a suffix. *)
LEMMA PurgeType ==
    ASSUME NEW T, NEW s \in Seq(T), NEW k \in 0..Len(s)
    PROVE  /\ Purge(s, k) \in Seq(T)
           /\ Len(Purge(s, k)) = Len(s) - k
           /\ \A i \in 1..(Len(s) - k) : Purge(s, k)[i] = s[k + i]
<1>1. Len(s) \in Nat /\ \A i \in (k + 1)..Len(s) : s[i] \in T
  OBVIOUS
<1> QED
  BY <1>1, SubSeqProperties DEF Purge

(* The bounded window holds at most MaxEvents. *)
LEMMA KeepType ==
    ASSUME NEW T, NEW s \in Seq(T)
    PROVE  Keep(s) \in Seq(T) /\ Len(Keep(s)) <= MaxEvents
<1>1. Len(s) \in Nat /\ \A i \in 1..Len(s) : s[i] \in T
  OBVIOUS
<1>2. CASE Len(s) > MaxEvents
  <2>1. \A i \in (Len(s) - MaxEvents + 1)..Len(s) : s[i] \in T
    BY <1>1, <1>2, MaxEventsAssumption
  <2> QED
    BY <1>1, <1>2, <2>1, SubSeqProperties, MaxEventsAssumption DEF Keep
<1>3. CASE ~(Len(s) > MaxEvents)
  BY <1>1, <1>3, MaxEventsAssumption DEF Keep
<1> QED
  BY <1>2, <1>3

(* Expiry never raises a score: what is left of a window weighs no more    *)
(* than the window did.                                                    *)
LEMMA PurgeLowersScore ==
    ASSUME NEW T, NEW s \in Seq(T), NEW k \in 0..Len(s)
    PROVE  Score(Purge(s, k)) <= Score(s)
<1> DEFINE p == Purge(s, k)
           n == Len(s) - k
           D == {i \in Nat : i <= n => Total(p)[i] <= Total(s)[k + i]}
<1>1. p \in Seq(T) /\ Len(p) = n /\ \A i \in 1..n : p[i] = s[k + i]
  BY PurgeType
<1> HIDE DEF p
<1>2. k \in Nat /\ n \in Nat /\ Len(s) \in Nat /\ k + n = Len(s)
  OBVIOUS
<1>3. /\ Total(p) \in [0..n -> Nat]
      /\ Total(p)[0] = 0
      /\ \A i \in 1..n : Total(p)[i] = Total(p)[i - 1] + ResolveDelta(s[k + i])
  BY <1>1, TotalDefined
<1>4. /\ Total(s) \in [0..Len(s) -> Nat]
      /\ \A i \in 1..Len(s) : Total(s)[i] = Total(s)[i - 1] + ResolveDelta(s[i])
  BY TotalDefined
<1>5. D = Nat
  <2>1. 0 \in D
    BY <1>2, <1>3, <1>4
  <2>2. ASSUME NEW i \in D PROVE i + 1 \in D
    <3> SUFFICES ASSUME i + 1 <= n PROVE Total(p)[i + 1] <= Total(s)[k + (i + 1)]
      OBVIOUS
    <3>1. /\ i + 1 \in 1..n /\ k + (i + 1) \in 1..Len(s) /\ (i + 1) - 1 = i
          /\ (k + (i + 1)) - 1 = k + i /\ i \in 0..n /\ k + i \in 0..Len(s)
          /\ Total(p)[i] <= Total(s)[k + i]
      BY <1>2
    <3>2. Total(p)[i + 1] = Total(p)[i] + ResolveDelta(s[k + (i + 1)])
      BY <1>3, <3>1
    <3>3. Total(s)[k + (i + 1)] = Total(s)[k + i] + ResolveDelta(s[k + (i + 1)])
      BY <1>4, <3>1
    <3>4. Total(p)[i] \in Nat /\ Total(s)[k + i] \in Nat
      BY <1>3, <1>4, <3>1
    <3> QED
      BY <3>1, <3>2, <3>3, <3>4, ResolveDeltaType
  <2>3. D \in SUBSET Nat
    OBVIOUS
  <2> HIDE DEF D
  <2> QED
    BY <2>1, <2>2, <2>3, NatSetInduction
<1>6. Total(p)[n] <= Total(s)[Len(s)]
  BY <1>2, <1>5
<1>7. Total(p)[n] \in Nat /\ Total(s)[Len(s)] \in Nat
  <2>1. n \in 0..n /\ Len(s) \in 0..Len(s)
    BY <1>2
  <2> QED
    BY <1>3, <1>4, <2>1
<1>8. /\ Score(p) = IF Total(p)[n] < SCORE_CAP THEN Total(p)[n] ELSE SCORE_CAP
      /\ Score(s) = IF Total(s)[Len(s)] < SCORE_CAP THEN Total(s)[Len(s)] ELSE SCORE_CAP
  BY <1>1 DEF Score, Total
<1> QED
  BY <1>6, <1>7, <1>8 DEF SCORE_CAP, p
-----------------------------------------------------------------------------
(* The scoring state keeps its type: a window never exceeds its maxlen and  *)
(* a score never exceeds the cap, whatever the batches and the expiries.    *)
Events == EventTypes \cup {"agent_silence"}

LEMMA BatchType == ASSUME NEW b \in Batches PROVE b \in Seq(Events)
<1>1. PICK k \in 0..BatchBound : b \in [1..k -> EventTypes]
  BY DEF Batches
<1>2. k \in Nat /\ b \in [1..k -> Events]
  BY <1>1, BoundsAssumption DEF Events
<1> QED
  BY <1>2

(* What a window holds after k of its events have left it. *)
LEMMA WindowType ==
    ASSUME NEW s \in Seq(Events), NEW k \in 0..Len(Keep(s))
    PROVE  /\ Purge(Keep(s), k) \in Seq(Events)
           /\ Len(Purge(Keep(s), k)) <= MaxEvents
           /\ Score(Purge(Keep(s), k)) \in 0..SCORE_CAP
<1>1. Keep(s) \in Seq(Events) /\ Len(Keep(s)) <= MaxEvents
  BY KeepType
<1>2. Purge(Keep(s), k) \in Seq(Events) /\ Len(Purge(Keep(s), k)) = Len(Keep(s)) - k
  BY <1>1, PurgeType
<1>3. Len(Keep(s)) \in Nat /\ MaxEvents \in Nat
  BY <1>1, MaxEventsAssumption
<1> QED
  BY <1>1, <1>2, <1>3, ScoreType

LEMMA ScoreTypeStep ==
    ControlTypeOK /\ ScoreTypeOK /\ [EngineNext]_engineVars => ScoreTypeOK'
<1> SUFFICES ASSUME ControlTypeOK, ScoreTypeOK, [EngineNext]_engineVars
             PROVE  ScoreTypeOK'
  OBVIOUS
<1> USE DEF vmVars
<1>0. /\ scored_events \in [VM -> Seq(Events)]
      /\ \A v \in VM : Len(scored_events[v]) <= MaxEvents
      /\ threat_score \in [VM -> 0..SCORE_CAP]
  BY DEF ScoreTypeOK, Events
<1>1. ASSUME NEW v \in VM, NEW b \in Batches, ProcessBatch(v, b)
      PROVE  ScoreTypeOK'
  <2> DEFINE window == Keep(scored_events[v] \o b)
  <2>1. scored_events[v] \o b \in Seq(Events) /\ Len(b) \in Nat
    BY <1>0, BatchType
  <2>2. Len(window) \in Nat
    BY <2>1, KeepType
  <2>3. PICK k \in 0..(IF Len(b) < Len(window) THEN Len(window) - Len(b) ELSE 0) :
          /\ scored_events' = [scored_events EXCEPT ![v] = Purge(window, k)]
          /\ threat_score' = [threat_score EXCEPT ![v] = Score(Purge(window, k))]
    BY <1>1 DEF ProcessBatch
  <2>4. k \in 0..Len(window)
    BY <2>1, <2>2
  <2>5. /\ Purge(window, k) \in Seq(Events)
        /\ Len(Purge(window, k)) <= MaxEvents
        /\ Score(Purge(window, k)) \in 0..SCORE_CAP
    BY <2>1, <2>4, WindowType
  <2> HIDE DEF window
  <2> QED
    BY <1>0, <2>3, <2>5 DEF ScoreTypeOK, Events
<1>2. CASE Watchdog
  <2>1. CASE UNCHANGED <<silent, scored_events, threat_score, status, isolation_queue, alarmed>>
    BY <2>1 DEF ScoreTypeOK
  <2>2. ASSUME NEW S \in SUBSET VM, WatchdogSweep(S)
        PROVE  ScoreTypeOK'
    <3> DEFINE window(v) == Keep(Append(scored_events[v], "agent_silence"))
    <3>1. PICK k \in [S -> 0..(MaxEvents - 1)] :
            /\ \A v \in S : k[v] < Len(window(v))
            /\ scored_events' = [v \in VM |-> IF v \in S THEN Purge(window(v), k[v])
                                              ELSE scored_events[v]]
            /\ threat_score' = [v \in VM |-> IF v \in S THEN Score(Purge(window(v), k[v]))
                                             ELSE threat_score[v]]
      BY <2>2 DEF WatchdogSweep
    <3>2. ASSUME NEW v \in S
          PROVE  /\ Purge(window(v), k[v]) \in Seq(Events)
                 /\ Len(Purge(window(v), k[v])) <= MaxEvents
                 /\ Score(Purge(window(v), k[v])) \in 0..SCORE_CAP
      <4>1. Append(scored_events[v], "agent_silence") \in Seq(Events)
        BY <1>0 DEF Events
      <4>2. Len(window(v)) \in Nat
        BY <4>1, KeepType
      <4>3. k[v] \in 0..Len(window(v))
        <5>1. k[v] \in 0..(MaxEvents - 1) /\ k[v] < Len(window(v))
          BY <3>1
        <5> HIDE DEF window
        <5> QED
          BY <4>2, <5>1, MaxEventsAssumption
      <4> QED
        BY <4>1, <4>3, WindowType
    <3> HIDE DEF window
    <3> QED
      BY <1>0, <3>1, <3>2 DEF ScoreTypeOK, Events
  <2> QED
    BY <1>2, <2>1, <2>2 DEF Watchdog
<1>3. ASSUME NEW t \in ApiThread, NEW v \in VM, AbortAndRestore(t, v)
      PROVE  ScoreTypeOK'
  <2>1. /\ scored_events' = [scored_events EXCEPT ![v] = <<>>]
        /\ threat_score' = [threat_score EXCEPT ![v] = 0]
    BY <1>3 DEF AbortAndRestore
  <2>2. <<>> \in Seq(Events) /\ Len(<<>>) <= MaxEvents /\ 0 \in 0..SCORE_CAP
    BY MaxEventsAssumption DEF SCORE_CAP
  <2> QED
    BY <1>0, <2>1, <2>2 DEF ScoreTypeOK, Events
<1>4. CASE PollStatus
  <2>1. PICK k \in [VM -> 0..MaxEvents] :
          /\ \A v \in VM : k[v] <= Len(scored_events[v])
          /\ scored_events' = [v \in VM |-> Purge(scored_events[v], k[v])]
          /\ threat_score' = [v \in VM |-> Score(Purge(scored_events[v], k[v]))]
    BY <1>4 DEF PollStatus
  <2>2. ASSUME NEW v \in VM
        PROVE  /\ Purge(scored_events[v], k[v]) \in Seq(Events)
               /\ Len(Purge(scored_events[v], k[v])) <= MaxEvents
               /\ Score(Purge(scored_events[v], k[v])) \in 0..SCORE_CAP
    <3>1. /\ scored_events[v] \in Seq(Events) /\ Len(scored_events[v]) \in Nat
          /\ k[v] \in 0..Len(scored_events[v])
      BY <1>0, <2>1
    <3>2. /\ Purge(scored_events[v], k[v]) \in Seq(Events)
          /\ Len(Purge(scored_events[v], k[v])) = Len(scored_events[v]) - k[v]
      BY <3>1, PurgeType
    <3>3. Score(Purge(scored_events[v], k[v])) \in 0..SCORE_CAP
      BY <3>2, ScoreType
    <3> QED
      BY <1>0, <3>1, <3>2, <3>3, MaxEventsAssumption
  <2> QED
    BY <2>1, <2>2 DEF ScoreTypeOK, Events
<1>5. CASE UNCHANGED <<scored_events, threat_score>>
  BY <1>5 DEF ScoreTypeOK
<1> QED
  BY <1>1, <1>2, <1>3, <1>4, <1>5
     DEF EngineNext, LocalStep, MainStep, ResponseStep, engineVars, PopBlock, BlockNetwork,
         BlocksDrained, PopIsolation, IsolateNetwork, RestoreSnapshot, RecordEnforcement,
         ManualIsolate, Failover, ResetFailover

(* Every variable of the engine keeps its type.                             *)
THEOREM TypeCorrect == EngineSpec => []TypeOK
<1>1. EngineInit => ScoreTypeOK
  <2> SUFFICES ASSUME EngineInit PROVE ScoreTypeOK
    OBVIOUS
  <2>1. <<>> \in Seq(EventTypes \cup {"agent_silence"}) /\ Len(<<>>) <= MaxEvents
    BY MaxEventsAssumption
  <2> QED
    BY <2>1 DEF EngineInit, ScoreTypeOK, SCORE_CAP
<1>2. ControlTypeOK /\ ScoreTypeOK => TypeOK
  BY DEF TypeOK
<1> QED
  BY <1>1, <1>2, ScoreTypeStep, ControlTypeCorrect, PTL DEF EngineSpec
-----------------------------------------------------------------------------
(* No alarm is lost (property NoLostAlarm).  The invariant is inductive     *)
(* together with the types.  A step can break it in three ways, and each is *)
(* answered by one fact: it could raise a score (only a batch and a sweep   *)
(* do, and both queue what they raise; expiry never does), take an entry    *)
(* from the queue (only the IR worker does, and leaves the VM isolated) or  *)
(* clear a decision (only the operator does, and clears the window too).    *)

(* Whatever order a set is queued in, every member of it is queued.         *)
LEMMA OrdersCover ==
    ASSUME NEW S \in SUBSET VM, NEW order \in Orders(S), NEW v \in S
    PROVE  \E i \in DOMAIN order : order[i] = v
<1>1. IsFiniteSet(S) /\ Cardinality(S) \in Nat
  BY VMAssumption, FS_Subset, FS_CardinalityType
<1>2. order \in [1..Cardinality(S) -> S] /\ \A i, j \in 1..Cardinality(S) : order[i] = order[j] => i = j
  BY DEF Orders
<1>3. order \in Injection(1..Cardinality(S), S)
  BY <1>2, Fun_IsInj
<1>4. Cardinality(1..Cardinality(S)) = Cardinality(S)
  BY <1>1, FS_Interval
<1> DEFINE D == 1..Cardinality(S)
<1>5. order \in Injection(D, S) /\ Cardinality(D) = Cardinality(S)
  BY <1>3, <1>4
<1> HIDE DEF D
<1>6. order \in Surjection(D, S)
  BY <1>1, <1>5, FS_Injection
<1>7. \E i \in D : order[i] = v
  BY <1>6, Fun_SurjectionProperties
<1> QED
  BY <1>2, <1>7 DEF D

LEMMA EntriesDomain ==
    ASSUME NEW q \in Seq(VM)
    PROVE  /\ \A i \in 1..Len(q) : q[i] \in Entries(q)
           /\ \A v \in Entries(q) : \E i \in 1..Len(q) : q[i] = v
<1>1. DOMAIN q = 1..Len(q)
  OBVIOUS
<1> QED
  BY <1>1 DEF Entries

(* Appending to a queue loses no entry of it. *)
LEMMA EntriesConcat ==
    ASSUME NEW q \in Seq(VM), NEW r \in Seq(VM)
    PROVE  Entries(q) \subseteq Entries(q \o r) /\ Entries(r) \subseteq Entries(q \o r)
<1>1. /\ q \o r \in Seq(VM) /\ Len(q \o r) = Len(q) + Len(r)
      /\ Len(q) \in Nat /\ Len(r) \in Nat
      /\ \A i \in 1..Len(q) + Len(r) : (q \o r)[i] = IF i <= Len(q) THEN q[i] ELSE r[i - Len(q)]
  BY ConcatProperties
<1>2. ASSUME NEW i \in 1..Len(q) PROVE q[i] \in Entries(q \o r)
  <2>1. i \in 1..Len(q \o r) /\ (q \o r)[i] = q[i]
    BY <1>1
  <2> QED
    BY <1>1, <2>1, EntriesDomain
<1>3. ASSUME NEW i \in 1..Len(r) PROVE r[i] \in Entries(q \o r)
  <2>1. Len(q) + i \in 1..Len(q \o r) /\ (q \o r)[Len(q) + i] = r[i]
    BY <1>1
  <2> QED
    BY <1>1, <2>1, EntriesDomain
<1> QED
  BY <1>2, <1>3, EntriesDomain

LEMMA EntriesAppend ==
    ASSUME NEW q \in Seq(VM), NEW v \in VM
    PROVE  Entries(q) \subseteq Entries(Append(q, v)) /\ v \in Entries(Append(q, v))
<1>1. <<v>> \in Seq(VM) /\ v \in Entries(<<v>>) /\ Append(q, v) = q \o <<v>>
  BY AppendIsConcat DEF Entries
<1> QED
  BY <1>1, EntriesConcat

(* What the IR worker takes is the head; the rest stays queued. *)
LEMMA EntriesTail ==
    ASSUME NEW q \in Seq(VM), q # <<>>
    PROVE  Entries(q) \subseteq Entries(Tail(q)) \cup {Head(q)}
<1>1. /\ Tail(q) \in Seq(VM) /\ Len(q) \in Nat \ {0} /\ Len(Tail(q)) = Len(q) - 1 /\ Head(q) = q[1]
      /\ \A i \in 1..Len(Tail(q)) : Tail(q)[i] = q[i + 1]
  BY HeadTailProperties, EmptySeq
<1>2. ASSUME NEW i \in 1..Len(q), i # 1 PROVE q[i] \in Entries(Tail(q))
  <2>1. i - 1 \in 1..Len(Tail(q)) /\ Tail(q)[i - 1] = q[i]
    BY <1>1, <1>2
  <2> QED
    BY <1>1, <2>1, EntriesDomain
<1>3. \A v \in Entries(q) : v \in Entries(Tail(q)) \/ v = Head(q)
  BY <1>1, <1>2, EntriesDomain
<1> QED
  BY <1>3

(* A step that raises no score, takes no entry and clears no decision. *)
LEMMA NoNewAlarm ==
    ASSUME NoLostAlarm,
           Entries(isolation_queue) \subseteq Entries(isolation_queue'),
           \A v \in VM : isolated[v] => isolated'[v],
           \A v \in VM : Score(scored_events'[v]) >= ISOLATION_THRESHOLD =>
                            Score(scored_events[v]) >= ISOLATION_THRESHOLD
    PROVE  NoLostAlarm'
BY DEF NoLostAlarm

LEMMA NoLostAlarmStep ==
    TypeOK /\ NoLostAlarm /\ [EngineNext]_engineVars => NoLostAlarm'
<1> SUFFICES ASSUME TypeOK, NoLostAlarm, [EngineNext]_engineVars
             PROVE  NoLostAlarm'
  OBVIOUS
<1> USE ThreadFacts DEF vmVars, queueVars, historyVars
<1>0. /\ scored_events \in [VM -> Seq(Events)]
      /\ isolation_queue \in Seq(VM)
      /\ isolated \in [VM -> BOOLEAN]
      /\ subject \in [Thread -> VM \cup {NoVM}]
  BY DEF TypeOK, ScoreTypeOK, ControlTypeOK, Events
<1>1. ASSUME NEW v \in VM, NEW b \in Batches, ProcessBatch(v, b)
      PROVE  NoLostAlarm'
  <2>1. PICK window :
          LET score == Score(window) IN
          /\ scored_events' = [scored_events EXCEPT ![v] = window]
          /\ isolation_queue' = IF NeedsResponse(v, score) THEN Append(isolation_queue, v)
                                ELSE isolation_queue
          /\ isolated' = isolated
    BY <1>1 DEF ProcessBatch
  <2>2. Entries(isolation_queue) \subseteq Entries(isolation_queue')
    BY <1>0, <2>1, EntriesAppend
  <2>3. Score(window) >= ISOLATION_THRESHOLD /\ ~isolated[v] => v \in Entries(isolation_queue')
    BY <1>0, <2>1, EntriesAppend DEF NeedsResponse
  <2> QED
    BY <1>0, <2>1, <2>2, <2>3 DEF NoLostAlarm
<1>2. CASE PopIsolation
  <2>1. /\ scored_events' = scored_events /\ isolation_queue # <<>>
        /\ isolation_queue' = Tail(isolation_queue)
    BY <1>2 DEF PopIsolation
  <2>2. Head(isolation_queue) \in VM
    BY <1>0, <2>1
  <2>3. isolated'[Head(isolation_queue)] /\ \A v \in VM : isolated[v] => isolated'[v]
    BY <1>0, <1>2, <2>2 DEF PopIsolation, Decide
  <2>4. Entries(isolation_queue) \subseteq Entries(isolation_queue') \cup {Head(isolation_queue)}
    BY <1>0, <2>1, EntriesTail
  <2> QED
    BY <2>1, <2>3, <2>4 DEF NoLostAlarm
<1>3. CASE Watchdog
  <2>1. isolated' = isolated
    BY <1>3 DEF Watchdog
  <2>2. CASE UNCHANGED <<silent, scored_events, threat_score, status, isolation_queue, alarmed>>
    BY <2>1, <2>2, NoNewAlarm
  <2>3. ASSUME NEW S \in SUBSET VM, WatchdogSweep(S)
        PROVE  NoLostAlarm'
    <3> DEFINE after(v, k) == Purge(Keep(Append(scored_events[v], "agent_silence")), k[v])
    <3>1. PICK k \in [S -> 0..(MaxEvents - 1)] :
            LET hot == {v \in S : NeedsResponse(v, Score(after(v, k)))} IN
            /\ scored_events' = [v \in VM |-> IF v \in S THEN after(v, k) ELSE scored_events[v]]
            /\ \E order \in Orders(hot) : isolation_queue' = isolation_queue \o order
      BY <2>3 DEF WatchdogSweep
    <3> DEFINE hot == {v \in S : NeedsResponse(v, Score(after(v, k)))}
    <3>2. PICK order \in Orders(hot) : isolation_queue' = isolation_queue \o order
      BY <3>1
    <3>3. \A v \in S : Score(after(v, k)) >= ISOLATION_THRESHOLD /\ ~isolated[v] => v \in hot
      BY DEF NeedsResponse
    <3> HIDE DEF after
    <3>4. hot \in SUBSET VM
      OBVIOUS
    <3> HIDE DEF hot
    <3>5. order \in Seq(VM)
      BY <3>4, OrdersType
    <3>6. hot \subseteq Entries(order)
      BY <3>4, OrdersCover DEF Entries
    <3>7. Entries(isolation_queue) \subseteq Entries(isolation_queue') /\ hot \subseteq Entries(isolation_queue')
      BY <1>0, <3>2, <3>5, <3>6, EntriesConcat
    <3>8. \A v \in VM : scored_events'[v] = IF v \in S THEN after(v, k) ELSE scored_events[v]
      BY <3>1
    <3> QED
      BY <2>1, <3>3, <3>7, <3>8 DEF NoLostAlarm
  <2> QED
    BY <1>3, <2>2, <2>3 DEF Watchdog
<1>4. ASSUME NEW t \in ApiThread, NEW v \in VM, AbortAndRestore(t, v)
      PROVE  NoLostAlarm'
  <2>1. /\ scored_events' = [scored_events EXCEPT ![v] = <<>>]
        /\ isolated' = [isolated EXCEPT ![v] = FALSE]
        /\ isolation_queue' = isolation_queue
    BY <1>4 DEF AbortAndRestore
  <2>2. <<>> \in Seq(Events)
    OBVIOUS
  <2>3. ~(Score(<<>>) >= ISOLATION_THRESHOLD)
    <3>1. Score(<<>>) = 0
      BY <2>2, ScoreType
    <3> QED
      BY <3>1 DEF ISOLATION_THRESHOLD
  <2>4. \A w \in VM : /\ scored_events'[w] = IF w = v THEN <<>> ELSE scored_events[w]
                      /\ isolated'[w] = IF w = v THEN FALSE ELSE isolated[w]
    BY <1>0, <2>1
  <2> QED
    BY <2>1, <2>3, <2>4 DEF NoLostAlarm
<1>5. CASE PollStatus
  <2>1. PICK k \in [VM -> 0..MaxEvents] :
          /\ \A v \in VM : k[v] <= Len(scored_events[v])
          /\ scored_events' = [v \in VM |-> Purge(scored_events[v], k[v])]
          /\ isolated' = isolated /\ isolation_queue' = isolation_queue
    BY <1>5 DEF PollStatus
  <2>2. ASSUME NEW v \in VM, Score(scored_events'[v]) >= ISOLATION_THRESHOLD
        PROVE  Score(scored_events[v]) >= ISOLATION_THRESHOLD
    <3>1. /\ scored_events[v] \in Seq(Events) /\ Len(scored_events[v]) \in Nat
          /\ k[v] \in 0..Len(scored_events[v])
      BY <1>0, <2>1
    <3>2. scored_events'[v] = Purge(scored_events[v], k[v]) /\ scored_events'[v] \in Seq(Events)
      BY <2>1, <3>1, PurgeType
    <3>3. Score(scored_events'[v]) <= Score(scored_events[v])
      BY <3>1, <3>2, PurgeLowersScore
    <3>4. Score(scored_events'[v]) \in 0..SCORE_CAP /\ Score(scored_events[v]) \in 0..SCORE_CAP
      BY <3>1, <3>2, ScoreType
    <3> QED
      BY <2>2, <3>3, <3>4 DEF ISOLATION_THRESHOLD, SCORE_CAP
  <2> QED
    BY <2>1, <2>2, NoNewAlarm
<1>6. ASSUME NEW t \in ApiThread, NEW v \in VM, ManualIsolate(t, v)
      PROVE  NoLostAlarm'
  <2>1. /\ UNCHANGED <<scored_events, isolation_queue>>
        /\ \A w \in VM : isolated[w] => isolated'[w]
    BY <1>0, <1>6 DEF ManualIsolate, Decide
  <2> QED
    BY <2>1, NoNewAlarm
<1>7. CASE UNCHANGED <<scored_events, isolation_queue, isolated>>
  BY <1>7, NoNewAlarm
<1> QED
  BY <1>1, <1>2, <1>3, <1>4, <1>5, <1>6, <1>7
     DEF EngineNext, LocalStep, MainStep, ResponseStep, engineVars, PopBlock, BlockNetwork,
         BlocksDrained, IsolateNetwork, RestoreSnapshot, RecordEnforcement, Failover, ResetFailover

(* Every VM over the threshold that is not isolated waits for the IR        *)
(* worker, for every stream of telemetry, every sweep, poll and abort.      *)
THEOREM NoAlarmLost == EngineSpec => []NoLostAlarm
<1>1. EngineInit => NoLostAlarm
  <2> SUFFICES ASSUME EngineInit, NEW v \in VM
               PROVE  ~(Score(scored_events[v]) >= ISOLATION_THRESHOLD)
    BY DEF NoLostAlarm
  <2>1. scored_events[v] = <<>> /\ <<>> \in Seq(Events)
    BY DEF EngineInit
  <2>2. Score(scored_events[v]) = 0
    BY <2>1, ScoreType
  <2> QED
    BY <2>2 DEF ISOLATION_THRESHOLD
<1> QED
  BY <1>1, NoLostAlarmStep, TypeCorrect, PTL DEF EngineSpec

-----------------------------------------------------------------------------
(***************************************************************************)
(* The composition of the engine and the failover orchestrator.            *)
(***************************************************************************)

LEMMA NextIsEngineNext == [Next]_controlVars => [EngineNext]_engineVars
<1> SUFFICES ASSUME [Next]_controlVars
             PROVE  [EngineNext]_engineVars
  OBVIOUS
<1>1. CASE LocalStep
  BY <1>1 DEF EngineNext
<1>2. ASSUME NEW t \in Thread, RespondedAndFailedOver(t) \/ AbortedAndReset(t)
      PROVE  EngineNext
  BY <1>2 DEF RespondedAndFailedOver, AbortedAndReset, EngineNext
<1>3. ASSUME NEW t \in CureThread, CureStep(t)
      PROVE  UNCHANGED engineVars
  BY <1>3 DEF CureStep
<1>4. CASE UNCHANGED controlVars
  BY <1>4 DEF controlVars
<1> QED
  BY <1>1, <1>2, <1>3, <1>4 DEF Next

(* Composed with the orchestrator, the engine is still the engine: every    *)
(* behaviour of the control plane is one of CorrelationEngine's.           *)
THEOREM EngineIsRefined == Spec => EngineSpec
<1>1. Init => EngineInit
  BY DEF Init
<1> QED
  BY <1>1, NextIsEngineNext, PTL DEF Spec, EngineSpec

(* A response is started by a decision and stopped by nobody: a responding  *)
(* thread holds a standing decision, or one the operator aborted, and the   *)
(* decision is never answered twice, also when cure threads run beside.    *)
THEOREM ComposedResponses == Spec => [](ControlTypeOK /\ ResponseInv)
BY EngineIsRefined, ControlTypeCorrect, ResponseInvHolds, PTL

-----------------------------------------------------------------------------
(* What the steps of the orchestrator do to the health of its nodes.       *)

HealthType == healthy \in [VM -> BOOLEAN]

LEMMA NodesAreVMs == FO!Node = VM
BY NodesAssumption DEF FO!Node

(* handle_compromise(n) marks n, and only n, unhealthy. *)
LEMMA CompromiseMarksNode ==
    ASSUME NEW n, FO!HandleCompromise(n)
    PROVE  healthy' = [healthy EXCEPT ![n] = FALSE]
BY DEF FO!HandleCompromise, FO!StandbyLost, FO!PromoteStandby, FO!PromoteFailed, FO!NoStandby

(* A cure thread and a reset mark no node unhealthy. *)
LEMMA OthersHeal ==
    ASSUME HealthType,
           (FO!ResetService \/ \E t \in CureThread : FO!CureStep(t)) \/ UNCHANGED healthy
    PROVE  HealthType' /\ \A v \in VM : healthy[v] => healthy'[v]
<1> USE DEF HealthType
<1>1. CASE FO!ResetService
  BY <1>1, NodesAreVMs DEF FO!ResetService
<1>2. ASSUME NEW t \in CureThread, FO!CureStep(t)
      PROVE  HealthType' /\ \A v \in VM : healthy[v] => healthy'[v]
  BY <1>2 DEF FO!CureStep, FO!CureValidate, FO!CureRejoin, FO!CureFailed
<1>3. CASE UNCHANGED healthy
  BY <1>3
<1> QED
  BY <1>1, <1>2, <1>3

(* Every step of the control plane is a failover at the end of a response,  *)
(* or it quarantines nobody.                                               *)
LEMMA StepsAndHealth ==
    ASSUME HealthType, [Next]_controlVars
    PROVE  /\ HealthType'
           /\ \/ \E t \in Thread : RespondedAndFailedOver(t)
              \/ \A v \in VM : healthy[v] => healthy'[v]
<1>1. ASSUME NEW t \in Thread, RespondedAndFailedOver(t)
      PROVE  HealthType'
  BY <1>1, CompromiseMarksNode DEF RespondedAndFailedOver, HealthType
<1>2. CASE \/ LocalStep /\ UNCHANGED serviceVars
           \/ \E t \in Thread : AbortedAndReset(t)
           \/ \E t \in CureThread : CureStep(t)
           \/ UNCHANGED controlVars
  <2>1. (FO!ResetService \/ \E t \in CureThread : FO!CureStep(t)) \/ UNCHANGED healthy
    BY <1>2 DEF AbortedAndReset, CureStep, serviceVars, controlVars
  <2> QED
    BY <2>1, OthersHeal
<1> QED
  BY <1>1, <1>2 DEF Next

-----------------------------------------------------------------------------
(* NoUndecidedFailover: the operator may abort at any time, and still no    *)
(* healthy node is quarantined but for a VM that is isolated or whose       *)
(* aborted response was past stopping.  It follows from what the engine     *)
(* knows of its responding threads at the step that ends a response.       *)
THEOREM DecidedFailover == Spec => NoUndecidedFailover
<1> DEFINE Decided == \A v \in VM : (healthy[v] /\ ~healthy'[v]) =>
                         isolated[v] \/ \E t \in revoked : subject[t] = v
<1>1. Init => HealthType
  BY NodesAreVMs DEF Init, FO!Init, HealthType
<1>2. HealthType /\ [Next]_controlVars => HealthType'
  BY StepsAndHealth
<1>3. ControlTypeOK /\ ResponseInv /\ HealthType /\ [Next]_controlVars => [Decided]_controlVars
  <2> SUFFICES ASSUME ControlTypeOK, ResponseInv, HealthType, [Next]_controlVars
               PROVE  Decided
    OBVIOUS
  <2>1. ASSUME NEW t \in Thread, RespondedAndFailedOver(t)
        PROVE  Decided
    <3>1. pc[t] \in Responding /\ subject[t] \in VM
      BY <2>1 DEF RespondedAndFailedOver, Failover, Responding, ControlTypeOK
    <3>2. isolated[subject[t]] \/ t \in revoked
      BY <3>1 DEF ResponseInv, StandingResponseIsolates
    <3>3. \A v \in VM : healthy[v] /\ ~healthy'[v] => v = subject[t]
      BY <2>1, CompromiseMarksNode DEF RespondedAndFailedOver, HealthType
    <3> QED
      BY <3>2, <3>3
  <2>2. CASE \A v \in VM : healthy[v] => healthy'[v]
    BY <2>2
  <2> QED
    BY <2>1, <2>2, StepsAndHealth
<1> QED
  BY <1>1, <1>2, <1>3, ComposedResponses, PTL DEF Spec, NoUndecidedFailover

-----------------------------------------------------------------------------
(* Which step of the orchestrator a step of the control plane is.          *)
LEMMA StepKinds ==
    ASSUME ControlTypeOK, [Next]_controlVars
    PROVE  \/ (LocalStep \/ UNCHANGED engineVars) /\ UNCHANGED serviceVars
           \/ \E t \in Thread : /\ Failover(t) /\ pc[t] \in Responding
                                /\ subject[t] \in VM /\ FO!HandleCompromise(subject[t])
           \/ \E t \in Thread : ResetFailover(t) /\ FO!ResetService
           \/ \E t \in CureThread : FO!CureStep(t) /\ UNCHANGED engineVars
<1>1. ASSUME NEW t \in Thread, RespondedAndFailedOver(t)
      PROVE  /\ Failover(t) /\ pc[t] \in Responding
             /\ subject[t] \in VM /\ FO!HandleCompromise(subject[t])
  BY <1>1 DEF RespondedAndFailedOver, Failover, Responding, ControlTypeOK
<1>2. ASSUME NEW t \in Thread, AbortedAndReset(t)
      PROVE  ResetFailover(t) /\ FO!ResetService
  BY <1>2 DEF AbortedAndReset
<1>3. ASSUME NEW t \in CureThread, CureStep(t)
      PROVE  FO!CureStep(t) /\ UNCHANGED engineVars
  BY <1>3 DEF CureStep
<1>4. CASE UNCHANGED controlVars
  BY <1>4 DEF controlVars
<1> QED
  BY <1>1, <1>2, <1>3, <1>4 DEF Next

LEMMA StartCureKeepsTypes ==
    ASSUME FO!TypeOK, NEW n \in VM, FO!StartCure(n)
    PROVE  /\ phase' \in [CureThread -> {"idle", "sleeping", "checking"}]
           /\ target' \in [CureThread -> VM \cup {FO!NoNode}]
           /\ \A t \in CureThread : phase'[t] = "idle" <=> target'[t] = FO!NoNode
<1>1. n # FO!NoNode
  BY NodesAssumption, VMAssumption DEF FO!NoNode
<1> QED
  BY <1>1, NodesAreVMs DEF FO!StartCure, FO!TypeOK

LEMMA CompromiseKeepsTypes ==
    ASSUME FO!TypeOK, NEW n \in VM, FO!HandleCompromise(n)
    PROVE  FO!TypeOK'
<1> USE NodesAreVMs DEF FO!NodeRole, FO!ServiceState
<1>1. CASE FO!StandbyLost(n)
  BY <1>1, StartCureKeepsTypes DEF FO!StandbyLost, FO!TypeOK
<1>2. ASSUME NEW s \in FO!Node, FO!PromoteStandby(n, s)
      PROVE  FO!TypeOK'
  BY <1>2, StartCureKeepsTypes DEF FO!PromoteStandby, FO!TypeOK
<1>3. ASSUME NEW s \in FO!Node, FO!PromoteFailed(n, s)
      PROVE  FO!TypeOK'
  BY <1>3 DEF FO!PromoteFailed, FO!TypeOK
<1>4. CASE FO!NoStandby(n)
  BY <1>4, StartCureKeepsTypes DEF FO!NoStandby, FO!TypeOK
<1> QED
  BY <1>1, <1>2, <1>3, <1>4 DEF FO!HandleCompromise

(* The orchestrator's variables keep their types in the composition.       *)
THEOREM ServiceTypeCorrect == Spec => []FO!TypeOK
<1>0. 1 \in VM
  BY NodesAssumption, VMAssumption, FS_CardinalityType
<1>1. Init => FO!TypeOK
  BY <1>0, NodesAreVMs DEF Init, FO!Init, FO!TypeOK, FO!RoleAtStart, FO!NodeRole, FO!ServiceState
<1>2. ControlTypeOK /\ FO!TypeOK /\ [Next]_controlVars => FO!TypeOK'
  <2> SUFFICES ASSUME ControlTypeOK, FO!TypeOK, [Next]_controlVars
               PROVE  FO!TypeOK'
    OBVIOUS
  <2>1. CASE UNCHANGED serviceVars
    BY <2>1 DEF serviceVars, FO!TypeOK
  <2>2. ASSUME NEW n \in VM, FO!HandleCompromise(n)
        PROVE  FO!TypeOK'
    BY <2>2, CompromiseKeepsTypes
  <2>3. CASE FO!ResetService
    BY <1>0, <2>3, NodesAreVMs DEF FO!ResetService, FO!TypeOK, FO!RoleAtStart, FO!NodeRole, FO!ServiceState
  <2>4. ASSUME NEW t \in CureThread, FO!CureStep(t)
        PROVE  FO!TypeOK'
    BY <2>4, NodesAreVMs DEF FO!CureStep, FO!CureValidate, FO!CureRejoin, FO!CureFailed, FO!EndCure,
                             FO!TypeOK, FO!NodeRole, FO!ServiceState
  <2> QED
    BY <2>1, <2>2, <2>3, <2>4, StepKinds
<1> QED
  BY <1>1, <1>2, ComposedResponses, PTL DEF Spec

-----------------------------------------------------------------------------
(* Without operator aborts a decision stands for ever, and so what engine   *)
(* and orchestrator know of a VM agrees.                                   *)
UndisturbedInv == revoked = {} /\ \A t \in Thread : pc[t] # "resetting"

(* A quarantined VM is isolated and its response is over; a cure runs only  *)
(* for a quarantined VM, and only one.                                     *)
QuarantineInv ==
    /\ \A v \in VM : ~healthy[v] => isolated[v] /\ ~UnderResponse(v)
    /\ \A t \in CureThread : target[t] # FO!NoNode => ~healthy[target[t]]
    /\ OneCurePerNode

(* A healthy node serves or stands by: none of them is forgotten when the   *)
(* service is declared down.                                               *)
PoolInv ==
    /\ \A v \in VM : role[v] = "ACTIVE" => v = active_node
    /\ \A v \in VM : healthy[v] => role[v] \in {"ACTIVE", "STANDBY"}
    /\ OutageOnlyIfAllIsolated
    /\ UpMeansServing

(* What a step of the engine does to decisions when nobody aborts: they     *)
(* stand, and a response begins only for a VM that was not isolated.       *)
LEMMA DecisionsStand ==
    ASSUME ~OperatorAborts, ControlTypeOK, UndisturbedInv, [EngineNext]_engineVars
    PROVE  /\ UndisturbedInv'
           /\ \A v \in VM : isolated[v] => isolated'[v]
           /\ \A t \in Thread : pc'[t] \in Responding =>
                 \/ pc[t] \in Responding /\ subject'[t] = subject[t]
                 \/ subject'[t] \in VM /\ ~isolated[subject'[t]]
<1> USE ThreadFacts DEF ControlTypeOK, UndisturbedInv, vmVars, queueVars, threadVars, historyVars
<1>1. ASSUME NEW t \in Thread, NEW v \in VM, ~isolated[v], Decide(t, v), revoked' = revoked
      PROVE  /\ UndisturbedInv'
             /\ \A w \in VM : isolated[w] => isolated'[w]
             /\ \A u \in Thread : pc'[u] \in Responding =>
                   \/ pc[u] \in Responding /\ subject'[u] = subject[u]
                   \/ subject'[u] \in VM /\ ~isolated[subject'[u]]
  BY <1>1 DEF Decide, Work
<1>2. ASSUME NEW v \in VM, NEW b \in Batches, ProcessBatch(v, b)
      PROVE  UNCHANGED <<isolated, revoked, pc, subject>>
  BY <1>2 DEF ProcessBatch
<1>3. CASE PopBlock \/ BlockNetwork \/ BlocksDrained \/ Watchdog
  BY <1>3 DEF PopBlock, BlockNetwork, BlocksDrained, Watchdog, Work, Responding
<1>4. CASE PopIsolation
  <2>1. CASE isolated[Head(isolation_queue)]
    BY <1>4, <2>1 DEF PopIsolation
  <2>2. CASE ~isolated[Head(isolation_queue)]
    <3>1. Head(isolation_queue) \in VM
      BY <1>4 DEF PopIsolation
    <3> QED
      BY <1>1, <1>4, <2>2, <3>1 DEF PopIsolation
  <2> QED
    BY <2>1, <2>2
<1>5. ASSUME NEW t \in Thread, ResponseStep(t)
      PROVE  /\ UNCHANGED <<isolated, revoked, subject>>
             /\ \A u \in Thread : pc'[u] = pc[u] \/ (pc[u] \in Responding /\ pc'[u] # "resetting")
  BY <1>5 DEF ResponseStep, IsolateNetwork, RestoreSnapshot, RecordEnforcement, Responding
<1>6. ASSUME NEW t \in ApiThread, NEW v \in VM, ManualIsolate(t, v)
      PROVE  t \in Thread /\ ~isolated[v] /\ Decide(t, v) /\ revoked' = revoked
  BY <1>6 DEF ManualIsolate
<1>7. ASSUME NEW t \in ApiThread, NEW v \in VM, AbortAndRestore(t, v)
      PROVE  FALSE
  BY <1>7 DEF AbortAndRestore
<1>8. CASE PollStatus
  BY <1>8 DEF PollStatus
<1>9. ASSUME NEW t \in Thread, Failover(t)
      PROVE  /\ isolated' = isolated /\ revoked' \subseteq revoked
             /\ \A u \in Thread : \/ pc'[u] = pc[u] /\ subject'[u] = subject[u]
                                  \/ pc'[u] \in {"isolations", "idle"}
  BY <1>9 DEF Failover, Work
<1>10. ASSUME NEW t \in Thread, ResetFailover(t)
       PROVE  FALSE
  BY <1>10 DEF ResetFailover
<1>11. CASE UNCHANGED engineVars
  BY <1>11 DEF engineVars
<1> DEFINE Goal == /\ UndisturbedInv'
                   /\ \A v \in VM : isolated[v] => isolated'[v]
                   /\ \A t \in Thread : pc'[t] \in Responding =>
                         \/ pc[t] \in Responding /\ subject'[t] = subject[t]
                         \/ subject'[t] \in VM /\ ~isolated[subject'[t]]
<1>12. ASSUME NEW v \in VM, NEW b \in Batches, ProcessBatch(v, b) PROVE Goal
  BY <1>2, <1>12
<1>13. ASSUME NEW t \in Thread, ResponseStep(t) PROVE Goal
  BY <1>5, <1>13
<1>14. ASSUME NEW t \in ApiThread, NEW v \in VM, ManualIsolate(t, v) PROVE Goal
  BY <1>1, <1>6, <1>14
<1>15. ASSUME NEW t \in Thread, Failover(t) PROVE Goal
  BY <1>9, <1>15 DEF Responding
<1> QED
  BY <1>3, <1>4, <1>7, <1>8, <1>10, <1>11, <1>12, <1>13, <1>14, <1>15
     DEF EngineNext, LocalStep, MainStep

(* If the operator aborts nothing, no decision is ever withdrawn.           *)
THEOREM UndisturbedInvHolds ==
    ASSUME ~OperatorAborts
    PROVE  Spec => []UndisturbedInv
<1>1. Init => UndisturbedInv
  BY DEF Init, EngineInit, UndisturbedInv
<1>2. ControlTypeOK /\ UndisturbedInv /\ [Next]_controlVars => UndisturbedInv'
  BY DecisionsStand, NextIsEngineNext
<1> QED
  BY <1>1, <1>2, ComposedResponses, PTL DEF Spec

(* What handle_compromise(n) does to cures: it starts one for n at most, in *)
(* a thread that had no node.                                              *)
LEMMA CompromiseStartsOneCure ==
    ASSUME FO!TypeOK, NEW n \in VM, FO!HandleCompromise(n)
    PROVE  \/ target' = target
           \/ \E t \in CureThread : target[t] = FO!NoNode /\ target' = [target EXCEPT ![t] = n]
<1>1. ASSUME FO!StartCure(n)
      PROVE  \E t \in CureThread : target[t] = FO!NoNode /\ target' = [target EXCEPT ![t] = n]
  BY <1>1 DEF FO!StartCure, FO!TypeOK
<1> QED
  BY <1>1 DEF FO!HandleCompromise, FO!StandbyLost, FO!PromoteStandby, FO!PromoteFailed, FO!NoStandby

(* A cure thread gives up its node or keeps it, and heals no other.         *)
LEMMA CureHealsItsNode ==
    ASSUME FO!TypeOK, NEW t \in CureThread, FO!CureStep(t)
    PROVE  /\ target[t] \in VM
           /\ target' = target \/ target' = [target EXCEPT ![t] = FO!NoNode]
           /\ \/ healthy' = healthy
              \/ /\ healthy' = [healthy EXCEPT ![target[t]] = TRUE]
                 /\ target' = [target EXCEPT ![t] = FO!NoNode]
<1>1. phase[t] # "idle"
  BY DEF FO!CureStep, FO!CureValidate, FO!CureRejoin, FO!CureFailed
<1>2. target[t] \in VM
  BY <1>1, NodesAreVMs DEF FO!TypeOK
<1> QED
  BY <1>2 DEF FO!CureStep, FO!CureValidate, FO!CureRejoin, FO!CureFailed, FO!EndCure

(* Quarantine, isolation and cures agree in every reachable state.         *)
THEOREM QuarantineInvHolds ==
    ASSUME ~OperatorAborts
    PROVE  Spec => []QuarantineInv
<1>1. Init => QuarantineInv
  BY NodesAreVMs DEF Init, FO!Init, QuarantineInv, OneCurePerNode
<1>2. /\ ControlTypeOK /\ ResponseInv /\ UndisturbedInv /\ FO!TypeOK
      /\ QuarantineInv /\ [Next]_controlVars
      => QuarantineInv'
  <2> SUFFICES ASSUME ControlTypeOK, ResponseInv, UndisturbedInv, FO!TypeOK,
                      QuarantineInv, [Next]_controlVars
               PROVE  QuarantineInv'
    OBVIOUS
  <2>0. /\ \A v \in VM : isolated[v] => isolated'[v]
        /\ \A v \in VM : isolated[v] /\ ~UnderResponse(v) => ~UnderResponse(v)'
        /\ healthy \in [VM -> BOOLEAN] /\ target \in [CureThread -> VM \cup {FO!NoNode}]
        /\ FO!NoNode \notin VM
    <3>1. /\ \A v \in VM : isolated[v] => isolated'[v]
          /\ \A t \in Thread : pc'[t] \in Responding =>
                \/ pc[t] \in Responding /\ subject'[t] = subject[t]
                \/ subject'[t] \in VM /\ ~isolated[subject'[t]]
      BY DecisionsStand, NextIsEngineNext
    <3>2. ASSUME NEW v \in VM, isolated[v], ~UnderResponse(v), UnderResponse(v)'
          PROVE  FALSE
      <4>1. PICK t \in Thread : pc'[t] \in Responding /\ subject'[t] = v
        BY <3>2 DEF UnderResponse
      <4>2. ~(pc[t] \in Responding /\ subject[t] = v)
        BY <3>2 DEF UnderResponse
      <4> QED
        BY <3>1, <3>2, <4>1, <4>2
    <3>3. healthy \in [VM -> BOOLEAN] /\ target \in [CureThread -> VM \cup {FO!NoNode}]
      BY NodesAreVMs DEF FO!TypeOK
    <3>4. FO!NoNode \notin VM
      BY NodesAssumption, VMAssumption DEF FO!NoNode
    <3> QED
      BY <3>1, <3>2, <3>3, <3>4
  <2>1. CASE UNCHANGED serviceVars
    BY <2>0, <2>1 DEF QuarantineInv, OneCurePerNode, serviceVars
  <2>2. ASSUME NEW t \in Thread, Failover(t), pc[t] \in Responding, NEW n \in VM,
               n = subject[t], FO!HandleCompromise(n)
        PROVE  QuarantineInv'
    <3>1. isolated[n] /\ UnderResponse(n) /\ healthy[n]
      BY <2>0, <2>2 DEF ResponseInv, StandingResponseIsolates, UndisturbedInv, UnderResponse, QuarantineInv
    <3>2. healthy' = [healthy EXCEPT ![n] = FALSE]
      BY <2>2, CompromiseMarksNode
    <3>3. ~UnderResponse(n)'
      <4>1. \A u \in Thread : u # t => ~(pc[u] \in Responding /\ subject[u] = n)
        BY <2>2 DEF ResponseInv, OneResponsePerDecision, UndisturbedInv
      <4>2. /\ pc'[t] \notin Responding
            /\ \A u \in Thread : u # t => pc'[u] = pc[u] /\ subject'[u] = subject[u]
        BY <2>2 DEF Failover, Work, Responding, ControlTypeOK
      <4> QED
        BY <4>1, <4>2 DEF UnderResponse
    <3>4. \A v \in VM : ~healthy'[v] => isolated'[v] /\ ~UnderResponse(v)'
      BY <2>0, <3>1, <3>2, <3>3 DEF QuarantineInv
    <3>5. \A u \in CureThread : target[u] # n
      BY <2>0, <2>2, <3>1 DEF QuarantineInv
    <3>6. CASE target' = target
      BY <2>0, <3>2, <3>4, <3>5, <3>6 DEF QuarantineInv, OneCurePerNode
    <3>7. ASSUME NEW u \in CureThread, target[u] = FO!NoNode, target' = [target EXCEPT ![u] = n]
          PROVE  QuarantineInv'
      <4>1. \A w \in CureThread : w # u => target'[w] = target[w] /\ target'[w] # n
        BY <2>0, <3>5, <3>7
      <4>2. target'[u] = n /\ ~healthy'[n]
        BY <2>0, <2>2, <3>2, <3>7
      <4>3. \A w \in CureThread : target'[w] # FO!NoNode => ~healthy'[target'[w]]
        BY <2>0, <2>2, <3>2, <4>1, <4>2 DEF QuarantineInv
      <4>4. OneCurePerNode'
        BY <4>1, <4>2 DEF QuarantineInv, OneCurePerNode
      <4> QED
        BY <3>4, <4>3, <4>4 DEF QuarantineInv
    <3> QED
      BY <2>2, <3>6, <3>7, CompromiseStartsOneCure
  <2>3. CASE FO!ResetService
    BY <2>3 DEF FO!ResetService
  <2>4. ASSUME NEW t \in CureThread, FO!CureStep(t)
        PROVE  QuarantineInv'
    <3>1. \A v \in VM : ~healthy'[v] => ~healthy[v]
      BY <2>0, <2>4, CureHealsItsNode
    <3>2. \A v \in VM : ~healthy'[v] => isolated'[v] /\ ~UnderResponse(v)'
      BY <2>0, <3>1 DEF QuarantineInv
    <3>3. \A u \in CureThread : target'[u] # FO!NoNode => target'[u] = target[u] /\ ~healthy'[target'[u]]
      <4>1. CASE healthy' = healthy
        BY <2>0, <2>4, <4>1, CureHealsItsNode DEF QuarantineInv
      <4>2. CASE /\ healthy' = [healthy EXCEPT ![target[t]] = TRUE]
                 /\ target' = [target EXCEPT ![t] = FO!NoNode]
        BY <2>0, <2>4, <4>2, CureHealsItsNode DEF QuarantineInv, OneCurePerNode
      <4> QED
        BY <2>4, <4>1, <4>2, CureHealsItsNode
    <3>4. OneCurePerNode'
      BY <3>3 DEF QuarantineInv, OneCurePerNode
    <3> QED
      BY <3>2, <3>3, <3>4 DEF QuarantineInv
  <2> QED
    BY <2>1, <2>2, <2>3, <2>4, StepKinds
<1> QED
  BY <1>1, <1>2, ComposedResponses, UndisturbedInvHolds, ServiceTypeCorrect, PTL DEF Spec

(* Without operator aborts the orchestrator holds in quarantine only what   *)
(* the engine has decided to isolate (property QuarantinedIsIsolated).     *)
THEOREM QuarantineAgrees ==
    ASSUME ~OperatorAborts
    PROVE  Spec => []QuarantinedIsIsolated
<1>1. QuarantineInv => QuarantinedIsIsolated
  BY DEF QuarantineInv, QuarantinedIsIsolated
<1> QED
  BY <1>1, QuarantineInvHolds, PTL

(* ... and no node is ever cured by two threads (property OneCurePerNode).  *)
THEOREM SingleCure ==
    ASSUME ~OperatorAborts
    PROVE  Spec => []OneCurePerNode
<1>1. QuarantineInv => OneCurePerNode
  BY DEF QuarantineInv
<1> QED
  BY <1>1, QuarantineInvHolds, PTL

-----------------------------------------------------------------------------
(* What a compromise of an isolated node does to the pool of nodes, with a  *)
(* backend that promotes what it is asked to.                              *)
LEMMA CompromiseKeepsPool ==
    ASSUME PromoteOutcomes \subseteq {TRUE}, FO!TypeOK, QuarantineInv, PoolInv,
           NEW n \in VM, isolated[n], \A v \in VM : isolated[v] => isolated'[v],
           FO!HandleCompromise(n)
    PROVE  PoolInv'
<1> USE NodesAreVMs DEF PoolInv, OutageOnlyIfAllIsolated, UpMeansServing, FO!Serving, FO!TypeOK
<1>1. CASE FO!StandbyLost(n)
  BY <1>1 DEF FO!StandbyLost
<1>2. ASSUME NEW s \in VM, FO!PromoteStandby(n, s)
      PROVE  PoolInv'
  <2>1. s # n /\ role[s] = "STANDBY" /\ healthy[s] /\ n = active_node
    BY <1>2 DEF FO!PromoteStandby, FO!IsFirst, FO!HealthyStandbys
  <2>2. /\ role' = [role EXCEPT ![n] = "CURING", ![s] = "ACTIVE"]
        /\ healthy' = [healthy EXCEPT ![n] = FALSE]
        /\ active_node' = s /\ state' = "DEGRADED"
    BY <1>2 DEF FO!PromoteStandby
  <2> QED
    BY <2>1, <2>2
<1>3. ASSUME NEW s \in VM, FO!PromoteFailed(n, s)
      PROVE  FALSE
  BY <1>3 DEF FO!PromoteFailed
<1>4. CASE FO!NoStandby(n)
  <2>1. ASSUME NEW v \in VM, v # n
        PROVE  ~healthy[v]
    <3>1. role[v] # "STANDBY" \/ ~healthy[v]
      BY <1>4, <2>1 DEF FO!NoStandby, FO!HealthyStandbys
    <3>2. role[v] # "ACTIVE"
      BY <1>4, <2>1 DEF FO!NoStandby
    <3> QED
      BY <3>1, <3>2
  <2>2. \A v \in VM : isolated[v]
    BY <2>1 DEF QuarantineInv
  <2> QED
    BY <1>4, <2>2 DEF FO!NoStandby
<1> QED
  BY <1>1, <1>2, <1>3, <1>4 DEF FO!HandleCompromise

(* A cure takes no serving node away, and leaves no outage that it ended.   *)
LEMMA CureKeepsPool ==
    ASSUME FO!TypeOK, QuarantineInv, PoolInv, NEW t \in CureThread,
           FO!CureStep(t), UNCHANGED isolated
    PROVE  PoolInv'
<1> DEFINE n == target[t]
<1>1. n \in VM /\ ~healthy[n]
  <2>1. n \in VM
    BY CureHealsItsNode
  <2>2. n # FO!NoNode
    BY <2>1, NodesAssumption, VMAssumption DEF FO!NoNode
  <2> QED
    BY <2>1, <2>2 DEF QuarantineInv
<1> USE NodesAreVMs DEF PoolInv, OutageOnlyIfAllIsolated, UpMeansServing, FO!Serving, FO!TypeOK
<1>2. CASE FO!CureValidate(t)
  BY <1>1, <1>2 DEF FO!CureValidate
<1>3. CASE FO!CureRejoin(t)
  <2>1. /\ role' = [role EXCEPT ![n] = "STANDBY"]
        /\ healthy' = [healthy EXCEPT ![n] = TRUE]
        /\ state' \in {state, "RESTORED"}
        /\ active_node' = active_node
    BY <1>3 DEF FO!CureRejoin
  <2> QED
    BY <1>1, <2>1
<1>4. CASE FO!CureFailed(t)
  BY <1>1, <1>4 DEF FO!CureFailed
<1> QED
  BY <1>2, <1>3, <1>4 DEF FO!CureStep

(* The pool invariant holds when no promotion fails and nobody aborts.      *)
THEOREM PoolInvHolds ==
    ASSUME ~OperatorAborts, PromoteOutcomes \subseteq {TRUE}
    PROVE  Spec => []PoolInv
<1>1. Init => PoolInv
  <2>1. 1 \in VM
    BY NodesAssumption, VMAssumption, FS_CardinalityType
  <2> QED
    BY <2>1, NodesAreVMs DEF Init, FO!Init, FO!RoleAtStart, FO!Serving,
                             PoolInv, OutageOnlyIfAllIsolated, UpMeansServing
<1>2. /\ ControlTypeOK /\ ResponseInv /\ UndisturbedInv /\ FO!TypeOK
      /\ QuarantineInv /\ PoolInv /\ [Next]_controlVars
      => PoolInv'
  <2> SUFFICES ASSUME ControlTypeOK, ResponseInv, UndisturbedInv, FO!TypeOK,
                      QuarantineInv, PoolInv, [Next]_controlVars
               PROVE  PoolInv'
    OBVIOUS
  <2>0. \A v \in VM : isolated[v] => isolated'[v]
    BY DecisionsStand, NextIsEngineNext
  <2>1. CASE UNCHANGED serviceVars
    BY <2>0, <2>1 DEF PoolInv, OutageOnlyIfAllIsolated, UpMeansServing, FO!Serving, serviceVars
  <2>2. ASSUME NEW t \in Thread, pc[t] \in Responding, subject[t] \in VM,
               FO!HandleCompromise(subject[t])
        PROVE  PoolInv'
    <3>1. isolated[subject[t]]
      BY <2>2 DEF ResponseInv, StandingResponseIsolates, UndisturbedInv
    <3> QED
      BY <2>0, <2>2, <3>1, CompromiseKeepsPool
  <2>3. CASE FO!ResetService
    BY <2>3 DEF FO!ResetService
  <2>4. ASSUME NEW t \in CureThread, FO!CureStep(t), UNCHANGED engineVars
        PROVE  PoolInv'
    BY <2>4, CureKeepsPool DEF engineVars, vmVars
  <2> QED
    BY <2>1, <2>2, <2>3, <2>4, StepKinds
<1> QED
  BY <1>1, <1>2, ComposedResponses, UndisturbedInvHolds, ServiceTypeCorrect,
     QuarantineInvHolds, PTL DEF Spec

(* The service is declared down only when every VM of it has been isolated  *)
(* (property OutageOnlyIfAllIsolated).                                     *)
THEOREM HonestOutage ==
    ASSUME ~OperatorAborts, PromoteOutcomes \subseteq {TRUE}
    PROVE  Spec => []OutageOnlyIfAllIsolated
<1>1. PoolInv => OutageOnlyIfAllIsolated
  BY DEF PoolInv
<1> QED
  BY <1>1, PoolInvHolds, PTL

(* ... and one that is shown up runs on a healthy ACTIVE node (property     *)
(* UpMeansServing).                                                        *)
THEOREM UpIsServing ==
    ASSUME ~OperatorAborts, PromoteOutcomes \subseteq {TRUE}
    PROVE  Spec => []UpMeansServing
<1>1. PoolInv => UpMeansServing
  BY DEF PoolInv
<1> QED
  BY <1>1, PoolInvHolds, PTL
=============================================================================
