-------------------------- MODULE CorrelationEngine --------------------------
(***************************************************************************)
(* The correlation engine of the control center                            *)
(* (src/host_control_plane/control_center.py): scoring of telemetry, the   *)
(* instant-block and isolation queues, the IR worker, manual isolation,    *)
(* operator abort, the watchdog and the dashboard's status poll.           *)
(*                                                                         *)
(* The telemetry handlers, the dashboard's request threads and the main    *)
(* thread share one engine.  Every section that holds engine._lock is one  *)
(* action; the calls the code makes without the lock (the hypervisor, the  *)
(* host firewall, the failover orchestrator) are steps between which any   *)
(* other thread may run.                                                   *)
(*                                                                         *)
(* Time is abstracted: at a recalculation any prefix of the rolling window *)
(* may have expired, and at a sweep any agent may have been silent for     *)
(* longer than its grace period.                                           *)
(***************************************************************************)
EXTENDS Integers, Sequences, FiniteSets

CONSTANTS
    VM,               \* the virtual machines that report
    NoVM,             \* the subject of a thread that has none
    EventTypes,       \* BOUND: the event types the agents send
    MaxEvents,        \* MAX_EVENTS_PER_VM, the maxlen of scored_events
    BatchBound,       \* BOUND: events in one telemetry batch
    QueueBound,       \* BOUND: entries in a work queue
    ApiThread,        \* BOUND: dashboard request threads alive at one time
    IsolateOutcomes,  \* what the hypervisor's isolate_network may return
    BlockOutcomes,    \* whether an instant block cuts the network
    HostContainment,  \* "dry_run" (the default) or "live"
    OperatorAborts,   \* whether the operator uses ABORT & RESTORE
    AgentsGoSilent    \* whether an agent may miss its heartbeats

ASSUME MaxEventsAssumption == MaxEvents \in Nat \ {0}
ASSUME BoundsAssumption == BatchBound \in Nat /\ QueueBound \in Nat
ASSUME OutcomesAssumption ==
    IsolateOutcomes \subseteq BOOLEAN /\ BlockOutcomes \subseteq BOOLEAN
ASSUME VMAssumption == IsFiniteSet(VM) /\ NoVM \notin VM
ASSUME ThreadsAssumption == "main" \notin ApiThread
ASSUME ConfigAssumption ==
    /\ HostContainment \in {"dry_run", "live"}
    /\ OperatorAborts \in BOOLEAN
    /\ AgentsGoSilent \in BOOLEAN

-----------------------------------------------------------------------------
(* Scoring.                                                                *)

SCORE_WEIGHTS ==
    [crypto_spike |-> 50, entropy |-> 40, shadow |-> 40, process |-> 40,
     shell |-> 30, agent_silence |-> 25, velocity |-> 20, network |-> 15,
     heartbeat |-> 0, cred_dump |-> 50, driver_load |-> 45, cloud_exfil |-> 45,
     ransomware_esxi |-> 50, kerberoast |-> 35, rmm_tool |-> 30,
     powershell |-> 30, lolbin |-> 30, staging |-> 25, persistence |-> 25,
     mfa_fatigue |-> 25, cloud_auth |-> 20]

ISOLATION_THRESHOLD == 100
INSTANT_BLOCK_TYPES == {"crypto_spike", "cred_dump", "ransomware_esxi"}
WARNING_LEVEL == 50
SCORE_CAP == 200

(* _resolve_delta; an event is named for its weight, so "shell" and         *)
(* "kerberoast" stand for the process and cred_dump events with that reason.*)
ResolveDelta(e) == IF e \in DOMAIN SCORE_WEIGHTS THEN SCORE_WEIGHTS[e] ELSE 0

(* Mutant of Keep: the window is not bounded. *)
KeepAll(s) == s

(* deque(maxlen=MaxEvents): appending pushes the oldest entries out.        *)
Keep(s) == IF Len(s) > MaxEvents THEN SubSeq(s, Len(s) - MaxEvents + 1, Len(s)) ELSE s

(* purge_expired, k events having left the rolling window.                  *)
Purge(s, k) == SubSeq(s, k + 1, Len(s))

Score(s) ==
    LET total[i \in 0..Len(s)] == IF i = 0 THEN 0 ELSE total[i - 1] + ResolveDelta(s[i])
    IN  IF total[Len(s)] < SCORE_CAP THEN total[Len(s)] ELSE SCORE_CAP

StatusOf(score, iso, enforced) ==
    CASE iso /\ enforced -> "ISOLATED"
      [] iso /\ ~enforced -> "QUARANTINE_UNENFORCED"
      [] ~iso /\ score >= ISOLATION_THRESHOLD -> "CRITICAL"
      [] ~iso /\ score < ISOLATION_THRESHOLD /\ score >= WARNING_LEVEL -> "WARNING"
      [] OTHER -> "SECURE"

Status == {"SECURE", "WARNING", "CRITICAL", "ISOLATED", "QUARANTINE_UNENFORCED"}

-----------------------------------------------------------------------------
VARIABLES
    scored_events,       \* VMState.scored_events: the event types in the window
    threat_score,        \* VMState.threat_score, as last recalculated
    status,              \* VMState.status
    isolated,            \* VMState.isolated: the decision
    isolation_enforced,  \* VMState.isolation_enforced: the truth about it
    silent,              \* VMState.silent
    seen,                \* VMState.last_seen # 0
    block_queue,         \* _block_queue
    isolation_queue,     \* _isolation_queue
    pc,                  \* what each thread is doing
    subject,             \* the VM a thread is working on
    net_ok,              \* enforced (net_ok or host_ok) of the thread's response
    nic_cut,             \* hypervisor: the VMs whose network it has cut
    alarmed,             \* history: the score reached the threshold since the
                         \* operator's last abort
    revoked              \* history: the responding threads whose decision the
                         \* operator has aborted

vmVars == <<scored_events, threat_score, status, isolated, isolation_enforced, silent, seen>>
queueVars == <<block_queue, isolation_queue>>
threadVars == <<pc, subject, net_ok>>
historyVars == <<alarmed, revoked>>
engineVars == <<scored_events, threat_score, status, isolated, isolation_enforced, silent, seen,
                block_queue, isolation_queue, pc, subject, net_ok, nic_cut, alarmed, revoked>>

Thread == {"main"} \cup ApiThread

(* _trigger_isolation, step by step. *)
Responding == {"isolating", "restoring", "recording", "failover"}
PC == Responding \cup {"blocks", "blocking", "isolations", "idle", "resetting"}

EngineInit ==
    /\ scored_events = [v \in VM |-> <<>>]
    /\ threat_score = [v \in VM |-> 0]
    /\ status = [v \in VM |-> "SECURE"]
    /\ isolated = [v \in VM |-> FALSE]
    /\ isolation_enforced = [v \in VM |-> FALSE]
    /\ silent = [v \in VM |-> FALSE]
    /\ seen = [v \in VM |-> FALSE]
    /\ block_queue = <<>>
    /\ isolation_queue = <<>>
    /\ pc = [t \in Thread |-> IF t = "main" THEN "blocks" ELSE "idle"]
    /\ subject = [t \in Thread |-> NoVM]
    /\ net_ok = [t \in Thread |-> FALSE]
    /\ nic_cut = {}
    /\ alarmed = {}
    /\ revoked = {}

-----------------------------------------------------------------------------
(* Telemetry handler threads.                                              *)

Batches == UNION {[1..k -> EventTypes] : k \in 0..BatchBound}

InstantOf(v, b) ==
    LET instant == {i \in DOMAIN b : b[i] \in INSTANT_BLOCK_TYPES}
    IN  IF isolated[v] THEN <<>> ELSE [i \in 1..Cardinality(instant) |-> v]

(* Mutant of NeedsResponse: an off-by-one at the threshold. *)
ExceedsThreshold(v, score) == score > ISOLATION_THRESHOLD /\ ~isolated[v]

(* The test that puts a VM into the isolation queue. *)
NeedsResponse(v, score) == score >= ISOLATION_THRESHOLD /\ ~isolated[v]

(* process_batch under the lock.  A batch may be empty of scored events     *)
(* (heartbeats only).  The k oldest events of the window have expired.      *)
ProcessBatch(v, b) ==
    LET window == Keep(scored_events[v] \o b) IN
    \E k \in 0..(IF Len(b) < Len(window) THEN Len(window) - Len(b) ELSE 0) :
        LET score == Score(Purge(window, k))
            queued == NeedsResponse(v, score) IN
        /\ Len(block_queue) + Len(b) <= QueueBound
        /\ Len(isolation_queue) < QueueBound
        /\ seen' = [seen EXCEPT ![v] = TRUE]
        /\ silent' = [silent EXCEPT ![v] = FALSE]
        /\ scored_events' = [scored_events EXCEPT ![v] = Purge(window, k)]
        /\ block_queue' = block_queue \o InstantOf(v, b)
        /\ threat_score' = [threat_score EXCEPT ![v] = score]
        /\ status' = [status EXCEPT ![v] = StatusOf(score, isolated[v], isolation_enforced[v])]
        /\ isolation_queue' = IF queued THEN Append(isolation_queue, v) ELSE isolation_queue
        /\ alarmed' = IF queued THEN alarmed \cup {v} ELSE alarmed
        /\ UNCHANGED <<isolated, isolation_enforced, pc, subject, net_ok, nic_cut, revoked>>

-----------------------------------------------------------------------------
(* The main thread: drain_queues, then the watchdog, for ever.             *)

Work(t, where, v) ==
    /\ pc' = [pc EXCEPT ![t] = where]
    /\ subject' = [subject EXCEPT ![t] = v]

(* Mutant of PopBlock: the test of the VM is inverted. *)
PopBlockInverted ==
    /\ pc["main"] = "blocks"
    /\ block_queue # <<>>
    /\ block_queue' = Tail(block_queue)
    /\ IF isolated[Head(block_queue)]
       THEN Work("main", "blocking", Head(block_queue))
       ELSE UNCHANGED <<pc, subject>>
    /\ UNCHANGED <<vmVars, isolation_queue, net_ok, nic_cut, historyVars>>

(* _instant_block: the queue is popped and the VM looked at under the lock. *)
PopBlock ==
    /\ pc["main"] = "blocks"
    /\ block_queue # <<>>
    /\ block_queue' = Tail(block_queue)
    /\ IF isolated[Head(block_queue)]
       THEN UNCHANGED <<pc, subject>>
       ELSE Work("main", "blocking", Head(block_queue))
    /\ UNCHANGED <<vmVars, isolation_queue, net_ok, nic_cut, historyVars>>

(* ... the hypervisor's hard block, without the lock. *)
BlockNetwork ==
    /\ pc["main"] = "blocking"
    /\ \E ok \in BlockOutcomes :
          nic_cut' = IF ok THEN nic_cut \cup {subject["main"]} ELSE nic_cut
    /\ Work("main", "blocks", NoVM)
    /\ UNCHANGED <<vmVars, queueVars, net_ok, historyVars>>

BlocksDrained ==
    /\ pc["main"] = "blocks"
    /\ block_queue = <<>>
    /\ pc' = [pc EXCEPT !["main"] = "isolations"]
    /\ UNCHANGED <<vmVars, queueVars, subject, net_ok, nic_cut, historyVars>>

(* Mutant of Decide: the response starts and the decision is not recorded. *)
DecideUnrecorded(t, v) == Work(t, "isolating", v) /\ UNCHANGED isolated

(* The test-and-set that opens _trigger_isolation. *)
Decide(t, v) ==
    /\ isolated' = [isolated EXCEPT ![v] = TRUE]
    /\ Work(t, "isolating", v)

(* Mutant of PopIsolation: the VM is not looked at. *)
PopIsolationBlindly ==
    /\ pc["main"] = "isolations"
    /\ isolation_queue # <<>>
    /\ isolation_queue' = Tail(isolation_queue)
    /\ Decide("main", Head(isolation_queue))
    /\ UNCHANGED <<scored_events, threat_score, status, isolation_enforced, silent, seen,
                   block_queue, net_ok, nic_cut, historyVars>>

PopIsolation ==
    /\ pc["main"] = "isolations"
    /\ isolation_queue # <<>>
    /\ isolation_queue' = Tail(isolation_queue)
    /\ IF isolated[Head(isolation_queue)]
       THEN UNCHANGED <<isolated, pc, subject>>
       ELSE Decide("main", Head(isolation_queue))
    /\ UNCHANGED <<scored_events, threat_score, status, isolation_enforced, silent, seen,
                   block_queue, net_ok, nic_cut, historyVars>>

(* watchdog_sweep: the agents in S have exceeded their grace period.  The   *)
(* VMs it pushes over the threshold are queued in some order.               *)
Orders(S) == {s \in [1..Cardinality(S) -> S] : \A i, j \in DOMAIN s : s[i] = s[j] => i = j}

WatchdogSweep(S) ==
    /\ \A v \in S : seen[v] /\ ~isolated[v] /\ ~silent[v]
    /\ \E k \in [S -> 0..(MaxEvents - 1)] :
        LET window(v) == Keep(Append(scored_events[v], "agent_silence"))
            after(v) == Purge(window(v), k[v])
            hot == {v \in S : NeedsResponse(v, Score(after(v)))} IN
        /\ \A v \in S : k[v] < Len(window(v))
        /\ Len(isolation_queue) + Cardinality(hot) <= QueueBound
        /\ silent' = [v \in VM |-> silent[v] \/ v \in S]
        /\ scored_events' = [v \in VM |-> IF v \in S THEN after(v) ELSE scored_events[v]]
        /\ threat_score' = [v \in VM |-> IF v \in S THEN Score(after(v)) ELSE threat_score[v]]
        /\ status' = [v \in VM |-> IF v \in S THEN StatusOf(Score(after(v)), FALSE, FALSE) ELSE status[v]]
        /\ \E order \in Orders(hot) : isolation_queue' = isolation_queue \o order
        /\ alarmed' = alarmed \cup hot

(* The isolation queue is drained; the sweep is due every 5 seconds. *)
Watchdog ==
    /\ pc["main"] = "isolations"
    /\ isolation_queue = <<>>
    /\ pc' = [pc EXCEPT !["main"] = "blocks"]
    /\ \/ \E S \in SUBSET VM : AgentsGoSilent /\ S # {} /\ WatchdogSweep(S)
       \/ UNCHANGED <<silent, scored_events, threat_score, status, isolation_queue, alarmed>>
    /\ UNCHANGED <<isolated, isolation_enforced, seen, block_queue, subject, net_ok,
                   nic_cut, revoked>>

-----------------------------------------------------------------------------
(* _trigger_isolation after its test-and-set, in the main thread or in a    *)
(* thread started by manual_isolate.                                       *)

(* hypervisor.isolate_vm, first step of full_incident_response.  A live     *)
(* host firewall is called too: its commands may fail, and it counts as     *)
(* success (host_ok) whatever they return.                                 *)
HostOutcomes == IF HostContainment = "live" THEN BOOLEAN ELSE {FALSE}

IsolateNetwork(t) ==
    /\ pc[t] = "isolating"
    /\ \E ok \in IsolateOutcomes, applied \in HostOutcomes :
          /\ nic_cut' = IF ok \/ applied THEN nic_cut \cup {subject[t]} ELSE nic_cut
          /\ net_ok' = [net_ok EXCEPT ![t] = ok \/ HostContainment = "live"]
    /\ pc' = [pc EXCEPT ![t] = "restoring"]
    /\ UNCHANGED <<vmVars, queueVars, subject, historyVars>>

(* dump_memory, restore_snapshot and boot_headless: the VM is wiped, whether *)
(* or not the operator has aborted meanwhile.                              *)
RestoreSnapshot(t) ==
    /\ pc[t] = "restoring"
    /\ pc' = [pc EXCEPT ![t] = "recording"]
    /\ UNCHANGED <<vmVars, queueVars, subject, net_ok, nic_cut, historyVars>>

(* Mutant of RecordEnforcement: ISOLATED is shown whatever was enforced. *)
RecordHopefully(t) ==
    /\ pc[t] = "recording"
    /\ isolation_enforced' = [isolation_enforced EXCEPT ![subject[t]] = net_ok[t]]
    /\ status' = [status EXCEPT ![subject[t]] = "ISOLATED"]
    /\ pc' = [pc EXCEPT ![t] = "failover"]
    /\ UNCHANGED <<scored_events, threat_score, isolated, silent, seen, queueVars, subject,
                   net_ok, nic_cut, historyVars>>

(* The verdict on the enforcement, written under the lock; the decision is  *)
(* not looked at again.                                                    *)
RecordEnforcement(t) ==
    /\ pc[t] = "recording"
    /\ isolation_enforced' = [isolation_enforced EXCEPT ![subject[t]] = net_ok[t]]
    /\ status' = [status EXCEPT ![subject[t]] =
                    IF net_ok[t] THEN "ISOLATED" ELSE "QUARANTINE_UNENFORCED"]
    /\ pc' = [pc EXCEPT ![t] = "failover"]
    /\ UNCHANGED <<scored_events, threat_score, isolated, silent, seen, queueVars, subject,
                   net_ok, nic_cut, historyVars>>

(* failover.handle_compromise is called and the response ends. *)
Failover(t) ==
    /\ pc[t] = "failover"
    /\ Work(t, IF t = "main" THEN "isolations" ELSE "idle", NoVM)
    /\ net_ok' = [net_ok EXCEPT ![t] = FALSE]
    /\ revoked' = revoked \ {t}
    /\ UNCHANGED <<vmVars, queueVars, nic_cut, alarmed>>

-----------------------------------------------------------------------------
(* The dashboard's request threads.                                        *)

(* Mutant of ManualIsolate: an isolated VM is responded to again. *)
ManualIsolateAgain(t, v) ==
    /\ t \in ApiThread
    /\ pc[t] = "idle"
    /\ Decide(t, v)
    /\ UNCHANGED <<scored_events, threat_score, status, isolation_enforced, silent, seen,
                   queueVars, net_ok, nic_cut, historyVars>>

(* manual_isolate: the thread it starts does nothing if v is isolated. *)
ManualIsolate(t, v) ==
    /\ t \in ApiThread
    /\ pc[t] = "idle"
    /\ ~isolated[v]
    /\ Decide(t, v)
    /\ UNCHANGED <<scored_events, threat_score, status, isolation_enforced, silent, seen,
                   queueVars, net_ok, nic_cut, historyVars>>

(* Mutant of AbortAndRestore: the isolation queue is emptied. *)
AbortPurgesQueue(t, v) ==
    /\ OperatorAborts
    /\ t \in ApiThread
    /\ pc[t] = "idle"
    /\ Work(t, "resetting", v)
    /\ scored_events' = [scored_events EXCEPT ![v] = <<>>]
    /\ threat_score' = [threat_score EXCEPT ![v] = 0]
    /\ isolated' = [isolated EXCEPT ![v] = FALSE]
    /\ isolation_enforced' = [isolation_enforced EXCEPT ![v] = FALSE]
    /\ silent' = [silent EXCEPT ![v] = FALSE]
    /\ status' = [status EXCEPT ![v] = "SECURE"]
    /\ alarmed' = alarmed \ {v}
    /\ revoked' = revoked \cup {u \in Thread : pc[u] \in Responding /\ subject[u] = v}
    /\ isolation_queue' = <<>>
    /\ UNCHANGED <<seen, block_queue, net_ok, nic_cut>>

(* abort_and_restore, its section under the lock.  The queues are not       *)
(* purged and a running response is not stopped.                           *)
AbortAndRestore(t, v) ==
    /\ OperatorAborts
    /\ t \in ApiThread
    /\ pc[t] = "idle"
    /\ Work(t, "resetting", v)
    /\ scored_events' = [scored_events EXCEPT ![v] = <<>>]
    /\ threat_score' = [threat_score EXCEPT ![v] = 0]
    /\ isolated' = [isolated EXCEPT ![v] = FALSE]
    /\ isolation_enforced' = [isolation_enforced EXCEPT ![v] = FALSE]
    /\ silent' = [silent EXCEPT ![v] = FALSE]
    /\ status' = [status EXCEPT ![v] = "SECURE"]
    /\ alarmed' = alarmed \ {v}
    /\ revoked' = revoked \cup {u \in Thread : pc[u] \in Responding /\ subject[u] = v}
    /\ UNCHANGED <<seen, queueVars, net_ok, nic_cut>>

(* ... then failover.reset_service of the VM's service. *)
ResetFailover(t) ==
    /\ pc[t] = "resetting"
    /\ Work(t, "idle", NoVM)
    /\ UNCHANGED <<vmVars, queueVars, net_ok, nic_cut, historyVars>>

(* get_all_vm_states: every VM is purged and recalculated. *)
PollStatus ==
    \E k \in [VM -> 0..MaxEvents] :
        /\ \A v \in VM : k[v] <= Len(scored_events[v])
        /\ scored_events' = [v \in VM |-> Purge(scored_events[v], k[v])]
        /\ threat_score' = [v \in VM |-> Score(Purge(scored_events[v], k[v]))]
        /\ status' = [v \in VM |-> StatusOf(Score(Purge(scored_events[v], k[v])),
                                            isolated[v], isolation_enforced[v])]
        /\ UNCHANGED <<isolated, isolation_enforced, silent, seen, queueVars, threadVars,
                       nic_cut, historyVars>>

-----------------------------------------------------------------------------
(* The steps that do not call the failover orchestrator, and those that do. *)
MainStep == PopBlock \/ BlockNetwork \/ BlocksDrained \/ PopIsolation \/ Watchdog
ResponseStep(t) == IsolateNetwork(t) \/ RestoreSnapshot(t) \/ RecordEnforcement(t)

LocalStep ==
    \/ \E v \in VM, b \in Batches : ProcessBatch(v, b)
    \/ MainStep
    \/ \E t \in Thread : ResponseStep(t)
    \/ \E t \in ApiThread, v \in VM : ManualIsolate(t, v) \/ AbortAndRestore(t, v)
    \/ PollStatus

EngineNext == LocalStep \/ \E t \in Thread : Failover(t) \/ ResetFailover(t)

(* The main thread loops for ever and the calls a thread makes return: the  *)
(* hypervisor's commands run under a timeout.                              *)
EngineFairness ==
    /\ WF_engineVars(MainStep)
    /\ \A t \in Thread : WF_engineVars(ResponseStep(t) \/ Failover(t) \/ ResetFailover(t))

EngineSpec == EngineInit /\ [][EngineNext]_engineVars
EngineFairSpec == EngineSpec /\ EngineFairness
-----------------------------------------------------------------------------
(* Every variable has its type: the window never exceeds its maxlen, a      *)
(* thread has a subject exactly while it works on a VM, and an aborted      *)
(* decision is remembered only while its response runs.                    *)
ScoreTypeOK ==
    /\ scored_events \in [VM -> Seq(EventTypes \cup {"agent_silence"})]
    /\ \A v \in VM : Len(scored_events[v]) <= MaxEvents
    /\ threat_score \in [VM -> 0..SCORE_CAP]

ControlTypeOK ==
    /\ status \in [VM -> Status]
    /\ isolated \in [VM -> BOOLEAN]
    /\ isolation_enforced \in [VM -> BOOLEAN]
    /\ silent \in [VM -> BOOLEAN]
    /\ seen \in [VM -> BOOLEAN]
    /\ block_queue \in Seq(VM)
    /\ isolation_queue \in Seq(VM)
    /\ pc \in [Thread -> PC]
    /\ subject \in [Thread -> VM \cup {NoVM}]
    /\ net_ok \in [Thread -> BOOLEAN]
    /\ nic_cut \subseteq VM
    /\ alarmed \subseteq VM
    /\ revoked \subseteq {t \in Thread : pc[t] \in Responding}
    /\ \A t \in Thread : subject[t] \in VM <=> pc[t] \in Responding \cup {"blocking", "resetting"}

TypeOK == ScoreTypeOK /\ ControlTypeOK

Entries(q) == {q[i] : i \in DOMAIN q}

(* One decision, one response: the test-and-set of _trigger_isolation lets  *)
(* one thread respond to a decision, however the IR worker and the          *)
(* dashboard's threads race (control_center.py:362-367, 423-426).  Of two   *)
(* threads that respond to the same VM one belongs to a decision the        *)
(* operator has aborted.                                                   *)
OneResponsePerDecision ==
    \A t, u \in Thread :
        (t # u /\ pc[t] \in Responding /\ pc[u] \in Responding /\ subject[t] = subject[u])
        => t \in revoked \/ u \in revoked

(* The dashboard never claims a containment that didn't happen              *)
(* (README.md:134-141): a VM shown ISOLATED has had its network cut, under  *)
(* every interleaving of responses, polls and aborts (384-408, 163-164).    *)
IsolatedMeansCut == \A v \in VM : status[v] = "ISOLATED" => v \in nic_cut

(* No alarm is lost: a VM whose window reaches the threshold and that is    *)
(* not isolated waits in the isolation queue, although a poll may lower its *)
(* score, an abort clear its window and a stale entry isolate it            *)
(* (322-324, 332-334, 474-475).                                            *)
NoLostAlarm ==
    \A v \in VM :
        (Score(scored_events[v]) >= ISOLATION_THRESHOLD /\ ~isolated[v])
        => v \in Entries(isolation_queue)

(* Every VM that turns CRITICAL is isolated, provided the stream of instant *)
(* blocks ends: drain_queues looks at the isolation queue only when the     *)
(* block queue is empty (322-334).                                         *)
CriticalIsIsolated ==
    <>[](block_queue = <<>>) => \A v \in VM : status[v] = "CRITICAL" ~> isolated[v]

(* The kill-switch fires: a VM queued for an instant block has its network  *)
(* cut, or is isolated by a full response (287-288, 328-343).               *)
KillSwitchFires ==
    \A v \in VM : v \in Entries(block_queue) ~> (v \in nic_cut \/ isolated[v])

-----------------------------------------------------------------------------
(* What the repository says of the program and the code does not do.        *)

StartsAutoResponse == pc["main"] = "isolations" /\ pc'["main"] = "isolating"

(* dashboard.html:433: ABORT & RESTORE will "Reset threat score and mark    *)
(* SECURE"; README.md:258: reaching the threshold "triggers full response". *)
(* Here: a VM is isolated automatically only if its score has reached the   *)
(* threshold since the operator's last abort.                              *)
AutoIsolationIsAlarmed ==
    [][StartsAutoResponse => subject'["main"] \in alarmed]_engineVars
=============================================================================
