-------------------------------- MODULE Parts --------------------------------
(***************************************************************************)
(* The run of the parts of the control center and of the agent that the    *)
(* composed modules leave out, each on its own: batches into windows,      *)
(* alerts and verdicts; the scorecard, fact by fact; the sensors; the ways *)
(* to contain a VM. A behaviour belongs to the part chosen at its start;   *)
(* the others rest in an initial state.                                    *)
(***************************************************************************)
EXTENDS Integers, Sequences, FiniteSets

CONSTANTS
  Vm, EventType, EventInput, DedupeWindow, TriageStatus, RollingWindow, MaxEventsPerVm, RecentEvents,
  MaxClock, BatchBound, AlertBound,                                 \* IncidentPipeline
  File, VelocityWindow, BaselineWindow, SpikeWindow, SpikeMinFiles, SpikeSigma, MaxFileClock, MaxWrites,
  Pid, Remote, MaxProcesses, MaxBeats,                              \* AgentSensors
  Caller, MaxCalls,                                                 \* HostContainment
  MaxResponses,                                                     \* HypervisorBackends
  Domain, LibvirtCalls                                              \* LibvirtBackend

(* What a sensor sees is finite, and a remote end is not the name of a     *)
(* finding.                                                                *)
ASSUME SeenAssumption == /\ IsFiniteSet(File) /\ IsFiniteSet(Pid) /\ IsFiniteSet(Remote)
                         /\ Remote \cap {"process", "shell", "shadow"} = {}
ASSUME EventAssumption == \A e \in EventInput : e.event_type \in EventType
ASSUME DedupeAssumption == DedupeWindow \in Nat \ {0} /\ MaxEventsPerVm \in Nat
ASSUME WindowAssumption == BaselineWindow \in Nat /\ SpikeWindow \in Nat /\ SpikeMinFiles \in Nat

VARIABLES
  part,
  clock, alerts, dedupe, window, silent, decision,
  fact,                                                             \* put to the scorecard
  now, mtime, encrypted, seen_mtimes, modification_times, alerted_files, events, writes, fired_at, spikes,
  procs, started, conns, alerted_pids, alerted_conns, agent_seq, reported,
  backend, dry_run, fw, todo, op, contained, calls, disturbed, overlapped, last,
  kind, nic, power, disk, pending, noticed, results, responses, held,
  lv_setup, lv_power, lv_nics, lv_golden, lv_todo, lv_actions, lv_calls, lv_touched, lv_isolated

Pipeline == INSTANCE IncidentPipeline
Scorecard == INSTANCE DecisionEngine
Sensors == INSTANCE AgentSensors
Host == INSTANCE HostContainment
Hypervisor == INSTANCE HypervisorBackends
Libvirt == INSTANCE LibvirtBackend

pipelineVars == <<clock, alerts, dedupe, window, silent, decision>>
fileVars == <<now, mtime, encrypted, seen_mtimes, modification_times, alerted_files,
              events, writes, fired_at, spikes>>
procVars == <<procs, started, conns, alerted_pids, alerted_conns, agent_seq, reported>>
hostVars == <<backend, dry_run, fw, todo, op, contained, calls, disturbed, overlapped, last>>
hyperVars == <<kind, nic, power, disk, pending, noticed, results, responses, held>>
lvVars == <<lv_setup, lv_power, lv_nics, lv_golden, lv_todo, lv_actions, lv_calls, lv_touched, lv_isolated>>

partVars == <<part, pipelineVars, fact, fileVars, procVars, hostVars, hyperVars, lvVars>>

-----------------------------------------------------------------------------
(* The events of the run: one that always raises an alert, one that just   *)
(* does, and a batch that cannot be read to its end.                       *)
Event(event_type, reason, severity) == [event_type |-> event_type, reason |-> reason, severity |-> severity]
SampleEvents == {Event("crypto_spike", "spike", "medium"), Event("network", "port", "low"),
                 Event("heartbeat", "malformed", "low")}

(* What a part may start from; the resting parts start alike.              *)
Choices ==
  /\ part \in {"pipeline", "scorecard", "files", "processes", "host", "hypervisor", "libvirt"}
  /\ IF part = "scorecard" THEN fact \in Scorecard!Fact
     ELSE fact = CHOOSE f \in Scorecard!Fact : TRUE
  /\ part # "host" => dry_run = FALSE /\ backend = "null"
  /\ part # "hypervisor" => kind = "vbox"
  /\ part # "libvirt" =>
       /\ lv_setup = [dry_run |-> TRUE, force |-> "none", module |-> FALSE, virsh |-> FALSE]
       /\ lv_power = [d \in Domain |-> FALSE] /\ lv_golden = [d \in Domain |-> FALSE]

Init == /\ Choices
        /\ Pipeline!PipelineInit /\ Sensors!FileInit /\ Sensors!ProcInit
        /\ Host!HostInit /\ Hypervisor!HyperInit /\ Libvirt!LibvirtInit

PipelineStep == /\ part = "pipeline" /\ Pipeline!PipelineNext
                /\ UNCHANGED <<part, fact, fileVars, procVars, hostVars, hyperVars, lvVars>>
FileStep == /\ part = "files" /\ Sensors!FileNext
            /\ UNCHANGED <<part, fact, pipelineVars, procVars, hostVars, hyperVars, lvVars>>
ProcStep == /\ part = "processes" /\ Sensors!ProcNext
            /\ UNCHANGED <<part, fact, pipelineVars, fileVars, hostVars, hyperVars, lvVars>>
HostStep == /\ part = "host" /\ Host!HostNext
            /\ UNCHANGED <<part, fact, pipelineVars, fileVars, procVars, hyperVars, lvVars>>
HyperStep == /\ part = "hypervisor" /\ Hypervisor!HyperNext
             /\ UNCHANGED <<part, fact, pipelineVars, fileVars, procVars, hostVars, lvVars>>
LibvirtStep == /\ part = "libvirt" /\ Libvirt!LibvirtNext
               /\ UNCHANGED <<part, fact, pipelineVars, fileVars, procVars, hostVars, hyperVars>>

Next == PipelineStep \/ FileStep \/ ProcStep \/ HostStep \/ HyperStep \/ LibvirtStep

Spec == Init /\ [][Next]_partVars

-----------------------------------------------------------------------------
(* Batches become alerts and verdicts without a gap: folding repeats loses *)
(* no event, the verdict shown agrees with the isolation the score queues, *)
(* and a graver fact never gets a weaker verdict.                          *)
AlertsAndVerdictsAgree ==
  /\ Pipeline!AlertCoversEvents /\ Pipeline!VerdictMatchesIsolation
  /\ Scorecard!NeverWeaker(fact)

(* A sensor says a thing once: no two spikes share a write, no process or  *)
(* connection is reported twice while it lives.                            *)
SensorsReportOnce == Sensors!SpikesAreDisjoint /\ Sensors!ReportedOnce

(* Containment is as told: after a call that met no other and no fault the *)
(* firewall is what it reported, the sessions of the agent survive, and a  *)
(* VM whose isolation was reported stays off the network until its disk is *)
(* restored; no domain is touched unasked.                                 *)
ContainmentIsAsTold ==
  /\ Host!ContainedAsTold /\ Host!SessionsSurvive
  /\ Hypervisor!InfectedStaysOffline
  /\ Libvirt!LibvirtDoesAsTold
=============================================================================
