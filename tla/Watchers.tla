------------------------------ MODULE Watchers ------------------------------
(***************************************************************************)
(* The blue-team tools that watch a host: four that read what comes        *)
(* (packets, processes, artefacts) and six that hold the host against      *)
(* something stored. Each is on its own: they share no state but the files *)
(* they leave for one another. Toolbox adds the other tools and is run.    *)
(***************************************************************************)
EXTENDS Integers, Sequences, FiniteSets, TLC

(* The tools are checked for sample values of these, and what is proved of *)
(* them holds for all that fit the assumptions.                            *)
CONSTANTS
  IdsSource, IdsTarget, IdsInput, IdsWindow, ScanPorts, SweepHosts, BruteForce, BeaconSamples, IdsEvents, \* IdsEngine
  PktInput, PktFilter, ScanLevels, BeaconFull, BeaconKeep, PktClock, PktBound,  \* PacketInspector
  ScanPid, Image, MemoryBound, CoreDump,                                        \* MemoryForensics
  TlFile, TlLine, TlProcess, TlConnection, TlItem, TlWindow,
  YearLength, MetadataSlack, Backdated, TlNow, TlSources,                       \* TimelineBuilder
  Monitored, FileStates, FimBound,                                              \* FileIntegrity
  IocKey, BloomBits, SeenType, FeedType, FeedTag, BuiltIn, IocBound,            \* ThreatIntel
  Canary, Tolerance, ExfilWindow, DeceptionClock, DeceptionBound,               \* DeceptionEngine
  Address, Device, Silent, MapPort, Open, MapBound,                             \* NetworkMapper
  HuntPid, HuntProgram, HuntUser, Connection, LogFiles, AuthFiles, Topic, HuntLogs, HuntPlan,
  MaxLogLines, CommandBurst, LineBurst, HuntChanges,                            \* ThreatHunter
  Top, DirTree, FileName, WebName, FileKind, HuntedProc, HideoutSets, IocChanges    \* IocHunter

ASSUME StreamAssumption ==
  /\ IdsWindow \in Nat
  /\ \A ev \in IdsInput : ev.src \in IdsSource /\ ev.dst \in IdsTarget /\ ev.auth_fail \in BOOLEAN
(* Half of what a beacon is looked for in is kept, and something is.       *)
ASSUME BeaconAssumption ==
  BeaconFull \in Nat /\ BeaconKeep \in Nat /\ 0 < BeaconKeep /\ BeaconKeep < BeaconFull
(* The header of a dump names the version of the format, which is 1, in    *)
(* its eleventh word, and the table is in the first 4 GB of the file.      *)
ASSUME CoreAssumption ==
  \A dump \in CoreDump : /\ dump.words \in Seq(Nat) /\ Len(dump.words) >= 32 /\ dump.words[11] = 1
                         /\ dump.table_at[3] = 0
ASSUME TimelineAssumption ==
  /\ YearLength \in Nat /\ 0 < YearLength /\ Backdated \in Int /\ \A l \in TlLine : l.at \in Int
  /\ \A f \in TlFile : f.mtime \in Int /\ f.ctime \in Int
  /\ \A w \in TlWindow : w.since \in Int /\ w.until \in Int
ASSUME IntegrityAssumption == \A p \in DOMAIN Monitored : Monitored[p] \in Nat
ASSUME IndicatorAssumption ==
  /\ IsFiniteSet(IocKey) /\ BloomBits \in [IocKey -> SUBSET Nat] /\ DOMAIN SeenType = IocKey
  /\ DOMAIN BuiltIn \subseteq IocKey /\ \A k \in DOMAIN BuiltIn : BuiltIn[k].score \in Nat
ASSUME CanaryAssumption == Tolerance \in Nat
ASSUME DeviceAssumption == Device # {} /\ "free" \notin Device /\ "none" \notin Device
(* Process 1 has no parent; a plan names playbooks there are.              *)
Playbooks == {"CRED-01", "EXEC-01", "EXEC-03", "PERS-01", "DISC-01", "EVAD-01", "C2-01", "LMOV-01", "EXFIL-01"}
ReadFiles == {LogFiles[i] : i \in DOMAIN LogFiles} \cup {AuthFiles[i] : i \in DOMAIN AuthFiles}
ASSUME HuntAssumption ==
  /\ 0 \notin HuntPid /\ MaxLogLines \in Nat /\ Topic \subseteq STRING
  /\ LogFiles \in Seq(STRING) /\ AuthFiles \in Seq(STRING) /\ AuthFiles # <<>>
  /\ \A logs \in HuntLogs : /\ DOMAIN logs = ReadFiles
                            /\ \A f \in DOMAIN logs : logs[f].fresh \in BOOLEAN /\ logs[f].lines \in Seq(STRING)
  /\ \A plan \in HuntPlan : plan \in Seq(Playbooks)
(* The directories are a tree below the path of the hunt.                  *)
ASSUME TreeAssumption ==
  /\ IsFiniteSet(DOMAIN DirTree) /\ Top \in DOMAIN DirTree /\ DirTree[Top].parent \notin DOMAIN DirTree
  /\ \A d \in DOMAIN DirTree \ {Top} : DirTree[d].parent \in DOMAIN DirTree
  /\ \E depth \in [DOMAIN DirTree -> 0 .. Cardinality(DOMAIN DirTree)] :
       \A d \in DOMAIN DirTree \ {Top} : depth[DirTree[d].parent] < depth[d]
ASSUME FileAssumption == \A kind \in FileKind : kind.size \in {"empty", "small", "large", "huge"}
ASSUME HideoutAssumption ==
  \A hideouts \in HideoutSets : \A h \in hideouts : h.place \in {"cron", "preload", "units", "home", "root", "scratch"}

(* A behaviour belongs to the tool chosen at its start, and the slots hold *)
(* that tool's variables.                                                  *)
VARIABLES part, s1, s2, s3, s4, s5, s6, s7, s8, s9, s10

slots == <<part, s1, s2, s3, s4, s5, s6, s7, s8, s9, s10>>

-----------------------------------------------------------------------------
(***************************************************************************)
(* Instances of the tools that read what comes: events and packets of a    *)
(* network, the memory of processes and dumps, the artefacts of a host.    *)
(***************************************************************************)
Ids == INSTANCE IdsEngine WITH
  ids_now <- s1, ids_ports <- s2, ids_hosts <- s3, ids_auth_fail <- s4, ids_beacon <- s5, ids_mode <- s6,
  ids_findings <- s7, ids_log <- s8

Packets == INSTANCE PacketInspector WITH
  pkt_now <- s1, port_scan <- s2, beacon <- s3, pkt_reported <- s4, anomalies <- s5, flows <- s6, pkt_log <- s7

Memory == INSTANCE MemoryForensics WITH
  mem_procs <- s1, mem_owners <- s2, mem_reported <- s3, mem_findings <- s4, mem_steps <- s5, mem_scanned <- s6,
  Program <- Image

Timeline == INSTANCE TimelineBuilder WITH
  tl_window <- s1, tl_events <- s2, tl_given <- s3, tl_exported <- s4, tl_stage <- s5

(* The values of the run. The thresholds are two, so that a window fills,  *)
(* empties and fills again within the bounds.                              *)
IdsEvent(s, d, p, fail, bad) == [src |-> s, dst |-> d, port |-> p, auth_fail |-> fail, bad_ip |-> bad]
SampleIdsInput ==
  {IdsEvent(1, "a", "http", FALSE, FALSE), IdsEvent(1, "b", "c2", TRUE, FALSE),
   IdsEvent(1, "a", "none", TRUE, FALSE), IdsEvent(2, "a", "http", FALSE, TRUE)}

Sent(d, s, port, transport, syn, label, oversized) ==
  [src |-> s, dst |-> d, port |-> port, transport |-> transport, syn |-> syn, label |-> label, oversized |-> oversized]
SamplePktInput ==
  {Sent("d", "s", 80, "tcp", TRUE, "none", FALSE), Sent("d", "s", 81, "tcp", TRUE, "none", FALSE),
   Sent("d", "s", 53, "udp", FALSE, "random", FALSE), Sent("s", "d", 53, "udp", FALSE, "random", FALSE),
   Sent("d", "s", 0, "icmp", FALSE, "none", TRUE), Sent("d", "s", 0, "none", FALSE, "none", FALSE)}

Region(start, perms, name, holds) == [start |-> start, perms |-> perms, huge |-> FALSE, name |-> name, holds |-> holds]
SampleImage ==
  {{Region("p", {"r", "x"}, "heap", {"pe", "malware", "password"}),
    Region("q", {"r", "x"}, "scratch", {"elf", "known"})},
   {Region("p", {"r"}, "", {"elf", "malware", "url", "nops"})}}
SampleCoreDump ==
  {[words |-> <<17791, 17996, 258, 1, 0, 0, 0, 0, 4, 62, 1, 0, 0, 0, 0, 0,
                64, 0, 0, 0, 0, 0, 0, 0, 0, 0, 64, 56, 1, 0, 0, 0>>,
    table_at |-> <<64, 0, 0, 0>>, entry_size |-> <<56>>,
    segments |-> <<[load |-> TRUE, size |-> 9, holds |-> {"malware"}]>>]}

SampleTlFile ==
  {[mtime |-> 1, ctime |-> 9], [mtime |-> 7, ctime |-> 8], [mtime |-> 2, ctime |-> 2], [mtime |-> 8, ctime |-> 5]}
SampleTlLine ==
  {[at |-> -2, matches |-> <<"low">>], [at |-> 3, matches |-> <<"medium", "low">>],
   [at |-> 6, matches |-> <<"low">>], [at |-> 6, matches |-> <<>>]}
SampleTlProcess == {[started |-> 4, scratch |-> TRUE]}
SampleTlConnection ==
  {[status |-> "LISTEN", port |-> 80], [status |-> "ESTABLISHED", port |-> 8], [status |-> "CLOSED", port |-> 8]}
SampleTlItem ==
  {[at |-> 5, zone |-> "aware", severity |-> "high"], [at |-> 5, zone |-> "naive", severity |-> "high"],
   [at |-> 0, zone |-> "none", severity |-> "high"]}
SampleTlWindow ==
  {[since |-> 5, until |-> 20, zone |-> "aware", min |-> "low"],
   [since |-> 0, until |-> 20, zone |-> "aware", min |-> "critical"],
   [since |-> 5, until |-> 7, zone |-> "naive", min |-> "low"],
   [since |-> 0, until |-> 8, zone |-> "aware", min |-> "info"]}

-----------------------------------------------------------------------------
(***************************************************************************)
(* Instances of the tools that hold the host against something stored: a   *)
(* baseline of files, the canaries laid out, the devices known, lists of   *)
(* indicators and of bad hashes, the logs a run of hunts has read.         *)
(***************************************************************************)
Integrity == INSTANCE FileIntegrity WITH
  disk <- s1, fim_baseline <- s2, touched <- s3, fim_changes <- s4, Path <- Monitored, FileRecord <- FileStates

Indicators == INSTANCE ThreatIntel WITH
  index <- s1, bloom <- s2, stats <- s3, exported <- s4, told <- s5,
  Key <- IocKey, Positions <- BloomBits, DetectedType <- SeenType, IocType <- FeedType, Tag <- FeedTag, Demo <- BuiltIn

Canaries == INSTANCE DeceptionEngine WITH
  canary_disk <- s1, copies <- s2, canary_procs <- s3, deception_now <- s4, artifacts <- s5, manifest <- s6,
  exfil_seen <- s7, canary_told <- s8, touches <- s9, watch <- s10

Devices == INSTANCE NetworkMapper WITH
  net <- s1, map_baseline <- s2, swept <- s3, rogues <- s4, seen_net <- s5, map_steps <- s6, Port <- MapPort

Hunts == INSTANCE ThreatHunter WITH
  hunt_procs <- s1, hunt_conns <- s2, hunt_units <- s3, hunt_logs <- s4, hunt_root <- s5, log_cache <- s6,
  hunt_ids <- s7, hunt_results <- s8, hunt_changes <- s9, read_logs <- s10, Program <- HuntProgram

Ioc == INSTANCE IocHunter WITH
  ioc_files <- s1, ioc_dirs <- s2, ioc_paths <- s3, ioc_statted <- s4, ioc_pids <- s5, ioc_host <- s6, ioc_stage <- s7,
  ioc_hits <- s8, ioc_changes <- s9, ioc_stood <- s10

(* The values of the run.                                                  *)
FileState(content, mode, owner, link) == [content |-> content, mode |-> mode, owner |-> owner, link_target |-> link]
SampleMonitored == [shadow |-> 100, www |-> 55, home |-> 30]
SampleFileStates ==
  {FileState("x", {}, "root", "none"), FileState("y", {"suid"}, "root", "none"),
   FileState("x", {"suid"}, "u", "none"), FileState("unhashed", {}, "root", "none"),
   FileState("unhashed", {"ww"}, "root", "t"), FileState("unhashed", {"ww"}, "root", "s")}

SampleBloomBits == [ip |-> {1, 2}, name |-> {2, 3}, hash |-> {1, 3}]
SampleSeenType == [ip |-> "ip", name |-> "domain", hash |-> "md5"]
SampleBuiltIn == [ip |-> [ioc_type |-> "ip", score |-> 75, tags |-> {"bot"}]]

SampleCanary == [csv |-> "file", sh |-> "process", vpn |-> "dns"]
SampleOpen == [m1 |-> {22}, m2 |-> {}, m3 |-> {22}]

HuntLog(fresh, lines) == [fresh |-> fresh, lines |-> lines]
SampleProgram == {{"script", "shell", "discovery"}}
SampleConnection == {[public |-> TRUE, port |-> "smb", trusted |-> FALSE, writes |-> TRUE]}
SampleLogFiles == <<"auth.log">>
SampleAuthFiles == <<"auth.log", "auth.log.1">>
SampleHuntLogs ==
  {[f \in {"auth.log", "auth.log.1"} |-> IF f = "auth.log" THEN HuntLog(TRUE, <<"smb">>)
                                         ELSE HuntLog(FALSE, <<"cred">>)],
   [f \in {"auth.log", "auth.log.1"} |-> HuntLog(TRUE, <<>>)]}
SampleHuntPlan == {<<"EVAD-01", "CRED-01", "LMOV-01">>, <<"C2-01", "DISC-01">>}

SampleDirTree ==
  [d \in {"/", "/proc", "/tmp", "/tmp/.h"} |->
     [parent |-> IF d = "/tmp/.h" THEN "/tmp" ELSE IF d = "/" THEN "none" ELSE "/",
      hidden |-> d = "/tmp/.h", scratch |-> d = "/tmp"]]
SampleFileKind ==
  {[size |-> "small", marks |-> {"suid"}, content |-> "packed"], [size |-> "empty", marks |-> {}, content |-> "none"],
   [size |-> "small", marks |-> {}, content |-> "webshell"]}
SampleProc == 1 :> [marks |-> {"masked"}, regions |-> {[readable |-> TRUE, huge |-> FALSE, string |-> "at_start"]}]
SampleHideouts ==
  {{[place |-> "cron", name |-> "c", nested |-> FALSE, marks |-> {"download", "scratch"}],
    [place |-> "root", name |-> ".bashrc", nested |-> FALSE, marks |-> {"download"}],
    [place |-> "root", name |-> ".zshrc", nested |-> FALSE, marks |-> {"download"}]}}

-----------------------------------------------------------------------------
Blank == s7 = 0 /\ s8 = 0 /\ s9 = 0 /\ s10 = 0
blanks == <<s7, s8, s9, s10>>

Init ==
  \/ part = "ids" /\ Ids!IdsInit /\ s9 = 0 /\ s10 = 0
  \/ part = "packets" /\ Packets!PacketInit /\ s8 = 0 /\ s9 = 0 /\ s10 = 0
  \/ part = "memory" /\ Memory!MemoryInit /\ Blank
  \/ part = "timeline" /\ Timeline!TlInit /\ s6 = 0 /\ Blank
  \/ part = "integrity" /\ Integrity!FimInit /\ s5 = 0 /\ s6 = 0 /\ Blank
  \/ part = "indicators" /\ Indicators!IocInit /\ s6 = 0 /\ Blank
  \/ part = "canaries" /\ Canaries!DeceptionInit
  \/ part = "devices" /\ Devices!MapperInit /\ Blank
  \/ part = "hunts" /\ Hunts!HunterInit
  \/ part = "ioc" /\ Ioc!IocInit

Next ==
  \/ part = "ids" /\ Ids!IdsNext /\ UNCHANGED <<part, s9, s10>>
  \/ part = "packets" /\ Packets!PacketNext /\ UNCHANGED <<part, s8, s9, s10>>
  \/ part = "memory" /\ Memory!MemoryNext /\ UNCHANGED <<part, blanks>>
  \/ part = "timeline" /\ Timeline!TlNext /\ UNCHANGED <<part, s6, blanks>>
  \/ part = "integrity" /\ Integrity!FimNext /\ UNCHANGED <<part, s5, s6, blanks>>
  \/ part = "indicators" /\ Indicators!IocNext /\ UNCHANGED <<part, s6, blanks>>
  \/ part = "canaries" /\ Canaries!DeceptionNext /\ UNCHANGED part
  \/ part = "devices" /\ Devices!MapperNext /\ UNCHANGED <<part, blanks>>
  \/ part = "hunts" /\ Hunts!HunterNext /\ UNCHANGED part
  \/ part = "ioc" /\ Ioc!IocNext /\ UNCHANGED part

Spec == Init /\ [][Next]_slots

-----------------------------------------------------------------------------
(* What is reported of what came is what came holds, whatever was pruned,  *)
(* halved, overwritten or remembered as told on the way: the alarms of the *)
(* events, the anomalies and flows of the packets, the traces in the       *)
(* memory of processes, and the timeline of the artefacts.                 *)
AlarmsMatchTheStream ==
  /\ part = "ids" => Ids!IdsMatchesLog
  /\ part = "packets" => Packets!AnomaliesMatchPackets
  /\ part = "memory" => Memory!MemoryToldOnce
  /\ part = "timeline" => Timeline!TimelineTellsWhatHappened

(* Nothing that changed against what is stored goes unseen, and nothing is *)
(* told that did not happen: drift of files, touched canaries, strange     *)
(* devices, indicators that were added, lines and parents of a hunt, files *)
(* that match what is known to be bad.                                     *)
ComparedWithWhatIsStored ==
  /\ part = "integrity" => Integrity!VerdictCoversDrift
  /\ part = "indicators" => Indicators!IndicatorsAreKept
  /\ part = "canaries" => Canaries!CanariesTellTheTruth
  /\ part = "devices" => Devices!RoguesAreStrangers
  /\ part = "hunts" => Hunts!HuntsHoldTogether
  /\ part = "ioc" => Ioc!HuntMissesNothing

=============================================================================
