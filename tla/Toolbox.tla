------------------------------- MODULE Toolbox -------------------------------
(***************************************************************************)
(* The run of the blue-team tools: those of Watchers, and here those that  *)
(* judge a stream, evaluate what somebody wrote or gather what others      *)
(* report, as instances small enough that all of their behaviours are      *)
(* checked. Each tool is on its own: they share no state but the files     *)
(* they leave for one another. What is here needs a parser by descent, for *)
(* TLC alone; what is proved of the tools is proved of Watchers.           *)
(***************************************************************************)
EXTENDS Watchers

(* A tool of n variables has the first n slots, and the others are blank.  *)
Spare(n) ==
  /\ IF n < 2 THEN s2 = 0 ELSE TRUE
  /\ IF n < 3 THEN s3 = 0 ELSE TRUE
  /\ IF n < 4 THEN s4 = 0 ELSE TRUE
  /\ IF n < 5 THEN s5 = 0 ELSE TRUE
  /\ IF n < 6 THEN s6 = 0 ELSE TRUE
  /\ IF n < 7 THEN s7 = 0 ELSE TRUE
  /\ IF n < 8 THEN s8 = 0 ELSE TRUE
  /\ IF n < 9 THEN s9 = 0 ELSE TRUE
  /\ s10 = 0

Kept(n) ==
  /\ IF n < 2 THEN UNCHANGED s2 ELSE TRUE
  /\ IF n < 3 THEN UNCHANGED s3 ELSE TRUE
  /\ IF n < 4 THEN UNCHANGED s4 ELSE TRUE
  /\ IF n < 5 THEN UNCHANGED s5 ELSE TRUE
  /\ IF n < 6 THEN UNCHANGED s6 ELSE TRUE
  /\ IF n < 7 THEN UNCHANGED s7 ELSE TRUE
  /\ IF n < 8 THEN UNCHANGED s8 ELSE TRUE
  /\ IF n < 9 THEN UNCHANGED s9 ELSE TRUE
  /\ UNCHANGED s10

Starts(p, n) == part = p /\ Spare(n)
Of(p, n) == part = p /\ UNCHANGED part /\ Kept(n)

-----------------------------------------------------------------------------
(***************************************************************************)
(* Instances of the tools that judge a stream of answers of name servers   *)
(* or of logins. Thresholds are two or three, so that a window fills,      *)
(* empties and fills again within the bounds.                              *)
(***************************************************************************)
Answer(s, q, type, rcode, answers, ttl) ==
  [src |-> s, qname |-> q, qtype |-> type, rcode |-> rcode, answers |-> answers, ttl |-> ttl]

Dns == INSTANCE DnsAnalyzer WITH
  dns_now <- s1, flux_history <- s2, tunnel_history <- s3, nx_history <- s4, dns_reported <- s5,
  dns_findings <- s6, dns_log <- s7,
  DnsRecord <- {Answer("s", "q", "A", "NOERROR", {<<1, 1>>}, 1), Answer("r", "q", "A", "NOERROR", {<<2, 1>>}, 1),
                Answer("r", "q", "A", "NOERROR", {<<2, 1>>, <<1, 2>>}, 2),
                Answer("s", "long", "TXT", "NOERROR", {}, 1), Answer("s", "generated", "A", "NXDOMAIN", {}, 1),
                Answer("s", "lookalike", "A", "NXDOMAIN", {}, 1)},
  Generated <- {"generated"}, Lookalike <- {"lookalike"}, LongLabel <- {"long"},
  FluxWindow <- 2, FluxIps <- 2, FluxNets <- 2, FluxTtl <- 1, TunnelWindow <- 1, TunnelRate <- 3,
  NxWindow <- 1, NxRate <- 3, NxUnique <- 2, DnsBound <- 4

Tried(s, u, success) == [src |-> s, user |-> u, success |-> success]

LoggedIn(s, h, u) == [src |-> s, dst_host |-> h, user |-> u]

(* One of the two tools runs at a time, so they may share the slots.       *)
Logins == INSTANCE LoginMonitors WITH
  attempts <- s1, dump <- s2,
  Attempt <- {Tried("x", "u", FALSE), Tried("x", "v", FALSE), Tried("x", "w", FALSE), Tried("x", "u", TRUE),
              Tried("y", "v", FALSE)},
  SprayWindow <- 2, AccountThreshold <- 2,
  HashLine <- {[user |-> "u", hash |-> "md5"], [user |-> "v", hash |-> "md5"], [user |-> "v", hash |-> "locked"],
               [user |-> "v", hash |-> "argon2"]},
  Weakness <- [md5 |-> 80, argon2 |-> 0, locked |-> 0], CredBound <- 4, DumpBound <- 2,
  edges <- s1, kerberos_as_fail <- s2, baseline_edges <- s3,
  Login <- {LoggedIn("x", "h1", "u"), LoggedIn("x", "h2", "root"), LoggedIn("y", "h1", "u"), LoggedIn("y", "h2", "u")},
  Privileged <- {"root"}, Account <- {"u", "v", "root"}, LastSecond <- 3, FanoutThreshold <- 2, FaninThreshold <- 2,
  BurstWindow <- 1, AsrepThreshold <- 2, AsrepWindow <- 1, ChainWindow <- 1, LoginBound <- 3, AsBound <- 3

DetectorInit ==
  \/ Starts("dns", 7) /\ Dns!DnsInit
  \/ Starts("credentials", 2) /\ Logins!CredInit
  \/ Starts("lateral", 3) /\ Logins!LateralInit

DetectorNext ==
  \/ Of("dns", 7) /\ Dns!DnsNext
  \/ Of("credentials", 2) /\ Logins!CredNext
  \/ Of("lateral", 3) /\ Logins!LateralNext

-----------------------------------------------------------------------------
(***************************************************************************)
(* Instances of the tools that evaluate what somebody wrote: expressions,  *)
(* detection and scan rules, firewall policies, maps of techniques and of  *)
(* assets. Two or three rules, files or assets meet in each.               *)
(***************************************************************************)
Expressions == INSTANCE SafeEval WITH
  expression <- s1,
  Numeral <- ("0" :> 0) @@ ("2" :> 2),
  ExprToken <- {"0", "2", "True", "not", "and", "or", "(", ")", "-", "<", "%"}, ExprBound <- 4

Condition(kind, need, names, tokens) == [kind |-> kind, need |-> need, names |-> names, tokens |-> tokens]
FieldTest(field, mods, values) == [field |-> field, mods |-> mods, values |-> values]
SigmaFile(parses, detection, condition) ==
  [parses |-> parses, detection |-> detection, condition |-> condition,
   selections |-> [s1 |-> {{FieldTest("img", {}, {"sh", "ps"})}},
                   s2 |-> {{FieldTest("img", {"all"}, {"sh", "up"})}, {FieldTest("user", {}, {"x"})}},
                   f |-> {{FieldTest("user", {"exists"}, {"true"})}}]]

Sigma == INSTANCE SigmaEngine WITH
  sigma_rules <- s1, report <- s2, answer <- s3,
  SigmaDoc <- {SigmaFile(TRUE, "map", c) :
                 c \in {Condition("none", 0, {}, <<>>), Condition("all", 0, {"s1", "s2"}, <<>>),
                        Condition("all", 0, {}, <<>>), Condition("of", 1, {"s1", "s2"}, <<>>),
                        Condition("expr", 0, {}, <<"s1", "and", "not", "f">>),
                        Condition("expr", 0, {}, <<"1", "of", "s*", "and", "not", "f">>)}}
              \cup {SigmaFile(TRUE, "other", Condition("none", 0, {}, <<>>)),
                    SigmaFile(TRUE, "none", Condition("none", 0, {}, <<>>)),
                    SigmaFile(FALSE, "map", Condition("none", 0, {}, <<>>))},
  SigmaEvent <- {[img |-> {"sh"}], [img |-> {"sh", "up"}, user |-> {"root"}], [user |-> {"root"}]},
  SigmaBound <- 2

ScanRule(condition) == [strings |-> ("$s1" :> "text") @@ ("$s2" :> "cut"), condition |-> condition, severity |-> "high"]
ScanFile(n1, n2, size, skipped, readable) ==
  [hits |-> ("$s1" :> n1) @@ ("$s2" :> n2), size |-> size, skipped |-> skipped, readable |-> readable]

Yara == INSTANCE YaraEngine WITH
  yara_rules <- s1, yara_files <- s2, yara_matches <- s3, scanned <- s4, yara_writes <- s5,
  YaraRule <- {ScanRule(<<"any of ($s*)">>), ScanRule(<<"all of ($s*)", "and", "not", "any of ($s*)">>),
               ScanRule(<<"$s1", "and", "filesize", "<", "10MB">>), ScanRule(<<"$s2", "or", "$s1", "at", "0">>),
               ScanRule(<<"not", "$s2">>), ScanRule(<<"$s2">>)},
  OfTerm <- ("any of ($s*)" :> [quant |-> "any", need |-> 0, names |-> {"$s1", "$s2"}])
            @@ ("all of ($s*)" :> [quant |-> "all", need |-> 0, names |-> {"$s1", "$s2"}]),
  YaraNumeral <- ("10MB" :> 10) @@ ("1" :> 1) @@ ("10" :> 10) @@ ("20" :> 20),
  YaraFile <- {ScanFile(1, 0, "1", FALSE, TRUE), ScanFile(0, 2, "10", FALSE, TRUE), ScanFile(1, 1, "20", FALSE, TRUE),
               ScanFile(1, 1, "1", TRUE, TRUE), ScanFile(1, 1, "1", FALSE, FALSE)},
  YaraPath <- {"a", "b"}, MaxScanSize <- 10, YaraBound <- 2

PolicyRule(action, dir, src, port) ==
  [action |-> action, dir |-> dir, proto |-> {"tcp", "udp"}, src |-> src, dst |-> {"h"}, port |-> port]

Policies == INSTANCE PolicyEngines WITH
  rules <- s1, default_action <- s2, request <- s3,
  FwRule <- {PolicyRule("deny", "in", {"bad"}, {"p22", "p443", "none"}), PolicyRule("allow", "in", {"bad", "good"}, {"p443"}),
             PolicyRule("allow", "in", {"bad", "good"}, {"p22", "p443", "none"}),
             PolicyRule("deny", "out", {"bad", "good"}, {"p22", "p443", "none"})},
  Flow <- [dir : {"in", "out"}, proto : {"tcp"}, src_ip : {"bad", "good"}, dst_ip : {"h"},
           dst_port : {"p22", "p443", "none"}],
  RuleBound <- 3, HitBound <- 2

Maps == INSTANCE IncidentMaps WITH
  assets <- s1, edges <- s2, declared <- s3, Asset <- {1, 2, 3, 4}, GraphBound <- 3,
  observed <- s1,
  Tactics <- [phish |-> {"initial_access"}, script |-> {"execution"}, boot |-> {"persistence", "privilege_escalation"},
              buy |-> {"resource_development"}, encrypt |-> {"impact"}],
  Unknown <- {"x"}, ChainBound <- 4

RulebookInit ==
  \/ Starts("expressions", 1) /\ Expressions!ExprInit
  \/ Starts("sigma", 3) /\ Sigma!SigmaInit
  \/ Starts("yara", 5) /\ Yara!YaraInit
  \/ Starts("policies", 3) /\ Policies!PolicyInit
  \/ Starts("blast", 3) /\ Maps!GraphInit
  \/ Starts("chain", 1) /\ Maps!ChainInit

RulebookNext ==
  \/ Of("expressions", 1) /\ Expressions!ExprNext
  \/ Of("sigma", 3) /\ Sigma!SigmaNext
  \/ Of("yara", 5) /\ Yara!YaraNext
  \/ Of("policies", 3) /\ Policies!PolicyNext
  \/ Of("blast", 3) /\ Maps!GraphNext
  \/ Of("chain", 1) /\ Maps!ChainNext

-----------------------------------------------------------------------------
(* What was written is evaluated as its language says: an expression by    *)
(* its grammar, a rule by its condition over what the event or file holds, *)
(* a policy by its first rule that matches, a graph by its shortest paths, *)
(* and a chain by its observations in any order.                           *)
RulesMeanWhatTheySay ==
  /\ part = "expressions" => Expressions!ParserFollowsGrammar
  /\ part = "sigma" => Sigma!SigmaFiresAsWritten
  /\ part = "yara" => Yara!ScanMatchesConditions
  /\ part = "policies" => Policies!PolicyIsStable
  /\ part = "blast" => Maps!ShortestPaths /\ Maps!EdgesRaiseCriticality
  /\ part = "chain" => Maps!ChainFollowsObservations

-----------------------------------------------------------------------------
(***************************************************************************)
(* Instances of the tools that gather what others report: exports of the   *)
(* tools, artefacts of a host, lines of logs that are still being written, *)
(* files in the output directory, events to learn a baseline from.         *)
(***************************************************************************)
Exported(tool, kind, severity, technique, score, entity, at) ==
  [tool |-> tool, item |-> [kind |-> kind, severity |-> severity, technique |-> technique, score |-> score,
                            entity |-> entity, at |-> at]]

Correlator == INSTANCE AlertCorrelator WITH
  corr_now <- s1, findings <- s2, fp_index <- s3, corr_log <- s4,
  NoTime <- 99,
  CorrExport <- {Exported("packet_inspector", "port_scan", "medium", "none", 0, "h", 0),
                 Exported("packet_inspector", "port_scan", "medium", "none", 0, "h", 2),
                 Exported("dns_analyzer", "dns_tunnel", "high", "T1071", 20, "h", 1),
                 Exported("file_integrity", "MODIFIED", "high", "none", 40, "h", 99),
                 Exported("log_analyzer", "brute", "high", "T1110", 10, "g", 3),
                 Exported("config_auditor", "PASS", "high", "none", 10, "g", 3),
                 Exported("network_mapper", "rogue", "high", "none", 25, "h", 99)},
  DedupWindow <- 1, CampaignWindow <- 2, CorrBound <- 4

Logs == INSTANCE LogAnalyzer WITH
  log_files <- s1, tail_from <- s2, tail_pos <- s3, chunks <- s4, tail_told <- s5, log_findings <- s6,
  ip_hits <- s7, hits_of <- s8, log_steps <- s9,
  LogPath <- {"auth", "web"}, Followed <- "auth", Part <- {"failed", "from"},
  LogRule <- [brute |-> [parts |-> {"failed", "from"}, ip |-> TRUE], probe |-> [parts |-> {"from"}, ip |-> FALSE]],
  MaxLines <- 2, LogBound <- 4

Told(entity, tactic, severity, tool) ==
  [entity |-> entity, tactic |-> tactic, severity |-> severity, score |-> 3, tool |-> tool]

Dashboard == INSTANCE SocDashboard WITH
  out_files <- s1, ingested_fps <- s2, dash_findings <- s3, tool_stats <- s4, watcher <- s5, passes <- s6,
  published <- s7, handed <- s8, dash_inputs <- s9,
  OutFile <- {"f", "g"},
  Content <- {[parses |-> "findings", items |-> <<Told("h", "t1", "high", "ids"), Told("h", "t2", "none", "ids"),
                                                  Told("h", "t3", "low", "ids")>>],
              [parses |-> "nothing", items |-> <<>>], [parses |-> "raises", items |-> <<>>]},
  DashItem <- {Told("h", "t2", "none", "api")},
  TacticOrder <- {"t1", "t2", "t3"}, CampaignTactics <- 2, FindingCap <- 2, RefreshEvery <- 2, DashBound <- 3

Behaviour == INSTANCE BehavioralEngine WITH
  model <- s1, behave_findings <- s2, baseline <- s3, learned <- s4,
  Entity <- {"a", "b"}, Program <- {"p", "q"}, Command <- {"c", "d"}, Bytes <- {1, 9},
  MinSamples <- 2, MadMultiplier <- 1, VolumeHistory <- 2, MinGlobalUsers <- 2, MinTransitions <- 1, MinFromPrev <- 1,
  BehaveBound <- 3

CollectorInit ==
  \/ Starts("correlator", 4) /\ Correlator!CorrInit
  \/ Starts("logs", 9) /\ Logs!LogInit
  \/ Starts("dashboard", 9) /\ Dashboard!DashInit
  \/ Starts("behaviour", 4) /\ Behaviour!BehaveInit

CollectorNext ==
  \/ Of("correlator", 4) /\ Correlator!CorrNext
  \/ Of("logs", 9) /\ Logs!LogNext
  \/ Of("dashboard", 9) /\ Dashboard!DashNext
  \/ Of("behaviour", 4) /\ Behaviour!BehaveNext

-----------------------------------------------------------------------------
(* What a tool reports is what it was given, read again from the           *)
(* beginning, holds, whatever its windows, counters and sets of what was   *)
(* reported have dropped or kept: of answers and logins, what they do      *)
(* within a window; a campaign stands on findings that came in its window; *)
(* a log that is followed yields what its lines hold; the dashboard shows  *)
(* the latest of what it was handed; and a saved baseline is the events it *)
(* was learned from.                                                       *)
FindingsMatchTheStream ==
  /\ part = "dns" => Dns!FindingsMatchLog
  /\ part = "credentials" => Logins!SpraysStand
  /\ part = "lateral" => Logins!BurstsAreReal
  /\ part = "correlator" => Correlator!CampaignsFromFindings
  /\ part = "logs" => Logs!TailAgreesWithScan
  /\ part = "dashboard" => Dashboard!DashboardShowsWhatCame
  /\ part = "behaviour" => Behaviour!ModelMatchesEvents

-----------------------------------------------------------------------------
ToolboxInit == Init \/ DetectorInit \/ RulebookInit \/ CollectorInit
ToolboxNext == Next \/ DetectorNext \/ RulebookNext \/ CollectorNext
ToolboxSpec == ToolboxInit /\ [][ToolboxNext]_slots
=============================================================================
