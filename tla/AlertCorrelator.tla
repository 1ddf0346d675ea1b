-------------------------- MODULE AlertCorrelator --------------------------
(***************************************************************************)
(* The cross-tool correlator: the exports of the tools, told apart by the  *)
(* shape of their JSON, read by one adapter per tool into findings, folded *)
(* when they repeat, and put together into campaigns per entity.           *)
(***************************************************************************)
EXTENDS Integers, Sequences, FiniteSets, FiniteSetsExt, SequencesExt

CONSTANTS CorrExport,     \* exports [tool, item]; an item has kind, severity, technique,
                          \* score, entity and at (its time, or NoTime)
          NoTime,
          DedupWindow, CampaignWindow,
          CorrBound       \* bound: exports ingested

VARIABLES corr_now,
          findings,       \* _findings: [print, tactic, entity, at, score, hits]
          fp_index,       \* _fingerprint_index: print -> place of its latest finding
          corr_log        \* history: every finding an adapter returned, and when

corrVars == <<corr_now, findings, fp_index, corr_log>>

CorrInit == corr_now = 0 /\ findings = <<>> /\ fp_index = <<>> /\ corr_log = <<>>

TACTIC_ORDER == <<"Reconnaissance", "Resource Development", "Initial Access", "Execution",
  "Persistence", "Privilege Escalation", "Defense Evasion", "Credential Access", "Discovery",
  "Lateral Movement", "Collection", "Command and Control", "Exfiltration", "Impact">>

(* The techniques the adapters write themselves, and one of each stage     *)
(* that items bring along.                                                 *)
TECHNIQUE_TACTIC ==
  [T1595 |-> "Reconnaissance", T1190 |-> "Initial Access", T1059 |-> "Execution",
   T1110 |-> "Credential Access", T1021 |-> "Lateral Movement", T1071 |-> "Command and Control",
   T1565 |-> "Impact"]
Tactic(technique) == IF technique \in DOMAIN TECHNIQUE_TACTIC THEN TECHNIQUE_TACTIC[technique]
                     ELSE "Unknown"

-----------------------------------------------------------------------------
(* What the first item of an export of each tool holds of the keys that    *)
(* the signatures look for, in the order they are tried. A finding of the  *)
(* last three lists is known by its type.                                  *)
Signature ==
  <<<<"ganglion_alerts", "vms">>, <<"config_auditor", "checks">>, <<"threat_intel", "tier">>,
    <<"vuln_scanner", "open_ports">>, <<"packet_inspector", "anomalies">>,
    <<"yara_engine", "matched_strings">>, <<"network_mapper", "vendor">>,
    <<"file_integrity", "change_type">>, <<"ioc_hunter", "hunt_type">>,
    <<"lateral_movement_detector", "fanout">>, <<"dns_analyzer", "dns_tunnel">>,
    <<"credential_monitor", "password_spray">>, <<"log_analyzer", "rule_name">>>>
Keys(tool) == {Signature[i][2] : i \in {j \in DOMAIN Signature : Signature[j][1] = tool}}
              \cup (IF tool = "network_mapper" THEN {"open_ports"} ELSE {})

DetectAdapter(tool) ==
  LET fits == {i \in DOMAIN Signature : Signature[i][2] \in Keys(tool)}
  IN IF fits = {} THEN "none" ELSE Signature[Min(fits)][1]

BySeverity == [critical |-> 40, high |-> 30, medium |-> 15, low |-> 5, info |-> 5]

(* Items an adapter passes over. An item of another tool has none of the   *)
(* fields a vulnerability report is read for.                              *)
Skipped(tool, export) ==
  LET item == export.item
  IN \/ tool = "ganglion_alerts" /\ item.kind = "heartbeat"
     \/ tool = "config_auditor" /\ item.kind \notin {"FAIL", "WARN"}
     \/ tool = "vuln_scanner" /\ (\/ export.tool # tool
                                  \/ item.kind = "port" /\ item.severity \notin {"high", "critical"})

(* The technique of a finding: five adapters pass on the item's, two       *)
(* choose one, and four write none, so that their findings have no tactic. *)
(* (A network map never reaches its own adapter: see DetectAdapter.)       *)
Technique(tool, item) ==
  CASE tool \in {"log_analyzer", "yara_engine", "lateral_movement_detector", "dns_analyzer",
                 "credential_monitor"} -> item.technique
    [] tool = "packet_inspector" ->
         (CASE item.kind = "port_scan" -> "T1595"
            [] item.kind \in {"c2_beaconing", "dns_tunnel", "icmp_tunnel"} -> "T1071"
            [] OTHER -> "none")
    [] tool = "file_integrity" -> IF item.kind = "MODIFIED" THEN "T1565" ELSE "none"
    [] OTHER -> "none"

Score(tool, item) ==
  CASE tool \in {"packet_inspector", "yara_engine"} -> BySeverity[item.severity]
    [] tool \in {"threat_intel", "ioc_hunter", "file_integrity"} -> item.score \div 2
    [] tool = "vuln_scanner" -> IF item.kind = "port" THEN 20 ELSE 30
    [] OTHER -> item.score

(* The findings of an export: the adapter that its shape calls for.        *)
Adapted(export) ==
  LET tool == DetectAdapter(export.tool)
      item == export.item
  IN IF tool = "none" \/ Skipped(tool, export) THEN <<>>
     ELSE <<[print |-> <<tool, item.kind, item.entity>>, tactic |-> Tactic(Technique(tool, item)),
             entity |-> item.entity, at |-> item.at, score |-> Score(tool, item), hits |-> 1]>>

-----------------------------------------------------------------------------
(* ts_epoch: a finding without a readable time has that of the question.   *)
Epoch(f) == IF f.at = NoTime THEN corr_now ELSE f.at

(* Mutant of IsRepeat: any repeat is folded, however late.                 *)
IsRepeatEver(f) == f.print \in DOMAIN fp_index

IsRepeat(f) == /\ f.print \in DOMAIN fp_index
               /\ LET gap == Epoch(f) - Epoch(findings[fp_index[f.print]])
                  IN gap <= DedupWindow /\ -gap <= DedupWindow

Folded(f) == /\ findings' = [findings EXCEPT ![fp_index[f.print]].hits = @ + 1,
                                             ![fp_index[f.print]].at = f.at]
             /\ UNCHANGED fp_index
Added(f) == /\ findings' = Append(findings, f)
            /\ fp_index' = (f.print :> Len(findings) + 1) @@ fp_index

IngestFile(export) ==
  LET found == Adapted(export)
  IN /\ Len(corr_log) < CorrBound
     /\ \/ found = <<>> /\ UNCHANGED <<findings, fp_index>>
        \/ found # <<>> /\ IsRepeat(found[1]) /\ Folded(found[1])
        \/ found # <<>> /\ ~IsRepeat(found[1]) /\ Added(found[1])
     /\ corr_log' = corr_log \o [i \in DOMAIN found |-> [f |-> found[i], when |-> corr_now]]
     /\ UNCHANGED corr_now

CorrTick == /\ corr_now < CampaignWindow + 1 /\ corr_now' = corr_now + 1
            /\ UNCHANGED <<findings, fp_index, corr_log>>

CorrNext == CorrTick \/ \E export \in CorrExport : IngestFile(export)

-----------------------------------------------------------------------------
SumOf(set, F(_)) == FoldSet(LAMBDA i, sum : sum + F(i), 0, set)

(* The findings of an entity that count for a campaign: those with a       *)
(* tactic, within the window that ends with the latest of them.            *)
InWindow(entity) ==
  LET mine == {i \in DOMAIN findings : findings[i].entity = entity /\ findings[i].tactic # "Unknown"}
  IN {i \in mine : \A j \in mine : Epoch(findings[j]) - Epoch(findings[i]) <= CampaignWindow}

(* reconstruct_campaigns: the multiplier is 1 + (tactics - 2) / 2.         *)
Campaign(entity) ==
  LET window == InWindow(entity)
      tactics == {findings[i].tactic : i \in window}
      base == SumOf(window, LAMBDA i : findings[i].score * findings[i].hits)
  IN [tactics |-> tactics, base |-> base, final |-> (base * Cardinality(tactics)) \div 2]
Campaigns == {e \in {findings[i].entity : i \in DOMAIN findings} :
                Cardinality(Campaign(e).tactics) >= 3}

(* The log's entries of a fingerprint that start a finding of their own:   *)
(* the one before them is not within the window, at the time they came.    *)
Read(f, when) == IF f.at = NoTime THEN when ELSE f.at
Starts(print) ==
  LET mine == {k \in DOMAIN corr_log : corr_log[k].f.print = print}
      Apart(l, k) == LET gap == Read(corr_log[k].f, corr_log[k].when)
                                - Read(corr_log[l].f, corr_log[k].when)
                     IN gap > DedupWindow \/ -gap > DedupWindow
  IN {k \in mine : \A l \in mine : (l < k /\ \A n \in mine : n <= l \/ n >= k) => Apart(l, k)}

(* Nothing ingested is lost or counted twice: the hits are the findings    *)
(* the adapters returned, and a fingerprint has one entry for each time it *)
(* came when the one before it was out of the window. A campaign is made   *)
(* of what was ingested: each of its tactics was reported of that entity,  *)
(* within one window of the latest, and folding repeats adds none.         *)
CampaignsFromFindings ==
  /\ SumOf(DOMAIN findings, LAMBDA i : findings[i].hits) = Len(corr_log)
  /\ \A p \in {findings[i].print : i \in DOMAIN findings} :
       Cardinality({i \in DOMAIN findings : findings[i].print = p}) = Cardinality(Starts(p))
  /\ \A e \in Campaigns : \A ta \in Campaign(e).tactics :
       \E k \in DOMAIN corr_log :
         /\ corr_log[k].f.entity = e /\ corr_log[k].f.tactic = ta
         /\ \A i \in InWindow(e) : Epoch(findings[i]) - Epoch(corr_log[k].f) <= CampaignWindow
=============================================================================
