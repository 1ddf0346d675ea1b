---------------------------- MODULE SocDashboard ----------------------------
(***************************************************************************)
(* The master dashboard: a watcher thread claims, reads and appends the    *)
(* result files the tools write, HTTP handlers append what is posted, and  *)
(* the watcher recomputes the analytics every few passes.                  *)
(***************************************************************************)
EXTENDS Integers, SequencesExt

CONSTANTS OutFile,        \* paths of result files
          Content,        \* [parses |-> "findings" | "nothing" | "raises", items |-> sequence]
          DashItem,       \* [entity, tactic, severity, score, tool]: what is posted
          TacticOrder,    \* the tactics a campaign counts
          CampaignTactics, FindingCap, RefreshEvery,
          DashBound       \* bound: files written and posts

VARIABLES out_files,      \* path -> [content, whole]; whole: the tool has finished writing
          ingested_fps, dash_findings, tool_stats,
          watcher,        \* where the thread is, what it holds and has still to visit
          passes,
          published,      \* [entities, campaigns]
          handed,         \* history: [finding, from] in the order of their appending
          dash_inputs

dashVars == <<out_files, ingested_fps, dash_findings, tool_stats, watcher, passes, published,
              handed, dash_inputs>>
threadVars == <<ingested_fps, watcher, passes, published>>

Idle == [pc |-> "pick", held |-> <<>>, file |-> "none", visited |-> {}]
Total(items) == FoldLeft(LAMBDA n, f : n + f.score, 0, items)
Of(items, e) == SelectSeq(items, LAMBDA f : f.entity = e)
Kept(items) == SelectSeq(items, LAMBDA f : f.severity # "none")

Campaign(items, e) ==
  LET tactics == {t \in TacticOrder : \E i \in DOMAIN items : items[i].entity = e /\ items[i].tactic = t}
      n == Cardinality(tactics)
  IN [entity |-> e, tactics |-> tactics, final_score |-> (Total(Of(items, e)) * n) \div 2]

(* refresh_analytics: (1.0 + 0.5 * (n - 2)) times the score is half of n.  *)
Analytics(items) ==
  LET of == {items[i].entity : i \in DOMAIN items} IN
  [entities  |-> {[entity |-> e, score |-> Total(Of(items, e))] : e \in of},
   campaigns |-> {c \in {Campaign(items, e) : e \in of} : Cardinality(c.tactics) >= CampaignTactics}]

DashInit == /\ out_files = <<>> /\ ingested_fps = {} /\ dash_findings = <<>> /\ tool_stats = <<>>
            /\ watcher = Idle /\ passes = 0 /\ published = Analytics(<<>>)
            /\ handed = <<>> /\ dash_inputs = 0

-----------------------------------------------------------------------------
Input == dash_inputs < DashBound /\ dash_inputs' = dash_inputs + 1

StartWrite(f, c) == /\ Input
                    /\ out_files' = [g \in DOMAIN out_files \cup {f} |->
                                       IF g = f THEN [content |-> c, whole |-> FALSE] ELSE out_files[g]]
                    /\ UNCHANGED <<threadVars, dash_findings, tool_stats, handed>>

FinishWrite(f) == /\ f \in DOMAIN out_files /\ ~out_files[f].whole
                  /\ out_files' = [out_files EXCEPT ![f].whole = TRUE]
                  /\ UNCHANGED <<threadVars, dash_findings, tool_stats, handed, dash_inputs>>

Log(from, items) == handed' = handed \o [i \in DOMAIN items |-> [finding |-> items[i], from |-> from]]

(* Posted findings are counted for no tool, need no severity and are not   *)
(* cut at the cap.                                                         *)
ApiIngest(item) == /\ Input /\ dash_findings' = Append(dash_findings, item) /\ Log("api", <<item>>)
                   /\ UNCHANGED <<out_files, threadVars, tool_stats>>

(* A path is claimed before the file is read, and never given back.        *)
Claim(f) == /\ watcher.pc = "pick" /\ f \in DOMAIN out_files \ watcher.visited
            /\ watcher' = [watcher EXCEPT !.pc = IF f \in ingested_fps THEN "pick" ELSE "read",
                                          !.file = f, !.visited = @ \cup {f}]
            /\ ingested_fps' = ingested_fps \cup {f}
            /\ UNCHANGED <<out_files, dash_findings, tool_stats, passes, published, handed, dash_inputs>>

Read == /\ watcher.pc = "read"
        /\ LET f == out_files[watcher.file] IN
           watcher' = [watcher EXCEPT
             !.pc = IF ~f.whole THEN "pick" ELSE IF f.content.parses = "raises" THEN "dead" ELSE "append",
             !.held = IF f.whole THEN Kept(f.content.items) ELSE <<>>]
        /\ UNCHANGED <<out_files, ingested_fps, dash_findings, tool_stats, passes, published, handed,
                       dash_inputs>>

Bumped(stats, item) ==
  LET old == IF item.tool \in DOMAIN stats THEN stats[item.tool] ELSE [count |-> 0, critical |-> 0, high |-> 0]
      new == [count |-> old.count + 1,
              critical |-> old.critical + (IF item.severity = "critical" THEN 1 ELSE 0),
              high |-> old.high + (IF item.severity = "high" THEN 1 ELSE 0)]
  IN [t \in DOMAIN stats \cup {item.tool} |-> IF t = item.tool THEN new ELSE stats[t]]

(* Mutant of Capped: the oldest are kept.                                  *)
CappedOldest(items) == IF Len(items) > FindingCap THEN SubSeq(items, 1, FindingCap) ELSE items
Capped(items) == IF Len(items) > FindingCap THEN SubSeq(items, Len(items) - FindingCap + 1, Len(items))
                                            ELSE items

AppendHeld == /\ watcher.pc = "append"
              /\ dash_findings' = Capped(dash_findings \o watcher.held)
              /\ tool_stats' = FoldLeft(Bumped, tool_stats, watcher.held)
              /\ Log(watcher.file, watcher.held)
              /\ watcher' = [watcher EXCEPT !.pc = "pick", !.held = <<>>]
              /\ UNCHANGED <<out_files, ingested_fps, passes, published, dash_inputs>>

(* The end of a pass; every RefreshEvery passes a snapshot is taken ...    *)
EndPass == /\ watcher.pc = "pick" /\ DOMAIN out_files \subseteq watcher.visited
           /\ IF passes + 1 < RefreshEvery
              THEN watcher' = Idle /\ passes' = passes + 1
              ELSE watcher' = [Idle EXCEPT !.pc = "publish", !.held = dash_findings] /\ passes' = 0
           /\ UNCHANGED <<out_files, ingested_fps, dash_findings, tool_stats, published, handed, dash_inputs>>

(* ... and published once it is computed, whatever was appended meanwhile. *)
Publish == /\ watcher.pc = "publish" /\ published' = Analytics(watcher.held) /\ watcher' = Idle
           /\ UNCHANGED <<out_files, ingested_fps, dash_findings, tool_stats, passes, handed, dash_inputs>>

DashNext == \/ \E f \in OutFile, c \in Content : StartWrite(f, c)
            \/ \E f \in OutFile : FinishWrite(f) \/ Claim(f)
            \/ \E item \in DashItem : ApiIngest(item)
            \/ Read \/ AppendHeld \/ EndPass \/ Publish

-----------------------------------------------------------------------------
Findings(log) == [i \in DOMAIN log |-> log[i].finding]
Counted(t, severities) == Cardinality({i \in DOMAIN handed :
  handed[i].from # "api" /\ handed[i].finding.tool = t /\ handed[i].finding.severity \in severities})

(* What the dashboard shows is what it was given: its findings are the     *)
(* newest ones handed over, as many as the cap allows at least; a file's   *)
(* findings came once, whole and of one version; a tool's numbers count    *)
(* them; and a published campaign is that of findings which were there     *)
(* together.                                                               *)
DashboardShowsWhatCame ==
  /\ IsSuffix(dash_findings, Findings(handed))
  /\ Len(dash_findings) < Len(handed) => Len(dash_findings) >= FindingCap
  /\ \A f \in OutFile :
       LET came == Findings(SelectSeq(handed, LAMBDA h : h.from = f))
       IN came = <<>> \/ \E c \in Content : came = Kept(c.items)
  /\ \A t \in DOMAIN tool_stats :
       tool_stats[t] = [count |-> Counted(t, {"critical", "high", "medium", "low", "info"}),
                        critical |-> Counted(t, {"critical"}), high |-> Counted(t, {"high"})]
  /\ \A c \in published.campaigns : \E i, j \in DOMAIN handed :
       c = Campaign(SubSeq(Findings(handed), i, j), c.entity)
=============================================================================
