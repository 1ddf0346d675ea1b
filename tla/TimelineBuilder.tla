--------------------------- MODULE TimelineBuilder ---------------------------
(***************************************************************************)
(* One run of the timeline builder: events gathered from the artefacts of  *)
(* a host, put in order, filtered and exported. Times are those of the     *)
(* year of the run; a log line of an earlier year has a negative one.      *)
(***************************************************************************)
EXTENDS Integers, Sequences, FiniteSets

CONSTANTS TlFile,        \* files: [mtime, ctime]
          TlLine,        \* lines of logs: [at, matches], the severities of the patterns that match
          TlProcess,     \* processes: [started, scratch]: from a scratch directory or not
          TlConnection,  \* connections: [status, port]
          TlItem,        \* results of other tools: [at, zone: "aware"|"naive"|"none", severity]
          TlWindow,      \* the options: [since, until, zone, min]
          YearLength, MetadataSlack, Backdated, TlNow,
          TlSources      \* bound: sources of a run

VARIABLES tl_window, tl_events, tl_given, tl_exported, tl_stage

tlVars == <<tl_window, tl_events, tl_given, tl_exported, tl_stage>>

Rank == [info |-> 0, low |-> 1, medium |-> 2, high |-> 3, critical |-> 4]
Event(ts, source, severity, zone, of) ==
  [ts |-> ts, source |-> source, severity |-> severity, zone |-> zone, of |-> of]

TlInit == /\ tl_window \in TlWindow
          /\ tl_events = {} /\ tl_given = {} /\ tl_exported = {} /\ tl_stage = "collect"

-----------------------------------------------------------------------------
(* The file and log sources look at the start of the window themselves;    *)
(* a start without a time zone cannot be compared.                         *)
InWindow(ts) == ts >= tl_window.since

Apart(f) == IF f.ctime >= f.mtime THEN f.ctime - f.mtime ELSE f.mtime - f.ctime

(* Mutant of FileEvents: the two times of a file pass the window together. *)
FileEventsTogether(f) ==
  {e \in {Event(f.mtime, "modified", "info", "aware", f)} : InWindow(f.mtime)}
    \cup {e \in {Event(f.ctime, "changed", IF Apart(f) < Backdated THEN "low" ELSE "medium", "aware", f)} :
            Apart(f) > MetadataSlack /\ InWindow(f.mtime) /\ InWindow(f.ctime)}

FileEvents(f) ==
  {e \in {Event(f.mtime, "modified", "info", "aware", f)} : InWindow(f.mtime)}
    \cup {e \in {Event(f.ctime, "changed", IF Apart(f) < Backdated THEN "low" ELSE "medium", "aware", f)} :
            Apart(f) > MetadataSlack /\ InWindow(f.ctime)}

(* A line names no year and gets that of the run; the first pattern wins.  *)
Stamped(at) == at % YearLength
LineEvents(l) == {e \in {Event(Stamped(l.at), "log", l.matches[i], "aware", l) : i \in {1} \cap DOMAIN l.matches} :
                    InWindow(Stamped(l.at))}

ProcessEvents(p) == {Event(p.started, "process", IF p.scratch THEN "critical" ELSE "info", "aware", p)}

ConnectionEvents(c) ==
  {e \in {Event(TlNow, "network", IF c.port \in {80, 443} THEN IF c.status = "LISTEN" THEN "info" ELSE "low"
                                  ELSE "medium", "aware", c)} :
     c.status \in {"ESTABLISHED", "LISTEN"}}

(* A time that is none, or cannot be read, is that of the run.             *)
ItemEvents(i) == {Event(IF i.zone = "none" THEN TlNow ELSE i.at, "alert", i.severity,
                        IF i.zone = "naive" THEN "naive" ELSE "aware", i)}

AddSource(facts, events, compares) ==
  /\ tl_stage = "collect" /\ Cardinality(tl_given) < TlSources
  /\ tl_given' = tl_given \cup facts
  /\ IF compares /\ tl_window.zone = "naive"
     THEN tl_stage' = "raised" /\ UNCHANGED tl_events
     ELSE tl_events' = tl_events \cup events /\ UNCHANGED tl_stage
  /\ UNCHANGED <<tl_window, tl_exported>>

AddFile(f) == AddSource({<<"file", f>>}, FileEvents(f), TRUE)
AddLine(l) == AddSource({<<"line", l>>}, LineEvents(l), TRUE)
AddProcess(p) == AddSource({<<"process", p>>}, ProcessEvents(p), FALSE)
AddConnection(c) == AddSource({<<"connection", c>>}, ConnectionEvents(c), FALSE)
AddItem(i) == AddSource({<<"item", i>>}, ItemEvents(i), FALSE)

-----------------------------------------------------------------------------
Filtered == {e \in tl_events : /\ e.ts >= tl_window.since /\ e.ts <= tl_window.until
                               /\ Rank[e.severity] >= Rank[tl_window.min]}
Mixed(zones) == Cardinality({e.zone : e \in tl_events} \cup zones) > 1

(* sort, filter and the export, which takes an empty result for none given *)
(* and writes all events. Aware and naive times cannot be compared.        *)
Export == /\ tl_stage = "collect"
          /\ IF Mixed(IF tl_events = {} THEN {} ELSE {tl_window.zone})
             THEN tl_stage' = "raised" /\ UNCHANGED tl_exported
             ELSE /\ tl_stage' = "exported"
                  /\ tl_exported' = IF Filtered # {} THEN Filtered ELSE tl_events
          /\ UNCHANGED <<tl_window, tl_events, tl_given>>

TlNext == \/ \E f \in TlFile : AddFile(f)
          \/ \E l \in TlLine : AddLine(l)
          \/ \E p \in TlProcess : AddProcess(p)
          \/ \E c \in TlConnection : AddConnection(c)
          \/ \E i \in TlItem : AddItem(i)
          \/ Export

-----------------------------------------------------------------------------
Inside(ts) == tl_window.since <= ts /\ ts <= tl_window.until
Tells(f) == \E e \in tl_exported : e.source = "changed" /\ e.of = f

(* A backdated file is in the timeline whatever its pretended time, if its *)
(* change lies in the window asked for; events of lines of one year are in *)
(* the order the lines were written in; and an event outside the window is *)
(* exported only when none is inside.                                      *)
TimelineTellsWhatHappened ==
  tl_stage = "exported" =>
    /\ \A f \in {g \in TlFile : <<"file", g>> \in tl_given /\ Inside(g.ctime)} :
         Apart(f) >= Backdated /\ Apart(f) > MetadataSlack /\ tl_window.min \in {"info", "low", "medium"}
           => Tells(f)
    /\ \A e, g \in {h \in tl_exported : h.source = "log"} :
         e.of.at \div YearLength = g.of.at \div YearLength =>
           (e.ts < g.ts <=> e.of.at < g.of.at)
    /\ \A e \in tl_exported : Inside(e.ts) \/ ~\E g \in tl_events :
                                Inside(g.ts) /\ Rank[g.severity] >= Rank[tl_window.min]
=============================================================================
