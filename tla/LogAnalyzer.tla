---------------------------- MODULE LogAnalyzer ----------------------------
(***************************************************************************)
(* The log analyzer: rules over the lines of a file, for the files of a    *)
(* directory at once, or for a file that is followed while it is written.  *)
(***************************************************************************)
EXTENDS Naturals, SequencesExt

CONSTANTS LogPath,        \* log files
          Followed,       \* the one that is followed
          Part,           \* pieces of lines, as the processes that log write them
          LogRule,        \* rule -> [parts, ip]: what a line must contain, whether a source is named
          MaxLines,       \* lines of a file that are analysed (500,000)
          LogBound        \* bound: pieces written and analyses

VARIABLES log_files,      \* path -> sequence of pieces and ends of line ("nl")
          tail_from, tail_pos,   \* where following began, and how far it has read
          chunks,         \* what was read at once: [first, last] positions
          tail_told,      \* [line, rule] printed while following, by the line in the file
          log_findings,   \* findings of the last file analysed: [file, line, rule]
          ip_hits,        \* number of findings with a source, over all files analysed
          hits_of,        \* history: the findings of all analyses, in sequence
          log_steps

logVars == <<log_files, tail_from, tail_pos, chunks, tail_told, log_findings, ip_hits, hits_of, log_steps>>
tailVars == <<tail_from, tail_pos, chunks, tail_told>>
scanVars == <<log_findings, ip_hits, hits_of>>

LineOf(text, i) == 1 + Cardinality({j \in 1 .. (i - 1) : text[j] = "nl"})
Content(text, line) == {text[i] : i \in {j \in DOMAIN text : text[j] # "nl" /\ LineOf(text, j) = line}}

(* analyze_event: every rule is searched in the whole line; blank lines    *)
(* are no events.                                                          *)
Matches(parts) == {r \in DOMAIN LogRule : parts # {} /\ LogRule[r].parts \subseteq parts}

LogInit == /\ log_files \in [LogPath -> {<<>>, <<CHOOSE p \in Part : TRUE, "nl">>}]
           /\ tail_from = Len(log_files[Followed]) /\ tail_pos = tail_from
           /\ chunks = <<>> /\ tail_told = {}
           /\ log_findings = {} /\ ip_hits = 0 /\ hits_of = <<>> /\ log_steps = 0

Step == log_steps < LogBound /\ log_steps' = log_steps + 1

LogWrite(f, part) == /\ Step /\ log_files' = [log_files EXCEPT ![f] = Append(@, part)]
                     /\ UNCHANGED <<tailVars, scanVars>>

-----------------------------------------------------------------------------
FindingsOf(f) ==
  LET text == log_files[f]
      lines == {l \in {LineOf(text, i) : i \in DOMAIN text} : l <= MaxLines}
  IN UNION {{[file |-> f, line |-> l, rule |-> r] : r \in Matches(Content(text, l))} : l \in lines}

WithIp(found) == Cardinality({x \in found : LogRule[x.rule].ip})

(* analyze_file over a sequence of files: the findings are those of the    *)
(* last one, the hits add up.                                              *)
AnalyzeFiles(order) ==
  /\ log_findings' = FindingsOf(Last(order))
  /\ ip_hits' = FoldLeft(LAMBDA n, f : n + WithIp(FindingsOf(f)), ip_hits, order)
  /\ hits_of' = hits_of \o [i \in DOMAIN order |-> FindingsOf(order[i])]

Analyze(f) == Step /\ AnalyzeFiles(<<f>>) /\ UNCHANGED <<log_files, tailVars>>
AnalyzeDir(order) == Step /\ AnalyzeFiles(order) /\ UNCHANGED <<log_files, tailVars>>

(* readline returns what there is up to the end of line or of the file, so *)
(* that a line being written is searched in pieces.                        *)
ChunkEnd(text) ==
  LET ends == {i \in (tail_pos + 1) .. Len(text) : text[i] = "nl" \/ i = Len(text)}
  IN CHOOSE i \in ends : \A j \in ends : i <= j

(* Mutant of Seen: a piece is searched together with the next line.        *)
SeenBeyond(text, first, last) == {text[i] : i \in first .. Len(text)} \ {"nl"}
Seen(text, first, last) == {text[i] : i \in first .. last} \ {"nl"}

TailRead ==
  LET text == log_files[Followed]
      last == ChunkEnd(text)
      found == Matches(Seen(text, tail_pos + 1, last))
  IN /\ tail_pos < Len(text)
     /\ tail_pos' = last /\ chunks' = Append(chunks, [first |-> tail_pos + 1, last |-> last])
     /\ tail_told' = tail_told \cup {[line |-> LineOf(text, tail_pos + 1), rule |-> r] : r \in found}
     /\ UNCHANGED <<log_files, tail_from, scanVars, log_steps>>

LogNext == \/ \E f \in LogPath, part \in Part \cup {"nl"} : LogWrite(f, part)
           \/ \E f \in LogPath : Analyze(f)
           \/ \E order \in SetToSeqs(LogPath) : AnalyzeDir(order)
           \/ TailRead

-----------------------------------------------------------------------------
WholeLine(c) == LET text == log_files[Followed] IN
                /\ text[c.last] = "nl" /\ (c.first = 1 \/ text[c.first - 1] = "nl")

(* Following a file reports nothing an analysis of the file would not, and *)
(* all of it for the lines it read in one piece; a line read in pieces may *)
(* go unreported. The hits of an analyzer are those of all its analyses,   *)
(* its findings those of the last one.                                     *)
TailAgreesWithScan ==
  LET text == log_files[Followed] IN
  /\ tail_told \subseteq UNION {{[line |-> l, rule |-> r] : r \in Matches(Content(text, l))} :
                                 l \in {LineOf(text, i) : i \in DOMAIN text}}
  /\ \A i \in DOMAIN chunks : WholeLine(chunks[i]) =>
       \A r \in Matches(Content(text, LineOf(text, chunks[i].first))) :
         [line |-> LineOf(text, chunks[i].first), rule |-> r] \in tail_told
  /\ ip_hits = FoldLeft(LAMBDA n, found : n + WithIp(found), 0, hits_of)
  /\ hits_of # <<>> => log_findings = Last(hits_of)
=============================================================================
