----------------------------- MODULE YaraEngine -----------------------------
(***************************************************************************)
(* The YARA-like engine: rules read from text, their strings searched in   *)
(* the files of a directory, their conditions rewritten to expressions.    *)
(***************************************************************************)
EXTENDS Integers, Sequences, FiniteSets

CONSTANTS YaraRule,      \* rule texts: [strings, condition, severity]: strings a function from the
                         \* "$name" to [form: "text" | "hex" | "regex" | "badhex" | "cut"], "cut"
                         \* by the // in it; condition a sequence of words
          OfTerm,        \* "any of ($s*)" and its kind: word -> [quant, need, names]
          YaraNumeral,   \* numbers: word -> value, in bytes
          YaraFile,      \* contents: [hits: names -> number of offsets, size: a word of
                         \* YaraNumeral, skipped: by its extension, readable]
          YaraPath, MaxScanSize,
          YaraBound      \* bound: files written

VARIABLES yara_rules,    \* the rules parsed
          yara_files,    \* path -> contents
          yara_matches,  \* of the last scan: [rule, path, strings]
          scanned,       \* history: the files at that scan
          yara_writes

yaraVars == <<yara_rules, yara_files, yara_matches, scanned, yara_writes>>
E == INSTANCE SafeEval WITH Numeral <- YaraNumeral, ExprToken <- {}, ExprBound <- 0, expression <- <<>>

StringName == UNION {DOMAIN t.strings : t \in YaraRule}

(* parse_text: a hex string that is no hex and a string cut by the comment *)
(* stripping are dropped, and with no strings section the meta is not read.*)
Parsed(text) ==
  LET kept == {n \in DOMAIN text.strings : text.strings[n] \notin {"badhex", "cut"}}
  IN [strings |-> kept, condition |-> text.condition,
      severity |-> IF DOMAIN text.strings = {} THEN "info" ELSE text.severity]

YaraInit == /\ yara_rules \in {{Parsed(t) : t \in texts} : texts \in SUBSET YaraRule}
            /\ yara_files = <<>> /\ yara_matches = {} /\ scanned = <<>> /\ yara_writes = 0

WriteFile(p, c) == /\ yara_writes < YaraBound /\ yara_writes' = yara_writes + 1
                   /\ yara_files' = [q \in DOMAIN yara_files \cup {p} |->
                                       IF q = p THEN c ELSE yara_files[q]]
                   /\ UNCHANGED <<yara_rules, yara_matches, scanned>>

-----------------------------------------------------------------------------
(* Mutant of Found: strings the parser has dropped are searched too.       *)
FoundInFile(rule, file) == {n \in DOMAIN file.hits : file.hits[n] > 0}
(* _find_string, for the strings of the rule.                              *)
Found(rule, file) == {n \in rule.strings \cap DOMAIN file.hits : file.hits[n] > 0}

(* The names of a pattern are compared with a regular expression in which  *)
(* its $ stands for the end of the text: no name ever fits.                *)
Fitting(pattern) == {}

OfValue(of, rule, file) ==
  LET fit == Fitting(of.names) \cap rule.strings
      n == Cardinality(fit \cap Found(rule, file))
  IN CASE of.quant = "any"    -> n >= 1
       [] of.quant = "all"    -> n = Cardinality(fit)
       [] of.quant = "none"   -> n = 0
       [] of.quant = "number" -> n >= of.need

Word(w, rule, file) ==
  IF w \in DOMAIN OfTerm THEN IF OfValue(OfTerm[w], rule, file) THEN "True" ELSE "False"
  ELSE IF w \in StringName THEN IF w \in Found(rule, file) THEN "True" ELSE "False"
  ELSE IF w = "filesize" THEN file.size ELSE w

Rewritten(rule, file) == [i \in DOMAIN rule.condition |-> Word(rule.condition[i], rule, file)]

(* Whatever is outside the grammar, as "at" or "them", is False.           *)
EvalCondition(rule, file) == E!SafeEvalBool(Rewritten(rule, file))

ScanFile(p, file) ==
  IF ~file.readable \/ YaraNumeral[file.size] > MaxScanSize THEN {}
  ELSE {[rule |-> r, path |-> p, strings |-> Found(r, file)] : r \in {q \in yara_rules : EvalCondition(q, file)}}

ScanDir == /\ yara_matches' = UNION {ScanFile(p, yara_files[p]) :
                                       p \in {q \in DOMAIN yara_files : ~yara_files[q].skipped}}
           /\ scanned' = yara_files
           /\ UNCHANGED <<yara_rules, yara_files, yara_writes>>

YaraNext == ScanDir \/ \E p \in YaraPath, c \in YaraFile : WriteFile(p, c)

-----------------------------------------------------------------------------
(* What a condition without "of" says of a file, by the grammar.           *)
Plain(rule) == \A i \in DOMAIN rule.condition : rule.condition[i] \notin DOMAIN OfTerm
Says(rule, file) ==
  \E v \in E!Derivable("or", [i \in DOMAIN rule.condition |->
      LET w == rule.condition[i] IN
      IF w = "filesize" THEN file.size
      ELSE IF w \in DOMAIN file.hits THEN IF file.hits[w] > 0 /\ w \in rule.strings THEN "True" ELSE "False"
      ELSE w]) : v # 0

(* A scan matches a rule whose condition names strings and sizes only with *)
(* exactly the files the condition is true of; one with a word outside the *)
(* grammar never matches; and a condition of "of" terms alone is true of   *)
(* every file or of none.                                                  *)
ScanMatchesConditions ==
  LET visible == {p \in DOMAIN scanned : /\ scanned[p].readable /\ ~scanned[p].skipped
                                         /\ YaraNumeral[scanned[p].size] <= MaxScanSize}
      Matched(r) == {m.path : m \in {n \in yara_matches : n.rule = r}}
  IN \A r \in yara_rules :
       /\ Matched(r) \subseteq visible
       /\ Plain(r) => Matched(r) = {p \in visible : Says(r, scanned[p])}
       /\ (\A i \in DOMAIN r.condition : r.condition[i] \in DOMAIN OfTerm \cup {"and", "or", "not", "(", ")"})
            => Matched(r) \in {visible, {}}
=============================================================================
