----------------------------- MODULE SigmaEngine -----------------------------
(***************************************************************************)
(* The Sigma engine: rules loaded from a directory or from a tree of       *)
(* community rules, and their selections and conditions over an event.     *)
(***************************************************************************)
EXTENDS Integers, Sequences, FiniteSets

CONSTANTS SigmaDoc,     \* documents: [parses, detection: "map" | "other" | "none",
                        \*  selections: name -> alternatives, each a set of field tests;
                        \*  condition: [kind, need, names, tokens]]
          SigmaEvent,   \* events: field -> what the value equals or contains
          SigmaBound    \* bound: documents loaded

VARIABLES sigma_rules,  \* in the order of their loading
          report,       \* of the community rules
          answer        \* of the last evaluation: [asked, raised, fired]

sigmaVars == <<sigma_rules, report, answer>>
E == INSTANCE SafeEval WITH Numeral <- <<>>, ExprToken <- {}, ExprBound <- 0, expression <- <<>>

SigmaInit == /\ sigma_rules = <<>> /\ answer = {}
             /\ report = [scanned |-> 0, loaded |-> 0, skipped |-> 0, no_detection |-> 0, parse_error |-> 0]

-----------------------------------------------------------------------------
(* _match_field: "exists" asks for presence, "all" for every value, other- *)
(* wise one of the values must match; a missing field matches nothing.     *)
MatchField(event, test) ==
  IF "exists" \in test.mods THEN (test.field \in DOMAIN event) = ("true" \in test.values)
  ELSE /\ test.field \in DOMAIN event
       /\ IF "all" \in test.mods THEN test.values \subseteq event[test.field]
                                 ELSE test.values \cap event[test.field] # {}

MatchSelection(event, alternatives) == \E tests \in alternatives : \A t \in tests : MatchField(event, t)

Hits(names, results) == {n \in names : results[n]}

(* What is no selection and no word of the expressions counts as False.    *)
Token(t, results) == IF t \in {"and", "or", "not", "(", ")", "True", "False"} THEN t
                     ELSE IF t \in DOMAIN results /\ results[t] THEN "True" ELSE "False"

(* Mutant of AllOf: no selection of the name at all is all of them.        *)
AllOfNone(names, results) == Hits(names, results) = names
AllOf(names, results) == Hits(names, results) = names /\ names # {}

EvalCondition(c, results) ==
  CASE c.kind = "all"  -> AllOf(c.names, results)
    [] c.kind = "of"   -> Cardinality(Hits(c.names, results)) >= c.need
    [] c.kind = "expr" -> E!SafeEvalBool([i \in DOMAIN c.tokens |-> Token(c.tokens[i], results)])

Results(rule, event) == [n \in DOMAIN rule.selections |-> MatchSelection(event, rule.selections[n])]

Match(rule, event) ==
  LET results == Results(rule, event)
  IN IF rule.condition.kind = "none" THEN AllOf(DOMAIN results, results)
     ELSE EvalCondition(rule.condition, results)

-----------------------------------------------------------------------------
MoreRules(doc) == Len(sigma_rules) < SigmaBound /\ sigma_rules' = Append(sigma_rules, doc) /\ answer' = {}

(* load_dir: a detection that is no mapping is loaded like the others.     *)
LoadDir(doc) == doc.parses /\ doc.detection # "none" /\ MoreRules(doc) /\ UNCHANGED report

(* load_community_rules: the rule is tried on an empty event, which only   *)
(* fails for a detection that is no mapping.                               *)
Bucket(doc) == IF ~doc.parses THEN "parse_error"
               ELSE IF doc.detection = "none" THEN "no_detection"
               ELSE IF doc.detection = "other" THEN "skipped" ELSE "loaded"

LoadCommunity(doc) ==
  /\ report.scanned < SigmaBound
  /\ report' = [report EXCEPT !.scanned = @ + 1, ![Bucket(doc)] = @ + 1]
  /\ IF Bucket(doc) = "loaded" THEN MoreRules(doc) ELSE UNCHANGED <<sigma_rules, answer>>

(* One rule that raises leaves the event without an answer.                *)
Evaluate(event) ==
  /\ LET raised == \E i \in DOMAIN sigma_rules : sigma_rules[i].detection = "other" IN
     answer' = {[asked |-> event, raised |-> raised,
                 fired |-> IF raised THEN {}
                           ELSE {i \in DOMAIN sigma_rules : Match(sigma_rules[i], event)}]}
  /\ UNCHANGED <<sigma_rules, report>>

SigmaNext == \/ \E doc \in SigmaDoc : LoadDir(doc) \/ LoadCommunity(doc)
             \/ \E event \in SigmaEvent : Evaluate(event)

-----------------------------------------------------------------------------
(* What a condition says of the selections that match, by the grammar of   *)
(* the expressions; a "1 of x*" inside a larger expression has no meaning  *)
(* there and the rule stays silent, though it counts as loaded.            *)
Meaning(rule, hits) ==
  LET c == rule.condition IN
  CASE c.kind = "none" -> hits = DOMAIN rule.selections /\ hits # {}
    [] c.kind = "all"  -> c.names # {} /\ c.names \subseteq hits
    [] c.kind = "of"   -> Cardinality(c.names \cap hits) >= c.need
    [] c.kind = "expr" ->
         \E v \in E!Derivable("or", [i \in DOMAIN c.tokens |->
                                       Token(c.tokens[i], [n \in DOMAIN rule.selections |-> n \in hits])]) : v # 0

(* An event fires the rules whose condition holds for the selections that  *)
(* match it and no others, and is left without an answer only by a rule    *)
(* whose detection is no mapping; the report accounts for every document   *)
(* and counts no such rule as loaded.                                      *)
SigmaFiresAsWritten ==
  /\ \A a \in answer : \A i \in DOMAIN sigma_rules :
       LET rule == sigma_rules[i] IN
       a.raised \/ (i \in a.fired <=> Meaning(rule, {n \in DOMAIN rule.selections :
                                                       MatchSelection(a.asked, rule.selections[n])}))
  /\ \A a \in answer : a.raised => \E i \in DOMAIN sigma_rules : sigma_rules[i].detection = "other"
  /\ report.scanned = report.loaded + report.skipped + report.no_detection + report.parse_error
  /\ report.loaded <= Cardinality({i \in DOMAIN sigma_rules : sigma_rules[i].detection = "map"})
=============================================================================
