------------------------------ MODULE SafeEval ------------------------------
(***************************************************************************)
(* The expression evaluator the rule engines use instead of eval(): a      *)
(* recursive-descent parser over a sequence of tokens, and the grammar it  *)
(* is written for. Booleans are the numbers 0 and 1, as in Python;         *)
(* quotients, which leave the integers, are left out.                      *)
(***************************************************************************)
EXTENDS Integers, Sequences

CONSTANTS Numeral,        \* the numbers that occur: token -> value
          ExprToken,      \* the tokens expressions are built from
          ExprBound       \* bound: their length

VARIABLE expression

ExprInit == expression = <<>>
ExprNext == \E t \in ExprToken : Len(expression) < ExprBound /\ expression' = Append(expression, t)

-----------------------------------------------------------------------------
ToBool(b) == IF b THEN 1 ELSE 0
Atoms == {"True", "False"} \cup DOMAIN Numeral
AtomValue(t) == IF t \in DOMAIN Numeral THEN Numeral[t] ELSE ToBool(t = "True")

(* Python's remainder has the sign of the divisor; by zero it is 0 here.   *)
Remainder(v, r) == IF r = 0 THEN 0 ELSE IF r > 0 THEN v % r ELSE -((-v) % (-r))

Operate(op, v, r) ==
  CASE op = "or"  -> ToBool(v # 0 \/ r # 0)
    [] op = "and" -> ToBool(v # 0 /\ r # 0)
    [] op = "<"   -> ToBool(v < r)
    [] op = "<="  -> ToBool(v <= r)
    [] op = ">"   -> ToBool(v > r)
    [] op = ">="  -> ToBool(v >= r)
    [] op = "=="  -> ToBool(v = r)
    [] op = "!="  -> ToBool(v # r)
    [] op = "+"   -> v + r
    [] op = "-"   -> v - r
    [] op = "*"   -> v * r
    [] op = "%"   -> Remainder(v, r)

Operators == [or |-> {"or"}, and |-> {"and"}, comparison |-> {"<", "<=", ">", ">=", "==", "!="},
              sum |-> {"+", "-"}, term |-> {"*", "%"}]
Operand == [or |-> "and", and |-> "not", comparison |-> "sum", sum |-> "term", term |-> "factor"]

(* What a method of the parser leaves: a value and the next position, or   *)
(* the raised error.                                                       *)
Error == [ok |-> FALSE, v |-> 0, i |-> 0]
Value(v, i) == [ok |-> TRUE, v |-> v, i |-> i]
Peek(s, i) == IF i \in DOMAIN s THEN s[i] ELSE "end"

RECURSIVE Method(_, _, _), Loop(_, _, _)

(* while the next token is an operator of this level, to the left          *)
Loop(level, s, left) ==
  IF ~left.ok \/ Peek(s, left.i) \notin Operators[level] THEN left
  ELSE LET right == Method(Operand[level], s, left.i + 1)
       IN IF ~right.ok THEN Error
          ELSE Loop(level, s, Value(Operate(s[left.i], left.v, right.v), right.i))

(* a comparison takes one operator at most                                 *)
Compare(s, left) ==
  IF ~left.ok \/ Peek(s, left.i) \notin Operators["comparison"] THEN left
  ELSE LET right == Method("sum", s, left.i + 1)
       IN IF right.ok THEN Value(Operate(s[left.i], left.v, right.v), right.i) ELSE Error

(* Mutant of Not: negation takes the comparison that follows and no other  *)
(* negation.                                                               *)
NotOnce(s, i) == LET r == Method("comparison", s, i + 1) IN IF r.ok THEN Value(ToBool(r.v = 0), r.i) ELSE Error
Not(s, i) == LET r == Method("not", s, i + 1) IN IF r.ok THEN Value(ToBool(r.v = 0), r.i) ELSE Error

Factor(s, i) ==
  CASE Peek(s, i) = "-" -> LET r == Method("factor", s, i + 1) IN IF r.ok THEN Value(-r.v, r.i) ELSE Error
    [] Peek(s, i) = "(" -> LET r == Method("or", s, i + 1)
                           IN IF r.ok /\ Peek(s, r.i) = ")" THEN Value(r.v, r.i + 1) ELSE Error
    [] Peek(s, i) \in Atoms -> Value(AtomValue(s[i]), i + 1)
    [] OTHER -> Error

Method(level, s, i) ==
  CASE level = "comparison" -> Compare(s, Method("sum", s, i))
    [] level = "not"        -> IF Peek(s, i) = "not" THEN Not(s, i) ELSE Method("comparison", s, i)
    [] level = "factor"     -> Factor(s, i)
    [] OTHER                -> Loop(level, s, Method(Operand[level], s, i))

(* safe_eval_bool: TRUE only for a parsed expression that is not zero; its *)
(* callers take an error for False.                                        *)
Parse(s) == LET r == Method("or", s, 1) IN IF r.ok /\ r.i = Len(s) + 1 THEN r ELSE Error
SafeEvalBool(s) == Parse(s).ok /\ Parse(s).v # 0

-----------------------------------------------------------------------------
(* The grammar of the comment, as the set of values a sequence of tokens   *)
(* can be derived to have at a level: at most one.                         *)
RECURSIVE Derivable(_, _)

Derivable(level, s) ==
  LET Split(l, r, ops) == UNION {{Operate(s[k], v, w) : v \in Derivable(l, SubSeq(s, 1, k - 1)),
                                                        w \in Derivable(r, SubSeq(s, k + 1, Len(s)))} :
                                 k \in {j \in 2 .. (Len(s) - 1) : s[j] \in ops}}
  IN CASE s = <<>> -> {}
       [] level = "factor" ->
            IF Len(s) = 1 THEN {AtomValue(t) : t \in {s[1]} \cap Atoms}
            ELSE IF s[1] = "-" THEN {-v : v \in Derivable("factor", Tail(s))}
            ELSE IF s[1] = "(" /\ s[Len(s)] = ")" THEN Derivable("or", SubSeq(s, 2, Len(s) - 1)) ELSE {}
       [] level = "not" ->
            (IF s[1] = "not" THEN {ToBool(v = 0) : v \in Derivable("not", Tail(s))} ELSE {})
              \cup Derivable("comparison", s)
       [] level = "comparison" -> Derivable("sum", s) \cup Split("sum", "sum", Operators[level])
       [] OTHER -> Derivable(Operand[level], s) \cup Split(level, Operand[level], Operators[level])

(* Every sequence of tokens has at most one value by the grammar, the      *)
(* parser finds it, and it raises an error when there is none.             *)
ParserFollowsGrammar ==
  LET r == Parse(expression) IN Derivable("or", expression) = (IF r.ok THEN {r.v} ELSE {})
=============================================================================
