-------------------------- MODULE FilterExpression --------------------------
(***************************************************************************)
(* Filter expressions (pkg/filter/parser.go, expression.go): a recursive   *)
(* descent parser builds a tree, which is evaluated against an Observation.*)
(*                                                                         *)
(* The text is a sequence of tokens with single spaces between them, so    *)
(* looking at the next characters is looking at the next token; string,    *)
(* number and list literals are one token each.  Strings are members of    *)
(* Texts, with the operations the code uses given as functions on them.    *)
(***************************************************************************)
EXTENDS Integers, Sequences

CONSTANTS
  Expressions,  \* token sequences
  Observed,     \* Observations: functions from field paths to values
  Words,        \* tokens made of letters, digits, "_" and "."
  Literals,     \* token -> value, for strings, lists, true and false
  Numerals,     \* token -> the number it writes
  Malformed,    \* tokens of literals that do not parse
  Macros,       \* words that begin with "is_"
  Texts, Upper, Rank, Parsed, NumText,
                \* strings; upper case; position in byte order; number a string is, if
                \* any; the string "%v" makes of a number
  Includes      \* <<operator, string, part>> for CONTAINS, STARTS_WITH, ENDS_WITH

ASSUME LiteralsAssumption ==
  (DOMAIN Literals \cup DOMAIN Numerals \cup Malformed \cup Macros)
     \cap {"AND", "OR", "NOT", "(", ")"} = {}

VARIABLES
  expression,
  filter,   \* what NewExpressionFilter returned
  verdict   \* what the last Evaluate returned

vars == <<expression, filter, verdict>>

-------------------------------------------------------------------------------
(* The parser.  Every function takes the position p of the next token and  *)
(* returns the tree and the position after it.                             *)

Ok(node, p) == [ok |-> TRUE, node |-> node, pos |-> p]
Fail == [ok |-> FALSE]

Literal(t, v)         == [kind |-> "literal", token |-> t, value |-> v]
Field(f)              == [kind |-> "field", field |-> f]
Macro(m)              == [kind |-> "macro", field |-> m]
Comparison(op, l, r)  == [kind |-> "comparison", op |-> op, left |-> l, right |-> r]
Negation(l)           == [kind |-> "logical", op |-> <<"NOT">>, left |-> l]
Logical(op, l, r)     == [kind |-> "logical", op |-> op, left |-> l, right |-> r]

Peek(ts, p) == IF p <= Len(ts) THEN ts[p] ELSE ""

\* parseNumber negates what ParseFloat made of the text with its sign.
parseNumber(t) ==
  [type |-> "number", is |-> IF Numerals[t] < 0 THEN -Numerals[t] ELSE Numerals[t]]

\* A word is a field path, keywords included; where there is none, the path is empty and
\* nothing is consumed.
parseOperand(ts, p) ==
  LET t == Peek(ts, p)
  IN  IF t \in DOMAIN Literals THEN Ok(Literal(t, Literals[t]), p + 1)
      ELSE IF t \in DOMAIN Numerals THEN Ok(Literal(t, parseNumber(t)), p + 1)
      ELSE IF t \in Malformed THEN Fail
      ELSE IF t \in Words \cup Macros THEN Ok(Field(t), p + 1)
      ELSE Ok(Field(""), p)

\* The operators in the order they are tried, as the tokens they consist of.
Operators == <<<<"NOT", "IN">>, <<"NOT", "EXISTS">>, <<">=">>, <<"<=">>, <<"!=">>, <<"=">>,
  <<">">>, <<"<">>, <<"IN">>, <<"EXISTS">>, <<"CONTAINS">>, <<"STARTS_WITH">>, <<"ENDS_WITH">>>>

Matching(ts, p) ==
  {i \in DOMAIN Operators :
     /\ p + Len(Operators[i]) - 1 <= Len(ts)
     /\ SubSeq(ts, p, p + Len(Operators[i]) - 1) = Operators[i]}

\* Without an operator the operand stands alone.  The right operand is parsed for every
\* operator, EXISTS included.
parseComparisonOf(ts, p) ==
  LET left == parseOperand(ts, p)
      ops  == Matching(ts, left.pos)
      i    == CHOOSE k \in ops : \A m \in ops : k <= m
      right == parseOperand(ts, left.pos + Len(Operators[i]))
  IN  CASE ~left.ok -> Fail
        [] left.ok /\ ops = {} -> left
        [] left.ok /\ ops # {} ->
             IF right.ok THEN Ok(Comparison(Operators[i], left.node, right.node), right.pos)
             ELSE Fail

RECURSIVE parseExpression(_, _), OrLoop(_, _), parseAndExpression(_, _), AndLoop(_, _),
          parseNotExpression(_, _), parseComparison(_, _)

parseExpression(ts, p) == OrLoop(ts, parseAndExpression(ts, p))

OrLoop(ts, left) ==
  IF ~left.ok \/ Peek(ts, left.pos) # "OR" THEN left
  ELSE LET right == parseAndExpression(ts, left.pos + 1)
       IN  IF right.ok
           THEN OrLoop(ts, Ok(Logical(<<"OR">>, left.node, right.node), right.pos))
           ELSE Fail

parseAndExpression(ts, p) == AndLoop(ts, parseNotExpression(ts, p))

AndLoop(ts, left) ==
  IF ~left.ok \/ Peek(ts, left.pos) # "AND" THEN left
  ELSE LET right == parseNotExpression(ts, left.pos + 1)
       IN  IF right.ok
           THEN AndLoop(ts, Ok(Logical(<<"AND">>, left.node, right.node), right.pos))
           ELSE Fail

\* Mutant of parseNotExpression: NOT reaches over a following AND.
LooseNot(ts, p) ==
  IF Peek(ts, p) # "NOT" THEN parseComparison(ts, p)
  ELSE LET operand == parseAndExpression(ts, p + 1)
       IN  IF operand.ok THEN Ok(Negation(operand.node), operand.pos) ELSE Fail

parseNotExpression(ts, p) ==
  IF Peek(ts, p) # "NOT" THEN parseComparison(ts, p)
  ELSE LET operand == parseNotExpression(ts, p + 1)
       IN  IF operand.ok
           THEN Ok(Negation(operand.node), operand.pos)
           ELSE Fail

parseComparison(ts, p) ==
  CASE Peek(ts, p) = "(" ->
         LET inner == parseExpression(ts, p + 1)
         IN  IF inner.ok /\ Peek(ts, inner.pos) = ")"
             THEN [inner EXCEPT !.pos = @ + 1] ELSE Fail
    [] Peek(ts, p) \in Macros -> Ok(Macro(ts[p]), p + 1)
    [] OTHER -> parseComparisonOf(ts, p)

\* NewExpressionFilter: the whole text must be consumed.
Parse(ts) ==
  LET r == parseExpression(ts, 1)
  IN  IF ts # <<>> /\ r.ok /\ r.pos = Len(ts) + 1 THEN r ELSE Fail

-------------------------------------------------------------------------------
(* Evaluation.  A value has a type; an error is a value of its own.        *)

Nil     == [type |-> "nil"]
Error   == [type |-> "error"]
Bool(b) == [type |-> "bool", is |-> b]

toString(v) ==
  CASE v.type = "nil"    -> ""
    [] v.type = "string" -> v.is
    [] v.type = "number" -> NumText[v.is]
    [] v.type = "bool"   -> IF v.is THEN "true" ELSE "false"
    [] OTHER             -> "list"

\* toNumber: the set of the number a value stands for, empty if there is none.
toNumber(v) ==
  CASE v.type = "number" -> {v.is}
    [] v.type = "string" -> Parsed[v.is]
    [] OTHER             -> {}

SeverityLevels == [CRITICAL |-> 5, HIGH |-> 4, MEDIUM |-> 3, LOW |-> 2, UNKNOWN |-> 1]

isSeverity(v) == Upper[toString(v)] \in DOMAIN SeverityLevels
Level(v) == SeverityLevels[Upper[toString(v)]]

compareEqual(l, r) ==
  IF l = Nil \/ r = Nil THEN l = r ELSE Upper[toString(l)] = Upper[toString(r)]

compareGreater(l, r) ==
  IF toNumber(l) # {} /\ toNumber(r) # {}
  THEN \A x \in toNumber(l), y \in toNumber(r) : x > y
  ELSE IF isSeverity(l) /\ isSeverity(r) THEN Level(l) > Level(r)
  ELSE Rank[toString(l)] > Rank[toString(r)]

compareIn(v, list) == list.type = "list" /\ \E i \in DOMAIN list.is : compareEqual(v, list.is[i])

\* compareContains, compareStartsWith, compareEndsWith: letter case is ignored.
compareString(op, l, r) == <<op[1], Upper[toString(l)], Upper[toString(r)]>> \in Includes

\* evaluateComparisonOperator
Compare(op, l, r) ==
  CASE op = <<"=">>             -> compareEqual(l, r)
    [] op = <<"!=">>            -> ~compareEqual(l, r)
    [] op = <<">">>             -> compareGreater(l, r)
    [] op = <<">=">>            -> compareEqual(l, r) \/ compareGreater(l, r)
    [] op = <<"<">>             -> compareGreater(r, l)
    [] op = <<"<=">>            -> compareEqual(l, r) \/ compareGreater(r, l)
    [] op = <<"IN">>            -> compareIn(l, r)
    [] op = <<"NOT", "IN">>     -> ~compareIn(l, r)
    [] op = <<"EXISTS">>        -> l # Nil
    [] op = <<"NOT", "EXISTS">> -> l = Nil
    [] OTHER                    -> compareString(op, l, r)

getFieldValue(f, obs) == IF f \in DOMAIN obs THEN obs[f] ELSE Nil

MacroField == [is_critical |-> "spec.severity", is_high |-> "spec.severity",
               is_security |-> "spec.category", is_compliance |-> "spec.category"]
MacroValue == [is_critical |-> "CRITICAL", is_high |-> "HIGH",
               is_security |-> "security", is_compliance |-> "compliance"]

evaluateMacro(m, obs) ==
  IF m \in DOMAIN MacroField
  THEN Bool(compareEqual(getFieldValue(MacroField[m], obs),
                         [type |-> "string", is |-> MacroValue[m]]))
  ELSE Error

\* evaluateAND and evaluateOR: a left operand that is not boolean lets the right one decide.
Both(left, right) ==
  IF left = Error \/ left = Bool(FALSE) THEN left
  ELSE IF right.type = "bool" THEN right ELSE Error

Either(left, right) ==
  IF left = Error \/ left = Bool(TRUE) THEN left
  ELSE IF right.type = "bool" THEN right ELSE Error

Not(left) == IF left.type = "bool" THEN Bool(~left.is) ELSE Error

RECURSIVE evaluateNode(_, _)
evaluateNode(node, obs) ==
  CASE node.kind = "literal"    -> node.value
    [] node.kind = "field"      -> getFieldValue(node.field, obs)
    [] node.kind = "macro"      -> evaluateMacro(node.field, obs)
    [] node.kind = "comparison" ->
         Bool(Compare(node.op, evaluateNode(node.left, obs), evaluateNode(node.right, obs)))
    [] node.kind = "logical" ->
         LET left == evaluateNode(node.left, obs)
         IN  CASE node.op = <<"AND">> -> Both(left, evaluateNode(node.right, obs))
               [] node.op = <<"OR">>  -> Either(left, evaluateNode(node.right, obs))
               [] node.op = <<"NOT">> -> Not(left)

-------------------------------------------------------------------------------
Unset == [ok |-> FALSE, new |-> TRUE]
NoVerdict == [of |-> <<>>, result |-> Nil]

Init ==
  /\ expression \in Expressions
  /\ filter = Unset /\ verdict = NoVerdict

NewExpressionFilter ==
  /\ filter = Unset
  /\ filter' = Parse(expression)
  /\ UNCHANGED <<expression, verdict>>

\* A result that is not boolean is an error.
Evaluate(obs) ==
  /\ filter.ok
  /\ LET v == evaluateNode(filter.node, obs)
     IN  verdict' = [of |-> obs, result |-> IF v.type = "bool" THEN v ELSE Error]
  /\ UNCHANGED <<expression, filter>>

Next == NewExpressionFilter \/ \E obs \in Observed : Evaluate(obs)

Spec == Init /\ [][Next]_vars

-------------------------------------------------------------------------------
(* What FILTERING.md says an expression means, by splitting the text at    *)
(* the operator that binds least; {} if it does not say.                   *)

Severities == <<"UNKNOWN", "LOW", "MEDIUM", "HIGH", "CRITICAL">>
Place(t) == {i \in DOMAIN Severities : Severities[i] = t}

\* Numbers to compare: the values of two numbers or the places of two severities.
Scale(l, r) ==
  IF l.type = "number" /\ r.type = "number" THEN {<<l.is, r.is>>}
  ELSE IF l.type = "string" /\ r.type = "string" THEN Place(Upper[l.is]) \X Place(Upper[r.is])
  ELSE {}

Same(l, r) == l.type # "nil" /\ Upper[toString(l)] = Upper[toString(r)]

ValueOf(t) == IF t \in DOMAIN Literals THEN Literals[t] ELSE [type |-> "number", is |-> Numerals[t]]

Meaning(op, l, r) ==
  CASE op = "="  -> {Same(l, r)}
    [] op = "!=" -> {~Same(l, r)}
    [] op = ">"  -> {x[1] > x[2] : x \in Scale(l, r)}
    [] op = ">=" -> {x[1] >= x[2] : x \in Scale(l, r)}
    [] op = "<"  -> {x[1] < x[2] : x \in Scale(l, r)}
    [] op = "<=" -> {x[1] <= x[2] : x \in Scale(l, r)}
    [] op = "IN" -> {\E i \in DOMAIN r.is : Same(l, r.is[i])}
    [] op = "CONTAINS" -> {(<<op, Upper[toString(l)], Upper[toString(r)]>> \in Includes)}
    [] OTHER -> {}

IsLiteral(t) == t \in DOMAIN Literals \cup DOMAIN Numerals

\* The comparison a macro is short for.
Equivalent == [is_critical   |-> <<"spec.severity", "CRITICAL">>,
               is_high       |-> <<"spec.severity", "HIGH">>,
               is_security   |-> <<"spec.category", "security">>,
               is_compliance |-> <<"spec.category", "compliance">>]

Simple(ts, obs) ==
  LET l == getFieldValue(ts[1], obs)
  IN  CASE Len(ts) = 1 /\ ts[1] \in DOMAIN Equivalent ->
             {Same(getFieldValue(Equivalent[ts[1]][1], obs),
                   [type |-> "string", is |-> Equivalent[ts[1]][2]])}
        [] ts[1] \notin Words -> {}
        [] Len(ts) = 2 /\ ts[2] = "EXISTS" -> {l # Nil}
        [] Len(ts) = 3 /\ ts[2] = "NOT" /\ ts[3] = "EXISTS" -> {l = Nil}
        [] Len(ts) = 3 /\ IsLiteral(ts[3]) -> Meaning(ts[2], l, ValueOf(ts[3]))
        [] Len(ts) = 4 /\ ts[2] = "NOT" /\ ts[3] = "IN" /\ IsLiteral(ts[4]) ->
             {~b : b \in Meaning("IN", l, ValueOf(ts[4]))}
        [] OTHER -> {}

\* Occurrences of a token outside all parentheses.
Top(ts, t) ==
  {i \in DOMAIN ts : ts[i] = t /\
     Len(SelectSeq(SubSeq(ts, 1, i), LAMBDA u : u = "("))
       = Len(SelectSeq(SubSeq(ts, 1, i), LAMBDA u : u = ")"))}

RECURSIVE Documented(_, _)
Documented(ts, obs) ==
  LET Split(t, f(_, _)) ==
        LET i == CHOOSE k \in Top(ts, t) : TRUE
        IN  {f(a, b) : a \in Documented(SubSeq(ts, 1, i - 1), obs),
                       b \in Documented(SubSeq(ts, i + 1, Len(ts)), obs)}
  IN  CASE ts = <<>>             -> {}
        [] Top(ts, "OR") # {}    -> Split("OR", LAMBDA a, b : a \/ b)
        [] Top(ts, "AND") # {}   -> Split("AND", LAMBDA a, b : a /\ b)
        [] ts[1] = "NOT"         -> {~b : b \in Documented(Tail(ts), obs)}
        [] ts[1] = "(" /\ ts[Len(ts)] = ")" -> Documented(SubSeq(ts, 2, Len(ts) - 1), obs)
        [] OTHER                 -> Simple(ts, obs)

-------------------------------------------------------------------------------
(* Properties.                                                             *)

\* A filter is a tree, a failure or not built yet; a verdict is boolean or an error.
TypeOK ==
  /\ expression \in Expressions
  /\ filter = Unset \/ filter = Fail \/ (filter.ok /\ filter.pos = Len(expression) + 1)
  /\ verdict.result.type \in {"nil", "bool", "error"}

\* EXISTS with something behind it other than ")".
ExistsInside(ts) == \E i \in 1..(Len(ts) - 1) : ts[i] = "EXISTS" /\ ts[i + 1] # ")"

RECURSIVE Unparse(_)
Unparse(node) ==
  CASE node.kind = "literal" -> <<node.token>>
    [] node.kind \in {"field", "macro"} -> IF node.field = "" THEN <<>> ELSE <<node.field>>
    [] node.op = <<"NOT">> -> <<"NOT">> \o Unparse(node.left)
    [] OTHER -> Unparse(node.left) \o node.op \o Unparse(node.right)

\* An expression with a documented meaning is accepted and evaluates to that meaning:
\* NOT binds tighter than AND, AND tighter than OR, severities are ordered, macros stand
\* for their comparisons, NOT IN and NOT EXISTS deny IN and EXISTS.  Not so after EXISTS.
\* The tree of an accepted text, meaningful or not, has all its tokens in their order:
\* the parser skips nothing but parentheses (parseExpression, Evaluate).
MeansAsDocumented ==
  /\ filter # Unset /\ ~ExistsInside(expression) =>
       /\ (\E obs \in Observed : Documented(expression, obs) # {}) => filter.ok
       /\ verdict # NoVerdict /\ Documented(expression, verdict.of) # {}
            => verdict.result = Bool(TRUE \in Documented(expression, verdict.of))
  /\ filter.ok =>
       Unparse(filter.node) = SelectSeq(expression, LAMBDA t : t \notin {"(", ")"})

\* FILTERING.md:703 gives "spec.details.vulnerabilityID EXISTS AND ..." as an example.
DocumentedParses ==
  filter # Unset /\ (\E obs \in Observed : Documented(expression, obs) # {}) => filter.ok

=============================================================================
