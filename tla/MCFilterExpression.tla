------------------------ MODULE MCFilterExpression ------------------------
(* Values for the constants of FilterExpression. *)
EXTENDS FilterExpression

Str(t) == [type |-> "string", is |-> t]

MCTexts == {"", "CRITICAL", "HIGH", "high", "LOW", "security", "ops", "compliance", "CVE-1", "7", "list"}
MCUpper == [t \in MCTexts |-> IF t = "high" THEN "HIGH" ELSE t]
\* Byte order: digits, capitals, small letters.
MCRank == [t \in MCTexts |->
  CASE t = "" -> 0 [] t = "7" -> 1 [] t = "CRITICAL" -> 2 [] t = "CVE-1" -> 3 [] t = "HIGH" -> 4
    [] t = "LOW" -> 5 [] t = "compliance" -> 6 [] t = "high" -> 7 [] t = "list" -> 8 [] t = "ops" -> 9
    [] t = "security" -> 10]
MCParsed == [t \in MCTexts |-> IF t = "7" THEN {7} ELSE {}]
MCNumText == [n \in {7} |-> "7"]

MCWords == {"spec.severity", "spec.category", "spec.priority", "spec.id", "AND", "OR", "NOT",
            "IN", "EXISTS", "CONTAINS"}
MCMacros == DOMAIN MacroField \cup {"is_other"}
MCMalformed == {"'CVE"}

MCLiterals == [t \in {"'CRITICAL'", "'HIGH'", "'LOW'", "'security'", "'CVE'", "['ops']"} |->
  CASE t = "'CRITICAL'" -> Str("CRITICAL") [] t = "'HIGH'" -> Str("HIGH")
    [] t = "'LOW'" -> Str("LOW") [] t = "'security'" -> Str("security")
    [] t = "'CVE'" -> Str("CVE-1")
    [] t = "['ops']" -> [type |-> "list", is |-> <<Str("ops"), Str("security")>>]]
MCNumerals == [t \in {"7"} |-> 7]

MCIncludes == {<<"CONTAINS", "CVE-1", "CVE-1">>}

Obs(s, c, p, i) ==
  [f \in {x \in {"spec.severity", "spec.category", "spec.priority", "spec.id"} :
           ~(x = "spec.severity" /\ s = "") /\ ~(x = "spec.id" /\ i = "")} |->
     CASE f = "spec.severity" -> Str(s) [] f = "spec.category" -> Str(c)
       [] f = "spec.priority" -> p [] f = "spec.id" -> Str(i)]

Seven == [type |-> "number", is |-> 7]
MCObserved ==
  {Obs("CRITICAL", "security", Seven, ""), Obs("high", "ops", Str("7"), "CVE-1"),
   Obs("LOW", "security", Seven, "CVE-1"), Obs("", "ops", Str("LOW"), "")}

\* Comparisons of every kind.
Comparisons ==
  {<<"spec.severity", op, t>> :
     op \in {"=", "!=", ">", ">=", "<", "<="}, t \in {"'CRITICAL'", "'HIGH'", "'LOW'"}}
  \cup {<<"spec.priority", op, "7">> : op \in {"=", "!=", ">", ">=", "<", "<="}}
  \cup {<<"spec.category", "IN", "['ops']">>, <<"spec.id", "CONTAINS", "'CVE'">>,
        <<"spec.id", "NOT", "EXISTS">>} \cup {<<m>> : m \in MCMacros}

\* Three that are true and false in all combinations.
Base == {<<"is_critical">>, <<"spec.category", "NOT", "IN", "['ops']">>, <<"spec.id", "EXISTS">>}

Combine(S) ==
  S \cup {<<"NOT">> \o a : a \in S} \cup {<<"(">> \o a \o <<")">> : a \in S}
    \cup {a \o <<op>> \o b : a \in S, op \in {"AND", "OR"}, b \in S}

\* Any text of up to four tokens.
Mixed == UNION {[1..n -> {"is_high", "is_other", "spec.id", "7", "'CVE", "=", "NOT", "EXISTS", "AND", "(", ")"}] :
                n \in 1..4}

MCExpressions == Comparisons \cup Combine(Combine(Base)) \cup Mixed
=============================================================================
