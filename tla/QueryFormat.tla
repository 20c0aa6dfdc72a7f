---------------------------- MODULE QueryFormat ----------------------------
(***************************************************************************)
(* Query.Canonical: a parsed query back to text (query_format.go).  Names     *)
(* are written as they are, without quotes.                                  *)
(***************************************************************************)
EXTENDS QueryParser

RECURSIVE FormatDigits(_)
FormatDigits(n) == IF n < 10 THEN <<Digits[n + 1]>> ELSE FormatDigits(n \div 10) \o <<Digits[(n % 10) + 1]>>

formatPlaceholder(ph) == IF IsPositional(ph) THEN <<":", "?">> ELSE <<":">> \o ph.s

RECURSIVE formatLiteral(_)
formatLiteral(v) ==
    CASE v.t = "num" -> FormatDigits(v.n)
      [] v.t = "str" -> <<"\"">> \o v.s \o <<"\"">>
      [] v.t = "obj" -> <<"{", "}">>
      [] v.t = "list" -> <<"[">> \o Joined([i \in DOMAIN v.es |-> formatLiteral(v.es[i])], <<",">>) \o <<"]">>

formatValueExpr(v) == IF v.t \in {"pos", "named"} THEN formatPlaceholder(v) ELSE formatLiteral(v)

OpText(op) ==
    CASE op = "prefix" -> <<"~">>
      [] op = "nprefix" -> <<"!", "~">>
      [] op = "nre" -> <<"not", " ", "re">>
      [] op = ">=" -> <<">", "=">>
      [] op = "<=" -> <<"<", "=">>
      [] op = "!=" -> <<"!", "=">>
      [] OTHER -> <<op>>

formatComparison(c) == c.key \o <<" ">> \o OpText(c.op) \o <<" ">> \o formatValueExpr(c.val)

\* Only a parent that binds tighter gets parentheses.
wrapFilter(s, parent, self) == IF self < parent THEN <<"(">> \o s \o <<")">> ELSE s

Infix(l, op, r) == l \o <<" ", op, " ">> \o r

RECURSIVE formatExprNode(_, _)
formatExprNode(n, parent) ==
    CASE n.t = "leaf" -> formatComparison(n.v)
      [] n.t = "and" -> wrapFilter(Infix(formatExprNode(n.l, 2), "and", formatExprNode(n.r, 2)), parent, 2)
      [] n.t = "or" -> wrapFilter(Infix(formatExprNode(n.l, 1), "or", formatExprNode(n.r, 1)), parent, 1)
      [] n.t = "not" -> <<"not", " ">> \o formatExprNode(n.l, 3)
      [] n.t = "group" -> <<"(">> \o formatExprNode(n.l, 0) \o <<")">>

InBrackets(e) == <<"/", "[">> \o formatExprNode(e, 0) \o <<"]">>

StepText(st) ==
    CASE st.t = "field" -> <<"/">> \o st.key
      [] st.t = "any" -> <<"/", "*">>
      [] st.t = "desc" -> <<"/", "**">>
      [] st.t = "expr" -> InBrackets(st.e)

formatPointerPath(path) ==
    IF path = <<>> THEN <<"/">> ELSE FlattenSeq([i \in DOMAIN path |-> <<"/">> \o path[i]])

formatQueryFilter(f) ==
    (IF f.anchor = <<>> THEN <<>> ELSE <<"@">> \o f.anchor) \o
    CASE f.t = "all" -> f.path
      [] f.t = "pk" -> <<"/", "=">> \o formatValueExpr(f.v)
      [] f.t = "chain" -> FlattenSeq([i \in DOMAIN f.chain |-> StepText(f.chain[i])])
      [] f.t = "path" -> formatPointerPath(f.path) \o (IF f.e = <<>> THEN <<>> ELSE InBrackets(f.e[1]))

RECURSIVE formatFilterNode(_, _)

formatFilterNode(n, parent) ==
    CASE n.t = "leaf" -> formatQueryFilter(n.v)
      [] n.t = "and" -> wrapFilter(Infix(formatFilterNode(n.l, 2), "and", formatFilterNode(n.r, 2)), parent, 2)
      [] n.t = "or" -> wrapFilter(Infix(formatFilterNode(n.l, 1), "or", formatFilterNode(n.r, 1)), parent, 1)
      [] n.t = "not" -> <<"not", " ">> \o formatFilterNode(n.l, 3)
      [] n.t = "group" -> <<"(">> \o formatFilterNode(n.l, 0) \o <<")">>

----------------------------------------------------------------------------
\* Projections and options.

PartText(part) == IF part.t = "str" THEN part.s ELSE formatPlaceholder(part)

formatPathTemplate(path) ==
    IF path = <<>> THEN <<"/">> ELSE FlattenSeq([i \in DOMAIN path |-> <<"/">> \o PartText(path[i])])

\* Sensitivity variant: the sign is the first term's.
groupLengthAnySign(terms, i) ==
    LET t == terms[i]
        fits(u) == /\ ~u.all /\ u.join = <<>> /\ Len(u.path) = Len(t.path)
                   /\ Front(u.path) = Front(t.path) /\ Last(u.path).t = "str"
    IN  IF t.all \/ t.join # <<>> \/ Len(t.path) < 2 THEN 1
        ELSE Min({j \in i + 1..Len(terms) : ~fits(terms[j])} \cup {Len(terms) + 1}) - i

\* How many terms from i on are written as one, with their last names in
\* braces.  The first of them may end in a placeholder, and is then without a
\* name.
groupLength(terms, i) ==
    LET t == terms[i]
        fits(u) == /\ u.include = t.include /\ ~u.all /\ u.join = <<>> /\ Len(u.path) = Len(t.path)
                   /\ Front(u.path) = Front(t.path) /\ Last(u.path).t = "str"
    IN  IF t.all \/ t.join # <<>> \/ Len(t.path) < 2 THEN 1
        ELSE Min({j \in i + 1..Len(terms) : ~fits(terms[j])} \cup {Len(terms) + 1}) - i

FieldText(part) == IF part.t = "str" THEN part.s ELSE <<>>

formatProjectionGroup(terms, i, n) ==
    formatPathTemplate(Front(terms[i].path)) \o <<"/", "{">>
        \o Joined([k \in 1..n |-> FieldText(Last(terms[i + k - 1].path))], <<",">>) \o <<"}">>

TermText(t) ==
    IF t.all THEN <<"all">>
    ELSE formatPathTemplate(t.path) \o (IF t.join = <<>> THEN <<>> ELSE <<"<">> \o t.join)

RECURSIVE termsFrom(_, _)
termsFrom(terms, i) ==
    LET n == groupLength(terms, i)
        sign == CASE i > 1 -> <<" ", IF terms[i].include THEN "+" ELSE "-", " ">>
                  [] OTHER -> IF terms[i].include THEN <<>> ELSE <<"-", " ">>
    IN  IF i > Len(terms) THEN <<>>
        ELSE sign \o (IF n > 1 THEN formatProjectionGroup(terms, i, n) ELSE TermText(terms[i]))
                  \o termsFrom(terms, i + n)

formatProjection(terms) == IF terms = <<>> THEN <<"all">> ELSE termsFrom(terms, 1)

formatSort(s) == IF s.whole THEN formatPlaceholder(s.path[1]) ELSE formatPathTemplate(s.path)

Flag(q, name) == IF name \in q.flags THEN <<<<name>>>> ELSE <<>>
Window(q, name) ==
    IF q[name] = Fail THEN <<>> ELSE <<<<name, " ">> \o formatValueExpr(q[name][1])>>

\* ORDERBY first, whatever the order in the text.
formatOptions(q) ==
    LET sorts == [i \in DOMAIN q.sorts |->
                     <<IF q.sorts[i].desc THEN "desc" ELSE "asc", " ">> \o formatSort(q.sorts[i])]
        others == Joined(Window(q, "skip") \o Window(q, "limit")
                             \o Flag(q, "count") \o Flag(q, "noidx") \o Flag(q, "inverse"), <<" ">>)
    IN  Joined(sorts \o NonEmpty(<<others>>), <<"\n", " ", " ">>)

actionText(q) ==
    CASE q.action = "none" -> <<>>
      [] q.action = "del" -> <<"del">>
      [] OTHER -> <<q.action, " ">> \o formatValueExpr(q.arg)

canonical(q) ==
    Joined(<<formatFilterNode(q.filter, 0)>>
               \o NonEmpty(<<actionText(q), IF q.proj = Fail THEN <<>> ELSE formatProjection(q.proj[1]),
                             formatOptions(q)>>), <<"\n", "|", " ">>)
=============================================================================
