------------------------------- MODULE MCText -------------------------------
(***************************************************************************)
(* Query texts for TLC: filters typed operand by operand, and expressions in  *)
(* brackets comparison by comparison, with and without parentheses that       *)
(* match, pipelines typed stage by stage, and comparisons of every operator   *)
(* in every spelling.                                                        *)
(***************************************************************************)
EXTENDS QueryFormat

CONSTANTS MaxOperands, MaxStages

VARIABLES text,   \* what has been typed
          stages, \* the stages after the filter
          expr,   \* the expression in brackets, when the filter is nothing else
          size,   \* operands or comparisons typed
          wanted, \* for a typed comparison, what it says
          query   \* what NewQuery makes of it

vars == <<text, stages, expr, size, wanted, query>>

\* One operand of every kind.  The name "color" ends like the keyword.
Simple == <<"/", "a">>
Operands == {
    Simple, <<"/", "*">>,
    <<"/", "[", "b", " ", "=", " ", "1", " ", "or", " ", "b", " ", "~", " ", "'", "a", "'", "]">>,
    <<"@", "c", "/", "**">>, <<"/", "=", ":", "?">>, <<"a">>, <<"/", "a", "/">>,
    <<"/", "col", "or">>, <<"/", "'", "a", " ", "b", "'">>,
    <<"/", "b", "/", "[", "(", "a", " ", "not", " ", "in", " ", "[", "1", ",", "'", "x", "'", "]", ")",
      " ", "and", " ", "not", " ", "b", " ", "gt", " ", "2", "]">>,
    <<"/", "[", "a", " ", "=", " ", ":", "?", "]", "/", "*", "/", "[", "b", "<", ":", "p", "]">>}

Stages == {
    <<"del">>, <<"apply", " ", "{", "}">>, <<"upsert", " ", ":", "?">>, <<"apply">>,
    <<"/", "a", "/", "b", " ", "-", " ", "/", "a", "/", "c">>, <<"/", "a", "/", "{", "b", ",", "c", "}", "+", "all">>,
    <<"all", "-", "/", "a", "<", "c">>, <<"/", "a", "/", ":", "?", "+", "/", "a", "/", "b">>,
    <<"skip", " ", "0", "2">>, <<"limit", " ", ":", "?">>, <<"limit", " ", "1", "0", " ", "count">>,
    <<"asc", " ", "/", "a", " ", "/", "b", " ", "desc", " ", ":", "p">>, <<"inverse", " ", "noidx">>, <<>>}

Opening == {<<>>, <<"(">>, <<"not", " ">>, <<"not", " ", "(">>}
Closing == {<<>>, <<")">>}

\* Comparisons of an expression: one holds a `not` of its own.
Equation == <<"a", " ", "=", " ", "1">>
Comparisons == {Equation, <<"b", " ", "not", " ", "in", " ", "[", "1", "]">>}

Keys == {<<"a">>, <<"'", "a", " ", "=", " ", "b", "'">>, <<"[", "*", " ", "in", " ", "1", "]">>}
Literals == {<<"1">>, <<"'", "x", " ", "~", " ", ">", "=", "'">>, <<"[", "1", ",", "2", "]">>, <<":", "?">>}
LiteralValue(s) == parseValueExpr(s, 0)[1]

\* The spellings of the operators.
Spellings == {
    <<<<"=">>, "=">>, <<<<" ", "eq", " ">>, "=">>, <<<<" ", "!", "=">>, "!=">>, <<<<"!", " ", "=">>, "!=">>,
    <<<<" ", "!", " ", "eq", " ">>, "!=">>, <<<<">">>, ">">>, <<<<" ", "gt", " ">>, ">">>,
    <<<<">", "=">>, ">=">>, <<<<" ", "gte", " ">>, ">=">>, <<<<"<">>, "<">>, <<<<" ", "lt", " ">>, "<">>,
    <<<<"<", "=">>, "<=">>, <<<<" ", "lte", " ">>, "<=">>, <<<<" ", "in", " ">>, "in">>,
    <<<<" ", "ni", " ">>, "ni">>, <<<<" ", "not", " ", "in", " ">>, "ni">>, <<<<" ", "re", " ">>, "re">>,
    <<<<" ", "not", " ", "re", " ">>, "nre">>, <<<<" ", "~", " ">>, "prefix">>, <<<<" ", "!", "~">>, "nprefix">>}

Typed(filter, sts) == Joined(<<filter>> \o sts, <<" ", "|">>)

Init == text = <<>> /\ stages = <<>> /\ expr = <<>> /\ size = 0 /\ wanted = <<>> /\ query = parseQuery(<<>>)

\* s, if it is not empty, and one more operand after `and` or `or`.
Longer(s, operands) ==
    {(IF s = <<>> THEN <<>> ELSE s \o <<" ", op, " ">>) \o pre \o o \o post :
        op \in {"and", "or"}, pre \in Opening, o \in operands, post \in Closing}

Operand ==
    /\ size < MaxOperands /\ stages = <<>> /\ wanted = <<>> /\ expr = <<>>
    /\ text' \in Longer(text, IF size = 0 THEN Operands ELSE {Simple})
    /\ size' = size + 1 /\ query' = parseQuery(text')
    /\ UNCHANGED <<stages, expr, wanted>>

\* One more comparison of a filter that is one expression.
Compare ==
    /\ size < MaxOperands /\ stages = <<>> /\ wanted = <<>>
    /\ text = <<>> \/ expr # <<>>
    /\ expr' \in Longer(expr, IF size = 0 THEN Comparisons ELSE {Equation})
    /\ text' = <<"/", "[">> \o expr' \o <<"]">>
    /\ size' = size + 1 /\ query' = parseQuery(text')
    /\ UNCHANGED <<stages, wanted>>

AddStage ==
    /\ size <= 1 /\ Len(stages) < MaxStages /\ wanted = <<>>
    /\ text \in Operands \cup {<<>>}
    /\ \E s \in Stages : stages' = Append(stages, s)
    /\ query' = parseQuery(Typed(text, stages'))
    /\ UNCHANGED <<text, expr, size, wanted>>

TypeComparison ==
    /\ text = <<>> /\ stages = <<>>
    /\ \E key \in Keys, sp \in Spellings, lit \in Literals :
           /\ text' = <<"/", "[">> \o key \o sp[1] \o lit \o <<"]">>
           /\ wanted' = <<Comparison(key, sp[2], LiteralValue(lit))>>
    /\ query' = parseQuery(text')
    /\ UNCHANGED <<stages, expr, size>>

Next == Operand \/ Compare \/ AddStage \/ TypeComparison

Spec == Init /\ [][Next]_vars

----------------------------------------------------------------------------
\* What a query does: without the counter, and without the argument that a later
\* del leaves behind.
Meaning(q) ==
    [q EXCEPT !.n = 0, !.arg = IF q.action \in {"apply", "upsert"} THEN @ ELSE NoArg]

SameQuery(p, q) == IF p = Fail \/ q = Fail THEN p = q ELSE Meaning(p[1]) = Meaning(q[1])

\* A name that is written without quotes as it is read.
PlainName(s) == s # <<>> /\ \A i \in DOMAIN s : isIdentRune(s[i]) /\ s[i] \notin {"and", "or"}

RECURSIVE PlainFilter(_)
PlainFilter(tree) ==
    CASE tree.t = "leaf" ->
            (tree.v.t = "path" => \A i \in DOMAIN tree.v.path : PlainName(tree.v.path[i]))
      [] tree.t \in {"not", "group"} -> PlainFilter(tree.l)
      [] OTHER -> PlainFilter(tree.l) /\ PlainFilter(tree.r)

\* Stages are written in a fixed order, which renumbers two positional
\* placeholders that stand after the filter in another one.
NumbersStay(q) == q.n <= FilterCount(q.filter) + 1

\* The first of several paths with the same stem ends in a placeholder.
LosesName(terms) ==
    \E i \in DOMAIN terms : ~terms[i].all /\ terms[i].path # <<>>
        /\ Last(terms[i].path).t # "str" /\ groupLength(terms, i) > 1

\* The canonical text of a query reads as the same query (canonical, parseQuery):
\* filters with their precedence and groups, operators, values, projections with
\* braces and signs, and options in any order, where names need no quotes.
CanonicalIsFaithful ==
    query # Fail /\ PlainFilter(query[1].filter) /\ NumbersStay(query[1])
        /\ (query[1].proj # Fail => ~LosesName(query[1].proj[1]))
    => SameQuery(query, parseQuery(canonical(query[1])))

----------------------------------------------------------------------------
\* How a list of tokens is read, by its last `or` outside of parentheses, or
\* else its last `and`, given what the atoms are.

RECURSIVE Reads(_, _)
Reads(ts, truth) ==
    LET depth(i) == Cardinality({j \in 1..i - 1 : ts[j].k = "("}) - Cardinality({j \in 1..i : ts[j].k = ")"})
        at(k) == {i \in DOMAIN ts : ts[i].k = k /\ depth(i) = 0}
        left(i) == Reads(SubSeq(ts, 1, i - 1), truth)
        right(i) == Reads(From(ts, i + 1), truth)
    IN  IF at("or") # {} THEN left(Max(at("or"))) \/ right(Max(at("or")))
        ELSE IF at("and") # {} THEN left(Max(at("and"))) /\ right(Max(at("and")))
        ELSE IF ts[1].k = "not" THEN ~Reads(Tail(ts), truth)
        ELSE IF ts[1].k = "(" THEN Reads(SubSeq(ts, 2, Len(ts) - 1), truth)
        ELSE truth[ts[1].text]

RECURSIVE TruthOf(_, _)
TruthOf(tree, truth) ==
    CASE tree.t = "leaf" -> truth[tree.v]
      [] tree.t = "not" -> ~TruthOf(tree.l, truth)
      [] tree.t = "group" -> TruthOf(tree.l, truth)
      [] tree.t = "and" -> TruthOf(tree.l, truth) /\ TruthOf(tree.r, truth)
      [] tree.t = "or" -> TruthOf(tree.l, truth) \/ TruthOf(tree.r, truth)

\* tree says of its atoms what the tokens of s say, if parse reads one atom.
Agree(s, parse(_), tree) ==
    LET ts == tokenizeLogical(s)[1]
        term == [a \in {ts[i].text : i \in {j \in DOMAIN ts : ts[j].k = "atom"}} |-> parse(a)[1]]
    IN  \A yes \in SUBSET DOMAIN term :
            Reads(ts, [a \in DOMAIN term |-> a \in yes])
                = TruthOf(tree, [v \in Range(term) |-> \E a \in yes : term[a] = v])

\* `not` binds tighter than `and`, and `and` tighter than `or`, with any nesting
\* of parentheses: between the operands of a filter (parseFilterOr,
\* parseFilterAnd, parseFilterUnary) and between the comparisons of an expression
\* in brackets (parseOr, parseAnd, parseUnary).
PrecedenceIsUsual ==
    query # Fail /\ stages = <<>> /\ text # <<>> =>
        /\ Agree(text, parseFilterAtom, query[1].filter)
        /\ expr # <<>> => Agree(expr, parseComparison, query[1].filter.v.e[1])

----------------------------------------------------------------------------
Orders(s) == s # <<>> /\ s[1] \in {"asc", "desc"}
Action(s) == s # <<>> /\ s[1] \in {"del", "apply", "upsert"}

Swapped(k) == [stages EXCEPT ![k] = stages[k + 1], ![k + 1] = stages[k]]

\* The order of two stages of a pipeline does not matter, unless both set the
\* action, the projection or the order, or both number placeholders
\* (parseOptionsStage: a second skip or limit is refused, not merged).
StagesCommute ==
    \A k \in 1..Len(stages) - 1 :
        LET s == stages[k]
            t == stages[k + 1]
        IN  ~(Action(s) /\ Action(t)) /\ ~(isProjectionStage(s) /\ isProjectionStage(t))
                /\ ~(Orders(s) /\ Orders(t)) /\ ~(Contains(s, "?") /\ Contains(t, "?"))
            => SameQuery(query, parseQuery(Typed(text, Swapped(k))))

\* A comparison is read with the key, the operator and the value it was written
\* with, in every spelling and when the key or the value holds operators of its
\* own (parseComparison, findBangNegatedOperator, findWord, findTopLevelOperator).
ComparisonsAreRead ==
    wanted # <<>> =>
        query # Fail /\ query[1].filter = Leaf(PathFilter(<<>>, <<>>, <<Leaf(wanted[1])>>))
=============================================================================
