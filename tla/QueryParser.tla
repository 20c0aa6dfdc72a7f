---------------------------- MODULE QueryParser ----------------------------
(***************************************************************************)
(* parseQuery and what it calls: comparisons, filters, projections, options *)
(* and the stages of a pipeline (query.go).                                  *)
(***************************************************************************)
EXTENDS QueryText

\* Whether op stands in s at i.
Stands(s, op, i) ==
    i + Len(op) - 1 <= Len(s) /\ \A k \in DOMAIN op : s[i + k - 1] = op[k]

wordOpBoundary(s, start, end) ==
    /\ start = 1 \/ ~isIdentRune(s[start - 1])
    /\ end > Len(s) \/ ~isIdentRune(s[end])

Least(I) == IF I = {} THEN 0 ELSE Min(I)

\* findWord looks at square brackets only, findTopLevelOperator at both kinds;
\* st is Scan(s).
findWord(s, st, op) ==
    Least({i \in DOMAIN s : Stands(s, op, i) /\ st[i].quote = "" /\ st[i].square = 0})

findTopLevelOperator(s, st, op) ==
    LET isAlphaOp == \A k \in DOMAIN op : isIdentRune(op[k]) \/ op[k] = "!"
    IN  Least({i \in DOMAIN s : Stands(s, op, i) /\ Flat(st[i])
                                 /\ (isAlphaOp => wordOpBoundary(s, i, i + Len(op)))})

\* A `!`, blanks, and the operator it negates: where it is, where it ends, and
\* the operator it makes.
bangOp(s, j) ==
    CASE j = 0 -> ""
      [] s[j] = "=" -> "!="
      [] s[j] = "~" -> "nprefix"
      [] s[j] = "eq" /\ wordOpBoundary(s, j, j + 1) -> "!="
      [] OTHER -> ""

findBangNegatedOperator(s, st) ==
    LET after(i) == Least({j \in i + 1..Len(s) : s[j] \notin Blank})
        at(i) == IF i = 0 THEN Fail ELSE Ok([at |-> i, end |-> after(i) + 1, op |-> bangOp(s, after(i))])
    IN  at(Least({i \in DOMAIN s : s[i] = "!" /\ Flat(st[i]) /\ bangOp(s, after(i)) # ""}))

Comparison(key, op, val) == [key |-> key, op |-> op, val |-> val]

WordOps == <<
    [text |-> <<" ", "not", " ", "in", " ">>, op |-> "ni"],
    [text |-> <<" ", "ni", " ">>, op |-> "ni"],
    [text |-> <<" ", "in", " ">>, op |-> "in"],
    [text |-> <<" ", "not", " ", "re", " ">>, op |-> "nre"],
    [text |-> <<" ", "re", " ">>, op |-> "re"],
    [text |-> <<" ", "!", "~", " ">>, op |-> "nprefix"],
    [text |-> <<" ", "~", " ">>, op |-> "prefix"]>>

\* Sensitivity variant: the parts come first.
SymbolOpsShortFirst == <<
    [text |-> <<"=">>, op |-> "="], [text |-> <<">">>, op |-> ">"], [text |-> <<"<">>, op |-> "<"],
    [text |-> <<">", "=">>, op |-> ">="], [text |-> <<"<", "=">>, op |-> "<="],
    [text |-> <<"gte">>, op |-> ">="], [text |-> <<"gt">>, op |-> ">"]>>

\* Two-symbol operators come before their parts.
SymbolOps == <<
    [text |-> <<"!", "eq">>, op |-> "!="], [text |-> <<"gte">>, op |-> ">="], [text |-> <<"lte">>, op |-> "<="],
    [text |-> <<"gt">>, op |-> ">"], [text |-> <<"lt">>, op |-> "<"],
    [text |-> <<">", "=">>, op |-> ">="], [text |-> <<"<", "=">>, op |-> "<="],
    [text |-> <<"!", "=">>, op |-> "!="], [text |-> <<"=">>, op |-> "="], [text |-> <<">">>, op |-> ">"], [text |-> <<"<">>, op |-> "<"],
    [text |-> <<"eq">>, op |-> "="]>>

\* What the text before i, the operator and the text from `end` make.
Comparing(s, i, op, end) ==
    Then(parseValueExpr(From(s, end), 0), LAMBDA v : Ok(Comparison(TrimSpace(SubSeq(s, 1, i - 1)), op, v)))

hasSides(s, i, end) == TrimSpace(SubSeq(s, 1, i - 1)) # <<>> /\ TrimSpace(From(s, end)) # <<>>

\* The first operator of the list that stands somewhere; at has the places.
ComparingFirst(s, ops, at) ==
    LET of(k) == IF k = 0 THEN Fail ELSE Comparing(s, at[k], ops[k].op, at[k] + Len(ops[k].text))
    IN  of(SelectInSeq(at, LAMBDA i : i > 0))

symbolAt(s, i, end) == IF i > 0 /\ hasSides(s, i, end) THEN i ELSE 0

\* A negated operator, then the words, then the symbols with a text on each side.
comparisonIn(s, st, bang, words) ==
    IF bang # Fail /\ hasSides(s, bang[1].at, bang[1].end)
    THEN Comparing(s, bang[1].at, bang[1].op, bang[1].end)
    ELSE IF \E k \in DOMAIN words : words[k] > 0 THEN ComparingFirst(s, WordOps, words)
    ELSE LET at(op, i) == symbolAt(s, i, i + Len(op))
         IN  ComparingFirst(s, SymbolOps, [k \in DOMAIN SymbolOps |->
                 at(SymbolOps[k].text, findTopLevelOperator(s, st, SymbolOps[k].text))])

parseComparison(text) ==
    LET of(s, st) == comparisonIn(s, st, findBangNegatedOperator(s, st),
                                  [k \in DOMAIN WordOps |-> findWord(s, st, WordOps[k].text)])
    IN  of(TrimSpace(text), Scan(TrimSpace(text)))

parseExpr(text) ==
    Then(tokenizeLogical(text), LAMBDA toks :
        parseTokens(toks, [i \in DOMAIN toks |-> parseComparison(toks[i].text)]))

----------------------------------------------------------------------------
\* Paths: the parts are names and placeholders.

Unquoted(t) == Len(t) > 1 /\ t[1] \in Quotes /\ Last(t) = t[1]

normalizeJQLPathToken(text) ==
    LET of(t, inner) == IF ~Unquoted(t) THEN Ok(t)
                        ELSE IF t[1] = "\"" /\ Contains(inner, "\"") THEN Fail ELSE Ok(inner)
    IN  of(TrimSpace(text), SubSeq(TrimSpace(text), 2, Len(TrimSpace(text)) - 1))

parseJQLPathTokens(path) ==
    LET of(s, st) == IF Last(st).quote # "" THEN Fail
                     ELSE Ok(Cut(s, {i \in DOMAIN s : s[i] = "/" /\ st[i].quote = ""}))
    IN  of(Tail(path), Scan(Tail(path)))

\* The parts, with positional placeholders numbered from n on.
PathParts(names, n) ==
    LET before(i) == Cardinality({j \in 1..i - 1 : names[j] = <<":", "?">>})
    IN  Each([i \in DOMAIN names |-> IF Starts(names[i], ":") THEN parsePlaceholder(names[i], n + before(i))
                                     ELSE Ok(Text(names[i]))])

parsePathTemplate(text, n) ==
    LET of(path) ==
            IF path \in {<<>>, <<"/">>} THEN Ok(<<>>)
            ELSE IF ~Starts(path, "/") THEN Fail
            ELSE Then(parseJQLPathTokens(path), LAMBDA toks :
                     Then(Each([i \in DOMAIN toks |-> normalizeJQLPathToken(toks[i])]),
                          LAMBDA names : PathParts(names, n)))
    IN  of(TrimSpace(text))

\* The path of a filter has no placeholders.
normalizeJQLPath(text) ==
    Then(parsePathTemplate(text, 0), LAMBDA p :
        IF \E i \in DOMAIN p : p[i].t # "str" THEN Fail
        ELSE IF p = <<Text(<<>>)>> THEN Ok(<<>>)
        ELSE Ok([i \in DOMAIN p |-> p[i].s]))

----------------------------------------------------------------------------
\* Filters.

Field(key) == [t |-> "field", key |-> key]
Step(t) == [t |-> t]
ExprStep(e) == [t |-> "expr", e |-> e]

StepOf(key) == IF key = <<"*">> THEN Step("any") ELSE IF key = <<"**">> THEN Step("desc") ELSE Field(key)

RECURSIVE chainFrom(_, _)

Chained(step, rest) == Then(rest, LAMBDA steps : Ok(<<step>> \o steps))

chainExpr(s, i, end) ==
    IF end = 0 THEN Fail
    ELSE Then(parseExpr(SubSeq(s, i + 1, end - 1)), LAMBDA e : Chained(ExprStep(e), chainFrom(s, end + 1)))

chainName(s, i, stop) ==
    Then(normalizeJQLPathToken(SubSeq(s, i, stop - 1)), LAMBDA key : Chained(StepOf(key), chainFrom(s, stop)))

chainFrom(s, i) ==
    LET st == Scan(From(s, i))
    IN  CASE i > Len(s) -> Ok(<<>>)
          [] s[i] = "/" -> chainFrom(s, i + 1)
          [] s[i] = "[" -> chainExpr(s, i, findBalancedEnd(s, i))
          [] OTHER -> chainName(s, i, Min({j \in i..Len(s) : s[j] = "/" /\ st[j - i + 1].quote = ""}
                                              \cup {Len(s) + 1}))

parseFilterChain(s) == chainFrom(s, 2)

\* Expressions elsewhere than at the end.
isComplexFilterChain(chain) == \E i \in 1..Len(chain) - 1 : chain[i].t = "expr"

AllFilter(anchor, path) == [t |-> "all", anchor |-> anchor, path |-> path]
PKFilter(anchor, v) == [t |-> "pk", anchor |-> anchor, v |-> v]
ChainFilter(anchor, chain) == [t |-> "chain", anchor |-> anchor, chain |-> chain]
PathFilter(anchor, path, e) == [t |-> "path", anchor |-> anchor, path |-> path, e |-> e]

\* The first "/[" starts the expression, and the last "]" of the text ends it.
bracketed(rest) == IF Ends(rest, "]") THEN parseExpr(SubSeq(rest, 1, Len(rest) - 1)) ELSE Fail

pathTerm(anchor, s, open) ==
    IF open = 0 /\ ~Starts(s, "/") THEN Fail
    ELSE Then(normalizeJQLPath(IF open = 0 THEN s ELSE SubSeq(s, 1, open - 1)), LAMBDA base :
             IF open = 0 THEN Ok(PathFilter(anchor, base, <<>>))
             ELSE Then(bracketed(TrimSpace(From(s, open + 2))), LAMBDA e :
                      Ok(PathFilter(anchor, base, <<e>>))))

\* A filter after its collection prefix.
filterTerm(anchor, s) ==
    IF s \in {<<"/", "*">>, <<"/", "**">>} THEN Ok(AllFilter(anchor, s))
    ELSE IF Stands(s, <<"/", "=">>, 1)
    THEN Then(parseValueExpr(From(s, 3), 0), LAMBDA v : Ok(PKFilter(anchor, v)))
    ELSE Then(IF Starts(s, "/") THEN parseFilterChain(s) ELSE Ok(<<>>), LAMBDA chain :
             IF isComplexFilterChain(chain) THEN Ok(ChainFilter(anchor, chain))
             ELSE pathTerm(anchor, s, Least({i \in 1..Len(s) - 1 : Stands(s, <<"/", "[">>, i)})))

parseFilterAtom(text) ==
    LET split(s, slash) == IF ~Starts(s, "@") THEN Ok(<<<<>>, s>>)
                           ELSE IF slash <= 2 THEN Fail
                           ELSE Ok(<<SubSeq(s, 2, slash - 1), From(s, slash)>>)
    IN  Then(split(TrimSpace(text), FirstOf(TrimSpace(text), "/")), LAMBDA p : filterTerm(p[1], p[2]))

firstAnchor(vals) ==
    LET of(k) == IF k = 0 THEN <<>> ELSE vals[k][1].anchor
    IN  of(SelectInSeq(vals, LAMBDA v : v # Fail /\ v[1].anchor # <<>>))

filterOf(toks, vals) ==
    Then(parseTokens(toks, vals), LAMBDA tree : Ok([tree |-> tree, coll |-> firstAnchor(vals)]))

\* The filter, and the collection of the first atom that names one.
parseFilterExpression(text) ==
    LET s == TrimSpace(text)
    IN  Then(tokenizeLogical(IF s = <<>> THEN <<"/", "*">> ELSE s), LAMBDA toks :
            filterOf(toks, [i \in DOMAIN toks |->
                IF toks[i].k = "atom" THEN parseFilterAtom(toks[i].text) ELSE Fail]))

----------------------------------------------------------------------------
\* Projections.

Term(include, all, path, join) == [include |-> include, all |-> all, path |-> path, join |-> join]

\* The sign before each piece; the first has none and is included.
splitProjectionTerms(s) ==
    LET st == Scan(s)
        at == {i \in DOMAIN s : s[i] \in {"+", "-"} /\ st[i].quote = "" /\ st[i].curly = 0}
        signs == <<"+">> \o [k \in 1..Cardinality(at) |-> s[SetToSortSeq(at, <)[k]]]
        terms == Cut(s, at)
    IN  [k \in DOMAIN terms |-> [op |-> signs[k], term |-> terms[k]]]

splitCSV(s) ==
    LET st == Scan(s) IN Cut(s, {i \in DOMAIN s : s[i] = "," /\ st[i].quote = "" /\ st[i].curly = 0})

\* A term with braces stands for one path for each name in them; what follows
\* the braces is dropped.
bracePaths(stem, items) ==
    LET path(it) == stem \o <<"/">> \o (IF Starts(it, "/") THEN Tail(it) ELSE it)
        rooted(p) == IF Starts(p, "/") THEN p ELSE <<"/">> \o p
    IN  IF items = <<>> THEN Fail ELSE Ok([k \in DOMAIN items |-> rooted(path(items[k]))])

expandProjectionTerm(term) ==
    LET stem(prefix) == IF Ends(prefix, "/") THEN Front(prefix) ELSE prefix
        of(l, r) == IF l = 0 THEN Ok(<<term>>)
                    ELSE IF r < l THEN Fail
                    ELSE bracePaths(stem(TrimSpace(SubSeq(term, 1, l - 1))),
                                    NonEmpty(splitCSV(SubSeq(term, l + 1, r - 1))))
    IN  of(FirstOf(term, "{"), SelectLastInSeq(term, LAMBDA x : x = "}"))

PathCount(path) == Cardinality({i \in DOMAIN path : IsPositional(path[i])})

\* One path after the other; acc has the terms and the number of placeholders,
\* or is Fail.
AddTerm(acc, include, e) ==
    LET of(lt) == Then(parsePathTemplate(IF lt > 1 THEN SubSeq(e, 1, lt - 1) ELSE e, acc.n), LAMBDA path :
            Ok([terms |-> Append(acc.terms, Term(include, FALSE, path,
                                                 IF lt > 1 THEN TrimSpace(From(e, lt + 1)) ELSE <<>>)),
                n |-> acc.n + PathCount(path)]))
    IN  of(FirstOf(e, "<"))

AddPiece(acc, piece) ==
    LET include == piece.op = "+"
        add(a, e) == Then(a, LAMBDA got : AddTerm(got, include, e))
    IN  IF acc = Fail \/ piece.term = <<>> THEN acc
        ELSE IF piece.term = <<"all">>
        THEN Ok([acc[1] EXCEPT !.terms = Append(@, Term(include, TRUE, <<>>, <<>>))])
        ELSE Then(expandProjectionTerm(piece.term), LAMBDA paths : FoldLeft(add, acc, paths))

parseProjection(s, n) == FoldLeft(AddPiece, Ok([terms |-> <<>>, n |-> n]), splitProjectionTerms(s))

isProjectionStage(s) == Starts(s, "/") \/ Starts(s, "all")

----------------------------------------------------------------------------
\* Options.  q is the query so far.

maxOrderByClauses == 64

\* An ORDERBY clause: a path, or a placeholder for the whole path.
Sort(desc, whole, path) == [desc |-> desc, whole |-> whole, path |-> path]

sortPath(tok, n) ==
    IF Starts(tok, ":") THEN Then(parsePlaceholder(tok, n), LAMBDA ph : Ok(<<ph>>))
    ELSE parsePathTemplate(tok, n)

AddSort(acc, tok, desc) ==
    Then(acc, LAMBDA q : Then(sortPath(tok, q.n), LAMBDA path :
        IF Len(q.sorts) >= maxOrderByClauses THEN Fail
        ELSE Ok([q EXCEPT !.sorts = Append(@, Sort(desc, Starts(tok, ":"), path)), !.n = @ + PathCount(path)])))

\* A number or a placeholder.
optionValue(tok, n) ==
    IF Starts(tok, ":") THEN parsePlaceholder(tok, n)
    ELSE IF AllDigits(tok) THEN Ok(Num(Number(tok))) ELSE Fail

ValueCount(v) == IF IsPositional(v) THEN 1 ELSE 0

RECURSIVE options(_, _)

\* How many tokens after an asc or desc belong to it: one placeholder, or all
\* the paths that follow.
SortRun(toks) ==
    LET isPath(i) == Starts(toks[i], "/")
    IN  IF Len(toks) > 1 /\ Starts(toks[2], ":") THEN 1
        ELSE Min({i \in 2..Len(toks) : ~isPath(i)} \cup {Len(toks) + 1}) - 2

withWindow(q, field, v, rest) == options([q EXCEPT ![field] = Ok(v), !.n = @ + ValueCount(v)], rest)

\* Sensitivity variant: a second window replaces the first.
setWindowAgain(q, field, toks) ==
    IF Len(toks) < 2 THEN Fail
    ELSE Then(optionValue(toks[2], q.n), LAMBDA v : withWindow(q, field, v, From(toks, 3)))

\* skip and limit, once each.
setWindow(q, field, toks) ==
    IF q[field] # Fail \/ Len(toks) < 2 THEN Fail
    ELSE Then(optionValue(toks[2], q.n), LAMBDA v : withWindow(q, field, v, From(toks, 3)))

setOrder(q, toks, run) ==
    IF run = 0 THEN Fail
    ELSE Then(FoldLeft(LAMBDA acc, tok : AddSort(acc, tok, toks[1] = <<"desc">>), Ok(q), SubSeq(toks, 2, run + 1)),
              LAMBDA sorted : options(sorted, From(toks, run + 2)))

options(q, toks) ==
    CASE toks = <<>> -> Ok(q)
      [] Starts(toks, <<"asc">>) \/ Starts(toks, <<"desc">>) -> setOrder(q, toks, SortRun(toks))
      [] Starts(toks, <<"skip">>) \/ Starts(toks, <<"limit">>) -> setWindow(q, toks[1][1], toks)
      [] \E f \in {"count", "noidx", "inverse"} : Starts(toks, <<f>>) ->
            options([q EXCEPT !.flags = @ \cup {toks[1][1]}], Tail(toks))
      [] OTHER -> Fail

parseOptionsStage(q, s) == Then(splitOptionTokens(s), LAMBDA toks : options(q, toks))

----------------------------------------------------------------------------
\* The query.

\* The positional placeholders of a filter.
RECURSIVE LeafCount(_)
LeafCount(tree) ==
    CASE tree.t = "leaf" -> ValueCount(tree.v.val)
      [] tree.t \in {"not", "group"} -> LeafCount(tree.l)
      [] OTHER -> LeafCount(tree.l) + LeafCount(tree.r)

TermCount(f) ==
    CASE f.t = "pk" -> ValueCount(f.v)
      [] f.t = "path" -> IF f.e = <<>> THEN 0 ELSE LeafCount(f.e[1])
      [] f.t = "chain" -> FoldLeft(LAMBDA n, st : IF st.t = "expr" THEN n + LeafCount(st.e) ELSE n, 0, f.chain)
      [] OTHER -> 0

RECURSIVE FilterCount(_)
FilterCount(tree) ==
    CASE tree.t = "leaf" -> TermCount(tree.v)
      [] tree.t \in {"not", "group"} -> FilterCount(tree.l)
      [] OTHER -> FilterCount(tree.l) + FilterCount(tree.r)

NoArg == Object

\* apply and upsert; what an earlier action had is replaced.
ActionStage(q, s) ==
    Then(parseValueExpr(From(s, 3), q.n), LAMBDA v :
        Ok([q EXCEPT !.action = s[1], !.arg = v, !.n = @ + ValueCount(v)]))

ProjectionStage(q, s) ==
    Then(parseProjection(s, q.n), LAMBDA p : Ok([q EXCEPT !.proj = Ok(p.terms), !.n = p.n]))

Stage(acc, s) ==
    IF acc = Fail \/ s = <<>> THEN acc
    ELSE IF s = <<"del">> THEN Ok([acc[1] EXCEPT !.action = "del"])
    ELSE IF s[1] \in {"apply", "upsert"} /\ Len(s) > 1 /\ s[2] = " " THEN ActionStage(acc[1], s)
    ELSE IF isProjectionStage(s) THEN ProjectionStage(acc[1], s)
    ELSE parseOptionsStage(acc[1], s)

Filtered(f) ==
    [filter |-> f.tree, coll |-> f.coll, action |-> "none", arg |-> NoArg, proj |-> Fail,
     sorts |-> <<>>, skip |-> Fail, limit |-> Fail, flags |-> {}, n |-> FilterCount(f.tree)]

parseQuery(text) ==
    Then(splitPipeline(TrimSpace(text)), LAMBDA parts :
        Then(parseFilterExpression(parts[1]), LAMBDA f :
            FoldLeft(Stage, Ok(Filtered(f)), Tail(parts))))
=============================================================================
