------------------------------- MODULE Filter -------------------------------
(***************************************************************************)
(* What a filter of a query matches (query.go): the path language, the      *)
(* comparison operators, expressions, chains of path steps, and filters.    *)
(*                                                                          *)
(* Documents are the values of JQValue; an object's keys are numbers, which *)
(* are also the texts that index an array.  Nodes found along a path are a  *)
(* set: only whether there is one matters.  Placeholders are resolved, and  *)
(* regular expressions (re, nre) are left out.                              *)
(***************************************************************************)
EXTENDS JQValue

\* Path tokens and keys of comparisons: a name, `*`, `**`.
Key(n) == [k |-> "key", n |-> n]
Star == [k |-> "any"]
DStar == [k |-> "desc"]

\* The members of an object with their keys, of an array with their 0-based
\* indexes.
Members(v) ==
    CASE v.k = "obj" -> {[key |-> n, val |-> v.m[n]] : n \in DOMAIN v.m}
      [] v.k = "arr" -> {[key |-> i - 1, val |-> v.es[i]] : i \in DOMAIN v.es}
      [] OTHER -> {}

immediateChildren(v) == {c.val : c \in Members(v)}

Member(v, n) == {c.val : c \in {d \in Members(v) : d.key = n}}

RECURSIVE findNodesByPattern(_, _), collectDesc(_)

\* Sensitivity variant: `**` needs at least one level.
findNodesByPatternBelow(v, tokens) ==
    IF tokens = <<>> THEN {v}
    ELSE CASE tokens[1].k = "desc" ->
                UNION {findNodesByPattern(c, Tail(tokens)) \cup findNodesByPattern(c, tokens) :
                          c \in immediateChildren(v)}
           [] tokens[1].k = "any" ->
                UNION {findNodesByPattern(c, Tail(tokens)) : c \in immediateChildren(v)}
           [] OTHER ->
                UNION {findNodesByPattern(c, Tail(tokens)) : c \in Member(v, tokens[1].n)}

findNodesByPattern(v, tokens) ==
    IF tokens = <<>> THEN {v}
    ELSE CASE tokens[1].k = "desc" ->
                findNodesByPattern(v, Tail(tokens))
                    \cup UNION {findNodesByPattern(c, tokens) : c \in immediateChildren(v)}
           [] tokens[1].k = "any" ->
                UNION {findNodesByPattern(c, Tail(tokens)) : c \in immediateChildren(v)}
           [] OTHER ->
                UNION {findNodesByPattern(c, Tail(tokens)) : c \in Member(v, tokens[1].n)}

collectDesc(v) == {v} \cup UNION {collectDesc(c) : c \in immediateChildren(v)}

----------------------------------------------------------------------------
\* Operators.

jqPrefixString(v) ==
    CASE v.k = "str" -> <<v.s>>
      [] v.k = "i64" -> <<FormatInt(v.n)>>
      [] v.k = "f64" -> <<formatJQFloat(v.n)>>
      [] v.k = "bool" -> <<IF v.b THEN TrueText ELSE FalseText>>
      [] OTHER -> <<>>

jqPrefixMatch(l, r) ==
    LET ls == jqPrefixString(l)
        rs == jqPrefixString(r)
    IN  IF ls = <<>> \/ rs = <<>> THEN Incomparable
        ELSE Cmp(boolInt(IsPrefix(rs[1], ls[1])))

Holds(op, ord) ==
    CASE op = ">" -> ord > 0
      [] op = ">=" -> ord >= 0
      [] op = "<" -> ord < 0
      [] op = "<=" -> ord <= 0

RangeOps == {">", ">=", "<", "<="}

Among(l, es) == \E i \in DOMAIN es : LET c == jqCompare(l, es[i]) IN c.ok /\ c.cmp = 0

\* Two strings are ordered by their bytes, not as jqCompare orders them.
compareValues(l, op, r) ==
    CASE op \in {"=", "!="} -> (op = "=") = Among(l, <<r>>)
      [] op \in {"in", "ni"} -> (op = "in") = (r.k = "arr" /\ Among(l, r.es))
      [] op \in RangeOps ->
            IF l.k = "str" /\ r.k = "str" THEN Holds(op, Compare(l.s, r.s))
            ELSE LET c == jqCompare(l, r) IN c.ok /\ Holds(op, c.cmp)
      [] op \in {"prefix", "nprefix"} -> jqPrefixMatch(l, r) = Cmp(boolInt(op = "prefix"))

----------------------------------------------------------------------------
\* Comparisons and expressions over one node.

Comparison(key, op, val) == [key |-> key, op |-> op, val |-> val]

KeyText(n) == Str(FormatInt(n))

\* What `*` ranges over: the keys of an object, the indexes of an array.
KeyTexts(v) == {KeyText(c.key) : c \in Members(v)}

\* A key in brackets holds a comparison and selects members by it.
NestedSelection(base, c) ==
    LET hit(d) == /\ c.key.k = "key" => d.key = c.key.n
                  /\ compareValues(IF c.key.k = "any" THEN KeyText(d.key) ELSE d.val, c.op, c.val)
    IN  {d.val : d \in {m \in Members(base) : hit(m)}}

Nested(c) == [k |-> "nested", c |-> c]

valuesByKey(base, key) ==
    CASE key.k = "nested" -> NestedSelection(base, key.c)
      [] key.k = "any" -> KeyTexts(base)
      [] key.k = "desc" -> collectDesc(base)
      [] OTHER -> Member(base, key.n)

EvalComparison(base, c) == \E v \in valuesByKey(base, c.key) : compareValues(v, c.op, c.val)

ExprCmp(c) == [t |-> "cmp", c |-> c]
Not(l) == [t |-> "not", l |-> l]
And(l, r) == [t |-> "and", l |-> l, r |-> r]
Or(l, r) == [t |-> "or", l |-> l, r |-> r]

RECURSIVE eval(_, _)
eval(base, e) ==
    CASE e.t = "cmp" -> EvalComparison(base, e.c)
      [] e.t = "not" -> ~eval(base, e.l)
      [] e.t = "and" -> eval(base, e.l) /\ eval(base, e.r)
      [] e.t = "or" -> eval(base, e.l) \/ eval(base, e.r)

----------------------------------------------------------------------------
\* Chains: a path with expressions inside it, one step after the other.  An
\* expression keeps the node, except that `[* op x]` and `[** op x]` go on with
\* the members they select.

Field(n) == [t |-> "field", n |-> n]
AnyStep == [t |-> "any"]
DescStep == [t |-> "desc"]
ExprStep(e) == [t |-> "expr", e |-> e]

selectByExprNode(base, e) ==
    IF e.t = "cmp" /\ e.c.key.k \in {"any", "desc"} /\ base.k \in {"obj", "arr"}
    THEN NestedSelection(base, e.c)
    ELSE IF eval(base, e) THEN {base} ELSE {}

ChainStep(nodes, step) ==
    UNION {CASE step.t = "field" -> Member(v, step.n)
             [] step.t = "any" -> immediateChildren(v)
             [] step.t = "desc" -> collectDesc(v)
             [] step.t = "expr" -> selectByExprNode(v, step.e) : v \in nodes}

matchFilterChain(doc, chain) == FoldLeft(ChainStep, {doc}, chain)

----------------------------------------------------------------------------
\* Filters.

All == [t |-> "all"]
PK(ids) == [t |-> "pk", ids |-> ids]
PathFilter(tokens, e) == [t |-> "path", tokens |-> tokens, e |-> e]
ChainFilter(chain) == [t |-> "chain", chain |-> chain]

NoExpr == [t |-> "none"]

MatchTerm(f, doc, id) ==
    CASE f.t = "all" -> TRUE
      [] f.t = "pk" -> id \in f.ids
      [] f.t = "chain" -> matchFilterChain(doc, f.chain) # {}
      [] f.t = "path" -> \E v \in findNodesByPattern(doc, f.tokens) :
                            f.e = NoExpr \/ eval(v, f.e)

RECURSIVE match(_, _, _)
match(f, doc, id) ==
    CASE f.t = "not" -> ~match(f.l, doc, id)
      [] f.t = "and" -> match(f.l, doc, id) /\ match(f.r, doc, id)
      [] f.t = "or" -> match(f.l, doc, id) \/ match(f.r, doc, id)
      [] OTHER -> MatchTerm(f, doc, id)
=============================================================================
