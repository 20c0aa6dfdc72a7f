------------------------------- MODULE MCPlan -------------------------------
(***************************************************************************)
(* Instances of QueryPlan for TLC: small collections by the kind of value   *)
(* they hold, and a filter of every shape the planner looks at.             *)
(***************************************************************************)
EXTENDS QueryPlan

\* Documents with a value at /0 and one at /1/0.
Doc(v, w) == ObjectOf([n \in {0, 1} |-> IF n = 0 THEN v ELSE ObjectOf([m \in {0} |-> w])])
Bare == ObjectOf([n \in {1} |-> Bool(TRUE)])

Ints == {Doc(I64(n), I64(0)) : n \in {-2, 0, 1}} \cup {Doc(ArrayOf(<<I64(-2), I64(1)>>), I64(1)), Bare}
Floats == {Doc(F64(h), I64(1)) : h \in {-3, -2, 1}} \cup {Doc(I64(0), I64(0)), Doc(NegZero, I64(0))}
Texts == {Doc(Str(s), Str(<<97>>)) : s \in {<<98>>, <<97, 98>>, <<49>>}}
Mixed == {Doc(Bool(TRUE), Null), Doc(Str(<<49>>), I64(0)), Doc(ArrayOf(<<ArrayOf(<<I64(1)>>)>>), I64(0))}

MCCollections == UNION {[{1, 7} -> D] : D \in {Ints, Floats, Texts, Mixed}}

V(kind, unique, dbid) == Index(dbid, <<0>>, kind, unique)
W(kind, dbid) == Index(dbid, <<1, 0>>, kind, FALSE)

\* dbid 3 ends in the largest byte, and 4 comes next to it.
MCIndexSets == {
    {V("i64", FALSE, 3), V("f64", FALSE, 4)}, {V("i64", TRUE, 3), W("i64", 4)},
    {V("f64", FALSE, 3), V("str", FALSE, 4)}, {V("str", TRUE, 3), V("f64", TRUE, 4)},
    {W("i64", 7), V("str", FALSE, 3)}}

Terms == {<<op, v>> : op \in RangeOps \cup {"=", "!="}, v \in {I64(-2), I64(0), F64(1)}}
             \cup {<<"in", ArrayOf(<<I64(1), I64(-2)>>)>>, <<"prefix", Str(<<97>>)>>, <<">", Str(<<97>>)>>}

OnV(t) == PathFilter(<<>>, ExprCmp(Comparison(Key(0), t[1], t[2])))
OnW(t) == PathFilter(<<Key(1)>>, ExprCmp(Comparison(Key(0), t[1], t[2])))
Below(e) == PathFilter(<<Key(0)>>, e)
Each(t) == ExprCmp(Comparison(DStar, t[1], t[2]))

Low == <<">", I64(-2)>>
High == <<"<=", I64(0)>>

MCFilters ==
    {OnV(t) : t \in Terms} \cup {Below(Each(t)) : t \in Terms}
        \cup {Below(And(Each(t), Each(High))) : t \in {Low, <<">=", F64(1)>>, <<"<", I64(0)>>}}
        \cup {And(OnV(t), OnV(Low)) : t \in {High, Low, <<"=", I64(1)>>, <<"<", F64(1)>>}}
        \cup {And(OnV(Low), OnW(t)) : t \in {<<"=", I64(0)>>, <<">", I64(0)>>}}
        \cup {OnW(<<">=", I64(0)>>), Or(OnV(Low), OnW(High)), Not(OnV(Low)), All, PK({7})}

MCQueries == [filter : MCFilters, sort : {"none", "asc", "desc"}, path : {<<0>>}]

----------------------------------------------------------------------------
\* The values an index of a kind is made for; a list of them in a document.
OfKind(v, kind) ==
    CASE kind = "i64" -> v.k = "i64"
      [] kind = "f64" -> v.k \in {"i64", "f64"} /\ v # NegZero
      [] kind = "str" -> v.k = "str"

ListOfKind(v, kind) == v.k = "arr" /\ \A i \in DOMAIN v.es : OfKind(v.es[i], kind)

ValuesAt(idx) == UNION {findNodesByPattern(coll[id], Tokens(idx.path)) : id \in Ids}

ScalarDocs == \A v \in ValuesAt(plan.idx) : OfKind(v, plan.idx.kind)

\* Documents and query speak the index's kind.  Two bounds on one index are
\* met by one value of an array and not by two, and an index that only gives the
\* order has the documents with a value only.
Suited ==
    /\ \A v \in ValuesAt(plan.idx) : OfKind(v, plan.idx.kind) \/ ListOfKind(v, plan.idx.kind)
    /\ plan.op2 # "" => ScalarDocs /\ OfKind(plan.val2, plan.idx.kind)
    /\ IF plan.op = "" THEN \A id \in Ids : findNodesByPattern(coll[id], Tokens(plan.idx.path)) # {}
       ELSE OfKind(plan.val, plan.idx.kind) \/ ListOfKind(plan.val, plan.idx.kind)

Done == phase = "done" /\ plan # NoPlan

\* A query answered from an index returns the documents a scan of the collection
\* returns, each once unless it is an `in` (candidate, scanIndexCandidateIDs,
\* indexRangeKeyBounds, prefixEnd): any choice among several indexes, one-sided
\* and merged ranges, negative numbers, arrays and keys at the end of a range.
PlansAreExact ==
    Done /\ Suited =>
        /\ ToSet(result) = {id \in Ids : match(query.filter, coll[id], id)}
        /\ plan.op # "in" => IsInjective(result)

\* `in` follows its list, and a range with an upper bound only is read downwards.
OwnOrder == plan.op = "in" \/ (plan.op \in UpperOps /\ plan.op2 = "" /\ query.sort = "asc")

\* A query that takes its order from a numeric index returns the documents as
\* the sorter would have, equal values included (usedOrderIndex, scanOrderedRange),
\* when the plan has no order of its own.
OrderIsTheSorters ==
    Done /\ Suited /\ ScalarDocs /\ usedOrderIndex(plan) /\ plan.idx.kind # "str"
        /\ plan.op # "=" /\ ~OwnOrder => result = Sorts(result)

\* The two readings of a path agree: a chain of steps finds a match exactly when
\* the pattern with the same steps does (matchFilterChain, findNodesByPattern).
PathsAgree ==
    phase = "start" => \A id \in Ids : \A n \in 0..1 :
        LET e == ExprCmp(Comparison(Key(n), "<=", I64(0)))
            walks == {<<Star>>, <<DStar>>, <<Key(n)>>, <<DStar, Star>>, <<Key(1), DStar>>}
            stepOf(t) == IF t.k = "any" THEN AnyStep ELSE IF t.k = "desc" THEN DescStep ELSE Field(t.n)
        IN  \A w \in walks :
                MatchTerm(PathFilter(w, e), coll[id], id)
                    <=> MatchTerm(ChainFilter([i \in DOMAIN w |-> stepOf(w[i])] \o <<ExprStep(e)>>),
                                  coll[id], id)
=============================================================================
