----------------------------- MODULE QueryPlan -----------------------------
(***************************************************************************)
(* How a query finds its documents (db.go: runQueryLocked, the index scans; *)
(* query.go: candidate and what it calls): the choice of an index, the scan *)
(* of its keys, the filter over the candidates, and their order.            *)
(*                                                                          *)
(* The query runs over stored documents with nothing pending, without       *)
(* skip, limit and `inverse` (Sorter has the window), and has at most one   *)
(* ORDERBY path.  The order of a Go map decides between equal candidates.   *)
(***************************************************************************)
EXTENDS IndexKeys

CONSTANTS
    Collections,  \* functions from ids to documents
    IndexSets,    \* sets of indexes a collection may have
    Queries,      \* [filter, sort, path]: sort is "none", "asc" or "desc"
    InFree, InMost, InRatio  \* bounds of `in` lists: 10, 500, 200

VARIABLES coll, indexes, query, plan, result, phase

vars == <<coll, indexes, query, plan, result, phase>>

Index(dbid, path, kind, unique) == [dbid |-> dbid, path |-> path, kind |-> kind, unique |-> unique]

Ids == DOMAIN coll

pointerGet(doc, path) ==
    LET found == findNodesByPattern(doc, Tokens(path))
    IN  IF found = {} THEN Null ELSE CHOOSE v \in found : TRUE

\* The keys setIndexKeys has written; indexes of one tag are side by side.
Entries(idx) ==
    UNION {{[dbid |-> idx.dbid, value |-> t, id |-> id,
             key |-> IF idx.unique THEN keyUniqueIndex(idx, t) ELSE keyIndex(idx, t, id)] :
                t \in valuesForIndex(coll[id], idx.path, idx.kind)} : id \in Ids}

Stored(unique) == UNION {Entries(idx) : idx \in {i \in indexes : i.unique = unique}}

----------------------------------------------------------------------------
\* Plans.  op "" is a scan of the whole index.

NoPlan == [op |-> "none"]

Plan(idx, op, val, weight) ==
    [idx |-> idx, op |-> op, val |-> val, op2 |-> "", val2 |-> Null, weight |-> weight]

isIndexableOp(op) == op \in {"=", "in", "prefix"} \cup RangeOps

\* indexOpPlan: the weight of an operator under an index, 0 when it cannot serve.
indexOpPlan(idx, op, val, rnum) ==
    LET plain == normalizeIndexValue(val, idx.kind) # <<>>
    IN  CASE op = "=" -> IF plain THEN 100 ELSE 0
          [] op = "in" ->
                IF /\ val.k = "arr"
                   /\ Len(val.es) > InFree => Len(val.es) <= InMost /\ rnum >= Len(val.es) * InRatio
                   /\ \E i \in DOMAIN val.es : normalizeIndexValue(val.es[i], idx.kind) # <<>>
                THEN 90 ELSE 0
          [] op = "prefix" ->
                IF idx.kind = "str" /\ jqPrefixString(val) \notin {<<>>, <<(<<>>)>>} THEN 60 ELSE 0
          [] op \in LowerOps -> IF plain THEN 70 ELSE 0
          [] op \in UpperOps -> IF plain THEN 50 ELSE 0
          [] OTHER -> 0

\* Equal weights: fewer path tokens, then a unique index; a second candidate
\* with more tokens leaves no plan at all.
betterCandidate(a, b) ==
    CASE a = NoPlan -> b
      [] b = NoPlan -> a
      [] b.weight > a.weight -> b
      [] b.weight < a.weight -> a
      [] (b.op2 # "") # (a.op2 # "") -> IF b.op2 # "" THEN b ELSE NoPlan
      [] Len(b.idx.path) # Len(a.idx.path) -> IF Len(b.idx.path) < Len(a.idx.path) THEN b ELSE NoPlan
      [] OTHER -> IF b.idx.unique /\ ~a.idx.unique THEN b ELSE a

merges(a, b) ==
    /\ a # NoPlan /\ b # NoPlan
    /\ a.idx = b.idx
    /\ \/ a.op \in LowerOps /\ b.op \in UpperOps
       \/ a.op \in UpperOps /\ b.op \in LowerOps

\* mergeRangeCandidates, or else the better one.
Both(a, b) ==
    IF ~merges(a, b) THEN betterCandidate(a, b)
    ELSE LET low == IF a.op \in UpperOps THEN b ELSE a
             high == IF a.op \in UpperOps THEN a ELSE b
         IN  [low EXCEPT !.op2 = high.op, !.val2 = high.val, !.weight = 75]

\* candidateFromComparison: the plans it may return, over the orders of col.runtime.
candidateFromComparison(path, c) ==
    LET full == IF c.key.k = "desc" THEN path ELSE Append(path, c.key.n)
        plans == {Plan(idx, c.op, c.val, indexOpPlan(idx, c.op, c.val, Cardinality(Ids))) :
                     idx \in {i \in indexes : i.path = full}}
        usable == {p \in plans : p.weight > 0}
    IN  IF ~isIndexableOp(c.op) \/ c.key.k \in {"any", "nested"} \/ usable = {} THEN {NoPlan}
        ELSE {FoldLeft(betterCandidate, NoPlan, s) : s \in SetToSeqs(usable)}

RECURSIVE candidateFromExpr(_, _), candidate(_)
candidateFromExpr(path, e) ==
    CASE e.t = "cmp" -> candidateFromComparison(path, e.c)
      [] e.t = "and" -> {Both(a, b) : a \in candidateFromExpr(path, e.l),
                                      b \in candidateFromExpr(path, e.r)}
      [] OTHER -> {NoPlan}

candidate(f) ==
    CASE f.t = "and" -> {Both(a, b) : a \in candidate(f.l), b \in candidate(f.r)}
      [] f.t = "path" -> IF \E i \in DOMAIN f.tokens : f.tokens[i].k # "key" THEN {NoPlan}
                         ELSE candidateFromExpr([i \in DOMAIN f.tokens |-> f.tokens[i].n], f.e)
      [] OTHER -> {NoPlan}

\* chooseOrderByIndexPlan: float before integer before string, unique first.
chooseOrderByIndexPlan(path) ==
    LET on == {i \in indexes : i.path = path}
        rank(i) == (CASE i.kind = "f64" -> 0 [] i.kind = "i64" -> 2 [] i.kind = "str" -> 4)
                       + boolInt(~i.unique)
    IN  IF on = {} THEN NoPlan
        ELSE Plan(CHOOSE i \in on : \A j \in on : rank(i) <= rank(j), "", Null, 80)

----------------------------------------------------------------------------
\* Scans: the ids of index entries, in the order they are yielded.

ByKey(S) == SetToSortSeq(S, LAMBDA a, b : Compare(a.key, b.key) < 0)

\* scanPath's sortEntries, for texts that are not compared as numbers.
ByValue(S) ==
    SetToSortSeq(S, LAMBDA a, b : LET c == Compare(a.value, b.value)
                                  IN  c < 0 \/ (c = 0 /\ a.id < b.id))

Directed(s, desc) == IF desc THEN Reverse(s) ELSE s

IdsOf(s) == [i \in DOMAIN s |-> s[i].id]

\* The first yield of each id.
Dedup(s) == FoldLeft(LAMBDA acc, id : IF Contains(acc, id) THEN acc ELSE Append(acc, id), <<>>, s)

\* A key of another index is an error, and there is no result.
scanOrderedRange(idx, range, desc) ==
    LET ids(hits) == IF \E e \in hits : e.dbid # idx.dbid THEN <<>> ELSE IdsOf(Directed(ByKey(hits), desc))
    IN  ids({e \in Stored(idx.unique) : InRange(e.key, range.lower, range.upper)})

ScanValue(idx, text) ==
    LET prefix == keyIndexValuePrefix(idx, text)
    IN  IdsOf(ByKey({e \in Entries(idx) : IF idx.unique THEN e.key = prefix
                                          ELSE InRange(e.key, prefix, prefixEnd(prefix))}))

ScanWhole(p, desc) ==
    LET path == keyIndexPathPrefix(p.idx)
    IN  IF p.idx.kind = "str" THEN IdsOf(Directed(ByValue(Entries(p.idx)), desc))
        ELSE scanOrderedRange(p.idx, [lower |-> path, upper |-> prefixEnd(path)], desc)

ScanIn(p) ==
    LET hits(text) == IF text = <<>> THEN <<>> ELSE ScanValue(p.idx, text[1])
    IN  FlattenSeq([i \in DOMAIN p.val.es |-> hits(normalizeIndexValue(p.val.es[i], p.idx.kind))])

ScanPrefix(p, desc) ==
    LET prefix == jqPrefixString(p.val)[1]
    IN  IdsOf(Directed(ByValue({e \in Entries(p.idx) : IsPrefix(prefix, e.value)}), desc))

\* A range without a lower bound is read downwards.  A bound that the index
\* cannot hold ends the scan.
Within(idx, bounds, down) ==
    LET inside(e) == \A b \in bounds : Holds(b[1], Compare(e.value, b[2][1]))
    IN  IF \E b \in bounds : b[2] = <<>> THEN <<>>
        ELSE IF idx.kind = "str" THEN IdsOf(Directed(ByValue({e \in Entries(idx) : inside(e)}), down))
        ELSE scanOrderedRange(idx, indexRangeKeyBounds(idx, {<<b[1], b[2][1]>> : b \in bounds}), down)

ScanRange(p, desc) ==
    LET sides == {<<p.op, p.val>>} \cup (IF p.op2 = "" THEN {} ELSE {<<p.op2, p.val2>>})
    IN  Within(p.idx, {<<b[1], normalizeIndexValue(b[2], p.idx.kind)>> : b \in sides},
               desc \/ (p.op2 = "" /\ p.op \in UpperOps))

\* An id of an array document may come up under several of its values; an `in`
\* scan yields it every time.
scanIndexCandidateIDs(p, desc) ==
    CASE p.op = "in" -> ScanIn(p)
      [] p.op = "" -> Dedup(ScanWhole(p, desc))
      [] p.op = "=" -> Dedup(ScanValue(p.idx, normalizeIndexValue(p.val, p.idx.kind)[1]))
      [] p.op = "prefix" -> Dedup(ScanPrefix(p, desc))
      [] p.op \in RangeOps -> Dedup(ScanRange(p, desc))

----------------------------------------------------------------------------
\* runQueryLocked.

Sorted == query.sort # "none"

\* Sensitivity variant: the path of the index is not looked at.
usedOrderIndexAnyPath(p) == p # NoPlan /\ Sorted

\* The candidates come in the order that was asked for.
usedOrderIndex(p) == p # NoPlan /\ Sorted /\ p.idx.path = query.path

Matching(s) == SelectSeq(s, LAMBDA id : match(query.filter, coll[id], id))

\* The comparison of sort.Slice over one path, equal values by id.
Sorts(s) ==
    LET val(id) == pointerGet(coll[id], query.path)
        less(i, j) == LET c == genericCmp(val(i), val(j)) IN c < 0 \/ (c = 0 /\ i < j)
        up == SortSeq(s, less)
    IN  IF query.sort = "desc" THEN Reverse(up) ELSE up

\* Without an index the ids come downwards.
ScanAll == Reverse(SetToSortSeq(Ids, <))

Run(p) ==
    LET inOrder(found) == IF Sorted /\ ~usedOrderIndex(p) THEN Sorts(found) ELSE found
    IN  inOrder(Matching(IF p = NoPlan THEN ScanAll
                         ELSE scanIndexCandidateIDs(p, usedOrderIndex(p) /\ query.sort = "desc")))

Init ==
    /\ coll \in Collections /\ indexes \in IndexSets /\ query \in Queries
    /\ \A idx \in indexes : idx.unique => \A i, j \in Ids : i # j =>
           valuesForIndex(coll[i], idx.path, idx.kind) \cap valuesForIndex(coll[j], idx.path, idx.kind) = {}
    /\ plan = NoPlan /\ result = <<>> /\ phase = "start"

\* The filter's plan, or else an index for the ORDERBY path, or none.
ChoosePlan ==
    /\ phase = "start" /\ phase' = "planned"
    /\ \E p \in candidate(query.filter) :
           plan' = IF p = NoPlan /\ Sorted THEN chooseOrderByIndexPlan(query.path) ELSE p
    /\ UNCHANGED <<coll, indexes, query, result>>

Execute ==
    /\ phase = "planned" /\ phase' = "done"
    /\ result' = Run(plan)
    /\ UNCHANGED <<coll, indexes, query, plan>>

Next == ChoosePlan \/ Execute

Spec == Init /\ [][Next]_vars
=============================================================================
