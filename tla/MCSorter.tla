------------------------------ MODULE MCSorter ------------------------------
(***************************************************************************)
(* Instances of Sorter for TLC and the properties of ordered results.       *)
(***************************************************************************)
EXTENDS Sorter, IndexOrder

\* Values that JQL orders consistently: apart from arrays and objects, only
\* null and numbers, only null and strings, or only booleans; and the same
\* inside the arrays and inside the objects.
RECURSIVE Uniform(_)
Uniform(S) ==
    LET scalars == {v.k : v \in S} \ {"arr", "obj"}
        inArrays == UNION {ToSet(v.es) : v \in {x \in S : x.k = "arr"}}
        inObjects == UNION {Range(v.m) : v \in {x \in S : x.k = "obj"}}
    IN  /\ \/ scalars \subseteq {"null", "i64", "f64"}
           \/ scalars \subseteq {"null", "str"}
           \/ scalars \subseteq {"bool"}
        /\ inArrays # {} => Uniform(inArrays)
        /\ inObjects # {} => Uniform(inObjects)

UniformQuery == \A i \in DOMAIN query.descs : Uniform({query.values[id][i] : id \in Ids})

\* sort.Slice is given a strict total order whenever the values under each
\* ORDERBY path are uniform: no two documents precede each other, equal values
\* included, and precedence is transitive (genericCmp, the comparisons by kind
\* on the left and the tie on ids).  The query does not change: one state is enough.
UniformValuesAreOrdered == at = 1 /\ UniformQuery => IsOrder(Ids)

EqualLengths == \A x, y \in Ids : Len(query.values[x][1].s) = Len(query.values[y][1].s)

\* An index yields the documents in the order asked for, each of them, when their
\* values are integers for an integer index or strings for a string index
\* (compareIndexKeys against genericCmp; the ids of equal keys in both directions).
\* A string index has the order of bytes, which is the sorter's among equal lengths.
IndexGivesTheOrder ==
    at = 1 /\ query.plan # "sorter" /\ UniformQuery /\ (query.plan = "str" => EqualLengths) => ScanInOrder

----------------------------------------------------------------------------
\* Instances.

MCBytes == 1 :> 3 @@ 2 :> 1 @@ 3 :> 2

a == 97
b == 98

Numbers == {Null, I64(1), F64(3), I64(2)}
Strings == {Null, Str(<<>>), Str(<<a>>), Str(<<b>>), Str(<<a, a>>)}
Nested == {Null, I64(1), ArrayOf(<<>>), ArrayOf(<<I64(1), I64(2)>>), ArrayOf(<<F64(3)>>)}
Objects == {ObjectOf(<<>>), ObjectOf(<<I64(1)>>), ObjectOf(2 :> I64(1)), ObjectOf(<<I64(1), I64(1)>>)}
Mixed == {I64(5), F64(11), Str(<<49, 48>>), Str(<<53, Dot, 53>>), Bool(TRUE)}
Integers3 == {I64(1), I64(2), I64(10)}

Order(plans, descs, family) == [plan : plans, descs : descs, family : {family}]

MCQueries ==
    Order({"sorter"}, {<<TRUE>>}, Numbers)
        \cup Order({"sorter"}, {<<FALSE>>}, Strings)
        \cup Order({"sorter"}, {<<FALSE>>}, Nested)
        \cup Order({"sorter"}, {<<FALSE>>}, Objects)
        \cup Order({"sorter"}, {<<FALSE, TRUE>>}, {Bool(TRUE), Bool(FALSE)})
        \cup Order({"sorter"}, {<<FALSE>>}, Mixed)
        \cup Order({"i64"}, {<<FALSE>>, <<TRUE>>}, Integers3)
        \cup Order({"str"}, {<<FALSE>>, <<TRUE>>}, {Str(<<a>>), Str(<<b>>), Str(<<a, a>>)})

\* -1: no limit.
MCLimits == {-1, 0, 2, MaxInt}
=============================================================================
