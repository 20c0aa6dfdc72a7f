------------------------------ MODULE JQValue ------------------------------
(***************************************************************************)
(* The comparison of JSON values behind ORDERBY and the filters            *)
(* (jqvalue.go).                                                            *)
(*                                                                          *)
(* A string is the sequence of its character codes: the order is about      *)
(* them.  A float is a multiple of a half, kept as its double; numbers have *)
(* at most two digits, and strings that hold a number no sign.  An object's *)
(* keys are numbers, in key order.                                          *)
(***************************************************************************)
EXTENDS Integers, SequencesExt

Null == [k |-> "null"]
Bool(b) == [k |-> "bool", b |-> b]
I64(n) == [k |-> "i64", n |-> n]
F64(h) == [k |-> "f64", n |-> h]
Str(s) == [k |-> "str", s |-> s]
ArrayOf(s) == [k |-> "arr", es |-> s]
ObjectOf(m) == [k |-> "obj", m |-> m]

\* A comparison is a sign and whether the kinds can be compared.
Cmp(n) == [ok |-> TRUE, cmp |-> n]
Incomparable == [ok |-> FALSE, cmp |-> 0]

Kinds == <<"null", "bool", "i64", "f64", "str", "arr", "obj">>

compareKindFallback(a, b) ==
    LET rank(v) == CHOOSE i \in DOMAIN Kinds : Kinds[i] = v.k
    IN  rank(a) - rank(b)

boolInt(b) == IF b THEN 1 ELSE 0

----------------------------------------------------------------------------
\* Text: strings.Compare, number formatting and parsing.

\* strings.Compare: the first difference decides, else the length.
Compare(s, t) ==
    LET differ == {i \in DOMAIN s \cap DOMAIN t : s[i] # t[i]}
    IN  IF differ = {} THEN Len(s) - Len(t)
        ELSE LET i == CHOOSE i \in differ : \A j \in differ : i <= j IN s[i] - t[i]

Zero == 48
Dot == 46
Half == <<Dot, Zero + 5>>

Minus(n) == IF n < 0 THEN <<45>> ELSE <<>>
Unsigned(n) == IF n < 10 THEN <<Zero + n>> ELSE <<Zero + (n \div 10), Zero + (n % 10)>>
Size(n) == IF n < 0 THEN -n ELSE n

FormatInt(n) == Minus(n) \o Unsigned(Size(n))
formatJQFloat(h) ==
    Minus(h) \o Unsigned(Size(h) \div 2) \o (IF h % 2 = 1 THEN Half ELSE <<>>)

IsDigits(s) == s # <<>> /\ \A i \in DOMAIN s : s[i] \in Zero..(Zero + 9)
ReadDigits(s) == FoldLeft(LAMBDA n, c : 10 * n + c - Zero, 0, s)

\* What does not parse counts as zero.
atoiOfficial(s) == IF IsDigits(s) THEN ReadDigits(s) ELSE 0
atofOfficial(s) ==
    LET whole == SubSeq(s, 1, Len(s) - 2)
    IN  IF IsDigits(s) THEN 2 * ReadDigits(s)
        ELSE IF IsSuffix(Half, s) /\ IsDigits(whole) THEN 2 * ReadDigits(whole) + 1
        ELSE 0

TrueText == <<116, 114, 117, 101>>
FalseText == <<102, 97, 108, 115, 101>>

----------------------------------------------------------------------------
\* One operator for each kind on the left.

\* The shorter string is the smaller one; only equal lengths are read.
cmpStrings(s, t) == IF Len(s) # Len(t) THEN Len(s) - Len(t) ELSE Compare(s, t)

cmpStringLeft(left, right) ==
    CASE right.k = "str" -> Cmp(cmpStrings(left, right.s))
      [] right.k = "bool" -> Cmp(boolInt(left = TrueText) - boolInt(right.b))
      [] right.k = "i64" -> Cmp(Compare(left, FormatInt(right.n)))
      [] right.k = "f64" -> Cmp(Compare(left, formatJQFloat(right.n)))
      [] right.k = "null" -> Cmp(boolInt(left # <<>>))
      [] OTHER -> Incomparable

cmpI64Left(left, right) ==
    CASE right.k = "i64" -> Cmp(left - right.n)
      [] right.k = "f64" -> Cmp(2 * left - right.n)
      [] right.k = "str" -> Cmp(left - atoiOfficial(right.s))
      [] right.k = "null" -> Cmp(1)
      [] right.k = "bool" -> Cmp(boolInt(left # 0) - boolInt(right.b))
      [] OTHER -> Incomparable

cmpF64Left(left, right) ==
    CASE right.k = "f64" -> Cmp(left - right.n)
      [] right.k = "i64" -> Cmp(left - 2 * right.n)
      [] right.k = "str" -> Cmp(left - atofOfficial(right.s))
      [] right.k = "null" -> Cmp(1)
      [] right.k = "bool" -> Cmp(left - 2 * boolInt(right.b))
      [] OTHER -> Incomparable

cmpBoolLeft(left, right) ==
    CASE right.k = "bool" -> Cmp(boolInt(left) - boolInt(right.b))
      [] right.k = "i64" -> Cmp(boolInt(left) - boolInt(right.n # 0))
      [] right.k = "f64" -> Cmp(boolInt(left) - boolInt(right.n # 0))
      [] right.k = "str" -> Cmp(IF right.s = TrueText THEN boolInt(left) - 1
                                ELSE IF right.s = FalseText THEN boolInt(left)
                                ELSE -1)
      [] right.k = "null" -> Cmp(boolInt(left))
      [] OTHER -> Incomparable

cmpNullLeftBelowAll(right) == IF right.k = "null" THEN 0 ELSE -1

\* Null equals the empty string, as the empty string equals null.
cmpNullLeft(right) ==
    IF right.k = "null" \/ (right.k = "str" /\ right.s = <<>>) THEN 0 ELSE -1

RECURSIVE jqCompare(_, _), genericCmp(_, _)

\* The first two elements that differ decide, else the lengths.
FirstDifference(lens, cmps) ==
    LET decisive == {i \in DOMAIN cmps : cmps[i] # 0}
    IN  IF decisive = {} THEN lens ELSE cmps[CHOOSE i \in decisive : \A j \in decisive : i <= j]

compareArrays(a, b) ==
    FirstDifference(Len(a) - Len(b), [i \in DOMAIN a \cap DOMAIN b |-> genericCmp(a[i], b[i])])

sortedKeys(m) == SetToSortSeq(DOMAIN m, <)

compareObjects(a, b) ==
    LET ak == sortedKeys(a)
        bk == sortedKeys(b)
    IN  FirstDifference(Len(ak) - Len(bk), [i \in DOMAIN ak \cap DOMAIN bk |->
            IF ak[i] # bk[i] THEN ak[i] - bk[i] ELSE genericCmp(a[ak[i]], b[bk[i]])])

jqCompare(a, b) ==
    CASE a.k = "str" -> cmpStringLeft(a.s, b)
      [] a.k = "i64" -> cmpI64Left(a.n, b)
      [] a.k = "f64" -> cmpF64Left(a.n, b)
      [] a.k = "bool" -> cmpBoolLeft(a.b, b)
      [] a.k = "null" -> Cmp(cmpNullLeft(b))
      [] a.k = "arr" -> IF b.k = "arr" THEN Cmp(compareArrays(a.es, b.es)) ELSE Incomparable
      [] a.k = "obj" -> IF b.k = "obj" THEN Cmp(compareObjects(a.m, b.m)) ELSE Incomparable

genericCmp(a, b) ==
    LET c == jqCompare(a, b) IN IF c.ok THEN c.cmp ELSE compareKindFallback(a, b)
=============================================================================
