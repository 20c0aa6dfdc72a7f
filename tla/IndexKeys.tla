----------------------------- MODULE IndexKeys -----------------------------
(***************************************************************************)
(* The keys of an index on the engine and the byte ranges that scan it      *)
(* (db.go: normalizeIndexValue, encodeI64IndexKey, encodeF64IndexKey,       *)
(* indexRangeKeyBounds; storage.go: keyIndex, appendSegment, prefixEnd).    *)
(*                                                                          *)
(* Widths are reduced: a hexadecimal digit has Hex values instead of 16, a  *)
(* byte is two digits and a word two bytes.  Integers are words; a float's  *)
(* bits are a sign and a magnitude in half units, and negative zero is a    *)
(* value of its own.  As in the code the text of a number is made of        *)
(* digits, which as bytes are never the largest one, and ids of bytes.      *)
(***************************************************************************)
EXTENDS Filter

CONSTANT Hex  \* values of a digit, an even number

ASSUME HexAssumption == Hex \in Nat \ {0} /\ Hex % 2 = 0

Base == Hex * Hex
Words == Base * Base
SignBit == Words \div 2

\* binary.BigEndian of a word, and fixedHex64.
BigEndian(w) == <<w \div Base, w % Base>>

fixedHex64(w) == FlattenSeq([i \in 1..2 |-> <<BigEndian(w)[i] \div Hex, BigEndian(w)[i] % Hex>>])

FlipSign(w) == IF w < SignBit THEN w + SignBit ELSE w - SignBit

NegZero == [k |-> "f64", n |-> 0, neg |-> TRUE]

----------------------------------------------------------------------------
\* Numbers as words that sort like the numbers.

encodeI64IndexKey(n) == fixedHex64(FlipSign(n % Words))

\* math.Float64bits.
Float64bits(v) == IF v = NegZero THEN SignBit ELSE IF v.n < 0 THEN SignBit - v.n ELSE v.n

encodeF64IndexKey(v) ==
    LET u == Float64bits(v)
    IN  fixedHex64(IF u >= SignBit THEN Words - 1 - u ELSE FlipSign(u))

\* toInt64 and toFloat64: <<>> when the value has no such form.  A float is
\* twice its value; a string is read if it is a number.
toInt64(v) ==
    CASE v.k = "i64" -> <<v.n>>
      [] v.k = "f64" -> IF v.n % 2 = 0 THEN <<v.n \div 2>> ELSE <<>>
      [] v.k = "str" -> IF IsDigits(v.s) THEN <<ReadDigits(v.s)>> ELSE <<>>
      [] OTHER -> <<>>

toFloat64(v) ==
    CASE v.k = "i64" -> <<F64(2 * v.n)>>
      [] v.k = "f64" -> <<v>>
      [] v.k = "str" -> IF IsDigits(v.s) \/ (IsSuffix(Half, v.s) /\ IsDigits(SubSeq(v.s, 1, Len(v.s) - 2)))
                        THEN <<F64(atofOfficial(v.s))>> ELSE <<>>
      [] OTHER -> <<>>

normalizeStringIndexValue(v) ==
    CASE v.k = "str" -> <<v.s>>
      [] v.k = "i64" -> <<FormatInt(v.n)>>
      [] v.k = "f64" -> <<formatJQFloat(v.n)>>
      [] OTHER -> <<>>

\* The text of a value under an index, or <<>>.
normalizeIndexValue(v, kind) ==
    LET n == IF kind = "i64" THEN toInt64(v) ELSE toFloat64(v)
    IN  IF kind = "str" THEN normalizeStringIndexValue(v)
        ELSE IF n = <<>> THEN <<>>
        ELSE IF kind = "i64" THEN <<encodeI64IndexKey(n[1])>> ELSE <<encodeF64IndexKey(n[1])>>

Tokens(path) == [i \in DOMAIN path |-> Key(path[i])]

\* The texts a document contributes: those of an array's elements.
valuesForIndex(doc, path, kind) ==
    UNION {LET vs == IF v.k = "arr" THEN {v.es[i] : i \in DOMAIN v.es} ELSE {v}
               texts == {normalizeIndexValue(x, kind) : x \in vs}
           IN  {t[1] : t \in texts \ {<<>>}} : v \in findNodesByPattern(doc, Tokens(path))}

----------------------------------------------------------------------------
\* Keys and ranges.

appendSegment(dst, s) == dst \o BigEndian(Len(s)) \o s

appendI64(dst, n) == dst \o BigEndian(FlipSign(n % Words))

\* The tag byte is left out: an index is all there is.
keyIndexPathPrefix(idx) == appendI64(<<>>, idx.dbid)

keyIndexValuePrefix(idx, value) == appendSegment(keyIndexPathPrefix(idx), value)

keyIndex(idx, value, id) == appendI64(keyIndexValuePrefix(idx, value), id)

keyUniqueIndex(idx, value) == keyIndexValuePrefix(idx, value)

\* Sensitivity variant: no carry into the digit before.
prefixEndNoCarry(prefix) == [prefix EXCEPT ![Len(prefix)] = (@ + 1) % Base]

\* The least key above all that start with prefix; <<>> stands for none.
prefixEnd(prefix) ==
    LET low == {i \in DOMAIN prefix : prefix[i] # Base - 1}
        last == CHOOSE i \in low : \A j \in low : j <= i
    IN  IF low = {} THEN <<>>
        ELSE [SubSeq(prefix, 1, last) EXCEPT ![last] = @ + 1]

\* NewIterator: keys from lower on and before upper, when there is one.
InRange(key, lower, upper) ==
    Compare(key, lower) >= 0 /\ (upper = <<>> \/ Compare(key, upper) < 0)

LowerOps == {">", ">="}
UpperOps == {"<", "<="}

\* indexRangeKeyBounds for the operators in bounds, a set of <<op, text>> with
\* at most one of each side.
indexRangeKeyBounds(idx, bounds) ==
    LET side(ops) == {b \in bounds : b[1] \in ops}
        prefix(b) == keyIndexValuePrefix(idx, b[2])
        lower == {IF b[1] = ">=" THEN prefix(b) ELSE prefixEnd(prefix(b)) : b \in side(LowerOps)}
        upper == {IF b[1] = "<=" THEN prefixEnd(prefix(b)) ELSE prefix(b) : b \in side(UpperOps)}
        path == keyIndexPathPrefix(idx)
        only(S, default) == IF S = {} THEN default ELSE CHOOSE x \in S : TRUE
    IN  [lower |-> only(lower, path), upper |-> only(upper, prefixEnd(path))]
=============================================================================
