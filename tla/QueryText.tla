----------------------------- MODULE QueryText -----------------------------
(***************************************************************************)
(* From the text of a query to the parsed query (query.go) and back to its   *)
(* canonical text (query_format.go).                                        *)
(*                                                                          *)
(* A text is a sequence of symbols: punctuation, blanks, words and parts of   *)
(* words.  "and", "or" and "not" are symbols wherever the letters stand, also *)
(* at the end of a name: <<"col", "or">>.  A digit is a symbol.  What parses  *)
(* is a sequence of one element, what does not is <<>>.  Backslash escapes    *)
(* and the words true, false and null are left out, and so are the members    *)
(* of an object literal.                                                     *)
(***************************************************************************)
EXTENDS Integers, SequencesExt

Fail == <<>>
Ok(x) == <<x>>

\* What F makes of a result, if there is one; and the results together.
Then(r, F(_)) == IF r = Fail THEN Fail ELSE F(r[1])
Each(rs) == IF Fail \in ToSet(rs) THEN Fail ELSE Ok([i \in DOMAIN rs |-> rs[i][1]])

Blank == {" ", "\n"}
Quotes == {"'", "\""}
Digits == <<"0", "1", "2", "3", "4", "5", "6", "7", "8", "9">>
Punctuation ==
    Blank \cup Quotes \cup {"/", "[", "]", "{", "}", "(", ")", "|", "=", "!", ">", "<", "~", ":",
                            "?", "@", "*", "**", "+", "-", ","}
isIdentRune(r) == r \notin Punctuation

TrimSpace(s) ==
    LET I == {i \in DOMAIN s : s[i] \notin Blank}
    IN  IF I = {} THEN <<>> ELSE SubSeq(s, Min(I), Max(I))

Starts(s, r) == s # <<>> /\ s[1] = r
Ends(s, r) == s # <<>> /\ Last(s) = r
From(s, i) == SubSeq(s, i, Len(s))
FirstOf(s, r) == SelectInSeq(s, LAMBDA x : x = r)

\* The trimmed pieces between the positions in `at`.
Cut(s, at) ==
    LET c == SelectSeq([i \in 1..Len(s) + 2 |-> i - 1], LAMBDA i : i \in at \cup {0, Len(s) + 1})
    IN  [k \in 1..Len(c) - 1 |-> TrimSpace(SubSeq(s, c[k] + 1, c[k + 1] - 1))]

NonEmpty(parts) == SelectSeq(parts, LAMBDA p : p # <<>>)

Joined(parts, sep) ==
    FlattenSeq([i \in DOMAIN parts |-> IF i = 1 THEN parts[i] ELSE sep \o parts[i]])

----------------------------------------------------------------------------
\* The scanners: the open quote and the open brackets before each symbol and,
\* last, at the end.  A closing bracket without an opening one is passed over.

Outside == [quote |-> "", square |-> 0, curly |-> 0, paren |-> 0]

Down(n) == IF n > 0 THEN n - 1 ELSE 0

Nest(st, r) ==
    CASE st.quote # "" -> IF r = st.quote THEN [st EXCEPT !.quote = ""] ELSE st
      [] r \in Quotes -> [st EXCEPT !.quote = r]
      [] r = "[" -> [st EXCEPT !.square = @ + 1]
      [] r = "]" -> [st EXCEPT !.square = Down(@)]
      [] r = "{" -> [st EXCEPT !.curly = @ + 1]
      [] r = "}" -> [st EXCEPT !.curly = Down(@)]
      [] r = "(" -> [st EXCEPT !.paren = @ + 1]
      [] r = ")" -> [st EXCEPT !.paren = Down(@)]
      [] OTHER -> st

RECURSIVE ScanOn(_, _)
ScanOn(s, sts) ==
    IF Len(sts) > Len(s) THEN sts ELSE ScanOn(s, Append(sts, Nest(sts[Len(sts)], s[Len(sts)])))

Scan(s) == ScanOn(s, <<Outside>>)

Flat(st) == st.quote = "" /\ st.square = 0 /\ st.curly = 0

splitPipeline(s) ==
    LET st == Scan(s)
    IN  IF Last(st) # Outside THEN Fail
        ELSE Ok(Cut(s, {i \in DOMAIN s : s[i] = "|" /\ st[i] = Outside}))

splitOptionTokens(s) ==
    LET st == Scan(s)
    IN  IF Last(st).quote # "" THEN Fail
        ELSE Ok(NonEmpty(Cut(s, {i \in DOMAIN s : s[i] \in Blank /\ st[i].quote = ""})))

\* The index of the bracket that closes the one at i, or 0.
findBalancedEnd(s, i) ==
    LET st == Scan(From(s, i))
        J == {j \in 2..Len(st) : st[j].quote = "" /\ st[j].square = 0}
    IN  IF J = {} THEN 0 ELSE i + Min(J) - 2

----------------------------------------------------------------------------
\* Values and placeholders.  A positional placeholder of an option, an action
\* or a projection carries its number; those of the filter come first and in
\* the order of the text.

Num(n) == [t |-> "num", n |-> n]
Text(s) == [t |-> "str", s |-> s]
List(es) == [t |-> "list", es |-> es]
Object == [t |-> "obj"]
Named(name) == [t |-> "named", s |-> name]
Positional(n) == [t |-> "pos", n |-> n]

Digit(r) == \E d \in DOMAIN Digits : Digits[d] = r
Number(s) == FoldLeft(LAMBDA n, r : 10 * n + FirstOf(Digits, r) - 1, 0, s)
AllDigits(s) == s # <<>> /\ \A i \in DOMAIN s : Digit(s[i])

RECURSIVE decodeJSONValue(_)
decodeJSONValue(s) ==
    LET inner == SubSeq(s, 2, Len(s) - 1)
        items(st) == Cut(inner, {i \in DOMAIN inner : inner[i] = "," /\ Flat(st[i])})
        all(its) == Each([i \in DOMAIN its |-> decodeJSONValue(its[i])])
    IN  CASE AllDigits(s) /\ (Len(s) = 1 \/ s[1] # "0") -> Ok(Num(Number(s)))
          [] Len(s) > 1 /\ Starts(s, "\"") /\ Ends(s, "\"") /\ ~Contains(inner, "\"") -> Ok(Text(inner))
          [] Len(s) > 1 /\ Starts(s, "{") /\ Ends(s, "}") /\ TrimSpace(inner) = <<>> -> Ok(Object)
          [] Len(s) > 1 /\ Starts(s, "[") /\ Ends(s, "]") ->
                IF TrimSpace(inner) = <<>> THEN Ok(List(<<>>))
                ELSE Then(all(items(Scan(inner))), LAMBDA es : Ok(List(es)))
          [] OTHER -> Fail

\* parsePlaceholder, for the positional one with the number n.
parsePlaceholder(s, n) ==
    IF s = <<":", "?">> THEN Ok(Positional(n))
    ELSE IF Len(s) > 1 /\ \A i \in 2..Len(s) : isIdentRune(s[i]) THEN Ok(Named(Tail(s)))
    ELSE Fail

\* A text that is nothing else is a string.
literal(s, json, requoted) ==
    IF Len(s) > 1 /\ Starts(s, "'") /\ Ends(s, "'") THEN Ok(Text(SubSeq(s, 2, Len(s) - 1)))
    ELSE IF json # Fail THEN json
    ELSE IF Contains(s, "'") /\ requoted # Fail THEN requoted
    ELSE Ok(Text(s))

parseValueExpr(text, n) ==
    LET of(s) == IF Starts(s, ":") THEN parsePlaceholder(s, n)
                 ELSE literal(s, decodeJSONValue(s), decodeJSONValue(ReplaceAll(s, "'", "\"")))
    IN  of(TrimSpace(text))

IsPositional(v) == v.t = "pos"

----------------------------------------------------------------------------
\* and, or, not.

Tok(k) == [k |-> k, text |-> <<>>]
Atom(text) == [k |-> "atom", text |-> text]
Keywords == {"and", "or", "not"}

\* Nothing is asked of the symbol before a keyword.
matchKeyword(s, i) == s[i] \in Keywords /\ (i = Len(s) \/ s[i + 1] \in {" ", "(", ")"})

flushAtom(acc) == IF TrimSpace(acc.b) = <<>> THEN acc.toks ELSE Append(acc.toks, Atom(TrimSpace(acc.b)))

\* A `not` that follows some text belongs to it: `a not in ...`.
breaks(s, st, acc, i) ==
    Flat(st[i]) /\ \/ s[i] \in {"(", ")"}
                   \/ matchKeyword(s, i) /\ (s[i] = "not" => TrimSpace(acc.b) = <<>>)

RECURSIVE tokensFrom(_, _, _, _)
tokensFrom(s, st, acc, i) ==
    IF i > Len(s) THEN flushAtom(acc)
    ELSE tokensFrom(s, st, IF breaks(s, st, acc, i) THEN [toks |-> Append(flushAtom(acc), Tok(s[i])), b |-> <<>>]
                           ELSE [acc EXCEPT !.b = Append(@, s[i])], i + 1)

tokenizeLogical(text) ==
    LET of(s, st) == IF Flat(Last(st)) THEN Ok(tokensFrom(s, st, [toks |-> <<>>, b |-> <<>>], 1)) ELSE Fail
    IN  of(TrimSpace(text), Scan(TrimSpace(text)))

Leaf(v) == [t |-> "leaf", v |-> v]
Not(l) == [t |-> "not", l |-> l]
Group(l) == [t |-> "group", l |-> l]
And(l, r) == [t |-> "and", l |-> l, r |-> r]
Or(l, r) == [t |-> "or", l |-> l, r |-> r]

\* Recursive descent over tokens whose atoms are parsed: the node and the
\* tokens left.
Parsed(n, rest) == Ok([n |-> n, rest |-> rest])
NextIs(rest, k) == rest # <<>> /\ rest[1].k = k

RECURSIVE parseOr(_), orLoop(_), parseAnd(_), andLoop(_), parseUnary(_)

parseUnary(ts) ==
    CASE NextIs(ts, "not") -> Then(parseUnary(Tail(ts)), LAMBDA r : Parsed(Not(r.n), r.rest))
      [] NextIs(ts, "(") -> Then(parseOr(Tail(ts)), LAMBDA r :
             IF NextIs(r.rest, ")") THEN Parsed(Group(r.n), Tail(r.rest)) ELSE Fail)
      [] NextIs(ts, "atom") -> Parsed(Leaf(ts[1].v), Tail(ts))
      [] OTHER -> Fail

andLoop(left) ==
    IF left = Fail \/ ~NextIs(left[1].rest, "and") THEN left
    ELSE Then(parseUnary(Tail(left[1].rest)), LAMBDA r :
             andLoop(Parsed(And(left[1].n, r.n), r.rest)))

parseAnd(ts) == andLoop(parseUnary(ts))

orLoop(left) ==
    IF left = Fail \/ ~NextIs(left[1].rest, "or") THEN left
    ELSE Then(parseAnd(Tail(left[1].rest)), LAMBDA r :
             orLoop(Parsed(Or(left[1].n, r.n), r.rest)))

\* Sensitivity variant: one level for both operators.
parseOrFlat(ts) ==
    Then(parseUnary(ts), LAMBDA l :
        IF l.rest = <<>> \/ l.rest[1].k \notin {"and", "or"} THEN Ok(l)
        ELSE Then(parseOr(Tail(l.rest)), LAMBDA r :
                 Parsed(IF l.rest[1].k = "and" THEN And(l.n, r.n) ELSE Or(l.n, r.n), r.rest)))

parseOr(ts) == orLoop(parseAnd(ts))

\* All tokens, each with what its atom parsed to.
parseTokens(toks, vals) ==
    LET ts == [i \in DOMAIN toks |-> [k |-> toks[i].k, v |-> IF vals[i] = Fail THEN Fail ELSE vals[i][1]]]
    IN  IF \E i \in DOMAIN toks : toks[i].k = "atom" /\ vals[i] = Fail THEN Fail
        ELSE Then(parseOr(ts), LAMBDA r : IF r.rest # <<>> THEN Fail ELSE Ok(r.n))
=============================================================================
