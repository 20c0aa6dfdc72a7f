------------------------------ MODULE MCPatch ------------------------------
(***************************************************************************)
(* Instances of Patch and Projection for TLC, and what RFC 6902, RFC 7386  *)
(* and a projection's terms say of each step, in other terms than the      *)
(* code's: a document is flattened into the set of its locations, and an   *)
(* operation moves, drops and grafts locations.                            *)
(***************************************************************************)
EXTENDS Projection

\* A document as the set of <<path, what is there>>; containers show their kind.
Shallow(v) == IF v.k \in {"obj", "arr"} THEN [k |-> v.k] ELSE v

RECURSIVE Locations(_)
Locations(v) ==
    {<< <<>>, Shallow(v)>>} \cup
    UNION {{<< <<t>> \o l[1], l[2]>> : l \in Locations(Child(v, t))} : t \in Children(v)}

Paths(L) == {l[1] : l \in L}
Is(L, p, kind) == <<p, [k |-> kind]>> \in L
Below(L, p) == {<<SubSeq(l[1], Len(p) + 1, Len(l[1])), l[2]>> : l \in {x \in L : IsPrefix(p, x[1])}}
Drop(L, p) == {l \in L : ~IsPrefix(p, l[1])}
Graft(L, p, sub) == L \cup {<<p \o l[1], l[2]>> : l \in sub}

Itoa(i) == CHOOSE t \in DOMAIN Atoi : Atoi[t] = i
Elements(L, p) == {q \in Paths(L) : Len(q) = Len(p) + 1 /\ IsPrefix(p, q)}

\* Elements of the array at p from index i on move by d.
Shift(L, p, i, d) ==
    LET n == Len(p) + 1
        moved(q) == Len(q) >= n /\ IsPrefix(p, q) /\ Atoi[q[n]] >= i
    IN  {<<IF moved(l[1]) THEN [l[1] EXCEPT ![n] = Itoa(Atoi[l[1][n]] + d)] ELSE l[1], l[2]>> : l \in L}

\* No location: the operation is an error.
Refused == {}

\* The empty pointer is the whole document, which is replaced.
AddLocations(L, p, sub) ==
    IF p = <<>> THEN sub
    ELSE LET parent == Front(p)
             size == Cardinality(Elements(L, parent))
             i == IF Last(p) = "-" THEN size ELSE Atoi[Last(p)]
         IN  IF Is(L, parent, "obj") THEN Graft(Drop(L, p), p, sub)
             ELSE IF Is(L, parent, "arr") /\ (Last(p) = "-" \/ Last(p) \in DOMAIN Atoi) /\ i <= size
             THEN Graft(Shift(L, parent, i, 1), Append(parent, Itoa(i)), sub)
             ELSE Refused

\* Objects for the missing parents, unless one would have to be in an array or a scalar.
WithParents(L, p) ==
    LET parents == {SubSeq(p, 1, n) : n \in 0..(Len(p) - 1)}
        missing == parents \ Paths(L)
    IN  IF \E q \in missing : Front(q) \notin missing /\ ~Is(L, Front(q), "obj") THEN Refused
        ELSE L \cup {<<q, [k |-> "obj"]>> : q \in missing}

\* Removing the whole document would leave none: the RFC does not say what that
\* means, and here it is an error.
RemoveLocations(L, p) ==
    IF p = <<>> \/ p \notin Paths(L) THEN Refused
    ELSE IF Is(L, Front(p), "arr") THEN Shift(Drop(L, p), Front(p), Atoi[Last(p)] + 1, -1)
    ELSE Drop(L, p)

ReplaceLocations(L, p, sub) ==
    IF p \notin Paths(L) THEN Refused ELSE Graft(Drop(L, p), p, sub)

Nested(p, q) == IsPrefix(p, q) \/ IsPrefix(q, p)

ExpectedLocations(L, o) ==
    LET value == Locations(o.value)
        from == Below(L, o.from)
        to == Below(L, o.path)
        has == o.path \in Paths(L)
        without == RemoveLocations(L, o.from)
    IN  CASE o.op = "add" -> AddLocations(L, o.path, value)
          [] o.op = "add_create" -> AddLocations(WithParents(L, o.path), o.path, value)
          [] o.op = "replace" -> ReplaceLocations(L, o.path, value)
          [] o.op = "remove" -> RemoveLocations(L, o.path)
          [] o.op = "move" -> IF without = Refused THEN Refused ELSE AddLocations(without, o.path, from)
          [] o.op = "copy" -> IF from = {} THEN Refused ELSE AddLocations(L, o.path, from)
          [] o.op = "test" -> IF has /\ to = value THEN L ELSE Refused
          [] OTHER -> Refused

Exactly(L) == \A l \in L : l[2].k = "num" => Abs(l[2].n) <= Exact

\* Where the code departs from the RFC: an operation that would replace the whole
\* document ("cannot replace document root", pointerSetMode).
ReplacesRoot(o) == o.path = <<>> /\ o.op \in {"add", "add_create", "replace", "move", "copy"}

\* The operations of RFC 6902, and add_create: each step of applyRFC6902 that
\* starts from numbers float64 can hold changes the locations the operation
\* names as the RFC says, shifts array elements and nothing else, and is
\* refused when the RFC refuses it.  Two departures are left out by name: an
\* operation that replaces the whole document may be refused (ReplacesRoot), and
\* `test` also takes a string for the number it reads as (equalValue), so a
\* refusal is not demanded of it there.
FollowsRFC6902(o) ==
    LET L == Locations(doc)
        expected == IF Malformed \in {o.path, o.from} THEN Refused ELSE ExpectedLocations(L, o)
        actual == IF doc' = Nil THEN Refused ELSE Locations(doc')
    IN  \/ actual = expected
        \/ ~Exactly(L)
        \/ ReplacesRoot(o) /\ actual = Refused
        \/ o.op = "test" /\ actual = L /\ \E n \in 0..Exact :
                {Num(n), Digits(n)} = {o.value, pointerGet(doc, o.path)}

RFCOps == {"add", "add_create", "replace", "remove", "move", "copy", "test"}

Looping == doc # Nil /\ count' = count + 1

OpsFollowRFC6902 == [][Looping /\ op'.op \in RFCOps => FollowsRFC6902(op')]_vars

\* swap: of two places that are not nested in each other, each gets the value
\* of the other and the rest of the document stays; a place that does not exist
\* yet takes the value away from the other (applyRFC6902, case "swap").
SwapExchanges ==
    [][Looping /\ op'.op = "swap" /\ doc' # Nil /\ ~Nested(op'.path, op'.from) /\ Exactly(Locations(doc)) =>
        LET L == Locations(doc)
            from == Below(L, op'.from)
            to == Below(L, op'.path)
        IN  Locations(doc') =
              IF to = {} THEN RemoveLocations(AddLocations(L, op'.path, from), op'.from)
              ELSE Graft(Graft(Drop(Drop(L, op'.path), op'.from), op'.path, from), op'.from, to)]_vars

\* Merge patches (mergePatchValue): a location of the target survives unless
\* the patch names it or something above it with a value that is no object, or
\* turns a value that was no object above it into one; the patch adds its
\* objects and its other values, without the nulls that delete.
MergeFollowsRFC7386 ==
    [][op'.op = "merge" =>
        LET L == Locations(raw)
            P == Locations(op'.value)
            Through(p) == \A n \in 0..(Len(p) - 1) : Is(P, SubSeq(p, 1, n), "obj")
            objects == {l \in P : Through(l[1]) /\ l[2].k = "obj"}
            others == {l \in P : Through(l[1]) /\ l[2].k # "obj"}
            kept == {l \in L : /\ \A q \in others : ~IsPrefix(q[1], l[1])
                               /\ \A q \in objects : IsPrefix(q[1], l[1]) => Is(L, q[1], "obj")}
        IN  Locations(raw') =
              kept \cup objects \cup
              UNION {Graft({}, q[1], Below(P, q[1])) : q \in {x \in others : x[2] # Nil}}]_vars

----------------------------------------------------------------------------
\* Projections.

RootOnly == {<< <<>>, [k |-> "obj"]>>}

\* Whether a path is one the tokens stand for; the last token is one level.
RECURSIVE Matches(_, _)
Matches(p, tokens) ==
    CASE p = <<>> \/ tokens = <<>> -> p = <<>> /\ tokens = <<>>
      [] tokens[1] = "**" /\ Len(tokens) > 1 -> Matches(p, Tail(tokens)) \/ Matches(Tail(p), tokens)
      [] OTHER -> tokens[1] \in {p[1], "*", "**"} /\ Matches(Tail(p), Tail(tokens))

SetLocations(L, p, sub) ==
    LET W == WithParents(L, p)
        new == Append(Front(p), Itoa(Cardinality(Elements(W, Front(p)))))
    IN  IF p = <<>> \/ W = Refused THEN Refused
        ELSE IF Is(W, Front(p), "obj") \/ (Is(W, Front(p), "arr") /\ p \in Paths(W) \cup {new})
        THEN Graft(Drop(W, p), p, sub) ELSE Refused

\* The locations after term i, from those before it and the stored document.
ExpectedTerm(L, i) ==
    LET t == terms[i]
        stored == Locations(raw)
        value == IF t.join = "" THEN Below(stored, t.path)
                 ELSE Locations(joinValueLocked(t.join, pointerGet(raw, t.path)))
    IN  CASE L = Refused -> Refused
          [] t.all -> IF ~t.include THEN RootOnly ELSE IF i = 1 THEN Locations(cloneAny(raw)) ELSE L
          [] t.include -> IF t.path \notin Paths(stored) THEN L
                          ELSE SetLocations(IF Is(L, <<>>, "obj") THEN L ELSE RootOnly, t.path, value)
          [] HasPattern(t.path) ->
                {l \in L : \A n \in 1..Len(l[1]) : ~Matches(SubSeq(l[1], 1, n), t.path)}
          [] OTHER -> IF RemoveLocations(L, t.path) = Refused THEN L ELSE RemoveLocations(L, t.path)

Changes(t) == ~t.all /\ (~t.include \/ t.join # "")
Shares(t) == ~t.all /\ t.include /\ t.join = ""

\* No term includes what an earlier one has changed through a shared object.
ReadsStored ==
    \A i, j \in DOMAIN terms :
        /\ i < j /\ terms[j].include
        /\ Changes(terms[i]) /\ \E k \in 1..i - 1 : Shares(terms[k])
        => ~HasPattern(terms[i].path) /\ ~Nested(terms[i].path, terms[j].path)

\* Removal from an array that leaves its length, which locations do not show.
KeepsLength(t) == ~t.all /\ ~t.include /\ (HasPattern(t.path) \/ raw.k = "arr")

NoArrays == \A l \in Locations(raw) : l[2].k # "arr"

\* The result has what the terms select, in their order, from the stored
\* document, and nothing else (applyProjectionLocked, removePatternAt): also when
\* a term removes below what an earlier one has included.
ProjectionSelects ==
    src # Nil /\ ReadsStored
        /\ ((\E i \in DOMAIN terms : KeepsLength(terms[i])) => NoArrays)
    => (IF out = Err THEN Refused ELSE Locations(out))
           = FoldLeft(ExpectedTerm, RootOnly, [i \in DOMAIN terms |-> i])

\* A result that starts as `all` is a copy (cloneAny): what joins and removals do
\* to it does not show in the document that later terms read.
CopiesStayApart ==
    src # Nil /\ terms # <<>> /\ terms[1] = AllTerm(TRUE) /\ (\A i \in DOMAIN terms : ~Shares(terms[i]))
        => src = raw

----------------------------------------------------------------------------
\* Instances.

\* Documents are projected as they were put; larger ones are not patched.
MCInit == Init /\ InitProjection

MCNext ==
    \/ src = Nil /\ Size(raw) <= MaxSize /\ Next /\ UNCHANGED pvars
    \/ count = 0 /\ NextProjection

MCSpec == MCInit /\ [][MCNext]_<<vars, pvars>>

\* No step depends on the last operation; the action properties read its new value.
ProgramState == <<raw, doc, count, pvars>>

O1(a) == Obj("a" :> a)
O2(a, b) == Obj("a" :> a @@ "b" :> b)

MCRoots == {O2(Arr(<<Num(1), Text>>), O1(Digits(2))), O2(Num(3), Obj("0" :> Num(4)))} \cup {
    Obj("a" :> Obj("a" :> Obj("a" :> Num(1) @@ "0" :> Num(6)) @@ "0" :> Num(2)) @@ "b" :> Text @@ "0" :> Num(1)),
    Arr(<<Num(1), O2(Num(6), O1(Nil)), Text, Nil>>)}

MCPaths == {<<>>, Malformed, <<"a">>, <<"a", "0">>, <<"a", "1">>, <<"a", "2">>, <<"a", "-">>, <<"b", "a">>, <<"b", "0">>}

MCValues == {Num(2), Nil, O1(Num(1))}

MCOps ==
    [op : {"add", "add_create", "replace", "test"}, path : MCPaths, from : {<<>>}, value : MCValues]
        \cup [op : {"remove"}, path : MCPaths, from : {<<>>}, value : {Nil}]
        \cup [op : {"increment"}, path : MCPaths, from : {<<>>}, value : {Num(3), Text}]
        \cup [op : {"move", "copy", "swap"}, path : MCPaths, from : MCPaths, value : {Nil}]
        \cup [op : {"unknown"}, path : {<<"a">>}, from : {<<>>}, value : {Nil}]

P(include, path) == Term(include, path, "")

MCTerms ==
    {AllTerm(TRUE), AllTerm(FALSE), P(TRUE, <<"a">>), P(TRUE, <<"b">>), P(TRUE, <<"a", "0">>), P(TRUE, <<"b", "a">>),
     P(TRUE, <<"b", "0">>), P(TRUE, <<>>), Term(TRUE, <<"a">>, "c"), Term(TRUE, <<"b", "a">>, "c"),
     Term(TRUE, <<"b">>, "gone"), P(FALSE, <<"a">>), P(FALSE, <<"a", "0">>), P(FALSE, <<"b", "a">>),
     P(FALSE, <<"b", "0">>), P(TRUE, <<"a", "a">>), P(FALSE, <<"a", "a">>), P(TRUE, <<"1">>), P(FALSE, <<"1", "a">>),
     P(FALSE, <<"**", "0">>), P(FALSE, <<"*", "**">>), P(FALSE, <<"*", "a">>)}

MCForeign == "c" :> (1 :> O1(Num(1)) @@ 2 :> O1(Nil))

MCMerges ==
    {O1(Nil), O1(O1(Num(1))), O2(O1(Nil), Arr(<<Nil>>)), Obj("b" :> Obj("0" :> Nil @@ "a" :> Text)), Num(1)}
=============================================================================
