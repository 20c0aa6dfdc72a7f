------------------------------ MODULE Pointer ------------------------------
(***************************************************************************)
(* Decoded JSON documents (json.go: readJSONAny) and the pointer operations *)
(* on them (pointer.go).                                                    *)
(*                                                                          *)
(* A value is a record tagged with its kind: nil, a number, a string that   *)
(* reads as a number ("digits"), any other scalar ("text"), an array or an  *)
(* object.  A pointer is the sequence of its tokens.                        *)
(***************************************************************************)
EXTENDS Integers, SequencesExt, TLC

Nil == [k |-> "nil"]
Text == [k |-> "text"]
Num(n) == [k |-> "num", n |-> n]
Digits(n) == [k |-> "digits", n |-> n]
Arr(s) == [k |-> "arr", s |-> s]
Obj(m) == [k |-> "obj", m |-> m]

\* What a pointer operation returns with an error in place of a value.
Err == [k |-> "err"]

\* A pointer that does not start with a slash; every operation refuses it.
Malformed == <<"no leading slash">>

\* strconv.Atoi on the tokens in use: every other token is no number.
Atoi == "0" :> 0 @@ "1" :> 1 @@ "2" :> 2 @@ "3" :> 3 @@ "4" :> 4

IsIndex(t, s) == t \in DOMAIN Atoi /\ Atoi[t] < Len(s)

HasChild(v, t) ==
    \/ v.k = "obj" /\ t \in DOMAIN v.m
    \/ v.k = "arr" /\ IsIndex(t, v.s)

Child(v, t) == IF v.k = "obj" THEN v.m[t] ELSE v.s[Atoi[t] + 1]

Children(v) ==
    CASE v.k = "obj" -> DOMAIN v.m
      [] v.k = "arr" -> {t \in DOMAIN Atoi : IsIndex(t, v.s)}
      [] OTHER -> {}

WithChild(v, t, c) ==
    IF v.k = "obj" THEN Obj((t :> c) @@ v.m) ELSE Arr(ReplaceAt(v.s, Atoi[t] + 1, c))

RECURSIVE Walk(_, _)
Walk(v, tokens) ==
    IF tokens = <<>> THEN v
    ELSE IF HasChild(v, Head(tokens)) THEN Walk(Child(v, Head(tokens)), Tail(tokens))
    ELSE Err

pointerGet(doc, ptr) == IF ptr = Malformed THEN Err ELSE Walk(doc, ptr)

----------------------------------------------------------------------------
\* Setting.  A mode says whether missing parents are created, whether a new
\* leaf may be, and whether an array index inserts or overwrites.

AddMode(createParents) == [parents |-> createParents, leaf |-> TRUE, insert |-> TRUE]
ReplaceMode == [parents |-> FALSE, leaf |-> FALSE, insert |-> FALSE]

setArrayLeafPastEnd(s, t, val, mode) ==
    IF t = "-" /\ mode.leaf /\ mode.insert THEN Arr(Append(s, val))
    ELSE IF t \notin DOMAIN Atoi THEN Err
    ELSE IF mode.leaf /\ mode.insert
         THEN IF Atoi[t] >= Len(s) THEN Err ELSE Arr(InsertAt(s, Atoi[t] + 1, val))
    ELSE IF IsIndex(t, s) THEN Arr(ReplaceAt(s, Atoi[t] + 1, val))
    ELSE Err

setArrayLeaf(s, t, val, mode) ==
    IF t = "-" /\ mode.leaf /\ mode.insert THEN Arr(Append(s, val))
    ELSE IF t \notin DOMAIN Atoi THEN Err
    ELSE IF mode.leaf /\ mode.insert
         THEN IF Atoi[t] > Len(s) THEN Err ELSE Arr(InsertAt(s, Atoi[t] + 1, val))
    ELSE IF mode.leaf /\ Atoi[t] = Len(s) THEN Arr(Append(s, val))
    ELSE IF IsIndex(t, s) THEN Arr(ReplaceAt(s, Atoi[t] + 1, val))
    ELSE Err

setLeaf(cur, t, val, mode) ==
    CASE cur.k = "obj" -> IF HasChild(cur, t) \/ mode.leaf THEN WithChild(cur, t, val) ELSE Err
      [] cur.k = "arr" -> setArrayLeaf(cur.s, t, val, mode)
      [] OTHER -> Err

RECURSIVE setAt(_, _, _, _)
setAt(cur, tokens, val, mode) ==
    LET t == Head(tokens)
        inner == IF HasChild(cur, t) THEN Child(cur, t)
                 ELSE IF cur.k = "obj" /\ mode.parents THEN Obj(<<>>)
                 ELSE Err
        updated == IF inner = Err THEN Err ELSE setAt(inner, Tail(tokens), val, mode)
    IN  IF Len(tokens) = 1 THEN setLeaf(cur, t, val, mode)
        ELSE IF updated = Err THEN Err
        ELSE WithChild(cur, t, updated)

RECURSIVE removeAt(_, _)
removeAt(cur, tokens) ==
    LET t == Head(tokens)
        updated == removeAt(Child(cur, t), Tail(tokens))
    IN  IF ~HasChild(cur, t) THEN Err
        ELSE IF Len(tokens) > 1 THEN IF updated = Err THEN Err ELSE WithChild(cur, t, updated)
        ELSE IF cur.k = "arr" THEN Arr(RemoveAt(cur.s, Atoi[t] + 1))
        ELSE Obj([x \in DOMAIN cur.m \ {t} |-> cur.m[x]])

----------------------------------------------------------------------------
\* The callers drop what setAt and removeAt return and keep `doc`: what they
\* see is what was changed in place.  Only a root array whose length should
\* change differs from the returned value: the slice held by `doc` keeps its
\* length, and its old elements unless the append found room behind it.

\* readJSONAny appends one element at a time, so capacities are powers of two.
HasRoom(len) == len \notin {0, 1, 2, 4}

InPlace(doc, result) ==
    IF result = Err \/ doc.k = "obj" \/ Len(result.s) = Len(doc.s) THEN result
    ELSE IF Len(result.s) < Len(doc.s) THEN Arr(Append(result.s, Last(doc.s)))
    ELSE IF HasRoom(Len(doc.s)) THEN Arr(Front(result.s))
    ELSE doc

\* An empty pointer is the root, which is never set or removed.
Settable(ptr) == ptr # <<>> /\ ptr # Malformed

pointerSetMode(doc, ptr, val, mode) ==
    IF Settable(ptr) THEN InPlace(doc, setAt(doc, ptr, val, mode)) ELSE Err

pointerAdd(doc, ptr, val, createParents) == pointerSetMode(doc, ptr, val, AddMode(createParents))

pointerReplace(doc, ptr, val) == pointerSetMode(doc, ptr, val, ReplaceMode)

pointerRemove(doc, ptr) ==
    IF Settable(ptr) THEN InPlace(doc, removeAt(doc, ptr)) ELSE Err
=============================================================================
