------------------------------- MODULE Patch -------------------------------
(***************************************************************************)
(* JSON patches on a stored document (patch.go): the loop of applyRFC6902,  *)
(* one step for each operation of the list, and applyMergePatch.            *)
(*                                                                          *)
(* Numbers are the integers; those in MinInt..MaxInt are int64, all others, *)
(* and everything cloneAny has copied, have passed through float64, which   *)
(* holds the integers up to Exact in magnitude and rounds beyond.           *)
(***************************************************************************)
EXTENDS Pointer

CONSTANTS
    MaxInt,     \* the largest int64
    Exact,      \* 2^53: float64 holds every integer up to here
    Roots,      \* documents that may be stored at the start
    Ops,        \* operations of a JSON patch
    Merges,     \* merge patches
    MaxOps,     \* bound on the operations of all patches together
    MaxSize     \* bound on the number of values in a document

ASSUME ExactAssumption == Exact \in Nat /\ MaxInt \in Nat /\ Exact < MaxInt

VARIABLES
    raw,        \* the stored document
    doc,        \* the decoded copy the loop changes; Nil outside the loop
    op,         \* the loop variable
    count       \* operations and merges so far

vars == <<raw, doc, op, count>>

NoOp == [op |-> "none", path |-> <<>>, from |-> <<>>, value |-> Nil]

----------------------------------------------------------------------------
\* Numbers.

Abs(n) == IF n < 0 THEN -n ELSE n

\* The distance of neighbouring float64 values around n, up to 4 * Exact.
Spacing(n) == IF Abs(n) <= Exact THEN 1 ELSE IF Abs(n) <= 2 * Exact THEN 2 ELSE 4

\* Nearest value, ties to the even multiple.
ToFloat(n) ==
    LET u == Spacing(n)
        low == n \div u
        rest == 2 * (n % u)
    IN  u * (IF rest < u \/ (rest = u /\ low % 2 = 0) THEN low ELSE low + 1)

IsInt(n) == -MaxInt - 1 <= n /\ n <= MaxInt

WrapInt(n) == ((n + MaxInt + 1) % (2 * (MaxInt + 1))) - MaxInt - 1

\* toFloat64 and toInt64 read strings too.
Numeric(v) == v.k \in {"num", "digits"}

incrementValue(cur, inc) ==
    IF ~Numeric(cur) \/ ~Numeric(inc) THEN Err
    ELSE IF IsInt(cur.n) /\ IsInt(inc.n) THEN Num(WrapInt(cur.n + inc.n))
    ELSE Num(ToFloat(ToFloat(cur.n) + ToFloat(inc.n)))

equalValue(a, b) ==
    IF Numeric(a) /\ Numeric(b) THEN ToFloat(a.n) = ToFloat(b.n) ELSE a = b

RECURSIVE cloneAny(_)
cloneAny(v) ==
    CASE v.k = "num" -> Num(ToFloat(v.n))
      [] v.k = "arr" -> Arr([i \in DOMAIN v.s |-> cloneAny(v.s[i])])
      [] v.k = "obj" -> Obj([t \in DOMAIN v.m |-> cloneAny(v.m[t])])
      [] OTHER -> v

----------------------------------------------------------------------------
\* The cases of applyRFC6902.  Each returns the changed document or Err.

\* Go on with an intermediate document unless it is an error.
Then(d, Rest(_)) == IF d = Err THEN Err ELSE Rest(d)

IncrementOp(d, o) ==
    LET cur == pointerGet(d, o.path)
        next == incrementValue(cur, o.value)
    IN  IF cur = Err \/ next = Err THEN Err ELSE pointerReplace(d, o.path, next)

MoveOp(d, o) ==
    LET v == pointerGet(d, o.from)
    IN  IF v = Err THEN Err
        ELSE Then(pointerRemove(d, o.from), LAMBDA e : pointerAdd(e, o.path, v, FALSE))

CopyOp(d, o) ==
    LET v == pointerGet(d, o.from)
    IN  IF v = Err THEN Err ELSE pointerAdd(d, o.path, cloneAny(v), FALSE)

SwapOpInserts(d, o) ==
    LET from == pointerGet(d, o.from)
        to == pointerGet(d, o.path)
    IN  IF from = Err THEN Err
        ELSE IF to # Err
        THEN Then(pointerReplace(d, o.from, cloneAny(to)),
                  LAMBDA e : pointerAdd(e, o.path, cloneAny(from), FALSE))
        ELSE Then(pointerAdd(d, o.path, cloneAny(from), FALSE),
                  LAMBDA e : pointerRemove(e, o.from))

SwapOp(d, o) ==
    LET from == pointerGet(d, o.from)
        to == pointerGet(d, o.path)
    IN  IF from = Err THEN Err
        ELSE IF to # Err
        THEN Then(pointerReplace(d, o.from, cloneAny(to)),
                  LAMBDA e : pointerReplace(e, o.path, cloneAny(from)))
        ELSE Then(pointerAdd(d, o.path, cloneAny(from), FALSE),
                  LAMBDA e : pointerRemove(e, o.from))

TestOp(d, o) ==
    LET v == pointerGet(d, o.path)
    IN  IF v # Err /\ equalValue(v, o.value) THEN d ELSE Err

applyOp(d, o) ==
    CASE o.op = "add" -> pointerAdd(d, o.path, o.value, FALSE)
      [] o.op = "add_create" -> pointerAdd(d, o.path, o.value, TRUE)
      [] o.op = "replace" -> pointerReplace(d, o.path, o.value)
      [] o.op = "remove" -> pointerRemove(d, o.path)
      [] o.op = "increment" -> IncrementOp(d, o)
      [] o.op = "move" -> MoveOp(d, o)
      [] o.op = "copy" -> CopyOp(d, o)
      [] o.op = "swap" -> SwapOp(d, o)
      [] o.op = "test" -> TestOp(d, o)
      [] OTHER -> Err

----------------------------------------------------------------------------
\* Merge patches.

MergedKeysKeepsNulls(tm, pm) == DOMAIN tm \cup DOMAIN pm

\* Keys of the target and of the patch, without those the patch maps to null.
MergedKeys(tm, pm) == {t \in DOMAIN tm \cup DOMAIN pm : t \in DOMAIN pm => pm[t] # Nil}

RECURSIVE mergePatchValue(_, _)
mergePatchValue(target, patch) ==
    LET tm == IF target.k = "obj" THEN target.m ELSE <<>>
        old(t) == IF t \in DOMAIN tm THEN tm[t] ELSE Nil
    IN  IF patch.k # "obj" THEN patch
        ELSE Obj([t \in MergedKeys(tm, patch.m) |->
                    IF t \in DOMAIN patch.m THEN mergePatchValue(old(t), patch.m[t]) ELSE tm[t]])

----------------------------------------------------------------------------
RECURSIVE Size(_)
Size(v) == 1 + SumFunction([t \in Children(v) |-> Size(Child(v, t))])

Storable(v) == v.k \in {"obj", "arr"}

Init ==
    /\ raw \in Roots
    /\ doc = Nil
    /\ op = NoOp
    /\ count = 0

\* decodeJSON of the stored document.
Decode ==
    /\ doc = Nil
    /\ doc' = raw
    /\ op' = NoOp
    /\ UNCHANGED <<raw, count>>

\* One iteration of the loop; an error abandons the decoded copy.
ApplyOp(o) ==
    /\ doc # Nil
    /\ count < MaxOps
    /\ op' = o
    /\ count' = count + 1
    /\ UNCHANGED raw
    /\ LET result == applyOp(doc, o)
       IN  \/ result = Err /\ doc' = Nil
           \/ result # Err /\ Size(result) <= MaxSize /\ doc' = result

\* marshalJSON of the copy after the last operation, and its put.
Encode ==
    /\ doc # Nil
    /\ raw' = doc
    /\ doc' = Nil
    /\ op' = NoOp
    /\ UNCHANGED count

\* applyMergePatch, and the put of its result.
Merge(patch) ==
    /\ doc = Nil
    /\ count < MaxOps
    /\ count' = count + 1
    /\ LET merged == mergePatchValue(raw, patch)
       IN  Storable(merged) /\ Size(merged) <= MaxSize /\ raw' = merged
    /\ op' = [NoOp EXCEPT !.op = "merge", !.value = patch]
    /\ UNCHANGED doc

Next ==
    \/ Decode
    \/ Encode
    \/ \E o \in Ops : ApplyOp(o)
    \/ \E patch \in Merges : Merge(patch)

Spec == Init /\ [][Next]_vars
=============================================================================
