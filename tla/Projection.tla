----------------------------- MODULE Projection -----------------------------
(***************************************************************************)
(* The projection of a document that a query returns (db.go:                *)
(* applyProjectionLocked, joinValueLocked): one step for each term, over the *)
(* decoded document src and the result out.                                 *)
(*                                                                          *)
(* A term that includes a path puts src's own object at that path into out, *)
(* not a copy: what a later term sets or removes below it is set or removed *)
(* in src as well.  `shared` has the paths where out holds src's object.    *)
(* Shared arrays hold scalars.                                              *)
(***************************************************************************)
EXTENDS Patch

CONSTANTS
    Terms,      \* [include, all, path, join]: join is a collection or ""
    Foreign,    \* by collection, a function from ids to documents
    MaxTerms    \* bound on the terms of a projection

VARIABLES
    src,        \* the decoded document; Nil outside a projection
    out,        \* the result so far; Err after a term that fails
    shared,     \* paths
    terms       \* the terms done

pvars == <<src, out, shared, terms>>

Term(include, path, join) == [include |-> include, all |-> FALSE, path |-> path, join |-> join]
AllTerm(include) == [include |-> include, all |-> TRUE, path |-> <<>>, join |-> ""]

pointerSet(d, ptr, val) ==
    pointerSetMode(d, ptr, val, [parents |-> TRUE, leaf |-> TRUE, insert |-> FALSE])

----------------------------------------------------------------------------
\* Removal by a path with `*` and `**`.  A key goes; an array keeps its length,
\* with null for what goes.

HasPattern(path) == \E i \in DOMAIN path : path[i] \in {"*", "**"}

removePatternLeaf(v, t) ==
    CASE v.k = "obj" -> Obj([x \in DOMAIN v.m \ (IF t \in {"*", "**"} THEN DOMAIN v.m ELSE {t}) |-> v.m[x]])
      [] v.k = "arr" -> IF t \in {"*", "**"} THEN Arr([i \in DOMAIN v.s |-> Nil])
                        ELSE IF IsIndex(t, v.s) THEN Arr(Append(RemoveAt(v.s, Atoi[t] + 1), Nil))
                        ELSE v
      [] OTHER -> v

RECURSIVE removePatternAt(_, _)

\* The value with the pattern removed from each of its children.
InChildren(v, tokens) ==
    CASE v.k = "obj" -> Obj([x \in DOMAIN v.m |-> removePatternAt(v.m[x], tokens)])
      [] v.k = "arr" -> Arr([i \in DOMAIN v.s |-> removePatternAt(v.s[i], tokens)])
      [] OTHER -> v

\* Sensitivity variant: `**` needs at least one level.
removePatternAtBelow(v, tokens) ==
    LET t == Head(tokens)
    IN  CASE Len(tokens) = 1 -> removePatternLeaf(v, t)
          [] t = "*" -> InChildren(v, Tail(tokens))
          [] t = "**" -> InChildren(InChildren(v, Tail(tokens)), tokens)
          [] HasChild(v, t) -> WithChild(v, t, removePatternAt(Child(v, t), Tail(tokens)))
          [] OTHER -> v

removePatternAt(v, tokens) ==
    LET t == Head(tokens)
    IN  CASE Len(tokens) = 1 -> removePatternLeaf(v, t)
          [] t = "*" -> InChildren(v, Tail(tokens))
          [] t = "**" -> InChildren(removePatternAt(v, Tail(tokens)), tokens)
          [] HasChild(v, t) -> WithChild(v, t, removePatternAt(Child(v, t), Tail(tokens)))
          [] OTHER -> v

\* An error leaves the result as it is.
Without(d, path) ==
    LET removed == pointerRemove(d, path)
    IN  IF HasPattern(path) THEN removePatternAt(d, path)
        ELSE IF removed = Err THEN d ELSE removed

----------------------------------------------------------------------------
\* Joins: an id, or each id of an array, becomes the document of that id.

HasInt64(v) == Numeric(v) /\ IsInt(v.n)

joinOne(coll, v) ==
    IF HasInt64(v) /\ v.n \in DOMAIN Foreign[coll] THEN Foreign[coll][v.n] ELSE Nil

joinValueLocked(coll, v) ==
    IF coll \notin DOMAIN Foreign THEN Nil
    ELSE IF v.k = "arr"
    THEN Arr(SelectSeq([i \in DOMAIN v.s |-> joinOne(coll, v.s[i])], LAMBDA j : j # Nil))
    ELSE joinOne(coll, v)

----------------------------------------------------------------------------
\* Two holders of one object.

PutAt(d, path, val) == IF path = <<>> THEN val ELSE setAt(d, path, val, ReplaceMode)

\* What src's holder sees after out's holder has become new: a slice keeps its
\* length over the common elements.
Seen(old, new) ==
    IF old.k = "arr" THEN Arr(new.s \o SubSeq(old.s, Len(new.s) + 1, Len(old.s))) ELSE new

Follow(s, o, paths) ==
    FoldLeft(LAMBDA d, p : PutAt(d, p, Seen(Walk(d, p), Walk(o, p))), s, SetToSeq(paths))

Nowhere(paths, o) == {p \in paths : Walk(o, p) = Err}

\* Sensitivity variant: the result starts as the document itself.
copyOfSame(s) == [out |-> s, shared |-> {<<>>}]

copyOf(s) == [out |-> cloneAny(s), shared |-> {}]

----------------------------------------------------------------------------
InitProjection == src = Nil /\ out = Nil /\ shared = {} /\ terms = <<>>

Projecting == src # Nil /\ out # Err

\* decodeJSONDocument.
BeginProjection ==
    /\ src = Nil /\ doc = Nil
    /\ src' = raw /\ out' = Obj(<<>>)
    /\ UNCHANGED <<shared, terms>>

\* `all` counts as the first term only.
ProjectAll(t) ==
    /\ Projecting /\ t.all
    /\ LET next == IF ~t.include THEN [out |-> Obj(<<>>), shared |-> {}]
                   ELSE IF terms = <<>> THEN copyOf(src)
                   ELSE [out |-> out, shared |-> shared]
       IN  out' = next.out /\ shared' = next.shared
    /\ UNCHANGED src

\* A path the document does not have is skipped.  A result that is no object
\* starts again as an empty one.
Include(t) ==
    /\ Projecting /\ ~t.all /\ t.include
    /\ LET found == pointerGet(src, t.path)
           val == IF t.join = "" THEN found ELSE joinValueLocked(t.join, found)
           set == pointerSet(IF out.k = "obj" THEN out ELSE Obj(<<>>), t.path, val)
           kept == {p \in shared : out.k = "obj" /\ ~IsPrefix(t.path, p)}
           own == t.join = "" /\ val.k \in {"obj", "arr"} /\ ~\E p \in kept : IsPrefix(p, t.path)
       IN  IF found = Err THEN UNCHANGED <<src, out, shared>>
           ELSE IF set = Err THEN out' = Err /\ UNCHANGED <<src, shared>>
           ELSE /\ out' = set
                /\ shared' = kept \cup (IF own THEN {t.path} ELSE {})
                /\ src' = Follow(src, out', shared')

Exclude(t) ==
    /\ Projecting /\ ~t.all /\ ~t.include
    /\ out' = Without(out, t.path)
    /\ shared' = shared \ Nowhere(shared, out')
    /\ src' = Follow(src, out', shared')

ProjectTerm(t) ==
    /\ Len(terms) < MaxTerms
    /\ terms' = Append(terms, t)
    /\ ProjectAll(t) \/ Include(t) \/ Exclude(t)

\* marshalJSON of the result, or the error.
EndProjection ==
    /\ src # Nil
    /\ src' = Nil /\ out' = Nil /\ shared' = {} /\ terms' = <<>>

NextProjection ==
    /\ BeginProjection \/ EndProjection \/ \E t \in Terms : ProjectTerm(t)
    /\ UNCHANGED vars
=============================================================================
