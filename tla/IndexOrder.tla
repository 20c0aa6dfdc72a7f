----------------------------- MODULE IndexOrder -----------------------------
(***************************************************************************)
(* The order in which an index yields its documents (db.go,                 *)
(* scanIndexCandidateIDsFunc without an operator): by key, then by id.  A   *)
(* document without a key is not in the index.                              *)
(***************************************************************************)
EXTENDS JQValue

\* normalizeIndexValue: the keys of one value, none or one.
IndexKeys(kind, v) ==
    CASE kind = "i64" /\ v.k = "i64" -> {v.n}
      [] kind = "i64" /\ v.k = "str" /\ IsDigits(v.s) -> {ReadDigits(v.s)}
      [] kind = "str" /\ v.k = "str" -> {v.s}
      [] kind = "str" /\ v.k = "i64" -> {FormatInt(v.n)}
      [] kind = "str" /\ v.k = "f64" -> {formatJQFloat(v.n)}
      [] OTHER -> {}

\* Sensitivity variant: integers are ordered as texts.
compareIndexKeysAsText(kind, a, b) ==
    IF kind = "i64" THEN Compare(FormatInt(a), FormatInt(b)) ELSE Compare(a, b)

compareIndexKeys(kind, a, b) == IF kind = "i64" THEN a - b ELSE Compare(a, b)

\* values[id][1]: the value of document id under the path of the index.
scanIndexCandidateIDs(kind, values, desc) ==
    LET entries == UNION {{[key |-> key, id |-> id] : key \in IndexKeys(kind, values[id][1])} :
                             id \in DOMAIN values}
        before(e, f) == LET c == compareIndexKeys(kind, e.key, f.key)
                        IN  c < 0 \/ (c = 0 /\ e.id < f.id)
        ordered == SetToSortSeq(entries, before)
        ids == [i \in DOMAIN ordered |-> ordered[i].id]
    IN  IF desc THEN Reverse(ids) ELSE ids
=============================================================================
