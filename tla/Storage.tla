------------------------------ MODULE Storage ------------------------------
(***************************************************************************)
(* The key layout on the storage engine (storage.go: keyDoc, keyIndex,      *)
(* keyUniqueIndex) and the batches the database writes to it (db.go:        *)
(* persistPendingLocked, dropCollectionDataAndCommitLocked,                 *)
(* dropIndexesDataAndCommitLocked, rebuildIndex).                           *)
(*                                                                          *)
(*   docs : <<collection dbid, id>>  |-> document     doc/<dbid>/<id>       *)
(*   idx  : {<<index dbid, key, id>>}                 idx/<dbid>/<key>/<id> *)
(*   uidx : <<index dbid, key>>      |-> id           uidx/<dbid>/<key>     *)
(*                                                                          *)
(* The meta/state key is the catalog record itself.  The seq/<dbid> keys    *)
(* are written and deleted by the code but never read; they are left out.   *)
(* A batch is applied atomically by the engine; inside one batch the last   *)
(* operation on a key wins, which is how the operators below are written.   *)
(***************************************************************************)
EXTENDS Catalog

DocsType(docs) ==
    /\ docs = [k \in DOMAIN docs |-> docs[k]]
    /\ DOMAIN docs \subseteq Nat \X Ids
    /\ \A k \in DOMAIN docs : docs[k] \in Docs

IdxType(idx) == idx \subseteq Nat \X Keys \X Ids

UidxType(uidx) ==
    /\ uidx = [k \in DOMAIN uidx |-> uidx[k]]
    /\ DOMAIN uidx \subseteq Nat \X Keys
    /\ \A k \in DOMAIN uidx : uidx[k] \in Ids

\* getDocRaw, getDocNode: one Get of keyDoc.
getDoc(docs, dbid, id) == IF <<dbid, id>> \in DOMAIN docs THEN docs[<<dbid, id>>] ELSE NoDoc

StoredIds(docs, dbid) == {id \in Ids : <<dbid, id>> \in DOMAIN docs}

----------------------------------------------------------------------------
\* persistPendingLocked.  A mutation's dbid is looked up by name in the
\* catalog at commit time; a mutation of a collection that is no longer there
\* finds a nil collection, and its index keys are left alone.

Dbid(c, m) == c.cols[m.col].dbid

\* The mutations are handled in order, and a put encodes its document before it
\* looks at its collection.  Unencodable: encodeStoredDoc returns an error (the
\* root is neither object nor array, or a key is too long) and so does the
\* commit.  NilCollection: a put dereferences the nil collection of a name that
\* is no longer there.
Homeless(c, m) == m.new # NoDoc /\ Dbid(c, m) = 0

Unencodable(c, pend) ==
    \E i \in DOMAIN pend : /\ pend[i].new \in Unstorable
                           /\ \A j \in 1..(i - 1) : ~Homeless(c, pend[j])

NilCollection(c, pend) ==
    \E i \in DOMAIN pend : /\ Homeless(c, pend[i])
                           /\ \A j \in 1..i : pend[j].new \notin Unstorable

\* Sensitivity variant: a delete overwrites the document instead of removing
\* its key.
persistDocsTombstones(c, docs, pend) ==
    LET live == {i \in DOMAIN pend : Dbid(c, pend[i]) # 0}
        keyOf(i) == <<Dbid(c, pend[i]), pend[i].id>>
        hits(k) == {i \in live : keyOf(i) = k}
    IN  [k \in DOMAIN docs \cup {keyOf(i) : i \in live} |->
            IF hits(k) # {} THEN pend[Max(hits(k))].new ELSE docs[k]]

persistDocs(c, docs, pend) ==
    LET live == {i \in DOMAIN pend : Dbid(c, pend[i]) # 0}
        keyOf(i) == <<Dbid(c, pend[i]), pend[i].id>>
        hits(k) == {i \in live : keyOf(i) = k}
        after(k) == IF hits(k) # {} THEN pend[Max(hits(k))].new ELSE docs[k]
    IN  [k \in {k \in DOMAIN docs \cup {keyOf(i) : i \in live} : after(k) # NoDoc}
            |-> after(k)]

\* The values mutation m's document contributes to the index with dbid x.
IndexValues(c, m, x, unique, doc) ==
    UNION {valuesForIndex(doc, p) :
              p \in {q \in Indexed(c, m.col) : /\ c.cols[m.col].ix[q].dbid = x
                                               /\ c.cols[m.col].ix[q].unique = unique}}

IndexDbids(c) == {c.cols[n].ix[p].dbid : n \in Names, p \in Paths} \ {0}

\* A mutation deletes the old document's keys and then sets the new one's
\* (deleteIndexKeys, setIndexKeys), so it leaves a key it touches present
\* exactly when the new document has the value.
persistIdx(c, idx, pend) ==
    LET of(i, x, doc) == IndexValues(c, pend[i], x, FALSE, doc)
        hits(e) == {i \in DOMAIN pend :
                       /\ pend[i].id = e[3]
                       /\ e[2] \in of(i, e[1], pend[i].old) \cup of(i, e[1], pend[i].new)}
    IN  {e \in idx \cup (IndexDbids(c) \X Keys \X Ids) :
            IF hits(e) = {} THEN e \in idx
            ELSE e[2] \in of(Max(hits(e)), e[1], pend[Max(hits(e))].new)}

\* Sensitivity variant: an update leaves the old value's unique key behind.
persistUidxKeepsOld(c, uidx, pend) ==
    LET of(i, x, doc) == IndexValues(c, pend[i], x, TRUE, doc)
        hits(k) == {i \in DOMAIN pend : k[2] \in of(i, k[1], pend[i].new)}
        all == {k \in DOMAIN uidx \cup (IndexDbids(c) \X Keys) :
                   hits(k) # {} \/ k \in DOMAIN uidx}
    IN  [k \in all |-> IF hits(k) = {} THEN uidx[k] ELSE pend[Max(hits(k))].id]

persistUidx(c, uidx, pend) ==
    LET of(i, x, doc) == IndexValues(c, pend[i], x, TRUE, doc)
        hits(k) == {i \in DOMAIN pend :
                       k[2] \in of(i, k[1], pend[i].old) \cup of(i, k[1], pend[i].new)}
        last(k) == Max(hits(k))
        all == {k \in DOMAIN uidx \cup (IndexDbids(c) \X Keys) :
                   IF hits(k) = {} THEN k \in DOMAIN uidx
                   ELSE k[2] \in of(last(k), k[1], pend[last(k)].new)}
    IN  [k \in all |-> IF hits(k) = {} THEN uidx[k] ELSE pend[last(k)].id]

----------------------------------------------------------------------------
\* DeleteRange over the key prefixes of collections and indexes.

dropDocs(docs, dbid) == [k \in {k \in DOMAIN docs : k[1] # dbid} |-> docs[k]]

dropIdx(idx, xs) == {e \in idx : e[1] \notin xs}

dropUidx(uidx, xs) == [k \in {k \in DOMAIN uidx : k[1] \notin xs} |-> uidx[k]]

IndexDbidsOf(c, n) == {c.cols[n].ix[p].dbid : p \in Indexed(c, n)}

----------------------------------------------------------------------------
\* rebuildIndex: what one scan of the collection's stored documents yields.

IndexEntries(docs, dbid, p) ==
    {e \in Keys \X Ids : e[1] \in valuesForIndex(getDoc(docs, dbid, e[2]), p)}

Duplicates(entries) == \E e, f \in entries : e[1] = f[1] /\ e[2] # f[2]

buildIdx(idx, x, entries) == dropIdx(idx, {x}) \cup {<<x, e[1], e[2]>> : e \in entries}

buildUidx(uidx, x, entries) ==
    LET kept == dropUidx(uidx, {x})
        new == {<<x, e[1]>> : e \in entries}
    IN  [k \in DOMAIN kept \cup new |->
            IF k \in new THEN (CHOOSE e \in entries : e[1] = k[2])[2] ELSE uidx[k]]

----------------------------------------------------------------------------
\* Sensitivity variant: documents buffered in the same transaction are not
\* compared with the new one.
checkUniqueConstraintsStoredOnly(c, n, id, doc, uidx, pend) ==
    \A p \in Indexed(c, n) : LET x == c.cols[n].ix[p] IN x.unique =>
        \A v \in valuesForIndex(doc, p) :
            <<x.dbid, v>> \in DOMAIN uidx =>
                \/ uidx[<<x.dbid, v>>] = id
                \/ pendingDeletes(pend, n, uidx[<<x.dbid, v>>])

\* checkUniqueConstraints: no value of `doc` is owned by another document,
\* stored (and not deleted by a buffered mutation) or buffered.
checkUniqueConstraints(c, n, id, doc, uidx, pend) ==
    \A p \in Indexed(c, n) : LET x == c.cols[n].ix[p] IN x.unique =>
        \A v \in valuesForIndex(doc, p) :
            /\ <<x.dbid, v>> \in DOMAIN uidx =>
                  \/ uidx[<<x.dbid, v>>] = id
                  \/ pendingDeletes(pend, n, uidx[<<x.dbid, v>>])
            /\ \A o \in Ids \ {id} :
                  v \notin valuesForIndex(pendingDocState(pend, n, o, NoDoc), p)
=============================================================================
