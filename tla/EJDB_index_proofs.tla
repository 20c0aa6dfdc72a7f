------------------------- MODULE EJDB_index_proofs -------------------------
(***************************************************************************)
(* Proofs about EJDB's indexes: their keys are those of the stored           *)
(* documents and unique constraints hold, for all constants.  They build on  *)
(* the invariants of EJDB_proofs and EJDB_catalog_proofs.                    *)
(***************************************************************************)
EXTENDS EJDB_catalog_proofs

----------------------------------------------------------------------------
(* Index keys and the documents they stand for. *)

\* Every index of c holds, for each value, the ids of the documents that have it.
KeyExact(c, stored, ks, us, n, p) ==
    \A v \in Keys, id \in Ids :
        LET x == c.cols[n].ix[p]
        IN  v \in valuesForIndex(getDoc(stored, c.cols[n].dbid, id), p) <=>
                IF x.unique THEN <<x.dbid, v>> \in DOMAIN us /\ us[<<x.dbid, v>>] = id
                ELSE <<x.dbid, v, id>> \in ks

Exact(c, stored, ks, us) ==
    \A n \in Names : \A p \in Indexed(c, n) : KeyExact(c, stored, ks, us, n, p)

----------------------------------------------------------------------------
(* The buffer, mutation by mutation. *)

\* The document as the first i mutations leave it.
ViewAt(c, stored, pend, n, id, i) ==
    LET hits == {j \in Touches(pend, n, id) : j <= i}
    IN  IF hits = {} THEN getDoc(stored, c.cols[n].dbid, id) ELSE pend[Max(hits)].new

\* No other document then has a value that doc has under a unique index.
Alone(c, stored, pend, n, id, doc, i) ==
    \A p \in Indexed(c, n) : c.cols[n].ix[p].unique =>
        \A v \in valuesForIndex(doc, p), o \in Ids :
            v \in valuesForIndex(ViewAt(c, stored, pend, n, o, i), p) => o = id

\* A mutation names the document it replaces, unless there was none left, and
\* touches no unique key of another document.
MutationOK(c, stored, pend, i) ==
    LET m == pend[i]
    IN  /\ Exists(c, m.col)
        /\ ViewAt(c, stored, pend, m.col, m.id, i - 1) \in {NoDoc, m.old}
        /\ Alone(c, stored, pend, m.col, m.id, m.old, i - 1)
        /\ Alone(c, stored, pend, m.col, m.id, m.new, i - 1)

BufferOK(c, stored, pend) == \A i \in DOMAIN pend : MutationOK(c, stored, pend, i)

\* So does every document a deleting query has yet to delete.
WindowOK(c, stored, pend, n, todo) ==
    \A i \in DOMAIN todo :
        /\ ViewAt(c, stored, pend, n, todo[i].id, Len(pend)) \in {NoDoc, todo[i].doc}
        /\ Alone(c, stored, pend, n, todo[i].id, todo[i].doc, Len(pend))

----------------------------------------------------------------------------
(* The inductive invariant, beside IInv and CInv. *)

Clean == Free({"abandoned", "torn"})

KeysOK == Clean =>
    /\ Exact(cat, docs, idx, uidx) /\ Exact(meta, docs, idx, uidx) /\ Exact(saved.cat, docs, idx, uidx)

PendingOK == Clean /\ ~dirtyFull =>
    /\ job # IndexJob => BufferOK(cat, docs, pending)
    /\ job.kind = "query" /\ job.act = "del" => WindowOK(cat, docs, pending, job.col, job.todo)

XInv == KeysOK /\ PendingOK

----------------------------------------------------------------------------
(* The view of a document along the buffer. *)

LEMMA FirstPosition ==
    ASSUME NEW n \in Nat, NEW S \in SUBSET (1..n), S # {}
    PROVE  \E i \in S : \A j \in S : i <= j
<1>1. IsWellFoundedOn(OpToRel(<, Nat), Nat)
  BY NatLessThanWellFounded
<1>2. S \in SUBSET Nat
  OBVIOUS
<1>3. PICK i \in S : \A j \in S : ~(<<j, i>> \in OpToRel(<, Nat))
  BY <1>1, <1>2, WFMin
<1>4. \A j \in S : ~(j < i)
  BY <1>2, <1>3 DEF OpToRel
<1> QED
  BY <1>2, <1>4

LEMMA TouchesType ==
    ASSUME NEW pend \in Seq(MutationType), NEW n, NEW id
    PROVE  /\ DOMAIN pend = 1..Len(pend) /\ Len(pend) \in Nat
           /\ Touches(pend, n, id) \in SUBSET (1..Len(pend))
           /\ \A i \in DOMAIN pend : /\ pend[i] \in MutationType /\ pend[i].col \in Names
                                     /\ pend[i].id \in Ids
                                     /\ pend[i].old \in MaybeDocs /\ pend[i].new \in MaybeDocs
<1>1. DOMAIN pend = 1..Len(pend) /\ Len(pend) \in Nat /\ \A i \in DOMAIN pend : pend[i] \in MutationType
  OBVIOUS
<1> QED
  BY <1>1 DEF Touches, MutationType

\* Nothing between i and k touches the document.
LEMMA ViewSkip ==
    ASSUME NEW c, NEW stored, NEW pend \in Seq(MutationType), NEW n, NEW id,
           NEW i \in Int, NEW k \in Int,
           \A j \in Touches(pend, n, id) : j <= i <=> j <= k
    PROVE  ViewAt(c, stored, pend, n, id, i) = ViewAt(c, stored, pend, n, id, k)
<1>1. {j \in Touches(pend, n, id) : j <= i} = {j \in Touches(pend, n, id) : j <= k}
  OBVIOUS
<1> QED
  BY <1>1 DEF ViewAt

\* After a mutation the document is what it wrote.
LEMMA ViewHit ==
    ASSUME NEW c, NEW stored, NEW pend \in Seq(MutationType), NEW n, NEW id,
           NEW i \in Touches(pend, n, id)
    PROVE  ViewAt(c, stored, pend, n, id, i) = pend[i].new
<1> DEFINE hits == {j \in Touches(pend, n, id) : j <= i}
<1>1. Touches(pend, n, id) \in SUBSET (1..Len(pend)) /\ Len(pend) \in Nat
  BY TouchesType
<1>2. hits \in SUBSET (1..Len(pend)) /\ i \in hits
  BY <1>1
<1>3. Max(hits) \in hits /\ i <= Max(hits)
  BY <1>1, <1>2, LastPosition
<1>4. Max(hits) = i
  BY <1>1, <1>3
<1> QED
  BY <1>2, <1>4 DEF ViewAt

\* Before the buffer there is the stored document, after it what OldDoc finds.
LEMMA ViewEnds ==
    ASSUME NEW c, NEW stored, NEW pend \in Seq(MutationType), NEW n, NEW id
    PROVE  /\ ViewAt(c, stored, pend, n, id, 0) = getDoc(stored, c.cols[n].dbid, id)
           /\ ViewAt(c, stored, pend, n, id, Len(pend)) =
                  pendingDocState(pend, n, id, getDoc(stored, c.cols[n].dbid, id))
<1>1. Touches(pend, n, id) \in SUBSET (1..Len(pend)) /\ Len(pend) \in Nat
  BY TouchesType
<1>2. {j \in Touches(pend, n, id) : j <= 0} = {}
  BY <1>1
<1>3. {j \in Touches(pend, n, id) : j <= Len(pend)} = Touches(pend, n, id)
  BY <1>1
<1> QED
  BY <1>2, <1>3 DEF ViewAt, pendingDocState

\* If no mutation after i has the value, before or after, for this document, then
\* the document has it at the end as it has it at i.
LEMMA ViewCarries ==
    ASSUME NEW c, NEW stored, NEW pend \in Seq(MutationType), BufferOK(c, stored, pend),
           NEW n \in Names, NEW id \in Ids, NEW p \in Paths, NEW v, NEW i \in 0..Len(pend),
           \A j \in Touches(pend, n, id) : j > i =>
               v \notin valuesForIndex(pend[j].old, p) /\ v \notin valuesForIndex(pend[j].new, p)
    PROVE  v \in valuesForIndex(ViewAt(c, stored, pend, n, id, Len(pend)), p) <=>
           v \in valuesForIndex(ViewAt(c, stored, pend, n, id, i), p)
<1> DEFINE T == Touches(pend, n, id)
           later == {j \in T : j > i}
<1>1. T \in SUBSET (1..Len(pend)) /\ Len(pend) \in Nat /\ i \in Int /\ DOMAIN pend = 1..Len(pend)
  BY TouchesType
<1>2. CASE later = {}
  <2>1. \A j \in T : j <= Len(pend) <=> j <= i
    BY <1>1, <1>2
  <2> QED
    BY <1>1, <2>1, ViewSkip
<1>3. CASE later # {}
  <2>1. later \in SUBSET (1..Len(pend))
    BY <1>1
  <2>2. PICK f \in later : \A j \in later : f <= j
    BY <1>1, <1>3, <2>1, FirstPosition
  <2>3. f \in DOMAIN pend /\ f \in Nat /\ f > i /\ pend[f].col = n /\ pend[f].id = id
    BY <1>1, <2>1, <2>2 DEF Touches
  <2>4. \A j \in T : j <= f - 1 <=> j <= i
    BY <1>1, <2>2, <2>3
  <2>5. ViewAt(c, stored, pend, n, id, f - 1) = ViewAt(c, stored, pend, n, id, i)
    BY <1>1, <2>3, <2>4, ViewSkip
  <2>6. ViewAt(c, stored, pend, n, id, f - 1) \in {NoDoc, pend[f].old}
    BY <2>3 DEF BufferOK, MutationOK
  <2>7. v \notin valuesForIndex(NoDoc, p) /\ v \notin valuesForIndex(pend[f].old, p)
    BY <2>2 DEF valuesForIndex
  <2>8. v \notin valuesForIndex(ViewAt(c, stored, pend, n, id, i), p)
    BY <2>5, <2>6, <2>7
  <2>9. Max(T) \in T /\ f <= Max(T)
    BY <1>1, <2>2, LastPosition
  <2>10. Max(T) \in T /\ Max(T) > i
    BY <1>1, <2>3, <2>9
  <2>11. ViewAt(c, stored, pend, n, id, Len(pend)) = pend[Max(T)].new
    BY <2>2, ViewEnds DEF pendingDocState
  <2> QED
    BY <2>8, <2>10, <2>11
<1> QED
  BY <1>2, <1>3

----------------------------------------------------------------------------
(* persistPendingLocked keeps the indexes exact. *)

\* After the batch, a collection's documents are those of the view.
LEMMA PersistGet ==
    ASSUME NEW c \in CatalogType, NEW stored, DocsType(stored), OwnRanges(c, stored),
           NEW pend \in Seq(MutationType), NEW n \in Names, Exists(c, n), NEW id \in Ids
    PROVE  getDoc(persistDocs(c, stored, pend), c.cols[n].dbid, id) =
               ViewAt(c, stored, pend, n, id, Len(pend))
<1> DEFINE live == {i \in DOMAIN pend : Dbid(c, pend[i]) # 0}
           keyOf(i) == <<Dbid(c, pend[i]), pend[i].id>>
           hits(k) == {i \in live : keyOf(i) = k}
           after(k) == IF hits(k) # {} THEN pend[Max(hits(k))].new ELSE stored[k]
           keys == {k \in DOMAIN stored \cup {keyOf(i) : i \in live} : after(k) # NoDoc}
           key == <<c.cols[n].dbid, id>>
           T == Touches(pend, n, id)
<1>1. persistDocs(c, stored, pend) = [k \in keys |-> after(k)]
  BY DEF persistDocs
<1>2. /\ \A i \in DOMAIN pend : pend[i].col \in Names /\ pend[i].new \in MaybeDocs
      /\ T \in SUBSET (1..Len(pend)) /\ Len(pend) \in Nat
  BY TouchesType
<1>3. hits(key) = T
  <2>1. ASSUME NEW i \in DOMAIN pend, Dbid(c, pend[i]) = c.cols[n].dbid PROVE pend[i].col = n
    BY <1>2, <2>1 DEF Dbid, OwnRanges, Exists
  <2>2. \A i \in DOMAIN pend : pend[i].col = n => Dbid(c, pend[i]) = c.cols[n].dbid /\ Dbid(c, pend[i]) # 0
    BY ZenonT(30) DEF Dbid, Exists
  <2> QED
    BY <2>1, <2>2 DEF Touches
<1>4. getDoc(persistDocs(c, stored, pend), c.cols[n].dbid, id) = IF key \in keys THEN after(key) ELSE NoDoc
  BY <1>1 DEF getDoc
<1>5. ViewAt(c, stored, pend, n, id, Len(pend)) =
         IF T = {} THEN getDoc(stored, c.cols[n].dbid, id) ELSE pend[Max(T)].new
  <2>1. ViewAt(c, stored, pend, n, id, Len(pend)) =
           pendingDocState(pend, n, id, getDoc(stored, c.cols[n].dbid, id))
    BY ViewEnds
  <2> QED
    BY <2>1, Zenon DEF pendingDocState
<1>6. CASE T = {}
  <2>1. after(key) = stored[key] /\ key \notin {keyOf(i) : i \in live}
    BY <1>3, <1>6
  <2>2. key \in DOMAIN stored => stored[key] # NoDoc
    BY NoDocAssumption, SMTT(30) DEF DocsType
  <2>3. key \in keys <=> key \in DOMAIN stored
    BY <2>1, <2>2
  <2> HIDE DEF keys, after, key
  <2> QED
    BY <1>4, <1>5, <1>6, <2>1, <2>3 DEF getDoc, key
<1>7. CASE T # {}
  <2>1. after(key) = pend[Max(T)].new
    BY <1>3, <1>7
  <2>2. key \in {keyOf(i) : i \in live}
    BY <1>3, <1>7
  <2>3. key \in keys <=> pend[Max(T)].new # NoDoc
    BY <2>1, <2>2
  <2> HIDE DEF keys, after, key
  <2> QED
    BY <1>4, <1>5, <1>7, <2>1, <2>3
<1> QED
  BY <1>6, <1>7

\* What a mutation's document has under an index with a dbid of its own.
LEMMA IndexValuesOf ==
    ASSUME NEW c, IxDistinct(c), NEW n \in Names, NEW p \in Indexed(c, n), NEW m, m.col \in Names, NEW doc,
           NEW u, c.cols[n].ix[p].unique = u
    PROVE  IndexValues(c, m, c.cols[n].ix[p].dbid, u, doc) =
               IF m.col = n THEN valuesForIndex(doc, p) ELSE {}
<1> DEFINE x == c.cols[n].ix[p]
           Q == {q \in Indexed(c, m.col) : /\ c.cols[m.col].ix[q].dbid = x.dbid
                                           /\ c.cols[m.col].ix[q].unique = u}
<1>1. \A q \in Q : m.col = n /\ q = p
  BY DEF IxDistinct
<1>2. m.col = n => Q = {p}
  BY <1>1
<1>3. m.col # n => Q = {}
  BY <1>1
<1>4. IndexValues(c, m, x.dbid, u, doc) = UNION {valuesForIndex(doc, q) : q \in Q}
  BY DEF IndexValues
<1> HIDE DEF Q
<1> QED
  BY <1>2, <1>3, <1>4

LEMMA UniqueIsBoolean ==
    ASSUME NEW c \in CatalogType, NEW n \in Names, NEW p \in Indexed(c, n)
    PROVE  c.cols[n].ix[p].unique \in BOOLEAN
<1>1. p \in Paths
  BY DEF Indexed
<1>2. c.cols[n].ix[p] \in IndexType
  BY <1>1, CatalogParts
<1> QED
  BY <1>2 DEF IndexType

\* A plain index.
LEMMA PersistPlain ==
    ASSUME NEW c \in CatalogType, IxDistinct(c), NEW stored, NEW ks, NEW us,
           NEW pend \in Seq(MutationType), BufferOK(c, stored, pend),
           NEW n \in Names, NEW p \in Indexed(c, n), KeyExact(c, stored, ks, us, n, p),
           ~c.cols[n].ix[p].unique, NEW v \in Keys, NEW id \in Ids
    PROVE  v \in valuesForIndex(ViewAt(c, stored, pend, n, id, Len(pend)), p) <=>
           <<c.cols[n].ix[p].dbid, v, id>> \in persistIdx(c, ks, pend)
<1> DEFINE x == c.cols[n].ix[p].dbid
           e == <<x, v, id>>
           of(i, y, doc) == IndexValues(c, pend[i], y, FALSE, doc)
           hits(f) == {i \in DOMAIN pend :
                         /\ pend[i].id = f[3]
                         /\ f[2] \in of(i, f[1], pend[i].old) \cup of(i, f[1], pend[i].new)}
           has(i) == v \in valuesForIndex(pend[i].old, p) \/ v \in valuesForIndex(pend[i].new, p)
           H == {i \in Touches(pend, n, id) : has(i)}
<1>1. /\ \A i \in DOMAIN pend : pend[i].col \in Names
      /\ Touches(pend, n, id) \in SUBSET (1..Len(pend)) /\ Len(pend) \in Nat
      /\ DOMAIN pend = 1..Len(pend) /\ p \in Paths
  BY TouchesType DEF Indexed
<1>2. \A i \in DOMAIN pend : \A doc : of(i, x, doc) = IF pend[i].col = n THEN valuesForIndex(doc, p) ELSE {}
  <2>1. PICK u : u = FALSE /\ c.cols[n].ix[p].unique = u
    BY <1>1, UniqueIsBoolean
  <2>2. \A i \in DOMAIN pend : \A doc : IndexValues(c, pend[i], x, u, doc) =
                                       IF pend[i].col = n THEN valuesForIndex(doc, p) ELSE {}
    BY <1>1, <2>1, IndexValuesOf
  <2> QED
    BY <2>1, <2>2
<1>3. e[1] = x /\ e[2] = v /\ e[3] = id
  OBVIOUS
<1>4. x \in IndexDbids(c)
  BY DEF Indexed, IndexDbids
<1>5. e \in ks \cup (IndexDbids(c) \X Keys \X Ids)
  BY <1>4
<1>6. persistIdx(c, ks, pend) = {f \in ks \cup (IndexDbids(c) \X Keys \X Ids) :
            IF hits(f) = {} THEN f \in ks ELSE f[2] \in of(Max(hits(f)), f[1], pend[Max(hits(f))].new)}
  BY ZenonT(30) DEF persistIdx
<1>7. e \in persistIdx(c, ks, pend) <=>
         IF hits(e) = {} THEN e \in ks ELSE v \in of(Max(hits(e)), x, pend[Max(hits(e))].new)
  BY <1>3, <1>5, <1>6
<1> HIDE DEF of
<1>8. hits(e) = H
  BY <1>1, <1>2, <1>3 DEF Touches
<1> HIDE DEF hits, e
<1>9. CASE H = {}
  <2>1. \A j \in Touches(pend, n, id) : j > 0 =>
           v \notin valuesForIndex(pend[j].old, p) /\ v \notin valuesForIndex(pend[j].new, p)
    BY <1>9
  <2>2. 0 \in 0..Len(pend)
    BY <1>1
  <2>3. v \in valuesForIndex(ViewAt(c, stored, pend, n, id, Len(pend)), p) <=>
        v \in valuesForIndex(ViewAt(c, stored, pend, n, id, 0), p)
    BY <1>1, <2>1, <2>2, ViewCarries
  <2>4. ViewAt(c, stored, pend, n, id, 0) = getDoc(stored, c.cols[n].dbid, id)
    BY ViewEnds
  <2>5. v \in valuesForIndex(getDoc(stored, c.cols[n].dbid, id), p) <=> e \in ks
    BY DEF KeyExact, e
  <2> QED
    BY <1>7, <1>8, <1>9, <2>3, <2>4, <2>5 DEF e
<1>10. CASE H # {}
  <2>1. H \in SUBSET (1..Len(pend))
    BY <1>1
  <2>2. PICK h : h = Max(H) /\ h \in H /\ \A j \in H : j <= h
    BY <1>1, <1>10, <2>1, LastPosition
  <2>3. h \in 0..Len(pend) /\ h \in DOMAIN pend /\ h \in Touches(pend, n, id) /\ pend[h].col = n
    <3>1. h \in Touches(pend, n, id)
      BY <2>2
    <3>2. h \in DOMAIN pend /\ pend[h].col = n
      BY <3>1 DEF Touches
    <3>3. h \in 0..Len(pend)
      BY <1>1, <3>2
    <3> QED
      BY <3>1, <3>2, <3>3
  <2>4. ASSUME NEW j \in Touches(pend, n, id), j > h, j \in H PROVE FALSE
    <3>1. j <= h /\ j \in Int /\ h \in Int
      BY <1>1, <2>1, <2>2, <2>4
    <3> QED
      BY <2>4, <3>1
  <2>5. \A j \in Touches(pend, n, id) : j > h =>
           v \notin valuesForIndex(pend[j].old, p) /\ v \notin valuesForIndex(pend[j].new, p)
    BY <2>4
  <2>6. v \in valuesForIndex(ViewAt(c, stored, pend, n, id, Len(pend)), p) <=>
        v \in valuesForIndex(ViewAt(c, stored, pend, n, id, h), p)
    BY <1>1, <2>3, <2>5, ViewCarries
  <2>7. ViewAt(c, stored, pend, n, id, h) = pend[h].new
    BY <2>3, ViewHit
  <2>8. e \in persistIdx(c, ks, pend) <=> v \in valuesForIndex(pend[h].new, p)
    BY <1>2, <1>7, <1>8, <1>10, <2>2, <2>3
  <2> QED
    BY <2>6, <2>7, <2>8 DEF e
<1> QED
  BY <1>9, <1>10

\* A unique index.
LEMMA PersistUnique ==
    ASSUME NEW c \in CatalogType, IxDistinct(c), NEW stored, NEW ks, NEW us,
           NEW pend \in Seq(MutationType), BufferOK(c, stored, pend),
           NEW n \in Names, NEW p \in Indexed(c, n), KeyExact(c, stored, ks, us, n, p),
           c.cols[n].ix[p].unique, NEW v \in Keys, NEW id \in Ids
    PROVE  v \in valuesForIndex(ViewAt(c, stored, pend, n, id, Len(pend)), p) <=>
           /\ <<c.cols[n].ix[p].dbid, v>> \in DOMAIN persistUidx(c, us, pend)
           /\ persistUidx(c, us, pend)[<<c.cols[n].ix[p].dbid, v>>] = id
<1> DEFINE x == c.cols[n].ix[p].dbid
           e == <<x, v>>
           of(i, y, doc) == IndexValues(c, pend[i], y, TRUE, doc)
           hits(k) == {i \in DOMAIN pend :
                         k[2] \in of(i, k[1], pend[i].old) \cup of(i, k[1], pend[i].new)}
           last(k) == Max(hits(k))
           all == {k \in DOMAIN us \cup (IndexDbids(c) \X Keys) :
                     IF hits(k) = {} THEN k \in DOMAIN us
                     ELSE k[2] \in of(last(k), k[1], pend[last(k)].new)}
           res == persistUidx(c, us, pend)
           has(i) == v \in valuesForIndex(pend[i].old, p) \/ v \in valuesForIndex(pend[i].new, p)
           H == {i \in DOMAIN pend : pend[i].col = n /\ has(i)}
<1>1. /\ \A i \in DOMAIN pend : pend[i].col \in Names
      /\ Touches(pend, n, id) \in SUBSET (1..Len(pend)) /\ Len(pend) \in Nat
      /\ DOMAIN pend = 1..Len(pend) /\ p \in Paths
  BY TouchesType DEF Indexed
<1>2. \A i \in DOMAIN pend : \A doc : of(i, x, doc) = IF pend[i].col = n THEN valuesForIndex(doc, p) ELSE {}
  <2>1. PICK u : u = TRUE /\ c.cols[n].ix[p].unique = u
    BY <1>1, UniqueIsBoolean
  <2>2. \A i \in DOMAIN pend : \A doc : IndexValues(c, pend[i], x, u, doc) =
                                       IF pend[i].col = n THEN valuesForIndex(doc, p) ELSE {}
    BY <1>1, <2>1, IndexValuesOf
  <2> QED
    BY <2>1, <2>2
<1>3. e[1] = x /\ e[2] = v /\ e \in IndexDbids(c) \X Keys
  BY DEF Indexed, IndexDbids
<1>4. res = [k \in all |-> IF hits(k) = {} THEN us[k] ELSE pend[last(k)].id]
  BY DEF persistUidx
<1>5. /\ e \in DOMAIN res <=> IF hits(e) = {} THEN e \in DOMAIN us ELSE v \in of(last(e), x, pend[last(e)].new)
      /\ e \in DOMAIN res => res[e] = IF hits(e) = {} THEN us[e] ELSE pend[last(e)].id
  <2> HIDE DEF hits, last, of, res, e
  <2>1. e \in all <=> IF hits(e) = {} THEN e \in DOMAIN us ELSE v \in of(last(e), x, pend[last(e)].new)
    BY <1>3
  <2> HIDE DEF all
  <2> QED
    BY <1>4, <2>1
<1> HIDE DEF of
<1>6. hits(e) = H
  BY <1>1, <1>2, <1>3
<1> HIDE DEF hits, e, res, all
<1>7. ASSUME NEW h \in 0..Len(pend), \A j \in H : j <= h
      PROVE  v \in valuesForIndex(ViewAt(c, stored, pend, n, id, Len(pend)), p) <=>
             v \in valuesForIndex(ViewAt(c, stored, pend, n, id, h), p)
  <2>1. ASSUME NEW j \in Touches(pend, n, id), j > h, j \in H PROVE FALSE
    <3>1. j <= h /\ j \in Int /\ h \in Int
      BY <1>1, <1>7, <2>1
    <3> QED
      BY <2>1, <3>1
  <2>2. \A j \in Touches(pend, n, id) : j > h =>
           v \notin valuesForIndex(pend[j].old, p) /\ v \notin valuesForIndex(pend[j].new, p)
    BY <2>1 DEF Touches
  <2> QED
    BY <1>1, <2>2, ViewCarries
<1>8. CASE H = {}
  <2>1. 0 \in 0..Len(pend)
    BY <1>1
  <2>2. v \in valuesForIndex(ViewAt(c, stored, pend, n, id, Len(pend)), p) <=>
        v \in valuesForIndex(ViewAt(c, stored, pend, n, id, 0), p)
    BY <1>7, <1>8, <2>1
  <2>3. ViewAt(c, stored, pend, n, id, 0) = getDoc(stored, c.cols[n].dbid, id)
    BY ViewEnds
  <2>4. v \in valuesForIndex(getDoc(stored, c.cols[n].dbid, id), p) <=> e \in DOMAIN us /\ us[e] = id
    BY DEF KeyExact, e
  <2> QED
    BY <1>5, <1>6, <1>8, <2>2, <2>3, <2>4 DEF e, res
<1>9. CASE H # {}
  <2>1. H \in SUBSET (1..Len(pend))
    BY <1>1
  <2>2. PICK h : h = Max(H) /\ h \in H /\ \A j \in H : j <= h
    BY <1>1, <1>9, <2>1, LastPosition
  <2>3. h \in 0..Len(pend) /\ h \in DOMAIN pend /\ h \in Int /\ pend[h].col = n
    <3>1. h \in DOMAIN pend /\ pend[h].col = n
      BY <2>2
    <3>2. h \in 0..Len(pend) /\ h \in Int
      BY <1>1, <3>1
    <3> QED
      BY <3>1, <3>2
  <2>4. v \in valuesForIndex(ViewAt(c, stored, pend, n, id, Len(pend)), p) <=>
        v \in valuesForIndex(ViewAt(c, stored, pend, n, id, h), p)
    BY <1>7, <2>2, <2>3
  <2>5. /\ e \in DOMAIN res <=> v \in valuesForIndex(pend[h].new, p)
        /\ e \in DOMAIN res => res[e] = pend[h].id
    BY <1>2, <1>5, <1>6, <1>9, <2>2, <2>3
  <2>6. CASE id = pend[h].id
    <3>1. h \in Touches(pend, n, id)
      BY <2>3, <2>6 DEF Touches
    <3>2. ViewAt(c, stored, pend, n, id, h) = pend[h].new
      BY <3>1, ViewHit
    <3> QED
      BY <2>4, <2>5, <2>6, <3>2 DEF e, res
  <2>7. CASE id # pend[h].id
    <3>1. h \notin Touches(pend, n, id)
      BY <2>7 DEF Touches
    <3>2. \A j \in Touches(pend, n, id) : j <= h <=> j <= h - 1
      BY <1>1, <2>3, <3>1
    <3>3. ViewAt(c, stored, pend, n, id, h) = ViewAt(c, stored, pend, n, id, h - 1)
      BY <2>3, <3>2, ViewSkip
    <3>4. Alone(c, stored, pend, n, pend[h].id, pend[h].old, h - 1)
          /\ Alone(c, stored, pend, n, pend[h].id, pend[h].new, h - 1)
      BY <2>3 DEF BufferOK, MutationOK
    <3>5. v \in valuesForIndex(pend[h].old, p) \/ v \in valuesForIndex(pend[h].new, p)
      BY <2>2
    <3>6. v \notin valuesForIndex(ViewAt(c, stored, pend, n, id, h - 1), p)
      BY <2>7, <3>4, <3>5 DEF Alone
    <3> QED
      BY <2>4, <2>5, <2>7, <3>3, <3>6 DEF e, res
  <2> QED
    BY <2>6, <2>7
<1> QED
  BY <1>8, <1>9

LEMMA PersistExact ==
    ASSUME NEW c \in CatalogType, Tidy(c), IxDistinct(c), NEW stored, DocsType(stored),
           OwnRanges(c, stored), NEW ks, NEW us, Exact(c, stored, ks, us),
           NEW pend \in Seq(MutationType), BufferOK(c, stored, pend)
    PROVE  Exact(c, persistDocs(c, stored, pend), persistIdx(c, ks, pend), persistUidx(c, us, pend))
<1> SUFFICES ASSUME NEW n \in Names, NEW p \in Indexed(c, n)
             PROVE  KeyExact(c, persistDocs(c, stored, pend), persistIdx(c, ks, pend),
                             persistUidx(c, us, pend), n, p)
  BY DEF Exact
<1>1. Exists(c, n) /\ KeyExact(c, stored, ks, us, n, p)
  BY DEF Tidy, Indexed, NoCollection, NoIndex, Exact
<1>2. \A id \in Ids : getDoc(persistDocs(c, stored, pend), c.cols[n].dbid, id) =
                         ViewAt(c, stored, pend, n, id, Len(pend))
  BY <1>1, PersistGet
<1>4. CASE ~c.cols[n].ix[p].unique
  <2>1. \A v \in Keys, id \in Ids :
           v \in valuesForIndex(ViewAt(c, stored, pend, n, id, Len(pend)), p) <=>
           <<c.cols[n].ix[p].dbid, v, id>> \in persistIdx(c, ks, pend)
    BY <1>1, <1>4, PersistPlain
  <2> QED
    BY <1>2, <1>4, <2>1 DEF KeyExact
<1>5. CASE c.cols[n].ix[p].unique
  <2>1. ASSUME NEW v \in Keys, NEW id \in Ids
        PROVE
           v \in valuesForIndex(ViewAt(c, stored, pend, n, id, Len(pend)), p) <=>
           /\ <<c.cols[n].ix[p].dbid, v>> \in DOMAIN persistUidx(c, us, pend)
           /\ persistUidx(c, us, pend)[<<c.cols[n].ix[p].dbid, v>>] = id
    BY <1>1, <1>5, PersistUnique
  <2> QED
    BY <1>2, <1>5, <2>1 DEF KeyExact
<1> QED
  BY <1>4, <1>5

LEMMA ViewType ==
    ASSUME NEW c, NEW stored, DocsType(stored), NEW pend \in Seq(MutationType), NEW n, NEW id, NEW i \in Int
    PROVE  ViewAt(c, stored, pend, n, id, i) \in MaybeDocs
<1> DEFINE hits == {j \in Touches(pend, n, id) : j <= i}
<1>1. getDoc(stored, c.cols[n].dbid, id) \in MaybeDocs
  BY DEF getDoc, DocsType, MaybeDocs
<1>2. /\ hits \in SUBSET (1..Len(pend)) /\ Len(pend) \in Nat /\ DOMAIN pend = 1..Len(pend)
      /\ \A j \in DOMAIN pend : pend[j].new \in MaybeDocs
  BY TouchesType
<1>3. hits # {} => Max(hits) \in DOMAIN pend
  BY <1>2, LastPosition
<1> HIDE DEF hits
<1>4. hits # {} => pend[Max(hits)].new \in MaybeDocs
  BY <1>2, <1>3
<1> QED
  BY <1>1, <1>4 DEF ViewAt, hits

\* No two documents of the view share a value under a unique index.
LEMMA ViewUnique ==
    ASSUME NEW c \in CatalogType, IxDistinct(c), NEW stored, DocsType(stored), NEW ks, NEW us, Exact(c, stored, ks, us),
           NEW pend \in Seq(MutationType), BufferOK(c, stored, pend),
           NEW n \in Names, NEW id \in Ids
    PROVE  Alone(c, stored, pend, n, id, ViewAt(c, stored, pend, n, id, Len(pend)), Len(pend))
<1> DEFINE doc(o) == ViewAt(c, stored, pend, n, o, Len(pend))
<1>1. SUFFICES ASSUME NEW p \in Indexed(c, n), c.cols[n].ix[p].unique,
                      NEW v \in valuesForIndex(doc(id), p), NEW o \in Ids, v \in valuesForIndex(doc(o), p)
               PROVE  o = id
  BY DEF Alone
<1>2. c.cols[n].ix[p].unique /\ p \in Paths
  BY <1>1 DEF Indexed
<1>3. v \in Keys
  <2>1. doc(id) \in MaybeDocs
    BY ViewType
  <2> QED
    BY <1>1, <1>2, <2>1, ValuesFinite
<1>4. KeyExact(c, stored, ks, us, n, p)
  BY DEF Exact
<1>5. ASSUME NEW a \in Ids, v \in valuesForIndex(doc(a), p)
      PROVE  persistUidx(c, us, pend)[<<c.cols[n].ix[p].dbid, v>>] = a
  BY <1>2, <1>3, <1>4, <1>5, PersistUnique
<1> QED
  BY <1>1, <1>5

----------------------------------------------------------------------------
(* Catalogs that agree on a collection's key ranges. *)

SameKeys(b, c, n) ==
    /\ c.cols[n].dbid = b.cols[n].dbid
    /\ \A p \in Paths : /\ c.cols[n].ix[p].dbid = b.cols[n].ix[p].dbid
                        /\ c.cols[n].ix[p].unique = b.cols[n].ix[p].unique

LEMMA SameParts ==
    ASSUME NEW b, NEW c, NEW n, SameKeys(b, c, n), NEW stored, NEW pend
    PROVE  /\ Indexed(c, n) = Indexed(b, n) /\ (Exists(b, n) => Exists(c, n))
           /\ \A id, i : ViewAt(c, stored, pend, n, id, i) = ViewAt(b, stored, pend, n, id, i)
           /\ \A id, i, doc : Alone(b, stored, pend, n, id, doc, i) => Alone(c, stored, pend, n, id, doc, i)
           /\ \A ks, us : \A p \in Indexed(c, n) :
                 KeyExact(b, stored, ks, us, n, p) => KeyExact(c, stored, ks, us, n, p)
<1>1. Indexed(c, n) = Indexed(b, n) /\ (Exists(b, n) => Exists(c, n))
  BY DEF SameKeys, Indexed, Exists
<1>2. ASSUME NEW id, NEW i PROVE ViewAt(c, stored, pend, n, id, i) = ViewAt(b, stored, pend, n, id, i)
  BY DEF SameKeys, ViewAt
<1>3. \A p \in Indexed(b, n) : /\ c.cols[n].ix[p].dbid = b.cols[n].ix[p].dbid
                               /\ c.cols[n].ix[p].unique = b.cols[n].ix[p].unique
  BY DEF SameKeys, Indexed
<1>4. ASSUME NEW id, NEW i, NEW doc, Alone(b, stored, pend, n, id, doc, i)
      PROVE  Alone(c, stored, pend, n, id, doc, i)
  BY <1>1, <1>2, <1>3, <1>4 DEF Alone
<1>5. ASSUME NEW ks, NEW us, NEW p \in Indexed(c, n), KeyExact(b, stored, ks, us, n, p)
      PROVE  KeyExact(c, stored, ks, us, n, p)
  <2>1. /\ c.cols[n].dbid = b.cols[n].dbid /\ c.cols[n].ix[p].dbid = b.cols[n].ix[p].dbid
        /\ c.cols[n].ix[p].unique = b.cols[n].ix[p].unique
    BY <1>1, <1>3 DEF SameKeys
  <2> QED
    BY <1>5, <2>1 DEF KeyExact
<1> QED
  BY <1>1, <1>2, <1>4, <1>5

\* A catalog whose indexes are all b's.
LEMMA SameExact ==
    ASSUME NEW b, NEW c, NEW stored, NEW ks, NEW us, Exact(b, stored, ks, us),
           \A n \in Names : SameKeys(b, c, n) \/ Indexed(c, n) = {}
    PROVE  Exact(c, stored, ks, us)
<1> SUFFICES ASSUME NEW n \in Names, NEW p \in Indexed(c, n) PROVE KeyExact(c, stored, ks, us, n, p)
  BY DEF Exact
<1>1. SameKeys(b, c, n)
  OBVIOUS
<1>2. p \in Indexed(b, n)
  BY <1>1, SameParts
<1>3. KeyExact(b, stored, ks, us, n, p)
  BY <1>2 DEF Exact
<1> QED
  BY <1>1, <1>3, SameParts

\* A catalog that keeps b's collections is as good for what is buffered.
LEMMA SameBuffer ==
    ASSUME NEW b, NEW c, NEW stored, NEW pend \in Seq(MutationType), BufferOK(b, stored, pend),
           \A n \in Names : Exists(b, n) => SameKeys(b, c, n)
    PROVE  BufferOK(c, stored, pend)
<1> SUFFICES ASSUME NEW i \in DOMAIN pend PROVE MutationOK(c, stored, pend, i)
  BY DEF BufferOK
<1> DEFINE m == pend[i]
<1>1. m.col \in Names
  BY TouchesType
<1>2. MutationOK(b, stored, pend, i)
  BY DEF BufferOK
<1>3. SameKeys(b, c, m.col)
  BY <1>1, <1>2 DEF MutationOK
<1> QED
  BY <1>2, <1>3, SameParts, SMTT(30) DEF MutationOK

LEMMA SameWindow ==
    ASSUME NEW b, NEW c, NEW stored, NEW pend, NEW n, SameKeys(b, c, n),
           NEW todo, WindowOK(b, stored, pend, n, todo)
    PROVE  WindowOK(c, stored, pend, n, todo)
BY SameParts DEF WindowOK

LEMMA GrowSameKeys ==
    ASSUME NEW b, NEW c, Grow(b, c)
    PROVE  /\ \A n \in Names : SameKeys(b, c, n) \/ Indexed(c, n) = {}
           /\ \A n \in Names : Exists(b, n) => SameKeys(b, c, n)
BY DEF Grow, Kept, Fresh, SameKeys, Indexed

LEMMA GrowExact ==
    ASSUME NEW b, NEW c, Grow(b, c), NEW stored
    PROVE  /\ \A ks, us : Exact(b, stored, ks, us) => Exact(c, stored, ks, us)
           /\ \A pend \in Seq(MutationType) : BufferOK(b, stored, pend) => BufferOK(c, stored, pend)
BY GrowSameKeys, SameExact, SameBuffer

\* Nothing is indexed in the catalog of an empty directory; nothing is buffered.
LEMMA EmptyExact ==
    ASSUME NEW c, NEW stored, NEW ks, NEW us
    PROVE  Exact(newState, stored, ks, us) /\ BufferOK(c, stored, <<>>)
<1>1. \A n \in Names : Indexed(newState, n) = {}
  BY DEF newState, NoCollection, NoIndex, Indexed
<1>2. DOMAIN <<>> = {}
  OBVIOUS
<1> QED
  BY <1>1, <1>2 DEF Exact, BufferOK

----------------------------------------------------------------------------
(* One more mutation. *)

LEMMA ViewAppend ==
    ASSUME NEW c, NEW stored, NEW pend \in Seq(MutationType), NEW m \in MutationType,
           NEW n, NEW id
    PROVE  /\ \A i \in Int : i <= Len(pend) =>
                 ViewAt(c, stored, Append(pend, m), n, id, i) = ViewAt(c, stored, pend, n, id, i)
           /\ ViewAt(c, stored, Append(pend, m), n, id, Len(pend) + 1) =
                 IF m.col = n /\ m.id = id THEN m.new ELSE ViewAt(c, stored, pend, n, id, Len(pend))
<1> DEFINE T == Touches(pend, n, id)
<1>1. PICK q : q = Append(pend, m)
  OBVIOUS
<1>2. /\ q \in Seq(MutationType) /\ Len(pend) \in Nat /\ DOMAIN q = 1..(Len(pend) + 1)
      /\ DOMAIN pend = 1..Len(pend) /\ q[Len(pend) + 1] = m
      /\ \A j \in DOMAIN pend : q[j] = pend[j]
  BY <1>1
<1>3. T \in SUBSET (1..Len(pend)) /\ Touches(q, n, id) \in SUBSET (1..(Len(pend) + 1))
  BY <1>2 DEF Touches
<1>4. \A j \in 1..Len(pend) : j \in Touches(q, n, id) <=> j \in T
  BY <1>2 DEF Touches
<1>5. ASSUME NEW i \in Int, i <= Len(pend)
      PROVE  ViewAt(c, stored, q, n, id, i) = ViewAt(c, stored, pend, n, id, i)
  <2> DEFINE hits == {j \in T : j <= i}
  <2>1. {j \in Touches(q, n, id) : j <= i} = hits
    BY <1>2, <1>3, <1>4, <1>5
  <2>2. hits \in SUBSET (1..Len(pend))
    BY <1>3
  <2>3. hits # {} => Max(hits) \in 1..Len(pend)
    BY <1>2, <2>2, LastPosition
  <2> HIDE DEF hits
  <2>4. hits # {} => q[Max(hits)] = pend[Max(hits)]
    BY <1>2, <2>3
  <2> QED
    BY <2>1, <2>4 DEF ViewAt, hits
<1>6. CASE m.col = n /\ m.id = id
  <2>1. Len(pend) + 1 \in Touches(q, n, id)
    BY <1>2, <1>6 DEF Touches
  <2>2. ViewAt(c, stored, q, n, id, Len(pend) + 1) = m.new
    BY <1>2, <2>1, ViewHit
  <2> QED
    BY <1>1, <1>5, <1>6, <2>2
<1>7. CASE ~(m.col = n /\ m.id = id)
  <2>1. Len(pend) + 1 \notin Touches(q, n, id)
    BY <1>2, <1>7 DEF Touches
  <2>2. \A j \in Touches(q, n, id) : j <= Len(pend) + 1 <=> j <= Len(pend)
    BY <1>2, <1>3, <2>1
  <2>3. ViewAt(c, stored, q, n, id, Len(pend) + 1) = ViewAt(c, stored, q, n, id, Len(pend))
    BY <1>2, <2>2, ViewSkip
  <2> QED
    BY <1>1, <1>2, <1>5, <1>7, <2>3
<1> QED
  BY <1>6, <1>7

LEMMA AppendBuffer ==
    ASSUME NEW c, NEW stored, NEW pend \in Seq(MutationType), BufferOK(c, stored, pend),
           NEW m \in MutationType, Exists(c, m.col),
           ViewAt(c, stored, pend, m.col, m.id, Len(pend)) \in {NoDoc, m.old},
           Alone(c, stored, pend, m.col, m.id, m.old, Len(pend)),
           Alone(c, stored, pend, m.col, m.id, m.new, Len(pend))
    PROVE  BufferOK(c, stored, Append(pend, m))
<1>1. PICK q : q = Append(pend, m)
  OBVIOUS
<1>2. /\ Len(pend) \in Nat /\ DOMAIN q = 1..(Len(pend) + 1)
      /\ DOMAIN pend = 1..Len(pend) /\ q[Len(pend) + 1] = m
      /\ \A j \in DOMAIN pend : q[j] = pend[j]
  BY <1>1
<1>3. \A n, id : \A i \in Int : i <= Len(pend) =>
         ViewAt(c, stored, q, n, id, i) = ViewAt(c, stored, pend, n, id, i)
  BY <1>1, ViewAppend
<1>4. ASSUME NEW i \in Int, i <= Len(pend), NEW n, NEW id, NEW doc, Alone(c, stored, pend, n, id, doc, i)
      PROVE  Alone(c, stored, q, n, id, doc, i)
  BY <1>3, <1>4 DEF Alone
<1>5. ASSUME NEW i \in DOMAIN q PROVE MutationOK(c, stored, q, i)
  <2>1. CASE i \in DOMAIN pend
    <3>1. MutationOK(c, stored, pend, i) /\ q[i] = pend[i] /\ i - 1 \in Int /\ i - 1 <= Len(pend)
      BY <1>2, <2>1 DEF BufferOK
    <3> QED
      BY <1>3, <1>4, <3>1 DEF MutationOK
  <2>2. CASE i = Len(pend) + 1
    <3>1. i - 1 = Len(pend) /\ i - 1 \in Int /\ i - 1 <= Len(pend) /\ q[i] = m
      BY <1>2, <2>2
    <3> QED
      BY <1>3, <1>4, <3>1 DEF MutationOK
  <2> QED
    BY <1>2, <1>5, <2>1, <2>2
<1> QED
  BY <1>1, <1>5 DEF BufferOK

\* checkUniqueConstraints: no other document, stored or buffered, has the values.
LEMMA AcceptsAlone ==
    ASSUME NEW c \in CatalogType, NEW stored, DocsType(stored), NEW ks, NEW us, Exact(c, stored, ks, us),
           NEW pend \in Seq(MutationType), NEW n \in Names, NEW id \in Ids, NEW d \in MaybeDocs,
           checkUniqueConstraints(c, n, id, d, us, pend)
    PROVE  Alone(c, stored, pend, n, id, d, Len(pend))
<1>1. SUFFICES ASSUME NEW p \in Indexed(c, n), c.cols[n].ix[p].unique,
                      NEW v \in valuesForIndex(d, p), NEW o \in Ids, o # id,
                      v \in valuesForIndex(ViewAt(c, stored, pend, n, o, Len(pend)), p)
               PROVE  FALSE
  BY DEF Alone
<1> DEFINE e == <<c.cols[n].ix[p].dbid, v>>
           T == Touches(pend, n, o)
<1>2. p \in Paths /\ v \in Keys
  <2>1. p \in Paths
    BY DEF Indexed
  <2> QED
    BY <2>1, ValuesFinite
<1>3. /\ e \in DOMAIN us => us[e] = id \/ pendingDeletes(pend, n, us[e])
      /\ v \notin valuesForIndex(pendingDocState(pend, n, o, NoDoc), p)
  BY <1>1 DEF checkUniqueConstraints
<1>4. ViewAt(c, stored, pend, n, o, Len(pend)) =
         pendingDocState(pend, n, o, getDoc(stored, c.cols[n].dbid, o))
  BY ViewEnds
<1>5. CASE T # {}
  <2>1. pendingDocState(pend, n, o, NoDoc) = pendingDocState(pend, n, o, getDoc(stored, c.cols[n].dbid, o))
    BY <1>5 DEF pendingDocState
  <2> QED
    BY <1>1, <1>3, <1>4, <2>1
<1>6. CASE T = {}
  <2>1. v \in valuesForIndex(getDoc(stored, c.cols[n].dbid, o), p)
    BY <1>1, <1>4, <1>6 DEF pendingDocState
  <2>2. KeyExact(c, stored, ks, us, n, p)
    BY DEF Exact
  <2>3. e \in DOMAIN us /\ us[e] = o
    BY <1>1, <1>2, <2>1, <2>2 DEF KeyExact
  <2>4. ~pendingDeletes(pend, n, o)
    BY <1>6 DEF pendingDeletes
  <2> QED
    BY <1>1, <1>3, <2>3, <2>4
<1> QED
  BY <1>5, <1>6

----------------------------------------------------------------------------
(* The two ways a step keeps the invariant: it leaves the engine alone, or it *)
(* writes the engine's keys with the catalog in memory and nothing is left.   *)

LEMMA CleanParts == Clean => Sound /\ Free({"torn"})
BY DEF Clean, Sound, Free

LEMMA StayX ==
    ASSUME XInv, UNCHANGED engine, \A X : Free(X)' => Free(X),
           NEW c, cat' = c, NEW pend, pending' = pend, NEW s, saved'.cat = s,
           Clean => Exact(c, docs, idx, uidx) /\ Exact(s, docs, idx, uidx),
           Clean /\ ~dirtyFull' /\ job' # IndexJob => BufferOK(c, docs, pend),
           Clean /\ ~dirtyFull' /\ job'.kind = "query" /\ job'.act = "del" =>
               WindowOK(c, docs, pend, job'.col, job'.todo)
    PROVE  XInv'
<1>1. meta' = meta /\ docs' = docs /\ idx' = idx /\ uidx' = uidx
  BY DEF engine
<1>2. Clean' => Clean
  BY DEF Clean
<1>3. KeysOK'
  BY <1>1, <1>2 DEF XInv, KeysOK
<1>4. PendingOK'
  BY <1>1, <1>2 DEF PendingOK
<1> QED
  BY <1>3, <1>4 DEF XInv

LEMMA WriteX ==
    ASSUME NEW c, cat' = c, meta' = c, saved' = NoTx, job' = NoJob, Clean' => pending' = <<>>,
           NEW stored, docs' = stored, NEW ks, idx' = ks, NEW us, uidx' = us,
           Clean' => Exact(c, stored, ks, us)
    PROVE  XInv'
<1>1. NoTx.cat = newState /\ Exact(newState, stored, ks, us) /\ BufferOK(c, stored, <<>>)
  BY NewStateOK, EmptyExact
<1>2. NoJob.kind # "query"
  BY DEF NoJob
<1>3. KeysOK'
  BY <1>1 DEF KeysOK
<1>4. PendingOK'
  BY <1>1, <1>2 DEF PendingOK
<1> QED
  BY <1>3, <1>4 DEF XInv

\* What the invariant says of memory while no index is being built.
LEMMA HereX ==
    ASSUME IInv, XInv, job # IndexJob
    PROVE  /\ Clean => Exact(cat, docs, idx, uidx) /\ Exact(saved.cat, docs, idx, uidx)
           /\ Clean /\ ~dirtyFull => BufferOK(cat, docs, pending)
BY DEF XInv, KeysOK, PendingOK

LEMMA DownX ==
    ASSUME XInv, Down, NEW S, Blame(S)
    PROVE  XInv'
<1>1. /\ cat' = newState /\ pending' = <<>> /\ saved' = NoTx /\ job' = NoJob /\ UNCHANGED engine
      /\ NoTx.cat = newState /\ NoJob.kind # "query"
  BY NewStateOK DEF Down, clearPending, NoJob
<1>2. \A X : Free(X)' => Free(X)
  BY DEF Blame, Free
<1>3. Exact(newState, docs, idx, uidx) /\ BufferOK(newState, docs, <<>>)
  BY EmptyExact
<1> QED
  BY <1>1, <1>2, <1>3, StayX

\* commitLocked of a catalog in memory and its buffer.
LEMMA CommitX ==
    ASSUME IInv, CInv, XInv, NEW c, CatOK(c), NEW pend \in Seq(MutationType), NEW dm, NEW df \in BOOLEAN,
           Clean => Exact(c, docs, idx, uidx), Clean /\ ~df => BufferOK(c, docs, pend),
           commitLocked(c, pend, dm, df), saved' = NoTx, job' = NoJob, \A X : Free(X)' => Free(X)
    PROVE  XInv'
<1>1. /\ cat' = c /\ pending' = <<>> /\ NoTx.cat = newState /\ NoJob.kind # "query"
      /\ Clean' => Clean
  BY NewStateOK DEF commitLocked, clearPending, NoJob, Clean
<1>2. CASE persistFullLocked(c)
  <2>1. meta' = c /\ docs' = docs /\ idx' = idx /\ uidx' = uidx
    BY <1>2 DEF persistFullLocked
  <2> QED
    BY <1>1, <2>1, WriteX
<1>3. CASE ~df /\ persistPendingLocked(c, pend)
  <2>1. /\ meta' = c /\ docs' = persistDocs(c, docs, pend) /\ idx' = persistIdx(c, idx, pend)
        /\ uidx' = persistUidx(c, uidx, pend)
    BY <1>3 DEF persistPendingLocked
  <2>2. Clean => Exact(c, persistDocs(c, docs, pend), persistIdx(c, idx, pend), persistUidx(c, uidx, pend))
    <3>1. c \in CatalogType /\ OwnRanges(c, docs) /\ Tidy(c) /\ (Clean => IxDistinct(c))
      BY CleanParts DEF CatOK
    <3>2. DocsType(docs)
      BY DEF IInv, TypeOK
    <3> QED
      BY <1>3, <3>1, <3>2, PersistExact
  <2> QED
    BY <1>1, <2>1, <2>2, WriteX
<1>4. CASE UNCHANGED engine
  <2>1. Exact(newState, docs, idx, uidx) /\ BufferOK(c, docs, <<>>)
    BY EmptyExact
  <2> QED
    BY <1>1, <1>4, <2>1, StayX
<1> QED
  BY <1>2, <1>3, <1>4 DEF commitLocked

LEMMA FinishCallX ==
    ASSUME IInv, CInv, XInv, owner # "tx", NEW c, CatOK(c), NEW pend \in Seq(MutationType),
           Clean => Exact(c, docs, idx, uidx) /\ BufferOK(c, docs, pend), FinishCall(c, pend)
    PROVE  XInv'
<1>1. saved = NoTx /\ dirtyFull \in BOOLEAN
  BY DEF CInv, ControlOK, IInv, TypeOK
<1>2. CASE /\ commitLocked(c, pend, TRUE, dirtyFull)
           /\ job' = NoJob /\ UNCHANGED <<saved, up, faults>>
  <2>1. saved' = NoTx /\ \A X : Free(X)' => Free(X)
    BY <1>1, <1>2 DEF Free
  <2> QED
    BY <1>1, <1>2, <2>1, CommitX
<1>3. CASE Blame({"abandoned"})
  <2>1. ~Clean'
    BY <1>3 DEF Blame, Clean, Free
  <2> QED
    BY <2>1 DEF XInv, KeysOK, PendingOK
<1>4. CASE Panic(c, pend, dirtyFull)
  BY <1>4, DownX DEF Panic
<1> QED
  BY <1>2, <1>3, <1>4 DEF FinishCall

LEMMA FinishTxX ==
    ASSUME IInv, XInv, NEW c, NEW pend \in Seq(MutationType), NEW full \in BOOLEAN,
           Clean => Exact(c, docs, idx, uidx),
           Clean /\ ~dirtyFull /\ ~full => BufferOK(c, docs, pend), FinishTx(c, pend, full)
    PROVE  XInv'
<1>1. /\ cat' = c /\ pending' = pend /\ dirtyFull' = (dirtyFull \/ full) /\ job' = NoJob
      /\ saved' = saved /\ UNCHANGED engine /\ dirtyFull \in BOOLEAN /\ NoJob.kind # "query"
  BY DEF FinishTx, IInv, TypeOK, NoJob
<1>2. \A X : Free(X)' => Free(X)
  BY DEF FinishTx, Blame, Free
<1>3. Clean => Exact(saved.cat, docs, idx, uidx)
  BY DEF XInv, KeysOK
<1>4. Clean /\ ~dirtyFull' => BufferOK(c, docs, pend)
  BY <1>1
<1> QED
  BY <1>1, <1>2, <1>3, <1>4, StayX

LEMMA FinishX ==
    ASSUME IInv, CInv, XInv, NEW c, CatOK(c), NEW pend \in Seq(MutationType), NEW full \in BOOLEAN,
           Clean => Exact(c, docs, idx, uidx),
           Clean /\ ~dirtyFull /\ ~(owner = "tx" /\ full) => BufferOK(c, docs, pend),
           Finish(c, pend, full)
    PROVE  XInv'
<1>1. CASE owner = "tx"
  <2>1. FinishTx(c, pend, full)
    BY <1>1 DEF Finish
  <2> QED
    BY <1>1, <2>1, FinishTxX
<1>2. CASE owner # "tx"
  <2>1. Clean => ~dirtyFull
    BY <1>2, CleanParts DEF CInv, FlagsOK
  <2>2. FinishCall(c, pend)
    BY <1>2 DEF Finish
  <2> QED
    BY <1>2, <2>1, <2>2, FinishCallX
<1> QED
  BY <1>1, <1>2

LEMMA RefuseX ==
    ASSUME IInv, XInv, Ready, NEW c, Grow(cat, c), Refuse(c)
    PROVE  XInv'
<1>1. /\ cat' = c /\ pending' = pending /\ dirtyFull' = dirtyFull /\ job' = job /\ saved' = saved
      /\ UNCHANGED engine /\ job = NoJob /\ job # IndexJob /\ job.kind # "query"
      /\ pending \in Seq(MutationType)
  BY DEF Refuse, control, Ready, NoJob, IndexJob, IInv, TypeOK
<1>2. \A X : Free(X)' => Free(X)
  BY DEF Refuse, Free
<1>3. /\ Clean => Exact(c, docs, idx, uidx) /\ Exact(saved.cat, docs, idx, uidx)
      /\ Clean /\ ~dirtyFull => BufferOK(c, docs, pending)
  BY <1>1, HereX, GrowExact
<1> QED
  BY <1>1, <1>2, <1>3, StayX

----------------------------------------------------------------------------
(* Collection and document methods. *)

LEMMA EnsureCollectionX ==
    ASSUME IInv, CInv, XInv, NEW n \in Names, EnsureCollection(n)
    PROVE  XInv'
<1> DEFINE c == ensureCollection(cat, n)
<1>1. /\ up /\ job # IndexJob /\ cat \in CatalogType /\ pending \in Seq(MutationType)
      /\ Finish(c, pending, FALSE)
  BY DEF EnsureCollection, Ready, IInv, TypeOK, NoJob, IndexJob
<1>2. Grow(cat, c)
  BY <1>1, EnsureQuiet
<1> HIDE DEF c
<1>3. CatOK(c)
  BY <1>1, <1>2, HereOK, GrowOK
<1>4. /\ Clean => Exact(c, docs, idx, uidx)
      /\ Clean /\ ~dirtyFull => BufferOK(c, docs, pending)
  BY <1>1, <1>2, HereX, GrowExact
<1> QED
  BY <1>1, <1>3, <1>4, FinishX

\* What putLocked buffers.
LEMMA PutX ==
    ASSUME IInv, NEW c \in CatalogType, IxDistinct(c), Exact(c, docs, idx, uidx), BufferOK(c, docs, pending),
           NEW n \in Names, Exists(c, n), NEW id \in Ids, NEW d \in MaybeDocs, Accepts(c, n, id, d)
    PROVE  /\ Exact(PutCat(c, n, id, d), docs, idx, uidx)
           /\ BufferOK(PutCat(c, n, id, d), docs, PutPending(c, n, id, d))
<1> DEFINE old == OldDoc(c, n, id)
           e == PutCat(c, n, id, d)
           m == Mutation(n, id, old, d)
<1>1. old \in MaybeDocs /\ pending \in Seq(MutationType) /\ DocsType(docs)
  BY OldDocType DEF IInv, TypeOK
<1>2. old = ViewAt(c, docs, pending, n, id, Len(pending))
  BY <1>1, ViewEnds DEF OldDoc
<1>3. m \in MutationType /\ m.col = n /\ m.id = id /\ m.old = old /\ m.new = d
  BY <1>1 DEF Mutation, MutationType
<1> HIDE DEF m, old
<1>4. Grow(c, e)
  BY <1>1, CountGrow DEF PutCat, old
<1> HIDE DEF e
<1>5. Alone(c, docs, pending, n, id, old, Len(pending))
  BY <1>1, <1>2, ViewUnique
<1>6. Alone(c, docs, pending, n, id, d, Len(pending))
  BY <1>1, AcceptsAlone DEF Accepts
<1>7. BufferOK(c, docs, Append(pending, m)) /\ Append(pending, m) \in Seq(MutationType)
  BY <1>1, <1>2, <1>3, <1>5, <1>6, AppendBuffer
<1>8. Exact(e, docs, idx, uidx) /\ BufferOK(e, docs, Append(pending, m))
  BY <1>4, <1>7, GrowExact
<1> QED
  BY <1>8 DEF PutPending, e, m, old

LEMMA PutLockedX ==
    ASSUME IInv, CInv, XInv, Ready, NEW c, Grow(cat, c), NEW n \in Names, NEW id \in Ids,
           NEW d \in MaybeDocs, Exists(c, n), NEW e, Grow(cat, e), putLocked(c, n, id, d, e)
    PROVE  XInv'
<1>1. /\ up /\ job # IndexJob /\ cat \in CatalogType /\ c \in CatalogType
      /\ pending \in Seq(MutationType)
  BY DEF Ready, IInv, TypeOK, NoJob, IndexJob, Grow, GoodUpdate
<1>2. CatOK(c)
  BY <1>1, HereOK, GrowOK
<1>3. /\ Clean => Exact(c, docs, idx, uidx) /\ IxDistinct(c)
      /\ Clean /\ ~dirtyFull => BufferOK(c, docs, pending)
  BY <1>1, <1>2, HereX, GrowExact, CleanParts DEF CatOK
<1>4. CASE Accepts(c, n, id, d) /\ Finish(PutCat(c, n, id, d), PutPending(c, n, id, d), FALSE)
  <2>1. /\ CatOK(PutCat(c, n, id, d)) /\ PutPending(c, n, id, d) \in Seq(MutationType)
        /\ Grow(c, PutCat(c, n, id, d))
    BY <1>1, <1>2, PutOK
  <2>2. Clean => Exact(PutCat(c, n, id, d), docs, idx, uidx)
    BY <1>3, <2>1, GrowExact
  <2>3. Clean /\ ~dirtyFull => BufferOK(PutCat(c, n, id, d), docs, PutPending(c, n, id, d))
    BY <1>1, <1>3, <1>4, PutX
  <2> QED
    BY <1>4, <2>1, <2>2, <2>3, FinishX
<1>5. CASE Refuse(e)
  BY <1>5, RefuseX
<1> QED
  BY <1>4, <1>5 DEF putLocked

LEMMA PutActionsX ==
    ASSUME IInv, CInv, XInv, NEW n \in Names, NEW id \in Ids, NEW d \in MaybeDocs,
           PutNew(n, d) \/ Put(n, id, d) \/ Patch(n, id, d) \/ MergeOrPut(n, id, d)
    PROVE  XInv'
<1> DEFINE c == ensureCollection(cat, n)
<1>1. cat \in CatalogType
  BY DEF IInv, TypeOK
<1>2. Ready
  BY DEF PutNew, Put, Patch, MergeOrPut
<1>3. Grow(cat, c) /\ Exists(c, n) /\ c \in CatalogType /\ Grow(cat, cat)
  BY <1>1, EnsureQuiet, GrowSame DEF Grow, GoodUpdate
<1>4. \/ \E k \in Ids : \E e \in {c, RaiseNextId(c, n, k)} : putLocked(RaiseNextId(c, n, k), n, k, d, e)
      \/ putLocked(c, n, id, d, c)
      \/ Exists(cat, n) /\ putLocked(cat, n, id, d, cat)
  BY DEF PutNew, Put, Patch, MergeOrPut
<1> HIDE DEF c
<1>5. ASSUME NEW k \in Ids
      PROVE  Grow(cat, RaiseNextId(c, n, k)) /\ Exists(RaiseNextId(c, n, k), n)
  <2>1. Grow(c, RaiseNextId(c, n, k)) /\ Exists(RaiseNextId(c, n, k), n)
    BY <1>3, RaiseQuiet
  <2> QED
    BY <1>1, <1>3, <2>1, GrowTrans
<1>6. ASSUME NEW k \in Ids, NEW e \in {c, RaiseNextId(c, n, k)},
             putLocked(RaiseNextId(c, n, k), n, k, d, e)
      PROVE  XInv'
  <2>1. Grow(cat, e)
    BY <1>3, <1>5
  <2> QED
    BY <1>2, <1>5, <1>6, <2>1, PutLockedX
<1>7. CASE putLocked(c, n, id, d, c)
  BY <1>2, <1>3, <1>7, PutLockedX
<1>8. CASE Exists(cat, n) /\ putLocked(cat, n, id, d, cat)
  BY <1>2, <1>3, <1>8, PutLockedX
<1> QED
  BY <1>4, <1>6, <1>7, <1>8

LEMMA DeleteX ==
    ASSUME IInv, CInv, XInv, NEW n \in Names, NEW id \in Ids, Delete(n, id)
    PROVE  XInv'
<1> DEFINE old == Lookup(cat, n, id)
           c == CountDelete(cat, n, old)
           m == Mutation(n, id, old, NoDoc)
<1>1. /\ up /\ job = NoJob /\ job # IndexJob /\ cat \in CatalogType /\ pending \in Seq(MutationType)
      /\ DocsType(docs) /\ Exists(cat, n) /\ Finish(c, Append(pending, m), FALSE)
  BY DEF Delete, Ready, IInv, TypeOK, NoJob, IndexJob
<1>2. old \in MaybeDocs /\ NoDoc \in MaybeDocs
  BY OldDocType DEF IInv, TypeOK, MaybeDocs
<1>3. m \in MutationType /\ m.col = n /\ m.id = id /\ m.old = old /\ m.new = NoDoc
  BY <1>2 DEF Mutation, MutationType
<1>4. Clean => old = ViewAt(cat, docs, pending, n, id, Len(pending))
  <2>1. ViewAt(cat, docs, pending, n, id, Len(pending)) = OldDoc(cat, n, id)
    BY <1>1, ViewEnds DEF OldDoc
  <2>2. ASSUME pending = <<>> PROVE OldDoc(cat, n, id) = getDoc(docs, cat.cols[n].dbid, id)
    <3>1. Touches(pending, n, id) = {}
      BY <2>2 DEF Touches
    <3> QED
      BY <3>1 DEF OldDoc, pendingDocState
  <2>3. Clean /\ owner # "tx" => pending = <<>>
    BY <1>1, RestEmpty, CleanParts
  <2> QED
    BY <2>1, <2>2, <2>3 DEF Lookup
<1> HIDE DEF old, m
<1>5. Grow(cat, c)
  BY <1>1, <1>2, CountGrow
<1> HIDE DEF c
<1>6. CatOK(c) /\ CatOK(cat)
  BY <1>1, <1>5, HereOK, GrowOK
<1>7. Append(pending, m) \in Seq(MutationType)
  BY <1>1, <1>3
<1>8. Clean => Exact(cat, docs, idx, uidx) /\ Exact(c, docs, idx, uidx)
  BY <1>1, <1>5, HereX, GrowExact
<1>9. ASSUME Clean, ~dirtyFull PROVE BufferOK(c, docs, Append(pending, m))
  <2>1. IxDistinct(cat) /\ BufferOK(cat, docs, pending)
    BY <1>1, <1>6, <1>9, HereX, CleanParts DEF CatOK
  <2>2. Alone(cat, docs, pending, n, id, old, Len(pending))
    BY <1>1, <1>4, <1>8, <1>9, <2>1, ViewUnique
  <2>3. Alone(cat, docs, pending, n, id, NoDoc, Len(pending))
    BY DEF Alone, valuesForIndex
  <2>4. BufferOK(cat, docs, Append(pending, m))
    BY <1>1, <1>3, <1>4, <1>9, <2>1, <2>2, <2>3, AppendBuffer
  <2> QED
    BY <1>5, <1>7, <2>4, GrowExact
<1> QED
  BY <1>1, <1>6, <1>7, <1>8, <1>9, FinishX

----------------------------------------------------------------------------
(* Collections and indexes that go. *)

\* A catalog each of whose indexes is one of b's, perhaps under another name.
LEMMA PartExact ==
    ASSUME NEW b, NEW stored, NEW ks, NEW us, Exact(b, stored, ks, us), NEW c,
           \A n \in Names : \A p \in Indexed(c, n) :
               \E m \in Names : /\ p \in Indexed(b, m) /\ c.cols[n].dbid = b.cols[m].dbid
                                /\ c.cols[n].ix[p] = b.cols[m].ix[p]
    PROVE  Exact(c, stored, ks, us)
<1> SUFFICES ASSUME NEW n \in Names, NEW p \in Indexed(c, n) PROVE KeyExact(c, stored, ks, us, n, p)
  BY DEF Exact
<1>1. PICK m \in Names : /\ p \in Indexed(b, m) /\ c.cols[n].dbid = b.cols[m].dbid
                         /\ c.cols[n].ix[p] = b.cols[m].ix[p]
  OBVIOUS
<1>2. KeyExact(b, stored, ks, us, m, p)
  BY <1>1 DEF Exact
<1> QED
  BY <1>1, <1>2 DEF KeyExact

\* Keys of other indexes and documents of other collections are dropped.
LEMMA DropExact ==
    ASSUME NEW c, NEW stored, NEW ks, NEW us, Exact(c, stored, ks, us), NEW left, NEW xs,
           \A n \in Names : \A p \in Indexed(c, n) :
               /\ c.cols[n].ix[p].dbid \notin xs
               /\ \A id \in Ids : getDoc(left, c.cols[n].dbid, id) = getDoc(stored, c.cols[n].dbid, id)
    PROVE  Exact(c, left, dropIdx(ks, xs), dropUidx(us, xs))
<1> SUFFICES ASSUME NEW n \in Names, NEW p \in Indexed(c, n)
             PROVE  KeyExact(c, left, dropIdx(ks, xs), dropUidx(us, xs), n, p)
  BY DEF Exact
<1>1. /\ c.cols[n].ix[p].dbid \notin xs /\ KeyExact(c, stored, ks, us, n, p)
      /\ \A id \in Ids : getDoc(left, c.cols[n].dbid, id) = getDoc(stored, c.cols[n].dbid, id)
  BY DEF Exact
<1>2. PICK x : x = c.cols[n].ix[p].dbid
  OBVIOUS
<1>3. \A v \in Keys, id \in Ids : <<x, v, id>> \in dropIdx(ks, xs) <=> <<x, v, id>> \in ks
  BY <1>1, <1>2 DEF dropIdx
<1>4. \A v \in Keys : /\ <<x, v>> \in DOMAIN dropUidx(us, xs) <=> <<x, v>> \in DOMAIN us
                      /\ <<x, v>> \in DOMAIN us => dropUidx(us, xs)[<<x, v>>] = us[<<x, v>>]
  BY <1>1, <1>2 DEF dropUidx
<1> QED
  BY <1>1, <1>2, <1>3, <1>4 DEF KeyExact

\* RemoveCollection's and RemoveIndex's own batch.
LEMMA DropX ==
    ASSUME IInv, CInv, Ready, owner = "none", NEW c, NEW left, NEW xs,
           Clean => Exact(c, left, dropIdx(idx, xs), dropUidx(uidx, xs)),
           dropAndCommitLocked(c, left, xs)
    PROVE  XInv'
<1>1. /\ cat' = c /\ pending' = pending /\ job' = job /\ saved' = saved /\ job = NoJob
  BY DEF dropAndCommitLocked, control, Ready
<1>2. saved = NoTx /\ (Clean => pending = <<>>)
  BY <1>1, RestEmpty, CleanParts
<1>3. CASE /\ meta' = c /\ docs' = left /\ idx' = dropIdx(idx, xs) /\ uidx' = dropUidx(uidx, xs)
           /\ UNCHANGED faults
  <2>1. Clean' => Clean
    BY <1>3 DEF Clean, Free
  <2> QED
    BY <1>1, <1>2, <1>3, <2>1, WriteX
<1>4. CASE Blame({"abandoned"})
  <2>1. ~Clean'
    BY <1>4 DEF Blame, Clean, Free
  <2> QED
    BY <2>1 DEF XInv, KeysOK, PendingOK
<1> QED
  BY <1>3, <1>4 DEF dropAndCommitLocked

LEMMA RemoveActionX ==
    ASSUME IInv, CInv, XInv, NEW n \in Names, RemoveCollection(n)
    PROVE  XInv'
<1> DEFINE c == removeCollection(cat, n)
           left == dropDocs(docs, cat.cols[n].dbid)
           xs == IndexDbidsOf(cat, n)
<1>1. /\ Ready /\ up /\ job # IndexJob /\ pending \in Seq(MutationType) /\ cat \in CatalogType
      /\ cat.cols \in [Names -> CollectionType] /\ CatOK(cat)
  <2>1. Ready /\ up /\ job # IndexJob /\ pending \in Seq(MutationType) /\ cat \in CatalogType
    BY DEF RemoveCollection, Ready, NoJob, IndexJob, IInv, TypeOK
  <2> QED
    BY <2>1, HereOK DEF CatalogType
<1>2. \/ owner = "none" /\ Exists(cat, n) /\ dropAndCommitLocked(c, left, xs)
      \/ owner = "tx" /\ FinishTx(c, pending, TRUE)
  BY DEF RemoveCollection
<1>3. c.cols[n] = NoCollection /\ \A m \in Names \ {n} : c.cols[m] = cat.cols[m]
  BY <1>1 DEF removeCollection, WithCollection, CatalogType
<1> HIDE DEF c
<1>4. \A m \in Names : \A p \in Indexed(c, m) : m # n /\ p \in Indexed(cat, m)
  BY <1>3 DEF Indexed, NoCollection, NoIndex
<1>5. Clean => Exact(c, docs, idx, uidx)
  <2>1. Clean => Exact(cat, docs, idx, uidx)
    BY DEF XInv, KeysOK
  <2> QED
    BY <1>3, <1>4, <2>1, PartExact
<1>6. CASE owner = "none" /\ Exists(cat, n) /\ dropAndCommitLocked(c, left, xs)
  <2>1. ASSUME Clean PROVE Exact(c, left, dropIdx(idx, xs), dropUidx(uidx, xs))
    <3>1. ASSUME NEW m \in Names, NEW p \in Indexed(c, m)
          PROVE  /\ c.cols[m].ix[p].dbid \notin xs
                 /\ \A id \in Ids : getDoc(left, c.cols[m].dbid, id) = getDoc(docs, c.cols[m].dbid, id)
      <4>1. c.cols[m] = cat.cols[m] /\ m # n /\ p \in Indexed(cat, m)
        BY <1>3, <1>4, <3>1, SMTT(30)
      <4>2. c.cols[m].ix[p].dbid \notin xs
        BY <1>1, <2>1, <4>1, CleanParts DEF CatOK, IxDistinct, IndexDbidsOf
      <4>3. c.cols[m].dbid # cat.cols[n].dbid
        BY <1>1, <1>6, <4>1 DEF CatOK, OwnRanges
      <4>4. \A id \in Ids : getDoc(left, c.cols[m].dbid, id) = getDoc(docs, c.cols[m].dbid, id)
        BY <4>3 DEF getDoc, dropDocs
      <4> QED
        BY <4>2, <4>4
    <3> HIDE DEF left, xs
    <3> QED
      BY <1>5, <2>1, <3>1, DropExact
  <2> HIDE DEF left, xs
  <2> QED
    BY <1>1, <1>6, <2>1, DropX
<1>7. CASE owner = "tx" /\ FinishTx(c, pending, TRUE)
  BY <1>1, <1>5, <1>7, FinishTxX
<1> QED
  BY <1>2, <1>6, <1>7

LEMMA RemoveIndexActionX ==
    ASSUME IInv, CInv, XInv, NEW n \in Names, NEW p \in Paths, RemoveIndex(n, p)
    PROVE  XInv'
<1> DEFINE c == removeIndex(cat, n, p)
           xs == {cat.cols[n].ix[p].dbid}
<1>1. /\ Ready /\ up /\ job # IndexJob /\ pending \in Seq(MutationType) /\ cat \in CatalogType
      /\ cat.cols \in [Names -> CollectionType] /\ CatOK(cat) /\ p \in Indexed(cat, n)
  <2>1. /\ Ready /\ up /\ job # IndexJob /\ pending \in Seq(MutationType) /\ cat \in CatalogType
        /\ p \in Indexed(cat, n)
    BY DEF RemoveIndex, Ready, NoJob, IndexJob, IInv, TypeOK
  <2> QED
    BY <2>1, HereOK DEF CatalogType
<1>2. \/ owner = "none" /\ dropAndCommitLocked(c, docs, xs)
      \/ owner = "tx" /\ FinishTx(c, pending, TRUE)
  BY DEF RemoveIndex
<1>3. \A m \in Names : /\ c.cols[m].dbid = cat.cols[m].dbid
                       /\ \A q \in Paths : c.cols[m].ix[q] = IF m = n /\ q = p THEN NoIndex ELSE cat.cols[m].ix[q]
  <2> DEFINE col == [cat.cols[n] EXCEPT !.ix[p] = NoIndex]
  <2>1. c.cols[n] = col /\ \A m \in Names \ {n} : c.cols[m] = cat.cols[m]
    BY <1>1 DEF removeIndex, CatalogType
  <2>2. /\ col.dbid = cat.cols[n].dbid
        /\ \A q \in Paths : col.ix[q] = IF q = p THEN NoIndex ELSE cat.cols[n].ix[q]
    BY <1>1 DEF CollectionType
  <2> HIDE DEF col, c
  <2> QED
    BY <2>1, <2>2
<1> HIDE DEF c
<1>4. ASSUME NEW m \in Names, NEW q \in Indexed(c, m)
      PROVE  /\ q \in Indexed(cat, m) /\ ~(m = n /\ q = p) /\ c.cols[m].ix[q] = cat.cols[m].ix[q]
  BY <1>3 DEF Indexed, NoIndex
<1>5. Clean => Exact(c, docs, idx, uidx)
  <2>1. Clean => Exact(cat, docs, idx, uidx)
    BY DEF XInv, KeysOK
  <2>2. \A m \in Names : \A q \in Indexed(c, m) :
           \E k \in Names : /\ q \in Indexed(cat, k) /\ c.cols[m].dbid = cat.cols[k].dbid
                            /\ c.cols[m].ix[q] = cat.cols[k].ix[q]
    BY <1>3, <1>4
  <2> QED
    BY <2>1, <2>2, PartExact
<1>6. CASE owner = "none" /\ dropAndCommitLocked(c, docs, xs)
  <2>1. ASSUME Clean PROVE Exact(c, docs, dropIdx(idx, xs), dropUidx(uidx, xs))
    <3>1. \A m \in Names : \A q \in Indexed(c, m) : c.cols[m].ix[q].dbid \notin xs
      BY <1>1, <1>4, <2>1, CleanParts DEF CatOK, IxDistinct
    <3> HIDE DEF xs
    <3> QED
      BY <1>5, <2>1, <3>1, DropExact, SMTT(30)
  <2> HIDE DEF xs
  <2> QED
    BY <1>1, <1>6, <2>1, DropX
<1>7. CASE owner = "tx" /\ FinishTx(c, pending, TRUE)
  BY <1>1, <1>5, <1>7, FinishTxX
<1> QED
  BY <1>2, <1>6, <1>7

LEMMA RenameActionX ==
    ASSUME IInv, CInv, XInv, NEW n \in Names, NEW m \in Names, RenameCollection(n, m)
    PROVE  XInv'
<1> DEFINE c == renameCollection(cat, n, m)
<1>1. /\ up /\ job = NoJob /\ job # IndexJob /\ pending \in Seq(MutationType) /\ cat \in CatalogType
      /\ n # m /\ ~Exists(cat, m) /\ Finish(c, pending, TRUE)
  BY DEF RenameCollection, Ready, NoJob, IndexJob, IInv, TypeOK
<1>2. CatOK(c)
  BY <1>1, HereOK, RenameCollectionOK DEF CInv
<1>3. \A x \in Names : c.cols[x] = IF x = n THEN NoCollection ELSE IF x = m THEN cat.cols[n] ELSE cat.cols[x]
  BY <1>1 DEF renameCollection, CatalogType
<1> HIDE DEF c
<1>4. ASSUME NEW x \in Names, NEW p \in Indexed(c, x)
      PROVE  \E k \in Names : /\ p \in Indexed(cat, k) /\ c.cols[x].dbid = cat.cols[k].dbid
                              /\ c.cols[x].ix[p] = cat.cols[k].ix[p]
  <2>1. x # n
    BY <1>3 DEF Indexed, NoCollection, NoIndex
  <2>2. \E k \in Names : c.cols[x] = cat.cols[k]
    BY <1>3, <2>1
  <2> QED
    BY <2>2 DEF Indexed
<1>5. Clean => Exact(c, docs, idx, uidx)
  <2>1. Clean => Exact(cat, docs, idx, uidx)
    BY DEF XInv, KeysOK
  <2> QED
    BY <1>4, <2>1, PartExact
<1>6. Clean /\ owner # "tx" => BufferOK(c, docs, pending)
  BY <1>1, RestEmpty, CleanParts, EmptyExact
<1> QED
  BY <1>1, <1>2, <1>5, <1>6, FinishX

----------------------------------------------------------------------------
(* Indexes that are built. *)

\* The keys of an index with another dbid stay as they are.
LEMMA BuildOthers ==
    ASSUME NEW c, NEW stored, NEW ks, NEW us, Exact(c, stored, ks, us), NEW x, NEW entries,
           \A n \in Names : \A p \in Indexed(c, n) : c.cols[n].ix[p].dbid # x
    PROVE  /\ Exact(c, stored, dropIdx(ks, {x}), buildUidx(us, x, entries))
           /\ Exact(c, stored, buildIdx(ks, x, entries), dropUidx(us, {x}))
<1>1. ASSUME NEW y, y # x
      PROVE  /\ \A v, id : /\ <<y, v, id>> \in dropIdx(ks, {x}) <=> <<y, v, id>> \in ks
                           /\ <<y, v, id>> \in buildIdx(ks, x, entries) <=> <<y, v, id>> \in ks
             /\ \A v : /\ <<y, v>> \in DOMAIN dropUidx(us, {x}) <=> <<y, v>> \in DOMAIN us
                       /\ <<y, v>> \in DOMAIN us => dropUidx(us, {x})[<<y, v>>] = us[<<y, v>>]
                       /\ <<y, v>> \in DOMAIN buildUidx(us, x, entries) <=> <<y, v>> \in DOMAIN us
                       /\ <<y, v>> \in DOMAIN us => buildUidx(us, x, entries)[<<y, v>>] = us[<<y, v>>]
  <2>1. \A v, id : <<y, v, id>> \in dropIdx(ks, {x}) <=> <<y, v, id>> \in ks
    BY <1>1 DEF dropIdx
  <2>2. \A v, id : <<y, v, id>> \in buildIdx(ks, x, entries) <=> <<y, v, id>> \in ks
    BY <1>1, <2>1 DEF buildIdx
  <2>3. \A v : /\ <<y, v>> \in DOMAIN dropUidx(us, {x}) <=> <<y, v>> \in DOMAIN us
               /\ <<y, v>> \in DOMAIN us => dropUidx(us, {x})[<<y, v>>] = us[<<y, v>>]
    BY <1>1 DEF dropUidx
  <2>4. \A v : <<y, v>> \notin {<<x, e[1]>> : e \in entries}
    BY <1>1
  <2>5. \A v : /\ <<y, v>> \in DOMAIN buildUidx(us, x, entries) <=> <<y, v>> \in DOMAIN us
               /\ <<y, v>> \in DOMAIN us => buildUidx(us, x, entries)[<<y, v>>] = us[<<y, v>>]
    BY <2>3, <2>4 DEF buildUidx
  <2> QED
    BY <2>1, <2>2, <2>3, <2>5
<1>2. ASSUME NEW n \in Names, NEW p \in Indexed(c, n)
      PROVE  /\ KeyExact(c, stored, dropIdx(ks, {x}), buildUidx(us, x, entries), n, p)
             /\ KeyExact(c, stored, buildIdx(ks, x, entries), dropUidx(us, {x}), n, p)
  <2>1. PICK y : y = c.cols[n].ix[p].dbid /\ y # x
    OBVIOUS
  <2>2. KeyExact(c, stored, ks, us, n, p)
    BY DEF Exact
  <2> QED
    BY <1>1, <2>1, <2>2 DEF KeyExact
<1> QED
  BY <1>2 DEF Exact

\* rebuildIndex writes one key for each entry, and for nothing else.
LEMMA BuildOwn ==
    ASSUME NEW ks, NEW us, NEW x, NEW entries \in SUBSET (Keys \X Ids), NEW v \in Keys, NEW id \in Ids
    PROVE  /\ <<x, v, id>> \in buildIdx(ks, x, entries) <=> <<v, id>> \in entries
           /\ ~Duplicates(entries) =>
                 (/\ <<x, v>> \in DOMAIN buildUidx(us, x, entries)
                  /\ buildUidx(us, x, entries)[<<x, v>>] = id) <=> <<v, id>> \in entries
<1>1. <<x, v, id>> \in buildIdx(ks, x, entries) <=> <<v, id>> \in entries
  <2>1. <<x, v, id>> \notin dropIdx(ks, {x})
    BY DEF dropIdx
  <2>2. \A e \in entries : e = <<e[1], e[2]>>
    OBVIOUS
  <2>3. <<x, v, id>> \in {<<x, e[1], e[2]>> : e \in entries} <=> <<v, id>> \in entries
    BY <2>2
  <2> QED
    BY <2>1, <2>3 DEF buildIdx
<1>2. ASSUME ~Duplicates(entries)
      PROVE  (/\ <<x, v>> \in DOMAIN buildUidx(us, x, entries)
              /\ buildUidx(us, x, entries)[<<x, v>>] = id) <=> <<v, id>> \in entries
  <2> DEFINE new == {<<x, e[1]>> : e \in entries}
             k == <<x, v>>
             first == CHOOSE e \in entries : e[1] = k[2]
             res == buildUidx(us, x, entries)
  <2>1. k[1] = x /\ k[2] = v
    OBVIOUS
  <2>2. k \notin DOMAIN dropUidx(us, {x})
    BY DEF dropUidx
  <2>3. res = [j \in DOMAIN dropUidx(us, {x}) \cup new |->
                  IF j \in new THEN (CHOOSE e \in entries : e[1] = j[2])[2] ELSE us[j]]
    BY DEF buildUidx
  <2>4. /\ k \in DOMAIN res <=> k \in new
        /\ k \in new => res[k] = first[2]
    BY <2>2, <2>3
  <2>5. k \in new <=> \E e \in entries : e[1] = v
    BY <2>1
  <2>6. (\E e \in entries : e[1] = v) => first \in entries /\ first[1] = v
    BY <2>1
  <2>7. \A e \in entries : e = <<e[1], e[2]>> /\ e[1] \in Keys /\ e[2] \in Ids
    OBVIOUS
  <2>8. \A e, f \in entries : e[1] = f[1] => e[2] = f[2]
    BY <1>2 DEF Duplicates
  <2> HIDE DEF res, first, new
  <2>9. <<v, id>> \in entries => first[2] = id
    <3>1. SUFFICES ASSUME <<v, id>> \in entries PROVE first[2] = id
      OBVIOUS
    <3>2. <<v, id>>[1] = v /\ <<v, id>>[2] = id
      OBVIOUS
    <3>3. first \in entries /\ first[1] = v
      BY <2>6, <3>1, <3>2
    <3> QED
      BY <2>8, <3>1, <3>2, <3>3
  <2>10. <<v, id>> \in entries => \E e \in entries : e[1] = v
    <3>1. <<v, id>>[1] = v
      OBVIOUS
    <3> QED
      BY <3>1
  <2>11. first \in entries /\ first[1] = v /\ first[2] = id => <<v, id>> \in entries
    BY <2>7
  <2> QED
    BY <2>4, <2>5, <2>6, <2>9, <2>10, <2>11 DEF res
<1> QED
  BY <1>1, <1>2

LEMMA EnsureIndexX ==
    ASSUME IInv, CInv, XInv, NEW n \in Names, NEW p \in Paths, NEW unique \in BOOLEAN,
           EnsureIndex(n, p, unique)
    PROVE  XInv'
<1> DEFINE c == ensureCollection(cat, n)
           entries == IndexEntries(docs, c.cols[n].dbid, p)
           x == c.next + 1
           i == [dbid |-> x, unique |-> unique, rnum |-> Cardinality(entries)]
           built == [c EXCEPT !.cols[n].ix[p] = i]
           ks == IF unique THEN dropIdx(idx, {x}) ELSE buildIdx(idx, x, entries)
           us == IF unique THEN buildUidx(uidx, x, entries) ELSE dropUidx(uidx, {x})
<1>1. /\ Ready /\ up /\ job = NoJob /\ job # IndexJob /\ cat \in CatalogType
      /\ p \notin Indexed(c, n)
  BY DEF EnsureIndex, Ready, IInv, TypeOK, NoJob, IndexJob
<1>2. Grow(cat, c) /\ Exists(c, n) /\ c \in CatalogType
  BY <1>1, EnsureQuiet, SMTT(30) DEF Grow, GoodUpdate
<1>3. \/ /\ ~(unique /\ Duplicates(entries))
         /\ cat' = built /\ meta' = built /\ docs' = docs /\ job' = IndexJob
         /\ idx' = ks /\ uidx' = us /\ saved' = saved
         /\ Blame(If(owner = "tx", "ddl"))
      \/ Refuse(c)
  BY DEF EnsureIndex
<1>4. entries \in SUBSET (Keys \X Ids)
  BY DEF IndexEntries
<1>5. \A m \in Names : /\ built.cols[m].dbid = c.cols[m].dbid
                       /\ \A q \in Paths : built.cols[m].ix[q] = IF m = n /\ q = p THEN i ELSE c.cols[m].ix[q]
  <2> DEFINE col == [c.cols[n] EXCEPT !.ix[p] = i]
  <2>1. /\ c.cols \in [Names -> CollectionType] /\ c.cols[n] \in CollectionType
        /\ c.cols[n].ix \in [Paths -> IndexType]
    BY <1>2, CatalogParts DEF CatalogType
  <2>2. built.cols[n] = col /\ \A m \in Names \ {n} : built.cols[m] = c.cols[m]
    BY <1>2, <2>1 DEF CatalogType
  <2>3. /\ col.dbid = c.cols[n].dbid
        /\ \A q \in Paths : col.ix[q] = IF q = p THEN i ELSE c.cols[n].ix[q]
    BY <2>1 DEF CollectionType
  <2> HIDE DEF col, built, i
  <2> QED
    BY <2>2, <2>3
<1>6. i.dbid = x /\ i.unique = unique
  OBVIOUS
<1>7. ASSUME NEW v \in Keys, NEW id \in Ids
      PROVE  v \in valuesForIndex(getDoc(docs, c.cols[n].dbid, id), p) <=> <<v, id>> \in entries
  BY DEF IndexEntries
<1> HIDE DEF c, entries, i, built
<1>8. CASE Refuse(c)
  BY <1>1, <1>2, <1>8, RefuseX
<1>9. CASE /\ ~(unique /\ Duplicates(entries))
           /\ cat' = built /\ meta' = built /\ docs' = docs /\ job' = IndexJob
           /\ idx' = ks /\ uidx' = us /\ saved' = saved
           /\ Blame(If(owner = "tx", "ddl"))
  <2>1. Clean' => Clean
    BY <1>9 DEF Blame, Clean, Free
  <2>2. ASSUME Clean PROVE Exact(built, docs, ks, us) /\ Exact(saved.cat, docs, ks, us)
    <3>1. CatOK(c) /\ c.next \in Nat /\ \A m \in Names, q \in Paths : c.cols[m].ix[q].dbid \in Nat
      BY <1>1, <1>2, HereOK, GrowOK, CatalogParts DEF CatalogType
    <3>2. ASSUME NEW m \in Names, NEW q \in Indexed(c, m) PROVE c.cols[m].ix[q].dbid # x
      <4>1. q \in Paths
        BY DEF Indexed
      <4>2. c.cols[m].ix[q].dbid <= c.next
        BY <2>2, <3>1, <4>1, CleanParts DEF CatOK, IxBelow
      <4> QED
        BY <3>1, <4>1, <4>2
    <3>3. ASSUME NEW m \in Names, NEW q \in Indexed(saved.cat, m) PROVE saved.cat.cols[m].ix[q].dbid # x
      <4>1. /\ q \in Paths /\ saved.cat \in CatalogType /\ cat \in CatalogType
            /\ saved.cat.cols[m].ix[q].dbid # 0
        BY DEF Indexed, IInv, TypeOK
      <4>2. /\ saved.cat.cols[m].ix[q].dbid \in Nat /\ saved.cat.next \in Nat /\ cat.next \in Nat
        BY <4>1, CatalogParts DEF CatalogType
      <4>3. saved.cat.cols[m].ix[q].dbid <= saved.cat.next
        BY <2>2, <4>1, CleanParts DEF CInv, IndexesOK, IxBelow
      <4>4. CASE owner = "tx"
        <5>1. saved.cat.next <= cat.next /\ cat.next <= c.next
          BY <3>1, <4>4 DEF CInv, ControlOK, CatOK
        <5> QED
          BY <3>1, <4>2, <4>3, <5>1
      <4>5. CASE owner # "tx"
        <5>1. saved.cat = newState
          BY <4>5, NewStateOK DEF CInv, ControlOK
        <5> QED
          BY <4>1, <5>1, NewStateOK DEF NoCollection, NoIndex
      <4> QED
        BY <4>4, <4>5
    <3>4. Exact(c, docs, idx, uidx) /\ Exact(saved.cat, docs, idx, uidx)
      BY <1>1, <1>2, <2>2, HereX, GrowExact
    <3>5. Exact(c, docs, ks, us)
      BY <3>2, <3>4, BuildOthers
    <3>6. Exact(saved.cat, docs, ks, us)
      BY <3>3, <3>4, BuildOthers
    <3>7. ASSUME NEW m \in Names, NEW q \in Indexed(built, m) PROVE KeyExact(built, docs, ks, us, m, q)
      <4>1. q \in Paths
        BY DEF Indexed
      <4>2. CASE ~(m = n /\ q = p)
        <5>1. built.cols[m].ix[q] = c.cols[m].ix[q] /\ built.cols[m].dbid = c.cols[m].dbid
          BY <1>5, <4>1, <4>2
        <5>2. q \in Indexed(c, m)
          BY <3>7, <5>1 DEF Indexed
        <5>3. KeyExact(c, docs, ks, us, m, q)
          BY <3>5, <5>2 DEF Exact
        <5> HIDE DEF ks, us
        <5> QED
          BY <5>1, <5>3 DEF KeyExact
      <4>3. CASE m = n /\ q = p
        <5>1. built.cols[m].ix[q].dbid = x /\ built.cols[m].ix[q].unique = unique
              /\ built.cols[m].dbid = c.cols[n].dbid
          BY <1>5, <1>6, <4>1, <4>3
        <5>2. CASE unique
          <6>1. us = buildUidx(uidx, x, entries)
            BY <5>2
          <6> HIDE DEF us, ks
          <6>2. ASSUME NEW v \in Keys, NEW id \in Ids
                PROVE  (<<x, v>> \in DOMAIN us /\ us[<<x, v>>] = id) <=> <<v, id>> \in entries
            <7>1. ~Duplicates(entries)
              BY <1>9, <5>2
            <7> HIDE DEF x
            <7> QED
              BY <1>4, <6>1, <7>1, BuildOwn, Zenon
          <6> HIDE DEF x
          <6> QED
            BY <1>7, <4>3, <5>1, <5>2, <6>2 DEF KeyExact
        <5>3. CASE ~unique
          <6>1. ks = buildIdx(idx, x, entries)
            BY <5>3
          <6> HIDE DEF us, ks
          <6>2. ASSUME NEW v \in Keys, NEW id \in Ids
                PROVE  <<x, v, id>> \in ks <=> <<v, id>> \in entries
            BY <1>4, <6>1, BuildOwn
          <6> HIDE DEF x
          <6> QED
            BY <1>7, <4>3, <5>1, <5>3, <6>2 DEF KeyExact
        <5> QED
          BY <5>2, <5>3
      <4> QED
        BY <4>2, <4>3
    <3> QED
      BY <3>6, <3>7 DEF Exact
  <2> HIDE DEF ks, us
  <2>3. KeysOK'
    BY <1>9, <2>1, <2>2 DEF KeysOK
  <2>4. PendingOK'
    BY <1>9 DEF PendingOK, IndexJob
  <2> QED
    BY <2>3, <2>4 DEF XInv
<1> QED
  BY <1>3, <1>8, <1>9

LEMMA EnsureIndexDoneX ==
    ASSUME IInv, CInv, XInv, EnsureIndexDone
    PROVE  XInv'
<1> DEFINE c == [cat EXCEPT !.next = @ + 1]
<1>1. /\ up /\ job = IndexJob /\ job # NoJob /\ job.kind # "query" /\ pending \in Seq(MutationType)
      /\ Finish(c, pending, TRUE)
  BY DEF EnsureIndexDone, IInv, TypeOK, IndexJob, NoJob
<1>2. CatOK(c) /\ c.cols = cat.cols
  BY <1>1, AdvanceOK
<1> HIDE DEF c
<1>3. Clean => Exact(c, docs, idx, uidx)
  <2>1. \A n \in Names : SameKeys(cat, c, n)
    BY <1>2 DEF SameKeys
  <2> QED
    BY <2>1, SameExact DEF XInv, KeysOK
<1>4. Clean /\ owner # "tx" => pending = <<>>
  <2>1. owner # "tx" => owner = "call"
    BY <1>1 DEF IInv, TypeOK
  <2> QED
    BY <1>1, <2>1, CleanParts DEF CInv, FlagsOK
<1>5. Clean /\ owner # "tx" => BufferOK(c, docs, pending)
  BY <1>4, EmptyExact
<1> QED
  BY <1>1, <1>2, <1>3, <1>5, FinishX

----------------------------------------------------------------------------
(* Queries. *)

LEMMA QueryBeginX ==
    ASSUME IInv, CInv, XInv, NEW n \in Names, NEW act \in Acts, QueryBegin(n, act)
    PROVE  XInv'
<1> DEFINE c == IF act = "upsert" THEN ensureCollection(cat, n) ELSE cat
<1>1. /\ Ready /\ up /\ job = NoJob /\ job # IndexJob /\ cat \in CatalogType
      /\ pending \in Seq(MutationType) /\ DocsType(docs)
  BY DEF QueryBegin, Ready, IInv, TypeOK, NoJob, IndexJob
<1>2. Grow(cat, c)
  BY <1>1, EnsureQuiet, GrowSame
<1>3. /\ Exists(c, n) /\ cat' = c /\ UNCHANGED <<engine, pending, dirtyFull, saved>>
      /\ act = "del" => c = cat
  BY DEF QueryBegin
<1>4. PICK w \in (IF Exists(cat, n) THEN Windows(n) ELSE {<<>>}) :
         /\ job' = [kind |-> "query", col |-> n, act |-> act,
                    todo |-> [i \in DOMAIN w |-> [id |-> w[i], doc |-> OldDoc(cat, n, w[i])]],
                    empty |-> w = <<>>, changed |-> FALSE]
         /\ Blame(If(\E id \in Ids : Occurrences(w, id) > 1, "repeated"))
  BY DEF QueryBegin
<1> HIDE DEF c
<1>5. \A X : Free(X)' => Free(X)
  BY <1>4 DEF Blame, Free
<1>6. /\ Clean => Exact(c, docs, idx, uidx) /\ Exact(saved.cat, docs, idx, uidx) /\ Exact(cat, docs, idx, uidx)
      /\ Clean /\ ~dirtyFull => BufferOK(c, docs, pending) /\ BufferOK(cat, docs, pending)
  BY <1>1, <1>2, HereX, GrowExact
<1>7. PICK todo : todo = [i \in DOMAIN w |-> [id |-> w[i], doc |-> OldDoc(cat, n, w[i])]]
  OBVIOUS
<1>8. job'.act = act /\ job'.col = n /\ job'.todo = todo
  BY <1>4, <1>7
<1>9. ASSUME Clean, ~dirtyFull, act = "del" PROVE WindowOK(c, docs, pending, n, todo)
  <2>1. c = cat /\ Exists(cat, n) /\ w \in Windows(n)
    BY <1>3, <1>4, <1>9
  <2>2. PICK k \in 0..(MaxPending - Len(pending)) : w \in [1..k -> scanDocumentIDs(n)]
    BY <2>1 DEF Windows
  <2>3. \A i \in DOMAIN w : w[i] \in Ids
    BY <2>2 DEF scanDocumentIDs
  <2>4. CatOK(cat) /\ IxDistinct(cat)
    BY <1>1, <1>9, HereOK, CleanParts DEF CatOK
  <2>5. ASSUME NEW id \in Ids
        PROVE  /\ ViewAt(cat, docs, pending, n, id, Len(pending)) = OldDoc(cat, n, id)
               /\ Alone(cat, docs, pending, n, id, OldDoc(cat, n, id), Len(pending))
    <3>1. ViewAt(cat, docs, pending, n, id, Len(pending)) = OldDoc(cat, n, id)
      BY <1>1, ViewEnds DEF OldDoc
    <3>2. Alone(cat, docs, pending, n, id, ViewAt(cat, docs, pending, n, id, Len(pending)), Len(pending))
      BY <1>1, <1>6, <1>9, <2>4, ViewUnique
    <3> QED
      BY <3>1, <3>2
  <2>6. DOMAIN todo = DOMAIN w /\ \A i \in DOMAIN w : todo[i].id = w[i] /\ todo[i].doc = OldDoc(cat, n, w[i])
    BY <1>7
  <2> QED
    BY <2>1, <2>3, <2>5, <2>6 DEF WindowOK
<1> QED
  BY <1>3, <1>5, <1>6, <1>8, <1>9, StayX

LEMMA QueryStepX ==
    ASSUME IInv, XInv, job \in QueryJobs, NEW c, NEW pend \in Seq(MutationType), NEW todo,
           Clean => Exact(c, docs, idx, uidx), Clean /\ ~dirtyFull => BufferOK(c, docs, pend),
           Clean /\ ~dirtyFull /\ job.act = "del" => WindowOK(c, docs, pend, job.col, todo),
           QueryStep(c, pend, todo)
    PROVE  XInv'
<1>1. /\ cat' = c /\ pending' = pend /\ dirtyFull' = dirtyFull /\ saved' = saved /\ UNCHANGED engine
      /\ job' # IndexJob /\ job'.act = job.act /\ job'.col = job.col /\ job'.todo = todo
  BY DEF QueryStep, QueryJobs, IndexJob
<1>2. \A X : Free(X)' => Free(X)
  BY DEF QueryStep, Blame, Free
<1>3. Clean => Exact(saved.cat, docs, idx, uidx)
  BY DEF XInv, KeysOK
<1> QED
  BY <1>1, <1>2, <1>3, StayX

\* A deleted document leaves the others of the window as they were.
LEMMA DeleteWindow ==
    ASSUME NEW c, NEW stored, NEW pend \in Seq(MutationType), NEW n, NEW todo, WindowOK(c, stored, pend, n, todo),
           NEW m \in MutationType, m.new = NoDoc, NEW rest,
           \A i \in DOMAIN rest : \E j \in DOMAIN todo : rest[i] = todo[j]
    PROVE  WindowOK(c, stored, Append(pend, m), n, rest)
<1>1. PICK q : q = Append(pend, m)
  OBVIOUS
<1>2. \A id : ViewAt(c, stored, q, n, id, Len(q)) \in {NoDoc, ViewAt(c, stored, pend, n, id, Len(pend))}
  <2>1. Len(q) = Len(pend) + 1
    BY <1>1
  <2> QED
    BY <1>1, <2>1, ViewAppend
<1>3. ASSUME NEW id, NEW doc, Alone(c, stored, pend, n, id, doc, Len(pend))
      PROVE  Alone(c, stored, q, n, id, doc, Len(q))
  <2>1. \A o, p : valuesForIndex(ViewAt(c, stored, q, n, o, Len(q)), p) \subseteq
                     valuesForIndex(ViewAt(c, stored, pend, n, o, Len(pend)), p)
    BY <1>2 DEF valuesForIndex
  <2> QED
    BY <1>3, <2>1 DEF Alone
<1>4. ASSUME NEW i \in DOMAIN rest
      PROVE  /\ ViewAt(c, stored, q, n, rest[i].id, Len(q)) \in {NoDoc, rest[i].doc}
             /\ Alone(c, stored, q, n, rest[i].id, rest[i].doc, Len(q))
  <2>1. PICK j \in DOMAIN todo : rest[i] = todo[j]
    OBVIOUS
  <2>2. /\ ViewAt(c, stored, pend, n, rest[i].id, Len(pend)) \in {NoDoc, rest[i].doc}
        /\ Alone(c, stored, pend, n, rest[i].id, rest[i].doc, Len(pend))
    BY <2>1 DEF WindowOK
  <2> QED
    BY <1>2, <1>3, <2>2
<1> QED
  BY <1>1, <1>4 DEF WindowOK

LEMMA QueryStepsX ==
    ASSUME IInv, CInv, XInv, NEW d \in Docs, QueryDelete \/ QueryApply(d) \/ QueryInsert(d)
    PROVE  XInv'
<1> DEFINE n == job.col
           m == Head(job.todo)
<1>1. cat \in CatalogType /\ NoDoc \in MaybeDocs /\ d \in MaybeDocs /\ pending \in Seq(MutationType)
  BY DEF IInv, TypeOK, MaybeDocs
<1>2. PICK acts : InQuery(acts)
  BY DEF QueryDelete, QueryApply, QueryInsert
<1>3. /\ up /\ job \in QueryJobs /\ n \in Names /\ job.todo \in Seq(Hit) /\ job.kind = "query"
      /\ job.todo # <<>> => m.id \in Ids /\ m.doc \in Docs
  BY <1>2, InQueryType DEF InQuery
<1>4. job # IndexJob /\ Exists(cat, n) /\ CatOK(cat)
  BY <1>3, HereOK DEF CInv, ControlOK, IndexJob
<1>5. /\ Clean => Exact(cat, docs, idx, uidx) /\ IxDistinct(cat)
      /\ Clean /\ ~dirtyFull => BufferOK(cat, docs, pending)
  BY <1>4, HereX, CleanParts DEF CatOK
<1>6. job.todo # <<>> => /\ 1 \in DOMAIN job.todo /\ m = job.todo[1]
                         /\ \A i \in DOMAIN Tail(job.todo) :
                               \E j \in DOMAIN job.todo : Tail(job.todo)[i] = job.todo[j]
  <2>1. SUFFICES ASSUME job.todo # <<>>
                 PROVE  /\ 1 \in DOMAIN job.todo /\ m = job.todo[1]
                        /\ \A i \in DOMAIN Tail(job.todo) :
                              i + 1 \in DOMAIN job.todo /\ Tail(job.todo)[i] = job.todo[i + 1]
    OBVIOUS
  <2> QED
    BY <1>3, <2>1
<1>7. CASE QueryDelete
  <2> DEFINE c == CountDelete(cat, n, m.doc)
             mut == Mutation(n, m.id, m.doc, NoDoc)
  <2>1. job.todo # <<>> /\ job.act = "del" /\ QueryStep(c, Append(pending, mut), Tail(job.todo))
    BY <1>7 DEF QueryDelete, InQuery
  <2>2. m.id \in Ids /\ m.doc \in MaybeDocs
    BY <1>3, <2>1 DEF MaybeDocs
  <2>3. mut \in MutationType /\ mut.col = n /\ mut.id = m.id /\ mut.old = m.doc /\ mut.new = NoDoc
    BY <1>1, <1>3, <2>2 DEF Mutation, MutationType
  <2>4. Clean /\ ~dirtyFull => WindowOK(cat, docs, pending, n, job.todo)
    BY <1>3, <2>1 DEF XInv, PendingOK
  <2>5. 1 \in DOMAIN job.todo /\ m = job.todo[1]
    BY <1>6, <2>1
  <2>6. PICK rest : rest = Tail(job.todo)
    OBVIOUS
  <2>7. \A i \in DOMAIN rest : \E j \in DOMAIN job.todo : rest[i] = job.todo[j]
    BY <1>6, <2>1, <2>6
  <2> HIDE DEF mut, n, m
  <2>8. Grow(cat, c)
    BY <1>1, <1>3, <1>4, <2>2, CountGrow
  <2> HIDE DEF c
  <2>9. Clean => Exact(c, docs, idx, uidx)
    BY <1>5, <2>8, GrowExact
  <2>10. Append(pending, mut) \in Seq(MutationType)
    BY <1>1, <2>3
  <2>11. PICK pend : pend = Append(pending, mut)
    OBVIOUS
  <2>12. ASSUME Clean, ~dirtyFull
         PROVE  BufferOK(c, docs, pend) /\ WindowOK(c, docs, pend, n, rest)
    <3>1. /\ ViewAt(cat, docs, pending, n, m.id, Len(pending)) \in {NoDoc, m.doc}
          /\ Alone(cat, docs, pending, n, m.id, m.doc, Len(pending))
      BY <2>4, <2>5, <2>12 DEF WindowOK
    <3>2. Alone(cat, docs, pending, n, m.id, NoDoc, Len(pending))
      BY DEF Alone, valuesForIndex
    <3>3. BufferOK(cat, docs, pend)
      BY <1>1, <1>4, <1>5, <2>3, <2>10, <2>11, <2>12, <3>1, <3>2, AppendBuffer
    <3>4. WindowOK(cat, docs, pend, n, rest)
      BY <1>1, <2>3, <2>4, <2>7, <2>10, <2>11, <2>12, DeleteWindow
    <3>5. SameKeys(cat, c, n)
      BY <1>3, <1>4, <2>8, GrowSameKeys
    <3> QED
      BY <2>8, <2>10, <2>11, <3>3, <3>4, <3>5, GrowExact, SameWindow
  <2>13. QueryStep(c, pend, rest)
    BY <2>1, <2>6, <2>10, <2>11
  <2> QED
    BY <1>3, <2>9, <2>10, <2>11, <2>12, <2>13, QueryStepX DEF n
<1>8. CASE QueryApply(d)
  <2> DEFINE id == m.id
  <2>1. /\ job.todo # <<>> /\ job.act # "del" /\ Accepts(cat, n, id, d)
        /\ QueryStep(PutCat(cat, n, id, d), PutPending(cat, n, id, d), Tail(job.todo))
    BY <1>8 DEF QueryApply, InQuery
  <2>2. id \in Ids
    BY <1>3, <2>1
  <2> HIDE DEF id, n
  <2>3. Grow(cat, PutCat(cat, n, id, d)) /\ PutPending(cat, n, id, d) \in Seq(MutationType)
    BY <1>1, <1>3, <1>4, <2>2, PutOK
  <2>4. Clean => Exact(PutCat(cat, n, id, d), docs, idx, uidx)
    BY <1>5, <2>3, GrowExact
  <2>5. Clean /\ ~dirtyFull => BufferOK(PutCat(cat, n, id, d), docs, PutPending(cat, n, id, d))
    BY <1>1, <1>3, <1>4, <1>5, <2>1, <2>2, PutX
  <2>6. PICK rest : rest = Tail(job.todo)
    OBVIOUS
  <2> QED
    BY <1>3, <2>1, <2>3, <2>4, <2>5, <2>6, QueryStepX
<1>9. CASE QueryInsert(d)
  <2> DEFINE id == cat.cols[n].nextId + 1
             c == RaiseNextId(cat, n, id)
  <2>1. /\ id \in Ids /\ job.act # "del" /\ Accepts(c, n, id, d)
        /\ QueryStep(PutCat(c, n, id, d), PutPending(c, n, id, d), <<>>)
    BY <1>9 DEF QueryInsert, InQuery
  <2> HIDE DEF id, n
  <2>2. Grow(cat, c) /\ Exists(c, n)
    BY <1>1, <1>3, <1>4, <2>1, RaiseQuiet
  <2> HIDE DEF c
  <2>3. CatOK(c) /\ c \in CatalogType
    BY <1>1, <1>4, <2>2, GrowOK DEF CatOK
  <2>4. Grow(c, PutCat(c, n, id, d)) /\ PutPending(c, n, id, d) \in Seq(MutationType)
    BY <1>1, <1>3, <2>1, <2>2, <2>3, PutOK
  <2>5. /\ Clean => Exact(c, docs, idx, uidx) /\ IxDistinct(c)
        /\ Clean /\ ~dirtyFull => BufferOK(c, docs, pending)
    BY <1>1, <1>5, <2>2, <2>3, GrowExact, CleanParts DEF CatOK
  <2>6. Clean => Exact(PutCat(c, n, id, d), docs, idx, uidx)
    BY <2>4, <2>5, GrowExact
  <2>7. Clean /\ ~dirtyFull => BufferOK(PutCat(c, n, id, d), docs, PutPending(c, n, id, d))
    BY <1>1, <1>3, <2>1, <2>2, <2>3, <2>5, PutX
  <2> QED
    BY <1>3, <2>1, <2>4, <2>6, <2>7, QueryStepX
<1> QED
  BY <1>7, <1>8, <1>9

LEMMA QueryEndsX ==
    ASSUME IInv, CInv, XInv, QueryFail \/ QueryEnd
    PROVE  XInv'
<1>1. /\ InQuery(Acts) /\ up /\ job.kind = "query" /\ job # IndexJob /\ NoJob.kind # "query"
      /\ pending \in Seq(MutationType) /\ NoJob # IndexJob
  BY DEF QueryFail, QueryEnd, InQuery, IndexJob, NoJob, IInv, TypeOK
<1>2. /\ Clean => Exact(cat, docs, idx, uidx) /\ Exact(saved.cat, docs, idx, uidx)
      /\ Clean /\ ~dirtyFull => BufferOK(cat, docs, pending)
  BY <1>1, HereX
<1>3. ASSUME ReleaseCall, UNCHANGED <<engine, memory, saved, up>>, \A X : Free(X)' => Free(X)
      PROVE  XInv'
  <2>1. /\ cat' = cat /\ pending' = pending /\ dirtyFull' = dirtyFull /\ saved' = saved /\ job' = NoJob
        /\ UNCHANGED engine
    BY <1>3 DEF ReleaseCall, memory
  <2> QED
    BY <1>1, <1>2, <1>3, <2>1, StayX
<1>4. CASE QueryFail
  <2>1. /\ ReleaseCall /\ UNCHANGED <<engine, memory, saved, up>>
        /\ \A X : Free(X)' => Free(X)
    BY <1>4 DEF QueryFail, Blame, Free
  <2> QED
    BY <1>3, <2>1
<1>5. CASE owner = "call" /\ job.changed /\ FinishCall(cat, pending)
  <2>1. CatOK(cat) /\ owner # "tx"
    BY <1>1, <1>5, HereOK
  <2>2. Clean => ~dirtyFull
    BY <1>5, CleanParts DEF CInv, FlagsOK
  <2> QED
    BY <1>1, <1>2, <1>5, <2>1, <2>2, FinishCallX
<1>6. CASE ReleaseCall /\ UNCHANGED <<engine, memory, saved, up, faults>>
  <2>1. \A X : Free(X)' => Free(X)
    BY <1>6 DEF Free
  <2> QED
    BY <1>3, <1>6, <2>1
<1> QED
  BY <1>4, <1>5, <1>6 DEF QueryEnd

----------------------------------------------------------------------------
(* Write transactions and process life. *)

LEMMA TxActionsX ==
    ASSUME IInv, CInv, XInv, TxBegin \/ TxCommit \/ TxAbort
    PROVE  XInv'
<1>1. CASE Panic(cat, pending, dirtyFull)
  BY <1>1, DownX DEF Panic
<1>2. CASE ~Panic(cat, pending, dirtyFull)
  <2>1. /\ up /\ job = NoJob /\ job' = job /\ job # IndexJob /\ job.kind # "query"
        /\ cat \in CatalogType /\ pending \in Seq(MutationType) /\ dirtyFull \in BOOLEAN
        /\ saved.dirtyFull \in BOOLEAN
    BY <1>2 DEF TxBegin, TxCommit, TxAbort, TxEnd, Ready, NoJob, IndexJob, IInv, TypeOK
  <2>2. CatOK(cat)
    BY <2>1, HereOK
  <2>3. /\ Clean => Exact(cat, docs, idx, uidx) /\ Exact(saved.cat, docs, idx, uidx)
        /\ Clean /\ ~dirtyFull => BufferOK(cat, docs, pending)
    BY <2>1, HereX
  <2>4. \A X : Free(X)' => Free(X)
    BY <1>2 DEF TxBegin, TxCommit, TxAbort, Blame, Free
  <2>5. CASE TxBegin
    <3>1. /\ cat' = cat /\ pending' = pending /\ dirtyFull' = dirtyFull /\ UNCHANGED engine
          /\ saved'.cat = cat
      BY <2>5 DEF TxBegin, memory
    <3> QED
      BY <2>1, <2>3, <2>4, <3>1, StayX
  <2>6. CASE TxCommit
    <3>1. commitLocked(cat, pending, dirtyMeta, dirtyFull) /\ saved' = NoTx
      BY <1>2, <2>6 DEF TxCommit, TxEnd
    <3> QED
      BY <2>1, <2>2, <2>3, <2>4, <3>1, CommitX
  <2>7. CASE TxAbort
    <3>1. /\ cat' = saved.cat /\ pending' = SubSeq(pending, 1, saved.len) /\ UNCHANGED engine
          /\ saved' = NoTx /\ NoTx.cat = newState
      BY <2>7, NewStateOK DEF TxAbort, TxEnd, truncatePending
    <3>2. PICK pend : pend = SubSeq(pending, 1, saved.len)
      OBVIOUS
    <3>3. Clean => pend = <<>>
      <4>1. Clean => saved.len = 0
        BY CleanParts DEF CInv, FlagsOK
      <4>2. SubSeq(pending, 1, 0) = <<>>
        BY <2>1
      <4> QED
        BY <3>2, <4>1, <4>2
    <3>4. PICK s : s = saved.cat
      OBVIOUS
    <3>5. Clean => BufferOK(s, docs, pend)
      BY <3>3, EmptyExact
    <3>6. Exact(newState, docs, idx, uidx)
      BY EmptyExact
    <3> QED
      BY <2>1, <2>3, <2>4, <3>1, <3>2, <3>4, <3>5, <3>6, StayX
  <2> QED
    BY <2>5, <2>6, <2>7
<1> QED
  BY <1>1, <1>2

LEMMA OpenX ==
    ASSUME IInv, CInv, XInv, Open
    PROVE  XInv'
<1>1. /\ ~up /\ cat' = meta /\ pending' = pending /\ dirtyFull' = dirtyFull /\ job' = job
      /\ saved' = saved /\ faults' = faults /\ UNCHANGED engine
  BY DEF Open
<1>2. /\ job = NoJob /\ job.kind # "query" /\ pending = <<>>
  BY <1>1 DEF CInv, ControlOK, IInv, TypeOK, NoJob
<1>3. Clean => Exact(meta, docs, idx, uidx) /\ Exact(saved.cat, docs, idx, uidx)
  BY DEF XInv, KeysOK
<1>4. BufferOK(meta, docs, <<>>)
  BY EmptyExact
<1>5. \A X : Free(X)' => Free(X)
  BY <1>1 DEF Free
<1> QED
  BY <1>1, <1>2, <1>3, <1>4, <1>5, StayX

----------------------------------------------------------------------------
(* The invariant holds. *)

LEMMA InitX == Init => XInv
<1> SUFFICES ASSUME Init PROVE XInv
  OBVIOUS
<1>1. /\ meta = newState /\ cat = newState /\ pending = <<>> /\ job = NoJob /\ saved = NoTx
      /\ NoTx.cat = newState /\ NoJob.kind # "query"
  BY NewStateOK DEF Init, NoJob
<1>2. Exact(newState, docs, idx, uidx) /\ BufferOK(newState, docs, <<>>)
  BY EmptyExact
<1> QED
  BY <1>1, <1>2 DEF XInv, KeysOK, PendingOK

LEMMA NextX == IInv /\ CInv /\ XInv /\ [Next]_vars => XInv'
<1> SUFFICES ASSUME IInv, CInv, XInv, [Next]_vars PROVE XInv'
  OBVIOUS
<1>1. ASSUME NEW n \in Names, EnsureCollection(n) PROVE XInv'
  BY <1>1, EnsureCollectionX
<1>2. ASSUME NEW n \in Names, RemoveCollection(n) PROVE XInv'
  BY <1>2, RemoveActionX
<1>3. ASSUME NEW n \in Names, NEW m \in Names, RenameCollection(n, m) PROVE XInv'
  BY <1>3, RenameActionX
<1>4. ASSUME NEW n \in Names, NEW d \in MaybeDocs, PutNew(n, d) PROVE XInv'
  <2>1. PICK id \in Ids : TRUE
    BY <1>4 DEF PutNew
  <2> QED
    BY <1>4, <2>1, PutActionsX
<1>5. ASSUME NEW n \in Names, NEW id \in Ids, NEW d \in MaybeDocs,
             Put(n, id, d) \/ Patch(n, id, d) \/ MergeOrPut(n, id, d)
      PROVE  XInv'
  BY <1>5, PutActionsX
<1>6. ASSUME NEW n \in Names, NEW id \in Ids, Delete(n, id) PROVE XInv'
  BY <1>6, DeleteX
<1>7. ASSUME NEW n \in Names, NEW p \in Paths, NEW unique \in IndexModes, EnsureIndex(n, p, unique)
      PROVE  XInv'
  BY <1>7, BoundsAssumption, EnsureIndexX
<1>8. ASSUME NEW n \in Names, NEW p \in Paths, RemoveIndex(n, p) PROVE XInv'
  BY <1>8, RemoveIndexActionX
<1>9. ASSUME NEW n \in Names, NEW act \in QueryActs, QueryBegin(n, act) PROVE XInv'
  BY <1>9, BoundsAssumption, QueryBeginX
<1>10. ASSUME NEW d \in Docs, QueryApply(d) \/ QueryInsert(d) PROVE XInv'
  BY <1>10, QueryStepsX
<1>11. CASE QueryDelete
  <2>1. Head(job.todo).doc \in Docs
    BY <1>11, InQueryType DEF QueryDelete
  <2> QED
    BY <1>11, <2>1, QueryStepsX
<1>12. CASE QueryFail \/ QueryEnd
  BY <1>12, QueryEndsX
<1>13. CASE EnsureIndexDone
  BY <1>13, EnsureIndexDoneX
<1>14. CASE TxBegin \/ TxCommit \/ TxAbort
  BY <1>14, TxActionsX
<1>15. CASE Close \/ Crash
  BY <1>15, DownX DEF Close, Crash
<1>16. CASE Open
  BY <1>16, OpenX
<1>17. CASE UNCHANGED vars
  BY <1>17 DEF vars, engine, memory, control, XInv, KeysOK, PendingOK, Clean, Free
<1> QED
  BY <1>1, <1>2, <1>3, <1>4, <1>5, <1>6, <1>7, <1>8, <1>9, <1>10, <1>11, <1>12,
     <1>13, <1>14, <1>15, <1>16, <1>17 DEF Next

----------------------------------------------------------------------------
(* What exact indexes mean for the stored keys. *)

LEMMA ExactMeans ==
    ASSUME IInv, NEW c \in CatalogType, Exact(c, docs, idx, uidx)
    PROVE  /\ IndexExact(c)
           /\ \A n \in Names : \A p \in Indexed(c, n) :
                 c.cols[n].ix[p].unique => ~Duplicates(IndexEntries(docs, c.cols[n].dbid, p))
<1>1. SUFFICES ASSUME NEW n \in Names, NEW p \in Indexed(c, n)
      PROVE  LET x == c.cols[n].ix[p]
                 entries == IndexEntries(docs, c.cols[n].dbid, p)
             IN  /\ x.unique => ~Duplicates(entries)
                 /\ x.unique => {<<k[2], uidx[k]>> : k \in {k \in DOMAIN uidx : k[1] = x.dbid}} = entries
                 /\ ~x.unique => {<<e[2], e[3]>> : e \in {e \in idx : e[1] = x.dbid}} = entries
  BY DEF IndexExact
<1> DEFINE x == c.cols[n].ix[p]
           entries == IndexEntries(docs, c.cols[n].dbid, p)
<1>2. \A v \in Keys, id \in Ids :
         <<v, id>> \in entries <=> IF x.unique THEN <<x.dbid, v>> \in DOMAIN uidx /\ uidx[<<x.dbid, v>>] = id
                                   ELSE <<x.dbid, v, id>> \in idx
  <2>1. KeyExact(c, docs, idx, uidx, n, p)
    BY DEF Exact
  <2>2. ASSUME NEW v \in Keys, NEW id \in Ids
        PROVE  <<v, id>> \in entries <=> v \in valuesForIndex(getDoc(docs, c.cols[n].dbid, id), p)
    BY DEF IndexEntries
  <2> HIDE DEF entries
  <2> QED
    BY <2>1, <2>2 DEF KeyExact
<1>3. \A e \in entries : e[1] \in Keys /\ e[2] \in Ids /\ e = <<e[1], e[2]>>
  BY DEF IndexEntries
<1>4. entries \subseteq Keys \X Ids
  BY DEF IndexEntries
<1>5. PICK y : y = x.dbid
  OBVIOUS
<1>6. IdxType(idx) /\ UidxType(uidx)
  BY DEF IInv, TypeOK
<1>7. ASSUME x.unique
      PROVE  ~Duplicates(entries) /\ {<<k[2], uidx[k]>> : k \in {k \in DOMAIN uidx : k[1] = y}} = entries
  <2>1. \A v \in Keys, id \in Ids :
           <<v, id>> \in entries <=> <<y, v>> \in DOMAIN uidx /\ uidx[<<y, v>>] = id
    BY <1>2, <1>5, <1>7
  <2>2. \A k \in DOMAIN uidx : k = <<k[1], k[2]>> /\ k[2] \in Keys /\ uidx[k] \in Ids
    BY <1>6 DEF UidxType
  <2> HIDE DEF entries, x
  <2>3. \A e \in entries : <<y, e[1]>> \in DOMAIN uidx /\ uidx[<<y, e[1]>>] = e[2]
    BY <1>3, <2>1
  <2>4. ~Duplicates(entries)
    BY <2>3 DEF Duplicates
  <2>5. ASSUME NEW k \in DOMAIN uidx, k[1] = y PROVE <<k[2], uidx[k]>> \in entries
    BY <2>1, <2>2, <2>5
  <2>6. ASSUME NEW e \in entries
        PROVE  e \in {<<k[2], uidx[k]>> : k \in {k \in DOMAIN uidx : k[1] = y}}
    <3>1. PICK k : k = <<y, e[1]>>
      OBVIOUS
    <3>2. k \in DOMAIN uidx /\ k[1] = y /\ k[2] = e[1] /\ uidx[k] = e[2]
      BY <2>3, <3>1
    <3>3. e = <<k[2], uidx[k]>>
      BY <1>3, <3>2
    <3> QED
      BY <3>2, <3>3
  <2> QED
    BY <2>4, <2>5, <2>6
<1>8. ASSUME ~x.unique
      PROVE  {<<e[2], e[3]>> : e \in {e \in idx : e[1] = y}} = entries
  <2>1. \A v \in Keys, id \in Ids : <<v, id>> \in entries <=> <<y, v, id>> \in idx
    BY <1>2, <1>5, <1>8
  <2>2. \A f \in idx : f = <<f[1], f[2], f[3]>> /\ f[2] \in Keys /\ f[3] \in Ids
    BY <1>6 DEF IdxType
  <2> HIDE DEF entries, x
  <2>3. ASSUME NEW f \in idx, f[1] = y PROVE <<f[2], f[3]>> \in entries
    BY <2>1, <2>2, <2>3
  <2>4. ASSUME NEW e \in entries
        PROVE  e \in {<<f[2], f[3]>> : f \in {f \in idx : f[1] = y}}
    <3>1. PICK f : f = <<y, e[1], e[2]>>
      OBVIOUS
    <3>2. f \in idx /\ f[1] = y /\ f[2] = e[1] /\ f[3] = e[2]
      BY <1>3, <2>1, <3>1
    <3>3. e = <<f[2], f[3]>>
      BY <1>3, <3>2
    <3> QED
      BY <3>2, <3>3
  <2> QED
    BY <2>3, <2>4
<1> QED
  BY <1>5, <1>7, <1>8

LEMMA IndexesSafe ==
    ASSUME IInv, XInv
    PROVE  IndexMatchesDocuments /\ UniqueIndexHolds
<1>1. cat \in CatalogType /\ meta \in CatalogType
  BY DEF IInv, TypeOK
<1>2. Clean => Exact(cat, docs, idx, uidx) /\ Exact(meta, docs, idx, uidx)
  BY DEF XInv, KeysOK
<1>3. Clean => /\ IndexExact(cat) /\ IndexExact(meta)
               /\ \A c \in {cat, meta} : \A n \in Names : \A p \in Indexed(c, n) :
                     c.cols[n].ix[p].unique => ~Duplicates(IndexEntries(docs, c.cols[n].dbid, p))
  BY <1>1, <1>2, ExactMeans
<1> QED
  BY <1>3 DEF IndexMatchesDocuments, UniqueIndexHolds, Clean

\* Every index on the engine holds exactly the entries of the stored documents, for
\* the catalog in memory and the stored one, whatever a batch held: setIndexKeys,
\* deleteIndexKeys and rebuildIndex leave no stale key, miss none and drop none of
\* another document, until a call abandons its changes or the process ends between
\* EnsureIndex's batches.
THEOREM IndexesMatchDocuments == Spec => []IndexMatchesDocuments
<1>1. Init => IInv /\ CInv /\ XInv
  BY InitKeeps, InitOK, InitX
<1>2. IInv /\ CInv /\ XInv /\ [Next]_vars => (IInv /\ CInv /\ XInv)'
  BY NextKeeps, NextOK, NextX
<1>3. IInv /\ CInv /\ XInv => IndexMatchesDocuments
  BY IndexesSafe
<1> QED
  BY <1>1, <1>2, <1>3, PTL DEF Spec

\* No two stored documents ever share a value under a unique index: what
\* checkUniqueConstraints accepts document by document, over the stored keys and the
\* buffer, is right for the batch as a whole.
THEOREM UniqueConstraintsHold == Spec => []UniqueIndexHolds
<1>1. Init => IInv /\ CInv /\ XInv
  BY InitKeeps, InitOK, InitX
<1>2. IInv /\ CInv /\ XInv /\ [Next]_vars => (IInv /\ CInv /\ XInv)'
  BY NextKeeps, NextOK, NextX
<1>3. IInv /\ CInv /\ XInv => UniqueIndexHolds
  BY IndexesSafe
<1> QED
  BY <1>1, <1>2, <1>3, PTL DEF Spec
=============================================================================
