---------------------------- MODULE EJDB_proofs ----------------------------
(***************************************************************************)
(* Proofs about EJDB, for every set of names, ids, paths, documents and     *)
(* every choice of the bounds, faults included.                             *)
(***************************************************************************)
EXTENDS EJDB, FiniteSetTheorems, WellFoundedInduction, TLAPS

----------------------------------------------------------------------------
(* Sequences of mutations: the last of a nonempty set of positions. *)

\* A nonempty set of positions has a last one, so "the last mutation that
\* touches a key" (Max) is one of the mutations.
LEMMA LastPosition ==
    ASSUME NEW n \in Nat, NEW S \in SUBSET (1..n), S # {}
    PROVE  Max(S) \in S /\ \A j \in S : j <= Max(S)
<1> DEFINE T == {n - i : i \in S}
<1>1. T \in SUBSET Nat /\ T # {}
  <2>1. \A i \in S : n - i \in Nat
    OBVIOUS
  <2>2. PICK i \in S : TRUE
    OBVIOUS
  <2>3. n - i \in T
    OBVIOUS
  <2> QED
    BY <2>1, <2>3
<1>2. PICK t \in T : \A u \in T : ~(<<u, t>> \in OpToRel(<, Nat))
  <2>1. IsWellFoundedOn(OpToRel(<, Nat), Nat)
    BY NatLessThanWellFounded
  <2> QED
    BY <1>1, <2>1, WFMin
<1>3. \A u \in T : ~(u < t)
  BY <1>1, <1>2 DEF OpToRel
<1>4. PICK i \in S : t = n - i
  BY <1>2
<1>5. \A j \in S : i >= j
  <2> SUFFICES ASSUME NEW j \in S PROVE i >= j
    OBVIOUS
  <2>1. ~(n - j < t)
    BY <1>3
  <2> QED
    BY <1>4, <2>1
<1>6. Max(S) \in S /\ \A j \in S : Max(S) >= j
  BY <1>5 DEF Max
<1> QED
  BY <1>6

----------------------------------------------------------------------------
(* Catalog updates keep the catalog's type. *)

\* The values an index takes from a document are finitely many.
LEMMA ValuesFinite ==
    ASSUME NEW d \in MaybeDocs, NEW p \in Paths
    PROVE  /\ valuesForIndex(d, p) \subseteq Keys
           /\ Cardinality(valuesForIndex(d, p)) \in Nat
<1>1. valuesForIndex(d, p) \subseteq Keys
  BY ValuesAssumption DEF valuesForIndex, MaybeDocs
<1> QED
  BY <1>1, KeysAssumption, FS_Subset, FS_CardinalityType

\* The catalog Open starts from (newState).
LEMMA NewStateType ==
    /\ NoIndex \in IndexType
    /\ NoCollection \in CollectionType
    /\ newState \in CatalogType
BY DEF NoIndex, NoCollection, newState, IndexType, CollectionType, CatalogType

\* A record count adjusted by a mutation (adjustIndexRNums) stays a count.
LEMMA AdjustType ==
    ASSUME NEW col \in CollectionType, NEW old \in MaybeDocs, NEW new \in MaybeDocs
    PROVE  /\ adjustIndexRNums(col, old, new) \in CollectionType
           /\ adjustIndexRNums(col, old, new).dbid = col.dbid
           /\ adjustIndexRNums(col, old, new).nextId = col.nextId
           /\ \A p \in Paths : /\ adjustIndexRNums(col, old, new).ix[p].dbid = col.ix[p].dbid
                               /\ adjustIndexRNums(col, old, new).ix[p].unique = col.ix[p].unique
<1> DEFINE ixs == [p \in Paths |->
        IF col.ix[p].dbid = 0 THEN col.ix[p]
        ELSE [col.ix[p] EXCEPT !.rnum =
                 AtLeastZero(@ + Cardinality(valuesForIndex(new, p))
                               - Cardinality(valuesForIndex(old, p)))]]
<1>1. \A p \in Paths : /\ ixs[p] \in IndexType /\ ixs[p].dbid = col.ix[p].dbid
                       /\ ixs[p].unique = col.ix[p].unique
  <2> SUFFICES ASSUME NEW p \in Paths
               PROVE  /\ ixs[p] \in IndexType /\ ixs[p].dbid = col.ix[p].dbid
                      /\ ixs[p].unique = col.ix[p].unique
    OBVIOUS
  <2>1. col.ix[p] \in IndexType
    BY DEF CollectionType
  <2>2. Cardinality(valuesForIndex(new, p)) \in Nat /\ Cardinality(valuesForIndex(old, p)) \in Nat
    BY ValuesFinite
  <2>3. AtLeastZero(col.ix[p].rnum + Cardinality(valuesForIndex(new, p))
                               - Cardinality(valuesForIndex(old, p))) \in Nat
    BY <2>1, <2>2 DEF AtLeastZero, IndexType
  <2> QED
    BY <2>1, <2>3 DEF IndexType
<1>2. ixs \in [Paths -> IndexType]
  BY <1>1
<1>3. adjustIndexRNums(col, old, new) = [col EXCEPT !.ix = ixs]
  BY DEF adjustIndexRNums
<1> HIDE DEF ixs
<1> QED
  BY <1>1, <1>2, <1>3 DEF CollectionType

\* What the proofs below need of a catalog update: the result is a catalog,
\* and the collections still have document ranges of their own.
GoodUpdate(c, e) ==
    /\ e \in CatalogType
    /\ \A stored : DocsType(stored) /\ OwnRanges(c, stored) => OwnRanges(e, stored)

\* Updates compose: a method changes the catalog in several places.
LEMMA GoodUpdateTrans ==
    ASSUME NEW a, NEW b, NEW c, GoodUpdate(a, b), GoodUpdate(b, c)
    PROVE  GoodUpdate(a, c)
BY DEF GoodUpdate

\* A new collection gets a range above every document (ensureCollectionOnStateLocked).
LEMMA EnsureCollectionGood ==
    ASSUME NEW c \in CatalogType, NEW n \in Names
    PROVE  GoodUpdate(c, ensureCollection(c, n))
<1>1. CASE Exists(c, n)
  BY <1>1 DEF ensureCollection, GoodUpdate
<1>2. CASE ~Exists(c, n)
  <2> DEFINE col == [NoCollection EXCEPT !.dbid = c.next + 1]
             e == ensureCollection(c, n)
  <2>1. c.next \in Nat /\ c.cols \in [Names -> CollectionType]
    BY DEF CatalogType
  <2>2. col \in CollectionType /\ col.dbid = c.next + 1
    BY <2>1, NewStateType DEF CollectionType
  <2>3. e.next = c.next + 1 /\ e.cols = [c.cols EXCEPT ![n] = col]
    BY <1>2 DEF ensureCollection
  <2>4. e \in CatalogType
    <3> HIDE DEF col
    <3> QED
      BY <1>2, <2>1, <2>2 DEF ensureCollection, CatalogType, col
  <2> HIDE DEF col, e
  <2>5. \A m \in Names : e.cols[m].dbid = IF m = n THEN c.next + 1 ELSE c.cols[m].dbid
    BY <2>1, <2>2, <2>3
  <2>6. \A m \in Names : c.cols[m].dbid \in Nat
    BY <2>1 DEF CollectionType
  <2>7. ASSUME NEW d, DocsType(d), OwnRanges(c, d) PROVE OwnRanges(e, d)
    <3>1. \A k \in DOMAIN d : k[1] \in Nat
      BY <2>7 DEF DocsType
    <3> QED
      BY <2>1, <2>3, <2>5, <2>6, <2>7, <3>1 DEF OwnRanges, Exists
  <2> QED
    BY <2>4, <2>7 DEF GoodUpdate, e
<1> QED
  BY <1>1, <1>2

\* Replacing a collection's entry by one with the same dbid, or by none.
LEMMA WithCollectionGood ==
    ASSUME NEW c \in CatalogType, NEW n \in Names, NEW col \in CollectionType,
           col.dbid \in {c.cols[n].dbid, 0}
    PROVE  GoodUpdate(c, WithCollection(c, n, col))
<1> DEFINE e == WithCollection(c, n, col)
<1>1. c.next \in Nat /\ c.cols \in [Names -> CollectionType]
  BY DEF CatalogType
<1>2. e \in CatalogType /\ e.next = c.next /\ e.cols = [c.cols EXCEPT ![n] = col]
  BY <1>1 DEF WithCollection, CatalogType
<1> HIDE DEF e
<1>3. \A m \in Names : e.cols[m].dbid = IF m = n THEN col.dbid ELSE c.cols[m].dbid
  BY <1>1, <1>2
<1>4. ASSUME NEW d, DocsType(d), OwnRanges(c, d) PROVE OwnRanges(e, d)
  BY <1>1, <1>2, <1>3, <1>4 DEF OwnRanges, Exists
<1> QED
  BY <1>2, <1>4 DEF GoodUpdate, e

\* RemoveCollection's catalog update.
LEMMA RemoveCollectionGood ==
    ASSUME NEW c \in CatalogType, NEW n \in Names
    PROVE  GoodUpdate(c, removeCollection(c, n))
<1>1. NoCollection.dbid = 0
  BY DEF NoCollection
<1> QED
  BY <1>1, NewStateType, WithCollectionGood DEF removeCollection

\* RenameCollection moves the entry, dbid included, to an unused name.
LEMMA RenameCollectionGood ==
    ASSUME NEW c \in CatalogType, NEW n \in Names, NEW m \in Names, n # m, ~Exists(c, m)
    PROVE  GoodUpdate(c, renameCollection(c, n, m))
<1> DEFINE e == renameCollection(c, n, m)
<1>1. c.next \in Nat /\ c.cols \in [Names -> CollectionType]
  BY DEF CatalogType
<1>2. e \in CatalogType /\ e.next = c.next
  BY <1>1, NewStateType DEF renameCollection, CatalogType
<1>3. \A x \in Names : e.cols[x] = IF x = n THEN NoCollection ELSE IF x = m THEN c.cols[n] ELSE c.cols[x]
  BY <1>1 DEF renameCollection
<1> HIDE DEF e
<1>4. NoCollection.dbid = 0
  BY DEF NoCollection
<1>5. ASSUME NEW d, DocsType(d), OwnRanges(c, d) PROVE OwnRanges(e, d)
  BY <1>1, <1>2, <1>3, <1>4, <1>5 DEF OwnRanges, Exists
<1> QED
  BY <1>2, <1>5 DEF GoodUpdate, e

\* NextID is raised to an id of the caller, or to the next one.
LEMMA RaiseNextIdGood ==
    ASSUME NEW c \in CatalogType, NEW n \in Names, NEW id \in Ids
    PROVE  GoodUpdate(c, RaiseNextId(c, n, id))
<1>1. c.cols[n] \in CollectionType /\ id \in Int
  BY IdsAssumption DEF CatalogType
<1>2. CASE id > c.cols[n].nextId
  <2> DEFINE col == [c.cols[n] EXCEPT !.nextId = id]
  <2>1. col \in CollectionType /\ col.dbid = c.cols[n].dbid
    BY <1>1, <1>2 DEF CollectionType
  <2>2. RaiseNextId(c, n, id) = WithCollection(c, n, col)
    BY <1>2 DEF RaiseNextId, WithCollection
  <2> HIDE DEF col
  <2> QED
    BY <2>1, <2>2, WithCollectionGood
<1>3. CASE ~(id > c.cols[n].nextId)
  BY <1>3 DEF RaiseNextId, GoodUpdate
<1> QED
  BY <1>2, <1>3

\* putLocked's and a delete's catalog updates only change counts.
LEMMA CountGood ==
    ASSUME NEW c \in CatalogType, NEW n \in Names, NEW old \in MaybeDocs, NEW new \in MaybeDocs
    PROVE  GoodUpdate(c, CountPut(c, n, old, new)) /\ GoodUpdate(c, CountDelete(c, n, old))
<1> DEFINE more == [c.cols[n] EXCEPT !.rnum = IF old = NoDoc THEN @ + 1 ELSE @]
           less == [c.cols[n] EXCEPT !.rnum = AtLeastZero(@ - 1)]
<1>1. c.cols[n] \in CollectionType
  BY DEF CatalogType
<1>2. more \in CollectionType /\ more.dbid = c.cols[n].dbid
  BY <1>1 DEF CollectionType
<1>3. less \in CollectionType /\ less.dbid = c.cols[n].dbid
  BY <1>1 DEF CollectionType, AtLeastZero
<1>4. NoDoc \in MaybeDocs
  BY DEF MaybeDocs
<1>5. /\ CountPut(c, n, old, new) = WithCollection(c, n, adjustIndexRNums(more, old, new))
      /\ CountDelete(c, n, old) = WithCollection(c, n, adjustIndexRNums(less, old, NoDoc))
  BY DEF CountPut, CountDelete
<1> HIDE DEF more, less
<1> QED
  BY <1>2, <1>3, <1>4, <1>5, AdjustType, WithCollectionGood, ZenonT(30)

\* An index entry of the catalog is replaced: RemoveIndex, EnsureIndex.
LEMMA IndexEntryGood ==
    ASSUME NEW c \in CatalogType, NEW n \in Names, NEW p \in Paths, NEW x \in IndexType
    PROVE  GoodUpdate(c, [c EXCEPT !.cols[n].ix[p] = x])
<1> DEFINE col == [c.cols[n] EXCEPT !.ix[p] = x]
<1>1. c.cols[n] \in CollectionType
  BY DEF CatalogType
<1>2. col \in CollectionType /\ col.dbid = c.cols[n].dbid
  BY <1>1 DEF CollectionType
<1>3. [c EXCEPT !.cols[n].ix[p] = x] = WithCollection(c, n, col)
  BY DEF WithCollection
<1> HIDE DEF col
<1> QED
  BY <1>2, <1>3, WithCollectionGood

\* EnsureIndex advances the counter.
LEMMA AdvanceGood ==
    ASSUME NEW c \in CatalogType
    PROVE  GoodUpdate(c, [c EXCEPT !.next = @ + 1])
<1> DEFINE e == [c EXCEPT !.next = @ + 1]
<1>1. c.next \in Nat /\ c.cols \in [Names -> CollectionType]
  BY DEF CatalogType
<1>2. e \in CatalogType /\ e.next = c.next + 1 /\ e.cols = c.cols
  BY <1>1 DEF CatalogType
<1> HIDE DEF e
<1>3. \A m \in Names : c.cols[m].dbid \in Nat
  BY <1>1 DEF CollectionType
<1>4. ASSUME NEW d, DocsType(d), OwnRanges(c, d) PROVE OwnRanges(e, d)
  <2>1. \A k \in DOMAIN d : k[1] \in Nat
    BY <1>4 DEF DocsType
  <2> QED
    BY <1>1, <1>2, <1>3, <1>4, <2>1 DEF OwnRanges, Exists
<1> QED
  BY <1>2, <1>4 DEF GoodUpdate, e

----------------------------------------------------------------------------
(* Batches keep the types of what they write. *)

\* The catalog's index dbids are numbers (EnsureIndex's counter).
LEMMA IndexDbidsType ==
    ASSUME NEW c \in CatalogType
    PROVE  IndexDbids(c) \subseteq Nat
BY DEF IndexDbids, CatalogType, CollectionType, IndexType

\* persistPendingLocked: document keys are typed, and every new one is in the
\* range of a collection of the catalog that is written with it.
LEMMA PersistDocsGood ==
    ASSUME NEW c \in CatalogType, NEW stored, DocsType(stored), NEW pend \in Seq(MutationType)
    PROVE  /\ DocsType(persistDocs(c, stored, pend))
           /\ OwnRanges(c, stored) => OwnRanges(c, persistDocs(c, stored, pend))
<1> DEFINE live == {i \in DOMAIN pend : Dbid(c, pend[i]) # 0}
           keyOf(i) == <<Dbid(c, pend[i]), pend[i].id>>
           hits(k) == {i \in live : keyOf(i) = k}
           after(k) == IF hits(k) # {} THEN pend[Max(hits(k))].new ELSE stored[k]
           keys == {k \in DOMAIN stored \cup {keyOf(i) : i \in live} : after(k) # NoDoc}
           res == persistDocs(c, stored, pend)
<1>1. DOMAIN pend = 1..Len(pend) /\ Len(pend) \in Nat
  OBVIOUS
<1>2. \A i \in DOMAIN pend : pend[i] \in MutationType
  OBVIOUS
<1>3. res = [k \in keys |-> after(k)]
  BY DEF persistDocs
<1>4. \A i \in DOMAIN pend : keyOf(i) \in Nat \X Ids /\ \E n \in Names : keyOf(i)[1] = c.cols[n].dbid
  BY <1>2 DEF MutationType, Dbid, CatalogType, CollectionType
<1>5. \A k : hits(k) # {} => pend[Max(hits(k))].new \in MaybeDocs
  <2> SUFFICES ASSUME NEW k, hits(k) # {} PROVE pend[Max(hits(k))].new \in MaybeDocs
    OBVIOUS
  <2>1. hits(k) \in SUBSET (1..Len(pend))
    BY <1>1
  <2>2. Max(hits(k)) \in hits(k)
    BY <1>1, <2>1, LastPosition
  <2>3. Max(hits(k)) \in DOMAIN pend
    BY <2>2
  <2> HIDE DEF hits
  <2> QED
    BY <1>2, <2>3 DEF MutationType
<1>6. \A k \in keys : /\ k \in Nat \X Ids
                      /\ k \in DOMAIN stored \/ \E n \in Names : k[1] = c.cols[n].dbid
  BY <1>4 DEF DocsType
<1>7. \A k \in keys : after(k) \in Docs
  <2> SUFFICES ASSUME NEW k \in keys PROVE after(k) \in Docs
    OBVIOUS
  <2>1. CASE hits(k) # {}
    <3>1. after(k) = pend[Max(hits(k))].new /\ after(k) # NoDoc
      BY <2>1
    <3> HIDE DEF after, hits, keys
    <3> QED
      BY <1>5, <2>1, <3>1 DEF MaybeDocs
  <2>2. CASE hits(k) = {}
    <3>1. k \in DOMAIN stored
      BY <2>2
    <3> QED
      BY <2>2, <3>1 DEF DocsType
  <2> QED
    BY <2>1, <2>2
<1> HIDE DEF keys, after, res
<1>8. DocsType(res)
  BY <1>3, <1>6, <1>7 DEF DocsType
<1>9. ASSUME OwnRanges(c, stored) PROVE OwnRanges(c, res)
  <2>1. DOMAIN res = keys
    BY <1>3
  <2> QED
    BY <1>6, <1>9, <2>1 DEF OwnRanges
<1> QED
  BY <1>8, <1>9 DEF res

\* persistPendingLocked: index keys are typed.
LEMMA PersistIndexGood ==
    ASSUME NEW c \in CatalogType, NEW ks, IdxType(ks), NEW us, UidxType(us),
           NEW pend \in Seq(MutationType)
    PROVE  IdxType(persistIdx(c, ks, pend)) /\ UidxType(persistUidx(c, us, pend))
<1>1. IdxType(persistIdx(c, ks, pend))
  BY IndexDbidsType DEF persistIdx, IdxType
<1> DEFINE of(i, x, doc) == IndexValues(c, pend[i], x, TRUE, doc)
           hits(k) == {i \in DOMAIN pend :
                       k[2] \in of(i, k[1], pend[i].old) \cup of(i, k[1], pend[i].new)}
           last(k) == Max(hits(k))
           all == {k \in DOMAIN us \cup (IndexDbids(c) \X Keys) :
                   IF hits(k) = {} THEN k \in DOMAIN us
                   ELSE k[2] \in of(last(k), k[1], pend[last(k)].new)}
           res == persistUidx(c, us, pend)
<1>2. res = [k \in all |-> IF hits(k) = {} THEN us[k] ELSE pend[last(k)].id]
  BY DEF persistUidx
<1>3. all \subseteq Nat \X Keys
  BY IndexDbidsType DEF UidxType
<1>4. \A k \in all : hits(k) = {} => k \in DOMAIN us
  OBVIOUS
<1>5. DOMAIN pend = 1..Len(pend) /\ Len(pend) \in Nat /\ \A i \in DOMAIN pend : pend[i].id \in Ids
  <2>1. DOMAIN pend = 1..Len(pend) /\ Len(pend) \in Nat
    OBVIOUS
  <2>2. \A i \in DOMAIN pend : pend[i] \in MutationType
    OBVIOUS
  <2> QED
    BY <2>1, <2>2 DEF MutationType
<1>6. \A k : hits(k) # {} => pend[last(k)].id \in Ids
  <2> SUFFICES ASSUME NEW k, hits(k) # {} PROVE pend[last(k)].id \in Ids
    OBVIOUS
  <2>1. hits(k) \in SUBSET (1..Len(pend))
    BY <1>5
  <2> HIDE DEF hits
  <2>2. last(k) \in DOMAIN pend
    BY <1>5, <2>1, LastPosition
  <2> HIDE DEF last
  <2> QED
    BY <1>5, <2>2
<1> HIDE DEF all, hits, last, res
<1>7. UidxType(res)
  <2>1. DOMAIN res = all
    BY <1>2
  <2>2. \A k \in all : res[k] \in Ids
    BY <1>2, <1>4, <1>6 DEF UidxType
  <2> QED
    BY <1>2, <1>3, <2>1, <2>2 DEF UidxType
<1> QED
  BY <1>1, <1>7 DEF res

\* The batches of RemoveCollection and RemoveIndex only delete.
LEMMA DropGood ==
    ASSUME NEW stored, DocsType(stored), NEW ks, IdxType(ks), NEW us, UidxType(us),
           NEW dbid, NEW xs
    PROVE  /\ DocsType(dropDocs(stored, dbid))
           /\ \A c : OwnRanges(c, stored) => OwnRanges(c, dropDocs(stored, dbid))
           /\ IdxType(dropIdx(ks, xs)) /\ UidxType(dropUidx(us, xs))
<1>1. DOMAIN dropDocs(stored, dbid) \subseteq DOMAIN stored
  BY DEF dropDocs
<1>2. DocsType(dropDocs(stored, dbid))
  BY DEF dropDocs, DocsType
<1>3. \A c : OwnRanges(c, stored) => OwnRanges(c, dropDocs(stored, dbid))
  BY <1>1 DEF OwnRanges
<1>4. IdxType(dropIdx(ks, xs)) /\ UidxType(dropUidx(us, xs))
  BY DEF dropIdx, dropUidx, IdxType, UidxType
<1> QED
  BY <1>2, <1>3, <1>4

\* rebuildIndex: the entries are typed and finitely many, and so are the keys
\* its batch writes.
LEMMA BuildGood ==
    ASSUME NEW stored, NEW dbid, NEW p \in Paths, NEW x \in Nat,
           NEW ks, IdxType(ks), NEW us, UidxType(us)
    PROVE  LET entries == IndexEntries(stored, dbid, p)
           IN  /\ Cardinality(entries) \in Nat
               /\ IdxType(buildIdx(ks, x, entries)) /\ UidxType(buildUidx(us, x, entries))
<1> DEFINE entries == IndexEntries(stored, dbid, p)
<1>1. entries \subseteq Keys \X Ids
  BY DEF IndexEntries
<1>2. Cardinality(entries) \in Nat
  BY <1>1, KeysAssumption, IdsAssumption, FS_Product, FS_Subset, FS_CardinalityType
<1> HIDE DEF entries
<1>3. IdxType(buildIdx(ks, x, entries))
  BY <1>1 DEF buildIdx, dropIdx, IdxType
<1> DEFINE kept == dropUidx(us, {x})
           new == {<<x, e[1]>> : e \in entries}
           res == buildUidx(us, x, entries)
           owner1(k) == (CHOOSE e \in entries : e[1] = k[2])[2]
<1>4. res = [k \in DOMAIN kept \cup new |-> IF k \in new THEN owner1(k) ELSE us[k]]
  BY DEF buildUidx
<1>5. DOMAIN kept \subseteq DOMAIN us
  BY DEF dropUidx
<1>6. \A k \in new : k \in Nat \X Keys /\ owner1(k) \in Ids
  <2> SUFFICES ASSUME NEW k \in new PROVE k \in Nat \X Keys /\ owner1(k) \in Ids
    OBVIOUS
  <2>1. PICK e \in entries : k = <<x, e[1]>>
    OBVIOUS
  <2>2. e[1] = k[2]
    BY <2>1
  <2>3. (CHOOSE f \in entries : f[1] = k[2]) \in entries
    BY <2>2
  <2> QED
    BY <1>1, <2>1, <2>3
<1> HIDE DEF kept, new, res, owner1
<1>7. UidxType(res)
  <2>1. DOMAIN res = DOMAIN kept \cup new
    BY <1>4
  <2>2. \A k \in DOMAIN res : res[k] \in Ids
    BY <1>4, <1>5, <1>6, <2>1 DEF UidxType
  <2>3. DOMAIN res \subseteq Nat \X Keys
    BY <1>5, <1>6, <2>1 DEF UidxType
  <2> QED
    BY <1>4, <2>1, <2>2, <2>3 DEF UidxType
<1> QED
  BY <1>2, <1>3, <1>7 DEF entries, res

\* Reading a document through the buffer (pendingDocState) finds a document or
\* none.
LEMMA OldDocType ==
    ASSUME DocsType(docs), pending \in Seq(MutationType), NEW c, NEW n, NEW id
    PROVE  /\ getDoc(docs, c.cols[n].dbid, id) \in MaybeDocs
           /\ OldDoc(c, n, id) \in MaybeDocs
           /\ Lookup(c, n, id) \in MaybeDocs
<1>1. getDoc(docs, c.cols[n].dbid, id) \in MaybeDocs
  BY DEF getDoc, DocsType, MaybeDocs
<1>2. OldDoc(c, n, id) \in MaybeDocs
  <2> DEFINE hits == Touches(pending, n, id)
  <2>1. CASE hits = {}
    BY <1>1, <2>1 DEF OldDoc, pendingDocState
  <2>2. CASE hits # {}
    <3>1. hits \in SUBSET (1..Len(pending)) /\ Len(pending) \in Nat
      BY DEF Touches
    <3> HIDE DEF hits
    <3>2. Max(hits) \in 1..Len(pending)
      BY <2>2, <3>1, LastPosition
    <3>3. pending[Max(hits)] \in MutationType
      BY <3>2
    <3> QED
      BY <2>2, <3>3 DEF OldDoc, pendingDocState, MutationType, hits
  <2> QED
    BY <2>1, <2>2
<1> QED
  BY <1>1, <1>2 DEF Lookup

\* A buffered mutation is appended.
LEMMA AppendMutation ==
    ASSUME pending \in Seq(MutationType), NEW n \in Names, NEW id \in Ids,
           NEW old \in MaybeDocs, NEW new \in MaybeDocs
    PROVE  LET pend == Append(pending, Mutation(n, id, old, new))
           IN  pend \in Seq(MutationType) /\ Len(pend) >= Len(pending)
<1>1. Mutation(n, id, old, new) \in MutationType
  BY DEF Mutation, MutationType
<1> QED
  BY <1>1

----------------------------------------------------------------------------
(* The inductive invariant, and the ways a step can end. *)

IInv == TypeOK /\ CollectionsDisjoint

\* The history only names known faults.
LEMMA BlameType ==
    ASSUME NEW S, Blame(S)
    PROVE  faults' \subseteq Faults
BY BoundsAssumption DEF Blame

\* commitLocked writes the catalog it was given together with documents in its
\* ranges, or nothing.
LEMMA CommitKeeps ==
    ASSUME IInv, NEW c \in CatalogType, OwnRanges(c, docs), NEW pend \in Seq(MutationType),
           NEW dm, NEW df, commitLocked(c, pend, dm, df)
    PROVE  /\ cat' = c /\ pending' = <<>> /\ dirtyMeta' = FALSE /\ dirtyFull' = FALSE
           /\ meta' \in CatalogType /\ DocsType(docs') /\ IdxType(idx') /\ UidxType(uidx')
           /\ OwnRanges(c, docs') /\ OwnRanges(meta', docs')
<1>1. /\ meta \in CatalogType /\ DocsType(docs) /\ IdxType(idx) /\ UidxType(uidx)
      /\ OwnRanges(meta, docs)
  BY DEF IInv, TypeOK, CollectionsDisjoint
<1>2. cat' = c /\ pending' = <<>> /\ dirtyMeta' = FALSE /\ dirtyFull' = FALSE
  BY DEF commitLocked, clearPending
<1>3. CASE persistFullLocked(c)
  BY <1>1, <1>2, <1>3 DEF persistFullLocked
<1>4. CASE persistPendingLocked(c, pend)
  <2>1. DocsType(docs') /\ OwnRanges(c, docs') /\ meta' = c
    BY <1>1, <1>4, PersistDocsGood DEF persistPendingLocked
  <2>2. IdxType(idx') /\ UidxType(uidx')
    BY <1>1, <1>4, PersistIndexGood DEF persistPendingLocked
  <2> QED
    BY <1>2, <2>1, <2>2
<1>5. CASE UNCHANGED engine
  BY <1>1, <1>2, <1>5 DEF engine
<1> QED
  BY <1>3, <1>4, <1>5 DEF commitLocked

\* When the process ends only the engine's keys are left.
LEMMA DownKeeps ==
    ASSUME IInv, Down, NEW S, Blame(S)
    PROVE  IInv'
<1>1. newState \in CatalogType /\ NoTx \in [cat : CatalogType, len : Nat, dirtyMeta : BOOLEAN, dirtyFull : BOOLEAN]
  BY NewStateType DEF NoTx
<1>2. faults' \subseteq Faults
  BY BlameType
<1>3. <<>> \in Seq(MutationType)
  OBVIOUS
<1>4. TypeOK'
  BY <1>1, <1>2, <1>3 DEF IInv, TypeOK, Down, clearPending, engine, NoJob
<1>5. CollectionsDisjoint'
  BY DEF IInv, CollectionsDisjoint, Down, engine
<1> QED
  BY <1>4, <1>5 DEF IInv

\* The end of a DB method.
LEMMA FinishCallKeeps ==
    ASSUME IInv, NEW c \in CatalogType, OwnRanges(c, docs), NEW pend \in Seq(MutationType),
           owner # "tx", FinishCall(c, pend)
    PROVE  IInv'
<1>1. CASE /\ commitLocked(c, pend, TRUE, dirtyFull)
           /\ owner' = "none" /\ job' = NoJob
           /\ UNCHANGED <<saved, up, faults>>
  <2>1. /\ cat' = c /\ pending' = <<>> /\ dirtyMeta' = FALSE /\ dirtyFull' = FALSE
        /\ meta' \in CatalogType /\ DocsType(docs') /\ IdxType(idx') /\ UidxType(uidx')
        /\ OwnRanges(c, docs') /\ OwnRanges(meta', docs')
    BY <1>1, CommitKeeps
  <2>2. <<>> \in Seq(MutationType)
    OBVIOUS
  <2> QED
    BY <1>1, <2>1, <2>2 DEF IInv, TypeOK, CollectionsDisjoint
<1>2. CASE /\ cat' = c /\ pending' = pend /\ dirtyMeta' = TRUE
           /\ owner' = "none" /\ job' = NoJob
           /\ Blame({"abandoned"})
           /\ UNCHANGED <<engine, dirtyFull, saved, up>>
  <2>1. faults' \subseteq Faults
    BY <1>2, BlameType
  <2> QED
    BY <1>2, <2>1 DEF IInv, TypeOK, CollectionsDisjoint, engine
<1>3. CASE Panic(c, pend, dirtyFull)
  BY <1>3, DownKeeps DEF Panic
<1> QED
  BY <1>1, <1>2, <1>3 DEF FinishCall

\* The end of a Tx method: nothing is written, and what was buffered before
\* the transaction is still there.
LEMMA FinishTxKeeps ==
    ASSUME IInv, NEW c \in CatalogType, OwnRanges(c, docs), NEW pend \in Seq(MutationType),
           Len(pend) >= Len(pending), owner = "tx", NEW full \in BOOLEAN, FinishTx(c, pend, full)
    PROVE  IInv'
<1>1. faults' \subseteq Faults
  BY BlameType DEF FinishTx
<1>2. dirtyFull' \in BOOLEAN
  BY DEF FinishTx, IInv, TypeOK
<1>3. saved'.len <= Len(pending')
  BY DEF FinishTx, IInv, TypeOK
<1> QED
  BY <1>1, <1>2, <1>3 DEF FinishTx, IInv, TypeOK, CollectionsDisjoint, engine

\* The end of a method, either way.
LEMMA FinishKeeps ==
    ASSUME IInv, up, NEW c, GoodUpdate(cat, c), NEW pend \in Seq(MutationType),
           Len(pend) >= Len(pending), NEW full \in BOOLEAN, Finish(c, pend, full)
    PROVE  IInv'
<1>1. c \in CatalogType /\ OwnRanges(c, docs)
  BY DEF GoodUpdate, IInv, TypeOK, CollectionsDisjoint
<1> QED
  BY <1>1, FinishCallKeeps, FinishTxKeeps DEF Finish

\* An error return that keeps a catalog update.
LEMMA RefuseKeeps ==
    ASSUME IInv, up, NEW c, GoodUpdate(cat, c), Refuse(c)
    PROVE  IInv'
<1>1. c \in CatalogType /\ OwnRanges(c, docs)
  BY DEF GoodUpdate, IInv, TypeOK, CollectionsDisjoint
<1> QED
  BY <1>1 DEF Refuse, IInv, TypeOK, CollectionsDisjoint, engine, control

\* putLocked, on a catalog the method has already updated.
LEMMA PutLockedKeeps ==
    ASSUME IInv, up, NEW c, GoodUpdate(cat, c), NEW e, GoodUpdate(cat, e),
           NEW n \in Names, NEW id \in Ids, NEW d \in MaybeDocs, putLocked(c, n, id, d, e)
    PROVE  IInv'
<1>1. CASE Accepts(c, n, id, d) /\ Finish(PutCat(c, n, id, d), PutPending(c, n, id, d), FALSE)
  <2>1. OldDoc(c, n, id) \in MaybeDocs
    BY OldDocType DEF IInv, TypeOK
  <2>2. GoodUpdate(c, PutCat(c, n, id, d))
    BY <2>1, CountGood DEF PutCat, GoodUpdate
  <2>3. GoodUpdate(cat, PutCat(c, n, id, d))
    BY <2>2, GoodUpdateTrans
  <2>4. PutPending(c, n, id, d) \in Seq(MutationType) /\ Len(PutPending(c, n, id, d)) >= Len(pending)
    BY <2>1, AppendMutation DEF PutPending, IInv, TypeOK
  <2> QED
    BY <1>1, <2>3, <2>4, FinishKeeps
<1>2. CASE Refuse(e)
  BY <1>2, RefuseKeeps
<1> QED
  BY <1>1, <1>2 DEF putLocked

----------------------------------------------------------------------------
(* One lemma for each group of actions. *)

\* Updating nothing is an update.
LEMMA SameGood ==
    ASSUME NEW c \in CatalogType
    PROVE  GoodUpdate(c, c)
BY DEF GoodUpdate

\* RemoveCollection's and RemoveIndex's own batch.
LEMMA DropAndCommitKeeps ==
    ASSUME IInv, up, owner = "none", NEW c, GoodUpdate(cat, c), NEW left, NEW xs,
           DocsType(left), OwnRanges(c, left), dropAndCommitLocked(c, left, xs)
    PROVE  IInv'
<1>1. c \in CatalogType /\ OwnRanges(c, docs)
  BY DEF GoodUpdate, IInv, TypeOK, CollectionsDisjoint
<1>2. CASE /\ cat' = c /\ meta' = c /\ docs' = left
           /\ idx' = dropIdx(idx, xs) /\ uidx' = dropUidx(uidx, xs)
           /\ UNCHANGED faults
           /\ UNCHANGED <<pending, dirtyMeta, dirtyFull, control>>
  <2>1. IdxType(idx') /\ UidxType(uidx')
    BY <1>2, DropGood DEF IInv, TypeOK
  <2> QED
    BY <1>1, <1>2, <2>1 DEF IInv, TypeOK, CollectionsDisjoint, control
<1>3. CASE /\ cat' = c /\ Blame({"abandoned"}) /\ UNCHANGED engine
           /\ UNCHANGED <<pending, dirtyMeta, dirtyFull, control>>
  <2>1. faults' \subseteq Faults
    BY <1>3, BlameType
  <2> QED
    BY <1>1, <1>3, <2>1 DEF IInv, TypeOK, CollectionsDisjoint, control, engine
<1> QED
  BY <1>2, <1>3 DEF dropAndCommitLocked

\* EnsureCollection, RemoveCollection, RenameCollection.
LEMMA CollectionActionsKeep ==
    ASSUME IInv, NEW n \in Names, NEW m \in Names,
           EnsureCollection(n) \/ RemoveCollection(n) \/ RenameCollection(n, m)
    PROVE  IInv'
<1>1. cat \in CatalogType /\ pending \in Seq(MutationType) /\ Len(pending) >= Len(pending)
  BY DEF IInv, TypeOK
<1>2. CASE EnsureCollection(n)
  BY <1>1, <1>2, EnsureCollectionGood, FinishKeeps DEF EnsureCollection, Ready
<1>3. CASE RemoveCollection(n)
  <2>1. GoodUpdate(cat, removeCollection(cat, n))
    BY <1>1, RemoveCollectionGood
  <2>2. up
    BY <1>3 DEF RemoveCollection, Ready
  <2>3. removeCollection(cat, n) \in CatalogType /\ OwnRanges(removeCollection(cat, n), docs)
    BY <2>1, <2>2 DEF GoodUpdate, IInv, TypeOK, CollectionsDisjoint
  <2>4. CASE owner = "none" /\ dropAndCommitLocked(removeCollection(cat, n),
                                 dropDocs(docs, cat.cols[n].dbid), IndexDbidsOf(cat, n))
    <3>1. /\ DocsType(dropDocs(docs, cat.cols[n].dbid))
          /\ OwnRanges(removeCollection(cat, n), dropDocs(docs, cat.cols[n].dbid))
      BY <2>3, DropGood DEF IInv, TypeOK
    <3> QED
      BY <2>1, <2>2, <2>4, <3>1, DropAndCommitKeeps
  <2>5. CASE owner = "tx" /\ FinishTx(removeCollection(cat, n), pending, TRUE)
    BY <1>1, <2>3, <2>5, FinishTxKeeps
  <2> QED
    BY <1>3, <2>4, <2>5 DEF RemoveCollection
<1>4. CASE RenameCollection(n, m)
  BY <1>1, <1>4, RenameCollectionGood, FinishKeeps DEF RenameCollection, Ready
<1> QED
  BY <1>2, <1>3, <1>4

\* PutNew, Put, Patch, MergeOrPut.
LEMMA PutActionsKeep ==
    ASSUME IInv, NEW n \in Names, NEW id \in Ids, NEW d \in MaybeDocs,
           PutNew(n, d) \/ Put(n, id, d) \/ Patch(n, id, d) \/ MergeOrPut(n, id, d)
    PROVE  IInv'
<1>1. cat \in CatalogType
  BY DEF IInv, TypeOK
<1> DEFINE c == ensureCollection(cat, n)
<1>2. GoodUpdate(cat, c) /\ c \in CatalogType
  BY <1>1, EnsureCollectionGood DEF GoodUpdate
<1> HIDE DEF c
<1>3. \A i \in Ids : GoodUpdate(cat, RaiseNextId(c, n, i))
  BY <1>2, RaiseNextIdGood, GoodUpdateTrans
<1>4. CASE PutNew(n, d)
  BY <1>2, <1>3, <1>4, PutLockedKeeps DEF PutNew, Ready, c
<1>5. CASE Put(n, id, d)
  BY <1>3, <1>5, PutLockedKeeps DEF Put, Ready, c
<1>6. CASE Patch(n, id, d)
  BY <1>1, <1>6, SameGood, PutLockedKeeps DEF Patch, Ready
<1>7. CASE MergeOrPut(n, id, d)
  BY <1>2, <1>3, <1>7, PutLockedKeeps DEF MergeOrPut, Ready, c
<1> QED
  BY <1>4, <1>5, <1>6, <1>7

\* Delete.
LEMMA DeleteKeeps ==
    ASSUME IInv, NEW n \in Names, NEW id \in Ids, Delete(n, id)
    PROVE  IInv'
<1> DEFINE old == Lookup(cat, n, id)
<1>1. old \in MaybeDocs /\ NoDoc \in MaybeDocs /\ cat \in CatalogType
  BY OldDocType DEF IInv, TypeOK, MaybeDocs
<1>2. up /\ Finish(CountDelete(cat, n, old), Append(pending, Mutation(n, id, old, NoDoc)), FALSE)
  BY DEF Delete, Ready
<1> HIDE DEF old
<1>3. GoodUpdate(cat, CountDelete(cat, n, old))
  BY <1>1, CountGood
<1>4. LET pend == Append(pending, Mutation(n, id, old, NoDoc))
      IN  pend \in Seq(MutationType) /\ Len(pend) >= Len(pending)
  BY <1>1, AppendMutation DEF IInv, TypeOK
<1> QED
  BY <1>2, <1>3, <1>4, FinishKeeps

\* EnsureIndex's second batch advances the counter.
LEMMA EnsureIndexDoneKeeps ==
    ASSUME IInv, EnsureIndexDone
    PROVE  IInv'
<1>1. cat \in CatalogType /\ pending \in Seq(MutationType) /\ Len(pending) >= Len(pending)
  BY DEF IInv, TypeOK
<1> QED
  BY <1>1, AdvanceGood, FinishKeeps DEF EnsureIndexDone

\* EnsureIndex's first batch, and RemoveIndex.
LEMMA IndexActionsKeep ==
    ASSUME IInv, NEW n \in Names, NEW p \in Paths, NEW unique \in BOOLEAN,
           EnsureIndex(n, p, unique) \/ RemoveIndex(n, p)
    PROVE  IInv'
<1>1. /\ cat \in CatalogType /\ pending \in Seq(MutationType) /\ Len(pending) >= Len(pending)
      /\ DocsType(docs)
  BY DEF IInv, TypeOK
<1>2. CASE EnsureIndex(n, p, unique)
  <2> DEFINE c == ensureCollection(cat, n)
             x == c.next + 1
             entries == IndexEntries(docs, c.cols[n].dbid, p)
             ix == [dbid |-> x, unique |-> unique, rnum |-> Cardinality(entries)]
             built == [c EXCEPT !.cols[n].ix[p] = ix]
  <2>1. GoodUpdate(cat, c) /\ c \in CatalogType
    BY <1>1, EnsureCollectionGood DEF GoodUpdate
  <2>2. x \in Nat
    BY <2>1 DEF CatalogType
  <2>3. /\ Cardinality(entries) \in Nat
        /\ IdxType(buildIdx(idx, x, entries)) /\ UidxType(buildUidx(uidx, x, entries))
    BY <2>2, BuildGood DEF IInv, TypeOK
  <2>4. IdxType(dropIdx(idx, {x})) /\ UidxType(dropUidx(uidx, {x}))
    BY <1>1, DropGood DEF IInv, TypeOK
  <2>5. GoodUpdate(cat, built)
    <3>1. ix \in IndexType
      BY <2>2, <2>3, SMTT(30) DEF IndexType
    <3> HIDE DEF ix, c
    <3> QED
      BY <2>1, <3>1, IndexEntryGood, GoodUpdateTrans
  <2>6. up
    BY <1>2 DEF EnsureIndex, Ready
  <2>7. built \in CatalogType /\ OwnRanges(built, docs)
    <3> HIDE DEF built
    <3> QED
      BY <1>1, <2>5, <2>6 DEF GoodUpdate, IInv, CollectionsDisjoint
  <2>8. CASE /\ cat' = built /\ meta' = built
             /\ idx' = IF unique THEN dropIdx(idx, {x}) ELSE buildIdx(idx, x, entries)
             /\ uidx' = IF unique THEN buildUidx(uidx, x, entries) ELSE dropUidx(uidx, {x})
             /\ job' = IndexJob
             /\ owner' = IF owner = "tx" THEN "tx" ELSE "call"
             /\ Blame(If(owner = "tx", "ddl"))
             /\ UNCHANGED <<docs, pending, dirtyMeta, dirtyFull, saved, up>>
    <3>1. faults' \subseteq Faults
      BY <2>8, BlameType
    <3>2. IdxType(idx') /\ UidxType(uidx')
      BY <2>3, <2>4, <2>8
    <3>3. IndexJob # NoJob
      BY DEF IndexJob, NoJob
    <3> HIDE DEF built, entries, x, c, ix
    <3>4. TypeOK'
      BY <2>7, <2>8, <3>1, <3>2, <3>3 DEF IInv, TypeOK
    <3>5. CollectionsDisjoint'
      BY <2>7, <2>8 DEF IInv, CollectionsDisjoint
    <3> QED
      BY <3>4, <3>5 DEF IInv
  <2>9. CASE Refuse(c)
    BY <2>1, <2>6, <2>9, RefuseKeeps
  <2> QED
    BY <1>2, <2>8, <2>9 DEF EnsureIndex
<1>3. CASE RemoveIndex(n, p)
  <2>1. GoodUpdate(cat, removeIndex(cat, n, p))
    BY <1>1, NewStateType, IndexEntryGood DEF removeIndex
  <2>2. up
    BY <1>3 DEF RemoveIndex, Ready
  <2>3. removeIndex(cat, n, p) \in CatalogType /\ OwnRanges(removeIndex(cat, n, p), docs)
    BY <1>1, <2>1, <2>2 DEF GoodUpdate, IInv, CollectionsDisjoint
  <2>4. CASE owner = "none" /\ dropAndCommitLocked(removeIndex(cat, n, p), docs, {cat.cols[n].ix[p].dbid})
    BY <1>1, <2>1, <2>2, <2>3, <2>4, DropAndCommitKeeps
  <2>5. CASE owner = "tx" /\ FinishTx(removeIndex(cat, n, p), pending, TRUE)
    BY <1>1, <2>3, <2>5, FinishTxKeeps
  <2> QED
    BY <1>3, <2>4, <2>5 DEF RemoveIndex
<1> QED
  BY <1>2, <1>3

\* A scanned id has a document: scanDocumentIDs leaves out every id with a
\* buffered delete.
LEMMA ScannedDoc ==
    ASSUME IInv, NEW n \in Names, NEW id \in scanDocumentIDs(n)
    PROVE  id \in Ids /\ OldDoc(cat, n, id) \in Docs
<1> DEFINE hits == Touches(pending, n, id)
<1>1. /\ id \in Ids
      /\ \/ <<cat.cols[n].dbid, id>> \in DOMAIN docs
         \/ \E i \in hits : pending[i].new # NoDoc
      /\ \A i \in hits : pending[i].new # NoDoc
  BY DEF scanDocumentIDs
<1>2. DocsType(docs) /\ pending \in Seq(MutationType)
  BY DEF IInv, TypeOK
<1>3. CASE hits = {}
  BY <1>1, <1>2, <1>3 DEF OldDoc, pendingDocState, getDoc, DocsType
<1>4. CASE hits # {}
  <2>1. hits \in SUBSET (1..Len(pending)) /\ Len(pending) \in Nat
    BY <1>2 DEF Touches
  <2>2. Max(hits) \in hits /\ Max(hits) \in 1..Len(pending)
    <3> HIDE DEF hits
    <3> QED
      BY <1>4, <2>1, LastPosition
  <2>3. pending[Max(hits)] \in MutationType /\ pending[Max(hits)].new # NoDoc
    <3> HIDE DEF hits
    <3> QED
      BY <1>1, <1>2, <2>2
  <2>4. OldDoc(cat, n, id) = pending[Max(hits)].new
    BY <1>4 DEF OldDoc, pendingDocState
  <2> HIDE DEF hits
  <2> QED
    BY <1>1, <2>3, <2>4 DEF MutationType, MaybeDocs
<1> QED
  BY <1>1, <1>3, <1>4

\* A query's window is a list of documents that exist.
LEMMA WindowType ==
    ASSUME IInv, NEW n \in Names, NEW w \in Windows(n)
    PROVE  [i \in DOMAIN w |-> [id |-> w[i], doc |-> OldDoc(cat, n, w[i])]] \in Seq(Hit)
<1>1. Len(pending) \in Nat /\ MaxPending \in Nat
  BY BoundsAssumption DEF IInv, TypeOK
<1>2. PICK k \in 0..(MaxPending - Len(pending)) : w \in [1..k -> scanDocumentIDs(n)]
  BY DEF Windows
<1>3. k \in Nat
  BY <1>1
<1>4. \A i \in 1..k : [id |-> w[i], doc |-> OldDoc(cat, n, w[i])] \in Hit
  BY <1>2, ScannedDoc DEF Hit
<1>5. DOMAIN w = 1..k
  BY <1>2
<1> HIDE DEF Hit
<1> QED
  BY <1>3, <1>4, <1>5

\* QueryBegin: the window is fixed; upsert may add the collection.
LEMMA QueryBeginKeeps ==
    ASSUME IInv, NEW n \in Names, NEW act \in Acts, QueryBegin(n, act)
    PROVE  IInv'
<1> DEFINE c == IF act = "upsert" THEN ensureCollection(cat, n) ELSE cat
<1>1. up /\ cat \in CatalogType
  BY DEF QueryBegin, Ready, IInv, TypeOK
<1>2. GoodUpdate(cat, c)
  BY <1>1, EnsureCollectionGood, SameGood
<1> HIDE DEF c
<1>3. c \in CatalogType /\ OwnRanges(c, docs)
  BY <1>1, <1>2 DEF GoodUpdate, IInv, TypeOK, CollectionsDisjoint
<1>4. PICK w \in IF Exists(cat, n) THEN Windows(n) ELSE {<<>>} :
              /\ job' = [kind |-> "query", col |-> n, act |-> act,
                         todo |-> [i \in DOMAIN w |-> [id |-> w[i], doc |-> OldDoc(cat, n, w[i])]],
                         empty |-> w = <<>>, changed |-> FALSE]
              /\ Blame(If(\E id \in Ids : Occurrences(w, id) > 1, "repeated"))
  BY DEF QueryBegin
<1> DEFINE todo == [i \in DOMAIN w |-> [id |-> w[i], doc |-> OldDoc(cat, n, w[i])]]
<1>5. todo \in Seq(Hit)
  <2>1. CASE Exists(cat, n)
    BY <1>4, <2>1, WindowType
  <2>2. CASE ~Exists(cat, n)
    <3>1. w = <<>>
      BY <1>4, <2>2
    <3>2. DOMAIN w = {}
      BY <3>1
    <3>3. todo = <<>>
      BY <3>2
    <3> QED
      BY <3>3
  <2> QED
    BY <2>1, <2>2
<1> HIDE DEF todo
<1>6. job' \in QueryJobs /\ job' # NoJob
  BY <1>4, <1>5 DEF QueryJobs, NoJob, todo
<1>7. faults' \subseteq Faults
  BY <1>4, BlameType
<1>8. /\ cat' = c
      /\ owner' = IF owner = "tx" THEN "tx" ELSE "call"
      /\ UNCHANGED <<engine, pending, dirtyMeta, dirtyFull, saved, up>>
  BY DEF QueryBegin, c
<1>9. TypeOK'
  BY <1>3, <1>6, <1>7, <1>8 DEF IInv, TypeOK, engine
<1>10. CollectionsDisjoint'
  BY <1>3, <1>8 DEF IInv, CollectionsDisjoint, engine
<1> QED
  BY <1>9, <1>10 DEF IInv

\* One document of the window: its mutation is buffered, nothing is written.
LEMMA QueryStepKeeps ==
    ASSUME IInv, up, job \in QueryJobs, NEW c, GoodUpdate(cat, c),
           NEW pend \in Seq(MutationType), Len(pend) >= Len(pending),
           NEW todo \in Seq(Hit), QueryStep(c, pend, todo)
    PROVE  IInv'
<1>1. c \in CatalogType /\ OwnRanges(c, docs)
  BY DEF GoodUpdate, IInv, TypeOK, CollectionsDisjoint
<1>2. job' \in QueryJobs
  BY DEF QueryStep, QueryJobs
<1>3. owner # "none"
  BY DEF IInv, TypeOK, QueryJobs, NoJob
<1>4. job' # NoJob
  BY <1>2 DEF QueryJobs, NoJob
<1>5. faults' \subseteq Faults
  BY BlameType DEF QueryStep
<1>6. saved.len <= Len(pending') \/ owner # "tx"
  BY DEF QueryStep, IInv, TypeOK
<1>7. TypeOK'
  BY <1>1, <1>2, <1>3, <1>4, <1>5, <1>6 DEF QueryStep, IInv, TypeOK, engine
<1>8. CollectionsDisjoint'
  BY <1>1 DEF QueryStep, IInv, CollectionsDisjoint, engine
<1> QED
  BY <1>7, <1>8 DEF IInv

\* A query in progress has a well-formed job.
LEMMA InQueryType ==
    ASSUME IInv, NEW acts, InQuery(acts)
    PROVE  /\ up /\ job \in QueryJobs /\ job.col \in Names /\ job.todo \in Seq(Hit)
           /\ job.todo # <<>> => /\ Head(job.todo).id \in Ids /\ Head(job.todo).doc \in Docs
                                 /\ Tail(job.todo) \in Seq(Hit)
<1>1. up /\ job \in QueryJobs
  BY DEF IInv, TypeOK, InQuery, NoJob, IndexJob
<1>2. job.col \in Names /\ job.todo \in Seq(Hit)
  BY <1>1 DEF QueryJobs
<1>3. job.todo # <<>> => Head(job.todo) \in Hit /\ Tail(job.todo) \in Seq(Hit)
  <2> HIDE DEF Hit
  <2> QED
    BY <1>2
<1> QED
  BY <1>1, <1>2, <1>3 DEF Hit

\* A put of the query: on the catalog, possibly with a raised NextID.
LEMMA QueryPutKeeps ==
    ASSUME IInv, up, job \in QueryJobs, NEW c, GoodUpdate(cat, c),
           NEW n \in Names, NEW id \in Ids, NEW d \in Docs, NEW todo \in Seq(Hit),
           QueryStep(PutCat(c, n, id, d), PutPending(c, n, id, d), todo)
    PROVE  IInv'
<1>1. OldDoc(c, n, id) \in MaybeDocs /\ d \in MaybeDocs
  BY OldDocType DEF IInv, TypeOK, MaybeDocs
<1>2. GoodUpdate(c, PutCat(c, n, id, d))
  BY <1>1, CountGood DEF PutCat, GoodUpdate
<1>3. GoodUpdate(cat, PutCat(c, n, id, d))
  BY <1>2, GoodUpdateTrans
<1>4. PutPending(c, n, id, d) \in Seq(MutationType) /\ Len(PutPending(c, n, id, d)) >= Len(pending)
  BY <1>1, AppendMutation DEF PutPending, IInv, TypeOK
<1> QED
  BY <1>3, <1>4, QueryStepKeeps

\* QueryDelete, QueryApply, QueryInsert.
LEMMA QueryStepsKeep ==
    ASSUME IInv, NEW d \in Docs, QueryDelete \/ QueryApply(d) \/ QueryInsert(d)
    PROVE  IInv'
<1>1. cat \in CatalogType /\ NoDoc \in MaybeDocs /\ pending \in Seq(MutationType)
  BY DEF IInv, TypeOK, MaybeDocs
<1>2. CASE QueryDelete
  <2> DEFINE m == Head(job.todo)
             pend == Append(pending, Mutation(job.col, m.id, m.doc, NoDoc))
  <2>1. /\ up /\ job \in QueryJobs /\ job.col \in Names
        /\ m.id \in Ids /\ m.doc \in MaybeDocs /\ Tail(job.todo) \in Seq(Hit)
    BY <1>2, InQueryType DEF QueryDelete, MaybeDocs
  <2>2. QueryStep(CountDelete(cat, job.col, m.doc), pend, Tail(job.todo))
    BY <1>2 DEF QueryDelete
  <2> HIDE DEF m
  <2>3. GoodUpdate(cat, CountDelete(cat, job.col, m.doc))
    BY <1>1, <2>1, CountGood
  <2>4. pend \in Seq(MutationType) /\ Len(pend) >= Len(pending)
    BY <1>1, <2>1, AppendMutation
  <2> HIDE DEF pend
  <2> QED
    BY <2>1, <2>2, <2>3, <2>4, QueryStepKeeps
<1>3. CASE QueryApply(d)
  <2> DEFINE id == Head(job.todo).id
  <2>1. /\ up /\ job \in QueryJobs /\ job.col \in Names
        /\ id \in Ids /\ Tail(job.todo) \in Seq(Hit)
    BY <1>3, InQueryType DEF QueryApply
  <2>2. QueryStep(PutCat(cat, job.col, id, d), PutPending(cat, job.col, id, d), Tail(job.todo))
    BY <1>3 DEF QueryApply
  <2> HIDE DEF id
  <2> QED
    BY <1>1, <2>1, <2>2, SameGood, QueryPutKeeps
<1>4. CASE QueryInsert(d)
  <2> DEFINE id == cat.cols[job.col].nextId + 1
             c == RaiseNextId(cat, job.col, id)
  <2>1. up /\ job \in QueryJobs /\ job.col \in Names /\ id \in Ids /\ <<>> \in Seq(Hit)
    BY <1>4, InQueryType DEF QueryInsert
  <2>2. QueryStep(PutCat(c, job.col, id, d), PutPending(c, job.col, id, d), <<>>)
    BY <1>4 DEF QueryInsert
  <2> HIDE DEF id
  <2>3. GoodUpdate(cat, c)
    BY <1>1, <2>1, RaiseNextIdGood
  <2> HIDE DEF c
  <2> QED
    BY <2>1, <2>2, <2>3, QueryPutKeeps
<1> QED
  BY <1>2, <1>3, <1>4

\* QueryFail and QueryEnd: db.mu is released, or kept by the transaction.
LEMMA QueryEndsKeep ==
    ASSUME IInv, QueryFail \/ QueryEnd
    PROVE  IInv'
<1>1. ASSUME ReleaseCall, UNCHANGED <<engine, memory, saved, up>>, faults' \subseteq Faults
      PROVE  IInv'
  BY <1>1 DEF ReleaseCall, IInv, TypeOK, CollectionsDisjoint, engine, memory
<1>2. CASE QueryFail
  <2>1. faults' \subseteq Faults
    BY <1>2, BlameType DEF QueryFail
  <2> QED
    BY <1>1, <1>2, <2>1 DEF QueryFail
<1>3. CASE QueryEnd
  <2>1. cat \in CatalogType /\ pending \in Seq(MutationType) /\ faults \subseteq Faults
    BY DEF IInv, TypeOK
  <2>2. OwnRanges(cat, docs)
    BY <1>3 DEF QueryEnd, InQuery, IInv, CollectionsDisjoint
  <2>3. CASE owner = "call" /\ FinishCall(cat, pending)
    BY <2>1, <2>2, <2>3, FinishCallKeeps
  <2>4. CASE ReleaseCall /\ UNCHANGED <<engine, memory, saved, up, faults>>
    BY <1>1, <2>1, <2>4
  <2> QED
    BY <1>3, <2>3, <2>4 DEF QueryEnd
<1> QED
  BY <1>2, <1>3

\* TxBegin, TxCommit, TxAbort: a rollback restores the catalog of the snapshot
\* and cuts the buffer back to its length.
LEMMA TxActionsKeep ==
    ASSUME IInv, TxBegin \/ TxCommit \/ TxAbort
    PROVE  IInv'
<1>1. NoTx \in [cat : CatalogType, len : Nat, dirtyMeta : BOOLEAN, dirtyFull : BOOLEAN]
  BY NewStateType DEF NoTx
<1>2. cat \in CatalogType /\ pending \in Seq(MutationType) /\ Len(pending) \in Nat
  BY DEF IInv, TypeOK
<1>3. CASE TxBegin
  <2>1. saved' \in [cat : CatalogType, len : Nat, dirtyMeta : BOOLEAN, dirtyFull : BOOLEAN]
    BY <1>2, <1>3 DEF TxBegin, IInv, TypeOK
  <2>2. saved'.len <= Len(pending') /\ saved'.cat = cat
    BY <1>2, <1>3 DEF TxBegin, memory
  <2>3. TypeOK'
    BY <1>3, <2>1, <2>2 DEF TxBegin, Ready, IInv, TypeOK, engine, memory
  <2>4. CollectionsDisjoint'
    BY <1>3, <2>2 DEF TxBegin, Ready, IInv, CollectionsDisjoint, engine, memory
  <2> QED
    BY <2>3, <2>4 DEF IInv
<1>4. CASE TxEnd /\ commitLocked(cat, pending, dirtyMeta, dirtyFull)
           /\ Blame(If(dirtyFull /\ pending # <<>>, "discarded"))
  <2>1. OwnRanges(cat, docs)
    BY <1>4 DEF TxEnd, Ready, IInv, CollectionsDisjoint
  <2>2. /\ cat' = cat /\ pending' = <<>> /\ dirtyMeta' = FALSE /\ dirtyFull' = FALSE
        /\ meta' \in CatalogType /\ DocsType(docs') /\ IdxType(idx') /\ UidxType(uidx')
        /\ OwnRanges(cat, docs') /\ OwnRanges(meta', docs')
    BY <1>2, <1>4, <2>1, CommitKeeps
  <2>3. faults' \subseteq Faults
    BY <1>4, BlameType
  <2>4. <<>> \in Seq(MutationType)
    OBVIOUS
  <2> QED
    BY <1>1, <1>2, <1>4, <2>2, <2>3, <2>4 DEF TxEnd, Ready, IInv, TypeOK, CollectionsDisjoint
<1>5. CASE Panic(cat, pending, dirtyFull)
  BY <1>5, DownKeeps DEF Panic
<1>6. CASE TxAbort
  <2>1. saved.len \in 0..Len(pending) /\ saved.cat \in CatalogType
    BY <1>2, <1>6 DEF TxAbort, TxEnd, IInv, TypeOK
  <2>2. pending' \in Seq(MutationType)
    BY <1>2, <1>6, <2>1 DEF TxAbort, truncatePending
  <2>3. faults' \subseteq Faults
    BY <1>6, BlameType DEF TxAbort
  <2>4. dirtyMeta' \in BOOLEAN /\ dirtyFull' \in BOOLEAN
    BY <1>6 DEF TxAbort, truncatePending, IInv, TypeOK
  <2>5. TypeOK'
    BY <1>1, <1>6, <2>1, <2>2, <2>3, <2>4 DEF TxAbort, TxEnd, Ready, IInv, TypeOK, engine
  <2>6. CollectionsDisjoint'
    BY <1>6 DEF TxAbort, TxEnd, Ready, IInv, CollectionsDisjoint, engine
  <2> QED
    BY <2>5, <2>6 DEF IInv
<1> QED
  BY <1>3, <1>4, <1>5, <1>6 DEF TxCommit

\* Open loads the stored catalog.
LEMMA OpenKeeps ==
    ASSUME IInv, Open
    PROVE  IInv'
<1>1. TypeOK'
  BY DEF Open, IInv, TypeOK, engine
<1>2. CollectionsDisjoint'
  BY DEF Open, IInv, CollectionsDisjoint, engine
<1> QED
  BY <1>1, <1>2 DEF IInv

----------------------------------------------------------------------------
(* The theorems. *)

\* A database opened on an empty directory.
LEMMA InitKeeps == Init => IInv
<1> SUFFICES ASSUME Init PROVE IInv
  OBVIOUS
<1>1. NoTx \in [cat : CatalogType, len : Nat, dirtyMeta : BOOLEAN, dirtyFull : BOOLEAN]
  BY NewStateType DEF NoTx
<1>2. DocsType(<<>>) /\ IdxType({}) /\ UidxType(<<>>)
  BY DEF DocsType, IdxType, UidxType
<1>3. OwnRanges(newState, <<>>)
  BY DEF OwnRanges, newState, NoCollection, Exists
<1>4. <<>> \in Seq(MutationType)
  OBVIOUS
<1>5. TypeOK
  BY <1>1, <1>2, <1>4, NewStateType DEF Init, TypeOK
<1>6. CollectionsDisjoint
  BY <1>3 DEF Init, CollectionsDisjoint
<1> QED
  BY <1>5, <1>6 DEF IInv

\* Every action keeps the invariant.
LEMMA NextKeeps == IInv /\ [Next]_vars => IInv'
<1> SUFFICES ASSUME IInv, [Next]_vars PROVE IInv'
  OBVIOUS
<1>1. ASSUME NEW n \in Names, NEW m \in Names,
             EnsureCollection(n) \/ RemoveCollection(n) \/ RenameCollection(n, m)
      PROVE  IInv'
  BY <1>1, CollectionActionsKeep
<1>2. ASSUME NEW n \in Names, NEW d \in MaybeDocs, PutNew(n, d)
      PROVE  IInv'
  <2>1. cat.cols[n].nextId + 1 \in Ids \/ ensureCollection(cat, n).cols[n].nextId + 1 \in Ids
    BY <1>2 DEF PutNew
  <2>2. PICK id \in Ids : TRUE
    BY <2>1
  <2> QED
    BY <1>2, <2>2, PutActionsKeep
<1>3. ASSUME NEW n \in Names, NEW id \in Ids, NEW d \in MaybeDocs,
             Put(n, id, d) \/ Patch(n, id, d) \/ MergeOrPut(n, id, d)
      PROVE  IInv'
  BY <1>3, PutActionsKeep
<1>4. ASSUME NEW n \in Names, NEW id \in Ids, Delete(n, id)
      PROVE  IInv'
  BY <1>4, DeleteKeeps
<1>5. ASSUME NEW n \in Names, NEW p \in Paths,
             (\E unique \in IndexModes : EnsureIndex(n, p, unique)) \/ RemoveIndex(n, p)
      PROVE  IInv'
  <2>1. TRUE \in BOOLEAN /\ IndexModes \subseteq BOOLEAN
    BY BoundsAssumption
  <2> QED
    BY <1>5, <2>1, IndexActionsKeep
<1>6. ASSUME NEW n \in Names, NEW act \in QueryActs, QueryBegin(n, act)
      PROVE  IInv'
  BY <1>6, BoundsAssumption, QueryBeginKeeps
<1>7. ASSUME NEW d \in Docs, QueryApply(d) \/ QueryInsert(d)
      PROVE  IInv'
  BY <1>7, QueryStepsKeep
<1>8. CASE QueryDelete
  <2>1. Head(job.todo).doc \in Docs
    BY <1>8, InQueryType DEF QueryDelete
  <2> QED
    BY <1>8, <2>1, QueryStepsKeep
<1>9. CASE QueryFail \/ QueryEnd
  BY <1>9, QueryEndsKeep
<1>10. CASE EnsureIndexDone
  BY <1>10, EnsureIndexDoneKeeps
<1>11. CASE TxBegin \/ TxCommit \/ TxAbort
  BY <1>11, TxActionsKeep
<1>12. CASE Close \/ Crash
  BY <1>12, DownKeeps DEF Close, Crash
<1>13. CASE Open
  BY <1>13, OpenKeeps
<1>14. CASE UNCHANGED vars
  BY <1>14 DEF vars, engine, memory, control, IInv, TypeOK, CollectionsDisjoint
<1> QED
  BY <1>1, <1>2, <1>3, <1>4, <1>5, <1>6, <1>7,
     <1>8, <1>9, <1>10, <1>11, <1>12, <1>13, <1>14 DEF Next

\* The state of the database stays well formed under every sequence of calls,
\* errors, rollbacks and crashes, for all constants: in particular no delete
\* leaves a document key behind (persistPendingLocked) and a rollback never
\* cuts into what it did not buffer (truncatePending).
THEOREM TypeCorrect == Spec => []TypeOK
<1>1. Init => IInv
  BY InitKeeps
<1>2. IInv /\ [Next]_vars => IInv'
  BY NextKeeps
<1>3. IInv => TypeOK
  BY DEF IInv
<1> QED
  BY <1>1, <1>2, <1>3, PTL DEF Spec

\* No two collections ever share a key range and no new one starts with stored
\* documents (ensureCollectionOnStateLocked), whatever errors, rollbacks of
\* transactions that wrote an index, and crashes between batches come between.
THEOREM CollectionsStayDisjoint == Spec => []CollectionsDisjoint
<1>1. Init => IInv
  BY InitKeeps
<1>2. IInv /\ [Next]_vars => IInv'
  BY NextKeeps
<1>3. IInv => CollectionsDisjoint
  BY DEF IInv
<1> QED
  BY <1>1, <1>2, <1>3, PTL DEF Spec
=============================================================================
