------------------------ MODULE EJDB_catalog_proofs ------------------------
(***************************************************************************)
(* Proofs about EJDB's catalog: index dbids, NextIDs, what a buffered put    *)
(* finds at its commit, and what a crash leaves, for all constants.  They    *)
(* build on the type and range invariant of EJDB_proofs.                     *)
(***************************************************************************)
EXTENDS EJDB_proofs

----------------------------------------------------------------------------
(* What a catalog has to say for itself, of the stored documents, and of what *)
(* is buffered.                                                               *)

\* A name the catalog does not hold has no counters and no indexes.
Tidy(c) == \A n \in Names : ~Exists(c, n) => c.cols[n] = NoCollection

\* The indexes have dbids of their own, up to k.
IxDistinct(c) ==
    \A n, m \in Names : \A p \in Indexed(c, n), q \in Indexed(c, m) :
        c.cols[n].ix[p].dbid = c.cols[m].ix[q].dbid => n = m /\ p = q
IxBelow(c, k) == \A n \in Names, p \in Paths : c.cols[n].ix[p].dbid <= k

\* No document of a collection in `stored` has an id above its NextID.
IdsBelow(c, stored) ==
    \A n \in Names : \A id \in StoredIds(stored, c.cols[n].dbid) : id <= c.cols[n].nextId

\* Document keys belong to collections.
KeysOwned(stored) == \A k \in DOMAIN stored : k[1] # 0

\* A buffered put is for a collection of the catalog, and within its NextID.
PendOK(c, pend) ==
    \A i \in DOMAIN pend : pend[i].new # NoDoc =>
        Exists(c, pend[i].col) /\ pend[i].id <= c.cols[pend[i].col].nextId

\* The stored catalog m has all that c has, but for empty collections and raised
\* NextIDs.
Behind(m, c, stored) ==
    \A n \in Names :
        /\ m.cols[n].dbid \in {c.cols[n].dbid, 0}
        /\ m.cols[n].rnum = c.cols[n].rnum /\ m.cols[n].ix = c.cols[n].ix
        /\ m.cols[n].nextId <= c.cols[n].nextId
        /\ m.cols[n].dbid # c.cols[n].dbid => StoredIds(stored, c.cols[n].dbid) = {}

----------------------------------------------------------------------------
(* The inductive invariant, beside TypeOK and CollectionsDisjoint. *)

Sound == Free({"abandoned"})

\* Control: who holds db.mu, and what is left of a process that ended.
ControlOK ==
    /\ owner # "tx" => saved = NoTx
    /\ owner = "tx" => saved.cat.next <= cat.next
    /\ ~up => cat = newState /\ owner = "none" /\ ~dirtyMeta /\ pending = <<>> /\ ~dirtyFull
    /\ job.kind = "query" => Exists(cat, job.col)

EntriesOK ==
    /\ Tidy(cat) /\ Tidy(meta) /\ Tidy(saved.cat)
    /\ KeysOwned(docs)

\* Index dbids: EnsureIndex's counter is ahead of them, but between its batches.
IndexesOK == Free({"torn"}) =>
    /\ IxDistinct(cat) /\ IxDistinct(meta) /\ IxDistinct(saved.cat)
    /\ IxBelow(saved.cat, saved.cat.next)
    /\ job = IndexJob => IxBelow(cat, cat.next + 1)
    /\ job # IndexJob => IxBelow(cat, cat.next)
    /\ ~up => IxBelow(meta, meta.next)

\* The dirty flags say whether memory is ahead of the engine, and nothing is at rest.
FlagsOK == Sound =>
    /\ ~dirtyMeta => pending = <<>>
    /\ dirtyFull => owner = "tx" /\ dirtyMeta
    /\ owner = "none" => ~dirtyMeta
    /\ owner = "call" /\ dirtyMeta => job.kind = "query" /\ job.changed
    /\ ~saved.dirtyMeta /\ ~saved.dirtyFull /\ saved.len = 0

\* Ids that are stored, buffered or in a query's window are not given out again.
IdsOK == Sound =>
    /\ IdsBelow(cat, docs) /\ IdsBelow(meta, docs) /\ IdsBelow(saved.cat, docs)
    /\ ~dirtyFull =>
          /\ PendOK(cat, pending)
          /\ job.kind = "query" =>
                \A i \in DOMAIN job.todo : job.todo[i].id <= cat.cols[job.col].nextId

\* The engine lags behind only where something is dirty; and so it did at the
\* start of the transaction, unless that has built an index.
StoredOK == Free({"abandoned", "leaked"}) =>
    /\ up /\ ~dirtyMeta /\ job # IndexJob => Behind(meta, cat, docs)
    /\ owner = "tx" => BuiltInTx \/ Behind(meta, saved.cat, docs)

CInv == ControlOK /\ EntriesOK /\ IndexesOK /\ FlagsOK /\ IdsOK /\ StoredOK

----------------------------------------------------------------------------
(* Catalog updates of the document methods. *)

\* e is c after a method that adds collections, raises NextIDs and counts: no
\* collection goes, new ones are empty and take dbids above c's counter.
Kept(c, e, n) ==
    /\ e.cols[n].dbid = c.cols[n].dbid /\ c.cols[n].nextId <= e.cols[n].nextId
    /\ \A p \in Paths : /\ e.cols[n].ix[p].dbid = c.cols[n].ix[p].dbid
                        /\ e.cols[n].ix[p].unique = c.cols[n].ix[p].unique
    /\ Exists(c, n) \/ e.cols[n] = c.cols[n]

Fresh(c, e, n) ==
    /\ ~Exists(c, n) /\ c.next < e.cols[n].dbid /\ e.cols[n].dbid <= e.next
    /\ \A p \in Paths : e.cols[n].ix[p].dbid = 0

Grow(c, e) ==
    /\ GoodUpdate(c, e) /\ c.next <= e.next
    /\ \A n \in Names : Kept(c, e, n) \/ Fresh(c, e, n)

\* The same without a change of counts: what a method that fails leaves behind.
Quiet(c, e) ==
    /\ Grow(c, e)
    /\ \A n \in Names :
          \/ /\ Kept(c, e, n)
             /\ e.cols[n].rnum = c.cols[n].rnum /\ e.cols[n].ix = c.cols[n].ix
          \/ /\ Fresh(c, e, n)
             /\ e.cols[n].rnum = 0 /\ e.cols[n].ix = NoCollection.ix

\* The parts of a catalog are numbers.
LEMMA CatalogParts ==
    ASSUME NEW c \in CatalogType, NEW n \in Names
    PROVE  /\ c.next \in Nat /\ c.cols[n] \in CollectionType
           /\ c.cols[n].dbid \in Nat /\ c.cols[n].nextId \in Nat /\ c.cols[n].rnum \in Nat
           /\ c.cols[n].ix \in [Paths -> IndexType]
           /\ \A p \in Paths : c.cols[n].ix[p].dbid \in Nat /\ c.cols[n].ix[p].rnum \in Nat
<1>1. c.next \in Nat /\ c.cols[n] \in CollectionType
  BY DEF CatalogType
<1>2. /\ c.cols[n].dbid \in Nat /\ c.cols[n].nextId \in Nat /\ c.cols[n].rnum \in Nat
      /\ c.cols[n].ix \in [Paths -> IndexType]
  BY <1>1 DEF CollectionType
<1>3. \A p \in Paths : c.cols[n].ix[p] \in IndexType
  BY <1>2
<1> QED
  BY <1>1, <1>2, <1>3 DEF IndexType

LEMMA GrowSame ==
    ASSUME NEW c \in CatalogType
    PROVE  Quiet(c, c) /\ Grow(c, c)
<1>1. c.next \in Nat /\ \A n \in Names : c.cols[n].nextId \in Nat
  BY CatalogParts DEF CatalogType
<1>2. c.next <= c.next /\ \A n \in Names : Kept(c, c, n)
  BY <1>1 DEF Kept
<1> QED
  BY <1>2, SameGood DEF Quiet, Grow

LEMMA GrowTrans ==
    ASSUME NEW a \in CatalogType, NEW b, NEW c, Grow(a, b), Grow(b, c)
    PROVE  Grow(a, c)
<1>1. b \in CatalogType /\ c \in CatalogType /\ a.next <= b.next /\ b.next <= c.next
      /\ a.next \in Nat /\ b.next \in Nat /\ c.next \in Nat
  BY DEF Grow, GoodUpdate, CatalogType
<1>2. ASSUME NEW n \in Names PROVE Kept(a, c, n) \/ Fresh(a, c, n)
  <2>1. /\ a.cols[n].dbid \in Nat /\ b.cols[n].dbid \in Nat /\ c.cols[n].dbid \in Nat
        /\ a.cols[n].nextId \in Nat /\ b.cols[n].nextId \in Nat /\ c.cols[n].nextId \in Nat
    BY <1>1, CatalogParts
  <2>2. CASE Kept(a, b, n) /\ Kept(b, c, n)
    BY <2>1, <2>2 DEF Kept, Exists
  <2>3. CASE Kept(a, b, n) /\ Fresh(b, c, n)
    BY <1>1, <2>1, <2>3 DEF Kept, Fresh, Exists
  <2>4. CASE Fresh(a, b, n) /\ Kept(b, c, n)
    BY <1>1, <2>1, <2>4 DEF Kept, Fresh, Exists
  <2>5. CASE Fresh(a, b, n) /\ Fresh(b, c, n)
    BY <1>1, <2>1, <2>5 DEF Fresh, Exists
  <2> QED
    BY <2>2, <2>3, <2>4, <2>5 DEF Grow
<1>3. GoodUpdate(a, c)
  BY GoodUpdateTrans DEF Grow
<1> QED
  BY <1>1, <1>2, <1>3 DEF Grow

\* A quiet change of a quietly changed catalog.
LEMMA QuietTrans ==
    ASSUME NEW a \in CatalogType, NEW b, NEW c, Tidy(a), Quiet(a, b), Quiet(b, c)
    PROVE  Quiet(a, c)
<1>1. Grow(a, b) /\ Grow(b, c) /\ Grow(a, c)
  BY GrowTrans DEF Quiet
<1>2. b \in CatalogType /\ c \in CatalogType /\ a.next <= b.next /\ b.next <= c.next
      /\ a.next \in Nat /\ b.next \in Nat /\ c.next \in Nat
  BY <1>1 DEF Grow, GoodUpdate, CatalogType
<1>3. ASSUME NEW n \in Names
      PROVE  \/ Kept(a, c, n) /\ c.cols[n].rnum = a.cols[n].rnum /\ c.cols[n].ix = a.cols[n].ix
             \/ Fresh(a, c, n) /\ c.cols[n].rnum = 0 /\ c.cols[n].ix = NoCollection.ix
  <2>1. /\ a.cols[n].dbid \in Nat /\ b.cols[n].dbid \in Nat /\ c.cols[n].dbid \in Nat
        /\ a.cols[n].nextId \in Nat /\ b.cols[n].nextId \in Nat /\ c.cols[n].nextId \in Nat
    BY <1>2, CatalogParts
  <2>2. Kept(a, c, n) \/ Fresh(a, c, n)
    BY <1>1 DEF Grow
  <2>3. ~Exists(a, n) => a.cols[n].rnum = 0 /\ a.cols[n].ix = NoCollection.ix
    BY DEF Tidy, NoCollection
  <2>4. CASE Kept(a, b, n) /\ b.cols[n].rnum = a.cols[n].rnum /\ b.cols[n].ix = a.cols[n].ix
    <3>1. CASE Kept(b, c, n) /\ c.cols[n].rnum = b.cols[n].rnum /\ c.cols[n].ix = b.cols[n].ix
      BY <2>2, <2>3, <2>4, <3>1 DEF Fresh
    <3>2. CASE Fresh(b, c, n) /\ c.cols[n].rnum = 0 /\ c.cols[n].ix = NoCollection.ix
      BY <2>2, <2>3, <2>4, <3>2 DEF Kept, Fresh, Exists
    <3> QED
      BY <3>1, <3>2 DEF Quiet
  <2>5. CASE Fresh(a, b, n) /\ b.cols[n].rnum = 0 /\ b.cols[n].ix = NoCollection.ix
    <3>1. CASE Kept(b, c, n) /\ c.cols[n].rnum = b.cols[n].rnum /\ c.cols[n].ix = b.cols[n].ix
      BY <2>2, <2>3, <2>5, <3>1 DEF Fresh
    <3>2. CASE Fresh(b, c, n) /\ c.cols[n].rnum = 0 /\ c.cols[n].ix = NoCollection.ix
      BY <2>2, <2>3, <2>5, <3>2 DEF Fresh
    <3> QED
      BY <3>1, <3>2 DEF Quiet
  <2> QED
    BY <2>4, <2>5 DEF Quiet
<1> QED
  BY <1>1, <1>3 DEF Quiet

\* ensureCollectionOnStateLocked.
LEMMA EnsureQuiet ==
    ASSUME NEW c \in CatalogType, NEW n \in Names
    PROVE  /\ Quiet(c, ensureCollection(c, n)) /\ Grow(c, ensureCollection(c, n))
           /\ Exists(ensureCollection(c, n), n)
<1> DEFINE e == ensureCollection(c, n)
<1>2. CASE Exists(c, n)
  <2>1. e = c
    BY <1>2 DEF ensureCollection
  <2> QED
    BY <1>2, <2>1, GrowSame
<1>3. CASE ~Exists(c, n)
  <2> DEFINE col == [NoCollection EXCEPT !.dbid = c.next + 1]
  <2>1. c.next \in Nat /\ c.cols \in [Names -> CollectionType]
    BY DEF CatalogType
  <2>2. e.next = c.next + 1 /\ e.cols = [c.cols EXCEPT ![n] = col]
    BY <1>3 DEF ensureCollection
  <2>3. /\ col.dbid = c.next + 1 /\ col.rnum = 0 /\ col.ix = NoCollection.ix
        /\ \A p \in Paths : col.ix[p].dbid = 0
    BY DEF NoCollection, NoIndex
  <2> HIDE DEF col, e
  <2>4. \A m \in Names : e.cols[m] = IF m = n THEN col ELSE c.cols[m]
    BY <2>1, <2>2
  <2>5. Fresh(c, e, n) /\ e.cols[n].rnum = 0 /\ e.cols[n].ix = NoCollection.ix /\ Exists(e, n)
    BY <1>3, <2>1, <2>2, <2>3, <2>4 DEF Fresh, Exists
  <2>6. ASSUME NEW m \in Names, m # n
        PROVE  Kept(c, e, m) /\ e.cols[m].rnum = c.cols[m].rnum /\ e.cols[m].ix = c.cols[m].ix
    <3>1. e.cols[m] = c.cols[m] /\ c.cols[m].nextId \in Nat
      BY <2>4, <2>6, CatalogParts
    <3> QED
      BY <3>1 DEF Kept
  <2>7. Grow(c, e)
    BY <2>1, <2>2, <2>5, <2>6, EnsureCollectionGood DEF Grow, e
  <2> QED
    BY <2>5, <2>6, <2>7 DEF Quiet, e
<1> QED
  BY <1>2, <1>3

\* One collection of the catalog is replaced by one with its dbid and index dbids.
LEMMA ReplaceGrow ==
    ASSUME NEW c \in CatalogType, NEW n \in Names, NEW col \in CollectionType, Exists(c, n),
           col.dbid = c.cols[n].dbid, c.cols[n].nextId <= col.nextId,
           \A p \in Paths : /\ col.ix[p].dbid = c.cols[n].ix[p].dbid
                            /\ col.ix[p].unique = c.cols[n].ix[p].unique
    PROVE  /\ Grow(c, WithCollection(c, n, col))
           /\ WithCollection(c, n, col).cols[n] = col
           /\ \A m \in Names \ {n} : WithCollection(c, n, col).cols[m] = c.cols[m]
           /\ WithCollection(c, n, col).next = c.next
           /\ col.rnum = c.cols[n].rnum /\ col.ix = c.cols[n].ix => Quiet(c, WithCollection(c, n, col))
<1> DEFINE e == WithCollection(c, n, col)
<1>1. c.next \in Nat /\ c.cols \in [Names -> CollectionType]
  BY DEF CatalogType
<1>2. e \in CatalogType /\ e.next = c.next /\ e.cols = [c.cols EXCEPT ![n] = col]
  BY <1>1 DEF WithCollection, CatalogType
<1> HIDE DEF e
<1>3. e.cols[n] = col /\ \A m \in Names \ {n} : e.cols[m] = c.cols[m]
  BY <1>1, <1>2
<1>4. Kept(c, e, n)
  BY <1>3 DEF Kept, Exists
<1>5. ASSUME NEW m \in Names, m # n PROVE Kept(c, e, m)
  <2>1. e.cols[m] = c.cols[m] /\ c.cols[m].nextId \in Nat
    BY <1>3, <1>5, CatalogParts
  <2> QED
    BY <2>1 DEF Kept
<1>6. Grow(c, e)
  BY <1>1, <1>2, <1>4, <1>5, WithCollectionGood DEF Grow, e
<1>7. col.rnum = c.cols[n].rnum /\ col.ix = c.cols[n].ix => Quiet(c, e)
  BY <1>3, <1>4, <1>5, <1>6 DEF Quiet
<1> QED
  BY <1>2, <1>3, <1>6, <1>7 DEF e

\* PutNew's, Put's and MergeOrPut's NextID.
LEMMA RaiseQuiet ==
    ASSUME NEW c \in CatalogType, NEW n \in Names, NEW id \in Ids, Exists(c, n)
    PROVE  /\ Quiet(c, RaiseNextId(c, n, id)) /\ Grow(c, RaiseNextId(c, n, id))
           /\ Exists(RaiseNextId(c, n, id), n)
           /\ id <= RaiseNextId(c, n, id).cols[n].nextId
<1>1. c.cols[n] \in CollectionType /\ id \in Int /\ c.cols[n].nextId \in Nat
  BY IdsAssumption, CatalogParts
<1>2. CASE id > c.cols[n].nextId
  <2> DEFINE col == [c.cols[n] EXCEPT !.nextId = id]
  <2>1. /\ col \in CollectionType /\ col.dbid = c.cols[n].dbid /\ col.nextId = id
        /\ col.rnum = c.cols[n].rnum /\ col.ix = c.cols[n].ix
    BY <1>1, <1>2 DEF CollectionType
  <2>2. RaiseNextId(c, n, id) = WithCollection(c, n, col)
    BY <1>2 DEF RaiseNextId, WithCollection
  <2>3. c.cols[n].nextId <= col.nextId /\ id <= col.nextId
    BY <1>1, <1>2, <2>1
  <2> HIDE DEF col
  <2>4. /\ Grow(c, WithCollection(c, n, col)) /\ WithCollection(c, n, col).cols[n] = col
        /\ Quiet(c, WithCollection(c, n, col))
    BY <2>1, <2>3, ReplaceGrow
  <2>5. Exists(WithCollection(c, n, col), n)
    BY <2>1, <2>4 DEF Exists
  <2> QED
    BY <2>2, <2>3, <2>4, <2>5
<1>3. CASE ~(id > c.cols[n].nextId)
  <2>1. RaiseNextId(c, n, id) = c /\ id <= c.cols[n].nextId
    BY <1>1, <1>3 DEF RaiseNextId
  <2> QED
    BY <2>1, GrowSame
<1> QED
  BY <1>2, <1>3

\* putLocked's and a delete's counts.
LEMMA CountGrow ==
    ASSUME NEW c \in CatalogType, NEW n \in Names, NEW old \in MaybeDocs, NEW new \in MaybeDocs,
           Exists(c, n)
    PROVE  Grow(c, CountPut(c, n, old, new)) /\ Grow(c, CountDelete(c, n, old))
<1> DEFINE more == [c.cols[n] EXCEPT !.rnum = IF old = NoDoc THEN @ + 1 ELSE @]
           less == [c.cols[n] EXCEPT !.rnum = AtLeastZero(@ - 1)]
<1>1. c.cols[n] \in CollectionType /\ c.cols[n].nextId \in Nat
  BY CatalogParts
<1>2. more \in CollectionType /\ more.dbid = c.cols[n].dbid /\ more.nextId = c.cols[n].nextId
      /\ more.ix = c.cols[n].ix
  BY <1>1 DEF CollectionType
<1>3. less \in CollectionType /\ less.dbid = c.cols[n].dbid /\ less.nextId = c.cols[n].nextId
      /\ less.ix = c.cols[n].ix
  BY <1>1 DEF CollectionType, AtLeastZero
<1>4. NoDoc \in MaybeDocs
  BY DEF MaybeDocs
<1>5. /\ CountPut(c, n, old, new) = WithCollection(c, n, adjustIndexRNums(more, old, new))
      /\ CountDelete(c, n, old) = WithCollection(c, n, adjustIndexRNums(less, old, NoDoc))
  BY DEF CountPut, CountDelete
<1> HIDE DEF more, less
<1>6. Grow(c, WithCollection(c, n, adjustIndexRNums(more, old, new)))
  <2> DEFINE col == adjustIndexRNums(more, old, new)
  <2>1. /\ col \in CollectionType /\ col.dbid = more.dbid /\ col.nextId = more.nextId
        /\ \A p \in Paths : /\ col.ix[p].dbid = more.ix[p].dbid
                            /\ col.ix[p].unique = more.ix[p].unique
    BY <1>1, <1>2, AdjustType
  <2> HIDE DEF col
  <2>2. /\ col.dbid = c.cols[n].dbid /\ c.cols[n].nextId <= col.nextId
        /\ \A p \in Paths : /\ col.ix[p].dbid = c.cols[n].ix[p].dbid
                            /\ col.ix[p].unique = c.cols[n].ix[p].unique
    BY <1>1, <1>2, <2>1
  <2> QED
    BY <2>1, <2>2, ReplaceGrow DEF col
<1>7. Grow(c, WithCollection(c, n, adjustIndexRNums(less, old, NoDoc)))
  <2> DEFINE col == adjustIndexRNums(less, old, NoDoc)
  <2>1. /\ col \in CollectionType /\ col.dbid = less.dbid /\ col.nextId = less.nextId
        /\ \A p \in Paths : /\ col.ix[p].dbid = less.ix[p].dbid
                            /\ col.ix[p].unique = less.ix[p].unique
    BY <1>1, <1>3, <1>4, AdjustType
  <2> HIDE DEF col
  <2>2. /\ col.dbid = c.cols[n].dbid /\ c.cols[n].nextId <= col.nextId
        /\ \A p \in Paths : /\ col.ix[p].dbid = c.cols[n].ix[p].dbid
                            /\ col.ix[p].unique = c.cols[n].ix[p].unique
    BY <1>1, <1>3, <1>4, <2>1
  <2> QED
    BY <2>1, <2>2, ReplaceGrow DEF col
<1> QED
  BY <1>5, <1>6, <1>7

----------------------------------------------------------------------------
(* What the parts of the invariant say of an updated catalog. *)

\* All that is asked of a catalog in memory, beside its type and ranges.
CatOK(c) ==
    /\ c \in CatalogType /\ OwnRanges(c, docs) /\ cat.next <= c.next /\ Tidy(c)
    /\ Free({"torn"}) => IxDistinct(c) /\ IxBelow(c, c.next)
    /\ Sound => IdsBelow(c, docs)

\* The catalog of an empty directory.
LEMMA NewStateOK ==
    /\ newState \in CatalogType /\ newState.next = 1 /\ NoTx.cat = newState
    /\ \A n \in Names : newState.cols[n] = NoCollection
    /\ Tidy(newState) /\ IxDistinct(newState) /\ IxBelow(newState, newState.next)
    /\ \A stored : KeysOwned(stored) => IdsBelow(newState, stored)
<1>1. /\ newState \in CatalogType /\ newState.next = 1 /\ NoTx.cat = newState
      /\ \A n \in Names : newState.cols[n] = NoCollection
  BY NewStateType DEF newState, NoTx
<1>2. NoCollection.dbid = 0 /\ NoCollection.nextId = 0 /\ \A p \in Paths : NoCollection.ix[p].dbid = 0
  BY DEF NoCollection, NoIndex
<1>3. Tidy(newState) /\ IxDistinct(newState) /\ IxBelow(newState, newState.next)
  BY <1>1, <1>2 DEF Tidy, IxDistinct, IxBelow, Indexed
<1>4. ASSUME NEW stored, KeysOwned(stored) PROVE IdsBelow(newState, stored)
  <2>1. \A id : <<0, id>> \notin DOMAIN stored
    BY <1>4 DEF KeysOwned
  <2> QED
    BY <1>1, <1>2, <2>1 DEF IdsBelow, StoredIds
<1> QED
  BY <1>1, <1>3, <1>4

\* The invariants as far as they concern the catalog in memory.
LEMMA HereOK ==
    ASSUME IInv, CInv, up, job # IndexJob
    PROVE  CatOK(cat)
<1>1. cat \in CatalogType /\ OwnRanges(cat, docs)
  BY DEF IInv, TypeOK, CollectionsDisjoint
<1>2. cat.next <= cat.next
  BY <1>1 DEF CatalogType
<1> QED
  BY <1>1, <1>2 DEF CInv, EntriesOK, IndexesOK, IdsOK, CatOK

\* A grown catalog is as good, also for what is buffered, and a quiet one is as
\* far behind.
LEMMA GrowOK ==
    ASSUME IInv, NEW b \in CatalogType, CatOK(b), NEW c, Grow(b, c)
    PROVE  /\ CatOK(c)
           /\ \A n \in Names : Exists(b, n) => Exists(c, n) /\ b.cols[n].nextId <= c.cols[n].nextId
           /\ \A pend \in Seq(MutationType) : PendOK(b, pend) => PendOK(c, pend)
           /\ \A m \in CatalogType : Behind(m, b, docs) /\ Quiet(b, c) => Behind(m, c, docs)
<1>1. /\ c \in CatalogType /\ b.next <= c.next /\ b.next \in Nat /\ c.next \in Nat
      /\ cat \in CatalogType /\ cat.next \in Nat /\ cat.next <= c.next
      /\ DocsType(docs) /\ \A k \in DOMAIN docs : k[1] \in Nat
  <2>1. DocsType(docs) /\ cat \in CatalogType
    BY DEF IInv, TypeOK
  <2> QED
    BY <2>1 DEF Grow, GoodUpdate, CatalogType, CatOK, DocsType
<1>2. \A n \in Names : Kept(b, c, n) \/ Fresh(b, c, n)
  BY DEF Grow
<1>3. \A n \in Names : /\ b.cols[n].dbid \in Nat /\ c.cols[n].dbid \in Nat
                       /\ b.cols[n].nextId \in Nat /\ c.cols[n].nextId \in Nat
                       /\ \A p \in Paths : b.cols[n].ix[p].dbid \in Nat /\ c.cols[n].ix[p].dbid \in Nat
  BY <1>1, CatalogParts
<1>4. /\ \A n \in Names : b.cols[n].dbid <= b.next
      /\ \A n, m \in Names : Exists(b, n) /\ b.cols[n].dbid = b.cols[m].dbid => n = m
      /\ \A k \in DOMAIN docs : k[1] <= b.next
  BY DEF CatOK, OwnRanges
<1>5. \A n \in Names : Fresh(b, c, n) => StoredIds(docs, c.cols[n].dbid) = {}
  <2>1. SUFFICES ASSUME NEW n \in Names, Fresh(b, c, n), NEW id \in Ids,
                        <<c.cols[n].dbid, id>> \in DOMAIN docs
                 PROVE  FALSE
    BY DEF StoredIds
  <2>2. c.cols[n].dbid <= b.next
    BY <1>4, <2>1
  <2> QED
    BY <1>1, <1>3, <2>1, <2>2 DEF Fresh
<1>6. Tidy(c)
  BY <1>2, <1>3, <1>1 DEF Tidy, CatOK, Kept, Fresh, Exists
<1>7. \A n \in Names : \A p \in Indexed(c, n) :
          p \in Indexed(b, n) /\ c.cols[n].ix[p].dbid = b.cols[n].ix[p].dbid
  BY <1>2 DEF Indexed, Kept, Fresh
<1>8. Free({"torn"}) => IxDistinct(c)
  BY <1>7 DEF CatOK, IxDistinct
<1>9. Free({"torn"}) => IxBelow(c, c.next)
  <2>1. SUFFICES ASSUME Free({"torn"}), NEW n \in Names, NEW p \in Paths
                 PROVE  c.cols[n].ix[p].dbid <= c.next
    BY DEF IxBelow
  <2>2. b.cols[n].ix[p].dbid <= b.next
    BY <2>1 DEF CatOK, IxBelow
  <2> QED
    BY <1>1, <1>2, <1>3, <2>2 DEF Kept, Fresh
<1>10. Sound => IdsBelow(c, docs)
  <2>1. SUFFICES ASSUME Sound, NEW n \in Names, NEW id \in StoredIds(docs, c.cols[n].dbid)
                 PROVE  id <= c.cols[n].nextId
    BY DEF IdsBelow
  <2>2. Kept(b, c, n)
    BY <1>2, <1>5, <2>1
  <2>3. id \in Int /\ id <= b.cols[n].nextId
    BY <2>1, <2>2, IdsAssumption DEF CatOK, IdsBelow, Kept, StoredIds
  <2> QED
    BY <1>3, <2>2, <2>3 DEF Kept
<1>11. OwnRanges(c, docs)
  BY <1>1 DEF Grow, GoodUpdate, CatOK
<1>12. CatOK(c)
  BY <1>1, <1>6, <1>8, <1>9, <1>10, <1>11 DEF CatOK
<1>13. ASSUME NEW n \in Names, Exists(b, n)
       PROVE  Exists(c, n) /\ b.cols[n].nextId <= c.cols[n].nextId
  BY <1>2, <1>13 DEF Kept, Fresh, Exists
<1>14. ASSUME NEW pend \in Seq(MutationType), PendOK(b, pend) PROVE PendOK(c, pend)
  <2>1. SUFFICES ASSUME NEW i \in DOMAIN pend, pend[i].new # NoDoc
                 PROVE  Exists(c, pend[i].col) /\ pend[i].id <= c.cols[pend[i].col].nextId
    BY DEF PendOK
  <2>2. pend[i] \in MutationType
    BY <2>1
  <2>3. pend[i].col \in Names /\ pend[i].id \in Int
    BY <2>2, IdsAssumption DEF MutationType
  <2>4. Exists(b, pend[i].col) /\ pend[i].id <= b.cols[pend[i].col].nextId
    BY <1>14, <2>1 DEF PendOK
  <2> QED
    BY <1>3, <1>13, <2>3, <2>4
<1>15. ASSUME NEW m \in CatalogType, Behind(m, b, docs), Quiet(b, c) PROVE Behind(m, c, docs)
  <2>1. SUFFICES ASSUME NEW n \in Names
                 PROVE  /\ m.cols[n].dbid \in {c.cols[n].dbid, 0}
                        /\ m.cols[n].rnum = c.cols[n].rnum /\ m.cols[n].ix = c.cols[n].ix
                        /\ m.cols[n].nextId <= c.cols[n].nextId
                        /\ m.cols[n].dbid # c.cols[n].dbid => StoredIds(docs, c.cols[n].dbid) = {}
    BY DEF Behind
  <2>2. /\ m.cols[n].dbid \in {b.cols[n].dbid, 0}
        /\ m.cols[n].rnum = b.cols[n].rnum /\ m.cols[n].ix = b.cols[n].ix
        /\ m.cols[n].nextId <= b.cols[n].nextId
        /\ m.cols[n].dbid # b.cols[n].dbid => StoredIds(docs, b.cols[n].dbid) = {}
    BY <1>15 DEF Behind
  <2>3. m.cols[n].nextId \in Nat
    BY CatalogParts
  <2>4. CASE Kept(b, c, n) /\ c.cols[n].rnum = b.cols[n].rnum /\ c.cols[n].ix = b.cols[n].ix
    BY <1>3, <2>2, <2>3, <2>4 DEF Kept
  <2>5. CASE Fresh(b, c, n) /\ c.cols[n].rnum = 0 /\ c.cols[n].ix = NoCollection.ix
    <3>1. b.cols[n] = NoCollection
      BY <2>5 DEF CatOK, Tidy, Fresh
    <3>2. NoCollection.dbid = 0 /\ NoCollection.rnum = 0 /\ NoCollection.nextId = 0
      BY DEF NoCollection
    <3> QED
      BY <1>3, <1>5, <2>2, <2>3, <2>5, <3>1, <3>2
  <2> QED
    BY <1>15, <2>4, <2>5 DEF Quiet
<1> QED
  BY <1>12, <1>13, <1>14, <1>15

\* RemoveCollection, RenameCollection and RemoveIndex leave fewer entries, or the
\* same ones under other names.
LEMMA ShrinkOK ==
    ASSUME IInv, EntriesOK, CatOK(cat), NEW c, GoodUpdate(cat, c), c.next = cat.next, Tidy(c),
           NEW was, \A n \in Names : was[n] \in Names,
           \A n \in Names : Exists(c, n) =>
              /\ c.cols[n].dbid = cat.cols[was[n]].dbid /\ c.cols[n].nextId = cat.cols[was[n]].nextId
              /\ \A m \in Names : Exists(c, m) /\ was[n] = was[m] => n = m
              /\ \A p \in Paths : \/ c.cols[n].ix[p].dbid = 0
                                  \/ c.cols[n].ix[p].dbid = cat.cols[was[n]].ix[p].dbid
    PROVE  CatOK(c)
<1>1. /\ c \in CatalogType /\ cat \in CatalogType /\ cat.next \in Nat /\ OwnRanges(c, docs)
      /\ DocsType(docs)
  BY DEF GoodUpdate, IInv, TypeOK, CatalogType, CatOK
<1>2. \A n \in Names : /\ c.cols[n].dbid \in Nat /\ c.cols[n].nextId \in Nat
                       /\ \A p \in Paths : c.cols[n].ix[p].dbid \in Nat
  BY <1>1, CatalogParts
<1>3. ASSUME NEW n \in Names, ~Exists(c, n)
      PROVE  c.cols[n].dbid = 0 /\ Indexed(c, n) = {} /\ \A p \in Paths : c.cols[n].ix[p].dbid = 0
  <2>1. c.cols[n] = NoCollection
    BY <1>3 DEF Tidy
  <2> QED
    BY <2>1 DEF NoCollection, NoIndex, Indexed
<1>4. \A n \in Names : \A p \in Indexed(c, n) :
         Exists(c, n) /\ p \in Indexed(cat, was[n]) /\ c.cols[n].ix[p].dbid = cat.cols[was[n]].ix[p].dbid
  BY <1>3 DEF Indexed
<1>5. Free({"torn"}) => IxDistinct(c)
  <2>1. SUFFICES ASSUME Free({"torn"}), NEW n \in Names, NEW m \in Names,
                        NEW p \in Indexed(c, n), NEW q \in Indexed(c, m),
                        c.cols[n].ix[p].dbid = c.cols[m].ix[q].dbid
                 PROVE  n = m /\ p = q
    BY DEF IxDistinct
  <2>2. /\ Exists(c, n) /\ p \in Indexed(cat, was[n]) /\ c.cols[n].ix[p].dbid = cat.cols[was[n]].ix[p].dbid
        /\ Exists(c, m) /\ q \in Indexed(cat, was[m]) /\ c.cols[m].ix[q].dbid = cat.cols[was[m]].ix[q].dbid
    BY <1>4, SMTT(30)
  <2>3. was[n] = was[m] /\ p = q
    <3>1. IxDistinct(cat) /\ was[n] \in Names /\ was[m] \in Names
      BY <2>1, SMTT(30) DEF CatOK
    <3>2. cat.cols[was[n]].ix[p].dbid = cat.cols[was[m]].ix[q].dbid
      BY <2>1, <2>2
    <3> QED
      BY <2>2, <3>1, <3>2 DEF IxDistinct
  <2> QED
    BY <2>2, <2>3
<1>6. Free({"torn"}) => IxBelow(c, c.next)
  <2>1. SUFFICES ASSUME Free({"torn"}), NEW n \in Names, NEW p \in Paths
                 PROVE  c.cols[n].ix[p].dbid <= cat.next
    BY DEF IxBelow
  <2>2. was[n] \in Names /\ cat.cols[was[n]].ix[p].dbid <= cat.next
    BY <2>1 DEF CatOK, IxBelow
  <2> QED
    BY <1>1, <1>3, <2>2
<1>7. Sound => IdsBelow(c, docs)
  <2>1. SUFFICES ASSUME Sound, NEW n \in Names, NEW id \in StoredIds(docs, c.cols[n].dbid)
                 PROVE  id <= c.cols[n].nextId
    BY DEF IdsBelow
  <2>2. Exists(c, n)
    BY <1>3, <2>1 DEF EntriesOK, KeysOwned, StoredIds
  <2> QED
    BY <2>1, <2>2 DEF CatOK, IdsBelow
<1> QED
  BY <1>1, <1>5, <1>6, <1>7 DEF CatOK

LEMMA RemoveCollectionOK ==
    ASSUME IInv, EntriesOK, CatOK(cat), NEW n \in Names
    PROVE  CatOK(removeCollection(cat, n))
<1> DEFINE c == removeCollection(cat, n)
           was == [m \in Names |-> m]
<1>1. cat \in CatalogType /\ cat.cols \in [Names -> CollectionType] /\ Tidy(cat)
  BY DEF IInv, TypeOK, CatalogType, CatOK
<1>2. GoodUpdate(cat, c)
  BY <1>1, RemoveCollectionGood
<1>3. c.next = cat.next /\ c.cols[n] = NoCollection /\ \A m \in Names \ {n} : c.cols[m] = cat.cols[m]
  BY <1>1 DEF removeCollection, WithCollection, CatalogType
<1>4. NoCollection.dbid = 0
  BY DEF NoCollection
<1> HIDE DEF c
<1>5. Tidy(c)
  BY <1>1, <1>3 DEF Tidy, Exists
<1>6. \A m \in Names : Exists(c, m) => m # n
  BY <1>3, <1>4 DEF Exists
<1>7. \A m \in Names : was[m] = m
  OBVIOUS
<1> HIDE DEF was
<1> QED
  BY <1>2, <1>3, <1>5, <1>6, <1>7, ShrinkOK DEF c

LEMMA RenameCollectionOK ==
    ASSUME IInv, EntriesOK, CatOK(cat), NEW n \in Names, NEW m \in Names, n # m, ~Exists(cat, m)
    PROVE  CatOK(renameCollection(cat, n, m))
<1> DEFINE c == renameCollection(cat, n, m)
           was == [x \in Names |-> IF x = m THEN n ELSE x]
<1>1. cat \in CatalogType /\ cat.cols \in [Names -> CollectionType] /\ Tidy(cat)
  BY DEF IInv, TypeOK, CatalogType, CatOK
<1>2. GoodUpdate(cat, c)
  BY <1>1, RenameCollectionGood
<1>3. /\ c.next = cat.next
      /\ \A x \in Names : c.cols[x] = IF x = n THEN NoCollection ELSE IF x = m THEN cat.cols[n] ELSE cat.cols[x]
  BY <1>1 DEF renameCollection, CatalogType
<1>4. NoCollection.dbid = 0
  BY DEF NoCollection
<1> HIDE DEF c
<1>5. Tidy(c)
  BY <1>1, <1>3 DEF Tidy, Exists
<1>6. \A x \in Names : Exists(c, x) => x # n
  BY <1>3, <1>4 DEF Exists
<1>7. /\ \A x \in Names : was[x] \in Names /\ was[x] = IF x = m THEN n ELSE x
  OBVIOUS
<1> HIDE DEF was
<1>8. ASSUME NEW x \in Names, Exists(c, x)
      PROVE  /\ c.cols[x] = cat.cols[was[x]]
             /\ \A y \in Names : Exists(c, y) /\ was[x] = was[y] => x = y
  BY <1>3, <1>6, <1>7, <1>8
<1> QED
  BY <1>2, <1>3, <1>5, <1>7, <1>8, ShrinkOK DEF c

LEMMA RemoveIndexOK ==
    ASSUME IInv, EntriesOK, CatOK(cat), NEW n \in Names, NEW p \in Paths, p \in Indexed(cat, n)
    PROVE  CatOK(removeIndex(cat, n, p))
<1> DEFINE c == removeIndex(cat, n, p)
           col == [cat.cols[n] EXCEPT !.ix[p] = NoIndex]
           was == [m \in Names |-> m]
<1>1. cat \in CatalogType /\ cat.cols \in [Names -> CollectionType] /\ Tidy(cat)
  BY DEF IInv, TypeOK, CatalogType, CatOK
<1>2. GoodUpdate(cat, c)
  BY <1>1, NewStateType, IndexEntryGood DEF removeIndex
<1>3. c.next = cat.next /\ c.cols[n] = col /\ \A m \in Names \ {n} : c.cols[m] = cat.cols[m]
  BY <1>1 DEF removeIndex, CatalogType
<1>4. /\ col.dbid = cat.cols[n].dbid /\ col.nextId = cat.cols[n].nextId
      /\ \A q \in Paths : col.ix[q].dbid = 0 \/ col.ix[q].dbid = cat.cols[n].ix[q].dbid
  BY <1>1 DEF CollectionType, NoIndex
<1>5. Exists(cat, n)
  BY <1>1 DEF Tidy, Indexed, NoCollection, NoIndex
<1> HIDE DEF c, col
<1>6. Tidy(c)
  BY <1>1, <1>3, <1>4, <1>5 DEF Tidy, Exists
<1>7. \A m \in Names : was[m] = m
  OBVIOUS
<1> HIDE DEF was
<1>8. ASSUME NEW m \in Names
      PROVE  /\ c.cols[m].dbid = cat.cols[m].dbid /\ c.cols[m].nextId = cat.cols[m].nextId
             /\ \A q \in Paths : \/ c.cols[m].ix[q].dbid = 0
                                 \/ c.cols[m].ix[q].dbid = cat.cols[m].ix[q].dbid
  BY <1>3, <1>4
<1> QED
  BY <1>2, <1>3, <1>6, <1>7, <1>8, ShrinkOK DEF c

----------------------------------------------------------------------------
(* The ways a step can end. *)

\* persistPendingLocked writes documents of collections, within their NextIDs.
LEMMA PersistIds ==
    ASSUME NEW c \in CatalogType, NEW stored, DocsType(stored), KeysOwned(stored),
           OwnRanges(c, stored), NEW pend \in Seq(MutationType)
    PROVE  /\ KeysOwned(persistDocs(c, stored, pend))
           /\ PendOK(c, pend) /\ IdsBelow(c, stored) => IdsBelow(c, persistDocs(c, stored, pend))
<1> DEFINE live == {i \in DOMAIN pend : Dbid(c, pend[i]) # 0}
           keyOf(i) == <<Dbid(c, pend[i]), pend[i].id>>
           hits(k) == {i \in live : keyOf(i) = k}
           after(k) == IF hits(k) # {} THEN pend[Max(hits(k))].new ELSE stored[k]
           keys == {k \in DOMAIN stored \cup {keyOf(i) : i \in live} : after(k) # NoDoc}
           res == persistDocs(c, stored, pend)
<1>1. DOMAIN pend = 1..Len(pend) /\ Len(pend) \in Nat /\ \A i \in DOMAIN pend : pend[i] \in MutationType
  OBVIOUS
<1>2. DOMAIN res = keys
  BY DEF persistDocs
<1>3. ASSUME NEW k \in keys
      PROVE  \/ k \in DOMAIN stored
             \/ \E i \in DOMAIN pend : /\ k = <<Dbid(c, pend[i]), pend[i].id>>
                                       /\ Dbid(c, pend[i]) # 0 /\ pend[i].new # NoDoc
  <2>1. CASE hits(k) = {}
    BY <2>1
  <2>2. CASE hits(k) # {}
    <3>1. hits(k) \in SUBSET (1..Len(pend))
      BY <1>1
    <3>2. Max(hits(k)) \in hits(k)
      BY <1>1, <2>2, <3>1, LastPosition
    <3>3. pend[Max(hits(k))].new # NoDoc
      BY <2>2
    <3> QED
      BY <3>2, <3>3
  <2> QED
    BY <2>1, <2>2
<1> HIDE DEF keys, res
<1>4. KeysOwned(res)
  BY <1>2, <1>3 DEF KeysOwned
<1>5. ASSUME PendOK(c, pend), IdsBelow(c, stored) PROVE IdsBelow(c, res)
  <2>1. SUFFICES ASSUME NEW n \in Names, NEW id \in StoredIds(res, c.cols[n].dbid)
                 PROVE  id <= c.cols[n].nextId
    BY DEF IdsBelow
  <2>2. id \in Ids /\ <<c.cols[n].dbid, id>> \in keys
    BY <1>2, <2>1 DEF StoredIds
  <2>3. CASE <<c.cols[n].dbid, id>> \in DOMAIN stored
    BY <1>5, <2>2, <2>3 DEF IdsBelow, StoredIds
  <2>4. ASSUME NEW i \in DOMAIN pend, <<c.cols[n].dbid, id>> = <<Dbid(c, pend[i]), pend[i].id>>,
               Dbid(c, pend[i]) # 0, pend[i].new # NoDoc
        PROVE  id <= c.cols[n].nextId
    <3>1. pend[i].col \in Names
      BY <1>1 DEF MutationType
    <3>2. c.cols[n].dbid = c.cols[pend[i].col].dbid /\ id = pend[i].id /\ Exists(c, n)
      BY <2>4 DEF Dbid, Exists
    <3>3. pend[i].col = n
      BY <3>1, <3>2 DEF OwnRanges
    <3> QED
      BY <1>5, <2>4, <3>2, <3>3 DEF PendOK
  <2> QED
    BY <1>3, <2>2, <2>3, <2>4
<1> QED
  BY <1>4, <1>5 DEF res

\* The history only grows: what it is free of now, it always was.
LEMMA FreeBlame ==
    ASSUME NEW X, NEW S, Blame(S), Free(X)'
    PROVE  Free(X) /\ S \cap X = {}
BY DEF Blame, Free

\* The catalog a DB method or a transaction commits.
LEMMA CommitOK ==
    ASSUME IInv, CInv, NEW c, CatOK(c), NEW pend \in Seq(MutationType), NEW dm, NEW df \in BOOLEAN,
           Sound /\ ~df => PendOK(c, pend), commitLocked(c, pend, dm, df)
    PROVE  /\ cat' = c /\ pending' = <<>> /\ dirtyMeta' = FALSE /\ dirtyFull' = FALSE
           /\ KeysOwned(docs') /\ Tidy(meta')
           /\ Free({"torn"}) => IxDistinct(meta')
           /\ Sound => IdsBelow(c, docs') /\ IdsBelow(meta', docs')
           /\ meta' = c \/ (~dm /\ pend = <<>> /\ ~df /\ UNCHANGED engine)
<1>1. cat' = c /\ pending' = <<>> /\ dirtyMeta' = FALSE /\ dirtyFull' = FALSE
  BY DEF commitLocked, clearPending
<1>2. DocsType(docs) /\ KeysOwned(docs)
  BY DEF IInv, TypeOK, CInv, EntriesOK
<1>3. CASE df /\ persistFullLocked(c)
  BY <1>1, <1>2, <1>3 DEF persistFullLocked, CatOK
<1>4. CASE ~df /\ persistPendingLocked(c, pend)
  <2>1. docs' = persistDocs(c, docs, pend) /\ meta' = c
    BY <1>4 DEF persistPendingLocked
  <2>2. c \in CatalogType /\ OwnRanges(c, docs)
    BY DEF CatOK
  <2>3. /\ KeysOwned(docs')
        /\ PendOK(c, pend) /\ IdsBelow(c, docs) => IdsBelow(c, docs')
    BY <1>2, <2>1, <2>2, PersistIds
  <2> QED
    BY <1>1, <1>4, <2>1, <2>3 DEF CatOK
<1>5. CASE ~df /\ ~dm /\ pend = <<>> /\ UNCHANGED engine
  <2>1. meta' = meta /\ docs' = docs
    BY <1>5 DEF engine
  <2>2. Tidy(meta) /\ (Free({"torn"}) => IxDistinct(meta)) /\ (Sound => IdsBelow(meta, docs))
    BY DEF CInv, EntriesOK, IndexesOK, IdsOK
  <2> QED
    BY <1>1, <1>2, <1>5, <2>1, <2>2 DEF CatOK
<1> QED
  BY <1>3, <1>4, <1>5 DEF commitLocked

\* The end of the process: what is stored is good for Open.
LEMMA DownOK ==
    ASSUME IInv, CInv, Down, Blame(DownFaults)
    PROVE  CInv'
<1>1. /\ up' = FALSE /\ owner' = "none" /\ job' = NoJob /\ saved' = NoTx /\ cat' = newState
      /\ pending' = <<>> /\ dirtyMeta' = FALSE /\ dirtyFull' = FALSE
      /\ meta' = meta /\ docs' = docs
  BY DEF Down, clearPending, engine
<1>2. NoJob.kind = "none" /\ NoJob # IndexJob
  BY DEF NoJob, IndexJob
<1>3. ControlOK'
  BY <1>1, <1>2 DEF ControlOK
<1>4. EntriesOK'
  BY <1>1, NewStateOK DEF EntriesOK, CInv
<1>5. IndexesOK'
  <2>1. SUFFICES ASSUME Free({"torn"})' PROVE IxBelow(meta, meta.next) /\ IxDistinct(meta)
    BY <1>1, <1>2, NewStateOK DEF IndexesOK
  <2>2. Free({"torn"}) /\ DownFaults \cap {"torn"} = {}
    BY <2>1, FreeBlame
  <2>3. ~\E x \in IndexDbids(meta) : x > meta.next
    BY <2>2 DEF DownFaults, If
  <2>4. meta \in CatalogType /\ meta.next \in Nat
    BY DEF IInv, TypeOK, CatalogType
  <2>5. \A n \in Names, p \in Paths : meta.cols[n].ix[p].dbid \in Nat
    BY <2>4, CatalogParts
  <2>6. IxBelow(meta, meta.next)
    BY <2>3, <2>4, <2>5 DEF IxBelow, IndexDbids
  <2> QED
    BY <2>2, <2>6 DEF CInv, IndexesOK
<1>6. FlagsOK'
  BY <1>1 DEF FlagsOK, NoTx
<1>7. IdsOK'
  <2>1. SUFFICES ASSUME Sound' PROVE IdsBelow(meta, docs) /\ KeysOwned(docs)
    <3>1. PendOK(newState, <<>>)
      BY DEF PendOK
    <3>2. ASSUME KeysOwned(docs) PROVE IdsBelow(newState, docs)
      BY <3>2, NewStateOK
    <3> QED
      BY <1>1, <1>2, <3>1, <3>2, NewStateOK DEF IdsOK, PendOK
  <2>2. Sound
    BY <2>1, FreeBlame DEF Sound
  <2> QED
    BY <2>2 DEF CInv, IdsOK, EntriesOK
<1>8. StoredOK'
  BY <1>1 DEF StoredOK
<1> QED
  BY <1>3, <1>4, <1>5, <1>6, <1>7, <1>8 DEF CInv

\* What is stored is what is in memory.
LEMMA BehindSame ==
    ASSUME NEW c \in CatalogType, NEW stored
    PROVE  Behind(c, c, stored)
BY CatalogParts DEF Behind

\* The end of a DB method.
LEMMA FinishCallOK ==
    ASSUME IInv, CInv, up, owner # "tx", NEW c, CatOK(c), NEW pend \in Seq(MutationType),
           Sound => PendOK(c, pend), FinishCall(c, pend)
    PROVE  CInv'
<1>1. /\ c \in CatalogType /\ dirtyFull \in BOOLEAN /\ saved = NoTx
      /\ NoTx.cat = newState /\ ~NoTx.dirtyMeta /\ ~NoTx.dirtyFull /\ NoTx.len = 0
      /\ NoJob.kind = "none" /\ NoJob # IndexJob
  BY DEF CatOK, IInv, TypeOK, CInv, ControlOK, NoTx, NoJob, IndexJob
<1>2. CASE /\ commitLocked(c, pend, TRUE, dirtyFull)
           /\ owner' = "none" /\ job' = NoJob
           /\ UNCHANGED <<saved, up, faults>>
  <2>1. /\ cat' = c /\ pending' = <<>> /\ dirtyMeta' = FALSE /\ dirtyFull' = FALSE
        /\ KeysOwned(docs') /\ Tidy(meta') /\ meta' = c
        /\ Free({"torn"}) => IxDistinct(meta')
        /\ Sound => IdsBelow(c, docs') /\ IdsBelow(meta', docs')
    BY <1>1, <1>2, CommitOK
  <2>2. ControlOK'
    BY <1>1, <1>2, <2>1 DEF ControlOK
  <2>3. EntriesOK'
    BY <1>1, <1>2, <2>1, NewStateOK DEF EntriesOK
  <2>4. IndexesOK'
    BY <1>1, <1>2, <2>1, NewStateOK DEF IndexesOK, CatOK, Free
  <2>5. FlagsOK'
    BY <1>1, <1>2, <2>1 DEF FlagsOK
  <2>6. IdsOK'
    <3>1. DOMAIN pending' = {} /\ IdsBelow(newState, docs')
      BY <2>1, NewStateOK
    <3>2. Sound' = Sound
      BY <1>2 DEF Sound, Free
    <3> QED
      BY <1>1, <1>2, <2>1, <3>1, <3>2 DEF IdsOK, PendOK
  <2>7. StoredOK'
    BY <1>1, <1>2, <2>1, BehindSame DEF StoredOK
  <2> QED
    BY <2>2, <2>3, <2>4, <2>5, <2>6, <2>7 DEF CInv
<1>3. CASE /\ cat' = c /\ pending' = pend /\ dirtyMeta' = TRUE
           /\ owner' = "none" /\ job' = NoJob
           /\ Blame({"abandoned"})
           /\ UNCHANGED <<engine, dirtyFull, saved, up>>
  <2>1. ~Sound' /\ ~Free({"abandoned", "leaked"})'
    BY <1>3 DEF Blame, Sound, Free
  <2>2. Free({"torn"})' => Free({"torn"})
    BY <1>3, FreeBlame
  <2>3. meta' = meta /\ docs' = docs /\ saved' = saved /\ up' = up
    BY <1>3 DEF engine
  <2>4. ControlOK'
    BY <1>1, <1>3, <2>3 DEF ControlOK
  <2>5. EntriesOK'
    BY <1>3, <2>3 DEF EntriesOK, CInv, CatOK
  <2>6. IndexesOK'
    BY <1>1, <1>3, <2>2, <2>3, NewStateOK DEF IndexesOK, CInv, CatOK
  <2> QED
    BY <2>1, <2>4, <2>5, <2>6 DEF CInv, FlagsOK, IdsOK, StoredOK
<1>4. CASE Panic(c, pend, dirtyFull)
  BY <1>4, DownOK DEF Panic
<1> QED
  BY <1>2, <1>3, <1>4 DEF FinishCall

\* The end of a Tx method: memory goes ahead of the engine.
LEMMA FinishTxOK ==
    ASSUME IInv, CInv, up, owner = "tx", NEW c, CatOK(c), NEW pend \in Seq(MutationType),
           NEW full \in BOOLEAN, Sound /\ ~dirtyFull /\ ~full => PendOK(c, pend),
           FinishTx(c, pend, full)
    PROVE  CInv'
<1>1. /\ c \in CatalogType /\ cat \in CatalogType /\ saved.cat \in CatalogType
      /\ NoJob.kind = "none" /\ NoJob # IndexJob /\ dirtyFull \in BOOLEAN
  BY DEF CatOK, IInv, TypeOK, CInv, NoJob, IndexJob
<1>2. /\ cat' = c /\ pending' = pend /\ dirtyMeta' = TRUE /\ dirtyFull' = (dirtyFull \/ full)
      /\ job' = NoJob /\ meta' = meta /\ docs' = docs /\ owner' = owner /\ saved' = saved /\ up' = up
  BY DEF FinishTx, engine
<1>3. \A X : Free(X)' => Free(X)
  BY DEF FinishTx, Blame, Free
<1>4. ControlOK'
  <2>1. saved.cat.next <= c.next
    BY <1>1 DEF CInv, ControlOK, CatOK, CatalogType
  <2> QED
    BY <1>1, <1>2, <2>1 DEF ControlOK
<1>5. EntriesOK'
  BY <1>2 DEF CInv, EntriesOK, CatOK
<1>6. IndexesOK'
  BY <1>1, <1>2, <1>3 DEF CInv, IndexesOK, CatOK
<1>7. FlagsOK'
  BY <1>2, <1>3 DEF CInv, FlagsOK, Sound
<1>8. IdsOK'
  BY <1>1, <1>2, <1>3 DEF CInv, IdsOK, CatOK, Sound
<1>9. StoredOK'
  BY <1>2, <1>3 DEF CInv, StoredOK, BuiltInTx
<1> QED
  BY <1>4, <1>5, <1>6, <1>7, <1>8, <1>9 DEF CInv

LEMMA FinishOK ==
    ASSUME IInv, CInv, up, NEW c, CatOK(c), NEW pend \in Seq(MutationType), NEW full \in BOOLEAN,
           Sound /\ ~dirtyFull /\ ~(owner = "tx" /\ full) => PendOK(c, pend), Finish(c, pend, full)
    PROVE  CInv'
<1>1. CASE owner = "tx"
  BY <1>1, FinishTxOK DEF Finish
<1>2. CASE owner # "tx"
  <2>1. Sound => ~dirtyFull
    BY <1>2 DEF CInv, FlagsOK
  <2>2. FinishCall(c, pend)
    BY <1>2 DEF Finish
  <2> QED
    BY <1>2, <2>1, <2>2, FinishCallOK
<1> QED
  BY <1>1, <1>2

\* An error return: at most empty collections and raised NextIDs stay.
LEMMA RefuseOK ==
    ASSUME IInv, CInv, Ready, NEW c, Quiet(cat, c), Refuse(c)
    PROVE  CInv'
<1>1. /\ up /\ job = NoJob /\ job # IndexJob /\ NoJob.kind = "none" /\ cat \in CatalogType
      /\ meta \in CatalogType /\ pending \in Seq(MutationType) /\ saved.cat \in CatalogType
  BY DEF Ready, IInv, TypeOK, NoJob, IndexJob
<1>2. /\ cat' = c /\ meta' = meta /\ docs' = docs /\ pending' = pending /\ dirtyMeta' = dirtyMeta
      /\ dirtyFull' = dirtyFull /\ owner' = owner /\ job' = job /\ saved' = saved /\ up' = up
      /\ faults' = faults
  BY DEF Refuse, engine, control
<1>3. /\ CatOK(c) /\ (PendOK(cat, pending) => PendOK(c, pending))
      /\ Behind(meta, cat, docs) => Behind(meta, c, docs)
  BY <1>1, HereOK, GrowOK DEF Quiet
<1>4. ControlOK'
  <2>1. owner = "tx" => saved.cat.next <= c.next
    BY <1>1, <1>3 DEF CInv, ControlOK, CatOK, CatalogType
  <2> QED
    BY <1>1, <1>2, <2>1 DEF CInv, ControlOK
<1>5. EntriesOK'
  BY <1>2, <1>3 DEF CInv, EntriesOK, CatOK
<1>6. IndexesOK'
  BY <1>1, <1>2, <1>3 DEF CInv, IndexesOK, CatOK, Free
<1>7. FlagsOK'
  BY <1>2 DEF CInv, FlagsOK, Sound, Free
<1>8. IdsOK'
  BY <1>1, <1>2, <1>3 DEF CInv, IdsOK, CatOK, Sound, Free
<1>9. StoredOK'
  BY <1>2, <1>3 DEF CInv, StoredOK, BuiltInTx, Free
<1> QED
  BY <1>4, <1>5, <1>6, <1>7, <1>8, <1>9 DEF CInv

----------------------------------------------------------------------------
(* Collection and document methods. *)

\* A buffered mutation is in order if it is a delete, or a put within NextID.
LEMMA AppendOK ==
    ASSUME NEW c \in CatalogType, NEW pend \in Seq(MutationType), PendOK(c, pend),
           NEW m \in MutationType,
           m.new # NoDoc => Exists(c, m.col) /\ m.id <= c.cols[m.col].nextId
    PROVE  PendOK(c, Append(pend, m))
<1>1. SUFFICES ASSUME NEW i \in DOMAIN Append(pend, m), Append(pend, m)[i].new # NoDoc
               PROVE  /\ Exists(c, Append(pend, m)[i].col)
                      /\ Append(pend, m)[i].id <= c.cols[Append(pend, m)[i].col].nextId
  BY DEF PendOK
<1>2. \/ i \in DOMAIN pend /\ Append(pend, m)[i] = pend[i]
      \/ Append(pend, m)[i] = m
  OBVIOUS
<1> QED
  BY <1>1, <1>2 DEF PendOK

\* A document that is found, stored or buffered, is within NextID.
LEMMA FoundBelow ==
    ASSUME IInv, NEW c, Sound => IdsBelow(c, docs), Sound, PendOK(c, pending), NEW n \in Names,
           NEW id \in Ids, OldDoc(c, n, id) # NoDoc \/ getDoc(docs, c.cols[n].dbid, id) # NoDoc
    PROVE  id <= c.cols[n].nextId
<1> DEFINE hits == Touches(pending, n, id)
<1>1. CASE getDoc(docs, c.cols[n].dbid, id) # NoDoc
  BY <1>1 DEF getDoc, IdsBelow, StoredIds
<1>2. CASE hits # {} /\ OldDoc(c, n, id) # NoDoc
  <2>1. pending \in Seq(MutationType) /\ hits \in SUBSET (1..Len(pending)) /\ Len(pending) \in Nat
    BY DEF IInv, TypeOK, Touches
  <2>2. Max(hits) \in hits
    BY <1>2, <2>1, LastPosition
  <2>3. pending[Max(hits)].new # NoDoc
    BY <1>2 DEF OldDoc, pendingDocState
  <2> QED
    BY <2>2, <2>3 DEF Touches, PendOK
<1>3. CASE hits = {} /\ OldDoc(c, n, id) # NoDoc
  BY <1>1, <1>3 DEF OldDoc, pendingDocState
<1> QED
  BY <1>1, <1>2, <1>3

\* What putLocked makes of the catalog and of the buffer.
LEMMA PutOK ==
    ASSUME IInv, NEW c \in CatalogType, CatOK(c), NEW n \in Names, NEW id \in Ids,
           NEW d \in MaybeDocs, Exists(c, n)
    PROVE  /\ CatOK(PutCat(c, n, id, d)) /\ Grow(c, PutCat(c, n, id, d))
           /\ PutPending(c, n, id, d) \in Seq(MutationType)
           /\ PendOK(c, pending) /\ id <= c.cols[n].nextId =>
                  PendOK(PutCat(c, n, id, d), PutPending(c, n, id, d))
<1> DEFINE old == OldDoc(c, n, id)
           e == PutCat(c, n, id, d)
           mut == Mutation(n, id, old, d)
<1>1. old \in MaybeDocs /\ pending \in Seq(MutationType)
  BY OldDocType DEF IInv, TypeOK
<1>2. mut \in MutationType /\ mut.col = n /\ mut.id = id
  BY <1>1 DEF Mutation, MutationType
<1> HIDE DEF mut, old
<1>3. Grow(c, e)
  BY <1>1, CountGrow DEF PutCat, old
<1> HIDE DEF e
<1>4. /\ CatOK(e)
      /\ \A pend \in Seq(MutationType) : PendOK(c, pend) => PendOK(e, pend)
  BY <1>3, GrowOK
<1>5. Append(pending, mut) \in Seq(MutationType)
  BY <1>1, <1>2
<1>6. ASSUME PendOK(c, pending), id <= c.cols[n].nextId
      PROVE  PendOK(c, Append(pending, mut))
  BY <1>1, <1>2, <1>6, AppendOK
<1> QED
  BY <1>3, <1>4, <1>5, <1>6 DEF PutPending, e, mut, old

\* putLocked on a catalog the method has already grown.
LEMMA PutLockedOK ==
    ASSUME IInv, CInv, Ready, NEW c, Grow(cat, c), NEW n \in Names, NEW id \in Ids,
           NEW d \in MaybeDocs, Exists(c, n), Sound /\ ~dirtyFull => id <= c.cols[n].nextId,
           NEW e, Quiet(cat, e), putLocked(c, n, id, d, e)
    PROVE  CInv'
<1>1. /\ up /\ job # IndexJob /\ cat \in CatalogType /\ c \in CatalogType
      /\ pending \in Seq(MutationType)
  BY DEF Ready, IInv, TypeOK, NoJob, IndexJob, Grow, GoodUpdate
<1>2. CatOK(c) /\ (PendOK(cat, pending) => PendOK(c, pending))
  BY <1>1, HereOK, GrowOK
<1>3. CASE Finish(PutCat(c, n, id, d), PutPending(c, n, id, d), FALSE)
  <2>1. /\ CatOK(PutCat(c, n, id, d)) /\ PutPending(c, n, id, d) \in Seq(MutationType)
        /\ PendOK(c, pending) /\ id <= c.cols[n].nextId =>
               PendOK(PutCat(c, n, id, d), PutPending(c, n, id, d))
    BY <1>1, <1>2, PutOK
  <2>2. Sound /\ ~dirtyFull => PendOK(PutCat(c, n, id, d), PutPending(c, n, id, d))
    BY <1>2, <2>1 DEF CInv, IdsOK
  <2> HIDE DEF CInv
  <2> QED
    BY <1>1, <1>3, <2>1, <2>2, FinishOK
<1>4. CASE Refuse(e)
  BY <1>4, RefuseOK
<1> QED
  BY <1>3, <1>4 DEF putLocked

LEMMA EnsureCollectionOK ==
    ASSUME IInv, CInv, NEW n \in Names, EnsureCollection(n)
    PROVE  CInv'
<1> DEFINE c == ensureCollection(cat, n)
<1>1. /\ up /\ job # IndexJob /\ cat \in CatalogType /\ pending \in Seq(MutationType)
      /\ Finish(c, pending, FALSE)
  BY DEF EnsureCollection, Ready, IInv, TypeOK, NoJob, IndexJob
<1>2. Grow(cat, c)
  BY <1>1, EnsureQuiet
<1> HIDE DEF c
<1>3. CatOK(c) /\ (PendOK(cat, pending) => PendOK(c, pending))
  BY <1>1, <1>2, HereOK, GrowOK
<1>4. Sound /\ ~dirtyFull => PendOK(c, pending)
  BY <1>3 DEF CInv, IdsOK
<1> QED
  BY <1>1, <1>3, <1>4, FinishOK

LEMMA PutActionsOK ==
    ASSUME IInv, CInv, NEW n \in Names, NEW id \in Ids, NEW d \in MaybeDocs,
           PutNew(n, d) \/ Put(n, id, d) \/ Patch(n, id, d) \/ MergeOrPut(n, id, d)
    PROVE  CInv'
<1> DEFINE c == ensureCollection(cat, n)
<1>1. cat \in CatalogType /\ pending \in Seq(MutationType)
  BY DEF IInv, TypeOK
<1>2. Ready /\ up /\ job # IndexJob
  BY DEF PutNew, Put, Patch, MergeOrPut, Ready, NoJob, IndexJob
<1>3. Quiet(cat, c) /\ Grow(cat, c) /\ Exists(c, n) /\ c \in CatalogType
  BY <1>1, EnsureQuiet DEF Grow, GoodUpdate
<1>4. PutNew(n, d) => \E k \in Ids : putLocked(RaiseNextId(c, n, k), n, k, d, c)
  BY DEF PutNew
<1>5. Put(n, id, d) => putLocked(RaiseNextId(c, n, id), n, id, d, RaiseNextId(c, n, id))
  BY DEF Put
<1>6. MergeOrPut(n, id, d) =>
         \/ putLocked(RaiseNextId(c, n, id), n, id, d, RaiseNextId(c, n, id))
         \/ Lookup(c, n, id) # NoDoc /\ putLocked(c, n, id, d, c)
  BY DEF MergeOrPut
<1>7. CatOK(cat)
  BY <1>2, HereOK
<1> HIDE DEF c
<1>8. CatOK(c) /\ (PendOK(cat, pending) => PendOK(c, pending))
  BY <1>1, <1>3, <1>7, GrowOK
<1>9. ASSUME NEW k \in Ids
      PROVE  LET r == RaiseNextId(c, n, k)
             IN  Quiet(cat, r) /\ Grow(cat, r) /\ Exists(r, n) /\ k <= r.cols[n].nextId
  <2> DEFINE r == RaiseNextId(c, n, k)
  <2>1. Quiet(c, r) /\ Grow(c, r) /\ Exists(r, n) /\ k <= r.cols[n].nextId
    BY <1>3, RaiseQuiet
  <2> HIDE DEF r
  <2>2. Quiet(cat, r) /\ Grow(cat, r)
    BY <1>1, <1>3, <1>7, <2>1, QuietTrans, GrowTrans DEF CatOK
  <2> QED
    BY <2>1, <2>2 DEF r
<1>10. ASSUME NEW b, Lookup(b, n, id) # NoDoc, CatOK(b), PendOK(cat, pending) => PendOK(b, pending),
              Sound, ~dirtyFull
       PROVE  id <= b.cols[n].nextId
  <2>1. OldDoc(b, n, id) # NoDoc \/ getDoc(docs, b.cols[n].dbid, id) # NoDoc
    BY <1>10 DEF Lookup
  <2>2. PendOK(b, pending) /\ IdsBelow(b, docs)
    BY <1>10 DEF CInv, IdsOK, CatOK
  <2> QED
    BY <1>10, <2>1, <2>2, FoundBelow
<1>11. CASE PutNew(n, d)
  BY <1>2, <1>3, <1>4, <1>9, <1>11, PutLockedOK
<1>12. ASSUME putLocked(RaiseNextId(c, n, id), n, id, d, RaiseNextId(c, n, id)) PROVE CInv'
  BY <1>2, <1>9, <1>12, PutLockedOK
<1>13. CASE Lookup(c, n, id) # NoDoc /\ putLocked(c, n, id, d, c)
  <2>1. Sound /\ ~dirtyFull => id <= c.cols[n].nextId
    BY <1>8, <1>10, <1>13
  <2> QED
    BY <1>2, <1>3, <1>13, <2>1, PutLockedOK
<1>14. CASE Patch(n, id, d)
  <2>1. Exists(cat, n) /\ Lookup(cat, n, id) # NoDoc /\ putLocked(cat, n, id, d, cat)
    BY <1>14 DEF Patch
  <2>2. Sound /\ ~dirtyFull => id <= cat.cols[n].nextId
    BY <1>7, <1>10, <2>1
  <2>3. Quiet(cat, cat) /\ Grow(cat, cat)
    BY <1>1, GrowSame
  <2> QED
    BY <1>2, <2>1, <2>2, <2>3, PutLockedOK
<1> QED
  BY <1>5, <1>6, <1>11, <1>12, <1>13, <1>14

LEMMA DeleteOK ==
    ASSUME IInv, CInv, NEW n \in Names, NEW id \in Ids, Delete(n, id)
    PROVE  CInv'
<1> DEFINE old == Lookup(cat, n, id)
           c == CountDelete(cat, n, old)
           mut == Mutation(n, id, old, NoDoc)
<1>1. /\ up /\ job # IndexJob /\ cat \in CatalogType /\ pending \in Seq(MutationType)
      /\ Exists(cat, n) /\ Finish(c, Append(pending, mut), FALSE)
  BY DEF Delete, Ready, IInv, TypeOK, NoJob, IndexJob
<1>2. old \in MaybeDocs /\ NoDoc \in MaybeDocs
  BY OldDocType DEF IInv, TypeOK, MaybeDocs
<1>3. mut \in MutationType /\ mut.new = NoDoc
  BY <1>2 DEF Mutation, MutationType
<1> HIDE DEF old, mut
<1>4. Grow(cat, c)
  BY <1>1, <1>2, CountGrow
<1> HIDE DEF c
<1>5. /\ CatOK(c) /\ c \in CatalogType
      /\ \A pend \in Seq(MutationType) : PendOK(cat, pend) => PendOK(c, pend)
  BY <1>1, <1>4, HereOK, GrowOK DEF CatOK
<1>6. Append(pending, mut) \in Seq(MutationType)
  BY <1>1, <1>3
<1>7. Sound /\ ~dirtyFull => PendOK(c, Append(pending, mut))
  <2>1. Sound /\ ~dirtyFull => PendOK(c, pending)
    BY <1>1, <1>5 DEF CInv, IdsOK
  <2> QED
    BY <1>1, <1>3, <1>5, <2>1, AppendOK
<1> QED
  BY <1>1, <1>5, <1>6, <1>7, FinishOK

\* Nothing is buffered when no call and no transaction is running.
LEMMA RestEmpty ==
    ASSUME IInv, CInv, job = NoJob, owner # "tx"
    PROVE  /\ owner = "none" /\ saved = NoTx
           /\ Sound => pending = <<>> /\ ~dirtyMeta /\ ~dirtyFull
BY DEF IInv, TypeOK, CInv, ControlOK, FlagsOK

\* RemoveCollection's and RemoveIndex's own batch.
LEMMA DropOK ==
    ASSUME IInv, CInv, Ready, owner = "none", NEW c, CatOK(c), NEW left, NEW xs, KeysOwned(left),
           Sound => IdsBelow(c, left), dropAndCommitLocked(c, left, xs)
    PROVE  CInv'
<1>1. /\ up /\ job = NoJob /\ job # IndexJob /\ job.kind # "query" /\ c \in CatalogType
      /\ saved = NoTx /\ (Sound => pending = <<>> /\ ~dirtyMeta /\ ~dirtyFull)
  BY RestEmpty DEF Ready, NoJob, IndexJob, CatOK
<1>2. /\ cat' = c /\ pending' = pending /\ dirtyMeta' = dirtyMeta /\ dirtyFull' = dirtyFull
      /\ owner' = owner /\ job' = job /\ saved' = saved /\ up' = up
  BY DEF dropAndCommitLocked, control
<1>3. NoTx.cat = newState /\ IdsBelow(newState, left) /\ Tidy(newState)
  BY NewStateOK
<1>4. ControlOK'
  BY <1>1, <1>2 DEF ControlOK
<1>5. CASE meta' = c /\ docs' = left /\ UNCHANGED faults
  <2>1. EntriesOK'
    BY <1>1, <1>2, <1>3, <1>5 DEF EntriesOK, CatOK
  <2>2. IndexesOK'
    BY <1>1, <1>2, <1>5 DEF CInv, IndexesOK, CatOK, Free
  <2>3. FlagsOK'
    BY <1>1, <1>2, <1>5 DEF CInv, FlagsOK, Sound, Free
  <2>4. IdsOK'
    <3>1. Sound' = Sound
      BY <1>5 DEF Sound, Free
    <3>2. PendOK(c, <<>>)
      BY DEF PendOK
    <3> QED
      BY <1>1, <1>2, <1>3, <1>5, <3>1, <3>2 DEF IdsOK
  <2>5. StoredOK'
    BY <1>1, <1>2, <1>5, BehindSame DEF StoredOK
  <2> QED
    BY <1>4, <2>1, <2>2, <2>3, <2>4, <2>5 DEF CInv
<1>6. CASE Blame({"abandoned"}) /\ UNCHANGED engine
  <2>1. meta' = meta /\ docs' = docs
    BY <1>6 DEF engine
  <2>2. ~Sound' /\ ~Free({"abandoned", "leaked"})'
    BY <1>6 DEF Blame, Sound, Free
  <2>3. Free({"torn"})' => Free({"torn"})
    BY <1>6, FreeBlame
  <2>4. EntriesOK'
    BY <1>2, <2>1 DEF CInv, EntriesOK, CatOK
  <2>5. IndexesOK'
    BY <1>1, <1>2, <2>1, <2>3 DEF CInv, IndexesOK, CatOK
  <2> QED
    BY <1>4, <2>2, <2>4, <2>5 DEF CInv, FlagsOK, IdsOK, StoredOK
<1> QED
  BY <1>5, <1>6 DEF dropAndCommitLocked

LEMMA RemoveActionOK ==
    ASSUME IInv, CInv, NEW n \in Names, RemoveCollection(n)
    PROVE  CInv'
<1> DEFINE c == removeCollection(cat, n)
           left == dropDocs(docs, cat.cols[n].dbid)
<1>1. Ready /\ up /\ job # IndexJob /\ pending \in Seq(MutationType)
  BY DEF RemoveCollection, Ready, NoJob, IndexJob, IInv, TypeOK
<1>2. CatOK(c) /\ KeysOwned(docs)
  BY <1>1, HereOK, RemoveCollectionOK DEF CInv, EntriesOK
<1>3. \/ owner = "none" /\ dropAndCommitLocked(c, left, IndexDbidsOf(cat, n))
      \/ owner = "tx" /\ FinishTx(c, pending, TRUE)
  BY DEF RemoveCollection
<1>4. DOMAIN left \subseteq DOMAIN docs
  BY DEF dropDocs
<1> HIDE DEF c, left
<1>5. KeysOwned(left) /\ (Sound => IdsBelow(c, left))
  BY <1>2, <1>4 DEF KeysOwned, IdsBelow, CatOK, StoredIds
<1>6. CASE owner = "none" /\ dropAndCommitLocked(c, left, IndexDbidsOf(cat, n))
  BY <1>1, <1>2, <1>5, <1>6, DropOK
<1>7. CASE owner = "tx" /\ FinishTx(c, pending, TRUE)
  BY <1>1, <1>2, <1>7, FinishTxOK
<1> QED
  BY <1>3, <1>6, <1>7

LEMMA RemoveIndexActionOK ==
    ASSUME IInv, CInv, NEW n \in Names, NEW p \in Paths, RemoveIndex(n, p)
    PROVE  CInv'
<1> DEFINE c == removeIndex(cat, n, p)
<1>1. Ready /\ up /\ job # IndexJob /\ pending \in Seq(MutationType) /\ p \in Indexed(cat, n)
  BY DEF RemoveIndex, Ready, NoJob, IndexJob, IInv, TypeOK
<1>2. CatOK(c) /\ KeysOwned(docs)
  BY <1>1, HereOK, RemoveIndexOK DEF CInv, EntriesOK
<1>3. \/ owner = "none" /\ dropAndCommitLocked(c, docs, {cat.cols[n].ix[p].dbid})
      \/ owner = "tx" /\ FinishTx(c, pending, TRUE)
  BY DEF RemoveIndex
<1> HIDE DEF c
<1>4. CASE owner = "none" /\ dropAndCommitLocked(c, docs, {cat.cols[n].ix[p].dbid})
  BY <1>1, <1>2, <1>4, DropOK DEF CatOK
<1>5. CASE owner = "tx" /\ FinishTx(c, pending, TRUE)
  BY <1>1, <1>2, <1>5, FinishTxOK
<1> QED
  BY <1>3, <1>4, <1>5

LEMMA RenameActionOK ==
    ASSUME IInv, CInv, NEW n \in Names, NEW m \in Names, RenameCollection(n, m)
    PROVE  CInv'
<1> DEFINE c == renameCollection(cat, n, m)
<1>1. /\ up /\ job = NoJob /\ job # IndexJob /\ pending \in Seq(MutationType)
      /\ n # m /\ ~Exists(cat, m) /\ Finish(c, pending, TRUE)
  BY DEF RenameCollection, Ready, NoJob, IndexJob, IInv, TypeOK
<1>2. CatOK(c)
  BY <1>1, HereOK, RenameCollectionOK DEF CInv
<1> HIDE DEF c
<1>3. Sound /\ ~(owner = "tx" /\ TRUE) => PendOK(c, pending)
  BY <1>1, RestEmpty DEF PendOK
<1> QED
  BY <1>1, <1>2, <1>3, FinishOK

----------------------------------------------------------------------------
(* Indexes. *)

\* The catalog of EnsureIndex's first batch: the new index is above the counter.
LEMMA BuiltOK ==
    ASSUME IInv, NEW c \in CatalogType, CatOK(c), NEW n \in Names, NEW p \in Paths, Exists(c, n),
           NEW x \in IndexType, x.dbid = c.next + 1, p \notin Indexed(c, n)
    PROVE  LET built == [c EXCEPT !.cols[n].ix[p] = x]
           IN  /\ built \in CatalogType /\ built.next = c.next /\ Tidy(built)
               /\ Free({"torn"}) => IxDistinct(built) /\ IxBelow(built, built.next + 1)
               /\ Sound => IdsBelow(built, docs)
               /\ \A pend \in Seq(MutationType) : PendOK(c, pend) => PendOK(built, pend)
               /\ c.next + 1 \in IndexDbids(built)
<1> DEFINE built == [c EXCEPT !.cols[n].ix[p] = x]
           col == [c.cols[n] EXCEPT !.ix[p] = x]
<1>1. /\ c.next \in Nat /\ c.cols \in [Names -> CollectionType]
      /\ c.cols[n] \in CollectionType /\ c.cols[n].ix \in [Paths -> IndexType]
  BY CatalogParts DEF CatalogType
<1>2. /\ col.dbid = c.cols[n].dbid /\ col.nextId = c.cols[n].nextId
      /\ \A q \in Paths : col.ix[q] = IF q = p THEN x ELSE c.cols[n].ix[q]
  BY <1>1 DEF CollectionType
<1>3. built \in CatalogType
  BY <1>1, IndexEntryGood DEF GoodUpdate
<1>4. /\ built.next = c.next /\ built.cols[n] = col
      /\ \A m \in Names \ {n} : built.cols[m] = c.cols[m]
  BY <1>1 DEF CatalogType
<1> HIDE DEF built, col
<1>5. \A m \in Names : /\ built.cols[m].dbid = c.cols[m].dbid /\ built.cols[m].nextId = c.cols[m].nextId
                       /\ \A q \in Paths : built.cols[m].ix[q] = IF m = n /\ q = p THEN x ELSE c.cols[m].ix[q]
  BY <1>2, <1>4
<1>6. Tidy(built)
  BY <1>4, <1>5 DEF Tidy, CatOK, Exists
<1>7. \A m \in Names, q \in Paths : c.cols[m].ix[q].dbid \in Nat
  BY CatalogParts
<1>8. ASSUME Free({"torn"}) PROVE IxDistinct(built) /\ IxBelow(built, built.next + 1)
  <2>1. IxDistinct(c) /\ \A m \in Names, q \in Paths : c.cols[m].ix[q].dbid <= c.next
    BY <1>8 DEF CatOK, IxBelow
  <2>2. \A m \in Names, q \in Paths :
           built.cols[m].ix[q].dbid = IF m = n /\ q = p THEN c.next + 1 ELSE c.cols[m].ix[q].dbid
    BY <1>5
  <2>3. IxBelow(built, built.next + 1)
    BY <1>1, <1>4, <1>7, <2>1, <2>2 DEF IxBelow
  <2>4. ASSUME NEW m \in Names, NEW k \in Names, NEW q \in Indexed(built, m), NEW r \in Indexed(built, k),
               built.cols[m].ix[q].dbid = built.cols[k].ix[r].dbid
        PROVE  m = k /\ q = r
    <3>1. q \in Paths /\ r \in Paths
      BY DEF Indexed
    <3>2. CASE m = n /\ q = p
      BY <1>1, <1>7, <2>1, <2>2, <2>4, <3>1, <3>2
    <3>3. CASE k = n /\ r = p
      BY <1>1, <1>7, <2>1, <2>2, <2>4, <3>1, <3>3
    <3>4. CASE ~(m = n /\ q = p) /\ ~(k = n /\ r = p)
      <4>1. /\ built.cols[m].ix[q].dbid = c.cols[m].ix[q].dbid
            /\ built.cols[k].ix[r].dbid = c.cols[k].ix[r].dbid
        BY <2>2, <3>1, <3>4
      <4>2. q \in Indexed(c, m) /\ r \in Indexed(c, k)
        BY <3>1, <4>1 DEF Indexed
      <4>3. c.cols[m].ix[q].dbid = c.cols[k].ix[r].dbid
        BY <2>4, <4>1
      <4> QED
        BY <2>1, <4>2, <4>3 DEF IxDistinct
    <3> QED
      BY <3>2, <3>3, <3>4
  <2> QED
    BY <2>3, <2>4 DEF IxDistinct
<1>9. Sound => IdsBelow(built, docs)
  BY <1>5 DEF CatOK, IdsBelow
<1>10. ASSUME NEW pend \in Seq(MutationType), PendOK(c, pend) PROVE PendOK(built, pend)
  <2>1. \A i \in DOMAIN pend : pend[i] \in MutationType
    OBVIOUS
  <2>2. \A i \in DOMAIN pend : pend[i].col \in Names
    BY <2>1 DEF MutationType
  <2> QED
    BY <1>5, <1>10, <2>2 DEF PendOK, Exists
<1>11. c.next + 1 \in IndexDbids(built)
  BY <1>1, <1>5 DEF IndexDbids
<1> QED
  BY <1>3, <1>4, <1>6, <1>8, <1>9, <1>10, <1>11 DEF built

LEMMA EnsureIndexOK ==
    ASSUME IInv, CInv, NEW n \in Names, NEW p \in Paths, NEW unique \in BOOLEAN,
           EnsureIndex(n, p, unique)
    PROVE  CInv'
<1> DEFINE c == ensureCollection(cat, n)
           entries == IndexEntries(docs, c.cols[n].dbid, p)
           x == [dbid |-> c.next + 1, unique |-> unique, rnum |-> Cardinality(entries)]
           built == [c EXCEPT !.cols[n].ix[p] = x]
<1>1. /\ Ready /\ up /\ job = NoJob /\ job # IndexJob /\ cat \in CatalogType
      /\ pending \in Seq(MutationType) /\ p \notin Indexed(c, n)
  BY DEF EnsureIndex, Ready, IInv, TypeOK, NoJob, IndexJob
<1>2. Quiet(cat, c) /\ Grow(cat, c) /\ Exists(c, n) /\ c \in CatalogType
  BY <1>1, EnsureQuiet DEF Grow, GoodUpdate
<1>3. \/ /\ cat' = built /\ meta' = built /\ docs' = docs /\ job' = IndexJob
         /\ owner' = IF owner = "tx" THEN "tx" ELSE "call"
         /\ Blame(If(owner = "tx", "ddl"))
         /\ UNCHANGED <<pending, dirtyMeta, dirtyFull, saved, up>>
      \/ Refuse(c)
  BY DEF EnsureIndex
<1>4. x \in IndexType /\ x.dbid = c.next + 1
  <2>1. Cardinality(entries) \in Nat
    BY BuildGood DEF IInv, TypeOK
  <2>2. c.next + 1 \in Nat
    BY <1>2 DEF CatalogType
  <2> QED
    BY <2>1, <2>2 DEF IndexType
<1> HIDE DEF c, x
<1>5. CatOK(c) /\ (PendOK(cat, pending) => PendOK(c, pending))
  BY <1>1, <1>2, HereOK, GrowOK
<1>6. CASE Refuse(c)
  BY <1>1, <1>2, <1>6, RefuseOK
<1>7. CASE /\ cat' = built /\ meta' = built /\ docs' = docs /\ job' = IndexJob
           /\ owner' = IF owner = "tx" THEN "tx" ELSE "call"
           /\ Blame(If(owner = "tx", "ddl"))
           /\ UNCHANGED <<pending, dirtyMeta, dirtyFull, saved, up>>
  <2>1. /\ built \in CatalogType /\ built.next = c.next /\ Tidy(built)
        /\ Free({"torn"}) => IxDistinct(built) /\ IxBelow(built, built.next + 1)
        /\ Sound => IdsBelow(built, docs)
        /\ \A pend \in Seq(MutationType) : PendOK(c, pend) => PendOK(built, pend)
        /\ c.next + 1 \in IndexDbids(built)
    BY <1>1, <1>2, <1>4, <1>5, BuiltOK
  <2> HIDE DEF built
  <2>2. \A X : Free(X)' => Free(X)
    BY <1>7 DEF Blame, Free
  <2>3. IndexJob.kind = "index"
    BY DEF IndexJob
  <2>4. owner = "tx" => saved.cat.next <= c.next /\ c.next + 1 > saved.cat.next
    <3>1. saved.cat \in CatalogType
      BY DEF IInv, TypeOK
    <3>2. cat.next \in Nat /\ c.next \in Nat /\ saved.cat.next \in Nat
      BY <1>1, <1>2, <3>1 DEF CatalogType
    <3>3. cat.next <= c.next
      BY <1>5 DEF CatOK
    <3> QED
      BY <3>2, <3>3 DEF CInv, ControlOK
  <2>5. ControlOK'
    BY <1>1, <1>7, <2>1, <2>3, <2>4 DEF CInv, ControlOK
  <2>6. EntriesOK'
    BY <1>7, <2>1 DEF CInv, EntriesOK
  <2>7. IndexesOK'
    BY <1>1, <1>7, <2>1, <2>2 DEF CInv, IndexesOK
  <2>8. FlagsOK'
    <3>1. Sound' => Sound
      BY <2>2 DEF Sound
    <3>2. Sound /\ owner # "tx" => pending = <<>> /\ ~dirtyMeta /\ ~dirtyFull
      BY <1>1, RestEmpty
    <3> QED
      BY <1>7, <3>1, <3>2 DEF CInv, FlagsOK
  <2>9. IdsOK'
    <3>1. Sound' => Sound
      BY <2>2 DEF Sound
    <3>2. Sound /\ ~dirtyFull => PendOK(built, pending)
      BY <1>1, <1>5, <2>1 DEF CInv, IdsOK
    <3> QED
      BY <1>7, <2>1, <2>3, <3>1, <3>2 DEF CInv, IdsOK
  <2>10. StoredOK'
    <3>1. owner' = "tx" => BuiltInTx'
      BY <1>7, <2>1, <2>4 DEF BuiltInTx
    <3> QED
      BY <1>7, <3>1 DEF StoredOK
  <2> QED
    BY <2>5, <2>6, <2>7, <2>8, <2>9, <2>10 DEF CInv
<1> QED
  BY <1>3, <1>6, <1>7

\* EnsureIndex's second batch brings the counter up to the new index.
LEMMA AdvanceOK ==
    ASSUME IInv, CInv, up, job = IndexJob
    PROVE  LET c == [cat EXCEPT !.next = @ + 1]
           IN  CatOK(c) /\ c.cols = cat.cols
<1> DEFINE c == [cat EXCEPT !.next = @ + 1]
<1>1. /\ cat \in CatalogType /\ cat.next \in Nat /\ OwnRanges(cat, docs) /\ DocsType(docs)
  BY DEF IInv, TypeOK, CatalogType, CollectionsDisjoint
<1>2. GoodUpdate(cat, c) /\ c.next = cat.next + 1 /\ c.cols = cat.cols
  BY <1>1, AdvanceGood DEF CatalogType
<1> HIDE DEF c
<1>3. c \in CatalogType /\ OwnRanges(c, docs) /\ cat.next <= c.next
  <2>1. c \in CatalogType /\ OwnRanges(c, docs)
    BY <1>1, <1>2 DEF GoodUpdate
  <2> QED
    BY <1>1, <1>2, <2>1
<1>4. Tidy(c)
  BY <1>2 DEF CInv, EntriesOK, Tidy, Exists
<1>5. Free({"torn"}) => IxDistinct(c) /\ IxBelow(c, c.next)
  BY <1>1, <1>2 DEF CInv, IndexesOK, IxDistinct, IxBelow, Indexed
<1>6. Sound => IdsBelow(c, docs)
  BY <1>2 DEF CInv, IdsOK, IdsBelow
<1> QED
  BY <1>2, <1>3, <1>4, <1>5, <1>6 DEF CatOK, c

LEMMA EnsureIndexDoneOK ==
    ASSUME IInv, CInv, EnsureIndexDone
    PROVE  CInv'
<1> DEFINE c == [cat EXCEPT !.next = @ + 1]
<1>1. /\ up /\ job = IndexJob /\ pending \in Seq(MutationType) /\ Finish(c, pending, TRUE)
  BY DEF EnsureIndexDone, IInv, TypeOK
<1>2. CatOK(c) /\ c.cols = cat.cols
  BY <1>1, AdvanceOK
<1> HIDE DEF c
<1>3. Sound /\ ~dirtyFull => PendOK(c, pending)
  BY <1>2 DEF CInv, IdsOK, PendOK, Exists
<1> QED
  BY <1>1, <1>2, <1>3, FinishOK

----------------------------------------------------------------------------
(* Queries. *)

LEMMA QueryBeginOK ==
    ASSUME IInv, CInv, NEW n \in Names, NEW act \in Acts, QueryBegin(n, act)
    PROVE  CInv'
<1> DEFINE c == IF act = "upsert" THEN ensureCollection(cat, n) ELSE cat
<1>1. /\ Ready /\ up /\ job = NoJob /\ job # IndexJob /\ cat \in CatalogType /\ meta \in CatalogType
      /\ pending \in Seq(MutationType) /\ saved.cat \in CatalogType
  BY DEF QueryBegin, Ready, IInv, TypeOK, NoJob, IndexJob
<1>2. Quiet(cat, c)
  BY <1>1, EnsureQuiet, GrowSame
<1>3. /\ Exists(c, n) /\ cat' = c /\ owner' = IF owner = "tx" THEN "tx" ELSE "call"
      /\ UNCHANGED <<engine, pending, dirtyMeta, dirtyFull, saved, up>>
  BY DEF QueryBegin
<1>4. PICK w \in (IF Exists(cat, n) THEN Windows(n) ELSE {<<>>}) :
         /\ job' = [kind |-> "query", col |-> n, act |-> act,
                    todo |-> [i \in DOMAIN w |-> [id |-> w[i], doc |-> OldDoc(cat, n, w[i])]],
                    empty |-> w = <<>>, changed |-> FALSE]
         /\ Blame(If(\E id \in Ids : Occurrences(w, id) > 1, "repeated"))
  BY DEF QueryBegin
<1> HIDE DEF c
<1>5. meta' = meta /\ docs' = docs
  BY <1>3 DEF engine
<1>6. \A X : Free(X)' => Free(X)
  BY <1>4 DEF Blame, Free
<1>7. /\ CatOK(c) /\ c \in CatalogType /\ (PendOK(cat, pending) => PendOK(c, pending))
      /\ Exists(cat, n) => cat.cols[n].nextId <= c.cols[n].nextId
      /\ Behind(meta, cat, docs) => Behind(meta, c, docs)
  BY <1>1, <1>2, HereOK, GrowOK DEF Quiet, CatOK
<1>8. /\ job'.kind = "query" /\ job'.col = n /\ job' # IndexJob /\ DOMAIN job'.todo = DOMAIN w
      /\ \A i \in DOMAIN w : job'.todo[i].id = w[i]
  BY <1>4 DEF IndexJob
<1>9. Sound /\ ~dirtyFull => \A i \in DOMAIN w : w[i] <= c.cols[n].nextId
  <2>1. SUFFICES ASSUME Sound, ~dirtyFull, NEW i \in DOMAIN w PROVE w[i] <= c.cols[n].nextId
    OBVIOUS
  <2>2. CASE ~Exists(cat, n)
    BY <1>4, <2>1, <2>2
  <2>3. CASE Exists(cat, n)
    <3>1. w \in Windows(n)
      BY <1>4, <2>3
    <3>2. PICK k \in 0..(MaxPending - Len(pending)) : w \in [1..k -> scanDocumentIDs(n)]
      BY <3>1 DEF Windows
    <3>3. w[i] \in scanDocumentIDs(n)
      BY <2>1, <3>2
    <3>4. w[i] \in Ids /\ OldDoc(cat, n, w[i]) # NoDoc
      BY <3>3, ScannedDoc, NoDocAssumption
    <3>5. PendOK(cat, pending) /\ IdsBelow(cat, docs)
      BY <2>1 DEF CInv, IdsOK
    <3>6. w[i] <= cat.cols[n].nextId
      BY <2>1, <3>4, <3>5, FoundBelow
    <3>7. w[i] \in Int /\ cat.cols[n].nextId \in Nat /\ c.cols[n].nextId \in Nat
      BY <1>1, <1>7, <3>4, IdsAssumption, CatalogParts
    <3> QED
      BY <1>7, <2>3, <3>6, <3>7
  <2> QED
    BY <2>2, <2>3
<1>10. ControlOK'
  <2>1. owner = "tx" => saved.cat.next <= c.next
    BY <1>1, <1>7 DEF CInv, ControlOK, CatOK, CatalogType
  <2> QED
    BY <1>1, <1>3, <1>8, <2>1 DEF CInv, ControlOK
<1>11. EntriesOK'
  BY <1>3, <1>5, <1>7 DEF CInv, EntriesOK, CatOK
<1>12. IndexesOK'
  BY <1>1, <1>3, <1>5, <1>6, <1>7, <1>8 DEF CInv, IndexesOK, CatOK
<1>13. FlagsOK'
  <2>1. Sound' => Sound
    BY <1>6 DEF Sound
  <2>2. Sound /\ owner # "tx" => ~dirtyMeta /\ ~dirtyFull
    BY <1>1, RestEmpty
  <2> QED
    BY <1>3, <2>1, <2>2 DEF CInv, FlagsOK
<1>14. IdsOK'
  <2>1. Sound' => Sound
    BY <1>6 DEF Sound
  <2>2. Sound /\ ~dirtyFull => PendOK(c, pending)
    BY <1>7 DEF CInv, IdsOK
  <2> QED
    BY <1>3, <1>5, <1>7, <1>8, <1>9, <2>1, <2>2 DEF CInv, IdsOK, CatOK
<1>15. StoredOK'
  BY <1>1, <1>3, <1>5, <1>6, <1>7 DEF CInv, StoredOK, BuiltInTx
<1> QED
  BY <1>10, <1>11, <1>12, <1>13, <1>14, <1>15 DEF CInv

\* One document of the window, or the document upsert inserts.
LEMMA QueryStepOK ==
    ASSUME IInv, CInv, up, job \in QueryJobs, NEW c, Grow(cat, c), NEW pend \in Seq(MutationType),
           Sound /\ ~dirtyFull => PendOK(c, pend),
           NEW todo, \A i \in DOMAIN todo : \E j \in DOMAIN job.todo : todo[i] = job.todo[j],
           QueryStep(c, pend, todo)
    PROVE  CInv'
<1>1. /\ cat \in CatalogType /\ saved.cat \in CatalogType /\ job.col \in Names /\ job.kind = "query"
      /\ owner # "none" /\ job # IndexJob /\ job.todo \in Seq(Hit)
  BY DEF IInv, TypeOK, QueryJobs, NoJob, IndexJob
<1>2. /\ cat' = c /\ pending' = pend /\ dirtyMeta' = TRUE /\ dirtyFull' = dirtyFull /\ owner' = owner
      /\ saved' = saved /\ up' = up /\ meta' = meta /\ docs' = docs
  BY DEF QueryStep, engine
<1>3. /\ job'.kind = "query" /\ job'.col = job.col /\ job'.todo = todo /\ job'.changed = TRUE
      /\ job' # IndexJob
  BY DEF QueryStep, QueryJobs, IndexJob
<1>4. \A X : Free(X)' => Free(X)
  BY DEF QueryStep, Blame, Free
<1>5. CatOK(c) /\ c \in CatalogType
  BY <1>1, HereOK, GrowOK DEF CatOK
<1>6. Exists(cat, job.col)
  BY <1>1 DEF CInv, ControlOK
<1>7. Exists(c, job.col) /\ cat.cols[job.col].nextId <= c.cols[job.col].nextId
  BY <1>1, <1>6, HereOK, GrowOK
<1>8. Sound /\ ~dirtyFull => \A i \in DOMAIN todo : todo[i].id <= c.cols[job.col].nextId
  <2>1. SUFFICES ASSUME Sound, ~dirtyFull, NEW i \in DOMAIN todo
                 PROVE  todo[i].id <= c.cols[job.col].nextId
    OBVIOUS
  <2>2. PICK j \in DOMAIN job.todo : todo[i] = job.todo[j]
    OBVIOUS
  <2>3. job.todo[j] \in Hit
    BY <1>1
  <2>4. todo[i].id \in Int /\ cat.cols[job.col].nextId \in Nat /\ c.cols[job.col].nextId \in Nat
    BY <1>1, <1>5, <2>2, <2>3, IdsAssumption, CatalogParts DEF Hit
  <2>5. todo[i].id <= cat.cols[job.col].nextId
    BY <1>1, <2>1, <2>2 DEF CInv, IdsOK
  <2> QED
    BY <1>7, <2>4, <2>5
<1>9. ControlOK'
  <2>1. owner = "tx" => saved.cat.next <= c.next
    BY <1>1, <1>5 DEF CInv, ControlOK, CatOK, CatalogType
  <2> QED
    BY <1>2, <1>3, <1>7, <2>1 DEF CInv, ControlOK
<1>10. EntriesOK'
  BY <1>2, <1>5 DEF CInv, EntriesOK, CatOK
<1>11. IndexesOK'
  BY <1>2, <1>3, <1>4, <1>5 DEF CInv, IndexesOK, CatOK
<1>12. FlagsOK'
  BY <1>1, <1>2, <1>3, <1>4 DEF CInv, FlagsOK, Sound
<1>13. IdsOK'
  BY <1>2, <1>3, <1>4, <1>5, <1>8 DEF CInv, IdsOK, CatOK, Sound
<1>14. StoredOK'
  BY <1>2, <1>4 DEF CInv, StoredOK, BuiltInTx
<1> QED
  BY <1>9, <1>10, <1>11, <1>12, <1>13, <1>14 DEF CInv

LEMMA QueryStepsOK ==
    ASSUME IInv, CInv, NEW d \in Docs, QueryDelete \/ QueryApply(d) \/ QueryInsert(d)
    PROVE  CInv'
<1> DEFINE n == job.col
           m == Head(job.todo)
<1>1. cat \in CatalogType /\ NoDoc \in MaybeDocs /\ d \in MaybeDocs /\ pending \in Seq(MutationType)
  BY DEF IInv, TypeOK, MaybeDocs
<1>2. PICK acts : InQuery(acts)
  BY DEF QueryDelete, QueryApply, QueryInsert
<1>3. /\ up /\ job \in QueryJobs /\ n \in Names /\ job.todo \in Seq(Hit) /\ job.kind = "query"
      /\ job.todo # <<>> => m.id \in Ids /\ m.doc \in Docs
  BY <1>2, InQueryType DEF InQuery
<1>4. job # IndexJob /\ Exists(cat, n) /\ CatOK(cat)
  BY <1>3, HereOK DEF CInv, ControlOK, IndexJob
<1>5. Sound /\ ~dirtyFull => /\ PendOK(cat, pending)
                             /\ \A i \in DOMAIN job.todo : job.todo[i].id <= cat.cols[n].nextId
  BY <1>3 DEF CInv, IdsOK
<1>6. job.todo # <<>> => /\ 1 \in DOMAIN job.todo /\ m = job.todo[1]
                         /\ \A i \in DOMAIN Tail(job.todo) :
                               \E j \in DOMAIN job.todo : Tail(job.todo)[i] = job.todo[j]
  <2>1. SUFFICES ASSUME job.todo # <<>>
                 PROVE  /\ 1 \in DOMAIN job.todo /\ m = job.todo[1]
                        /\ \A i \in DOMAIN Tail(job.todo) :
                              i + 1 \in DOMAIN job.todo /\ Tail(job.todo)[i] = job.todo[i + 1]
    OBVIOUS
  <2> QED
    BY <1>3, <2>1
<1>7. CASE QueryDelete
  <2> DEFINE c == CountDelete(cat, n, m.doc)
             mut == Mutation(n, m.id, m.doc, NoDoc)
  <2>1. job.todo # <<>> /\ QueryStep(c, Append(pending, mut), Tail(job.todo))
    BY <1>7 DEF QueryDelete
  <2>2. m.id \in Ids /\ m.doc \in MaybeDocs
    BY <1>3, <2>1 DEF MaybeDocs
  <2>3. mut \in MutationType /\ mut.new = NoDoc
    BY <1>1, <1>3, <2>2 DEF Mutation, MutationType
  <2> HIDE DEF mut, n, m
  <2>4. Grow(cat, c)
    BY <1>1, <1>3, <1>4, <2>2, CountGrow
  <2> HIDE DEF c
  <2>5. /\ CatOK(c) /\ c \in CatalogType
        /\ PendOK(cat, pending) => PendOK(c, pending)
    BY <1>1, <1>4, <2>4, GrowOK DEF CatOK
  <2>6. Append(pending, mut) \in Seq(MutationType)
    BY <1>1, <2>3
  <2>7. Sound /\ ~dirtyFull => PendOK(c, Append(pending, mut))
    BY <1>1, <1>5, <2>3, <2>5, AppendOK
  <2>8. PICK rest : rest = Tail(job.todo)
    OBVIOUS
  <2>9. PICK pend : pend = Append(pending, mut)
    OBVIOUS
  <2>10. /\ QueryStep(c, pend, rest) /\ pend \in Seq(MutationType)
         /\ Sound /\ ~dirtyFull => PendOK(c, pend)
         /\ \A i \in DOMAIN rest : \E j \in DOMAIN job.todo : rest[i] = job.todo[j]
    BY <1>6, <2>1, <2>6, <2>7, <2>8, <2>9
  <2> QED
    BY <1>3, <2>4, <2>10, QueryStepOK
<1>8. CASE QueryApply(d)
  <2> DEFINE id == m.id
  <2>1. job.todo # <<>> /\ QueryStep(PutCat(cat, n, id, d), PutPending(cat, n, id, d), Tail(job.todo))
    BY <1>8 DEF QueryApply
  <2>2. id \in Ids
    BY <1>3, <2>1
  <2>3. Sound /\ ~dirtyFull => id <= cat.cols[n].nextId
    BY <1>5, <1>6, <2>1
  <2> HIDE DEF id, n
  <2>4. /\ Grow(cat, PutCat(cat, n, id, d)) /\ PutPending(cat, n, id, d) \in Seq(MutationType)
        /\ PendOK(cat, pending) /\ id <= cat.cols[n].nextId =>
               PendOK(PutCat(cat, n, id, d), PutPending(cat, n, id, d))
    BY <1>1, <1>3, <1>4, <2>2, PutOK
  <2>5. Sound /\ ~dirtyFull => PendOK(PutCat(cat, n, id, d), PutPending(cat, n, id, d))
    BY <1>5, <2>3, <2>4
  <2>6. PICK rest : rest = Tail(job.todo)
    OBVIOUS
  <2>7. /\ QueryStep(PutCat(cat, n, id, d), PutPending(cat, n, id, d), rest)
        /\ \A i \in DOMAIN rest : \E j \in DOMAIN job.todo : rest[i] = job.todo[j]
    BY <1>6, <2>1, <2>6
  <2> QED
    BY <1>3, <2>4, <2>5, <2>7, QueryStepOK
<1>9. CASE QueryInsert(d)
  <2> DEFINE id == cat.cols[n].nextId + 1
             c == RaiseNextId(cat, n, id)
  <2>1. id \in Ids /\ QueryStep(PutCat(c, n, id, d), PutPending(c, n, id, d), <<>>)
    BY <1>9 DEF QueryInsert
  <2> HIDE DEF id, n
  <2>2. Grow(cat, c) /\ Exists(c, n) /\ id <= c.cols[n].nextId
    BY <1>1, <1>3, <1>4, <2>1, RaiseQuiet
  <2> HIDE DEF c
  <2>3. CatOK(c) /\ c \in CatalogType /\ (PendOK(cat, pending) => PendOK(c, pending))
    BY <1>1, <1>4, <2>2, GrowOK DEF CatOK
  <2>4. /\ Grow(c, PutCat(c, n, id, d)) /\ PutPending(c, n, id, d) \in Seq(MutationType)
        /\ PendOK(c, pending) /\ id <= c.cols[n].nextId =>
               PendOK(PutCat(c, n, id, d), PutPending(c, n, id, d))
    BY <1>1, <1>3, <2>1, <2>2, <2>3, PutOK
  <2>5. Sound /\ ~dirtyFull => PendOK(PutCat(c, n, id, d), PutPending(c, n, id, d))
    BY <1>5, <2>2, <2>3, <2>4
  <2>6. Grow(cat, PutCat(c, n, id, d))
    BY <1>1, <2>2, <2>4, GrowTrans
  <2>7. \A i \in DOMAIN <<>> : \E j \in DOMAIN job.todo : <<>>[i] = job.todo[j]
    OBVIOUS
  <2> QED
    BY <1>3, <2>1, <2>4, <2>5, <2>6, <2>7, QueryStepOK, SMTT(30)
<1> QED
  BY <1>7, <1>8, <1>9

LEMMA QueryEndsOK ==
    ASSUME IInv, CInv, QueryFail \/ QueryEnd
    PROVE  CInv'
<1>1. InQuery(Acts)
  BY DEF QueryFail, QueryEnd
<1>2. /\ up /\ job.kind = "query" /\ job # IndexJob /\ job # NoJob /\ owner # "none"
      /\ NoJob.kind = "none" /\ NoJob # IndexJob
      /\ pending \in Seq(MutationType) /\ owner \in {"none", "call", "tx"}
  BY <1>1 DEF InQuery, IInv, TypeOK, NoJob, IndexJob
<1>3. ASSUME ReleaseCall, UNCHANGED <<engine, memory, saved, up>>, \A X : Free(X)' => Free(X),
             Sound' => ~(owner = "call" /\ job.changed)
      PROVE  CInv'
  <2>1. /\ cat' = cat /\ pending' = pending /\ dirtyMeta' = dirtyMeta /\ dirtyFull' = dirtyFull
        /\ meta' = meta /\ docs' = docs /\ saved' = saved /\ up' = up
        /\ job' = NoJob /\ owner' = IF owner = "tx" THEN "tx" ELSE "none"
    BY <1>3 DEF ReleaseCall, engine, memory
  <2>2. Sound' => Sound
    BY <1>3 DEF Sound
  <2>3. ControlOK'
    BY <1>2, <2>1 DEF CInv, ControlOK
  <2>4. EntriesOK'
    BY <2>1 DEF CInv, EntriesOK
  <2>5. IndexesOK'
    BY <1>2, <1>3, <2>1 DEF CInv, IndexesOK
  <2>6. FlagsOK'
    BY <1>2, <1>3, <2>1, <2>2 DEF CInv, FlagsOK
  <2>7. IdsOK'
    BY <1>2, <2>1, <2>2 DEF CInv, IdsOK
  <2>8. StoredOK'
    BY <1>2, <1>3, <2>1 DEF CInv, StoredOK, BuiltInTx
  <2> QED
    BY <2>3, <2>4, <2>5, <2>6, <2>7, <2>8 DEF CInv
<1>4. CASE QueryFail
  <2>1. /\ ReleaseCall /\ UNCHANGED <<engine, memory, saved, up>>
        /\ Blame(If(owner = "call" /\ job.changed, "abandoned"))
    BY <1>4 DEF QueryFail
  <2>2. \A X : Free(X)' => Free(X)
    BY <2>1 DEF Blame, Free
  <2>3. Sound' => ~(owner = "call" /\ job.changed)
    BY <2>1 DEF Blame, Sound, Free, If
  <2> QED
    BY <1>3, <2>1, <2>2, <2>3
<1>5. CASE owner = "call" /\ job.changed /\ FinishCall(cat, pending)
  <2>1. CatOK(cat)
    BY <1>2, HereOK
  <2>2. Sound => PendOK(cat, pending)
    BY <1>5 DEF CInv, IdsOK, FlagsOK
  <2> QED
    BY <1>2, <1>5, <2>1, <2>2, FinishCallOK
<1>6. CASE /\ owner = "tx" \/ ~job.changed
           /\ ReleaseCall
           /\ UNCHANGED <<engine, memory, saved, up, faults>>
  <2>1. \A X : Free(X)' => Free(X)
    BY <1>6 DEF Free
  <2> QED
    BY <1>3, <1>6, <2>1
<1> QED
  BY <1>4, <1>5, <1>6 DEF QueryEnd

----------------------------------------------------------------------------
(* Write transactions and process life. *)

LEMMA TxBeginOK ==
    ASSUME IInv, CInv, TxBegin
    PROVE  CInv'
<1>1. /\ up /\ job = NoJob /\ job # IndexJob /\ job.kind = "none" /\ owner = "none"
      /\ cat \in CatalogType /\ cat.next \in Nat
  BY DEF TxBegin, Ready, IInv, TypeOK, NoJob, IndexJob, CatalogType
<1>2. /\ owner' = "tx" /\ cat' = cat /\ meta' = meta /\ docs' = docs /\ pending' = pending
      /\ dirtyMeta' = dirtyMeta /\ dirtyFull' = dirtyFull /\ job' = job /\ up' = up /\ faults' = faults
      /\ saved'.cat = cat /\ saved'.len = Len(pending)
      /\ saved'.dirtyMeta = dirtyMeta /\ saved'.dirtyFull = dirtyFull
  BY DEF TxBegin, engine, memory
<1>3. Sound => pending = <<>> /\ ~dirtyMeta /\ ~dirtyFull /\ Len(pending) = 0
  BY <1>1, RestEmpty
<1>4. ControlOK'
  BY <1>1, <1>2 DEF ControlOK
<1>5. EntriesOK'
  BY <1>2 DEF CInv, EntriesOK
<1>6. IndexesOK'
  BY <1>1, <1>2 DEF CInv, IndexesOK, Free
<1>7. FlagsOK'
  BY <1>1, <1>2, <1>3 DEF FlagsOK, Sound, Free
<1>8. IdsOK'
  BY <1>1, <1>2 DEF CInv, IdsOK, Sound, Free
<1>9. StoredOK'
  BY <1>1, <1>2, <1>3 DEF CInv, StoredOK, Sound, Free
<1> QED
  BY <1>4, <1>5, <1>6, <1>7, <1>8, <1>9 DEF CInv

LEMMA TxCommitOK ==
    ASSUME IInv, CInv, TxCommit
    PROVE  CInv'
<1>1. CASE Panic(cat, pending, dirtyFull)
  BY <1>1, DownOK DEF Panic
<1>2. CASE /\ TxEnd
           /\ commitLocked(cat, pending, dirtyMeta, dirtyFull)
           /\ Blame(If(dirtyFull /\ pending # <<>>, "discarded"))
  <2>1. /\ up /\ job = NoJob /\ job # IndexJob /\ job.kind = "none" /\ owner = "tx"
        /\ owner' = "none" /\ saved' = NoTx /\ job' = job /\ up' = up
    BY <1>2 DEF TxEnd, Ready, NoJob, IndexJob
  <2>2. /\ cat \in CatalogType /\ pending \in Seq(MutationType) /\ dirtyFull \in BOOLEAN
        /\ dirtyMeta \in BOOLEAN /\ CatOK(cat)
    BY <2>1, HereOK DEF IInv, TypeOK
  <2>3. Sound /\ ~dirtyFull => PendOK(cat, pending)
    BY DEF CInv, IdsOK
  <2>4. /\ cat' = cat /\ pending' = <<>> /\ dirtyMeta' = FALSE /\ dirtyFull' = FALSE
        /\ KeysOwned(docs') /\ Tidy(meta')
        /\ Free({"torn"}) => IxDistinct(meta')
        /\ Sound => IdsBelow(cat, docs') /\ IdsBelow(meta', docs')
        /\ meta' = cat \/ (~dirtyMeta /\ pending = <<>> /\ ~dirtyFull /\ UNCHANGED engine)
    BY <1>2, <2>2, <2>3, CommitOK
  <2>5. \A X : Free(X)' => Free(X)
    BY <1>2 DEF Blame, Free
  <2>6. /\ NoTx.cat = newState /\ ~NoTx.dirtyMeta /\ ~NoTx.dirtyFull /\ NoTx.len = 0
        /\ IdsBelow(newState, docs')
    BY <2>4, NewStateOK DEF NoTx
  <2>7. ControlOK'
    BY <2>1, <2>4 DEF ControlOK
  <2>8. EntriesOK'
    BY <2>1, <2>2, <2>4, <2>6, NewStateOK DEF EntriesOK, CatOK
  <2>9. IndexesOK'
    BY <2>1, <2>2, <2>4, <2>5, <2>6, NewStateOK DEF IndexesOK, CatOK
  <2>10. FlagsOK'
    BY <2>1, <2>4, <2>6 DEF FlagsOK
  <2>11. IdsOK'
    <3>1. Sound' => Sound
      BY <2>5 DEF Sound
    <3>2. PendOK(cat, <<>>)
      BY DEF PendOK
    <3> QED
      BY <2>1, <2>4, <2>6, <3>1, <3>2 DEF IdsOK
  <2>12. StoredOK'
    <3>1. SUFFICES ASSUME Free({"abandoned", "leaked"}) PROVE Behind(meta', cat, docs')
      BY <2>1, <2>4, <2>5 DEF StoredOK
    <3>2. CASE meta' = cat
      BY <2>2, <3>2, BehindSame
    <3>3. CASE ~dirtyMeta /\ UNCHANGED engine
      BY <2>1, <3>1, <3>3 DEF CInv, StoredOK, engine
    <3> QED
      BY <2>4, <3>2, <3>3
  <2> QED
    BY <2>7, <2>8, <2>9, <2>10, <2>11, <2>12 DEF CInv
<1> QED
  BY <1>1, <1>2 DEF TxCommit

LEMMA TxAbortOK ==
    ASSUME IInv, CInv, TxAbort
    PROVE  CInv'
<1>1. /\ up /\ job = NoJob /\ job # IndexJob /\ job.kind = "none" /\ owner = "tx"
      /\ owner' = "none" /\ saved' = NoTx /\ job' = job /\ up' = up
  BY DEF TxAbort, TxEnd, Ready, NoJob, IndexJob
<1>2. /\ cat' = saved.cat /\ pending' = SubSeq(pending, 1, saved.len)
      /\ dirtyMeta' = saved.dirtyMeta /\ dirtyFull' = saved.dirtyFull
      /\ meta' = meta /\ docs' = docs /\ Blame(If(BuiltInTx, "leaked"))
  BY DEF TxAbort, truncatePending, engine
<1>3. \A X : Free(X)' => Free(X)
  BY <1>2 DEF Blame, Free
<1>4. Sound' => Sound
  BY <1>3 DEF Sound
<1>5. Sound => pending' = <<>> /\ dirtyMeta' = FALSE /\ dirtyFull' = FALSE
  <2>1. saved.dirtyMeta \in BOOLEAN /\ saved.dirtyFull \in BOOLEAN /\ pending \in Seq(MutationType)
    BY DEF IInv, TypeOK
  <2>2. SubSeq(pending, 1, 0) = <<>>
    BY <2>1
  <2> QED
    BY <1>2, <2>1, <2>2 DEF CInv, FlagsOK
<1>6. /\ NoTx.cat = newState /\ ~NoTx.dirtyMeta /\ ~NoTx.dirtyFull /\ NoTx.len = 0
      /\ IdsBelow(newState, docs)
  BY NewStateOK DEF NoTx, CInv, EntriesOK
<1>7. ControlOK'
  BY <1>1 DEF ControlOK
<1>8. EntriesOK'
  BY <1>1, <1>2, <1>6, NewStateOK DEF CInv, EntriesOK
<1>9. IndexesOK'
  BY <1>1, <1>2, <1>3, <1>6, NewStateOK DEF CInv, IndexesOK
<1>10. FlagsOK'
  BY <1>1, <1>4, <1>5, <1>6 DEF FlagsOK
<1>11. IdsOK'
  <2>1. PendOK(saved.cat, <<>>)
    BY DEF PendOK
  <2> QED
    BY <1>1, <1>2, <1>4, <1>5, <1>6, <2>1 DEF CInv, IdsOK
<1>12. StoredOK'
  <2>1. SUFFICES ASSUME Free({"abandoned", "leaked"})' PROVE Behind(meta, saved.cat, docs)
    BY <1>1, <1>2 DEF StoredOK
  <2>2. Free({"abandoned", "leaked"}) /\ If(BuiltInTx, "leaked") \cap {"abandoned", "leaked"} = {}
    BY <1>2, <2>1, FreeBlame
  <2>3. ~BuiltInTx
    BY <2>2 DEF If
  <2> QED
    BY <1>1, <2>2, <2>3 DEF CInv, StoredOK
<1> QED
  BY <1>7, <1>8, <1>9, <1>10, <1>11, <1>12 DEF CInv

LEMMA OpenOK ==
    ASSUME IInv, CInv, Open
    PROVE  CInv'
<1>1. /\ ~up /\ up' = TRUE /\ cat' = meta /\ meta' = meta /\ docs' = docs /\ pending' = pending
      /\ dirtyMeta' = dirtyMeta /\ dirtyFull' = dirtyFull /\ owner' = owner /\ job' = job
      /\ saved' = saved /\ faults' = faults
  BY DEF Open, engine
<1>2. /\ owner = "none" /\ ~dirtyMeta /\ ~dirtyFull /\ pending = <<>> /\ saved = NoTx
      /\ job = NoJob /\ job # IndexJob /\ job.kind = "none" /\ meta \in CatalogType
  BY <1>1 DEF CInv, ControlOK, IInv, TypeOK, NoJob, IndexJob
<1>3. ControlOK'
  BY <1>1, <1>2 DEF ControlOK
<1>4. EntriesOK'
  BY <1>1 DEF CInv, EntriesOK
<1>5. IndexesOK'
  BY <1>1, <1>2 DEF CInv, IndexesOK, Free
<1>6. FlagsOK'
  BY <1>1 DEF CInv, FlagsOK, Sound, Free
<1>7. IdsOK'
  <2>1. PendOK(meta, <<>>)
    BY DEF PendOK
  <2> QED
    BY <1>1, <1>2, <2>1 DEF CInv, IdsOK, Sound, Free
<1>8. StoredOK'
  BY <1>1, <1>2, BehindSame DEF StoredOK
<1> QED
  BY <1>3, <1>4, <1>5, <1>6, <1>7, <1>8 DEF CInv

----------------------------------------------------------------------------
(* The invariant holds. *)

LEMMA InitOK == Init => CInv
<1> SUFFICES ASSUME Init PROVE CInv
  OBVIOUS
<1>1. /\ meta = newState /\ docs = <<>> /\ cat = newState /\ pending = <<>> /\ dirtyMeta = FALSE
      /\ dirtyFull = FALSE /\ owner = "none" /\ job = NoJob /\ saved = NoTx /\ up = TRUE
  BY DEF Init
<1>2. /\ NoJob.kind = "none" /\ NoJob # IndexJob /\ ~NoTx.dirtyMeta /\ ~NoTx.dirtyFull /\ NoTx.len = 0
  BY DEF NoJob, IndexJob, NoTx
<1>3. KeysOwned(docs) /\ PendOK(cat, pending)
  BY <1>1 DEF KeysOwned, PendOK
<1>4. IdsBelow(newState, docs) /\ Behind(meta, cat, docs)
  BY <1>1, <1>3, NewStateOK, BehindSame
<1>5. ControlOK /\ EntriesOK
  BY <1>1, <1>2, <1>3, NewStateOK DEF ControlOK, EntriesOK
<1>6. IndexesOK
  BY <1>1, <1>2, NewStateOK DEF IndexesOK
<1>7. FlagsOK /\ IdsOK /\ StoredOK
  BY <1>1, <1>2, <1>3, <1>4, NewStateOK DEF FlagsOK, IdsOK, StoredOK
<1> QED
  BY <1>5, <1>6, <1>7 DEF CInv

LEMMA NextOK == IInv /\ CInv /\ [Next]_vars => CInv'
<1> SUFFICES ASSUME IInv, CInv, [Next]_vars PROVE CInv'
  OBVIOUS
<1>1. ASSUME NEW n \in Names, EnsureCollection(n) PROVE CInv'
  BY <1>1, EnsureCollectionOK
<1>2. ASSUME NEW n \in Names, RemoveCollection(n) PROVE CInv'
  BY <1>2, RemoveActionOK
<1>3. ASSUME NEW n \in Names, NEW m \in Names, RenameCollection(n, m) PROVE CInv'
  BY <1>3, RenameActionOK
<1>4. ASSUME NEW n \in Names, NEW d \in MaybeDocs, PutNew(n, d) PROVE CInv'
  <2>1. PICK id \in Ids : TRUE
    BY <1>4 DEF PutNew
  <2> QED
    BY <1>4, <2>1, PutActionsOK
<1>5. ASSUME NEW n \in Names, NEW id \in Ids, NEW d \in MaybeDocs,
             Put(n, id, d) \/ Patch(n, id, d) \/ MergeOrPut(n, id, d)
      PROVE  CInv'
  BY <1>5, PutActionsOK
<1>6. ASSUME NEW n \in Names, NEW id \in Ids, Delete(n, id) PROVE CInv'
  BY <1>6, DeleteOK
<1>7. ASSUME NEW n \in Names, NEW p \in Paths, NEW unique \in IndexModes, EnsureIndex(n, p, unique)
      PROVE  CInv'
  BY <1>7, BoundsAssumption, EnsureIndexOK
<1>8. ASSUME NEW n \in Names, NEW p \in Paths, RemoveIndex(n, p) PROVE CInv'
  BY <1>8, RemoveIndexActionOK
<1>9. ASSUME NEW n \in Names, NEW act \in QueryActs, QueryBegin(n, act) PROVE CInv'
  BY <1>9, BoundsAssumption, QueryBeginOK
<1>10. ASSUME NEW d \in Docs, QueryApply(d) \/ QueryInsert(d) PROVE CInv'
  BY <1>10, QueryStepsOK
<1>11. CASE QueryDelete
  <2>1. Head(job.todo).doc \in Docs
    BY <1>11, InQueryType DEF QueryDelete
  <2> QED
    BY <1>11, <2>1, QueryStepsOK
<1>12. CASE QueryFail \/ QueryEnd
  BY <1>12, QueryEndsOK
<1>13. CASE EnsureIndexDone
  BY <1>13, EnsureIndexDoneOK
<1>14. CASE TxBegin \/ TxCommit \/ TxAbort
  BY <1>14, TxBeginOK, TxCommitOK, TxAbortOK
<1>15. CASE Close \/ Crash
  BY <1>15, DownOK DEF Close, Crash
<1>16. CASE Open
  BY <1>16, OpenOK
<1>17. CASE UNCHANGED vars
  BY <1>17 DEF vars, engine, memory, control, CInv, ControlOK, EntriesOK, IndexesOK, FlagsOK,
               IdsOK, StoredOK, BuiltInTx, Sound, Free
<1> QED
  BY <1>1, <1>2, <1>3, <1>4, <1>5, <1>6, <1>7, <1>8, <1>9, <1>10, <1>11, <1>12,
     <1>13, <1>14, <1>15, <1>16, <1>17 DEF Next

----------------------------------------------------------------------------
(* What the invariants say at last. *)

LEMMA CatalogSafe ==
    ASSUME IInv, CInv
    PROVE  IndexIdsDistinct /\ PutsHaveCollections /\ IdsBelowNext /\ ReopenLosesNothing
<1>1. IndexIdsDistinct
  BY SMTT(30) DEF CInv, IndexesOK, IndexIdsDistinct, IxDistinct
<1>2. PutsHaveCollections
  <2>1. SUFFICES ASSUME Sound, ~dirtyFull, NEW i \in DOMAIN pending PROVE ~Homeless(cat, pending[i])
    BY DEF PutsHaveCollections, NilCollection, Sound
  <2> QED
    BY <2>1 DEF CInv, IdsOK, PendOK, Homeless, Dbid, Exists
<1>3. IdsBelowNext
  <2>1. SUFFICES ASSUME Sound, NEW n \in Names
                 PROVE  /\ up /\ ~dirtyFull =>
                              \A id \in Ids : View[n][id] # NoDoc => id <= cat.cols[n].nextId
                        /\ \A id \in StoredIds(docs, meta.cols[n].dbid) : id <= meta.cols[n].nextId
    BY DEF IdsBelowNext, Sound
  <2>2. IdsBelow(cat, docs) /\ IdsBelow(meta, docs) /\ (~dirtyFull => PendOK(cat, pending))
    BY <2>1 DEF CInv, IdsOK
  <2>3. ASSUME ~dirtyFull, NEW id \in Ids, View[n][id] # NoDoc PROVE id <= cat.cols[n].nextId
    <3>1. OldDoc(cat, n, id) # NoDoc
      BY <2>3 DEF View
    <3> QED
      BY <2>1, <2>2, <2>3, <3>1, FoundBelow
  <2> QED
    BY <2>2, <2>3 DEF IdsBelow
<1>4. ReopenLosesNothing
  <2>1. SUFFICES ASSUME AtRest, Free({"abandoned", "leaked"}) PROVE Behind(meta, cat, docs)
    BY DEF ReopenLosesNothing, Behind
  <2>2. Sound /\ up /\ owner = "none"
    BY <2>1 DEF Sound, Free, AtRest
  <2>3. job # IndexJob
    BY <2>2 DEF IInv, TypeOK, NoJob, IndexJob
  <2> QED
    BY <2>1, <2>2, <2>3 DEF CInv, FlagsOK, StoredOK
<1> QED
  BY <1>1, <1>2, <1>3, <1>4

\* No two indexes ever share a key range (EnsureIndex's dbid), in memory, stored or
\* in a WriteTx's snapshot, until the process ends between EnsureIndex's batches.
THEOREM IndexIdsStayDistinct == Spec => []IndexIdsDistinct
<1>1. Init => IInv /\ CInv
  BY InitKeeps, InitOK
<1>2. IInv /\ CInv /\ [Next]_vars => (IInv /\ CInv)'
  BY NextKeeps, NextOK
<1>3. IInv /\ CInv => IndexIdsDistinct
  BY CatalogSafe
<1> QED
  BY <1>1, <1>2, <1>3, PTL DEF Spec

\* Until a call outside a WriteTx abandons its changes, persistPendingLocked finds
\* the collection of every put it writes and does not panic.
THEOREM PutsKeepCollections == Spec => []PutsHaveCollections
<1>1. Init => IInv /\ CInv
  BY InitKeeps, InitOK
<1>2. IInv /\ CInv /\ [Next]_vars => (IInv /\ CInv)'
  BY NextKeeps, NextOK
<1>3. IInv /\ CInv => PutsHaveCollections
  BY CatalogSafe
<1> QED
  BY <1>1, <1>2, <1>3, PTL DEF Spec

\* The id PutNew gives out is one no stored or buffered document has, in memory and
\* after a reopen, whatever was put, removed, rolled back or lost before.
THEOREM PutNewNeverOverwrites == Spec => []IdsBelowNext
<1>1. Init => IInv /\ CInv
  BY InitKeeps, InitOK
<1>2. IInv /\ CInv /\ [Next]_vars => (IInv /\ CInv)'
  BY NextKeeps, NextOK
<1>3. IInv /\ CInv => IdsBelowNext
  BY CatalogSafe
<1> QED
  BY <1>1, <1>2, <1>3, PTL DEF Spec

\* While nothing runs, the catalog Open would load is the one in memory, up to empty
\* collections and raised NextIDs of failed calls: commitLocked writes what is dirty.
THEOREM CrashAtRestLosesNothing == Spec => []ReopenLosesNothing
<1>1. Init => IInv /\ CInv
  BY InitKeeps, InitOK
<1>2. IInv /\ CInv /\ [Next]_vars => (IInv /\ CInv)'
  BY NextKeeps, NextOK
<1>3. IInv /\ CInv => ReopenLosesNothing
  BY CatalogSafe
<1> QED
  BY <1>1, <1>2, <1>3, PTL DEF Spec
=============================================================================
