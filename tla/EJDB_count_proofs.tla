-------------------------- MODULE EJDB_count_proofs --------------------------
(***************************************************************************)
(* The record counts are exact: rnum of a collection and of an index, kept   *)
(* by increments and decrements, is the number of stored documents and index *)
(* entries.  Builds on the invariants of the earlier modules and on what     *)
(* EJDB_refinement_proofs says of the contents seen through the buffer.      *)
(***************************************************************************)
EXTENDS EJDB_refinement_proofs

----------------------------------------------------------------------------
(* What a catalog should count, given the contents w of its collections. *)

Live(row) == {id \in Ids : row[id] # NoDoc}

Entries(row, p) == {e \in Keys \X Ids : e[1] \in valuesForIndex(row[e[2]], p)}

CountedAt(c, w, n) ==
    /\ c.cols[n].rnum = Cardinality(Live(w[n]))
    /\ \A p \in Indexed(c, n) : c.cols[n].ix[p].rnum = Cardinality(Entries(w[n], p))

Counted(c, w) == \A n \in Names : CountedAt(c, w, n)

\* What a query's window still names: each document once, as it is now.
Current(w, n, todo) ==
    /\ \A i \in DOMAIN todo : w[n][todo[i].id] = todo[i].doc
    /\ \A i, j \in DOMAIN todo : todo[i].id = todo[j].id => i = j

----------------------------------------------------------------------------
(* The inductive invariant, beside IInv, CInv and XInv. *)

Tame == Free({"abandoned", "discarded", "repeated", "torn"})

\* A transaction has buffered documents and changed the catalog: its commit would
\* discard the documents, its counts are of no collection's contents.
Mixed == pending # <<>> /\ (dirtyFull \/ job = IndexJob)

\* The stored catalog is rebuildIndex's, whose counts may include documents that
\* are only buffered.
Between == \E x \in IndexDbids(meta) : x > meta.next

NowOK == up /\ ~Mixed =>
    /\ Counted(cat, Seen(cat, docs, pending))
    /\ job.kind = "query" => Current(Seen(cat, docs, pending), job.col, job.todo)

ThenOK == owner = "tx" => Counted(saved.cat, Held(saved.cat, docs))

OnceOK == Between \/ Counted(meta, Held(meta, docs))

RInv == Tame => NowOK /\ ThenOK /\ OnceOK

----------------------------------------------------------------------------
(* One document more, less or other. *)

LEMMA EntriesFinite ==
    ASSUME NEW row, NEW p
    PROVE  /\ IsFiniteSet(Live(row)) /\ Cardinality(Live(row)) \in Nat
           /\ IsFiniteSet(Entries(row, p)) /\ Cardinality(Entries(row, p)) \in Nat
<1>1. Live(row) \in SUBSET Ids /\ Entries(row, p) \in SUBSET (Keys \X Ids)
  BY DEF Live, Entries
<1>2. IsFiniteSet(Ids) /\ IsFiniteSet(Keys \X Ids)
  BY IdsAssumption, KeysAssumption, FS_Product
<1> QED
  BY <1>1, <1>2, FS_Subset, FS_CardinalityType

\* The number of documents.
LEMMA LiveChange ==
    ASSUME NEW row \in [Ids -> MaybeDocs], NEW new \in [Ids -> MaybeDocs], NEW id \in Ids,
           \A o \in Ids \ {id} : new[o] = row[o]
    PROVE  Cardinality(Live(new)) =
               Cardinality(Live(row)) + (IF new[id] = NoDoc THEN 0 ELSE 1)
                                      - (IF row[id] = NoDoc THEN 0 ELSE 1)
<1> DEFINE rest == Live(row) \ {id}
<1>1. Live(new) = (IF new[id] = NoDoc THEN rest ELSE rest \cup {id})
  BY DEF Live
<1>2. IsFiniteSet(Live(row)) /\ Cardinality(Live(row)) \in Nat /\ (id \in Live(row) <=> row[id] # NoDoc)
  BY EntriesFinite DEF Live
<1>3. /\ IsFiniteSet(rest) /\ Cardinality(rest) \in Nat
      /\ Cardinality(rest) = Cardinality(Live(row)) - (IF row[id] = NoDoc THEN 0 ELSE 1)
  BY <1>2, FS_RemoveElement, FS_CardinalityType
<1>4. Cardinality(rest \cup {id}) = Cardinality(rest) + 1
  BY <1>3, FS_AddElement
<1> HIDE DEF rest
<1> QED
  BY <1>1, <1>2, <1>3, <1>4

\* One document's entries are as many as its values.
LEMMA EntriesSplit ==
    ASSUME NEW row \in [Ids -> MaybeDocs], NEW id \in Ids, NEW p \in Paths
    PROVE  LET others == {e \in Entries(row, p) : e[2] # id}
           IN  /\ Cardinality(others) \in Nat
               /\ Cardinality(Entries(row, p)) =
                      Cardinality(others) + Cardinality(valuesForIndex(row[id], p))
<1> DEFINE others == {e \in Entries(row, p) : e[2] # id}
           own == valuesForIndex(row[id], p) \X {id}
<1>1. row[id] \in MaybeDocs
  OBVIOUS
<1>2. valuesForIndex(row[id], p) \in SUBSET Keys /\ IsFiniteSet(valuesForIndex(row[id], p))
  BY <1>1, ValuesFinite, KeysAssumption, FS_Subset
<1>3. /\ IsFiniteSet(own)
      /\ Cardinality(own) = Cardinality(valuesForIndex(row[id], p)) * 1
  <2>1. IsFiniteSet({id}) /\ Cardinality({id}) = 1
    BY FS_Singleton
  <2>2. PICK V : V = valuesForIndex(row[id], p)
    OBVIOUS
  <2>3. IsFiniteSet(V \X {id}) /\ Cardinality(V \X {id}) = Cardinality(V) * Cardinality({id})
    BY <1>2, <2>1, <2>2, FS_Product
  <2> QED
    BY <2>1, <2>2, <2>3
<1>4. Cardinality(own) = Cardinality(valuesForIndex(row[id], p))
  <2>1. Cardinality(valuesForIndex(row[id], p)) \in Nat
    BY <1>2, FS_CardinalityType
  <2> QED
    BY <1>3, <2>1
<1>5. IsFiniteSet(others) /\ Cardinality(others) \in Nat
  <2>1. others \in SUBSET Entries(row, p)
    OBVIOUS
  <2> QED
    BY <2>1, EntriesFinite, FS_Subset, FS_CardinalityType
<1>6. Entries(row, p) = others \cup own
  BY <1>2 DEF Entries
<1>7. others \cap own = {}
  OBVIOUS
<1> HIDE DEF others, own
<1>8. Cardinality(others \cup own) = Cardinality(others) + Cardinality(own) - Cardinality({})
  BY <1>3, <1>5, <1>7, FS_Union
<1>9. Cardinality({}) = 0 /\ Cardinality(own) \in Nat
  BY <1>3, FS_EmptySet, FS_CardinalityType
<1>10. Cardinality(Entries(row, p)) = Cardinality(others) + Cardinality(valuesForIndex(row[id], p))
  BY <1>4, <1>5, <1>6, <1>8, <1>9
<1> QED
  BY <1>5, <1>10 DEF others

\* The number of index entries.
LEMMA EntriesChange ==
    ASSUME NEW row \in [Ids -> MaybeDocs], NEW new \in [Ids -> MaybeDocs], NEW id \in Ids,
           \A o \in Ids \ {id} : new[o] = row[o], NEW p \in Paths
    PROVE  Cardinality(Entries(new, p)) =
               Cardinality(Entries(row, p)) + Cardinality(valuesForIndex(new[id], p))
                                            - Cardinality(valuesForIndex(row[id], p))
<1>1. {e \in Entries(new, p) : e[2] # id} = {e \in Entries(row, p) : e[2] # id}
  BY DEF Entries
<1>2. PICK k \in Nat : k = Cardinality({e \in Entries(row, p) : e[2] # id})
  BY EntriesSplit
<1>3. /\ Cardinality(Entries(new, p)) = k + Cardinality(valuesForIndex(new[id], p))
      /\ Cardinality(Entries(row, p)) = k + Cardinality(valuesForIndex(row[id], p))
  BY <1>1, <1>2, EntriesSplit
<1>4. new[id] \in MaybeDocs /\ row[id] \in MaybeDocs
  OBVIOUS
<1>5. Cardinality(valuesForIndex(new[id], p)) \in Nat /\ Cardinality(valuesForIndex(row[id], p)) \in Nat
  BY <1>4, ValuesFinite
<1> QED
  BY <1>3, <1>5

----------------------------------------------------------------------------
(* Counting: adjustIndexRNums and the methods' own increments. *)

\* What is seen is a document or none, for every name and id.
LEMMA SeenType ==
    ASSUME NEW c, NEW stored, DocsType(stored), NEW pend \in Seq(MutationType)
    PROVE  /\ Seen(c, stored, pend) \in [Names -> [Ids -> MaybeDocs]]
           /\ Held(c, stored) \in [Names -> [Ids -> MaybeDocs]]
<1>1. ASSUME NEW n \in Names, NEW id \in Ids
      PROVE  /\ getDoc(stored, c.cols[n].dbid, id) \in MaybeDocs
             /\ pendingDocState(pend, n, id, getDoc(stored, c.cols[n].dbid, id)) \in MaybeDocs
  <2>1. /\ ViewAt(c, stored, pend, n, id, 0) = getDoc(stored, c.cols[n].dbid, id)
        /\ ViewAt(c, stored, pend, n, id, Len(pend)) =
               pendingDocState(pend, n, id, getDoc(stored, c.cols[n].dbid, id))
    BY ViewEnds
  <2>2. 0 \in Int /\ Len(pend) \in Int
    BY TouchesType
  <2> QED
    BY <2>1, <2>2, ViewType
<1>2. NoDoc \in MaybeDocs
  BY DEF MaybeDocs
<1>3. Held(c, stored) \in [Names -> [Ids -> MaybeDocs]]
  BY <1>1 DEF Held
<1>4. Seen(c, stored, pend) \in [Names -> [Ids -> MaybeDocs]]
  BY <1>1, <1>2 DEF Seen
<1> QED
  BY <1>3, <1>4

\* The counts of one collection after a mutation of one document.
LEMMA AdjustCounts ==
    ASSUME NEW c \in CatalogType, NEW n \in Names, NEW old \in MaybeDocs, NEW new \in MaybeDocs,
           NEW p \in Paths, p \in Indexed(c, n)
    PROVE  LET k == AtLeastZero(c.cols[n].ix[p].rnum + Cardinality(valuesForIndex(new, p))
                                                     - Cardinality(valuesForIndex(old, p)))
           IN  /\ CountPut(c, n, old, new).cols[n].ix[p].rnum = k
               /\ new = NoDoc => CountDelete(c, n, old).cols[n].ix[p].rnum = k
<1>1. /\ c.cols[n] \in CollectionType /\ c.cols[n].ix \in [Paths -> IndexType] /\ c.cols[n].rnum \in Nat
      /\ c.cols[n].ix[p] \in IndexType /\ c.cols[n].ix[p].dbid # 0 /\ c.cols \in [Names -> CollectionType]
  BY CatalogParts DEF Indexed, CatalogType
<1>2. ASSUME NEW col, col \in CollectionType, col.ix = c.cols[n].ix
      PROVE  adjustIndexRNums(col, old, new).ix[p].rnum =
                 AtLeastZero(c.cols[n].ix[p].rnum + Cardinality(valuesForIndex(new, p))
                                                  - Cardinality(valuesForIndex(old, p)))
  <2> DEFINE ixs == [q \in Paths |->
        IF col.ix[q].dbid = 0 THEN col.ix[q]
        ELSE [col.ix[q] EXCEPT !.rnum =
                 AtLeastZero(@ + Cardinality(valuesForIndex(new, q))
                               - Cardinality(valuesForIndex(old, q)))]]
  <2>1. adjustIndexRNums(col, old, new) = [col EXCEPT !.ix = ixs]
    BY DEF adjustIndexRNums
  <2>2. ixs[p] = [c.cols[n].ix[p] EXCEPT !.rnum =
                 AtLeastZero(@ + Cardinality(valuesForIndex(new, p))
                               - Cardinality(valuesForIndex(old, p)))]
    BY <1>1, <1>2
  <2> HIDE DEF ixs
  <2>3. [col EXCEPT !.ix = ixs].ix = ixs
    BY <1>2 DEF CollectionType
  <2> QED
    BY <1>1, <2>1, <2>2, <2>3 DEF IndexType
<1>3. ASSUME NEW k \in Nat
      PROVE  /\ [c.cols[n] EXCEPT !.rnum = k] \in CollectionType
             /\ [c.cols[n] EXCEPT !.rnum = k].ix = c.cols[n].ix
  BY <1>1, <1>3 DEF CollectionType
<1>4. \A col : WithCollection(c, n, col).cols[n] = col
  BY <1>1 DEF WithCollection, CatalogType
<1>5. PICK r \in Nat : r = (IF old = NoDoc THEN c.cols[n].rnum + 1 ELSE c.cols[n].rnum)
  BY <1>1
<1>6. PICK z \in Nat : z = AtLeastZero(c.cols[n].rnum - 1)
  BY <1>1 DEF AtLeastZero
<1>7. CountPut(c, n, old, new).cols[n] = adjustIndexRNums([c.cols[n] EXCEPT !.rnum = r], old, new)
  BY <1>4, <1>5 DEF CountPut
<1>8. CountDelete(c, n, old).cols[n] = adjustIndexRNums([c.cols[n] EXCEPT !.rnum = z], old, NoDoc)
  BY <1>4, <1>6 DEF CountDelete
<1> QED
  BY <1>2, <1>3, <1>7, <1>8

LEMMA AdjustRows ==
    ASSUME NEW c \in CatalogType, NEW n \in Names, NEW old \in MaybeDocs, NEW new \in MaybeDocs
    PROVE  /\ CountPut(c, n, old, new).cols[n].rnum = c.cols[n].rnum + (IF old = NoDoc THEN 1 ELSE 0)
           /\ CountDelete(c, n, old).cols[n].rnum = AtLeastZero(c.cols[n].rnum - 1)
           /\ Indexed(CountPut(c, n, old, new), n) = Indexed(c, n)
           /\ Indexed(CountDelete(c, n, old), n) = Indexed(c, n)
           /\ \A m \in Names \ {n} : /\ CountPut(c, n, old, new).cols[m] = c.cols[m]
                                     /\ CountDelete(c, n, old).cols[m] = c.cols[m]
<1>1. /\ c.cols[n] \in CollectionType /\ c.cols[n].rnum \in Nat /\ c.cols \in [Names -> CollectionType]
      /\ NoDoc \in MaybeDocs
  BY CatalogParts DEF CatalogType, MaybeDocs
<1>2. ASSUME NEW k \in Nat
      PROVE  /\ [c.cols[n] EXCEPT !.rnum = k] \in CollectionType
             /\ [c.cols[n] EXCEPT !.rnum = k].ix = c.cols[n].ix
             /\ [c.cols[n] EXCEPT !.rnum = k].rnum = k
  BY <1>1, <1>2 DEF CollectionType
<1>3. ASSUME NEW col \in CollectionType, NEW o \in MaybeDocs, NEW d \in MaybeDocs
      PROVE  adjustIndexRNums(col, o, d).rnum = col.rnum
  BY DEF adjustIndexRNums, CollectionType
<1>4. /\ \A col : WithCollection(c, n, col).cols[n] = col
      /\ \A col : \A m \in Names \ {n} : WithCollection(c, n, col).cols[m] = c.cols[m]
  BY <1>1 DEF WithCollection, CatalogType
<1>5. PICK r \in Nat : r = (IF old = NoDoc THEN c.cols[n].rnum + 1 ELSE c.cols[n].rnum)
  BY <1>1
<1>6. PICK z \in Nat : z = AtLeastZero(c.cols[n].rnum - 1)
  BY <1>1 DEF AtLeastZero
<1>7. PICK a \in CollectionType : a = [c.cols[n] EXCEPT !.rnum = r]
  BY <1>2
<1>8. PICK b \in CollectionType : b = [c.cols[n] EXCEPT !.rnum = z]
  BY <1>2
<1>9. CountPut(c, n, old, new) = WithCollection(c, n, adjustIndexRNums(a, old, new))
  BY <1>5, <1>7 DEF CountPut
<1>10. CountDelete(c, n, old) = WithCollection(c, n, adjustIndexRNums(b, old, NoDoc))
  BY <1>6, <1>8 DEF CountDelete
<1>11. /\ \A p \in Paths : adjustIndexRNums(a, old, new).ix[p].dbid = c.cols[n].ix[p].dbid
       /\ \A p \in Paths : adjustIndexRNums(b, old, NoDoc).ix[p].dbid = c.cols[n].ix[p].dbid
  <2>1. a.ix = c.cols[n].ix /\ b.ix = c.cols[n].ix
    BY <1>2, <1>7, <1>8
  <2>2. \A p \in Paths : adjustIndexRNums(a, old, new).ix[p].dbid = a.ix[p].dbid
    BY AdjustType
  <2>3. \A p \in Paths : adjustIndexRNums(b, old, NoDoc).ix[p].dbid = b.ix[p].dbid
    BY <1>1, AdjustType
  <2> QED
    BY <2>1, <2>2, <2>3
<1>12. Indexed(CountPut(c, n, old, new), n) = Indexed(c, n) /\ Indexed(CountDelete(c, n, old), n) = Indexed(c, n)
  <2>1. PICK e, f : e = CountPut(c, n, old, new) /\ f = CountDelete(c, n, old)
    OBVIOUS
  <2>2. e.cols[n] = adjustIndexRNums(a, old, new) /\ f.cols[n] = adjustIndexRNums(b, old, NoDoc)
    BY <1>4, <1>9, <1>10, <2>1
  <2>3. \A p \in Paths : /\ e.cols[n].ix[p].dbid = c.cols[n].ix[p].dbid
                         /\ f.cols[n].ix[p].dbid = c.cols[n].ix[p].dbid
    BY <1>11, <2>2
  <2>4. Indexed(e, n) = Indexed(c, n) /\ Indexed(f, n) = Indexed(c, n)
    BY <2>3 DEF Indexed
  <2> QED
    BY <2>1, <2>4
<1>13. /\ CountPut(c, n, old, new).cols[n].rnum = r
       /\ CountDelete(c, n, old).cols[n].rnum = z
  <2>1. a.rnum = r /\ b.rnum = z
    BY <1>2, <1>7, <1>8
  <2>2. adjustIndexRNums(a, old, new).rnum = r /\ adjustIndexRNums(b, old, NoDoc).rnum = z
    BY <1>1, <1>3, <2>1
  <2> QED
    BY <1>4, <1>9, <1>10, <2>2
<1> QED
  BY <1>1, <1>4, <1>5, <1>6, <1>9, <1>10, <1>12, <1>13

\* A put and a delete keep the counts exact.
LEMMA PutCounted ==
    ASSUME NEW c \in CatalogType, NEW w \in [Names -> [Ids -> MaybeDocs]], Counted(c, w),
           NEW n \in Names, NEW id \in Ids, NEW d \in Docs
    PROVE  Counted(CountPut(c, n, w[n][id], d), [w EXCEPT ![n][id] = d])
<1>1. PICK row \in [Ids -> MaybeDocs], old \in MaybeDocs : row = w[n] /\ old = row[id]
  OBVIOUS
<1>2. PICK v : v = [w EXCEPT ![n][id] = d]
  OBVIOUS
<1>3. /\ v[n] \in [Ids -> MaybeDocs] /\ v[n][id] = d /\ \A o \in Ids \ {id} : v[n][o] = row[o]
      /\ \A m \in Names \ {n} : v[m] = w[m]
  BY <1>1, <1>2 DEF MaybeDocs
<1>4. d \in MaybeDocs /\ d # NoDoc
  BY NoDocAssumption DEF MaybeDocs
<1>5. PICK e : e = CountPut(c, n, old, d)
  OBVIOUS
<1>6. /\ e.cols[n].rnum = c.cols[n].rnum + (IF old = NoDoc THEN 1 ELSE 0)
      /\ Indexed(e, n) = Indexed(c, n)
      /\ \A m \in Names \ {n} : e.cols[m] = c.cols[m]
  BY <1>4, <1>5, AdjustRows
<1>7. ASSUME NEW m \in Names \ {n} PROVE CountedAt(e, v, m)
  BY <1>3, <1>6 DEF Counted, CountedAt, Indexed
<1>8. CountedAt(e, v, n)
  <2>1. c.cols[n].rnum = Cardinality(Live(row)) /\ Cardinality(Live(row)) \in Nat
    BY <1>1, EntriesFinite DEF Counted, CountedAt
  <2>2. Cardinality(Live(v[n])) = Cardinality(Live(row)) + 1 - (IF old = NoDoc THEN 0 ELSE 1)
    BY <1>1, <1>3, <1>4, LiveChange
  <2>3. e.cols[n].rnum = Cardinality(Live(v[n]))
    BY <1>6, <2>1, <2>2
  <2>4. ASSUME NEW p \in Indexed(e, n) PROVE e.cols[n].ix[p].rnum = Cardinality(Entries(v[n], p))
    <3>1. p \in Indexed(c, n) /\ p \in Paths
      BY <1>6, <2>4 DEF Indexed
    <3>2. /\ c.cols[n].ix[p].rnum = Cardinality(Entries(row, p))
          /\ Cardinality(Entries(v[n], p)) \in Nat
      BY <1>1, <3>1, EntriesFinite DEF Counted, CountedAt
    <3>3. Cardinality(Entries(v[n], p)) =
              Cardinality(Entries(row, p)) + Cardinality(valuesForIndex(d, p))
                                           - Cardinality(valuesForIndex(old, p))
      BY <1>1, <1>3, <1>4, <3>1, EntriesChange
    <3>4. e.cols[n].ix[p].rnum =
              AtLeastZero(c.cols[n].ix[p].rnum + Cardinality(valuesForIndex(d, p))
                                               - Cardinality(valuesForIndex(old, p)))
      BY <1>4, <1>5, <3>1, AdjustCounts
    <3> QED
      BY <3>2, <3>3, <3>4 DEF AtLeastZero
  <2> QED
    BY <2>3, <2>4 DEF CountedAt
<1>9. Counted(e, v)
  BY <1>7, <1>8 DEF Counted
<1> QED
  BY <1>1, <1>2, <1>5, <1>9

LEMMA DeleteCounted ==
    ASSUME NEW c \in CatalogType, NEW w \in [Names -> [Ids -> MaybeDocs]], Counted(c, w),
           NEW n \in Names, NEW id \in Ids, w[n][id] # NoDoc
    PROVE  Counted(CountDelete(c, n, w[n][id]), [w EXCEPT ![n][id] = NoDoc])
<1>1. PICK row \in [Ids -> MaybeDocs], old \in MaybeDocs : row = w[n] /\ old = row[id]
  OBVIOUS
<1>2. PICK v : v = [w EXCEPT ![n][id] = NoDoc]
  OBVIOUS
<1>3. /\ v[n] \in [Ids -> MaybeDocs] /\ v[n][id] = NoDoc /\ \A o \in Ids \ {id} : v[n][o] = row[o]
      /\ \A m \in Names \ {n} : v[m] = w[m]
  BY <1>1, <1>2 DEF MaybeDocs
<1>4. NoDoc \in MaybeDocs /\ old # NoDoc
  BY <1>1 DEF MaybeDocs
<1>5. PICK e : e = CountDelete(c, n, old)
  OBVIOUS
<1>6. /\ e.cols[n].rnum = AtLeastZero(c.cols[n].rnum - 1)
      /\ Indexed(e, n) = Indexed(c, n)
      /\ \A m \in Names \ {n} : e.cols[m] = c.cols[m]
  BY <1>4, <1>5, AdjustRows
<1>7. ASSUME NEW m \in Names \ {n} PROVE CountedAt(e, v, m)
  BY <1>3, <1>6 DEF Counted, CountedAt, Indexed
<1>8. CountedAt(e, v, n)
  <2>1. c.cols[n].rnum = Cardinality(Live(row)) /\ Cardinality(Live(v[n])) \in Nat
    BY <1>1, EntriesFinite DEF Counted, CountedAt
  <2>2. Cardinality(Live(v[n])) = Cardinality(Live(row)) + 0 - 1
    BY <1>1, <1>3, <1>4, LiveChange
  <2>3. e.cols[n].rnum = Cardinality(Live(v[n]))
    <3>1. Cardinality(Live(row)) \in Nat
      BY EntriesFinite
    <3> QED
      BY <1>6, <2>1, <2>2, <3>1 DEF AtLeastZero
  <2>4. ASSUME NEW p \in Indexed(e, n) PROVE e.cols[n].ix[p].rnum = Cardinality(Entries(v[n], p))
    <3>1. p \in Indexed(c, n) /\ p \in Paths
      BY <1>6, <2>4 DEF Indexed
    <3>2. /\ c.cols[n].ix[p].rnum = Cardinality(Entries(row, p))
          /\ Cardinality(Entries(v[n], p)) \in Nat
      BY <1>1, <3>1, EntriesFinite DEF Counted, CountedAt
    <3>3. Cardinality(Entries(v[n], p)) =
              Cardinality(Entries(row, p)) + Cardinality(valuesForIndex(NoDoc, p))
                                           - Cardinality(valuesForIndex(old, p))
      BY <1>1, <1>3, <1>4, <3>1, EntriesChange
    <3>4. e.cols[n].ix[p].rnum =
              AtLeastZero(c.cols[n].ix[p].rnum + Cardinality(valuesForIndex(NoDoc, p))
                                               - Cardinality(valuesForIndex(old, p)))
      BY <1>4, <1>5, <3>1, AdjustCounts
    <3> QED
      BY <3>2, <3>3, <3>4 DEF AtLeastZero
  <2> QED
    BY <2>3, <2>4 DEF CountedAt
<1>9. Counted(e, v)
  BY <1>7, <1>8 DEF Counted
<1> QED
  BY <1>1, <1>2, <1>5, <1>9

\* A catalog that grew without counting, or moved or dropped entries, counts what
\* its collections hold.
LEMMA QuietCounted ==
    ASSUME NEW b \in CatalogType, Tidy(b), NEW c, Quiet(b, c), NEW w, Counted(b, w)
    PROVE  Counted(c, w)
<1> SUFFICES ASSUME NEW n \in Names PROVE CountedAt(c, w, n)
  BY DEF Counted
<1>1. CountedAt(b, w, n)
  BY DEF Counted
<1>2. CASE c.cols[n].rnum = b.cols[n].rnum /\ c.cols[n].ix = b.cols[n].ix
  BY <1>1, <1>2 DEF CountedAt, Indexed
<1>3. CASE Fresh(b, c, n) /\ c.cols[n].rnum = 0 /\ c.cols[n].ix = NoCollection.ix
  <2>1. b.cols[n] = NoCollection
    BY <1>3 DEF Fresh, Tidy
  <2>2. NoCollection.rnum = 0 /\ NoCollection.ix = [p \in Paths |-> NoIndex]
    BY DEF NoCollection
  <2> QED
    BY <1>1, <1>2, <1>3, <2>1, <2>2
<1> QED
  BY <1>2, <1>3 DEF Quiet

LEMMA MovedCounted ==
    ASSUME NEW b, NEW w, Counted(b, w), NEW c, NEW v,
           \A n \in Names :
              \/ v[n] = Nothing /\ c.cols[n] = NoCollection
              \/ \E m \in Names : /\ v[n] = w[m] /\ c.cols[n].rnum = b.cols[m].rnum
                                  /\ \A p \in Indexed(c, n) : /\ p \in Indexed(b, m)
                                                              /\ c.cols[n].ix[p] = b.cols[m].ix[p]
    PROVE  Counted(c, v)
<1> SUFFICES ASSUME NEW n \in Names PROVE CountedAt(c, v, n)
  BY DEF Counted
<1>1. CASE v[n] = Nothing /\ c.cols[n] = NoCollection
  <2>1. Live(v[n]) = {} /\ Cardinality({}) = 0
    BY <1>1, FS_EmptySet DEF Live, Nothing
  <2>2. c.cols[n].rnum = 0 /\ Indexed(c, n) = {}
    BY <1>1 DEF NoCollection, NoIndex, Indexed
  <2> QED
    BY <2>1, <2>2 DEF CountedAt
<1>2. ASSUME NEW m \in Names, v[n] = w[m], c.cols[n].rnum = b.cols[m].rnum,
             \A p \in Indexed(c, n) : p \in Indexed(b, m) /\ c.cols[n].ix[p] = b.cols[m].ix[p]
      PROVE  CountedAt(c, v, n)
  <2>1. CountedAt(b, w, m)
    BY DEF Counted
  <2> QED
    BY <1>2, <2>1 DEF CountedAt
<1> QED
  BY <1>1, <1>2

----------------------------------------------------------------------------
(* The ways a step can end. *)

LEMMA TameParts == Tame => Sound /\ Clean /\ Free({"torn"})
BY DEF Tame, Sound, Clean, Free

LEMMA TameBlame ==
    ASSUME NEW S, Blame(S), Tame'
    PROVE  Tame /\ S \cap {"abandoned", "discarded", "repeated", "torn"} = {}
BY FreeBlame DEF Tame

\* Only a transaction mixes documents with catalog changes.
LEMMA MixedTx ==
    ASSUME IInv, CInv, Tame, Mixed
    PROVE  owner = "tx"
<1>1. Sound /\ pending # <<>> /\ (dirtyFull \/ job = IndexJob)
  BY TameParts DEF Mixed
<1>2. dirtyMeta
  BY <1>1 DEF CInv, FlagsOK
<1>3. CASE dirtyFull
  BY <1>1, <1>3 DEF CInv, FlagsOK
<1>4. CASE job = IndexJob
  BY <1>1, <1>2, <1>4 DEF CInv, FlagsOK, IInv, TypeOK, IndexJob
<1> QED
  BY <1>1, <1>3, <1>4

\* Otherwise every buffered mutation has its collection.
LEMMA HomesHere ==
    ASSUME IInv, XInv, Tame, ~Mixed
    PROVE  Homes(cat, pending)
<1>1. CASE pending = <<>>
  BY <1>1 DEF Homes
<1>2. CASE pending # <<>>
  <2>1. ~dirtyFull /\ job # IndexJob /\ Clean
    BY <1>2, TameParts DEF Mixed
  <2>2. BufferOK(cat, docs, pending)
    BY <2>1 DEF XInv, PendingOK
  <2> QED
    BY <2>2 DEF BufferOK, MutationOK, Homes
<1> QED
  BY <1>1, <1>2

\* A step that writes nothing.
LEMMA StayR ==
    ASSUME RInv, meta' = meta, docs' = docs, Tame' => Tame,
           NEW c, cat' = c, NEW pend, pending' = pend, NEW s, saved'.cat = s,
           Tame /\ up' /\ ~Mixed' =>
              /\ Counted(c, Seen(c, docs, pend))
              /\ job'.kind = "query" => Current(Seen(c, docs, pend), job'.col, job'.todo),
           Tame /\ owner' = "tx" => Counted(s, Held(s, docs))
    PROVE  RInv'
<1> SUFFICES ASSUME Tame' PROVE NowOK' /\ ThenOK' /\ OnceOK'
  BY DEF RInv
<1>1. Tame
  OBVIOUS
<1>2. NowOK'
  BY <1>1 DEF NowOK
<1>3. ThenOK'
  BY <1>1 DEF ThenOK
<1>4. OnceOK'
  BY <1>1 DEF RInv, OnceOK, Between
<1> QED
  BY <1>2, <1>3, <1>4

\* A batch with the catalog, and nothing left in memory.
LEMMA WriteR ==
    ASSUME NEW c, cat' = c, meta' = c, NEW stored, docs' = stored, KeysOwned(stored),
           Tame' => pending' = <<>>, owner' # "tx", job' = NoJob,
           Tame' => Counted(c, Held(c, stored))
    PROVE  RInv'
<1> SUFFICES ASSUME Tame' PROVE NowOK' /\ ThenOK' /\ OnceOK'
  BY DEF RInv
<1>1. Seen(c, stored, <<>>) = Held(c, stored)
  BY SeenStored
<1>2. NoJob.kind # "query"
  BY DEF NoJob
<1>3. NowOK'
  BY <1>1, <1>2 DEF NowOK
<1> QED
  BY <1>3 DEF ThenOK, OnceOK

LEMMA DownR ==
    ASSUME RInv, Down, NEW S, Blame(S)
    PROVE  RInv'
<1>1. meta' = meta /\ docs' = docs /\ ~up' /\ owner' = "none" /\ cat' = newState /\ pending' = <<>>
  BY DEF Down, clearPending, engine
<1>2. Tame' => Tame
  BY TameBlame
<1> QED
  BY <1>1, <1>2, StayR

\* commitLocked makes the counts those of what is stored from then on.
LEMMA CommitR ==
    ASSUME IInv, CInv, RInv, CInv', NEW c \in CatalogType, OwnRanges(c, docs),
           NEW pend \in Seq(MutationType), NEW dm, NEW df \in BOOLEAN, commitLocked(c, pend, dm, df),
           owner' # "tx", job' = NoJob, Tame' => Tame,
           Tame' => (df => pend = <<>>) /\ Counted(c, Seen(c, docs, pend))
    PROVE  RInv'
<1>1. cat' = c /\ pending' = <<>> /\ KeysOwned(docs') /\ KeysOwned(docs) /\ DocsType(docs)
  BY DEF commitLocked, clearPending, CInv, EntriesOK, IInv, TypeOK
<1>2. CASE df /\ persistFullLocked(c)
  <2>1. meta' = c /\ docs' = docs
    BY <1>2 DEF persistFullLocked
  <2>2. Tame' => Counted(c, Held(c, docs))
    BY <1>1, <1>2, SeenStored
  <2> QED
    BY <1>1, <2>1, <2>2, WriteR
<1>3. CASE ~df /\ persistPendingLocked(c, pend)
  <2>1. PICK left : left = persistDocs(c, docs, pend)
    OBVIOUS
  <2>2. meta' = c /\ docs' = left /\ KeysOwned(left)
    BY <1>1, <1>3, <2>1 DEF persistPendingLocked
  <2>3. Held(c, left) = Seen(c, docs, pend)
    BY <1>1, <2>1, <2>2, PersistSeen
  <2>4. Tame' => Counted(c, Held(c, left))
    BY <2>3
  <2> QED
    BY <1>1, <2>2, <2>4, WriteR
<1>4. CASE pend = <<>> /\ UNCHANGED engine
  <2>1. meta' = meta /\ docs' = docs /\ NoJob.kind # "query"
    BY <1>4 DEF engine, NoJob
  <2>2. Tame' /\ ~Mixed' => Counted(c, Seen(c, docs, <<>>))
    BY <1>4
  <2>3. NowOK' \/ ~Tame'
    BY <1>1, <2>1, <2>2 DEF NowOK
  <2>4. OnceOK' \/ ~Tame'
    BY <2>1 DEF RInv, OnceOK, Between
  <2> QED
    BY <2>3, <2>4 DEF RInv, ThenOK
<1> QED
  BY <1>2, <1>3, <1>4 DEF commitLocked

\* The end of a DB method.
LEMMA FinishCallR ==
    ASSUME IInv, CInv, RInv, CInv', owner # "tx", NEW c \in CatalogType, OwnRanges(c, docs),
           NEW pend \in Seq(MutationType), Tame => Counted(c, Seen(c, docs, pend)), FinishCall(c, pend)
    PROVE  RInv'
<1>1. Tame => ~dirtyFull
  BY TameParts DEF CInv, FlagsOK
<1>2. CASE /\ commitLocked(c, pend, TRUE, dirtyFull)
           /\ owner' = "none" /\ job' = NoJob
           /\ UNCHANGED <<saved, up, faults>>
  <2>1. Tame' = Tame /\ owner' # "tx" /\ job' = NoJob /\ dirtyFull \in BOOLEAN
    BY <1>2 DEF Tame, Free, IInv, TypeOK
  <2> QED
    BY <1>1, <1>2, <2>1, CommitR
<1>3. CASE Blame({"abandoned"})
  <2>1. ~Tame'
    BY <1>3, TameBlame
  <2> QED
    BY <2>1 DEF RInv
<1>4. CASE Panic(c, pend, dirtyFull)
  BY <1>4, DownR DEF Panic
<1> QED
  BY <1>2, <1>3, <1>4 DEF FinishCall

\* The end of a Tx method.
LEMMA FinishTxR ==
    ASSUME RInv, owner = "tx", NEW c, NEW pend, NEW full \in BOOLEAN, FinishTx(c, pend, full),
           Tame /\ (pend = <<>> \/ (~dirtyFull /\ ~full)) => Counted(c, Seen(c, docs, pend))
    PROVE  RInv'
<1>1. /\ cat' = c /\ pending' = pend /\ dirtyFull' = (dirtyFull \/ full) /\ job' = NoJob
      /\ meta' = meta /\ docs' = docs /\ saved' = saved /\ owner' = owner
  BY DEF FinishTx, engine
<1>2. Tame' => Tame
  <2>1. PICK S : Blame(S)
    BY DEF FinishTx
  <2> QED
    BY <2>1, TameBlame
<1>3. ~Mixed' => pend = <<>> \/ (~dirtyFull /\ ~full)
  BY <1>1 DEF Mixed
<1>4. Tame /\ owner = "tx" => Counted(saved.cat, Held(saved.cat, docs))
  BY DEF RInv, ThenOK
<1>5. job'.kind # "query"
  BY <1>1 DEF NoJob
<1>6. saved'.cat = saved.cat
  BY <1>1
<1> QED
  BY <1>1, <1>2, <1>3, <1>4, <1>5, <1>6, StayR

LEMMA FinishR ==
    ASSUME IInv, CInv, RInv, CInv', NEW c \in CatalogType, OwnRanges(c, docs),
           NEW pend \in Seq(MutationType), NEW full \in BOOLEAN, Finish(c, pend, full),
           Tame /\ (owner = "tx" => pend = <<>> \/ (~dirtyFull /\ ~full)) =>
               Counted(c, Seen(c, docs, pend))
    PROVE  RInv'
<1>1. CASE owner # "tx" /\ FinishCall(c, pend)
  BY <1>1, FinishCallR
<1>2. CASE owner = "tx" /\ FinishTx(c, pend, full)
  BY <1>2, FinishTxR
<1> QED
  BY <1>1, <1>2 DEF Finish

----------------------------------------------------------------------------
(* Collections and documents. *)

\* A catalog grown without counting counts what is seen, which is what was seen.
LEMMA QuietSeen ==
    ASSUME IInv, CInv, XInv, RInv, up, Tame, ~Mixed, NEW c, Quiet(cat, c)
    PROVE  /\ Counted(c, Seen(c, docs, pending)) /\ Seen(c, docs, pending) = Seen(cat, docs, pending)
           /\ Homes(cat, pending) /\ Homes(c, pending)
<1>1. /\ cat \in CatalogType /\ DocsType(docs) /\ OwnRanges(cat, docs) /\ pending \in Seq(MutationType)
      /\ Tidy(cat) /\ Grow(cat, c) /\ Homes(cat, pending)
  BY HomesHere DEF IInv, TypeOK, CollectionsDisjoint, CInv, EntriesOK, Quiet
<1>2. Counted(cat, Seen(cat, docs, pending))
  BY DEF RInv, NowOK
<1>3. Counted(c, Seen(cat, docs, pending))
  BY <1>1, <1>2, QuietCounted
<1>4. Seen(c, docs, pending) = Seen(cat, docs, pending) /\ Homes(c, pending)
  BY <1>1, GrowSeen
<1> QED
  BY <1>1, <1>3, <1>4

LEMMA RefuseR ==
    ASSUME IInv, CInv, XInv, RInv, Ready, NEW c, Quiet(cat, c), Refuse(c)
    PROVE  RInv'
<1>1. /\ cat' = c /\ pending' = pending /\ dirtyFull' = dirtyFull /\ up' = up /\ docs' = docs
      /\ meta' = meta /\ owner' = owner /\ job' = job /\ faults' = faults /\ saved' = saved
  BY DEF Refuse, engine, control
<1>2. up /\ job'.kind # "query"
  BY <1>1 DEF Ready, NoJob
<1>3. (Tame' => Tame) /\ (Mixed' = Mixed)
  BY <1>1 DEF Tame, Free, Mixed
<1>4. Tame /\ ~Mixed => Counted(c, Seen(c, docs, pending))
  BY <1>2, QuietSeen
<1>5. Tame /\ owner = "tx" => Counted(saved.cat, Held(saved.cat, docs))
  BY DEF RInv, ThenOK
<1>6. saved'.cat = saved.cat
  BY <1>1
<1> QED
  BY <1>1, <1>2, <1>3, <1>4, <1>5, <1>6, StayR

LEMMA EnsureCollectionR ==
    ASSUME IInv, CInv, XInv, RInv, CInv', NEW n \in Names, EnsureCollection(n)
    PROVE  RInv'
<1> DEFINE c == ensureCollection(cat, n)
<1>1. /\ up /\ job # IndexJob /\ cat \in CatalogType /\ pending \in Seq(MutationType)
      /\ Finish(c, pending, FALSE)
  BY DEF EnsureCollection, Ready, NoJob, IndexJob, IInv, TypeOK
<1>2. Quiet(cat, c) /\ Grow(cat, c)
  BY <1>1, EnsureQuiet
<1> HIDE DEF c
<1>3. c \in CatalogType /\ OwnRanges(c, docs)
  BY <1>1, <1>2, HereOK, GrowOK DEF CatOK
<1>4. ASSUME Tame, owner = "tx" => pending = <<>> \/ ~dirtyFull PROVE Counted(c, Seen(c, docs, pending))
  <2>1. ~Mixed
    BY <1>1, <1>4, MixedTx DEF Mixed
  <2> QED
    BY <1>1, <1>2, <1>4, <2>1, QuietSeen
<1> QED
  BY <1>1, <1>3, <1>4, FinishR

LEMMA AppendSome ==
    ASSUME NEW S, NEW pend \in Seq(S), NEW m
    PROVE  Append(pend, m) # <<>> /\ (m \in S => Append(pend, m) \in Seq(S))
<1>1. Len(pend) \in Nat /\ Len(Append(pend, m)) = Len(pend) + 1 /\ Len(<<>>) = 0
  OBVIOUS
<1>2. m \in S => Append(pend, m) \in Seq(S)
  OBVIOUS
<1>3. Len(Append(pend, m)) # Len(<<>>)
  BY <1>1
<1> QED
  BY <1>2, <1>3

\* A put, under a catalog grown for it.
LEMMA PutR ==
    ASSUME IInv, CInv, XInv, RInv, up, job # IndexJob, Tame, ~Mixed, NEW c, Quiet(cat, c),
           NEW n \in Names, Exists(c, n), NEW id \in Ids, NEW d \in Docs
    PROVE  LET e == PutCat(c, n, id, d)
               pend == PutPending(c, n, id, d)
           IN  /\ Seen(e, docs, pend) = [Seen(cat, docs, pending) EXCEPT ![n][id] = d]
               /\ Counted(e, Seen(e, docs, pend))
<1> DEFINE old == OldDoc(c, n, id)
           m == Mutation(n, id, old, d)
           e == PutCat(c, n, id, d)
<1>1. /\ cat \in CatalogType /\ c \in CatalogType /\ old \in MaybeDocs /\ d \in MaybeDocs /\ Grow(cat, c)
      /\ DocsType(docs) /\ pending \in Seq(MutationType)
  BY OldDocType DEF IInv, TypeOK, Quiet, Grow, GoodUpdate, MaybeDocs
<1>2. m \in MutationType /\ m.col = n /\ m.id = id /\ m.new = d
  BY <1>1 DEF Mutation, MutationType
<1>3. CatOK(c)
  BY <1>1, HereOK, GrowOK
<1>4. CatOK(e) /\ Grow(c, e)
  BY <1>1, <1>3, PutOK
<1>5. e \in CatalogType /\ OwnRanges(c, docs)
  BY <1>3, <1>4 DEF CatOK
<1>6. PutPending(c, n, id, d) = Append(pending, m) /\ e = CountPut(c, n, old, d)
  BY DEF PutPending, PutCat
<1>7. PICK w \in [Names -> [Ids -> MaybeDocs]] : w = Seen(cat, docs, pending) /\ w = Seen(c, docs, pending)
  BY <1>1, QuietSeen, SeenType
<1>8. Counted(c, w) /\ Homes(cat, pending)
  BY <1>7, QuietSeen
<1>9. old = w[n][id]
  BY <1>7 DEF Seen, OldDoc
<1> HIDE DEF m, e, old
<1>10. Seen(e, docs, Append(pending, m)) = [w EXCEPT ![n][id] = d]
  <2>1. Exists(c, m.col)
    BY <1>2
  <2>2. Seen(e, docs, Append(pending, m)) = Edit(Seen(cat, docs, pending), m)
    BY <1>1, <1>2, <1>4, <1>5, <1>8, <2>1, MutationSeen
  <2> QED
    BY <1>2, <1>7, <2>2 DEF Edit
<1>11. Counted(e, [w EXCEPT ![n][id] = d])
  BY <1>1, <1>6, <1>8, <1>9, PutCounted
<1> QED
  BY <1>6, <1>7, <1>10, <1>11 DEF e

LEMMA PutLockedR ==
    ASSUME IInv, CInv, XInv, RInv, CInv', Ready, NEW c, Quiet(cat, c), NEW n \in Names, Exists(c, n),
           NEW id \in Ids, NEW d \in MaybeDocs, NEW r, Quiet(cat, r), putLocked(c, n, id, d, r)
    PROVE  RInv'
<1>1. up /\ job # IndexJob /\ job = NoJob /\ cat \in CatalogType /\ c \in CatalogType /\ Grow(cat, c)
  BY DEF Ready, NoJob, IndexJob, IInv, TypeOK, Quiet, Grow, GoodUpdate
<1>2. CASE Accepts(c, n, id, d) /\ Finish(PutCat(c, n, id, d), PutPending(c, n, id, d), FALSE)
  <2> DEFINE e == PutCat(c, n, id, d)
             pend == PutPending(c, n, id, d)
  <2>1. d \in Docs
    BY <1>2 DEF Accepts, MaybeDocs
  <2>2. CatOK(c)
    BY <1>1, HereOK, GrowOK
  <2>3. CatOK(e) /\ pend \in Seq(MutationType)
    BY <1>1, <2>2, PutOK
  <2>4. e \in CatalogType /\ OwnRanges(e, docs)
    BY <2>3 DEF CatOK
  <2>5. pend # <<>>
    BY AppendSome DEF PutPending, IInv, TypeOK
  <2>6. ASSUME Tame, owner = "tx" => pend = <<>> \/ ~dirtyFull PROVE Counted(e, Seen(e, docs, pend))
    <3>1. ~Mixed
      BY <1>1, <2>5, <2>6, MixedTx DEF Mixed
    <3> QED
      BY <1>1, <2>1, <2>6, <3>1, PutR
  <2> HIDE DEF e, pend
  <2>7. Finish(e, pend, FALSE)
    BY <1>2 DEF e, pend
  <2> QED
    BY <2>3, <2>4, <2>6, <2>7, FinishR
<1>3. CASE Refuse(r)
  BY <1>3, RefuseR
<1> QED
  BY <1>2, <1>3 DEF putLocked

LEMMA PutActionsR ==
    ASSUME IInv, CInv, XInv, RInv, CInv', NEW n \in Names, NEW id \in Ids, NEW d \in MaybeDocs,
           PutNew(n, d) \/ Put(n, id, d) \/ Patch(n, id, d) \/ MergeOrPut(n, id, d)
    PROVE  RInv'
<1> DEFINE c == ensureCollection(cat, n)
<1>1. cat \in CatalogType /\ Tidy(cat) /\ Ready
  BY DEF IInv, TypeOK, CInv, EntriesOK, PutNew, Put, Patch, MergeOrPut
<1>2. Quiet(cat, c) /\ Exists(c, n) /\ c \in CatalogType
  BY <1>1, EnsureQuiet DEF Quiet, Grow, GoodUpdate
<1>3. ASSUME NEW k \in Ids
      PROVE  Quiet(cat, RaiseNextId(c, n, k)) /\ Exists(RaiseNextId(c, n, k), n)
  <2>1. Quiet(c, RaiseNextId(c, n, k)) /\ Exists(RaiseNextId(c, n, k), n)
    BY <1>2, RaiseQuiet
  <2> QED
    BY <1>1, <1>2, <2>1, QuietTrans
<1>4. CASE PutNew(n, d)
  <2>1. PICK k \in Ids : putLocked(RaiseNextId(c, n, k), n, k, d, c)
    BY <1>4 DEF PutNew
  <2> QED
    BY <1>1, <1>2, <1>3, <2>1, PutLockedR
<1>5. ASSUME putLocked(RaiseNextId(c, n, id), n, id, d, RaiseNextId(c, n, id)) PROVE RInv'
  BY <1>1, <1>3, <1>5, PutLockedR
<1>6. ASSUME putLocked(c, n, id, d, c) PROVE RInv'
  BY <1>1, <1>2, <1>6, PutLockedR
<1>7. CASE Patch(n, id, d)
  <2>1. Exists(cat, n) /\ putLocked(cat, n, id, d, cat) /\ Quiet(cat, cat)
    BY <1>1, <1>7, GrowSame DEF Patch
  <2> QED
    BY <1>1, <2>1, PutLockedR
<1>8. Put(n, id, d) => putLocked(RaiseNextId(c, n, id), n, id, d, RaiseNextId(c, n, id))
  BY DEF Put
<1>9. MergeOrPut(n, id, d) => \/ putLocked(RaiseNextId(c, n, id), n, id, d, RaiseNextId(c, n, id))
                              \/ putLocked(c, n, id, d, c)
  BY DEF MergeOrPut
<1> QED
  BY <1>4, <1>5, <1>6, <1>7, <1>8, <1>9

\* A delete of the document that is seen.
LEMMA RemovalR ==
    ASSUME IInv, CInv, XInv, RInv, up, job # IndexJob, NEW n \in Names, Exists(cat, n), NEW id \in Ids,
           NEW old \in Docs
    PROVE  LET e == CountDelete(cat, n, old)
               pend == Append(pending, Mutation(n, id, old, NoDoc))
           IN  /\ e \in CatalogType /\ OwnRanges(e, docs) /\ pend \in Seq(MutationType) /\ pend # <<>>
               /\ Tame /\ ~Mixed /\ Seen(cat, docs, pending)[n][id] = old =>
                     /\ Seen(e, docs, pend) = [Seen(cat, docs, pending) EXCEPT ![n][id] = NoDoc]
                     /\ Counted(e, Seen(e, docs, pend))
<1> DEFINE m == Mutation(n, id, old, NoDoc)
           e == CountDelete(cat, n, old)
<1>1. /\ cat \in CatalogType /\ OwnRanges(cat, docs) /\ NoDoc \in MaybeDocs /\ old \in MaybeDocs
      /\ DocsType(docs) /\ pending \in Seq(MutationType) /\ old # NoDoc
  BY NoDocAssumption DEF IInv, TypeOK, CollectionsDisjoint, MaybeDocs
<1>2. m \in MutationType /\ m.col = n /\ m.id = id /\ m.new = NoDoc
  BY <1>1 DEF Mutation, MutationType
<1>3. Grow(cat, e) /\ Grow(cat, cat) /\ Quiet(cat, cat)
  BY <1>1, CountGrow, GrowSame
<1> HIDE DEF m, e
<1>4. e \in CatalogType /\ OwnRanges(e, docs)
  BY <1>1, <1>3, HereOK, GrowOK DEF CatOK
<1>5. Append(pending, m) \in Seq(MutationType) /\ Append(pending, m) # <<>>
  BY <1>1, <1>2, AppendSome
<1>6. ASSUME Tame, ~Mixed, Seen(cat, docs, pending)[n][id] = old
      PROVE  /\ Seen(e, docs, Append(pending, m)) = [Seen(cat, docs, pending) EXCEPT ![n][id] = NoDoc]
             /\ Counted(e, Seen(e, docs, Append(pending, m)))
  <2>1. PICK w \in [Names -> [Ids -> MaybeDocs]] : w = Seen(cat, docs, pending)
    BY <1>1, SeenType
  <2>2. Counted(cat, w) /\ Homes(cat, pending)
    BY <1>3, <1>6, <2>1, QuietSeen
  <2>3. Exists(cat, m.col)
    BY <1>2
  <2>4. Seen(e, docs, Append(pending, m)) = Edit(Seen(cat, docs, pending), m)
    BY <1>1, <1>2, <1>3, <1>4, <2>2, <2>3, MutationSeen
  <2>5. Seen(e, docs, Append(pending, m)) = [w EXCEPT ![n][id] = NoDoc]
    BY <1>2, <2>1, <2>4 DEF Edit
  <2>6. Counted(e, [w EXCEPT ![n][id] = NoDoc])
    BY <1>1, <1>6, <2>1, <2>2, DeleteCounted DEF e
  <2> QED
    BY <2>1, <2>5, <2>6
<1> QED
  BY <1>4, <1>5, <1>6 DEF e, m

LEMMA DeleteR ==
    ASSUME IInv, CInv, XInv, RInv, CInv', NEW n \in Names, NEW id \in Ids, Delete(n, id)
    PROVE  RInv'
<1>1. up /\ job # IndexJob /\ job = NoJob /\ Exists(cat, n)
  BY DEF Delete, Ready, NoJob, IndexJob
<1>2. PICK old \in Docs : /\ old = Lookup(cat, n, id)
                          /\ Finish(CountDelete(cat, n, old), Append(pending, Mutation(n, id, old, NoDoc)), FALSE)
  BY OldDocType DEF Delete, IInv, TypeOK, MaybeDocs
<1>3. Tame => old = Seen(cat, docs, pending)[n][id]
  <2>1. Seen(cat, docs, pending)[n][id] = OldDoc(cat, n, id)
    BY <1>1 DEF Seen, OldDoc
  <2>2. CASE owner = "tx"
    BY <1>2, <2>1, <2>2 DEF Lookup
  <2>3. ASSUME Tame, owner # "tx" PROVE old = Seen(cat, docs, pending)[n][id]
    <3>1. pending = <<>>
      BY <1>1, <2>3, TameParts, RestEmpty
    <3>2. OldDoc(cat, n, id) = getDoc(docs, cat.cols[n].dbid, id)
      BY <3>1 DEF OldDoc, pendingDocState, Touches
    <3> QED
      BY <1>2, <2>1, <2>3, <3>2 DEF Lookup
  <2> QED
    BY <2>2, <2>3
<1> DEFINE e == CountDelete(cat, n, old)
           pend == Append(pending, Mutation(n, id, old, NoDoc))
<1>4. /\ e \in CatalogType /\ OwnRanges(e, docs) /\ pend \in Seq(MutationType) /\ pend # <<>>
      /\ Tame /\ ~Mixed /\ Seen(cat, docs, pending)[n][id] = old => Counted(e, Seen(e, docs, pend))
  BY <1>1, RemovalR
<1> HIDE DEF e, pend
<1>5. Tame /\ (owner = "tx" => ~dirtyFull) => ~Mixed
  BY <1>1, MixedTx DEF Mixed
<1>6. Finish(e, pend, FALSE)
  BY <1>2 DEF e, pend
<1> QED
  BY <1>3, <1>4, <1>5, <1>6, FinishR

----------------------------------------------------------------------------
(* Catalog changes. *)

\* With nothing buffered the counts are those of the stored documents.
LEMMA StoredCounted ==
    ASSUME IInv, CInv, RInv, up, Tame, pending = <<>>
    PROVE  Counted(cat, Held(cat, docs))
<1>1. ~Mixed /\ KeysOwned(docs)
  BY DEF Mixed, CInv, EntriesOK
<1> QED
  BY <1>1, SeenStored DEF RInv, NowOK

\* RemoveCollection and RemoveIndex with a batch of their own.
LEMMA DropR ==
    ASSUME IInv, CInv, RInv, CInv', Ready, owner = "none", NEW c, NEW left, NEW xs,
           dropAndCommitLocked(c, left, xs),
           Tame /\ pending = <<>> => Counted(c, Held(c, left))
    PROVE  RInv'
<1>1. Tame => pending = <<>>
  BY TameParts, RestEmpty DEF Ready
<1>2. CASE Blame({"abandoned"})
  <2>1. ~Tame'
    BY <1>2, TameBlame
  <2> QED
    BY <2>1 DEF RInv
<1>3. CASE meta' = c /\ docs' = left /\ UNCHANGED faults
  <2>1. cat' = c /\ pending' = pending /\ owner' = owner /\ job' = job /\ Tame' = Tame
    BY <1>3 DEF dropAndCommitLocked, control, Tame, Free
  <2>2. KeysOwned(left) /\ job' = NoJob
    BY <1>3, <2>1 DEF CInv, EntriesOK, Ready
  <2> QED
    BY <1>1, <1>3, <2>1, <2>2, WriteR
<1> QED
  BY <1>2, <1>3 DEF dropAndCommitLocked

\* The same inside a transaction, beside no buffered documents.
LEMMA FullTxR ==
    ASSUME IInv, CInv, RInv, owner = "tx", NEW c, FinishTx(c, pending, TRUE),
           Tame /\ pending = <<>> => Counted(c, Held(c, docs))
    PROVE  RInv'
<1>1. KeysOwned(docs)
  BY DEF CInv, EntriesOK
<1>2. Tame /\ pending = <<>> => Counted(c, Seen(c, docs, pending))
  BY <1>1, SeenStored
<1> QED
  BY <1>2, FinishTxR

LEMMA RemoveActionR ==
    ASSUME IInv, CInv, RInv, CInv', NEW n \in Names, RemoveCollection(n)
    PROVE  RInv'
<1> DEFINE c == removeCollection(cat, n)
<1>1. Ready /\ up /\ KeysOwned(docs) /\ cat \in CatalogType
  BY DEF RemoveCollection, Ready, CInv, EntriesOK, IInv, TypeOK
<1>2. c.cols[n] = NoCollection /\ \A m \in Names \ {n} : c.cols[m] = cat.cols[m]
  BY <1>1 DEF removeCollection, WithCollection, CatalogType
<1>3. ASSUME Tame, pending = <<>>, NEW left, KeysOwned(left),
             left = docs \/ (Exists(cat, n) /\ left = dropDocs(docs, cat.cols[n].dbid))
      PROVE  Counted(c, Held(c, left))
  <2>1. PICK w, v : /\ w = Held(cat, docs) /\ v = Held(c, left) /\ v = [w EXCEPT ![n] = Nothing]
    BY <1>1, <1>3, RemovedRows
  <2>2. w = [k \in Names |-> w[k]]
    BY <2>1 DEF Held
  <2>3. Counted(cat, w)
    BY <1>1, <1>3, <2>1, StoredCounted
  <2> HIDE DEF c
  <2>4. v[n] = Nothing /\ \A m \in Names \ {n} : v[m] = w[m]
    BY <2>1, <2>2
  <2>5. ASSUME NEW m \in Names \ {n}
        PROVE  /\ v[m] = w[m] /\ c.cols[m].rnum = cat.cols[m].rnum
               /\ \A p \in Indexed(c, m) : p \in Indexed(cat, m) /\ c.cols[m].ix[p] = cat.cols[m].ix[p]
    BY <1>2, <2>4 DEF Indexed
  <2>6. Counted(c, v)
    BY <1>2, <2>3, <2>4, <2>5, MovedCounted
  <2> QED
    BY <2>1, <2>6
<1>4. CASE owner = "none" /\ Exists(cat, n)
           /\ dropAndCommitLocked(c, dropDocs(docs, cat.cols[n].dbid), IndexDbidsOf(cat, n))
  <2>1. PICK left : left = dropDocs(docs, cat.cols[n].dbid)
    OBVIOUS
  <2>2. KeysOwned(left)
    BY <1>1, <2>1 DEF KeysOwned, dropDocs
  <2> HIDE DEF c
  <2> QED
    BY <1>1, <1>3, <1>4, <2>1, <2>2, DropR
<1>5. CASE owner = "tx" /\ FinishTx(c, pending, TRUE)
  <2> HIDE DEF c
  <2> QED
    BY <1>1, <1>3, <1>5, FullTxR
<1> QED
  BY <1>4, <1>5 DEF RemoveCollection

LEMMA RemoveIndexActionR ==
    ASSUME IInv, CInv, RInv, CInv', NEW n \in Names, NEW p \in Paths, RemoveIndex(n, p)
    PROVE  RInv'
<1> DEFINE c == removeIndex(cat, n, p)
<1>1. Ready /\ up /\ cat \in CatalogType
  BY DEF RemoveIndex, Ready, IInv, TypeOK
<1>2. \A m \in Names : /\ c.cols[m].dbid = cat.cols[m].dbid /\ c.cols[m].rnum = cat.cols[m].rnum
                       /\ \A q \in Indexed(c, m) : q \in Indexed(cat, m) /\ c.cols[m].ix[q] = cat.cols[m].ix[q]
  <2>1. /\ \A m \in Names \ {n} : c.cols[m] = cat.cols[m]
        /\ c.cols[n].dbid = cat.cols[n].dbid /\ c.cols[n].rnum = cat.cols[n].rnum
        /\ c.cols[n].ix[p].dbid = 0 /\ \A q \in Paths \ {p} : c.cols[n].ix[q] = cat.cols[n].ix[q]
    BY <1>1 DEF removeIndex, CatalogType, CollectionType, NoIndex
  <2> HIDE DEF c
  <2> QED
    BY <2>1 DEF Indexed
<1> HIDE DEF c
<1>3. Held(c, docs) = Held(cat, docs)
  BY <1>2 DEF Held
<1>4. Tame /\ pending = <<>> => Counted(c, Held(c, docs))
  <2> SUFFICES ASSUME Tame, pending = <<>> PROVE Counted(c, Held(c, docs))
    OBVIOUS
  <2>1. PICK w : w = Held(cat, docs) /\ Counted(cat, w)
    BY <1>1, StoredCounted
  <2>2. Counted(c, w)
    BY <1>2, <2>1, MovedCounted
  <2> QED
    BY <1>3, <2>1, <2>2
<1>5. \/ owner = "none" /\ dropAndCommitLocked(c, docs, {cat.cols[n].ix[p].dbid})
      \/ owner = "tx" /\ FinishTx(c, pending, TRUE)
  BY DEF RemoveIndex, c
<1> QED
  BY <1>1, <1>4, <1>5, DropR, FullTxR

LEMMA RenameActionR ==
    ASSUME IInv, CInv, RInv, CInv', NEW n \in Names, NEW m \in Names, RenameCollection(n, m)
    PROVE  RInv'
<1> DEFINE c == renameCollection(cat, n, m)
<1>1. /\ up /\ job = NoJob /\ job # IndexJob /\ n # m /\ Exists(cat, n) /\ ~Exists(cat, m)
      /\ Finish(c, pending, TRUE) /\ cat \in CatalogType /\ KeysOwned(docs)
      /\ pending \in Seq(MutationType)
  BY DEF RenameCollection, Ready, NoJob, IndexJob, IInv, TypeOK, CInv, EntriesOK
<1>2. CatOK(c)
  BY <1>1, HereOK, RenameCollectionOK DEF CInv
<1>3. /\ c.cols[m] = cat.cols[n] /\ c.cols[n] = NoCollection
      /\ \A k \in Names \ {n, m} : c.cols[k] = cat.cols[k]
  BY <1>1 DEF renameCollection, CatalogType
<1>4. PICK w, v : /\ w = Held(cat, docs) /\ v = Held(c, docs)
                  /\ v = [w EXCEPT ![m] = w[n], ![n] = Nothing]
  BY <1>1, RenamedRows
<1> HIDE DEF c
<1>5. v[n] = Nothing /\ v[m] = w[n] /\ \A k \in Names \ {n, m} : v[k] = w[k]
  <2>1. w = [k \in Names |-> w[k]]
    BY <1>4 DEF Held
  <2> QED
    BY <1>1, <1>4, <2>1
<1>6. ASSUME Tame, owner = "tx" => pending = <<>> PROVE Counted(c, Seen(c, docs, pending))
  <2>1. pending = <<>>
    BY <1>1, <1>6, TameParts, RestEmpty
  <2>2. Counted(cat, w)
    BY <1>1, <1>4, <1>6, <2>1, StoredCounted
  <2>3. /\ v[m] = w[n] /\ c.cols[m].rnum = cat.cols[n].rnum
        /\ \A p \in Indexed(c, m) : p \in Indexed(cat, n) /\ c.cols[m].ix[p] = cat.cols[n].ix[p]
    BY <1>3, <1>5 DEF Indexed
  <2>4. ASSUME NEW k \in Names \ {n, m}
        PROVE  /\ v[k] = w[k] /\ c.cols[k].rnum = cat.cols[k].rnum
               /\ \A p \in Indexed(c, k) : p \in Indexed(cat, k) /\ c.cols[k].ix[p] = cat.cols[k].ix[p]
    BY <1>3, <1>5 DEF Indexed
  <2>5. Counted(c, v)
    <3>1. \A k \in Names : k = n \/ k = m \/ k \in Names \ {n, m}
      OBVIOUS
    <3> QED
      BY <1>3, <1>5, <2>2, <2>3, <2>4, <3>1, MovedCounted
  <2> QED
    BY <1>1, <1>4, <2>1, <2>5, SeenStored
<1>7. c \in CatalogType /\ OwnRanges(c, docs)
  BY <1>2 DEF CatOK
<1> QED
  BY <1>1, <1>6, <1>7, FinishR

----------------------------------------------------------------------------
(* Indexes. *)

\* rebuildIndex counts the entries of the stored documents.
LEMMA BuiltCounted ==
    ASSUME NEW c \in CatalogType, NEW n \in Names, NEW p \in Paths, NEW stored, Counted(c, Held(c, stored)),
           NEW x, x.rnum = Cardinality(IndexEntries(stored, c.cols[n].dbid, p))
    PROVE  LET built == [c EXCEPT !.cols[n].ix[p] = x]
           IN  Counted(built, Held(built, stored))
<1> DEFINE built == [c EXCEPT !.cols[n].ix[p] = x]
<1>1. /\ \A m \in Names \ {n} : built.cols[m] = c.cols[m]
      /\ built.cols[n].dbid = c.cols[n].dbid /\ built.cols[n].rnum = c.cols[n].rnum
      /\ built.cols[n].ix[p] = x /\ \A q \in Paths \ {p} : built.cols[n].ix[q] = c.cols[n].ix[q]
  BY DEF CatalogType, CollectionType
<1> HIDE DEF built
<1>2. Held(built, stored) = Held(c, stored)
  <2>1. \A m \in Names : built.cols[m].dbid = c.cols[m].dbid
    BY <1>1
  <2> QED
    BY <2>1 DEF Held
<1>3. PICK w : w = Held(c, stored)
  OBVIOUS
<1>4. Entries(w[n], p) = IndexEntries(stored, c.cols[n].dbid, p)
  <2>1. \A id \in Ids : w[n][id] = getDoc(stored, c.cols[n].dbid, id)
    BY <1>3 DEF Held
  <2> QED
    BY <2>1 DEF Entries, IndexEntries
<1>5. ASSUME NEW m \in Names \ {n} PROVE CountedAt(built, w, m)
  BY <1>1, <1>3 DEF Counted, CountedAt, Indexed
<1>6. CountedAt(built, w, n)
  <2>1. CountedAt(c, w, n)
    BY <1>3 DEF Counted
  <2>2. ASSUME NEW q \in Indexed(built, n) PROVE built.cols[n].ix[q].rnum = Cardinality(Entries(w[n], q))
    <3>1. CASE q = p
      BY <1>1, <1>4, <3>1
    <3>2. CASE q # p
      <4>1. q \in Indexed(c, n) /\ built.cols[n].ix[q] = c.cols[n].ix[q]
        BY <1>1, <2>2, <3>2 DEF Indexed
      <4> QED
        BY <2>1, <4>1 DEF CountedAt
    <3> QED
      BY <3>1, <3>2
  <2> QED
    BY <1>1, <2>1, <2>2 DEF CountedAt
<1>7. Counted(built, w)
  BY <1>5, <1>6 DEF Counted
<1> QED
  BY <1>2, <1>3, <1>7 DEF built

LEMMA EnsureIndexR ==
    ASSUME IInv, CInv, XInv, RInv, NEW n \in Names, NEW p \in Paths, NEW unique \in BOOLEAN,
           EnsureIndex(n, p, unique)
    PROVE  RInv'
<1> DEFINE c == ensureCollection(cat, n)
           x == [dbid |-> c.next + 1, unique |-> unique,
                 rnum |-> Cardinality(IndexEntries(docs, c.cols[n].dbid, p))]
           built == [c EXCEPT !.cols[n].ix[p] = x]
<1>1. /\ Ready /\ up /\ job # IndexJob /\ cat \in CatalogType /\ p \notin Indexed(c, n)
      /\ KeysOwned(docs) /\ IdxType(idx) /\ UidxType(uidx)
  BY DEF EnsureIndex, Ready, NoJob, IndexJob, IInv, TypeOK, CInv, EntriesOK
<1>2. Quiet(cat, c) /\ Grow(cat, c) /\ c \in CatalogType /\ Exists(c, n)
  BY <1>1, EnsureQuiet DEF Grow, GoodUpdate
<1>3. CASE Refuse(c)
  BY <1>1, <1>2, <1>3, RefuseR
<1>4. CASE /\ cat' = built /\ meta' = built /\ job' = IndexJob
           /\ owner' = (IF owner = "tx" THEN "tx" ELSE "call")
           /\ Blame(If(owner = "tx", "ddl"))
           /\ UNCHANGED <<docs, pending, dirtyMeta, dirtyFull, saved, up>>
  <2>1. Tame' => Tame
    BY <1>4, TameBlame
  <2>2. c.next \in Nat /\ c.next + 1 \in Nat /\ Cardinality(IndexEntries(docs, c.cols[n].dbid, p)) \in Nat
    <3>1. c.next \in Nat /\ c.next + 1 \in Nat
      BY <1>2 DEF CatalogType
    <3> QED
      BY <1>1, <3>1, BuildGood
  <2>3. x \in IndexType /\ x.dbid = c.next + 1
        /\ x.rnum = Cardinality(IndexEntries(docs, c.cols[n].dbid, p))
    BY <2>2 DEF IndexType
  <2>4. CatOK(c)
    BY <1>1, <1>2, HereOK, GrowOK
  <2> HIDE DEF x
  <2>5. built.next = c.next /\ c.next + 1 \in IndexDbids(built)
    BY <1>1, <1>2, <2>3, <2>4, BuiltOK
  <2>6. ASSUME Tame, pending = <<>> PROVE Counted(built, Seen(built, docs, pending))
    <3>1. ~Mixed
      BY <2>6 DEF Mixed
    <3>2. Counted(c, Held(c, docs))
      BY <1>1, <1>2, <2>6, <3>1, QuietSeen, SeenStored
    <3>3. Counted(built, Held(built, docs))
      BY <1>2, <2>3, <3>2, BuiltCounted
    <3> HIDE DEF c, built
    <3> QED
      BY <1>1, <2>6, <3>3, SeenStored
  <2> HIDE DEF c, built
  <2>7. Between'
    BY <1>4, <2>2, <2>5 DEF Between
  <2>8. Mixed' \/ pending = <<>>
    BY <1>4 DEF Mixed
  <2>9. Tame' => NowOK'
    BY <1>4, <2>1, <2>6, <2>8 DEF NowOK, IndexJob
  <2>10. Tame' => ThenOK'
    BY <1>4, <2>1 DEF RInv, ThenOK
  <2> QED
    BY <2>7, <2>9, <2>10 DEF RInv, OnceOK
<1> QED
  BY <1>3, <1>4 DEF EnsureIndex

LEMMA EnsureIndexDoneR ==
    ASSUME IInv, CInv, RInv, CInv', EnsureIndexDone
    PROVE  RInv'
<1> DEFINE c == [cat EXCEPT !.next = @ + 1]
<1>1. /\ up /\ job = IndexJob /\ Finish(c, pending, TRUE) /\ cat \in CatalogType
      /\ pending \in Seq(MutationType) /\ KeysOwned(docs)
  BY DEF EnsureIndexDone, IInv, TypeOK, CInv, EntriesOK
<1>2. c \in CatalogType /\ OwnRanges(c, docs) /\ c.cols = cat.cols
  BY <1>1, AdvanceOK DEF CatOK
<1> HIDE DEF c
<1>3. ASSUME Tame, owner = "tx" => pending = <<>> PROVE Counted(c, Seen(c, docs, pending))
  <2>1. pending = <<>>
    BY <1>1, <1>3, MixedTx DEF Mixed
  <2>2. Counted(cat, Held(cat, docs))
    BY <1>1, <1>3, <2>1, StoredCounted
  <2>3. Held(c, docs) = Held(cat, docs) /\ Counted(c, Held(cat, docs))
    BY <1>2, <2>2 DEF Held, Counted, CountedAt, Indexed
  <2> QED
    BY <1>1, <2>1, <2>3, SeenStored
<1> QED
  BY <1>1, <1>2, <1>3, FinishR

----------------------------------------------------------------------------
(* Queries. *)

\* A window without a repetition names each document once.
LEMMA OnceEach ==
    ASSUME NEW k \in Nat, NEW w, DOMAIN w = 1..k, NEW id, ~(Occurrences(w, id) > 1),
           NEW i \in 1..k, NEW j \in 1..k, w[i] = id, w[j] = id
    PROVE  i = j
<1> SUFFICES ASSUME i # j PROVE FALSE
  OBVIOUS
<1> DEFINE S == {h \in DOMAIN w : w[h] = id}
<1>1. S \in SUBSET (1..k) /\ {i} \cup {j} \in SUBSET S /\ Occurrences(w, id) = Cardinality(S)
  BY DEF Occurrences
<1>2. IsFiniteSet(1..k)
  BY FS_Interval
<1>3. IsFiniteSet(S) /\ Cardinality(S) \in Nat
  BY <1>1, <1>2, FS_Subset, FS_CardinalityType
<1>4. Cardinality({i} \cup {j}) = 2
  <2>1. PICK T : T = {i}
    OBVIOUS
  <2>2. IsFiniteSet(T) /\ Cardinality(T) = 1
    BY <2>1, FS_Singleton
  <2>3. j \notin T
    BY <2>1
  <2>4. Cardinality(T \cup {j}) = Cardinality(T) + 1
    BY <2>2, <2>3, FS_AddElement
  <2> QED
    BY <2>1, <2>2, <2>4
<1> HIDE DEF S
<1>5. Cardinality({i} \cup {j}) <= Cardinality(S)
  BY <1>1, <1>3, FS_Subset
<1> QED
  BY <1>1, <1>3, <1>4, <1>5

LEMMA QueryBeginR ==
    ASSUME IInv, CInv, XInv, RInv, NEW n \in Names, NEW act, QueryBegin(n, act)
    PROVE  RInv'
<1> DEFINE c == IF act = "upsert" THEN ensureCollection(cat, n) ELSE cat
<1>1. up /\ job # IndexJob /\ cat \in CatalogType
  BY DEF QueryBegin, Ready, NoJob, IndexJob, IInv, TypeOK
<1>2. /\ cat' = c /\ pending' = pending /\ dirtyFull' = dirtyFull /\ up' = up /\ meta' = meta
      /\ docs' = docs /\ saved' = saved /\ owner' = (IF owner = "tx" THEN "tx" ELSE "call")
  BY DEF QueryBegin, engine
<1>3. Quiet(cat, c)
  BY <1>1, EnsureQuiet, GrowSame
<1>4. PICK w : /\ w \in (IF Exists(cat, n) THEN Windows(n) ELSE {<<>>})
               /\ job' = [kind |-> "query", col |-> n, act |-> act,
                          todo |-> [i \in DOMAIN w |-> [id |-> w[i], doc |-> OldDoc(cat, n, w[i])]],
                          empty |-> w = <<>>, changed |-> FALSE]
               /\ Blame(If(\E id \in Ids : Occurrences(w, id) > 1, "repeated"))
  BY Zenon DEF QueryBegin
<1>5. PICK todo : /\ todo = [i \in DOMAIN w |-> [id |-> w[i], doc |-> OldDoc(cat, n, w[i])]]
                  /\ job'.todo = todo /\ job'.col = n /\ job'.kind = "query" /\ job' # IndexJob
  BY <1>4 DEF IndexJob
<1>6. (Tame' => Tame) /\ (~Mixed' => ~Mixed)
  BY <1>1, <1>2, <1>4, TameBlame DEF Mixed
<1>7. Tame' => \A id \in Ids : ~(Occurrences(w, id) > 1)
  BY <1>4, TameBlame DEF If
<1> HIDE DEF c
<1>8. ASSUME Tame', ~Mixed' PROVE Current(Seen(c, docs, pending), n, todo)
  <2>1. Seen(c, docs, pending) = Seen(cat, docs, pending)
    BY <1>1, <1>3, <1>6, <1>8, QuietSeen
  <2>2. CASE ~Exists(cat, n)
    <3>1. DOMAIN todo = {}
      BY <1>4, <1>5, <2>2
    <3> QED
      BY <3>1 DEF Current
  <2>3. CASE Exists(cat, n)
    <3>1. PICK k \in Nat : w \in [1..k -> scanDocumentIDs(n)]
      <4>1. w \in UNION {[1..k -> scanDocumentIDs(n)] : k \in 0..(MaxPending - Len(pending))}
        BY <1>4, <2>3 DEF Windows
      <4>2. MaxPending - Len(pending) \in Int
        BY BoundsAssumption DEF IInv, TypeOK
      <4> QED
        BY <4>1, <4>2
    <3>2. DOMAIN w = 1..k /\ DOMAIN todo = 1..k /\ \A i \in 1..k : w[i] \in Ids /\ todo[i].id = w[i]
                                                   /\ todo[i].doc = OldDoc(cat, n, w[i])
      <4>1. DOMAIN w = 1..k /\ \A i \in 1..k : w[i] \in scanDocumentIDs(n)
        BY <3>1
      <4>2. scanDocumentIDs(n) \subseteq Ids
        BY DEF scanDocumentIDs
      <4>3. DOMAIN todo = DOMAIN w
        BY <1>5
      <4>4. \A i \in DOMAIN w : todo[i].id = w[i] /\ todo[i].doc = OldDoc(cat, n, w[i])
        BY <1>5
      <4> QED
        BY <4>1, <4>2, <4>3, <4>4
    <3>3. \A id \in Ids : Seen(cat, docs, pending)[n][id] = OldDoc(cat, n, id)
      BY <2>3 DEF Seen, OldDoc
    <3>4. ASSUME NEW i \in 1..k, NEW j \in 1..k, todo[i].id = todo[j].id PROVE i = j
      <4>1. w[i] = w[j] /\ ~(Occurrences(w, w[i]) > 1)
        BY <1>7, <1>8, <3>2, <3>4
      <4> QED
        BY <3>2, <4>1, OnceEach
    <3>5. \A i \in 1..k : Seen(cat, docs, pending)[n][todo[i].id] = todo[i].doc
      BY <3>2, <3>3
    <3> QED
      BY <2>1, <3>2, <3>4, <3>5 DEF Current
  <2> QED
    BY <2>2, <2>3
<1>9. Tame /\ ~Mixed' => Counted(c, Seen(c, docs, pending))
  BY <1>1, <1>3, <1>6, QuietSeen
<1>10. Tame' => NowOK'
  BY <1>2, <1>5, <1>6, <1>8, <1>9 DEF NowOK
<1>11. Tame' => ThenOK' /\ OnceOK'
  BY <1>2, <1>6 DEF RInv, ThenOK, OnceOK, Between
<1> QED
  BY <1>10, <1>11 DEF RInv

\* One document of a window.
LEMMA QueryStepR ==
    ASSUME IInv, CInv, RInv, job \in QueryJobs, NEW c, NEW pend, pend # <<>>, NEW todo,
           QueryStep(c, pend, todo),
           Tame /\ ~Mixed => Counted(c, Seen(c, docs, pend)) /\ Current(Seen(c, docs, pend), job.col, todo)
    PROVE  RInv'
<1>1. /\ cat' = c /\ pending' = pend /\ dirtyFull' = dirtyFull /\ up' = up /\ meta' = meta
      /\ docs' = docs /\ job' = [job EXCEPT !.todo = todo, !.changed = TRUE]
      /\ owner' = owner /\ saved' = saved /\ Blame(If(owner = "tx" /\ dirtyFull, "ddl"))
  BY DEF QueryStep, engine
<1>2. job.kind = "query" /\ job # IndexJob /\ job'.col = job.col /\ job'.todo = todo
  BY <1>1 DEF QueryJobs, IndexJob
<1>3. (Tame' => Tame) /\ (~Mixed' => ~Mixed)
  BY <1>1, <1>2, TameBlame DEF Mixed
<1>4. Tame /\ owner = "tx" => Counted(saved.cat, Held(saved.cat, docs))
  BY DEF RInv, ThenOK
<1>5. saved'.cat = saved.cat
  BY <1>1
<1> QED
  BY <1>1, <1>2, <1>3, <1>4, <1>5, StayR

\* A window without its first document, after a change of that document.
LEMMA RestCurrent ==
    ASSUME NEW w \in [Names -> [Ids -> MaybeDocs]], NEW n \in Names, NEW todo \in Seq(Hit), todo # <<>>,
           Current(w, n, todo), NEW d \in MaybeDocs
    PROVE  Current([w EXCEPT ![n][Head(todo).id] = d], n, Tail(todo))
<1>1. PICK rest : rest = Tail(todo)
  OBVIOUS
<1>2. /\ Len(todo) \in Nat /\ DOMAIN todo = 1..Len(todo) /\ DOMAIN rest = 1..(Len(todo) - 1)
      /\ 1 \in DOMAIN todo /\ Head(todo) = todo[1]
      /\ \A i \in DOMAIN rest : i + 1 \in DOMAIN todo /\ i + 1 # 1 /\ rest[i] = todo[i + 1]
  BY <1>1
<1>3. PICK id \in Ids : id = Head(todo).id
  <2>1. todo[1] \in Hit
    BY <1>2
  <2> QED
    BY <1>2, <2>1 DEF Hit
<1>4. PICK v : v = [w EXCEPT ![n][id] = d]
  OBVIOUS
<1>5. \A o \in Ids \ {id} : v[n][o] = w[n][o]
  BY <1>4
<1>6. ASSUME NEW i \in DOMAIN rest PROVE v[n][rest[i].id] = rest[i].doc
  <2>1. i + 1 \in DOMAIN todo /\ i + 1 # 1 /\ rest[i] = todo[i + 1] /\ todo[i + 1] \in Hit
    BY <1>2, <1>6
  <2>2. todo[i + 1].id # id /\ todo[i + 1].id \in Ids
    BY <1>2, <1>3, <2>1 DEF Current, Hit
  <2> QED
    BY <1>5, <2>1, <2>2 DEF Current
<1>7. ASSUME NEW i \in DOMAIN rest, NEW j \in DOMAIN rest, rest[i].id = rest[j].id PROVE i = j
  <2>1. i + 1 = j + 1
    BY <1>2, <1>7 DEF Current
  <2> QED
    BY <1>2, <1>7, <2>1
<1>8. Current(v, n, rest)
  BY <1>6, <1>7 DEF Current
<1> QED
  BY <1>1, <1>3, <1>4, <1>8

LEMMA QueryStepsR ==
    ASSUME IInv, CInv, XInv, RInv, NEW d \in Docs, QueryDelete \/ QueryApply(d) \/ QueryInsert(d)
    PROVE  RInv'
<1> DEFINE n == job.col
           todo == job.todo
<1>1. /\ up /\ job \in QueryJobs /\ n \in Names /\ cat \in CatalogType /\ d \in MaybeDocs
      /\ todo \in Seq(Hit) /\ NoDoc \in MaybeDocs /\ DocsType(docs) /\ pending \in Seq(MutationType)
      /\ todo # <<>> => Head(todo).id \in Ids /\ Head(todo).doc \in Docs
  BY InQueryType DEF QueryDelete, QueryApply, QueryInsert, IInv, TypeOK, MaybeDocs
<1>2. job # IndexJob /\ job.kind = "query" /\ Exists(cat, n) /\ Quiet(cat, cat)
  BY <1>1, GrowSame DEF QueryJobs, IndexJob, CInv, ControlOK
<1>3. PICK w \in [Names -> [Ids -> MaybeDocs]] : w = Seen(cat, docs, pending)
  BY <1>1, SeenType
<1>4. Tame /\ ~Mixed => Current(w, n, todo)
  BY <1>1, <1>2, <1>3 DEF RInv, NowOK
<1>5. \A c, id : PutPending(c, n, id, d) # <<>>
  BY <1>1, AppendSome DEF PutPending
<1>6. CASE QueryDelete
  <2>1. PICK id \in Ids, old \in Docs :
           /\ todo # <<>> /\ id = Head(todo).id /\ old = Head(todo).doc
           /\ QueryStep(CountDelete(cat, n, old), Append(pending, Mutation(n, id, old, NoDoc)), Tail(todo))
    BY <1>1, <1>6 DEF QueryDelete
  <2> DEFINE e == CountDelete(cat, n, old)
             pend == Append(pending, Mutation(n, id, old, NoDoc))
  <2> HIDE DEF n, todo
  <2>2. /\ pend # <<>>
        /\ Tame /\ ~Mixed /\ Seen(cat, docs, pending)[n][id] = old =>
              /\ Seen(e, docs, pend) = [Seen(cat, docs, pending) EXCEPT ![n][id] = NoDoc]
              /\ Counted(e, Seen(e, docs, pend))
    BY <1>1, <1>2, RemovalR
  <2> HIDE DEF e, pend
  <2>3. Tame /\ ~Mixed => w[n][id] = old
    <3>1. 1 \in DOMAIN todo /\ Head(todo) = todo[1]
      BY <1>1, <2>1
    <3> QED
      BY <1>4, <2>1, <3>1 DEF Current
  <2>4. Tame /\ ~Mixed => Current([w EXCEPT ![n][id] = NoDoc], n, Tail(todo))
    BY <1>1, <1>4, <2>1, RestCurrent
  <2>5. Tame /\ ~Mixed => Counted(e, Seen(e, docs, pend)) /\ Current(Seen(e, docs, pend), n, Tail(todo))
    BY <1>3, <2>2, <2>3, <2>4
  <2>6. QueryStep(e, pend, Tail(todo))
    BY <2>1 DEF e, pend
  <2> QED
    BY <1>1, <2>2, <2>5, <2>6, QueryStepR DEF n
<1>7. CASE QueryApply(d)
  <2>1. PICK id \in Ids : /\ todo # <<>> /\ id = Head(todo).id
                          /\ QueryStep(PutCat(cat, n, id, d), PutPending(cat, n, id, d), Tail(todo))
    BY <1>1, <1>7 DEF QueryApply
  <2> DEFINE e == PutCat(cat, n, id, d)
             pend == PutPending(cat, n, id, d)
  <2> HIDE DEF n, todo
  <2>2. Tame /\ ~Mixed => /\ Seen(e, docs, pend) = [Seen(cat, docs, pending) EXCEPT ![n][id] = d]
                          /\ Counted(e, Seen(e, docs, pend))
    BY <1>1, <1>2, PutR
  <2>3. pend # <<>>
    BY <1>5
  <2> HIDE DEF e, pend
  <2>4. Tame /\ ~Mixed => Current([w EXCEPT ![n][id] = d], n, Tail(todo))
    BY <1>1, <1>4, <2>1, RestCurrent
  <2>5. Tame /\ ~Mixed => Counted(e, Seen(e, docs, pend)) /\ Current(Seen(e, docs, pend), n, Tail(todo))
    BY <1>3, <2>2, <2>4
  <2>6. QueryStep(e, pend, Tail(todo))
    BY <2>1 DEF e, pend
  <2> QED
    BY <1>1, <2>3, <2>5, <2>6, QueryStepR DEF n
<1>8. CASE QueryInsert(d)
  <2>1. PICK id \in Ids : LET c == RaiseNextId(cat, n, id)
                          IN  QueryStep(PutCat(c, n, id, d), PutPending(c, n, id, d), <<>>)
    BY <1>8 DEF QueryInsert
  <2> DEFINE c == RaiseNextId(cat, n, id)
             e == PutCat(c, n, id, d)
             pend == PutPending(c, n, id, d)
  <2> HIDE DEF n, todo
  <2>2. Quiet(cat, c) /\ Exists(c, n)
    BY <1>1, <1>2, RaiseQuiet
  <2>3. Tame /\ ~Mixed => Counted(e, Seen(e, docs, pend))
    BY <1>1, <1>2, <2>2, PutR
  <2>4. pend # <<>> /\ \A v : Current(v, n, <<>>)
    BY <1>5 DEF Current
  <2>5. QueryStep(e, pend, <<>>)
    BY <2>1
  <2> HIDE DEF e, pend
  <2> QED
    BY <1>1, <2>3, <2>4, <2>5, QueryStepR DEF n
<1> QED
  BY <1>6, <1>7, <1>8

LEMMA QueryEndsR ==
    ASSUME IInv, CInv, RInv, CInv', QueryFail \/ QueryEnd
    PROVE  RInv'
<1>1. /\ up /\ job \in QueryJobs /\ cat \in CatalogType /\ OwnRanges(cat, docs)
      /\ pending \in Seq(MutationType)
  BY InQueryType DEF QueryFail, QueryEnd, InQuery, IInv, TypeOK, CollectionsDisjoint
<1>2. job # IndexJob
  BY <1>1 DEF QueryJobs, IndexJob
<1>3. CASE ReleaseCall /\ UNCHANGED <<engine, memory, saved, up>> /\ (Tame' => Tame)
  <2>1. /\ cat' = cat /\ pending' = pending /\ dirtyFull' = dirtyFull /\ up' = up /\ docs' = docs
        /\ meta' = meta /\ saved' = saved /\ job' = NoJob /\ (owner' = "tx" => owner = "tx")
    BY <1>3 DEF ReleaseCall, engine, memory
  <2>2. ~Mixed' => ~Mixed
    BY <1>2, <2>1 DEF Mixed
  <2>3. Tame /\ ~Mixed => Counted(cat, Seen(cat, docs, pending))
    BY <1>1 DEF RInv, NowOK
  <2>4. Tame /\ owner = "tx" => Counted(saved.cat, Held(saved.cat, docs))
    BY DEF RInv, ThenOK
  <2>5. job'.kind # "query" /\ saved'.cat = saved.cat
    BY <2>1 DEF NoJob
  <2> QED
    BY <1>3, <2>1, <2>2, <2>3, <2>4, <2>5, StayR
<1>4. CASE owner = "call" /\ FinishCall(cat, pending)
  <2>1. owner # "tx" /\ (Tame => Counted(cat, Seen(cat, docs, pending)))
    BY <1>1, <1>4, MixedTx DEF RInv, NowOK
  <2> QED
    BY <1>1, <1>4, <2>1, FinishCallR
<1>5. QueryFail => (Tame' => Tame)
  BY TameBlame DEF QueryFail
<1>6. UNCHANGED faults => (Tame' => Tame)
  BY DEF Tame, Free
<1> QED
  BY <1>3, <1>4, <1>5, <1>6 DEF QueryFail, QueryEnd

----------------------------------------------------------------------------
(* Transactions and the process. *)

LEMMA TxBeginR ==
    ASSUME IInv, CInv, RInv, TxBegin
    PROVE  RInv'
<1>1. /\ up /\ owner = "none" /\ job = NoJob /\ saved'.cat = cat
      /\ cat' = cat /\ pending' = pending /\ meta' = meta /\ docs' = docs /\ job' = job /\ faults' = faults
  BY DEF TxBegin, Ready, engine, memory
<1>2. Tame' => Tame
  BY <1>1 DEF Tame, Free
<1>3. Tame => pending = <<>> /\ ~Mixed
  BY <1>1, TameParts, RestEmpty DEF Mixed
<1>4. Tame => Counted(cat, Held(cat, docs)) /\ Counted(cat, Seen(cat, docs, pending))
  BY <1>1, <1>3, StoredCounted DEF RInv, NowOK
<1>5. job'.kind # "query"
  BY <1>1 DEF NoJob
<1> QED
  BY <1>1, <1>2, <1>4, <1>5, StayR

LEMMA TxCommitR ==
    ASSUME IInv, CInv, RInv, CInv', TxCommit
    PROVE  RInv'
<1>1. CASE Panic(cat, pending, dirtyFull)
  BY <1>1, DownR DEF Panic
<1>2. CASE /\ TxEnd
           /\ commitLocked(cat, pending, dirtyMeta, dirtyFull)
           /\ Blame(If(dirtyFull /\ pending # <<>>, "discarded"))
  <2>1. up /\ owner' # "tx" /\ job' = NoJob /\ job # IndexJob
    BY <1>2 DEF TxEnd, Ready, NoJob, IndexJob
  <2>2. /\ cat \in CatalogType /\ pending \in Seq(MutationType) /\ OwnRanges(cat, docs)
        /\ dirtyFull \in BOOLEAN
    BY <2>1 DEF IInv, TypeOK, CollectionsDisjoint
  <2>3. Tame' => Tame /\ (dirtyFull => pending = <<>>)
    BY <1>2, TameBlame DEF If
  <2>4. Tame' => Counted(cat, Seen(cat, docs, pending))
    BY <2>1, <2>3 DEF RInv, NowOK, Mixed
  <2> QED
    BY <1>2, <2>1, <2>2, <2>3, <2>4, CommitR
<1> QED
  BY <1>1, <1>2 DEF TxCommit

\* An abort goes back to the counts of the stored documents, which no transaction
\* touches before its commit.
LEMMA TxAbortR ==
    ASSUME IInv, CInv, RInv, TxAbort
    PROVE  RInv'
<1>1. /\ owner = "tx" /\ owner' = "none" /\ job' = NoJob /\ meta' = meta /\ docs' = docs
      /\ cat' = saved.cat /\ pending' = SubSeq(pending, 1, saved.len)
      /\ Blame(If(BuiltInTx, "leaked"))
  BY DEF TxAbort, TxEnd, Ready, truncatePending, engine
<1>2. Tame' => Tame
  BY <1>1, TameBlame
<1>3. KeysOwned(docs) /\ pending \in Seq(MutationType) /\ job'.kind # "query"
  BY <1>1 DEF CInv, EntriesOK, IInv, TypeOK, NoJob
<1>4. PICK pend : pend = SubSeq(pending, 1, saved.len)
  OBVIOUS
<1>5. Tame => pend = <<>>
  <2>1. Tame => saved.len = 0
    BY TameParts DEF CInv, FlagsOK
  <2> QED
    BY <1>3, <1>4, <2>1
<1>6. Tame => Counted(saved.cat, Held(saved.cat, docs))
  BY <1>1 DEF RInv, ThenOK
<1>7. Tame => Counted(saved.cat, Seen(saved.cat, docs, pend))
  BY <1>3, <1>5, <1>6, SeenStored
<1>8. PICK s : s = saved'.cat
  OBVIOUS
<1> QED
  BY <1>1, <1>2, <1>3, <1>4, <1>7, <1>8, StayR

\* The catalog Open loads has been counted: the process did not end between the two
\* batches of an index.
LEMMA OpenR ==
    ASSUME IInv, CInv, RInv, Open
    PROVE  RInv'
<1>1. /\ ~up /\ cat' = meta /\ meta' = meta /\ docs' = docs /\ pending' = pending /\ job' = job
      /\ owner' = owner /\ faults' = faults
  BY DEF Open, engine
<1>2. owner = "none" /\ pending = <<>> /\ KeysOwned(docs) /\ meta \in CatalogType
  BY <1>1 DEF CInv, ControlOK, EntriesOK, IInv, TypeOK
<1>3. job'.kind # "query"
  BY <1>1, <1>2 DEF IInv, TypeOK, NoJob
<1>4. Tame' => Tame
  BY <1>1 DEF Tame, Free
<1>5. Tame => Counted(meta, Held(meta, docs))
  <2>1. Tame => IxBelow(meta, meta.next)
    BY <1>1, TameParts DEF CInv, IndexesOK
  <2>2. ASSUME IxBelow(meta, meta.next), NEW x \in IndexDbids(meta) PROVE ~(x > meta.next)
    <3>1. PICK n \in Names, p \in Paths : x = meta.cols[n].ix[p].dbid
      BY <2>2 DEF IndexDbids
    <3>2. x <= meta.next /\ meta.next \in Nat /\ x \in Nat
      BY <1>2, <2>2, <3>1 DEF IxBelow, CatalogType, CollectionType, IndexType
    <3> QED
      BY <3>2
  <2>3. Tame => ~Between
    BY <2>1, <2>2 DEF Between
  <2> QED
    BY <2>3 DEF RInv, OnceOK
<1>6. Tame => Counted(meta, Seen(meta, docs, pending))
  BY <1>2, <1>5, SeenStored
<1>7. PICK s : s = saved'.cat
  OBVIOUS
<1> QED
  BY <1>1, <1>2, <1>3, <1>4, <1>6, <1>7, StayR

LEMMA InitR == Init => RInv
<1> SUFFICES ASSUME Init PROVE RInv
  OBVIOUS
<1>1. /\ cat = newState /\ meta = newState /\ docs = <<>> /\ pending = <<>> /\ owner = "none"
      /\ job.kind # "query" /\ DOMAIN <<>> = {}
  BY DEF Init, NoJob
<1>2. \A n \in Names : newState.cols[n] = NoCollection
  BY NewStateOK
<1>3. Held(newState, docs) = [n \in Names |-> Nothing]
  BY <1>1 DEF Held, Nothing, getDoc
<1>4. Counted(newState, Held(newState, docs))
  <2>1. PICK w : w = Held(newState, docs) /\ \A n \in Names : w[n] = Nothing
    BY <1>3
  <2>2. Live(Nothing) = {} /\ Cardinality({}) = 0
    BY FS_EmptySet DEF Live, Nothing
  <2>3. \A n \in Names : newState.cols[n].rnum = 0 /\ Indexed(newState, n) = {}
    BY <1>2 DEF NoCollection, NoIndex, Indexed
  <2> QED
    BY <2>1, <2>2, <2>3 DEF Counted, CountedAt
<1>5. KeysOwned(docs)
  BY <1>1 DEF KeysOwned
<1>6. Counted(newState, Seen(newState, docs, <<>>))
  BY <1>4, <1>5, SeenStored
<1> QED
  BY <1>1, <1>4, <1>6 DEF RInv, NowOK, ThenOK, OnceOK

LEMMA NextR ==
    ASSUME IInv, CInv, XInv, RInv, CInv', [Next]_vars
    PROVE  RInv'
<1>1. ASSUME NEW n \in Names, EnsureCollection(n) PROVE RInv'
  BY <1>1, EnsureCollectionR
<1>2. ASSUME NEW n \in Names, RemoveCollection(n) PROVE RInv'
  BY <1>2, RemoveActionR
<1>3. ASSUME NEW n \in Names, NEW m \in Names, RenameCollection(n, m) PROVE RInv'
  BY <1>3, RenameActionR
<1>4. ASSUME NEW n \in Names, NEW d \in MaybeDocs, PutNew(n, d) PROVE RInv'
  <2>1. PICK id \in Ids : TRUE
    BY <1>4 DEF PutNew
  <2> QED
    BY <1>4, <2>1, PutActionsR
<1>5. ASSUME NEW n \in Names, NEW id \in Ids, NEW d \in MaybeDocs,
             Put(n, id, d) \/ Patch(n, id, d) \/ MergeOrPut(n, id, d)
      PROVE  RInv'
  BY <1>5, PutActionsR
<1>6. ASSUME NEW n \in Names, NEW id \in Ids, Delete(n, id) PROVE RInv'
  BY <1>6, DeleteR
<1>7. ASSUME NEW n \in Names, NEW p \in Paths, NEW unique \in IndexModes, EnsureIndex(n, p, unique)
      PROVE  RInv'
  BY <1>7, BoundsAssumption, EnsureIndexR
<1>8. ASSUME NEW n \in Names, NEW p \in Paths, RemoveIndex(n, p) PROVE RInv'
  BY <1>8, RemoveIndexActionR
<1>9. ASSUME NEW n \in Names, NEW act \in QueryActs, QueryBegin(n, act) PROVE RInv'
  BY <1>9, QueryBeginR
<1>10. ASSUME NEW d \in Docs, QueryApply(d) \/ QueryInsert(d) PROVE RInv'
  BY <1>10, QueryStepsR
<1>11. CASE QueryDelete
  <2>1. Head(job.todo).doc \in Docs
    BY <1>11, InQueryType DEF QueryDelete
  <2> QED
    BY <1>11, <2>1, QueryStepsR
<1>12. CASE QueryFail \/ QueryEnd
  BY <1>12, QueryEndsR
<1>13. CASE EnsureIndexDone
  BY <1>13, EnsureIndexDoneR
<1>14. CASE TxBegin \/ TxCommit \/ TxAbort
  BY <1>14, TxBeginR, TxCommitR, TxAbortR
<1>15. CASE Close \/ Crash
  BY <1>15, DownR DEF Close, Crash
<1>16. CASE Open
  BY <1>16, OpenR
<1>17. CASE UNCHANGED vars
  BY <1>17 DEF vars, engine, memory, control, RInv, Tame, Free, NowOK, ThenOK, OnceOK, Mixed, Between
<1> QED
  BY <1>1, <1>2, <1>3, <1>4, <1>5, <1>6, <1>7, <1>8, <1>9, <1>10, <1>11, <1>12,
     <1>13, <1>14, <1>15, <1>16, <1>17 DEF Next

----------------------------------------------------------------------------
(* What a reader relies on. *)

LEMMA CountsSafe ==
    ASSUME IInv, CInv, RInv
    PROVE  RNumExact
<1> SUFFICES ASSUME up, owner = "none", Tame, NEW n \in Names
             PROVE  /\ cat.cols[n].rnum = Cardinality(StoredIds(docs, cat.cols[n].dbid))
                    /\ \A p \in Indexed(cat, n) :
                          cat.cols[n].ix[p].rnum = Cardinality(IndexEntries(docs, cat.cols[n].dbid, p))
  BY DEF RNumExact, AtRest, Tame
<1>1. pending = <<>> /\ DocsType(docs)
  BY TameParts, RestEmpty DEF IInv, TypeOK
<1>2. PICK w : w = Held(cat, docs)
  OBVIOUS
<1>3. CountedAt(cat, w, n)
  BY <1>1, <1>2, StoredCounted DEF Counted
<1>4. \A id \in Ids : w[n][id] = getDoc(docs, cat.cols[n].dbid, id)
  BY <1>2 DEF Held
<1>5. Live(w[n]) = StoredIds(docs, cat.cols[n].dbid)
  BY <1>1, <1>4, NoDocAssumption DEF Live, StoredIds, getDoc, DocsType
<1>6. ASSUME NEW p PROVE Entries(w[n], p) = IndexEntries(docs, cat.cols[n].dbid, p)
  <2>1. ASSUME NEW e \in Keys \X Ids PROVE w[n][e[2]] = getDoc(docs, cat.cols[n].dbid, e[2])
    BY <1>4
  <2> QED
    BY <2>1 DEF Entries, IndexEntries
<1> QED
  BY <1>3, <1>5, <1>6 DEF CountedAt

\* The counts are exact for all names, ids, documents, indexes and bounds: whenever
\* no call runs, rnum of a collection is the number of its stored documents and rnum
\* of an index the number of its entries, though both are only ever incremented and
\* decremented (putLocked, Del, applyActionLocked, adjustIndexRNums, rebuildIndex), through
\* aborts, crashes and panics, unless a change failed half way outside a WriteTx, a
\* WriteTx discarded documents, a window named a document twice or the process ended
\* between the batches of an index.
THEOREM CountsAreExact == Spec => []RNumExact
<1> DEFINE Inv == IInv /\ CInv /\ XInv /\ RInv
<1>1. Init => Inv
  BY InitKeeps, InitOK, InitX, InitR
<1>2. Inv /\ [Next]_vars => Inv'
  BY NextKeeps, NextOK, NextX, NextR
<1>3. Inv => RNumExact
  BY CountsSafe
<1> QED
  BY <1>1, <1>2, <1>3, PTL DEF Spec
=============================================================================
