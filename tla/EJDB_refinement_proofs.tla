----------------------- MODULE EJDB_refinement_proofs -----------------------
(***************************************************************************)
(* EJDB implements TxStore: calls, queries and transactions are atomic, for  *)
(* all constants with no fault but "repeated" and "torn".  Builds on the     *)
(* invariants of EJDB_proofs and EJDB_catalog_proofs and on what             *)
(* EJDB_index_proofs says of the buffer.                                     *)
(***************************************************************************)
EXTENDS EJDB_index_proofs

----------------------------------------------------------------------------
(* The contents of a catalog, and through a buffer. *)

Held(c, stored) == [n \in Names |-> [id \in Ids |-> getDoc(stored, c.cols[n].dbid, id)]]

Seen(c, stored, pend) ==
    [n \in Names |-> [id \in Ids |->
        IF Exists(c, n) THEN pendingDocState(pend, n, id, getDoc(stored, c.cols[n].dbid, id))
        ELSE NoDoc]]

\* The contents after one mutation.
Edit(w, m) == [w EXCEPT ![m.col][m.id] = m.new]

\* Every buffered mutation is of a collection of the catalog.
Homes(c, pend) == \A i \in DOMAIN pend : Exists(c, pend[i].col)

\* With nothing buffered a reader sees what is stored.
LEMMA SeenStored ==
    ASSUME NEW c, NEW stored, KeysOwned(stored)
    PROVE  Seen(c, stored, <<>>) = Held(c, stored)
<1>1. \A n, id : pendingDocState(<<>>, n, id, getDoc(stored, c.cols[n].dbid, id)) =
                 getDoc(stored, c.cols[n].dbid, id)
  BY DEF pendingDocState, Touches
<1>2. \A id : getDoc(stored, 0, id) = NoDoc
  BY DEF getDoc, KeysOwned
<1>3. ASSUME NEW n \in Names, NEW id \in Ids
      PROVE  (IF Exists(c, n) THEN pendingDocState(<<>>, n, id, getDoc(stored, c.cols[n].dbid, id))
              ELSE NoDoc) = getDoc(stored, c.cols[n].dbid, id)
  BY <1>1, <1>2 DEF Exists
<1> QED
  BY <1>3 DEF Seen, Held

\* The batch stores what was seen through the buffer (persistPendingLocked).
LEMMA PersistSeen ==
    ASSUME NEW c \in CatalogType, NEW stored, DocsType(stored), OwnRanges(c, stored),
           NEW pend \in Seq(MutationType), KeysOwned(persistDocs(c, stored, pend))
    PROVE  Held(c, persistDocs(c, stored, pend)) = Seen(c, stored, pend)
<1>1. PICK left : left = persistDocs(c, stored, pend)
  OBVIOUS
<1>2. ASSUME NEW n \in Names, NEW id \in Ids
      PROVE  getDoc(left, c.cols[n].dbid, id) =
             IF Exists(c, n) THEN pendingDocState(pend, n, id, getDoc(stored, c.cols[n].dbid, id))
             ELSE NoDoc
  <2>1. CASE Exists(c, n)
    <3>1. ViewAt(c, stored, pend, n, id, Len(pend)) =
              pendingDocState(pend, n, id, getDoc(stored, c.cols[n].dbid, id))
      BY ViewEnds
    <3> QED
      BY <1>1, <2>1, <3>1, PersistGet
  <2>2. CASE ~Exists(c, n)
    <3>1. c.cols[n].dbid = 0 /\ getDoc(left, 0, id) = NoDoc
      BY <1>1, <2>2 DEF Exists, getDoc, KeysOwned
    <3> QED
      BY <2>2, <3>1
  <2> QED
    BY <2>1, <2>2
<1>3. Held(c, left) = Seen(c, stored, pend)
  BY <1>2 DEF Held, Seen
<1> QED
  BY <1>1, <1>3

\* Catalogs that differ in no dbid show the same.
LEMMA SameSeen ==
    ASSUME NEW b, NEW c, \A n \in Names : c.cols[n].dbid = b.cols[n].dbid, NEW stored, NEW pend
    PROVE  Seen(c, stored, pend) = Seen(b, stored, pend)
BY DEF Seen, Exists

\* A new collection shows no documents: its range is above those in use.
LEMMA GrowSeen ==
    ASSUME NEW b \in CatalogType, NEW c, Grow(b, c), NEW stored, DocsType(stored), OwnRanges(b, stored),
           NEW pend \in Seq(MutationType), Homes(b, pend)
    PROVE  Seen(c, stored, pend) = Seen(b, stored, pend) /\ Homes(c, pend)
<1>1. ASSUME NEW n \in Names, ~Exists(b, n), Exists(c, n), NEW id \in Ids
      PROVE  pendingDocState(pend, n, id, getDoc(stored, c.cols[n].dbid, id)) = NoDoc
  <2>1. b.next \in Nat /\ c.cols[n].dbid \in Nat /\ b.next < c.cols[n].dbid
    BY <1>1, CatalogParts DEF Grow, GoodUpdate, Kept, Fresh, Exists
  <2>2. Touches(pend, n, id) = {}
    BY <1>1 DEF Touches, Homes
  <2>3. <<c.cols[n].dbid, id>> \notin DOMAIN stored
    BY <2>1 DEF OwnRanges, DocsType
  <2> QED
    BY <2>2, <2>3 DEF pendingDocState, getDoc
<1>2. ASSUME NEW n \in Names PROVE c.cols[n].dbid = b.cols[n].dbid \/ (~Exists(b, n) /\ Exists(c, n))
  <2>1. b.next \in Nat /\ c.cols[n].dbid \in Nat
    BY CatalogParts DEF Grow, GoodUpdate
  <2>2. b.next < c.cols[n].dbid => c.cols[n].dbid # 0
    BY <2>1
  <2> QED
    BY <2>2 DEF Grow, Kept, Fresh, Exists
<1>3. ASSUME NEW n \in Names, NEW id \in Ids
      PROVE  (IF Exists(c, n) THEN pendingDocState(pend, n, id, getDoc(stored, c.cols[n].dbid, id))
              ELSE NoDoc) =
             (IF Exists(b, n) THEN pendingDocState(pend, n, id, getDoc(stored, b.cols[n].dbid, id))
              ELSE NoDoc)
  BY <1>1, <1>2 DEF Exists
<1>4. Seen(c, stored, pend) = Seen(b, stored, pend)
  BY <1>3 DEF Seen
<1>5. Homes(c, pend)
  <2>1. \A i \in DOMAIN pend : pend[i].col \in Names
    BY TouchesType
  <2> QED
    BY <1>2, <2>1 DEF Homes, Exists
<1> QED
  BY <1>4, <1>5

\* One more mutation changes one document.
LEMMA AppendSeen ==
    ASSUME NEW c, NEW stored, NEW pend \in Seq(MutationType), NEW m \in MutationType,
           Exists(c, m.col), Homes(c, pend)
    PROVE  /\ Seen(c, stored, Append(pend, m)) = Edit(Seen(c, stored, pend), m)
           /\ Homes(c, Append(pend, m)) /\ Append(pend, m) \in Seq(MutationType)
<1>1. PICK q : q = Append(pend, m)
  OBVIOUS
<1>2. /\ q \in Seq(MutationType) /\ Len(pend) \in Nat /\ Len(q) = Len(pend) + 1
      /\ DOMAIN q = 1..(Len(pend) + 1) /\ DOMAIN pend = 1..Len(pend) /\ q[Len(pend) + 1] = m
      /\ \A j \in DOMAIN pend : q[j] = pend[j]
  BY <1>1
<1>3. ASSUME NEW n \in Names, NEW id \in Ids
      PROVE  pendingDocState(q, n, id, getDoc(stored, c.cols[n].dbid, id)) =
             IF m.col = n /\ m.id = id THEN m.new
             ELSE pendingDocState(pend, n, id, getDoc(stored, c.cols[n].dbid, id))
  <2>1. ViewAt(c, stored, q, n, id, Len(pend) + 1) =
            IF m.col = n /\ m.id = id THEN m.new ELSE ViewAt(c, stored, pend, n, id, Len(pend))
    BY <1>1, ViewAppend
  <2>2. ViewAt(c, stored, q, n, id, Len(q)) =
            pendingDocState(q, n, id, getDoc(stored, c.cols[n].dbid, id))
    BY <1>2, ViewEnds
  <2>3. ViewAt(c, stored, pend, n, id, Len(pend)) =
            pendingDocState(pend, n, id, getDoc(stored, c.cols[n].dbid, id))
    BY ViewEnds
  <2> QED
    BY <1>2, <2>1, <2>2, <2>3
<1>4. m.col \in Names /\ m.id \in Ids
  BY DEF MutationType
<1>5. Seen(c, stored, q) = Edit(Seen(c, stored, pend), m)
  BY <1>3, <1>4, SMTT(30) DEF Seen, Edit
<1>6. Homes(c, q)
  <2>1. \A i \in DOMAIN q : i \in DOMAIN pend \/ i = Len(pend) + 1
    BY <1>2
  <2> QED
    BY <1>2, <2>1 DEF Homes
<1> QED
  BY <1>1, <1>2, <1>5, <1>6

----------------------------------------------------------------------------
(* The invariant beside IInv and CInv, and what a step may do to the contents. *)

\* No fault occurs that ends a promise of TxStore.
Calm == Tolerated \subseteq {"repeated", "torn"}

\* A transaction buffers documents or changes the catalog, not both, and builds no
\* index; what it buffers has a collection.
SInv ==
    /\ faults \subseteq {"repeated", "torn"}
    /\ dirtyFull => pending = <<>>
    /\ job = IndexJob => owner = "call"
    /\ Homes(cat, pending)

Com == Held(meta, docs)

Wrk == IF up THEN Seen(cat, docs, pending) ELSE Com

RestOK == owner = "none" => Com = Wrk

Nothing == [id \in Ids |-> NoDoc]

Changed(w, v) ==
    \E n \in Names :
        \/ \E id \in Ids, d \in MaybeDocs : v = [w EXCEPT ![n][id] = d]
        \/ v = [w EXCEPT ![n] = Nothing]
        \/ \E m \in Names \ {n} : w[m] = Nothing /\ v = [w EXCEPT ![m] = w[n], ![n] = Nothing]

\* A step ends what ran and leaves the stored contents, or it keeps the working
\* contents or changes them by one document or one collection.
Effect ==
    \/ owner' = "none" /\ Com' = Com
    \/ /\ owner' # "none" => Com' = Com
       /\ Wrk' = Wrk \/ (Changed(Wrk, Wrk') /\ (owner = "none" <=> owner' = "none"))

LEMMA BlameCalm ==
    ASSUME Calm, NEW S, Blame(S)
    PROVE  S \subseteq {"repeated", "torn"} /\ faults' \subseteq {"repeated", "torn"}
BY DEF Calm, Blame

LEMMA CalmMeans ==
    ASSUME SInv
    PROVE  Sound /\ Free({"abandoned", "leaked"})
BY DEF SInv, Sound, Free

\* While nothing runs, what is seen is what is stored: commitLocked has written all.
LEMMA AtRestSame ==
    ASSUME IInv, CInv, SInv
    PROVE  RestOK
<1> SUFFICES ASSUME owner = "none", up PROVE Com = Wrk
  BY DEF RestOK, Wrk
<1>1. Sound /\ Free({"abandoned", "leaked"}) /\ job # IndexJob
  BY CalmMeans DEF SInv
<1>2. pending = <<>> /\ ~dirtyMeta /\ KeysOwned(docs)
  BY <1>1 DEF CInv, FlagsOK, EntriesOK
<1>3. Behind(meta, cat, docs)
  BY <1>1, <1>2 DEF CInv, StoredOK
<1>4. Wrk = Held(cat, docs)
  BY <1>2, SeenStored DEF Wrk
<1>5. ASSUME NEW n \in Names, NEW id \in Ids
      PROVE  getDoc(docs, meta.cols[n].dbid, id) = getDoc(docs, cat.cols[n].dbid, id)
  <2>1. CASE meta.cols[n].dbid = cat.cols[n].dbid
    BY <2>1
  <2>2. CASE meta.cols[n].dbid # cat.cols[n].dbid
    <3>1. meta.cols[n].dbid = 0 /\ StoredIds(docs, cat.cols[n].dbid) = {}
      BY <1>3, <2>2 DEF Behind
    <3> QED
      BY <1>2, <3>1 DEF StoredIds, getDoc, KeysOwned
  <2> QED
    BY <2>1, <2>2
<1> QED
  BY <1>4, <1>5 DEF Com, Held

----------------------------------------------------------------------------
(* The ways a step can end. *)

\* The end of the process drops what is in memory only.
LEMMA DownS ==
    ASSUME Calm, Down, NEW S, Blame(S)
    PROVE  SInv' /\ owner' = "none" /\ Com' = Com
<1>1. /\ owner' = "none" /\ job' = NoJob /\ pending' = <<>> /\ dirtyFull' = FALSE
      /\ meta' = meta /\ docs' = docs /\ faults' \subseteq {"repeated", "torn"}
  BY BlameCalm DEF Down, clearPending, engine
<1>2. NoJob # IndexJob /\ DOMAIN <<>> = {}
  BY DEF NoJob, IndexJob
<1> QED
  BY <1>1, <1>2 DEF SInv, Homes, Com

\* commitLocked makes what was seen the stored contents.
LEMMA CommitS ==
    ASSUME IInv, CInv', NEW c \in CatalogType, OwnRanges(c, docs), NEW pend \in Seq(MutationType),
           NEW dm, NEW df, df => pend = <<>>, up' , commitLocked(c, pend, dm, df), KeysOwned(docs)
    PROVE  /\ Wrk' = Seen(c, docs, pend)
           /\ cat' = c /\ pending' = <<>> /\ ~dirtyFull'
<1>1. cat' = c /\ pending' = <<>> /\ ~dirtyFull'
  BY DEF commitLocked, clearPending
<1>2. KeysOwned(docs') /\ DocsType(docs)
  BY DEF CInv, EntriesOK, IInv, TypeOK
<1>3. Wrk' = Held(c, docs')
  BY <1>1, <1>2, SeenStored DEF Wrk
<1>4. CASE docs' = persistDocs(c, docs, pend)
  <2>1. Held(c, persistDocs(c, docs, pend)) = Seen(c, docs, pend)
    BY <1>2, <1>4, PersistSeen
  <2> QED
    BY <1>1, <1>3, <1>4, <2>1
<1>5. CASE docs' = docs /\ pend = <<>>
  BY <1>1, <1>3, <1>5, SeenStored
<1> QED
  BY <1>1, <1>4, <1>5 DEF commitLocked, persistPendingLocked, persistFullLocked, engine

\* The end of a DB method: a failed commit is a fault, a panic ends the process.
LEMMA FinishCallS ==
    ASSUME Calm, IInv, CInv, SInv, CInv', up, owner # "tx", NEW c \in CatalogType, OwnRanges(c, docs),
           NEW pend \in Seq(MutationType), FinishCall(c, pend)
    PROVE  /\ SInv' /\ owner' = "none"
           /\ Com' = Com \/ Wrk' = Seen(c, docs, pend)
<1>1. ~dirtyFull /\ KeysOwned(docs)
  BY CalmMeans DEF CInv, FlagsOK, EntriesOK
<1>2. CASE /\ commitLocked(c, pend, TRUE, dirtyFull)
           /\ owner' = "none" /\ job' = NoJob
           /\ UNCHANGED <<saved, up, faults>>
  <2>1. up' /\ faults' = faults /\ job' # IndexJob /\ owner' = "none" /\ DOMAIN <<>> = {}
    BY <1>2 DEF NoJob, IndexJob
  <2>2. /\ Wrk' = Seen(c, docs, pend)
        /\ cat' = c /\ pending' = <<>> /\ ~dirtyFull'
    BY <1>1, <1>2, <2>1, CommitS
  <2> QED
    BY <2>1, <2>2 DEF SInv, Homes
<1>3. CASE Blame({"abandoned"})
  BY <1>3, BlameCalm
<1>4. CASE Panic(c, pend, dirtyFull)
  BY <1>4, DownS DEF Panic
<1> QED
  BY <1>2, <1>3, <1>4 DEF FinishCall

\* The end of a Tx method.
LEMMA FinishTxS ==
    ASSUME Calm, IInv, SInv, up, NEW c, NEW pend, Homes(c, pend), NEW full, FinishTx(c, pend, full)
    PROVE  /\ SInv' /\ owner' = owner
           /\ Com' = Com /\ Wrk' = Seen(c, docs, pend)
<1>1. /\ cat' = c /\ pending' = pend /\ up' = up /\ docs' = docs /\ meta' = meta /\ owner' = owner
      /\ job' = NoJob /\ Blame(If(dirtyFull' /\ pend # <<>>, "ddl"))
  BY DEF FinishTx, engine
<1>2. (dirtyFull' => pend = <<>>) /\ faults' \subseteq {"repeated", "torn"}
  BY <1>1, BlameCalm DEF If
<1>3. SInv'
  BY <1>1, <1>2 DEF SInv, NoJob, IndexJob
<1> QED
  BY <1>1, <1>3 DEF Com, Wrk

\* A method ends with its effect, or with none.
LEMMA FinishS ==
    ASSUME Calm, IInv, CInv, SInv, CInv', up, NEW c \in CatalogType, OwnRanges(c, docs),
           NEW pend \in Seq(MutationType), Homes(c, pend), NEW full, Finish(c, pend, full),
           owner = "call" => Seen(c, docs, pend) = Wrk,
           Seen(c, docs, pend) = Wrk \/ Changed(Wrk, Seen(c, docs, pend))
    PROVE  SInv' /\ Effect
<1>1. CASE owner # "tx" /\ FinishCall(c, pend)
  <2>1. /\ SInv' /\ owner' = "none"
        /\ Com' = Com \/ Wrk' = Seen(c, docs, pend)
    BY <1>1, FinishCallS
  <2>2. owner = "none" \/ owner = "call"
    BY <1>1 DEF IInv, TypeOK
  <2> QED
    BY <2>1, <2>2 DEF Effect
<1>2. CASE owner = "tx" /\ FinishTx(c, pend, full)
  <2>1. /\ SInv' /\ owner' = owner
        /\ Com' = Com /\ Wrk' = Seen(c, docs, pend)
    BY <1>2, FinishTxS
  <2> QED
    BY <2>1 DEF Effect
<1> QED
  BY <1>1, <1>2 DEF Finish

\* A refused call shows nothing new.
LEMMA RefuseS ==
    ASSUME IInv, SInv, up, NEW c, Grow(cat, c), Refuse(c)
    PROVE  SInv' /\ Effect
<1>1. /\ cat' = c /\ pending' = pending /\ dirtyFull' = dirtyFull /\ up' = up /\ docs' = docs
      /\ meta' = meta /\ owner' = owner /\ job' = job /\ faults' = faults
  BY DEF Refuse, engine, control
<1>2. Seen(c, docs, pending) = Seen(cat, docs, pending) /\ Homes(c, pending)
  BY GrowSeen DEF IInv, TypeOK, CollectionsDisjoint, SInv
<1>3. Com' = Com /\ Wrk' = Wrk
  BY <1>1, <1>2 DEF Com, Wrk
<1> QED
  BY <1>1, <1>2, <1>3 DEF SInv, Effect

----------------------------------------------------------------------------
(* Collections and documents. *)

\* A method that only grows the catalog.
LEMMA GrowFinishS ==
    ASSUME Calm, IInv, CInv, SInv, CInv', up, job # IndexJob, NEW c, Grow(cat, c), NEW full,
           Finish(c, pending, full)
    PROVE  SInv' /\ Effect
<1>1. /\ cat \in CatalogType /\ c \in CatalogType /\ pending \in Seq(MutationType)
      /\ DocsType(docs) /\ OwnRanges(cat, docs) /\ Homes(cat, pending)
  BY DEF IInv, TypeOK, CollectionsDisjoint, SInv, Grow, GoodUpdate
<1>2. OwnRanges(c, docs)
  BY <1>1, HereOK, GrowOK DEF CatOK
<1>3. Seen(c, docs, pending) = Wrk /\ Homes(c, pending)
  BY <1>1, GrowSeen DEF Wrk
<1> QED
  BY <1>1, <1>2, <1>3, FinishS

\* A buffered mutation, under a catalog grown for it, changes one document.
LEMMA MutationSeen ==
    ASSUME IInv, up, Homes(cat, pending), NEW b \in CatalogType, Grow(cat, b),
           NEW c \in CatalogType, Grow(b, c), OwnRanges(b, docs), NEW m \in MutationType, Exists(b, m.col)
    PROVE  /\ Homes(c, Append(pending, m)) /\ Append(pending, m) \in Seq(MutationType)
           /\ Seen(c, docs, Append(pending, m)) = Edit(Seen(cat, docs, pending), m)
<1>1. /\ cat \in CatalogType /\ pending \in Seq(MutationType)
      /\ DocsType(docs) /\ OwnRanges(cat, docs)
  BY DEF IInv, TypeOK, CollectionsDisjoint
<1>2. Seen(b, docs, pending) = Seen(cat, docs, pending) /\ Homes(b, pending)
  BY <1>1, GrowSeen
<1>3. PICK q : q = Append(pending, m)
  OBVIOUS
<1>4. Seen(b, docs, q) = Edit(Seen(b, docs, pending), m) /\ Homes(b, q) /\ q \in Seq(MutationType)
  BY <1>1, <1>2, <1>3, AppendSeen
<1>5. Seen(c, docs, q) = Seen(b, docs, q) /\ Homes(c, q)
  BY <1>1, <1>4, GrowSeen
<1> QED
  BY <1>2, <1>3, <1>4, <1>5

LEMMA MutationS ==
    ASSUME IInv, SInv, up, NEW b \in CatalogType, Grow(cat, b), NEW c \in CatalogType, Grow(b, c),
           OwnRanges(b, docs), NEW m \in MutationType, Exists(b, m.col)
    PROVE  /\ Homes(c, Append(pending, m)) /\ Append(pending, m) \in Seq(MutationType)
           /\ Changed(Wrk, Seen(c, docs, Append(pending, m)))
<1>1. Homes(cat, pending) /\ m.col \in Names /\ m.id \in Ids /\ m.new \in MaybeDocs
  BY DEF SInv, MutationType
<1>2. PICK w, v : /\ w = Wrk /\ v = Seen(c, docs, Append(pending, m))
                  /\ v = Edit(w, m)
  BY <1>1, MutationSeen DEF Wrk
<1>3. \E n \in Names : \E id \in Ids, d \in MaybeDocs : v = [w EXCEPT ![n][id] = d]
  <2>1. PICK n \in Names, id \in Ids, d \in MaybeDocs : n = m.col /\ id = m.id /\ d = m.new
    BY <1>1
  <2>2. v = [w EXCEPT ![n][id] = d]
    BY <1>2, <2>1 DEF Edit
  <2> QED
    BY <2>2, Zenon
<1>4. Changed(w, v)
  BY <1>3, Zenon DEF Changed
<1> QED
  BY <1>1, <1>2, <1>4, MutationSeen

LEMMA PutS ==
    ASSUME IInv, CInv, SInv, up, job # IndexJob, NEW c, Grow(cat, c), NEW n \in Names, Exists(c, n),
           NEW id \in Ids, NEW d \in MaybeDocs
    PROVE  LET e == PutCat(c, n, id, d)
               pend == PutPending(c, n, id, d)
           IN  /\ e \in CatalogType /\ OwnRanges(e, docs) /\ Homes(e, pend) /\ pend \in Seq(MutationType)
               /\ Changed(Wrk, Seen(e, docs, pend))
<1> DEFINE old == OldDoc(c, n, id)
           m == Mutation(n, id, old, d)
           e == PutCat(c, n, id, d)
<1>1. cat \in CatalogType /\ c \in CatalogType /\ old \in MaybeDocs
  BY OldDocType DEF IInv, TypeOK, Grow, GoodUpdate
<1>2. m \in MutationType /\ m.col = n
  BY <1>1 DEF Mutation, MutationType
<1>3. CatOK(c)
  BY <1>1, HereOK, GrowOK
<1>4. CatOK(e) /\ Grow(c, e)
  BY <1>1, <1>3, PutOK
<1>5. e \in CatalogType /\ OwnRanges(e, docs) /\ OwnRanges(c, docs)
  BY <1>3, <1>4 DEF CatOK
<1>6. PutPending(c, n, id, d) = Append(pending, m)
  BY DEF PutPending
<1> HIDE DEF m, e
<1>7. /\ Homes(e, Append(pending, m)) /\ Append(pending, m) \in Seq(MutationType)
      /\ Changed(Wrk, Seen(e, docs, Append(pending, m)))
  BY <1>1, <1>2, <1>4, <1>5, MutationS
<1> QED
  BY <1>5, <1>6, <1>7 DEF e

LEMMA PutLockedS ==
    ASSUME Calm, IInv, CInv, SInv, CInv', Ready, NEW c, Grow(cat, c), NEW n \in Names, Exists(c, n),
           NEW id \in Ids, NEW d \in MaybeDocs, NEW e, Grow(cat, e), putLocked(c, n, id, d, e)
    PROVE  SInv' /\ Effect
<1>1. up /\ job # IndexJob /\ owner # "call"
  BY DEF Ready, NoJob, IndexJob, IInv, TypeOK
<1>2. CASE Finish(PutCat(c, n, id, d), PutPending(c, n, id, d), FALSE)
  BY <1>1, <1>2, PutS, FinishS
<1>3. CASE Refuse(e)
  BY <1>1, <1>3, RefuseS
<1> QED
  BY <1>2, <1>3 DEF putLocked

LEMMA PutActionsS ==
    ASSUME Calm, IInv, CInv, SInv, CInv', NEW n \in Names, NEW id \in Ids, NEW d \in MaybeDocs,
           PutNew(n, d) \/ Put(n, id, d) \/ Patch(n, id, d) \/ MergeOrPut(n, id, d)
    PROVE  SInv' /\ Effect
<1> DEFINE c == ensureCollection(cat, n)
<1>1. cat \in CatalogType /\ Ready
  BY DEF IInv, TypeOK, PutNew, Put, Patch, MergeOrPut
<1>2. Grow(cat, c) /\ Exists(c, n) /\ c \in CatalogType
  BY <1>1, EnsureQuiet DEF Grow, GoodUpdate
<1>3. ASSUME NEW k \in Ids
      PROVE  Grow(cat, RaiseNextId(c, n, k)) /\ Exists(RaiseNextId(c, n, k), n)
  <2>1. Grow(c, RaiseNextId(c, n, k)) /\ Exists(RaiseNextId(c, n, k), n)
    BY <1>2, RaiseQuiet
  <2> QED
    BY <1>1, <1>2, <2>1, GrowTrans
<1>4. CASE PutNew(n, d)
  <2>1. PICK k \in Ids : putLocked(RaiseNextId(c, n, k), n, k, d, c)
    BY <1>4 DEF PutNew
  <2> QED
    BY <1>1, <1>2, <1>3, <2>1, PutLockedS
<1>5. ASSUME putLocked(RaiseNextId(c, n, id), n, id, d, RaiseNextId(c, n, id)) PROVE SInv' /\ Effect
  BY <1>1, <1>3, <1>5, PutLockedS
<1>6. ASSUME putLocked(c, n, id, d, c) PROVE SInv' /\ Effect
  BY <1>1, <1>2, <1>6, PutLockedS
<1>7. CASE Patch(n, id, d)
  <2>1. Exists(cat, n) /\ putLocked(cat, n, id, d, cat) /\ Grow(cat, cat)
    BY <1>1, <1>7, GrowSame DEF Patch
  <2> QED
    BY <1>1, <2>1, PutLockedS
<1>8. Put(n, id, d) => putLocked(RaiseNextId(c, n, id), n, id, d, RaiseNextId(c, n, id))
  BY DEF Put
<1>9. MergeOrPut(n, id, d) => \/ putLocked(RaiseNextId(c, n, id), n, id, d, RaiseNextId(c, n, id))
                              \/ putLocked(c, n, id, d, c)
  BY DEF MergeOrPut
<1> QED
  BY <1>4, <1>5, <1>6, <1>7, <1>8, <1>9

\* A delete of `old` shows one document less.
LEMMA RemovalS ==
    ASSUME IInv, CInv, SInv, up, job # IndexJob, NEW n \in Names, Exists(cat, n), NEW id \in Ids,
           NEW old \in MaybeDocs
    PROVE  LET e == CountDelete(cat, n, old)
               pend == Append(pending, Mutation(n, id, old, NoDoc))
           IN  /\ e \in CatalogType /\ OwnRanges(e, docs) /\ Homes(e, pend) /\ pend \in Seq(MutationType)
               /\ Changed(Wrk, Seen(e, docs, pend))
<1> DEFINE m == Mutation(n, id, old, NoDoc)
           e == CountDelete(cat, n, old)
<1>1. cat \in CatalogType /\ OwnRanges(cat, docs) /\ NoDoc \in MaybeDocs
  BY DEF IInv, TypeOK, CollectionsDisjoint, MaybeDocs
<1>2. m \in MutationType /\ m.col = n
  BY <1>1 DEF Mutation, MutationType
<1>3. Grow(cat, e) /\ Grow(cat, cat)
  BY <1>1, CountGrow, GrowSame
<1> HIDE DEF m, e
<1>4. e \in CatalogType /\ OwnRanges(e, docs)
  BY <1>1, <1>3, HereOK, GrowOK DEF CatOK
<1>5. /\ Homes(e, Append(pending, m)) /\ Append(pending, m) \in Seq(MutationType)
      /\ Changed(Wrk, Seen(e, docs, Append(pending, m)))
  BY <1>1, <1>2, <1>3, <1>4, MutationS
<1> QED
  BY <1>4, <1>5 DEF e, m

LEMMA DeleteS ==
    ASSUME Calm, IInv, CInv, SInv, CInv', NEW n \in Names, NEW id \in Ids, Delete(n, id)
    PROVE  SInv' /\ Effect
<1>1. up /\ job # IndexJob /\ owner # "call" /\ Exists(cat, n)
  BY DEF Delete, Ready, NoJob, IndexJob, IInv, TypeOK
<1>2. PICK old \in MaybeDocs :
         Finish(CountDelete(cat, n, old), Append(pending, Mutation(n, id, old, NoDoc)), FALSE)
  BY OldDocType DEF Delete, IInv, TypeOK
<1> QED
  BY <1>1, <1>2, RemovalS, FinishS

LEMMA EnsureCollectionS ==
    ASSUME Calm, IInv, CInv, SInv, CInv', NEW n \in Names, EnsureCollection(n)
    PROVE  SInv' /\ Effect
<1>1. up /\ job # IndexJob /\ cat \in CatalogType
  BY DEF EnsureCollection, Ready, NoJob, IndexJob, IInv, TypeOK
<1>2. Grow(cat, ensureCollection(cat, n)) /\ Finish(ensureCollection(cat, n), pending, FALSE)
  BY <1>1, EnsureQuiet DEF EnsureCollection
<1> QED
  BY <1>1, <1>2, GrowFinishS

----------------------------------------------------------------------------
(* Catalog changes: nothing is buffered beside them. *)

\* A Tx method that marks the whole catalog dirty.
LEMMA FullEmpty ==
    ASSUME Calm, NEW c, FinishTx(c, pending, TRUE)
    PROVE  pending = <<>>
<1>1. dirtyFull' /\ Blame(If(dirtyFull' /\ pending # <<>>, "ddl"))
  BY DEF FinishTx
<1> QED
  BY <1>1, BlameCalm DEF If

\* A transaction changes the catalog: what is seen is what it shows of the stored.
LEMMA FullTxS ==
    ASSUME Calm, IInv, CInv, SInv, up, owner = "tx", NEW c, FinishTx(c, pending, TRUE),
           Held(c, docs) = Held(cat, docs) \/ Changed(Held(cat, docs), Held(c, docs))
    PROVE  SInv' /\ Effect
<1>1. pending = <<>> /\ KeysOwned(docs)
  BY FullEmpty DEF CInv, EntriesOK
<1>2. Wrk = Held(cat, docs) /\ Seen(c, docs, pending) = Held(c, docs)
  BY <1>1, SeenStored DEF Wrk
<1>3. Homes(c, pending)
  BY <1>1 DEF Homes
<1>4. SInv' /\ owner' = owner /\ Com' = Com /\ Wrk' = Seen(c, docs, pending)
  BY <1>3, FinishTxS
<1> QED
  BY <1>2, <1>4 DEF Effect

\* RemoveCollection and RemoveIndex with a batch of their own.
LEMMA DropS ==
    ASSUME Calm, IInv, CInv, SInv, CInv', Ready, owner = "none", NEW c, NEW left, NEW xs,
           dropAndCommitLocked(c, left, xs),
           Held(c, left) = Held(cat, docs) \/ Changed(Held(cat, docs), Held(c, left))
    PROVE  SInv' /\ Effect
<1>1. up /\ job = NoJob /\ owner # "tx" /\ KeysOwned(docs)
  BY DEF Ready, CInv, EntriesOK
<1>2. pending = <<>> /\ ~dirtyFull
  BY <1>1, CalmMeans, RestEmpty
<1>3. CASE Blame({"abandoned"})
  BY <1>3, BlameCalm
<1>4. CASE meta' = c /\ docs' = left /\ UNCHANGED faults
  <2>1. /\ cat' = c /\ pending' = <<>> /\ ~dirtyFull' /\ up' /\ owner' = "none" /\ job' = NoJob
        /\ faults' = faults
    BY <1>1, <1>2, <1>4 DEF dropAndCommitLocked, control
  <2>2. KeysOwned(docs')
    BY DEF CInv, EntriesOK
  <2>3. Wrk = Held(cat, docs) /\ Wrk' = Held(c, left)
    BY <1>1, <1>2, <1>4, <2>1, <2>2, SeenStored DEF Wrk
  <2>4. SInv'
    BY <2>1 DEF SInv, Homes, NoJob, IndexJob
  <2> QED
    BY <2>1, <2>3, <2>4 DEF Effect
<1> QED
  BY <1>3, <1>4 DEF dropAndCommitLocked

\* Without its catalog entry a collection shows nothing, whether or not its
\* documents are gone, and the others keep theirs.
LEMMA RemovedRows ==
    ASSUME IInv, CInv, up, NEW n \in Names, NEW left, KeysOwned(left),
           left = docs \/ (Exists(cat, n) /\ left = dropDocs(docs, cat.cols[n].dbid))
    PROVE  Held(removeCollection(cat, n), left) = [Held(cat, docs) EXCEPT ![n] = Nothing]
<1> DEFINE c == removeCollection(cat, n)
<1>1. /\ cat \in CatalogType /\ OwnRanges(cat, docs)
      /\ c.cols[n].dbid = 0 /\ \A m \in Names \ {n} : c.cols[m] = cat.cols[m]
  BY DEF IInv, TypeOK, CollectionsDisjoint, removeCollection, WithCollection, CatalogType, NoCollection
<1>2. ASSUME NEW id \in Ids PROVE getDoc(left, c.cols[n].dbid, id) = NoDoc
  BY <1>1 DEF getDoc, KeysOwned
<1>3. ASSUME NEW m \in Names \ {n}, NEW id \in Ids
      PROVE  getDoc(left, c.cols[m].dbid, id) = getDoc(docs, cat.cols[m].dbid, id)
  <2>1. CASE left = docs
    BY <1>1, <2>1
  <2>2. CASE Exists(cat, n) /\ left = dropDocs(docs, cat.cols[n].dbid)
    <3>1. cat.cols[m].dbid # cat.cols[n].dbid
      BY <1>1, <2>2 DEF OwnRanges
    <3>2. c.cols[m].dbid = cat.cols[m].dbid
      BY <1>1
    <3> QED
      BY <2>2, <3>1, <3>2 DEF dropDocs, getDoc
  <2> QED
    BY <2>1, <2>2
<1> HIDE DEF c
<1>4. Held(c, left) = [Held(cat, docs) EXCEPT ![n] = Nothing]
  BY <1>2, <1>3 DEF Held, Nothing
<1> QED
  BY <1>4 DEF c

LEMMA RemovedHeld ==
    ASSUME IInv, CInv, up, NEW n \in Names, NEW left, KeysOwned(left),
           left = docs \/ (Exists(cat, n) /\ left = dropDocs(docs, cat.cols[n].dbid))
    PROVE  Changed(Held(cat, docs), Held(removeCollection(cat, n), left))
<1>1. PICK w, v : /\ w = Held(cat, docs) /\ v = Held(removeCollection(cat, n), left)
                  /\ v = [w EXCEPT ![n] = Nothing]
  BY RemovedRows
<1>2. Changed(w, v)
  BY <1>1, Zenon DEF Changed
<1> QED
  BY <1>1, <1>2

LEMMA RemoveActionS ==
    ASSUME Calm, IInv, CInv, SInv, CInv', NEW n \in Names, RemoveCollection(n)
    PROVE  SInv' /\ Effect
<1> DEFINE c == removeCollection(cat, n)
           left == dropDocs(docs, cat.cols[n].dbid)
<1>1. Ready /\ up /\ KeysOwned(docs) /\ KeysOwned(left)
  BY DEF RemoveCollection, Ready, CInv, EntriesOK, KeysOwned, dropDocs
<1>2. CASE owner = "none" /\ Exists(cat, n) /\ dropAndCommitLocked(c, left, IndexDbidsOf(cat, n))
  <2>1. Changed(Held(cat, docs), Held(c, left))
    BY <1>1, <1>2, RemovedHeld
  <2> HIDE DEF c, left
  <2> QED
    BY <1>1, <1>2, <2>1, DropS
<1>3. CASE owner = "tx" /\ FinishTx(c, pending, TRUE)
  <2>1. Changed(Held(cat, docs), Held(c, docs))
    BY <1>1, <1>3, RemovedHeld
  <2> HIDE DEF c
  <2> QED
    BY <1>1, <1>3, <2>1, FullTxS
<1> QED
  BY <1>2, <1>3 DEF RemoveCollection

LEMMA RemoveIndexActionS ==
    ASSUME Calm, IInv, CInv, SInv, CInv', NEW n \in Names, NEW p \in Paths, RemoveIndex(n, p)
    PROVE  SInv' /\ Effect
<1> DEFINE c == removeIndex(cat, n, p)
<1>1. Ready /\ up /\ cat \in CatalogType
  BY DEF RemoveIndex, Ready, IInv, TypeOK
<1>2. \A m \in Names : c.cols[m].dbid = cat.cols[m].dbid
  BY <1>1 DEF removeIndex, CatalogType, CollectionType
<1> HIDE DEF c
<1>3. Held(c, docs) = Held(cat, docs)
  BY <1>2 DEF Held
<1>4. \/ owner = "none" /\ dropAndCommitLocked(c, docs, {cat.cols[n].ix[p].dbid})
      \/ owner = "tx" /\ FinishTx(c, pending, TRUE)
  BY DEF RemoveIndex, c
<1> QED
  BY <1>1, <1>3, <1>4, DropS, FullTxS

\* A renamed collection shows its documents under the new name.
LEMMA RenamedRows ==
    ASSUME NEW b \in CatalogType, NEW n \in Names, NEW m \in Names, n # m, ~Exists(b, m),
           NEW stored, KeysOwned(stored)
    PROVE  /\ Held(b, stored)[m] = Nothing
           /\ Held(renameCollection(b, n, m), stored) =
                  [Held(b, stored) EXCEPT ![m] = Held(b, stored)[n], ![n] = Nothing]
<1> DEFINE c == renameCollection(b, n, m)
<1>1. /\ c.cols[m] = b.cols[n] /\ c.cols[n].dbid = 0 /\ b.cols[m].dbid = 0
      /\ \A k \in Names \ {n, m} : c.cols[k] = b.cols[k]
  BY DEF renameCollection, CatalogType, NoCollection, Exists
<1> HIDE DEF c
<1>2. PICK w, v : w = Held(b, stored) /\ v = Held(c, stored)
  OBVIOUS
<1>3. \A id : getDoc(stored, 0, id) = NoDoc
  BY DEF getDoc, KeysOwned
<1>4. /\ w = [k \in Names |-> w[k]] /\ v = [k \in Names |-> v[k]]
      /\ \A k \in Names : /\ w[k] = [id \in Ids |-> getDoc(stored, b.cols[k].dbid, id)]
                          /\ v[k] = [id \in Ids |-> getDoc(stored, c.cols[k].dbid, id)]
  BY <1>2 DEF Held
<1>5. w[m] = Nothing /\ v[n] = Nothing
  BY <1>1, <1>3, <1>4 DEF Nothing
<1>6. v[m] = w[n]
  <2>1. c.cols[m].dbid = b.cols[n].dbid
    BY <1>1
  <2> QED
    BY <1>4, <2>1
<1>7. ASSUME NEW k \in Names \ {n, m} PROVE v[k] = w[k]
  <2>1. c.cols[k].dbid = b.cols[k].dbid
    BY <1>1
  <2> QED
    BY <1>4, <2>1
<1>8. v = [w EXCEPT ![m] = w[n], ![n] = Nothing]
  BY <1>4, <1>5, <1>6, <1>7
<1> QED
  BY <1>2, <1>5, <1>8 DEF c

LEMMA RenameActionS ==
    ASSUME Calm, IInv, CInv, SInv, CInv', NEW n \in Names, NEW m \in Names, RenameCollection(n, m)
    PROVE  SInv' /\ Effect
<1> DEFINE c == renameCollection(cat, n, m)
<1>1. /\ up /\ job = NoJob /\ job # IndexJob /\ n # m /\ Exists(cat, n) /\ ~Exists(cat, m)
      /\ Finish(c, pending, TRUE) /\ cat \in CatalogType /\ KeysOwned(docs)
  BY DEF RenameCollection, Ready, NoJob, IndexJob, IInv, TypeOK, CInv, EntriesOK
<1>2. CatOK(c)
  BY <1>1, HereOK, RenameCollectionOK DEF CInv
<1>3. PICK w, v : /\ w = Held(cat, docs) /\ v = Held(c, docs)
                  /\ w[m] = Nothing /\ v = [w EXCEPT ![m] = w[n], ![n] = Nothing]
  BY <1>1, RenamedRows
<1> HIDE DEF c
<1>4. pending = <<>>
  <2>1. CASE owner = "tx"
    BY <1>1, <2>1, FullEmpty DEF Finish
  <2>2. CASE owner # "tx"
    BY <1>1, <2>2, CalmMeans, RestEmpty
  <2> QED
    BY <2>1, <2>2
<1>5. Wrk = Held(cat, docs) /\ Seen(c, docs, pending) = Held(c, docs)
  BY <1>1, <1>4, SeenStored DEF Wrk
<1>6. Changed(w, v)
  BY <1>1, <1>3, Zenon DEF Changed
<1>7. Homes(c, pending) /\ c \in CatalogType /\ OwnRanges(c, docs) /\ owner # "call"
      /\ pending \in Seq(MutationType)
  BY <1>1, <1>2, <1>4 DEF Homes, CatOK, IInv, TypeOK
<1> QED
  BY <1>1, <1>3, <1>5, <1>6, <1>7, FinishS

----------------------------------------------------------------------------
(* Indexes. *)

\* rebuildIndex's batch stores the catalog as it is in memory, which shows nothing
\* new while nothing else is running.
LEMMA EnsureIndexS ==
    ASSUME Calm, IInv, CInv, SInv, CInv', NEW n \in Names, NEW p \in Paths, NEW unique,
           EnsureIndex(n, p, unique)
    PROVE  SInv' /\ Effect
<1> DEFINE c == ensureCollection(cat, n)
           x == [dbid |-> c.next + 1, unique |-> unique,
                 rnum |-> Cardinality(IndexEntries(docs, c.cols[n].dbid, p))]
           built == [c EXCEPT !.cols[n].ix[p] = x]
<1>1. /\ Ready /\ up /\ job # IndexJob /\ job = NoJob /\ cat \in CatalogType /\ OwnRanges(cat, docs)
      /\ DocsType(docs) /\ pending \in Seq(MutationType) /\ Homes(cat, pending) /\ KeysOwned(docs)
  BY DEF EnsureIndex, Ready, NoJob, IndexJob, IInv, TypeOK, CollectionsDisjoint, SInv, CInv, EntriesOK
<1>2. Grow(cat, c) /\ c \in CatalogType
  BY <1>1, EnsureQuiet DEF Grow, GoodUpdate
<1>3. CASE Refuse(c)
  BY <1>1, <1>2, <1>3, RefuseS
<1>4. CASE /\ cat' = built /\ meta' = built /\ job' = IndexJob
           /\ owner' = (IF owner = "tx" THEN "tx" ELSE "call")
           /\ Blame(If(owner = "tx", "ddl"))
           /\ UNCHANGED <<docs, pending, dirtyMeta, dirtyFull, saved, up>>
  <2>1. owner # "tx" /\ faults' \subseteq {"repeated", "torn"}
    BY <1>4, BlameCalm DEF If
  <2>2. owner = "none" /\ pending = <<>> /\ ~dirtyFull
    BY <1>1, <2>1, CalmMeans, RestEmpty
  <2>3. \A m \in Names : built.cols[m].dbid = c.cols[m].dbid
    BY <1>2 DEF CatalogType, CollectionType
  <2> HIDE DEF c, built
  <2>4. Seen(built, docs, <<>>) = Wrk
    <3>1. Seen(built, docs, <<>>) = Seen(c, docs, <<>>)
      BY <2>3, SameSeen
    <3>2. Seen(c, docs, pending) = Seen(cat, docs, pending)
      BY <1>1, <1>2, GrowSeen
    <3> QED
      BY <1>1, <2>2, <3>1, <3>2 DEF Wrk
  <2>5. Held(built, docs) = Wrk
    BY <1>1, <2>4, SeenStored
  <2>6. Com = Wrk
    BY <2>2, AtRestSame DEF RestOK
  <2>7. Com' = Com /\ Wrk' = Wrk
    BY <1>1, <1>4, <2>2, <2>4, <2>5, <2>6 DEF Com, Wrk
  <2>8. SInv'
    BY <1>4, <2>1, <2>2 DEF SInv, Homes
  <2> QED
    BY <2>7, <2>8 DEF Effect
<1> QED
  BY <1>3, <1>4 DEF EnsureIndex

LEMMA EnsureIndexDoneS ==
    ASSUME Calm, IInv, CInv, SInv, CInv', EnsureIndexDone
    PROVE  SInv' /\ Effect
<1> DEFINE c == [cat EXCEPT !.next = @ + 1]
<1>1. /\ up /\ Finish(c, pending, TRUE) /\ cat \in CatalogType /\ OwnRanges(cat, docs)
      /\ DocsType(docs) /\ pending \in Seq(MutationType) /\ Homes(cat, pending)
  BY DEF EnsureIndexDone, IInv, TypeOK, CollectionsDisjoint, SInv
<1>2. /\ c \in CatalogType /\ c.next = cat.next + 1 /\ c.cols = cat.cols /\ cat.next \in Nat
      /\ \A n \in Names : cat.cols[n].dbid \in Nat
  BY <1>1 DEF CatalogType, CollectionType
<1> HIDE DEF c
<1>3. OwnRanges(c, docs)
  BY <1>1, <1>2 DEF OwnRanges, Exists, DocsType
<1>4. Seen(c, docs, pending) = Wrk /\ Homes(c, pending)
  <2>1. \A n \in Names : c.cols[n].dbid = cat.cols[n].dbid
    BY <1>2
  <2>2. Seen(c, docs, pending) = Seen(cat, docs, pending)
    BY <2>1, SameSeen
  <2>3. Homes(c, pending)
    BY <1>1, <1>2 DEF Homes, Exists
  <2> QED
    BY <1>1, <2>2, <2>3 DEF Wrk
<1> QED
  BY <1>1, <1>2, <1>3, <1>4, FinishS

----------------------------------------------------------------------------
(* Queries. *)

LEMMA QueryBeginS ==
    ASSUME Calm, IInv, CInv, SInv, NEW n \in Names, NEW act, QueryBegin(n, act)
    PROVE  SInv' /\ Effect
<1> DEFINE c == IF act = "upsert" THEN ensureCollection(cat, n) ELSE cat
<1>1. /\ up /\ cat \in CatalogType /\ OwnRanges(cat, docs)
      /\ DocsType(docs) /\ pending \in Seq(MutationType) /\ Homes(cat, pending)
  BY DEF QueryBegin, Ready, IInv, TypeOK, CollectionsDisjoint, SInv
<1>2. /\ cat' = c /\ pending' = pending /\ dirtyFull' = dirtyFull /\ up' = up /\ meta' = meta
      /\ docs' = docs /\ owner' # "none"
  BY DEF QueryBegin, engine
<1>3. PICK w, S :
         /\ job' = [kind |-> "query", col |-> n, act |-> act,
                    todo |-> [i \in DOMAIN w |-> [id |-> w[i], doc |-> OldDoc(cat, n, w[i])]],
                    empty |-> w = <<>>, changed |-> FALSE]
         /\ Blame(S)
  BY Zenon DEF QueryBegin
<1>4. job'.kind = "query" /\ faults' \subseteq {"repeated", "torn"}
  BY <1>3, BlameCalm
<1>5. Grow(cat, c)
  BY <1>1, EnsureQuiet, GrowSame
<1> HIDE DEF c
<1>6. Seen(c, docs, pending) = Seen(cat, docs, pending) /\ Homes(c, pending)
  BY <1>1, <1>5, GrowSeen
<1>7. Com' = Com /\ Wrk' = Wrk
  BY <1>2, <1>6 DEF Com, Wrk
<1> QED
  BY <1>2, <1>6, <1>7, <1>4 DEF SInv, Effect, IndexJob

\* One document of a window.
LEMMA QueryStepS ==
    ASSUME Calm, IInv, CInv, SInv, up, job \in QueryJobs, NEW c, NEW pend, Homes(c, pend), NEW todo,
           QueryStep(c, pend, todo), Changed(Wrk, Seen(c, docs, pend))
    PROVE  SInv' /\ Effect
<1>1. /\ cat' = c /\ pending' = pend /\ dirtyFull' = dirtyFull /\ up' = up /\ meta' = meta
      /\ docs' = docs /\ job' = [job EXCEPT !.todo = todo, !.changed = TRUE]
      /\ owner' = owner /\ Blame(If(owner = "tx" /\ dirtyFull, "ddl"))
  BY DEF QueryStep, engine
<1>2. ~(owner = "tx" /\ dirtyFull) /\ faults' \subseteq {"repeated", "torn"}
  BY <1>1, BlameCalm DEF If
<1>3. ~dirtyFull
  BY <1>2, CalmMeans DEF CInv, FlagsOK
<1>4. job' # IndexJob /\ owner # "none"
  <2>1. job.kind = "query" /\ DOMAIN job = {"kind", "col", "act", "todo", "empty", "changed"}
    BY DEF QueryJobs
  <2>2. job'.kind = "query" /\ job # NoJob
    BY <1>1, <2>1 DEF NoJob
  <2> QED
    BY <2>2 DEF IndexJob, IInv, TypeOK
<1>5. Com' = Com /\ Wrk' = Seen(c, docs, pend)
  BY <1>1 DEF Com, Wrk
<1> QED
  BY <1>1, <1>2, <1>3, <1>4, <1>5 DEF SInv, Effect

LEMMA QueryStepsS ==
    ASSUME Calm, IInv, CInv, SInv, NEW d \in Docs, QueryDelete \/ QueryApply(d) \/ QueryInsert(d)
    PROVE  SInv' /\ Effect
<1> DEFINE n == job.col
<1>1. /\ up /\ job \in QueryJobs /\ n \in Names /\ cat \in CatalogType /\ d \in MaybeDocs
      /\ job.todo # <<>> => Head(job.todo).id \in Ids /\ Head(job.todo).doc \in MaybeDocs
  BY InQueryType DEF QueryDelete, QueryApply, QueryInsert, IInv, TypeOK, MaybeDocs
<1>2. job # IndexJob /\ Exists(cat, n) /\ Grow(cat, cat)
  BY <1>1, GrowSame DEF QueryJobs, IndexJob, CInv, ControlOK
<1>3. CASE QueryDelete
  <2>1. PICK id \in Ids, old \in MaybeDocs :
           QueryStep(CountDelete(cat, n, old), Append(pending, Mutation(n, id, old, NoDoc)),
                     Tail(job.todo))
    BY <1>1, <1>3 DEF QueryDelete
  <2> HIDE DEF n
  <2> QED
    BY <1>1, <1>2, <2>1, RemovalS, QueryStepS
<1>4. CASE QueryApply(d)
  <2>1. PICK id \in Ids : QueryStep(PutCat(cat, n, id, d), PutPending(cat, n, id, d), Tail(job.todo))
    BY <1>1, <1>4 DEF QueryApply
  <2> HIDE DEF n
  <2> QED
    BY <1>1, <1>2, <2>1, PutS, QueryStepS
<1>5. CASE QueryInsert(d)
  <2>1. PICK id \in Ids : LET c == RaiseNextId(cat, n, id)
                          IN  QueryStep(PutCat(c, n, id, d), PutPending(c, n, id, d), <<>>)
    BY <1>5 DEF QueryInsert
  <2> HIDE DEF n
  <2>2. Grow(cat, RaiseNextId(cat, n, id)) /\ Exists(RaiseNextId(cat, n, id), n)
    BY <1>1, <1>2, RaiseQuiet
  <2> QED
    BY <1>1, <1>2, <2>1, <2>2, PutS, QueryStepS
<1> QED
  BY <1>3, <1>4, <1>5

\* A query ends with the commit of what it buffered, without a change, or leaves
\* the rest to its transaction.
LEMMA QueryEndsS ==
    ASSUME Calm, IInv, CInv, SInv, CInv', QueryFail \/ QueryEnd
    PROVE  SInv' /\ Effect
<1>1. /\ up /\ cat \in CatalogType /\ OwnRanges(cat, docs) /\ pending \in Seq(MutationType)
  BY DEF QueryFail, QueryEnd, InQuery, IInv, TypeOK, CollectionsDisjoint
<1>2. CASE ReleaseCall /\ UNCHANGED <<engine, memory, saved, up>> /\ \E S : Blame(S)
  <2>1. /\ UNCHANGED <<meta, docs, cat, pending, dirtyFull, up>> /\ job' # IndexJob
        /\ faults' \subseteq {"repeated", "torn"}
    BY <1>2, BlameCalm DEF ReleaseCall, engine, memory, NoJob, IndexJob
  <2>2. Com' = Com /\ Wrk' = Wrk
    BY <2>1 DEF Com, Wrk
  <2> QED
    BY <2>1, <2>2 DEF SInv, Effect
<1>3. CASE owner = "call" /\ FinishCall(cat, pending)
  <2>1. /\ SInv' /\ owner' = "none"
        /\ Com' = Com \/ Wrk' = Seen(cat, docs, pending)
    BY <1>1, <1>3, FinishCallS
  <2> QED
    BY <1>1, <2>1 DEF Effect, Wrk
<1>4. CASE ReleaseCall /\ UNCHANGED <<engine, memory, saved, up, faults>>
  <2>1. /\ UNCHANGED <<meta, docs, cat, pending, dirtyFull, up, faults>> /\ job' # IndexJob
    BY <1>4 DEF ReleaseCall, engine, memory, NoJob, IndexJob
  <2>2. Com' = Com /\ Wrk' = Wrk
    BY <2>1 DEF Com, Wrk
  <2> QED
    BY <2>1, <2>2 DEF SInv, Effect
<1> QED
  BY <1>2, <1>3, <1>4 DEF QueryFail, QueryEnd

----------------------------------------------------------------------------
(* Transactions and process life. *)

LEMMA TxBeginS ==
    ASSUME SInv, TxBegin
    PROVE  SInv' /\ Effect
<1>1. /\ UNCHANGED <<meta, docs, cat, pending, dirtyFull, up, faults>> /\ job' = NoJob /\ owner' = "tx"
  BY DEF TxBegin, Ready, engine, memory
<1>2. Com' = Com /\ Wrk' = Wrk
  BY <1>1 DEF Com, Wrk
<1> QED
  BY <1>1, <1>2 DEF SInv, Effect, NoJob, IndexJob

\* What the transaction saw becomes the stored contents.
LEMMA TxCommitS ==
    ASSUME Calm, IInv, CInv, SInv, CInv', TxCommit
    PROVE  SInv' /\ Effect
<1>1. CASE Panic(cat, pending, dirtyFull)
  BY <1>1, DownS DEF Panic, Effect
<1>2. CASE /\ TxEnd
           /\ commitLocked(cat, pending, dirtyMeta, dirtyFull)
           /\ Blame(If(dirtyFull /\ pending # <<>>, "discarded"))
  <2>1. up /\ up' /\ owner' = "none" /\ job' = NoJob /\ faults' \subseteq {"repeated", "torn"}
    BY <1>2, BlameCalm DEF TxEnd, Ready
  <2>2. /\ cat \in CatalogType /\ pending \in Seq(MutationType) /\ OwnRanges(cat, docs)
        /\ KeysOwned(docs) /\ (dirtyFull => pending = <<>>)
    BY <2>1 DEF IInv, TypeOK, CollectionsDisjoint, CInv, EntriesOK, SInv
  <2>3. /\ Wrk' = Seen(cat, docs, pending)
        /\ cat' = cat /\ pending' = <<>> /\ ~dirtyFull'
    BY <1>2, <2>1, <2>2, CommitS
  <2>4. SInv'
    BY <2>1, <2>3 DEF SInv, Homes, NoJob, IndexJob
  <2> QED
    BY <2>1, <2>3, <2>4 DEF Effect, Wrk
<1> QED
  BY <1>1, <1>2 DEF TxCommit

\* An abort truncates the buffer to what the transaction found: nothing.
LEMMA TxAbortS ==
    ASSUME Calm, IInv, CInv, SInv, TxAbort
    PROVE  SInv' /\ Effect
<1>1. /\ owner' = "none" /\ job' = NoJob /\ meta' = meta /\ docs' = docs
      /\ pending' = SubSeq(pending, 1, saved.len) /\ dirtyFull' = saved.dirtyFull
      /\ Blame(If(BuiltInTx, "leaked"))
  BY DEF TxAbort, TxEnd, Ready, truncatePending, engine
<1>2. faults' \subseteq {"repeated", "torn"}
  BY <1>1, BlameCalm
<1>3. saved.len = 0 /\ ~saved.dirtyFull /\ pending \in Seq(MutationType)
  BY CalmMeans DEF CInv, FlagsOK, IInv, TypeOK
<1>4. pending' = <<>> /\ ~dirtyFull'
  BY <1>1, <1>3
<1>5. Com' = Com
  BY <1>1 DEF Com
<1>6. SInv'
  <2>1. NoJob # IndexJob /\ DOMAIN <<>> = {}
    BY DEF NoJob, IndexJob
  <2>2. Homes(cat, pending)'
    BY <1>4, <2>1 DEF Homes
  <2> QED
    BY <1>1, <1>2, <1>4, <2>1, <2>2 DEF SInv
<1> QED
  BY <1>1, <1>5, <1>6 DEF Effect

LEMMA OpenS ==
    ASSUME IInv, CInv, SInv, Open
    PROVE  SInv' /\ Effect
<1>1. /\ ~up /\ meta' = meta /\ docs' = docs /\ pending' = pending /\ dirtyFull' = dirtyFull
      /\ owner' = owner /\ job' = job /\ faults' = faults
  BY DEF Open, engine
<1>2. owner = "none" /\ pending = <<>> /\ DOMAIN <<>> = {}
  BY <1>1 DEF CInv, ControlOK
<1>3. Com' = Com
  BY <1>1 DEF Com
<1> QED
  BY <1>1, <1>2, <1>3 DEF SInv, Homes, Effect

LEMMA InitS == Init => SInv
BY DEF Init, SInv, Homes, NoJob, IndexJob

LEMMA NextS ==
    ASSUME Calm, IInv, CInv, SInv, CInv', [Next]_vars
    PROVE  SInv' /\ (Effect \/ UNCHANGED vars)
<1>1. ASSUME NEW n \in Names, EnsureCollection(n) PROVE SInv' /\ Effect
  BY <1>1, EnsureCollectionS
<1>2. ASSUME NEW n \in Names, RemoveCollection(n) PROVE SInv' /\ Effect
  BY <1>2, RemoveActionS
<1>3. ASSUME NEW n \in Names, NEW m \in Names, RenameCollection(n, m) PROVE SInv' /\ Effect
  BY <1>3, RenameActionS
<1>4. ASSUME NEW n \in Names, NEW d \in MaybeDocs, PutNew(n, d) PROVE SInv' /\ Effect
  <2>1. PICK id \in Ids : TRUE
    BY <1>4 DEF PutNew
  <2> QED
    BY <1>4, <2>1, PutActionsS
<1>5. ASSUME NEW n \in Names, NEW id \in Ids, NEW d \in MaybeDocs,
             Put(n, id, d) \/ Patch(n, id, d) \/ MergeOrPut(n, id, d)
      PROVE  SInv' /\ Effect
  BY <1>5, PutActionsS
<1>6. ASSUME NEW n \in Names, NEW id \in Ids, Delete(n, id) PROVE SInv' /\ Effect
  BY <1>6, DeleteS
<1>7. ASSUME NEW n \in Names, NEW p \in Paths, NEW unique \in IndexModes, EnsureIndex(n, p, unique)
      PROVE  SInv' /\ Effect
  BY <1>7, EnsureIndexS
<1>8. ASSUME NEW n \in Names, NEW p \in Paths, RemoveIndex(n, p) PROVE SInv' /\ Effect
  BY <1>8, RemoveIndexActionS
<1>9. ASSUME NEW n \in Names, NEW act \in QueryActs, QueryBegin(n, act) PROVE SInv' /\ Effect
  BY <1>9, QueryBeginS
<1>10. ASSUME NEW d \in Docs, QueryApply(d) \/ QueryInsert(d) PROVE SInv' /\ Effect
  BY <1>10, QueryStepsS
<1>11. CASE QueryDelete
  <2>1. Head(job.todo).doc \in Docs
    BY <1>11, InQueryType DEF QueryDelete
  <2> QED
    BY <1>11, <2>1, QueryStepsS
<1>12. CASE QueryFail \/ QueryEnd
  BY <1>12, QueryEndsS
<1>13. CASE EnsureIndexDone
  BY <1>13, EnsureIndexDoneS
<1>14. CASE TxBegin \/ TxCommit \/ TxAbort
  BY <1>14, TxBeginS, TxCommitS, TxAbortS
<1>15. CASE Close \/ Crash
  BY <1>15, DownS DEF Close, Crash, Effect
<1>16. CASE Open
  BY <1>16, OpenS
<1>17. CASE UNCHANGED vars
  BY <1>17 DEF vars, engine, memory, control, SInv
<1> QED
  BY <1>1, <1>2, <1>3, <1>4, <1>5, <1>6, <1>7, <1>8, <1>9, <1>10, <1>11, <1>12,
     <1>13, <1>14, <1>15, <1>16, <1>17 DEF Next

----------------------------------------------------------------------------
(* The refinement. *)

\* The refinement mapping in the terms of these proofs.
LEMMA Mapping == ContentsOf(meta) = Com /\ (IF up THEN View ELSE ContentsOf(meta)) = Wrk
BY DEF ContentsOf, View, OldDoc, Com, Wrk, Held, Seen

\* A step with an Effect is a step of TxStore, or none.
LEMMA Simulation ==
    ASSUME RestOK, RestOK', Effect
    PROVE  [Store!Next]_<<ContentsOf(meta), IF up THEN View ELSE ContentsOf(meta), owner # "none">>
<1>1. /\ ContentsOf(meta) = Com /\ (IF up THEN View ELSE ContentsOf(meta)) = Wrk
      /\ ContentsOf(meta)' = Com' /\ (IF up THEN View ELSE ContentsOf(meta))' = Wrk'
  BY Mapping DEF ContentsOf, View, OldDoc, Com, Wrk, Held, Seen
<1>2. CASE owner' = "none" /\ Com' = Com
  <2>1. Wrk' = Com
    BY <1>2 DEF RestOK
  <2>2. Store!Abort
    BY <1>1, <1>2, <2>1 DEF Store!Abort
  <2> QED
    BY <2>2 DEF Store!Next
<1>3. CASE /\ Changed(Wrk, Wrk') /\ (owner = "none" <=> owner' = "none")
           /\ owner' # "none" => Com' = Com
  <2>1. Store!Change
    <3>1. PICK n \in Names :
             \/ \E id \in Ids, d \in MaybeDocs : Wrk' = [Wrk EXCEPT ![n][id] = d]
             \/ Wrk' = [Wrk EXCEPT ![n] = Nothing]
             \/ \E m \in Names \ {n} : Wrk[m] = Nothing /\ Wrk' = [Wrk EXCEPT ![m] = Wrk[n], ![n] = Nothing]
      BY <1>3 DEF Changed
    <3>2. ASSUME NEW id \in Ids, NEW d \in MaybeDocs, Wrk' = [Wrk EXCEPT ![n][id] = d]
          PROVE  Store!Write(n, id, d)
      BY <1>1, <3>2 DEF Store!Write
    <3>3. ASSUME Wrk' = [Wrk EXCEPT ![n] = Nothing] PROVE Store!Drop(n)
      BY <1>1, <3>3 DEF Store!Drop, Store!Empty, Nothing
    <3>4. ASSUME NEW m \in Names \ {n}, Wrk[m] = Nothing,
                 Wrk' = [Wrk EXCEPT ![m] = Wrk[n], ![n] = Nothing]
          PROVE  Store!Rename(n, m)
      BY <1>1, <3>4 DEF Store!Rename, Store!Empty, Nothing
    <3> QED
      BY <3>1, <3>2, <3>3, <3>4 DEF Store!Change
  <2>2. CASE owner = "none"
    <3>1. Com' = Wrk' /\ owner' = "none"
      BY <1>3, <2>2 DEF RestOK
    <3>2. Store!AutoCommit
      BY <1>1, <2>1, <2>2, <3>1 DEF Store!AutoCommit
    <3> QED
      BY <3>2 DEF Store!Next
  <2>3. CASE owner # "none"
    <3>1. Store!Buffer
      BY <1>1, <1>3, <2>1, <2>3 DEF Store!Buffer
    <3> QED
      BY <3>1 DEF Store!Next
  <2> QED
    BY <2>2, <2>3
<1>4. CASE Wrk' = Wrk /\ owner' = "none"
  <2>1. Com' = Wrk
    BY <1>4 DEF RestOK
  <2>2. CASE owner = "none"
    <3>1. Com' = Com
      BY <2>1, <2>2 DEF RestOK
    <3> QED
      BY <1>2, <1>4, <3>1
  <2>3. CASE owner # "none"
    <3>1. Store!Commit
      BY <1>1, <1>4, <2>1, <2>3 DEF Store!Commit
    <3> QED
      BY <3>1 DEF Store!Next
  <2> QED
    BY <2>2, <2>3
<1>5. CASE Wrk' = Wrk /\ owner' # "none" /\ Com' = Com
  <2>1. CASE owner = "none"
    <3>1. Store!Begin
      BY <1>1, <1>5, <2>1 DEF Store!Begin
    <3> QED
      BY <3>1 DEF Store!Next
  <2>2. CASE owner # "none"
    BY <1>1, <1>5, <2>2
  <2> QED
    BY <2>1, <2>2
<1> QED
  BY <1>2, <1>3, <1>4, <1>5 DEF Effect

\* What TxStore promises holds for all names, ids, documents, indexes and bounds,
\* through aborts, crashes and panics, as long as no call outside a WriteTx fails in
\* its commit or half way through a query, and no WriteTx builds an index or mixes
\* document writes with catalog changes: what is stored changes only when a call or
\* transaction ends, and then becomes all that it saw or stays as it was
\* (commitLocked, dropAndCommitLocked, WriteTx, truncatePending, Open).
THEOREM TransactionsAreAtomic ==
    ASSUME Tolerated \subseteq {"repeated", "torn"}
    PROVE  Spec => ImplementsTxStore
<1> DEFINE Inv == IInv /\ CInv /\ SInv
<1>1. Calm
  BY DEF Calm
<1>2. Init => Inv
  BY InitKeeps, InitOK, InitS
<1>3. Inv /\ [Next]_vars => Inv'
  BY <1>1, NextKeeps, NextOK, NextS
<1>4. Inv => RestOK
  BY AtRestSame
<1>5. Init => Store!Init
  <2> SUFFICES ASSUME Init PROVE Store!Init
    OBVIOUS
  <2>1. RestOK
    BY <1>2, <1>4
  <2>2. Com = [n \in Names |-> Store!Empty]
    BY DEF Com, Held, Store!Empty, Init, getDoc
  <2>3. Wrk = Com /\ owner = "none"
    BY <2>1 DEF RestOK, Init
  <2> QED
    BY <2>2, <2>3, Mapping DEF Store!Init
<1>6. Inv /\ Inv' /\ RestOK /\ RestOK' /\ [Next]_vars =>
          [Store!Next]_<<ContentsOf(meta), IF up THEN View ELSE ContentsOf(meta), owner # "none">>
  <2> SUFFICES ASSUME Inv, Inv', RestOK, RestOK', [Next]_vars
               PROVE  [Store!Next]_<<ContentsOf(meta), IF up THEN View ELSE ContentsOf(meta), owner # "none">>
    OBVIOUS
  <2>1. CASE Effect
    BY <2>1, Simulation
  <2>2. CASE UNCHANGED vars
    BY <2>2 DEF vars, engine, memory, control, ContentsOf, View, OldDoc
  <2> QED
    BY <1>1, <2>1, <2>2, NextS
<1> QED
  BY <1>2, <1>3, <1>4, <1>5, <1>6, PTL DEF Spec, ImplementsTxStore, Store!Spec
=============================================================================
