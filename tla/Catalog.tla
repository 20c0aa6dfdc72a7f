------------------------------ MODULE Catalog ------------------------------
(***************************************************************************)
(* The in-memory catalog of a database (types.go: dbState, collectionState, *)
(* indexState) and the buffered document mutations that sit on top of it    *)
(* (db.go: storageMutation), with the operators that read and update them.  *)
(*                                                                          *)
(* Data is reduced to what the properties tell apart.  A document is known  *)
(* by the values it contributes to an index (Values); its JSON text, and so *)
(* its parsing and its Binn encoding, are left out.  A path stands for a    *)
(* JSON pointer together with an index kind: EnsureIndex allows one index   *)
(* for each such pair.                                                      *)
(***************************************************************************)
EXTENDS Integers, Sequences, FiniteSets, FiniteSetsExt

CONSTANTS
    Names,      \* collection names
    Ids,        \* document ids the callers use
    Paths,      \* (pointer, kind) pairs that may be indexed
    Keys,       \* normalised index values
    Docs,       \* documents
    Unstorable, \* those JSON allows and the stored encoding does not
    Values,     \* Values[d][p]: what valuesForIndex returns for document d
    NoDoc       \* no document at this id

ASSUME IdsAssumption == Ids \subseteq Int /\ IsFiniteSet(Ids)
ASSUME UnstorableAssumption == Unstorable \subseteq Docs
ASSUME KeysAssumption == IsFiniteSet(Keys)
ASSUME ValuesAssumption == Values \in [Docs -> [Paths -> SUBSET Keys]]
ASSUME NoDocAssumption == NoDoc \notin Docs

MaybeDocs == Docs \cup {NoDoc}

----------------------------------------------------------------------------
\* Catalog records.  dbid 0 stands for an entry that is not in the Go map:
\* newState starts the counter at 1, so no collection or index is ever given 0.

IndexType == [dbid : Nat, unique : BOOLEAN, rnum : Nat]

CollectionType == [dbid : Nat, nextId : Nat, rnum : Nat, ix : [Paths -> IndexType]]

CatalogType == [next : Nat, cols : [Names -> CollectionType]]

NoIndex == [dbid |-> 0, unique |-> FALSE, rnum |-> 0]

NoCollection == [dbid |-> 0, nextId |-> 0, rnum |-> 0, ix |-> [p \in Paths |-> NoIndex]]

newState == [next |-> 1, cols |-> [n \in Names |-> NoCollection]]

Exists(c, n) == c.cols[n].dbid # 0

Indexed(c, n) == {p \in Paths : c.cols[n].ix[p].dbid # 0}

WithCollection(c, n, col) == [c EXCEPT !.cols[n] = col]

\* Sensitivity variant: the counter is read but not advanced.
ensureCollectionStaleCounter(c, n) ==
    IF Exists(c, n) THEN c
    ELSE [c EXCEPT !.cols[n] = [NoCollection EXCEPT !.dbid = c.next + 1]]

ensureCollection(c, n) ==
    IF Exists(c, n) THEN c
    ELSE [next |-> c.next + 1,
          cols |-> [c.cols EXCEPT ![n] = [NoCollection EXCEPT !.dbid = c.next + 1]]]

removeCollection(c, n) == WithCollection(c, n, NoCollection)

renameCollection(c, n, m) ==
    [c EXCEPT !.cols = [@ EXCEPT ![m] = c.cols[n], ![n] = NoCollection]]

\* Sensitivity variant: off by one.
RaiseNextIdLate(c, n, id) ==
    IF id > c.cols[n].nextId + 1 THEN [c EXCEPT !.cols[n].nextId = id] ELSE c

RaiseNextId(c, n, id) ==
    IF id > c.cols[n].nextId THEN [c EXCEPT !.cols[n].nextId = id] ELSE c

removeIndex(c, n, p) == [c EXCEPT !.cols[n].ix[p] = NoIndex]

----------------------------------------------------------------------------
\* Record counts.

valuesForIndex(doc, p) == IF doc = NoDoc THEN {} ELSE Values[doc][p]

AtLeastZero(k) == IF k < 0 THEN 0 ELSE k

\* Sensitivity variant: only the new document's values are counted.
adjustIndexRNumsIgnoresOld(col, old, new) ==
    [col EXCEPT !.ix = [p \in Paths |->
        IF col.ix[p].dbid = 0 THEN col.ix[p]
        ELSE [col.ix[p] EXCEPT !.rnum = @ + Cardinality(valuesForIndex(new, p))]]]

adjustIndexRNums(col, old, new) ==
    [col EXCEPT !.ix = [p \in Paths |->
        IF col.ix[p].dbid = 0 THEN col.ix[p]
        ELSE [col.ix[p] EXCEPT !.rnum =
                 AtLeastZero(@ + Cardinality(valuesForIndex(new, p))
                               - Cardinality(valuesForIndex(old, p)))]]]

\* The collection after a put over `old` and after a delete of `old`.
CountPut(c, n, old, new) ==
    WithCollection(c, n, adjustIndexRNums(
        [c.cols[n] EXCEPT !.rnum = IF old = NoDoc THEN @ + 1 ELSE @], old, new))

CountDelete(c, n, old) ==
    WithCollection(c, n, adjustIndexRNums(
        [c.cols[n] EXCEPT !.rnum = AtLeastZero(@ - 1)], old, NoDoc))

----------------------------------------------------------------------------
\* Buffered mutations.  new = NoDoc is a mutationDelete; old = NoDoc is an
\* empty oldRaw.  A mutation names its collection, not its dbid.

MutationType == [col : Names, id : Ids, old : MaybeDocs, new : MaybeDocs]

Mutation(n, id, old, new) == [col |-> n, id |-> id, old |-> old, new |-> new]

Touches(pend, n, id) == {i \in DOMAIN pend : pend[i].col = n /\ pend[i].id = id}

\* pendingDocState: the last mutation of the document decides.
pendingDocState(pend, n, id, base) ==
    LET hits == Touches(pend, n, id)
    IN  IF hits = {} THEN base ELSE pend[Max(hits)].new

pendingDeletes(pend, n, id) ==
    LET hits == Touches(pend, n, id)
    IN  hits # {} /\ pend[Max(hits)].new = NoDoc
=============================================================================
