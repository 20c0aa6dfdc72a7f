-------------------------------- MODULE EJDB --------------------------------
(***************************************************************************)
(* The database object (db.go, tx.go): collections, documents, indexes,     *)
(* mutating queries and write transactions over one storage engine.         *)
(*                                                                          *)
(* A DB method and the Tx method of the same name share their code, so one  *)
(* action models both: with owner = "none" it is the DB method, which takes *)
(* db.mu and ends in commitLocked; with owner = "tx" it is the Tx method    *)
(* inside the running WriteTx, which only buffers.  Methods that write the  *)
(* engine more than once, or that loop over documents and can fail half     *)
(* way, are split at those points (job), and hold db.mu meanwhile.          *)
(*                                                                          *)
(* The history variable `faults` is read by no action.  It records which of *)
(* the situations below a behaviour has been through; they are the ones in  *)
(* which the code itself gives up a guarantee, and each is the subject of a *)
(* run of its own.  Tolerated selects the ones a run goes through.          *)
(*   "abandoned"  a call outside a WriteTx returned an error and left its   *)
(*                changes in memory, where the next commit finds them       *)
(*   "ddl"        a WriteTx built an index (its batch is written at once),  *)
(*                or mixed document writes with catalog changes             *)
(*   "discarded"  persistFullLocked cleared buffered document writes        *)
(*   "leaked"     a WriteTx that built an index did not commit              *)
(*   "torn"       the process ended with the stored catalog naming an index *)
(*                dbid above the stored counter                             *)
(*   "repeated"   a query's window held the same document twice             *)
(***************************************************************************)
EXTENDS Storage

CONSTANTS
    QueryActs,    \* the query actions the callers use, among Acts
    IndexModes,   \* the values of `unique` they pass to EnsureIndex
    EngineFails,  \* whether StorageBatch.Commit may return an error
    ResultFails,  \* whether a query's projection or visitor may
    Tolerated,    \* the members of `faults` that may occur
    MaxPending,   \* bound: buffered mutations
    MaxDBID,      \* bound: NextCollectionID
    MaxCount      \* bound: record counts

VARIABLES
    meta, docs, idx, uidx,               \* the engine's keys
    cat, pending, dirtyMeta, dirtyFull,  \* db.state, db.pending, the dirty flags
    owner,                               \* who holds db.mu: "none", "call" or "tx"
    job,                                 \* the call in progress under db.mu
    saved,                               \* WriteTx's snapshot, pendingLen and flags
    up,                                  \* the database is open
    faults                               \* history, see above

engine  == <<meta, docs, idx, uidx>>
memory  == <<cat, pending, dirtyMeta, dirtyFull>>
control == <<owner, job, saved, up>>
vars == <<engine, memory, control, faults>>

Acts == {"del", "apply", "upsert"}
Faults == {"abandoned", "ddl", "discarded", "leaked", "torn", "repeated"}

ASSUME BoundsAssumption ==
    /\ QueryActs \subseteq Acts /\ IndexModes \subseteq BOOLEAN
    /\ EngineFails \in BOOLEAN /\ ResultFails \in BOOLEAN
    /\ Tolerated \subseteq Faults
    /\ MaxPending \in Nat /\ MaxDBID \in Nat /\ MaxCount \in Nat

NoJob == [kind |-> "none"]
IndexJob == [kind |-> "index"]
Hit == [id : Ids, doc : Docs]
QueryJobs ==
    [kind : {"query"}, col : Names, act : Acts, todo : Seq(Hit), empty : BOOLEAN, changed : BOOLEAN]

NoTx == [cat |-> newState, len |-> 0, dirtyMeta |-> FALSE, dirtyFull |-> FALSE]

\* The database as Open leaves it on an empty directory.
Init ==
    /\ meta = newState /\ docs = <<>> /\ idx = {} /\ uidx = <<>>
    /\ cat = newState /\ pending = <<>> /\ dirtyMeta = FALSE /\ dirtyFull = FALSE
    /\ owner = "none" /\ job = NoJob /\ saved = NoTx /\ up = TRUE
    /\ faults = {}

Ready == up /\ job = NoJob

Blame(S) == faults' = faults \cup S /\ faults' \subseteq Tolerated

If(b, f) == IF b THEN {f} ELSE {}

\* The bounds: a step that would exceed one is not taken.
InBounds(c, pend) ==
    /\ Len(pend) <= MaxPending
    /\ \A x \in {c.next} \cup IndexDbids(c) : x <= MaxDBID
    /\ \A n \in Names : /\ c.cols[n].rnum <= MaxCount
                        /\ \A p \in Paths : c.cols[n].ix[p].rnum <= MaxCount

----------------------------------------------------------------------------
\* Commit.

persistPendingLocked(c, pend) ==
    /\ meta' = c
    /\ docs' = persistDocs(c, docs, pend)
    /\ idx' = persistIdx(c, idx, pend)
    /\ uidx' = persistUidx(c, uidx, pend)

persistFullLocked(c) == meta' = c /\ UNCHANGED <<docs, idx, uidx>>

clearPending == pending' = <<>> /\ dirtyMeta' = FALSE /\ dirtyFull' = FALSE

Writable(c, pend) == ~Unencodable(c, pend) /\ ~NilCollection(c, pend)

\* commitLocked returns an error: of the encoding, or of the engine.
CommitFails(c, pend, df) ==
    \/ ~df /\ Unencodable(c, pend)
    \/ EngineFails /\ (df \/ ~NilCollection(c, pend))

\* Sensitivity variant: a change of the catalog alone is not written.
commitLockedIgnoresMeta(c, pend, dm, df) ==
    /\ cat' = c
    /\ \/ df /\ persistFullLocked(c)
       \/ ~df /\ pend # <<>> /\ Writable(c, pend) /\ persistPendingLocked(c, pend)
       \/ ~df /\ pend = <<>> /\ UNCHANGED engine
    /\ clearPending

commitLocked(c, pend, dm, df) ==
    /\ cat' = c
    /\ \/ df /\ persistFullLocked(c)
       \/ ~df /\ (dm \/ pend # <<>>) /\ Writable(c, pend) /\ persistPendingLocked(c, pend)
       \/ ~df /\ ~dm /\ pend = <<>> /\ UNCHANGED engine
    /\ clearPending

\* Everything in memory is gone; the engine keeps what its batches wrote.
Down ==
    /\ up' = FALSE /\ owner' = "none" /\ job' = NoJob /\ saved' = NoTx
    /\ cat' = newState /\ clearPending
    /\ UNCHANGED engine

\* The index a running WriteTx has built is on the engine.
BuiltInTx == owner = "tx" /\ \E x \in IndexDbids(meta) : x > saved.cat.next

DownFaults ==
    If(\E x \in IndexDbids(meta) : x > meta.next, "torn") \cup If(BuiltInTx, "leaked")

\* persistPendingLocked panics on a buffered put of a removed collection.
Panic(c, pend, df) ==
    /\ ~df /\ NilCollection(c, pend)
    /\ Down /\ Blame(DownFaults)

\* The end of a DB method that changed something: commitLocked, whose error is
\* returned with the changes still in memory.
FinishCall(c, pend) ==
    \/ /\ commitLocked(c, pend, TRUE, dirtyFull)
       /\ owner' = "none" /\ job' = NoJob
       /\ UNCHANGED <<saved, up, faults>>
    \/ /\ CommitFails(c, pend, dirtyFull)
       /\ cat' = c /\ pending' = pend /\ dirtyMeta' = TRUE
       /\ owner' = "none" /\ job' = NoJob
       /\ Blame({"abandoned"})
       /\ UNCHANGED <<engine, dirtyFull, saved, up>>
    \/ Panic(c, pend, dirtyFull)

\* The end of a Tx method: recordDoc* and markMetaDirty, or markFullDirty.
FinishTx(c, pend, full) ==
    /\ cat' = c /\ pending' = pend /\ dirtyMeta' = TRUE
    /\ dirtyFull' = (dirtyFull \/ full)
    /\ job' = NoJob
    /\ Blame(If(dirtyFull' /\ pend # <<>>, "ddl"))
    /\ UNCHANGED <<engine, owner, saved, up>>

\* `full`: whether the Tx method marks the whole catalog dirty.
Finish(c, pend, full) ==
    /\ InBounds(c, pend)
    /\ \/ owner # "tx" /\ FinishCall(c, pend)
       \/ owner = "tx" /\ FinishTx(c, pend, full)

\* An error return.  What the method already did to the catalog stays.
Refuse(c) ==
    /\ InBounds(c, pending)
    /\ cat' = c /\ UNCHANGED <<engine, pending, dirtyMeta, dirtyFull, control, faults>>

----------------------------------------------------------------------------
\* Collections.

EnsureCollection(n) ==
    /\ Ready
    /\ Finish(ensureCollection(cat, n), pending, FALSE)

\* DB.RemoveCollection and DB.RemoveIndex write a batch of their own, which
\* neither looks at nor clears db.pending.
dropAndCommitLocked(c, left, xs) ==
    /\ cat' = c
    /\ \/ /\ meta' = c /\ docs' = left
          /\ idx' = dropIdx(idx, xs) /\ uidx' = dropUidx(uidx, xs)
          /\ UNCHANGED faults
       \/ EngineFails /\ Blame({"abandoned"}) /\ UNCHANGED engine
    /\ UNCHANGED <<pending, dirtyMeta, dirtyFull, control>>

\* Sensitivity variant: Tx.RemoveCollection marks the catalog dirty as
\* Tx.EnsureCollection does.
RemoveCollectionMetaOnly(n) ==
    /\ Ready
    /\ \/ /\ owner = "none" /\ Exists(cat, n)
          /\ dropAndCommitLocked(removeCollection(cat, n),
                                 dropDocs(docs, cat.cols[n].dbid), IndexDbidsOf(cat, n))
       \/ owner = "tx" /\ FinishTx(removeCollection(cat, n), pending, FALSE)

\* Tx.RemoveCollection only drops the catalog entry, present or not.
RemoveCollection(n) ==
    /\ Ready
    /\ \/ /\ owner = "none" /\ Exists(cat, n)
          /\ dropAndCommitLocked(removeCollection(cat, n),
                                 dropDocs(docs, cat.cols[n].dbid), IndexDbidsOf(cat, n))
       \/ owner = "tx" /\ FinishTx(removeCollection(cat, n), pending, TRUE)

RenameCollection(n, m) ==
    /\ Ready
    /\ n # m /\ Exists(cat, n) /\ ~Exists(cat, m)
    /\ Finish(renameCollection(cat, n, m), pending, TRUE)

----------------------------------------------------------------------------
\* Documents.  An input document NoDoc is one normalizeRawJSON rejects.

\* putLocked's view of the document: buffered if it is, else stored.
OldDoc(c, n, id) == pendingDocState(pending, n, id, getDoc(docs, c.cols[n].dbid, id))

\* Tx.Get looks through the buffer; DB.Get, Delete, Patch and MergeOrPut read
\* the engine only.
Lookup(c, n, id) ==
    IF owner = "tx" THEN OldDoc(c, n, id) ELSE getDoc(docs, c.cols[n].dbid, id)

Accepts(c, n, id, d) == d # NoDoc /\ checkUniqueConstraints(c, n, id, d, uidx, pending)

PutCat(c, n, id, d) == CountPut(c, n, OldDoc(c, n, id), d)

PutPending(c, n, id, d) == Append(pending, Mutation(n, id, OldDoc(c, n, id), d))

\* putLocked and the end of the method; `refused` is the catalog when it fails.
putLocked(c, n, id, d, refused) ==
    \/ Accepts(c, n, id, d) /\ Finish(PutCat(c, n, id, d), PutPending(c, n, id, d), FALSE)
    \/ ~Accepts(c, n, id, d) /\ Refuse(refused)

\* NextID is raised before the put and lowered again when the put fails.
PutNew(n, d) ==
    LET c == ensureCollection(cat, n)
        id == c.cols[n].nextId + 1
    IN  /\ Ready /\ id \in Ids
        /\ putLocked(RaiseNextId(c, n, id), n, id, d, c)

\* Put keeps the raised NextID when the put fails.
Put(n, id, d) ==
    LET c == RaiseNextId(ensureCollection(cat, n), n, id)
    IN  Ready /\ putLocked(c, n, id, d, c)

Delete(n, id) ==
    /\ Ready
    /\ Exists(cat, n)
    /\ LET old == Lookup(cat, n, id)
       IN  /\ old # NoDoc
           /\ Finish(CountDelete(cat, n, old), Append(pending, Mutation(n, id, old, NoDoc)), FALSE)

\* d: the patched document, or NoDoc when the patch does not apply.
Patch(n, id, d) ==
    /\ Ready
    /\ Exists(cat, n)
    /\ Lookup(cat, n, id) # NoDoc
    /\ putLocked(cat, n, id, d, cat)

\* d: the merged document, or the patch itself when there is none to merge with.
MergeOrPut(n, id, d) ==
    LET c == ensureCollection(cat, n)
        raised == RaiseNextId(c, n, id)
    IN  /\ Ready
        /\ \/ Lookup(c, n, id) = NoDoc /\ putLocked(raised, n, id, d, raised)
           \/ Lookup(c, n, id) # NoDoc /\ putLocked(c, n, id, d, c)

----------------------------------------------------------------------------
\* Indexes.  EnsureIndex writes two batches: rebuildIndex's, with the catalog
\* that names the new index but still has the old counter, and then its own.

EnsureIndex(n, p, unique) ==
    LET c == ensureCollection(cat, n)
        x == c.next + 1
        entries == IndexEntries(docs, c.cols[n].dbid, p)
        built == [c EXCEPT !.cols[n].ix[p] =
                     [dbid |-> x, unique |-> unique, rnum |-> Cardinality(entries)]]
    IN  /\ Ready
        /\ p \notin Indexed(c, n)
        /\ InBounds(built, pending)
        /\ \/ /\ ~(unique /\ Duplicates(entries))
              /\ cat' = built /\ meta' = built
              /\ idx' = IF unique THEN dropIdx(idx, {x}) ELSE buildIdx(idx, x, entries)
              /\ uidx' = IF unique THEN buildUidx(uidx, x, entries) ELSE dropUidx(uidx, {x})
              /\ job' = IndexJob
              /\ owner' = IF owner = "tx" THEN "tx" ELSE "call"
              /\ Blame(If(owner = "tx", "ddl"))
              /\ UNCHANGED <<docs, pending, dirtyMeta, dirtyFull, saved, up>>
           \/ (EngineFails \/ (unique /\ Duplicates(entries))) /\ Refuse(c)

\* Sensitivity variant: the counter is not advanced.
EnsureIndexDoneStaleCounter == up /\ job = IndexJob /\ Finish(cat, pending, TRUE)

EnsureIndexDone ==
    /\ up /\ job = IndexJob
    /\ Finish([cat EXCEPT !.next = @ + 1], pending, TRUE)

RemoveIndex(n, p) ==
    /\ Ready
    /\ p \in Indexed(cat, n)
    /\ \/ /\ owner = "none"
          /\ dropAndCommitLocked(removeIndex(cat, n, p), docs, {cat.cols[n].ix[p].dbid})
       \/ owner = "tx" /\ FinishTx(removeIndex(cat, n, p), pending, TRUE)

----------------------------------------------------------------------------
\* Queries with an action (del, apply, upsert).  The window of matched
\* documents is fixed first; the action then goes through it.

canUseStorageQuery == pending = <<>> /\ ~dirtyFull

\* scanDocumentIDs: stored ids and buffered puts, less every id with a
\* buffered delete, whatever was buffered after it.
scanDocumentIDs(n) ==
    {id \in Ids :
        /\ \/ <<cat.cols[n].dbid, id>> \in DOMAIN docs
           \/ \E i \in Touches(pending, n, id) : pending[i].new # NoDoc
        /\ \A i \in Touches(pending, n, id) : pending[i].new # NoDoc}

Occurrences(w, id) == Cardinality({i \in DOMAIN w : w[i] = id})

\* Any filter, order, skip and limit: any sequence of scanned ids.  A scan names
\* an id once; the index scan for the "in" operator does not deduplicate, and
\* names it once for each listed value it has.
Windows(n) ==
    {w \in UNION {[1..k -> scanDocumentIDs(n)] : k \in 0..(MaxPending - Len(pending))} :
        \/ \A id \in Ids : Occurrences(w, id) <= 1
        \/ /\ canUseStorageQuery
           /\ \E p \in Indexed(cat, n) : \A id \in Ids :
                 Occurrences(w, id) > 0 => valuesForIndex(getDoc(docs, cat.cols[n].dbid, id), p) # {}}

\* runQueryLocked up to applyActionLocked.  Only UpdateQuery creates an absent
\* collection, for upsert.
QueryBegin(n, act) ==
    LET c == IF act = "upsert" THEN ensureCollection(cat, n) ELSE cat
    IN  /\ Ready
        /\ Exists(c, n)
        /\ InBounds(c, pending)
        /\ \E w \in IF Exists(cat, n) THEN Windows(n) ELSE {<<>>} :
              /\ job' = [kind |-> "query", col |-> n, act |-> act,
                         todo |-> [i \in DOMAIN w |-> [id |-> w[i], doc |-> OldDoc(cat, n, w[i])]],
                         empty |-> w = <<>>, changed |-> FALSE]
              /\ Blame(If(\E id \in Ids : Occurrences(w, id) > 1, "repeated"))
        /\ cat' = c
        /\ owner' = IF owner = "tx" THEN "tx" ELSE "call"
        /\ UNCHANGED <<engine, pending, dirtyMeta, dirtyFull, saved, up>>

InQuery(acts) == up /\ job.kind = "query" /\ job.act \in acts

\* One document of the window is done: its mutation is buffered.
QueryStep(c, pend, todo) ==
    /\ InBounds(c, pend)
    /\ cat' = c /\ pending' = pend /\ dirtyMeta' = TRUE
    /\ job' = [job EXCEPT !.todo = todo, !.changed = TRUE]
    /\ Blame(If(owner = "tx" /\ dirtyFull, "ddl"))
    /\ UNCHANGED <<engine, dirtyFull, owner, saved, up>>

QueryDelete ==
    /\ InQuery({"del"}) /\ job.todo # <<>>
    /\ LET m == Head(job.todo)
       IN  QueryStep(CountDelete(cat, job.col, m.doc),
                     Append(pending, Mutation(job.col, m.id, m.doc, NoDoc)), Tail(job.todo))

QueryApply(d) ==
    /\ InQuery({"apply", "upsert"}) /\ job.todo # <<>>
    /\ LET id == Head(job.todo).id
       IN  /\ Accepts(cat, job.col, id, d)
           /\ QueryStep(PutCat(cat, job.col, id, d), PutPending(cat, job.col, id, d), Tail(job.todo))

\* upsert with an empty window inserts its payload as a new document.
QueryInsert(d) ==
    LET id == cat.cols[job.col].nextId + 1
        c == RaiseNextId(cat, job.col, id)
    IN  /\ InQuery({"upsert"}) /\ job.empty /\ ~job.changed
        /\ id \in Ids /\ Accepts(c, job.col, id, d)
        /\ QueryStep(PutCat(c, job.col, id, d), PutPending(c, job.col, id, d), <<>>)

ReleaseCall == job' = NoJob /\ owner' = IF owner = "tx" THEN "tx" ELSE "none"

\* A patch or unique-constraint error on the next document, or, after the whole
\* window was acted on, an error of the projection or of the visitor on one of its
\* documents: after an insert there is none.
QueryFail ==
    /\ InQuery(Acts)
    /\ job.act = "del" => job.todo = <<>>
    /\ job.changed => ~job.empty /\ (job.todo = <<>> => ResultFails)
    /\ ReleaseCall
    /\ Blame(If(owner = "call" /\ job.changed, "abandoned"))
    /\ UNCHANGED <<engine, memory, saved, up>>

\* Exec, ListQuery and UpdateQuery commit only when something was affected.
QueryEnd ==
    /\ InQuery(Acts) /\ job.todo = <<>>
    /\ job.act = "upsert" => job.changed
    /\ \/ owner = "call" /\ job.changed /\ FinishCall(cat, pending)
       \/ /\ owner = "tx" \/ ~job.changed
          /\ ReleaseCall
          /\ UNCHANGED <<engine, memory, saved, up, faults>>

----------------------------------------------------------------------------
\* Write transactions.

TxBegin ==
    /\ Ready /\ owner = "none"
    /\ owner' = "tx"
    /\ saved' = [cat |-> cat, len |-> Len(pending), dirtyMeta |-> dirtyMeta, dirtyFull |-> dirtyFull]
    /\ UNCHANGED <<engine, memory, job, up, faults>>

TxEnd == Ready /\ owner = "tx" /\ owner' = "none" /\ saved' = NoTx /\ UNCHANGED <<job, up>>

\* Sensitivity variant: only the dirty flags are restored.
truncatePendingFlagsOnly ==
    /\ UNCHANGED pending
    /\ dirtyMeta' = saved.dirtyMeta /\ dirtyFull' = saved.dirtyFull

truncatePending ==
    /\ pending' = SubSeq(pending, 1, saved.len)
    /\ dirtyMeta' = saved.dirtyMeta /\ dirtyFull' = saved.dirtyFull

\* The function returned an error, or commitLocked did.
TxAbort ==
    /\ TxEnd
    /\ cat' = saved.cat /\ truncatePending
    /\ Blame(If(BuiltInTx, "leaked"))
    /\ UNCHANGED engine

TxCommit ==
    \/ /\ TxEnd
       /\ commitLocked(cat, pending, dirtyMeta, dirtyFull)
       /\ Blame(If(dirtyFull /\ pending # <<>>, "discarded"))
    \/ Ready /\ owner = "tx" /\ Panic(cat, pending, dirtyFull)

----------------------------------------------------------------------------
\* Process life.

Close == Ready /\ owner = "none" /\ Down /\ Blame(DownFaults)

Crash == up /\ Down /\ Blame(DownFaults)

Open ==
    /\ ~up /\ up' = TRUE /\ cat' = meta
    /\ UNCHANGED <<engine, pending, dirtyMeta, dirtyFull, owner, job, saved, faults>>

----------------------------------------------------------------------------
Next ==
    \/ \E n \in Names :
          \/ EnsureCollection(n) \/ RemoveCollection(n)
          \/ \E m \in Names : RenameCollection(n, m)
          \/ \E d \in MaybeDocs : PutNew(n, d)
          \/ \E id \in Ids, d \in MaybeDocs :
                Put(n, id, d) \/ Patch(n, id, d) \/ MergeOrPut(n, id, d)
          \/ \E id \in Ids : Delete(n, id)
          \/ \E p \in Paths, unique \in IndexModes : EnsureIndex(n, p, unique)
          \/ \E p \in Paths : RemoveIndex(n, p)
          \/ \E act \in QueryActs : QueryBegin(n, act)
    \/ EnsureIndexDone
    \/ QueryDelete \/ QueryFail \/ QueryEnd
    \/ \E d \in Docs : QueryApply(d) \/ QueryInsert(d)
    \/ TxBegin \/ TxCommit \/ TxAbort
    \/ Close \/ Crash \/ Open

Spec == Init /\ [][Next]_vars

----------------------------------------------------------------------------
\* What a reader finds: in the stored catalog and documents, and through the
\* buffered mutations of the running call or transaction.

ContentsOf(c) ==
    [n \in Names |-> [id \in Ids |-> getDoc(docs, c.cols[n].dbid, id)]]

View ==
    [n \in Names |-> [id \in Ids |-> IF Exists(cat, n) THEN OldDoc(cat, n, id) ELSE NoDoc]]

AtRest == up /\ owner = "none"

Free(S) == faults \cap S = {}

----------------------------------------------------------------------------
\* Type correctness of the whole state: no delete ever leaves a document key
\* behind (persistPendingLocked), no count goes below zero (adjustIndexRNums),
\* db.mu is never held by a call that has returned, and a WriteTx only adds to
\* the mutations it found (truncatePending).
TypeOK ==
    /\ meta \in CatalogType /\ DocsType(docs) /\ IdxType(idx) /\ UidxType(uidx)
    /\ cat \in CatalogType /\ pending \in Seq(MutationType)
    /\ dirtyMeta \in BOOLEAN /\ dirtyFull \in BOOLEAN
    /\ owner \in {"none", "call", "tx"} /\ up \in BOOLEAN
    /\ job \in {NoJob, IndexJob} \cup QueryJobs
    /\ owner = "none" => job = NoJob
    /\ owner = "call" => job # NoJob
    /\ saved \in [cat : CatalogType, len : Nat, dirtyMeta : BOOLEAN, dirtyFull : BOOLEAN]
    /\ owner = "tx" => saved.len <= Len(pending)
    /\ faults \subseteq Faults

\* A catalog's collections have key ranges of their own, within its counter,
\* and the range the counter gives out next holds no document
\* (ensureCollectionOnStateLocked).
OwnRanges(c, stored) ==
    /\ \A n \in Names : c.cols[n].dbid <= c.next
    /\ \A n, m \in Names : Exists(c, n) /\ c.cols[n].dbid = c.cols[m].dbid => n = m
    /\ \A k \in DOMAIN stored : k[1] <= c.next

\* Whatever fails, aborts or crashes, no two collections share a key range and
\* no new collection starts with another's documents: in the live catalog, in
\* the one a WriteTx would roll back to and in the one Open would load.
CollectionsDisjoint ==
    /\ up => OwnRanges(cat, docs)
    /\ OwnRanges(meta, docs)
    /\ owner = "tx" => OwnRanges(saved.cat, docs)

\* No two indexes share a key range (the dbid EnsureIndex takes from the same
\* counter), unless the process ended between EnsureIndex's two batches.
IndexIdsDistinct ==
    Free({"torn"}) =>
        \A c \in {cat, meta, saved.cat} : \A n, m \in Names :
            \A p \in Indexed(c, n), q \in Indexed(c, m) :
                c.cols[n].ix[p].dbid = c.cols[m].ix[q].dbid => n = m /\ p = q

\* Every index of the catalog holds exactly the entries of the stored
\* documents: setIndexKeys, deleteIndexKeys and rebuildIndex leave no stale
\* entry, miss none, and never drop a key another document owns.
IndexExact(c) ==
    \A n \in Names : \A p \in Indexed(c, n) :
        LET x == c.cols[n].ix[p]
            entries == IndexEntries(docs, c.cols[n].dbid, p)
        IN  IF x.unique
            THEN {<<k[2], uidx[k]>> : k \in {k \in DOMAIN uidx : k[1] = x.dbid}} = entries
            ELSE {<<e[2], e[3]>> : e \in {e \in idx : e[1] = x.dbid}} = entries

IndexMatchesDocuments ==
    Free({"abandoned", "torn"}) => (up => IndexExact(cat)) /\ IndexExact(meta)

\* Two stored documents never share a value under a unique index
\* (checkUniqueConstraints looks at stored and at buffered documents).
UniqueIndexHolds ==
    Free({"abandoned", "torn"}) =>
        \A c \in {cat, meta} : \A n \in Names : \A p \in Indexed(c, n) :
            c.cols[n].ix[p].unique => ~Duplicates(IndexEntries(docs, c.cols[n].dbid, p))

\* RNum of a collection and of an index, kept by increments and decrements
\* over every path through the code, is the number of documents and entries.
RNumExact ==
    AtRest /\ Free({"abandoned", "discarded", "repeated", "torn"}) =>
        \A n \in Names :
            /\ cat.cols[n].rnum = Cardinality(StoredIds(docs, cat.cols[n].dbid))
            /\ \A p \in Indexed(cat, n) :
                  cat.cols[n].ix[p].rnum = Cardinality(IndexEntries(docs, cat.cols[n].dbid, p))

\* PutNew never overwrites: no stored or buffered document of a collection has
\* an id above its NextID, in memory and after a reopen.
IdsBelowNext ==
    Free({"abandoned"}) => \A n \in Names :
        /\ up /\ ~dirtyFull => \A id \in Ids : View[n][id] # NoDoc => id <= cat.cols[n].nextId
        /\ \A id \in StoredIds(docs, meta.cols[n].dbid) : id <= meta.cols[n].nextId

\* A crash while nothing runs loses nothing: the stored catalog agrees with
\* the one in memory, except for empty collections and raised NextIDs that a
\* failed call left behind.
ReopenLosesNothing ==
    AtRest /\ Free({"abandoned", "leaked"}) => \A n \in Names :
        LET m == meta.cols[n]
            c == cat.cols[n]
        IN  /\ m.dbid \in {c.dbid, 0} /\ m.rnum = c.rnum /\ m.ix = c.ix
            /\ m.nextId <= c.nextId
            /\ m.dbid # c.dbid => StoredIds(docs, c.dbid) = {}

\* commitLocked finds the collection of every buffered put: removing or
\* renaming a collection inside a WriteTx takes persistFullLocked's way.
PutsHaveCollections ==
    Free({"abandoned"}) /\ ~dirtyFull => ~NilCollection(cat, pending)

----------------------------------------------------------------------------
\* The promise of TxStore: the stored contents are those Open would find, the
\* working ones those the methods in progress see.
Store == INSTANCE TxStore WITH
    committed <- ContentsOf(meta),
    working <- IF up THEN View ELSE ContentsOf(meta),
    busy <- owner # "none"

\* A behaviour whose faults are at most "repeated" and "torn" implements TxStore:
\* calls, queries and transactions are atomic and rollbacks leave no trace
\* (commitLocked, WriteTx).
ImplementsTxStore == Store!Spec
=============================================================================
