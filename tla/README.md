# A TLA+ model of ejdb-go

This directory specifies the database engine of the repository: how documents,
collections, indexes, mutating queries and write transactions change the
in-memory catalog and the key/value store beneath it, through errors, rollbacks
and crashes; how goroutines share one database; and how the text of a query
becomes a filter, a plan and an ordered result. TLC checks the modules on small
instances; TLAPS proves, for every value of the constants, the type invariants and
all safety properties of the state machines `EJDB` and `Sessions`, and the memory
bound and the result window of `Sorter`, whatever order its values have.

## 1. Inventory of the system

| Part | Source | State | Operations |
|---|---|---|---|
| Document and collection operations | `db.go` 158-329 | `DB.state`, `DB.pending`, dirty flags, all under `db.mu` | `EnsureCollection`, `RemoveCollection`, `RenameCollection`, `PutNew`, `Put`, `Get`, `Delete`, `Patch`, `MergeOrPut` |
| Commit path | `db.go` 2413-2636 | `pending`, `dirtyMeta`, `dirtyFull` | `commitLocked`, `persistPendingLocked`, `persistFullLocked`, the two drop batches |
| Write transactions | `tx.go` 33-343 | snapshot of the catalog, length of `pending`, saved flags | `WriteTx` and the `Tx` methods |
| Read transactions | `tx.go` 17-31 | clone of the catalog, engine snapshot | `ReadTx`, `Tx.Get`, queries |
| Catalog | `types.go`, `storage.go` 261-340 | `NextCollectionID`; per collection dbid, `NextID`, `RNum`, indexes | `newState`, `clone`, encode, decode |
| Indexes | `db.go` 331-441, 2040-2310, 2568-2614 | `idx/` and `uidx/` keys, index records in the catalog | `EnsureIndex`, `RemoveIndex`, `rebuildIndex`, `checkUniqueConstraints`, key maintenance at commit |
| Query execution | `db.go` 519-1074, 1770-1955 | none of its own | `Exec`, `ListQuery`, `Count`, `UpdateQuery` |
| Planner and index scans | `db.go` 1076-1751, `query.go` 213-540 | none | plan choice, range bounds, index order |
| Storage engine, key layout | `storage.go` | Pebble keys | batches, snapshots, iterators, sync mode, backup |
| The lock | `DB.mu` | readers, a writer | every method; `ReadTx` lets go of it before its function runs |
| Sort spill | `db.go` 472-517, 1676-1711 | a temporary file | write, read back |
| Parser, formatter | `query.go`, `query_format.go` | none | text to query and back |
| JQL comparison, pointer, patch | `jqvalue.go`, `pointer.go`, `patch.go` | none | pure functions |
| Binn and JSON codecs, errors | `jbl.go`, `json.go`, `errors.go` | none | encode, decode |

How they interact. Every mutating method of `DB` takes `db.mu`, changes the
catalog in place, appends `storageMutation`s to `db.pending` and calls
`commitLocked`, which turns both into one engine batch. `WriteTx` holds `db.mu`
for the whole user function; the `Tx` methods share `putLocked`, `rebuildIndex`
and `runQueryLocked` with the `DB` methods and leave the commit to the end.
Index creation and removal bypass `db.pending` and write batches of their own.
Reads go to the engine, overlaid with `db.pending` where a method looks at it.

What is hard here: methods that write two batches, or that change memory before
something that can fail; rollback of state kept in four places; key ranges handed
out by one counter to collections and indexes; counts kept by increments; unique
keys touched several times in one batch; crashes between batches; queries that
fail half way through their documents; read transactions that take their two
snapshots at different moments. `PROJECT.json` lists each hazard at its line.

What makes each part correct: calls and transactions are atomic (commit path,
transactions); collections and indexes own their key ranges (catalog); index
keys and unique constraints agree with the stored documents, counts are exact
(indexes); a query ranges over what its caller sees (queries); nothing
acknowledged is lost at a reopen (commit path, storage).

## 2. Modules

| Module | Models |
|---|---|
| `Catalog` | catalog records, buffered mutations, and the operators that update them: creation, renaming and removal of entries, `NextID`, record counts |
| `Storage` | `doc/`, `idx/`, `uidx/` keys and the effect of each batch on them; `checkUniqueConstraints` |
| `EJDB` | the state machine: one action for each operation, with the commit path, errors, crashes; its invariants and its refinement of `TxStore` |
| `TxStore` | the abstract promise: a view, changed one document at a time, published whole or not at all |
| `MCEJDB` | instances for TLC, and the documented claims the violation runs refute |
| `EJDB_proofs` | proofs: types, and the key ranges of collections |
| `EJDB_catalog_proofs` | proofs: dbids of indexes, `NextID`, buffered puts, reopening |
| `EJDB_index_proofs` | proofs: index keys and unique constraints |
| `EJDB_refinement_proofs` | proofs: the refinement of `TxStore` |
| `EJDB_count_proofs` | proofs: the record counts |
| `Pointer` | decoded JSON documents and the pointer operations on them |
| `Patch` | the loop of `applyRFC6902` over a patch's operations, and merge patches |
| `Projection` | the terms of a projection, one after the other: includes, joins, removals, patterns, and objects shared with the source |
| `MCPatch` | instances, and what RFC 6902, RFC 7386 and the terms of a projection say of a step, over flattened documents |
| `JQValue` | comparison of JSON values |
| `Sorter` | ordered queries: buffer, spill file, sort, window; the streamed index plan; the properties of their results |
| `IndexOrder` | the order in which an index yields its documents |
| `MCSorter` | instances, with `JQValue` and `IndexOrder` as the parameters of `Sorter`, and the properties of these two |
| `Sorter_proofs` | proofs: the memory bound and the window |
| `Sessions` | goroutines on one database: `db.mu`, read transactions, queries in steps, sync modes, backup, close, crash, reopen |
| `Sessions_proofs` | proofs: the lock, read transactions, queries, durability |
| `MCSessions` | instances |
| `Filter` | what a filter matches: paths, operators, expressions, chains |
| `IndexKeys` | the bytes of index keys, and the ranges that scan them |
| `QueryPlan` | choice of an index, scans, filter over the candidates, order |
| `MCPlan` | collections, indexes and filters, and the comparison of plans with a full scan |
| `QueryText` | splitting, tokens, the parser of `not`, `and`, `or`, values |
| `QueryParser` | comparisons, paths, filters, projections, options, the whole query |
| `QueryFormat` | the canonical text of a parsed query |
| `MCText` | texts put together from pieces, and what must hold of their parses |

`Storage` extends `Catalog`, `EJDB` extends `Storage`; `MCEJDB` and `EJDB_proofs`
extend `EJDB`, which instantiates `TxStore`; `EJDB_catalog_proofs` extends
`EJDB_proofs`, `EJDB_index_proofs` extends that, `EJDB_refinement_proofs` extends
`EJDB_index_proofs` and `EJDB_count_proofs` extends `EJDB_refinement_proofs`;
`Sessions_proofs` extends `Sessions`, `Sorter_proofs` extends `Sorter`. `Projection`
extends `Patch`, which extends `Pointer`; `IndexOrder` and `Filter` extend `JQValue`,
`IndexKeys` extends `Filter` and `QueryPlan` extends `IndexKeys`; `QueryFormat`
extends `QueryParser`, which extends `QueryText`. These are recursive over JSON
values or text and are only model-checked. `Sorter` is not: how values compare and
what an index scan yields are its parameters. `EJDB` treats a patch as any change of
a document and a query's window as any sequence of documents, so it covers what
`Patch`, `Sorter` and `QueryPlan` compute. `Sessions` stands beside `EJDB`: `EJDB`
has every error of one caller at a time; `Sessions` has callers at the same time,
and of the errors the refusal of a batch and that of a transaction's function.

`Patch`: `raw` is the stored document, `doc` the decoded copy, `op` the loop
variable. A pointer is its tokens. As in `pointerTokens`, `""` and `"/"` are both
the whole document (RFC 6901 reads `"/"` as the member with the empty name), and an
index is whatever `strconv.Atoi` reads, leading zeros included, which the RFC does
not allow. Documents are trees, so what the callers of `setAt` and `removeAt` keep
when they drop the returned slice is a function of its own, `InPlace`: it differs
from the returned value for a root array only. Numbers are integers with an int64
range and a float64 that is exact up to `Exact`; `cloneAny` rounds beyond it.

`Projection`: `src` is the decoded document, `out` the result, `terms` the terms
done; each step is one iteration of the loop in `applyProjectionLocked`. Go's maps
and slices are shared and not copied when a path is included, always under the
same path on both sides, so `shared` holds these paths and `Follow` carries a
change of `out` below them over to `src`; the slice that `src` keeps has its old
length. Shared arrays hold scalars, which leaves out objects that move within one.

`Sorter`: `query` is the query with its candidates; those of the sorter are a full
scan, in any order since buffered documents come after the stored ones. `Collect` is
`addMatchedDoc` for one candidate; past the limit `SpillStep` is one iteration of
`spillMatchedDocs`, over all documents collected so far, and `SpillEnd` its return.
`Sort` is `sort.Slice`, which yields the sorted sequence when `less` is an order on
the documents at hand and any permutation otherwise; `Return` takes the window and
reads spilled documents back; `StreamStep` and `StreamEnd` are the plan that scans an
index in its order; `Fail` is an error of the temporary file, `Panic` a window whose
end has overflowed. `CompareValues` is `genericCmp`, `ScanIndex` the index scan.

`QueryPlan`: `ChoosePlan` is the part of `runQueryLocked` that asks the filter for
a candidate and then the ORDERBY path for an index; `Execute` scans, filters and
orders. Index entries are sequences of bytes, compared as such; widths are reduced
(a digit has `Hex` values, a word four digits), with dbids, ids and values chosen
to carry, to be negative and to lie side by side.

`MCText`: a text is a sequence of words and punctuation. Its actions type more of
a query: an operand of the filter with its connective and parentheses, a comparison
of an expression in brackets likewise, a stage, or one comparison in one of its
spellings; after each the text is parsed by the model of the parser.

### Sessions

The engine is the sequence of its committed versions; a snapshot is a position in
it. `synced` of them survive a crash, the others perhaps. A document is the number
of the version that wrote it, so that an answer tells where it came from.

| Variable | Code |
|---|---|
| `log`, `synced` | Pebble: its committed batches, and how far its log is on disk |
| `sync`, `state`, `pending`, `closed` | `Options.AutoSync` and the fields of `DB` |
| `up` | a process has the database |
| `readers`, `writer` | `db.mu` |
| `ses` | each goroutine: where it is, the method, and its locals |
| `abandoned` | history: since `Open` a failed call has left its changes in memory |
| `promised` | history: the versions a caller was told are on disk |

`RLock`, `Lock`, `LockDrained`, `RUnlock`, `Unlock` are `sync.RWMutex`: a writer
that waits keeps new readers out, an `Unlock` lets in the readers that wait. A
method is atomic only between two points where another goroutine can tell: `ReadTx`
is the clone under the lock and then `NewSnapshot`; a query is the choice of its
reader, the scan of the engine, the overlay of `db.pending`, one document after
the other, and the visitor's calls; a write is the mutation, the batch, and
`clearPending`; a backup is the removal of the destination and the checkpoint.
The function of a `ReadTx` reads, queries and calls `DB.Put`. `Close` sets the
engine to nil under the lock, and a read transaction that then uses it panics.

With `EngineFails` the engine may refuse a batch. `WriteTx` then puts its clone of
the catalog back and cuts the buffer (`Rollback`, as when its function returns an
error). `Put`, `RenameCollection` and `RemoveCollection` return the error and leave
`db.state` and `db.pending` as they were changed (`CommitFails`,
`RemoveCollectionFails`): the next query under the lock sees what is not stored, and
the next commit writes it. `abandoned` records this until the database is opened
again.

### State of `EJDB`

| Variable | Code |
|---|---|
| `meta` | the catalog stored under `meta/state` |
| `docs`, `idx`, `uidx` | the `doc/`, `idx/`, `uidx/` keys |
| `cat` | `db.state` |
| `pending`, `dirtyMeta`, `dirtyFull` | the fields of `DB` of the same names |
| `owner` | who holds `db.mu`: nobody, a `DB` method of several steps, a `WriteTx` |
| `job` | the local variables of such a method: the rest of a query's window, or `EnsureIndex` between its two batches |
| `saved` | `WriteTx`'s local snapshot, `pendingLen` and flags |
| `up` | an open database exists in the process |
| `faults` | history only; no action reads it |

### Actions of `EJDB`

A `DB` method and the `Tx` method of the same name are one action; `owner` tells
which one runs, and `Finish` ends it with a commit or by buffering only. Where
the two differ (`RemoveCollection`, `RemoveIndex`, `Lookup` for `Get`) the
difference is in the action. Methods are atomic, since `db.mu` is held, except:

* `EnsureIndex` / `EnsureIndexDone`: the batch of `rebuildIndex`, then the raised
  counter and the method's own commit;
* `QueryBegin`, `QueryDelete` / `QueryApply` / `QueryInsert`, `QueryFail` /
  `QueryEnd`: the window, then one document at a time, so that a patch or a unique
  constraint can fail half way, and the projection or the visitor after the whole
  window (`ResultFails`), but not after an upsert's insert, which has none;
* `TxBegin`, any number of calls, `TxCommit` or `TxAbort`. `TxAbort` is both the
  error of the user function and the error of the commit: `WriteTx` treats them
  alike.

`Crash` may come between any two steps and keeps what batches have written;
`Open` loads the stored catalog. A panic on a nil collection ends the process.
`EngineFails` lets any batch of a `DB` method or of `rebuildIndex` be refused.
A document in `Unstorable` is valid JSON that `encodeStoredDocument` refuses: it
is buffered like any other and makes the commit fail.

Actions that change nothing (a missing document, an existing index, a closed
database) are left out: they are stuttering steps. So are `Get`, `Meta` and
queries without an action.

### Abstractions

* A document is known by the values it gives to an index (`Values`); JSON text
  and the Binn encoding are left out. What a patch or merge computes is any
  document; an input that does not parse, or a patch that does not apply, is
  `NoDoc`.
* A path is a pointer together with an index kind. `Keys` are normalised index
  values, and `valuesForIndex` gives a set since the code removes duplicates.
* A query's filter, order, skip and limit give any sequence of scanned ids. The
  index scan of the `in` operator, which does not remove duplicates, may give an
  id several times.
* `seq/` keys are written and deleted but never read; `indexRuntime`'s maps are
  never filled. Both are left out.
* Integers are unbounded; `MaxDBID`, `MaxCount` and `MaxPending` bound the runs.

### Faults

Some guarantees are given up by the code itself in situations that can be named.
The history variable records them, the properties say which ones they exclude
(`Free`), and `Tolerated` selects the ones a run goes through. A step that would
cause another is not taken.

| Fault | Meaning |
|---|---|
| `abandoned` | a call outside a transaction returned an error and left its changes in memory |
| `ddl` | a transaction built an index, or mixed document writes with catalog changes |
| `discarded` | `persistFullLocked` dropped buffered document writes |
| `leaked` | a transaction that had built an index did not commit |
| `torn` | the process ended between `EnsureIndex`'s two batches |
| `repeated` | a window named a document twice |

## 3. Runs

`docs`, `catalog` and `faults` use `MCEJDB`; the others use the MC module of their
name. Passing runs:

| Run | Instance | Shows |
|---|---|---|
| `docs` | one collection, ids 1 and 2, documents with one and with two values, one document that cannot be stored, all query actions, windows with repetitions, both index modes, no other fault | `UniqueIndexHolds`, `RNumExact`; `IndexMatchesDocuments`: indexes hold exactly the entries of the stored documents; `ImplementsTxStore`: calls, queries and transactions are atomic and rollbacks leave no trace |
| `catalog` | two interchangeable collections, one id, faults `ddl`, `discarded`, `leaked` | `IndexIdsDistinct`, `PutsHaveCollections`, `IdsBelowNext`, `ReopenLosesNothing` |
| `faults` | two collections, one id, upserts, all faults, an engine that may refuse | `TypeOK`, `CollectionsDisjoint` |
| `patch` | two documents with nested objects, arrays and numeric strings, nine pointers, three operations in a row out of about 380, five merge patches; projections of four documents with three terms out of 22 | `OpsFollowRFC6902`, `SwapExchanges`, `MergeFollowsRFC7386`: each step does to the set of locations what the reference says, or is refused with it (an operation on the whole document may be refused); `ProjectionSelects`: so does a whole projection; `CopiesStayApart`: after `all` the document is no longer touched |
| `sorter` | three documents of 3, 1 and 2 bytes scanned in any order, a buffer of 2, values of every kind, one and two ORDERBY paths in both directions, with and without skip and limit, integer and string indexes | `UniformValuesAreOrdered`: `less` is an order on values of one kind; `IndexGivesTheOrder`: the index yields the documents in that order; `MemoryBounded`; `PanicsOnlyOnOverflow`: slicing the result fails only when skip and limit overflow; `WindowIsRight`: sorted, spilled and streamed results are the same page |
| `sessions` | two goroutines, one that reads (and puts from inside a `ReadTx`) and one that writes, two names, one id, three versions, both sync modes, crashes, an engine that may refuse any batch | `SnapshotGets`: the Gets of a `ReadTx` are of one version, under the catalog it cloned; `LockedQueriesAreExact`: until a failed call has left its changes in memory a query under the lock returns the committed documents, also after a transaction has rolled back because its function or its batch failed; `PromisesKept`: what a caller was told is on disk survives and is in the backups; `PromisedVersionsStay`: and no step, crash or reopening changes it; `CallsReturn`: every call ends |
| `plan` | two documents from four families (integers and arrays, floats, strings, mixed), five pairs of indexes, about sixty filters, no order and both directions | `PlansAreExact`: an index plan returns what a full scan returns; `OrderIsTheSorters`: and in the same order; `PathsAgree`: the two walks of a path agree |
| `text` | filters of up to three operands, and expressions in brackets of up to three comparisons, with parentheses and `not`, up to two stages, all spellings of the operators with keys and values that hold operators | `PrecedenceIsUsual`, `CanonicalIsFaithful`, `StagesCommute`, `ComparisonsAreRead` |

Bounds. Two buffered mutations are enough for one to undo or overtake the other,
for two documents to compete for a unique key, and for a query to fail after its
first document. `MaxDBID` leaves room for a collection and an index more than the
ids a lost or stale counter would hand out again; in `catalog`, which has both
names and an index on each, it is 4. `MaxCount` is above what two documents with
two values reach. `faults` has `VIEW ProgramState`: when every fault is tolerated
no step depends on the history. Symmetry over names is sound: no action compares
a name with a fixed one.

In `patch`, three operations are enough for one to shift the array that the next
two point into; `MaxSize` is one above the larger document that is patched (the
two above it are projected only), three terms include, change and include again,
and no step
depends on the last operation, so `VIEW` leaves it out. `OpsFollowRFC6902` is
stated for documents whose numbers float64 holds exactly; increments leave that
range and wrap in later steps. In `sorter` the buffer of 2 overflows once, twice or
not at all, with documents collected before, between and after the spills, so a
spill meets documents already in the file and the window mixes spilled and resident
ones; mixed kinds are in the instance too, where `sort.Slice` may return any
permutation and the order of the result is not demanded. `skip` stays before, and
goes beyond, the last document; `MaxInt` is 7, so that `skip` plus the largest
`limit` wraps. The query never changes, so the two properties about values ask at
the first candidate only. Queries end, so `sorter` does not check deadlock.

In `sessions` three versions are two commits after the empty database: one before
and one during a read transaction, or one of each goroutine. Two operations in a
`ReadTx` are enough to disagree, and one mutation in a `WriteTx` is enough to be
seen before its commit; `stable_reads` has two. After a call that has left its
changes behind, the calls that run or wait go on but none starts before the next
opening (`GoesOn`); the theorems hold without this bound. Deadlock is checked, and a state
in which every call waits would be one. In `plan` ids are 1 and 7 and dbids 3, 4
and 7 of a byte with four values, so that prefixes end in the largest byte; two
documents are enough to tell an order and a lost or a repeated document, and arrays
give them several entries. In `text` three operands are the least in which `and`
and `or` meet in both orders within and without parentheses, and two stages
the least that can be swapped. After the first operand, which is of any kind, the
others are all `/a`, and likewise `a = 1` after the first comparison: the parser does
not compare operands, and `b or a and a` already tells the readings apart. Both runs
end, so neither checks deadlock.

What the properties of `plan` exclude is what the code does otherwise: see below.

Violation runs, each the counterexample to a claim of the README or of a test;
the finding in `PROJECT.json` quotes it:

| Run | Claim | What happens |
|---|---|---|
| `lost_commit` | `CommitPublishesView` | a transaction that puts a document and removes, renames or indexes something commits without the document |
| `left_in_memory` | `StoreIsSourceOfTruth` | an `apply` over two documents changes the first and fails on the second: the call returns the error and the change stays buffered (in this run neither projection nor visitor fails, `ResultFails`) |
| `shared_range` | `IndexRangeIsOwn` | after a crash inside `EnsureIndex` two indexes share a key range |
| `stable_reads` | `StableReads` | a query of a `ReadTx` sees commits later than its snapshot and its Gets, and what another transaction has not committed |

The model has further behaviours of this kind, which no run of their own shows and
which the properties above exclude by naming the fault, the operation or the
range of numbers: JSON patch operations refuse to replace the whole document, which
RFC 6902 has them do (`ReplacesRoot`); `Tx.EnsureIndex` writes to the engine at once; a put that the
encoding refuses stays buffered, and every later commit fails on it;
`Tx.RemoveCollection` leaves the documents on the engine; a deleting query over an
`in` scan lowers the count twice for a document found under two values; `copy` and
`swap` round integers above 2^53; `skip` plus the largest `limit` overflows, and
the slice expression panics; a document deleted and put again in one transaction
is missing from the transaction's queries; on a document whose root is an array
`add` is lost and `remove` repeats the last element, without an error; a string
index gives ORDERBY the order of bytes, the sorter puts shorter strings first; an
index that only gives the order leaves out documents without the field; a range
with an upper bound only, and an `in`, answer an ascending ORDERBY on the same
index in another order; two bounds merged into one range lose an array document
that meets them with two values; an index on floats keeps negative zero apart; the
canonical text drops the quotes of names, renumbers positional placeholders when
it moves stages, and loses the name of a placeholder that begins a group; a
path that a projection includes, removes in part and includes again stays without
the part, unless the projection began with `all`, and a pattern that removes from
an array leaves nulls; a
failed checkpoint has removed the previous backup; `Close` makes a running
`ReadTx` panic; a function that calls the `DB` inside a `WriteTx` waits for ever.

### Fairness

Only `sessions` assumes fairness, for `CallsReturn`. `WF(Step(s))`: a goroutine
that can go on goes on, since the Go scheduler runs every runnable goroutine, and
functions of transactions and visitors return, which is the caller's part
(`MaxOps` bounds what they do). `SF(Lock(s))`: the mutex inside `Lock` is free
again and again, and `sync.Mutex` hands it to a waiter after a millisecond
of starvation. Nothing is assumed of the calls that start, of crashes or of
reopening. All other properties are safety properties.

## 4. Proofs

The theorems hold for all constants that satisfy the assumptions of `Catalog`,
`EJDB`, `Sessions` and `Sorter`: ids are a finite set of integers, values and keys are
finite, faults, actions and methods are the known ones, bounds are natural
numbers, a stored document has at least one byte, and an index scan yields ids. Only
`TransactionsAreAtomic` has another hypothesis, on `Tolerated`. Each is
`Spec => []P`, or `Spec => P` for an action property and the refinement, from an
inductive invariant.

| Theorem | States | In words |
|---|---|---|
| `TypeCorrect` | `EJDB!TypeOK` | |
| `CollectionsStayDisjoint` | `CollectionsDisjoint` | whatever fails, aborts or crashes, no two collections share a key range and no new one starts with stored documents |
| `IndexIdsStayDistinct` | `IndexIdsDistinct` | no two indexes share a key range, unless the process ended inside `EnsureIndex` |
| `PutsKeepCollections` | `PutsHaveCollections` | the commit finds the collection of every buffered put |
| `PutNewNeverOverwrites` | `IdsBelowNext` | `NextID` is at or above every id in use |
| `CrashAtRestLosesNothing` | `ReopenLosesNothing` | the dirty flags miss no change |
| `IndexesMatchDocuments` | `IndexMatchesDocuments` | indexes hold exactly the keys of the stored documents |
| `UniqueConstraintsHold` | `UniqueIndexHolds` | no two stored documents share a value under a unique index |
| `TransactionsAreAtomic` | `ImplementsTxStore` | with `Tolerated` within `repeated` and `torn`, every call, query and transaction is atomic |
| `CountsAreExact` | `RNumExact` | whenever no call runs, `rnum` is the number of stored documents and of index entries |
| `SessionsTypeCorrect` | `Sessions!TypeOK` | |
| `ReadTxGetsAreStable` | `SnapshotGets` | the Gets of a `ReadTx` read one version |
| `QueriesUnderTheLockAreExact` | `LockedQueriesAreExact` | as long as no call since `Open` has failed and left its changes in memory, a query under the read lock returns what is stored |
| `DurabilityPromisesKept` | `PromisesKept` | acknowledged versions survive crashes and are in backups |
| `PromisedVersionsAreKept` | `PromisedVersionsStay` | no step takes back a promise or changes a version it covers |
| `MutualExclusion` | `WritersAreAlone` | beside a goroutine that holds the write lock nobody is inside `db.mu` |
| `MemoryStaysBounded` | `MemoryBounded` | between two documents the sorter holds at most `SortBufferSize` bytes |
| `PanicsAreOverflows` | `PanicsOnlyOnOverflow` | slicing the result panics only when skip and limit exceed the largest int |
| `WindowsAreRight` | `WindowIsRight` | an ordered query returns the documents of its window, each at its place with its own bytes |

The faults that a property names with `Free` are part of the statement, here as in
the runs.

### Key ranges: `IInv` of `EJDB_proofs`

`IInv == TypeOK /\ CollectionsDisjoint`. Types are needed because dbids are
compared as numbers. `CollectionsDisjoint` speaks of three catalogs, which is what
makes it inductive: the live one, the one a transaction would roll back to and the
stored one each bound the dbids of all stored documents, so a rollback or a reopen
may lower the counter without reaching a range in use. The proof abstracts every
catalog update to `GoodUpdate` (it keeps the type and the ranges; updates compose),
every batch to what it keeps of the engine's types and ranges, and then goes
through the actions, one lemma for each group.

### The catalog: `CInv`

Relative to `IInv`, `CInv` is the conjunction of

* `ControlOK`: outside a transaction there is no snapshot, inside one the counter is
  not below the snapshot's, and a process that has ended left nothing in memory;
* `EntriesOK`: a name without a collection has no counters and no indexes, and every
  document key belongs to some collection;
* `IndexesOK`: dbids of indexes are distinct in the three catalogs and not above the
  counter, except by one between the two batches of `EnsureIndex`. This exception is
  what a crash at that moment makes permanent (`torn`);
* `FlagsOK`: the dirty flags say whether memory is ahead of the engine: nothing is
  buffered while `dirtyMeta` is unset, `dirtyFull` is only for transactions, and
  nothing is dirty while nobody holds the lock;
* `IdsOK`: stored, buffered and windowed ids are at or below `NextID`. The three
  catalogs are needed again, since a rollback and a reopen lower it;
* `StoredOK`: when nothing is dirty the stored catalog differs from the live one only
  by empty collections and by `NextID`s that failed calls have raised.

Calls that add collections, raise `NextID` or change counts are one relation on
catalogs (`Grow`), so most actions need one application of a lemma.

### The indexes: `XInv`

At rest the statement is `Exact`: for the catalogs `cat`, `meta` and `saved.cat`,
every key of an index stands for a stored document and conversely. That does not
say why a commit keeps it, since a batch writes its mutations one after the other
and each removes the keys of the document it replaces. So `PendingOK` describes
the buffer mutation by mutation. `ViewAt(.., i)` is a document as the first `i`
mutations leave it; `MutationOK` says that mutation `i` replaces that document, or
nothing if it is already gone, and that neither the values it removes nor the ones it
writes belong to another document at that moment (`Alone`). The second half is the
result of `checkUniqueConstraints`, the first is why `deleteIndexKeys` takes no
unique key from another document. `WindowOK` says the same of the documents a
deleting query has yet to reach: it read them when its window was built, and may
name one twice. In a batch the last mutation that touches a key decides about it
(`persistIdx`, `persistUidx`); the proof shows that after this mutation, and so at
the end, the key is there exactly if the document has the value. The faults
`abandoned` and `torn` end it, as they do in the property.

### Atomicity: `SInv` and `Effect`

`EJDB` maps to `TxStore` by what the stored catalog and documents show (`Com`) and by
what the running call or transaction sees through its buffer (`Wrk`; after the end
of the process, `Com`). The proof has three parts.

* `SInv`, beside `IInv` and `CInv`: what a transaction has buffered belongs to
  collections that exist, a transaction that changes the catalog has buffered
  nothing, and only a call of its own builds an index.
* `Effect`, one lemma for each action: a step ends what ran and leaves `Com` as it is,
  or it leaves `Wrk` as it is, or changes it by one document or one collection.
  `Com` changes only where the lock is released. The lemmas rest on what the
  operators do to what is seen: a batch stores it (`PersistSeen`), a mutation more
  changes one document (`AppendSeen`), a new collection shows nothing because its
  range is above those in use (`GrowSeen`, from `CollectionsDisjoint`).
* `RestOK`: while nobody holds the lock `Com = Wrk`, which is what `StoredOK` and
  `FlagsOK` say of the contents. With it before and after a step, an `Effect` is one of
  `TxStore`'s actions or a stutter (`Simulation`).

The hypothesis leaves out the behaviours in which the code gives the promise up: a
failed commit or a query that fails half way outside a transaction (`abandoned`),
and transactions that build indexes or mix documents with catalog changes (`ddl`,
`discarded`, `leaked`). `EngineFails` is free: a commit that fails inside a transaction
rolls back. After a crash inside `EnsureIndex` (`torn`) the history cannot tell the
stored index from one that the running transaction has built, and counts the
rollback of a transaction in that state as `leaked`; those rollbacks are left out
too, until the index is removed or the counter has passed it.

### Counts: `RInv`

`RNumExact` speaks of rest only and is far from inductive: between two commits `rnum`
has moved with every buffered mutation, while the engine has not. `RInv` says of three
catalogs what they count, each against other contents, while the named faults have
not happened (`Tame`):

* `NowOK`: the live catalog counts what is seen through the buffer, `Seen`, and what
  is left of a query's window is each document once, as it is seen now. Without the
  second part a deleting query would lower the count for a document that is gone;
* `ThenOK`: the catalog a transaction would roll back to counts what is stored;
* `OnceOK`: so does the stored catalog, which a reopen loads.

Two situations are excepted because the code's counts are wrong in them and nobody
can see it yet. `Mixed`: a transaction with buffered documents that has changed the
catalog; its commit would discard the documents, which is a fault from then on, and
its rollback restores a count that was right. `Between`: the stored catalog between the
two batches of `EnsureIndex` is the one `rebuildIndex` wrote; if the process ends there
the fault is `torn`. The steps rest on four facts about cardinalities: one document
more, less or other changes the number of documents and of an index's entries by as
much as `putLocked` and `adjustIndexRNums` add (`LiveChange`, `EntriesChange`), the clamp
at zero never acts since the document taken away is among those counted, and a rebuilt
index counts what it found.

### Goroutines: `IInv` of `Sessions_proofs`

`TypeOK`, `DatabaseOK` and, for each goroutine, `SessionOK`:

* `LockOK`: `readers` and `writer` say where the goroutines are, and one that holds
  the write lock has no readers beside it;
* `MemoryOK` (and `Clean` of `DatabaseOK`): unless a call has left its changes behind
  (`abandoned`), memory differs from the engine only between a writer's first mutation
  and its batch, or its rollback;
* `SavedOK`: what a `WriteTx` has kept for its rollback is the catalog and the length
  of the buffer from before its first mutation, so that `Rollback` restores `Clean`
  (`RollbackOK`), whether its function or its batch has failed;
* `SnapshotOK`: the snapshot of a `ReadTx` is no older than its call, and each Get
  was answered from it;
* `QueryOK`: while a query runs under the lock, what it has found is what is stored
  for the ids already passed, and the rest is still to come;
* `DiskOK`: `promised <= synced`, `AutoSync` leaves nothing unsynced, and `ForceSync`,
  `Close` and `Backup` reach their return with the log on disk.

`TypeOK` says here that a version holds no document of a later one; without it an
answer could not be traced to the version it came from. Ids are integers, because
`QueryDoc` takes the least one left, as the code's scan does.

### Ordered results: `SInv` of `Sorter_proofs`

What comes out depends on all that happened since the first candidate, so `SInv` has
a part for each stage:

* `DocsOK`: a document collected has its own bytes in memory or, at the offset it
  recorded, in the file, which only grows (`OwnGrows`). It travels with the document
  through `sort.Slice`, which is why any permutation will do;
* `MemoryOK`: `bufferedSortBytes` is the number of bytes in memory, and a spill in
  progress leaves none behind it; so it may be reset to zero;
* `CollectOK`, `SortedOK`: the documents collected are the matches among the candidates
  passed, each once; sorted, they are all matches and in order;
* `StreamOK`: the matches passed are as many as were skipped or kept, those kept are at
  their positions, and nothing is kept before `skip` is used up.

`Positions` ties them to the result: in a list in order that has all matches, the
position of a document is one more than the number of matches before it. `WindowBounds` is
the arithmetic of `start`, `end` and the negative sum at which the slice panics.
`WindowsAreRight` holds for every comparison and every scan, under the conditions in the
property: `less` is an order on the documents, and a streamed index yields the matches
in that order. That `genericCmp` and the index keys fulfil them is checked by TLC
(`UniformValuesAreOrdered`, `IndexGivesTheOrder`).

### Only model-checked

* the properties of `patch`, `plan` and `text`, and the two of `sorter` about values. They
  are about what recursive definitions compute (documents, keys, texts, comparison),
  which needs an induction over data that the prover cannot do;
* `CallsReturn`: liveness under fairness is out of its reach too.

## 5. Not modelled, and the plan

Not modelled:

* the Binn codec (`jbl.go`): a byte layout without state; its size and type
  boundaries are the candidates for a module of their own;
* regular expressions, backslash escapes, fractions, and the members of JSON
  objects in query texts; `inverse`;
* Pebble, `encoding/json`, `sync`, `sort`: external, modelled by how they are used;
* the example program, the benchmarks, the in-memory twins of the index scans
  (`memoryIndexCandidateIDs`, `orderIDsByRuntimeIndex`, `orderedIDsFromIndex`),
  which no call reaches with a plan over `indexRuntime`'s empty maps.

Order of the remaining work:

1. Ids and counters with their width.
2. The Binn codec.
