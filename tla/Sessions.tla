------------------------------ MODULE Sessions ------------------------------
(***************************************************************************)
(* Goroutines that use one database at the same time (tx.go, db.go,         *)
(* storage.go): the reader/writer lock db.mu, read transactions, queries    *)
(* step by step, sync modes, backups, and the end of the process.           *)
(*                                                                          *)
(* The engine is the sequence of its committed versions (log); a snapshot   *)
(* is a position in it.  A version is the stored catalog and documents; a   *)
(* document is the number of the version it was written for, 0 is no        *)
(* document.  Indexes and a document's own errors are the subject of EJDB:   *)
(* here a batch commits, or the engine refuses it, and what is told apart   *)
(* is who sees what, and when.                                              *)
(*                                                                          *)
(* External, from how the code uses them: sync.RWMutex, and Pebble, whose   *)
(* versions up to `synced` survive the end of the process, the later ones   *)
(* perhaps.                                                                 *)
(***************************************************************************)
EXTENDS Integers, Sequences, FiniteSets

CONSTANTS
    Procs,        \* goroutines
    Calls,        \* Calls[s]: the methods goroutine s calls
    Names,        \* collection names
    Ids,          \* document ids
    Steps,        \* what a visitor may store in *step
    EngineFails,  \* whether the engine may refuse a batch
    GoesOn,       \* bound: whether calls start after one that left its changes behind
    MaxVersions,  \* bound: committed versions
    MaxOps,       \* bound: operations of one ReadTx, visits that go back
    MaxMutations, \* bound: mutations of one WriteTx
    NoProc        \* nobody

ReadCalls == {"ReadTx", "Exec", "Backup"}
WriteCalls == {"WriteTx", "Put", "RemoveCollection", "RenameCollection", "ForceSync", "Close"}

ASSUME SessionsAssumption ==
    /\ Calls \in [Procs -> SUBSET (ReadCalls \cup WriteCalls)]
    /\ NoProc \notin Procs
    /\ Ids \subseteq Int /\ IsFiniteSet(Ids) /\ Steps \subseteq Int
    /\ EngineFails \in BOOLEAN /\ GoesOn \in BOOLEAN
    /\ MaxVersions \in Nat /\ MaxOps \in Nat /\ MaxMutations \in Nat

VARIABLES
    log,       \* the engine: its committed versions
    synced,    \* how many of them a crash cannot take
    sync,      \* Options.AutoSync of the open database
    state,     \* db.state: the catalog in memory
    pending,   \* db.pending
    dirtyMeta, \* db.dirtyMeta
    closed,    \* db.closed; the engine is closed with it
    up,        \* a process has the database
    abandoned, \* history: since Open a failed call has left its changes in memory
    readers,   \* db.mu: the holders of the read lock
    writer,    \* db.mu: the goroutine inside Lock, pending or holding
    ses,       \* the goroutines
    promised   \* history: the versions callers were told are on disk

durable == <<log, synced>>
memory == <<sync, state, pending, dirtyMeta, closed, up, abandoned>>
mutex == <<readers, writer>>
vars == <<durable, memory, mutex, ses, promised>>

----------------------------------------------------------------------------
\* Versions.  dbid 0 stands for a name the catalog does not hold.

Catalog == [next : Nat, dbid : [Names -> Nat]]

NoCatalog == [next |-> 1, dbid |-> [n \in Names |-> 0]]

Empty == [cat |-> NoCatalog, docs |-> <<>>]

Latest == log[Len(log)]

\* getDocRaw: one Get of keyDoc.
DocAt(v, d, id) == IF <<d, id>> \in DOMAIN v.docs THEN v.docs[<<d, id>>] ELSE 0

\* Contents of version k under the names of catalog c.
Content(k, c, n, id) == IF c.dbid[n] = 0 THEN 0 ELSE DocAt(log[k], c.dbid[n], id)

Touching(n, id) == {i \in DOMAIN pending : pending[i].col = n /\ pending[i].id = id}

IsLast(i, S) == i \in S /\ \A j \in S : j <= i

ensureCollection(c, n) ==
    IF c.dbid[n] # 0 THEN c
    ELSE [next |-> c.next + 1, dbid |-> [c.dbid EXCEPT ![n] = c.next + 1]]

\* Sensitivity variant: a delete overwrites the document.
PersistedTombstones ==
    LET keyOf(i) == <<state.dbid[pending[i].col], pending[i].id>>
        hits(k) == {i \in DOMAIN pending : keyOf(i) = k}
    IN  [cat |-> state,
         docs |-> [k \in DOMAIN Latest.docs \cup {keyOf(i) : i \in DOMAIN pending} |->
                      IF hits(k) = {} THEN Latest.docs[k]
                      ELSE pending[CHOOSE i \in hits(k) : IsLast(i, hits(k))].new]]

\* persistPendingLocked: the last mutation of a document decides.
Persisted ==
    LET keyOf(i) == <<state.dbid[pending[i].col], pending[i].id>>
        hits(k) == {i \in DOMAIN pending : keyOf(i) = k}
        after(k) == IF hits(k) = {} THEN Latest.docs[k]
                    ELSE pending[CHOOSE i \in hits(k) : IsLast(i, hits(k))].new
        all == DOMAIN Latest.docs \cup {keyOf(i) : i \in DOMAIN pending}
    IN  [cat |-> state, docs |-> [k \in {k \in all : after(k) # 0} |-> after(k)]]

----------------------------------------------------------------------------
\* A goroutine: where it is (pc), the method it is in (call), where a nested
\* call returns to (back), and its locals.

Idle == [pc |-> "idle", call |-> "none", back |-> "idle",
         began |-> 0,             \* history: versions when a ReadTx was called
         view |-> NoCatalog,      \* Tx.state of a ReadTx, the clone of a WriteTx
         kept |-> 0,              \* pendingLen of a WriteTx
         dirty |-> FALSE,         \* dirtyMeta of a WriteTx
         snap |-> 0,              \* Tx.reader of a ReadTx
         left |-> 0,              \* operations its function may still do
         gets |-> {},             \* history: answers of Tx.Get
         col |-> "none", src |-> 0, ids |-> {}, out |-> {},  \* of a query
         i |-> 0,                 \* the visitor's document
         copy |-> 0]              \* the version in the backup directory, 0 for none

At(s, pc) == ses[s].pc = pc

Set(s, r) == ses' = [ses EXCEPT ![s] = r]

Goto(s, pc) == ses' = [ses EXCEPT ![s].pc = pc]

\* The record of a goroutine whose call has ended: a nested Put goes on in the
\* function of the ReadTx.
Ended(r) == IF r.back = "tx" THEN [r EXCEPT !.pc = "tx", !.call = "ReadTx", !.back = "idle"] ELSE Idle

Init ==
    /\ log = <<Empty>> /\ synced = 1
    /\ sync \in BOOLEAN /\ state = NoCatalog /\ pending = <<>> /\ dirtyMeta = FALSE
    /\ closed = FALSE /\ up = TRUE /\ abandoned = FALSE
    /\ readers = {} /\ writer = NoProc
    /\ ses = [s \in Procs |-> Idle]
    /\ promised = 1

----------------------------------------------------------------------------
\* db.mu.  Lock takes the inner mutex and from then on keeps new readers out;
\* it holds the lock when the old ones have left.  Unlock lets in every reader
\* that waits before the next writer can start.

RLock(s) ==
    /\ At(s, "rlock") /\ writer = NoProc
    /\ readers' = readers \cup {s} /\ Goto(s, "read")
    /\ UNCHANGED <<durable, memory, writer, promised>>

Lock(s) ==
    /\ At(s, "lock") /\ writer = NoProc
    /\ writer' = s /\ Goto(s, "drain")
    /\ UNCHANGED <<durable, memory, readers, promised>>

LockDrained(s) ==
    /\ At(s, "drain") /\ readers = {}
    /\ Goto(s, "write")
    /\ UNCHANGED <<durable, memory, mutex, promised>>

RUnlock(s) == readers' = readers \ {s} /\ writer' = writer

\* Unlock by s, which goes on as r.
Unlock(s, r) ==
    LET waiting == {t \in Procs : At(t, "rlock")}
    IN  /\ writer' = NoProc
        /\ readers' = readers \cup waiting
        /\ ses' = [t \in Procs |-> IF t = s THEN r
                                   ELSE IF t \in waiting THEN [ses[t] EXCEPT !.pc = "read"]
                                   ELSE ses[t]]

Writing(s) == At(s, "lock") \/ At(s, "drain") \/ At(s, "write") \/ At(s, "wtx") \/ At(s, "commit")

Room == Len(log) + Cardinality({s \in Procs : Writing(s)}) < MaxVersions

\* A goroutine calls a method of the database.
Start(s, c) ==
    /\ up /\ At(s, "idle") /\ c \in Calls[s] /\ (c \in WriteCalls => Room)
    /\ abandoned => GoesOn
    /\ Set(s, [Idle EXCEPT !.pc = IF c \in ReadCalls THEN "rlock" ELSE "lock",
                           !.call = c, !.began = IF c = "ReadTx" THEN Len(log) ELSE 0])
    /\ UNCHANGED <<durable, memory, mutex, promised>>

\* Every method first looks at db.closed and returns ErrClosed; Close returns nil.
ErrClosed(s) ==
    /\ closed
    /\ \/ At(s, "read") /\ RUnlock(s) /\ Set(s, Idle)
       \/ At(s, "write") /\ Unlock(s, Ended(ses[s]))
    /\ UNCHANGED <<durable, memory, promised>>

----------------------------------------------------------------------------
\* ReadTx: the catalog is cloned under db.mu, the engine snapshot is taken
\* after its release.

\* Sensitivity variant: db.mu is held while the function runs.
ReadTxKeepsLock(s) ==
    /\ At(s, "read") /\ ses[s].call = "ReadTx" /\ ~closed
    /\ Set(s, [ses[s] EXCEPT !.pc = "cloned", !.view = state])
    /\ UNCHANGED <<durable, memory, mutex, promised>>

ReadTx(s) ==
    /\ At(s, "read") /\ ses[s].call = "ReadTx" /\ ~closed
    /\ RUnlock(s)
    /\ Set(s, [ses[s] EXCEPT !.pc = "cloned", !.view = state])
    /\ UNCHANGED <<durable, memory, promised>>

NewSnapshot(s) ==
    /\ At(s, "cloned") /\ ~closed
    /\ Set(s, [ses[s] EXCEPT !.pc = "tx", !.snap = Len(log), !.left = MaxOps])
    /\ UNCHANGED <<durable, memory, mutex, promised>>

\* Sensitivity variant: Tx.reader is the live engine.
TxGetLive(s, n, id) ==
    LET r == ses[s]
    IN  /\ At(s, "tx") /\ r.left > 0 /\ ~closed
        /\ Set(s, [r EXCEPT !.left = @ - 1,
                            !.gets = @ \cup {<<n, id, Content(Len(log), r.view, n, id)>>}])
        /\ UNCHANGED <<durable, memory, mutex, promised>>

\* Tx.Get of a ReadTx: the snapshot, under the dbid of the clone.
TxGet(s, n, id) ==
    LET r == ses[s]
    IN  /\ At(s, "tx") /\ r.left > 0 /\ ~closed
        /\ Set(s, [r EXCEPT !.left = @ - 1,
                            !.gets = @ \cup {<<n, id, Content(r.snap, r.view, n, id)>>}])
        /\ UNCHANGED <<durable, memory, mutex, promised>>

\* The function of a ReadTx calls DB.Put, or queries through its Tx.
NestedPut(s) ==
    /\ At(s, "tx") /\ ses[s].left > 0 /\ Room
    /\ Set(s, [ses[s] EXCEPT !.pc = "lock", !.call = "Put", !.back = "tx", !.left = @ - 1])
    /\ UNCHANGED <<durable, memory, mutex, promised>>

TxQuery(s) ==
    /\ At(s, "tx") /\ ses[s].left > 0
    /\ Set(s, [ses[s] EXCEPT !.pc = "query", !.back = "tx", !.left = @ - 1])
    /\ UNCHANGED <<durable, memory, mutex, promised>>

ReadTxReturn(s) ==
    /\ At(s, "tx") /\ Set(s, Idle)
    /\ UNCHANGED <<durable, memory, mutex, promised>>

----------------------------------------------------------------------------
\* runQueryLocked of a query without an action, up to its window: the plan is a
\* scan.  The steps of a DB method run under the read lock, those of a ReadTx's
\* Tx without it; both read db.pending.

\* Sensitivity variant: the read lock is given back before the query runs.
QueryUnlocked(s) ==
    /\ At(s, "read") /\ ses[s].call = "Exec" /\ ~closed
    /\ Set(s, [ses[s] EXCEPT !.pc = "query", !.view = state, !.left = MaxOps])
    /\ RUnlock(s)
    /\ UNCHANGED <<durable, memory, promised>>

Query(s) ==
    /\ At(s, "read") /\ ses[s].call = "Exec" /\ ~closed
    /\ Set(s, [ses[s] EXCEPT !.pc = "query", !.view = state, !.left = MaxOps])
    /\ UNCHANGED <<durable, memory, mutex, promised>>

canUseStorageQuery == pending = <<>>

\* An absent collection has no documents; otherwise a snapshot is taken, or the
\* live engine (src = 0) when something is pending.
QueryReader(s, n) ==
    /\ At(s, "query")
    /\ IF ses[s].view.dbid[n] = 0
       THEN Set(s, [ses[s] EXCEPT !.pc = "window", !.col = n, !.ids = {}, !.out = {}])
       ELSE /\ ~closed
            /\ Set(s, [ses[s] EXCEPT !.pc = "scan", !.col = n, !.out = {},
                                     !.src = IF canUseStorageQuery THEN Len(log) ELSE 0])
    /\ UNCHANGED <<durable, memory, mutex, promised>>

Source(r) == IF r.src = 0 THEN Len(log) ELSE r.src

\* scanDocumentIDs: an iterator over the documents, and then the overlay.
ScanEngine(s) ==
    LET r == ses[s]
    IN  /\ At(s, "scan") /\ ~closed
        /\ Set(s, [r EXCEPT !.pc = "overlay",
                            !.ids = {id \in Ids : Content(Source(r), r.view, r.col, id) # 0}])
        /\ UNCHANGED <<durable, memory, mutex, promised>>

ScanPending(s) ==
    LET r == ses[s]
        of(isPut) == {pending[i].id : i \in {j \in DOMAIN pending :
                          pending[j].col = r.col /\ (pending[j].new # 0) = isPut}}
    IN  /\ At(s, "overlay")
        /\ Set(s, [r EXCEPT !.pc = "docs", !.ids = (@ \cup of(TRUE)) \ of(FALSE)])
        /\ UNCHANGED <<durable, memory, mutex, promised>>

\* docForQuery: the pending state of the document, or else the reader's.
docForQuery(r, id) ==
    LET hits == Touching(r.col, id)
    IN  IF hits # {} THEN pending[CHOOSE i \in hits : IsLast(i, hits)].new
        ELSE Content(Source(r), r.view, r.col, id)

QueryDoc(s) ==
    LET r == ses[s]
        id == CHOOSE i \in r.ids : \A j \in r.ids : i <= j
        doc == docForQuery(r, id)
    IN  /\ At(s, "docs") /\ r.ids # {}
        /\ Touching(r.col, id) = {} => ~closed
        /\ Set(s, [r EXCEPT !.ids = @ \ {id},
                            !.out = IF doc = 0 THEN @ ELSE @ \cup {<<r.col, id, doc>>}])
        /\ UNCHANGED <<durable, memory, mutex, promised>>

QueryScanned(s) ==
    /\ At(s, "docs") /\ ses[s].ids = {} /\ Goto(s, "window")
    /\ UNCHANGED <<durable, memory, mutex, promised>>

\* What a query over collection n that returned `out` says of every document.
Answers(n, out) == out \cup {<<n, id, 0>> : id \in {j \in Ids : \A a \in out : a[2] # j}}

TxQueryReturn(s) ==
    LET r == ses[s]
    IN  /\ At(s, "window") /\ r.back = "tx"
        /\ Set(s, [r EXCEPT !.pc = "tx", !.back = "idle", !.col = "none", !.src = 0, !.out = {}])
        /\ UNCHANGED <<durable, memory, mutex, promised>>

\* ListQuery, Count, and Exec without a visitor or without documents.
QueryReturn(s) ==
    /\ At(s, "window") /\ ses[s].back = "idle"
    /\ RUnlock(s) /\ Set(s, Idle)
    /\ UNCHANGED <<durable, memory, promised>>

\* Exec with a visitor: it is called with docs[i] and says how far to move.  A step of
\* -1 stays; 0, or leaving the window, ends the call.  left bounds the visits
\* that do not move forward.
Visit(s, step) ==
    LET r == ses[s]
        next == r.i + (IF step < 0 THEN step + 1 ELSE step)
    IN  /\ At(s, "window") /\ r.back = "idle" /\ r.out # {}
        /\ step < 0 => r.left > 0
        /\ step # 0 /\ next \in 0..(Cardinality(r.out) - 1)
        /\ Set(s, [r EXCEPT !.i = next, !.left = IF step < 0 THEN @ - 1 ELSE @])
        /\ UNCHANGED <<durable, memory, mutex, promised>>

VisitEnd(s, step) ==
    LET r == ses[s]
        next == r.i + (IF step < 0 THEN step + 1 ELSE step)
    IN  /\ At(s, "window") /\ r.back = "idle" /\ r.out # {}
        /\ step = 0 \/ next \notin 0..(Cardinality(r.out) - 1)
        /\ RUnlock(s) /\ Set(s, Idle)
        /\ UNCHANGED <<durable, memory, promised>>

----------------------------------------------------------------------------
\* Methods that write, under db.mu.

\* recordDocPut, recordDocDelete.
Mutate(n, id, new) ==
    /\ pending' = Append(pending, [col |-> n, id |-> id, new |-> new])
    /\ dirtyMeta' = TRUE

\* DB.Put, up to its commit.
Put(s, n, id) ==
    /\ At(s, "write") /\ ses[s].call = "Put" /\ ~closed
    /\ state' = ensureCollection(state, n) /\ Mutate(n, id, Len(log) + 1)
    /\ Goto(s, "commit")
    /\ UNCHANGED <<durable, sync, closed, up, abandoned, mutex, promised>>

WriteTx(s) ==
    /\ At(s, "write") /\ ses[s].call = "WriteTx" /\ ~closed
    /\ Set(s, [ses[s] EXCEPT !.pc = "wtx", !.left = MaxMutations, !.view = state,
                            !.kept = Len(pending), !.dirty = dirtyMeta])
    /\ UNCHANGED <<durable, memory, mutex, promised>>

TxPut(s, n, id) ==
    /\ At(s, "wtx") /\ ses[s].left > 0
    /\ state' = ensureCollection(state, n) /\ Mutate(n, id, Len(log) + 1)
    /\ Set(s, [ses[s] EXCEPT !.left = @ - 1])
    /\ UNCHANGED <<durable, sync, closed, up, abandoned, mutex, promised>>

\* Tx.Delete of a document the transaction sees.
TxDelete(s, n, id) ==
    LET hits == Touching(n, id)
        old == IF hits # {} THEN pending[CHOOSE i \in hits : IsLast(i, hits)].new
               ELSE Content(Len(log), state, n, id)
    IN  /\ At(s, "wtx") /\ ses[s].left > 0 /\ old # 0
        /\ Mutate(n, id, 0)
        /\ Set(s, [ses[s] EXCEPT !.left = @ - 1])
        /\ UNCHANGED <<durable, sync, state, closed, up, abandoned, mutex, promised>>

\* The function returned nil, or an error.
TxCommit(s) ==
    /\ At(s, "wtx") /\ Goto(s, IF dirtyMeta THEN "commit" ELSE "return")
    /\ UNCHANGED <<durable, memory, mutex, promised>>

\* Sensitivity variant: the rollback forgets the buffer.
RollbackCatalogOnly(r) == state' = r.view /\ UNCHANGED <<pending, dirtyMeta, abandoned>>

\* The clone of the catalog is put back and truncatePending cuts the buffer.
Rollback(r) ==
    /\ state' = r.view /\ pending' = SubSeq(pending, 1, r.kept) /\ dirtyMeta' = r.dirty
    /\ UNCHANGED abandoned

TxAbort(s) ==
    /\ At(s, "wtx")
    /\ Rollback(ses[s]) /\ Unlock(s, Idle)
    /\ UNCHANGED <<durable, sync, closed, up, promised>>

\* Sensitivity variant: the batch's own write options are not the engine's.
CommitBatchNoSync(v) == log' = Append(log, v) /\ synced' = synced

\* A batch is applied; with AutoSync its Commit returns when it is on disk.
CommitBatch(v) ==
    /\ log' = Append(log, v)
    /\ synced' = IF sync THEN Len(log) + 1 ELSE synced

\* persistPendingLocked dereferences the collection of a buffered put.
NilCollection == \E i \in DOMAIN pending : pending[i].new # 0 /\ state.dbid[pending[i].col] = 0

\* commitLocked; clearPending is a step of its own, after the batch is visible.
Commit(s) ==
    /\ At(s, "commit") /\ ~NilCollection /\ CommitBatch(Persisted) /\ Goto(s, "done")
    /\ UNCHANGED <<memory, mutex, promised>>

\* A call leaves its changes behind, unless GoesOn bounds that to one.
Abandon == (abandoned => GoesOn) /\ abandoned' = TRUE

\* The engine refuses the batch and the method returns the error: WriteTx rolls
\* back, Put and RenameCollection leave what they did in memory.
CommitFails(s) ==
    /\ EngineFails /\ At(s, "commit") /\ ~NilCollection
    /\ \/ ses[s].call = "WriteTx" /\ Rollback(ses[s])
       \/ ses[s].call # "WriteTx" /\ Abandon /\ UNCHANGED <<state, pending, dirtyMeta>>
    /\ Unlock(s, Ended(ses[s]))
    /\ UNCHANGED <<durable, sync, closed, up, promised>>

\* RemoveCollection has a batch of its own, without db.pending, which it does not
\* clear either; an absent name ends it.
RemoveCollection(s, n) ==
    LET d == state.dbid[n]
        c == [state EXCEPT !.dbid[n] = 0]
    IN  /\ At(s, "write") /\ ses[s].call = "RemoveCollection" /\ ~closed
        /\ IF d = 0 THEN UNCHANGED <<log, synced, state>>
           ELSE /\ state' = c
                /\ CommitBatch([cat |-> c, docs |->
                       [k \in {k \in DOMAIN Latest.docs : k[1] # d} |-> Latest.docs[k]]])
        /\ Goto(s, "return")
        /\ UNCHANGED <<sync, pending, dirtyMeta, closed, up, abandoned, mutex, promised>>

RemoveCollectionFails(s, n) ==
    /\ EngineFails /\ At(s, "write") /\ ses[s].call = "RemoveCollection" /\ ~closed
    /\ state.dbid[n] # 0 /\ state' = [state EXCEPT !.dbid[n] = 0]
    /\ Abandon /\ Unlock(s, Ended(ses[s]))
    /\ UNCHANGED <<durable, sync, pending, dirtyMeta, closed, up, promised>>

\* RenameCollection, up to its commit; an absent or a taken name ends it.
RenameCollection(s, n, m) ==
    /\ At(s, "write") /\ ses[s].call = "RenameCollection" /\ ~closed
    /\ IF state.dbid[n] = 0 \/ state.dbid[m] # 0
       THEN Goto(s, "return") /\ UNCHANGED <<state, dirtyMeta>>
       ELSE /\ state' = [state EXCEPT !.dbid = [@ EXCEPT ![m] = state.dbid[n], ![n] = 0]]
            /\ dirtyMeta' = TRUE /\ Goto(s, "commit")
    /\ UNCHANGED <<durable, sync, pending, closed, up, abandoned, mutex, promised>>

\* ForceSync flushes the engine's memory to disk.
ForceSync(s) ==
    /\ At(s, "write") /\ ses[s].call = "ForceSync" /\ ~closed
    /\ synced' = Len(log) /\ Goto(s, "return")
    /\ UNCHANGED <<log, memory, mutex, promised>>

\* Close closes the engine, which writes out its log.
Close(s) ==
    /\ At(s, "write") /\ ses[s].call = "Close" /\ ~closed
    /\ closed' = TRUE /\ synced' = Len(log) /\ Goto(s, "return")
    /\ UNCHANGED <<log, sync, state, pending, dirtyMeta, up, abandoned, mutex, promised>>

\* clearPending after commitLocked's batch, Unlock and the return of nil.
Done(s) ==
    /\ \/ At(s, "done") /\ pending' = <<>> /\ dirtyMeta' = FALSE
       \/ At(s, "return") /\ UNCHANGED <<pending, dirtyMeta>>
    /\ Unlock(s, Ended(ses[s]))
    /\ promised' = IF sync \/ ses[s].call \in {"ForceSync", "Close"} THEN Len(log) ELSE promised
    /\ UNCHANGED <<durable, sync, state, closed, up, abandoned>>

----------------------------------------------------------------------------
\* PebbleEngine.Backup, under the read lock: the destination is removed, and
\* then a checkpoint is taken.  It links the engine's files and copies the log
\* as far as it is written out.  Either step may fail.

BackupRemove(s) ==
    /\ At(s, "read") /\ ses[s].call = "Backup" /\ ~closed
    /\ Goto(s, "checkpoint")
    /\ UNCHANGED <<durable, memory, mutex, promised>>

Checkpoint(s) ==
    /\ At(s, "checkpoint")
    /\ \E k \in synced..Len(log) : Set(s, [ses[s] EXCEPT !.pc = "copied", !.copy = k])
    /\ UNCHANGED <<durable, memory, mutex, promised>>

BackupReturn(s) ==
    /\ At(s, "copied") \/ At(s, "checkpoint")
    /\ RUnlock(s) /\ Set(s, Idle)
    /\ UNCHANGED <<durable, memory, promised>>

----------------------------------------------------------------------------
\* The process ends: memory is gone, and so may be what was not synced.
Die ==
    /\ \E k \in synced..Len(log) : log' = SubSeq(log, 1, k)
    /\ up' = FALSE /\ pending' = <<>> /\ dirtyMeta' = FALSE /\ closed' = TRUE /\ abandoned' = FALSE
    /\ readers' = {} /\ writer' = NoProc
    /\ ses' = [s \in Procs |-> Idle]
    /\ UNCHANGED <<synced, sync, state, promised>>

Crash == up /\ Die

\* The engine is used after Close: a nil *pebble.DB, or a closed one, panics.
UsesEngine(s) ==
    \/ At(s, "cloned") \/ At(s, "scan")
    \/ At(s, "query") /\ \E n \in Names : ses[s].view.dbid[n] # 0
    \/ At(s, "tx") /\ ses[s].left > 0
    \/ At(s, "docs") /\ ses[s].ids # {}

\* That, or a commit that meets a buffered put of a removed collection.
Panic(s) ==
    /\ up /\ Die
    /\ \/ closed /\ UsesEngine(s)
       \/ At(s, "commit") /\ NilCollection

\* Open of the directory, once nobody uses the old object; load reads the catalog,
\* and opening the engine replays its log and writes it out.
Open ==
    /\ closed /\ \A s \in Procs : At(s, "idle")
    /\ up' = TRUE /\ closed' = FALSE /\ sync' \in BOOLEAN
    /\ state' = Latest.cat /\ pending' = <<>> /\ dirtyMeta' = FALSE /\ abandoned' = FALSE
    /\ synced' = Len(log)
    /\ UNCHANGED <<log, mutex, ses, promised>>

----------------------------------------------------------------------------
\* A step of a call that has started.
Step(s) ==
    \/ RLock(s) \/ LockDrained(s) \/ ErrClosed(s)
    \/ ReadTx(s) \/ NewSnapshot(s) \/ NestedPut(s) \/ TxQuery(s) \/ ReadTxReturn(s)
    \/ \E n \in Names, id \in Ids : TxGet(s, n, id)
    \/ Query(s) \/ ScanEngine(s) \/ ScanPending(s) \/ QueryDoc(s) \/ QueryScanned(s)
    \/ \E n \in Names : QueryReader(s, n)
    \/ TxQueryReturn(s) \/ QueryReturn(s)
    \/ \E step \in Steps : Visit(s, step) \/ VisitEnd(s, step)
    \/ WriteTx(s) \/ TxCommit(s) \/ TxAbort(s) \/ Commit(s) \/ CommitFails(s) \/ Done(s)
    \/ \E n \in Names, id \in Ids : Put(s, n, id) \/ TxPut(s, n, id) \/ TxDelete(s, n, id)
    \/ \E n \in Names : RemoveCollection(s, n) \/ RemoveCollectionFails(s, n)
    \/ \E n, m \in Names : RenameCollection(s, n, m)
    \/ ForceSync(s) \/ Close(s)
    \/ BackupRemove(s) \/ Checkpoint(s) \/ BackupReturn(s)
    \/ Panic(s)

Next ==
    \/ \E s \in Procs : Step(s) \/ Lock(s) \/ \E c \in Calls[s] : Start(s, c)
    \/ Crash
    \/ Open

\* A goroutine that can go on does, functions and visitors return, and the
\* mutex inside Lock is handed to whoever waits for it (sync.Mutex lets a waiter
\* starve for a millisecond at most).  Nobody has to start a call, open the
\* database, or crash.
Fairness == \A s \in Procs : WF_vars(Step(s)) /\ SF_vars(Lock(s))

Spec == Init /\ [][Next]_vars /\ Fairness

----------------------------------------------------------------------------
MutationType == [col : Names, id : Ids, new : Nat]

Pcs == {"idle", "rlock", "lock", "drain", "read", "write", "cloned", "tx", "query", "scan",
        "overlay", "docs", "window", "wtx", "commit", "done", "return", "checkpoint", "copied"}

Answer == Names \X Ids \X Nat

Session ==
    [pc : Pcs, call : ReadCalls \cup WriteCalls \cup {"none"}, back : {"idle", "tx"},
     began : Nat, view : Catalog, kept : Nat, dirty : BOOLEAN, snap : Nat, left : Nat,
     gets : SUBSET Answer, col : Names \cup {"none"}, src : Nat, ids : SUBSET Ids, out : SUBSET Answer,
     i : Nat, copy : Nat]

\* Every variable has its type; a version holds no document of a later one
\* (persistPendingLocked), what is buffered is for the next version at most, and
\* the versions on disk are versions the engine has.
TypeOK ==
    /\ log \in Seq({log[k] : k \in DOMAIN log})
    /\ \A k \in DOMAIN log : /\ log[k].cat \in Catalog
                             /\ DOMAIN log[k].docs \subseteq Nat \X Ids
                             /\ \A d \in DOMAIN log[k].docs : log[k].docs[d] \in 1..k
    /\ synced \in 1..Len(log) /\ sync \in BOOLEAN /\ state \in Catalog
    /\ pending \in Seq(MutationType) /\ dirtyMeta \in BOOLEAN
    /\ closed \in BOOLEAN /\ up \in BOOLEAN /\ abandoned \in BOOLEAN
    /\ \A j \in DOMAIN pending : pending[j].new <= Len(log) + 1
    /\ readers \subseteq Procs /\ writer \in Procs \cup {NoProc}
    /\ ses \in [Procs -> Session]
    /\ promised \in Nat

\* The Gets of a ReadTx all read one committed version, no older than the call,
\* under the catalog it cloned (ReadTx, Tx.Get), whatever is committed, aborted
\* or put by its own function meanwhile.
SnapshotGets ==
    \A s \in Procs : LET r == ses[s] IN
        \E k \in r.began..Len(log) : \A a \in r.gets : a[3] = Content(k, r.view, a[1], a[2])

\* As long as no call has failed and left its changes in memory (commitLocked's
\* error returns), a query of the DB returns the committed documents of the moment
\* it returns: DB.ListQuery, Exec and Count hold the read lock throughout, and
\* every writer, one that rolls back included, leaves db.state and db.pending as
\* the engine has them.
LockedQueriesAreExact ==
    ~abandoned => \A s \in Procs : LET r == ses[s] IN
        r.pc = "window" /\ r.back = "idle" =>
            Answers(r.col, r.out) =
                {<<r.col, id, Content(Len(log), Latest.cat, r.col, id)>> : id \in Ids}

\* Whatever a caller was told is on disk survives every crash (AutoSync,
\* ForceSync, Close), and a backup that returned holds what was on disk when it
\* was taken.
PromisesKept ==
    /\ promised <= Len(log)
    /\ \A s \in Procs : At(s, "copied") => promised <= ses[s].copy

\* No step, a crash or a reopening included, takes back such a promise or changes
\* a version it covers: batches only add versions, and the end of the process only
\* cuts those that were not written out (CommitBatch, Die, Open).
PromisedVersionsStay ==
    [][/\ promised <= promised'
       /\ \A k \in 1..promised : k \in DOMAIN log' /\ log'[k] = log[k]]_vars

\* Every call ends: db.mu is passed on to whoever waits for it, also when the
\* function of a ReadTx writes (DB.mu, ReadTx, WriteTx, Exec).
CallsReturn == \A s \in Procs : ~At(s, "idle") ~> At(s, "idle")

\* README.md:25, "`ReadTx` uses a Pebble snapshot for stable reads": what a query of
\* a ReadTx returns, and the answers of its Gets before, are those of one committed
\* version (runQueryLocked takes its own reader and overlays db.pending).
StableReads ==
    \A s \in Procs : LET r == ses[s] IN
        \E k \in r.began..Len(log) :
            \A a \in r.gets \cup (IF r.pc = "window" /\ r.back = "tx" THEN Answers(r.col, r.out) ELSE {}) :
                a[3] = Content(k, log[k].cat, a[1], a[2])
=============================================================================
