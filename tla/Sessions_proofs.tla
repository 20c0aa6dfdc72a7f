-------------------------- MODULE Sessions_proofs --------------------------
(***************************************************************************)
(* Proofs about Sessions, for every set of goroutines, names and ids and    *)
(* every choice of the bounds.                                              *)
(***************************************************************************)
EXTENDS Sessions, FiniteSetTheorems, WellFoundedInduction, TLAPS

----------------------------------------------------------------------------
(* Finite sets of numbers, and the engine's log. *)

\* A nonempty finite set of integers has a least member: the next document of a
\* scan (QueryDoc) is one of those that are left.
LEMMA LeastOfFinite ==
    ASSUME NEW S \in SUBSET Int, IsFiniteSet(S), S # {}
    PROVE  \E i \in S : \A j \in S : i <= j
<1> DEFINE Bad(T) == T # {} /\ ~\E i \in T : \A j \in T : i <= j
           N == {Cardinality(T) : T \in {T \in SUBSET S : Bad(T)}}
<1>1. ASSUME Bad(S) PROVE FALSE
  <2>1. \A T \in SUBSET S : IsFiniteSet(T) /\ Cardinality(T) \in Nat
    BY FS_Subset, FS_CardinalityType
  <2>2. N \in SUBSET Nat /\ Cardinality(S) \in N
    BY <1>1, <2>1
  <2>3. PICK t \in N : \A u \in N : ~(<<u, t>> \in OpToRel(<, Nat))
    <3>1. IsWellFoundedOn(OpToRel(<, Nat), Nat)
      BY NatLessThanWellFounded
    <3> HIDE DEF N
    <3> QED
      BY <2>2, <3>1, WFMin
  <2>4. \A u \in N : ~(u < t)
    <3> HIDE DEF N
    <3> QED
      BY <2>2, <2>3 DEF OpToRel
  <2>5. PICK T \in SUBSET S : Bad(T) /\ t = Cardinality(T)
    BY <2>3
  <2>6. PICK x \in T : TRUE
    BY <2>5
  <2>7. Cardinality(T \ {x}) = Cardinality(T) - 1
    BY <2>1, <2>5, <2>6, FS_RemoveElement
  <2>8. ~Bad(T \ {x})
    <3>1. SUFFICES ASSUME Bad(T \ {x}) PROVE FALSE
      OBVIOUS
    <3>2. T \ {x} \in SUBSET S
      OBVIOUS
    <3>3. Cardinality(T \ {x}) \in N
      BY <3>1, <3>2
    <3>4. Cardinality(T) \in Nat
      BY <2>1, <2>5
    <3> HIDE DEF N
    <3> QED
      BY <2>4, <2>5, <2>7, <3>3, <3>4
  <2>9. CASE T \ {x} = {}
    <3>1. \A j \in T : x <= j
      BY <2>9, <2>6
    <3> QED
      BY <2>5, <2>6, <3>1
  <2>10. CASE T \ {x} # {}
    <3>1. PICK i \in T \ {x} : \A j \in T \ {x} : i <= j
      BY <2>8, <2>10
    <3>2. i \in Int /\ x \in Int /\ \A j \in T : j \in Int
      BY <2>6, <3>1
    <3>3. CASE i <= x
      BY <2>5, <3>1, <3>2, <3>3
    <3>4. CASE x <= i
      <4>1. \A j \in T : x <= j
        BY <3>1, <3>2, <3>4
      <4> QED
        BY <2>5, <2>6, <4>1
    <3> QED
      BY <3>2, <3>3, <3>4
  <2> QED
    BY <2>9, <2>10
<1> QED
  BY <1>1

\* The last of a nonempty set of positions: the mutation that decides.
LEMMA LastExists ==
    ASSUME NEW n \in Nat, NEW S \in SUBSET (1..n), S # {}
    PROVE  (CHOOSE i \in S : IsLast(i, S)) \in S
<1> DEFINE T == {j \in Nat : \A i \in S : i <= j}
<1>1. T \in SUBSET Nat /\ n \in T
  OBVIOUS
<1>2. PICK t \in T : \A u \in T : ~(<<u, t>> \in OpToRel(<, Nat))
  <2>1. IsWellFoundedOn(OpToRel(<, Nat), Nat)
    BY NatLessThanWellFounded
  <2> HIDE DEF T
  <2> QED
    BY <1>1, <2>1, WFMin
<1>3. \A u \in T : ~(u < t)
  <2> HIDE DEF T
  <2> QED
    BY <1>1, <1>2 DEF OpToRel
<1>4. t \in S
  <2>1. SUFFICES ASSUME t \notin S PROVE FALSE
    OBVIOUS
  <2>2. PICK i \in S : TRUE
    OBVIOUS
  <2>3. t \in Nat /\ \A j \in S : j <= t
    BY <1>2
  <2>4. t # 0 /\ \A j \in S : j <= t - 1
    BY <2>1, <2>2, <2>3
  <2>5. t - 1 \in T
    BY <2>3, <2>4
  <2> QED
    BY <1>3, <2>3, <2>5
<1>5. IsLast(t, S)
  BY <1>2, <1>4 DEF IsLast
<1> QED
  BY <1>4, <1>5

IsLog(l) == l \in Seq({l[k] : k \in DOMAIN l})

\* A batch adds one version and leaves the others.
LEMMA LogAppend ==
    ASSUME NEW l, IsLog(l), NEW v
    PROVE  LET m == Append(l, v)
           IN  /\ IsLog(m) /\ Len(l) \in Nat /\ Len(m) = Len(l) + 1
               /\ DOMAIN l = 1..Len(l) /\ DOMAIN m = 1..Len(m)
               /\ m[Len(m)] = v
               /\ \A k \in 1..Len(l) : m[k] = l[k]
<1> DEFINE R == {l[k] : k \in DOMAIN l}
           S == R \cup {v}
           m == Append(l, v)
<1>1. l \in Seq(S)
  <2>1. l \in Seq(R)
    BY DEF IsLog
  <2> HIDE DEF R
  <2> QED
    BY <2>1
<1> HIDE DEF S
<1>2. /\ m \in Seq(S) /\ Len(m) = Len(l) + 1 /\ Len(l) \in Nat
      /\ DOMAIN l = 1..Len(l) /\ DOMAIN m = 1..Len(m) /\ m[Len(m)] = v
      /\ \A k \in 1..Len(l) : m[k] = l[k]
  <2>1. v \in S
    BY DEF S
  <2> QED
    BY <1>1, <2>1
<1> HIDE DEF m
<1>3. m \in Seq({m[k] : k \in DOMAIN m})
  BY <1>2
<1> QED
  BY <1>2, <1>3 DEF IsLog, m

\* The end of the process cuts the log.
LEMMA LogCut ==
    ASSUME NEW l, IsLog(l), NEW k \in 1..Len(l)
    PROVE  LET m == SubSeq(l, 1, k)
           IN  /\ IsLog(m) /\ Len(m) = k /\ Len(l) \in Nat
               /\ DOMAIN l = 1..Len(l) /\ DOMAIN m = 1..k
               /\ \A j \in 1..k : m[j] = l[j]
<1> DEFINE R == {l[j] : j \in DOMAIN l}
           m == SubSeq(l, 1, k)
<1>1. l \in Seq(R)
  BY DEF IsLog
<1> HIDE DEF R
<1>2. /\ m \in Seq(R) /\ Len(m) = k /\ Len(l) \in Nat
      /\ DOMAIN l = 1..Len(l) /\ DOMAIN m = 1..k
      /\ \A j \in 1..k : m[j] = l[j]
  BY <1>1
<1> HIDE DEF m
<1>3. m \in Seq({m[j] : j \in DOMAIN m})
  BY <1>2
<1> QED
  BY <1>2, <1>3 DEF IsLog, m

----------------------------------------------------------------------------
(* The inductive invariant: what is true of the database, and of each       *)
(* goroutine s whose record is r.                                           *)

QueryPcs == {"query", "scan", "overlay", "docs", "window"}

\* Where a goroutine is inside the read lock, inside Lock, and holds the lock.
Reading(r) == r.pc \in {"read", "checkpoint", "copied"} \/ (r.pc \in QueryPcs /\ r.back = "idle")
Owning(r) == r.pc \in {"drain", "write", "wtx", "commit", "done", "return"}
Holding(r) == r.pc \in {"write", "wtx", "commit", "done", "return"}

\* Nothing is buffered, and the catalog of an open database is the stored one,
\* unless a failed call has left something behind.
Clean ==
    ~abandoned => /\ pending = <<>> /\ ~dirtyMeta
                  /\ ~closed => state = Latest.cat

\* What a WriteTx would roll back to.
SavedOK(r) ==
    /\ r.kept <= Len(pending)
    /\ ~abandoned => r.kept = 0 /\ ~r.dirty /\ r.view = Latest.cat

\* db.mu: its variables say where the goroutines are, and who holds it is alone.
LockOK(s, r) ==
    /\ s \in readers <=> Reading(r)
    /\ writer = s <=> Owning(r)
    /\ Holding(r) => readers = {}
    /\ r.pc \in {"rlock", "read"} => r.back = "idle"

\* What a writer finds and leaves: memory differs from the engine only between
\* its first mutation and its batch.
MemoryOK(r) ==
    /\ r.pc \in {"drain", "write", "return"} => Clean
    /\ r.pc = "wtx" => ~closed /\ SavedOK(r) /\ (~abandoned /\ ~dirtyMeta => Clean)
    /\ r.pc = "commit" => ~closed /\ (r.call = "WriteTx" => SavedOK(r))
    /\ r.pc = "done" => (~closed => state = Latest.cat)

\* A ReadTx: its snapshot is no older than its call and every Get came from it.
SnapshotOK(r) ==
    /\ r.began <= Len(log) /\ r.snap <= Len(log) /\ r.src <= Len(log)
    /\ r.pc \in {"rlock", "read", "cloned"} => r.snap = 0
    /\ r.pc = "tx" \/ r.back = "tx" => r.snap # 0
    /\ r.call = "WriteTx" => r.snap = 0 /\ r.pc # "cloned"
    /\ r.snap = 0 => r.gets = {}
    /\ r.snap # 0 => /\ r.began <= r.snap
                     /\ \A a \in r.gets : a[3] = Content(r.snap, r.view, a[1], a[2])

\* The documents of a collection that are stored now.
Stored(n) == {id \in Ids : Content(Len(log), Latest.cat, n, id) # 0}

Rows(n, S) == {<<n, id, Content(Len(log), Latest.cat, n, id)>> : id \in S}

\* A query under the read lock: what it has found is what is stored.
QueryOK(r) ==
    /\ r.pc \in QueryPcs \ {"query"} => r.col \in Names
    /\ r.pc \in QueryPcs /\ r.back = "idle" => ~closed /\ (~abandoned => r.view = Latest.cat)
    /\ ~abandoned /\ r.back = "idle" =>
          /\ r.pc \in {"scan", "overlay", "docs"} => r.src = Len(log)
          /\ r.pc = "scan" => r.out = {}
          /\ r.pc = "overlay" => r.out = {} /\ r.ids = Stored(r.col)
          /\ r.pc = "docs" =>
                r.ids \subseteq Stored(r.col) /\ r.out = Rows(r.col, Stored(r.col) \ r.ids)
          /\ r.pc = "window" => r.out = Rows(r.col, Stored(r.col))

\* What is said to be on disk is: by a writer about to return, by a backup.
DiskOK(r) ==
    /\ r.pc \in {"wtx", "commit"} => r.call \notin {"ForceSync", "Close"}
    /\ r.pc \in {"done", "return"} /\ r.call \in {"ForceSync", "Close"} => synced = Len(log)
    /\ r.pc = "copied" => promised <= r.copy

SessionOK(s, r) == LockOK(s, r) /\ MemoryOK(r) /\ SnapshotOK(r) /\ QueryOK(r) /\ DiskOK(r)

DatabaseOK ==
    /\ writer = NoProc => Clean
    /\ promised <= synced
    /\ sync => synced = Len(log)

IInv == TypeOK /\ DatabaseOK /\ \A s \in Procs : SessionOK(s, ses[s])

----------------------------------------------------------------------------
(* Ways a step can change the state. *)

\* A goroutine moves on and nothing else changes.
LEMMA LocalStep ==
    ASSUME IInv, NEW s \in Procs, NEW r \in Session, SessionOK(s, r),
           ses' = [ses EXCEPT ![s] = r], UNCHANGED <<durable, memory, mutex, promised>>
    PROVE  IInv'
<1>1. /\ log' = log /\ synced' = synced /\ sync' = sync /\ state' = state /\ pending' = pending
      /\ dirtyMeta' = dirtyMeta /\ closed' = closed /\ up' = up /\ abandoned' = abandoned
      /\ readers' = readers /\ writer' = writer /\ promised' = promised
  BY DEF durable, memory, mutex
<1>2. ses' \in [Procs -> Session]
  BY DEF IInv, TypeOK
<1>3. TypeOK'
  BY <1>1, <1>2 DEF IInv, TypeOK
<1>4. DatabaseOK'
  BY <1>1 DEF IInv, DatabaseOK, Clean, Latest
<1>5. \A t \in Procs : SessionOK(t, ses'[t])
  BY SMTT(30) DEF IInv, TypeOK
<1>6. \A t : \A q : SessionOK(t, q) => SessionOK(t, q)'
  BY <1>1 DEF SessionOK, LockOK, MemoryOK, SnapshotOK, QueryOK, DiskOK,
              Clean, SavedOK, Latest, Content, Stored, Rows
<1> QED
  BY <1>3, <1>4, <1>5, <1>6 DEF IInv

\* What the invariant says of the engine and of one goroutine.
LEMMA Here ==
    ASSUME IInv, NEW s \in Procs
    PROVE  /\ ses[s] \in Session /\ SessionOK(s, ses[s])
           /\ IsLog(log) /\ Len(log) \in Nat \ {0} /\ DOMAIN log = 1..Len(log)
           /\ Latest.cat \in Catalog /\ state \in Catalog /\ NoCatalog \in Catalog
           /\ Idle \in Session /\ s # NoProc
<1>1. ses[s] \in Session /\ SessionOK(s, ses[s])
  BY DEF IInv, TypeOK
<1>2. IsLog(log) /\ Len(log) \in Nat \ {0} /\ DOMAIN log = 1..Len(log)
  <2>1. IsLog(log) /\ synced \in 1..Len(log)
    BY DEF IInv, TypeOK, IsLog
  <2>2. Len(log) \in Nat /\ DOMAIN log = 1..Len(log)
    BY <2>1, LogAppend
  <2> QED
    BY <2>1, <2>2
<1>3. Latest.cat \in Catalog /\ state \in Catalog
  BY <1>2 DEF IInv, TypeOK, Latest
<1>4. NoCatalog \in Catalog
  BY DEF NoCatalog, Catalog
<1>5. Idle \in Session
  <2> HIDE DEF Catalog
  <2> QED
    BY <1>4 DEF Idle, Session, Pcs
<1>6. s # NoProc
  BY SessionsAssumption
<1> QED
  BY <1>1, <1>2, <1>3, <1>4, <1>5, <1>6

\* While anyone reads under db.mu, no one changes memory or the engine.
LEMMA ReadersSeeClean ==
    ASSUME IInv, NEW s \in Procs, s \in readers
    PROVE  /\ Clean
           /\ \A t \in Procs : ~Holding(ses[t])
<1>1. \A t \in Procs : ~Holding(ses[t])
  BY DEF IInv, SessionOK, LockOK
<1>2. CASE writer = NoProc
  BY <1>1, <1>2 DEF IInv, DatabaseOK
<1>3. CASE writer # NoProc
  <2>1. writer \in Procs
    BY <1>3 DEF IInv, TypeOK
  <2>2. Owning(ses[writer]) /\ MemoryOK(ses[writer])
    BY <2>1 DEF IInv, SessionOK, LockOK
  <2>3. ses[writer].pc = "drain"
    BY <1>1, <2>1, <2>2 DEF Owning, Holding
  <2> QED
    BY <1>1, <2>2, <2>3 DEF MemoryOK
<1> QED
  BY <1>2, <1>3

\* Reading a document of a version (getDocRaw).
LEMMA ContentType ==
    ASSUME IInv, NEW k \in 1..Len(log), NEW c \in Catalog, NEW n \in Names, NEW id \in Ids
    PROVE  Content(k, c, n, id) \in Nat
<1>1. k \in DOMAIN log
  BY DEF IInv, TypeOK
<1>2. \A d \in DOMAIN log[k].docs : log[k].docs[d] \in 1..k
  BY <1>1 DEF IInv, TypeOK
<1> QED
  BY <1>2 DEF Content, DocAt

\* Start, NewSnapshot, NestedPut, TxQuery, ReadTxReturn, WriteTx, TxCommit,
\* BackupRemove, Checkpoint: the goroutine's place and a local variable change.
LEMMA SimpleStepsKeep ==
    ASSUME IInv, NEW s \in Procs,
           \/ \E c \in Calls[s] : Start(s, c)
           \/ NewSnapshot(s) \/ NestedPut(s) \/ TxQuery(s) \/ ReadTxReturn(s)
           \/ WriteTx(s) \/ TxCommit(s) \/ BackupRemove(s) \/ Checkpoint(s)
    PROVE  IInv'
<1> DEFINE q == ses[s]
<1>1. /\ q \in Session /\ SessionOK(s, q)
      /\ IsLog(log) /\ Len(log) \in Nat \ {0} /\ DOMAIN log = 1..Len(log)
      /\ Idle \in Session /\ ses \in [Procs -> Session]
      /\ synced \in 1..Len(log) /\ promised \in Nat /\ promised <= synced
  BY Here DEF IInv, TypeOK, DatabaseOK
<1>2. MaxOps \in Nat /\ MaxMutations \in Nat
  BY SessionsAssumption
<1>3. ASSUME NEW c \in Calls[s], Start(s, c) PROVE IInv'
  <2> DEFINE place == IF c \in ReadCalls THEN "rlock" ELSE "lock"
             begun == IF c = "ReadTx" THEN Len(log) ELSE 0
             r == [Idle EXCEPT !.pc = place, !.call = c, !.began = begun]
  <2>1. c \in ReadCalls \cup WriteCalls
    BY SessionsAssumption
  <2>2. place \in {"rlock", "lock"} /\ begun \in Nat /\ begun <= Len(log)
    BY <1>1
  <2>3. q.pc = "idle" /\ ses' = [ses EXCEPT ![s] = r] /\ UNCHANGED <<durable, memory, mutex, promised>>
    BY <1>3 DEF Start, At, Set
  <2> HIDE DEF place, begun
  <2>4. r \in Session
    BY <1>1, <2>1, <2>2, ZenonT(30) DEF Session, Pcs
  <2>5. SessionOK(s, r)
    BY <1>1, <2>1, <2>2, <2>3 DEF Idle, SessionOK, LockOK, MemoryOK, SnapshotOK, QueryOK, DiskOK,
              Reading, Owning, Holding, QueryPcs
  <2> HIDE DEF r
  <2> QED
    BY <2>3, <2>4, <2>5, LocalStep
<1>4. CASE NewSnapshot(s)
  <2> DEFINE r == [q EXCEPT !.pc = "tx", !.snap = Len(log), !.left = MaxOps]
  <2>1. /\ q.pc = "cloned"
        /\ ses' = [ses EXCEPT ![s] = r] /\ UNCHANGED <<durable, memory, mutex, promised>>
    BY <1>4 DEF NewSnapshot, At, Set
  <2>2. r \in Session
    BY <1>1, <1>2, <2>1 DEF Session, Pcs
  <2>3. SessionOK(s, r)
    BY <1>1, <2>1 DEF Session, SessionOK, LockOK, MemoryOK, SnapshotOK, QueryOK, DiskOK,
              Reading, Owning, Holding, QueryPcs
  <2> HIDE DEF r
  <2> QED
    BY <2>1, <2>2, <2>3, LocalStep
<1>5. CASE NestedPut(s)
  <2> DEFINE r == [q EXCEPT !.pc = "lock", !.call = "Put", !.back = "tx", !.left = @ - 1]
  <2>1. /\ q.pc = "tx" /\ q.left > 0
        /\ ses' = [ses EXCEPT ![s] = r] /\ UNCHANGED <<durable, memory, mutex, promised>>
    BY <1>5 DEF NestedPut, At, Set
  <2>2. r \in Session
    <3> DEFINE less == q.left - 1
    <3>1. less \in Nat
      BY <1>1, <2>1, SMTT(30) DEF Session
    <3> HIDE DEF less
    <3> QED
      BY <1>1, <3>1, ZenonT(30) DEF Session, Pcs, WriteCalls, less
  <2>3. SessionOK(s, r)
    BY <1>1, <2>1 DEF Session, SessionOK, LockOK, MemoryOK, SnapshotOK, QueryOK, DiskOK,
              Reading, Owning, Holding, QueryPcs
  <2> HIDE DEF r
  <2> QED
    BY <2>1, <2>2, <2>3, LocalStep
<1>6. CASE TxQuery(s)
  <2> DEFINE r == [q EXCEPT !.pc = "query", !.back = "tx", !.left = @ - 1]
  <2>1. /\ q.pc = "tx" /\ q.left > 0
        /\ ses' = [ses EXCEPT ![s] = r] /\ UNCHANGED <<durable, memory, mutex, promised>>
    BY <1>6 DEF TxQuery, At, Set
  <2>2. r \in Session
    <3> DEFINE less == q.left - 1
    <3>1. less \in Nat
      BY <1>1, <2>1, SMTT(30) DEF Session
    <3> HIDE DEF less
    <3> QED
      BY <1>1, <3>1, ZenonT(30) DEF Session, Pcs, WriteCalls, less
  <2>3. SessionOK(s, r)
    BY <1>1, <2>1 DEF Session, SessionOK, LockOK, MemoryOK, SnapshotOK, QueryOK, DiskOK,
              Reading, Owning, Holding, QueryPcs
  <2> HIDE DEF r
  <2> QED
    BY <2>1, <2>2, <2>3, LocalStep
<1>7. CASE ReadTxReturn(s)
  <2> DEFINE r == Idle
  <2>1. /\ q.pc = "tx"
        /\ ses' = [ses EXCEPT ![s] = r] /\ UNCHANGED <<durable, memory, mutex, promised>>
    BY <1>7 DEF ReadTxReturn, At, Set
  <2>2. r \in Session
    BY <1>1, <1>2, <2>1 DEF Session, Pcs
  <2>3. SessionOK(s, r)
    BY <1>1, <2>1 DEF Idle, SessionOK, LockOK, MemoryOK, SnapshotOK, QueryOK, DiskOK,
              Reading, Owning, Holding, QueryPcs
  <2> HIDE DEF r
  <2> QED
    BY <2>1, <2>2, <2>3, LocalStep
<1>8. CASE WriteTx(s)
  <2> DEFINE len == Len(pending)
             r == [q EXCEPT !.pc = "wtx", !.left = MaxMutations, !.view = state,
                            !.kept = len, !.dirty = dirtyMeta]
  <2>1. /\ q.pc = "write" /\ q.call = "WriteTx" /\ ~closed
        /\ ses' = [ses EXCEPT ![s] = r] /\ UNCHANGED <<durable, memory, mutex, promised>>
    BY <1>8 DEF WriteTx, At, Set
  <2>2. len \in Nat /\ (pending = <<>> => len = 0) /\ state \in Catalog /\ dirtyMeta \in BOOLEAN
    BY DEF IInv, TypeOK
  <2>3. /\ ~abandoned => pending = <<>> /\ ~dirtyMeta /\ state = Latest.cat
    BY <1>1, <2>1 DEF SessionOK, MemoryOK, Clean
  <2>4. len <= Len(pending) /\ (~abandoned => len = 0)
    BY <2>2, <2>3
  <2> HIDE DEF len
  <2>5. r \in Session
    BY <1>1, <1>2, <2>2, ZenonT(30) DEF Session, Pcs
  <2>6. /\ r.pc = "wtx" /\ r.kept = len /\ r.dirty = dirtyMeta /\ r.view = state
        /\ r.call = q.call /\ r.back = q.back /\ r.began = q.began /\ r.snap = q.snap
        /\ r.src = q.src /\ r.gets = q.gets
    BY <1>1 DEF Session
  <2> HIDE DEF r
  <2>7. MemoryOK(r)
    BY <2>1, <2>3, <2>4, <2>6 DEF MemoryOK, SavedOK, Clean
  <2>8. SnapshotOK(r)
    BY <1>1, <2>1, <2>6 DEF SessionOK, SnapshotOK
  <2>9. LockOK(s, r) /\ QueryOK(r) /\ DiskOK(r)
    BY <1>1, <2>1, <2>6 DEF SessionOK, LockOK, QueryOK, DiskOK, Reading, Owning, Holding, QueryPcs
  <2> QED
    BY <2>1, <2>5, <2>7, <2>8, <2>9, LocalStep DEF SessionOK
<1>9. CASE BackupRemove(s)
  <2> DEFINE r == [q EXCEPT !.pc = "checkpoint"]
  <2>1. /\ q.pc = "read" /\ q.call = "Backup" /\ ~closed
        /\ ses' = [ses EXCEPT ![s] = r] /\ UNCHANGED <<durable, memory, mutex, promised>>
    BY <1>9 DEF BackupRemove, At, Set, Goto
  <2>2. r \in Session
    BY <1>1, <1>2, <2>1 DEF Session, Pcs
  <2>3. SessionOK(s, r)
    BY <1>1, <2>1 DEF Session, SessionOK, LockOK, MemoryOK, SnapshotOK, QueryOK, DiskOK,
              Reading, Owning, Holding, QueryPcs
  <2> HIDE DEF r
  <2> QED
    BY <2>1, <2>2, <2>3, LocalStep
<1>10. CASE TxCommit(s)
  <2> DEFINE place == IF dirtyMeta THEN "commit" ELSE "return"
             r == [q EXCEPT !.pc = place]
  <2>1. /\ q.pc = "wtx" /\ place = (IF dirtyMeta THEN "commit" ELSE "return")
        /\ ses' = [ses EXCEPT ![s] = r] /\ UNCHANGED <<durable, memory, mutex, promised>>
    BY <1>10 DEF TxCommit, At, Goto
  <2>2. place \in {"commit", "return"}
    OBVIOUS
  <2> HIDE DEF place
  <2>3. r \in Session
    BY <1>1, <2>2 DEF Session, Pcs
  <2>4. SessionOK(s, r)
    BY <1>1, <2>1, <2>2 DEF Session, SessionOK, LockOK, MemoryOK, SnapshotOK, QueryOK, DiskOK,
              Reading, Owning, Holding, QueryPcs, Clean, SavedOK
  <2> HIDE DEF r
  <2> QED
    BY <2>1, <2>3, <2>4, LocalStep
<1>11. CASE Checkpoint(s)
  <2>1. PICK k \in synced..Len(log) : ses' = [ses EXCEPT ![s] = [q EXCEPT !.pc = "copied", !.copy = k]]
    BY <1>11 DEF Checkpoint, Set
  <2> DEFINE r == [q EXCEPT !.pc = "copied", !.copy = k]
  <2>2. q.pc = "checkpoint" /\ UNCHANGED <<durable, memory, mutex, promised>>
    BY <1>11 DEF Checkpoint, At
  <2>3. k \in Nat /\ promised <= k
    BY <1>1
  <2>4. r \in Session
    BY <1>1, <2>3 DEF Session, Pcs
  <2>5. SessionOK(s, r)
    BY <1>1, <2>2, <2>3 DEF Session, SessionOK, LockOK, MemoryOK, SnapshotOK, QueryOK, DiskOK,
              Reading, Owning, Holding, QueryPcs
  <2> HIDE DEF r
  <2> QED
    BY <2>1, <2>2, <2>4, <2>5, LocalStep DEF r
<1> QED
  BY <1>3, <1>4, <1>5, <1>6, <1>7, <1>8, <1>9, <1>10, <1>11

\* The members of a record of a goroutine.
LEMMA SessionFields ==
    ASSUME NEW r \in Session
    PROVE  /\ r.left \in Nat /\ r.snap \in Nat /\ r.src \in Nat /\ r.began \in Nat /\ r.i \in Nat
           /\ r.view \in Catalog /\ r.ids \subseteq Ids /\ r.back \in {"idle", "tx"}
           /\ r.gets \subseteq Answer /\ r.out \subseteq Answer
BY DEF Session

\* Tx.Get of a ReadTx reads its snapshot.
LEMMA TxGetKeeps ==
    ASSUME IInv, NEW s \in Procs, NEW n \in Names, NEW id \in Ids, TxGet(s, n, id)
    PROVE  IInv'
<1> DEFINE q == ses[s]
           a == <<n, id, Content(q.snap, q.view, n, id)>>
           less == q.left - 1
           more == q.gets \cup {a}
           r == [q EXCEPT !.left = less, !.gets = more]
<1>1. q \in Session /\ SessionOK(s, q) /\ Len(log) \in Nat
  BY Here
<1>2. /\ q.pc = "tx" /\ q.left > 0
      /\ ses' = [ses EXCEPT ![s] = r] /\ UNCHANGED <<durable, memory, mutex, promised>>
  BY DEF TxGet, At, Set
<1>3. less \in Nat
  BY <1>1, <1>2, SessionFields
<1>4. q.snap # 0 /\ q.snap \in 1..Len(log)
  BY <1>1, <1>2, SessionFields DEF SessionOK, SnapshotOK
<1>5. more \subseteq Answer
  <2>1. Content(q.snap, q.view, n, id) \in Nat
    BY <1>1, <1>4, ContentType, SessionFields
  <2> QED
    BY <1>1, <2>1, SessionFields DEF Answer
<1>6. \A b \in more : b[3] = Content(q.snap, q.view, b[1], b[2])
  <2>1. a[1] = n /\ a[2] = id /\ a[3] = Content(q.snap, q.view, n, id)
    OBVIOUS
  <2> HIDE DEF a
  <2> QED
    BY <1>1, <1>4, <2>1 DEF SessionOK, SnapshotOK
<1> HIDE DEF less, more
<1>7. r \in Session
  BY <1>1, <1>3, <1>5 DEF Session
<1>8. SessionOK(s, r)
  BY <1>1, <1>2, <1>4, <1>6 DEF Session, SessionOK, LockOK, MemoryOK, SnapshotOK, QueryOK, DiskOK,
        Reading, Owning, Holding, QueryPcs
<1> HIDE DEF r
<1> QED
  BY <1>2, <1>7, <1>8, LocalStep

\* Query, QueryReader, ScanEngine: a query under the read lock finds nothing
\* buffered and the stored catalog, and so takes the latest version.
LEMMA QueryScanKeeps ==
    ASSUME IInv, NEW s \in Procs,
           Query(s) \/ (\E n \in Names : QueryReader(s, n)) \/ ScanEngine(s)
    PROVE  IInv'
<1> DEFINE q == ses[s]
<1>1. /\ q \in Session /\ SessionOK(s, q) /\ Len(log) \in Nat \ {0}
      /\ state \in Catalog /\ Latest.cat \in Catalog /\ MaxOps \in Nat
  BY Here, SessionsAssumption, ZenonT(30)
<1>2. UNCHANGED <<durable, memory, mutex, promised>>
  BY DEF Query, QueryReader, ScanEngine
<1>3. Reading(q) => Clean
  BY <1>1, ReadersSeeClean DEF SessionOK, LockOK
<1>4. CASE Query(s)
  <2> DEFINE r == [q EXCEPT !.pc = "query", !.view = state, !.left = MaxOps]
  <2>1. q.pc = "read" /\ ~closed /\ ses' = [ses EXCEPT ![s] = r]
    BY <1>4 DEF Query, At, Set
  <2>2. r \in Session
    BY <1>1 DEF Session, Pcs
  <2>3. ~abandoned => state = Latest.cat
    BY <1>3, <2>1 DEF Reading, Clean
  <2>4. SessionOK(s, r)
    BY <1>1, <2>1, <2>3 DEF Session, SessionOK, LockOK, MemoryOK, SnapshotOK, QueryOK, DiskOK,
          Reading, Owning, Holding, QueryPcs
  <2> HIDE DEF r
  <2> QED
    BY <1>2, <2>1, <2>2, <2>4, LocalStep
<1>5. ASSUME NEW n \in Names, QueryReader(s, n), q.view.dbid[n] = 0
      PROVE  IInv'
  <2> DEFINE r == [q EXCEPT !.pc = "window", !.col = n, !.ids = {}, !.out = {}]
  <2>1. q.pc = "query" /\ ses' = [ses EXCEPT ![s] = r]
    BY <1>5 DEF QueryReader, At, Set
  <2>2. r \in Session
    BY <1>1 DEF Session, Pcs
  <2>3. ~abandoned /\ q.back = "idle" => Rows(n, Stored(n)) = {}
    <3>1. ~abandoned /\ q.back = "idle" => q.view = Latest.cat
      BY <1>1, <2>1 DEF SessionOK, QueryOK, QueryPcs
    <3> QED
      BY <1>5, <3>1 DEF Rows, Stored, Content
  <2>4. SessionOK(s, r)
    BY <1>1, <2>1, <2>3 DEF Session, SessionOK, LockOK, MemoryOK, SnapshotOK, QueryOK, DiskOK,
          Reading, Owning, Holding, QueryPcs
  <2> HIDE DEF r
  <2> QED
    BY <1>2, <2>1, <2>2, <2>4, LocalStep
<1>6. ASSUME NEW n \in Names, QueryReader(s, n), q.view.dbid[n] # 0
      PROVE  IInv'
  <2> DEFINE from == IF canUseStorageQuery THEN Len(log) ELSE 0
             r == [q EXCEPT !.pc = "scan", !.col = n, !.out = {}, !.src = from]
  <2>1. q.pc = "query" /\ ses' = [ses EXCEPT ![s] = r]
    BY <1>6 DEF QueryReader, At, Set
  <2>2. from \in Nat /\ from <= Len(log) /\ (~abandoned /\ q.back = "idle" => from = Len(log))
    BY <1>1, <1>3, <2>1 DEF Reading, Clean, canUseStorageQuery, QueryPcs
  <2> HIDE DEF from
  <2>3. r \in Session
    BY <1>1, <2>2 DEF Session, Pcs
  <2>4. SessionOK(s, r)
    BY <1>1, <2>1, <2>2 DEF Session, SessionOK, LockOK, MemoryOK, SnapshotOK, QueryOK, DiskOK,
          Reading, Owning, Holding, QueryPcs
  <2> HIDE DEF r
  <2> QED
    BY <1>2, <2>1, <2>3, <2>4, LocalStep
<1>7. CASE ScanEngine(s)
  <2> DEFINE found == {id \in Ids : Content(Source(q), q.view, q.col, id) # 0}
             r == [q EXCEPT !.pc = "overlay", !.ids = found]
  <2>1. q.pc = "scan" /\ ses' = [ses EXCEPT ![s] = r]
    BY <1>7 DEF ScanEngine, At, Set
  <2>2. ~abandoned /\ q.back = "idle" => found = Stored(q.col)
    <3>1. ~abandoned /\ q.back = "idle" => q.src = Len(log) /\ q.view = Latest.cat
      BY <1>1, <2>1 DEF SessionOK, QueryOK, QueryPcs
    <3> QED
      BY <1>1, <3>1 DEF Source, Stored
  <2>3. found \subseteq Ids
    OBVIOUS
  <2> HIDE DEF found
  <2>4. r \in Session
    BY <1>1, <2>3 DEF Session, Pcs
  <2>5. SessionOK(s, r)
    BY <1>1, <2>1, <2>2 DEF Session, SessionOK, LockOK, MemoryOK, SnapshotOK, QueryOK, DiskOK,
          Reading, Owning, Holding, QueryPcs
  <2> HIDE DEF r
  <2> QED
    BY <1>2, <2>1, <2>4, <2>5, LocalStep
<1> QED
  BY <1>4, <1>5, <1>6, <1>7

\* docForQuery reads a buffered document or one of the version it scans.
LEMMA DocForQueryType ==
    ASSUME IInv, NEW r \in Session, r.col \in Names, r.src <= Len(log), NEW id \in Ids
    PROVE  /\ docForQuery(r, id) \in Nat
           /\ pending = <<>> => docForQuery(r, id) = Content(Source(r), r.view, r.col, id)
<1> DEFINE hits == Touching(r.col, id)
           last == CHOOSE i \in hits : IsLast(i, hits)
<1>1. pending \in Seq(MutationType) /\ Len(log) \in Nat \ {0}
  <2>1. IsLog(log) /\ synced \in 1..Len(log) /\ pending \in Seq(MutationType)
    BY DEF IInv, TypeOK, IsLog
  <2> QED
    BY <2>1, LogAppend
<1>2. hits \in SUBSET (1..Len(pending)) /\ Len(pending) \in Nat
  BY <1>1 DEF Touching
<1>3. CASE hits = {}
  <2>1. Source(r) \in 1..Len(log) /\ r.view \in Catalog
    BY <1>1, SessionFields DEF Source
  <2>2. Content(Source(r), r.view, r.col, id) \in Nat
    BY <2>1, ContentType
  <2> QED
    BY <1>3, <2>2 DEF docForQuery
<1>4. CASE hits # {}
  <2>1. docForQuery(r, id) = pending[last].new
    BY <1>4 DEF docForQuery
  <2>2. pending # <<>>
    BY <1>2, <1>4
  <2> HIDE DEF hits
  <2>3. last \in 1..Len(pending)
    BY <1>2, <1>4, LastExists
  <2> HIDE DEF last
  <2>4. pending[last] \in MutationType
    BY <1>1, <2>3
  <2> QED
    BY <2>1, <2>2, <2>4 DEF MutationType
<1> QED
  BY <1>3, <1>4

\* ScanPending: the overlay adds and removes ids, of which a query under the
\* read lock finds none.
LEMMA ScanPendingKeeps ==
    ASSUME IInv, NEW s \in Procs, ScanPending(s)
    PROVE  IInv'
<1> DEFINE q == ses[s]
           of(isPut) == {pending[i].id : i \in {j \in DOMAIN pending :
                          pending[j].col = q.col /\ (pending[j].new # 0) = isPut}}
           left == (q.ids \cup of(TRUE)) \ of(FALSE)
           r == [q EXCEPT !.pc = "docs", !.ids = left]
<1>1. q \in Session /\ SessionOK(s, q) /\ pending \in Seq(MutationType)
  BY Here DEF IInv, TypeOK
<1>2. /\ q.pc = "overlay" /\ ses' = [ses EXCEPT ![s] = r]
      /\ UNCHANGED <<durable, memory, mutex, promised>>
  BY DEF ScanPending, At, Set
<1>3. left \subseteq Ids
  <2>1. \A i \in DOMAIN pending : pending[i] \in MutationType
    BY <1>1
  <2>2. \A i \in DOMAIN pending : pending[i].id \in Ids
    BY <2>1 DEF MutationType
  <2> QED
    BY <1>1, <2>2, SessionFields
<1>4. ~abandoned /\ q.back = "idle" => left = q.ids
  <2>1. ASSUME ~abandoned, q.back = "idle" PROVE left = q.ids
    <3>1. pending = <<>>
      BY <1>1, <1>2, <2>1, ReadersSeeClean DEF SessionOK, LockOK, Reading, QueryPcs, Clean
    <3>2. DOMAIN pending = {}
      BY <3>1
    <3> QED
      BY <3>2
  <2> QED
    BY <2>1
<1> HIDE DEF left
<1>5. r \in Session
  BY <1>1, <1>3 DEF Session, Pcs
<1>6. ~abandoned /\ q.back = "idle" => left \subseteq Stored(q.col) /\ q.out = Rows(q.col, Stored(q.col) \ left)
  <2>1. Rows(q.col, Stored(q.col) \ Stored(q.col)) = {}
    BY DEF Rows
  <2>2. ~abandoned /\ q.back = "idle" => q.out = {} /\ q.ids = Stored(q.col)
    BY <1>1, <1>2 DEF SessionOK, QueryOK
  <2> QED
    BY <1>4, <2>1, <2>2
<1>7. SessionOK(s, r)
  BY <1>1, <1>2, <1>6 DEF Session, SessionOK, LockOK, MemoryOK, SnapshotOK, QueryOK, DiskOK,
        Reading, Owning, Holding, QueryPcs
<1> HIDE DEF r
<1> QED
  BY <1>2, <1>5, <1>7, LocalStep

\* QueryDoc: one more document of those scanned.
LEMMA QueryDocKeeps ==
    ASSUME IInv, NEW s \in Procs, QueryDoc(s)
    PROVE  IInv'
<1> DEFINE q == ses[s]
           id == CHOOSE i \in q.ids : \A j \in q.ids : i <= j
           doc == docForQuery(q, id)
           left == q.ids \ {id}
           more == IF doc = 0 THEN q.out ELSE q.out \cup {<<q.col, id, doc>>}
           r == [q EXCEPT !.ids = left, !.out = more]
<1>1. q \in Session /\ SessionOK(s, q) /\ Len(log) \in Nat \ {0}
  BY Here
<1>2. /\ q.pc = "docs" /\ q.ids # {} /\ ses' = [ses EXCEPT ![s] = r]
      /\ UNCHANGED <<durable, memory, mutex, promised>>
  BY DEF QueryDoc, At, Set
<1>3. id \in q.ids /\ id \in Ids
  <2>1. q.ids \in SUBSET Int /\ IsFiniteSet(q.ids) /\ q.ids \subseteq Ids
    BY <1>1, SessionFields, SessionsAssumption, FS_Subset
  <2>2. \E i \in q.ids : \A j \in q.ids : i <= j
    BY <1>2, <2>1, LeastOfFinite
  <2> QED
    BY <2>1, <2>2
<1> HIDE DEF id
<1>4. q.col \in Names /\ q.src <= Len(log)
  BY <1>1, <1>2 DEF SessionOK, QueryOK, SnapshotOK, QueryPcs
<1>5. doc \in Nat /\ (pending = <<>> => doc = Content(Source(q), q.view, q.col, id))
  BY <1>1, <1>3, <1>4, DocForQueryType
<1> HIDE DEF doc
<1>6. left \subseteq Ids /\ more \subseteq Answer
  BY <1>1, <1>3, <1>4, <1>5, SessionFields DEF Answer
<1>7. ~abandoned /\ q.back = "idle" => /\ left \subseteq Stored(q.col)
                                       /\ more = Rows(q.col, Stored(q.col) \ left)
  <2>1. SUFFICES ASSUME ~abandoned, q.back = "idle"
                 PROVE  left \subseteq Stored(q.col) /\ more = Rows(q.col, Stored(q.col) \ left)
    OBVIOUS
  <2>2. pending = <<>>
    BY <1>1, <1>2, <2>1, ReadersSeeClean DEF SessionOK, LockOK, Reading, QueryPcs, Clean
  <2>3. /\ q.src = Len(log) /\ q.view = Latest.cat
        /\ q.ids \subseteq Stored(q.col) /\ q.out = Rows(q.col, Stored(q.col) \ q.ids)
    BY <1>1, <1>2, <2>1 DEF SessionOK, QueryOK, QueryPcs
  <2>4. doc = Content(Len(log), Latest.cat, q.col, id) /\ id \in Stored(q.col)
    BY <1>1, <1>3, <1>5, <2>2, <2>3 DEF Source
  <2>5. doc # 0
    BY <2>4 DEF Stored
  <2>6. Stored(q.col) \ left = (Stored(q.col) \ q.ids) \cup {id}
    BY <1>3, <2>3, <2>4
  <2>7. Rows(q.col, (Stored(q.col) \ q.ids) \cup {id}) = q.out \cup {<<q.col, id, doc>>}
    BY <2>3, <2>4 DEF Rows
  <2> QED
    BY <2>3, <2>5, <2>6, <2>7
<1> HIDE DEF left, more
<1>8. r \in Session
  BY <1>1, <1>6 DEF Session
<1>9. SessionOK(s, r)
  BY <1>1, <1>2, <1>7 DEF Session, SessionOK, LockOK, MemoryOK, SnapshotOK, QueryOK, DiskOK,
        Reading, Owning, Holding, QueryPcs
<1> HIDE DEF r
<1> QED
  BY <1>2, <1>8, <1>9, LocalStep

\* QueryScanned, TxQueryReturn, Visit: the window is complete, handed to the
\* function of a ReadTx, or visited.
LEMMA QueryWindowKeeps ==
    ASSUME IInv, NEW s \in Procs,
           QueryScanned(s) \/ TxQueryReturn(s) \/ (\E step \in Steps : Visit(s, step))
    PROVE  IInv'
<1> DEFINE q == ses[s]
<1>1. q \in Session /\ SessionOK(s, q) /\ Len(log) \in Nat \ {0}
  BY Here
<1>2. CASE QueryScanned(s)
  <2> DEFINE r == [q EXCEPT !.pc = "window"]
  <2>1. /\ q.pc = "docs" /\ q.ids = {} /\ ses' = [ses EXCEPT ![s] = r]
        /\ UNCHANGED <<durable, memory, mutex, promised>>
    BY <1>2 DEF QueryScanned, At, Goto
  <2>2. r \in Session
    BY <1>1 DEF Session, Pcs
  <2>3. Stored(q.col) \ {} = Stored(q.col)
    OBVIOUS
  <2>4. SessionOK(s, r)
    BY <1>1, <2>1, <2>3 DEF Session, SessionOK, LockOK, MemoryOK, SnapshotOK, QueryOK, DiskOK,
          Reading, Owning, Holding, QueryPcs
  <2> HIDE DEF r
  <2> QED
    BY <2>1, <2>2, <2>4, LocalStep
<1>3. CASE TxQueryReturn(s)
  <2> DEFINE r == [q EXCEPT !.pc = "tx", !.back = "idle", !.col = "none", !.src = 0, !.out = {}]
  <2>1. /\ q.pc = "window" /\ q.back = "tx" /\ ses' = [ses EXCEPT ![s] = r]
        /\ UNCHANGED <<durable, memory, mutex, promised>>
    BY <1>3 DEF TxQueryReturn, At, Set
  <2>2. r \in Session
    BY <1>1 DEF Session, Pcs
  <2>3. SessionOK(s, r)
    BY <1>1, <2>1 DEF Session, SessionOK, LockOK, MemoryOK, SnapshotOK, QueryOK, DiskOK,
          Reading, Owning, Holding, QueryPcs
  <2> HIDE DEF r
  <2> QED
    BY <2>1, <2>2, <2>3, LocalStep
<1>4. ASSUME NEW step \in Steps, Visit(s, step) PROVE IInv'
  <2> DEFINE next == q.i + (IF step < 0 THEN step + 1 ELSE step)
             rest == IF step < 0 THEN q.left - 1 ELSE q.left
             r == [q EXCEPT !.i = next, !.left = rest]
  <2>1. /\ q.pc = "window" /\ q.back = "idle" /\ (step < 0 => q.left > 0)
        /\ next \in 0..(Cardinality(q.out) - 1)
        /\ ses' = [ses EXCEPT ![s] = r] /\ UNCHANGED <<durable, memory, mutex, promised>>
    BY <1>4 DEF Visit, At, Set
  <2>2. next \in Nat /\ rest \in Nat
    <3>1. q.left \in Nat
      BY <1>1, SessionFields
    <3> QED
      BY <2>1, <3>1
  <2> HIDE DEF next, rest
  <2>3. r \in Session
    BY <1>1, <2>2 DEF Session
  <2>4. SessionOK(s, r)
    BY <1>1, <2>1 DEF Session, SessionOK, LockOK, MemoryOK, SnapshotOK, QueryOK, DiskOK,
          Reading, Owning, Holding, QueryPcs
  <2> HIDE DEF r
  <2> QED
    BY <2>1, <2>3, <2>4, LocalStep
<1> QED
  BY <1>2, <1>3, <1>4

----------------------------------------------------------------------------
(* db.mu. *)

\* A goroutine takes or leaves the lock, or waits for it; the database does not
\* change, and the others stay where they are.
LEMMA MutexStep ==
    ASSUME IInv, NEW s \in Procs, NEW r \in Session, ses' = [ses EXCEPT ![s] = r],
           UNCHANGED <<durable, memory, promised>>,
           readers' \subseteq Procs, writer' \in Procs \cup {NoProc}, writer' = NoProc => Clean,
           LockOK(s, r)', MemoryOK(r), SnapshotOK(r), QueryOK(r), DiskOK(r),
           \A t \in Procs \ {s} : /\ t \in readers' <=> t \in readers
                                  /\ writer' = t <=> writer = t
                                  /\ Holding(ses[t]) => readers' = {}
    PROVE  IInv'
<1>1. /\ log' = log /\ synced' = synced /\ sync' = sync /\ state' = state /\ pending' = pending
      /\ dirtyMeta' = dirtyMeta /\ closed' = closed /\ up' = up /\ abandoned' = abandoned
      /\ promised' = promised
  BY DEF durable, memory
<1>2. ses' \in [Procs -> Session] /\ ses'[s] = r /\ \A t \in Procs \ {s} : ses'[t] = ses[t]
  BY DEF IInv, TypeOK
<1>3. TypeOK'
  BY <1>1, <1>2, SMTT(30) DEF IInv, TypeOK
<1>4. DatabaseOK'
  BY <1>1, SMTT(30) DEF IInv, DatabaseOK, Clean, Latest
<1>5. \A q : /\ MemoryOK(q) => MemoryOK(q)'
             /\ SnapshotOK(q) => SnapshotOK(q)'
             /\ QueryOK(q) => QueryOK(q)'
             /\ DiskOK(q) => DiskOK(q)'
  BY <1>1 DEF MemoryOK, SnapshotOK, QueryOK, DiskOK, Clean, SavedOK, Latest, Content, Stored, Rows
<1>6. \A t \in Procs \ {s} : LockOK(t, ses[t])'
  <2> SUFFICES ASSUME NEW t \in Procs \ {s} PROVE LockOK(t, ses[t])'
    OBVIOUS
  <2>1. LockOK(t, ses[t])
    BY DEF IInv, SessionOK
  <2>2. ses'[t] = ses[t]
    BY <1>2
  <2> QED
    BY <2>1, <2>2 DEF LockOK, Reading, Owning, Holding
<1>7. \A t \in Procs : SessionOK(t, ses[t])'
  <2> SUFFICES ASSUME NEW t \in Procs PROVE SessionOK(t, ses[t])'
    OBVIOUS
  <2>1. CASE t = s
    BY <1>2, <1>5, <2>1 DEF SessionOK
  <2>2. CASE t # s
    <3>1. MemoryOK(ses[t]) /\ SnapshotOK(ses[t]) /\ QueryOK(ses[t]) /\ DiskOK(ses[t])
      BY DEF IInv, SessionOK
    <3> QED
      BY <1>2, <1>5, <1>6, <2>2, <3>1 DEF SessionOK
  <2> QED
    BY <2>1, <2>2
<1> QED
  BY <1>3, <1>4, <1>7 DEF IInv

\* While one goroutine is inside Lock no other is, and while it holds the lock
\* no other is inside the read lock.
LEMMA OneOwner ==
    ASSUME IInv, NEW s \in Procs
    PROVE  /\ writer = NoProc => ~Owning(ses[s])
           /\ Owning(ses[s]) => \A t \in Procs \ {s} : ~Owning(ses[t])
           /\ Holding(ses[s]) => readers = {} /\ \A t \in Procs : ~Reading(ses[t])
BY SessionsAssumption DEF IInv, SessionOK, LockOK

\* RLock, Lock, LockDrained.
LEMMA LockActionsKeep ==
    ASSUME IInv, NEW s \in Procs, RLock(s) \/ Lock(s) \/ LockDrained(s)
    PROVE  IInv'
<1> DEFINE q == ses[s]
<1>1. q \in Session /\ SessionOK(s, q) /\ s # NoProc /\ ses \in [Procs -> Session]
  BY Here DEF IInv, TypeOK
<1>2. readers \subseteq Procs /\ writer \in Procs \cup {NoProc}
  BY DEF IInv, TypeOK
<1>3. CASE RLock(s)
  <2>1. PICK r \in Session : r = [q EXCEPT !.pc = "read"]
    BY <1>1 DEF Session, Pcs
  <2>2. /\ q.pc = "rlock" /\ writer = NoProc /\ writer' = NoProc /\ readers' = readers \cup {s}
        /\ ses' = [ses EXCEPT ![s] = r] /\ UNCHANGED <<durable, memory, promised>>
    BY <1>3, <2>1 DEF RLock, At, Goto
  <2>3. Clean
    BY <2>2 DEF IInv, DatabaseOK
  <2>4. LockOK(s, r)'
    BY <1>1, <2>1, <2>2 DEF Session, SessionOK, LockOK, Reading, Owning, Holding
  <2>5. MemoryOK(r) /\ SnapshotOK(r) /\ QueryOK(r) /\ DiskOK(r)
    BY <1>1, <2>1, <2>2 DEF Session, SessionOK, MemoryOK, SnapshotOK, QueryOK, DiskOK, QueryPcs
  <2>6. \A t \in Procs \ {s} : /\ t \in readers' <=> t \in readers
                               /\ writer' = t <=> writer = t
                               /\ Holding(ses[t]) => readers' = {}
    <3>1. \A t \in Procs : ~Owning(ses[t])
      BY <2>2, OneOwner
    <3> QED
      BY <2>2, <3>1 DEF Owning, Holding
  <2> QED
    BY <1>2, <2>1, <2>2, <2>3, <2>4, <2>5, <2>6, MutexStep
<1>4. CASE Lock(s)
  <2>1. PICK r \in Session : r = [q EXCEPT !.pc = "drain"]
    BY <1>1 DEF Session, Pcs
  <2>2. /\ q.pc = "lock" /\ writer = NoProc /\ writer' = s /\ readers' = readers
        /\ ses' = [ses EXCEPT ![s] = r] /\ UNCHANGED <<durable, memory, promised>>
    BY <1>4, <2>1 DEF Lock, At, Goto
  <2>3. Clean
    BY <2>2 DEF IInv, DatabaseOK
  <2>4. LockOK(s, r)'
    BY <1>1, <2>1, <2>2 DEF Session, SessionOK, LockOK, Reading, Owning, Holding, QueryPcs
  <2>5. MemoryOK(r) /\ SnapshotOK(r) /\ QueryOK(r) /\ DiskOK(r)
    BY <1>1, <2>1, <2>2, <2>3 DEF Session, SessionOK, MemoryOK, SnapshotOK, QueryOK, DiskOK, QueryPcs
  <2>6. \A t \in Procs \ {s} : /\ t \in readers' <=> t \in readers
                               /\ writer' = t <=> writer = t
                               /\ Holding(ses[t]) => readers' = {}
    BY <1>1, <2>2, SessionsAssumption DEF IInv, SessionOK, LockOK
  <2> QED
    BY <1>2, <2>1, <2>2, <2>3, <2>4, <2>5, <2>6, MutexStep
<1>5. CASE LockDrained(s)
  <2> DEFINE r == [q EXCEPT !.pc = "write"]
  <2>1. /\ q.pc = "drain" /\ readers = {}
        /\ ses' = [ses EXCEPT ![s] = r] /\ UNCHANGED <<durable, memory, mutex, promised>>
    BY <1>5 DEF LockDrained, At, Goto
  <2>2. r \in Session
    BY <1>1 DEF Session, Pcs
  <2>3. SessionOK(s, r)
    BY <1>1, <2>1 DEF Session, SessionOK, LockOK, MemoryOK, SnapshotOK, QueryOK, DiskOK,
          Reading, Owning, Holding, QueryPcs
  <2> HIDE DEF r
  <2> QED
    BY <2>1, <2>2, <2>3, LocalStep
<1> QED
  BY <1>3, <1>4, <1>5

\* A goroutine at rest satisfies what is asked of one, if db.mu does not name it.
LEMMA IdleOK ==
    ASSUME NEW s \in Procs, IInv
    PROVE  /\ MemoryOK(Idle) /\ SnapshotOK(Idle) /\ QueryOK(Idle) /\ DiskOK(Idle)
           /\ ~Reading(Idle) /\ ~Owning(Idle) /\ ~Holding(Idle)
           /\ Idle.pc = "idle" /\ Idle.back = "idle"
<1>1. Len(log) \in Nat
  BY Here
<1> QED
  BY <1>1 DEF MemoryOK, SnapshotOK, QueryOK, DiskOK, Reading, Owning, Holding, QueryPcs, Idle

\* A reader leaves the read lock: with the catalog it cloned (ReadTx), or at the
\* end of its call.
LEMMA RUnlockKeeps ==
    ASSUME IInv, NEW s \in Procs, s \in readers, RUnlock(s), NEW r \in Session,
           ~Reading(r), ~Owning(r), r.pc \notin {"rlock", "read"},
           MemoryOK(r), SnapshotOK(r), QueryOK(r), DiskOK(r),
           ses' = [ses EXCEPT ![s] = r], UNCHANGED <<durable, memory, promised>>
    PROVE  IInv'
<1>1. readers' = readers \ {s} /\ writer' = writer
  BY DEF RUnlock
<1>2. readers' \subseteq Procs /\ writer' \in Procs \cup {NoProc}
  BY <1>1 DEF IInv, TypeOK
<1>3. writer' = NoProc => Clean
  BY <1>1 DEF IInv, DatabaseOK
<1>4. writer # s
  BY DEF IInv, SessionOK, LockOK, Reading, Owning, QueryPcs
<1>5. LockOK(s, r)'
  BY <1>1, <1>4 DEF LockOK, Owning, Holding
<1>6. \A t \in Procs \ {s} : /\ t \in readers' <=> t \in readers
                             /\ writer' = t <=> writer = t
                             /\ Holding(ses[t]) => readers' = {}
  BY <1>1 DEF IInv, SessionOK, LockOK
<1> QED
  BY <1>2, <1>3, <1>5, <1>6, MutexStep

\* ReadTx, QueryReturn, VisitEnd, BackupReturn, ErrClosed of a reader.
LEMMA ReadersLeave ==
    ASSUME IInv, NEW s \in Procs,
           \/ ReadTx(s) \/ QueryReturn(s) \/ (\E step \in Steps : VisitEnd(s, step))
           \/ BackupReturn(s)
           \/ At(s, "read") /\ RUnlock(s) /\ Set(s, Idle) /\ UNCHANGED <<durable, memory, promised>>
    PROVE  IInv'
<1> DEFINE q == ses[s]
<1>1. q \in Session /\ SessionOK(s, q) /\ Idle \in Session /\ state \in Catalog
  BY Here
<1>2. CASE ReadTx(s)
  <2> DEFINE r == [q EXCEPT !.pc = "cloned", !.view = state]
  <2>1. /\ q.pc = "read" /\ q.call = "ReadTx" /\ RUnlock(s) /\ ses' = [ses EXCEPT ![s] = r]
        /\ UNCHANGED <<durable, memory, promised>>
    BY <1>2 DEF ReadTx, At, Set
  <2>2. s \in readers
    BY <1>1, <2>1 DEF SessionOK, LockOK, Reading
  <2>3. r \in Session
    BY <1>1 DEF Session, Pcs
  <2>4. /\ ~Reading(r) /\ ~Owning(r) /\ r.pc \notin {"rlock", "read"}
        /\ MemoryOK(r) /\ SnapshotOK(r) /\ QueryOK(r) /\ DiskOK(r)
    BY <1>1, <2>1 DEF Session, SessionOK, LockOK, MemoryOK, SnapshotOK, QueryOK, DiskOK,
          Reading, Owning, QueryPcs
  <2> HIDE DEF r
  <2> QED
    BY <2>1, <2>2, <2>3, <2>4, RUnlockKeeps
<1>3. CASE ~ReadTx(s)
  <2>1. /\ RUnlock(s) /\ ses' = [ses EXCEPT ![s] = Idle] /\ UNCHANGED <<durable, memory, promised>>
        /\ Reading(q)
    BY <1>3 DEF QueryReturn, VisitEnd, BackupReturn, At, Set, Reading, QueryPcs
  <2>2. s \in readers
    BY <1>1, <2>1 DEF SessionOK, LockOK
  <2> QED
    BY <1>1, <2>1, <2>2, IdleOK, RUnlockKeeps
<1> QED
  BY <1>2, <1>3

\* Unlock: whoever waits to read comes in, to a clean memory or to what a failed
\* call has left.
LEMMA UnlockKeeps ==
    ASSUME IInv, NEW s \in Procs, Holding(ses[s]), NEW r \in Session, Unlock(s, r),
           ~Reading(r), ~Owning(r), r.pc \notin {"rlock", "read"},
           MemoryOK(r), SnapshotOK(r), QueryOK(r), DiskOK(r),
           UNCHANGED <<log, synced, sync, closed, up>>,
           state' \in Catalog, pending' \in Seq(MutationType),
           \A j \in DOMAIN pending' : pending'[j].new <= Len(log) + 1,
           dirtyMeta' \in BOOLEAN, abandoned' \in BOOLEAN, abandoned => abandoned',
           Clean', promised' \in Nat, promised' <= synced
    PROVE  IInv'
<1> DEFINE waiting == {t \in Procs : At(t, "rlock")}
           in(t) == [ses[t] EXCEPT !.pc = "read"]
<1>1. /\ writer' = NoProc /\ readers' = readers \cup waiting
      /\ ses' = [t \in Procs |-> IF t = s THEN r ELSE IF t \in waiting THEN in(t) ELSE ses[t]]
  BY DEF Unlock
<1>2. /\ readers = {} /\ \A t \in Procs : ~Reading(ses[t])
      /\ \A t \in Procs \ {s} : ~Owning(ses[t])
  BY OneOwner DEF Holding, Owning
<1>3. s \notin waiting
  BY DEF Holding, At
<1>4. /\ ses \in [Procs -> Session] /\ \A t \in Procs : ses[t] \in Session /\ SessionOK(t, ses[t])
  BY DEF IInv, TypeOK
<1>5. ses' \in [Procs -> Session]
  <2>1. \A t \in Procs : in(t) \in Session
    <3>1. ASSUME NEW q \in Session PROVE [q EXCEPT !.pc = "read"] \in Session
      BY ZenonT(30) DEF Session, Pcs
    <3> QED
      BY <1>4, <3>1
  <2> HIDE DEF waiting, in
  <2> QED
    BY <1>1, <1>4, <2>1
<1>6. TypeOK'
  <2>1. readers' \subseteq Procs /\ writer' \in Procs \cup {NoProc}
    BY <1>1, <1>2
  <2> QED
    BY <1>5, <2>1 DEF IInv, TypeOK
<1>7. DatabaseOK'
  BY <1>1 DEF IInv, DatabaseOK
<1>8. \A q : /\ SnapshotOK(q) => SnapshotOK(q)'
             /\ QueryOK(q) => QueryOK(q)'
             /\ ~Owning(q) => MemoryOK(q)'
             /\ ~Owning(q) /\ ~Reading(q) => DiskOK(q)'
  BY DEF SnapshotOK, QueryOK, MemoryOK, DiskOK, Owning, Reading, Latest, Content, Stored, Rows
<1>9. ASSUME NEW t \in Procs PROVE SessionOK(t, ses[t])'
  <2>1. CASE t = s
    <3>1. ses'[t] = r /\ t \notin readers' /\ writer' # t
      BY <1>1, <1>2, <1>3, <2>1, SessionsAssumption
    <3>2. LockOK(t, ses[t])'
      BY <1>1, <1>2, <3>1 DEF LockOK, Owning, Holding
    <3> QED
      BY <1>8, <3>1, <3>2 DEF SessionOK
  <2>2. CASE t \in waiting
    <3>1. PICK q : q = in(t)
      OBVIOUS
    <3>2. ses'[t] = q /\ t \in readers' /\ writer' # t
      BY <1>1, <1>2, <1>3, <2>2, <3>1, SessionsAssumption
    <3>3. ses[t].pc = "rlock" /\ q.pc = "read" /\ q.back = "idle"
      BY <1>4, <2>2, <3>1 DEF Session, At, SessionOK, LockOK
    <3>4. SnapshotOK(q) /\ QueryOK(q)
      BY <1>4, <3>1, <3>3, ZenonT(60) DEF Session, SessionOK, SnapshotOK, QueryOK, QueryPcs
    <3>5. MemoryOK(q)' /\ DiskOK(q)'
      BY <3>3 DEF MemoryOK, DiskOK
    <3>6. LockOK(t, q)'
      BY <3>2, <3>3 DEF LockOK, Reading, Owning, Holding
    <3> QED
      BY <1>8, <3>2, <3>4, <3>5, <3>6 DEF SessionOK
  <2>3. CASE t # s /\ t \notin waiting
    <3>1. ses'[t] = ses[t] /\ t \notin readers' /\ writer' # t
      BY <1>1, <1>2, <2>3, SessionsAssumption
    <3>2. ~Owning(ses[t]) /\ ~Reading(ses[t]) /\ ses[t].pc # "rlock" /\ ses[t].pc # "read"
      BY <1>2, <2>3 DEF At, Reading
    <3>3. LockOK(t, ses[t])'
      BY <3>1, <3>2 DEF LockOK, Reading, Owning, Holding
    <3>4. SnapshotOK(ses[t]) /\ QueryOK(ses[t])
      BY <1>4 DEF SessionOK
    <3> QED
      BY <1>8, <3>1, <3>2, <3>3, <3>4 DEF SessionOK
  <2> QED
    BY <2>1, <2>2, <2>3
<1> QED
  BY <1>6, <1>7, <1>9 DEF IInv

\* Where a call ends: at rest, or back in the function of the ReadTx.
LEMMA EndedOK ==
    ASSUME IInv, NEW s \in Procs, Owning(ses[s])
    PROVE  LET r == Ended(ses[s])
           IN  /\ r \in Session /\ ~Reading(r) /\ ~Owning(r) /\ r.pc \notin {"rlock", "read"}
               /\ MemoryOK(r) /\ SnapshotOK(r) /\ QueryOK(r) /\ DiskOK(r)
<1> DEFINE q == ses[s]
           r == Ended(q)
<1>1. q \in Session /\ SessionOK(s, q) /\ Idle \in Session
  BY Here
<1>2. CASE q.back = "tx"
  <2>1. r = [q EXCEPT !.pc = "tx", !.call = "ReadTx", !.back = "idle"]
    BY <1>2 DEF Ended
  <2>2. r \in Session
    BY <1>1, <2>1 DEF Session, Pcs, ReadCalls
  <2>3. r.pc = "tx" /\ r.call = "ReadTx" /\ r.back = "idle" /\ r.snap = q.snap /\ r.gets = q.gets
        /\ r.began = q.began /\ r.src = q.src /\ r.view = q.view
    BY <1>1, <2>1 DEF Session
  <2> HIDE DEF r
  <2>4. SnapshotOK(r)
    BY <1>1, <1>2, <2>3 DEF SessionOK, SnapshotOK
  <2>5. ~Reading(r) /\ ~Owning(r) /\ MemoryOK(r) /\ QueryOK(r) /\ DiskOK(r)
    BY <2>3 DEF Reading, Owning, MemoryOK, QueryOK, DiskOK, QueryPcs
  <2> QED
    BY <2>2, <2>3, <2>4, <2>5 DEF r
<1>3. CASE q.back # "tx"
  <2>1. r = Idle
    BY <1>3 DEF Ended
  <2> QED
    BY <1>1, <2>1, IdleOK
<1> QED
  BY <1>2, <1>3

\* A rollback leaves what the transaction found.
LEMMA RollbackOK ==
    ASSUME IInv, NEW r \in Session, SavedOK(r), ~closed, closed' = closed, log' = log, Rollback(r)
    PROVE  /\ state' \in Catalog /\ pending' \in Seq(MutationType)
           /\ \A j \in DOMAIN pending' : pending'[j].new <= Len(log) + 1
           /\ dirtyMeta' \in BOOLEAN /\ abandoned' \in BOOLEAN /\ (abandoned => abandoned')
           /\ Clean'
<1>1. /\ state' = r.view /\ pending' = SubSeq(pending, 1, r.kept) /\ dirtyMeta' = r.dirty
      /\ abandoned' = abandoned
  BY DEF Rollback
<1>2. r.view \in Catalog /\ r.kept \in Nat /\ r.dirty \in BOOLEAN
  BY DEF Session
<1>3. /\ pending \in Seq(MutationType) /\ Len(pending) \in Nat /\ abandoned \in BOOLEAN
      /\ \A j \in DOMAIN pending : pending[j].new <= Len(log) + 1
  BY DEF IInv, TypeOK
<1>4. r.kept <= Len(pending)
  BY DEF SavedOK
<1>5. /\ pending' \in Seq(MutationType) /\ Len(pending') = r.kept
      /\ DOMAIN pending' = 1..r.kept /\ DOMAIN pending = 1..Len(pending)
      /\ \A j \in 1..r.kept : pending'[j] = pending[j]
  BY <1>1, <1>2, <1>3, <1>4
<1>6. \A j \in DOMAIN pending' : pending'[j].new <= Len(log) + 1
  <2>1. TAKE j \in DOMAIN pending'
  <2>2. j \in DOMAIN pending /\ pending'[j] = pending[j]
    BY <1>2, <1>3, <1>4, <1>5
  <2> QED
    BY <1>3, <2>2
<1>7. Clean'
  <2>1. SUFFICES ASSUME ~abandoned' PROVE pending' = <<>> /\ ~dirtyMeta' /\ state' = Latest.cat
    BY DEF Clean, Latest
  <2>2. r.kept = 0 /\ ~r.dirty /\ r.view = Latest.cat
    BY <1>1, <2>1 DEF SavedOK
  <2>3. pending' = <<>>
    BY <1>5, <2>2
  <2> QED
    BY <1>1, <2>2, <2>3
<1> QED
  BY <1>1, <1>2, <1>3, <1>5, <1>6, <1>7

\* ErrClosed of a writer, TxAbort, Done, CommitFails, RemoveCollectionFails.
LEMMA WritersLeave ==
    ASSUME IInv, NEW s \in Procs,
           \/ TxAbort(s) \/ Done(s) \/ CommitFails(s)
           \/ \E n \in Names : RemoveCollectionFails(s, n)
           \/ closed /\ At(s, "write") /\ Unlock(s, Ended(ses[s])) /\ UNCHANGED <<durable, memory, promised>>
    PROVE  IInv'
<1> DEFINE q == ses[s]
<1>1. /\ q \in Session /\ SessionOK(s, q) /\ Idle \in Session
      /\ Latest.cat \in Catalog /\ state \in Catalog
  BY Here
<1>2. /\ promised \in Nat /\ promised <= synced /\ synced \in 1..Len(log) /\ Len(log) \in Nat
      /\ sync => synced = Len(log)
  BY Here DEF IInv, TypeOK, DatabaseOK
<1>3. /\ pending \in Seq(MutationType) /\ dirtyMeta \in BOOLEAN /\ abandoned \in BOOLEAN
      /\ \A j \in DOMAIN pending : pending[j].new <= Len(log) + 1
      /\ <<>> \in Seq(MutationType) /\ DOMAIN <<>> = {}
  BY DEF IInv, TypeOK
<1>4. CASE TxAbort(s)
  <2>1. /\ q.pc = "wtx" /\ Rollback(q) /\ Unlock(s, Idle)
        /\ UNCHANGED <<log, synced, sync, closed, up, promised>>
    BY <1>4 DEF TxAbort, At, durable
  <2>2. Holding(q) /\ ~closed /\ SavedOK(q)
    BY <1>1, <2>1 DEF Holding, SessionOK, MemoryOK
  <2> QED
    BY <1>1, <1>2, <2>1, <2>2, IdleOK, RollbackOK, UnlockKeeps
<1>5. CASE Done(s)
  <2>1. /\ q.pc \in {"done", "return"} /\ Unlock(s, Ended(q)) /\ state' = state
        /\ promised' = IF sync \/ q.call \in {"ForceSync", "Close"} THEN Len(log) ELSE promised
        /\ UNCHANGED <<log, synced, sync, closed, up, abandoned>>
    BY <1>5 DEF Done, At, durable
  <2>2. \/ q.pc = "done" /\ pending' = <<>> /\ dirtyMeta' = FALSE
        \/ q.pc = "return" /\ pending' = pending /\ dirtyMeta' = dirtyMeta
    BY <1>5 DEF Done, At
  <2>3. Holding(q) /\ Owning(q)
    BY <2>1 DEF Holding, Owning
  <2>4. Clean'
    BY <1>1, <2>1, <2>2 DEF Clean, Latest, SessionOK, MemoryOK
  <2>5. promised' \in Nat /\ promised' <= synced
    BY <1>1, <1>2, <2>1 DEF SessionOK, DiskOK
  <2>6. /\ pending' \in Seq(MutationType) /\ dirtyMeta' \in BOOLEAN
        /\ \A j \in DOMAIN pending' : pending'[j].new <= Len(log) + 1
    BY <1>3, <2>2
  <2> QED
    BY <1>1, <1>3, <2>1, <2>3, <2>4, <2>5, <2>6, EndedOK, UnlockKeeps
<1>6. CASE closed /\ At(s, "write") /\ Unlock(s, Ended(ses[s])) /\ UNCHANGED <<durable, memory, promised>>
  <2>1. /\ q.pc = "write" /\ UNCHANGED <<log, synced, sync, closed, up, promised>>
        /\ state' = state /\ pending' = pending /\ dirtyMeta' = dirtyMeta /\ abandoned' = abandoned
    BY <1>6 DEF At, durable, memory
  <2>2. Holding(q) /\ Owning(q)
    BY <2>1 DEF Holding, Owning
  <2>3. Clean'
    BY <1>1, <2>1 DEF Clean, Latest, SessionOK, MemoryOK
  <2> QED
    BY <1>1, <1>2, <1>3, <1>6, <2>1, <2>2, <2>3, EndedOK, UnlockKeeps
<1>7. CASE CommitFails(s)
  <2>1. /\ q.pc = "commit" /\ Unlock(s, Ended(q))
        /\ UNCHANGED <<log, synced, sync, closed, up, promised>>
    BY <1>7 DEF CommitFails, At, durable
  <2>2. Holding(q) /\ Owning(q) /\ ~closed
    BY <1>1, <2>1 DEF Holding, Owning, SessionOK, MemoryOK
  <2>3. CASE q.call = "WriteTx" /\ Rollback(q)
    <3>1. SavedOK(q)
      BY <1>1, <2>1, <2>3 DEF SessionOK, MemoryOK
    <3> QED
      BY <1>1, <1>2, <2>1, <2>2, <2>3, <3>1, EndedOK, RollbackOK, UnlockKeeps
  <2>4. CASE q.call # "WriteTx" /\ Abandon /\ UNCHANGED <<state, pending, dirtyMeta>>
    <3>1. /\ abandoned' = TRUE /\ state' = state /\ pending' = pending /\ dirtyMeta' = dirtyMeta
      BY <2>4 DEF Abandon
    <3>2. Clean'
      BY <3>1 DEF Clean
    <3> QED
      BY <1>1, <1>2, <1>3, <2>1, <2>2, <3>1, <3>2, EndedOK, UnlockKeeps
  <2> QED
    BY <1>7, <2>3, <2>4 DEF CommitFails
<1>8. ASSUME NEW n \in Names, RemoveCollectionFails(s, n) PROVE IInv'
  <2>1. /\ q.pc = "write" /\ Unlock(s, Ended(q)) /\ state' = [state EXCEPT !.dbid[n] = 0]
        /\ UNCHANGED <<log, synced, sync, closed, up, promised>>
        /\ pending' = pending /\ dirtyMeta' = dirtyMeta /\ abandoned' = TRUE
    BY <1>8 DEF RemoveCollectionFails, Abandon, At, durable
  <2>2. Holding(q) /\ Owning(q)
    BY <2>1 DEF Holding, Owning
  <2>3. state' \in Catalog
    BY <1>1, <2>1 DEF Catalog
  <2>4. Clean'
    BY <2>1 DEF Clean
  <2> QED
    BY <1>1, <1>2, <1>3, <2>1, <2>2, <2>3, <2>4, EndedOK, UnlockKeeps
<1> QED
  BY <1>4, <1>5, <1>6, <1>7, <1>8

----------------------------------------------------------------------------
(* Writers. *)

\* The log only grows.
Grown == /\ IsLog(log') /\ Len(log') \in Nat /\ Len(log) <= Len(log')
         /\ \A k \in 1..Len(log) : log'[k] = log[k]

\* A snapshot keeps its answers when versions are added.
LEMMA SnapshotGrows ==
    ASSUME IInv, Grown, NEW q \in Session, SnapshotOK(q)
    PROVE  SnapshotOK(q)'
<1>1. Len(log) \in Nat
  <2>1. IsLog(log)
    BY DEF IInv, TypeOK, IsLog
  <2> QED
    BY <2>1, LogAppend
<1>2. q.snap \in Nat /\ q.began \in Nat /\ q.src \in Nat
  BY SessionFields
<1>3. q.began <= Len(log') /\ q.snap <= Len(log') /\ q.src <= Len(log')
  BY <1>1, <1>2 DEF SnapshotOK, Grown
<1>4. q.snap # 0 => log'[q.snap] = log[q.snap]
  BY <1>1, <1>2 DEF SnapshotOK, Grown
<1> QED
  BY <1>3, <1>4 DEF SnapshotOK, Content, DocAt

\* The holder of the lock changes memory or the engine and goes on.
LEMMA HolderStep ==
    ASSUME IInv, NEW s \in Procs, Holding(ses[s]), NEW r \in Session, Holding(r),
           ses' = [ses EXCEPT ![s] = r], UNCHANGED <<mutex, promised, sync, up, abandoned>>, Grown,
           /\ \A k \in DOMAIN log' : /\ log'[k].cat \in Catalog
                                     /\ DOMAIN log'[k].docs \subseteq Nat \X Ids
                                     /\ \A d \in DOMAIN log'[k].docs : log'[k].docs[d] \in 1..k,
           synced' \in 1..Len(log'), synced <= synced', sync => synced' = Len(log'),
           state' \in Catalog, closed' \in BOOLEAN, pending' \in Seq(MutationType),
           \A j \in DOMAIN pending' : pending'[j].new <= Len(log') + 1, dirtyMeta' \in BOOLEAN,
           MemoryOK(r)', SnapshotOK(r), DiskOK(r)'
    PROVE  IInv'
<1>1. /\ readers' = readers /\ writer' = writer /\ promised' = promised /\ sync' = sync /\ up' = up
      /\ abandoned' = abandoned
  BY DEF mutex
<1>2. /\ ses \in [Procs -> Session] /\ ses' \in [Procs -> Session] /\ ses'[s] = r
      /\ \A t \in Procs \ {s} : ses'[t] = ses[t]
      /\ \A t \in Procs : ses[t] \in Session /\ SessionOK(t, ses[t])
  BY DEF IInv, TypeOK
<1>3. TypeOK'
  BY <1>1, <1>2 DEF IInv, TypeOK, Grown, IsLog
<1>4. /\ readers = {} /\ \A t \in Procs : ~Reading(ses[t])
      /\ \A t \in Procs \ {s} : ~Owning(ses[t])
  BY OneOwner DEF Holding, Owning
<1>5. Owning(ses[s]) /\ Owning(r) /\ ~Reading(r) /\ r.pc \notin {"rlock", "read"}
  BY DEF Holding, Owning, Reading, QueryPcs
<1>6. DatabaseOK'
  <2>1. writer # NoProc
    BY <1>2, <1>5, SessionsAssumption DEF SessionOK, LockOK
  <2>2. promised \in Nat /\ synced \in Nat /\ synced' \in Nat /\ promised <= synced
    BY DEF IInv, TypeOK, DatabaseOK
  <2> QED
    BY <1>1, <2>1, <2>2 DEF DatabaseOK
<1>7. ASSUME NEW t \in Procs PROVE SessionOK(t, ses[t])'
  <2>1. CASE t = s
    <3>1. LockOK(t, r)'
      BY <1>1, <1>2, <1>4, <1>5, <2>1 DEF SessionOK, LockOK
    <3>2. SnapshotOK(r)'
      BY SnapshotGrows
    <3>3. QueryOK(r)'
      BY <1>5 DEF QueryOK, Owning, QueryPcs
    <3> QED
      BY <1>2, <2>1, <3>1, <3>2, <3>3 DEF SessionOK
  <2>2. CASE t # s
    <3>1. PICK q : q = ses[t]
      OBVIOUS
    <3>2. q \in Session /\ SessionOK(t, q) /\ ~Owning(q) /\ ~Reading(q) /\ ses'[t] = q
      BY <1>2, <1>4, <2>2, <3>1
    <3>3. LockOK(t, q)'
      BY <1>1, <3>2 DEF SessionOK, LockOK
    <3>4. SnapshotOK(q)'
      BY <3>2, SnapshotGrows DEF SessionOK
    <3>5. MemoryOK(q)'
      BY <3>2 DEF MemoryOK, Owning
    <3>6. DiskOK(q)'
      BY <3>2 DEF DiskOK, Owning, Reading
    <3>7. QueryOK(q)'
      BY <3>2 DEF SessionOK, QueryOK, Reading, QueryPcs
    <3> QED
      BY <3>2, <3>3, <3>4, <3>5, <3>6, <3>7 DEF SessionOK
  <2> QED
    BY <2>1, <2>2
<1> QED
  BY <1>3, <1>6, <1>7 DEF IInv

\* What a writer knows when it holds the lock.
LEMMA HolderHere ==
    ASSUME IInv, NEW s \in Procs
    PROVE  /\ synced \in 1..Len(log) /\ synced <= Len(log) /\ sync \in BOOLEAN /\ closed \in BOOLEAN
           /\ dirtyMeta \in BOOLEAN
           /\ sync => synced = Len(log)
           /\ pending \in Seq(MutationType) /\ \A j \in DOMAIN pending : pending[j].new <= Len(log) + 1
           /\ \A k \in DOMAIN log : /\ log[k].cat \in Catalog
                                    /\ DOMAIN log[k].docs \subseteq Nat \X Ids
                                    /\ \A d \in DOMAIN log[k].docs : log[k].docs[d] \in 1..k
           /\ log' = log => Grown
<1>1. IsLog(log) /\ Len(log) \in Nat \ {0}
  BY Here
<1>2. log' = log => Grown
  BY <1>1 DEF Grown
<1>3. /\ synced \in 1..Len(log) /\ sync \in BOOLEAN /\ closed \in BOOLEAN
      /\ dirtyMeta \in BOOLEAN /\ pending \in Seq(MutationType) /\ \A j \in DOMAIN pending : pending[j].new <= Len(log) + 1
      /\ \A k \in DOMAIN log : /\ log[k].cat \in Catalog
                               /\ DOMAIN log[k].docs \subseteq Nat \X Ids
                               /\ \A d \in DOMAIN log[k].docs : log[k].docs[d] \in 1..k
  BY DEF IInv, TypeOK
<1> QED
  BY <1>1, <1>2, <1>3 DEF IInv, DatabaseOK

\* ensureCollection gives an absent name a dbid and leaves the others.
LEMMA EnsureType ==
    ASSUME NEW c \in Catalog, NEW n \in Names
    PROVE  ensureCollection(c, n) \in Catalog
BY DEF ensureCollection, Catalog

\* One more mutation in db.pending, of the next version.
LEMMA BufferType ==
    ASSUME IInv, NEW s \in Procs, NEW n \in Names, NEW id \in Ids, NEW new \in 0..(Len(log) + 1),
           Mutate(n, id, new)
    PROVE  /\ pending' \in Seq(MutationType) /\ dirtyMeta' /\ dirtyMeta' \in BOOLEAN
           /\ Len(pending) \in Nat /\ Len(pending') = Len(pending) + 1
           /\ \A j \in DOMAIN pending' : pending'[j].new <= Len(log) + 1
<1>1. PICK m : m = [col |-> n, id |-> id, new |-> new]
  OBVIOUS
<1>2. Len(log) \in Nat
  BY Here
<1>3. m \in MutationType /\ m.new <= Len(log) + 1
  BY <1>1, <1>2 DEF MutationType
<1>4. /\ pending \in Seq(MutationType)
      /\ \A j \in DOMAIN pending : pending[j].new <= Len(log) + 1
  BY HolderHere
<1>5. pending' = Append(pending, m)
  BY <1>1 DEF Mutate
<1>6. /\ pending' \in Seq(MutationType) /\ Len(pending) \in Nat /\ Len(pending') = Len(pending) + 1
      /\ DOMAIN pending = 1..Len(pending) /\ DOMAIN pending' = 1..(Len(pending) + 1)
      /\ pending'[Len(pending) + 1] = m
      /\ \A j \in 1..Len(pending) : pending'[j] = pending[j]
  BY <1>3, <1>4, <1>5
<1>7. \A j \in DOMAIN pending' : pending'[j].new <= Len(log) + 1
  <2>1. TAKE j \in DOMAIN pending'
  <2>2. j \in 1..Len(pending) \/ j = Len(pending) + 1
    BY <1>6
  <2> QED
    BY <1>3, <1>4, <1>6, <2>2
<1>8. dirtyMeta' /\ dirtyMeta' \in BOOLEAN
  BY DEF Mutate
<1> QED
  BY <1>6, <1>7, <1>8

\* Put, TxPut, TxDelete: the catalog in memory and db.pending go ahead of the engine.
LEMMA MutationsKeep ==
    ASSUME IInv, NEW s \in Procs, NEW n \in Names, NEW id \in Ids,
           Put(s, n, id) \/ TxPut(s, n, id) \/ TxDelete(s, n, id)
    PROVE  IInv'
<1> DEFINE q == ses[s]
<1>1. /\ q \in Session /\ SessionOK(s, q) /\ state \in Catalog /\ Len(log) \in Nat
      /\ ses \in [Procs -> Session]
  BY Here DEF IInv, TypeOK
<1>2. /\ state' \in Catalog
      /\ UNCHANGED <<log, synced, sync, closed, up, abandoned, mutex, promised>>
  BY <1>1, EnsureType DEF Put, TxPut, TxDelete, durable
<1>3. /\ pending' \in Seq(MutationType) /\ dirtyMeta' /\ dirtyMeta' \in BOOLEAN
      /\ Len(pending) \in Nat /\ Len(pending') = Len(pending) + 1
      /\ \A j \in DOMAIN pending' : pending'[j].new <= Len(log) + 1
  <2>1. \E new \in 0..(Len(log) + 1) : Mutate(n, id, new)
    BY <1>1 DEF Put, TxPut, TxDelete
  <2> QED
    BY <2>1, BufferType
<1>4. PICK r \in Session : /\ ses' = [ses EXCEPT ![s] = r]
                           /\ r.pc \in {"wtx", "commit"} /\ r.call = q.call
                           /\ r.began = q.began /\ r.view = q.view /\ r.snap = q.snap
                           /\ r.gets = q.gets /\ r.src = q.src /\ r.back = q.back
                           /\ r.kept = q.kept /\ r.dirty = q.dirty
                           /\ \/ r.pc = "wtx" /\ q.pc = "wtx"
                              \/ r.pc = "commit" /\ r.call = "Put"
  <2>1. CASE Put(s, n, id)
    <3>1. [q EXCEPT !.pc = "commit"] \in Session
      BY <1>1 DEF Session, Pcs
    <3>2. ses' = [ses EXCEPT ![s] = [q EXCEPT !.pc = "commit"]] /\ q.call = "Put"
      BY <1>1, <2>1 DEF Put, Goto
    <3> QED
      BY <1>1, <3>1, <3>2 DEF Session
  <2>2. CASE ~Put(s, n, id)
    <3> DEFINE less == q.left - 1
    <3>1. q.pc = "wtx" /\ less \in Nat
      BY <1>1, <2>2, SessionFields DEF TxPut, TxDelete, At
    <3>2. ses' = [ses EXCEPT ![s] = [q EXCEPT !.left = less]]
      BY <1>1, <2>2 DEF TxPut, TxDelete, Set, Session
    <3> HIDE DEF less
    <3>3. [q EXCEPT !.left = less] \in Session
      BY <1>1, <3>1 DEF Session
    <3> QED
      BY <1>1, <3>1, <3>2, <3>3 DEF Session
  <2> QED
    BY <2>1, <2>2
<1>5. /\ Holding(q) /\ ~closed /\ q.call \notin {"ForceSync", "Close"}
  BY <1>1 DEF Put, TxPut, TxDelete, At, Holding, SessionOK, MemoryOK, DiskOK
<1>6. Holding(r) /\ SnapshotOK(r)
  BY <1>1, <1>4, <1>5 DEF Holding, SessionOK, SnapshotOK
<1>7. MemoryOK(r)'
  <2>1. r.pc = "wtx" => r.kept <= Len(pending')
    BY <1>1, <1>3, <1>4, SMTT(30) DEF SessionOK, MemoryOK, SavedOK, Session
  <2>2. r.pc = "wtx" /\ ~abandoned => r.kept = 0 /\ ~r.dirty /\ r.view = Latest.cat
    BY <1>1, <1>4 DEF SessionOK, MemoryOK, SavedOK
  <2>3. abandoned' = abandoned /\ log' = log /\ closed' = closed
    BY <1>2
  <2>4. r.pc = "wtx" => SavedOK(r)'
    BY <2>1, <2>2, <2>3 DEF SavedOK, Latest
  <2> QED
    BY <1>3, <1>4, <1>5, <2>3, <2>4, Zenon DEF MemoryOK
<1>8. DiskOK(r)'
  BY <1>4, <1>5 DEF DiskOK
<1>9. closed' \in BOOLEAN /\ synced' \in 1..Len(log') /\ synced <= synced'
      /\ (sync => synced' = Len(log')) /\ Grown
  BY <1>2, HolderHere, <1>1
<1>10. \A k \in DOMAIN log' : /\ log'[k].cat \in Catalog
                              /\ DOMAIN log'[k].docs \subseteq Nat \X Ids
                              /\ \A d \in DOMAIN log'[k].docs : log'[k].docs[d] \in 1..k
  BY <1>2, HolderHere
<1>11. /\ UNCHANGED <<mutex, promised, sync, up, abandoned>>
       /\ \A j \in DOMAIN pending' : pending'[j].new <= Len(log') + 1
  BY <1>2, <1>3
<1> QED
  BY <1>2, <1>3, <1>4, <1>5, <1>6, <1>7, <1>8, <1>9, <1>10, <1>11, HolderStep

\* A holder that has committed, or had nothing to commit, goes to its return.
LEMMA DoneRecord ==
    ASSUME IInv, NEW s \in Procs, NEW p \in {"done", "return"}, Goto(s, p)
    PROVE  \E r \in Session : /\ ses' = [ses EXCEPT ![s] = r] /\ r.pc = p /\ r.call = ses[s].call
                              /\ Holding(r) /\ SnapshotOK(r)
<1> DEFINE q == ses[s]
           r == [q EXCEPT !.pc = p]
<1>1. q \in Session /\ SessionOK(s, q) /\ ses \in [Procs -> Session]
  BY Here DEF IInv, TypeOK
<1>2. r \in Session
  BY <1>1 DEF Session, Pcs
<1>3. ses' = [ses EXCEPT ![s] = r]
  BY <1>1 DEF Goto
<1>4. /\ r.pc = p /\ r.call = q.call
      /\ r.began = q.began /\ r.view = q.view /\ r.snap = q.snap
      /\ r.gets = q.gets /\ r.src = q.src /\ r.back = q.back
  BY <1>1 DEF Session
<1>5. Holding(r) /\ SnapshotOK(r)
  BY <1>1, <1>4 DEF Holding, SessionOK, SnapshotOK
<1> QED
  BY <1>2, <1>3, <1>4, <1>5

\* A committed batch: the new version holds the catalog that is in memory.
LEMMA BatchKeeps ==
    ASSUME IInv, NEW s \in Procs, Holding(ses[s]), ses[s].call \notin {"ForceSync", "Close"},
           NEW p \in {"done", "return"}, p = "return" /\ ~abandoned => pending = <<>> /\ ~dirtyMeta,
           NEW v, CommitBatch(v), v.cat \in Catalog, DOMAIN v.docs \subseteq Nat \X Ids,
           \A d \in DOMAIN v.docs : v.docs[d] \in 1..(Len(log) + 1),
           state' = v.cat, Goto(s, p),
           UNCHANGED <<sync, pending, dirtyMeta, closed, up, abandoned, mutex, promised>>
    PROVE  IInv'
<1>1. IsLog(log) /\ Len(log) \in Nat \ {0} /\ DOMAIN log = 1..Len(log)
  BY Here
<1>2. PICK r \in Session : /\ ses' = [ses EXCEPT ![s] = r] /\ r.pc = p /\ r.call = ses[s].call
                           /\ Holding(r) /\ SnapshotOK(r)
  BY DoneRecord
<1>3. log' = Append(log, v) /\ synced' = IF sync THEN Len(log) + 1 ELSE synced
  BY DEF CommitBatch
<1>4. /\ IsLog(log') /\ Len(log') = Len(log) + 1 /\ DOMAIN log' = 1..Len(log')
      /\ log'[Len(log')] = v /\ \A k \in 1..Len(log) : log'[k] = log[k]
  BY <1>1, <1>3, LogAppend
<1>5. Grown
  BY <1>1, <1>4 DEF Grown
<1>6. \A k \in DOMAIN log' : /\ log'[k].cat \in Catalog
                             /\ DOMAIN log'[k].docs \subseteq Nat \X Ids
                             /\ \A d \in DOMAIN log'[k].docs : log'[k].docs[d] \in 1..k
  <2>1. TAKE k \in DOMAIN log'
  <2>2. CASE k = Len(log')
    BY <1>4, <2>2
  <2>3. CASE k # Len(log')
    <3>1. k \in DOMAIN log /\ log'[k] = log[k]
      BY <1>1, <1>4, <2>3
    <3> QED
      BY <3>1, HolderHere
  <2> QED
    BY <2>2, <2>3
<1>7. synced' \in 1..Len(log') /\ synced <= synced' /\ (sync => synced' = Len(log'))
  <2>1. synced \in 1..Len(log) /\ synced <= Len(log) /\ sync \in BOOLEAN
    BY HolderHere
  <2>2. CASE sync
    BY <1>1, <1>3, <1>4, <2>1, <2>2
  <2>3. CASE ~sync
    BY <1>1, <1>3, <1>4, <2>1, <2>3
  <2> QED
    BY <2>2, <2>3
<1>8. /\ state' \in Catalog /\ closed' \in BOOLEAN /\ pending' \in Seq(MutationType)
      /\ pending' = pending /\ dirtyMeta' \in BOOLEAN
  BY HolderHere
<1>9. \A j \in DOMAIN pending' : pending'[j].new <= Len(log') + 1
  <2>1. TAKE j \in DOMAIN pending'
  <2>2. pending[j].new <= Len(log) + 1 /\ pending[j] \in MutationType
    BY <1>8, HolderHere
  <2>3. pending[j].new \in Nat
    BY <2>2 DEF MutationType
  <2> QED
    BY <1>1, <1>4, <1>8, <2>2, <2>3
<1>10. MemoryOK(r)'
  <2>1. state' = Latest'.cat
    BY <1>4 DEF Latest
  <2>2. p = "return" => Clean'
    BY <2>1, Zenon DEF Clean
  <2> QED
    BY <1>2, <2>1, <2>2 DEF MemoryOK
<1>11. DiskOK(r)'
  BY <1>2 DEF DiskOK
<1>12. UNCHANGED <<mutex, promised, sync, up, abandoned>>
  OBVIOUS
<1> QED
  BY <1>2, <1>5, <1>6, <1>7, <1>8, <1>9, <1>10, <1>11, <1>12, HolderStep

\* A method that ends without a batch: it found nothing to do, or it wrote out or
\* closed the engine.
LEMMA NoBatchKeeps ==
    ASSUME IInv, NEW s \in Procs, Holding(ses[s]), Goto(s, "return"),
           UNCHANGED <<log, state, pending, dirtyMeta, sync, up, abandoned, mutex, promised>>,
           \/ synced' = synced /\ ses[s].call \notin {"ForceSync", "Close"}
           \/ synced' = Len(log),
           closed' \in BOOLEAN, Clean, ~closed
    PROVE  IInv'
<1>1. IsLog(log) /\ Len(log) \in Nat \ {0} /\ state' \in Catalog
  BY Here
<1>2. PICK r \in Session : /\ ses' = [ses EXCEPT ![s] = r] /\ r.pc = "return" /\ r.call = ses[s].call
                           /\ Holding(r) /\ SnapshotOK(r)
  BY DoneRecord
<1>3. /\ Grown
      /\ \A k \in DOMAIN log' : /\ log'[k].cat \in Catalog
                                /\ DOMAIN log'[k].docs \subseteq Nat \X Ids
                                /\ \A d \in DOMAIN log'[k].docs : log'[k].docs[d] \in 1..k
      /\ pending' \in Seq(MutationType) /\ dirtyMeta' \in BOOLEAN
      /\ \A j \in DOMAIN pending' : pending'[j].new <= Len(log') + 1
  BY HolderHere
<1>4. synced' \in 1..Len(log') /\ synced <= synced' /\ (sync => synced' = Len(log'))
  BY <1>1, HolderHere
<1>5. MemoryOK(r)'
  <2>1. Clean'
    BY Zenon DEF Clean, Latest
  <2> QED
    BY <1>2, <2>1 DEF MemoryOK
<1>6. DiskOK(r)'
  BY <1>2 DEF DiskOK
<1>7. UNCHANGED <<mutex, promised, sync, up, abandoned>>
  OBVIOUS
<1> QED
  BY <1>1, <1>2, <1>3, <1>4, <1>5, <1>6, <1>7, HolderStep

\* persistPendingLocked writes a version: documents of its own or an earlier one.
LEMMA PersistedType ==
    ASSUME IInv, NEW s \in Procs
    PROVE  /\ Persisted.cat = state /\ DOMAIN Persisted.docs \subseteq Nat \X Ids
           /\ \A d \in DOMAIN Persisted.docs : Persisted.docs[d] \in 1..(Len(log) + 1)
<1> DEFINE keyOf(i) == <<state.dbid[pending[i].col], pending[i].id>>
           hits(k) == {i \in DOMAIN pending : keyOf(i) = k}
           last(k) == CHOOSE i \in hits(k) : IsLast(i, hits(k))
           after(k) == IF hits(k) = {} THEN Latest.docs[k] ELSE pending[last(k)].new
           all == DOMAIN Latest.docs \cup {keyOf(i) : i \in DOMAIN pending}
<1>1. /\ Len(log) \in Nat \ {0} /\ Len(log) \in DOMAIN log /\ state \in Catalog
  BY Here
<1>2. /\ pending \in Seq(MutationType) /\ \A j \in DOMAIN pending : pending[j].new <= Len(log) + 1
      /\ DOMAIN Latest.docs \subseteq Nat \X Ids
      /\ \A d \in DOMAIN Latest.docs : Latest.docs[d] \in 1..Len(log)
  BY <1>1, HolderHere DEF Latest
<1>3. Len(pending) \in Nat /\ DOMAIN pending = 1..Len(pending)
      /\ \A i \in DOMAIN pending : pending[i] \in MutationType
  BY <1>2
<1>4. \A i \in DOMAIN pending : keyOf(i) \in Nat \X Ids /\ pending[i].new \in Nat
  BY <1>1, <1>3, ZenonT(30) DEF MutationType, Catalog
<1>5. Persisted = [cat |-> state, docs |-> [k \in {k \in all : after(k) # 0} |-> after(k)]]
  BY Zenon DEF Persisted
<1>6. all \subseteq Nat \X Ids
  <2> HIDE DEF keyOf
  <2> QED
    BY <1>2, <1>4, SMTT(30)
<1>7. ASSUME NEW k \in all, after(k) # 0 PROVE after(k) \in 1..(Len(log) + 1)
  <2>1. CASE hits(k) = {}
    <3>1. k \in DOMAIN Latest.docs
      BY <2>1
    <3> QED
      BY <1>1, <1>2, <2>1, <3>1
  <2>2. CASE hits(k) # {}
    <3>1. hits(k) \in SUBSET (1..Len(pending))
      BY <1>3
    <3>2. last(k) \in hits(k)
      <4> HIDE DEF hits
      <4> QED
        BY <1>3, <2>2, <3>1, LastExists
    <3>3. last(k) \in DOMAIN pending
      BY <3>2
    <3>4. after(k) = pending[last(k)].new
      BY <2>2
    <3> HIDE DEF after, last, hits, keyOf
    <3> QED
      BY <1>1, <1>2, <1>4, <1>7, <3>3, <3>4
  <2> QED
    BY <2>1, <2>2
<1> HIDE DEF after, all
<1> QED
  BY <1>5, <1>6, <1>7

\* RenameCollection changes the catalog in memory, to be committed.
LEMMA RenameKeeps ==
    ASSUME IInv, NEW s \in Procs, NEW n \in Names, NEW m \in Names, RenameCollection(s, n, m)
    PROVE  IInv'
<1> DEFINE q == ses[s]
           c == [state EXCEPT !.dbid = [@ EXCEPT ![m] = state.dbid[n], ![n] = 0]]
<1>1. /\ q \in Session /\ SessionOK(s, q) /\ state \in Catalog
      /\ Len(log) \in Nat \ {0} /\ ses \in [Procs -> Session]
  BY Here DEF IInv, TypeOK
<1>2. /\ q.pc = "write" /\ ~closed /\ q.call = "RenameCollection"
      /\ UNCHANGED <<log, synced, sync, pending, closed, up, abandoned, mutex, promised>>
  BY DEF RenameCollection, At, durable
<1>3. Holding(q) /\ Clean
  BY <1>1, <1>2 DEF Holding, SessionOK, MemoryOK
<1>4. CASE state.dbid[n] = 0 \/ state.dbid[m] # 0
  <2>1. Goto(s, "return") /\ state' = state /\ dirtyMeta' = dirtyMeta
    BY <1>4 DEF RenameCollection
  <2>2. closed' \in BOOLEAN
    BY <1>2, HolderHere
  <2> QED
    BY <1>2, <1>3, <2>1, <2>2, NoBatchKeeps
<1>5. CASE ~(state.dbid[n] = 0 \/ state.dbid[m] # 0)
  <2>1. /\ state' = c /\ dirtyMeta' = TRUE
        /\ ses' = [ses EXCEPT ![s] = [q EXCEPT !.pc = "commit"]]
    BY <1>5, Zenon DEF RenameCollection, Goto
  <2>2. state' \in Catalog
    BY <1>1, <2>1 DEF Catalog
  <2>3. [q EXCEPT !.pc = "commit"] \in Session
    BY <1>1 DEF Session, Pcs
  <2>4. PICK r \in Session : r = [q EXCEPT !.pc = "commit"]
    BY <2>3
  <2>5. /\ r.pc = "commit" /\ r.call = "RenameCollection"
        /\ r.began = q.began /\ r.view = q.view /\ r.snap = q.snap
        /\ r.gets = q.gets /\ r.src = q.src /\ r.back = q.back
    BY <1>1, <1>2, <2>4 DEF Session
  <2>6. /\ Holding(r) /\ SnapshotOK(r) /\ MemoryOK(r)' /\ DiskOK(r)'
    <3>1. Holding(r) /\ SnapshotOK(r)
      BY <1>1, <1>2, <2>5 DEF Holding, SessionOK, SnapshotOK
    <3>2. ~closed'
      BY <1>2, Zenon
    <3> QED
      BY <2>5, <3>1, <3>2 DEF MemoryOK, DiskOK
  <2>7. /\ closed' \in BOOLEAN /\ synced' \in 1..Len(log') /\ synced <= synced' /\ Grown
        /\ pending' \in Seq(MutationType) /\ (sync => synced' = Len(log'))
        /\ \A j \in DOMAIN pending' : pending'[j].new <= Len(log') + 1
        /\ \A k \in DOMAIN log' : /\ log'[k].cat \in Catalog
                                  /\ DOMAIN log'[k].docs \subseteq Nat \X Ids
                                  /\ \A d \in DOMAIN log'[k].docs : log'[k].docs[d] \in 1..k
    BY <1>1, <1>2, HolderHere
  <2>8. /\ dirtyMeta' \in BOOLEAN /\ UNCHANGED <<mutex, promised, sync, up, abandoned>>
        /\ ses' = [ses EXCEPT ![s] = r]
    BY <1>2, <2>1, <2>4, Zenon
  <2> QED
    BY <1>3, <2>2, <2>6, <2>7, <2>8, HolderStep
<1> QED
  BY <1>4, <1>5

\* Commit, RemoveCollection, RenameCollection, ForceSync, Close.
LEMMA CommitsKeep ==
    ASSUME IInv, NEW s \in Procs,
           \/ Commit(s) \/ ForceSync(s) \/ Close(s)
           \/ \E n \in Names : RemoveCollection(s, n)
           \/ \E n, m \in Names : RenameCollection(s, n, m)
    PROVE  IInv'
<1> DEFINE q == ses[s]
<1>1. /\ q \in Session /\ SessionOK(s, q) /\ state \in Catalog
      /\ Len(log) \in Nat \ {0} /\ Len(log) \in DOMAIN log
  BY Here
<1>2. Holding(q)
  BY DEF Commit, ForceSync, Close, RemoveCollection, RenameCollection, At, Holding
<1>3. /\ DOMAIN Latest.docs \subseteq Nat \X Ids
      /\ \A d \in DOMAIN Latest.docs : Latest.docs[d] \in 1..(Len(log) + 1)
  BY <1>1, HolderHere DEF Latest
<1>4. q.pc = "write" => Clean
  BY <1>1 DEF SessionOK, MemoryOK
<1>5. CASE Commit(s)
  <2>1. /\ CommitBatch(Persisted) /\ q.pc = "commit" /\ state' = state /\ Goto(s, "done")
        /\ UNCHANGED <<sync, pending, dirtyMeta, closed, up, abandoned, mutex, promised>>
    BY <1>5 DEF Commit, At, memory
  <2>2. q.call \notin {"ForceSync", "Close"}
    BY <1>1, <2>1 DEF SessionOK, DiskOK
  <2>3. PICK v : v = Persisted
    OBVIOUS
  <2>4. /\ v.cat \in Catalog /\ state' = v.cat /\ DOMAIN v.docs \subseteq Nat \X Ids
        /\ \A d \in DOMAIN v.docs : v.docs[d] \in 1..(Len(log) + 1)
    BY <1>1, <2>1, <2>3, PersistedType
  <2>5. CommitBatch(v)
    BY <2>1, <2>3
  <2> QED
    BY <1>2, <2>1, <2>2, <2>4, <2>5, BatchKeeps
<1>6. CASE ForceSync(s) \/ Close(s)
  <2>1. /\ q.pc = "write" /\ ~closed /\ synced' = Len(log) /\ Goto(s, "return")
        /\ UNCHANGED <<log, state, pending, dirtyMeta, sync, up, abandoned, mutex, promised>>
        /\ closed' = closed \/ closed' = TRUE
    BY <1>6 DEF ForceSync, Close, At, memory
  <2>2. closed' \in BOOLEAN
    BY <2>1, HolderHere, Zenon
  <2> QED
    BY <1>2, <1>4, <2>1, <2>2, NoBatchKeeps
<1>7. ASSUME NEW n \in Names, RemoveCollection(s, n) PROVE IInv'
  <2> DEFINE d == state.dbid[n]
             c == [state EXCEPT !.dbid[n] = 0]
             kept == {k \in DOMAIN Latest.docs : k[1] # d}
             docs == [k \in kept |-> Latest.docs[k]]
  <2>1. /\ q.pc = "write" /\ ~closed /\ q.call = "RemoveCollection" /\ Goto(s, "return")
        /\ UNCHANGED <<sync, pending, dirtyMeta, closed, up, abandoned, mutex, promised>>
    BY <1>7 DEF RemoveCollection, At
  <2>2. CASE d = 0
    <3>1. UNCHANGED <<log, synced, state>>
      BY <1>7, <2>2 DEF RemoveCollection
    <3>2. closed' \in BOOLEAN
      BY <2>1, HolderHere
    <3> QED
      BY <1>2, <1>4, <2>1, <3>1, <3>2, NoBatchKeeps
  <2>3. CASE d # 0
    <3>1. PICK v : v = [cat |-> c, docs |-> docs]
      OBVIOUS
    <3>2. state' = c /\ CommitBatch(v)
      BY <1>7, <2>3, <3>1, Zenon DEF RemoveCollection
    <3>3. c \in Catalog
      BY <1>1 DEF Catalog
    <3>4. v.cat = c /\ v.docs = docs
      BY <3>1
    <3>5. /\ DOMAIN v.docs \subseteq Nat \X Ids
          /\ \A k \in DOMAIN v.docs : v.docs[k] \in 1..(Len(log) + 1)
      BY <1>3, <3>4
    <3>6. ~abandoned => pending = <<>> /\ ~dirtyMeta
      BY <1>4, <2>1 DEF Clean
    <3> HIDE DEF c
    <3> QED
      BY <1>2, <2>1, <3>2, <3>3, <3>4, <3>5, <3>6, BatchKeeps
  <2> QED
    BY <2>2, <2>3
<1>8. CASE \E n, m \in Names : RenameCollection(s, n, m)
  BY <1>8, RenameKeeps
<1> QED
  BY <1>5, <1>6, <1>7, <1>8

----------------------------------------------------------------------------
(* The end of the process, and its start. *)

\* Goroutines at rest, in a database whose lock is free.
LEMMA RestOK ==
    ASSUME NEW s \in Procs, NEW r \in Session, r.pc = "idle", r.back = "idle", SnapshotOK(r),
           readers = {}, writer = NoProc
    PROVE  SessionOK(s, r)
BY SessionsAssumption DEF SessionOK, LockOK, MemoryOK, QueryOK, DiskOK, Reading, Owning, Holding, QueryPcs

\* A crash or a panic keeps every version on disk, and perhaps more.
LEMMA DieKeeps ==
    ASSUME IInv, Die
    PROVE  IInv'
<1>1. PICK k \in synced..Len(log) : log' = SubSeq(log, 1, k)
  BY DEF Die
<1>2. /\ IsLog(log) /\ synced \in 1..Len(log) /\ sync \in BOOLEAN /\ state \in Catalog
      /\ promised \in Nat /\ promised <= synced /\ (sync => synced = Len(log))
      /\ \A j \in DOMAIN log : /\ log[j].cat \in Catalog
                               /\ DOMAIN log[j].docs \subseteq Nat \X Ids
                               /\ \A d \in DOMAIN log[j].docs : log[j].docs[d] \in 1..j
  BY DEF IInv, TypeOK, DatabaseOK, IsLog
<1>3. Len(log) \in Nat
  BY <1>2, LogAppend
<1>4. k \in 1..Len(log) /\ synced \in 1..k /\ (sync => synced = k)
  BY <1>2, <1>3
<1>5. /\ IsLog(log') /\ Len(log') = k /\ DOMAIN log = 1..Len(log) /\ DOMAIN log' = 1..k
      /\ \A j \in 1..k : log'[j] = log[j]
  BY <1>1, <1>2, <1>4, LogCut
<1>6. /\ up' = FALSE /\ pending' = <<>> /\ dirtyMeta' = FALSE /\ closed' = TRUE
      /\ abandoned' = FALSE /\ readers' = {} /\ writer' = NoProc
      /\ ses' = [s \in Procs |-> Idle] /\ UNCHANGED <<synced, sync, state, promised>>
  BY DEF Die
<1>7. Idle \in Session /\ Idle.pc = "idle" /\ Idle.back = "idle"
  <2>1. NoCatalog \in Catalog
    BY DEF NoCatalog, Catalog
  <2> HIDE DEF Catalog
  <2> QED
    BY <2>1 DEF Idle, Session, Pcs
<1>8. TypeOK'
  <2>1. \A j \in DOMAIN log' : /\ log'[j].cat \in Catalog
                               /\ DOMAIN log'[j].docs \subseteq Nat \X Ids
                               /\ \A d \in DOMAIN log'[j].docs : log'[j].docs[d] \in 1..j
    <3>1. TAKE j \in DOMAIN log'
    <3>2. j \in DOMAIN log /\ log'[j] = log[j]
      BY <1>3, <1>4, <1>5
    <3> QED
      BY <1>2, <3>2
  <2>2. ses' \in [Procs -> Session]
    BY <1>6, <1>7
  <2>3. pending' \in Seq(MutationType) /\ DOMAIN pending' = {}
    BY <1>6, SMTT(30)
  <2>4. /\ synced' \in 1..Len(log') /\ sync' \in BOOLEAN /\ state' \in Catalog
        /\ closed' \in BOOLEAN /\ up' \in BOOLEAN /\ promised' \in Nat
        /\ dirtyMeta' \in BOOLEAN /\ abandoned' \in BOOLEAN
    BY <1>2, <1>4, <1>5, <1>6
  <2>5. readers' \subseteq Procs /\ writer' \in Procs \cup {NoProc}
    BY <1>6, ZenonT(30)
  <2> QED
    BY <1>5, <2>1, <2>2, <2>3, <2>4, <2>5 DEF TypeOK, IsLog
<1>9. DatabaseOK'
  BY <1>2, <1>4, <1>5, <1>6 DEF DatabaseOK, Clean
<1>10. ASSUME NEW s \in Procs PROVE SessionOK(s, ses[s])'
  <2>1. PICK r \in Session : r = Idle
    BY <1>7
  <2>2. ses'[s] = r /\ r.pc = "idle" /\ r.back = "idle"
    BY <1>6, <1>7, <2>1
  <2>3. SnapshotOK(r)'
    BY <1>3, <1>4, <1>5, <2>1 DEF SnapshotOK, Idle
  <2>4. LockOK(s, r)' /\ MemoryOK(r)' /\ QueryOK(r)' /\ DiskOK(r)'
    BY <1>6, <2>2, SessionsAssumption
       DEF LockOK, MemoryOK, QueryOK, DiskOK, Reading, Owning, Holding, QueryPcs
  <2> QED
    BY <2>2, <2>3, <2>4 DEF SessionOK
<1> QED
  BY <1>8, <1>9, <1>10 DEF IInv

\* Open loads the catalog of the latest version.
LEMMA OpenKeeps ==
    ASSUME IInv, Open
    PROVE  IInv'
<1>1. /\ closed /\ closed' = FALSE /\ up' = TRUE /\ sync' \in BOOLEAN /\ state' = Latest.cat
      /\ pending' = <<>> /\ dirtyMeta' = FALSE /\ abandoned' = FALSE /\ synced' = Len(log)
      /\ UNCHANGED <<log, ses, promised>> /\ readers' = readers /\ writer' = writer
      /\ \A s \in Procs : ses[s].pc = "idle"
  BY DEF Open, At, mutex
<1>2. /\ IsLog(log) /\ synced \in 1..Len(log) /\ promised \in Nat /\ promised <= synced
      /\ \A j \in DOMAIN log : log[j].cat \in Catalog
  BY DEF IInv, TypeOK, DatabaseOK, IsLog
<1>3. Len(log) \in Nat \ {0} /\ DOMAIN log = 1..Len(log)
  <2>1. Len(log) \in Nat /\ DOMAIN log = 1..Len(log)
    BY <1>2, LogAppend
  <2> QED
    BY <1>2, <2>1
<1>4. state' \in Catalog
  BY <1>1, <1>2, <1>3 DEF Latest
<1>5. TypeOK'
  <2>1. pending' \in Seq(MutationType) /\ DOMAIN pending' = {}
    BY <1>1
  <2>2. closed' \in BOOLEAN /\ up' \in BOOLEAN /\ dirtyMeta' \in BOOLEAN /\ abandoned' \in BOOLEAN
    BY <1>1, Zenon
  <2>3. synced' \in 1..Len(log')
    <3>1. synced' = Len(log) /\ log' = log
      BY <1>1
    <3> QED
      BY <1>3, <3>1
  <2> QED
    BY <1>1, <1>4, <2>1, <2>2, <2>3 DEF IInv, TypeOK
<1>6. DatabaseOK'
  <2>1. Clean'
    BY <1>1 DEF Clean, Latest
  <2> QED
    BY <1>1, <1>2, <1>3, <2>1 DEF DatabaseOK
<1>7. ASSUME NEW s \in Procs PROVE SessionOK(s, ses[s])'
  <2>1. PICK q : q = ses[s]
    OBVIOUS
  <2>2. q.pc = "idle" /\ ses'[s] = q /\ SessionOK(s, q)
    BY <1>1, <2>1 DEF IInv
  <2>3. LockOK(s, q)' /\ SnapshotOK(q)'
    BY <1>1, <2>2 DEF SessionOK, LockOK, SnapshotOK, Content
  <2>4. MemoryOK(q)' /\ QueryOK(q)' /\ DiskOK(q)'
    BY <2>2 DEF MemoryOK, QueryOK, DiskOK, QueryPcs
  <2> QED
    BY <2>2, <2>3, <2>4 DEF SessionOK
<1> QED
  BY <1>5, <1>6, <1>7 DEF IInv

LEMMA InitKeeps ==
    ASSUME Init
    PROVE  IInv
<1>1. /\ log = <<Empty>> /\ synced = 1 /\ sync \in BOOLEAN /\ state = NoCatalog /\ pending = <<>>
      /\ dirtyMeta = FALSE /\ closed = FALSE /\ up = TRUE /\ abandoned = FALSE
      /\ readers = {} /\ writer = NoProc
      /\ ses = [s \in Procs |-> Idle] /\ promised = 1
  BY DEF Init
<1>2. NoCatalog \in Catalog
  BY DEF NoCatalog, Catalog
<1>3. Idle \in Session /\ Idle.pc = "idle" /\ Idle.back = "idle"
  <2> HIDE DEF Catalog
  <2> QED
    BY <1>2 DEF Idle, Session, Pcs
<1>4. /\ IsLog(log) /\ Len(log) = 1 /\ DOMAIN log = {1} /\ log[1] = Empty
  <2>1. /\ Len(log) = 1 /\ DOMAIN log = {1} /\ log[1] = Empty
    BY <1>1
  <2>2. log \in Seq({Empty}) /\ {log[k] : k \in DOMAIN log} = {Empty}
    BY <1>1
  <2> QED
    BY <2>1, <2>2 DEF IsLog
<1>5. Empty.cat = NoCatalog /\ DOMAIN Empty.docs = {}
  BY DEF Empty
<1>6. TypeOK
  <2>1. pending \in Seq(MutationType) /\ DOMAIN pending = {}
    BY <1>1
  <2>2. ses \in [Procs -> Session]
    BY <1>1, <1>3
  <2>3. \A k \in DOMAIN log : /\ log[k].cat \in Catalog
                              /\ DOMAIN log[k].docs \subseteq Nat \X Ids
                              /\ \A d \in DOMAIN log[k].docs : log[k].docs[d] \in 1..k
    BY <1>2, <1>4, <1>5
  <2>4. synced \in 1..Len(log)
    BY <1>1, <1>4
  <2>5. /\ state \in Catalog /\ closed \in BOOLEAN /\ up \in BOOLEAN /\ promised \in Nat
        /\ dirtyMeta \in BOOLEAN /\ abandoned \in BOOLEAN
    BY <1>1, <1>2
  <2> QED
    BY <1>1, <1>4, <2>1, <2>2, <2>3, <2>4, <2>5 DEF TypeOK, IsLog
<1>7. DatabaseOK
  BY <1>1, <1>4, <1>5 DEF DatabaseOK, Clean, Latest
<1>8. ASSUME NEW s \in Procs PROVE SessionOK(s, ses[s])
  <2>1. SnapshotOK(Idle)
    BY <1>4 DEF SnapshotOK, Idle
  <2> QED
    BY <1>1, <1>3, <2>1, RestOK
<1> QED
  BY <1>6, <1>7, <1>8 DEF IInv

\* A step of a goroutine.
LEMMA StepKeeps ==
    ASSUME IInv, NEW s \in Procs, Step(s) \/ Lock(s) \/ \E c \in Calls[s] : Start(s, c)
    PROVE  IInv'
<1>1. CASE \/ \E c \in Calls[s] : Start(s, c)
           \/ NewSnapshot(s) \/ NestedPut(s) \/ TxQuery(s) \/ ReadTxReturn(s)
           \/ WriteTx(s) \/ TxCommit(s) \/ BackupRemove(s) \/ Checkpoint(s)
  BY <1>1, SimpleStepsKeep
<1>2. CASE RLock(s) \/ Lock(s) \/ LockDrained(s)
  BY <1>2, LockActionsKeep
<1>3. CASE ErrClosed(s)
  BY <1>3, ReadersLeave, WritersLeave DEF ErrClosed
<1>4. CASE \E n \in Names, id \in Ids : TxGet(s, n, id)
  BY <1>4, TxGetKeeps
<1>5. CASE Query(s) \/ (\E n \in Names : QueryReader(s, n)) \/ ScanEngine(s)
  BY <1>5, QueryScanKeeps
<1>6. CASE ScanPending(s) \/ QueryDoc(s)
  BY <1>6, ScanPendingKeeps, QueryDocKeeps
<1>7. CASE QueryScanned(s) \/ TxQueryReturn(s) \/ (\E step \in Steps : Visit(s, step))
  BY <1>7, QueryWindowKeeps
<1>8. CASE \/ ReadTx(s) \/ QueryReturn(s) \/ (\E step \in Steps : VisitEnd(s, step))
           \/ BackupReturn(s)
  BY <1>8, ReadersLeave
<1>9. CASE \/ TxAbort(s) \/ Done(s) \/ CommitFails(s)
           \/ \E n \in Names : RemoveCollectionFails(s, n)
  BY <1>9, WritersLeave
<1>10. CASE \E n \in Names, id \in Ids : Put(s, n, id) \/ TxPut(s, n, id) \/ TxDelete(s, n, id)
  BY <1>10, MutationsKeep
<1>11. CASE \/ Commit(s) \/ ForceSync(s) \/ Close(s)
            \/ \E n \in Names : RemoveCollection(s, n)
            \/ \E n, m \in Names : RenameCollection(s, n, m)
  BY <1>11, CommitsKeep
<1>12. CASE Panic(s)
  BY <1>12, DieKeeps DEF Panic
<1> QED
  BY <1>1, <1>2, <1>3, <1>4, <1>5, <1>6, <1>7, <1>8, <1>9, <1>10, <1>11, <1>12, Zenon DEF Step

LEMMA NextKeeps ==
    ASSUME IInv, [Next]_vars
    PROVE  IInv'
<1>1. CASE UNCHANGED vars
  <2>1. /\ log' = log /\ synced' = synced /\ sync' = sync /\ state' = state /\ pending' = pending
        /\ dirtyMeta' = dirtyMeta /\ closed' = closed /\ up' = up /\ abandoned' = abandoned
        /\ readers' = readers /\ writer' = writer /\ promised' = promised /\ ses' = ses
    BY <1>1 DEF vars, durable, memory, mutex
  <2>2. TypeOK'
    BY <2>1 DEF IInv, TypeOK
  <2>3. DatabaseOK'
    BY <2>1, SMTT(30) DEF IInv, DatabaseOK, Clean, Latest
  <2>4. \A t : \A q : SessionOK(t, q) => SessionOK(t, q)'
    BY <2>1 DEF SessionOK, LockOK, MemoryOK, SnapshotOK, QueryOK, DiskOK,
                Clean, SavedOK, Latest, Content, Stored, Rows
  <2> QED
    BY <2>1, <2>2, <2>3, <2>4 DEF IInv
<1>2. CASE Next
  <2>1. CASE \E s \in Procs : Step(s) \/ Lock(s) \/ \E c \in Calls[s] : Start(s, c)
    BY <2>1, StepKeeps
  <2>2. CASE Crash
    BY <2>2, DieKeeps DEF Crash
  <2>3. CASE Open
    BY <2>3, OpenKeeps
  <2> QED
    BY <1>2, <2>1, <2>2, <2>3 DEF Next
<1> QED
  BY <1>1, <1>2

LEMMA Inductive == Spec => []IInv
<1>1. Init => IInv
  BY InitKeeps
<1>2. IInv /\ [Next]_vars => IInv'
  BY NextKeeps
<1> QED
  BY <1>1, <1>2, PTL DEF Spec

----------------------------------------------------------------------------
(* What follows from it. *)

\* What a query says of every document is what is stored of it.
LEMMA AnswersAreRows ==
    ASSUME NEW n, NEW out, out = Rows(n, Stored(n))
    PROVE  Answers(n, out) = {<<n, id, Content(Len(log), Latest.cat, n, id)>> : id \in Ids}
<1> DEFINE f(id) == Content(Len(log), Latest.cat, n, id)
           absent == {j \in Ids : \A a \in out : a[2] # j}
<1>1. out = {<<n, id, f(id)>> : id \in {j \in Ids : f(j) # 0}}
  BY DEF Rows, Stored
<1> HIDE DEF f
<1>2. absent = {j \in Ids : f(j) = 0}
  <2>1. ASSUME NEW j \in absent PROVE f(j) = 0
    <3>1. SUFFICES ASSUME f(j) # 0 PROVE FALSE
      OBVIOUS
    <3>2. <<n, j, f(j)>> \in out
      BY <1>1, <3>1
    <3> QED
      BY <3>2
  <2>2. ASSUME NEW j \in Ids, f(j) = 0 PROVE j \in absent
    <3>1. ASSUME NEW a \in out PROVE a[2] # j
      <4>1. PICK id \in Ids : f(id) # 0 /\ a = <<n, id, f(id)>>
        BY <1>1
      <4> QED
        BY <2>2, <4>1
    <3> QED
      BY <3>1
  <2> QED
    BY <2>1, <2>2
<1>3. Answers(n, out) = out \cup {<<n, id, 0>> : id \in absent}
  BY DEF Answers
<1> HIDE DEF absent
<1>4. Answers(n, out) = {<<n, id, f(id)>> : id \in Ids}
  <2>1. ASSUME NEW a \in Answers(n, out) PROVE a \in {<<n, id, f(id)>> : id \in Ids}
    <3>1. CASE a \in out
      BY <1>1, <3>1
    <3>2. CASE a \notin out
      <4>1. PICK id \in absent : a = <<n, id, 0>>
        BY <1>3, <3>2
      <4>2. id \in Ids /\ f(id) = 0
        BY <1>2, <4>1
      <4> QED
        BY <4>1, <4>2
    <3> QED
      BY <3>1, <3>2
  <2>2. ASSUME NEW id \in Ids PROVE <<n, id, f(id)>> \in Answers(n, out)
    <3>1. CASE f(id) = 0
      <4>1. id \in absent
        BY <1>2, <3>1
      <4> QED
        BY <1>3, <3>1, <4>1
    <3>2. CASE f(id) # 0
      BY <1>1, <1>3, <3>2
    <3> QED
      BY <3>1, <3>2
  <2> QED
    BY <2>1, <2>2
<1> QED
  BY <1>4 DEF f

LEMMA InvariantsFollow ==
    ASSUME IInv
    PROVE  TypeOK /\ SnapshotGets /\ LockedQueriesAreExact /\ PromisesKept
<1>1. IsLog(log) /\ Len(log) \in Nat /\ synced \in 1..Len(log) /\ promised \in Nat
  <2>1. IsLog(log) /\ synced \in 1..Len(log) /\ promised \in Nat
    BY DEF IInv, TypeOK, IsLog
  <2> QED
    BY <2>1, LogAppend
<1>2. \A s \in Procs : ses[s] \in Session /\ SessionOK(s, ses[s])
  BY DEF IInv, TypeOK
<1>3. SnapshotGets
  <2>1. SUFFICES ASSUME NEW s \in Procs
                 PROVE  \E k \in ses[s].began..Len(log) : \A a \in ses[s].gets :
                            a[3] = Content(k, ses[s].view, a[1], a[2])
    BY DEF SnapshotGets
  <2>2. PICK r \in Session : r = ses[s]
    BY <1>2
  <2>3. SnapshotOK(r) /\ r.snap \in Nat /\ r.began \in Nat
    BY <1>2, <2>2, SessionFields DEF SessionOK
  <2>4. CASE r.snap = 0
    <3>1. Len(log) \in r.began..Len(log) /\ r.gets = {}
      BY <1>1, <2>3, <2>4 DEF SnapshotOK
    <3> QED
      BY <2>2, <3>1
  <2>5. CASE r.snap # 0
    <3>1. r.snap \in r.began..Len(log)
      BY <1>1, <2>3, <2>5 DEF SnapshotOK
    <3>2. \A a \in r.gets : a[3] = Content(r.snap, r.view, a[1], a[2])
      BY <2>3, <2>5 DEF SnapshotOK
    <3> QED
      BY <2>2, <3>1, <3>2
  <2> QED
    BY <2>4, <2>5
<1>4. LockedQueriesAreExact
  <2>1. SUFFICES ASSUME ~abandoned, NEW s \in Procs, ses[s].pc = "window" /\ ses[s].back = "idle"
                 PROVE  Answers(ses[s].col, ses[s].out) =
                            {<<ses[s].col, id, Content(Len(log), Latest.cat, ses[s].col, id)>> : id \in Ids}
    BY DEF LockedQueriesAreExact
  <2>2. ses[s].out = Rows(ses[s].col, Stored(ses[s].col))
    BY <1>2, <2>1, Zenon DEF SessionOK, QueryOK
  <2> QED
    BY <2>2, AnswersAreRows
<1>5. PromisesKept
  <2>1. promised <= Len(log)
    BY <1>1 DEF IInv, DatabaseOK
  <2>2. \A s \in Procs : At(s, "copied") => promised <= ses[s].copy
    BY <1>2 DEF At, SessionOK, DiskOK
  <2> QED
    BY <2>1, <2>2 DEF PromisesKept
<1> QED
  BY <1>3, <1>4, <1>5 DEF IInv

\* Every variable keeps its type; no version holds a document of a later one, and
\* what is on disk is what the engine has (tx.go, db.go, storage.go).
THEOREM SessionsTypeCorrect == Spec => []TypeOK
BY Inductive, InvariantsFollow, PTL

\* The Gets of a ReadTx all read one committed version, no older than the call,
\* whatever other goroutines, or its own function, commit meanwhile (ReadTx, Tx.Get).
THEOREM ReadTxGetsAreStable == Spec => []SnapshotGets
BY Inductive, InvariantsFollow, PTL

\* As long as no call has failed and left its changes in memory since Open
\* (Put, RenameCollection and RemoveCollection after an error of the engine), a
\* query under the read lock returns the documents stored when it returns: nothing
\* it read on the way can have changed, and no writer, a WriteTx that was rolled
\* back included, has left anything behind (DB.Exec, ListQuery, Count, commitLocked).
THEOREM QueriesUnderTheLockAreExact == Spec => []LockedQueriesAreExact
BY Inductive, InvariantsFollow, PTL

\* What AutoSync, ForceSync, Close or Backup said is on disk survives every crash.
THEOREM DurabilityPromisesKept == Spec => []PromisesKept
BY Inductive, InvariantsFollow, PTL

\* db.mu excludes: while a goroutine holds the write lock nobody else is inside
\* Lock and nobody reads under RLock, also across crashes and reopenings.
WritersAreAlone ==
    \A s, t \in Procs : s # t /\ Holding(ses[s]) => ~Owning(ses[t]) /\ ~Reading(ses[t])

\* Nobody is inside db.mu beside a goroutine that holds its write lock (sync.RWMutex,
\* as DB's methods take and release it).
THEOREM MutualExclusion == Spec => []WritersAreAlone
<1>1. IInv => WritersAreAlone
  BY OneOwner DEF WritersAreAlone, Holding, Owning
<1> QED
  BY <1>1, Inductive, PTL

\* What a step does to the engine's versions.
LEMMA EngineSteps ==
    ASSUME IInv, [Next]_vars
    PROVE  \/ log' = log \/ \E v : log' = Append(log, v)
           \/ \E k \in synced..Len(log) : log' = SubSeq(log, 1, k)
<1>1. CASE UNCHANGED vars
  BY <1>1 DEF vars, durable
<1>2. ASSUME NEW s \in Procs, Step(s) \/ Lock(s) \/ \E c \in Calls[s] : Start(s, c)
      PROVE  \/ log' = log \/ \E v : log' = Append(log, v)
             \/ \E k \in synced..Len(log) : log' = SubSeq(log, 1, k)
  <2>1. CASE Commit(s)
    BY <2>1 DEF Commit, CommitBatch
  <2>2. ASSUME NEW n \in Names, RemoveCollection(s, n) PROVE log' = log \/ \E v : log' = Append(log, v)
    <3>1. CASE state.dbid[n] = 0
      BY <2>2, <3>1 DEF RemoveCollection
    <3>2. CASE state.dbid[n] # 0
      BY <2>2, <3>2, Zenon DEF RemoveCollection, CommitBatch
    <3> QED
      BY <3>1, <3>2
  <2>3. CASE \/ CommitFails(s)
             \/ \E n \in Names : RemoveCollectionFails(s, n)
             \/ \E n, m \in Names : RenameCollection(s, n, m)
    BY <2>3, Zenon DEF CommitFails, RemoveCollectionFails, RenameCollection, durable
  <2>4. CASE Panic(s)
    BY <2>4 DEF Panic, Die
  <2>5. CASE \/ RLock(s) \/ Lock(s) \/ LockDrained(s) \/ ErrClosed(s) \/ ReadTx(s) \/ NewSnapshot(s)
             \/ NestedPut(s) \/ TxQuery(s) \/ ReadTxReturn(s) \/ \E c \in Calls[s] : Start(s, c)
             \/ \E n \in Names, id \in Ids : TxGet(s, n, id)
    BY <2>5, Zenon DEF RLock, Lock, LockDrained, ErrClosed, ReadTx, NewSnapshot, NestedPut, TxQuery,
       ReadTxReturn, Start, TxGet, durable
  <2>6. CASE \/ Query(s) \/ ScanEngine(s) \/ ScanPending(s) \/ QueryDoc(s) \/ QueryScanned(s)
             \/ TxQueryReturn(s) \/ QueryReturn(s)
             \/ \E n \in Names : QueryReader(s, n)
             \/ \E step \in Steps : Visit(s, step) \/ VisitEnd(s, step)
    BY <2>6, Zenon DEF Query, ScanEngine, ScanPending, QueryDoc, QueryScanned, TxQueryReturn, QueryReturn,
       QueryReader, Visit, VisitEnd, durable
  <2>7. CASE \/ WriteTx(s) \/ TxCommit(s) \/ TxAbort(s) \/ Done(s) \/ ForceSync(s) \/ Close(s)
             \/ BackupRemove(s) \/ Checkpoint(s) \/ BackupReturn(s)
             \/ \E n \in Names, id \in Ids : Put(s, n, id) \/ TxPut(s, n, id) \/ TxDelete(s, n, id)
    BY <2>7, Zenon DEF WriteTx, TxCommit, TxAbort, Done, ForceSync, Close, BackupRemove, Checkpoint,
       BackupReturn, Put, TxPut, TxDelete, durable
  <2> QED
    BY <1>2, <2>1, <2>2, <2>3, <2>4, <2>5, <2>6, <2>7, Zenon DEF Step
<1>3. CASE Crash
  BY <1>3 DEF Crash, Die
<1>4. CASE Open
  BY <1>4 DEF Open
<1> QED
  BY <1>1, <1>2, <1>3, <1>4, Zenon DEF Next

\* A promise is about versions the engine has, and only Done makes one.
LEMMA PromiseSteps ==
    ASSUME IInv, [Next]_vars
    PROVE  promised' = promised \/ promised' = Len(log)
<1>1. CASE UNCHANGED vars
  BY <1>1 DEF vars
<1>2. ASSUME NEW s \in Procs, Step(s) \/ Lock(s) \/ \E c \in Calls[s] : Start(s, c)
      PROVE  promised' = promised \/ promised' = Len(log)
  <2>1. CASE Done(s)
    BY <2>1 DEF Done
  <2>2. CASE \/ RLock(s) \/ Lock(s) \/ LockDrained(s) \/ ErrClosed(s) \/ ReadTx(s) \/ NewSnapshot(s)
             \/ NestedPut(s) \/ TxQuery(s) \/ ReadTxReturn(s) \/ \E c \in Calls[s] : Start(s, c)
             \/ \E n \in Names, id \in Ids : TxGet(s, n, id)
    BY <2>2, Zenon DEF RLock, Lock, LockDrained, ErrClosed, ReadTx, NewSnapshot, NestedPut, TxQuery,
       ReadTxReturn, Start, TxGet
  <2>3. CASE \/ Query(s) \/ ScanEngine(s) \/ ScanPending(s) \/ QueryDoc(s) \/ QueryScanned(s)
             \/ TxQueryReturn(s) \/ QueryReturn(s)
             \/ \E n \in Names : QueryReader(s, n)
             \/ \E step \in Steps : Visit(s, step) \/ VisitEnd(s, step)
    BY <2>3, Zenon DEF Query, ScanEngine, ScanPending, QueryDoc, QueryScanned, TxQueryReturn, QueryReturn,
       QueryReader, Visit, VisitEnd
  <2>4. CASE \/ WriteTx(s) \/ TxCommit(s) \/ TxAbort(s) \/ ForceSync(s) \/ Close(s)
             \/ Commit(s) \/ CommitFails(s)
             \/ BackupRemove(s) \/ Checkpoint(s) \/ BackupReturn(s) \/ Panic(s)
             \/ \E n \in Names, id \in Ids : Put(s, n, id) \/ TxPut(s, n, id) \/ TxDelete(s, n, id)
             \/ \E n \in Names : RemoveCollection(s, n) \/ RemoveCollectionFails(s, n)
             \/ \E n, m \in Names : RenameCollection(s, n, m)
    BY <2>4, Zenon DEF WriteTx, TxCommit, TxAbort, ForceSync, Close, Commit, CommitFails, BackupRemove,
       Checkpoint, BackupReturn, Panic, Die, Put, TxPut, TxDelete, RemoveCollection,
       RemoveCollectionFails, RenameCollection
  <2> QED
    BY <1>2, <2>1, <2>2, <2>3, <2>4, Zenon DEF Step
<1>3. CASE Crash
  BY <1>3 DEF Crash, Die
<1>4. CASE Open
  BY <1>4 DEF Open
<1> QED
  BY <1>1, <1>2, <1>3, <1>4, Zenon DEF Next

\* No step takes back a promise or touches a version it covers: batches add
\* versions, and the end of the process cuts only what was not written out.
THEOREM PromisedVersionsAreKept == Spec => PromisedVersionsStay
<1> DEFINE A == /\ promised <= promised'
                /\ \A k \in 1..promised : k \in DOMAIN log' /\ log'[k] = log[k]
<1>1. IInv /\ [Next]_vars => A
  <2>1. SUFFICES ASSUME IInv, [Next]_vars PROVE A
    OBVIOUS
  <2>2. /\ IsLog(log) /\ synced \in 1..Len(log) /\ promised \in Nat /\ promised <= synced
    BY <2>1 DEF IInv, TypeOK, DatabaseOK, IsLog
  <2>3. Len(log) \in Nat /\ DOMAIN log = 1..Len(log)
    BY <2>2, LogAppend
  <2>4. promised <= promised'
    BY <2>1, <2>2, <2>3, PromiseSteps
  <2>5. ASSUME NEW k \in 1..promised PROVE k \in DOMAIN log' /\ log'[k] = log[k]
    <3>1. k \in 1..synced /\ k \in 1..Len(log)
      BY <2>2, <2>3
    <3>2. CASE log' = log
      BY <2>3, <3>1, <3>2
    <3>3. ASSUME NEW v, log' = Append(log, v) PROVE k \in DOMAIN log' /\ log'[k] = log[k]
      <4>1. DOMAIN log' = 1..(Len(log) + 1) /\ \A j \in 1..Len(log) : log'[j] = log[j]
        BY <2>2, <3>3, LogAppend
      <4> QED
        BY <2>3, <3>1, <4>1
    <3>4. ASSUME NEW m \in synced..Len(log), log' = SubSeq(log, 1, m)
          PROVE  k \in DOMAIN log' /\ log'[k] = log[k]
      <4>1. m \in 1..Len(log) /\ k \in 1..m
        BY <2>2, <2>3, <3>1
      <4>2. DOMAIN log' = 1..m /\ \A j \in 1..m : log'[j] = log[j]
        BY <2>2, <3>4, <4>1, LogCut
      <4> QED
        BY <4>1, <4>2
    <3> QED
      BY <2>1, <3>2, <3>3, <3>4, EngineSteps
  <2> QED
    BY <2>4, <2>5
<1>2. IInv /\ [Next]_vars => [A]_vars
  BY <1>1
<1> QED
  BY <1>2, Inductive, PTL DEF Spec, PromisedVersionsStay
=============================================================================
