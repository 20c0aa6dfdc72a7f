------------------------------- MODULE MCEJDB -------------------------------
(***************************************************************************)
(* Instances of EJDB for TLC, and the claims of the documentation that the  *)
(* violation runs refute.                                                   *)
(***************************************************************************)
EXTENDS EJDB, TLC

CONSTANTS n1, n2, p1, k1, k2, one, two, both, bare

\* Documents by what they contribute to the index on p1: one value,
\* another, or both (an array); `bare`, a root that is no object, has none.
MCValues ==
    [d \in Docs |-> [p \in Paths |->
        IF d = one THEN {k1} ELSE IF d = two THEN {k2} ELSE IF d = both THEN {k1, k2} ELSE {}]]

\* Collection names are interchangeable.
NameSymmetry == Permutations(Names)

\* Where every fault is tolerated no step depends on the history, and states
\* that differ in it only need not be told apart.
ProgramState == <<engine, memory, control>>

----------------------------------------------------------------------------
\* Claims of the documentation that the code does not keep.

\* README.md:39, "Atomic commits through Pebble batches": a WriteTx whose commit
\* succeeds publishes what it buffered (commitLocked, persistFullLocked).
CommitPublishesView == [][TxCommit /\ up' => ContentsOf(meta)' = View]_vars

\* README.md:23, "Pebble is the source of truth for document bodies": while
\* nothing runs, a query sees the stored documents and no others
\* (runQueryLocked's error returns, db.pending).
StoreIsSourceOfTruth == AtRest => View = ContentsOf(cat)

\* README.md:14, "idx/<index-dbid>/...": an index's dbid, and so its key range,
\* is its own, also after a crash (EnsureIndex's two batches).
IndexRangeIsOwn ==
    \A n, m \in Names : \A p \in Indexed(cat, n), q \in Indexed(cat, m) :
        cat.cols[n].ix[p].dbid = cat.cols[m].ix[q].dbid => n = m /\ p = q
=============================================================================
