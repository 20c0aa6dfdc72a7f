------------------------------ MODULE TxStore ------------------------------
(***************************************************************************)
(* What the database promises about documents (README.md: "Atomic commits   *)
(* through Pebble batches", "WriteTx buffers uncommitted mutations in       *)
(* memory until commit"): every call or transaction works on its own view,  *)
(* one document or one collection at a time; the stored contents change     *)
(* only by becoming that view, all at once, when the call or transaction    *)
(* ends; and a transaction that does not end well leaves no trace.          *)
(***************************************************************************)
CONSTANTS Names, Ids, MaybeDocs, NoDoc

VARIABLES
    committed,  \* the stored contents
    working,    \* the contents the running call or transaction sees
    busy        \* a transaction or a call of several steps is running

Empty == [id \in Ids |-> NoDoc]

Init ==
    /\ committed = [n \in Names |-> Empty]
    /\ working = committed
    /\ busy = FALSE

\* One document changes, one collection goes, or one takes an unused name.
Write(n, id, d) == working' = [working EXCEPT ![n][id] = d]
Drop(n) == working' = [working EXCEPT ![n] = Empty]
Rename(n, m) ==
    /\ working[m] = Empty
    /\ working' = [working EXCEPT ![m] = working[n], ![n] = Empty]

Change ==
    \E n \in Names :
        \/ \E id \in Ids, d \in MaybeDocs : Write(n, id, d)
        \/ Drop(n)
        \/ \E m \in Names \ {n} : Rename(n, m)

\* A call of one step changes its view and publishes it.
AutoCommit == ~busy /\ Change /\ committed' = working' /\ busy' = FALSE

Begin == ~busy /\ busy' = TRUE /\ UNCHANGED <<committed, working>>
Buffer == busy /\ Change /\ UNCHANGED <<committed, busy>>
Commit == busy /\ committed' = working /\ busy' = FALSE /\ UNCHANGED working

\* Rollback, or the end of the process.
Abort == working' = committed /\ busy' = FALSE /\ UNCHANGED committed

Next == AutoCommit \/ Begin \/ Buffer \/ Commit \/ Abort

Spec == Init /\ [][Next]_<<committed, working, busy>>
=============================================================================
