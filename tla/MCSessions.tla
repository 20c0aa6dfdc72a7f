----------------------------- MODULE MCSessions -----------------------------
(***************************************************************************)
(* Instances of Sessions for TLC.                                           *)
(***************************************************************************)
EXTENDS Sessions

CONSTANTS r1, w1

\* Who calls what: one reads, and writes from inside a ReadTx, the other writes.
MCCalls == [s \in Procs |-> IF s = r1 THEN ReadCalls ELSE WriteCalls \ {"Put"}]

MCSteps == {-1, 0, 1}
=============================================================================
