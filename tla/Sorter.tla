------------------------------- MODULE Sorter -------------------------------
(***************************************************************************)
(* Ordered query results (db.go, runQueryLocked): the sorter, which buffers *)
(* the matching documents, spills them to a temporary file past             *)
(* SortBufferSize and reads back those of the result window, and the plan   *)
(* that streams an index in its order instead.                              *)
(*                                                                          *)
(* A document's body is its id, repeated for each of its bytes.  How two    *)
(* values compare and what an index scan yields are parameters: JQValue and *)
(* IndexOrder model them.                                                   *)
(* The sorter's candidates are those of a full scan; QueryPlan has the ones *)
(* that an index of the filter gives.                                       *)
(***************************************************************************)
EXTENDS Integers, Sequences, FiniteSetsExt

CONSTANTS
    Ids,            \* documents of the collection
    Bytes,          \* Bytes[id]: length of the stored document
    SortBufferSize,
    MaxInt,         \* the largest int
    Queries,        \* [plan, descs, family]: an index kind or "sorter", the
                    \* direction of each ORDERBY path, the values found there
    CompareValues(_, _),    \* genericCmp
    ScanIndex(_, _, _)      \* scanIndexCandidateIDsFunc: by kind, values and direction

CONSTANTS Skips, Limits, Matches

ASSUME IdsAssumption ==
    Ids \subseteq Nat /\ IsFiniteSet(Ids) /\ Bytes \in [Ids -> Nat \ {0}] /\ Matches \subseteq SUBSET Ids

\* resolveIntOption and the parser take no negative number; -1 is no limit.
ASSUME WindowAssumption ==
    SortBufferSize \in Nat /\ MaxInt \in Nat /\ Skips \subseteq 0..MaxInt /\ Limits \subseteq -1..MaxInt

Values(q) == [Ids -> [DOMAIN q.descs -> q.family]]

ASSUME ScanAssumption ==
    \A q \in Queries : q.plan # "sorter" =>
        \A values \in Values(q) : ScanIndex(q.plan, values, q.descs[1]) \in Seq(Ids)

VARIABLES
    query,      \* the query, its window, its candidates and those its filter matches
    at,         \* the next candidate
    matched,    \* matchedDocs
    buffered,   \* bufferedSortBytes
    spilling,   \* the document spillMatchedDocs has come to, 0 outside it
    file,       \* the spill file
    skipped,    \* documents the streaming plan has passed over for skip
    pc,         \* where runQueryLocked is
    out         \* the documents it returns

vars == <<query, at, matched, buffered, spilling, file, skipped, pc, out>>

Raw(id) == [i \in 1..Bytes[id] |-> id]

matchedDoc(id) == [id |-> id, raw |-> Raw(id), off |-> 0, size |-> 0]

----------------------------------------------------------------------------
\* The less function handed to sort.Slice.

less(x, y) ==
    LET cmps == [i \in DOMAIN query.descs |-> CompareValues(query.values[x][i], query.values[y][i])]
        decisive == {i \in DOMAIN cmps : cmps[i] # 0}
        i == Min(decisive)
    IN  IF decisive # {} THEN IF query.descs[i] THEN cmps[i] > 0 ELSE cmps[i] < 0
        ELSE IF query.descs[1] THEN x > y ELSE x < y

IsOrder(S) ==
    /\ \A x \in S : ~less(x, x)
    /\ \A x, y \in S : x # y => less(x, y) \/ less(y, x)
    /\ \A x, y, z \in S : less(x, y) /\ less(y, z) => less(x, z)

\* sort.Slice permutes, and promises nothing more unless less is an order.
SortSlice(docs) ==
    {s \in {[i \in DOMAIN docs |-> docs[p[i]]] : p \in Bijection(DOMAIN docs, DOMAIN docs)} :
        IsOrder({docs[i].id : i \in DOMAIN docs}) =>
            \A i, j \in DOMAIN s : i < j => less(s[i].id, s[j].id)}

----------------------------------------------------------------------------
\* Each document once: by key, and those that are only buffered after them as they
\* were put, which may be any order.
scanDocumentIDs == Bijection(1..Cardinality(Ids), Ids)

Candidates(q, values) ==
    IF q.plan = "sorter" THEN scanDocumentIDs ELSE {ScanIndex(q.plan, values, q.descs[1])}

Init ==
    /\ \E q \in Queries, skip \in Skips, limit \in Limits, matches \in Matches :
         \E values \in Values(q) : \E ids \in Candidates(q, values) :
            /\ query = [plan |-> q.plan, descs |-> q.descs, skip |-> skip, limit |-> limit,
                        matches |-> matches, values |-> values, ids |-> ids]
            /\ pc = IF q.plan = "sorter" THEN "collect" ELSE "stream"
    /\ at = 1
    /\ matched = <<>>
    /\ buffered = 0
    /\ spilling = 0
    /\ file = <<>>
    /\ skipped = 0
    /\ out = <<>>

\* Sensitivity variant: the document itself is not counted.
bytesWithoutCurrent(id) == buffered

\* bufferedSortBytes once the document is added.
bytesWith(id) == buffered + Bytes[id]

\* addMatchedDoc up to the spill.
Collect ==
    /\ pc = "collect" /\ spilling = 0
    /\ at <= Len(query.ids)
    /\ LET id == query.ids[at]
       IN  \/ /\ id \notin query.matches
              /\ UNCHANGED <<matched, buffered, spilling>>
           \/ /\ id \in query.matches
              /\ matched' = Append(matched, matchedDoc(id))
              /\ buffered' = bytesWith(id)
              /\ spilling' = IF bytesWith(id) > SortBufferSize THEN 1 ELSE 0
    /\ at' = at + 1
    /\ UNCHANGED <<query, file, skipped, pc, out>>

----------------------------------------------------------------------------
\* The spill file.

\* Sensitivity variant: the position is not kept.
spillOffsetStale(f) == 0

\* sortSpill.write starts at s.pos, the bytes written so far.
spillOffset(f) == Len(f)

InMemory(d) == d.raw # <<>> /\ d.size = 0

\* spillMatchedDocs goes through all documents and leaves out those spilled before.
SpillStep ==
    /\ pc = "collect" /\ spilling \in DOMAIN matched
    /\ LET d == matched[spilling]
       IN  \/ ~InMemory(d) /\ UNCHANGED <<matched, file>>
           \/ /\ InMemory(d)
              /\ matched' = [matched EXCEPT ![spilling] =
                    [id |-> d.id, raw |-> <<>>, off |-> spillOffset(file), size |-> Len(d.raw)]]
              /\ file' = file \o d.raw
    /\ spilling' = spilling + 1
    /\ UNCHANGED <<query, at, buffered, skipped, pc, out>>

SpillEnd ==
    /\ pc = "collect" /\ spilling > Len(matched)
    /\ spilling' = 0
    /\ buffered' = 0
    /\ UNCHANGED <<query, at, matched, file, skipped, pc, out>>

\* hydrateMatchedDocs on the window.
hydrate(d) == IF d.raw = <<>> /\ d.size > 0 THEN SubSeq(file, d.off + 1, d.off + d.size) ELSE d.raw

----------------------------------------------------------------------------
Sort ==
    /\ pc = "collect" /\ spilling = 0
    /\ at > Len(query.ids)
    /\ matched' \in SortSlice(matched)
    /\ pc' = "sorted"
    /\ UNCHANGED <<query, at, buffered, spilling, file, skipped, out>>

\* Sensitivity variant: skip is not cut at the number of documents.
WindowStartUncut == query.skip

WindowStart == IF query.skip > Len(matched) THEN Len(matched) ELSE query.skip

\* start+limit is an int and may wrap around to a negative number.
WindowEnd ==
    LET sum == WindowStart + query.limit
        wrapped == IF sum > MaxInt THEN sum - 2 * (MaxInt + 1) ELSE sum
    IN  IF query.limit >= 0 /\ wrapped < Len(matched) THEN wrapped ELSE Len(matched)

Window == SubSeq(matched, WindowStart + 1, WindowEnd)

\* matchedDocs[start:end] with end before start.
Panic ==
    /\ pc = "sorted"
    /\ WindowEnd < WindowStart
    /\ pc' = "panicked"
    /\ UNCHANGED <<query, at, matched, buffered, spilling, file, skipped, out>>

Return ==
    /\ pc = "sorted"
    /\ WindowEnd >= WindowStart
    /\ out' = [i \in DOMAIN Window |-> [id |-> Window[i].id, raw |-> hydrate(Window[i])]]
    /\ pc' = "done"
    /\ UNCHANGED <<query, at, matched, buffered, spilling, file, skipped>>

\* The temporary file cannot be made, written or read: the query returns an error.
Fail ==
    /\ \/ pc = "collect" /\ spilling \in DOMAIN matched /\ InMemory(matched[spilling])
       \/ pc = "sorted" /\ \E i \in DOMAIN Window : Window[i].size > 0
    /\ pc' = "failed"
    /\ UNCHANGED <<query, at, matched, buffered, spilling, file, skipped, out>>

\* The streamed window: skip passes over matching documents, limit stops the scan.
StreamStep ==
    /\ pc = "stream"
    /\ at <= Len(query.ids)
    /\ Len(matched) # query.limit
    /\ LET id == query.ids[at]
       IN  \/ /\ id \notin query.matches
              /\ UNCHANGED <<matched, skipped>>
           \/ /\ id \in query.matches
              /\ skipped < query.skip
              /\ skipped' = skipped + 1
              /\ UNCHANGED matched
           \/ /\ id \in query.matches
              /\ skipped >= query.skip
              /\ matched' = Append(matched, matchedDoc(id))
              /\ UNCHANGED skipped
    /\ at' = at + 1
    /\ UNCHANGED <<query, buffered, spilling, file, pc, out>>

StreamEnd ==
    /\ pc = "stream"
    /\ at > Len(query.ids) \/ Len(matched) = query.limit
    /\ out' = [i \in DOMAIN matched |-> [id |-> matched[i].id, raw |-> matched[i].raw]]
    /\ pc' = "done"
    /\ UNCHANGED <<query, at, matched, buffered, spilling, file, skipped>>

Next ==
    \/ Collect \/ SpillStep \/ SpillEnd
    \/ Sort \/ Return \/ Panic \/ Fail
    \/ StreamStep \/ StreamEnd

Spec == Init /\ [][Next]_vars

----------------------------------------------------------------------------
\* The bytes of the collected documents that are in memory.
BytesHeld == UNION {{i} \X (1..Len(matched[i].raw)) : i \in DOMAIN matched}

\* Whenever another document is collected, and when the sort begins, those held in
\* memory fit SortBufferSize (addMatchedDoc, spillMatchedDocs; README.md:42, "sorter
\* input spills to a temporary file after Options.SortBufferSize bytes").
MemoryBounded == pc = "collect" /\ spilling = 0 => Cardinality(BytesHeld) <= SortBufferSize

\* The slice of the window is out of its bounds only when skip and limit add up to
\* more than the largest int, however many documents there are (runQueryLocked).
PanicsOnlyOnOverflow == pc = "panicked" => query.limit >= 0 /\ query.skip + query.limit > MaxInt

\* The candidates of a streamed plan: all that match, in the order asked for.
ScanInOrder ==
    /\ \A id \in query.matches : \E i \in DOMAIN query.ids : query.ids[i] = id
    /\ \A i, j \in DOMAIN query.ids : i < j => less(query.ids[i], query.ids[j])

\* The position of a matching document in the full result.
Position(id) == Cardinality({x \in query.matches : less(x, id)}) + 1

InWindow(p) == query.skip < p /\ (query.limit >= 0 => p <= query.skip + query.limit)

\* The result of an ordered query: the matching documents whose position lies
\* in the window, each at its place and with its own bytes, whether or not it
\* was spilled and whether it was sorted or streamed from an index
\* (runQueryLocked; sortSpill; the two treatments of skip and limit).
WindowIsRight ==
    pc = "done" /\ IsOrder(Ids) /\ (query.plan # "sorter" => ScanInOrder) =>
        /\ {out[i].id : i \in DOMAIN out} = {id \in query.matches : InWindow(Position(id))}
        /\ \A i \in DOMAIN out : Position(out[i].id) = query.skip + i /\ out[i].raw = Raw(out[i].id)
=============================================================================
