---------------------------- MODULE Sorter_proofs ----------------------------
(***************************************************************************)
(* Ordered results: the buffer of the sorter stays within its size, and a   *)
(* query returns the documents of its window, each at its place and with    *)
(* its own bytes, for every comparison of values that is an order.          *)
(***************************************************************************)
EXTENDS Sorter, FiniteSetTheorems, TLAPS

----------------------------------------------------------------------------
(* The inductive invariant. *)

MatchedDocs == [id : Ids, raw : Seq(Ids), off : Nat, size : Nat]

QueryOK ==
    /\ query.matches \in SUBSET Ids /\ query.ids \in Seq(Ids)
    /\ query.skip \in 0..MaxInt /\ query.limit \in -1..MaxInt
    /\ query.plan = "sorter" => query.ids \in scanDocumentIDs

StateOK ==
    /\ at \in 1..(Len(query.ids) + 1) /\ matched \in Seq(MatchedDocs) /\ file \in Seq(Ids)
    /\ buffered \in Nat /\ spilling \in Nat /\ skipped \in Nat
    /\ pc \in {"collect", "sorted"} => query.plan = "sorter"
    /\ pc = "stream" => query.plan # "sorter"

\* A document has its bytes in memory, or in the file where it says.
Own(d, stored) ==
    \/ d.raw = Raw(d.id) /\ d.size = 0
    \/ /\ d.raw = <<>> /\ d.size = Bytes[d.id] /\ d.off + d.size <= Len(stored)
       /\ \A k \in 1..d.size : stored[d.off + k] = d.id

DocsOK == \A i \in DOMAIN matched : matched[i].id \in query.matches /\ Own(matched[i], file)

\* bufferedSortBytes counts the bytes in memory, and a spill leaves none.
MemoryOK == pc = "collect" =>
    /\ spilling = 0 => /\ IsFiniteSet(BytesHeld) /\ Cardinality(BytesHeld) = buffered
                       /\ buffered <= SortBufferSize
    /\ \A i \in DOMAIN matched : i < spilling => matched[i].raw = <<>>

Distinct(docs) == \A i, j \in DOMAIN docs : docs[i].id = docs[j].id => i = j

\* The matching documents among the first n candidates.
Hits(n) == {k \in 1..n : query.ids[k] \in query.matches}

CollectOK == pc = "collect" =>
    /\ Distinct(matched)
    /\ \A i \in DOMAIN matched : \E k \in 1..(at - 1) : query.ids[k] = matched[i].id
    /\ \A k \in Hits(at - 1) : \E i \in DOMAIN matched : matched[i].id = query.ids[k]

InOrder(docs) == \A i, j \in DOMAIN docs : i < j => less(docs[i].id, docs[j].id)

SortedOK == pc = "sorted" =>
    /\ Distinct(matched)
    /\ \A id \in query.matches : \E i \in DOMAIN matched : matched[i].id = id
    /\ IsOrder(Ids) => InOrder(matched)

\* What is streamed: each match passed is before the window or at its place in it.
StreamOK == pc = "stream" =>
    /\ \A i \in DOMAIN matched : matched[i].raw = Raw(matched[i].id)
    /\ skipped <= query.skip /\ (matched # <<>> => skipped = query.skip)
    /\ query.limit >= 0 => Len(matched) <= query.limit
    /\ IsOrder(Ids) /\ ScanInOrder =>
          /\ Cardinality(Hits(at - 1)) = skipped + Len(matched)
          /\ \A i \in DOMAIN matched : Position(matched[i].id) = query.skip + i
          /\ \A k \in Hits(at - 1) :
                \/ Position(query.ids[k]) <= query.skip
                \/ \E i \in DOMAIN matched : matched[i].id = query.ids[k]

SInv ==
    QueryOK /\ StateOK /\ DocsOK /\ MemoryOK /\ CollectOK /\ SortedOK /\ StreamOK /\ WindowIsRight

----------------------------------------------------------------------------
(* Facts about the parts of a query. *)

LEMMA RawType ==
    ASSUME NEW id \in Ids
    PROVE  /\ Bytes[id] \in Nat /\ Bytes[id] > 0
           /\ Raw(id) \in Seq(Ids) /\ Len(Raw(id)) = Bytes[id] /\ Raw(id) # <<>>
<1>1. Bytes[id] \in Nat /\ Bytes[id] > 0
  BY IdsAssumption
<1>2. Raw(id) \in Seq(Ids) /\ Len(Raw(id)) = Bytes[id]
  BY <1>1 DEF Raw
<1> QED
  BY <1>1, <1>2

\* Order and window are of the query alone.
LEMMA SameQuery ==
    ASSUME query' = query
    PROVE  /\ \A x, y : less(x, y)' = less(x, y)
           /\ IsOrder(Ids)' = IsOrder(Ids) /\ ScanInOrder' = ScanInOrder
           /\ \A id : Position(id)' = Position(id)
           /\ \A p : InWindow(p)' = InWindow(p)
           /\ \A n : Hits(n)' = Hits(n)
<1>1. \A x, y : less(x, y)' = less(x, y)
  BY DEF less
<1>2. IsOrder(Ids)' = IsOrder(Ids)
  BY DEF IsOrder, less
<1>3. ScanInOrder' = ScanInOrder
  BY DEF ScanInOrder, less
<1>4. \A id : Position(id)' = Position(id)
  BY DEF Position, less
<1>5. \A p : InWindow(p)' = InWindow(p)
  BY DEF InWindow
<1>6. \A n : Hits(n)' = Hits(n)
  BY DEF Hits
<1> QED
  BY <1>1, <1>2, <1>3, <1>4, <1>5, <1>6

\* In a list in order, with all matches, a document comes after the matches before it.
LEMMA Positions ==
    ASSUME IsOrder(Ids), query.matches \in SUBSET Ids, NEW n \in Nat, NEW s \in [1..n -> Ids],
           \A i, j \in 1..n : i < j => less(s[i], s[j]),
           \A id \in query.matches : \E i \in 1..n : s[i] = id,
           NEW j \in 1..n
    PROVE  Position(s[j]) = Cardinality({k \in 1..(j - 1) : s[k] \in query.matches}) + 1
<1> DEFINE A == {k \in 1..(j - 1) : s[k] \in query.matches}
           B == {x \in query.matches : less(x, s[j])}
           f == [k \in A |-> s[k]]
<1>1. \A k \in A : k \in 1..n /\ k < j
  OBVIOUS
<1>2. \A x \in Ids : ~less(x, x)
  BY DEF IsOrder
<1>3. \A x, y, z \in Ids : less(x, y) /\ less(y, z) => less(x, z)
  BY DEF IsOrder
<1>4. \A i, k \in 1..n : s[i] = s[k] => i = k
  BY <1>2
<1>5. \A k \in A : s[k] \in B
  BY <1>1
<1>6. ASSUME NEW x \in B PROVE \E k \in A : s[k] = x
  <2>1. PICK i \in 1..n : s[i] = x
    BY <1>6
  <2>2. i # j /\ ~(j < i)
    <3>1. s[i] \in Ids /\ s[j] \in Ids /\ less(s[i], s[j])
      BY <1>6, <2>1
    <3>2. ~less(s[j], s[i])
      BY <1>2, <1>3, <3>1
    <3> QED
      BY <1>2, <3>1, <3>2
  <2> QED
    BY <1>6, <2>1, <2>2
<1>7. f \in Bijection(A, B)
  <2>1. f \in [A -> B]
    BY <1>5
  <2>2. \A a, b \in A : f[a] = f[b] => a = b
    BY <1>1, <1>4
  <2>3. \A t \in B : \E a \in A : f[a] = t
    BY <1>6
  <2> HIDE DEF A, B, f
  <2> QED
    BY <2>1, <2>2, <2>3 DEF Bijection, Injection, Surjection, IsInjective
<1>8. IsFiniteSet(A)
  <2>1. A \in SUBSET (1..(j - 1)) /\ IsFiniteSet(1..(j - 1))
    BY FS_Interval
  <2> QED
    BY <2>1, FS_Subset
<1> HIDE DEF A, B, f
<1>9. Cardinality(B) = Cardinality(A)
  BY <1>7, <1>8, FS_Bijection DEF ExistsBijection
<1> QED
  BY <1>9 DEF A, B, Position

\* One more candidate.
LEMMA NextHit ==
    ASSUME QueryOK, NEW n \in Nat, n + 1 <= Len(query.ids)
    PROVE  /\ Cardinality(Hits(n)) \in Nat
           /\ query.ids[n + 1] \in query.matches =>
                 Hits(n + 1) = Hits(n) \cup {n + 1} /\ Cardinality(Hits(n + 1)) = Cardinality(Hits(n)) + 1
           /\ query.ids[n + 1] \notin query.matches => Hits(n + 1) = Hits(n)
<1>1. Hits(n) \in SUBSET (1..n) /\ IsFiniteSet(1..n)
  BY FS_Interval DEF Hits
<1>2. IsFiniteSet(Hits(n)) /\ Cardinality(Hits(n)) \in Nat
  BY <1>1, FS_Subset, FS_CardinalityType
<1>3. n + 1 \notin Hits(n)
  BY <1>1
<1>4. query.ids[n + 1] \in query.matches => Hits(n + 1) = Hits(n) \cup {n + 1}
  BY DEF Hits
<1>5. query.ids[n + 1] \notin query.matches => Hits(n + 1) = Hits(n)
  BY DEF Hits
<1> QED
  BY <1>2, <1>3, <1>4, <1>5, FS_AddElement

\* A candidate is one document, and a full scan has each of them once.
LEMMA CandidateType ==
    ASSUME QueryOK
    PROVE  /\ Len(query.ids) \in Nat /\ query.ids \in [1..Len(query.ids) -> Ids]
           /\ query.plan = "sorter" =>
                 /\ \A i, j \in 1..Len(query.ids) : query.ids[i] = query.ids[j] => i = j
                 /\ \A id \in Ids : \E i \in 1..Len(query.ids) : query.ids[i] = id
<1>1. Len(query.ids) \in Nat /\ query.ids \in [1..Len(query.ids) -> Ids]
  BY DEF QueryOK
<1>2. ASSUME query.plan = "sorter"
      PROVE  /\ \A i, j \in 1..Len(query.ids) : query.ids[i] = query.ids[j] => i = j
             /\ \A id \in Ids : \E i \in 1..Len(query.ids) : query.ids[i] = id
  <2>1. PICK n : query.ids \in Bijection(1..n, Ids)
    BY <1>2 DEF QueryOK, scanDocumentIDs
  <2>2. query.ids \in [1..n -> Ids]
    BY <2>1 DEF Bijection, Injection
  <2>3. 1..n = 1..Len(query.ids)
    BY <1>1, <2>2
  <2> QED
    BY <2>1, <2>3 DEF Bijection, Injection, Surjection, IsInjective
<1> QED
  BY <1>1, <1>2

\* The file only grows.
LEMMA OwnGrows ==
    ASSUME NEW d \in MatchedDocs, NEW stored \in Seq(Ids), NEW more \in Seq(Ids), Own(d, stored)
    PROVE  Own(d, stored \o more)
<1>1. d.off \in Nat /\ d.size \in Nat
  BY DEF MatchedDocs
<1>2. /\ Len(stored) \in Nat /\ Len(stored \o more) >= Len(stored)
      /\ \A k \in 1..Len(stored) : (stored \o more)[k] = stored[k]
  OBVIOUS
<1>3. CASE d.raw = Raw(d.id) /\ d.size = 0
  BY <1>3 DEF Own
<1>4. CASE /\ d.raw = <<>> /\ d.size = Bytes[d.id] /\ d.off + d.size <= Len(stored)
           /\ \A k \in 1..d.size : stored[d.off + k] = d.id
  <2>1. \A k \in 1..d.size : d.off + k \in 1..Len(stored)
    BY <1>1, <1>2, <1>4
  <2>2. PICK all : all = stored \o more
    OBVIOUS
  <2>3. \A k \in 1..d.size : all[d.off + k] = d.id
    BY <1>2, <1>4, <2>1, <2>2
  <2>4. d.off + d.size <= Len(all)
    BY <1>1, <1>2, <1>4, <2>2
  <2> QED
    BY <1>4, <2>2, <2>3, <2>4 DEF Own
<1> QED
  BY <1>3, <1>4 DEF Own

----------------------------------------------------------------------------
(* The sorter. *)

LEMMA InitS == Init => SInv
<1> SUFFICES ASSUME Init PROVE SInv
  OBVIOUS
<1>1. PICK q \in Queries, skip \in Skips, limit \in Limits, matches \in Matches :
         \E values \in Values(q) : \E ids \in Candidates(q, values) :
            /\ query = [plan |-> q.plan, descs |-> q.descs, skip |-> skip, limit |-> limit,
                        matches |-> matches, values |-> values, ids |-> ids]
            /\ pc = IF q.plan = "sorter" THEN "collect" ELSE "stream"
  BY DEF Init
<1>2. PICK values \in Values(q) : \E ids \in Candidates(q, values) :
            /\ query = [plan |-> q.plan, descs |-> q.descs, skip |-> skip, limit |-> limit,
                        matches |-> matches, values |-> values, ids |-> ids]
            /\ pc = IF q.plan = "sorter" THEN "collect" ELSE "stream"
  BY <1>1
<1>3. PICK ids \in Candidates(q, values) :
            /\ query = [plan |-> q.plan, descs |-> q.descs, skip |-> skip, limit |-> limit,
                        matches |-> matches, values |-> values, ids |-> ids]
            /\ pc = IF q.plan = "sorter" THEN "collect" ELSE "stream"
  BY <1>2
<1>4. ids \in Seq(Ids) /\ (q.plan = "sorter" => ids \in scanDocumentIDs)
  <2>1. CASE q.plan = "sorter"
    <3>1. ids \in scanDocumentIDs /\ Cardinality(Ids) \in Nat
      BY <2>1, IdsAssumption, FS_CardinalityType DEF Candidates
    <3>2. ids \in [1..Cardinality(Ids) -> Ids]
      BY <3>1 DEF scanDocumentIDs, Bijection, Injection
    <3> QED
      BY <3>1, <3>2
  <2>2. CASE q.plan # "sorter"
    BY <2>2, ScanAssumption DEF Candidates
  <2> QED
    BY <2>1, <2>2
<1>5. QueryOK
  BY <1>3, <1>4, IdsAssumption, WindowAssumption DEF QueryOK
<1>6. /\ at = 1 /\ matched = <<>> /\ buffered = 0 /\ spilling = 0 /\ file = <<>> /\ skipped = 0
      /\ DOMAIN <<>> = {} /\ Len(<<>>) = 0 /\ matched \in Seq(MatchedDocs) /\ file \in Seq(Ids)
  BY DEF Init
<1>7. StateOK
  BY <1>3, <1>5, <1>6 DEF StateOK, QueryOK
<1>8. BytesHeld = {} /\ Hits(0) = {} /\ IsFiniteSet({}) /\ Cardinality({}) = 0
  BY <1>6, FS_EmptySet DEF BytesHeld, Hits
<1>9. at - 1 = 0 /\ pc # "sorted" /\ pc # "done"
  BY <1>3, <1>6
<1>10. DocsOK /\ MemoryOK
  BY <1>6, <1>8, WindowAssumption DEF DocsOK, MemoryOK
<1>11. CollectOK /\ SortedOK
  BY <1>6, <1>8, <1>9 DEF CollectOK, SortedOK, Distinct
<1>12. StreamOK
  <2>1. Hits(at - 1) = {}
    BY <1>8, <1>9, Zenon
  <2>3. Cardinality(Hits(at - 1)) = 0
    BY <1>8, <2>1, Zenon
  <2>4. skipped + Len(matched) = 0
    BY <1>6
  <2>2. skipped <= query.skip /\ (query.limit >= 0 => Len(matched) <= query.limit)
    BY <1>5, <1>6, WindowAssumption DEF QueryOK
  <2> QED
    BY <1>6, <2>1, <2>2, <2>3, <2>4 DEF StreamOK
<1> QED
  BY <1>5, <1>7, <1>9, <1>10, <1>11, <1>12 DEF SInv, WindowIsRight

LEMMA CollectS ==
    ASSUME SInv, Collect
    PROVE  SInv'
<1> DEFINE id == query.ids[at]
           n == Len(matched)
<1>1. /\ pc = "collect" /\ spilling = 0 /\ at <= Len(query.ids) /\ at' = at + 1
      /\ query' = query /\ file' = file /\ skipped' = skipped /\ pc' = "collect"
  BY DEF Collect
<1>2. /\ QueryOK /\ StateOK /\ DocsOK /\ MemoryOK /\ CollectOK
      /\ at \in Nat /\ at >= 1 /\ matched \in Seq(MatchedDocs) /\ file \in Seq(Ids) /\ buffered \in Nat
      /\ Len(query.ids) \in Nat /\ query.plan = "sorter"
  BY <1>1, CandidateType DEF SInv, StateOK
<1>3. id \in Ids
  <2>1. at \in 1..Len(query.ids)
    BY <1>1, <1>2
  <2> QED
    BY <1>2, <2>1, CandidateType
<1>4. QueryOK'
  BY <1>1, <1>2 DEF QueryOK, scanDocumentIDs
<1>5. SortedOK' /\ StreamOK' /\ WindowIsRight'
  BY <1>1 DEF SortedOK, StreamOK, WindowIsRight
<1>6. \A k : Hits(k)' = Hits(k)
  BY <1>1 DEF Hits
<1>7. /\ Distinct(matched) /\ \A i \in DOMAIN matched : \E k \in 1..(at - 1) : query.ids[k] = matched[i].id
      /\ \A k \in Hits(at - 1) : \E i \in DOMAIN matched : matched[i].id = query.ids[k]
  BY <1>1, <1>2 DEF CollectOK
<1>8. CASE id \notin query.matches /\ UNCHANGED <<matched, buffered, spilling>>
  <2>1. StateOK' /\ DocsOK' /\ MemoryOK'
    BY <1>1, <1>2, <1>8 DEF StateOK, DocsOK, MemoryOK, BytesHeld, Own, Raw
  <2>2. Hits(at) = Hits(at - 1)
    BY <1>1, <1>2, <1>8, NextHit
  <2>3. CollectOK'
    BY <1>1, <1>2, <1>6, <1>7, <1>8, <2>2 DEF CollectOK, Distinct
  <2> QED
    BY <1>4, <1>5, <2>1, <2>3 DEF SInv
<1>9. CASE /\ id \in query.matches /\ matched' = Append(matched, matchedDoc(id))
           /\ buffered' = bytesWith(id)
           /\ spilling' = IF bytesWith(id) > SortBufferSize THEN 1 ELSE 0
  <2>1. PICK d, m : d = matchedDoc(id) /\ m = Append(matched, d)
    OBVIOUS
  <2>2. d.id = id /\ d.raw = Raw(id) /\ d.size = 0 /\ d \in MatchedDocs /\ Own(d, file)
    BY <1>3, <2>1, RawType DEF matchedDoc, MatchedDocs, Own
  <2>3. /\ n \in Nat /\ DOMAIN matched = 1..n /\ DOMAIN m = 1..(n + 1) /\ m \in Seq(MatchedDocs)
        /\ m[n + 1] = d /\ \A i \in 1..n : m[i] = matched[i]
    BY <1>2, <2>1, <2>2
  <2>4. Bytes[id] \in Nat /\ Bytes[id] > 0 /\ Len(Raw(id)) = Bytes[id]
    BY <1>3, RawType
  <2>5. buffered' = buffered + Bytes[id] /\ buffered' \in Nat
    <3>1. buffered' = buffered + Bytes[id]
      BY <1>9, Zenon DEF bytesWith
    <3>2. buffered + Bytes[id] \in Nat
      BY <1>2, <2>4
    <3> QED
      BY <3>1, <3>2
  <2>6. spilling' \in {0, 1} /\ (spilling' = 0 => buffered' <= SortBufferSize)
    BY <1>9, <2>5, WindowAssumption DEF bytesWith
  <2>7. matched' = m
    BY <1>9, <2>1
  <2> HIDE DEF n, id
  <2>8. StateOK'
    BY <1>1, <1>2, <2>3, <2>5, <2>6, <2>7 DEF StateOK
  <2>9. DocsOK'
    <3>1. \A i \in 1..n : m[i].id \in query.matches /\ Own(m[i], file)
      BY <1>2, <2>3 DEF DocsOK
    <3>2. \A i \in 1..(n + 1) : m[i].id \in query.matches /\ Own(m[i], file)
      BY <1>9, <2>2, <2>3, <3>1
    <3> QED
      BY <1>1, <2>3, <2>7, <3>2 DEF DocsOK, Own, Raw
  <2>10. MemoryOK'
    <3> DEFINE new == {n + 1} \X (1..Bytes[id])
    <3>1. BytesHeld' = BytesHeld \cup new
      <4>1. BytesHeld' = UNION {{i} \X (1..Len(m[i].raw)) : i \in 1..(n + 1)}
        BY <2>3, <2>7 DEF BytesHeld
      <4>2. BytesHeld = UNION {{i} \X (1..Len(matched[i].raw)) : i \in 1..n}
        BY <2>3 DEF BytesHeld
      <4>3. {n + 1} \X (1..Len(m[n + 1].raw)) = new
        BY <2>2, <2>3, <2>4
      <4>4. ASSUME NEW i \in 1..n PROVE {i} \X (1..Len(m[i].raw)) = {i} \X (1..Len(matched[i].raw))
        BY <2>3
      <4>5. 1..(n + 1) = (1..n) \cup {n + 1}
        BY <2>3
      <4> HIDE DEF new
      <4> QED
        BY <4>1, <4>2, <4>3, <4>4, <4>5
    <3>2. IsFiniteSet(new) /\ Cardinality(new) = Bytes[id]
      <4>1. PICK S, T : S = {n + 1} /\ T = 1..Bytes[id]
        OBVIOUS
      <4>2. IsFiniteSet(S) /\ Cardinality(S) = 1
        BY <4>1, FS_Singleton
      <4>3. IsFiniteSet(T) /\ Cardinality(T) = Bytes[id]
        BY <2>4, <4>1, FS_Interval
      <4>4. IsFiniteSet(S \X T) /\ Cardinality(S \X T) = Cardinality(S) * Cardinality(T)
        BY <4>2, <4>3, FS_Product
      <4> QED
        BY <2>4, <4>1, <4>2, <4>3, <4>4
    <3>3. BytesHeld \cap new = {}
      BY <2>3 DEF BytesHeld
    <3>4. IsFiniteSet(BytesHeld) /\ Cardinality(BytesHeld) = buffered
      BY <1>1, <1>2 DEF MemoryOK
    <3> HIDE DEF new
    <3>5. IsFiniteSet(BytesHeld') /\ Cardinality(BytesHeld') = buffered'
      <4>1. PICK H : H = BytesHeld
        OBVIOUS
      <4>2. IsFiniteSet(H \cup new) /\ Cardinality(H \cup new) = Cardinality(H) + Cardinality(new) - Cardinality({})
        BY <3>2, <3>3, <3>4, <4>1, FS_Union
      <4>3. Cardinality({}) = 0
        BY FS_EmptySet
      <4> QED
        BY <1>2, <2>4, <2>5, <3>1, <3>2, <3>4, <4>1, <4>2, <4>3
    <3>6. \A i \in 1..(n + 1) : ~(i < spilling')
      BY <2>3, <2>6
    <3>7. spilling' = 0 => buffered' <= SortBufferSize
      BY <2>6
    <3>8. DOMAIN matched' = 1..(n + 1)
      BY <2>3, <2>7
    <3> QED
      BY <3>5, <3>6, <3>7, <3>8 DEF MemoryOK
  <2>11. CollectOK'
    <3>1. \A i \in 1..n : m[i].id # id
      <4>1. \A k \in 1..(at - 1) : query.ids[k] # query.ids[at]
        <5>1. \A k, l \in 1..Len(query.ids) : query.ids[k] = query.ids[l] => k = l
          BY <1>2, CandidateType
        <5>2. at \in 1..Len(query.ids) /\ \A k \in 1..(at - 1) : k \in 1..Len(query.ids) /\ k # at
          BY <1>1, <1>2
        <5> QED
          BY <5>1, <5>2, Zenon
      <4> QED
        BY <1>7, <2>3, <4>1 DEF id
    <3>2. ASSUME NEW i \in 1..(n + 1), NEW j \in 1..(n + 1), m[i].id = m[j].id PROVE i = j
      <4>1. CASE i \in 1..n /\ j \in 1..n
        BY <1>7, <2>3, <3>2, <4>1 DEF Distinct
      <4>2. CASE i = n + 1 \/ j = n + 1
        BY <2>2, <2>3, <3>1, <3>2, <4>2
      <4> QED
        BY <2>3, <4>1, <4>2
    <3>3. ASSUME NEW i \in 1..(n + 1) PROVE \E k \in 1..at : query.ids[k] = m[i].id
      <4>1. CASE i \in 1..n
        BY <1>2, <1>7, <2>3, <4>1
      <4>2. CASE i = n + 1
        BY <1>2, <2>2, <2>3, <4>2 DEF id
      <4> QED
        BY <2>3, <4>1, <4>2
    <3>4. ASSUME NEW k \in Hits(at) PROVE \E i \in 1..(n + 1) : m[i].id = query.ids[k]
      <4>1. k \in Hits(at - 1) \/ k = at
        BY <1>2 DEF Hits
      <4>2. CASE k \in Hits(at - 1)
        <5>1. PICK i \in 1..n : matched[i].id = query.ids[k]
          BY <1>7, <2>3, <4>2
        <5>2. i \in 1..(n + 1) /\ m[i].id = query.ids[k]
          BY <2>3, <5>1
        <5> QED
          BY <5>2
      <4>3. CASE k = at
        BY <2>2, <2>3, <4>3 DEF id
      <4> QED
        BY <4>1, <4>2, <4>3
    <3>5. at' - 1 = at
      BY <1>1, <1>2
    <3> QED
      BY <1>1, <1>6, <2>3, <2>7, <3>2, <3>3, <3>4, <3>5 DEF CollectOK, Distinct
  <2> QED
    BY <1>4, <1>5, <2>8, <2>9, <2>10, <2>11 DEF SInv
<1> QED
  BY <1>8, <1>9 DEF Collect

LEMMA SpillStepS ==
    ASSUME SInv, SpillStep
    PROVE  SInv'
<1> DEFINE i == spilling
           d == matched[i]
           n == Len(matched)
<1>1. /\ pc = "collect" /\ i \in DOMAIN matched /\ spilling' = i + 1
      /\ query' = query /\ at' = at /\ buffered' = buffered /\ skipped' = skipped /\ pc' = "collect"
  BY DEF SpillStep
<1>2. /\ QueryOK /\ StateOK /\ DocsOK /\ MemoryOK /\ CollectOK
      /\ matched \in Seq(MatchedDocs) /\ file \in Seq(Ids)
      /\ n \in Nat /\ DOMAIN matched = 1..n /\ i \in Nat
  BY DEF SInv, StateOK
<1>3. d \in MatchedDocs /\ d.id \in Ids /\ Own(d, file)
  <2>1. Own(d, file)
    BY <1>1, <1>2 DEF DocsOK
  <2>2. d \in MatchedDocs
    BY <1>1, <1>2
  <2>3. d.id \in Ids
    BY <2>2 DEF MatchedDocs
  <2> QED
    BY <2>1, <2>2, <2>3
<1>4. QueryOK'
  BY <1>1, <1>2 DEF QueryOK, scanDocumentIDs
<1>5. SortedOK' /\ StreamOK' /\ WindowIsRight'
  BY <1>1 DEF SortedOK, StreamOK, WindowIsRight
<1>6. \A k : Hits(k)' = Hits(k)
  BY <1>1 DEF Hits
<1>7. /\ Len(Raw(d.id)) = Bytes[d.id] /\ Raw(d.id) \in Seq(Ids) /\ Raw(d.id) # <<>>
      /\ Bytes[d.id] \in Nat /\ Bytes[d.id] > 0
  BY <1>3, RawType
<1>8. \A k \in 1..n : k < i => matched[k].raw = <<>>
  BY <1>1, <1>2 DEF MemoryOK
<1>9. ASSUME NEW m \in Seq(MatchedDocs), DOMAIN m = 1..n, NEW f \in Seq(Ids),
             matched' = m, file' = f, m[i].raw = <<>>,
             \A k \in 1..n : m[k].id = matched[k].id /\ Own(m[k], f) /\ (k # i => m[k] = matched[k])
      PROVE  SInv'
  <2> HIDE DEF i, n, d
  <2>1. StateOK'
    BY <1>1, <1>2, <1>9 DEF StateOK, i
  <2>2. DocsOK'
    <3>1. \A k \in 1..n : m[k].id \in query.matches
      BY <1>2, <1>9 DEF DocsOK
    <3> QED
      BY <1>1, <1>9, <3>1 DEF DocsOK, Own, Raw
  <2>3. MemoryOK'
    <3>1. \A k \in 1..n : k < i + 1 => m[k].raw = <<>>
      BY <1>2, <1>8, <1>9
    <3>2. spilling' # 0
      BY <1>1, <1>2
    <3> QED
      BY <1>1, <1>9, <3>1, <3>2 DEF MemoryOK
  <2>4. CollectOK'
    <3>1. /\ Distinct(matched) /\ \A k \in 1..n : \E l \in 1..(at - 1) : query.ids[l] = matched[k].id
          /\ \A l \in Hits(at - 1) : \E k \in 1..n : matched[k].id = query.ids[l]
      <4>1. CollectOK /\ pc = "collect" /\ DOMAIN matched = 1..n
        BY <1>1, <1>2
      <4> QED
        BY <4>1, Zenon DEF CollectOK
    <3>2. Distinct(m) /\ \A k \in 1..n : \E l \in 1..(at - 1) : query.ids[l] = m[k].id
      <4>1. DOMAIN m = DOMAIN matched /\ \A k \in DOMAIN m : m[k].id = matched[k].id
        BY <1>2, <1>9, Zenon
      <4>2. Distinct(m)
        BY <3>1, <4>1, Zenon DEF Distinct
      <4>3. \A k \in 1..n : \E l \in 1..(at - 1) : query.ids[l] = m[k].id
        BY <1>9, <3>1, <4>1, Zenon
      <4> QED
        BY <4>2, <4>3
    <3>3. \A l \in Hits(at - 1) : \E k \in 1..n : m[k].id = query.ids[l]
      BY <1>9, <3>1
    <3> QED
      BY <1>1, <1>6, <1>9, <3>2, <3>3 DEF CollectOK
  <2> QED
    BY <1>4, <1>5, <2>1, <2>2, <2>3, <2>4 DEF SInv
<1>10. CASE ~InMemory(d) /\ UNCHANGED <<matched, file>>
  <2>1. d.raw = <<>>
    BY <1>3, <1>7, <1>10 DEF InMemory, Own
  <2>2. \A k \in 1..n : Own(matched[k], file)
    BY <1>2 DEF DocsOK
  <2> QED
    BY <1>2, <1>9, <1>10, <2>1, <2>2
<1>11. CASE /\ InMemory(d)
            /\ matched' = [matched EXCEPT ![i] =
                  [id |-> d.id, raw |-> <<>>, off |-> spillOffset(file), size |-> Len(d.raw)]]
            /\ file' = file \o d.raw
  <2>1. d.raw = Raw(d.id) /\ Len(d.raw) = Bytes[d.id]
    BY <1>3, <1>7, <1>11 DEF InMemory, Own
  <2>2. PICK e : e = [id |-> d.id, raw |-> <<>>, off |-> spillOffset(file), size |-> Len(d.raw)]
    OBVIOUS
  <2>3. /\ e.id = d.id /\ e.raw = <<>> /\ e.off = Len(file) /\ e.size = Bytes[d.id]
        /\ Len(file) \in Nat
    BY <1>2, <2>1, <2>2 DEF spillOffset
  <2>4. e \in MatchedDocs
    <3>1. <<>> \in Seq(Ids)
      OBVIOUS
    <3> QED
      BY <1>2, <1>3, <1>7, <2>1, <2>2, <3>1 DEF MatchedDocs, spillOffset
  <2>5. PICK m : m = [matched EXCEPT ![i] = e]
    OBVIOUS
  <2>6. /\ m \in Seq(MatchedDocs) /\ DOMAIN m = 1..n /\ m[i] = e
        /\ \A k \in 1..n : k # i => m[k] = matched[k]
    BY <1>1, <1>2, <2>4, <2>5
  <2>7. PICK f : f = file \o Raw(d.id)
    OBVIOUS
  <2>8. /\ f \in Seq(Ids) /\ Len(f) = Len(file) + Bytes[d.id]
        /\ \A k \in 1..Bytes[d.id] : f[Len(file) + k] = Raw(d.id)[k]
    BY <1>2, <1>7, <2>7
  <2>9. Own(e, f)
    <3>1. \A k \in 1..Bytes[d.id] : Raw(d.id)[k] = d.id
      BY DEF Raw
    <3>2. \A k \in 1..e.size : f[e.off + k] = e.id
      BY <2>3, <2>8, <3>1
    <3>3. e.size = Bytes[e.id] /\ e.off + e.size <= Len(f)
      BY <1>7, <2>3, <2>8
    <3> QED
      BY <2>3, <3>2, <3>3 DEF Own
  <2>10. \A k \in 1..n : k # i => Own(m[k], f)
    <3>1. ASSUME NEW k \in 1..n, k # i PROVE Own(m[k], f)
      <4>1. matched[k] \in MatchedDocs /\ Own(matched[k], file)
        BY <1>2, <3>1 DEF DocsOK
      <4>2. Own(matched[k], file \o Raw(d.id))
        BY <1>2, <1>7, <4>1, OwnGrows
      <4> QED
        BY <2>6, <2>7, <3>1, <4>2
    <3> QED
      BY <3>1
  <2>11. matched' = m /\ file' = f
    BY <1>11, <2>1, <2>2, <2>5, <2>7
  <2>12. m[i].raw = <<>> /\ \A k \in 1..n : m[k].id = matched[k].id /\ Own(m[k], f)
    <3>1. ASSUME NEW k \in 1..n PROVE m[k].id = matched[k].id /\ Own(m[k], f)
      <4>1. CASE k = i
        BY <2>3, <2>6, <2>9, <4>1
      <4>2. CASE k # i
        BY <2>6, <2>10, <4>2
      <4> QED
        BY <4>1, <4>2
    <3> QED
      BY <2>3, <2>6, <3>1
  <2> HIDE DEF i, d, n
  <2> QED
    BY <1>9, <2>6, <2>8, <2>11, <2>12
<1> QED
  BY <1>10, <1>11 DEF SpillStep

\* After a spill nothing is in memory.
LEMMA SpillEndS ==
    ASSUME SInv, SpillEnd
    PROVE  SInv'
<1>1. /\ pc = "collect" /\ spilling > Len(matched) /\ spilling' = 0 /\ buffered' = 0
      /\ query' = query /\ at' = at /\ matched' = matched /\ file' = file /\ skipped' = skipped
      /\ pc' = "collect"
  BY DEF SpillEnd
<1>2. QueryOK /\ StateOK /\ DocsOK /\ MemoryOK /\ CollectOK
  BY DEF SInv
<1>3. QueryOK' /\ StateOK' /\ DocsOK' /\ CollectOK'
  <2>1. QueryOK' /\ StateOK'
    BY <1>1, <1>2 DEF QueryOK, scanDocumentIDs, StateOK
  <2>2. DocsOK'
    BY <1>1, <1>2 DEF DocsOK, Own, Raw
  <2>3. CollectOK'
    BY <1>1, <1>2 DEF CollectOK, Distinct, Hits
  <2> QED
    BY <2>1, <2>2, <2>3
<1>4. SortedOK' /\ StreamOK' /\ WindowIsRight'
  BY <1>1 DEF SortedOK, StreamOK, WindowIsRight
<1>5. MemoryOK'
  <2>1. Len(matched) \in Nat /\ spilling \in Nat /\ DOMAIN matched = 1..Len(matched)
    BY <1>2 DEF StateOK
  <2>2. \A k \in DOMAIN matched : matched[k].raw = <<>>
    BY <1>1, <1>2, <2>1 DEF MemoryOK
  <2>3. \A k \in DOMAIN matched : {k} \X (1..Len(matched[k].raw)) = {}
    BY <2>2
  <2>4. BytesHeld' = {}
    BY <1>1, <2>3 DEF BytesHeld
  <2>5. IsFiniteSet({}) /\ Cardinality({}) = 0
    BY FS_EmptySet
  <2>6. \A k \in DOMAIN matched : ~(k < 0)
    BY <2>1
  <2> QED
    BY <1>1, <2>4, <2>5, <2>6, WindowAssumption DEF MemoryOK
<1> QED
  BY <1>3, <1>4, <1>5 DEF SInv

LEMMA SortS ==
    ASSUME SInv, Sort
    PROVE  SInv'
<1> DEFINE n == Len(matched)
<1>1. /\ pc = "collect" /\ at > Len(query.ids) /\ matched' \in SortSlice(matched) /\ pc' = "sorted"
      /\ query' = query /\ at' = at /\ buffered' = buffered /\ spilling' = spilling /\ file' = file
      /\ skipped' = skipped
  BY DEF Sort
<1>2. /\ QueryOK /\ StateOK /\ DocsOK /\ CollectOK /\ matched \in Seq(MatchedDocs)
      /\ n \in Nat /\ DOMAIN matched = 1..n /\ query.plan = "sorter"
  BY <1>1 DEF SInv, StateOK
<1>3. PICK p \in Bijection(1..n, 1..n) :
         /\ matched' = [i \in 1..n |-> matched[p[i]]]
         /\ IsOrder({matched[i].id : i \in 1..n}) =>
              \A i, j \in DOMAIN matched' : i < j => less(matched'[i].id, matched'[j].id)
  BY <1>1, <1>2 DEF SortSlice
<1>4. PICK m : m = [i \in 1..n |-> matched[p[i]]]
  OBVIOUS
<1>5. /\ p \in [1..n -> 1..n] /\ \A i, j \in 1..n : p[i] = p[j] => i = j
      /\ \A k \in 1..n : \E i \in 1..n : p[i] = k
  BY DEF Bijection, Injection, Surjection, IsInjective
<1>6. DOMAIN m = 1..n /\ m \in Seq(MatchedDocs) /\ \A i \in 1..n : m[i] = matched[p[i]] /\ p[i] \in 1..n
  <2> HIDE DEF n
  <2>1. \A i \in 1..n : p[i] \in 1..n
    BY <1>5
  <2>2. \A k \in 1..n : matched[k] \in MatchedDocs
    BY <1>2
  <2>3. DOMAIN m = 1..n /\ \A i \in 1..n : m[i] = matched[p[i]]
    BY <1>4
  <2>4. m \in [1..n -> MatchedDocs]
    BY <1>4, <2>1, <2>2
  <2>5. m \in Seq(MatchedDocs)
    BY <1>2, <2>4
  <2> QED
    BY <2>1, <2>3, <2>5
<1>7. matched' = m
  BY <1>3, <1>4
<1> HIDE DEF n
<1>8. QueryOK' /\ StateOK'
  BY <1>1, <1>2, <1>6, <1>7 DEF QueryOK, scanDocumentIDs, StateOK
<1>9. MemoryOK' /\ CollectOK' /\ StreamOK' /\ WindowIsRight'
  BY <1>1 DEF MemoryOK, CollectOK, StreamOK, WindowIsRight
<1>10. DocsOK'
  <2>1. \A i \in 1..n : m[i].id \in query.matches /\ Own(m[i], file)
    BY <1>2, <1>6 DEF DocsOK
  <2> QED
    BY <1>1, <1>6, <1>7, <2>1 DEF DocsOK, Own, Raw
<1>11. Distinct(m)
  <2>1. \A k, l \in 1..n : matched[k].id = matched[l].id => k = l
    BY <1>1, <1>2 DEF CollectOK, Distinct
  <2>2. ASSUME NEW i \in 1..n, NEW j \in 1..n, m[i].id = m[j].id PROVE i = j
    <3>1. p[i] = p[j]
      BY <1>6, <2>1, <2>2
    <3> QED
      BY <1>5, <3>1
  <2> QED
    BY <1>6, <2>2 DEF Distinct
<1>12. ASSUME NEW id \in query.matches PROVE \E i \in 1..n : m[i].id = id
  <2>1. id \in Ids /\ Len(query.ids) \in Nat
    BY <1>2, CandidateType DEF QueryOK
  <2>2. PICK k \in 1..Len(query.ids) : query.ids[k] = id
    BY <1>2, <2>1, CandidateType
  <2>3. k \in Hits(at - 1)
    <3>1. at - 1 >= Len(query.ids) /\ at - 1 \in Nat
      BY <1>1, <1>2, <2>1 DEF StateOK
    <3>2. k \in 1..(at - 1)
      BY <2>1, <3>1
    <3> QED
      BY <1>12, <2>2, <3>2 DEF Hits
  <2>4. PICK l \in 1..n : matched[l].id = id
    BY <1>1, <1>2, <2>2, <2>3 DEF CollectOK
  <2>5. PICK i \in 1..n : p[i] = l
    BY <1>5
  <2> QED
    BY <1>6, <2>4, <2>5
<1>13. ASSUME IsOrder(Ids) PROVE \A i, j \in 1..n : i < j => less(m[i].id, m[j].id)
  <2>1. \A i \in 1..n : matched[i].id \in Ids
    BY <1>2 DEF DocsOK, QueryOK
  <2>2. IsOrder({matched[i].id : i \in 1..n})
    <3>1. PICK S : S = {matched[i].id : i \in 1..n}
      OBVIOUS
    <3>2. \A x \in S : x \in Ids
      BY <2>1, <3>1
    <3>3. IsOrder(S)
      BY <1>13, <3>2 DEF IsOrder
    <3> QED
      BY <3>1, <3>3
  <2> QED
    BY <1>3, <1>6, <1>7, <2>2
<1>14. SortedOK'
  <2>1. IsOrder(Ids)' = IsOrder(Ids) /\ \A x, y : less(x, y)' = less(x, y)
    BY <1>1, SameQuery
  <2>2. Distinct(matched)'
    BY <1>7, <1>11 DEF Distinct
  <2>3. IsOrder(Ids)' => InOrder(matched)'
    BY <1>6, <1>7, <1>13, <2>1 DEF InOrder
  <2> QED
    BY <1>1, <1>6, <1>7, <1>12, <2>2, <2>3 DEF SortedOK
<1> QED
  BY <1>8, <1>9, <1>10, <1>14 DEF SInv

----------------------------------------------------------------------------
(* The window of a sorted result. *)

\* A sum of start and limit that wraps around is negative, and then the slice panics.
LEMMA WindowBounds ==
    ASSUME QueryOK, StateOK, WindowEnd >= WindowStart
    PROVE  /\ Len(matched) \in Nat /\ WindowStart \in 0..Len(matched) /\ WindowEnd \in 0..Len(matched)
           /\ WindowStart < WindowEnd => WindowStart = query.skip
           /\ \A j \in 1..Len(matched) : InWindow(j) <=> WindowStart < j /\ j <= WindowEnd
<1>1. PICK n, st, en, skip, limit : /\ n = Len(matched) /\ st = WindowStart /\ en = WindowEnd
                                    /\ skip = query.skip /\ limit = query.limit
  OBVIOUS
<1>2. n \in Nat /\ skip \in 0..MaxInt /\ limit \in -1..MaxInt /\ MaxInt \in Nat
  BY <1>1, WindowAssumption DEF QueryOK, StateOK
<1>3. st = IF skip > n THEN n ELSE skip
  BY <1>1 DEF WindowStart
<1>4. /\ limit >= 0 /\ st + limit <= MaxInt => en = IF st + limit < n THEN st + limit ELSE n
      /\ limit >= 0 /\ st + limit > MaxInt =>
            en = IF st + limit - 2 * (MaxInt + 1) < n THEN st + limit - 2 * (MaxInt + 1) ELSE n
      /\ limit < 0 => en = n
  <2>1. st \in Nat /\ st + limit \in Int
    BY <1>2, <1>3
  <2>2. limit >= 0 /\ st + limit <= MaxInt => en = IF st + limit < n THEN st + limit ELSE n
    BY <1>1, <1>2, <2>1 DEF WindowEnd
  <2>3. limit >= 0 /\ st + limit > MaxInt =>
           en = IF st + limit - 2 * (MaxInt + 1) < n THEN st + limit - 2 * (MaxInt + 1) ELSE n
    BY <1>1, <1>2, <2>1 DEF WindowEnd
  <2>4. limit < 0 => en = n
    BY <1>1, <1>2, <2>1 DEF WindowEnd
  <2> QED
    BY <2>2, <2>3, <2>4
<1>5. st \in 0..n /\ st <= skip /\ en >= st
  BY <1>1, <1>2, <1>3
<1>6. ~(limit >= 0 /\ st + limit > MaxInt)
  BY <1>2, <1>4, <1>5
<1>7. en \in 0..n /\ (st < en => st = skip)
  BY <1>2, <1>3, <1>4, <1>5, <1>6
<1>8. ASSUME NEW j \in 1..n
      PROVE  (skip < j /\ (limit >= 0 => j <= skip + limit)) <=> (st < j /\ j <= en)
  BY <1>2, <1>3, <1>4, <1>5, <1>6
<1>9. \A j \in 1..n : InWindow(j) <=> st < j /\ j <= en
  BY <1>1, <1>8 DEF InWindow
<1> QED
  BY <1>1, <1>2, <1>5, <1>7, <1>9

\* What is read back is what was written.
LEMMA Hydrated ==
    ASSUME NEW d \in MatchedDocs, file \in Seq(Ids), Own(d, file)
    PROVE  hydrate(d) = Raw(d.id)
<1>1. d.id \in Ids /\ d.off \in Nat /\ d.size \in Nat
  BY DEF MatchedDocs
<1>2. Bytes[d.id] \in Nat /\ Bytes[d.id] > 0 /\ Raw(d.id) # <<>>
  BY <1>1, RawType
<1>3. CASE d.raw = Raw(d.id) /\ d.size = 0
  BY <1>2, <1>3 DEF hydrate
<1>4. CASE /\ d.raw = <<>> /\ d.size = Bytes[d.id] /\ d.off + d.size <= Len(file)
           /\ \A k \in 1..d.size : file[d.off + k] = d.id
  <2>1. hydrate(d) = SubSeq(file, d.off + 1, d.off + d.size)
    BY <1>2, <1>4 DEF hydrate
  <2>2. PICK b, o : b = Bytes[d.id] /\ o = d.off
    OBVIOUS
  <2>3. SubSeq(file, o + 1, o + b) = [k \in 1..b |-> file[o + k]]
    <3>1. o \in Nat /\ b \in Nat /\ o + b <= Len(file) /\ Len(file) \in Nat
      BY <1>1, <1>2, <1>4, <2>2
    <3>2. PICK t : t = SubSeq(file, o + 1, o + b)
      OBVIOUS
    <3>3. t \in Seq(Ids) /\ Len(t) = b /\ \A k \in 1..b : t[k] = file[o + k]
      BY <3>1, <3>2
    <3> QED
      BY <3>2, <3>3
  <2>4. [k \in 1..b |-> file[o + k]] = [k \in 1..b |-> d.id]
    BY <1>4, <2>2
  <2> QED
    BY <1>4, <2>1, <2>2, <2>3, <2>4 DEF Raw
<1> QED
  BY <1>3, <1>4 DEF Own

\* A sorted document is at its position.
LEMMA SortedPositions ==
    ASSUME QueryOK, StateOK, DocsOK, SortedOK, pc = "sorted", IsOrder(Ids), NEW j \in 1..Len(matched)
    PROVE  Position(matched[j].id) = j
<1>1. PICK n : n = Len(matched)
  OBVIOUS
<1>2. n \in Nat /\ DOMAIN matched = 1..n /\ j \in 1..n
  BY <1>1 DEF StateOK
<1>3. \A i \in 1..n : matched[i].id \in query.matches /\ matched[i].id \in Ids
  BY <1>2 DEF DocsOK, QueryOK
<1>4. PICK s : s = [i \in 1..n |-> matched[i].id]
  OBVIOUS
<1>5. s \in [1..n -> Ids] /\ \A i \in 1..n : s[i] = matched[i].id /\ s[i] \in query.matches
  BY <1>3, <1>4
<1>6. \A i, k \in 1..n : i < k => less(s[i], s[k])
  <2>1. \A i, k \in 1..n : i < k => less(matched[i].id, matched[k].id)
    BY <1>2 DEF SortedOK, InOrder
  <2> QED
    BY <1>5, <2>1, Zenon
<1>7. \A id \in query.matches : \E i \in 1..n : s[i] = id
  BY <1>2, <1>5 DEF SortedOK
<1>8. Position(s[j]) = Cardinality({k \in 1..(j - 1) : s[k] \in query.matches}) + 1
  BY <1>2, <1>5, <1>6, <1>7, Positions DEF QueryOK
<1>9. {k \in 1..(j - 1) : s[k] \in query.matches} = 1..(j - 1)
  BY <1>2, <1>5
<1>10. Cardinality(1..(j - 1)) = j - 1
  BY <1>2, FS_Interval
<1>11. Position(s[j]) = (j - 1) + 1
  BY <1>8, <1>9, <1>10, Zenon
<1>12. (j - 1) + 1 = j /\ s[j] = matched[j].id
  BY <1>2, <1>5
<1> QED
  BY <1>11, <1>12, Zenon

LEMMA ReturnS ==
    ASSUME SInv, Return
    PROVE  SInv'
<1>1. /\ pc = "sorted" /\ WindowEnd >= WindowStart /\ pc' = "done"
      /\ out' = [i \in DOMAIN Window |-> [id |-> Window[i].id, raw |-> hydrate(Window[i])]]
      /\ query' = query /\ at' = at /\ matched' = matched /\ buffered' = buffered /\ spilling' = spilling
      /\ file' = file /\ skipped' = skipped
  BY DEF Return
<1>2. /\ QueryOK /\ StateOK /\ DocsOK /\ SortedOK
      /\ matched \in Seq(MatchedDocs) /\ file \in Seq(Ids)
  BY DEF SInv, StateOK
<1>3. QueryOK' /\ StateOK' /\ DocsOK'
  BY <1>1, <1>2 DEF QueryOK, scanDocumentIDs, StateOK, DocsOK, Own, Raw
<1>4. MemoryOK' /\ CollectOK' /\ SortedOK' /\ StreamOK'
  BY <1>1 DEF MemoryOK, CollectOK, SortedOK, StreamOK
<1>5. PICK n, st, en, w : n = Len(matched) /\ st = WindowStart /\ en = WindowEnd /\ w = Window
  OBVIOUS
<1>6. /\ n \in Nat /\ DOMAIN matched = 1..n /\ st \in 0..n /\ en \in 0..n /\ st <= en
      /\ st < en => st = query.skip
      /\ \A j \in 1..n : InWindow(j) <=> st < j /\ j <= en
  BY <1>1, <1>2, <1>5, WindowBounds
<1>7. DOMAIN w = 1..(en - st) /\ \A i \in 1..(en - st) : st + i \in 1..n /\ w[i] = matched[st + i]
  <2>1. w = SubSeq(matched, st + 1, en)
    BY <1>5 DEF Window
  <2>2. w \in Seq(MatchedDocs) /\ Len(w) = en - st /\ \A i \in 1..(en - st) : w[i] = matched[st + i]
    BY <1>2, <1>5, <1>6, <2>1
  <2>3. \A i \in 1..(en - st) : st + i \in 1..n
    BY <1>6
  <2> QED
    BY <2>2, <2>3
<1>8. PICK o : o = out'
  OBVIOUS
<1>9. /\ DOMAIN o = 1..(en - st)
      /\ \A i \in 1..(en - st) : o[i].id = matched[st + i].id /\ o[i].raw = Raw(matched[st + i].id)
  <2>1. ASSUME NEW j \in 1..n PROVE hydrate(matched[j]) = Raw(matched[j].id)
    <3>1. matched[j] \in MatchedDocs /\ Own(matched[j], file)
      BY <1>2, <1>6 DEF DocsOK
    <3> QED
      BY <1>2, <3>1, Hydrated
  <2>2. o = [i \in 1..(en - st) |-> [id |-> w[i].id, raw |-> hydrate(w[i])]]
    BY <1>1, <1>5, <1>7, <1>8
  <2> QED
    BY <1>7, <2>1, <2>2
<1>10. ASSUME IsOrder(Ids)
       PROVE  /\ {o[i].id : i \in DOMAIN o} = {id \in query.matches : InWindow(Position(id))}
              /\ \A i \in DOMAIN o : Position(o[i].id) = query.skip + i /\ o[i].raw = Raw(o[i].id)
  <2>1. \A j \in 1..n : Position(matched[j].id) = j
    BY <1>1, <1>2, <1>5, <1>10, SortedPositions
  <2>2. ASSUME NEW i \in DOMAIN o
        PROVE  /\ o[i].id \in query.matches /\ InWindow(Position(o[i].id))
               /\ Position(o[i].id) = query.skip + i /\ o[i].raw = Raw(o[i].id)
    <3>1. /\ i \in 1..(en - st) /\ st + i \in 1..n /\ o[i].id = matched[st + i].id
          /\ o[i].raw = Raw(matched[st + i].id)
      BY <1>7, <1>9
    <3>2. o[i].id \in query.matches
      BY <1>2, <1>6, <3>1 DEF DocsOK
    <3>3. Position(o[i].id) = st + i
      BY <2>1, <3>1
    <3>4. st < st + i /\ st + i <= en /\ st = query.skip
      BY <1>6, <3>1
    <3> QED
      BY <1>6, <3>1, <3>2, <3>3, <3>4
  <2>3. ASSUME NEW id \in query.matches, InWindow(Position(id)) PROVE \E i \in DOMAIN o : o[i].id = id
    <3>1. PICK j \in 1..n : matched[j].id = id
      BY <1>1, <1>2, <1>6 DEF SortedOK
    <3>2. InWindow(j)
      BY <2>1, <2>3, <3>1
    <3>3. st < j /\ j <= en
      BY <1>6, <3>2
    <3>4. j - st \in 1..(en - st) /\ st + (j - st) = j
      BY <1>6, <3>3
    <3>5. o[j - st].id = id
      BY <1>9, <3>1, <3>4
    <3> QED
      BY <1>9, <3>4, <3>5
  <2> QED
    BY <2>2, <2>3
<1>11. WindowIsRight'
  <2>1. /\ IsOrder(Ids)' = IsOrder(Ids) /\ \A id : Position(id)' = Position(id)
        /\ \A p : InWindow(p)' = InWindow(p)
    BY <1>1, SameQuery
  <2>2. \A id : InWindow(Position(id))' = InWindow(Position(id))
    BY <1>1 DEF InWindow, Position, less
  <2>3. \A i : Raw(i)' = Raw(i)
    BY DEF Raw
  <2> QED
    BY <1>1, <1>8, <1>10, <2>1, <2>2, <2>3 DEF WindowIsRight
<1> QED
  BY <1>3, <1>4, <1>11 DEF SInv

----------------------------------------------------------------------------
(* The streamed plan. *)

LEMMA StreamPosition ==
    ASSUME QueryOK, IsOrder(Ids), ScanInOrder, NEW j \in 1..Len(query.ids)
    PROVE  Position(query.ids[j]) = Cardinality(Hits(j - 1)) + 1
<1>1. PICK n, s : n = Len(query.ids) /\ s = query.ids
  OBVIOUS
<1>2. n \in Nat /\ s \in [1..n -> Ids] /\ DOMAIN query.ids = 1..n /\ j \in 1..n
  BY <1>1, CandidateType
<1>3. \A i, k \in 1..n : i < k => less(s[i], s[k])
  BY <1>1, <1>2 DEF ScanInOrder
<1>4. \A id \in query.matches : \E i \in 1..n : s[i] = id
  BY <1>1, <1>2 DEF ScanInOrder
<1>5. Position(s[j]) = Cardinality({k \in 1..(j - 1) : s[k] \in query.matches}) + 1
  BY <1>2, <1>3, <1>4, Positions DEF QueryOK
<1> QED
  BY <1>1, <1>5, Zenon DEF Hits

\* More candidates, no fewer matches.
LEMMA MoreHits ==
    ASSUME QueryOK, NEW a \in Nat, NEW b \in Nat, a <= b
    PROVE  Cardinality(Hits(a)) \in Nat /\ Cardinality(Hits(b)) \in Nat
           /\ Cardinality(Hits(a)) <= Cardinality(Hits(b))
<1>1. Hits(a) \in SUBSET Hits(b) /\ Hits(b) \in SUBSET (1..b)
  BY DEF Hits
<1>2. IsFiniteSet(1..b)
  BY FS_Interval
<1>3. IsFiniteSet(Hits(b))
  BY <1>1, <1>2, FS_Subset
<1>4. IsFiniteSet(Hits(a)) /\ Cardinality(Hits(a)) <= Cardinality(Hits(b))
  BY <1>1, <1>3, FS_Subset
<1> QED
  BY <1>3, <1>4, FS_CardinalityType

LEMMA StreamStepS ==
    ASSUME SInv, StreamStep
    PROVE  SInv'
<1>1. /\ pc = "stream" /\ at <= Len(query.ids) /\ Len(matched) # query.limit /\ at' = at + 1
      /\ query' = query /\ buffered' = buffered /\ spilling' = spilling /\ file' = file /\ pc' = "stream"
  BY DEF StreamStep
<1>2. PICK id, n : id = query.ids[at] /\ n = Len(matched)
  OBVIOUS
<1>3. /\ QueryOK /\ StateOK /\ DocsOK /\ StreamOK /\ matched \in Seq(MatchedDocs) /\ file \in Seq(Ids)
      /\ at \in Nat /\ at >= 1 /\ at \in 1..Len(query.ids) /\ skipped \in Nat
      /\ n \in Nat /\ DOMAIN matched = 1..n /\ query.skip \in Nat /\ query.limit \in Int
  BY <1>1, <1>2, CandidateType DEF SInv, StateOK, QueryOK
<1>4. id \in Ids
  BY <1>2, <1>3, CandidateType
<1>5. /\ \A i \in 1..n : matched[i].raw = Raw(matched[i].id)
      /\ skipped <= query.skip /\ (matched # <<>> => skipped = query.skip)
      /\ query.limit >= 0 => n <= query.limit
      /\ IsOrder(Ids) /\ ScanInOrder =>
            /\ Cardinality(Hits(at - 1)) = skipped + n
            /\ \A i \in 1..n : Position(matched[i].id) = query.skip + i
            /\ \A k \in Hits(at - 1) :
                  \/ Position(query.ids[k]) <= query.skip
                  \/ \E i \in 1..n : matched[i].id = query.ids[k]
  BY <1>1, <1>2, <1>3 DEF StreamOK
<1>6. /\ Cardinality(Hits(at - 1)) \in Nat
      /\ id \in query.matches =>
            Hits(at) = Hits(at - 1) \cup {at} /\ Cardinality(Hits(at)) = Cardinality(Hits(at - 1)) + 1
      /\ id \notin query.matches => Hits(at) = Hits(at - 1)
  <2>1. PICK b : b = at - 1
    OBVIOUS
  <2>2. b \in Nat /\ b + 1 = at /\ b + 1 <= Len(query.ids)
    BY <1>1, <1>3, <2>1
  <2>3. /\ Cardinality(Hits(b)) \in Nat
        /\ query.ids[b + 1] \in query.matches =>
              Hits(b + 1) = Hits(b) \cup {b + 1} /\ Cardinality(Hits(b + 1)) = Cardinality(Hits(b)) + 1
        /\ query.ids[b + 1] \notin query.matches => Hits(b + 1) = Hits(b)
    BY <1>3, <2>2, NextHit
  <2> QED
    BY <1>2, <2>1, <2>2, <2>3, Zenon
<1>7. IsOrder(Ids) /\ ScanInOrder => Position(id) = Cardinality(Hits(at - 1)) + 1
  BY <1>2, <1>3, StreamPosition
<1>8. QueryOK'
  BY <1>1, <1>3 DEF QueryOK, scanDocumentIDs
<1>9. MemoryOK' /\ CollectOK' /\ SortedOK' /\ WindowIsRight'
  BY <1>1 DEF MemoryOK, CollectOK, SortedOK, WindowIsRight
<1>10. ASSUME NEW m \in Seq(MatchedDocs), matched' = m, NEW c \in Nat, skipped' = c,
              \A i \in DOMAIN m : m[i].id \in query.matches /\ Own(m[i], file) /\ m[i].raw = Raw(m[i].id),
              c <= query.skip /\ (m # <<>> => c = query.skip),
              query.limit >= 0 => Len(m) <= query.limit,
              IsOrder(Ids) /\ ScanInOrder =>
                  /\ Cardinality(Hits(at)) = c + Len(m)
                  /\ \A i \in DOMAIN m : Position(m[i].id) = query.skip + i
                  /\ \A k \in Hits(at) :
                        Position(query.ids[k]) <= query.skip \/ \E i \in DOMAIN m : m[i].id = query.ids[k]
       PROVE  SInv'
  <2>1. StateOK'
    BY <1>1, <1>3, <1>10 DEF StateOK
  <2>2. DocsOK'
    BY <1>1, <1>10 DEF DocsOK, Own, Raw
  <2>3. /\ IsOrder(Ids)' = IsOrder(Ids) /\ ScanInOrder' = ScanInOrder
        /\ \A x : Position(x)' = Position(x) /\ \A k : Hits(k)' = Hits(k)
    BY <1>1, SameQuery
  <2>4. Hits(at - 1)' = Hits(at)
    <3>1. at' - 1 = at
      BY <1>1, <1>3
    <3>2. Hits(at - 1)' = {k \in 1..(at' - 1) : query'.ids[k] \in query'.matches}
      BY DEF Hits
    <3> QED
      BY <1>1, <3>1, <3>2 DEF Hits
  <2>5. \A i : Position(matched[i].id)' = Position(m[i].id)
    <3>1. query' = query /\ matched' = m
      BY <1>1, <1>10
    <3> QED
      BY <3>1 DEF Position, less
  <2>6. \A k : Position(query.ids[k])' = Position(query.ids[k])
    BY <1>1 DEF Position, less
  <2>7. \A k : Raw(matched[k].id)' = Raw(m[k].id)
    BY <1>10 DEF Raw
  <2>8. StreamOK'
    BY <1>1, <1>10, <2>3, <2>4, <2>5, <2>6, <2>7 DEF StreamOK
  <2> QED
    BY <1>8, <1>9, <2>1, <2>2, <2>8 DEF SInv
<1>11. \A i \in 1..n : matched[i].id \in query.matches /\ Own(matched[i], file)
  BY <1>3 DEF DocsOK
<1>12. CASE id \notin query.matches /\ UNCHANGED <<matched, skipped>>
  <2>1. Hits(at) = Hits(at - 1) /\ matched' = matched /\ skipped' = skipped
    BY <1>6, <1>12
  <2>2. \A i \in DOMAIN matched :
           matched[i].id \in query.matches /\ Own(matched[i], file) /\ matched[i].raw = Raw(matched[i].id)
    BY <1>3, <1>5, <1>11
  <2>3. IsOrder(Ids) /\ ScanInOrder =>
            /\ Cardinality(Hits(at)) = skipped + Len(matched)
            /\ \A i \in DOMAIN matched : Position(matched[i].id) = query.skip + i
            /\ \A k \in Hits(at) : \/ Position(query.ids[k]) <= query.skip
                                  \/ \E i \in DOMAIN matched : matched[i].id = query.ids[k]
    BY <1>2, <1>3, <1>5, <2>1, Zenon
  <2> QED
    BY <1>2, <1>3, <1>5, <1>10, <2>1, <2>2, <2>3
<1>13. CASE id \in query.matches /\ skipped < query.skip /\ skipped' = skipped + 1 /\ UNCHANGED matched
  <2>1. matched = <<>> /\ n = 0
    BY <1>2, <1>3, <1>5, <1>13
  <2>2. skipped + 1 \in Nat /\ skipped + 1 <= query.skip
    BY <1>3, <1>13
  <2>3. ASSUME IsOrder(Ids) /\ ScanInOrder
        PROVE  /\ Cardinality(Hits(at)) = skipped + 1 + Len(matched)
               /\ \A k \in Hits(at) : Position(query.ids[k]) <= query.skip
    <3>1. Cardinality(Hits(at)) = skipped + 1 + Len(matched)
      BY <1>2, <1>3, <1>5, <1>6, <1>13, <2>1, <2>3
    <3>2. Position(query.ids[at]) <= query.skip
      BY <1>2, <1>3, <1>5, <1>7, <2>1, <2>2, <2>3
    <3>3. \A k \in Hits(at - 1) : Position(query.ids[k]) <= query.skip
      BY <1>5, <2>1, <2>3
    <3> QED
      BY <1>6, <1>13, <3>1, <3>2, <3>3
  <2>4. DOMAIN matched = {}
    BY <1>3, <2>1
  <2> QED
    BY <1>2, <1>3, <1>5, <1>10, <1>13, <2>1, <2>2, <2>3, <2>4
<1>14. CASE /\ id \in query.matches /\ skipped >= query.skip
            /\ matched' = Append(matched, matchedDoc(id)) /\ UNCHANGED skipped
  <2>1. PICK d, m : d = matchedDoc(id) /\ m = Append(matched, d)
    OBVIOUS
  <2>2. d.id = id /\ d.raw = Raw(id) /\ d.size = 0 /\ d \in MatchedDocs /\ Own(d, file)
    BY <1>4, <2>1, RawType DEF matchedDoc, MatchedDocs, Own
  <2>3. /\ DOMAIN m = 1..(n + 1) /\ m \in Seq(MatchedDocs) /\ Len(m) = n + 1
        /\ m[n + 1] = d /\ \A i \in 1..n : m[i] = matched[i]
    BY <1>2, <1>3, <2>1, <2>2
  <2>4. skipped = query.skip
    BY <1>3, <1>5, <1>14
  <2>5. \A i \in DOMAIN m : m[i].id \in query.matches /\ Own(m[i], file) /\ m[i].raw = Raw(m[i].id)
    BY <1>3, <1>5, <1>11, <1>14, <2>2, <2>3
  <2>6. query.limit >= 0 => Len(m) <= query.limit
    BY <1>1, <1>2, <1>3, <1>5, <2>3
  <2>7. ASSUME IsOrder(Ids) /\ ScanInOrder
        PROVE  /\ Cardinality(Hits(at)) = skipped + Len(m)
               /\ \A i \in DOMAIN m : Position(m[i].id) = query.skip + i
               /\ \A k \in Hits(at) :
                     Position(query.ids[k]) <= query.skip \/ \E i \in DOMAIN m : m[i].id = query.ids[k]
    <3>1. Cardinality(Hits(at)) = skipped + Len(m)
      BY <1>3, <1>5, <1>6, <1>14, <2>3, <2>7
    <3>2. Position(id) = query.skip + (n + 1)
      BY <1>3, <1>5, <1>6, <1>7, <2>4, <2>7
    <3>3. ASSUME NEW i \in 1..(n + 1) PROVE Position(m[i].id) = query.skip + i
      <4>1. CASE i \in 1..n
        BY <1>5, <2>3, <2>7, <4>1
      <4>2. CASE i = n + 1
        BY <2>2, <2>3, <3>2, <4>2
      <4> QED
        BY <1>3, <4>1, <4>2
    <3>4. ASSUME NEW k \in Hits(at)
          PROVE  Position(query.ids[k]) <= query.skip \/ \E i \in DOMAIN m : m[i].id = query.ids[k]
      <4>1. CASE k \in Hits(at - 1)
        <5>1. CASE Position(query.ids[k]) <= query.skip
          BY <5>1
        <5>2. CASE \E i \in 1..n : matched[i].id = query.ids[k]
          <6>1. PICK i \in 1..n : matched[i].id = query.ids[k]
            BY <5>2
          <6>2. i \in DOMAIN m /\ m[i].id = query.ids[k]
            BY <1>3, <2>3, <6>1
          <6> QED
            BY <6>2
        <5> QED
          BY <1>5, <2>7, <4>1, <5>1, <5>2
      <4>2. CASE k = at
        <5>1. n + 1 \in DOMAIN m /\ m[n + 1].id = query.ids[k]
          BY <1>2, <1>3, <2>2, <2>3, <4>2
        <5> QED
          BY <5>1
      <4> QED
        BY <1>6, <1>14, <4>1, <4>2
    <3> QED
      BY <2>3, <3>1, <3>3, <3>4
  <2> QED
    BY <1>3, <1>10, <1>14, <2>1, <2>3, <2>4, <2>5, <2>6, <2>7
<1> QED
  BY <1>2, <1>12, <1>13, <1>14 DEF StreamStep

LEMMA StreamEndS ==
    ASSUME SInv, StreamEnd
    PROVE  SInv'
<1>1. /\ pc = "stream" /\ (at > Len(query.ids) \/ Len(matched) = query.limit) /\ pc' = "done"
      /\ out' = [i \in DOMAIN matched |-> [id |-> matched[i].id, raw |-> matched[i].raw]]
      /\ query' = query /\ at' = at /\ matched' = matched /\ buffered' = buffered /\ spilling' = spilling
      /\ file' = file /\ skipped' = skipped
  BY DEF StreamEnd
<1>2. PICK n, o : n = Len(matched) /\ o = out'
  OBVIOUS
<1>3. /\ QueryOK /\ StateOK /\ DocsOK /\ StreamOK /\ skipped \in Nat /\ at \in Nat /\ at >= 1
      /\ n \in Nat /\ DOMAIN matched = 1..n /\ query.skip \in Nat /\ query.limit \in Int
      /\ Len(query.ids) \in Nat /\ DOMAIN query.ids = 1..Len(query.ids) /\ query.plan # "sorter"
  BY <1>1, <1>2, CandidateType DEF SInv, StateOK, QueryOK
<1>4. QueryOK' /\ StateOK' /\ DocsOK'
  BY <1>1, <1>3 DEF QueryOK, scanDocumentIDs, StateOK, DocsOK, Own, Raw
<1>5. MemoryOK' /\ CollectOK' /\ SortedOK' /\ StreamOK'
  BY <1>1 DEF MemoryOK, CollectOK, SortedOK, StreamOK
<1>6. DOMAIN o = 1..n /\ \A i \in 1..n : o[i].id = matched[i].id /\ o[i].raw = Raw(matched[i].id)
  <2>1. o = [i \in 1..n |-> [id |-> matched[i].id, raw |-> matched[i].raw]]
    BY <1>1, <1>2, <1>3
  <2>2. \A i \in 1..n : matched[i].raw = Raw(matched[i].id)
    BY <1>1, <1>3 DEF StreamOK
  <2> QED
    BY <2>1, <2>2
<1>7. ASSUME IsOrder(Ids), ScanInOrder
      PROVE  /\ {o[i].id : i \in DOMAIN o} = {id \in query.matches : InWindow(Position(id))}
             /\ \A i \in DOMAIN o : Position(o[i].id) = query.skip + i /\ o[i].raw = Raw(o[i].id)
  <2>1. /\ \A i \in 1..n : Position(matched[i].id) = query.skip + i
        /\ Cardinality(Hits(at - 1)) = skipped + n
        /\ matched # <<>> => skipped = query.skip
        /\ query.limit >= 0 => n <= query.limit
        /\ \A k \in Hits(at - 1) :
              Position(query.ids[k]) <= query.skip \/ \E i \in 1..n : matched[i].id = query.ids[k]
    BY <1>1, <1>2, <1>3, <1>7 DEF StreamOK
  <2>2. ASSUME NEW i \in DOMAIN o
        PROVE  /\ o[i].id \in query.matches /\ InWindow(Position(o[i].id))
               /\ Position(o[i].id) = query.skip + i /\ o[i].raw = Raw(o[i].id)
    <3>1. i \in 1..n /\ o[i].id = matched[i].id /\ o[i].raw = Raw(matched[i].id)
      BY <1>6
    <3>2. o[i].id \in query.matches
      BY <1>3, <3>1 DEF DocsOK
    <3>3. Position(o[i].id) = query.skip + i
      BY <2>1, <3>1
    <3>4. InWindow(query.skip + i)
      <4>1. i \in Nat /\ i > 0 /\ (query.limit >= 0 => i <= query.limit)
        BY <1>3, <2>1, <3>1
      <4>2. query.skip < query.skip + i
        BY <1>3, <4>1
      <4>3. query.limit >= 0 => query.skip + i <= query.skip + query.limit
        BY <1>3, <4>1
      <4> QED
        BY <4>2, <4>3, Zenon DEF InWindow
    <3> QED
      BY <3>1, <3>2, <3>3, <3>4
  <2>3. ASSUME NEW id \in query.matches, InWindow(Position(id)) PROVE \E i \in DOMAIN o : o[i].id = id
    <3>1. PICK k \in 1..Len(query.ids) : query.ids[k] = id
      BY <1>3, <1>7 DEF ScanInOrder
    <3>2. Position(id) = Cardinality(Hits(k - 1)) + 1
      BY <1>3, <1>7, <3>1, StreamPosition
    <3>3. CASE k < at
      <4>1. k \in Hits(at - 1)
        BY <1>3, <3>1, <3>3 DEF Hits
      <4>2. ~(Position(query.ids[k]) <= query.skip)
        <5>1. PICK p : p = Position(id)
          OBVIOUS
        <5>2. p \in Nat
          <6>1. PICK b : b = k - 1
            OBVIOUS
          <6>2. b \in Nat /\ b <= b
            BY <1>3, <3>1, <6>1
          <6>3. Cardinality(Hits(b)) \in Nat
            BY <1>3, <6>2, MoreHits
          <6>4. p = Cardinality(Hits(b)) + 1
            BY <3>2, <5>1, <6>1, Zenon
          <6> QED
            BY <6>3, <6>4
        <5>3. query.skip < p
          BY <2>3, <5>1 DEF InWindow
        <5>4. ~(p <= query.skip)
          BY <1>3, <5>2, <5>3
        <5> QED
          BY <3>1, <5>1, <5>4
      <4>3. PICK i \in 1..n : matched[i].id = query.ids[k]
        BY <2>1, <4>1, <4>2
      <4> QED
        BY <1>6, <3>1, <4>3
    <3>4. CASE k >= at
      <4>1. n = query.limit
        BY <1>1, <1>2, <1>3, <3>1, <3>4
      <4>2. PICK a, b : a = at - 1 /\ b = k - 1
        OBVIOUS
      <4>3. a \in Nat /\ b \in Nat /\ a <= b
        BY <1>3, <3>1, <3>4, <4>2
      <4>4. Cardinality(Hits(a)) <= Cardinality(Hits(b)) /\ Cardinality(Hits(b)) \in Nat
        BY <1>3, <4>3, MoreHits
      <4>5. Cardinality(Hits(a)) = skipped + n /\ Position(id) = Cardinality(Hits(b)) + 1
        BY <2>1, <3>2, <4>2, Zenon
      <4>6. PICK p, c : p = Position(id) /\ c = Cardinality(Hits(b))
        OBVIOUS
      <4>7. c \in Nat /\ p = c + 1 /\ skipped + n <= c
        BY <4>4, <4>5, <4>6
      <4>8. query.skip < p /\ p <= query.skip + query.limit
        BY <1>3, <2>3, <4>1, <4>6 DEF InWindow
      <4>9. n # 0
        BY <1>3, <4>1, <4>7, <4>8
      <4>10. skipped = query.skip
        <5>1. matched # <<>>
          BY <1>2, <4>9
        <5> QED
          BY <2>1, <5>1
      <4> QED
        BY <1>3, <4>1, <4>7, <4>8, <4>10
    <3> QED
      BY <1>3, <3>1, <3>3, <3>4
  <2> QED
    BY <2>2, <2>3
<1>8. WindowIsRight'
  <2>1. /\ IsOrder(Ids)' = IsOrder(Ids) /\ ScanInOrder' = ScanInOrder
        /\ \A id : Position(id)' = Position(id)
    BY <1>1, SameQuery
  <2>2. \A id : InWindow(Position(id))' = InWindow(Position(id))
    BY <1>1 DEF InWindow, Position, less
  <2>3. \A i : Raw(i)' = Raw(i)
    BY DEF Raw
  <2> QED
    BY <1>1, <1>2, <1>3, <1>7, <2>1, <2>2, <2>3 DEF WindowIsRight
<1> QED
  BY <1>4, <1>5, <1>8 DEF SInv

----------------------------------------------------------------------------
(* The theorems. *)

LEMMA StopS ==
    ASSUME SInv, Panic \/ Fail
    PROVE  SInv'
<1>1. /\ pc' \in {"panicked", "failed"}
      /\ query' = query /\ at' = at /\ matched' = matched /\ buffered' = buffered /\ spilling' = spilling
      /\ file' = file /\ skipped' = skipped
  BY DEF Panic, Fail
<1>2. QueryOK' /\ StateOK' /\ DocsOK'
  BY <1>1 DEF SInv, QueryOK, scanDocumentIDs, StateOK, DocsOK, Own, Raw
<1>3. MemoryOK' /\ CollectOK' /\ SortedOK' /\ StreamOK' /\ WindowIsRight'
  BY <1>1 DEF MemoryOK, CollectOK, SortedOK, StreamOK, WindowIsRight
<1> QED
  BY <1>2, <1>3 DEF SInv

LEMMA IdleS ==
    ASSUME SInv, UNCHANGED vars
    PROVE  SInv'
<1>1. /\ query' = query /\ at' = at /\ matched' = matched /\ buffered' = buffered /\ spilling' = spilling
      /\ file' = file /\ skipped' = skipped /\ pc' = pc /\ out' = out
  BY DEF vars
<1>2. QueryOK' /\ StateOK' /\ DocsOK' /\ MemoryOK'
  BY <1>1 DEF SInv, QueryOK, scanDocumentIDs, StateOK, DocsOK, Own, Raw, MemoryOK, BytesHeld
<1>3. CollectOK'
  BY <1>1 DEF SInv, CollectOK, Distinct, Hits
<1>4. /\ \A x, y : less(x, y)' = less(x, y)
      /\ IsOrder(Ids)' = IsOrder(Ids) /\ ScanInOrder' = ScanInOrder
      /\ \A i : Position(matched[i].id)' = Position(matched[i].id)
      /\ \A i : Position(out[i].id)' = Position(out[i].id)
      /\ \A k : Position(query.ids[k])' = Position(query.ids[k])
      /\ \A id : InWindow(Position(id))' = InWindow(Position(id))
      /\ Hits(at - 1)' = Hits(at - 1)
  <2>1. query' = query /\ matched' = matched /\ out' = out /\ at' = at
    BY <1>1
  <2>2. \A i : Position(matched[i].id)' = Position(matched[i].id)
    BY <2>1 DEF Position, less
  <2>3. \A i : Position(out[i].id)' = Position(out[i].id)
    BY <2>1 DEF Position, less
  <2>4. \A k : Position(query.ids[k])' = Position(query.ids[k])
    BY <2>1 DEF Position, less
  <2>5. \A id : InWindow(Position(id))' = InWindow(Position(id))
    BY <2>1 DEF InWindow, Position, less
  <2>6. Hits(at - 1)' = Hits(at - 1)
    BY <2>1 DEF Hits
  <2> QED
    BY <2>1, <2>2, <2>3, <2>4, <2>5, <2>6, SameQuery
<1>5. SortedOK'
  <2>1. InOrder(matched)' = InOrder(matched)
    BY <1>1, <1>4 DEF InOrder, less
  <2> QED
    BY <1>1, <1>4, <2>1 DEF SInv, SortedOK, Distinct
<1>6. StreamOK'
  BY <1>1, <1>4 DEF SInv, StreamOK, Raw
<1>7. WindowIsRight'
  BY <1>1, <1>4 DEF SInv, WindowIsRight, Raw
<1> QED
  BY <1>2, <1>3, <1>5, <1>6, <1>7 DEF SInv

LEMMA PanicS ==
    ASSUME SInv, Panic
    PROVE  query.limit >= 0 /\ query.skip + query.limit > MaxInt
<1>1. PICK n, st, en, skip, limit : /\ n = Len(matched) /\ st = WindowStart /\ en = WindowEnd
                                    /\ skip = query.skip /\ limit = query.limit
  OBVIOUS
<1>2. n \in Nat /\ skip \in 0..MaxInt /\ limit \in -1..MaxInt /\ MaxInt \in Nat
  BY <1>1, WindowAssumption DEF SInv, QueryOK, StateOK
<1>3. st = (IF skip > n THEN n ELSE skip) /\ en < st
  BY <1>1 DEF WindowStart, Panic
<1>4. st \in 0..n /\ st <= skip
  BY <1>2, <1>3
<1>5. limit < 0 => en = n
  BY <1>1, <1>2, <1>4 DEF WindowEnd
<1>6. limit >= 0 /\ st + limit <= MaxInt => en = IF st + limit < n THEN st + limit ELSE n
  BY <1>1, <1>2, <1>4 DEF WindowEnd
<1>7. limit >= 0 /\ skip + limit > MaxInt
  BY <1>2, <1>3, <1>4, <1>5, <1>6
<1> QED
  BY <1>1, <1>7

LEMMA NextS == SInv /\ [Next]_vars => SInv'
<1> SUFFICES ASSUME SInv, [Next]_vars PROVE SInv'
  OBVIOUS
<1>1. CASE Collect
  BY <1>1, CollectS
<1>2. CASE SpillStep
  BY <1>2, SpillStepS
<1>3. CASE SpillEnd
  BY <1>3, SpillEndS
<1>4. CASE Sort
  BY <1>4, SortS
<1>5. CASE Return
  BY <1>5, ReturnS
<1>6. CASE Panic \/ Fail
  BY <1>6, StopS
<1>7. CASE StreamStep
  BY <1>7, StreamStepS
<1>8. CASE StreamEnd
  BY <1>8, StreamEndS
<1>9. CASE UNCHANGED vars
  BY <1>9, IdleS
<1> QED
  BY <1>1, <1>2, <1>3, <1>4, <1>5, <1>6, <1>7, <1>8, <1>9 DEF Next

LEMMA SInvAlways == Spec => []SInv
<1> QED
  BY InitS, NextS, PTL DEF Spec

\* For every buffer size and every length of the documents, what the sorter holds
\* in memory between two documents, and when it sorts, fits the buffer:
\* bufferedSortBytes counts exactly the bytes not spilled, and a spill leaves none
\* (addMatchedDoc and spillMatchedDocs of db.go).
THEOREM MemoryStaysBounded == Spec => []MemoryBounded
<1>1. SInv => MemoryBounded
  BY DEF SInv, MemoryOK, MemoryBounded
<1> QED
  BY <1>1, SInvAlways, PTL

\* For every collection, filter, window and comparison that is an order, a query
\* that returns gives the documents of its window, each at its place and with its
\* own bytes, through any number of spills, whatever permutation sort.Slice makes
\* of them, and from an index that scans in order (runQueryLocked, sortSpill and
\* hydrateMatchedDocs of db.go).
THEOREM WindowsAreRight == Spec => []WindowIsRight
<1>1. SInv => WindowIsRight
  BY DEF SInv
<1> QED
  BY <1>1, SInvAlways, PTL

\* For all windows and any number of documents, slicing the result panics only when
\* skip and limit add up to more than the largest int (runQueryLocked of db.go).
THEOREM PanicsAreOverflows == Spec => []PanicsOnlyOnOverflow
<1>1. Init => PanicsOnlyOnOverflow
  BY DEF Init, PanicsOnlyOnOverflow
<1>2. ASSUME SInv, PanicsOnlyOnOverflow, [Next]_vars
      PROVE  PanicsOnlyOnOverflow'
  <2>1. query' = query
    BY <1>2 DEF Next, Collect, SpillStep, SpillEnd, Sort, Return, Panic, Fail, StreamStep, StreamEnd, vars
  <2>2. pc' = "panicked" => pc = "panicked" \/ Panic
    BY <1>2 DEF Next, Collect, SpillStep, SpillEnd, Sort, Return, Fail, StreamStep, StreamEnd, vars
  <2> QED
    BY <1>2, <2>1, <2>2, PanicS DEF PanicsOnlyOnOverflow
<1> QED
  BY <1>1, <1>2, SInvAlways, PTL DEF Spec
=============================================================================
