--------------------------- MODULE EntryNodeProofs ---------------------------
(***************************************************************************)
(* Proofs about EntryNode, for any number of submissions, request ids,      *)
(* children, rows, slots and chunk sizes.                                   *)
(***************************************************************************)
EXTENDS EntryNode, FiniteSetTheorems, SequenceTheorems, TLAPS

-----------------------------------------------------------------------------
(* The operators the model is built from.                                  *)

\* Counting the kept positions up to k numbers them 1, 2, ... without a gap.
LEMMA RankOnto ==
    ASSUME NEW m \in Nat, NEW K \in SUBSET (1 .. m)
    PROVE  /\ IsFiniteSet(K) /\ Cardinality(K) \in Nat
           /\ \A k \in K : Cardinality({j \in K : j <= k}) \in 1 .. Cardinality(K)
           /\ \A k, l \in K :
                Cardinality({j \in K : j <= k}) = Cardinality({j \in K : j <= l}) => k = l
           /\ \A n \in 1 .. Cardinality(K) :
                \E k \in K : Cardinality({j \in K : j <= k}) = n
<1> DEFINE upTo(k) == {j \in K : j <= k}
           rank == [k \in K |-> Cardinality(upTo(k))]
           C == Cardinality(K)
<1>1. IsFiniteSet(K) /\ C \in Nat
  <2>1. IsFiniteSet(1 .. m)
    BY FS_Interval
  <2>2. IsFiniteSet(K)
    BY ONLY <2>1, K \in SUBSET (1 .. m), FS_Subset
  <2> QED BY ONLY <2>2, FS_CardinalityType
<1>2. \A k \in K : IsFiniteSet(upTo(k)) /\ Cardinality(upTo(k)) \in 1 .. C
  <2> SUFFICES ASSUME NEW k \in K PROVE IsFiniteSet(upTo(k)) /\ Cardinality(upTo(k)) \in 1 .. C
    OBVIOUS
  <2>1. upTo(k) \in SUBSET K /\ k \in upTo(k)
    OBVIOUS
  <2>2. IsFiniteSet(upTo(k)) /\ Cardinality(upTo(k)) <= C
    BY <1>1, <2>1, FS_Subset
  <2>3. Cardinality(upTo(k)) \in Nat /\ Cardinality(upTo(k)) # 0
    BY <2>1, <2>2, FS_CardinalityType, FS_EmptySet
  <2> QED BY <1>1, <2>2, <2>3
<1>3. \A k, l \in K : k < l => Cardinality(upTo(k)) # Cardinality(upTo(l))
  <2> SUFFICES ASSUME NEW k \in K, NEW l \in K, k < l
               PROVE  Cardinality(upTo(k)) # Cardinality(upTo(l))
    OBVIOUS
  <2>0. \A j \in K : j \in Int
    OBVIOUS
  <2>1a. \A j \in K : j <= k => j <= l
    BY <2>0
  <2>1b. l <= l /\ ~ (l <= k)
    BY <2>0
  <2>1. upTo(k) \in SUBSET upTo(l) /\ l \in upTo(l) /\ l \notin upTo(k)
    BY <2>1a, <2>1b, Zenon
  <2> QED BY <1>2, <2>1, FS_Subset
<1>4. \A k, l \in K : Cardinality(upTo(k)) = Cardinality(upTo(l)) => k = l
  BY <1>3
<1>5. rank \in Injection(K, 1 .. C)
  BY <1>2, <1>4 DEF Injection, IsInjective
<1>6. IsFiniteSet(1 .. C) /\ Cardinality(1 .. C) = C
  BY <1>1, FS_Interval
<1>7. rank \in Surjection(K, 1 .. C)
  BY <1>1, <1>5, <1>6, FS_Injection
<1>8. \A n \in 1 .. C : \E k \in K : Cardinality(upTo(k)) = n
  BY <1>7 DEF Surjection
<1> QED BY <1>1, <1>2, <1>4, <1>8

\* Removing elements from a queue keeps exactly the others, and no two of them
\* become equal.
LEMMA WithoutProperties ==
    ASSUME NEW S, NEW q \in Seq(S), NEW R
    PROVE  /\ Without(q, R) \in Seq(S)
           /\ Members(Without(q, R)) = Members(q) \ R
           /\ (\A i, j \in 1 .. Len(q) : q[i] = q[j] => i = j) =>
                \A i, j \in 1 .. Len(Without(q, R)) :
                    Without(q, R)[i] = Without(q, R)[j] => i = j
<1> DEFINE K == {i \in 1 .. Len(q) : q[i] \notin R}
           rank(k) == Cardinality({j \in K : j <= k})
           nth(n) == CHOOSE k \in K : rank(k) = n
           C == Cardinality(K)
           w == [n \in 1 .. C |-> q[nth(n)]]
<1>1. Len(q) \in Nat /\ K \in SUBSET (1 .. Len(q))
  OBVIOUS
<1>2. /\ C \in Nat
      /\ \A k \in K : rank(k) \in 1 .. C
      /\ \A k, l \in K : rank(k) = rank(l) => k = l
      /\ \A n \in 1 .. C : \E k \in K : rank(k) = n
  <2> HIDE DEF K
  <2> QED BY <1>1, RankOnto
<1>3. Without(q, R) = w
  BY DEF Without
<1> HIDE DEF rank
<1>4. \A n \in 1 .. C : nth(n) \in K /\ rank(nth(n)) = n
  BY <1>2
<1>5. \A k \in K : nth(rank(k)) = k
  BY <1>2, <1>4
<1> HIDE DEF nth, C
<1>6. \A n \in 1 .. C : w[n] = q[nth(n)] /\ w[n] \in S
  BY <1>4
<1>7. w \in Seq(S) /\ Len(w) = C
  BY <1>2, <1>6
<1>8. Members(w) = Members(q) \ R
  <2>1. ASSUME NEW x \in Members(w) PROVE x \in Members(q) \ R
    BY <1>4, <1>6, <1>7 DEF Members
  <2>2. ASSUME NEW x \in Members(q) \ R PROVE x \in Members(w)
    <3>1. PICK k \in K : q[k] = x
      BY DEF Members
    <3>2. rank(k) \in 1 .. C /\ w[rank(k)] = x
      BY <1>2, <1>5, <1>6, <3>1
    <3> QED BY <1>7, <3>2 DEF Members
  <2> QED BY <2>1, <2>2
<1>9. ASSUME \A i, j \in 1 .. Len(q) : q[i] = q[j] => i = j,
             NEW i \in 1 .. Len(w), NEW j \in 1 .. Len(w), w[i] = w[j]
      PROVE  i = j
  <2>1. i \in 1 .. C /\ j \in 1 .. C
    BY <1>7, <1>9
  <2>2. nth(i) \in 1 .. Len(q) /\ nth(j) \in 1 .. Len(q) /\ q[nth(i)] = q[nth(j)]
    BY <1>4, <1>6, <1>9, <2>1
  <2>3. nth(i) = nth(j)
    BY <1>9, <2>2
  <2> QED BY ONLY <1>4, <2>1, <2>3
<1> HIDE DEF w
<1> QED BY <1>3, <1>7, <1>8, <1>9

\* A map with one more entry, or with fewer.
LEMMA PutErase ==
    ASSUME NEW f, NEW K, NEW T, DOMAIN f \subseteq K, f \in [DOMAIN f -> T]
    PROVE  /\ \A k \in K, v \in T :
                /\ DOMAIN Put(f, k, v) = DOMAIN f \cup {k}
                /\ DOMAIN Put(f, k, v) \subseteq K
                /\ Put(f, k, v) \in [DOMAIN Put(f, k, v) -> T]
           /\ \A R :
                /\ DOMAIN Erase(f, R) = DOMAIN f \ R
                /\ DOMAIN Erase(f, R) \subseteq K
                /\ Erase(f, R) \in [DOMAIN Erase(f, R) -> T]
  BY DEF Put, Erase

LEMMA CeilDivNat ==
    ASSUME NEW n \in Nat, NEW d \in Nat \ {0}
    PROVE  CeilDiv(n, d) \in Nat
  BY DEF CeilDiv

\* Cutting rows into chunks yields rows again.
LEMMA ChunkTypes ==
    ASSUME NEW S, NEW recs \in Seq(S), NEW size \in Nat \ {0}
    PROVE  /\ \A pos \in Nat : Slice(recs, pos, size) \in Seq(S)
           /\ AfterFirst(recs, size) \in Seq(S)
           /\ ChunkViews(recs, size) \in Seq(Seq(S))
           /\ Len(ChunkViews(recs, size)) \in Nat
<1>1. Len(recs) \in Nat
  OBVIOUS
<1>2. ASSUME NEW pos \in Nat PROVE Slice(recs, pos, size) \in Seq(S)
  <2> DEFINE a == pos * size  b == (pos + 1) * size
  <2>1. a \in Nat /\ b \in Nat
    OBVIOUS
  <2> HIDE DEF a, b
  <2>2. \A i \in a + 1 .. Least(b, Len(recs)) : recs[i] \in S
    BY <1>1, <2>1 DEF Least
  <2>3. a + 1 \in Int /\ Least(b, Len(recs)) \in Int
    BY <1>1, <2>1 DEF Least
  <2>4. SubSeq(recs, a + 1, Least(b, Len(recs))) \in Seq(S)
    BY <2>2, <2>3, SubSeqProperties
  <2> QED BY <2>4 DEF Slice, a, b
<1>3. AfterFirst(recs, size) \in Seq(S)
  <2>1. \A i \in Least(size, Len(recs)) + 1 .. Len(recs) : recs[i] \in S
    BY <1>1 DEF Least
  <2>2. Least(size, Len(recs)) + 1 \in Int /\ Len(recs) \in Int
    BY <1>1 DEF Least
  <2> QED BY <2>1, <2>2, SubSeqProperties DEF AfterFirst
<1>4. ChunkViews(recs, size) \in Seq(Seq(S)) /\ Len(ChunkViews(recs, size)) \in Nat
  <2> DEFINE n == CeilDiv(Len(recs), size)
  <2>1. n \in Nat
    BY <1>1, CeilDivNat
  <2> HIDE DEF n
  <2>2. \A i \in 1 .. n : Slice(recs, i - 1, size) \in Seq(S)
    BY <1>2, <2>1
  <2>3. [i \in 1 .. n |-> Slice(recs, i - 1, size)] \in Seq(Seq(S))
    BY <2>1, <2>2
  <2>4. ChunkViews(recs, size) = [i \in 1 .. n |-> Slice(recs, i - 1, size)]
    BY Zenon DEF ChunkViews, n
  <2>5. ChunkViews(recs, size) \in Seq(Seq(S))
    BY <2>3, <2>4, Zenon
  <2> QED BY ONLY <2>5, LenProperties
<1> QED BY <1>2, <1>3, <1>4

-----------------------------------------------------------------------------
(* Type correctness.                                                       *)

\* What the configuration and the queries are made of.
LEMMA Parts ==
    /\ \A n \in ChunkSizes : n \in Nat \ {0}
    /\ \A s \in Submissions :
          /\ Rid(s) \in Rids
          /\ Query[s].local \in Seq(Record) /\ Query[s].local_count \in Nat
          /\ \A ok \in SUBSET Children :
                /\ Query[s].merged[ok] \in Seq(Record)
                /\ Query[s].merged_count[ok] \in Nat
  BY QueryAssumption, ConfigAssumption DEF QueryType, Rid

LEMMA NoResponseType == NoResponse \in Response
<1> DEFINE size == CHOOSE n \in ChunkSizes : TRUE
<1>1. size \in ChunkSizes
  BY ConfigAssumption
<1> HIDE DEF size
<1>2. [ status |-> "none", records |-> <<>>, is_last |-> FALSE, count |-> 0,
        size |-> size ] \in Response
  BY <1>1 DEF Response
<1> QED BY <1>2 DEF NoResponse, size

\* What the children add is rows and a count.
LEMMA MergedTypes ==
    ASSUME NEW s \in Submissions
    PROVE  /\ OkChildren(s) \in SUBSET Children
           /\ MergedRecords(s) \in Seq(Record)
           /\ MergedCount(s) \in Nat
<1>1. OkChildren(s) \in SUBSET Children
  BY DEF OkChildren
<1>2. MergedRecords(s) \in Seq(Record)
  BY <1>1, Parts DEF MergedRecords
<1>3. MergedCount(s) \in Nat
  BY <1>1, <1>2, Parts DEF MergedCount
<1> QED BY <1>1, <1>2, <1>3

LEMMA FirstResponseType ==
    ASSUME NEW recs \in Seq(Record), NEW count \in Nat, NEW size \in ChunkSizes,
           NEW is_last \in BOOLEAN
    PROVE  FirstResponse(recs, count, size, is_last) \in Response
<1>1. Slice(recs, 0, size) \in Seq(Record)
  BY Parts, ChunkTypes
<1> QED BY <1>1 DEF FirstResponse, Response

\* The entries the handlers and the collectors build.
LEMMA EntryTypes ==
    ASSUME TypeOK, NEW s \in Submissions
    PROVE  /\ StreamEntry(s) \in Entry
           /\ GatherEntry(s) \in Entry
           /\ \A e \in Entry : Finalised(s, e) \in Entry
<1>1. response[s].size \in ChunkSizes /\ response[s].size \in Nat \ {0}
  BY Parts DEF TypeOK, Response
<1>2. 0 \in 0 .. ChunkTimeout
  BY ConfigAssumption
<1>3. StreamEntry(s) \in Entry
  <2> DEFINE size == response[s].size
             rest == AfterFirst(Query[s].local, size)
             chunks == IF Children = {} THEN ChunkViews(rest, size) ELSE <<>>
  <2>1. rest \in Seq(Record)
    BY <1>1, Parts, ChunkTypes
  <2> HIDE DEF rest
  <2>2. chunks \in Seq(Seq(Record)) /\ Len(chunks) \in Nat
    BY <1>1, <2>1, ChunkTypes
  <2> HIDE DEF chunks
  <2>3. [ finalized |-> Children = {},
          total_chunks |-> IF Children = {} THEN 1 + Len(chunks) ELSE 0,
          records_per_chunk |-> size, count |-> Query[s].local_count,
          stream |-> rest, chunks |-> chunks, age |-> 0 ] \in Entry
    BY <1>1, <1>2, <2>1, <2>2, Parts DEF Entry
  <2> QED BY <2>3 DEF StreamEntry, rest, chunks
<1>4. GatherEntry(s) \in Entry
  <2> DEFINE size == response[s].size
             chunks == ChunkViews(AfterFirst(MergedRecords(s), size), size)
  <2>1. AfterFirst(MergedRecords(s), size) \in Seq(Record)
    BY <1>1, MergedTypes, ChunkTypes
  <2>2. chunks \in Seq(Seq(Record)) /\ Len(chunks) \in Nat
    BY <1>1, <2>1, ChunkTypes
  <2> HIDE DEF chunks
  <2>3. [ finalized |-> TRUE, total_chunks |-> 1 + Len(chunks),
          records_per_chunk |-> size, count |-> MergedCount(s),
          stream |-> <<>>, chunks |-> chunks, age |-> 0 ] \in Entry
    BY <1>1, <1>2, <2>2, MergedTypes DEF Entry
  <2> QED BY <2>3 DEF GatherEntry, chunks
<1>5. ASSUME NEW e \in Entry PROVE Finalised(s, e) \in Entry
  <2> DEFINE stream == e.stream \o Query[s].merged[OkChildren(s)]
             chunks == ChunkViews(stream, e.records_per_chunk)
             count == IF Query[s].aggregate
                      THEN e.count + Query[s].merged_count[OkChildren(s)]
                      ELSE Len(response[s].records) + Len(stream)
  <2>1. stream \in Seq(Record)
    BY MergedTypes, Parts DEF Entry
  <2>2. e.records_per_chunk \in Nat \ {0}
    BY Parts DEF Entry
  <2>3. response[s].records \in Seq(Record)
    BY DEF TypeOK, Response
  <2> HIDE DEF stream
  <2>4. chunks \in Seq(Seq(Record)) /\ Len(chunks) \in Nat
    BY <2>1, <2>2, ChunkTypes
  <2>5. /\ Len(response[s].records) \in Nat /\ Len(stream) \in Nat
        /\ e.count \in Nat /\ Query[s].merged_count[OkChildren(s)] \in Nat
    BY <2>1, <2>3, MergedTypes, Parts DEF Entry
  <2>6. count \in Nat
    BY <2>5
  <2> DEFINE total == 1 + Len(chunks)
  <2>7. total \in Nat
    BY <2>4
  <2>8. Finalised(s, e) =
          [e EXCEPT !.finalized = TRUE, !.total_chunks = total,
                    !.count = count, !.stream = stream, !.chunks = chunks]
    BY Zenon DEF Finalised, stream
  <2> HIDE DEF chunks, count, total
  <2>9. [e EXCEPT !.finalized = TRUE, !.total_chunks = total,
                  !.count = count, !.stream = stream, !.chunks = chunks] \in Entry
    BY <2>1, <2>4, <2>6, <2>7 DEF Entry
  <2> QED BY <2>8, <2>9, Zenon
<1> QED BY <1>3, <1>4, <1>5

LEMMA InitType == Init => TypeOK
  BY NoResponseType, ConfigAssumption, EmptySeq DEF Init, TypeOK, Handler

\* The tables stay maps from request ids.
LEMMA TableTypes ==
    ASSUME TypeOK
    PROVE  /\ \A r \in Rids, s \in Submissions :
                /\ DOMAIN Put(active_cancel, r, s) \subseteq Rids
                /\ Put(active_cancel, r, s)
                     \in [DOMAIN Put(active_cancel, r, s) -> Submissions]
           /\ \A R :
                /\ DOMAIN Erase(active_cancel, R) \subseteq Rids
                /\ Erase(active_cancel, R)
                     \in [DOMAIN Erase(active_cancel, R) -> Submissions]
           /\ \A r \in Rids, e \in Entry :
                /\ DOMAIN Put(chunk_cache, r, e) \subseteq Rids
                /\ Put(chunk_cache, r, e) \in [DOMAIN Put(chunk_cache, r, e) -> Entry]
           /\ \A R :
                /\ DOMAIN Erase(chunk_cache, R) \subseteq Rids
                /\ Erase(chunk_cache, R) \in [DOMAIN Erase(chunk_cache, R) -> Entry]
<1>1. /\ DOMAIN active_cancel \subseteq Rids
      /\ active_cancel \in [DOMAIN active_cancel -> Submissions]
  BY DEF TypeOK
<1>2. /\ DOMAIN chunk_cache \subseteq Rids
      /\ chunk_cache \in [DOMAIN chunk_cache -> Entry]
  BY DEF TypeOK
<1>3. /\ \A r \in Rids, s \in Submissions :
           /\ DOMAIN Put(active_cancel, r, s) \subseteq Rids
           /\ Put(active_cancel, r, s)
                \in [DOMAIN Put(active_cancel, r, s) -> Submissions]
      /\ \A R :
           /\ DOMAIN Erase(active_cancel, R) \subseteq Rids
           /\ Erase(active_cancel, R)
                \in [DOMAIN Erase(active_cancel, R) -> Submissions]
  BY ONLY <1>1, PutErase
<1>4. /\ \A r \in Rids, e \in Entry :
           /\ DOMAIN Put(chunk_cache, r, e) \subseteq Rids
           /\ Put(chunk_cache, r, e) \in [DOMAIN Put(chunk_cache, r, e) -> Entry]
      /\ \A R :
           /\ DOMAIN Erase(chunk_cache, R) \subseteq Rids
           /\ Erase(chunk_cache, R) \in [DOMAIN Erase(chunk_cache, R) -> Entry]
  BY ONLY <1>2, PutErase
<1> QED BY <1>3, <1>4

\* The handler's steps up to the scatter, and the children's answers.
LEMMA TypeOfAdmission ==
    ASSUME TypeOK, NEW s \in Submissions
    PROVE  /\ Submit(s) => TypeOK'
           /\ AcquireSlot(s) => TypeOK'
           /\ Register(s) => TypeOK'
           /\ RejectQuery(s) => TypeOK'
           /\ Scatter(s) => TypeOK'
           /\ \A c \in Children : ChildReply(s, c) => TypeOK'
<1> USE DEF TypeOK, Handler, serverVars, handlerVars, clientVars
<1>1. Submit(s) => TypeOK'
  BY DEF Submit
<1>2. AcquireSlot(s) => TypeOK'
  BY DEF AcquireSlot
<1>3. Register(s) => TypeOK'
  BY TableTypes, Parts DEF Register
<1>4. RejectQuery(s) => TypeOK'
  <2>1. [response EXCEPT ![s].status = "invalid"] \in [Submissions -> Response]
    BY DEF Response
  <2> QED BY <2>1, TableTypes DEF RejectQuery
<1>5. Scatter(s) => TypeOK'
  BY DEF Scatter
<1>6. ASSUME NEW c \in Children, ChildReply(s, c) PROVE TypeOK'
  BY <1>6 DEF ChildReply
<1> QED BY <1>1, <1>2, <1>3, <1>4, <1>5, <1>6

LEMMA InsertEntryType ==
    ASSUME TypeOK, NEW s \in Submissions, NEW e \in Entry, InsertEntry(s, e)
    PROVE  /\ DOMAIN chunk_cache' \subseteq Rids
           /\ chunk_cache' \in [DOMAIN chunk_cache' -> Entry]
           /\ fairness_queue' \in Seq(Rids)
<1>1. Rid(s) \in Rids
  BY Parts
<1>2. CASE cancel_flag[s]
  BY <1>2 DEF InsertEntry, TypeOK
<1>3. CASE ~ cancel_flag[s]
  <2>1. chunk_cache' = Put(chunk_cache, Rid(s), e)
    BY <1>3 DEF InsertEntry
  <2>2. fairness_queue' = Append(fairness_queue, Rid(s)) /\ fairness_queue \in Seq(Rids)
    BY <1>3, Zenon DEF InsertEntry, TypeOK
  <2> QED BY <1>1, <2>1, <2>2, TableTypes
<1> QED BY <1>2, <1>3

\* The handler's steps after the scatter.
LEMMA TypeOfAnswering ==
    ASSUME TypeOK, NEW s \in Submissions
    PROVE  /\ StreamRespond(s) => TypeOK'
           /\ StreamInsert(s) => TypeOK'
           /\ GatherRespond(s) => TypeOK'
           /\ GatherCancelled(s) => TypeOK'
           /\ GatherInsert(s) => TypeOK'
           /\ Unregister(s) => TypeOK'
           /\ Return(s) => TypeOK'
<1>1. \A e \in Entry : InsertEntry(s, e) =>
        /\ DOMAIN chunk_cache' \subseteq Rids
        /\ chunk_cache' \in [DOMAIN chunk_cache' -> Entry]
        /\ fairness_queue' \in Seq(Rids)
  BY InsertEntryType
<1> USE DEF TypeOK, Handler, serverVars, handlerVars, clientVars
<1>2. StreamRespond(s) => TypeOK'
  <2> SUFFICES ASSUME StreamRespond(s) PROVE TypeOK'
    OBVIOUS
  <2> DEFINE is_last == Children = {} /\ Len(Query[s].local) <= dynamic_chunk_size
             first == FirstResponse(Query[s].local, Query[s].local_count,
                                    dynamic_chunk_size, is_last)
  <2>1. first \in Response
    BY FirstResponseType, Parts
  <2>2. response' = [response EXCEPT ![s] = first]
    BY Zenon DEF StreamRespond
  <2> HIDE DEF first
  <2> QED BY <2>1, <2>2 DEF StreamRespond
<1>3. StreamInsert(s) => TypeOK'
  BY <1>1, EntryTypes DEF StreamInsert, Detach
<1>4. GatherRespond(s) => TypeOK'
  <2> SUFFICES ASSUME GatherRespond(s) PROVE TypeOK'
    OBVIOUS
  <2> DEFINE is_last == Len(MergedRecords(s)) <= dynamic_chunk_size
             first == FirstResponse(MergedRecords(s), MergedCount(s),
                                    dynamic_chunk_size, is_last)
  <2>1a. /\ MergedRecords(s) \in Seq(Record) /\ MergedCount(s) \in Nat
         /\ is_last \in BOOLEAN /\ dynamic_chunk_size \in ChunkSizes
    BY MergedTypes
  <2>1. first \in Response
    BY ONLY <2>1a, FirstResponseType
  <2>2. response' = response \/ response' = [response EXCEPT ![s] = first]
    BY Zenon DEF GatherRespond
  <2>3. response' \in [Submissions -> Response]
    BY <2>1, <2>2
  <2> HIDE DEF first
  <2> QED BY <2>3 DEF GatherRespond
<1>5. GatherCancelled(s) => TypeOK'
  <2>1. [response EXCEPT ![s].status = "cancelled"] \in [Submissions -> Response]
    BY DEF Response
  <2> QED BY <2>1, TableTypes, Parts DEF GatherCancelled
<1>6. GatherInsert(s) => TypeOK'
  BY <1>1, EntryTypes DEF GatherInsert
<1>7. Unregister(s) => TypeOK'
  <2>1. /\ DOMAIN Erase(active_cancel, {Rid(s)}) \subseteq Rids
        /\ Erase(active_cancel, {Rid(s)})
             \in [DOMAIN Erase(active_cancel, {Rid(s)}) -> Submissions]
    BY TableTypes
  <2> QED BY <2>1 DEF Unregister
<1>8. Return(s) => TypeOK'
  BY DEF Return, Tune
<1> QED BY <1>2, <1>3, <1>4, <1>5, <1>6, <1>7, <1>8

LEMMA TypeOfCollector ==
    ASSUME TypeOK, NEW s \in Submissions
    PROVE  /\ BgGather(s) => TypeOK'
           /\ BgMerge(s) => TypeOK'
<1>1. BgGather(s) => TypeOK'
  BY DEF BgGather, TypeOK, Handler, serverVars, handlerVars, clientVars
<1>2. ASSUME BgMerge(s) PROVE TypeOK'
  <2> DEFINE r == Rid(s)
  <2>1. CASE r \in canceled_ids \/ r \notin DOMAIN chunk_cache
    <3>1. UNCHANGED <<chunk_cache, active_cancel>>
      BY <1>2, <2>1 DEF BgMerge
    <3> QED BY <1>2, <3>1 DEF BgMerge, TypeOK, Handler, clientVars
  <2>2. CASE ~ (r \in canceled_ids \/ r \notin DOMAIN chunk_cache)
    <3>1. /\ chunk_cache' = Put(chunk_cache, r, Finalised(s, chunk_cache[r]))
          /\ active_cancel' = Erase(active_cancel, {r})
      BY <1>2, <2>2 DEF BgMerge
    <3>2. r \in Rids /\ Finalised(s, chunk_cache[r]) \in Entry
      BY <2>2, Parts, EntryTypes DEF TypeOK
    <3>3. /\ DOMAIN chunk_cache' \subseteq Rids
          /\ chunk_cache' \in [DOMAIN chunk_cache' -> Entry]
          /\ DOMAIN active_cancel' \subseteq Rids
          /\ active_cancel' \in [DOMAIN active_cancel' -> Submissions]
      BY <3>1, <3>2, TableTypes
    <3> QED BY <1>2, <3>3 DEF BgMerge, TypeOK, Handler, clientVars
  <2> QED BY <2>1, <2>2
<1> QED BY <1>1, <1>2

\* What FetchChunk does to the cache and the queue.
LEMMA ServeChunkType ==
    ASSUME TypeOK, NEW r \in Rids, NEW i \in Nat \ {0}, ServeChunk(r, i)
    PROVE  /\ DOMAIN chunk_cache' \subseteq Rids
           /\ chunk_cache' \in [DOMAIN chunk_cache' -> Entry]
           /\ fairness_queue' \in Seq(Rids)
           /\ dynamic_chunk_size' \in ChunkSizes
           /\ chunk_cache[r].chunks[i] \in Seq(Record)
           /\ chunk_cache[r].count \in Nat
<1>1. r \in DOMAIN chunk_cache /\ i <= Len(chunk_cache[r].chunks)
  BY DEF ServeChunk, MayServe, Ready, Cached
<1>2. chunk_cache[r] \in Entry /\ fairness_queue \in Seq(Rids)
  BY <1>1 DEF TypeOK
<1>3. chunk_cache[r].chunks[i] \in Seq(Record) /\ chunk_cache[r].count \in Nat
  BY <1>1, <1>2 DEF Entry
<1>4. dynamic_chunk_size' \in ChunkSizes
  BY DEF ServeChunk, Tune
<1>5. CASE IsLast(r, i)
  <2>1. /\ chunk_cache' = Erase(chunk_cache, {r})
        /\ fairness_queue' = Without(fairness_queue, {r})
    BY <1>5 DEF ServeChunk
  <2>2. fairness_queue' \in Seq(Rids)
    BY ONLY <1>2, <2>1, WithoutProperties
  <2> QED BY <1>3, <1>4, <2>1, <2>2, TableTypes
<1>6. CASE ~ IsLast(r, i)
  <2>1. chunk_cache' = [chunk_cache EXCEPT ![r].age = 0]
    BY <1>6 DEF ServeChunk
  <2>2. 0 \in 0 .. ChunkTimeout
    BY ConfigAssumption
  <2> DEFINE e == [chunk_cache[r] EXCEPT !.age = 0]
  <2>2a. e \in Entry
    BY <1>2, <2>2 DEF Entry
  <2>2b. chunk_cache' = [chunk_cache EXCEPT ![r] = e]
    BY <2>1
  <2> HIDE DEF e
  <2>3. /\ DOMAIN chunk_cache' \subseteq Rids
        /\ chunk_cache' \in [DOMAIN chunk_cache' -> Entry]
    BY <1>1, <2>2a, <2>2b DEF TypeOK
  <2>4. \/ fairness_queue' = fairness_queue
        \/ fairness_queue # <<>> /\ fairness_queue' = Append(Tail(fairness_queue), r)
    BY <1>6 DEF ServeChunk
  <2>5. fairness_queue # <<>> => Tail(fairness_queue) \in Seq(Rids)
    BY ONLY <1>2, HeadTailProperties
  <2>5a. fairness_queue # <<>> => Append(Tail(fairness_queue), r) \in Seq(Rids)
    BY <2>5, Zenon, AppendProperties
  <2>6. fairness_queue' \in Seq(Rids)
    BY <1>2, <2>4, <2>5a, Zenon
  <2> QED BY <1>3, <1>4, <2>3, <2>6
<1> QED BY <1>5, <1>6

LEMMA TypeOfClient ==
    ASSUME TypeOK, NEW s \in Submissions
    PROVE  /\ ReceiveFirst(s) => TypeOK'
           /\ FetchServed(s) => TypeOK'
           /\ FetchReplyLost(s) => TypeOK'
           /\ FetchRefused(s) => TypeOK'
           /\ SubmitFails(s) => TypeOK'
           /\ FetchFails(s) => TypeOK'
           /\ Abandon(s) => TypeOK'
<1> DEFINE r == Rid(s)
<1>0. r \in Rids /\ idx[s] \in Nat \ {0}
  BY Parts DEF TypeOK
<1>1. ReceiveFirst(s) => TypeOK'
  <2>1. response[s].records \in Seq(Record) /\ response[s].count \in Nat
    BY DEF TypeOK, Response
  <2> QED BY <2>1 DEF ReceiveFirst, TypeOK, Handler, serverVars, handlerVars
<1>2. ASSUME FetchServed(s) PROVE TypeOK'
  <2>1. ServeChunk(r, idx[s])
    BY <1>2 DEF FetchServed
  <2>2. /\ DOMAIN chunk_cache' \subseteq Rids
        /\ chunk_cache' \in [DOMAIN chunk_cache' -> Entry]
        /\ fairness_queue' \in Seq(Rids)
        /\ dynamic_chunk_size' \in ChunkSizes
        /\ chunk_cache[r].chunks[idx[s]] \in Seq(Record)
        /\ chunk_cache[r].count \in Nat
    BY <1>0, <2>1, ServeChunkType
  <2>3. /\ received' = [received EXCEPT ![s] = @ \o chunk_cache[r].chunks[idx[s]]]
        /\ reported' = [reported EXCEPT ![s] = chunk_cache[r].count]
        /\ client' = client \/ client' = [client EXCEPT ![s] = "done"]
        /\ idx' = idx \/ idx' = [idx EXCEPT ![s] = @ + 1]
        /\ UNCHANGED disturbed
    BY <1>2 DEF FetchServed
  <2>4. /\ received' \in [Submissions -> Seq(Record)]
        /\ reported' \in [Submissions -> Nat]
        /\ idx' \in [Submissions -> Nat \ {0}]
        /\ client' \in [Submissions ->
             {"start", "submitting", "fetching", "done", "failed", "gone"}]
    <3>1. received[s] \o chunk_cache[r].chunks[idx[s]] \in Seq(Record)
      BY <2>2 DEF TypeOK
    <3>2. received' \in [Submissions -> Seq(Record)]
      BY <2>3, <3>1 DEF TypeOK
    <3>3. reported' \in [Submissions -> Nat]
      BY <2>2, <2>3 DEF TypeOK
    <3>4. idx' \in [Submissions -> Nat \ {0}]
      <4>1. idx[s] + 1 \in Nat \ {0}
        BY <1>0
      <4>2. idx \in [Submissions -> Nat \ {0}]
        BY DEF TypeOK
      <4>3. idx' = idx \/ idx' = [idx EXCEPT ![s] = idx[s] + 1]
        BY <2>3
      <4> QED BY ONLY <4>1, <4>2, <4>3
    <3>5. client' \in [Submissions ->
             {"start", "submitting", "fetching", "done", "failed", "gone"}]
      BY <2>3 DEF TypeOK
    <3> QED BY <3>2, <3>3, <3>4, <3>5
  <2> QED BY <2>1, <2>2, <2>3, <2>4 DEF TypeOK, ServeChunk, Handler, handlerVars
<1>3. ASSUME FetchReplyLost(s) PROVE TypeOK'
  <2>1. ServeChunk(r, idx[s])
    BY <1>3 DEF FetchReplyLost
  <2>2. /\ DOMAIN chunk_cache' \subseteq Rids
        /\ chunk_cache' \in [DOMAIN chunk_cache' -> Entry]
        /\ fairness_queue' \in Seq(Rids)
        /\ dynamic_chunk_size' \in ChunkSizes
    BY <1>0, <2>1, ServeChunkType
  <2>3. /\ disturbed' \subseteq Rids /\ UNCHANGED <<idx, received, reported>>
        /\ client' \in [Submissions ->
             {"start", "submitting", "fetching", "done", "failed", "gone"}]
    BY <1>0, <1>3 DEF FetchReplyLost, TypeOK
  <2> QED BY <2>1, <2>2, <2>3 DEF TypeOK, ServeChunk, Handler, handlerVars
<1>4. FetchRefused(s) => TypeOK'
  BY DEF FetchRefused, TypeOK, Handler, serverVars, handlerVars
<1>5. Abandon(s) => TypeOK'
  BY DEF Abandon, TypeOK, Handler, serverVars, handlerVars
<1>6. SubmitFails(s) => TypeOK'
  BY <1>0 DEF SubmitFails, TypeOK, Handler, serverVars, handlerVars
<1>7. FetchFails(s) => TypeOK'
  BY <1>0 DEF FetchFails, TypeOK, Handler, serverVars, handlerVars
<1> QED BY <1>1, <1>2, <1>3, <1>4, <1>5, <1>6, <1>7

LEMMA TypeOfService ==
    ASSUME TypeOK
    PROVE  /\ \A r \in Rids : CancelQuery(r) => TypeOK'
           /\ Tick => TypeOK'
           /\ EvictStale => TypeOK'
<1>1. \A R : Without(fairness_queue, R) \in Seq(Rids)
  <2>1. fairness_queue \in Seq(Rids)
    BY DEF TypeOK
  <2> QED BY ONLY <2>1, WithoutProperties
<1>2. ASSUME NEW r \in Rids, CancelQuery(r) PROVE TypeOK'
  <2>1. /\ chunk_cache' = Erase(chunk_cache, {r})
        /\ fairness_queue' = Without(fairness_queue, {r})
    BY <1>2 DEF CancelQuery
  <2>2. /\ DOMAIN chunk_cache' \subseteq Rids
        /\ chunk_cache' \in [DOMAIN chunk_cache' -> Entry]
        /\ fairness_queue' \in Seq(Rids)
    BY <1>1, <2>1, TableTypes
  <2>3. cancel_flag' \in [Submissions -> BOOLEAN]
    BY <1>2, Zenon DEF CancelQuery
  <2> QED BY <1>2, <2>2, <2>3 DEF CancelQuery, TypeOK, Handler, handlerVars, clientVars
<1>3. ASSUME Tick PROVE TypeOK'
  <2>1. \A n \in 0 .. ChunkTimeout : Least(n + 1, ChunkTimeout) \in 0 .. ChunkTimeout
    BY ConfigAssumption DEF Least
  <2>2. \A e \in Entry : [e EXCEPT !.age = Least(@ + 1, ChunkTimeout)] \in Entry
    BY <2>1 DEF Entry
  <2>3. chunk_cache' = [r \in DOMAIN chunk_cache |->
            [chunk_cache[r] EXCEPT !.age = Least(@ + 1, ChunkTimeout)]]
    BY <1>3 DEF Tick
  <2>4. /\ DOMAIN chunk_cache' \subseteq Rids
        /\ chunk_cache' \in [DOMAIN chunk_cache' -> Entry]
    BY <2>2, <2>3 DEF TypeOK
  <2> QED BY <1>3, <2>4 DEF Tick, TypeOK, Handler, handlerVars, clientVars
<1>4. ASSUME EvictStale PROVE TypeOK'
  <2>1. /\ chunk_cache' = Erase(chunk_cache, Stale)
        /\ fairness_queue' = Without(fairness_queue, Stale)
        /\ Stale \subseteq Rids
    BY <1>4 DEF EvictStale, Stale, TypeOK
  <2>2. /\ DOMAIN chunk_cache' \subseteq Rids
        /\ chunk_cache' \in [DOMAIN chunk_cache' -> Entry]
        /\ fairness_queue' \in Seq(Rids)
    BY <1>1, <2>1, TableTypes
  <2> QED BY <1>4, <2>1, <2>2 DEF EvictStale, TypeOK, Handler, handlerVars, clientVars
<1> QED BY <1>2, <1>3, <1>4

LEMMA NextType == TypeOK /\ [Next]_vars => TypeOK'
<1> SUFFICES ASSUME TypeOK, [Next]_vars PROVE TypeOK'
  OBVIOUS
<1>1. CASE UNCHANGED vars
  BY <1>1 DEF vars, serverVars, handlerVars, clientVars, TypeOK
<1>2. CASE Next
  BY <1>2, TypeOfAdmission, TypeOfAnswering, TypeOfCollector, TypeOfClient,
     TypeOfService DEF Next, HandlerStep, CollectorStep, ClientStep
<1> QED BY <1>1, <1>2

\* The tables, queues, threads and clients keep their types in every behaviour:
\* no handler, collector, client or eviction step ever indexes a chunk or an
\* entry that is not there.
THEOREM TypeCorrect == Spec => []TypeOK
<1>1. Init => TypeOK
  BY InitType
<1>2. TypeOK /\ [Next]_vars => TypeOK'
  BY NextType
<1> QED BY <1>1, <1>2, PTL DEF Spec

-----------------------------------------------------------------------------
(* Admission.                                                              *)

Holders == {s \in Submissions : pc[s] \in Holding}

LEMMA HoldersFinite == IsFiniteSet(Holders) /\ Cardinality(Holders) \in Nat
  BY SubmissionsAssumption, FS_Subset, FS_CardinalityType DEF Holders

\* Only AcquireSlot and Return change who holds a slot, and the counter.
LEMMA SlotSteps ==
    ASSUME TypeOK, [Next]_vars
    PROVE  \/ Holders' = Holders /\ active_submit_count' = active_submit_count
           \/ \E s \in Submissions : AcquireSlot(s) \/ Return(s)
<1> USE DEF TypeOK, Holders, Holding, Handler, serverVars, handlerVars
<1>1. ASSUME NEW s \in Submissions,
             Submit(s) \/ Register(s) \/ RejectQuery(s) \/ Scatter(s)
      PROVE  Holders' = Holders /\ active_submit_count' = active_submit_count
  <2>1. CASE Submit(s)
    <3>1. pc[s] = "idle" /\ pc' = [pc EXCEPT ![s] = "waiting"]
          /\ active_submit_count' = active_submit_count
      BY <2>1 DEF Submit
    <3> QED BY <3>1
  <2>2. CASE Register(s) \/ RejectQuery(s) \/ Scatter(s)
    <3>1. /\ pc[s] \in {"admitted", "registered"}
          /\ \E to \in {"registered", "returning", "scattered"} :
                pc' = [pc EXCEPT ![s] = to]
          /\ active_submit_count' = active_submit_count
      BY <2>2 DEF Register, RejectQuery, Scatter
    <3> QED BY <3>1
  <2> QED BY <1>1, <2>1, <2>2
<1>2. ASSUME NEW s \in Submissions, StreamRespond(s) \/ StreamInsert(s)
      PROVE  Holders' = Holders /\ active_submit_count' = active_submit_count
  BY <1>2 DEF StreamRespond, StreamInsert, Detach
<1>3. ASSUME NEW s \in Submissions,
             GatherRespond(s) \/ GatherCancelled(s) \/ GatherInsert(s) \/ Unregister(s)
      PROVE  Holders' = Holders /\ active_submit_count' = active_submit_count
  <2>1. /\ pc[s] \in {"scattered", "cancelled", "insert", "unregister"}
        /\ \E to \in {"cancelled", "insert", "unregister", "returning"} :
              pc' = [pc EXCEPT ![s] = to]
        /\ active_submit_count' = active_submit_count
    BY <1>3 DEF GatherRespond, GatherCancelled, GatherInsert, Unregister
  <2> QED BY <2>1
<1>4. ASSUME pc' = pc, active_submit_count' = active_submit_count
      PROVE  Holders' = Holders /\ active_submit_count' = active_submit_count
  BY <1>4
<1>5. ASSUME NEW s \in Submissions,
             \/ CollectorStep(s) \/ ClientStep(s) \/ FetchReplyLost(s)
             \/ SubmitFails(s) \/ FetchFails(s) \/ Abandon(s)
             \/ \E c \in Children : ChildReply(s, c)
      PROVE  pc' = pc /\ active_submit_count' = active_submit_count
  BY <1>5 DEF CollectorStep, BgGather, BgMerge, ClientStep, ReceiveFirst, FetchServed,
     FetchRefused, FetchReplyLost, ServeChunk, SubmitFails, FetchFails, Abandon, ChildReply
<1>6. ASSUME \/ \E r \in Rids : CancelQuery(r)
             \/ Tick \/ EvictStale \/ UNCHANGED vars
      PROVE  pc' = pc /\ active_submit_count' = active_submit_count
  BY <1>6 DEF CancelQuery, Tick, EvictStale, vars
<1> QED BY <1>1, <1>2, <1>3, <1>4, <1>5, <1>6 DEF Next, HandlerStep

\* The counter of active submissions always equals the number of handlers between
\* their admission and their return, on the rejected and cancelled paths too, and
\* stays within max_concurrent_requests.
THEOREM SlotsCorrect == Spec => []SlotAccounting
<1>1. Init => SlotAccounting
  <2> SUFFICES ASSUME Init PROVE SlotAccounting
    OBVIOUS
  <2>1. Holders = {} /\ active_submit_count = 0
    BY DEF Init, Holders, Holding, Handler
  <2>2. Cardinality(Holders) = 0
    BY <2>1, FS_EmptySet
  <2> QED BY <2>1, <2>2, ConfigAssumption DEF SlotAccounting, Holders
<1>2. TypeOK /\ SlotAccounting /\ [Next]_vars => SlotAccounting'
  <2> SUFFICES ASSUME TypeOK, SlotAccounting, [Next]_vars PROVE SlotAccounting'
    OBVIOUS
  <2>1. active_submit_count = Cardinality(Holders) /\ active_submit_count <= MaxConcurrent
    BY DEF SlotAccounting, Holders
  <2>2. IsFiniteSet(Holders) /\ Cardinality(Holders) \in Nat
    BY HoldersFinite
  <2>3. ASSUME NEW s \in Submissions, AcquireSlot(s)
        PROVE  /\ active_submit_count' = Cardinality(Holders')
               /\ active_submit_count' <= MaxConcurrent
    <3>1. Holders' = Holders \cup {s} /\ s \notin Holders
      BY <2>3 DEF AcquireSlot, TypeOK, Holders, Holding, Handler
    <3>2. Cardinality(Holders') = Cardinality(Holders) + 1
      BY <2>2, <3>1, FS_AddElement
    <3>3. active_submit_count' = active_submit_count + 1
          /\ active_submit_count < MaxConcurrent
      BY <2>3 DEF AcquireSlot, SlotFree
    <3> QED BY <2>1, <2>2, <3>2, <3>3, ConfigAssumption
  <2>4. ASSUME NEW s \in Submissions, Return(s)
        PROVE  /\ active_submit_count' = Cardinality(Holders')
               /\ active_submit_count' <= MaxConcurrent
    <3>1. Holders' = Holders \ {s} /\ s \in Holders
      BY <2>4 DEF Return, TypeOK, Holders, Holding, Handler
    <3>2. Cardinality(Holders') = Cardinality(Holders) - 1
      BY <2>2, <3>1, FS_RemoveElement
    <3>3. Cardinality(Holders) # 0
      BY <2>2, <3>1, FS_EmptySet
    <3>4. active_submit_count > 0 => active_submit_count' = active_submit_count - 1
      BY <2>4 DEF Return
    <3> QED BY <2>1, <2>2, <3>2, <3>3, <3>4, ConfigAssumption
  <2>5. /\ active_submit_count' = Cardinality(Holders')
        /\ active_submit_count' <= MaxConcurrent
    BY <2>1, <2>3, <2>4, SlotSteps
  <2> QED BY <2>5 DEF SlotAccounting, Holders
<1> QED BY <1>1, <1>2, TypeCorrect, PTL DEF Spec

-----------------------------------------------------------------------------
(* The cache and the queue, whatever ids the clients use.                  *)

LEMMA MembersOfQueue ==
    ASSUME NEW S, NEW q \in Seq(S)
    PROVE  /\ \A r \in S : Members(Append(q, r)) = Members(q) \cup {r}
           /\ q # <<>> => Members(q) = {Head(q)} \cup Members(Tail(q))
<1>1. ASSUME NEW r \in S PROVE Members(Append(q, r)) = Members(q) \cup {r}
  BY DEF Members
<1>2. ASSUME q # <<>> PROVE Members(q) = {Head(q)} \cup Members(Tail(q))
  <2>1. /\ Len(q) \in Nat \ {0}
        /\ Len(Tail(q)) = Len(q) - 1
        /\ \A i \in 1 .. Len(Tail(q)) : Tail(q)[i] = q[i + 1]
        /\ Head(q) = q[1]
    BY <1>2, HeadTailProperties
  <2>2. ASSUME NEW i \in 1 .. Len(q) PROVE q[i] \in {Head(q)} \cup Members(Tail(q))
    <3>1. CASE i = 1
      BY <2>1, <3>1
    <3>2. CASE i # 1
      <4>1. i - 1 \in 1 .. Len(Tail(q)) /\ Tail(q)[i - 1] = q[i]
        BY <2>1, <3>2
      <4> QED BY <4>1 DEF Members
    <3> QED BY <3>1, <3>2
  <2>3. ASSUME NEW i \in 1 .. Len(Tail(q)) PROVE Tail(q)[i] \in Members(q)
    <3>1. i + 1 \in 1 .. Len(q) /\ Tail(q)[i] = q[i + 1]
      BY <2>1
    <3> QED BY <3>1 DEF Members
  <2>4. Head(q) \in Members(q)
    BY <2>1 DEF Members
  <2> QED BY <2>2, <2>3, <2>4 DEF Members
<1> QED BY <1>1, <1>2

\* How the cache and the queue change together, in any step.
LEMMA CacheSteps ==
    ASSUME TypeOK, [Next]_vars
    PROVE  \/ UNCHANGED <<chunk_cache, fairness_queue>>
           \/ /\ DOMAIN chunk_cache' = DOMAIN chunk_cache
              /\ \/ fairness_queue' = fairness_queue
                 \/ /\ fairness_queue # <<>>
                    /\ fairness_queue' = Append(Tail(fairness_queue), Head(fairness_queue))
           \/ \E R \in SUBSET Rids :
                 /\ DOMAIN chunk_cache' = DOMAIN chunk_cache \ R
                 /\ fairness_queue' = Without(fairness_queue, R)
           \/ \E s \in Submissions :
                 \/ /\ pc[s] = "insert" /\ ~ cancel_flag[s]
                    /\ pc'[s] \in {"unregister", "returning"}
                    /\ DOMAIN chunk_cache' = DOMAIN chunk_cache \cup {Rid(s)}
                    /\ fairness_queue' = Append(fairness_queue, Rid(s))
                 \/ /\ pc[s] = "cancelled"
                    /\ DOMAIN chunk_cache' = DOMAIN chunk_cache \ {Rid(s)}
                    /\ fairness_queue' = fairness_queue
<1> DEFINE Same == UNCHANGED <<chunk_cache, fairness_queue>>
           Turn == /\ DOMAIN chunk_cache' = DOMAIN chunk_cache
                   /\ \/ fairness_queue' = fairness_queue
                      \/ /\ fairness_queue # <<>>
                         /\ fairness_queue' =
                              Append(Tail(fairness_queue), Head(fairness_queue))
           Leave == \E R \in SUBSET Rids :
                 /\ DOMAIN chunk_cache' = DOMAIN chunk_cache \ R
                 /\ fairness_queue' = Without(fairness_queue, R)
           Enter(s) == /\ pc[s] = "insert" /\ ~ cancel_flag[s]
                       /\ pc'[s] \in {"unregister", "returning"}
                       /\ DOMAIN chunk_cache' = DOMAIN chunk_cache \cup {Rid(s)}
                       /\ fairness_queue' = Append(fairness_queue, Rid(s))
           Drop(s) == /\ pc[s] = "cancelled"
                      /\ DOMAIN chunk_cache' = DOMAIN chunk_cache \ {Rid(s)}
                      /\ fairness_queue' = fairness_queue
<1>1. ASSUME NEW s \in Submissions,
             \/ Submit(s) \/ AcquireSlot(s) \/ Register(s) \/ RejectQuery(s) \/ Scatter(s)
             \/ StreamRespond(s) \/ GatherRespond(s) \/ Unregister(s) \/ Return(s)
      PROVE  Same
  BY <1>1 DEF Submit, AcquireSlot, Register, RejectQuery, Scatter, StreamRespond,
     GatherRespond, Unregister, Return, serverVars
<1>2. ASSUME NEW s \in Submissions,
             \/ BgGather(s) \/ ReceiveFirst(s) \/ FetchRefused(s)
             \/ SubmitFails(s) \/ FetchFails(s) \/ Abandon(s)
             \/ \E c \in Children : ChildReply(s, c)
      PROVE  Same
  BY <1>2 DEF BgGather, ReceiveFirst, FetchRefused, SubmitFails, FetchFails, Abandon, ChildReply, serverVars
<1>3. ASSUME UNCHANGED vars PROVE Same
  BY <1>3 DEF vars, serverVars
<1>4. ASSUME NEW s \in Submissions, NEW e, pc[s] = "insert", InsertEntry(s, e),
             pc'[s] \in {"unregister", "returning"}
      PROVE  Same \/ Enter(s)
  BY <1>4, Zenon DEF InsertEntry, Put
<1>5. ASSUME NEW s \in Submissions, StreamInsert(s) \/ GatherInsert(s)
      PROVE  Same \/ Enter(s)
  <2>1. pc[s] = "insert" /\ pc'[s] \in {"unregister", "returning"}
    BY <1>5 DEF StreamInsert, GatherInsert, Detach, TypeOK
  <2> HIDE DEF Same, Enter
  <2> QED BY <1>4, <1>5, <2>1, Zenon DEF StreamInsert, GatherInsert
<1>6. ASSUME NEW s \in Submissions, GatherCancelled(s) PROVE Drop(s)
  BY <1>6, Zenon DEF GatherCancelled, Erase
<1>7. ASSUME NEW s \in Submissions, BgMerge(s) PROVE Same \/ Turn
  <2>1. CASE UNCHANGED chunk_cache
    BY <1>7, <2>1 DEF BgMerge
  <2>2. CASE ~ UNCHANGED chunk_cache
    <3>1. /\ Rid(s) \in DOMAIN chunk_cache
          /\ chunk_cache' = Put(chunk_cache, Rid(s), Finalised(s, chunk_cache[Rid(s)]))
          /\ fairness_queue' = fairness_queue
      BY <1>7, <2>2, Zenon DEF BgMerge
    <3> QED BY <3>1, Zenon DEF Put
  <2> QED BY <2>1, <2>2
<1>8. ASSUME NEW r \in Rids, NEW i, ServeChunk(r, i) PROVE Turn \/ Leave
  <2>1. CASE IsLast(r, i)
    <3>1. /\ DOMAIN chunk_cache' = DOMAIN chunk_cache \ {r}
          /\ fairness_queue' = Without(fairness_queue, {r})
      BY <1>8, <2>1, Zenon DEF ServeChunk, Erase
    <3> QED BY <3>1
  <2>2. CASE ~ IsLast(r, i)
    <3>1. DOMAIN chunk_cache' = DOMAIN chunk_cache
      BY <1>8, <2>2 DEF ServeChunk
    <3>2. \/ fairness_queue' = fairness_queue
          \/ /\ fairness_queue # <<>>
             /\ fairness_queue' = Append(Tail(fairness_queue), Head(fairness_queue))
      BY <1>8, <2>2, Zenon DEF ServeChunk
    <3> QED BY <3>1, <3>2
  <2> QED BY <2>1, <2>2
<1>9. ASSUME NEW s \in Submissions, FetchServed(s) \/ FetchReplyLost(s)
      PROVE  Turn \/ Leave
  <2>1. ServeChunk(Rid(s), idx[s]) /\ Rid(s) \in Rids
    BY <1>9, Parts DEF FetchServed, FetchReplyLost
  <2> HIDE DEF Turn, Leave
  <2> QED BY <1>8, <2>1
<1>10. ASSUME NEW r \in Rids, CancelQuery(r) PROVE Leave
  <2>1. /\ DOMAIN chunk_cache' = DOMAIN chunk_cache \ {r}
        /\ fairness_queue' = Without(fairness_queue, {r})
    BY <1>10, Zenon DEF CancelQuery, Erase
  <2> QED BY <2>1
<1>11. ASSUME Tick PROVE Turn
  BY <1>11, Zenon DEF Tick
<1>12. ASSUME EvictStale PROVE Leave
  <2>1. /\ DOMAIN chunk_cache' = DOMAIN chunk_cache \ Stale
        /\ fairness_queue' = Without(fairness_queue, Stale)
        /\ Stale \in SUBSET Rids
    BY <1>12 DEF EvictStale, Erase, Stale, TypeOK
  <2> QED BY <2>1
<1>13. Same \/ Turn \/ Leave \/ \E s \in Submissions : Enter(s) \/ Drop(s)
  <2> HIDE DEF Same, Turn, Leave, Enter, Drop
  <2> QED BY <1>1, <1>2, <1>3, <1>5, <1>6, <1>7, <1>9, <1>10, <1>11, <1>12
          DEF Next, HandlerStep, CollectorStep, ClientStep
<1> QED BY <1>13, Zenon

\* Every entry of the cache is in the fairness queue, even when clients reuse
\* request ids: it will get its turn.
THEOREM CachedIsQueuedCorrect == Spec => []CachedIsQueued
<1>1. Init => CachedIsQueued
  BY DEF Init, CachedIsQueued
<1>2. TypeOK /\ CachedIsQueued /\ [Next]_vars => CachedIsQueued'
  <2> SUFFICES ASSUME TypeOK, CachedIsQueued, [Next]_vars PROVE CachedIsQueued'
    OBVIOUS
  <2> DEFINE D == DOMAIN chunk_cache  q == fairness_queue
  <2>1. q \in Seq(Rids) /\ D \subseteq Members(q)
    BY DEF TypeOK, CachedIsQueued
  <2>2. CASE D' \subseteq D /\ q' = q
    BY <2>1, <2>2, Zenon DEF CachedIsQueued
  <2>3. CASE D' = D /\ q # <<>> /\ q' = Append(Tail(q), Head(q))
    <3>1. Head(q) \in Rids /\ Tail(q) \in Seq(Rids)
      BY <2>1, <2>3, HeadTailProperties
    <3>2. Members(Append(Tail(q), Head(q))) = Members(Tail(q)) \cup {Head(q)}
      <4>1. \A t \in Seq(Rids), h \in Rids : Members(Append(t, h)) = Members(t) \cup {h}
        BY MembersOfQueue
      <4> QED BY <3>1, <4>1, Zenon
    <3>3. Members(q) = {Head(q)} \cup Members(Tail(q))
      <4> HIDE DEF q
      <4> QED BY <2>1, <2>3, MembersOfQueue
    <3>4. Members(q') = Members(q)
      BY <2>3, <3>2, <3>3, Zenon
    <3> QED BY <2>1, <2>3, <3>4 DEF CachedIsQueued
  <2>4. ASSUME NEW R \in SUBSET Rids, D' = D \ R, q' = Without(q, R)
        PROVE  CachedIsQueued'
    <3>1. Members(q') = Members(q) \ R
      BY <2>1, <2>4, WithoutProperties
    <3> QED BY <2>1, <2>4, <3>1 DEF CachedIsQueued
  <2>5. ASSUME NEW s \in Submissions, D' = D \cup {Rid(s)}, q' = Append(q, Rid(s))
        PROVE  CachedIsQueued'
    <3>1. Members(q') = Members(q) \cup {Rid(s)}
      BY <2>1, <2>5, Parts, MembersOfQueue
    <3> QED BY <2>1, <2>5, <3>1 DEF CachedIsQueued
  <2> HIDE DEF D, q
  <2> QED BY <2>2, <2>3, <2>4, <2>5, CacheSteps DEF D, q
<1> QED BY <1>1, <1>2, TypeCorrect, PTL DEF Spec

-----------------------------------------------------------------------------
(* What EntryNode promises clients that never use a request id twice: the   *)
(* queue mirrors the cache, a cancelled request leaves nothing behind,      *)
(* CancelQuery finds whoever works on a request, no unfinished entry is     *)
(* without a collector, and no queued request loses its turn.  First the    *)
(* inductive invariant.                                                     *)

\* Where a handler is before it has put its entry, if any, into the cache.
Early == {"idle", "waiting", "admitted", "registered", "scattered", "cancelled", "insert"}

\* A request joins the queue once, when its handler leaves "insert".
NotYetQueued ==
    \A s \in Submissions : pc[s] \in Early => Rid(s) \notin Members(fairness_queue)

\* A handler that may still insert learns of every cancellation by its flag.
FlaggedIfCancelled ==
    \A s \in Submissions :
        pc[s] \in {"registered", "scattered", "cancelled", "insert"} /\ ~ cancel_flag[s]
            => Rid(s) \notin canceled_ids

\* The collector works only after its handler has let go of the request.
CollectsAfterwards ==
    \A s \in Submissions :
        bg[s] \in {"collecting", "merging"} => pc[s] \in {"returning", "returned"}

\* A flag is registered under the id of its submission.
OwnFlag == \A r \in DOMAIN active_cancel : Rid(active_cancel[r]) = r

Control == CollectsAfterwards /\ OwnFlag /\ CancelReachesWorkers
Queueing == NotYetQueued /\ QueueMirrorsCache
Cancelling == FlaggedIfCancelled /\ CancelledNeverCached

CacheInv == Control /\ Queueing /\ Cancelling /\ NoOrphanedEntry

-----------------------------------------------------------------------------
(* Handlers, collectors and the table of flags.                            *)

\* Steps that leave the handlers, the collectors and the table alone.
LEMMA ControlFrame ==
    ASSUME Control, UNCHANGED <<pc, bg, active_cancel>>
    PROVE  Control'
<1>1. CollectsAfterwards' /\ CancelReachesWorkers'
  BY DEF Control, CollectsAfterwards, CancelReachesWorkers
<1>2. OwnFlag'
  <2>1. active_cancel' = active_cancel
    OBVIOUS
  <2> QED BY <2>1, Zenon DEF Control, OwnFlag, Rid
<1> QED BY <1>1, <1>2 DEF Control

LEMMA ControlOfHandler ==
    ASSUME TypeOK, Control, DistinctRids, NEW s \in Submissions, Submit(s) \/ HandlerStep(s)
    PROVE  Control'
<1> USE DEF Control, CollectsAfterwards, OwnFlag, CancelReachesWorkers, TypeOK
<1>1. CASE Submit(s) \/ AcquireSlot(s) \/ Scatter(s) \/ StreamRespond(s)
  <2>1. /\ \/ /\ pc[s] \in {"idle", "waiting"}
              /\ \E to \in {"waiting", "admitted"} : pc' = [pc EXCEPT ![s] = to]
           \/ /\ pc[s] \in {"registered", "scattered"}
              /\ \E to \in {"scattered", "insert", "unregister"} :
                    pc' = [pc EXCEPT ![s] = to]
        /\ active_cancel' = active_cancel /\ bg' = bg
    BY <1>1 DEF Submit, AcquireSlot, Scatter, StreamRespond, serverVars
  <2> QED BY <2>1, ZenonT(40)
<1>2. CASE Register(s)
  <2>1. /\ pc[s] = "admitted" /\ pc' = [pc EXCEPT ![s] = "registered"]
        /\ active_cancel' = Put(active_cancel, Rid(s), s) /\ bg' = bg
    BY <1>2 DEF Register
  <2>2. \A t \in Submissions : t # s => Rid(t) # Rid(s)
    BY DEF DistinctRids
  <2>3. /\ DOMAIN active_cancel' = DOMAIN active_cancel \cup {Rid(s)}
        /\ active_cancel'[Rid(s)] = s
        /\ \A r \in DOMAIN active_cancel : r # Rid(s) => active_cancel'[r] = active_cancel[r]
    BY <2>1 DEF Put
  <2> QED BY <2>1, <2>2, <2>3
<1>3. CASE RejectQuery(s) \/ GatherCancelled(s) \/ Unregister(s)
  <2>1. /\ pc[s] \in {"registered", "cancelled", "unregister"}
        /\ pc' = [pc EXCEPT ![s] = "returning"]
        /\ active_cancel' = Erase(active_cancel, {Rid(s)}) /\ bg' = bg
    BY <1>3 DEF RejectQuery, GatherCancelled, Unregister
  <2>2. \A t \in Submissions : t # s => Rid(t) # Rid(s)
    BY DEF DistinctRids
  <2>3. /\ DOMAIN active_cancel' = DOMAIN active_cancel \ {Rid(s)}
        /\ \A r \in DOMAIN active_cancel' : active_cancel'[r] = active_cancel[r]
    BY <2>1 DEF Erase
  <2> QED BY <2>1, <2>2, <2>3
<1>4. CASE StreamInsert(s)
  <2>1. /\ pc[s] = "insert" /\ active_cancel' = active_cancel
        /\ \/ pc' = [pc EXCEPT ![s] = "unregister"] /\ bg' = bg
           \/ /\ pc' = [pc EXCEPT ![s] = "returning"]
              /\ bg' = [bg EXCEPT ![s] = "collecting"]
    BY <1>4 DEF StreamInsert, Detach
  <2> QED BY <2>1, ZenonT(40)
<1>5. CASE GatherRespond(s) \/ GatherInsert(s)
  <2>1. /\ pc[s] \in {"scattered", "insert"}
        /\ \E to \in {"cancelled", "insert", "unregister"} : pc' = [pc EXCEPT ![s] = to]
        /\ active_cancel' = active_cancel /\ bg' = bg
    BY <1>5 DEF GatherRespond, GatherInsert, serverVars
  <2> QED BY <2>1
<1>6. CASE Return(s)
  BY <1>6 DEF Return
<1> QED BY <1>1, <1>2, <1>3, <1>4, <1>5, <1>6 DEF HandlerStep

LEMMA ControlOfCollector ==
    ASSUME TypeOK, Control, DistinctRids, NEW s \in Submissions, CollectorStep(s)
    PROVE  Control'
<1> USE DEF Control, CollectsAfterwards, OwnFlag, CancelReachesWorkers, TypeOK
<1>1. CASE BgGather(s)
  BY <1>1 DEF BgGather, serverVars
<1>2. CASE BgMerge(s)
  <2>1. /\ bg[s] = "merging" /\ bg' = [bg EXCEPT ![s] = "done"] /\ pc' = pc
        /\ \/ active_cancel' = active_cancel
           \/ active_cancel' = Erase(active_cancel, {Rid(s)})
    BY <1>2 DEF BgMerge
  <2>2. \A t \in Submissions : t # s => Rid(t) # Rid(s)
    BY DEF DistinctRids
  <2>3. /\ DOMAIN active_cancel \ {Rid(s)} \subseteq DOMAIN active_cancel'
        /\ DOMAIN active_cancel' \subseteq DOMAIN active_cancel
        /\ \A r \in DOMAIN active_cancel' : active_cancel'[r] = active_cancel[r]
    BY <2>1 DEF Erase
  <2> QED BY <2>1, <2>2, <2>3
<1> QED BY <1>1, <1>2 DEF CollectorStep

LEMMA ControlNext ==
    ASSUME TypeOK, Control, DistinctRids, [Next]_vars
    PROVE  Control'
<1>1. ASSUME NEW s \in Submissions,
             \/ ClientStep(s) \/ FetchReplyLost(s)
             \/ SubmitFails(s) \/ FetchFails(s) \/ Abandon(s)
             \/ \E c \in Children : ChildReply(s, c)
      PROVE  UNCHANGED <<pc, bg, active_cancel>>
  BY <1>1 DEF ClientStep, ReceiveFirst, FetchServed, FetchRefused, FetchReplyLost,
     ServeChunk, SubmitFails, FetchFails, Abandon, ChildReply, serverVars, handlerVars
<1>2. ASSUME \/ \E r \in Rids : CancelQuery(r)
             \/ Tick \/ EvictStale \/ UNCHANGED vars
      PROVE  UNCHANGED <<pc, bg, active_cancel>>
  BY <1>2 DEF CancelQuery, Tick, EvictStale, vars, serverVars, handlerVars
<1> QED BY <1>1, <1>2, ControlFrame, ControlOfHandler, ControlOfCollector DEF Next

-----------------------------------------------------------------------------
(* The queue.                                                              *)

\* Nobody comes back to "insert" or before it.
LEMMA EarlyBefore ==
    ASSUME TypeOK, [Next]_vars, NEW t \in Submissions, pc'[t] \in Early
    PROVE  pc[t] \in Early
<1> USE DEF Early, TypeOK
<1>1. ASSUME NEW s \in Submissions, Submit(s) \/ HandlerStep(s)
      PROVE  pc[t] \in Early
  <2>1. \A at : pc' = [pc EXCEPT ![s] = at] /\ (pc[s] \in Early \/ at \notin Early)
                  => pc[t] \in Early
    OBVIOUS
  <2>2. CASE Submit(s) \/ AcquireSlot(s) \/ Register(s) \/ RejectQuery(s) \/ Scatter(s)
    BY <2>1, <2>2 DEF Submit, AcquireSlot, Register, RejectQuery, Scatter
  <2>3. CASE StreamRespond(s) \/ StreamInsert(s)
    BY <2>1, <2>3 DEF StreamRespond, StreamInsert, Detach
  <2>4. CASE GatherRespond(s) \/ GatherCancelled(s) \/ GatherInsert(s)
    BY <2>1, <2>4 DEF GatherRespond, GatherCancelled, GatherInsert
  <2>5. CASE Unregister(s) \/ Return(s)
    BY <2>1, <2>5 DEF Unregister, Return
  <2> QED BY <1>1, <2>2, <2>3, <2>4, <2>5 DEF HandlerStep
<1>2. ASSUME NEW s \in Submissions,
             \/ CollectorStep(s) \/ ClientStep(s) \/ FetchReplyLost(s)
             \/ SubmitFails(s) \/ FetchFails(s) \/ Abandon(s)
             \/ \E c \in Children : ChildReply(s, c)
      PROVE  pc' = pc
  BY <1>2 DEF CollectorStep, BgGather, BgMerge, ClientStep, ReceiveFirst, FetchServed,
     FetchRefused, FetchReplyLost, ServeChunk, SubmitFails, FetchFails, Abandon, ChildReply, handlerVars
<1>3. ASSUME \/ \E r \in Rids : CancelQuery(r)
             \/ Tick \/ EvictStale \/ UNCHANGED vars
      PROVE  pc' = pc
  BY <1>3 DEF CancelQuery, Tick, EvictStale, vars, handlerVars
<1> QED BY <1>1, <1>2, <1>3 DEF Next

NoRepeat(q) == \A i, j \in 1 .. Len(q) : q[i] = q[j] => i = j

LEMMA RepeatFree ==
    ASSUME NEW S, NEW q \in Seq(S), NoRepeat(q)
    PROVE  /\ \A r \in S \ Members(q) : NoRepeat(Append(q, r))
           /\ q # <<>> => NoRepeat(Append(Tail(q), Head(q)))
<1>1. ASSUME NEW r \in S \ Members(q) PROVE NoRepeat(Append(q, r))
  BY DEF Members, NoRepeat
<1>2. ASSUME q # <<>> PROVE NoRepeat(Append(Tail(q), Head(q)))
  <2> DEFINE p == Append(Tail(q), Head(q))  n == Len(q)
  <2>1. /\ n \in Nat \ {0}
        /\ Tail(q) \in Seq(S) /\ Len(Tail(q)) = n - 1
        /\ \A i \in 1 .. Len(Tail(q)) : Tail(q)[i] = q[i + 1]
        /\ Head(q) = q[1] /\ Head(q) \in S
    BY <1>2, HeadTailProperties
  <2>2. Len(p) = n /\ p[n] = q[1] /\ \A i \in 1 .. n - 1 : p[i] = q[i + 1]
    <3>1. /\ Len(p) = Len(Tail(q)) + 1
          /\ p[Len(Tail(q)) + 1] = Head(q)
          /\ \A i \in 1 .. Len(Tail(q)) : p[i] = Tail(q)[i]
      BY <2>1, AppendProperties
    <3> HIDE DEF p, n
    <3> QED BY <2>1, <3>1
  <2>3. \A i, j \in 1 .. n : q[i] = q[j] => i = j
    BY DEF NoRepeat
  <2> HIDE DEF p, n
  <2>4. ASSUME NEW i \in 1 .. n, NEW j \in 1 .. n, p[i] = p[j] PROVE i = j
    <3>1. CASE i = n /\ j = n
      BY <3>1
    <3>2. CASE i # n /\ j # n
      <4>1. q[i + 1] = q[j + 1] /\ i + 1 \in 1 .. n /\ j + 1 \in 1 .. n
        BY <2>1, <2>2, <2>4, <3>2
      <4> QED BY <2>3, <4>1
    <3>3. CASE i = n /\ j # n
      <4>1. q[1] = q[j + 1] /\ 1 \in 1 .. n /\ j + 1 \in 1 .. n
        BY <2>1, <2>2, <2>4, <3>3
      <4> QED BY <2>3, <4>1
    <3>4. CASE i # n /\ j = n
      <4>1. q[1] = q[i + 1] /\ 1 \in 1 .. n /\ i + 1 \in 1 .. n
        BY <2>1, <2>2, <2>4, <3>4
      <4> QED BY <2>3, <4>1
    <3> QED BY <3>1, <3>2, <3>3, <3>4
  <2>5. NoRepeat(p)
    BY <2>2, <2>4 DEF NoRepeat
  <2> QED BY <2>5 DEF p
<1> QED BY <1>1, <1>2

LEMMA QueueingNext ==
    ASSUME TypeOK, Queueing, DistinctRids, [Next]_vars
    PROVE  Queueing'
<1> DEFINE D == DOMAIN chunk_cache  q == fairness_queue
           Good(d, p) == Members(p) = d /\ NoRepeat(p)
<1>1. q \in Seq(Rids) /\ Good(D, q)
  BY DEF TypeOK, Queueing, QueueMirrorsCache, NoRepeat
<1>2. \A s \in Submissions : Rid(s) \in Rids
  BY Parts
<1>3. Good(D', q') => QueueMirrorsCache'
  BY DEF QueueMirrorsCache, NoRepeat
<1>4. ASSUME Members(q') \subseteq Members(q) PROVE NotYetQueued'
  BY <1>4, EarlyBefore DEF Queueing, NotYetQueued
<1>5. CASE D' = D /\ q' = q
  BY <1>1, <1>3, <1>4, <1>5 DEF Queueing
<1>6. CASE D' = D /\ q # <<>> /\ q' = Append(Tail(q), Head(q))
  <2>1. Head(q) \in Rids /\ Tail(q) \in Seq(Rids)
    BY <1>1, <1>6, HeadTailProperties
  <2>2. Members(Append(Tail(q), Head(q))) = Members(q)
    <3>1. \A p \in Seq(Rids), r \in Rids : Members(Append(p, r)) = Members(p) \cup {r}
      BY MembersOfQueue
    <3>2. Members(q) = {Head(q)} \cup Members(Tail(q))
      BY ONLY <1>1, <1>6, MembersOfQueue
    <3> QED BY <2>1, <3>1, <3>2, Zenon
  <2>3. NoRepeat(Append(Tail(q), Head(q)))
    BY ONLY <1>1, <1>6, RepeatFree
  <2> HIDE DEF D, q
  <2> QED BY <1>1, <1>3, <1>4, <1>6, <2>2, <2>3 DEF Queueing
<1>7. ASSUME NEW R \in SUBSET Rids, D' = D \ R, q' = Without(q, R)
      PROVE  Queueing'
  <2>1. Members(Without(q, R)) = Members(q) \ R /\ NoRepeat(Without(q, R))
    BY ONLY <1>1, WithoutProperties DEF NoRepeat
  <2> HIDE DEF D, q
  <2> QED BY <1>1, <1>3, <1>4, <1>7, <2>1 DEF Queueing
<1>8. ASSUME NEW s \in Submissions, pc[s] = "insert",
             pc'[s] \in {"unregister", "returning"},
             D' = D \cup {Rid(s)}, q' = Append(q, Rid(s))
      PROVE  Queueing'
  <2>1. Rid(s) \in Rids \ Members(q)
    BY <1>2, <1>8 DEF Queueing, NotYetQueued, Early
  <2>2. Members(Append(q, Rid(s))) = Members(q) \cup {Rid(s)}
        /\ NoRepeat(Append(q, Rid(s)))
    <3>1. \A r \in Rids : Members(Append(q, r)) = Members(q) \cup {r}
      BY ONLY <1>1, MembersOfQueue
    <3>2. \A r \in Rids \ Members(q) : NoRepeat(Append(q, r))
      BY ONLY <1>1, RepeatFree
    <3> QED BY <2>1, <3>1, <3>2
  <2>3. NotYetQueued'
    <3> SUFFICES ASSUME NEW t \in Submissions, pc'[t] \in Early
                 PROVE  Rid(t) \notin Members(q')
      BY DEF NotYetQueued
    <3>1. pc[t] \in Early /\ t # s
      BY <1>8, EarlyBefore DEF Early
    <3>2. Rid(t) # Rid(s) /\ Rid(t) \notin Members(q)
      BY <3>1 DEF DistinctRids, Queueing, NotYetQueued
    <3> HIDE DEF D, q
    <3> QED BY <1>8, <2>2, <3>2
  <2> HIDE DEF D, q
  <2> QED BY <1>1, <1>3, <1>8, <2>2, <2>3 DEF Queueing
<1>9. ASSUME NEW s \in Submissions, pc[s] = "cancelled", D' = D \ {Rid(s)}, q' = q
      PROVE  Queueing'
  <2>1. Rid(s) \notin Members(q)
    BY <1>9 DEF Queueing, NotYetQueued, Early
  <2>2. D' = D
    BY <1>1, <1>9, <2>1
  <2> QED BY <1>5, <1>9, <2>2
<1> HIDE DEF D, q
<1> QED BY <1>5, <1>6, <1>7, <1>8, <1>9, CacheSteps DEF D, q

-----------------------------------------------------------------------------
(* Cancellation and eviction.                                              *)

\* Where a handler may still insert.
MayInsert == {"registered", "scattered", "cancelled", "insert"}

\* Steps that cancel nothing and cache nothing new.
LEMMA CancellingFrame ==
    ASSUME Cancelling, cancel_flag' = cancel_flag,
           canceled_ids' \subseteq canceled_ids,
           DOMAIN chunk_cache' \subseteq DOMAIN chunk_cache,
           \A s \in Submissions : pc'[s] \in MayInsert =>
                pc[s] \in MayInsert \/ Rid(s) \notin canceled_ids'
    PROVE  Cancelling'
  BY DEF Cancelling, FlaggedIfCancelled, CancelledNeverCached, MayInsert

LEMMA CancellingOfHandler ==
    ASSUME TypeOK, CacheInv, DistinctRids, NEW s \in Submissions, Submit(s) \/ HandlerStep(s)
    PROVE  Cancelling'
<1> USE DEF TypeOK
<1>0. Cancelling /\ \A t \in Submissions : t # s => Rid(t) # Rid(s)
  BY DEF CacheInv, DistinctRids
<1>1. CASE \/ Submit(s) \/ AcquireSlot(s) \/ RejectQuery(s) \/ Scatter(s)
           \/ StreamRespond(s) \/ GatherRespond(s) \/ Unregister(s) \/ Return(s)
  <2>1. /\ cancel_flag' = cancel_flag /\ chunk_cache' = chunk_cache
        /\ canceled_ids' \subseteq canceled_ids
    BY <1>1 DEF Submit, AcquireSlot, RejectQuery, Scatter, StreamRespond, GatherRespond,
       Unregister, Return, serverVars
  <2>2. \E to : pc' = [pc EXCEPT ![s] = to] /\ (to \in MayInsert => pc[s] \in MayInsert)
    BY <1>1 DEF Submit, AcquireSlot, RejectQuery, Scatter, StreamRespond, GatherRespond,
       Unregister, Return, MayInsert
  <2>3. \A t \in Submissions : pc'[t] \in MayInsert => pc[t] \in MayInsert
    BY <2>2
  <2> QED BY <1>0, <2>1, <2>3, CancellingFrame
<1>2. CASE Register(s)
  <2>1. /\ cancel_flag' = cancel_flag /\ chunk_cache' = chunk_cache
        /\ canceled_ids' = canceled_ids \ {Rid(s)}
        /\ pc' = [pc EXCEPT ![s] = "registered"]
    BY <1>2 DEF Register
  <2>2. \A t \in Submissions : pc'[t] \in MayInsert =>
            pc[t] \in MayInsert \/ Rid(t) \notin canceled_ids'
    BY <2>1
  <2>3. DOMAIN chunk_cache' \subseteq DOMAIN chunk_cache
    BY <2>1
  <2> QED BY <1>0, <2>1, <2>2, <2>3, CancellingFrame
<1>3. CASE GatherCancelled(s)
  <2>1. /\ cancel_flag' = cancel_flag
        /\ DOMAIN chunk_cache' = DOMAIN chunk_cache \ {Rid(s)}
        /\ canceled_ids' = canceled_ids \cup {Rid(s)}
        /\ pc' = [pc EXCEPT ![s] = "returning"]
    BY <1>3 DEF GatherCancelled, Erase
  <2>2. FlaggedIfCancelled'
    BY <1>0, <2>1 DEF Cancelling, FlaggedIfCancelled
  <2>3. CancelledNeverCached'
    BY <1>0, <2>1 DEF Cancelling, CancelledNeverCached
  <2> QED BY <2>2, <2>3 DEF Cancelling
<1>4. CASE StreamInsert(s) \/ GatherInsert(s)
  <2>1. /\ pc[s] = "insert" /\ cancel_flag' = cancel_flag /\ canceled_ids' = canceled_ids
        /\ \E to \in {"unregister", "returning"} : pc' = [pc EXCEPT ![s] = to]
    BY <1>4 DEF StreamInsert, GatherInsert, Detach
  <2>2. \E e : InsertEntry(s, e)
    BY <1>4, Zenon DEF StreamInsert, GatherInsert
  <2>3. \/ chunk_cache' = chunk_cache
        \/ ~ cancel_flag[s] /\ DOMAIN chunk_cache' = DOMAIN chunk_cache \cup {Rid(s)}
    BY <2>2, Zenon DEF InsertEntry, Put
  <2>4. FlaggedIfCancelled'
    BY <1>0, <2>1 DEF Cancelling, FlaggedIfCancelled
  <2>5. CancelledNeverCached'
    <3>1. ~ cancel_flag[s] => Rid(s) \notin canceled_ids
      BY <1>0, <2>1 DEF Cancelling, FlaggedIfCancelled
    <3> QED BY <1>0, <2>1, <2>3, <3>1 DEF Cancelling, CancelledNeverCached
  <2> QED BY <2>4, <2>5 DEF Cancelling
<1> QED BY <1>1, <1>2, <1>3, <1>4 DEF HandlerStep

LEMMA CancellingNext ==
    ASSUME TypeOK, CacheInv, DistinctRids, [Next]_vars
    PROVE  Cancelling'
<1>1. ASSUME /\ cancel_flag' = cancel_flag /\ canceled_ids' = canceled_ids /\ pc' = pc
             /\ DOMAIN chunk_cache' \subseteq DOMAIN chunk_cache
      PROVE  Cancelling'
  BY <1>1, CancellingFrame DEF CacheInv
<1>2. ASSUME NEW s \in Submissions,
             \/ CollectorStep(s) \/ ClientStep(s) \/ FetchReplyLost(s)
             \/ SubmitFails(s) \/ FetchFails(s) \/ Abandon(s)
             \/ \E c \in Children : ChildReply(s, c)
      PROVE  Cancelling'
  <2>1. cancel_flag' = cancel_flag /\ canceled_ids' = canceled_ids /\ pc' = pc
    BY <1>2 DEF CollectorStep, BgGather, BgMerge, ClientStep, ReceiveFirst, FetchServed,
       FetchRefused, FetchReplyLost, ServeChunk, SubmitFails, FetchFails, Abandon, ChildReply, serverVars, handlerVars
  <2>2. CASE BgMerge(s)
    <3>1. \/ chunk_cache' = chunk_cache
          \/ /\ Rid(s) \in DOMAIN chunk_cache
             /\ chunk_cache' = Put(chunk_cache, Rid(s), Finalised(s, chunk_cache[Rid(s)]))
      BY <2>2, Zenon DEF BgMerge
    <3>2. DOMAIN chunk_cache' \subseteq DOMAIN chunk_cache
      BY <3>1, Zenon DEF Put
    <3> QED BY <1>1, <2>1, <3>2
  <2>3. CASE FetchServed(s) \/ FetchReplyLost(s)
    <3>1. ServeChunk(Rid(s), idx[s])
      BY <2>3, Zenon DEF FetchServed, FetchReplyLost
    <3>2. DOMAIN chunk_cache' \subseteq DOMAIN chunk_cache
      BY <3>1 DEF ServeChunk, Erase
    <3> QED BY <1>1, <2>1, <3>2
  <2>4. CASE BgGather(s) \/ ReceiveFirst(s) \/ FetchRefused(s)
             \/ SubmitFails(s) \/ FetchFails(s) \/ Abandon(s)
             \/ \E c \in Children : ChildReply(s, c)
    <3>1. chunk_cache' = chunk_cache
      BY <2>4 DEF BgGather, ReceiveFirst, FetchRefused, SubmitFails, FetchFails, Abandon, ChildReply, serverVars
    <3> QED BY <1>1, <2>1, <3>1
  <2> QED BY <1>2, <2>2, <2>3, <2>4 DEF CollectorStep, ClientStep
<1>3. ASSUME NEW r \in Rids, CancelQuery(r) PROVE Cancelling'
  <2>1. /\ canceled_ids' = canceled_ids \cup {r} /\ pc' = pc
        /\ DOMAIN chunk_cache' = DOMAIN chunk_cache \ {r}
        /\ cancel_flag' = [s \in Submissions |->
              cancel_flag[s] \/ (r \in DOMAIN active_cancel /\ active_cancel[r] = s)]
    BY <1>3 DEF CancelQuery, Erase, handlerVars
  <2>2. FlaggedIfCancelled'
    <3> SUFFICES ASSUME NEW s \in Submissions, pc[s] \in MayInsert, ~ cancel_flag'[s]
                 PROVE  Rid(s) \notin canceled_ids'
      BY <2>1 DEF FlaggedIfCancelled, MayInsert
    <3>1. ~ cancel_flag[s] /\ ~ (r \in DOMAIN active_cancel /\ active_cancel[r] = s)
      BY <2>1
    <3>2. Rid(s) \in DOMAIN active_cancel /\ active_cancel[Rid(s)] = s
      BY DEF MayInsert, CacheInv, Control, CancelReachesWorkers
    <3>3. Rid(s) # r /\ Rid(s) \notin canceled_ids
      BY <3>1, <3>2 DEF MayInsert, CacheInv, Cancelling, FlaggedIfCancelled
    <3> QED BY <2>1, <3>3
  <2>3. CancelledNeverCached'
    <3> SUFFICES ASSUME NEW c \in DOMAIN chunk_cache'
                 PROVE  /\ c \notin canceled_ids'
                        /\ \A s \in Submissions : Rid(s) = c => ~ cancel_flag'[s]
      BY DEF CancelledNeverCached
    <3>1. c # r /\ c \notin canceled_ids
          /\ \A s \in Submissions : Rid(s) = c => ~ cancel_flag[s]
      BY <2>1 DEF CacheInv, Cancelling, CancelledNeverCached
    <3>2. r \in DOMAIN active_cancel => Rid(active_cancel[r]) = r
      BY DEF CacheInv, Control, OwnFlag
    <3> QED BY <2>1, <3>1, <3>2
  <2> QED BY <2>2, <2>3 DEF Cancelling
<1>4. ASSUME Tick \/ UNCHANGED vars PROVE Cancelling'
  <2>1. /\ cancel_flag' = cancel_flag /\ canceled_ids' = canceled_ids /\ pc' = pc
        /\ DOMAIN chunk_cache' = DOMAIN chunk_cache
    BY <1>4 DEF Tick, vars, serverVars, handlerVars
  <2> QED BY <1>1, <2>1
<1>5. ASSUME EvictStale PROVE Cancelling'
  <2>1. /\ canceled_ids' = canceled_ids \cup Stale /\ pc' = pc
        /\ DOMAIN chunk_cache' = DOMAIN chunk_cache \ Stale
        /\ cancel_flag' = cancel_flag
        /\ Stale \subseteq DOMAIN chunk_cache
    BY <1>5 DEF EvictStale, Erase, Stale, handlerVars
  <2>2. FlaggedIfCancelled'
    <3> SUFFICES ASSUME NEW s \in Submissions, pc[s] \in MayInsert, ~ cancel_flag[s]
                 PROVE  Rid(s) \notin canceled_ids'
      BY <2>1 DEF FlaggedIfCancelled, MayInsert
    <3>1. Rid(s) \notin DOMAIN chunk_cache
      BY DEF MayInsert, CacheInv, Queueing, NotYetQueued, QueueMirrorsCache, Early
    <3>2. Rid(s) \notin canceled_ids
      BY DEF MayInsert, CacheInv, Cancelling, FlaggedIfCancelled
    <3> QED BY <2>1, <3>1, <3>2
  <2>3. CancelledNeverCached'
    BY <2>1 DEF CacheInv, Cancelling, CancelledNeverCached
  <2> QED BY <2>2, <2>3 DEF Cancelling
<1> QED BY <1>2, <1>3, <1>4, <1>5, CancellingOfHandler DEF Next

-----------------------------------------------------------------------------
(* Unfinished entries and their collectors.                                *)

\* Steps that open no entry and end no collector.
LEMMA OrphanFrame ==
    ASSUME NoOrphanedEntry, bg' = bg,
           DOMAIN chunk_cache' \subseteq DOMAIN chunk_cache,
           \A r \in DOMAIN chunk_cache' :
                chunk_cache[r].finalized => chunk_cache'[r].finalized
    PROVE  NoOrphanedEntry'
  BY DEF NoOrphanedEntry

LEMMA OrphanOfHandler ==
    ASSUME TypeOK, CacheInv, DistinctRids, NEW s \in Submissions, Submit(s) \/ HandlerStep(s)
    PROVE  NoOrphanedEntry'
<1> USE DEF TypeOK
<1>0. NoOrphanedEntry
  BY DEF CacheInv
<1>1. CASE \/ Submit(s) \/ AcquireSlot(s) \/ Register(s) \/ RejectQuery(s) \/ Scatter(s)
           \/ StreamRespond(s) \/ GatherRespond(s) \/ Unregister(s) \/ Return(s)
  <2>1. chunk_cache' = chunk_cache /\ bg' = bg
    BY <1>1 DEF Submit, AcquireSlot, Register, RejectQuery, Scatter, StreamRespond,
       GatherRespond, Unregister, Return, serverVars
  <2> QED BY <1>0, <2>1, OrphanFrame
<1>2. CASE GatherCancelled(s)
  <2>1. bg' = bg /\ chunk_cache' = Erase(chunk_cache, {Rid(s)})
    BY <1>2 DEF GatherCancelled
  <2> QED BY <1>0, <2>1, OrphanFrame DEF Erase
<1>3. CASE StreamInsert(s) \/ GatherInsert(s)
  <2>1. pc[s] = "insert" /\ bg[s] \notin {"collecting", "merging"}
    BY <1>3 DEF StreamInsert, GatherInsert, CacheInv, Control, CollectsAfterwards
  <2>2. \A t \in Submissions : bg[t] \in {"collecting", "merging"} => bg'[t] = bg[t]
    BY <1>3, <2>1 DEF StreamInsert, GatherInsert, Detach
  <2>3. \E e : /\ InsertEntry(s, e)
               /\ e.finalized \/ bg'[s] = "collecting"
    <3>1. CASE StreamInsert(s)
      <4>1. StreamEntry(s).finalized = (Children = {})
        BY DEF StreamEntry
      <4>2. Children = {} \/ bg'[s] = "collecting"
        BY <3>1 DEF StreamInsert, Detach
      <4>3. InsertEntry(s, StreamEntry(s))
        BY <3>1 DEF StreamInsert
      <4> QED BY <4>1, <4>2, <4>3
    <3>2. CASE GatherInsert(s)
      <4>1. GatherEntry(s).finalized
        BY DEF GatherEntry
      <4>2. InsertEntry(s, GatherEntry(s))
        BY <3>2 DEF GatherInsert
      <4> QED BY <4>1, <4>2
    <3> QED BY <1>3, <3>1, <3>2
  <2>4. \/ chunk_cache' = chunk_cache
        \/ \E e : /\ chunk_cache' = Put(chunk_cache, Rid(s), e)
                  /\ e.finalized \/ bg'[s] = "collecting"
    BY <2>3, Zenon DEF InsertEntry
  <2>5. ASSUME NEW r \in DOMAIN chunk_cache', ~ chunk_cache'[r].finalized
        PROVE  \E t \in Submissions : Rid(t) = r /\ bg'[t] \in {"collecting", "merging"}
    <3>1. CASE r \in DOMAIN chunk_cache /\ chunk_cache'[r] = chunk_cache[r]
      BY <1>0, <2>2, <2>5, <3>1 DEF NoOrphanedEntry
    <3>2. CASE r = Rid(s) /\ bg'[s] = "collecting"
      BY <3>2
    <3> QED BY <2>4, <2>5, <3>1, <3>2 DEF Put
  <2> QED BY <2>5 DEF NoOrphanedEntry
<1> QED BY <1>1, <1>2, <1>3 DEF HandlerStep

LEMMA OrphanOfCollector ==
    ASSUME TypeOK, CacheInv, DistinctRids, NEW s \in Submissions, CollectorStep(s)
    PROVE  NoOrphanedEntry'
<1>0. /\ NoOrphanedEntry /\ CancelledNeverCached
      /\ bg \in [Submissions -> {"none", "collecting", "merging", "done"}]
  BY DEF CacheInv, Cancelling, TypeOK
<1>1. CASE BgGather(s)
  <2>1. /\ chunk_cache' = chunk_cache
        /\ bg' = [bg EXCEPT ![s] = IF cancel_flag[s] THEN "done" ELSE "merging"]
    BY <1>1 DEF BgGather, serverVars
  <2>2. cancel_flag[s] => Rid(s) \notin DOMAIN chunk_cache
    BY <1>0 DEF CancelledNeverCached
  <2>3. ASSUME NEW r \in DOMAIN chunk_cache, NEW t \in Submissions,
               Rid(t) = r, bg[t] \in {"collecting", "merging"}
        PROVE  bg'[t] \in {"collecting", "merging"}
    BY <1>0, <2>1, <2>2, <2>3
  <2> QED BY <1>0, <2>1, <2>3 DEF NoOrphanedEntry
<1>2. CASE BgMerge(s)
  <2>1. bg' = [bg EXCEPT ![s] = "done"]
    BY <1>2 DEF BgMerge
  <2>2. \/ chunk_cache' = chunk_cache /\ Rid(s) \notin DOMAIN chunk_cache
        \/ \E e : e.finalized /\ chunk_cache' = Put(chunk_cache, Rid(s), e)
    <3>1. CASE Rid(s) \in canceled_ids \/ Rid(s) \notin DOMAIN chunk_cache
      BY <1>0, <1>2, <3>1 DEF BgMerge, CancelledNeverCached
    <3>2. CASE ~ (Rid(s) \in canceled_ids \/ Rid(s) \notin DOMAIN chunk_cache)
      <4> DEFINE e == Finalised(s, chunk_cache[Rid(s)])
      <4>1. chunk_cache' = Put(chunk_cache, Rid(s), e)
        BY <1>2, <3>2, Zenon DEF BgMerge
      <4>2. e.finalized
        <5>1. chunk_cache[Rid(s)] \in Entry
          BY <3>2 DEF TypeOK
        <5> QED BY <5>1 DEF Finalised, Entry
      <4> HIDE DEF e
      <4> QED BY <4>1, <4>2
    <3> QED BY <3>1, <3>2
  <2>3. ASSUME NEW r \in DOMAIN chunk_cache', ~ chunk_cache'[r].finalized
        PROVE  r \in DOMAIN chunk_cache /\ chunk_cache'[r] = chunk_cache[r] /\ r # Rid(s)
    BY <2>2, <2>3 DEF Put
  <2>4. \A t \in Submissions : Rid(t) # Rid(s) => bg'[t] = bg[t]
    BY <1>0, <2>1
  <2> QED BY <1>0, <2>3, <2>4 DEF NoOrphanedEntry
<1> QED BY <1>1, <1>2 DEF CollectorStep

LEMMA OrphanNext ==
    ASSUME TypeOK, CacheInv, DistinctRids, [Next]_vars
    PROVE  NoOrphanedEntry'
<1>0. NoOrphanedEntry
  BY DEF CacheInv
<1>1. ASSUME NEW s \in Submissions, FetchServed(s) \/ FetchReplyLost(s)
      PROVE  NoOrphanedEntry'
  <2>1. ServeChunk(Rid(s), idx[s])
    BY <1>1, Zenon DEF FetchServed, FetchReplyLost
  <2>2. /\ bg' = bg
        /\ \/ chunk_cache' = Erase(chunk_cache, {Rid(s)})
           \/ chunk_cache' = [chunk_cache EXCEPT ![Rid(s)].age = 0]
    BY <2>1 DEF ServeChunk, handlerVars
  <2>3. /\ DOMAIN chunk_cache' \subseteq DOMAIN chunk_cache
        /\ \A r \in DOMAIN chunk_cache' :
              chunk_cache[r].finalized => chunk_cache'[r].finalized
    <3>1. CASE chunk_cache' = Erase(chunk_cache, {Rid(s)})
      BY <3>1 DEF Erase
    <3>2. CASE chunk_cache' = [chunk_cache EXCEPT ![Rid(s)].age = 0]
      <4>1. \A r \in DOMAIN chunk_cache : chunk_cache[r] \in Entry
        BY DEF TypeOK
      <4>2. \A e \in Entry : [e EXCEPT !.age = 0].finalized = e.finalized
        BY DEF Entry
      <4> QED BY <3>2, <4>1, <4>2
    <3> QED BY <2>2, <3>1, <3>2
  <2> QED BY <1>0, <2>2, <2>3, OrphanFrame
<1>2. ASSUME NEW s \in Submissions,
             \/ ReceiveFirst(s) \/ FetchRefused(s)
             \/ SubmitFails(s) \/ FetchFails(s) \/ Abandon(s)
             \/ \E c \in Children : ChildReply(s, c)
      PROVE  NoOrphanedEntry'
  <2>1. chunk_cache' = chunk_cache /\ bg' = bg
    BY <1>2 DEF ReceiveFirst, FetchRefused, SubmitFails, FetchFails, Abandon, ChildReply, serverVars, handlerVars
  <2> QED BY <1>0, <2>1, OrphanFrame
<1>3. ASSUME NEW r \in Rids, CancelQuery(r) PROVE NoOrphanedEntry'
  <2>1. bg' = bg /\ chunk_cache' = Erase(chunk_cache, {r})
    BY <1>3 DEF CancelQuery, handlerVars
  <2> QED BY <1>0, <2>1, OrphanFrame DEF Erase
<1>4. ASSUME Tick PROVE NoOrphanedEntry'
  <2>1. /\ bg' = bg
        /\ chunk_cache' = [r \in DOMAIN chunk_cache |->
              [chunk_cache[r] EXCEPT !.age = Least(@ + 1, ChunkTimeout)]]
    BY <1>4 DEF Tick, handlerVars
  <2>2. /\ DOMAIN chunk_cache' \subseteq DOMAIN chunk_cache
        /\ \A r \in DOMAIN chunk_cache' :
              chunk_cache[r].finalized => chunk_cache'[r].finalized
    <3>1. \A e \in Entry : \A n : [e EXCEPT !.age = n].finalized = e.finalized
      BY DEF Entry
    <3>2. \A r \in DOMAIN chunk_cache : chunk_cache[r] \in Entry
      BY DEF TypeOK
    <3>3. DOMAIN chunk_cache' = DOMAIN chunk_cache
      BY <2>1
    <3>4. ASSUME NEW r \in DOMAIN chunk_cache
          PROVE  chunk_cache'[r].finalized = chunk_cache[r].finalized
      <4>1. chunk_cache'[r] =
              [chunk_cache[r] EXCEPT !.age = Least(chunk_cache[r].age + 1, ChunkTimeout)]
        BY <2>1
      <4> QED BY <3>1, <3>2, <4>1
    <3> QED BY <3>3, <3>4
  <2> QED BY <1>0, <2>1, <2>2, OrphanFrame
<1>5. ASSUME EvictStale PROVE NoOrphanedEntry'
  <2>1. bg' = bg /\ chunk_cache' = Erase(chunk_cache, Stale)
    BY <1>5 DEF EvictStale, handlerVars
  <2> QED BY <1>0, <2>1, OrphanFrame DEF Erase
<1>6. ASSUME UNCHANGED vars PROVE NoOrphanedEntry'
  <2>1. chunk_cache' = chunk_cache /\ bg' = bg
    BY <1>6 DEF vars, serverVars, handlerVars
  <2> QED BY <1>0, <2>1, OrphanFrame
<1> QED BY <1>1, <1>2, <1>3, <1>4, <1>5, <1>6, OrphanOfHandler, OrphanOfCollector
        DEF Next, ClientStep

-----------------------------------------------------------------------------
(* The invariant, and what follows.                                        *)

LEMMA CacheInvInit == Init => CacheInv
<1> SUFFICES ASSUME Init PROVE CacheInv
  OBVIOUS
<1>1. DOMAIN chunk_cache = {} /\ Members(fairness_queue) = {} /\ Len(fairness_queue) = 0
  BY DEF Init, Members
<1>2. Queueing
  BY <1>1 DEF Queueing, NotYetQueued, QueueMirrorsCache
<1>3. Control
  BY DEF Init, Control, CollectsAfterwards, OwnFlag, CancelReachesWorkers
<1>4. Cancelling
  BY <1>1 DEF Init, Cancelling, FlaggedIfCancelled, CancelledNeverCached
<1>5. NoOrphanedEntry
  BY <1>1 DEF NoOrphanedEntry
<1> QED BY <1>2, <1>3, <1>4, <1>5 DEF CacheInv

LEMMA CacheInvNext ==
    ASSUME DistinctRids
    PROVE  TypeOK /\ CacheInv /\ [Next]_vars => CacheInv'
<1> SUFFICES ASSUME TypeOK, CacheInv, [Next]_vars PROVE CacheInv'
  OBVIOUS
<1>1. Control /\ Queueing
  BY DEF CacheInv
<1> QED BY <1>1, ControlNext, QueueingNext, CancellingNext, OrphanNext DEF CacheInv

LEMMA CacheInvAlways ==
    ASSUME DistinctRids
    PROVE  Spec => []CacheInv
<1>1. Init => CacheInv
  BY CacheInvInit
<1>2. TypeOK /\ CacheInv /\ [Next]_vars => CacheInv'
  BY CacheInvNext
<1> QED BY <1>1, <1>2, TypeCorrect, PTL DEF Spec

\* With ids of their own, the fairness queue holds each cached request once and
\* nothing else: nobody waits behind an id that has nothing to fetch.
THEOREM QueueCorrect ==
    ASSUME DistinctRids
    PROVE  Spec => []QueueMirrorsCache
<1>1. CacheInv => QueueMirrorsCache
  BY DEF CacheInv, Queueing
<1> QED BY <1>1, CacheInvAlways, PTL

\* Wherever the handler and the collector of a request are when it is cancelled or
\* evicted, nothing of it comes back into the cache.
THEOREM CancelCorrect ==
    ASSUME DistinctRids
    PROVE  Spec => []CancelledNeverCached
<1>1. CacheInv => CancelledNeverCached
  BY DEF CacheInv, Cancelling
<1> QED BY <1>1, CacheInvAlways, PTL

\* CancelQuery always finds the flag of a request somebody works on.
THEOREM CancelReachesCorrect ==
    ASSUME DistinctRids
    PROVE  Spec => []CancelReachesWorkers
<1>1. CacheInv => CancelReachesWorkers
  BY DEF CacheInv, Control
<1> QED BY <1>1, CacheInvAlways, PTL

\* An entry that says "not ready yet" has a collector that will complete it.
THEOREM NoOrphanCorrect ==
    ASSUME DistinctRids
    PROVE  Spec => []NoOrphanedEntry
<1>1. CacheInv => NoOrphanedEntry
  BY DEF CacheInv
<1> QED BY <1>1, CacheInvAlways, PTL

-----------------------------------------------------------------------------
(* Taking turns.                                                           *)

\* In p nobody of q is further back.
NobodyBack(q, p) ==
    \A i \in 1 .. Len(q), j \in 1 .. Len(p) : q[i] = p[j] => j <= i

\* Without repetitions, the position of an element is the one where it is found.
LEMMA PositionOf ==
    ASSUME NEW q, NoRepeat(q), NEW i \in 1 .. Len(q)
    PROVE  Position(q, q[i]) = i
<1>1. Position(q, q[i]) \in 1 .. Len(q) /\ q[Position(q, q[i])] = q[i]
  BY DEF Position
<1> QED BY <1>1 DEF NoRepeat

\* Those who stay move up.
LEMMA WithoutForward ==
    ASSUME NEW S, NEW q \in Seq(S), NEW R, NoRepeat(q)
    PROVE  NobodyBack(q, Without(q, R))
<1> DEFINE K == {i \in 1 .. Len(q) : q[i] \notin R}
           rank(k) == Cardinality({j \in K : j <= k})
           nth(n) == CHOOSE k \in K : rank(k) = n
           C == Cardinality(K)
           w == [n \in 1 .. C |-> q[nth(n)]]
<1>1. Len(q) \in Nat /\ K \in SUBSET (1 .. Len(q))
  OBVIOUS
<1>2. /\ C \in Nat
      /\ \A n \in 1 .. C : \E k \in K : rank(k) = n
  <2> HIDE DEF K
  <2> QED BY <1>1, RankOnto
<1>3. Without(q, R) = w
  BY DEF Without
<1>4. \A k \in K : rank(k) <= k
  <2> SUFFICES ASSUME NEW k \in K PROVE rank(k) <= k
    OBVIOUS
  <2>1. k \in Nat /\ {j \in K : j <= k} \in SUBSET (1 .. k)
    BY <1>1
  <2>2. IsFiniteSet(1 .. k) /\ Cardinality(1 .. k) = k
    BY <2>1, FS_Interval
  <2> HIDE DEF K
  <2> QED BY <2>1, <2>2, FS_Subset
<1> HIDE DEF rank
<1>5. \A n \in 1 .. C : nth(n) \in K /\ rank(nth(n)) = n
  BY <1>2
<1> HIDE DEF nth, C
<1>6. ASSUME NEW i \in 1 .. Len(q), NEW j \in 1 .. C, q[i] = w[j] PROVE j <= i
  <2>1. nth(j) \in 1 .. Len(q) /\ q[nth(j)] = q[i] /\ j <= nth(j)
    BY <1>4, <1>5, <1>6
  <2> QED BY <2>1 DEF NoRepeat
<1>7. Len(w) = C
  BY <1>2
<1> HIDE DEF w
<1> QED BY <1>3, <1>6, <1>7 DEF NobodyBack

\* One who joins, and the one whose turn it was.
LEMMA JoinForward ==
    ASSUME NEW S, NEW q \in Seq(S), NoRepeat(q)
    PROVE  /\ \A r \in S \ Members(q) : NobodyBack(q, Append(q, r))
           /\ q # <<>> =>
                \A i \in 1 .. Len(q), j \in 1 .. Len(q) :
                    q[i] = Append(Tail(q), Head(q))[j] => q[i] = Head(q) \/ j <= i
<1>1. ASSUME NEW r \in S \ Members(q) PROVE NobodyBack(q, Append(q, r))
  <2>1. /\ Len(q) \in Nat /\ Len(Append(q, r)) = Len(q) + 1
        /\ Append(q, r)[Len(q) + 1] = r
        /\ \A i \in 1 .. Len(q) : Append(q, r)[i] = q[i] /\ q[i] # r
    BY AppendProperties DEF Members
  <2> QED BY <2>1 DEF NobodyBack, NoRepeat
<1>2. ASSUME q # <<>>, NEW i \in 1 .. Len(q), NEW j \in 1 .. Len(q),
             q[i] = Append(Tail(q), Head(q))[j]
      PROVE  q[i] = Head(q) \/ j <= i
  <2> DEFINE p == Append(Tail(q), Head(q))  n == Len(q)
  <2>1. /\ n \in Nat \ {0}
        /\ Tail(q) \in Seq(S) /\ Len(Tail(q)) = n - 1
        /\ \A k \in 1 .. Len(Tail(q)) : Tail(q)[k] = q[k + 1]
        /\ Head(q) \in S
    BY <1>2, HeadTailProperties
  <2>2. p[n] = Head(q) /\ \A k \in 1 .. n - 1 : p[k] = q[k + 1]
    <3>1. /\ p[Len(Tail(q)) + 1] = Head(q)
          /\ \A k \in 1 .. Len(Tail(q)) : p[k] = Tail(q)[k]
      BY <2>1, AppendProperties
    <3> HIDE DEF p, n
    <3> QED BY <2>1, <3>1
  <2>3. p[j] = q[i] /\ i \in 1 .. n /\ j \in 1 .. n
    BY <1>2
  <2> HIDE DEF p, n
  <2>4. CASE j # n
    <3>1. q[j + 1] = q[i] /\ j + 1 \in 1 .. n
      BY <2>1, <2>2, <2>3, <2>4
    <3>2. j + 1 = i
      BY <2>3, <3>1 DEF NoRepeat, n
    <3> QED BY <2>3, <3>2
  <2> QED BY <2>2, <2>3, <2>4
<1> QED BY <1>1, <1>2

LEMMA TurnNext ==
    ASSUME TypeOK, Queueing, Queueing', DistinctRids, [Next]_vars
    PROVE  KeepsTurn
<1> DEFINE D == DOMAIN chunk_cache  q == fairness_queue
<1>1. q \in Seq(Rids) /\ NoRepeat(q) /\ NoRepeat(q')
  BY DEF TypeOK, Queueing, QueueMirrorsCache, NoRepeat
<1>2. ASSUME NEW r \in Members(q) \cap Members(q'),
             \A i \in 1 .. Len(q), j \in 1 .. Len(q') : q[i] = r /\ q'[j] = r => j <= i
      PROVE  Position(q', r) <= Position(q, r)
  <2>1. PICK i \in 1 .. Len(q), j \in 1 .. Len(q') : q[i] = r /\ q'[j] = r
    BY DEF Members
  <2>2. Position(q, r) = i
    BY <1>1, <2>1, PositionOf
  <2>3. Position(q', r) = j
    <3> DEFINE p == q'
    <3>1. NoRepeat(p) /\ j \in 1 .. Len(p) /\ p[j] = r
      BY <1>1, <2>1
    <3> HIDE DEF p
    <3>2. Position(p, r) = j
      BY <3>1, PositionOf
    <3> QED BY <3>2 DEF p
  <2> QED BY <1>2, <2>1, <2>2, <2>3
<1>3. ASSUME NobodyBack(q, q') PROVE KeepsTurn
  <2>1. \A r \in Members(q) \cap Members(q') : Position(q', r) <= Position(q, r)
    BY <1>2, <1>3 DEF NobodyBack
  <2> QED BY <2>1 DEF KeepsTurn, Members
<1>4. CASE q' = q
  BY <1>1, <1>3, <1>4 DEF NobodyBack, NoRepeat
<1>5. CASE q # <<>> /\ q' = Append(Tail(q), Head(q))
  <2>1. Members(q') = Members(q)
    <3>1. Head(q) \in Rids /\ Tail(q) \in Seq(Rids)
      BY <1>1, <1>5, HeadTailProperties
    <3>2. \A p \in Seq(Rids), r \in Rids : Members(Append(p, r)) = Members(p) \cup {r}
      BY MembersOfQueue
    <3>3. Members(q) = {Head(q)} \cup Members(Tail(q))
      BY ONLY <1>1, <1>5, MembersOfQueue
    <3>4. Members(Append(Tail(q), Head(q))) = Members(Tail(q)) \cup {Head(q)}
      BY <3>1, <3>2, Zenon
    <3> QED BY <1>5, <3>3, <3>4, Zenon
  <2>2. Len(q') = Len(q)
    BY <1>1, <1>5, HeadTailProperties, AppendProperties
  <2>3. \A i \in 1 .. Len(q), j \in 1 .. Len(q) :
            q[i] = Append(Tail(q), Head(q))[j] => q[i] = Head(q) \/ j <= i
    BY ONLY <1>1, <1>5, JoinForward
  <2>4. ASSUME NEW r \in Members(q) \cap Members(q'), r # Head(q)
        PROVE  Position(q', r) <= Position(q, r)
    <3>1. \A i \in 1 .. Len(q), j \in 1 .. Len(q') : q[i] = r /\ q'[j] = r => j <= i
      BY <1>5, <2>2, <2>3, <2>4
    <3> QED BY <1>2, <3>1
  <2> HIDE DEF q
  <2>5. Members(q)' = Members(q)
    BY <2>1 DEF q
  <2> QED BY <2>1, <2>4, <2>5 DEF KeepsTurn, q
<1>6. ASSUME NEW R \in SUBSET Rids, q' = Without(q, R) PROVE KeepsTurn
  <2>1. NobodyBack(q, Without(q, R))
    BY ONLY <1>1, WithoutForward
  <2> QED BY <1>3, <1>6, <2>1, Zenon
<1>7. ASSUME NEW s \in Submissions, pc[s] = "insert", q' = Append(q, Rid(s))
      PROVE  KeepsTurn
  <2>1. Rid(s) \in Rids \ Members(q)
    BY <1>7, Parts DEF Queueing, NotYetQueued, Early
  <2>2. \A r \in Rids \ Members(q) : NobodyBack(q, Append(q, r))
    BY ONLY <1>1, JoinForward
  <2> QED BY <1>3, <1>7, <2>1, <2>2, Zenon
<1> HIDE DEF D, q
<1> QED BY <1>4, <1>5, <1>6, <1>7, CacheSteps DEF q

\* The fairness queue is round robin: a queued request moves back only by its own
\* turn (FetchChunk), never because another one joins, leaves or is dropped.
THEOREM TurnsCorrect ==
    ASSUME DistinctRids
    PROVE  Spec => NoLostTurn
<1>1. TypeOK /\ CacheInv /\ CacheInv' /\ [Next]_vars => [KeepsTurn]_vars
  BY TurnNext DEF CacheInv
<1> QED BY <1>1, TypeCorrect, CacheInvAlways, PTL DEF Spec, NoLostTurn
=============================================================================
