-------------------------- MODULE EntryDeliveryProofs --------------------------
(***************************************************************************)
(* What a client of EntryNode gets, for clients that never use a request id *)
(* twice: the exact rows of its query, a failure only for a cause, and all  *)
(* that QueryService promises.                                              *)
(***************************************************************************)
EXTENDS EntryNodeProofs, EntryNodeRefinement

-----------------------------------------------------------------------------
(* Cutting rows into chunks and putting them together again.               *)

\* i chunks of size d do not reach the end of n rows exactly if i is less than the
\* number of chunks.
LEMMA CutBounds ==
    ASSUME NEW n \in Nat, NEW d \in Nat \ {0}
    PROVE  /\ CeilDiv(n, d) \in Nat
           /\ n <= CeilDiv(n, d) * d
           /\ \A i \in Nat : i < CeilDiv(n, d) => i * d < n
           /\ CeilDiv(n, d) = 0 => n = 0
<1> DEFINE q == CeilDiv(n, d)
           m == (n + d - 1) % d
<1>1. q \in Nat
  BY CeilDivNat
<1>2. m \in Int /\ n + d - 1 = d * q + m /\ 0 <= m /\ m < d
  BY DEF CeilDiv
<1> HIDE DEF q, m
<1>3. q * d \in Int /\ d * q = q * d
  BY <1>1
<1>4. n <= q * d /\ q * d <= n + d - 1
  BY <1>2, <1>3
<1>5. ASSUME NEW i \in Nat, i < q PROVE i * d < n
  <2>1. (i + 1) * d <= q * d
    BY <1>1, <1>5
  <2>2. (i + 1) * d = i * d + d /\ i * d \in Int /\ (i + 1) * d \in Int
    OBVIOUS
  <2> QED BY <1>3, <1>4, <2>1, <2>2
<1>6. q = 0 => n = 0
  BY <1>4
<1> QED BY <1>1, <1>4, <1>5, <1>6 DEF q

\* A window of the rows, and what it continues.
LEMMA Windows ==
    ASSUME NEW S, NEW q \in Seq(S), NEW a \in Nat, NEW b \in Nat, a <= b, b <= Len(q)
    PROVE  /\ SubSeq(q, a + 1, b) \in Seq(S) /\ Len(SubSeq(q, a + 1, b)) = b - a
           /\ \A i \in 1 .. b - a : SubSeq(q, a + 1, b)[i] = q[a + i]
           /\ SubSeq(q, 1, a) \in Seq(S) /\ Len(SubSeq(q, 1, a)) = a
           /\ SubSeq(q, 1, a) \o SubSeq(q, a + 1, b) = SubSeq(q, 1, b)
<1>1. \A i \in a + 1 .. b : q[i] \in S
  OBVIOUS
<1>2. /\ SubSeq(q, a + 1, b) \in Seq(S) /\ Len(SubSeq(q, a + 1, b)) = b - a
      /\ \A i \in 1 .. b - a : SubSeq(q, a + 1, b)[i] = q[a + i]
  BY <1>1, SubSeqProperties
<1>3. SubSeq(q, 1, a) \in Seq(S) /\ Len(SubSeq(q, 1, a)) = a
  BY SubSeqProperties
<1>4. SubSeq(q, 1, a) \o SubSeq(q, a + 1, b) = SubSeq(q, 1, b)
  BY ConcatAdjacentSubSeq
<1> QED BY <1>2, <1>3, <1>4

\* A window of what lies behind the first a rows.
LEMMA WindowOfRest ==
    ASSUME NEW S, NEW q \in Seq(S), NEW a \in 0 .. Len(q),
           NEW x \in Nat, NEW y \in Nat, x <= y, a + y <= Len(q)
    PROVE  SubSeq(SubSeq(q, a + 1, Len(q)), x + 1, y) = SubSeq(q, a + x + 1, a + y)
<1> DEFINE rest == SubSeq(q, a + 1, Len(q))
           l == SubSeq(rest, x + 1, y)
           r == SubSeq(q, a + x + 1, a + y)
<1>1. /\ rest \in Seq(S) /\ Len(rest) = Len(q) - a
      /\ \A i \in 1 .. Len(q) - a : rest[i] = q[a + i]
  BY Windows
<1> HIDE DEF rest
<1>2. /\ l \in Seq(S) /\ Len(l) = y - x
      /\ \A i \in 1 .. y - x : l[i] = rest[x + i]
  BY <1>1, Windows
<1>3. /\ r \in Seq(S) /\ Len(r) = y - x
      /\ \A i \in 1 .. y - x : r[i] = q[a + x + i]
  BY Windows
<1> HIDE DEF l, r
<1>4. \A i \in 1 .. y - x : l[i] = r[i]
  <2> TAKE i \in 1 .. y - x
  <2>1. x + i \in 1 .. Len(q) - a /\ a + (x + i) = a + x + i
    OBVIOUS
  <2> QED BY <1>1, <1>2, <1>3, <2>1
<1>5. l = r
  BY <1>2, <1>3, <1>4, SeqEqual
<1> QED BY <1>5 DEF l, r, rest

\* The i-th chunk goes on behind the first a + (i - 1) * size rows of q, up to row n,
\* without a gap; only the last chunk may be short, and it ends the rows.
GoesOnTo(q, a, size, chunks, i, n) ==
    LET from == a + (i - 1) * size
    IN  /\ from \in Nat /\ from <= n /\ n <= from + size /\ n <= Len(q)
        /\ SubSeq(q, 1, from) \o chunks[i] = SubSeq(q, 1, n)
        /\ IF i = Len(chunks) THEN n = Len(q) ELSE n = a + (i + 1 - 1) * size

GoesOn(q, a, size, chunks) ==
    /\ Len(chunks) \in Nat
    /\ Len(chunks) = 0 => a = Len(q)
    /\ \A i \in 1 .. Len(chunks) : \E n \in Nat : GoesOnTo(q, a, size, chunks, i, n)

\* So do the chunks of what lies behind the first a rows.
LEMMA NextChunk ==
    ASSUME NEW S, NEW q \in Seq(S), NEW size \in Nat \ {0}, NEW a \in 0 .. Len(q)
    PROVE  GoesOn(q, a, size, ChunkViews(SubSeq(q, a + 1, Len(q)), size))
<1> DEFINE rest == SubSeq(q, a + 1, Len(q))
           n == Len(q) - a
           chunks == ChunkViews(rest, size)
           count == CeilDiv(n, size)
           from(i) == a + (i - 1) * size
           to(i) == Least(a + i * size, Len(q))
<1>1. n \in Nat /\ Len(q) \in Nat /\ rest \in Seq(S) /\ Len(rest) = n
  BY Windows
<1>2. /\ count \in Nat /\ n <= count * size /\ (count = 0 => n = 0)
      /\ \A i \in Nat : i < count => i * size < n
  BY <1>1, CutBounds
<1>3. chunks = [i \in 1 .. count |-> Slice(rest, i - 1, size)]
  BY <1>1 DEF ChunkViews
<1>4. chunks \in Seq(Seq(S)) /\ Len(chunks) = count
  <2>1. chunks \in Seq(Seq(S))
    BY <1>1, ChunkTypes
  <2> HIDE DEF chunks, count
  <2> QED BY <1>2, <1>3, <2>1
<1> HIDE DEF rest, chunks, count
<1>5. ASSUME NEW i \in 1 .. count
      PROVE  /\ from(i) \in Nat /\ to(i) \in Nat
             /\ from(i) <= to(i) /\ to(i) <= from(i) + size /\ to(i) <= Len(q)
             /\ SubSeq(q, 1, from(i)) \o chunks[i] = SubSeq(q, 1, to(i))
             /\ IF i = count THEN to(i) = Len(q) ELSE to(i) = from(i + 1)
  <2> DEFINE x == (i - 1) * size
             z == i * size
             y == Least(z, n)
  <2>1. x \in Nat /\ z \in Nat /\ z = x + size /\ (i + 1 - 1) * size = z
    BY <1>2
  <2>2. x < n
    BY <1>2
  <2>3. i # count => z < n
    BY <1>2
  <2>4. i = count => n <= z
    BY <1>2
  <2>5. chunks[i] = SubSeq(rest, x + 1, y)
    <3>1. chunks[i] = Slice(rest, i - 1, size)
      BY <1>3
    <3>2. i - 1 + 1 = i
      BY <1>2
    <3> QED BY <1>1, <3>1, <3>2 DEF Slice
  <2>6. from(i) = a + x /\ to(i) = Least(a + z, Len(q)) /\ from(i + 1) = a + z
    BY <2>1
  <2> HIDE DEF x, z, from, to
  <2>7. y \in Nat /\ x <= y /\ y <= n /\ y <= x + size
        /\ Least(a + z, Len(q)) = a + y
        /\ (i # count => y = z) /\ (i = count => y = n)
    BY <1>1, <2>1, <2>2, <2>3, <2>4 DEF Least
  <2> HIDE DEF y
  <2> DEFINE lo == a + x
             hi == a + y
  <2>8. chunks[i] = SubSeq(q, lo + 1, hi)
    BY <1>1, <2>1, <2>5, <2>7, WindowOfRest DEF rest
  <2>9. /\ lo \in Nat /\ hi \in Nat /\ lo <= hi /\ hi <= lo + size /\ hi <= Len(q)
        /\ IF i = count THEN hi = Len(q) ELSE hi = from(i + 1)
    BY <1>1, <2>1, <2>6, <2>7
  <2>10. from(i) = lo /\ to(i) = hi
    BY <2>6, <2>7
  <2> HIDE DEF lo, hi
  <2>11. SubSeq(q, 1, lo) \o chunks[i] = SubSeq(q, 1, hi)
    BY <2>8, <2>9, Windows
  <2> QED BY <2>9, <2>10, <2>11
<1> HIDE DEF to
<1>6. count = 0 => a = Len(q)
  BY <1>1, <1>2
<1>7. \A i \in 1 .. count : GoesOnTo(q, a, size, chunks, i, to(i)) /\ to(i) \in Nat
  BY <1>4, <1>5 DEF GoesOnTo
<1>8. GoesOn(q, a, size, chunks)
  BY <1>2, <1>4, <1>6, <1>7 DEF GoesOn
<1> QED BY <1>8 DEF chunks, rest

\* The first chunk of A's own rows begins all the rows, and what is behind it,
\* followed by the other rows, is the rest.
LEMMA FirstAndRest ==
    ASSUME NEW S, NEW l \in Seq(S), NEW m \in Seq(S), NEW size \in Nat \ {0}
    PROVE  LET a == Len(Slice(l, 0, size))
               q == l \o m
           IN  /\ q \in Seq(S) /\ Len(q) = Len(l) + Len(m)
               /\ a = Least(size, Len(l)) /\ a \in 0 .. Len(l)
               /\ Slice(l, 0, size) = SubSeq(l, 1, a)
               /\ SubSeq(l, 1, a) = SubSeq(q, 1, a)
               /\ AfterFirst(l, size) \o m = SubSeq(q, a + 1, Len(q))
               /\ Len(AfterFirst(l, size)) = Len(l) - a
<1> DEFINE k == Least(size, Len(l))
           q == l \o m
           after == AfterFirst(l, size)
           rest == SubSeq(q, k + 1, Len(q))
<1>1. Len(l) \in Nat /\ Len(m) \in Nat /\ k \in Nat /\ k <= Len(l)
  BY DEF Least
<1>2. /\ q \in Seq(S) /\ Len(q) = Len(l) + Len(m)
      /\ \A i \in 1 .. Len(l) + Len(m) : q[i] = IF i <= Len(l) THEN l[i] ELSE m[i - Len(l)]
  BY ConcatProperties
<1>3. Slice(l, 0, size) = SubSeq(l, 1, k)
  <2>1. 0 * size + 1 = 1 /\ (0 + 1) * size = size
    OBVIOUS
  <2> QED BY <2>1, Zenon DEF Slice
<1>4. /\ after \in Seq(S) /\ Len(after) = Len(l) - k
      /\ \A i \in 1 .. Len(l) - k : after[i] = l[k + i]
  <2> HIDE DEF k
  <2>1. after = SubSeq(l, k + 1, Len(l))
    BY DEF AfterFirst, k
  <2> QED BY <1>1, <2>1, Windows
<1> HIDE DEF k, q, after
<1>5. /\ rest \in Seq(S) /\ Len(rest) = Len(q) - k
      /\ \A i \in 1 .. Len(q) - k : rest[i] = q[k + i]
  BY <1>1, <1>2, Windows
<1> HIDE DEF rest
<1>6. Len(SubSeq(l, 1, k)) = k
  BY <1>1, Windows
<1>7. SubSeq(l, 1, k) = SubSeq(q, 1, k)
  <2>1. /\ SubSeq(l, 1, k) \in Seq(S) /\ SubSeq(q, 1, k) \in Seq(S)
        /\ Len(SubSeq(l, 1, k)) = k /\ Len(SubSeq(q, 1, k)) = k
    BY <1>1, <1>2, Windows
  <2>2. \A i \in 1 .. k : SubSeq(l, 1, k)[i] = l[i] /\ SubSeq(q, 1, k)[i] = q[i]
    BY <1>1, <1>2
  <2>3. \A i \in 1 .. k : l[i] = q[i]
    BY <1>1, <1>2
  <2> QED BY <2>1, <2>2, <2>3, SeqEqual
<1>8. after \o m = rest
  <2>1. /\ after \o m \in Seq(S) /\ Len(after \o m) = Len(l) - k + Len(m)
        /\ \A i \in 1 .. Len(l) - k + Len(m) :
              (after \o m)[i] = IF i <= Len(l) - k THEN after[i] ELSE m[i - (Len(l) - k)]
    <3>1. /\ after \o m \in Seq(S) /\ Len(after \o m) = Len(after) + Len(m)
          /\ \A i \in 1 .. Len(after) + Len(m) :
                (after \o m)[i] = IF i <= Len(after) THEN after[i] ELSE m[i - Len(after)]
      BY ONLY <1>4, m \in Seq(S), ConcatProperties
    <3> QED BY ONLY <1>4, <3>1
  <2>2. \A i \in 1 .. Len(l) - k + Len(m) : (after \o m)[i] = rest[i]
    <3> TAKE i \in 1 .. Len(l) - k + Len(m)
    <3>1. k + i \in 1 .. Len(l) + Len(m) /\ i \in 1 .. Len(q) - k
      BY <1>1, <1>2
    <3>2. rest[i] = IF k + i <= Len(l) THEN l[k + i] ELSE m[k + i - Len(l)]
      <4>1. rest[i] = q[k + i]
        BY <1>5, <3>1
      <4>2. q[k + i] = IF k + i <= Len(l) THEN l[k + i] ELSE m[k + i - Len(l)]
        <5>1. PICK j \in 1 .. Len(l) + Len(m) : j = k + i
          BY <3>1
        <5>2. q[j] = IF j <= Len(l) THEN l[j] ELSE m[j - Len(l)]
          BY ONLY <1>2, <5>1
        <5> QED BY <1>1, <5>1, <5>2
      <4> QED BY ONLY <4>1, <4>2
    <3>3. i <= Len(l) - k <=> k + i <= Len(l)
      BY <1>1
    <3>4. i - (Len(l) - k) = k + i - Len(l)
      BY <1>1
    <3>5. CASE i <= Len(l) - k
      <4>1. i \in 1 .. Len(l) - k
        BY <1>1, <3>5
      <4> QED BY <1>4, <2>1, <3>2, <3>3, <3>5, <4>1
    <3>6. CASE ~ (i <= Len(l) - k)
      BY <2>1, <3>2, <3>3, <3>4, <3>6
    <3> QED BY <3>5, <3>6
  <2>3. Len(rest) = Len(l) - k + Len(m)
    BY <1>1, <1>2, <1>5
  <2> QED BY <1>5, <2>1, <2>2, <2>3, SeqEqual
<1>9. Len(Slice(l, 0, size)) = k /\ k \in 0 .. Len(l)
  BY <1>1, <1>3, <1>6
<1> QED BY <1>2, <1>3, <1>4, <1>7, <1>8, <1>9 DEF k, q, after, rest

-----------------------------------------------------------------------------
(* The inductive invariant: what holds of one submission, its handler, its  *)
(* collector, its entry and its client.                                     *)

Size(s) == response[s].size
FirstRows(s) == response[s].records
Responded(s) == response[s].status = "ok"

\* A chunk cannot be the last one of a response that has not counted every row.
MoreToFetch(s) == Responded(s) /\ ~ response[s].is_last

\* The rows behind the first chunk, and the chunks they are cut into.
Rest(s) == SubSeq(MergedRecords(s), Len(FirstRows(s)) + 1, Len(MergedRecords(s)))
Chunks(s) == ChunkViews(Rest(s), Size(s))

\* The handler has a response once it is past the children, and the children are
\* called before that.
HandlerInv(s) ==
    /\ pc[s] \in {"idle", "waiting", "admitted", "registered"} =>
          \A c \in Children : futures[s][c] = "unsent"
    /\ response[s].status = "none" <=> pc[s] \in Early \ {"insert"}
    /\ pc[s] = "insert" => MoreToFetch(s)
    /\ pc[s] = "unregister" => Responded(s)
    /\ bg[s] # "none" => stream_up /\ Children # {} /\ pc[s] \in {"returning", "returned"}
    /\ bg[s] \in {"merging", "done"} => Answered(s)

\* A query is rejected or cancelled only for a reason, and a cancellation is on record.
CauseInv(s) ==
    /\ response[s].status = "invalid" => ~ Query[s].supported
    /\ pc[s] = "cancelled" \/ response[s].status = "cancelled" => cancel_flag[s]
    /\ cancel_flag[s] \/ Rid(s) \in canceled_ids => Rid(s) \in disturbed

\* The first response: A's own first rows if it is streamed, the first rows of all
\* there are otherwise.
ResponseInv(s) ==
    Responded(s) =>
        IF stream_up
        THEN response[s] = FirstResponse(Query[s].local, Query[s].local_count, Size(s),
                              Children = {} /\ Len(Query[s].local) <= Size(s))
        ELSE /\ Answered(s)
             /\ response[s] = FirstResponse(MergedRecords(s), MergedCount(s), Size(s),
                                Len(MergedRecords(s)) <= Size(s))

\* The entry: complete and cut into the right chunks, or A's own rows with a
\* collector that will add the others.
EntryInv(s) ==
    Rid(s) \in DOMAIN chunk_cache =>
        LET entry == chunk_cache[Rid(s)]
        IN  /\ MoreToFetch(s)
            /\ pc[s] \in {"unregister", "returning", "returned"}
            /\ entry.records_per_chunk = Size(s)
            /\ entry.finalized <=> bg[s] \notin {"collecting", "merging"}
            /\ entry.finalized =>
                  /\ Answered(s)
                  /\ entry.chunks = Chunks(s)
                  /\ entry.total_chunks = 1 + Len(Chunks(s))
                  /\ entry.count = MergedCount(s)
            /\ ~ entry.finalized =>
                  /\ entry.chunks = <<>>
                  /\ entry.stream = AfterFirst(Query[s].local, Size(s))
                  /\ entry.count = Query[s].local_count

\* The client: nothing, the first chunk, the first chunks of the complete answer in
\* order, or all of it.
ClientInv(s) ==
    /\ client[s] = "start" => pc[s] = "idle"
    /\ client[s] \in {"start", "submitting"} => received[s] = <<>> /\ idx[s] = 1
    /\ client[s] \in {"fetching", "done"} => pc[s] = "returned" /\ Responded(s)
    /\ client[s] = "fetching" =>
          /\ MoreToFetch(s)
          /\ received[s] = SubSeq(MergedRecords(s), 1,
                                  Len(FirstRows(s)) + (idx[s] - 1) * Size(s))
          /\ idx[s] # 1 => Answered(s) /\ idx[s] <= Len(Chunks(s))
    /\ client[s] = "done" =>
          /\ Answered(s)
          /\ received[s] = MergedRecords(s)
          /\ reported[s] = MergedCount(s)
    /\ \/ received[s] = <<>>
       \/ Responded(s) /\ received[s] = FirstRows(s)
       \/ Responded(s) /\ Answered(s) /\ IsPrefixOf(received[s], MergedRecords(s))

\* A client that has something to fetch finds it, unless somebody interfered.
FetchInv(s) ==
    /\ /\ MoreToFetch(s)
       /\ pc[s] \in {"unregister", "returning", "returned"}
       /\ client[s] \in {"submitting", "fetching"}
       => Rid(s) \in DOMAIN chunk_cache \cup disturbed
    /\ client[s] = "failed" =>
          ~ Query[s].supported \/ Rid(s) \in disturbed \/ NothingLeft(s)

SubmissionInv(s) ==
    /\ HandlerInv(s) /\ CauseInv(s) /\ ResponseInv(s)
    /\ EntryInv(s) /\ ClientInv(s) /\ FetchInv(s)

DeliveryInv == \A s \in Submissions : SubmissionInv(s)
-----------------------------------------------------------------------------
(* What the invariant says of a response and of its rows.                  *)

\* The first chunk begins all the rows; if it is said to be the last one it is all
\* of them, and if it is not and nothing is behind it, the response was streamed.
LEMMA FirstPiece ==
    ASSUME TypeOK, NEW s \in Submissions, Responded(s), ResponseInv(s)
    PROVE  LET q == MergedRecords(s)
               a == Len(FirstRows(s))
           IN  /\ Size(s) \in Nat \ {0} /\ q \in Seq(Record)
               /\ a \in 0 .. Len(q) /\ a <= Size(s)
               /\ FirstRows(s) = SubSeq(q, 1, a)
               /\ stream_up =>
                    /\ a <= Len(Query[s].local)
                    /\ FirstRows(s) = SubSeq(Query[s].local, 1, a)
                    /\ Rest(s) = AfterFirst(Query[s].local, Size(s))
                                    \o Query[s].merged[OkChildren(s)]
                    /\ Len(AfterFirst(Query[s].local, Size(s))) = Len(Query[s].local) - a
                    /\ response[s].count = Query[s].local_count
               /\ ~ stream_up => Answered(s) /\ Rest(s) = AfterFirst(q, Size(s))
               /\ response[s].is_last =>
                    /\ Answered(s) /\ FirstRows(s) = q
                    /\ response[s].count = MergedCount(s)
               /\ ~ response[s].is_last /\ Answered(s) /\ a = Len(q) => NothingLeft(s)
<1> DEFINE rows == MergedRecords(s)
           n == Len(FirstRows(s))
           own == Query[s].local
           others == Query[s].merged[OkChildren(s)]
<1>1. /\ Size(s) \in Nat \ {0} /\ rows \in Seq(Record) /\ own \in Seq(Record)
      /\ others \in Seq(Record) /\ rows = own \o others /\ Len(rows) \in Nat /\ Len(own) \in Nat
  <2>1. Size(s) \in Nat \ {0}
    BY Parts DEF TypeOK, Response, Size
  <2>2. own \in Seq(Record) /\ others \in Seq(Record) /\ rows \in Seq(Record)
    BY Parts, MergedTypes
  <2>3. rows = own \o others
    BY DEF MergedRecords
  <2> HIDE DEF rows, own, others
  <2> QED BY <2>1, <2>2, <2>3
<1> HIDE DEF rows, own, others, n
<1>2. CASE stream_up
  <2>1. /\ FirstRows(s) = Slice(own, 0, Size(s))
        /\ response[s].count = Query[s].local_count
        /\ (response[s].is_last <=> Children = {} /\ Len(own) <= Size(s))
    <3>1. /\ FirstRows(s) = Slice(own, 0, Size(s))
          /\ response[s].count = Query[s].local_count
          /\ response[s].is_last = (Children = {} /\ Len(own) <= Size(s))
      BY <1>2 DEF ResponseInv, FirstResponse, FirstRows, own
    <3> QED BY <3>1, Zenon
  <2>2. /\ n = Least(Size(s), Len(own)) /\ n \in 0 .. Len(own)
        /\ Len(rows) = Len(own) + Len(others)
        /\ FirstRows(s) = SubSeq(own, 1, n) /\ FirstRows(s) = SubSeq(rows, 1, n)
        /\ AfterFirst(own, Size(s)) \o others = Rest(s)
        /\ Len(AfterFirst(own, Size(s))) = Len(own) - n
    <3>1. LET b == Len(Slice(own, 0, Size(s)))
              p == own \o others
          IN  /\ Len(p) = Len(own) + Len(others)
              /\ b = Least(Size(s), Len(own)) /\ b \in 0 .. Len(own)
              /\ Slice(own, 0, Size(s)) = SubSeq(own, 1, b)
              /\ SubSeq(own, 1, b) = SubSeq(p, 1, b)
              /\ AfterFirst(own, Size(s)) \o others = SubSeq(p, b + 1, Len(p))
              /\ Len(AfterFirst(own, Size(s))) = Len(own) - b
      <4>1. own \in Seq(Record) /\ others \in Seq(Record) /\ Size(s) \in Nat \ {0}
        BY <1>1
      <4> QED BY ONLY <4>1, FirstAndRest, ZenonT(40)
    <3>2. Rest(s) = SubSeq(rows, n + 1, Len(rows))
      BY DEF Rest, rows, n
    <3> QED BY <1>1, <2>1, <3>1, <3>2 DEF n
  <2>3. n \in 0 .. Len(rows) /\ n <= Size(s)
    BY <1>1, <2>2 DEF Least
  <2>4. ASSUME Children = {}
        PROVE  Answered(s) /\ own = rows /\ Query[s].local_count = MergedCount(s)
    <3>1. OkChildren(s) = {} /\ Answered(s)
      BY <2>4 DEF OkChildren, Answered
    <3>2. others = <<>> /\ Query[s].merged_count[OkChildren(s)] = 0
      BY <3>1, AnswerAssumption DEF others
    <3>3. own = rows
      BY <1>1, <3>2, ConcatEmptySeq
    <3>4. Query[s].local_count = MergedCount(s)
      BY <3>2, <3>3, AnswerAssumption, Parts DEF MergedCount, rows, own
    <3> QED BY <3>1, <3>3, <3>4
  <2>5. ASSUME response[s].is_last
        PROVE  /\ Answered(s) /\ FirstRows(s) = rows
               /\ response[s].count = MergedCount(s)
    <3>1. Children = {} /\ n = Len(own)
      BY <1>1, <2>1, <2>2, <2>5 DEF Least
    <3>2. SubSeq(own, 1, Len(own)) = own
      BY <1>1, SubSeqFull
    <3> QED BY <2>1, <2>2, <2>4, <3>1, <3>2
  <2>6. ASSUME ~ response[s].is_last, Answered(s), n = Len(rows)
        PROVE  NothingLeft(s)
    <3>1. Len(rows) <= Size(s)
      BY <2>3, <2>6
    <3>2. Children # {}
      BY <2>1, <2>4, <2>6, <3>1
    <3> QED BY <1>2, <2>6, <3>1, <3>2 DEF NothingLeft, Responded, Size, rows
  <2>7. Size(s) \in Nat \ {0} /\ rows \in Seq(Record)
    BY <1>1
  <2>8. n <= Len(own)
    BY <1>1, <2>2
  <2> QED BY ONLY <1>2, <2>1, <2>2, <2>3, <2>5, <2>6, <2>7, <2>8, Zenon DEF rows, n, own, others
<1>3. CASE ~ stream_up
  <2>1. /\ FirstRows(s) = Slice(rows, 0, Size(s)) /\ Answered(s)
        /\ response[s].count = MergedCount(s)
        /\ (response[s].is_last <=> Len(rows) <= Size(s))
    <3>1. /\ FirstRows(s) = Slice(rows, 0, Size(s)) /\ Answered(s)
          /\ response[s].count = MergedCount(s)
          /\ response[s].is_last = (Len(rows) <= Size(s))
      BY <1>3 DEF ResponseInv, FirstResponse, FirstRows, rows
    <3> QED BY <3>1, Zenon
  <2>2. <<>> \in Seq(Record) /\ rows \o <<>> = rows
    BY <1>1, ConcatEmptySeq
  <2>3. /\ n = Least(Size(s), Len(rows)) /\ n \in 0 .. Len(rows)
        /\ FirstRows(s) = SubSeq(rows, 1, n)
    <3>1. LET b == Len(Slice(rows, 0, Size(s)))
          IN  /\ b = Least(Size(s), Len(rows)) /\ b \in 0 .. Len(rows)
              /\ Slice(rows, 0, Size(s)) = SubSeq(rows, 1, b)
      <4>1. rows \in Seq(Record) /\ Size(s) \in Nat \ {0}
        BY <1>1
      <4> QED BY ONLY <4>1, <2>2, FirstAndRest
    <3> QED BY <2>1, <3>1 DEF n
  <2>4. Rest(s) = AfterFirst(rows, Size(s))
    BY <2>3 DEF Rest, AfterFirst, rows, n
  <2>5. n <= Size(s) /\ (~ response[s].is_last => n # Len(rows))
        /\ (response[s].is_last => n = Len(rows))
    BY <1>1, <2>1, <2>3 DEF Least
  <2>6. SubSeq(rows, 1, Len(rows)) = rows
    BY <1>1, SubSeqFull
  <2> QED BY <1>1, <1>3, <2>1, <2>3, <2>4, <2>5, <2>6 DEF rows, n
<1> QED BY <1>2, <1>3

\* What only depends on the calls to the children and on the response.
LEMMA SameAnswer ==
    ASSUME NEW t, futures'[t] = futures[t]
    PROVE  /\ OkChildren(t)' = OkChildren(t) /\ Answered(t)' = Answered(t)
           /\ MergedRecords(t)' = MergedRecords(t) /\ MergedCount(t)' = MergedCount(t)
           /\ response'[t] = response[t] =>
                /\ Size(t)' = Size(t) /\ FirstRows(t)' = FirstRows(t)
                /\ (Responded(t)' <=> Responded(t)) /\ (MoreToFetch(t)' <=> MoreToFetch(t))
                /\ Rest(t)' = Rest(t) /\ Chunks(t)' = Chunks(t)
                /\ stream_up' = stream_up => (NothingLeft(t)' <=> NothingLeft(t))
<1>1. OkChildren(t)' = OkChildren(t) /\ Answered(t)' = Answered(t)
  BY DEF OkChildren, Answered
<1>2. MergedRecords(t)' = MergedRecords(t)
  BY <1>1 DEF MergedRecords
<1>3. MergedCount(t)' = MergedCount(t)
  BY <1>1, <1>2 DEF MergedCount
<1>4. ASSUME response'[t] = response[t]
      PROVE  /\ Size(t)' = Size(t) /\ FirstRows(t)' = FirstRows(t)
             /\ (Responded(t)' <=> Responded(t)) /\ (MoreToFetch(t)' <=> MoreToFetch(t))
  BY <1>4 DEF Size, FirstRows, Responded, MoreToFetch
<1>5. ASSUME response'[t] = response[t]
      PROVE  Rest(t)' = Rest(t) /\ Chunks(t)' = Chunks(t)
  BY <1>2, <1>4, <1>5 DEF Rest, Chunks
<1>6. ASSUME response'[t] = response[t], stream_up' = stream_up
      PROVE  NothingLeft(t)' <=> NothingLeft(t)
  BY <1>1, <1>2, <1>6 DEF NothingLeft
<1> QED BY <1>1, <1>2, <1>3, <1>4, <1>5, <1>6

-----------------------------------------------------------------------------
(* A step that does not concern a submission.                              *)

\* Two entries that differ at most in their age.
SameContent(e, f) ==
    /\ e.finalized = f.finalized /\ e.total_chunks = f.total_chunks
    /\ e.records_per_chunk = f.records_per_chunk /\ e.count = f.count
    /\ e.stream = f.stream /\ e.chunks = f.chunks

LEMMA AgeOnly ==
    ASSUME NEW e \in Entry, NEW n
    PROVE  SameContent([e EXCEPT !.age = n], e)
  BY DEF SameContent, Entry

\* Its entry stays as it is, or is taken away by somebody who leaves a trace.
EntryKept(t) ==
    \/ /\ Rid(t) \notin DOMAIN chunk_cache'
       /\ Rid(t) \in DOMAIN chunk_cache => Rid(t) \in disturbed'
    \/ /\ Rid(t) \in DOMAIN chunk_cache /\ Rid(t) \in DOMAIN chunk_cache'
       /\ SameContent(chunk_cache'[Rid(t)], chunk_cache[Rid(t)])

\* Nobody is cancelled or evicted without a trace.
Traced(t) ==
    /\ disturbed \subseteq disturbed'
    /\ cancel_flag[t] => cancel_flag'[t]
    /\ cancel_flag'[t] => cancel_flag[t] \/ Rid(t) \in disturbed'
    /\ Rid(t) \in canceled_ids' => Rid(t) \in canceled_ids \/ Rid(t) \in disturbed'

LEMMA Elsewhere ==
    ASSUME NEW t, SubmissionInv(t), stream_up' = stream_up,
           pc'[t] = pc[t], futures'[t] = futures[t], bg'[t] = bg[t],
           response'[t] = response[t], client'[t] = client[t], idx'[t] = idx[t],
           received'[t] = received[t], reported'[t] = reported[t],
           EntryKept(t), Traced(t)
    PROVE  SubmissionInv(t)'
<1>1. /\ OkChildren(t)' = OkChildren(t) /\ Answered(t)' = Answered(t)
      /\ MergedRecords(t)' = MergedRecords(t) /\ MergedCount(t)' = MergedCount(t)
      /\ Size(t)' = Size(t) /\ FirstRows(t)' = FirstRows(t)
      /\ (Responded(t)' <=> Responded(t)) /\ (MoreToFetch(t)' <=> MoreToFetch(t))
      /\ Rest(t)' = Rest(t) /\ Chunks(t)' = Chunks(t)
      /\ (NothingLeft(t)' <=> NothingLeft(t))
  BY SameAnswer
<1>2. HandlerInv(t)'
  BY <1>1 DEF SubmissionInv, HandlerInv
<1>3. CauseInv(t)'
  BY DEF SubmissionInv, CauseInv, Traced
<1>4. ResponseInv(t)'
  BY <1>1 DEF SubmissionInv, ResponseInv
<1>5. EntryInv(t)'
  BY <1>1 DEF SubmissionInv, EntryInv, EntryKept, SameContent, Rid
<1>6. ClientInv(t)'
  BY <1>1 DEF SubmissionInv, ClientInv
<1>7. FetchInv(t)'
  BY <1>1 DEF SubmissionInv, FetchInv, EntryKept, Traced, Rid
<1> QED BY <1>2, <1>3, <1>4, <1>5, <1>6, <1>7 DEF SubmissionInv

\* A client whose own call fails, with a trace, whatever the server did of it.
LEMMA CutOffKeeps ==
    ASSUME NEW t, SubmissionInv(t), stream_up' = stream_up,
           pc'[t] = pc[t], futures'[t] = futures[t], bg'[t] = bg[t],
           response'[t] = response[t], client'[t] = "failed",
           received'[t] = received[t], Rid(t) \in disturbed',
           EntryKept(t), Traced(t)
    PROVE  SubmissionInv(t)'
<1>1. /\ OkChildren(t)' = OkChildren(t) /\ Answered(t)' = Answered(t)
      /\ MergedRecords(t)' = MergedRecords(t) /\ MergedCount(t)' = MergedCount(t)
      /\ Size(t)' = Size(t) /\ FirstRows(t)' = FirstRows(t)
      /\ (Responded(t)' <=> Responded(t)) /\ (MoreToFetch(t)' <=> MoreToFetch(t))
      /\ Rest(t)' = Rest(t) /\ Chunks(t)' = Chunks(t)
  BY SameAnswer
<1>2. HandlerInv(t)'
  BY <1>1 DEF SubmissionInv, HandlerInv
<1>3. CauseInv(t)'
  BY DEF SubmissionInv, CauseInv, Traced
<1>4. ResponseInv(t)'
  BY <1>1 DEF SubmissionInv, ResponseInv
<1>5. EntryInv(t)'
  BY <1>1 DEF SubmissionInv, EntryInv, EntryKept, SameContent, Rid
<1>6. ClientInv(t)'
  BY <1>1 DEF SubmissionInv, ClientInv
<1>7. FetchInv(t)'
  BY DEF FetchInv, Rid
<1> QED BY <1>2, <1>3, <1>4, <1>5, <1>6, <1>7 DEF SubmissionInv

\* What a handler, a collector, a client or a child of s may touch of the others.
StepOf(s) ==
    \/ Submit(s) \/ HandlerStep(s) \/ CollectorStep(s) \/ ClientStep(s)
    \/ FetchReplyLost(s) \/ SubmitFails(s) \/ FetchFails(s) \/ Abandon(s)
    \/ \E c \in Children : ChildReply(s, c)

LEMMA StepFrame ==
    ASSUME TypeOK, NEW s \in Submissions, StepOf(s)
    PROVE  /\ stream_up' = stream_up /\ cancel_flag' = cancel_flag
           /\ disturbed \subseteq disturbed'
           /\ canceled_ids' \subseteq canceled_ids \cup {Rid(s)}
           /\ \A t \in Submissions \ {s} :
                /\ pc'[t] = pc[t] /\ futures'[t] = futures[t] /\ bg'[t] = bg[t]
                /\ response'[t] = response[t] /\ client'[t] = client[t]
                /\ idx'[t] = idx[t] /\ received'[t] = received[t]
                /\ reported'[t] = reported[t]
           /\ \A r : r # Rid(s) =>
                /\ r \in DOMAIN chunk_cache' <=> r \in DOMAIN chunk_cache
                /\ r \in DOMAIN chunk_cache => chunk_cache'[r] = chunk_cache[r]
<1> DEFINE Others ==
           \A t \in Submissions \ {s} :
                /\ pc'[t] = pc[t] /\ futures'[t] = futures[t] /\ bg'[t] = bg[t]
                /\ response'[t] = response[t] /\ client'[t] = client[t]
                /\ idx'[t] = idx[t] /\ received'[t] = received[t]
                /\ reported'[t] = reported[t]
           Tables ==
                /\ stream_up' = stream_up /\ cancel_flag' = cancel_flag
                /\ disturbed \subseteq disturbed'
                /\ canceled_ids' \subseteq canceled_ids \cup {Rid(s)}
           Entries ==
                \A r : r # Rid(s) =>
                    /\ r \in DOMAIN chunk_cache' <=> r \in DOMAIN chunk_cache
                    /\ r \in DOMAIN chunk_cache => chunk_cache'[r] = chunk_cache[r]
<1>1. CASE Submit(s) \/ AcquireSlot(s) \/ Register(s) \/ RejectQuery(s) \/ Scatter(s)
  BY <1>1 DEF TypeOK, Submit, AcquireSlot, Register, RejectQuery, Scatter, serverVars,
     clientVars
<1>2. CASE StreamRespond(s) \/ GatherRespond(s) \/ Unregister(s) \/ Return(s) \/ BgGather(s)
  BY <1>2 DEF TypeOK, StreamRespond, GatherRespond, Unregister, Return, BgGather,
     serverVars, clientVars
<1>3. CASE GatherCancelled(s)
  BY <1>3 DEF TypeOK, GatherCancelled, Erase, clientVars
<1>4. CASE StreamInsert(s) \/ GatherInsert(s)
  <2>1. Others /\ Tables
    BY <1>4 DEF TypeOK, StreamInsert, GatherInsert, Detach, clientVars
  <2>2. \E e : InsertEntry(s, e)
    BY <1>4, Zenon DEF StreamInsert, GatherInsert
  <2>3. chunk_cache' = chunk_cache \/ \E e : chunk_cache' = Put(chunk_cache, Rid(s), e)
    BY <2>2, Zenon DEF InsertEntry
  <2>4. Entries
    BY <2>3 DEF Put
  <2> QED BY <2>1, <2>4
<1>5. CASE BgMerge(s)
  <2>1. Others /\ Tables
    BY <1>5 DEF TypeOK, BgMerge, clientVars
  <2>2. chunk_cache' = chunk_cache \/ \E e : chunk_cache' = Put(chunk_cache, Rid(s), e)
    BY <1>5, Zenon DEF BgMerge
  <2>3. Entries
    BY <2>2 DEF Put
  <2> QED BY <2>1, <2>3
<1>6. CASE \/ ReceiveFirst(s) \/ FetchRefused(s) \/ Abandon(s)
          \/ SubmitFails(s) \/ FetchFails(s) \/ \E c \in Children : ChildReply(s, c)
  BY <1>6 DEF TypeOK, ReceiveFirst, FetchRefused, SubmitFails, FetchFails, Abandon,
     ChildReply, serverVars, handlerVars, clientVars
<1>7. CASE FetchServed(s) \/ FetchReplyLost(s)
  <2>1. ServeChunk(Rid(s), idx[s])
    BY <1>7, Zenon DEF FetchServed, FetchReplyLost
  <2>2. Tables /\ pc' = pc /\ futures' = futures /\ bg' = bg /\ response' = response
    BY <1>7, <2>1 DEF ServeChunk, FetchServed, FetchReplyLost, handlerVars
  <2>3. Others
    <3>1. \A t \in Submissions \ {s} :
            /\ client'[t] = client[t] /\ idx'[t] = idx[t]
            /\ received'[t] = received[t] /\ reported'[t] = reported[t]
      BY <1>7 DEF TypeOK, FetchServed, FetchReplyLost, clientVars
    <3> QED BY <2>2, <3>1
  <2>4. Entries
    <3>1. \/ chunk_cache' = Erase(chunk_cache, {Rid(s)})
          \/ chunk_cache' = [chunk_cache EXCEPT ![Rid(s)].age = 0]
      BY <2>1 DEF ServeChunk
    <3> QED BY <3>1 DEF Erase
  <2> QED BY <2>2, <2>3, <2>4
<1> QED BY <1>1, <1>2, <1>3, <1>4, <1>5, <1>6, <1>7
        DEF StepOf, HandlerStep, CollectorStep, ClientStep

\* A step of one submission leaves what holds of the others.
LEMMA OthersKept ==
    ASSUME TypeOK, DeliveryInv, DistinctRids, NEW s \in Submissions, StepOf(s),
           NEW t \in Submissions, t # s
    PROVE  SubmissionInv(t)'
<1>1. Rid(t) # Rid(s)
  BY DEF DistinctRids
<1>2. EntryKept(t) /\ Traced(t)
  BY <1>1, StepFrame DEF EntryKept, SameContent, Traced
<1>3. /\ stream_up' = stream_up
      /\ pc'[t] = pc[t] /\ futures'[t] = futures[t] /\ bg'[t] = bg[t]
      /\ response'[t] = response[t] /\ client'[t] = client[t] /\ idx'[t] = idx[t]
      /\ received'[t] = received[t] /\ reported'[t] = reported[t]
  BY StepFrame
<1> QED BY <1>2, <1>3, Elsewhere DEF DeliveryInv

\* Cancellation, the clock and eviction leave what holds of everybody.
LEMMA ServiceKeeps ==
    ASSUME TypeOK, CacheInv, DeliveryInv, NEW t \in Submissions,
           (\E r \in Rids : CancelQuery(r)) \/ Tick \/ EvictStale \/ UNCHANGED vars
    PROVE  SubmissionInv(t)'
<1>0. /\ stream_up' = stream_up /\ pc' = pc /\ futures' = futures /\ bg' = bg
      /\ response' = response /\ client' = client /\ idx' = idx
      /\ received' = received /\ reported' = reported
  BY DEF CancelQuery, Tick, EvictStale, vars, serverVars, handlerVars, clientVars
<1>1. ASSUME NEW r \in Rids, CancelQuery(r) PROVE EntryKept(t) /\ Traced(t)
  <2>1. /\ disturbed' = disturbed \cup {r} /\ canceled_ids' = canceled_ids \cup {r}
        /\ chunk_cache' = Erase(chunk_cache, {r})
        /\ cancel_flag'[t] = (cancel_flag[t] \/ (r \in DOMAIN active_cancel /\ active_cancel[r] = t))
    BY <1>1 DEF CancelQuery
  <2>2. r \in DOMAIN active_cancel /\ active_cancel[r] = t => Rid(t) = r
    BY DEF CacheInv, Control, OwnFlag
  <2>3. EntryKept(t)
    BY <2>1 DEF EntryKept, SameContent, Erase
  <2>4. Traced(t)
    BY <2>1, <2>2 DEF Traced
  <2> QED BY <2>3, <2>4
<1>2. ASSUME Tick PROVE EntryKept(t) /\ Traced(t)
  <2>1. /\ disturbed' = disturbed /\ canceled_ids' = canceled_ids /\ cancel_flag' = cancel_flag
        /\ DOMAIN chunk_cache' = DOMAIN chunk_cache
        /\ \A r \in DOMAIN chunk_cache :
              chunk_cache'[r] = [chunk_cache[r] EXCEPT
                                    !.age = Least(chunk_cache[r].age + 1, ChunkTimeout)]
    BY <1>2 DEF Tick
  <2>2. \A r \in DOMAIN chunk_cache : chunk_cache[r] \in Entry
    BY DEF TypeOK
  <2>3. \A r \in DOMAIN chunk_cache : SameContent(chunk_cache'[r], chunk_cache[r])
    BY <2>1, <2>2, AgeOnly
  <2> QED BY <2>1, <2>3 DEF EntryKept, Traced
<1>3. ASSUME EvictStale PROVE EntryKept(t) /\ Traced(t)
  <2>1. /\ disturbed' = disturbed \cup Stale /\ canceled_ids' = canceled_ids \cup Stale
        /\ cancel_flag' = cancel_flag /\ chunk_cache' = Erase(chunk_cache, Stale)
    BY <1>3 DEF EvictStale
  <2> QED BY <2>1 DEF EntryKept, SameContent, Erase, Traced
<1>4. ASSUME UNCHANGED vars PROVE EntryKept(t) /\ Traced(t)
  BY <1>4 DEF vars, serverVars, EntryKept, SameContent, Traced
<1>5. EntryKept(t) /\ Traced(t)
  BY <1>1, <1>2, <1>3, <1>4
<1> QED BY <1>0, <1>5, Elsewhere DEF DeliveryInv

-----------------------------------------------------------------------------
(* The steps of a handler.                                                 *)

\* What a step that leaves the rows and the response of its submission keeps.
LEMMA SameRows ==
    ASSUME NEW s, SubmissionInv(s), stream_up' = stream_up,
           futures'[s] = futures[s], response'[s] = response[s]
    PROVE  /\ OkChildren(s)' = OkChildren(s) /\ Answered(s)' = Answered(s)
           /\ MergedRecords(s)' = MergedRecords(s) /\ MergedCount(s)' = MergedCount(s)
           /\ Size(s)' = Size(s) /\ FirstRows(s)' = FirstRows(s)
           /\ (Responded(s)' <=> Responded(s)) /\ (MoreToFetch(s)' <=> MoreToFetch(s))
           /\ Rest(s)' = Rest(s) /\ Chunks(s)' = Chunks(s)
           /\ (NothingLeft(s)' <=> NothingLeft(s))
           /\ ResponseInv(s)'
<1>1. /\ OkChildren(s)' = OkChildren(s) /\ Answered(s)' = Answered(s)
      /\ MergedRecords(s)' = MergedRecords(s) /\ MergedCount(s)' = MergedCount(s)
      /\ Size(s)' = Size(s) /\ FirstRows(s)' = FirstRows(s)
      /\ (Responded(s)' <=> Responded(s)) /\ (MoreToFetch(s)' <=> MoreToFetch(s))
      /\ Rest(s)' = Rest(s) /\ Chunks(s)' = Chunks(s)
      /\ (NothingLeft(s)' <=> NothingLeft(s))
  BY SameAnswer
<1>2. ResponseInv(s)'
  BY <1>1 DEF SubmissionInv, ResponseInv
<1> QED BY <1>1, <1>2

\* Up to the calls to the children there is no response, no entry and no client that
\* has anything.
LEMMA EarlyHandler ==
    ASSUME TypeOK, NEW s \in Submissions, SubmissionInv(s),
           Submit(s) \/ AcquireSlot(s) \/ Register(s)
    PROVE  SubmissionInv(s)'
<1> USE DEF SubmissionInv
<1>1. /\ pc[s] \in {"idle", "waiting", "admitted"}
      /\ pc'[s] \in {"waiting", "admitted", "registered"}
      /\ stream_up' = stream_up /\ futures'[s] = futures[s] /\ bg'[s] = bg[s]
      /\ response'[s] = response[s] /\ chunk_cache' = chunk_cache
      /\ idx'[s] = idx[s] /\ received'[s] = received[s] /\ reported'[s] = reported[s]
      /\ cancel_flag' = cancel_flag /\ canceled_ids' \subseteq canceled_ids
      /\ disturbed' = disturbed
      /\ \/ client'[s] = client[s] /\ pc[s] # "idle"
         \/ client[s] = "start" /\ client'[s] = "submitting"
  BY DEF TypeOK, Submit, AcquireSlot, Register, serverVars, clientVars
<1>2. /\ Answered(s)' = Answered(s)
      /\ MergedRecords(s)' = MergedRecords(s) /\ MergedCount(s)' = MergedCount(s)
      /\ (Responded(s)' <=> Responded(s)) /\ (MoreToFetch(s)' <=> MoreToFetch(s))
      /\ FirstRows(s)' = FirstRows(s)
      /\ (NothingLeft(s)' <=> NothingLeft(s)) /\ ResponseInv(s)'
  BY <1>1, SameRows
<1>3. response[s].status = "none" /\ ~ Responded(s) /\ ~ MoreToFetch(s)
  BY <1>1 DEF HandlerInv, Early, Responded, MoreToFetch
<1>4. HandlerInv(s)'
  BY <1>1, <1>2, <1>3 DEF HandlerInv, Early
<1>5. CauseInv(s)'
  BY <1>1, <1>3 DEF CauseInv
<1>6. EntryInv(s)'
  BY <1>1, <1>3 DEF EntryInv, Rid
<1>7. ClientInv(s)'
  BY <1>1, <1>2, <1>3 DEF ClientInv
<1>8. FetchInv(s)'
  BY <1>1, <1>2, <1>3 DEF FetchInv, Rid
<1> QED BY <1>2, <1>4, <1>5, <1>6, <1>7, <1>8

LEMMA RejectKeeps ==
    ASSUME TypeOK, NEW s \in Submissions, SubmissionInv(s), RejectQuery(s)
    PROVE  SubmissionInv(s)'
<1> USE DEF SubmissionInv
<1>1. /\ pc[s] = "registered" /\ pc'[s] = "returning" /\ ~ Query[s].supported
      /\ stream_up' = stream_up /\ futures'[s] = futures[s] /\ bg'[s] = bg[s]
      /\ response'[s].status = "invalid" /\ chunk_cache' = chunk_cache
      /\ idx'[s] = idx[s] /\ received'[s] = received[s] /\ reported'[s] = reported[s]
      /\ cancel_flag' = cancel_flag /\ canceled_ids' = canceled_ids
      /\ disturbed' = disturbed /\ client'[s] = client[s]
  BY DEF TypeOK, Response, RejectQuery, clientVars
<1>2. /\ ~ Responded(s) /\ ~ MoreToFetch(s) /\ ~ Responded(s)' /\ ~ MoreToFetch(s)'
      /\ bg[s] = "none"
  BY <1>1 DEF HandlerInv, Early, Responded, MoreToFetch
<1>3. HandlerInv(s)'
  BY <1>1, <1>2 DEF HandlerInv, Early
<1>4. CauseInv(s)'
  BY <1>1 DEF CauseInv
<1>5. ResponseInv(s)' /\ EntryInv(s)'
  BY <1>1, <1>2 DEF ResponseInv, EntryInv, Rid
<1>6. ClientInv(s)'
  BY <1>1, <1>2 DEF ClientInv
<1>7. FetchInv(s)'
  BY <1>1, <1>2 DEF FetchInv
<1> QED BY <1>3, <1>4, <1>5, <1>6, <1>7

LEMMA ScatterKeeps ==
    ASSUME TypeOK, NEW s \in Submissions, SubmissionInv(s), Scatter(s)
    PROVE  SubmissionInv(s)'
<1> USE DEF SubmissionInv
<1>1. /\ pc[s] = "registered" /\ pc'[s] = "scattered"
      /\ stream_up' = stream_up /\ bg'[s] = bg[s]
      /\ response'[s] = response[s] /\ chunk_cache' = chunk_cache
      /\ idx'[s] = idx[s] /\ received'[s] = received[s] /\ reported'[s] = reported[s]
      /\ cancel_flag' = cancel_flag /\ canceled_ids' = canceled_ids
      /\ disturbed' = disturbed /\ client'[s] = client[s]
  BY DEF TypeOK, Scatter, serverVars, clientVars
<1>2. /\ response[s].status = "none"
      /\ ~ Responded(s) /\ ~ MoreToFetch(s) /\ ~ Responded(s)' /\ ~ MoreToFetch(s)'
      /\ bg[s] = "none"
  BY <1>1 DEF HandlerInv, Early, Responded, MoreToFetch
<1>3. HandlerInv(s)'
  BY <1>1, <1>2 DEF HandlerInv, Early
<1>4. CauseInv(s)'
  BY <1>1, <1>2 DEF CauseInv
<1>5. ResponseInv(s)' /\ EntryInv(s)'
  BY <1>1, <1>2 DEF ResponseInv, EntryInv, Rid
<1>6. ClientInv(s)'
  BY <1>1, <1>2 DEF ClientInv
<1>7. FetchInv(s)'
  BY <1>1, <1>2 DEF FetchInv, NothingLeft, Responded
<1> QED BY <1>3, <1>4, <1>5, <1>6, <1>7

\* Rows that begin a sequence begin it whatever is put behind it.
LEMMA PrefixOfConcat ==
    ASSUME NEW S, NEW l \in Seq(S), NEW m \in Seq(S), NEW n \in Nat, n <= Len(l)
    PROVE  SubSeq(l \o m, 1, n) = SubSeq(l, 1, n)
<1>1. /\ l \o m \in Seq(S) /\ Len(l \o m) = Len(l) + Len(m)
      /\ \A i \in 1 .. Len(l) : (l \o m)[i] = l[i]
  BY ConcatProperties
<1>2. /\ SubSeq(l \o m, 1, n) \in Seq(S) /\ Len(SubSeq(l \o m, 1, n)) = n
      /\ SubSeq(l, 1, n) \in Seq(S) /\ Len(SubSeq(l, 1, n)) = n
  BY <1>1, Windows
<1>3. \A i \in 1 .. n : SubSeq(l \o m, 1, n)[i] = SubSeq(l, 1, n)[i]
  BY <1>1
<1> QED BY <1>2, <1>3, SeqEqual

\* The first chunk of a streamed query begins all the rows, before and after a child
\* answers.
LEMMA FirstStays ==
    ASSUME TypeOK, NEW s \in Submissions, Responded(s), ResponseInv(s), stream_up
    PROVE  /\ Len(FirstRows(s)) \in Nat /\ Size(s) \in Nat \ {0}
           /\ FirstRows(s) = SubSeq(MergedRecords(s), 1, Len(FirstRows(s)))
           /\ FirstRows(s) = SubSeq(MergedRecords(s)', 1, Len(FirstRows(s)))
<1> DEFINE n == Len(FirstRows(s))
           own == Query[s].local
           others == Query[s].merged[OkChildren(s)']
<1>1. LET rows == MergedRecords(s)
      IN  /\ Size(s) \in Nat \ {0}
          /\ n \in 0 .. Len(rows)
          /\ FirstRows(s) = SubSeq(rows, 1, n)
          /\ n <= Len(own)
          /\ FirstRows(s) = SubSeq(own, 1, n)
  BY FirstPiece
<1>2. own \in Seq(Record) /\ others \in Seq(Record)
  <2>1. OkChildren(s)' \in SUBSET Children
    BY DEF OkChildren
  <2> QED BY <2>1, Parts
<1>3. MergedRecords(s)' = own \o others
  BY DEF MergedRecords
<1>4. n \in Nat
  BY <1>1
<1> HIDE DEF n, own, others
<1>5. SubSeq(own \o others, 1, n) = SubSeq(own, 1, n)
  BY <1>1, <1>2, <1>4, PrefixOfConcat
<1> QED BY <1>1, <1>3, <1>4, <1>5 DEF n

\* A child that answers changes the answer only while it is not complete.
LEMMA ReplyKeeps ==
    ASSUME TypeOK, NEW s \in Submissions, SubmissionInv(s),
           NEW c \in Children, ChildReply(s, c)
    PROVE  SubmissionInv(s)'
<1> USE DEF SubmissionInv
<1>1. /\ futures[s][c] = "pending"
      /\ stream_up' = stream_up /\ pc'[s] = pc[s] /\ bg'[s] = bg[s]
      /\ response'[s] = response[s] /\ chunk_cache' = chunk_cache
      /\ idx'[s] = idx[s] /\ received'[s] = received[s] /\ reported'[s] = reported[s]
      /\ cancel_flag' = cancel_flag /\ canceled_ids' = canceled_ids
      /\ disturbed' = disturbed /\ client'[s] = client[s]
  BY DEF TypeOK, ChildReply, serverVars, clientVars
<1>2. ~ Answered(s)
  BY <1>1 DEF Answered
<1>3. /\ (Responded(s)' <=> Responded(s)) /\ (MoreToFetch(s)' <=> MoreToFetch(s))
      /\ FirstRows(s)' = FirstRows(s) /\ Size(s)' = Size(s)
  BY <1>1 DEF Responded, MoreToFetch, FirstRows, Size
<1>4. HandlerInv(s)'
  <2>1. pc[s] \notin {"idle", "waiting", "admitted", "registered"}
    BY <1>1 DEF HandlerInv
  <2> QED BY <1>1, <1>2, <1>3, <2>1 DEF HandlerInv
<1>5. CauseInv(s)'
  BY <1>1 DEF CauseInv
<1>6. ResponseInv(s)'
  BY <1>1, <1>2, <1>3 DEF ResponseInv
<1>7. EntryInv(s)'
  BY <1>1, <1>2, <1>3 DEF EntryInv, Rid
<1>8. ClientInv(s)'
  <2>1. ASSUME client[s] = "fetching"
        PROVE  received'[s] = SubSeq(MergedRecords(s)', 1,
                                  Len(FirstRows(s)') + (idx'[s] - 1) * Size(s)')
               /\ idx[s] = 1
    <3>1. /\ idx[s] = 1 /\ Responded(s)
          /\ received[s] = SubSeq(MergedRecords(s), 1, Len(FirstRows(s)) + (idx[s] - 1) * Size(s))
      BY <1>2, <2>1 DEF ClientInv
    <3>2. stream_up
      BY <1>2, <3>1 DEF ResponseInv
    <3>3. /\ Len(FirstRows(s)) \in Nat /\ Size(s) \in Nat \ {0}
          /\ FirstRows(s) = SubSeq(MergedRecords(s), 1, Len(FirstRows(s)))
          /\ FirstRows(s) = SubSeq(MergedRecords(s)', 1, Len(FirstRows(s)))
      BY <3>1, <3>2, FirstStays
    <3>4. Len(FirstRows(s)) + (idx[s] - 1) * Size(s) = Len(FirstRows(s))
      BY <3>1, <3>3
    <3> QED BY <1>1, <1>3, <3>1, <3>3, <3>4
  <2> QED BY <1>1, <1>2, <1>3, <2>1 DEF ClientInv
<1>9. FetchInv(s)'
  BY <1>1, <1>2, <1>3 DEF FetchInv, NothingLeft, Rid
<1> QED BY <1>4, <1>5, <1>6, <1>7, <1>8, <1>9

\* A handler that answers, from A's own rows or from all of them.
LEMMA RespondKeeps ==
    ASSUME TypeOK, NEW s \in Submissions, SubmissionInv(s),
           StreamRespond(s) \/ GatherRespond(s)
    PROVE  SubmissionInv(s)'
<1> USE DEF SubmissionInv
<1>1. /\ pc[s] = "scattered"
      /\ stream_up' = stream_up /\ futures'[s] = futures[s] /\ bg'[s] = bg[s]
      /\ chunk_cache' = chunk_cache /\ idx'[s] = idx[s]
      /\ received'[s] = received[s] /\ reported'[s] = reported[s]
      /\ cancel_flag' = cancel_flag /\ canceled_ids' = canceled_ids
      /\ disturbed' = disturbed /\ client'[s] = client[s]
  BY DEF TypeOK, StreamRespond, GatherRespond, serverVars, clientVars
<1>2. /\ response[s].status = "none" /\ bg[s] = "none" /\ bg'[s] = "none"
      /\ ~ Responded(s) /\ ~ MoreToFetch(s) /\ ~ NothingLeft(s)
      /\ client[s] \notin {"start", "fetching", "done"} /\ received[s] = <<>>
      /\ Rid(s) \notin DOMAIN chunk_cache
  BY <1>1 DEF HandlerInv, ClientInv, EntryInv, Early, Responded, MoreToFetch, NothingLeft
<1>3. Answered(s)' = Answered(s)
  BY <1>1, SameAnswer
<1>4. EntryInv(s)'
  BY <1>1, <1>2 DEF EntryInv, Rid
<1>5. ClientInv(s)'
  BY <1>1, <1>2 DEF ClientInv
<1>6. CASE pc'[s] = "cancelled"
  <2>1. cancel_flag[s] /\ response'[s] = response[s]
    BY <1>6 DEF TypeOK, StreamRespond, GatherRespond
  <2>2. ~ Responded(s)' /\ ~ MoreToFetch(s)'
    BY <1>2, <2>1 DEF Responded, MoreToFetch
  <2>3. HandlerInv(s)'
    BY <1>1, <1>2, <1>6, <2>1 DEF HandlerInv, Early
  <2>4. CauseInv(s)'
    BY <1>1, <1>2, <2>1 DEF CauseInv
  <2>5. ResponseInv(s)' /\ FetchInv(s)'
    BY <1>1, <1>2, <1>6, <2>2 DEF ResponseInv, FetchInv
  <2> QED BY <1>4, <1>5, <2>3, <2>4, <2>5
<1>7. CASE pc'[s] # "cancelled"
  <2> DEFINE last == response'[s].is_last
  <2>1. /\ \/ /\ stream_up
              /\ response'[s] = FirstResponse(Query[s].local, Query[s].local_count,
                    dynamic_chunk_size,
                    Children = {} /\ Len(Query[s].local) <= dynamic_chunk_size)
           \/ /\ ~ stream_up /\ Answered(s)
              /\ response'[s] = FirstResponse(MergedRecords(s), MergedCount(s),
                    dynamic_chunk_size, Len(MergedRecords(s)) <= dynamic_chunk_size)
        /\ pc'[s] = IF last THEN "unregister" ELSE "insert"
    <3>1. ASSUME NEW rows, NEW count, NEW end,
                 response' = [response EXCEPT ![s] =
                                FirstResponse(rows, count, dynamic_chunk_size, end)],
                 pc' = [pc EXCEPT ![s] = IF end THEN "unregister" ELSE "insert"]
          PROVE  /\ response'[s] = FirstResponse(rows, count, dynamic_chunk_size, end)
                 /\ pc'[s] = IF last THEN "unregister" ELSE "insert"
      <4>1. response'[s] = FirstResponse(rows, count, dynamic_chunk_size, end)
        BY <3>1, Zenon DEF TypeOK
      <4>2. last = end
        BY <4>1 DEF FirstResponse
      <4>3. pc'[s] = IF end THEN "unregister" ELSE "insert"
        BY <3>1, Zenon DEF TypeOK
      <4> QED BY <4>1, <4>2, <4>3, Zenon
    <3> HIDE DEF last
    <3>2. CASE StreamRespond(s)
      <4> DEFINE end == Children = {} /\ Len(Query[s].local) <= dynamic_chunk_size
      <4>1. /\ stream_up
            /\ response' = [response EXCEPT ![s] = FirstResponse(Query[s].local,
                                Query[s].local_count, dynamic_chunk_size, end)]
            /\ pc' = [pc EXCEPT ![s] = IF end THEN "unregister" ELSE "insert"]
        BY <3>2 DEF StreamRespond
      <4> QED BY <3>1, <4>1, Zenon
    <3>3. CASE GatherRespond(s)
      <4>1. ~ cancel_flag[s]
        BY <1>7, <3>3 DEF TypeOK, GatherRespond
      <4> DEFINE end == Len(MergedRecords(s)) <= dynamic_chunk_size
      <4>2. /\ ~ stream_up /\ Answered(s)
            /\ response' = [response EXCEPT ![s] = FirstResponse(MergedRecords(s),
                                MergedCount(s), dynamic_chunk_size, end)]
            /\ pc' = [pc EXCEPT ![s] = IF end THEN "unregister" ELSE "insert"]
        BY <3>3, <4>1 DEF GatherRespond
      <4> QED BY <3>1, <4>2, Zenon
    <3> QED BY <3>2, <3>3
  <2>2. /\ response'[s].status = "ok" /\ Size(s)' = dynamic_chunk_size
        /\ Responded(s)' /\ (MoreToFetch(s)' <=> pc'[s] = "insert")
    BY <2>1 DEF FirstResponse, Responded, MoreToFetch, Size
  <2>3. ResponseInv(s)'
    <3>1. MergedRecords(s)' = MergedRecords(s) /\ MergedCount(s)' = MergedCount(s)
      BY <1>1, SameAnswer
    <3> QED BY <1>1, <1>3, <2>1, <2>2, <3>1 DEF ResponseInv
  <2>4. HandlerInv(s)'
    BY <1>2, <2>1, <2>2 DEF HandlerInv, Early
  <2>5. CauseInv(s)'
    BY <1>1, <2>1, <2>2 DEF CauseInv
  <2>6. FetchInv(s)'
    BY <1>1, <1>2, <2>1, <2>2 DEF FetchInv
  <2> QED BY <1>4, <1>5, <2>3, <2>4, <2>5, <2>6
<1> QED BY <1>6, <1>7

LEMMA CancelledKeeps ==
    ASSUME TypeOK, NEW s \in Submissions, SubmissionInv(s), GatherCancelled(s)
    PROVE  SubmissionInv(s)'
<1> USE DEF SubmissionInv
<1>1. /\ pc[s] = "cancelled" /\ pc'[s] = "returning" /\ response'[s].status = "cancelled"
      /\ stream_up' = stream_up /\ futures'[s] = futures[s] /\ bg'[s] = bg[s]
      /\ idx'[s] = idx[s] /\ received'[s] = received[s] /\ reported'[s] = reported[s]
      /\ cancel_flag' = cancel_flag /\ disturbed' = disturbed /\ client'[s] = client[s]
  BY DEF TypeOK, Response, GatherCancelled, clientVars
<1>2. /\ ~ Responded(s) /\ ~ MoreToFetch(s) /\ ~ Responded(s)' /\ ~ MoreToFetch(s)'
      /\ bg[s] = "none" /\ cancel_flag[s] /\ Rid(s) \in disturbed
  BY <1>1 DEF HandlerInv, CauseInv, Early, Responded, MoreToFetch
<1>3. HandlerInv(s)'
  BY <1>1, <1>2 DEF HandlerInv, Early
<1>4. CauseInv(s)'
  BY <1>1, <1>2 DEF CauseInv
<1>5. ResponseInv(s)' /\ EntryInv(s)'
  <2>1. Rid(s) \notin DOMAIN chunk_cache'
    BY DEF GatherCancelled, Erase
  <2> QED BY <1>2, <2>1 DEF ResponseInv, EntryInv
<1>6. ClientInv(s)'
  BY <1>1, <1>2 DEF ClientInv
<1>7. FetchInv(s)'
  BY <1>1, <1>2 DEF FetchInv
<1> QED BY <1>3, <1>4, <1>5, <1>6, <1>7

\* The slot and the flag are given back.
LEMMA LeaveKeeps ==
    ASSUME TypeOK, NEW s \in Submissions, SubmissionInv(s), Unregister(s) \/ Return(s)
    PROVE  SubmissionInv(s)'
<1> USE DEF SubmissionInv
<1>1. /\ \/ pc[s] = "unregister" /\ pc'[s] = "returning"
         \/ pc[s] = "returning" /\ pc'[s] = "returned"
      /\ stream_up' = stream_up /\ futures'[s] = futures[s] /\ bg'[s] = bg[s]
      /\ response'[s] = response[s] /\ chunk_cache' = chunk_cache
      /\ idx'[s] = idx[s] /\ received'[s] = received[s] /\ reported'[s] = reported[s]
      /\ cancel_flag' = cancel_flag /\ canceled_ids' \subseteq canceled_ids
      /\ disturbed' = disturbed /\ client'[s] = client[s]
  BY DEF TypeOK, Unregister, Return, clientVars
<1>2. /\ Answered(s)' = Answered(s)
      /\ MergedRecords(s)' = MergedRecords(s) /\ MergedCount(s)' = MergedCount(s)
      /\ (Responded(s)' <=> Responded(s)) /\ (MoreToFetch(s)' <=> MoreToFetch(s))
      /\ FirstRows(s)' = FirstRows(s) /\ Size(s)' = Size(s) /\ Chunks(s)' = Chunks(s)
      /\ (NothingLeft(s)' <=> NothingLeft(s)) /\ ResponseInv(s)'
  BY <1>1, SameRows
<1>3. HandlerInv(s)'
  BY <1>1, <1>2 DEF HandlerInv, Early
<1>4. CauseInv(s)'
  BY <1>1 DEF CauseInv
<1>5. EntryInv(s)'
  BY <1>1, <1>2 DEF EntryInv, Rid
<1>6. ClientInv(s)'
  BY <1>1, <1>2 DEF ClientInv
<1>7. FetchInv(s)'
  BY <1>1, <1>2 DEF FetchInv, Rid
<1> QED BY <1>2, <1>3, <1>4, <1>5, <1>6, <1>7

\* Without children A's own answer is all there is.
LEMMA Childless ==
    ASSUME NEW s \in Submissions, Children = {}
    PROVE  /\ Answered(s) /\ MergedRecords(s) = Query[s].local
           /\ MergedCount(s) = Query[s].local_count
           /\ Query[s].merged[OkChildren(s)] = <<>>
<1>1. OkChildren(s) = {} /\ Answered(s)
  BY DEF OkChildren, Answered
<1>2. Query[s].merged[OkChildren(s)] = <<>> /\ Query[s].merged_count[OkChildren(s)] = 0
  BY <1>1, AnswerAssumption
<1>3. Query[s].local \in Seq(Record) /\ Query[s].local_count \in Nat
  BY Parts
<1>4. MergedRecords(s) = Query[s].local
  BY <1>2, <1>3, ConcatEmptySeq DEF MergedRecords
<1>5. MergedCount(s) = Query[s].local_count
  BY <1>2, <1>3, <1>4, AnswerAssumption DEF MergedCount
<1> QED BY <1>1, <1>2, <1>4, <1>5

\* The entry a handler makes is what the invariant says of an entry.
LEMMA NewEntry ==
    ASSUME TypeOK, NEW s \in Submissions, Responded(s), ResponseInv(s)
    PROVE  /\ stream_up =>
                /\ StreamEntry(s).records_per_chunk = Size(s)
                /\ StreamEntry(s).finalized = (Children = {})
                /\ StreamEntry(s).stream = AfterFirst(Query[s].local, Size(s))
                /\ StreamEntry(s).count = Query[s].local_count
                /\ IF Children = {}
                   THEN /\ StreamEntry(s).chunks = Chunks(s)
                        /\ StreamEntry(s).total_chunks = 1 + Len(Chunks(s))
                        /\ StreamEntry(s).count = MergedCount(s)
                   ELSE StreamEntry(s).chunks = <<>>
           /\ ~ stream_up =>
                /\ GatherEntry(s).records_per_chunk = Size(s)
                /\ GatherEntry(s).finalized = TRUE
                /\ GatherEntry(s).chunks = Chunks(s)
                /\ GatherEntry(s).total_chunks = 1 + Len(Chunks(s))
                /\ GatherEntry(s).count = MergedCount(s)
<1>1. ASSUME stream_up
      PROVE  Rest(s) = AfterFirst(Query[s].local, Size(s)) \o Query[s].merged[OkChildren(s)]
  BY <1>1, FirstPiece
<1>2. ASSUME ~ stream_up PROVE Rest(s) = AfterFirst(MergedRecords(s), Size(s))
  BY <1>2, FirstPiece
<1>3. Size(s) \in Nat \ {0} /\ Query[s].local \in Seq(Record)
  BY Parts DEF TypeOK, Response, Size
<1>4. CASE stream_up
  <2>1. ASSUME Children = {}
        PROVE  /\ ChunkViews(AfterFirst(Query[s].local, Size(s)), Size(s)) = Chunks(s)
               /\ Query[s].local_count = MergedCount(s)
    <3>1. AfterFirst(Query[s].local, Size(s)) \in Seq(Record)
      BY <1>3, ChunkTypes
    <3>2. Rest(s) = AfterFirst(Query[s].local, Size(s)) \o <<>>
      BY <1>1, <1>4, <2>1, Childless
    <3>3. Rest(s) = AfterFirst(Query[s].local, Size(s))
      BY <3>1, <3>2, ConcatEmptySeq
    <3> QED BY <2>1, <3>3, Childless DEF Chunks
  <2> QED BY <1>4, <2>1 DEF StreamEntry, Size
<1>5. CASE ~ stream_up
  BY <1>2, <1>5 DEF GatherEntry, Size, Chunks
<1> QED BY <1>4, <1>5

\* A handler that puts its entry into the cache, or finds its flag set.
LEMMA InsertKeeps ==
    ASSUME TypeOK, NEW s \in Submissions, SubmissionInv(s),
           StreamInsert(s) \/ GatherInsert(s)
    PROVE  SubmissionInv(s)'
<1> USE DEF SubmissionInv
<1> DEFINE parted == stream_up /\ Children # {}
<1>1. /\ pc[s] = "insert"
      /\ stream_up' = stream_up /\ futures'[s] = futures[s] /\ response'[s] = response[s]
      /\ idx'[s] = idx[s] /\ received'[s] = received[s] /\ reported'[s] = reported[s]
      /\ cancel_flag' = cancel_flag /\ canceled_ids' = canceled_ids
      /\ disturbed' = disturbed /\ client'[s] = client[s]
      /\ pc'[s] = IF parted THEN "returning" ELSE "unregister"
      /\ bg'[s] = IF parted THEN "collecting" ELSE bg[s]
  BY DEF TypeOK, StreamInsert, GatherInsert, Detach, clientVars
<1>2. /\ OkChildren(s)' = OkChildren(s) /\ Answered(s)' = Answered(s)
      /\ MergedRecords(s)' = MergedRecords(s) /\ MergedCount(s)' = MergedCount(s)
      /\ (Responded(s)' <=> Responded(s)) /\ (MoreToFetch(s)' <=> MoreToFetch(s))
      /\ FirstRows(s)' = FirstRows(s) /\ Size(s)' = Size(s) /\ Chunks(s)' = Chunks(s)
      /\ (NothingLeft(s)' <=> NothingLeft(s)) /\ ResponseInv(s)'
  BY <1>1, SameRows
<1>3. /\ Responded(s) /\ MoreToFetch(s) /\ bg[s] = "none"
      /\ Rid(s) \notin DOMAIN chunk_cache
      /\ client[s] \notin {"start", "fetching", "done"}
  BY <1>1 DEF HandlerInv, EntryInv, ClientInv, MoreToFetch
<1>4. HandlerInv(s)'
  BY <1>1, <1>2, <1>3 DEF HandlerInv, Early
<1>5. CauseInv(s)'
  BY <1>1 DEF CauseInv
<1>6. ClientInv(s)'
  BY <1>1, <1>2, <1>3 DEF ClientInv
<1>7. CASE cancel_flag[s]
  <2>1. chunk_cache' = chunk_cache
    BY <1>7 DEF StreamInsert, GatherInsert, InsertEntry
  <2>2. Rid(s) \in disturbed
    BY <1>7 DEF CauseInv
  <2>3. EntryInv(s)'
    BY <1>3, <2>1 DEF EntryInv, Rid
  <2>4. FetchInv(s)'
    BY <1>1, <1>2, <1>3, <2>2 DEF FetchInv, Rid
  <2> QED BY <1>2, <1>4, <1>5, <1>6, <2>3, <2>4
<1>8. CASE ~ cancel_flag[s]
  <2> DEFINE entry == IF stream_up THEN StreamEntry(s) ELSE GatherEntry(s)
  <2>1. chunk_cache' = Put(chunk_cache, Rid(s), entry)
    BY <1>8 DEF StreamInsert, GatherInsert, InsertEntry
  <2>2. Rid(s) \in DOMAIN chunk_cache' /\ chunk_cache'[Rid(s)] = entry
    <3> HIDE DEF entry
    <3> QED BY <2>1 DEF Put
  <2>3. /\ entry.records_per_chunk = Size(s)
        /\ entry.finalized = ~ parted
        /\ ~ parted => /\ Answered(s)
                       /\ entry.chunks = Chunks(s)
                       /\ entry.total_chunks = 1 + Len(Chunks(s))
                       /\ entry.count = MergedCount(s)
        /\ parted => /\ entry.chunks = <<>>
                     /\ entry.stream = AfterFirst(Query[s].local, Size(s))
                     /\ entry.count = Query[s].local_count
    <3>1. ~ stream_up \/ Children = {} => Answered(s)
      BY <1>3, Childless DEF ResponseInv
    <3> QED BY <1>3, <3>1, NewEntry
  <2>4. entry.finalized <=> ~ parted
    <3> HIDE DEF entry, parted
    <3> QED BY <2>3, Zenon
  <2> HIDE DEF entry, parted
  <2>5. EntryInv(s)'
    BY <1>1, <1>2, <1>3, <2>2, <2>3, <2>4 DEF EntryInv, Rid
  <2>6. FetchInv(s)'
    BY <1>1, <1>2, <1>3, <2>2 DEF FetchInv, Rid
  <2> QED BY <1>2, <1>4, <1>5, <1>6, <2>5, <2>6
<1> QED BY <1>7, <1>8

-----------------------------------------------------------------------------
(* The steps of a collector.                                               *)

LEMMA CollectKeeps ==
    ASSUME TypeOK, CacheInv, NEW s \in Submissions, SubmissionInv(s), BgGather(s)
    PROVE  SubmissionInv(s)'
<1> USE DEF SubmissionInv
<1>1. /\ bg[s] = "collecting" /\ Answered(s)
      /\ bg'[s] = IF cancel_flag[s] THEN "done" ELSE "merging"
      /\ stream_up' = stream_up /\ futures'[s] = futures[s] /\ response'[s] = response[s]
      /\ chunk_cache' = chunk_cache /\ pc'[s] = pc[s]
      /\ idx'[s] = idx[s] /\ received'[s] = received[s] /\ reported'[s] = reported[s]
      /\ cancel_flag' = cancel_flag /\ canceled_ids' = canceled_ids
      /\ disturbed' = disturbed /\ client'[s] = client[s]
  BY DEF TypeOK, BgGather, serverVars, clientVars
<1>2. /\ Answered(s)' = Answered(s)
      /\ MergedRecords(s)' = MergedRecords(s) /\ MergedCount(s)' = MergedCount(s)
      /\ (Responded(s)' <=> Responded(s)) /\ (MoreToFetch(s)' <=> MoreToFetch(s))
      /\ FirstRows(s)' = FirstRows(s) /\ Size(s)' = Size(s) /\ Chunks(s)' = Chunks(s)
      /\ (NothingLeft(s)' <=> NothingLeft(s)) /\ ResponseInv(s)'
  BY <1>1, SameRows
<1>3. HandlerInv(s)'
  BY <1>1, <1>2 DEF HandlerInv
<1>4. CauseInv(s)'
  BY <1>1 DEF CauseInv
<1>5. EntryInv(s)'
  <2>1. Rid(s) \in DOMAIN chunk_cache => ~ cancel_flag[s]
    BY DEF CacheInv, Cancelling, CancelledNeverCached
  <2>2. bg'[s] \in {"collecting", "merging"} <=> ~ cancel_flag[s]
    BY <1>1
  <2> QED BY <1>1, <1>2, <2>1, <2>2 DEF EntryInv, Rid
<1>6. ClientInv(s)'
  BY <1>1, <1>2 DEF ClientInv
<1>7. FetchInv(s)'
  BY <1>1, <1>2 DEF FetchInv, Rid
<1> QED BY <1>2, <1>3, <1>4, <1>5, <1>6, <1>7

\* The children's rows behind A's own, cut into chunks, are what is left to fetch.
LEMMA FinalisedEntry ==
    ASSUME TypeOK, NEW s \in Submissions, Responded(s), ResponseInv(s), stream_up,
           NEW e \in Entry, e.records_per_chunk = Size(s),
           e.stream = AfterFirst(Query[s].local, Size(s)),
           e.count = Query[s].local_count
    PROVE  /\ Finalised(s, e).finalized = TRUE
           /\ Finalised(s, e).records_per_chunk = Size(s)
           /\ Finalised(s, e).chunks = Chunks(s)
           /\ Finalised(s, e).total_chunks = 1 + Len(Chunks(s))
           /\ Finalised(s, e).count = MergedCount(s)
<1> DEFINE stream == e.stream \o Query[s].merged[OkChildren(s)]
           rows == MergedRecords(s)
           first == Len(FirstRows(s))
<1>1. /\ rows \in Seq(Record) /\ first \in 0 .. Len(rows) /\ stream = Rest(s)
  BY FirstPiece
<1>2. Len(rows) \in Nat /\ Len(stream) = Len(rows) - first
  <2>1. stream = SubSeq(rows, first + 1, Len(rows))
    BY <1>1 DEF Rest
  <2> HIDE DEF stream, rows, first
  <2> QED BY <1>1, <2>1, Windows
<1>3. first + Len(stream) = Len(rows)
  <2> HIDE DEF stream, rows, first
  <2> QED BY <1>1, <1>2
<1>4. /\ Finalised(s, e).finalized = TRUE
      /\ Finalised(s, e).records_per_chunk = Size(s)
      /\ Finalised(s, e).chunks = ChunkViews(stream, Size(s))
      /\ Finalised(s, e).total_chunks = 1 + Len(ChunkViews(stream, Size(s)))
      /\ Finalised(s, e).count = IF Query[s].aggregate
            THEN e.count + Query[s].merged_count[OkChildren(s)]
            ELSE first + Len(stream)
  BY DEF Entry, Finalised, FirstRows
<1> HIDE DEF stream
<1>5. Finalised(s, e).count = MergedCount(s)
  BY <1>3, <1>4 DEF MergedCount
<1> QED BY <1>1, <1>4, <1>5 DEF Chunks

LEMMA MergeKeeps ==
    ASSUME TypeOK, CacheInv, NEW s \in Submissions, SubmissionInv(s), BgMerge(s)
    PROVE  SubmissionInv(s)'
<1> USE DEF SubmissionInv
<1>1. /\ bg[s] = "merging" /\ bg'[s] = "done"
      /\ stream_up' = stream_up /\ futures'[s] = futures[s] /\ response'[s] = response[s]
      /\ pc'[s] = pc[s]
      /\ idx'[s] = idx[s] /\ received'[s] = received[s] /\ reported'[s] = reported[s]
      /\ cancel_flag' = cancel_flag /\ canceled_ids' = canceled_ids
      /\ disturbed' = disturbed /\ client'[s] = client[s]
  BY DEF TypeOK, BgMerge, clientVars
<1>2. /\ Answered(s)' = Answered(s)
      /\ MergedRecords(s)' = MergedRecords(s) /\ MergedCount(s)' = MergedCount(s)
      /\ (Responded(s)' <=> Responded(s)) /\ (MoreToFetch(s)' <=> MoreToFetch(s))
      /\ FirstRows(s)' = FirstRows(s) /\ Size(s)' = Size(s) /\ Chunks(s)' = Chunks(s)
      /\ (NothingLeft(s)' <=> NothingLeft(s)) /\ ResponseInv(s)'
  BY <1>1, SameRows
<1>3. stream_up /\ Answered(s)
  BY <1>1 DEF HandlerInv
<1>4. HandlerInv(s)'
  BY <1>1, <1>2, <1>3 DEF HandlerInv
<1>5. CauseInv(s)'
  BY <1>1 DEF CauseInv
<1>6. ClientInv(s)'
  BY <1>1, <1>2 DEF ClientInv
<1>7. CASE Rid(s) \notin DOMAIN chunk_cache
  <2>1. chunk_cache' = chunk_cache
    BY <1>7 DEF BgMerge
  <2>2. EntryInv(s)'
    BY <1>7, <2>1 DEF EntryInv, Rid
  <2>3. FetchInv(s)'
    BY <1>1, <1>2, <2>1 DEF FetchInv, Rid
  <2> QED BY <1>2, <1>4, <1>5, <1>6, <2>2, <2>3
<1>8. CASE Rid(s) \in DOMAIN chunk_cache
  <2> DEFINE e == chunk_cache[Rid(s)]
             f == Finalised(s, e)
  <2>1. Rid(s) \notin canceled_ids
    BY <1>8 DEF CacheInv, Cancelling, CancelledNeverCached
  <2>2. chunk_cache' = Put(chunk_cache, Rid(s), f)
    BY <1>8, <2>1 DEF BgMerge
  <2>3. Rid(s) \in DOMAIN chunk_cache' /\ chunk_cache'[Rid(s)] = f
    <3> HIDE DEF f
    <3> QED BY <2>2 DEF Put
  <2>4. /\ MoreToFetch(s) /\ Responded(s)
        /\ pc[s] \in {"unregister", "returning", "returned"}
        /\ e.records_per_chunk = Size(s)
        /\ e.stream = AfterFirst(Query[s].local, Size(s))
        /\ e.count = Query[s].local_count
    BY <1>1, <1>8 DEF EntryInv, MoreToFetch
  <2>5. e \in Entry
    BY <1>8 DEF TypeOK
  <2>6. /\ f.finalized = TRUE /\ f.records_per_chunk = Size(s)
        /\ f.chunks = Chunks(s) /\ f.total_chunks = 1 + Len(Chunks(s))
        /\ f.count = MergedCount(s)
    BY <1>3, <2>4, <2>5, FinalisedEntry
  <2> HIDE DEF e, f
  <2>7. EntryInv(s)'
    BY <1>1, <1>2, <1>3, <2>3, <2>4, <2>6 DEF EntryInv, Rid
  <2>8. FetchInv(s)'
    BY <1>1, <1>2, <2>3 DEF FetchInv, Rid
  <2> QED BY <1>2, <1>4, <1>5, <1>6, <2>7, <2>8
<1> QED BY <1>7, <1>8

-----------------------------------------------------------------------------
(* The steps of a client.                                                  *)

\* The chunks of an answer go on behind its first response.
LEMMA ChunksGoOn ==
    ASSUME TypeOK, NEW s \in Submissions, Responded(s), ResponseInv(s)
    PROVE  GoesOn(MergedRecords(s), Len(FirstRows(s)), Size(s), Chunks(s))
<1> DEFINE rows == MergedRecords(s)
           first == Len(FirstRows(s))
           size == Size(s)
<1>1. rows \in Seq(Record) /\ first \in 0 .. Len(rows) /\ size \in Nat \ {0}
  BY FirstPiece
<1> HIDE DEF rows, first, size
<1>2. GoesOn(rows, first, size, ChunkViews(SubSeq(rows, first + 1, Len(rows)), size))
  BY <1>1, NextChunk
<1> QED BY <1>2 DEF Chunks, Rest, rows, first, size

\* The first response reaches the client.
LEMMA ReceiveKeeps ==
    ASSUME TypeOK, NEW s \in Submissions, SubmissionInv(s), ReceiveFirst(s)
    PROVE  SubmissionInv(s)'
<1> USE DEF SubmissionInv
<1>1. /\ client[s] = "submitting" /\ pc[s] = "returned" /\ pc'[s] = pc[s]
      /\ stream_up' = stream_up /\ futures'[s] = futures[s] /\ response'[s] = response[s]
      /\ bg'[s] = bg[s] /\ idx'[s] = idx[s]
      /\ chunk_cache' = chunk_cache
      /\ cancel_flag' = cancel_flag /\ canceled_ids' = canceled_ids
      /\ disturbed' = disturbed
      /\ IF Responded(s)
         THEN /\ received'[s] = FirstRows(s) /\ reported'[s] = response[s].count
              /\ client'[s] = IF response[s].is_last THEN "done" ELSE "fetching"
         ELSE /\ received'[s] = received[s] /\ reported'[s] = reported[s]
              /\ client'[s] = "failed"
  BY DEF TypeOK, ReceiveFirst, Responded, FirstRows, serverVars, handlerVars
<1>2. /\ Answered(s)' = Answered(s)
      /\ MergedRecords(s)' = MergedRecords(s) /\ MergedCount(s)' = MergedCount(s)
      /\ (Responded(s)' <=> Responded(s)) /\ (MoreToFetch(s)' <=> MoreToFetch(s))
      /\ FirstRows(s)' = FirstRows(s) /\ Size(s)' = Size(s) /\ Chunks(s)' = Chunks(s)
      /\ (NothingLeft(s)' <=> NothingLeft(s)) /\ ResponseInv(s)'
  BY <1>1, SameRows
<1>3. HandlerInv(s)'
  BY <1>1, <1>2 DEF HandlerInv
<1>4. CauseInv(s)'
  BY <1>1 DEF CauseInv
<1>5. EntryInv(s)'
  BY <1>1, <1>2 DEF EntryInv, Rid
<1>6. CASE Responded(s)
  <2> DEFINE rows == MergedRecords(s)
             first == Len(FirstRows(s))
  <2>1. /\ Size(s) \in Nat \ {0} /\ first \in Nat
        /\ FirstRows(s) = SubSeq(rows, 1, first)
        /\ response[s].is_last =>
             /\ Answered(s) /\ FirstRows(s) = rows /\ response[s].count = MergedCount(s)
    <3>1. /\ Size(s) \in Nat \ {0} /\ first \in 0 .. Len(rows)
          /\ FirstRows(s) = SubSeq(rows, 1, first)
          /\ response[s].is_last =>
               /\ Answered(s) /\ FirstRows(s) = rows /\ response[s].count = MergedCount(s)
      BY <1>6, FirstPiece
    <3>2. first \in Nat
      BY <3>1
    <3> QED BY <3>1, <3>2
  <2>2. idx[s] = 1 /\ (idx[s] - 1) * Size(s) = 0
    BY <1>1, <2>1 DEF ClientInv
  <2>3. first + (idx[s] - 1) * Size(s) = first
    BY <2>1, <2>2
  <2>4. FirstRows(s) = SubSeq(rows, 1, first + (idx[s] - 1) * Size(s))
    BY <2>1, <2>3
  <2> HIDE DEF rows, first
  <2>5. ClientInv(s)'
    BY <1>1, <1>2, <1>6, <2>1, <2>2, <2>4 DEF ClientInv, MoreToFetch, rows, first
  <2>6. FetchInv(s)'
    BY <1>1, <1>2, <1>6 DEF FetchInv, Rid
  <2> QED BY <1>2, <1>3, <1>4, <1>5, <2>5, <2>6
<1>7. CASE ~ Responded(s)
  <2>1. response[s].status \in {"invalid", "cancelled"}
    BY <1>1, <1>7 DEF HandlerInv, Early, Responded, TypeOK, Response
  <2>2. ~ Query[s].supported \/ Rid(s) \in disturbed
    BY <2>1 DEF CauseInv
  <2>3. ClientInv(s)'
    BY <1>1, <1>2, <1>7 DEF ClientInv
  <2>4. FetchInv(s)'
    BY <1>1, <1>2, <1>7, <2>2 DEF FetchInv, MoreToFetch, Rid
  <2> QED BY <1>2, <1>3, <1>4, <1>5, <2>3, <2>4
<1> QED BY <1>6, <1>7

\* A client that gives up, or leaves.
LEMMA LeavingKeeps ==
    ASSUME TypeOK, NEW s \in Submissions, SubmissionInv(s), FetchRefused(s) \/ Abandon(s)
    PROVE  SubmissionInv(s)'
<1> USE DEF SubmissionInv
<1>1. /\ client[s] \in {"submitting", "fetching"} /\ pc'[s] = pc[s]
      /\ stream_up' = stream_up /\ futures'[s] = futures[s] /\ response'[s] = response[s]
      /\ bg'[s] = bg[s] /\ idx'[s] = idx[s] /\ received'[s] = received[s]
      /\ reported'[s] = reported[s] /\ chunk_cache' = chunk_cache
      /\ cancel_flag' = cancel_flag /\ canceled_ids' = canceled_ids
      /\ disturbed' = disturbed
      /\ client'[s] \in {"failed", "gone"}
      /\ client'[s] = "failed" =>
            client[s] = "fetching" /\ MustRefuse(Rid(s), idx[s])
  BY DEF TypeOK, FetchRefused, Abandon, serverVars, handlerVars
<1>2. /\ Answered(s)' = Answered(s)
      /\ MergedRecords(s)' = MergedRecords(s) /\ MergedCount(s)' = MergedCount(s)
      /\ (Responded(s)' <=> Responded(s)) /\ (MoreToFetch(s)' <=> MoreToFetch(s))
      /\ FirstRows(s)' = FirstRows(s) /\ Size(s)' = Size(s) /\ Chunks(s)' = Chunks(s)
      /\ (NothingLeft(s)' <=> NothingLeft(s)) /\ ResponseInv(s)'
  BY <1>1, SameRows
<1>3. HandlerInv(s)' /\ CauseInv(s)' /\ EntryInv(s)' /\ ClientInv(s)'
  <2>1. HandlerInv(s)'
    BY <1>1, <1>2 DEF HandlerInv
  <2>2. CauseInv(s)'
    BY <1>1 DEF CauseInv
  <2>3. EntryInv(s)'
    BY <1>1, <1>2 DEF EntryInv, Rid
  <2>4. ClientInv(s)'
    BY <1>1, <1>2 DEF ClientInv
  <2> QED BY <2>1, <2>2, <2>3, <2>4
<1>4. ASSUME client'[s] = "failed" PROVE Rid(s) \in disturbed \/ NothingLeft(s)
  <2>1. /\ client[s] = "fetching" /\ MustRefuse(Rid(s), idx[s])
        /\ MoreToFetch(s) /\ Responded(s) /\ pc[s] = "returned"
    BY <1>1, <1>4 DEF ClientInv
  <2>2. CASE Rid(s) \in canceled_ids
    BY <2>2 DEF CauseInv
  <2>3. CASE Rid(s) \notin DOMAIN chunk_cache
    BY <2>1, <2>3 DEF FetchInv
  <2>4. CASE Rid(s) \notin canceled_ids /\ Rid(s) \in DOMAIN chunk_cache
    <3>1. /\ chunk_cache[Rid(s)].finalized
          /\ ~ (idx[s] <= Len(chunk_cache[Rid(s)].chunks))
      BY <2>1, <2>4 DEF MustRefuse, Dropped, Cached, Ready
    <3>2. Answered(s) /\ chunk_cache[Rid(s)].chunks = Chunks(s)
      BY <2>4, <3>1 DEF EntryInv
    <3>3. idx[s] = 1
      BY <2>1, <3>1, <3>2 DEF ClientInv
    <3>4. Len(Chunks(s)) \in Nat /\ (Len(Chunks(s)) = 0 => Len(FirstRows(s)) = Len(MergedRecords(s)))
      BY <2>1, ChunksGoOn DEF GoesOn
    <3>5. Len(FirstRows(s)) = Len(MergedRecords(s))
      BY <3>1, <3>2, <3>3, <3>4
    <3> QED BY <2>1, <3>2, <3>5, FirstPiece DEF MoreToFetch
  <2> QED BY <2>2, <2>3, <2>4
<1>5. FetchInv(s)'
  BY <1>1, <1>2, <1>4 DEF FetchInv, Rid
<1> QED BY <1>2, <1>3, <1>5

\* A call that fails and that the server knows nothing of.
LEMMA FailsKeeps ==
    ASSUME TypeOK, NEW s \in Submissions, SubmissionInv(s), SubmitFails(s) \/ FetchFails(s)
    PROVE  SubmissionInv(s)'
<1>1. /\ serverVars' = serverVars /\ handlerVars' = handlerVars
      /\ client'[s] = "failed" /\ received' = received
      /\ disturbed' = disturbed \cup {Rid(s)}
  BY DEF TypeOK, SubmitFails, FetchFails
<1>2. EntryKept(s) /\ Traced(s)
  BY <1>1 DEF EntryKept, SameContent, Traced, serverVars
<1> QED BY <1>1, <1>2, CutOffKeeps DEF serverVars, handlerVars

\* Serving a chunk takes the entry away or resets its timer.
LEMMA ServedEntry ==
    ASSUME TypeOK, NEW r \in Rids, NEW i, ServeChunk(r, i)
    PROVE  /\ r \in DOMAIN chunk_cache /\ i <= Len(chunk_cache[r].chunks)
           /\ IF IsLast(r, i)
              THEN r \notin DOMAIN chunk_cache'
              ELSE r \in DOMAIN chunk_cache' /\ SameContent(chunk_cache'[r], chunk_cache[r])
           /\ stream_up' = stream_up /\ pc' = pc /\ futures' = futures /\ bg' = bg
           /\ response' = response /\ cancel_flag' = cancel_flag
           /\ canceled_ids' = canceled_ids
<1>1. r \in DOMAIN chunk_cache /\ i <= Len(chunk_cache[r].chunks)
  BY DEF ServeChunk, MayServe, Ready, Cached
<1>2. CASE IsLast(r, i)
  BY <1>1, <1>2 DEF ServeChunk, Erase, handlerVars
<1>3. CASE ~ IsLast(r, i)
  <2>1. chunk_cache' = [chunk_cache EXCEPT ![r].age = 0]
    BY <1>3 DEF ServeChunk
  <2>2. chunk_cache'[r] = [chunk_cache[r] EXCEPT !.age = 0] /\ r \in DOMAIN chunk_cache'
    BY <1>1, <2>1
  <2>3. SameContent(chunk_cache'[r], chunk_cache[r])
    <3>1. chunk_cache[r] \in Entry
      BY <1>1 DEF TypeOK
    <3> QED BY <2>2, <3>1, AgeOnly
  <2> QED BY <1>1, <1>3, <2>2, <2>3 DEF ServeChunk, handlerVars
<1> QED BY <1>2, <1>3

\* A chunk that never reached the client leaves it as it was or ends it, and leaves
\* a trace.
LEMMA LossKeeps ==
    ASSUME TypeOK, NEW s \in Submissions, SubmissionInv(s), FetchReplyLost(s)
    PROVE  SubmissionInv(s)'
<1>1. Rid(s) \in Rids /\ ServeChunk(Rid(s), idx[s])
  BY Parts DEF FetchReplyLost
<1>2. /\ disturbed' = disturbed \cup {Rid(s)}
      /\ client'[s] \in {client[s], "failed"}
      /\ idx' = idx /\ received' = received /\ reported' = reported
  BY DEF TypeOK, FetchReplyLost
<1>3. EntryKept(s)
  BY <1>1, <1>2, ServedEntry DEF EntryKept
<1>4. Traced(s)
  BY <1>1, <1>2, ServedEntry DEF Traced
<1>5. CASE client'[s] = client[s]
  BY <1>1, <1>2, <1>3, <1>4, <1>5, ServedEntry, Elsewhere
<1>6. CASE client'[s] = "failed"
  BY <1>1, <1>2, <1>3, <1>4, <1>6, ServedEntry, CutOffKeeps
<1> QED BY <1>2, <1>5, <1>6

\* What a client that is served a chunk has then: the rows up to its end, which are
\* all of them if the chunk is the last one.
LEMMA ServedRows ==
    ASSUME TypeOK, NEW s \in Submissions, SubmissionInv(s), FetchServed(s)
    PROVE  /\ MoreToFetch(s) /\ Responded(s) /\ Answered(s) /\ pc[s] = "returned"
           /\ idx[s] \in 1 .. Len(Chunks(s))
           /\ IsLast(Rid(s), idx[s]) <=> idx[s] = Len(Chunks(s))
           /\ chunk_cache[Rid(s)].count = MergedCount(s)
           /\ received'[s] = received[s] \o Chunks(s)[idx[s]]
           /\ \E n \in Nat :
                /\ Len(received[s]) <= n /\ n <= Len(received[s]) + Size(s)
                /\ n <= Len(MergedRecords(s))
                /\ received'[s] = SubSeq(MergedRecords(s), 1, n)
                /\ IF idx[s] = Len(Chunks(s))
                   THEN n = Len(MergedRecords(s))
                   ELSE n = Len(FirstRows(s)) + (idx[s] + 1 - 1) * Size(s)
<1> USE DEF SubmissionInv
<1> DEFINE rows == MergedRecords(s)
           from == Len(FirstRows(s)) + (idx[s] - 1) * Size(s)
           e == chunk_cache[Rid(s)]
<1>1. /\ client[s] = "fetching" /\ ServeChunk(Rid(s), idx[s])
      /\ received'[s] = received[s] \o e.chunks[idx[s]]
      /\ idx[s] \in Nat \ {0} /\ Rid(s) \in Rids
  BY Parts DEF TypeOK, FetchServed
<1>2. /\ MoreToFetch(s) /\ Responded(s) /\ pc[s] = "returned"
      /\ received[s] = SubSeq(rows, 1, from)
  BY <1>1 DEF ClientInv
<1>3. Rid(s) \in DOMAIN chunk_cache /\ idx[s] <= Len(e.chunks)
  BY <1>1, ServedEntry
<1>4. e.finalized
  <2>1. ~ e.finalized => e.chunks = <<>>
    BY <1>3 DEF EntryInv
  <2>2. Len(<<>>) = 0
    OBVIOUS
  <2> QED BY <1>1, <1>3, <2>1, <2>2
<1>5. /\ Answered(s) /\ e.chunks = Chunks(s) /\ e.total_chunks = 1 + Len(Chunks(s))
      /\ e.count = MergedCount(s)
  BY <1>3, <1>4 DEF EntryInv
<1>6. GoesOn(rows, Len(FirstRows(s)), Size(s), Chunks(s))
  BY <1>2, ChunksGoOn
<1>7. idx[s] \in 1 .. Len(Chunks(s))
  BY <1>1, <1>3, <1>5, <1>6 DEF GoesOn
<1>8. IsLast(Rid(s), idx[s]) <=> idx[s] = Len(Chunks(s))
  BY <1>4, <1>5, <1>6, <1>7 DEF IsLast, GoesOn
<1>9. PICK n \in Nat :
        /\ from \in Nat /\ from <= n /\ n <= from + Size(s)
        /\ n <= Len(rows)
        /\ SubSeq(rows, 1, from) \o Chunks(s)[idx[s]] = SubSeq(rows, 1, n)
        /\ IF idx[s] = Len(Chunks(s))
           THEN n = Len(rows)
           ELSE n = Len(FirstRows(s)) + (idx[s] + 1 - 1) * Size(s)
  <2>1. PICK n \in Nat : GoesOnTo(rows, Len(FirstRows(s)), Size(s), Chunks(s), idx[s], n)
    BY <1>6, <1>7 DEF GoesOn
  <2> QED BY <2>1 DEF GoesOnTo
<1>10. Len(received[s]) = from
  <2>1. rows \in Seq(Record) /\ Len(rows) \in Nat
    BY MergedTypes
  <2>2. from \in Nat /\ from <= Len(rows)
    BY <1>9, <2>1
  <2> HIDE DEF from, rows
  <2> QED BY <1>2, <2>1, <2>2, Windows
<1>11. received'[s] = received[s] \o Chunks(s)[idx[s]]
  BY <1>1, <1>5
<1>12. received'[s] = SubSeq(rows, 1, n)
  BY <1>2, <1>9, <1>11
<1> HIDE DEF from
<1> QED BY <1>2, <1>5, <1>7, <1>8, <1>9, <1>10, <1>11, <1>12

LEMMA ServedKeeps ==
    ASSUME TypeOK, NEW s \in Submissions, SubmissionInv(s), FetchServed(s)
    PROVE  SubmissionInv(s)'
<1> USE DEF SubmissionInv
<1> DEFINE rows == MergedRecords(s)
           last == IsLast(Rid(s), idx[s])
<1>1. /\ client[s] = "fetching" /\ ServeChunk(Rid(s), idx[s])
      /\ idx[s] \in Nat \ {0} /\ Rid(s) \in Rids /\ disturbed' = disturbed
      /\ reported'[s] = chunk_cache[Rid(s)].count
      /\ client'[s] = IF last THEN "done" ELSE "fetching"
      /\ idx'[s] = IF last THEN idx[s] ELSE idx[s] + 1
  BY Parts DEF TypeOK, FetchServed
<1>2. /\ stream_up' = stream_up /\ pc' = pc /\ futures' = futures /\ bg' = bg
      /\ response' = response /\ cancel_flag' = cancel_flag
      /\ canceled_ids' = canceled_ids
      /\ Rid(s) \in DOMAIN chunk_cache
      /\ IF last
         THEN Rid(s) \notin DOMAIN chunk_cache'
         ELSE /\ Rid(s) \in DOMAIN chunk_cache'
              /\ SameContent(chunk_cache'[Rid(s)], chunk_cache[Rid(s)])
  BY <1>1, ServedEntry
<1>3. /\ Answered(s)' = Answered(s)
      /\ MergedRecords(s)' = MergedRecords(s) /\ MergedCount(s)' = MergedCount(s)
      /\ (Responded(s)' <=> Responded(s)) /\ (MoreToFetch(s)' <=> MoreToFetch(s))
      /\ FirstRows(s)' = FirstRows(s) /\ Size(s)' = Size(s) /\ Chunks(s)' = Chunks(s)
      /\ (NothingLeft(s)' <=> NothingLeft(s)) /\ ResponseInv(s)'
  BY <1>2, SameRows
<1>4. /\ MoreToFetch(s) /\ Responded(s) /\ Answered(s) /\ pc[s] = "returned"
      /\ idx[s] \in 1 .. Len(Chunks(s))
      /\ (last <=> idx[s] = Len(Chunks(s)))
      /\ chunk_cache[Rid(s)].count = MergedCount(s)
  BY ServedRows
<1>5. PICK n \in Nat :
        /\ n <= Len(rows) /\ received'[s] = SubSeq(rows, 1, n)
        /\ IF idx[s] = Len(Chunks(s))
           THEN n = Len(rows)
           ELSE n = Len(FirstRows(s)) + (idx[s] + 1 - 1) * Size(s)
  BY ServedRows
<1>6. /\ IsPrefixOf(received'[s], rows)
      /\ n = Len(rows) => received'[s] = rows
  <2>1. rows \in Seq(Record)
    BY MergedTypes
  <2> HIDE DEF rows
  <2>2. Len(SubSeq(rows, 1, n)) = n
    BY <1>5, <2>1, Windows
  <2>3. SubSeq(rows, 1, Len(rows)) = rows
    BY <2>1, SubSeqFull
  <2> QED BY <1>5, <2>2, <2>3 DEF IsPrefixOf
<1> HIDE DEF rows, last
<1>7. HandlerInv(s)'
  BY <1>2, <1>3 DEF HandlerInv
<1>8. CauseInv(s)'
  BY <1>1, <1>2 DEF CauseInv
<1>9. EntryInv(s)'
  BY <1>1, <1>2, <1>3 DEF EntryInv, SameContent, Rid
<1>10. ClientInv(s)'
  BY <1>1, <1>2, <1>3, <1>4, <1>5, <1>6 DEF ClientInv, rows
<1>11. FetchInv(s)'
  BY <1>1, <1>2, <1>3 DEF FetchInv, Rid
<1> QED BY <1>3, <1>7, <1>8, <1>9, <1>10, <1>11

-----------------------------------------------------------------------------
(* The invariant, and what it says of the clients.                         *)

LEMMA DeliveryInit == Init => DeliveryInv
<1> SUFFICES ASSUME Init, NEW s \in Submissions PROVE SubmissionInv(s)
  BY DEF DeliveryInv
<1>1. /\ pc[s] = "idle" /\ bg[s] = "none" /\ response[s].status = "none"
      /\ client[s] = "start" /\ received[s] = <<>> /\ idx[s] = 1
      /\ ~ cancel_flag[s] /\ canceled_ids = {} /\ DOMAIN chunk_cache = {}
      /\ \A c \in Children : futures[s][c] = "unsent"
  BY DEF Init, NoResponse
<1>2. ~ Responded(s) /\ ~ MoreToFetch(s)
  BY <1>1 DEF Responded, MoreToFetch
<1>3. HandlerInv(s)
  BY <1>1 DEF HandlerInv, Early
<1>4. CauseInv(s) /\ ResponseInv(s) /\ EntryInv(s)
  BY <1>1, <1>2 DEF CauseInv, ResponseInv, EntryInv
<1>5. ClientInv(s) /\ FetchInv(s)
  BY <1>1, <1>2 DEF ClientInv, FetchInv
<1> QED BY <1>3, <1>4, <1>5 DEF SubmissionInv

\* A step of a submission keeps what holds of it.
LEMMA OwnStepKeeps ==
    ASSUME TypeOK, CacheInv, NEW s \in Submissions, SubmissionInv(s), StepOf(s)
    PROVE  SubmissionInv(s)'
<1>1. CASE Submit(s) \/ HandlerStep(s)
  BY <1>1, EarlyHandler, RejectKeeps, ScatterKeeps, RespondKeeps, CancelledKeeps,
     InsertKeeps, LeaveKeeps DEF HandlerStep
<1>2. CASE CollectorStep(s)
  BY <1>2, CollectKeeps, MergeKeeps DEF CollectorStep
<1>3. CASE ClientStep(s) \/ FetchReplyLost(s) \/ SubmitFails(s) \/ FetchFails(s) \/ Abandon(s)
  BY <1>3, ReceiveKeeps, ServedKeeps, LossKeeps, FailsKeeps, LeavingKeeps DEF ClientStep
<1>4. CASE \E c \in Children : ChildReply(s, c)
  BY <1>4, ReplyKeeps
<1> QED BY <1>1, <1>2, <1>3, <1>4 DEF StepOf

LEMMA DeliveryNext ==
    ASSUME DistinctRids
    PROVE  TypeOK /\ CacheInv /\ DeliveryInv /\ [Next]_vars => DeliveryInv'
<1> SUFFICES ASSUME TypeOK, CacheInv, DeliveryInv, [Next]_vars, NEW t \in Submissions
             PROVE  SubmissionInv(t)'
  BY DEF DeliveryInv
<1>1. ASSUME NEW s \in Submissions, StepOf(s) PROVE SubmissionInv(t)'
  <2>1. CASE t = s
    BY <1>1, <2>1, OwnStepKeeps DEF DeliveryInv
  <2>2. CASE t # s
    BY <1>1, <2>2, OthersKept
  <2> QED BY <2>1, <2>2
<1>2. CASE (\E r \in Rids : CancelQuery(r)) \/ Tick \/ EvictStale \/ UNCHANGED vars
  BY <1>2, ServiceKeeps
<1> QED BY <1>1, <1>2 DEF Next, StepOf

LEMMA DeliveryAlways ==
    ASSUME DistinctRids
    PROVE  Spec => []DeliveryInv
<1>1. Init => DeliveryInv
  BY DeliveryInit
<1>2. TypeOK /\ CacheInv /\ DeliveryInv /\ [Next]_vars => DeliveryInv'
  BY DeliveryNext
<1> QED BY <1>1, <1>2, TypeCorrect, CacheInvAlways, PTL DEF Spec

\* What a client has received begins the rows of its query.
LEMMA ReceivedPrefix ==
    ASSUME TypeOK, NEW s \in Submissions, SubmissionInv(s)
    PROVE  IsPrefixOf(received[s], MergedRecords(s))
<1> DEFINE rows == MergedRecords(s)
<1>1. rows \in Seq(Record) /\ Len(rows) \in Nat
  BY MergedTypes
<1>2. CASE received[s] = <<>>
  <2> HIDE DEF rows
  <2>1. SubSeq(rows, 1, 0) = <<>> /\ Len(<<>>) = 0
    BY <1>1, SubSeqEmpty
  <2>2. IsPrefixOf(received[s], rows)
    BY <1>1, <1>2, <2>1 DEF IsPrefixOf
  <2> QED BY <2>2 DEF rows
<1>3. CASE Responded(s) /\ received[s] = FirstRows(s)
  <2>1. Len(FirstRows(s)) \in 0 .. Len(rows)
        /\ FirstRows(s) = SubSeq(rows, 1, Len(FirstRows(s)))
    BY <1>3, FirstPiece DEF SubmissionInv
  <2> QED BY <1>1, <1>3, <2>1 DEF IsPrefixOf
<1> QED BY <1>2, <1>3 DEF SubmissionInv, ClientInv

\* A client is given a prefix of the rows of its query, in order, whatever happens
\* to the entry it fetches from; when it is told that the chunk was the last one it
\* has them all, with their count.
THEOREM DeliveryCorrect ==
    ASSUME DistinctRids
    PROVE  Spec => []ExactDelivery
<1>1. TypeOK /\ DeliveryInv => ExactDelivery
  <2> SUFFICES ASSUME TypeOK, DeliveryInv, NEW s \in Submissions
               PROVE  /\ IsPrefixOf(received[s], MergedRecords(s))
                      /\ client[s] = "done" =>
                            received[s] = MergedRecords(s) /\ reported[s] = MergedCount(s)
    BY DEF ExactDelivery
  <2>1. SubmissionInv(s)
    BY DEF DeliveryInv
  <2> QED BY <2>1, ReceivedPrefix DEF SubmissionInv, ClientInv
<1> QED BY <1>1, TypeCorrect, DeliveryAlways, PTL

\* FetchChunk and SubmitQuery fail a client only for a cause: the query was not
\* understood, somebody cancelled or evicted the request, one of its client's own
\* calls was cut off or met its deadline, or a streamed response promised a chunk
\* that does not exist.
THEOREM FailureCorrect ==
    ASSUME DistinctRids
    PROVE  Spec => []FailureHasCause
<1>1. DeliveryInv => FailureHasCause
  BY DEF DeliveryInv, SubmissionInv, FetchInv, FailureHasCause
<1> QED BY <1>1, DeliveryAlways, PTL

-----------------------------------------------------------------------------
(* EntryNode implements QueryService.                                      *)

\* The rows and the count of the service are those of the answer.
LEMMA ServiceRows ==
    ASSUME NEW s \in Submissions
    PROVE  /\ Service!Whole(s) = MergedRecords(s)
           /\ Service!Count(s) = MergedCount(s)
           /\ Service!Known(s) = IF Answered(s) THEN MergedRecords(s) ELSE Query[s].local
<1>1. Answering[s] = OkChildren(s) /\ Settled[s] = Answered(s)
  BY DEF Answering, Settled
<1>2. Service!Whole(s) = MergedRecords(s)
  BY <1>1 DEF Service!Whole, MergedRecords
<1>3. Service!Count(s) = MergedCount(s)
  BY <1>1, <1>2 DEF Service!Count, MergedCount
<1>4. Service!Known(s) = IF Answered(s) THEN MergedRecords(s) ELSE Query[s].local
  BY <1>1, <1>2 DEF Service!Known
<1> QED BY <1>2, <1>3, <1>4

\* What changes nothing a client sees.
LEMMA Unseen ==
    ASSUME client' = client, received' = received, reported' = reported,
           \A t \in Submissions :
                OkChildren(t)' = OkChildren(t) /\ Answered(t)' = Answered(t)
    PROVE  UNCHANGED Service!vars
<1>1. Phase' = Phase
  BY DEF Phase
<1>2. Answering' = Answering
  BY DEF Answering
<1>3. Settled' = Settled
  BY DEF Settled
<1>4. Told' = Told
  BY DEF Told
<1> QED BY <1>1, <1>2, <1>3, <1>4 DEF Service!vars

LEMMA ServiceInit == Init => Service!Init
<1> SUFFICES ASSUME Init PROVE Service!Init
  OBVIOUS
<1>1. Phase = [s \in Submissions |-> "new"]
  BY DEF Init, Phase
<1>2. Answering = [s \in Submissions |-> {}]
  <2>1. \A s \in Submissions : OkChildren(s) = {}
    BY DEF Init, OkChildren
  <2> QED BY <2>1 DEF Answering
<1>3. Settled = [s \in Submissions |-> Children = {}]
  <2>1. \A s \in Submissions : Answered(s) <=> Children = {}
    BY DEF Init, Answered
  <2>2. \A s \in Submissions : Answered(s) = (Children = {})
    BY <2>1 DEF Answered
  <2> QED BY <2>2, Zenon DEF Settled
<1>4. Told = [s \in Submissions |-> 0]
  BY DEF Init, Told
<1> QED BY <1>1, <1>2, <1>3, <1>4 DEF Init, Service!Init

\* A handler calls the children before any of them has answered.
LEMMA ScatterUnseen ==
    ASSUME TypeOK, NEW s \in Submissions, HandlerInv(s), Scatter(s)
    PROVE  UNCHANGED Service!vars
<1>1. /\ client' = client /\ received' = received /\ reported' = reported
      /\ futures' = [futures EXCEPT ![s] = [c \in Children |-> "pending"]]
      /\ \A c \in Children : futures[s][c] = "unsent"
  BY DEF Scatter, HandlerInv, clientVars
<1>2. OkChildren(s)' = OkChildren(s) /\ Answered(s)' = Answered(s)
  <2>1. futures'[s] = [c \in Children |-> "pending"]
    BY <1>1 DEF TypeOK
  <2>2. OkChildren(s) = {} /\ OkChildren(s)' = {}
    BY <1>1, <2>1 DEF OkChildren
  <2>3. /\ \A c \in Children : futures[s][c] \notin {"ok", "failed"}
        /\ \A c \in Children : futures'[s][c] \notin {"ok", "failed"}
    BY <1>1, <2>1
  <2>4. Answered(s) = (Children = {}) /\ Answered(s)' = (Children = {})
    BY <2>3, Zenon DEF Answered
  <2> QED BY <2>2, <2>4
<1>3. \A t \in Submissions \ {s} :
        OkChildren(t)' = OkChildren(t) /\ Answered(t)' = Answered(t)
  BY <1>1, SameAnswer DEF TypeOK
<1> QED BY <1>1, <1>2, <1>3, Unseen

\* Neither do clients see the rest of what goes on inside.
LEMMA InsideUnseen ==
    ASSUME TypeOK, DeliveryInv,
           \/ \E s \in Submissions :
                 HandlerStep(s) \/ CollectorStep(s)
           \/ \E r \in Rids : CancelQuery(r)
           \/ Tick \/ EvictStale \/ UNCHANGED vars
    PROVE  UNCHANGED Service!vars
<1>1. ASSUME client' = client, received' = received, reported' = reported,
             futures' = futures
      PROVE  UNCHANGED Service!vars
  <2>1. \A t \in Submissions :
            OkChildren(t)' = OkChildren(t) /\ Answered(t)' = Answered(t)
    BY <1>1, SameAnswer
  <2> QED BY <1>1, <2>1, Unseen
<1>2. ASSUME NEW s \in Submissions, HandlerStep(s) PROVE UNCHANGED Service!vars
  <2>1. CASE Scatter(s)
    BY <2>1, ScatterUnseen DEF DeliveryInv, SubmissionInv
  <2>2. CASE AcquireSlot(s) \/ Register(s) \/ RejectQuery(s) \/ StreamRespond(s)
             \/ StreamInsert(s)
    BY <1>1, <2>2 DEF AcquireSlot, Register, RejectQuery, StreamRespond, StreamInsert,
       clientVars
  <2>3. CASE GatherRespond(s) \/ GatherCancelled(s) \/ GatherInsert(s) \/ Unregister(s)
             \/ Return(s)
    BY <1>1, <2>3 DEF GatherRespond, GatherCancelled, GatherInsert, Unregister, Return,
       clientVars
  <2> QED BY <1>2, <2>1, <2>2, <2>3 DEF HandlerStep
<1>3. ASSUME NEW s \in Submissions, CollectorStep(s) PROVE UNCHANGED Service!vars
  BY <1>1, <1>3 DEF CollectorStep, BgGather, BgMerge, clientVars
<1>4. ASSUME NEW r \in Rids, CancelQuery(r) PROVE UNCHANGED Service!vars
  BY <1>1, <1>4 DEF CancelQuery, handlerVars, clientVars
<1>5. CASE Tick \/ EvictStale \/ UNCHANGED vars
  BY <1>1, <1>5 DEF Tick, EvictStale, vars, handlerVars, clientVars
<1> QED BY <1>2, <1>3, <1>4, <1>5

\* A step of the client of s: who else sees nothing of it.
LEMMA ClientSees ==
    ASSUME NEW s \in Submissions, NEW phase, NEW count,
           futures' = futures,
           \A t \in Submissions \ {s} :
                client'[t] = client[t] /\ reported'[t] = reported[t],
           phase = IF client'[s] = "start" THEN "new"
                   ELSE IF client'[s] \in {"submitting", "fetching"} THEN "open"
                   ELSE client'[s],
           count = IF client'[s] = "done" THEN reported'[s] ELSE 0
    PROVE  /\ Phase' = [Phase EXCEPT ![s] = phase]
           /\ Told' = [Told EXCEPT ![s] = count]
           /\ Answering' = Answering /\ Settled' = Settled
<1>1. Phase' = [Phase EXCEPT ![s] = phase]
  BY DEF Phase
<1>2. Told' = [Told EXCEPT ![s] = count]
  BY DEF Told
<1>3. Answering' = Answering /\ Settled' = Settled
  <2>1. \A t \in Submissions :
            OkChildren(t)' = OkChildren(t) /\ Answered(t)' = Answered(t)
    BY SameAnswer
  <2> QED BY <2>1 DEF Answering, Settled
<1> QED BY <1>1, <1>2, <1>3

\* What a client sees of itself.
LEMMA SeenOf ==
    ASSUME NEW s \in Submissions
    PROVE  /\ Phase[s] = IF client[s] = "start" THEN "new"
                         ELSE IF client[s] \in {"submitting", "fetching"} THEN "open"
                         ELSE client[s]
           /\ Told[s] = IF client[s] = "done" THEN reported[s] ELSE 0
           /\ Answering[s] = OkChildren(s) /\ Settled[s] = Answered(s)
           /\ Phase = [Phase EXCEPT ![s] = Phase[s]]
           /\ Told = [Told EXCEPT ![s] = Told[s]]
<1>1. Phase[s] = IF client[s] = "start" THEN "new"
                 ELSE IF client[s] \in {"submitting", "fetching"} THEN "open"
                 ELSE client[s]
  BY DEF Phase
<1>2. Told[s] = IF client[s] = "done" THEN reported[s] ELSE 0
  BY DEF Told
<1>3. Answering[s] = OkChildren(s) /\ Settled[s] = Answered(s)
  BY DEF Answering, Settled
<1>4. Phase = [Phase EXCEPT ![s] = Phase[s]] /\ Told = [Told EXCEPT ![s] = Told[s]]
  BY DEF Phase, Told
<1> QED BY <1>1, <1>2, <1>3, <1>4

\* Submitting opens the query.
LEMMA OpenStep ==
    ASSUME TypeOK, NEW s \in Submissions, Submit(s)
    PROVE  Service!Open(s)
<1>1. /\ client[s] = "start" /\ client'[s] = "submitting" /\ futures' = futures
      /\ received' = received /\ reported' = reported
      /\ \A t \in Submissions \ {s} : client'[t] = client[t]
  BY DEF TypeOK, Submit
<1>2. /\ Phase' = [Phase EXCEPT ![s] = "open"] /\ Told' = [Told EXCEPT ![s] = 0]
      /\ Answering' = Answering /\ Settled' = Settled
  BY <1>1, ClientSees
<1>3. Phase[s] = "new" /\ Told' = Told
  BY <1>1, <1>2, SeenOf
<1> QED BY <1>1, <1>2, <1>3 DEF Service!Open

\* A child that answers is an answer of the service, the last one settles it.
LEMMA AnswerStep ==
    ASSUME TypeOK, NEW s \in Submissions, NEW c \in Children, ChildReply(s, c)
    PROVE  Service!Answer(s)
<1>1. /\ client' = client /\ received' = received /\ reported' = reported
      /\ futures[s][c] = "pending"
      /\ \E answer : futures' = [futures EXCEPT ![s][c] = answer]
  BY DEF ChildReply, clientVars
<1>2. \A t \in Submissions \ {s} : futures'[t] = futures[t]
  BY <1>1 DEF TypeOK
<1>3. OkChildren(s) \subseteq OkChildren(s)' /\ OkChildren(s)' \in SUBSET Children
  <2>1. PICK answer : futures' = [futures EXCEPT ![s][c] = answer]
    BY <1>1
  <2>2. \A d \in Children \ {c} : futures'[s][d] = futures[s][d]
    BY <2>1 DEF TypeOK
  <2> QED BY <1>1, <2>2 DEF OkChildren
<1>4. Answering' = [Answering EXCEPT ![s] = OkChildren(s)']
  <2>1. \A t \in Submissions \ {s} : OkChildren(t)' = OkChildren(t)
    BY <1>2, SameAnswer
  <2> QED BY <2>1 DEF Answering
<1>5. Settled' = [Settled EXCEPT ![s] = Answered(s)'] /\ Answered(s)' \in BOOLEAN
  <2>1. \A t \in Submissions \ {s} : Answered(t)' = Answered(t)
    BY <1>2, SameAnswer
  <2>2. Settled' = [Settled EXCEPT ![s] = Answered(s)']
    BY <2>1, Zenon DEF Settled
  <2>3. Answered(s)' \in BOOLEAN
    BY DEF Answered
  <2> QED BY <2>2, <2>3
<1>6. Phase' = Phase /\ Told' = Told
  BY <1>1 DEF Phase, Told
<1>7. ~ Settled[s] /\ Answering[s] = OkChildren(s)
  <2>1. ~ Answered(s)
    BY <1>1 DEF Answered
  <2> QED BY <2>1 DEF Settled, Answering
<1>8. \E ok \in SUBSET Children :
          /\ Answering[s] \subseteq ok
          /\ Answering' = [Answering EXCEPT ![s] = ok]
  BY <1>3, <1>4, <1>7
<1>9. \E last \in BOOLEAN : Settled' = [Settled EXCEPT ![s] = last]
  BY <1>5, Zenon
<1> QED BY <1>1, <1>6, <1>7, <1>8, <1>9 DEF Service!Answer

\* A client that fails or leaves.
LEMMA BreakStep ==
    ASSUME TypeOK, NEW s \in Submissions,
           client[s] \in {"start", "submitting", "fetching"},
           client'[s] \in {"failed", "gone"}, futures' = futures,
           received' = received, reported' = reported,
           \A t \in Submissions \ {s} : client'[t] = client[t]
    PROVE  Service!Break(s)
<1>1. /\ Phase' = [Phase EXCEPT ![s] = client'[s]] /\ Told' = [Told EXCEPT ![s] = 0]
      /\ Answering' = Answering /\ Settled' = Settled
  BY ClientSees
<1>2. Phase[s] \in {"new", "open"} /\ Told' = Told
  BY <1>1, SeenOf
<1> QED BY <1>1, <1>2 DEF Service!Break

\* No chunk is longer than the tuner allows.
LEMMA SizeBound ==
    ASSUME TypeOK, NEW s \in Submissions
    PROVE  LargestChunk \in Nat /\ Size(s) \in Nat /\ Size(s) <= LargestChunk
<1>1. LargestChunk \in ChunkSizes /\ \A m \in ChunkSizes : m <= LargestChunk
  BY ConfigAssumption DEF LargestChunk
<1>2. Size(s) \in ChunkSizes
  BY DEF TypeOK, Response, Size
<1> QED BY <1>1, <1>2, Parts

\* A client that receives a piece of what is known, the last of all or not.
LEMMA PieceStep ==
    ASSUME TypeOK, NEW s \in Submissions, NEW known, NEW n \in Nat,
           client[s] \in {"submitting", "fetching"}, futures' = futures,
           \A t \in Submissions \ {s} :
                client'[t] = client[t] /\ reported'[t] = reported[t],
           known = IF Answered(s) THEN MergedRecords(s) ELSE Query[s].local,
           Len(received[s]) <= n, n <= Len(received[s]) + Size(s), n <= Len(known),
           received' = [received EXCEPT ![s] = SubSeq(known, 1, n)],
           \/ client'[s] = "fetching"
           \/ /\ client'[s] = "done" /\ Answered(s)
              /\ received'[s] = MergedRecords(s) /\ reported'[s] = MergedCount(s)
    PROVE  Service!Deliver(s) \/ Service!Finish(s)
<1>1. Phase[s] = "open" /\ Told = [Told EXCEPT ![s] = 0] /\ Settled[s] = Answered(s)
  BY SeenOf
<1>2. Answering' = Answering /\ Settled' = Settled
  BY ClientSees
<1>3. Service!Known(s) = known
  BY ServiceRows
<1>4. Len(received[s]) \in Nat /\ n \in Len(received[s]) .. Len(received[s]) + LargestChunk
  <2>1. Len(received[s]) \in Nat
    BY DEF TypeOK
  <2> QED BY <2>1, SizeBound
<1>5. Service!Piece(s)
  BY <1>1, <1>2, <1>3, <1>4 DEF Service!Piece
<1>6. CASE client'[s] = "fetching"
  <2>1. Phase' = [Phase EXCEPT ![s] = "open"] /\ Told' = [Told EXCEPT ![s] = 0]
    BY <1>6, ClientSees
  <2>2. Phase' = Phase /\ Told' = Told
    BY <1>1, <2>1, SeenOf
  <2> QED BY <1>5, <2>2 DEF Service!Deliver
<1>7. CASE client'[s] = "done" /\ Answered(s) /\ received'[s] = MergedRecords(s)
           /\ reported'[s] = MergedCount(s)
  <2>1. /\ Phase' = [Phase EXCEPT ![s] = "done"]
        /\ Told' = [Told EXCEPT ![s] = MergedCount(s)]
    BY <1>7, ClientSees
  <2>2. Settled[s] /\ received'[s] = Service!Whole(s) /\ Service!Count(s) = MergedCount(s)
    BY <1>1, <1>7, ServiceRows
  <2> QED BY <1>5, <2>1, <2>2 DEF Service!Finish
<1> QED BY <1>6, <1>7

\* The first response is a piece: of A's own rows or of all of them.
LEMMA FirstPieceStep ==
    ASSUME TypeOK, NEW s \in Submissions, SubmissionInv(s), ReceiveFirst(s)
    PROVE  Service!Deliver(s) \/ Service!Finish(s) \/ Service!Break(s)
<1>1. /\ client[s] = "submitting" /\ futures' = futures
      /\ \A t \in Submissions \ {s} :
            client'[t] = client[t] /\ reported'[t] = reported[t]
      /\ received[s] = <<>>
  BY DEF TypeOK, ReceiveFirst, handlerVars, SubmissionInv, ClientInv
<1>2. CASE ~ Responded(s)
  <2>1. client'[s] = "failed" /\ received' = received /\ reported' = reported
    BY <1>2 DEF TypeOK, ReceiveFirst, Responded
  <2> QED BY <1>1, <2>1, BreakStep
<1>3. CASE Responded(s)
  <2> DEFINE known == IF Answered(s) THEN MergedRecords(s) ELSE Query[s].local
             n == Len(FirstRows(s))
  <2>1. /\ received' = [received EXCEPT ![s] = FirstRows(s)]
        /\ reported'[s] = response[s].count
        /\ client'[s] = IF response[s].is_last THEN "done" ELSE "fetching"
    BY <1>3 DEF TypeOK, ReceiveFirst, Responded, FirstRows
  <2>2. /\ n \in 0 .. Len(MergedRecords(s)) /\ n <= Size(s)
        /\ FirstRows(s) = SubSeq(MergedRecords(s), 1, n)
        /\ stream_up => /\ n <= Len(Query[s].local)
                        /\ FirstRows(s) = SubSeq(Query[s].local, 1, n)
        /\ ~ stream_up => Answered(s)
        /\ response[s].is_last =>
             /\ Answered(s) /\ FirstRows(s) = MergedRecords(s)
             /\ response[s].count = MergedCount(s)
    BY <1>3, FirstPiece DEF SubmissionInv
  <2>3. n \in Nat /\ Len(MergedRecords(s)) \in Nat
    BY <2>2, MergedTypes
  <2>4. n <= Len(known) /\ FirstRows(s) = SubSeq(known, 1, n)
    <3>1. CASE Answered(s)
      <4>1. n <= Len(MergedRecords(s))
        BY <2>2, <2>3
      <4> QED BY <2>2, <3>1, <4>1
    <3>2. CASE ~ Answered(s)
      BY <2>2, <3>2
    <3> QED BY <3>1, <3>2
  <2>5. Len(received[s]) <= n /\ n <= Len(received[s]) + Size(s)
    <3>1. Len(received[s]) = 0
      BY <1>1
    <3> QED BY <2>2, <2>3, <3>1, SizeBound
  <2>6. \/ client'[s] = "fetching"
        \/ /\ client'[s] = "done" /\ Answered(s)
           /\ received'[s] = MergedRecords(s) /\ reported'[s] = MergedCount(s)
    BY <2>1, <2>2 DEF TypeOK
  <2> HIDE DEF n, known
  <2>7. received' = [received EXCEPT ![s] = SubSeq(known, 1, n)]
    BY <2>1, <2>4
  <2> QED BY <1>1, <2>3, <2>4, <2>5, <2>6, <2>7, PieceStep DEF known
<1> QED BY <1>2, <1>3

\* So is every chunk that is served afterwards.
LEMMA ServedStep ==
    ASSUME TypeOK, NEW s \in Submissions, SubmissionInv(s), FetchServed(s)
    PROVE  Service!Deliver(s) \/ Service!Finish(s)
<1> DEFINE rows == MergedRecords(s)
<1>1. /\ client[s] = "fetching" /\ futures' = futures
      /\ \A t \in Submissions \ {s} :
            client'[t] = client[t] /\ reported'[t] = reported[t]
      /\ client'[s] = IF IsLast(Rid(s), idx[s]) THEN "done" ELSE "fetching"
      /\ reported'[s] = chunk_cache[Rid(s)].count
      /\ received' = [received EXCEPT ![s] = received'[s]]
  BY DEF TypeOK, FetchServed, ServeChunk, handlerVars
<1>2. /\ Answered(s) /\ chunk_cache[Rid(s)].count = MergedCount(s)
      /\ IsLast(Rid(s), idx[s]) <=> idx[s] = Len(Chunks(s))
  BY ServedRows
<1>3. PICK n \in Nat :
        /\ Len(received[s]) <= n /\ n <= Len(received[s]) + Size(s)
        /\ n <= Len(rows) /\ received'[s] = SubSeq(rows, 1, n)
        /\ idx[s] = Len(Chunks(s)) => n = Len(rows)
  BY ServedRows
<1>4. SubSeq(rows, 1, Len(rows)) = rows
  BY MergedTypes, SubSeqFull
<1> HIDE DEF rows
<1>5. received' = [received EXCEPT ![s] = SubSeq(rows, 1, n)]
  BY <1>1, <1>3
<1>6. \/ client'[s] = "fetching"
      \/ /\ client'[s] = "done" /\ Answered(s)
         /\ received'[s] = rows /\ reported'[s] = MergedCount(s)
  BY <1>1, <1>2, <1>3, <1>4
<1>7. rows = IF Answered(s) THEN MergedRecords(s) ELSE Query[s].local
  BY <1>2 DEF rows
<1> QED BY <1>1, <1>3, <1>5, <1>6, <1>7, PieceStep DEF rows

\* Every step is a step of the service, or nobody sees it.
LEMMA ServiceNext ==
    TypeOK /\ DeliveryInv /\ [Next]_vars => [Service!Next]_Service!vars
<1> SUFFICES ASSUME TypeOK, DeliveryInv, [Next]_vars
             PROVE  Service!Next \/ UNCHANGED Service!vars
  OBVIOUS
<1>1. ASSUME NEW s \in Submissions,
             Service!Open(s) \/ Service!Answer(s) \/ Service!Deliver(s)
                \/ Service!Finish(s) \/ Service!Break(s)
      PROVE  Service!Next
  BY <1>1 DEF Service!Next
<1>2. ASSUME NEW s \in Submissions, Submit(s) PROVE Service!Next
  BY <1>1, <1>2, OpenStep
<1>3. ASSUME NEW s \in Submissions, NEW c \in Children, ChildReply(s, c) PROVE Service!Next
  BY <1>1, <1>3, AnswerStep
<1>4. ASSUME NEW s \in Submissions,
             \/ ClientStep(s) \/ FetchReplyLost(s)
             \/ SubmitFails(s) \/ FetchFails(s) \/ Abandon(s)
      PROVE  Service!Next \/ UNCHANGED Service!vars
  <2>0. SubmissionInv(s)
    BY DEF DeliveryInv
  <2>1. CASE ReceiveFirst(s)
    BY <1>1, <2>0, <2>1, FirstPieceStep
  <2>2. CASE FetchServed(s)
    BY <1>1, <2>0, <2>2, ServedStep
  <2>3. CASE FetchRefused(s) \/ SubmitFails(s) \/ FetchFails(s) \/ Abandon(s)
    <3>1. /\ client[s] \in {"start", "submitting", "fetching"}
          /\ client'[s] \in {"failed", "gone"} /\ futures' = futures
          /\ received' = received /\ reported' = reported
          /\ \A t \in Submissions \ {s} : client'[t] = client[t]
      BY <2>3 DEF TypeOK, FetchRefused, SubmitFails, FetchFails, Abandon, handlerVars
    <3> QED BY <1>1, <3>1, BreakStep
  <2>4. CASE FetchReplyLost(s)
    <3>1. /\ client[s] = "fetching" /\ futures' = futures
          /\ received' = received /\ reported' = reported
          /\ client' = client \/ client' = [client EXCEPT ![s] = "failed"]
      BY <2>4 DEF FetchReplyLost, ServeChunk, handlerVars
    <3>2. CASE client' = client
      <4>1. \A t \in Submissions :
                OkChildren(t)' = OkChildren(t) /\ Answered(t)' = Answered(t)
        BY <3>1, SameAnswer
      <4> QED BY <3>1, <3>2, <4>1, Unseen
    <3>3. CASE client' = [client EXCEPT ![s] = "failed"]
      <4>1. client'[s] = "failed" /\ \A t \in Submissions \ {s} : client'[t] = client[t]
        BY <3>3 DEF TypeOK
      <4> QED BY <1>1, <3>1, <4>1, BreakStep
    <3> QED BY <3>1, <3>2, <3>3
  <2> QED BY <1>4, <2>1, <2>2, <2>3, <2>4 DEF ClientStep
<1>5. CASE \/ \E s \in Submissions :
                 HandlerStep(s) \/ CollectorStep(s)
           \/ \E r \in Rids : CancelQuery(r)
           \/ Tick \/ EvictStale \/ UNCHANGED vars
  BY <1>5, InsideUnseen
<1> QED BY <1>2, <1>3, <1>4, <1>5 DEF Next

\* NodeServiceImpl with its threads, cache, queue, cancellations and eviction does
\* for its clients what QueryService says, and nothing else.
THEOREM ImplementationCorrect ==
    ASSUME DistinctRids
    PROVE  Spec => ImplementsQueryService
<1>1. Init => Service!Init
  BY ServiceInit
<1>2. TypeOK /\ DeliveryInv /\ [Next]_vars => [Service!Next]_Service!vars
  BY ServiceNext
<1> QED BY <1>1, <1>2, TypeCorrect, DeliveryAlways, PTL
        DEF Spec, ImplementsQueryService, Service!Spec
=============================================================================
