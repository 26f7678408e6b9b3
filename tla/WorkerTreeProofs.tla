-------------------------- MODULE WorkerTreeProofs --------------------------
(***************************************************************************)
(* Theorems about WorkerTree, for all trees of calls, rows, chunk and pool *)
(* sizes.                                                                  *)
(***************************************************************************)
EXTENDS WorkerTree, FiniteSetTheorems, TLAPS

-----------------------------------------------------------------------------
(* Chunks.                                                                 *)

\* i chunks of d rows do not reach the end of n rows exactly if i is less than the
\* number of chunks.
LEMMA CeilBounds ==
    ASSUME NEW n \in Nat \ {0}, NEW d \in Nat \ {0}
    PROVE  LET q == (n + d - 1) \div d
           IN  /\ q \in Nat \ {0}
               /\ n <= q * d
               /\ \A i \in Nat : i < q => i * d < n
  <1> DEFINE q == (n + d - 1) \div d
             r == (n + d - 1) % d
  <1>1. /\ q \in Int /\ r \in Int
        /\ n + d - 1 = d * q + r
        /\ 0 <= r /\ r < d
    OBVIOUS
  <1> HIDE DEF q, r
  <1>2. q * d \in Int /\ d * q = q * d
    BY <1>1
  <1>3. n <= q * d /\ q * d <= n + d - 1
    BY <1>1, <1>2
  <1>4. q \in Nat \ {0}
    <2>1. CASE q <= 0
      <3>1. q * d <= 0
        BY <1>1, <2>1
      <3>. QED BY <1>2, <1>3, <3>1
    <2>. QED BY <1>1, <2>1
  <1>5. ASSUME NEW i \in Nat, i < q
        PROVE  i * d < n
    <2>1. (i + 1) * d <= q * d
      BY <1>1, <1>5
    <2>2. (i + 1) * d = i * d + d /\ i * d \in Int
      OBVIOUS
    <2>3. (i + 1) * d \in Int
      OBVIOUS
    <2>. QED BY <1>2, <1>3, <2>1, <2>2, <2>3
  <1>. QED BY <1>3, <1>4, <1>5 DEF q

LEMMA CountProperties ==
    ASSUME NEW rows \in Seq(Record)
    PROVE  /\ ChunkCount(rows) \in Nat \ {0}
           /\ Len(rows) <= ChunkCount(rows) * ChunkSize
           /\ \A i \in Nat \ {0} : i < ChunkCount(rows) => i * ChunkSize < Len(rows)
  <1>1. ChunkSize \in Nat \ {0}
    BY SizesAssumption
  <1>2. CASE rows = <<>>
    BY <1>1, <1>2 DEF ChunkCount
  <1>3. CASE rows # <<>>
    <2>1. Len(rows) \in Nat \ {0}
      BY <1>3
    <2>2. ChunkCount(rows) = (Len(rows) + ChunkSize - 1) \div ChunkSize
      BY <1>3 DEF ChunkCount
    <2>. QED BY <1>1, <2>1, <2>2, CeilBounds
  <1>. QED BY <1>2, <1>3

\* The rows of the first i chunks.
FirstChunks(rows, i) == SubSeq(rows, 1, Least(i * ChunkSize, Len(rows)))

LEMMA ConcatSlices ==
    ASSUME NEW S, NEW q \in Seq(S), NEW a \in Nat, NEW b \in Nat, a <= b, b <= Len(q)
    PROVE  /\ SubSeq(q, 1, a) \in Seq(S) /\ SubSeq(q, a + 1, b) \in Seq(S)
           /\ SubSeq(q, 1, a) \o SubSeq(q, a + 1, b) = SubSeq(q, 1, b)
  <1>1. SubSeq(q, 1, a) \in Seq(S) /\ SubSeq(q, a + 1, b) \in Seq(S)
    OBVIOUS
  <1>. QED BY <1>1

LEMMA ChunkProperties ==
    ASSUME NEW rows \in Seq(Record), NEW i \in Nat
    PROVE  /\ Chunk(rows, i) \in Seq(Record)
           /\ FirstChunks(rows, i) \in Seq(Record)
           /\ Chunk(rows, 0) = FirstChunks(rows, 1)
           /\ i # 0 /\ i < ChunkCount(rows) =>
                 FirstChunks(rows, i) \o Chunk(rows, i) = FirstChunks(rows, i + 1)
           /\ i >= ChunkCount(rows) => FirstChunks(rows, i) = rows
  <1>1. ChunkSize \in Nat \ {0} /\ Len(rows) \in Nat
    BY SizesAssumption
  <1> DEFINE a == i * ChunkSize
             b == (i + 1) * ChunkSize
             c == ChunkCount(rows) * ChunkSize
  <1>2. a \in Nat /\ b \in Nat /\ c \in Nat /\ b = a + ChunkSize
    BY <1>1, CountProperties
  <1>3. i >= ChunkCount(rows) => a >= c
    BY <1>1, CountProperties
  <1>4. i # 0 /\ i < ChunkCount(rows) => a < Len(rows)
    BY <1>1, CountProperties
  <1>5. Len(rows) <= c
    BY CountProperties
  <1>6. Chunk(rows, i) = SubSeq(rows, a + 1, Least(b, Len(rows)))
    BY DEF Chunk
  <1>7. FirstChunks(rows, i) = SubSeq(rows, 1, Least(a, Len(rows)))
    BY DEF FirstChunks
  <1>8. FirstChunks(rows, i + 1) = SubSeq(rows, 1, Least(b, Len(rows)))
    BY DEF FirstChunks
  <1>9. Chunk(rows, 0) = FirstChunks(rows, 1)
    <2> DEFINE x == 0 * ChunkSize
               y == (0 + 1) * ChunkSize
               z == 1 * ChunkSize
    <2>1. x + 1 = 1 /\ y = z
      BY <1>1
    <2>2. Chunk(rows, 0) = SubSeq(rows, x + 1, Least(y, Len(rows)))
      BY DEF Chunk
    <2>3. FirstChunks(rows, 1) = SubSeq(rows, 1, Least(z, Len(rows)))
      BY DEF FirstChunks
    <2> HIDE DEF x, y, z
    <2>. QED BY <2>1, <2>2, <2>3
  <1> HIDE DEF a, b, c
  <1>10. Least(a, Len(rows)) \in Nat /\ Least(b, Len(rows)) \in Nat
    BY <1>1, <1>2 DEF Least
  <1>11. Chunk(rows, i) \in Seq(Record)
    <2>1. \A k \in a + 1 .. Least(b, Len(rows)) : rows[k] \in Record
      BY <1>1, <1>2 DEF Least
    <2>. QED BY <1>2, <1>6, <1>10, <2>1
  <1>12. FirstChunks(rows, i) \in Seq(Record)
    <2>1. \A k \in 1 .. Least(a, Len(rows)) : rows[k] \in Record
      BY <1>1, <1>2 DEF Least
    <2>. QED BY <1>7, <1>10, <2>1
  <1>13. ASSUME i # 0, i < ChunkCount(rows)
         PROVE  FirstChunks(rows, i) \o Chunk(rows, i) = FirstChunks(rows, i + 1)
    <2>1. a < Len(rows) /\ a <= Least(b, Len(rows)) /\ Least(b, Len(rows)) <= Len(rows)
      BY <1>1, <1>2, <1>4, <1>13 DEF Least
    <2>2. Least(a, Len(rows)) = a
      BY <1>2, <2>1 DEF Least
    <2>3. SubSeq(rows, 1, a) \o SubSeq(rows, a + 1, Least(b, Len(rows)))
            = SubSeq(rows, 1, Least(b, Len(rows)))
      BY <1>2, <1>10, <2>1, ConcatSlices
    <2>. QED BY <1>6, <1>7, <1>8, <2>2, <2>3
  <1>14. ASSUME i >= ChunkCount(rows)
         PROVE  FirstChunks(rows, i) = rows
    <2>1. Least(a, Len(rows)) = Len(rows)
      BY <1>1, <1>2, <1>3, <1>5, <1>14 DEF Least
    <2>. QED BY <1>7, <2>1
  <1>. QED BY <1>9, <1>11, <1>12, <1>13, <1>14

-----------------------------------------------------------------------------
(* Types.                                                                  *)

Gathering(n) == {c \in Calls : Asked[c] = n /\ handler[c] = "gathering"}
Reading(n) == {c \in Calls : Asked[c] = n /\ fetch[c] = "reading"}

LEMMA BusyIs ==
    ASSUME NEW n
    PROVE  /\ Busy(n) = Cardinality(Gathering(n)) + Cardinality(Reading(n))
           /\ Cardinality(Gathering(n)) \in Nat /\ Cardinality(Reading(n)) \in Nat
           /\ IsFiniteSet(Gathering(n)) /\ IsFiniteSet(Reading(n))
  <1>1. IsFiniteSet(Gathering(n)) /\ IsFiniteSet(Reading(n))
    BY CallsAssumption, FS_Subset DEF Gathering, Reading
  <1>. QED BY <1>1, FS_CardinalityType DEF Busy, Gathering, Reading

LEMMA Grows ==
    ASSUME NEW S, IsFiniteSet(S), NEW c, NEW T \in SUBSET (S \cup {c})
    PROVE  /\ IsFiniteSet(T) /\ Cardinality(T) \in Nat
           /\ Cardinality(T) <= Cardinality(S) + 1
           /\ c \notin T => Cardinality(T) <= Cardinality(S)
  <1>1. /\ IsFiniteSet(S \cup {c})
        /\ Cardinality(S) \in Nat /\ Cardinality(S \cup {c}) \in Nat
        /\ Cardinality(S \cup {c}) <= Cardinality(S) + 1
    BY FS_AddElement, FS_CardinalityType
  <1>2. /\ IsFiniteSet(T) /\ Cardinality(T) \in Nat
        /\ Cardinality(T) <= Cardinality(S \cup {c})
    BY <1>1, FS_Subset, FS_CardinalityType
  <1>3. c \notin T => T \in SUBSET S
    OBVIOUS
  <1>4. c \notin T => Cardinality(T) <= Cardinality(S)
    BY <1>3, FS_Subset
  <1>. QED BY <1>1, <1>2, <1>4

\* No step takes more threads of a pool than there are.
LEMMA PoolKept ==
    ASSUME TypeOK, Next, NEW n \in Worker
    PROVE  (Busy(n) <= PoolSize)'
  <1>1. /\ Busy(n) <= PoolSize
        /\ PoolSize \in Nat
        /\ Busy(n) = Cardinality(Gathering(n)) + Cardinality(Reading(n))
        /\ Busy(n)' = Cardinality(Gathering(n)') + Cardinality(Reading(n)')
        /\ IsFiniteSet(Gathering(n)) /\ IsFiniteSet(Reading(n))
        /\ Cardinality(Gathering(n)) \in Nat /\ Cardinality(Reading(n)) \in Nat
    <2>1. IsFiniteSet(Gathering(n)') /\ IsFiniteSet(Reading(n)')
      BY CallsAssumption, FS_Subset DEF Gathering, Reading
    <2>. QED BY BusyIs, SizesAssumption DEF TypeOK, Busy, Gathering, Reading
  <1>2. CASE \E c \in Calls : Receive(c)
    <2>1. PICK c \in Calls : Receive(c)
      BY <1>2
    <2>2. Reading(n)' = Reading(n) /\ Gathering(n)' \in SUBSET (Gathering(n) \cup {c})
      BY <2>1 DEF Receive, Reading, Gathering, fetchVars, TypeOK
    <2>3. CASE Asked[c] = n
      <3>1. Busy(n) < PoolSize
        BY <2>1, <2>3 DEF Receive, FreeThread
      <3>2. /\ Cardinality(Gathering(n)') \in Nat
            /\ Cardinality(Gathering(n)') <= Cardinality(Gathering(n)) + 1
        BY <1>1, <2>2, Grows
      <3>. QED BY <1>1, <2>2, <3>1, <3>2
    <2>4. CASE Asked[c] # n
      <3>1. c \notin Gathering(n)'
        BY <2>4 DEF Gathering
      <3>2. /\ Cardinality(Gathering(n)') \in Nat
            /\ Cardinality(Gathering(n)') <= Cardinality(Gathering(n))
        BY <1>1, <2>2, <3>1, Grows
      <3>. QED BY <1>1, <2>2, <3>2
    <2>. QED BY <2>3, <2>4
  <1>3. CASE \E c \in Calls : FetchRead(c)
    <2>1. PICK c \in Calls : FetchRead(c)
      BY <1>3
    <2>2. Gathering(n)' = Gathering(n) /\ Reading(n)' \in SUBSET (Reading(n) \cup {c})
      BY <2>1 DEF FetchRead, Reading, Gathering, handlerVars, TypeOK
    <2>3. CASE Asked[c] = n
      <3>1. Busy(n) < PoolSize
        BY <2>1, <2>3 DEF FetchRead, FreeThread
      <3>2. /\ Cardinality(Reading(n)') \in Nat
            /\ Cardinality(Reading(n)') <= Cardinality(Reading(n)) + 1
        BY <1>1, <2>2, Grows
      <3>. QED BY <1>1, <2>2, <3>1, <3>2
    <2>4. CASE Asked[c] # n
      <3>1. c \notin Reading(n)'
        BY <2>4 DEF Reading
      <3>2. /\ Cardinality(Reading(n)') \in Nat
            /\ Cardinality(Reading(n)') <= Cardinality(Reading(n))
        BY <1>1, <2>2, <3>1, Grows
      <3>. QED BY <1>1, <2>2, <3>2
    <2>. QED BY <2>3, <2>4
  <1>4. CASE ~ (\E c \in Calls : Receive(c) \/ FetchRead(c))
    <2>1. Gathering(n)' \in SUBSET Gathering(n) /\ Reading(n)' \in SUBSET Reading(n)
      <3>1. PICK c \in Calls : \/ Ask(c) \/ Answer(c) \/ FetchServe(c) \/ Drop(c)
                               \/ Timeout(c) \/ Discard(c)
                               \/ \E d \in Calls : Collect(c, d)
        BY <1>4 DEF Next, ThreadStep
      <3>2. CASE Ask(c)
        BY <3>2 DEF Ask, Gathering, Reading, fetchVars, TypeOK
      <3>3. CASE Answer(c)
        BY <3>3 DEF Answer, Gathering, Reading, TypeOK
      <3>4. CASE FetchServe(c)
        BY <3>4 DEF FetchServe, Gathering, Reading, handlerVars, TypeOK
      <3>5. CASE Drop(c) \/ Timeout(c) \/ Discard(c)
        BY <3>5 DEF Drop, Timeout, Discard, Gathering, Reading, handlerVars, fetchVars, TypeOK
      <3>6. CASE \E d \in Calls : Collect(c, d)
        BY <3>6 DEF Collect, Gathering, Reading, fetchVars, TypeOK
      <3>. QED BY <3>1, <3>2, <3>3, <3>4, <3>5, <3>6
    <2>2. /\ Cardinality(Gathering(n)') <= Cardinality(Gathering(n))
          /\ Cardinality(Reading(n)') <= Cardinality(Reading(n))
          /\ Cardinality(Gathering(n)') \in Nat /\ Cardinality(Reading(n)') \in Nat
      BY <1>1, <2>1, FS_Subset, FS_CardinalityType
    <2>. QED BY <1>1, <2>2
  <1>. QED BY <1>2, <1>3, <1>4

\* Everything TypeOK says but the last line.
Types ==
    /\ call \in [Calls -> {"none", "asked", "fetching", "ok", "failed"}]
    /\ got \in [Calls -> Seq(Record)]
    /\ idx \in [Calls -> Nat \ {0}]
    /\ total \in [Calls -> Nat]
    /\ handler \in [Calls -> {"none", "queued", "gathering", "done"}]
    /\ merged \in [Calls -> Seq(Record)]
    /\ taken \in [Calls -> SUBSET Calls]
    /\ fetch \in [Calls -> {"none", "queued", "reading"}]
    /\ read \in [Calls -> Seq(Record)]
    /\ DOMAIN fwd_cache = Worker
    /\ \A n \in Worker : DOMAIN fwd_cache[n] \subseteq Rids
    /\ \A n \in Worker : fwd_cache[n] \in [DOMAIN fwd_cache[n] -> Seq(Record)]
    /\ excused \subseteq Calls

\* What the cache of the node a call goes to looks like with and without its entry.
LEMMA CacheChanges ==
    ASSUME Types, NEW c \in Calls
    PROVE  LET f == fwd_cache[Asked[c]]
               put == Put(f, Rid[c], merged[c])
               pop == Pop(f, Rid[c])
           IN  /\ Asked[c] \in Worker /\ Rid[c] \in Rids
               /\ DOMAIN f \subseteq Rids /\ f \in [DOMAIN f -> Seq(Record)]
               /\ DOMAIN put = DOMAIN f \cup {Rid[c]} /\ DOMAIN put \subseteq Rids
               /\ put \in [DOMAIN put -> Seq(Record)]
               /\ put[Rid[c]] = merged[c]
               /\ \A x \in DOMAIN f \ {Rid[c]} : put[x] = f[x]
               /\ DOMAIN pop = DOMAIN f \ {Rid[c]} /\ DOMAIN pop \subseteq Rids
               /\ pop \in [DOMAIN pop -> Seq(Record)]
               /\ \A x \in DOMAIN f \ {Rid[c]} : pop[x] = f[x]
  <1> DEFINE f == fwd_cache[Asked[c]]
             k == Rid[c]
             v == merged[c]
  <1>1. Asked[c] \in Worker /\ k \in Rids
    BY CallsAssumption
  <1>2. DOMAIN f \subseteq Rids /\ f \in [DOMAIN f -> Seq(Record)] /\ v \in Seq(Record)
    BY <1>1 DEF Types
  <1> HIDE DEF f, k, v
  <1>3. /\ DOMAIN Put(f, k, v) = DOMAIN f \cup {k} /\ DOMAIN Put(f, k, v) \subseteq Rids
        /\ Put(f, k, v) \in [DOMAIN Put(f, k, v) -> Seq(Record)]
        /\ Put(f, k, v)[k] = v
        /\ \A x \in DOMAIN f \ {k} : Put(f, k, v)[x] = f[x]
        /\ DOMAIN Pop(f, k) = DOMAIN f \ {k} /\ DOMAIN Pop(f, k) \subseteq Rids
        /\ Pop(f, k) \in [DOMAIN Pop(f, k) -> Seq(Record)]
        /\ \A x \in DOMAIN f \ {k} : Pop(f, k)[x] = f[x]
    BY <1>1, <1>2 DEF Put, Pop
  <1>. QED BY <1>1, <1>2, <1>3 DEF f, k, v

LEMMA TypesStep ==
    ASSUME Types, Next
    PROVE  Types'
  <1> USE DEF Types
  <1>0. ASSUME NEW c \in Calls
        PROVE  /\ Asked[c] \in Worker /\ Rid[c] \in Rids
               /\ DOMAIN fwd_cache[Asked[c]] \subseteq Rids
               /\ fwd_cache[Asked[c]] \in [DOMAIN fwd_cache[Asked[c]] -> Seq(Record)]
    BY CacheChanges
  <1>1. ASSUME NEW c \in Calls, Ask(c)
        PROVE  Types'
    BY <1>1 DEF Ask, fetchVars
  <1>2. ASSUME NEW c \in Calls, Receive(c)
        PROVE  Types'
    BY <1>2, CallsAssumption DEF Receive, callerVars, fetchVars
  <1>3. ASSUME NEW c \in Calls, NEW d \in Calls, Collect(c, d)
        PROVE  Types'
    <2>1. Contribution(d) \in Seq(Record)
      BY DEF Contribution
    <2>2. merged[c] \o Contribution(d) \in Seq(Record)
      BY <2>1
    <2>. QED BY <1>3, <2>2 DEF Collect, callerVars, fetchVars
  <1>4. ASSUME NEW c \in Calls, Answer(c)
        PROVE  Types'
    <2>1. /\ Chunk(merged[c], 0) \in Seq(Record)
          /\ ChunkCount(merged[c]) \in Nat
      <3>1. merged[c] \in Seq(Record)
        OBVIOUS
      <3>. QED BY <3>1, ChunkProperties, CountProperties
    <2>2. /\ DOMAIN Put(fwd_cache[Asked[c]], Rid[c], merged[c]) \subseteq Rids
          /\ Put(fwd_cache[Asked[c]], Rid[c], merged[c])
               \in [DOMAIN Put(fwd_cache[Asked[c]], Rid[c], merged[c]) -> Seq(Record)]
      BY CacheChanges
    <2>3. /\ \A n \in Worker : DOMAIN fwd_cache'[n] \subseteq Rids
          /\ \A n \in Worker : fwd_cache'[n] \in [DOMAIN fwd_cache'[n] -> Seq(Record)]
          /\ DOMAIN fwd_cache' = Worker
      BY <1>0, <1>4, <2>2 DEF Answer
    <2>4. got' \in [Calls -> Seq(Record)]
      BY <1>4, <2>1 DEF Answer
    <2>7. total' \in [Calls -> Nat]
      BY <1>4, <2>1 DEF Answer
    <2>5. /\ handler' \in [Calls -> {"none", "queued", "gathering", "done"}]
          /\ fetch' \in [Calls -> {"none", "queued", "reading"}]
      BY <1>4 DEF Answer
    <2>6. call' \in [Calls -> {"none", "asked", "fetching", "ok", "failed"}]
      BY <1>4 DEF Answer
    <2>. QED BY <1>4, <2>3, <2>4, <2>5, <2>6, <2>7 DEF Answer
  <1>5. ASSUME NEW c \in Calls, Drop(c)
        PROVE  Types'
    BY <1>5 DEF Drop, fetchVars
  <1>6. ASSUME NEW c \in Calls, FetchRead(c)
        PROVE  Types'
    <2>1. Rid[c] \in DOMAIN fwd_cache[Asked[c]] =>
              fwd_cache[Asked[c]][Rid[c]] \in Seq(Record)
      BY CallsAssumption
    <2>. QED BY <1>6, <2>1 DEF FetchRead, handlerVars
  <1>7. ASSUME NEW c \in Calls, FetchServe(c)
        PROVE  Types'
    <2>1. /\ got[c] \o Chunk(read[c], idx[c]) \in Seq(Record)
          /\ idx[c] + 1 \in Nat \ {0}
      <3>1. read[c] \in Seq(Record) /\ idx[c] \in Nat /\ got[c] \in Seq(Record)
        OBVIOUS
      <3>2. Chunk(read[c], idx[c]) \in Seq(Record)
        BY <3>1, ChunkProperties
      <3>. QED BY <3>1, <3>2
    <2>2. /\ DOMAIN Pop(fwd_cache[Asked[c]], Rid[c]) \subseteq Rids
          /\ Pop(fwd_cache[Asked[c]], Rid[c])
               \in [DOMAIN Pop(fwd_cache[Asked[c]], Rid[c]) -> Seq(Record)]
      BY CacheChanges
    <2>3. /\ \A n \in Worker : DOMAIN fwd_cache'[n] \subseteq Rids
          /\ \A n \in Worker : fwd_cache'[n] \in [DOMAIN fwd_cache'[n] -> Seq(Record)]
          /\ DOMAIN fwd_cache' = Worker
      BY <1>0, <1>7, <2>2 DEF FetchServe, Popped
    <2>4. got' \in [Calls -> Seq(Record)]
      BY <1>7, <2>1 DEF FetchServe, callerVars
    <2>5. idx' \in [Calls -> Nat \ {0}]
      BY <1>7, <2>1 DEF FetchServe, callerVars
    <2>8. total' = total
      BY <1>7 DEF FetchServe, callerVars
    <2>6. fetch' \in [Calls -> {"none", "queued", "reading"}]
      BY <1>7 DEF FetchServe, callerVars
    <2>7. call' \in [Calls -> {"none", "asked", "fetching", "ok", "failed"}]
      BY <1>7 DEF FetchServe, callerVars
    <2>. QED BY <1>7, <2>3, <2>4, <2>5, <2>6, <2>7, <2>8 DEF FetchServe, handlerVars
  <1>8. ASSUME NEW c \in Calls, Timeout(c)
        PROVE  Types'
    BY <1>8 DEF Timeout, handlerVars, fetchVars
  <1>9. ASSUME NEW c \in Calls, Discard(c)
        PROVE  Types'
    BY <1>9 DEF Discard, callerVars
  <1>. QED BY <1>1, <1>2, <1>3, <1>4, <1>5, <1>6, <1>7, <1>8, <1>9 DEF Next, ThreadStep

LEMMA InitTypes == Init => TypeOK
  <1> SUFFICES ASSUME Init PROVE TypeOK
    OBVIOUS
  <1>1. Types
    BY DEF Init, Types
  <1>2. \A n \in Worker : Busy(n) = 0
    <2> TAKE n \in Worker
    <2>1. /\ {c \in Calls : Asked[c] = n /\ handler[c] = "gathering"} = {}
          /\ {c \in Calls : Asked[c] = n /\ fetch[c] = "reading"} = {}
      BY DEF Init
    <2>. QED BY <2>1, FS_EmptySet DEF Busy
  <1>. QED BY <1>1, <1>2, SizesAssumption DEF TypeOK, Types

LEMMA TypesKept == TypeOK /\ [Next]_vars => TypeOK'
  <1> SUFFICES ASSUME TypeOK, [Next]_vars PROVE TypeOK'
    OBVIOUS
  <1>1. CASE Next
    <2>1. Types'
      BY <1>1, TypesStep DEF TypeOK, Types
    <2>. QED BY <1>1, <2>1, PoolKept DEF TypeOK, Types
  <1>2. CASE UNCHANGED vars
    BY <1>2 DEF TypeOK, Busy, vars, callerVars, handlerVars, fetchVars
  <1>. QED BY <1>1, <1>2

\* Every variable keeps its type, and no pool has more threads at work than it has.
THEOREM TypeCorrect == Spec => []TypeOK
  BY InitTypes, TypesKept, PTL DEF Spec

-----------------------------------------------------------------------------
(* What a call, its handlers and its cache entry know of each other.       *)

InCache(c) == Rid[c] \in DOMAIN fwd_cache[Asked[c]]
Entry(c) == fwd_cache[Asked[c]][Rid[c]]

\* Before the first answer nothing has been fetched; a caller that fetches has the
\* first chunks of an answer that is still in the cache; a caller that is done has
\* all of it; and an entry outlives its caller's interest only by a deadline.
CallInv(c) ==
    /\ call[c] \in {"none", "asked"} => fetch[c] = "none" /\ idx[c] = 1
    /\ call[c] = "none" => handler[c] = "none"
    /\ call[c] = "asked" => handler[c] \in {"queued", "gathering"}
    /\ call[c] = "fetching" =>
          /\ handler[c] = "done" /\ fetch[c] # "none" /\ InCache(c)
          /\ total[c] = ChunkCount(merged[c]) /\ idx[c] < total[c]
          /\ got[c] = FirstChunks(merged[c], idx[c])
    /\ call[c] = "ok" => got[c] = merged[c] /\ handler[c] = "done" /\ fetch[c] = "none"
    /\ call[c] = "failed" => c \in excused
    /\ fetch[c] # "none" => handler[c] = "done"
    /\ fetch[c] = "reading" => read[c] = merged[c]
    /\ InCache(c) =>
          Entry(c) = merged[c] /\ handler[c] = "done" /\ (call[c] = "fetching" \/ c \in excused)

\* Every entry is that of some call.
Owned ==
    \A n \in Worker : \A r \in DOMAIN fwd_cache[n] :
        \E c \in Calls : Asked[c] = n /\ Rid[c] = r

WorkerInv == Types /\ Owned /\ \A c \in Calls : CallInv(c)

LEMMA InitWorker == Init => WorkerInv
  BY CallsAssumption DEF Init, WorkerInv, Types, Owned, CallInv, InCache

\* A step that touches neither a call nor its entry keeps what holds of it.
LEMMA Elsewhere ==
    ASSUME NEW c, CallInv(c),
           call'[c] = call[c], got'[c] = got[c], idx'[c] = idx[c], total'[c] = total[c],
           handler'[c] = handler[c], merged'[c] = merged[c],
           fetch'[c] = fetch[c], read'[c] = read[c],
           InCache(c)' <=> InCache(c), InCache(c) => Entry(c)' = Entry(c),
           c \in excused => c \in excused'
    PROVE  CallInv(c)'
  BY DEF CallInv, FirstChunks, ChunkCount

LEMMA AskKeeps ==
    ASSUME WorkerInv, NEW c \in Calls, Ask(c)
    PROVE  Owned' /\ \A d \in Calls : CallInv(d)'
  <1>1. Owned'
    BY DEF WorkerInv, Owned, Ask
  <1>2. ASSUME NEW d \in Calls, d # c
        PROVE  CallInv(d)'
    BY <1>2, Elsewhere DEF WorkerInv, Types, Ask, fetchVars, InCache, Entry
  <1>3. CallInv(c)'
    BY DEF WorkerInv, Types, Ask, fetchVars, CallInv, InCache, Entry
  <1>. QED BY <1>1, <1>2, <1>3

LEMMA ReceiveKeeps ==
    ASSUME WorkerInv, NEW c \in Calls, Receive(c)
    PROVE  Owned' /\ \A d \in Calls : CallInv(d)'
  <1>1. Owned'
    BY DEF WorkerInv, Owned, Receive
  <1>2. ASSUME NEW d \in Calls, d # c
        PROVE  CallInv(d)'
    BY <1>2, Elsewhere DEF WorkerInv, Types, Receive, callerVars, fetchVars, InCache, Entry
  <1>3. CallInv(c)'
    BY DEF WorkerInv, Types, Receive, callerVars, fetchVars, CallInv, InCache, Entry
  <1>. QED BY <1>1, <1>2, <1>3

LEMMA CollectKeeps ==
    ASSUME WorkerInv, NEW c \in Calls, NEW b \in Calls, Collect(c, b)
    PROVE  Owned' /\ \A d \in Calls : CallInv(d)'
  <1>1. Owned'
    BY DEF WorkerInv, Owned, Collect
  <1>2. ASSUME NEW d \in Calls, d # c
        PROVE  CallInv(d)'
    BY <1>2, Elsewhere DEF WorkerInv, Types, Collect, callerVars, fetchVars, InCache, Entry
  <1>3. CallInv(c)'
    BY DEF WorkerInv, Types, Collect, callerVars, fetchVars, CallInv, InCache, Entry
  <1>. QED BY <1>1, <1>2, <1>3

LEMMA DropKeeps ==
    ASSUME WorkerInv, NEW c \in Calls, Drop(c)
    PROVE  Owned' /\ \A d \in Calls : CallInv(d)'
  <1>1. Owned'
    BY DEF WorkerInv, Owned, Drop
  <1>2. ASSUME NEW d \in Calls, d # c
        PROVE  CallInv(d)'
    BY <1>2, Elsewhere DEF WorkerInv, Types, Drop, fetchVars, InCache, Entry
  <1>3. CallInv(c)'
    BY DEF WorkerInv, Types, Drop, Gathered, fetchVars, CallInv, InCache, Entry
  <1>. QED BY <1>1, <1>2, <1>3

LEMMA TimeoutKeeps ==
    ASSUME WorkerInv, NEW c \in Calls, Timeout(c)
    PROVE  Owned' /\ \A d \in Calls : CallInv(d)'
  <1>1. Owned'
    BY DEF WorkerInv, Owned, Timeout
  <1>2. ASSUME NEW d \in Calls, d # c
        PROVE  CallInv(d)'
    BY <1>2, Elsewhere DEF WorkerInv, Types, Timeout, handlerVars, fetchVars, InCache, Entry
  <1>3. CallInv(c)'
    BY DEF WorkerInv, Types, Timeout, handlerVars, fetchVars, CallInv, InCache, Entry
  <1>. QED BY <1>1, <1>2, <1>3

LEMMA DiscardKeeps ==
    ASSUME WorkerInv, NEW c \in Calls, Discard(c)
    PROVE  Owned' /\ \A d \in Calls : CallInv(d)'
  <1>1. Owned'
    BY DEF WorkerInv, Owned, Discard
  <1>2. ASSUME NEW d \in Calls, d # c
        PROVE  CallInv(d)'
    BY <1>2, Elsewhere DEF WorkerInv, Types, Discard, callerVars, InCache, Entry
  <1>3. CallInv(c)'
    BY DEF WorkerInv, Types, Discard, callerVars, CallInv, InCache, Entry
  <1>. QED BY <1>1, <1>2, <1>3

\* Two calls never share an entry, so what happens to one leaves the other's alone.
LEMMA OtherEntries ==
    ASSUME DistinctKeys, WorkerInv, NEW c \in Calls, NEW d \in Calls, d # c, NEW f,
           fwd_cache' = [fwd_cache EXCEPT ![Asked[c]] = f],
           DOMAIN f \ {Rid[c]} = DOMAIN fwd_cache[Asked[c]] \ {Rid[c]},
           \A x \in DOMAIN fwd_cache[Asked[c]] \ {Rid[c]} : f[x] = fwd_cache[Asked[c]][x]
    PROVE  (InCache(d)' <=> InCache(d)) /\ (InCache(d) => Entry(d)' = Entry(d))
  <1>1. Asked[c] \in Worker /\ Asked[d] \in Worker /\ DOMAIN fwd_cache = Worker
    BY CallsAssumption DEF WorkerInv, Types
  <1>2. CASE Asked[d] = Asked[c]
    <2>1. Rid[d] # Rid[c]
      BY <1>2 DEF DistinctKeys
    <2>. QED BY <1>1, <1>2, <2>1 DEF InCache, Entry
  <1>3. CASE Asked[d] # Asked[c]
    BY <1>1, <1>3 DEF InCache, Entry
  <1>. QED BY <1>2, <1>3

LEMMA AnswerKeeps ==
    ASSUME DistinctKeys, WorkerInv, NEW c \in Calls, Answer(c)
    PROVE  Owned' /\ \A d \in Calls : CallInv(d)'
  <1> DEFINE m == merged[c]
             put == Put(fwd_cache[Asked[c]], Rid[c], m)
  <1>1. /\ Types /\ CallInv(c)
        /\ Asked[c] \in Worker /\ DOMAIN fwd_cache = Worker
        /\ m \in Seq(Record)
        /\ handler[c] = "gathering"
        /\ call[c] \in {"asked", "failed"}
    BY CallsAssumption DEF WorkerInv, Types, CallInv, Answer, Gathered
  <1>2. /\ DOMAIN put = DOMAIN fwd_cache[Asked[c]] \cup {Rid[c]}
        /\ put[Rid[c]] = m
        /\ \A x \in DOMAIN fwd_cache[Asked[c]] \ {Rid[c]} : put[x] = fwd_cache[Asked[c]][x]
    BY <1>1, CacheChanges
  <1>3. /\ ChunkCount(m) \in Nat \ {0}
        /\ Chunk(m, 0) = FirstChunks(m, 1)
        /\ 1 >= ChunkCount(m) => FirstChunks(m, 1) = m
    BY <1>1, CountProperties, ChunkProperties
  <1> HIDE DEF put
  <1>4. CASE ChunkCount(m) > 1
    <2>1. fwd_cache' = [fwd_cache EXCEPT ![Asked[c]] = put]
      BY <1>4 DEF Answer, put
    <2>2. Owned'
      <3>1. fwd_cache'[Asked[c]] = put
            /\ \A n \in Worker : n # Asked[c] => fwd_cache'[n] = fwd_cache[n]
        BY <1>1, <2>1
      <3>. QED BY <1>2, <3>1 DEF WorkerInv, Owned
    <2>3. ASSUME NEW d \in Calls, d # c
          PROVE  CallInv(d)'
      <3>1. (InCache(d)' <=> InCache(d)) /\ (InCache(d) => Entry(d)' = Entry(d))
        BY <1>2, <2>1, <2>3, OtherEntries
      <3>. QED BY <2>3, <3>1, Elsewhere, ZenonT(40) DEF WorkerInv, Types, Answer
    <2>4. CallInv(c)'
      <3>1. InCache(c)' /\ Entry(c)' = m /\ merged'[c] = m
        BY <1>1, <1>2, <2>1 DEF InCache, Entry, Answer
      <3>2. handler'[c] = "done" /\ idx'[c] = idx[c] /\ read'[c] = read[c]
            /\ excused' = excused
        BY <1>1 DEF Answer, Types
      <3>3. CASE call[c] = "asked"
        <4>1. /\ call'[c] = "fetching" /\ fetch'[c] = "queued"
              /\ total'[c] = ChunkCount(m) /\ got'[c] = FirstChunks(m, 1)
          BY <1>1, <1>3, <1>4, <3>3 DEF Answer, Types
        <4>2. idx'[c] = 1
          BY <1>1, <3>2, <3>3 DEF CallInv
        <4>3. (got[c] = FirstChunks(merged[c], idx[c]))'
          BY <3>1, <4>1, <4>2 DEF FirstChunks
        <4>4. (total[c] = ChunkCount(merged[c]) /\ idx[c] < total[c])'
          BY <1>4, <3>1, <4>1, <4>2 DEF ChunkCount
        <4>. QED BY <3>1, <3>2, <4>1, <4>2, <4>3, <4>4 DEF CallInv
      <3>4. CASE call[c] = "failed"
        BY <1>1, <3>1, <3>2, <3>4 DEF Answer, CallInv
      <3>. QED BY <1>1, <3>3, <3>4
    <2>. QED BY <2>2, <2>3, <2>4
  <1>5. CASE ~ (ChunkCount(m) > 1)
    <2>1. fwd_cache' = fwd_cache
      BY <1>5 DEF Answer
    <2>2. Owned'
      BY <2>1 DEF WorkerInv, Owned
    <2>3. ASSUME NEW d \in Calls, d # c
          PROVE  CallInv(d)'
      BY <2>1, <2>3, Elsewhere, ZenonT(40) DEF WorkerInv, Types, Answer, InCache, Entry
    <2>4. CallInv(c)'
      <3>1. handler'[c] = "done" /\ idx'[c] = idx[c] /\ read'[c] = read[c]
            /\ excused' = excused /\ merged'[c] = m
            /\ ~ InCache(c) /\ ~ InCache(c)'
        BY <1>1, <2>1 DEF Answer, Types, CallInv, InCache
      <3>2. CASE call[c] = "asked"
        <4>1. ChunkCount(m) <= 1
          BY <1>3, <1>5
        <4>2. call'[c] = "ok" /\ fetch'[c] = "none" /\ got'[c] = m
          BY <1>1, <1>3, <3>2, <4>1 DEF Answer, Types
        <4>. QED BY <3>1, <4>2 DEF CallInv
      <3>3. CASE call[c] = "failed"
        BY <1>1, <3>1, <3>3 DEF Answer, CallInv
      <3>. QED BY <1>1, <3>2, <3>3
    <2>. QED BY <2>2, <2>3, <2>4
  <1>. QED BY <1>4, <1>5

LEMMA FetchReadKeeps ==
    ASSUME WorkerInv, NEW c \in Calls, FetchRead(c)
    PROVE  Owned' /\ \A d \in Calls : CallInv(d)'
  <1>1. Owned'
    BY DEF WorkerInv, Owned, FetchRead
  <1>2. ASSUME NEW d \in Calls, d # c
        PROVE  CallInv(d)'
    BY <1>2, Elsewhere DEF WorkerInv, Types, FetchRead, handlerVars, InCache, Entry
  <1>3. CallInv(c)'
    <2>1. /\ CallInv(c) /\ fetch[c] = "queued" /\ handler[c] = "done"
          /\ call[c] \in {"fetching", "failed"}
      BY DEF WorkerInv, Types, CallInv, FetchRead
    <2>2. /\ got' = got /\ idx' = idx /\ total' = total /\ handler' = handler
          /\ merged' = merged /\ fwd_cache' = fwd_cache /\ excused' = excused
      BY DEF FetchRead, handlerVars
    <2>3. CASE InCache(c)
      <3>1. call' = call /\ fetch'[c] = "reading" /\ read'[c] = merged[c]
        BY <2>1, <2>3 DEF FetchRead, WorkerInv, Types, CallInv, InCache, Entry
      <3>. QED BY <2>1, <2>2, <2>3, <3>1 DEF CallInv, InCache, Entry, FirstChunks, ChunkCount
    <2>4. CASE ~ InCache(c)
      <3>1. call[c] = "failed"
        BY <2>1, <2>4 DEF CallInv
      <3>2. call'[c] = "failed" /\ fetch'[c] = "none" /\ read' = read
        BY <2>4 DEF FetchRead, WorkerInv, Types, InCache
      <3>. QED BY <2>1, <2>2, <2>4, <3>1, <3>2 DEF CallInv, InCache, Entry
    <2>. QED BY <2>3, <2>4
  <1>. QED BY <1>1, <1>2, <1>3

LEMMA FetchServeKeeps ==
    ASSUME DistinctKeys, WorkerInv, NEW c \in Calls, FetchServe(c)
    PROVE  Owned' /\ \A d \in Calls : CallInv(d)'
  <1> DEFINE m == merged[c]
             q == ChunkCount(m)
             pop == Pop(fwd_cache[Asked[c]], Rid[c])
  <1>1. /\ Types /\ CallInv(c)
        /\ Asked[c] \in Worker /\ DOMAIN fwd_cache = Worker
        /\ m \in Seq(Record) /\ idx[c] \in Nat \ {0}
        /\ fetch[c] = "reading" /\ handler[c] = "done" /\ read[c] = m
        /\ call[c] \in {"fetching", "failed"}
    BY CallsAssumption DEF WorkerInv, Types, CallInv, FetchServe
  <1>2. /\ handler' = handler /\ merged' = merged /\ read' = read /\ excused' = excused
        /\ \A d \in Calls : d # c =>
              /\ call'[d] = call[d] /\ got'[d] = got[d] /\ idx'[d] = idx[d]
              /\ total'[d] = total[d] /\ fetch'[d] = fetch[d]
    BY <1>1 DEF FetchServe, handlerVars, callerVars, Types
  <1>3. /\ DOMAIN pop = DOMAIN fwd_cache[Asked[c]] \ {Rid[c]}
        /\ \A x \in DOMAIN fwd_cache[Asked[c]] \ {Rid[c]} : pop[x] = fwd_cache[Asked[c]][x]
    BY <1>1, CacheChanges
  <1>4. /\ q \in Nat \ {0}
        /\ idx[c] < q => FirstChunks(m, idx[c]) \o Chunk(m, idx[c]) = FirstChunks(m, idx[c] + 1)
        /\ idx[c] + 1 >= q => FirstChunks(m, idx[c] + 1) = m
    <2>1. idx[c] \in Nat /\ idx[c] + 1 \in Nat /\ idx[c] # 0
      BY <1>1
    <2>. QED BY <1>1, <2>1, CountProperties, ChunkProperties
  <1>5. fwd_cache' = IF idx[c] = q - 1 THEN [fwd_cache EXCEPT ![Asked[c]] = pop] ELSE fwd_cache
    BY <1>1 DEF FetchServe, Popped, IsLast
  <1> HIDE DEF pop, q
  <1>6. ASSUME NEW d \in Calls, d # c
        PROVE  CallInv(d)'
    <2>1. (InCache(d)' <=> InCache(d)) /\ (InCache(d) => Entry(d)' = Entry(d))
      <3>1. CASE idx[c] = q - 1
        BY <1>3, <1>5, <1>6, <3>1, OtherEntries
      <3>2. CASE idx[c] # q - 1
        BY <1>5, <3>2 DEF InCache, Entry
      <3>. QED BY <3>1, <3>2
    <2>. QED BY <1>2, <1>6, <2>1, Elsewhere DEF WorkerInv
  <1>7. \A n \in Worker : DOMAIN fwd_cache'[n] \subseteq DOMAIN fwd_cache[n]
    BY <1>1, <1>3, <1>5
  <1>8. Owned'
    BY <1>7 DEF WorkerInv, Owned
  <1>9. CASE call[c] = "failed"
    <2>1. call'[c] = "failed" /\ fetch'[c] = "none" /\ c \in excused
      BY <1>1, <1>9 DEF FetchServe, callerVars, Types, CallInv
    <2>2. InCache(c)' => InCache(c) /\ Entry(c)' = Entry(c)
      BY <1>1, <1>3, <1>5 DEF InCache, Entry
    <2>3. CallInv(c)'
      BY <1>1, <1>2, <2>1, <2>2 DEF CallInv
    <2>. QED BY <1>6, <1>8, <2>3
  <1>10. CASE call[c] = "fetching"
    <2>1. /\ total[c] = q /\ idx[c] < q /\ got[c] = FirstChunks(m, idx[c])
          /\ InCache(c) /\ Entry(c) = m
      BY <1>1, <1>10 DEF CallInv, q
    <2>2. ~ (idx[c] >= ChunkCount(read[c]))
      BY <1>1, <1>4, <2>1 DEF q
    <2>3. (IsLast(c) \/ idx[c] + 1 >= total[c]) <=> idx[c] = q - 1
      BY <1>1, <1>4, <2>1 DEF IsLast, q
    <2>4. /\ got'[c] = FirstChunks(m, idx[c] + 1)
          /\ idx'[c] = idx[c] + 1 /\ total'[c] = q
      <3>1. /\ got' = [got EXCEPT ![c] = @ \o Chunk(read[c], idx[c])]
            /\ idx' = [idx EXCEPT ![c] = @ + 1] /\ total' = total
        BY <1>1, <1>10, <2>2 DEF FetchServe
      <3>2. c \in DOMAIN got /\ c \in DOMAIN idx
        BY <1>1 DEF Types
      <3>3. got'[c] = got[c] \o Chunk(m, idx[c])
        BY <1>1, <3>1, <3>2
      <3>4. got'[c] = FirstChunks(m, idx[c] + 1)
        BY <1>4, <2>1, <3>3
      <3>5. idx'[c] = idx[c] + 1 /\ total'[c] = q
        BY <2>1, <3>1, <3>2
      <3>. QED BY <3>4, <3>5
    <2>5. CASE idx[c] = q - 1
      <3>1. call'[c] = "ok" /\ fetch'[c] = "none"
        BY <1>1, <1>10, <2>2, <2>3, <2>5 DEF FetchServe, Types
      <3>2. got'[c] = m
        BY <1>1, <1>4, <2>4, <2>5
      <3>3. ~ InCache(c)'
        BY <1>1, <1>3, <1>5, <2>5 DEF InCache
      <3>4. CallInv(c)'
        BY <1>1, <1>2, <3>1, <3>2, <3>3 DEF CallInv
      <3>. QED BY <1>6, <1>8, <3>4
    <2>6. CASE idx[c] # q - 1
      <3>1. call'[c] = "fetching" /\ fetch'[c] = "queued"
        BY <1>1, <1>10, <2>2, <2>3, <2>6 DEF FetchServe, Types
      <3>2. InCache(c)' /\ Entry(c)' = m
        BY <1>5, <2>1, <2>6 DEF InCache, Entry
      <3>3. idx'[c] < total'[c]
        BY <1>1, <1>4, <2>1, <2>4, <2>6
      <3>4. (got[c] = FirstChunks(merged[c], idx[c]))'
        BY <1>2, <2>4 DEF FirstChunks
      <3>5. (total[c] = ChunkCount(merged[c]))'
        BY <1>2, <2>4 DEF q, ChunkCount
      <3>6. CallInv(c)'
        BY <1>1, <1>2, <3>1, <3>2, <3>3, <3>4, <3>5 DEF CallInv
      <3>. QED BY <1>6, <1>8, <3>6
    <2>. QED BY <2>5, <2>6
  <1>. QED BY <1>1, <1>9, <1>10

LEMMA WorkerKept ==
    ASSUME DistinctKeys, WorkerInv, [Next]_vars
    PROVE  WorkerInv'
  <1>1. CASE Next
    <2>1. Types'
      BY <1>1, TypesStep DEF WorkerInv
    <2>2. Owned' /\ \A d \in Calls : CallInv(d)'
      <3>1. PICK c \in Calls : Ask(c) \/ ThreadStep(c) \/ Drop(c) \/ Timeout(c) \/ Discard(c)
        BY <1>1 DEF Next
      <3>. QED BY <3>1, AskKeeps, ReceiveKeeps, CollectKeeps, AnswerKeeps, DropKeeps,
                  FetchReadKeeps, FetchServeKeeps, TimeoutKeeps, DiscardKeeps
               DEF ThreadStep
    <2>. QED BY <2>1, <2>2 DEF WorkerInv
  <1>2. CASE UNCHANGED vars
    <2>1. Types' /\ Owned'
      BY <1>2 DEF WorkerInv, Types, Owned, vars, callerVars, handlerVars, fetchVars
    <2>2. ASSUME NEW d \in Calls PROVE CallInv(d)'
      BY <1>2, Elsewhere
         DEF WorkerInv, vars, callerVars, handlerVars, fetchVars, InCache, Entry
    <2>. QED BY <2>1, <2>2 DEF WorkerInv
  <1>. QED BY <1>1, <1>2

LEMMA WorkerInvariant == ASSUME DistinctKeys PROVE Spec => []WorkerInv
  <1>1. WorkerInv /\ [Next]_vars => WorkerInv'
    BY WorkerKept
  <1>. QED BY InitWorker, <1>1, PTL DEF Spec

\* Chunk by chunk a caller gets exactly the rows the handler merged, although other
\* handlers of the node, late ones included, share the cache.
Reassembled == \A c \in Calls : call[c] = "ok" => got[c] = merged[c]

THEOREM ReassemblyCorrect ==
    ASSUME DistinctKeys
    PROVE  Spec => []Reassembled
  <1>1. WorkerInv => Reassembled
    BY DEF WorkerInv, CallInv, Reassembled
  <1>. QED BY <1>1, WorkerInvariant, PTL

\* A call fails only by its own deadline or a dropped answer; what it fetches is
\* always still in the cache.
THEOREM FailureCorrect ==
    ASSUME DistinctKeys
    PROVE  Spec => []OnlyFaultsFail
  <1>1. WorkerInv => OnlyFaultsFail
    BY DEF WorkerInv, CallInv, OnlyFaultsFail
  <1>. QED BY <1>1, WorkerInvariant, PTL

\* A cache holds only answers being fetched, and those of calls that met their
\* deadline.
THEOREM HeldCorrect ==
    ASSUME DistinctKeys
    PROVE  Spec => []HeldForCaller
  <1>1. WorkerInv => HeldForCaller
    BY DEF WorkerInv, CallInv, InCache, Entry, Owned, HeldForCaller
  <1>. QED BY <1>1, WorkerInvariant, PTL

-----------------------------------------------------------------------------
(* Rows on their way up the tree.                                          *)

LEMMA RowsProperties ==
    ASSUME NEW a \in Seq(Record), NEW b \in Seq(Record)
    PROVE  /\ RowsOf(<<>>) = {} /\ Once(<<>>)
           /\ RowsOf(a \o b) = RowsOf(a) \cup RowsOf(b)
           /\ Once(a) /\ Once(b) /\ RowsOf(a) \cap RowsOf(b) = {} => Once(a \o b)
  <1> DEFINE s == a \o b
  <1>1. /\ Len(s) = Len(a) + Len(b) /\ Len(a) \in Nat /\ Len(b) \in Nat
        /\ \A i \in 1 .. Len(a) : i \in 1 .. Len(s) /\ s[i] = a[i]
        /\ \A i \in 1 .. Len(b) : Len(a) + i \in 1 .. Len(s) /\ s[Len(a) + i] = b[i]
    OBVIOUS
  <1>2. \A i \in 1 .. Len(s) : ~ (i \in 1 .. Len(a)) =>
            i - Len(a) \in 1 .. Len(b) /\ s[i] = b[i - Len(a)]
    BY <1>1
  <1> HIDE DEF s
  <1>3. RowsOf(s) \subseteq RowsOf(a) \cup RowsOf(b)
    BY <1>1, <1>2 DEF RowsOf
  <1>4. RowsOf(a) \cup RowsOf(b) \subseteq RowsOf(s)
    BY <1>1 DEF RowsOf
  <1>5. ASSUME Once(a), Once(b), RowsOf(a) \cap RowsOf(b) = {}
        PROVE  Once(s)
    <2> SUFFICES ASSUME NEW i \in 1 .. Len(s), NEW j \in 1 .. Len(s), s[i] = s[j]
                 PROVE  i = j
      BY DEF Once
    <2>1. \A k \in 1 .. Len(a), l \in 1 .. Len(b) : a[k] # b[l]
      BY <1>5 DEF RowsOf
    <2>2. CASE i \in 1 .. Len(a) /\ j \in 1 .. Len(a)
      BY <1>1, <1>5, <2>2 DEF Once
    <2>3. CASE i \notin 1 .. Len(a) /\ j \notin 1 .. Len(a)
      <3>1. i - Len(a) = j - Len(a)
        BY <1>2, <1>5, <2>3 DEF Once
      <3>. QED BY <1>1, <3>1
    <2>. QED BY <1>1, <1>2, <2>1, <2>2, <2>3, SMTT(30)
  <1>6. RowsOf(<<>>) = {} /\ Once(<<>>)
    BY DEF RowsOf, Once
  <1>. QED BY <1>3, <1>4, <1>5, <1>6 DEF s

\* A handler has taken finished calls of its own only, and merged their rows with
\* the node's; before it starts it has taken none, and it does not answer before it
\* has taken all.
TakenInv(c) ==
    /\ taken[c] \subseteq Below(c)
    /\ \A d \in taken[c] : call[d] \in {"ok", "failed"}
    /\ handler[c] \in {"none", "queued"} => taken[c] = {} /\ merged[c] = <<>>
    /\ handler[c] = "gathering" \/ call[c] \in {"fetching", "ok"} =>
          RowsOf(merged[c]) = RowsOf(Local[c]) \cup
              UNION {RowsOf(got[d]) : d \in {b \in taken[c] : call[b] = "ok"}}
    /\ call[c] \in {"fetching", "ok"} => taken[c] = Below(c)

\* The rows of a call are in its caller's answer.
Absorbed(c) == Under[c] # Top /\ c \in taken[Under[c]] /\ call[c] = "ok"

\* A row comes from a node of the same query that has started to work on it.
OriginInv(c) ==
    \A r \in RowsOf(merged[c]) : \E d \in Calls :
        Rid[d] = Rid[c] /\ handler[d] \notin {"none", "queued"} /\ r \in RowsOf(Local[d])

\* A record is in one place: two answers of a query share rows only if one of them
\* is part of its caller's.
ApartInv(c, d) ==
    c # d /\ Rid[c] = Rid[d] /\ ~ Absorbed(c) /\ ~ Absorbed(d) =>
        RowsOf(merged[c]) \cap RowsOf(merged[d]) = {}

RowsInv ==
    /\ \A c \in Calls : TakenInv(c) /\ OriginInv(c) /\ Once(merged[c])
    /\ \A c, d \in Calls : ApartInv(c, d)

LEMMA InitRows == Init => RowsInv
  <1> SUFFICES ASSUME Init PROVE RowsInv
    OBVIOUS
  <1>1. \A c \in Calls : merged[c] = <<>> /\ taken[c] = {} /\ call[c] = "none" /\ handler[c] = "none"
    BY DEF Init
  <1>2. RowsOf(<<>>) = {} /\ Once(<<>>)
    BY DEF RowsOf, Once
  <1>. QED BY <1>1, <1>2 DEF RowsInv, TakenInv, OriginInv, ApartInv

\* A call that has ended stays as it ended, and keeps its rows.
LEMMA EndsAreFinal ==
    ASSUME WorkerInv, Next, NEW d \in Calls, call[d] \in {"ok", "failed"}
    PROVE  call'[d] = call[d] /\ (call[d] = "ok" => got'[d] = got[d])
  <1>1. /\ call \in [Calls -> {"none", "asked", "fetching", "ok", "failed"}]
        /\ got \in [Calls -> Seq(Record)]
        /\ CallInv(d)
    BY DEF WorkerInv, Types
  <1>2. PICK c \in Calls : Ask(c) \/ ThreadStep(c) \/ Drop(c) \/ Timeout(c) \/ Discard(c)
    BY DEF Next
  <1>3. CASE Ask(c) \/ Receive(c) \/ Drop(c) \/ Timeout(c) \/ Discard(c)
    BY <1>1, <1>3 DEF Ask, Receive, Drop, Timeout, Discard, callerVars
  <1>4. CASE \E b \in Calls : Collect(c, b)
    BY <1>4 DEF Collect, callerVars
  <1>5. CASE Answer(c)
    BY <1>1, <1>5 DEF Answer
  <1>6. CASE FetchRead(c)
    BY <1>1, <1>6 DEF FetchRead, CallInv
  <1>7. CASE FetchServe(c)
    <2>1. c = d => call[c] # "fetching"
      OBVIOUS
    <2>2. c = d => UNCHANGED callerVars
      BY <1>7, <2>1 DEF FetchServe
    <2>3. c # d => call'[d] = call[d] /\ got'[d] = got[d]
      BY <1>1, <1>7 DEF FetchServe, callerVars
    <2>. QED BY <2>2, <2>3 DEF callerVars
  <1>. QED BY <1>2, <1>3, <1>4, <1>5, <1>6, <1>7 DEF ThreadStep

\* What a step that merges nothing does to handlers and their callers.
LEMMA OthersMoveOn ==
    ASSUME WorkerInv, NEW c \in Calls,
           \/ Ask(c) \/ Answer(c) \/ Drop(c) \/ FetchRead(c) \/ FetchServe(c)
           \/ Timeout(c) \/ Discard(c)
    PROVE  /\ UNCHANGED <<merged, taken>>
           /\ \A d \in Calls :
                 /\ handler'[d] = "gathering" => handler[d] = "gathering"
                 /\ handler'[d] \in {"none", "queued"} => handler[d] \in {"none", "queued"}
                 /\ handler[d] \notin {"none", "queued"} => handler'[d] \notin {"none", "queued"}
                 /\ call'[d] \in {"fetching", "ok"} =>
                       \/ call[d] \in {"fetching", "ok"}
                       \/ handler[d] = "gathering" /\ taken[d] = Below(d)
  <1>1. /\ call \in [Calls -> {"none", "asked", "fetching", "ok", "failed"}]
        /\ handler \in [Calls -> {"none", "queued", "gathering", "done"}]
        /\ CallInv(c)
    BY DEF WorkerInv, Types
  <1>2. CASE Ask(c)
    BY <1>1, <1>2 DEF Ask, CallInv
  <1>3. CASE Answer(c)
    BY <1>1, <1>3 DEF Answer, Gathered
  <1>4. CASE Drop(c)
    BY <1>1, <1>4 DEF Drop, Gathered
  <1>5. CASE FetchRead(c)
    BY <1>1, <1>5 DEF FetchRead, handlerVars
  <1>6. CASE FetchServe(c)
    <2>1. UNCHANGED <<handler, merged, taken>>
      BY <1>6 DEF FetchServe, handlerVars
    <2>2. \A d \in Calls : call'[d] = call[d] \/ (d = c /\ call[c] = "fetching")
      BY <1>1, <1>6 DEF FetchServe, callerVars
    <2>. QED BY <2>1, <2>2
  <1>7. CASE Timeout(c)
    BY <1>1, <1>7 DEF Timeout, handlerVars
  <1>8. CASE Discard(c)
    BY <1>1, <1>8 DEF Discard, callerVars
  <1>. QED BY <1>2, <1>3, <1>4, <1>5, <1>6, <1>7, <1>8

\* A call that is absorbed stays so.
LEMMA StaysAbsorbed ==
    ASSUME WorkerInv, Next, NEW d \in Calls, Absorbed(d),
           \A c \in Calls : taken[c] \subseteq taken'[c]
    PROVE  Absorbed(d)'
  <1>1. Under[d] \in Calls
    BY CallsAssumption DEF Absorbed
  <1>. QED BY <1>1, EndsAreFinal DEF Absorbed

LEMMA OthersKeepRows ==
    ASSUME WorkerInv, RowsInv, Next, NEW c \in Calls,
           \/ Ask(c) \/ Answer(c) \/ Drop(c) \/ FetchRead(c) \/ FetchServe(c)
           \/ Timeout(c) \/ Discard(c)
    PROVE  RowsInv'
  <1>1. UNCHANGED <<merged, taken>>
    BY OthersMoveOn
  <1>2. ASSUME NEW d \in Calls
        PROVE  /\ handler'[d] = "gathering" => handler[d] = "gathering"
               /\ handler'[d] \in {"none", "queued"} => handler[d] \in {"none", "queued"}
               /\ handler[d] \notin {"none", "queued"} => handler'[d] \notin {"none", "queued"}
               /\ call'[d] \in {"fetching", "ok"} =>
                     \/ call[d] \in {"fetching", "ok"}
                     \/ handler[d] = "gathering" /\ taken[d] = Below(d)
    BY OthersMoveOn
  <1>3. ASSUME NEW d \in Calls
        PROVE  TakenInv(d)'
    <2>1. TakenInv(d) /\ taken[d] \subseteq Calls /\ Below(d)' = Below(d)
      BY DEF RowsInv, TakenInv, Below
    <2>2. \A b \in taken[d] : call'[b] = call[b] /\ (call[b] = "ok" => got'[b] = got[b])
      BY <2>1, EndsAreFinal DEF TakenInv
    <2>3. UNION {RowsOf(got'[b]) : b \in {b \in taken'[d] : call'[b] = "ok"}}
            = UNION {RowsOf(got[b]) : b \in {b \in taken[d] : call[b] = "ok"}}
      BY <1>1, <2>2
    <2>4. (RowsOf(merged[d]) = RowsOf(Local[d]) \cup
              UNION {RowsOf(got[b]) : b \in {b \in taken[d] : call[b] = "ok"}})'
            <=> RowsOf(merged[d]) = RowsOf(Local[d]) \cup
              UNION {RowsOf(got[b]) : b \in {b \in taken[d] : call[b] = "ok"}}
      BY <1>1, <2>3
    <2> DEFINE exact == RowsOf(merged[d]) = RowsOf(Local[d]) \cup
              UNION {RowsOf(got[b]) : b \in {b \in taken[d] : call[b] = "ok"}}
    <2>5. exact' <=> exact
      BY <2>4
    <2>6. handler[d] = "gathering" \/ call[d] \in {"fetching", "ok"} => exact
      BY <2>1 DEF TakenInv
    <2> HIDE DEF exact
    <2>7. (handler[d] = "gathering" \/ call[d] \in {"fetching", "ok"})' => exact'
      BY <1>2, <2>5, <2>6
    <2>8. (handler[d] = "gathering" \/ call[d] \in {"fetching", "ok"})' =>
              (RowsOf(merged[d]) = RowsOf(Local[d]) \cup
                 UNION {RowsOf(got[b]) : b \in {b \in taken[d] : call[b] = "ok"}})'
      BY <2>7 DEF exact
    <2>9. /\ taken'[d] \subseteq Below(d)'
          /\ \A b \in taken'[d] : call'[b] \in {"ok", "failed"}
          /\ handler'[d] \in {"none", "queued"} => taken'[d] = {} /\ merged'[d] = <<>>
          /\ call'[d] \in {"fetching", "ok"} => taken'[d] = Below(d)'
      BY <1>1, <1>2, <2>1, <2>2 DEF TakenInv
    <2>. QED BY <2>8, <2>9 DEF TakenInv
  <1>4. ASSUME NEW d \in Calls
        PROVE  OriginInv(d)' /\ Once(merged[d])'
    BY <1>1, <1>2 DEF RowsInv, OriginInv, Once
  <1>5. ASSUME NEW d \in Calls, NEW e \in Calls
        PROVE  ApartInv(d, e)'
    <2>1. (Absorbed(d) => Absorbed(d)') /\ (Absorbed(e) => Absorbed(e)')
      BY <1>1, StaysAbsorbed
    <2>2. ApartInv(d, e)
      BY DEF RowsInv
    <2>. QED BY <1>1, <2>1, <2>2 DEF ApartInv
  <1>. QED BY <1>3, <1>4, <1>5 DEF RowsInv

LEMMA ReceiveKeepsRows ==
    ASSUME DistinctRows, WorkerInv, RowsInv, Next, NEW c \in Calls, Receive(c)
    PROVE  RowsInv'
  <1>1. /\ UNCHANGED <<call, got, taken>>
        /\ handler[c] = "queued" /\ handler'[c] = "gathering" /\ merged'[c] = Local[c]
        /\ \A d \in Calls : d # c => handler'[d] = handler[d] /\ merged'[d] = merged[d]
    BY DEF Receive, callerVars, WorkerInv, Types
  <1>2. taken[c] = {} /\ call[c] \notin {"fetching", "ok"}
    BY <1>1 DEF RowsInv, TakenInv, WorkerInv, CallInv
  <1>3. ASSUME NEW d \in Calls
        PROVE  TakenInv(d)'
    <2>1. TakenInv(d) /\ Below(d)' = Below(d)
      BY DEF RowsInv, Below
    <2>2. CASE d = c
      BY <1>1, <1>2, <2>1, <2>2 DEF TakenInv
    <2>3. CASE d # c
      BY <1>1, <2>1, <2>3 DEF TakenInv
    <2>. QED BY <2>2, <2>3
  <1>4. ASSUME NEW d \in Calls
        PROVE  OriginInv(d)'
    <2>1. CASE d = c
      BY <1>1, <2>1 DEF OriginInv
    <2>2. CASE d # c
      <3>1. OriginInv(d)
        BY DEF RowsInv
      <3>. QED BY <1>1, <2>2, <3>1 DEF OriginInv
    <2>. QED BY <2>1, <2>2
  <1>5. ASSUME NEW d \in Calls
        PROVE  Once(merged[d])'
    <2>1. Once(merged'[d])
      BY <1>1 DEF RowsInv, DistinctRows
    <2>. QED BY <2>1 DEF Once
  <1>6. \A d \in Calls : Absorbed(d)' <=> Absorbed(d)
    BY <1>1 DEF Absorbed
  <1>7. ASSUME NEW d \in Calls, d # c, Rid[d] = Rid[c]
        PROVE  RowsOf(merged[d]) \cap RowsOf(Local[c]) = {}
    <2> SUFFICES ASSUME NEW r \in RowsOf(merged[d]), r \in RowsOf(Local[c])
                 PROVE  FALSE
      OBVIOUS
    <2>1. PICK e \in Calls : Rid[e] = Rid[d] /\ handler[e] \notin {"none", "queued"}
                             /\ r \in RowsOf(Local[e])
      BY DEF RowsInv, OriginInv
    <2>2. e # c
      BY <1>1, <2>1
    <2>. QED BY <1>7, <2>1, <2>2 DEF DistinctRows
  <1>8. ASSUME NEW d \in Calls, NEW e \in Calls
        PROVE  ApartInv(d, e)'
    <2>1. ApartInv(d, e)
      BY DEF RowsInv
    <2>2. CASE d = c /\ e # c
      BY <1>1, <1>7, <2>2 DEF ApartInv
    <2>3. CASE d # c /\ e = c
      BY <1>1, <1>7, <2>3 DEF ApartInv
    <2>4. CASE d # c /\ e # c
      BY <1>1, <1>6, <2>1, <2>4 DEF ApartInv
    <2>. QED BY <2>2, <2>3, <2>4 DEF ApartInv
  <1>. QED BY <1>3, <1>4, <1>5, <1>8 DEF RowsInv

LEMMA CollectKeepsRows ==
    ASSUME WorkerInv, RowsInv, Next, NEW c \in Calls, NEW b \in Calls, Collect(c, b)
    PROVE  RowsInv'
  <1>1. /\ UNCHANGED <<call, got, handler>>
        /\ handler[c] = "gathering" /\ b \in Below(c) \ taken[c] /\ call[b] \in {"ok", "failed"}
        /\ merged'[c] = merged[c] \o Contribution(b)
        /\ taken'[c] = taken[c] \cup {b}
        /\ \A d \in Calls : d # c => taken'[d] = taken[d] /\ merged'[d] = merged[d]
    BY DEF Collect, callerVars, WorkerInv, Types
  <1>2. /\ merged[c] \in Seq(Record) /\ got[b] \in Seq(Record) /\ Contribution(b) \in Seq(Record)
        /\ c # Top
    BY CallsAssumption DEF WorkerInv, Types, Contribution
  <1>3. /\ Under[b] = c /\ Rid[b] = Rid[c]
        /\ call[b] = "ok" => got[b] = merged[b] /\ handler[b] = "done"
        /\ call[c] \notin {"fetching", "ok"}
        /\ call[b] = "ok" => b # c
    BY <1>1, <1>2, CallsAssumption DEF Below, WorkerInv, CallInv
  <1>4. ~ Absorbed(c) /\ ~ Absorbed(b)
    BY <1>1, <1>3 DEF Absorbed
  <1>5. \A d \in Calls : Absorbed(d) => Absorbed(d)'
    <2>1. \A d \in Calls : taken[d] \subseteq taken'[d]
      BY <1>1
    <2>. QED BY <2>1, StaysAbsorbed
  <1>6. call[b] = "ok" => Absorbed(b)'
    BY <1>1, <1>2, <1>3 DEF Absorbed
  <1>7. /\ RowsOf(merged'[c]) = RowsOf(merged[c]) \cup RowsOf(Contribution(b))
        /\ RowsOf(Contribution(b)) = IF call[b] = "ok" THEN RowsOf(merged[b]) ELSE {}
    <2>1. RowsOf(<<>>) = {}
      BY DEF RowsOf
    <2>2. RowsOf(merged[c] \o Contribution(b)) = RowsOf(merged[c]) \cup RowsOf(Contribution(b))
      BY ONLY <1>2, RowsProperties
    <2>. QED BY <1>1, <1>3, <2>1, <2>2 DEF Contribution
  <1>8. ASSUME NEW d \in Calls
        PROVE  TakenInv(d)'
    <2>1. TakenInv(d) /\ Below(d)' = Below(d)
      BY DEF RowsInv, Below
    <2>2. CASE d = c
      <3>1. UNION {RowsOf(got[e]) : e \in {e \in taken[c] \cup {b} : call[e] = "ok"}}
              = (UNION {RowsOf(got[e]) : e \in {e \in taken[c] : call[e] = "ok"}})
                  \cup (IF call[b] = "ok" THEN RowsOf(got[b]) ELSE {})
        <4>1. {e \in taken[c] \cup {b} : call[e] = "ok"}
                = {e \in taken[c] : call[e] = "ok"} \cup (IF call[b] = "ok" THEN {b} ELSE {})
          OBVIOUS
        <4>. QED BY <4>1
      <3>2. RowsOf(merged[c]) = RowsOf(Local[c]) \cup
              UNION {RowsOf(got[e]) : e \in {e \in taken[c] : call[e] = "ok"}}
        BY <1>1, <2>1, <2>2 DEF TakenInv
      <3>3. RowsOf(merged'[c]) = RowsOf(Local[c]) \cup
              UNION {RowsOf(got[e]) : e \in {e \in taken[c] \cup {b} : call[e] = "ok"}}
        BY <1>3, <1>7, <3>1, <3>2
      <3>4. (RowsOf(merged[c]) = RowsOf(Local[c]) \cup
              UNION {RowsOf(got[e]) : e \in {e \in taken[c] : call[e] = "ok"}})'
        BY <1>1, <3>3
      <3>5. TakenInv(c) /\ Below(c)' = Below(c)
        BY <2>1, <2>2
      <3>6. /\ taken'[c] \subseteq Below(c)'
            /\ \A e \in taken'[c] : call'[e] \in {"ok", "failed"}
            /\ handler'[c] \notin {"none", "queued"} /\ call'[c] \notin {"fetching", "ok"}
        BY <1>1, <1>3, <3>5 DEF TakenInv
      <3>7. TakenInv(c)'
        BY <3>4, <3>6 DEF TakenInv
      <3>. QED BY <2>2, <3>7
    <2>3. CASE d # c
      BY <1>1, <2>1, <2>3 DEF TakenInv
    <2>. QED BY <2>2, <2>3
  <1>9. ASSUME NEW d \in Calls
        PROVE  OriginInv(d)'
    <2>1. OriginInv(b) /\ OriginInv(d)
      BY DEF RowsInv
    <2>2. CASE d = c
      <3>1. \A r \in RowsOf(merged'[c]) : r \in RowsOf(merged[c]) \/ r \in RowsOf(merged[b])
        BY <1>7
      <3>. QED BY <1>1, <1>3, <2>1, <2>2, <3>1 DEF OriginInv
    <2>3. CASE d # c
      BY <1>1, <2>1, <2>3 DEF OriginInv
    <2>. QED BY <2>2, <2>3
  <1>10. ASSUME NEW d \in Calls
         PROVE  Once(merged[d])'
    <2>1. Once(merged[d]) /\ Once(merged[b])
      BY DEF RowsInv
    <2>2. CASE d = c
      <3>1. Once(Contribution(b))
        BY <1>3, <2>1 DEF Contribution, Once
      <3>2. RowsOf(merged[c]) \cap RowsOf(Contribution(b)) = {}
        BY <1>3, <1>4, <1>7 DEF RowsInv, ApartInv
      <3>3. Once(merged[c])
        BY <2>1, <2>2
      <3>4. Once(merged[c] \o Contribution(b))
        BY ONLY <1>2, <3>1, <3>2, <3>3, RowsProperties
      <3>5. Once(merged'[c])
        BY <1>1, <3>4
      <3>. QED BY <2>2, <3>5 DEF Once
    <2>3. CASE d # c
      BY <1>1, <2>1, <2>3 DEF Once
    <2>. QED BY <2>2, <2>3
  <1>11. ASSUME NEW d \in Calls, d # c, Rid[d] = Rid[c], ~ Absorbed(d)'
         PROVE  RowsOf(merged[d]) \cap RowsOf(merged'[c]) = {}
    <2>1. ~ Absorbed(d) /\ (call[b] = "ok" => d # b)
      BY <1>5, <1>6, <1>11
    <2>2. RowsOf(merged[d]) \cap RowsOf(merged[c]) = {}
      BY <1>4, <1>11, <2>1 DEF RowsInv, ApartInv
    <2>3. call[b] = "ok" => RowsOf(merged[d]) \cap RowsOf(merged[b]) = {}
      BY <1>3, <1>4, <1>11, <2>1 DEF RowsInv, ApartInv
    <2>. QED BY <1>7, <2>2, <2>3
  <1>12. ASSUME NEW d \in Calls, NEW e \in Calls
         PROVE  ApartInv(d, e)'
    <2>1. ApartInv(d, e)
      BY DEF RowsInv
    <2>2. CASE d = c /\ e # c
      BY <1>1, <1>11, <2>2 DEF ApartInv
    <2>3. CASE d # c /\ e = c
      BY <1>1, <1>11, <2>3 DEF ApartInv
    <2>4. CASE d # c /\ e # c
      BY <1>1, <1>5, <2>1, <2>4 DEF ApartInv
    <2>. QED BY <2>2, <2>3, <2>4 DEF ApartInv
  <1>. QED BY <1>8, <1>9, <1>10, <1>12 DEF RowsInv

LEMMA RowsKept ==
    ASSUME DistinctRows, WorkerInv, RowsInv, [Next]_vars
    PROVE  RowsInv'
  <1>1. CASE Next
    <2>1. PICK c \in Calls : Ask(c) \/ ThreadStep(c) \/ Drop(c) \/ Timeout(c) \/ Discard(c)
      BY <1>1 DEF Next
    <2>. QED BY <1>1, <2>1, OthersKeepRows, ReceiveKeepsRows, CollectKeepsRows DEF ThreadStep
  <1>2. CASE UNCHANGED vars
    <2>1. UNCHANGED <<call, got, handler, merged, taken>>
      BY <1>2 DEF vars, callerVars, handlerVars
    <2>2. ASSUME NEW c \in Calls
          PROVE  (TakenInv(c) /\ OriginInv(c) /\ Once(merged[c]))'
      <3>1. TakenInv(c) /\ OriginInv(c) /\ Once(merged[c])
        BY DEF RowsInv
      <3>2. TakenInv(c)'
        BY <2>1, <3>1 DEF TakenInv, Below
      <3>3. OriginInv(c)'
        BY <2>1, <3>1 DEF OriginInv
      <3>. QED BY <2>1, <3>1, <3>2, <3>3 DEF Once
    <2>3. ASSUME NEW c \in Calls, NEW d \in Calls
          PROVE  ApartInv(c, d)'
      BY <2>1 DEF RowsInv, ApartInv, Absorbed
    <2>. QED BY <2>2, <2>3 DEF RowsInv
  <1>. QED BY <1>1, <1>2

\* A call that ends well brings the rows of its whole part of the tree, but for the
\* calls that failed, and each row once: for every tree, every cut into chunks and
\* every order in which the answers come.
THEOREM RowsCorrect ==
    ASSUME DistinctKeys, DistinctRows
    PROVE  Spec => []ExactRows
  <1>1. WorkerInv /\ RowsInv => ExactRows
    BY DEF WorkerInv, CallInv, RowsInv, TakenInv, ExactRows
  <1>2. WorkerInv /\ RowsInv /\ [Next]_vars => RowsInv'
    BY RowsKept
  <1>. QED BY <1>1, <1>2, InitRows, WorkerInvariant, PTL DEF Spec
=============================================================================
