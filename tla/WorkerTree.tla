----------------------------- MODULE WorkerTree -----------------------------
(***************************************************************************)
(* The worker nodes (NodeService in python/server/node.py) below A.        *)
(*                                                                         *)
(* A call is one ForwardQuery together with the FetchForwardChunk requests *)
(* its caller sends afterwards.  Calls form a tree: the handler of a call  *)
(* makes the calls below it and waits for all of them.  Callers are        *)
(* threads of A (cpp/server/node_server.cpp) or of a worker, with the same *)
(* loop; handlers are threads of a gRPC server's pool; a node's handlers   *)
(* share _fwd_cache under _fwd_lock.                                       *)
(***************************************************************************)
EXTENDS Integers, Sequences, FiniteSets

CONSTANTS
    Calls,      \* the calls of this behaviour
    Top,        \* the caller of the calls A makes; no member of Calls
    Under,      \* the call whose handler makes a call, or Top
    Worker,     \* node ids
    Asked,      \* the node a call goes to
    Rids,       \* request ids
    Rid,        \* the request id of a call
    Record,     \* trip records
    Local,      \* what the node asked holds of the answer
    ChunkSize,  \* chunk_size
    PoolSize,   \* threads of a worker's gRPC server
    Faults      \* what may go wrong: "deadline", "drop"

ASSUME CallsAssumption ==
    /\ IsFiniteSet(Calls) /\ Top \notin Calls
    /\ Under \in [Calls -> Calls \cup {Top}]
    /\ Asked \in [Calls -> Worker]
    /\ Rid \in [Calls -> Rids]
    /\ \A c \in Calls : Under[c] # Top => Rid[c] = Rid[Under[c]]
    /\ Local \in [Calls -> Seq(Record)]
ASSUME SizesAssumption ==
    ChunkSize \in Nat \ {0} /\ PoolSize \in Nat \ {0} /\ Faults \subseteq {"deadline", "drop"}

VARIABLES
    call,       \* where the caller of each call is
    got,        \* all_records: the rows the caller has
    idx,        \* chunk_idx, the chunk it asks for next
    total,      \* total_chunks of the first answer
    handler,    \* where the ForwardQuery handler is
    merged,     \* its merged_records
    taken,      \* the calls below it whose futures it has taken
    fetch,      \* where the FetchForwardChunk handler is
    read,       \* the rows that handler found in the cache
    fwd_cache,  \* per node: request id -> rows
    excused     \* history: calls that met their deadline or were dropped

callerVars == <<call, got, idx, total>>
handlerVars == <<handler, merged, taken>>
fetchVars == <<fetch, read>>
vars == <<callerVars, handlerVars, fetchVars, fwd_cache, excused>>

Below(c) == {d \in Calls : Under[d] = c}

Least(a, b) == IF a <= b THEN a ELSE b

\* Mutant: a last, shorter chunk is not counted.
ChunkCount_Floor(rows) == IF Len(rows) < ChunkSize THEN 1 ELSE Len(rows) \div ChunkSize

\* max(1, ceil(len / chunk_size))
ChunkCount(rows) ==
    IF rows = <<>> THEN 1 ELSE (Len(rows) + ChunkSize - 1) \div ChunkSize

Chunk(rows, i) ==
    SubSeq(rows, i * ChunkSize + 1, Least((i + 1) * ChunkSize, Len(rows)))

Put(f, k, v) == [x \in DOMAIN f \cup {k} |-> IF x = k THEN v ELSE f[x]]
Pop(f, k) == [x \in DOMAIN f \ {k} |-> f[x]]

\* The threads of a node that are at work.
Busy(n) ==
    Cardinality({c \in Calls : Asked[c] = n /\ handler[c] = "gathering"})
    + Cardinality({c \in Calls : Asked[c] = n /\ fetch[c] = "reading"})

\* Mutant: one thread too many.
FreeThread_OffByOne(n) == Busy(n) <= PoolSize

FreeThread(n) == Busy(n) < PoolSize

\* The types, and no more threads at work than a node's pool has.
TypeOK ==
    /\ call \in [Calls -> {"none", "asked", "fetching", "ok", "failed"}]
    /\ got \in [Calls -> Seq(Record)]
    /\ idx \in [Calls -> Nat \ {0}]
    /\ total \in [Calls -> Nat]
    /\ handler \in [Calls -> {"none", "queued", "gathering", "done"}]
    /\ merged \in [Calls -> Seq(Record)]
    /\ taken \in [Calls -> SUBSET Calls]
    /\ fetch \in [Calls -> {"none", "queued", "reading"}]
    /\ read \in [Calls -> Seq(Record)]
    /\ DOMAIN fwd_cache = Worker
    /\ \A n \in Worker : DOMAIN fwd_cache[n] \subseteq Rids
    /\ \A n \in Worker : fwd_cache[n] \in [DOMAIN fwd_cache[n] -> Seq(Record)]
    /\ excused \subseteq Calls
    /\ \A n \in Worker : Busy(n) <= PoolSize

Init ==
    /\ call = [c \in Calls |-> "none"]
    /\ got = [c \in Calls |-> <<>>]
    /\ idx = [c \in Calls |-> 1]
    /\ total = [c \in Calls |-> 0]
    /\ handler = [c \in Calls |-> "none"]
    /\ merged = [c \in Calls |-> <<>>]
    /\ taken = [c \in Calls |-> {}]
    /\ fetch = [c \in Calls |-> "none"]
    /\ read = [c \in Calls |-> <<>>]
    /\ fwd_cache = [n \in Worker |-> [r \in {} |-> <<>>]]
    /\ excused = {}

-----------------------------------------------------------------------------
(* ForwardQuery.                                                           *)

\* A scatters, or a handler gives each call below it a thread of its own.
Ask(c) ==
    /\ call[c] = "none"
    /\ Under[c] # Top => handler[Under[c]] = "gathering"
    /\ call' = [call EXCEPT ![c] = "asked"]
    /\ handler' = [handler EXCEPT ![c] = "queued"]
    /\ UNCHANGED <<got, idx, total, merged, taken, fetchVars, fwd_cache, excused>>

\* A thread of the pool takes the request and runs the local query.
Receive(c) ==
    /\ handler[c] = "queued"
    /\ FreeThread(Asked[c])
    /\ handler' = [handler EXCEPT ![c] = "gathering"]
    /\ merged' = [merged EXCEPT ![c] = Local[c]]
    /\ UNCHANGED <<callerVars, taken, fetchVars, fwd_cache, excused>>

Contribution(d) == IF call[d] = "ok" THEN got[d] ELSE <<>>

\* as_completed yields the future of call d; a failed one gives nothing.
Collect(c, d) ==
    /\ handler[c] = "gathering"
    /\ d \in Below(c) \ taken[c]
    /\ call[d] \in {"ok", "failed"}
    /\ merged' = [merged EXCEPT ![c] = @ \o Contribution(d)]
    /\ taken' = [taken EXCEPT ![c] = @ \cup {d}]
    /\ UNCHANGED <<callerVars, handler, fetchVars, fwd_cache, excused>>

\* Mutant: only the calls that ended well are counted.
Gathered_AllOk(c) ==
    handler[c] = "gathering" /\ {d \in taken[c] : call[d] = "ok"} = Below(c)

Gathered(c) == handler[c] = "gathering" /\ taken[c] = Below(c)

\* The answer: rows beyond the first chunk stay in the cache, whether or not
\* anybody still waits for them.
Answer(c) ==
    LET chunks == ChunkCount(merged[c])
        n == Asked[c]
    IN  /\ Gathered(c)
        /\ handler' = [handler EXCEPT ![c] = "done"]
        /\ fwd_cache' = IF chunks > 1
                        THEN [fwd_cache EXCEPT ![n] = Put(@, Rid[c], merged[c])]
                        ELSE fwd_cache
        /\ IF call[c] = "asked"
           THEN /\ got' = [got EXCEPT ![c] = Chunk(merged[c], 0)]
                /\ total' = [total EXCEPT ![c] = chunks]
                /\ call' = [call EXCEPT ![c] = IF chunks <= 1 THEN "ok" ELSE "fetching"]
                /\ fetch' = [fetch EXCEPT ![c] = IF chunks <= 1 THEN "none" ELSE "queued"]
           ELSE UNCHANGED <<got, total, call, fetch>>
        /\ UNCHANGED <<idx, merged, taken, read, excused>>

\* fault_injection mode "drop": an error before anything is cached.
Drop(c) ==
    /\ "drop" \in Faults
    /\ Gathered(c)
    /\ handler' = [handler EXCEPT ![c] = "done"]
    /\ call' = [call EXCEPT ![c] = IF @ = "asked" THEN "failed" ELSE @]
    /\ excused' = excused \cup {c}
    /\ UNCHANGED <<got, idx, total, merged, taken, fetchVars, fwd_cache>>

-----------------------------------------------------------------------------
(* FetchForwardChunk: two critical sections of _fwd_lock.                  *)

\* The first one finds the rows; a miss is NOT_FOUND, which ends the call.
FetchRead(c) ==
    LET n == Asked[c]
    IN  /\ fetch[c] = "queued"
        /\ FreeThread(n)
        /\ IF Rid[c] \in DOMAIN fwd_cache[n]
           THEN /\ fetch' = [fetch EXCEPT ![c] = "reading"]
                /\ read' = [read EXCEPT ![c] = fwd_cache[n][Rid[c]]]
                /\ UNCHANGED call
           ELSE /\ fetch' = [fetch EXCEPT ![c] = "none"]
                /\ call' = [call EXCEPT ![c] = "failed"]
                /\ UNCHANGED read
        /\ UNCHANGED <<got, idx, total, handlerVars, fwd_cache, excused>>

IsLast(c) == idx[c] = ChunkCount(read[c]) - 1

\* Mutant: the entry goes with the chunk before the last.
Popped_Early(c) ==
    IF idx[c] >= ChunkCount(read[c]) - 2
    THEN [fwd_cache EXCEPT ![Asked[c]] = Pop(@, Rid[c])] ELSE fwd_cache

\* Mutant: the entry stays.
Popped_Never(c) == fwd_cache

\* The second one drops the entry with the last chunk.
Popped(c) ==
    IF IsLast(c) THEN [fwd_cache EXCEPT ![Asked[c]] = Pop(@, Rid[c])] ELSE fwd_cache

\* The chunk arrives at a caller that waits for it and asks for the next, unless
\* it was the last; an index past the end is NOT_FOUND.
FetchServe(c) ==
    LET beyond == idx[c] >= ChunkCount(read[c])
        end == IsLast(c) \/ idx[c] + 1 >= total[c]
    IN  /\ fetch[c] = "reading"
        /\ fwd_cache' = Popped(c)
        /\ IF call[c] # "fetching"
           THEN fetch' = [fetch EXCEPT ![c] = "none"] /\ UNCHANGED callerVars
           ELSE IF beyond
           THEN /\ fetch' = [fetch EXCEPT ![c] = "none"]
                /\ call' = [call EXCEPT ![c] = "failed"]
                /\ UNCHANGED <<got, idx, total>>
           ELSE /\ got' = [got EXCEPT ![c] = @ \o Chunk(read[c], idx[c])]
                /\ idx' = [idx EXCEPT ![c] = @ + 1]
                /\ call' = [call EXCEPT ![c] = IF end THEN "ok" ELSE @]
                /\ fetch' = [fetch EXCEPT ![c] = IF end THEN "none" ELSE "queued"]
                /\ UNCHANGED total
        /\ UNCHANGED <<handlerVars, read, excused>>

-----------------------------------------------------------------------------
(* Deadlines.                                                              *)

\* The caller gives up; the worker's handler goes on.
Timeout(c) ==
    /\ "deadline" \in Faults
    /\ call[c] \in {"asked", "fetching"}
    /\ call' = [call EXCEPT ![c] = "failed"]
    /\ excused' = excused \cup {c}
    /\ UNCHANGED <<got, idx, total, handlerVars, fetchVars, fwd_cache>>

\* A request whose caller gave up may be discarded before a thread takes it.
Discard(c) ==
    /\ call[c] = "failed"
    /\ \/ /\ handler[c] = "queued"
          /\ handler' = [handler EXCEPT ![c] = "done"]
          /\ UNCHANGED fetch
       \/ /\ fetch[c] = "queued"
          /\ fetch' = [fetch EXCEPT ![c] = "none"]
          /\ UNCHANGED handler
    /\ UNCHANGED <<callerVars, merged, taken, read, fwd_cache, excused>>

-----------------------------------------------------------------------------
(* The specification.                                                      *)

ThreadStep(c) ==
    \/ Receive(c) \/ Answer(c) \/ FetchRead(c) \/ FetchServe(c)
    \/ \E d \in Calls : Collect(c, d)

Next == \E c \in Calls :
    Ask(c) \/ ThreadStep(c) \/ Drop(c) \/ Timeout(c) \/ Discard(c)

Spec == Init /\ [][Next]_vars

\* Threads run, a handler's pool makes its calls, and a server's pool takes what
\* is queued.  Nothing makes A call, a deadline pass or an answer be dropped.
Fairness == \A c \in Calls :
    /\ WF_vars(ThreadStep(c))
    /\ Under[c] # Top => WF_vars(Ask(c))

FairSpec == Spec /\ Fairness

-----------------------------------------------------------------------------
(* Properties.  They are about calls that do not share a request id at a     *)
(* node, which is the key of its cache.                                    *)

DistinctKeys == \A c, d \in Calls : Asked[c] = Asked[d] /\ Rid[c] = Rid[d] => c = d

RowsOf(s) == {s[i] : i \in 1 .. Len(s)}
Once(s) == \A i, j \in 1 .. Len(s) : s[i] = s[j] => i = j

\* The nodes a query visits hold different records, and none finds one of its own
\* twice.  (Two queries may well find the same record.)
DistinctRows ==
    /\ \A c \in Calls : Once(Local[c])
    /\ \A c, d \in Calls : c # d /\ Rid[c] = Rid[d] =>
          RowsOf(Local[c]) \cap RowsOf(Local[d]) = {}

\* A call that ends well brings the node's own rows and those of the calls below
\* that ended well, each once, however they were cut into chunks and in whatever
\* order they came.
ExactRows ==
    \A c \in Calls : call[c] = "ok" =>
        /\ Once(got[c])
        /\ RowsOf(got[c]) = RowsOf(Local[c]) \cup
              UNION {RowsOf(got[d]) : d \in {b \in Below(c) : call[b] = "ok"}}

\* No call fails but by its own deadline or a dropped answer: what it fetches is
\* always still there, and failures below it do not spread.
OnlyFaultsFail == \A c \in Calls : call[c] = "failed" => c \in excused

\* Whatever a cache holds is the answer of a call that is still fetching it, or
\* that met its deadline.
HeldForCaller ==
    \A n \in Worker : \A r \in DOMAIN fwd_cache[n] :
        \E c \in Calls :
            /\ Asked[c] = n /\ Rid[c] = r
            /\ fwd_cache[n][r] = merged[c]
            /\ call[c] = "fetching" \/ c \in excused

\* No handler waits for ever: not for a thread of its node's pool, nor for the
\* calls below it, even when no deadline ever passes.
EveryCallEnds ==
    \A c \in Calls : call[c] \in {"asked", "fetching"} ~> call[c] \in {"ok", "failed"}
=============================================================================
