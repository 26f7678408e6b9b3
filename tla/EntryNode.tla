------------------------------ MODULE EntryNode ------------------------------
(***************************************************************************)
(* The entry node A (NodeServiceImpl in cpp/server/node_server.cpp) and     *)
(* the clients that talk to it (cpp/client/client.cpp).                     *)
(*                                                                          *)
(* One gRPC handler thread runs each SubmitQuery, one std::async thread     *)
(* each child call, one detached thread collects the children of a          *)
(* streamed query, and one thread evicts idle cache entries.  They share    *)
(* the chunk cache, the fairness queue, the cancellation tables and the     *)
(* admission counter under state_mutex_; an action below is one critical    *)
(* section of that mutex, or one stretch of code that runs outside it.      *)
(***************************************************************************)
EXTENDS Integers, Sequences, FiniteSets

CONSTANTS
    Submissions,    \* the SubmitQuery calls of this behaviour
    Rids,           \* request ids, chosen by the client (--request-id) or made up
    Children,       \* replica targets with a stub: one future each
    Record,         \* trip records
    Query,          \* what each submission asks for, and what its parts answer
    MaxConcurrent,  \* max_concurrent_
    ChunkSizes,     \* the values dynamic_chunk_size_ may be tuned to
    ChunkTimeout,   \* chunk_timeout_seconds_, in ticks
    Timing,         \* how the clock may run against the clients, see Tick
    Faults          \* what may go wrong: "cancel", "abandon", "child", "loss", "call"

\* Query[s]: rid, whether query_type is supported and "aggregate", the rows and
\* the count of A's own partition, and what collect_child_merge_result makes of
\* the answers of each set of children that answered.
QueryType ==
    [ rid : Rids, supported : BOOLEAN, aggregate : BOOLEAN,
      local : Seq(Record), local_count : Nat,
      merged : [SUBSET Children -> Seq(Record)],
      merged_count : [SUBSET Children -> Nat] ]

ASSUME SubmissionsAssumption == IsFiniteSet(Submissions)
ASSUME QueryAssumption == Query \in [Submissions -> QueryType]
\* A query that does not aggregate counts its rows, and nobody answering adds
\* nothing (execute_local_query, collect_child_merge_result).
ASSUME AnswerAssumption ==
    \A s \in Submissions :
        /\ Query[s].merged[{}] = <<>> /\ Query[s].merged_count[{}] = 0
        /\ Query[s].aggregate \/ Query[s].local_count = Len(Query[s].local)
ASSUME ConfigAssumption ==
    /\ MaxConcurrent \in Nat \ {0}
    /\ ChunkSizes \subseteq Nat \ {0}    \* clamped from above and below
    /\ \E most \in ChunkSizes : \A size \in ChunkSizes : size <= most
    /\ ChunkTimeout \in Nat \ {0}
    /\ Timing \in {"frozen", "any"}
    /\ Faults \subseteq {"cancel", "abandon", "child", "loss", "call"}

VARIABLES
    stream_up,            \* runtime_.stream_up, fixed when the node starts
    active_submit_count,  \* SubmitQuery handlers holding a slot
    active_cancel,        \* request id -> the submission owning the cancel flag
    cancel_flag,          \* the shared atomic<bool> of each submission
    canceled_ids,         \* request ids cancelled or evicted
    chunk_cache,          \* request id -> Entry
    fairness_queue,       \* request ids, the front is served
    dynamic_chunk_size,
    pc,                   \* where each SubmitQuery handler is
    futures,              \* the child calls of each submission
    bg,                   \* the detached collector of each streamed submission
    response,             \* the ChunkResponse of each SubmitQuery
    client,               \* where the client of each submission is
    idx,                  \* the chunk index it asks for next
    received,             \* the rows it has printed so far
    reported,             \* aggregation_count of the last response it got
    disturbed             \* history: ids cancelled, evicted or with a call cut off

serverVars == <<stream_up, active_submit_count, active_cancel, cancel_flag,
                canceled_ids, chunk_cache, fairness_queue, dynamic_chunk_size>>
handlerVars == <<pc, futures, bg, response>>
clientVars == <<client, idx, received, reported>>
vars == <<serverVars, handlerVars, clientVars, disturbed>>

Rid(s) == Query[s].rid

-----------------------------------------------------------------------------
(* Chunks, maps and the queue.                                             *)

Least(a, b) == IF a <= b THEN a ELSE b

CeilDiv(n, d) == (n + d - 1) \div d

\* The rows [pos * size, (pos + 1) * size) of recs.
Slice(recs, pos, size) ==
    SubSeq(recs, pos * size + 1, Least((pos + 1) * size, Len(recs)))

\* recs cut into chunks of size rows, the last one possibly shorter.
ChunkViews(recs, size) ==
    [n \in 1 .. CeilDiv(Len(recs), size) |-> Slice(recs, n - 1, size)]

\* Mutant: the first chunk is kept with the others.
AfterFirst_Whole(recs, size) == recs

\* The rows beyond the first chunk.
AfterFirst(recs, size) == SubSeq(recs, Least(size, Len(recs)) + 1, Len(recs))

Put(f, k, v) == [x \in DOMAIN f \cup {k} |-> IF x = k THEN v ELSE f[x]]
Erase(f, K) == [x \in DOMAIN f \ K |-> f[x]]

\* Mutant: a request leaves the cache and stays in the queue.
Without_KeepsAll(q, R) == q

\* q without the elements of R (std::remove, then erase).
Without(q, R) ==
    LET kept == {i \in 1 .. Len(q) : q[i] \notin R}
        nth(n) == CHOOSE k \in kept : Cardinality({j \in kept : j <= k}) = n
    IN  [n \in 1 .. Cardinality(kept) |-> q[nth(n)]]

Members(q) == {q[i] : i \in 1 .. Len(q)}

-----------------------------------------------------------------------------
(* Types.                                                                  *)

Entry ==
    [ finalized : BOOLEAN,
      total_chunks : Nat,
      records_per_chunk : ChunkSizes,
      count : Nat,
      stream : Seq(Record),          \* stream_records_after_first
      chunks : Seq(Seq(Record)),     \* chunks_after_first
      age : 0 .. ChunkTimeout ]      \* now - last_access

Response ==
    [ status : {"none", "ok", "cancelled", "invalid"},
      records : Seq(Record), is_last : BOOLEAN, count : Nat,
      size : ChunkSizes ]

NoResponse ==
    [ status |-> "none", records |-> <<>>, is_last |-> FALSE, count |-> 0,
      size |-> CHOOSE n \in ChunkSizes : TRUE ]

Handler == {"idle", "waiting", "admitted", "registered", "scattered",
            "cancelled", "insert", "unregister", "returning", "returned"}

\* The handlers that hold one of the MaxConcurrent slots.
Holding == Handler \ {"idle", "waiting", "returned"}

TypeOK ==
    /\ stream_up \in BOOLEAN
    /\ active_submit_count \in Nat
    /\ DOMAIN active_cancel \subseteq Rids
    /\ active_cancel \in [DOMAIN active_cancel -> Submissions]
    /\ cancel_flag \in [Submissions -> BOOLEAN]
    /\ canceled_ids \subseteq Rids
    /\ DOMAIN chunk_cache \subseteq Rids
    /\ chunk_cache \in [DOMAIN chunk_cache -> Entry]
    /\ fairness_queue \in Seq(Rids)
    /\ dynamic_chunk_size \in ChunkSizes
    /\ pc \in [Submissions -> Handler]
    /\ futures \in [Submissions ->
                        [Children -> {"unsent", "pending", "ok", "failed"}]]
    /\ bg \in [Submissions -> {"none", "collecting", "merging", "done"}]
    /\ response \in [Submissions -> Response]
    /\ client \in [Submissions ->
                     {"start", "submitting", "fetching", "done", "failed", "gone"}]
    /\ idx \in [Submissions -> Nat \ {0}]
    /\ received \in [Submissions -> Seq(Record)]
    /\ reported \in [Submissions -> Nat]
    /\ disturbed \subseteq Rids

Init ==
    /\ stream_up \in BOOLEAN
    /\ active_submit_count = 0
    /\ active_cancel = [r \in {} |-> {}]
    /\ cancel_flag = [s \in Submissions |-> FALSE]
    /\ canceled_ids = {}
    /\ chunk_cache = [r \in {} |-> {}]
    /\ fairness_queue = <<>>
    /\ dynamic_chunk_size \in ChunkSizes
    /\ pc = [s \in Submissions |-> "idle"]
    /\ futures = [s \in Submissions |-> [c \in Children |-> "unsent"]]
    /\ bg = [s \in Submissions |-> "none"]
    /\ response = [s \in Submissions |-> NoResponse]
    /\ client = [s \in Submissions |-> "start"]
    /\ idx = [s \in Submissions |-> 1]
    /\ received = [s \in Submissions |-> <<>>]
    /\ reported = [s \in Submissions |-> 0]
    /\ disturbed = {}

-----------------------------------------------------------------------------
(* SubmitQuery: one handler thread per submission.                         *)

\* The client sends its query; gRPC starts a handler for it.
Submit(s) ==
    /\ client[s] = "start"
    /\ pc[s] = "idle"
    /\ client' = [client EXCEPT ![s] = "submitting"]
    /\ pc' = [pc EXCEPT ![s] = "waiting"]
    /\ UNCHANGED <<serverVars, futures, bg, response, idx, received, reported,
                   disturbed>>

\* Mutant: one submission too many.
SlotFree_OffByOne == active_submit_count <= MaxConcurrent

\* The predicate of concurrency_cv_.wait, evaluated under the mutex.
SlotFree == active_submit_count < MaxConcurrent

AcquireSlot(s) ==
    /\ pc[s] = "waiting"
    /\ SlotFree
    /\ active_submit_count' = active_submit_count + 1
    /\ pc' = [pc EXCEPT ![s] = "admitted"]
    /\ UNCHANGED <<stream_up, active_cancel, cancel_flag, canceled_ids,
                   chunk_cache, fairness_queue, dynamic_chunk_size, futures,
                   bg, response, clientVars, disturbed>>

\* A fresh cancel flag takes the id over, and an older cancellation is forgotten.
Register(s) ==
    /\ pc[s] = "admitted"
    /\ canceled_ids' = canceled_ids \ {Rid(s)}
    /\ active_cancel' = Put(active_cancel, Rid(s), s)
    /\ pc' = [pc EXCEPT ![s] = "registered"]
    /\ UNCHANGED <<stream_up, active_submit_count, cancel_flag, chunk_cache,
                   fairness_queue, dynamic_chunk_size, futures, bg, response,
                   clientVars, disturbed>>

\* execute_local_query throws on a query type it does not know.
RejectQuery(s) ==
    /\ pc[s] = "registered"
    /\ ~ Query[s].supported
    /\ active_cancel' = Erase(active_cancel, {Rid(s)})
    /\ response' = [response EXCEPT ![s].status = "invalid"]
    /\ pc' = [pc EXCEPT ![s] = "returning"]
    /\ UNCHANGED <<stream_up, active_submit_count, cancel_flag, canceled_ids,
                   chunk_cache, fairness_queue, dynamic_chunk_size, futures,
                   bg, clientVars, disturbed>>

\* The local query, then one asynchronous call per replica target.
Scatter(s) ==
    /\ pc[s] = "registered"
    /\ Query[s].supported
    /\ futures' = [futures EXCEPT ![s] = [c \in Children |-> "pending"]]
    /\ pc' = [pc EXCEPT ![s] = "scattered"]
    /\ UNCHANGED <<serverVars, bg, response, clientVars, disturbed>>

\* A child's answer is complete, or its call failed or met its deadline.
ChildReply(s, c) ==
    /\ futures[s][c] = "pending"
    /\ \E answer \in {"ok"} \cup (IF "child" \in Faults THEN {"failed"} ELSE {}) :
            futures' = [futures EXCEPT ![s][c] = answer]
    /\ UNCHANGED <<serverVars, pc, bg, response, clientVars, disturbed>>

\* collect_child_results_with_progress has returned.  A cancelled collection
\* returns early, but the destructors of its std::async futures still wait for
\* every call.
Answered(s) == \A c \in Children : futures[s][c] \in {"ok", "failed"}
OkChildren(s) == {c \in Children : futures[s][c] = "ok"}

MergedRecords(s) == Query[s].local \o Query[s].merged[OkChildren(s)]
MergedCount(s) ==
    IF Query[s].aggregate
    THEN Query[s].local_count + Query[s].merged_count[OkChildren(s)]
    ELSE Len(MergedRecords(s))

FirstResponse(recs, count, size, is_last) ==
    [ status |-> "ok", records |-> Slice(recs, 0, size), is_last |-> is_last,
      count |-> count, size |-> size ]

\* With stream_up the first chunk of A's own rows leaves before any child answers.
StreamRespond(s) ==
    LET local == Query[s].local
        size == dynamic_chunk_size
        is_last == Children = {} /\ Len(local) <= size
    IN  /\ stream_up
        /\ pc[s] = "scattered"
        /\ response' = [response EXCEPT ![s] =
                          FirstResponse(local, Query[s].local_count, size, is_last)]
        /\ pc' = [pc EXCEPT ![s] = IF is_last THEN "unregister" ELSE "insert"]
        /\ UNCHANGED <<serverVars, futures, bg, clientVars, disturbed>>

StreamEntry(s) ==
    LET size == response[s].size
        rest == AfterFirst(Query[s].local, size)
        chunks == IF Children = {} THEN ChunkViews(rest, size) ELSE <<>>
    IN  [ finalized |-> Children = {},
          total_chunks |-> IF Children = {} THEN 1 + Len(chunks) ELSE 0,
          records_per_chunk |-> size, count |-> Query[s].local_count,
          stream |-> rest, chunks |-> chunks, age |-> 0 ]

\* The entry of a complete answer, already cut into chunks.
GatherEntry(s) ==
    LET size == response[s].size
        chunks == ChunkViews(AfterFirst(MergedRecords(s), size), size)
    IN  [ finalized |-> TRUE, total_chunks |-> 1 + Len(chunks),
          records_per_chunk |-> size, count |-> MergedCount(s),
          stream |-> <<>>, chunks |-> chunks, age |-> 0 ]

\* Mutant: the flag is not read again under the mutex.
InsertEntry_NoCheck(s, entry) ==
    /\ chunk_cache' = Put(chunk_cache, Rid(s), entry)
    /\ fairness_queue' = Append(fairness_queue, Rid(s))

\* Mutant: the request never joins the queue.
InsertEntry_NotQueued(s, entry) ==
    /\ chunk_cache' = IF cancel_flag[s] THEN chunk_cache
                                        ELSE Put(chunk_cache, Rid(s), entry)
    /\ UNCHANGED fairness_queue

\* Mutant: the request joins the queue at the front.
InsertEntry_AtFront(s, entry) ==
    IF cancel_flag[s]
    THEN UNCHANGED <<chunk_cache, fairness_queue>>
    ELSE /\ chunk_cache' = Put(chunk_cache, Rid(s), entry)
         /\ fairness_queue' = <<Rid(s)>> \o fairness_queue

\* Under the mutex: no entry once the submission's flag is set.
InsertEntry(s, entry) ==
    IF cancel_flag[s]
    THEN UNCHANGED <<chunk_cache, fairness_queue>>
    ELSE /\ chunk_cache' = Put(chunk_cache, Rid(s), entry)
         /\ fairness_queue' = Append(fairness_queue, Rid(s))

\* Mutant: the handler unregisters the request although its collector runs on.
Detach_Unregisters(s) ==
    /\ pc' = [pc EXCEPT ![s] = "unregister"]
    /\ bg' = [bg EXCEPT ![s] = IF Children = {} THEN @ ELSE "collecting"]

\* If there are children, a detached collector takes the futures over and the
\* request stays registered for it.
Detach(s) ==
    IF Children = {}
    THEN pc' = [pc EXCEPT ![s] = "unregister"] /\ UNCHANGED bg
    ELSE /\ pc' = [pc EXCEPT ![s] = "returning"]
         /\ bg' = [bg EXCEPT ![s] = "collecting"]

StreamInsert(s) ==
    /\ stream_up
    /\ pc[s] = "insert"
    /\ InsertEntry(s, StreamEntry(s))
    /\ Detach(s)
    /\ UNCHANGED <<stream_up, active_submit_count, active_cancel, cancel_flag,
                   canceled_ids, dynamic_chunk_size, futures, response,
                   clientVars, disturbed>>

\* Without stream_up the handler waits for the children and merges them.
GatherRespond(s) ==
    LET recs == MergedRecords(s)
        size == dynamic_chunk_size
        is_last == Len(recs) <= size
    IN  /\ ~ stream_up
        /\ pc[s] = "scattered"
        /\ Answered(s)
        /\ IF cancel_flag[s]
           THEN pc' = [pc EXCEPT ![s] = "cancelled"] /\ UNCHANGED response
           ELSE /\ response' = [response EXCEPT ![s] =
                                  FirstResponse(recs, MergedCount(s), size, is_last)]
                /\ pc' = [pc EXCEPT ![s] = IF is_last THEN "unregister" ELSE "insert"]
        /\ UNCHANGED <<serverVars, futures, bg, clientVars, disturbed>>

\* The flag was seen set; the id is dropped from the cache, not from the queue.
GatherCancelled(s) ==
    /\ pc[s] = "cancelled"
    /\ active_cancel' = Erase(active_cancel, {Rid(s)})
    /\ chunk_cache' = Erase(chunk_cache, {Rid(s)})
    /\ canceled_ids' = canceled_ids \cup {Rid(s)}
    /\ response' = [response EXCEPT ![s].status = "cancelled"]
    /\ pc' = [pc EXCEPT ![s] = "returning"]
    /\ UNCHANGED <<stream_up, active_submit_count, cancel_flag,
                   fairness_queue, dynamic_chunk_size, futures, bg,
                   clientVars, disturbed>>

GatherInsert(s) ==
    /\ ~ stream_up
    /\ pc[s] = "insert"
    /\ InsertEntry(s, GatherEntry(s))
    /\ pc' = [pc EXCEPT ![s] = "unregister"]
    /\ UNCHANGED <<stream_up, active_submit_count, active_cancel, cancel_flag,
                   canceled_ids, dynamic_chunk_size, futures, bg, response,
                   clientVars, disturbed>>

Unregister(s) ==
    /\ pc[s] = "unregister"
    /\ active_cancel' = Erase(active_cancel, {Rid(s)})
    /\ canceled_ids' = canceled_ids \ {Rid(s)}
    /\ pc' = [pc EXCEPT ![s] = "returning"]
    /\ UNCHANGED <<stream_up, active_submit_count, cancel_flag, chunk_cache,
                   fairness_queue, dynamic_chunk_size, futures, bg, response,
                   clientVars, disturbed>>

\* Mutant: the clamp is missing.
Tune_Unclamped == dynamic_chunk_size' = dynamic_chunk_size - 1

\* tune_after_chunk_served: a load and a store, moved by the time just measured.
Tune == dynamic_chunk_size' \in ChunkSizes

\* Every return path gives the slot back (the guard's deleter).
Return(s) ==
    /\ pc[s] = "returning"
    /\ active_submit_count' =
         IF active_submit_count > 0 THEN active_submit_count - 1
                                    ELSE active_submit_count
    /\ pc' = [pc EXCEPT ![s] = "returned"]
    /\ IF response[s].status = "ok" THEN Tune ELSE UNCHANGED dynamic_chunk_size
    /\ UNCHANGED <<stream_up, active_cancel, cancel_flag, canceled_ids,
                   chunk_cache, fairness_queue, futures, bg, response,
                   clientVars, disturbed>>

-----------------------------------------------------------------------------
(* The detached collector of a streamed query.                             *)

\* It ends at once when the flag is set; active_cancel_ keeps the id.
BgGather(s) ==
    /\ bg[s] = "collecting"
    /\ Answered(s)
    /\ bg' = [bg EXCEPT ![s] = IF cancel_flag[s] THEN "done" ELSE "merging"]
    /\ UNCHANGED <<serverVars, pc, futures, response, clientVars, disturbed>>

\* Mutant: the merged entry is not marked as complete.
Finalised_LeftOpen(s, entry) ==
    LET stream == entry.stream \o Query[s].merged[OkChildren(s)]
    IN  [entry EXCEPT !.stream = stream,
                      !.chunks = ChunkViews(stream, entry.records_per_chunk)]

\* Mutant: the rows of the first chunk are not counted.
Finalised_CountsRest(s, entry) ==
    LET stream == entry.stream \o Query[s].merged[OkChildren(s)]
        chunks == ChunkViews(stream, entry.records_per_chunk)
    IN  [entry EXCEPT !.finalized = TRUE, !.total_chunks = 1 + Len(chunks),
                      !.count = Len(stream), !.stream = stream, !.chunks = chunks]

\* The entry with the children's rows behind A's own, cut into chunks for good.
Finalised(s, entry) ==
    LET stream == entry.stream \o Query[s].merged[OkChildren(s)]
        chunks == ChunkViews(stream, entry.records_per_chunk)
    IN  [entry EXCEPT
            !.finalized = TRUE,
            !.total_chunks = 1 + Len(chunks),
            !.count = IF Query[s].aggregate
                      THEN entry.count + Query[s].merged_count[OkChildren(s)]
                      ELSE Len(response[s].records) + Len(stream),
            !.stream = stream,
            !.chunks = chunks]

\* Under the mutex: only into an entry neither cancelled nor evicted meanwhile.
BgMerge(s) ==
    /\ bg[s] = "merging"
    /\ bg' = [bg EXCEPT ![s] = "done"]
    /\ IF Rid(s) \in canceled_ids \/ Rid(s) \notin DOMAIN chunk_cache
       THEN UNCHANGED <<chunk_cache, active_cancel>>
       ELSE /\ chunk_cache' =
                 Put(chunk_cache, Rid(s), Finalised(s, chunk_cache[Rid(s)]))
            /\ active_cancel' = Erase(active_cancel, {Rid(s)})
    /\ UNCHANGED <<stream_up, active_submit_count, cancel_flag, canceled_ids,
                   fairness_queue, dynamic_chunk_size, pc, futures, response,
                   clientVars, disturbed>>

-----------------------------------------------------------------------------
(* FetchChunk, in the order of its checks.  A request that is neither refused *)
(* nor served is answered UNAVAILABLE, and the client sleeps and asks again.  *)

Dropped(r) == r \in canceled_ids

\* With several requests queued only the front one is served.
NotYourTurn(r) == Len(fairness_queue) > 1 /\ Head(fairness_queue) # r

Cached(r) == r \in DOMAIN chunk_cache
Ready(r, i) == Cached(r) /\ i <= Len(chunk_cache[r].chunks)

\* NOT_FOUND: cancelled, unknown, or an index past the last chunk.
MustRefuse(r, i) ==
    \/ Dropped(r)
    \/ /\ ~ NotYourTurn(r)
       /\ \/ ~ Cached(r)
          \/ Cached(r) /\ ~ Ready(r, i) /\ chunk_cache[r].finalized

MayServe(r, i) == ~ Dropped(r) /\ ~ NotYourTurn(r) /\ Ready(r, i)

\* Mutant: the first chunk is not counted.
IsLast_OffByOne(r, i) == chunk_cache[r].finalized /\ i = chunk_cache[r].total_chunks

IsLast(r, i) == chunk_cache[r].finalized /\ i = chunk_cache[r].total_chunks - 1

\* The chunk leaves: the last one takes the entry with it, any other resets the
\* idle timer and sends the request to the back of the queue.
ServeChunk(r, i) ==
    /\ MayServe(r, i)
    /\ IF IsLast(r, i)
       THEN /\ chunk_cache' = Erase(chunk_cache, {r})
            /\ fairness_queue' = Without(fairness_queue, {r})
       ELSE /\ chunk_cache' = [chunk_cache EXCEPT ![r].age = 0]
            /\ fairness_queue' =
                 IF fairness_queue # <<>> /\ Head(fairness_queue) = r
                 THEN Append(Tail(fairness_queue), r)
                 ELSE fairness_queue
    /\ Tune
    /\ UNCHANGED <<stream_up, active_submit_count, active_cancel, cancel_flag,
                   canceled_ids, handlerVars>>

-----------------------------------------------------------------------------
(* The client: submit, then fetch chunk after chunk until is_last.         *)

ReceiveFirst(s) ==
    /\ client[s] = "submitting"
    /\ pc[s] = "returned"
    /\ IF response[s].status = "ok"
       THEN /\ received' = [received EXCEPT ![s] = response[s].records]
            /\ reported' = [reported EXCEPT ![s] = response[s].count]
            /\ client' = [client EXCEPT ![s] =
                            IF response[s].is_last THEN "done" ELSE "fetching"]
       ELSE /\ client' = [client EXCEPT ![s] = "failed"]
            /\ UNCHANGED <<received, reported>>
    /\ UNCHANGED <<serverVars, handlerVars, idx, disturbed>>

\* The call ends with a status of gRPC's own: the node was not reached, the
\* answer did not arrive, or the 1800 s are over.  The client exits with 1 and
\* never asks again; a handler that runs goes on.
SubmitFails(s) ==
    /\ "call" \in Faults
    /\ client[s] \in {"start", "submitting"}
    /\ client' = [client EXCEPT ![s] = "failed"]
    /\ disturbed' = disturbed \cup {Rid(s)}
    /\ UNCHANGED <<serverVars, handlerVars, idx, received, reported>>

FetchServed(s) ==
    LET r == Rid(s)
    IN  /\ client[s] = "fetching"
        /\ ServeChunk(r, idx[s])
        /\ received' = [received EXCEPT ![s] = @ \o chunk_cache[r].chunks[idx[s]]]
        /\ reported' = [reported EXCEPT ![s] = chunk_cache[r].count]
        /\ IF IsLast(r, idx[s])
           THEN client' = [client EXCEPT ![s] = "done"] /\ UNCHANGED idx
           ELSE idx' = [idx EXCEPT ![s] = @ + 1] /\ UNCHANGED client
        /\ UNCHANGED disturbed

\* The chunk left the server and never reached the client.  If its channel reports
\* UNAVAILABLE it asks for the same index again; any other status, such as
\* DEADLINE_EXCEEDED after 1800 s, ends it with exit code 1.
FetchReplyLost(s) ==
    /\ client[s] = "fetching"
    /\ ServeChunk(Rid(s), idx[s])
    /\ \/ "loss" \in Faults /\ UNCHANGED client
       \/ "call" \in Faults /\ client' = [client EXCEPT ![s] = "failed"]
    /\ disturbed' = disturbed \cup {Rid(s)}
    /\ UNCHANGED <<idx, received, reported>>

\* The same for a call that the server did not serve.
FetchFails(s) ==
    /\ "call" \in Faults
    /\ client[s] = "fetching"
    /\ client' = [client EXCEPT ![s] = "failed"]
    /\ disturbed' = disturbed \cup {Rid(s)}
    /\ UNCHANGED <<serverVars, handlerVars, idx, received, reported>>

\* NOT_FOUND ends the client in the same way.
FetchRefused(s) ==
    /\ client[s] = "fetching"
    /\ MustRefuse(Rid(s), idx[s])
    /\ client' = [client EXCEPT ![s] = "failed"]
    /\ UNCHANGED <<serverVars, handlerVars, idx, received, reported, disturbed>>

\* The client process goes away; nothing tells the server.
Abandon(s) ==
    /\ "abandon" \in Faults
    /\ client[s] \in {"submitting", "fetching"}
    /\ client' = [client EXCEPT ![s] = "gone"]
    /\ UNCHANGED <<serverVars, handlerVars, idx, received, reported, disturbed>>

-----------------------------------------------------------------------------
(* CancelQuery and the eviction thread.                                    *)

CancelQuery(r) ==
    /\ "cancel" \in Faults
    /\ canceled_ids' = canceled_ids \cup {r}
    /\ cancel_flag' = [s \in Submissions |->
            cancel_flag[s] \/ (r \in DOMAIN active_cancel /\ active_cancel[r] = s)]
    /\ chunk_cache' = Erase(chunk_cache, {r})
    /\ fairness_queue' = Without(fairness_queue, {r})
    /\ disturbed' = disturbed \cup {r}
    /\ UNCHANGED <<stream_up, active_submit_count, active_cancel,
                   dynamic_chunk_size, handlerVars, clientVars>>

\* Time passes, however slow the clients are; or not at all.
Tick ==
    /\ Timing = "any"
    /\ \E r \in DOMAIN chunk_cache : chunk_cache[r].age < ChunkTimeout
    /\ chunk_cache' = [r \in DOMAIN chunk_cache |->
            [chunk_cache[r] EXCEPT !.age = Least(@ + 1, ChunkTimeout)]]
    /\ UNCHANGED <<stream_up, active_submit_count, active_cancel, cancel_flag,
                   canceled_ids, fairness_queue, dynamic_chunk_size,
                   handlerVars, clientVars, disturbed>>

\* Mutant: complete entries are spared.
Stale_OnlyOpen ==
    {r \in DOMAIN chunk_cache :
        chunk_cache[r].age >= ChunkTimeout /\ ~ chunk_cache[r].finalized}

Stale == {r \in DOMAIN chunk_cache : chunk_cache[r].age >= ChunkTimeout}

\* One pass of evict_stale_entries under the mutex.
EvictStale ==
    /\ Stale # {}
    /\ chunk_cache' = Erase(chunk_cache, Stale)
    /\ fairness_queue' = Without(fairness_queue, Stale)
    /\ canceled_ids' = canceled_ids \cup Stale
    /\ disturbed' = disturbed \cup Stale
    /\ UNCHANGED <<stream_up, active_submit_count, active_cancel, cancel_flag,
                   dynamic_chunk_size, handlerVars, clientVars>>

-----------------------------------------------------------------------------
(* The specification.                                                      *)

HandlerStep(s) ==
    \/ AcquireSlot(s) \/ Register(s) \/ RejectQuery(s) \/ Scatter(s)
    \/ StreamRespond(s) \/ StreamInsert(s)
    \/ GatherRespond(s) \/ GatherCancelled(s) \/ GatherInsert(s)
    \/ Unregister(s) \/ Return(s)

CollectorStep(s) == BgGather(s) \/ BgMerge(s)

ClientStep(s) == ReceiveFirst(s) \/ FetchServed(s) \/ FetchRefused(s)

Next ==
    \/ \E s \in Submissions :
          \/ Submit(s) \/ HandlerStep(s) \/ CollectorStep(s) \/ ClientStep(s)
          \/ FetchReplyLost(s) \/ SubmitFails(s) \/ FetchFails(s) \/ Abandon(s)
          \/ \E c \in Children : ChildReply(s, c)
    \/ \E r \in Rids : CancelQuery(r)
    \/ Tick \/ EvictStale

Spec == Init /\ [][Next]_vars

\* Threads run, a child call ends by its deadline, the clock and the eviction
\* loop go on, and a polling client comes back every 20 ms.  Nothing makes
\* anybody submit, cancel or leave, or a call or a reply fail.
Fairness ==
    /\ \A s \in Submissions :
          /\ WF_vars(HandlerStep(s))
          /\ WF_vars(CollectorStep(s))
          /\ WF_vars(ClientStep(s))
          /\ \A c \in Children : WF_vars(ChildReply(s, c))
    /\ WF_vars(Tick)
    /\ WF_vars(EvictStale)

FairSpec == Spec /\ Fairness

-----------------------------------------------------------------------------
(* Properties that hold whatever request ids the clients use.              *)

\* The counter agrees with the handlers between the condition variable and the
\* guard's deleter, on every return path, and never exceeds the limit.
SlotAccounting ==
    /\ active_submit_count = Cardinality({s \in Submissions : pc[s] \in Holding})
    /\ active_submit_count <= MaxConcurrent

\* Every cached request is in the queue: were it not, FetchChunk would never
\* give it a turn while others are queued.
CachedIsQueued == DOMAIN chunk_cache \subseteq Members(fairness_queue)

-----------------------------------------------------------------------------
(* Properties of clients that never use a request id twice.                *)

DistinctRids == \A s, t \in Submissions : Rid(s) = Rid(t) => s = t

\* The queue holds each cached request once and nothing else: an id without an
\* entry at the front would block everybody behind it.
QueueMirrorsCache ==
    /\ Members(fairness_queue) = DOMAIN chunk_cache
    /\ \A i, j \in 1 .. Len(fairness_queue) :
            fairness_queue[i] = fairness_queue[j] => i = j

\* Neither a cancelled nor an evicted request is in the cache, wherever the
\* handler and the collector were when it was cancelled.
CancelledNeverCached ==
    \A r \in DOMAIN chunk_cache :
        /\ r \notin canceled_ids
        /\ \A s \in Submissions : Rid(s) = r => ~ cancel_flag[s]

\* As long as a handler or a collector works on a request, CancelQuery finds
\* its flag.
CancelReachesWorkers ==
    \A s \in Submissions :
        \/ pc[s] \in {"registered", "scattered", "cancelled", "insert", "unregister"}
        \/ bg[s] \in {"collecting", "merging"}
        => Rid(s) \in DOMAIN active_cancel /\ active_cancel[Rid(s)] = s

\* An entry that still grows has a collector that will complete it: a client is
\* never told "not ready yet" by an entry nobody works on.
NoOrphanedEntry ==
    \A r \in DOMAIN chunk_cache : ~ chunk_cache[r].finalized =>
        \E s \in Submissions :
            Rid(s) = r /\ bg[s] \in {"collecting", "merging"}

IsPrefixOf(p, q) == Len(p) <= Len(q) /\ SubSeq(q, 1, Len(p)) = p

\* What a client has received is the beginning of A's rows followed by those of
\* the children that answered, in order, nothing twice and nothing skipped; a
\* client that ends well has it all, and the count on its last response says so.
ExactDelivery ==
    \A s \in Submissions :
        /\ IsPrefixOf(received[s], MergedRecords(s))
        /\ client[s] = "done" =>
              received[s] = MergedRecords(s) /\ reported[s] = MergedCount(s)

\* Nothing was left behind the first chunk of a streamed query, which said that
\* there might be.
NothingLeft(s) ==
    /\ stream_up /\ Children # {}
    /\ Answered(s) /\ response[s].status = "ok"
    /\ Len(MergedRecords(s)) <= response[s].size

\* A client fails only if its query was not understood, or was cancelled or
\* evicted, or one of its own calls was cut off, or if it was streamed and fitted
\* in the first chunk: never for what another client did or suffered.
FailureHasCause ==
    \A s \in Submissions : client[s] = "failed" =>
        ~ Query[s].supported \/ Rid(s) \in disturbed \/ NothingLeft(s)

Position(q, r) == CHOOSE i \in 1 .. Len(q) : q[i] = r
KeepsTurn ==
    \A r \in Members(fairness_queue) \cap Members(fairness_queue)' :
        \/ r = Head(fairness_queue) /\ Members(fairness_queue)' = Members(fairness_queue)
        \/ Position(fairness_queue', r) <= Position(fairness_queue, r)

\* Round robin: a queued request is moved back only by its own turn, never by one
\* who joins.
NoLostTurn == [][KeepsTurn]_vars

\* Whatever happens, a client that submitted is told: everything, or a failure.
EveryQueryEnds ==
    \A s \in Submissions :
        client[s] \in {"submitting", "fetching"} ~> client[s] \in {"done", "failed", "gone"}

\* A query that is understood, and neither cancelled, evicted, cut off nor left by
\* its client, is answered in full, whatever happens to the others; unless one was
\* left waiting for a next chunk that does not exist, whose entry then holds the
\* front of the queue until it is evicted.
EveryQuerySucceeds ==
    \A s \in Submissions :
        client[s] = "submitting" /\ Query[s].supported
            ~> \/ client[s] \in {"done", "gone"}
               \/ Rid(s) \in disturbed
               \/ \E t \in Submissions : NothingLeft(t)

\* No entry stays for ever, not even that of a client that left.
CacheDrains ==
    \A r \in Rids : r \in DOMAIN chunk_cache ~> r \notin DOMAIN chunk_cache

-----------------------------------------------------------------------------
(* What the repository says of itself and the code does not do.            *)

\* "results are merged and returned to the client in chunks" (README.md:3), and
\* test_concurrent.sh:40 takes any exit but 0 for a failure.
NoFailureWithoutFault ==
    \A s \in Submissions : client[s] = "failed" =>
        ~ Query[s].supported \/ Rid(s) \in disturbed

\* fairness_queue_depth counts "requests in round-robin queue" (proto/mini2.proto:122),
\* and only the one at the front is served: an id without an entry is no request.
QueuedIsCached == Members(fairness_queue) \subseteq DOMAIN chunk_cache
=============================================================================
