# A verification development for CMPE-275 Mini 2

The repository is a scatter-gather query system over nine nodes. A client sends a
range query to the C++ entry node A; A filters its own partition, asks its children
(Python nodes, which ask theirs), merges the answers and hands them to the client in
chunks. This directory holds TLA+ modules translated from the source, the TLC
configurations that check them on small instances, and theorems with proofs checked
by TLAPS. File paths below are relative to the repository's root (`src/` here).

    tlc -workers 2 -config entry_safety.cfg MCEntryNode.tla      # a run
    tlapm EntryNodeProofs.tla                                    # proofs, one module each:
    tlapm EntryDeliveryProofs.tla
    tlapm ReplicaMergeProofs.tla
    tlapm WorkerTreeProofs.tla
    tlapm QueryEngineProofs.tla
    tlapm CsvReaderProofs.tla
    tlapm NodePartsProofs.tla
    tlapm MessagesProofs.tla

## 1. Inventory

| Component | State it keeps | Operations | Interacts with |
|---|---|---|---|
| **Entry node A**, `cpp/server/node_server.cpp` 425-1333 | under `state_mutex_`: `active_submit_count_`, `active_cancel_` (request id -> shared atomic flag), `canceled_ids_`, `chunk_cache_` (request id -> entry), `fairness_queue_`; the atomic `dynamic_chunk_size_`; one detached thread per streamed query; one eviction thread | `SubmitQuery` (500-850), `FetchChunk` (852-926), `CancelQuery` (928-944), `evict_stale_entries` (1256-1286) | clients (gRPC), children (one `std::async` call each) |
| **Client**, `cpp/client/client.cpp` | next chunk index, rows printed so far, first response | submit, fetch until `is_last`, retry on `UNAVAILABLE`, exit 1 on any other failure | A |
| **Replica merge** (`bft_mode: "lite"`), node_server.cpp 952-970, 1057-1198 | none (pure) | expand children to replicas, verify the metadata, group by payload hash, take the largest bucket if it reaches the quorum | the futures of A's scatter; payload hashes made by workers |
| **Worker node B-I**, `python/server/node.py` 305-686, 728-757 | `_fwd_cache` (request id -> rows) under `_fwd_lock`; a pool of 16 threads; stubs of its children | `ForwardQuery` (scatter to its own children, cache, first chunk), `FetchForwardChunk` (next chunk, the last one drops the entry), `SubmitQuery` (never caches) | its parent (A or a worker), its children |
| **Topology**, `config/topology.json`, node_server.cpp 118-160, node.py 93-133 | a queue and a parent map while it searches | a breadth-first tree from A, children sorted | both kinds of node derive it independently |
| **Query engines**, `cpp/src/QueryEngine.cpp`, `cpp/src/TimeIndex.cpp`, `python/query_engine.py` | sorted index by pickup time; a vector of each OpenMP thread | range filters, aggregates | A and the workers, on their own partition |
| **CSV reader**, `cpp/src/CsvReader.cpp`, `TripRecord.cpp`, node.py 136-207 | position in the file, statistics | `read_next`, `load_chunk` (one thread per byte range), `split_csv_line`, `parse_line`, `parse_timestamp`; the Python loader | query engine |
| **Partitioner**, `scripts/split_data.py`, `scripts/combine_csv.py` | round-robin counter | rows to nine partitions and back | data files |
| **Chunk-size tuner**, node_server.cpp 1216-1231 | the atomic `dynamic_chunk_size_` | after each timed call, a fifth more, a fifth less or the same, within 50 and 2000 | `SubmitQuery` reads it for each new query |
| **Management service**, node_server.cpp 1240-1254, 1288-1373, node.py 689-725 | `completed_requests_window_` | `GetStatus` reads the counters and counts the window; `Heartbeat` | operators |
| **Messages**, `proto/mini2.proto`, `cpp/mini2.pb.{h,cc}` | has-bits and members of an object | accessors, `Clear`, serializer, size, parse table, `MergeImpl`, `CopyFrom` | every call |
| gRPC stubs, launch and benchmark scripts | - | - | - |

### What is hard here

* **One lock, many threads.** Handlers, detached collectors, the eviction thread and
  `CancelQuery` interleave between critical sections of `state_mutex_`, and read the
  cancel flag outside it. A cancellation can come before the flag is registered, before
  or after the first response is built, before or after the entry is inserted, while the
  collector waits, and between the collector's check and its merge.
* **A streamed entry is polled before it is complete.** The chunk count and `is_last`
  are decided in three places with separate rounding code, one of them before it is
  known whether there is a next chunk.
* **The fairness queue gates everybody.** Only the id at its front is served; an id
  that stays there without an entry, or whose client left, blocks the others until
  somebody removes it.
* **Retries.** `UNAVAILABLE` means "not your turn", "not ready" and "the connection
  broke"; the client treats the three alike, although in the last case the chunk may
  already have been served and the entry erased.
* **Failures of children** are not reported to the client: the answer is what the other
  children gave.
* **Workers** cache rows by request id alone, append their children's rows in completion
  order, read the cache and drop the entry under two separate locks, and cache an answer
  whether or not its caller still waits. Handlers that wait for other nodes and the fetches
  those nodes wait for come out of one pool of threads.
* **The same thing twice in two languages.** The tree, the reader of rows and the filters are
  written once in C++ and once in Python, and one query is answered by both kinds of node.
* **Threads that share a figure or a result.** The tuner's size is loaded and stored in two
  steps; the time of a completion is taken before the lock; OpenMP threads append their finds
  in the order they end; byte ranges of a file meet inside a line or at its start.
* **Replicas** answer in any order, may fail, and may stand for several children; their
  hashes are compared but never recomputed.

### What makes each component correct

* Entry node: no more than `max_concurrent_` submissions work at a time; the queue holds
  exactly the cached requests, once each, and is round robin; a cancelled or evicted
  request leaves nothing behind; a client gets A's rows and those of the children that
  answered, in order, once; it is told an end whatever happens; no entry stays for ever.
* Replica merge: a logical child contributes at most once, only an answer of a replica of
  its own that passed the checks, and only one that 2f+1 replicas agree on; where one answer
  is enough, every child that answered contributes.
* Worker: every row of the subtree once, whatever order the children complete in; an
  entry served by parts gives the rows it was made of; a call fails only for a reason, and
  ends; what is cached is for somebody.
* Topology: each reachable node is asked by exactly one, although A derives its children in
  C++ and the workers theirs in Python; a parent is one edge nearer to A than its child.
* Engines: what is found is what was asked for, once each, with and without the index, in
  any order of the threads, and alike in both languages.
* Reader: each line is loaded by one thread, and all threads together load what one reader
  does; a line splits into the fields it was written from; both languages read a row alike, or
  the row is odd in a way that can be named.
* Tuner and statistics: adjustments that overtake each other lose steps but invent none; the
  throughput counts exactly the completions of the last seconds.
* Messages: what is set arrives; the size written is the size of what is written; merging a
  message is parsing what it serializes to.

The hazards, each at its line, with the properties that would catch it, are in
`PROJECT.json` under `hazards`.

## 2. Plan

Ordered by importance.

1. *Done.* `EntryNode`, its abstract specification `QueryService`, the refinement
   `EntryNodeRefinement`, the runs over `MCEntryNode`, the proofs in `EntryNodeProofs` and
   `EntryDeliveryProofs`: every safety property of the entry node, and the refinement.
2. *Done.* `ReplicaMerge`: the expansion to replicas, the checks of the metadata and the
   merge, against answers in every order; `ReplicaMergeProofs`.
3. *Done.* `WorkerTree`: the workers below A as a tree of calls, with caches, thread pools,
   chunks, deadlines and dropped answers; `WorkerTreeProofs`.
4. *Done.* The parts that share no state with the calls between nodes, each a module of its own
   and all in one MC module: `Topology`, `CsvChunks`, `RowReader`, `QueryEngine`, `NodeMetrics`,
   `MessageTables` with `Messages`; `CsvReaderProofs`, `QueryEngineProofs`, `NodePartsProofs`
   (the tree, the figures, the parts together), `MessagesProofs`.
5. *Done.* A theorem for every safety property that a passing run checks. What is left to TLC alone is
   liveness.

## 3. The modules

**`EntryNode`** models A and its clients. Each SubmitQuery call is a member of
`Submissions`; `Query[s]` says what it asks and what the nodes hold, including the result
of merging any set of children that answered. An action is one critical section of
`state_mutex_`, or the code between two of them, and `pc[s]` says where the handler is:

| pc | code (node_server.cpp) |
|---|---|
| idle, waiting | before and in `concurrency_cv_.wait`, 508-510 |
| admitted | slot taken (511), guard made (514-522) |
| registered | flag in `active_cancel_`, id out of `canceled_ids_` (534-535) |
| scattered | futures launched (570-630) |
| cancelled | gather mode, flag seen set (776) |
| insert | response built, entry not inserted yet (649, 806) |
| unregister | before the erase of `active_cancel_` (838-842) |
| returning, returned | the guard's deleter gives the slot back (519), the response leaves |

`Submit`, `AcquireSlot`, `Register`, `RejectQuery`, `Scatter`, `StreamRespond`,
`StreamInsert`, `GatherRespond`, `GatherCancelled`, `GatherInsert`, `Unregister` and
`Return` are the handler; `ChildReply` is a future becoming ready; `BgGather` and `BgMerge`
are the detached collector (683-730); `ReceiveFirst` and `SubmitFails` are the
client at the end of its `SubmitQuery` (client.cpp:178-217); `FetchServed`, `FetchRefused`,
`FetchReplyLost` and `FetchFails` are a `FetchChunk` together with what the client does with its
reply (224-279); `CancelQuery`, `EvictStale` and `Tick` are what they say. The server is never told
what became of a call: when the client's deadline of 1800 s passes or the connection breaks, the
client exits with 1, and handler, collector and entry go on. A fetch answered with `UNAVAILABLE` changes
nothing and is no action. `stream_up` is a variable chosen
in `Init`, so every run checks both modes.

The mutex makes the sections atomic; between them every other thread may move. The cancel
flag is a `cancel_flag[s]` of its own, because a second submission of the same id replaces
the map's pointer and leaves the first flag to its handler. The chunk size is whatever
value `dynamic_chunk_size_` has when the response is built, and `Tune` may move it to any
value in `ChunkSizes`: what the tuner computes is of no consequence to any property here
(`NodeMetrics` is about that).

**`QueryService`** is what a client may rely on: pieces that continue one another, nothing
of the children before they are all settled, "done" only of the whole answer.
**`EntryNodeRefinement`** maps `EntryNode` to it.
**`MCEntryNode`** holds the small instances, **`EntryNodeProofs`** the theorems about admission,
cache, queue and cancellation, **`EntryDeliveryProofs`** those about answers and the refinement.

Where an abstraction is made: rows are numbers; a failed child (status not OK, deadline) is
`"failed"` and contributes nothing; `merged` is a constant, since the merge reads only the
answers (`ReplicaMerge` models it); the 100 ms polling of futures is the guard
`Answered`. A cancelled collection returns early, but the `std::future`s of `std::async`
block in their destructors, so even then the section ends only when all calls have.

**`ReplicaMerge`** models what A does with the results of one scatter. `Targets` is
`expand_replica_targets`: a pair of a logical child and a node for each call. `Answer` is one
call that ends, in any order, with one of the outcomes the workers' fault injection
(node.py:450-487), its configuration or the network can give: right; failed; `meta.node_id` mutated;
no `bft_meta`, from a worker that is not in lite mode (434-436); the sum changed after the hash was
made. `meta_intact` is all that `verify_bft_metadata` asks of the metadata (1057-1090). `MergeChild` is one turn of the loop over
`runtime_.children` (node_server.cpp:1102-1196), taken when all calls have ended: the checks,
the buckets by hash, the requirement n >= 3f+1, the quorum 2f+1, the largest bucket (any of
the largest: which one comes first in an `unordered_map` is the hash function's affair), its
first answer. What a payload holds is reduced to right or wrong, and a hash to the pair of the
node that made it and what it hashed, since that is what the two hash functions tell apart
(node.py:408-409, node_server.cpp:303-304). `bft_lite` and the threshold are variables
chosen in `Init`. Not modelled: a mismatched `request_id` (node_server.cpp:1118), because
workers echo it; a group that lists one node twice (a group is a set here).

**`WorkerTree`** models the workers and the calls between them. A member of `Calls` is one
`ForwardQuery` with the `FetchForwardChunk` requests that follow it; `Under` says which call's
handler makes it. Its caller, a thread of A (node_server.cpp:584-625) or of a worker
(node.py:364-392), is `call`, `got`, `idx`, `total`; the handler of its `ForwardQuery` is
`handler`, `merged`, `taken`; the handler of its fetch, of which there is one at a time, is
`fetch`, `read`. `fwd_cache` is per node and shared by its handlers.

| Action | Code |
|---|---|
| `Ask` | A scatters, or `pool.submit` (node.py:518-530) |
| `Receive` | a thread of the server's pool (732) takes the request and runs the local query (496-506) |
| `Collect` | `as_completed` yields a future, in any order (531-552) |
| `Answer` | chunks counted, rows cached, first chunk sent (570-603) |
| `Drop` | fault injection `drop` (465-470, 579-581) |
| `FetchRead`, `FetchServe` | the two critical sections of `FetchForwardChunk` (610-615, 617-640), with the caller's loop |
| `Timeout` | the caller's deadline passes (370, 378); the worker's handler is not stopped |
| `Discard` | the gRPC server drops a request whose call is over before a thread took it |

`Timeout` stands for any end of the call at the caller alone, a lost connection included. A
worker is not told: its handler goes on, asks its children, and caches its answer. A worker's
`SubmitQuery` runs the same code and caches nothing; it is left out, as are the aggregates,
which travel with the first chunk.

**`MCReplicaMerge`**, **`MCWorkerTree`** and **`ReplicaMergeProofs`**, **`WorkerTreeProofs`** hold
their instances and theorems. The modules meet in `EntryNode`'s constants: a child call of
`EntryNode` is a call under `Top` in `WorkerTree` (it ends "ok" with the rows of `ExactRows`
or fails), and `Query[s].merged` is the outcome of `ReplicaMerge` for the children that answered.
Since `merged` may be any function, the theorems about `EntryNode` hold for whatever the merge
gives. In the same way `Query[s].local` is what `QueryEngine` finds at A, `Local` what it finds at
a worker, and the tree of calls is the one `Topology` derives.

**`Topology`** runs both searches over one edge list, a neighbour a step: `Dequeue` is the head of
the loop (node_server.cpp:140-142), `Visit` one turn of the inner one (143-149). The searches
differ in `Comes`: a C++ vector holds the neighbours in the order of the edges, the Python loop
sorts them. `Asks` is what comes of it: A's children are those of the C++ search, everybody
else's those of the Python one. An edge shorter than two characters, which both skip, is left out.
Where A has no edge the Python function returns an empty map (node.py:105) and the model one with A
alone: nobody has a child either way.

**`CsvChunks`** is `load_chunk` by one thread per range, and `read_next` next to it. A file is the
offsets of its lines and what `parse_line` makes of each. `Seek` is the beginning (328-344),
`ReadLine` one turn of the loop (354-377), `ReadNext` one call of `read_next`. No caller of
`load_chunk` is in the repository (the header speaks of a ParallelLoader), so the ranges are
constants. `Apart` is what every division has, `Meeting` one whose ranges share the byte they meet
at; only such ranges load the whole file (section 5).

**`RowReader`** has `split_csv_line` one character a step against what a CSV writer makes of fields,
and both loaders, a row a step. A number is a value and the form in which it is written, a date
its parts and its form, for `std::stoi`, `std::stod`, `strptime` and `std::get_time` tell forms
apart and nothing else; "huge" is a whole number beyond 32 bits, for which `std::stoi` throws and the
default is taken. `Remainder` is what a writer puts behind one another. `CppTimestamp` computes days by hand like the code; `PyOrdinal`
is the calendar of the library. What the columns of one kind share is said of one of them.

**`QueryEngine`** is one query at one node, from the command line to sum and count. `typed` keeps what the
command line says, for the properties to compare with; `options` is what `parse_cli` makes of it, with
the casts of passengers' and zones' limits to 32 bits (`Narrowed`, `AsInt32`). `Int32Half` is 2^31 in the
code and 8 in the runs; the theorems are for any.
`BuildIndexes` orders records of one time in any way, as `std::sort` may; the constructor of the
service builds the index (node_server.cpp:453), and the searches without it are checked too. In a parallel
region `ScanRecord` is one turn of a thread's loop, over the static share that `PartStart` and
`PartEnd` give it, and `JoinPart` its critical section or its reduction. Sums are of integers: that
a floating sum depends on the order is left out. `PyMatched` and `PySum` are what the Python
node answers to the same request.

**`NodeMetrics`** is the tuner, whose `Load` and `Store` other handlers come between, and
`record_completion`, whose `Finish` takes the time before `RecordCompletion` gets the
lock. `Recent` is the entries of the window that `get_status_snapshot` counts.

**`MessageTables`** has, for each of the 17 messages, one table for each generated function: which
field it handles under which has-bit, in its own order, with its own masks and tags. Nothing in
one table is derived from another. **`Messages`** gives the tables their meaning, and two objects
of one type whose accessors are called, which are cleared, merged and copied. Every generated
function does its part and calls the one of the same name of the messages within; a `...Layer` is that part,
given what was made of the messages within, and `Nest3` puts the layers together, three deep, which is as deep
as a `ForwardRequest` goes (query, combined query, range). What is sent is a run of items for
each number, in the order of the serializer; the parser looks every number up in its own table. A string is its length.

**`MCNodeParts`** extends these six. They share nothing, so a behaviour is one of one part
(`part`), the others stay where they start.

## 4. The runs

| Run | Instance | Shows |
|---|---|---|
| `entry_safety` | two clients with ids of their own, one slot, chunk sizes 1 and 2, two children, free clock; cancellation, failing children, lost replies, broken calls | type, admission, queue, cancellation, delivery, cause of failure, round robin |
| `entry_reuse` | three submissions of one id, two slots; cancellation, eviction; one query of an unknown type | admission counter and queue membership hold whatever ids clients choose |
| `entry_liveness` | two clients, one child, one slot, every fault (a client that leaves included), free clock, fair scheduling | each client that stays is told an end; no entry stays; the refinement of `QueryService` |
| `entry_success` | two clients, two children, one slot, no eviction; cancellation, failing children, lost replies; fair scheduling | a query nobody disturbed is answered in full |
| `stream_empty_tail` | no fault, stopped clock | *violation*: see finding 1 |
| `gather_dangling` | one id submitted again, cancellation, stopped clock | *violation*: finding 2 |
| `replica_merge` | a child with four replicas and one without a group, lite mode and off, thresholds 0 and 1, every outcome and order | only answers that came and passed are merged, in order; every child that answered is, where one answer is enough; no quorum of two ever forms |
| `replica_shipped` | the shipped configuration, all answers right | *violation*: finding 3 |
| `worker_tree` | two queries, three workers with a pool of one thread, answers of one to three chunks; deadlines and drops; fair scheduling | exact rows, failures only with a cause, nothing cached for nobody, every call ends |
| `node_parts` | the six parts of `MCNodeParts`, see below | ranges, rows, search, tree, tuner and window, messages |
| `row_iso_date` | the same | *violation*: finding 4 |
| `fare_total` | the same | *violation*: finding 5 |

Deadlock is not checked: when every client has ended and the cache is empty, when the merge
is over, when every call has ended or a part has done its work, nothing is left to do. That queries and calls do not stop
before is what `EveryQueryEnds` and `EveryCallEnds` say.

**Bounds.** Every submission is made once, so the runs are finite without a state constraint.
Two clients and one slot are enough for one to wait for admission while the other is anywhere
in its life, and for a queue of two; three submissions of one id are enough for an old handler,
a new entry and a request that waits. The queries give answers of one to three chunks, with
rows on either side of the first chunk, an empty local part, and answers that fit in the
first chunk when a child fails. An age of one tick tells "just used" from "idle"; the clock's
granularity is not what the properties are about. Chunk sizes 1 and 2 let the size change
between two queries and between a query's first chunk and the rest.

In `replica_merge` four replicas are 3f+1 for f = 1, so that a group large enough exists, and
the second child shows that one child's fate is not another's. In `worker_tree` the pool has one
thread instead of 16: the smallest pool is the one that could block. B is asked twice and asks
D twice, so that handlers and fetches of two queries contend for B's and D's only thread and
share their caches; E shows two children that complete in either order. Chunks of two rows cut
answers of 0 to 5 rows into one, two and three chunks, the last one full or not.

In `node_parts`:

* chunks: five lines, good, bad and blank, cut by three threads at any two bytes, also within a
  line, at its first byte and twice at one place, with ranges that share the byte they meet at
  and ranges that do not;
* rows: a good row and all that differ from it in both dates, in two numbers or in the number
  of columns, over 18 dates (leap days, 12 AM and PM, a year before 1970, month 0 and 13, each
  format) and ten numbers (limits of the types, signs, separators, beyond 32 bits, no number). One row at a
  time, since no row affects the reading of the next but by ending the Python loader;
  lines of up to three fields of up to two characters, any of them a quote or a comma;
* search: three tables (empty, three and five records with equal times), every type of query and one
  the client refuses, empty, one-value and wider ranges, limits below zero, with a fraction
  and beyond `Int32Half` on either side, options given twice; three threads, more than some results have records;
* tree: the shipped edges, no edge, self-loops, repeats, a part that A is not in, A without an edge,
  and every order of two graphs with a cycle;
* tuner: two handlers, three timed calls, sizes at both ends of their limits, a window of one tick
  of four;
* messages: all 17, two calls on two objects, with a number of two bytes and a negative one. The
  tables are independent for each field, so that two calls reach each pair of fields.

**Faults.** `Faults` names what may happen besides the normal course: "cancel" a CancelQuery, "child" a
child that fails, "loss" a reply that is lost with UNAVAILABLE, "call" a client's call that ends with
another status, "abandon" a client that goes away without a word. `entry_success` leaves out the last two:
the entry of a client that is gone blocks the front of the queue until it is evicted, and eviction is
what this run leaves out.

**The clock.** `Timing = "any"` lets time pass at any moment; `"frozen"` removes eviction.

**Fairness.** Weak fairness of each handler, each collector, each child call, each client's
polling, the clock and the eviction loop. Threads run; the child call has a gRPC deadline
(node_server.cpp:590-600), so it ends; the client polls every 20 ms (client.cpp:244); the
eviction loop sleeps a fixed time. A handler that waits for a slot is one thread of several on
a condition variable; the counter goes down once for each and no other submission arrives
unboundedly often, so weak fairness is enough. Nothing is assumed about submitting,
cancelling, leaving, losing a reply or breaking a call. In `WorkerTree`: weak fairness of each call's threads (a
server's pool takes what is queued, threads run) and of the calls a handler makes; A's own
calls, deadlines and drops need never come, so `EveryCallEnds` does not lean on a deadline.

## 5. Findings

1. **A streamed answer that fits in the first chunk fails** (node_server.cpp:640). With
   `stream_up` and children the first response never says `is_last`; if nothing comes after
   it the client's next fetch gets `NOT_FOUND "invalid chunk_index"` and the client exits
   with 1. Every aggregate query meets it. The finished entry stays cached, and at the front of
   the queue it holds up everybody else until it is evicted as idle.
2. **A cancelled handler can drop another submission's entry** (node_server.cpp:779) and
   leave its id in the queue, where it answers every other client "not your turn".
3. **The shipped configuration merges nothing** (node_server.cpp:1148): `bft_mode` is
   "lite", the threshold 1 and every group has one node, fewer than 3f+1, so each child's answer
   is rejected and a client gets A's rows alone. Larger groups would not help: a worker's hash
   covers its own node id (node.py:409), so no two replicas agree (`NoQuorumEver`).
4. **Dates in the third listed format are not read** (CsvReader.cpp:255): "2018-12-31 23:47:38" has
   digits as its first and fourth characters and is taken for "YYYY MMM DD"; the row is discarded
   by the C++ node and kept by a Python node.
5. **A query for fares filters the total** (QueryEngine.cpp:131-132, query_engine.py:65): README.md:26
   gives its column as `fare_amount`, both engines look at `total_amount`. `ExactAnswer` leaves this type
   out; `NodesAgree` says that the two engines at least do the same.

Not among the findings, for no code of the repository calls `load_chunk`: the header describes its ranges
as inclusive at both ends (CsvReader.hpp:54-66), the comments say that "the previous chunk will have read
that line in full" (CsvReader.cpp:331-332) and that "every line is owned by exactly one chunk" (355-356).
With ranges that do not share a byte, as inclusive ends suggest, a line that starts at the first byte of a
range is loaded by nobody: its range discards it and the one before has ended. A caller must let each range
end at the byte where the next one starts; then `SameAsSequential` holds.

Further observations that contradict no promise: `last_access` moves only when a chunk is served
(node_server.cpp:900), so a client that polls for children slower than `chunk_timeout_seconds` loses
its request; and a worker caches an answer although its caller has given up (node.py:591), and
evicts nothing, so those rows stay until the process ends. `ReadAlike` names what else tells
the readers apart: the C++ node reads "12,345" as 12, clamps what its types cannot hold, drops rows with
negative amounts and accepts days that no month has, while a Python node does not start on "1.0"
or a word in a column of integers. The client cuts the fractions off `--min` and `--max` of a
location query (client.cpp:147-150), so zones from 1.5 on include 1 and zones up to -0.5 include
0; a limit of 2^31 or more, of zones or of passengers, wraps around to another number. `CutZone` and `Fits`
are the exceptions that `ExactAnswer` makes for them.

## 6. Proofs

Each theorem is about every value of the constants that its module's assumptions admit. What an
assumption says beyond types, and why the code justifies it, is told where it is used.

### Entry node

`EntryNodeProofs` rests on `SubmissionsAssumption` (finitely many calls), `QueryAssumption` and
`ConfigAssumption` (types, and a largest chunk size: the tuner clamps it, node_server.cpp:1225).

* **`TypeCorrect`**: `Spec => []TypeOK`. One lemma per group of actions; the work is in
  `ChunkTypes` (slices and chunk views of a sequence are sequences, their number is a natural
  number) and `WithoutProperties` (removal from the queue keeps it a sequence, with exactly the
  other members and no new repetition).
* **`SlotsCorrect`**: `Spec => []SlotAccounting`. Inductive with `TypeOK`: `SlotSteps` says of
  each step that it leaves the holders of a slot and the counter alone, or moves one submission
  in and adds one under the guard, or moves one out and subtracts one; cardinalities do the rest.
* **`CachedIsQueuedCorrect`**: `Spec => []CachedIsQueued`, with no assumption on ids.
  `CacheSteps` says what a step may do to cache and queue together: nothing, rotate the queue,
  take some ids out of both, append an id to the queue that enters the cache, or drop an entry.

The others need request ids of their own (`DistinctRids`, an assumption of each theorem and what
`make_request_id` gives; finding 2 shows that it is needed). **`QueueCorrect`**,
**`CancelCorrect`**, **`CancelReachesCorrect`** and **`NoOrphanCorrect`** are the four invariants of
cache, queue and cancellation. They follow together from
`CacheInv == Control /\ Queueing /\ Cancelling /\ NoOrphanedEntry`, whose further parts are:

* `NotYetQueued`: a request whose handler has not inserted yet is not in the queue, so that the
  one append does not repeat it;
* `FlaggedIfCancelled`: while a handler may still insert, a cancelled id has its flag set, so
  that the check under the lock cannot miss it;
* `CollectsAfterwards` and `OwnFlag`: a collector works only after its handler let go, and
  the table leads to the flag of the id's own submission, so that an erase hits nobody else's.

**`TurnsCorrect`** is the action property `NoLostTurn`. By `CacheSteps` the queue only loses members,
gains one at its end, or has its front moved to its end by the fetch of that very request;
`WithoutForward` and `JoinForward` say that this puts nobody else back. It needs `CacheInv` in both states: the queue has no repetition, so that a place is one.

`EntryDeliveryProofs` ties a client's rows to the children's answers through all that lies between.
`DeliveryInv` says, of each submission:

* `HandlerInv`: which parts of a submission have not begun, and that a collector which merges has
  seen every child end;
* `ResponseInv`, `EntryInv`: the first response and the entry are the cut of A's rows, or of all rows
  once they are known, under the chunk size that the response was made with, although the tuner has
  moved on;
* `ClientInv`: a client holds the first rows of the complete answer, as many as it has asked
  chunks for, or of A's own answer as long as nothing was merged;
* `CauseInv`, `FetchInv`: a rejected, cancelled or vanished request left its trace in `disturbed`, and
  who has something left to fetch finds its entry or such a trace.

`GoesOn` is the arithmetic under it: the i-th chunk continues the rows before it without a gap, and
the last one ends them, also where three places of the code count the chunks by different formulas.
**`DeliveryCorrect`** (`ExactDelivery`) and **`FailureCorrect`** (`FailureHasCause`) follow. The causes include
a call that ended at the client alone, in `disturbed` too: `CutOffKeeps` and `FailsKeeps` are the steps at
which a client leaves with its chunk taken or not, and nobody else notices.
`AnswerAssumption` says what the entry's first count and an answer of nobody are: A's rows are counted by their
number unless the query aggregates (node_server.cpp:411), and a merge of no answers adds nothing.

**`ImplementationCorrect`** is `Spec => ImplementsQueryService`: `EntryNodeRefinement` defines the
service's state from the node's, `ServiceInit` shows that it starts right, and `ServiceNext` goes through
the actions: submission, the first response, a fetch, an end for the client and a child's reply are
steps of the service, everything else leaves its view unchanged. It uses `DeliveryInv`, for what a fetch
delivers is a piece of the service's answer only if the entry holds that answer.

### Replica merge

`ReplicaMergeProofs` rests on `MergeInv`: `TypeOK`, `OnceEach` (each replica answers once for each
child), `OwnHash` (a hash names its maker), `MergedLast`. With it `BucketsOfOne` shows that no
bucket holds two answers in lite mode, and **`NoQuorumCorrect`** that a threshold of one or more
merges nothing, for any number of replicas. **`OrderCorrect`** adds `Passed` and `OfTargets`: only
answers of a child's own replicas that passed the checks are merged, in order and once, also when
groups overlap. **`MergeComplete`** is the other direction (`MergesWhoAnswered`): its invariant
`MergedSoFar` says that where one answer is enough every child the loop has passed is merged if it has
an acceptable answer, and that the loop starts only when nothing is pending, so that no later answer can
make a passed child acceptable.

### Workers

`WorkerTreeProofs` first proves the chunk arithmetic (`CeilBounds`, `CountProperties`,
`ChunkProperties`: the chunks of a sequence, put together, are the sequence) and
**`TypeCorrect`**, with the bound on each pool. The inductive invariant `WorkerInv` is `CallInv` of
every call, which ties the caller's rows to the chunks it has asked for and to the entry in the
cache, and `Owned`: whatever is cached under an id belongs to a call with that id at that node.
`DistinctKeys` (no two calls share an id at a node) makes the owner unique, so that no handler
disturbs another's entry. From it: **`ReassemblyCorrect`** (a caller that ends well holds exactly
what its handler merged, whatever the sizes), **`FailureCorrect`** and **`HeldCorrect`**.

**`RowsCorrect`** (`ExactRows`) goes from one call to the tree. `RowsInv` says what a handler has merged
is its node's rows and those of the finished calls it has taken (`TakenInv`), that a row comes from a node
of the same query that has started (`OriginInv`), and that two answers of a query share rows only
if one has been absorbed into its caller's (`ApartInv`); so no append repeats a row, in whatever order
the futures complete. Its premise `DistinctRows` is that a partition has no row twice and two nodes
none in common, which is what `split_data.py` makes; `CallsAssumption` says that a worker forwards its
request's id (node.py:525).

### Search

`QueryEngineProofs` assumes what `CommandLinesAssumption` and `PartitionsAssumption` say of types, and
that threads are numbered from one. Five facts carry it:

* `LookupExact`: in a permutation of the data in which times do not decrease, what lies between the two
  bounds is every record of the range and no other, also for records of equal times and empty ranges;
* `PartsFollow`, `PartsCover`, `PartsApart`: the shares of `schedule(static)` follow one another from
  the first place to the last, so that each place is in one thread's share, also if there are more
  threads than places;
* `FareOfList`: the sum over a list without repetition is that of the set of its members
  (`FaresOfBoth`: a sum over two disjoint sets is the two sums), so that the order in which threads hand in
  is of no account;
* `NarrowedIs`: the casts change the limits of passengers and zones and nothing else, and those not if
  they fit (`AsInt32Is`);
* `KeptIsAsked`: what the request keeps is what the command line asks for, but for fares, `CutZone` and limits
  that do not fit.

The inductive invariant `EngineInv` says that a thread has kept exactly what matches of the places it has
gone through (`ThePart`), that result, sum and count are those of the union of what was handed in
(`TheJoined`), and that at the end this is what the Python node would keep (`TheAnswer`). From it
**`EngineTypeCorrect`**, **`AnswerCorrect`** (`ExactAnswer`) and **`AgreementCorrect`** (`NodesAgree`). The proof of
`KeptIsAsked` for negative limits is what showed that a fraction of `--max` matters too.

### Reader, tree and figures

`CsvReaderProofs` has the theorems about `CsvChunks` and `RowReader`. Those about the ranges are for any file, any set of threads and any ranges. `LineAfterIsFirst`
and `NextGoodIsFirst` say what the two `CHOOSE`s pick: in a sequence that increases there is a first line
behind a byte, and a next line that parses. The invariant (**`ChunksInvariant`**) is that what a thread has
loaded is told by its position alone: the good lines before it that start behind the first byte of its
range and in it (`Wanted`), and no line that starts at or before that byte is still to come; the
sequential reader has the good lines before its own position. From it **`EachLineOnce`** (two ranges
want no line in common) and **`ChunksMakeTheFile`** (at the end a thread has loaded all it wants).

**`SplitCorrect`** (`SplitInvertsWriter`) is for any number of fields and any text of them. What a writer
puts behind one another is a recursive function over places (`Remainder`); that there is one, and only
one, is proved without induction over data, from the largest place behind which it would fail
(`Downward`, `RemainderExists`, `RemainderIs`). The invariant `SplitInv` says that the scan has
finished the fields before the k-th and stands at a place of it: `Opening`, in front of its text;
`Inside`, behind j characters between its quotes; or `Outside`, behind j characters of a field without quotes, or behind
the closing one. For each place it says what is still to be read: the rest of the field as the writer
wrote it, and the line from the next field on. `OpeningStep`, `InsideStep` and `OutsideStep` take one
character at each. The case that matters is `InsideStep`: a doubled quote is one character of the field,
while a quote before a comma or at the end of the line closes it. **`SplitTypeCorrect`** adds that the scan, which
moves by two characters behind a doubled quote, never passes the end (`PositionInLine`).

**`ReadCorrect`** (`ReadAlike`) rests on two facts about a single row and one about all of them.
`DaysAgree` compares the two calendars: `YearDaysAre` turns the loop over the years from 1970 into a closed form with
the leap days counted by three divisions (`LeapDaysStep`: one year adds one leap day or none), `MonthDaysAre`
the loop over the months into the table of the library, for every year from 1970 and every
month; `TimesAgree` adds the clock, with 12 AM and 12 PM. `RowsMadeAlike` says that both nodes make the same
of a row that is not odd, and that the Python node does not raise on it. `ReadInv` says that each node's
records are those that it made of the rows before its own, joined (`Joined`): with no odd row the two joins are
of the same parts. **`RowTypeCorrect`** (`RowTypeOK`) is that what the C++ node keeps fits its 8 and 16 bits.
`RowsAssumption` gives the types of a row's parts, and months from 0 to 13: above, the C++ node reads
behind its table (section 7).

`NodePartsProofs` has the theorems about `Topology` and `NodeMetrics`, and the one about the parts together.

**`EveryPartitionOnce`** for every edge list. The invariant `SearchInv` of one search
says that a node that is seen is queued, being looked at, or has all its neighbours seen (`Progress`);
that parents are seen neighbours (`Parents`); that nothing is seen that a set with the root and closed
under neighbours could do without (`Discovered`); and that the root is looked at first and so becomes the
parent of all its neighbours (`RootFirst`). At the end `Progress` makes the nodes seen a
closed set, and `Discovered` of the other search makes the two sets one. `RootFirst` is what fits the two
languages together: A's children by the C++ search are A's children by the Python one, so that no
Python node counts a child of A's as its own.

**`NoDetour`** (`NearestParent`) is the breadth-first argument. `Within[k]` is the set of nodes within k
edges of the root; `Levels` says that the queue is a run of nodes of one level followed by a run of the
next, that all of the level are seen, and nothing beyond the next one is; `Nearest` that a node that
is within k + 1 edges has its parent within k. `Within` is a recursive function over all numbers, so
its facts are proved by the least number for which they would fail (`NatLessThanWellFounded`).

**`MetricsTypeCorrect`** keeps every size within its limits, also the one a handler
loaded; **`TuningFollowsCalls`** needs that the loaded size, not only the stored one, is below the first
only after a slow call and above only after a fast one: a store replaces the size by one
that was derived from an older one.

**`SnapshotCorrect`** (`SnapshotExact`): `WindowInv` counts, for each second that is not over, the places of
the window that hold it, and says they are the completions of that second. An append adds one place; the
loop that drops outdated entries stops at the first that is not, and `KeptFrom` says that what it drops is
of no second that is still counted. The list need not be sorted.

**`PartsTypesCorrect`** (`PartsTypeOK`) joins the parts: each disjunct of `PartsNext` is a step of one part and leaves
the variables of the others alone, so that a behaviour of all of them is one of each (`EveryPartItself`), and
what is proved of one alone holds of it among the others.

### Messages

`MessagesProofs` assumes that the types are those of the tables and that fields hold integers. It is for
every message, any values and any number of calls, and rests on three things.

* *The tables agree.* `Agree(T)`, proved for each of the 17 messages from its tables: every field has the bit of its
  place in memory, in the accessors as in the parser's table; the serializer writes the fields by number;
  `Clear` resets each member under its bit, by ranges of memory or one by one; `MergeImpl` and
  `ByteSizeLong` go through the members by eights, each group under a mask that has all its bits; a tag takes two bytes
  from the sixteenth number on. This is where a wrong mask, a forgotten member or a tag one byte short would show.
* *One level.* Given what holds of the messages within, a message is as it should be. `SerializedRuns` and `ParsedIs`
  say what stands on the wire under one number and what the parser makes of it; `LookAlike`, that two objects
  with the same shown fields return the same; `MergedAndParsed`, that merging and parsing put the same part in each field.
  `SizesAgree`: `ByteSizeLong` adds by groups of members, the wire by numbers; `Regrouped` and `AnyOrder` say that
  neither grouping nor order changes a sum. A sum is a recursive function, so these facts are proved from the least length at which they
  would fail (`Upward`), as in the other modules.
* *Every level.* `...Unfolds` says that what a function makes of an object at a depth is its layer of what it makes of
  the parts, one depth less. `RoundTripStep`, `MergeStep` and `SizesStep` go from one depth to the next, and
  `EveryDepth` from nothing to three. `DepthsAgree` reads from the tables that a message's parts are less deep than it
  is, so that no accessor leads deeper.

The invariant, **`MessagesInvariantHolds`**, is that both objects are in `Objects3`: at every depth, a number that is
not zero or a repeated field that is not empty has its bit; a message whose bit is set is there; and one that is there without
its bit, kept by `Clear`, is cleared (`BitTells`). The last is needed: the parser and the accessors go on with the
message that is there, so that a field left over in it would come back (`ReceiverIsObject`). `MergeImpl`,
`ByteSizeLong` and the serializer look at the bits alone, so without the first a field would be lost.
From it **`RoundTripCorrect`** (`RoundTrip`), **`SizesCorrect`** (`SizeMatches`) and **`MergeParsesCorrect`** (`ParseMerges`).

### Only model-checked

The liveness properties `EveryQueryEnds`, `CacheDrains`, `EveryQuerySucceeds` and `EveryCallEnds`:
liveness under fairness is out of the prover's reach, as is `ENABLED`. Every other property of a passing run is
stated by a theorem.

## 7. Not modelled, and why

The partitioner is one sequential pass over a file with a counter. `Heartbeat` and the Python
management service answer constants and the time. Logging, printed measurements, the resolution
of the endpoint and the reading of JSON keep no state. Of the generated code, arenas, descriptors,
unknown fields and swaps, and the gRPC stubs, which pass calls on. Launch and benchmark scripts are no
part of the system. A month above 13 in a date with slashes reads behind the end of an array
(CsvReader.cpp:302); the instances stop at 13. `active_cancel_` keeps the id of a streamed query whose
collector ended after a cancellation, and `canceled_ids_` shrinks only when an id is used again; the
model shows both, and nothing promises otherwise. Calls that share an id at one worker (a client that
reuses ids, a node that stands for two children) are outside the properties of `WorkerTree`, whose
premise `DistinctKeys` names them. Deadlines have no lengths in the models: that a parent's deadline runs
out before those of its children is among the behaviours, but not singled out.
