----------------------------- MODULE QueryEngine -----------------------------
(***************************************************************************)
(* One query at one node: the client's options (parse_cli and              *)
(* fill_query_request in cpp/client/client.cpp), the request they make, the *)
(* search at the C++ node (execute_local_query of cpp/server/node_server.cpp,*)
(* QueryEngine and TimeIndex in cpp/src) with its OpenMP threads, and the   *)
(* search of the Python node (python/query_engine.py).                      *)
(*                                                                          *)
(* Sums are over integers: the rounding of a sum in another order is left   *)
(* out, as is the average, which both nodes derive from sum and count.      *)
(* Distances, amounts and the client's --min and --max are in tenths.        *)
(***************************************************************************)
EXTENDS Integers, Sequences, FiniteSets, FiniteSetsExt, Functions

CONSTANTS
    Partitions,         \* the records a node may hold: sequences of records
    CommandLines,   \* sequences of <<option, value>>
    OmpThreads,     \* the threads of a parallel region, 1 .. n
    SmallResult,    \* below this many records a time query is not searched in parallel
    Int32Half       \* how many std::int32_t are not negative: 2^31 in the code

Types == {"time", "distance", "fare", "location", "combined", "aggregate"}

\* The numbers of a record, and what an option is followed by.
Columns == {"pickup", "distance", "location", "passengers", "fare", "total"}
Ranged == {"start", "end", "min", "max", "distMin", "distMax", "passMin", "passMax"}
Arguments == ({"type"} \X STRING) \cup (Ranged \X Int)

ASSUME PartitionsAssumption == Partitions \subseteq Seq([Columns -> Int])
ASSUME CommandLinesAssumption == CommandLines \subseteq Seq(Arguments)
ASSUME OmpAssumption ==
    IsFiniteSet(OmpThreads) /\ OmpThreads # {} /\ OmpThreads = 1 .. Cardinality(OmpThreads)
ASSUME SmallAssumption == SmallResult \in Nat
ASSUME Int32Assumption == Int32Half \in Nat \ {0}

VARIABLES
    table,      \* data_
    built,      \* TimeIndex::built_
    indices,    \* TimeIndex::indices_
    typed,      \* what the command line says (only the properties look at it)
    options,    \* the client's options
    request,    \* the QueryRequest they make
    search,     \* what the search is at: "none", "parallel", "done"
    todo,       \* the records the search goes through, as indices into data_
    place,      \* the place in todo that a thread comes to next
    slice,      \* local: what a thread has kept of its part so far
    joined,     \* the threads that have handed in their part
    found,      \* result.records
    sum, count  \* aggregation_sum, aggregation_count

engineVars == <<table, built, indices, typed, options, request, search, todo, place, slice, joined,
                found, sum, count>>

-----------------------------------------------------------------------------
(* The client.                                                              *)

NoOptions == [ type |-> "", start |-> 0, end |-> 0, min |-> 0, max |-> 0,
               distMin |-> 0, distMax |-> 0, passMin |-> 0, passMax |-> 0,
               intMin |-> 0, intMax |-> 0 ]

\* The last one of an option counts.
Given(arguments) ==
    [o \in DOMAIN NoOptions |->
        LET places == {i \in DOMAIN arguments : arguments[i][1] = o}
        IN  IF places = {} THEN NoOptions[o] ELSE arguments[Max(places)][2]]

\* static_cast<long> of a double, static_cast<std::int32_t> of a long.
Whole(tenths) == IF tenths >= 0 THEN tenths \div 10 ELSE - ((- tenths) \div 10)
AsInt32(n) == ((n + Int32Half) % (2 * Int32Half)) - Int32Half
Int32 == - Int32Half .. Int32Half - 1

\* The limits of passengers are kept in 32 bits, and those of zones as well.
Narrowed(opt) ==
    LET If(limit) == IF opt.type = "location" THEN AsInt32(Whole(limit)) ELSE 0
    IN  [opt EXCEPT !.passMin = AsInt32(@), !.passMax = AsInt32(@),
                    !.intMin = If(opt.min), !.intMax = If(opt.max)]

ParseCli(arguments) == Narrowed(Given(arguments))

\* fill_query_request: only the message of the type is filled, the others keep zeros.
FillQueryRequest(opt) ==
    LET If(types, range) == IF opt.type \in types THEN range ELSE <<0, 0>>
    IN  [ type |-> opt.type,
          time |-> If({"time", "aggregate"}, <<opt.start, opt.end>>),
          numeric |-> If({"distance", "fare"}, <<opt.min, opt.max>>),
          int |-> If({"location"}, <<opt.intMin, opt.intMax>>),
          combined |-> [ time |-> If({"combined"}, <<opt.start, opt.end>>),
                         distance |-> If({"combined"}, <<opt.distMin, opt.distMax>>),
                         passengers |-> If({"combined"}, <<opt.passMin, opt.passMax>>) ] ]

-----------------------------------------------------------------------------
(* The C++ node.                                                            *)

\* TimeIndex::build: std::sort orders records of the same time in any way.
SortedIndices(t) ==
    {p \in Bijection(DOMAIN t, DOMAIN t) :
        \A i, j \in DOMAIN t : i < j => t[p[i]].pickup <= t[p[j]].pickup}

\* Mutant: the records of the last second are left out.
Lookup_LowerBoundTwice(start, end) ==
    LET n == Len(indices)
        lo == Min({i \in 1 .. n : table[indices[i]].pickup >= start} \cup {n + 1})
        hi == Min({i \in lo .. n : table[indices[i]].pickup >= end} \cup {n + 1})
    IN  SubSeq(indices, lo, hi - 1)

\* TimeIndex::lookup: from the first index that is not before start to the first,
\* from there on, that is behind end.
Lookup(start, end) ==
    LET n == Len(indices)
        lo == Min({i \in 1 .. n : table[indices[i]].pickup >= start} \cup {n + 1})
        hi == Min({i \in lo .. n : table[indices[i]].pickup > end} \cup {n + 1})
    IN  SubSeq(indices, lo, hi - 1)

In(value, range) == range[1] <= value /\ value <= range[2]

\* What is asked of each record; the time is asked only without an index.
Keeps(q, r) ==
    CASE q.type \in {"time", "aggregate"} -> built \/ In(r.pickup, q.time)
      [] q.type = "distance" -> In(r.distance, q.numeric)
      [] q.type = "fare" -> In(r.total, q.numeric)
      [] q.type = "location" -> In(r.location, q.int)
      [] q.type = "combined" -> /\ built \/ In(r.pickup, q.combined.time)
                                /\ In(r.distance, q.combined.distance)
                                /\ In(r.passengers, q.combined.passengers)

AllRecords == [i \in DOMAIN table |-> i]

Candidates(q) ==
    IF ~ built THEN AllRecords
    ELSE CASE q.type \in {"time", "aggregate"} -> Lookup(q.time[1], q.time[2])
           [] q.type = "combined" -> Lookup(q.combined.time[1], q.combined.time[2])
           [] OTHER -> AllRecords

EngineInit ==
    /\ table \in Partitions
    /\ built = FALSE /\ indices = <<>>
    /\ typed = NoOptions /\ options = NoOptions /\ request = FillQueryRequest(NoOptions)
    /\ search = "none" /\ todo = <<>>
    /\ place = [t \in OmpThreads |-> 1] /\ slice = [t \in OmpThreads |-> <<>>] /\ joined = {}
    /\ found = <<>> /\ sum = 0 /\ count = 0

searchVars == <<place, slice, joined, found, sum, count>>

\* build_indexes, before the first query or never.
BuildIndexes ==
    /\ search = "none" /\ ~ built
    /\ indices' \in SortedIndices(table)
    /\ built' = TRUE
    /\ UNCHANGED <<table, typed, options, request, search, todo, searchVars>>

\* The sums of the first n values, for each n.
Sums(values) ==
    LET Sum[n \in 0 .. Len(values)] == IF n = 0 THEN 0 ELSE Sum[n - 1] + values[n]
    IN  Sum

FareOf(list) == Sums([k \in DOMAIN list |-> table[list[k]].fare])[Len(list)]

\* schedule(static): contiguous parts, the first threads take one more if need be.
PartStart(n, t) ==
    LET share == n \div Cardinality(OmpThreads)
        rest == n % Cardinality(OmpThreads)
    IN  (t - 1) * share + (IF t - 1 < rest THEN t - 1 ELSE rest) + 1

\* The client asks for one of the types that it knows; execute_local_query finds the
\* records to go through, and returns at once those of a small time window.
Submit ==
    /\ search = "none"
    /\ \E arguments \in CommandLines :
           /\ typed' = Given(arguments)
           /\ options' = ParseCli(arguments)
           /\ options'.type \in Types
           /\ request' = FillQueryRequest(options')
    /\ todo' = Candidates(request')
    /\ IF request'.type = "time" /\ built /\ Len(todo') < SmallResult
       THEN /\ search' = "done"
            /\ found' = todo' /\ sum' = FareOf(todo') /\ count' = Len(todo')
            /\ UNCHANGED place
       ELSE /\ search' = "parallel"
            /\ place' = [t \in OmpThreads |-> PartStart(Len(todo'), t)]
            /\ UNCHANGED <<found, sum, count>>
    /\ UNCHANGED <<table, built, indices, slice, joined>>

PartEnd(t) == PartStart(Len(todo), t + 1)

\* A thread looks at the next record of its part, and keeps it in a vector of its own
\* if it matches.
ScanRecord(t) ==
    LET i == todo[place[t]]
    IN  /\ search = "parallel" /\ place[t] < PartEnd(t)
        /\ place' = [place EXCEPT ![t] = @ + 1]
        /\ slice' = IF Keeps(request, table[i]) THEN [slice EXCEPT ![t] = Append(@, i)] ELSE slice
        /\ UNCHANGED <<table, built, indices, typed, options, request, search, todo, joined,
                       found, sum, count>>

\* A thread that has gone through its part appends its vector (omp critical), or adds
\* its sum and count (reduction), in whatever order the threads come.
JoinPart(t) ==
    /\ search = "parallel" /\ place[t] = PartEnd(t) /\ t \notin joined
    /\ joined' = joined \cup {t}
    /\ IF request.type = "aggregate"
       THEN /\ sum' = sum + FareOf(slice[t]) /\ count' = count + Len(slice[t])
            /\ UNCHANGED found
       ELSE found' = found \o slice[t] /\ UNCHANGED <<sum, count>>
    /\ UNCHANGED <<table, built, indices, typed, options, request, search, todo, place, slice>>

\* The region ends with its last thread; the sum of a search is made of its records.
EndSearch ==
    /\ search = "parallel" /\ joined = OmpThreads
    /\ search' = "done"
    /\ IF request.type = "aggregate" THEN UNCHANGED <<sum, count>>
       ELSE sum' = FareOf(found) /\ count' = Len(found)
    /\ UNCHANGED <<table, built, indices, typed, options, request, todo, place, slice, joined,
                   found>>

EngineNext ==
    BuildIndexes \/ Submit \/ EndSearch \/ \E t \in OmpThreads : ScanRecord(t) \/ JoinPart(t)

EngineSpec == EngineInit /\ [][EngineNext]_engineVars

-----------------------------------------------------------------------------
(* The Python node (q1_time_range to q6_aggregation, execute_request).      *)

\* Mutant: the fare a query asks for is the fare_amount, as README.md:26 has it.
PyKeeps_FareAmount(q, r) ==
    CASE q.type \in {"time", "aggregate"} -> In(r.pickup, q.time)
      [] q.type = "distance" -> In(r.distance, q.numeric)
      [] q.type = "fare" -> In(r.fare, q.numeric)
      [] q.type = "location" -> In(r.location, q.int)
      [] q.type = "combined" -> In(r.pickup, q.combined.time) /\ In(r.distance, q.combined.distance)
                                /\ In(r.passengers, q.combined.passengers)

PyKeeps(q, r) ==
    CASE q.type \in {"time", "aggregate"} -> In(r.pickup, q.time)
      [] q.type = "distance" -> In(r.distance, q.numeric)
      [] q.type = "fare" -> In(r.total, q.numeric)
      [] q.type = "location" -> In(r.location, q.int)
      [] q.type = "combined" -> In(r.pickup, q.combined.time) /\ In(r.distance, q.combined.distance)
                                /\ In(r.passengers, q.combined.passengers)

\* The records that match, of an aggregate too, for which the C++ node returns none;
\* their sum and count go with every answer.
PyMatched == {i \in DOMAIN table : PyKeeps(request, table[i])}
PySum ==
    Sums([i \in DOMAIN table |-> IF i \in PyMatched THEN table[i].fare ELSE 0])[Len(table)]

-----------------------------------------------------------------------------

EngineTypeOK ==
    /\ indices \in Seq(DOMAIN table) /\ todo \in Seq(DOMAIN table) /\ found \in Seq(DOMAIN table)
    /\ request.type \in Types \cup {""} /\ search \in {"none", "parallel", "done"}
    /\ place \in [OmpThreads -> 1 .. Len(todo) + 1] /\ joined \subseteq OmpThreads
    /\ slice \in [OmpThreads -> Seq(DOMAIN table)]
    /\ sum \in Int /\ count \in Nat
    /\ \A o \in {"passMin", "passMax", "intMin", "intMax"} : options[o] \in Int32

\* The records the command line asks for, as README.md:22-30 says.
Asked(r) ==
    CASE typed.type \in {"time", "aggregate"} -> In(r.pickup, <<typed.start, typed.end>>)
      [] typed.type = "distance" -> In(r.distance, <<typed.min, typed.max>>)
      [] typed.type = "fare" -> In(r.fare, <<typed.min, typed.max>>)
      [] typed.type = "location" -> In(10 * r.location, <<typed.min, typed.max>>)
      [] typed.type = "combined" -> /\ In(r.pickup, <<typed.start, typed.end>>)
                                    /\ In(r.distance, <<typed.distMin, typed.distMax>>)
                                    /\ In(r.passengers, <<typed.passMin, typed.passMax>>)

\* A limit of 2^31 or more wraps around: the client asks for something else.
Fits ==
    /\ typed.type = "location" => Whole(typed.min) \in Int32 /\ Whole(typed.max) \in Int32
    /\ typed.type = "combined" => typed.passMin \in Int32 /\ typed.passMax \in Int32

\* A zone range from 1.5 on asks for zone 1 too, and one up to -0.5 for zone 0: the
\* client cuts the fractions off.
CutZone ==
    /\ typed.type = "location"
    /\ \/ typed.min > 0 /\ typed.min % 10 # 0
       \/ typed.max < 0 /\ typed.max % 10 # 0

\* A search returns each record that the command line asks for once, and no other,
\* whatever the interleaving of the threads, the order of equal times in the index, and
\* with or without the index.  A query for fares is left to FareFiltersFare, which the
\* code does not keep; an aggregate returns no records.
ExactAnswer ==
    search = "done" /\ typed.type \notin {"aggregate", "fare"} /\ ~ CutZone /\ Fits =>
        /\ IsInjective(found)
        /\ Range(found) = {i \in DOMAIN table : Asked(table[i])}

\* The two kinds of node give a request the same answer ("Keep aligned",
\* query_engine.py:64, 72): the same records but for an aggregate, the same sum and
\* the same count.
NodesAgree ==
    search = "done" =>
        /\ options.type # "aggregate" => Range(found) = PyMatched
        /\ sum = PySum /\ count = Cardinality(PyMatched)

\* "`fare` | fare_amount in [min, max] dollars" (README.md:26): a query for fares returns
\* the records whose fare is in the range.  Both nodes look at total_amount.
FareFiltersFare ==
    search = "done" /\ typed.type = "fare" =>
        Range(found) = {i \in DOMAIN table : Asked(table[i])}
=============================================================================
