------------------------------ MODULE MCNodeParts ------------------------------
(***************************************************************************)
(* The parts of a node and of the client that share no state with the       *)
(* calls between the nodes, on small instances: the loader of chunks, the    *)
(* two readers of rows, the search, the derivation of the children, the      *)
(* node's figures and the generated messages.  A behaviour is one of one     *)
(* part; the others stay in one initial state.                              *)
(***************************************************************************)
EXTENDS CsvChunks, RowReader, QueryEngine, Topology, NodeMetrics, Messages

VARIABLE part       \* the part that takes steps

Parts == {"chunks", "split", "rows", "engine", "topology", "metrics", "messages"}

-----------------------------------------------------------------------------
(* Chunks: a file of five lines, cut by three threads at any two bytes, with *)
(* ranges that share the byte they meet at, and ranges that do not.          *)

MCFiles ==
    {[start |-> <<0, 2, 3, 5, 6>>, kind |-> k] :
        k \in {<<"blank", "good", "good", "bad", "good">>, <<"blank", "good", "blank", "good", "good">>}}

MCRanges ==
    {r \in {[lo |-> <<0, a, b>>, hi |-> <<c, d, e>>] : a, b, c, d \in 0 .. 6, e \in {6, 7}} :
        /\ r.lo[1] <= r.hi[1] /\ r.lo[2] <= r.hi[2] /\ r.lo[3] <= r.hi[3]
        /\ r.hi[1] \in {r.lo[2], r.lo[2] - 1} /\ r.hi[2] \in {r.lo[3], r.lo[3] - 1}}

-----------------------------------------------------------------------------
(* Rows: a good one, and those that differ from it in one or two fields.     *)

Num(form, value) == [form |-> form, value |-> value]

Date(form, y, m, d, h, half) ==
    [ form |-> form, padded |-> FALSE, year |-> y, month |-> m, day |-> d,
      hour |-> h, minute |-> 47, second |-> 38, half |-> half ]

Base ==
    [ pickup |-> Date("name", 2018, 12, 31, 11, "PM"),
      dropoff |-> Date("name", 2019, 1, 1, 12, "AM"), columns |-> 17,
      passengers |-> Num("plain", 10), location |-> Num("plain", 1380),
      distance |-> Num("fraction", 15), total |-> Num("plain", 250) ]

Stamps ==
    { Date("slash", 2016, 2, 29, 12, "PM"), Date("name", 2016, 2, 29, 11, "PM"),
      Date("name", 2000, 2, 29, 12, "AM"), Date("slash", 2000, 3, 1, 1, "AM"),
      Date("name", 2017, 2, 29, 1, "AM"), Date("slash", 1970, 1, 1, 1, "AM"),
      Date("name", 1969, 12, 31, 1, "AM"), Date("name", 2018, 12, 31, 13, "PM"),
      Date("slash", 2018, 13, 1, 1, "AM"), Date("name", 2018, 0, 1, 1, "AM"),
      Date("name", 2018, 12, 31, 11, "none"), Date("iso", 2018, 12, 31, 23, "none"),
      [Date("iso", 2018, 12, 31, 23, "none") EXCEPT !.padded = TRUE],
      [Date("slash", 2018, 12, 31, 11, "AM") EXCEPT !.padded = TRUE],
      Date("empty", 2018, 1, 1, 1, "AM"),
      [Date("name", 2018, 12, 31, 11, "PM") EXCEPT !.second = 60],
      Date("slash", 2036, 12, 31, 1, "AM"), Date("iso", 2036, 12, 31, 1, "none") }

Ints ==
    { Num("plain", 0), Num("plain", 2550), Num("plain", 2560), Num("plain", -10),
      Num("plain", 327680), Num("huge", 2000000000), Num("blank", 0),
      Num("grouped", 123450), Num("fraction", 15), Num("word", 0) }

Doubles ==
    { Num("plain", 0), Num("huge", 2000000000), Num("fraction", -25), Num("grouped", 123455),
      Num("blank", 0), Num("word", 0) }

MCRows ==
    {[Base EXCEPT !.pickup = t, !.dropoff = u] :
        t \in Stamps \cup {Base.pickup}, u \in Stamps \cup {Base.dropoff}}
    \cup {[Base EXCEPT !.passengers = t, !.location = u] : t, u \in Ints}
    \cup {[Base EXCEPT !.distance = t, !.total = u] : t, u \in Doubles}
    \cup {[Base EXCEPT !.columns = c] : c \in {1, 16, 18, 19, 20}}

MCFields == UNION {[1 .. n -> Characters] : n \in 0 .. 2}

-----------------------------------------------------------------------------
(* Queries of every type, with ranges that are empty, one value, or more, and *)
(* limits of zones and passengers that 32 bits do not hold.                  *)

Rec(pickup, distance, location, passengers, fare, total) ==
    [ pickup |-> pickup, distance |-> distance, location |-> location,
      passengers |-> passengers, fare |-> fare, total |-> total ]

MCPartitions ==
    { <<>>,
      <<Rec(2, 15, 1, 1, 10, 20), Rec(1, 20, 2, 2, 30, 35), Rec(2, 5, 3, 1, 40, 45)>>,
      <<Rec(1, 10, 1, 1, 10, 20), Rec(1, 20, 1, 2, 30, 35), Rec(1, 10, 2, 0, 20, 30),
        Rec(0, 20, 2, 1, 5, 10), Rec(3, 10, 0, 1, 50, 60)>> }

MCCommandLines ==
    { <<<<"type", type>>, <<"start", a>>, <<"end", b>>>> :
        type \in {"time", "aggregate"}, a, b \in 0 .. 3 }
    \cup
    { <<<<"type", type>>, <<"min", a>>, <<"max", b>>>> :
        type \in {"distance", "fare", "location"}, a \in {-160, -15, 0, 10, 15, 30},
        b \in {-5, 10, 25, 40, 170} }
    \cup
    { <<<<"type", "combined">>, <<"start", a>>, <<"end", b>>, <<"distMin", c>>,
        <<"distMax", 15>>, <<"passMin", 1>>, <<"passMax", d>>>> :
        a, b \in 0 .. 2, c \in {0, 10}, d \in {1, 2, 17, 8} }
    \cup {<<<<"type", "time">>, <<"start", 3>>, <<"end", 2>>, <<"start", 1>>>>, <<<<"type", "tip">>>>}

-----------------------------------------------------------------------------
(* The edges of config/topology.json, A to I numbered, none, a self-loop with *)
(* an edge twice and a part without A, A without edges, and every order of    *)
(* two graphs with a cycle.                                                   *)

Shipped ==
    << <<1, 2>>, <<2, 3>>, <<2, 4>>, <<2, 5>>, <<5, 6>>, <<5, 4>>, <<5, 7>>, <<1, 8>>,
       <<1, 7>>, <<1, 9>> >>

Orders(list) ==
    {[i \in DOMAIN list |-> list[p[i]]] :
        p \in {q \in [DOMAIN list -> DOMAIN list] : IsInjective(q)}}

MCEdges ==
    {Shipped, <<>>, <<<<2, 2>>, <<2, 1>>, <<1, 2>>, <<4, 5>>>>, <<<<2, 3>>, <<3, 2>>>>}
    \cup Orders(<<<<3, 1>>, <<1, 2>>, <<4, 2>>, <<3, 4>>>>)
    \cup Orders(<<<<1, 3>>, <<3, 2>>, <<1, 2>>, <<2, 4>>>>)

\* A number of two bytes, and one that takes all ten.
MCNumbers == {0, 300, -1}

\* Every message of the protocol.
MCKinds == DOMAIN Tables

-----------------------------------------------------------------------------

PartsInit ==
    /\ part \in Parts
    /\ IF part = "chunks" THEN CsvInit
       ELSE file = (CHOOSE f \in Files : TRUE) /\ range = (CHOOSE r \in Ranges : TRUE) /\ CsvInit
    /\ IF part = "split" THEN SplitInit ELSE fields = <<<<>>>> /\ line = <<>> /\ SplitInit
    /\ IF part = "rows" THEN RowInit ELSE rows = <<Base>> /\ RowInit
    /\ IF part = "engine" THEN EngineInit ELSE table = <<>> /\ EngineInit
    /\ IF part = "topology" THEN TopologyInit ELSE edges = <<>> /\ TopologyInit
    /\ IF part = "metrics" THEN MetricsInit ELSE first = FirstSize(55) /\ MetricsInit
    /\ IF part = "messages" THEN MessagesInit ELSE kind = "ChunkRequest" /\ MessagesInit

partsVars == <<csvVars, splitVars, rowVars, engineVars, topologyVars, metricsVars, messageVars, part>>

PartsNext ==
    \/ /\ part = "chunks" /\ CsvNext
       /\ UNCHANGED <<splitVars, rowVars, engineVars, topologyVars, metricsVars, messageVars, part>>
    \/ /\ part = "split" /\ SplitNext
       /\ UNCHANGED <<csvVars, rowVars, engineVars, topologyVars, metricsVars, messageVars, part>>
    \/ /\ part = "rows" /\ RowNext
       /\ UNCHANGED <<csvVars, splitVars, engineVars, topologyVars, metricsVars, messageVars, part>>
    \/ /\ part = "engine" /\ EngineNext
       /\ UNCHANGED <<csvVars, splitVars, rowVars, topologyVars, metricsVars, messageVars, part>>
    \/ /\ part = "topology" /\ TopologyNext
       /\ UNCHANGED <<csvVars, splitVars, rowVars, engineVars, metricsVars, messageVars, part>>
    \/ /\ part = "metrics" /\ MetricsNext
       /\ UNCHANGED <<csvVars, splitVars, rowVars, engineVars, topologyVars, messageVars, part>>
    \/ /\ part = "messages" /\ MessagesNext
       /\ UNCHANGED <<csvVars, splitVars, rowVars, engineVars, topologyVars, metricsVars, part>>

PartsSpec == PartsInit /\ [][PartsNext]_partsVars
-----------------------------------------------------------------------------

\* Every part stays within its types and limits: positions within the file and the
\* line, values within their fields' types, indices of records, chunk sizes.  (A part that
\* takes no steps is in an initial state of the ones that are looked at.)
PartsTypeOK ==
    /\ part = "chunks" => CsvTypeOK
    /\ part = "split" => SplitTypeOK
    /\ part = "rows" => RowTypeOK
    /\ part = "engine" => EngineTypeOK
    /\ part = "topology" => TopologyTypeOK
    /\ part = "metrics" => MetricsTypeOK
===============================================================================
