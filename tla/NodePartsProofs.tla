---------------------------- MODULE NodePartsProofs ----------------------------
(***************************************************************************)
(* Theorems about Topology, for every set of nodes and every list of edges,  *)
(* about NodeMetrics, for every number of handlers, all limits of the chunk  *)
(* size and every configured size, and about the parts of a node together.   *)
(***************************************************************************)
EXTENDS MCNodeParts, CsvReaderProofs, QueryEngineProofs

-----------------------------------------------------------------------------
(* Sequences as queues.                                                     *)

LEMMA AppendMembers ==
    ASSUME NEW S, NEW list \in Seq(S), NEW e
    PROVE  Members(Append(list, e)) = Members(list) \cup {e}
<1> DEFINE longer == Append(list, e)
<1>1. DOMAIN list = 1 .. Len(list) /\ DOMAIN longer = 1 .. Len(list) + 1 /\ Len(list) \in Nat
  OBVIOUS
<1>2. longer[Len(list) + 1] = e /\ \A i \in 1 .. Len(list) : longer[i] = list[i]
  OBVIOUS
<1> HIDE DEF longer
<1>3. Members(longer) \subseteq Members(list) \cup {e}
  BY <1>1, <1>2 DEF Members
<1>4. Members(list) \cup {e} \subseteq Members(longer)
  BY <1>1, <1>2 DEF Members
<1> QED
  BY <1>3, <1>4 DEF longer

LEMMA HeadTailMembers ==
    ASSUME NEW S, NEW list \in Seq(S), list # <<>>
    PROVE  /\ Head(list) \in S /\ Tail(list) \in Seq(S)
           /\ Members(list) = {Head(list)} \cup Members(Tail(list))
<1>1. DOMAIN list = 1 .. Len(list) /\ DOMAIN Tail(list) = 1 .. Len(list) - 1 /\ Len(list) \in Nat \ {0}
  OBVIOUS
<1>2. Head(list) = list[1] /\ \A i \in 1 .. Len(list) - 1 : Tail(list)[i] = list[i + 1]
  OBVIOUS
<1>3. Members(list) \subseteq {Head(list)} \cup Members(Tail(list))
  <2> SUFFICES ASSUME NEW i \in 1 .. Len(list), i # 1
               PROVE  list[i] \in Members(Tail(list))
    BY <1>1, <1>2 DEF Members
  <2>1. i - 1 \in DOMAIN Tail(list) /\ Tail(list)[i - 1] = list[i]
    BY <1>1, <1>2
  <2> QED
    BY <2>1 DEF Members
<1>4. {Head(list)} \cup Members(Tail(list)) \subseteq Members(list)
  BY <1>1, <1>2 DEF Members
<1> QED
  BY <1>3, <1>4

-----------------------------------------------------------------------------
(* The inductive invariant.                                                 *)

\* A node that is seen has been looked at, or is queued, or is being looked at.
Progress(s) ==
    \A n \in Seen(s) :
        \/ n \in Members(queue[s])
        \/ n = current[s] /\ Neighbours(n) \ ahead[s] \subseteq Seen(s)
        \/ Neighbours(n) \subseteq Seen(s)

\* Parents are seen neighbours; the root has none.
Parents(s) ==
    /\ parent[s][RootId] = NoNode
    /\ \A m \in NodeIds \ {RootId} :
           parent[s][m] # Unseen => parent[s][m] \in Seen(s) /\ m \in Neighbours(parent[s][m])

\* What is queued, and what is being looked at, is seen.
Looking(s) ==
    /\ Members(queue[s]) \subseteq Seen(s)
    /\ current[s] # NoNode => current[s] \in Seen(s) /\ ahead[s] \subseteq Neighbours(current[s])

\* The root is looked at first, and is the parent of all its neighbours.
RootFirst(s) ==
    /\ current[s] = NoNode =>
           queue[s] = <<RootId>> /\ ahead[s] = {} /\ Seen(s) = {RootId}
    /\ current[s] # NoNode => RootId \notin Members(queue[s])
    /\ current[s] = RootId => \A m \in Seen(s) \ {RootId} : parent[s][m] = RootId
    /\ current[s] \notin {NoNode, RootId} =>
           \A m \in Neighbours(RootId) \ {RootId} : parent[s][m] = RootId

\* Nothing is seen that cannot be reached: any set with the root and the neighbours of
\* all its nodes has every node that is seen.
Discovered(s) ==
    \A T \in SUBSET NodeIds :
        RootId \in T /\ (\A n \in T : Neighbours(n) \subseteq T) => Seen(s) \subseteq T

SearchInv(s) == Progress(s) /\ Parents(s) /\ Looking(s) /\ RootFirst(s) /\ Discovered(s)

TopologyInv == TopologyTypeOK /\ \A s \in Searches : SearchInv(s)

LEMMA NodesAreNumbers ==
    NodeIds \subseteq Nat /\ NoNode \notin NodeIds /\ Unseen \notin NodeIds /\ RootId \in NodeIds
  BY TopologyAssumption DEF NoNode, Unseen

LEMMA InitTopology == TopologyInit => TopologyInv
<1> SUFFICES ASSUME TopologyInit PROVE TopologyInv
  OBVIOUS
<1>1. TopologyTypeOK
  BY NodesAreNumbers DEF TopologyInit, TopologyTypeOK
<1>2. ASSUME NEW s \in Searches PROVE SearchInv(s)
  <2>1. Seen(s) = {RootId} /\ queue[s] = <<RootId>> /\ current[s] = NoNode /\ ahead[s] = {}
    <3>1. queue[s] = <<RootId>> /\ current[s] = NoNode /\ ahead[s] = {}
      BY DEF TopologyInit
    <3>2. \A n \in NodeIds : parent[s][n] = IF n = RootId THEN NoNode ELSE Unseen
      BY DEF TopologyInit
    <3>3. NoNode # Unseen
      BY DEF NoNode, Unseen
    <3>4. Seen(s) = {RootId}
      BY <3>2, <3>3, NodesAreNumbers DEF Seen
    <3> QED
      BY <3>1, <3>4
  <2>2. Members(queue[s]) = {RootId}
    BY <2>1 DEF Members
  <2>3. Parents(s)
    BY NodesAreNumbers DEF TopologyInit, Parents
  <2> QED
    BY <2>1, <2>2, <2>3, NodesAreNumbers DEF SearchInv, Progress, Looking, RootFirst, Discovered
<1> QED
  BY <1>1, <1>2 DEF TopologyInv

\* The edges stay as they are, and with them who is whose neighbour.
LEMMA SameNeighbours ==
    ASSUME UNCHANGED edges
    PROVE  \A n : Neighbours(n)' = Neighbours(n)
  BY DEF Neighbours

\* A step of one search leaves the other alone.
LEMMA OtherSearch ==
    ASSUME TopologyInv, NEW s \in Searches, NEW t \in Searches, s # t, UNCHANGED edges,
           parent'[t] = parent[t], queue'[t] = queue[t], current'[t] = current[t], ahead'[t] = ahead[t]
    PROVE  SearchInv(t)'
<1>1. Seen(t)' = Seen(t) /\ Members(queue[t])' = Members(queue[t])
  BY DEF Seen, Members
<1>2. \A n : Neighbours(n)' = Neighbours(n)
  BY SameNeighbours
<1>3. SearchInv(t)
  BY DEF TopologyInv
<1>4. Progress(t)'
  BY <1>1, <1>2, <1>3 DEF SearchInv, Progress
<1>5. Parents(t)'
  BY <1>1, <1>2, <1>3 DEF SearchInv, Parents
<1>6. Looking(t)'
  BY <1>1, <1>2, <1>3 DEF SearchInv, Looking
<1>7. RootFirst(t)'
  BY <1>1, <1>2, <1>3 DEF SearchInv, RootFirst
<1>8. Discovered(t)'
  BY <1>1, <1>2, <1>3 DEF SearchInv, Discovered
<1> QED
  BY <1>4, <1>5, <1>6, <1>7, <1>8 DEF SearchInv

LEMMA DequeueKeeps ==
    ASSUME TopologyInv, NEW s \in Searches, Dequeue(s)
    PROVE  TopologyInv'
<1> DEFINE n == Head(queue[s])
<1>1. queue[s] \in Seq(NodeIds) /\ queue[s] # <<>> /\ SearchInv(s)
  BY DEF TopologyInv, TopologyTypeOK, Dequeue
<1>2. /\ n \in NodeIds /\ Tail(queue[s]) \in Seq(NodeIds)
      /\ Members(queue[s]) = {n} \cup Members(Tail(queue[s]))
  BY <1>1, HeadTailMembers
<1>3. Neighbours(n) \subseteq NodeIds
  BY DEF Neighbours
<1>4. TopologyTypeOK'
  BY <1>2, <1>3 DEF Dequeue, TopologyInv, TopologyTypeOK
<1>5. /\ queue'[s] = Tail(queue[s]) /\ current'[s] = n /\ ahead'[s] = Neighbours(n)
      /\ UNCHANGED <<edges, parent>> /\ ahead[s] = {}
  BY DEF Dequeue, TopologyInv, TopologyTypeOK
<1> HIDE DEF n
<1>6. Seen(s)' = Seen(s) /\ \A k : Neighbours(k)' = Neighbours(k)
  BY <1>5, SameNeighbours DEF Seen
<1>7. n \in Seen(s) /\ n # NoNode
  BY <1>1, <1>2, NodesAreNumbers DEF SearchInv, Looking
<1>8. Members(queue[s])' = Members(Tail(queue[s]))
  BY <1>5 DEF Members
<1>9. SearchInv(s)'
  <2>1. Progress(s)'
    BY <1>1, <1>2, <1>5, <1>6, <1>8 DEF SearchInv, Progress
  <2>2. Parents(s)'
    BY <1>1, <1>5, <1>6 DEF SearchInv, Parents
  <2>3. Looking(s)'
    BY <1>1, <1>2, <1>5, <1>6, <1>7, <1>8 DEF SearchInv, Looking
  <2>4. RootFirst(s)'
    <3>1. CASE current[s] = NoNode
      <4>1. queue[s] = <<RootId>> /\ Seen(s) = {RootId}
        BY <1>1, <3>1 DEF SearchInv, RootFirst
      <4>2. n = RootId /\ Tail(queue[s]) = <<>>
        BY <4>1 DEF n
      <4>3. Members(<<>>) = {}
        BY DEF Members
      <4>4. Members(queue[s])' = {}
        BY <1>8, <4>2, <4>3, Zenon
      <4> QED
        BY <1>5, <1>6, <1>7, <4>1, <4>2, <4>4 DEF RootFirst
    <3>2. CASE current[s] # NoNode
      <4>1. RootId \notin Members(queue[s])
        BY <1>1, <3>2 DEF SearchInv, RootFirst
      <4>2. n # RootId /\ RootId \notin Members(queue[s])'
        BY <1>2, <1>8, <4>1
      <4>3. \A m \in Neighbours(RootId) \ {RootId} : parent[s][m] = RootId
        <5>1. CASE current[s] = RootId
          <6>1. RootId \in Seen(s)
            BY <1>1, <3>2, <5>1 DEF SearchInv, Looking
          <6>2. Neighbours(RootId) \subseteq Seen(s)
            BY <1>1, <1>5, <4>1, <6>1 DEF SearchInv, Progress
          <6> QED
            BY <1>1, <5>1, <6>2 DEF SearchInv, RootFirst
        <5>2. CASE current[s] # RootId
          BY <1>1, <3>2, <5>2 DEF SearchInv, RootFirst
        <5> QED
          BY <5>1, <5>2
      <4> QED
        BY <1>5, <1>6, <1>7, <4>2, <4>3 DEF RootFirst
    <3> QED
      BY <3>1, <3>2
  <2>5. Discovered(s)'
    BY <1>1, <1>6 DEF SearchInv, Discovered
  <2> QED
    BY <2>1, <2>2, <2>3, <2>4, <2>5 DEF SearchInv
<1>10. \A t \in Searches \ {s} : SearchInv(t)'
  BY OtherSearch DEF Dequeue, TopologyInv, TopologyTypeOK
<1> QED
  BY <1>4, <1>9, <1>10 DEF TopologyInv

LEMMA VisitKeeps ==
    ASSUME TopologyInv, NEW s \in Searches, NEW m \in NodeIds, Visit(s, m)
    PROVE  TopologyInv'
<1>1. /\ m \in ahead[s] /\ SearchInv(s) /\ queue[s] \in Seq(NodeIds)
      /\ UNCHANGED <<edges, current>> /\ ahead'[s] = ahead[s] \ {m}
  BY DEF Visit, TopologyInv, TopologyTypeOK
<1>2. current[s] # NoNode /\ current[s] \in Seen(s) /\ m \in Neighbours(current[s])
  BY <1>1 DEF SearchInv, RootFirst, Looking
<1>3. current[s] \in NodeIds
  BY <1>2 DEF Seen
<1>4. \A k : Neighbours(k)' = Neighbours(k)
  BY <1>1, SameNeighbours
<1>5. \A t \in Searches \ {s} : SearchInv(t)'
  BY <1>1, OtherSearch DEF Visit, TopologyInv, TopologyTypeOK
<1>6. CASE parent[s][m] # Unseen
  <2>1. UNCHANGED <<parent, queue>> /\ m \in Seen(s)
    BY <1>6 DEF Visit, Seen
  <2>2. Seen(s)' = Seen(s) /\ Members(queue[s])' = Members(queue[s])
    BY <2>1 DEF Seen
  <2>3. TopologyTypeOK'
    BY <1>1, <2>1 DEF Visit, TopologyInv, TopologyTypeOK
  <2>4. Progress(s)'
    BY <1>1, <1>4, <2>1, <2>2 DEF SearchInv, Progress
  <2>5. Parents(s)' /\ Looking(s)' /\ RootFirst(s)' /\ Discovered(s)'
    <3>1. Parents(s)'
      BY <1>1, <1>4, <2>1, <2>2 DEF SearchInv, Parents
    <3>2. Looking(s)'
      BY <1>1, <1>4, <2>1, <2>2 DEF SearchInv, Looking
    <3>3. RootFirst(s)'
      BY <1>1, <1>2, <1>4, <2>1, <2>2 DEF SearchInv, RootFirst
    <3>4. Discovered(s)'
      BY <1>1, <1>4, <2>2 DEF SearchInv, Discovered
    <3> QED
      BY <3>1, <3>2, <3>3, <3>4
  <2> QED
    BY <1>5, <2>3, <2>4, <2>5 DEF TopologyInv, SearchInv
<1>7. CASE parent[s][m] = Unseen
  <2>1. /\ parent' = [parent EXCEPT ![s][m] = current[s]]
        /\ queue' = [queue EXCEPT ![s] = Append(queue[s], m)]
    BY <1>7 DEF Visit
  <2>2. /\ parent'[s] = [parent[s] EXCEPT ![m] = current[s]]
        /\ queue'[s] = Append(queue[s], m)
    BY <2>1 DEF TopologyInv, TopologyTypeOK
  <2>3. parent[s] \in [NodeIds -> NodeIds \cup {NoNode, Unseen}]
    BY DEF TopologyInv, TopologyTypeOK
  <2>4. TopologyTypeOK'
    <3>1. parent' \in [Searches -> [NodeIds -> NodeIds \cup {NoNode, Unseen}]]
      BY <1>3, <2>1 DEF TopologyInv, TopologyTypeOK
    <3>2. Append(queue[s], m) \in Seq(NodeIds)
      BY <1>1
    <3>3. queue' \in [Searches -> Seq(NodeIds)]
      BY <2>1, <3>2 DEF TopologyInv, TopologyTypeOK
    <3>4. ahead' \in [Searches -> SUBSET NodeIds]
      BY DEF Visit, TopologyInv, TopologyTypeOK
    <3> QED
      BY <1>1, <3>1, <3>3, <3>4 DEF TopologyInv, TopologyTypeOK
  <2>5. Seen(s)' = Seen(s) \cup {m} /\ m \notin Seen(s)
    BY <1>3, <1>7, <2>2, <2>3, NodesAreNumbers DEF Seen
  <2>6. Members(queue[s])' = Members(queue[s]) \cup {m}
    <3>1. Members(Append(queue[s], m)) = Members(queue[s]) \cup {m}
      BY <1>1, AppendMembers, Zenon
    <3> QED
      BY <2>2, <3>1, Zenon DEF Members
  <2>7. m # RootId
    BY <1>1, <1>7 DEF SearchInv, Parents, NoNode, Unseen
  <2>8. Progress(s)'
    BY <1>1, <1>4, <2>5, <2>6 DEF SearchInv, Progress
  <2>9. Parents(s)'
    <3>1. \A k \in NodeIds \ {m} : parent'[s][k] = parent[s][k]
      BY <2>2, <2>3
    <3>2. parent'[s][m] = current[s]
      BY <2>2, <2>3
    <3> QED
      BY <1>1, <1>2, <1>4, <2>5, <2>7, <3>1, <3>2, NodesAreNumbers DEF SearchInv, Parents
  <2>10. Looking(s)'
    BY <1>1, <1>2, <1>4, <2>5, <2>6 DEF SearchInv, Looking
  <2>11. RootFirst(s)'
    <3>1. \A k \in NodeIds \ {m} : parent'[s][k] = parent[s][k]
      BY <2>2, <2>3
    <3>2. parent'[s][m] = current[s]
      BY <2>2, <2>3
    <3>3. Seen(s) \subseteq NodeIds /\ Neighbours(RootId) \subseteq NodeIds
      BY DEF Seen, Neighbours
    <3>4. CASE current[s] = RootId
      BY <1>1, <1>2, <2>5, <2>6, <2>7, <3>1, <3>2, <3>3, <3>4 DEF SearchInv, RootFirst
    <3>5. CASE current[s] # RootId
      <4>1. \A k \in Neighbours(RootId) \ {RootId} : parent[s][k] = RootId
        BY <1>1, <1>2, <3>5 DEF SearchInv, RootFirst
      <4>2. m \notin Neighbours(RootId)
        BY <1>7, <2>7, <4>1, NodesAreNumbers
      <4> QED
        BY <1>1, <1>2, <1>4, <2>6, <2>7, <3>1, <3>3, <3>5, <4>1, <4>2 DEF SearchInv, RootFirst
    <3> QED
      BY <3>4, <3>5
  <2>12. Discovered(s)'
    BY <1>1, <1>2, <1>4, <2>5 DEF SearchInv, Discovered
  <2> QED
    BY <1>5, <2>4, <2>8, <2>9, <2>10, <2>11, <2>12 DEF TopologyInv, SearchInv
<1> QED
  BY <1>6, <1>7

LEMMA StepKeepsTopology == TopologyInv /\ [TopologyNext]_topologyVars => TopologyInv'
<1> SUFFICES ASSUME TopologyInv, [TopologyNext]_topologyVars PROVE TopologyInv'
  OBVIOUS
<1>1. ASSUME NEW s \in Searches, Dequeue(s) PROVE TopologyInv'
  BY <1>1, DequeueKeeps
<1>2. ASSUME NEW s \in Searches, NEW m \in NodeIds, Visit(s, m) PROVE TopologyInv'
  BY <1>2, VisitKeeps
<1>3. CASE UNCHANGED topologyVars
  <2>1. \A n : Neighbours(n)' = Neighbours(n)
    BY <1>3, SameNeighbours DEF topologyVars
  <2>2. \A s : Seen(s)' = Seen(s) /\ Members(queue[s])' = Members(queue[s])
    BY <1>3 DEF topologyVars, Seen
  <2>3. TopologyTypeOK'
    BY <1>3 DEF topologyVars, TopologyInv, TopologyTypeOK
  <2>4. ASSUME NEW s \in Searches PROVE SearchInv(s)'
    BY <1>3, <2>1, <2>2, Zenon
       DEF topologyVars, TopologyInv, SearchInv, Progress, Parents, Looking, RootFirst, Discovered
  <2> QED
    BY <2>3, <2>4 DEF TopologyInv
<1> QED
  BY <1>1, <1>2, <1>3 DEF TopologyNext

LEMMA TopologyInvariant == TopologySpec => []TopologyInv
  BY InitTopology, StepKeepsTopology, PTL DEF TopologySpec

-----------------------------------------------------------------------------
(* The theorems.                                                            *)

\* A search that is done has seen exactly what can be reached, and the root is the
\* parent of all its neighbours.
LEMMA DoneSearch ==
    ASSUME TopologyInv, NEW s \in Searches, SearchDone(s)
    PROVE  /\ \A n \in Seen(s) : Neighbours(n) \subseteq Seen(s)
           /\ RootId \in Seen(s) /\ Seen(s) \subseteq NodeIds
           /\ \A m \in Neighbours(RootId) \ {RootId} : parent[s][m] = RootId
<1>1. queue[s] = <<>> /\ ahead[s] = {} /\ SearchInv(s)
  BY DEF SearchDone, TopologyInv
<1>2. Members(queue[s]) = {}
  BY <1>1 DEF Members
<1>3. \A n \in Seen(s) : Neighbours(n) \subseteq Seen(s)
  BY <1>1, <1>2 DEF SearchInv, Progress
<1>4. RootId \in Seen(s) /\ Seen(s) \subseteq NodeIds
  BY <1>1, NodesAreNumbers DEF SearchInv, Parents, Seen, NoNode, Unseen
<1>5. current[s] # NoNode
  BY <1>1 DEF SearchInv, RootFirst
<1> QED
  BY <1>1, <1>3, <1>4, <1>5 DEF SearchInv, RootFirst

\* A query visits every partition that can be reached, and each of them once, although
\* the C++ node (derive_children) and the Python nodes (_build_parent_map) each derive
\* the tree for themselves: for every list of edges, in any order, with repeats,
\* cycles, self-loops and parts without the root.
THEOREM EveryPartitionOnce == TopologySpec => []AskedOnce
<1>1. TopologyInv => AskedOnce
  <2> SUFFICES ASSUME TopologyInv, SearchDone("cpp"), SearchDone("py")
               PROVE  /\ Seen("cpp") = Seen("py")
                      /\ \A n \in Seen("py") : Neighbours(n) \subseteq Seen("py")
                      /\ \A m \in Seen("py") \ {RootId} :
                             \E n \in Seen("py") :
                                 m \in Asks(n) /\ \A other \in NodeIds : m \in Asks(other) => other = n
                      /\ \A n \in NodeIds : RootId \notin Asks(n)
    BY DEF AskedOnce
  <2>1. "cpp" \in Searches /\ "py" \in Searches
    BY DEF Searches
  <2>2. \A s \in {"cpp", "py"} :
           /\ \A n \in Seen(s) : Neighbours(n) \subseteq Seen(s)
           /\ RootId \in Seen(s) /\ Seen(s) \subseteq NodeIds
           /\ \A m \in Neighbours(RootId) \ {RootId} : parent[s][m] = RootId
    BY <2>1, DoneSearch
  <2>3. SearchInv("cpp") /\ SearchInv("py")
    BY <2>1 DEF TopologyInv
  <2>4. Seen("cpp") = Seen("py")
    BY <2>2, <2>3 DEF SearchInv, Discovered
  <2>5. ASSUME NEW m \in Seen("py") \ {RootId}
        PROVE  \E n \in Seen("py") :
                   m \in Asks(n) /\ \A other \in NodeIds : m \in Asks(other) => other = n
    <3>1. m \in NodeIds
      BY DEF Seen
    <3>2. \A s \in {"cpp", "py"} : parent[s][m] \in Seen("py") /\ m \in Neighbours(parent[s][m])
      BY <2>3, <2>4, <2>5, <3>1 DEF SearchInv, Parents, Seen
    <3>3. \A n \in NodeIds : m \in Asks(n) <=> parent[IF n = RootId THEN "cpp" ELSE "py"][m] = n
      BY <3>1 DEF Asks
    <3>4. CASE m \in Neighbours(RootId)
      <4>1. parent["cpp"][m] = RootId /\ parent["py"][m] = RootId
        BY <2>2, <2>5, <3>4
      <4> QED
        BY <2>2, <3>3, <4>1, NodesAreNumbers
    <3>5. CASE m \notin Neighbours(RootId)
      <4>1. parent["cpp"][m] # RootId /\ parent["py"][m] # RootId
        BY <3>2, <3>5
      <4>2. parent["py"][m] \in Seen("py") /\ parent["py"][m] \in NodeIds
        BY <2>2, <3>2
      <4> QED
        BY <3>3, <4>1, <4>2
    <3> QED
      BY <3>4, <3>5
  <2>6. \A n \in NodeIds : RootId \notin Asks(n)
    BY <2>3, NodesAreNumbers DEF SearchInv, Parents, Asks
  <2> QED
    BY <2>2, <2>4, <2>5, <2>6
<1> QED
  BY <1>1, TopologyInvariant, PTL

-----------------------------------------------------------------------------
(* Distances from the root.                                                 *)

\* A set of nodes and all their neighbours.
Grown(S) == S \cup UNION {Neighbours(n) : n \in S}

\* The first k + 1 of the sets that Within lists.
Begins(g, k) ==
    /\ g \in [0 .. k -> SUBSET NodeIds]
    /\ g[0] = {RootId}
    /\ \A i \in 1 .. k : g[i] = Grown(g[i - 1])

LEMMA BeginningExists ==
    ASSUME NEW k \in Nat
    PROVE  \E g : Begins(g, k)
<1> DEFINE T == {j \in Nat : ~ \E g : Begins(g, j)}
<1> SUFFICES ASSUME T # {} PROVE FALSE
  OBVIOUS
<1>1. PICK x \in T : \A y \in T : x <= y
  <2>1. T \in SUBSET Nat
    OBVIOUS
  <2> HIDE DEF T
  <2> QED
    BY <2>1, SmallestNumber
<1>2. CASE x = 0
  <2> DEFINE g == [i \in 0 .. 0 |-> {RootId}]
  <2>1. Begins(g, 0)
    BY NodesAreNumbers DEF Begins
  <2> QED
    BY <1>2, <2>1
<1>3. CASE x # 0
  <2>1. x \in Nat /\ x - 1 \in Nat /\ x - 1 \notin T
    BY <1>1, <1>3
  <2>2. PICK g : Begins(g, x - 1)
    BY <2>1
  <2> DEFINE h == [i \in 0 .. x |-> IF i = x THEN Grown(g[x - 1]) ELSE g[i]]
  <2>3. g[x - 1] \in SUBSET NodeIds /\ \A i \in 0 .. x - 1 : g[i] \in SUBSET NodeIds
    BY <2>1, <2>2 DEF Begins
  <2>4. Grown(g[x - 1]) \in SUBSET NodeIds
    BY <2>3 DEF Grown, Neighbours
  <2>5. h \in [0 .. x -> SUBSET NodeIds]
    BY <2>1, <2>3, <2>4
  <2>6. h[0] = {RootId}
    BY <1>3, <2>1, <2>2 DEF Begins
  <2>7. \A i \in 1 .. x : h[i] = Grown(h[i - 1])
    BY <2>1, <2>2 DEF Begins
  <2>8. Begins(h, x)
    BY <2>5, <2>6, <2>7 DEF Begins
  <2> QED
    BY <2>8
<1> QED
  BY <1>2, <1>3

LEMMA BeginningsAgree ==
    ASSUME NEW k \in Nat, NEW g, NEW h, Begins(g, k), Begins(h, k + 1)
    PROVE  g[k] = h[k]
<1> DEFINE T == {i \in 0 .. k : g[i] # h[i]}
<1> SUFFICES ASSUME T # {} PROVE FALSE
  OBVIOUS
<1>1. PICK x \in T : \A y \in T : x <= y
  <2>1. T \in SUBSET Nat
    OBVIOUS
  <2> HIDE DEF T
  <2> QED
    BY <2>1, SmallestNumber
<1>2. x # 0
  BY <1>1 DEF Begins
<1>3. x - 1 \in 0 .. k /\ x \in 1 .. k /\ x \in 1 .. k + 1 /\ g[x - 1] = h[x - 1]
  BY <1>1, <1>2
<1> QED
  BY <1>1, <1>3 DEF Begins

\* The function that is declared to have the values that Within has does exist.
LEMMA WithinExists ==
    \E f : f = [k \in Nat |-> IF k = 0 THEN {RootId} ELSE Grown(f[k - 1])]
<1> DEFINE b(k) == CHOOSE g : Begins(g, k)
           f == [k \in Nat |-> b(k)[k]]
<1>1. \A k \in Nat : Begins(b(k), k)
  BY BeginningExists
<1> HIDE DEF b
<1>2. f[0] = {RootId}
  BY <1>1 DEF Begins
<1>3. ASSUME NEW k \in Nat, k # 0
      PROVE  f[k] = Grown(f[k - 1])
  <2>1. k - 1 \in Nat /\ (k - 1) + 1 = k /\ k \in 1 .. k
    BY <1>3
  <2>2. b(k - 1)[k - 1] = b(k)[k - 1]
    BY <1>1, <2>1, BeginningsAgree
  <2>3. b(k)[k] = Grown(b(k)[k - 1])
    BY <1>1, <2>1 DEF Begins
  <2> QED
    BY <2>1, <2>2, <2>3
<1>4. f = [k \in Nat |-> IF k = 0 THEN {RootId} ELSE Grown(f[k - 1])]
  <2> DEFINE e == [k \in Nat |-> IF k = 0 THEN {RootId} ELSE Grown(f[k - 1])]
  <2>1. \A k \in Nat : f[k] = e[k]
    BY <1>2, <1>3
  <2> QED
    BY <2>1
<1> QED
  BY <1>4

LEMMA WithinIs ==
    /\ Within[0] = {RootId}
    /\ \A k \in Nat : Within[k + 1] = Grown(Within[k])
<1>1. Within = CHOOSE f : f = [k \in Nat |-> IF k = 0 THEN {RootId} ELSE Grown(f[k - 1])]
  BY DEF Within, Grown
<1>2. Within = [k \in Nat |-> IF k = 0 THEN {RootId} ELSE Grown(Within[k - 1])]
  BY <1>1, WithinExists
<1> QED
  BY <1>2

LEMMA WithinMonotone ==
    ASSUME NEW i \in Nat, NEW j \in Nat, i <= j
    PROVE  Within[i] \subseteq Within[j]
<1> DEFINE T == {k \in Nat : i <= k /\ ~ (Within[i] \subseteq Within[k])}
<1> SUFFICES ASSUME T # {} PROVE FALSE
  OBVIOUS
<1>1. PICK x \in T : \A y \in T : x <= y
  <2>1. T \in SUBSET Nat
    OBVIOUS
  <2> HIDE DEF T
  <2> QED
    BY <2>1, SmallestNumber
<1>2. x \in Nat /\ i < x /\ ~ (Within[i] \subseteq Within[x])
  BY <1>1
<1>3. x - 1 \in Nat /\ Within[i] \subseteq Within[x - 1] /\ (x - 1) + 1 = x
  BY <1>1, <1>2
<1>4. Within[x - 1] \subseteq Within[x]
  BY <1>3, WithinIs DEF Grown
<1> QED
  BY <1>2, <1>3, <1>4

LEMMA NeighbourWithin ==
    ASSUME NEW k \in Nat, NEW n \in Within[k]
    PROVE  Neighbours(n) \subseteq Within[k + 1] /\ n \in Within[k + 1]
  BY WithinIs DEF Grown

LEMMA SameWithin ==
    ASSUME UNCHANGED edges
    PROVE  \A k \in Nat : Within'[k] = Within[k]
<1> DEFINE T == {k \in Nat : Within'[k] # Within[k]}
<1> SUFFICES ASSUME T # {} PROVE FALSE
  OBVIOUS
<1>1. PICK x \in T : \A y \in T : x <= y
  <2>1. T \in SUBSET Nat
    OBVIOUS
  <2> HIDE DEF T
  <2> QED
    BY <2>1, SmallestNumber
<1>2. /\ Within[0] = {RootId}
      /\ \A k \in Nat : Within[k + 1] = Grown(Within[k])
  BY WithinIs
<1>3. (/\ Within[0] = {RootId}
       /\ \A k \in Nat : Within[k + 1] = Grown(Within[k]))'
  BY WithinIs, PTL
<1>4. \A n : Neighbours(n)' = Neighbours(n)
  BY SameNeighbours
<1>5. x # 0
  BY <1>1, <1>2, <1>3
<1>6. x - 1 \in Nat /\ Within'[x - 1] = Within[x - 1] /\ (x - 1) + 1 = x
  BY <1>1, <1>5
<1>7. Within[x] = Grown(Within[x - 1])
  BY <1>2, <1>6
<1>8. Within'[x] = Grown(Within[x - 1])'
  BY <1>3, <1>6
<1>9. Grown(Within[x - 1])' = Grown(Within[x - 1])
  BY <1>4, <1>6 DEF Grown
<1> QED
  BY <1>1, <1>7, <1>8, <1>9

-----------------------------------------------------------------------------
(* The nearest first.                                                       *)

\* All nodes within l edges of the root are seen, none beyond l + 1; those that are l
\* edges or less away are in front of the queue, p of them.
AtLevel(s, l, p) ==
    /\ Within[l] \subseteq Seen(s) /\ Seen(s) \subseteq Within[l + 1]
    /\ \A i \in 1 .. p : queue[s][i] \in Within[l]
    /\ \A i \in p + 1 .. Len(queue[s]) : queue[s][i] \notin Within[l]
    /\ current[s] # NoNode => current[s] \in Within[l]

Levels(s) == \E l \in Nat : \E p \in 0 .. Len(queue[s]) : AtLevel(s, l, p)

\* A parent is one edge nearer than its child.
Nearest(s) ==
    \A k \in Nat : \A m \in Seen(s) \ {RootId} : m \in Within[k + 1] => parent[s][m] \in Within[k]

BreadthInv == \A s \in Searches : Levels(s) /\ Nearest(s)

LEMMA InitBreadth == TopologyInit => BreadthInv
<1> SUFFICES ASSUME TopologyInit, NEW s \in Searches PROVE Levels(s) /\ Nearest(s)
  BY DEF BreadthInv
<1>1. queue[s] = <<RootId>> /\ current[s] = NoNode
  BY DEF TopologyInit
<1>2. Seen(s) = {RootId}
  <2>1. \A n \in NodeIds : parent[s][n] = IF n = RootId THEN NoNode ELSE Unseen
    BY DEF TopologyInit
  <2>2. NoNode # Unseen
    BY DEF NoNode, Unseen
  <2> QED
    BY <2>1, <2>2, NodesAreNumbers DEF Seen
<1>3. Within[0] = {RootId} /\ RootId \in Within[0 + 1]
  BY WithinIs, NeighbourWithin
<1>4. AtLevel(s, 0, 1)
  BY <1>1, <1>2, <1>3 DEF AtLevel
<1>5. Levels(s)
  BY <1>1, <1>4 DEF Levels
<1> QED
  BY <1>2, <1>5 DEF Nearest

LEMMA OtherLevels ==
    ASSUME BreadthInv, NEW s \in Searches, UNCHANGED edges,
           parent'[s] = parent[s], queue'[s] = queue[s], current'[s] = current[s]
    PROVE  Levels(s)' /\ Nearest(s)'
<1>1. Seen(s)' = Seen(s) /\ \A k \in Nat : Within'[k] = Within[k]
  BY SameWithin DEF Seen
<1>2. PICK l \in Nat, p \in 0 .. Len(queue[s]) : AtLevel(s, l, p)
  BY DEF BreadthInv, Levels
<1>3. AtLevel(s, l, p)'
  BY <1>1, <1>2 DEF AtLevel
<1>4. Levels(s)'
  BY <1>3 DEF Levels
<1>5. Nearest(s)'
  BY <1>1 DEF BreadthInv, Nearest
<1> QED
  BY <1>4, <1>5

LEMMA DequeueKeepsLevels ==
    ASSUME TopologyInv, BreadthInv, NEW s \in Searches, Dequeue(s)
    PROVE  Levels(s)' /\ Nearest(s)'
<1>1. /\ queue[s] \in Seq(NodeIds) /\ queue[s] # <<>> /\ SearchInv(s) /\ ahead[s] = {}
      /\ queue'[s] = Tail(queue[s]) /\ current'[s] = Head(queue[s]) /\ UNCHANGED <<edges, parent>>
  BY DEF Dequeue, TopologyInv, TopologyTypeOK
<1>2. Seen(s)' = Seen(s) /\ \A k \in Nat : Within'[k] = Within[k]
  BY <1>1, SameWithin DEF Seen
<1>3. Nearest(s)'
  BY <1>1, <1>2 DEF BreadthInv, Nearest
<1>4. PICK l \in Nat, p \in 0 .. Len(queue[s]) : AtLevel(s, l, p)
  BY DEF BreadthInv, Levels
<1>5. /\ Len(queue[s]) \in Nat \ {0} /\ Len(queue'[s]) = Len(queue[s]) - 1
      /\ current'[s] = queue[s][1]
      /\ \A i \in 1 .. Len(queue[s]) - 1 : queue'[s][i] = queue[s][i + 1]
  BY <1>1
<1>6. CASE p # 0
  <2>1. p - 1 \in 0 .. Len(queue'[s]) /\ 1 \in 1 .. p
    BY <1>5, <1>6
  <2>2. \A i \in 1 .. p - 1 : queue'[s][i] \in Within[l]
    <3> SUFFICES ASSUME NEW i \in 1 .. p - 1 PROVE queue'[s][i] \in Within[l]
      OBVIOUS
    <3>1. i + 1 \in 1 .. p /\ queue'[s][i] = queue[s][i + 1]
      BY <1>4, <1>5
    <3> QED
      BY <1>4, <3>1 DEF AtLevel
  <2>3. \A i \in (p - 1) + 1 .. Len(queue'[s]) : queue'[s][i] \notin Within[l]
    BY <1>4, <1>5, <2>1 DEF AtLevel
  <2>4. current'[s] \in Within[l]
    BY <1>4, <1>5, <2>1 DEF AtLevel
  <2>5. AtLevel(s, l, p - 1)'
    BY <1>2, <1>4, <2>2, <2>3, <2>4 DEF AtLevel
  <2> QED
    BY <1>3, <2>1, <2>5 DEF Levels
<1>7. CASE p = 0
  <2>1. ASSUME NEW n \in Within[l]
        PROVE  Neighbours(n) \subseteq Seen(s)
    <3>1. n \in Seen(s) /\ n \notin Members(queue[s])
      BY <1>1, <1>4, <1>7 DEF AtLevel, Members
    <3> QED
      BY <1>1, <3>1 DEF SearchInv, Progress
  <2>2. Within[l + 1] = Grown(Within[l]) /\ l + 1 \in Nat
    <3>1. Within[l + 1] = Grown(Within[l])
      BY WithinIs, Zenon
    <3> QED
      BY <3>1
  <2>3. Within[l + 1] \subseteq Seen(s)
    BY <1>4, <2>1, <2>2 DEF Grown, AtLevel
  <2>4. Seen(s) \subseteq Within[l + 1] /\ Within[l + 1] \subseteq Within[l + 1 + 1]
    BY <1>4, <2>2, NeighbourWithin DEF AtLevel
  <2>5. \A i \in 1 .. Len(queue[s]) : queue[s][i] \in Within[l + 1]
    BY <1>1, <2>4 DEF SearchInv, Looking, Members
  <2>6. PICK n \in 0 .. Len(queue'[s]) : n = Len(queue'[s])
    <3>1. Len(queue'[s]) \in 0 .. Len(queue'[s])
      BY <1>5
    <3> QED
      BY <3>1, Zenon
  <2>7. \A i \in 1 .. n : queue'[s][i] \in Within[l + 1]
    BY <1>5, <2>5, <2>6
  <2>8. current'[s] \in Within[l + 1] /\ \A i \in n + 1 .. Len(queue'[s]) : FALSE
    BY <1>5, <2>5, <2>6
  <2>9. AtLevel(s, l + 1, n)'
    BY <1>2, <2>3, <2>4, <2>7, <2>8 DEF AtLevel
  <2> QED
    BY <1>3, <2>2, <2>6, <2>9 DEF Levels
<1> QED
  BY <1>6, <1>7

LEMMA VisitKeepsLevels ==
    ASSUME TopologyInv, BreadthInv, NEW s \in Searches, NEW m \in NodeIds, Visit(s, m)
    PROVE  Levels(s)' /\ Nearest(s)'
<1>1. /\ m \in ahead[s] /\ SearchInv(s) /\ queue[s] \in Seq(NodeIds)
      /\ UNCHANGED <<edges, current>>
  BY DEF Visit, TopologyInv, TopologyTypeOK
<1>2. current[s] # NoNode /\ m \in Neighbours(current[s])
  BY <1>1 DEF SearchInv, RootFirst, Looking
<1>3. \A k \in Nat : Within'[k] = Within[k]
  BY <1>1, SameWithin
<1>4. CASE parent[s][m] # Unseen
  BY <1>1, <1>4, OtherLevels DEF Visit
<1>5. CASE parent[s][m] = Unseen
  <2>1. PICK l \in Nat, p \in 0 .. Len(queue[s]) : AtLevel(s, l, p)
    BY DEF BreadthInv, Levels
  <2>2. /\ parent'[s] = [parent[s] EXCEPT ![m] = current[s]]
        /\ queue'[s] = Append(queue[s], m)
        /\ parent[s] \in [NodeIds -> NodeIds \cup {NoNode, Unseen}]
    BY <1>5 DEF Visit, TopologyInv, TopologyTypeOK
  <2>3. current[s] \in Seen(s)
    BY <1>1, <1>2 DEF SearchInv, Looking
  <2>4. Seen(s)' = Seen(s) \cup {m} /\ m \notin Seen(s)
    BY <1>5, <2>2, <2>3, NodesAreNumbers DEF Seen
  <2>5. current[s] \in Within[l] /\ m \in Within[l + 1] /\ m \notin Within[l]
    BY <1>2, <2>1, <2>4, NeighbourWithin DEF AtLevel
  <2>6. /\ Len(queue'[s]) = Len(queue[s]) + 1 /\ Len(queue[s]) \in Nat
        /\ queue'[s][Len(queue[s]) + 1] = m
        /\ \A i \in 1 .. Len(queue[s]) : queue'[s][i] = queue[s][i]
    BY <1>1, <2>2
  <2>7. AtLevel(s, l, p)'
    <3>1. Within'[l] = Within[l] /\ Within'[l + 1] = Within[l + 1]
      BY <1>3
    <3>2. Within[l] \subseteq Seen(s)' /\ Seen(s)' \subseteq Within[l + 1]
      BY <2>1, <2>4, <2>5 DEF AtLevel
    <3>3. \A i \in 1 .. p : queue'[s][i] \in Within[l]
      BY <2>1, <2>6 DEF AtLevel
    <3>4. \A i \in p + 1 .. Len(queue'[s]) : queue'[s][i] \notin Within[l]
      <4>1. ASSUME NEW i \in p + 1 .. Len(queue'[s])
            PROVE  queue'[s][i] \notin Within[l]
        <5>1. CASE i = Len(queue[s]) + 1
          BY <2>5, <2>6, <5>1
        <5>2. CASE i # Len(queue[s]) + 1
          BY <2>1, <2>6, <5>2 DEF AtLevel
        <5> QED
          BY <5>1, <5>2
      <4> QED
        BY <4>1
    <3>5. current'[s] # NoNode => current'[s] \in Within[l]
      BY <1>1, <2>1 DEF AtLevel
    <3> QED
      BY <3>1, <3>2, <3>3, <3>4, <3>5 DEF AtLevel
  <2>8. Levels(s)'
    BY <2>1, <2>6, <2>7 DEF Levels
  <2>9. ASSUME NEW k \in Nat, NEW n \in Seen(s)' \ {RootId}, n \in Within[k + 1]
        PROVE  parent'[s][n] \in Within[k]
    <3>1. CASE n = m
      <4>1. parent'[s][m] = current[s]
        BY <2>2
      <4>2. l <= k
        <5>1. SUFFICES ASSUME k + 1 <= l PROVE FALSE
          OBVIOUS
        <5> QED
          BY <2>5, <2>9, <3>1, <5>1, WithinMonotone
      <4>3. Within[l] \subseteq Within[k]
        BY <4>2, WithinMonotone
      <4> QED
        BY <2>5, <3>1, <4>1, <4>3
    <3>2. CASE n # m
      <4>1. n \in Seen(s) \ {RootId} /\ parent'[s][n] = parent[s][n]
        BY <2>2, <2>4, <2>9, <3>2 DEF Seen
      <4> QED
        BY <2>9, <4>1 DEF BreadthInv, Nearest
    <3> QED
      BY <3>1, <3>2
  <2> QED
    BY <1>3, <2>8, <2>9 DEF Nearest
<1> QED
  BY <1>4, <1>5

LEMMA StepKeepsBreadth ==
    ASSUME TopologyInv, BreadthInv, [TopologyNext]_topologyVars
    PROVE  BreadthInv'
<1>1. CASE UNCHANGED topologyVars
  BY <1>1, OtherLevels DEF topologyVars, BreadthInv
<1>2. ASSUME NEW s \in Searches, Dequeue(s)
      PROVE  BreadthInv'
  <2>1. \A t \in Searches \ {s} : Levels(t)' /\ Nearest(t)'
    BY <1>2, OtherLevels DEF Dequeue, TopologyInv, TopologyTypeOK
  <2> QED
    BY <1>2, <2>1, DequeueKeepsLevels DEF BreadthInv
<1>3. ASSUME NEW s \in Searches, NEW m \in NodeIds, Visit(s, m)
      PROVE  BreadthInv'
  <2>1. \A t \in Searches \ {s} : Levels(t)' /\ Nearest(t)'
    BY <1>3, OtherLevels DEF Visit, TopologyInv, TopologyTypeOK
  <2> QED
    BY <1>3, <2>1, VisitKeepsLevels DEF BreadthInv
<1> QED
  BY <1>1, <1>2, <1>3 DEF TopologyNext

\* No query takes a detour: in both searches a parent is one edge nearer to the root
\* than its child, however far away the child is, for every list of edges.
THEOREM NoDetour == TopologySpec => []NearestParent
<1>1. TopologyInv /\ BreadthInv => NearestParent
  <2> SUFFICES ASSUME TopologyInv, BreadthInv, NEW k \in 0 .. Len(edges), NEW s \in Searches,
                      NEW m \in (Seen(s) \cap Grown(Within[k])) \ {RootId}
               PROVE  parent[s][m] \in Within[k]
    BY DEF NearestParent, Grown
  <2>1. k \in Nat
    BY EdgesAssumption DEF TopologyInv, TopologyTypeOK
  <2>2. m \in Within[k + 1]
    BY <2>1, WithinIs
  <2> QED
    BY <2>1, <2>2 DEF BreadthInv, Nearest
<1> QED
  BY <1>1, InitBreadth, StepKeepsBreadth, TopologyInvariant, PTL DEF TopologySpec

-----------------------------------------------------------------------------
(* The size that follows a size and a verdict.                              *)

\* A size is clamped to the limits, and one within them is left as it is.
LEMMA ClampedWithin ==
    ASSUME NEW n \in Int
    PROVE  /\ Clamped(n) \in MinSize .. MaxSize
           /\ n \in MinSize .. MaxSize => Clamped(n) = n
  BY SizesAssumption DEF Clamped

\* Only a fast call makes a size larger, only a slow one smaller.
LEMMA NextSizeMoves ==
    ASSUME NEW l \in [size : MinSize .. MaxSize, verdict : Verdicts]
    PROVE  /\ NextSize(l) \in MinSize .. MaxSize
           /\ NextSize(l) > l.size => l.verdict = "fast"
           /\ NextSize(l) < l.size => l.verdict = "slow"
<1>1. l.size \in Nat /\ MinSize <= l.size /\ l.size <= MaxSize
  BY SizesAssumption
<1>2. CASE l.verdict = "fast"
  <2> DEFINE more == (l.size * 12 + 5) \div 10
  <2>1. more \in Int /\ more >= l.size
    BY <1>1
  <2>2. NextSize(l) = Clamped(more)
    BY <1>2 DEF NextSize
  <2> HIDE DEF more
  <2> QED
    BY <1>1, <1>2, <2>1, <2>2, SizesAssumption DEF Clamped
<1>3. CASE l.verdict = "slow"
  <2> DEFINE less == (l.size * 8 + 5) \div 10
  <2>1. less \in Int /\ (less > l.size => l.size < 3)
    BY <1>1
  <2>2. l.size \in {0, 1, 2} => less <= l.size
    BY <1>1
  <2>3. NextSize(l) = Clamped(less)
    BY <1>3 DEF NextSize
  <2> HIDE DEF less
  <2> QED
    BY <1>1, <1>3, <2>1, <2>2, <2>3, SizesAssumption DEF Clamped
<1>4. CASE l.verdict \notin {"fast", "slow"}
  BY <1>1, <1>4, SizesAssumption DEF NextSize, Clamped
<1> QED
  BY <1>2, <1>3, <1>4

-----------------------------------------------------------------------------
(* The inductive invariant.                                                 *)

\* A size that follows the verdicts, as SizeFollowsVerdicts says of chunkSize.
Follows(size) ==
    /\ size < first => "slow" \in given
    /\ size > first => "fast" \in given

\* What a handler has loaded and not yet stored follows them too: a store long after
\* the load brings back a size that was right when it was loaded, for the verdicts are
\* never forgotten.
LoadedFollows ==
    \A h \in Handlers :
        phase[h] = "loaded" => Follows(loaded[h].size) /\ loaded[h].verdict \in given

MetricsInv == MetricsTypeOK /\ Follows(chunkSize) /\ LoadedFollows

LEMMA InitMetrics == MetricsInit => MetricsInv
<1> SUFFICES ASSUME MetricsInit PROVE MetricsInv
  OBVIOUS
<1>1. first \in MinSize .. MaxSize
  BY ConfiguredAssumption, ClampedWithin DEF MetricsInit, FirstSize
<1>2. MetricsTypeOK
  BY <1>1, SizesAssumption, BoundsAssumption DEF MetricsInit, MetricsTypeOK, Verdicts
<1>3. Follows(chunkSize) /\ LoadedFollows
  BY <1>1, SizesAssumption DEF MetricsInit, Follows, LoadedFollows
<1> QED
  BY <1>2, <1>3 DEF MetricsInv

LEMMA LoadKeeps ==
    ASSUME MetricsInv, NEW h \in Handlers, Load(h)
    PROVE  MetricsInv'
<1>1. PICK v \in Verdicts :
         /\ loaded' = [loaded EXCEPT ![h] = [size |-> chunkSize, verdict |-> v]]
         /\ given' = given \cup {v}
  BY DEF Load
<1>2. MetricsTypeOK'
  <2>1. loaded' \in [Handlers -> [size : MinSize .. MaxSize, verdict : Verdicts]]
    BY <1>1 DEF MetricsInv, MetricsTypeOK
  <2>2. phase' \in [Handlers -> {"idle", "finished", "recorded", "loaded"}]
    BY DEF Load, MetricsInv, MetricsTypeOK
  <2>3. served' \in 0 .. MaxServed
    BY BoundsAssumption DEF Load, MetricsInv, MetricsTypeOK
  <2> QED
    BY <1>1, <2>1, <2>2, <2>3 DEF Load, MetricsInv, MetricsTypeOK
<1>3. Follows(chunkSize)'
  BY <1>1 DEF Load, MetricsInv, Follows
<1>4. LoadedFollows'
  <2> SUFFICES ASSUME NEW g \in Handlers, phase'[g] = "loaded"
               PROVE  Follows(loaded[g].size)' /\ loaded'[g].verdict \in given'
    BY DEF LoadedFollows
  <2>1. CASE g = h
    BY <1>1, <1>3, <2>1 DEF Load, MetricsInv, MetricsTypeOK, Follows
  <2>2. CASE g # h
    <3>1. phase[g] = "loaded" /\ loaded'[g] = loaded[g]
      BY <1>1, <2>2 DEF Load, MetricsInv, MetricsTypeOK
    <3> QED
      BY <1>1, <3>1 DEF Load, MetricsInv, LoadedFollows, Follows
  <2> QED
    BY <2>1, <2>2
<1> QED
  BY <1>2, <1>3, <1>4 DEF MetricsInv

LEMMA StoreKeeps ==
    ASSUME MetricsInv, NEW h \in Handlers, Store(h)
    PROVE  MetricsInv'
<1> DEFINE stored == NextSize(loaded[h])
<1>1. loaded[h] \in [size : MinSize .. MaxSize, verdict : Verdicts]
  BY DEF MetricsInv, MetricsTypeOK
<1>2. /\ stored \in MinSize .. MaxSize
      /\ stored > loaded[h].size => loaded[h].verdict = "fast"
      /\ stored < loaded[h].size => loaded[h].verdict = "slow"
  BY <1>1, NextSizeMoves
<1>3. chunkSize' \in {stored, chunkSize} /\ UNCHANGED <<first, given, loaded>>
  BY DEF Store
<1> HIDE DEF stored
<1>4. Follows(stored)
  BY <1>1, <1>2, SizesAssumption DEF Store, MetricsInv, MetricsTypeOK, LoadedFollows, Follows
<1>5. Follows(chunkSize)'
  BY <1>3, <1>4 DEF MetricsInv, Follows
<1>6. MetricsTypeOK'
  BY <1>2, <1>3 DEF Store, MetricsInv, MetricsTypeOK
<1>7. LoadedFollows'
  BY <1>3 DEF Store, MetricsInv, MetricsTypeOK, LoadedFollows, Follows
<1> QED
  BY <1>5, <1>6, <1>7 DEF MetricsInv

LEMMA StepKeepsMetrics == MetricsInv /\ [MetricsNext]_metricsVars => MetricsInv'
<1> SUFFICES ASSUME MetricsInv, [MetricsNext]_metricsVars PROVE MetricsInv'
  OBVIOUS
<1> USE DEF MetricsInv, MetricsTypeOK, LoadedFollows, Follows
<1>1. CASE Pass
  BY <1>1, BoundsAssumption DEF Pass
<1>2. ASSUME NEW h \in Handlers, Finish(h) PROVE MetricsInv'
  <2>1. clock \in Nat /\ served' \in 0 .. MaxServed
    BY <1>2, BoundsAssumption DEF Finish
  <2> QED
    BY <1>2, <2>1 DEF Finish
<1>3. ASSUME NEW h \in Handlers, RecordCompletion(h) PROVE MetricsInv'
  BY <1>3 DEF RecordCompletion
<1>4. ASSUME NEW h \in Handlers, Load(h) PROVE MetricsInv'
  BY <1>4, LoadKeeps
<1>5. ASSUME NEW h \in Handlers, Store(h) PROVE MetricsInv'
  BY <1>5, StoreKeeps
<1>6. CASE UNCHANGED metricsVars
  BY <1>6 DEF metricsVars
<1> QED
  BY <1>1, <1>2, <1>3, <1>4, <1>5, <1>6 DEF MetricsNext

-----------------------------------------------------------------------------
(* The theorems.                                                            *)

LEMMA MetricsInvariant == MetricsSpec => []MetricsInv
  BY InitMetrics, StepKeepsMetrics, PTL DEF MetricsSpec

\* The chunk size stays within its limits, whatever is configured and however the
\* handlers overtake each other in tune_after_chunk_served.
THEOREM MetricsTypeCorrect == MetricsSpec => []MetricsTypeOK
<1>1. MetricsInv => MetricsTypeOK
  BY DEF MetricsInv
<1> QED
  BY <1>1, MetricsInvariant, PTL

\* The size moves only in a direction that some call gave it: handlers that overtake
\* each other between load and store (tune_after_chunk_served) lose steps, and invent
\* none.
THEOREM TuningFollowsCalls == MetricsSpec => []SizeFollowsVerdicts
<1>1. MetricsInv => SizeFollowsVerdicts
  BY DEF MetricsInv, Follows, SizeFollowsVerdicts
<1> QED
  BY <1>1, MetricsInvariant, PTL

-----------------------------------------------------------------------------
(* Lists of times.                                                          *)

\* The places of a list that hold a time.
PlacesOf(list, time) == {i \in DOMAIN list : list[i] = time}

LEMMA AtFinite ==
    ASSUME NEW list \in Seq(Nat), NEW time
    PROVE  IsFiniteSet(PlacesOf(list, time)) /\ Cardinality(PlacesOf(list, time)) \in Nat
<1>1. IsFiniteSet(1 .. Len(list)) /\ PlacesOf(list, time) \in SUBSET (1 .. Len(list))
  BY FS_Interval DEF PlacesOf
<1> QED
  BY <1>1, FS_Subset, FS_CardinalityType

LEMMA AppendCounts ==
    ASSUME NEW list \in Seq(Nat), NEW e \in Nat, NEW time
    PROVE  Cardinality(PlacesOf(Append(list, e), time)) =
               Cardinality(PlacesOf(list, time)) + (IF e = time THEN 1 ELSE 0)
<1> DEFINE longer == Append(list, e)
           n == Len(list) + 1
<1>1. /\ longer \in Seq(Nat) /\ Len(longer) = n /\ n \in Nat /\ longer[n] = e
      /\ \A i \in 1 .. Len(list) : longer[i] = list[i]
  OBVIOUS
<1>2. IsFiniteSet(PlacesOf(list, time)) /\ Cardinality(PlacesOf(list, time)) \in Nat
  BY AtFinite
<1>3. n \notin PlacesOf(list, time)
  BY DEF PlacesOf
<1> HIDE DEF longer
<1>4. CASE e = time
  <2>1. PlacesOf(longer, time) = PlacesOf(list, time) \cup {n}
    BY <1>1, <1>4 DEF PlacesOf
  <2> QED
    BY <1>2, <1>3, <1>4, <2>1, FS_AddElement DEF longer
<1>5. CASE e # time
  <2>1. PlacesOf(longer, time) = PlacesOf(list, time)
    BY <1>1, <1>5 DEF PlacesOf
  <2> QED
    BY <1>2, <1>5, <2>1 DEF longer
<1> QED
  BY <1>4, <1>5

\* Where nothing but other times is dropped, a time is found as often as before.
LEMMA PruningCounts ==
    ASSUME NEW list \in Seq(Nat), NEW m \in 1 .. Len(list) + 1, NEW time,
           \A i \in 1 .. m - 1 : list[i] # time
    PROVE  LET rest == SubSeq(list, m, Len(list))
           IN  /\ rest \in Seq(Nat)
               /\ Cardinality(PlacesOf(rest, time)) = Cardinality(PlacesOf(list, time))
<1> DEFINE rest == SubSeq(list, m, Len(list))
           f == [i \in PlacesOf(rest, time) |-> i + m - 1]
<1>0. Len(list) \in Nat /\ m \in Nat /\ 1 <= m /\ m <= Len(list) + 1
  OBVIOUS
<1>1. /\ rest \in Seq(Nat) /\ Len(rest) = Len(list) - m + 1
      /\ \A i \in 1 .. Len(rest) : rest[i] = list[i + m - 1]
  OBVIOUS
<1> HIDE DEF rest
<1>2. \A i \in PlacesOf(rest, time) : i \in Int /\ f[i] = i + m - 1 /\ f[i] \in PlacesOf(list, time)
  <2> SUFFICES ASSUME NEW i \in PlacesOf(rest, time)
               PROVE  i \in Int /\ f[i] = i + m - 1 /\ f[i] \in PlacesOf(list, time)
    OBVIOUS
  <2>1. i \in 1 .. Len(rest) /\ rest[i] = time
    BY <1>1 DEF PlacesOf
  <2>2. i \in Int /\ i + m - 1 \in 1 .. Len(list)
    BY ONLY <1>0, <1>1, <2>1
  <2>3. i + m - 1 \in PlacesOf(list, time)
    BY <1>1, <2>1, <2>2 DEF PlacesOf
  <2>4. f[i] = i + m - 1
    OBVIOUS
  <2> QED
    BY <2>2, <2>3, <2>4
<1>3. \A j \in PlacesOf(list, time) : j - m + 1 \in PlacesOf(rest, time) /\ f[j - m + 1] = j
  <2> SUFFICES ASSUME NEW j \in PlacesOf(list, time)
               PROVE  j - m + 1 \in PlacesOf(rest, time) /\ f[j - m + 1] = j
    OBVIOUS
  <2>1. j \in 1 .. Len(list) /\ list[j] = time
    BY DEF PlacesOf
  <2>2. j >= m
    BY <1>0, <2>1
  <2>3. j - m + 1 \in 1 .. Len(rest) /\ (j - m + 1) + m - 1 = j
    BY ONLY <1>0, <1>1, <2>1, <2>2
  <2>4. rest[j - m + 1] = list[j]
    BY <1>1, <2>3
  <2>5. j - m + 1 \in PlacesOf(rest, time)
    BY <1>1, <2>1, <2>3, <2>4 DEF PlacesOf
  <2> QED
    BY <2>3, <2>5
<1>4. f \in [PlacesOf(rest, time) -> PlacesOf(list, time)]
  BY <1>2
<1> HIDE DEF f
<1>5. f \in Bijection(PlacesOf(rest, time), PlacesOf(list, time))
  <2>1. f \in Injection(PlacesOf(rest, time), PlacesOf(list, time))
    BY <1>2, <1>4 DEF Injection, IsInjective
  <2>2. f \in Surjection(PlacesOf(rest, time), PlacesOf(list, time))
    BY <1>3, <1>4 DEF Surjection
  <2> QED
    BY <2>1, <2>2 DEF Bijection
<1>6. IsFiniteSet(PlacesOf(rest, time))
  BY <1>1, AtFinite
<1> QED
  BY <1>1, <1>5, <1>6, FS_Bijection DEF ExistsBijection, rest

\* What RecordCompletion keeps is the list from its first entry on that is not outdated.
LEMMA KeptFrom ==
    ASSUME NEW list \in Seq(Nat), NEW now \in Nat, NEW kept,
           kept = {i \in DOMAIN list : \E j \in 1 .. i : ~ Outdated(now, list[j])}
    PROVE  LET from == Len(list) - Cardinality(kept) + 1
           IN  /\ from \in 1 .. Len(list) + 1
               /\ \A i \in 1 .. from - 1 : Outdated(now, list[i])
<1> DEFINE T == {i \in 1 .. Len(list) : ~ Outdated(now, list[i])}
           from == Len(list) - Cardinality(kept) + 1
<1>1. Len(list) \in Nat /\ DOMAIN list = 1 .. Len(list)
  OBVIOUS
<1>2. CASE T = {}
  <2>1. kept = {}
    BY <1>1, <1>2, SMTT(30)
  <2>2. Cardinality(kept) = 0
    BY <2>1, FS_EmptySet
  <2>3. from = Len(list) + 1
    BY ONLY <1>1, <2>2
  <2>4. \A i \in 1 .. Len(list) : Outdated(now, list[i])
    BY <1>2
  <2> HIDE DEF from, T
  <2>5. from - 1 = Len(list) /\ from \in 1 .. Len(list) + 1
    BY ONLY <1>1, <2>3
  <2> QED
    BY ONLY <2>4, <2>5 DEF from
<1>3. CASE T # {}
  <2>1. PICK m \in T : \A i \in T : m <= i
    <3>1. T \in SUBSET Nat
      OBVIOUS
    <3> HIDE DEF T
    <3> QED
      BY <1>3, <3>1, SmallestNumber
  <2>2. m \in 1 .. Len(list) /\ ~ Outdated(now, list[m])
        /\ \A i \in 1 .. m - 1 : Outdated(now, list[i])
    BY <1>1, <2>1
  <2>3. kept = m .. Len(list)
    BY <1>1, <2>1, <2>2
  <2>4. Cardinality(m .. Len(list)) = IF m > Len(list) THEN 0 ELSE Len(list) - m + 1
    BY <1>1, <2>2, FS_Interval
  <2>5. from = m /\ m \in 1 .. Len(list) + 1
    BY ONLY <1>1, <2>2, <2>3, <2>4
  <2> HIDE DEF from, T
  <2> QED
    BY ONLY <2>2, <2>5 DEF from
<1> QED
  BY <1>2, <1>3

-----------------------------------------------------------------------------
(* What the window holds.                                                   *)

\* No entry and no time that a handler carries to the lock lies in the future, and of
\* every second that is not over the window holds each completion once. A handler may
\* carry an old time past younger ones: what it drops was outdated even for its own time,
\* and what it should have dropped and left behind is not counted.
WindowInv ==
    /\ clock \in Nat
    /\ window \in Seq(Nat)
    /\ \A i \in 1 .. Len(window) : window[i] <= clock
    /\ taken \in [Handlers -> 0 .. MaxTime]
    /\ \A h \in Handlers : taken[h] <= clock
    /\ completions \in [0 .. MaxTime -> Nat]
    /\ \A time \in 0 .. MaxTime :
           ~ Outdated(clock, time) => Cardinality(PlacesOf(window, time)) = completions[time]

LEMMA RecordKeepsWindow ==
    ASSUME WindowInv, NEW h \in Handlers, RecordCompletion(h)
    PROVE  WindowInv'
<1> DEFINE kept == {i \in DOMAIN window : \E j \in 1 .. i : ~ Outdated(taken[h], window[j])}
           from == Len(window) - Cardinality(kept) + 1
           rest == SubSeq(window, from, Len(window))
<1>1. /\ window' = Append(rest, taken[h])
      /\ completions' = [completions EXCEPT ![taken[h]] = @ + 1]
      /\ UNCHANGED <<clock, taken>>
  BY DEF RecordCompletion
<1>2. taken[h] \in Nat /\ taken[h] \in 0 .. MaxTime /\ taken[h] <= clock
  BY BoundsAssumption DEF WindowInv
<1>3. /\ from \in 1 .. Len(window) + 1
      /\ \A i \in 1 .. from - 1 : Outdated(taken[h], window[i])
  <2>1. window \in Seq(Nat)
    BY DEF WindowInv
  <2> QED
    BY <1>2, <2>1, KeptFrom
<1> HIDE DEF kept, from
<1>4. /\ rest \in Seq(Nat)
      /\ \A i \in 1 .. Len(rest) : rest[i] <= clock
  BY <1>3 DEF WindowInv
<1> HIDE DEF rest
<1>5. window' \in Seq(Nat) /\ \A i \in 1 .. Len(window') : window'[i] <= clock'
  BY <1>1, <1>2, <1>4
<1>6. completions' \in [0 .. MaxTime -> Nat]
  BY <1>1, <1>2 DEF WindowInv
<1>7. ASSUME NEW time \in 0 .. MaxTime, ~ Outdated(clock', time)
      PROVE  Cardinality(PlacesOf(window, time)') = completions'[time]
  <2>1. time \in Nat /\ clock' = clock /\ clock \in Nat /\ WindowSeconds \in Nat
    BY <1>1, BoundsAssumption, WindowAssumption DEF WindowInv
  <2>2. \A i \in 1 .. from - 1 : window[i] # time
    <3>1. ~ Outdated(taken[h], time)
      BY <1>2, <1>7, <2>1 DEF Outdated
    <3> QED
      BY <1>3, <3>1
  <2>3. Cardinality(PlacesOf(rest, time)) = Cardinality(PlacesOf(window, time))
    BY <1>3, <2>2, PruningCounts DEF WindowInv, rest
  <2>4. Cardinality(PlacesOf(Append(rest, taken[h]), time)) =
            Cardinality(PlacesOf(rest, time)) + (IF taken[h] = time THEN 1 ELSE 0)
    BY <1>2, <1>4, AppendCounts
  <2>5. PlacesOf(window, time)' = PlacesOf(Append(rest, taken[h]), time)
    BY <1>1 DEF PlacesOf
  <2>6. Cardinality(PlacesOf(window, time)) = completions[time] /\ completions[time] \in Nat
    BY <1>7, <2>1 DEF WindowInv
  <2>7. completions'[time] = completions[time] + (IF taken[h] = time THEN 1 ELSE 0)
    BY <1>1, <1>2, <2>6 DEF WindowInv
  <2> QED
    BY <2>3, <2>4, <2>5, <2>6, <2>7
<1> QED
  BY <1>1, <1>5, <1>6, <1>7 DEF WindowInv

LEMMA StepKeepsWindow == MetricsInv /\ WindowInv /\ [MetricsNext]_metricsVars => WindowInv'
<1> SUFFICES ASSUME MetricsInv, WindowInv, [MetricsNext]_metricsVars PROVE WindowInv'
  OBVIOUS
<1>1. CASE Pass
  <2>1. clock' = clock + 1 /\ UNCHANGED <<taken, window, completions>>
    BY <1>1 DEF Pass
  <2>2. \A time \in 0 .. MaxTime : ~ Outdated(clock', time) => ~ Outdated(clock, time)
    BY <2>1, BoundsAssumption, WindowAssumption DEF WindowInv, Outdated
  <2>3. /\ clock' \in Nat
        /\ \A i \in 1 .. Len(window) : window[i] <= clock'
        /\ \A h \in Handlers : taken[h] <= clock'
    BY <2>1, BoundsAssumption DEF WindowInv
  <2> QED
    BY <2>1, <2>2, <2>3 DEF WindowInv, PlacesOf
<1>2. ASSUME NEW h \in Handlers, Finish(h) PROVE WindowInv'
  <2>1. taken' = [taken EXCEPT ![h] = clock] /\ UNCHANGED <<clock, window, completions>>
    BY <1>2 DEF Finish
  <2>2. clock \in 0 .. MaxTime /\ clock \in Nat
    BY DEF MetricsInv, MetricsTypeOK, WindowInv
  <2>3. taken' \in [Handlers -> 0 .. MaxTime] /\ \A g \in Handlers : taken'[g] <= clock'
    BY <2>1, <2>2 DEF WindowInv
  <2> QED
    BY <2>1, <2>3 DEF WindowInv, PlacesOf
<1>3. ASSUME NEW h \in Handlers, RecordCompletion(h) PROVE WindowInv'
  BY <1>3, RecordKeepsWindow
<1>4. ASSUME NEW h \in Handlers, Load(h) PROVE WindowInv'
  BY <1>4 DEF Load, WindowInv, PlacesOf
<1>5. ASSUME NEW h \in Handlers, Store(h) PROVE WindowInv'
  BY <1>5 DEF Store, WindowInv, PlacesOf
<1>6. CASE UNCHANGED metricsVars
  BY <1>6 DEF metricsVars, WindowInv, PlacesOf
<1> QED
  BY <1>1, <1>2, <1>3, <1>4, <1>5, <1>6 DEF MetricsNext

LEMMA InitWindow == MetricsInit => WindowInv
<1> SUFFICES ASSUME MetricsInit PROVE WindowInv
  OBVIOUS
<1>1. \A time \in 0 .. MaxTime : Cardinality(PlacesOf(window, time)) = completions[time]
  <2>1. \A time : PlacesOf(window, time) = {}
    BY DEF MetricsInit, PlacesOf
  <2> QED
    BY <2>1, FS_EmptySet DEF MetricsInit
<1>2. window \in Seq(Nat) /\ Len(window) = 0
  BY DEF MetricsInit
<1> QED
  BY <1>1, <1>2, BoundsAssumption DEF MetricsInit, WindowInv

\* The management service's figure is right at any time: a completion is counted once,
\* from the moment it is recorded until it is older than the window, although handlers
\* take the time before the lock and so enter it out of order (record_completion), and
\* the list is pruned at its front only.
THEOREM SnapshotCorrect == MetricsSpec => []SnapshotExact
<1>1. MetricsInv /\ WindowInv => SnapshotExact
  <2> SUFFICES ASSUME MetricsInv, WindowInv PROVE SnapshotExact
    OBVIOUS
  <2>1. \A i \in Recent : window[i] \in 0 .. clock
    BY DEF WindowInv, Recent
  <2>2. ASSUME NEW time \in 0 .. clock
        PROVE  Cardinality({i \in Recent : window[i] = time}) =
                   IF clock - time <= WindowSeconds THEN completions[time] ELSE 0
    <3>1. time \in 0 .. MaxTime /\ clock \in Nat /\ WindowSeconds \in Nat
      BY BoundsAssumption, WindowAssumption DEF MetricsInv, MetricsTypeOK
    <3>2. CASE clock - time <= WindowSeconds
      <4>1. ~ Outdated(clock, time) /\ time >= clock - WindowSeconds
        BY <3>1, <3>2 DEF Outdated
      <4>2. {i \in Recent : window[i] = time} = PlacesOf(window, time)
        BY <4>1 DEF Recent, PlacesOf
      <4> QED
        BY <3>1, <3>2, <4>1, <4>2 DEF WindowInv
    <3>3. CASE ~ (clock - time <= WindowSeconds)
      <4>1. ~ (time >= clock - WindowSeconds)
        BY <3>1, <3>3
      <4>2. {i \in Recent : window[i] = time} = {}
        BY <4>1 DEF Recent
      <4> QED
        BY <3>3, <4>2, FS_EmptySet
    <3> QED
      BY <3>2, <3>3
  <2> QED
    BY <2>1, <2>2 DEF SnapshotExact
<1>2. MetricsSpec => []WindowInv
  <2>1. MetricsInv /\ MetricsInv' /\ WindowInv /\ [MetricsNext]_metricsVars => WindowInv'
    BY StepKeepsWindow
  <2> QED
    BY <2>1, InitWindow, MetricsInvariant, PTL DEF MetricsSpec
<1> QED
  BY <1>1, <1>2, MetricsInvariant, PTL

-----------------------------------------------------------------------------
(* The parts together.                                                      *)

\* The parts share nothing: a behaviour of all of them is one of each.
LEMMA EveryPartItself ==
    PartsSpec => CsvSpec /\ SplitSpec /\ RowSpec /\ EngineSpec /\ TopologySpec /\ MetricsSpec
<1>1. PartsInit => CsvInit /\ SplitInit /\ RowInit /\ EngineInit /\ TopologyInit /\ MetricsInit
  BY DEF PartsInit
<1>2. ASSUME [PartsNext]_partsVars
      PROVE  /\ [CsvNext]_csvVars /\ [SplitNext]_splitVars /\ [RowNext]_rowVars
             /\ [EngineNext]_engineVars /\ [TopologyNext]_topologyVars /\ [MetricsNext]_metricsVars
  BY <1>2 DEF PartsNext, partsVars
<1> QED
  BY <1>1, <1>2, PTL DEF PartsSpec, CsvSpec, SplitSpec, RowSpec, EngineSpec, TopologySpec, MetricsSpec

\* What the loader, the two readers of rows, the search, the derivation of the children
\* and the tuner keep within their types and limits, they keep in a node that has all
\* of them: positions, indices of records, 8- and 16-bit members, chunk sizes.
THEOREM PartsTypesCorrect == PartsSpec => []PartsTypeOK
<1>1. ChunkInv => CsvTypeOK
  BY DEF ChunkInv
<1>2. TopologyInv => TopologyTypeOK
  BY DEF TopologyInv
<1>3. CsvTypeOK /\ SplitTypeOK /\ RowTypeOK /\ EngineTypeOK /\ TopologyTypeOK /\ MetricsTypeOK => PartsTypeOK
  BY DEF PartsTypeOK
<1> QED
  BY <1>1, <1>2, <1>3, EveryPartItself, ChunksInvariant, SplitTypeCorrect, RowTypeCorrect,
     EngineTypeCorrect, TopologyInvariant, MetricsTypeCorrect, PTL
===============================================================================
