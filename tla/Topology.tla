------------------------------- MODULE Topology -------------------------------
(***************************************************************************)
(* Who asks whom: every node derives its children from the edges of the     *)
(* topology, the C++ node (derive_children of cpp/server/node_server.cpp)   *)
(* along the edges in the order of the file, a Python node (_build_graph,   *)
(* _build_parent_map and _derive_children of python/server/node.py) in the  *)
(* order of the letters.  Nobody compares the results.                      *)
(*                                                                          *)
(* A node is the number of its letter, the root A among them; an edge is a  *)
(* pair of nodes.                                                           *)
(***************************************************************************)
EXTENDS Integers, Sequences

CONSTANTS
    NodeIds,    \* the letters
    RootId,     \* A
    Edges       \* the edge lists a topology may have: sequences of pairs of NodeIds

NoNode == 0         \* the parent of the root
Unseen == -1        \* the parent of a node that is not discovered
Searches == {"cpp", "py"}

ASSUME TopologyAssumption == NodeIds \subseteq Nat \ {NoNode} /\ RootId \in NodeIds
ASSUME EdgesAssumption == Edges \subseteq Seq(NodeIds \X NodeIds)

VARIABLES
    edges,      \* the edge list
    parent,     \* who discovered a node, in each search
    queue,      \* the nodes whose neighbours have not been looked at
    current,    \* the node whose neighbours are being looked at, NoNode at first
    ahead       \* those of them that are left

topologyVars == <<edges, parent, queue, current, ahead>>

\* The neighbours of a node, over the edges in either direction.
Neighbours(n) ==
    {m \in NodeIds : \E i \in DOMAIN edges : edges[i] \in {<<n, m>>, <<m, n>>}}

\* The next neighbour: the C++ vectors hold them in the order of the edges, a repeat
\* counting for nothing; the Python sets are sorted.
Precedes(n, i, m) == edges[i] \in {<<n, m>>, <<m, n>>}
Comes(s, n, m) ==
    IF s = "py" THEN \A other \in ahead[s] : m <= other
    ELSE \E i \in DOMAIN edges :
             /\ Precedes(n, i, m)
             /\ \A other \in ahead[s] \ {m}, j \in 1 .. i : ~ Precedes(n, j, other)

TopologyInit ==
    /\ edges \in Edges
    /\ parent = [s \in Searches |->
                   [n \in NodeIds |-> IF n = RootId THEN NoNode ELSE Unseen]]
    /\ queue = [s \in Searches |-> <<RootId>>]
    /\ current = [s \in Searches |-> NoNode]
    /\ ahead = [s \in Searches |-> {}]

Dequeue(s) ==
    /\ ahead[s] = {} /\ queue[s] # <<>>
    /\ current' = [current EXCEPT ![s] = Head(queue[s])]
    /\ ahead' = [ahead EXCEPT ![s] = Neighbours(Head(queue[s]))]
    /\ queue' = [queue EXCEPT ![s] = Tail(@)]
    /\ UNCHANGED <<edges, parent>>

\* Mutant: the neighbours are looked at depth first.
Visit_Stack(s, m) ==
    /\ m \in ahead[s] /\ Comes(s, current[s], m)
    /\ ahead' = [ahead EXCEPT ![s] = @ \ {m}]
    /\ IF parent[s][m] # Unseen
       THEN UNCHANGED <<parent, queue>>
       ELSE /\ parent' = [parent EXCEPT ![s][m] = current[s]]
            /\ queue' = [queue EXCEPT ![s] = <<m>> \o @]
    /\ UNCHANGED <<edges, current>>

\* Mutant: the last to see a node is its parent.
Visit_Reassigned(s, m) ==
    /\ m \in ahead[s] /\ Comes(s, current[s], m)
    /\ ahead' = [ahead EXCEPT ![s] = @ \ {m}]
    /\ parent' = [parent EXCEPT ![s][m] = current[s]]
    /\ queue' = [queue EXCEPT ![s] = IF parent[s][m] = Unseen THEN Append(@, m) ELSE @]
    /\ UNCHANGED <<edges, current>>

\* The first to see a node is its parent, and queues it.
Visit(s, m) ==
    /\ m \in ahead[s] /\ Comes(s, current[s], m)
    /\ ahead' = [ahead EXCEPT ![s] = @ \ {m}]
    /\ IF parent[s][m] # Unseen
       THEN UNCHANGED <<parent, queue>>
       ELSE /\ parent' = [parent EXCEPT ![s][m] = current[s]]
            /\ queue' = [queue EXCEPT ![s] = Append(@, m)]
    /\ UNCHANGED <<edges, current>>

TopologyNext == \E s \in Searches : Dequeue(s) \/ \E m \in NodeIds : Visit(s, m)

TopologySpec == TopologyInit /\ [][TopologyNext]_topologyVars

-----------------------------------------------------------------------------

SearchDone(s) == queue[s] = <<>> /\ ahead[s] = {}
Seen(s) == {n \in NodeIds : parent[s][n] # Unseen}

\* Whom a node asks: its children, in the search of its own language; A is the C++
\* node, all others are Python nodes (scripts/launch_all.sh, launch_python_nodes.sh).
Asks(n) == {m \in NodeIds : parent[IF n = RootId THEN "cpp" ELSE "py"][m] = n}

TopologyTypeOK ==
    /\ edges \in Edges
    /\ parent \in [Searches -> [NodeIds -> NodeIds \cup {NoNode, Unseen}]]
    /\ queue \in [Searches -> Seq(NodeIds)]
    /\ current \in [Searches -> NodeIds \cup {NoNode}]
    /\ ahead \in [Searches -> SUBSET NodeIds]

\* Both searches see every node that can be reached from the root, and every one of
\* them but the root is asked by exactly one, itself asked or the root: a query visits
\* each partition once, although the two languages look at the edges in their own order.
AskedOnce ==
    SearchDone("cpp") /\ SearchDone("py") =>
        /\ Seen("cpp") = Seen("py")
        /\ \A n \in Seen("py") : Neighbours(n) \subseteq Seen("py")
        /\ \A m \in Seen("py") \ {RootId} :
               \E n \in Seen("py") : m \in Asks(n) /\ \A other \in NodeIds : m \in Asks(other) => other = n
        /\ \A n \in NodeIds : RootId \notin Asks(n)

\* The nodes at a distance of at most k edges from the root.
Within[k \in Nat] ==
    IF k = 0 THEN {RootId}
    ELSE LET nearer == Within[k - 1]
         IN  nearer \cup UNION {Neighbours(n) : n \in nearer}

\* A parent is one edge nearer to the root than its child: no query takes a detour.
NearestParent ==
    \A k \in 0 .. Len(edges) :
        LET near == Within[k]
            next == near \cup UNION {Neighbours(n) : n \in near}
        IN  \A s \in Searches : \A m \in (Seen(s) \cap next) \ {RootId} : parent[s][m] \in near
===============================================================================
