---------------------------- MODULE ReplicaMerge ----------------------------
(***************************************************************************)
(* How A turns the answers of its children into one (bft_mode "lite" or    *)
(* off): expand_replica_targets, verify_bft_metadata and                   *)
(* collect_child_merge_result in cpp/server/node_server.cpp, with the       *)
(* hash and the fault injection of the workers that answer                 *)
(* (python/server/node.py).                                                *)
(***************************************************************************)
EXTENDS Integers, Sequences, FiniteSets

CONSTANTS
    Node,        \* node ids
    Children,    \* runtime_.children, in their order
    Group,       \* bft_replica_groups: logical child -> the nodes that stand for it
    Endpoints,   \* the nodes the configuration gives an address
    Lite,        \* the values of bft_lite to be looked at
    Thresholds,  \* the values of bft_fault_threshold
    Outcomes     \* what may become of a call, see Answer

ASSUME NodesAssumption ==
    /\ Children \in Seq(Node)
    /\ \A i, j \in 1 .. Len(Children) : Children[i] = Children[j] => i = j
    /\ DOMAIN Group \subseteq Node
    /\ Group \in [DOMAIN Group -> SUBSET Node]
    /\ \A c \in DOMAIN Group : IsFiniteSet(Group[c])
    /\ Endpoints \subseteq Node
ASSUME ModesAssumption ==
    /\ Lite \subseteq BOOLEAN
    /\ Thresholds \subseteq Nat
    /\ Outcomes \subseteq {"right", "failed", "mutation", "bare", "wrong_aggregation"}

VARIABLES
    lite,       \* bft_lite, fixed
    threshold,  \* bft_fault_threshold, fixed
    results,    \* the ChildCallResults, in the order the calls ended
    next,       \* the logical child the merge comes to next
    merged      \* what has gone into the ChildMergeResult, in order

vars == <<lite, threshold, results, next, merged>>

Payload == {"right", "wrong"}

\* Mutant: a hash that all replicas with the same rows share.
PayloadHash_NoSource(source, payload) == <<"", payload>>

\* A worker hashes its own id along with aggregates and records.
PayloadHash(source, payload) == <<source, payload>>

ChildIds == {Children[i] : i \in 1 .. Len(Children)}

\* The nodes asked for logical child c: its group, or itself when it has none.
ReplicasOf(c) ==
    (IF lite /\ c \in DOMAIN Group /\ Group[c] # {} THEN Group[c] ELSE {c})
        \cap Endpoints

Targets == UNION {{c} \X ReplicasOf(c) : c \in ChildIds}

Result ==
    [ logical_child_id : Node, replica_id : Node, ok : BOOLEAN,
      meta_intact : BOOLEAN, payload_hash : Node \X Payload,
      payload : Payload ]

TypeOK ==
    /\ lite \in Lite
    /\ threshold \in Thresholds
    /\ results \in Seq(Result)
    /\ next \in 1 .. Len(Children) + 1
    /\ merged \in Seq([child : Node, payload : Payload])

Init ==
    /\ lite \in Lite
    /\ threshold \in Thresholds
    /\ results = <<>>
    /\ next = 1
    /\ merged = <<>>

-----------------------------------------------------------------------------
(* The answers.                                                            *)

Pending == {t \in Targets : \A i \in 1 .. Len(results) :
                <<results[i].logical_child_id, results[i].replica_id>> # t}

\* A call ends.  The worker attaches the hash of the right payload, or, when its own
\* configuration is not lite, no bft_meta at all ("bare"); fault injection may then drop
\* the answer, garble meta.node_id or change the sum, and leaves the hash as it is.
Answer(c, r) ==
    /\ <<c, r>> \in Pending
    /\ \E outcome \in Outcomes :
          results' = Append(results,
            [ logical_child_id |-> c, replica_id |-> r,
              ok |-> outcome # "failed",
              meta_intact |-> outcome \notin {"mutation", "bare"},
              payload_hash |-> PayloadHash(r, "right"),
              payload |-> IF outcome = "wrong_aggregation" THEN "wrong" ELSE "right" ])
    /\ UNCHANGED <<lite, threshold, next, merged>>

-----------------------------------------------------------------------------
(* The merge, one logical child per step of its loop.                      *)

\* Mutant: the names are compared when lite mode is off.
VerifyBftMetadata_Inverted(result) == ~ lite => result.meta_intact

\* In lite mode bft_meta must be there, name the replica, and have a hash and a tag.
VerifyBftMetadata(result) == lite => result.meta_intact

Valid(c) ==
    {i \in 1 .. Len(results) :
        /\ results[i].logical_child_id = c
        /\ results[i].ok
        /\ VerifyBftMetadata(results[i])}

\* The claimed hash counts in lite mode, a recomputed one otherwise.
HashKey(result) ==
    IF lite THEN result.payload_hash
            ELSE PayloadHash(result.replica_id, result.payload)

ByHash(c, key) == {i \in Valid(c) : HashKey(results[i]) = key}
Keys(c) == {HashKey(results[i]) : i \in Valid(c)}

ConfiguredReplicas(c) ==
    IF c \in DOMAIN Group /\ Group[c] # {} THEN Cardinality(Group[c])
    ELSE Cardinality({i \in 1 .. Len(results) : results[i].logical_child_id = c})

\* n >= 3f + 1, asked in lite mode only.
EnoughReplicas(c) == lite => ConfiguredReplicas(c) >= 3 * threshold + 1

\* Mutant: as many answers as may be wrong.
Quorum_Threshold == IF lite THEN threshold ELSE 1

Quorum == IF lite THEN 2 * threshold + 1 ELSE 1

\* The largest buckets; which of them comes first is up to the hash table.
Winners(c) ==
    {key \in Keys(c) : \A other \in Keys(c) :
        Cardinality(ByHash(c, other)) <= Cardinality(ByHash(c, key))}

\* The answer of a bucket that came first.
Front(bucket) == {i \in bucket : \A j \in bucket : i <= j}

\* Mutant: the children are taken in the order of their first answers.
ChildAt_Arrival(n) == CHOOSE c \in ChildIds :
    Cardinality({d \in ChildIds : \E i \in 1 .. Len(results) :
        /\ results[i].logical_child_id = d
        /\ \A j \in 1 .. i : results[j].logical_child_id # c}) = n - 1

ChildAt(n) == Children[n]

MergeChild ==
    LET c == ChildAt(next)
    IN  /\ Pending = {}
        /\ next <= Len(Children)
        /\ next' = next + 1
        /\ IF Valid(c) = {} \/ ~ EnoughReplicas(c)
           THEN UNCHANGED merged
           ELSE \E key \in Winners(c) :
                  IF Cardinality(ByHash(c, key)) < Quorum
                  THEN UNCHANGED merged
                  ELSE \E i \in Front(ByHash(c, key)) :
                         merged' = Append(merged,
                                          [ child |-> c, payload |-> results[i].payload ])
        /\ UNCHANGED <<lite, threshold, results>>

Next == (\E c, r \in Node : Answer(c, r)) \/ MergeChild

Spec == Init /\ [][Next]_vars

-----------------------------------------------------------------------------
(* Properties.                                                             *)

Done == next > Len(Children)

\* The children are merged in the configured order, none twice.
InConfiguredOrder ==
    \A m, n \in 1 .. Len(merged) : \A k, l \in 1 .. Len(Children) :
        m < n /\ Children[k] = merged[m].child /\ Children[l] = merged[n].child => k < l

\* Whatever is merged for a child came from a replica of that child and passed the
\* checks, and the children are merged in the configured order, none twice.
OwnAnswersInOrder ==
    /\ \A n \in 1 .. Len(merged) : \E i \in 1 .. Len(results) :
          /\ results[i].logical_child_id = merged[n].child
          /\ results[i].replica_id \in ReplicasOf(merged[n].child)
          /\ results[i].ok
          /\ lite => results[i].meta_intact
          /\ results[i].payload = merged[n].payload
    /\ InConfiguredOrder

\* A child has an answer that no check turns down.
Acceptable(c) == \E i \in 1 .. Len(results) :
    /\ results[i].logical_child_id = c
    /\ results[i].ok
    /\ lite => results[i].meta_intact

\* Where one answer is enough, exactly the children with an acceptable answer are
\* merged, once each and in the configured order, whatever the order of arrival.
MergesWhoAnswered ==
    Done /\ (lite => threshold = 0) =>
        /\ {merged[n].child : n \in 1 .. Len(merged)} = {c \in ChildIds : Acceptable(c)}
        /\ InConfiguredOrder

\* The hash covers the id of the node that made it, so no two replicas ever
\* agree: with a threshold of one or more, lite mode merges nothing.
NoQuorumEver == lite /\ threshold >= 1 => merged = <<>>

-----------------------------------------------------------------------------
(* What the repository says of itself and the code does not do.            *)

\* "Nodes form a logical tree rooted at the entry node; queries fan out, execute
\* locally, and results are merged" (README.md:3): a child that answered rightly
\* is in the result.
RightAnswersAreMerged ==
    Done => \A i \in 1 .. Len(results) :
        results[i].ok /\ results[i].payload = "right" /\ results[i].meta_intact =>
            \E n \in 1 .. Len(merged) : merged[n].child = results[i].logical_child_id
=============================================================================
