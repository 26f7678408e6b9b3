------------------------- MODULE ReplicaMergeProofs -------------------------
(***************************************************************************)
(* Theorems about ReplicaMerge, for all nodes, children, groups and         *)
(* thresholds.                                                             *)
(***************************************************************************)
EXTENDS ReplicaMerge, FiniteSetTheorems, TLAPS

-----------------------------------------------------------------------------
(* The inductive invariant.                                                *)

\* Each replica answers once for each logical child it stands for.
OnceEach ==
    \A i, j \in 1 .. Len(results) :
        /\ results[i].logical_child_id = results[j].logical_child_id
        /\ results[i].replica_id = results[j].replica_id
        => i = j

\* A hash names the replica that made it.
OwnHash ==
    \A i \in 1 .. Len(results) : results[i].payload_hash[1] = results[i].replica_id

\* The merge begins when all calls have ended.
MergedLast == Pending # {} => merged = <<>>

MergeInv == TypeOK /\ OnceEach /\ OwnHash /\ MergedLast

LEMMA InitMerge == Init => MergeInv
  BY NodesAssumption
     DEF Init, MergeInv, TypeOK, OnceEach, OwnHash, MergedLast, Result, Payload

\* No call is pending for a target that has answered.
LEMMA PendingAnswered ==
    ASSUME NEW c, NEW r, <<c, r>> \in Pending, NEW i \in 1 .. Len(results)
    PROVE  ~ (results[i].logical_child_id = c /\ results[i].replica_id = r)
  BY DEF Pending

\* What an answer adds to the results.
LEMMA AnswerAppends ==
    ASSUME TypeOK, NEW c \in Node, NEW r \in Node, Answer(c, r)
    PROVE  \E new \in Result :
              /\ results' = Append(results, new)
              /\ new.logical_child_id = c /\ new.replica_id = r
              /\ new.payload_hash[1] = r
  <1>1. PICK outcome \in Outcomes :
          results' = Append(results,
            [ logical_child_id |-> c, replica_id |-> r,
              ok |-> outcome # "failed",
              meta_intact |-> outcome \notin {"mutation", "bare"},
              payload_hash |-> <<r, "right">>,
              payload |-> IF outcome = "wrong_aggregation" THEN "wrong" ELSE "right" ])
    BY DEF Answer, PayloadHash
  <1> DEFINE new == [ logical_child_id |-> c, replica_id |-> r,
              ok |-> outcome # "failed",
              meta_intact |-> outcome \notin {"mutation", "bare"},
              payload_hash |-> <<r, "right">>,
              payload |-> IF outcome = "wrong_aggregation" THEN "wrong" ELSE "right" ]
  <1>2. new \in Result
    <2>1. <<r, "right">> \in Node \X Payload
      BY DEF Payload
    <2>2. (IF outcome = "wrong_aggregation" THEN "wrong" ELSE "right") \in Payload
      BY DEF Payload
    <2>. QED BY <2>1, <2>2 DEF Result
  <1>3. new.logical_child_id = c /\ new.replica_id = r /\ new.payload_hash[1] = r
    OBVIOUS
  <1>. QED BY <1>1, <1>2, <1>3

LEMMA ResultTypes ==
    ASSUME TypeOK, NEW i \in 1 .. Len(results)
    PROVE  results[i] \in Result /\ results[i].payload \in Payload
  <1>1. results \in Seq(Result)
    BY DEF TypeOK
  <1>2. results[i] \in Result
    BY <1>1
  <1>. QED BY <1>2 DEF Result

LEMMA AnswerKeeps ==
    ASSUME MergeInv, NEW c \in Node, NEW r \in Node, Answer(c, r)
    PROVE  MergeInv'
  <1>1. PICK new \in Result :
              /\ results' = Append(results, new)
              /\ new.logical_child_id = c /\ new.replica_id = r
              /\ new.payload_hash[1] = r
    BY AnswerAppends DEF MergeInv
  <1>2. /\ <<c, r>> \in Pending
        /\ UNCHANGED <<lite, threshold, next, merged>>
    BY DEF Answer
  <1>3. /\ results \in Seq(Result) /\ results' \in Seq(Result)
        /\ Len(results') = Len(results) + 1
        /\ \A i \in 1 .. Len(results) : results'[i] = results[i]
        /\ results'[Len(results) + 1] = new
    BY <1>1 DEF MergeInv, TypeOK
  <1>4. TypeOK'
    BY <1>2, <1>3 DEF MergeInv, TypeOK
  <1>5. OnceEach'
    <2>1. \A i \in 1 .. Len(results) :
              ~ (results[i].logical_child_id = c /\ results[i].replica_id = r)
      BY <1>2, PendingAnswered
    <2>2. \A i \in 1 .. Len(results) + 1 : i \in 1 .. Len(results) \/ i = Len(results) + 1
      BY <1>3
    <2>. QED BY <1>1, <1>3, <2>1, <2>2 DEF MergeInv, OnceEach
  <1>6. OwnHash'
    <2>1. \A i \in 1 .. Len(results) + 1 : i \in 1 .. Len(results) \/ i = Len(results) + 1
      BY <1>3
    <2>. QED BY <1>1, <1>3, <2>1 DEF MergeInv, OwnHash
  <1>7. MergedLast'
    BY <1>2 DEF MergeInv, MergedLast
  <1>. QED BY <1>4, <1>5, <1>6, <1>7 DEF MergeInv

\* One step of the loop: nothing, or an answer of a bucket as large as the quorum.
LEMMA MergeAppends ==
    ASSUME MergeChild
    PROVE  /\ Pending = {} /\ next <= Len(Children) /\ next' = next + 1
           /\ UNCHANGED <<lite, threshold, results>>
           /\ \/ UNCHANGED merged
              \/ \E i \in 1 .. Len(results), key \in Keys(Children[next]) :
                    /\ ~ (Cardinality(ByHash(Children[next], key)) < Quorum)
                    /\ i \in ByHash(Children[next], key)
                    /\ merged' = Append(merged, [ child |-> Children[next],
                                                  payload |-> results[i].payload ])
  <1> DEFINE c == Children[next]
  <1>1. /\ Pending = {} /\ next <= Len(Children) /\ next' = next + 1
        /\ UNCHANGED <<lite, threshold, results>>
    BY DEF MergeChild
  <1>2. CASE UNCHANGED merged
    BY <1>1, <1>2
  <1>3. CASE ~ UNCHANGED merged
    <2>1. PICK key \in Winners(c) :
            /\ ~ (Cardinality(ByHash(c, key)) < Quorum)
            /\ \E i \in Front(ByHash(c, key)) :
                 merged' = Append(merged, [child |-> c, payload |-> results[i].payload])
      BY <1>3 DEF MergeChild, ChildAt
    <2>2. PICK i \in Front(ByHash(c, key)) :
                 merged' = Append(merged, [child |-> c, payload |-> results[i].payload])
      BY <2>1
    <2>3. i \in ByHash(c, key) /\ i \in 1 .. Len(results) /\ key \in Keys(c)
      BY <2>1 DEF Front, ByHash, Valid, Winners
    <2>. QED BY <1>1, <2>1, <2>2, <2>3
  <1>. QED BY <1>2, <1>3

LEMMA MergeKeeps ==
    ASSUME MergeInv, MergeChild
    PROVE  MergeInv'
  <1>1. /\ Pending = {} /\ next <= Len(Children) /\ next' = next + 1
        /\ UNCHANGED <<lite, threshold, results>>
    BY MergeAppends
  <1>2. next' \in 1 .. Len(Children) + 1 /\ Children[next] \in Node
    BY <1>1, NodesAssumption DEF MergeInv, TypeOK
  <1>3. merged' \in Seq([child : Node, payload : Payload])
    <2>1. CASE UNCHANGED merged
      BY <2>1 DEF MergeInv, TypeOK
    <2>2. CASE ~ UNCHANGED merged
      <3>1. PICK i \in 1 .. Len(results) :
              merged' = Append(merged, [ child |-> Children[next],
                                         payload |-> results[i].payload ])
        BY <2>2, MergeAppends
      <3>2. results[i].payload \in Payload
        BY ResultTypes DEF MergeInv
      <3>. QED BY <1>2, <3>1, <3>2 DEF MergeInv, TypeOK
    <2>. QED BY <2>1, <2>2
  <1>4. TypeOK'
    BY <1>1, <1>2, <1>3 DEF MergeInv, TypeOK
  <1>5. Pending' = Pending
    BY <1>1 DEF Pending, Targets, ReplicasOf
  <1>. QED BY <1>1, <1>4, <1>5 DEF MergeInv, OnceEach, OwnHash, MergedLast

LEMMA StutterKeeps == MergeInv /\ UNCHANGED vars => MergeInv'
  BY DEF MergeInv, vars, TypeOK, OnceEach, OwnHash, MergedLast, Pending, Targets, ReplicasOf

LEMMA MergeInvariant == Spec => []MergeInv
  <1>1. MergeInv /\ [Next]_vars => MergeInv'
    BY AnswerKeeps, MergeKeeps, StutterKeeps DEF Next
  <1>. QED BY InitMerge, <1>1, PTL DEF Spec

\* Every variable keeps its type, for any nodes, groups and thresholds.
THEOREM TypeCorrect == Spec => []TypeOK
  BY MergeInvariant, PTL DEF MergeInv

-----------------------------------------------------------------------------
(* What can be merged.                                                     *)

\* In lite mode a bucket never holds two answers: the hash names its maker, who
\* answers once.
LEMMA BucketsOfOne ==
    ASSUME MergeInv, lite, NEW c, NEW key
    PROVE  Cardinality(ByHash(c, key)) \in {0, 1}
  <1>1. \A i, j \in ByHash(c, key) : i = j
    <2> SUFFICES ASSUME NEW i \in ByHash(c, key), NEW j \in ByHash(c, key)
                 PROVE  i = j
      OBVIOUS
    <2>1. /\ i \in 1 .. Len(results) /\ j \in 1 .. Len(results)
          /\ results[i].logical_child_id = c /\ results[j].logical_child_id = c
          /\ results[i].payload_hash = results[j].payload_hash
      BY DEF ByHash, Valid, HashKey
    <2>2. results[i].replica_id = results[j].replica_id
      BY <2>1 DEF MergeInv, OwnHash
    <2>. QED BY <2>1, <2>2 DEF MergeInv, OnceEach
  <1>2. CASE ByHash(c, key) = {}
    BY <1>2, FS_EmptySet
  <1>3. CASE ByHash(c, key) # {}
    <2>1. PICK x \in ByHash(c, key) : TRUE
      BY <1>3
    <2>2. ByHash(c, key) = {x}
      BY <1>1, <2>1
    <2>. QED BY <2>2, FS_Singleton
  <1>. QED BY <1>2, <1>3

LEMMA NoQuorumKept ==
    ASSUME MergeInv, NoQuorumEver, [Next]_vars
    PROVE  NoQuorumEver'
  <1>1. CASE UNCHANGED <<lite, threshold, merged>>
    BY <1>1 DEF NoQuorumEver
  <1>2. CASE MergeChild
    <2>1. UNCHANGED <<lite, threshold>>
      BY <1>2, MergeAppends
    <2> SUFFICES ASSUME lite, threshold >= 1, ~ UNCHANGED merged
                 PROVE  FALSE
      BY <2>1 DEF NoQuorumEver
    <2>2. PICK key \in Keys(Children[next]) :
            ~ (Cardinality(ByHash(Children[next], key)) < Quorum)
      BY <1>2, MergeAppends
    <2>3. Quorum = 2 * threshold + 1 /\ threshold \in Nat
      BY ModesAssumption DEF Quorum, MergeInv, TypeOK
    <2>. QED BY <2>2, <2>3, BucketsOfOne
  <1>. QED BY <1>1, <1>2 DEF Next, Answer, vars

\* With a threshold of one or more lite mode merges the answer of no child, however
\* many replicas it has and however they answer.
THEOREM NoQuorumCorrect == Spec => []NoQuorumEver
  <1>1. Init => NoQuorumEver
    BY DEF Init, NoQuorumEver
  <1>. QED BY <1>1, MergeInvariant, NoQuorumKept, PTL DEF Spec

-----------------------------------------------------------------------------
(* Where it comes from.                                                    *)

\* What has been merged belongs to children the loop has passed.
Passed ==
    \A n \in 1 .. Len(merged) : \A k \in 1 .. Len(Children) :
        Children[k] = merged[n].child => k < next

\* Every result is of a target.
OfTargets ==
    \A i \in 1 .. Len(results) :
        results[i].replica_id \in ReplicasOf(results[i].logical_child_id)

OrderInv == Passed /\ OfTargets /\ OwnAnswersInOrder

LEMMA OrderKeptByAnswer ==
    ASSUME MergeInv, OrderInv, NEW c \in Node, NEW r \in Node, Answer(c, r)
    PROVE  OrderInv'
  <1>1. <<c, r>> \in Pending /\ UNCHANGED <<lite, threshold, next, merged>>
    BY DEF Answer
  <1>2. merged' = <<>>
    BY <1>1 DEF MergeInv, MergedLast
  <1>3. PICK new \in Result :
          results' = Append(results, new) /\ new.logical_child_id = c /\ new.replica_id = r
    BY AnswerAppends DEF MergeInv
  <1>4. r \in ReplicasOf(c)
    BY <1>1 DEF Pending, Targets
  <1>5. OfTargets'
    <2>1. /\ results \in Seq(Result) /\ Len(results') = Len(results) + 1
          /\ \A i \in 1 .. Len(results) : results'[i] = results[i]
          /\ results'[Len(results) + 1] = new
      BY <1>3 DEF MergeInv, TypeOK
    <2>2. \A i \in 1 .. Len(results') : i \in 1 .. Len(results) \/ i = Len(results) + 1
      BY <2>1
    <2>3. \A d : ReplicasOf(d)' = ReplicasOf(d)
      BY <1>1 DEF ReplicasOf
    <2>. QED BY <1>3, <1>4, <2>1, <2>2, <2>3 DEF OrderInv, OfTargets
  <1>. QED BY <1>2, <1>5 DEF OrderInv, Passed, OwnAnswersInOrder, InConfiguredOrder

LEMMA OrderKeptByMerge ==
    ASSUME MergeInv, OrderInv, MergeChild
    PROVE  OrderInv'
  <1> DEFINE c == Children[next]
  <1>1. /\ next <= Len(Children) /\ next' = next + 1
        /\ UNCHANGED <<lite, threshold, results>>
    BY MergeAppends
  <1>2. /\ next \in 1 .. Len(Children) /\ Len(Children) \in Nat
        /\ merged \in Seq([child : Node, payload : Payload])
    BY <1>1, NodesAssumption DEF MergeInv, TypeOK
  <1>3. \A d : ReplicasOf(d)' = ReplicasOf(d)
    BY <1>1 DEF ReplicasOf
  <1>4. OfTargets'
    BY <1>1, <1>3 DEF OrderInv, OfTargets
  <1>5. CASE UNCHANGED merged
    <2>1. Passed'
      BY <1>1, <1>2, <1>5 DEF OrderInv, Passed
    <2>2. OwnAnswersInOrder'
      BY <1>1, <1>3, <1>5 DEF OrderInv, OwnAnswersInOrder, InConfiguredOrder
    <2>. QED BY <1>4, <2>1, <2>2 DEF OrderInv
  <1>6. CASE ~ UNCHANGED merged
    <2>1. PICK i \in 1 .. Len(results), key \in Keys(c) :
            /\ i \in ByHash(c, key)
            /\ merged' = Append(merged, [child |-> c, payload |-> results[i].payload])
      BY <1>6, MergeAppends
    <2>2. /\ Len(merged') = Len(merged) + 1 /\ Len(merged) \in Nat
          /\ \A n \in 1 .. Len(merged) : merged'[n] = merged[n]
          /\ merged'[Len(merged) + 1].child = c
          /\ merged'[Len(merged) + 1].payload = results[i].payload
      BY <1>2, <2>1
    <2>3. \A n \in 1 .. Len(merged') : n \in 1 .. Len(merged) \/ n = Len(merged) + 1
      BY <2>2
    <2>4. \A k \in 1 .. Len(Children) : Children[k] = c => k = next
      BY <1>2, NodesAssumption
    <2>5. Passed'
      BY <1>1, <1>2, <2>2, <2>3, <2>4 DEF OrderInv, Passed
    <2>6. /\ results[i].logical_child_id = c /\ results[i].ok
          /\ lite => results[i].meta_intact
          /\ results[i].replica_id \in ReplicasOf(c)
      BY <2>1 DEF ByHash, Valid, VerifyBftMetadata, OrderInv, OfTargets
    <2>7. OwnAnswersInOrder'
      <3>1. ASSUME NEW n \in 1 .. Len(merged')
            PROVE  \E j \in 1 .. Len(results) :
                      /\ results[j].logical_child_id = merged'[n].child
                      /\ results[j].replica_id \in ReplicasOf(merged'[n].child)
                      /\ results[j].ok
                      /\ lite => results[j].meta_intact
                      /\ results[j].payload = merged'[n].payload
        <4>1. CASE n \in 1 .. Len(merged)
          <5>1. merged'[n] = merged[n]
            BY <2>2, <4>1
          <5>2. PICK j \in 1 .. Len(results) :
                      /\ results[j].logical_child_id = merged[n].child
                      /\ results[j].replica_id \in ReplicasOf(merged[n].child)
                      /\ results[j].ok
                      /\ lite => results[j].meta_intact
                      /\ results[j].payload = merged[n].payload
            BY <4>1 DEF OrderInv, OwnAnswersInOrder
          <5>. QED BY <5>1, <5>2
        <4>2. CASE n = Len(merged) + 1
          <5>1. merged'[n].child = c /\ merged'[n].payload = results[i].payload
            BY <2>2, <4>2
          <5>. QED BY <2>6, <5>1
        <4>. QED BY <2>3, <4>1, <4>2
      <3>2. ASSUME NEW a \in 1 .. Len(merged'), NEW b \in 1 .. Len(merged'), a < b,
                   NEW k \in 1 .. Len(Children), NEW l \in 1 .. Len(Children),
                   Children[k] = merged'[a].child, Children[l] = merged'[b].child
            PROVE  k < l
        <4>1. a \in 1 .. Len(merged)
          BY <2>2, <3>2
        <4>2. CASE b \in 1 .. Len(merged)
          BY <2>2, <3>2, <4>1, <4>2 DEF OrderInv, OwnAnswersInOrder, InConfiguredOrder
        <4>3. CASE b = Len(merged) + 1
          BY <2>2, <2>4, <3>2, <4>1, <4>3 DEF OrderInv, Passed
        <4>. QED BY <2>3, <4>2, <4>3
      <3>. QED BY <1>1, <1>3, <3>1, <3>2 DEF OwnAnswersInOrder, InConfiguredOrder
    <2>. QED BY <1>4, <2>5, <2>7 DEF OrderInv
  <1>. QED BY <1>5, <1>6

LEMMA OrderKept ==
    ASSUME MergeInv, OrderInv, [Next]_vars
    PROVE  OrderInv'
  <1>1. CASE UNCHANGED vars
    BY <1>1 DEF vars, OrderInv, Passed, OfTargets, OwnAnswersInOrder, InConfiguredOrder, ReplicasOf
  <1>. QED BY <1>1, OrderKeptByAnswer, OrderKeptByMerge DEF Next

\* Only answers that came for a child and passed the checks are merged for it, and
\* no child twice, for any groups, also groups that share nodes.
THEOREM OrderCorrect == Spec => []OwnAnswersInOrder
  <1>1. Init => OrderInv
    BY DEF Init, OrderInv, Passed, OfTargets, OwnAnswersInOrder, InConfiguredOrder
  <1>2. OrderInv => OwnAnswersInOrder
    BY DEF OrderInv
  <1>. QED BY <1>1, <1>2, MergeInvariant, OrderKept, PTL DEF Spec

-----------------------------------------------------------------------------
(* Who is merged.                                                          *)

\* The merge has not begun while calls are pending, it merges children, and, where one
\* answer is enough, it has merged every child it has passed that has an acceptable
\* answer.
MergedSoFar ==
    /\ Pending # {} => next = 1
    /\ \A n \in 1 .. Len(merged) : merged[n].child \in ChildIds
    /\ (lite => threshold = 0) =>
          \A k \in 1 .. next - 1 : Acceptable(Children[k]) =>
              \E n \in 1 .. Len(merged) : merged[n].child = Children[k]

\* With a threshold of none, one acceptable answer makes the largest bucket large
\* enough.
LEMMA OneIsEnough ==
    ASSUME MergeInv, MergeChild, lite => threshold = 0, Acceptable(Children[next])
    PROVE  \E payload : merged' = Append(merged, [child |-> Children[next], payload |-> payload])
  <1> DEFINE c == Children[next]
  <1>1. PICK i \in 1 .. Len(results) :
            results[i].logical_child_id = c /\ results[i].ok /\ (lite => results[i].meta_intact)
    BY DEF Acceptable
  <1>2. Valid(c) # {}
    BY <1>1 DEF Valid, VerifyBftMetadata
  <1>3. EnoughReplicas(c)
    <2> SUFFICES ASSUME lite PROVE ConfiguredReplicas(c) >= 3 * threshold + 1
      BY DEF EnoughReplicas
    <2>1. 3 * threshold + 1 = 1
      OBVIOUS
    <2>2. CASE c \in DOMAIN Group /\ Group[c] # {}
      <3>1. IsFiniteSet(Group[c])
        BY <2>2, NodesAssumption
      <3>2. Cardinality(Group[c]) \in Nat /\ Cardinality(Group[c]) # 0
        BY <2>2, <3>1, FS_CardinalityType, FS_EmptySet
      <3>. QED BY <2>1, <2>2, <3>2 DEF ConfiguredReplicas
    <2>3. CASE ~ (c \in DOMAIN Group /\ Group[c] # {})
      <3> DEFINE own == {j \in 1 .. Len(results) : results[j].logical_child_id = c}
      <3>1. IsFiniteSet(1 .. Len(results))
        BY FS_Interval DEF MergeInv, TypeOK
      <3>2. IsFiniteSet(own) /\ own # {}
        BY <1>1, <3>1, FS_Subset
      <3>3. Cardinality(own) \in Nat /\ Cardinality(own) # 0
        BY <3>2, FS_CardinalityType, FS_EmptySet
      <3>4. ConfiguredReplicas(c) = Cardinality(own)
        BY <2>3 DEF ConfiguredReplicas
      <3>. QED BY <2>1, <3>3, <3>4
    <2>. QED BY <2>2, <2>3
  <1>4. Quorum = 1
    BY DEF Quorum
  <1>5. PICK key \in Winners(c) :
            IF Cardinality(ByHash(c, key)) < Quorum
            THEN UNCHANGED merged
            ELSE \E j \in Front(ByHash(c, key)) :
                   merged' = Append(merged, [child |-> c, payload |-> results[j].payload])
    BY <1>2, <1>3 DEF MergeChild, ChildAt
  <1>6. ~ (Cardinality(ByHash(c, key)) < Quorum)
    <2>1. ByHash(c, key) # {}
      BY <1>5 DEF Winners, Keys, ByHash
    <2>2. IsFiniteSet(1 .. Len(results)) /\ ByHash(c, key) \subseteq 1 .. Len(results)
      BY FS_Interval DEF MergeInv, TypeOK, ByHash, Valid
    <2>3. Cardinality(ByHash(c, key)) \in Nat /\ Cardinality(ByHash(c, key)) # 0
      BY <2>1, <2>2, FS_Subset, FS_CardinalityType, FS_EmptySet
    <2>. QED BY <1>4, <2>3
  <1>. QED BY <1>5, <1>6

LEMMA SoFarKeptByAnswer ==
    ASSUME MergeInv, MergedSoFar, NEW c \in Node, NEW r \in Node, Answer(c, r)
    PROVE  MergedSoFar'
  <1>1. <<c, r>> \in Pending /\ UNCHANGED <<lite, threshold, next, merged>>
    BY DEF Answer
  <1>2. next' = 1 /\ merged' = <<>>
    BY <1>1 DEF MergedSoFar, MergeInv, MergedLast
  <1>. QED BY <1>2 DEF MergedSoFar

LEMMA SoFarKeptByMerge ==
    ASSUME MergeInv, MergedSoFar, MergeChild
    PROVE  MergedSoFar'
  <1> DEFINE c == Children[next]
  <1>1. /\ Pending = {} /\ next <= Len(Children) /\ next' = next + 1
        /\ UNCHANGED <<lite, threshold, results>>
    BY MergeAppends
  <1>2. /\ next \in 1 .. Len(Children) /\ Len(Children) \in Nat /\ c \in ChildIds
        /\ merged \in Seq([child : Node, payload : Payload])
    BY <1>1, NodesAssumption DEF MergeInv, TypeOK, ChildIds
  <1>3. Pending' = Pending
    BY <1>1 DEF Pending, Targets, ReplicasOf
  <1>4. \/ UNCHANGED merged
        \/ \E payload \in Payload :
              merged' = Append(merged, [child |-> c, payload |-> payload])
    BY MergeAppends, ResultTypes DEF MergeInv
  <1>5. /\ Len(merged') >= Len(merged) /\ Len(merged) \in Nat /\ Len(merged') \in Nat
        /\ \A n \in 1 .. Len(merged) : merged'[n].child = merged[n].child
        /\ \A n \in 1 .. Len(merged') : n \in 1 .. Len(merged) \/ merged'[n].child = c
    <2>1. CASE UNCHANGED merged
      BY <1>2, <2>1
    <2>2. ASSUME NEW payload \in Payload,
                 merged' = Append(merged, [child |-> c, payload |-> payload])
          PROVE  /\ Len(merged') = Len(merged) + 1 /\ Len(merged) \in Nat
                 /\ \A n \in 1 .. Len(merged) : merged'[n] = merged[n]
                 /\ merged'[Len(merged) + 1].child = c
      <3>1. [child |-> c, payload |-> payload] \in [child : Node, payload : Payload]
        BY <1>2, NodesAssumption
      <3>. QED BY <1>2, <2>2, <3>1
    <2>3. ASSUME ~ UNCHANGED merged
          PROVE  /\ Len(merged') = Len(merged) + 1 /\ Len(merged) \in Nat
                 /\ \A n \in 1 .. Len(merged) : merged'[n] = merged[n]
                 /\ merged'[Len(merged) + 1].child = c
      BY <1>4, <2>2, <2>3
    <2>. QED BY <1>2, <2>1, <2>3
  <1>6. \A d : Acceptable(d)' <=> Acceptable(d)
    BY <1>1 DEF Acceptable
  <1>7. ASSUME lite => threshold = 0, Acceptable(c)
        PROVE  \E n \in 1 .. Len(merged') : merged'[n].child = c
    <2>1. PICK payload : merged' = Append(merged, [child |-> c, payload |-> payload])
      BY <1>7, OneIsEnough
    <2>2. Len(merged') = Len(merged) + 1 /\ merged'[Len(merged) + 1].child = c
      BY <1>2, <2>1
    <2>. QED BY <1>5, <2>2
  <1>8. ASSUME lite => threshold = 0, NEW k \in 1 .. next, Acceptable(Children[k])
        PROVE  \E n \in 1 .. Len(merged') : merged'[n].child = Children[k]
    <2>1. CASE k = next
      BY <1>7, <1>8, <2>1
    <2>2. CASE k # next
      <3>1. k \in 1 .. next - 1
        BY <1>2, <2>2
      <3>2. PICK n \in 1 .. Len(merged) : merged[n].child = Children[k]
        BY <1>8, <3>1 DEF MergedSoFar
      <3>. QED BY <1>5, <3>2
    <2>. QED BY <2>1, <2>2
  <1>9. \A n \in 1 .. Len(merged') : merged'[n].child \in ChildIds
    BY <1>2, <1>5 DEF MergedSoFar
  <1>. QED BY <1>1, <1>2, <1>3, <1>6, <1>8, <1>9 DEF MergedSoFar

LEMMA SoFarKept ==
    ASSUME MergeInv, MergedSoFar, [Next]_vars
    PROVE  MergedSoFar'
  <1>1. CASE UNCHANGED vars
    BY <1>1 DEF vars, MergedSoFar, Acceptable, Pending, Targets, ReplicasOf
  <1>. QED BY <1>1, SoFarKeptByAnswer, SoFarKeptByMerge DEF Next

\* In the other modes, and in lite mode with a threshold of none, nobody who answered
\* acceptably is left out and nobody else gets in, for any groups and any order of
\* arrival.
THEOREM MergeComplete == Spec => []MergesWhoAnswered
  <1>1. Init => MergedSoFar
    BY DEF Init, MergedSoFar
  <1>2. MergeInv /\ MergedSoFar /\ OwnAnswersInOrder => MergesWhoAnswered
    <2> SUFFICES ASSUME MergeInv, MergedSoFar, OwnAnswersInOrder, Done, lite => threshold = 0
                 PROVE  {merged[n].child : n \in 1 .. Len(merged)} = {c \in ChildIds : Acceptable(c)}
      BY DEF MergesWhoAnswered, OwnAnswersInOrder
    <2>1. ASSUME NEW n \in 1 .. Len(merged)
          PROVE  merged[n].child \in ChildIds /\ Acceptable(merged[n].child)
      BY DEF MergedSoFar, OwnAnswersInOrder, Acceptable
    <2>2. ASSUME NEW c \in ChildIds, Acceptable(c)
          PROVE  \E n \in 1 .. Len(merged) : merged[n].child = c
      <3>1. PICK k \in 1 .. Len(Children) : c = Children[k]
        BY DEF ChildIds
      <3>2. k \in 1 .. next - 1
        BY NodesAssumption DEF Done, MergeInv, TypeOK
      <3>. QED BY <2>2, <3>1, <3>2 DEF MergedSoFar
    <2>. QED BY <2>1, <2>2
  <1>. QED BY <1>1, <1>2, MergeInvariant, SoFarKept, OrderCorrect, PTL DEF Spec
=============================================================================
