----------------------------- MODULE MCEntryNode -----------------------------
(***************************************************************************)
(* Small instances of EntryNode: what the clients ask and the nodes hold.  *)
(***************************************************************************)
EXTENDS EntryNodeRefinement
LOCAL INSTANCE SequencesExt
LOCAL INSTANCE TLC

\* Two children, asked and merged in this order.
ChildOrder == <<"B", "G">>
TwoChildren == {"B", "G"}
OneChild == {"B"}

\* Rows are numbered so that no two queries and no two nodes share one.
Rows == 1 .. 9

Merge(rows) ==
    [ok \in SUBSET Children |-> FlattenSeq(
        [i \in 1 .. Len(ChildOrder) |->
            IF ChildOrder[i] \in ok THEN rows[ChildOrder[i]] ELSE <<>>])]

RowQuery(rid, local, b, g) ==
    LET merged == Merge("B" :> b @@ "G" :> g)
    IN  [ rid |-> rid, supported |-> TRUE, aggregate |-> FALSE, local |-> local,
          local_count |-> Len(local), merged |-> merged,
          merged_count |-> [ok \in SUBSET Children |-> Len(merged[ok])] ]

\* A counts two rows, each child one.
AggregateQuery(rid) ==
    [ rid |-> rid, supported |-> TRUE, aggregate |-> TRUE, local |-> <<>>,
      local_count |-> 2, merged |-> [ok \in SUBSET Children |-> <<>>],
      merged_count |-> [ok \in SUBSET Children |-> Cardinality(ok)] ]

UnknownQuery(rid) ==
    [AggregateQuery(rid) EXCEPT !.supported = FALSE, !.local_count = 0,
        !.merged_count = [ok \in SUBSET Children |-> 0]]

S2 == {"s1", "s2"}
S3 == {"s1", "s2", "s3"}
R1 == {"q1"}
R2 == {"q1", "q2"}

\* Rows on either side of the first chunk, from A, from one child and from both:
\* one to three chunks, and answers that fit in the first one.
TwoShortQueries ==
    "s1" :> RowQuery("q1", <<1, 2>>, <<3>>, <<>>) @@
    "s2" :> RowQuery("q2", <<>>, <<4>>, <<5>>)

\* The same with one child: two chunks each, one when the child fails.
TwoTails ==
    "s1" :> RowQuery("q1", <<1>>, <<2>>, <<>>) @@
    "s2" :> RowQuery("q2", <<3>>, <<4>>, <<>>)

\* Two submissions under one request id, as --request-id allows, and a third that
\* is not understood.
OneRid ==
    "s1" :> RowQuery("q1", <<1, 2>>, <<3>>, <<>>) @@
    "s2" :> RowQuery("q1", <<>>, <<4>>, <<5>>) @@
    "s3" :> UnknownQuery("q1")

\* A query whose rows all fit in the first chunk, and a longer one.
EmptyTail ==
    "s1" :> AggregateQuery("q1") @@ "s2" :> RowQuery("q2", <<6>>, <<>>, <<>>)
=============================================================================
