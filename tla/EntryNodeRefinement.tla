-------------------------- MODULE EntryNodeRefinement --------------------------
(***************************************************************************)
(* EntryNode implements QueryService, for clients that do not reuse ids.    *)
(***************************************************************************)
EXTENDS EntryNode

Phase ==
    [s \in Submissions |->
        CASE client[s] = "start" -> "new"
          [] client[s] \in {"submitting", "fetching"} -> "open"
          [] OTHER -> client[s]]

Answering == [s \in Submissions |-> OkChildren(s)]
Settled == [s \in Submissions |-> Answered(s)]

\* A count is told for good only with the last chunk.
Told == [s \in Submissions |-> IF client[s] = "done" THEN reported[s] ELSE 0]

\* The largest value dynamic_chunk_size_ may be tuned to.
LargestChunk == CHOOSE n \in ChunkSizes : \A m \in ChunkSizes : m <= n

Service == INSTANCE QueryService WITH
    MaxChunk <- LargestChunk, phase <- Phase, answering <- Answering,
    settled <- Settled, delivered <- received, told <- Told

\* Every step of the handlers, collectors, eviction, cancellations and clients is
\* a step of the service or leaves what the client sees alone.
ImplementsQueryService == Service!Spec
=============================================================================
