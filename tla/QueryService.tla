----------------------------- MODULE QueryService -----------------------------
(***************************************************************************)
(* What the entry node promises a client, whatever goes on inside: a query  *)
(* is answered with A's own rows followed by the rows merged from the       *)
(* children that answered, in pieces of bounded length, in order, without a *)
(* gap or a repetition; nothing of the children is handed out before the    *)
(* last of them has answered or failed; "done" is said only of the whole    *)
(* answer, with its count; and whoever is done, failed or gone stays so.    *)
(***************************************************************************)
EXTENDS Integers, Sequences

CONSTANTS
    Submissions, Children,
    Query,         \* as in EntryNode
    MaxChunk       \* no piece has more rows

VARIABLES
    phase,         \* of each submission, as its client sees it
    answering,     \* the children that answered so far
    settled,       \* every child has answered or failed
    delivered,     \* the rows handed over
    told           \* the count told at the end

vars == <<phase, answering, settled, delivered, told>>

Whole(s) == Query[s].local \o Query[s].merged[answering[s]]

Count(s) ==
    IF Query[s].aggregate
    THEN Query[s].local_count + Query[s].merged_count[answering[s]]
    ELSE Len(Whole(s))

\* The rows that may be handed out now.
Known(s) == IF settled[s] THEN Whole(s) ELSE Query[s].local

Init ==
    /\ phase = [s \in Submissions |-> "new"]
    /\ answering = [s \in Submissions |-> {}]
    /\ settled = [s \in Submissions |-> Children = {}]
    /\ delivered = [s \in Submissions |-> <<>>]
    /\ told = [s \in Submissions |-> 0]

Open(s) ==
    /\ phase[s] = "new"
    /\ phase' = [phase EXCEPT ![s] = "open"]
    /\ UNCHANGED <<answering, settled, delivered, told>>

\* A child answers or fails; after the last one the answer is settled.
Answer(s) ==
    /\ ~ settled[s]
    /\ \E ok \in SUBSET Children :
          /\ answering[s] \subseteq ok
          /\ answering' = [answering EXCEPT ![s] = ok]
    /\ \E last \in BOOLEAN : settled' = [settled EXCEPT ![s] = last]
    /\ UNCHANGED <<phase, delivered, told>>

\* A piece that continues what was delivered.
Piece(s) ==
    /\ phase[s] = "open"
    /\ \E n \in Len(delivered[s]) .. Len(delivered[s]) + MaxChunk :
          /\ n <= Len(Known(s))
          /\ delivered' = [delivered EXCEPT ![s] = SubSeq(Known(s), 1, n)]
    /\ UNCHANGED <<answering, settled>>

Deliver(s) == Piece(s) /\ UNCHANGED <<phase, told>>

Finish(s) ==
    /\ settled[s]
    /\ Piece(s)
    /\ delivered'[s] = Whole(s)
    /\ told' = [told EXCEPT ![s] = Count(s)]
    /\ phase' = [phase EXCEPT ![s] = "done"]

\* Never reached, refused, cancelled, evicted or cut off; or the client left.
Break(s) ==
    /\ phase[s] \in {"new", "open"}
    /\ \E end \in {"failed", "gone"} : phase' = [phase EXCEPT ![s] = end]
    /\ UNCHANGED <<answering, settled, delivered, told>>

Next == \E s \in Submissions :
            Open(s) \/ Answer(s) \/ Deliver(s) \/ Finish(s) \/ Break(s)

Spec == Init /\ [][Next]_vars
=============================================================================
