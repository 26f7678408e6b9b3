------------------------------ MODULE NodeMetrics ------------------------------
(***************************************************************************)
(* The two figures that the handlers of the C++ node keep about their own   *)
(* work (cpp/server/node_server.cpp): the size of the next answer's chunks, *)
(* which follows how long a call took (tune_after_chunk_served), and the     *)
(* completions of the last seconds (record_completion), which the management *)
(* service reports (get_status_snapshot).                                   *)
(*                                                                          *)
(* The size is an atomic that a handler loads and stores in two steps; the  *)
(* time of a completion is taken before the lock its list is kept under.    *)
(***************************************************************************)
EXTENDS Integers, Sequences, FiniteSets

CONSTANTS
    Handlers,           \* the threads that serve calls
    Configured,         \* the values of "chunk_size" in the topology
    MinSize, MaxSize,   \* 50 and 2000
    WindowSeconds,      \* 30
    MaxTime,            \* bound: the clock
    MaxServed           \* bound: the calls that are timed

Verdicts == {"fast", "slow", "ordinary"}    \* below 10 ms, above 100 ms, between

ASSUME SizesAssumption == MinSize \in Nat /\ MaxSize \in Nat /\ MinSize <= MaxSize
ASSUME ConfiguredAssumption == Configured \subseteq Int
ASSUME WindowAssumption == WindowSeconds \in Nat
ASSUME BoundsAssumption == MaxTime \in Nat /\ MaxServed \in Nat

VARIABLES
    clock,          \* steady_clock, in seconds
    phase,          \* of a handler: "idle", "finished", "recorded", "loaded"
    taken,          \* record_completion's now
    loaded,         \* tune_after_chunk_served's cur, and the verdict on its call
    chunkSize,      \* dynamic_chunk_size_
    window,         \* completed_requests_window_
    served,         \* how many calls were timed
    first,          \* history: the size at the start
    given,          \* history: the verdicts so far
    completions     \* history: how many completions of each second were recorded

metricsVars == <<clock, phase, taken, loaded, chunkSize, window, served,
                 first, given, completions>>

Clamped(n) == IF n < MinSize THEN MinSize ELSE IF n > MaxSize THEN MaxSize ELSE n

\* load_runtime: a size below 1 becomes 500; the constructor clamps it.
FirstSize(n) == Clamped(IF n < 1 THEN 500 ELSE n)

MetricsInit ==
    /\ clock = 0
    /\ phase = [h \in Handlers |-> "idle"]
    /\ taken = [h \in Handlers |-> 0]
    /\ loaded = [h \in Handlers |-> [size |-> MinSize, verdict |-> "ordinary"]]
    /\ first \in {FirstSize(n) : n \in Configured}
    /\ chunkSize = first
    /\ window = <<>> /\ completions = [time \in 0 .. MaxTime |-> 0]
    /\ served = 0
    /\ given = {}

Pass ==
    /\ clock < MaxTime
    /\ clock' = clock + 1
    /\ UNCHANGED <<phase, taken, loaded, chunkSize, window, served, first, given, completions>>

\* The first line of record_completion, before it waits for state_mutex_.
Finish(h) ==
    /\ phase[h] = "idle" /\ served < MaxServed
    /\ phase' = [phase EXCEPT ![h] = "finished"]
    /\ taken' = [taken EXCEPT ![h] = clock]
    /\ served' = served + 1
    /\ UNCHANGED <<clock, loaded, chunkSize, window, first, given, completions>>

\* Mutant: the times are dropped by the window's last second.
Outdated_Early(now, time) == now - time >= WindowSeconds

Outdated(now, time) == now - time > WindowSeconds

\* The outdated times at the front are dropped, and the new one goes to the back.
RecordCompletion(h) ==
    LET kept == {i \in DOMAIN window :
                    \E j \in 1 .. i : ~ Outdated(taken[h], window[j])}
    IN  /\ phase[h] = "finished"
        /\ phase' = [phase EXCEPT ![h] = "recorded"]
        /\ window' = Append(SubSeq(window, Len(window) - Cardinality(kept) + 1, Len(window)), taken[h])
        /\ completions' = [completions EXCEPT ![taken[h]] = @ + 1]
        /\ UNCHANGED <<clock, taken, loaded, chunkSize, served, first, given>>

\* A submission is timed once its completion is recorded, the fetch of a chunk at once.
Load(h) ==
    /\ \/ phase[h] = "recorded" /\ UNCHANGED served
       \/ phase[h] = "idle" /\ served < MaxServed /\ served' = served + 1
    /\ \E v \in Verdicts :
           /\ loaded' = [loaded EXCEPT ![h] = [size |-> chunkSize, verdict |-> v]]
           /\ given' = given \cup {v}
    /\ phase' = [phase EXCEPT ![h] = "loaded"]
    /\ UNCHANGED <<clock, taken, chunkSize, window, first, completions>>

\* Mutant: a slow call makes the chunks larger.
NextSize_Swapped(l) ==
    Clamped(CASE l.verdict = "slow" -> (l.size * 12 + 5) \div 10
              [] l.verdict = "fast" -> (l.size * 8 + 5) \div 10
              [] OTHER -> l.size)

\* Mutant: the new size is not kept within its limits.
NextSize_Unclamped(l) ==
    CASE l.verdict = "fast" -> (l.size * 12 + 5) \div 10
      [] l.verdict = "slow" -> (l.size * 8 + 5) \div 10
      [] OTHER -> l.size

\* A fifth more or less, rounded.
NextSize(l) ==
    Clamped(CASE l.verdict = "fast" -> (l.size * 12 + 5) \div 10
              [] l.verdict = "slow" -> (l.size * 8 + 5) \div 10
              [] OTHER -> l.size)

Store(h) ==
    /\ phase[h] = "loaded"
    /\ phase' = [phase EXCEPT ![h] = "idle"]
    /\ chunkSize' = IF NextSize(loaded[h]) # loaded[h].size THEN NextSize(loaded[h]) ELSE chunkSize
    /\ UNCHANGED <<clock, taken, loaded, window, served, first, given, completions>>

MetricsNext ==
    \/ Pass
    \/ \E h \in Handlers : Finish(h) \/ RecordCompletion(h) \/ Load(h) \/ Store(h)

\* get_status_snapshot, under the lock: the entries it counts, those not outdated.
Recent == {i \in DOMAIN window : window[i] >= clock - WindowSeconds}

MetricsSpec == MetricsInit /\ [][MetricsNext]_metricsVars

-----------------------------------------------------------------------------

MetricsTypeOK ==
    /\ clock \in 0 .. MaxTime /\ served \in 0 .. MaxServed
    /\ phase \in [Handlers -> {"idle", "finished", "recorded", "loaded"}]
    /\ taken \in [Handlers -> Nat]
    /\ loaded \in [Handlers -> [size : MinSize .. MaxSize, verdict : Verdicts]]
    /\ first \in MinSize .. MaxSize /\ chunkSize \in MinSize .. MaxSize
    /\ given \subseteq Verdicts

\* Handlers that overtake each other between the load and the store lose steps but
\* never invent one: the chunks are smaller than at the start only after a slow call,
\* larger only after a fast one.
SizeFollowsVerdicts ==
    /\ chunkSize < first => "slow" \in given
    /\ chunkSize > first => "fast" \in given

\* What get_status_snapshot counts is, at any time and second by second, the completions
\* that are recorded and not older than the window, although the times enter the list out
\* of order and it is pruned at its front only.
SnapshotExact ==
    /\ \A i \in Recent : window[i] \in 0 .. clock
    /\ \A time \in 0 .. clock :
           Cardinality({i \in Recent : window[i] = time}) =
               IF clock - time <= WindowSeconds THEN completions[time] ELSE 0
===============================================================================
