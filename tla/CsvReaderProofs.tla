---------------------------- MODULE CsvReaderProofs ----------------------------
(***************************************************************************)
(* Theorems about CsvChunks, for every number of threads, every file and    *)
(* every way of cutting it, and about RowReader, for all fields and rows.   *)
(***************************************************************************)
EXTENDS CsvChunks, RowReader, WellFoundedInduction, SequenceTheorems, TLAPS

-----------------------------------------------------------------------------
(* Numbers: a set of them has a least one, and counting down to 1.          *)

LEMMA LeastNumber ==
    ASSUME NEW S, S \subseteq Nat, S # {}
    PROVE  \E least \in S : \A n \in S : least <= n
<1> DEFINE R == OpToRel(<, Nat)
<1>1. IsWellFoundedOn(R, Nat)
  BY NatLessThanWellFounded, Zenon
<1>2. PICK least \in S : \A n \in S : <<n, least>> \notin R
  BY <1>1, WFMin, Zenon
<1>3. \A n \in S : ~ (n < least)
  BY <1>2 DEF OpToRel
<1> QED
  BY <1>3

\* Counting down from last + 1.
LEMMA Downward ==
    ASSUME NEW last \in Nat, NEW S, last + 1 \in S, \A k \in 1 .. last : k + 1 \in S => k \in S
    PROVE  1 .. last + 1 \subseteq S
<1> DEFINE T == {j \in 0 .. last : last + 1 - j \notin S}
<1>1. T = {}
  <2> SUFFICES ASSUME T # {} PROVE FALSE
    OBVIOUS
  <2>1. PICK x \in T : \A y \in T : x <= y
    <3>1. T \subseteq Nat /\ T # {}
      OBVIOUS
    <3> HIDE DEF T
    <3> QED
      BY <3>1, LeastNumber, Zenon
  <2>2. x \in 1 .. last
    BY <2>1
  <2>3. PICK y \in 0 .. last : y = x - 1
    BY <2>2
  <2>4. y \notin T
    <3> HIDE DEF T
    <3> QED
      BY <2>1, <2>2, <2>3
  <2>5. last + 1 - y \in S
    BY <2>4
  <2>6. last + 1 - x \in 1 .. last /\ last + 1 - y = (last + 1 - x) + 1
    BY <2>2, <2>3
  <2> QED
    BY <2>1, <2>5, <2>6
<1>2. ASSUME NEW i \in 1 .. last + 1 PROVE i \in S
  <2>1. last + 1 - i \in 0 .. last /\ last + 1 - (last + 1 - i) = i
    OBVIOUS
  <2> QED
    BY <1>1, <2>1
<1> QED
  BY <1>2

-----------------------------------------------------------------------------
(* Chunks: the two searches of a line end at one.                           *)

LEMMA LineAfterIsFirst ==
    ASSUME file \in Files, NEW byte \in Nat
    PROVE  /\ LineAfter(byte) \in 2 .. LastLine + 1
           /\ LineAfter(byte) <= LastLine => file.start[LineAfter(byte)] > byte
           /\ \A i \in 1 .. LineAfter(byte) - 1 : file.start[i] <= byte
<1> DEFINE Behind == {i \in 1 .. LastLine + 1 : i <= LastLine => file.start[i] > byte}
<1>1. file.start \in Seq(Nat) /\ file.start # <<>> /\ file.start[1] = 0
  BY FilesAssumption DEF IsFile
<1>2. LastLine \in Nat \ {0}
  BY <1>1 DEF LastLine
<1>3. \A i \in 1 .. LastLine : file.start[i] \in Nat
  BY <1>1 DEF LastLine
<1>4. LastLine + 1 \in Behind /\ Behind \subseteq Nat
  BY <1>2
<1>5. PICK first \in Behind : \A i \in Behind : first <= i
  BY <1>4, LeastNumber, Zenon
<1>6. \A i \in 1 .. first - 1 : file.start[i] <= byte
  BY <1>2, <1>3, <1>5
<1>7. LineAfter(byte) \in 1 .. LastLine + 1
      /\ (LineAfter(byte) <= LastLine => file.start[LineAfter(byte)] > byte)
      /\ \A i \in 1 .. LineAfter(byte) - 1 : file.start[i] <= byte
  <2>1. \E i \in 1 .. LastLine + 1 :
           /\ i <= LastLine => file.start[i] > byte
           /\ \A j \in 1 .. i - 1 : file.start[j] <= byte
    BY <1>5, <1>6
  <2> QED
    BY <2>1 DEF LineAfter
<1>8. LineAfter(byte) # 1
  BY <1>1, <1>2, <1>7
<1> QED
  BY <1>2, <1>7, <1>8

LEMMA NextGoodIsFirst ==
    ASSUME file \in Files, NEW i \in 1 .. LastLine
    PROVE  /\ NextGood(i) \in i .. LastLine + 1
           /\ NextGood(i) <= LastLine => file.kind[NextGood(i)] = "good"
           /\ \A k \in i .. NextGood(i) - 1 : file.kind[k] # "good"
<1> DEFINE Good == {j \in i .. LastLine + 1 : j <= LastLine => file.kind[j] = "good"}
<1>1. LastLine \in Nat
  BY FilesAssumption DEF IsFile, LastLine
<1>2. LastLine + 1 \in Good /\ Good \subseteq Nat
  BY <1>1
<1>3. PICK first \in Good : \A j \in Good : first <= j
  BY <1>2, LeastNumber, Zenon
<1>4. \A k \in i .. first - 1 : file.kind[k] # "good"
  BY <1>1, <1>3
<1>5. \E j \in i .. LastLine + 1 :
         /\ j <= LastLine => file.kind[j] = "good"
         /\ \A k \in i .. j - 1 : file.kind[k] # "good"
  BY <1>3, <1>4
<1> QED
  BY <1>5 DEF NextGood

-----------------------------------------------------------------------------
(* The inductive invariant: what a thread and the reader have loaded is      *)
(* told by the file, the range and their positions alone.                   *)

\* The good lines that start behind the first byte of a thread's range and in it.
Wanted(w) ==
    {i \in DataLines :
        file.kind[i] = "good" /\ range.lo[w] < file.start[i] /\ file.start[i] <= range.hi[w]}

\* A thread has loaded those it wants of the lines before its position, and has
\* skipped every line that does not start behind the first byte of its range.
ThreadInv(w) ==
    /\ RecordsOf(w) = {i \in Wanted(w) : i < at[w]}
    /\ at[w] > 0 => \A i \in DataLines : i >= at[w] => range.lo[w] < file.start[i]
    /\ at[w] # 1

\* The sequential reader has loaded the good lines before its position.
ReaderInv == ReaderLoaded = {i \in DataLines : file.kind[i] = "good" /\ i < reader.at}

ChunkInv ==
    /\ file \in Files /\ range \in Ranges
    /\ CsvTypeOK
    /\ \A w \in Workers : ThreadInv(w)
    /\ ReaderInv

\* The lines of a file are numbered from 1, and start one behind the other.
LEMMA Lines ==
    ASSUME file \in Files
    PROVE  /\ LastLine \in Nat \ {0}
           /\ DataLines \subseteq Nat
           /\ \A i \in 1 .. LastLine : file.start[i] \in Nat
           /\ file.start[1] = 0
           /\ \A i \in DataLines : file.start[i] > 0
<1>1. IsFile(file)
  BY FilesAssumption
<1> QED
  BY <1>1 DEF IsFile, LastLine, DataLines

\* What appending a record adds to the records.
Members(s) == {s[i] : i \in DOMAIN s}

LEMMA AppendAdds ==
    ASSUME NEW S, NEW s \in Seq(S), NEW e
    PROVE  Members(Append(s, e)) = Members(s) \cup {e}
<1> DEFINE t == Append(s, e)
<1>1. DOMAIN s = 1 .. Len(s) /\ DOMAIN t = 1 .. Len(s) + 1 /\ Len(s) \in Nat
  OBVIOUS
<1>2. t[Len(s) + 1] = e /\ \A i \in 1 .. Len(s) : t[i] = s[i]
  OBVIOUS
<1>3. {t[i] : i \in DOMAIN t} \subseteq {s[i] : i \in DOMAIN s} \cup {e}
  BY <1>1, <1>2
<1>4. {s[i] : i \in DOMAIN s} \cup {e} \subseteq {t[i] : i \in DOMAIN t}
  BY <1>1, <1>2
<1> QED
  BY <1>3, <1>4 DEF Members

LEMMA InitChunks == CsvInit => ChunkInv
<1> SUFFICES ASSUME CsvInit PROVE ChunkInv
  OBVIOUS
<1>1. LastLine \in Nat \ {0}
  BY Lines DEF CsvInit
<1>2. CsvTypeOK
  BY <1>1 DEF CsvInit, CsvTypeOK
<1>3. ASSUME NEW w \in Workers PROVE ThreadInv(w)
  <2>1. at[w] = 0 /\ RecordsOf(w) = {}
    BY DEF CsvInit, RecordsOf
  <2>2. \A i \in Wanted(w) : ~ (i < 0)
    BY <1>1 DEF Wanted, DataLines
  <2> QED
    BY <2>1, <2>2 DEF ThreadInv
<1>4. ReaderInv
  BY <1>1 DEF CsvInit, ReaderInv, ReaderLoaded, DataLines
<1> QED
  BY <1>2, <1>3, <1>4 DEF ChunkInv, CsvInit

\* A step of one thread leaves the others and the reader alone.
LEMMA OthersKept ==
    ASSUME ChunkInv, NEW w \in Workers, UNCHANGED <<file, range, reader>>, CsvTypeOK', ThreadInv(w)',
           \A v \in Workers \ {w} : at'[v] = at[v] /\ records'[v] = records[v]
    PROVE  ChunkInv'
<1>1. LastLine' = LastLine /\ DataLines' = DataLines /\ ReaderInv'
  BY DEF ChunkInv, ReaderInv, ReaderLoaded, LastLine, DataLines
<1>2. ASSUME NEW v \in Workers \ {w} PROVE ThreadInv(v)'
  <2>1. ThreadInv(v)
    BY DEF ChunkInv
  <2>2. RecordsOf(v)' = RecordsOf(v) /\ Wanted(v)' = Wanted(v)
    BY <1>1 DEF RecordsOf, Wanted
  <2> QED
    BY <1>1, <2>1, <2>2 DEF ThreadInv
<1> QED
  BY <1>1, <1>2 DEF ChunkInv

LEMMA SeekKeeps ==
    ASSUME ChunkInv, NEW w \in Workers, Seek(w)
    PROVE  ChunkInv'
<1>1. /\ file \in Files /\ LastLine \in Nat \ {0} /\ LastLine' = LastLine /\ DataLines' = DataLines
      /\ \A i \in 1 .. LastLine : file.start[i] \in Nat
      /\ \A i \in DataLines : file.start[i] > 0
  BY Lines DEF ChunkInv, Seek, LastLine, DataLines
<1>2. range.lo[w] \in Nat
  BY RangesAssumption DEF ChunkInv
<1>3. /\ at'[w] \in 2 .. LastLine + 1
      /\ \A i \in DataLines : i >= at'[w] => range.lo[w] < file.start[i]
      /\ \A i \in DataLines : i < at'[w] => file.start[i] <= range.lo[w]
  <2>1. CASE range.lo[w] = 0
    BY <1>1, <2>1 DEF Seek, ChunkInv, CsvTypeOK, DataLines
  <2>2. CASE range.lo[w] > 0
    <3>1. at'[w] = LineAfter(range.lo[w])
      BY <2>2 DEF Seek, ChunkInv, CsvTypeOK
    <3>2. \A i, j \in 1 .. LastLine : i < j => file.start[i] < file.start[j]
      BY <1>1, FilesAssumption DEF IsFile, LastLine
    <3>3. /\ LineAfter(range.lo[w]) \in 2 .. LastLine + 1
          /\ LineAfter(range.lo[w]) <= LastLine => file.start[LineAfter(range.lo[w])] > range.lo[w]
          /\ \A i \in 1 .. LineAfter(range.lo[w]) - 1 : file.start[i] <= range.lo[w]
      BY <1>1, <1>2, LineAfterIsFirst
    <3>4. /\ at'[w] \in 2 .. LastLine + 1
          /\ at'[w] <= LastLine => file.start[at'[w]] > range.lo[w]
          /\ \A i \in 1 .. at'[w] - 1 : file.start[i] <= range.lo[w]
      BY <3>1, <3>3, Zenon
    <3>5. ASSUME NEW i \in DataLines, i >= at'[w] PROVE range.lo[w] < file.start[i]
      BY <1>1, <1>2, <3>2, <3>4, <3>5 DEF DataLines
    <3> QED
      BY <1>1, <3>4, <3>5 DEF DataLines
  <2> QED
    BY <1>2, <2>1, <2>2
<1>4. CsvTypeOK'
  BY <1>1, <1>3 DEF Seek, ChunkInv, CsvTypeOK
<1>5. ThreadInv(w)'
  <2>1. RecordsOf(w)' = {}
    <3>1. RecordsOf(w) = {}
      BY <1>1 DEF ChunkInv, ThreadInv, Wanted, Seek, DataLines
    <3> QED
      BY <3>1 DEF RecordsOf, Seek
  <2>2. \A i \in Wanted(w)' : ~ (i < at'[w])
    BY <1>1, <1>2, <1>3 DEF Wanted, Seek, DataLines
  <2> QED
    BY <1>1, <1>3, <2>1, <2>2 DEF ThreadInv, Seek
<1> QED
  BY <1>4, <1>5, OthersKept DEF Seek, ChunkInv, CsvTypeOK

LEMMA ReadLineKeeps ==
    ASSUME ChunkInv, NEW w \in Workers, ReadLine(w)
    PROVE  ChunkInv'
<1>1. /\ file \in Files /\ LastLine \in Nat \ {0} /\ LastLine' = LastLine /\ DataLines' = DataLines
      /\ \A i \in 1 .. LastLine : file.start[i] \in Nat
  BY Lines DEF ChunkInv, ReadLine, LastLine, DataLines
<1>2. at[w] \in 2 .. LastLine /\ at'[w] = at[w] + 1 /\ at[w] \in DataLines
  BY <1>1 DEF ReadLine, InRange, ChunkInv, CsvTypeOK, ThreadInv, DataLines
<1>3. records[w] \in Seq(DataLines)
  BY DEF ChunkInv, CsvTypeOK
<1>4. CsvTypeOK'
  <2>1. at' \in [Workers -> 0 .. LastLine + 1]
    BY <1>1, <1>2 DEF ReadLine, ChunkInv, CsvTypeOK
  <2>2. records' \in [Workers -> Seq(DataLines)]
    <3>1. Append(records[w], at[w]) \in Seq(DataLines)
      BY <1>2, <1>3
    <3> QED
      BY <3>1 DEF ReadLine, ChunkInv, CsvTypeOK
  <2>3. discarded' \in [Workers -> Nat]
    <3>1. discarded \in [Workers -> Nat]
      BY DEF ChunkInv, CsvTypeOK
    <3>2. CASE discarded' = [discarded EXCEPT ![w] = @ + 1]
      BY <3>1, <3>2
    <3>3. CASE discarded' = discarded
      BY <3>1, <3>3
    <3> QED
      BY <3>2, <3>3, Zenon DEF ReadLine
  <2> QED
    BY <1>1, <2>1, <2>2, <2>3 DEF ReadLine, ChunkInv, CsvTypeOK
<1>5. RecordsOf(w)' = IF file.kind[at[w]] = "good" THEN RecordsOf(w) \cup {at[w]} ELSE RecordsOf(w)
  <2>1. CASE file.kind[at[w]] = "good"
    <3>1. records'[w] = Append(records[w], at[w])
      BY <2>1 DEF ReadLine, ChunkInv, CsvTypeOK
    <3>2. Members(Append(records[w], at[w])) = Members(records[w]) \cup {at[w]}
      BY <1>3, AppendAdds, Zenon
    <3> QED
      BY <2>1, <3>1, <3>2, Zenon DEF RecordsOf, Members
  <2>2. CASE file.kind[at[w]] # "good"
    BY <2>2 DEF ReadLine, RecordsOf
  <2> QED
    BY <2>1, <2>2
<1>6. at[w] \in Wanted(w) <=> file.kind[at[w]] = "good"
  BY <1>1, <1>2 DEF Wanted, ReadLine, InRange, ChunkInv, ThreadInv
<1>7. Wanted(w)' = Wanted(w)
  BY <1>1 DEF Wanted, ReadLine
<1>8. RecordsOf(w)' = {i \in Wanted(w) : i < at[w] + 1}
  <2>1. RecordsOf(w) = {i \in Wanted(w) : i < at[w]}
    BY DEF ChunkInv, ThreadInv
  <2>2. \A i \in Wanted(w) : i < at[w] + 1 <=> i < at[w] \/ i = at[w]
    BY <1>1, <1>2 DEF Wanted, DataLines
  <2> QED
    BY <1>5, <1>6, <2>1, <2>2
<1>9. ThreadInv(w)'
  BY <1>1, <1>2, <1>7, <1>8 DEF ThreadInv, ChunkInv, ReadLine, DataLines
<1> QED
  BY <1>4, <1>9, OthersKept DEF ReadLine, ChunkInv, CsvTypeOK

LEMMA ReadNextKeeps ==
    ASSUME ChunkInv, ReadNext
    PROVE  ChunkInv'
<1> DEFINE found == NextGood(reader.at)
<1>1. /\ file \in Files /\ LastLine \in Nat \ {0} /\ LastLine' = LastLine /\ DataLines' = DataLines
  BY Lines DEF ChunkInv, ReadNext, LastLine, DataLines
<1>2. reader.at \in 2 .. LastLine
  BY <1>1 DEF ChunkInv, CsvTypeOK, ReadNext
<1>3. /\ found \in reader.at .. LastLine + 1
      /\ found <= LastLine => file.kind[found] = "good"
      /\ \A k \in reader.at .. found - 1 : file.kind[k] # "good"
  BY <1>1, <1>2, NextGoodIsFirst
<1> HIDE DEF found
<1>4. /\ reader'.at = found + 1
      /\ reader'.records = IF found <= LastLine THEN Append(reader.records, found) ELSE reader.records
      /\ reader'.discarded = reader.discarded + (found - reader.at)
  BY DEF ReadNext, found
<1>5. CsvTypeOK'
  <2>1. reader.records \in Seq(DataLines) /\ reader.discarded \in Nat
    BY DEF ChunkInv, CsvTypeOK
  <2>2. found <= LastLine => found \in DataLines
    BY <1>1, <1>2, <1>3 DEF DataLines
  <2>3. reader'.records \in Seq(DataLines)
    BY <1>4, <2>1, <2>2
  <2>4. reader'.at \in 2 .. LastLine + 2 /\ reader'.discarded \in Nat
    BY <1>1, <1>2, <1>3, <1>4, <2>1
  <2> QED
    BY <1>1, <2>3, <2>4 DEF ReadNext, ChunkInv, CsvTypeOK
<1>6. ReaderLoaded' = IF found <= LastLine THEN ReaderLoaded \cup {found} ELSE ReaderLoaded
  <2>1. reader.records \in Seq(DataLines)
    BY DEF ChunkInv, CsvTypeOK
  <2>2. Members(Append(reader.records, found)) = Members(reader.records) \cup {found}
    BY <2>1, AppendAdds, Zenon
  <2>3. CASE found <= LastLine
    <3>1. reader'.records = Append(reader.records, found)
      BY <1>4, <2>3
    <3> QED
      BY <2>2, <2>3, <3>1, Zenon DEF ReaderLoaded, Members
  <2>4. CASE ~ (found <= LastLine)
    BY <1>4, <2>4 DEF ReaderLoaded
  <2> QED
    BY <2>3, <2>4
<1>7. ReaderInv'
  <2>1. ReaderLoaded = {i \in DataLines : file.kind[i] = "good" /\ i < reader.at}
    BY DEF ChunkInv, ReaderInv
  <2>2. \A i \in DataLines :
           file.kind[i] = "good" /\ i < found + 1
           <=> (file.kind[i] = "good" /\ i < reader.at) \/ (i = found /\ found <= LastLine)
    BY <1>1, <1>2, <1>3 DEF DataLines
  <2>3. found <= LastLine => found \in DataLines
    BY <1>1, <1>2, <1>3 DEF DataLines
  <2> QED
    BY <1>1, <1>4, <1>6, <2>1, <2>2, <2>3 DEF ReaderInv, ReadNext
<1>8. ASSUME NEW w \in Workers PROVE ThreadInv(w)'
  BY <1>1 DEF ChunkInv, ThreadInv, ReadNext, RecordsOf, Wanted
<1> QED
  BY <1>5, <1>7, <1>8 DEF ChunkInv, ReadNext

LEMMA StepKeepsChunks == ChunkInv /\ [CsvNext]_csvVars => ChunkInv'
<1> SUFFICES ASSUME ChunkInv, [CsvNext]_csvVars PROVE ChunkInv'
  OBVIOUS
<1>1. CASE ReadNext
  BY <1>1, ReadNextKeeps
<1>2. ASSUME NEW w \in Workers, Seek(w) PROVE ChunkInv'
  BY <1>2, SeekKeeps
<1>3. ASSUME NEW w \in Workers, ReadLine(w) PROVE ChunkInv'
  BY <1>3, ReadLineKeeps
<1>4. CASE UNCHANGED csvVars
  <2>1. LastLine' = LastLine /\ DataLines' = DataLines /\ ReaderLoaded' = ReaderLoaded
    BY <1>4 DEF csvVars, LastLine, DataLines, ReaderLoaded
  <2>2. \A w \in Workers : RecordsOf(w)' = RecordsOf(w) /\ Wanted(w)' = Wanted(w)
    BY <1>4, <2>1 DEF csvVars, RecordsOf, Wanted
  <2>3. CsvTypeOK'
    BY <1>4, <2>1 DEF csvVars, ChunkInv, CsvTypeOK
  <2>4. \A w \in Workers : ThreadInv(w)'
    BY <1>4, <2>1, <2>2 DEF csvVars, ChunkInv, ThreadInv
  <2>5. ReaderInv'
    BY <1>4, <2>1 DEF csvVars, ChunkInv, ReaderInv
  <2> QED
    BY <1>4, <2>3, <2>4, <2>5 DEF csvVars, ChunkInv
<1> QED
  BY <1>1, <1>2, <1>3, <1>4 DEF CsvNext

\* The invariant that the theorems of this module rest on.
THEOREM ChunksInvariant == CsvSpec => []ChunkInv
  BY InitChunks, StepKeepsChunks, PTL DEF CsvSpec

-----------------------------------------------------------------------------
(* The theorems.                                                            *)

\* Every line is loaded by at most one thread (CsvReader::load_chunk), whatever the
\* file, the number of threads and the bytes at which the ranges meet.
THEOREM EachLineOnce == CsvSpec => []NoLineTwice
<1>1. ChunkInv => NoLineTwice
  <2> SUFFICES ASSUME ChunkInv, Apart, NEW v \in Workers, NEW w \in Workers, v < w
               PROVE  RecordsOf(v) \cap RecordsOf(w) = {}
    BY WorkersAssumption DEF NoLineTwice
  <2>1. /\ RecordsOf(v) \subseteq Wanted(v) /\ RecordsOf(w) \subseteq Wanted(w)
        /\ range.hi[v] <= range.lo[w]
    BY DEF ChunkInv, ThreadInv, Apart
  <2>2. range.hi[v] \in Nat /\ range.lo[w] \in Nat
    BY RangesAssumption DEF ChunkInv
  <2>3. \A i \in DataLines : file.start[i] \in Nat
    BY Lines DEF ChunkInv, DataLines
  <2> QED
    BY <2>1, <2>2, <2>3 DEF Wanted
<1> QED
  BY <1>1, ChunksInvariant, PTL

\* Once all threads have stopped, they have loaded the good lines that start behind
\* the first byte of a range and in it, and the reader all good lines.
LEMMA WhatIsLoaded ==
    ASSUME ChunkInv, Finished
    PROVE  /\ LoadedLines = UNION {Wanted(w) : w \in Workers}
           /\ ReaderLoaded = {i \in DataLines : file.kind[i] = "good"}
<1>1. LastLine \in Nat \ {0} /\ \A i \in 1 .. LastLine : file.start[i] \in Nat
  BY Lines DEF ChunkInv
<1>2. ASSUME NEW w \in Workers PROVE RecordsOf(w) = Wanted(w)
  <2>1. /\ RecordsOf(w) = {i \in Wanted(w) : i < at[w]} /\ at[w] \in 2 .. LastLine + 1
        /\ at[w] <= LastLine => ~ (file.start[at[w]] <= range.hi[w])
    BY <1>1 DEF ChunkInv, ThreadInv, CsvTypeOK, Finished, Stopped, InRange
  <2>2. range.hi[w] \in Nat
    BY RangesAssumption DEF ChunkInv
  <2>3. \A i, j \in 1 .. LastLine : i < j => file.start[i] < file.start[j]
    BY FilesAssumption DEF ChunkInv, IsFile, LastLine
  <2>4. \A i \in Wanted(w) : i < at[w]
    BY <1>1, <2>1, <2>2, <2>3 DEF Wanted, DataLines
  <2> QED
    BY <2>1, <2>4
<1>3. LoadedLines = UNION {Wanted(w) : w \in Workers}
  BY <1>2 DEF LoadedLines
<1>4. \A i \in DataLines : i < reader.at
  BY <1>1 DEF Finished, DataLines, ChunkInv, CsvTypeOK
<1> QED
  BY <1>3, <1>4 DEF ChunkInv, ReaderInv

\* The threads of ranges that meet load together what read_next loads alone.
THEOREM ChunksMakeTheFile == CsvSpec => []SameAsSequential
<1>1. ChunkInv => SameAsSequential
  BY WhatIsLoaded DEF SameAsSequential, Meeting, Wanted
<1> QED
  BY <1>1, ChunksInvariant, PTL

-----------------------------------------------------------------------------
(* A line: what a writer makes of pieces, one behind the other.             *)

\* What follows from the k-th of the pieces on, for each k from one on.
IsRemainder(f, pieces, end, from) ==
    /\ f \in [from .. Len(pieces) + 1 -> Seq(Characters)]
    /\ f[Len(pieces) + 1] = end
    /\ \A i \in from .. Len(pieces) : f[i] = pieces[i] \o f[i + 1]

LEMMA RemainderFurther ==
    ASSUME NEW pieces \in Seq(Seq(Characters)), NEW end, NEW k \in 1 .. Len(pieces),
           NEW f, IsRemainder(f, pieces, end, k + 1)
    PROVE  \E g : IsRemainder(g, pieces, end, k)
<1>1. PICK last \in Nat : last = Len(pieces)
  OBVIOUS
<1>2. k \in 1 .. last /\ pieces[k] \in Seq(Characters)
  BY <1>1
<1>3. /\ f \in [k + 1 .. last + 1 -> Seq(Characters)] /\ f[last + 1] = end
      /\ \A i \in k + 1 .. last : f[i] = pieces[i] \o f[i + 1]
  BY <1>1 DEF IsRemainder
<1>4. PICK whole : whole = pieces[k] \o f[k + 1]
  OBVIOUS
<1>5. whole \in Seq(Characters)
  <2>1. f[k + 1] \in Seq(Characters)
    BY <1>2, <1>3
  <2> QED
    BY <1>2, <1>4, <2>1, ConcatProperties
<1> DEFINE g == [i \in k .. last + 1 |-> IF i = k THEN whole ELSE f[i]]
<1>6. \A i \in k + 1 .. last + 1 : i \in k .. last + 1 /\ g[i] = f[i]
  BY <1>2
<1>7. g \in [k .. last + 1 -> Seq(Characters)]
  <2>1. \A i \in k .. last + 1 : i # k => i \in k + 1 .. last + 1
    BY <1>2
  <2> QED
    BY <1>3, <1>5, <2>1
<1>8. g[last + 1] = end /\ g[k] = whole
  BY <1>2, <1>3, <1>6
<1> HIDE DEF g
<1>9. ASSUME NEW i \in k .. last PROVE g[i] = pieces[i] \o g[i + 1]
  <2>1. i + 1 \in k + 1 .. last + 1 /\ g[i + 1] = f[i + 1]
    BY <1>2, <1>6
  <2>2. CASE i = k
    BY <1>4, <1>8, <2>1, <2>2
  <2>3. CASE i # k
    <3>1. i \in k + 1 .. last /\ g[i] = f[i]
      BY <1>2, <1>6, <2>3
    <3> QED
      BY <1>3, <2>1, <3>1
  <2> QED
    BY <2>2, <2>3
<1> QED
  BY <1>1, <1>7, <1>8, <1>9 DEF IsRemainder

LEMMA RemainderExists ==
    ASSUME NEW pieces \in Seq(Seq(Characters)), NEW end \in Seq(Characters)
    PROVE  \E f : IsRemainder(f, pieces, end, 1)
<1>1. PICK last \in Nat : last = Len(pieces)
  OBVIOUS
<1> DEFINE Fits(k) == \E f : IsRemainder(f, pieces, end, k)
           S == {k \in 1 .. last + 1 : Fits(k)}
<1>2. Fits(last + 1)
  <2> DEFINE f == [i \in last + 1 .. last + 1 |-> end]
  <2>1. f \in [last + 1 .. last + 1 -> Seq(Characters)] /\ f[last + 1] = end
    OBVIOUS
  <2>2. \A i \in last + 1 .. last : FALSE
    OBVIOUS
  <2> HIDE DEF f
  <2>3. IsRemainder(f, pieces, end, last + 1)
    BY <1>1, <2>1, <2>2 DEF IsRemainder
  <2> QED
    BY <2>3
<1>3. \A k \in 1 .. last : Fits(k + 1) => Fits(k)
  BY <1>1, RemainderFurther
<1> HIDE DEF Fits
<1>4. last + 1 \in S /\ \A k \in 1 .. last : k + 1 \in S => k \in S
  BY <1>2, <1>3
<1>5. 1 .. last + 1 \subseteq S
  <2> HIDE DEF S
  <2> QED
    BY <1>4, Downward
<1>6. Fits(1)
  BY <1>5
<1> QED
  BY <1>6 DEF Fits

LEMMA RemainderIs ==
    ASSUME NEW pieces \in Seq(Seq(Characters)), NEW end \in Seq(Characters)
    PROVE  LET r == Remainder(pieces, end)
           IN  /\ r[Len(pieces) + 1] = end
               /\ \A i \in 1 .. Len(pieces) : r[i] = pieces[i] \o r[i + 1]
               /\ \A i \in 1 .. Len(pieces) + 1 : r[i] \in Seq(Characters)
<1> DEFINE Step(f) ==
               [i \in 1 .. Len(pieces) + 1 |->
                   IF i = Len(pieces) + 1 THEN end ELSE pieces[i] \o f[i + 1]]
           r == Remainder(pieces, end)
<1>1. PICK last \in Nat : last = Len(pieces)
  OBVIOUS
<1>2. PICK f : IsRemainder(f, pieces, end, 1)
  BY RemainderExists
<1>3. f = Step(f)
  <2>1. f \in [1 .. last + 1 -> Seq(Characters)] /\ f[last + 1] = end
    BY <1>1, <1>2 DEF IsRemainder
  <2>2. \A i \in 1 .. last + 1 : i # last + 1 => i \in 1 .. last
    OBVIOUS
  <2>3. \A i \in 1 .. last : f[i] = pieces[i] \o f[i + 1]
    BY <1>1, <1>2 DEF IsRemainder
  <2> QED
    BY <1>1, <2>1, <2>2, <2>3
<1>4. r = CHOOSE g : g = Step(g)
  BY DEF Remainder
<1>5. r = Step(r)
  BY <1>3, <1>4
<1> HIDE DEF r
<1>6. \A i \in 1 .. last + 1 : r[i] = IF i = last + 1 THEN end ELSE pieces[i] \o r[i + 1]
  BY <1>1, <1>5
<1>7. r[last + 1] = end
  BY <1>6
<1>8. ASSUME NEW i \in 1 .. last PROVE r[i] = pieces[i] \o r[i + 1]
  <2>1. i \in 1 .. last + 1 /\ i # last + 1
    OBVIOUS
  <2> QED
    BY <1>6, <2>1, Zenon
<1> DEFINE S == {i \in 1 .. last + 1 : r[i] \in Seq(Characters)}
<1>9. \A i \in 1 .. last : i + 1 \in S => i \in S
  <2> SUFFICES ASSUME NEW i \in 1 .. last, i + 1 \in S PROVE i \in S
    OBVIOUS
  <2>1. pieces[i] \in Seq(Characters) /\ r[i + 1] \in Seq(Characters)
    BY <1>1
  <2>2. r[i] \in Seq(Characters)
    BY <1>8, <2>1, ConcatProperties
  <2> QED
    BY <2>2
<1>10. last + 1 \in S
  BY <1>7
<1>11. 1 .. last + 1 \subseteq S
  <2> HIDE DEF S
  <2> QED
    BY <1>9, <1>10, Downward
<1>12. \A i \in 1 .. last + 1 : r[i] \in Seq(Characters)
  BY <1>11
<1> QED
  BY <1>1, <1>7, <1>8, <1>12 DEF r

\* A field that the writer quotes, and what it makes of its characters.
IsQuoted(f, all) == all \/ "quote" \in Range(f) \/ "comma" \in Range(f)
Inner(f) == Remainder([i \in DOMAIN f |-> Escaped(f[i])], <<"quote">>)

\* The line from each field on, and what is behind a field.
LineFrom(w, all) ==
    Remainder([k \in 1 .. Len(w) - 1 |-> Append(Text(w[k], all), "comma")], Text(w[Len(w)], all))
Behind(w, all, k) == IF k = Len(w) THEN <<>> ELSE <<"comma">> \o LineFrom(w, all)[k + 1]

LEMMA OneCharacter == \A c \in Characters : <<c>> \in Seq(Characters) /\ Len(<<c>>) = 1 /\ <<c>>[1] = c
  OBVIOUS

LEMMA TextsAssociate ==
    \A s, t, u \in Seq(Characters) : (s \o t) \o u = s \o (t \o u)
  BY ConcatAssociative

LEMMA NamedCharacters == "quote" \in Characters /\ "comma" \in Characters
  BY DEF Characters

LEMMA InnerIs ==
    ASSUME NEW f \in Seq(Characters)
    PROVE  /\ Inner(f)[Len(f) + 1] = <<"quote">>
           /\ \A i \in 1 .. Len(f) : /\ Escaped(f[i]) \in Seq(Characters)
                                     /\ Inner(f)[i] = Escaped(f[i]) \o Inner(f)[i + 1]
           /\ \A i \in 1 .. Len(f) + 1 : Inner(f)[i] \in Seq(Characters)
<1> DEFINE pieces == [i \in DOMAIN f |-> Escaped(f[i])]
<1>1. PICK m \in Nat : m = Len(f) /\ DOMAIN f = 1 .. m
  OBVIOUS
<1>2. ASSUME NEW c \in Characters PROVE Escaped(c) \in Seq(Characters)
  <2>1. <<"quote", "quote">> \in Seq(Characters)
    BY NamedCharacters
  <2>2. <<c>> \in Seq(Characters)
    BY OneCharacter
  <2> QED
    BY <2>1, <2>2 DEF Escaped
<1>3. \A i \in 1 .. m : f[i] \in Characters
  BY <1>1
<1>4. pieces \in [1 .. m -> Seq(Characters)]
  BY <1>1, <1>2, <1>3
<1>5. \A i \in 1 .. m : pieces[i] = Escaped(f[i])
  BY <1>1
<1>6. Inner(f) = Remainder(pieces, <<"quote">>)
  BY DEF Inner
<1> HIDE DEF pieces
<1>7. pieces \in Seq(Seq(Characters)) /\ Len(pieces) = m
  BY <1>4
<1>8. <<"quote">> \in Seq(Characters)
  BY OneCharacter, NamedCharacters
<1>9. LET r == Remainder(pieces, <<"quote">>)
      IN  /\ r[m + 1] = <<"quote">>
          /\ \A i \in 1 .. m : r[i] = pieces[i] \o r[i + 1]
          /\ \A i \in 1 .. m + 1 : r[i] \in Seq(Characters)
  BY <1>7, <1>8, RemainderIs
<1> QED
  BY <1>1, <1>2, <1>3, <1>5, <1>6, <1>9

LEMMA TextIs ==
    ASSUME NEW f \in Seq(Characters), NEW all \in BOOLEAN
    PROVE  /\ Text(f, all) \in Seq(Characters)
           /\ IsQuoted(f, all) => Text(f, all) = <<"quote">> \o Inner(f)[1]
           /\ ~ IsQuoted(f, all) =>
                  Text(f, all) = f /\ \A i \in 1 .. Len(f) : f[i] # "quote" /\ f[i] # "comma"
<1>1. Inner(f)[1] \in Seq(Characters)
  <2>1. 1 \in 1 .. Len(f) + 1
    OBVIOUS
  <2> QED
    BY <2>1, InnerIs, Zenon
<1>2. <<"quote">> \o Inner(f)[1] \in Seq(Characters)
  BY <1>1, OneCharacter, NamedCharacters, ConcatProperties
<1>3. Text(f, all) = IF IsQuoted(f, all) THEN <<"quote">> \o Inner(f)[1] ELSE f
  BY DEF Text, Quoted, IsQuoted, Inner
<1>4. ~ IsQuoted(f, all) => \A i \in 1 .. Len(f) : f[i] # "quote" /\ f[i] # "comma"
  BY DEF IsQuoted, Range
<1> QED
  BY <1>2, <1>3, <1>4

LEMMA LineFromIs ==
    ASSUME NEW w \in Seq(Seq(Characters)), w # <<>>, NEW all \in BOOLEAN, NEW k \in 1 .. Len(w)
    PROVE  /\ LineFrom(w, all)[k] \in Seq(Characters)
           /\ LineFrom(w, all)[k] = Text(w[k], all) \o Behind(w, all, k)
           /\ Behind(w, all, k) \in Seq(Characters)
<1> DEFINE pieces == [i \in 1 .. Len(w) - 1 |-> Append(Text(w[i], all), "comma")]
           end == Text(w[Len(w)], all)
<1>1. PICK n \in Nat \ {0} : n = Len(w)
  OBVIOUS
<1>2. \A i \in 1 .. n : w[i] \in Seq(Characters) /\ Text(w[i], all) \in Seq(Characters)
  <2> SUFFICES ASSUME NEW i \in 1 .. n PROVE w[i] \in Seq(Characters) /\ Text(w[i], all) \in Seq(Characters)
    OBVIOUS
  <2>1. w[i] \in Seq(Characters)
    BY <1>1
  <2> QED
    BY <2>1, TextIs
<1>3. \A i \in 1 .. n - 1 : Append(Text(w[i], all), "comma") \in Seq(Characters)
                            /\ Append(Text(w[i], all), "comma") = Text(w[i], all) \o <<"comma">>
  <2> SUFFICES ASSUME NEW i \in 1 .. n - 1
               PROVE  Append(Text(w[i], all), "comma") \in Seq(Characters)
                      /\ Append(Text(w[i], all), "comma") = Text(w[i], all) \o <<"comma">>
    OBVIOUS
  <2>1. Text(w[i], all) \in Seq(Characters)
    BY <1>2
  <2> QED
    BY <2>1, NamedCharacters, AppendProperties, AppendIsConcat
<1>4. pieces \in [1 .. n - 1 -> Seq(Characters)] /\ end \in Seq(Characters)
      /\ \A i \in 1 .. n - 1 : pieces[i] = Text(w[i], all) \o <<"comma">>
  BY <1>1, <1>2, <1>3
<1>5. LineFrom(w, all) = Remainder(pieces, end) /\ end = Text(w[n], all)
  BY <1>1 DEF LineFrom
<1> HIDE DEF pieces, end
<1>6. pieces \in Seq(Seq(Characters)) /\ Len(pieces) = n - 1 /\ Len(pieces) + 1 = n
  BY <1>4
<1> DEFINE r == Remainder(pieces, end)
<1>7. /\ r[n] = end
      /\ \A i \in 1 .. n - 1 : r[i] = pieces[i] \o r[i + 1]
      /\ \A i \in 1 .. n : r[i] \in Seq(Characters)
  <2>1. /\ r[Len(pieces) + 1] = end
        /\ \A i \in 1 .. Len(pieces) : r[i] = pieces[i] \o r[i + 1]
        /\ \A i \in 1 .. Len(pieces) + 1 : r[i] \in Seq(Characters)
    BY <1>4, <1>6, RemainderIs, Zenon
  <2> HIDE DEF r
  <2> QED
    BY <1>6, <2>1
<1> HIDE DEF r
<1>8. CASE k = n
  <2>1. Behind(w, all, k) = <<>> /\ <<>> \in Seq(Characters)
    BY <1>1, <1>8 DEF Behind
  <2>2. LineFrom(w, all)[k] = Text(w[k], all)
    BY <1>5, <1>7, <1>8 DEF r
  <2>3. Text(w[k], all) \o <<>> = Text(w[k], all)
    BY <1>2, <1>8, ConcatEmptySeq
  <2> QED
    BY <1>2, <1>8, <2>1, <2>2, <2>3
<1>9. CASE k # n
  <2>1. k \in 1 .. n - 1 /\ k + 1 \in 1 .. n
    BY <1>1, <1>9
  <2>2. Behind(w, all, k) = <<"comma">> \o LineFrom(w, all)[k + 1]
    BY <1>1, <1>9 DEF Behind
  <2>3. r[k + 1] \in Seq(Characters) /\ r[k] \in Seq(Characters)
        /\ r[k] = (Text(w[k], all) \o <<"comma">>) \o r[k + 1]
    BY <1>1, <1>4, <1>7, <2>1
  <2>4. Text(w[k], all) \in Seq(Characters) /\ <<"comma">> \in Seq(Characters)
    BY <1>2, <2>1, OneCharacter, NamedCharacters
  <2>5. LineFrom(w, all) = r
    BY <1>5 DEF r
  <2>6. PICK comma : comma = <<"comma">>
    OBVIOUS
  <2>7. comma \o r[k + 1] \in Seq(Characters)
        /\ (Text(w[k], all) \o comma) \o r[k + 1] = Text(w[k], all) \o (comma \o r[k + 1])
    <3>1. comma \in Seq(Characters) /\ Text(w[k], all) \in Seq(Characters) /\ r[k + 1] \in Seq(Characters)
      BY <2>3, <2>4, <2>6, Zenon
    <3>2. comma \o r[k + 1] \in Seq(Characters)
      BY <3>1, ConcatProperties, Zenon
    <3>3. (Text(w[k], all) \o comma) \o r[k + 1] = Text(w[k], all) \o (comma \o r[k + 1])
      BY <3>1, TextsAssociate, Zenon
    <3> QED
      BY <3>2, <3>3
  <2> QED
    BY <2>2, <2>3, <2>5, <2>6, <2>7, Zenon
<1> QED
  BY <1>8, <1>9

-----------------------------------------------------------------------------
(* Positions: from p on, the line reads as follows.                         *)

At(l, p, rest) ==
    p + Len(rest) = Len(l) + 1 /\ \A i \in 1 .. Len(rest) : l[p + i - 1] = rest[i]

LEMMA AtSkips ==
    ASSUME NEW l \in Seq(Characters), NEW p \in Nat \ {0},
           NEW s \in Seq(Characters), NEW t \in Seq(Characters), At(l, p, s \o t)
    PROVE  /\ At(l, p + Len(s), t)
           /\ \A i \in 1 .. Len(s) : l[p + i - 1] = s[i]
           /\ p + Len(s) <= Len(l) + 1
<1>1. PICK a \in Nat : a = Len(s)
  OBVIOUS
<1>2. PICK b \in Nat : b = Len(t)
  OBVIOUS
<1>3. PICK n \in Nat : n = Len(l)
  OBVIOUS
<1>4. Len(s \o t) = a + b
      /\ \A i \in 1 .. a + b : (s \o t)[i] = IF i <= a THEN s[i] ELSE t[i - a]
  BY <1>1, <1>2, ConcatProperties
<1>5. p + (a + b) = n + 1 /\ \A i \in 1 .. a + b : l[p + i - 1] = IF i <= a THEN s[i] ELSE t[i - a]
  BY <1>3, <1>4 DEF At
<1>6. \A i \in 1 .. a : l[p + i - 1] = s[i]
  BY <1>5
<1>7. ASSUME NEW i \in 1 .. b PROVE l[(p + a) + i - 1] = t[i]
  <2>1. a + i \in 1 .. a + b /\ ~ (a + i <= a) /\ (a + i) - a = i /\ p + (a + i) - 1 = (p + a) + i - 1
    OBVIOUS
  <2> QED
    BY <1>5, <2>1
<1> QED
  BY <1>1, <1>2, <1>3, <1>5, <1>6, <1>7 DEF At

\* The next character, and the line behind it.
LEMMA AtNext ==
    ASSUME NEW l \in Seq(Characters), NEW p \in Nat \ {0},
           NEW c \in Characters, NEW t \in Seq(Characters), At(l, p, <<c>> \o t)
    PROVE  p <= Len(l) /\ l[p] = c /\ At(l, p + 1, t)
<1>1. PICK s : s = <<c>>
  OBVIOUS
<1>2. s \in Seq(Characters) /\ Len(s) = 1 /\ s[1] = c /\ At(l, p, s \o t)
  BY <1>1, OneCharacter
<1>3. /\ At(l, p + Len(s), t)
      /\ \A i \in 1 .. Len(s) : l[p + i - 1] = s[i]
      /\ p + Len(s) <= Len(l) + 1
  BY <1>2, AtSkips, Zenon
<1>4. l[p + 1 - 1] = s[1] /\ p + 1 - 1 = p /\ Len(l) \in Nat
  BY <1>2, <1>3
<1> QED
  BY <1>2, <1>3, <1>4

-----------------------------------------------------------------------------
(* The places of the scan in the k-th field.                                *)

\* Before the quote that opens the field.
Opening(w, l, all, k, p, read, inside) ==
    IsQuoted(w[k], all) /\ At(l, p, LineFrom(w, all)[k]) /\ read = <<>> /\ ~ inside

\* Behind j characters of a field in quotes.
Inside(w, l, all, k, p, read, inside) ==
    inside /\ \E j \in 0 .. Len(w[k]) :
                  At(l, p, Inner(w[k])[j + 1] \o Behind(w, all, k)) /\ read = SubSeq(w[k], 1, j)

\* Behind j characters of a field without quotes, or behind any field.
Outside(w, l, all, k, p, read, inside) ==
    ~ inside /\ \E j \in 0 .. Len(w[k]) :
                    /\ j < Len(w[k]) => ~ IsQuoted(w[k], all)
                    /\ At(l, p, SubSeq(w[k], j + 1, Len(w[k])) \o Behind(w, all, k))
                    /\ read = SubSeq(w[k], 1, j)

Place(w, l, all, k, p, read, inside) ==
    \/ Opening(w, l, all, k, p, read, inside)
    \/ Inside(w, l, all, k, p, read, inside)
    \/ Outside(w, l, all, k, p, read, inside)

Scanning ==
    \E all \in BOOLEAN : \E k \in 1 .. Len(fields) :
        /\ next \in Nat \ {0} /\ token \in Seq(Characters) /\ quoted \in BOOLEAN
        /\ tokens = SubSeq(fields, 1, k - 1)
        /\ Place(fields, line, all, k, next, token, quoted)

Scanned ==
    /\ next = Len(line) + 2 /\ tokens = fields
    /\ token \in Seq(Characters) /\ quoted \in BOOLEAN

SplitInv ==
    /\ fields \in Seq(Seq(Characters)) /\ fields # <<>>
    /\ line \in Seq(Characters)
    /\ Scanning \/ Scanned

\* At the start of a field.
LEMMA FieldStarts ==
    ASSUME NEW w \in Seq(Seq(Characters)), w # <<>>, NEW all \in BOOLEAN, NEW k \in 1 .. Len(w),
           NEW l, NEW p, At(l, p, LineFrom(w, all)[k])
    PROVE  Place(w, l, all, k, p, <<>>, FALSE)
<1>1. w[k] \in Seq(Characters)
  OBVIOUS
<1>2. CASE IsQuoted(w[k], all)
  BY <1>2 DEF Place, Opening
<1>3. CASE ~ IsQuoted(w[k], all)
  <2>1. PICK f \in Seq(Characters) : f = w[k]
    BY <1>1
  <2>2. LineFrom(w, all)[k] = f \o Behind(w, all, k)
    <3>1. LineFrom(w, all)[k] = Text(w[k], all) \o Behind(w, all, k)
      BY LineFromIs
    <3>2. Text(f, all) = f
      BY <1>3, <2>1, TextIs
    <3> QED
      BY <2>1, <3>1, <3>2, Zenon
  <2>3. SubSeq(f, 0 + 1, Len(f)) = f /\ SubSeq(f, 1, 0) = <<>> /\ 0 \in 0 .. Len(f)
    <3>1. SubSeq(f, 1, Len(f)) = f
      BY SubSeqFull
    <3>2. SubSeq(f, 1, 0) = <<>>
      BY SubSeqEmpty
    <3>3. 0 + 1 = 1 /\ 0 \in 0 .. Len(f)
      OBVIOUS
    <3> QED
      BY <3>1, <3>2, <3>3
  <2>4. At(l, p, SubSeq(f, 0 + 1, Len(f)) \o Behind(w, all, k))
    BY <2>2, <2>3
  <2> QED
    BY <1>3, <2>1, <2>3, <2>4, Zenon DEF Place, Outside
<1> QED
  BY <1>2, <1>3

LEMMA InitSplits == SplitInit => SplitInv
<1> SUFFICES ASSUME SplitInit PROVE SplitInv
  OBVIOUS
<1>1. PICK n \in 1 .. FieldCount : fields \in [1 .. n -> Fields]
  BY DEF SplitInit
<1>2. n \in Nat \ {0}
  BY FieldsAssumption
<1>3. fields \in Seq(Fields) /\ Len(fields) = n
  BY <1>1, <1>2
<1>4. fields \in Seq(Seq(Characters)) /\ fields # <<>>
  <2>1. fields \in Seq(Seq(Characters))
    BY <1>3, FieldsAssumption, SeqMonotonic
  <2> QED
    BY <1>2, <1>3, <2>1
<1>5. PICK all \in BOOLEAN : line = CsvLine(fields, all)
  BY DEF SplitInit
<1>6. line = LineFrom(fields, all)[1] /\ 1 \in 1 .. Len(fields)
  BY <1>2, <1>3, <1>5 DEF CsvLine, LineFrom
<1>7. line \in Seq(Characters)
  BY <1>4, <1>6, LineFromIs
<1>8. At(line, 1, line)
  <2>1. PICK m \in Nat : m = Len(line)
    BY <1>7
  <2> QED
    BY <2>1 DEF At
<1>9. Place(fields, line, all, 1, next, token, quoted)
  <2>1. next = 1 /\ token = <<>> /\ quoted = FALSE
    BY DEF SplitInit
  <2>2. Place(fields, line, all, 1, 1, <<>>, FALSE)
    BY <1>4, <1>6, <1>8, FieldStarts
  <2> QED
    BY <2>1, <2>2
<1>10. tokens = SubSeq(fields, 1, 1 - 1)
  <2>1. SubSeq(fields, 1, 0) = <<>>
    BY SubSeqEmpty
  <2> QED
    BY <2>1 DEF SplitInit
<1>11. next \in Nat \ {0} /\ token \in Seq(Characters) /\ quoted \in BOOLEAN
  <2>1. <<>> \in Seq(Characters) /\ 1 \in Nat \ {0}
    OBVIOUS
  <2> QED
    BY <2>1, Zenon DEF SplitInit
<1> QED
  BY <1>4, <1>6, <1>7, <1>9, <1>10, <1>11 DEF SplitInv, Scanning

\* The quote that opens a field.
LEMMA OpeningStep ==
    ASSUME SplitInv, NEW all \in BOOLEAN, NEW k \in 1 .. Len(fields), next \in Nat \ {0},
           Opening(fields, line, all, k, next, token, quoted), SplitCharacter
    PROVE  /\ Inside(fields, line, all, k, next', token', quoted')
           /\ next' \in Nat \ {0} /\ token' = token /\ quoted' = TRUE /\ tokens' = tokens
<1>1. /\ fields \in Seq(Seq(Characters)) /\ fields # <<>> /\ line \in Seq(Characters)
      /\ quoted \in BOOLEAN
  BY DEF SplitInv, Scanning, Scanned
<1>2. PICK f \in Seq(Characters) : f = fields[k]
  BY <1>1
<1>3. Inner(f)[1] \in Seq(Characters) /\ Behind(fields, all, k) \in Seq(Characters)
  <2>1. 1 \in 1 .. Len(f) + 1
    OBVIOUS
  <2>2. Inner(f)[1] \in Seq(Characters)
    BY <2>1, InnerIs, Zenon
  <2> QED
    BY <1>1, <2>2, LineFromIs
<1>4. LineFrom(fields, all)[k] = <<"quote">> \o (Inner(f)[1] \o Behind(fields, all, k))
  <2>1. LineFrom(fields, all)[k] = (<<"quote">> \o Inner(f)[1]) \o Behind(fields, all, k)
    <3>1. Text(f, all) = <<"quote">> \o Inner(f)[1]
      BY <1>2, TextIs DEF Opening
    <3>2. LineFrom(fields, all)[k] = Text(fields[k], all) \o Behind(fields, all, k)
      BY <1>1, LineFromIs
    <3> QED
      BY <1>2, <3>1, <3>2, Zenon
  <2>2. <<"quote">> \in Seq(Characters)
    BY OneCharacter, NamedCharacters
  <2> QED
    BY <1>3, <2>1, <2>2, TextsAssociate, Zenon
<1>5. Inner(f)[1] \o Behind(fields, all, k) \in Seq(Characters)
  BY <1>3, ConcatProperties
<1>6. At(line, next, LineFrom(fields, all)[k]) /\ token = <<>> /\ ~ quoted
  BY DEF Opening
<1>7. next <= Len(line) /\ line[next] = "quote"
      /\ At(line, next + 1, Inner(f)[1] \o Behind(fields, all, k))
  <2>1. PICK rest \in Seq(Characters) : rest = Inner(f)[1] \o Behind(fields, all, k)
    BY <1>5
  <2>2. At(line, next, <<"quote">> \o rest)
    BY <1>4, <1>6, <2>1, Zenon
  <2>3. next <= Len(line) /\ line[next] = "quote" /\ At(line, next + 1, rest)
    BY <1>1, <2>2, NamedCharacters, AtNext, Zenon
  <2> QED
    BY <2>1, <2>3, Zenon
<1>8. next' = next + 1 /\ token' = token /\ tokens' = tokens /\ quoted' = TRUE
      /\ fields' = fields /\ line' = line
  BY <1>1, <1>6, <1>7 DEF SplitCharacter, Escape
<1>9. Inside(fields, line, all, k, next + 1, <<>>, TRUE)
  <2>1. SubSeq(f, 1, 0) = <<>> /\ 0 \in 0 .. Len(f) /\ 0 + 1 = 1
    BY SubSeqEmpty
  <2> QED
    BY <1>2, <1>7, <2>1 DEF Inside
<1>10. next' \in Nat \ {0}
  BY <1>8
<1> QED
  BY <1>6, <1>8, <1>9, <1>10, Zenon

\* A character, a doubled quote, or the closing quote of a field in quotes.
LEMMA InsideStep ==
    ASSUME SplitInv, NEW all \in BOOLEAN, NEW k \in 1 .. Len(fields), next \in Nat \ {0},
           Inside(fields, line, all, k, next, token, quoted), SplitCharacter
    PROVE  /\ \/ Inside(fields, line, all, k, next', token', quoted')
              \/ Outside(fields, line, all, k, next', token', quoted')
           /\ next' \in Nat \ {0} /\ token' \in Seq(Characters) /\ quoted' \in BOOLEAN
           /\ tokens' = tokens
<1>1. fields \in Seq(Seq(Characters)) /\ fields # <<>> /\ line \in Seq(Characters)
  BY DEF SplitInv
<1>2. PICK f \in Seq(Characters) : f = fields[k]
  BY <1>1
<1>3. PICK m \in Nat : m = Len(f)
  OBVIOUS
<1>4. PICK j \in 0 .. m :
          /\ At(line, next, Inner(f)[j + 1] \o Behind(fields, all, k))
          /\ token = SubSeq(f, 1, j)
  BY <1>2, <1>3 DEF Inside
<1>5. quoted /\ Behind(fields, all, k) \in Seq(Characters)
  BY <1>1, LineFromIs DEF Inside
<1>6. CASE j < m
  <2>1. j + 1 \in 1 .. m /\ (j + 1) + 1 \in 1 .. m + 1
    BY <1>6
  <2>2. PICK c \in Characters : c = f[j + 1]
    BY <1>3, <2>1
  <2>3. PICK rest \in Seq(Characters) : rest = Inner(f)[(j + 1) + 1] \o Behind(fields, all, k)
    <3>1. Inner(f)[(j + 1) + 1] \in Seq(Characters)
      BY <1>3, <2>1, InnerIs, Zenon
    <3> QED
      BY <1>5, <3>1, ConcatProperties
  <2>4. PICK e \in Seq(Characters) : e = Escaped(c)
    BY <1>3, <2>1, <2>2, InnerIs
  <2>5. At(line, next, e \o rest)
    <3>1. Inner(f)[j + 1] = e \o Inner(f)[(j + 1) + 1] /\ Inner(f)[(j + 1) + 1] \in Seq(Characters)
      BY <1>3, <2>1, <2>2, <2>4, InnerIs, Zenon
    <3>2. PICK u \in Seq(Characters), b \in Seq(Characters) :
              u = Inner(f)[(j + 1) + 1] /\ b = Behind(fields, all, k)
      BY <1>5, <3>1, Zenon
    <3>3. (e \o u) \o b = e \o (u \o b)
      BY TextsAssociate
    <3>4. Inner(f)[j + 1] \o Behind(fields, all, k) = e \o rest
      BY <2>3, <3>1, <3>2, <3>3, Zenon
    <3> QED
      BY <1>4, <3>4, Zenon
  <2>6. /\ At(line, next + Len(e), rest)
        /\ \A i \in 1 .. Len(e) : line[next + i - 1] = e[i]
        /\ next + Len(e) <= Len(line) + 1
    BY <1>1, <2>5, AtSkips
  <2>7. /\ fields' = fields /\ line' = line /\ quoted' = quoted /\ tokens' = tokens
        /\ token' = Append(token, c) /\ next' = next + Len(e)
    <3>1. CASE c = "quote"
      <4>1. e[1] = "quote" /\ e[2] = "quote" /\ Len(e) = 2
        BY <2>4, <3>1 DEF Escaped
      <4>2. line[next + 1 - 1] = e[1] /\ line[next + 2 - 1] = e[2]
        BY <2>6, <4>1
      <4>3. next + 1 - 1 = next /\ next + 2 - 1 = next + 1 /\ next + 1 <= Len(line)
        BY <1>1, <2>6, <4>1
      <4>4. Escape
        BY <1>5, <4>1, <4>2, <4>3 DEF Escape
      <4> QED
        BY <1>5, <3>1, <4>1, <4>4 DEF SplitCharacter, Escape
    <3>2. CASE c # "quote"
      <4>1. e[1] = c /\ Len(e) = 1
        BY <2>4, <3>2 DEF Escaped
      <4>2. line[next + 1 - 1] = e[1]
        BY <2>6, <4>1
      <4>3. next + 1 - 1 = next
        OBVIOUS
      <4>4. line[next] = c /\ ~ Escape
        BY <3>2, <4>1, <4>2, <4>3 DEF Escape
      <4> QED
        BY <1>5, <3>2, <4>1, <4>4 DEF SplitCharacter
    <3> QED
      BY <3>1, <3>2
  <2>8. token' = SubSeq(f, 1, j + 1)
    <3>1. SubSeq(f, 1, j + 1) = SubSeq(f, 1, (j + 1) - 1) \o <<f[j + 1]>>
      <4>1. 1 \in 1 .. Len(f) /\ j + 1 \in 1 .. Len(f)
        BY <1>3, <2>1
      <4> QED
        BY <4>1, SubSeqRecursiveSecond
    <3>2. (j + 1) - 1 = j /\ token \in Seq(Characters)
      BY <1>3, <1>4, SubSeqProperties
    <3>3. Append(token, c) = token \o <<c>>
      BY <3>2, AppendIsConcat
    <3> QED
      BY <1>4, <2>2, <2>7, <3>1, <3>2, <3>3
  <2>9. Inside(fields, line, all, k, next', token', quoted')
    <3>1. j + 1 \in 0 .. Len(f) /\ next' = next + Len(e)
      BY <1>3, <2>1, <2>7
    <3>2. At(line, next', Inner(f)[(j + 1) + 1] \o Behind(fields, all, k))
      BY <2>3, <2>6, <3>1, Zenon
    <3> QED
      BY <1>2, <1>5, <2>7, <2>8, <3>1, <3>2, Zenon DEF Inside
  <2>10. next' \in Nat \ {0} /\ token' \in Seq(Characters)
    <3>1. Len(e) \in Nat /\ token \in Seq(Characters)
      BY <1>3, <1>4, SubSeqProperties
    <3> QED
      BY <2>7, <3>1, AppendProperties
  <2> QED
    BY <1>5, <2>7, <2>9, <2>10, Zenon
<1>7. CASE j = m
  <2>1. PICK rest \in Seq(Characters) : rest = Behind(fields, all, k)
    BY <1>5
  <2>2. At(line, next, <<"quote">> \o rest)
    BY <1>3, <1>4, <1>7, <2>1, InnerIs
  <2>3. next <= Len(line) /\ line[next] = "quote" /\ At(line, next + 1, rest)
    BY <1>1, <2>2, NamedCharacters, AtNext, Zenon
  <2>4. ~ Escape
    <3>1. CASE k = Len(fields)
      <4>1. rest = <<>>
        BY <2>1, <3>1 DEF Behind
      <4>2. next + 1 = Len(line) + 1
        BY <2>3, <4>1 DEF At
      <4>3. ~ (next + 1 <= Len(line))
        BY <1>1, <4>2
      <4> QED
        BY <4>3 DEF Escape
    <3>2. CASE k # Len(fields)
      <4>1. rest = <<"comma">> \o LineFrom(fields, all)[k + 1]
        BY <2>1, <3>2 DEF Behind
      <4>2. k + 1 \in 1 .. Len(fields)
        BY <1>1, <3>2
      <4>3. LineFrom(fields, all)[k + 1] \in Seq(Characters)
        BY <1>1, <4>2, LineFromIs
      <4>4. PICK t \in Seq(Characters) : t = LineFrom(fields, all)[k + 1]
        BY <4>3
      <4>5. PICK p \in Nat \ {0} : p = next + 1
        OBVIOUS
      <4>6. At(line, p, <<"comma">> \o t)
        BY <2>3, <4>1, <4>4, <4>5, Zenon
      <4>7. line[next + 1] = "comma"
        BY <1>1, <4>5, <4>6, NamedCharacters, AtNext, Zenon
      <4> QED
        BY <4>7 DEF Escape
    <3> QED
      BY <3>1, <3>2
  <2>5. /\ fields' = fields /\ line' = line /\ tokens' = tokens
        /\ token' = token /\ next' = next + 1 /\ ~ quoted' /\ quoted' \in BOOLEAN
    BY <1>5, <2>3, <2>4 DEF SplitCharacter
  <2>6. SubSeq(f, m + 1, m) \o rest = rest
    <3>1. SubSeq(f, m + 1, m) = <<>>
      BY SubSeqEmpty
    <3> QED
      BY <3>1, ConcatEmptySeq
  <2>7. Outside(fields, line, all, k, next', token', quoted')
    <3>1. m \in 0 .. Len(f) /\ ~ (m < Len(f)) /\ m + 1 = Len(f) + 1
      BY <1>3
    <3>2. At(line, next', SubSeq(f, m + 1, Len(f)) \o Behind(fields, all, k))
      BY <1>3, <2>1, <2>3, <2>5, <2>6, Zenon
    <3> QED
      BY <1>2, <1>4, <1>7, <2>5, <3>1, <3>2, Zenon DEF Outside
  <2>8. next' \in Nat \ {0} /\ token' \in Seq(Characters)
    <3>1. token \in Seq(Characters)
      BY <1>3, <1>4, SubSeqProperties
    <3> QED
      BY <2>5, <3>1
  <2> QED
    BY <2>5, <2>7, <2>8
<1> QED
  BY <1>6, <1>7

\* The fields read so far, and the one that is complete.
LEMMA OneMoreField ==
    ASSUME NEW w \in Seq(Seq(Characters)), NEW k \in 1 .. Len(w)
    PROVE  Append(SubSeq(w, 1, k - 1), w[k]) = SubSeq(w, 1, k)
<1>1. k \in 1 .. Len(w) /\ 1 \in 1 .. Len(w) /\ k - 1 \in Int /\ k \in 1 .. Len(w)
      /\ w[k] \in Seq(Characters) /\ \A i \in 1 .. k - 1 : w[i] \in Seq(Characters)
  OBVIOUS
<1>2. SubSeq(w, 1, k) = SubSeq(w, 1, k - 1) \o <<w[k]>>
  BY <1>1, SubSeqRecursiveSecond
<1>3. SubSeq(w, 1, k - 1) \in Seq(Seq(Characters))
  BY <1>1, SubSeqProperties
<1>4. Append(SubSeq(w, 1, k - 1), w[k]) = SubSeq(w, 1, k - 1) \o <<w[k]>>
  BY <1>1, <1>3, AppendIsConcat
<1> QED
  BY <1>2, <1>4

\* A character of a field without quotes, or the comma behind a field.
LEMMA OutsideStep ==
    ASSUME SplitInv, NEW all \in BOOLEAN, NEW k \in 1 .. Len(fields), next \in Nat \ {0},
           Outside(fields, line, all, k, next, token, quoted), SplitCharacter,
           tokens = SubSeq(fields, 1, k - 1), quoted \in BOOLEAN
    PROVE  Scanning'
<1>1. /\ fields \in Seq(Seq(Characters)) /\ fields # <<>> /\ line \in Seq(Characters)
      /\ fields' = fields /\ line' = line
  BY DEF SplitInv, SplitCharacter
<1>2. PICK f \in Seq(Characters) : f = fields[k]
  BY <1>1
<1>3. PICK m \in Nat : m = Len(f)
  OBVIOUS
<1>4. PICK j \in 0 .. m :
          /\ j < m => ~ IsQuoted(f, all)
          /\ At(line, next, SubSeq(f, j + 1, m) \o Behind(fields, all, k))
          /\ token = SubSeq(f, 1, j)
  BY <1>2, <1>3 DEF Outside
<1>5. quoted = FALSE /\ token \in Seq(Characters) /\ next <= Len(line) /\ Len(line) \in Nat
  <2>1. token \in Seq(Characters)
    BY <1>3, <1>4, SubSeqProperties
  <2> QED
    BY <1>1, <2>1 DEF Outside, SplitCharacter
<1>6. PICK b \in Seq(Characters) : b = Behind(fields, all, k)
  BY <1>1, LineFromIs
<1>7. CASE j < m
  <2>1. j + 1 \in 1 .. m /\ j + 1 \in 0 .. m /\ j + 1 \in 1 .. Len(f) /\ m \in j + 1 .. Len(f)
    BY <1>3, <1>7
  <2>2. PICK c \in Characters : c = f[j + 1]
    BY <2>1
  <2>3. PICK t \in Seq(Characters) : t = SubSeq(f, (j + 1) + 1, m)
    <3>1. \A i \in (j + 1) + 1 .. m : f[i] \in Characters
      BY <1>3
    <3>2. SubSeq(f, (j + 1) + 1, m) \in Seq(Characters)
      BY <3>1, SubSeqProperties
    <3> QED
      BY <3>2
  <2>4. SubSeq(f, j + 1, m) = <<c>> \o t
    BY <2>1, <2>2, <2>3, SubSeqRecursiveFirst
  <2>5. PICK rest \in Seq(Characters) : rest = t \o b
    BY ConcatProperties
  <2>6. At(line, next, <<c>> \o rest)
    <3>1. PICK s \in Seq(Characters) : s = <<c>>
      BY OneCharacter
    <3>2. (s \o t) \o b = s \o (t \o b)
      BY TextsAssociate
    <3> QED
      BY <1>4, <1>6, <2>4, <2>5, <3>1, <3>2, Zenon
  <2>7. line[next] = c /\ At(line, next + 1, rest)
    BY <1>1, <2>6, AtNext, Zenon
  <2>8. c # "quote" /\ c # "comma"
    BY <1>4, <1>7, <2>1, <2>2, TextIs
  <2>9. token' = Append(token, c) /\ next' = next + 1 /\ tokens' = tokens /\ quoted' = FALSE
    BY <1>5, <2>7, <2>8 DEF SplitCharacter, Escape
  <2>10. token' = SubSeq(f, 1, j + 1) /\ token' \in Seq(Characters)
    <3>1. SubSeq(f, 1, j + 1) = SubSeq(f, 1, (j + 1) - 1) \o <<f[j + 1]>>
      <4>1. 1 \in 1 .. Len(f) /\ j + 1 \in 1 .. Len(f)
        BY <1>3, <2>1
      <4> QED
        BY <4>1, SubSeqRecursiveSecond
    <3>2. (j + 1) - 1 = j
      OBVIOUS
    <3>3. Append(token, c) = token \o <<c>> /\ Append(token, c) \in Seq(Characters)
      BY <1>5, AppendIsConcat, AppendProperties
    <3> QED
      BY <1>4, <2>2, <2>9, <3>1, <3>2, <3>3
  <2>11. Outside(fields, line, all, k, next', token', quoted')
    <3>1. j + 1 < m => ~ IsQuoted(f, all)
      BY <1>4, <1>7
    <3>2. At(line, next', SubSeq(f, (j + 1) + 1, m) \o Behind(fields, all, k))
      BY <1>6, <2>3, <2>5, <2>7, <2>9, Zenon
    <3> QED
      BY <1>2, <1>3, <2>1, <2>9, <2>10, <3>1, <3>2, Zenon DEF Outside
  <2>12. next' \in Nat \ {0}
    BY <2>9
  <2>13. Place(fields', line', all, k, next', token', quoted')
    BY <1>1, <2>11, Zenon DEF Place
  <2>14. tokens' = SubSeq(fields', 1, k - 1) /\ k \in 1 .. Len(fields')
    BY <1>1, <2>9
  <2> QED
    BY <2>9, <2>10, <2>12, <2>13, <2>14 DEF Scanning
<1>8. CASE j = m
  <2>1. token = f
    BY <1>3, <1>4, <1>8, SubSeqFull
  <2>2. At(line, next, b)
    <3>1. SubSeq(f, m + 1, m) = <<>>
      BY SubSeqEmpty
    <3>2. <<>> \o b = b
      BY ConcatEmptySeq
    <3> QED
      BY <1>4, <1>6, <1>8, <3>1, <3>2
  <2>3. k # Len(fields)
    <3> SUFFICES ASSUME k = Len(fields) PROVE FALSE
      OBVIOUS
    <3>1. b = <<>>
      BY <1>6 DEF Behind
    <3>2. next + 0 = Len(line) + 1
      BY <2>2, <3>1 DEF At
    <3> QED
      BY <1>5, <3>2
  <2>4. k + 1 \in 1 .. Len(fields) /\ (k + 1) - 1 = k
    BY <1>1, <2>3
  <2>5. PICK rest \in Seq(Characters) : rest = LineFrom(fields, all)[k + 1]
    BY <1>1, <2>4, LineFromIs
  <2>6. At(line, next, <<"comma">> \o rest)
    BY <1>6, <2>2, <2>3, <2>5 DEF Behind
  <2>7. line[next] = "comma" /\ At(line, next + 1, rest)
    BY <1>1, <2>6, NamedCharacters, AtNext, Zenon
  <2>8. tokens' = Append(tokens, token) /\ token' = <<>> /\ next' = next + 1 /\ quoted' = FALSE
    BY <1>5, <2>7 DEF SplitCharacter, Escape
  <2>9. tokens' = SubSeq(fields, 1, k)
    BY <1>1, <1>2, <2>1, <2>8, OneMoreField
  <2>10. Place(fields, line, all, k + 1, next + 1, <<>>, FALSE)
    <3>1. PICK n \in 1 .. Len(fields) : n = k + 1
      BY <2>4
    <3>2. At(line, next + 1, LineFrom(fields, all)[n])
      BY <2>5, <2>7, <3>1
    <3>3. Place(fields, line, all, n, next + 1, <<>>, FALSE)
      BY <1>1, <3>2, FieldStarts
    <3> QED
      BY <3>1, <3>3
  <2>11. next' \in Nat \ {0} /\ token' \in Seq(Characters)
    BY <2>8
  <2>12. Place(fields', line', all, k + 1, next', token', quoted')
    BY <1>1, <2>8, <2>10, Zenon
  <2>13. tokens' = SubSeq(fields', 1, (k + 1) - 1) /\ k + 1 \in 1 .. Len(fields')
    BY <1>1, <2>4, <2>9
  <2> QED
    BY <2>8, <2>11, <2>12, <2>13 DEF Scanning
<1> QED
  BY <1>7, <1>8

LEMMA CharacterKeepsSplit == SplitInv /\ SplitCharacter => SplitInv'
<1> SUFFICES ASSUME SplitInv, SplitCharacter PROVE SplitInv'
  OBVIOUS
<1>1. /\ fields \in Seq(Seq(Characters)) /\ fields # <<>> /\ line \in Seq(Characters)
      /\ fields' = fields /\ line' = line
  BY DEF SplitInv, SplitCharacter
<1>2. Scanning
  <2>1. ~ Scanned
    <3>1. Len(line) \in Nat /\ next <= Len(line)
      BY <1>1 DEF SplitCharacter
    <3> QED
      BY <3>1 DEF Scanned
  <2> QED
    BY <2>1 DEF SplitInv
<1>3. PICK all \in BOOLEAN, k \in 1 .. Len(fields) :
          /\ next \in Nat \ {0} /\ token \in Seq(Characters) /\ quoted \in BOOLEAN
          /\ tokens = SubSeq(fields, 1, k - 1)
          /\ Place(fields, line, all, k, next, token, quoted)
  BY <1>2 DEF Scanning
<1>4. CASE Outside(fields, line, all, k, next, token, quoted)
  BY <1>1, <1>3, <1>4, OutsideStep DEF SplitInv
<1>5. CASE \/ Opening(fields, line, all, k, next, token, quoted)
           \/ Inside(fields, line, all, k, next, token, quoted)
  <2>1. /\ \/ Inside(fields, line, all, k, next', token', quoted')
           \/ Outside(fields, line, all, k, next', token', quoted')
        /\ next' \in Nat \ {0} /\ token' \in Seq(Characters) /\ quoted' \in BOOLEAN
        /\ tokens' = tokens
    BY <1>3, <1>5, OpeningStep, InsideStep
  <2>2. Place(fields', line', all, k, next', token', quoted')
    BY <1>1, <2>1, Zenon DEF Place
  <2>3. tokens' = SubSeq(fields', 1, k - 1) /\ k \in 1 .. Len(fields')
    BY <1>1, <1>3, <2>1
  <2>4. Scanning'
    BY <2>1, <2>2, <2>3 DEF Scanning
  <2> QED
    BY <1>1, <2>4 DEF SplitInv
<1> QED
  BY <1>3, <1>4, <1>5 DEF Place

\* The line ends behind its last field.
LEMMA EndKeepsSplit == SplitInv /\ SplitEnd => SplitInv'
<1> SUFFICES ASSUME SplitInv, SplitEnd PROVE SplitInv'
  OBVIOUS
<1>1. /\ fields \in Seq(Seq(Characters)) /\ fields # <<>> /\ line \in Seq(Characters)
      /\ fields' = fields /\ line' = line /\ token' = token /\ quoted' = quoted
      /\ next = Len(line) + 1 /\ next' = next + 1 /\ tokens' = Append(tokens, token)
      /\ Len(line) \in Nat
  BY DEF SplitInv, SplitEnd
<1>2. Scanning
  BY <1>1 DEF SplitInv, Scanned
<1>3. PICK all \in BOOLEAN, k \in 1 .. Len(fields) :
          /\ next \in Nat \ {0} /\ token \in Seq(Characters) /\ quoted \in BOOLEAN
          /\ tokens = SubSeq(fields, 1, k - 1)
          /\ Place(fields, line, all, k, next, token, quoted)
  BY <1>2 DEF Scanning
<1>4. ASSUME NEW rest \in Seq(Characters), At(line, next, rest) PROVE rest = <<>>
  <2>1. Len(rest) = 0
    <3>1. PICK n \in Nat : n = Len(rest)
      OBVIOUS
    <3>2. next + n = Len(line) + 1
      BY <1>4, <3>1 DEF At
    <3> QED
      BY <1>1, <3>1, <3>2
  <2> QED
    BY <2>1
<1>5. ASSUME NEW s \in Seq(Characters), NEW t \in Seq(Characters), At(line, next, s \o t)
      PROVE  s = <<>> /\ t = <<>>
  <2>1. s \o t \in Seq(Characters)
    BY ConcatProperties
  <2>2. s \o t = <<>>
    BY <1>4, <1>5, <2>1
  <2> QED
    BY <2>2, ConcatEqualIffEmpty
<1>6. PICK f \in Seq(Characters) : f = fields[k]
  BY <1>1
<1>7. PICK b \in Seq(Characters) : b = Behind(fields, all, k)
  BY <1>1, LineFromIs
<1>8. ASSUME NEW j \in 1 .. Len(f) + 1 PROVE Inner(f)[j] \in Seq(Characters) /\ Inner(f)[j] # <<>>
  <2>1. Inner(f)[j] \in Seq(Characters)
    BY InnerIs
  <2>2. CASE j = Len(f) + 1
    <3>1. Inner(f)[j] = <<"quote">>
      BY <2>2, InnerIs
    <3>2. <<"quote">> # <<>>
      OBVIOUS
    <3> QED
      BY <2>1, <3>1, <3>2, Zenon
  <2>3. CASE j # Len(f) + 1
    <3>1. j \in 1 .. Len(f) /\ j + 1 \in 1 .. Len(f) + 1
      BY <2>3
    <3>2. PICK c \in Characters : c = f[j]
      BY <3>1
    <3>3. PICK e \in Seq(Characters) : e = Escaped(c) /\ e # <<>>
      <4>1. Escaped(c) # <<>>
        BY DEF Escaped
      <4> QED
        BY <3>1, <3>2, <4>1, InnerIs
    <3>4. PICK u \in Seq(Characters) : u = Inner(f)[j + 1]
      BY <3>1, InnerIs
    <3>5. e \o u # <<>>
      BY <3>3, ConcatEqualIffEmpty
    <3>6. Inner(f)[j] = e \o u
      BY <3>1, <3>2, <3>3, <3>4, InnerIs, Zenon
    <3> QED
      BY <2>1, <3>5, <3>6
  <2> QED
    BY <2>2, <2>3
<1>9. ~ Inside(fields, line, all, k, next, token, quoted)
  <2> SUFFICES ASSUME NEW j \in 0 .. Len(f), At(line, next, Inner(f)[j + 1] \o b) PROVE FALSE
    BY <1>6, <1>7 DEF Inside
  <2>1. j + 1 \in 1 .. Len(f) + 1
    OBVIOUS
  <2>2. PICK u \in Seq(Characters) : u = Inner(f)[j + 1] /\ u # <<>>
    BY <1>8, <2>1
  <2> QED
    BY <1>5, <2>2
<1>10. ~ Opening(fields, line, all, k, next, token, quoted)
  <2> SUFFICES ASSUME IsQuoted(f, all), At(line, next, LineFrom(fields, all)[k]) PROVE FALSE
    BY <1>6 DEF Opening
  <2>1. PICK u \in Seq(Characters) : u = Inner(f)[1] /\ u # <<>>
    <3>1. 1 \in 1 .. Len(f) + 1
      OBVIOUS
    <3> QED
      BY <1>8, <3>1
  <2>2. PICK s \in Seq(Characters) : s = Text(f, all) /\ s # <<>>
    <3>1. PICK q \in Seq(Characters) : q = <<"quote">>
      BY OneCharacter, NamedCharacters
    <3>2. Text(f, all) = q \o u /\ Text(f, all) \in Seq(Characters)
      BY <2>1, <3>1, TextIs, Zenon
    <3>3. q \o u # <<>>
      BY <2>1, ConcatEqualIffEmpty
    <3> QED
      BY <3>2, <3>3
  <2>3. At(line, next, s \o b)
    BY <1>1, <1>6, <1>7, <2>2, LineFromIs
  <2> QED
    BY <1>5, <2>2, <2>3
<1>11. Outside(fields, line, all, k, next, token, quoted)
  BY <1>3, <1>9, <1>10 DEF Place
<1>12. PICK j \in 0 .. Len(f) :
           /\ At(line, next, SubSeq(f, j + 1, Len(f)) \o b)
           /\ token = SubSeq(f, 1, j)
  BY <1>6, <1>7, <1>11 DEF Outside
<1>13. SubSeq(f, j + 1, Len(f)) = <<>> /\ b = <<>>
  <2>1. \A i \in j + 1 .. Len(f) : f[i] \in Characters
    OBVIOUS
  <2>2. SubSeq(f, j + 1, Len(f)) \in Seq(Characters)
    BY <2>1, SubSeqProperties
  <2> QED
    BY <1>5, <1>12, <2>2
<1>14. j = Len(f)
  <2>1. \A i \in j + 1 .. Len(f) : f[i] \in Characters
    OBVIOUS
  <2>2. Len(SubSeq(f, j + 1, Len(f))) = IF j + 1 <= Len(f) THEN Len(f) - (j + 1) + 1 ELSE 0
    BY <2>1, SubSeqProperties
  <2>3. Len(SubSeq(f, j + 1, Len(f))) = 0
    <3>1. Len(<<>>) = 0
      BY EmptySeq
    <3> QED
      BY <1>13, <3>1, Zenon
  <2> QED
    BY <2>2, <2>3
<1>15. token = f
  BY <1>12, <1>14, SubSeqFull
<1>16. k = Len(fields)
  <2> SUFFICES ASSUME k # Len(fields) PROVE FALSE
    OBVIOUS
  <2>1. k + 1 \in 1 .. Len(fields)
    BY <1>1
  <2>2. PICK u \in Seq(Characters) : u = LineFrom(fields, all)[k + 1]
    BY <1>1, <2>1, LineFromIs
  <2>3. PICK comma \in Seq(Characters) : comma = <<"comma">> /\ comma # <<>>
    BY OneCharacter, NamedCharacters
  <2>4. b = comma \o u
    BY <1>7, <2>2, <2>3 DEF Behind
  <2>5. comma \o u # <<>>
    BY ONLY <2>2, <2>3, ConcatEqualIffEmpty
  <2> QED
    BY <1>13, <2>4, <2>5, Zenon
<1>17. tokens' = fields
  <2>1. Append(tokens, token) = SubSeq(fields, 1, k)
    BY <1>1, <1>3, <1>6, <1>15, OneMoreField
  <2> QED
    BY <1>1, <1>16, <2>1, SubSeqFull
<1>18. Scanned'
  BY <1>1, <1>3, <1>17 DEF Scanned
<1> QED
  BY <1>1, <1>18 DEF SplitInv

\* The invariant that the two theorems about a line rest on.
THEOREM SplitsInvariant == SplitSpec => []SplitInv
<1>1. ASSUME SplitInv, UNCHANGED splitVars PROVE SplitInv'
  BY <1>1 DEF splitVars, SplitInv, Scanning, Scanned
<1>2. SplitInv /\ [SplitNext]_splitVars => SplitInv'
  BY <1>1, CharacterKeepsSplit, EndKeepsSplit DEF SplitNext
<1> QED
  BY <1>2, InitSplits, PTL DEF SplitSpec

\* While a line is scanned the position is in it or right behind it.
LEMMA PositionInLine == SplitInv /\ Scanning => next \in 1 .. Len(line) + 1
<1> SUFFICES ASSUME SplitInv, Scanning PROVE next \in 1 .. Len(line) + 1
  OBVIOUS
<1>1. Len(line) \in Nat /\ fields \in Seq(Seq(Characters)) /\ fields # <<>>
  BY DEF SplitInv
<1>2. PICK all \in BOOLEAN, k \in 1 .. Len(fields) :
          next \in Nat \ {0} /\ Place(fields, line, all, k, next, token, quoted)
  BY DEF Scanning
<1>3. PICK f \in Seq(Characters) : f = fields[k]
  BY <1>1
<1>4. PICK b \in Seq(Characters) : b = Behind(fields, all, k)
  BY <1>1, LineFromIs
<1>5. \A rest \in Seq(Characters) : At(line, next, rest) => next <= Len(line) + 1
  <2> SUFFICES ASSUME NEW rest \in Seq(Characters), At(line, next, rest)
               PROVE  next <= Len(line) + 1
    OBVIOUS
  <2>1. PICK n \in Nat : n = Len(rest)
    OBVIOUS
  <2> QED
    BY <1>1, <1>2, <2>1 DEF At
<1>6. \E rest \in Seq(Characters) : At(line, next, rest)
  <2>1. CASE Opening(fields, line, all, k, next, token, quoted)
    BY <1>1, <2>1, LineFromIs DEF Opening
  <2>2. CASE Inside(fields, line, all, k, next, token, quoted)
    <3>1. PICK j \in 0 .. Len(f) : At(line, next, Inner(f)[j + 1] \o b)
      BY <1>3, <1>4, <2>2 DEF Inside
    <3>2. j + 1 \in 1 .. Len(f) + 1
      OBVIOUS
    <3>3. Inner(f)[j + 1] \o b \in Seq(Characters)
      BY <3>2, InnerIs, ConcatProperties
    <3> QED
      BY <3>1, <3>3
  <2>3. CASE Outside(fields, line, all, k, next, token, quoted)
    <3>1. PICK j \in 0 .. Len(f) : At(line, next, SubSeq(f, j + 1, Len(f)) \o b)
      BY <1>3, <1>4, <2>3 DEF Outside
    <3>2. \A i \in j + 1 .. Len(f) : f[i] \in Characters
      OBVIOUS
    <3>3. SubSeq(f, j + 1, Len(f)) \in Seq(Characters)
      BY <3>2, SubSeqProperties
    <3>4. SubSeq(f, j + 1, Len(f)) \o b \in Seq(Characters)
      BY <3>3, ConcatProperties
    <3> QED
      BY <3>1, <3>4
  <2> QED
    BY <1>2, <2>1, <2>2, <2>3 DEF Place
<1> QED
  BY <1>1, <1>2, <1>5, <1>6

\* The scan never reads behind the line, the next character of a doubled quote included
\* (the bound in CsvReader::split_csv_line).
THEOREM SplitTypeCorrect == SplitSpec => []SplitTypeOK
<1>1. ASSUME SplitInv PROVE SplitTypeOK
  <2>1. Len(line) \in Nat
    BY <1>1 DEF SplitInv
  <2> QED
    BY <1>1, <2>1, PositionInLine DEF SplitInv, Scanning, Scanned, SplitTypeOK
<1> QED
  BY <1>1, SplitsInvariant, PTL

\* Splitting a line gives back the fields a writer made it from, for every number of
\* fields, every text of a field, and whether or not the writer quotes all of them.
THEOREM SplitCorrect == SplitSpec => []SplitInvertsWriter
<1>1. ASSUME SplitInv, next = Len(line) + 2 PROVE tokens = fields
  <2>1. Len(line) \in Nat
    BY <1>1 DEF SplitInv
  <2> QED
    BY <1>1, <2>1, PositionInLine DEF SplitInv, Scanned
<1> QED
  BY <1>1, SplitsInvariant, PTL DEF SplitInvertsWriter

-----------------------------------------------------------------------------
(* Days: the two ways of counting them.                                     *)

\* The leap days of the years up to this one.
LeapDays(y) == (y \div 4) - (y \div 100) + (y \div 400)

LEMMA LeapDaysStep ==
    ASSUME NEW y \in Nat
    PROVE  /\ LeapDays(y) \in Int /\ LeapDays(y - 1) \in Int
           /\ LeapDays(y) = LeapDays(y - 1) + (IF Leap(y) THEN 1 ELSE 0)
<1>1. (y \div 4) = ((y - 1) \div 4) + (IF y % 4 = 0 THEN 1 ELSE 0)
  OBVIOUS
<1>2. (y \div 100) = ((y - 1) \div 100) + (IF y % 100 = 0 THEN 1 ELSE 0)
  OBVIOUS
<1>3. (y \div 400) = ((y - 1) \div 400) + (IF y % 400 = 0 THEN 1 ELSE 0)
  OBVIOUS
<1>4. (y % 400 = 0 => y % 100 = 0) /\ (y % 100 = 0 => y % 4 = 0)
  OBVIOUS
<1>5. \A p \in {4, 100, 400} : (y \div p) \in Int /\ ((y - 1) \div p) \in Int
  OBVIOUS
<1> QED
  BY <1>1, <1>2, <1>3, <1>4, <1>5 DEF LeapDays, Leap

LEMMA YearDaysAre ==
    ASSUME NEW y \in Int, y >= 1970
    PROVE  YearDays[y] = 365 * (y - 1970) + LeapDays(y - 1) - LeapDays(1969)
<1> DEFINE Step(f) ==
               [n \in Int |-> IF n <= 1970 THEN 0
                              ELSE f[n - 1] + (IF Leap(n - 1) THEN 366 ELSE 365)]
           Closed(n) == IF n <= 1970 THEN 0
                        ELSE 365 * (n - 1970) + LeapDays(n - 1) - LeapDays(1969)
           g == [n \in Int |-> Closed(n)]
<1>1. LeapDays(1969) = 477
  BY DEF LeapDays
<1>2. ASSUME NEW n \in Int, n > 1970
      PROVE  Closed(n) = Closed(n - 1) + (IF Leap(n - 1) THEN 366 ELSE 365)
  <2>1. LeapDays(n - 1) \in Int /\ LeapDays(n - 2) \in Int
        /\ LeapDays(n - 1) = LeapDays(n - 2) + (IF Leap(n - 1) THEN 1 ELSE 0)
    BY <1>2, LeapDaysStep
  <2>2. n - 1 = 1970 => LeapDays(n - 2) = 477
    BY <1>1
  <2> QED
    BY <1>1, <1>2, <2>1, <2>2
<1>3. g = Step(g)
  BY <1>2
<1>4. YearDays = CHOOSE f : f = Step(f)
  BY DEF YearDays
<1>5. YearDays = Step(YearDays)
  BY <1>3, <1>4
<1>6. \A n \in Int : YearDays[n] =
          IF n <= 1970 THEN 0 ELSE YearDays[n - 1] + (IF Leap(n - 1) THEN 366 ELSE 365)
  BY <1>5
<1> DEFINE T == {n \in Nat : n >= 1970 /\ YearDays[n] # Closed(n)}
<1>7. T = {}
  <2> SUFFICES ASSUME T # {} PROVE FALSE
    OBVIOUS
  <2>1. PICK x \in T : \A n \in T : x <= n
    <3>1. T \subseteq Nat /\ T # {}
      OBVIOUS
    <3> HIDE DEF T
    <3> QED
      BY ONLY <3>1, LeastNumber, Zenon
  <2>2. x # 1970 /\ x \in Nat /\ x > 1970
    BY <1>6, <2>1
  <2>3. YearDays[x - 1] = Closed(x - 1)
    BY <2>1, <2>2
  <2>4. YearDays[x] = YearDays[x - 1] + (IF Leap(x - 1) THEN 366 ELSE 365)
    BY <1>6, <2>2
  <2> HIDE DEF Closed
  <2> QED
    BY <1>2, <2>1, <2>2, <2>3, <2>4
<1>8. YearDays[y] = Closed(y)
  BY <1>7
<1>9. y = 1970 => LeapDays(y - 1) = LeapDays(1969)
  OBVIOUS
<1> QED
  BY <1>1, <1>8, <1>9

LEMMA MonthDaysAre ==
    ASSUME NEW y \in Int, NEW m \in 1 .. 12
    PROVE  MonthDays(y)[m] =
               <<0, 31, 59, 90, 120, 151, 181, 212, 243, 273, 304, 334>>[m]
               + (IF m > 2 /\ Leap(y) THEN 1 ELSE 0)
<1> DEFINE Step(f) ==
               [n \in 0 .. 13 |-> IF n <= 1 THEN 0 ELSE f[n - 1] + DaysInMonth(y, n - 1)]
           Closed(n) ==
               (IF n <= 1 THEN 0
                ELSE <<31, 59, 90, 120, 151, 181, 212, 243, 273, 304, 334, 365>>[n - 1])
               + (IF n > 2 /\ Leap(y) THEN 1 ELSE 0)
           g == [n \in 0 .. 13 |-> Closed(n)]
           f == MonthDays(y)
<1>1. \A n \in 2 .. 13 : Closed(n) = Closed(n - 1) + DaysInMonth(y, n - 1)
  BY SMTT(30) DEF DaysInMonth
<1>2. Closed(0) = 0 /\ Closed(1) = 0
  OBVIOUS
<1> HIDE DEF Closed
<1>3. g = Step(g)
  BY <1>1, <1>2
<1>4. f = CHOOSE h : h = Step(h)
  BY DEF MonthDays
<1>5. f = Step(f)
  BY <1>3, <1>4
<1>6. \A n \in 0 .. 13 : f[n] = IF n <= 1 THEN 0 ELSE f[n - 1] + DaysInMonth(y, n - 1)
  BY <1>5
<1> HIDE DEF f
<1>7. f[1] = Closed(1)
  BY <1>2, <1>6
<1>8. \A n \in 2 .. 12 : f[n - 1] = Closed(n - 1) => f[n] = Closed(n)
  BY <1>1, <1>6
<1>9. f[2] = Closed(2) /\ f[3] = Closed(3) /\ f[4] = Closed(4)
  BY <1>7, <1>8
<1>10. f[5] = Closed(5) /\ f[6] = Closed(6) /\ f[7] = Closed(7) /\ f[8] = Closed(8)
  BY <1>8, <1>9
<1>11. f[9] = Closed(9) /\ f[10] = Closed(10) /\ f[11] = Closed(11) /\ f[12] = Closed(12)
  BY <1>8, <1>10
<1>12. f[m] = Closed(m)
  BY <1>7, <1>9, <1>10, <1>11
<1>13. Closed(m) = <<0, 31, 59, 90, 120, 151, 181, 212, 243, 273, 304, 334>>[m]
                   + (IF m > 2 /\ Leap(y) THEN 1 ELSE 0)
  BY SMTT(30) DEF Closed
<1> QED
  BY <1>12, <1>13 DEF f

\* From 1970 on, the C++ node counts the days that the calendar of Python counts.
LEMMA DaysAgree ==
    ASSUME NEW y \in Int, y >= 1970, NEW m \in 1 .. 12, NEW d \in Int
    PROVE  CppDays(y, m, d) = PyOrdinal(y, m, d) - PyOrdinal(1970, 1, 1)
<1> DEFINE before == <<0, 31, 59, 90, 120, 151, 181, 212, 243, 273, 304, 334>>
           leap == IF m > 2 /\ Leap(y) THEN 1 ELSE 0
<1>1. before[m] \in Int /\ leap \in Int
  OBVIOUS
<1>2. PyOrdinal(1970, 1, 1) = 365 * 1969 + LeapDays(1969) + 1
  BY DEF PyOrdinal, LeapDays, Leap
<1>3. PyOrdinal(y, m, d) = 365 * (y - 1) + LeapDays(y - 1) + before[m] + leap + d
  <2>1. ((y - 1) \div 4) \in Int /\ ((y - 1) \div 100) \in Int /\ ((y - 1) \div 400) \in Int
    OBVIOUS
  <2> HIDE DEF before, leap
  <2>2. PyOrdinal(y, m, d) = 365 * (y - 1) + ((y - 1) \div 4) - ((y - 1) \div 100) + ((y - 1) \div 400)
                             + before[m] + leap + d
    BY <1>1, <2>1 DEF PyOrdinal, before, leap
  <2> QED
    BY <1>1, <2>1, <2>2 DEF LeapDays
<1>4. CppDays(y, m, d) = 365 * (y - 1970) + LeapDays(y - 1) - LeapDays(1969) + (before[m] + leap) + d - 1
  BY YearDaysAre, MonthDaysAre DEF CppDays
<1>5. LeapDays(1969) = 477 /\ LeapDays(y - 1) \in Int
  BY LeapDaysStep DEF LeapDays
<1> HIDE DEF before, leap
<1> QED
  BY <1>1, <1>2, <1>3, <1>4, <1>5

-----------------------------------------------------------------------------
(* Rows: what both nodes make of one.                                       *)

DateOK(t) ==
    /\ t.form \in DateForms /\ t.padded \in BOOLEAN /\ t.half \in {"AM", "PM", "none"}
    /\ t.year \in Int /\ t.day \in Int /\ t.hour \in Int /\ t.minute \in Int /\ t.second \in Int
    /\ t.month \in 0 .. 13
NumberOK(t) == t.form \in Forms /\ t.value \in Int

LEMMA RowOK ==
    ASSUME NEW row \in Rows
    PROVE  /\ DateOK(row.pickup) /\ DateOK(row.dropoff) /\ row.columns \in Nat
           /\ NumberOK(row.passengers) /\ NumberOK(row.location)
           /\ NumberOK(row.distance) /\ NumberOK(row.total)
  BY RowsAssumption DEF DateOK, NumberOK

LEMMA Int16MaxIsNat == Int16Max \in Nat
  BY DEF Int16Max

LEMMA TowardsZeroIsInt == \A n \in Int : TowardsZero(n) \in Int
  BY DEF TowardsZero

\* A date of the calendar in a format of the 12-hour clock is the same second on both.
LEMMA TimesAgree ==
    ASSUME NEW t, DateOK(t), Alike(t)
    PROVE  CppTimestamp(t) = PyTimestamp(t)
<1>1. CASE t.form = "empty"
  BY <1>1 DEF CppTimestamp, PyTimestamp, PyParses
<1>2. CASE t.form # "empty"
  <2>1. /\ t.form \in {"name", "slash"} /\ ~ t.padded /\ PyParses(t)
        /\ t.year >= 1970 /\ t.month \in 1 .. 12 /\ t.hour \in 1 .. 12 /\ t.half \in {"AM", "PM"}
    <3>1. ~ t.padded /\ PyParses(t) /\ t.year >= 1970 /\ t.form # "iso"
      BY <1>2 DEF Alike, Listed
    <3>2. t.month \in 1 .. 12 /\ t.hour \in 1 .. 12 /\ t.half # "none"
      BY <3>1 DEF PyParses
    <3> QED
      BY <1>2, <3>1, <3>2 DEF DateOK, DateForms
  <2>2. CppParses(t)
    BY <2>1 DEF CppParses, CppFormat
  <2>3. CppHour(t) = (t.hour % 12) + (IF t.half = "PM" THEN 12 ELSE 0)
    BY <2>1 DEF CppHour
  <2>4. CppDays(t.year, t.month, t.day) = PyOrdinal(t.year, t.month, t.day) - PyOrdinal(1970, 1, 1)
    BY <2>1, DaysAgree DEF DateOK
  <2>5. PyTimestamp(t) = Seconds(PyOrdinal(t.year, t.month, t.day) - PyOrdinal(1970, 1, 1),
                                 (t.hour % 12) + (IF t.half = "PM" THEN 12 ELSE 0),
                                 t.minute, t.second)
    BY <2>1 DEF PyTimestamp
  <2>6. CppTimestamp(t) = Seconds(CppDays(t.year, t.month, t.day), CppHour(t), t.minute, t.second)
    BY <1>2, <2>2 DEF CppTimestamp
  <2> QED
    BY <2>3, <2>4, <2>5, <2>6
<1> QED
  BY <1>1, <1>2

\* A row that is not odd: the same record or none, and no exception.
LEMMA RowsMadeAlike ==
    ASSUME NEW row \in Rows, ~ Odd(row)
    PROVE  CppRow(row) = PyRow(row) /\ ~ PyRowRaises(row)
<1>1. CppTimestamp(row.pickup) = PyTimestamp(row.pickup)
      /\ CppTimestamp(row.dropoff) = PyTimestamp(row.dropoff)
  BY RowOK, TimesAgree DEF Odd
<1>2. Ordinary(row)
  BY DEF Odd
<1>3. /\ row.passengers.form \in {"blank", "plain"} /\ TowardsZero(row.passengers.value) \in 0 .. 255
      /\ row.location.form \in {"blank", "plain"} /\ TowardsZero(row.location.value) \in 0 .. Int16Max
  <2>1. TowardsZero(row.passengers.value) \in Int /\ TowardsZero(row.location.value) \in Int
    BY RowOK, TowardsZeroIsInt DEF NumberOK
  <2>2. /\ row.passengers.form \in {"blank", "plain"} /\ TowardsZero(row.passengers.value) >= 0
        /\ TowardsZero(row.passengers.value) <= 255
        /\ row.location.form \in {"blank", "plain"} /\ TowardsZero(row.location.value) >= 0
        /\ TowardsZero(row.location.value) <= Int16Max
    BY <1>2, Zenon DEF Ordinary
  <2> QED
    BY ONLY <2>1, <2>2, Int16MaxIsNat
<1>4. /\ row.distance.form \in {"blank", "plain", "huge", "fraction"} /\ row.distance.value \in Nat
      /\ row.total.form \in {"blank", "plain", "huge", "fraction"} /\ row.total.value \in Nat
  BY <1>2, RowOK DEF Ordinary, NumberOK
<1>5. CppUint8(row.passengers) = PyInt(row.passengers) /\ CppInt16(row.location) = PyInt(row.location)
  <2>1. ASSUME NEW t, t.form \in {"blank", "plain"}
        PROVE  CppInt(t) = PyInt(t) /\ (PyInt(t) = 0 \/ PyInt(t) = TowardsZero(t.value))
    BY <2>1 DEF CppInt, PyInt
  <2>2. /\ CppInt(row.passengers) = PyInt(row.passengers) /\ PyInt(row.passengers) \in 0 .. 255
        /\ CppInt(row.location) = PyInt(row.location) /\ PyInt(row.location) \in 0 .. Int16Max
    BY <1>3, <2>1, Int16MaxIsNat
  <2> QED
    BY <2>2, Int16MaxIsNat DEF CppUint8, CppInt16, Clamp
<1>6. /\ CppDouble(row.distance) = PyFloat(row.distance) /\ CppDouble(row.distance) \in Nat
      /\ CppDouble(row.total) = PyFloat(row.total) /\ CppDouble(row.total) \in Nat
  BY <1>4 DEF CppDouble, PyFloat
<1>7. row.columns \in 17 .. 19
  BY <1>2 DEF Ordinary
<1>8. ~ PyRowRaises(row)
  BY <1>3, <1>4, <1>7 DEF PyRowRaises, PyRaises
<1> DEFINE record == [ pickup |-> PyTimestamp(row.pickup), dropoff |-> PyTimestamp(row.dropoff),
                       passengers |-> PyInt(row.passengers), location |-> PyInt(row.location),
                       distance |-> PyFloat(row.distance), total |-> PyFloat(row.total) ]
<1>9. IsValid(record) <=> PyTimes(row)
  BY <1>6 DEF IsValid, PyTimes
<1>10. CppRow(row) = IF row.columns \in 17 .. 19 /\ IsValid(record) THEN <<record>> ELSE <<>>
  BY <1>1, <1>5, <1>6 DEF CppRow
<1>11. PyRow(row) = IF PyTimes(row) THEN <<record>> ELSE <<>>
  BY DEF PyRow
<1> QED
  BY <1>7, <1>8, <1>9, <1>10, <1>11

-----------------------------------------------------------------------------
(* The two readers: each has joined what it made of the rows before its own. *)

CppMade == [i \in DOMAIN rows |-> CppRow(rows[i])]
PyMade == [i \in DOMAIN rows |-> PyRow(rows[i])]

\* f says what has been joined after each of the first k rows.
Joined(f, made, k) == f[0] = <<>> /\ \A i \in 1 .. k : f[i] = f[i - 1] \o made[i]

CppRecord == {r \in {CppRow(row)[1] : row \in Rows} :
                 r.passengers \in 0 .. 255 /\ r.location \in - Int16Max - 1 .. Int16Max}

ReadInv ==
    /\ rows \in Seq(Rows)
    /\ cppAt \in 1 .. Len(rows) + 1 /\ pyAt \in 1 .. Len(rows) + 1
    /\ cppRecords \in Seq(CppRecord)
    /\ \E f : Joined(f, CppMade, cppAt - 1) /\ cppRecords = f[cppAt - 1]
    /\ \E f : Joined(f, PyMade, pyAt - 1) /\ pyRecords = f[pyAt - 1]
    /\ pyFailed => pyAt <= Len(rows) /\ PyRowRaises(rows[pyAt])

LEMMA JoinedOnce ==
    ASSUME NEW made, NEW k \in Nat, NEW f, NEW g, Joined(f, made, k), Joined(g, made, k)
    PROVE  f[k] = g[k]
<1> DEFINE T == {n \in 0 .. k : f[n] # g[n]}
<1> SUFFICES ASSUME T # {} PROVE FALSE
  OBVIOUS
<1>1. PICK x \in T : \A n \in T : x <= n
  <2>1. T \subseteq Nat /\ T # {}
    OBVIOUS
  <2> HIDE DEF T
  <2> QED
    BY <2>1, LeastNumber, Zenon
<1>2. x # 0
  BY <1>1 DEF Joined
<1>3. x \in 1 .. k /\ x - 1 \in 0 .. k /\ f[x - 1] = g[x - 1]
  BY <1>1, <1>2
<1> QED
  BY <1>1, <1>3 DEF Joined

LEMMA JoinedFurther ==
    ASSUME NEW made, NEW k \in Nat, NEW f, Joined(f, made, k)
    PROVE  \E g : Joined(g, made, k + 1) /\ g[k + 1] = f[k] \o made[k + 1]
<1> DEFINE g == [i \in 0 .. k + 1 |-> IF i = k + 1 THEN f[k] \o made[k + 1] ELSE f[i]]
<1>1. g[0] = <<>> /\ g[k + 1] = f[k] \o made[k + 1]
  BY DEF Joined
<1>2. ASSUME NEW i \in 1 .. k + 1 PROVE g[i] = g[i - 1] \o made[i]
  <2>1. i - 1 \in 0 .. k + 1 /\ i - 1 # k + 1 /\ g[i - 1] = f[i - 1]
    OBVIOUS
  <2>2. CASE i = k + 1
    BY <2>1, <2>2
  <2>3. CASE i # k + 1
    <3>1. i \in 1 .. k /\ g[i] = f[i]
      BY <2>3
    <3> QED
      BY <2>1, <3>1 DEF Joined
  <2> QED
    BY <2>2, <2>3
<1>3. Joined(g, made, k + 1)
  BY <1>1, <1>2 DEF Joined
<1> QED
  BY <1>1, <1>3

LEMMA CppRowType == ASSUME NEW row \in Rows PROVE CppRow(row) \in Seq(CppRecord)
<1>1. CppInt(row.passengers) \in Int /\ CppInt(row.location) \in Int
  BY RowOK, TowardsZeroIsInt DEF CppInt, NumberOK
<1>2. CppUint8(row.passengers) \in 0 .. 255 /\ CppInt16(row.location) \in - Int16Max - 1 .. Int16Max
  <2>1. \A n \in Int : /\ Clamp(n, 0, 255) \in 0 .. 255
                       /\ Clamp(n, - Int16Max - 1, Int16Max) \in - Int16Max - 1 .. Int16Max
    BY Int16MaxIsNat DEF Clamp
  <2> QED
    BY <1>1, <2>1, Int16MaxIsNat DEF CppUint8, CppInt16
<1> DEFINE record == [ pickup |-> CppTimestamp(row.pickup), dropoff |-> CppTimestamp(row.dropoff),
                       passengers |-> CppUint8(row.passengers), location |-> CppInt16(row.location),
                       distance |-> CppDouble(row.distance), total |-> CppDouble(row.total) ]
<1>3. CppRow(row) = <<>> \/ CppRow(row) = <<record>>
  BY DEF CppRow
<1>4. record.passengers \in 0 .. 255 /\ record.location \in - Int16Max - 1 .. Int16Max
  BY <1>2
<1> HIDE DEF record
<1>5. CASE CppRow(row) = <<record>>
  <2>1. CppRow(row)[1] = record
    BY <1>5
  <2>2. record \in CppRecord
    BY <1>4, <2>1 DEF CppRecord
  <2> QED
    BY <1>5, <2>2
<1>6. CASE CppRow(row) = <<>>
  BY <1>6
<1> QED
  BY <1>3, <1>5, <1>6

LEMMA InitReads == RowInit => ReadInv
<1> SUFFICES ASSUME RowInit PROVE ReadInv
  OBVIOUS
<1>1. PICK n \in 1 .. RowCount : rows \in [1 .. n -> Rows]
  BY DEF RowInit
<1>2. n \in Nat
  BY RowsAssumption
<1>3. rows \in Seq(Rows) /\ Len(rows) = n
  BY <1>1, <1>2
<1>4. \A made : Joined([i \in 0 .. 0 |-> <<>>], made, 0)
  BY DEF Joined
<1>5. cppAt - 1 = 0 /\ pyAt - 1 = 0 /\ [i \in 0 .. 0 |-> <<>>][0] = <<>>
  BY DEF RowInit
<1>6. \E f : Joined(f, CppMade, cppAt - 1) /\ cppRecords = f[cppAt - 1]
  BY <1>4, <1>5, Zenon DEF RowInit
<1>7. \E f : Joined(f, PyMade, pyAt - 1) /\ pyRecords = f[pyAt - 1]
  BY <1>4, <1>5, Zenon DEF RowInit
<1> QED
  BY <1>2, <1>3, <1>6, <1>7 DEF RowInit, ReadInv

LEMMA CppReadKeeps == ReadInv /\ CppReadRow => ReadInv'
<1> SUFFICES ASSUME ReadInv, CppReadRow PROVE ReadInv'
  OBVIOUS
<1>1. /\ cppAt \in Nat /\ cppAt \in DOMAIN rows /\ Len(rows) \in Nat /\ rows[cppAt] \in Rows
      /\ cppAt' = cppAt + 1
  BY DEF ReadInv, CppReadRow
<1>2. CppMade' = CppMade /\ PyMade' = PyMade
  BY DEF CppReadRow, CppMade, PyMade
<1>3. cppRecords' = cppRecords \o CppMade[cppAt] /\ CppMade[cppAt] \in Seq(CppRecord)
  BY <1>1, CppRowType DEF CppReadRow, CppMade
<1>4. cppRecords' \in Seq(CppRecord)
  BY <1>3 DEF ReadInv
<1>5. PICK f : Joined(f, CppMade, cppAt - 1) /\ cppRecords = f[cppAt - 1]
  BY DEF ReadInv
<1>6. PICK g : Joined(g, CppMade, cppAt) /\ g[cppAt] = f[cppAt - 1] \o CppMade[cppAt]
  <2>1. cppAt - 1 \in Nat /\ (cppAt - 1) + 1 = cppAt
    BY <1>1
  <2> QED
    BY <1>5, <2>1, JoinedFurther
<1>7. Joined(g, CppMade', cppAt' - 1) /\ cppRecords' = g[cppAt' - 1]
  <2>1. cppAt' - 1 = cppAt
    BY <1>1
  <2> QED
    BY <1>2, <1>3, <1>5, <1>6, <2>1
<1>8. \E h : Joined(h, PyMade', pyAt' - 1) /\ pyRecords' = h[pyAt' - 1]
  BY <1>2 DEF ReadInv, CppReadRow
<1>9. /\ rows' \in Seq(Rows) /\ cppAt' \in 1 .. Len(rows') + 1 /\ pyAt' \in 1 .. Len(rows') + 1
      /\ pyFailed' => pyAt' <= Len(rows') /\ PyRowRaises(rows'[pyAt'])
  BY <1>1 DEF ReadInv, CppReadRow
<1> QED
  BY <1>4, <1>7, <1>8, <1>9 DEF ReadInv

LEMMA PyReadKeeps == ReadInv /\ PyReadRow => ReadInv'
<1> SUFFICES ASSUME ReadInv, PyReadRow PROVE ReadInv'
  OBVIOUS
<1>1. /\ pyAt \in Nat /\ pyAt \in DOMAIN rows /\ Len(rows) \in Nat /\ rows' = rows
      /\ cppAt' = cppAt /\ cppRecords' = cppRecords
  BY DEF ReadInv, PyReadRow
<1>2. CppMade' = CppMade /\ PyMade' = PyMade
  BY <1>1 DEF CppMade, PyMade
<1>3. \E f : Joined(f, PyMade, pyAt' - 1) /\ pyRecords' = f[pyAt' - 1]
  <2>1. PICK f : Joined(f, PyMade, pyAt - 1) /\ pyRecords = f[pyAt - 1]
    BY DEF ReadInv
  <2>2. CASE PyRowRaises(rows[pyAt])
    BY <2>1, <2>2 DEF PyReadRow
  <2>3. CASE ~ PyRowRaises(rows[pyAt])
    <3>1. pyRecords' = pyRecords \o PyMade[pyAt] /\ pyAt' = pyAt + 1 /\ pyAt' - 1 = pyAt
      BY <1>1, <2>3 DEF PyReadRow, PyMade
    <3>2. PICK g : Joined(g, PyMade, pyAt) /\ g[pyAt] = f[pyAt - 1] \o PyMade[pyAt]
      <4>1. pyAt - 1 \in Nat /\ (pyAt - 1) + 1 = pyAt
        BY <1>1
      <4> QED
        BY <2>1, <4>1, JoinedFurther
    <3> QED
      BY <2>1, <3>1, <3>2
  <2> QED
    BY <2>2, <2>3
<1>4. pyAt' \in 1 .. Len(rows) + 1 /\ (pyFailed' => pyAt' <= Len(rows) /\ PyRowRaises(rows[pyAt']))
  BY <1>1 DEF ReadInv, PyReadRow
<1>5. \E f : Joined(f, CppMade', cppAt' - 1) /\ cppRecords' = f[cppAt' - 1]
  BY <1>1, <1>2 DEF ReadInv
<1>6. \E f : Joined(f, PyMade', pyAt' - 1) /\ pyRecords' = f[pyAt' - 1]
  BY <1>2, <1>3
<1> QED
  BY <1>1, <1>4, <1>5, <1>6 DEF ReadInv

LEMMA StutterKeepsReads == ReadInv /\ UNCHANGED rowVars => ReadInv'
<1> SUFFICES ASSUME ReadInv, UNCHANGED rowVars PROVE ReadInv'
  OBVIOUS
<1>1. CppMade' = CppMade /\ PyMade' = PyMade
  BY DEF rowVars, CppMade, PyMade
<1> QED
  BY <1>1 DEF rowVars, ReadInv

\* The invariant that the two theorems about the rows rest on.
THEOREM ReadsInvariant == RowSpec => []ReadInv
<1>1. ReadInv /\ [RowNext]_rowVars => ReadInv'
  BY CppReadKeeps, PyReadKeeps, StutterKeepsReads DEF RowNext
<1> QED
  BY <1>1, InitReads, PTL DEF RowSpec

\* A C++ node never keeps a count or a location that its 8 or 16 bits do not hold
\* (parse_uint8 and parse_int16 of CsvReader::parse_line).
THEOREM RowTypeCorrect == RowSpec => []RowTypeOK
<1>1. ReadInv => RowTypeOK
  BY DEF ReadInv, RowTypeOK, CppRecord
<1> QED
  BY <1>1, ReadsInvariant, PTL

\* Of every partition without an odd row, the two kinds of node load the same records,
\* in the same order; a Python node that does not start has met an odd one.
THEOREM ReadCorrect == RowSpec => []ReadAlike
<1>1. ASSUME ReadInv, pyFailed PROVE Odd(rows[pyAt])
  <2>1. rows[pyAt] \in Rows /\ PyRowRaises(rows[pyAt])
    BY <1>1 DEF ReadInv
  <2> QED
    BY <2>1, RowsMadeAlike
<1>2. ASSUME ReadInv, CppRead, PyRead, \A i \in DOMAIN rows : ~ Odd(rows[i])
      PROVE  cppRecords = pyRecords
  <2>1. Len(rows) \in Nat /\ cppAt - 1 = Len(rows) /\ pyAt - 1 = Len(rows)
    BY <1>2 DEF ReadInv, CppRead, PyRead
  <2>2. \A i \in DOMAIN rows : rows[i] \in Rows
    BY <1>2 DEF ReadInv
  <2>3. CppMade = PyMade
    BY <1>2, <2>2, RowsMadeAlike DEF CppMade, PyMade
  <2>4. PICK f : Joined(f, CppMade, Len(rows)) /\ cppRecords = f[Len(rows)]
    BY <1>2, <2>1 DEF ReadInv
  <2>5. PICK g : Joined(g, CppMade, Len(rows)) /\ pyRecords = g[Len(rows)]
    BY <1>2, <2>1, <2>3 DEF ReadInv
  <2> QED
    BY <2>1, <2>4, <2>5, JoinedOnce
<1>3. ReadInv => ReadAlike
  BY <1>1, <1>2 DEF ReadAlike
<1> QED
  BY <1>3, ReadsInvariant, PTL
================================================================================
