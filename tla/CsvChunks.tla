------------------------------ MODULE CsvChunks ------------------------------
(***************************************************************************)
(* Loading a CSV file (CsvReader in cpp/src/CsvReader.cpp): by one reader   *)
(* from start to end (read_next, the loop of load_records in                *)
(* cpp/server/node_server.cpp), and by one thread per byte range            *)
(* (load_chunk).                                                            *)
(*                                                                          *)
(* A file is the offsets at which its lines start, the header first, and    *)
(* what parse_line makes of each: "good", "bad", or "blank" (not tried).    *)
(***************************************************************************)
EXTENDS Integers, Sequences

CONSTANTS
    Workers,    \* the threads of the loader, in the order of their ranges
    Files,      \* [start, kind], see IsFile
    Ranges      \* [lo, hi]: the first and the last byte of each thread's range

IsFile(f) ==
    /\ f.start \in Seq(Nat) /\ f.start # <<>> /\ f.start[1] = 0
    /\ \A i, j \in DOMAIN f.start : i < j => f.start[i] < f.start[j]
    /\ f.kind \in [DOMAIN f.start -> {"good", "bad", "blank"}]

ASSUME WorkersAssumption == Workers \subseteq Nat
ASSUME FilesAssumption == \A f \in Files : IsFile(f)
ASSUME RangesAssumption ==
    \A r \in Ranges : r.lo \in [Workers -> Nat] /\ r.hi \in [Workers -> Nat]

VARIABLES
    file, range,    \* the file and how it is divided
    at,             \* the line each thread reads next, 0 before it has a position
    records,         \* the lines whose records each thread returns
    discarded,      \* stats_.rows_discarded of each thread
    reader          \* the sequential reader: its next line, records and statistics

csvVars == <<file, range, at, records, discarded, reader>>

LastLine == Len(file.start)
LineNumbers == 1 .. LastLine
DataLines == 2 .. LastLine        \* all but the header

CsvInit ==
    /\ file \in Files
    /\ range \in Ranges
    /\ at = [w \in Workers |-> 0]
    /\ records = [w \in Workers |-> <<>>]
    /\ discarded = [w \in Workers |-> 0]
    /\ reader = [at |-> 2, records |-> <<>>, discarded |-> 0]

\* Mutant: the rest of the line is read rather than discarded.
LineAfter_Kept(byte) ==
    CHOOSE i \in 1 .. LastLine + 1 :
        /\ i <= LastLine => file.start[i] >= byte
        /\ \A j \in 1 .. i - 1 : file.start[j] < byte

\* Where the stream is once everything up to the next newline after this byte is
\* read: the first line that starts behind it, or the end of the file.
LineAfter(byte) ==
    CHOOSE i \in 1 .. LastLine + 1 :
        /\ i <= LastLine => file.start[i] > byte
        /\ \A j \in 1 .. i - 1 : file.start[j] <= byte

\* A range that starts in the file discards the line it starts in; the one that
\* starts at 0 skips the header.
Seek(w) ==
    /\ at[w] = 0
    /\ at' = [at EXCEPT ![w] = IF range.lo[w] > 0 THEN LineAfter(range.lo[w]) ELSE 2]
    /\ UNCHANGED <<file, range, records, discarded, reader>>

\* Mutant: a line has to end in the range.
InRange_WholeLine(w) ==
    at[w] <= LastLine /\ (at[w] < LastLine => file.start[at[w] + 1] <= range.hi[w])

\* The position before the line is within the range.
InRange(w) == at[w] <= LastLine /\ file.start[at[w]] <= range.hi[w]

ReadLine(w) ==
    /\ at[w] > 0
    /\ InRange(w)
    /\ at' = [at EXCEPT ![w] = @ + 1]
    /\ IF file.kind[at[w]] = "good"
       THEN records' = [records EXCEPT ![w] = Append(@, at[w])] /\ UNCHANGED discarded
       ELSE discarded' = [discarded EXCEPT ![w] = @ + 1] /\ UNCHANGED records
    /\ UNCHANGED <<file, range, reader>>

\* read_next: on to the next line that parses, or to the end of the file.
NextGood(i) ==
    CHOOSE j \in i .. LastLine + 1 :
        /\ j <= LastLine => file.kind[j] = "good"
        /\ \A k \in i .. j - 1 : file.kind[k] # "good"

ReadNext ==
    LET found == NextGood(reader.at)
    IN  /\ reader.at <= LastLine
        /\ reader' = [ at |-> found + 1,
                       records |-> IF found <= LastLine
                                  THEN Append(reader.records, found) ELSE reader.records,
                       discarded |-> reader.discarded + (found - reader.at) ]
        /\ UNCHANGED <<file, range, at, records, discarded>>

CsvNext == ReadNext \/ \E w \in Workers : Seek(w) \/ ReadLine(w)

CsvSpec == CsvInit /\ [][CsvNext]_csvVars

-----------------------------------------------------------------------------

\* The threads stay within the file and its records.
CsvTypeOK ==
    /\ at \in [Workers -> 0 .. LastLine + 1]
    /\ records \in [Workers -> Seq(DataLines)]
    /\ discarded \in [Workers -> Nat]
    /\ reader.at \in 2 .. LastLine + 2
    /\ reader.records \in Seq(DataLines)
    /\ reader.discarded \in Nat

\* No byte but the one they meet at is in two ranges.
Apart == \A v, w \in Workers : v < w => range.hi[v] <= range.lo[w]

\* Each range ends at the byte where the next one starts: every line starts
\* behind the first byte of a range and in it.
Meeting ==
    Apart /\ \A i \in DataLines :
                \E w \in Workers : range.lo[w] < file.start[i] /\ file.start[i] <= range.hi[w]

Stopped(w) == at[w] > 0 /\ ~ InRange(w)
Finished == reader.at > LastLine /\ \A w \in Workers : Stopped(w)

RecordsOf(w) == {records[w][i] : i \in DOMAIN records[w]}
LoadedLines == UNION {RecordsOf(w) : w \in Workers}
ReaderLoaded == {reader.records[i] : i \in DOMAIN reader.records}

\* No record is loaded by two threads (the comments at CsvReader.cpp:332 and 354
\* call it ownership), wherever the file is cut and however the threads interleave.
NoLineTwice ==
    Apart => \A v, w \in Workers : v # w => RecordsOf(v) \cap RecordsOf(w) = {}

\* The threads of ranges that meet load together what the sequential reader loads.
SameAsSequential == Finished /\ Meeting => LoadedLines = ReaderLoaded
=============================================================================
