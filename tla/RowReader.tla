------------------------------ MODULE RowReader ------------------------------
(***************************************************************************)
(* What the two kinds of node make of the same partition file: the C++ node *)
(* (CsvReader::split_csv_line, parse_line and parse_timestamp) and the      *)
(* Python node (load_records in python/server/node.py).                     *)
(*                                                                          *)
(* A number is [form, value], its value in tenths; a form is how it is      *)
(* written.  A date is [form, padded, year, ..., half].  A row has one field *)
(* of each kind that the parsers tell apart, and its number of columns.     *)
(***************************************************************************)
EXTENDS Integers, Sequences, Functions

CONSTANTS
    Rows,       \* the rows a partition is made of
    RowCount,   \* bound: the rows of a partition
    Fields,     \* the fields of a line that is split: sequences over Characters
    FieldCount  \* bound: the fields of a line that is split

Characters == {"quote", "comma", "x"}
\* "huge" is a whole number that 32 bits do not hold; its value stands for it.
Forms == {"blank", "plain", "huge", "grouped", "fraction", "word"}
DateForms == {"name", "slash", "iso", "empty"}

ASSUME FieldsAssumption == Fields \subseteq Seq(Characters) /\ FieldCount \in Nat
ASSUME RowsAssumption ==
    RowCount \in Nat /\ \A r \in Rows :
        /\ r.columns \in Nat
        /\ \A f \in {r.passengers, r.location, r.distance, r.total} : f.form \in Forms /\ f.value \in Int
        /\ \A d \in {r.pickup, r.dropoff} :
               /\ d.form \in DateForms /\ d.padded \in BOOLEAN /\ d.half \in {"AM", "PM", "none"}
               /\ {d.year, d.day, d.hour, d.minute, d.second} \subseteq Int
               /\ d.month \in 0 .. 13     \* the C++ node reads behind its table above 13

VARIABLES
    fields, line, next, token, tokens, quoted,  \* split_csv_line at work on a line
    rows,               \* the partition
    cppAt, cppRecords,  \* the row the C++ node reads next, and its records
    pyAt, pyRecords,    \* the same of the Python node, "failed" when it does not start
    pyFailed

splitVars == <<fields, line, next, token, tokens, quoted>>
rowVars == <<rows, cppAt, cppRecords, pyAt, pyRecords, pyFailed>>

-----------------------------------------------------------------------------
(* The line: what a CSV writer makes of the fields, and split_csv_line.     *)

\* What pieces make, one behind the other with an end behind them, from each of them on.
Remainder(pieces, end) ==
    LET From[i \in 1 .. Len(pieces) + 1] ==
            IF i = Len(pieces) + 1 THEN end ELSE pieces[i] \o From[i + 1]
    IN  From

\* csv.writer: a quoted field has its quotes doubled; a field with a quote or a comma
\* is quoted, another one may be.
Escaped(c) == IF c = "quote" THEN <<"quote", "quote">> ELSE <<c>>
Quoted(field) ==
    <<"quote">> \o Remainder([i \in DOMAIN field |-> Escaped(field[i])], <<"quote">>)[1]
Text(field, all) ==
    IF all \/ "quote" \in Range(field) \/ "comma" \in Range(field) THEN Quoted(field) ELSE field

CsvLine(written, all) ==
    Remainder([k \in 1 .. Len(written) - 1 |-> Append(Text(written[k], all), "comma")],
              Text(written[Len(written)], all))[1]

SplitInit ==
    /\ fields \in UNION {[1 .. n -> Fields] : n \in 1 .. FieldCount}
    /\ \E all \in BOOLEAN : line = CsvLine(fields, all)
    /\ next = 1 /\ token = <<>> /\ tokens = <<>> /\ quoted = FALSE

\* Mutant: a doubled quote ends the quoted part like a single one.
Escape_Toggle == FALSE

\* The next character is a quote that escapes the quote behind it.
Escape ==
    /\ line[next] = "quote" /\ quoted
    /\ next + 1 <= Len(line) /\ line[next + 1] = "quote"

SplitCharacter ==
    /\ next <= Len(line)
    /\ \/ /\ Escape
          /\ token' = Append(token, "quote") /\ next' = next + 2
          /\ UNCHANGED <<tokens, quoted>>
       \/ /\ line[next] = "quote" /\ ~ Escape
          /\ quoted' = ~ quoted /\ next' = next + 1
          /\ UNCHANGED <<token, tokens>>
       \/ /\ line[next] = "comma" /\ ~ quoted
          /\ tokens' = Append(tokens, token) /\ token' = <<>> /\ next' = next + 1
          /\ UNCHANGED quoted
       \/ /\ line[next] # "quote" /\ (line[next] = "comma" => quoted)
          /\ token' = Append(token, line[next]) /\ next' = next + 1
          /\ UNCHANGED <<tokens, quoted>>
    /\ UNCHANGED <<fields, line>>

SplitEnd ==
    /\ next = Len(line) + 1
    /\ tokens' = Append(tokens, token) /\ next' = next + 1
    /\ UNCHANGED <<fields, line, token, quoted>>

-----------------------------------------------------------------------------
(* Numbers.                                                                 *)

Int16Max == 32767

Clamp(n, low, high) == IF n < low THEN low ELSE IF n > high THEN high ELSE n

TowardsZero(value) == IF value >= 0 THEN value \div 10 ELSE - ((- value) \div 10)

\* std::stoi and std::stod read as much of the text as is a number: up to the
\* separator of the thousands, up to the point.  Blank, no number, or in stoi one that is
\* out of range: the default.
CppInt(t) ==
    CASE t.form \in {"blank", "word", "huge"} -> 0
      [] t.form = "grouped" -> TowardsZero(t.value) \div 1000
      [] OTHER -> TowardsZero(t.value)

CppDouble(t) ==
    CASE t.form \in {"blank", "word"} -> 0
      [] t.form = "grouped" -> 10 * (TowardsZero(t.value) \div 1000)
      [] OTHER -> t.value

\* A negative count becomes the default.
CppUint8(t) == IF CppInt(t) < 0 THEN 0 ELSE Clamp(CppInt(t), 0, 255)
CppInt16(t) == Clamp(CppInt(t), - Int16Max - 1, Int16Max)

\* _to_int and _to_float drop the separators, and raise on what is no number.
PyRaises(t, integer) == t.form = "word" \/ (integer /\ t.form = "fraction")
PyInt(t) == IF t.form = "blank" THEN 0 ELSE TowardsZero(t.value)
PyFloat(t) == IF t.form = "blank" THEN 0 ELSE t.value

-----------------------------------------------------------------------------
(* Dates.                                                                   *)

Leap(y) == (y % 4 = 0 /\ y % 100 # 0) \/ y % 400 = 0

DaysInMonth(y, m) ==
    IF m = 2 /\ Leap(y) THEN 29 ELSE <<31, 28, 31, 30, 31, 30, 31, 31, 30, 31, 30, 31>>[m]

\* The days from 1970 to a year, and of a year to a month; a year before 1970 has none.
YearDays[y \in Int] ==
    IF y <= 1970 THEN 0 ELSE YearDays[y - 1] + (IF Leap(y - 1) THEN 366 ELSE 365)

MonthDays(y) ==
    LET Days[m \in 0 .. 13] == IF m <= 1 THEN 0 ELSE Days[m - 1] + DaysInMonth(y, m - 1)
    IN  Days

CppDays(y, m, d) == YearDays[y] + MonthDays(y)[m] + d - 1

Seconds(days, h, m, s) == days * 86400 + h * 3600 + m * 60 + s

\* Mutant: twelve o'clock is an hour like the others.
CppHour_Twelve(t) == IF t.half = "PM" THEN t.hour + 12 ELSE t.hour

\* 12 AM is 0 o'clock, 12 PM is 12 o'clock.
CppHour(t) ==
    IF t.half = "PM" /\ t.hour # 12 THEN t.hour + 12
    ELSE IF t.half = "AM" /\ t.hour = 12 THEN 0 ELSE t.hour

\* Which of its three formats parse_timestamp takes: a slash as the third character,
\* a digit as the first and the fourth, anything else.
CppFormat(t) ==
    IF t.form = "slash" /\ ~ t.padded THEN "slash"
    ELSE IF t.form \in {"name", "iso"} /\ ~ t.padded THEN "name" ELSE "iso"

\* The first two read every part, AM or PM included, and check none of them;
\* std::get_time checks the ranges.
CppParses(t) ==
    /\ t.form = CppFormat(t)
    /\ CppFormat(t) \in {"slash", "name"} => t.half # "none"
    /\ CppFormat(t) = "name" => t.month \in 1 .. 12
    /\ CppFormat(t) = "iso" =>
           /\ t.month \in 1 .. 12 /\ t.day \in 1 .. 31
           /\ t.hour \in 0 .. 23 /\ t.minute \in 0 .. 59 /\ t.second \in 0 .. 60

CppTimestamp(t) ==
    IF t.form = "empty" \/ ~ CppParses(t) THEN 0
    ELSE Seconds(CppDays(t.year, t.month, t.day), CppHour(t), t.minute, t.second)

\* datetime: the ordinal of a date of the calendar.
PyOrdinal(y, m, d) ==
    LET Before == <<0, 31, 59, 90, 120, 151, 181, 212, 243, 273, 304, 334>>[m]
    IN  365 * (y - 1) + (y - 1) \div 4 - (y - 1) \div 100 + (y - 1) \div 400
        + Before + (IF m > 2 /\ Leap(y) THEN 1 ELSE 0) + d

PyParses(t) ==
    /\ t.form # "empty"
    /\ t.year \in 1 .. 9999 /\ t.month \in 1 .. 12 /\ t.day \in 1 .. DaysInMonth(t.year, t.month)
    /\ t.minute \in 0 .. 59 /\ t.second \in 0 .. 59
    /\ IF t.form = "iso" THEN t.hour \in 0 .. 23 /\ t.half = "none"
       ELSE t.hour \in 1 .. 12 /\ t.half # "none"

PyTimestamp(t) ==
    IF ~ PyParses(t) THEN 0
    ELSE Seconds(PyOrdinal(t.year, t.month, t.day) - PyOrdinal(1970, 1, 1),
                 IF t.form = "iso" THEN t.hour
                 ELSE (t.hour % 12) + (IF t.half = "PM" THEN 12 ELSE 0),
                 t.minute, t.second)

-----------------------------------------------------------------------------
(* Rows.                                                                    *)

IsValid(r) == r.pickup > 0 /\ r.dropoff > r.pickup /\ r.distance >= 0 /\ r.total >= 0

\* parse_line: the record, in a sequence, or nothing.
CppRow(row) ==
    LET record == [ pickup |-> CppTimestamp(row.pickup), dropoff |-> CppTimestamp(row.dropoff),
                    passengers |-> CppUint8(row.passengers), location |-> CppInt16(row.location),
                    distance |-> CppDouble(row.distance), total |-> CppDouble(row.total) ]
    IN  IF row.columns \in 17 .. 19 /\ IsValid(record) THEN <<record>> ELSE <<>>

\* One row of load_records: whether it raises, and the record, if it makes one.
\* A column that is missing is None, which has no strip().
PyTimes(row) == PyTimestamp(row.pickup) > 0 /\ PyTimestamp(row.dropoff) > PyTimestamp(row.pickup)
PyRowRaises(row) ==
    \/ row.columns < 3
    \/ PyTimes(row) /\ \/ row.columns < 17
                       \/ PyRaises(row.passengers, TRUE) \/ PyRaises(row.location, TRUE)
                       \/ PyRaises(row.distance, FALSE) \/ PyRaises(row.total, FALSE)

PyRow(row) ==
    IF ~ PyTimes(row) THEN <<>>
    ELSE <<[ pickup |-> PyTimestamp(row.pickup), dropoff |-> PyTimestamp(row.dropoff),
             passengers |-> PyInt(row.passengers), location |-> PyInt(row.location),
             distance |-> PyFloat(row.distance), total |-> PyFloat(row.total) ]>>

RowInit ==
    /\ rows \in UNION {[1 .. n -> Rows] : n \in 1 .. RowCount}
    /\ cppAt = 1 /\ cppRecords = <<>>
    /\ pyAt = 1 /\ pyRecords = <<>> /\ pyFailed = FALSE

CppReadRow ==
    /\ cppAt <= Len(rows)
    /\ cppRecords' = cppRecords \o CppRow(rows[cppAt]) /\ cppAt' = cppAt + 1
    /\ UNCHANGED <<rows, pyAt, pyRecords, pyFailed>>

PyReadRow ==
    /\ pyAt <= Len(rows) /\ ~ pyFailed
    /\ IF PyRowRaises(rows[pyAt])
       THEN pyFailed' = TRUE /\ UNCHANGED <<pyAt, pyRecords>>
       ELSE /\ pyRecords' = pyRecords \o PyRow(rows[pyAt]) /\ pyAt' = pyAt + 1
            /\ UNCHANGED pyFailed
    /\ UNCHANGED <<rows, cppAt, cppRecords>>

SplitNext == SplitCharacter \/ SplitEnd
RowNext == CppReadRow \/ PyReadRow

SplitSpec == SplitInit /\ [][SplitNext]_splitVars
RowSpec == RowInit /\ [][RowNext]_rowVars

-----------------------------------------------------------------------------

SplitTypeOK ==
    next \in 1 .. Len(line) + 2 /\ token \in Seq(Characters) /\ quoted \in BOOLEAN
RowTypeOK ==
    \A i \in DOMAIN cppRecords :
        cppRecords[i].passengers \in 0 .. 255 /\ cppRecords[i].location \in - Int16Max - 1 .. Int16Max

\* Splitting a line gives back the fields it was written from (the format that
\* CsvReader.cpp:193-201 describes), whatever quotes and commas they hold.
SplitInvertsWriter == next = Len(line) + 2 => tokens = fields

\* Dates of the calendar, in one of the three formats.
Listed(t) == PyParses(t) /\ ~ t.padded /\ t.year >= 1970

\* Numbers that are written as numbers of their column are, and that both nodes keep.
Ordinary(row) ==
    /\ row.columns \in 17 .. 19
    /\ \A t \in {row.passengers, row.location} :
           t.form \in {"blank", "plain"} /\ TowardsZero(t.value) >= 0
    /\ TowardsZero(row.passengers.value) <= 255 /\ TowardsZero(row.location.value) <= Int16Max
    /\ \A t \in {row.distance, row.total} :
           t.form \in {"blank", "plain", "huge", "fraction"} /\ t.value >= 0

\* A row in which the two nodes may differ: its dates are not both missing, or both
\* in a format of the 12-hour clock, or its numbers are not ordinary.
Alike(t) == t.form = "empty" \/ (Listed(t) /\ t.form # "iso")
Odd(row) == ~ (Alike(row.pickup) /\ Alike(row.dropoff) /\ Ordinary(row))

CppRead == cppAt > Len(rows)
PyRead == pyAt > Len(rows) /\ ~ pyFailed

\* A partition loads alike on both kinds of node: a difference has one of the causes
\* above, and only such a row keeps a Python node from starting.
ReadAlike ==
    /\ CppRead /\ PyRead => cppRecords = pyRecords \/ \E i \in DOMAIN rows : Odd(rows[i])
    /\ pyFailed => Odd(rows[pyAt])

\* The C++ node loads the rows whose dates are in the formats that the comments of
\* parse_timestamp list (CsvReader.cpp:249, 258, 272), and in order.
ListedFormatsLoad ==
    /\ CppRead
    /\ \A i \in DOMAIN rows :
           Ordinary(rows[i]) /\ Listed(rows[i].pickup) /\ Listed(rows[i].dropoff) /\ PyTimes(rows[i])
    => Len(cppRecords) = Len(rows)
=============================================================================
