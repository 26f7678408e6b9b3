------------------------------- MODULE Messages -------------------------------
(***************************************************************************)
(* The messages of the protocol as the generated C++ code handles them      *)
(* (cpp/mini2.pb.cc and mini2.pb.h, whose tables are MessageTables): two     *)
(* objects of one type whose accessors are called, that are cleared and     *)
(* merged, serialized and parsed.                                           *)
(*                                                                          *)
(* An object is its has-bits and its members.  A number stands for a        *)
(* number, a Boolean (0, 1) and the length of a string; a message is the    *)
(* pointer to it, <<>> or <<object>>; a repeated field is a sequence.       *)
(*                                                                          *)
(* What is sent, a wire, is a sequence of runs [number, items]: what stands *)
(* on it under one number, one item [value, body] behind the other.  A      *)
(* field that is left out is a run of none.                                 *)
(*                                                                          *)
(* Unknown fields, arenas and descriptors are left out.                     *)
(***************************************************************************)
EXTENDS MessageTables, SequencesExt, FiniteSetsExt

CONSTANTS
    Kinds,      \* the types of message
    Numbers,    \* the values an integer or the length of a string is set to
    MaxCalls    \* bound: the calls of accessors and functions

ASSUME KindsAssumption == Kinds \subseteq DOMAIN Tables
ASSUME NumbersAssumption == Numbers \subseteq Int

VARIABLES
    kind,           \* the type of both objects
    left, right,    \* the objects
    calls           \* the calls so far

messageVars == <<kind, left, right, calls>>

-----------------------------------------------------------------------------

\* The type of each field of each message.
FieldTypes ==
    [T \in DOMAIN Tables |->
        LET t == Tables[T].table
        IN  [f \in {t[i][1] : i \in DOMAIN t} |-> t[CHOOSE i \in DOMAIN t : t[i][1] = f][3]]]

Repeated == {"RepeatedTripRecordMsg"}
IsPlain(type) == type \notin Repeated \cup DOMAIN Tables

\* The type of the messages in a field, and the fields that have messages in them.
Element(type) == IF type \in Repeated THEN "TripRecordMsg" ELSE type
Nested(T) == {f \in DOMAIN FieldTypes[T] : ~ IsPlain(FieldTypes[T][f])}

New(T) ==
    [ bits |-> {}, val |-> [f \in DOMAIN FieldTypes[T] |-> IF IsPlain(FieldTypes[T][f]) THEN 0 ELSE <<>>] ]

\* Every generated function calls the one of the same name of the messages within.
\* Layer(T, m, inner) is what a function makes of m, where inner is what it made of the
\* parts of m, each a [type, of].  Messages nest three deep: a ForwardRequest has a
\* QueryRequest, which has a CombinedQuery, which has ranges.
Nest0(Layer(_, _, _), Parts(_, _), T, m) == Layer(T, m, <<>>)
Nest1(Layer(_, _, _), Parts(_, _), T, m) ==
    LET parts == Parts(T, m)
    IN  Layer(T, m, [d \in DOMAIN parts |-> Nest0(Layer, Parts, parts[d].type, parts[d].of)])
Nest2(Layer(_, _, _), Parts(_, _), T, m) ==
    LET parts == Parts(T, m)
    IN  Layer(T, m, [d \in DOMAIN parts |-> Nest1(Layer, Parts, parts[d].type, parts[d].of)])
Nest3(Layer(_, _, _), Parts(_, _), T, m) ==
    LET parts == Parts(T, m)
    IN  Layer(T, m, [d \in DOMAIN parts |-> Nest2(Layer, Parts, parts[d].type, parts[d].of)])

\* The messages in an object, by field and place.
ObjectParts(T, o) ==
    [d \in UNION {{f} \X DOMAIN o.val[f] : f \in Nested(T)} |->
        [type |-> Element(FieldTypes[T][d[1]]), of |-> o.val[d[1]][d[2]]]]

-----------------------------------------------------------------------------
(* Accessors.                                                               *)

ValuesOf(type) ==
    CASE type \in {"bool", "double"} -> {0, 1}
      [] type = "string" -> Numbers \cap Nat
      [] OTHER -> Numbers

\* set_f, mutable_f, add_f.
Set(T, o, f, v) ==
    [bits |-> o.bits \cup {Tables[T].accessors[f]}, val |-> [o.val EXCEPT ![f] = v]]

\* The message that an accessor returns for its own accessors to be called: the one that
\* is there, or a new one, and of a repeated field always a new one.
Mutable(T, o) ==
    [f \in Nested(T) |->
        LET type == FieldTypes[T][f]
        IN  [ type |-> Element(type),
              of |-> IF type \in Repeated \/ o.val[f] = <<>> THEN New(Element(type)) ELSE o.val[f][1] ]]

\* The objects that one call of an accessor makes of an object, also of an accessor of
\* a message in it.
TouchedLayer(T, o, inner) ==
    UNION {
        LET type == FieldTypes[T][f]
            made == {Mutable(T, o)[f].of} \cup inner[f]
        IN  CASE IsPlain(type) -> {Set(T, o, f, v) : v \in ValuesOf(type)}
              [] type \in Repeated -> {Set(T, o, f, Append(o.val[f], m)) : m \in made}
              [] OTHER -> {Set(T, o, f, <<m>>) : m \in made}
        : f \in DOMAIN FieldTypes[T] }

Touched(T, o) == Nest3(TouchedLayer, Mutable, T, o)

-----------------------------------------------------------------------------
(* Clear.                                                                   *)

\* The members that are reset: messages one by one, numbers by ranges of memory.
Reset(T, bits) ==
    LET impl == Tables[T].impl
        Place(f) == CHOOSE i \in DOMAIN impl : impl[i] = f
    IN  {f \in DOMAIN FieldTypes[T] :
            \E i \in DOMAIN Tables[T].clear :
                LET c == Tables[T].clear[i]
                IN  /\ c[1] = {} \/ c[1] \cap bits # {}
                    /\ Place(f) \in Place(c[2]) .. Place(c[3])}

\* A message is cleared and kept.
ClearedLayer(T, o, inner) ==
    LET Zero(f) ==
            CASE IsPlain(FieldTypes[T][f]) -> 0
              [] FieldTypes[T][f] \in Repeated -> <<>>
              [] OTHER -> [i \in DOMAIN o.val[f] |-> inner[<<f, i>>]]
        reset == Reset(T, o.bits)
    IN  [bits |-> {}, val |-> [f \in DOMAIN FieldTypes[T] |-> IF f \in reset THEN Zero(f) ELSE o.val[f]]]

Cleared(T, o) == Nest3(ClearedLayer, ObjectParts, T, o)

-----------------------------------------------------------------------------
(* Serializer and size.                                                     *)

\* _InternalSerialize: a number that is zero is left out, a message that is there is not.
SerializedLayer(T, o, inner) ==
    LET list == Tables[T].serialize
        Items(f) ==
            IF ~ IsPlain(FieldTypes[T][f])
            THEN [i \in DOMAIN o.val[f] |-> [value |-> 0, body |-> inner[<<f, i>>]]]
            ELSE IF o.val[f] = 0 THEN <<>> ELSE <<[value |-> o.val[f], body |-> <<>>]>>
    IN  [n \in DOMAIN list |->
            [number |-> list[n][3], items |-> IF list[n][2] \in o.bits THEN Items(list[n][1]) ELSE <<>>]]

Serialized(T, o) == Nest3(SerializedLayer, ObjectParts, T, o)

\* The bytes of a varint: seven bits each, all ten for a negative number.
Varint(n) ==
    LET Bytes(k) == IF k < 128 THEN 1 ELSE IF k < 128 * 128 THEN 2 ELSE IF k < 128 * 128 * 128 THEN 3 ELSE 4
        FourBytes == 128 * 128 * 128 * 128
    IN  CASE n < 0 -> 10
          [] n >= 0 /\ n < FourBytes -> Bytes(n)
          [] n >= FourBytes /\ n \div FourBytes < FourBytes -> 4 + Bytes(n \div FourBytes)
          [] OTHER -> 9

PlainSize(type, v) ==
    CASE type = "bool" -> 1 [] type = "double" -> 8
      [] type = "string" -> Varint(v) + v [] OTHER -> Varint(v)

Total(sizes) ==
    LET Sum[n \in Nat] == IF n = 0 THEN 0 ELSE Sum[n - 1] + sizes[n]
    IN  Sum[Len(sizes)]

\* ByteSizeLong, from which a parent takes the length that it writes before a message.
\* An entry is a field, its bit and the bytes of its tag.
EntrySize(T, o, entry, inner) ==
    LET f == entry[1]
        type == FieldTypes[T][f]
    IN  IF entry[2] \notin o.bits \/ (IsPlain(type) /\ o.val[f] = 0) THEN 0
        ELSE IF IsPlain(type) THEN entry[3] + PlainSize(type, o.val[f])
        ELSE Total([i \in DOMAIN o.val[f] |-> entry[3] + Varint(inner[<<f, i>>]) + inner[<<f, i>>]])

ByteSizeLayer(T, o, inner) ==
    LET GroupSize(group) ==
            IF group[1] \cap o.bits = {} THEN 0
            ELSE Total([j \in DOMAIN group[2] |-> EntrySize(T, o, group[2][j], inner)])
        groups == Tables[T].byteSize
    IN  Total([i \in DOMAIN groups |-> GroupSize(groups[i])])

ByteSize(T, o) == Nest3(ByteSizeLayer, ObjectParts, T, o)

-----------------------------------------------------------------------------
(* Merging.                                                                 *)

\* The messages that are in both objects, and are merged themselves.
MergedParts(T, m) ==
    [f \in {f \in Nested(T) : FieldTypes[T][f] \notin Repeated /\ m.to.val[f] # <<>> /\ m.from.val[f] # <<>>} |->
        [type |-> FieldTypes[T][f], of |-> [to |-> m.to.val[f][1], from |-> m.from.val[f][1]]]]

\* The fields that MergeImpl looks at.
Reached(T, bits) ==
    {f \in DOMAIN FieldTypes[T] :
        \E i \in DOMAIN Tables[T].merge :
            LET group == Tables[T].merge[i]
            IN  /\ group[1] \cap bits # {}
                /\ \E j \in DOMAIN group[2] : group[2][j][1] = f /\ group[2][j][2] \in bits}

\* MergeImpl: what is not zero replaces, messages merge, repeated fields are appended.
MergedLayer(T, m, inner) ==
    LET to == m.to
        from == m.from
        reached == Reached(T, from.bits)
        Value(f) ==
            CASE IsPlain(FieldTypes[T][f]) -> IF from.val[f] # 0 THEN from.val[f] ELSE to.val[f]
              [] FieldTypes[T][f] \in Repeated -> to.val[f] \o from.val[f]
              [] OTHER -> IF to.val[f] = <<>> THEN from.val[f] ELSE <<inner[f]>>
    IN  [ bits |-> to.bits \cup from.bits,
          val |-> [f \in DOMAIN FieldTypes[T] |-> IF f \in reached THEN Value(f) ELSE to.val[f]] ]

Merged(T, to, from) == Nest3(MergedLayer, MergedParts, T, [to |-> to, from |-> from])

CopyFrom(T, to, from) == Merged(T, Cleared(T, to), from)

-----------------------------------------------------------------------------
(* Parser.                                                                  *)

\* What is on the wire for a field, by the numbers of the parser's table.
ItemsOf(T, wire, f) ==
    FlattenSeq([n \in DOMAIN wire |->
        IF Tables[T].table[wire[n].number][1] = f THEN wire[n].items ELSE <<>>])

\* A message that comes again is parsed into the one that is there.
ParsedParts(T, m) ==
    LET items == [f \in Nested(T) |-> ItemsOf(T, m.wire, f)]
        Again(f) == FlattenSeq([i \in DOMAIN items[f] |-> items[f][i].body])
    IN  [d \in UNION {{f} \X DOMAIN items[f] : f \in Nested(T)} |->
            LET f == d[1]
                type == FieldTypes[T][f]
            IN  [ type |-> Element(type),
                  of |-> IF type \in Repeated
                         THEN [object |-> New(Element(type)), wire |-> items[f][d[2]].body]
                         ELSE [ object |-> IF m.object.val[f] = <<>> THEN New(type) ELSE m.object.val[f][1],
                                wire |-> Again(f) ] ]]

\* TcParser: the last number of several is kept, messages of a repeated field are added.
ParsedLayer(T, m, inner) ==
    LET old == m.object.val
        items == [f \in DOMAIN FieldTypes[T] |-> ItemsOf(T, m.wire, f)]
        Value(f) ==
            CASE IsPlain(FieldTypes[T][f]) -> items[f][Len(items[f])].value
              [] FieldTypes[T][f] \in Repeated -> old[f] \o [i \in DOMAIN items[f] |-> inner[<<f, i>>]]
              [] OTHER -> <<inner[<<f, 1>>]>>
    IN  [ bits |-> m.object.bits \cup
                   {Tables[T].table[m.wire[n].number][2] : n \in {n \in DOMAIN m.wire : m.wire[n].items # <<>>}},
          val |-> [f \in DOMAIN FieldTypes[T] |-> IF items[f] = <<>> THEN old[f] ELSE Value(f)] ]

Parsed(T, o, wire) == Nest3(ParsedLayer, ParsedParts, T, [object |-> o, wire |-> wire])

-----------------------------------------------------------------------------

MessagesInit ==
    /\ kind \in Kinds
    /\ left = New(kind) /\ right = New(kind)
    /\ calls = 0

Call == calls < MaxCalls /\ calls' = calls + 1 /\ UNCHANGED kind

TouchLeft == Call /\ left' \in Touched(kind, left) /\ UNCHANGED right
TouchRight == Call /\ right' \in Touched(kind, right) /\ UNCHANGED left
ClearLeft == Call /\ left' = Cleared(kind, left) /\ UNCHANGED right
MergeRight == Call /\ right' = Merged(kind, right, left) /\ UNCHANGED left
CopyRight == Call /\ right' = CopyFrom(kind, right, left) /\ UNCHANGED left

MessagesNext == TouchLeft \/ TouchRight \/ ClearLeft \/ MergeRight \/ CopyRight

MessagesSpec == MessagesInit /\ [][MessagesNext]_messageVars

-----------------------------------------------------------------------------

\* What the getters and has_f() return.
VisibleLayer(T, o, inner) ==
    [f \in DOMAIN FieldTypes[T] |->
        IF IsPlain(FieldTypes[T][f]) THEN o.val[f]
        ELSE IF FieldTypes[T][f] \in Repeated \/ Tables[T].accessors[f] \in o.bits
        THEN [i \in DOMAIN o.val[f] |-> inner[<<f, i>>]] ELSE <<>>]

Visible(T, o) == Nest3(VisibleLayer, ObjectParts, T, o)

\* What a message holds is what the next one parses from it: every field that is set
\* to something arrives at the getters of the other object, whatever that held before.
RoundTrip ==
    Visible(kind, Parsed(kind, Cleared(kind, right), Serialized(kind, left))) = Visible(kind, left)

\* The bytes on the wire: a key of the number and the wire type, a length before a
\* string or a message, and the value.
WireParts(T, wire) ==
    LET TypeOf(n) == Tables[T].table[wire[n].number][3]
    IN  [d \in UNION {{n} \X DOMAIN wire[n].items : n \in {n \in DOMAIN wire : ~ IsPlain(TypeOf(n))}} |->
            [type |-> Element(TypeOf(d[1])), of |-> wire[d[1]].items[d[2]].body]]

WireSizeLayer(T, wire, inner) ==
    LET ItemSize(n, i) ==
            LET type == Tables[T].table[wire[n].number][3]
            IN  Varint(8 * wire[n].number) +
                IF IsPlain(type) THEN PlainSize(type, wire[n].items[i].value)
                ELSE Varint(inner[<<n, i>>]) + inner[<<n, i>>]
    IN  Total([n \in DOMAIN wire |-> Total([i \in DOMAIN wire[n].items |-> ItemSize(n, i)])])

WireSize(T, wire) == Nest3(WireSizeLayer, WireParts, T, wire)

\* The size that is computed first, and written as the length of a message within
\* another, is the size of what is then written.
SizeMatches == ByteSize(kind, left) = WireSize(kind, Serialized(kind, left))

\* To merge a message is to parse what it is serialized to: the parser and MergeImpl
\* agree on every field, in the same state of the object that receives it.
ParseMerges ==
    Visible(kind, Merged(kind, right, left)) =
        Visible(kind, Parsed(kind, right, Serialized(kind, left)))
===============================================================================
