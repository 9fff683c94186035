----------------------------- MODULE ProtoCodec -----------------------------
(***************************************************************************)
(* The wire code of the agent protocol: what the generated Size,           *)
(* MarshalToSizedBuffer, Marshal and Unmarshal methods do with the field   *)
(* tables of ProtoAgent, ProtoOci and ProtoBase, on both ends of a         *)
(* connection.  A sender populates a message and marshals it; the receiver *)
(* unmarshals what arrives: the whole buffer, a truncated one, or one with *)
(* a field that its version of the protocol does not know.                 *)
(*                                                                         *)
(* Values.  A byte is a number below 256.  A string or bytes value is a    *)
(* sequence of bytes.  A 64-bit integer is the sequence of its base 128    *)
(* digits, least significant first, without leading zeros (<<>> is 0), so  *)
(* that the full width fits TLC's integers; a signed integer is its two's  *)
(* complement.  A message is a function from the names of the fields that  *)
(* do not have their zero value; the bytes of unknown fields are under     *)
(* "XXX_unrecognized".  nil and an empty slice are the same value: the     *)
(* code tells them apart nowhere on this path.  All decoding errors are    *)
(* one value.                                                              *)
(***************************************************************************)
EXTENDS Integers, SequencesExt, ProtoAgent, ProtoOci, ProtoBase

CONSTANTS
    Types,          \* the message types that are exchanged
    Messages(_),    \* the messages of a type that are sent
    UnknownFields,  \* encoded fields with a number that no table has
    MaxCut          \* messages of at most this many bytes are truncated, at every position

SizeTables == AgentSizeTables @@ OciSizeTables @@ BaseSizeTables
MarshalTables == AgentMarshalTables @@ OciMarshalTables @@ BaseMarshalTables
UnmarshalTables == AgentUnmarshalTables @@ OciUnmarshalTables @@ BaseUnmarshalTables

ASSUME TypesAssumption == Types \subseteq DOMAIN UnmarshalTables

Unrecognized == "XXX_unrecognized"
EmptyMessage == <<>>
Get(m, name, zero) == IF name \in DOMAIN m THEN m[name] ELSE zero

\* Assigning the zero value to a field is leaving it out.
Put(m, name, v, zero) ==
    IF v = zero THEN [n \in DOMAIN m \ {name} |-> m[n]] ELSE (name :> v) @@ m

-----------------------------------------------------------------------------
\* Integers and lengths

Trim(d) == SubSeq(d, 1, Max({0} \cup {i \in DOMAIN d : d[i] # 0}))
Digits(n) == Trim(<<n % 128, (n \div 128) % 128, n \div 16384>>)
Number(d) == FoldRight(LAMBDA digit, n : digit + 128 * n, d, 0)

\* Mutant: math_bits.Len64(x) instead of math_bits.Len64(x|1).
sovOfZeroIsZero(d) == Len(d)

\* (math_bits.Len64(x|1) + 6) / 7
sov(d) == Max({1, Len(d)})

encodeVarint(d) ==
    IF d = <<>> THEN <<0>> ELSE [i \in DOMAIN d |-> IF i < Len(d) THEN d[i] + 128 ELSE d[i]]

\* The low bits of a decoded integer that a variable of its Go type keeps; a negative int32
\* is sign-extended when it is converted to uint64 to be marshalled again.
uint64(d) == Trim([i \in DOMAIN d |-> IF i = 10 THEN d[i] % 2 ELSE d[i]])
uint32(d) == Trim([i \in 1 .. Min({5, Len(d)}) |-> IF i = 5 THEN d[i] % 16 ELSE d[i]])
int32(d) ==
    LET w == uint32(d)
    IN  IF Len(w) = 5 /\ w[5] >= 8
        THEN SubSeq(w, 1, 4) \o <<112 + w[5], 127, 127, 127, 127, 1>>
        ELSE w

-----------------------------------------------------------------------------
\* Size

LenSize(l) == 1 + l + sov(Digits(l))
Total(S) == FoldSeq(+, 0, S)

MapSize(ValueSize(_), keys) ==
    MapThenSumSet(LAMBDA k : LenSize(LenSize(Len(k)) + ValueSize(k)), keys)

RECURSIVE Size(_, _)

FieldSize(e, v) ==
    CASE e[1] = "bytes" -> LenSize(Len(v))
      [] e[1] \in {"varint", "oneof"} -> 1 + sov(v)
      [] e[1] = "bool" -> 2
      [] e[1] \in {"msg", "embed"} -> LenSize(Size(e[3], v))
      [] e[1] = "strings" -> Total([i \in DOMAIN v |-> LenSize(Len(v[i]))])
      [] e[1] = "msgs" -> Total([i \in DOMAIN v |-> LenSize(Size(e[3], v[i]))])
      [] e[1] = "packed" -> LenSize(Total([i \in DOMAIN v |-> sov(v[i])]))
      [] e[1] = "map_bytes" -> MapSize(LAMBDA k : LenSize(Len(v[k])), DOMAIN v)
      [] e[1] = "map_varint" -> MapSize(LAMBDA k : 1 + sov(v[k]), DOMAIN v)
      [] e[1] = "map_msg" -> MapSize(LAMBDA k : LenSize(Size(e[3], v[k])), DOMAIN v)

Size(T, m) ==
    MapThenSumSet(LAMBDA e : IF e[2] \in DOMAIN m THEN FieldSize(e, m[e[2]])
                             ELSE IF e[1] = "embed" THEN FieldSize(e, EmptyMessage) ELSE 0,
                  SizeTables[T])
    + Len(Get(m, Unrecognized, <<>>))

-----------------------------------------------------------------------------
\* Marshal.  keys is the order in which a range over a map visits its keys.

Delimited(tag, bytes) == <<tag>> \o encodeVarint(Digits(Len(bytes))) \o bytes

RECURSIVE MarshalToSizedBuffer(_, _, _)

MapEntry(e, k, v, rev) ==
    Delimited(e[1], Delimited(\h0a, k) \o
        CASE e[2] = "map_bytes" -> Delimited(\h12, v)
          [] e[2] = "map_varint" -> <<\h10>> \o encodeVarint(v)
          [] e[2] = "map_msg" -> Delimited(\h12, MarshalToSizedBuffer(e[4], v, rev)))

Keys(v, rev) == LET ks == SetToSeq(DOMAIN v) IN IF rev THEN Reverse(ks) ELSE ks

MarshalField(e, v, rev) ==
    CASE e[2] = "bytes" -> Delimited(e[1], v)
      [] e[2] \in {"varint", "oneof"} -> <<e[1]>> \o encodeVarint(v)
      [] e[2] = "bool" -> <<e[1], 1>>
      [] e[2] \in {"msg", "embed"} -> Delimited(e[1], MarshalToSizedBuffer(e[4], v, rev))
      [] e[2] = "strings" -> FlattenSeq([i \in DOMAIN v |-> Delimited(e[1], v[i])])
      [] e[2] = "msgs" ->
            FlattenSeq([i \in DOMAIN v |-> Delimited(e[1], MarshalToSizedBuffer(e[4], v[i], rev))])
      [] e[2] = "packed" -> Delimited(e[1], FlattenSeq([i \in DOMAIN v |-> encodeVarint(v[i])]))
      [] OTHER -> LET ks == Keys(v, rev)
                  IN  FlattenSeq([i \in DOMAIN ks |-> MapEntry(e, ks[i], v[ks[i]], rev)])

\* The buffer is filled from its end: the bytes of unknown fields, then the fields of the
\* table one before the other.
MarshalToSizedBuffer(T, m, rev) ==
    FoldLeft(LAMBDA buf, e : IF e[3] \in DOMAIN m THEN MarshalField(e, m[e[3]], rev) \o buf
                             ELSE IF e[2] = "embed" THEN MarshalField(e, EmptyMessage, rev) \o buf
                             ELSE buf,
             Get(m, Unrecognized, <<>>), MarshalTables[T])

\* Marshal allocates Size() bytes, lets MarshalToSizedBuffer fill them from the end and returns
\* the FIRST n of them.  A buffer that is too short is an index out of range: a panic, here no
\* bytes at all next to ok = FALSE.
Marshal(T, m, rev) ==
    LET size == Size(T, m)
        bytes == MarshalToSizedBuffer(T, m, rev)
        n == Len(bytes)
    IN  IF n > size THEN [ok |-> FALSE, bytes |-> <<>>]
        ELSE [ok |-> TRUE, bytes |-> SubSeq([i \in 1 .. size - n |-> 0] \o bytes, 1, n)]

-----------------------------------------------------------------------------
\* Unmarshal.  A reader starts at position i of the buffer d and yields what it read and the
\* position after it.  A buffer is shorter than 2^21 bytes, so a longer length is past its end.

Fail == [ok |-> FALSE, v |-> <<>>, next |-> 0]
Read(v, next) == [ok |-> TRUE, v |-> v, next |-> next]

\* An integer ends at the first byte below 0x80, which is one of the first ten.
ReadVarint(d, i) ==
    LET ends == {j \in i .. Min({i + 9, Len(d)}) : d[j] < 128}
        last == Min(ends)
    IN  IF ends = {} THEN Fail
        ELSE Read(uint64([k \in 1 .. last - i + 1 |-> d[i + k - 1] % 128]), last + 1)

\* What follows a read, or its error.
Then(r, Rest(_)) == IF r.ok THEN Rest(r) ELSE Fail

\* Mutant: postIndex is cut down to the end of the buffer instead of being refused.
ReadBytesCutDown(d, i) ==
    Then(ReadVarint(d, i), LAMBDA l :
        IF Len(l.v) > 3 THEN Fail
        ELSE Read(SubSeq(d, l.next, Min({l.next + Number(l.v), Len(d) + 1}) - 1),
                  Min({l.next + Number(l.v), Len(d) + 1})))

ReadBytes(d, i) ==
    Then(ReadVarint(d, i), LAMBDA l :
        IF Len(l.v) > 3 \/ l.next + Number(l.v) > Len(d) + 1 THEN Fail
        ELSE Read(SubSeq(d, l.next, l.next + Number(l.v) - 1), l.next + Number(l.v)))

\* The value of a field of an unknown number; the start or the end of a group has none.
skipValue(wireType, d, i) ==
    CASE wireType = 0 -> ReadVarint(d, i)
      [] wireType = 1 -> Read(<<>>, i + 8)
      [] wireType = 2 -> ReadBytes(d, i)
      [] wireType = 5 -> Read(<<>>, i + 4)
      [] wireType \in {3, 4} -> Read(<<>>, i)
      [] OTHER -> Fail
Depth(depth, wireType) ==
    CASE wireType = 3 -> depth + 1 [] wireType = 4 -> depth - 1 [] OTHER -> depth

\* Mutant: the start of a group is taken for the whole of it.
skipNoGroups(d, i, depth) ==
    Then(ReadVarint(d, i), LAMBDA tag : skipValue(Number(tag.v) % 8, d, tag.next))

\* Steps over one field of an unknown number, a whole group when it opens one.
RECURSIVE skip(_, _, _)
skip(d, i, depth) ==
    Then(ReadVarint(d, i), LAMBDA tag :
    Then(skipValue(Number(tag.v) % 8, d, tag.next), LAMBDA item :
        CASE Depth(depth, Number(tag.v) % 8) < 0 -> Fail
          [] Depth(depth, Number(tag.v) % 8) = 0 -> item
          [] OTHER -> skip(d, item.next, Depth(depth, Number(tag.v) % 8))))

\* The elements of a packed field up to postIndex; the last one may run past it.
RECURSIVE ReadPacked(_, _, _, _)
ReadPacked(d, i, post, values) ==
    IF i >= post THEN Read(values, i)
    ELSE Then(ReadVarint(d, i), LAMBDA v : ReadPacked(d, v.next, post, Append(values, v.v)))

RECURSIVE UnmarshalFrom(_, _, _, _)

\* A message of the type of field e, into a message that may hold fields already.
ReadMessage(e, into, d, i) ==
    Then(ReadBytes(d, i), LAMBDA bytes :
    Then(UnmarshalFrom(e[4], into, bytes.v, 1), LAMBDA sub : Read(sub.v, bytes.next)))

ReadMapValue(e, d, i) ==
    CASE e[2] = "map_varint" -> ReadVarint(d, i)
      [] e[2] = "map_bytes" -> ReadBytes(d, i)
      [] e[2] = "map_msg" -> ReadMessage(e, EmptyMessage, d, i)

\* The key and the value of a map entry, in any order, up to postIndex.
RECURSIVE ReadEntry(_, _, _, _, _)
ReadEntry(e, d, i, post, entry) ==
    IF i >= post THEN Read(entry, post)
    ELSE Then(ReadVarint(d, i), LAMBDA tag :
        CASE Number(tag.v) \div 8 = 1 ->
                Then(ReadBytes(d, tag.next), LAMBDA key :
                    ReadEntry(e, d, key.next, post, <<key.v, entry[2]>>))
          [] Number(tag.v) \div 8 = 2 ->
                Then(ReadMapValue(e, d, tag.next), LAMBDA value :
                    ReadEntry(e, d, value.next, post, <<entry[1], value.v>>))
          [] OTHER ->
                Then(skip(d, i, 0), LAMBDA other :
                    IF other.next <= post THEN ReadEntry(e, d, other.next, post, entry)
                    ELSE Fail))

\* Mutant: an int64 is read into an int32.
ConvertNarrow(kind, v) ==
    CASE kind \in {"uint64", "packed_uint64"} -> v
      [] kind \in {"uint32", "oneof_uint32", "packed_uint32"} -> uint32(v)
      [] kind \in {"int32", "int64"} -> int32(v)

Convert(kind, v) ==
    CASE kind \in {"uint64", "int64", "packed_uint64"} -> v
      [] kind \in {"uint32", "oneof_uint32", "packed_uint32"} -> uint32(v)
      [] kind = "int32" -> int32(v)

\* One case of the switch: the message with field e replaced, extended or merged.
UnmarshalVarint(e, d, i, m) ==
    Then(ReadVarint(d, i), LAMBDA int :
        CASE e[2] \in {"uint32", "uint64", "int32", "int64"} ->
                Read(Put(m, e[3], Convert(e[2], int.v), <<>>), int.next)
          [] e[2] = "oneof_uint32" -> Read((e[3] :> Convert(e[2], int.v)) @@ m, int.next)
          [] e[2] = "bool" -> Read(Put(m, e[3], int.v # <<>>, FALSE), int.next)
          [] e[2] \in {"packed_uint32", "packed_uint64"} ->
                Read((e[3] :> Append(Get(m, e[3], <<>>), Convert(e[2], int.v))) @@ m, int.next)
          [] OTHER -> Fail)

UnmarshalPacked(e, d, i, m) ==
    Then(ReadBytes(d, i), LAMBDA bytes :
    Then(ReadPacked(d, bytes.next - Len(bytes.v), bytes.next, <<>>), LAMBDA values :
        Read(Put(m, e[3], Get(m, e[3], <<>>)
                          \o [k \in DOMAIN values.v |-> Convert(e[2], values.v[k])], <<>>),
             values.next)))

UnmarshalMapEntry(e, d, i, m) ==
    Then(ReadBytes(d, i), LAMBDA bytes :
    Then(ReadEntry(e, d, bytes.next - Len(bytes.v), bytes.next, <<<<>>, <<>>>>), LAMBDA entry :
        Read((e[3] :> ((entry.v[1] :> entry.v[2]) @@ Get(m, e[3], <<>>))) @@ m, entry.next)))

UnmarshalDelimited(e, d, i, m) ==
    CASE e[2] = "bytes" ->
            Then(ReadBytes(d, i), LAMBDA r : Read(Put(m, e[3], r.v, <<>>), r.next))
      [] e[2] = "strings" ->
            Then(ReadBytes(d, i), LAMBDA r :
                Read((e[3] :> Append(Get(m, e[3], <<>>), r.v)) @@ m, r.next))
      [] e[2] = "msg" ->
            Then(ReadMessage(e, Get(m, e[3], EmptyMessage), d, i), LAMBDA r :
                Read((e[3] :> r.v) @@ m, r.next))
      [] e[2] = "embed" ->
            Then(ReadMessage(e, Get(m, e[3], EmptyMessage), d, i), LAMBDA r :
                Read(IF DOMAIN r.v = {} THEN m ELSE (e[3] :> r.v) @@ m, r.next))
      [] e[2] = "msgs" ->
            Then(ReadMessage(e, EmptyMessage, d, i), LAMBDA r :
                Read((e[3] :> Append(Get(m, e[3], <<>>), r.v)) @@ m, r.next))
      [] e[2] \in {"packed_uint32", "packed_uint64"} -> UnmarshalPacked(e, d, i, m)
      [] e[2] \in {"map_bytes", "map_varint", "map_msg"} -> UnmarshalMapEntry(e, d, i, m)
      [] OTHER -> Fail

UnmarshalField(e, wireType, d, i, m) ==
    CASE wireType = 0 -> UnmarshalVarint(e, d, i, m)
      [] wireType = 2 -> UnmarshalDelimited(e, d, i, m)
      [] OTHER -> Fail

\* A field whose number has no case is kept as it is.
UnmarshalUnknown(m, d, i) ==
    Then(skip(d, i, 0), LAMBDA other :
        IF other.next > Len(d) + 1 THEN Fail
        ELSE Read(Put(m, Unrecognized,
                      Get(m, Unrecognized, <<>>) \o SubSeq(d, i, other.next - 1), <<>>),
                  other.next))

\* The body of the loop: the field with this tag, which is at position i.
UnmarshalTagged(T, tag, m, d, i) ==
    CASE Number(tag.v) % 8 = 4 \/ Number(tag.v) \div 8 = 0 -> Fail
      [] \E e \in UnmarshalTables[T] : e[1] = Number(tag.v) \div 8 ->
            UnmarshalField(CHOOSE e \in UnmarshalTables[T] : e[1] = Number(tag.v) \div 8,
                           Number(tag.v) % 8, d, tag.next, m)
      [] OTHER -> UnmarshalUnknown(m, d, i)

\* The loop of Unmarshal, from position i on, into a message m that may hold fields already.
UnmarshalFrom(T, m, d, i) ==
    IF i > Len(d) THEN Read(m, i)
    ELSE Then(ReadVarint(d, i), LAMBDA tag :
         Then(UnmarshalTagged(T, tag, m, d, i), LAMBDA field :
            UnmarshalFrom(T, field.v, d, field.next)))

Unmarshal(T, d) == UnmarshalFrom(T, EmptyMessage, d, 1)

-----------------------------------------------------------------------------
\* A sender and a receiver.

VARIABLES
    type,       \* the type of the message that is exchanged
    msg,        \* the message the sender populated
    wire,       \* what Marshal returned
    arrived,    \* nothing as the message is "unsent" or "sent", the "whole" buffer, a "cut" one
                \* or one that is "extended" by an unknown field
    extra,      \* the unknown field
    got         \* what Unmarshal returned

vars == <<type, msg, wire, arrived, extra, got>>

NoBuffer == [ok |-> FALSE, bytes |-> <<>>]

Init ==
    /\ type \in Types
    /\ msg \in Messages(type)
    /\ wire = NoBuffer
    /\ arrived = "unsent"
    /\ extra = <<>>
    /\ got = Fail

Send ==
    /\ arrived = "unsent"
    /\ arrived' = "sent"
    /\ \E rev \in BOOLEAN : wire' = Marshal(type, msg, rev)
    /\ UNCHANGED <<type, msg, extra, got>>

Receive(how, d) ==
    /\ wire.ok
    /\ arrived = "sent"
    /\ arrived' = how
    /\ got' = Unmarshal(type, d)
    /\ UNCHANGED <<type, msg, wire>>

ReceiveWhole == Receive("whole", wire.bytes) /\ UNCHANGED extra

\* The connection is lost within the message.
ReceiveCut ==
    /\ Len(wire.bytes) <= MaxCut
    /\ \E n \in 0 .. Len(wire.bytes) - 1 : Receive("cut", SubSeq(wire.bytes, 1, n))
    /\ UNCHANGED extra

\* The peer is of a newer version and also sends a field this version has no case for.
ReceiveExtended ==
    \E u \in UnknownFields :
        /\ \/ Receive("extended", u \o wire.bytes)
           \/ Receive("extended", wire.bytes \o u)
        /\ extra' = u

Next == Send \/ ReceiveWhole \/ ReceiveCut \/ ReceiveExtended

Spec == Init /\ [][Next]_vars

-----------------------------------------------------------------------------
\* What is decoded is what was encoded, for every message type and every kind of field: the
\* tag bytes of MarshalToSizedBuffer, the cases of Unmarshal and the terms of Size agree.
RoundTrip == arrived = "whole" => got.ok /\ got.v = msg

\* Size() is exactly the number of bytes MarshalToSizedBuffer writes, nested messages
\* included: a smaller one panics, a larger one makes Marshal return zero bytes in front and
\* lose the last bytes of the message.
BufferIsExact ==
    arrived # "unsent" => wire.ok /\ Len(wire.bytes) = Size(type, msg)

IsPart(part, whole, kind) ==
    CASE kind \in {"strings", "msgs"} -> IsPrefix(part, whole)
      [] kind \in {"map_bytes", "map_varint", "map_msg"} ->
            DOMAIN part \subseteq DOMAIN whole /\ \A k \in DOMAIN part : part[k] = whole[k]
      [] OTHER -> part = whole

\* A truncated message is rejected, or cut between two fields: then every field it has is one
\* of the message, with its value, and no field is made up of part of a value.
CutIsNotMisread ==
    arrived = "cut" /\ got.ok =>
        \A e \in UnmarshalTables[type] :
            e[3] \in DOMAIN got.v => e[3] \in DOMAIN msg /\ IsPart(got.v[e[3]], msg[e[3]], e[2])

\* A field of a newer protocol version is stepped over, whatever its wire type and wherever it
\* stands, and is sent on when the message is marshalled again.
UnknownIsKept ==
    arrived = "extended" =>
        /\ got.ok
        /\ got.v = (Unrecognized :> extra) @@ msg
        /\ LET again == Marshal(type, got.v, FALSE)
           IN  again.ok /\ Unmarshal(type, again.bytes) = Read(got.v, Len(again.bytes) + 1)
=============================================================================
