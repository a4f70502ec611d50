------------------------------ MODULE HdsCodec ------------------------------
(***************************************************************************)
(* The values of HDS messages: src/src/hsv/codec.rs.  A value has a kind   *)
(* and a content v: a truth value, a number, a sequence of bytes, or a     *)
(* sequence of values (of pairs of a key and a value).  Floats, dates and  *)
(* UUIDs are the bytes they are written as.  Numbers stay below 2^31, the  *)
(* upper half of an int64 is its sign.                                     *)
(***************************************************************************)
EXTENDS Integers, Sequences, SequencesExt

Val(kind, v) == [kind |-> kind, v |-> v]
Pair(k, v) == <<Val("string", k), v>>
IsLeaf(value) == value.kind \notin {"array", "dict"}

Byte(v, i) == IF i <= 4 THEN (v \div (256 ^ (i - 1))) % 256 ELSE IF v < 0 THEN 255 ELSE 0
LittleEndian(v, width) == [i \in 1..width |-> Byte(v, i)]

Unsigned(bytes) == FoldLeftDomain(LAMBDA sum, i : sum + bytes[i] * (256 ^ (i - 1)), 0, bytes)
Signed(bytes) ==
    LET low == SubSeq(bytes, 1, IF Len(bytes) < 4 THEN Len(bytes) ELSE 4)
        top == Len(low)
    IN Unsigned(SubSeq(low, 1, top - 1))
         + (IF low[top] >= 128 THEN low[top] - 256 ELSE low[top]) * (256 ^ (top - 1))

-----------------------------------------------------------------------------
(* encode                                                                   *)

\* Mutant: 128 is taken for an i8.
IntBytes_WideByte(v) ==
    CASE v = -1 -> <<7>>
      [] v \in 0..38 -> <<8 + v>>
      [] v \notin -1..38 /\ v \in -128..128 -> <<48>> \o LittleEndian(v, 1)
      [] v \notin -128..128 /\ v \in -32768..32767 -> <<49>> \o LittleEndian(v, 2)
      [] OTHER -> <<50>> \o LittleEndian(v, 4)

\* encode_int.
IntBytes(v) ==
    CASE v = -1 -> <<7>>
      [] v \in 0..38 -> <<8 + v>>
      [] v \notin -1..38 /\ v \in -128..127 -> <<48>> \o LittleEndian(v, 1)
      [] v \notin -128..127 /\ v \in -32768..32767 -> <<49>> \o LittleEndian(v, 2)
      [] OTHER -> <<50>> \o LittleEndian(v, 4)

\* A length after the tag of the narrowest form that holds it.
Sized(tag, bytes) ==
    LET width == IF Len(bytes) <= 255 THEN 1 ELSE IF Len(bytes) <= 65535 THEN 2 ELSE 4
    IN <<IF width = 4 THEN tag + 2 ELSE tag + width - 1>>
         \o LittleEndian(Len(bytes), width) \o bytes

LeafBytes(value) ==
    CASE value.kind = "bool" -> <<IF value.v THEN 1 ELSE 2>>
      [] value.kind = "null" -> <<4>>
      [] value.kind = "uuid" -> <<5>> \o value.v
      [] value.kind = "date" -> <<6>> \o value.v
      [] value.kind = "float" -> <<54>> \o value.v
      [] value.kind = "int" -> IntBytes(value.v)
      [] value.kind = "int64" -> <<51>> \o LittleEndian(value.v, 8)
      [] value.kind = "string" -> IF Len(value.v) <= 32 THEN <<64 + Len(value.v)>> \o value.v
                                                        ELSE Sized(97, value.v)
      [] value.kind = "data" -> Sized(145, value.v)

\* A container says how many it holds, or ends with a terminator.
Container(tag, short, count, content) ==
    IF count <= short THEN <<tag + count>> \o content ELSE <<tag + 15>> \o content \o <<3>>

\* encode.
RECURSIVE Encode(_)
Encode(value) ==
    CASE value.kind = "array" ->
           Container(208, 12, Len(value.v),
                     FlattenSeq([i \in DOMAIN value.v |-> Encode(value.v[i])]))
      [] value.kind = "dict" ->
           Container(224, 14, Len(value.v),
                     FlattenSeq([i \in DOMAIN value.v |->
                         Encode(value.v[i][1]) \o Encode(value.v[i][2])]))
      [] OTHER -> LeafBytes(value)

-----------------------------------------------------------------------------
(* Decoder: the value at pos, where the next one begins, and the leaves     *)
(* decoded so far.  "end" is a terminator, "error" the end of the decoding. *)

At(kind, v, pos, tracked) == [value |-> Val(kind, v), pos |-> pos, tracked |-> tracked]
Failed(pos, tracked) == At("error", 0, pos, tracked)

\* Every leaf is tracked.
Track(tracked, kind, v) == Append(tracked, Val(kind, v))

\* take: width bytes after the tag, if there are as many.  Only integers are
\* read as numbers; a float keeps its bytes (a single is widened when read).
Taken(buf, pos, width, kind, tracked) ==
    IF Len(buf) < pos + width
      THEN Failed(pos, tracked)
      ELSE LET bytes == SubSeq(buf, pos + 1, pos + width)
               v == IF kind = "int" THEN Signed(bytes) ELSE bytes
           IN At(kind, v, pos + 1 + width, Track(tracked, kind, v))

\* read_length, then as many bytes.
Lengthed(buf, pos, width, kind, tracked) ==
    IF Len(buf) < pos + width
      THEN Failed(pos, tracked)
      ELSE Taken(buf, pos + width, Unsigned(SubSeq(buf, pos + 1, pos + width)), kind,
                 tracked)

\* Bytes up to a terminating one.
Terminated(buf, pos, kind, terminator, tracked) ==
    LET ends == {i \in (pos + 1)..Len(buf) : buf[i] = terminator}
    IN IF ends = {}
         THEN Failed(pos, tracked)
         ELSE LET last == CHOOSE i \in ends : \A j \in ends : i <= j
                  v == SubSeq(buf, pos + 1, last - 1)
              IN At(kind, v, last + 1, Track(tracked, kind, v))

RECURSIVE DecodeAt(_, _, _), Members(_, _, _, _, _)
\* n members of a container, or all before the terminator (n = -1).
Members(buf, pos, tracked, n, members) ==
    IF n = 0
      THEN At("members", members, pos, tracked)
      ELSE LET next == DecodeAt(buf, pos, tracked)
           IN CASE next.value.kind = "error" -> next
                [] next.value.kind = "end" ->
                     IF n = -1 THEN At("members", members, next.pos, next.tracked)
                               ELSE Failed(pos, tracked)
                [] OTHER -> Members(buf, next.pos, next.tracked, IF n = -1 THEN n ELSE n - 1,
                                    Append(members, next.value))

\* Members as entries of a dictionary: keys are strings, each has a value.
Pairs(members) ==
    IF Len(members.value.v) % 2 = 0
         /\ \A i \in DOMAIN members.value.v :
               i % 2 = 1 => members.value.v[i].kind = "string"
      THEN At("dict", [i \in 1..(Len(members.value.v) \div 2) |->
                          <<members.value.v[2 * i - 1], members.value.v[2 * i]>>],
              members.pos, members.tracked)
      ELSE Failed(members.pos, members.tracked)

DecodeAt(buf, pos, tracked) ==
    IF pos > Len(buf)
      THEN Failed(pos, tracked)
      ELSE LET tag == buf[pos]
               Leaf(kind, v) == At(kind, v, pos + 1, Track(tracked, kind, v))
               Inside(n) == Members(buf, pos + 1, tracked, n, << >>)
           IN
    CASE tag = 1 -> Leaf("bool", TRUE)
      [] tag = 2 -> Leaf("bool", FALSE)
      [] tag = 3 -> At("end", 0, pos + 1, tracked)
      [] tag = 4 -> Leaf("null", 0)
      [] tag = 5 -> Taken(buf, pos, 16, "uuid", tracked)
      [] tag = 6 -> Taken(buf, pos, 8, "date", tracked)
      [] tag = 7 -> Leaf("int", -1)
      [] tag \in 8..47 -> Leaf("int", tag - 8)
      [] tag \in 48..51 -> Taken(buf, pos, 2 ^ (tag - 48), "int", tracked)
      [] tag = 53 -> Taken(buf, pos, 4, "single", tracked)
      [] tag = 54 -> Taken(buf, pos, 8, "float", tracked)
      [] tag \in 64..96 -> Taken(buf, pos, tag - 64, "string", tracked)
      [] tag \in 97..100 -> Lengthed(buf, pos, tag - 96, "string", tracked)
      [] tag = 111 -> Terminated(buf, pos, "string", 0, tracked)
      [] tag \in 112..144 -> Taken(buf, pos, tag - 112, "data", tracked)
      [] tag \in 145..148 -> Lengthed(buf, pos, tag - 144, "data", tracked)
      [] tag = 159 -> Terminated(buf, pos, "data", 3, tracked)
      [] tag \in 160..207 ->
           IF tag - 159 \in DOMAIN tracked
             THEN [value |-> tracked[tag - 159], pos |-> pos + 1, tracked |-> tracked]
             ELSE Failed(pos, tracked)
      [] tag \in 208..223 ->
           LET inside == Inside(IF tag = 223 THEN -1 ELSE tag - 208)
           IN IF inside.value.kind = "error" THEN inside
              ELSE At("array", inside.value.v, inside.pos, inside.tracked)
      [] tag \in 224..239 ->
           LET inside == Inside(IF tag = 239 THEN -1 ELSE 2 * (tag - 224))
           IN IF inside.value.kind = "error" THEN inside ELSE Pairs(inside)
      [] OTHER -> Failed(pos, tracked)

DecodeOne(buf) == DecodeAt(buf, 1, << >>).value

-----------------------------------------------------------------------------
\* Int64 is a hint for the encoder only.
RECURSIVE Normal(_)
Normal(value) ==
    CASE value.kind = "int64" -> Val("int", value.v)
      [] value.kind = "array" -> Val("array", [i \in DOMAIN value.v |-> Normal(value.v[i])])
      [] value.kind = "dict" ->
           Val("dict", [i \in DOMAIN value.v |-> <<value.v[i][1], Normal(value.v[i][2])>>])
      [] OTHER -> value

\* The controller's encoder: a leaf that came before is a reference to it.
RECURSIVE Compressed(_, _)
CompressedAll(values, start) ==
    FoldLeft(LAMBDA sum, value : LET next == Compressed(value, sum.tracked)
                                 IN [bytes |-> sum.bytes \o next.bytes, tracked |-> next.tracked],
             start, values)
Compressed(value, tracked) ==
    LET leaf == Normal(value)
        known == {i \in DOMAIN tracked : i <= 48 /\ tracked[i] = leaf}
        inside == CompressedAll(IF value.kind = "dict" THEN FlattenSeq(value.v) ELSE value.v,
                                [bytes |-> << >>, tracked |-> tracked])
    IN CASE IsLeaf(value) /\ known = {} ->
              [bytes |-> LeafBytes(value), tracked |-> Append(tracked, leaf)]
         [] IsLeaf(value) /\ known # {} ->
              [bytes |-> <<159 + CHOOSE i \in known : \A j \in known : i <= j>>, tracked |-> tracked]
         [] value.kind = "array" ->
              [bytes |-> Container(208, 12, Len(value.v), inside.bytes), tracked |-> inside.tracked]
         [] value.kind = "dict" ->
              [bytes |-> Container(224, 14, Len(value.v), inside.bytes), tracked |-> inside.tracked]
=============================================================================
