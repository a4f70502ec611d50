-------------------------------- MODULE Tlv8 --------------------------------
(***************************************************************************)
(* The two TLV8 codecs: src/src/tlv8.rs for the values of the camera       *)
(* services, hap/src/tlv.rs for the bodies of pairing requests.  Bytes are *)
(* numbers, a value is a sequence of them, an item a tag with a value.  A  *)
(* value longer than MaxLen goes into several items of the same tag.       *)
(***************************************************************************)
EXTENDS Integers, Sequences, SequencesExt

CONSTANT MaxLen   \* 255

Item(tag, value) == [tag |-> tag, value |-> value]

AtMost(a, b) == IF a < b THEN a ELSE b

\* The parts of at most size bytes that a value is cut into.
Cut(value, size) ==
    [i \in 1..((Len(value) + size - 1) \div size) |->
        SubSeq(value, (i - 1) * size + 1, AtMost(i * size, Len(value)))]
Pieces(value) == Cut(value, MaxLen)

\* Writer::bytes.
Part(tag, piece) == <<tag, Len(piece)>> \o piece
Labelled(tag, pieces) == [i \in DOMAIN pieces |-> Part(tag, pieces[i])]
Bytes(item) ==
    IF item.value = << >>
      THEN <<item.tag, 0>>
      ELSE FlattenSeq(Labelled(item.tag, Pieces(item.value)))

Delimiter == <<0, 0>>

\* Writer, as the callers use it: a delimiter between items of one tag.
Build(items) ==
    FlattenSeq([i \in DOMAIN items |->
        IF i > 1 /\ items[i].tag = items[i - 1].tag THEN Delimiter \o Bytes(items[i])
                                                    ELSE Bytes(items[i])])

-----------------------------------------------------------------------------
(* tlv8.rs: parse.                                                          *)

\* Whether the next item with this tag is a further part of the last one.
Continues(items, tag) ==
    /\ items # << >>
    /\ Last(items).tag = tag
    /\ Last(items).value # << >>
    /\ Len(Last(items).value) % MaxLen = 0

\* One round of the loop in parse; with less than two bytes it ends.
ParseItem(s) ==
    LET tag == s.data[1]
        end == AtMost(2 + s.data[2], Len(s.data))
        value == SubSeq(s.data, 3, end)
    IN IF Len(s.data) < 2
         THEN s
         ELSE [data |-> SubSeq(s.data, end + 1, Len(s.data)),
               items |-> IF Continues(s.items, tag)
                           THEN Append(Front(s.items), Item(tag, Last(s.items).value \o value))
                           ELSE Append(s.items, Item(tag, value))]

\* A round takes two bytes or more: as many rounds as there are bytes do.
Parse(data) ==
    LET after[n \in 0..Len(data)] ==
            IF n = 0 THEN [data |-> data, items |-> << >>] ELSE ParseItem(after[n - 1])
    IN after[Len(data)].items

-----------------------------------------------------------------------------
(* hap/src/tlv.rs: encode and decode, to a map from tags to values.         *)

Encode(items) == FlattenSeq([i \in DOMAIN items |-> Bytes(items[i])])

\* HashMap::insert.
Put(map, tag, value) == [t \in DOMAIN map \cup {tag} |-> IF t = tag THEN value ELSE map[t]]

\* Mutant: the parts of a value are not put together.
Insert_LastPart(map, tag, buf, value) == Put(map, tag, value)

\* A part of less than MaxLen is the last one.
Insert(map, tag, buf, value) == Put(map, tag, buf \o value)

\* One round of the loop in decode.  A full part stays in buf; what is in buf
\* when an item of another tag begins goes into the map under the tag of that
\* item, and is overwritten by it.
DecodeItem(s) ==
    LET tag == s.data[1]
        value == SubSeq(s.data, 3, 2 + s.data[2])
        rest == SubSeq(s.data, 3 + s.data[2], Len(s.data))
        stale == tag # s.last /\ s.buf # << >>
    IN IF s.data = << >>
         THEN s
         ELSE IF s.data[2] = MaxLen
                THEN [data |-> rest, last |-> tag, buf |-> s.buf \o value, map |-> s.map]
                ELSE [data |-> rest, last |-> tag, buf |-> << >>,
                      map |-> IF stale THEN Insert(Put(s.map, tag, s.buf), tag, << >>, value)
                                       ELSE Insert(s.map, tag, s.buf, value)]

Decode(data) ==
    LET after[n \in 0..Len(data)] ==
            IF n = 0
              THEN [data |-> data, last |-> 0, buf |-> << >>, map |-> << >>]
              ELSE DecodeItem(after[n - 1])
        end == after[Len(data)]
    IN IF end.buf = << >> THEN end.map ELSE Put(end.map, end.last, end.buf)
=============================================================================
