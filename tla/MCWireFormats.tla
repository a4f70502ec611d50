--------------------------- MODULE MCWireFormats ---------------------------
(* Messages with the values at the boundaries of each form up to a length   *)
(* of 256; the next one, between 65535 and 65536, has no sample.            *)
EXTENDS WireFormats

Hds == INSTANCE HdsCodec

MCHdsEncode(value) == Hds!Encode(value)
MCHdsCompressed(value) == Hds!Compressed(value, << >>).bytes
MCHdsDecode(bytes) == Hds!DecodeOne(bytes)
MCHdsNormal(value) == Hds!Normal(value)
MCHdsNothing == Hds!Val("dict", << >>)

Text(n) == Hds!Val("string", [i \in 1..n |-> 97 + ((i + n) % 26)])
Data(n) == Hds!Val("data", [i \in 1..n |-> i % 256])
Number(n) == Hds!Val("int", n)
Long(n) == Hds!Val("int64", n)
Array(values) == Hds!Val("array", values)
Dict(pairs) == Hds!Val("dict", pairs)
Many(n, Of(_)) == [i \in 1..n |-> Of(i)]

\* The header of a request: protocol, name and id.
Header(id) == Dict(<<Hds!Pair(<<112>>, Text(8)), Hds!Pair(<<114>>, Text(4)), Hds!Pair(<<105>>, Long(id))>>)

Numbers == <<-1, 0, 38, 39, 127, 128, -2, -128, -129, 255, 32767, 32768, -32768, -32769,
             2147483647, -2147483647 - 1>>
Sizes == <<0, 1, 32, 33, 255, 256>>

HdsValues == <<
    Array(Many(12, LAMBDA i : Number(Numbers[i]))),
    Array([i \in DOMAIN Numbers |-> Number(Numbers[i])] \o [i \in DOMAIN Numbers |-> Long(Numbers[i])]),
    Array(<<Hds!Val("bool", TRUE), Hds!Val("bool", FALSE), Hds!Val("null", 0), Hds!Val("bool", TRUE),
            Hds!Val("uuid", [i \in 1..16 |-> i]), Hds!Val("date", [i \in 1..8 |-> 3]),
            Hds!Val("float", [i \in 1..8 |-> 0]), Hds!Val("uuid", [i \in 1..16 |-> i])>>),
    Array(Many(50, LAMBDA i : Number(i)) \o <<Number(47), Number(48), Number(49), Number(50)>>),
    Dict(Many(14, LAMBDA i : Hds!Pair(<<96 + i>>, Number(i % 3)))),
    Dict(Many(15, LAMBDA i : Hds!Pair(<<96 + i>>, Array(<<Number(i % 3), Text(i % 4)>>)))),
    Dict(<<Hds!Pair(<<97>>, Dict(<<Hds!Pair(<<97>>, Text(1)), Hds!Pair(<<98>>, Array(<< >>))>>)),
           Hds!Pair(<<98>>, Dict(<< >>)), Hds!Pair(<<99>>, Text(1))>>)>>

HdsSamples ==
    {<<<<Header(1), HdsValues[i]>>, <<Header(2), Dict(<< >>)>>>> : i \in DOMAIN HdsValues}
      \cup {<<<<Header(1), Array(<<Text(Sizes[i]), Data(Sizes[i]), Text(Sizes[i])>>)>>,
              <<Header(1), Number(1)>>>> : i \in DOMAIN Sizes}
      \cup {<<<<Dict(<< >>), Number(0)>>, <<Dict(<< >>), Number(1)>>, <<Dict(<< >>), Number(2)>>>>}

\* Values of lengths around one and two parts.
Value(n, start) == [i \in 1..n |-> start + i]
Lists(tags) ==
    {<<Tlv!Item(tags[1], Value(a, 10)), Tlv!Item(tags[2], Value(b, 20))>> : a, b \in 0..(2 * MaxLen + 1)}
TlvSamples ==
    {<<items, <<Tlv!Item(6, <<1>>)>>>> : items \in Lists(<<6, 3>>)}
      \cup {<<<<Tlv!Item(6, <<2>>), Tlv!Item(3, Value(a, 10)), Tlv!Item(4, Value(b, 20))>>>> :
               a, b \in (MaxLen - 1)..(2 * MaxLen)}
Tlv8Samples ==
    {<<items, <<Tlv!Item(2, <<1>>)>>>> : items \in Lists(<<1, 1>>) \cup Lists(<<1, 2>>)}

\* 61 is a line that is no event.
EventSamples ==
    {<<<<67, 1, 1>>, <<61>>, <<67, 2, 0, 65, 66>>, <<67, 1, 0>>>>,
     <<<<67, 1, 1, 390, 65>>, <<67, 2, 1, 390>>, <<67, 1, 0>>>>,
     <<<<67, 1, 1, 65, 10, 61, 10, 65>>, <<67, 1, 0>>>>}

MCSamples ==
    {[format |-> "hds", messages |-> m] : m \in HdsSamples}
      \cup {[format |-> "tlv", messages |-> m] : m \in TlvSamples}
      \cup {[format |-> "tlv8", messages |-> m] : m \in Tlv8Samples}
      \cup {[format |-> "event", messages |-> m] : m \in EventSamples}

ASSUME MCRoundTrips == HdsRoundTrips
=============================================================================
