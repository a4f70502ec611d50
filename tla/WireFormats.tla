----------------------------- MODULE WireFormats -----------------------------
(***************************************************************************)
(* What the program reads from its TCP connections, which cut it anywhere: *)
(*   hds    frames of a HomeKit data stream (hsv/frame.rs, hsv/hds.rs)     *)
(*          with a header and a message of hsv/codec.rs in each            *)
(*   tlv    encrypted HAP records (hap/src/transport/tcp.rs), the requests *)
(*          in them pairing TLVs (hap/src/tlv.rs)                          *)
(*   tlv8   the same with values of the camera services (tlv8.rs)          *)
(*   event  lines of the camera's event stream (amcrest.rs)                *)
(* The wire is a sequence of cells.  A cell of ciphertext knows the nonce  *)
(* it was made with and its place, so that decryption succeeds exactly for *)
(* a whole frame with the right counter.                                   *)
(***************************************************************************)
EXTENDS Integers, Sequences, SequencesExt

CONSTANTS MaxLen,      \* longest part of a TLV: 255
          RecordMax,   \* longest record: 1024
          TagLen,      \* length of an authentication tag: 16
          Cuts,        \* bound: how many cells arrive at once
          Samples      \* bound: pairs of a format and what is sent in it

\* hsv/codec.rs (HdsCodec): its encoder, that of a controller which refers back
\* to what it wrote before, its decoder, the value of an empty message, and what
\* is left of a value on the way.
CONSTANTS HdsEncode(_), HdsCompressed(_), HdsDecode(_), HdsNothing, HdsNormal(_)

Tlv == INSTANCE Tlv8

Formats == {"hds", "tlv", "tlv8", "event"}
Byte == 0..255

\* A character of an event line; one that is not ASCII takes two bytes, which
\* it is made of.
Wide(ch) == ch \div 256 \in 1..63 /\ ch % 256 \in 128..191
Character(ch) == ch \in 0..127 \/ Wide(ch)

\* The longest payload of a frame.
MaxPayload == 1048575

\* Tag 0 of a value of the camera services is for the delimiter.  A header has at
\* most 255 bytes, a payload at most MaxPayload: FrameWriter::send
\* and encrypt_frame refuse others.
Sendable(kind, message) ==
    CASE kind = "hds" ->
           /\ \A i \in 1..2 : {HdsEncode(message[i]), HdsCompressed(message[i])} \subseteq Seq(Byte)
           /\ {Len(HdsEncode(message[1])), Len(HdsCompressed(message[1]))} \subseteq Byte
           /\ Len(HdsEncode(message[1])) + Len(HdsEncode(message[2])) < MaxPayload
           /\ Len(HdsCompressed(message[1])) + Len(HdsCompressed(message[2])) < MaxPayload
      [] kind = "tlv" -> message \in Seq([tag : Byte, value : Seq(Byte)])
      [] kind = "tlv8" -> message \in Seq([tag : Byte \ {0}, value : Seq(Byte)])
      [] kind = "event" -> message \in Seq(Nat) /\ \A i \in DOMAIN message : Character(message[i])

ASSUME WireAssumption ==
    /\ MaxLen \in Nat /\ 0 < MaxLen /\ MaxLen < 256
    /\ RecordMax \in Nat /\ 0 < RecordMax /\ RecordMax < 65536
    /\ TagLen \in Nat
ASSUME CutsAssumption ==
    1 \in Cuts /\ \A n \in Cuts : n \in Nat /\ n > 0
ASSUME SamplesAssumption ==
    \A sample \in Samples :
        /\ sample.format \in Formats
        /\ sample.messages \in Seq(Range(sample.messages))
        /\ \A message \in Range(sample.messages) : Sendable(sample.format, message)

VARIABLES format, sent,
          wire,     \* cells that have not arrived
          buf,      \* buf, encrypted_buf, buffer
          counter,  \* read_counter, decrypt_count
          plain,    \* decrypted_buf and what hyper read of it
          got,      \* what was decoded
          state     \* "open", "closed", "failed"
wireVars == <<format, sent, wire, buf, counter, plain, got, state>>

-----------------------------------------------------------------------------
(* The wire.                                                                *)

Plain(b) == [nonce |-> 0, at |-> 0, byte |-> b]
PlainAll(bytes) == [i \in DOMAIN bytes |-> Plain(bytes[i])]

\* A ciphertext and its tag, under the n-th nonce.
Sealed(n, bytes) ==
    [i \in 1..(Len(bytes) + TagLen) |->
        [nonce |-> n, at |-> i, byte |-> IF i <= Len(bytes) THEN bytes[i] ELSE 0]]

\* The lowest byte of a number, and what is above it.
Low(n) == n % 256
High(n) == n \div 256

\* encrypt_frame: type, length, ciphertext, tag.
Frame(n, payload) ==
    LET length == Len(payload)
    IN PlainAll(<<1, High(High(length)), Low(High(length)), Low(length)>>) \o Sealed(n, payload)

\* A HAP record: length, ciphertext, tag.
Record(n, chunk) == PlainAll(<<Low(Len(chunk)), High(Len(chunk))>>) \o Sealed(n, chunk)

\* FrameWriter::send.
Payload(message) ==
    LET header == HdsEncode(message[1]) IN <<Len(header)>> \o header \o HdsEncode(message[2])

\* The same from a controller that refers back to what it wrote before.
PeerPayload(message) ==
    LET header == HdsCompressed(message[1])
    IN <<Len(header)>> \o header \o HdsCompressed(message[2])

Body(kind, items) == IF kind = "tlv" THEN Tlv!Encode(items) ELSE Tlv!Build(items)

\* Each message in records of its own.
Chunks(bytes) == Tlv!Cut(bytes, RecordMax)

\* Lines of a code, an action and data, in characters; 10 ends a line.
Newline == 10
LineBytes(line) ==
    FlattenSeq([i \in DOMAIN line |->
        IF Wide(line[i]) THEN <<line[i] \div 256 + 192, line[i] % 256>> ELSE <<line[i]>>])
      \o <<Newline>>

Frames(messages, peer) ==
    [i \in DOMAIN messages |->
        Frame(i, IF peer THEN PeerPayload(messages[i]) ELSE Payload(messages[i]))]
Bodies(kind, messages) == [i \in DOMAIN messages |-> Body(kind, messages[i])]
AllChunks(bodies) == FlattenSeq([i \in DOMAIN bodies |-> Chunks(bodies[i])])
Records(chunks) == [i \in DOMAIN chunks |-> Record(i, chunks[i])]
Lines(messages) == [i \in DOMAIN messages |-> PlainAll(LineBytes(messages[i]))]

WireOf(kind, messages, peer) ==
    FlattenSeq(
      CASE kind = "hds" -> Frames(messages, peer)
        [] kind \in {"tlv", "tlv8"} -> Records(AllChunks(Bodies(kind, messages)))
        [] kind = "event" -> Lines(messages))

WireInit ==
    /\ \E sample \in Samples, peer \in BOOLEAN :
        /\ format = sample.format /\ sent = sample.messages
        /\ wire = WireOf(format, sent, peer)
    /\ buf = << >> /\ counter = 0 /\ plain = << >> /\ got = << >> /\ state = "open"

-----------------------------------------------------------------------------
Update(b, c, p, g, s) ==
    /\ buf' = b /\ counter' = c /\ plain' = p /\ got' = g /\ state' = s
    /\ UNCHANGED <<format, sent, wire>>

Bytes(cells) == [i \in DOMAIN cells |-> cells[i].byte]
Drop(cells, n) == SubSeq(cells, n + 1, Len(cells))

\* Decryption of what the parser took for a frame.
Opens(cells, count) ==
    /\ \A i \in DOMAIN cells : cells[i].nonce = count + 1 /\ cells[i].at = i
    /\ cells # << >>
Content(cells) == Bytes(SubSeq(cells, 1, Len(cells) - TagLen))

IsHigh(cells, i) == i \in DOMAIN cells /\ cells[i].byte >= 192

\* Mutant: the bytes are pushed one by one.
Lossy_Raw(cells) == cells

\* from_utf8_lossy on what arrived: half a character becomes a replacement.
Lossy(cells) ==
    FlattenSeq([i \in DOMAIN cells |->
        CASE IsHigh(cells, i) -> IF i < Len(cells)
                THEN <<Plain((cells[i].byte - 192) * 256 + cells[i + 1].byte)>>
                ELSE <<Plain(65533)>>
          [] ~IsHigh(cells, i) /\ IsHigh(cells, i - 1) -> << >>
          [] ~IsHigh(cells, i) /\ ~IsHigh(cells, i - 1) ->
                IF cells[i].byte \in 128..191 THEN <<Plain(65533)>> ELSE <<cells[i]>>])

-----------------------------------------------------------------------------
(* hds: handle_connection.                                                  *)

\* Mutant: a frame is taken for complete when its tag has not arrived.
FrameLength_NoTag(cells) == 4 + cells[2].byte * 65536 + cells[3].byte * 256 + cells[4].byte

\* complete_frame_len: of the whole frame; one of another type or too long is an error.
FrameLength(cells) ==
    4 + cells[2].byte * 65536 + cells[3].byte * 256 + cells[4].byte + TagLen
FrameBad(cells) == cells[1].byte # 1 \/ FrameLength(cells) > 4 + MaxPayload + 2 * TagLen
FrameComplete ==
    /\ format = "hds" /\ Len(buf) >= 4
    /\ FrameBad(buf) \/ Len(buf) >= FrameLength(buf)

\* handle_payload: a decoder for the header, one for the message; a terminator
\* stands for an empty message.
Message(payload) ==
    LET message == HdsDecode(SubSeq(payload, payload[1] + 2, Len(payload)))
    IN <<HdsDecode(Tail(payload)),
         IF message.kind = "end" THEN HdsNothing ELSE message>>
Rejected(payload) ==
    \/ payload = << >>
    \/ Len(payload) < payload[1] + 1
    \/ Message(payload)[1].kind \in {"error", "end"}
    \/ Message(payload)[2].kind = "error"

ReadFrame ==
    /\ state = "open" /\ FrameComplete
    /\ LET length == FrameLength(buf)
           cells == SubSeq(buf, 5, length)
       IN IF FrameBad(buf) \/ ~Opens(cells, counter) \/ Rejected(Content(cells))
            THEN Update(buf, counter, plain, got, "failed")
            ELSE Update(Drop(buf, length), counter + 1, plain,
                        Append(got, Message(Content(cells))), state)

-----------------------------------------------------------------------------
(* tlv, tlv8: poll_read and decrypt_buffered_record.                        *)

RecordLength(cells) == 2 + cells[1].byte + cells[2].byte * 256 + TagLen
RecordTooLong(cells) == RecordLength(cells) > 2 + RecordMax + TagLen

\* There is something to do: a whole record, or a length that is refused at once.
RecordComplete ==
    /\ format \in {"tlv", "tlv8"} /\ Len(buf) >= 2
    /\ RecordTooLong(buf) \/ Len(buf) >= RecordLength(buf)

\* Records are decrypted while there are any.
ReadRecord ==
    /\ state = "open" /\ RecordComplete
    /\ LET length == RecordLength(buf)
           cells == SubSeq(buf, 3, length)
       IN IF RecordTooLong(buf)
            THEN Update(buf, counter, plain, got, "failed")
            ELSE IF Opens(cells, counter)
                   THEN Update(Drop(buf, length), counter + 1, plain \o Content(cells), got, state)
                   ELSE Update(buf, counter + 1, plain, got, "failed")

\* hyper has the whole body and hands it to the handler.
NextBody == Len(Body(format, sent[Len(got) + 1]))
BodyComplete ==
    format \in {"tlv", "tlv8"} /\ Len(got) < Len(sent) /\ Len(plain) >= NextBody
ReadBody ==
    /\ state = "open" /\ BodyComplete
    /\ LET body == SubSeq(plain, 1, NextBody)
       IN Update(buf, counter, Drop(plain, NextBody),
                 Append(got, IF format = "tlv" THEN Tlv!Decode(body) ELSE Tlv!Parse(body)), state)

-----------------------------------------------------------------------------
(* event: stream_events.                                                    *)

Newlines == IF format = "event" THEN {i \in DOMAIN buf : buf[i].byte = Newline} ELSE {}

\* Mutant: what follows the line in the buffer is thrown away.
Rest_Nothing(cells, i) == << >>

\* The buffer after the line that ends at i.
Rest(cells, i) == Drop(cells, i)

Marker == 67     \* Code=
IsEvent(line) == Len(line) >= 3 /\ line[1] = Marker

ReadLine ==
    /\ state = "open" /\ Newlines # {}
    /\ LET i == CHOOSE i \in Newlines : \A j \in Newlines : i <= j
           line == Bytes(SubSeq(buf, 1, i - 1))
       IN Update(Rest(buf, i), counter, plain, IF IsEvent(line) THEN Append(got, line) ELSE got,
                 state)

-----------------------------------------------------------------------------
\* Each reader handles all it has before it reads on.
Arrive(n) ==
    /\ state = "open"
    /\ n <= Len(wire)
    /\ ~FrameComplete /\ ~RecordComplete /\ Newlines = {}
    /\ LET cells == SubSeq(wire, 1, n)
       IN buf' = buf \o (IF format = "event" THEN Lossy(cells) ELSE cells)
    /\ wire' = Drop(wire, n)
    /\ UNCHANGED <<format, sent, counter, plain, got, state>>

\* The peer closes, and the reader has read everything; a HAP record cut short
\* is an error.
Eof ==
    /\ state = "open" /\ wire = << >>
    /\ ~FrameComplete /\ ~RecordComplete /\ ~BodyComplete /\ Newlines = {}
    /\ Update(buf, counter, plain, got,
              IF format \in {"tlv", "tlv8"} /\ buf # << >> THEN "failed" ELSE "closed")

WireNext ==
    \/ \E n \in Cuts : Arrive(n)
    \/ ReadFrame \/ ReadRecord \/ ReadBody \/ ReadLine
    \/ Eof

WireSpec == WireInit /\ [][WireNext]_wireVars

-----------------------------------------------------------------------------
\* A counter counts what was decrypted, and the buffer of the event stream holds
\* whole characters (read_counter, decrypt_count, buffer).
WireTypeOK ==
    /\ format \in Formats /\ state \in {"open", "closed", "failed"}
    /\ format = "hds" => counter = Len(got)
    /\ format = "event" => \A i \in DOMAIN buf : buf[i].byte \notin 128..255
    /\ \A i \in DOMAIN plain : plain[i] \in 0..255

\* All that is decoded is what was sent, in order; at the end of the stream
\* nothing is missing.
Survives(expected) ==
    /\ state # "failed"
    /\ IsPrefix(got, expected)
    /\ state = "closed" => got = expected

\* The decoder gives back what either encoder wrote (encode, Decoder::decode).
HdsRoundTrips ==
    \A sample \in Samples : sample.format = "hds" =>
        \A m \in Range(sample.messages) :
            /\ \A j \in 1..2 : HdsNormal(m[j]).kind \notin {"error", "end"}
            /\ \A payload \in {Payload(m), PeerPayload(m)} :
                   Message(payload) = <<HdsNormal(m[1]), HdsNormal(m[2])>>

\* Every message of a data stream arrives as it was sent, however the stream is
\* cut, whether or not the controller writes repeated values as references
\* (handle_connection, Decoder).  Of the samples, that is: none has a text or data
\* of 65536 bytes or more, whose length encode writes in four bytes, as
\* docs/hds-wire-format.md has it, and read_length takes for one of three.
HdsSurvives ==
    format = "hds" =>
        Survives([i \in DOMAIN sent |-> <<HdsNormal(sent[i][1]), HdsNormal(sent[i][2])>>])

\* What decode makes of a container: the value of each tag.
Lookup(items) == [tag \in {items[i].tag : i \in DOMAIN items} |->
                    (CHOOSE i \in DOMAIN items : items[i].tag = tag)]
Values(items) == LET at == Lookup(items) IN [tag \in DOMAIN at |-> items[at[tag]].value]

\* decode loses a value that ends with a full part when another tag follows, and
\* keeps one value of a tag.
Decodable(items) ==
    /\ \A i \in DOMAIN items :
         i < Len(items) => items[i].value = << >> \/ Len(items[i].value) % MaxLen # 0
    /\ \A i, j \in DOMAIN items : items[i].tag = items[j].tag => i = j

\* What parse makes of what Writer built: repeated tags are kept apart.
Separated(items) ==
    FlattenSeq([i \in DOMAIN items |->
        IF i > 1 /\ items[i].tag = items[i - 1].tag THEN <<Tlv!Item(0, << >>), items[i]>>
                                                    ELSE <<items[i]>>])

\* A pairing request arrives with every value, if decode can tell them apart; a
\* value of the camera services arrives item by item, the long ones in one piece;
\* both however the records cut them (encode and decode of hap/src/tlv.rs, Writer
\* and parse of tlv8.rs).
TlvSurvives ==
    /\ format = "tlv" /\ (\A i \in DOMAIN sent : Decodable(sent[i])) =>
          Survives([i \in DOMAIN sent |-> Values(sent[i])])
    /\ format = "tlv8" => Survives([i \in DOMAIN sent |-> Separated(sent[i])])

\* Code and action of every event arrive, however the stream is cut, whatever
\* the data; the data too unless it has line breaks or wide characters
\* (stream_events).
EventsSurvive ==
    LET events == SelectSeq(sent, IsEvent)
        CodeAndAction(lines) == [i \in DOMAIN lines |-> SubSeq(lines[i], 1, 3)]
        OneLine == \A i \in DOMAIN events : \A j \in DOMAIN events[i] : events[i][j] \in 11..127
    IN format = "event" =>
        /\ IsPrefix(CodeAndAction(got), CodeAndAction(events))
        /\ state = "closed" => CodeAndAction(got) = CodeAndAction(events)
        /\ OneLine => Survives(events)
=============================================================================
