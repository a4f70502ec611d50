-------------------------- MODULE RecordingStream --------------------------
(***************************************************************************)
(* What one dataSend recording stream promises the controller, for a set   *)
(* of streams: numbered items, each a run of chunks that is completed      *)
(* before the next item starts, and silence after the final fragment or    *)
(* the close event.  DataSend implements it.                               *)
(***************************************************************************)
EXTENDS Integers

CONSTANTS Streams,
          NumChunks,   \* chunks of the largest item
          SeqMod       \* bound: dataSequenceNumber is kept modulo this

VARIABLES phase,       \* "unopened", "open", "ended"
          seq,         \* number of the last complete item, 0 before the first
          chunk,       \* chunks sent of the item in progress
          final        \* the item in progress is the last and carries endOfStream

vars == <<phase, seq, chunk, final>>

NextSeq(s) == (s % SeqMod) + 1

Init ==
  /\ phase = [n \in Streams |-> "unopened"]
  /\ seq = [n \in Streams |-> 0]
  /\ chunk = [n \in Streams |-> 0]
  /\ final = [n \in Streams |-> FALSE]

Open(n) ==
  /\ phase[n] = "unopened"
  /\ phase' = [phase EXCEPT ![n] = "open"]
  /\ UNCHANGED <<seq, chunk, final>>

\* A chunk that is not the last one of its item.
Chunk(n) ==
  /\ phase[n] = "open"
  /\ chunk[n] + 1 < NumChunks
  /\ chunk' = [chunk EXCEPT ![n] = @ + 1]
  /\ UNCHANGED <<phase, seq, final>>

\* The next item is decided to be the last: never the init segment.
Finalize(n) ==
  /\ phase[n] = "open"
  /\ chunk[n] = 0
  /\ seq[n] # 0
  /\ final' = [final EXCEPT ![n] = TRUE]
  /\ UNCHANGED <<phase, seq, chunk>>

CompleteItem(n) ==
  /\ phase[n] = "open"
  /\ seq' = [seq EXCEPT ![n] = NextSeq(@)]
  /\ chunk' = [chunk EXCEPT ![n] = 0]
  /\ UNCHANGED final

LastChunk(n) == CompleteItem(n) /\ ~final[n] /\ UNCHANGED phase

\* With endOfStream the stream is over.
FinalChunk(n) ==
  /\ CompleteItem(n)
  /\ final[n]
  /\ phase' = [phase EXCEPT ![n] = "ended"]

\* The close event never cuts an item short.
Close(n) ==
  /\ phase[n] = "open"
  /\ chunk[n] = 0
  /\ ~final[n]
  /\ phase' = [phase EXCEPT ![n] = "ended"]
  /\ UNCHANGED <<seq, chunk, final>>

\* The connection broke: the only way to end inside an item.
Break(n) ==
  /\ phase[n] = "open"
  /\ phase' = [phase EXCEPT ![n] = "ended"]
  /\ UNCHANGED <<seq, chunk, final>>

Next ==
  \E n \in Streams : \/ Open(n)
                     \/ Chunk(n)
                     \/ Finalize(n)
                     \/ LastChunk(n)
                     \/ FinalChunk(n)
                     \/ Close(n)
                     \/ Break(n)

Spec == Init /\ [][Next]_vars
=============================================================================
