--------------------------- MODULE DataSendProofs ---------------------------
(***************************************************************************)
(* The recording streams keep their types, a cancelled pump begins at most *)
(* one more item, and every stream keeps the contract of RecordingStream,  *)
(* for every number of connections, streams, fragments and chunks.         *)
(***************************************************************************)
EXTENDS DataSend, TLAPS

-----------------------------------------------------------------------------
(* The inductive invariant, stated of one stream at a time.                *)

\* A late item is the only one, and no other starts behind it: the pump is
\* past its first chunk, or about to look at cancel.
LateOnce(r) ==
  r.late # 0 => /\ r.late = 1
                /\ r.cancel
                /\ r.pc \notin {"start", "recv"}
                /\ r.pc = "item" => r.chunk # 0

\* A chunk is outstanding only within an item; the init segment is complete
\* before the loop, and the final fragment ends it.
InOrder(r) ==
  /\ r.pc \notin {"item", "returned", "done"} => r.chunk = 0 /\ ~r.eos
  /\ r.pc = "none" => r.seq = 0
  /\ r.pc \in {"loop", "recv"} \/ r.eos => r.seq # 0

Good(r) == LateOnce(r) /\ InOrder(r)

IInv == TypeOK /\ \A n \in Streams : Good(stream[n])

-----------------------------------------------------------------------------
(* The steps of a pump.                                                    *)

LEMMA NextSeqType ==
  ASSUME NEW s \in 0..SeqMod
  PROVE  NextSeq(s) \in 1..SeqMod
BY DataSendAssumption DEF NextSeq

LEMMA NoStreamType == NoStream \in Stream
<1>1. 0 \in 0..MaxPre /\ 0 \in 0..SeqMod /\ 0 \in 0..NumChunks-1 /\ 1 \in 1..NumChunks
  BY DataSendAssumption
<1> QED BY <1>1 DEF NoStream, Stream, MaxLate

\* The record of a new stream.
LEMMA NewStream ==
  ASSUME NEW c \in Conns
  PROVE  /\ [NoStream EXCEPT !.owner = c, !.pc = "start"] \in Stream
         /\ Good([NoStream EXCEPT !.owner = c, !.pc = "start"])
<1> DEFINE r == [NoStream EXCEPT !.owner = c, !.pc = "start"]
<1>1. NoStream \in Stream
  BY NoStreamType
<1>2. r \in Stream
  BY <1>1 DEF Stream
<1>3. r.late = 0 /\ r.pc = "start" /\ r.chunk = 0 /\ ~r.eos
  BY DEF NoStream
<1>4. Good(r)
  BY <1>3 DEF Good, LateOnce, InOrder
<1> QED BY <1>2, <1>4

\* The fields a pump step may set; every step leaves a good record.
LEMMA StartItemGood ==
  ASSUME NEW n \in Streams, NEW f \in Stream, StartItem(n, f),
         f.late = 0, f.eos => f.seq # 0
  PROVE  \E r \in Stream : Update(n, r) /\ Good(r)
<1>1. PICK k \in 1..NumChunks :
        Update(n, [f EXCEPT !.pc = "item", !.chunk = 0, !.size = k])
  BY DEF StartItem
<1> DEFINE r == [f EXCEPT !.pc = "item", !.chunk = 0, !.size = k]
<1>2. r \in Stream
  <2>1. 0 \in 0..NumChunks-1
    BY DataSendAssumption
  <2> QED BY <2>1 DEF Stream
<1>3. r.late = 0 /\ r.pc = "item" /\ r.eos = f.eos /\ r.seq = f.seq
  BY DEF Stream
<1>4. Good(r)
  BY <1>3 DEF Good, LateOnce, InOrder
<1> QED BY <1>1, <1>2, <1>4

\* A step that only moves a pump on.
LEMMA GotoGood ==
  ASSUME NEW n \in Streams, NEW pc \in {"loop", "recv", "close", "returned", "done"},
         stream[n] \in Stream, Goto(n, pc),
         Good([stream[n] EXCEPT !.pc = pc])
  PROVE  \E r \in Stream : Update(n, r) /\ Good(r)
<1>1. [stream[n] EXCEPT !.pc = pc] \in Stream
  BY DEF Stream
<1> QED BY <1>1 DEF Goto

LEMMA PumpStepGood ==
  ASSUME TypeOK, NEW n \in Streams, Good(stream[n]), PumpStep(n)
  PROVE  \E r \in Stream : Update(n, r) /\ Good(r)
<1> stream[n] \in Stream
  BY DEF TypeOK
<1>1. CASE PumpInit(n)
  <2>1. PICK k \in 0..MaxPre : StartItem(n, [stream[n] EXCEPT !.left = k])
    BY <1>1 DEF PumpInit
  <2>2. [stream[n] EXCEPT !.left = k] \in Stream
    BY DEF Stream
  <2>3. stream[n].late = 0 /\ (stream[n].eos => stream[n].seq # 0)
    BY <1>1 DEF PumpInit, Good, LateOnce, InOrder
  <2> QED BY <2>1, <2>2, <2>3, StartItemGood DEF Stream
<1>2. CASE PumpNothingBuffered(n)
  BY <1>2, GotoGood DEF PumpNothingBuffered, Good, LateOnce, InOrder, Stream
<1>3. CASE PumpChunk(n)
  <2> DEFINE r == [stream[n] EXCEPT !.chunk = @ + 1, !.late = LateIfFirst(stream[n])]
  <2>1. stream[n].chunk + 1 \in 1..NumChunks-1
    BY <1>3, DataSendAssumption DEF PumpChunk, Stream
  <2>2. LateIfFirst(stream[n]) \in 0..MaxLate
    BY DEF LateIfFirst, Stream, MaxLate
  <2>3. stream[n].chunk + 1 \in 0..NumChunks-1
    BY <2>1
  <2>4. r \in Stream
    BY <2>2, <2>3 DEF Stream
  <2>5. /\ r.pc = "item"
        /\ r.chunk = stream[n].chunk + 1
        /\ r.eos = stream[n].eos
        /\ r.seq = stream[n].seq
        /\ r.cancel = stream[n].cancel
        /\ r.late = LateIfFirst(stream[n])
    BY <1>3 DEF PumpChunk, Stream
  <2>6. Good(r)
    BY <1>3, <2>1, <2>5 DEF PumpChunk, LateIfFirst, Good, LateOnce, InOrder, Stream
  <2> QED BY <1>3, <2>4, <2>6 DEF PumpChunk
<1>4. CASE PumpLastChunk(n)
  <2> DEFINE r == [stream[n] EXCEPT !.chunk = 0, !.seq = NextSeq(@),
                                    !.late = LateIfFirst(stream[n]),
                                    !.pc = AfterItem(stream[n].eos)]
  <2>1. NextSeq(stream[n].seq) \in 1..SeqMod
    BY NextSeqType DEF Stream
  <2>2. LateIfFirst(stream[n]) \in 0..MaxLate
    BY DEF LateIfFirst, Stream, MaxLate
  <2>3. r \in Stream
    <3>1. 0 \in 0..NumChunks-1 /\ NextSeq(stream[n].seq) \in 0..SeqMod
      BY <2>1, DataSendAssumption
    <3>2. AfterItem(stream[n].eos) \in {"returned", "loop"}
      BY DEF AfterItem
    <3> QED BY <2>2, <3>1, <3>2 DEF Stream
  <2>4. /\ r.chunk = 0
        /\ r.seq # 0
        /\ r.eos = stream[n].eos
        /\ r.cancel = stream[n].cancel
        /\ r.late = LateIfFirst(stream[n])
        /\ r.pc = IF stream[n].eos THEN "returned" ELSE "loop"
    BY <2>1 DEF AfterItem, Stream
  <2>5. Good(r)
    BY <1>4, <2>4 DEF PumpLastChunk, LateIfFirst, Good, LateOnce, InOrder, Stream
  <2> QED BY <1>4, <2>3, <2>5 DEF PumpLastChunk
<1>5. CASE PumpCancelled(n)
  BY <1>5, GotoGood DEF PumpCancelled, Good, LateOnce, InOrder, Stream
<1>6. CASE PumpPrebuffered(n)
  <2>1. [stream[n] EXCEPT !.left = @ - 1] \in Stream
    BY <1>6, DataSendAssumption DEF PumpPrebuffered, Stream
  <2>2. stream[n].late = 0 /\ stream[n].seq # 0
    BY <1>6 DEF PumpPrebuffered, Cancelled, Good, LateOnce, InOrder
  <2> QED BY <1>6, <2>1, <2>2, StartItemGood DEF PumpPrebuffered, Stream
<1>7. CASE PumpAwaitLive(n)
  BY <1>7, GotoGood DEF PumpAwaitLive, Cancelled, Good, LateOnce, InOrder, Stream
<1>8. CASE PumpLive(n)
  <2> DEFINE tail == InactiveSince(stream[n].tail)
             f == [stream[n] EXCEPT !.tail = tail, !.eos = (tail = "over")]
  <2>1. tail \in {"none", "some", "over"}
    BY DEF InactiveSince, Stream
  <2>2. f \in Stream /\ f.late = stream[n].late /\ f.seq = stream[n].seq
    BY <2>1 DEF Stream
  <2>3. stream[n].late = 0 /\ stream[n].seq # 0
    BY <1>8 DEF PumpLive, Good, LateOnce, InOrder
  <2> QED BY <1>8, <2>2, <2>3, StartItemGood DEF PumpLive
<1>9. CASE PumpLiveEnds(n)
  BY <1>9, GotoGood DEF PumpLiveEnds, Good, LateOnce, InOrder, Stream
<1>10. CASE PumpClose(n)
  BY <1>10, GotoGood DEF PumpClose, Good, LateOnce, InOrder, Stream
<1>11. CASE PumpWriteFails(n)
  BY <1>11, GotoGood DEF PumpWriteFails, Good, LateOnce, InOrder, Stream
<1>12. CASE PumpRelease(n)
  BY <1>12, GotoGood DEF PumpRelease, Good, LateOnce, InOrder, Stream
<1> QED BY <1>1, <1>2, <1>3, <1>4, <1>5, <1>6, <1>7, <1>8, <1>9, <1>10, <1>11, <1>12
        DEF PumpStep
-----------------------------------------------------------------------------
(* The inductive invariant.                                                *)

\* Replacing one record by a good one keeps the streams good.
LEMMA UpdateKeeps ==
  ASSUME IInv, NEW n \in Streams, NEW r \in Stream, Update(n, r), Good(r)
  PROVE  /\ stream' \in [Streams -> Stream]
         /\ \A m \in Streams : Good(stream'[m])
<1>1. stream' = [stream EXCEPT ![n] = r] /\ stream \in [Streams -> Stream]
  BY DEF Update, IInv, TypeOK
<1>2. \A m \in Streams : stream'[m] = IF m = n THEN r ELSE stream[m]
  BY <1>1
<1> QED BY <1>1, <1>2 DEF IInv

\* Cancelling a pump leaves its record good.
LEMMA CancelGood ==
  ASSUME NEW r \in Stream, Good(r)
  PROVE  /\ [r EXCEPT !.cancel = TRUE] \in Stream
         /\ Good([r EXCEPT !.cancel = TRUE])
BY DEF Stream, Good, LateOnce, InOrder

LEMMA StopActiveKeeps ==
  ASSUME IInv, NEW c \in Conns, StopActive(c)
  PROVE  /\ busy' \in BOOLEAN
         /\ active' \in [Conns -> 0..MaxStreams]
         /\ stream' \in [Streams -> Stream]
         /\ \A m \in Streams : Good(stream'[m])
<1>1. CASE active[c] = 0
  BY <1>1 DEF StopActive, IInv, TypeOK
<1>2. CASE active[c] # 0
  <2>1. active[c] \in Streams
    BY <1>2 DEF IInv, TypeOK, Streams
  <2>2. stream[active[c]] \in Stream /\ Good(stream[active[c]])
    BY <2>1 DEF IInv, TypeOK
  <2>3. /\ Update(active[c], [stream[active[c]] EXCEPT !.cancel = TRUE])
        /\ active' = [active EXCEPT ![c] = 0]
        /\ busy' = FALSE
    BY <1>2 DEF StopActive
  <2>4. active' \in [Conns -> 0..MaxStreams]
    BY <2>3, DataSendAssumption DEF IInv, TypeOK
  <2> QED BY <2>1, <2>2, <2>3, <2>4, CancelGood, UpdateKeeps
<1> QED BY <1>1, <1>2

LEMMA InitIInv == Init => IInv
<1> SUFFICES ASSUME Init PROVE IInv
  OBVIOUS
<1>1. TypeOK
  <2>1. stream \in [Streams -> Stream]
    BY NoStreamType DEF Init
  <2>2. active \in [Conns -> 0..MaxStreams]
    BY DataSendAssumption DEF Init
  <2>3. conn \in [Conns -> {"ready", "allowed", "claimed", "closed", "broken"}]
    BY DEF Init
  <2>4. busy \in BOOLEAN /\ motion \in BOOLEAN
    BY DEF Init
  <2> QED BY <2>1, <2>2, <2>3, <2>4 DEF TypeOK
<1>2. Good(NoStream)
  BY DEF NoStream, Good, LateOnce, InOrder
<1> QED BY <1>1, <1>2 DEF Init, IInv

LEMMA ConnStepKeeps ==
  ASSUME IInv, NEW c \in Conns, ConnStep(c)
  PROVE  IInv'
<1>1. CASE OpenAllowed(c)
  BY <1>1 DEF OpenAllowed, IInv, TypeOK
<1>2. CASE OpenBusy(c)
  BY <1>2 DEF OpenBusy, IInv, TypeOK
<1>3. CASE OpenClaim(c)
  BY <1>3 DEF OpenClaim, IInv, TypeOK
<1>4. CASE \E n \in Streams : OpenAccept(c, n)
  <2>1. PICK n \in Streams : OpenAccept(c, n)
    BY <1>4
  <2>2. stream' \in [Streams -> Stream] /\ \A m \in Streams : Good(stream'[m])
    BY <2>1, NewStream, UpdateKeeps DEF OpenAccept
  <2>3. active' \in [Conns -> 0..MaxStreams]
    BY <2>1, DataSendAssumption DEF OpenAccept, IInv, TypeOK, Streams
  <2> QED BY <2>1, <2>2, <2>3 DEF OpenAccept, IInv, TypeOK
<1>5. CASE OpenResponseFails(c)
  BY <1>5, StopActiveKeeps DEF OpenResponseFails, IInv, TypeOK
<1>6. CASE CloseOrAck(c)
  BY <1>6, StopActiveKeeps DEF CloseOrAck, IInv, TypeOK
<1>7. CASE Disconnect(c)
  BY <1>7, StopActiveKeeps DEF Disconnect, IInv, TypeOK
<1> QED BY <1>1, <1>2, <1>3, <1>4, <1>5, <1>6, <1>7 DEF ConnStep

LEMMA PumpStepKeeps ==
  ASSUME IInv, NEW n \in Streams, PumpStep(n)
  PROVE  IInv'
<1>1. PICK r \in Stream : Update(n, r) /\ Good(r)
  BY PumpStepGood DEF IInv
<1>2. stream' \in [Streams -> Stream] /\ \A m \in Streams : Good(stream'[m])
  BY <1>1, UpdateKeeps
<1>3. busy' \in BOOLEAN /\ UNCHANGED <<motion, conn, active>>
  BY DEF PumpStep, PumpRelease, IInv, TypeOK
<1> QED BY <1>2, <1>3 DEF IInv, TypeOK

LEMMA TailElapsesKeeps ==
  ASSUME IInv, NEW n \in Streams, TailElapses(n)
  PROVE  IInv'
<1> DEFINE r == [stream[n] EXCEPT !.tail = "over"]
<1>1. stream[n] \in Stream /\ Good(stream[n])
  BY DEF IInv, TypeOK
<1>2. r \in Stream /\ Good(r)
  BY <1>1 DEF Stream, Good, LateOnce, InOrder
<1>3. stream' \in [Streams -> Stream] /\ \A m \in Streams : Good(stream'[m])
  BY <1>2, UpdateKeeps DEF TailElapses
<1> QED BY <1>3 DEF TailElapses, IInv, TypeOK

LEMMA NextIInv == IInv /\ [Next]_vars => IInv'
<1> SUFFICES ASSUME IInv, [Next]_vars PROVE IInv'
  OBVIOUS
<1>1. CASE MotionChanges
  BY <1>1 DEF MotionChanges, IInv, TypeOK
<1>2. CASE UNCHANGED vars
  BY <1>2 DEF vars, IInv, TypeOK
<1> QED BY <1>1, <1>2, ConnStepKeeps, PumpStepKeeps, TailElapsesKeeps DEF Next

LEMMA Invariance == Spec => []IInv
BY InitIInv, NextIInv, PTL DEF Spec

-----------------------------------------------------------------------------
(* Results.                                                                *)

\* The state of the connections, the streams and their pumps keeps its types.
THEOREM TypeCorrect == Spec => []TypeOK
<1>1. IInv => TypeOK
  BY DEF IInv
<1> QED BY <1>1, Invariance, PTL

\* A pump that was cancelled, by a close, an acknowledgement or the end of its
\* connection, begins at most one more item.
THEOREM CancelStops == Spec => []CancelStopsPump
<1>1. IInv => CancelStopsPump
  BY DEF IInv, TypeOK, Stream, Good, LateOnce, CancelStopsPump
<1> QED BY <1>1, Invariance, PTL

-----------------------------------------------------------------------------
(* Who holds recording_busy.                                               *)

\* Replacing the record of a stream by one that is under way, and cancelled only
\* if the old one was, takes no holder away.
LEMMA HoldersKept ==
  ASSUME TypeOK, NEW n \in Streams, NEW r, Update(n, r),
         r.pc \notin {"none", "done"}, r.cancel = stream[n].cancel,
         NEW m \in Streams, Holds(m)
  PROVE  Holds(m)'
<1>1. stream'[m] = IF m = n THEN r ELSE stream[m]
  BY DEF Update, TypeOK
<1> QED BY <1>1 DEF Holds

\* So do the steps of a pump before its last one.
LEMMA PumpKeepsHolders ==
  ASSUME TypeOK, NEW n \in Streams, PumpStep(n), ~PumpRelease(n),
         NEW m \in Streams, Holds(m)
  PROVE  Holds(m)'
<1> stream[n] \in Stream
  BY DEF TypeOK
<1>1. ASSUME NEW f \in Stream, StartItem(n, f), f.cancel = stream[n].cancel
      PROVE  Holds(m)'
  <2>1. PICK k \in 1..NumChunks :
          Update(n, [f EXCEPT !.pc = "item", !.chunk = 0, !.size = k])
    BY <1>1 DEF StartItem
  <2> DEFINE r == [f EXCEPT !.pc = "item", !.chunk = 0, !.size = k]
  <2>2. r.pc = "item" /\ r.cancel = stream[n].cancel
    BY <1>1 DEF Stream
  <2> HIDE DEF r
  <2> QED BY <2>1, <2>2, HoldersKept DEF r
<1>2. ASSUME NEW pc \in {"loop", "recv", "close", "returned"}, Goto(n, pc)
      PROVE  Holds(m)'
  <2> DEFINE r == [stream[n] EXCEPT !.pc = pc]
  <2>1. r.pc = pc /\ r.cancel = stream[n].cancel
    BY DEF Stream
  <2>2. Update(n, r)
    BY <1>2 DEF Goto
  <2> HIDE DEF r
  <2> QED BY <2>1, <2>2, HoldersKept
<1>3. CASE PumpInit(n)
  <2>1. PICK k \in 0..MaxPre : StartItem(n, [stream[n] EXCEPT !.left = k])
    BY <1>3 DEF PumpInit
  <2>2. [stream[n] EXCEPT !.left = k] \in Stream
    BY DEF Stream
  <2> QED BY <1>1, <2>1, <2>2 DEF Stream
<1>4. CASE PumpChunk(n)
  <2> DEFINE r == [stream[n] EXCEPT !.chunk = @ + 1, !.late = LateIfFirst(stream[n])]
  <2>1. r.pc = "item" /\ r.cancel = stream[n].cancel
    BY <1>4 DEF PumpChunk, Stream
  <2>2. Update(n, r)
    BY <1>4 DEF PumpChunk
  <2> HIDE DEF r
  <2> QED BY <2>1, <2>2, HoldersKept
<1>5. CASE PumpLastChunk(n)
  <2> DEFINE r == [stream[n] EXCEPT !.chunk = 0, !.seq = NextSeq(@),
                                    !.late = LateIfFirst(stream[n]),
                                    !.pc = AfterItem(stream[n].eos)]
  <2>1. r.pc \in {"returned", "loop"} /\ r.cancel = stream[n].cancel
    BY DEF AfterItem, Stream
  <2>2. Update(n, r)
    BY <1>5 DEF PumpLastChunk
  <2> HIDE DEF r
  <2> QED BY <2>1, <2>2, HoldersKept
<1>6. CASE PumpPrebuffered(n)
  <2>1. [stream[n] EXCEPT !.left = @ - 1] \in Stream
    BY <1>6, DataSendAssumption DEF PumpPrebuffered, Stream
  <2> QED BY <1>1, <1>6, <2>1 DEF PumpPrebuffered, Stream
<1>7. CASE PumpLive(n)
  <2> DEFINE tail == InactiveSince(stream[n].tail)
             f == [stream[n] EXCEPT !.tail = tail, !.eos = (tail = "over")]
  <2>1. tail \in {"none", "some", "over"}
    BY DEF InactiveSince, Stream
  <2>2. f \in Stream /\ f.cancel = stream[n].cancel
    BY <2>1 DEF Stream
  <2>3. StartItem(n, f)
    BY <1>7 DEF PumpLive
  <2> HIDE DEF f
  <2> QED BY <1>1, <2>2, <2>3
<1>8. CASE \/ PumpNothingBuffered(n) \/ PumpCancelled(n) \/ PumpAwaitLive(n)
           \/ PumpLiveEnds(n) \/ PumpClose(n) \/ PumpWriteFails(n)
  BY <1>2, <1>8 DEF PumpNothingBuffered, PumpCancelled, PumpAwaitLive, PumpLiveEnds,
                    PumpClose, PumpWriteFails
<1> QED BY <1>3, <1>4, <1>5, <1>6, <1>7, <1>8 DEF PumpStep

\* A connection that neither answers an open nor broke over one is not who holds
\* it, and may go on.
LEMMA ConnKeepsBusyHeld ==
  ASSUME TypeOK, BusyIsHeld, NEW c \in Conns, ConnStep(c)
  PROVE  BusyIsHeld'
<1> SUFFICES ASSUME busy'
             PROVE  \/ \E d \in Conns : conn'[d] \in {"claimed", "broken"}
                    \/ \E m \in Streams : Holds(m)'
  BY DEF BusyIsHeld, Holds
<1>1. ASSUME busy, UNCHANGED stream, conn[c] \notin {"claimed", "broken"},
             \A d \in Conns : d # c => conn'[d] = conn[d]
      PROVE  \/ \E d \in Conns : conn'[d] \in {"claimed", "broken"}
             \/ \E m \in Streams : Holds(m)'
  BY <1>1 DEF BusyIsHeld, Holds
<1>2. ASSUME StopActive(c) PROVE busy /\ UNCHANGED stream
  BY <1>2 DEF StopActive
<1>3. CASE OpenAllowed(c)
  BY <1>1, <1>3 DEF OpenAllowed, TypeOK
<1>4. CASE OpenBusy(c)
  BY <1>1, <1>4 DEF OpenBusy, TypeOK
<1>5. CASE OpenClaim(c)
  BY <1>5 DEF OpenClaim, TypeOK
<1>6. CASE \E n \in Streams : OpenAccept(c, n)
  <2>1. PICK n \in Streams : OpenAccept(c, n)
    BY <1>6
  <2>2. stream'[n] = [NoStream EXCEPT !.owner = c, !.pc = "start"]
    BY <2>1 DEF OpenAccept, Update, TypeOK
  <2>3. Holds(n)'
    BY <2>2 DEF Holds, NoStream
  <2> QED BY <2>3
<1>7. CASE OpenResponseFails(c)
  BY <1>7 DEF OpenResponseFails, TypeOK
<1>8. CASE CloseOrAck(c)
  BY <1>1, <1>2, <1>8 DEF CloseOrAck, TypeOK
<1>9. CASE Disconnect(c)
  BY <1>1, <1>2, <1>9 DEF Disconnect, TypeOK
<1> QED BY <1>3, <1>4, <1>5, <1>6, <1>7, <1>8, <1>9 DEF ConnStep

LEMMA NextBusyHeld == TypeOK /\ BusyIsHeld /\ [Next]_vars => BusyIsHeld'
<1> SUFFICES ASSUME TypeOK, BusyIsHeld, [Next]_vars PROVE BusyIsHeld'
  OBVIOUS
<1>1. ASSUME NEW n \in Streams, PumpStep(n) PROVE BusyIsHeld'
  <2>1. CASE PumpRelease(n)
    BY <2>1 DEF PumpRelease, BusyIsHeld
  <2>2. CASE ~PumpRelease(n)
    <3>1. UNCHANGED <<busy, conn>>
      BY <1>1, <2>2 DEF PumpStep
    <3>2. \A m \in Streams : Holds(m) => Holds(m)'
      BY <1>1, <2>2, PumpKeepsHolders
    <3> QED BY <3>1, <3>2 DEF BusyIsHeld
  <2> QED BY <2>1, <2>2
<1>2. ASSUME NEW n \in Streams, TailElapses(n) PROVE BusyIsHeld'
  <2>1. \A m \in Streams : stream'[m].pc = stream[m].pc /\ stream'[m].cancel = stream[m].cancel
    BY <1>2 DEF TailElapses, Update, TypeOK, Stream
  <2> QED BY <1>2, <2>1 DEF TailElapses, BusyIsHeld, Holds
<1>3. CASE MotionChanges \/ UNCHANGED vars
  BY <1>3 DEF MotionChanges, vars, BusyIsHeld, Holds
<1> QED BY <1>1, <1>2, <1>3, ConnKeepsBusyHeld DEF Next

\* recording_busy is held by an open under way, a stream that is on, or a
\* connection that broke over the answer to an open.
THEOREM BusyHeld == Spec => []BusyIsHeld
<1>1. Init => BusyIsHeld
  BY DEF Init, BusyIsHeld
<1>2. IInv => TypeOK
  BY DEF IInv
<1> QED BY <1>1, <1>2, Invariance, NextBusyHeld, PTL DEF Spec

-----------------------------------------------------------------------------
(* The streams implement RecordingStream.                                  *)

wire == <<wirePhase, wireSeq, wireChunk, wireFinal>>

\* What a step that replaces one record is on the wire.
LEMMA WireUpdate ==
  ASSUME IInv, NEW n \in Streams, NEW r, Update(n, r)
  PROVE  /\ wirePhase' = [wirePhase EXCEPT ![n] = PhaseOf(r.pc)]
         /\ wireSeq' = [wireSeq EXCEPT ![n] = r.seq]
         /\ wireChunk' = [wireChunk EXCEPT ![n] = r.chunk]
         /\ wireFinal' = [wireFinal EXCEPT ![n] = r.eos]
<1>1. \A m \in Streams : stream'[m] = IF m = n THEN r ELSE stream[m]
  BY DEF Update, IInv, TypeOK
<1> QED BY <1>1 DEF wirePhase, wireSeq, wireChunk, wireFinal

\* What it keeps of the record it keeps on the wire.
LEMMA WireKept ==
  ASSUME IInv, NEW n \in Streams, NEW r, Update(n, r)
  PROVE  /\ PhaseOf(r.pc) = PhaseOf(stream[n].pc) => UNCHANGED wirePhase
         /\ r.seq = stream[n].seq => UNCHANGED wireSeq
         /\ r.chunk = stream[n].chunk => UNCHANGED wireChunk
         /\ r.eos = stream[n].eos => UNCHANGED wireFinal
<1>1. \A m \in Streams : stream'[m] = IF m = n THEN r ELSE stream[m]
  BY DEF Update, IInv, TypeOK
<1>2. \A m \in Streams :
        PhaseOf(stream'[m].pc) = IF m = n THEN PhaseOf(r.pc) ELSE PhaseOf(stream[m].pc)
  BY <1>1
<1>3. PhaseOf(r.pc) = PhaseOf(stream[n].pc) => UNCHANGED wirePhase
  BY <1>2 DEF wirePhase
<1> QED BY <1>1, <1>3 DEF wireSeq, wireChunk, wireFinal

\* What the wire shows of one stream.
LEMMA WireOf ==
  ASSUME NEW n \in Streams
  PROVE  /\ wirePhase[n] = PhaseOf(stream[n].pc)
         /\ wireSeq[n] = stream[n].seq
         /\ wireChunk[n] = stream[n].chunk
         /\ wireFinal[n] = stream[n].eos
BY DEF wirePhase, wireSeq, wireChunk, wireFinal

LEMMA Phases ==
  /\ PhaseOf("none") = "unopened"
  /\ \A pc \in {"start", "item", "loop", "recv", "close"} : PhaseOf(pc) = "open"
  /\ \A pc \in {"returned", "done"} : PhaseOf(pc) = "ended"
BY DEF PhaseOf

\* A step that moves the pump within its phase is not seen.
LEMMA WireGoto ==
  ASSUME IInv, NEW n \in Streams, NEW pc, Goto(n, pc),
         PhaseOf(pc) = PhaseOf(stream[n].pc)
  PROVE  UNCHANGED wire
<1> DEFINE r == [stream[n] EXCEPT !.pc = pc]
<1>1. /\ r.pc = pc
      /\ r.seq = stream[n].seq
      /\ r.chunk = stream[n].chunk
      /\ r.eos = stream[n].eos
  BY DEF IInv, TypeOK, Stream
<1>2. Update(n, r)
  BY DEF Goto
<1> HIDE DEF r
<1> QED BY <1>1, <1>2, WireKept DEF wire

\* A step that moves the pump out of an open stream ends it there.
LEMMA WireEnds ==
  ASSUME IInv, NEW n \in Streams, Goto(n, "returned")
  PROVE  /\ wirePhase' = [wirePhase EXCEPT ![n] = "ended"]
         /\ UNCHANGED <<wireSeq, wireChunk, wireFinal>>
<1> DEFINE r == [stream[n] EXCEPT !.pc = "returned"]
<1>1. /\ r.pc = "returned"
      /\ r.seq = stream[n].seq
      /\ r.chunk = stream[n].chunk
      /\ r.eos = stream[n].eos
  BY DEF IInv, TypeOK, Stream
<1>2. Update(n, r)
  BY DEF Goto
<1> HIDE DEF r
<1> QED BY <1>1, <1>2, WireKept, WireUpdate, Phases

\* So does the close event, between two items.
LEMMA WireClose ==
  ASSUME IInv, NEW n \in Streams, Goto(n, "returned"), stream[n].pc \in {"loop", "close"}
  PROVE  Wire!Close(n)
<1>1. wirePhase[n] = "open" /\ wireChunk[n] = 0 /\ ~wireFinal[n]
  BY WireOf, Phases DEF IInv, Good, InOrder
<1> QED BY <1>1, WireEnds DEF Wire!Close

\* The next item is not final, or it is announced as the final one.
LEMMA WireItem ==
  ASSUME IInv, NEW n \in Streams, NEW f \in Stream, StartItem(n, f),
         stream[n].pc \in {"start", "loop", "recv"},
         f.seq = stream[n].seq, f.eos => stream[n].pc = "recv"
  PROVE  Wire!Finalize(n) \/ UNCHANGED wire
<1>1. PICK k \in 1..NumChunks :
        Update(n, [f EXCEPT !.pc = "item", !.chunk = 0, !.size = k])
  BY DEF StartItem
<1> DEFINE r == [f EXCEPT !.pc = "item", !.chunk = 0, !.size = k]
<1>2. r.pc = "item" /\ r.chunk = 0 /\ r.seq = stream[n].seq /\ r.eos = f.eos
  BY DEF Stream
<1>3. Update(n, r)
  BY <1>1
<1> HIDE DEF r
<1>4. PhaseOf(stream[n].pc) = "open" /\ stream[n].chunk = 0 /\ ~stream[n].eos
  BY Phases DEF IInv, Good, InOrder
<1>5. UNCHANGED <<wirePhase, wireSeq, wireChunk>>
  BY <1>2, <1>3, <1>4, WireKept, Phases
<1>6. CASE ~f.eos
  <2>1. f.eos = FALSE /\ stream[n].eos = FALSE
    BY <1>4, <1>6 DEF IInv, TypeOK, Stream
  <2>2. UNCHANGED wireFinal
    BY <1>2, <1>3, <2>1, WireKept
  <2> QED BY <1>5, <2>2 DEF wire
<1>7. CASE f.eos
  <2>1. wireFinal' = [wireFinal EXCEPT ![n] = TRUE]
    BY <1>2, <1>3, <1>7, WireUpdate DEF Stream
  <2>2. wirePhase[n] = "open" /\ wireChunk[n] = 0 /\ wireSeq[n] # 0
    BY <1>4, <1>7, WireOf DEF IInv, Good, InOrder
  <2> QED BY <1>5, <2>1, <2>2 DEF Wire!Finalize
<1> QED BY <1>6, <1>7 DEF Stream

LEMMA WirePump ==
  ASSUME IInv, NEW n \in Streams, PumpStep(n)
  PROVE  Wire!Next \/ UNCHANGED wire
<1> stream[n] \in Stream
  BY DEF IInv, TypeOK
<1>1. CASE PumpInit(n)
  <2>1. PICK k \in 0..MaxPre : StartItem(n, [stream[n] EXCEPT !.left = k])
    BY <1>1 DEF PumpInit
  <2>2. /\ [stream[n] EXCEPT !.left = k] \in Stream
        /\ [stream[n] EXCEPT !.left = k].seq = stream[n].seq
        /\ [stream[n] EXCEPT !.left = k].eos = stream[n].eos
    BY DEF Stream
  <2>3. ~stream[n].eos
    BY <1>1 DEF PumpInit, IInv, Good, InOrder
  <2> QED BY <1>1, <2>1, <2>2, <2>3, WireItem DEF PumpInit, Wire!Next
<1>2. CASE PumpNothingBuffered(n)
  BY <1>2, WireGoto, Phases DEF PumpNothingBuffered
<1>3. CASE PumpChunk(n)
  <2> DEFINE r == [stream[n] EXCEPT !.chunk = @ + 1, !.late = LateIfFirst(stream[n])]
  <2>1. /\ r.pc = stream[n].pc
        /\ r.seq = stream[n].seq
        /\ r.chunk = stream[n].chunk + 1
        /\ r.eos = stream[n].eos
    BY DEF Stream
  <2>2. Update(n, r)
    BY <1>3 DEF PumpChunk
  <2> HIDE DEF r
  <2>3. UNCHANGED <<wirePhase, wireSeq, wireFinal>>
    BY <2>1, <2>2, WireKept
  <2>4. wireChunk' = [wireChunk EXCEPT ![n] = wireChunk[n] + 1]
    BY <2>1, <2>2, WireUpdate, WireOf
  <2>5. wirePhase[n] = "open" /\ wireChunk[n] + 1 < NumChunks
    BY <1>3, WireOf, Phases, DataSendAssumption DEF PumpChunk, Stream
  <2> QED BY <2>3, <2>4, <2>5 DEF Wire!Chunk, Wire!Next
<1>4. CASE PumpLastChunk(n)
  <2> DEFINE r == [stream[n] EXCEPT !.chunk = 0, !.seq = NextSeq(@),
                                    !.late = LateIfFirst(stream[n]),
                                    !.pc = AfterItem(stream[n].eos)]
  <2>1. /\ r.pc = AfterItem(stream[n].eos)
        /\ r.seq = NextSeq(stream[n].seq)
        /\ r.chunk = 0
        /\ r.eos = stream[n].eos
    BY DEF Stream
  <2>2. Update(n, r)
    BY <1>4 DEF PumpLastChunk
  <2> HIDE DEF r
  <2>3. Wire!CompleteItem(n)
    <3>1. wirePhase[n] = "open"
      BY <1>4, WireOf, Phases DEF PumpLastChunk
    <3>2. wireSeq' = [wireSeq EXCEPT ![n] = Wire!NextSeq(wireSeq[n])]
      BY <2>1, <2>2, WireUpdate, WireOf DEF NextSeq, Wire!NextSeq
    <3>3. wireChunk' = [wireChunk EXCEPT ![n] = 0] /\ UNCHANGED wireFinal
      BY <2>1, <2>2, WireUpdate, WireKept
    <3> QED BY <3>1, <3>2, <3>3 DEF Wire!CompleteItem
  <2>4. CASE stream[n].eos
    <3>1. r.pc = "returned" /\ wireFinal[n]
      BY <2>1, <2>4, WireOf DEF AfterItem
    <3>2. wirePhase' = [wirePhase EXCEPT ![n] = "ended"]
      BY <2>2, <3>1, WireUpdate, Phases
    <3> QED BY <2>3, <3>1, <3>2 DEF Wire!FinalChunk, Wire!Next
  <2>5. CASE ~stream[n].eos
    <3>1. r.pc = "loop" /\ ~wireFinal[n]
      BY <2>1, <2>5, WireOf DEF AfterItem
    <3>2. UNCHANGED wirePhase
      BY <1>4, <2>2, <3>1, WireKept, Phases DEF PumpLastChunk
    <3> QED BY <2>3, <3>1, <3>2 DEF Wire!LastChunk, Wire!Next
  <2> QED BY <2>4, <2>5
<1>5. CASE PumpCancelled(n)
  BY <1>5, WireClose DEF PumpCancelled, Wire!Next
<1>6. CASE PumpPrebuffered(n)
  <2> DEFINE f == [stream[n] EXCEPT !.left = @ - 1]
  <2>1. f \in Stream /\ f.seq = stream[n].seq /\ f.eos = stream[n].eos
    BY <1>6, DataSendAssumption DEF PumpPrebuffered, Stream
  <2>2. ~stream[n].eos
    BY <1>6 DEF PumpPrebuffered, IInv, Good, InOrder
  <2> QED BY <1>6, <2>1, <2>2, WireItem DEF PumpPrebuffered, Wire!Next
<1>7. CASE PumpAwaitLive(n)
  BY <1>7, WireGoto, Phases DEF PumpAwaitLive
<1>8. CASE PumpLive(n)
  <2> DEFINE tail == InactiveSince(stream[n].tail)
             f == [stream[n] EXCEPT !.tail = tail, !.eos = (tail = "over")]
  <2>1. tail \in {"none", "some", "over"}
    BY DEF InactiveSince, Stream
  <2>2. f \in Stream /\ f.seq = stream[n].seq
    BY <2>1 DEF Stream
  <2> QED BY <1>8, <2>2, WireItem DEF PumpLive, Wire!Next
<1>9. CASE PumpLiveEnds(n)
  BY <1>9, WireGoto, Phases DEF PumpLiveEnds
<1>10. CASE PumpClose(n)
  BY <1>10, WireClose DEF PumpClose, Wire!Next
<1>11. CASE PumpWriteFails(n)
  <2>1. wirePhase[n] = "open"
    BY <1>11, WireOf, Phases DEF PumpWriteFails
  <2> QED BY <1>11, <2>1, WireEnds DEF PumpWriteFails, Wire!Break, Wire!Next
<1>12. CASE PumpRelease(n)
  BY <1>12, WireGoto, Phases DEF PumpRelease
<1> QED BY <1>1, <1>2, <1>3, <1>4, <1>5, <1>6, <1>7, <1>8, <1>9, <1>10, <1>11, <1>12
        DEF PumpStep

\* The handlers show nothing, except that an accepted stream is open.
LEMMA WireCancel ==
  ASSUME IInv, NEW c \in Conns, StopActive(c)
  PROVE  UNCHANGED wire
<1>1. CASE active[c] = 0
  BY <1>1 DEF StopActive, wire, wirePhase, wireSeq, wireChunk, wireFinal
<1>2. CASE active[c] # 0
  <2> DEFINE n == active[c]
             r == [stream[n] EXCEPT !.cancel = TRUE]
  <2>1. n \in Streams
    BY <1>2 DEF IInv, TypeOK, Streams
  <2>2. /\ r.pc = stream[n].pc
        /\ r.seq = stream[n].seq
        /\ r.chunk = stream[n].chunk
        /\ r.eos = stream[n].eos
    BY <2>1 DEF IInv, TypeOK, Stream
  <2>3. Update(n, r)
    BY <1>2 DEF StopActive
  <2> HIDE DEF r, n
  <2> QED BY <2>1, <2>2, <2>3, WireKept DEF wire
<1> QED BY <1>1, <1>2

LEMMA WireOpen ==
  ASSUME IInv, NEW c \in Conns, NEW n \in Streams, OpenAccept(c, n)
  PROVE  Wire!Open(n)
<1> DEFINE r == [NoStream EXCEPT !.owner = c, !.pc = "start"]
<1>1. r.pc = "start" /\ r.seq = 0 /\ r.chunk = 0 /\ r.eos = FALSE
  BY DEF NoStream
<1>2. Update(n, r) /\ stream[n].pc = "none"
  BY DEF OpenAccept
<1> HIDE DEF r
<1>3. stream[n].seq = 0 /\ stream[n].chunk = 0 /\ stream[n].eos = FALSE
  BY <1>2 DEF IInv, TypeOK, Stream, Good, InOrder
<1>4. wirePhase[n] = "unopened"
  BY <1>2, WireOf, Phases
<1>5. wirePhase' = [wirePhase EXCEPT ![n] = "open"]
  BY <1>1, <1>2, WireUpdate, Phases
<1>6. UNCHANGED <<wireSeq, wireChunk, wireFinal>>
  BY <1>1, <1>2, <1>3, WireKept
<1> QED BY <1>4, <1>5, <1>6 DEF Wire!Open

LEMMA WireNext ==
  ASSUME IInv, [Next]_vars
  PROVE  Wire!Next \/ UNCHANGED wire
<1>1. ASSUME NEW c \in Conns, ConnStep(c)
      PROVE  Wire!Next \/ UNCHANGED wire
  <2>1. CASE UNCHANGED stream
    BY <2>1 DEF wire, wirePhase, wireSeq, wireChunk, wireFinal
  <2>2. CASE \E n \in Streams : OpenAccept(c, n)
    BY <2>2, WireOpen DEF Wire!Next
  <2>3. CASE StopActive(c)
    BY <2>3, WireCancel
  <2> QED BY <1>1, <2>1, <2>2, <2>3
          DEF ConnStep, OpenAllowed, OpenBusy, OpenClaim, OpenResponseFails, CloseOrAck,
              Disconnect
<1>2. ASSUME NEW n \in Streams, TailElapses(n)
      PROVE  UNCHANGED wire
  <2> DEFINE r == [stream[n] EXCEPT !.tail = "over"]
  <2>1. /\ r.pc = stream[n].pc
        /\ r.seq = stream[n].seq
        /\ r.chunk = stream[n].chunk
        /\ r.eos = stream[n].eos
    BY DEF IInv, TypeOK, Stream
  <2>2. Update(n, r)
    BY <1>2 DEF TailElapses
  <2> HIDE DEF r
  <2> QED BY <2>1, <2>2, WireKept DEF wire
<1>3. CASE MotionChanges \/ UNCHANGED vars
  BY <1>3 DEF MotionChanges, vars, wire, wirePhase, wireSeq, wireChunk, wireFinal
<1> QED BY <1>1, <1>2, <1>3, WirePump DEF Next

LEMMA WireInit == Init => Wire!Init
<1> SUFFICES ASSUME Init PROVE Wire!Init
  OBVIOUS
<1>1. \A n \in Streams : /\ stream[n].pc = "none"
                          /\ stream[n].seq = 0
                          /\ stream[n].chunk = 0
                          /\ stream[n].eos = FALSE
  BY DEF Init, NoStream
<1>2. \A n \in Streams : PhaseOf(stream[n].pc) = "unopened"
  BY <1>1, Phases
<1> QED BY <1>1, <1>2 DEF Wire!Init, wirePhase, wireSeq, wireChunk, wireFinal

\* Every stream keeps the contract of RecordingStream: the pumps of any number
\* of connections, cancelled, failing or ended by the motion tail, implement it.
THEOREM StreamsKeepContract == Spec => WireContract
<1>1. wire = Wire!vars
  BY DEF wire, Wire!vars
<1>2. IInv /\ [Next]_vars => [Wire!Next]_(Wire!vars)
  BY <1>1, WireNext DEF wire, Wire!vars
<1> QED BY <1>2, WireInit, Invariance, PTL DEF Spec, WireContract, Wire!Spec
=============================================================================
