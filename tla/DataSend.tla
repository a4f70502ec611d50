------------------------------ MODULE DataSend ------------------------------
(***************************************************************************)
(* The dataSend recording protocol of src/hsv/hds.rs: the connections of   *)
(* one HdsServer open, close and acknowledge recording streams, every      *)
(* accepted stream is pumped by a task of its own, and recording_busy is   *)
(* the only thing they share.  The connections here have said hello (see   *)
(* HdsSession); what a pump reads from the recorder is in Recorder.        *)
(*                                                                         *)
(* A message that changes nothing (an unknown request, a rejected open     *)
(* whose response is delivered, a close for another streamId) is no step.  *)
(***************************************************************************)
EXTENDS Integers

CONSTANTS Conns,       \* connections past the hello
          MaxStreams,  \* bound: streams accepted
          MaxPre,      \* fragments a snapshot of the prebuffer holds
          NumChunks,   \* chunks of the largest item
          SeqMod,      \* bound: dataSequenceNumber is kept modulo this
          NoConn

ASSUME DataSendAssumption ==
  /\ MaxStreams \in Nat
  /\ MaxPre \in Nat
  /\ NumChunks \in Nat \ {0}
  /\ SeqMod \in Nat \ {0}
  /\ NoConn \notin Conns

Streams == 1..MaxStreams

\* Bound of the history variable late.
MaxLate == 2

VARIABLES busy,      \* HdsServer.recording_busy
          motion,    \* HsvState.motion_active
          conn,      \* where each connection's handler is
          active,    \* Connection.active_stream: a stream, 0 for None
          stream     \* the accepted streams and their pumps

vars == <<busy, motion, conn, active, stream>>

(***************************************************************************)
(* pc is the step the pump is about to take:                               *)
(*   start: take the snapshot        item: send the next chunk             *)
(*   loop: check cancel              recv: wait for a live fragment        *)
(*   close: send the close event     returned: clear recording_busy        *)
(* tail is inactive_since: "none", "some", or "over" once RECORDING_TAIL   *)
(* has elapsed.  late is history: items begun on the wire after cancel, up *)
(* to MaxLate, past what CancelStopsPump allows.                           *)
(***************************************************************************)
Stream == [owner  : Conns \cup {NoConn},
           pc     : {"none", "start", "item", "loop", "recv", "close",
                     "returned", "done"},
           cancel : BOOLEAN,
           left   : 0..MaxPre,
           seq    : 0..SeqMod,
           chunk  : 0..NumChunks-1,
           size   : 1..NumChunks,
           eos    : BOOLEAN,
           tail   : {"none", "some", "over"},
           late   : 0..MaxLate]

NoStream == [owner |-> NoConn, pc |-> "none", cancel |-> FALSE, left |-> 0,
             seq |-> 0, chunk |-> 0, size |-> 1, eos |-> FALSE,
             tail |-> "none", late |-> 0]

TypeOK ==
  /\ busy \in BOOLEAN
  /\ motion \in BOOLEAN
  /\ conn \in [Conns -> {"ready", "allowed", "claimed", "closed", "broken"}]
  /\ active \in [Conns -> 0..MaxStreams]
  /\ stream \in [Streams -> Stream]

Init ==
  /\ busy = FALSE
  /\ motion \in BOOLEAN
  /\ conn = [c \in Conns |-> "ready"]
  /\ active = [c \in Conns |-> 0]
  /\ stream = [n \in Streams |-> NoStream]

-----------------------------------------------------------------------------
(* The connection handlers.                                                *)

\* Stream n becomes r.
Update(n, r) == stream' = [stream EXCEPT ![n] = r]

\* Mutant: only the pump itself gives recording_busy back.
StopActive_StaysBusy(c) ==
  IF active[c] = 0
    THEN UNCHANGED <<busy, active, stream>>
    ELSE /\ Update(active[c], [stream[active[c]] EXCEPT !.cancel = TRUE])
         /\ active' = [active EXCEPT ![c] = 0]
         /\ UNCHANGED busy

\* stop_active_stream; leaves conn to the caller.
StopActive(c) ==
  IF active[c] = 0
    THEN UNCHANGED <<busy, active, stream>>
    ELSE /\ Update(active[c], [stream[active[c]] EXCEPT !.cancel = TRUE])
         /\ active' = [active EXCEPT ![c] = 0]
         /\ busy' = FALSE

\* handle_open up to the answer of recording_allowed (see HsvControl), which
\* may no longer be true when the stream is claimed.
OpenAllowed(c) ==
  /\ conn[c] = "ready"
  /\ conn' = [conn EXCEPT ![c] = "allowed"]
  /\ UNCHANGED <<busy, motion, active, stream>>

\* recording_busy.swap(true) found true: the open is rejected BUSY.
OpenBusy(c) ==
  /\ conn[c] = "allowed"
  /\ busy
  /\ conn' = [conn EXCEPT ![c] = "ready"]
  /\ UNCHANGED <<busy, motion, active, stream>>

\* recording_busy.swap(true) found false.
OpenClaim(c) ==
  /\ conn[c] = "allowed"
  /\ ~busy
  /\ busy' = TRUE
  /\ conn' = [conn EXCEPT ![c] = "claimed"]
  /\ UNCHANGED <<motion, active, stream>>

\* The success response is written: the pump starts.
OpenAccept(c, n) ==
  /\ conn[c] = "claimed"
  /\ stream[n].pc = "none"
  /\ \A m \in 1..n-1 : stream[m].pc # "none"
  /\ Update(n, [NoStream EXCEPT !.owner = c, !.pc = "start"])
  /\ active' = [active EXCEPT ![c] = n]
  /\ conn' = [conn EXCEPT ![c] = "ready"]
  /\ UNCHANGED <<busy, motion>>

\* The success response cannot be written: handle_open returns with
\* recording_busy set, and the connection is dropped ("broken" is "closed", with
\* how it came to that).
OpenResponseFails(c) ==
  /\ conn[c] = "claimed"
  /\ conn' = [conn EXCEPT ![c] = "broken"]
  /\ StopActive(c)
  /\ UNCHANGED motion

\* A close event for the active stream (or for none named), or an ack.
CloseOrAck(c) ==
  /\ conn[c] = "ready"
  /\ active[c] # 0
  /\ StopActive(c)
  /\ UNCHANGED <<motion, conn>>

\* End of file, or any error of the handler: Connection is dropped.
Disconnect(c) ==
  /\ conn[c] = "ready"
  /\ conn' = [conn EXCEPT ![c] = "closed"]
  /\ StopActive(c)
  /\ UNCHANGED motion

-----------------------------------------------------------------------------
(* pump_recording.                                                         *)

NextSeq(s) == (s % SeqMod) + 1

Goto(n, pc) == Update(n, [stream[n] EXCEPT !.pc = pc])

\* send_data is called: fields is the stream with the item to be sent.
StartItem(n, fields) ==
  \E k \in 1..NumChunks :
    Update(n, [fields EXCEPT !.pc = "item", !.chunk = 0, !.size = k])

\* snapshot_and_subscribe found an init segment: item 1.
PumpInit(n) ==
  /\ stream[n].pc = "start"
  /\ \E k \in 0..MaxPre : StartItem(n, [stream[n] EXCEPT !.left = k])

\* It found none: close with TIMEOUT.
PumpNothingBuffered(n) ==
  /\ stream[n].pc = "start"
  /\ Goto(n, "close")

LateIfFirst(r) ==
  IF r.cancel /\ r.chunk = 0 /\ r.late < MaxLate THEN r.late + 1 ELSE r.late

PumpChunk(n) ==
  /\ stream[n].pc = "item"
  /\ stream[n].chunk + 1 < stream[n].size
  /\ Update(n, [stream[n] EXCEPT !.chunk = @ + 1, !.late = LateIfFirst(stream[n])])

\* Mutant: no return behind the final fragment.
AfterItem_GoesOn(eos) == "loop"

\* After its last chunk: the pump returns behind the final fragment.
AfterItem(eos) == IF eos THEN "returned" ELSE "loop"

PumpLastChunk(n) ==
  /\ stream[n].pc = "item"
  /\ stream[n].chunk + 1 = stream[n].size
  /\ Update(n, [stream[n] EXCEPT !.chunk = 0,
                                  !.seq = NextSeq(@),
                                  !.late = LateIfFirst(stream[n]),
                                  !.pc = AfterItem(stream[n].eos)])

\* Mutant: cancel is looked at in the prebuffer loop only.
Cancelled_Prebuffer(n) == stream[n].cancel /\ stream[n].left > 0

\* Both loops look at cancel before an iteration, and nowhere else.
Cancelled(n) == stream[n].cancel

PumpCancelled(n) ==
  /\ stream[n].pc = "loop"
  /\ Cancelled(n)
  /\ Goto(n, "returned")

PumpPrebuffered(n) ==
  /\ stream[n].pc = "loop"
  /\ ~Cancelled(n)
  /\ stream[n].left > 0
  /\ StartItem(n, [stream[n] EXCEPT !.left = @ - 1])

PumpAwaitLive(n) ==
  /\ stream[n].pc = "loop"
  /\ ~Cancelled(n)
  /\ stream[n].left = 0
  /\ Goto(n, "recv")

\* Mutant: every fragment without motion sets it anew.
InactiveSince_Restarted(tail) ==
  IF motion THEN "none" ELSE "some"

\* inactive_since after a fragment: cleared by motion, else set once.
InactiveSince(tail) ==
  IF motion THEN "none" ELSE IF tail = "none" THEN "some" ELSE tail

\* A live fragment arrives; it is the final one once the tail is over.
PumpLive(n) ==
  /\ stream[n].pc = "recv"
  /\ LET tail == InactiveSince(stream[n].tail)
     IN  StartItem(n, [stream[n] EXCEPT !.tail = tail, !.eos = (tail = "over")])

\* recv() fails (the stream lagged) or 30 s pass without a fragment.
PumpLiveEnds(n) ==
  /\ stream[n].pc = "recv"
  /\ Goto(n, "close")

PumpClose(n) ==
  /\ stream[n].pc = "close"
  /\ Goto(n, "returned")

\* A write fails: pump_recording returns the error.
PumpWriteFails(n) ==
  /\ stream[n].pc \in {"item", "close"}
  /\ Goto(n, "returned")

\* The spawned task, after pump_recording: whoever holds it now, busy falls.
PumpRelease(n) ==
  /\ stream[n].pc = "returned"
  /\ Goto(n, "done")
  /\ busy' = FALSE
  /\ UNCHANGED <<motion, conn, active>>

PumpStep(n) ==
  \/ /\ \/ PumpInit(n)
        \/ PumpNothingBuffered(n)
        \/ PumpChunk(n)
        \/ PumpLastChunk(n)
        \/ PumpCancelled(n)
        \/ PumpPrebuffered(n)
        \/ PumpAwaitLive(n)
        \/ PumpLive(n)
        \/ PumpLiveEnds(n)
        \/ PumpClose(n)
        \/ PumpWriteFails(n)
     /\ UNCHANGED <<busy, motion, conn, active>>
  \/ PumpRelease(n)

-----------------------------------------------------------------------------
(* The environment: the motion sensor and the clock.                       *)

MotionChanges ==
  /\ motion' = ~motion
  /\ UNCHANGED <<busy, conn, active, stream>>

TailElapses(n) ==
  /\ stream[n].tail = "some"
  /\ Update(n, [stream[n] EXCEPT !.tail = "over"])
  /\ UNCHANGED <<busy, motion, conn, active>>

ConnStep(c) ==
  \/ OpenAllowed(c)
  \/ OpenBusy(c)
  \/ OpenClaim(c)
  \/ \E n \in Streams : OpenAccept(c, n)
  \/ OpenResponseFails(c)
  \/ CloseOrAck(c)
  \/ Disconnect(c)

Next ==
  \/ \E c \in Conns : ConnStep(c)
  \/ \E n \in Streams : PumpStep(n) \/ TailElapses(n)
  \/ MotionChanges

Spec == Init /\ [][Next]_vars

\* A pump runs on its own task and every wait in it is bounded: recv() by its
\* timeout, a write by the transport.  Time passes.  Controllers owe nothing.
FairSpec ==
  /\ Spec
  /\ \A n \in Streams : WF_vars(PumpStep(n)) /\ WF_vars(TailElapses(n))

-----------------------------------------------------------------------------
(* Properties                                                              *)

PhaseOf(pc) == CASE pc = "none" -> "unopened"
                 [] pc \in {"returned", "done"} -> "ended"
                 [] OTHER -> "open"

wirePhase == [n \in Streams |-> PhaseOf(stream[n].pc)]
wireSeq == [n \in Streams |-> stream[n].seq]
wireChunk == [n \in Streams |-> stream[n].chunk]
wireFinal == [n \in Streams |-> stream[n].eos]

Wire == INSTANCE RecordingStream
          WITH phase <- wirePhase, seq <- wireSeq, chunk <- wireChunk, final <- wireFinal

\* Every stream keeps the contract of RecordingStream on the wire: items are
\* numbered from 1 (the init segment) without a gap, each is completed chunk
\* by chunk before the next starts, the init segment never carries
\* endOfStream, and nothing follows the final fragment or the close event
\* (pump_recording, send_data, send_close).
WireContract == Wire!Spec

\* Once the controller closes or acknowledges a stream, or its connection is
\* dropped, the pump begins at most one more item: cancel is looked at
\* before every iteration, but not while the pump waits for a fragment.
CancelStopsPump == \A n \in Streams : stream[n].late <= 1

\* If motion stays off, every stream ends: the tail is measured from the
\* first fragment without motion and is not restarted by later ones.
QuietStreamEnds ==
  \A n \in Streams :
    <>[](~motion) => (stream[n].pc = "start" ~> stream[n].pc = "done")

\* A pump that was not cancelled and has not given recording_busy back.
Holds(n) == stream[n].pc \notin {"none", "done"} /\ ~stream[n].cancel

\* recording_busy is set only while an open is being answered or a stream is on,
\* so that the next recording is not refused for ever: unless the answer to an
\* open could not be written, after which nobody is left to clear it
\* (handle_open, stop_active_stream).
BusyIsHeld ==
  busy => \/ \E c \in Conns : conn[c] \in {"claimed", "broken"}
          \/ \E n \in Streams : Holds(n)

Running(n) ==
  stream[n].pc \notin {"none", "returned", "done"} /\ ~stream[n].cancel

\* hds.rs, the comment of recording_busy: one recording stream at a time.
OneStreamAtATime == \A n, m \in Streams : Running(n) /\ Running(m) => n = m
=============================================================================
