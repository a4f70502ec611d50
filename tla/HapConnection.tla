--------------------------- MODULE HapConnection ---------------------------
(***************************************************************************)
(* Responses and events of the HAP connections: one characteristic with    *)
(* event permission, its subscribers, and what each of them is sent.       *)
(* From hap/src/transport/tcp.rs (SerializedOutput, EncryptedStream),      *)
(* http/server.rs (the listener of a connection) and                       *)
(* storage/accessory_database.rs (write_characteristic).                   *)
(*                                                                         *)
(* A connection has two tasks: hyper's, which handles a request and writes *)
(* the response, and the transport's, which empties the queue into the     *)
(* socket.  A third task is whoever sets the value; set_value holds the    *)
(* accessory's lock, so a change and the handling of a write are one step  *)
(* each.  The message the transport is writing stays the queue's head      *)
(* (outgoing_current).                                                     *)
(*                                                                         *)
(* A connection begins in plaintext.  The handler of pair-verify leaves    *)
(* the session's keys for the transport, which takes them when it next     *)
(* reads its socket; what it writes from then on is encrypted.             *)
(***************************************************************************)
EXTENDS Integers, Sequences

CONSTANTS Conns,       \* connections, each from its accept
          MaxChanges,  \* bound: calls of set_value
          MaxParts     \* bound: poll_writes of one response

ASSUME HapConnectionAssumption ==
  /\ MaxChanges \in Nat
  /\ MaxParts \in Nat \ {0}

VARIABLES value,   \* number of the change the value is of
          flag,    \* Characteristic.event_notifications = Some(true)
          quiet,   \* history: the value was last set with flag off
          conn

vars == <<value, flag, quiet, conn>>

Changes == 0..MaxChanges

\* A message of the queue: an event, or parts of a response.
Event(v) == [event |-> TRUE, value |-> v, parts |-> 0]
Response(n) == [event |-> FALSE, value |-> 0, parts |-> n]

\* The session's keys: none yet, in session_receiver, in use.
Keys == {"plain", "offered", "on"}

Message == [event : BOOLEAN, value : Changes, parts : 0..MaxParts]

(***************************************************************************)
(* up: the transport task has not ended.  size: the parts of the response  *)
(* to the request in hand.  out and heard are the controller's: parts of   *)
(* that response it has, and the last change it has an event of (or, to    *)
(* begin with, the value it subscribed at).  m4: the request in hand is a  *)
(* pair-verify that succeeds.  reading: the next thing the transport       *)
(* does is to poll its socket.  raced is history: it was about to do so    *)
(* when the answer of pair-verify was queued, or had done so since the     *)
(* handler, or the socket did not take the answer.                         *)
(***************************************************************************)
Conn == [up       : BOOLEAN,
         key      : Keys,
         reading  : BOOLEAN,
         raced    : BOOLEAN,
         sub      : BOOLEAN,
         pc       : {"idle", "handling", "answering", "sent", "gone"},
         m4       : BOOLEAN,
         size     : 0..MaxParts,
         http     : 0..MaxParts,
         deferred : Seq(Changes),
         queue    : Seq(Message),
         out      : 0..MaxParts,
         heard    : Changes]

TypeOK ==
  /\ value \in Changes
  /\ flag \in BOOLEAN
  /\ quiet \in BOOLEAN
  /\ conn \in [Conns -> Conn]
  /\ \A c \in Conns : ~conn[c].up => conn[c].queue = << >>

Init ==
  /\ value = 0
  /\ flag = FALSE
  /\ quiet = FALSE
  /\ conn = [c \in Conns |->
               [up |-> TRUE, key |-> "plain", reading |-> FALSE, raced |-> FALSE,
                m4 |-> FALSE, sub |-> FALSE, pc |-> "idle", size |-> 0,
                http |-> 0, deferred |-> << >>, queue |-> << >>, out |-> 0,
                heard |-> 0]]

-----------------------------------------------------------------------------
(* set_value and the listeners.                                            *)

\* The listener of a connection: nothing for one that has not subscribed,
\* else send_event; a subscription whose connection is gone is dropped.
Notified(r, v) ==
  CASE ~r.sub -> r
    [] r.sub /\ r.http > 0 -> [r EXCEPT !.deferred = Append(@, v)]
    [] r.sub /\ r.http = 0 /\ r.up -> [r EXCEPT !.queue = Append(@, Event(v))]
    [] OTHER -> [r EXCEPT !.sub = FALSE]

\* set_value, with notifications on or not, on top of the connections cs.
Set(on, cs) ==
  /\ value < MaxChanges
  /\ value' = value + 1
  /\ quiet' = ~on
  /\ conn' = IF on THEN [c \in Conns |-> Notified(cs[c], value + 1)] ELSE cs

\* The motion task, or any other of the accessory's own.
Change ==
  /\ Set(flag, conn)
  /\ UNCHANGED flag

-----------------------------------------------------------------------------
(* hyper's task.                                                           *)

Update(c, r) ==
  /\ conn' = [conn EXCEPT ![c] = r]
  /\ UNCHANGED <<value, flag, quiet>>

\* The keys, once the transport has polled its socket.
Taken(r) == IF r.key = "offered" THEN "on" ELSE r.key

\* The controller sends its next request when it has the last answer; the
\* transport has read it and polls for more.
Request(c) ==
  /\ conn[c].up
  /\ conn[c].pc = "idle"
  /\ Update(c, [conn[c] EXCEPT !.pc = "handling", !.key = Taken(conn[c]),
                               !.reading = Taken(conn[c]) = "plain"])

\* M3 of pair-verify: the handler sends the session, then answers.
Verify(c) ==
  /\ conn[c].pc = "handling"
  /\ conn[c].key = "plain"
  /\ Update(c, [conn[c] EXCEPT !.pc = "answering", !.size = 1, !.key = "offered", !.m4 = TRUE])

Answering(r, n) == [r EXCEPT !.pc = "answering", !.size = n]

Subscribed(r) == [r EXCEPT !.sub = TRUE, !.heard = IF r.sub THEN @ ELSE value]

\* write_characteristic with ev: the flag is the characteristic's, not the
\* connection's; then the value, if one is written.
WriteEv(c) ==
  /\ conn[c].pc = "handling"
  /\ conn[c].key = "on"
  /\ \E on \in BOOLEAN, n \in 1..MaxParts :
       LET r  == IF on THEN Subscribed(conn[c]) ELSE [conn[c] EXCEPT !.sub = FALSE]
           cs == [conn EXCEPT ![c] = Answering(r, n)]
       IN  /\ flag' = on
           /\ \/ Set(on, cs)
              \/ conn' = cs /\ UNCHANGED <<value, quiet>>

\* write_characteristic with a value alone.
WriteValue(c) ==
  /\ conn[c].pc = "handling"
  /\ conn[c].key = "on"
  /\ \E n \in 1..MaxParts : Set(flag, [conn EXCEPT ![c] = Answering(conn[c], n)])
  /\ UNCHANGED flag

\* Any other request, or one that fails: a write before the value is set.
HandleOther(c) ==
  /\ conn[c].pc = "handling"
  /\ \E n \in 1..MaxParts : Update(c, Answering(conn[c], n))

\* Mutant: every part is published at once.
AppendHttp_AtOnce(c) ==
  /\ conn[c].pc = "answering"
  /\ conn[c].http < conn[c].size
  /\ Update(c, [conn[c] EXCEPT !.http = @ + 1,
                               !.queue = IF conn[c].up THEN Append(@, Response(1)) ELSE @])

\* poll_write: append_http.
AppendHttp(c) ==
  /\ conn[c].pc = "answering"
  /\ conn[c].http < conn[c].size
  /\ Update(c, [conn[c] EXCEPT !.http = @ + 1])

Events(s) == [i \in 1..Len(s) |-> Event(s[i])]

\* Mutant: the deferred events wait for the next response.
Flushed_Response(r) == <<Response(r.http)>>

\* Mutant: the deferred events are popped from the back.
Flushed_LastFirst(r) ==
  <<Response(r.http)>> \o [i \in 1..Len(r.deferred) |->
                             Event(r.deferred[Len(r.deferred) + 1 - i])]

\* What flush_http sends: the response as one message, then the events.
Flushed(r) == <<Response(r.http)>> \o Events(r.deferred)

\* poll_flush, when hyper has written the response.
FlushHttp(c) ==
  /\ conn[c].pc = "answering"
  /\ conn[c].http = conn[c].size
  /\ conn[c].up
  /\ Update(c, [conn[c] EXCEPT !.pc = "sent", !.http = 0, !.deferred = << >>,
                               !.raced = @ \/ (conn[c].m4 /\ conn[c].reading),
                               !.queue = @ \o Flushed(conn[c])])

\* The transport has ended: the response is taken and lost, and hyper stops.
FlushFails(c) ==
  /\ conn[c].pc = "answering"
  /\ conn[c].http = conn[c].size
  /\ ~conn[c].up
  /\ Update(c, [conn[c] EXCEPT !.pc = "gone", !.http = 0])

-----------------------------------------------------------------------------
(* The transport's task: poll_outgoing and poll_incoming.                  *)

DeliverEvent(c) ==
  /\ conn[c].queue # << >>
  /\ Head(conn[c].queue).event
  /\ Update(c, [conn[c] EXCEPT !.queue = Tail(@), !.heard = Head(conn[c].queue).value])

\* An answer of pair-verify that is encrypted already is lost on the
\* controller.
DeliverResponse(c) ==
  /\ conn[c].queue # << >>
  /\ ~Head(conn[c].queue).event /\ ~conn[c].reading
  /\ LET out  == conn[c].out + Head(conn[c].queue).parts
         done == out = conn[c].size
         lost == conn[c].m4 /\ conn[c].key = "on"
     IN  Update(c, [conn[c] EXCEPT !.queue = Tail(@),
                                   !.out = IF done THEN 0 ELSE out,
                                   !.m4 = FALSE,
                                   !.pc = IF lost THEN "gone" ELSE IF done THEN "idle" ELSE @])

\* Mutant: a poll of the transport begins with the socket.
MayRead_First(r) == TRUE

\* poll_incoming comes when poll_outgoing has emptied the queue.
MayRead(r) == r.queue = << >>

EmptyQueue(c) ==
  /\ conn[c].up /\ conn[c].key # "on" /\ ~conn[c].reading
  /\ MayRead(conn[c])
  /\ Update(c, [conn[c] EXCEPT !.reading = TRUE])

\* The socket takes no more: poll_outgoing stops with the rest of the queue.
SocketFull(c) ==
  /\ conn[c].up /\ conn[c].key # "on" /\ ~conn[c].reading
  /\ conn[c].queue # << >>
  /\ Update(c, [conn[c] EXCEPT !.reading = TRUE, !.raced = @ \/ conn[c].m4])

\* poll_read: the keys are taken, and nothing has arrived.
PollSocket(c) ==
  /\ conn[c].up /\ conn[c].reading
  /\ Update(c, [conn[c] EXCEPT !.reading = FALSE, !.key = Taken(conn[c]),
                               !.raced = @ \/ (conn[c].m4 /\ conn[c].pc = "answering")])

\* End of file, or an error of the socket: what is queued is lost.
Close(c) ==
  /\ conn[c].up
  /\ Update(c, [conn[c] EXCEPT !.up = FALSE, !.queue = << >>, !.reading = FALSE])

ConnStep(c) ==
  \/ Request(c)
  \/ Verify(c)
  \/ WriteEv(c)
  \/ WriteValue(c)
  \/ HandleOther(c)
  \/ AppendHttp(c)
  \/ FlushHttp(c)
  \/ FlushFails(c)
  \/ DeliverEvent(c)
  \/ DeliverResponse(c)
  \/ EmptyQueue(c)
  \/ SocketFull(c)
  \/ PollSocket(c)
  \/ Close(c)

Next == Change \/ \E c \in Conns : ConnStep(c)

Spec == Init /\ [][Next]_vars

-----------------------------------------------------------------------------
(* Properties                                                              *)

\* No response is being written and the transport has nothing to write.
Settled(r) == r.http = 0 /\ r.queue = << >>

\* A subscriber with nothing under way has been told of the last change,
\* unless that change was made with notifications off: an event that was
\* deferred behind a response is not lost, and the only thing that silences
\* a subscriber is the flag another connection may clear
\* (write_characteristic, set_value, SerializedOutput).
SettledHasHeard ==
  \A c \in Conns :
    LET r == conn[c]
    IN  r.up /\ r.sub /\ Settled(r) /\ ~quiet => r.heard = value

\* Events reach a controller in the order of the changes, none twice, however
\* they were deferred and flushed.
EventsInOrder ==
  [][\A c \in Conns : DeliverEvent(c) => conn'[c].heard > conn[c].heard]_vars

\* The answer of pair-verify goes out in plaintext, though the handler has given
\* the keys away before it answers, unless the transport gets to its socket in
\* between or cannot write (handle_finish, EncryptedStream::poll).
VerifiedInPlain ==
  [][\A c \in Conns :
       DeliverResponse(c) /\ conn[c].m4 /\ ~conn[c].raced => conn[c].key # "on"]_vars

\* No event goes out between the parts of a response ("Serializes complete
\* HTTP responses and asynchronous EVENT messages", tcp.rs).
ResponsesWhole ==
  [][\A c \in Conns : DeliverEvent(c) => conn[c].out = 0]_vars
=============================================================================
