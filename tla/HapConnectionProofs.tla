------------------------ MODULE HapConnectionProofs ------------------------
(***************************************************************************)
(* Type correctness of HapConnection and the four properties of its run,   *)
(* for any number of connections, changes and parts.  The response of the  *)
(* request in hand is in the queue as a whole, once, and only while the    *)
(* controller waits for it (OneResponse): this is ResponsesWhole.  What has*)
(* been heard, what is queued and what is deferred are one increasing      *)
(* sequence (Ordered) that the last change ends (Reaches), because events  *)
(* are deferred only behind a response and for a subscriber (Flowing).  The*)
(* keys of a pair-verify wait for its answer to leave the queue (Plain).   *)
(***************************************************************************)
EXTENDS HapConnection, SequenceTheorems, TLAPS

Steps == {"idle", "handling", "answering", "sent", "gone"}

OneResponse(r) ==
  /\ \A i \in 1..Len(r.queue) :
       ~r.queue[i].event => r.pc = "sent" /\ r.queue[i].parts = r.size
  /\ \A i, j \in 1..Len(r.queue) :
       ~r.queue[i].event /\ ~r.queue[j].event => i = j

ConnOK(r) ==
  /\ r \in Conn
  /\ ~r.up => r.queue = << >>
  /\ r.out = 0
  /\ OneResponse(r)

IInv ==
  /\ value \in Changes
  /\ flag \in BOOLEAN
  /\ quiet \in BOOLEAN
  /\ conn \in [Conns -> Conn]
  /\ \A c \in Conns : ConnOK(conn[c])

\* The fields of a connection that its invariant speaks of.
SameQueue(r, s) == s.queue = r.queue /\ s.out = r.out /\ s.up = r.up

-----------------------------------------------------------------------------
LEMMA EventType == \A v \in Changes : Event(v) \in Message /\ Event(v).event
BY HapConnectionAssumption DEF Event, Message, Changes

LEMMA ResponseType == \A n \in 0..MaxParts : Response(n) \in Message /\ ~Response(n).event
                                              /\ Response(n).parts = n
BY HapConnectionAssumption DEF Response, Message, Changes

\* A step of another field keeps the invariant: pc leaves "sent" only with an
\* empty queue, and size stays while it is "sent".
LEMMA FieldsKeep ==
  ASSUME NEW r, ConnOK(r), NEW s \in Conn, SameQueue(r, s),
         r.pc # "sent" \/ (s.pc = "sent" /\ s.size = r.size)
  PROVE  ConnOK(s)
BY DEF ConnOK, OneResponse, SameQueue

LEMMA InitInvariant == Init => IInv
<1> SUFFICES ASSUME Init PROVE IInv
  OBVIOUS
<1> DEFINE r == [up |-> TRUE, key |-> "plain", reading |-> FALSE, raced |-> FALSE,
                 m4 |-> FALSE, sub |-> FALSE, pc |-> "idle", size |-> 0,
                 http |-> 0, deferred |-> << >>, queue |-> << >>, out |-> 0,
                 heard |-> 0]
<1>1. 0 \in Changes /\ 0 \in 0..MaxParts
  BY HapConnectionAssumption DEF Changes
<1>2. r \in Conn
  BY <1>1 DEF Conn, Keys
<1>3. ConnOK(r)
  BY <1>2 DEF ConnOK, OneResponse
<1> HIDE DEF r
<1>4. conn = [c \in Conns |-> r]
  BY DEF Init, r
<1> QED
  BY <1>1, <1>2, <1>3, <1>4 DEF Init, IInv

-----------------------------------------------------------------------------
(* The queue.                                                              *)

\* An event goes to the end of the queue.
LEMMA AppendEvent ==
  ASSUME NEW r, ConnOK(r), r.up, NEW v \in Changes
  PROVE  ConnOK([r EXCEPT !.queue = Append(@, Event(v))])
<1> DEFINE q == Append(r.queue, Event(v))
           s == [r EXCEPT !.queue = q]
<1>1. r \in Conn /\ r.queue \in Seq(Message)
  BY DEF ConnOK, Conn
<1>2. /\ q \in Seq(Message) /\ Len(q) = Len(r.queue) + 1 /\ Len(r.queue) \in Nat
      /\ \A i \in 1..Len(q) : q[i] = IF i <= Len(r.queue) THEN r.queue[i] ELSE Event(v)
  BY <1>1, EventType
<1>3. \A i \in 1..Len(q) : ~q[i].event => i \in 1..Len(r.queue) /\ q[i] = r.queue[i]
  BY <1>2, EventType
<1>4. s \in Conn /\ s.queue = q /\ s.pc = r.pc /\ s.size = r.size /\ s.out = r.out /\ s.up
  BY <1>1, <1>2 DEF Conn
<1> HIDE DEF q, s
<1>5. OneResponse(s)
  BY <1>3, <1>4 DEF ConnOK, OneResponse
<1>6. ConnOK(s)
  BY <1>4, <1>5 DEF ConnOK
<1> QED
  BY <1>6 DEF s, q

\* The listener of a connection.
LEMMA NotifiedKeeps ==
  ASSUME NEW r, ConnOK(r), NEW v \in Changes
  PROVE  ConnOK(Notified(r, v))
<1>1. r \in Conn /\ r.sub \in BOOLEAN /\ r.up \in BOOLEAN /\ r.http \in 0..MaxParts
        /\ r.deferred \in Seq(Changes)
  BY DEF ConnOK, Conn
<1>2. CASE ~r.sub
  BY <1>2 DEF Notified
<1>3. CASE r.sub /\ r.http > 0
  <2> DEFINE s == [r EXCEPT !.deferred = Append(@, v)]
  <2>1. Append(r.deferred, v) \in Seq(Changes)
    BY <1>1
  <2>2. s \in Conn /\ SameQueue(r, s) /\ s.pc = r.pc /\ s.size = r.size
    BY <1>1, <2>1 DEF Conn, SameQueue
  <2>3. ConnOK(s)
    BY <2>2, FieldsKeep
  <2> QED
    BY <1>3, <2>3 DEF Notified
<1>4. CASE r.sub /\ r.http = 0 /\ r.up
  <2>1. Notified(r, v) = [r EXCEPT !.queue = Append(@, Event(v))]
    BY <1>4 DEF Notified
  <2> QED
    BY <1>4, <2>1, AppendEvent
<1>5. CASE r.sub /\ r.http = 0 /\ ~r.up
  <2> DEFINE s == [r EXCEPT !.sub = FALSE]
  <2>1. s \in Conn /\ SameQueue(r, s) /\ s.pc = r.pc /\ s.size = r.size
    BY <1>1 DEF Conn, SameQueue
  <2>2. ConnOK(s)
    BY <2>1, FieldsKeep
  <2> QED
    BY <1>5, <2>2 DEF Notified
<1>6. r.http = 0 \/ r.http > 0
  BY <1>1
<1> QED
  BY <1>1, <1>2, <1>3, <1>4, <1>5, <1>6

\* flush_http: what was queued, the one response, then the deferred events.
LEMMA FlushedAt ==
  ASSUME NEW r \in Conn
  PROVE  LET q == r.queue \o Flushed(r)
         IN
         /\ q \in Seq(Message)
         /\ Len(q) = Len(r.queue) + 1 + Len(r.deferred)
         /\ \A i \in 1..Len(r.queue) : q[i] = r.queue[i]
         /\ q[Len(r.queue) + 1] = Response(r.http)
         /\ \A i \in 1..Len(r.deferred) : q[Len(r.queue) + 1 + i] = Event(r.deferred[i])
<1> DEFINE es == Events(r.deferred)
           f == Flushed(r)
           q == r.queue \o Flushed(r)
<1>1. r.queue \in Seq(Message) /\ r.deferred \in Seq(Changes) /\ r.http \in 0..MaxParts
  BY DEF Conn
<1>2. Len(r.queue) \in Nat /\ Len(r.deferred) \in Nat
  BY <1>1
<1>3. /\ es \in Seq(Message) /\ Len(es) = Len(r.deferred)
      /\ \A i \in 1..Len(r.deferred) : es[i] = Event(r.deferred[i])
  <2>1. \A i \in 1..Len(r.deferred) : r.deferred[i] \in Changes
    BY <1>1
  <2>2. es = [i \in 1..Len(r.deferred) |-> Event(r.deferred[i])]
    BY DEF Events
  <2>3. es \in [1..Len(r.deferred) -> Message]
    BY <2>1, <2>2, EventType
  <2>4. es \in Seq(Message) /\ Len(es) = Len(r.deferred)
    BY <1>1, <2>3
  <2> QED
    BY <2>2, <2>4
<1>4. f = <<Response(r.http)>> \o es
  BY DEF Flushed
<1> HIDE DEF es, q
<1>5. /\ f \in Seq(Message) /\ Len(f) = 1 + Len(r.deferred) /\ f[1] = Response(r.http)
      /\ \A i \in 1..Len(r.deferred) : f[i + 1] = Event(r.deferred[i])
  <2>1. Response(r.http) \in Message
    BY <1>1, ResponseType
  <2>2. /\ f \in Seq(Message) /\ Len(f) = 1 + Len(es) /\ f[1] = Response(r.http)
        /\ \A i \in 2..Len(f) : f[i] = es[i - 1]
    BY <1>3, <1>4, <2>1
  <2>3. \A i \in 1..Len(r.deferred) : i + 1 \in 2..Len(f) /\ (i + 1) - 1 = i
    BY <1>1, <1>3, <2>2
  <2> QED
    BY <1>3, <2>2, <2>3
<1> HIDE DEF f
<1>6. /\ q \in Seq(Message) /\ Len(q) = Len(r.queue) + Len(f)
      /\ \A i \in 1..(Len(r.queue) + Len(f)) :
           q[i] = IF i <= Len(r.queue) THEN r.queue[i] ELSE f[i - Len(r.queue)]
  <2>1. q = r.queue \o f
    BY DEF f, q
  <2>2. r.queue \in Seq(Message) /\ f \in Seq(Message)
    BY <1>1, <1>5
  <2> QED
    BY <2>1, <2>2, ConcatProperties
<1> DEFINE L == Len(r.queue)
           D == Len(r.deferred)
<1>7. L \in Nat /\ D \in Nat /\ Len(f) = 1 + D
  BY <1>2, <1>5
<1> HIDE DEF L, D
<1>8. \A i \in 1..Len(r.queue) : q[i] = r.queue[i]
  <2>1. \A i \in 1..L : i \in 1..(L + Len(f)) /\ i <= L
    BY <1>7
  <2> QED
    BY <1>6, <2>1 DEF L
<1>9. \A i \in 1..Len(f) : q[Len(r.queue) + i] = f[i]
  <2> SUFFICES ASSUME NEW i \in 1..Len(f) PROVE q[Len(r.queue) + i] = f[i]
    OBVIOUS
  <2>1. L + i \in 1..(L + Len(f)) /\ ~(L + i <= L) /\ (L + i) - L = i
    BY <1>7
  <2> QED
    BY <1>6, <2>1 DEF L
<1>10. q[Len(r.queue) + 1] = Response(r.http)
  <2>1. 1 \in 1..Len(f)
    BY <1>7
  <2> QED
    BY <1>5, <1>9, <2>1
<1>11. ASSUME NEW i \in 1..D PROVE q[L + 1 + i] = Event(r.deferred[i])
  <2>1. i + 1 \in 1..Len(f) /\ L + (i + 1) = L + 1 + i
    BY <1>7
  <2>2. q[L + (i + 1)] = f[i + 1]
    BY <1>9, <2>1 DEF L
  <2> QED
    BY <1>5, <2>1, <2>2 DEF D
<1>12. Len(q) = L + 1 + D
  <2>1. Len(q) = L + Len(f)
    BY <1>6 DEF L
  <2> QED
    BY <1>7, <2>1
<1> QED
  BY <1>6, <1>8, <1>10, <1>11, <1>12 DEF q, L, D

LEMMA FlushedQueue ==
  ASSUME NEW r, ConnOK(r), r.pc # "sent"
  PROVE  /\ r.queue \o Flushed(r) \in Seq(Message)
         /\ \E n \in 1..Len(r.queue \o Flushed(r)) :
              \A i \in 1..Len(r.queue \o Flushed(r)) :
                IF i = n THEN (r.queue \o Flushed(r))[i] = Response(r.http)
                         ELSE (r.queue \o Flushed(r))[i].event
<1> DEFINE q == r.queue \o Flushed(r)
           n == Len(r.queue) + 1
           D == Len(r.deferred)
<1>1. r \in Conn /\ r.queue \in Seq(Message) /\ r.deferred \in Seq(Changes)
  BY DEF ConnOK, Conn
<1>2. n \in Nat \ {0} /\ D \in Nat /\ Len(r.queue) = n - 1
  BY <1>1
<1>3. \A i \in 1..Len(r.queue) : r.queue[i].event
  BY <1>1 DEF ConnOK, OneResponse
<1>4. /\ q \in Seq(Message)
      /\ Len(q) = n + D
      /\ \A i \in 1..Len(r.queue) : q[i] = r.queue[i]
      /\ q[n] = Response(r.http)
      /\ \A i \in 1..Len(r.deferred) : q[n + i] = Event(r.deferred[i])
  BY <1>1, FlushedAt
<1> HIDE DEF q, n, D
<1>5. n \in 1..Len(q)
  BY <1>2, <1>4
<1>6. ASSUME NEW i \in 1..Len(q), i # n PROVE q[i].event
  <2>1. CASE i \in 1..Len(r.queue)
    BY <1>3, <1>4, <2>1
  <2>2. CASE i - n \in 1..D
    <3>1. q[i] = Event(r.deferred[i - n])
      <4>1. n + (i - n) = i
        BY <1>2
      <4> QED
        BY <1>4, <2>2, <4>1 DEF D
    <3>2. r.deferred[i - n] \in Changes
      BY <1>1, <2>2 DEF D
    <3> QED
      BY <3>1, <3>2, EventType
  <2> QED
    BY <1>2, <1>4, <1>6, <2>1, <2>2
<1>7. q \in Seq(Message) /\ \E m \in 1..Len(q) :
         \A i \in 1..Len(q) : IF i = m THEN q[i] = Response(r.http) ELSE q[i].event
  BY <1>4, <1>5, <1>6
<1> QED
  BY <1>7 DEF q

\* The transport takes the head of the queue.
LEMMA TailKeeps ==
  ASSUME NEW r, ConnOK(r), r.queue # << >>, NEW s \in Conn,
         s.queue = Tail(r.queue), s.out = 0, s.up = r.up,
         \/ Head(r.queue).event /\ s.pc = r.pc /\ s.size = r.size
         \/ ~Head(r.queue).event
  PROVE  ConnOK(s)
<1>1. r.queue \in Seq(Message) /\ r.up
  BY DEF ConnOK, Conn
<1>2. /\ Len(s.queue) = Len(r.queue) - 1 /\ Len(r.queue) \in Nat /\ Len(r.queue) > 0
      /\ \A i \in 1..Len(s.queue) : s.queue[i] = r.queue[i + 1]
      /\ Head(r.queue) = r.queue[1]
  BY <1>1
<1>3. \A i \in 1..Len(s.queue) : i + 1 \in 1..Len(r.queue) /\ i + 1 # 1
  BY <1>2
<1>4. 1 \in 1..Len(r.queue)
  BY <1>2
<1>5. OneResponse(s)
  <2>1. CASE Head(r.queue).event /\ s.pc = r.pc /\ s.size = r.size
    BY <1>2, <1>3, <2>1 DEF ConnOK, OneResponse
  <2>2. CASE ~Head(r.queue).event
    <3>1. \A i \in 1..Len(s.queue) : s.queue[i].event
      BY <1>2, <1>3, <1>4, <2>2 DEF ConnOK, OneResponse
    <3> QED
      BY <3>1 DEF OneResponse
  <2> QED
    BY <2>1, <2>2
<1> QED
  BY <1>1, <1>5 DEF ConnOK

-----------------------------------------------------------------------------
(* The actions.                                                            *)

\* A change, on top of what a request does to its connection.
LEMMA SetKeeps ==
  ASSUME IInv, NEW on \in BOOLEAN, NEW cs \in [Conns -> Conn],
         \A c \in Conns : ConnOK(cs[c]), Set(on, cs)
  PROVE  /\ value' \in Changes
         /\ quiet' \in BOOLEAN
         /\ conn' \in [Conns -> Conn]
         /\ \A c \in Conns : ConnOK(conn'[c])
<1>1. value + 1 \in Changes /\ value' = value + 1
  BY HapConnectionAssumption DEF Set, IInv, Changes
<1>2. quiet' = ~on
  BY DEF Set
<1>3. \A c \in Conns : ConnOK(Notified(cs[c], value + 1)) /\ Notified(cs[c], value + 1) \in Conn
  BY <1>1, NotifiedKeeps DEF ConnOK
<1>4. \/ conn' = [c \in Conns |-> Notified(cs[c], value + 1)]
      \/ conn' = cs
  BY DEF Set
<1>5. conn' \in [Conns -> Conn] /\ \A c \in Conns : ConnOK(conn'[c])
  BY <1>3, <1>4
<1> QED
  BY <1>1, <1>2, <1>5

LEMMA UpdateKeeps ==
  ASSUME IInv, NEW c \in Conns, NEW r, ConnOK(r), Update(c, r)
  PROVE  IInv'
<1>1. r \in Conn
  BY DEF ConnOK
<1>2. conn' = [conn EXCEPT ![c] = r] /\ UNCHANGED <<value, flag, quiet>>
  BY DEF Update
<1>3. conn' \in [Conns -> Conn] /\ \A d \in Conns : ConnOK(conn'[d])
  BY <1>1, <1>2 DEF IInv
<1> QED
  BY <1>2, <1>3 DEF IInv

\* A handler has its answer: the response in hand gets its size.
LEMMA AnsweringKeeps ==
  ASSUME NEW r, ConnOK(r), r.pc = "handling", NEW n \in 1..MaxParts
  PROVE  ConnOK(Answering(r, n))
<1> DEFINE s == Answering(r, n)
<1>1. n \in 0..MaxParts /\ r \in Conn
  BY HapConnectionAssumption DEF ConnOK
<1>2. s \in Conn /\ SameQueue(r, s)
  BY <1>1 DEF Answering, Conn, SameQueue
<1> QED
  BY <1>2, FieldsKeep

LEMMA RequestsKeep ==
  ASSUME IInv, NEW c \in Conns, WriteEv(c) \/ WriteValue(c) \/ HandleOther(c)
  PROVE  IInv'
<1>1. ConnOK(conn[c]) /\ conn[c] \in Conn /\ conn[c].pc = "handling"
  BY DEF IInv, ConnOK, WriteEv, WriteValue, HandleOther
<1>2. ASSUME NEW r, ConnOK(r), r.pc = "handling", NEW n \in 1..MaxParts
      PROVE  LET cs == [conn EXCEPT ![c] = Answering(r, n)]
             IN  cs \in [Conns -> Conn] /\ \A d \in Conns : ConnOK(cs[d])
  <2>1. ConnOK(Answering(r, n)) /\ Answering(r, n) \in Conn
    BY <1>2, AnsweringKeeps DEF ConnOK
  <2> QED
    BY <2>1 DEF IInv
<1>3. CASE WriteEv(c)
  <2>1. PICK on \in BOOLEAN, n \in 1..MaxParts :
          LET r  == IF on THEN Subscribed(conn[c]) ELSE [conn[c] EXCEPT !.sub = FALSE]
              cs == [conn EXCEPT ![c] = Answering(r, n)]
          IN  flag' = on /\ (Set(on, cs) \/ (conn' = cs /\ UNCHANGED <<value, quiet>>))
    BY <1>3 DEF WriteEv
  <2> DEFINE r == IF on THEN Subscribed(conn[c]) ELSE [conn[c] EXCEPT !.sub = FALSE]
             cs == [conn EXCEPT ![c] = Answering(r, n)]
  <2>2. r \in Conn /\ SameQueue(conn[c], r) /\ r.pc = "handling"
    <3>1. value \in Changes
      BY DEF IInv
    <3> QED
      BY <1>1, <3>1 DEF Subscribed, Conn, SameQueue
  <2>3. ConnOK(r)
    BY <1>1, <2>2, FieldsKeep
  <2> HIDE DEF r
  <2>4. cs \in [Conns -> Conn] /\ \A d \in Conns : ConnOK(cs[d])
    BY <1>2, <2>2, <2>3
  <2>5. flag' = on /\ (Set(on, cs) \/ (conn' = cs /\ UNCHANGED <<value, quiet>>))
    BY <2>1 DEF r
  <2> HIDE DEF cs
  <2>6. CASE Set(on, cs)
    BY <2>4, <2>5, <2>6, SetKeeps DEF IInv
  <2>7. CASE conn' = cs /\ UNCHANGED <<value, quiet>>
    BY <2>4, <2>5, <2>7 DEF IInv
  <2> QED
    BY <2>5, <2>6, <2>7
<1>4. CASE WriteValue(c)
  <2>1. PICK n \in 1..MaxParts : Set(flag, [conn EXCEPT ![c] = Answering(conn[c], n)])
    BY <1>4 DEF WriteValue
  <2>2. flag \in BOOLEAN /\ UNCHANGED flag
    BY <1>4 DEF WriteValue, IInv
  <2> DEFINE cs == [conn EXCEPT ![c] = Answering(conn[c], n)]
  <2>3. cs \in [Conns -> Conn] /\ \A d \in Conns : ConnOK(cs[d])
    BY <1>1, <1>2
  <2> HIDE DEF cs
  <2>4. Set(flag, cs)
    BY <2>1 DEF cs
  <2> QED
    BY <2>2, <2>3, <2>4, SetKeeps DEF IInv
<1>5. CASE HandleOther(c)
  BY <1>1, <1>5, AnsweringKeeps, UpdateKeeps DEF HandleOther
<1> QED
  BY <1>3, <1>4, <1>5

\* The steps of hyper's task that send nothing, and the transport's at its socket.
LEMMA QuietKeeps ==
  ASSUME IInv, NEW c \in Conns,
         \/ Request(c) \/ Verify(c) \/ AppendHttp(c) \/ FlushFails(c)
         \/ EmptyQueue(c) \/ SocketFull(c) \/ PollSocket(c)
  PROVE  IInv'
<1> USE HapConnectionAssumption
<1>1. ConnOK(conn[c]) /\ conn[c] \in Conn
  BY DEF IInv, ConnOK
<1>2. ASSUME NEW s \in Conn, Update(c, s), SameQueue(conn[c], s),
             conn[c].pc # "sent" \/ (s.pc = "sent" /\ s.size = conn[c].size)
      PROVE  IInv'
  BY <1>1, <1>2, FieldsKeep, UpdateKeeps
<1>3. CASE Request(c) \/ Verify(c)
  <2>1. CASE Request(c)
    <3> DEFINE b == Taken(conn[c]) = "plain"
               s == [conn[c] EXCEPT !.pc = "handling", !.key = Taken(conn[c]), !.reading = b]
    <3>1. b \in BOOLEAN
      OBVIOUS
    <3>2. Update(c, s) /\ conn[c].pc # "sent"
      BY <2>1 DEF Request
    <3> HIDE DEF b
    <3>3. s \in Conn /\ SameQueue(conn[c], s)
      BY <1>1, <3>1 DEF Taken, Conn, Keys, SameQueue
    <3> QED
      BY <1>2, <3>2, <3>3
  <2>2. CASE Verify(c)
    <3> DEFINE s == [conn[c] EXCEPT !.pc = "answering", !.size = 1, !.key = "offered", !.m4 = TRUE]
    <3>1. 1 \in 0..MaxParts
      OBVIOUS
    <3>2. s \in Conn
      BY <1>1, <3>1 DEF Conn, Keys
    <3>3. SameQueue(conn[c], s)
      BY <1>1 DEF Conn, SameQueue
    <3> QED
      BY <1>2, <2>2, <3>2, <3>3 DEF Verify
  <2> QED
    BY <1>3, <2>1, <2>2
<1>4. CASE AppendHttp(c)
  <2> DEFINE s == [conn[c] EXCEPT !.http = conn[c].http + 1]
  <2>1. conn[c].http + 1 \in 0..MaxParts
    BY <1>1, <1>4 DEF AppendHttp, Conn
  <2>2. s \in Conn /\ SameQueue(conn[c], s)
    BY <1>1, <2>1 DEF Conn, SameQueue
  <2> QED
    BY <1>2, <1>4, <2>2 DEF AppendHttp
<1>5. CASE FlushFails(c)
  <2> DEFINE s == [conn[c] EXCEPT !.pc = "gone", !.http = 0]
  <2>1. 0 \in 0..MaxParts
    OBVIOUS
  <2>2. s \in Conn
    BY <1>1, <2>1 DEF Conn
  <2>3. SameQueue(conn[c], s)
    BY <1>1 DEF Conn, SameQueue
  <2> QED
    BY <1>2, <1>5, <2>2, <2>3 DEF FlushFails
<1>6. CASE EmptyQueue(c)
  BY <1>1, <1>2, <1>6 DEF EmptyQueue, Conn, SameQueue
<1>7. CASE SocketFull(c)
  BY <1>1, <1>2, <1>7 DEF SocketFull, Conn, SameQueue
<1>8. CASE PollSocket(c)
  BY <1>1, <1>2, <1>8 DEF PollSocket, Taken, Conn, Keys, SameQueue
<1> QED
  BY <1>3, <1>4, <1>5, <1>6, <1>7, <1>8

LEMMA FlushKeeps == ASSUME IInv, NEW c \in Conns, FlushHttp(c) PROVE IInv'
<1> DEFINE r == conn[c]
           q == r.queue \o Flushed(r)
           b == r.raced \/ (r.m4 /\ r.reading)
           s == [r EXCEPT !.pc = "sent", !.http = 0, !.deferred = << >>, !.raced = b, !.queue = q]
<1>1. ConnOK(r) /\ r \in Conn /\ r.pc = "answering" /\ r.http = r.size /\ r.up
  BY DEF IInv, ConnOK, FlushHttp
<1>2. /\ q \in Seq(Message)
      /\ \E n \in 1..Len(q) :
           \A i \in 1..Len(q) : IF i = n THEN q[i] = Response(r.http) ELSE q[i].event
  BY <1>1, FlushedQueue
<1>3. Update(c, s)
  BY DEF FlushHttp
<1>4. r.http \in 0..MaxParts /\ r.out = 0 /\ b \in BOOLEAN
  BY <1>1 DEF Conn, ConnOK
<1> HIDE DEF q, b
<1>5. s \in Conn /\ s.queue = q /\ s.pc = "sent" /\ s.size = r.size /\ s.out = 0 /\ s.up
  <2>1. 0 \in 0..MaxParts /\ << >> \in Seq(Changes)
    BY HapConnectionAssumption
  <2>2. s \in Conn
    BY <1>1, <1>2, <1>4, <2>1 DEF Conn
  <2>3. s.queue = q /\ s.pc = "sent" /\ s.size = r.size /\ s.out = 0 /\ s.up
    BY <1>1, <1>4 DEF Conn
  <2> QED
    BY <2>2, <2>3
<1> HIDE DEF s
<1>6. OneResponse(s)
  BY <1>1, <1>2, <1>4, <1>5, ResponseType DEF OneResponse
<1>7. ConnOK(s)
  BY <1>5, <1>6 DEF ConnOK
<1> QED
  BY <1>3, <1>7, UpdateKeeps

LEMMA DeliverKeeps ==
  ASSUME IInv, NEW c \in Conns, DeliverEvent(c) \/ DeliverResponse(c) \/ Close(c)
  PROVE  IInv'
<1> USE HapConnectionAssumption
<1> DEFINE r == conn[c]
<1>1. ConnOK(r) /\ r \in Conn /\ r.queue \in Seq(Message) /\ r.out = 0 /\ OneResponse(r)
  BY DEF IInv, ConnOK, Conn
<1>2. r.queue # << >> => /\ Tail(r.queue) \in Seq(Message) /\ Head(r.queue) \in Message
                         /\ Head(r.queue) = r.queue[1] /\ 1 \in 1..Len(r.queue)
  BY <1>1
<1>3. CASE DeliverEvent(c)
  <2> DEFINE s == [r EXCEPT !.queue = Tail(r.queue), !.heard = Head(r.queue).value]
  <2>1. Update(c, s) /\ r.queue # << >> /\ Head(r.queue).event
    BY <1>3 DEF DeliverEvent
  <2>2. Head(r.queue).value \in Changes
    BY <1>2, <2>1 DEF Message
  <2>3. /\ s \in Conn /\ s.queue = Tail(r.queue) /\ s.out = 0 /\ s.up = r.up
        /\ s.pc = r.pc /\ s.size = r.size
    BY <1>1, <1>2, <2>1, <2>2 DEF Conn
  <2> QED
    BY <1>1, <2>1, <2>3, TailKeeps, UpdateKeeps
<1>4. CASE DeliverResponse(c)
  <2>1. r.queue # << >> /\ ~Head(r.queue).event
    BY <1>4 DEF DeliverResponse
  <2>2. Head(r.queue).parts = r.size /\ r.size \in 0..MaxParts /\ 0 + r.size = r.size
    BY <1>1, <1>2, <2>1 DEF OneResponse, Conn
  <2> DEFINE lost == r.m4 /\ r.key = "on"
             s == [r EXCEPT !.queue = Tail(r.queue), !.out = 0, !.m4 = FALSE,
                            !.pc = IF lost THEN "gone" ELSE "idle"]
  <2>3. Update(c, s)
    BY <1>1, <1>4, <2>2 DEF DeliverResponse
  <2>4. s \in Conn /\ s.queue = Tail(r.queue) /\ s.out = 0 /\ s.up = r.up
    <3>1. 0 \in 0..MaxParts /\ Tail(r.queue) \in Seq(Message)
      BY <1>2, <2>1
    <3>2. s \in Conn
      BY <1>1, <3>1 DEF Conn
    <3>3. s.queue = Tail(r.queue) /\ s.out = 0 /\ s.up = r.up
      BY <1>1 DEF Conn
    <3> QED
      BY <3>2, <3>3
  <2> QED
    BY <1>1, <2>1, <2>3, <2>4, TailKeeps, UpdateKeeps
<1>5. CASE Close(c)
  <2> DEFINE s == [r EXCEPT !.up = FALSE, !.queue = << >>, !.reading = FALSE]
  <2>1. Update(c, s)
    BY <1>5 DEF Close
  <2>2. s \in Conn /\ s.queue = << >> /\ s.out = 0
    <3>1. << >> \in Seq(Message)
      OBVIOUS
    <3>2. s \in Conn
      BY <1>1, <3>1 DEF Conn
    <3>3. s.queue = << >> /\ s.out = 0
      BY <1>1 DEF Conn
    <3> QED
      BY <3>2, <3>3
  <2>3. ConnOK(s)
    BY <2>2 DEF ConnOK, OneResponse
  <2> QED
    BY <2>1, <2>3, UpdateKeeps
<1> QED
  BY <1>3, <1>4, <1>5

LEMMA StepInvariant == IInv /\ [Next]_vars => IInv'
<1> SUFFICES ASSUME IInv, [Next]_vars PROVE IInv'
  OBVIOUS
<1>1. CASE UNCHANGED vars
  BY <1>1 DEF vars, IInv
<1>2. CASE Change
  BY <1>2, SetKeeps DEF Change, IInv
<1>3. ASSUME NEW c \in Conns, ConnStep(c) PROVE IInv'
  BY <1>3, RequestsKeep, QuietKeeps, FlushKeeps, DeliverKeeps DEF ConnStep
<1> QED
  BY <1>1, <1>2, <1>3 DEF Next

LEMMA Invariance == Spec => []IInv
BY InitInvariant, StepInvariant, PTL DEF Spec

\* Connections keep their types for any number of them, of changes and of parts, and
\* nothing is queued for a transport that has ended (EncryptedStream, flush_http).
THEOREM TypeCorrect == Spec => []TypeOK
<1>1. IInv => TypeOK
  BY DEF IInv, TypeOK, ConnOK
<1> QED
  BY <1>1, Invariance, PTL

\* No event goes out between the parts of a response, for any number of connections
\* and of parts: flush_http queues a response as one message.
THEOREM Whole == Spec => ResponsesWhole
<1>1. IInv => \A c \in Conns : conn[c].out = 0
  BY DEF IInv, ConnOK
<1>2. IInv /\ [Next]_vars => [\A c \in Conns : DeliverEvent(c) => conn[c].out = 0]_vars
  BY <1>1
<1> QED
  BY <1>2, Invariance, PTL DEF Spec, ResponsesWhole

-----------------------------------------------------------------------------
(* What is under way: the order of the events, that none is lost, and the  *)
(* keys.                                                                   *)

\* The events under way to a controller, in the queue or behind a response: each
\* later in time than what the controller has heard and than those before it.
Ordered(r, v) ==
  /\ r.heard <= v
  /\ \A i \in 1..Len(r.queue) :
       r.queue[i].event => r.heard < r.queue[i].value /\ r.queue[i].value <= v
  /\ \A i \in 1..Len(r.deferred) : r.heard < r.deferred[i] /\ r.deferred[i] <= v
  /\ \A i, j \in 1..Len(r.queue) :
       i < j /\ r.queue[i].event /\ r.queue[j].event => r.queue[i].value < r.queue[j].value
  /\ \A i, j \in 1..Len(r.deferred) : i < j => r.deferred[i] < r.deferred[j]
  /\ \A i \in 1..Len(r.queue), j \in 1..Len(r.deferred) :
       r.queue[i].event => r.queue[i].value < r.deferred[j]

\* Events are deferred only behind a response that is being written, and for a
\* subscriber.  What is left for one that has unsubscribed goes out before the
\* response to that request, so that nothing is under way when it asks again.
Flowing(r) ==
  /\ r.pc # "answering" => r.http = 0
  /\ r.http = 0 \/ ~r.sub => r.deferred = << >>
  /\ ~r.sub /\ r.pc \in {"idle", "handling"} => \A i \in 1..Len(r.queue) : ~r.queue[i].event
  /\ ~r.sub /\ r.pc = "sent" =>
       \A i, j \in 1..Len(r.queue) : r.queue[i].event /\ ~r.queue[j].event => i < j

\* The last change, unless it was a quiet one, has been heard or is under way.
Reaches(r, v, q) ==
  r.sub /\ ~q =>
    \/ r.heard = v
    \/ \E i \in 1..Len(r.queue) : r.queue[i].event /\ r.queue[i].value = v
    \/ \E i \in 1..Len(r.deferred) : r.deferred[i] = v

\* The keys of a pair-verify are taken after its answer has left the queue.
Plain(r) ==
  r.m4 /\ ~r.raced =>
    /\ r.key = "offered"
    /\ \/ r.pc = "answering"
       \/ r.pc = "sent" /\ ~r.reading /\ \E i \in 1..Len(r.queue) : ~r.queue[i].event

HistOK(r, v, q) == r.up => Ordered(r, v) /\ Flowing(r) /\ Reaches(r, v, q) /\ Plain(r)

Hist == \A c \in Conns : HistOK(conn[c], value, quiet)

\* The fields that Ordered and Reaches speak of.
SameEvents(r, s) ==
  /\ s.up = r.up /\ s.sub = r.sub /\ s.heard = r.heard
  /\ s.queue = r.queue /\ s.deferred = r.deferred

\* A step of the other fields: a response begins only for a request in hand, and
\* is being written as long as something is deferred.
LEMMA FieldsHist ==
  ASSUME NEW r, NEW s, NEW v, NEW q, HistOK(r, v, q), SameEvents(r, s), Plain(s),
         s.pc # "answering" => s.http = 0,
         s.http = 0 => r.deferred = << >>,
         s.pc \in {"idle", "handling"} => r.pc \in {"idle", "handling"},
         s.pc = "sent" => r.pc = "sent"
  PROVE  HistOK(s, v, q)
<1>1. r.up => Ordered(s, v) /\ Reaches(s, v, q)
  BY DEF HistOK, Ordered, Reaches, SameEvents
<1>2. ASSUME Flowing(r) PROVE Flowing(s)
  <2>1. s.http = 0 \/ ~s.sub => s.deferred = << >>
    BY <1>2 DEF Flowing, SameEvents
  <2>2. ~s.sub /\ s.pc \in {"idle", "handling"} => \A i \in 1..Len(s.queue) : ~s.queue[i].event
    BY <1>2 DEF Flowing, SameEvents
  <2>3. ~s.sub /\ s.pc = "sent" =>
          \A i, j \in 1..Len(s.queue) : s.queue[i].event /\ ~s.queue[j].event => i < j
    BY <1>2 DEF Flowing, SameEvents
  <2> QED
    BY <2>1, <2>2, <2>3 DEF Flowing
<1> QED
  BY <1>1, <1>2 DEF HistOK, SameEvents

\* The types of what is under way.
LEMMA UnderWay ==
  ASSUME NEW r \in Conn
  PROVE  /\ r.queue \in Seq(Message) /\ r.deferred \in Seq(Changes)
         /\ Len(r.queue) \in Nat /\ Len(r.deferred) \in Nat
         /\ \A i \in 1..Len(r.queue) : r.queue[i].value \in Int
         /\ \A i \in 1..Len(r.deferred) : r.deferred[i] \in Int
         /\ r.heard \in Int /\ r.http \in Nat
<1>1. r.queue \in Seq(Message) /\ r.deferred \in Seq(Changes)
  BY DEF Conn
<1>2. Changes \subseteq Int /\ \A m \in Message : m.value \in Changes
  BY HapConnectionAssumption DEF Changes, Message
<1>3. r.heard \in Int /\ r.http \in Nat
  <2>1. r.heard \in Changes /\ r.http \in 0..MaxParts
    BY DEF Conn
  <2>2. r.http \in Nat
    BY <2>1, HapConnectionAssumption
  <2>3. r.heard \in Int
    BY <1>2, <2>1
  <2> QED
    BY <2>2, <2>3
<1>4. \A i \in 1..Len(r.queue) : r.queue[i] \in Message
  BY <1>1
<1>5. \A i \in 1..Len(r.deferred) : r.deferred[i] \in Changes
  BY <1>1
<1>6. Len(r.queue) \in Nat /\ Len(r.deferred) \in Nat
  BY <1>1
<1> QED
  BY <1>1, <1>2, <1>3, <1>4, <1>5, <1>6

\* A quiet change asks nothing of anybody.
LEMMA QuietHist ==
  ASSUME NEW r \in Conn, NEW v \in Int, NEW q, HistOK(r, v, q)
  PROVE  HistOK(r, v + 1, TRUE)
<1>1. ASSUME r.up PROVE Ordered(r, v + 1)
  BY <1>1, UnderWay DEF HistOK, Ordered
<1> QED
  BY <1>1 DEF HistOK, Reaches

\* An event of the newest change comes last, wherever the listener puts it.
LEMMA QueuedHist ==
  ASSUME NEW r \in Conn, NEW v \in Int, NEW q, HistOK(r, v, q), r.up, r.sub, r.http = 0,
         NEW s, s.queue = Append(r.queue, Event(v + 1)),
         s.up, s.sub, s.heard = r.heard, s.deferred = r.deferred, s.pc = r.pc,
         s.http = r.http, s.m4 = r.m4, s.raced = r.raced, s.key = r.key,
         s.reading = r.reading
  PROVE  HistOK(s, v + 1, FALSE)
<1>1. /\ Len(s.queue) = Len(r.queue) + 1
      /\ \A i \in 1..Len(r.queue) : s.queue[i] = r.queue[i] /\ i \in 1..Len(s.queue)
      /\ s.queue[Len(s.queue)] = Event(v + 1)
      /\ Len(s.queue) \in 1..Len(s.queue)
      /\ \A i \in 1..Len(s.queue) : i \in 1..Len(r.queue) \/ i = Len(s.queue)
  BY UnderWay
<1>2. Event(v + 1).event /\ Event(v + 1).value = v + 1
  BY DEF Event
<1>3. Ordered(r, v) /\ Flowing(r) /\ Plain(r) /\ r.deferred = << >>
  BY DEF HistOK, Flowing
<1>4. Ordered(s, v + 1)
  <2>1. \A i \in 1..Len(s.queue) :
          s.queue[i].event => s.heard < s.queue[i].value /\ s.queue[i].value <= v + 1
    BY <1>1, <1>2, <1>3, UnderWay DEF Ordered
  <2>2. \A i, j \in 1..Len(s.queue) :
          i < j /\ s.queue[i].event /\ s.queue[j].event => s.queue[i].value < s.queue[j].value
    <3> SUFFICES ASSUME NEW i \in 1..Len(s.queue), NEW j \in 1..Len(s.queue),
                        i < j, s.queue[i].event, s.queue[j].event
                 PROVE  s.queue[i].value < s.queue[j].value
      OBVIOUS
    <3>1. i \in 1..Len(r.queue) /\ s.queue[i] = r.queue[i] /\ r.queue[i].value <= v
      BY <1>1, <1>3, UnderWay DEF Ordered
    <3>2. CASE j \in 1..Len(r.queue)
      BY <1>1, <1>3, <3>1, <3>2 DEF Ordered
    <3>3. CASE j = Len(s.queue)
      BY <1>1, <1>2, <3>1, <3>3, UnderWay
    <3> QED
      BY <1>1, <3>2, <3>3
  <2> QED
    BY <1>3, <2>1, <2>2, UnderWay DEF Ordered
<1>5. Flowing(s)
  BY <1>1, <1>2, <1>3 DEF Flowing
<1>6. Reaches(s, v + 1, FALSE)
  BY <1>1, <1>2 DEF Reaches
<1>7. Plain(s)
  BY <1>1, <1>3 DEF Plain
<1> QED
  BY <1>4, <1>5, <1>6, <1>7 DEF HistOK

LEMMA DeferredHist ==
  ASSUME NEW r \in Conn, NEW v \in Int, NEW q, HistOK(r, v, q), r.sub, r.http > 0,
         NEW s, s.deferred = Append(r.deferred, v + 1),
         s.up = r.up, s.sub, s.heard = r.heard, s.queue = r.queue, s.pc = r.pc,
         s.http = r.http, s.m4 = r.m4, s.raced = r.raced, s.key = r.key,
         s.reading = r.reading
  PROVE  HistOK(s, v + 1, FALSE)
<1> SUFFICES ASSUME r.up PROVE HistOK(s, v + 1, FALSE)
  BY DEF HistOK
<1>1. /\ Len(s.deferred) = Len(r.deferred) + 1
      /\ \A i \in 1..Len(r.deferred) : s.deferred[i] = r.deferred[i] /\ i \in 1..Len(s.deferred)
      /\ s.deferred[Len(s.deferred)] = v + 1
      /\ Len(s.deferred) \in 1..Len(s.deferred)
      /\ \A i \in 1..Len(s.deferred) : i \in 1..Len(r.deferred) \/ i = Len(s.deferred)
  BY UnderWay
<1>2. Ordered(r, v) /\ Flowing(r) /\ Plain(r)
  BY DEF HistOK
<1>3. Ordered(s, v + 1)
  <2>1. \A i \in 1..Len(s.deferred) : s.heard < s.deferred[i] /\ s.deferred[i] <= v + 1
    BY <1>1, <1>2, UnderWay DEF Ordered
  <2>2. \A i, j \in 1..Len(s.deferred) : i < j => s.deferred[i] < s.deferred[j]
    <3> SUFFICES ASSUME NEW i \in 1..Len(s.deferred), NEW j \in 1..Len(s.deferred), i < j
                 PROVE  s.deferred[i] < s.deferred[j]
      OBVIOUS
    <3>1. i \in 1..Len(r.deferred) /\ s.deferred[i] = r.deferred[i] /\ r.deferred[i] <= v
      BY <1>1, <1>2, UnderWay DEF Ordered
    <3>2. CASE j \in 1..Len(r.deferred)
      BY <1>1, <1>2, <3>1, <3>2 DEF Ordered
    <3>3. CASE j = Len(s.deferred)
      BY <1>1, <3>1, <3>3, UnderWay
    <3> QED
      BY <1>1, <3>2, <3>3
  <2>3. \A i \in 1..Len(s.queue), j \in 1..Len(s.deferred) :
          s.queue[i].event => s.queue[i].value < s.deferred[j]
    BY <1>1, <1>2, UnderWay DEF Ordered
  <2>4. \A i \in 1..Len(s.queue) :
          s.queue[i].event => s.heard < s.queue[i].value /\ s.queue[i].value <= v + 1
    BY <1>2, UnderWay DEF Ordered
  <2>5. s.heard <= v + 1
    BY <1>2, UnderWay DEF Ordered
  <2>6. \A i, j \in 1..Len(s.queue) :
          i < j /\ s.queue[i].event /\ s.queue[j].event => s.queue[i].value < s.queue[j].value
    BY <1>2 DEF Ordered
  <2> QED
    BY <2>1, <2>2, <2>3, <2>4, <2>5, <2>6 DEF Ordered
<1>4. Flowing(s)
  BY <1>2, UnderWay DEF Flowing
<1>5. Reaches(s, v + 1, FALSE)
  BY <1>1 DEF Reaches
<1>6. Plain(s)
  BY <1>2 DEF Plain
<1> QED
  BY <1>3, <1>4, <1>5, <1>6 DEF HistOK

\* set_value with notifications on, for one connection: a subscriber is told, or its
\* connection is gone.
LEMMA NotifiedHist ==
  ASSUME NEW r \in Conn, NEW v \in Int, NEW q, HistOK(r, v, q)
  PROVE  HistOK(Notified(r, v + 1), v + 1, FALSE)
<1>1. r.up \in BOOLEAN /\ r.sub \in BOOLEAN /\ r.http \in Nat
  BY UnderWay DEF Conn
<1>2. CASE ~r.sub
  <2>1. HistOK(r, v + 1, TRUE)
    BY QuietHist
  <2> QED
    BY <1>2, <2>1 DEF Notified, HistOK, Reaches
<1>3. CASE r.sub /\ r.http > 0
  <2> DEFINE s == [r EXCEPT !.deferred = Append(@, v + 1)]
  <2>1. /\ s.deferred = Append(r.deferred, v + 1) /\ s.up = r.up /\ s.sub
        /\ s.heard = r.heard /\ s.queue = r.queue /\ s.pc = r.pc /\ s.http = r.http
        /\ s.m4 = r.m4 /\ s.raced = r.raced /\ s.key = r.key /\ s.reading = r.reading
    BY <1>3 DEF Conn
  <2>2. Notified(r, v + 1) = s
    BY <1>3 DEF Notified
  <2> HIDE DEF s
  <2> QED
    BY <1>3, <2>1, <2>2, DeferredHist
<1>4. CASE r.sub /\ r.http = 0 /\ r.up
  <2> DEFINE s == [r EXCEPT !.queue = Append(@, Event(v + 1))]
  <2>1. /\ s.queue = Append(r.queue, Event(v + 1)) /\ s.up /\ s.sub
        /\ s.heard = r.heard /\ s.deferred = r.deferred /\ s.pc = r.pc /\ s.http = r.http
        /\ s.m4 = r.m4 /\ s.raced = r.raced /\ s.key = r.key /\ s.reading = r.reading
    BY <1>4 DEF Conn
  <2>2. Notified(r, v + 1) = s
    BY <1>4 DEF Notified
  <2> HIDE DEF s
  <2> QED
    BY <1>4, <2>1, <2>2, QueuedHist
<1>5. CASE ~r.up /\ r.http = 0
  <2>1. ~Notified(r, v + 1).up
    BY <1>5 DEF Notified, Conn
  <2> QED
    BY <2>1 DEF HistOK
<1>6. r.http = 0 \/ r.http > 0
  BY <1>1
<1> QED
  BY <1>1, <1>2, <1>3, <1>4, <1>5, <1>6

\* A change, on top of what a request does to its connection.
LEMMA SetHist ==
  ASSUME IInv, NEW on \in BOOLEAN, NEW cs \in [Conns -> Conn],
         \A c \in Conns : HistOK(cs[c], value, quiet), Set(on, cs)
  PROVE  Hist'
<1>1. value \in Int
  BY HapConnectionAssumption DEF IInv, Changes
<1>2. value' = value + 1 /\ quiet' = ~on
  BY DEF Set
<1>3. CASE on
  <2>1. \A c \in Conns : HistOK(Notified(cs[c], value + 1), value + 1, FALSE)
    BY <1>1, NotifiedHist
  <2>2. conn' = [c \in Conns |-> Notified(cs[c], value + 1)] /\ quiet' = FALSE
    BY <1>3 DEF Set
  <2> QED
    BY <1>2, <2>1, <2>2 DEF Hist
<1>4. CASE ~on
  <2>1. \A c \in Conns : HistOK(cs[c], value + 1, TRUE)
    BY <1>1, QuietHist
  <2>2. conn' = cs /\ quiet' = TRUE
    BY <1>4 DEF Set
  <2> QED
    BY <1>2, <2>1, <2>2 DEF Hist
<1> QED
  BY <1>3, <1>4

\* A step of one connection.
LEMMA UpdateHist ==
  ASSUME IInv, Hist, NEW c \in Conns, NEW s, HistOK(s, value, quiet), Update(c, s)
  PROVE  Hist'
<1>1. \A d \in Conns : conn'[d] = IF d = c THEN s ELSE conn[d]
  BY DEF Update, IInv
<1> QED
  BY <1>1 DEF Update, Hist

-----------------------------------------------------------------------------
\* A request is handled: nothing is being written for the connection, and what it has
\* unsubscribed from has gone out.
LEMMA HandledHist ==
  ASSUME NEW r \in Conn, NEW q, value \in Int, HistOK(r, value, q), r.pc = "handling",
         NEW n \in 1..MaxParts,
         NEW s, s = r \/ s = Subscribed(r) \/ s = [r EXCEPT !.sub = FALSE]
  PROVE  HistOK(Answering(s, n), value, q)
<1> DEFINE t == Answering(s, n)
<1>1. /\ t.up = r.up /\ t.queue = r.queue /\ t.deferred = r.deferred /\ t.http = r.http
      /\ t.m4 = r.m4 /\ t.raced = r.raced /\ t.pc = "answering"
  BY DEF Answering, Subscribed, Conn
<1>2. \/ t.sub = r.sub /\ t.heard = r.heard
      \/ ~r.sub /\ t.sub /\ t.heard = value
      \/ ~t.sub /\ t.heard = r.heard
  BY DEF Answering, Subscribed, Conn
<1> HIDE DEF t
<1> SUFFICES ASSUME r.up PROVE HistOK(t, value, q)
  BY <1>1 DEF HistOK, t
<1>3. Ordered(r, value) /\ Flowing(r) /\ Reaches(r, value, q) /\ r.deferred = << >> /\ r.http = 0
  BY DEF HistOK, Flowing
<1>4. Flowing(t) /\ Plain(t)
  <2>1. Plain(r)
    BY DEF HistOK
  <2> QED
    BY <1>1, <1>3, <2>1 DEF Flowing, Plain
<1>5. Ordered(t, value) /\ Reaches(t, value, q)
  <2>1. CASE t.heard = r.heard /\ (t.sub = r.sub \/ ~t.sub)
    BY <1>1, <1>3, <2>1 DEF Ordered, Reaches
  <2>2. CASE ~r.sub /\ t.sub /\ t.heard = value
    <3>1. \A i \in 1..Len(t.queue) : ~t.queue[i].event
      BY <1>1, <1>3, <2>2 DEF Flowing
    <3>2. t.deferred = << >> /\ Len(t.deferred) = 0
      BY <1>1, <1>3
    <3> QED
      BY <2>2, <3>1, <3>2 DEF Ordered, Reaches
  <2> QED
    BY <1>2, <2>1, <2>2
<1> QED
  BY <1>4, <1>5 DEF HistOK, t

LEMMA RequestsHist ==
  ASSUME IInv, Hist, NEW c \in Conns, WriteEv(c) \/ WriteValue(c) \/ HandleOther(c)
  PROVE  Hist'
<1>1. conn[c] \in Conn /\ HistOK(conn[c], value, quiet) /\ conn[c].pc = "handling"
  BY DEF IInv, Hist, WriteEv, WriteValue, HandleOther
<1>2. ConnOK(conn[c]) /\ value \in Changes /\ value \in Int
  BY HapConnectionAssumption DEF IInv, Changes
<1>3. ASSUME NEW r \in Conn, ConnOK(r), r.pc = "handling", NEW n \in 1..MaxParts,
             r = conn[c] \/ r = Subscribed(conn[c]) \/ r = [conn[c] EXCEPT !.sub = FALSE]
      PROVE  LET cs == [conn EXCEPT ![c] = Answering(r, n)]
             IN  cs \in [Conns -> Conn] /\ \A d \in Conns : HistOK(cs[d], value, quiet)
  <2>1. HistOK(Answering(r, n), value, quiet)
    BY <1>1, <1>2, <1>3, HandledHist
  <2>2. Answering(r, n) \in Conn
    BY <1>3, AnsweringKeeps DEF ConnOK
  <2> QED
    BY <2>1, <2>2 DEF IInv, Hist
<1>4. CASE WriteEv(c)
  <2>1. PICK on \in BOOLEAN, n \in 1..MaxParts :
          LET r  == IF on THEN Subscribed(conn[c]) ELSE [conn[c] EXCEPT !.sub = FALSE]
              cs == [conn EXCEPT ![c] = Answering(r, n)]
          IN  flag' = on /\ (Set(on, cs) \/ (conn' = cs /\ UNCHANGED <<value, quiet>>))
    BY <1>4 DEF WriteEv
  <2> DEFINE r == IF on THEN Subscribed(conn[c]) ELSE [conn[c] EXCEPT !.sub = FALSE]
             cs == [conn EXCEPT ![c] = Answering(r, n)]
  <2>2. r \in Conn /\ SameQueue(conn[c], r) /\ r.pc = "handling"
    BY <1>1, <1>2 DEF Subscribed, Conn, SameQueue
  <2>3. ConnOK(r)
    BY <1>1, <1>2, <2>2, FieldsKeep
  <2>4. r = Subscribed(conn[c]) \/ r = [conn[c] EXCEPT !.sub = FALSE]
    OBVIOUS
  <2> HIDE DEF r
  <2>5. cs \in [Conns -> Conn] /\ \A d \in Conns : HistOK(cs[d], value, quiet)
    BY <1>3, <2>2, <2>3, <2>4
  <2>6. Set(on, cs) \/ (conn' = cs /\ UNCHANGED <<value, quiet>>)
    BY <2>1 DEF r
  <2> HIDE DEF cs
  <2>7. CASE Set(on, cs)
    BY <2>5, <2>7, SetHist
  <2>8. CASE conn' = cs /\ UNCHANGED <<value, quiet>>
    BY <2>5, <2>8 DEF Hist
  <2> QED
    BY <2>6, <2>7, <2>8
<1>5. CASE WriteValue(c)
  <2>1. PICK n \in 1..MaxParts : Set(flag, [conn EXCEPT ![c] = Answering(conn[c], n)])
    BY <1>5 DEF WriteValue
  <2> DEFINE cs == [conn EXCEPT ![c] = Answering(conn[c], n)]
  <2>2. cs \in [Conns -> Conn] /\ \A d \in Conns : HistOK(cs[d], value, quiet)
    BY <1>1, <1>2, <1>3
  <2> HIDE DEF cs
  <2>3. Set(flag, cs) /\ flag \in BOOLEAN
    BY <2>1 DEF cs, IInv
  <2> QED
    BY <2>2, <2>3, SetHist
<1>6. CASE HandleOther(c)
  <2>1. PICK n \in 1..MaxParts : Update(c, Answering(conn[c], n))
    BY <1>6 DEF HandleOther
  <2>2. HistOK(Answering(conn[c], n), value, quiet)
    BY <1>1, <1>2, HandledHist
  <2> QED
    BY <2>1, <2>2, UpdateHist
<1> QED
  BY <1>4, <1>5, <1>6

\* The steps of hyper's task that send nothing, the transport's at its socket, and
\* its end.
LEMMA QuietStepsHist ==
  ASSUME IInv, Hist, NEW c \in Conns,
         \/ Request(c) \/ Verify(c) \/ AppendHttp(c) \/ FlushFails(c)
         \/ EmptyQueue(c) \/ SocketFull(c) \/ PollSocket(c) \/ Close(c)
  PROVE  Hist'
<1> DEFINE r == conn[c]
<1>1. r \in Conn /\ HistOK(r, value, quiet)
  BY DEF IInv, Hist
<1>2. r.up => Flowing(r) /\ Plain(r)
  BY <1>1 DEF HistOK
<1>3. ASSUME NEW s, SameEvents(r, s), Update(c, s),
             r.up => /\ Plain(s)
                     /\ s.pc # "answering" => s.http = 0
                     /\ s.http = 0 => r.deferred = << >>
                     /\ s.pc \in {"idle", "handling"} => r.pc \in {"idle", "handling"}
                     /\ s.pc = "sent" => r.pc = "sent"
      PROVE  Hist'
  <2>1. HistOK(s, value, quiet)
    <3>1. CASE r.up
      BY <1>1, <1>3, <3>1, FieldsHist
    <3>2. CASE ~r.up
      BY <1>3, <3>2 DEF HistOK, SameEvents
    <3> QED
      BY <3>1, <3>2
  <2> QED
    BY <1>3, <2>1, UpdateHist
<1>4. CASE Request(c)
  <2> DEFINE b == Taken(r) = "plain"
             s == [r EXCEPT !.pc = "handling", !.key = Taken(r), !.reading = b]
  <2>1. Update(c, s) /\ r.pc = "idle" /\ r.up
    BY <1>4 DEF Request
  <2> HIDE DEF b
  <2>2. SameEvents(r, s) /\ s.pc = "handling" /\ s.http = r.http /\ s.m4 = r.m4 /\ s.raced = r.raced
    BY <1>1 DEF Conn, SameEvents
  <2> HIDE DEF s
  <2>3. Plain(s) /\ r.http = 0 /\ r.deferred = << >>
    BY <1>2, <2>1, <2>2 DEF Plain, Flowing
  <2> QED
    BY <1>3, <2>1, <2>2, <2>3
<1>5. CASE Verify(c)
  <2> DEFINE s == [r EXCEPT !.pc = "answering", !.size = 1, !.key = "offered", !.m4 = TRUE]
  <2>1. Update(c, s) /\ r.pc = "handling"
    BY <1>5 DEF Verify
  <2>2. SameEvents(r, s) /\ s.pc = "answering" /\ s.key = "offered" /\ s.http = r.http
    BY <1>1 DEF Conn, SameEvents
  <2> HIDE DEF s
  <2>3. Plain(s) /\ (r.up => r.deferred = << >>)
    BY <1>2, <2>1, <2>2 DEF Plain, Flowing
  <2> QED
    BY <1>3, <2>1, <2>2, <2>3
<1>6. CASE AppendHttp(c)
  <2> DEFINE s == [r EXCEPT !.http = r.http + 1]
  <2>1. Update(c, s) /\ r.pc = "answering"
    BY <1>6 DEF AppendHttp
  <2>2. /\ SameEvents(r, s) /\ s.http = r.http + 1 /\ s.pc = r.pc /\ s.m4 = r.m4
        /\ s.raced = r.raced /\ s.key = r.key
    BY <1>1 DEF Conn, SameEvents
  <2> HIDE DEF s
  <2>3. r.http \in Nat
    BY <1>1, UnderWay
  <2>4. s.http # 0
    BY <2>2, <2>3
  <2>5. r.up => Plain(s)
    BY <1>2, <2>1, <2>2 DEF Plain
  <2> QED
    BY <1>3, <2>1, <2>2, <2>4, <2>5
<1>7. CASE FlushFails(c) \/ Close(c)
  <2>1. PICK s : Update(c, s) /\ ~s.up
    <3>1. CASE FlushFails(c)
      <4> DEFINE s == [r EXCEPT !.pc = "gone", !.http = 0]
      <4>1. Update(c, s) /\ ~r.up
        BY <3>1 DEF FlushFails
      <4>2. s.up = r.up
        BY <1>1 DEF Conn
      <4> QED
        BY <4>1, <4>2
    <3>2. CASE Close(c)
      <4> DEFINE s == [r EXCEPT !.up = FALSE, !.queue = << >>, !.reading = FALSE]
      <4>1. Update(c, s)
        BY <3>2 DEF Close
      <4>2. ~s.up
        BY <1>1 DEF Conn
      <4> QED
        BY <4>1, <4>2
    <3> QED
      BY <1>7, <3>1, <3>2
  <2>2. /\ conn'[c] = s /\ UNCHANGED <<value, quiet>>
        /\ \A d \in Conns \ {c} : conn'[d] = conn[d]
    BY <2>1 DEF Update, IInv
  <2> QED
    BY <2>1, <2>2 DEF Hist, HistOK
<1>8. CASE EmptyQueue(c)
  <2> DEFINE s == [r EXCEPT !.reading = TRUE]
  <2>1. Update(c, s) /\ r.queue = << >>
    BY <1>8 DEF EmptyQueue, MayRead
  <2>2. /\ SameEvents(r, s) /\ s.http = r.http /\ s.pc = r.pc /\ s.m4 = r.m4
        /\ s.raced = r.raced /\ s.key = r.key
    BY <1>1 DEF Conn, SameEvents
  <2> HIDE DEF s
  <2>3. r.up => Plain(s)
    BY <1>2, <2>1, <2>2 DEF Plain
  <2> QED
    BY <1>2, <1>3, <2>1, <2>2, <2>3 DEF Flowing
<1>9. CASE SocketFull(c)
  <2> DEFINE b == r.raced \/ r.m4
             s == [r EXCEPT !.reading = TRUE, !.raced = b]
  <2>1. Update(c, s)
    BY <1>9 DEF SocketFull
  <2>2. SameEvents(r, s) /\ s.http = r.http /\ s.pc = r.pc /\ s.m4 = r.m4 /\ s.raced = b
    BY <1>1 DEF Conn, SameEvents
  <2> HIDE DEF s
  <2>3. Plain(s)
    BY <2>2 DEF Plain
  <2> QED
    BY <1>2, <1>3, <2>1, <2>2, <2>3 DEF Flowing
<1>10. CASE PollSocket(c)
  <2> DEFINE b == r.raced \/ (r.m4 /\ r.pc = "answering")
             s == [r EXCEPT !.reading = FALSE, !.key = Taken(r), !.raced = b]
  <2>1. Update(c, s) /\ r.reading
    BY <1>10 DEF PollSocket
  <2>2. SameEvents(r, s) /\ s.http = r.http /\ s.pc = r.pc /\ s.m4 = r.m4 /\ s.raced = b
    BY <1>1 DEF Conn, SameEvents
  <2> HIDE DEF s
  <2>3. r.up => Plain(s)
    BY <1>2, <2>1, <2>2 DEF Plain
  <2> QED
    BY <1>2, <1>3, <2>1, <2>2, <2>3 DEF Flowing
<1> QED
  BY <1>4, <1>5, <1>6, <1>7, <1>8, <1>9, <1>10

\* flush_http keeps the order: what was queued goes before what was deferred.
LEMMA FlushHist == ASSUME IInv, Hist, NEW c \in Conns, FlushHttp(c) PROVE Hist'
<1> DEFINE r == conn[c]
           q == r.queue \o Flushed(r)
           b == r.raced \/ (r.m4 /\ r.reading)
           s == [r EXCEPT !.pc = "sent", !.http = 0, !.deferred = << >>, !.raced = b, !.queue = q]
           n == Len(r.queue) + 1
           D == Len(r.deferred)
<1>1. r \in Conn /\ ConnOK(r) /\ HistOK(r, value, quiet) /\ r.pc = "answering" /\ r.up
  BY DEF IInv, Hist, FlushHttp
<1>2. Ordered(r, value) /\ Flowing(r) /\ Reaches(r, value, quiet) /\ Plain(r)
  BY <1>1 DEF HistOK
<1>3. /\ r.queue \in Seq(Message) /\ r.deferred \in Seq(Changes) /\ r.http \in 0..MaxParts
      /\ \A i \in 1..Len(r.queue) : r.queue[i].event
  BY <1>1 DEF Conn, ConnOK, OneResponse
<1>4. n \in Nat \ {0} /\ D \in Nat /\ Len(r.queue) = n - 1
  BY <1>3
<1>5. /\ q \in Seq(Message)
      /\ Len(q) = n + D
      /\ \A i \in 1..Len(r.queue) : q[i] = r.queue[i]
      /\ q[n] = Response(r.http)
      /\ \A i \in 1..Len(r.deferred) : q[n + i] = Event(r.deferred[i])
  BY <1>1, FlushedAt
<1>6. Update(c, s)
  BY DEF FlushHttp
<1>7. /\ s.queue = q /\ s.pc = "sent" /\ s.up = r.up /\ s.sub = r.sub /\ s.heard = r.heard
      /\ s.deferred = << >> /\ s.http = 0 /\ s.raced = b /\ s.m4 = r.m4 /\ s.key = r.key
      /\ s.reading = r.reading
  BY <1>1 DEF Conn
<1> HIDE DEF q, s, n, D
<1>8. /\ \A i \in 1..Len(q) : i \in 1..(n - 1) \/ i = n \/ i - n \in 1..D
      /\ \A i \in 1..(n - 1) : i \in 1..Len(q) /\ i < n
      /\ n \in 1..Len(q)
      /\ \A i \in 1..D : n + i \in 1..Len(q)
  BY <1>4, <1>5
<1>9. /\ \A i \in 1..(n - 1) : q[i] = r.queue[i] /\ q[i].event
      /\ ~q[n].event
  BY <1>3, <1>4, <1>5, ResponseType
<1>10. ASSUME NEW i \in 1..D
       PROVE  q[n + i].event /\ q[n + i].value = r.deferred[i]
  <2>1. q[n + i] = Event(r.deferred[i])
    BY <1>5 DEF D
  <2> QED
    BY <2>1 DEF Event
<1>11. ASSUME NEW i \in 1..Len(q), i - n \in 1..D
       PROVE  q[i].event /\ q[i].value = r.deferred[i - n]
  <2>1. n + (i - n) = i
    BY <1>4
  <2>2. q[n + (i - n)].event /\ q[n + (i - n)].value = r.deferred[i - n]
    BY <1>11, <1>10
  <2> QED
    BY <2>1, <2>2
<1>12. ASSUME NEW i \in 1..Len(q), q[i].event
       PROVE  \/ i \in 1..(n - 1) /\ q[i] = r.queue[i]
              \/ i - n \in 1..D /\ q[i].value = r.deferred[i - n]
  BY <1>8, <1>9, <1>11, <1>12
<1>13. /\ value \in Int /\ r.heard \in Int
       /\ \A i \in 1..(n - 1) : r.queue[i].value \in Int
       /\ \A i \in 1..D : r.deferred[i] \in Int
  <2>1. value \in Int
    BY HapConnectionAssumption DEF IInv, Changes
  <2> QED
    BY <1>1, <1>4, <2>1, UnderWay DEF D
<1>14. Ordered(s, value)
  <2>1. ASSUME NEW i \in 1..Len(q), q[i].event
        PROVE  r.heard < q[i].value /\ q[i].value <= value
    <3>1. CASE i \in 1..(n - 1) /\ q[i] = r.queue[i]
      BY <1>2, <1>4, <2>1, <3>1 DEF Ordered
    <3>2. CASE i - n \in 1..D /\ q[i].value = r.deferred[i - n]
      BY <1>2, <3>2 DEF Ordered, D
    <3> QED
      BY <1>12, <2>1, <3>1, <3>2
  <2>2. ASSUME NEW i \in 1..Len(q), NEW j \in 1..Len(q), i < j, q[i].event, q[j].event
        PROVE  q[i].value < q[j].value
    <3>1. CASE i \in 1..(n - 1) /\ q[i] = r.queue[i] /\ j \in 1..(n - 1) /\ q[j] = r.queue[j]
      BY <1>2, <1>4, <2>2, <3>1 DEF Ordered
    <3>2. CASE i \in 1..(n - 1) /\ q[i] = r.queue[i] /\ j - n \in 1..D /\ q[j].value = r.deferred[j - n]
      BY <1>2, <1>4, <2>2, <3>2 DEF Ordered, D
    <3>3. CASE i - n \in 1..D /\ q[i].value = r.deferred[i - n]
                 /\ j - n \in 1..D /\ q[j].value = r.deferred[j - n]
      <4>1. i - n < j - n
        BY <1>4, <2>2
      <4> QED
        BY <1>2, <3>3, <4>1 DEF Ordered, D
    <3>4. CASE i - n \in 1..D /\ j \in 1..(n - 1)
      BY <1>4, <2>2, <3>4
    <3> QED
      BY <1>12, <2>2, <3>1, <3>2, <3>3, <3>4
  <2>3. Len(s.deferred) = 0
    BY <1>7
  <2> QED
    BY <1>2, <1>7, <2>1, <2>2, <2>3 DEF Ordered
<1>15. Flowing(s)
  <2>1. ASSUME ~r.sub, NEW i \in 1..Len(q), NEW j \in 1..Len(q), q[i].event, ~q[j].event
        PROVE  i < j
    <3>1. D = 0
      BY <1>2, <2>1 DEF Flowing, D
    <3>2. j = n /\ i # n
      BY <1>8, <1>9, <1>11, <2>1
    <3> QED
      BY <1>4, <1>5, <3>1, <3>2
  <2> QED
    BY <1>7, <2>1 DEF Flowing
<1>16. Reaches(s, value, quiet)
  <2> SUFFICES ASSUME r.sub, ~quiet
               PROVE  r.heard = value \/ \E i \in 1..Len(q) : q[i].event /\ q[i].value = value
    BY <1>7 DEF Reaches
  <2>1. CASE r.heard = value
    BY <2>1
  <2>2. ASSUME NEW i \in 1..Len(r.queue), r.queue[i].event, r.queue[i].value = value
        PROVE  \E j \in 1..Len(q) : q[j].event /\ q[j].value = value
    BY <1>4, <1>8, <1>9, <2>2
  <2>3. ASSUME NEW i \in 1..D, r.deferred[i] = value
        PROVE  \E j \in 1..Len(q) : q[j].event /\ q[j].value = value
    BY <1>8, <1>10, <2>3
  <2> QED
    BY <1>2, <2>1, <2>2, <2>3 DEF Reaches, D
<1>17. Plain(s)
  BY <1>2, <1>7, <1>8, <1>9 DEF Plain
<1>18. HistOK(s, value, quiet)
  BY <1>14, <1>15, <1>16, <1>17 DEF HistOK
<1> QED
  BY <1>6, <1>18, UpdateHist

\* The transport writes the head of the queue: the controller hears of a later
\* change, or has its response.
LEMMA DeliverHist ==
  ASSUME IInv, Hist, NEW c \in Conns, DeliverEvent(c) \/ DeliverResponse(c)
  PROVE  Hist'
<1> DEFINE r == conn[c]
           L == Len(r.queue)
<1>1. r \in Conn /\ ConnOK(r) /\ HistOK(r, value, quiet) /\ r.queue # << >>
  BY DEF IInv, Hist, DeliverEvent, DeliverResponse
<1>2. r.up /\ r.queue \in Seq(Message) /\ L \in Nat \ {0}
  BY <1>1 DEF ConnOK, Conn
<1>3. Ordered(r, value) /\ Flowing(r) /\ Reaches(r, value, quiet) /\ Plain(r)
  BY <1>1, <1>2 DEF HistOK
<1>4. /\ Len(Tail(r.queue)) = L - 1
      /\ \A i \in 1..(L - 1) : Tail(r.queue)[i] = r.queue[i + 1]
      /\ Head(r.queue) = r.queue[1]
  BY <1>1, <1>2
<1>5. /\ value \in Int /\ r.heard \in Int /\ \A i \in 1..L : r.queue[i].value \in Int
      /\ Len(r.deferred) \in Nat /\ \A i \in 1..Len(r.deferred) : r.deferred[i] \in Int
  <2>1. value \in Int
    BY HapConnectionAssumption DEF IInv, Changes
  <2> QED
    BY <1>1, <2>1, UnderWay
<1>6. ConnOK(r) /\ OneResponse(r)
  BY <1>1 DEF ConnOK
<1> HIDE DEF L
<1>7. /\ 1 \in 1..L
      /\ \A i \in 1..(L - 1) : i + 1 \in 1..L /\ 1 < i + 1
      /\ \A i \in 1..L : i = 1 \/ (i - 1 \in 1..(L - 1) /\ (i - 1) + 1 = i)
  BY <1>2
<1>8. CASE DeliverEvent(c)
  <2> DEFINE s == [r EXCEPT !.queue = Tail(r.queue), !.heard = Head(r.queue).value]
  <2>1. Update(c, s) /\ r.queue[1].event
    BY <1>4, <1>8 DEF DeliverEvent
  <2>2. /\ s.queue = Tail(r.queue) /\ s.heard = r.queue[1].value /\ s.up /\ s.sub = r.sub
        /\ s.deferred = r.deferred /\ s.http = r.http /\ s.pc = r.pc /\ s.m4 = r.m4
        /\ s.raced = r.raced /\ s.key = r.key /\ s.reading = r.reading
    BY <1>1, <1>2, <1>4 DEF Conn
  <2> HIDE DEF s
  <2>3. /\ Len(s.queue) = L - 1
        /\ \A i \in 1..(L - 1) : s.queue[i] = r.queue[i + 1]
    BY <1>4, <2>2
  <2>4. r.heard < r.queue[1].value /\ r.queue[1].value <= value
    BY <1>3, <1>7, <2>1 DEF Ordered, L
  <2>5. Ordered(s, value)
    <3>1. ASSUME NEW i \in 1..(L - 1), s.queue[i].event
          PROVE  s.heard < s.queue[i].value /\ s.queue[i].value <= value
      BY <1>3, <1>7, <2>1, <2>2, <2>3, <3>1 DEF Ordered, L
    <3>2. ASSUME NEW i \in 1..(L - 1), NEW j \in 1..(L - 1), i < j,
                 s.queue[i].event, s.queue[j].event
          PROVE  s.queue[i].value < s.queue[j].value
      <4>1. i + 1 \in 1..L /\ j + 1 \in 1..L /\ i + 1 < j + 1
        BY <1>7, <3>2
      <4> QED
        BY <1>3, <2>3, <3>2, <4>1 DEF Ordered, L
    <3>3. ASSUME NEW i \in 1..Len(s.deferred)
          PROVE  s.heard < s.deferred[i] /\ s.deferred[i] <= value
      BY <1>3, <1>7, <2>1, <2>2 DEF Ordered, L
    <3>4. \A i, j \in 1..Len(s.deferred) : i < j => s.deferred[i] < s.deferred[j]
      BY <1>3, <2>2 DEF Ordered
    <3>5. ASSUME NEW i \in 1..(L - 1), NEW j \in 1..Len(s.deferred), s.queue[i].event
          PROVE  s.queue[i].value < s.deferred[j]
      BY <1>3, <1>7, <2>2, <2>3, <3>5 DEF Ordered, L
    <3> QED
      BY <2>2, <2>3, <2>4, <3>1, <3>2, <3>3, <3>4, <3>5 DEF Ordered
  <2>6. Flowing(s)
    <3>1. ASSUME ~r.sub, r.pc \in {"idle", "handling"}, NEW i \in 1..(L - 1)
          PROVE  ~s.queue[i].event
      BY <1>3, <1>7, <2>3, <3>1 DEF Flowing, L
    <3>2. ASSUME ~r.sub, r.pc = "sent", NEW i \in 1..(L - 1), NEW j \in 1..(L - 1),
                 s.queue[i].event, ~s.queue[j].event
          PROVE  i < j
      <4>1. i + 1 < j + 1
        BY <1>3, <1>7, <2>3, <3>2 DEF Flowing, L
      <4> QED
        BY <4>1
    <3> QED
      BY <1>3, <2>2, <2>3, <3>1, <3>2 DEF Flowing
  <2>7. Reaches(s, value, quiet)
    <3>1. ASSUME NEW i \in 1..L, r.queue[i].event, r.queue[i].value = value
          PROVE  s.heard = value \/ \E j \in 1..(L - 1) : s.queue[j].event /\ s.queue[j].value = value
      <4>1. CASE i = 1
        BY <2>2, <3>1, <4>1
      <4>2. CASE i - 1 \in 1..(L - 1) /\ (i - 1) + 1 = i
        BY <2>3, <3>1, <4>2
      <4> QED
        BY <1>7, <4>1, <4>2
    <3>2. r.heard # value
      BY <1>5, <1>7, <2>4
    <3> QED
      BY <1>3, <2>2, <2>3, <3>1, <3>2 DEF Reaches, L
  <2>8. Plain(s)
    <3>1. ASSUME NEW i \in 1..L, ~r.queue[i].event
          PROVE  \E j \in 1..(L - 1) : ~s.queue[j].event
      BY <1>7, <2>1, <2>3, <3>1
    <3> QED
      BY <1>3, <2>2, <2>3, <3>1 DEF Plain, L
  <2>9. HistOK(s, value, quiet)
    BY <2>5, <2>6, <2>7, <2>8 DEF HistOK
  <2> QED
    BY <2>1, <2>9, UpdateHist
<1>9. CASE DeliverResponse(c)
  <2>1. ~r.queue[1].event /\ r.pc = "sent"
    BY <1>4, <1>6, <1>7, <1>9 DEF DeliverResponse, OneResponse, L
  <2>2. Head(r.queue).parts = r.size /\ r.size \in 0..MaxParts /\ 0 + r.size = r.size /\ r.out = 0
    BY <1>1, <1>4, <1>6, <1>7, <2>1, HapConnectionAssumption DEF OneResponse, ConnOK, Conn, L
  <2> DEFINE lost == r.m4 /\ r.key = "on"
             s == [r EXCEPT !.queue = Tail(r.queue), !.out = 0, !.m4 = FALSE,
                            !.pc = IF lost THEN "gone" ELSE "idle"]
  <2>3. Update(c, s)
    BY <1>9, <2>2 DEF DeliverResponse
  <2>4. /\ s.queue = Tail(r.queue) /\ s.heard = r.heard /\ s.up /\ s.sub = r.sub
        /\ s.deferred = r.deferred /\ s.http = r.http /\ ~s.m4 /\ s.pc \in {"gone", "idle"}
    BY <1>1, <1>2 DEF Conn
  <2> HIDE DEF s
  <2>5. /\ Len(s.queue) = L - 1
        /\ \A i \in 1..(L - 1) : s.queue[i] = r.queue[i + 1]
    BY <1>4, <2>4
  <2>6. r.http = 0 /\ r.deferred = << >>
    BY <1>3, <2>1 DEF Flowing
  <2>7. Ordered(s, value)
    <3>1. ASSUME NEW i \in 1..(L - 1), s.queue[i].event
          PROVE  s.heard < s.queue[i].value /\ s.queue[i].value <= value
      BY <1>3, <1>7, <2>4, <2>5, <3>1 DEF Ordered, L
    <3>2. ASSUME NEW i \in 1..(L - 1), NEW j \in 1..(L - 1), i < j,
                 s.queue[i].event, s.queue[j].event
          PROVE  s.queue[i].value < s.queue[j].value
      <4>1. i + 1 \in 1..L /\ j + 1 \in 1..L /\ i + 1 < j + 1
        BY <1>7, <3>2
      <4> QED
        BY <1>3, <2>5, <3>2, <4>1 DEF Ordered, L
    <3>3. Len(s.deferred) = 0
      BY <2>4, <2>6
    <3> QED
      BY <1>3, <2>4, <2>5, <3>1, <3>2, <3>3 DEF Ordered
  <2>8. Flowing(s)
    <3>1. ASSUME ~r.sub, NEW i \in 1..(L - 1) PROVE ~s.queue[i].event
      <4>1. i + 1 \in 1..L /\ ~(i + 1 < 1)
        BY <1>7
      <4> QED
        BY <1>3, <1>7, <2>1, <2>5, <3>1, <4>1 DEF Flowing, L
    <3> QED
      BY <2>4, <2>5, <2>6, <3>1 DEF Flowing
  <2>9. Reaches(s, value, quiet)
    <3>1. ASSUME NEW i \in 1..L, r.queue[i].event, r.queue[i].value = value
          PROVE  \E j \in 1..(L - 1) : s.queue[j].event /\ s.queue[j].value = value
      BY <1>7, <2>1, <2>5, <3>1
    <3> QED
      BY <1>3, <2>4, <2>5, <3>1 DEF Reaches, L
  <2>10. HistOK(s, value, quiet)
    BY <2>4, <2>7, <2>8, <2>9 DEF HistOK, Plain
  <2> QED
    BY <2>3, <2>10, UpdateHist
<1> QED
  BY <1>8, <1>9

-----------------------------------------------------------------------------
LEMMA InitHist == Init => Hist
<1> SUFFICES ASSUME Init, NEW c \in Conns PROVE HistOK(conn[c], value, quiet)
  BY DEF Hist
<1>1. value = 0 /\ conn[c].heard = 0 /\ conn[c].queue = << >> /\ conn[c].deferred = << >>
        /\ conn[c].http = 0 /\ ~conn[c].m4 /\ ~conn[c].sub
  BY DEF Init
<1>2. Len(conn[c].queue) = 0 /\ Len(conn[c].deferred) = 0
  BY <1>1
<1> QED
  BY <1>1, <1>2 DEF HistOK, Ordered, Flowing, Reaches, Plain

LEMMA StepHist == IInv /\ Hist /\ [Next]_vars => Hist'
<1> SUFFICES ASSUME IInv, Hist, [Next]_vars PROVE Hist'
  OBVIOUS
<1>1. CASE UNCHANGED vars
  BY <1>1 DEF vars, Hist
<1>2. CASE Change
  BY <1>2, SetHist DEF Change, IInv, Hist
<1>3. ASSUME NEW c \in Conns, ConnStep(c) PROVE Hist'
  BY <1>3, RequestsHist, QuietStepsHist, FlushHist, DeliverHist DEF ConnStep
<1> QED
  BY <1>1, <1>2, <1>3 DEF Next

LEMMA History == Spec => []Hist
BY InitHist, StepHist, Invariance, PTL DEF Spec

\* A subscriber with nothing under way has been told of the last change, unless that
\* one was made with notifications off, for any number of connections and of changes:
\* no event that was deferred behind a response is lost (write_characteristic,
\* set_value, SerializedOutput).
THEOREM SettledHeard == Spec => []SettledHasHeard
<1>1. ASSUME IInv, Hist PROVE SettledHasHeard
  <2> SUFFICES ASSUME NEW c \in Conns, conn[c].up, conn[c].sub, Settled(conn[c]), ~quiet
               PROVE  conn[c].heard = value
    BY DEF SettledHasHeard
  <2>1. Flowing(conn[c]) /\ Reaches(conn[c], value, quiet)
    BY <1>1 DEF Hist, HistOK
  <2>2. Len(conn[c].queue) = 0 /\ Len(conn[c].deferred) = 0
    BY <2>1 DEF Settled, Flowing
  <2> QED
    BY <2>1, <2>2 DEF Reaches
<1> QED
  BY <1>1, Invariance, History, PTL

\* Events reach a controller in the order of the changes, none twice, for any number
\* of them and however they were deferred (flush_http, poll_outgoing).
THEOREM InOrder == Spec => EventsInOrder
<1>1. ASSUME IInv, Hist, NEW c \in Conns, DeliverEvent(c)
      PROVE  conn'[c].heard > conn[c].heard
  <2> DEFINE r == conn[c]
  <2>1. r \in Conn /\ ConnOK(r) /\ HistOK(r, value, quiet) /\ r.queue # << >>
    BY <1>1 DEF IInv, Hist, DeliverEvent
  <2>2. r.up /\ r.queue \in Seq(Message)
    BY <2>1 DEF ConnOK, Conn
  <2>3. 1 \in 1..Len(r.queue) /\ Head(r.queue) = r.queue[1]
    BY <2>1, <2>2
  <2>4. r.queue[1].event
    BY <1>1, <2>3 DEF DeliverEvent
  <2>5. r.heard < r.queue[1].value
    BY <2>1, <2>2, <2>3, <2>4 DEF HistOK, Ordered
  <2>6. conn'[c].heard = r.queue[1].value
    BY <1>1, <2>1, <2>3 DEF DeliverEvent, Update, IInv, Conn
  <2> QED
    BY <2>5, <2>6
<1>2. IInv /\ Hist /\ [Next]_vars =>
        [\A c \in Conns : DeliverEvent(c) => conn'[c].heard > conn[c].heard]_vars
  BY <1>1
<1> QED
  BY <1>2, Invariance, History, PTL DEF Spec, EventsInOrder

\* The answer of pair-verify goes out in plaintext unless the transport got to its
\* socket in between, for any number of connections (handle_finish,
\* EncryptedStream::poll).
THEOREM PlainAnswer == Spec => VerifiedInPlain
<1>1. ASSUME IInv, Hist, NEW c \in Conns, DeliverResponse(c), conn[c].m4, ~conn[c].raced
      PROVE  conn[c].key # "on"
  <2>1. ConnOK(conn[c]) /\ HistOK(conn[c], value, quiet) /\ conn[c].queue # << >>
    BY <1>1 DEF IInv, Hist, DeliverResponse
  <2> QED
    BY <1>1, <2>1 DEF ConnOK, HistOK, Plain
<1>2. IInv /\ Hist /\ [Next]_vars =>
        [\A c \in Conns :
           DeliverResponse(c) /\ conn[c].m4 /\ ~conn[c].raced => conn[c].key # "on"]_vars
  BY <1>1
<1> QED
  BY <1>2, Invariance, History, PTL DEF Spec, VerifiedInPlain
=============================================================================
