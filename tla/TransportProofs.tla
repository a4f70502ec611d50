-------------------------- MODULE TransportProofs --------------------------
(***************************************************************************)
(* Proofs about the transports, HdsSession and WireFormats.                *)
(*                                                                         *)
(* HdsSession, for any number of HAP sessions, HDS connections and setups: *)
(* the inductive invariant adds to the types that the setups expire oldest *)
(* first, that a key is prepared or used by a connection but never both,   *)
(* and that the slot holds the secret of a session whose write nobody has  *)
(* crossed.                                                                *)
(*                                                                         *)
(* WireFormats, for any messages, record and part sizes, and however the   *)
(* connection cuts what is sent.  The buffer and the wire together are the *)
(* frames (HdsInv) or records (RecordsInv) after those that were read, so  *)
(* what the reader takes for a whole one at the front is the next one.     *)
(* parse and decode then give back what was written: each is a loop, and   *)
(* after each part what is left of the data, with what was found, is again *)
(* all that was written.  The codec of hds messages (HdsCodec) stands      *)
(* behind the hypothesis HdsRoundTrips.                                    *)
(***************************************************************************)
EXTENDS HdsSession, WireFormats, FiniteSetTheorems, SequenceTheorems, TLAPS

AgedInOrder == \E a \in 0..setups : stale = 1..a

\* No key is of a setup to come.
KeysPast ==
  /\ \A k \in prepared : k.setup <= setups
  /\ \A c \in Conns : conn[c].key \in Key => conn[c].key.setup <= setups

Unidentified == \A c \in Conns : conn[c].pc \in {"none", "first"} => conn[c].key = NoKey

PreparedUnused == \A c \in Conns : conn[c].key \notin prepared

SlotUncrossed == \A s \in Sessions : put[s] = "waiting" => slot = s

IInv ==
  /\ TypeOK
  /\ AgedInOrder
  /\ KeysPast
  /\ Unidentified
  /\ PreparedUnused
  /\ SlotUncrossed
  /\ KeyServesOnce
  /\ AnsweredIsPrepared
  /\ KeyIsSessionBound

-----------------------------------------------------------------------------
LEMMA NoKeyIsNone == NoKey \notin Key
BY DEF NoKey, Key

LEMMA StaleCount ==
  ASSUME TypeOK, AgedInOrder
  PROVE  /\ Cardinality(stale) \in 0..setups
         /\ stale = 1..Cardinality(stale)
<1>1. PICK a \in 0..setups : stale = 1..a
  BY DEF AgedInOrder
<1>2. a \in Nat
  BY <1>1 DEF TypeOK
<1>3. Cardinality(1..a) = a
  <2>1. Cardinality(1..a) = IF 1 > a THEN 0 ELSE a - 1 + 1
    BY <1>2, FS_Interval
  <2> QED
    BY <1>2, <2>1
<1> QED
  BY <1>1, <1>3

LEMMA InitInvariant == Init => IInv
<1> SUFFICES ASSUME Init PROVE IInv
  OBVIOUS
<1> USE HdsSessionAssumption
<1>1. TypeOK
  <2>1. conn \in [Conns -> Conn]
    BY DEF Init, Conn, NoConn
  <2>2. answered \in [Setups -> Answer \cup {NoAnswer}]
    BY DEF Init
  <2>3. told \in [setup : 0..setups, to : Sessions \cup {NoSession}]
    BY DEF Init
  <2> QED
    BY <2>1, <2>2, <2>3 DEF Init, TypeOK
<1>2. AgedInOrder
  BY DEF Init, AgedInOrder
<1>3. \A c \in Conns : conn[c].key = NoKey
  BY DEF Init, NoConn
<1>4. KeysPast /\ Unidentified /\ PreparedUnused /\ KeyServesOnce
  BY <1>3, NoKeyIsNone DEF Init, KeysPast, Unidentified, PreparedUnused, KeyServesOnce
<1>5. SlotUncrossed /\ AnsweredIsPrepared /\ KeyIsSessionBound
  BY DEF Init, SlotUncrossed, AnsweredIsPrepared, KeyIsSessionBound
<1> QED
  BY <1>1, <1>2, <1>4, <1>5 DEF IInv

\* A PUT fills the slot and crosses the others.
LEMMA PutKeeps ==
  ASSUME IInv, UnverifiedPut \/ \E s \in Sessions : PutArrives(s)
  PROVE  IInv'
<1>1. PICK s \in Sessions \cup {NoSession} :
        /\ slot' = s
        /\ put' = IF s \in Sessions THEN [Crossed(put) EXCEPT ![s] = "waiting"] ELSE Crossed(put)
  BY HdsSessionAssumption DEF UnverifiedPut, PutArrives, Published
<1>2. Crossed(put) \in [Sessions -> {"none", "crossed"}]
  BY DEF Crossed
<1>3. slot' \in Sessions \cup {NoSession} /\ put' \in [Sessions -> {"none", "waiting", "crossed"}]
  BY <1>1, <1>2
<1>4. SlotUncrossed'
  BY <1>1, <1>2 DEF SlotUncrossed
<1>5. UNCHANGED <<listener, prepared, stale, answered, setups, answers, conn>>
  BY DEF UnverifiedPut, PutArrives
<1> QED
  BY <1>3, <1>4, <1>5
     DEF IInv, TypeOK, AgedInOrder, KeysPast, Unidentified, PreparedUnused, KeyServesOnce,
         AnsweredIsPrepared, KeyIsSessionBound, answers

\* The handler of a setup write prepares a key of its own number, or none.
LEMMA SetupKeeps == ASSUME IInv, NEW s \in Sessions, SetupWrite(s) PROVE IInv'
<1> USE HdsSessionAssumption
<1> DEFINE n == setups + 1
           key == [secret |-> slot, setup |-> n]
<1>1. PICK ok \in BOOLEAN, asked \in BOOLEAN :
        /\ IF ok THEN SetupPrepares(TRUE) ELSE SetupPrepares(FALSE) \/ SetupRefused
        /\ answered' = [answered EXCEPT ![n] = [to |-> s, ok |-> ok, alone |-> put[s] = "waiting"]]
        /\ IF asked THEN Tell(s, Waits(n)) ELSE pending' = Waits(n) /\ UNCHANGED told
  BY DEF SetupWrite
<1>2. /\ setups \in 0..MaxSetups /\ setups < MaxSetups
      /\ setups' = n /\ n \in Setups
      /\ put' = [put EXCEPT ![s] = "none"]
      /\ UNCHANGED <<slot, stale, conn>>
  BY DEF SetupWrite, IInv, TypeOK, Setups
<1>3. \/ slot # NoSession /\ prepared' = Retained(prepared) \cup {key}
      \/ ~ok /\ prepared' = prepared
  BY <1>1 DEF SetupPrepares, SetupRefused, HasSecret
<1>4. slot # NoSession => key \in Key
  BY <1>2 DEF Key, IInv, TypeOK
<1>5. prepared' \subseteq Key /\ \A k \in prepared' : k \in prepared \/ k = key
  BY <1>3, <1>4 DEF Retained, IInv, TypeOK
<1>6. key.setup = n /\ key.secret = slot
  OBVIOUS
<1> HIDE DEF key
<1>7. KeysPast'
  <2>1. \A m \in Setups : m <= setups => m <= n
    BY <1>2 DEF Setups
  <2>2. \A k \in prepared' : k.setup <= n
    BY <1>2, <1>5, <1>6, <2>1 DEF IInv, KeysPast, TypeOK, Key
  <2>3. \A c \in Conns : conn[c].key \in Key => conn[c].key.setup <= n
    BY <1>2, <2>1 DEF IInv, KeysPast, Key
  <2> QED
    BY <1>2, <2>2, <2>3 DEF KeysPast
<1>8. PreparedUnused'
  <2> SUFFICES ASSUME NEW c \in Conns, conn[c].key \in prepared' PROVE FALSE
    BY <1>2 DEF PreparedUnused
  <2>1. conn[c].key = key /\ conn[c].key \in Key
    BY <1>5 DEF IInv, PreparedUnused
  <2> QED
    BY <1>2, <1>6, <2>1 DEF IInv, KeysPast, Key
<1>9. AnsweredIsPrepared'
  <2> SUFFICES ASSUME NEW m \in 1..n, answered'[m].ok
               PROVE  \/ \E k \in prepared' : k.setup = m
                      \/ m \in stale
                      \/ \E c \in Conns : conn[c].key # NoKey /\ conn[c].key.setup = m
    BY <1>2 DEF AnsweredIsPrepared
  <2>1. CASE m = n
    <3>1. answered'[n].ok = ok
      BY <1>1, <1>2 DEF IInv, TypeOK
    <3> QED
      BY <1>3, <1>6, <2>1, <3>1
  <2>2. CASE m # n
    <3>1. m \in 1..setups /\ answered'[m] = answered[m]
      BY <1>1, <1>2, <2>2 DEF IInv, TypeOK, Setups
    <3>2. \A k \in prepared : k \in prepared' \/ k.setup \in stale
      BY <1>3 DEF Retained
    <3> QED
      BY <3>1, <3>2 DEF IInv, AnsweredIsPrepared
  <2> QED
    BY <2>1, <2>2
<1>10. KeyIsSessionBound'
  <2> SUFFICES ASSUME NEW k \in prepared', answered'[k.setup].alone
               PROVE  k.secret = answered'[k.setup].to
    BY DEF KeyIsSessionBound
  <2>1. CASE k = key
    <3>1. answered'[n] = [to |-> s, ok |-> ok, alone |-> put[s] = "waiting"]
      BY <1>1, <1>2 DEF IInv, TypeOK
    <3>2. answered'[n].alone = (put[s] = "waiting")
      BY <3>1
    <3>3. put[s] = "waiting"
      BY <1>6, <2>1, <3>2
    <3> QED
      BY <1>6, <2>1, <3>1, <3>3 DEF IInv, SlotUncrossed
  <2>2. CASE k \in prepared
    <3>1. k.setup # n
      BY <1>2, <2>2 DEF IInv, KeysPast
    <3>2. answered'[k.setup] = answered[k.setup]
      BY <1>1, <3>1 DEF IInv, TypeOK
    <3> QED
      BY <2>2, <3>2 DEF IInv, KeyIsSessionBound
  <2> QED
    BY <1>5, <2>1, <2>2
<1>11. TypeOK'
  <2>1. [to |-> s, ok |-> ok, alone |-> put[s] = "waiting"] \in Answer
    BY DEF Answer
  <2>2. answered' \in [Setups -> Answer \cup {NoAnswer}]
    BY <1>1, <2>1 DEF IInv, TypeOK
  <2>3. pending' \in 0..setups' /\ told' \in [setup : 0..setups', to : Sessions \cup {NoSession}]
    <3>1. pending' \in {0, n} /\ (told' = told \/ told' = [setup |-> n, to |-> s])
      BY <1>1 DEF Tell, Waits
    <3>2. told \in [setup : 0..n, to : Sessions \cup {NoSession}]
      BY <1>2 DEF IInv, TypeOK
    <3> QED
      BY <1>2, <3>1, <3>2
  <2>4. listener' \in {"none", "open", "ended"}
    BY <1>1 DEF SetupPrepares, SetupRefused, IInv, TypeOK
  <2> QED
    BY <1>2, <1>5, <2>2, <2>3, <2>4 DEF IInv, TypeOK
<1>12. AgedInOrder' /\ SlotUncrossed'
  BY <1>2 DEF IInv, TypeOK, AgedInOrder, SlotUncrossed
<1> QED
  BY <1>2, <1>7, <1>8, <1>9, <1>10, <1>11, <1>12
     DEF IInv, Unidentified, KeyServesOnce

\* A read, the passing of time, and an end of the accept loop.
LEMMA QuietKeeps ==
  ASSUME IInv, (\E s \in Sessions : Read(s)) \/ Age \/ AcceptFails
  PROVE  IInv'
<1>1. CASE \E s \in Sessions : Read(s)
  <2>1. PICK s \in Sessions : Read(s)
    BY <1>1
  <2>2. pending' = 0 /\ told' = [setup |-> pending, to |-> s]
    BY <2>1 DEF Read, Tell
  <2>3. pending' \in 0..setups /\ told' \in [setup : 0..setups, to : Sessions \cup {NoSession}]
    BY <2>2 DEF IInv, TypeOK
  <2> QED
    BY <2>1, <2>3 DEF Read, IInv, TypeOK, AgedInOrder, KeysPast, Unidentified, PreparedUnused,
       SlotUncrossed, KeyServesOnce, AnsweredIsPrepared, KeyIsSessionBound
<1>2. CASE Age
  <2>1. Cardinality(stale) \in 0..setups /\ stale = 1..Cardinality(stale)
    BY StaleCount DEF IInv
  <2>2. /\ stale' = 1..(Cardinality(stale) + 1)
        /\ Cardinality(stale) + 1 \in 0..setups
    BY <1>2, <2>1 DEF Age, IInv, TypeOK
  <2>3. AgedInOrder' /\ stale' \subseteq Setups /\ stale \subseteq stale'
    <3>1. setups' = setups /\ setups \in 0..MaxSetups
      BY <1>2 DEF Age, IInv, TypeOK
    <3>2. PICK a \in 0..setups : stale = 1..a /\ stale' = 1..(a + 1) /\ a + 1 \in 0..setups
      BY <2>1, <2>2
    <3>3. stale' \subseteq Setups /\ stale \subseteq stale'
      BY <3>1, <3>2, HdsSessionAssumption DEF Setups
    <3> QED
      BY <3>1, <3>2, <3>3 DEF AgedInOrder
  <2> QED
    BY <1>2, <2>3 DEF Age, answers, IInv, TypeOK, KeysPast, Unidentified, PreparedUnused,
       SlotUncrossed, KeyServesOnce, AnsweredIsPrepared, KeyIsSessionBound
<1>3. CASE AcceptFails
  BY <1>3 DEF AcceptFails, answers, IInv, TypeOK, AgedInOrder, KeysPast, Unidentified,
     PreparedUnused, SlotUncrossed, KeyServesOnce, AnsweredIsPrepared, KeyIsSessionBound
<1> QED
  BY <1>1, <1>2, <1>3

\* The first frame takes its key out of the prepared ones.
LEMMA FirstFrameKeeps ==
  ASSUME IInv, NEW c \in Conns, NEW k \in Key, FirstFrame(c, k)
  PROVE  IInv'
<1>1. UNCHANGED <<slot, put, listener, stale, answered, setups, answers>>
  BY DEF FirstFrame
<1>2. conn[c] \in Conn /\ conn \in [Conns -> Conn] /\ conn[c].pc = "first" /\ conn[c].key = NoKey
  BY DEF FirstFrame, IInv, TypeOK, Unidentified
<1>3. \/ /\ k \in prepared
         /\ prepared' = Retained(prepared) \ {k}
         /\ conn' = [conn EXCEPT ![c] = [pc |-> "hello", key |-> k]]
      \/ /\ prepared' = Retained(prepared)
         /\ conn' = [conn EXCEPT ![c] = [pc |-> "closed", key |-> NoKey]]
  BY <1>2 DEF FirstFrame, Retained, Without, Conn
<1>4. PICK r \in Conn :
        /\ conn' = [conn EXCEPT ![c] = r]
        /\ r.pc \in {"hello", "closed"}
        /\ r.key = NoKey \/ (r.key = k /\ k \in prepared /\ k \notin prepared')
        /\ prepared' \subseteq prepared
        /\ \A j \in prepared : j \in prepared' \/ j.setup \in stale \/ r.key = j
  <2>1. [pc |-> "hello", key |-> k] \in Conn /\ [pc |-> "closed", key |-> NoKey] \in Conn
    BY DEF Conn
  <2>2. Retained(prepared) \subseteq prepared
        /\ \A j \in prepared : j \in Retained(prepared) \/ j.setup \in stale
    BY DEF Retained
  <2>3. CASE /\ k \in prepared
             /\ prepared' = Retained(prepared) \ {k}
             /\ conn' = [conn EXCEPT ![c] = [pc |-> "hello", key |-> k]]
    <3>1. \A j \in prepared : j \in prepared' \/ j.setup \in stale \/ k = j
      BY <2>2, <2>3
    <3>2. prepared' \subseteq prepared /\ k \notin prepared'
      BY <2>2, <2>3
    <3> USE <2>1
    <3> WITNESS [pc |-> "hello", key |-> k] \in Conn
    <3> QED
      BY <2>3, <3>1, <3>2
  <2>4. CASE /\ prepared' = Retained(prepared)
             /\ conn' = [conn EXCEPT ![c] = [pc |-> "closed", key |-> NoKey]]
    <3>1. \A j \in prepared : j \in prepared' \/ j.setup \in stale
      BY <2>2, <2>4
    <3>2. prepared' \subseteq prepared
      BY <2>2, <2>4
    <3> USE <2>1
    <3> WITNESS [pc |-> "closed", key |-> NoKey] \in Conn
    <3> QED
      BY <2>4, <3>1, <3>2
  <2> QED
    BY <1>3, <2>3, <2>4
<1>5. \A d \in Conns : conn'[d] = IF d = c THEN r ELSE conn[d]
  BY <1>2, <1>4
<1>6. TypeOK'
  BY <1>1, <1>2, <1>4 DEF IInv, TypeOK, answers
<1>7. KeysPast' /\ Unidentified'
  BY <1>1, <1>4, <1>5, NoKeyIsNone DEF IInv, KeysPast, Unidentified
<1>8. PreparedUnused'
  <2>1. NoKey \notin prepared'
    BY <1>6, NoKeyIsNone DEF TypeOK
  <2> QED
    BY <1>4, <1>5, <2>1 DEF IInv, PreparedUnused
<1>9. KeyServesOnce'
  <2> SUFFICES ASSUME NEW d \in Conns, NEW e \in Conns, d # e, conn'[d].key # NoKey,
                      conn'[d].key = conn'[e].key
               PROVE  FALSE
    BY DEF KeyServesOnce
  <2>1. conn[d].key \notin prepared /\ conn[e].key \notin prepared
    BY DEF IInv, PreparedUnused
  <2> QED
    BY <1>4, <1>5, <2>1 DEF IInv, KeyServesOnce
<1>10. AnsweredIsPrepared'
  <2> SUFFICES ASSUME NEW n \in 1..setups, answered[n].ok
               PROVE  \/ \E j \in prepared' : j.setup = n
                      \/ n \in stale
                      \/ \E d \in Conns : conn'[d].key # NoKey /\ conn'[d].key.setup = n
    BY <1>1 DEF AnsweredIsPrepared
  <2>1. CASE \E j \in prepared : j.setup = n
    <3>1. PICK j \in prepared : j.setup = n
      BY <2>1
    <3>2. j # NoKey
      BY NoKeyIsNone DEF IInv, TypeOK
    <3> QED
      BY <1>4, <1>5, <3>1, <3>2
  <2>2. CASE \E d \in Conns : conn[d].key # NoKey /\ conn[d].key.setup = n
    BY <1>2, <1>5, <2>2
  <2> QED
    BY <2>1, <2>2 DEF IInv, AnsweredIsPrepared
<1>11. KeyIsSessionBound'
  BY <1>1, <1>4 DEF IInv, KeyIsSessionBound
<1> QED
  BY <1>1, <1>6, <1>7, <1>8, <1>9, <1>10, <1>11 DEF IInv, AgedInOrder, SlotUncrossed

\* Any other step of a connection leaves its key alone.
LEMMA ConnKeeps ==
  ASSUME IInv, NEW c \in Conns, Accept(c) \/ Hello(c) \/ Close(c)
  PROVE  IInv'
<1>1. UNCHANGED <<slot, put, listener, prepared, stale, answered, setups, answers>>
  BY DEF Accept, Hello, Close
<1>2. conn[c] \in Conn /\ conn \in [Conns -> Conn]
  BY DEF IInv, TypeOK
<1>3. PICK r \in Conn :
        /\ conn' = [conn EXCEPT ![c] = r]
        /\ r.key = conn[c].key
        /\ r.pc \in {"none", "first"} => r.key = NoKey
  <2>1. CASE Accept(c)
    <3>1. conn[c].key = NoKey
      BY <2>1 DEF Accept, IInv, Unidentified
    <3>2. [pc |-> "first", key |-> NoKey] \in Conn
      BY DEF Conn
    <3> QED
      BY <2>1, <3>1, <3>2 DEF Accept
  <2>2. CASE Hello(c) \/ Close(c)
    BY <1>2, <2>2 DEF Hello, Close, Conn
  <2> QED
    BY <2>1, <2>2
<1>4. \A d \in Conns : conn'[d].key = conn[d].key
  BY <1>2, <1>3
<1>5. TypeOK' /\ Unidentified'
  BY <1>1, <1>2, <1>3 DEF IInv, TypeOK, answers, Unidentified
<1>6. KeysPast' /\ PreparedUnused' /\ KeyServesOnce' /\ AnsweredIsPrepared'
  BY <1>1, <1>4 DEF IInv, KeysPast, PreparedUnused, KeyServesOnce, AnsweredIsPrepared
<1> QED
  BY <1>1, <1>5, <1>6 DEF IInv, AgedInOrder, SlotUncrossed, KeyIsSessionBound

LEMMA StepInvariant == IInv /\ [Next]_vars => IInv'
<1> SUFFICES ASSUME IInv, [Next]_vars PROVE IInv'
  OBVIOUS
<1>1. CASE UNCHANGED vars
  BY <1>1 DEF vars, IInv, TypeOK, AgedInOrder, KeysPast, Unidentified, PreparedUnused,
     SlotUncrossed, KeyServesOnce, AnsweredIsPrepared, KeyIsSessionBound
<1>2. ASSUME NEW c \in Conns, NEW n \in 1..setups, NEW s \in Sessions,
             FirstFrame(c, [secret |-> s, setup |-> n])
      PROVE  IInv'
  <2>1. [secret |-> s, setup |-> n] \in Key
    BY HdsSessionAssumption DEF Key, Setups, IInv, TypeOK
  <2> QED
    BY <1>2, <2>1, FirstFrameKeeps
<1> QED
  BY <1>1, <1>2, PutKeeps, SetupKeeps, QuietKeeps, ConnKeeps DEF Next

LEMMA Invariance == Spec => []IInv
BY InitInvariant, StepInvariant, PTL DEF Spec

-----------------------------------------------------------------------------
\* Slot, prepared sessions, answers and connections keep their types for any
\* number of each (setup, handle_connection, build_data_stream).
THEOREM TypeCorrect == Spec => []TypeOK
<1>1. IInv => TypeOK
  BY DEF IInv
<1> QED
  BY <1>1, Invariance, PTL

\* However many connections repeat a first frame, in whatever order and around
\* whatever setups, one of them at most is identified by it (handle_connection).
THEOREM ServesOnce == Spec => []KeyServesOnce
<1>1. IInv => KeyServesOnce
  BY DEF IInv
<1> QED
  BY <1>1, Invariance, PTL

\* A setup that was answered stays good until its one use or its expiry, for any
\* number of setups and connections (setup, handle_connection).
THEOREM AnsweredPrepared == Spec => []AnsweredIsPrepared
<1>1. IInv => AnsweredIsPrepared
  BY DEF IInv
<1> QED
  BY <1>1, Invariance, PTL

\* For any number of HAP sessions, keys are derived from the secret of the session
\* that asked unless another PUT came between (call(), on_data_stream_setup_write).
THEOREM SessionBound == Spec => []KeyIsSessionBound
<1>1. IInv => KeyIsSessionBound
  BY DEF IInv
<1> QED
  BY <1>1, Invariance, PTL

\* An expired session identifies no connection, for any number of setups: setup
\* and handle_connection both drop the expired ones before they look.
THEOREM StaleRefused == Spec => StaleKeyRefused
<1>1. ASSUME IInv, [Next]_vars, NEW c \in Conns, conn'[c].pc = "hello", conn[c].pc = "first"
      PROVE  conn'[c].key.setup \notin stale
  <2>1. conn \in [Conns -> Conn]
    BY <1>1 DEF IInv, TypeOK
  <2>2. PICK k : FirstFrame(c, k)
    <3>1. conn' # conn
      BY <1>1
    <3>2. PICK d \in Conns : Accept(d) \/ (\E k : FirstFrame(d, k)) \/ Hello(d) \/ Close(d)
      BY <1>1, <3>1 DEF Next, vars, PutArrives, SetupWrite, Read, UnverifiedPut, Age, AcceptFails
    <3>3. ~Accept(d) /\ ~Hello(d) /\ ~Close(d)
      BY <1>1, <2>1, <3>2 DEF Accept, Hello, Close, IInv, TypeOK, Conn
    <3>4. d = c
      BY <1>1, <2>1, <3>2, <3>3 DEF FirstFrame
    <3> QED
      BY <3>2, <3>3, <3>4
  <2>3. conn[c] \in Conn /\ conn'[c].pc = "hello"
    BY <1>1, <2>1
  <2>4. k \in Retained(prepared) /\ conn'[c].key = k
    BY <2>1, <2>2, <2>3 DEF FirstFrame, Conn
  <2> QED
    BY <2>4 DEF Retained
<1>2. IInv /\ [Next]_vars =>
        [\A c \in Conns : conn'[c].pc = "hello" /\ conn[c].pc = "first"
           => conn'[c].key.setup \notin stale]_vars
  BY <1>1
<1> QED
  BY <1>2, Invariance, PTL DEF Spec, StaleKeyRefused

\* A setup that asks for its response is told its own answer, whoever else sets up
\* or reads meanwhile (write_characteristic, build_data_stream).
THEOREM AnswersOwn == Spec => OwnAnswer
<1>1. ASSUME IInv, [Next]_vars, setups' # setups, told' # told
      PROVE  told' = [setup |-> setups', to |-> answered'[setups'].to]
  <2>1. PICK s \in Sessions : SetupWrite(s)
    BY <1>1 DEF Next, vars, answers, PutArrives, Read, UnverifiedPut, Age, AcceptFails,
       Accept, FirstFrame, Hello, Close
  <2>2. PICK ok \in BOOLEAN :
          /\ answered' = [answered EXCEPT ![setups + 1] =
                            [to |-> s, ok |-> ok, alone |-> put[s] = "waiting"]]
          /\ told' = [setup |-> setups + 1, to |-> s]
    BY <1>1, <2>1 DEF SetupWrite, Tell, Waits
  <2>3. setups + 1 \in Setups /\ setups' = setups + 1 /\ answered \in [Setups -> Answer \cup {NoAnswer}]
    BY <1>1, <2>1, HdsSessionAssumption DEF SetupWrite, IInv, TypeOK, Setups
  <2>4. answered'[setups + 1].to = s
    BY <2>2, <2>3
  <2> QED
    BY <2>2, <2>3, <2>4
<1>2. IInv /\ [Next]_vars =>
        [setups' # setups /\ told' # told
           => told' = [setup |-> setups', to |-> answered'[setups'].to]]_vars
  BY <1>1
<1> QED
  BY <1>2, Invariance, PTL DEF Spec, OwnAnswer

-----------------------------------------------------------------------------
(* Sequences put together from parts.                                       *)
\* Induction over a set of numbers.  Subtracting 1 would map the numbers up to a
\* counterexample that are not in S into those before it, one number less: the
\* pigeonhole principle forbids it.
LEMMA Induct ==
  ASSUME NEW n \in Nat, NEW S, 0 \in S, 
         \A i \in 0..n - 1 : i \in S => i + 1 \in S
  PROVE  \A i \in 0..n : i \in S
<1> SUFFICES ASSUME NEW x \in 0..n, x \notin S PROVE FALSE
  OBVIOUS
<1> DEFINE T == {i \in 0..x : i \notin S}
           U == T \ {x}
           f == [i \in T |-> i - 1]
<1>1. IsFiniteSet(T) /\ x \in T
  <2>1. IsFiniteSet(0..x) /\ T \subseteq 0..x
    BY FS_Interval
  <2> QED
    BY <2>1, FS_Subset
<1>2. IsFiniteSet(U) /\ Cardinality(U) = Cardinality(T) - 1 /\ Cardinality(T) \in Nat
  BY <1>1, FS_RemoveElement, FS_CardinalityType
<1>3. \A i \in T : i - 1 \in U
  OBVIOUS
<1>4. f \in [T -> U]
  BY <1>3
<1>5. \E i, j \in T : i # j /\ f[i] = f[j]
  <2> HIDE DEF f, T, U
  <2>1. Cardinality(U) < Cardinality(T)
    BY <1>2
  <2>2. \A a, b : IsFiniteSet(a) /\ IsFiniteSet(b) /\ Cardinality(b) < Cardinality(a)
          => \A g \in [a -> b] : \E i, j \in a : i # j /\ g[i] = g[j]
    BY FS_PigeonHole
  <2> QED
    BY <1>1, <1>2, <1>4, <2>1, <2>2
<1> QED
  BY <1>5

\* A sequence that is put together part by part has the type of its parts.
LEMMA BuiltUp ==
  ASSUME NEW X, NEW n \in Nat, NEW ss, NEW f, \A i \in 1..n : ss[i] \in Seq(X),
         \A i \in 1..n : f[i] = IF i = 1 THEN ss[i] ELSE f[i - 1] \o ss[i]
  PROVE  \A i \in 1..n : f[i] \in Seq(X)
<1> DEFINE D == {m \in 0..n : m = 0 \/ f[m] \in Seq(X)}
<1>1. 0 \in D
  OBVIOUS
<1>2. ASSUME NEW m \in 0..n - 1, m \in D PROVE m + 1 \in D
  <2>1. m + 1 \in 1..n /\ m \in Nat
    OBVIOUS
  <2>2. CASE m = 0
    BY <2>1, <2>2
  <2>3. CASE m # 0
    <3>1. f[m] \in Seq(X) /\ ss[m + 1] \in Seq(X)
      BY <1>2, <2>1, <2>3
    <3>2. f[m + 1] = f[m] \o ss[m + 1]
      <4>1. PICK i \in 1..n : i = m + 1
        BY <2>1
      <4>2. i # 1 /\ i - 1 = m
        BY <2>1, <2>3, <4>1
      <4>3. f[i] = f[i - 1] \o ss[i]
        BY <4>2, Zenon
      <4> QED
        BY <4>1, <4>2, <4>3, Zenon
    <3>3. f[m + 1] \in Seq(X)
      BY <3>1, <3>2, ConcatProperties
    <3> QED
      BY <2>1, <3>3
  <2> QED
    BY <2>2, <2>3
<1>3. \A m \in 0..n : m \in D
  <2> HIDE DEF D
  <2> QED
    BY <1>1, <1>2, Induct
<1> QED
  BY <1>3

\* It does not matter in which order sequences are joined.
Associate(X) == \A a, b, c \in Seq(X) : (a \o b) \o c = a \o (b \o c)
LEMMA Associative ==
  ASSUME NEW X
  PROVE  Associate(X)
  BY DEF Associate

\* There is a function that is built up from g(0) ...
LEMMA PrefixesExist ==
  ASSUME NEW X, NEW ss \in Seq(Seq(X)), Len(ss) # 0
  PROVE  \E g \in [1..Len(ss) -> Seq(X)] :
           \A i \in 1..Len(ss) : g[i] = IF i = 1 THEN ss[i] ELSE g[i - 1] \o ss[i]
<1> DEFINE n == Len(ss)
           Good(g, m) == \A i \in 1..m : g[i] = IF i = 1 THEN ss[i] ELSE g[i - 1] \o ss[i]
           D == {m \in 0..n : \E g \in [1..m -> Seq(X)] : Good(g, m)}
<1>1. n \in Nat \ {0} /\ \A i \in 1..n : ss[i] \in Seq(X)
  BY LenProperties, ElementOfSeq
<1>2. 0 \in D
  <2>1. [i \in 1..0 |-> << >>] \in [1..0 -> Seq(X)] /\ Good([i \in 1..0 |-> << >>], 0)
    OBVIOUS
  <2> HIDE DEF Good
  <2>2. \E g \in [1..0 -> Seq(X)] : Good(g, 0)
    BY <2>1
  <2>3. 0 \in 0..n
    BY <1>1
  <2> QED
    BY <2>2, <2>3, Zenon
<1>3. ASSUME NEW m \in 0..n - 1, m \in D PROVE m + 1 \in D
  <2>1. PICK g \in [1..m -> Seq(X)] : Good(g, m)
    BY <1>3
  <2> DEFINE h == [i \in 1..m + 1 |-> IF i = m + 1 THEN IF m = 0 THEN ss[1] ELSE g[m] \o ss[m + 1]
                                                   ELSE g[i]]
  <2>2. m \in Nat /\ m + 1 \in 1..n
    BY <1>1
  <2>3. ASSUME NEW i \in 1..m + 1 PROVE h[i] \in Seq(X)
    <3>1. CASE i = m + 1
      <4>1. ss[m + 1] \in Seq(X) /\ ss[1] \in Seq(X)
        BY <1>1, <2>2
      <4>2. CASE m = 0
        BY <3>1, <4>1, <4>2
      <4>3. CASE m # 0
        <5>1. g[m] \in Seq(X)
          BY <2>2, <4>3
        <5>2. g[m] \o ss[m + 1] \in Seq(X)
          BY <4>1, <5>1, ConcatProperties, Zenon
        <5>3. h[i] = g[m] \o ss[m + 1]
          BY <3>1, <4>3, Zenon
        <5> QED
          BY <5>2, <5>3, Zenon
      <4> QED
        BY <4>2, <4>3, Zenon
    <3>2. CASE i # m + 1
      BY <1>1, <2>2, <3>2
    <3> QED
      BY <3>1, <3>2
  <2>4. h \in [1..m + 1 -> Seq(X)]
    BY <2>3
  <2>5. ASSUME NEW i \in 1..m + 1
        PROVE  h[i] = IF i = 1 THEN ss[i] ELSE h[i - 1] \o ss[i]
    <3>1. CASE i = m + 1
      BY <2>2, <3>1
    <3>2. CASE i # m + 1
      <4>1. i \in 1..m /\ i - 1 # m + 1 /\ (i # 1 => i - 1 \in 1..m + 1)
        BY <2>2, <3>2
      <4>2. h[i] = g[i]
        BY <4>1, <3>2
      <4>3. i # 1 => h[i - 1] = g[i - 1]
        BY <4>1
      <4> HIDE DEF h
      <4> QED
        BY <2>1, <4>1, <4>2, <4>3
    <3> QED
      BY <3>1, <3>2
  <2> HIDE DEF h
  <2>6. Good(h, m + 1)
    BY <2>5
  <2> HIDE DEF Good
  <2>7. \E a \in [1..m + 1 -> Seq(X)] : Good(a, m + 1)
    BY <2>4, <2>6
  <2> QED
    BY <2>7, <2>2
<1>4. n \in D
  <2> HIDE DEF D, n
  <2>1. \A m \in 0..n : m \in D
    BY <1>1, <1>2, <1>3, Induct
  <2> QED
    BY <1>1, <2>1
<1> QED
  BY <1>4

\* 
LEMMA FlattenDef ==
  ASSUME NEW X, NEW ss \in Seq(Seq(X)), Len(ss) # 0
  PROVE  \E g \in [1..Len(ss) -> Seq(X)] :
           /\ \A i \in 1..Len(ss) : g[i] = IF i = 1 THEN ss[i] ELSE g[i - 1] \o ss[i]
           /\ FlattenSeq(ss) = g[Len(ss)]
<1> DEFINE n == Len(ss)
           f == CHOOSE g : g = [i \in 1..n |-> IF i = 1 THEN ss[i] ELSE g[i - 1] \o ss[i]]
           Step(g) == [i \in 1..n |-> IF i = 1 THEN ss[i] ELSE g[i - 1] \o ss[i]]
<1>1. PICK h \in [1..n -> Seq(X)] :
         \A i \in 1..n : h[i] = IF i = 1 THEN ss[i] ELSE h[i - 1] \o ss[i]
  BY PrefixesExist
<1>2. h = [i \in 1..n |-> IF i = 1 THEN ss[i] ELSE h[i - 1] \o ss[i]]
  BY <1>1
<1>3. f = [i \in 1..n |-> IF i = 1 THEN ss[i] ELSE f[i - 1] \o ss[i]]
  BY <1>2
<1>4. n \in Nat /\ \A i \in 1..n : ss[i] \in Seq(X)
  BY LenProperties, ElementOfSeq
<1>5. \A i \in 1..n : f[i] = IF i = 1 THEN ss[i] ELSE f[i - 1] \o ss[i]
  <2> HIDE DEF f
  <2> QED
    BY <1>3
<1>6. \A i \in 1..n : f[i] \in Seq(X)
  <2> HIDE DEF f
  <2> QED
    BY <1>4, <1>5, BuiltUp
<1>7. f \in [1..n -> Seq(X)]
  <2> HIDE DEF f
  <2> QED
    BY <1>3, <1>6
<1>8. FlattenSeq(ss) = f[n]
  BY DEF FlattenSeq
<1> HIDE DEF f
<1> QED
  BY <1>5, <1>7, <1>8

-----------------------------------------------------------------------------
\* g[i] is the first i of ss put together.
Partial(X, ss, g) ==
  /\ g \in [1..Len(ss) -> Seq(X)]
  /\ g[1] = ss[1]
  /\ \A i \in 1..Len(ss) - 1 : g[i + 1] = g[i] \o ss[i + 1]

\* FlattenSeq as a loop.
LEMMA FlattenRec ==
  ASSUME NEW X, NEW ss \in Seq(Seq(X)), Len(ss) # 0
  PROVE  \E g : Partial(X, ss, g) /\ FlattenSeq(ss) = g[Len(ss)]
<1>1. PICK g \in [1..Len(ss) -> Seq(X)] :
           /\ \A i \in 1..Len(ss) : g[i] = IF i = 1 THEN ss[i] ELSE g[i - 1] \o ss[i]
           /\ FlattenSeq(ss) = g[Len(ss)]
  BY FlattenDef, Zenon
<1>2. Len(ss) \in Nat \ {0} /\ 1 \in 1..Len(ss)
  BY LenProperties
<1>3. g[1] = ss[1]
  BY <1>1, <1>2, Zenon
<1>4. ASSUME NEW m \in 1..Len(ss) - 1 PROVE g[m + 1] = g[m] \o ss[m + 1]
  <2>1. PICK i \in 1..Len(ss) : i = m + 1
    BY <1>2
  <2>2. i # 1 /\ i - 1 = m
    BY <2>1, <1>2
  <2>3. g[i] = g[i - 1] \o ss[i]
    BY <1>1, <2>2, Zenon
  <2> QED
    BY <2>1, <2>2, <2>3, Zenon
<1> QED
  BY <1>1, <1>3, <1>4, Zenon DEF Partial

LEMMA PartialType ==
  ASSUME NEW X, NEW ss, NEW g, Partial(X, ss, g)
  PROVE  \A i \in 1..Len(ss) : g[i] \in Seq(X)
BY Zenon DEF Partial

LEMMA FlattenEmpty == FlattenSeq(<< >>) = << >>
BY DEF FlattenSeq

Parts(X, ss) == ss \in Seq(Seq(X))

\* What Parts says of the single parts, of their tail, and of none.
LEMMA PartsElements ==
  ASSUME NEW X, NEW ss, Parts(X, ss)
  PROVE  Len(ss) \in Nat /\ \A i \in 1..Len(ss) : ss[i] \in Seq(X)
BY LenProperties, ElementOfSeq DEF Parts

LEMMA PartsEmpty ==
  ASSUME NEW X, NEW ss, Parts(X, ss), Len(ss) = 0
  PROVE  ss = << >>
BY EmptySeq DEF Parts

LEMMA PartsTail ==
  ASSUME NEW X, NEW ss, Parts(X, ss), Len(ss) # 0
  PROVE  /\ Parts(X, Tail(ss))
         /\ Len(Tail(ss)) = Len(ss) - 1
         /\ \A i \in 1..Len(ss) - 1 : Tail(ss)[i] = ss[i + 1]
BY HeadTailProperties, EmptySeq DEF Parts

LEMMA PartialExists ==
  ASSUME NEW X, NEW ss, Parts(X, ss), Len(ss) # 0
  PROVE  \E g : Partial(X, ss, g) /\ FlattenSeq(ss) = g[Len(ss)]
BY FlattenRec, Zenon DEF Parts

\* Parts put together have the type of the parts.
LEMMA FlattenType ==
  ASSUME NEW X, NEW ss, Parts(X, ss)
  PROVE  FlattenSeq(ss) \in Seq(X)
<1>1. Len(ss) \in Nat
  BY PartsElements
<1>2. CASE Len(ss) = 0
  BY <1>2, PartsEmpty, FlattenEmpty, EmptySeq
<1>3. CASE Len(ss) # 0
  <2>1. PICK g : Partial(X, ss, g) /\ FlattenSeq(ss) = g[Len(ss)]
    BY <1>3, PartialExists
  <2>2. Len(ss) \in 1..Len(ss)
    BY <1>1, <1>3
  <2> QED
    BY <2>1, <2>2, PartialType
<1> QED
  BY <1>2, <1>3

\* The first one comes first.
LEMMA FlattenCons ==
  ASSUME NEW X, NEW ss, Parts(X, ss), Len(ss) # 0
  PROVE  FlattenSeq(ss) = ss[1] \o FlattenSeq(Tail(ss))
<1> DEFINE n == Len(ss)
           t == Tail(ss)
<1>1. n \in Nat \ {0} /\ Len(t) = n - 1 /\ \A i \in 1..n : ss[i] \in Seq(X)
  BY PartsElements, PartsTail
<1>2. Parts(X, t) /\ \A i \in 1..n - 1 : t[i] = ss[i + 1]
  BY PartsTail
<1>3. PICK g : Partial(X, ss, g) /\ FlattenSeq(ss) = g[n]
  BY PartialExists
<1>4. g[1] = ss[1]
  BY <1>3, Zenon DEF Partial
<1>5. CASE n = 1
  <2>1. t = << >>
    <3>1. Len(t) = 0
      BY <1>1, <1>5
    <3> HIDE DEF t
    <3> QED
      BY <1>2, <3>1, PartsEmpty
  <2>2. FlattenSeq(t) = << >>
    BY <2>1, FlattenEmpty
  <2>3. ss[1] \in Seq(X) /\ FlattenSeq(ss) = ss[1]
    BY <1>1, <1>3, <1>4, <1>5
  <2> QED
    BY <2>2, <2>3, ConcatEmptySeq
<1>6. CASE n # 1
  <2> HIDE DEF t
  <2>1. PICK h : Partial(X, t, h) /\ FlattenSeq(t) = h[Len(t)]
    <3>1. Len(t) # 0
      BY <1>1, <1>6
    <3> QED
      BY <1>2, <3>1, PartialExists
  <2>2. h[1] = t[1] /\ \A i \in 1..Len(t) : h[i] \in Seq(X)
    BY <2>1, PartialType DEF Partial
  <2> DEFINE D == {m \in 0..n - 2 : g[m + 2] = ss[1] \o h[m + 1]}
  <2>3. 0 \in D
    <3>1. 1 \in 1..n - 1 /\ 1 \in 1..Len(ss) - 1
      BY <1>1, <1>6
    <3>2. g[1 + 1] = g[1] \o ss[1 + 1]
      BY <1>3, <3>1, Zenon DEF Partial
    <3>3. t[1] = ss[1 + 1]
      BY <1>2, <3>1
    <3>4. g[1 + 1] = ss[1] \o h[1]
      BY <1>4, <2>2, <3>2, <3>3
    <3>5. 0 \in 0..n - 2 /\ 0 + 1 = 1 /\ 0 + 2 = 1 + 1
      BY <1>1, <1>6
    <3>6. g[0 + 2] = ss[1] \o h[0 + 1]
      BY <3>4, <3>5, Zenon
    <3> QED
      BY <3>5, <3>6, Zenon
  <2>4. ASSUME NEW m \in 0..(n - 2) - 1, m \in D PROVE m + 1 \in D
    <3>1. /\ m + 2 \in 1..n - 1 /\ m + 2 \in 1..Len(ss) - 1
          /\ m + 1 \in 1..Len(t) - 1 /\ m + 1 \in 1..Len(t)
          /\ 1 \in 1..n /\ (m + 2) + 1 \in 1..n
      BY <1>1
    <3>2. g[(m + 2) + 1] = g[m + 2] \o ss[(m + 2) + 1]
      BY <1>3, <3>1, Zenon DEF Partial
    <3>3. h[(m + 1) + 1] = h[m + 1] \o t[(m + 1) + 1]
      BY <1>2, <2>1, <3>1, Zenon DEF Partial
    <3>4. t[m + 2] = ss[(m + 2) + 1]
      BY <1>2, <3>1
    <3>5. g[m + 2] = ss[1] \o h[m + 1]
      BY <2>4
    <3>6. ss[1] \in Seq(X) /\ h[m + 1] \in Seq(X) /\ ss[(m + 2) + 1] \in Seq(X)
      BY <1>1, <2>2, <3>1, Zenon
    <3>7. \A a, b, c \in Seq(X) : (a \o b) \o c = a \o (b \o c)
      <4>1. Associate(X)
        BY Associative, Zenon
      <4> QED
        BY <4>1, Zenon DEF Associate
    <3>8. (m + 1) + 2 = (m + 2) + 1 /\ (m + 1) + 1 = m + 2 /\ m + 1 \in 0..n - 2
      BY <3>1, <1>1
    <3>9. (ss[1] \o h[m + 1]) \o ss[(m + 2) + 1] = ss[1] \o (h[m + 1] \o ss[(m + 2) + 1])
      BY <3>6, <3>7, Zenon
    <3>10. g[(m + 1) + 2] = ss[1] \o h[(m + 1) + 1]
      BY <3>2, <3>3, <3>4, <3>5, <3>8, <3>9, Zenon
    <3> QED
      BY <3>8, <3>10, Zenon
  <2>5. \A m \in 0..n - 2 : m \in D
    <3>1. n - 2 \in Nat
      BY <1>1, <1>6
    <3> HIDE DEF D
    <3> QED
      BY <2>3, <2>4, <3>1, Induct
  <2>6. n - 2 \in 0..n - 2 /\ (n - 2) + 2 = n /\ (n - 2) + 1 = Len(t)
    BY <1>1, <1>6
  <2>7. g[(n - 2) + 2] = ss[1] \o h[(n - 2) + 1]
    BY <2>5, <2>6, Zenon
  <2> QED
    BY <1>3, <2>1, <2>6, <2>7, Zenon DEF t
<1> QED
  BY <1>5, <1>6

-----------------------------------------------------------------------------
\* What is left of ss after its first k, put together.
After(ss, k) == FlattenSeq(SubSeq(ss, k + 1, Len(ss)))

\* What is left of the parts after the first k of them, and put together.
LEMMA PartsFrom ==
  ASSUME NEW X, NEW ss, Parts(X, ss), NEW k \in 0..Len(ss)
  PROVE  /\ Parts(X, SubSeq(ss, k + 1, Len(ss)))
         /\ Len(SubSeq(ss, k + 1, Len(ss))) = Len(ss) - k
         /\ k < Len(ss) => /\ SubSeq(ss, k + 1, Len(ss))[1] = ss[k + 1]
                           /\ Tail(SubSeq(ss, k + 1, Len(ss))) = SubSeq(ss, k + 2, Len(ss))
<1>1. Len(ss) \in Nat
  BY PartsElements
<1>2. \A i \in k + 1..Len(ss) : ss[i] \in Seq(X)
  BY PartsElements
<1>3. /\ SubSeq(ss, k + 1, Len(ss)) \in Seq(Seq(X))
      /\ Len(SubSeq(ss, k + 1, Len(ss))) = IF k + 1 <= Len(ss) THEN Len(ss) - (k + 1) + 1 ELSE 0
      /\ \A i \in 1..Len(ss) - (k + 1) + 1 : SubSeq(ss, k + 1, Len(ss))[i] = ss[(k + 1) + i - 1]
  BY <1>1, <1>2, SubSeqProperties
<1>4. ASSUME k < Len(ss)
      PROVE  /\ SubSeq(ss, k + 1, Len(ss))[1] = ss[k + 1]
             /\ Tail(SubSeq(ss, k + 1, Len(ss))) = SubSeq(ss, k + 2, Len(ss))
  <2>1. k + 1 \in 1..Len(ss) /\ Len(ss) \in k + 1..Len(ss) /\ (k + 1) + 1 = k + 2
    BY <1>1, <1>4
  <2>2. Tail(SubSeq(ss, k + 1, Len(ss))) = SubSeq(ss, (k + 1) + 1, Len(ss))
    BY <2>1, HeadTailOfSubSeq, Zenon DEF Parts
  <2>3. 1 \in 1..Len(ss) - (k + 1) + 1 /\ (k + 1) + 1 - 1 = k + 1
    BY <1>1, <1>4
  <2> QED
    BY <1>3, <2>1, <2>2, <2>3, Zenon
<1> QED
  BY <1>1, <1>3, <1>4 DEF Parts

LEMMA AfterNone ==
  ASSUME NEW X, NEW ss, Parts(X, ss)
  PROVE  After(ss, 0) = FlattenSeq(ss)
<1>1. SubSeq(ss, 1, Len(ss)) = ss
  BY SubSeqFull, Zenon DEF Parts
<1>2. 0 + 1 = 1
  OBVIOUS
<1> QED
  BY <1>1, <1>2, Zenon DEF After

LEMMA AfterAll ==
  ASSUME NEW X, NEW ss, Parts(X, ss)
  PROVE  After(ss, Len(ss)) = << >>
<1>1. Len(ss) \in Nat
  BY PartsElements
<1>2. Parts(X, SubSeq(ss, Len(ss) + 1, Len(ss))) /\ Len(SubSeq(ss, Len(ss) + 1, Len(ss))) = 0
  BY <1>1, PartsFrom
<1>3. SubSeq(ss, Len(ss) + 1, Len(ss)) = << >>
  BY <1>2, PartsEmpty
<1> QED
  BY <1>3, FlattenEmpty DEF After

LEMMA AfterStep ==
  ASSUME NEW X, NEW ss, Parts(X, ss), NEW k \in 0..Len(ss), k < Len(ss)
  PROVE  After(ss, k) = ss[k + 1] \o After(ss, k + 1)
<1>1. Len(ss) \in Nat
  BY PartsElements
<1> DEFINE t == SubSeq(ss, k + 1, Len(ss))
<1>2. /\ Parts(X, t) /\ Len(t) # 0 /\ t[1] = ss[k + 1]
      /\ Tail(t) = SubSeq(ss, k + 2, Len(ss))
  BY <1>1, PartsFrom
<1>3. FlattenSeq(t) = t[1] \o FlattenSeq(Tail(t))
  <2> HIDE DEF t
  <2> QED
    BY <1>2, FlattenCons
<1>4. k + 2 = (k + 1) + 1
  BY <1>1
<1> QED
  BY <1>2, <1>3, <1>4, Zenon DEF After

LEMMA AfterType ==
  ASSUME NEW X, NEW ss, Parts(X, ss), NEW k \in 0..Len(ss)
  PROVE  After(ss, k) \in Seq(X)
BY PartsFrom, FlattenType DEF After

-----------------------------------------------------------------------------
(* A buffer in front of a wire.                                             *)
\* The first n of s; and whether s has all of f.
Taken(s, n) == SubSeq(s, 1, n)
Covers(s, f) == Len(f) <= Len(s)
\* a and b make s.
Makes(a, b, s) == a \o b = s

\* Two ways to cut a sequence: b and w are what has arrived and what has not, f
\* is its first part.
LEMMA CutLength ==
  ASSUME NEW X, NEW b \in Seq(X), NEW w \in Seq(X), NEW f \in Seq(X), NEW r \in Seq(X),
         b \o w = f \o r
  PROVE  /\ Len(b) + Len(w) = Len(f) + Len(r)
         /\ \A i \in 1..Len(b) : i <= Len(f) => b[i] = f[i]
<1>1. /\ Len(b) \in Nat /\ Len(w) \in Nat /\ Len(f) \in Nat /\ Len(r) \in Nat
      /\ Len(b \o w) = Len(b) + Len(w) /\ Len(f \o r) = Len(f) + Len(r)
  OBVIOUS
<1>2. ASSUME NEW i \in 1..Len(b), i <= Len(f) PROVE b[i] = f[i]
  <2>1. (b \o w)[i] = b[i] /\ (f \o r)[i] = f[i]
    BY <1>1, <1>2
  <2> QED
    BY <2>1
<1> QED
  BY <1>1, <1>2

\* A stream that begins with f, cut behind it: the buffer begins with f, and what
\* follows it in the buffer and on the wire is what follows f.
LEMMA CutTaken ==
  ASSUME NEW X, NEW b \in Seq(X), NEW w \in Seq(X), NEW f \in Seq(X), NEW r \in Seq(X),
         b \o w = f \o r, Covers(b, f)
  PROVE  Taken(b, Len(f)) = f
<1>1. /\ Len(b) \in Nat /\ Len(f) \in Nat /\ Len(f) <= Len(b)
      /\ \A i \in 1..Len(b) : i <= Len(f) => b[i] = f[i]
  BY CutLength DEF Covers
<1>2. /\ SubSeq(b, 1, Len(f)) \in Seq(X) /\ Len(SubSeq(b, 1, Len(f))) = Len(f)
      /\ \A i \in 1..Len(f) : SubSeq(b, 1, Len(f))[i] = b[i]
  BY <1>1
<1> QED
  BY <1>1, <1>2, SeqEqual DEF Taken

LEMMA CutFirst ==
  ASSUME NEW X, NEW b \in Seq(X), NEW w \in Seq(X), NEW f \in Seq(X), NEW r \in Seq(X),
         b \o w = f \o r, Covers(b, f)
  PROVE  Drop(b, Len(f)) \in Seq(X) /\ Makes(Drop(b, Len(f)), w, r)
<1> DEFINE d == SubSeq(b, Len(f) + 1, Len(b))
<1>1. /\ Len(b) \in Nat /\ Len(w) \in Nat /\ Len(f) \in Nat /\ Len(r) \in Nat
      /\ Len(b) + Len(w) = Len(f) + Len(r) /\ Len(f) <= Len(b)
  BY CutLength DEF Covers
<1>2. /\ d \in Seq(X) /\ Len(d) = Len(b) - Len(f)
      /\ \A i \in 1..Len(d) : d[i] = b[Len(f) + i]
  BY <1>1
<1>3. d \o w = r
  <2> HIDE DEF d
  <2>1. d \o w \in Seq(X) /\ Len(d \o w) = Len(r)
    BY <1>1, <1>2
  <2>2. ASSUME NEW i \in 1..Len(r) PROVE (d \o w)[i] = r[i]
    <3>1. (b \o w)[Len(f) + i] = (f \o r)[Len(f) + i] /\ (f \o r)[Len(f) + i] = r[i]
      BY <1>1
    <3>2. CASE i <= Len(d)
      BY <1>1, <1>2, <3>1, <3>2
    <3>3. CASE i > Len(d)
      <4>1. (b \o w)[Len(f) + i] = w[Len(f) + i - Len(b)]
        BY <1>1, <1>2, <3>3
      <4>2. (d \o w)[i] = w[i - Len(d)] /\ i - Len(d) = Len(f) + i - Len(b)
        BY <1>1, <1>2, <3>3
      <4> QED
        BY <3>1, <4>1, <4>2
    <3> QED
      BY <1>1, <1>2, <3>2, <3>3
  <2> QED
    BY <2>1, <2>2, SeqEqual
<1> QED
  BY <1>2, <1>3 DEF Drop, Makes

\* So does a part of f up to its end.
EndsAlike(b, f, m) == SubSeq(b, m, Len(f)) = SubSeq(f, m, Len(f))
LEMMA CutTail ==
  ASSUME NEW X, NEW b \in Seq(X), NEW w \in Seq(X), NEW f \in Seq(X), NEW r \in Seq(X),
         b \o w = f \o r, Covers(b, f), NEW m \in 1..Len(f)
  PROVE  EndsAlike(b, f, m)
<1>1. /\ Len(b) \in Nat /\ Len(f) \in Nat /\ m \in Nat /\ Len(f) <= Len(b)
      /\ \A i \in 1..Len(b) : i <= Len(f) => b[i] = f[i]
  BY CutLength DEF Covers
<1> DEFINE x == SubSeq(b, m, Len(f))
           y == SubSeq(f, m, Len(f))
           n == Len(f) - m + 1
<1>2. x \in Seq(X) /\ Len(x) = n /\ \A i \in 1..n : x[i] = b[m + i - 1]
  BY <1>1
<1>3. y \in Seq(X) /\ Len(y) = n /\ \A i \in 1..n : y[i] = f[m + i - 1]
  BY <1>1
<1>4. \A i \in 1..n : b[m + i - 1] = f[m + i - 1]
  BY <1>1
<1> HIDE DEF x, y
<1>5. x = y
  BY <1>2, <1>3, <1>4, SeqEqual
<1> QED
  BY <1>5 DEF x, y, EndsAlike

\* What arrives moves from w to b.
LEMMA Shift ==
  ASSUME NEW X, NEW b \in Seq(X), NEW w \in Seq(X), NEW n \in 0..Len(w)
  PROVE  /\ b \o Taken(w, n) \in Seq(X)
         /\ Drop(w, n) \in Seq(X)
         /\ (b \o Taken(w, n)) \o Drop(w, n) = b \o w
<1> DEFINE c == SubSeq(w, 1, n)
           d == SubSeq(w, n + 1, Len(w))
<1>1. /\ Len(w) \in Nat /\ n \in Nat /\ c \in Seq(X) /\ Len(c) = n /\ d \in Seq(X) /\ Len(d) = Len(w) - n
      /\ \A i \in 1..n : c[i] = w[i]
      /\ \A i \in 1..Len(w) - n : d[i] = w[n + i]
  OBVIOUS
<1> HIDE DEF c, d
<1>2. c \o d = w
  <2>1. c \o d \in Seq(X) /\ Len(c \o d) = Len(w)
    BY <1>1
  <2>2. ASSUME NEW i \in 1..Len(w) PROVE (c \o d)[i] = w[i]
    <3>1. CASE i <= n
      BY <1>1, <3>1
    <3>2. CASE i > n
      <4>1. (c \o d)[i] = d[i - n] /\ d[i - n] = w[n + (i - n)] /\ n + (i - n) = i
        BY <1>1, <3>2
      <4> QED
        BY <4>1
    <3> QED
      BY <1>1, <3>1, <3>2
  <2> QED
    BY <2>1, <2>2, SeqEqual
<1>3. \A x, y, z \in Seq(X) : (x \o y) \o z = x \o (y \o z)
  <2>1. Associate(X)
    BY Associative, Zenon
  <2> QED
    BY <2>1, Zenon DEF Associate
<1>4. (b \o c) \o d = b \o w
  BY <1>1, <1>2, <1>3, Zenon
<1>5. b \o c \in Seq(X)
  BY <1>1
<1> QED
  BY <1>1, <1>4, <1>5 DEF c, d, Taken, Drop
\* The end of a sequence of two parts.
LEMMA SecondPart ==
  ASSUME NEW X, NEW h \in Seq(X), NEW s \in Seq(X)
  PROVE  /\ h \o s \in Seq(X) /\ Len(h \o s) = Len(h) + Len(s)
         /\ \A i \in 1..Len(h) : (h \o s)[i] = h[i]
         /\ SubSeq(h \o s, Len(h) + 1, Len(h \o s)) = s
<1>1. /\ h \o s \in Seq(X) /\ Len(h \o s) = Len(h) + Len(s) /\ Len(h) \in Nat /\ Len(s) \in Nat
      /\ \A i \in 1..Len(h) : (h \o s)[i] = h[i]
      /\ \A i \in 1..Len(s) : (h \o s)[Len(h) + i] = s[i]
  OBVIOUS
<1>2. /\ SubSeq(h \o s, Len(h) + 1, Len(h \o s)) \in Seq(X)
      /\ Len(SubSeq(h \o s, Len(h) + 1, Len(h \o s))) = Len(s)
      /\ \A i \in 1..Len(s) : SubSeq(h \o s, Len(h) + 1, Len(h \o s))[i] = (h \o s)[Len(h) + i]
  BY <1>1
<1>3. SubSeq(h \o s, Len(h) + 1, Len(h \o s)) = s
  BY <1>1, <1>2, SeqEqual
<1> QED
  BY <1>1, <1>3

LEMMA FirstKept ==
  ASSUME NEW X, NEW a \in Seq(X), NEW b \in Seq(X), Len(a) # 0
  PROVE  (a \o b)[1] = a[1]
<1>1. 1 \in 1..Len(a)
  OBVIOUS
<1> QED
  BY <1>1, SecondPart

\* A byte, and two sequences after it.
LEMMA ThreeParts ==
  ASSUME NEW X, NEW a \in Seq(X), NEW b \in Seq(X), NEW c \in Seq(X), Len(a) = 1
  PROVE  /\ a \o b \o c \in Seq(X) /\ a \o b \o c # << >>
         /\ Len(a \o b \o c) = 1 + Len(b) + Len(c) /\ (a \o b \o c)[1] = a[1]
<1> DEFINE d == a \o b
           p == d \o c
<1>1. /\ d \in Seq(X) /\ Len(d) = Len(a) + Len(b)
      /\ p \in Seq(X) /\ Len(p) = Len(d) + Len(c)
  <2>1. \A x, y \in Seq(X) : x \o y \in Seq(X) /\ Len(x \o y) = Len(x) + Len(y)
    OBVIOUS
  <2> QED
    BY <2>1, Zenon
<1>2. Len(b) \in Nat /\ Len(c) \in Nat
  BY LenProperties
<1>3. d[1] = a[1]
  <2>1. Len(a) # 0
    OBVIOUS
  <2> QED
    BY <2>1, FirstKept
<1> HIDE DEF d
<1>4. Len(d) # 0
  BY <1>1, <1>2
<1>5. p[1] = d[1]
  BY <1>1, <1>4, FirstKept
<1> HIDE DEF p
<1>6. Len(p) = 1 + Len(b) + Len(c) /\ Len(p) # 0
  BY <1>1, <1>2
<1>7. p # << >>
  BY <1>6
<1> QED
  BY <1>1, <1>3, <1>5, <1>6, <1>7 DEF d, p

-----------------------------------------------------------------------------
(* Frames and the cells of a ciphertext.                                    *)
\* A frame with a payload the encoder may write is within the reader's limit.
LEMMA FrameWithin ==
  ASSUME NEW l \in Nat, NEW t \in Nat, l <= MaxPayload
  PROVE  /\ 4 + l + t \in Nat /\ 4 + l + t >= 4
         /\ 4 + l + t <= 4 + MaxPayload + 2 * t
  BY DEF MaxPayload

Cell == [nonce : Nat, at : Nat, byte : Nat]

\* Cells of plaintext.
LEMMA PlainCells ==
  ASSUME NEW bytes \in Seq(Nat)
  PROVE  /\ PlainAll(bytes) \in Seq(Cell) /\ Len(PlainAll(bytes)) = Len(bytes)
         /\ \A i \in 1..Len(bytes) : PlainAll(bytes)[i] = Plain(bytes[i])
<1>1. DOMAIN bytes = 1..Len(bytes) /\ Len(bytes) \in Nat /\ \A i \in 1..Len(bytes) : bytes[i] \in Nat
  OBVIOUS
<1>2. \A i \in 1..Len(bytes) : Plain(bytes[i]) \in Cell
  BY <1>1 DEF Plain, Cell
<1> QED
  BY <1>1, <1>2 DEF PlainAll

\* A whole ciphertext opens under its own nonce, to what was encrypted.
LEMMA SealedCells ==
  ASSUME NEW n \in Nat, NEW bytes \in Seq(Nat)
  PROVE  /\ Sealed(n, bytes) \in Seq(Cell)
         /\ Len(Sealed(n, bytes)) = Len(bytes) + TagLen
         /\ \A i \in 1..Len(bytes) + TagLen :
              Sealed(n, bytes)[i].nonce = n /\ Sealed(n, bytes)[i].at = i
         /\ \A i \in 1..Len(bytes) : Sealed(n, bytes)[i].byte = bytes[i]
<1> DEFINE c(i) == [nonce |-> n, at |-> i, byte |-> IF i <= Len(bytes) THEN bytes[i] ELSE 0]
           m == Len(bytes) + TagLen
<1>1. m \in Nat /\ Len(bytes) \in Nat /\ Len(bytes) <= m /\ \A i \in 1..Len(bytes) : bytes[i] \in Nat
  BY WireAssumption
<1>2. \A i \in 1..m : c(i) \in Cell /\ c(i).nonce = n /\ c(i).at = i
  BY <1>1 DEF Cell
<1>3. \A i \in 1..Len(bytes) : c(i).byte = bytes[i]
  BY <1>1
<1>4. Sealed(n, bytes) = [i \in 1..m |-> c(i)]
  BY DEF Sealed
<1> HIDE DEF c, m
<1>5. Sealed(n, bytes) \in Seq(Cell) /\ Len(Sealed(n, bytes)) = m /\ \A i \in 1..m : Sealed(n, bytes)[i] = c(i)
  <2>1. \A i \in 1..m : Sealed(n, bytes)[i] = c(i)
    BY <1>4, Zenon
  <2>2. \A i \in 1..m : c(i) \in Cell
    BY <1>2, Zenon
  <2>3. [i \in 1..m |-> c(i)] \in [1..m -> Cell]
    BY <2>2, Zenon
  <2> DEFINE s == [i \in 1..m |-> c(i)]
  <2> HIDE DEF s
  <2>4. s \in [1..m -> Cell]
    BY <2>3 DEF s
  <2>5. s \in Seq(Cell) /\ Len(s) = m
    BY <1>1, <2>4
  <2> QED
    BY <1>4, <2>1, <2>5, Zenon DEF s
<1> QED
  BY <1>1, <1>2, <1>3, <1>5 DEF m

\* A whole ciphertext opens under its own nonce, to what was encrypted.
LEMMA SealedOpens ==
  ASSUME NEW k \in Nat, NEW bytes \in Seq(Nat), bytes # << >>
  PROVE  Opens(Sealed(k + 1, bytes), k) /\ Content(Sealed(k + 1, bytes)) = bytes
<1> DEFINE s == Sealed(k + 1, bytes)
           t == SubSeq(s, 1, Len(bytes))
<1>1. /\ s \in Seq(Cell) /\ Len(s) = Len(bytes) + TagLen
      /\ \A i \in 1..Len(bytes) + TagLen : s[i].nonce = k + 1 /\ s[i].at = i
      /\ \A i \in 1..Len(bytes) : s[i].byte = bytes[i]
  BY SealedCells
<1>2. Len(bytes) \in Nat \ {0} /\ TagLen \in Nat
  BY WireAssumption, EmptySeq
<1> HIDE DEF s
<1>3. Opens(s, k)
  BY <1>1, <1>2 DEF Opens
<1>4. Content(s) = Bytes(t)
  <2>1. Len(s) - TagLen = Len(bytes)
    BY <1>1, <1>2
  <2> QED
    BY <2>1, Zenon DEF Content
<1>5. t \in Seq(Cell) /\ Len(t) = Len(bytes) /\ DOMAIN t = 1..Len(bytes) /\ \A i \in 1..Len(bytes) : t[i] = s[i]
  BY <1>1, <1>2
<1> HIDE DEF t
<1>6. Bytes(t) = [i \in 1..Len(bytes) |-> bytes[i]]
  BY <1>1, <1>2, <1>5 DEF Bytes
<1>7. Bytes(t) = bytes
  BY <1>6
<1> QED
  BY <1>3, <1>4, <1>7 DEF s

\* The four bytes before a ciphertext.
LEMMA Four ==
  ASSUME NEW x \in Nat, NEW q \in Nat, NEW r \in Nat
  PROVE  /\ PlainAll(<<1, x, q, r>>) \in Seq(Cell) /\ Len(PlainAll(<<1, x, q, r>>)) = 4
         /\ PlainAll(<<1, x, q, r>>)[1].byte = 1 /\ PlainAll(<<1, x, q, r>>)[2].byte = x
         /\ PlainAll(<<1, x, q, r>>)[3].byte = q /\ PlainAll(<<1, x, q, r>>)[4].byte = r
<1> DEFINE bytes == <<1, x, q, r>>
<1>1. bytes \in Seq(Nat) /\ Len(bytes) = 4
  OBVIOUS
<1>2. bytes[1] = 1 /\ bytes[2] = x /\ bytes[3] = q /\ bytes[4] = r
  OBVIOUS
<1> HIDE DEF bytes
<1>3. PlainAll(bytes) \in Seq(Cell) /\ Len(PlainAll(bytes)) = 4 /\ \A i \in 1..4 : PlainAll(bytes)[i] = Plain(bytes[i])
  BY <1>1, PlainCells
<1>4. \A b : Plain(b).byte = b
  BY DEF Plain
<1>5. 1 \in 1..4 /\ 2 \in 1..4 /\ 3 \in 1..4 /\ 4 \in 1..4
  OBVIOUS
<1>6. /\ PlainAll(bytes)[1].byte = 1 /\ PlainAll(bytes)[2].byte = x
      /\ PlainAll(bytes)[3].byte = q /\ PlainAll(bytes)[4].byte = r
  BY <1>2, <1>3, <1>4, <1>5, Zenon
<1> QED
  BY <1>3, <1>6, Zenon DEF bytes

\* A number is made of its lowest byte and what is above it.
LEMMA Divided ==
  ASSUME NEW n \in Nat
  PROVE  High(n) \in Nat /\ Low(n) \in Nat /\ n = High(n) * 256 + Low(n)
<1>1. PICK q, r : q = n \div 256 /\ r = n % 256
  OBVIOUS
<1>2. q \in Nat /\ r \in Nat /\ n = q * 256 + r
  BY <1>1
<1> QED
  BY <1>1, <1>2 DEF High, Low

\* The three bytes of a length.
LEMMA LengthBytes ==
  ASSUME NEW n \in Nat
  PROVE  /\ High(High(n)) \in Nat /\ Low(High(n)) \in Nat /\ Low(n) \in Nat
         /\ n = High(High(n)) * 65536 + Low(High(n)) * 256 + Low(n)
<1>1. High(n) \in Nat /\ Low(n) \in Nat /\ n = High(n) * 256 + Low(n)
  BY Divided
<1>2. /\ High(High(n)) \in Nat /\ Low(High(n)) \in Nat
      /\ High(n) = High(High(n)) * 256 + Low(High(n))
  BY <1>1, Divided
<1> QED
  BY <1>1, <1>2

\* A frame is as long as its length bytes say (encrypt_frame, complete_frame_len).
LEMMA FrameCells ==
  ASSUME NEW n \in Nat, NEW payload \in Seq(Nat)
  PROVE  /\ Frame(n, payload) \in Seq(Cell)
         /\ Len(Frame(n, payload)) = 4 + Len(payload) + TagLen
         /\ Frame(n, payload)[1].byte = 1
         /\ FrameLength(Frame(n, payload)) = Len(Frame(n, payload))
         /\ SubSeq(Frame(n, payload), 5, Len(Frame(n, payload))) = Sealed(n, payload)
<1>1. Len(payload) \in Nat /\ TagLen \in Nat
  BY WireAssumption
<1> DEFINE x == High(High(Len(payload)))
           q == Low(High(Len(payload)))
           r == Low(Len(payload))
<1>2. x \in Nat /\ q \in Nat /\ r \in Nat /\ Len(payload) = x * 65536 + q * 256 + r
  BY <1>1, LengthBytes
<1> DEFINE h == PlainAll(<<1, x, q, r>>)
           s == Sealed(n, payload)
           f == Frame(n, payload)
<1>3. /\ h \in Seq(Cell) /\ Len(h) = 4
      /\ h[1].byte = 1 /\ h[2].byte = x /\ h[3].byte = q /\ h[4].byte = r
  <2> HIDE DEF x, q, r
  <2> QED
    BY <1>2, Four
<1>4. s \in Seq(Cell) /\ Len(s) = Len(payload) + TagLen
  BY SealedCells
<1>5. f = h \o s
  BY Zenon DEF Frame
<1> HIDE DEF x, q, r, h, s, f
<1>6. /\ f \in Seq(Cell) /\ Len(f) = Len(h) + Len(s)
      /\ \A i \in 1..Len(h) : f[i] = h[i]
      /\ SubSeq(f, Len(h) + 1, Len(f)) = s
  BY <1>3, <1>4, <1>5, SecondPart
<1>7. Len(f) = 4 + Len(payload) + TagLen /\ SubSeq(f, 5, Len(f)) = s
  BY <1>1, <1>3, <1>4, <1>6
<1>8. f[1] = h[1] /\ f[2] = h[2] /\ f[3] = h[3] /\ f[4] = h[4]
  <2>1. 1 \in 1..Len(h) /\ 2 \in 1..Len(h) /\ 3 \in 1..Len(h) /\ 4 \in 1..Len(h)
    BY <1>3
  <2> QED
    BY <1>6, <2>1, Zenon
<1> DEFINE sum == 4 + x * 65536 + q * 256 + r + TagLen
<1>9. FrameLength(f) = sum /\ f[1].byte = 1
  BY <1>3, <1>8 DEF FrameLength
<1>10. sum = 4 + Len(payload) + TagLen
  BY <1>1, <1>2
<1> HIDE DEF sum
<1>11. FrameLength(f) = Len(f)
  BY <1>7, <1>9, <1>10
<1> QED
  BY <1>6, <1>7, <1>9, <1>11 DEF s, f

FromSample == \E sample \in Samples : format = sample.format /\ sent = sample.messages

\* The i-th message as it is decoded.
Decoded(i) == <<HdsNormal(sent[i][1]), HdsNormal(sent[i][2])>>

HdsInv ==
  format = "hds" =>
    /\ buf \in Seq(Cell) /\ wire \in Seq(Cell)
    /\ counter \in 0..Len(sent)
    /\ got = [i \in 1..counter |-> Decoded(i)]
    /\ \E peer \in BOOLEAN : buf \o wire = After(Frames(sent, peer), counter)
    /\ state \in {"open", "closed"}
    /\ state = "closed" => counter = Len(sent)

\* What is sent is a sequence of messages of the format.
LEMMA SampleSent ==
  ASSUME FromSample
  PROVE  /\ format \in Formats
         /\ Len(sent) \in Nat /\ DOMAIN sent = 1..Len(sent)
         /\ \A i \in 1..Len(sent) : Sendable(format, sent[i])
<1>1. PICK sample \in Samples : format = sample.format /\ sent = sample.messages
  BY DEF FromSample
<1>2. /\ format \in Formats /\ sent \in Seq(Range(sent))
      /\ \A message \in Range(sent) : Sendable(format, message)
  BY <1>1, SamplesAssumption
<1>3. Len(sent) \in Nat /\ DOMAIN sent = 1..Len(sent) /\ \A i \in 1..Len(sent) : sent[i] \in Range(sent)
  BY <1>2, LenProperties, ElementOfSeq
<1> QED
  BY <1>2, <1>3

\* A payload: a byte with the length of the header, the header, the message.
PayloadOf(peer, message) == IF peer THEN PeerPayload(message) ELSE Payload(message)

LEMMA ByteNumbers ==
  ASSUME NEW bytes \in Seq(Byte)
  PROVE  bytes \in Seq(Nat)
<1>1. Byte \subseteq Nat
  BY DEF Byte
<1> QED
  BY <1>1, SeqMonotonic

\* A payload is longer than its first byte says the header is.
LEMMA Counted ==
  ASSUME NEW h \in Seq(Nat), NEW m \in Seq(Nat)
  PROVE  /\ <<Len(h)>> \o h \o m \in Seq(Nat)
         /\ <<Len(h)>> \o h \o m # << >>
         /\ (<<Len(h)>> \o h \o m)[1] \in Nat
         /\ Len(<<Len(h)>> \o h \o m) = 1 + Len(h) + Len(m)
         /\ Len(<<Len(h)>> \o h \o m) >= (<<Len(h)>> \o h \o m)[1] + 1
<1> DEFINE a == <<Len(h)>>
           p == a \o h \o m
<1>1. a \in Seq(Nat) /\ Len(a) = 1 /\ a[1] = Len(h) /\ Len(h) \in Nat /\ Len(m) \in Nat
  OBVIOUS
<1> HIDE DEF a
<1>2. p \in Seq(Nat) /\ p # << >> /\ Len(p) = 1 + Len(h) + Len(m) /\ p[1] = a[1]
  BY <1>1, ThreeParts
<1> HIDE DEF p
<1>3. p \in Seq(Nat) /\ p # << >> /\ p[1] \in Nat /\ Len(p) >= p[1] + 1 /\ Len(p) = 1 + Len(h) + Len(m)
  BY <1>1, <1>2
<1> QED
  BY <1>3 DEF a, p

\* What handle_payload and decrypt_frame check of a payload.
LEMMA PayloadBytes ==
  ASSUME NEW message, Sendable("hds", message), NEW peer \in BOOLEAN
  PROVE  /\ PayloadOf(peer, message) \in Seq(Nat)
         /\ PayloadOf(peer, message) # << >>
         /\ PayloadOf(peer, message)[1] \in Nat
         /\ Len(PayloadOf(peer, message)) <= MaxPayload
         /\ Len(PayloadOf(peer, message)) >= PayloadOf(peer, message)[1] + 1
<1>1. ASSUME NEW h \in Seq(Byte), NEW m \in Seq(Byte), Len(h) + Len(m) < MaxPayload
      PROVE  LET p == <<Len(h)>> \o h \o m
             IN  p \in Seq(Nat) /\ p # << >> /\ p[1] \in Nat /\ Len(p) >= p[1] + 1 /\ Len(p) <= MaxPayload
  <2>1. h \in Seq(Nat) /\ m \in Seq(Nat) /\ Len(h) \in Nat /\ Len(m) \in Nat
    BY ByteNumbers, LenProperties
  <2> DEFINE p == <<Len(h)>> \o h \o m
  <2>2. p \in Seq(Nat) /\ p # << >> /\ p[1] \in Nat /\ Len(p) >= p[1] + 1 /\ Len(p) = 1 + Len(h) + Len(m)
    BY <2>1, Counted
  <2> HIDE DEF p
  <2>3. Len(p) <= MaxPayload
    BY <1>1, <2>1, <2>2 DEF MaxPayload
  <2> QED
    BY <2>2, <2>3 DEF p
<1>2. \A i \in 1..2 : {HdsEncode(message[i]), HdsCompressed(message[i])} \subseteq Seq(Byte)
  BY DEF Sendable
<1>3. /\ HdsEncode(message[1]) \in Seq(Byte) /\ HdsEncode(message[2]) \in Seq(Byte)
      /\ HdsCompressed(message[1]) \in Seq(Byte) /\ HdsCompressed(message[2]) \in Seq(Byte)
      /\ Len(HdsEncode(message[1])) + Len(HdsEncode(message[2])) < MaxPayload
      /\ Len(HdsCompressed(message[1])) + Len(HdsCompressed(message[2])) < MaxPayload
  BY <1>2 DEF Sendable
<1>4. CASE peer
  BY <1>1, <1>3, <1>4 DEF PayloadOf, PeerPayload
<1>5. CASE ~peer
  BY <1>1, <1>3, <1>5 DEF PayloadOf, Payload
<1> QED
  BY <1>4, <1>5

\* The frames of a stream, and those after the first k of them.
LEMMA FramesParts ==
  ASSUME FromSample, format = "hds", NEW peer \in BOOLEAN
  PROVE  /\ Parts(Cell, Frames(sent, peer)) /\ Len(Frames(sent, peer)) = Len(sent)
         /\ \A i \in 1..Len(sent) : Frames(sent, peer)[i] = Frame(i, PayloadOf(peer, sent[i]))
<1> DEFINE n == Len(sent)
           f(i) == Frame(i, PayloadOf(peer, sent[i]))
<1>1. n \in Nat /\ DOMAIN sent = 1..n /\ \A i \in 1..n : Sendable("hds", sent[i])
  BY SampleSent
<1>2. ASSUME NEW i \in 1..n PROVE f(i) \in Seq(Cell)
  BY <1>1, PayloadBytes, FrameCells
<1>3. Frames(sent, peer) = [i \in 1..n |-> f(i)]
  BY <1>1 DEF Frames, PayloadOf
<1> HIDE DEF n, f
<1>4. [i \in 1..n |-> f(i)] \in Seq(Seq(Cell)) /\ Len([i \in 1..n |-> f(i)]) = n
  BY <1>1, <1>2
<1> QED
  BY <1>3, <1>4 DEF n, f, Parts

LEMMA FramesAfter ==
  ASSUME FromSample, format = "hds", NEW peer \in BOOLEAN, NEW k \in 0..Len(sent)
  PROVE  /\ After(Frames(sent, peer), k) \in Seq(Cell)
         /\ k = Len(sent) => After(Frames(sent, peer), k) = << >>
         /\ k < Len(sent) =>
              After(Frames(sent, peer), k) =
                Frame(k + 1, PayloadOf(peer, sent[k + 1])) \o After(Frames(sent, peer), k + 1)
<1> DEFINE f == Frames(sent, peer)
<1>1. Parts(Cell, f) /\ Len(f) = Len(sent) /\ \A i \in 1..Len(sent) : f[i] = Frame(i, PayloadOf(peer, sent[i]))
  BY FramesParts
<1>2. Len(sent) \in Nat /\ k \in 0..Len(f)
  BY <1>1, SampleSent
<1> HIDE DEF f
<1>3. After(f, k) \in Seq(Cell)
  BY <1>1, <1>2, AfterType
<1>4. k = Len(sent) => After(f, k) = << >>
  BY <1>1, AfterAll
<1>5. ASSUME k < Len(sent)
      PROVE  After(f, k) = Frame(k + 1, PayloadOf(peer, sent[k + 1])) \o After(f, k + 1)
  <2>1. After(f, k) = f[k + 1] \o After(f, k + 1)
    BY <1>1, <1>2, <1>5, AfterStep
  <2>2. k + 1 \in 1..Len(sent)
    BY <1>2, <1>5
  <2> QED
    BY <1>1, <2>1, <2>2, Zenon
<1> QED
  BY <1>3, <1>4, <1>5 DEF f

LEMMA SameLength ==
  ASSUME NEW b, NEW c, b[2] = c[2], b[3] = c[3], b[4] = c[4]
  PROVE  FrameLength(b) = FrameLength(c)
BY DEF FrameLength

\* What is in the buffer of a stream: the beginning of the next frame.
LEMMA NextFrame ==
  ASSUME FromSample, format = "hds", NEW peer \in BOOLEAN, NEW k \in 0..Len(sent),
         buf \in Seq(Cell), wire \in Seq(Cell), buf \o wire = After(Frames(sent, peer), k),
         Len(buf) >= 4 \/ (wire = << >> /\ k # Len(sent))
  PROVE  /\ k < Len(sent)
         /\ Len(buf) >= 4
         /\ ~FrameBad(buf)
         /\ wire = << >> => Len(buf) >= FrameLength(buf)
         /\ Len(buf) >= FrameLength(buf) =>
              /\ SubSeq(buf, 5, FrameLength(buf)) = Sealed(k + 1, PayloadOf(peer, sent[k + 1]))
              /\ Drop(buf, FrameLength(buf)) \in Seq(Cell)
              /\ Drop(buf, FrameLength(buf)) \o wire = After(Frames(sent, peer), k + 1)
<1>0. Len(sent) \in Nat
  BY SampleSent, Zenon
<1>1. Len(sent) \in Nat /\ k \in Nat
  BY <1>0
<1>2. Len(buf) \in Nat /\ Len(wire) \in Nat
  BY LenProperties
<1> DEFINE p == PayloadOf(peer, sent[k + 1])
           f == Frame(k + 1, p)
           r == After(Frames(sent, peer), k + 1)
           n == Len(f)
<1>3. k < Len(sent)
  <2> SUFFICES ASSUME k = Len(sent) PROVE FALSE
    BY <1>1
  <2>1. buf \o wire = << >>
    BY FramesAfter
  <2>2. Len(buf) = 0
    BY <2>1
  <2> QED
    BY <2>2
<1>4. buf \o wire = f \o r
  BY <1>3, FramesAfter
<1>5. k + 1 \in 0..Len(sent) /\ k + 1 \in 1..Len(sent) /\ k + 1 \in Nat
  BY <1>1, <1>3
<1>6. r \in Seq(Cell)
  BY <1>5, FramesAfter
<1>7. p \in Seq(Nat) /\ Len(p) <= MaxPayload
  BY <1>5, SampleSent, PayloadBytes
<1> HIDE DEF r, p
<1>8. /\ f \in Seq(Cell) /\ n = 4 + Len(p) + TagLen /\ f[1].byte = 1
      /\ FrameLength(f) = n /\ SubSeq(f, 5, n) = Sealed(k + 1, p)
  BY <1>5, <1>7, FrameCells
<1>9. Len(p) \in Nat /\ TagLen \in Nat
  BY <1>7, WireAssumption, LenProperties
<1>10. n \in Nat /\ n >= 4 /\ n <= 4 + MaxPayload + 2 * TagLen
  <2>1. /\ 4 + Len(p) + TagLen \in Nat /\ 4 + Len(p) + TagLen >= 4
        /\ 4 + Len(p) + TagLen <= 4 + MaxPayload + 2 * TagLen
    <3> HIDE DEF f, n
    <3> QED
      BY <1>7, <1>9, FrameWithin
  <2> QED
    BY <1>8, <2>1, Zenon
<1> HIDE DEF f
<1>11. /\ Len(buf) + Len(wire) = n + Len(r)
       /\ \A i \in 1..Len(buf) : i <= n => buf[i] = f[i]
  BY <1>4, <1>6, <1>8, CutLength, Zenon
<1> HIDE DEF n
<1>12. wire = << >> => Len(buf) >= n
  <2>1. Len(r) \in Nat
    BY <1>6, LenProperties
  <2>2. wire = << >> => Len(wire) = 0
    OBVIOUS
  <2> QED
    BY <1>2, <1>10, <1>11, <2>1, <2>2
<1>13. Len(buf) >= 4
  BY <1>2, <1>3, <1>10, <1>12
<1>14. buf[1] = f[1] /\ buf[2] = f[2] /\ buf[3] = f[3] /\ buf[4] = f[4]
  <2>1. /\ 1 \in 1..Len(buf) /\ 2 \in 1..Len(buf) /\ 3 \in 1..Len(buf) /\ 4 \in 1..Len(buf)
        /\ 1 <= n /\ 2 <= n /\ 3 <= n /\ 4 <= n
    BY <1>2, <1>10, <1>13
  <2> QED
    BY <1>11, <2>1, Zenon
<1>15. FrameLength(buf) = n /\ buf[1].byte = 1
  BY <1>8, <1>14, SameLength, Zenon
<1>16. ~FrameBad(buf)
  <2>1. ~(n > 4 + MaxPayload + 2 * TagLen)
    BY <1>9, <1>10 DEF MaxPayload
  <2> QED
    BY <1>15, <2>1 DEF FrameBad
<1>17. ASSUME Len(buf) >= n
       PROVE  /\ SubSeq(buf, 5, n) = Sealed(k + 1, p)
              /\ Drop(buf, n) \in Seq(Cell)
              /\ Drop(buf, n) \o wire = r
  <2>1. n = Len(f) /\ n <= Len(buf)
    BY <1>2, <1>10, <1>17 DEF n
  <2>2. Covers(buf, f)
    BY <2>1 DEF Covers
  <2>3. Drop(buf, n) \in Seq(Cell) /\ Drop(buf, n) \o wire = r
    <3>1. f \in Seq(Cell)
      BY <1>8, Zenon
    <3>2. Drop(buf, Len(f)) \in Seq(Cell) /\ Makes(Drop(buf, Len(f)), wire, r)
      BY <1>4, <1>6, <2>2, <3>1, CutFirst, Zenon
    <3> QED
      BY <2>1, <3>2, Zenon DEF Makes
  <2>4. CASE n >= 5
    <3>1. 5 \in 1..Len(f)
      BY <1>10, <2>1, <2>4
    <3>2. EndsAlike(buf, f, 5)
      BY <1>4, <1>6, <1>8, <2>2, <3>1, CutTail, Zenon
    <3>3. SubSeq(buf, 5, n) = SubSeq(f, 5, n)
      BY <2>1, <3>2, Zenon DEF EndsAlike
    <3> QED
      BY <1>8, <2>3, <3>3, Zenon
  <2>5. CASE n < 5
    <3>1. SubSeq(buf, 5, n) = SubSeq(f, 5, n)
      BY <1>10, <2>5, SubSeqEmpty
    <3> QED
      BY <1>8, <2>3, <3>1, Zenon
  <2> QED
    BY <1>10, <2>4, <2>5
<1>18. /\ wire = << >> => Len(buf) >= FrameLength(buf)
       /\ Len(buf) >= FrameLength(buf) =>
              /\ SubSeq(buf, 5, FrameLength(buf)) = Sealed(k + 1, p)
              /\ Drop(buf, FrameLength(buf)) \in Seq(Cell)
              /\ Drop(buf, FrameLength(buf)) \o wire = r
  BY <1>12, <1>15, <1>17, Zenon
<1> QED
  BY <1>3, <1>13, <1>16, <1>18 DEF p, r

-----------------------------------------------------------------------------
(* The frames of a data stream are read one after the other, as they were sent.*)
\* A reader of a data stream has no records and no lines.
LEMMA HdsOnly ==
  ASSUME format = "hds"
  PROVE  ~RecordComplete /\ ~BodyComplete /\ Newlines = {} /\ ~ReadRecord /\ ~ReadBody /\ ~ReadLine
BY DEF RecordComplete, BodyComplete, Newlines, ReadRecord, ReadBody, ReadLine

\* The invariant of a data stream: at first, as cells arrive, as a frame is read,
\* and at the end.
LEMMA HdsStart ==
  ASSUME WireInit
  PROVE  FromSample /\ HdsInv
<1>1. PICK sample \in Samples, peer \in BOOLEAN :
         format = sample.format /\ sent = sample.messages /\ wire = WireOf(format, sent, peer)
  BY DEF WireInit
<1>2. FromSample
  BY <1>1 DEF FromSample
<1>3. ASSUME format = "hds" PROVE HdsInv
  <2>1. Parts(Cell, Frames(sent, peer)) /\ Len(sent) \in Nat
    BY <1>2, <1>3, FramesParts, SampleSent
  <2>2. wire = FlattenSeq(Frames(sent, peer))
    BY <1>1, <1>3 DEF WireOf
  <2>3. wire = After(Frames(sent, peer), 0) /\ wire \in Seq(Cell)
    BY <2>1, <2>2, AfterNone, FlattenType
  <2>4. << >> \o wire = wire
    BY <2>3
  <2>5. buf = << >> /\ counter = 0 /\ got = << >> /\ state = "open"
    BY DEF WireInit
  <2>6. << >> = [i \in 1..0 |-> Decoded(i)] /\ << >> \in Seq(Cell) /\ 0 \in 0..Len(sent)
    BY <2>1
  <2>7. buf \o wire = After(Frames(sent, peer), counter)
    BY <2>3, <2>4, <2>5, Zenon
  <2>8. got = [i \in 1..counter |-> Decoded(i)] /\ buf \in Seq(Cell) /\ counter \in 0..Len(sent)
    BY <2>5, <2>6, Zenon
  <2> QED
    BY <2>3, <2>5, <2>7, <2>8, Zenon DEF HdsInv
<1>4. format # "hds" => HdsInv
  BY Zenon DEF HdsInv
<1> QED
  BY <1>2, <1>3, <1>4, Zenon

LEMMA HdsArrives ==
  ASSUME HdsInv, format = "hds", NEW n \in Cuts, Arrive(n)
  PROVE  HdsInv'
<1>1. PICK peer \in BOOLEAN : buf \o wire = After(Frames(sent, peer), counter)
  BY DEF HdsInv
<1>2. buf \in Seq(Cell) /\ wire \in Seq(Cell)
  BY DEF HdsInv
<1>3. n <= Len(wire) /\ buf' = buf \o Taken(wire, n) /\ wire' = Drop(wire, n)
  BY DEF Arrive, Taken
<1>4. n \in 0..Len(wire)
  BY <1>2, <1>3, CutsAssumption, LenProperties
<1>5. buf' \in Seq(Cell) /\ wire' \in Seq(Cell) /\ buf' \o wire' = buf \o wire
  BY <1>2, <1>3, <1>4, Shift
<1>6. /\ format' = format /\ sent' = sent /\ counter' = counter /\ got' = got /\ state' = state
  BY DEF Arrive
<1>7. buf' \o wire' = After(Frames(sent', peer), counter')
  BY <1>1, <1>5, <1>6, Zenon
<1> QED
  BY <1>5, <1>6, <1>7, Zenon DEF HdsInv, Decoded

\* A payload that a controller or the reader's own side wrote is never rejected,
\* and decodes to what was written.
LEMMA PayloadDecodes ==
  ASSUME HdsRoundTrips, FromSample, format = "hds", NEW peer \in BOOLEAN, NEW i \in 1..Len(sent)
  PROVE  /\ ~Rejected(PayloadOf(peer, sent[i]))
         /\ Message(PayloadOf(peer, sent[i])) = Decoded(i)
<1> DEFINE m == sent[i]
           p == PayloadOf(peer, m)
<1>1. PICK sample \in Samples : format = sample.format /\ sent = sample.messages
  BY DEF FromSample
<1>2. Sendable("hds", m) /\ DOMAIN sent = 1..Len(sent)
  BY SampleSent
<1>3. m \in Range(sample.messages)
  BY <1>1, <1>2 DEF Range
<1> HIDE DEF m
<1>4. p # << >> /\ p[1] \in Nat /\ Len(p) \in Nat /\ Len(p) >= p[1] + 1
  BY <1>2, PayloadBytes, LenProperties
<1>5. p \in {Payload(m), PeerPayload(m)}
  BY DEF PayloadOf
<1> HIDE DEF p
<1>6. /\ HdsNormal(m[1]).kind \notin {"error", "end"} /\ HdsNormal(m[2]).kind \notin {"error", "end"}
      /\ Message(p) = <<HdsNormal(m[1]), HdsNormal(m[2])>>
  BY <1>1, <1>3, <1>5 DEF HdsRoundTrips
<1>7. Message(p)[1].kind \notin {"error", "end"} /\ Message(p)[2].kind # "error"
  BY <1>6
<1>8. ~(Len(p) < p[1] + 1)
  BY <1>4
<1>9. ~Rejected(p)
  BY <1>4, <1>7, <1>8 DEF Rejected
<1> QED
  BY <1>6, <1>9 DEF m, p, Decoded

\* A whole frame at the front of the buffer is the next one, opens under the
\* counter, and is decoded to the next message.
LEMMA HdsReads ==
  ASSUME HdsRoundTrips, FromSample, HdsInv, format = "hds", ReadFrame
  PROVE  HdsInv'
<1>1. PICK peer \in BOOLEAN : buf \o wire = After(Frames(sent, peer), counter)
  BY DEF HdsInv
<1>2. buf \in Seq(Cell) /\ wire \in Seq(Cell) /\ counter \in 0..Len(sent) /\ state = "open"
  BY DEF HdsInv, ReadFrame
<1> DEFINE p == PayloadOf(peer, sent[counter + 1])
           length == FrameLength(buf)
           cells == SubSeq(buf, 5, length)
<1>3. Len(buf) >= 4 /\ (FrameBad(buf) \/ Len(buf) >= length)
  BY DEF ReadFrame, FrameComplete
<1>4. /\ counter < Len(sent) /\ ~FrameBad(buf)
      /\ Len(buf) >= length =>
           /\ cells = Sealed(counter + 1, p)
           /\ Drop(buf, length) \in Seq(Cell)
           /\ Drop(buf, length) \o wire = After(Frames(sent, peer), counter + 1)
  BY <1>1, <1>2, <1>3, NextFrame
<1>5. /\ cells = Sealed(counter + 1, p)
      /\ Drop(buf, length) \in Seq(Cell)
      /\ Drop(buf, length) \o wire = After(Frames(sent, peer), counter + 1)
  BY <1>3, <1>4
<1>6. Len(sent) \in Nat /\ counter \in Nat /\ counter + 1 \in 1..Len(sent) /\ counter + 1 \in 0..Len(sent)
  <2>1. Len(sent) \in Nat
    BY SampleSent, Zenon
  <2> QED
    BY <1>2, <1>4, <2>1
<1>7. p \in Seq(Nat) /\ p # << >>
  BY <1>6, SampleSent, PayloadBytes
<1>8. ~Rejected(p) /\ Message(p) = Decoded(counter + 1)
  BY <1>6, PayloadDecodes
<1> HIDE DEF p
<1>9. Opens(cells, counter) /\ Content(cells) = p
  BY <1>5, <1>6, <1>7, SealedOpens
<1> HIDE DEF length, cells
<1>10. Update(Drop(buf, length), counter + 1, plain, Append(got, Message(Content(cells))), state)
  BY <1>4, <1>8, <1>9, Zenon DEF ReadFrame, length, cells
<1>11. /\ buf' = Drop(buf, length) /\ counter' = counter + 1
       /\ got' = Append(got, Decoded(counter + 1)) /\ state' = state
       /\ UNCHANGED <<format, sent, wire>>
  BY <1>8, <1>9, <1>10 DEF Update
<1>12. got = [i \in 1..counter |-> Decoded(i)]
  BY DEF HdsInv
<1>13. Append(got, Decoded(counter + 1)) = [i \in 1..counter + 1 |-> Decoded(i)]
  BY <1>6, <1>12
<1>14. buf' \o wire' = After(Frames(sent', peer), counter')
  BY <1>5, <1>11, Zenon
<1>15. got' = [i \in 1..counter' |-> Decoded(i)]
  BY <1>11, <1>13
<1>16. \A i : Decoded(i)' = Decoded(i)
  BY <1>11 DEF Decoded
<1>17. /\ buf' \in Seq(Cell) /\ wire' \in Seq(Cell) /\ counter' \in 0..Len(sent')
       /\ state' \in {"open", "closed"} /\ ~(state' = "closed")
       /\ got' = [i \in 1..counter' |-> Decoded(i)']
  BY <1>2, <1>5, <1>6, <1>11, <1>15, <1>16
<1> QED
  BY <1>14, <1>17, Zenon DEF HdsInv

\* A stream that ends leaves nothing in the buffer.
LEMMA HdsEnds ==
  ASSUME FromSample, HdsInv, format = "hds", Eof
  PROVE  HdsInv'
<1>1. PICK peer \in BOOLEAN : buf \o wire = After(Frames(sent, peer), counter)
  BY DEF HdsInv
<1>2. /\ buf \in Seq(Cell) /\ wire \in Seq(Cell) /\ counter \in 0..Len(sent)
      /\ wire = << >> /\ ~FrameComplete
  BY DEF HdsInv, Eof
<1>3. counter = Len(sent)
  <2> SUFFICES ASSUME counter # Len(sent) PROVE FALSE
    OBVIOUS
  <2>1. Len(buf) >= 4 /\ Len(buf) >= FrameLength(buf)
    BY <1>1, <1>2, NextFrame
  <2> QED
    BY <1>2, <2>1 DEF FrameComplete
<1>4. Update(buf, counter, plain, got, "closed")
  BY DEF Eof
<1>5. /\ UNCHANGED <<buf, counter, got, format, sent, wire>> /\ state' = "closed"
  BY <1>4 DEF Update
<1> QED
  BY <1>3, <1>5 DEF HdsInv, Decoded

LEMMA HdsStep ==
  ASSUME HdsRoundTrips, FromSample, HdsInv, [WireNext]_wireVars
  PROVE  FromSample' /\ HdsInv'
<1>1. UNCHANGED <<format, sent>>
  BY DEF WireNext, wireVars, Arrive, ReadFrame, ReadRecord, ReadBody, ReadLine, Eof, Update
<1>2. FromSample'
  BY <1>1 DEF FromSample
<1>3. ASSUME format # "hds" PROVE HdsInv'
  <2>1. format' # "hds"
    BY <1>1, <1>3
  <2> QED
    BY <2>1, Zenon DEF HdsInv
<1>4. ASSUME format = "hds" PROVE HdsInv'
  <2>1. CASE \E n \in Cuts : Arrive(n)
    BY <1>4, <2>1, HdsArrives, Zenon
  <2>2. CASE ReadFrame
    BY <1>4, <2>2, HdsReads, Zenon
  <2>3. CASE Eof
    BY <1>4, <2>3, HdsEnds, Zenon
  <2>4. CASE UNCHANGED wireVars
    <3>1. UNCHANGED <<format, sent, wire, buf, counter, got, state>>
      BY <2>4 DEF wireVars
    <3> QED
      BY <3>1, Zenon DEF HdsInv, Decoded
  <2> QED
    BY <1>4, <2>1, <2>2, <2>3, <2>4, HdsOnly DEF WireNext
<1> QED
  BY <1>2, <1>3, <1>4

LEMMA FirstOnes ==
  ASSUME NEW S, NEW n \in Nat, NEW k \in 0..n, NEW f \in [1..n -> S],
         NEW g \in [1..k -> S], \A i \in 1..k : g[i] = f[i]
  PROVE  IsPrefix(g, f)
<1>1. g \in Seq(S) /\ f \in Seq(S) /\ Len(g) = k /\ Len(f) = n
  OBVIOUS
<1>2. Len(g) <= Len(f) /\ SubSeq(g, 1, Len(g)) = SubSeq(f, 1, Len(g))
  <2>1. /\ SubSeq(g, 1, k) \in Seq(S) /\ SubSeq(f, 1, k) \in Seq(S)
        /\ Len(SubSeq(g, 1, k)) = k /\ Len(SubSeq(f, 1, k)) = k
        /\ \A i \in 1..k : SubSeq(g, 1, k)[i] = g[i] /\ SubSeq(f, 1, k)[i] = f[i]
    BY <1>1
  <2> QED
    BY <1>1, <2>1, SeqEqual
<1> QED
  BY <1>2 DEF IsPrefix

\* The first n of what was sent have been decoded, and all at the end.
LEMMA SoFar ==
  ASSUME NEW m \in Nat, NEW n \in 0..m, NEW f, f = [i \in 1..m |-> f[i]],
         got = [i \in 1..n |-> f[i]],
         state \in {"open", "closed"}, state = "closed" => n = m
  PROVE  Survives(f)
<1> DEFINE S == {f[i] : i \in 1..m}
<1>1. \A i \in 1..n : i \in 1..m
  OBVIOUS
<1>2. f \in [1..m -> S]
  BY Zenon
<1>3. got \in [1..n -> S] /\ \A i \in 1..n : got[i] = f[i]
  <2>1. \A i \in 1..n : f[i] \in S
    BY <1>1, Zenon
  <2>2. [i \in 1..n |-> f[i]] \in [1..n -> S]
    BY <2>1, Zenon
  <2> QED
    BY <2>2, Zenon
<1> HIDE DEF S
<1>4. IsPrefix(got, f)
  BY <1>2, <1>3, FirstOnes, Zenon
<1>5. state = "closed" => got = f
  BY Zenon
<1>6. state # "failed"
  OBVIOUS
<1> QED
  BY <1>4, <1>5, <1>6, Zenon DEF Survives

LEMMA Below ==
  ASSUME NEW n \in Nat, NEW c \in 0..n, NEW i \in 1..c
  PROVE  i \in 1..n
  OBVIOUS

LEMMA HdsKept ==
  ASSUME FromSample, HdsInv
  PROVE  HdsSurvives
<1> SUFFICES ASSUME format = "hds"
             PROVE  Survives([i \in DOMAIN sent |-> <<HdsNormal(sent[i][1]), HdsNormal(sent[i][2])>>])
  BY DEF HdsSurvives
<1> DEFINE f == [i \in DOMAIN sent |-> <<HdsNormal(sent[i][1]), HdsNormal(sent[i][2])>>]
<1>1. Len(sent) \in Nat /\ DOMAIN sent = 1..Len(sent)
  BY SampleSent
<1>2. /\ counter \in 0..Len(sent) /\ got = [i \in 1..counter |-> Decoded(i)]
      /\ state \in {"open", "closed"} /\ (state = "closed" => counter = Len(sent))
  BY DEF HdsInv
<1>3. f = [i \in 1..Len(sent) |-> f[i]] /\ \A i \in 1..Len(sent) : f[i] = Decoded(i)
  BY <1>1, Zenon DEF Decoded
<1> HIDE DEF f
<1>4. \A i \in 1..counter : f[i] = Decoded(i)
  <2>1. \A i \in 1..counter : i \in 1..Len(sent)
    BY <1>1, <1>2, Below, Zenon
  <2> QED
    BY <1>3, <2>1, Zenon
<1>5. got = [i \in 1..counter |-> f[i]]
  BY <1>2, <1>4, Zenon
<1>6. Survives(f)
  BY <1>1, <1>2, <1>3, <1>5, SoFar, Zenon
<1> QED
  BY <1>6, Zenon DEF f

\* Every message of a data stream arrives as it was sent, however the stream is
\* cut (handle_connection, complete_frame_len, decrypt_frame).
THEOREM HdsFraming ==
  ASSUME HdsRoundTrips
  PROVE  WireSpec => []HdsSurvives
<1>1. WireInit => FromSample /\ HdsInv
  BY HdsStart
<1>2. (FromSample /\ HdsInv) /\ [WireNext]_wireVars => (FromSample /\ HdsInv)'
  BY HdsStep
<1>3. FromSample /\ HdsInv => HdsSurvives
  BY HdsKept
<1> QED
  BY <1>1, <1>2, <1>3, PTL DEF WireSpec

-----------------------------------------------------------------------------
(* A sequence that is cut into pieces of the same size.                     *)
\* Where the k-th cut of n bytes is.
At(k, size, n) == Tlv!AtMost(k * size, n)

\* Rounding up counts the multiples of d below n.
LEMMA Quotient ==
  ASSUME NEW n \in Nat, NEW d \in Nat \ {0}
  PROVE  /\ (n + d - 1) \div d \in Nat
         /\ \A j \in Nat : j < (n + d - 1) \div d <=> j * d < n
<1>1. PICK q, r : q = (n + d - 1) \div d /\ r = (n + d - 1) % d
  OBVIOUS
<1>2. q \in Nat /\ r \in Nat /\ r < d /\ n + d - 1 = q * d + r
  <2>1. n + d - 1 \in Nat
    OBVIOUS
  <2>2. \A m \in Nat : \A x, y : x = m \div d /\ y = m % d => x \in Nat /\ y \in Nat /\ y < d /\ m = x * d + y
    OBVIOUS
  <2> QED
    BY <1>1, <2>1, <2>2
<1>3. ASSUME NEW j \in Nat, j < q PROVE j * d < n
  BY <1>2, <1>3
<1>4. ASSUME NEW j \in Nat, ~(j < q) PROVE ~(j * d < n)
  <2>1. q <= j
    BY <1>2, <1>4
  <2>2. q * d <= j * d
    BY <1>2, <2>1
  <2> QED
    BY <1>2, <2>2
<1> QED
  BY <1>1, <1>2, <1>3, <1>4

\* The first k pieces of n bytes, in pieces of d bytes, end at At(k, d, n).
Points(m, d, n) ==
  /\ m \in Nat
  /\ At(0, d, n) = 0 /\ At(m, d, n) = n
  /\ \A k \in 0..m : At(k, d, n) \in 0..n
  /\ \A k \in 0..m : k < m =>
       /\ At(k, d, n) = k * d
       /\ At(k, d, n) < At(k + 1, d, n) /\ At(k + 1, d, n) <= At(k, d, n) + d
       /\ k + 1 < m => At(k + 1, d, n) = At(k, d, n) + d

LEMMA CutPoints ==
  ASSUME NEW n \in Nat, NEW d \in Nat \ {0}, NEW m, m = (n + d - 1) \div d
  PROVE  Points(m, d, n)
<1>1. m \in Nat /\ \A j \in Nat : j < m <=> j * d < n
  BY Quotient
<1>2. At(0, d, n) = 0
  BY DEF At, Tlv!AtMost
<1>3. At(m, d, n) = n
  <2>1. ~(m * d < n)
    BY <1>1
  <2> QED
    BY <1>1, <2>1 DEF At, Tlv!AtMost
<1>4. ASSUME NEW k \in 0..m PROVE At(k, d, n) \in 0..n
  <2>1. k * d \in Nat
    OBVIOUS
  <2> QED
    BY <2>1 DEF At, Tlv!AtMost
<1>5. ASSUME NEW k \in 0..m, k < m
      PROVE  /\ At(k, d, n) = k * d
             /\ At(k, d, n) < At(k + 1, d, n) /\ At(k + 1, d, n) <= At(k, d, n) + d
             /\ k + 1 < m => At(k + 1, d, n) = At(k, d, n) + d
  <2>1. k * d \in Nat /\ (k + 1) * d = k * d + d /\ k * d < n /\ (k + 1 < m => (k + 1) * d < n)
    BY <1>1, <1>5
  <2> QED
    BY <2>1 DEF At, Tlv!AtMost
<1> QED
  BY <1>1, <1>2, <1>3, <1>4, <1>5, Zenon DEF Points

\* Two adjoining pieces of a sequence.
LEMMA Adjoin ==
  ASSUME NEW X, NEW s \in Seq(X), NEW b \in 0..Len(s), NEW a \in 0..b
  PROVE  /\ SubSeq(s, a + 1, b) \in Seq(X) /\ Len(SubSeq(s, a + 1, b)) = b - a
         /\ Taken(s, a) \in Seq(X)
         /\ Taken(s, a) \o SubSeq(s, a + 1, b) = Taken(s, b)
<1> DEFINE t == Taken(s, a)
           p == SubSeq(s, a + 1, b)
           u == Taken(s, b)
<1>1. Len(s) \in Nat /\ a \in Nat /\ b \in Nat /\ a <= b /\ b <= Len(s)
  OBVIOUS
<1>2. t \in Seq(X) /\ Len(t) = a /\ \A i \in 1..a : t[i] = s[i]
  BY <1>1 DEF Taken
<1>3. p \in Seq(X) /\ Len(p) = b - a /\ \A i \in 1..b - a : p[i] = s[a + i]
  BY <1>1
<1>4. u \in Seq(X) /\ Len(u) = b /\ \A i \in 1..b : u[i] = s[i]
  BY <1>1 DEF Taken
<1> HIDE DEF t, p, u
<1>5. /\ t \o p \in Seq(X) /\ Len(t \o p) = b
      /\ \A i \in 1..b : (t \o p)[i] = IF i <= a THEN t[i] ELSE p[i - a]
  <2>1. t \in Seq(X) /\ Len(t) = a /\ p \in Seq(X) /\ Len(p) = b - a
    BY <1>2, <1>3, Zenon
  <2>2. t \o p \in Seq(X) /\ Len(t \o p) = Len(t) + Len(p)
    BY <2>1, ConcatProperties, Zenon
  <2>3. \A i \in 1..Len(t) + Len(p) : (t \o p)[i] = IF i <= Len(t) THEN t[i] ELSE p[i - Len(t)]
    BY <2>1, ConcatProperties, Zenon
  <2>4. Len(t) + Len(p) = b
    BY <1>1, <2>1
  <2> QED
    BY <2>1, <2>2, <2>3, <2>4, Zenon
<1>6. ASSUME NEW i \in 1..b PROVE (t \o p)[i] = u[i]
  <2>1. CASE i <= a
    <3>1. i \in 1..a
      BY <1>1, <2>1
    <3> QED
      BY <1>2, <1>4, <1>5, <2>1, <3>1, Zenon
  <2>2. CASE ~(i <= a)
    <3>1. i - a \in 1..b - a /\ a + (i - a) = i
      BY <1>1, <2>2
    <3>2. p[i - a] = s[a + (i - a)]
      BY <1>3, <3>1, Zenon
    <3>3. (t \o p)[i] = p[i - a]
      BY <1>5, <2>2, Zenon
    <3> QED
      BY <1>4, <3>1, <3>2, <3>3, Zenon
  <2> QED
    BY <2>1, <2>2
<1>7. t \o p = u
  BY <1>4, <1>5, <1>6, SeqEqual
<1> QED
  BY <1>2, <1>3, <1>7 DEF t, p, u

\* The pieces that a sequence is cut into.
LEMMA CutParts ==
  ASSUME NEW X, NEW s \in Seq(X), NEW d \in Nat \ {0}
  PROVE  /\ Parts(X, Tlv!Cut(s, d))
         /\ Len(Tlv!Cut(s, d)) = (Len(s) + d - 1) \div d
         /\ \A k \in 0..Len(Tlv!Cut(s, d)) : k < Len(Tlv!Cut(s, d)) =>
              Tlv!Cut(s, d)[k + 1] = SubSeq(s, At(k, d, Len(s)) + 1, At(k + 1, d, Len(s)))
<1> DEFINE n == Len(s)
           m == (n + d - 1) \div d
           f(i) == SubSeq(s, (i - 1) * d + 1, Tlv!AtMost(i * d, n))
<1>1. n \in Nat
  OBVIOUS
<1>2. /\ m \in Nat
      /\ \A k \in 0..m : At(k, d, n) \in 0..n
      /\ \A k \in 0..m : k < m => At(k, d, n) = k * d /\ At(k, d, n) < At(k + 1, d, n)
  <2>1. Points(m, d, n)
    BY <1>1, CutPoints
  <2> QED
    BY <2>1, Zenon DEF Points
<1>3. Tlv!Cut(s, d) = [i \in 1..m |-> f(i)]
  BY DEF Tlv!Cut
<1> HIDE DEF m, n
<1>4. ASSUME NEW k \in 0..m, k < m
      PROVE  f(k + 1) = SubSeq(s, At(k, d, n) + 1, At(k + 1, d, n)) /\ f(k + 1) \in Seq(X)
  <2>1. At(k, d, n) = k * d /\ At(k, d, n) < At(k + 1, d, n)
    BY <1>2, <1>4, Zenon
  <2>2. (k + 1) - 1 = k /\ k + 1 \in 0..m
    BY <1>2, <1>4
  <2>3. f(k + 1) = SubSeq(s, At(k, d, n) + 1, At(k + 1, d, n))
    BY <2>1, <2>2, Zenon DEF At
  <2>4. At(k, d, n) \in 0..n /\ At(k + 1, d, n) \in 0..n
    BY <1>2, <2>2, Zenon
  <2>5. At(k, d, n) \in 0..At(k + 1, d, n)
    BY <1>1, <2>1, <2>4
  <2>6. SubSeq(s, At(k, d, n) + 1, At(k + 1, d, n)) \in Seq(X)
    BY <2>4, <2>5, Adjoin, Zenon DEF n
  <2> QED
    BY <2>3, <2>6, Zenon
<1> HIDE DEF f
<1>5. \A i \in 1..m : f(i) \in Seq(X)
  <2> TAKE i \in 1..m
  <2>1. PICK k \in 0..m : k < m /\ k + 1 = i
    <3>1. i - 1 \in 0..m /\ i - 1 < m /\ (i - 1) + 1 = i
      BY <1>2
    <3> QED
      BY <3>1
  <2> QED
    BY <1>4, <2>1
<1>6. Parts(X, [i \in 1..m |-> f(i)]) /\ Len([i \in 1..m |-> f(i)]) = m
  BY <1>2, <1>5 DEF Parts
<1>7. ASSUME NEW k \in 0..m, k < m PROVE [i \in 1..m |-> f(i)][k + 1] = f(k + 1)
  BY <1>2, <1>7
<1> QED
  BY <1>3, <1>4, <1>6, <1>7, Zenon DEF m, n

LEMMA InductDown ==
  ASSUME NEW n \in Nat, NEW S, n \in S, \A i \in 0..n - 1 : i + 1 \in S => i \in S
  PROVE  0 \in S
<1> DEFINE T == {i \in 0..n : n - i \in S}
<1>1. 0 \in T
  BY SMT
<1>2. ASSUME NEW i \in 0..n - 1, i \in T PROVE i + 1 \in T
  <2>1. n - (i + 1) \in 0..n - 1 /\ (n - (i + 1)) + 1 = n - i /\ i + 1 \in 0..n
    OBVIOUS
  <2>2. n - i \in S
    BY <1>2
  <2>3. n - (i + 1) \in S
    BY <2>1, <2>2
  <2> QED
    BY <2>1, <2>3
<1>3. n \in T
  <2> HIDE DEF T
  <2>1. \A i \in 0..n : i \in T
    BY <1>1, <1>2, Induct
  <2> QED
    BY <2>1
<1>4. n - n = 0
  OBVIOUS
<1> QED
  BY <1>3, <1>4, Zenon

\* What is put together step by step.
LEMMA Accumulates ==
  ASSUME NEW X, NEW ss, Parts(X, ss), NEW acc \in [0..Len(ss) -> Seq(X)], acc[0] = << >>,
         \A k \in 0..Len(ss) : k < Len(ss) => acc[k + 1] = acc[k] \o ss[k + 1]
  PROVE  FlattenSeq(ss) = acc[Len(ss)]
<1> DEFINE n == Len(ss)
           D == {k \in 0..n : acc[k] \o After(ss, k) = FlattenSeq(ss)}
<1>1. n \in Nat /\ \A i \in 1..n : ss[i] \in Seq(X)
  BY PartsElements
<1>2. \A k \in 0..n : After(ss, k) \in Seq(X)
  BY AfterType
<1>3. 0 \in D
  <2>1. 0 \in 0..n
    BY <1>1
  <2>2. After(ss, 0) \in Seq(X) /\ After(ss, 0) = FlattenSeq(ss)
    BY <1>2, <2>1, AfterNone
  <2>3. << >> \o After(ss, 0) = After(ss, 0)
    BY <2>2, ConcatEmptySeq, Zenon
  <2> QED
    BY <2>1, <2>2, <2>3, Zenon
<1>4. ASSUME NEW k \in 0..n - 1, k \in D PROVE k + 1 \in D
  <2>1. k \in 0..n /\ k + 1 \in 0..n /\ k + 1 \in 1..n /\ k < n
    BY <1>1
  <2>2. acc[k] \o After(ss, k) = FlattenSeq(ss)
    BY <1>4
  <2>3. After(ss, k) = ss[k + 1] \o After(ss, k + 1)
    BY <2>1, AfterStep, Zenon
  <2>4. acc[k + 1] = acc[k] \o ss[k + 1]
    BY <2>1, Zenon
  <2>5. acc[k] \in Seq(X) /\ ss[k + 1] \in Seq(X) /\ After(ss, k + 1) \in Seq(X)
    BY <1>1, <1>2, <2>1, Zenon
  <2>6. \A a, b, c \in Seq(X) : (a \o b) \o c = a \o (b \o c)
    <3>1. Associate(X)
      BY Associative, Zenon
    <3> QED
      BY <3>1, Zenon DEF Associate
  <2>7. acc[k + 1] \o After(ss, k + 1) = FlattenSeq(ss)
    <3>1. (acc[k] \o ss[k + 1]) \o After(ss, k + 1) = acc[k] \o (ss[k + 1] \o After(ss, k + 1))
      BY <2>5, <2>6, Zenon
    <3> QED
      BY <2>2, <2>3, <2>4, <3>1, Zenon
  <2> QED
    BY <2>1, <2>7, Zenon
<1>5. n \in D
  <2>1. n \in Nat
    BY <1>1, Zenon
  <2> HIDE DEF D, n
  <2>2. \A k \in 0..n : k \in D
    BY <1>3, <1>4, <2>1, Induct, Zenon
  <2>3. n \in 0..n
    BY <2>1
  <2> QED
    BY <2>2, <2>3, Zenon
<1>6. acc[n] \o After(ss, n) = FlattenSeq(ss) /\ After(ss, n) = << >>
  BY <1>5, AfterAll
<1>7. acc[n] \in Seq(X)
  BY <1>1
<1>8. acc[n] \o << >> = acc[n]
  BY <1>7, ConcatEmptySeq, Zenon
<1> QED
  BY <1>6, <1>8, Zenon

\* The pieces of a sequence make it up.
LEMMA CutFlatten ==
  ASSUME NEW X, NEW s \in Seq(X), NEW d \in Nat \ {0}
  PROVE  FlattenSeq(Tlv!Cut(s, d)) = s
<1> DEFINE c == Tlv!Cut(s, d)
           m == Len(c)
           n == Len(s)
           acc == [k \in 0..m |-> Taken(s, At(k, d, n))]
<1>1. /\ Parts(X, c) /\ m = (n + d - 1) \div d
      /\ \A k \in 0..m : k < m => c[k + 1] = SubSeq(s, At(k, d, n) + 1, At(k + 1, d, n))
  BY CutParts, Zenon
<1>2. n \in Nat
  OBVIOUS
<1>3. /\ m \in Nat /\ At(0, d, n) = 0 /\ At(m, d, n) = n
      /\ \A k \in 0..m : At(k, d, n) \in 0..n
      /\ \A k \in 0..m : k < m => At(k, d, n) < At(k + 1, d, n)
  <2>1. Points(m, d, n)
    BY <1>1, <1>2, CutPoints
  <2> QED
    BY <2>1, Zenon DEF Points
<1> HIDE DEF c, m, n
<1>4. ASSUME NEW k \in 0..m, k < m
      PROVE  Taken(s, At(k + 1, d, n)) = Taken(s, At(k, d, n)) \o c[k + 1]
  <2>1. k + 1 \in 0..m
    BY <1>3, <1>4
  <2>2. At(k + 1, d, n) \in 0..n /\ At(k, d, n) \in 0..n /\ At(k, d, n) < At(k + 1, d, n)
    BY <1>3, <1>4, <2>1, Zenon
  <2>3. At(k, d, n) \in 0..At(k + 1, d, n)
    BY <1>2, <2>2
  <2> QED
    BY <1>1, <1>4, <2>2, <2>3, Adjoin, Zenon DEF n
<1>5. \A k \in 0..m : Taken(s, At(k, d, n)) \in Seq(X)
  <2> TAKE k \in 0..m
  <2>1. At(k, d, n) \in 0..Len(s)
    BY <1>3, Zenon DEF n
  <2>2. \A a \in 0..Len(s) : SubSeq(s, 1, a) \in Seq(X)
    OBVIOUS
  <2> QED
    BY <2>1, <2>2, Zenon DEF Taken
<1>6. acc \in [0..Len(c) -> Seq(X)]
  BY <1>5, Zenon DEF m
<1>7. acc[0] = << >>
  <2>1. 0 \in 0..m
    BY <1>3
  <2>2. acc[0] = Taken(s, 0)
    BY <1>3, <2>1, Zenon
  <2>3. Taken(s, 0) = << >>
    <3>1. SubSeq(s, 1, 0) = << >>
      OBVIOUS
    <3> QED
      BY <3>1, Zenon DEF Taken
  <2> QED
    BY <2>2, <2>3, Zenon
<1>8. \A k \in 0..Len(c) : k < Len(c) => acc[k + 1] = acc[k] \o c[k + 1]
  <2> SUFFICES ASSUME NEW k \in 0..m, k < m PROVE acc[k + 1] = acc[k] \o c[k + 1]
    BY DEF m
  <2>1. k + 1 \in 0..m
    BY <1>3
  <2> QED
    BY <1>4, <2>1, Zenon
<1>9. acc[m] = s
  <2>1. m \in 0..m
    BY <1>3
  <2>2. acc[m] = Taken(s, n)
    BY <1>3, <2>1, Zenon
  <2>3. Taken(s, n) = s
    BY SubSeqFull, Zenon DEF Taken, n
  <2> QED
    BY <2>2, <2>3, Zenon
<1> HIDE DEF acc
<1>10. FlattenSeq(c) = acc[m]
  BY <1>1, <1>6, <1>7, <1>8, Accumulates, Zenon DEF m
<1> QED
  BY <1>9, <1>10, Zenon DEF c

-----------------------------------------------------------------------------
(* Parts of parts.                                                          *)
\* The end of a sequence that goes on with b.
LEMMA DropTail ==
  ASSUME NEW X, NEW a \in Seq(X), NEW b \in Seq(X), NEW k \in 0..Len(a), k < Len(a)
  PROVE  /\ Drop(a, k) \o b \in Seq(X) /\ Len(Drop(a, k) \o b) # 0
         /\ (Drop(a, k) \o b)[1] = a[k + 1]
         /\ Tail(Drop(a, k) \o b) = Drop(a, k + 1) \o b
<1> DEFINE d == Drop(a, k)
           e == Drop(a, k + 1)
           u == d \o b
           t == Tail(u)
<1>1. Len(a) \in Nat /\ Len(b) \in Nat /\ k \in Nat
  OBVIOUS
<1>2. d \in Seq(X) /\ Len(d) = Len(a) - k /\ \A i \in 1..Len(a) - k : d[i] = a[k + i]
  BY <1>1 DEF Drop
<1>3. e \in Seq(X) /\ Len(e) = Len(a) - k - 1 /\ \A i \in 1..Len(a) - k - 1 : e[i] = a[k + 1 + i]
  BY <1>1 DEF Drop
<1> HIDE DEF d, e
<1>4. /\ u \in Seq(X) /\ Len(u) = Len(d) + Len(b)
      /\ \A i \in 1..Len(d) + Len(b) : u[i] = IF i <= Len(d) THEN d[i] ELSE b[i - Len(d)]
  BY <1>2, ConcatProperties, Zenon
<1> DEFINE w == e \o b
<1>5. /\ w \in Seq(X) /\ Len(w) = Len(e) + Len(b)
      /\ \A i \in 1..Len(e) + Len(b) : w[i] = IF i <= Len(e) THEN e[i] ELSE b[i - Len(e)]
  BY <1>3, ConcatProperties, Zenon
<1> HIDE DEF u, w
<1>6. Len(u) # 0 /\ u # << >> /\ 1 \in 1..Len(d) + Len(b) /\ 1 <= Len(d) /\ 1 \in 1..Len(a) - k
  BY <1>1, <1>2, <1>4
<1>7. u[1] = a[k + 1]
  BY <1>2, <1>4, <1>6, Zenon
<1>8. t \in Seq(X) /\ Len(t) = Len(u) - 1 /\ \A i \in 1..Len(t) : t[i] = u[i + 1]
  BY <1>4, <1>6, HeadTailProperties, Zenon
<1> HIDE DEF t
<1>9. Len(t) = Len(w)
  BY <1>1, <1>2, <1>3, <1>4, <1>5, <1>8
<1>10. ASSUME NEW i \in 1..Len(w) PROVE t[i] = w[i]
  <2>1. i + 1 \in 1..Len(d) + Len(b) /\ i \in 1..Len(e) + Len(b) /\ i \in 1..Len(t)
    BY <1>1, <1>2, <1>3, <1>5, <1>9
  <2>2. t[i] = u[i + 1]
    BY <1>8, <2>1, Zenon
  <2>3. CASE i <= Len(e)
    <3>1. /\ i + 1 <= Len(d) /\ i + 1 \in 1..Len(a) - k /\ i \in 1..Len(a) - k - 1
          /\ k + (i + 1) = k + 1 + i
      BY <1>1, <1>2, <1>3, <2>1, <2>3
    <3>2. u[i + 1] = a[k + (i + 1)]
      BY <1>2, <1>4, <2>1, <3>1, Zenon
    <3>3. w[i] = a[k + 1 + i]
      BY <1>3, <1>5, <2>1, <2>3, <3>1, Zenon
    <3> QED
      BY <2>2, <3>1, <3>2, <3>3, Zenon
  <2>4. CASE ~(i <= Len(e))
    <3>1. ~(i + 1 <= Len(d)) /\ (i + 1) - Len(d) = i - Len(e)
      BY <1>1, <1>2, <1>3, <2>1, <2>4
    <3>2. u[i + 1] = b[(i + 1) - Len(d)]
      BY <1>4, <2>1, <3>1, Zenon
    <3>3. w[i] = b[i - Len(e)]
      BY <1>5, <2>1, <2>4, Zenon
    <3> QED
      BY <2>2, <3>1, <3>2, <3>3, Zenon
  <2> QED
    BY <2>3, <2>4
<1>11. t = w
  BY <1>5, <1>8, <1>9, <1>10, SeqEqual, Zenon
<1> QED
  BY <1>4, <1>6, <1>7, <1>11 DEF u, w, t, d, e

\* Two sequences of parts.
LEMMA FlattenConcat ==
  ASSUME NEW X, NEW a, Parts(X, a), NEW b, Parts(X, b)
  PROVE  Parts(X, a \o b) /\ Makes(FlattenSeq(a), FlattenSeq(b), FlattenSeq(a \o b))
<1> DEFINE n == Len(a)
           D == {k \in 0..n : FlattenSeq(Drop(a, k) \o b) = After(a, k) \o FlattenSeq(b)}
<1>1. n \in Nat /\ \A i \in 1..n : a[i] \in Seq(X)
  BY PartsElements
<1>2. /\ \A k \in 0..n : After(a, k) \in Seq(X) /\ After(a, k) = FlattenSeq(Drop(a, k))
      /\ FlattenSeq(b) \in Seq(X)
  BY AfterType, FlattenType DEF After, Drop
<1>3. n \in D
  <2>1. n \in 0..n
    BY <1>1
  <2>2. After(a, n) = << >> /\ Drop(a, n) = << >>
    <3>1. After(a, n) = << >>
      BY AfterAll, Zenon
    <3>2. SubSeq(a, n + 1, n) = << >>
      <4>1. n + 1 \in Int /\ n \in Int /\ n < n + 1
        BY <1>1
      <4> QED
        BY <4>1, SubSeqEmpty, Zenon
    <3> QED
      BY <3>1, <3>2, Zenon DEF Drop
  <2>3. << >> \o b = b
    BY ConcatEmptySeq, Zenon DEF Parts
  <2>4. << >> \o FlattenSeq(b) = FlattenSeq(b)
    BY <1>2, ConcatEmptySeq, Zenon
  <2> QED
    BY <2>1, <2>2, <2>3, <2>4, Zenon
<1>4. ASSUME NEW k \in 0..n - 1, k + 1 \in D PROVE k \in D
  <2>1. k \in 0..n /\ k + 1 \in 0..n /\ k + 1 \in 1..n /\ k < n
    BY <1>1
  <2> DEFINE u == Drop(a, k) \o b
  <2>2. /\ u \in Seq(Seq(X)) /\ Len(u) # 0 /\ u[1] = a[k + 1]
        /\ Tail(u) = Drop(a, k + 1) \o b
    BY <2>1, DropTail, Zenon DEF Parts
  <2> HIDE DEF u
  <2>3. Parts(X, u)
    BY <2>2, Zenon DEF Parts
  <2>4. FlattenSeq(u) = u[1] \o FlattenSeq(Tail(u))
    BY <2>2, <2>3, FlattenCons, Zenon
  <2>5. FlattenSeq(Drop(a, k + 1) \o b) = After(a, k + 1) \o FlattenSeq(b)
    BY <1>4, Zenon
  <2>6. After(a, k) = a[k + 1] \o After(a, k + 1)
    BY <2>1, AfterStep, Zenon
  <2>7. a[k + 1] \in Seq(X) /\ After(a, k + 1) \in Seq(X) /\ FlattenSeq(b) \in Seq(X)
    BY <1>1, <1>2, <2>1, Zenon
  <2>8. (a[k + 1] \o After(a, k + 1)) \o FlattenSeq(b) = a[k + 1] \o (After(a, k + 1) \o FlattenSeq(b))
    <3>1. \A x, y, z \in Seq(X) : (x \o y) \o z = x \o (y \o z)
      <4>1. Associate(X)
        BY Associative, Zenon
      <4> QED
        BY <4>1, Zenon DEF Associate
    <3> QED
      BY <2>7, <3>1, Zenon
  <2>9. FlattenSeq(u) = After(a, k) \o FlattenSeq(b)
    BY <2>2, <2>4, <2>5, <2>6, <2>8, Zenon
  <2> QED
    BY <2>1, <2>9, Zenon DEF u
<1>5. 0 \in D
  <2> HIDE DEF D
  <2>1. n \in Nat
    BY <1>1, Zenon
  <2> HIDE DEF n
  <2> QED
    BY <1>3, <1>4, <2>1, InductDown
<1>6. Drop(a, 0) = a
  <2>1. SubSeq(a, 1, Len(a)) = a
    BY SubSeqFull, Zenon DEF Parts
  <2>2. 0 + 1 = 1
    OBVIOUS
  <2> QED
    BY <2>1, <2>2, Zenon DEF Drop
<1>7. After(a, 0) = FlattenSeq(a)
  BY AfterNone, Zenon
<1>8. a \o b \in Seq(Seq(X))
  BY ConcatProperties, Zenon DEF Parts
<1> QED
  BY <1>5, <1>6, <1>7, <1>8, Zenon DEF Parts, Makes

\* Parts of parts, put together in two ways.
LEMMA FlattenTwice ==
  ASSUME NEW X, NEW sss, Parts(Seq(X), sss), NEW fs, Parts(X, fs), Len(fs) = Len(sss),
         \A i \in 1..Len(sss) : fs[i] = FlattenSeq(sss[i])
  PROVE  Parts(X, FlattenSeq(sss)) /\ FlattenSeq(FlattenSeq(sss)) = FlattenSeq(fs)
<1> DEFINE n == Len(sss)
           D == {k \in 0..n : FlattenSeq(After(sss, k)) = After(fs, k)}
<1>1. n \in Nat /\ \A i \in 1..n : Parts(X, sss[i])
  BY PartsElements DEF Parts
<1>2. \A k \in 0..n : Parts(X, After(sss, k))
  <2> TAKE k \in 0..n
  <2>1. After(sss, k) \in Seq(Seq(X))
    BY AfterType, Zenon
  <2> QED
    BY <2>1, Zenon DEF Parts
<1>3. n \in D
  <2>1. n \in 0..n
    BY <1>1
  <2>2. After(sss, n) = << >> /\ After(fs, n) = << >>
    BY AfterAll, Zenon
  <2> QED
    BY <2>1, <2>2, FlattenEmpty, Zenon
<1>4. ASSUME NEW k \in 0..n - 1, k + 1 \in D PROVE k \in D
  <2>1. k \in 0..n /\ k + 1 \in 0..n /\ k + 1 \in 1..n /\ k < n
    BY <1>1
  <2>2. After(sss, k) = sss[k + 1] \o After(sss, k + 1)
    BY <2>1, AfterStep, Zenon
  <2>3. After(fs, k) = fs[k + 1] \o After(fs, k + 1)
    BY <2>1, AfterStep, Zenon
  <2>4. FlattenSeq(sss[k + 1] \o After(sss, k + 1))
          = FlattenSeq(sss[k + 1]) \o FlattenSeq(After(sss, k + 1))
    <3>1. Makes(FlattenSeq(sss[k + 1]), FlattenSeq(After(sss, k + 1)),
                FlattenSeq(sss[k + 1] \o After(sss, k + 1)))
      BY <1>1, <1>2, <2>1, FlattenConcat, Zenon
    <3> QED
      BY <3>1, Zenon DEF Makes
  <2>5. FlattenSeq(After(sss, k + 1)) = After(fs, k + 1)
    BY <1>4, Zenon
  <2>6. fs[k + 1] = FlattenSeq(sss[k + 1])
    BY <2>1, Zenon
  <2> QED
    BY <2>1, <2>2, <2>3, <2>4, <2>5, <2>6, Zenon
<1>5. 0 \in D
  <2> HIDE DEF D
  <2>1. n \in Nat
    BY <1>1, Zenon
  <2> HIDE DEF n
  <2> QED
    BY <1>3, <1>4, <2>1, InductDown
<1>6. After(sss, 0) = FlattenSeq(sss) /\ After(fs, 0) = FlattenSeq(fs)
  BY AfterNone, Zenon
<1>7. FlattenSeq(sss) \in Seq(Seq(X))
  BY FlattenType, Zenon
<1> QED
  BY <1>5, <1>6, <1>7, Zenon DEF Parts

-----------------------------------------------------------------------------
(* The requests of HAP connections, in records.                             *)
\* The pieces end where Cut puts their ends.
LEMMA CutAt ==
  ASSUME NEW X, NEW s \in Seq(X), NEW d \in Nat \ {0}
  PROVE  /\ Len(Tlv!Cut(s, d)) \in Nat
         /\ \A k \in 0..Len(Tlv!Cut(s, d)) : At(k, d, Len(s)) \in 0..Len(s)
         /\ \A k \in 0..Len(Tlv!Cut(s, d)) : k < Len(Tlv!Cut(s, d)) =>
              /\ At(k, d, Len(s)) = k * d
              /\ At(k, d, Len(s)) < At(k + 1, d, Len(s)) /\ At(k + 1, d, Len(s)) <= At(k, d, Len(s)) + d
              /\ k + 1 < Len(Tlv!Cut(s, d)) => At(k + 1, d, Len(s)) = At(k, d, Len(s)) + d
<1> DEFINE c == Tlv!Cut(s, d)
           m == Len(c)
           n == Len(s)
<1>1. m = (n + d - 1) \div d
  BY CutParts, Zenon
<1>2. n \in Nat
  OBVIOUS
<1> HIDE DEF c, m, n
<1>3. Points(m, d, n)
  BY <1>1, <1>2, CutPoints
<1> QED
  BY <1>3, Zenon DEF c, m, n, Points

\* The k+1-th piece of a sequence: none is empty, and all but the last are full.
LEMMA CutSizes ==
  ASSUME NEW X, NEW s \in Seq(X), NEW d \in Nat \ {0},
         NEW k \in 0..Len(Tlv!Cut(s, d)), k < Len(Tlv!Cut(s, d))
  PROVE  /\ Tlv!Cut(s, d)[k + 1] \in Seq(X)
         /\ Len(Tlv!Cut(s, d)[k + 1]) \in 1..d
         /\ k + 1 < Len(Tlv!Cut(s, d)) => Len(Tlv!Cut(s, d)[k + 1]) = d
<1> DEFINE c == Tlv!Cut(s, d)
           m == Len(c)
           n == Len(s)
           a == At(k, d, n)
           b == At(k + 1, d, n)
<1>1. c[k + 1] = SubSeq(s, a + 1, b)
  BY CutParts, Zenon
<1>2. n \in Nat
  OBVIOUS
<1>3. /\ m \in Nat
      /\ \A j \in 0..m : At(j, d, n) \in 0..n
      /\ \A j \in 0..m : j < m =>
           /\ At(j, d, n) = j * d
           /\ At(j, d, n) < At(j + 1, d, n) /\ At(j + 1, d, n) <= At(j, d, n) + d
           /\ j + 1 < m => At(j + 1, d, n) = At(j, d, n) + d
  BY CutAt, Zenon
<1>4. k \in 0..m /\ k < m
  OBVIOUS
<1> HIDE DEF c, m, n
<1>5. k + 1 \in 0..m
  BY <1>3, <1>4
<1>6. /\ a \in 0..n /\ b \in 0..n /\ a < b /\ b <= a + d
      /\ k + 1 < m => b = a + d
  BY <1>3, <1>4, <1>5, Zenon
<1> HIDE DEF a, b
<1>7. a \in 0..b
  BY <1>6, <1>2
<1>8. SubSeq(s, a + 1, b) \in Seq(X) /\ Len(SubSeq(s, a + 1, b)) = b - a
  BY <1>6, <1>7, Adjoin, Zenon DEF n
<1>9. b - a \in 1..d /\ (k + 1 < m => b - a = d)
  BY <1>2, <1>6
<1> QED
  BY <1>1, <1>8, <1>9, Zenon DEF c, m

-----------------------------------------------------------------------------
Item == [tag : Byte, value : Seq(Byte)]
\* The parts of a value as they are written.
TagParts(item) == Tlv!Labelled(item.tag, Tlv!Pieces(item.value))

\* The parts of an item on the wire.
LEMMA PartBytes ==
  ASSUME NEW tag \in Byte, NEW p \in Seq(Byte), Len(p) \in Byte
  PROVE  Tlv!Part(tag, p) \in Seq(Byte)
<1>1. <<tag, Len(p)>> \in Seq(Byte)
  OBVIOUS
<1> QED
  BY <1>1, ConcatProperties, Zenon DEF Tlv!Part

\* Each is labelled with the tag of the item; all but the last are full.
LEMMA TagPartsOf ==
  ASSUME NEW item \in Item
  PROVE  /\ Parts(Byte, TagParts(item)) /\ Len(TagParts(item)) = Len(Tlv!Pieces(item.value))
         /\ Len(Tlv!Pieces(item.value)) \in Nat
         /\ \A k \in 0..Len(Tlv!Pieces(item.value)) : k < Len(Tlv!Pieces(item.value)) =>
              /\ TagParts(item)[k + 1] = Tlv!Part(item.tag, Tlv!Pieces(item.value)[k + 1])
              /\ Tlv!Pieces(item.value)[k + 1] \in Seq(Byte)
              /\ Len(Tlv!Pieces(item.value)[k + 1]) \in 1..MaxLen
              /\ Len(Tlv!Pieces(item.value)[k + 1]) \in Byte
              /\ k + 1 < Len(Tlv!Pieces(item.value)) => Len(Tlv!Pieces(item.value)[k + 1]) = MaxLen
<1> DEFINE c == Tlv!Pieces(item.value)
           m == Len(c)
           f(i) == Tlv!Part(item.tag, c[i])
<1>1. MaxLen \in Nat \ {0} /\ 1..MaxLen \subseteq Byte
  BY WireAssumption DEF Byte
<1>2. item.tag \in Byte /\ item.value \in Seq(Byte) /\ c = Tlv!Cut(item.value, MaxLen)
  BY DEF Item, Tlv!Pieces
<1>3. Parts(Byte, c)
  BY <1>1, <1>2, CutParts, Zenon
<1> HIDE DEF c
<1>4. m \in Nat /\ DOMAIN c = 1..m
  BY <1>3 DEF Parts
<1>5. ASSUME NEW k \in 0..m, k < m
      PROVE  /\ c[k + 1] \in Seq(Byte) /\ Len(c[k + 1]) \in 1..MaxLen
             /\ k + 1 < m => Len(c[k + 1]) = MaxLen
  <2>1. k \in 0..Len(Tlv!Cut(item.value, MaxLen)) /\ k < Len(Tlv!Cut(item.value, MaxLen))
    BY <1>2, <1>5
  <2> QED
    BY <1>1, <1>2, <2>1, CutSizes
<1>6. ASSUME NEW k \in 0..m, k < m PROVE f(k + 1) \in Seq(Byte)
  <2>1. Len(c[k + 1]) \in Byte
    BY <1>1, <1>5, <1>6, Zenon
  <2> QED
    BY <1>2, <1>5, <1>6, <2>1, PartBytes, Zenon
<1>7. TagParts(item) = [i \in 1..m |-> f(i)]
  BY <1>4, Zenon DEF TagParts, Tlv!Labelled, c
<1> HIDE DEF f, m
<1>8. \A i \in 1..m : f(i) \in Seq(Byte)
  <2> TAKE i \in 1..m
  <2>1. PICK k \in 0..m : k < m /\ k + 1 = i
    <3>1. i - 1 \in 0..m /\ i - 1 < m /\ (i - 1) + 1 = i
      BY <1>4
    <3> QED
      BY <3>1
  <2> QED
    BY <1>6, <2>1
<1>9. Parts(Byte, [i \in 1..m |-> f(i)]) /\ Len([i \in 1..m |-> f(i)]) = m
  BY <1>4, <1>8 DEF Parts
<1>10. ASSUME NEW k \in 0..m, k < m PROVE [i \in 1..m |-> f(i)][k + 1] = f(k + 1)
  BY <1>4, <1>10
<1>11. \A k \in 0..m : k < m =>
         /\ TagParts(item)[k + 1] = Tlv!Part(item.tag, c[k + 1])
         /\ c[k + 1] \in Seq(Byte) /\ Len(c[k + 1]) \in 1..MaxLen /\ Len(c[k + 1]) \in Byte
         /\ k + 1 < m => Len(c[k + 1]) = MaxLen
  BY <1>1, <1>5, <1>7, <1>10, Zenon DEF f
<1> QED
  BY <1>4, <1>7, <1>9, <1>11, Zenon DEF c, m

\* Tlv has a FlattenSeq of its own, which is the same.
LEMMA SameFlatten == \A ss : Tlv!FlattenSeq(ss) = FlattenSeq(ss)
BY Zenon DEF Tlv!FlattenSeq, FlattenSeq

\* An item is written part by part (Writer::bytes).
LEMMA BytesOf ==
  ASSUME NEW item, item.value # << >>
  PROVE  Tlv!Bytes(item) = FlattenSeq(TagParts(item))
<1>1. Tlv!Bytes(item) = Tlv!FlattenSeq(TagParts(item))
  BY Zenon DEF Tlv!Bytes, TagParts
<1> QED
  BY <1>1, SameFlatten, Zenon

LEMMA ItemBytes ==
  ASSUME NEW item \in Item
  PROVE  Tlv!Bytes(item) \in Seq(Byte)
<1>1. CASE item.value = << >>
  BY <1>1 DEF Tlv!Bytes, Item, Byte
<1>2. CASE item.value # << >>
  <2>1. Tlv!Bytes(item) = FlattenSeq(TagParts(item))
    BY <1>2, BytesOf, Zenon
  <2> QED
    BY <2>1, TagPartsOf, FlattenType, Zenon
<1> QED
  BY <1>1, <1>2

LEMMA ElementsIn ==
  ASSUME NEW X, NEW s \in Seq(X), NEW Y, \A i \in 1..Len(s) : s[i] \in Y
  PROVE  s \in Seq(Y)
OBVIOUS

\* What encode and Writer make are bytes.
LEMMA BodyBytes ==
  ASSUME NEW kind \in {"tlv", "tlv8"}, NEW items \in Seq(Item)
  PROVE  Body(kind, items) \in Seq(Byte)
<1>1. Len(items) \in Nat /\ DOMAIN items = 1..Len(items) /\ \A i \in 1..Len(items) : items[i] \in Item
  OBVIOUS
<1>2. \A i \in 1..Len(items) : Tlv!Bytes(items[i]) \in Seq(Byte)
  BY <1>1, ItemBytes, Zenon
<1>3. Tlv!Delimiter \in Seq(Byte)
  BY DEF Tlv!Delimiter, Byte
<1>4. \A i \in 1..Len(items) : Tlv!Delimiter \o Tlv!Bytes(items[i]) \in Seq(Byte)
  BY <1>2, <1>3, ConcatProperties, Zenon
<1>5. ASSUME NEW f, \A i \in 1..Len(items) : f[i] \in Seq(Byte), f = [i \in 1..Len(items) |-> f[i]]
      PROVE  FlattenSeq(f) \in Seq(Byte)
  <2>1. f \in Seq(Seq(Byte))
    BY <1>1, <1>5
  <2> QED
    BY <2>1, FlattenType, Zenon DEF Parts
<1>6. CASE kind = "tlv"
  <2> DEFINE f == [i \in DOMAIN items |-> Tlv!Bytes(items[i])]
  <2>1. f = [i \in 1..Len(items) |-> Tlv!Bytes(items[i])]
    BY <1>1, Zenon
  <2>2. \A i \in 1..Len(items) : f[i] = Tlv!Bytes(items[i])
    BY <2>1, Zenon
  <2>3. f = [i \in 1..Len(items) |-> f[i]]
    BY <2>1
  <2>4. Body(kind, items) = Tlv!FlattenSeq(f)
    BY <1>6, Zenon DEF Body, Tlv!Encode
  <2> HIDE DEF f
  <2>5. FlattenSeq(f) \in Seq(Byte)
    BY <1>2, <1>5, <2>2, <2>3, Zenon
  <2> QED
    BY <2>4, <2>5, SameFlatten, Zenon
<1>7. CASE kind # "tlv"
  <2> DEFINE b(i) == IF i > 1 /\ items[i].tag = items[i - 1].tag
                       THEN Tlv!Delimiter \o Tlv!Bytes(items[i]) ELSE Tlv!Bytes(items[i])
             f == [i \in DOMAIN items |-> b(i)]
  <2>0. \A i \in 1..Len(items) : b(i) \in Seq(Byte)
    BY <1>2, <1>4, Zenon
  <2>4. Body(kind, items) = Tlv!FlattenSeq(f)
    BY <1>7, Zenon DEF Body, Tlv!Build
  <2> HIDE DEF b
  <2>1. f = [i \in 1..Len(items) |-> b(i)]
    BY <1>1, Zenon
  <2>2. \A i \in 1..Len(items) : f[i] = b(i)
    BY <2>1, Zenon
  <2>3. f = [i \in 1..Len(items) |-> f[i]]
    BY <2>1
  <2> HIDE DEF f
  <2>5. FlattenSeq(f) \in Seq(Byte)
    BY <2>0, <1>5, <2>2, <2>3, Zenon
  <2> QED
    BY <2>4, <2>5, SameFlatten, Zenon
<1> QED
  BY <1>6, <1>7

LEMMA ItemsSent ==
  ASSUME FromSample, format \in {"tlv", "tlv8"}, NEW i \in 1..Len(sent)
  PROVE  sent[i] \in Seq(Item)
<1>1. Sendable(format, sent[i])
  BY SampleSent
<1>2. CASE format = "tlv"
  BY <1>1, <1>2 DEF Sendable, Item
<1>3. CASE format = "tlv8"
  <2>1. sent[i] \in Seq([tag : Byte \ {0}, value : Seq(Byte)])
    BY <1>1, <1>3 DEF Sendable
  <2>2. [tag : Byte \ {0}, value : Seq(Byte)] \subseteq Item
    BY DEF Item
  <2> QED
    BY <2>1, <2>2, SeqMonotonic
<1> QED
  BY <1>2, <1>3

\* The requests of a connection, and the records they are sent in.
Requests == Bodies(format, sent)
Sent == AllChunks(Requests)
Chunk == {c \in Seq(Byte) : Len(c) \in 1..RecordMax}

LEMMA RequestsParts ==
  ASSUME FromSample, format \in {"tlv", "tlv8"}
  PROVE  /\ Parts(Byte, Requests) /\ Len(Requests) = Len(sent)
         /\ Len(sent) \in Nat
         /\ \A i \in 1..Len(sent) : Requests[i] = Body(format, sent[i])
<1> DEFINE n == Len(sent)
           f(i) == Body(format, sent[i])
<1>1. n \in Nat /\ DOMAIN sent = 1..n
  BY SampleSent
<1>2. ASSUME NEW i \in 1..n PROVE f(i) \in Seq(Byte)
  BY ItemsSent, BodyBytes, Zenon
<1>3. Requests = [i \in 1..n |-> f(i)]
  BY <1>1, Zenon DEF Requests, Bodies
<1> HIDE DEF n, f
<1>4. [i \in 1..n |-> f(i)] \in Seq(Seq(Byte)) /\ Len([i \in 1..n |-> f(i)]) = n
  BY <1>1, <1>2
<1>5. \A i \in 1..n : [j \in 1..n |-> f(j)][i] = f(i)
  BY Zenon
<1> QED
  BY <1>1, <1>3, <1>4, <1>5, Zenon DEF n, f, Parts

LEMMA ChunksOf ==
  ASSUME NEW s \in Seq(Byte)
  PROVE  Chunks(s) \in Seq(Chunk) /\ FlattenSeq(Chunks(s)) = s
<1>1. RecordMax \in Nat \ {0}
  BY WireAssumption
<1> DEFINE c == Tlv!Cut(s, RecordMax)
<1>2. FlattenSeq(c) = s
  BY <1>1, CutFlatten, Zenon
<1>3. Parts(Byte, c)
  BY <1>1, CutParts, Zenon
<1>4. ASSUME NEW k \in 0..Len(c), k < Len(c) PROVE c[k + 1] \in Chunk
  <2>1. c[k + 1] \in Seq(Byte) /\ Len(c[k + 1]) \in 1..RecordMax
    BY <1>1, <1>4, CutSizes, Zenon
  <2> QED
    BY <2>1, Zenon DEF Chunk
<1> HIDE DEF c
<1>5. c \in Seq(Seq(Byte)) /\ Len(c) \in Nat
  BY <1>3, PartsElements, Zenon DEF Parts
<1>6. \A i \in 1..Len(c) : c[i] \in Chunk
  <2> TAKE i \in 1..Len(c)
  <2>1. PICK k \in 0..Len(c) : k < Len(c) /\ k + 1 = i
    <3>1. i - 1 \in 0..Len(c) /\ i - 1 < Len(c) /\ (i - 1) + 1 = i
      BY <1>5
    <3> QED
      BY <3>1
  <2> QED
    BY <1>4, <2>1
<1>7. c \in Seq(Chunk)
  BY <1>5, <1>6, ElementsIn, Zenon
<1> QED
  BY <1>2, <1>7, Zenon DEF c, Chunks

\* The chunks of all requests are as much as the requests.
LEMMA SentParts ==
  ASSUME FromSample, format \in {"tlv", "tlv8"}
  PROVE  /\ Parts(Byte, Sent) /\ FlattenSeq(Sent) = FlattenSeq(Requests)
         /\ Len(Sent) \in Nat /\ DOMAIN Sent = 1..Len(Sent)
         /\ \A i \in 1..Len(Sent) : Sent[i] \in Chunk
<1> DEFINE n == Len(sent)
           f(i) == Chunks(Requests[i])
           sss == [i \in 1..n |-> f(i)]
<1>1. /\ Parts(Byte, Requests) /\ Len(Requests) = n /\ n \in Nat
  BY RequestsParts, Zenon
<1>2. DOMAIN Requests = 1..n /\ \A i \in 1..n : Requests[i] \in Seq(Byte)
  BY <1>1, PartsElements DEF Parts
<1>3. \A i \in 1..n : f(i) \in Seq(Chunk) /\ FlattenSeq(f(i)) = Requests[i]
  BY <1>2, ChunksOf, Zenon
<1>4. Sent = FlattenSeq(sss)
  BY <1>2, Zenon DEF Sent, AllChunks
<1>5. Chunk \subseteq Seq(Byte) /\ Seq(Chunk) \subseteq Seq(Seq(Byte))
  <2>1. Chunk \subseteq Seq(Byte)
    BY Zenon DEF Chunk
  <2> QED
    BY <2>1, SeqMonotonic
<1> HIDE DEF n, f
<1>6. Parts(Chunk, sss) /\ Len(sss) = n /\ \A i \in 1..n : sss[i] = f(i)
  BY <1>1, <1>3 DEF Parts
<1>7. Parts(Seq(Byte), sss)
  <2>1. \A i \in 1..n : f(i) \in Seq(Seq(Byte))
    BY <1>3, <1>5, Zenon
  <2> HIDE DEF sss
  <2>2. sss \in Seq(Seq(Chunk))
    BY <1>6, Zenon DEF Parts
  <2>3. Seq(Seq(Chunk)) \subseteq Seq(Seq(Seq(Byte)))
    BY <1>5, SeqMonotonic
  <2> QED
    BY <2>2, <2>3, Zenon DEF Parts
<1> HIDE DEF sss
<1>8. \A i \in 1..Len(sss) : Requests[i] = FlattenSeq(sss[i])
  BY <1>3, <1>6, Zenon
<1>9. Parts(Byte, FlattenSeq(sss)) /\ FlattenSeq(FlattenSeq(sss)) = FlattenSeq(Requests)
  <2>1. Len(Requests) = Len(sss)
    BY <1>1, <1>6, Zenon
  <2> QED
    BY <1>1, <1>7, <1>8, <2>1, FlattenTwice
<1>10. Sent \in Seq(Chunk)
  BY <1>4, <1>6, FlattenType, Zenon
<1>11. Len(Sent) \in Nat /\ DOMAIN Sent = 1..Len(Sent) /\ \A i \in 1..Len(Sent) : Sent[i] \in Chunk
  BY <1>10
<1> QED
  BY <1>4, <1>9, <1>11, Zenon

\* The two bytes before a record.
LEMMA Two ==
  ASSUME NEW q \in Nat, NEW r \in Nat
  PROVE  /\ PlainAll(<<r, q>>) \in Seq(Cell) /\ Len(PlainAll(<<r, q>>)) = 2
         /\ PlainAll(<<r, q>>)[1].byte = r /\ PlainAll(<<r, q>>)[2].byte = q
<1> DEFINE bytes == <<r, q>>
<1>1. bytes \in Seq(Nat) /\ Len(bytes) = 2
  OBVIOUS
<1>2. bytes[1] = r /\ bytes[2] = q
  OBVIOUS
<1> HIDE DEF bytes
<1>3. PlainAll(bytes) \in Seq(Cell) /\ Len(PlainAll(bytes)) = 2 /\ \A i \in 1..2 : PlainAll(bytes)[i] = Plain(bytes[i])
  BY <1>1, PlainCells
<1>4. \A b : Plain(b).byte = b
  BY DEF Plain
<1>5. 1 \in 1..2 /\ 2 \in 1..2
  OBVIOUS
<1>6. PlainAll(bytes)[1].byte = r /\ PlainAll(bytes)[2].byte = q
  BY <1>2, <1>3, <1>4, <1>5, Zenon
<1> QED
  BY <1>3, <1>6, Zenon DEF bytes

\* A record is as long as its length bytes say (decrypt_buffered_record).
LEMMA RecordCells ==
  ASSUME NEW n \in Nat, NEW chunk \in Seq(Nat)
  PROVE  /\ Record(n, chunk) \in Seq(Cell)
         /\ Len(Record(n, chunk)) = 2 + Len(chunk) + TagLen
         /\ RecordLength(Record(n, chunk)) = Len(Record(n, chunk))
         /\ SubSeq(Record(n, chunk), 3, Len(Record(n, chunk))) = Sealed(n, chunk)
<1>1. Len(chunk) \in Nat /\ TagLen \in Nat
  BY WireAssumption
<1> DEFINE q == High(Len(chunk))
           r == Low(Len(chunk))
<1>2. q \in Nat /\ r \in Nat /\ Len(chunk) = q * 256 + r
  BY <1>1, Divided
<1> DEFINE h == PlainAll(<<r, q>>)
           s == Sealed(n, chunk)
           f == Record(n, chunk)
<1>3. /\ h \in Seq(Cell) /\ Len(h) = 2
      /\ h[1].byte = r /\ h[2].byte = q
  <2> HIDE DEF q, r
  <2> QED
    BY <1>2, Two
<1>4. s \in Seq(Cell) /\ Len(s) = Len(chunk) + TagLen
  BY SealedCells
<1>5. f = h \o s
  BY Zenon DEF Record
<1> HIDE DEF q, r, h, s, f
<1>6. /\ f \in Seq(Cell) /\ Len(f) = Len(h) + Len(s)
      /\ \A i \in 1..Len(h) : f[i] = h[i]
      /\ SubSeq(f, Len(h) + 1, Len(f)) = s
  BY <1>3, <1>4, <1>5, SecondPart
<1>7. Len(f) = 2 + Len(chunk) + TagLen /\ SubSeq(f, 3, Len(f)) = s
  BY <1>1, <1>3, <1>4, <1>6
<1>8. f[1] = h[1] /\ f[2] = h[2]
  <2>1. 1 \in 1..Len(h) /\ 2 \in 1..Len(h)
    BY <1>3
  <2> QED
    BY <1>6, <2>1, Zenon
<1> DEFINE sum == 2 + r + q * 256 + TagLen
<1>9. RecordLength(f) = sum
  BY <1>3, <1>8 DEF RecordLength
<1>10. sum = 2 + Len(chunk) + TagLen
  BY <1>1, <1>2
<1> HIDE DEF sum
<1>11. RecordLength(f) = Len(f)
  BY <1>7, <1>9, <1>10
<1> QED
  BY <1>6, <1>7, <1>11 DEF s, f

LEMMA RecordsAfter ==
  ASSUME FromSample, format \in {"tlv", "tlv8"}, NEW k \in 0..Len(Sent)
  PROVE  /\ Parts(Cell, Records(Sent))
         /\ After(Records(Sent), k) \in Seq(Cell)
         /\ k = Len(Sent) => After(Records(Sent), k) = << >>
         /\ k < Len(Sent) =>
              After(Records(Sent), k) = Record(k + 1, Sent[k + 1]) \o After(Records(Sent), k + 1)
<1> DEFINE n == Len(Sent)
           f(i) == Record(i, Sent[i])
           rs == Records(Sent)
<1>1. n \in Nat /\ DOMAIN Sent = 1..n /\ \A i \in 1..n : Sent[i] \in Seq(Byte)
  BY SentParts DEF Chunk
<1>2. ASSUME NEW i \in 1..n PROVE f(i) \in Seq(Cell)
  <2>1. Sent[i] \in Seq(Nat)
    BY <1>1, ByteNumbers, Zenon
  <2>2. i \in Nat
    BY <1>1
  <2> QED
    BY <2>1, <2>2, RecordCells, Zenon
<1>3. rs = [i \in 1..n |-> f(i)]
  BY <1>1, Zenon DEF Records
<1>4. Parts(Cell, [i \in 1..n |-> f(i)]) /\ Len([i \in 1..n |-> f(i)]) = n /\ \A i \in 1..n : [j \in 1..n |-> f(j)][i] = f(i)
  <2> HIDE DEF n, f
  <2> QED
    BY <1>1, <1>2 DEF Parts
<1>5. Parts(Cell, rs) /\ Len(rs) = n /\ \A i \in 1..n : rs[i] = f(i)
  BY <1>3, <1>4, Zenon
<1>6. k \in 0..Len(rs)
  BY <1>5, Zenon
<1> HIDE DEF rs
<1>7. After(rs, k) \in Seq(Cell)
  BY <1>5, <1>6, AfterType, Zenon
<1>8. k = n => After(rs, k) = << >>
  BY <1>5, AfterAll, Zenon
<1>9. ASSUME k < n PROVE After(rs, k) = f(k + 1) \o After(rs, k + 1)
  <2>1. k < Len(rs)
    BY <1>5, <1>9, Zenon
  <2>2. After(rs, k) = rs[k + 1] \o After(rs, k + 1)
    BY <1>5, <1>6, <2>1, AfterStep, Zenon
  <2>3. k + 1 \in 1..n
    BY <1>1, <1>9
  <2> QED
    BY <1>5, <2>2, <2>3, Zenon
<1> QED
  BY <1>5, <1>7, <1>8, <1>9, Zenon DEF rs

LEMMA SameRecordLength ==
  ASSUME NEW b, NEW c, b[1] = c[1], b[2] = c[2]
  PROVE  RecordLength(b) = RecordLength(c)
BY DEF RecordLength

\* What is in the buffer of a connection: the beginning of the next record.
LEMMA NextRecord ==
  ASSUME FromSample, format \in {"tlv", "tlv8"}, NEW k \in 0..Len(Sent),
         buf \in Seq(Cell), wire \in Seq(Cell), buf \o wire = After(Records(Sent), k),
         Len(buf) >= 2 \/ (wire = << >> /\ k # Len(Sent))
  PROVE  /\ k < Len(Sent)
         /\ Len(buf) >= 2
         /\ ~RecordTooLong(buf)
         /\ wire = << >> => Len(buf) >= RecordLength(buf)
         /\ Len(buf) >= RecordLength(buf) =>
              /\ SubSeq(buf, 3, RecordLength(buf)) = Sealed(k + 1, Sent[k + 1])
              /\ Drop(buf, RecordLength(buf)) \in Seq(Cell)
              /\ Drop(buf, RecordLength(buf)) \o wire = After(Records(Sent), k + 1)
<1>0. Len(Sent) \in Nat
  BY SentParts, Zenon
<1>1. Len(Sent) \in Nat /\ k \in Nat
  BY <1>0
<1>2. Len(buf) \in Nat /\ Len(wire) \in Nat
  BY LenProperties
<1> DEFINE p == Sent[k + 1]
           f == Record(k + 1, p)
           r == After(Records(Sent), k + 1)
           n == Len(f)
<1>3. k < Len(Sent)
  <2> SUFFICES ASSUME k = Len(Sent) PROVE FALSE
    BY <1>1
  <2>1. buf \o wire = << >>
    BY RecordsAfter
  <2>2. Len(buf) = 0
    BY <2>1
  <2> QED
    BY <2>2
<1>4. buf \o wire = f \o r
  BY <1>3, RecordsAfter
<1>5. k + 1 \in 0..Len(Sent) /\ k + 1 \in 1..Len(Sent) /\ k + 1 \in Nat
  BY <1>1, <1>3
<1>6. r \in Seq(Cell)
  BY <1>5, RecordsAfter
<1>7. p \in Seq(Nat) /\ Len(p) \in 1..RecordMax
  <2>1. p \in Seq(Byte) /\ Len(p) \in 1..RecordMax
    BY <1>5, SentParts DEF Chunk
  <2> QED
    BY <2>1, ByteNumbers
<1> HIDE DEF r, p
<1>8. /\ f \in Seq(Cell) /\ n = 2 + Len(p) + TagLen
      /\ RecordLength(f) = n /\ SubSeq(f, 3, n) = Sealed(k + 1, p)
  BY <1>5, <1>7, RecordCells
<1>9. Len(p) \in Nat /\ TagLen \in Nat /\ RecordMax \in Nat
  BY <1>7, WireAssumption, LenProperties
<1>10. n \in Nat /\ n >= 3 /\ n <= 2 + RecordMax + TagLen
  BY <1>7, <1>8, <1>9
<1> HIDE DEF f
<1>11. /\ Len(buf) + Len(wire) = n + Len(r)
       /\ \A i \in 1..Len(buf) : i <= n => buf[i] = f[i]
  BY <1>4, <1>6, <1>8, CutLength, Zenon
<1> HIDE DEF n
<1>12. wire = << >> => Len(buf) >= n
  <2>1. Len(r) \in Nat
    BY <1>6, LenProperties
  <2>2. wire = << >> => Len(wire) = 0
    OBVIOUS
  <2> QED
    BY <1>2, <1>10, <1>11, <2>1, <2>2
<1>13. Len(buf) >= 2
  BY <1>2, <1>3, <1>10, <1>12
<1>14. buf[1] = f[1] /\ buf[2] = f[2]
  <2>1. /\ 1 \in 1..Len(buf) /\ 2 \in 1..Len(buf)
        /\ 1 <= n /\ 2 <= n
    BY <1>2, <1>10, <1>13
  <2> QED
    BY <1>11, <2>1, Zenon
<1>15. RecordLength(buf) = n
  BY <1>8, <1>14, SameRecordLength, Zenon
<1>16. ~RecordTooLong(buf)
  BY <1>9, <1>10, <1>15 DEF RecordTooLong
<1>17. ASSUME Len(buf) >= n
       PROVE  /\ SubSeq(buf, 3, n) = Sealed(k + 1, p)
              /\ Drop(buf, n) \in Seq(Cell)
              /\ Drop(buf, n) \o wire = r
  <2>1. n = Len(f) /\ n <= Len(buf)
    BY <1>2, <1>10, <1>17 DEF n
  <2>2. Covers(buf, f)
    BY <2>1 DEF Covers
  <2>3. Drop(buf, n) \in Seq(Cell) /\ Drop(buf, n) \o wire = r
    <3>1. f \in Seq(Cell)
      BY <1>8, Zenon
    <3>2. Drop(buf, Len(f)) \in Seq(Cell) /\ Makes(Drop(buf, Len(f)), wire, r)
      BY <1>4, <1>6, <2>2, <3>1, CutFirst, Zenon
    <3> QED
      BY <2>1, <3>2, Zenon DEF Makes
  <2>4. SubSeq(buf, 3, n) = SubSeq(f, 3, n)
    <3>1. 3 \in 1..Len(f)
      BY <1>10, <2>1
    <3>2. EndsAlike(buf, f, 3)
      BY <1>4, <1>6, <1>8, <2>2, <3>1, CutTail, Zenon
    <3> QED
      BY <2>1, <3>2, Zenon DEF EndsAlike
  <2> QED
    BY <1>8, <2>3, <2>4, Zenon
<1>18. /\ wire = << >> => Len(buf) >= RecordLength(buf)
       /\ Len(buf) >= RecordLength(buf) =>
              /\ SubSeq(buf, 3, RecordLength(buf)) = Sealed(k + 1, p)
              /\ Drop(buf, RecordLength(buf)) \in Seq(Cell)
              /\ Drop(buf, RecordLength(buf)) \o wire = r
       /\ ~RecordTooLong(buf)
  BY <1>10, <1>12, <1>15, <1>16, <1>17, Zenon
<1> QED
  BY <1>3, <1>13, <1>18 DEF p, r

-----------------------------------------------------------------------------
(* The records are decrypted one after the other, the requests read from them.*)
\* The i-th request as it is decoded.
AsRead(i) == IF format = "tlv" THEN Tlv!Decode(Body(format, sent[i])) ELSE Tlv!Parse(Body(format, sent[i]))

\* n requests have been read; what is left of the others is in plain, in records,
\* or on the way.
ReadSoFar(n) ==
  /\ got = [i \in 1..n |-> AsRead(i)]
  /\ plain \o After(Sent, counter) = After(Requests, n)
  /\ state = "closed" => n = Len(sent)

RecordsInv ==
  format \in {"tlv", "tlv8"} =>
    /\ buf \in Seq(Cell) /\ wire \in Seq(Cell) /\ plain \in Seq(Byte)
    /\ counter \in 0..Len(Sent)
    /\ buf \o wire = After(Records(Sent), counter)
    /\ \E n \in 0..Len(sent) : ReadSoFar(n)
    /\ state \in {"open", "closed"}

\* A connection of HAP has no frames and no lines.
LEMMA RecordsOnly ==
  ASSUME format \in {"tlv", "tlv8"}
  PROVE  ~FrameComplete /\ Newlines = {} /\ ~ReadFrame /\ ~ReadLine
BY DEF FrameComplete, Newlines, ReadFrame, ReadLine

\* The invariant of a connection with records: at first, and as cells arrive.
LEMMA RecordsStart ==
  ASSUME WireInit
  PROVE  FromSample /\ RecordsInv
<1>1. PICK sample \in Samples, peer \in BOOLEAN :
         format = sample.format /\ sent = sample.messages /\ wire = WireOf(format, sent, peer)
  BY DEF WireInit
<1>2. FromSample
  BY <1>1 DEF FromSample
<1>3. ASSUME format \in {"tlv", "tlv8"} PROVE RecordsInv
  <2>1. /\ Parts(Byte, Sent) /\ FlattenSeq(Sent) = FlattenSeq(Requests) /\ Len(Sent) \in Nat
        /\ Parts(Byte, Requests) /\ Len(sent) \in Nat
    BY <1>2, <1>3, SentParts, RequestsParts, Zenon
  <2>2. 0 \in 0..Len(Sent) /\ 0 \in 0..Len(sent)
    BY <2>1
  <2>3. Parts(Cell, Records(Sent))
    BY <1>2, <1>3, <2>2, RecordsAfter, Zenon
  <2>4. wire = FlattenSeq(Records(Sent))
    BY <1>1, <1>3 DEF WireOf, Sent, Requests
  <2>5. wire = After(Records(Sent), 0) /\ wire \in Seq(Cell)
    BY <2>3, <2>4, AfterNone, FlattenType, Zenon
  <2>6. After(Sent, 0) = After(Requests, 0) /\ After(Sent, 0) \in Seq(Byte)
    BY <2>1, <2>2, AfterNone, AfterType, Zenon
  <2>7. << >> \o wire = wire /\ << >> \o After(Sent, 0) = After(Sent, 0)
    BY <2>5, <2>6, ConcatEmptySeq, Zenon
  <2>8. buf = << >> /\ counter = 0 /\ got = << >> /\ state = "open" /\ plain = << >>
    BY DEF WireInit
  <2>9. << >> = [i \in 1..0 |-> AsRead(i)] /\ << >> \in Seq(Cell) /\ << >> \in Seq(Byte)
    OBVIOUS
  <2>10. state # "closed"
    BY <2>8
  <2>11. ReadSoFar(0)
    BY <2>6, <2>7, <2>8, <2>9, <2>10, Zenon DEF ReadSoFar
  <2> QED
    BY <2>2, <2>5, <2>7, <2>8, <2>9, <2>11, Zenon DEF RecordsInv
<1>4. format \notin {"tlv", "tlv8"} => RecordsInv
  BY Zenon DEF RecordsInv
<1> QED
  BY <1>2, <1>3, <1>4, Zenon

\* What follows from format and sent follows again in the next state.
LEMMA SameRequests ==
  ASSUME format' = format, sent' = sent
  PROVE  Sent' = Sent /\ Requests' = Requests /\ \A i : AsRead(i)' = AsRead(i)
BY Zenon DEF Sent, Requests, AsRead

LEMMA RecordsArrive ==
  ASSUME RecordsInv, format \in {"tlv", "tlv8"}, NEW n \in Cuts, Arrive(n)
  PROVE  RecordsInv'
<1>1. buf \in Seq(Cell) /\ wire \in Seq(Cell)
  BY DEF RecordsInv
<1>2. n <= Len(wire) /\ buf' = buf \o Taken(wire, n) /\ wire' = Drop(wire, n)
  BY DEF Arrive, Taken
<1>3. n \in 0..Len(wire)
  BY <1>1, <1>2, CutsAssumption, LenProperties
<1>4. buf' \in Seq(Cell) /\ wire' \in Seq(Cell) /\ buf' \o wire' = buf \o wire
  BY <1>1, <1>2, <1>3, Shift
<1>5. /\ format' = format /\ sent' = sent /\ counter' = counter /\ got' = got /\ state' = state
      /\ plain' = plain
  BY DEF Arrive
<1>6. Sent' = Sent /\ Requests' = Requests /\ \A i : AsRead(i)' = AsRead(i)
  BY <1>5, SameRequests, Zenon
<1>7. PICK k \in 0..Len(sent) : ReadSoFar(k)
  BY Zenon DEF RecordsInv
<1>8. ReadSoFar(k)'
  <2>1. [i \in 1..k |-> AsRead(i)'] = [i \in 1..k |-> AsRead(i)]
    BY <1>6
  <2> QED
    BY <1>5, <1>6, <1>7, <2>1, Zenon DEF ReadSoFar
<1>9. /\ buf \o wire = After(Records(Sent), counter) /\ counter \in 0..Len(Sent)
      /\ plain \in Seq(Byte) /\ state \in {"open", "closed"}
  BY Zenon DEF RecordsInv
<1>10. /\ buf' \o wire' = After(Records(Sent'), counter') /\ counter' \in 0..Len(Sent')
       /\ plain' \in Seq(Byte) /\ state' \in {"open", "closed"} /\ k \in 0..Len(sent')
  BY <1>4, <1>5, <1>6, <1>7, <1>9, Zenon
<1> QED
  BY <1>4, <1>8, <1>10, Zenon DEF RecordsInv

\* A record is read: its bytes go from the records to plain.
LEMMA RecordRead ==
  ASSUME FromSample, RecordsInv, format \in {"tlv", "tlv8"}, ReadRecord
  PROVE  RecordsInv'
<1>1. /\ buf \in Seq(Cell) /\ wire \in Seq(Cell) /\ plain \in Seq(Byte)
      /\ counter \in 0..Len(Sent)
      /\ buf \o wire = After(Records(Sent), counter)
      /\ state \in {"open", "closed"}
  BY Zenon DEF RecordsInv
<1>2. PICK n \in 0..Len(sent) : ReadSoFar(n)
  BY Zenon DEF RecordsInv
<1>3. state = "open" /\ Len(buf) >= 2 /\ ~RecordTooLong(buf) /\ Len(buf) >= RecordLength(buf)
  <2>1. state = "open" /\ Len(buf) >= 2 /\ (RecordTooLong(buf) \/ Len(buf) >= RecordLength(buf))
    BY Zenon DEF ReadRecord, RecordComplete
  <2>2. ~RecordTooLong(buf)
    BY <1>1, <2>1, NextRecord, Zenon
  <2> QED
    BY <2>1, <2>2
<1> DEFINE c == Sent[counter + 1]
           length == RecordLength(buf)
           cells == SubSeq(buf, 3, length)
<1>4. /\ counter < Len(Sent)
      /\ cells = Sealed(counter + 1, c)
      /\ Drop(buf, length) \in Seq(Cell)
      /\ Drop(buf, length) \o wire = After(Records(Sent), counter + 1)
  BY <1>1, <1>3, NextRecord
<1>5. Len(Sent) \in Nat /\ Parts(Byte, Sent) /\ \A i \in 1..Len(Sent) : Sent[i] \in Chunk
  BY SentParts, Zenon
<1>6. counter \in Nat /\ counter + 1 \in 1..Len(Sent) /\ counter + 1 \in 0..Len(Sent)
  BY <1>1, <1>4, <1>5
<1>7. c \in Seq(Byte) /\ c # << >>
  BY <1>5, <1>6 DEF Chunk
<1>8. After(Sent, counter) = c \o After(Sent, counter + 1) /\ After(Sent, counter + 1) \in Seq(Byte)
  BY <1>1, <1>4, <1>5, <1>6, AfterStep, AfterType, Zenon
<1> HIDE DEF c
<1>9. Opens(cells, counter) /\ Content(cells) = c
  BY <1>4, <1>6, <1>7, ByteNumbers, SealedOpens
<1> HIDE DEF length, cells
<1>10. Update(Drop(buf, length), counter + 1, plain \o Content(cells), got, state)
  BY <1>3, <1>9, Zenon DEF ReadRecord, length, cells
<1>11. /\ buf' = Drop(buf, length) /\ counter' = counter + 1 /\ plain' = plain \o c
       /\ got' = got /\ state' = state
       /\ UNCHANGED <<format, sent, wire>>
  BY <1>9, <1>10 DEF Update
<1>12. Sent' = Sent /\ Requests' = Requests /\ \A i : AsRead(i)' = AsRead(i)
  BY <1>11, SameRequests
<1>13. plain \o c \in Seq(Byte) /\ (plain \o c) \o After(Sent, counter + 1) = plain \o After(Sent, counter)
  <2>1. \A x, y, z \in Seq(Byte) : (x \o y) \o z = x \o (y \o z)
    <3>1. Associate(Byte)
      BY Associative, Zenon
    <3> QED
      BY <3>1, Zenon DEF Associate
  <2>2. (plain \o c) \o After(Sent, counter + 1) = plain \o (c \o After(Sent, counter + 1))
    BY <1>1, <1>7, <1>8, <2>1, Zenon
  <2>3. plain \o c \in Seq(Byte)
    BY <1>1, <1>7, ConcatProperties, Zenon
  <2> QED
    BY <1>8, <2>2, <2>3, Zenon
<1>14. ReadSoFar(n)'
  <2>1. [i \in 1..n |-> AsRead(i)'] = [i \in 1..n |-> AsRead(i)]
    BY <1>12
  <2>2. plain' \o After(Sent', counter') = After(Requests', n)
    BY <1>2, <1>11, <1>12, <1>13, Zenon DEF ReadSoFar
  <2>3. got' = [i \in 1..n |-> AsRead(i)'] /\ (state' = "closed" => n = Len(sent'))
    BY <1>2, <1>11, <2>1 DEF ReadSoFar
  <2> QED
    BY <2>2, <2>3, Zenon DEF ReadSoFar
<1>15. buf' \o wire' = After(Records(Sent'), counter') /\ buf' \in Seq(Cell)
  BY <1>4, <1>11, <1>12
<1>16. /\ wire' \in Seq(Cell) /\ plain' \in Seq(Byte) /\ counter' \in 0..Len(Sent')
       /\ n \in 0..Len(sent') /\ state' \in {"open", "closed"}
  BY <1>1, <1>2, <1>6, <1>11, <1>12, <1>13
<1> QED
  BY <1>14, <1>15, <1>16, Zenon DEF RecordsInv

\* A request that is there is read as a whole.
LEMMA RequestRead ==
  ASSUME FromSample, RecordsInv, format \in {"tlv", "tlv8"}, ReadBody
  PROVE  RecordsInv'
<1>1. /\ buf \in Seq(Cell) /\ wire \in Seq(Cell) /\ plain \in Seq(Byte)
      /\ counter \in 0..Len(Sent)
      /\ buf \o wire = After(Records(Sent), counter)
      /\ state \in {"open", "closed"}
  BY Zenon DEF RecordsInv
<1>2. PICK n \in 0..Len(sent) : ReadSoFar(n)
  BY Zenon DEF RecordsInv
<1>3. Len(sent) \in Nat /\ Parts(Byte, Requests) /\ Len(Requests) = Len(sent)
      /\ \A i \in 1..Len(sent) : Requests[i] = Body(format, sent[i])
  BY RequestsParts, Zenon
<1>4. n \in Nat /\ Len(got) = n /\ state = "open"
  <2>1. got = [i \in 1..n |-> AsRead(i)]
    BY <1>2, Zenon DEF ReadSoFar
  <2>2. n \in Nat
    BY <1>2, <1>3
  <2>3. Len(got) = n
    BY <2>1, <2>2
  <2> QED
    BY <2>2, <2>3 DEF ReadBody
<1>5. n < Len(sent) /\ Len(plain) >= NextBody
  BY <1>4 DEF ReadBody, BodyComplete
<1>6. n + 1 \in 1..Len(sent) /\ n + 1 \in 0..Len(sent) /\ n \in 0..Len(Requests) /\ n < Len(Requests)
  BY <1>3, <1>4, <1>5
<1> DEFINE b == Requests[n + 1]
           r == After(Requests, n + 1)
<1>7. b = Body(format, sent[n + 1]) /\ NextBody = Len(b)
  BY <1>3, <1>4, <1>6 DEF NextBody
<1>8. b \in Seq(Byte) /\ r \in Seq(Byte) /\ After(Requests, n) = b \o r
  <2>1. n + 1 \in 1..Len(Requests) /\ n + 1 \in 0..Len(Requests)
    BY <1>3, <1>6
  <2>2. b \in Seq(Byte)
    BY <1>3, <2>1, PartsElements, Zenon
  <2> QED
    BY <1>3, <1>6, <2>1, <2>2, AfterStep, AfterType, Zenon
<1> HIDE DEF b, r
<1>9. After(Sent, counter) \in Seq(Byte)
  BY <1>1, SentParts, AfterType, Zenon
<1>10. plain \o After(Sent, counter) = b \o r
  BY <1>2, <1>8, Zenon DEF ReadSoFar
<1>11. Covers(plain, b)
  BY <1>5, <1>7, <1>8 DEF Covers
<1>12. SubSeq(plain, 1, NextBody) = b
  BY <1>1, <1>7, <1>8, <1>9, <1>10, <1>11, CutTaken, Zenon DEF Taken
<1>13. Drop(plain, NextBody) \in Seq(Byte) /\ Drop(plain, NextBody) \o After(Sent, counter) = r
  <2>1. Drop(plain, Len(b)) \in Seq(Byte) /\ Makes(Drop(plain, Len(b)), After(Sent, counter), r)
    BY <1>1, <1>8, <1>9, <1>10, <1>11, CutFirst, Zenon
  <2> QED
    BY <1>7, <2>1, Zenon DEF Makes
<1>14. Update(buf, counter, Drop(plain, NextBody), Append(got, AsRead(n + 1)), state)
  BY <1>7, <1>12, Zenon DEF ReadBody, AsRead
<1>15. /\ buf' = buf /\ counter' = counter /\ plain' = Drop(plain, NextBody)
       /\ got' = Append(got, AsRead(n + 1)) /\ state' = state
       /\ UNCHANGED <<format, sent, wire>>
  BY <1>14 DEF Update
<1>16. Sent' = Sent /\ Requests' = Requests /\ \A i : AsRead(i)' = AsRead(i)
  BY <1>15, SameRequests
<1>17. ReadSoFar(n + 1)'
  <2>1. got = [i \in 1..n |-> AsRead(i)]
    BY <1>2, Zenon DEF ReadSoFar
  <2>2. Append(got, AsRead(n + 1)) = [i \in 1..n + 1 |-> AsRead(i)]
    BY <1>4, <2>1
  <2>3. [i \in 1..n + 1 |-> AsRead(i)'] = [i \in 1..n + 1 |-> AsRead(i)]
    BY <1>16
  <2>4. got' = [i \in 1..n + 1 |-> AsRead(i)']
    BY <1>15, <2>2, <2>3
  <2>5. plain' \o After(Sent', counter') = After(Requests', n + 1)
    BY <1>13, <1>15, <1>16, Zenon DEF r
  <2>6. state' # "closed"
    BY <1>4, <1>15
  <2> QED
    BY <2>4, <2>5, <2>6, Zenon DEF ReadSoFar
<1>18. buf' \o wire' = After(Records(Sent'), counter') /\ buf' \in Seq(Cell)
  BY <1>1, <1>15, <1>16
<1>19. /\ wire' \in Seq(Cell) /\ plain' \in Seq(Byte) /\ counter' \in 0..Len(Sent')
       /\ n + 1 \in 0..Len(sent') /\ state' \in {"open", "closed"}
  BY <1>1, <1>6, <1>13, <1>15, <1>16
<1> QED
  BY <1>17, <1>18, <1>19, Zenon DEF RecordsInv

\* At the end of the stream nothing is left over.
LEMMA RecordsEnd ==
  ASSUME FromSample, RecordsInv, format \in {"tlv", "tlv8"}, Eof
  PROVE  RecordsInv'
<1>1. /\ buf \in Seq(Cell) /\ wire \in Seq(Cell) /\ plain \in Seq(Byte)
      /\ counter \in 0..Len(Sent)
      /\ buf \o wire = After(Records(Sent), counter)
      /\ state \in {"open", "closed"}
  BY Zenon DEF RecordsInv
<1>2. PICK n \in 0..Len(sent) : ReadSoFar(n)
  BY Zenon DEF RecordsInv
<1>3. /\ Len(sent) \in Nat /\ Parts(Byte, Requests) /\ Len(Requests) = Len(sent)
      /\ \A i \in 1..Len(sent) : Requests[i] = Body(format, sent[i])
  BY RequestsParts, Zenon
<1>4. Len(Sent) \in Nat /\ Parts(Byte, Sent)
  BY SentParts, Zenon
<1>5. wire = << >> /\ ~RecordComplete /\ ~BodyComplete
  BY DEF Eof
<1>6. counter = Len(Sent)
  <2> SUFFICES ASSUME counter # Len(Sent) PROVE FALSE
    OBVIOUS
  <2>1. Len(buf) >= 2 /\ Len(buf) >= RecordLength(buf)
    BY <1>1, <1>5, NextRecord
  <2> QED
    BY <1>5, <2>1 DEF RecordComplete
<1>7. buf = << >>
  <2>1. buf \o wire = << >>
    BY <1>1, <1>6, RecordsAfter
  <2>2. buf \o << >> = buf
    BY <1>1, ConcatEmptySeq, Zenon
  <2> QED
    BY <1>5, <2>1, <2>2, Zenon
<1>8. plain = After(Requests, n)
  <2>1. After(Sent, counter) = << >>
    BY <1>4, <1>6, AfterAll, Zenon
  <2>2. plain \o << >> = plain
    BY <1>1, ConcatEmptySeq, Zenon
  <2> QED
    BY <1>2, <2>1, <2>2, Zenon DEF ReadSoFar
<1>9. n = Len(sent)
  <2> SUFFICES ASSUME n # Len(sent) PROVE FALSE
    OBVIOUS
  <2>1. n \in 0..Len(Requests) /\ n < Len(Requests) /\ n + 1 \in 1..Len(sent) /\ n + 1 \in 0..Len(Requests)
        /\ n + 1 \in 1..Len(Requests)
    BY <1>2, <1>3
  <2> DEFINE b == Requests[n + 1]
             r == After(Requests, n + 1)
  <2>2. b \in Seq(Byte) /\ r \in Seq(Byte) /\ After(Requests, n) = b \o r
    <3>1. b \in Seq(Byte)
      BY <1>3, <2>1, PartsElements, Zenon
    <3> QED
      BY <1>3, <2>1, <3>1, AfterStep, AfterType, Zenon
  <2>3. b = Body(format, sent[n + 1])
    BY <1>3, <2>1
  <2> HIDE DEF b, r
  <2>4. Len(plain) >= Len(b)
    <3>1. Len(b \o r) = Len(b) + Len(r) /\ Len(b) \in Nat /\ Len(r) \in Nat
      BY <2>2
    <3>2. Len(plain) = Len(b) + Len(r)
      BY <1>8, <2>2, <3>1
    <3> QED
      BY <3>1, <3>2
  <2>5. Len(got) = n
    <3>1. got = [i \in 1..n |-> AsRead(i)]
      BY <1>2, Zenon DEF ReadSoFar
    <3>2. n \in Nat
      BY <1>2, <1>3
    <3> QED
      BY <3>1, <3>2
  <2>6. NextBody = Len(b)
    BY <2>3, <2>5 DEF NextBody
  <2>7. BodyComplete
    BY <1>3, <2>1, <2>4, <2>5, <2>6 DEF BodyComplete
  <2> QED
    BY <1>5, <2>7
<1>10. Update(buf, counter, plain, got, "closed")
  <2>1. ~(format \in {"tlv", "tlv8"} /\ buf # << >>)
    BY <1>7
  <2> QED
    BY <2>1 DEF Eof
<1>11. UNCHANGED <<buf, counter, plain, got, format, sent, wire>> /\ state' = "closed"
  BY <1>10 DEF Update
<1>12. Sent' = Sent /\ Requests' = Requests /\ \A i : AsRead(i)' = AsRead(i)
  BY <1>11, SameRequests
<1>13. ReadSoFar(n)'
  <2>1. [i \in 1..n |-> AsRead(i)'] = [i \in 1..n |-> AsRead(i)]
    BY <1>12
  <2>2. plain' \o After(Sent', counter') = After(Requests', n)
    BY <1>2, <1>11, <1>12, Zenon DEF ReadSoFar
  <2>3. got' = [i \in 1..n |-> AsRead(i)'] /\ n = Len(sent')
    BY <1>2, <1>9, <1>11, <2>1 DEF ReadSoFar
  <2> QED
    BY <2>2, <2>3, Zenon DEF ReadSoFar
<1>14. buf' \o wire' = After(Records(Sent'), counter') /\ buf' \in Seq(Cell)
  BY <1>1, <1>11, <1>12
<1>15. /\ wire' \in Seq(Cell) /\ plain' \in Seq(Byte) /\ counter' \in 0..Len(Sent')
       /\ n \in 0..Len(sent') /\ state' \in {"open", "closed"}
  BY <1>1, <1>2, <1>11, <1>12
<1> QED
  BY <1>13, <1>14, <1>15, Zenon DEF RecordsInv

LEMMA RecordsStep ==
  ASSUME FromSample, RecordsInv, [WireNext]_wireVars
  PROVE  FromSample' /\ RecordsInv'
<1>1. UNCHANGED <<format, sent>>
  BY DEF WireNext, wireVars, Arrive, ReadFrame, ReadRecord, ReadBody, ReadLine, Eof, Update
<1>2. FromSample'
  BY <1>1 DEF FromSample
<1>3. ASSUME format \notin {"tlv", "tlv8"} PROVE RecordsInv'
  <2>1. format' \notin {"tlv", "tlv8"}
    BY <1>1, <1>3
  <2> QED
    BY <2>1, Zenon DEF RecordsInv
<1>4. ASSUME format \in {"tlv", "tlv8"} PROVE RecordsInv'
  <2>1. CASE \E n \in Cuts : Arrive(n)
    BY <1>4, <2>1, RecordsArrive, Zenon
  <2>2. CASE ReadRecord
    BY <1>4, <2>2, RecordRead, Zenon
  <2>3. CASE ReadBody
    BY <1>4, <2>3, RequestRead, Zenon
  <2>4. CASE Eof
    BY <1>4, <2>4, RecordsEnd, Zenon
  <2>5. CASE UNCHANGED wireVars
    <3>1. UNCHANGED <<format, sent, wire, buf, counter, plain, got, state>>
      BY <2>5 DEF wireVars
    <3>2. Sent' = Sent /\ Requests' = Requests /\ \A i : AsRead(i)' = AsRead(i)
      BY <3>1, SameRequests
    <3>3. PICK n \in 0..Len(sent) : ReadSoFar(n)
      BY <1>4, Zenon DEF RecordsInv
    <3>4. [i \in 1..n |-> AsRead(i)'] = [i \in 1..n |-> AsRead(i)]
      BY <3>2
    <3>5. ReadSoFar(n)'
      BY <3>1, <3>2, <3>3, <3>4, Zenon DEF ReadSoFar
    <3>6. \E k \in 0..Len(sent') : ReadSoFar(k)'
      BY <3>1, <3>3, <3>5, Zenon
    <3> QED
      BY <1>4, <3>1, <3>2, <3>6, Zenon DEF RecordsInv
  <2> QED
    BY <1>4, <2>1, <2>2, <2>3, <2>4, <2>5, RecordsOnly DEF WireNext
<1> QED
  BY <1>2, <1>3, <1>4

-----------------------------------------------------------------------------
(* parse of what Writer built.                                              *)
\* A part before others: its tag, its length, itself, and the others.
Begins(u, tag, p, r) ==
  /\ u \in Seq(Byte) /\ Len(u) = 2 + Len(p) + Len(r)
  /\ u[1] = tag /\ u[2] = Len(p)
  /\ SubSeq(u, 3, 2 + Len(p)) = p /\ SubSeq(u, 3 + Len(p), Len(u)) = r

\* What a reader finds at the front of the data.
LEMMA PartFirst ==
  ASSUME NEW tag \in Byte, NEW p \in Seq(Byte), Len(p) \in Byte, NEW r \in Seq(Byte)
  PROVE  Begins(Tlv!Part(tag, p) \o r, tag, p, r)
<1> DEFINE h == <<tag, Len(p)>>
           q == Tlv!Part(tag, p)
           u == q \o r
<1>0. q = h \o p
  BY Zenon DEF Tlv!Part
<1>1. h \in Seq(Byte) /\ Len(h) = 2 /\ h[1] = tag /\ h[2] = Len(p)
  OBVIOUS
<1>2. Len(p) \in Nat /\ Len(r) \in Nat
  OBVIOUS
<1> HIDE DEF h, q
<1>3. /\ q \in Seq(Byte) /\ Len(q) = Len(h) + Len(p) /\ \A i \in 1..Len(h) : q[i] = h[i]
      /\ SubSeq(q, Len(h) + 1, Len(q)) = p
  BY <1>0, <1>1, SecondPart
<1>4. Len(q) = 2 + Len(p) /\ SubSeq(q, 3, Len(q)) = p
  BY <1>1, <1>2, <1>3
<1>5. q[1] = tag /\ q[2] = Len(p)
  <2>1. 1 \in 1..Len(h) /\ 2 \in 1..Len(h)
    BY <1>1
  <2> QED
    BY <1>1, <1>3, <2>1, Zenon
<1>6. q \in Seq(Byte)
  BY <1>3
<1>7. /\ u \in Seq(Byte) /\ Len(u) = Len(q) + Len(r) /\ \A i \in 1..Len(q) : u[i] = q[i]
      /\ SubSeq(u, Len(q) + 1, Len(u)) = r
  BY <1>6, SecondPart
<1> HIDE DEF u
<1>8. u[1] = tag /\ u[2] = Len(p)
  <2>1. 1 \in 1..Len(q) /\ 2 \in 1..Len(q)
    BY <1>2, <1>4
  <2> QED
    BY <1>5, <1>7, <2>1, Zenon
<1>9. Len(u) = 2 + Len(p) + Len(r) /\ SubSeq(u, 3 + Len(p), Len(u)) = r
  <2>1. Len(q) + 1 = 3 + Len(p) /\ Len(q) + Len(r) = 2 + Len(p) + Len(r)
    BY <1>2, <1>4
  <2> QED
    BY <1>7, <2>1, Zenon
<1>10. SubSeq(u, 3, 2 + Len(p)) = p
  <2>1. CASE Len(p) = 0
    <3>1. p = << >>
      BY <2>1
    <3>2. SubSeq(u, 3, 2) = << >>
      BY SubSeqEmpty
    <3> QED
      BY <2>1, <3>1, <3>2
  <2>2. CASE Len(p) # 0
    <3>1. 3 \in 1..Len(q) /\ Len(q) \in 1..Len(q) /\ Len(q) <= Len(u)
      BY <1>2, <1>4, <1>7, <2>2
    <3>2. SubSeq(u, 3, Len(q)) = SubSeq(q, 3, Len(q))
      BY <1>6, <3>1, SubSeqOfConcat1 DEF u
    <3> QED
      BY <1>4, <3>2, Zenon
  <2> QED
    BY <2>1, <2>2
<1> QED
  BY <1>7, <1>8, <1>9, <1>10, Zenon DEF u, q, Begins

-----------------------------------------------------------------------------
\* parse: what is added to the items by a part.
Added(items, tag, p) ==
  IF Tlv!Continues(items, tag)
    THEN Append(Tlv!Front(items), Tlv!Item(tag, Tlv!Last(items).value \o p))
    ELSE Append(items, Tlv!Item(tag, p))

\* One round of the loop on a part.
LEMMA ParseRound ==
  ASSUME NEW tag \in Byte, NEW p \in Seq(Byte), Len(p) \in Byte, NEW r \in Seq(Byte), NEW items
  PROVE  Tlv!ParseItem([data |-> Tlv!Part(tag, p) \o r, items |-> items])
           = [data |-> r, items |-> Added(items, tag, p)]
<1> DEFINE d == Tlv!Part(tag, p) \o r
           s == [data |-> d, items |-> items]
<1>0. Begins(d, tag, p, r)
  BY PartFirst, Zenon
<1>1. /\ Len(d) = 2 + Len(p) + Len(r) /\ d[1] = tag /\ d[2] = Len(p)
      /\ SubSeq(d, 3, 2 + Len(p)) = p /\ SubSeq(d, 3 + Len(p), Len(d)) = r
  BY <1>0, Zenon DEF Begins
<1>2. Len(p) \in Nat /\ Len(r) \in Nat
  BY LenProperties
<1>3. s.data = d /\ s.items = items
  OBVIOUS
<1> HIDE DEF d, s
<1>4. ~(Len(d) < 2) /\ ~(Len(d) < 2 + Len(p)) /\ (2 + Len(p)) + 1 = 3 + Len(p)
  BY <1>1, <1>2
<1>5. Tlv!AtMost(2 + d[2], Len(d)) = 2 + Len(p)
  BY <1>1, <1>2, <1>4 DEF Tlv!AtMost
<1>6. Tlv!ParseItem(s) =
        IF Len(s.data) < 2
         THEN s
         ELSE [data |-> SubSeq(s.data, Tlv!AtMost(2 + s.data[2], Len(s.data)) + 1, Len(s.data)),
               items |-> IF Tlv!Continues(s.items, s.data[1])
                           THEN Append(Tlv!Front(s.items), Tlv!Item(s.data[1], Tlv!Last(s.items).value \o SubSeq(s.data, 3, Tlv!AtMost(2 + s.data[2], Len(s.data)))))
                           ELSE Append(s.items, Tlv!Item(s.data[1], SubSeq(s.data, 3, Tlv!AtMost(2 + s.data[2], Len(s.data)))))]
  BY Zenon DEF Tlv!ParseItem
<1>7. Tlv!ParseItem(s) =
        [data |-> SubSeq(d, 3 + Len(p), Len(d)), items |-> Added(items, tag, p)]
  BY <1>1, <1>3, <1>4, <1>5, <1>6, Zenon DEF Added
<1> QED
  BY <1>1, <1>7, Zenon DEF s, d

\* g[k] is the state of parse after k rounds.
ParseRun(g, data, n) ==
  /\ g[0] = [data |-> data, items |-> << >>]
  /\ \A k \in 0..n : k < n => g[k + 1] = Tlv!ParseItem(g[k])

\* Parse defines its states by recursion: there are such states.
LEMMA ParseExists ==
  ASSUME NEW data, NEW n \in Nat
  PROVE  \E g : g = [k \in 0..n |-> IF k = 0 THEN [data |-> data, items |-> << >>]
                                             ELSE Tlv!ParseItem(g[k - 1])]
<1> DEFINE s == [data |-> data, items |-> << >>]
           D == {m \in 0..n : \E g : g = [k \in 0..m |-> IF k = 0 THEN s ELSE Tlv!ParseItem(g[k - 1])]}
<1>1. 0 \in D
  <2> DEFINE g == [k \in 0..0 |-> s]
  <2>1. g = [k \in 0..0 |-> IF k = 0 THEN s ELSE Tlv!ParseItem(g[k - 1])]
    <3> HIDE DEF s
    <3> QED
      OBVIOUS
  <2>2. 0 \in 0..n
    OBVIOUS
  <2> HIDE DEF g
  <2> QED
    BY <2>1, <2>2, Zenon
<1>2. ASSUME NEW m \in 0..n - 1, m \in D PROVE m + 1 \in D
  <2>1. PICK g : g = [k \in 0..m |-> IF k = 0 THEN s ELSE Tlv!ParseItem(g[k - 1])]
    BY <1>2, Zenon
  <2> HIDE DEF s
  <2> DEFINE h == [k \in 0..m + 1 |-> IF k = m + 1 THEN Tlv!ParseItem(g[m]) ELSE g[k]]
  <2>2. ASSUME NEW k \in 0..m + 1
        PROVE  h[k] = IF k = 0 THEN s ELSE Tlv!ParseItem(h[k - 1])
    <3>1. CASE k = m + 1
      <4>1. k # 0 /\ k - 1 = m /\ m \in 0..m + 1 /\ m # m + 1
        BY <3>1
      <4>2. h[m] = g[m] /\ h[k] = Tlv!ParseItem(g[m])
        BY <3>1, <4>1, Zenon
      <4> HIDE DEF h
      <4> QED
        BY <4>1, <4>2, Zenon
    <3>2. CASE k # m + 1
      <4>1. k \in 0..m /\ (k # 0 => k - 1 \in 0..m + 1 /\ k - 1 # m + 1)
        BY <3>2
      <4>2. h[k] = g[k] /\ (k # 0 => h[k - 1] = g[k - 1])
        BY <3>2, <4>1, Zenon
      <4>3. g[k] = IF k = 0 THEN s ELSE Tlv!ParseItem(g[k - 1])
        BY <2>1, <4>1, Zenon
      <4> HIDE DEF h
      <4> QED
        BY <4>2, <4>3, Zenon
    <3> QED
      BY <3>1, <3>2
  <2>3. h = [k \in 0..m + 1 |-> h[k]]
    BY Zenon
  <2> HIDE DEF h
  <2>4. h = [k \in 0..m + 1 |-> IF k = 0 THEN s ELSE Tlv!ParseItem(h[k - 1])]
    <3>1. [k \in 0..m + 1 |-> h[k]] = [k \in 0..m + 1 |-> IF k = 0 THEN s ELSE Tlv!ParseItem(h[k - 1])]
      BY <2>2, Zenon
    <3> QED
      BY <2>3, <3>1, Zenon
  <2>5. m + 1 \in 0..n
    OBVIOUS
  <2> QED
    BY <2>4, <2>5, Zenon DEF s
<1>3. \A m \in 0..n : m \in D
  <2> HIDE DEF D
  <2> QED
    BY <1>1, <1>2, Induct
<1>4. n \in 0..n
  OBVIOUS
<1> QED
  BY <1>3, <1>4, Zenon

LEMMA ParseIs ==
  ASSUME NEW data, Len(data) \in Nat
  PROVE  \E g : ParseRun(g, data, Len(data)) /\ Tlv!Parse(data) = g[Len(data)].items
<1> DEFINE n == Len(data)
           s == [data |-> data, items |-> << >>]
           f == CHOOSE g : g = [k \in 0..n |-> IF k = 0 THEN s ELSE Tlv!ParseItem(g[k - 1])]
<1>1. \E g : g = [k \in 0..n |-> IF k = 0 THEN s ELSE Tlv!ParseItem(g[k - 1])]
  BY ParseExists, Zenon
<1>2. f = [k \in 0..n |-> IF k = 0 THEN s ELSE Tlv!ParseItem(f[k - 1])]
  BY <1>1, Zenon
<1>3. Tlv!Parse(data) = f[n].items
  BY Zenon DEF Tlv!Parse
<1> HIDE DEF f
<1>4. f[0] = s
  <2>1. 0 \in 0..n
    OBVIOUS
  <2> QED
    BY <1>2, <2>1, Zenon
<1>5. ASSUME NEW k \in 0..n, k < n PROVE f[k + 1] = Tlv!ParseItem(f[k])
  <2>1. k + 1 \in 0..n /\ k + 1 # 0 /\ (k + 1) - 1 = k
    BY <1>5
  <2> QED
    BY <1>2, <2>1, Zenon
<1>6. ParseRun(f, data, n)
  BY <1>4, <1>5, Zenon DEF ParseRun
<1> QED
  BY <1>3, <1>6, Zenon

-----------------------------------------------------------------------------
\* With d to go and items found, parse has as many rounds left as bytes.
Reaches(g, n, d, items) ==
  \E k \in 0..n : g[k] = [data |-> d, items |-> items] /\ k + Len(d) <= n

LEMMA ReachPart ==
  ASSUME NEW g, NEW data, NEW n \in Nat, ParseRun(g, data, n), NEW items,
         NEW tag \in Byte, NEW p \in Seq(Byte), Len(p) \in Byte, NEW r \in Seq(Byte),
         Reaches(g, n, Tlv!Part(tag, p) \o r, items)
  PROVE  Reaches(g, n, r, Added(items, tag, p))
<1> DEFINE d == Tlv!Part(tag, p) \o r
<1>1. PICK k \in 0..n : g[k] = [data |-> d, items |-> items] /\ k + Len(d) <= n
  BY DEF Reaches
<1>2. Len(d) = 2 + Len(p) + Len(r)
  BY PartFirst, Zenon DEF Begins
<1>3. Tlv!ParseItem([data |-> d, items |-> items]) = [data |-> r, items |-> Added(items, tag, p)]
  BY ParseRound, Zenon
<1>4. Len(p) \in Nat /\ Len(r) \in Nat
  BY LenProperties
<1> HIDE DEF d
<1>5. k + 1 \in 0..n /\ k < n /\ (k + 1) + Len(r) <= n
  BY <1>1, <1>2, <1>4
<1>6. g[k + 1] = Tlv!ParseItem(g[k])
  BY <1>5, Zenon DEF ParseRun
<1>7. g[k + 1] = [data |-> r, items |-> Added(items, tag, p)]
  BY <1>1, <1>3, <1>6, Zenon
<1> QED
  BY <1>5, <1>7, Zenon DEF Reaches

\* With nothing to go, the other rounds do nothing.
LEMMA ParseEnds ==
  ASSUME NEW g, NEW data, NEW n \in Nat, ParseRun(g, data, n), NEW items,
         Reaches(g, n, << >>, items)
  PROVE  g[n].items = items
<1> DEFINE s == [data |-> << >>, items |-> items]
<1>1. PICK k \in 0..n : g[k] = s
  BY DEF Reaches
<1>2. Tlv!ParseItem(s) = s
  BY DEF Tlv!ParseItem
<1>3. s.items = items
  OBVIOUS
<1> HIDE DEF s
<1> DEFINE D == {j \in 0..n - k : g[k + j] = s}
<1>4. 0 \in D
  <2>1. k + 0 = k /\ 0 \in 0..n - k
    OBVIOUS
  <2> QED
    BY <1>1, <2>1, Zenon
<1>5. ASSUME NEW j \in 0..(n - k) - 1, j \in D PROVE j + 1 \in D
  <2>1. k + j \in 0..n /\ k + j < n /\ (k + j) + 1 = k + (j + 1) /\ j + 1 \in 0..n - k
    OBVIOUS
  <2>2. g[(k + j) + 1] = Tlv!ParseItem(g[k + j])
    BY <2>1, Zenon DEF ParseRun
  <2> QED
    BY <1>2, <1>5, <2>1, <2>2, Zenon
<1>6. n - k \in Nat /\ n - k \in 0..n - k /\ k + (n - k) = n
  OBVIOUS
<1>7. n - k \in D
  <2> HIDE DEF D
  <2> QED
    BY <1>4, <1>5, <1>6, Induct
<1> QED
  BY <1>3, <1>6, <1>7, Zenon

LEMMA LastAppended ==
  ASSUME NEW X, NEW s \in Seq(X), NEW e \in X
  PROVE  Tlv!Last(Append(s, e)) = e /\ Tlv!Front(Append(s, e)) = s /\ Append(s, e) # << >>
<1>1. Append(s, e) \in Seq(X) /\ Len(Append(s, e)) = Len(s) + 1 /\ Append(s, e)[Len(s) + 1] = e /\ Len(s) \in Nat
  OBVIOUS
<1>2. Append(s, e) # << >>
  BY <1>1
<1>3. Tlv!Last(Append(s, e)) = e
  BY <1>1 DEF Tlv!Last
<1>4. SubSeq(Append(s, e), 1, Len(s)) = s
  OBVIOUS
<1>5. Tlv!Front(Append(s, e)) = s
  <2>1. Len(Append(s, e)) - 1 = Len(s)
    BY <1>1
  <2> QED
    BY <1>4, <2>1, Zenon DEF Tlv!Front
<1> QED
  BY <1>2, <1>3, <1>5

\* The last item found has another tag.
Fresh(items, tag) == items = << >> \/ Tlv!Last(items).tag # tag

\* A part of an item that is not the last one found begins a new one.
LEMMA AddedNew ==
  ASSUME NEW items, NEW tag, NEW p, Fresh(items, tag)
  PROVE  Added(items, tag, p) = Append(items, Tlv!Item(tag, p))
BY Zenon DEF Added, Fresh, Tlv!Continues

\* A part of a value whose first j parts have been found.
LEMMA AddedOn ==
  ASSUME NEW items \in Seq(Item), NEW tag \in Byte, NEW v \in Seq(Byte), v # << >>,
         Len(v) % MaxLen = 0, NEW p
  PROVE  Added(Append(items, Tlv!Item(tag, v)), tag, p) = Append(items, Tlv!Item(tag, v \o p))
<1> DEFINE e == Tlv!Item(tag, v)
           a == Append(items, e)
<1>1. e \in Item /\ e.tag = tag /\ e.value = v
  BY DEF Tlv!Item, Item
<1> HIDE DEF e
<1>2. Tlv!Last(a) = e /\ Tlv!Front(a) = items /\ a # << >>
  BY <1>1, LastAppended, Zenon
<1> HIDE DEF a
<1>3. Tlv!Continues(a, tag)
  BY <1>1, <1>2, Zenon DEF Tlv!Continues
<1> QED
  BY <1>1, <1>2, <1>3, Zenon DEF Added, a, e

\* A whole number of parts, and one more.
FullAfter(d, x, l) == l = d <=> x % d = 0

LEMMA LastFull ==
  ASSUME NEW d \in Nat \ {0}, NEW j \in Nat, NEW l \in 1..d
  PROVE  FullAfter(d, j * d + l, l)
<1>1. (j + 1) * d = j * d + d /\ ((j + 1) * d) % d = 0
  OBVIOUS
<1>2. l < d => (j * d + l) % d = l
  OBVIOUS
<1> QED
  BY <1>1, <1>2 DEF FullAfter

\* Where the parts of a value end.
EndOf(item, j) == At(j, MaxLen, Len(item.value))

\* How a value is put together from its parts: after j of them it has been read up
\* to where the j-th ends, which is a multiple of MaxLen until the last one, and the
\* last one is full if the whole value is.
LEMMA ValueParts ==
  ASSUME NEW item \in Item, item.value # << >>, NEW m, m = Len(TagParts(item))
  PROVE  /\ m \in Nat \ {0}
         /\ \A j \in 0..m : Taken(item.value, EndOf(item, j)) \in Seq(Byte)
         /\ Taken(item.value, EndOf(item, 0)) = << >>
         /\ Taken(item.value, EndOf(item, m)) = item.value
         /\ \A j \in 1..m - 1 :
              /\ Taken(item.value, EndOf(item, j)) # << >>
              /\ Len(Taken(item.value, EndOf(item, j))) % MaxLen = 0
         /\ \A j \in 0..m : j < m =>
              \E c : /\ TagParts(item)[j + 1] = Tlv!Part(item.tag, c)
                     /\ c \in Seq(Byte) /\ Len(c) \in Byte
                     /\ Taken(item.value, EndOf(item, j)) \o c
                          = Taken(item.value, EndOf(item, j + 1))
                     /\ j + 1 < m => Len(c) = MaxLen
                     /\ j + 1 = m => (Len(c) = MaxLen <=> Len(item.value) % MaxLen = 0)
<1> DEFINE v == item.value
           d == MaxLen
           c == Tlv!Cut(v, d)
           n == Len(v)
           P(j) == At(j, d, n)
<1>1. v \in Seq(Byte) /\ d \in Nat \ {0} /\ n \in Nat \ {0}
  <2>1. v \in Seq(Byte) /\ v # << >>
    BY DEF Item
  <2> HIDE DEF v
  <2>2. Len(v) \in Nat \ {0}
    BY <2>1
  <2>3. MaxLen \in Nat \ {0}
    BY WireAssumption DEF Byte
  <2> QED
    BY <2>1, <2>2, <2>3
<1>2. Tlv!Pieces(v) = c
  BY Zenon DEF Tlv!Pieces
<1>3. /\ m = Len(c)
      /\ \A k \in 0..m : k < m =>
              /\ TagParts(item)[k + 1] = Tlv!Part(item.tag, c[k + 1])
              /\ c[k + 1] \in Seq(Byte)
              /\ Len(c[k + 1]) \in 1..MaxLen
              /\ Len(c[k + 1]) \in Byte
              /\ k + 1 < m => Len(c[k + 1]) = MaxLen
  BY <1>2, TagPartsOf, Zenon
<1>4. Points(m, d, n)
  <2>1. m = (n + d - 1) \div d
    BY <1>1, <1>3, CutParts, Zenon
  <2> HIDE DEF n, d
  <2> QED
    BY <1>1, <2>1, CutPoints
<1>5. \A k \in 0..m : k < m => c[k + 1] = SubSeq(v, P(k) + 1, P(k + 1))
  BY <1>1, <1>3, CutParts, Zenon
<1> HIDE DEF v, d, n, c, P
<1>6. /\ m \in Nat /\ P(0) = 0 /\ P(m) = n
      /\ \A k \in 0..m : P(k) \in 0..n
      /\ \A k \in 0..m : k < m => P(k) = k * d /\ P(k) < P(k + 1)
  BY <1>4, Zenon DEF Points, P
<1>7. m # 0
  BY <1>1, <1>6
<1>8. \A j \in 0..m : Taken(v, P(j)) \in Seq(Byte) /\ Len(Taken(v, P(j))) = P(j)
  <2> TAKE j \in 0..m
  <2>1. P(j) \in 0..Len(v)
    BY <1>6, Zenon DEF n
  <2> QED
    BY <1>1, <2>1 DEF Taken
<1>9. Taken(v, P(m)) = v
  <2>1. SubSeq(v, 1, Len(v)) = v
    BY <1>1, SubSeqFull, Zenon
  <2> QED
    BY <1>6, <2>1, Zenon DEF Taken, n
<1>10. ASSUME NEW k \in 0..m, k < m PROVE Taken(v, P(k)) \o c[k + 1] = Taken(v, P(k + 1))
  <2>1. k + 1 \in 0..m
    BY <1>6, <1>10
  <2>2. P(k + 1) \in 0..n /\ P(k) \in 0..n /\ P(k) < P(k + 1)
    BY <1>6, <1>10, <2>1, Zenon
  <2>3. P(k) \in 0..P(k + 1) /\ P(k + 1) \in 0..Len(v)
    BY <1>1, <2>2 DEF n
  <2> QED
    BY <1>1, <1>5, <1>10, <2>3, Adjoin, Zenon
<1>11. Taken(v, P(0)) = << >>
  <2>1. 0 \in 0..m
    BY <1>6
  <2>2. Taken(v, P(0)) \in Seq(Byte) /\ Len(Taken(v, P(0))) = 0
    BY <1>6, <1>8, <2>1, Zenon
  <2> QED
    BY <2>2, EmptySeq
<1>12. ASSUME NEW j \in 1..m - 1
       PROVE  Taken(v, P(j)) # << >> /\ Len(Taken(v, P(j))) % MaxLen = 0
  <2>1. j \in 0..m /\ j < m /\ j \in Nat \ {0}
    BY <1>6
  <2>2. P(j) = j * d /\ Len(Taken(v, P(j))) = P(j)
    BY <1>6, <1>8, <2>1, Zenon
  <2>3. (j * d) % d = 0 /\ j * d # 0
    BY <1>1, <2>1
  <2>4. Len(Taken(v, P(j))) % MaxLen = 0
    BY <2>2, <2>3, Zenon DEF d
  <2>5. Len(Taken(v, P(j))) # 0
    BY <2>2, <2>3, Zenon
  <2>6. Taken(v, P(j)) # << >>
    BY <2>5
  <2> QED
    BY <2>4, <2>6
<1>13. ASSUME NEW j \in 0..m, j < m, j + 1 = m
       PROVE  Len(c[j + 1]) = MaxLen <=> Len(v) % MaxLen = 0
  <2>1. Len(Taken(v, P(j)) \o c[j + 1]) = Len(Taken(v, P(j))) + Len(c[j + 1])
    <3>1. Taken(v, P(j)) \in Seq(Byte) /\ c[j + 1] \in Seq(Byte)
      BY <1>3, <1>8, <1>13, Zenon
    <3> QED
      BY <3>1, ConcatProperties, Zenon
  <2>2. P(j) = j * d /\ Len(Taken(v, P(j))) = P(j) /\ Taken(v, P(j)) \o c[j + 1] = v
    BY <1>6, <1>8, <1>9, <1>10, <1>13, Zenon
  <2>3. Len(v) = j * d + Len(c[j + 1]) /\ Len(c[j + 1]) \in 1..d /\ j \in Nat
    <3>1. Len(v) = j * d + Len(c[j + 1])
      BY <2>1, <2>2, Zenon
    <3>2. Len(c[j + 1]) \in 1..d
      BY <1>3, <1>13, Zenon DEF d
    <3>3. j \in Nat
      BY <1>6
    <3> QED
      BY <3>1, <3>2, <3>3, Zenon
  <2>4. FullAfter(d, j * d + Len(c[j + 1]), Len(c[j + 1]))
    BY <1>1, <2>3, LastFull, Zenon
  <2>5. FullAfter(MaxLen, Len(v), Len(c[j + 1]))
    BY <2>3, <2>4, Zenon DEF d
  <2> QED
    BY <2>5, Zenon DEF FullAfter
<1>14. \A j \in 0..m : j < m =>
         \E x : /\ TagParts(item)[j + 1] = Tlv!Part(item.tag, x)
                /\ x \in Seq(Byte) /\ Len(x) \in Byte
                /\ Taken(v, P(j)) \o x = Taken(v, P(j + 1))
                /\ j + 1 < m => Len(x) = MaxLen
                /\ j + 1 = m => (Len(x) = MaxLen <=> Len(v) % MaxLen = 0)
  BY <1>3, <1>10, <1>13, Zenon
<1>15. m \in Nat \ {0}
  BY <1>6, <1>7
<1>16. \A j : P(j) = EndOf(item, j)
  BY Zenon DEF P, EndOf, d, n, v
<1> QED
  BY <1>8, <1>9, <1>11, <1>12, <1>14, <1>15, <1>16, Zenon DEF v

\* items and the first j parts of another.
Found(items, item, j) == Append(items, Tlv!Item(item.tag, Taken(item.value, EndOf(item, j))))

\* The parts of an item of another tag than the last one: parse finds the item.
LEMMA ReachParts ==
  ASSUME NEW g, NEW data, NEW n \in Nat, ParseRun(g, data, n),
         NEW items \in Seq(Item), NEW item \in Item, item.value # << >>, Fresh(items, item.tag),
         NEW r \in Seq(Byte), Reaches(g, n, FlattenSeq(TagParts(item)) \o r, items)
  PROVE  Reaches(g, n, r, Append(items, item))
<1> DEFINE ps == TagParts(item)
           m == Len(ps)
           T(j) == Taken(item.value, EndOf(item, j))
           D == {j \in 0..m - 1 : Reaches(g, n, After(ps, j + 1) \o r, Found(items, item, j + 1))}
<1>1. /\ m \in Nat \ {0}
      /\ \A j \in 0..m : T(j) \in Seq(Byte)
      /\ T(0) = << >>
      /\ T(m) = item.value
      /\ \A j \in 1..m - 1 : T(j) # << >> /\ Len(T(j)) % MaxLen = 0
      /\ \A j \in 0..m : j < m =>
           \E c : /\ ps[j + 1] = Tlv!Part(item.tag, c)
                  /\ c \in Seq(Byte) /\ Len(c) \in Byte
                  /\ T(j) \o c = T(j + 1)
                  /\ j + 1 < m => Len(c) = MaxLen
                  /\ j + 1 = m => (Len(c) = MaxLen <=> Len(item.value) % MaxLen = 0)
  BY ValueParts, Zenon
<1>2. Parts(Byte, ps) /\ item.tag \in Byte
  BY TagPartsOf DEF Item
<1> HIDE DEF ps
<1>3. \A j \in 0..m : After(ps, j) \in Seq(Byte)
  BY <1>2, AfterType, Zenon
<1>4. ASSUME NEW j \in 0..m, j < m
      PROVE  After(ps, j) \o r = ps[j + 1] \o (After(ps, j + 1) \o r)
  <2>1. j + 1 \in 0..m /\ j + 1 \in 1..m
    BY <1>1, <1>4
  <2>2. After(ps, j) = ps[j + 1] \o After(ps, j + 1)
    BY <1>2, <1>4, AfterStep, Zenon
  <2>3. ps[j + 1] \in Seq(Byte) /\ After(ps, j + 1) \in Seq(Byte)
    BY <1>2, <1>3, <2>1, PartsElements, Zenon
  <2>4. \A x, y, z \in Seq(Byte) : (x \o y) \o z = x \o (y \o z)
    <3>1. Associate(Byte)
      BY Associative, Zenon
    <3> QED
      BY <3>1, Zenon DEF Associate
  <2>5. (ps[j + 1] \o After(ps, j + 1)) \o r = ps[j + 1] \o (After(ps, j + 1) \o r)
    BY <2>3, <2>4, Zenon
  <2> QED
    BY <2>2, <2>5, Zenon
<1>5. \A j \in 0..m : After(ps, j) \o r \in Seq(Byte)
  BY <1>3, ConcatProperties, Zenon
<1> HIDE DEF m
<1>6. 0 \in D
  <2>1. 0 \in 0..m /\ 0 < m /\ 0 + 1 = 1 /\ 1 \in 0..m /\ 0 \in 0..m - 1
    BY <1>1
  <2>2. PICK c : ps[1] = Tlv!Part(item.tag, c) /\ c \in Seq(Byte) /\ Len(c) \in Byte /\ c = T(1)
    <3>1. PICK c : /\ ps[0 + 1] = Tlv!Part(item.tag, c)
                   /\ c \in Seq(Byte) /\ Len(c) \in Byte
                   /\ T(0) \o c = T(0 + 1)
      BY <1>1, <2>1, Zenon
    <3>2. << >> \o c = c
      BY <3>1, ConcatEmptySeq, Zenon
    <3>3. c = T(1) /\ ps[1] = Tlv!Part(item.tag, c)
      BY <1>1, <2>1, <3>1, <3>2, Zenon
    <3> QED
      BY <3>1, <3>3, Zenon
  <2>3. After(ps, 0) \o r = Tlv!Part(item.tag, c) \o (After(ps, 1) \o r)
    BY <1>4, <2>1, <2>2, Zenon
  <2>4. After(ps, 0) = FlattenSeq(ps)
    BY <1>2, AfterNone, Zenon
  <2>5. Reaches(g, n, Tlv!Part(item.tag, c) \o (After(ps, 1) \o r), items)
    BY <2>3, <2>4, Zenon DEF ps
  <2>6. Reaches(g, n, After(ps, 1) \o r, Added(items, item.tag, c))
    BY <1>2, <1>5, <2>1, <2>2, <2>5, ReachPart, Zenon
  <2>7. Added(items, item.tag, c) = Found(items, item, 1)
    BY <2>2, AddedNew, Zenon DEF Found
  <2>8. Reaches(g, n, After(ps, 0 + 1) \o r, Found(items, item, 0 + 1))
    BY <2>1, <2>6, <2>7, Zenon
  <2> QED
    BY <2>1, <2>8, Zenon
<1>7. ASSUME NEW i \in 0..(m - 1) - 1, i \in D PROVE i + 1 \in D
  <2> DEFINE j == i + 1
  <2>1. j \in 0..m /\ j < m /\ j \in 1..m - 1 /\ j + 1 \in 0..m /\ j \in 0..m - 1
    BY <1>1
  <2>2. Reaches(g, n, After(ps, j) \o r, Found(items, item, j))
    BY <1>7, Zenon
  <2> HIDE DEF j
  <2>3. T(j) # << >> /\ Len(T(j)) % MaxLen = 0 /\ T(j) \in Seq(Byte)
    BY <1>1, <2>1, Zenon
  <2>4. PICK c : /\ ps[j + 1] = Tlv!Part(item.tag, c)
                 /\ c \in Seq(Byte) /\ Len(c) \in Byte
                 /\ T(j) \o c = T(j + 1)
    BY <1>1, <2>1, Zenon
  <2>5. Reaches(g, n, Tlv!Part(item.tag, c) \o (After(ps, j + 1) \o r), Found(items, item, j))
    BY <1>4, <2>1, <2>2, <2>4, Zenon
  <2>6. Reaches(g, n, After(ps, j + 1) \o r, Added(Found(items, item, j), item.tag, c))
    BY <1>2, <1>5, <2>1, <2>4, <2>5, ReachPart, Zenon
  <2>7. Added(Found(items, item, j), item.tag, c) = Found(items, item, j + 1)
    <3>1. Added(Append(items, Tlv!Item(item.tag, T(j))), item.tag, c) = Append(items, Tlv!Item(item.tag, T(j) \o c))
      BY <1>2, <2>3, AddedOn
    <3> QED
      BY <2>4, <3>1, Zenon DEF Found
  <2>8. Reaches(g, n, After(ps, j + 1) \o r, Found(items, item, j + 1))
    BY <2>6, <2>7, Zenon
  <2> QED
    BY <2>1, <2>8, Zenon DEF j
<1>8. m - 1 \in Nat /\ m - 1 \in 0..m - 1 /\ (m - 1) + 1 = m
  BY <1>1
<1>9. m - 1 \in D
  <2> HIDE DEF D
  <2>1. \A i \in 0..m - 1 : i \in D
    BY <1>6, <1>7, <1>8, Induct
  <2> QED
    BY <1>8, <2>1, Zenon
<1>10. Reaches(g, n, After(ps, m) \o r, Found(items, item, m))
  BY <1>8, <1>9, Zenon
<1>11. After(ps, m) \o r = r
  <2>1. After(ps, m) = << >>
    BY <1>2, AfterAll, Zenon DEF m
  <2>2. << >> \o r = r
    BY ConcatEmptySeq, Zenon
  <2> QED
    BY <2>1, <2>2, Zenon
<1>12. Found(items, item, m) = Append(items, item)
  <2>1. Tlv!Item(item.tag, item.value) = item
    BY DEF Tlv!Item, Item
  <2> QED
    BY <1>1, <2>1, Zenon DEF Found
<1> QED
  BY <1>10, <1>11, <1>12, Zenon

\* An item without value, or a delimiter.
LEMMA ReachEmpty ==
  ASSUME NEW g, NEW data, NEW n \in Nat, ParseRun(g, data, n), NEW items,
         NEW tag \in Byte, Fresh(items, tag),
         NEW r \in Seq(Byte), Reaches(g, n, <<tag, 0>> \o r, items)
  PROVE  Reaches(g, n, r, Append(items, Tlv!Item(tag, << >>)))
<1> DEFINE p == << >>
<1>1. p \in Seq(Byte) /\ Len(p) \in Byte /\ <<tag, 0>> = <<tag, Len(p)>> \o p
  BY DEF Byte
<1>2. Tlv!Part(tag, p) = <<tag, 0>>
  BY <1>1, Zenon DEF Tlv!Part
<1> HIDE DEF p
<1>3. Reaches(g, n, Tlv!Part(tag, p) \o r, items)
  BY <1>2, Zenon
<1>4. Reaches(g, n, r, Added(items, tag, p))
  BY <1>1, <1>3, ReachPart, Zenon
<1> QED
  BY <1>4, AddedNew, Zenon DEF p

LEMMA ReachItem ==
  ASSUME NEW g, NEW data, NEW n \in Nat, ParseRun(g, data, n),
         NEW items \in Seq(Item), NEW item \in Item, Fresh(items, item.tag),
         NEW r \in Seq(Byte), Reaches(g, n, Tlv!Bytes(item) \o r, items)
  PROVE  Reaches(g, n, r, Append(items, item))
<1>1. CASE item.value = << >>
  <2>1. Tlv!Bytes(item) = <<item.tag, 0>>
    BY <1>1, Zenon DEF Tlv!Bytes
  <2>2. item.tag \in Byte /\ Tlv!Item(item.tag, << >>) = item
    BY <1>1 DEF Item, Tlv!Item
  <2> QED
    BY <2>1, <2>2, ReachEmpty, Zenon
<1>2. CASE item.value # << >>
  BY <1>2, BytesOf, ReachParts, Zenon
<1> QED
  BY <1>1, <1>2

\* The bytes of the i-th item, and what parse makes of them, with the delimiter
\* that Writer puts before an item with the tag of the last one.
Again(items, i) == i > 1 /\ items[i].tag = items[i - 1].tag
Written(items) == [i \in DOMAIN items |->
  IF Again(items, i) THEN Tlv!Delimiter \o Tlv!Bytes(items[i]) ELSE Tlv!Bytes(items[i])]
Apart(items) == [i \in DOMAIN items |->
  IF Again(items, i) THEN <<Tlv!Item(0, << >>), items[i]>> ELSE <<items[i]>>]

\* Items whose tags are not the delimiter's.
Plainly(items) == items \in Seq(Item) /\ \A i \in DOMAIN items : items[i].tag # 0

LEMMA WrittenParts ==
  ASSUME NEW items, Plainly(items)
  PROVE  /\ Len(items) \in Nat
         /\ Parts(Byte, Written(items)) /\ Len(Written(items)) = Len(items)
         /\ Parts(Item, Apart(items)) /\ Len(Apart(items)) = Len(items)
         /\ \A i \in 1..Len(items) :
              /\ items[i] \in Item /\ items[i].tag # 0
              /\ Written(items)[i] = IF Again(items, i) THEN Tlv!Delimiter \o Tlv!Bytes(items[i])
                                                        ELSE Tlv!Bytes(items[i])
              /\ Apart(items)[i] = IF Again(items, i) THEN <<Tlv!Item(0, << >>), items[i]>>
                                                      ELSE <<items[i]>>
<1> DEFINE n == Len(items)
           w(i) == IF Again(items, i) THEN Tlv!Delimiter \o Tlv!Bytes(items[i]) ELSE Tlv!Bytes(items[i])
           a(i) == IF Again(items, i) THEN <<Tlv!Item(0, << >>), items[i]>> ELSE <<items[i]>>
<1>1. n \in Nat /\ DOMAIN items = 1..n /\ \A i \in 1..n : items[i] \in Item /\ items[i].tag # 0
  BY DEF Plainly
<1>2. Tlv!Delimiter \in Seq(Byte)
  BY DEF Tlv!Delimiter, Byte
<1>3. ASSUME NEW i \in 1..n PROVE w(i) \in Seq(Byte)
  <2>1. Tlv!Bytes(items[i]) \in Seq(Byte)
    BY <1>1, ItemBytes, Zenon
  <2> QED
    BY <1>2, <2>1, ConcatProperties, Zenon
<1>4. ASSUME NEW i \in 1..n PROVE a(i) \in Seq(Item)
  <2>1. Tlv!Item(0, << >>) \in Item /\ items[i] \in Item
    BY <1>1 DEF Item, Tlv!Item, Byte
  <2>2. \A x, y \in Item : <<x, y>> \in Seq(Item) /\ <<y>> \in Seq(Item)
    OBVIOUS
  <2> QED
    BY <2>1, <2>2, Zenon
<1>5. Written(items) = [i \in 1..n |-> w(i)] /\ Apart(items) = [i \in 1..n |-> a(i)]
  BY <1>1, Zenon DEF Written, Apart
<1> HIDE DEF n, w, a
<1>6. /\ Parts(Byte, [i \in 1..n |-> w(i)]) /\ Len([i \in 1..n |-> w(i)]) = n
      /\ \A i \in 1..n : [j \in 1..n |-> w(j)][i] = w(i)
  BY <1>1, <1>3 DEF Parts
<1>7. /\ Parts(Item, [i \in 1..n |-> a(i)]) /\ Len([i \in 1..n |-> a(i)]) = n
      /\ \A i \in 1..n : [j \in 1..n |-> a(j)][i] = a(i)
  BY <1>1, <1>4 DEF Parts
<1> QED
  BY <1>1, <1>5, <1>6, <1>7, Zenon DEF n, w, a

\* parse has found x, which is what it makes of the first i items; the last of
\* them is the last one found.
Progress(g, n, items, i, x) ==
  /\ x \in Seq(Item)
  /\ Makes(x, After(Apart(items), i), FlattenSeq(Apart(items)))
  /\ i = 0 => x = << >>
  /\ i > 0 => x # << >> /\ Tlv!Last(x) = items[i]
  /\ Reaches(g, n, After(Written(items), i), x)

\* parse goes on with the next item, and the delimiter before it if there is one.
LEMMA NextItem ==
  ASSUME NEW g, NEW data, NEW n \in Nat, ParseRun(g, data, n),
         NEW items, Plainly(items), NEW i \in 0..Len(items), i < Len(items),
         NEW x, Progress(g, n, items, i, x)
  PROVE  \E y : Progress(g, n, items, i + 1, y)
<1> DEFINE ws == Written(items)
           as == Apart(items)
           item == items[i + 1]
           r == After(ws, i + 1)
           e == Tlv!Item(0, << >>)
<1>1. /\ Len(items) \in Nat /\ Parts(Byte, ws) /\ Len(ws) = Len(items)
      /\ Parts(Item, as) /\ Len(as) = Len(items)
      /\ \A j \in 1..Len(items) :
              /\ items[j] \in Item /\ items[j].tag # 0
              /\ ws[j] = IF Again(items, j) THEN Tlv!Delimiter \o Tlv!Bytes(items[j])
                                            ELSE Tlv!Bytes(items[j])
              /\ as[j] = IF Again(items, j) THEN <<e, items[j]>> ELSE <<items[j]>>
  BY WrittenParts, Zenon
<1> HIDE DEF ws, as
<1>2. i + 1 \in 1..Len(items) /\ i + 1 \in 0..Len(items) /\ i + 1 > 0 /\ i + 1 # 0 /\ i \in Nat
  BY <1>1
<1>3. /\ item \in Item /\ item.tag # 0 /\ e \in Item /\ e.tag = 0
      /\ ws[i + 1] = IF Again(items, i + 1) THEN Tlv!Delimiter \o Tlv!Bytes(item) ELSE Tlv!Bytes(item)
      /\ as[i + 1] = IF Again(items, i + 1) THEN <<e, item>> ELSE <<item>>
  <2>1. e \in Item /\ e.tag = 0
    BY DEF Item, Tlv!Item, Byte
  <2> HIDE DEF e
  <2> QED
    BY <1>1, <1>2, <2>1, Zenon
<1> HIDE DEF item, e
<1>4. /\ After(ws, i) = ws[i + 1] \o r /\ r \in Seq(Byte)
      /\ After(as, i) = as[i + 1] \o After(as, i + 1) /\ After(as, i + 1) \in Seq(Item)
  <2>1. /\ i \in 0..Len(ws) /\ i < Len(ws) /\ i + 1 \in 0..Len(ws)
        /\ i \in 0..Len(as) /\ i < Len(as) /\ i + 1 \in 0..Len(as)
    BY <1>1, <1>2
  <2> QED
    BY <1>1, <2>1, AfterStep, AfterType, Zenon
<1> HIDE DEF r
<1>5. /\ x \in Seq(Item) /\ x \o After(as, i) = FlattenSeq(as)
      /\ i = 0 => x = << >>
      /\ i > 0 => x # << >> /\ Tlv!Last(x) = items[i]
      /\ Reaches(g, n, ws[i + 1] \o r, x)
  BY <1>4, Zenon DEF Progress, Makes, ws, as
<1>6. Tlv!Bytes(item) \in Seq(Byte) /\ Tlv!Bytes(item) \o r \in Seq(Byte)
  BY <1>3, <1>4, ItemBytes, ConcatProperties, Zenon
<1>7. \A s, t, u \in Seq(Byte) : (s \o t) \o u = s \o (t \o u)
  <2>1. Associate(Byte)
    BY Associative, Zenon
  <2> QED
    BY <2>1, Zenon DEF Associate
<1>8. \A s, t, u \in Seq(Item) : (s \o t) \o u = s \o (t \o u)
  <2>1. Associate(Item)
    BY Associative, Zenon
  <2> QED
    BY <2>1, Zenon DEF Associate
<1>9. ASSUME Again(items, i + 1) PROVE \E y : Progress(g, n, items, i + 1, y)
  <2>1. i > 0 /\ items[i].tag = item.tag
    <3>1. i + 1 > 1 /\ item.tag = items[(i + 1) - 1].tag /\ (i + 1) - 1 = i
      BY <1>2, <1>9 DEF Again, item
    <3> QED
      BY <1>2, <3>1
  <2>2. Tlv!Delimiter \in Seq(Byte) /\ Tlv!Delimiter = <<0, 0>> /\ 0 \in Byte
    BY DEF Tlv!Delimiter, Byte
  <2>3. ws[i + 1] = Tlv!Delimiter \o Tlv!Bytes(item) /\ as[i + 1] = <<e, item>>
    BY <1>3, <1>9, Zenon
  <2>4. (Tlv!Delimiter \o Tlv!Bytes(item)) \o r = Tlv!Delimiter \o (Tlv!Bytes(item) \o r)
    BY <1>4, <1>6, <1>7, <2>2, Zenon
  <2>5. Reaches(g, n, <<0, 0>> \o (Tlv!Bytes(item) \o r), x)
    BY <1>5, <2>2, <2>3, <2>4, Zenon
  <2>6. Fresh(x, 0)
    BY <1>3, <1>5, <2>1 DEF Fresh
  <2>7. Reaches(g, n, Tlv!Bytes(item) \o r, Append(x, e))
    BY <1>6, <2>2, <2>5, <2>6, ReachEmpty, Zenon DEF e
  <2> DEFINE z == Append(x, e)
  <2>8. z \in Seq(Item) /\ Tlv!Last(z) = e
    <3>1. e \in Item /\ x \in Seq(Item)
      BY <1>3, <1>5, Zenon
    <3>2. Tlv!Last(z) = e
      BY <3>1, LastAppended, Zenon
    <3> QED
      BY <3>1, <3>2, AppendProperties, Zenon
  <2>9. Fresh(z, item.tag)
    BY <1>3, <2>8 DEF Fresh
  <2> HIDE DEF z
  <2>10. Reaches(g, n, r, Append(z, item))
    BY <1>3, <1>4, <2>7, <2>8, <2>9, ReachItem, Zenon DEF z
  <2> DEFINE y == Append(z, item)
  <2>11. y \in Seq(Item) /\ Tlv!Last(y) = item /\ y # << >>
    <3>1. z \in Seq(Item) /\ item \in Item
      BY <1>3, <2>8, Zenon
    <3> HIDE DEF y
    <3>2. y \in Seq(Item)
      BY <3>1, AppendProperties, Zenon DEF y
    <3>3. Tlv!Last(y) = item /\ y # << >>
      BY <3>1, LastAppended DEF y
    <3> QED
      BY <3>2, <3>3
  <2>12. y = x \o <<e, item>>
    <3>1. \A s \in Seq(Item), a, b \in Item : Append(Append(s, a), b) = s \o <<a, b>>
      OBVIOUS
    <3> QED
      BY <1>3, <1>5, <3>1, Zenon DEF z
  <2> HIDE DEF y
  <2>13. y \o After(as, i + 1) = FlattenSeq(as)
    <3>1. <<e, item>> \in Seq(Item)
      BY <1>3
    <3>2. (x \o <<e, item>>) \o After(as, i + 1) = x \o (<<e, item>> \o After(as, i + 1))
      BY <1>4, <1>5, <1>8, <3>1, Zenon
    <3> QED
      BY <1>4, <1>5, <2>3, <2>12, <3>2, Zenon
  <2> QED
    BY <1>2, <2>10, <2>11, <2>13, Zenon DEF Progress, Makes, y, r, ws, as, item
<1>10. ASSUME ~Again(items, i + 1) PROVE \E y : Progress(g, n, items, i + 1, y)
  <2>1. Fresh(x, item.tag)
    <3>1. CASE i = 0
      BY <1>5, <3>1 DEF Fresh
    <3>2. CASE i # 0
      <4>1. i > 0 /\ i + 1 > 1 /\ (i + 1) - 1 = i
        BY <1>2, <3>2
      <4>2. item.tag # items[i].tag
        BY <1>10, <4>1 DEF Again, item
      <4> QED
        BY <1>5, <4>1, <4>2 DEF Fresh
    <3> QED
      BY <3>1, <3>2
  <2>2. ws[i + 1] = Tlv!Bytes(item) /\ as[i + 1] = <<item>>
    BY <1>3, <1>10, Zenon
  <2>3. Reaches(g, n, Tlv!Bytes(item) \o r, x)
    BY <1>5, <2>2, Zenon
  <2>4. Reaches(g, n, r, Append(x, item))
    BY <1>3, <1>4, <1>5, <2>1, <2>3, ReachItem, Zenon
  <2> DEFINE y == Append(x, item)
  <2>5. y \in Seq(Item) /\ Tlv!Last(y) = item /\ y # << >>
    <3>1. item \in Item /\ x \in Seq(Item)
      BY <1>3, <1>5, Zenon
    <3>2. Tlv!Last(y) = item /\ y # << >>
      BY <3>1, LastAppended, Zenon
    <3> QED
      BY <3>1, <3>2, AppendProperties, Zenon
  <2>6. y = x \o <<item>>
    BY <1>3, <1>5
  <2> HIDE DEF y
  <2>7. y \o After(as, i + 1) = FlattenSeq(as)
    <3>1. <<item>> \in Seq(Item)
      BY <1>3
    <3>2. (x \o <<item>>) \o After(as, i + 1) = x \o (<<item>> \o After(as, i + 1))
      BY <1>4, <1>5, <1>8, <3>1, Zenon
    <3> QED
      BY <1>4, <1>5, <2>2, <2>6, <3>2, Zenon
  <2> QED
    BY <1>2, <2>4, <2>5, <2>7, Zenon DEF Progress, Makes, y, r, ws, as, item
<1> QED
  BY <1>9, <1>10

\* parse finds what Writer built (parse, Writer::bytes).
LEMMA ParseBuilds ==
  ASSUME NEW items, Plainly(items)
  PROVE  Tlv!Parse(Tlv!Build(items)) = Separated(items)
<1> DEFINE data == Tlv!Build(items)
           ws == Written(items)
           as == Apart(items)
           m == Len(items)
<1>1. /\ m \in Nat /\ Parts(Byte, ws) /\ Len(ws) = m /\ Parts(Item, as) /\ Len(as) = m
  BY WrittenParts, Zenon
<1>2. data = FlattenSeq(ws)
  <2>1. data = Tlv!FlattenSeq(ws)
    BY Zenon DEF Tlv!Build, Written, Again
  <2> QED
    BY <2>1, SameFlatten, Zenon
<1>3. Separated(items) = FlattenSeq(as)
  BY Zenon DEF Separated, Apart, Again
<1>4. data \in Seq(Byte)
  BY <1>1, <1>2, FlattenType, Zenon
<1>5. Len(data) \in Nat
  BY <1>4, LenProperties
<1> DEFINE n == Len(data)
<1>6. PICK g : ParseRun(g, data, n) /\ Tlv!Parse(data) = g[n].items
  BY <1>5, ParseIs, Zenon
<1> DEFINE D == {i \in 0..m : \E x : Progress(g, n, items, i, x)}
<1>7. 0 \in D
  <2>1. 0 \in 0..m /\ ~(0 > 0)
    BY <1>1
  <2>2. After(as, 0) = FlattenSeq(as) /\ After(ws, 0) = data /\ FlattenSeq(as) \in Seq(Item)
    BY <1>1, <1>2, AfterNone, FlattenType, Zenon
  <2>3. << >> \in Seq(Item)
    OBVIOUS
  <2>4. Makes(<< >>, After(as, 0), FlattenSeq(as))
    BY <2>2, ConcatEmptySeq, Zenon DEF Makes
  <2>5. Reaches(g, n, data, << >>)
    <3>1. g[0] = [data |-> data, items |-> << >>]
      BY <1>6, Zenon DEF ParseRun
    <3>2. 0 \in 0..n /\ 0 + Len(data) <= n
      BY <1>5
    <3> QED
      BY <3>1, <3>2, Zenon DEF Reaches
  <2>6. Progress(g, n, items, 0, << >>)
    BY <2>1, <2>2, <2>3, <2>4, <2>5, Zenon DEF Progress
  <2> QED
    BY <2>1, <2>6, Zenon
<1> HIDE DEF data, ws, as, n, m
<1>8. ASSUME NEW i \in 0..m - 1, i \in D PROVE i + 1 \in D
  <2>1. i \in 0..m /\ i < m /\ i + 1 \in 0..m
    BY <1>1
  <2>2. PICK x : Progress(g, n, items, i, x)
    BY <1>8, Zenon
  <2>3. \E y : Progress(g, n, items, i + 1, y)
    BY <1>5, <1>6, <2>1, <2>2, NextItem, Zenon DEF n, m
  <2> QED
    BY <2>1, <2>3, Zenon
<1>9. m \in D
  <2> HIDE DEF D
  <2>1. \A i \in 0..m : i \in D
    BY <1>1, <1>7, <1>8, Induct
  <2> QED
    BY <1>1, <2>1
<1>10. PICK x : Progress(g, n, items, m, x)
  BY <1>9, Zenon
<1>11. After(as, m) = << >> /\ After(ws, m) = << >>
  BY <1>1, AfterAll, Zenon
<1>12. x \in Seq(Item) /\ x \o After(as, m) = FlattenSeq(as) /\ Reaches(g, n, After(ws, m), x)
  BY <1>10, Zenon DEF Progress, Makes, as, ws
<1>13. x = FlattenSeq(as)
  <2>1. x \o << >> = x
    BY <1>12, ConcatEmptySeq, Zenon
  <2> QED
    BY <1>11, <1>12, <2>1, Zenon
<1>14. Reaches(g, n, << >>, x)
  BY <1>11, <1>12, Zenon
<1>15. n \in Nat
  BY <1>5, Zenon DEF n
<1>16. g[n].items = x
  BY <1>6, <1>14, <1>15, ParseEnds
<1> QED
  BY <1>3, <1>6, <1>13, <1>16, Zenon DEF data

-----------------------------------------------------------------------------
(* decode of what encode wrote.                                             *)
\* g[k] is the state of decode after k rounds, and Ended what it makes of the last.
DecodeRun(g, data, n) ==
  /\ g[0] = [data |-> data, last |-> 0, buf |-> << >>, map |-> << >>]
  /\ \A k \in 0..n : k < n => g[k + 1] = Tlv!DecodeItem(g[k])

Ended(s) == IF s.buf = << >> THEN s.map ELSE Tlv!Put(s.map, s.last, s.buf)

\* Decode defines its states by recursion: there are such states.
LEMMA DecodeExists ==
  ASSUME NEW data, NEW n \in Nat
  PROVE  \E g : g = [k \in 0..n |-> IF k = 0 THEN [data |-> data, last |-> 0, buf |-> << >>, map |-> << >>]
                                             ELSE Tlv!DecodeItem(g[k - 1])]
<1> DEFINE s == [data |-> data, last |-> 0, buf |-> << >>, map |-> << >>]
           D == {m \in 0..n : \E g : g = [k \in 0..m |-> IF k = 0 THEN s ELSE Tlv!DecodeItem(g[k - 1])]}
<1>1. 0 \in D
  <2> DEFINE g == [k \in 0..0 |-> s]
  <2>1. g = [k \in 0..0 |-> IF k = 0 THEN s ELSE Tlv!DecodeItem(g[k - 1])]
    <3> HIDE DEF s
    <3> QED
      OBVIOUS
  <2>2. 0 \in 0..n
    OBVIOUS
  <2> HIDE DEF g
  <2> QED
    BY <2>1, <2>2, Zenon
<1>2. ASSUME NEW m \in 0..n - 1, m \in D PROVE m + 1 \in D
  <2>1. PICK g : g = [k \in 0..m |-> IF k = 0 THEN s ELSE Tlv!DecodeItem(g[k - 1])]
    BY <1>2, Zenon
  <2> HIDE DEF s
  <2> DEFINE h == [k \in 0..m + 1 |-> IF k = m + 1 THEN Tlv!DecodeItem(g[m]) ELSE g[k]]
  <2>2. ASSUME NEW k \in 0..m + 1
        PROVE  h[k] = IF k = 0 THEN s ELSE Tlv!DecodeItem(h[k - 1])
    <3>1. CASE k = m + 1
      <4>1. k # 0 /\ k - 1 = m /\ m \in 0..m + 1 /\ m # m + 1
        BY <3>1
      <4>2. h[m] = g[m] /\ h[k] = Tlv!DecodeItem(g[m])
        BY <3>1, <4>1, Zenon
      <4> HIDE DEF h
      <4> QED
        BY <4>1, <4>2, Zenon
    <3>2. CASE k # m + 1
      <4>1. k \in 0..m /\ (k # 0 => k - 1 \in 0..m + 1 /\ k - 1 # m + 1)
        BY <3>2
      <4>2. h[k] = g[k] /\ (k # 0 => h[k - 1] = g[k - 1])
        BY <3>2, <4>1, Zenon
      <4>3. g[k] = IF k = 0 THEN s ELSE Tlv!DecodeItem(g[k - 1])
        BY <2>1, <4>1, Zenon
      <4> HIDE DEF h
      <4> QED
        BY <4>2, <4>3, Zenon
    <3> QED
      BY <3>1, <3>2
  <2>3. h = [k \in 0..m + 1 |-> h[k]]
    BY Zenon
  <2> HIDE DEF h
  <2>4. h = [k \in 0..m + 1 |-> IF k = 0 THEN s ELSE Tlv!DecodeItem(h[k - 1])]
    <3>1. [k \in 0..m + 1 |-> h[k]] = [k \in 0..m + 1 |-> IF k = 0 THEN s ELSE Tlv!DecodeItem(h[k - 1])]
      BY <2>2, Zenon
    <3> QED
      BY <2>3, <3>1, Zenon
  <2>5. m + 1 \in 0..n
    OBVIOUS
  <2> QED
    BY <2>4, <2>5, Zenon DEF s
<1>3. \A m \in 0..n : m \in D
  <2> HIDE DEF D
  <2> QED
    BY <1>1, <1>2, Induct
<1>4. n \in 0..n
  OBVIOUS
<1> QED
  BY <1>3, <1>4, Zenon

LEMMA DecodeIs ==
  ASSUME NEW data, Len(data) \in Nat
  PROVE  \E g : DecodeRun(g, data, Len(data)) /\ Tlv!Decode(data) = Ended(g[Len(data)])
<1> DEFINE n == Len(data)
           s == [data |-> data, last |-> 0, buf |-> << >>, map |-> << >>]
           f == CHOOSE g : g = [k \in 0..n |-> IF k = 0 THEN s ELSE Tlv!DecodeItem(g[k - 1])]
<1>1. \E g : g = [k \in 0..n |-> IF k = 0 THEN s ELSE Tlv!DecodeItem(g[k - 1])]
  BY DecodeExists, Zenon
<1>2. f = [k \in 0..n |-> IF k = 0 THEN s ELSE Tlv!DecodeItem(f[k - 1])]
  BY <1>1, Zenon
<1>3. Tlv!Decode(data) = Ended(f[n])
  BY Zenon DEF Tlv!Decode, Ended
<1> HIDE DEF f
<1>4. f[0] = s
  <2>1. 0 \in 0..n
    OBVIOUS
  <2> QED
    BY <1>2, <2>1, Zenon
<1>5. ASSUME NEW k \in 0..n, k < n PROVE f[k + 1] = Tlv!DecodeItem(f[k])
  <2>1. k + 1 \in 0..n /\ k + 1 # 0 /\ (k + 1) - 1 = k
    BY <1>5
  <2> QED
    BY <1>2, <2>1, Zenon
<1>6. DecodeRun(f, data, n)
  BY <1>4, <1>5, Zenon DEF DecodeRun
<1> QED
  BY <1>3, <1>6, Zenon

-----------------------------------------------------------------------------
\* decode: a full part stays in buf, a shorter one ends the value.
Takes(tag, p, r, last, b, map) ==
  Tlv!DecodeItem([data |-> Tlv!Part(tag, p) \o r, last |-> last, buf |-> b, map |-> map])
    = IF Len(p) = MaxLen
        THEN [data |-> r, last |-> tag, buf |-> b \o p, map |-> map]
        ELSE [data |-> r, last |-> tag, buf |-> << >>, map |-> Tlv!Put(map, tag, b \o p)]

LEMMA DecodeRound ==
  ASSUME NEW tag \in Byte, NEW p \in Seq(Byte), Len(p) \in Byte, NEW r \in Seq(Byte),
         NEW last, NEW b, NEW map, b = << >> \/ tag = last
  PROVE  Takes(tag, p, r, last, b, map)
<1> DEFINE d == Tlv!Part(tag, p) \o r
           s == [data |-> d, last |-> last, buf |-> b, map |-> map]
<1>1. Begins(d, tag, p, r)
  BY PartFirst, Zenon
<1>2. /\ Len(d) = 2 + Len(p) + Len(r) /\ d[1] = tag /\ d[2] = Len(p)
      /\ SubSeq(d, 3, 2 + Len(p)) = p /\ SubSeq(d, 3 + Len(p), Len(d)) = r
  BY <1>1, Zenon DEF Begins
<1>3. Len(p) \in Nat /\ Len(r) \in Nat
  BY LenProperties
<1>4. s.data = d /\ s.last = last /\ s.buf = b /\ s.map = map
  OBVIOUS
<1> HIDE DEF d, s
<1>5. d # << >>
  BY <1>2, <1>3
<1>6. Tlv!DecodeItem(s) =
        IF s.data = << >>
          THEN s
          ELSE IF s.data[2] = MaxLen
            THEN [data |-> SubSeq(s.data, 3 + s.data[2], Len(s.data)), last |-> s.data[1],
                  buf |-> s.buf \o SubSeq(s.data, 3, 2 + s.data[2]), map |-> s.map]
            ELSE [data |-> SubSeq(s.data, 3 + s.data[2], Len(s.data)), last |-> s.data[1],
                  buf |-> << >>,
                  map |-> IF s.data[1] # s.last /\ s.buf # << >>
                            THEN Tlv!Insert(Tlv!Put(s.map, s.data[1], s.buf), s.data[1], << >>, SubSeq(s.data, 3, 2 + s.data[2]))
                            ELSE Tlv!Insert(s.map, s.data[1], s.buf, SubSeq(s.data, 3, 2 + s.data[2]))]
  BY Zenon DEF Tlv!DecodeItem
<1>7. ~(s.data[1] # s.last /\ s.buf # << >>)
  BY <1>2, <1>4, Zenon
<1>8. Tlv!Insert(s.map, s.data[1], s.buf, SubSeq(s.data, 3, 2 + s.data[2])) = Tlv!Put(map, tag, b \o p)
  BY <1>2, <1>4, Zenon DEF Tlv!Insert
<1>9. Tlv!DecodeItem(s) =
        IF Len(p) = MaxLen
          THEN [data |-> SubSeq(d, 3 + Len(p), Len(d)), last |-> tag, buf |-> b \o p, map |-> map]
          ELSE [data |-> SubSeq(d, 3 + Len(p), Len(d)), last |-> tag, buf |-> << >>, map |-> Tlv!Put(map, tag, b \o p)]
  BY <1>2, <1>4, <1>5, <1>6, <1>7, <1>8, Zenon
<1> QED
  BY <1>2, <1>9, Zenon DEF s, d, Takes

\* With d to go and l, b and map so far, decode has as many rounds left as bytes.
Gets(g, n, d, l, b, map) ==
  \E k \in 0..n : g[k] = [data |-> d, last |-> l, buf |-> b, map |-> map] /\ k + Len(d) <= n

LEMMA GetPart ==
  ASSUME NEW g, NEW data, NEW n \in Nat, DecodeRun(g, data, n), NEW last, NEW b, NEW map,
         NEW tag \in Byte, NEW p \in Seq(Byte), Len(p) \in Byte, NEW r \in Seq(Byte),
         b = << >> \/ tag = last,
         Gets(g, n, Tlv!Part(tag, p) \o r, last, b, map)
  PROVE  IF Len(p) = MaxLen
           THEN Gets(g, n, r, tag, b \o p, map)
           ELSE Gets(g, n, r, tag, << >>, Tlv!Put(map, tag, b \o p))
<1> DEFINE d == Tlv!Part(tag, p) \o r
<1>1. PICK k \in 0..n : /\ g[k] = [data |-> d, last |-> last, buf |-> b, map |-> map]
                        /\ k + Len(d) <= n
  BY DEF Gets
<1>2. Len(d) = 2 + Len(p) + Len(r)
  BY PartFirst, Zenon DEF Begins
<1>3. Tlv!DecodeItem([data |-> d, last |-> last, buf |-> b, map |-> map])
        = IF Len(p) = MaxLen
            THEN [data |-> r, last |-> tag, buf |-> b \o p, map |-> map]
            ELSE [data |-> r, last |-> tag, buf |-> << >>, map |-> Tlv!Put(map, tag, b \o p)]
  <2>1. Takes(tag, p, r, last, b, map)
    BY DecodeRound, Zenon
  <2> QED
    BY <2>1, Zenon DEF Takes
<1>4. Len(p) \in Nat /\ Len(r) \in Nat
  BY LenProperties
<1> HIDE DEF d
<1>5. k + 1 \in 0..n /\ k < n /\ (k + 1) + Len(r) <= n
  BY <1>1, <1>2, <1>4
<1>6. g[k + 1] = Tlv!DecodeItem(g[k])
  BY <1>5, Zenon DEF DecodeRun
<1>7. g[k + 1] = IF Len(p) = MaxLen
            THEN [data |-> r, last |-> tag, buf |-> b \o p, map |-> map]
            ELSE [data |-> r, last |-> tag, buf |-> << >>, map |-> Tlv!Put(map, tag, b \o p)]
  BY <1>1, <1>3, <1>6, Zenon
<1> QED
  BY <1>5, <1>7, Zenon DEF Gets

\* With nothing to go, the other rounds do nothing.
LEMMA DecodeEnds ==
  ASSUME NEW g, NEW data, NEW n \in Nat, DecodeRun(g, data, n), NEW l, NEW b, NEW map,
         Gets(g, n, << >>, l, b, map)
  PROVE  Ended(g[n]) = IF b = << >> THEN map ELSE Tlv!Put(map, l, b)
<1> DEFINE s == [data |-> << >>, last |-> l, buf |-> b, map |-> map]
<1>1. PICK k \in 0..n : g[k] = s
  BY DEF Gets
<1>2. Tlv!DecodeItem(s) = s
  <2>1. s.data = << >>
    OBVIOUS
  <2> HIDE DEF s
  <2> QED
    BY <2>1, Zenon DEF Tlv!DecodeItem
<1>3. s.last = l /\ s.buf = b /\ s.map = map
  OBVIOUS
<1> HIDE DEF s
<1> DEFINE D == {j \in 0..n - k : g[k + j] = s}
<1>4. 0 \in D
  <2>1. k + 0 = k /\ 0 \in 0..n - k
    OBVIOUS
  <2> QED
    BY <1>1, <2>1, Zenon
<1>5. ASSUME NEW j \in 0..(n - k) - 1, j \in D PROVE j + 1 \in D
  <2>1. k + j \in 0..n /\ k + j < n /\ (k + j) + 1 = k + (j + 1) /\ j + 1 \in 0..n - k
    OBVIOUS
  <2>2. g[(k + j) + 1] = Tlv!DecodeItem(g[k + j])
    BY <2>1, Zenon DEF DecodeRun
  <2> QED
    BY <1>2, <1>5, <2>1, <2>2, Zenon
<1>6. n - k \in Nat /\ n - k \in 0..n - k /\ k + (n - k) = n
  OBVIOUS
<1>7. n - k \in D
  <2> HIDE DEF D
  <2> QED
    BY <1>4, <1>5, <1>6, Induct
<1>8. g[n] = s
  BY <1>6, <1>7, Zenon
<1> QED
  BY <1>3, <1>8, Zenon DEF Ended

\* The value of the item has been read: what is in b is a value that ends with a
\* full part.
Valued(item, map, b, m) ==
  /\ (IF b = << >> THEN m ELSE Tlv!Put(m, item.tag, b)) = Tlv!Put(map, item.tag, item.value)
  /\ item.value = << >> \/ Len(item.value) % MaxLen # 0 => b = << >>

\* The parts of an item, when the buffer is empty before them.
LEMMA GetParts ==
  ASSUME NEW g, NEW data, NEW n \in Nat, DecodeRun(g, data, n),
         NEW item \in Item, item.value # << >>, NEW r \in Seq(Byte), NEW last, NEW map,
         Gets(g, n, FlattenSeq(TagParts(item)) \o r, last, << >>, map)
  PROVE  \E b, m : Gets(g, n, r, item.tag, b, m) /\ Valued(item, map, b, m)
<1> DEFINE ps == TagParts(item)
           m == Len(ps)
           T(j) == Taken(item.value, EndOf(item, j))
           At2(j) == \E l : /\ Gets(g, n, After(ps, j) \o r, l, T(j), map)
                            /\ T(j) = << >> \/ item.tag = l
           D == {j \in 0..m - 1 : At2(j)}
<1>1. /\ m \in Nat \ {0}
      /\ T(0) = << >>
      /\ T(m) = item.value
      /\ \A j \in 0..m : j < m =>
           \E c : /\ ps[j + 1] = Tlv!Part(item.tag, c)
                  /\ c \in Seq(Byte) /\ Len(c) \in Byte
                  /\ T(j) \o c = T(j + 1)
                  /\ j + 1 < m => Len(c) = MaxLen
                  /\ j + 1 = m => (Len(c) = MaxLen <=> Len(item.value) % MaxLen = 0)
  BY ValueParts, Zenon
<1>2. Parts(Byte, ps) /\ item.tag \in Byte
  BY TagPartsOf DEF Item
<1> HIDE DEF ps
<1>3. \A j \in 0..m : After(ps, j) \in Seq(Byte)
  BY <1>2, AfterType, Zenon
<1>4. ASSUME NEW j \in 0..m, j < m
      PROVE  After(ps, j) \o r = ps[j + 1] \o (After(ps, j + 1) \o r)
  <2>1. j + 1 \in 0..m /\ j + 1 \in 1..m
    BY <1>1, <1>4
  <2>2. After(ps, j) = ps[j + 1] \o After(ps, j + 1)
    BY <1>2, <1>4, AfterStep, Zenon
  <2>3. ps[j + 1] \in Seq(Byte) /\ After(ps, j + 1) \in Seq(Byte)
    BY <1>2, <1>3, <2>1, PartsElements, Zenon
  <2>4. \A x, y, z \in Seq(Byte) : (x \o y) \o z = x \o (y \o z)
    <3>1. Associate(Byte)
      BY Associative, Zenon
    <3> QED
      BY <3>1, Zenon DEF Associate
  <2>5. (ps[j + 1] \o After(ps, j + 1)) \o r = ps[j + 1] \o (After(ps, j + 1) \o r)
    BY <2>3, <2>4, Zenon
  <2> QED
    BY <2>2, <2>5, Zenon
<1>5. \A j \in 0..m : After(ps, j) \o r \in Seq(Byte)
  BY <1>3, ConcatProperties, Zenon
<1> HIDE DEF m
<1>6. 0 \in D
  <2>1. After(ps, 0) = FlattenSeq(ps)
    BY <1>2, AfterNone, Zenon
  <2>2. At2(0)
    BY <1>1, <2>1, Zenon DEF ps
  <2>3. 0 \in 0..m - 1
    BY <1>1
  <2> QED
    BY <2>2, <2>3, Zenon
<1>7. ASSUME NEW j \in 0..m, j < m, At2(j)
      PROVE  \E c : /\ T(j) \o c = T(j + 1)
                    /\ j + 1 < m => Len(c) = MaxLen
                    /\ j + 1 = m => (Len(c) = MaxLen <=> Len(item.value) % MaxLen = 0)
                    /\ IF Len(c) = MaxLen
                         THEN Gets(g, n, After(ps, j + 1) \o r, item.tag, T(j) \o c, map)
                         ELSE Gets(g, n, After(ps, j + 1) \o r, item.tag, << >>,
                                   Tlv!Put(map, item.tag, T(j) \o c))
  <2>1. j + 1 \in 0..m
    BY <1>1, <1>7
  <2>2. PICK c : /\ ps[j + 1] = Tlv!Part(item.tag, c)
                 /\ c \in Seq(Byte) /\ Len(c) \in Byte
                 /\ T(j) \o c = T(j + 1)
                 /\ j + 1 < m => Len(c) = MaxLen
                 /\ j + 1 = m => (Len(c) = MaxLen <=> Len(item.value) % MaxLen = 0)
    BY <1>1, <1>7, Zenon
  <2>3. PICK l : /\ Gets(g, n, After(ps, j) \o r, l, T(j), map)
                 /\ T(j) = << >> \/ item.tag = l
    BY <1>7, Zenon
  <2>4. Gets(g, n, Tlv!Part(item.tag, c) \o (After(ps, j + 1) \o r), l, T(j), map)
    BY <1>4, <1>7, <2>2, <2>3, Zenon
  <2>5. After(ps, j + 1) \o r \in Seq(Byte)
    BY <1>5, <2>1, Zenon
  <2>6. IF Len(c) = MaxLen
          THEN Gets(g, n, After(ps, j + 1) \o r, item.tag, T(j) \o c, map)
          ELSE Gets(g, n, After(ps, j + 1) \o r, item.tag, << >>, Tlv!Put(map, item.tag, T(j) \o c))
    BY <1>2, <2>2, <2>3, <2>4, <2>5, GetPart, Zenon
  <2> QED
    BY <2>2, <2>6, Zenon
<1>8. ASSUME NEW j \in 0..(m - 1) - 1, j \in D PROVE j + 1 \in D
  <2>1. j \in 0..m /\ j < m /\ j + 1 < m /\ j + 1 \in 0..m - 1
    BY <1>1
  <2>2. At2(j)
    BY <1>8, Zenon
  <2> HIDE DEF D
  <2>3. PICK c : /\ T(j) \o c = T(j + 1)
                 /\ Len(c) = MaxLen
                 /\ Gets(g, n, After(ps, j + 1) \o r, item.tag, T(j) \o c, map)
    BY <1>7, <2>1, <2>2, Zenon
  <2>4. At2(j + 1)
    BY <2>3, Zenon
  <2> QED
    BY <2>1, <2>4, Zenon DEF D
<1>9. m - 1 \in Nat /\ m - 1 \in 0..m - 1 /\ m - 1 \in 0..m /\ m - 1 < m /\ (m - 1) + 1 = m
  BY <1>1
<1>10. m - 1 \in D
  <2> HIDE DEF D
  <2>1. \A i \in 0..m - 1 : i \in D
    BY <1>6, <1>8, <1>9, Induct
  <2> QED
    BY <1>9, <2>1, Zenon
<1>11. At2(m - 1)
  BY <1>10, Zenon
<1>12. PICK c : /\ T(m - 1) \o c = T((m - 1) + 1)
                /\ Len(c) = MaxLen <=> Len(item.value) % MaxLen = 0
                /\ IF Len(c) = MaxLen
                     THEN Gets(g, n, After(ps, (m - 1) + 1) \o r, item.tag, T(m - 1) \o c, map)
                     ELSE Gets(g, n, After(ps, (m - 1) + 1) \o r, item.tag, << >>,
                               Tlv!Put(map, item.tag, T(m - 1) \o c))
  <2> HIDE DEF At2, T
  <2> DEFINE k == m - 1
  <2>1. k \in 0..m /\ k < m /\ At2(k) /\ k + 1 = m
    BY <1>9, <1>11, Zenon
  <2> HIDE DEF k
  <2>2. PICK c : /\ T(k) \o c = T(k + 1)
                 /\ k + 1 = m => (Len(c) = MaxLen <=> Len(item.value) % MaxLen = 0)
                 /\ IF Len(c) = MaxLen
                      THEN Gets(g, n, After(ps, k + 1) \o r, item.tag, T(k) \o c, map)
                      ELSE Gets(g, n, After(ps, k + 1) \o r, item.tag, << >>,
                                Tlv!Put(map, item.tag, T(k) \o c))
    BY <1>7, <2>1, Zenon
  <2>3. Len(c) = MaxLen <=> Len(item.value) % MaxLen = 0
    BY <2>1, <2>2, Zenon
  <2> QED
    BY <2>2, <2>3, Zenon DEF k
<1>13. After(ps, m) \o r = r
  <2>1. After(ps, m) = << >>
    BY <1>2, AfterAll, Zenon DEF m
  <2>2. << >> \o r = r
    BY ConcatEmptySeq, Zenon
  <2> QED
    BY <2>1, <2>2, Zenon
<1>14. T(m - 1) \o c = item.value /\ After(ps, (m - 1) + 1) \o r = r
  BY <1>1, <1>9, <1>12, <1>13, Zenon
<1> HIDE DEF T
<1>15. CASE Len(c) = MaxLen
  <2>1. Gets(g, n, r, item.tag, item.value, map) /\ Len(item.value) % MaxLen = 0
    BY <1>12, <1>14, <1>15, Zenon
  <2>2. Valued(item, map, item.value, map)
    BY <2>1, Zenon DEF Valued
  <2> QED
    BY <2>1, <2>2, Zenon
<1>16. CASE Len(c) # MaxLen
  <2>1. Gets(g, n, r, item.tag, << >>, Tlv!Put(map, item.tag, item.value))
    BY <1>12, <1>14, <1>16, Zenon
  <2>2. Valued(item, map, << >>, Tlv!Put(map, item.tag, item.value))
    BY Zenon DEF Valued
  <2> QED
    BY <2>1, <2>2, Zenon
<1> QED
  BY <1>15, <1>16, Zenon

LEMMA GetItem ==
  ASSUME NEW g, NEW data, NEW n \in Nat, DecodeRun(g, data, n),
         NEW item \in Item, NEW r \in Seq(Byte), NEW last, NEW map,
         Gets(g, n, Tlv!Bytes(item) \o r, last, << >>, map)
  PROVE  \E b, m : Gets(g, n, r, item.tag, b, m) /\ Valued(item, map, b, m)
<1>1. CASE item.value = << >>
  <2> DEFINE p == << >>
  <2>1. p \in Seq(Byte) /\ Len(p) \in Byte /\ Len(p) # MaxLen /\ p \o p = p
    BY WireAssumption DEF Byte
  <2>2. Tlv!Bytes(item) = Tlv!Part(item.tag, p)
    <3>1. <<item.tag, Len(p)>> \o p = <<item.tag, 0>>
      OBVIOUS
    <3> QED
      BY <1>1, <3>1, Zenon DEF Tlv!Bytes, Tlv!Part
  <2>3. item.tag \in Byte
    BY DEF Item
  <2>4. Gets(g, n, Tlv!Part(item.tag, p) \o r, last, p, map) /\ p = << >>
    BY <2>2, Zenon
  <2> HIDE DEF p
  <2>5. Gets(g, n, r, item.tag, << >>, Tlv!Put(map, item.tag, p \o p))
    BY <2>1, <2>3, <2>4, GetPart, Zenon
  <2>6. Gets(g, n, r, item.tag, << >>, Tlv!Put(map, item.tag, item.value))
    BY <1>1, <2>1, <2>4, <2>5, Zenon
  <2>7. Valued(item, map, << >>, Tlv!Put(map, item.tag, item.value))
    BY Zenon DEF Valued
  <2> QED
    BY <2>6, <2>7, Zenon
<1>2. CASE item.value # << >>
  BY <1>2, BytesOf, GetParts, Zenon
<1> QED
  BY <1>1, <1>2

\* The map holds the values of the first i items.
Collected(M, items, i) ==
  /\ M = [t \in {items[j].tag : j \in 1..i} |-> M[t]]
  /\ \A j \in 1..i : M[items[j].tag] = items[j].value

LEMMA PutCollected ==
  ASSUME NEW items, NEW i \in Nat, NEW M, Collected(M, items, i),
         \A j \in 1..i : items[j].tag # items[i + 1].tag
  PROVE  Collected(Tlv!Put(M, items[i + 1].tag, items[i + 1].value), items, i + 1)
<1> DEFINE tag == items[i + 1].tag
           value == items[i + 1].value
           A == {items[j].tag : j \in 1..i}
           B == {items[j].tag : j \in 1..i + 1}
           N == Tlv!Put(M, tag, value)
<1>1. M = [t \in A |-> M[t]] /\ \A j \in 1..i : M[items[j].tag] = items[j].value
  BY Zenon DEF Collected
<1>2. DOMAIN M = A
  BY <1>1, Zenon
<1>3. A \cup {tag} = B
  <2>1. 1..i + 1 = (1..i) \cup {i + 1}
    OBVIOUS
  <2> QED
    BY <2>1, Zenon
<1>4. N = [t \in B |-> IF t = tag THEN value ELSE M[t]]
  BY <1>2, <1>3, Zenon DEF Tlv!Put
<1> HIDE DEF N, B
<1>5. N = [t \in B |-> N[t]]
  BY <1>4, Zenon
<1>6. ASSUME NEW j \in 1..i + 1 PROVE N[items[j].tag] = items[j].value
  <2>1. items[j].tag \in B
    BY Zenon DEF B
  <2>2. CASE j \in 1..i
    <3>1. items[j].tag # tag
      BY <2>2, Zenon
    <3>2. N[items[j].tag] = M[items[j].tag]
      BY <1>4, <2>1, <3>1, Zenon
    <3> QED
      BY <1>1, <2>2, <3>2, Zenon
  <2>3. CASE j \notin 1..i
    <3>1. j = i + 1
      BY <2>3
    <3>2. N[items[j].tag] = value
      BY <1>4, <2>1, <3>1, Zenon
    <3> QED
      BY <3>1, <3>2, Zenon
  <2> QED
    BY <2>2, <2>3
<1> QED
  BY <1>5, <1>6, Zenon DEF Collected, B, N

LEMMA CollectedValues ==
  ASSUME NEW items, DOMAIN items = 1..Len(items), NEW M, Collected(M, items, Len(items))
  PROVE  M = Values(items)
<1> DEFINE A == {items[j].tag : j \in DOMAIN items}
           at == Lookup(items)
<1>1. /\ M = [t \in A |-> M[t]]
      /\ \A j \in DOMAIN items : M[items[j].tag] = items[j].value
  BY Zenon DEF Collected
<1>2. DOMAIN at = A /\ \A t \in A : at[t] = CHOOSE j \in DOMAIN items : items[j].tag = t
  BY Zenon DEF Lookup
<1>3. Values(items) = [t \in A |-> items[at[t]].value]
  BY <1>2, Zenon DEF Values
<1>4. ASSUME NEW t \in A PROVE M[t] = items[at[t]].value
  <2>1. \E j \in DOMAIN items : items[j].tag = t
    BY Zenon
  <2>2. at[t] \in DOMAIN items /\ items[at[t]].tag = t
    BY <1>2, <2>1, Zenon
  <2> QED
    BY <1>1, <2>2, Zenon
<1> HIDE DEF A, at
<1> QED
  BY <1>1, <1>3, <1>4, Zenon

-----------------------------------------------------------------------------
Encoded(items) == [i \in DOMAIN items |-> Tlv!Bytes(items[i])]

LEMMA EncodedParts ==
  ASSUME NEW items \in Seq(Item)
  PROVE  /\ Len(items) \in Nat /\ DOMAIN items = 1..Len(items)
         /\ Parts(Byte, Encoded(items)) /\ Len(Encoded(items)) = Len(items)
         /\ \A i \in 1..Len(items) : items[i] \in Item /\ Encoded(items)[i] = Tlv!Bytes(items[i])
<1> DEFINE n == Len(items)
           w(i) == Tlv!Bytes(items[i])
<1>1. n \in Nat /\ DOMAIN items = 1..n /\ \A i \in 1..n : items[i] \in Item
  OBVIOUS
<1>2. \A i \in 1..n : w(i) \in Seq(Byte)
  BY <1>1, ItemBytes, Zenon
<1>3. Encoded(items) = [i \in 1..n |-> w(i)]
  BY <1>1, Zenon DEF Encoded
<1> HIDE DEF n, w
<1>4. /\ Parts(Byte, [i \in 1..n |-> w(i)]) /\ Len([i \in 1..n |-> w(i)]) = n
      /\ \A i \in 1..n : [j \in 1..n |-> w(j)][i] = w(i)
  BY <1>1, <1>2 DEF Parts
<1> QED
  BY <1>1, <1>3, <1>4, Zenon DEF n, w

\* decode has read i items; only the last one may be in the buffer.
Collecting(g, n, items, i) ==
  \E l, b, m :
    /\ Gets(g, n, After(Encoded(items), i), l, b, m)
    /\ Collected(IF b = << >> THEN m ELSE Tlv!Put(m, l, b), items, i)
    /\ i < Len(items) => b = << >>

\* As long as no item ends with a full part before another, each finds the buffer
\* empty.
LEMMA CollectNext ==
  ASSUME NEW g, NEW data, NEW n \in Nat, DecodeRun(g, data, n),
         NEW items \in Seq(Item), Decodable(items), NEW i \in 0..Len(items), i < Len(items),
         Collecting(g, n, items, i)
  PROVE  Collecting(g, n, items, i + 1)
<1> DEFINE ws == Encoded(items)
           item == items[i + 1]
           r == After(ws, i + 1)
<1>1. /\ Len(items) \in Nat /\ DOMAIN items = 1..Len(items)
      /\ Parts(Byte, ws) /\ Len(ws) = Len(items)
      /\ \A j \in 1..Len(items) : items[j] \in Item /\ ws[j] = Tlv!Bytes(items[j])
  BY EncodedParts, Zenon
<1> HIDE DEF ws
<1>2. i + 1 \in 1..Len(items) /\ i \in Nat /\ i \in 0..Len(ws) /\ i < Len(ws) /\ i + 1 \in 0..Len(ws)
  BY <1>1
<1>3. item \in Item /\ ws[i + 1] = Tlv!Bytes(item)
  BY <1>1, <1>2, Zenon
<1>4. After(ws, i) = ws[i + 1] \o r /\ r \in Seq(Byte)
  BY <1>1, <1>2, AfterStep, AfterType, Zenon
<1>5. \A j \in 1..i : items[j].tag # items[i + 1].tag
  <2> TAKE j \in 1..i
  <2>1. j \in DOMAIN items /\ i + 1 \in DOMAIN items /\ j # i + 1
    BY <1>1, <1>2
  <2> QED
    BY <2>1, Zenon DEF Decodable
<1>6. PICK l, m : Gets(g, n, After(ws, i), l, << >>, m) /\ Collected(m, items, i)
  BY Zenon DEF Collecting, ws
<1> HIDE DEF item, r
<1>7. Gets(g, n, Tlv!Bytes(item) \o r, l, << >>, m)
  BY <1>3, <1>4, <1>6, Zenon
<1>8. PICK b, w : Gets(g, n, r, item.tag, b, w) /\ Valued(item, m, b, w)
  BY <1>3, <1>4, <1>7, GetItem, Zenon
<1>9. Collected(Tlv!Put(m, item.tag, item.value), items, i + 1)
  BY <1>2, <1>5, <1>6, PutCollected, Zenon DEF item
<1>10. Collected(IF b = << >> THEN w ELSE Tlv!Put(w, item.tag, b), items, i + 1)
  BY <1>8, <1>9, Zenon DEF Valued
<1>11. i + 1 < Len(items) => b = << >>
  BY <1>1, <1>2, <1>8, Zenon DEF Decodable, Valued, item
<1> QED
  BY <1>8, <1>10, <1>11, Zenon DEF Collecting, r, ws

\* decode finds what encode wrote, if it can tell the items apart (encode, decode).
LEMMA DecodesEncoded ==
  ASSUME NEW items \in Seq(Item), Decodable(items)
  PROVE  Tlv!Decode(Tlv!Encode(items)) = Values(items)
<1> DEFINE data == Tlv!Encode(items)
           ws == Encoded(items)
           m == Len(items)
<1>1. m \in Nat /\ DOMAIN items = 1..m /\ Parts(Byte, ws) /\ Len(ws) = m
  BY EncodedParts, Zenon
<1>2. data = FlattenSeq(ws)
  <2>1. data = Tlv!FlattenSeq(ws)
    BY Zenon DEF Tlv!Encode, Encoded
  <2> QED
    BY <2>1, SameFlatten, Zenon
<1>3. data \in Seq(Byte)
  BY <1>1, <1>2, FlattenType, Zenon
<1>4. Len(data) \in Nat
  BY <1>3, LenProperties
<1> DEFINE n == Len(data)
<1>5. PICK g : DecodeRun(g, data, n) /\ Tlv!Decode(data) = Ended(g[n])
  BY <1>4, DecodeIs, Zenon
<1> DEFINE D == {i \in 0..m : Collecting(g, n, items, i)}
<1>6. 0 \in D
  <2>1. 0 \in 0..m
    BY <1>1
  <2>2. After(ws, 0) = data
    BY <1>1, <1>2, AfterNone, Zenon
  <2>3. Gets(g, n, data, 0, << >>, << >>)
    <3>1. g[0] = [data |-> data, last |-> 0, buf |-> << >>, map |-> << >>]
      BY <1>5, Zenon DEF DecodeRun
    <3>2. 0 \in 0..n /\ 0 + Len(data) <= n
      BY <1>4
    <3> QED
      BY <3>1, <3>2, Zenon DEF Gets
  <2>4. Collected(<< >>, items, 0)
    <3>1. 1..0 = {} /\ DOMAIN << >> = {}
      OBVIOUS
    <3>2. << >> = [t \in {} |-> << >>[t]]
      OBVIOUS
    <3>3. {items[j].tag : j \in 1..0} = {}
      BY <3>1, Zenon
    <3> QED
      BY <3>1, <3>2, <3>3, Zenon DEF Collected
  <2>5. Collecting(g, n, items, 0)
    BY <2>2, <2>3, <2>4, Zenon DEF Collecting
  <2> QED
    BY <2>1, <2>5, Zenon
<1> HIDE DEF data, ws, n, m
<1>7. ASSUME NEW i \in 0..m - 1, i \in D PROVE i + 1 \in D
  <2>1. i \in 0..m /\ i < m /\ i + 1 \in 0..m
    BY <1>1
  <2>2. Collecting(g, n, items, i + 1)
    BY <1>4, <1>5, <1>7, <2>1, CollectNext, Zenon DEF n, m
  <2> QED
    BY <2>1, <2>2, Zenon
<1>8. Collecting(g, n, items, m)
  <2> HIDE DEF D
  <2>1. \A i \in 0..m : i \in D
    BY <1>1, <1>6, <1>7, Induct
  <2>2. m \in D
    BY <1>1, <2>1
  <2> QED
    BY <2>2, Zenon DEF D
<1>9. PICK l, b, w : /\ Gets(g, n, After(ws, m), l, b, w)
                     /\ Collected(IF b = << >> THEN w ELSE Tlv!Put(w, l, b), items, m)
  BY <1>8, Zenon DEF Collecting, ws
<1>10. After(ws, m) = << >>
  BY <1>1, AfterAll, Zenon
<1>11. Gets(g, n, << >>, l, b, w) /\ n \in Nat
  BY <1>4, <1>9, <1>10, Zenon DEF n
<1>12. Ended(g[n]) = IF b = << >> THEN w ELSE Tlv!Put(w, l, b)
  BY <1>5, <1>11, DecodeEnds
<1>13. Collected(Tlv!Decode(data), items, m)
  BY <1>5, <1>9, <1>12, Zenon
<1> QED
  BY <1>1, <1>13, CollectedValues, Zenon DEF data, m

-----------------------------------------------------------------------------
(* All that is decoded is what was sent.                                    *)
LEMMA PlainTags ==
  ASSUME NEW items \in Seq([tag : Byte \ {0}, value : Seq(Byte)])
  PROVE  \A j \in DOMAIN items : items[j].tag # 0
<1>1. PICK X : X = [tag : Byte \ {0}, value : Seq(Byte)]
  OBVIOUS
<1>2. \A x \in X : x.tag # 0
  BY <1>1
<1>3. items \in Seq(X)
  BY <1>1
<1>4. \A j \in DOMAIN items : items[j] \in X
  BY <1>3, LenProperties, ElementOfSeq
<1> QED
  BY <1>2, <1>4, Zenon

LEMMA TlvKept ==
  ASSUME FromSample, RecordsInv
  PROVE  TlvSurvives
<1>1. Len(sent) \in Nat /\ DOMAIN sent = 1..Len(sent)
  BY SampleSent
<1>2. ASSUME format \in {"tlv", "tlv8"}, NEW f, f = [i \in 1..Len(sent) |-> f[i]],
             \A i \in 1..Len(sent) : f[i] = AsRead(i)
      PROVE  Survives(f)
  <2>1. PICK n \in 0..Len(sent) : ReadSoFar(n)
    BY <1>2, Zenon DEF RecordsInv
  <2>2. state \in {"open", "closed"}
    BY <1>2, Zenon DEF RecordsInv
  <2>3. got = [i \in 1..n |-> AsRead(i)] /\ (state = "closed" => n = Len(sent))
    BY <2>1, Zenon DEF ReadSoFar
  <2>4. \A i \in 1..n : AsRead(i) = f[i]
    <3>1. \A i \in 1..n : i \in 1..Len(sent)
      BY <1>1
    <3> QED
      BY <1>2, <3>1, Zenon
  <2>5. got = [i \in 1..n |-> f[i]]
    BY <2>3, <2>4, Zenon
  <2> QED
    BY <1>1, <1>2, <2>2, <2>3, <2>5, SoFar, Zenon
<1>3. ASSUME format = "tlv", \A i \in DOMAIN sent : Decodable(sent[i])
      PROVE  Survives([i \in DOMAIN sent |-> Values(sent[i])])
  <2> DEFINE f == [i \in DOMAIN sent |-> Values(sent[i])]
  <2>1. ASSUME NEW i \in 1..Len(sent) PROVE f[i] = AsRead(i)
    <3>1. sent[i] \in Seq(Item) /\ Decodable(sent[i])
      BY <1>1, <1>3, ItemsSent, Zenon
    <3>2. AsRead(i) = Tlv!Decode(Tlv!Encode(sent[i]))
      BY <1>3, Zenon DEF AsRead, Body
    <3>3. Tlv!Decode(Tlv!Encode(sent[i])) = Values(sent[i])
      BY <3>1, DecodesEncoded
    <3> QED
      BY <1>1, <3>2, <3>3, Zenon
  <2>2. f = [i \in 1..Len(sent) |-> f[i]]
    BY <1>1, Zenon
  <2>3. format \in {"tlv", "tlv8"}
    BY <1>3
  <2> HIDE DEF f
  <2>4. Survives(f)
    BY <1>2, <2>1, <2>2, <2>3, Zenon
  <2> QED
    BY <2>4, Zenon DEF f
<1>4. ASSUME format = "tlv8"
      PROVE  Survives([i \in DOMAIN sent |-> Separated(sent[i])])
  <2> DEFINE f == [i \in DOMAIN sent |-> Separated(sent[i])]
  <2>0. format \in {"tlv", "tlv8"} /\ format # "tlv"
    BY <1>4
  <2>1. ASSUME NEW i \in 1..Len(sent) PROVE f[i] = AsRead(i)
    <3>1. Plainly(sent[i])
      <4>1. sent[i] \in Seq(Item)
        BY <2>0, ItemsSent, Zenon
      <4>2. Sendable(format, sent[i])
        BY SampleSent
      <4>3. sent[i] \in Seq([tag : Byte \ {0}, value : Seq(Byte)])
        BY <1>4, <4>2 DEF Sendable
      <4>4. \A j \in DOMAIN sent[i] : sent[i][j].tag # 0
        BY <4>3, PlainTags
      <4> QED
        BY <4>1, <4>4, Zenon DEF Plainly
    <3>2. AsRead(i) = Tlv!Parse(Tlv!Build(sent[i]))
      BY <2>0, Zenon DEF AsRead, Body
    <3>3. Tlv!Parse(Tlv!Build(sent[i])) = Separated(sent[i])
      BY <3>1, ParseBuilds
    <3> QED
      BY <1>1, <3>2, <3>3, Zenon
  <2>2. f = [i \in 1..Len(sent) |-> f[i]]
    BY <1>1, Zenon
  <2> HIDE DEF f
  <2>4. Survives(f)
    BY <1>2, <2>0, <2>1, <2>2, Zenon
  <2> QED
    BY <2>4, Zenon DEF f
<1> QED
  BY <1>3, <1>4, Zenon DEF TlvSurvives

\* Every pairing request whose values decode can tell apart arrives with all of
\* them, and every value of the camera services item by item, however the records
\* and the connection cut them (decrypt_buffered_record, decode, parse).
THEOREM RecordsCarryValues == WireSpec => []TlvSurvives
<1>1. WireInit => FromSample /\ RecordsInv
  BY RecordsStart
<1>2. (FromSample /\ RecordsInv) /\ [WireNext]_wireVars => (FromSample /\ RecordsInv)'
  BY RecordsStep
<1>3. FromSample /\ RecordsInv => TlvSurvives
  BY TlvKept
<1> QED
  BY <1>1, <1>2, <1>3, PTL DEF WireSpec

-----------------------------------------------------------------------------
(* Type correctness of WireFormats.                                         *)
LineByte == Byte \ {192}
LineCell == [nonce : {0}, at : {0}, byte : LineByte]
ReadByte == Nat \ (128..255)
ReadCell == [nonce : {0}, at : {0}, byte : ReadByte]

\* A set of places in a buffer has a first one.
LEMMA LeastIn ==
  ASSUME NEW n \in Nat, NEW S, S \subseteq 1..n, S # {}
  PROVE  \E i \in S : \A j \in S : i <= j
<1> DEFINE D == {k \in 0..n : (\E j \in S : j <= k) => \E i \in S : \A j \in S : i <= j}
<1>1. 0 \in D
  OBVIOUS
<1>2. ASSUME NEW k \in 0..n - 1, k \in D PROVE k + 1 \in D
  <2>1. CASE \E j \in S : j <= k
    BY <1>2, <2>1
  <2>2. CASE ~ \E j \in S : j <= k
    <3>1. \A j \in S : k + 1 <= j
      BY <2>2
    <3>2. ASSUME NEW j \in S, j <= k + 1 PROVE j = k + 1
      BY <3>1, <3>2
    <3> QED
      BY <3>1, <3>2
  <2> QED
    BY <2>1, <2>2
<1>3. n \in D
  <2> HIDE DEF D
  <2> QED
    BY <1>1, <1>2, Induct
<1>4. PICK j \in S : j <= n
  <2>1. PICK j : j \in S
    OBVIOUS
  <2>2. j \in 1..n
    BY <2>1
  <2> QED
    BY <2>1, <2>2
<1> QED
  BY <1>3, <1>4

\* An event line is written without byte 192, which begins no character.
LEMMA LineWritten ==
  ASSUME NEW line \in Seq(Nat), \A i \in DOMAIN line : Character(line[i])
  PROVE  PlainAll(LineBytes(line)) \in Seq(LineCell)
<1> DEFINE n == Len(line)
           w(i) == IF Wide(line[i]) THEN <<line[i] \div 256 + 192, line[i] % 256>> ELSE <<line[i]>>
           f == [i \in DOMAIN line |-> w(i)]
<1>1. n \in Nat /\ DOMAIN line = 1..n /\ \A i \in 1..n : line[i] \in Nat /\ Character(line[i])
  OBVIOUS
<1>2. ASSUME NEW ch \in Nat, Character(ch)
      PROVE  (IF Wide(ch) THEN <<ch \div 256 + 192, ch % 256>> ELSE <<ch>>) \in Seq(LineByte)
  <2>1. CASE Wide(ch)
    <3>1. PICK q, r : q = ch \div 256 /\ r = ch % 256 /\ q \in 1..63 /\ r \in 128..191
      BY <2>1 DEF Wide
    <3>2. q + 192 \in LineByte /\ r \in LineByte
      BY <3>1 DEF LineByte, Byte
    <3>3. <<q + 192, r>> \in Seq(LineByte)
      BY <3>2
    <3> QED
      BY <2>1, <3>1, <3>3
  <2>2. CASE ~Wide(ch)
    <3>1. ch \in LineByte
      BY <1>2, <2>2 DEF Character, LineByte, Byte
    <3> QED
      BY <2>2, <3>1
  <2> QED
    BY <2>1, <2>2
<1>3. \A i \in 1..n : w(i) \in Seq(LineByte)
  BY <1>1, <1>2, Zenon
<1>4. f = [i \in 1..n |-> w(i)]
  BY <1>1, Zenon
<1> HIDE DEF w, n
<1>5. Parts(LineByte, [i \in 1..n |-> w(i)])
  BY <1>1, <1>3 DEF Parts
<1>6. FlattenSeq(f) \in Seq(LineByte)
  BY <1>4, <1>5, FlattenType, Zenon
<1>7. <<Newline>> \in Seq(LineByte)
  BY DEF Newline, LineByte, Byte
<1>8. LineBytes(line) = FlattenSeq(f) \o <<Newline>>
  BY Zenon DEF LineBytes, w
<1>9. LineBytes(line) \in Seq(LineByte)
  BY <1>6, <1>7, <1>8, ConcatProperties, Zenon
<1>10. \A s \in Seq(LineByte) : [i \in DOMAIN s |-> Plain(s[i])] \in Seq(LineCell)
  <2>1. \A b \in LineByte : Plain(b) \in LineCell
    BY DEF Plain, LineCell
  <2> HIDE DEF LineByte, LineCell, Plain
  <2> QED
    BY <2>1
<1> QED
  BY <1>9, <1>10, Zenon DEF PlainAll

LEMMA HighAndLow ==
  /\ \A a, b \in LineByte : a >= 192 => (a - 192) * 256 + b \in ReadByte
  /\ \A b \in LineByte : ~(b >= 192) /\ b \notin 128..191 => b \in ReadByte
  /\ 65533 \in ReadByte
<1>1. \A a \in LineByte : a \in 0..255 /\ a # 192
  BY DEF LineByte, Byte
<1>2. ASSUME NEW a \in LineByte, NEW b \in LineByte, a >= 192
      PROVE  (a - 192) * 256 + b \in ReadByte
  <2>1. a \in 193..255 /\ b \in 0..255
    BY <1>1, <1>2
  <2> QED
    BY <2>1 DEF ReadByte
<1>3. ASSUME NEW b \in LineByte, ~(b >= 192), b \notin 128..191
      PROVE  b \in ReadByte
  <2>1. b \in 0..127
    BY <1>1, <1>3
  <2> QED
    BY <2>1 DEF ReadByte
<1> QED
  BY <1>2, <1>3 DEF ReadByte

\* What from_utf8_lossy makes of them has no byte of a wide character.
LEMMA LossyCells ==
  ASSUME NEW cells \in Seq(LineCell)
  PROVE  Lossy(cells) \in Seq(ReadCell)
<1> DEFINE n == Len(cells)
           w(i) == CASE IsHigh(cells, i) -> IF i < Len(cells)
                          THEN <<Plain((cells[i].byte - 192) * 256 + cells[i + 1].byte)>>
                          ELSE <<Plain(65533)>>
                     [] ~IsHigh(cells, i) /\ IsHigh(cells, i - 1) -> << >>
                     [] ~IsHigh(cells, i) /\ ~IsHigh(cells, i - 1) ->
                          IF cells[i].byte \in 128..191 THEN <<Plain(65533)>> ELSE <<cells[i]>>
<1>1. n \in Nat /\ DOMAIN cells = 1..n /\ \A i \in 1..n : cells[i] \in LineCell
  OBVIOUS
<1>2. \A i \in 1..n : cells[i].byte \in LineByte
  BY <1>1 DEF LineCell
<1>3. \A b \in ReadByte : <<Plain(b)>> \in Seq(ReadCell)
  BY DEF Plain, ReadCell
<1>4. ASSUME NEW i \in 1..n PROVE w(i) \in Seq(ReadCell)
  <2>1. CASE IsHigh(cells, i)
    <3>1. CASE i < Len(cells)
      <4>1. i + 1 \in 1..n
        BY <1>1, <3>1
      <4>2. PICK a, b : a = cells[i].byte /\ b = cells[i + 1].byte /\ a \in LineByte /\ b \in LineByte
        BY <1>2, <4>1
      <4>3. a >= 192
        BY <2>1, <4>2 DEF IsHigh
      <4>4. (a - 192) * 256 + b \in ReadByte
        BY <4>2, <4>3, HighAndLow
      <4>5. w(i) = <<Plain((a - 192) * 256 + b)>>
        BY <2>1, <3>1, <4>2
      <4>6. PICK x \in ReadByte : w(i) = <<Plain(x)>>
        <5> HIDE DEF w
        <5> QED
          BY <4>4, <4>5
      <4> HIDE DEF w
      <4> QED
        BY <1>3, <4>6, Zenon
    <3>2. CASE ~(i < Len(cells))
      <4>1. w(i) = <<Plain(65533)>>
        BY <2>1, <3>2
      <4> HIDE DEF w
      <4>2. PICK x \in ReadByte : w(i) = <<Plain(x)>>
        <5>1. PICK x : x = 65533
          OBVIOUS
        <5>2. x \in ReadByte
          BY <5>1, HighAndLow
        <5>3. w(i) = <<Plain(x)>>
          BY <4>1, <5>1
        <5> QED
          BY <5>2, <5>3, Zenon
      <4> QED
        BY <1>3, <4>2, Zenon
    <3> QED
      BY <3>1, <3>2
  <2>2. CASE ~IsHigh(cells, i) /\ IsHigh(cells, i - 1)
    <3>1. w(i) = << >>
      BY <2>2
    <3> QED
      BY <3>1
  <2>3. CASE ~IsHigh(cells, i) /\ ~IsHigh(cells, i - 1)
    <3>1. CASE cells[i].byte \in 128..191
      <4>1. w(i) = <<Plain(65533)>>
        BY <2>3, <3>1
      <4> HIDE DEF w
      <4>2. PICK x \in ReadByte : w(i) = <<Plain(x)>>
        <5>1. PICK x : x = 65533
          OBVIOUS
        <5>2. x \in ReadByte
          BY <5>1, HighAndLow
        <5>3. w(i) = <<Plain(x)>>
          BY <4>1, <5>1
        <5> QED
          BY <5>2, <5>3, Zenon
      <4> QED
        BY <1>3, <4>2, Zenon
    <3>2. CASE cells[i].byte \notin 128..191
      <4>1. w(i) = <<cells[i]>>
        BY <2>3, <3>2
      <4>2. cells[i].byte \in ReadByte
        <5>1. PICK b : b = cells[i].byte /\ b \in LineByte
          BY <1>2
        <5>2. ~(b >= 192) /\ b \notin 128..191
          BY <1>1, <2>3, <3>2, <5>1 DEF IsHigh
        <5> HIDE DEF w
        <5> QED
          BY <5>1, <5>2, HighAndLow
      <4>3. cells[i] \in ReadCell
        BY <1>1, <4>2 DEF LineCell, ReadCell
      <4> QED
        BY <4>1, <4>3
    <3> QED
      BY <3>1, <3>2
  <2> QED
    BY <2>1, <2>2, <2>3
<1>5. Lossy(cells) = FlattenSeq([i \in DOMAIN cells |-> w(i)])
  BY DEF Lossy
<1> HIDE DEF w, n
<1>6. Parts(ReadCell, [i \in 1..n |-> w(i)])
  BY <1>1, <1>4 DEF Parts
<1> QED
  BY <1>1, <1>5, <1>6, FlattenType, Zenon

-----------------------------------------------------------------------------
\* The buffer of the event stream and the counter of a data stream.
WireTyped ==
  /\ state \in {"open", "closed", "failed"}
  /\ format = "hds" => counter = Len(got) /\ counter \in Nat /\ \E S : got \in Seq(S)
  /\ format = "event" => wire \in Seq(LineCell) /\ buf \in Seq(ReadCell)
  /\ format \in {"hds", "event"} => plain = << >>

LEMMA TypedStart ==
  ASSUME WireInit
  PROVE  WireTyped
<1>1. PICK sample \in Samples, peer \in BOOLEAN :
         format = sample.format /\ sent = sample.messages /\ wire = WireOf(format, sent, peer)
  BY DEF WireInit
<1>2. FromSample
  BY <1>1 DEF FromSample
<1>3. buf = << >> /\ counter = 0 /\ plain = << >> /\ got = << >> /\ state = "open"
  BY DEF WireInit
<1>4. ASSUME format = "event" PROVE wire \in Seq(LineCell)
  <2> DEFINE n == Len(sent)
             w(i) == PlainAll(LineBytes(sent[i]))
  <2>1. n \in Nat /\ DOMAIN sent = 1..n /\ \A i \in 1..n : Sendable(format, sent[i])
    BY <1>2, SampleSent
  <2>2. ASSUME NEW i \in 1..n PROVE w(i) \in Seq(LineCell)
    <3>1. sent[i] \in Seq(Nat) /\ \A j \in DOMAIN sent[i] : Character(sent[i][j])
      BY <1>4, <2>1 DEF Sendable
    <3> QED
      BY <3>1, LineWritten, Zenon
  <2>3. Lines(sent) = [i \in 1..n |-> w(i)]
    BY <2>1, Zenon DEF Lines
  <2>4. wire = FlattenSeq(Lines(sent))
    BY <1>1, <1>4 DEF WireOf
  <2> HIDE DEF w, n
  <2>5. Parts(LineCell, [i \in 1..n |-> w(i)])
    BY <2>1, <2>2 DEF Parts
  <2> QED
    BY <2>3, <2>4, <2>5, FlattenType, Zenon
<1>5. << >> \in Seq(ReadCell) /\ \E S : << >> \in Seq(S)
  OBVIOUS
<1>6. Len(got) = 0
  BY <1>3
<1> QED
  BY <1>3, <1>4, <1>5, <1>6 DEF WireTyped

LEMMA TypedStep ==
  ASSUME WireTyped, [WireNext]_wireVars
  PROVE  WireTyped'
<1>1. CASE \E n \in Cuts : Arrive(n)
  <2>1. PICK n \in Cuts : Arrive(n)
    BY <1>1
  <2>2. n \in Nat /\ n <= Len(wire)
    <3>1. n \in Nat
      BY CutsAssumption
    <3>2. n <= Len(wire)
      BY <2>1, Zenon DEF Arrive
    <3> QED
      BY <3>1, <3>2
  <2>3. UNCHANGED <<format, counter, plain, got, state>>
    BY <2>1 DEF Arrive
  <2>4. ASSUME format = "event" PROVE wire' \in Seq(LineCell) /\ buf' \in Seq(ReadCell)
    <3>1. wire \in Seq(LineCell) /\ buf \in Seq(ReadCell)
      BY <2>4, Zenon DEF WireTyped
    <3>2. wire' = SubSeq(wire, n + 1, Len(wire)) /\ buf' = buf \o Lossy(SubSeq(wire, 1, n))
      BY <2>1, <2>4 DEF Arrive, Drop
    <3>3. SubSeq(wire, n + 1, Len(wire)) \in Seq(LineCell) /\ SubSeq(wire, 1, n) \in Seq(LineCell)
      BY <2>2, <3>1
    <3>4. Lossy(SubSeq(wire, 1, n)) \in Seq(ReadCell)
      BY <3>3, LossyCells, Zenon
    <3> QED
      BY <3>1, <3>2, <3>3, <3>4, ConcatProperties, Zenon
  <2> QED
    BY <2>3, <2>4, Zenon DEF WireTyped
<1>2. CASE ReadFrame
  <2>1. format = "hds" /\ UNCHANGED <<format, plain>>
    BY <1>2 DEF ReadFrame, FrameComplete, Update
  <2>2. PICK S : got \in Seq(S)
    BY <2>1, Zenon DEF WireTyped
  <2>3. counter = Len(got) /\ counter \in Nat /\ state = "open" /\ plain = << >>
    BY <1>2, <2>1 DEF WireTyped, ReadFrame
  <2>4. \/ counter' = counter /\ got' = got /\ state' = "failed"
        \/ \E e : counter' = counter + 1 /\ got' = Append(got, e) /\ state' = state
    BY <1>2 DEF ReadFrame, Update
  <2>5. ASSUME NEW e PROVE Append(got, e) \in Seq(S \cup {e}) /\ Len(Append(got, e)) = Len(got) + 1
    <3>1. got \in Seq(S \cup {e})
      BY <2>2, SeqMonotonic
    <3> QED
      BY <3>1, AppendProperties
  <2>6. counter' = Len(got') /\ counter' \in Nat /\ \E T : got' \in Seq(T)
    <3>1. CASE counter' = counter /\ got' = got
      BY <2>2, <2>3, <3>1, Zenon
    <3>2. CASE \E e : counter' = counter + 1 /\ got' = Append(got, e)
      <4>1. PICK e : counter' = counter + 1 /\ got' = Append(got, e)
        BY <3>2
      <4>2. counter + 1 \in Nat
        BY <2>3
      <4> QED
        BY <2>3, <2>5, <4>1, <4>2, Zenon
    <3> QED
      BY <2>4, <3>1, <3>2, Zenon
  <2>7. state' \in {"open", "closed", "failed"} /\ format' = "hds" /\ plain' = << >>
    BY <2>1, <2>3, <2>4
  <2>8. format' # "event"
    BY <2>7
  <2> QED
    BY <2>6, <2>7, <2>8, Zenon DEF WireTyped
<1>3. CASE ReadRecord \/ ReadBody
  <2>1. format \in {"tlv", "tlv8"} /\ format' = format
    BY <1>3 DEF ReadRecord, ReadBody, RecordComplete, BodyComplete, Update
  <2>2. state' \in {"open", "closed", "failed"}
    BY <1>3 DEF ReadRecord, ReadBody, Update
  <2> QED
    BY <2>1, <2>2 DEF WireTyped
<1>4. CASE ReadLine
  <2>1. format = "event" /\ UNCHANGED <<format, plain, wire, state>>
    BY <1>4 DEF ReadLine, Newlines, Update
  <2>2. wire \in Seq(LineCell) /\ buf \in Seq(ReadCell) /\ plain = << >>
    BY <2>1 DEF WireTyped
  <2>3. Newlines \subseteq 1..Len(buf) /\ Newlines # {} /\ Len(buf) \in Nat
    <3>1. Newlines # {}
      BY <1>4, Zenon DEF ReadLine
    <3>2. DOMAIN buf = 1..Len(buf) /\ Len(buf) \in Nat
      BY <2>2, LenProperties, Zenon
    <3>3. Newlines \subseteq DOMAIN buf
      BY <2>1, Zenon DEF Newlines
    <3> QED
      BY <3>1, <3>2, <3>3, Zenon
  <2> DEFINE i == CHOOSE i \in Newlines : \A j \in Newlines : i <= j
  <2>4. i \in Newlines
    BY <2>3, LeastIn
  <2>5. buf' = Rest(buf, i)
    BY <1>4 DEF ReadLine, Update
  <2> HIDE DEF i
  <2>6. SubSeq(buf, i + 1, Len(buf)) \in Seq(ReadCell)
    BY <2>2, <2>3, <2>4
  <2>7. buf' \in Seq(ReadCell)
    BY <2>5, <2>6, Zenon DEF Rest, Drop
  <2>8. format' # "hds" /\ state' \in {"open", "closed", "failed"} /\ wire' \in Seq(LineCell) /\ plain' = << >>
    BY <2>1, <2>2 DEF WireTyped
  <2> QED
    BY <2>7, <2>8, Zenon DEF WireTyped
<1>5. CASE Eof
  <2>1. UNCHANGED <<format, wire, buf, counter, plain, got>> /\ state' \in {"failed", "closed"}
    BY <1>5 DEF Eof, Update
  <2> QED
    BY <2>1 DEF WireTyped
<1>6. CASE UNCHANGED wireVars
  BY <1>6, Zenon DEF WireTyped, wireVars
<1> QED
  BY <1>1, <1>2, <1>3, <1>4, <1>5, <1>6 DEF WireNext

\* Type correctness of WireFormats: the counter of a data stream counts its frames,
\* and the buffer of the event stream holds no half of a character
\* (read_counter, stream_events).
THEOREM WireTypes == WireSpec => []WireTypeOK
<1>1. WireInit => FromSample /\ RecordsInv /\ WireTyped
  BY RecordsStart, TypedStart
<1>2. (FromSample /\ RecordsInv /\ WireTyped) /\ [WireNext]_wireVars
        => (FromSample /\ RecordsInv /\ WireTyped)'
  BY RecordsStep, TypedStep
<1>3. ASSUME FromSample, RecordsInv, WireTyped PROVE WireTypeOK
  <2>1. format \in Formats
    BY <1>3, SampleSent
  <2>2. \A i \in DOMAIN plain : plain[i] \in 0..255
    <3>1. plain \in Seq(Byte)
      <4>1. CASE format \in {"tlv", "tlv8"}
        BY <1>3, <4>1, Zenon DEF RecordsInv
      <4>2. CASE format \notin {"tlv", "tlv8"}
        <5>1. plain = << >>
          BY <1>3, <2>1, <4>2 DEF WireTyped, Formats
        <5> QED
          BY <5>1
      <4> QED
        BY <4>1, <4>2
    <3>2. \A i \in DOMAIN plain : plain[i] \in Byte
      BY <3>1, LenProperties, ElementOfSeq
    <3> QED
      BY <3>2, Zenon DEF Byte
  <2>3. format = "event" => \A i \in DOMAIN buf : buf[i].byte \notin 128..255
    <3>1. \A c \in ReadCell : c.byte \notin 128..255
      BY DEF ReadCell, ReadByte
    <3>2. \A s \in Seq(ReadCell) : \A i \in DOMAIN s : s[i] \in ReadCell
      BY LenProperties, ElementOfSeq
    <3> QED
      BY <1>3, <3>1, <3>2, Zenon DEF WireTyped
  <2> QED
    BY <1>3, <2>1, <2>2, <2>3, Zenon DEF WireTypeOK, WireTyped
<1> QED
  BY <1>1, <1>2, <1>3, PTL DEF WireSpec
=============================================================================
