----------------------------- MODULE HdsSession -----------------------------
(***************************************************************************)
(* How an HDS connection comes to be (src/hsv/hds.rs): a setup write on a  *)
(* HAP session (src/accessory.rs) derives keys and leaves a prepared       *)
(* session, and the first frame of a new TCP connection is tried against   *)
(* all prepared sessions.  A key stands for what it is derived from: the   *)
(* shared secret of a HAP session and the two salts of one setup, which    *)
(* the number of the setup stands for.                                     *)
(*                                                                         *)
(* The shared secret reaches the setup handler through one slot for all    *)
(* HAP sessions (transport/http/server.rs): call() fills it when a PUT     *)
(* arrives, the handler reads it when it has got the accessory lock.       *)
(*                                                                         *)
(* The handler leaves its answer, with the accessory's salt, for one read: *)
(* the one that write_characteristic does under the same lock if the write *)
(* asks for its response, else whichever comes first.  Later reads get the *)
(* last successful answer without its salt.                                *)
(*                                                                         *)
(* Inner.prepared is a vector that is searched from the front; the salts   *)
(* make its keys distinct, so which of them is first decides nothing, and  *)
(* it is a set here.                                                       *)
(***************************************************************************)
EXTENDS Integers, FiniteSets

CONSTANTS Sessions,   \* HAP sessions that have completed pair-verify
          Conns,      \* HDS connections
          NoSession,  \* the slot before any write, or after an unverified one
          MaxSetups   \* bound: setup writes

ASSUME HdsSessionAssumption ==
  /\ NoSession \notin Sessions
  /\ MaxSetups \in Nat

Setups == 1..MaxSetups
Key == [secret : Sessions, setup : Setups]
NoKey == [none |-> TRUE]

VARIABLES slot,      \* the shared secret slot: whose secret it holds
          put,       \* the setup write each HAP session has under way, and
                     \* whether another PUT has arrived since
          listener,  \* Inner.listener, and whether its accept loop still runs
          prepared,  \* Inner.prepared
          stale,     \* the setups older than PREPARED_SESSION_TTL
          answered,  \* what each setup write was answered: its session's key
          setups,
          pending,   \* the setup whose answer waits for a read, or 0
          told,      \* history: the last such answer that was read, and to
                     \* which session it went
          conn       \* the HDS connections

answers == <<pending, told>>
vars == <<slot, put, listener, prepared, stale, answered, setups, pending, told, conn>>

(***************************************************************************)
(* pc: "first" waits for the first frame, "hello" is identified and has    *)
(* its first payload in hand, "ready" has said hello.                      *)
(***************************************************************************)
Conn == [pc : {"none", "first", "hello", "ready", "closed"},
         key : Key \cup {NoKey}]

NoConn == [pc |-> "none", key |-> NoKey]

\* alone: no other PUT arrived between this one and its handler.
Answer == [to : Sessions, ok : BOOLEAN, alone : BOOLEAN]
NoAnswer == [to |-> NoSession]

TypeOK ==
  /\ slot \in Sessions \cup {NoSession}
  /\ put \in [Sessions -> {"none", "waiting", "crossed"}]
  /\ listener \in {"none", "open", "ended"}
  /\ prepared \subseteq Key
  /\ stale \subseteq Setups
  /\ answered \in [Setups -> Answer \cup {NoAnswer}]
  /\ setups \in 0..MaxSetups
  /\ pending \in 0..setups
  /\ told \in [setup : 0..setups, to : Sessions \cup {NoSession}]
  /\ conn \in [Conns -> Conn]

Init ==
  /\ slot = NoSession
  /\ put = [s \in Sessions |-> "none"]
  /\ listener = "none"
  /\ prepared = {}
  /\ stale = {}
  /\ answered = [n \in Setups |-> NoAnswer]
  /\ setups = 0
  /\ pending = 0
  /\ told = [setup |-> 0, to |-> NoSession]
  /\ conn = [c \in Conns |-> NoConn]

-----------------------------------------------------------------------------
(* The setup write.                                                        *)

\* Another PUT arrives while those of the sessions in p wait.
Crossed(p) == [t \in Sessions |-> IF p[t] = "none" THEN "none" ELSE "crossed"]

\* Mutant: a secret that is there already is not replaced.
Published_First(s) == IF slot = NoSession THEN s ELSE slot

Published(s) == s

\* call(): a PUT of any verified session publishes its secret.
PutArrives(s) ==
  /\ put[s] = "none"
  /\ setups < MaxSetups
  /\ put' = [Crossed(put) EXCEPT ![s] = "waiting"]
  /\ slot' = Published(s)
  /\ UNCHANGED <<listener, prepared, stale, answered, setups, answers, conn>>

\* A PUT on a connection that has not completed pair-verify: it has no secret.
UnverifiedPut ==
  /\ slot' = NoSession
  /\ put' = Crossed(put)
  /\ UNCHANGED <<listener, prepared, stale, answered, setups, answers, conn>>

\* Mutant: prepared sessions never expire.
Retained_All(keys) == keys

Retained(keys) == {k \in keys : k.setup \notin stale}

HasSecret == slot # NoSession

\* The handler found a secret: setup() under the lock of Inner.  The prepared
\* session stays when the listener cannot be bound.
SetupPrepares(bound) ==
  /\ HasSecret
  /\ listener # "none" => bound
  /\ prepared' = Retained(prepared) \cup {[secret |-> slot, setup |-> setups + 1]}
  /\ listener' = IF listener = "none" /\ bound THEN "open" ELSE listener

\* It did not, or the request is for something else: a generic error.
SetupRefused == UNCHANGED <<listener, prepared>>

\* Mutant: an answer that waits already is not replaced.
Waits_First(n) == IF pending = 0 THEN n ELSE pending

\* The answer that waits after the handler of setup n.
Waits(n) == n

Tell(s, n) ==
  /\ pending' = 0
  /\ told' = [setup |-> n, to |-> s]

SetupWrite(s) ==
  /\ put[s] # "none"
  /\ setups < MaxSetups
  /\ \E ok, asked \in BOOLEAN :
       /\ IF ok THEN SetupPrepares(TRUE) ELSE SetupPrepares(FALSE) \/ SetupRefused
       /\ answered' = [answered EXCEPT ![setups + 1] =
                         [to |-> s, ok |-> ok, alone |-> put[s] = "waiting"]]
       /\ IF asked THEN Tell(s, Waits(setups + 1))
                   ELSE pending' = Waits(setups + 1) /\ UNCHANGED told
  /\ setups' = setups + 1
  /\ put' = [put EXCEPT ![s] = "none"]
  /\ UNCHANGED <<slot, stale, conn>>

\* A read of the characteristic, or a write that is no setup request and asks for
\* its response.
Read(s) ==
  /\ pending # 0
  /\ Tell(s, pending)
  /\ UNCHANGED <<slot, put, listener, prepared, stale, answered, setups, conn>>

\* The oldest setup that is not stale becomes so.
Age ==
  /\ Cardinality(stale) < setups
  /\ stale' = 1..(Cardinality(stale) + 1)
  /\ UNCHANGED <<slot, put, listener, prepared, answered, setups, answers, conn>>

-----------------------------------------------------------------------------
(* The listener and the connections.                                       *)

Accept(c) ==
  /\ listener = "open"
  /\ conn[c].pc = "none"
  /\ conn' = [conn EXCEPT ![c] = [pc |-> "first", key |-> NoKey]]
  /\ UNCHANGED <<slot, put, listener, prepared, stale, answered, setups, answers>>

\* An accept error ends the loop; Inner.listener stays Some.
AcceptFails ==
  /\ listener = "open"
  /\ listener' = "ended"
  /\ UNCHANGED <<slot, put, prepared, stale, answered, setups, answers, conn>>

\* Mutant: a matched session stays prepared.
Without_Kept(keys, k) == keys

\* Mutant: the first frame drops every prepared session.
Without_None(keys, k) == {}

Without(keys, k) == keys \ {k}

\* A complete first frame, encrypted with k: trial decryption finds k among
\* the prepared sessions, or the connection is closed.
FirstFrame(c, k) ==
  /\ conn[c].pc = "first"
  /\ IF k \in Retained(prepared)
       THEN /\ prepared' = Without(Retained(prepared), k)
            /\ conn' = [conn EXCEPT ![c].pc = "hello", ![c].key = k]
       ELSE /\ prepared' = Retained(prepared)
            /\ conn' = [conn EXCEPT ![c].pc = "closed"]
  /\ UNCHANGED <<slot, put, listener, stale, answered, setups, answers>>

\* The first payload is control.hello and the response is written.
Hello(c) ==
  /\ conn[c].pc = "hello"
  /\ conn' = [conn EXCEPT ![c].pc = "ready"]
  /\ UNCHANGED <<slot, put, listener, prepared, stale, answered, setups, answers>>

\* End of file, an error, another first payload, or HELLO_TIMEOUT before it.
Close(c) ==
  /\ conn[c].pc \in {"first", "hello", "ready"}
  /\ conn' = [conn EXCEPT ![c].pc = "closed"]
  /\ UNCHANGED <<slot, put, listener, prepared, stale, answered, setups, answers>>

Next ==
  \/ \E s \in Sessions : PutArrives(s) \/ SetupWrite(s) \/ Read(s)
  \/ UnverifiedPut
  \/ Age
  \/ AcceptFails
  \/ \E c \in Conns : \/ Accept(c)
                      \/ \E n \in 1..setups, s \in Sessions :
                           FirstFrame(c, [secret |-> s, setup |-> n])
                      \/ Hello(c)
                      \/ Close(c)

Spec == Init /\ [][Next]_vars

-----------------------------------------------------------------------------
(* Properties                                                              *)

\* A prepared session serves one connection: whoever repeats its first frame,
\* at once or later, is closed.
KeyServesOnce ==
  \A c, d \in Conns : c # d /\ conn[c].key # NoKey => conn[c].key # conn[d].key

\* An expired session identifies nobody, although expired sessions are only
\* dropped when a setup or a first frame comes by.
StaleKeyRefused ==
  [][\A c \in Conns : conn'[c].pc = "hello" /\ conn[c].pc = "first"
       => conn'[c].key.setup \notin stale]_vars

\* A successful answer means a session that is prepared, expired or used:
\* nothing but its expiry and its one use removes a prepared session.
AnsweredIsPrepared ==
  \A n \in 1..setups : answered[n].ok =>
    \/ \E k \in prepared : k.setup = n
    \/ n \in stale
    \/ \E c \in Conns : conn[c].key # NoKey /\ conn[c].key.setup = n

\* A session's keys are derived from its own shared secret, unless another
\* PUT arrived between the arrival of its setup write and the handler: the
\* slot that the comment in call() (transport/http/server.rs) wants to hold
\* the secret "for the duration of the write" is one for all sessions.
KeyIsSessionBound ==
  \A k \in prepared :
    answered[k.setup].alone => k.secret = answered[k.setup].to

\* A setup that asks for its response gets its own answer, whoever else sets up
\* or reads meanwhile (write_characteristic, build_data_stream).
OwnAnswer ==
  [][setups' # setups /\ told' # told
       => told' = [setup |-> setups', to |-> answered'[setups'].to]]_vars
=============================================================================
