---------------------------- MODULE CameraProofs ----------------------------
(***************************************************************************)
(* Proofs about the three parts of the program that speak with the camera: *)
(* LiveView and SnapshotCache, which keep frames of it for controllers, and*)
(* CameraSettings.                                                         *)
(*                                                                         *)
(* LiveView: the answer that a controller has, or may still read, is of the*)
(* session as it is prepared, if it is prepared: only a setup write        *)
(* prepares a session, and it replaces the answer with it.  SnapshotCache  *)
(* and CameraSettings have sections of their own below.                    *)
(***************************************************************************)
EXTENDS LiveView, SnapshotCache, CameraSettings, FiniteSetTheorems, SequenceTheorems, TLAPS

\* The maps of TypeOK.
MapsOK ==
  /\ sessions \in [Sessions -> Session]
  /\ children \in [Sessions -> Setups]
  /\ audio_children \in [Sessions -> Setups]
  /\ video_proxies \in [Sessions -> Setups]
  /\ audio_proxies \in [Sessions -> Setups]
  /\ told \in [Sessions -> Setups]
  /\ setup_response \in [session : Sessions \cup {NoSession}, setup : Setups]
  /\ setups \in Setups

\* The answer to read is of the session as it is prepared.
AnswerIsPrepared ==
  \A s \in Prepared :
    setup_response.session = s => setup_response.setup = sessions[s].setup

\* And so is the answer that the controller has read.
ToldIsPrepared ==
  \A s \in Prepared : told[s] \in {0, sessions[s].setup}

IInv == MapsOK /\ StreamsPaired /\ AnswerIsPrepared /\ ToldIsPrepared

-----------------------------------------------------------------------------
\* The numbers of setups, and a session that is not prepared.
LEMMA Numbers ==
  /\ 0 \in Setups
  /\ NotPrepared \in Session
  /\ NotPrepared.setup = 0
BY LiveViewAssumption DEF Setups, Session, NotPrepared

\* What ends streams and drops sessions keeps the invariant: it prepares no
\* session, and starts no stream.
LEMMA WithoutKeeps ==
  ASSUME IInv, NEW S, Without(S),
         sessions' \in [Sessions -> Session],
         \A s \in Sessions : sessions'[s] \in {sessions[s], NotPrepared},
         UNCHANGED <<told, setups, setup_response>>
  PROVE  IInv' /\ StartsAsTold
<1>1. MapsOK'
  BY Numbers DEF IInv, MapsOK, Without
<1>2. \A s \in Sessions :
        \/ /\ children'[s] = 0
           /\ audio_children'[s] = 0
           /\ video_proxies'[s] = 0
           /\ audio_proxies'[s] = 0
        \/ /\ children'[s] = children[s]
           /\ audio_children'[s] = audio_children[s]
           /\ video_proxies'[s] = video_proxies[s]
           /\ audio_proxies'[s] = audio_proxies[s]
  BY DEF Without
<1>3. StreamsPaired' /\ StartsAsTold
  BY <1>2 DEF IInv, StreamsPaired, StartsAsTold
<1>4. \A s \in Prepared' : s \in Prepared /\ sessions'[s] = sessions[s]
  BY Numbers DEF Prepared
<1>5. AnswerIsPrepared' /\ ToldIsPrepared'
  BY <1>4 DEF IInv, AnswerIsPrepared, ToldIsPrepared
<1> QED
  BY <1>1, <1>3, <1>5 DEF IInv

\* A session that is taken out of the prepared ones.
LEMMA TakenDrops ==
  ASSUME IInv, NEW s \in Sessions
  PROVE  /\ Taken(s) \in [Sessions -> Session]
         /\ \A t \in Sessions : Taken(s)[t] \in {sessions[t], NotPrepared}
BY Numbers DEF IInv, MapsOK, Taken

LEMMA InitInvariant == Init => IInv
<1> SUFFICES ASSUME Init PROVE IInv
  OBVIOUS
<1>1. MapsOK
  BY Numbers, LiveViewAssumption DEF Init, MapsOK, Nothing, NoResponse
<1>2. Prepared = {}
  BY Numbers DEF Init, Prepared
<1>3. StreamsPaired
  BY DEF Init, StreamsPaired, Nothing
<1> QED
  BY <1>1, <1>2, <1>3 DEF IInv, AnswerIsPrepared, ToldIsPrepared

LEMMA StepInvariant == IInv /\ [Next]_vars => IInv' /\ StartsAsTold
<1> SUFFICES ASSUME IInv, [Next]_vars PROVE IInv' /\ StartsAsTold
  OBVIOUS
<1>1. ASSUME NEW s \in Sessions, SetupWrite(s) PROVE IInv' /\ StartsAsTold
  <2>1. PICK vk \in BOOLEAN, ak \in {"none", "bad", "good"} :
          sessions' = [sessions EXCEPT ![s] = [setup |-> setups + 1,
                                               videoKey |-> vk, audioKey |-> ak]]
    BY <1>1 DEF SetupWrite, Insert
  <2>2. setups + 1 \in Setups
    BY <1>1, LiveViewAssumption DEF SetupWrite, IInv, MapsOK, Setups
  <2>3. sessions' \in [Sessions -> Session] /\ sessions'[s].setup = setups + 1
    BY <2>1, <2>2 DEF IInv, MapsOK, Session
  <2>4. MapsOK'
    BY <1>1, <2>2, <2>3, Numbers DEF SetupWrite, IInv, MapsOK, streams
  <2>5. StreamsPaired' /\ StartsAsTold
    BY <1>1 DEF SetupWrite, IInv, StreamsPaired, StartsAsTold, streams
  <2>6. AnswerIsPrepared'
    BY <1>1, <2>3 DEF SetupWrite, AnswerIsPrepared, Prepared
  <2>7. \A t \in Prepared' : t = s \/ (t \in Prepared /\ sessions'[t] = sessions[t])
    BY <2>1 DEF IInv, MapsOK, Prepared
  <2>8. ToldIsPrepared'
    BY <1>1, <2>7 DEF SetupWrite, IInv, MapsOK, ToldIsPrepared, Prepared
  <2> QED
    BY <2>4, <2>5, <2>6, <2>8 DEF IInv
<1>2. ASSUME NEW s \in Sessions, SetupWriteFails(s) PROVE IInv' /\ StartsAsTold
  <2>1. MapsOK'
    BY <1>2, Numbers DEF SetupWriteFails, IInv, MapsOK, streams
  <2>2. StreamsPaired' /\ StartsAsTold /\ AnswerIsPrepared'
    BY <1>2 DEF SetupWriteFails, IInv, StreamsPaired, StartsAsTold,
                AnswerIsPrepared, Prepared, streams
  <2>3. ToldIsPrepared'
    BY <1>2 DEF SetupWriteFails, IInv, MapsOK, ToldIsPrepared, Prepared
  <2> QED
    BY <2>1, <2>2, <2>3 DEF IInv
<1>3. ASSUME NEW s \in Sessions, SetupRead(s) PROVE IInv' /\ StartsAsTold
  <2>1. MapsOK'
    BY <1>3, Numbers DEF SetupRead, IInv, MapsOK, streams
  <2>2. StreamsPaired' /\ StartsAsTold /\ AnswerIsPrepared'
    BY <1>3 DEF SetupRead, IInv, StreamsPaired, StartsAsTold,
                AnswerIsPrepared, Prepared, streams
  <2>3. ToldIsPrepared'
    BY <1>3 DEF SetupRead, IInv, MapsOK, ToldIsPrepared, AnswerIsPrepared, Prepared
  <2> QED
    BY <2>1, <2>2, <2>3 DEF IInv
<1>4. ASSUME NEW sid \in Sessions \cup {NoSession}, StartStream(sid)
      PROVE  IInv' /\ StartsAsTold
  <2>1. PICK s \in Selected(sid) :
          /\ sessions' = Taken(s)
          /\ children' = [children EXCEPT ![s] = sessions[s].setup]
          /\ video_proxies' = [video_proxies EXCEPT ![s] = sessions[s].setup]
          /\ \E audio \in {0, sessions[s].setup} :
               /\ audio_children' = [audio_children EXCEPT ![s] = audio]
               /\ \E proxy \in {0, audio} :
                    audio_proxies' = [audio_proxies EXCEPT ![s] = proxy]
    BY <1>4 DEF StartStream
  <2>2. s \in Prepared /\ s \in Sessions /\ sessions[s].setup \in Setups
    BY <2>1 DEF Selected, Prepared, IInv, MapsOK, Session
  <2>3. UNCHANGED <<setup_response, setups, told>>
    BY <1>4 DEF StartStream
  <2>4. sessions' \in [Sessions -> Session]
    BY <2>1, <2>2, TakenDrops
  <2>5. MapsOK'
    BY <2>1, <2>2, <2>3, <2>4, Numbers DEF IInv, MapsOK
  <2>6. StreamsPaired'
    BY <2>1, <2>2 DEF IInv, MapsOK, StreamsPaired
  <2>7. StartsAsTold
    BY <2>1, <2>2 DEF IInv, MapsOK, ToldIsPrepared, StartsAsTold
  <2>8. \A t \in Prepared' : t \in Prepared /\ sessions'[t] = sessions[t]
    BY <2>1, <2>2, TakenDrops, Numbers DEF Prepared
  <2>9. AnswerIsPrepared' /\ ToldIsPrepared'
    BY <2>3, <2>8 DEF IInv, AnswerIsPrepared, ToldIsPrepared
  <2> QED
    BY <2>5, <2>6, <2>7, <2>9 DEF IInv
<1>5. ASSUME NEW sid \in Sessions \cup {NoSession}, StartFails(sid)
      PROVE  IInv' /\ StartsAsTold
  <2>1. PICK s \in Selected(sid) : sessions' = Taken(s) /\ Without({s})
    BY <1>5 DEF StartFails
  <2>2. s \in Sessions
    BY <2>1 DEF Selected, Prepared
  <2>3. UNCHANGED <<told, setups, setup_response>>
    BY <1>5 DEF StartFails
  <2> QED
    BY <2>1, <2>2, <2>3, TakenDrops, WithoutKeeps
<1>6. ASSUME NEW S, EndSession(S), UNCHANGED <<told, setups, setup_response>>
      PROVE  IInv' /\ StartsAsTold
  <2>1. /\ sessions' \in [Sessions -> Session]
        /\ \A s \in Sessions : sessions'[s] \in {sessions[s], NotPrepared}
    BY <1>6, Numbers DEF EndSession, IInv, MapsOK
  <2> QED
    BY <1>6, <2>1, WithoutKeeps DEF EndSession
<1>7. ASSUME NEW sid \in Sessions \cup {NoSession}, End(sid)
      PROVE  IInv' /\ StartsAsTold
  BY <1>6, <1>7 DEF End
<1>8. CASE Shutdown
  BY <1>6, <1>8 DEF Shutdown
<1>9. CASE Exit
  <2>1. MapsOK' /\ StreamsPaired' /\ StartsAsTold /\ ToldIsPrepared'
    BY <1>9, Numbers DEF Exit, IInv, MapsOK, StreamsPaired, StartsAsTold,
                         ToldIsPrepared, Prepared, NoResponse, streams
  <2>2. AnswerIsPrepared'
    BY <1>9, LiveViewAssumption DEF Exit, AnswerIsPrepared, Prepared, NoResponse
  <2> QED
    BY <2>1, <2>2 DEF IInv
<1>10. CASE UNCHANGED vars
  BY <1>10 DEF vars, streams, IInv, MapsOK, StreamsPaired, StartsAsTold,
               AnswerIsPrepared, ToldIsPrepared, Prepared
<1> QED
  BY <1>1, <1>2, <1>3, <1>4, <1>5, <1>7, <1>8, <1>9, <1>10 DEF Next

-----------------------------------------------------------------------------
\* What runs for a session is of one setup, for any number of sessions and
\* setups and however starts fail (start_stream, end_session).
THEOREM Paired == Spec => []StreamsPaired
<1>1. IInv => StreamsPaired
  BY DEF IInv
<1> QED
  BY <1>1, InitInvariant, StepInvariant, PTL DEF Spec

\* A controller that has read the answer to its setup write gets its stream
\* from the ports and keys of that answer (handle_setup_write, setup_read,
\* start_stream).
THEOREM AsTold == Spec => StartedAsTold
BY InitInvariant, StepInvariant, PTL DEF Spec, StartedAsTold

-----------------------------------------------------------------------------
\* The rest of TypeOK, and the gauge.
LEMMA InitGauge == Init => GaugeCountsStreams
<1> SUFFICES ASSUME Init PROVE GaugeCountsStreams
  OBVIOUS
<1>1. {s \in Sessions : children[s] # 0} = {}
  BY DEF Init, Nothing
<1> QED
  BY <1>1, FS_EmptySet DEF Init, GaugeCountsStreams, Live

LEMMA StepGauge == GaugeCountsStreams /\ [Next]_vars => GaugeCountsStreams'
<1> SUFFICES ASSUME GaugeCountsStreams, [Next]_vars PROVE GaugeCountsStreams'
  OBVIOUS
<1>1. ASSUME UNCHANGED <<children, gauge>> PROVE GaugeCountsStreams'
  BY <1>1 DEF GaugeCountsStreams, Live
<1>2. ASSUME gauge' = Live(children') PROVE GaugeCountsStreams'
  BY <1>2 DEF GaugeCountsStreams, Live
<1>3. ASSUME NEW s \in Sessions, SetupWrite(s) \/ SetupWriteFails(s) \/ SetupRead(s)
      PROVE  GaugeCountsStreams'
  BY <1>1, <1>3 DEF SetupWrite, SetupWriteFails, SetupRead, streams
<1>4. ASSUME NEW sid \in Sessions \cup {NoSession},
             StartStream(sid) \/ StartFails(sid) \/ End(sid)
      PROVE  GaugeCountsStreams'
  BY <1>2, <1>4 DEF StartStream, StartFails, End, EndSession
<1>5. CASE Shutdown
  BY <1>2, <1>5 DEF Shutdown, EndSession
<1>6. CASE Exit \/ UNCHANGED vars
  BY <1>1, <1>6 DEF Exit, vars, streams
<1> QED
  BY <1>3, <1>4, <1>5, <1>6 DEF Next

LEMMA StepPhase ==
  phase \in {"up", "stopping", "gone"} /\ [Next]_vars => (phase \in {"up", "stopping", "gone"})'
BY DEF Next, vars, SetupWrite, SetupWriteFails, SetupRead, StartStream, StartFails, End,
       Shutdown, Exit

LEMMA GaugeType == MapsOK /\ GaugeCountsStreams => gauge \in 0..Cardinality(Sessions)
<1> SUFFICES ASSUME MapsOK, GaugeCountsStreams PROVE gauge \in 0..Cardinality(Sessions)
  OBVIOUS
<1> DEFINE L == {s \in Sessions : children[s] # 0}
<1>1. L \subseteq Sessions
  OBVIOUS
<1>2. IsFiniteSet(L) /\ Cardinality(L) <= Cardinality(Sessions)
  BY <1>1, LiveViewAssumption, FS_Subset
<1>3. Cardinality(L) \in Nat /\ Cardinality(Sessions) \in Nat
  BY <1>2, LiveViewAssumption, FS_CardinalityType
<1> QED
  BY <1>2, <1>3 DEF GaugeCountsStreams, Live

\* The gauge is the number of video processes kept, on every way out of
\* start_stream and end_session, also when a start tears a stream down and then
\* fails.
THEOREM GaugeCounts == Spec => []GaugeCountsStreams
BY InitGauge, StepGauge, PTL DEF Spec

\* The maps of the manager keep their types for any number of sessions.
THEOREM TypeCorrect == Spec => []TypeOK
<1> DEFINE Rest == phase \in {"up", "stopping", "gone"}
<1>1. Init => Rest
  BY DEF Init
<1>2. IInv /\ GaugeCountsStreams /\ Rest => TypeOK
  BY GaugeType DEF IInv, MapsOK, TypeOK
<1> QED
  BY <1>1, <1>2, StepPhase, InitInvariant, StepInvariant, GaugeCounts, PTL DEF Spec

-----------------------------------------------------------------------------
(* SnapshotCache.  The queue is the lock: who waits for it or has it is in *)
(* it once, and only its head refreshes.  So the generations are in the    *)
(* order of the pictures.  One request has the handler: nothing is shown   *)
(* while it scales, so what it holds is at least as new as what was shown. *)

InLock(t) == tasks[t].pc \in {"lock", "fetch", "arriving"}

LockOK ==
  /\ queue \in Seq(Tasks)
  /\ IsInjective(queue)
  /\ \A t \in Tasks : InLock(t) <=> \E i \in 1..Len(queue) : queue[i] = t
  /\ \A t \in Tasks : tasks[t].pc \in {"fetch", "arriving"} => Holds(t)
  /\ tasks[Refresher].pc \notin {"lookup", "scale", "served", "failed"}

\* The snapshot handler has one request at a time.
OneServing == \A q, r \in Requests : Serving(q) /\ Serving(r) => q = r

\* Later generations are of later pictures, none of a picture not yet taken.
InOrder ==
  /\ latest <= taken
  /\ \A g, h \in 1..latest : g <= h => picture[g] <= picture[h]
  /\ \/ shown = 0
     \/ latest # 0 /\ shown <= picture[latest]
  /\ \A s \in Sizes : scaled[s] <= latest

\* What the task holds is not older than it may be, as a picture and in time.
Sound(t) ==
  LET k == tasks[t]
  IN  /\ k.stale <= latest
      /\ k.pc \in {"lookup", "scale"} => k.raw \in 1..latest /\ shown <= picture[k.raw]
      /\ k.pc = "lookup" => age[k.raw] <= MaxAge
      /\ k.pc = "scale" =>
           /\ k.left <= ScaleTimeout
           /\ age[k.raw] + k.left <= MaxAge + ScaleTimeout
           /\ k.stale # 0 => age[k.stale] + k.left <= MaxAge + ScaleTimeout
      /\ k.pc \in {"fetch", "arriving"} /\ latest # 0 => age[latest] > Dedup
      /\ k.pc = "arriving" => k.shot = taken /\ latest < taken

CacheInv ==
  /\ CacheTypeOK
  /\ LockOK
  /\ OneServing
  /\ InOrder
  /\ \A t \in Tasks : Sound(t)

LEMMA Times ==
  /\ Refresh \in Nat \ {0} /\ FetchTimeout \in Nat \ {0} /\ ScaleTimeout \in Nat \ {0}
  /\ MaxPictures \in Nat \ {0}
  /\ Dedup \in Nat /\ MaxAge \in Nat /\ Dedup <= MaxAge
  /\ Refresher \in Tasks /\ Requests \subseteq Tasks
BY SnapshotAssumption DEF Tasks

LEMMA FreshTask ==
  /\ Fresh \in Task
  /\ Fresh.pc = "idle" /\ Fresh.left = 0 /\ Fresh.raw = 0 /\ Fresh.stale = 0
  /\ Fresh.out = 0 /\ ~Fresh.unscaled
<1>1. (CHOOSE s \in Sizes : TRUE) \in Sizes
  BY SnapshotAssumption
<1> QED
  BY <1>1, Times DEF Fresh, Task

LEMMA InitCache == CacheInit => CacheInv
<1> SUFFICES ASSUME CacheInit PROVE CacheInv
  OBVIOUS
<1>1. \A t \in Tasks : tasks[t] = Fresh
  BY DEF CacheInit
<1>2. queue \in Seq(Tasks) /\ IsInjective(queue)
  BY DEF CacheInit, IsInjective
<1>3. CacheTypeOK
  BY <1>2, FreshTask, Times DEF CacheInit, CacheTypeOK, Oldest
<1>4. LockOK
  BY <1>1, <1>2, FreshTask, Times DEF CacheInit, LockOK, InLock
<1>5. InOrder
  BY Times DEF CacheInit, InOrder
<1>6. \A t \in Tasks : Sound(t)
  BY <1>1, FreshTask DEF CacheInit, Sound
<1>7. OneServing
  BY <1>1, FreshTask DEF OneServing, Serving, Tasks
<1> QED
  BY <1>3, <1>4, <1>5, <1>6, <1>7 DEF CacheInv

\* Nobody but the head of the queue refreshes.
LEMMA OneHolder ==
  ASSUME LockOK, NEW t \in Tasks, NEW u \in Tasks, Holds(t), u # t
  PROVE  tasks[u].pc \notin {"fetch", "arriving"}
BY DEF LockOK, Holds

LEMMA Queued ==
  ASSUME LockOK, NEW t \in Tasks, ~InLock(t), tasks \in [Tasks -> Task],
         queue' = Append(queue, t), tasks' = [tasks EXCEPT ![t] = tasks'[t]],
         tasks'[t].pc = "lock"
  PROVE  LockOK'
<1> DEFINE L == Len(queue)
<1>1. /\ L \in Nat
      /\ queue' \in Seq(Tasks)
      /\ Len(queue') = L + 1
      /\ \A i \in 1..L : queue'[i] = queue[i]
      /\ queue'[L + 1] = t
      /\ DOMAIN queue = 1..L
      /\ DOMAIN queue' = 1..L+1
  BY AppendProperties, LenProperties DEF LockOK
<1>2. \A i \in 1..L : queue[i] # t
  BY DEF LockOK
<1>3. \A u \in Tasks \ {t} : tasks'[u] = tasks[u]
  OBVIOUS
<1> HIDE DEF L
<1>4. IsInjective(queue')
  <2> SUFFICES ASSUME NEW i \in 1..L + 1, NEW j \in 1..L + 1, queue'[i] = queue'[j]
               PROVE  i = j
    BY <1>1 DEF IsInjective
  <2>1. \A k \in 1..L + 1 : k \in 1..L \/ k = L + 1
    BY <1>1
  <2>2. CASE i \in 1..L /\ j \in 1..L
    BY <1>1, <2>2 DEF LockOK, IsInjective
  <2> QED
    BY <1>1, <1>2, <2>1, <2>2
<1>5. ASSUME NEW u \in Tasks PROVE InLock(u)' <=> \E i \in 1..L + 1 : queue'[i] = u
  <2>1. CASE u = t
    <3>1. L + 1 \in 1..L + 1
      BY <1>1
    <3> QED
      BY <1>1, <2>1, <3>1 DEF InLock
  <2>2. CASE u # t
    <3>1. InLock(u)' <=> InLock(u)
      BY <1>3, <2>2 DEF InLock
    <3>2. InLock(u) <=> \E i \in 1..L : queue[i] = u
      BY DEF LockOK, L
    <3>3. (\E i \in 1..L + 1 : queue'[i] = u) <=> (\E i \in 1..L : queue[i] = u)
      <4>1. \A i \in 1..L + 1 : i \in 1..L \/ i = L + 1
        BY <1>1
      <4>2. \A i \in 1..L : i \in 1..L + 1
        BY <1>1
      <4> QED
        BY <1>1, <2>2, <4>1, <4>2
    <3> QED
      BY <3>1, <3>2, <3>3
  <2> QED
    BY <2>1, <2>2
<1>6. ASSUME NEW u \in Tasks, tasks'[u].pc \in {"fetch", "arriving"} PROVE Holds(u)'
  <2>1. u # t /\ tasks'[u] = tasks[u]
    BY <1>3, <1>6
  <2>2. Holds(u)
    BY <1>6, <2>1 DEF LockOK
  <2>3. queue # <<>> /\ queue[1] = u
    BY <2>2 DEF Holds
  <2>4. 1 \in 1..L
    BY <1>1, <2>3, EmptySeq DEF LockOK, L
  <2>5. queue' # <<>> /\ queue'[1] = u
    BY <1>1, <2>3, <2>4
  <2> QED
    BY <2>5 DEF Holds
<1>7. tasks'[Refresher].pc \notin {"lookup", "scale", "served", "failed"}
  BY <1>3, Times DEF LockOK
<1> QED
  BY <1>1, <1>4, <1>5, <1>6, <1>7 DEF LockOK, L

\* The holder gives the lock to the next in the queue.
LEMMA Released ==
  ASSUME LockOK, NEW t \in Tasks, Holds(t), tasks \in [Tasks -> Task],
         queue' = Tail(queue), tasks' = [tasks EXCEPT ![t] = tasks'[t]],
         ~InLock(t)',
         t = Refresher => tasks'[t].pc = "idle"
  PROVE  LockOK'
<1> DEFINE L == Len(queue)
<1>1. /\ L \in Nat \ {0}
      /\ queue[1] = t
      /\ queue' \in Seq(Tasks)
      /\ Len(queue') = L - 1
      /\ \A i \in 1..L-1 : queue'[i] = queue[i + 1]
      /\ DOMAIN queue = 1..L
      /\ DOMAIN queue' = 1..L-1
  BY HeadTailProperties, LenProperties, EmptySeq DEF LockOK, Holds
<1>2. \A u \in Tasks \ {t} : tasks'[u] = tasks[u]
  OBVIOUS
<1> HIDE DEF L
<1>3. \A i, j \in 1..L : queue[i] = queue[j] => i = j
  BY <1>1 DEF LockOK, IsInjective
<1>4. IsInjective(queue')
  <2> SUFFICES ASSUME NEW i \in 1..L-1, NEW j \in 1..L-1, queue'[i] = queue'[j]
               PROVE  i = j
    BY <1>1 DEF IsInjective
  <2>1. i + 1 \in 1..L /\ j + 1 \in 1..L /\ queue[i + 1] = queue[j + 1]
    BY <1>1
  <2>2. i + 1 = j + 1
    BY <1>3, <2>1
  <2> QED
    BY <2>2
<1>5. ASSUME NEW u \in Tasks PROVE InLock(u)' <=> \E i \in 1..L-1 : queue'[i] = u
  <2>1. CASE u = t
    <3>1. ASSUME NEW i \in 1..L-1 PROVE queue'[i] # t
      <4>1. i + 1 \in 1..L /\ 1 \in 1..L /\ i + 1 # 1
        BY <1>1
      <4> QED
        BY <1>1, <1>3, <4>1
    <3> QED
      BY <2>1, <3>1
  <2>2. CASE u # t
    <3>1. InLock(u)' <=> InLock(u)
      BY <1>2, <2>2 DEF InLock
    <3>2. InLock(u) <=> \E i \in 1..L : queue[i] = u
      BY DEF LockOK, L
    <3>3. ASSUME NEW i \in 1..L, queue[i] = u PROVE i - 1 \in 1..L-1 /\ queue'[i - 1] = u
      <4>1. i # 1
        BY <1>1, <2>2, <3>3
      <4>2. i - 1 \in 1..L-1 /\ (i - 1) + 1 = i
        BY <1>1, <4>1
      <4> QED
        BY <1>1, <3>3, <4>2
    <3>4. ASSUME NEW i \in 1..L-1, queue'[i] = u PROVE i + 1 \in 1..L /\ queue[i + 1] = u
      BY <1>1, <3>4
    <3> QED
      BY <3>1, <3>2, <3>3, <3>4
  <2> QED
    BY <2>1, <2>2
<1>6. ASSUME NEW u \in Tasks PROVE tasks'[u].pc \notin {"fetch", "arriving"}
  <2>1. CASE u = t
    BY <2>1 DEF InLock
  <2>2. CASE u # t
    BY <1>2, <2>2, OneHolder
  <2> QED
    BY <2>1, <2>2
<1>7. tasks'[Refresher].pc \notin {"lookup", "scale", "served", "failed"}
  BY <1>2, Times DEF LockOK
<1> QED
  BY <1>1, <1>4, <1>5, <1>6, <1>7 DEF LockOK, L

\* A step that leaves the queue alone.
LEMMA QueueStays ==
  ASSUME LockOK, NEW t \in Tasks, tasks \in [Tasks -> Task],
         queue' = queue, tasks' = [tasks EXCEPT ![t] = tasks'[t]],
         InLock(t)' <=> InLock(t),
         tasks'[t].pc \in {"fetch", "arriving"} => Holds(t),
         t = Refresher => tasks'[t].pc \notin {"lookup", "scale", "served", "failed"}
  PROVE  LockOK'
<1>1. \A u \in Tasks \ {t} : tasks'[u] = tasks[u]
  OBVIOUS
<1>2. \A u \in Tasks : InLock(u)' <=> InLock(u)
  BY <1>1 DEF InLock
<1>3. \A u \in Tasks : Holds(u)' <=> Holds(u)
  BY DEF Holds
<1>4. ASSUME NEW u \in Tasks, tasks'[u].pc \in {"fetch", "arriving"} PROVE Holds(u)
  BY <1>1, <1>4 DEF LockOK
<1>5. tasks'[Refresher].pc \notin {"lookup", "scale", "served", "failed"}
  BY <1>1, Times DEF LockOK
<1> QED
  BY <1>2, <1>3, <1>4, <1>5 DEF LockOK

\* Who goes on in the handler had it, or found it free.
LEMMA StillOne ==
  ASSUME OneServing, NEW t \in Tasks, \A u \in Tasks \ {t} : tasks'[u] = tasks[u],
         t \in Requests /\ Serving(t)' => Serving(t) \/ HandlerFree
  PROVE  OneServing'
<1>1. \A u \in Requests : u # t => (Serving(u)' <=> Serving(u))
  BY DEF Serving, Tasks
<1> QED
  BY <1>1 DEF OneServing, HandlerFree

\* One task goes on and no frame comes.
LEMMA OneTask ==
  ASSUME CacheInv, NEW t \in Tasks, tasks' = [tasks EXCEPT ![t] = tasks'[t]],
         tasks'[t] \in Task, LockOK', Sound(t)',
         t \in Requests /\ Serving(t)' => Serving(t) \/ HandlerFree,
         shown' = shown \/ (t \in Requests /\ Serving(t)),
         UNCHANGED <<latest, taken, picture, age>>,
         interval' \in 0..(Refresh - 1), due' \in BOOLEAN,
         scaled' \in [Sizes -> 0..MaxPictures], \A s \in Sizes : scaled'[s] <= latest,
         shown' \in Nat,
         shown' = shown \/ (latest # 0 /\ shown' <= picture[latest])
  PROVE  CacheInv'
<1>1. /\ latest \in 0..MaxPictures
      /\ taken \in 0..MaxPictures
      /\ latest <= taken
      /\ shown \in 0..taken
      /\ picture \in [Gens -> 0..taken]
      /\ tasks \in [Tasks -> Task]
  BY DEF CacheInv, CacheTypeOK, InOrder
<1>2. shown' \in 0..taken
  <2>1. CASE shown' = shown
    BY <1>1, <2>1
  <2>2. CASE latest # 0 /\ shown' <= picture[latest]
    <3>1. picture[latest] \in 0..taken
      BY <1>1, <2>2 DEF Gens
    <3> QED
      BY <1>1, <2>2, <3>1
  <2> QED
    BY <2>1, <2>2
<1>3. tasks' \in [Tasks -> Task] /\ \A u \in Tasks \ {t} : tasks'[u] = tasks[u]
  BY <1>1
<1>4. queue' \in Seq(Tasks) /\ IsInjective(queue')
  BY DEF LockOK
<1>5. CacheTypeOK'
  BY <1>2, <1>3, <1>4 DEF CacheInv, CacheTypeOK
<1>6. InOrder'
  BY DEF CacheInv, InOrder
<1>7. ASSUME NEW u \in Tasks, u # t PROVE Sound(u)'
  <2>1. Sound(u) /\ tasks'[u] = tasks[u]
    BY <1>3, <1>7 DEF CacheInv
  <2>2. CASE shown' = shown
    BY <2>1, <2>2 DEF Sound
  <2>3. CASE t \in Requests /\ Serving(t)
    <3>1. tasks[u].pc \notin {"lookup", "scale"}
      <4>1. u = Refresher \/ ~Serving(u)
        BY <1>7, <2>3 DEF CacheInv, OneServing, Tasks
      <4> QED
        BY <4>1 DEF CacheInv, LockOK, Serving
    <3> QED
      BY <2>1, <3>1 DEF Sound
  <2> QED
    BY <2>2, <2>3
<1>8. OneServing'
  BY <1>3, StillOne DEF CacheInv
<1> QED
  BY <1>5, <1>6, <1>7, <1>8 DEF CacheInv

LEMMA GoesFields ==
  ASSUME NEW t \in Tasks, tasks[t] \in Task,
         NEW place \in {"idle", "handler", "lock", "fetch", "arriving", "lookup", "scale", "served", "failed"}
  PROVE  LET r == Goes(t, place) IN
         /\ r \in Task
         /\ r.pc = place
         /\ r.left = tasks[t].left
         /\ r.shot = tasks[t].shot
         /\ r.size = tasks[t].size
         /\ r.raw = tasks[t].raw
         /\ r.stale = tasks[t].stale
         /\ r.unscaled = tasks[t].unscaled
  BY DEF Goes, Task

\* What a caller of refresh is given.
LEMMA RefreshedFields ==
  ASSUME NEW t \in Tasks, tasks[t] \in Task, NEW g \in 0..MaxPictures
  PROVE  LET r == Refreshed(t, g) IN
         /\ r \in Task
         /\ t = Refresher => r = Fresh
         /\ t # Refresher => /\ r.pc = "lookup"
                             /\ r.raw = g
                             /\ r.stale = tasks[t].stale
<1> DEFINE go == Goes(t, "lookup")
<1>1. /\ go \in Task
      /\ go.pc = "lookup"
      /\ go.stale = tasks[t].stale
  BY GoesFields
<1> HIDE DEF go
<1> DEFINE r == [go EXCEPT !.raw = g, !.left = 0, !.shot = 0]
<1>2. /\ r \in Task
      /\ r.pc = "lookup"
      /\ r.raw = g
      /\ r.stale = tasks[t].stale
  <2>1. 0 \in Nat /\ 0 \in 0..MaxPictures
    BY Times
  <2>2. r \in Task
    BY <1>1, <2>1 DEF Task
  <2>3. r.pc = go.pc /\ r.raw = g /\ r.stale = go.stale
    BY <1>1 DEF Task
  <2> QED
    BY <1>1, <2>2, <2>3
<1>3. Refreshed(t, g) = IF t = Refresher THEN Fresh ELSE r
  BY DEF Refreshed, go
<1> HIDE DEF r
<1> QED
  BY <1>2, <1>3, FreshTask

LEMMA CacheTypes ==
  ASSUME CacheInv
  PROVE  /\ latest \in Nat /\ taken \in Nat /\ shown \in Nat
         /\ latest \in 0..MaxPictures /\ taken \in 0..MaxPictures /\ shown \in 0..taken
         /\ latest <= taken
         /\ latest # 0 => shown <= picture[latest]
         /\ \A g \in 1..latest : picture[g] \in Nat /\ picture[g] <= picture[latest]
                                   /\ age[g] \in Nat
         /\ picture \in [Gens -> 0..taken] /\ age \in [Gens -> 0..Oldest]
         /\ scaled \in [Sizes -> 0..MaxPictures]
         /\ \A s \in Sizes : scaled[s] <= latest
         /\ interval \in 0..(Refresh - 1) /\ due \in BOOLEAN
         /\ tasks \in [Tasks -> Task]
         /\ LockOK
<1>1. CacheTypeOK /\ InOrder /\ LockOK
  BY DEF CacheInv
<1>2. /\ latest \in 0..MaxPictures
      /\ taken \in 0..MaxPictures
      /\ shown \in 0..taken
      /\ latest <= taken
      /\ picture \in [Gens -> 0..taken]
      /\ age \in [Gens -> 0..Oldest]
      /\ MaxPictures \in Nat
  BY <1>1, Times DEF CacheTypeOK, InOrder
<1>3. ASSUME NEW g \in 1..latest
      PROVE  picture[g] \in Nat /\ picture[g] <= picture[latest] /\ age[g] \in Nat
  <2>1. g \in Gens /\ latest \in 1..latest /\ g <= latest
    BY <1>2 DEF Gens
  <2>2. picture[g] \in Nat /\ age[g] \in Nat
    BY <1>2, <2>1, Times DEF Oldest
  <2> QED
    BY <1>1, <2>1, <2>2 DEF InOrder
<1>4. ASSUME latest # 0 PROVE shown <= picture[latest]
  <2>1. latest \in 1..latest /\ picture[latest] \in Nat
    BY <1>2, <1>3, <1>4
  <2> QED
    BY <1>1, <1>2, <2>1 DEF InOrder
<1> QED
  BY <1>1, <1>2, <1>3, <1>4 DEF CacheTypeOK, InOrder

LEMMA TaskTypes ==
  ASSUME CacheInv, NEW t \in Tasks
  PROVE  LET k == tasks[t] IN
         /\ k \in Task
         /\ k.left \in Nat
         /\ k.raw \in Nat /\ k.stale \in Nat
         /\ k.raw \in 0..MaxPictures /\ k.stale \in 0..MaxPictures /\ k.size \in Sizes
         /\ Sound(t)
<1>1. tasks[t] \in Task /\ Sound(t)
  BY CacheTypes DEF CacheInv
<1>2. /\ tasks[t].left \in Nat
      /\ tasks[t].raw \in 0..MaxPictures
      /\ tasks[t].stale \in 0..MaxPictures
      /\ tasks[t].size \in Sizes
      /\ MaxPictures \in Nat
  BY <1>1, Times DEF Task
<1> QED
  BY <1>1, <1>2

LEMMA WakesKeeps == CacheInv /\ RefresherWakes => CacheInv'
<1> SUFFICES ASSUME CacheInv, RefresherWakes PROVE CacheInv'
  OBVIOUS
<1> DEFINE t == Refresher
           r == Goes(Refresher, "lock")
<1>1. t \in Tasks /\ tasks[t] \in Task /\ tasks \in [Tasks -> Task] /\ LockOK /\ Sound(t)
  BY Times, CacheTypes, TaskTypes
<1>2. /\ r \in Task
      /\ r.pc = "lock"
      /\ r.stale = tasks[t].stale
  BY <1>1, GoesFields
<1>3. tasks' = [tasks EXCEPT ![t] = r] /\ tasks'[t] = r
  BY <1>1 DEF RefresherWakes, Set
<1> HIDE DEF t, r
<1>4. ~InLock(t)
  BY DEF RefresherWakes, InLock, t
<1>5. LockOK'
  BY <1>1, <1>2, <1>3, <1>4, Queued DEF RefresherWakes, Enqueue, t
<1>6. Sound(t)'
  BY <1>1, <1>2, <1>3 DEF RefresherWakes, Sound
<1>7. /\ shown \in Nat
      /\ scaled \in [Sizes -> 0..MaxPictures] /\ \A s \in Sizes : scaled[s] <= latest
      /\ interval' \in 0..(Refresh - 1) /\ due' \in BOOLEAN
      /\ UNCHANGED <<latest, scaled, taken, picture, age, shown>>
  BY CacheTypes DEF RefresherWakes
<1>8. tasks' = [tasks EXCEPT ![t] = tasks'[t]] /\ tasks'[t] \in Task /\ t \notin Requests
  BY <1>2, <1>3, SnapshotAssumption DEF t
<1> QED
  BY <1>1, <1>5, <1>6, <1>7, <1>8, OneTask

\* A task that leaves the lock with the latest frame, or for good.
LEMMA GivenLatest ==
  ASSUME CacheInv, NEW t \in Tasks, latest # 0, age[latest] <= MaxAge,
         tasks'[t] = Refreshed(t, latest), UNCHANGED <<latest, taken, picture, age, shown>>
  PROVE  /\ tasks'[t] \in Task
         /\ Sound(t)'
         /\ ~InLock(t)'
         /\ t = Refresher => tasks'[t].pc = "idle"
<1>1. CASE t = Refresher
  <2>1. tasks'[t] = Fresh
    BY <1>1, CacheTypes, TaskTypes, RefreshedFields
  <2> QED
    BY <2>1, CacheTypes, FreshTask DEF InLock, Sound
<1>2. CASE t # Refresher
  <2>1. /\ tasks'[t] \in Task
        /\ tasks'[t].pc = "lookup"
        /\ tasks'[t].raw = latest
        /\ tasks'[t].stale = tasks[t].stale
    BY <1>2, CacheTypes, TaskTypes, RefreshedFields
  <2>2. Sound(t) /\ latest \in 1..latest /\ shown <= picture[latest]
    BY CacheTypes, TaskTypes
  <2>3. Sound(t)'
    BY <2>1, <2>2 DEF Sound
  <2> QED
    BY <1>2, <2>1, <2>3 DEF InLock
<1> QED
  BY <1>1, <1>2

LEMMA GivenNothing ==
  ASSUME CacheInv, NEW t \in Tasks, tasks'[t] = NotRefreshed(t),
         UNCHANGED <<latest, taken, picture, age, shown>>
  PROVE  /\ tasks'[t] \in Task
         /\ Sound(t)'
         /\ ~InLock(t)'
         /\ t = Refresher => tasks'[t].pc = "idle"
<1>1. CASE t # Refresher /\ ~Usable(latest)
  <2>1. tasks'[t] = [Fresh EXCEPT !.pc = "failed"]
    BY <1>1 DEF NotRefreshed
  <2>2. /\ tasks'[t] \in Task
        /\ tasks'[t].pc = "failed"
        /\ tasks'[t].stale = 0
    BY <2>1, FreshTask DEF Task
  <2> QED
    BY <1>1, <2>2, CacheTypes DEF InLock, Sound
<1>2. CASE t # Refresher /\ Usable(latest)
  BY <1>2, GivenLatest DEF NotRefreshed, Usable
<1>3. CASE t = Refresher
  <2>1. tasks'[t] = Fresh
    BY <1>3, CacheTypes, TaskTypes, RefreshedFields DEF NotRefreshed
  <2> QED
    BY <2>1, CacheTypes, FreshTask DEF InLock, Sound
<1> QED
  BY <1>1, <1>2, <1>3

LEMMA LockedKeeps == ASSUME CacheInv, NEW t \in Tasks, Locked(t) PROVE CacheInv'
<1>1. tasks[t] \in Task /\ tasks \in [Tasks -> Task] /\ LockOK /\ Sound(t) /\ Holds(t)
  BY CacheTypes, TaskTypes DEF Locked
<1>2. /\ latest \in Nat /\ shown \in Nat
      /\ scaled \in [Sizes -> 0..MaxPictures] /\ \A s \in Sizes : scaled[s] <= latest
      /\ interval \in 0..(Refresh - 1) /\ due \in BOOLEAN
      /\ UNCHANGED <<latest, scaled, taken, picture, age, interval, due, shown>>
      /\ Serving(t)
  BY CacheTypes DEF Locked, Serving
<1>3. CASE Coalesced /\ Unlock /\ Set(t, Refreshed(t, latest))
  <2>1. /\ tasks' = [tasks EXCEPT ![t] = Refreshed(t, latest)]
        /\ tasks'[t] = Refreshed(t, latest)
    BY <1>1, <1>3 DEF Set
  <2>2. latest # 0 /\ age[latest] <= MaxAge
    <3>1. latest # 0 /\ age[latest] <= Dedup
      BY <1>3 DEF Coalesced
    <3>2. age[latest] \in Nat
      BY <1>2, <3>1, CacheTypes
    <3> QED
      BY <3>1, <3>2, Times
  <2>3. /\ tasks'[t] \in Task
        /\ Sound(t)'
        /\ ~InLock(t)'
        /\ t = Refresher => tasks'[t].pc = "idle"
    BY <1>2, <2>1, <2>2, GivenLatest
  <2>4. tasks' = [tasks EXCEPT ![t] = tasks'[t]]
    BY <2>1
  <2>5. LockOK'
    BY <1>1, <1>3, <2>3, <2>4, Released DEF Unlock
  <2> QED
    BY <1>2, <2>3, <2>4, <2>5, OneTask
<1>4. CASE ~Coalesced /\ UNCHANGED queue
           /\ Set(t, [Goes(t, "fetch") EXCEPT !.left = FetchTimeout])
  <2> DEFINE go == Goes(t, "fetch")
             r == [go EXCEPT !.left = FetchTimeout]
  <2>1. /\ go \in Task
        /\ go.pc = "fetch"
        /\ go.stale = tasks[t].stale
    BY <1>1, GoesFields
  <2>2. tasks' = [tasks EXCEPT ![t] = r] /\ tasks'[t] = r
    BY <1>1, <1>4 DEF Set
  <2> HIDE DEF go
  <2>3. /\ r \in Task
        /\ r.pc = "fetch"
        /\ r.stale = tasks[t].stale
    BY <2>1, Times DEF Task
  <2> HIDE DEF r
  <2>4. latest # 0 => age[latest] > Dedup
    <3> SUFFICES ASSUME latest # 0 PROVE age[latest] > Dedup
      OBVIOUS
    <3>1. age[latest] \in Nat
      BY <1>2, CacheTypes
    <3> QED
      BY <1>4, <3>1, Times DEF Coalesced
  <2>5. Sound(t)'
    BY <1>1, <1>2, <2>2, <2>3, <2>4 DEF Sound
  <2>6. InLock(t) /\ InLock(t)'
    BY <2>2, <2>3 DEF Locked, InLock
  <2>7. LockOK'
    BY <1>1, <1>4, <2>2, <2>3, <2>6, QueueStays
  <2>8. tasks' = [tasks EXCEPT ![t] = tasks'[t]] /\ tasks'[t] \in Task
    BY <2>2, <2>3
  <2> QED
    BY <1>2, <2>5, <2>7, <2>8, OneTask
<1> QED
  BY <1>3, <1>4 DEF Locked

LEMMA FailsKeeps == ASSUME CacheInv, NEW t \in Tasks, FetchFails(t) PROVE CacheInv'
<1>1. tasks \in [Tasks -> Task] /\ LockOK /\ Holds(t)
  BY CacheTypes DEF FetchFails, LockOK
<1>2. /\ shown \in Nat
      /\ scaled \in [Sizes -> 0..MaxPictures] /\ \A s \in Sizes : scaled[s] <= latest
      /\ interval \in 0..(Refresh - 1) /\ due \in BOOLEAN
      /\ UNCHANGED <<latest, scaled, taken, picture, age, interval, due, shown>>
      /\ Serving(t)
  BY CacheTypes DEF FetchFails, Serving
<1>3. tasks' = [tasks EXCEPT ![t] = tasks'[t]] /\ tasks'[t] = NotRefreshed(t)
  BY <1>1 DEF FetchFails, Set
<1>4. /\ tasks'[t] \in Task
      /\ Sound(t)'
      /\ ~InLock(t)'
      /\ t = Refresher => tasks'[t].pc = "idle"
  BY <1>2, <1>3, GivenNothing
<1>5. LockOK'
  BY <1>1, <1>3, <1>4, Released DEF FetchFails, Unlock
<1> QED
  BY <1>2, <1>3, <1>4, <1>5, OneTask

\* The one task that fetches has the newest picture on its way.
LEMMA CaptureKeeps == ASSUME CacheInv, NEW t \in Tasks, Capture(t) PROVE CacheInv'
<1>1. tasks[t] \in Task /\ tasks \in [Tasks -> Task] /\ LockOK /\ Sound(t) /\ Holds(t)
  BY CacheTypes, TaskTypes DEF Capture, LockOK
<1>2. /\ latest \in Nat /\ taken \in Nat /\ latest <= taken /\ taken' = taken + 1
      /\ taken' \in 0..MaxPictures /\ shown \in 0..taken /\ picture \in [Gens -> 0..taken]
      /\ UNCHANGED <<latest, scaled, queue, picture, age, interval, due, shown>>
  BY CacheTypes, Times DEF Capture
<1>3. shown \in 0..taken' /\ picture \in [Gens -> 0..taken'] /\ latest < taken' /\ taken' \in Nat
  <2>1. \A n \in 0..taken : n \in 0..taken'
    BY <1>2
  <2> QED
    BY <1>2, <2>1
<1> DEFINE go == Goes(t, "arriving")
           r == [go EXCEPT !.shot = taken']
<1>4. /\ go \in Task
      /\ go.pc = "arriving"
      /\ go.stale = tasks[t].stale
  BY <1>1, GoesFields
<1>5. tasks' = [tasks EXCEPT ![t] = r] /\ tasks'[t] = r
  BY <1>1 DEF Capture, Set
<1> HIDE DEF go
<1>6. /\ r \in Task
      /\ r.pc = "arriving"
      /\ r.shot = taken'
      /\ r.stale = tasks[t].stale
  BY <1>2, <1>4 DEF Task
<1> HIDE DEF r
<1>7. /\ tasks' \in [Tasks -> Task]
      /\ tasks' = [tasks EXCEPT ![t] = tasks'[t]]
      /\ \A u \in Tasks \ {t} : tasks'[u] = tasks[u]
  BY <1>1, <1>5, <1>6
<1>8. InLock(t) /\ InLock(t)'
  BY <1>5, <1>6 DEF Capture, InLock
<1>9. LockOK'
  BY <1>1, <1>2, <1>5, <1>6, <1>7, <1>8, QueueStays
<1>10. CacheTypeOK'
  BY <1>2, <1>3, <1>7 DEF CacheInv, CacheTypeOK
<1>11. InOrder'
  <2>1. latest <= taken'
    BY <1>2
  <2> QED
    BY <1>2, <2>1 DEF CacheInv, InOrder
<1>12. Sound(t)'
  BY <1>1, <1>2, <1>3, <1>5, <1>6 DEF Capture, Sound
<1>13. ASSUME NEW u \in Tasks, u # t PROVE Sound(u)'
  <2>1. Sound(u) /\ tasks'[u] = tasks[u] /\ tasks[u].pc # "arriving"
    BY <1>1, <1>7, <1>13, OneHolder DEF CacheInv
  <2> QED
    BY <1>2, <2>1 DEF Sound
<1>14. OneServing'
  <2>1. Serving(t)
    BY DEF Capture, Serving
  <2> QED
    BY <1>7, <2>1, StillOne DEF CacheInv
<1> QED
  BY <1>9, <1>10, <1>11, <1>12, <1>13, <1>14 DEF CacheInv

\* It becomes the latest frame: its picture is newer than all before it.
LEMMA FetchedKeeps == ASSUME CacheInv, NEW t \in Tasks, Fetched(t) PROVE CacheInv'
<1> DEFINE N == latest + 1
<1>1. /\ tasks[t] \in Task /\ tasks \in [Tasks -> Task] /\ LockOK /\ Sound(t)
      /\ tasks[t].pc = "arriving" /\ Holds(t)
  BY CacheTypes, TaskTypes DEF Fetched, LockOK
<1>2. /\ latest \in Nat /\ taken \in Nat /\ taken \in 0..MaxPictures /\ shown \in 0..taken
      /\ picture \in [Gens -> 0..taken] /\ age \in [Gens -> 0..Oldest]
      /\ latest' = N
      /\ UNCHANGED <<scaled, taken, interval, due, shown>>
  BY CacheTypes DEF Fetched
<1>3. tasks[t].shot = taken /\ latest < taken
  BY <1>1 DEF Sound
<1>4. N \in 1..taken /\ N \in Gens /\ N \in 0..MaxPictures
  BY <1>2, <1>3, Times DEF Gens
<1>5. /\ picture' = [picture EXCEPT ![N] = taken] /\ age' = [age EXCEPT ![N] = 0]
      /\ picture'[N] = taken /\ age'[N] = 0
      /\ picture' \in [Gens -> 0..taken] /\ age' \in [Gens -> 0..Oldest]
  BY <1>2, <1>3, <1>4, Times DEF Fetched, Oldest
<1>6. ASSUME NEW g \in 1..latest
      PROVE  picture'[g] = picture[g] /\ age'[g] = age[g] /\ picture[g] \in 0..taken
  <2>1. g \in Gens /\ g # N
    BY <1>2, <1>4, Times DEF Gens
  <2> QED
    BY <1>2, <1>5, <2>1
<1>7. tasks' = [tasks EXCEPT ![t] = Refreshed(t, N)] /\ tasks'[t] = Refreshed(t, N)
  BY <1>1, <1>2 DEF Fetched, Set
<1> HIDE DEF N
<1>8. /\ tasks'[t] \in Task
      /\ tasks' = [tasks EXCEPT ![t] = tasks'[t]]
      /\ tasks' \in [Tasks -> Task]
      /\ \A u \in Tasks \ {t} : tasks'[u] = tasks[u]
  BY <1>1, <1>4, <1>7, RefreshedFields
<1>9. /\ ~InLock(t)'
      /\ t = Refresher => tasks'[t].pc = "idle"
      /\ Sound(t)'
  <2>1. CASE t = Refresher
    <3>1. tasks'[t] = Fresh
      BY <1>1, <1>4, <1>7, <2>1, RefreshedFields
    <3>2. latest' \in Nat /\ shown' \in Nat
      BY <1>2, <1>4
    <3> QED
      BY <3>1, <3>2, FreshTask DEF InLock, Sound
  <2>2. CASE t # Refresher
    <3>1. /\ tasks'[t].pc = "lookup"
          /\ tasks'[t].raw = N
          /\ tasks'[t].stale = tasks[t].stale
      BY <1>1, <1>4, <1>7, <2>2, RefreshedFields
    <3>2. tasks[t].stale <= N
      <4>1. tasks[t].stale \in Nat /\ tasks[t].stale <= latest
        BY <1>1, TaskTypes DEF Sound
      <4> QED
        BY <1>2, <4>1 DEF N
    <3>3. N \in 1..N /\ 0 <= MaxAge
      BY <1>2, Times DEF N
    <3> QED
      BY <1>2, <1>5, <2>2, <3>1, <3>2, <3>3 DEF InLock, Sound
  <2> QED
    BY <2>1, <2>2
<1>10. LockOK'
  BY <1>1, <1>8, <1>9, Released DEF Fetched, Unlock
<1>11. CacheTypeOK'
  BY <1>2, <1>4, <1>5, <1>8, <1>10 DEF CacheInv, CacheTypeOK, LockOK
<1>12. InOrder'
  <2>1. ASSUME NEW g \in 1..N, NEW h \in 1..N, g <= h PROVE picture'[g] <= picture'[h]
    <3>1. CASE h \in 1..latest
      <4>1. g \in 1..latest
        BY <1>2, <2>1, <3>1
      <4> QED
        BY <1>6, <2>1, <3>1, <4>1 DEF CacheInv, InOrder
    <3>2. CASE h \notin 1..latest
      <4>1. h = N
        BY <1>2, <3>2 DEF N
      <4>2. g \in Gens /\ picture'[g] \in 0..taken
        BY <1>2, <1>4, <1>5, Times DEF Gens
      <4> QED
        BY <1>2, <1>5, <4>1, <4>2
    <3> QED
      BY <3>1, <3>2
  <2>2. \A s \in Sizes : scaled[s] <= N
    <3> SUFFICES ASSUME NEW s \in Sizes PROVE scaled[s] <= N
      OBVIOUS
    <3>1. scaled[s] <= latest /\ scaled[s] \in 0..MaxPictures
      BY CacheTypes
    <3> QED
      BY <1>2, <3>1, Times DEF N
  <2>3. N <= taken /\ N # 0 /\ shown <= picture'[N]
    BY <1>2, <1>4, <1>5
  <2> QED
    BY <1>2, <2>1, <2>2, <2>3 DEF InOrder
<1>13. ASSUME NEW u \in Tasks, u # t PROVE Sound(u)'
  <2>1. /\ tasks'[u] = tasks[u]
        /\ tasks[u].pc \notin {"fetch", "arriving"}
        /\ Sound(u)
    BY <1>1, <1>8, <1>13, OneHolder DEF CacheInv
  <2>2. tasks[u].stale \in Nat /\ tasks[u].stale <= latest
    BY <2>1, TaskTypes DEF Sound
  <2>3. tasks[u].stale <= N
    BY <1>2, <2>2 DEF N
  <2>4. /\ tasks[u].stale # 0 => tasks[u].stale \in 1..latest
        /\ \A g \in 1..latest : g \in 1..N
    BY <1>2, <2>2 DEF N
  <2> QED
    BY <1>2, <1>6, <2>1, <2>3, <2>4 DEF Sound
<1>14. OneServing'
  BY <1>1, <1>8, StillOne DEF CacheInv, Serving
<1> QED
  BY <1>9, <1>10, <1>11, <1>12, <1>13, <1>14 DEF CacheInv

LEMMA AskKeeps == ASSUME CacheInv, NEW r \in Requests, NEW s \in Sizes, Ask(r, s) PROVE CacheInv'
<1>1. r \in Tasks /\ r # Refresher
  BY Times, SnapshotAssumption
<1>2. tasks \in [Tasks -> Task] /\ LockOK
  BY <1>1, CacheTypes
<1>3. /\ latest \in Nat /\ shown \in Nat
      /\ scaled \in [Sizes -> 0..MaxPictures] /\ \A z \in Sizes : scaled[z] <= latest
      /\ interval \in 0..(Refresh - 1) /\ due \in BOOLEAN
      /\ UNCHANGED <<latest, scaled, queue, taken, picture, age, interval, due, shown>>
  BY CacheTypes DEF Ask
<1> DEFINE new == [Fresh EXCEPT !.pc = "handler", !.size = s]
<1>4. tasks' = [tasks EXCEPT ![r] = new] /\ tasks'[r] = new
  BY <1>1, <1>2 DEF Ask, Set
<1>5. new \in Task /\ new.pc = "handler" /\ new.stale = 0
  BY FreshTask DEF Task
<1> HIDE DEF new
<1>6. /\ tasks' = [tasks EXCEPT ![r] = tasks'[r]] /\ tasks'[r] \in Task
      /\ ~InLock(r) /\ ~InLock(r)' /\ ~Serving(r)'
  BY <1>4, <1>5 DEF Ask, InLock, Serving
<1>7. Sound(r)'
  BY <1>3, <1>4, <1>5 DEF Sound
<1>8. LockOK'
  BY <1>1, <1>2, <1>3, <1>4, <1>5, <1>6, QueueStays
<1> QED
  BY <1>1, <1>3, <1>6, <1>7, <1>8, OneTask

\* A request gets the handler: it is refused, has the latest frame, or waits for
\* a new one.
LEMMA EnterKeeps == ASSUME CacheInv, NEW r \in Requests, Enter(r) PROVE CacheInv'
<1>1. r \in Tasks /\ r # Refresher
  BY Times, SnapshotAssumption
<1>2. tasks[r] \in Task /\ tasks \in [Tasks -> Task] /\ LockOK /\ Sound(r)
  BY <1>1, CacheTypes, TaskTypes
<1>3. /\ latest \in Nat /\ shown \in Nat
      /\ scaled \in [Sizes -> 0..MaxPictures] /\ \A z \in Sizes : scaled[z] <= latest
      /\ interval \in 0..(Refresh - 1) /\ due \in BOOLEAN
      /\ UNCHANGED <<latest, scaled, taken, picture, age, interval, due, shown>>
      /\ HandlerFree
  BY CacheTypes DEF Enter
<1>4. ~InLock(r)
  BY DEF Enter, InLock
<1>5. CASE Set(r, [Fresh EXCEPT !.pc = "failed"]) /\ UNCHANGED queue
  <2> DEFINE new == [Fresh EXCEPT !.pc = "failed"]
  <2>1. tasks' = [tasks EXCEPT ![r] = new] /\ tasks'[r] = new
    BY <1>1, <1>2, <1>5 DEF Set
  <2>2. new \in Task /\ new.pc = "failed" /\ new.stale = 0
    BY FreshTask DEF Task
  <2> HIDE DEF new
  <2>3. tasks' = [tasks EXCEPT ![r] = tasks'[r]] /\ tasks'[r] \in Task /\ ~InLock(r)'
    BY <2>1, <2>2 DEF InLock
  <2>4. Sound(r)'
    BY <1>3, <2>1, <2>2 DEF Sound
  <2>5. LockOK'
    BY <1>1, <1>2, <1>4, <1>5, <2>1, <2>2, <2>3, QueueStays
  <2> QED
    BY <1>1, <1>3, <2>3, <2>4, <2>5, OneTask
<1>6. CASE Usable(latest) /\ Set(r, [Goes(r, "lookup") EXCEPT !.raw = latest]) /\ UNCHANGED queue
  <2> DEFINE go == Goes(r, "lookup")
             new == [go EXCEPT !.raw = latest]
  <2>1. tasks' = [tasks EXCEPT ![r] = new] /\ tasks'[r] = new
    BY <1>1, <1>2, <1>6 DEF Set
  <2>2. latest # 0 /\ age[latest] <= MaxAge /\ latest \in 0..MaxPictures
    BY <1>6, CacheTypes DEF Usable
  <2>3. go \in Task /\ go.pc = "lookup" /\ go.stale = tasks[r].stale
    BY <1>1, <1>2, GoesFields
  <2> HIDE DEF go
  <2>4. new \in Task /\ new.pc = "lookup" /\ new.raw = latest /\ new.stale = tasks[r].stale
    BY <2>2, <2>3 DEF Task
  <2> HIDE DEF new
  <2>5. latest \in 1..latest /\ shown <= picture[latest]
    BY <1>3, <2>2, CacheTypes
  <2>6. Sound(r)'
    BY <1>2, <1>3, <2>1, <2>2, <2>4, <2>5 DEF Sound
  <2>7. tasks' = [tasks EXCEPT ![r] = tasks'[r]] /\ tasks'[r] \in Task /\ ~InLock(r)'
    BY <2>1, <2>4 DEF InLock
  <2>8. LockOK'
    BY <1>1, <1>2, <1>4, <1>6, <2>1, <2>4, <2>7, QueueStays
  <2> QED
    BY <1>1, <1>3, <2>6, <2>7, <2>8, OneTask
<1>7. CASE ~Usable(latest) /\ Set(r, Goes(r, "lock")) /\ Enqueue(r)
  <2> DEFINE new == Goes(r, "lock")
  <2>1. tasks' = [tasks EXCEPT ![r] = new] /\ tasks'[r] = new
    BY <1>1, <1>2, <1>7 DEF Set
  <2>2. new \in Task /\ new.pc = "lock" /\ new.stale = tasks[r].stale
    BY <1>1, <1>2, GoesFields
  <2> HIDE DEF new
  <2>3. tasks' = [tasks EXCEPT ![r] = tasks'[r]] /\ tasks'[r] \in Task
    BY <2>1, <2>2
  <2>4. Sound(r)'
    BY <1>2, <1>3, <2>1, <2>2 DEF Sound
  <2>5. LockOK'
    BY <1>1, <1>2, <1>4, <1>7, <2>1, <2>2, <2>3, Queued DEF Enqueue
  <2> QED
    BY <1>1, <1>3, <2>3, <2>4, <2>5, OneTask
<1> QED
  BY <1>5, <1>6, <1>7 DEF Enter

\* Only the request that has the handler shows a picture: no other holds a frame.
LEMMA ServeKeeps ==
  ASSUME CacheInv, NEW r \in Requests, NEW g \in 0..latest, NEW unscaled \in BOOLEAN,
         tasks[r].pc \in {"lookup", "scale"}, Serve(r, g, unscaled),
         UNCHANGED <<latest, queue, taken, picture, age, interval, due>>,
         scaled' \in [Sizes -> 0..MaxPictures], \A s \in Sizes : scaled'[s] <= latest
  PROVE  CacheInv'
<1>1. r \in Tasks /\ r # Refresher
  BY Times, SnapshotAssumption
<1>2. tasks[r] \in Task /\ tasks \in [Tasks -> Task] /\ LockOK
  BY <1>1, CacheTypes, TaskTypes
<1>3. /\ latest \in Nat /\ latest \in 0..MaxPictures /\ shown \in Nat
      /\ interval' \in 0..(Refresh - 1) /\ due' \in BOOLEAN
  BY CacheTypes
<1>4. /\ g \in Nat /\ g <= latest /\ g \in 0..MaxPictures
      /\ g # 0 => g \in 1..latest /\ picture[g] \in Nat /\ picture[g] <= picture[latest]
  BY <1>3, CacheTypes, Times
<1>6. shown' = IF g # 0 /\ picture[g] > shown THEN picture[g] ELSE shown
  BY DEF Serve
<1>7. /\ shown' \in Nat
      /\ shown' = shown \/ (latest # 0 /\ shown' <= picture[latest])
  <2>1. CASE g # 0 /\ picture[g] > shown
    BY <1>3, <1>4, <1>6, <2>1
  <2>2. CASE ~(g # 0 /\ picture[g] > shown)
    BY <1>3, <1>6, <2>2
  <2> QED
    BY <2>1, <2>2
<1> DEFINE place == IF g = 0 THEN "failed" ELSE "served"
           new == [Fresh EXCEPT !.pc = place, !.out = g, !.unscaled = unscaled]
<1>8. tasks' = [tasks EXCEPT ![r] = new] /\ tasks'[r] = new
  BY <1>1, <1>2 DEF Serve, Set
<1>9. place \in {"served", "failed"}
  OBVIOUS
<1> HIDE DEF place
<1>10. new \in Task /\ new.pc = place /\ new.stale = 0
  BY <1>4, <1>9, FreshTask DEF Task
<1> HIDE DEF new
<1>12. Sound(r)'
  BY <1>3, <1>8, <1>9, <1>10 DEF Sound
<1>13. /\ tasks' = [tasks EXCEPT ![r] = tasks'[r]]
       /\ tasks'[r] \in Task
       /\ ~InLock(r) /\ ~InLock(r)' /\ Serving(r)
       /\ tasks'[r].pc \notin {"fetch", "arriving"}
  BY <1>8, <1>9, <1>10 DEF InLock, Serving
<1>14. LockOK'
  BY <1>1, <1>2, <1>13, QueueStays
<1> QED
  BY <1>1, <1>3, <1>7, <1>12, <1>13, <1>14, OneTask

LEMMA ScalesKeeps == ASSUME CacheInv, NEW r \in Requests, Scales(r) PROVE CacheInv'
<1>1. r \in Tasks /\ r # Refresher
  BY Times, SnapshotAssumption
<1>2. /\ tasks[r] \in Task /\ tasks \in [Tasks -> Task] /\ LockOK /\ Sound(r)
      /\ tasks[r].raw \in Nat /\ tasks[r].raw \in 0..MaxPictures /\ tasks[r].size \in Sizes
      /\ tasks[r].stale \in Nat
  BY <1>1, CacheTypes, TaskTypes
<1>3. /\ latest \in Nat /\ shown \in Nat
      /\ scaled \in [Sizes -> 0..MaxPictures] /\ \A s \in Sizes : scaled[s] <= latest
      /\ interval \in 0..(Refresh - 1) /\ due \in BOOLEAN
  BY CacheTypes
<1>4. ASSUME tasks[r].pc \in {"lookup", "scale"}
      PROVE  /\ tasks[r].raw \in 1..latest
             /\ tasks[r].raw \in 0..latest
             /\ shown <= picture[tasks[r].raw]
  BY <1>2, <1>3, <1>4 DEF Sound
<1>5. CASE Lookup(r) /\ Hit(r)
  <2>1. tasks[r].pc = "lookup" /\ Serve(r, tasks[r].raw, FALSE)
        /\ UNCHANGED <<latest, scaled, queue, taken, picture, age, interval, due>>
    BY <1>5 DEF Lookup, Hit
  <2> QED
    BY <1>3, <1>4, <2>1, ServeKeeps
<1>6. CASE Lookup(r) /\ ~Hit(r)
  <2> DEFINE cached == scaled[tasks[r].size]
             stale == IF Usable(cached) THEN cached ELSE 0
             go == Goes(r, "scale")
             new == [go EXCEPT !.left = ScaleTimeout, !.stale = stale]
  <2>1. /\ tasks[r].pc = "lookup"
        /\ UNCHANGED <<latest, scaled, queue, taken, picture, age, interval, due, shown>>
        /\ tasks' = [tasks EXCEPT ![r] = new]
        /\ tasks'[r] = new
    BY <1>1, <1>2, <1>6 DEF Lookup, Set
  <2>2. cached \in 0..MaxPictures /\ cached <= latest
    BY <1>2, <1>3
  <2>3. /\ stale \in 0..MaxPictures /\ stale <= latest
        /\ stale # 0 => age[stale] <= MaxAge
    BY <1>3, <2>2, Times DEF Usable
  <2>4. /\ go \in Task
        /\ go.pc = "scale"
        /\ go.raw = tasks[r].raw
    BY <1>1, <1>2, GoesFields
  <2> HIDE DEF go, stale
  <2>5. /\ new \in Task
        /\ new.pc = "scale"
        /\ new.left = ScaleTimeout
        /\ new.raw = tasks[r].raw
        /\ new.stale = stale
    BY <2>3, <2>4, Times DEF Task
  <2> HIDE DEF new
  <2>6. tasks[r].raw \in 1..latest /\ age[tasks[r].raw] <= MaxAge
    BY <1>2, <2>1 DEF Sound
  <2>7. /\ age[tasks[r].raw] + ScaleTimeout <= MaxAge + ScaleTimeout
        /\ stale # 0 => age[stale] + ScaleTimeout <= MaxAge + ScaleTimeout
    <3>1. age[tasks[r].raw] \in Nat
      BY <2>6, CacheTypes
    <3>2. stale # 0 => stale \in 1..latest /\ age[stale] \in Nat
      BY <1>3, <2>3, Times, CacheTypes
    <3> QED
      BY <2>3, <2>6, <3>1, <3>2, Times
  <2>8. Sound(r)'
    BY <1>2, <1>4, <2>1, <2>3, <2>5, <2>6, <2>7, Times DEF Sound
  <2>9. /\ tasks' = [tasks EXCEPT ![r] = tasks'[r]]
        /\ tasks'[r] \in Task
        /\ ~InLock(r) /\ ~InLock(r)' /\ Serving(r)
        /\ tasks'[r].pc \notin {"fetch", "arriving"}
    BY <2>1, <2>5 DEF InLock, Serving
  <2>10. LockOK'
    BY <1>1, <1>2, <2>1, <2>9, QueueStays
  <2>11. /\ UNCHANGED <<latest, taken, picture, age>>
         /\ interval' \in 0..(Refresh - 1) /\ due' \in BOOLEAN
         /\ scaled' \in [Sizes -> 0..MaxPictures] /\ \A s \in Sizes : scaled'[s] <= latest
         /\ shown' = shown /\ shown' \in Nat
    BY <1>3, <2>1
  <2> QED
    BY <1>1, <2>8, <2>9, <2>10, <2>11, OneTask
<1>7. CASE Scaled(r)
  <2> DEFINE raw == tasks[r].raw
  <2>1. /\ tasks[r].pc = "scale" /\ Serve(r, raw, FALSE)
        /\ scaled' = [scaled EXCEPT ![tasks[r].size] = raw]
        /\ UNCHANGED <<latest, queue, taken, picture, age, interval, due>>
    BY <1>7 DEF Scaled
  <2>2. raw \in 0..latest /\ raw <= latest
    BY <1>3, <1>4, <2>1
  <2>3. scaled' \in [Sizes -> 0..MaxPictures] /\ \A s \in Sizes : scaled'[s] <= latest
    BY <1>2, <1>3, <2>1, <2>2
  <2> QED
    BY <1>4, <2>1, <2>2, <2>3, ServeKeeps
<1>8. CASE ScaleFails(r)
  <2>1. /\ tasks[r].pc = "scale" /\ Serve(r, tasks[r].stale, TRUE)
        /\ UNCHANGED <<latest, scaled, queue, taken, picture, age, interval, due>>
    BY <1>8 DEF ScaleFails
  <2>2. tasks[r].stale \in 0..latest
    BY <1>2, <1>3 DEF Sound
  <2> QED
    BY <1>3, <2>1, <2>2, ServeKeeps
<1> QED
  BY <1>5, <1>6, <1>7, <1>8 DEF Scales

LEMMA TickKeeps == CacheInv /\ Tick => CacheInv'
<1> SUFFICES ASSUME CacheInv, Tick PROVE CacheInv'
  OBVIOUS
<1>1. /\ latest \in 0..MaxPictures /\ latest \in Nat /\ age \in [Gens -> 0..Oldest]
      /\ interval \in 0..(Refresh - 1) /\ due \in BOOLEAN
      /\ tasks \in [Tasks -> Task] /\ LockOK
      /\ UNCHANGED <<latest, scaled, queue, taken, picture, shown>>
  BY CacheTypes DEF Tick
<1>2. ASSUME NEW t \in Tasks
      PROVE  /\ tasks'[t] \in Task
             /\ tasks'[t].pc = tasks[t].pc
             /\ tasks'[t].shot = tasks[t].shot
             /\ tasks'[t].raw = tasks[t].raw
             /\ tasks'[t].stale = tasks[t].stale
             /\ tasks'[t].unscaled = tasks[t].unscaled
             /\ tasks'[t].left \in Nat
             /\ tasks[t].left > 0 => tasks'[t].left = tasks[t].left - 1
  <2> DEFINE k == tasks[t]
             n == [k EXCEPT !.left = @ - 1]
  <2>1. k \in Task /\ k.left \in Nat
    BY TaskTypes
  <2>2. tasks'[t] = IF k.left > 0 THEN n ELSE k
    BY DEF Tick
  <2> HIDE DEF k
  <2>3. k.left > 0 => n \in Task /\ n.left = k.left - 1 /\ n.left \in Nat
    BY <2>1 DEF Task
  <2>4. /\ n.pc = k.pc
        /\ n.shot = k.shot
        /\ n.raw = k.raw
        /\ n.stale = k.stale
        /\ n.unscaled = k.unscaled
    BY <2>1 DEF Task
  <2> HIDE DEF n
  <2> QED
    BY <2>1, <2>2, <2>3, <2>4 DEF k
<1>3. Oldest \in Nat /\ Oldest > Dedup /\ Oldest = MaxAge + ScaleTimeout + 1
  BY Times DEF Oldest
<1>4. ASSUME NEW g \in Gens
      PROVE  /\ age[g] \in Nat /\ age'[g] \in 0..Oldest /\ age'[g] \in Nat
             /\ age'[g] <= age[g] + 1
             /\ age[g] > Dedup => age'[g] > Dedup
  <2>1. age[g] \in 0..Oldest /\ age'[g] = Min2(age[g] + 1, Oldest)
    BY <1>1 DEF Tick
  <2> QED
    BY <1>3, <2>1, Times DEF Min2
<1>5. age' \in [Gens -> 0..Oldest]
  <2>1. age' = [g \in Gens |-> Min2(age[g] + 1, Oldest)]
    BY DEF Tick
  <2> QED
    BY <1>4, <2>1
<1>6. interval' \in 0..(Refresh - 1) /\ due' \in BOOLEAN
  BY <1>1, Times DEF Tick
<1>7. tasks' \in [Tasks -> Task]
  <2>1. tasks' = [t \in Tasks |-> IF tasks[t].left > 0 THEN [tasks[t] EXCEPT !.left = @ - 1]
                                                       ELSE tasks[t]]
    BY DEF Tick
  <2> QED
    BY <1>2, <2>1
<1>8. CacheTypeOK'
  BY <1>1, <1>5, <1>6, <1>7 DEF CacheInv, CacheTypeOK
<1>9. LockOK'
  <2>1. \A t \in Tasks : (InLock(t)' <=> InLock(t)) /\ (Holds(t)' <=> Holds(t))
    BY <1>1, <1>2 DEF InLock, Holds
  <2> QED
    BY <1>1, <1>2, <2>1, Times DEF LockOK
<1>10. InOrder'
  BY <1>1 DEF CacheInv, InOrder
<1>11. ASSUME NEW t \in Tasks PROVE Sound(t)'
  <2>1. /\ Sound(t) /\ tasks[t] \in Task /\ tasks[t].left \in Nat
        /\ tasks[t].stale \in Nat /\ tasks[t].raw \in Nat
    BY TaskTypes
  <2>2. tasks[t].pc # "lookup"
    BY DEF Tick, Waits
  <2>3. \A g \in 1..latest : g \in Gens
    BY <1>1, Times DEF Gens
  <2>4. tasks[t].pc = "scale" =>
          /\ tasks'[t].left <= ScaleTimeout
          /\ age'[tasks'[t].raw] + tasks'[t].left <= MaxAge + ScaleTimeout
          /\ tasks'[t].stale # 0
               => age'[tasks'[t].stale] + tasks'[t].left <= MaxAge + ScaleTimeout
    <3> SUFFICES ASSUME tasks[t].pc = "scale"
                 PROVE  /\ tasks'[t].left <= ScaleTimeout
                        /\ age'[tasks[t].raw] + tasks'[t].left <= MaxAge + ScaleTimeout
                        /\ tasks[t].stale # 0
                             => age'[tasks[t].stale] + tasks'[t].left <= MaxAge + ScaleTimeout
      BY <1>2
    <3>1. /\ tasks[t].left > 0
          /\ tasks'[t].left = tasks[t].left - 1
      BY <1>2 DEF Tick, Waits
    <3>2. /\ tasks[t].left <= ScaleTimeout
          /\ tasks[t].raw \in Gens
          /\ age[tasks[t].raw] + tasks[t].left <= MaxAge + ScaleTimeout
          /\ tasks[t].stale # 0 => /\ tasks[t].stale \in Gens
                                   /\ age[tasks[t].stale] + tasks[t].left <= MaxAge + ScaleTimeout
      BY <1>1, <2>1, <2>3 DEF Sound
    <3>3. tasks'[t].left <= ScaleTimeout
      BY <2>1, <3>1, <3>2, Times
    <3>4. age'[tasks[t].raw] + tasks'[t].left <= MaxAge + ScaleTimeout
      BY <1>4, <2>1, <3>1, <3>2, Times
    <3>5. ASSUME tasks[t].stale # 0
          PROVE  age'[tasks[t].stale] + tasks'[t].left <= MaxAge + ScaleTimeout
      BY <1>4, <2>1, <3>1, <3>2, <3>5, Times
    <3> QED
      BY <3>3, <3>4, <3>5
  <2>5. latest # 0 /\ age[latest] > Dedup => age'[latest] > Dedup
    BY <1>1, <1>4, <2>3
  <2> QED
    BY <1>1, <1>2, <2>1, <2>2, <2>4, <2>5 DEF Sound
<1>12. OneServing'
  BY <1>2 DEF CacheInv, OneServing, Serving, Tasks
<1> QED
  BY <1>8, <1>9, <1>10, <1>11, <1>12 DEF CacheInv

LEMMA StepCache == CacheInv /\ [CacheNext]_cacheVars => CacheInv'
<1> SUFFICES ASSUME CacheInv, [CacheNext]_cacheVars PROVE CacheInv'
  OBVIOUS
<1>1. CASE RefresherWakes
  BY <1>1, WakesKeeps
<1>2. ASSUME NEW t \in Tasks, Fetches(t) PROVE CacheInv'
  BY <1>2, LockedKeeps, CaptureKeeps, FetchedKeeps, FailsKeeps DEF Fetches
<1>3. ASSUME NEW r \in Requests, Scales(r) PROVE CacheInv'
  BY <1>3, ScalesKeeps
<1>4. ASSUME NEW r \in Requests, NEW s \in Sizes, Ask(r, s) PROVE CacheInv'
  BY <1>4, AskKeeps
<1>5. ASSUME NEW r \in Requests, Enter(r) PROVE CacheInv'
  BY <1>5, EnterKeeps
<1>6. CASE Tick
  BY <1>6, TickKeeps
<1>7. CASE UNCHANGED cacheVars
  BY <1>7 DEF cacheVars, CacheInv, CacheTypeOK, LockOK, InLock, Holds, InOrder, Sound,
              OneServing, Serving
<1> QED
  BY <1>1, <1>2, <1>3, <1>4, <1>5, <1>6, <1>7 DEF CacheNext

LEMMA CacheInvariance == CacheSpec => []CacheInv
BY InitCache, StepCache, PTL DEF CacheSpec

\* The cache keeps its types; no task stands twice in the queue of
\* refresh_lock, so that its release (the guard of refresh going out of scope)
\* always lets another task in.
THEOREM CacheTypeCorrect == CacheSpec => []CacheTypeOK
<1>1. CacheInv => CacheTypeOK
  BY DEF CacheInv
<1> QED
  BY <1>1, CacheInvariance, PTL

\* refresh replaces a frame only when it is older than Dedup: of the tasks that
\* wait for refresh_lock with a frame too old, one asks the camera.
THEOREM Spaced == CacheSpec => FramesSpaced
<1>1. CacheInv /\ [CacheNext]_cacheVars
        => [latest' # latest /\ latest # 0 => age[latest] > Dedup]_cacheVars
  <2> SUFFICES ASSUME CacheInv, CacheNext, latest' # latest, latest # 0
               PROVE  age[latest] > Dedup
    OBVIOUS
  <2>1. PICK t \in Tasks : Fetched(t)
    BY DEF CacheNext, RefresherWakes, Fetches, Locked, Capture, FetchFails, Scales, Lookup,
           Scaled, ScaleFails, Ask, Enter, Tick
  <2> QED
    BY <2>1, TaskTypes DEF Fetched, Sound
<1> QED
  BY <1>1, CacheInvariance, PTL DEF CacheSpec, FramesSpaced

\* An image comes from a lookup, a scaling or the failure of one.
LEMMA AnswerFrom ==
  ASSUME CacheInv, NEW r \in Requests, CacheNext, Answers(r), tasks'[r].out # 0
  PROVE  /\ UNCHANGED <<latest, picture, age>>
         /\ \/ tasks[r].pc = "lookup" /\ tasks'[r].out = tasks[r].raw
            \/ tasks[r].pc = "scale" /\ tasks'[r].out = tasks[r].raw
            \/ tasks[r].pc = "scale" /\ tasks'[r].out = tasks[r].stale /\ tasks'[r].unscaled
<1> DEFINE From ==
      /\ UNCHANGED <<latest, picture, age>>
      /\ \/ tasks[r].pc = "lookup" /\ tasks'[r].out = tasks[r].raw
         \/ tasks[r].pc = "scale" /\ tasks'[r].out = tasks[r].raw
         \/ tasks[r].pc = "scale" /\ tasks'[r].out = tasks[r].stale /\ tasks'[r].unscaled
<1>1. r \in Tasks /\ r # Refresher /\ tasks \in [Tasks -> Task] /\ tasks[r] \in Task
  BY Times, SnapshotAssumption, CacheTypes, TaskTypes
<1>2. /\ tasks[r].pc \notin {"served", "failed"}
      /\ tasks'[r].pc \in {"served", "failed"}
      /\ tasks'[r] # tasks[r]
  BY DEF Answers
<1>3. CASE RefresherWakes
  BY <1>1, <1>2, <1>3 DEF RefresherWakes, Set
<1>4. ASSUME NEW t \in Tasks, Fetches(t) PROVE FALSE
  <2>1. CASE t # r
    BY <1>1, <1>2, <1>4, <2>1 DEF Fetches, Locked, Capture, Fetched, FetchFails, Set
  <2>2. CASE t = r
    <3>1. ASSUME NEW n \in 0..MaxPictures, tasks' = [tasks EXCEPT ![r] = Refreshed(r, n)]
          PROVE  FALSE
      BY <1>1, <1>2, <3>1, RefreshedFields
    <3>2. latest \in 0..MaxPictures
      BY CacheTypes
    <3>3. CASE Locked(r)
      <4>1. CASE Coalesced
        BY <3>1, <3>2, <3>3, <4>1 DEF Locked, Set
      <4>2. CASE ~Coalesced
        <5> DEFINE go == Goes(r, "fetch")
                   new == [go EXCEPT !.left = FetchTimeout]
        <5>1. go \in Task /\ go.pc = "fetch"
          BY <1>1, GoesFields
        <5>2. tasks'[r] = new
          BY <1>1, <3>3, <4>2 DEF Locked, Set
        <5> HIDE DEF go
        <5>3. new.pc = "fetch"
          BY <5>1 DEF Task
        <5> QED
          BY <1>2, <5>2, <5>3
      <4> QED
        BY <4>1, <4>2
    <3>4. CASE Capture(r)
      <4> DEFINE go == Goes(r, "arriving")
                 new == [go EXCEPT !.shot = taken']
      <4>1. go \in Task /\ go.pc = "arriving"
        BY <1>1, GoesFields
      <4>2. tasks'[r] = new
        BY <1>1, <3>4 DEF Capture, Set
      <4> HIDE DEF go
      <4>3. new.pc = "arriving"
        BY <4>1 DEF Task
      <4> QED
        BY <1>2, <4>2, <4>3
    <3>5. CASE Fetched(r)
      <4>1. latest' = latest + 1 /\ latest + 1 \in 0..MaxPictures
        <5>1. latest < taken /\ latest \in Nat /\ taken \in 0..MaxPictures
          BY <1>1, <3>5, CacheTypes, TaskTypes DEF Fetched, Sound
        <5> QED
          BY <3>5, <5>1, Times DEF Fetched
      <4>2. tasks' = [tasks EXCEPT ![r] = Refreshed(r, latest + 1)]
        BY <3>5, <4>1 DEF Fetched, Set
      <4> QED
        BY <3>1, <4>1, <4>2
    <3>6. CASE FetchFails(r)
      <4>1. tasks'[r] = NotRefreshed(r)
        BY <1>1, <3>6 DEF FetchFails, Set
      <4>2. CASE Usable(latest)
        BY <1>1, <3>1, <3>2, <3>6, <4>2 DEF FetchFails, Set, NotRefreshed
      <4>3. CASE ~Usable(latest)
        <5>1. tasks'[r] = [Fresh EXCEPT !.pc = "failed"]
          BY <1>1, <4>1, <4>3 DEF NotRefreshed
        <5> QED
          BY <5>1 DEF Fresh
      <4> QED
        BY <4>2, <4>3
    <3> QED
      BY <1>4, <2>2, <3>3, <3>4, <3>5, <3>6 DEF Fetches
  <2> QED
    BY <2>1, <2>2
<1>5. ASSUME NEW q \in Requests, NEW s \in Sizes, Ask(q, s) PROVE FALSE
  <2>1. CASE q # r
    BY <1>1, <1>2, <1>5, <2>1 DEF Ask, Set
  <2>2. CASE q = r
    BY <1>1, <1>2, <1>5, <2>2 DEF Ask, Set, Fresh
  <2> QED
    BY <2>1, <2>2
<1>6. CASE Tick
  <2>1. tasks'[r].pc = tasks[r].pc
    BY <1>1, <1>6 DEF Tick, Task
  <2> QED
    BY <1>2, <2>1
<1>7. ASSUME NEW q \in Requests, Enter(q) PROVE FALSE
  <2>1. CASE q # r
    BY <1>1, <1>2, <1>7, <2>1 DEF Enter, Set
  <2>2. CASE q = r
    <3>1. CASE Set(r, [Fresh EXCEPT !.pc = "failed"])
      BY <1>1, <3>1 DEF Set, Fresh
    <3>2. CASE Set(r, [Goes(r, "lookup") EXCEPT !.raw = latest])
      <4> DEFINE go == Goes(r, "lookup")
                 new == [go EXCEPT !.raw = latest]
      <4>1. go \in Task /\ go.pc = "lookup"
        BY <1>1, GoesFields
      <4>2. tasks'[r] = new
        BY <1>1, <3>2 DEF Set
      <4> HIDE DEF go
      <4>3. new.pc = "lookup"
        BY <4>1 DEF Task
      <4> QED
        BY <1>2, <4>2, <4>3
    <3>3. CASE Set(r, Goes(r, "lock"))
      <4>1. tasks'[r] = Goes(r, "lock")
        BY <1>1, <3>3 DEF Set
      <4>2. Goes(r, "lock").pc = "lock"
        BY <1>1, GoesFields
      <4> QED
        BY <1>2, <4>1, <4>2
    <3> QED
      BY <1>7, <2>2, <3>1, <3>2, <3>3 DEF Enter
  <2> QED
    BY <2>1, <2>2
<1>8. ASSUME NEW q \in Requests, Scales(q) PROVE From
  <2>1. UNCHANGED <<latest, picture, age>> /\ q \in Tasks
    BY <1>8, Times DEF Scales, Lookup, Scaled, ScaleFails
  <2>2. q = r
    BY <1>1, <1>2, <1>8, <2>1 DEF Scales, Lookup, Scaled, ScaleFails, Serve, Set
  <2>3. ASSUME NEW g, NEW b, Serve(r, g, b) PROVE tasks'[r].out = g /\ tasks'[r].unscaled = b
    BY <1>1, <2>3 DEF Serve, Set, Fresh
  <2>4. CASE Lookup(r) /\ Hit(r)
    <3>1. tasks[r].pc = "lookup" /\ tasks'[r].out = tasks[r].raw
      BY <2>3, <2>4 DEF Lookup, Hit
    <3> QED
      BY <2>1, <3>1
  <2>5. CASE Lookup(r) /\ ~Hit(r)
    <3> DEFINE go == Goes(r, "scale")
               st == IF Usable(scaled[tasks[r].size]) THEN scaled[tasks[r].size] ELSE 0
               new == [go EXCEPT !.left = ScaleTimeout, !.stale = st]
    <3>1. go \in Task /\ go.pc = "scale"
      BY <1>1, GoesFields
    <3>2. tasks'[r] = new
      BY <1>1, <2>5 DEF Lookup, Set
    <3> HIDE DEF go, st
    <3>3. new.pc = "scale"
      BY <3>1 DEF Task
    <3> QED
      BY <1>2, <3>2, <3>3
  <2>6. CASE Scaled(r)
    <3>1. tasks[r].pc = "scale" /\ tasks'[r].out = tasks[r].raw
      BY <2>3, <2>6 DEF Scaled
    <3> QED
      BY <2>1, <3>1
  <2>7. CASE ScaleFails(r)
    <3>1. tasks[r].pc = "scale" /\ tasks'[r].out = tasks[r].stale /\ tasks'[r].unscaled
      BY <2>3, <2>7 DEF ScaleFails
    <3> QED
      BY <2>1, <3>1
  <2> QED
    BY <1>8, <2>2, <2>4, <2>5, <2>6, <2>7 DEF Scales
<1> QED
  BY <1>3, <1>4, <1>5, <1>6, <1>7, <1>8 DEF CacheNext

\* What the frame of the answer is allowed to be as old as.
LEMMA AnswerYoung ==
  ASSUME CacheInv, NEW r \in Requests, CacheNext, Answers(r), tasks'[r].out # 0
  PROVE  age'[tasks'[r].out] <= MaxAge + ScaleTimeout
<1>1. r \in Tasks /\ Sound(r) /\ tasks[r].left \in Nat /\ age' = age
  BY Times, TaskTypes, AnswerFrom
<1>2. CASE tasks[r].pc = "lookup" /\ tasks'[r].out = tasks[r].raw
  <2>1. tasks[r].raw \in 1..latest /\ age[tasks[r].raw] <= MaxAge
    BY <1>1, <1>2 DEF Sound
  <2>2. age[tasks[r].raw] \in Nat
    BY <2>1, CacheTypes
  <2> QED
    BY <1>1, <1>2, <2>1, <2>2, Times
<1>3. ASSUME NEW g \in 1..latest, tasks[r].pc = "scale", tasks'[r].out = g,
             age[g] + tasks[r].left <= MaxAge + ScaleTimeout
      PROVE  age'[tasks'[r].out] <= MaxAge + ScaleTimeout
  <2>1. age[g] \in Nat
    BY CacheTypes
  <2> QED
    BY <1>1, <1>3, <2>1, Times
<1>4. CASE tasks[r].pc = "scale" /\ tasks'[r].out = tasks[r].raw
  BY <1>1, <1>3, <1>4 DEF Sound
<1>5. CASE tasks[r].pc = "scale" /\ tasks'[r].out = tasks[r].stale
  <2>1. tasks[r].stale \in 1..latest
    BY <1>1, <1>5, CacheTypes, TaskTypes DEF Sound
  <2> QED
    BY <1>1, <1>3, <1>5, <2>1 DEF Sound
<1> QED
  BY <1>2, <1>4, <1>5, AnswerFrom

\* No answer of the snapshot handler is an older picture than one that was
\* shown before it, to whichever controller, unless its own scaling failed:
\* however many requests and sizes there are, and however the refreshes, the
\* scalings and their timeouts interleave.
THEOREM PicturesForward == CacheSpec => NeverBackwards
<1>1. ASSUME CacheInv, NEW r \in Requests, CacheNext, Answers(r), tasks'[r].out # 0,
             ~tasks'[r].unscaled
      PROVE  picture[tasks'[r].out] >= shown
  <2>1. tasks[r].pc \in {"lookup", "scale"} /\ tasks'[r].out = tasks[r].raw
    BY <1>1, AnswerFrom
  <2>2. r \in Tasks /\ Sound(r)
    BY <1>1, Times, TaskTypes
  <2>3. tasks[r].raw \in 1..latest /\ shown <= picture[tasks[r].raw]
    BY <2>1, <2>2 DEF Sound
  <2>4. picture[tasks[r].raw] \in Nat /\ shown \in Nat
    BY <1>1, <2>3, CacheTypes
  <2> QED
    BY <2>1, <2>3, <2>4
<1>2. CacheInv /\ [CacheNext]_cacheVars
        => [\A r \in Requests : Answers(r) /\ tasks'[r].out # 0 /\ ~tasks'[r].unscaled
              => picture[tasks'[r].out] >= shown]_cacheVars
  BY <1>1
<1> QED
  BY <1>2, CacheInvariance, PTL DEF CacheSpec, NeverBackwards

\* No image that get answers with was fetched longer ago than MaxAge and one
\* scaling: not the fallback after a failed refresh, nor the variant of an
\* older frame that replaces one that could not be scaled.
THEOREM AgeLimit == CacheSpec => AgeBounded
<1>1. CacheInv /\ [CacheNext]_cacheVars
        => [\A r \in Requests : Answers(r) /\ tasks'[r].out # 0
              => age'[tasks'[r].out] <= MaxAge + ScaleTimeout]_cacheVars
  BY AnswerYoung
<1> QED
  BY <1>1, CacheInvariance, PTL DEF CacheSpec, AgeBounded

-----------------------------------------------------------------------------
(* CameraSettings.  Two things carry ProfilesHold: the profiles are applied *)
(* in the order of the plan, and what the camera resets with one of them    *)
(* belongs to a later one (ResetLater).  A step may thus only disturb the   *)
(* keys of the profile at work, of which the invariant says what is done    *)
(* already (Begun), and those of profiles that are still to come.  The plan *)
(* is concrete; what the proofs need of it is said once.                    *)

LEMMA PlanSteps == Steps = 1..10 /\ Len(Plan) = 10
BY DEF Plan, Steps

\* The ten steps one by one.
LEMMA TenSteps ==
  \A i \in Steps : \/ i = 1 \/ i = 2 \/ i = 3 \/ i = 4 \/ i = 5
                   \/ i = 6 \/ i = 7 \/ i = 8 \/ i = 9 \/ i = 10
BY PlanSteps

LEMMA PlanKeys ==
  /\ Keys(1) = {"extra2.size", "extra2.rate"}
  /\ Keys(2) = {"extra1.on"}
  /\ Keys(3) = {"main.hz"}
  /\ Keys(4) = {"exposure", "denoise"}
  /\ Keys(5) = {"font", "ptz"}
  /\ Keys(6) = {"main.size", "main.hz"}
  /\ Keys(7) = {"snap"}
  /\ Keys(8) = {"rule"}
  /\ Keys(9) = {"smart"}
  /\ Keys(10) = {"motion"}
<1>1. Keys(1) = {"extra2.size", "extra2.rate"} /\ Keys(2) = {"extra1.on"}
  BY DEF Keys, Plan, LiveStream, Unused, Profile
<1>2. Keys(3) = {"main.hz"} /\ Keys(4) = {"exposure", "denoise"}
  BY DEF Keys, Plan, MediaAudio, MediaImage, Profile
<1>3. Keys(5) = {"font", "ptz"} /\ Keys(6) = {"main.size", "main.hz"}
  BY DEF Keys, Plan, Overlay, Recording, Profile
<1>4. Keys(7) = {"snap"} /\ Keys(8) = {"rule"}
  BY DEF Keys, Plan, Snapshot, Rule, Profile
<1>5. Keys(9) = {"smart"} /\ Keys(10) = {"motion"}
  BY DEF Keys, Plan, Smart, Motion, Profile
<1> QED
  BY <1>1, <1>2, <1>3, <1>4, <1>5

LEMMA PlanProfiles ==
  ASSUME NEW i \in Steps
  PROVE  /\ Plan[i].via = "bulk" <=> i = 1
         /\ Plan[i].via = "parts" <=> i = 5
         /\ Plan[i].via = "each" <=> i \in {3, 4}
         /\ Plan[i].via = "rpc" <=> i \notin {1, 3, 4, 5}
         /\ Plan[i].name = "recording" <=> i = 6
         /\ Plan[i].name = "snapshot" <=> i = 7
         /\ Plan[i].name = "rule" <=> i = 8
         /\ Plan[i].table = "Encode" <=> i \in {1, 2, 3, 6, 7}
BY TenSteps DEF Plan, Profile, LiveStream, Unused, MediaAudio, MediaImage, Overlay,
   Recording, Snapshot, Rule, Smart, Motion

\* The keys of a profile are a sequence without repetition.
LEMMA KeySequence ==
  ASSUME NEW i \in Steps
  PROVE  /\ Len(Plan[i].keys) \in Nat \ {0} /\ Len(Plan[i].keys) <= 10
         /\ DOMAIN Plan[i].keys = 1..Len(Plan[i].keys)
         /\ \A j \in 1..Len(Plan[i].keys) : Plan[i].keys[j] \in Keys(i)
         /\ \A k \in Keys(i) : \E j \in 1..Len(Plan[i].keys) : k = Plan[i].keys[j]
         /\ \A j, l \in 1..Len(Plan[i].keys) : Plan[i].keys[j] = Plan[i].keys[l] => j = l
<1>1. \/ Plan[i].keys = <<"extra2.size", "extra2.rate">>
      \/ Plan[i].keys = <<"exposure", "denoise">>
      \/ Plan[i].keys = <<"font", "ptz">>
      \/ Plan[i].keys = <<"main.size", "main.hz">>
      \/ \E k : Plan[i].keys = <<k>>
  BY TenSteps DEF Plan, Profile, LiveStream, Unused, MediaAudio, MediaImage, Overlay,
     Recording, Snapshot, Rule, Smart, Motion
<1> DEFINE ks == Plan[i].keys
<1>2. Keys(i) = {ks[j] : j \in DOMAIN ks}
  BY DEF Keys
<1> HIDE DEF ks
<1>3. /\ Len(ks) \in Nat \ {0} /\ Len(ks) <= 10
      /\ DOMAIN ks = 1..Len(ks)
      /\ \A j, l \in 1..Len(ks) : ks[j] = ks[l] => j = l
  <2>1. ASSUME NEW a, NEW b, a # b, ks = <<a, b>> PROVE <1>3!1 /\ <1>3!2 /\ <1>3!3
    BY <2>1
  <2>2. ASSUME NEW a, ks = <<a>> PROVE <1>3!1 /\ <1>3!2 /\ <1>3!3
    BY <2>2
  <2> QED
    BY <1>1, <2>1, <2>2 DEF ks
<1> QED
  BY <1>2, <1>3 DEF ks

LEMMA KeyPlaces ==
  ASSUME NEW i \in Steps
  PROVE  /\ Keys(i) \subseteq AllKeys /\ Keys(i) \subseteq TableKeys(i)
         /\ TableKeys(i) \subseteq AllKeys
         /\ Alien \in AllKeys /\ Alien \notin Keys(i) /\ Alien \notin Dependents(i)
<1>1. Keys(i) \subseteq AllKeys /\ Alien \in AllKeys
  BY DEF AllKeys
<1>2. Keys(i) \subseteq TableKeys(i)
  BY DEF TableKeys
<1>3. TableKeys(i) \subseteq AllKeys
  BY DEF TableKeys, AllKeys
<1>4. Alien \notin Keys(i)
  BY TenSteps, PlanKeys DEF Alien
<1>5. Alien \notin Dependents(i)
  BY DEF Alien, Dependents
<1> QED
  BY <1>1, <1>2, <1>3, <1>4, <1>5

\* What the camera resets with a profile is set by later ones, or over RPC2 by the
\* profile itself.
LEMMA ResetLater ==
  ASSUME NEW i \in Steps, NEW j \in Steps, NEW k \in Keys(j), k \in Dependents(i)
  PROVE  j > i \/ (j = i /\ i = 10)
<1>1. k \in {"snap", "smart", "motion"}
  BY DEF Dependents
<1>2. (k = "snap" => j = 7) /\ (k = "smart" => j = 9) /\ (k = "motion" => j = 10)
  BY TenSteps, PlanKeys
<1>3. k = "snap" => Plan[i].name # "snapshot" /\ Plan[i].table = "Encode"
  BY DEF Dependents
<1>4. k = "smart" => Plan[i].table = "Encode" \/ Plan[i].name = "rule"
  BY PlanProfiles DEF Dependents
<1> QED
  BY <1>1, <1>2, <1>3, <1>4, PlanProfiles, TenSteps, PlanSteps

\* What camera and program agree on for a key, or the camera does not report it.
Right(i, k) == camera[k] \in {Want(i, k), "none"}

Unfailed == ~disturbed /\ \A i \in Steps : outcome[i] # "failed"

\* What a write is not to change: at most the camera stops to report it.
LeftOrGone(k) == camera'[k] \in {camera[k], "none"}

\* Profiles are applied in the order of the plan.
InPlan ==
  /\ \A i \in Steps : outcome[i] = "ok" => i < step
  /\ ~Done => outcome[step] = "pending"

\* The table to write back is the one of the camera, but for what others wrote to
\* it since the attempt began.
CopyKept ==
  Via("rpc") /\ pc = "write" =>
    /\ fresh => copy[Alien] \in {camera[Alien], "none"}
    /\ ~disturbed => \A k \in TableKeys(step) \ {Alien} : copy[k] = camera[k]

\* What the first read of a profile found.
ReportKept ==
  /\ Done \/ pc \in {"login", "read", "check"} \/ Via("rpc") => reported = {}
  /\ (Via("bulk") \/ Via("parts")) /\ pc \in {"write", "verify"} =>
       \A k \in Keys(step) \ reported : camera[k] = "none"

\* What the profile at work has brought to the camera already.
Begun ==
  ~disturbed =>
    /\ Via("each") /\ pc \in {"write", "verify", "reread"} =>
         \A j \in 1..key - 1 : Right(step, Plan[step].keys[j])
    /\ ~Done /\ pc = "check" => \A k \in Keys(step) : Right(step, k)

\* And what those before it brought there, unless it has the same key.
Held ==
  Unfailed =>
    \A k \in AllKeys : \A i \in Setters(k) :
      (\A j \in Setters(k) : j <= i) /\ (Done \/ k \notin Keys(step)) => Right(i, k)

SettingsInv ==
  /\ SettingsTypeOK
  /\ InPlan
  /\ pc = "reread" => attempt < Attempts
  /\ CopyKept
  /\ ReportKept
  /\ Begun
  /\ Held

LEMMA Bounds == Attempts \in Nat \ {0} /\ MaxFaults \in Nat /\ MaxForeign \in Nat
BY SettingsAssumption

LEMMA AtWork ==
  ASSUME SettingsTypeOK, ~Done
  PROVE  /\ step \in Steps /\ step \in 1..10
         /\ key \in 1..Len(Plan[step].keys)
         /\ key \in DOMAIN Plan[step].keys
         /\ Key \in Keys(step) /\ Key \in AllKeys
         /\ Keys(step) \subseteq TableKeys(step) /\ TableKeys(step) \subseteq AllKeys
         /\ Keys(step) \subseteq AllKeys
<1>1. step \in Steps /\ step \in 1..10
  BY PlanSteps DEF Done
<1>2. key \in 1..Len(Plan[step].keys)
  BY <1>1 DEF SettingsTypeOK
<1>3. Key \in Keys(step)
  BY <1>1, <1>2, KeySequence DEF Key
<1> QED
  BY <1>1, <1>2, <1>3, KeySequence, KeyPlaces

\* The table as it is read: the keys of the table as the camera has them.
LEMMA TableRead ==
  ASSUME SettingsTypeOK, ~Done
  PROVE  /\ Table \in [AllKeys -> Values]
         /\ \A k \in TableKeys(step) : Table[k] = camera[k]
         /\ \A k \in Keys(step) : Table[k] = camera[k]
         /\ \A k \in AllKeys : Table[k] \in {camera[k], "none"}
         /\ Reported(Table) \subseteq AllKeys
         /\ \A k \in AllKeys : k \in Reported(Table) <=> Table[k] # "none"
BY AtWork DEF SettingsTypeOK, Table, Reported, Values, Others

LEMMA Wants ==
  ASSUME SettingsTypeOK, NEW i \in Steps
  PROVE  /\ \A k \in Keys(i) : Want(i, k) \in Values
         /\ Plan[i].via # "rpc" => \A k : Want(i, k) = "want"
BY PlanProfiles DEF SettingsTypeOK, Want, Values, Others

LEMMA EditedTable == ASSUME SettingsTypeOK, ~Done PROVE Edited \in [AllKeys -> Values]
BY AtWork, Wants DEF SettingsTypeOK, Edited

\* What a write leaves as it was.
LEMMA Configures ==
  ASSUME SettingsTypeOK, ~Done, NEW new \in [AllKeys -> Values], NEW keys \in SUBSET AllKeys,
         NEW answered, SetConfig(new, keys, answered)
  PROVE  /\ camera' \in [AllKeys -> Values]
         /\ faults' \in 0..MaxFaults
         /\ \A k \in AllKeys : camera[k] = "none" => camera'[k] = "none"
         /\ \A k \in AllKeys :
              /\ k \notin keys \/ new[k] \in {camera[k], "none"}
              /\ k \notin Dependents(step)
              => LeftOrGone(k)
<1> DEFINE changes == {k \in keys : new[k] # "none" /\ camera[k] # "none" /\ new[k] # camera[k]}
           there == {k \in TableKeys(step) : camera[k] # "none"}
<1>1. PICK kept \in SUBSET changes, lost \in {{}} \cup {{k} : k \in there}, reset \in BOOLEAN :
        /\ camera' = Kept(new, kept, lost, reset) /\ kept \cap lost = {}
        /\ NoFault \/ Fault
  BY DEF SetConfig
<1>2. faults' \in 0..MaxFaults
  BY <1>1, Bounds DEF NoFault, Fault, SettingsTypeOK
<1>3. \A k \in lost : camera[k] # "none"
  BY <1>1
<1>4. ASSUME NEW k \in AllKeys
      PROVE  /\ camera'[k] \in Values
             /\ camera[k] = "none" => camera'[k] = "none"
             /\ /\ k \notin keys \/ new[k] \in {camera[k], "none"}
                /\ k \notin Dependents(step)
                => LeftOrGone(k)
  <2>1. \/ k \in kept /\ camera'[k] = new[k]
        \/ k \notin kept /\ k \in lost /\ camera'[k] = "none"
        \/ k \notin kept /\ k \notin lost /\ k \in Dependents(step) /\ camera[k] # "none"
             /\ camera'[k] = "other"
        \/ k \notin kept /\ k \notin lost /\ camera'[k] = camera[k]
    <3> DEFINE resets == IF reset /\ kept # {}
                           THEN {l \in Dependents(step) : camera[l] # "none"} \ (kept \cup lost)
                           ELSE {}
    <3>1. camera'[k] = CASE k \in kept -> new[k]
                         [] k \in lost -> "none"
                         [] k \in resets -> "other"
                         [] OTHER -> camera[k]
      BY <1>1 DEF Kept
    <3>2. k \notin kept \/ k \notin lost
      BY <1>1
    <3>3. k \in resets
            => k \notin kept /\ k \notin lost /\ k \in Dependents(step) /\ camera[k] # "none"
      OBVIOUS
    <3> HIDE DEF resets
    <3> QED
      BY <3>1, <3>2, <3>3
  <2>2. /\ k \in kept => k \in keys /\ new[k] # "none" /\ camera[k] # "none" /\ new[k] # camera[k]
        /\ k \in lost => camera[k] # "none"
    BY <1>1, <1>3
  <2>3. new[k] \in Values /\ camera[k] \in Values /\ "none" \in Values /\ "other" \in Values
    BY DEF SettingsTypeOK, Values, Others
  <2> QED
    BY <2>1, <2>2, <2>3 DEF LeftOrGone
<1>5. camera' \in [AllKeys -> Values]
  <2>1. camera' = [k \in AllKeys |-> camera'[k]]
    BY <1>1 DEF Kept
  <2> QED
    BY <1>4, <2>1
<1> QED
  BY <1>2, <1>4, <1>5

\* A set of profiles has a first.
LEMMA Least ==
  ASSUME NEW S, S \subseteq 1..10, S # {}
  PROVE  \E i \in S : \A j \in S : i <= j
<1>1. ASSUME \A i \in S : \E j \in S : j < i PROVE FALSE
  <2>1. 1 \notin S
    BY <1>1
  <2>2. 2 \notin S
    BY <1>1, <2>1
  <2>3. 3 \notin S
    BY <1>1, <2>1, <2>2
  <2>4. 4 \notin S
    BY <1>1, <2>1, <2>2, <2>3
  <2>5. 5 \notin S
    BY <1>1, <2>1, <2>2, <2>3, <2>4
  <2>6. 6 \notin S /\ 7 \notin S
    BY <1>1, <2>1, <2>2, <2>3, <2>4, <2>5
  <2>7. 8 \notin S /\ 9 \notin S /\ 10 \notin S
    BY <1>1, <2>1, <2>2, <2>3, <2>4, <2>5, <2>6
  <2>8. PICK x \in S : TRUE
    OBVIOUS
  <2>9. x \in 1..10
    OBVIOUS
  <2> QED
    BY <2>1, <2>2, <2>3, <2>4, <2>5, <2>6, <2>7, <2>8, <2>9
<1> QED
  BY <1>1

LEMMA Returned ==
  ASSUME SettingsTypeOK, InPlan, ~Done, NEW r \in {"ok", "failed"}, Return(r)
  PROVE  /\ step' \in 1..11 /\ step' > step /\ outcome[step] = "pending"
         /\ pc' \in {"login", "read"} /\ attempt' \in 1..Attempts
         /\ key' \in 1..Len(Plan[IF step' \in Steps THEN step' ELSE 1].keys)
         /\ copy' \in [AllKeys -> Values] /\ reported' = {} /\ fresh' = TRUE
         /\ outcome' \in [Steps -> {"pending", "ok", "failed", "skipped"}]
         /\ outcome'[step] = r
         /\ \A i \in Steps \ {step} : outcome'[i] \in {outcome[i], "skipped"}
         /\ r = "ok" => \A i \in Steps \ {step} : outcome'[i] = outcome[i]
         /\ InPlan'
<1>1. /\ step \in Steps /\ step \in 1..10
      /\ outcome \in [Steps -> {"pending", "ok", "failed", "skipped"}]
  BY AtWork DEF SettingsTypeOK
<1>2. ASSUME NEW i \in Steps
      PROVE  outcome'[i] = IF i = step THEN r
                           ELSE IF i \in Skipped(step) /\ r = "failed" THEN "skipped"
                                ELSE outcome[i]
  <2>1. step \notin Skipped(step)
    BY <1>1, PlanSteps DEF Skipped
  <2> QED
    BY <2>1 DEF Return
<1>3. outcome' \in [Steps -> {"pending", "ok", "failed", "skipped"}]
  <2>1. outcome' = [i \in Steps |-> outcome'[i]]
    BY DEF Return
  <2> QED
    BY <1>1, <1>2, <2>1
<1> DEFINE rest == {i \in Steps : i > step /\ outcome'[i] = "pending"}
<1>4. step' = IF rest = {} THEN Len(Plan) + 1 ELSE CHOOSE i \in rest : \A j \in rest : i <= j
  BY DEF Return
<1>5. step' \in 1..11 /\ step' > step /\ (step' \in Steps => outcome'[step'] = "pending")
  <2>1. CASE rest = {}
    BY <1>1, <1>4, <2>1, PlanSteps
  <2>2. CASE rest # {}
    <3>1. \E i \in rest : \A j \in rest : i <= j
      <4>1. rest \subseteq 1..10
        BY PlanSteps
      <4> HIDE DEF rest
      <4> QED
        BY <2>2, <4>1, Least
    <3>2. step' \in rest
      BY <1>4, <2>2, <3>1
    <3> QED
      BY <3>2, PlanSteps
  <2> QED
    BY <2>1, <2>2
<1>6. InPlan'
  <2> SUFFICES ASSUME NEW i \in Steps, outcome'[i] = "ok" PROVE i < step'
    BY <1>5 DEF InPlan, Done
  <2>1. i = step \/ outcome[i] = "ok"
    BY <1>2
  <2>2. i <= step
    BY <1>1, <2>1, PlanSteps DEF InPlan
  <2> QED
    BY <1>1, <1>5, <2>2, PlanSteps
<1>7. /\ pc' \in {"login", "read"} /\ attempt' \in 1..Attempts /\ key' = 1
      /\ reported' = {} /\ fresh' = TRUE
  BY Bounds DEF Return, First
<1>8. key' \in 1..Len(Plan[IF step' \in Steps THEN step' ELSE 1].keys)
  <2>1. (IF step' \in Steps THEN step' ELSE 1) \in Steps
    BY PlanSteps
  <2> QED
    BY <1>7, <2>1, KeySequence
<1>9. copy' \in [AllKeys -> Values]
  BY DEF Return, NoTable, Values
<1> QED
  BY <1>1, <1>2, <1>3, <1>5, <1>6, <1>7, <1>8, <1>9 DEF InPlan

\* A profile returns Ok with its keys as wanted, or it has failed.
LEMMA ReturnKeeps ==
  ASSUME SettingsInv, ~Done, NEW r \in {"ok", "failed"}, Return(r),
         UNCHANGED <<selected, foreign, disturbed>>,
         camera' \in [AllKeys -> Values], faults' \in 0..MaxFaults,
         r = "ok" => camera' = camera /\ (~disturbed => \A k \in Keys(step) : Right(step, k))
  PROVE  SettingsInv'
<1>1. SettingsTypeOK /\ InPlan /\ Held /\ step \in Steps
  BY AtWork DEF SettingsInv
<1>2. /\ step' \in 1..11 /\ outcome[step] = "pending"
      /\ pc' \in {"login", "read"} /\ attempt' \in 1..Attempts
      /\ key' \in 1..Len(Plan[IF step' \in Steps THEN step' ELSE 1].keys)
      /\ copy' \in [AllKeys -> Values] /\ reported' = {} /\ fresh' = TRUE
      /\ outcome' \in [Steps -> {"pending", "ok", "failed", "skipped"}]
      /\ outcome'[step] = r
      /\ r = "ok" => \A i \in Steps \ {step} : outcome'[i] = outcome[i]
      /\ InPlan'
  BY <1>1, Returned
<1>3. SettingsTypeOK'
  <2>1. step' \in 1..(Len(Plan) + 1) /\ pc' \in {"login", "read", "write", "verify", "reread", "check"}
    BY <1>2, PlanSteps
  <2>2. /\ selected' \in {"none", "want", "other"} /\ foreign' \in 0..MaxForeign
        /\ disturbed' \in BOOLEAN /\ fresh' \in BOOLEAN /\ reported' \subseteq AllKeys
    BY <1>1, <1>2 DEF SettingsTypeOK
  <2> QED
    BY <1>2, <2>1, <2>2 DEF SettingsTypeOK
<1>4. CopyKept' /\ ReportKept' /\ Begun'
  BY <1>2 DEF CopyKept, ReportKept, Begun
<1>5. Held'
  <2> SUFFICES ASSUME Unfailed', NEW k \in AllKeys, NEW i \in Setters(k)',
                      \A j \in Setters(k)' : j <= i
               PROVE  Right(i, k)'
    BY DEF Held
  <2>1. r = "ok" /\ ~disturbed
    BY <1>1, <1>2 DEF Unfailed
  <2>2. Right(i, k)' <=> Right(i, k)
    BY <2>1 DEF Right, Want
  <2>3. CASE k \in Keys(step)
    <3>1. step \in Setters(k)' /\ i \in Steps
      BY <1>1, <1>2, <2>1, <2>3 DEF Setters
    <3>2. outcome'[i] = "ok" /\ (i = step \/ outcome[i] = "ok")
      BY <1>2, <2>1, <3>1 DEF Setters
    <3>3. i <= step /\ step <= i
      BY <1>1, <3>1, <3>2, PlanSteps DEF InPlan
    <3>4. i = step
      BY <1>1, <3>1, <3>3, PlanSteps
    <3> QED
      BY <2>1, <2>2, <2>3, <3>4
  <2>4. CASE k \notin Keys(step)
    <3>1. Setters(k)' = Setters(k)
      BY <1>2, <2>1, <2>4 DEF Setters
    <3>2. Unfailed
      BY <1>1, <1>2, <2>1 DEF Unfailed
    <3> QED
      BY <1>1, <2>2, <2>4, <3>1, <3>2 DEF Held
  <2> QED
    BY <2>3, <2>4
<1>6. pc' # "reread"
  BY <1>2
<1> QED
  BY <1>2, <1>3, <1>4, <1>5, <1>6 DEF SettingsInv

\* A step that goes on with its profile: what is left to show of it.
LEMMA GoKeeps ==
  ASSUME SettingsInv, ~Done, UNCHANGED <<step, outcome, selected, disturbed>>,
         foreign' \in 0..MaxForeign,
         camera' \in [AllKeys -> Values], faults' \in 0..MaxFaults,
         pc' \in {"login", "read", "write", "verify", "reread", "check"},
         attempt' \in 1..Attempts, key' \in 1..Len(Plan[step].keys),
         copy' \in [AllKeys -> Values], reported' \subseteq AllKeys, fresh' \in BOOLEAN,
         pc' = "reread" => attempt' < Attempts,
         CopyKept', ReportKept', Begun',
         ~disturbed => \A k \in AllKeys \ {Alien} :
                         k \notin Keys(step) \cup Dependents(step) => LeftOrGone(k)
  PROVE  SettingsInv'
<1>1. SettingsTypeOK /\ InPlan /\ Held /\ step \in Steps
  BY AtWork DEF SettingsInv
<1>2. SettingsTypeOK'
  BY <1>1 DEF SettingsTypeOK
<1>3. InPlan' /\ ~Done'
  BY <1>1 DEF InPlan, Done
<1>4. Held'
  <2> SUFFICES ASSUME Unfailed', NEW k \in AllKeys, NEW i \in Setters(k)',
                      \A j \in Setters(k)' : j <= i, k \notin Keys(step)
               PROVE  Right(i, k)'
    BY <1>3 DEF Held
  <2>1. Unfailed /\ Setters(k)' = Setters(k)
    BY DEF Unfailed, Setters
  <2>2. Right(i, k)
    BY <1>1, <2>1 DEF Held
  <2>3. i \in Steps /\ k \in Keys(i) /\ i < step
    BY <1>1, <2>1 DEF Setters, InPlan
  <2>4. k # Alien /\ k \notin Dependents(step)
    <3>1. k # Alien
      BY <2>3, KeyPlaces
    <3>2. k \in Dependents(step) => i > step \/ i = step
      BY <1>1, <2>3, ResetLater
    <3>3. i \in 1..10 /\ step \in 1..10
      BY <1>1, <2>3, PlanSteps
    <3> QED
      BY <2>3, <3>1, <3>2, <3>3
  <2>5. camera'[k] \in {camera[k], "none"}
    BY <2>1, <2>4 DEF Unfailed, LeftOrGone
  <2> QED
    BY <2>2, <2>5 DEF Right, Want
<1> QED
  BY <1>2, <1>3, <1>4 DEF SettingsInv

LEMMA Faulted == ASSUME SettingsTypeOK, Fault \/ NoFault PROVE faults' \in 0..MaxFaults
BY Bounds DEF SettingsTypeOK, Fault, NoFault

\* The same for a step that leaves the camera alone and its profile where it was.
LEMMA StayKeeps ==
  ASSUME SettingsInv, ~Done, UNCHANGED <<step, outcome, selected, foreign, disturbed, camera>>,
         faults' \in 0..MaxFaults,
         pc' \in {"login", "read", "write", "verify", "reread", "check"},
         attempt' \in 1..Attempts, key' \in 1..Len(Plan[step].keys),
         copy' \in [AllKeys -> Values], reported' \subseteq AllKeys, fresh' \in BOOLEAN,
         pc' = "reread" => attempt' < Attempts,
         CopyKept', ReportKept', Begun'
  PROVE  SettingsInv'
BY GoKeeps DEF SettingsInv, SettingsTypeOK, LeftOrGone

LEMMA FailKeeps ==
  ASSUME SettingsInv, ~Done, Return("failed"), UNCHANGED <<selected, foreign, disturbed>>,
         camera' \in [AllKeys -> Values], faults' \in 0..MaxFaults
  PROVE  SettingsInv'
BY ReturnKeeps

LEMMA LoginKeeps ==
  ASSUME SettingsInv, Login, UNCHANGED <<selected, foreign, disturbed>> PROVE SettingsInv'
<1>1. SettingsTypeOK /\ ~Done /\ step \in Steps /\ camera' \in [AllKeys -> Values]
  BY AtWork DEF SettingsInv, Login, SettingsTypeOK
<1>2. faults' \in 0..MaxFaults
  BY <1>1, Faulted DEF Login
<1>3. CASE Goto("read") /\ UNCHANGED <<copy, reported>>
  <2>1. CopyKept' /\ ReportKept' /\ Begun'
    BY <1>3 DEF Goto, CopyKept, ReportKept, Begun, SettingsInv, Login, Done
  <2> QED
    BY <1>1, <1>2, <1>3, <2>1, StayKeeps, AtWork DEF Goto, Login, SettingsTypeOK
<1>4. CASE Return("failed")
  BY <1>1, <1>2, <1>4, FailKeeps
<1> QED
  BY <1>3, <1>4 DEF Login

-----------------------------------------------------------------------------
\* A table that needs no write is the camera's, and has the profile's values.
LEMMA AppliedRight ==
  ASSUME SettingsTypeOK, ~Done, Unapplied(Table, step) = {}
  PROVE  \A k \in Keys(step) : Right(step, k)
BY TableRead DEF Unapplied, Right

LEMMA AppliedKeeps ==
  ASSUME SettingsInv, Via("rpc"), Applied, Unapplied(Table, step) = {},
         UNCHANGED <<camera, faults, selected, foreign, disturbed>>
  PROVE  SettingsInv'
<1>1. SettingsTypeOK /\ ~Done /\ step \in Steps /\ camera' \in [AllKeys -> Values]
      /\ faults' \in 0..MaxFaults
  BY AtWork DEF SettingsInv, SettingsTypeOK, Via
<1>2. \A k \in Keys(step) : Right(step, k)
  BY <1>1, AppliedRight
<1>3. CASE Goto("check") /\ UNCHANGED <<copy, reported>>
  <2>1. \A k \in Keys(step)' : Right(step, k)'
    BY <1>2, <1>3 DEF Goto, Right, Want
  <2>2. CopyKept' /\ ReportKept' /\ Begun'
    BY <1>3, <2>1 DEF Goto, CopyKept, ReportKept, Begun, SettingsInv, Done, Via
  <2> QED
    BY <1>1, <1>3, <2>2, StayKeeps, AtWork DEF Goto, SettingsTypeOK
<1>4. CASE Return("ok")
  BY <1>1, <1>2, <1>4, ReturnKeeps
<1> QED
  BY <1>3, <1>4 DEF Applied

\* After a failed attempt: the camera may be as a write left it.
LEMMA RetryKeeps ==
  ASSUME SettingsInv, Via("rpc"), Retry, UNCHANGED <<selected, foreign, disturbed>>,
         camera' \in [AllKeys -> Values], faults' \in 0..MaxFaults,
         ~disturbed => \A k \in AllKeys \ {Alien} :
                         k \notin Keys(step) \cup Dependents(step) => LeftOrGone(k)
  PROVE  SettingsInv'
<1>1. SettingsTypeOK /\ ~Done /\ step \in Steps
  BY AtWork DEF SettingsInv, Via
<1>2. CASE Again
  <2>1. CopyKept' /\ ReportKept' /\ Begun'
    BY <1>2 DEF Again, CopyKept, ReportKept, Begun, SettingsInv, Done, Via
  <2>2. copy' \in [AllKeys -> Values]
    BY <1>2 DEF Again, NoTable, Values
  <2>3. attempt' \in 1..Attempts
    BY <1>1, <1>2, Bounds DEF Again, SettingsTypeOK
  <2>4. foreign' \in 0..MaxForeign
    BY <1>1 DEF SettingsTypeOK
  <2> QED
    BY <1>1, <1>2, <2>1, <2>2, <2>3, <2>4, GoKeeps, AtWork DEF Again, SettingsTypeOK
<1>3. CASE Return("failed")
  BY <1>1, <1>3, FailKeeps
<1> QED
  BY <1>2, <1>3 DEF Retry

LEMMA RpcReadKeeps ==
  ASSUME SettingsInv, RpcRead \/ RpcVerify, UNCHANGED <<selected, foreign, disturbed>>
  PROVE  SettingsInv'
<1>1. SettingsTypeOK /\ Via("rpc") /\ ~Done /\ step \in Steps
      /\ UNCHANGED <<camera, faults>> /\ camera' \in [AllKeys -> Values] /\ faults' \in 0..MaxFaults
  BY AtWork DEF SettingsInv, SettingsTypeOK, Via, RpcRead, RpcVerify, NoFault
<1>2. CASE Unapplied(Table, step) = {} /\ Applied
  BY <1>1, <1>2, AppliedKeeps
<1>3. CASE pc = "read" /\ Goto("write") /\ copy' = Table /\ UNCHANGED reported
  <2>1. CopyKept'
    <3>1. \A k \in TableKeys(step) : copy'[k] = camera'[k]
      BY <1>1, <1>3, TableRead
    <3>2. copy'[Alien] \in {camera'[Alien], "none"}
      BY <1>1, <1>3, TableRead, KeyPlaces
    <3> QED
      BY <1>3, <3>1, <3>2 DEF CopyKept, Goto
  <2>2. ReportKept' /\ Begun'
    BY <1>1, <1>3 DEF Goto, ReportKept, Begun, SettingsInv, Done, Via
  <2> QED
    BY <1>1, <1>3, <2>1, <2>2, StayKeeps, AtWork, TableRead DEF Goto, SettingsTypeOK
<1>4. CASE Retry
  BY <1>1, <1>4, RetryKeeps DEF LeftOrGone
<1> QED
  BY <1>2, <1>3, <1>4 DEF RpcRead, RpcVerify

LEMMA RpcFailsKeeps ==
  ASSUME SettingsInv, RpcFails, UNCHANGED <<selected, foreign, disturbed>> PROVE SettingsInv'
<1>1. SettingsTypeOK /\ Via("rpc") /\ Retry /\ UNCHANGED camera
      /\ camera' \in [AllKeys -> Values]
  BY DEF SettingsInv, SettingsTypeOK, RpcFails, Fails
<1>2. faults' \in 0..MaxFaults
  BY <1>1, Faulted DEF RpcFails, Fails
<1> QED
  BY <1>1, <1>2, RetryKeeps DEF LeftOrGone

\* The whole table goes back: only keys of the profile change, and the foreign one
\* where somebody else wrote it since; the camera may drop one of its own accord.
LEMMA TableWritten ==
  ASSUME SettingsInv, Via("rpc"), pc = "write", NEW answered,
         SetConfig(Edited, TableKeys(step), answered)
  PROVE  /\ camera' \in [AllKeys -> Values] /\ faults' \in 0..MaxFaults
         /\ ~disturbed => \A k \in AllKeys \ {Alien} :
                            k \notin Keys(step) \cup Dependents(step) => LeftOrGone(k)
         /\ fresh => LeftOrGone(Alien)
<1>1. SettingsTypeOK /\ CopyKept /\ ~Done /\ step \in Steps
      /\ TableKeys(step) \in SUBSET AllKeys /\ Edited \in [AllKeys -> Values]
  BY AtWork, EditedTable DEF SettingsInv, Via
<1>2. \A k \in AllKeys \ Keys(step) : Edited[k] = copy[k]
  BY DEF Edited
<1>3. ~disturbed => \A k \in TableKeys(step) \ {Alien} : copy[k] = camera[k]
  BY <1>1 DEF CopyKept
<1>4. fresh => copy[Alien] \in {camera[Alien], "none"}
  BY <1>1 DEF CopyKept
<1>5. Alien \in AllKeys /\ Alien \notin Keys(step) /\ Alien \notin Dependents(step)
  BY <1>1, KeyPlaces
<1>6. /\ camera' \in [AllKeys -> Values] /\ faults' \in 0..MaxFaults
      /\ \A k \in AllKeys :
           /\ k \notin TableKeys(step) \/ Edited[k] \in {camera[k], "none"}
           /\ k \notin Dependents(step)
           => LeftOrGone(k)
  BY <1>1, Configures
<1> QED
  BY <1>2, <1>3, <1>4, <1>5, <1>6

LEMMA RpcWriteKeeps ==
  ASSUME SettingsInv, RpcWrite, UNCHANGED <<selected, foreign, disturbed>> PROVE SettingsInv'
<1>1. SettingsTypeOK /\ Via("rpc") /\ ~Done /\ pc = "write"
  BY DEF SettingsInv, RpcWrite, Via
<1>2. PICK answered \in BOOLEAN : SetConfig(Edited, TableKeys(step), answered)
  BY DEF RpcWrite
<1>3. /\ camera' \in [AllKeys -> Values] /\ faults' \in 0..MaxFaults
      /\ ~disturbed => \A k \in AllKeys \ {Alien} :
                         k \notin Keys(step) \cup Dependents(step) => LeftOrGone(k)
  BY <1>1, <1>2, TableWritten
<1>4. CASE Retry
  BY <1>1, <1>3, <1>4, RetryKeeps
<1>5. CASE Goto("verify") /\ UNCHANGED <<copy, reported>>
  <2>1. CopyKept' /\ ReportKept' /\ Begun'
    BY <1>1, <1>5 DEF Goto, CopyKept, ReportKept, Begun, SettingsInv, Done, Via
  <2>2. foreign' \in 0..MaxForeign
    BY <1>1 DEF SettingsTypeOK
  <2> QED
    BY <1>1, <1>3, <1>5, <2>1, <2>2, GoKeeps, AtWork DEF Goto, SettingsTypeOK
<1> QED
  BY <1>4, <1>5 DEF RpcWrite

LEMMA SnapshotCheckKeeps ==
  ASSUME SettingsInv, SnapshotCheck, UNCHANGED <<selected, foreign, disturbed>> PROVE SettingsInv'
<1>1. SettingsTypeOK /\ ~Done /\ camera' = camera /\ camera' \in [AllKeys -> Values]
      /\ pc = "check" /\ Begun
  BY DEF SettingsInv, SettingsTypeOK, SnapshotCheck
<1>2. faults' \in 0..MaxFaults
  BY <1>1, Faulted DEF SnapshotCheck
<1>3. ~disturbed => \A k \in Keys(step) : Right(step, k)
  BY <1>1 DEF Begun
<1>4. PICK r \in {"ok", "failed"} : Return(r)
  BY DEF SnapshotCheck
<1> QED
  BY <1>1, <1>2, <1>3, <1>4, ReturnKeeps

-----------------------------------------------------------------------------
\* Two keys of a profile that is not applied over RPC2 have nothing to do with each
\* other, and the camera does not reset them with it.
LEMMA KeyWritten ==
  ASSUME SettingsInv, ~Done, Plan[step].via # "rpc", NEW new \in [AllKeys -> Values],
         NEW keys \in SUBSET Keys(step), NEW answered, SetConfig(new, keys, answered)
  PROVE  /\ camera' \in [AllKeys -> Values] /\ faults' \in 0..MaxFaults
         /\ \A k \in AllKeys : camera[k] = "none" => camera'[k] = "none"
         /\ \A k \in Keys(step) \ keys : LeftOrGone(k)
         /\ ~disturbed => \A k \in AllKeys \ {Alien} :
                            k \notin Keys(step) \cup Dependents(step) => LeftOrGone(k)
         /\ LeftOrGone(Alien)
<1>1. SettingsTypeOK /\ step \in Steps /\ step # 10 /\ Keys(step) \subseteq AllKeys
      /\ keys \in SUBSET AllKeys
  BY AtWork, PlanProfiles, PlanSteps DEF SettingsInv
<1>2. \A k \in Keys(step) : k \notin Dependents(step)
  BY <1>1, ResetLater, PlanSteps
<1>3. Alien \in AllKeys /\ Alien \notin Keys(step) /\ Alien \notin Dependents(step)
  BY <1>1, KeyPlaces
<1>4. /\ camera' \in [AllKeys -> Values] /\ faults' \in 0..MaxFaults
      /\ \A k \in AllKeys : camera[k] = "none" => camera'[k] = "none"
      /\ \A k \in AllKeys : k \notin keys /\ k \notin Dependents(step) => LeftOrGone(k)
  BY <1>1, Configures
<1> QED
  BY <1>1, <1>2, <1>3, <1>4

\* Numbers before one of 1..n.
LEMMA Below == \A n \in Nat : \A m \in 1..n : \A j \in 1..m - 1 : j \in 1..n /\ ~(m <= j)
OBVIOUS

\* On with the next key: those before it are right.
LEMMA ContinueKeeps ==
  ASSUME SettingsInv, Via("each"), NEW from \in Nat, Continue(from, Table),
         UNCHANGED <<camera, faults, selected, foreign, disturbed>>,
         \/ from = 1 /\ pc = "read"
         \/ /\ from = key + 1 /\ pc \in {"verify", "reread"}
            /\ Refused({Key}) = {}
  PROVE  SettingsInv'
<1>1. SettingsTypeOK /\ ReportKept /\ Begun /\ ~Done /\ step \in Steps
      /\ camera' \in [AllKeys -> Values] /\ faults' \in 0..MaxFaults
      /\ key \in 1..Len(Plan[step].keys) /\ DOMAIN Plan[step].keys = 1..Len(Plan[step].keys)
      /\ Len(Plan[step].keys) \in Nat
  BY AtWork, KeySequence DEF SettingsInv, SettingsTypeOK, Via
<1>2. \A k : Want(step, k) = "want"
  BY <1>1, Wants DEF Via
<1>3. pc # "read" => camera[Key] = "want"
  BY <1>2 DEF Refused
<1>4. ~disturbed => \A j \in 1..from - 1 : Right(step, Plan[step].keys[j])
  <2>1. CASE pc = "read"
    BY <2>1
  <2>2. CASE pc # "read"
    <3>1. Right(step, Plan[step].keys[key])
      BY <1>2, <1>3, <2>2 DEF Right, Key
    <3>2. ~disturbed => \A j \in 1..key - 1 : Right(step, Plan[step].keys[j])
      BY <1>1, <2>2 DEF Begun
    <3> QED
      BY <1>1, <2>2, <3>1, <3>2
  <2> QED
    BY <2>1, <2>2
<1> DEFINE left == {j \in DOMAIN Plan[step].keys :
                      j >= from /\ Table[Plan[step].keys[j]] \notin {"want", "none"}}
<1>5. \A j \in DOMAIN Plan[step].keys : j >= from /\ j \notin left
        => Right(step, Plan[step].keys[j])
  BY <1>1, <1>2, TableRead, KeySequence DEF Right
<1>6. CASE left = {} /\ Return("ok")
  <2>1. ~disturbed => \A k \in Keys(step) : Right(step, k)
    <3> SUFFICES ASSUME ~disturbed, NEW k \in Keys(step) PROVE Right(step, k)
      OBVIOUS
    <3>1. PICK j \in 1..Len(Plan[step].keys) : k = Plan[step].keys[j]
      BY <1>1, KeySequence
    <3> QED
      BY <1>1, <1>4, <1>5, <1>6, <3>1
  <2> QED
    BY <1>1, <1>6, <2>1, ReturnKeeps
<1>7. CASE /\ left # {} /\ key' = CHOOSE j \in left : \A l \in left : j <= l
           /\ pc' = "write" /\ attempt' = 1 /\ copy' = Table /\ fresh' = TRUE
           /\ UNCHANGED <<step, outcome>>
           /\ reported' = IF from = 1 THEN Reported(Table) ELSE reported
  <2>1. key' \in left /\ \A l \in left : key' <= l
    <3>1. \E j \in left : \A l \in left : j <= l
      <4>1. left \subseteq 1..10
        <5>1. Len(Plan[step].keys) <= 10 /\ left \subseteq DOMAIN Plan[step].keys
          BY <1>1, KeySequence
        <5>2. \A n \in Nat : n <= 10 => 1..n \subseteq 1..10
          OBVIOUS
        <5> HIDE DEF left
        <5> QED
          BY <1>1, <5>1, <5>2
      <4> HIDE DEF left
      <4> QED
        BY <1>7, <4>1, Least
    <3> QED
      BY <1>7, <3>1
  <2>2. key' \in 1..Len(Plan[step].keys) /\ key' >= from
    BY <1>1, <2>1
  <2>3. ~disturbed => \A j \in 1..key' - 1 : Right(step, Plan[step].keys[j])
    <3> SUFFICES ASSUME ~disturbed, NEW j \in 1..key' - 1 PROVE Right(step, Plan[step].keys[j])
      OBVIOUS
    <3> DEFINE n == Len(Plan[step].keys)
    <3>0. n \in Nat /\ key' \in 1..n /\ DOMAIN Plan[step].keys = 1..n
      BY <1>1, <2>2
    <3> HIDE DEF left, n
    <3>1. j \in DOMAIN Plan[step].keys
      <4>1. j \in 1..n
        BY <3>0, Below
      <4> QED
        BY <3>0, <4>1
    <3>2. j \notin left
      <4>1. ~(key' <= j)
        BY <3>0, Below
      <4> QED
        BY <2>1, <4>1
    <3>3. j >= from \/ j \in 1..from - 1
      BY <3>1
    <3> QED
      BY <1>4, <1>5, <3>1, <3>2, <3>3
  <2>4. Begun'
    BY <1>7, <2>3 DEF Begun, Right, Want
  <2>5. ReportKept'
    BY <1>7 DEF ReportKept, Via, Done
  <2>6. CopyKept'
    BY <1>7 DEF CopyKept, Via
  <2>7. reported' \subseteq AllKeys /\ copy' \in [AllKeys -> Values] /\ attempt' \in 1..Attempts
    BY <1>1, <1>7, TableRead, Bounds DEF SettingsTypeOK
  <2> QED
    BY <1>1, <1>7, <2>2, <2>4, <2>5, <2>6, <2>7, StayKeeps
<1> QED
  BY <1>6, <1>7 DEF Continue

\* After a write, or in the pause.
LEMMA EachStays ==
  ASSUME SettingsInv, Via("each"), pc \in {"write", "verify"}, NEW next \in {"verify", "reread"},
         Goto(next), UNCHANGED <<copy, reported>>, next = "reread" => attempt < Attempts,
         UNCHANGED <<selected, foreign, disturbed>>,
         camera' \in [AllKeys -> Values], faults' \in 0..MaxFaults,
         \A k \in Keys(step) \ {Key} : LeftOrGone(k),
         ~disturbed => \A k \in AllKeys \ {Alien} :
                         k \notin Keys(step) \cup Dependents(step) => LeftOrGone(k)
  PROVE  SettingsInv'
<1>1. SettingsTypeOK /\ ReportKept /\ Begun /\ ~Done /\ step \in Steps /\ foreign' \in 0..MaxForeign
      /\ key \in 1..Len(Plan[step].keys) /\ Len(Plan[step].keys) \in Nat /\ Key' = Key
      /\ Keys(step) \subseteq AllKeys
  BY AtWork, KeySequence DEF SettingsInv, SettingsTypeOK, Via, Key, Goto
<1>2. Begun'
  <2>1. ASSUME ~disturbed, NEW j \in 1..key - 1 PROVE Right(step, Plan[step].keys[j])'
    <3>1. j \in 1..Len(Plan[step].keys) /\ j # key
      BY <1>1
    <3>2. Plan[step].keys[j] \in Keys(step) \ {Key}
      BY <1>1, <3>1, KeySequence DEF Key
    <3>3. Right(step, Plan[step].keys[j])
      BY <1>1, <2>1 DEF Begun
    <3> QED
      BY <3>2, <3>3 DEF Right, Want, Goto, LeftOrGone
  <2>2. pc' # "check"
    BY DEF Goto
  <2> QED
    BY <2>1, <2>2 DEF Begun, Goto
<1>3. ReportKept'
  BY <1>1 DEF ReportKept, Via, Done, Goto
<1>4. CopyKept'
  BY DEF CopyKept, Goto
<1> QED
  BY <1>1, <1>2, <1>3, <1>4, GoKeeps DEF Goto, SettingsTypeOK

LEMMA PauseKeeps ==
  ASSUME SettingsInv, Via("each"), pc \in {"write", "verify"}, Pause,
         UNCHANGED <<selected, foreign, disturbed>>,
         camera' \in [AllKeys -> Values], faults' \in 0..MaxFaults,
         \A k \in Keys(step) \ {Key} : LeftOrGone(k),
         ~disturbed => \A k \in AllKeys \ {Alien} :
                         k \notin Keys(step) \cup Dependents(step) => LeftOrGone(k)
  PROVE  SettingsInv'
<1>1. CASE attempt < Attempts /\ Goto("reread") /\ UNCHANGED <<copy, reported>>
  BY <1>1, EachStays
<1>2. CASE Return("failed")
  BY <1>2, FailKeeps DEF Via
<1> QED
  BY <1>1, <1>2 DEF Pause

LEMMA EachReadKeeps ==
  ASSUME SettingsInv, EachRead, UNCHANGED <<selected, foreign, disturbed>> PROVE SettingsInv'
BY ContinueKeeps DEF EachRead, NoFault

LEMMA EachWriteKeeps ==
  ASSUME SettingsInv, EachWrite, UNCHANGED <<selected, foreign, disturbed>> PROVE SettingsInv'
<1> DEFINE new == [copy EXCEPT ![Key] = "want"]
<1>1. SettingsTypeOK /\ Via("each") /\ ~Done /\ pc = "write" /\ {Key} \in SUBSET Keys(step)
      /\ Plan[step].via # "rpc" /\ Key \in AllKeys
  BY AtWork DEF SettingsInv, EachWrite, Via
<1>2. new \in [AllKeys -> Values]
  BY <1>1 DEF SettingsTypeOK, Values
<1>3. PICK answered \in BOOLEAN : SetConfig(new, {Key}, answered)
  BY DEF EachWrite
<1> HIDE DEF new
<1>4. /\ camera' \in [AllKeys -> Values] /\ faults' \in 0..MaxFaults
      /\ \A k \in Keys(step) \ {Key} : LeftOrGone(k)
      /\ ~disturbed => \A k \in AllKeys \ {Alien} :
                         k \notin Keys(step) \cup Dependents(step) => LeftOrGone(k)
  BY <1>1, <1>2, <1>3, KeyWritten
<1>5. CASE Goto("verify") /\ UNCHANGED <<copy, reported>>
  BY <1>1, <1>4, <1>5, EachStays
<1>6. CASE Pause
  BY <1>1, <1>4, <1>6, PauseKeeps
<1> QED
  BY <1>5, <1>6 DEF EachWrite

LEMMA EachVerifyKeeps ==
  ASSUME SettingsInv, EachVerify, UNCHANGED <<selected, foreign, disturbed>> PROVE SettingsInv'
<1>1. SettingsTypeOK /\ ~Done /\ camera' = camera /\ faults' = faults
      /\ camera' \in [AllKeys -> Values] /\ faults' \in 0..MaxFaults /\ key + 1 \in Nat
  BY AtWork, KeySequence DEF SettingsInv, SettingsTypeOK, EachVerify, NoFault, Via
<1>2. CASE Refused({Key}) = {} /\ Continue(key + 1, Table)
  BY <1>1, <1>2, ContinueKeeps DEF EachVerify
<1>3. CASE Pause
  BY <1>1, <1>3, PauseKeeps DEF EachVerify, LeftOrGone
<1> QED
  BY <1>2, <1>3 DEF EachVerify

LEMMA EachRereadKeeps ==
  ASSUME SettingsInv, EachReread, UNCHANGED <<selected, foreign, disturbed>> PROVE SettingsInv'
<1>1. SettingsTypeOK /\ Via("each") /\ ~Done /\ camera' = camera /\ faults' = faults
      /\ camera' \in [AllKeys -> Values] /\ faults' \in 0..MaxFaults /\ key + 1 \in Nat
      /\ pc = "reread" /\ attempt < Attempts /\ ReportKept /\ Begun
  BY AtWork, KeySequence DEF SettingsInv, SettingsTypeOK, EachReread, NoFault, Via
<1>2. CASE Refused({Key}) = {} /\ Continue(key + 1, Table)
  BY <1>1, <1>2, ContinueKeeps
<1>3. CASE /\ pc' = "write" /\ attempt' = attempt + 1 /\ copy' = Table /\ fresh' = TRUE
           /\ UNCHANGED <<step, key, reported, outcome>>
  <2>1. CopyKept'
    BY <1>1, <1>3 DEF CopyKept, Via
  <2>2. ReportKept' /\ Begun'
    BY <1>1, <1>3 DEF ReportKept, Begun, Via, Done, Key, Right, Want
  <2>3. attempt' \in 1..Attempts
    BY <1>1, <1>3, Bounds DEF SettingsTypeOK
  <2> QED
    BY <1>1, <1>3, <2>1, <2>2, <2>3, StayKeeps, AtWork, TableRead DEF SettingsTypeOK
<1> QED
  BY <1>2, <1>3 DEF EachReread

LEMMA EachFailsKeeps ==
  ASSUME SettingsInv, EachFails, UNCHANGED <<selected, foreign, disturbed>> PROVE SettingsInv'
<1>1. SettingsTypeOK /\ Via("each") /\ ~Done /\ camera' = camera
      /\ camera' \in [AllKeys -> Values]
  BY DEF SettingsInv, SettingsTypeOK, EachFails, Fails, Via
<1>2. faults' \in 0..MaxFaults
  BY <1>1, Faulted DEF EachFails, Fails
<1>3. CASE pc = "verify" /\ Pause
  BY <1>1, <1>2, <1>3, PauseKeeps DEF LeftOrGone
<1>4. CASE Return("failed")
  BY <1>1, <1>2, <1>4, FailKeeps
<1> QED
  BY <1>3, <1>4 DEF EachFails

-----------------------------------------------------------------------------
\* bulk and parts: what the first read did not find stays unreported.
LEMMA OnceStays ==
  ASSUME SettingsInv, Via("bulk") \/ Via("parts"), NEW next \in {"write", "verify"}, pc' = next,
         UNCHANGED <<step, attempt, outcome, fresh, selected, foreign, disturbed>>,
         key' \in 1..Len(Plan[step].keys), copy' \in [AllKeys -> Values],
         reported' \subseteq AllKeys,
         \A k \in Keys(step) \ reported' : camera'[k] = "none",
         camera' \in [AllKeys -> Values], faults' \in 0..MaxFaults,
         ~disturbed => \A k \in AllKeys \ {Alien} :
                         k \notin Keys(step) \cup Dependents(step) => LeftOrGone(k)
  PROVE  SettingsInv'
<1>1. SettingsTypeOK /\ ~Done /\ foreign' \in 0..MaxForeign
  BY DEF SettingsInv, SettingsTypeOK, Via
<1>2. CopyKept' /\ Begun'
  BY DEF CopyKept, Begun, Via
<1>3. ReportKept'
  BY <1>1 DEF ReportKept, Via, Done
<1> QED
  BY <1>1, <1>2, <1>3, GoKeeps DEF SettingsTypeOK

LEMMA NotReported ==
  ASSUME SettingsTypeOK, ~Done
  PROVE  \A k \in Keys(step) \ Reported(Table) : camera[k] = "none"
BY TableRead, AtWork

LEMMA BulkReadKeeps ==
  ASSUME SettingsInv, BulkRead, UNCHANGED <<selected, foreign, disturbed>> PROVE SettingsInv'
<1>1. SettingsTypeOK /\ Via("bulk") /\ ~Done /\ camera' = camera
      /\ camera' \in [AllKeys -> Values] /\ faults' \in 0..MaxFaults
  BY DEF SettingsInv, SettingsTypeOK, BulkRead, Via, NoFault
<1>2. CASE Refused(Keys(step)) = {} /\ Return("ok")
  <2>1. \A k \in Keys(step) : Right(step, k)
    BY <1>2 DEF Refused, Right
  <2> QED
    BY <1>1, <1>2, <2>1, ReturnKeeps
<1>3. CASE Goto("write") /\ copy' = Table /\ reported' = Reported(Table)
  BY <1>1, <1>3, OnceStays, NotReported, TableRead, AtWork DEF Goto, LeftOrGone
<1> QED
  BY <1>2, <1>3 DEF BulkRead

LEMMA BulkWriteKeeps ==
  ASSUME SettingsInv, BulkWrite, UNCHANGED <<selected, foreign, disturbed>> PROVE SettingsInv'
<1>1. SettingsTypeOK /\ Via("bulk") /\ ~Done /\ pc = "write" /\ ReportKept
      /\ Plan[step].via # "rpc" /\ Edited \in [AllKeys -> Values] /\ Keys(step) \subseteq AllKeys
  BY EditedTable, AtWork DEF SettingsInv, BulkWrite, Via
<1>2. PICK answered \in BOOLEAN : SetConfig(Edited, Keys(step), answered)
  BY DEF BulkWrite
<1>3. /\ camera' \in [AllKeys -> Values] /\ faults' \in 0..MaxFaults
      /\ \A k \in AllKeys : camera[k] = "none" => camera'[k] = "none"
      /\ ~disturbed => \A k \in AllKeys \ {Alien} :
                         k \notin Keys(step) \cup Dependents(step) => LeftOrGone(k)
  BY <1>1, <1>2, KeyWritten
<1>4. CASE Goto("verify") /\ UNCHANGED <<copy, reported>>
  <2>1. \A k \in Keys(step) \ reported : camera'[k] = "none"
    BY <1>1, <1>3 DEF ReportKept
  <2> QED
    BY <1>1, <1>3, <1>4, <2>1, OnceStays, AtWork DEF Goto, SettingsTypeOK
<1>5. CASE Return("failed")
  BY <1>1, <1>3, <1>5, FailKeeps
<1> QED
  BY <1>4, <1>5 DEF BulkWrite

\* The next part is one of the profile's keys.
LEMMA NextPartKey ==
  ASSUME SettingsTypeOK, ~Done, NEW from, NEW table, NextPart(from, table)
  PROVE  pc' \in {"write", "verify"} /\ key' \in 1..Len(Plan[step].keys)
<1>1. /\ step \in Steps /\ key \in 1..Len(Plan[step].keys)
      /\ DOMAIN Plan[step].keys = 1..Len(Plan[step].keys)
      /\ Len(Plan[step].keys) \in Nat /\ Len(Plan[step].keys) <= 10
  BY AtWork, KeySequence
<1> DEFINE left == {j \in DOMAIN Plan[step].keys :
                      j >= from /\ table[Plan[step].keys[j]] \notin {"want", "none"}}
<1>2. CASE left = {} /\ pc' = "verify" /\ UNCHANGED key
  BY <1>1, <1>2
<1>3. CASE left # {} /\ pc' = "write" /\ key' = CHOOSE j \in left : \A l \in left : j <= l
  <2>1. left \subseteq 1..10 /\ left \subseteq 1..Len(Plan[step].keys)
    <3>1. left \subseteq DOMAIN Plan[step].keys
      OBVIOUS
    <3>2. \A n \in Nat : n <= 10 => 1..n \subseteq 1..10
      OBVIOUS
    <3> HIDE DEF left
    <3> QED
      BY <1>1, <3>1, <3>2
  <2> HIDE DEF left
  <2> QED
    BY <1>3, <2>1, Least
<1> QED
  BY <1>2, <1>3 DEF NextPart

LEMMA PartsReadKeeps ==
  ASSUME SettingsInv, PartsRead, UNCHANGED <<selected, foreign, disturbed>> PROVE SettingsInv'
<1>1. SettingsTypeOK /\ Via("parts") /\ ~Done /\ camera' = camera
      /\ camera' \in [AllKeys -> Values] /\ faults' \in 0..MaxFaults
  BY DEF SettingsInv, SettingsTypeOK, PartsRead, Via, NoFault
<1>2. pc' \in {"write", "verify"} /\ key' \in 1..Len(Plan[step].keys)
  BY <1>1, NextPartKey DEF PartsRead
<1>3. copy' = Table /\ reported' = Reported(Table)
      /\ UNCHANGED <<step, attempt, outcome, fresh>>
  BY DEF PartsRead, NextPart
<1> QED
  BY <1>1, <1>2, <1>3, OnceStays, NotReported, TableRead DEF LeftOrGone

LEMMA PartsWriteKeeps ==
  ASSUME SettingsInv, PartsWrite, UNCHANGED <<selected, foreign, disturbed>> PROVE SettingsInv'
<1> DEFINE new == [copy EXCEPT ![Key] = "want"]
<1>1. SettingsTypeOK /\ Via("parts") /\ ~Done /\ pc = "write" /\ ReportKept
      /\ Plan[step].via # "rpc" /\ {Key} \in SUBSET Keys(step) /\ Keys(step) \subseteq AllKeys
      /\ copy \in [AllKeys -> Values]
  BY AtWork DEF SettingsInv, PartsWrite, Via, SettingsTypeOK
<1>2. new \in [AllKeys -> Values]
  BY <1>1 DEF Values
<1>3. PICK answered \in BOOLEAN : SetConfig(new, {Key}, answered)
  BY DEF PartsWrite
<1> HIDE DEF new
<1>4. /\ camera' \in [AllKeys -> Values] /\ faults' \in 0..MaxFaults
      /\ \A k \in AllKeys : camera[k] = "none" => camera'[k] = "none"
      /\ ~disturbed => \A k \in AllKeys \ {Alien} :
                         k \notin Keys(step) \cup Dependents(step) => LeftOrGone(k)
  BY <1>1, <1>2, <1>3, KeyWritten
<1>5. CASE NextPart(key + 1, copy) /\ UNCHANGED reported
  <2>1. pc' \in {"write", "verify"} /\ key' \in 1..Len(Plan[step].keys)
    BY <1>1, <1>5, NextPartKey
  <2>2. copy' = copy /\ UNCHANGED <<step, attempt, outcome, fresh>>
    BY <1>5 DEF NextPart
  <2>3. \A k \in Keys(step) \ reported : camera'[k] = "none"
    BY <1>1, <1>4 DEF ReportKept
  <2> QED
    BY <1>1, <1>4, <1>5, <2>1, <2>2, <2>3, OnceStays DEF SettingsTypeOK
<1>6. CASE Return("failed")
  BY <1>1, <1>4, <1>6, FailKeeps
<1> QED
  BY <1>5, <1>6 DEF PartsWrite

LEMMA OnceVerifyKeeps ==
  ASSUME SettingsInv, OnceVerify, UNCHANGED <<selected, foreign, disturbed>> PROVE SettingsInv'
<1>1. SettingsTypeOK /\ ReportKept /\ ~Done /\ camera' = camera /\ pc = "verify"
      /\ camera' \in [AllKeys -> Values] /\ faults' \in 0..MaxFaults
  BY DEF SettingsInv, SettingsTypeOK, OnceVerify, Via, NoFault
<1>2. \A k \in Keys(step) \ reported : camera[k] = "none"
  BY <1>1 DEF ReportKept, OnceVerify
<1>3. CASE Refused(Keys(step) \cap reported) = {} /\ Return("ok")
  <2>1. \A k \in Keys(step) : Right(step, k)
    BY <1>2, <1>3 DEF Refused, Right
  <2> QED
    BY <1>1, <1>3, <2>1, ReturnKeeps
<1>4. CASE Return("failed")
  BY <1>1, <1>4, FailKeeps
<1> QED
  BY <1>3, <1>4 DEF OnceVerify

LEMMA OnceFailsKeeps ==
  ASSUME SettingsInv, OnceFails, UNCHANGED <<selected, foreign, disturbed>> PROVE SettingsInv'
<1>1. SettingsTypeOK /\ ~Done /\ camera' = camera
      /\ camera' \in [AllKeys -> Values]
  BY DEF SettingsInv, SettingsTypeOK, OnceFails, Fails, Via
<1>2. faults' \in 0..MaxFaults
  BY <1>1, Faulted DEF OnceFails, Fails
<1> QED
  BY <1>1, <1>2, FailKeeps DEF OnceFails

-----------------------------------------------------------------------------
\* What somebody else writes is told by fresh and disturbed.
LEMMA ForeignKeeps ==
  ASSUME SettingsInv, NEW f, ForeignWrite(f) PROVE SettingsInv'
<1>1. /\ SettingsTypeOK /\ InPlan /\ CopyKept /\ ReportKept /\ Begun /\ Held /\ ~Done
      /\ UNCHANGED <<selected, step, pc, attempt, key, copy, reported, outcome, faults>>
      /\ fresh' = FALSE /\ disturbed' = (disturbed \/ f # Alien)
      /\ Keys(step) \subseteq AllKeys /\ TableKeys(step) \subseteq AllKeys /\ Key \in AllKeys
      /\ step \in Steps
  BY AtWork DEF SettingsInv, ForeignWrite
<1>2. PICK value \in Others : camera' = [camera EXCEPT ![f] = value] /\ camera[f] # "none"
  BY DEF ForeignWrite
<1>3. camera' \in [AllKeys -> Values]
  BY <1>1, <1>2 DEF SettingsTypeOK, Values
<1>4. \A k \in AllKeys : /\ camera'[k] = "none" <=> camera[k] = "none"
                         /\ k # f => camera'[k] = camera[k]
  BY <1>1, <1>2 DEF SettingsTypeOK, Others
<1>5. SettingsTypeOK'
  <2>1. foreign' \in 0..MaxForeign
    BY <1>1, Bounds DEF SettingsTypeOK, ForeignWrite
  <2>2. fresh' \in BOOLEAN /\ disturbed' \in BOOLEAN
    BY <1>1 DEF SettingsTypeOK
  <2> QED
    BY <1>1, <1>3, <2>1, <2>2 DEF SettingsTypeOK
<1>6. CopyKept'
  <2>1. ASSUME ~disturbed', Via("rpc"), pc = "write", NEW k \in TableKeys(step) \ {Alien}
        PROVE  copy[k] = camera'[k]
    <3>1. k # f /\ copy[k] = camera[k]
      BY <1>1, <2>1 DEF CopyKept
    <3> QED
      BY <1>1, <1>4, <3>1
  <2> QED
    BY <1>1, <2>1 DEF CopyKept, Via, Done, TableKeys
<1>7. ReportKept'
  BY <1>1, <1>4 DEF ReportKept, Via, Done, Key
<1>8. ~disturbed' => \A k \in AllKeys, i \in Steps : k \in Keys(i) /\ Right(i, k) => Right(i, k)'
  <2> SUFFICES ASSUME ~disturbed', NEW k \in AllKeys, NEW i \in Steps, k \in Keys(i), Right(i, k)
               PROVE  Right(i, k)'
    OBVIOUS
  <2>1. k # f
    BY <1>1, KeyPlaces
  <2> QED
    BY <1>1, <1>4, <2>1 DEF Right, Want
<1>9. Begun'
  <2>1. ASSUME ~disturbed', Via("each"), pc \in {"write", "verify", "reread"}, NEW j \in 1..key - 1
        PROVE  Right(step, Plan[step].keys[j])'
    <3>1. j \in 1..Len(Plan[step].keys)
      BY <1>1, AtWork, KeySequence
    <3>2. Plan[step].keys[j] \in Keys(step) /\ Right(step, Plan[step].keys[j])
      BY <1>1, <2>1, <3>1, KeySequence DEF Begun
    <3> QED
      BY <1>1, <1>8, <2>1, <3>2
  <2>2. ASSUME ~disturbed', pc = "check", NEW k \in Keys(step) PROVE Right(step, k)'
    <3>1. Right(step, k)
      BY <1>1, <2>2 DEF Begun
    <3> QED
      BY <1>1, <1>8, <2>2, <3>1
  <2> QED
    BY <1>1, <2>1, <2>2 DEF Begun, Via, Done, Right, Want
<1>10. Held'
  <2> SUFFICES ASSUME Unfailed', NEW k \in AllKeys, NEW i \in Setters(k)',
                      \A j \in Setters(k)' : j <= i, (Done \/ k \notin Keys(step))'
               PROVE  Right(i, k)'
    BY DEF Held
  <2>1. Unfailed /\ Setters(k)' = Setters(k) /\ k \notin Keys(step) /\ ~disturbed'
    BY <1>1 DEF Unfailed, Setters, Done
  <2>2. Right(i, k) /\ i \in Steps /\ k \in Keys(i)
    BY <1>1, <2>1 DEF Held, Setters
  <2> QED
    BY <1>8, <2>1, <2>2
<1> QED
  BY <1>1, <1>5, <1>6, <1>7, <1>9, <1>10 DEF SettingsInv, InPlan, Done

LEMMA InitSettings == SettingsInit => SettingsInv
<1> SUFFICES ASSUME SettingsInit PROVE SettingsInv
  OBVIOUS
<1>1. step = 1 /\ pc = "read" /\ attempt = 1 /\ key = 1 /\ Plan[1].login = FALSE
      /\ First(1) = "read"
  BY PlanSteps DEF SettingsInit, First, Plan, LiveStream, Profile
<1>2. camera \in [AllKeys -> Values]
  BY DEF SettingsInit, Values, Others
<1>3. outcome \in [Steps -> {"pending", "skipped"}] /\ outcome[1] = "pending"
  <2>1. Plan[1].name # "recording"
    BY PlanProfiles, PlanSteps
  <2> QED
    BY <2>1, PlanSteps DEF SettingsInit
<1>4. SettingsTypeOK
  <2>1. 1 \in Steps /\ Len(Plan[1].keys) \in Nat \ {0} /\ Len(Plan) = 10
    BY PlanSteps, KeySequence
  <2>2. copy \in [AllKeys -> Values]
    BY DEF SettingsInit, NoTable, Values
  <2>3. attempt \in 1..Attempts /\ faults \in 0..MaxFaults /\ foreign \in 0..MaxForeign
    BY <1>1, Bounds DEF SettingsInit
  <2>4. fresh \in BOOLEAN /\ disturbed \in BOOLEAN /\ selected \in {"none", "want", "other"}
        /\ reported \subseteq AllKeys
    BY DEF SettingsInit
  <2>5. step \in 1..(Len(Plan) + 1)
        /\ key \in 1..Len(Plan[IF step \in Steps THEN step ELSE 1].keys)
    BY <1>1, <2>1
  <2>6. outcome \in [Steps -> {"pending", "ok", "failed", "skipped"}]
    BY <1>3
  <2> QED
    BY <1>1, <1>2, <2>2, <2>3, <2>4, <2>5, <2>6 DEF SettingsTypeOK
<1>5. InPlan /\ CopyKept /\ ReportKept /\ Begun
  BY <1>1, <1>3, PlanSteps DEF InPlan, CopyKept, ReportKept, Begun, SettingsInit, Done
<1>6. Held
  BY <1>3 DEF Held, Setters
<1> QED
  BY <1>1, <1>4, <1>5, <1>6 DEF SettingsInv

LEMMA StepSettings == SettingsInv /\ [SettingsNext]_settingsVars => SettingsInv'
<1> SUFFICES ASSUME SettingsInv, [SettingsNext]_settingsVars PROVE SettingsInv'
  OBVIOUS
<1>1. CASE Program
  <2>1. UNCHANGED <<selected, foreign, disturbed>>
    BY <1>1 DEF Program
  <2> QED
    BY <1>1, <2>1, LoginKeeps, SnapshotCheckKeeps, RpcReadKeeps, RpcWriteKeeps, RpcFailsKeeps,
       EachReadKeeps, EachWriteKeeps, EachVerifyKeeps, EachRereadKeeps, EachFailsKeeps,
       BulkReadKeeps, BulkWriteKeeps, PartsReadKeeps, PartsWriteKeeps, OnceVerifyKeeps,
       OnceFailsKeeps DEF Program
<1>2. CASE \E k \in Foreign : ForeignWrite(k)
  BY <1>2, ForeignKeeps
<1>3. CASE UNCHANGED settingsVars
  BY <1>3 DEF settingsVars, SettingsInv, SettingsTypeOK, InPlan, CopyKept, ReportKept, Begun,
     Held, Unfailed, Setters, Right, Want, Via, Done, Key
<1> QED
  BY <1>1, <1>2, <1>3 DEF SettingsNext

\* SettingsTypeOK, and with it that no key is tried more often than
\* RPC_CONFIG_ATTEMPTS (attempt \in 1..Attempts).
THEOREM SettingsTypeCorrect == SettingsSpec => []SettingsTypeOK
<1>1. SettingsInv => SettingsTypeOK
  BY DEF SettingsInv
<1> QED
  BY <1>1, InitSettings, StepSettings, PTL DEF SettingsSpec

\* When the last profile has returned, none failed and nobody else wrote our settings,
\* every key the camera reports has the value of the last profile that sets it.
THEOREM SettingsHold == SettingsSpec => []ProfilesHold
<1>1. SettingsInv => ProfilesHold
  BY DEF SettingsInv, Held, Unfailed, ProfilesHold, Right
<1> QED
  BY <1>1, InitSettings, StepSettings, PTL DEF SettingsSpec

\* No program step overwrites what somebody else wrote before its attempt began,
\* whatever key the camera drops with the write.
THEOREM ForeignSurvives == SettingsSpec => ForeignKept
<1> DEFINE Kept1 == foreign' = foreign /\ camera'[Alien] \notin {camera[Alien], "none"} => ~fresh
<1>1. SettingsInv /\ [SettingsNext]_settingsVars => [Kept1]_settingsVars
  <2> SUFFICES ASSUME SettingsInv, SettingsNext, foreign' = foreign, camera' # camera, fresh
               PROVE  LeftOrGone(Alien)
    BY DEF settingsVars, LeftOrGone
  <2>1. Program
    BY DEF SettingsNext, ForeignWrite, SettingsInv, SettingsTypeOK
  <2>2. SettingsTypeOK /\ copy \in [AllKeys -> Values]
    BY DEF SettingsInv, SettingsTypeOK
  <2>3. CASE RpcWrite
    BY <2>3, TableWritten DEF RpcWrite
  <2>4. CASE EachWrite \/ PartsWrite
    <3>1. ~Done /\ Plan[step].via # "rpc"
          /\ \E answered : SetConfig([copy EXCEPT ![Key] = "want"], {Key}, answered)
      BY <2>4 DEF EachWrite, PartsWrite, Via
    <3>2. [copy EXCEPT ![Key] = "want"] \in [AllKeys -> Values] /\ {Key} \in SUBSET Keys(step)
      BY <2>2, <3>1, AtWork DEF Values
    <3> QED
      BY <3>1, <3>2, KeyWritten
  <2>5. CASE BulkWrite
    <3>1. ~Done /\ Plan[step].via # "rpc" /\ \E answered : SetConfig(Edited, Keys(step), answered)
      BY <2>5 DEF BulkWrite, Via
    <3> QED
      BY <2>2, <3>1, EditedTable, KeyWritten
  <2> QED
    BY <2>1, <2>3, <2>4, <2>5 DEF Program, Login, SnapshotCheck, RpcRead, RpcVerify, RpcFails,
       EachRead, EachVerify, EachReread, EachFails, BulkRead, PartsRead, OnceVerify, OnceFails,
       Fails
<1> QED
  BY <1>1, InitSettings, StepSettings, PTL DEF SettingsSpec, ForeignKept

\* Whichever key of its table the camera drops with a write: a profile that goes there
\* in requests that are read back once returns Ok only with every key it found at
\* first, and the one that goes key by key leaves no key behind that is gone.
THEOREM VanishedNoticed == SettingsSpec => VanishNoticed
<1> DEFINE Once == \A i \in Steps :
             outcome[i] = "pending" /\ outcome'[i] = "ok" /\ Plan[i].via \in {"bulk", "parts"}
               => \A k \in Keys(i) \cap reported : camera[k] # "none"
           Each == Via("each") /\ pc \in {"verify", "reread"} /\ outcome'[step] # "failed"
                     /\ (key' # key \/ step' # step)
                     => camera[Key] # "none"
<1>1. SettingsInv /\ [SettingsNext]_settingsVars => [Once]_settingsVars
  <2> SUFFICES ASSUME SettingsInv, SettingsNext, NEW i \in Steps, outcome[i] = "pending",
                      outcome'[i] = "ok", Plan[i].via \in {"bulk", "parts"},
                      NEW k \in Keys(i) \cap reported
               PROVE  camera[k] # "none"
    BY DEF settingsVars
  <2>1. SettingsTypeOK /\ InPlan /\ ReportKept
    BY DEF SettingsInv
  <2>2. outcome' # outcome
    OBVIOUS
  <2>3. \A r \in {"ok", "failed"} : Return(r) /\ ~Done => r = "ok" /\ i = step
    BY <2>1, Returned
  <2>4. CASE Program
    <3>1. CASE EachRead \/ EachVerify \/ EachReread
      BY <2>2, <2>3, <3>1 DEF EachRead, EachVerify, EachReread, Via, Continue, Pause, Goto
    <3>2. CASE OnceVerify
      <4>1. ~Done /\ Refused(Keys(step) \cap reported) = {} /\ i = step
        BY <2>3, <3>2 DEF OnceVerify, Via
      <4> QED
        BY <2>1, <3>2, <4>1, Wants DEF Refused, OnceVerify, Via
    <3>3. CASE pc \in {"login", "read", "check"}
      BY <2>1, <3>3 DEF ReportKept
    <3>4. CASE Via("rpc")
      BY <2>1, <3>4 DEF ReportKept
    <3>5. CASE EachWrite \/ EachFails \/ BulkWrite \/ PartsWrite \/ OnceFails
      BY <2>2, <2>3, <3>5 DEF EachWrite, EachFails, BulkWrite, PartsWrite, OnceFails, Via, Pause,
         Goto, NextPart
    <3> QED
      BY <2>4, <3>1, <3>2, <3>3, <3>4, <3>5 DEF Program, Login, SnapshotCheck,
         RpcRead, RpcWrite, RpcVerify, RpcFails, BulkRead, PartsRead
  <2>5. CASE \E f \in Foreign : ForeignWrite(f)
    BY <2>2, <2>5 DEF ForeignWrite
  <2> QED
    BY <2>4, <2>5 DEF SettingsNext
<1>2. SettingsInv /\ [SettingsNext]_settingsVars => [Each]_settingsVars
  <2> SUFFICES ASSUME SettingsInv, SettingsNext, Via("each"), pc \in {"verify", "reread"},
                      outcome'[step] # "failed", key' # key \/ step' # step
               PROVE  camera[Key] # "none"
    BY DEF settingsVars
  <2>1. SettingsTypeOK /\ InPlan /\ ~Done /\ step \in Steps
    BY AtWork DEF SettingsInv, Via
  <2>2. ~Return("failed")
    BY <2>1, Returned
  <2>3. EachVerify \/ EachReread
    BY <2>2 DEF SettingsNext, Program, ForeignWrite, Login, SnapshotCheck, RpcRead, RpcWrite,
       RpcVerify, RpcFails, EachRead, EachWrite, EachFails, BulkRead, BulkWrite, PartsRead,
       PartsWrite, OnceVerify, OnceFails, Via, Pause, Goto
  <2>4. Refused({Key}) = {}
    BY <2>2, <2>3 DEF EachVerify, EachReread, Pause, Goto
  <2>5. camera[Key] = "want"
    BY <2>1, <2>4, Wants DEF Refused, Via
  <2> QED
    BY <2>5
<1> QED
  BY <1>1, <1>2, InitSettings, StepSettings, PTL DEF SettingsSpec, VanishNoticed
=============================================================================
