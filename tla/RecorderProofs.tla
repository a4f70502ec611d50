--------------------------- MODULE RecorderProofs ---------------------------
(***************************************************************************)
(* The recording pipeline keeps its types, its prebuffer belongs to the    *)
(* current generation, and a stream is delivered the fragments of each     *)
(* generation without a gap and at most one of a replaced generation, for  *)
(* every number of configurations, streams, restarts and fragments.        *)
(***************************************************************************)
EXTENDS Recorder, SequenceTheorems, TLAPS

-----------------------------------------------------------------------------
(* Facts about sequences of fragments.                                     *)

\* Reading the head of a sequence leaves a sequence that is one shorter.
LEMMA TailShorter ==
  ASSUME NEW S, NEW s \in Seq(S), s # <<>>
  PROVE  /\ Tail(s) \in Seq(S)
         /\ Len(Tail(s)) = Len(s) - 1
         /\ Head(s) \in S
  OBVIOUS

\* What the trimming loop keeps: a non-empty run of the newest fragments, no
\* more of them than the limit.
LEMMA TrimmedIsSuffix ==
  ASSUME NEW S, NEW s \in Seq(S), NEW t \in Trimmed(s)
  PROVE  /\ t \in Seq(S)
         /\ Len(t) \in 1..Len(s)
         /\ Len(t) <= MaxPrebuffer
         /\ \A i \in 1..Len(t) : t[i] = s[Len(s) - Len(t) + i]
<1>1. PICK k \in 1..Len(s) : /\ Len(s) - k + 1 <= MaxPrebuffer
                             /\ t = SubSeq(s, k, Len(s))
  BY DEF Trimmed
<1>2. /\ t \in Seq(S)
      /\ Len(t) = Len(s) - k + 1
      /\ \A i \in 1..Len(t) : t[i] = s[k + i - 1]
  BY <1>1
<1> QED
  BY <1>1, <1>2

-----------------------------------------------------------------------------
(* Type correctness.                                                       *)

LEMMA InitTypeOK == Init => TypeOK
<1> SUFFICES ASSUME Init PROVE TypeOK
  OBVIOUS
<1>1. NoSub \in Sub
  BY RecorderAssumption DEF NoSub, Sub, Gens
<1> QED
  BY <1>1, RecorderAssumption DEF Init, TypeOK, Gens

\* A delivery keeps the type of a stream: the queue stays within capacity.
LEMMA DeliverType ==
  ASSUME NEW r \in Sub, NEW f \in Fragment
  PROVE  Deliver(r, f) \in Sub
<1>1. CASE ~r.on \/ r.lagged
  BY <1>1 DEF Deliver
<1>2. CASE r.on /\ ~r.lagged /\ Len(r.queue) = LiveCapacity
  BY <1>2 DEF Deliver, Sub
<1>3. CASE r.on /\ ~r.lagged /\ Len(r.queue) # LiveCapacity
  <2>1. /\ r.queue \in Seq(Fragment)
        /\ Len(r.queue) <= LiveCapacity
    BY DEF Sub
  <2>2. /\ Append(r.queue, f) \in Seq(Fragment)
        /\ Len(Append(r.queue, f)) = Len(r.queue) + 1
    BY <2>1
  <2>3. Append(r.queue, f) \in {q \in Seq(Fragment) : Len(q) <= LiveCapacity}
    BY <1>3, <2>1, <2>2, RecorderAssumption
  <2> QED
    BY <1>3, <2>3 DEF Deliver, Sub
<1> QED
  BY <1>1, <1>2, <1>3

\* A task that is about to publish has a fragment to publish.
SendingHasMade == \A g \in Gens : task[g] = "sending" => made[g] # 0

LEMMA NextTypeOK == TypeOK /\ SendingHasMade /\ [Next]_vars => TypeOK'
<1> SUFFICES ASSUME TypeOK, SendingHasMade, [Next]_vars PROVE TypeOK'
  OBVIOUS
<1> USE RecorderAssumption
<1>1. ASSUME NEW c \in Configs, Start(c) PROVE TypeOK'
  <2>1. KillChild \in [Gens -> {"none", "alive", "exited"}]
    BY DEF TypeOK, KillChild
  <2>2. generation' \in Gens
    BY <1>1 DEF Start, TypeOK, Gens
  <2>3. proc' \in [Gens -> {"none", "alive", "exited"}]
    BY <1>1, <2>1, <2>2 DEF Start
  <2>4. task' \in [Gens -> {"none", "reading", "sending", "done"}]
    BY <1>1, <2>2 DEF Start, TypeOK
  <2>5. child' \in 0..MaxGen
    BY <1>1, <2>2 DEF Start, Gens
  <2>6. initSeg' \in 0..MaxGen /\ prebuffer' \in Seq(Fragment)
    BY <1>1 DEF Start, ClearBuffers
  <2> QED
    BY <1>1, <2>2, <2>3, <2>4, <2>5, <2>6 DEF Start, TypeOK, Gens
<1>2. CASE Stop
  <2>1. KillChild \in [Gens -> {"none", "alive", "exited"}]
    BY DEF TypeOK, KillChild
  <2> QED
    BY <1>2, <2>1 DEF Stop, ClearBuffers, TypeOK, Gens
<1>3. ASSUME NEW g \in Gens, ProcessExits(g) PROVE TypeOK'
  BY <1>3 DEF ProcessExits, recorderState, TypeOK, Gens
<1>4. ASSUME NEW g \in Gens, BufferFragment(g) PROVE TypeOK'
  <2>1. [gen |-> g, num |-> made[g] + 1] \in Fragment
    BY <1>4 DEF BufferFragment, TypeOK, Fragment, Gens
  <2>2. Append(prebuffer, [gen |-> g, num |-> made[g] + 1]) \in Seq(Fragment)
    BY <2>1 DEF TypeOK
  <2>3. prebuffer' \in Seq(Fragment)
    BY <1>4, <2>2, TrimmedIsSuffix DEF BufferFragment
  <2> QED
    BY <1>4, <2>3 DEF BufferFragment, TypeOK, Gens
<1>5. ASSUME NEW g \in Gens, TaskSuperseded(g) PROVE TypeOK'
  BY <1>5 DEF TaskSuperseded, recorderState, TypeOK, Gens
<1>6. ASSUME NEW g \in Gens, TaskFails(g) PROVE TypeOK'
  BY <1>6 DEF TaskFails, recorderState, TypeOK, Gens
<1>7. ASSUME NEW g \in Gens, PublishFragment(g) PROVE TypeOK'
  <2>1. made[g] \in 1..MaxFrags
    BY <1>7 DEF PublishFragment, SendingHasMade, TypeOK
  <2>2. sub' \in [Subs -> Sub]
    BY <1>7, <2>1, DeliverType DEF PublishFragment, TypeOK, Fragment
  <2> QED
    BY <1>7, <2>2 DEF PublishFragment, recorderState, TypeOK, Gens
<1>8. ASSUME NEW s \in Subs, Subscribe(s) PROVE TypeOK'
  <2>1. <<>> \in {q \in Seq(Fragment) : Len(q) <= LiveCapacity}
    OBVIOUS
  <2>2. Len(prebuffer) \in Nat
    BY DEF TypeOK
  <2>3. Subscription \in Sub
    BY <2>1, <2>2 DEF Subscription, Sub, TypeOK
  <2> QED
    BY <1>8, <2>3 DEF Subscribe, recorderState, TypeOK
<1>9. ASSUME NEW s \in Subs, SendPrebuffered(s) PROVE TypeOK'
  <2> DEFINE new == [sub[s] EXCEPT !.snap = Tail(@), !.got = Append(@, Head(sub[s].snap))]
  <2>1. sub[s] \in Sub /\ sub[s].snap # <<>>
    BY <1>9 DEF SendPrebuffered, TypeOK
  <2>2. /\ Tail(sub[s].snap) \in Seq(Fragment)
        /\ Len(Tail(sub[s].snap)) = Len(sub[s].snap) - 1
        /\ Head(sub[s].snap) \in Fragment
    BY <2>1, TailShorter DEF Sub
  <2>3. Append(sub[s].got, Head(sub[s].snap)) \in Seq(Fragment)
    BY <2>1, <2>2 DEF Sub
  <2>4. new \in Sub
    BY <2>1, <2>2, <2>3 DEF Sub
  <2>5. sub' = [sub EXCEPT ![s] = new]
    BY <1>9 DEF SendPrebuffered
  <2> HIDE DEF new
  <2> QED
    BY <1>9, <2>4, <2>5 DEF SendPrebuffered, recorderState, TypeOK
<1>10. ASSUME NEW s \in Subs, Receive(s) PROVE TypeOK'
  <2> DEFINE new == [sub[s] EXCEPT !.queue = Tail(@), !.got = Append(@, Head(sub[s].queue))]
  <2>1. sub[s] \in Sub /\ sub[s].queue # <<>>
    BY <1>10 DEF Receive, TypeOK
  <2>2. /\ Tail(sub[s].queue) \in Seq(Fragment)
        /\ Len(Tail(sub[s].queue)) = Len(sub[s].queue) - 1
        /\ Head(sub[s].queue) \in Fragment
    BY <2>1, TailShorter DEF Sub
  <2>3. /\ Append(sub[s].got, Head(sub[s].queue)) \in Seq(Fragment)
        /\ Tail(sub[s].queue) \in {q \in Seq(Fragment) : Len(q) <= LiveCapacity}
    BY <2>1, <2>2 DEF Sub
  <2>4. new \in Sub
    BY <2>1, <2>2, <2>3 DEF Sub
  <2>5. sub' = [sub EXCEPT ![s] = new]
    BY <1>10 DEF Receive
  <2> HIDE DEF new
  <2> QED
    BY <1>10, <2>4, <2>5 DEF Receive, recorderState, TypeOK
<1>11. ASSUME NEW s \in Subs, Unsubscribe(s) PROVE TypeOK'
  <2>1. NoSub \in Sub
    BY DEF NoSub, Sub, Gens
  <2> QED
    BY <1>11, <2>1 DEF Unsubscribe, recorderState, TypeOK
<1>12. CASE UNCHANGED vars
  BY <1>12 DEF vars, TypeOK
<1> QED
  BY <1>1, <1>2, <1>3, <1>4, <1>5, <1>6, <1>7, <1>8, <1>9, <1>10, <1>11, <1>12 DEF Next

-----------------------------------------------------------------------------
(* The prebuffer.                                                          *)

\* The inductive invariant.  PrebufferIsCurrent needs nothing but the types;
\* PrebufferBounded nothing but itself.
IInv ==
  /\ TypeOK
  /\ SendingHasMade
  /\ PrebufferIsCurrent
  /\ PrebufferBounded

LEMMA NextSending == TypeOK /\ SendingHasMade /\ [Next]_vars => SendingHasMade'
<1> SUFFICES ASSUME TypeOK, SendingHasMade, [Next]_vars,
                    NEW h \in Gens, task'[h] = "sending"
             PROVE  made'[h] # 0
  BY DEF SendingHasMade, Gens
<1>1. ASSUME NEW c \in Configs, Start(c) PROVE made'[h] # 0
  BY <1>1 DEF Start, TypeOK, SendingHasMade
<1>2. ASSUME NEW g \in Gens, BufferFragment(g) PROVE made'[h] # 0
  BY <1>2 DEF BufferFragment, TypeOK, SendingHasMade
<1>3. ASSUME NEW g \in Gens, TaskSuperseded(g) \/ TaskFails(g) \/ PublishFragment(g)
      PROVE  made'[h] # 0
  BY <1>3 DEF TaskSuperseded, TaskFails, PublishFragment, TypeOK, SendingHasMade
<1>4. CASE UNCHANGED <<task, made>>
  BY <1>4 DEF SendingHasMade
<1> QED
  BY <1>1, <1>2, <1>3, <1>4
  DEF Next, vars, Stop, ProcessExits, Subscribe, SendPrebuffered, Receive, Unsubscribe

\* Start and Stop open a generation with empty buffers.
LEMMA CleanGeneration ==
  ASSUME TypeOK, ClearBuffers
  PROVE  PrebufferIsCurrent' /\ PrebufferBounded'
  BY RecorderAssumption DEF ClearBuffers, PrebufferIsCurrent, PrebufferBounded

\* A step that leaves the buffers, the generation and what the tasks have made
\* alone keeps both.
LEMMA SameBuffers ==
  ASSUME PrebufferIsCurrent, PrebufferBounded, UNCHANGED <<recorderState, made>>
  PROVE  PrebufferIsCurrent' /\ PrebufferBounded'
  BY DEF recorderState, PrebufferIsCurrent, PrebufferBounded

\* parse_stream: the generation check under the lock is what keeps an older
\* task from adding to, or giving an init segment to, a newer prebuffer.
LEMMA BufferKeepsCurrent ==
  ASSUME TypeOK, PrebufferIsCurrent, PrebufferBounded, NEW g \in Gens, BufferFragment(g)
  PROVE  PrebufferIsCurrent' /\ PrebufferBounded'
<1> DEFINE new == [gen |-> g, num |-> made[g] + 1]
           all == Append(prebuffer, new)
<1>1. g = generation /\ generation' = generation
  BY DEF BufferFragment, Superseded
<1>2. made[g] \in Nat /\ made'[g] = made[g] + 1
  BY DEF BufferFragment, TypeOK, Gens
<1>3. new \in Fragment /\ prebuffer \in Seq(Fragment)
  BY RecorderAssumption DEF BufferFragment, TypeOK, Fragment, Gens
<1>4. /\ all \in Seq(Fragment)
      /\ Len(all) = Len(prebuffer) + 1
      /\ \A i \in 1..Len(prebuffer) : all[i] = prebuffer[i]
      /\ all[Len(all)] = new
  BY <1>3
<1>5. /\ prebuffer' \in Seq(Fragment)
      /\ Len(prebuffer') \in 1..Len(all)
      /\ Len(prebuffer') <= MaxPrebuffer
      /\ \A i \in 1..Len(prebuffer') : prebuffer'[i] = all[Len(all) - Len(prebuffer') + i]
  <2>1. prebuffer' \in Trimmed(all)
    BY DEF BufferFragment
  <2> HIDE DEF all
  <2> QED
    BY <1>4, <2>1, TrimmedIsSuffix
<1>6. \A j \in 1..Len(all) : all[j] = [gen |-> g, num |-> made[g] + 1 - Len(all) + j]
  <2> SUFFICES ASSUME NEW j \in 1..Len(all)
               PROVE  all[j] = [gen |-> g, num |-> made[g] + 1 - Len(all) + j]
    OBVIOUS
  <2>1. CASE j = Len(all)
    <3>1. made[g] + 1 - Len(all) + j = made[g] + 1
      BY <1>2, <1>3, <1>4, <2>1
    <3> QED
      BY <1>4, <2>1, <3>1
  <2>2. CASE j # Len(all)
    <3>1. j \in 1..Len(prebuffer)
      BY <1>3, <1>4, <2>2
    <3>2. all[j] = [gen |-> g, num |-> made[g] - Len(prebuffer) + j]
      BY <1>1, <1>4, <3>1 DEF PrebufferIsCurrent
    <3>3. made[g] + 1 - Len(all) + j = made[g] - Len(prebuffer) + j
      BY <1>2, <1>3, <1>4
    <3> QED
      BY <3>2, <3>3
  <2> QED
    BY <2>1, <2>2
<1>7. \A i \in 1..Len(prebuffer') :
        prebuffer'[i] = [gen |-> generation', num |-> made'[generation'] - Len(prebuffer') + i]
  <2> SUFFICES ASSUME NEW i \in 1..Len(prebuffer')
               PROVE  prebuffer'[i] =
                        [gen |-> g, num |-> made[g] + 1 - Len(prebuffer') + i]
    BY <1>1, <1>2
  <2> DEFINE j == Len(all) - Len(prebuffer') + i
  <2> HIDE DEF all
  <2>1. j \in 1..Len(all) /\ prebuffer'[i] = all[j]
    <3>1. Len(all) \in Nat /\ Len(prebuffer') \in 1..Len(all)
      BY <1>3, <1>4, <1>5
    <3>2. j \in 1..Len(all)
      BY <3>1
    <3> QED
      BY <1>5, <3>2
  <2>2. made[g] + 1 - Len(all) + j = made[g] + 1 - Len(prebuffer') + i
    BY <1>2, <1>3, <1>4, <1>5
  <2> QED
    BY <1>6, <2>1, <2>2
<1>8. initSeg' = generation'
  BY <1>1 DEF BufferFragment, PrebufferIsCurrent, Gens
<1>9. initSeg' # 0 /\ prebuffer' # <<>>
  BY <1>1, <1>5, <1>8 DEF Gens
<1> QED
  BY <1>5, <1>7, <1>8, <1>9 DEF PrebufferIsCurrent, PrebufferBounded

LEMMA NextBuffers ==
  TypeOK /\ PrebufferIsCurrent /\ PrebufferBounded /\ [Next]_vars
    => PrebufferIsCurrent' /\ PrebufferBounded'
<1> SUFFICES ASSUME TypeOK, PrebufferIsCurrent, PrebufferBounded, [Next]_vars
             PROVE  PrebufferIsCurrent' /\ PrebufferBounded'
  OBVIOUS
<1>1. ASSUME NEW c \in Configs, Start(c) PROVE ClearBuffers
  BY <1>1 DEF Start
<1>2. CASE Stop
  BY <1>2, CleanGeneration DEF Stop
<1>3. ASSUME NEW g \in Gens, BufferFragment(g)
      PROVE  PrebufferIsCurrent' /\ PrebufferBounded'
  BY <1>3, BufferKeepsCurrent
<1>4. ASSUME NEW g \in Gens, \/ ProcessExits(g) \/ TaskSuperseded(g)
                             \/ TaskFails(g) \/ PublishFragment(g)
      PROVE  UNCHANGED <<recorderState, made>>
  BY <1>4 DEF ProcessExits, TaskSuperseded, TaskFails, PublishFragment
<1>5. ASSUME NEW s \in Subs, \/ Subscribe(s) \/ SendPrebuffered(s)
                             \/ Receive(s) \/ Unsubscribe(s)
      PROVE  UNCHANGED <<recorderState, made>>
  BY <1>5 DEF Subscribe, SendPrebuffered, Receive, Unsubscribe
<1>6. CASE UNCHANGED vars
  BY <1>6, SameBuffers DEF vars, recorderState
<1> QED
  BY <1>1, <1>2, <1>3, <1>4, <1>5, <1>6, CleanGeneration, SameBuffers DEF Next

-----------------------------------------------------------------------------
(* The theorems.                                                           *)

LEMMA Invariance == Spec => []IInv
<1>1. Init => IInv
  <2> SUFFICES ASSUME Init PROVE IInv
    OBVIOUS
  <2>1. TypeOK
    BY InitTypeOK
  <2>2. SendingHasMade
    BY DEF Init, SendingHasMade
  <2>3. PrebufferIsCurrent /\ PrebufferBounded
    BY RecorderAssumption DEF Init, PrebufferIsCurrent, PrebufferBounded
  <2> QED
    BY <2>1, <2>2, <2>3 DEF IInv
<1>2. IInv /\ [Next]_vars => IInv'
  BY NextTypeOK, NextSending, NextBuffers DEF IInv
<1> QED
  BY <1>1, <1>2, PTL DEF Spec

\* Every variable of the pipeline keeps its type; in particular no receiver's
\* queue outgrows the channel (fmp4.rs, parse_stream and its broadcast send).
THEOREM TypeCorrect == Spec => []TypeOK
<1>1. IInv => TypeOK
  BY DEF IInv
<1> QED
  BY Invariance, <1>1, PTL

\* The prebuffer is a gapless run of the newest fragments of the current
\* generation, decoded with the init segment of that generation, whatever
\* older parse tasks still do (fmp4.rs, the generation check).
THEOREM PrebufferCurrent == Spec => []PrebufferIsCurrent
<1>1. IInv => PrebufferIsCurrent
  BY DEF IInv
<1> QED
  BY Invariance, <1>1, PTL

\* The prebuffer stays within its limit, and a snapshot with fragments in it
\* has an init segment (fmp4.rs, the trimming loop).
THEOREM PrebufferLimit == Spec => []PrebufferBounded
<1>1. IInv => PrebufferBounded
  BY DEF IInv
<1> QED
  BY Invariance, <1>1, PTL

-----------------------------------------------------------------------------
(* What the streams are given.  Sending and receiving move a fragment      *)
(* within Given(s), so only a new subscription and the channel change it.  *)

LEMMA HeadMoves ==
  ASSUME NEW S, NEW a \in Seq(S), NEW b \in Seq(S), b # <<>>
  PROVE  Append(a, Head(b)) \o Tail(b) = a \o b
<1> DEFINE x == Append(a, Head(b))
           y == Tail(b)
<1>1. /\ x \in Seq(S)
      /\ y \in Seq(S)
      /\ Len(x) = Len(a) + 1
      /\ Len(y) = Len(b) - 1
      /\ Len(a) \in Nat
      /\ Len(b) \in Nat \ {0}
  BY EmptySeq
<1>2. \A i \in 1..Len(x) : x[i] = IF i <= Len(a) THEN a[i] ELSE b[1]
  BY HeadTailProperties, AppendProperties
<1>3. \A i \in 1..Len(y) : y[i] = b[i + 1]
  BY HeadTailProperties
<1> HIDE DEF x, y
<1>4. /\ x \o y \in Seq(S)
      /\ Len(x \o y) = Len(x) + Len(y)
      /\ \A i \in 1..Len(x) + Len(y) :
           (x \o y)[i] = IF i <= Len(x) THEN x[i] ELSE y[i - Len(x)]
  BY <1>1, ConcatProperties
<1>5. /\ a \o b \in Seq(S)
      /\ Len(a \o b) = Len(a) + Len(b)
      /\ \A i \in 1..Len(a) + Len(b) :
           (a \o b)[i] = IF i <= Len(a) THEN a[i] ELSE b[i - Len(a)]
  BY ConcatProperties
<1>6. ASSUME NEW i \in 1..Len(a) + Len(b) PROVE (x \o y)[i] = (a \o b)[i]
  <2>1. CASE i <= Len(a)
    BY <1>1, <1>2, <1>4, <1>5, <2>1
  <2>2. CASE i = Len(a) + 1
    BY <1>1, <1>2, <1>4, <1>5, <2>2
  <2>3. CASE i > Len(a) + 1
    <3>1. i - Len(x) \in 1..Len(y) /\ (i - Len(x)) + 1 = i - Len(a)
      BY <1>1, <2>3
    <3>2. y[i - Len(x)] = b[i - Len(a)]
      BY <1>3, <3>1
    <3> QED
      BY <1>1, <1>4, <1>5, <2>3, <3>2
  <2> QED
    BY <1>1, <2>1, <2>2, <2>3
<1>7. x \o y = a \o b
  <2> DEFINE u == x \o y
             v == a \o b
  <2>1. u \in Seq(S) /\ v \in Seq(S) /\ Len(u) = Len(v)
    BY <1>1, <1>4, <1>5
  <2>2. \A i \in 1..Len(u) : u[i] = v[i]
    BY <1>1, <1>4, <1>6
  <2> HIDE DEF u, v
  <2>3. u = v
    BY <2>1, <2>2, SeqEqual
  <2> QED
    BY <2>3 DEF u, v
<1> QED
  BY <1>7 DEF x, y

LEMMA GivenType ==
  ASSUME TypeOK, NEW s \in Subs
  PROVE  /\ Given(s) \in Seq(Fragment)
         /\ sub[s].got \in Seq(Fragment)
         /\ sub[s].snap \in Seq(Fragment)
         /\ sub[s].queue \in Seq(Fragment)
         /\ sub[s].snapLen \in Nat
         /\ sub[s].init \in 0..MaxGen
<1>1. sub[s] \in Sub
  BY DEF TypeOK
<1>2. /\ sub[s].got \in Seq(Fragment)
      /\ sub[s].snap \in Seq(Fragment)
      /\ sub[s].queue \in Seq(Fragment)
  BY <1>1 DEF Sub
<1>3. Given(s) \in Seq(Fragment)
  BY <1>2, ConcatProperties DEF Given
<1> QED
  BY <1>1, <1>2, <1>3 DEF Sub

\* The prebuffer loop and live.recv() deliver the next of what was given.
LEMMA SendingMoves ==
  ASSUME TypeOK, NEW s \in Subs, SendPrebuffered(s) \/ Receive(s)
  PROVE  /\ Given(s)' = Given(s)
         /\ sub'[s].snapLen = sub[s].snapLen
         /\ sub'[s].init = sub[s].init
         /\ sub'[s].on = sub[s].on
         /\ sub'[s].lagged = sub[s].lagged
         /\ \A t \in Subs \ {s} : sub'[t] = sub[t]
<1> DEFINE a == sub[s].got
           b == sub[s].snap
           q == sub[s].queue
<1>0. sub[s] \in Sub /\ sub \in [Subs -> Sub]
  BY DEF TypeOK
<1>1. a \in Seq(Fragment) /\ b \in Seq(Fragment) /\ q \in Seq(Fragment)
  BY GivenType
<1>2. CASE SendPrebuffered(s)
  <2>1. /\ sub'[s].got = Append(a, Head(b))
        /\ sub'[s].snap = Tail(b)
        /\ sub'[s].queue = q
        /\ b # <<>>
    BY <1>0, <1>2 DEF SendPrebuffered, Sub
  <2>2. Given(s)' = (Append(a, Head(b)) \o Tail(b)) \o q
    BY <2>1 DEF Given
  <2>3. Append(a, Head(b)) \o Tail(b) = a \o b
    BY <1>1, <2>1, HeadMoves
  <2>4. Given(s)' = Given(s)
    BY <2>2, <2>3 DEF Given
  <2> QED
    BY <1>0, <1>2, <2>4 DEF SendPrebuffered, Sub
<1>3. CASE Receive(s)
  <2>1. /\ sub'[s].got = Append(a, Head(q))
        /\ sub'[s].snap = <<>>
        /\ sub'[s].queue = Tail(q)
        /\ q # <<>>
        /\ b = <<>>
    BY <1>0, <1>3 DEF Receive, Sub
  <2>2. Head(q) \in Fragment
    BY <1>1, <2>1, HeadTailProperties
  <2>3. Append(a, Head(q)) \in Seq(Fragment)
    BY <1>1, <2>2
  <2>4. Append(a, Head(q)) \o <<>> = Append(a, Head(q)) /\ a \o <<>> = a
    BY <1>1, <2>3, ConcatEmptySeq
  <2>5. Append(a, Head(q)) \o Tail(q) = a \o q
    BY <1>1, <2>1, HeadMoves
  <2>6. Given(s)' = Given(s)
    BY <2>1, <2>4, <2>5 DEF Given
  <2> QED
    BY <1>0, <1>3, <2>6 DEF Receive, Sub
<1> QED
  BY <1>2, <1>3

-----------------------------------------------------------------------------
(* The seam between prebuffer and channel: what a stream was given last of *)
(* a generation is what its parse task publishes next, or the one before.  *)

\* H skips nothing of a generation, and repeats only at position n.
NoGap(H, n) ==
  \A i, j \in 1..Len(H) :
    /\ i < j
    /\ H[i].gen = H[j].gen
    /\ \A k \in i+1..j-1 : H[k].gen # H[i].gen
    => H[j].num = H[i].num + 1 \/ (H[j].num = H[i].num /\ i = n)

\* Position i holds the last fragment of generation g.
Latest(H, g, i) == H[i].gen = g /\ \A k \in i+1..Len(H) : H[k].gen # g

\* What s was given last of a generation is the last fragment that was published,
\* or the one after it, if the snapshot had that one before it is published.
Awaits(s) ==
  \A g \in Gens : \A i \in 1..Len(Given(s)) :
    Latest(Given(s), g, i)
      => IF task[g] = "sending"
           THEN \/ Given(s)[i].num = made[g] - 1
                \/ Given(s)[i].num = made[g] /\ i = sub[s].snapLen
           ELSE Given(s)[i].num = made[g]

\* The invariant of DeliveredWithoutGap.
Spliced(s) ==
  /\ NoGap(Given(s), sub[s].snapLen)
  /\ sub[s].on /\ ~sub[s].lagged => Awaits(s)

\* Position j holds a fragment older than the init segment of generation a or
\* than one before it.
Late(H, a, j) == H[j].gen < a \/ \E i \in 1..j-1 : H[j].gen < H[i].gen

\* A late fragment is of a replaced pipeline, which publishes no other.
Straggling(s) ==
  /\ sub[s].init <= generation
  /\ \A i \in 1..Len(Given(s)) : Given(s)[i].gen <= generation
  /\ \A j \in 1..Len(Given(s)) :
       Late(Given(s), sub[s].init, j)
         => /\ Given(s)[j].gen < generation
            /\ task[Given(s)[j].gen] # "sending"
  /\ \A i, j \in 1..Len(Given(s)) :
       /\ Late(Given(s), sub[s].init, i)
       /\ Late(Given(s), sub[s].init, j)
       /\ Given(s)[i].gen = Given(s)[j].gen
       => i = j

\* Generations to come have no task.
NewTasks == \A g \in Gens : g > generation => task[g] = "none"

Joined == NewTasks /\ \A s \in Subs : Spliced(s) /\ Straggling(s)

LEMMA GivenAt ==
  ASSUME TypeOK, NEW s \in Subs, NEW i \in 1..Len(Given(s))
  PROVE  /\ Given(s)[i] \in Fragment
         /\ Given(s)[i].gen \in Gens
         /\ Given(s)[i].num \in 1..MaxFrags
         /\ Gens \subseteq Nat \ {0}
<1>1. Given(s) \in Seq(Fragment)
  BY GivenType
<1>2. Given(s)[i] \in Fragment
  BY <1>1, ElementOfSeq
<1> QED
  BY <1>2 DEF Fragment, Gens

\* A step that gives the stream nothing and publishes nothing.
LEMMA QuietJoined ==
  ASSUME TypeOK, NEW s \in Subs, Spliced(s), Straggling(s),
         Given(s)' = Given(s),
         sub'[s].snapLen = sub[s].snapLen, sub'[s].init = sub[s].init,
         UNCHANGED made, generation' \in Nat, generation <= generation',
         \A g \in Gens : task'[g] = "sending" => task[g] = "sending",
         sub'[s].on /\ ~sub'[s].lagged
           => /\ sub[s].on /\ ~sub[s].lagged
              /\ \A g \in Gens : task[g] = "sending" => task'[g] = "sending"
  PROVE  Spliced(s)' /\ Straggling(s)'
<1> DEFINE H == Given(s)
<1>0. H' = H
  OBVIOUS
<1>1. ASSUME NEW i \in 1..Len(H) PROVE H[i].gen \in Gens /\ H[i].gen \in Nat
  BY GivenAt
<1>2. sub[s].init \in Nat /\ generation \in Nat
  BY GivenType, RecorderAssumption DEF TypeOK
<1> HIDE DEF H
<1>3. Awaits(s) /\ sub'[s].on /\ ~sub'[s].lagged => Awaits(s)'
  <2> SUFFICES ASSUME Awaits(s), sub'[s].on, ~sub'[s].lagged,
                      NEW g \in Gens, NEW i \in 1..Len(H), Latest(H, g, i)
               PROVE  IF task'[g] = "sending"
                        THEN \/ H[i].num = made'[g] - 1
                             \/ H[i].num = made'[g] /\ i = sub'[s].snapLen
                        ELSE H[i].num = made'[g]
    BY <1>0 DEF Awaits, H
  <2>1. IF task[g] = "sending"
          THEN \/ H[i].num = made[g] - 1
               \/ H[i].num = made[g] /\ i = sub[s].snapLen
          ELSE H[i].num = made[g]
    BY DEF Awaits, H
  <2> QED
    BY <2>1
<1>4. Spliced(s)'
  BY <1>0, <1>3 DEF Spliced, H
<1>5. /\ sub'[s].init <= generation'
      /\ \A i \in 1..Len(H) : H[i].gen <= generation'
  BY <1>1, <1>2 DEF Straggling, H
<1>6. \A j \in 1..Len(H) : Late(H, sub[s].init, j)
                             => H[j].gen < generation' /\ task'[H[j].gen] # "sending"
  BY <1>1, <1>2 DEF Straggling, H
<1>7. \A i, j \in 1..Len(H) :
        Late(H, sub[s].init, i) /\ Late(H, sub[s].init, j) /\ H[i].gen = H[j].gen => i = j
  BY DEF Straggling, H
<1>8. Straggling(s)'
  BY <1>0, <1>5, <1>6, <1>7 DEF Straggling, H
<1> QED
  BY <1>4, <1>8

LEMMA NoGapAppend ==
  ASSUME NEW H \in Seq(Fragment), NEW f \in Fragment, NEW n, NoGap(H, n),
         \A i \in 1..Len(H) :
           Latest(H, f.gen, i) => f.num = H[i].num + 1 \/ (f.num = H[i].num /\ i = n)
  PROVE  NoGap(Append(H, f), n)
<1> DEFINE A == Append(H, f)
           L == Len(H)
<1>1. /\ L \in Nat
      /\ Len(A) = L + 1
      /\ \A i \in 1..L : A[i] = H[i]
      /\ A[L + 1] = f
  BY AppendProperties, LenProperties
<1> HIDE DEF A, L
<1> SUFFICES ASSUME NEW i \in 1..L + 1, NEW j \in 1..L + 1, i < j, A[i].gen = A[j].gen,
                    \A k \in i+1..j-1 : A[k].gen # A[i].gen
             PROVE  A[j].num = A[i].num + 1 \/ (A[j].num = A[i].num /\ i = n)
  BY <1>1 DEF NoGap, A
<1>2. i \in 1..L /\ A[i] = H[i]
  BY <1>1
<1>3. CASE j \in 1..L
  <2>1. \A k \in i+1..j-1 : k \in 1..L /\ A[k] = H[k]
    BY <1>1, <1>2, <1>3
  <2>2. \A k \in i+1..j-1 : H[k].gen # H[i].gen
    BY <1>2, <2>1
  <2>3. A[j] = H[j]
    BY <1>1, <1>3
  <2> QED
    BY <1>2, <1>3, <2>2, <2>3 DEF NoGap, L
<1>4. CASE j = L + 1
  <2>1. \A k \in i+1..L : k \in 1..L /\ k \in i+1..j-1 /\ A[k] = H[k]
    BY <1>1, <1>2, <1>4
  <2>2. H[i].gen = f.gen /\ \A k \in i+1..L : H[k].gen # f.gen
    BY <1>1, <1>2, <1>4, <2>1
  <2>3. Latest(H, f.gen, i)
    BY <2>2 DEF Latest, L
  <2> QED
    BY <1>1, <1>2, <1>4, <2>3 DEF L
<1> QED
  BY <1>1, <1>3, <1>4

\* What was the latest of another generation still is.
LEMMA LatestAppend ==
  ASSUME NEW H \in Seq(Fragment), NEW f \in Fragment, NEW g, NEW i \in 1..Len(H) + 1,
         Latest(Append(H, f), g, i)
  PROVE  \/ i = Len(H) + 1 /\ g = f.gen
         \/ i \in 1..Len(H) /\ g # f.gen /\ Latest(H, g, i)
<1> DEFINE A == Append(H, f)
           L == Len(H)
<1>1. /\ L \in Nat
      /\ Len(A) = L + 1
      /\ \A k \in 1..L : A[k] = H[k]
      /\ A[L + 1] = f
  BY AppendProperties, LenProperties
<1> HIDE DEF A, L
<1>2. A[i].gen = g /\ \A k \in i+1..L+1 : A[k].gen # g
  BY <1>1 DEF Latest, A
<1>3. CASE i = L + 1
  BY <1>1, <1>2, <1>3 DEF L
<1>4. CASE i \in 1..L
  <2>1. L + 1 \in i+1..L+1
    BY <1>1, <1>4
  <2>2. f.gen # g
    BY <1>1, <1>2, <2>1
  <2>3. \A k \in i+1..L : k \in 1..L /\ k \in i+1..L+1 /\ A[k] = H[k]
    BY <1>1, <1>4
  <2>4. H[i].gen = g /\ \A k \in i+1..L : H[k].gen # g
    BY <1>1, <1>2, <1>4, <2>3
  <2> QED
    BY <1>4, <2>2, <2>4 DEF Latest, L
<1> QED
  BY <1>1, <1>3, <1>4 DEF L

\* Being late depends on what came before only.
LEMMA LateAppend ==
  ASSUME NEW H \in Seq(Fragment), NEW f \in Fragment, NEW a, NEW j \in 1..Len(H)
  PROVE  Append(H, f)[j] = H[j] /\ Late(Append(H, f), a, j) = Late(H, a, j)
<1> DEFINE A == Append(H, f)
           L == Len(H)
<1>1. L \in Nat /\ j \in 1..L /\ \A k \in 1..L : A[k] = H[k]
  BY AppendProperties, LenProperties
<1> HIDE DEF A, L
<1>2. \A i \in 1..j-1 : i \in 1..L /\ A[i] = H[i]
  BY <1>1
<1>3. A[j] = H[j]
  BY <1>1
<1>4. Late(A, a, j) = Late(H, a, j)
  BY <1>2, <1>3 DEF Late
<1> QED
  BY <1>3, <1>4 DEF A

\* The parse task buffers the next fragment of the current generation.
LEMMA BufferJoined ==
  ASSUME TypeOK, NEW s \in Subs, Spliced(s), Straggling(s),
         NEW g \in Gens, BufferFragment(g)
  PROVE  Spliced(s)' /\ Straggling(s)'
<1> DEFINE H == Given(s)
<1>0. H' = H /\ sub' = sub /\ generation' = generation
  BY DEF BufferFragment, Given
<1>1. /\ g = generation
      /\ task[g] = "reading"
      /\ task'[g] = "sending"
      /\ made'[g] = made[g] + 1
      /\ made[g] \in Nat
      /\ \A h \in Gens \ {g} : task'[h] = task[h] /\ made'[h] = made[h]
  BY DEF BufferFragment, Superseded, TypeOK
<1>2. \A i \in 1..Len(H) : H[i].gen \in Gens
  BY GivenAt
<1> HIDE DEF H
<1>3. Awaits(s) => Awaits(s)'
  <2> SUFFICES ASSUME Awaits(s), NEW h \in Gens, NEW i \in 1..Len(H), Latest(H, h, i)
               PROVE  IF task'[h] = "sending"
                        THEN \/ H[i].num = made'[h] - 1
                             \/ H[i].num = made'[h] /\ i = sub'[s].snapLen
                        ELSE H[i].num = made'[h]
    BY <1>0 DEF Awaits, H
  <2>1. IF task[h] = "sending"
          THEN \/ H[i].num = made[h] - 1
               \/ H[i].num = made[h] /\ i = sub[s].snapLen
          ELSE H[i].num = made[h]
    BY DEF Awaits, H
  <2>2. CASE h = g
    BY <1>1, <2>1, <2>2
  <2>3. CASE h # g
    BY <1>0, <1>1, <2>1, <2>3
  <2> QED
    BY <2>2, <2>3
<1>4. Spliced(s)'
  BY <1>0, <1>3 DEF Spliced, H
<1>5. \A j \in 1..Len(H) : Late(H, sub[s].init, j)
                             => H[j].gen < generation /\ task'[H[j].gen] # "sending"
  <2> SUFFICES ASSUME NEW j \in 1..Len(H), Late(H, sub[s].init, j)
               PROVE  H[j].gen < generation /\ task'[H[j].gen] # "sending"
    OBVIOUS
  <2>1. H[j].gen < generation /\ task[H[j].gen] # "sending"
    BY DEF Straggling, H
  <2>2. H[j].gen \in Gens \ {g}
    BY <1>1, <1>2, <2>1 DEF Gens
  <2> QED
    BY <1>1, <2>1, <2>2
<1>6. Straggling(s)'
  BY <1>0, <1>5 DEF Straggling, H
<1> QED
  BY <1>4, <1>6

\* A fragment that reaches the stream follows the last one of its generation.
LEMMA DeliveredJoined ==
  ASSUME TypeOK, NewTasks, SendingHasMade, NEW s \in Subs, Spliced(s), Straggling(s),
         NEW g \in Gens, PublishFragment(g), sub[s].on, ~sub[s].lagged,
         sub'[s] = [sub[s] EXCEPT !.queue = Append(@, [gen |-> g, num |-> made[g]])]
  PROVE  Spliced(s)' /\ Straggling(s)'
<1> DEFINE H == Given(s)
           L == Len(H)
           f == [gen |-> g, num |-> made[g]]
           n == sub[s].snapLen
<1>1. /\ task[g] = "sending"
      /\ task'[g] = "reading"
      /\ \A h \in Gens \ {g} : task'[h] = task[h]
      /\ generation' = generation
      /\ made' = made
  BY DEF PublishFragment, TypeOK, recorderState
<1>2. f \in Fragment /\ f.gen = g /\ f.num = made[g] /\ made[g] \in Nat
  BY <1>1, RecorderAssumption DEF Fragment, TypeOK, SendingHasMade
<1>3. H \in Seq(Fragment) /\ L \in Nat
  BY GivenType, LenProperties
<1>4. /\ sub'[s].got = sub[s].got
      /\ sub'[s].snap = sub[s].snap
      /\ sub'[s].queue = Append(sub[s].queue, f)
      /\ sub'[s].snapLen = n
      /\ sub'[s].init = sub[s].init
  BY DEF TypeOK, Sub
<1>5. H' = Append(H, f)
  <2> DEFINE a == sub[s].got \o sub[s].snap
             q == sub[s].queue
  <2>1. a \in Seq(Fragment) /\ q \in Seq(Fragment) /\ <<f>> \in Seq(Fragment)
    BY <1>2, GivenType, ConcatProperties
  <2>2. H' = a \o Append(q, f)
    BY <1>4 DEF Given
  <2>3. H = a \o q
    BY DEF Given
  <2> HIDE DEF H, a, q, f
  <2>4. Append(q, f) = q \o <<f>>
    BY <1>2, <2>1, AppendIsConcat
  <2>5. (a \o q) \o <<f>> = a \o (q \o <<f>>)
    BY <2>1, ConcatAssociative
  <2>6. Append(H, f) = H \o <<f>>
    BY <1>2, <1>3, AppendIsConcat
  <2> QED
    BY <2>2, <2>3, <2>4, <2>5, <2>6
<1>6. \A i \in 1..L : H[i].gen \in Gens /\ H[i].gen \in Nat /\ H[i].gen <= generation
  BY GivenAt DEF Straggling
<1>7. g <= generation /\ generation \in Nat /\ g \in Nat
  BY <1>1, RecorderAssumption DEF NewTasks, TypeOK, Gens
<1>8. Awaits(s) /\ NoGap(H, n)
  BY DEF Spliced
<1> DEFINE A == Append(H, f)
<1>9. /\ Len(A) = L + 1
      /\ \A i \in 1..L : A[i] = H[i]
      /\ A[L + 1] = f
  BY <1>2, <1>3, AppendProperties
<1> HIDE DEF H, L, f, n, A
<1>10. NoGap(A, n)
  <2>1. ASSUME NEW i \in 1..L, Latest(H, f.gen, i)
        PROVE  f.num = H[i].num + 1 \/ (f.num = H[i].num /\ i = n)
    <3>1. \/ H[i].num = made[g] - 1
          \/ H[i].num = made[g] /\ i = n
      BY <1>1, <1>2, <1>8, <2>1 DEF Awaits, H, L, n
    <3> QED
      BY <1>2, <3>1
  <2> QED
    BY <1>2, <1>3, <1>8, <2>1, NoGapAppend DEF A, L
<1>11. Awaits(s)'
  <2> SUFFICES ASSUME NEW h \in Gens, NEW i \in 1..L + 1, Latest(A, h, i)
               PROVE  IF task'[h] = "sending"
                        THEN \/ A[i].num = made[h] - 1
                             \/ A[i].num = made[h] /\ i = n
                        ELSE A[i].num = made[h]
    BY <1>1, <1>4, <1>5, <1>9 DEF Awaits, A, H
  <2>1. \/ i = L + 1 /\ h = g
        \/ i \in 1..L /\ h # g /\ Latest(H, h, i)
    BY <1>2, <1>3, LatestAppend DEF A, L
  <2>2. CASE i = L + 1 /\ h = g
    BY <1>1, <1>2, <1>9, <2>2
  <2>3. CASE i \in 1..L /\ h # g /\ Latest(H, h, i)
    <3>1. IF task[h] = "sending"
            THEN \/ H[i].num = made[h] - 1
                 \/ H[i].num = made[h] /\ i = n
            ELSE H[i].num = made[h]
      BY <1>8, <2>3 DEF Awaits, H, L, n
    <3> QED
      BY <1>1, <1>9, <2>3, <3>1
  <2> QED
    BY <2>1, <2>2, <2>3
<1>12. Spliced(s)'
  BY <1>4, <1>5, <1>10, <1>11 DEF Spliced, A, H, n
<1>13. ASSUME NEW i \in 1..L + 1 PROVE A[i].gen <= generation
  <2>1. CASE i = L + 1
    BY <1>2, <1>7, <1>9, <2>1
  <2>2. CASE i \in 1..L
    BY <1>6, <1>9, <2>2
  <2> QED
    BY <1>3, <2>1, <2>2
<1>14. \A j \in 1..L : A[j] = H[j] /\ Late(A, sub[s].init, j) = Late(H, sub[s].init, j)
  BY <1>2, <1>3, LateAppend DEF A, L
<1>15. \A j \in 1..L : Late(H, sub[s].init, j)
                         => H[j].gen < generation /\ task[H[j].gen] # "sending"
  BY DEF Straggling, H, L
<1>16. \A j \in 1..L : Late(H, sub[s].init, j) => H[j].gen # g
  BY <1>1, <1>15
<1>17. sub[s].init \in Nat /\ sub[s].init <= generation
  BY GivenType, RecorderAssumption DEF Straggling
<1>18. ASSUME NEW j \in 1..L + 1, Late(A, sub[s].init, j)
       PROVE  A[j].gen < generation /\ task'[A[j].gen] # "sending"
  <2>1. CASE j = L + 1
    <3>1. A[j].gen = g
      BY <1>2, <1>9, <2>1
    <3>2. ASSUME NEW i \in 1..j-1 PROVE A[i].gen \in Nat /\ A[i].gen <= generation
      <4>1. i \in 1..L
        BY <1>3, <2>1
      <4> QED
        BY <1>6, <1>9, <4>1
    <3> QED
      BY <1>1, <1>7, <1>17, <1>18, <3>1, <3>2 DEF Late
  <2>2. CASE j \in 1..L
    BY <1>1, <1>6, <1>14, <1>15, <1>16, <1>18, <2>2
  <2> QED
    BY <1>3, <2>1, <2>2
<1>19. ASSUME NEW i \in 1..L + 1, NEW j \in 1..L + 1, Late(A, sub[s].init, i),
              Late(A, sub[s].init, j), A[i].gen = A[j].gen
       PROVE  i = j
  <2>1. CASE i \in 1..L /\ j \in 1..L
    BY <1>14, <1>19, <2>1 DEF Straggling, H, L
  <2>2. CASE i = L + 1 \/ j = L + 1
    BY <1>2, <1>3, <1>9, <1>14, <1>16, <1>19, <2>2
  <2> QED
    BY <1>3, <2>1, <2>2
<1>20. Straggling(s)'
  <2>1. sub'[s].init = sub[s].init /\ generation' = generation /\ Given(s)' = A
    BY <1>1, <1>4, <1>5 DEF A, H
  <2> QED
    BY <1>9, <1>13, <1>17, <1>18, <1>19, <2>1 DEF Straggling
<1> QED
  BY <1>12, <1>20

LEMMA PublishJoined ==
  ASSUME TypeOK, NewTasks, SendingHasMade, NEW s \in Subs, Spliced(s), Straggling(s),
         NEW g \in Gens, PublishFragment(g)
  PROVE  Spliced(s)' /\ Straggling(s)'
<1> DEFINE f == [gen |-> g, num |-> made[g]]
<1>1. sub'[s] = Deliver(sub[s], f)
  BY DEF PublishFragment
<1>2. sub[s] \in Sub
  BY DEF TypeOK
<1>3. /\ generation' = generation
      /\ generation \in Nat
      /\ made' = made
      /\ \A h \in Gens : task'[h] = "sending" => task[h] = "sending"
  BY RecorderAssumption DEF PublishFragment, TypeOK, recorderState
<1> HIDE DEF f
<1>4. CASE ~sub[s].on \/ sub[s].lagged
  <2>1. sub'[s] = sub[s]
    BY <1>1, <1>4 DEF Deliver
  <2>2. Given(s)' = Given(s)
    BY <2>1 DEF Given
  <2> QED
    BY <1>3, <1>4, <2>1, <2>2, QuietJoined
<1>5. CASE sub[s].on /\ ~sub[s].lagged /\ Len(sub[s].queue) = LiveCapacity
  <2>1. sub'[s] = [sub[s] EXCEPT !.lagged = TRUE]
    BY <1>1, <1>5 DEF Deliver
  <2>2. /\ sub'[s].lagged
        /\ sub'[s].got = sub[s].got
        /\ sub'[s].snap = sub[s].snap
        /\ sub'[s].queue = sub[s].queue
        /\ sub'[s].snapLen = sub[s].snapLen
        /\ sub'[s].init = sub[s].init
    BY <1>2, <2>1 DEF Sub
  <2>3. Given(s)' = Given(s)
    BY <2>2 DEF Given
  <2> QED
    BY <1>3, <2>2, <2>3, QuietJoined
<1>6. CASE sub[s].on /\ ~sub[s].lagged /\ Len(sub[s].queue) # LiveCapacity
  <2>1. sub'[s] = [sub[s] EXCEPT !.queue = Append(@, f)]
    BY <1>1, <1>6 DEF Deliver
  <2> QED
    BY <1>6, <2>1, DeliveredJoined DEF f
<1> QED
  BY <1>4, <1>5, <1>6

\* snapshot_and_subscribe under the lock: what is published from here on
\* continues the snapshot.
LEMMA SubscribeJoined ==
  ASSUME IInv, NEW s \in Subs, Subscribe(s)
  PROVE  Spliced(s)' /\ Straggling(s)'
<1> DEFINE P == prebuffer
           L == Len(prebuffer)
<1>1. P \in Seq(Fragment) /\ L \in Nat
  BY LenProperties DEF IInv, TypeOK
<1>2. sub'[s] = Subscription
  BY DEF Subscribe, IInv, TypeOK
<1>3. /\ sub'[s].got = <<>>
      /\ sub'[s].snap = P
      /\ sub'[s].queue = <<>>
      /\ sub'[s].snapLen = L
      /\ sub'[s].init = initSeg
  BY <1>2 DEF Subscription
<1>4. Given(s)' = P
  <2>1. <<>> \o P = P /\ P \o <<>> = P
    BY <1>1, ConcatEmptySeq
  <2>2. Given(s)' = <<>> \o P \o <<>>
    BY <1>3 DEF Given
  <2> QED
    BY <2>1, <2>2
<1>5. UNCHANGED <<generation, task, made>>
  BY DEF Subscribe, recorderState
<1>6. initSeg = generation /\ generation \in Gens /\ made[generation] \in Nat
  BY RecorderAssumption DEF IInv, PrebufferIsCurrent, Subscribe, TypeOK, Gens
<1>7. ASSUME NEW i \in 1..L
      PROVE  P[i].gen = generation /\ P[i].num = made[generation] - L + i
  <2>1. P[i] = [gen |-> generation, num |-> made[generation] - L + i]
    BY DEF IInv, PrebufferIsCurrent
  <2> QED
    BY <2>1
<1> HIDE DEF P, L
<1>8. NoGap(P, L)
  <2> SUFFICES ASSUME NEW i \in 1..L, NEW j \in 1..L, i < j,
                      \A k \in i+1..j-1 : P[k].gen # P[i].gen
               PROVE  P[j].num = P[i].num + 1
    BY DEF NoGap, P, L
  <2>1. j = i + 1
    <3>1. SUFFICES ASSUME j # i + 1 PROVE FALSE
      OBVIOUS
    <3>2. i + 1 \in i+1..j-1 /\ i + 1 \in 1..L
      BY <1>1, <3>1
    <3> QED
      BY <1>7, <3>2
  <2> QED
    BY <1>1, <1>6, <1>7, <2>1
<1>9. ASSUME NEW g \in Gens, NEW i \in 1..L, Latest(P, g, i)
      PROVE  g = generation /\ i = L /\ P[i].num = made[g]
  <2>1. g = generation
    BY <1>7, <1>9 DEF Latest
  <2>2. i = L
    <3>1. SUFFICES ASSUME i # L PROVE FALSE
      OBVIOUS
    <3>2. L \in i+1..L /\ L \in 1..L
      BY <1>1, <3>1
    <3> QED
      BY <1>7, <1>9, <2>1, <3>2 DEF Latest, P, L
  <2> QED
    BY <1>1, <1>6, <1>7, <2>1, <2>2
<1>10. Awaits(s)'
  BY <1>3, <1>4, <1>5, <1>9 DEF Awaits, L, P
<1>11. Spliced(s)'
  BY <1>3, <1>4, <1>8, <1>10 DEF Spliced
<1>12. generation \in Nat
  BY <1>6 DEF Gens
<1>13. \A j \in 1..L : ~Late(P, initSeg, j)
  <2> SUFFICES ASSUME NEW j \in 1..L PROVE ~Late(P, initSeg, j)
    OBVIOUS
  <2>1. \A i \in 1..j-1 : i \in 1..L
    BY <1>1
  <2>2. \A i \in 1..j-1 : P[i].gen = generation
    BY <1>7, <2>1
  <2> QED
    BY <1>6, <1>7, <1>12, <2>2 DEF Late
<1>14. Straggling(s)'
  BY <1>3, <1>4, <1>5, <1>6, <1>7, <1>12, <1>13 DEF Straggling, L, P
<1> QED
  BY <1>11, <1>14

\* A stream that is given nothing has nothing out of order.
LEMMA EmptyJoined ==
  ASSUME NEW s \in Subs, generation \in Nat, sub[s] = NoSub
  PROVE  Spliced(s) /\ Straggling(s)
<1>1. Given(s) = <<>>
  BY DEF Given, NoSub
<1>2. \A i \in 1..Len(Given(s)) : FALSE
  BY <1>1
<1> QED
  BY <1>2 DEF NoSub, Spliced, Straggling, NoGap, Awaits

LEMMA NewTasksStep == TypeOK /\ NewTasks /\ [Next]_vars => NewTasks'
<1> SUFFICES ASSUME TypeOK, NewTasks, [Next]_vars,
                    NEW h \in Gens, h > generation'
             PROVE  task'[h] = "none"
  BY DEF NewTasks
<1>0. generation \in Nat /\ h \in Nat
  BY RecorderAssumption DEF TypeOK, Gens
<1>1. ASSUME NEW c \in Configs, Start(c) PROVE task'[h] = "none"
  BY <1>0, <1>1 DEF Start, TypeOK, NewTasks
<1>2. CASE Stop
  BY <1>0, <1>2 DEF Stop, NewTasks
<1>3. ASSUME NEW g \in Gens, \/ BufferFragment(g) \/ TaskSuperseded(g)
                             \/ TaskFails(g) \/ PublishFragment(g)
      PROVE  task'[h] = "none"
  <2>1. generation' = generation
    BY <1>3 DEF BufferFragment, TaskSuperseded, TaskFails, PublishFragment, recorderState
  <2>2. task[g] # "none" /\ \A k \in Gens \ {g} : task'[k] = task[k]
    BY <1>3 DEF BufferFragment, TaskSuperseded, TaskFails, PublishFragment, TypeOK
  <2> QED
    BY <2>1, <2>2 DEF NewTasks
<1>4. CASE UNCHANGED <<generation, task>>
  BY <1>4 DEF NewTasks
<1> QED
  BY <1>1, <1>2, <1>3, <1>4
  DEF Next, vars, recorderState, ProcessExits, Subscribe, SendPrebuffered, Receive,
      Unsubscribe

\* Steps of the pipeline that buffer and publish nothing.
LEMMA PipelineJoined ==
  ASSUME TypeOK, NewTasks, NEW s \in Subs, Spliced(s), Straggling(s),
         \/ \E c \in Configs : Start(c)
         \/ Stop
         \/ \E g \in Gens : ProcessExits(g) \/ TaskSuperseded(g) \/ TaskFails(g)
         \/ UNCHANGED vars
  PROVE  Spliced(s)' /\ Straggling(s)'
<1>0. generation \in Nat
  BY RecorderAssumption DEF TypeOK
<1>1. UNCHANGED <<sub, made>>
  BY DEF Start, Stop, ProcessExits, TaskSuperseded, TaskFails, vars
<1>2. generation' \in Nat /\ generation <= generation'
  BY <1>0 DEF Start, Stop, ProcessExits, TaskSuperseded, TaskFails, vars, recorderState
<1>3. ASSUME NEW h \in Gens PROVE (task'[h] = "sending") = (task[h] = "sending")
  <2>1. ASSUME NEW c \in Configs, Start(c) PROVE task'[h] = task[h] \/ task[h] = "none"
    <3>1. generation' \in Gens /\ generation' > generation
      BY <1>0, <2>1, RecorderAssumption DEF Start, Gens
    <3>2. task[generation'] = "none"
      BY <3>1 DEF NewTasks
    <3>3. task' = task \/ task' = [task EXCEPT ![generation'] = "reading"]
      BY <2>1 DEF Start
    <3> QED
      BY <3>2, <3>3 DEF TypeOK
  <2>2. ASSUME NEW c \in Configs, Start(c)
        PROVE  (task'[h] = "sending") = (task[h] = "sending")
    BY <2>1, <2>2 DEF Start, TypeOK
  <2>3. ASSUME NEW g \in Gens, TaskSuperseded(g) \/ TaskFails(g)
        PROVE  (task'[h] = "sending") = (task[h] = "sending")
    BY <2>3 DEF TaskSuperseded, TaskFails, TypeOK
  <2>4. ASSUME task' = task PROVE (task'[h] = "sending") = (task[h] = "sending")
    BY <2>4
  <2> QED
    BY <2>2, <2>3, <2>4 DEF Stop, ProcessExits, vars
<1>4. Given(s)' = Given(s)
  BY <1>1 DEF Given
<1> QED
  BY <1>1, <1>2, <1>3, <1>4, QuietJoined

LEMMA StreamsJoined ==
  ASSUME IInv, NEW s \in Subs, Spliced(s), Straggling(s), NEW t \in Subs,
         Subscribe(t) \/ SendPrebuffered(t) \/ Receive(t) \/ Unsubscribe(t)
  PROVE  Spliced(s)' /\ Straggling(s)'
<1>0. /\ TypeOK
      /\ generation \in Nat
      /\ UNCHANGED <<generation, task, made>>
  BY RecorderAssumption
  DEF IInv, TypeOK, Subscribe, SendPrebuffered, Receive, Unsubscribe, recorderState
<1>1. CASE t # s
  <2>1. sub'[s] = sub[s]
    BY <1>0, <1>1 DEF TypeOK, Subscribe, SendPrebuffered, Receive, Unsubscribe
  <2>2. Given(s)' = Given(s)
    BY <2>1 DEF Given
  <2> QED
    BY <1>0, <2>1, <2>2, QuietJoined
<1>2. CASE t = s /\ Subscribe(s)
  BY <1>2, SubscribeJoined
<1>3. CASE t = s /\ (SendPrebuffered(s) \/ Receive(s))
  <2>1. /\ Given(s)' = Given(s)
        /\ sub'[s].snapLen = sub[s].snapLen
        /\ sub'[s].init = sub[s].init
        /\ sub'[s].on = sub[s].on
        /\ sub'[s].lagged = sub[s].lagged
    BY <1>0, <1>3, SendingMoves
  <2> QED
    BY <1>0, <2>1, QuietJoined
<1>4. CASE t = s /\ Unsubscribe(s)
  <2>1. sub'[s] = NoSub /\ generation' \in Nat
    BY <1>0, <1>4 DEF TypeOK, Unsubscribe
  <2>2. Given(s)' = <<>>
    BY <2>1 DEF Given, NoSub
  <2> QED
    BY <1>0, <2>1, <2>2 DEF NoSub, Spliced, Straggling, NoGap, Awaits
<1> QED
  BY <1>1, <1>2, <1>3, <1>4

LEMMA JoinedStep == IInv /\ Joined /\ [Next]_vars => Joined'
<1> SUFFICES ASSUME IInv, Joined, [Next]_vars PROVE Joined'
  OBVIOUS
<1>0. TypeOK /\ SendingHasMade /\ NewTasks /\ \A s \in Subs : Spliced(s) /\ Straggling(s)
  BY DEF IInv, Joined
<1>1. NewTasks'
  BY <1>0, NewTasksStep
<1>2. ASSUME NEW s \in Subs PROVE Spliced(s)' /\ Straggling(s)'
  <2>0. Spliced(s) /\ Straggling(s)
    BY <1>0
  <2>1. CASE \/ \E c \in Configs : Start(c)
             \/ Stop
             \/ \E g \in Gens : ProcessExits(g) \/ TaskSuperseded(g) \/ TaskFails(g)
             \/ UNCHANGED vars
    BY <1>0, <2>0, <2>1, PipelineJoined
  <2>2. ASSUME NEW g \in Gens, BufferFragment(g) PROVE Spliced(s)' /\ Straggling(s)'
    BY <1>0, <2>0, <2>2, BufferJoined
  <2>3. ASSUME NEW g \in Gens, PublishFragment(g) PROVE Spliced(s)' /\ Straggling(s)'
    BY <1>0, <2>0, <2>3, PublishJoined
  <2>4. ASSUME NEW t \in Subs, \/ Subscribe(t) \/ SendPrebuffered(t)
                               \/ Receive(t) \/ Unsubscribe(t)
        PROVE  Spliced(s)' /\ Straggling(s)'
    BY <1>0, <2>0, <2>4, StreamsJoined
  <2> QED
    BY <2>1, <2>2, <2>3, <2>4 DEF Next
<1> QED
  BY <1>1, <1>2 DEF Joined

LEMMA JoinedAlways == Spec => [](TypeOK /\ Joined)
<1>1. Init => Joined
  <2> SUFFICES ASSUME Init PROVE Joined
    OBVIOUS
  <2>1. NewTasks /\ generation \in Nat
    BY DEF Init, NewTasks
  <2>2. ASSUME NEW s \in Subs PROVE Spliced(s) /\ Straggling(s)
    BY <2>1, EmptyJoined DEF Init
  <2> QED
    BY <2>1, <2>2 DEF Joined
<1>2. IInv => TypeOK
  BY DEF IInv
<1> QED
  BY <1>1, <1>2, Invariance, JoinedStep, PTL DEF Spec

\* What a stream delivers of one generation is in order and skips nothing, but
\* for the last prebuffered fragment, which may come twice: for any number of
\* streams, restarts and fragments, although a fragment is buffered under the
\* lock and published after it (parse_stream, snapshot_and_subscribe).
THEOREM NoGapDelivered == Spec => []DeliveredWithoutGap
<1>1. TypeOK /\ Joined => DeliveredWithoutGap
  <2> SUFFICES ASSUME TypeOK, Joined, NEW s \in Subs,
                      NEW i \in 1..Len(sub[s].got), NEW j \in 1..Len(sub[s].got),
                      i < j, sub[s].got[i].gen = sub[s].got[j].gen,
                      \A k \in i+1..j-1 : sub[s].got[k].gen # sub[s].got[i].gen
               PROVE  \/ sub[s].got[j].num = sub[s].got[i].num + 1
                      \/ sub[s].got[j].num = sub[s].got[i].num /\ i = sub[s].snapLen
    BY DEF DeliveredWithoutGap
  <2> DEFINE H == Given(s)
             G == sub[s].got
             rest == sub[s].snap \o sub[s].queue
  <2>1. /\ G \in Seq(Fragment)
        /\ sub[s].snap \in Seq(Fragment)
        /\ sub[s].queue \in Seq(Fragment)
    BY GivenType
  <2>2. rest \in Seq(Fragment) /\ H = G \o rest
    <3> DEFINE snap == sub[s].snap
               queue == sub[s].queue
    <3>1. H = (G \o snap) \o queue
      BY DEF Given
    <3>2. G \in Seq(Fragment) /\ snap \in Seq(Fragment) /\ queue \in Seq(Fragment)
      BY <2>1
    <3> HIDE DEF H, G, snap, queue
    <3>3. snap \o queue \in Seq(Fragment)
      BY <3>2, ConcatProperties
    <3>4. (G \o snap) \o queue = G \o (snap \o queue)
      BY <3>2, ConcatAssociative
    <3> QED
      BY <3>1, <3>3, <3>4 DEF snap, queue
  <2>3. /\ Len(G) \in Nat
        /\ Len(G) <= Len(H)
        /\ Len(H) \in Nat
        /\ \A k \in 1..Len(G) : H[k] = G[k]
    <3> HIDE DEF H, G, rest
    <3> QED
      BY <2>1, <2>2, ConcatProperties, LenProperties
  <2>4. NoGap(H, sub[s].snapLen)
    BY DEF Joined, Spliced
  <2> HIDE DEF H
  <2>5. i \in 1..Len(H) /\ j \in 1..Len(H) /\ H[i] = G[i] /\ H[j] = G[j]
    BY <2>3
  <2>6. \A k \in i+1..j-1 : H[k].gen # H[i].gen
    BY <2>3, <2>5
  <2> QED
    BY <2>4, <2>5, <2>6 DEF NoGap
<1> QED
  BY <1>1, JoinedAlways, PTL

\* A replaced pipeline reaches a stream that has another's init segment or
\* fragments already with one fragment at most, for any number of restarts (the
\* generation check of parse_stream, and broadcast's send after the lock).
THEOREM OneLate == Spec => []OneStraggler
<1>1. Joined => OneStraggler
  <2> SUFFICES ASSUME Joined, NEW s \in Subs PROVE
                 \A i, j \in Overtaken(s) : Given(s)[i].gen = Given(s)[j].gen => i = j
    BY DEF OneStraggler
  <2>1. \A j \in Overtaken(s) : j \in 1..Len(Given(s)) /\ Late(Given(s), sub[s].init, j)
    BY DEF Overtaken, Late
  <2> QED
    BY <2>1 DEF Joined, Straggling
<1> QED
  BY <1>1, JoinedAlways, PTL
=============================================================================
