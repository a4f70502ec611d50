------------------------------ MODULE Recorder ------------------------------
(***************************************************************************)
(* The recording pipeline of src/hsv/fmp4.rs: one ffmpeg process at a time *)
(* is parsed into fragments, a rolling prebuffer keeps the latest ones and *)
(* a broadcast channel hands each new one to the recording streams.        *)
(*                                                                         *)
(* Every start() and stop() opens a new generation.  The parse task of an  *)
(* older generation may still be running when the next one starts, so the  *)
(* tasks are indexed by generation.  A fragment is the pair of its         *)
(* generation and its number in it; sizes, boxes and ages are left out:    *)
(* the time limit of the prebuffer is a choice of how many of the oldest   *)
(* fragments have passed it.                                               *)
(***************************************************************************)
EXTENDS Integers, Sequences

CONSTANTS Configs,       \* recorder configurations the settings can ask for
          Subs,          \* recording streams (the pumps of hds.rs)
          MaxPrebuffer,  \* fragments the prebuffer keeps (8 in the code)
          LiveCapacity,  \* capacity of the broadcast channel (16 in the code)
          MaxGen,        \* bound: start() and stop() calls
          MaxFrags,      \* bound: fragments of one generation
          NoConfig       \* config: None

ASSUME RecorderAssumption ==
  /\ MaxPrebuffer \in Nat \ {0}
  /\ LiveCapacity \in Nat \ {0}
  /\ MaxGen \in Nat
  /\ MaxFrags \in Nat
  /\ NoConfig \notin Configs

VARIABLES generation,  \* RecorderState.generation
          config,      \* RecorderState.config
          child,       \* RecorderState.child: its generation, 0 for None
          initSeg,     \* RecorderState.init_segment: its generation, 0 for None
          prebuffer,   \* RecorderState.prebuffer
          proc,        \* the ffmpeg process of each generation
          task,        \* the parse_stream task of each generation
          made,        \* fragments that task has put into the prebuffer
          sub          \* the recording streams that read the channel

recorderState == <<generation, config, child, initSeg, prebuffer>>
vars == <<generation, config, child, initSeg, prebuffer, proc, task, made, sub>>

Gens == 1..MaxGen
Fragment == [gen : Gens, num : 1..MaxFrags]

(***************************************************************************)
(* snap: prebuffered fragments still to send; queue: what the channel      *)
(* holds for this receiver; lagged: the channel overwrote an unread one.   *)
(* got and snapLen are history: what was delivered, and how much of the    *)
(* delivery is the snapshot.                                               *)
(***************************************************************************)
Sub == [on      : BOOLEAN,
        init    : 0..MaxGen,
        snap    : Seq(Fragment),
        queue   : {q \in Seq(Fragment) : Len(q) <= LiveCapacity},
        lagged  : BOOLEAN,
        got     : Seq(Fragment),
        snapLen : Nat]

NoSub == [on |-> FALSE, init |-> 0, snap |-> <<>>, queue |-> <<>>,
          lagged |-> FALSE, got |-> <<>>, snapLen |-> 0]

TypeOK ==
  /\ generation \in 0..MaxGen
  /\ config \in Configs \cup {NoConfig}
  /\ child \in 0..MaxGen
  /\ initSeg \in 0..MaxGen
  /\ prebuffer \in Seq(Fragment)
  /\ proc \in [Gens -> {"none", "alive", "exited"}]
  /\ task \in [Gens -> {"none", "reading", "sending", "done"}]
  /\ made \in [Gens -> 0..MaxFrags]
  /\ sub \in [Subs -> Sub]

Init ==
  /\ generation = 0
  /\ config = NoConfig
  /\ child = 0
  /\ initSeg = 0
  /\ prebuffer = <<>>
  /\ proc = [g \in Gens |-> "none"]
  /\ task = [g \in Gens |-> "none"]
  /\ made = [g \in Gens |-> 0]
  /\ sub = [s \in Subs |-> NoSub]

-----------------------------------------------------------------------------
(* The pipeline: start(), stop() and the process.                          *)

\* The early return of start().
NoOpStart(c) == child # 0 /\ config = c

\* child.take() followed by start_kill().
KillChild == [g \in Gens |-> IF g = child THEN "exited" ELSE proc[g]]

ClearBuffers == initSeg' = 0 /\ prebuffer' = <<>>

KeepBuffers == UNCHANGED <<initSeg, prebuffer>>

Start(c) ==
  /\ ~NoOpStart(c)
  /\ generation < MaxGen
  /\ config' = c
  /\ generation' = generation + 1
  /\ ClearBuffers
  /\ \/ /\ child' = generation'
        /\ proc' = [KillChild EXCEPT ![generation'] = "alive"]
        /\ task' = [task EXCEPT ![generation'] = "reading"]
     \/ /\ child' = 0                       \* spawn() failed
        /\ proc' = KillChild
        /\ UNCHANGED task
  /\ UNCHANGED <<made, sub>>

Stop ==
  /\ generation < MaxGen
  /\ generation' = generation + 1
  /\ config' = NoConfig
  /\ child' = 0
  /\ proc' = KillChild
  /\ ClearBuffers
  /\ UNCHANGED <<task, made, sub>>

\* ffmpeg exits by itself: nothing in RecorderState notices.
ProcessExits(g) ==
  /\ proc[g] = "alive"
  /\ proc' = [proc EXCEPT ![g] = "exited"]
  /\ UNCHANGED <<recorderState, task, made, sub>>

-----------------------------------------------------------------------------
(* parse_stream: a fragment is buffered under the lock and published after *)
(* the lock is released.  Bytes the process left in the pipe are still     *)
(* parsed after it has exited.                                             *)

\* Mutant: the generation check is missing.
Superseded_Never(g) == FALSE

Superseded(g) == generation # g

\* The trimming loop: the new fragment is never old, the oldest may be.
Trimmed(fragments) ==
  {SubSeq(fragments, k, Len(fragments)) :
     k \in {i \in 1..Len(fragments) :
              Len(fragments) - i + 1 <= MaxPrebuffer}}

BufferFragment(g) ==
  /\ task[g] = "reading"
  /\ made[g] < MaxFrags
  /\ ~Superseded(g)
  /\ initSeg' = IF initSeg = 0 THEN g ELSE initSeg
  /\ prebuffer' \in Trimmed(Append(prebuffer, [gen |-> g, num |-> made[g] + 1]))
  /\ made' = [made EXCEPT ![g] = @ + 1]
  /\ task' = [task EXCEPT ![g] = "sending"]
  /\ UNCHANGED <<generation, config, child, proc, sub>>

\* A complete fragment of a replaced pipeline: the task returns.
TaskSuperseded(g) ==
  /\ task[g] = "reading"
  /\ Superseded(g)
  /\ task' = [task EXCEPT ![g] = "done"]
  /\ UNCHANGED <<recorderState, proc, made, sub>>

\* read_exact fails at the end of ffmpeg's output, or a box has an impossible
\* size: the task ends with an error, which nothing reacts to.
TaskFails(g) ==
  /\ task[g] = "reading"
  /\ task' = [task EXCEPT ![g] = "done"]
  /\ UNCHANGED <<recorderState, proc, made, sub>>

\* Mutant: a full channel drops its oldest fragment and nobody is told.
Deliver_DropOldest(r, f) ==
  IF ~r.on
    THEN r
    ELSE IF Len(r.queue) = LiveCapacity
           THEN [r EXCEPT !.queue = Append(Tail(@), f)]
           ELSE [r EXCEPT !.queue = Append(@, f)]

\* broadcast::send: a full channel marks its slow receivers as lagged.
Deliver(r, f) ==
  IF ~r.on \/ r.lagged
    THEN r
    ELSE IF Len(r.queue) = LiveCapacity
           THEN [r EXCEPT !.lagged = TRUE]
           ELSE [r EXCEPT !.queue = Append(@, f)]

PublishFragment(g) ==
  /\ task[g] = "sending"
  /\ task' = [task EXCEPT ![g] = "reading"]
  /\ sub' = [s \in Subs |-> Deliver(sub[s], [gen |-> g, num |-> made[g]])]
  /\ UNCHANGED <<recorderState, proc, made>>

-----------------------------------------------------------------------------
(* The recording streams, as far as the recorder serves them.              *)

\* snapshot_and_subscribe: all of it under the lock.
Subscription == [on |-> TRUE, init |-> initSeg, snap |-> prebuffer, queue |-> <<>>,
                 lagged |-> FALSE, got |-> <<>>, snapLen |-> Len(prebuffer)]

\* Without an init segment the stream is closed again.
Subscribe(s) ==
  /\ ~sub[s].on
  /\ initSeg # 0
  /\ sub' = [sub EXCEPT ![s] = Subscription]
  /\ UNCHANGED <<recorderState, proc, task, made>>

\* The prebuffer loop of pump_recording.
SendPrebuffered(s) ==
  /\ sub[s].on
  /\ sub[s].snap # <<>>
  /\ sub' = [sub EXCEPT ![s].snap = Tail(@),
                        ![s].got = Append(@, Head(sub[s].snap))]
  /\ UNCHANGED <<recorderState, proc, task, made>>

\* live.recv() returns a fragment.
Receive(s) ==
  /\ sub[s].on
  /\ sub[s].snap = <<>>
  /\ ~sub[s].lagged
  /\ sub[s].queue # <<>>
  /\ sub' = [sub EXCEPT ![s].queue = Tail(@),
                        ![s].got = Append(@, Head(sub[s].queue))]
  /\ UNCHANGED <<recorderState, proc, task, made>>

\* The stream ends: recv() reports Lagged, or its own reasons (see DataSend).
Unsubscribe(s) ==
  /\ sub[s].on
  /\ sub' = [sub EXCEPT ![s] = NoSub]
  /\ UNCHANGED <<recorderState, proc, task, made>>

Next ==
  \/ \E c \in Configs : Start(c)
  \/ Stop
  \/ \E g \in Gens : \/ ProcessExits(g)
                     \/ BufferFragment(g)
                     \/ TaskSuperseded(g)
                     \/ TaskFails(g)
                     \/ PublishFragment(g)
  \/ \E s \in Subs : \/ Subscribe(s)
                     \/ SendPrebuffered(s)
                     \/ Receive(s)
                     \/ Unsubscribe(s)

Spec == Init /\ [][Next]_vars

-----------------------------------------------------------------------------
(* Properties                                                              *)

\* The prebuffer is a gapless run of fragments of the current generation that
\* ends with the newest one buffered, and the init segment a new stream is
\* given is the one those fragments belong to, whatever older parse tasks are
\* still running (the generation check of parse_stream, the clearing in start
\* and stop).
PrebufferIsCurrent ==
  /\ initSeg \in {0, generation}
  /\ \A i \in 1..Len(prebuffer) :
       prebuffer[i] = [gen |-> generation,
                       num |-> made[generation] - Len(prebuffer) + i]

\* The prebuffer never outgrows its limit, and it has an init segment to
\* decode it with as soon as it holds anything.
PrebufferBounded ==
  /\ Len(prebuffer) <= MaxPrebuffer
  /\ (prebuffer # <<>>) <=> (initSeg # 0)

\* What a stream delivers of one generation is in order and skips nothing:
\* prebuffer and live fragments meet without a gap, although the fragment is
\* buffered and published in two steps, and a receiver that lagged is never
\* resumed.  Only the last prebuffered fragment may come a second time.
DeliveredWithoutGap ==
  \A s \in Subs : \A i, j \in 1..Len(sub[s].got) :
    LET a == sub[s].got[i]
        b == sub[s].got[j]
    IN  (i < j /\ a.gen = b.gen /\ \A k \in i+1..j-1 : sub[s].got[k].gen # a.gen)
          => \/ b.num = a.num + 1
             \/ b.num = a.num /\ i = sub[s].snapLen

\* What a stream has been given, delivered or not, and the places in it of
\* fragments older than its init segment or than a fragment before them.
Given(s) == sub[s].got \o sub[s].snap \o sub[s].queue

Overtaken(s) ==
  {j \in 1..Len(Given(s)) :
     \/ Given(s)[j].gen < sub[s].init
     \/ \E i \in 1..j-1 : Given(s)[j].gen < Given(s)[i].gen}

\* A fragment is published after the lock is released, so a replaced pipeline
\* can reach a stream that has another's init segment or fragments already.
\* It does so with one fragment at most, the one it had buffered before the
\* restart (the generation check of parse_stream).
OneStraggler ==
  \A s \in Subs : \A i, j \in Overtaken(s) :
    Given(s)[i].gen = Given(s)[j].gen => i = j
=============================================================================
