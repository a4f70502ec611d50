---------------------------- MODULE MotionProofs ----------------------------
(***************************************************************************)
(* Type correctness of Motion, AgreeUnlessRaced and FreshUnlessRaced, for  *)
(* any number of events.  Each event moves the generation of its kind once,*)
(* so the generations are bounded by the number of events (GenBounded), no *)
(* two timers of one kind have the same one, and the timer of the last     *)
(* Start has the current one until a Stop moves it (Generations).  As long *)
(* as no timer fires in the middle of something else, one handler is at    *)
(* work at a time, and each of its steps leaves flag, sensors and kinds as *)
(* that handler has them at that place (Undisturbed).                      *)
(***************************************************************************)
EXTENDS Motion, TLAPS

\* The event in hand has not moved the generation.
BeforeGen == mapper.pc \in {"start", "startFlag", "startGen",
                            "stop", "stopRead", "stopFlag", "stopGen"}

GenBounded ==
  /\ \A k \in Kinds : gen[k] <= count
  /\ BeforeGen => \A k \in Kinds : gen[k] < count
  /\ mapper.pc # "idle" => count > 0

IInv == TypeOK /\ GenBounded

-----------------------------------------------------------------------------
LEMMA OtherKind == \A k \in Kinds : Other(k) \in Kinds
BY DEF Kinds, Other

LEMMA Resting == Idle \in Local(MapperSteps) /\ Unset \in Local(TimerSteps)
<1>1. 0 \in 0..MaxEvents /\ "person" \in Kinds
  BY MotionAssumption DEF Kinds
<1>2. "idle" \in MapperSteps /\ "unset" \in TimerSteps
  BY DEF MapperSteps, TimerSteps
<1> QED
  BY <1>1, <1>2 DEF Idle, Unset, Local

LEMMA InitInvariant == Init => IInv
<1> SUFFICES ASSUME Init PROVE IInv
  OBVIOUS
<1>0. 0 \in 0..MaxEvents
  BY MotionAssumption
<1>1. TypeOK
  <2>1. gen \in [Kinds -> 0..MaxEvents] /\ lastStart \in [Kinds -> 0..MaxEvents]
    BY <1>0 DEF Init
  <2>2. timer \in [Events -> Local(TimerSteps)] /\ mapper \in Local(MapperSteps)
    BY Resting DEF Init
  <2>3. active \in [Kinds -> BOOLEAN] /\ sensor \in [Kinds -> BOOLEAN]
    BY DEF Init
  <2>4. count \in 0..MaxEvents /\ motionActive \in BOOLEAN /\ raced \in BOOLEAN
    BY <1>0 DEF Init
  <2> QED
    BY <2>1, <2>2, <2>3, <2>4 DEF TypeOK
<1>2. GenBounded
  BY DEF Init, GenBounded, BeforeGen, Idle
<1> QED
  BY <1>1, <1>2 DEF IInv

\* A step of the event task that leaves the generations alone and does not take
\* the event in hand back to a place before them.
LEMMA HandleKeeps ==
  ASSUME IInv, NEW pc \in MapperSteps, NEW next \in MapperSteps, Handle(pc, next), pc # "idle",
         UNCHANGED gen, next \in {"startFlag", "startGen", "stopRead", "stopFlag", "stopGen"} => BeforeGen,
         next \notin {"start", "stop"}
  PROVE  GenBounded' /\ mapper' \in Local(MapperSteps)
<1>1. mapper' \in Local(MapperSteps) /\ mapper'.pc = next
  BY DEF Handle, IInv, TypeOK, Local
<1>2. GenBounded'
  BY <1>1 DEF Handle, IInv, GenBounded, BeforeGen
<1> QED
  BY <1>1, <1>2

\* The events and what handle() does with them.
LEMMA MapperKeeps == IInv /\ MapperStep => IInv'
<1> SUFFICES ASSUME IInv, MapperStep PROVE IInv'
  OBVIOUS
<1> USE MotionAssumption
<1>0. raced' \in BOOLEAN
  BY DEF MapperStep, MapperRaces, IInv, TypeOK
<1>1. ASSUME NEW k \in Kinds, NEW action \in {"start", "stop"}, Receive(k, action)
      PROVE  IInv'
  <2>1. count' \in 0..MaxEvents /\ count' = count + 1
    BY <1>1 DEF Receive, IInv, TypeOK
  <2>2. mapper' \in Local(MapperSteps)
    <3>1. action \in MapperSteps
      BY DEF MapperSteps
    <3>2. mapper' = [Idle EXCEPT !.pc = action, !.kind = k]
      BY <1>1 DEF Receive
    <3> QED
      BY <3>1, <3>2, Resting DEF Local
  <2>3. lastStart' \in [Kinds -> 0..MaxEvents]
    BY <1>1, <2>1 DEF Receive, IInv, TypeOK
  <2>4. GenBounded'
    BY <1>1, <2>1 DEF Receive, GenBounded, IInv, TypeOK
  <2> QED
    BY <1>0, <1>1, <2>1, <2>2, <2>3, <2>4 DEF Receive, IInv, TypeOK
<1>2. ASSUME NEW v \in BOOLEAN,
             \/ StoreActive("start", "startFlag", v)
             \/ StoreActive("stop", "stopRead", v)
             \/ StoreSensor("startSensor", "startTimer", v)
             \/ StoreSensor("stopSensor", "idle", v)
      PROVE  IInv'
  <2>1. GenBounded' /\ mapper' \in Local(MapperSteps)
    BY <1>2, HandleKeeps DEF StoreActive, StoreSensor, MapperSteps, Handle, BeforeGen
  <2>2. active' \in [Kinds -> BOOLEAN] /\ sensor' \in [Kinds -> BOOLEAN]
    BY <1>2 DEF StoreActive, StoreSensor, IInv, TypeOK
  <2> QED
    BY <1>0, <1>2, <2>1, <2>2 DEF StoreActive, StoreSensor, Handle, IInv, TypeOK
<1>3. CASE StartFlag \/ StopFlag
  <2>1. GenBounded' /\ mapper' \in Local(MapperSteps)
    BY <1>3, HandleKeeps DEF StartFlag, StopFlag, MapperSteps, Handle, BeforeGen
  <2>2. motionActive' \in BOOLEAN
    BY <1>3 DEF StartFlag, StopFlag, IInv, TypeOK, Local
  <2> QED
    BY <1>0, <1>3, <2>1, <2>2 DEF StartFlag, StopFlag, Handle, IInv, TypeOK
<1>4. CASE StartGen \/ StopGen
  <2>1. mapper.kind \in Kinds /\ gen[mapper.kind] < count /\ gen \in [Kinds -> 0..MaxEvents]
    BY <1>4 DEF StartGen, StopGen, Handle, IInv, TypeOK, Local, GenBounded, BeforeGen
  <2>2. gen' = [gen EXCEPT ![mapper.kind] = gen[mapper.kind] + 1] /\ count' = count
    BY <1>4 DEF StartGen, StopGen, NextGen, Handle
  <2>3. gen' \in [Kinds -> 0..MaxEvents] /\ \A k \in Kinds : gen'[k] <= count
    BY <2>1, <2>2 DEF IInv, TypeOK, GenBounded
  <2>4. mapper' \in Local(MapperSteps) /\ mapper'.pc \in {"startSensor", "stopSensor"}
    BY <1>4, <2>1, <2>3 DEF StartGen, StopGen, Handle, IInv, TypeOK, Local, MapperSteps
  <2>5. GenBounded'
    BY <1>4, <2>2, <2>3, <2>4 DEF GenBounded, BeforeGen, IInv, StartGen, StopGen, Handle
  <2> QED
    BY <1>0, <1>4, <2>2, <2>3, <2>4, <2>5 DEF StartGen, StopGen, Handle, IInv, TypeOK
<1>5. CASE StopRead
  <2>1. mapper' \in Local(MapperSteps) /\ mapper'.pc = "stopFlag"
    BY <1>5, OtherKind DEF StopRead, IInv, TypeOK, Local, MapperSteps
  <2>2. GenBounded'
    BY <1>5, <2>1 DEF StopRead, IInv, GenBounded, BeforeGen
  <2> QED
    BY <1>0, <1>5, <2>1, <2>2 DEF StopRead, IInv, TypeOK
<1>6. CASE StartTimer
  <2>1. GenBounded' /\ mapper' \in Local(MapperSteps)
    BY <1>6, HandleKeeps DEF StartTimer, MapperSteps, Handle
  <2>2. [pc |-> "asleep", kind |-> mapper.kind, gen |-> TimerGen, seen |-> FALSE]
          \in Local(TimerSteps)
    BY DEF TimerGen, IInv, TypeOK, Local, TimerSteps
  <2>3. timer' \in [Events -> Local(TimerSteps)]
    BY <1>6, <2>2 DEF StartTimer, IInv, TypeOK
  <2> QED
    BY <1>0, <1>6, <2>1, <2>3 DEF StartTimer, Handle, IInv, TypeOK
<1> QED
  BY <1>1, <1>2, <1>3, <1>4, <1>5, <1>6 DEF MapperStep

LEMMA TimerKeeps == ASSUME IInv, NEW n \in Events, TimerStep(n) PROVE IInv'
<1>1. raced' \in BOOLEAN /\ GenBounded'
  BY DEF TimerStep, TimerRaces, IInv, TypeOK, GenBounded, BeforeGen
<1>2. timer[n] \in Local(TimerSteps) /\ timer[n].kind \in Kinds
  BY DEF IInv, TypeOK, Local
<1>3. \A pc \in TimerSteps, v \in BOOLEAN :
        /\ [timer[n] EXCEPT !.pc = pc] \in Local(TimerSteps)
        /\ [timer[n] EXCEPT !.pc = pc, !.seen = v] \in Local(TimerSteps)
  BY <1>2 DEF Local
<1>4. timer' \in [Events -> Local(TimerSteps)]
  <2>1. OtherActive(timer[n].kind) \in BOOLEAN
    BY <1>2, OtherKind DEF OtherActive, IInv, TypeOK
  <2>2. \E pc \in TimerSteps, v \in BOOLEAN :
          \/ timer' = [timer EXCEPT ![n].pc = pc]
          \/ timer' = [timer EXCEPT ![n].pc = pc, ![n].seen = v]
    BY <2>1 DEF TimerStep, TimerFires, TimerClears, TimerReads, TimerFlag, TimerSensor,
                TimerSteps
  <2>3. PICK r \in Local(TimerSteps) : timer' = [timer EXCEPT ![n] = r]
    BY <1>2, <1>3, <2>2 DEF IInv, TypeOK, Local
  <2> QED
    BY <2>3 DEF IInv, TypeOK
<1>5. /\ active' \in [Kinds -> BOOLEAN]
      /\ motionActive' \in BOOLEAN
      /\ sensor' \in [Kinds -> BOOLEAN]
  BY <1>2 DEF TimerStep, TimerFires, TimerClears, TimerReads, TimerFlag, TimerSensor,
              IInv, TypeOK, Local
<1> QED
  BY <1>1, <1>4, <1>5 DEF TimerStep, IInv, TypeOK

LEMMA StepInvariant == IInv /\ [Next]_vars => IInv'
<1> SUFFICES ASSUME IInv, [Next]_vars PROVE IInv'
  OBVIOUS
<1>1. CASE UNCHANGED vars
  BY <1>1 DEF vars, IInv, TypeOK, GenBounded, BeforeGen
<1> QED
  BY <1>1, MapperKeeps, TimerKeeps DEF Next

\* Flags, generations and timers keep their types for any number of events, and
\* no generation runs ahead of the events (handle).
THEOREM TypeCorrect == Spec => []TypeOK
<1>1. IInv => TypeOK
  BY DEF IInv
<1> QED
  BY <1>1, InitInvariant, StepInvariant, PTL DEF Spec

-----------------------------------------------------------------------------
(* The generations tell the timers of one kind apart, and the timer of the *)
(* last Start is the one that has the current generation.                  *)

Starting == {"start", "startFlag", "startGen", "startSensor", "startTimer"}

\* The Start in hand has moved the generation, and leaves no timer yet.
HasGen == mapper.pc \in {"startSensor", "startTimer"}

\* Timers are of past generations, each of one of its own.
TimersOK ==
  /\ HasGen => mapper.gen = gen[mapper.kind]
  /\ mapper.pc # "idle" => timer[count].pc = "unset"
  /\ \A n \in Events :
       timer[n].pc # "unset" =>
         /\ n <= count
         /\ timer[n].gen <= gen[timer[n].kind]
         /\ HasGen /\ timer[n].kind = mapper.kind => timer[n].gen < mapper.gen
  /\ \A m, n \in Events :
       /\ timer[m].pc # "unset" /\ timer[n].pc # "unset"
       /\ timer[m].kind = timer[n].kind /\ timer[m].gen = timer[n].gen
       => m = n

\* The timer of the last Start has the current generation.
LastOK ==
  \A k \in Kinds :
    /\ mapper.pc # "idle" /\ mapper.kind = k =>
         lastStart[k] = IF mapper.pc \in Starting THEN count ELSE 0
    /\ ~(mapper.pc # "idle" /\ mapper.kind = k) /\ lastStart[k] # 0 =>
         /\ lastStart[k] <= count
         /\ timer[lastStart[k]].pc # "unset"
         /\ timer[lastStart[k]].kind = k
         /\ timer[lastStart[k]].gen = gen[k]

Generations == TimersOK /\ LastOK

\* The types of what the generations are about.
LEMMA Numbers ==
  ASSUME IInv
  PROVE  /\ count \in Nat /\ count <= MaxEvents
         /\ mapper.pc # "idle" => count \in Events
         /\ \A k \in Kinds : gen[k] \in Nat /\ lastStart[k] \in Nat /\ lastStart[k] <= MaxEvents
         /\ \A n \in Events : timer[n].gen \in Nat /\ timer[n].kind \in Kinds
         /\ mapper.kind \in Kinds /\ mapper.gen \in Nat
<1> USE MotionAssumption
<1>1. count \in 0..MaxEvents /\ (mapper.pc # "idle" => count > 0)
  BY DEF IInv, TypeOK, GenBounded
<1>2. \A k \in Kinds : gen[k] \in 0..MaxEvents /\ lastStart[k] \in 0..MaxEvents
  BY DEF IInv, TypeOK
<1>3. mapper.kind \in Kinds /\ mapper.gen \in 0..MaxEvents
  BY DEF IInv, TypeOK, Local
<1>4. \A n \in Events : timer[n].gen \in 0..MaxEvents /\ timer[n].kind \in Kinds
  BY DEF IInv, TypeOK, Local
<1> QED
  BY <1>1, <1>2, <1>3, <1>4 DEF Events

LEMMA InitGenerations == Init => Generations
BY DEF Init, Generations, TimersOK, LastOK, HasGen, Idle, Unset

\* An event of k: its timer is not set yet, and none that is of k is the last.
LEMMA ReceiveGenerations ==
  ASSUME IInv, Generations, NEW k \in Kinds, NEW action \in {"start", "stop"}, Receive(k, action)
  PROVE  Generations'
<1>1. /\ mapper.pc = "idle" /\ mapper'.pc = action /\ mapper'.kind = k
      /\ count' = count + 1 /\ count' \in Events /\ UNCHANGED <<gen, timer>>
      /\ lastStart' = [lastStart EXCEPT ![k] = IF action = "start" THEN count' ELSE 0]
  <2>1. count \in Nat /\ count < MaxEvents /\ MaxEvents \in Nat
    BY MotionAssumption, Numbers DEF Receive
  <2> QED
    BY <2>1 DEF Receive, Idle, Events
<1>2. timer[count'].pc = "unset"
  BY <1>1, Numbers DEF Generations, TimersOK
<1>3. TimersOK'
  BY <1>1, <1>2, Numbers DEF Generations, TimersOK, HasGen
<1>4. lastStart \in [Kinds -> 0..MaxEvents]
  BY DEF IInv, TypeOK
<1>5. LastOK'
  <2>1. lastStart'[k] = IF mapper'.pc \in Starting THEN count' ELSE 0
    BY <1>1, <1>4 DEF Starting
  <2>2. ASSUME NEW j \in Kinds, j # k, lastStart'[j] # 0
        PROVE  /\ lastStart'[j] <= count'
               /\ timer'[lastStart'[j]].pc # "unset"
               /\ timer'[lastStart'[j]].kind = j
               /\ timer'[lastStart'[j]].gen = gen'[j]
    BY <1>1, <1>4, <2>2, Numbers DEF Generations, LastOK
  <2> QED
    BY <1>1, <2>1, <2>2 DEF LastOK
<1> QED
  BY <1>3, <1>5 DEF Generations

\* A step of handle() that neither moves a generation nor leaves a timer.
LEMMA HandleGenerations ==
  ASSUME IInv, Generations, UNCHANGED <<gen, timer, count, lastStart>>, mapper.pc # "idle",
         mapper'.kind = mapper.kind, mapper'.gen = mapper.gen,
         HasGen' => HasGen, mapper'.pc \in Starting <=> mapper.pc \in Starting
  PROVE  Generations'
<1>1. TimersOK'
  BY DEF Generations, TimersOK, HasGen
<1>2. LastOK'
  BY DEF Generations, LastOK, Starting
<1> QED
  BY <1>1, <1>2 DEF Generations

\* The generation moves: no timer has the new one.
LEMMA NextGenerations ==
  ASSUME IInv, Generations, StartGen \/ StopGen
  PROVE  Generations'
<1> DEFINE k == mapper.kind
<1>1. /\ gen' = [gen EXCEPT ![k] = gen[k] + 1] /\ UNCHANGED <<timer, count, lastStart>>
      /\ mapper.pc # "idle" /\ mapper'.pc # "idle" /\ mapper'.kind = k
      /\ mapper'.pc \in Starting <=> mapper.pc \in Starting
      /\ HasGen' => mapper'.gen = gen'[k]
  <2>1. mapper \in Local(MapperSteps) /\ k \in Kinds
    BY Numbers DEF IInv, TypeOK
  <2> QED
    BY <2>1 DEF StartGen, StopGen, Handle, NextGen, Local, Starting, HasGen
<1>2. gen \in [Kinds -> 0..MaxEvents] /\ k \in Kinds /\ gen[k] \in Nat
  BY Numbers DEF IInv, TypeOK
<1>3. gen'[k] = gen[k] + 1 /\ \A j \in Kinds \ {k} : gen'[j] = gen[j]
  BY <1>1, <1>2
<1>4. \A n \in Events : timer[n].pc # "unset" =>
        /\ timer[n].gen <= gen'[timer[n].kind]
        /\ timer[n].kind = k => timer[n].gen < gen'[k]
  BY <1>2, <1>3, Numbers DEF Generations, TimersOK
<1>5. TimersOK'
  BY <1>1, <1>4 DEF Generations, TimersOK
<1>6. LastOK'
  BY <1>1, <1>3 DEF Generations, LastOK
<1> QED
  BY <1>5, <1>6 DEF Generations

\* The Start in hand leaves its timer.
LEMMA StartGenerations ==
  ASSUME IInv, Generations, StartTimer
  PROVE  Generations'
<1> DEFINE k == mapper.kind
           r == [pc |-> "asleep", kind |-> k, gen |-> mapper.gen, seen |-> FALSE]
<1>1. /\ mapper.pc = "startTimer" /\ mapper'.pc = "idle"
      /\ timer' = [timer EXCEPT ![count] = r] /\ UNCHANGED <<gen, count, lastStart>>
  BY DEF StartTimer, Handle, TimerGen, IInv, TypeOK, Local
<1>2. count \in Events /\ k \in Kinds /\ timer[count].pc = "unset" /\ mapper.gen = gen[k]
  BY <1>1, Numbers DEF Generations, TimersOK, HasGen
<1>3. timer'[count] = r /\ \A n \in Events \ {count} : timer'[n] = timer[n]
  BY <1>1, <1>2 DEF IInv, TypeOK
<1>4. r.pc # "unset" /\ r.kind = k /\ r.gen = gen[k]
  BY <1>2
<1> HIDE DEF r
<1>5. TimersOK'
  <2>1. ASSUME NEW n \in Events, timer'[n].pc # "unset"
        PROVE  n <= count /\ timer'[n].gen <= gen[timer'[n].kind]
    BY <1>2, <1>3, <1>4, <2>1, Numbers DEF Generations, TimersOK
  <2>2. ASSUME NEW n \in Events, n # count, timer[n].pc # "unset", timer[n].kind = k
        PROVE  timer[n].gen # r.gen
    BY <1>1, <1>2, <1>4, <2>2, Numbers DEF Generations, TimersOK, HasGen
  <2>3. ASSUME NEW m \in Events, NEW n \in Events,
               timer'[m].pc # "unset", timer'[n].pc # "unset",
               timer'[m].kind = timer'[n].kind, timer'[m].gen = timer'[n].gen
        PROVE  m = n
    BY <1>3, <1>4, <2>2, <2>3 DEF Generations, TimersOK
  <2> QED
    BY <1>1, <2>1, <2>3 DEF TimersOK, HasGen
<1>6. LastOK'
  <2>1. lastStart[k] = count
    BY <1>1, <1>2 DEF Generations, LastOK, Starting
  <2>2. ASSUME NEW j \in Kinds, j # k, lastStart[j] # 0
        PROVE  /\ lastStart[j] <= count
               /\ timer'[lastStart[j]].pc # "unset"
               /\ timer'[lastStart[j]].kind = j
               /\ timer'[lastStart[j]].gen = gen[j]
    <3>1. lastStart[j] \in Events
      BY <2>2, Numbers, MotionAssumption DEF Events
    <3>2. lastStart[j] # count
      BY <1>1, <1>2, <2>2 DEF Generations, LastOK
    <3> QED
      BY <1>1, <1>3, <2>2, <3>1, <3>2 DEF Generations, LastOK
  <2>3. count <= count
    BY Numbers
  <2> QED
    BY <1>1, <1>3, <1>4, <2>1, <2>2, <2>3 DEF LastOK
<1> QED
  BY <1>5, <1>6 DEF Generations

\* What a step of a timer does to the timers.
LEMMA TimerChange ==
  ASSUME IInv, NEW n \in Events, TimerStep(n)
  PROVE  /\ timer[n].pc # "unset" /\ timer'[n].pc \notin {"unset", "asleep"}
         /\ timer'[n].kind = timer[n].kind /\ timer'[n].gen = timer[n].gen
         /\ \A m \in Events \ {n} : timer'[m] = timer[m]
<1>1. timer \in [Events -> Local(TimerSteps)] /\ timer[n] \in Local(TimerSteps)
  BY DEF IInv, TypeOK
<1>2. timer[n].pc # "unset"
  BY DEF TimerStep, TimerFires, TimerClears, TimerReads, TimerFlag, TimerSensor
<1>3. timer[n].seen \in BOOLEAN /\ OtherActive(timer[n].kind) \in BOOLEAN
  BY <1>1, OtherKind DEF OtherActive, IInv, TypeOK, Local
<1>4. PICK pc \in TimerSteps \ {"unset", "asleep"}, v \in BOOLEAN :
        \/ timer' = [timer EXCEPT ![n].pc = pc]
        \/ timer' = [timer EXCEPT ![n].pc = pc, ![n].seen = v]
  BY <1>3 DEF TimerStep, TimerFires, TimerClears, TimerReads, TimerFlag, TimerSensor, TimerSteps
<1> QED
  BY <1>1, <1>2, <1>4 DEF Local

LEMMA TimerGenerations ==
  ASSUME IInv, Generations, NEW n \in Events, TimerStep(n)
  PROVE  Generations'
<1>1. UNCHANGED <<gen, mapper, count, lastStart>>
  BY DEF TimerStep
<1>2. \A m \in Events : /\ timer'[m].pc = "unset" <=> timer[m].pc = "unset"
                        /\ timer'[m].kind = timer[m].kind /\ timer'[m].gen = timer[m].gen
  BY TimerChange
<1>3. TimersOK'
  BY <1>1, <1>2, Numbers DEF Generations, TimersOK, HasGen
<1>4. \A k \in Kinds : lastStart[k] # 0 => lastStart[k] \in Events
  BY Numbers, MotionAssumption DEF Events
<1>5. LastOK'
  BY <1>1, <1>2, <1>4 DEF Generations, LastOK
<1> QED
  BY <1>3, <1>5 DEF Generations

LEMMA MapperGenerations == ASSUME IInv, Generations, MapperStep PROVE Generations'
<1>1. mapper \in Local(MapperSteps)
  BY DEF IInv, TypeOK
<1>2. ASSUME NEW v \in BOOLEAN,
             \/ StoreActive("start", "startFlag", v) \/ StartFlag
             \/ StoreSensor("startSensor", "startTimer", v)
             \/ StoreActive("stop", "stopRead", v) \/ StopRead \/ StopFlag
             \/ StoreSensor("stopSensor", "idle", v)
      PROVE  Generations'
  BY <1>1, <1>2, HandleGenerations DEF StoreActive, StoreSensor, StartFlag, StopRead, StopFlag, Handle,
                                       HasGen, Starting, Local
<1> QED
  BY <1>2, ReceiveGenerations, NextGenerations, StartGenerations DEF MapperStep

LEMMA StepGenerations == IInv /\ Generations /\ [Next]_vars => Generations'
<1> SUFFICES ASSUME IInv, Generations, [Next]_vars PROVE Generations'
  OBVIOUS
<1>1. CASE UNCHANGED vars
  BY <1>1 DEF vars, Generations, TimersOK, LastOK, HasGen
<1> QED
  BY <1>1, MapperGenerations, TimerGenerations DEF Next

-----------------------------------------------------------------------------
(* What holds as long as no timer fires in the middle of something else:   *)
(* one task at a time is part way, and where it is says what agrees.       *)

\* The flag is that of the kinds; k aside, so are the sensors.
FlagOK == motionActive = AnyActive
SensorOK(k) == sensor[Other(k)] = active[Other(k)]

\* Nothing fires in the middle of something else.
Alone ==
  /\ \A n \in Events : PartWay(n) => mapper.pc = "idle"
  /\ \A m, n \in Events : PartWay(m) /\ PartWay(n) => m = n

\* handle(), k being the kind of the event in hand.
MapperPhase ==
  LET k == mapper.kind IN
  /\ mapper.pc \in {"start", "stop"} => FlagOK /\ sensor = active
  /\ mapper.pc \in {"startFlag", "startGen", "startSensor", "startTimer"} =>
       active[k] /\ SensorOK(k)
  /\ mapper.pc \in {"startGen", "startSensor", "startTimer"} => motionActive
  /\ mapper.pc = "startTimer" => sensor = active
  /\ mapper.pc \in {"stopRead", "stopFlag", "stopGen", "stopSensor"} =>
       ~active[k] /\ SensorOK(k)
  /\ mapper.pc = "stopFlag" => mapper.seen = AnyActive
  /\ mapper.pc \in {"stopGen", "stopSensor"} => FlagOK

\* A timer that fires is of the last Start of its kind, if that one left any.
TimerPhase(n) ==
  LET k == timer[n].kind IN
  /\ PartWay(n) => ~Fresh(k)
  /\ timer[n].pc = "clear" => FlagOK /\ sensor = active
  /\ timer[n].pc \in {"read", "flag", "sensor"} => ~active[k] /\ SensorOK(k)
  /\ timer[n].pc = "flag" => timer[n].seen = AnyActive
  /\ timer[n].pc = "sensor" => FlagOK

FreshActive == \A k \in Kinds : Fresh(k) => active[k]

Undisturbed ==
  /\ Alone
  /\ Quiet => FlagOK /\ sensor = active
  /\ MapperPhase
  /\ \A n \in Events : TimerPhase(n)
  /\ FreshActive

\* The invariant of AgreeUnlessRaced and FreshUnlessRaced.
Phases == ~raced => Undisturbed

LEMMA TwoKinds ==
  ASSUME NEW k \in Kinds
  PROVE  Other(k) \in Kinds /\ Other(k) # k /\ \A j \in Kinds : j = k \/ j = Other(k)
BY DEF Kinds, Other

LEMMA SameFlags ==
  ASSUME NEW k \in Kinds, NEW s \in [Kinds -> BOOLEAN], NEW a \in [Kinds -> BOOLEAN],
         s[k] = a[k], s[Other(k)] = a[Other(k)]
  PROVE  s = a
<1>1. \A j \in Kinds : s[j] = a[j]
  BY TwoKinds
<1> QED
  BY <1>1

LEMMA InitPhases == Init => Phases
<1> SUFFICES ASSUME Init PROVE Undisturbed
  BY DEF Phases
<1>1. /\ mapper.pc = "idle" /\ active = [k \in Kinds |-> FALSE] /\ sensor = active
      /\ ~motionActive /\ motionActive = FALSE /\ \A k \in Kinds : lastStart[k] = 0 /\ ~active[k]
      /\ \A n \in Events : timer[n].pc = "unset"
  BY DEF Init, Idle, Unset
<1> QED
  BY <1>1 DEF Undisturbed, Alone, PartWay, MapperPhase, TimerPhase, FreshActive, Fresh,
              FlagOK, AnyActive

\* While the event task is at work no timer is part way, before its step and after.
LEMMA MapperAlone ==
  ASSUME IInv, Generations, Phases, MapperStep, ~raced'
  PROVE  /\ ~raced /\ Undisturbed
         /\ \A n \in Events : ~PartWay(n) /\ ~PartWay(n)'
         /\ Alone' /\ \A n \in Events : TimerPhase(n)'
<1>1. ~raced /\ \A n \in Events : ~PartWay(n)
  BY DEF MapperStep, MapperRaces
<1>2. \A n \in Events : timer'[n] = timer[n] \/ timer'[n].pc = "asleep"
  <2>1. CASE StartTimer
    BY <2>1 DEF StartTimer, IInv, TypeOK
  <2>2. CASE UNCHANGED timer
    BY <2>2
  <2> QED
    BY <2>1, <2>2 DEF MapperStep, Receive, StoreActive, StoreSensor, StartFlag, StartGen,
                      StopRead, StopFlag, StopGen
<1>3. \A n \in Events : ~PartWay(n)'
  BY <1>1, <1>2 DEF PartWay
<1> QED
  BY <1>1, <1>3 DEF Phases, Alone, TimerPhase, PartWay

\* An event arrives when nothing is in progress; its kind has no fresh timer.
LEMMA ReceivePhases ==
  ASSUME IInv, Generations, Generations', Undisturbed, \A n \in Events : ~PartWay(n),
         NEW k \in Kinds, NEW action \in {"start", "stop"}, Receive(k, action)
  PROVE  (Quiet => FlagOK /\ sensor = active)' /\ MapperPhase' /\ FreshActive'
<1>1. /\ mapper.pc = "idle" /\ mapper'.pc = action /\ mapper'.kind = k
      /\ UNCHANGED <<active, sensor, motionActive, timer>>
      /\ lastStart' = [lastStart EXCEPT ![k] = IF action = "start" THEN count' ELSE 0]
  BY DEF Receive, Idle
<1>2. FlagOK /\ sensor = active
  BY <1>1 DEF Undisturbed, Quiet
<1>3. (Quiet => FlagOK /\ sensor = active)' /\ MapperPhase'
  BY <1>1, <1>2 DEF Quiet, MapperPhase, FlagOK, AnyActive
<1>4. lastStart \in [Kinds -> 0..MaxEvents]
  BY DEF IInv, TypeOK
<1>5. timer'[count'].pc = "unset"
  BY <1>1 DEF Generations, TimersOK
<1>6. \A j \in Kinds : Fresh(j)' => Fresh(j)
  BY <1>1, <1>4, <1>5 DEF Fresh
<1> QED
  BY <1>1, <1>3, <1>6 DEF Undisturbed, FreshActive

\* What handle() does with the event in hand.
LEMMA HandlePhases ==
  ASSUME IInv, Generations, Undisturbed, \A n \in Events : ~PartWay(n), MapperStep,
         mapper.pc # "idle"
  PROVE  (Quiet => FlagOK /\ sensor = active)' /\ MapperPhase' /\ FreshActive'
<1> DEFINE k == mapper.kind
           o == Other(mapper.kind)
<1>1. /\ mapper \in Local(MapperSteps) /\ active \in [Kinds -> BOOLEAN]
      /\ sensor \in [Kinds -> BOOLEAN] /\ motionActive \in BOOLEAN
      /\ timer \in [Events -> Local(TimerSteps)]
  BY DEF IInv, TypeOK
<1>2. k \in Kinds /\ o \in Kinds /\ o # k
  BY <1>1, TwoKinds DEF Local
<1>3. AnyActive <=> active[k] \/ active[o]
  BY <1>2, TwoKinds DEF AnyActive
<1>4. AnyActive' <=> active'[k] \/ active'[o]
  BY <1>2, TwoKinds DEF AnyActive
<1>5. MapperPhase /\ FreshActive
  BY DEF Undisturbed
<1>6. ~Fresh(k)
  BY <1>2 DEF Generations, TimersOK, LastOK, Fresh
<1>7. \A j \in Kinds : Fresh(j) => j # k /\ active[j]
  BY <1>5, <1>6 DEF FreshActive
<1>8. mapper.kind \in Kinds /\ mapper.seen \in BOOLEAN
  BY <1>1 DEF Local
<1>9. CASE StoreActive("start", "startFlag", TRUE) \/ StoreActive("stop", "stopRead", FALSE)
  <2>1. PICK v \in BOOLEAN :
          /\ active' = [active EXCEPT ![k] = v] /\ UNCHANGED <<sensor, timer, lastStart>>
          /\ mapper.pc \in {"start", "stop"}
          /\ mapper'.pc = IF v THEN "startFlag" ELSE "stopRead"
          /\ mapper'.kind = k
    BY <1>1, <1>9 DEF StoreActive, Handle, Local
  <2>2. sensor = active
    BY <1>5, <2>1 DEF MapperPhase
  <2>3. active'[k] = v /\ \A j \in Kinds \ {k} : active'[j] = active[j]
    BY <1>1, <1>2, <2>1
  <2>4. sensor'[o] = active'[o]
    BY <1>2, <2>1, <2>2, <2>3
  <2>5. MapperPhase' /\ ~Quiet'
    BY <2>1, <2>3, <2>4 DEF MapperPhase, SensorOK, Quiet
  <2>6. FreshActive'
    BY <1>7, <2>1, <2>3 DEF FreshActive, Fresh
  <2> QED
    BY <2>5, <2>6
<1>10. CASE StartFlag \/ StopFlag \/ StopRead \/ StartGen \/ StopGen
  <2>1. UNCHANGED <<active, sensor, timer, lastStart>> /\ mapper'.kind = k
    BY <1>1, <1>10 DEF StartFlag, StopFlag, StopRead, StartGen, StopGen, Handle, Local
  <2>2. FreshActive' /\ AnyActive' = AnyActive
    BY <1>7, <2>1 DEF FreshActive, Fresh, AnyActive
  <2>3. mapper'.pc # "idle"
    BY <1>1, <1>10 DEF StartFlag, StopFlag, StopRead, StartGen, StopGen, Handle, Local
  <2>4. CASE StartFlag
    <3>1. mapper.pc = "startFlag" /\ mapper'.pc = "startGen" /\ motionActive' = TRUE
      BY <1>1, <2>4 DEF StartFlag, Handle, Local
    <3> QED
      BY <1>5, <2>1, <2>2, <2>3, <3>1 DEF MapperPhase, SensorOK, Quiet
  <2>5. CASE StartGen
    <3>1. mapper.pc = "startGen" /\ mapper'.pc = "startSensor" /\ motionActive' = motionActive
      BY <1>1, <2>5 DEF StartGen, Local
    <3> QED
      BY <1>5, <2>1, <2>2, <2>3, <3>1 DEF MapperPhase, SensorOK, Quiet
  <2>6. CASE StopRead
    <3>1. mapper.pc = "stopRead" /\ mapper'.pc = "stopFlag" /\ mapper'.seen = active[o]
      BY <1>1, <2>6 DEF StopRead, Local
    <3>2. ~active[k] /\ SensorOK(k)
      BY <1>5, <3>1 DEF MapperPhase
    <3>3. mapper'.seen = AnyActive'
      BY <1>1, <1>2, <1>3, <2>2, <3>1, <3>2 DEF AnyActive
    <3> QED
      BY <2>1, <2>2, <2>3, <3>1, <3>2, <3>3 DEF MapperPhase, SensorOK, Quiet
  <2>7. CASE StopFlag
    <3>1. mapper.pc = "stopFlag" /\ mapper'.pc = "stopGen" /\ motionActive' = mapper.seen
      BY <1>1, <2>7 DEF StopFlag, Handle, Local
    <3>2. ~active[k] /\ SensorOK(k) /\ mapper.seen = AnyActive
      BY <1>5, <3>1 DEF MapperPhase
    <3>3. FlagOK'
      BY <2>2, <3>1, <3>2 DEF FlagOK
    <3> QED
      BY <2>1, <2>2, <2>3, <3>1, <3>2, <3>3 DEF MapperPhase, SensorOK, Quiet
  <2>8. CASE StopGen
    <3>1. mapper.pc = "stopGen" /\ mapper'.pc = "stopSensor" /\ motionActive' = motionActive
      BY <1>1, <2>8 DEF StopGen, Handle, Local
    <3>2. ~active[k] /\ SensorOK(k) /\ FlagOK
      BY <1>5, <3>1 DEF MapperPhase
    <3>3. FlagOK'
      BY <2>2, <3>1, <3>2 DEF FlagOK
    <3> QED
      BY <2>1, <2>2, <2>3, <3>1, <3>2, <3>3 DEF MapperPhase, SensorOK, Quiet
  <2> QED
    BY <1>10, <2>4, <2>5, <2>6, <2>7, <2>8
<1>11. CASE StoreSensor("startSensor", "startTimer", TRUE) \/ StoreSensor("stopSensor", "idle", FALSE)
  <2>1. PICK v \in BOOLEAN :
          /\ sensor' = [sensor EXCEPT ![k] = v]
          /\ UNCHANGED <<active, motionActive, timer, lastStart>>
          /\ mapper.pc = IF v THEN "startSensor" ELSE "stopSensor"
          /\ mapper'.pc = IF v THEN "startTimer" ELSE "idle"
          /\ mapper'.kind = k
    BY <1>1, <1>11 DEF StoreSensor, Handle, Local
  <2>2. active[k] = v /\ SensorOK(k) /\ FlagOK
    BY <1>1, <1>2, <1>3, <1>5, <2>1 DEF MapperPhase, FlagOK, AnyActive
  <2>3. sensor'[k] = v /\ sensor'[o] = active'[o] /\ active'[k] = v
    BY <1>1, <1>2, <2>1, <2>2 DEF SensorOK
  <2>4. sensor' \in [Kinds -> BOOLEAN] /\ active' \in [Kinds -> BOOLEAN]
    BY <1>1, <2>1
  <2>5. sensor' = active'
    BY <1>2, <2>3, <2>4, SameFlags
  <2>6. FlagOK' /\ FreshActive'
    BY <1>7, <2>1, <2>2 DEF FlagOK, AnyActive, FreshActive, Fresh
  <2>7. MapperPhase'
    BY <1>5, <2>1, <2>3, <2>5 DEF MapperPhase, SensorOK
  <2> QED
    BY <2>5, <2>6, <2>7
<1>12. CASE StartTimer
  <2>1. /\ UNCHANGED <<active, sensor, motionActive, lastStart>> /\ mapper.pc = "startTimer"
        /\ mapper'.pc = "idle" /\ \A n \in Events \ {count} : timer'[n] = timer[n]
    BY <1>1, <1>12 DEF StartTimer, Handle, Local
  <2>2. active[k] /\ sensor = active /\ motionActive
    BY <1>5, <2>1 DEF MapperPhase
  <2>3. FlagOK' /\ sensor' = active'
    BY <1>1, <1>3, <2>1, <2>2 DEF FlagOK, AnyActive
  <2>4. MapperPhase'
    BY <2>1 DEF MapperPhase
  <2>5. ASSUME NEW j \in Kinds, Fresh(j)' PROVE active'[j]
    <3>1. CASE j = k
      BY <2>1, <2>2, <3>1
    <3>2. CASE j # k
      <4>1. lastStart[j] \in Events /\ lastStart[j] # count
        BY <2>1, <2>5, <3>2, Numbers, MotionAssumption
           DEF Generations, TimersOK, LastOK, Fresh, Events
      <4> QED
        BY <1>7, <2>1, <2>5, <4>1 DEF Fresh
    <3> QED
      BY <3>1, <3>2
  <2> QED
    BY <2>3, <2>4, <2>5 DEF FreshActive
<1>13. ~\E j \in Kinds, action \in {"start", "stop"} : Receive(j, action)
  BY DEF Receive
<1> QED
  BY <1>9, <1>10, <1>11, <1>12, <1>13 DEF MapperStep

LEMMA MapperPhases == ASSUME IInv, Generations, Phases, MapperStep PROVE Phases'
<1> SUFFICES ASSUME ~raced' PROVE Undisturbed'
  BY DEF Phases
<1>1. Undisturbed /\ (\A n \in Events : ~PartWay(n)) /\ Alone' /\ \A n \in Events : TimerPhase(n)'
  BY MapperAlone
<1>2. Generations'
  BY MapperGenerations
<1>3. (Quiet => FlagOK /\ sensor = active)' /\ MapperPhase' /\ FreshActive'
  <2>1. CASE mapper.pc # "idle"
    BY <1>1, <2>1, HandlePhases
  <2>2. CASE mapper.pc = "idle"
    <3>1. PICK k \in Kinds, action \in {"start", "stop"} : Receive(k, action)
      BY <2>2 DEF MapperStep, StoreActive, StoreSensor, StartFlag, StartGen, StartTimer, StopRead,
                  StopFlag, StopGen, Handle
    <3> QED
      BY <1>1, <1>2, <3>1, ReceivePhases
  <2> QED
    BY <2>1, <2>2
<1> QED
  BY <1>1, <1>3 DEF Undisturbed

\* A timer at work is the only task part way; it fires only for the last Start of its
\* kind, which is not fresh any more, and clears that kind alone.
LEMMA TimerPhases ==
  ASSUME IInv, Generations, Phases, NEW n \in Events, TimerStep(n)
  PROVE  Phases'
<1> SUFFICES ASSUME ~raced' PROVE Undisturbed'
  BY DEF Phases
<1> DEFINE k == timer[n].kind
           o == Other(timer[n].kind)
<1>1. /\ Undisturbed /\ mapper.pc = "idle" /\ \A m \in Events \ {n} : ~PartWay(m)
      /\ UNCHANGED <<gen, mapper, count, lastStart>>
  BY DEF TimerStep, TimerRaces, Phases
<1>2. /\ timer[n].pc # "unset" /\ timer'[n].pc \notin {"unset", "asleep"}
      /\ timer'[n].kind = k /\ \A m \in Events \ {n} : timer'[m] = timer[m]
  BY TimerChange
<1>3. /\ active \in [Kinds -> BOOLEAN] /\ sensor \in [Kinds -> BOOLEAN] /\ motionActive \in BOOLEAN
      /\ timer \in [Events -> Local(TimerSteps)] /\ timer[n] \in Local(TimerSteps)
  BY DEF IInv, TypeOK
<1>4. k \in Kinds /\ o \in Kinds /\ o # k
  BY <1>3, TwoKinds DEF Local
<1>5. (AnyActive <=> active[k] \/ active[o]) /\ (AnyActive' <=> active'[k] \/ active'[o])
  BY <1>4, TwoKinds DEF AnyActive
<1>6. \A m \in Events \ {n} : ~PartWay(m)'
  BY <1>1, <1>2 DEF PartWay
<1>7. Alone' /\ MapperPhase' /\ \A m \in Events \ {n} : TimerPhase(m)'
  BY <1>1, <1>6 DEF Alone, MapperPhase, TimerPhase, PartWay
<1>8. \A j \in Kinds : Fresh(j)' => Fresh(j)
  <2>1. \A j \in Kinds : lastStart[j] # 0 => lastStart[j] \in Events
    BY Numbers, MotionAssumption DEF Events
  <2> QED
    BY <1>1, <1>2, <2>1 DEF Fresh
<1>9. \A j \in Kinds : Fresh(j) => active[j]
  BY <1>1 DEF Undisturbed, FreshActive
<1>10. TimerPhase(n)
  BY <1>1 DEF Undisturbed
<1>11. SUFFICES /\ (Quiet => FlagOK /\ sensor = active)'
                /\ TimerPhase(n)'
                /\ FreshActive'
  BY <1>7, <1>11 DEF Undisturbed
<1>12. CASE TimerFires(n)
  <2>1. /\ timer[n].pc = "asleep" /\ UNCHANGED <<active, motionActive, sensor>>
        /\ timer'[n].pc = IF gen[k] = timer[n].gen THEN "clear" ELSE "done"
    BY <1>3, <1>12 DEF TimerFires, Local
  <2>2. FlagOK /\ sensor = active
    BY <1>1, <2>1 DEF Undisturbed, Quiet, PartWay
  <2>3. FlagOK' /\ sensor' = active'
    BY <2>1, <2>2 DEF FlagOK, AnyActive
  <2>4. FreshActive'
    BY <1>8, <1>9, <2>1 DEF FreshActive
  <2>5. ASSUME gen[k] = timer[n].gen PROVE ~Fresh(k)'
    <3>1. CASE lastStart[k] = 0
      BY <1>1, <1>2, <3>1 DEF Fresh
    <3>2. CASE lastStart[k] # 0
      <4>1. lastStart[k] \in Events
        BY <1>4, <3>2, Numbers, MotionAssumption DEF Events
      <4>2. lastStart[k] = n
        <5>1. /\ timer[lastStart[k]].pc # "unset" /\ timer[lastStart[k]].kind = k
              /\ timer[lastStart[k]].gen = gen[k]
          BY <1>1, <1>4, <3>2 DEF Generations, LastOK
        <5> QED
          BY <1>2, <2>5, <4>1, <5>1 DEF Generations, TimersOK
      <4> QED
        BY <1>1, <1>2, <4>2 DEF Fresh
    <3> QED
      BY <3>1, <3>2
  <2>6. TimerPhase(n)'
    BY <1>2, <2>1, <2>3, <2>5 DEF TimerPhase, PartWay
  <2> QED
    BY <2>3, <2>4, <2>6
<1>13. CASE TimerClears(n)
  <2>1. /\ timer[n].pc = "clear" /\ timer'[n].pc = "read" /\ UNCHANGED <<motionActive, sensor>>
        /\ active' = [active EXCEPT ![k] = FALSE]
    BY <1>3, <1>13 DEF TimerClears, Local
  <2>2. sensor = active /\ ~Fresh(k)
    BY <1>10, <2>1 DEF TimerPhase, PartWay
  <2>3. ~active'[k] /\ \A j \in Kinds \ {k} : active'[j] = active[j]
    BY <1>3, <1>4, <2>1
  <2>4. FreshActive'
    BY <1>8, <1>9, <2>2, <2>3 DEF FreshActive
  <2>5. sensor'[o] = active'[o]
    BY <1>4, <2>1, <2>2, <2>3
  <2>6. TimerPhase(n)' /\ ~Quiet'
    BY <1>2, <1>4, <1>8, <2>1, <2>2, <2>3, <2>5 DEF TimerPhase, SensorOK, Quiet, PartWay
  <2> QED
    BY <2>4, <2>6
<1>14. CASE TimerReads(n)
  <2>1. /\ timer[n].pc = "read" /\ timer'[n].pc = "flag" /\ timer'[n].seen = active[o]
        /\ UNCHANGED <<active, motionActive, sensor>>
    BY <1>3, <1>14 DEF TimerReads, OtherActive, Local
  <2>2. ~active[k] /\ SensorOK(k) /\ ~Fresh(k)
    BY <1>10, <2>1 DEF TimerPhase, PartWay
  <2>3. timer'[n].seen = AnyActive'
    BY <1>3, <1>4, <1>5, <2>1, <2>2 DEF AnyActive
  <2>4. FreshActive'
    BY <1>8, <1>9, <2>1 DEF FreshActive
  <2>5. TimerPhase(n)' /\ ~Quiet'
    BY <1>2, <1>4, <1>8, <2>1, <2>2, <2>3 DEF TimerPhase, SensorOK, Quiet, PartWay
  <2> QED
    BY <2>4, <2>5
<1>15. CASE TimerFlag(n)
  <2>1. /\ timer[n].pc = "flag" /\ timer'[n].pc = "sensor" /\ motionActive' = timer[n].seen
        /\ UNCHANGED <<active, sensor>>
    BY <1>3, <1>15 DEF TimerFlag, Local
  <2>2. ~active[k] /\ SensorOK(k) /\ ~Fresh(k) /\ timer[n].seen = AnyActive
    BY <1>10, <2>1 DEF TimerPhase, PartWay
  <2>3. FlagOK'
    BY <2>1, <2>2 DEF FlagOK, AnyActive
  <2>4. FreshActive'
    BY <1>8, <1>9, <2>1 DEF FreshActive
  <2>5. TimerPhase(n)' /\ ~Quiet'
    BY <1>2, <1>4, <1>8, <2>1, <2>2, <2>3 DEF TimerPhase, SensorOK, Quiet, PartWay
  <2> QED
    BY <2>4, <2>5
<1>16. CASE TimerSensor(n)
  <2>1. /\ timer[n].pc = "sensor" /\ timer'[n].pc = "done"
        /\ sensor' = [sensor EXCEPT ![k] = FALSE] /\ UNCHANGED <<active, motionActive>>
    BY <1>3, <1>16 DEF TimerSensor, Local
  <2>2. ~active[k] /\ SensorOK(k) /\ FlagOK
    BY <1>10, <2>1 DEF TimerPhase
  <2>3. sensor'[k] = active'[k] /\ sensor'[o] = active'[o]
    BY <1>3, <1>4, <2>1, <2>2 DEF SensorOK
  <2>4. sensor' \in [Kinds -> BOOLEAN] /\ active' \in [Kinds -> BOOLEAN]
    BY <1>3, <2>1
  <2>5. sensor' = active'
    BY <1>4, <2>3, <2>4, SameFlags
  <2>6. FlagOK' /\ FreshActive'
    BY <1>8, <1>9, <2>1, <2>2 DEF FlagOK, AnyActive, FreshActive
  <2>7. TimerPhase(n)'
    BY <2>1 DEF TimerPhase, PartWay
  <2> QED
    BY <2>5, <2>6, <2>7
<1> QED
  BY <1>12, <1>13, <1>14, <1>15, <1>16 DEF TimerStep

LEMMA StepPhases == IInv /\ Generations /\ Phases /\ [Next]_vars => Phases'
<1> SUFFICES ASSUME IInv, Generations, Phases, [Next]_vars PROVE Phases'
  OBVIOUS
<1>1. CASE UNCHANGED vars
  BY <1>1 DEF vars, Phases, Undisturbed, Alone, MapperPhase, TimerPhase, FreshActive, Fresh,
              FlagOK, SensorOK, AnyActive, Quiet, PartWay
<1> QED
  BY <1>1, MapperPhases, TimerPhases DEF Next

LEMMA PhasesHold == Spec => []Phases
BY InitInvariant, StepInvariant, InitGenerations, StepGenerations, InitPhases, StepPhases, PTL
   DEF Spec

\* The flag, the sensors and the kinds agree whenever nothing is in progress, for any
\* number of events, as long as no timer fired in the middle of something else: a Stop
\* or a timeout of one kind never hides motion of the other (handle).
THEOREM FlagsAgree == Spec => []AgreeUnlessRaced
<1>1. Phases => AgreeUnlessRaced
  BY DEF Phases, Undisturbed, FlagOK, AgreeUnlessRaced
<1> QED
  BY <1>1, PhasesHold, PTL

\* And a timer of an older Start never clears a newer one, for any number of events: the
\* generations of two timers of one kind are not equal (handle, MOTION_TIMEOUT).
THEOREM NewerStays == Spec => []FreshUnlessRaced
<1>1. Phases => FreshUnlessRaced
  BY DEF Phases, Undisturbed, FreshActive, FreshUnlessRaced
<1> QED
  BY <1>1, PhasesHold, PTL
=============================================================================
