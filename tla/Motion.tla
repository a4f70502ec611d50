------------------------------- MODULE Motion -------------------------------
(***************************************************************************)
(* src/motion.rs: camera events drive one motion sensor per kind of object *)
(* and the shared "any motion" flag of the recording streams.  One task    *)
(* handles the events in turn; every Start also leaves a timer task that   *)
(* clears the sensor when no event followed.  The flags are atomics, so    *)
(* each load and each store is a step of its own.                          *)
(*                                                                         *)
(* Which events arrive is open: the camera's are lost while the event      *)
(* stream reconnects or when the channel lags, so any sequence may come.   *)
(***************************************************************************)
EXTENDS Integers

CONSTANTS MaxEvents      \* bound: events handled

ASSUME MotionAssumption == MaxEvents \in Nat

Kinds == {"person", "vehicle"}
Other(k) == CHOOSE j \in Kinds : j # k
Events == 1..MaxEvents

VARIABLES gen,           \* person_gen, vehicle_gen
          active,        \* person_active, vehicle_active
          motionActive,  \* motion_active
          sensor,        \* the MotionDetected characteristics
          mapper,        \* the event task: the event in hand and its step
          timer,         \* the timer task left by the n-th event
          count,         \* events received
          lastStart,     \* history: the event that is the last Start, 0 after a Stop
          raced          \* history: a timer was part way through at some other step

vars == <<gen, active, motionActive, sensor, mapper, timer, count, lastStart, raced>>

Idle == [pc |-> "idle", kind |-> "person", gen |-> 0, seen |-> FALSE]
Unset == [pc |-> "unset", kind |-> "person", gen |-> 0, seen |-> FALSE]

MapperSteps == {"idle", "start", "startFlag", "startGen", "startSensor", "startTimer",
                "stop", "stopRead", "stopFlag", "stopGen", "stopSensor"}
TimerSteps == {"unset", "asleep", "clear", "read", "flag", "sensor", "done"}

Local(steps) == [pc : steps, kind : Kinds, gen : 0..MaxEvents, seen : BOOLEAN]

TypeOK ==
  /\ gen \in [Kinds -> 0..MaxEvents]
  /\ active \in [Kinds -> BOOLEAN]
  /\ motionActive \in BOOLEAN
  /\ sensor \in [Kinds -> BOOLEAN]
  /\ mapper \in Local(MapperSteps)
  /\ timer \in [Events -> Local(TimerSteps)]
  /\ count \in 0..MaxEvents
  /\ lastStart \in [Kinds -> 0..MaxEvents]
  /\ raced \in BOOLEAN

Init ==
  /\ gen = [k \in Kinds |-> 0]
  /\ active = [k \in Kinds |-> FALSE]
  /\ motionActive = FALSE
  /\ sensor = [k \in Kinds |-> FALSE]
  /\ mapper = Idle
  /\ timer = [n \in Events |-> Unset]
  /\ count = 0
  /\ lastStart = [k \in Kinds |-> 0]
  /\ raced = FALSE

PartWay(n) == timer[n].pc \in {"clear", "read", "flag", "sensor"}

\* A step of the event task races with every timer that is part way through.
MapperRaces == raced' = (raced \/ \E n \in Events : PartWay(n))

\* So does a step of a timer, with the event task and the other timers.
TimerRaces(n) ==
  raced' = (raced \/ mapper.pc # "idle" \/ \E m \in Events \ {n} : PartWay(m))

-----------------------------------------------------------------------------
(* The event task: run() and handle().                                     *)

Receive(k, action) ==
  /\ mapper.pc = "idle"
  /\ count < MaxEvents
  /\ count' = count + 1
  /\ mapper' = [Idle EXCEPT !.pc = action, !.kind = k]
  /\ lastStart' = [lastStart EXCEPT ![k] = IF action = "start" THEN count' ELSE 0]
  /\ UNCHANGED <<gen, active, motionActive, sensor, timer>>

\* One step of handle(): from pc to next, with the stores of the step.
Handle(pc, next) ==
  /\ mapper.pc = pc
  /\ mapper' = [mapper EXCEPT !.pc = next]
  /\ UNCHANGED <<count, lastStart>>

StoreActive(pc, next, value) ==
  /\ Handle(pc, next)
  /\ active' = [active EXCEPT ![mapper.kind] = value]
  /\ UNCHANGED <<gen, motionActive, sensor, timer>>

StartFlag ==
  /\ Handle("startFlag", "startGen")
  /\ motionActive' = TRUE
  /\ UNCHANGED <<gen, active, sensor, timer>>

\* Mutant: a Start leaves the generation alone.
NextGen_StopOnly(g) == IF mapper.pc = "startGen" THEN g ELSE g + 1

NextGen(g) == g + 1

\* generation_at_start is the value after the increment.
StartGen ==
  /\ mapper.pc = "startGen"
  /\ gen' = [gen EXCEPT ![mapper.kind] = NextGen(@)]
  /\ mapper' = [mapper EXCEPT !.pc = "startSensor", !.gen = gen'[mapper.kind]]
  /\ UNCHANGED <<active, motionActive, sensor, timer, count, lastStart>>

StopRead ==
  /\ mapper.pc = "stopRead"
  /\ mapper' = [mapper EXCEPT !.pc = "stopFlag", !.seen = active[Other(mapper.kind)]]
  /\ UNCHANGED <<gen, active, motionActive, sensor, timer, count, lastStart>>

StopFlag ==
  /\ Handle("stopFlag", "stopGen")
  /\ motionActive' = mapper.seen
  /\ UNCHANGED <<gen, active, sensor, timer>>

StopGen ==
  /\ Handle("stopGen", "stopSensor")
  /\ gen' = [gen EXCEPT ![mapper.kind] = NextGen(@)]
  /\ UNCHANGED <<active, motionActive, sensor, timer>>

StoreSensor(pc, next, value) ==
  /\ Handle(pc, next)
  /\ sensor' = [sensor EXCEPT ![mapper.kind] = value]
  /\ UNCHANGED <<gen, active, motionActive, timer>>

\* Mutant: the timer compares with the generation before the increment.
TimerGen_Early == mapper.gen - 1

TimerGen == mapper.gen

StartTimer ==
  /\ Handle("startTimer", "idle")
  /\ timer' = [timer EXCEPT ![count] =
                 [pc |-> "asleep", kind |-> mapper.kind, gen |-> TimerGen, seen |-> FALSE]]
  /\ UNCHANGED <<gen, active, motionActive, sensor>>

MapperStep ==
  /\ \/ \E k \in Kinds, action \in {"start", "stop"} : Receive(k, action)
     \/ StoreActive("start", "startFlag", TRUE)
     \/ StartFlag
     \/ StartGen
     \/ StoreSensor("startSensor", "startTimer", TRUE)
     \/ StartTimer
     \/ StoreActive("stop", "stopRead", FALSE)
     \/ StopRead
     \/ StopFlag
     \/ StopGen
     \/ StoreSensor("stopSensor", "idle", FALSE)
  /\ MapperRaces

-----------------------------------------------------------------------------
(* The timer tasks.                                                        *)

\* MOTION_TIMEOUT has passed: the generation decides.
TimerFires(n) ==
  /\ timer[n].pc = "asleep"
  /\ timer' = [timer EXCEPT ![n].pc =
                 IF gen[timer[n].kind] = timer[n].gen THEN "clear" ELSE "done"]
  /\ UNCHANGED <<active, motionActive, sensor>>

TimerClears(n) ==
  /\ timer[n].pc = "clear"
  /\ active' = [active EXCEPT ![timer[n].kind] = FALSE]
  /\ timer' = [timer EXCEPT ![n].pc = "read"]
  /\ UNCHANGED <<motionActive, sensor>>

\* Mutant: the timer ignores the other kind.
OtherActive_Ignored(k) == FALSE

\* other_active, as the timer sees it.
OtherActive(k) == active[Other(k)]

TimerReads(n) ==
  /\ timer[n].pc = "read"
  /\ timer' = [timer EXCEPT ![n].pc = "flag", ![n].seen = OtherActive(timer[n].kind)]
  /\ UNCHANGED <<active, motionActive, sensor>>

TimerFlag(n) ==
  /\ timer[n].pc = "flag"
  /\ motionActive' = timer[n].seen
  /\ timer' = [timer EXCEPT ![n].pc = "sensor"]
  /\ UNCHANGED <<active, sensor>>

TimerSensor(n) ==
  /\ timer[n].pc = "sensor"
  /\ sensor' = [sensor EXCEPT ![timer[n].kind] = FALSE]
  /\ timer' = [timer EXCEPT ![n].pc = "done"]
  /\ UNCHANGED <<active, motionActive>>

TimerStep(n) ==
  /\ \/ TimerFires(n)
     \/ TimerClears(n)
     \/ TimerReads(n)
     \/ TimerFlag(n)
     \/ TimerSensor(n)
  /\ TimerRaces(n)
  /\ UNCHANGED <<gen, mapper, count, lastStart>>

Next == MapperStep \/ \E n \in Events : TimerStep(n)

Spec == Init /\ [][Next]_vars

\* Both kinds of task are scheduled and sleep() ends; events need not come.
FairSpec ==
  /\ Spec
  /\ WF_vars(MapperStep /\ mapper.pc # "idle")
  /\ \A n \in Events : WF_vars(TimerStep(n))

-----------------------------------------------------------------------------
(* Properties                                                              *)

Quiet == mapper.pc = "idle" /\ \A n \in Events : ~PartWay(n)

AnyActive == \E k \in Kinds : active[k]

\* The last Start of k is younger than MOTION_TIMEOUT.
Fresh(k) == lastStart[k] # 0 /\ timer[lastStart[k]].pc = "asleep"

\* As long as no timer fired in the middle of something else: the flag, the
\* sensors and the per-kind state agree whenever nothing is in progress, so a
\* Stop or a timeout of one kind never hides motion of the other.
AgreeUnlessRaced ==
  ~raced /\ Quiet => /\ motionActive = AnyActive
                     /\ sensor = active

\* And a timer of an older Start never clears a newer one: that is what the
\* generations are for.
FreshUnlessRaced ==
  ~raced /\ Quiet => \A k \in Kinds : Fresh(k) => sensor[k]

\* However events are lost and however the tasks race, no sensor stays on:
\* the safety net clears it when the events stop coming.
SensorsCleared == \A k \in Kinds : [](sensor[k] => <>~sensor[k])
=============================================================================
