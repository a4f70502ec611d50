-------------------------- MODULE HsvControlProofs --------------------------
(***************************************************************************)
(* Type correctness of HsvControl, CameraFollowsSelected and AloneSettles, *)
(* for every set of configurations and of spawned handlers.                *)
(***************************************************************************)
EXTENDS HsvControl, TLAPS

Steps == {"idle", "stop", "apply", "select", "persist", "truncate", "fill",
          "decide", "clone", "sync"}

\* What every lemma below uses of a state: the types but for the tasks'.
RestOK ==
  /\ flags \in Flags
  /\ selected \in Selected
  /\ file \in Persisted \cup {Unreadable}
  /\ recorder \in Recording \cup {Stopped}
  /\ encoder \in {Encoder(c) : c \in Configs} \cup {Factory}
  /\ writes \in 0..MaxWrites
  /\ crashes \in 0..MaxCrashes
  /\ alone \in BOOLEAN
  /\ applied \in BOOLEAN
  /\ saved \in BOOLEAN

\* An inline handler on its way to the camera knows the configuration to apply.
HasConfig ==
  task["inline"].pc \in {"stop", "apply", "select"} => task["inline"].config \in Configs

IInv == RestOK /\ task \in [Tasks -> Task] /\ HasConfig

LEMMA NoTaskType == NoTask \in Task /\ NoTask.pc = "idle"
<1>1. Defaults \in Flags
  BY DEF Defaults, Flags
<1>2. [flags |-> Defaults, selected |-> NoConfig] \in Persisted
  BY <1>1 DEF Persisted, Selected
<1> QED
  BY <1>2 DEF NoTask, Task, Selected

LEMMA InitInvariant == Init => IInv
<1> SUFFICES ASSUME Init PROVE IInv
  OBVIOUS
<1> USE HsvControlAssumption
<1>1. Defaults \in Flags
  BY DEF Defaults, Flags
<1>2. writes \in 0..MaxWrites /\ crashes \in 0..MaxCrashes
  BY DEF Init
<1>3. RestOK
  BY <1>1, <1>2 DEF Init, RestOK, Selected
<1>4. task \in [Tasks -> Task] /\ HasConfig
  BY NoTaskType DEF Init, HasConfig, Tasks
<1> QED
  BY <1>3, <1>4 DEF IInv

\* The write counts, and the history stays Boolean.
LEMMA BeginKeeps ==
  ASSUME IInv, NEW t, NEW pc, NEW syncs \in BOOLEAN, Begin(t, pc, syncs), flags' \in Flags
  PROVE  RestOK'
<1>1. writes' \in 0..MaxWrites
  BY HsvControlAssumption DEF Begin, IInv, RestOK
<1>2. alone' = IF AllIdle THEN alone \/ syncs ELSE FALSE
  BY DEF Begin
<1>3. alone' \in BOOLEAN
  BY <1>2 DEF IInv, RestOK
<1> QED
  BY <1>1, <1>3 DEF Begin, IInv, RestOK

LEMMA InlineKeeps == IInv /\ InlineStep => IInv'
<1> SUFFICES ASSUME IInv, InlineStep PROVE IInv'
  OBVIOUS
<1> USE HsvControlAssumption
<1>0. "inline" \in Tasks /\ task["inline"] \in Task
  BY DEF IInv, Tasks
<1>1. ASSUME NEW value \in BOOLEAN, WriteRecordingActive(value) \/ WriteAudioActive(value)
      PROVE  IInv'
  <2>1. Begin("inline", "persist", TRUE) /\ flags' \in Flags
    BY <1>1 DEF WriteRecordingActive, WriteAudioActive, IInv, RestOK, Flags
  <2>2. task' = [task EXCEPT !["inline"] = [NoTask EXCEPT !.pc = "persist", !.syncs = TRUE]]
    BY <2>1 DEF Begin
  <2>3. [NoTask EXCEPT !.pc = "persist", !.syncs = TRUE] \in Task
    BY NoTaskType DEF Task
  <2>4. task' \in [Tasks -> Task] /\ HasConfig'
    BY <1>0, <2>2, <2>3, NoTaskType DEF IInv, HasConfig, Task
  <2>5. RestOK'
    BY <2>1, BeginKeeps
  <2> QED
    BY <2>4, <2>5 DEF IInv
<1>2. ASSUME NEW c \in Configs, WriteSelected(c) PROVE IInv'
  <2>1. [NoTask EXCEPT !.pc = "stop", !.syncs = TRUE, !.config = c] \in Task
    BY NoTaskType DEF Task, Selected
  <2>2. task' \in [Tasks -> Task] /\ HasConfig'
    BY <1>0, <1>2, <2>1, NoTaskType DEF WriteSelected, IInv, HasConfig, Task
  <2>3. alone' \in BOOLEAN /\ writes' \in 0..MaxWrites
    BY <1>2 DEF WriteSelected, AllIdle, IInv, RestOK
  <2>4. RestOK'
    BY <1>2, <2>3 DEF WriteSelected, IInv, RestOK
  <2> QED
    BY <2>2, <2>4 DEF IInv
<1>3. ASSUME NEW pc \in Steps, task' = [task EXCEPT !["inline"].pc = pc]
      PROVE  task' \in [Tasks -> Task] /\ task'["inline"].config = task["inline"].config
               /\ task'["inline"].pc = pc
  BY <1>0, <1>3 DEF IInv, Task, Steps
<1>4. CASE StopForSelected
  <2>1. PICK pc \in {"select", "apply"} : task' = [task EXCEPT !["inline"].pc = pc]
    BY <1>4 DEF StopForSelected
  <2>2. task' \in [Tasks -> Task] /\ HasConfig'
    BY <1>3, <1>4, <2>1 DEF StopForSelected, HasConfig, IInv, Steps
  <2> QED
    BY <1>4, <2>2 DEF StopForSelected, IInv, RestOK
<1>5. CASE ApplyCamera
  <2>1. PICK pc \in {"select", "decide"} : task' = [task EXCEPT !["inline"].pc = pc]
    BY <1>5 DEF ApplyCamera
  <2>2. task["inline"].config \in Configs
    BY <1>5 DEF ApplyCamera, IInv, HasConfig
  <2>3. task' \in [Tasks -> Task] /\ HasConfig'
    BY <1>3, <2>1, <2>2 DEF HasConfig, Steps
  <2>4. encoder' \in {Encoder(c) : c \in Configs} \cup {Factory} /\ applied' \in BOOLEAN
    BY <1>5, <2>2 DEF ApplyCamera, IInv, RestOK
  <2> QED
    BY <1>5, <2>3, <2>4 DEF ApplyCamera, IInv, RestOK
<1>6. CASE StoreSelected
  <2>1. task' \in [Tasks -> Task] /\ HasConfig'
    BY <1>3, <1>6 DEF StoreSelected, HasConfig, Steps
  <2>2. selected' \in Selected
    BY <1>0, <1>6 DEF StoreSelected, Task
  <2> QED
    BY <1>6, <2>1, <2>2 DEF StoreSelected, IInv, RestOK
<1> QED
  BY <1>1, <1>2, <1>4, <1>5, <1>6 DEF InlineStep

\* A write handled by a spawned task.
LEMMA SpawnedKeeps ==
  ASSUME IInv, NEW t \in Spawned, NEW value \in BOOLEAN,
         WriteHomekitActive(t, value) \/ WriteSnapshotsActive(t, value)
  PROVE  IInv'
<1> USE HsvControlAssumption
<1>1. flags' \in Flags
  BY DEF WriteHomekitActive, WriteSnapshotsActive, IInv, RestOK, Flags
<1>2. PICK syncs \in BOOLEAN : Begin(t, "persist", syncs)
  BY DEF WriteHomekitActive, WriteSnapshotsActive
<1>3. [NoTask EXCEPT !.pc = "persist", !.syncs = syncs] \in Task
  BY NoTaskType DEF Task
<1>4. task' \in [Tasks -> Task] /\ HasConfig'
  <2>1. task' \in [Tasks -> Task]
    BY <1>2, <1>3 DEF Begin, IInv
  <2>2. task'["inline"].pc = "idle"
    BY <1>2 DEF Begin, IInv, Tasks
  <2> QED
    BY <2>1, <2>2 DEF HasConfig
<1>5. RestOK'
  BY <1>1, <1>2, BeginKeeps
<1> QED
  BY <1>4, <1>5 DEF IInv

\* persist() and sync_recorder(), of any handler.
LEMMA TaskKeeps == ASSUME IInv, NEW t \in Tasks, TaskStep(t) PROVE IInv'
<1> USE HsvControlAssumption
<1>1. task[t] \in Task /\ task \in [Tasks -> Task]
  BY DEF IInv
<1>2. ASSUME NEW r \in Task, task' = [task EXCEPT ![t] = r],
             r.pc \notin {"stop", "apply", "select"}
      PROVE  task' \in [Tasks -> Task] /\ HasConfig'
  BY <1>1, <1>2 DEF IInv, HasConfig, Tasks
<1>3. CASE PersistRead(t)
  <2>1. [flags |-> flags, selected |-> selected] \in Persisted
    BY DEF IInv, RestOK, Persisted
  <2>2. [task[t] EXCEPT !.pc = "truncate", !.snap = [flags |-> flags, selected |-> selected]]
          \in Task
    BY <1>1, <2>1 DEF Task
  <2>3. task' \in [Tasks -> Task] /\ HasConfig'
    BY <1>1, <1>2, <1>3, <2>2 DEF PersistRead, Task
  <2> QED
    BY <1>3, <2>3 DEF PersistRead, IInv, RestOK
<1>4. CASE PersistTruncate(t)
  <2>1. [task[t] EXCEPT !.pc = "fill"] \in Task
    BY <1>1 DEF Task
  <2>2. task' \in [Tasks -> Task] /\ HasConfig'
    BY <1>1, <1>2, <1>4, <2>1 DEF PersistTruncate, Task
  <2> QED
    BY <1>4, <2>2 DEF PersistTruncate, IInv, RestOK
<1>5. CASE PersistFill(t)
  <2>1. [task[t] EXCEPT !.pc = AfterPersist(t)] \in Task
    BY <1>1 DEF Task, AfterPersist
  <2>2. task' \in [Tasks -> Task] /\ HasConfig'
    BY <1>1, <1>2, <1>5, <2>1 DEF PersistFill, AfterPersist, Task
  <2>3. file' \in Persisted \cup {Unreadable}
    BY <1>1, <1>5 DEF PersistFill, Filled, Task
  <2> QED
    BY <1>5, <2>2, <2>3 DEF PersistFill, IInv, RestOK
<1>6. CASE SyncDecide(t)
  <2>1. [task[t] EXCEPT !.pc = "clone", !.active = Active] \in Task
    BY <1>1 DEF Task, Active, IInv, RestOK, Flags
  <2>2. task' \in [Tasks -> Task] /\ HasConfig'
    BY <1>1, <1>2, <1>6, <2>1 DEF SyncDecide, Task
  <2> QED
    BY <1>6, <2>2 DEF SyncDecide, IInv, RestOK
<1>7. CASE SyncClone(t)
  <2>1. [task[t] EXCEPT !.pc = "sync", !.want = selected, !.audio = flags.audio] \in Task
    BY <1>1 DEF Task, IInv, RestOK, Flags
  <2>2. task' \in [Tasks -> Task] /\ HasConfig'
    BY <1>1, <1>2, <1>7, <2>1 DEF SyncClone, Task
  <2> QED
    BY <1>7, <2>2 DEF SyncClone, IInv, RestOK
<1>8. CASE SyncApply(t)
  <2>1. task' \in [Tasks -> Task] /\ HasConfig'
    BY <1>2, <1>8, NoTaskType DEF SyncApply
  <2>2. recorder' \in Recording \cup {Stopped}
    BY <1>1, <1>8 DEF SyncApply, StartWith, Recording, Task, Selected
  <2> QED
    BY <1>8, <2>1, <2>2 DEF SyncApply, IInv, RestOK
<1>9. CASE PersistFails(t)
  <2>1. [task[t] EXCEPT !.pc = AfterPersist(t)] \in Task
    BY <1>1 DEF Task, AfterPersist
  <2>2. task' \in [Tasks -> Task] /\ HasConfig'
    BY <1>1, <1>2, <1>9, <2>1 DEF PersistFails, AfterPersist, Task
  <2>3. file' \in Persisted \cup {Unreadable}
    BY <1>9 DEF PersistFails, IInv, RestOK
  <2> QED
    BY <1>9, <2>2, <2>3 DEF PersistFails, IInv, RestOK
<1> QED
  BY <1>3, <1>4, <1>5, <1>6, <1>7, <1>8, <1>9 DEF TaskStep

\* Whatever the file holds, load() makes settings of it.
LEMMA CrashKeeps == IInv /\ CrashAndRestart => IInv'
<1> SUFFICES ASSUME IInv, CrashAndRestart PROVE IInv'
  OBVIOUS
<1> USE HsvControlAssumption
<1>1. Load(file) \in Persisted
  BY DEF IInv, RestOK, Load, Persisted, Defaults, Flags, Selected
<1>2. flags' \in Flags /\ selected' \in Selected
  BY <1>1 DEF CrashAndRestart, Persisted
<1>3. crashes' \in 0..MaxCrashes
  BY DEF CrashAndRestart, IInv, RestOK
<1>4. RestOK'
  BY <1>2, <1>3 DEF CrashAndRestart, IInv, RestOK
<1> DEFINE first == IF Load(file).selected = NoConfig THEN "decide" ELSE "apply"
           begun == [NoTask EXCEPT !.pc = first, !.config = Load(file).selected]
<1>5. task' = [t \in Tasks |-> IF t = "inline" THEN begun ELSE NoTask]
  BY DEF CrashAndRestart
<1>6. Load(file).selected \in Selected
  BY <1>1 DEF Persisted
<1>7. begun \in Task /\ begun.pc = first /\ begun.config = Load(file).selected
  BY <1>6, NoTaskType DEF Task
<1>8. task' \in [Tasks -> Task] /\ task'["inline"] = begun
  <2> HIDE DEF begun
  <2> QED
    BY <1>5, <1>7, NoTaskType DEF Tasks
<1>9. HasConfig'
  BY <1>6, <1>7, <1>8 DEF HasConfig, Selected
<1> QED
  BY <1>4, <1>8, <1>9 DEF IInv

LEMMA StepInvariant == IInv /\ [Next]_vars => IInv'
<1> SUFFICES ASSUME IInv, [Next]_vars PROVE IInv'
  OBVIOUS
<1>1. CASE UNCHANGED vars
  BY <1>1 DEF vars, IInv, RestOK, HasConfig
<1> QED
  BY <1>1, InlineKeeps, SpawnedKeeps, TaskKeeps, CrashKeeps DEF Next

\* Settings, file, recorder, camera and handlers keep their types for any set of
\* configurations and any number of spawned handlers; in particular an unreadable
\* hsv.json never leaves a setting without a value (HsvState::load, persist).
THEOREM TypeCorrect == Spec => []TypeOK
<1>1. IInv => TypeOK
  BY DEF IInv, RestOK, TypeOK
<1> QED
  BY <1>1, InitInvariant, StepInvariant, PTL DEF Spec

-----------------------------------------------------------------------------
(* The encoder of the camera follows the selection: not while the inline   *)
(* handler applies a configuration, and ahead of it once that is done.     *)

Follows ==
  /\ /\ task["inline"].pc \notin {"apply", "select"}
     /\ selected # NoConfig
     /\ applied
     => encoder = Encoder(selected)
  /\ task["inline"].pc = "select" /\ applied => encoder = Encoder(task["inline"].config)

LEMMA InitFollows == Init => Follows
BY DEF Init, Follows, NoTask, Tasks

LEMMA InlineFollows == IInv /\ Follows /\ InlineStep => Follows'
<1> SUFFICES ASSUME IInv, Follows, InlineStep PROVE Follows'
  OBVIOUS
<1>0. "inline" \in Tasks /\ task["inline"] \in Task /\ task \in [Tasks -> Task]
  BY DEF IInv, Tasks
<1>1. ASSUME NEW value \in BOOLEAN, WriteRecordingActive(value) \/ WriteAudioActive(value)
      PROVE  Follows'
  <2>1. Begin("inline", "persist", TRUE)
    BY <1>1 DEF WriteRecordingActive, WriteAudioActive
  <2>2. [NoTask EXCEPT !.pc = "persist", !.syncs = TRUE].pc = "persist"
    BY NoTaskType DEF Task
  <2>3. task["inline"].pc = "idle" /\ task'["inline"].pc = "persist"
    BY <1>0, <2>1, <2>2 DEF Begin
  <2>4. UNCHANGED <<selected, encoder, applied>>
    BY <2>1 DEF Begin
  <2> QED
    BY <2>3, <2>4 DEF Follows
<1>2. ASSUME NEW c \in Configs, WriteSelected(c) PROVE Follows'
  <2>1. task["inline"].pc = "idle" /\ task'["inline"].pc = "stop"
    BY <1>0, <1>2, NoTaskType DEF WriteSelected, Task
  <2> QED
    BY <1>2, <2>1 DEF WriteSelected, Follows
<1>3. CASE StopForSelected
  <2>1. task'["inline"].config = task["inline"].config
    BY <1>0, <1>3 DEF StopForSelected, Task
  <2>2. task'["inline"].pc = IF SameEncoder(selected, task["inline"].config)
                               THEN "select" ELSE "apply"
    BY <1>0, <1>3 DEF StopForSelected, Task
  <2> QED
    BY <1>3, <2>1, <2>2 DEF StopForSelected, SameEncoder, Follows
<1>4. CASE ApplyCamera
  <2>1. task'["inline"].config = task["inline"].config
    BY <1>0, <1>4 DEF ApplyCamera, Task
  <2>2. task'["inline"].pc = IF selected = task["inline"].config THEN "decide" ELSE "select"
    BY <1>0, <1>4 DEF ApplyCamera, Task
  <2> QED
    BY <1>4, <2>1, <2>2 DEF ApplyCamera, Follows
<1>5. CASE StoreSelected
  <2>1. task'["inline"].pc = "persist"
    BY <1>0, <1>5 DEF StoreSelected, Task
  <2> QED
    BY <1>5, <2>1 DEF StoreSelected, Follows
<1> QED
  BY <1>1, <1>2, <1>3, <1>4, <1>5 DEF InlineStep

\* Every other step but a restart leaves the camera and the selection alone, and
\* the inline handler away from both.
LEMMA OthersFollow ==
  ASSUME IInv, Follows,
         \/ \E t \in Spawned, value \in BOOLEAN :
              WriteHomekitActive(t, value) \/ WriteSnapshotsActive(t, value)
         \/ \E t \in Tasks : TaskStep(t)
  PROVE  Follows'
<1>0. "inline" \in Tasks /\ task \in [Tasks -> Task] /\ task["inline"] \in Task
  BY DEF IInv, Tasks
<1>1. UNCHANGED <<selected, encoder, applied>>
  BY DEF WriteHomekitActive, WriteSnapshotsActive, Begin, TaskStep, PersistRead,
         PersistTruncate, PersistFill, PersistFails, SyncDecide, SyncClone, SyncApply
<1>2. \/ task'["inline"] = task["inline"]
      \/ /\ task["inline"].pc \notin {"apply", "select"}
         /\ task'["inline"].pc \notin {"apply", "select"}
  <2>1. CASE \E t \in Spawned, value \in BOOLEAN :
               WriteHomekitActive(t, value) \/ WriteSnapshotsActive(t, value)
    BY <1>0, <2>1, HsvControlAssumption DEF WriteHomekitActive, WriteSnapshotsActive, Begin
  <2>2. ASSUME NEW t \in Tasks, TaskStep(t), t # "inline"
        PROVE  task'["inline"] = task["inline"]
    BY <1>0, <2>2 DEF TaskStep, PersistRead, PersistTruncate, PersistFill, PersistFails,
                      SyncDecide, SyncClone, SyncApply
  <2>3. ASSUME TaskStep("inline")
        PROVE  /\ task["inline"].pc \notin {"apply", "select"}
               /\ task'["inline"].pc \notin {"apply", "select"}
    <3>1. task["inline"].pc \in {"persist", "truncate", "fill", "decide", "clone", "sync"}
      BY <2>3 DEF TaskStep, PersistRead, PersistTruncate, PersistFill, PersistFails,
                  SyncDecide, SyncClone, SyncApply
    <3>2. CASE PersistRead("inline")
      BY <1>0, <3>1, <3>2 DEF PersistRead, Task
    <3>3. CASE PersistTruncate("inline") \/ PersistFill("inline")
      BY <1>0, <3>1, <3>3 DEF PersistTruncate, PersistFill, AfterPersist, Task
    <3>7. CASE PersistFails("inline")
      BY <1>0, <3>1, <3>7 DEF PersistFails, AfterPersist, Task
    <3>4. CASE SyncDecide("inline")
      BY <1>0, <3>1, <3>4 DEF SyncDecide, Task
    <3>5. CASE SyncClone("inline")
      BY <1>0, <3>1, <3>5 DEF SyncClone, Task
    <3>6. CASE SyncApply("inline")
      BY <1>0, <3>1, <3>6, NoTaskType DEF SyncApply
    <3> QED
      BY <2>3, <3>2, <3>3, <3>4, <3>5, <3>6, <3>7 DEF TaskStep
  <2> QED
    BY <2>1, <2>2, <2>3
<1> QED
  BY <1>1, <1>2 DEF Follows

\* A restart applies the loaded configuration before anything else.
LEMMA CrashFollows == IInv /\ Follows /\ CrashAndRestart => Follows'
<1> SUFFICES ASSUME IInv, CrashAndRestart PROVE Follows'
  OBVIOUS
<1> DEFINE first == IF Load(file).selected = NoConfig THEN "decide" ELSE "apply"
           begun == [NoTask EXCEPT !.pc = first, !.config = Load(file).selected]
<1>1. task' = [t \in Tasks |-> IF t = "inline" THEN begun ELSE NoTask]
  BY DEF CrashAndRestart
<1>2. begun.pc = first
  BY NoTaskType DEF Task
<1>3. task'["inline"].pc = first
  <2> HIDE DEF begun, first
  <2> QED
    BY <1>1, <1>2 DEF Tasks
<1>4. selected' = Load(file).selected
  BY DEF CrashAndRestart
<1> QED
  BY <1>3, <1>4 DEF Follows

\* Between two inline handlers the camera's encoder is the one of the selected
\* configuration, unless the camera refused it, for any set of configurations and
\* any handlers spawned beside (handle_selected_write, resume_recorder).
THEOREM CameraFollows == Spec => []CameraFollowsSelected
<1>1. IInv /\ Follows /\ [Next]_vars => Follows'
  <2>1. ASSUME Follows, UNCHANGED vars PROVE Follows'
    BY <2>1 DEF vars, Follows
  <2> QED
    BY <2>1, InlineFollows, OthersFollow, CrashFollows DEF Next
<1>2. Follows => CameraFollowsSelected
  BY DEF Follows, CameraFollowsSelected
<1> QED
  BY <1>1, <1>2, InitInvariant, StepInvariant, InitFollows, PTL DEF Spec

-----------------------------------------------------------------------------
(* A handler with no other beside it.  While the history says "alone" one  *)
(* task at most is in progress; between handlers everything agrees, and on *)
(* its way a handler has read what the settings still are.                 *)

OnFile == saved => Load(file) = Current

Settled == recorder = Wanted /\ OnFile

Sole == \A t, u \in Tasks : task[t].pc # "idle" /\ task[u].pc # "idle" => t = u

\* What a handler in progress has made sure of, step by step.
Way(t) ==
  LET s == task[t]
  IN  /\ s.pc = "stop" => s.config # selected
      /\ s.pc \in {"stop", "select"} => s.syncs
      /\ s.pc = "apply" => IF s.config = selected THEN OnFile ELSE s.syncs
      /\ s.pc \in {"persist", "truncate", "fill"} => s.syncs \/ recorder = Wanted
      /\ s.pc \in {"truncate", "fill"} => s.snap = Current
      /\ s.pc = "fill" => file = Unreadable
      /\ s.pc \in {"decide", "clone", "sync"} => OnFile
      /\ s.pc \in {"clone", "sync"} => s.active = Active
      /\ s.pc = "sync" => s.want = selected /\ s.audio = flags.audio

Undisturbed == alone => Sole /\ (AllIdle => Settled) /\ \A t \in Tasks : Way(t)

\* A file that parses is loaded as it is.
LEMMA LoadCurrent == Load(Current) = Current
<1>1. Current # Unreadable
  <2>1. "flags" \in DOMAIN Current /\ "flags" \notin DOMAIN Unreadable
    BY DEF Current, Unreadable
  <2> QED
    BY <2>1
<1> QED
  BY <1>1 DEF Load

LEMMA InitUndisturbed == Init => Undisturbed
<1> SUFFICES ASSUME Init PROVE Undisturbed
  OBVIOUS
<1>1. \A t \in Tasks : task[t] = NoTask /\ task[t].pc = "idle"
  BY NoTaskType DEF Init
<1>2. Settled
  BY DEF Init, Settled, OnFile, Wanted, Load, Current, Defaults
<1> QED
  BY <1>1, <1>2 DEF Undisturbed, Sole, Way

\* The one handler in progress takes a step.
LEMMA Moves ==
  ASSUME Undisturbed, NEW t \in Tasks, task[t].pc # "idle",
         \A u \in Tasks \ {t} : task'[u] = task[u],
         alone' = alone,
         alone => IF task'[t].pc = "idle" THEN Settled' ELSE Way(t)'
  PROVE  Undisturbed'
<1> SUFFICES ASSUME alone PROVE Sole' /\ (AllIdle' => Settled') /\ \A u \in Tasks : Way(u)'
  BY DEF Undisturbed
<1>1. \A u \in Tasks \ {t} : task'[u].pc = "idle"
  BY DEF Undisturbed, Sole
<1>2. Sole'
  BY <1>1 DEF Sole
<1>3. AllIdle' => Settled'
  BY DEF AllIdle
<1>4. ASSUME NEW u \in Tasks, task'[u].pc = "idle" PROVE Way(u)'
  BY <1>4 DEF Way
<1>5. Way(t)'
  BY <1>4
<1> QED
  BY <1>1, <1>2, <1>3, <1>4, <1>5

\* A handler begins: it is alone only when no other is in progress.
LEMMA Begins ==
  ASSUME NEW t \in Tasks, task'[t].pc # "idle",
         \A u \in Tasks \ {t} : task'[u] = task[u],
         alone' => AllIdle /\ Way(t)'
  PROVE  Undisturbed'
<1> SUFFICES ASSUME alone' PROVE Sole' /\ (AllIdle' => Settled') /\ \A u \in Tasks : Way(u)'
  BY DEF Undisturbed
<1>1. \A u \in Tasks \ {t} : task'[u].pc = "idle"
  BY DEF AllIdle
<1>2. Sole' /\ ~AllIdle'
  BY <1>1 DEF Sole, AllIdle
<1>3. ASSUME NEW u \in Tasks, task'[u].pc = "idle" PROVE Way(u)'
  BY <1>3 DEF Way
<1> QED
  BY <1>1, <1>2, <1>3

\* A handler that syncs puts right whatever it finds; one that does not is alone
\* only after another has.
LEMMA WritesUndisturbed ==
  ASSUME IInv, Undisturbed, NEW t \in Tasks, NEW syncs \in BOOLEAN,
         Begin(t, "persist", syncs), syncs \/ Wanted' = Wanted
  PROVE  Undisturbed'
<1>1. task \in [Tasks -> Task] /\ NoTask \in Task
  BY NoTaskType DEF IInv
<1>2. task' = [task EXCEPT ![t] = [NoTask EXCEPT !.pc = "persist", !.syncs = syncs]]
  BY DEF Begin
<1>3. task'[t].pc = "persist" /\ task'[t].syncs = syncs
  BY <1>1, <1>2 DEF Task
<1>4. \A u \in Tasks \ {t} : task'[u] = task[u]
  BY <1>1, <1>2
<1>5. ASSUME alone' PROVE AllIdle /\ (alone \/ syncs)
  BY <1>5 DEF Begin
<1>6. ASSUME alone' PROVE syncs \/ recorder' = Wanted'
  BY <1>5, <1>6 DEF Begin, Undisturbed, Settled
<1>7. ASSUME alone' PROVE Way(t)'
  BY <1>3, <1>6, <1>7 DEF Way
<1> QED
  BY <1>3, <1>4, <1>5, <1>7, Begins

LEMMA InlineUndisturbed == IInv /\ Undisturbed /\ InlineStep => Undisturbed'
<1> SUFFICES ASSUME IInv, Undisturbed, InlineStep PROVE Undisturbed'
  OBVIOUS
<1>0. "inline" \in Tasks /\ task["inline"] \in Task /\ task \in [Tasks -> Task]
  BY DEF IInv, Tasks
<1>1. ASSUME NEW value \in BOOLEAN, WriteRecordingActive(value) \/ WriteAudioActive(value)
      PROVE  Undisturbed'
  <2>1. Begin("inline", "persist", TRUE)
    BY <1>1 DEF WriteRecordingActive, WriteAudioActive
  <2> QED
    BY <1>0, <2>1, WritesUndisturbed
<1>2. ASSUME NEW c \in Configs, WriteSelected(c) PROVE Undisturbed'
  <2>1. task' = [task EXCEPT !["inline"] = [NoTask EXCEPT !.pc = "stop", !.syncs = TRUE,
                                                          !.config = c]]
    BY <1>2 DEF WriteSelected
  <2>2. /\ task'["inline"].pc = "stop"
        /\ task'["inline"].syncs
        /\ task'["inline"].config = c
    BY <1>0, <2>1, NoTaskType DEF Task
  <2>3. \A u \in Tasks \ {"inline"} : task'[u] = task[u]
    BY <1>0, <2>1
  <2>4. Way("inline")'
    BY <1>2, <2>2 DEF WriteSelected, Way
  <2>5. alone' => AllIdle
    BY <1>2 DEF WriteSelected
  <2> QED
    BY <1>0, <2>2, <2>3, <2>4, <2>5, Begins
<1>3. ASSUME NEW pc, pc # "idle", task' = [task EXCEPT !["inline"].pc = pc]
      PROVE  /\ \A u \in Tasks \ {"inline"} : task'[u] = task[u]
             /\ task'["inline"].pc = pc
             /\ task'["inline"].config = task["inline"].config
             /\ task'["inline"].syncs = task["inline"].syncs
  BY <1>0, <1>3 DEF Task
<1>4. ASSUME alone PROVE Way("inline")
  BY <1>0, <1>4 DEF Undisturbed
<1>5. CASE StopForSelected
  <2>1. PICK pc \in {"select", "apply"} : task' = [task EXCEPT !["inline"].pc = pc]
    BY <1>5 DEF StopForSelected
  <2>2. ASSUME alone PROVE Way("inline")'
    BY <1>3, <1>4, <1>5, <2>1, <2>2 DEF StopForSelected, Way
  <2> QED
    BY <1>0, <1>3, <1>5, <2>1, <2>2, Moves DEF StopForSelected
<1>6. CASE ApplyCamera
  <2>1. task' = [task EXCEPT !["inline"].pc = IF selected = task["inline"].config
                                                THEN "decide" ELSE "select"]
    BY <1>6 DEF ApplyCamera
  <2>2. ASSUME alone PROVE Way("inline")'
    <3>1. OnFile' <=> OnFile
      BY <1>6 DEF ApplyCamera, OnFile, Current, Load
    <3> QED
      BY <1>3, <1>4, <1>6, <2>1, <2>2, <3>1 DEF ApplyCamera, Way
  <2> QED
    BY <1>0, <1>3, <1>6, <2>1, <2>2, Moves DEF ApplyCamera
<1>7. CASE StoreSelected
  <2>1. task' = [task EXCEPT !["inline"].pc = "persist"]
    BY <1>7 DEF StoreSelected
  <2>2. ASSUME alone PROVE Way("inline")'
    BY <1>3, <1>4, <1>7, <2>1, <2>2 DEF StoreSelected, Way
  <2> QED
    BY <1>0, <1>3, <1>7, <2>1, <2>2, Moves DEF StoreSelected
<1> QED
  BY <1>1, <1>2, <1>5, <1>6, <1>7 DEF InlineStep

LEMMA SpawnedUndisturbed ==
  ASSUME IInv, Undisturbed, NEW t \in Spawned, NEW value \in BOOLEAN,
         WriteHomekitActive(t, value) \/ WriteSnapshotsActive(t, value)
  PROVE  Undisturbed'
<1>0. t \in Tasks
  BY DEF Tasks
<1>1. CASE WriteHomekitActive(t, value)
  BY <1>0, <1>1, WritesUndisturbed DEF WriteHomekitActive
<1>2. CASE WriteSnapshotsActive(t, value)
  <2>1. Wanted' = Wanted
    BY <1>2 DEF WriteSnapshotsActive, Begin, Wanted, IInv, RestOK, Flags
  <2> QED
    BY <1>0, <1>2, <2>1, WritesUndisturbed DEF WriteSnapshotsActive
<1> QED
  BY <1>1, <1>2

LEMMA TaskUndisturbed ==
  ASSUME IInv, Undisturbed, NEW t \in Tasks, TaskStep(t) PROVE Undisturbed'
<1>0. task[t] \in Task /\ task \in [Tasks -> Task]
  BY DEF IInv
<1>1. /\ \A u \in Tasks \ {t} : task'[u] = task[u]
      /\ task[t].pc # "idle"
      /\ UNCHANGED <<flags, selected, alone>>
  BY <1>0 DEF TaskStep, PersistRead, PersistTruncate, PersistFill, PersistFails, SyncDecide,
              SyncClone, SyncApply
<1>2. Wanted' = Wanted /\ Current' = Current /\ Active' = Active
  BY <1>1 DEF Wanted, Current, Active
<1> SUFFICES ASSUME alone PROVE IF task'[t].pc = "idle" THEN Settled' ELSE Way(t)'
  BY <1>1, Moves
<1>3. Way(t)
  BY DEF Undisturbed
<1>4. CASE PersistRead(t)
  <2>1. task'[t] = [task[t] EXCEPT !.pc = "truncate", !.snap = Current]
    BY <1>0, <1>4 DEF PersistRead, Current
  <2>2. /\ task'[t].pc = "truncate"
        /\ task'[t].snap = Current
        /\ task'[t].syncs = task[t].syncs
    BY <1>0, <2>1 DEF Task
  <2> QED
    BY <1>2, <1>3, <1>4, <2>2 DEF PersistRead, Way
<1>5. CASE PersistTruncate(t)
  <2>1. /\ task'[t].pc = "fill"
        /\ task'[t].snap = task[t].snap
        /\ task'[t].syncs = task[t].syncs
    BY <1>0, <1>5 DEF PersistTruncate, Task
  <2> QED
    BY <1>2, <1>3, <1>5, <2>1 DEF PersistTruncate, Way
<1>6. /\ task[t].pc \in {"truncate", "fill"}
       /\ task'[t].pc = AfterPersist(t)
       /\ recorder' = recorder
       /\ OnFile'
       => IF task'[t].pc = "idle" THEN Settled' ELSE Way(t)'
  BY <1>2, <1>3 DEF AfterPersist, Way, Settled
<1>7. CASE PersistFill(t)
  <2>1. task'[t].pc = AfterPersist(t)
    BY <1>0, <1>7 DEF PersistFill, Task
  <2>2. file' = Current
    BY <1>3, <1>7 DEF PersistFill, Way, Filled
  <2>3. OnFile'
    BY <1>2, <2>2, LoadCurrent DEF Load, OnFile
  <2> QED
    BY <1>7, <1>6, <2>1, <2>3 DEF PersistFill
<1>8. CASE PersistFails(t)
  <2>1. task'[t].pc = AfterPersist(t)
    BY <1>0, <1>8 DEF PersistFails, Task
  <2>2. OnFile'
    BY <1>8 DEF PersistFails, OnFile
  <2> QED
    BY <1>6, <1>8, <2>1, <2>2 DEF PersistFails
<1>9. CASE SyncDecide(t)
  <2>1. task'[t].pc = "clone" /\ task'[t].active = Active
    BY <1>0, <1>9 DEF SyncDecide, Task
  <2>2. OnFile' <=> OnFile
    BY <1>2, <1>9 DEF SyncDecide, Load, OnFile
  <2> QED
    BY <1>2, <1>3, <1>9, <2>1, <2>2 DEF SyncDecide, Way
<1>10. CASE SyncClone(t)
  <2>1. /\ task'[t].pc = "sync"
        /\ task'[t].active = task[t].active
        /\ task'[t].want = selected
        /\ task'[t].audio = flags.audio
    BY <1>0, <1>10 DEF SyncClone, Task
  <2>2. OnFile' <=> OnFile
    BY <1>2, <1>10 DEF SyncClone, Load, OnFile
  <2> QED
    BY <1>1, <1>2, <1>3, <1>10, <2>1, <2>2 DEF SyncClone, Way
<1>11. CASE SyncApply(t)
  <2>1. task'[t].pc = "idle"
    BY <1>0, <1>11, NoTaskType DEF SyncApply
  <2>2. recorder' = Wanted
    BY <1>3, <1>11 DEF SyncApply, Way, StartWith, Wanted, Active
  <2>3. OnFile'
    BY <1>2, <1>3, <1>11 DEF SyncApply, Way, Load, OnFile
  <2> QED
    BY <1>2, <2>1, <2>2, <2>3 DEF Settled
<1> QED
  BY <1>4, <1>5, <1>7, <1>9, <1>10, <1>11, <1>8 DEF TaskStep

\* A restart begins with the settings the file holds, in the startup alone.
LEMMA CrashUndisturbed == IInv /\ CrashAndRestart => Undisturbed'
<1> SUFFICES ASSUME IInv, CrashAndRestart PROVE Undisturbed'
  OBVIOUS
<1> DEFINE first == IF Load(file).selected = NoConfig THEN "decide" ELSE "apply"
           begun == [NoTask EXCEPT !.pc = first, !.config = Load(file).selected]
<1>1. task' = [t \in Tasks |-> IF t = "inline" THEN begun ELSE NoTask]
  BY DEF CrashAndRestart
<1>2. begun.pc = first /\ begun.config = Load(file).selected
  BY NoTaskType DEF Task
<1>3. Load(file) \in Persisted
  BY DEF IInv, RestOK, Load, Persisted, Defaults, Flags, Selected
<1>4. selected' = Load(file).selected /\ file' = file
  BY DEF CrashAndRestart
<1>5. Load(file)' = Current'
  <2>1. Load(file) = [flags |-> Load(file).flags, selected |-> Load(file).selected]
    BY <1>3 DEF Persisted
  <2> QED
    BY <1>4, <2>1 DEF CrashAndRestart, Current, Load
<1>6. /\ task'["inline"].pc = first
      /\ task'["inline"].config = selected'
      /\ \A t \in Tasks \ {"inline"} : task'[t].pc = "idle"
  <2> HIDE DEF begun, first
  <2> QED
    BY <1>1, <1>2, <1>4, NoTaskType DEF Tasks
<1>7. Way("inline")'
  BY <1>5, <1>6 DEF Way, OnFile
<1>8. ASSUME NEW t \in Tasks, t # "inline" PROVE Way(t)'
  BY <1>6, <1>8 DEF Way
<1>9. Sole' /\ ~AllIdle'
  BY <1>6 DEF Sole, AllIdle, Tasks
<1> QED
  BY <1>7, <1>8, <1>9 DEF Undisturbed

\* A handler that ran with no other beside it leaves the recorder as the settings
\* ask, and hsv.json in agreement with them unless its own write of the file failed,
\* whatever races, failed writes, refusals of the camera and crashes in the middle of
\* a write came before (HsvState::persist, sync_recorder, the write handlers of
\* src/accessory.rs), for any configurations and any number of spawned handlers.
THEOREM Settles == Spec => []AloneSettles
<1>1. IInv /\ Undisturbed /\ [Next]_vars => Undisturbed'
  <2>1. ASSUME Undisturbed, UNCHANGED vars PROVE Undisturbed'
    BY <2>1 DEF vars, Undisturbed, Sole, AllIdle, Settled, OnFile, Way, Wanted, Current,
                   Active, Load
  <2> QED
    BY <2>1, InlineUndisturbed, SpawnedUndisturbed, TaskUndisturbed, CrashUndisturbed
       DEF Next
<1>2. Undisturbed => AloneSettles
  BY DEF Undisturbed, Settled, OnFile, AloneSettles
<1> QED
  BY <1>1, <1>2, InitInvariant, StepInvariant, InitUndisturbed, PTL DEF Spec
=============================================================================
