----------------------------- MODULE HsvControl -----------------------------
(***************************************************************************)
(* The secure-video settings of src/hsv/recording.rs and the writes that   *)
(* change them (src/accessory.rs): every handler stores a flag, persists   *)
(* hsv.json and brings the recorder in line with the settings.             *)
(*                                                                         *)
(* RecordingManagement handlers run inline, under the accessory lock of    *)
(* the HAP server, so one at a time: the task "inline", which is also the  *)
(* startup.  CameraOperatingMode handlers are spawned tasks, so they run   *)
(* next to it and to each other.  A crash loses everything but the file.   *)
(***************************************************************************)
EXTENDS Integers, FiniteSets

CONSTANTS Configs,      \* selected configurations the camera supports
          Encoder(_),   \* the encoder settings of one (same_encoder_settings)
          NoConfig,     \* selected: None
          Factory,      \* the camera's encoder before anything is applied
          Spawned,      \* bound: spawned handlers in progress at a time
          MaxWrites,    \* bound: characteristic writes
          MaxCrashes    \* bound: crashes

ASSUME HsvControlAssumption ==
  /\ NoConfig \notin Configs
  /\ "inline" \notin Spawned
  /\ MaxWrites \in Nat
  /\ MaxCrashes \in Nat

VARIABLES flags,     \* recording_active, homekit_active, audio_active, and the
                     \* snapshot flags as one, which only the file depends on
          selected,  \* HsvState.selected
          file,      \* hsv.json
          recorder,  \* what the recorder was last started with, or Stopped
          encoder,   \* the encoder settings of the camera
          task,      \* the handlers in progress
          writes, crashes,
          alone,     \* history: the last handler to sync ran with no other
          applied,   \* history: the camera took the last settings sent to it
          saved      \* history: the last persist wrote the file to its end

vars == <<flags, selected, file, recorder, encoder, task, writes, crashes, alone, applied,
          saved>>

Flags == [recording : BOOLEAN, homekit : BOOLEAN, audio : BOOLEAN, snapshots : BOOLEAN]
Defaults == [recording |-> FALSE, homekit |-> TRUE, audio |-> TRUE, snapshots |-> TRUE]

Selected == Configs \cup {NoConfig}
Persisted == [flags : Flags, selected : Selected]
Tasks == {"inline"} \cup Spawned

\* hsv.json that does not parse: missing, truncated or a mixture of two.
Unreadable == [unreadable |-> TRUE]
Stopped == [stopped |-> TRUE]

Task == [pc     : {"idle", "stop", "apply", "select", "persist", "truncate", "fill",
                   "decide", "clone", "sync"},
         syncs  : BOOLEAN,            \* persist() is followed by sync_recorder()
         config : Selected,           \* the configuration being selected
         snap   : Persisted,          \* the PersistedState being written
         active : BOOLEAN,            \* sync_recorder's active
         want   : Selected,           \* sync_recorder's selected
         audio  : BOOLEAN]

NoTask == [pc |-> "idle", syncs |-> FALSE, config |-> NoConfig,
           snap |-> [flags |-> Defaults, selected |-> NoConfig],
           active |-> FALSE, want |-> NoConfig, audio |-> FALSE]

Recording == [config : Configs, audio : BOOLEAN]

TypeOK ==
  /\ flags \in Flags
  /\ selected \in Selected
  /\ file \in Persisted \cup {Unreadable}
  /\ recorder \in Recording \cup {Stopped}
  /\ encoder \in {Encoder(c) : c \in Configs} \cup {Factory}
  /\ task \in [Tasks -> Task]
  /\ writes \in 0..MaxWrites
  /\ crashes \in 0..MaxCrashes
  /\ alone \in BOOLEAN
  /\ applied \in BOOLEAN
  /\ saved \in BOOLEAN

Init ==
  /\ flags = Defaults
  /\ selected = NoConfig
  /\ file = Unreadable
  /\ recorder = Stopped
  /\ encoder = Factory
  /\ task = [t \in Tasks |-> NoTask]
  /\ writes = 0
  /\ crashes = 0
  /\ alone = TRUE
  /\ applied = TRUE
  /\ saved = TRUE

-----------------------------------------------------------------------------
(* The writes.                                                             *)

AllIdle == \A t \in Tasks : task[t].pc = "idle"

\* A write is handled while no inline handler holds the accessory.
Begin(t, pc, syncs) ==
  /\ writes < MaxWrites
  /\ writes' = writes + 1
  /\ task["inline"].pc = "idle"
  /\ task[t].pc = "idle"
  /\ task' = [task EXCEPT ![t] = [NoTask EXCEPT !.pc = pc, !.syncs = syncs]]
  /\ alone' = IF AllIdle THEN alone \/ syncs ELSE FALSE
  /\ UNCHANGED <<selected, file, recorder, encoder, crashes, applied, saved>>

WriteRecordingActive(value) ==
  /\ Begin("inline", "persist", TRUE)
  /\ flags' = [flags EXCEPT !.recording = value]

WriteAudioActive(value) ==
  /\ Begin("inline", "persist", TRUE)
  /\ flags' = [flags EXCEPT !.audio = value]

WriteHomekitActive(t, value) ==
  /\ t \in Spawned
  /\ Begin(t, "persist", TRUE)
  /\ flags' = [flags EXCEPT !.homekit = value]

WriteSnapshotsActive(t, value) ==
  /\ t \in Spawned
  /\ Begin(t, "persist", FALSE)
  /\ flags' = [flags EXCEPT !.snapshots = value]

\* handle_selected_write past its early returns (the same value again, or one
\* the camera does not support); configuration_lock is held by "inline".
WriteSelected(c) ==
  /\ c # selected
  /\ writes < MaxWrites
  /\ writes' = writes + 1
  /\ task["inline"].pc = "idle"
  /\ task' = [task EXCEPT !["inline"] = [NoTask EXCEPT !.pc = "stop", !.syncs = TRUE,
                                                       !.config = c]]
  /\ alone' = AllIdle
  /\ UNCHANGED <<flags, selected, file, recorder, encoder, crashes, applied, saved>>

\* Mutant: nothing is applied for the first selection.
SameEncoder_FirstToo(c, d) == c = NoConfig \/ Encoder(c) = Encoder(d)

SameEncoder(c, d) == c # NoConfig /\ d # NoConfig /\ Encoder(c) = Encoder(d)

\* recorder.stop(), before the camera is touched.
StopForSelected ==
  LET next == IF SameEncoder(selected, task["inline"].config) THEN "select" ELSE "apply"
  IN  /\ task["inline"].pc = "stop"
      /\ recorder' = Stopped
      /\ task' = [task EXCEPT !["inline"].pc = next]
      /\ UNCHANGED <<flags, selected, file, encoder, writes, crashes, alone, applied, saved>>

\* apply_camera_settings: a camera that refuses keeps what it had, and the
\* handler goes on.  At startup the recorder is synchronised next.
ApplyCamera ==
  LET c == task["inline"].config
      next == IF selected = c THEN "decide" ELSE "select"
  IN  /\ task["inline"].pc = "apply"
      /\ \/ encoder' = Encoder(c) /\ applied' = TRUE
         \/ encoder' = encoder /\ applied' = FALSE
      /\ task' = [task EXCEPT !["inline"].pc = next]
      /\ UNCHANGED <<flags, selected, file, recorder, writes, crashes, alone, saved>>

StoreSelected ==
  /\ task["inline"].pc = "select"
  /\ selected' = task["inline"].config
  /\ task' = [task EXCEPT !["inline"].pc = "persist"]
  /\ UNCHANGED <<flags, file, recorder, encoder, writes, crashes, alone, applied, saved>>

-----------------------------------------------------------------------------
(* persist(): read the settings, truncate the file, write it.              *)

PersistRead(t) ==
  /\ task[t].pc = "persist"
  /\ task' = [task EXCEPT ![t].pc = "truncate",
                          ![t].snap = [flags |-> flags, selected |-> selected]]
  /\ UNCHANGED <<flags, selected, file, recorder, encoder, writes, crashes, alone, applied, saved>>

AfterPersist(t) == IF task[t].syncs THEN "decide" ELSE "idle"

PersistTruncate(t) ==
  /\ task[t].pc = "truncate"
  /\ file' = Unreadable
  /\ task' = [task EXCEPT ![t].pc = "fill"]
  /\ UNCHANGED <<flags, selected, recorder, encoder, writes, crashes, alone, applied, saved>>

\* Over bytes another writer has put there since, a shorter text leaves a rest.  What
\* is left of two texts, or of one, is taken not to parse.
Filled(snap) ==
  {snap} \cup IF file \in {Unreadable, snap} THEN {} ELSE {Unreadable}

PersistFill(t) ==
  /\ task[t].pc = "fill"
  /\ file' \in Filled(task[t].snap)
  /\ saved' = TRUE
  /\ task' = [task EXCEPT ![t].pc = AfterPersist(t)]
  /\ UNCHANGED <<flags, selected, recorder, encoder, writes, crashes, alone, applied>>

\* fs::write fails: the file could not be opened and stays as it is, or it takes
\* a part of the text at most.  The handler logs that and goes on.
PersistFails(t) ==
  /\ \/ task[t].pc = "truncate" /\ UNCHANGED file
     \/ task[t].pc = "fill" /\ file' \in {file, Unreadable}
  /\ saved' = FALSE
  /\ task' = [task EXCEPT ![t].pc = AfterPersist(t)]
  /\ UNCHANGED <<flags, selected, recorder, encoder, writes, crashes, alone, applied>>

-----------------------------------------------------------------------------
(* sync_recorder(): two atomics, then the selected lock, then the recorder.*)

\* Mutant: the HomeKit switch is ignored.
Active_RecordingOnly == flags.recording

Active == flags.recording /\ flags.homekit

SyncDecide(t) ==
  /\ task[t].pc = "decide"
  /\ task' = [task EXCEPT ![t].pc = "clone", ![t].active = Active]
  /\ UNCHANGED <<flags, selected, file, recorder, encoder, writes, crashes, alone, applied, saved>>

SyncClone(t) ==
  /\ task[t].pc = "clone"
  /\ task' = [task EXCEPT ![t].pc = "sync", ![t].want = selected, ![t].audio = flags.audio]
  /\ UNCHANGED <<flags, selected, file, recorder, encoder, writes, crashes, alone, applied, saved>>

StartWith(active, config, audio) ==
  IF active /\ config # NoConfig THEN [config |-> config, audio |-> audio] ELSE Stopped

\* recorder.start() or recorder.stop(), each under the recorder's lock.
SyncApply(t) ==
  /\ task[t].pc = "sync"
  /\ recorder' = StartWith(task[t].active, task[t].want, task[t].audio)
  /\ task' = [task EXCEPT ![t] = NoTask]
  /\ UNCHANGED <<flags, selected, file, encoder, writes, crashes, alone, applied, saved>>

-----------------------------------------------------------------------------
(* Crash and restart: HsvState::load, then resume_recorder before the HAP  *)
(* server answers.                                                         *)

Load(f) == IF f = Unreadable THEN [flags |-> Defaults, selected |-> NoConfig] ELSE f

CrashAndRestart ==
  LET loaded == Load(file)
      first == IF loaded.selected = NoConfig THEN "decide" ELSE "apply"
  IN  /\ crashes < MaxCrashes
      /\ crashes' = crashes + 1
      /\ flags' = loaded.flags
      /\ selected' = loaded.selected
      /\ recorder' = Stopped
      /\ task' = [t \in Tasks |->
                    IF t = "inline"
                      THEN [NoTask EXCEPT !.pc = first, !.config = loaded.selected]
                      ELSE NoTask]
      /\ alone' = TRUE
      /\ saved' = TRUE
      /\ UNCHANGED <<file, encoder, writes, applied>>

InlineStep ==
  \/ \E value \in BOOLEAN : WriteRecordingActive(value) \/ WriteAudioActive(value)
  \/ \E c \in Configs : WriteSelected(c)
  \/ StopForSelected
  \/ ApplyCamera
  \/ StoreSelected

TaskStep(t) ==
  \/ PersistRead(t)
  \/ PersistTruncate(t)
  \/ PersistFill(t)
  \/ PersistFails(t)
  \/ SyncDecide(t)
  \/ SyncClone(t)
  \/ SyncApply(t)

Next ==
  \/ InlineStep
  \/ \E t \in Spawned, value \in BOOLEAN :
       WriteHomekitActive(t, value) \/ WriteSnapshotsActive(t, value)
  \/ \E t \in Tasks : TaskStep(t)
  \/ CrashAndRestart

Spec == Init /\ [][Next]_vars

-----------------------------------------------------------------------------
(* Properties                                                              *)

Wanted ==
  IF flags.recording /\ flags.homekit /\ selected # NoConfig
    THEN [config |-> selected, audio |-> flags.audio]
    ELSE Stopped

Current == [flags |-> flags, selected |-> selected]

\* A handler that ran with no other beside it leaves the recorder as the settings
\* ask, and hsv.json in agreement with them unless that handler's own write of the
\* file failed, whatever happened before: races, failed writes of the file and of
\* the camera, crashes in the middle of a write of the file (persist,
\* sync_recorder).  After a restart the file is what the settings were loaded from.
AloneSettles ==
  alone /\ AllIdle => recorder = Wanted /\ (saved => Load(file) = Current)

\* Between two inline handlers the camera's encoder is the one of the selected
\* configuration, unless the camera refused it: the configuration lock and the
\* comparison of encoder settings never leave an older one in place.
CameraFollowsSelected ==
  task["inline"].pc = "idle" /\ selected # NoConfig /\ applied
    => encoder = Encoder(selected)
=============================================================================
