------------------------------- MODULE Pairing -------------------------------
(***************************************************************************)
(* The pairings and the Bonjour status flag of the HAP server: the Setup,  *)
(* Add and Remove handlers (handler/pair_setup.rs, handler/pairings.rs),   *)
(* the pairing listener of server/ip.rs they emit their event to, and the  *)
(* files behind them (storage/file_storage.rs).                            *)
(*                                                                         *)
(* storage, config and the event emitter are async mutexes: a handler that *)
(* waits for one keeps those it has.  A lock that is taken for one await   *)
(* only is a guard of that step.  A file is truncated and written in two   *)
(* steps, both under the storage lock, so only a crash or an I/O error     *)
(* shows the half of it: write_bytes reports an open that fails, but the   *)
(* buffered bytes are written when the writer is dropped, and an error of  *)
(* that write reaches nobody.  Before the server answers, the start        *)
(* (main.rs, IpServer::new) saves config.json two to four times.  List     *)
(* changes nothing and is left out, and so is max_peers, which the program *)
(* leaves None.                                                            *)
(***************************************************************************)
EXTENDS Integers, FiniteSets

CONSTANTS Controllers,
          Conns,         \* HTTP connections: one request at a time on each
          Nobody,        \* no controller, no holder of a lock
          MaxRequests,   \* bound: requests handled
          MaxCrashes,    \* bound: crashes
          MaxFaults      \* bound: storage calls that fail

ASSUME PairingAssumption ==
  /\ Nobody \notin Controllers \cup Conns
  /\ MaxRequests \in Nat
  /\ MaxCrashes \in Nat
  /\ MaxFaults \in Nat

VARIABLES pairing,     \* pairings/<id>.json of each controller
          configFile,  \* config.json
          deviceId,    \* Config.device_id
          flag,        \* Config.status_flag
          published,   \* sf of the mDNS service, "none" while it is withdrawn
          lock,        \* who holds each mutex
          session,     \* the verified controller of each connection
          task,        \* the request a connection is handling
          server,      \* how far the program has come
          knows,       \* controllers that have been told they are paired
          requests, crashes, faults,
          clean        \* history: no storage call failed since the start

vars == <<pairing, configFile, deviceId, flag, published, lock, session, task,
          server, knows, requests, crashes, faults, clean>>

Mutexes == {"storage", "config", "emitter"}
Permissions == {"user", "admin"}
Flags == {"notPaired", "zero"}
Torn == [torn |-> TRUE]

\* The saves of a start, and what has been saved between them: by main.rs what it
\* loaded or drew, and again for an accessory of another shape; by IpServer::new;
\* and by add_accessory for an accessory it does not know.
StartSaves == {"mainSave", "shapeSave", "newSave", "accessorySave"}
Saved == {"configured", "shaped", "created", "added"}

Task == [pc   : {"idle", "check", "load", "peers", "truncate", "fill", "sign", "delete",
                 "emit", "count", "config", "saveTruncate", "saveFill", "announce"},
         kind : {"setup", "add", "remove"},
         of   : Controllers \cup {Nobody},
         perm : Permissions]

NoTask == [pc |-> "idle", kind |-> "setup", of |-> Nobody, perm |-> "admin"]

TypeOK ==
  /\ pairing \in [Controllers -> {"absent", "torn"} \cup Permissions]
  /\ configFile \in [id : 0..MaxCrashes, flag : Flags] \cup {Torn}
  /\ deviceId \in 0..MaxCrashes
  /\ flag \in Flags
  /\ published \in Flags \cup {"none"}
  /\ lock \in [Mutexes -> Conns \cup {Nobody}]
  /\ session \in [Conns -> Controllers \cup {Nobody}]
  /\ task \in [Conns -> Task]
  /\ server \in {"down", "up"} \cup StartSaves \cup Saved
  /\ knows \subseteq Controllers
  /\ requests \in 0..MaxRequests
  /\ crashes \in 0..MaxCrashes
  /\ faults \in 0..MaxFaults
  /\ clean \in BOOLEAN

\* The first start, with an empty data directory.
Init ==
  /\ pairing = [c \in Controllers |-> "absent"]
  /\ configFile = Torn
  /\ deviceId = 0
  /\ flag = "notPaired"
  /\ published = "none"
  /\ lock = [m \in Mutexes |-> Nobody]
  /\ session = [t \in Conns |-> Nobody]
  /\ task = [t \in Conns |-> NoTask]
  /\ server = "down"
  /\ knows = {}
  /\ requests = 0
  /\ crashes = 0
  /\ faults = 0
  /\ clean = TRUE

process == <<server, requests, crashes>>
history == <<faults, clean>>
memory == <<deviceId, flag, published>>

Free(m) == lock[m] = Nobody
Usable(c) == pairing[c] \in Permissions
AnyPairing == {c \in Controllers : pairing[c] # "absent"}

At(t, pc) == server = "up" /\ task[t].pc = pc
Goto(t, pc) == task' = [task EXCEPT ![t].pc = pc]
Reply(t) == task' = [task EXCEPT ![t] = NoTask]

Take(t, m) == Free(m) /\ lock' = [lock EXCEPT ![m] = t]
Release(ms) == lock' = [m \in Mutexes |-> IF m \in ms THEN Nobody ELSE lock[m]]

StorageFails ==
  /\ faults < MaxFaults
  /\ faults' = faults + 1
  /\ clean' = FALSE

-----------------------------------------------------------------------------
(* Requests.                                                               *)

Request(t, kind, c, perm, pc) ==
  /\ At(t, "idle")
  /\ requests < MaxRequests
  /\ requests' = requests + 1
  /\ task' = [task EXCEPT ![t] = [pc |-> pc, kind |-> kind, of |-> c, perm |-> perm]]
  /\ UNCHANGED <<pairing, configFile, memory, lock, session, server, knows, crashes, history>>

\* The last message of a pair-setup, its proofs checked; the code does not
\* ask whether the accessory is paired already.
Setup(t, c) == Request(t, "setup", c, "admin", "peers")

Add(t, c, perm) == session[t] # Nobody /\ Request(t, "add", c, perm, "check")

Remove(t, c) == session[t] # Nobody /\ Request(t, "remove", c, "user", "check")

\* The last message of a pair-verify: the pairing must load, and only a
\* controller that knows the accessory's key gets this far.
Verify(t, c) ==
  /\ At(t, "idle")
  /\ session[t] = Nobody
  /\ Free("storage")
  /\ c \in knows
  /\ Usable(c)
  /\ session' = [session EXCEPT ![t] = c]
  /\ UNCHANGED <<pairing, configFile, memory, lock, task, process, knows, history>>

-----------------------------------------------------------------------------
(* The handlers up to their event.                                         *)

\* check_admin: the storage lock is given back before the request goes on.
CheckAdmin(t) ==
  /\ At(t, "check")
  /\ Free("storage")
  /\ IF pairing[session[t]] # "admin"
       THEN Reply(t)
       ELSE Goto(t, IF task[t].kind = "add" THEN "load" ELSE "delete")
  /\ UNCHANGED <<pairing, configFile, memory, lock, session, process, knows, history>>

\* handle_add: a pairing that loads is updated, others are new.
AddLoad(t) ==
  /\ At(t, "load")
  /\ Take(t, "storage")
  /\ Goto(t, IF Usable(task[t].of) THEN "truncate" ELSE "peers")
  /\ UNCHANGED <<pairing, configFile, memory, session, process, knows, history>>

\* The public key is not the one of the pairing.
AddOtherKey(t) ==
  /\ At(t, "load")
  /\ Free("storage")
  /\ Usable(task[t].of)
  /\ Reply(t)
  /\ UNCHANGED <<pairing, configFile, memory, lock, session, process, knows, history>>

\* config.lock().await.max_peers: handle_add has the storage lock by now.
Peers(t) ==
  /\ At(t, "peers")
  /\ Free("config")
  /\ Goto(t, "truncate")
  /\ UNCHANGED <<pairing, configFile, memory, lock, session, process, knows, history>>

SaveTruncate(t) ==
  /\ At(t, "truncate")
  /\ IF task[t].kind = "add" THEN UNCHANGED lock ELSE Take(t, "storage")
  /\ pairing' = [pairing EXCEPT ![task[t].of] = "torn"]
  /\ Goto(t, "fill")
  /\ UNCHANGED <<configFile, memory, session, process, knows, history>>

\* Mutant: handle_add emits its event under the storage lock.
SaveFill_Locked(t) ==
  /\ At(t, "fill")
  /\ pairing' = [pairing EXCEPT ![task[t].of] = task[t].perm]
  /\ Release(IF task[t].kind = "setup" THEN {"storage"} ELSE {})
  /\ Goto(t, IF task[t].kind = "setup" THEN "sign" ELSE "emit")
  /\ UNCHANGED <<configFile, memory, session, process, knows, history>>

SaveFill(t) ==
  /\ At(t, "fill")
  /\ pairing' = [pairing EXCEPT ![task[t].of] = task[t].perm]
  /\ Release({"storage"})
  /\ Goto(t, IF task[t].kind = "setup" THEN "sign" ELSE "emit")
  /\ UNCHANGED <<configFile, memory, session, process, knows, history>>

\* The file cannot be opened and stays as it was: an error response, no event.
SaveOpenFails(t) ==
  LET adds == task[t].kind = "add"
  IN  /\ At(t, "truncate")
      /\ adds \/ Free("storage")
      /\ StorageFails
      /\ Release(IF adds THEN {"storage"} ELSE {})
      /\ Reply(t)
      /\ UNCHANGED <<pairing, configFile, memory, session, process, knows>>

\* The write fails, unseen: the request goes on with half a file.
SaveFillFails(t) ==
  /\ At(t, "fill")
  /\ StorageFails
  /\ Release({"storage"})
  /\ Goto(t, IF task[t].kind = "setup" THEN "sign" ELSE "emit")
  /\ UNCHANGED <<pairing, configFile, memory, session, process, knows>>

\* Pair-setup signs its response under the config lock.
Sign(t) ==
  /\ At(t, "sign")
  /\ Free("config")
  /\ Goto(t, "emit")
  /\ UNCHANGED <<pairing, configFile, memory, lock, session, process, knows, history>>

\* Removing a file that is not there is an error, so there is no event.
Delete(t) ==
  /\ At(t, "delete")
  /\ Free("storage")
  /\ IF pairing[task[t].of] = "absent" THEN Reply(t) ELSE Goto(t, "emit")
  /\ pairing' = [pairing EXCEPT ![task[t].of] = "absent"]
  /\ UNCHANGED <<configFile, memory, lock, session, process, knows, history>>

-----------------------------------------------------------------------------
(* emit() runs the listener under the emitter lock; then comes the answer. *)

Emit(t) ==
  /\ At(t, "emit")
  /\ Take(t, "emitter")
  /\ Goto(t, "count")
  /\ UNCHANGED <<pairing, configFile, memory, session, process, knows, history>>

Answer(t, ms) ==
  /\ Release(ms)
  /\ Reply(t)
  /\ knows' = IF task[t].kind = "remove" THEN knows \ {task[t].of}
                                         ELSE knows \cup {task[t].of}

\* Mutant: the event alone decides.
Applies_Always(kind, count) == TRUE

\* The listener counts again: its event may be out of date.
Applies(kind, count) == IF kind = "remove" THEN count = 0 ELSE count > 0

Count(t) ==
  /\ At(t, "count")
  /\ Free("storage")
  /\ IF Applies(task[t].kind, Cardinality(AnyPairing))
       THEN Goto(t, "config") /\ UNCHANGED <<lock, knows>>
       ELSE Answer(t, {"emitter"})
  /\ UNCHANGED <<pairing, configFile, memory, session, process, history>>

\* count_pairings is an Err: the listener does nothing.
CountFails(t) ==
  /\ At(t, "count")
  /\ Free("storage")
  /\ StorageFails
  /\ Answer(t, {"emitter"})
  /\ UNCHANGED <<pairing, configFile, memory, session, process>>

SetFlag(t) ==
  /\ At(t, "config")
  /\ Take(t, "config")
  /\ flag' = IF task[t].kind = "remove" THEN "notPaired" ELSE "zero"
  /\ Goto(t, "saveTruncate")
  /\ UNCHANGED <<pairing, configFile, deviceId, published, session, process, knows, history>>

ConfigTruncate(t) ==
  /\ At(t, "saveTruncate")
  /\ Take(t, "storage")
  /\ configFile' = Torn
  /\ Goto(t, "saveFill")
  /\ UNCHANGED <<pairing, memory, session, process, knows, history>>

\* Both locks are dropped, and update_records withdraws the service.
ConfigSaved(t) ==
  /\ published' = "none"
  /\ Release({"storage", "config"})
  /\ Goto(t, "announce")
  /\ UNCHANGED <<pairing, deviceId, flag, session, process, knows>>

ConfigFill(t) ==
  /\ At(t, "saveFill")
  /\ ConfigSaved(t)
  /\ configFile' = [id |-> deviceId, flag |-> flag]
  /\ UNCHANGED history

\* An open that fails is logged, a write that fails is not; the listener goes on.
ConfigFails(t) ==
  /\ \/ At(t, "saveTruncate") /\ Free("storage")
     \/ At(t, "saveFill")
  /\ ConfigSaved(t)
  /\ StorageFails
  /\ UNCHANGED configFile

Announce(t) ==
  /\ At(t, "announce")
  /\ Free("config")
  /\ published' = flag
  /\ Answer(t, {"emitter"})
  /\ UNCHANGED <<pairing, configFile, deviceId, flag, session, process, history>>

-----------------------------------------------------------------------------
(* Crash and restart.                                                      *)

\* A connection that closes loses its session.
Close(t) ==
  /\ At(t, "idle")
  /\ session[t] # Nobody
  /\ session' = [session EXCEPT ![t] = Nobody]
  /\ UNCHANGED <<pairing, configFile, memory, lock, task, process, knows, history>>

\* A start also ends like this when storage fails it: count_pairings, or the open
\* of a file.
Crash ==
  /\ server # "down"
  /\ crashes < MaxCrashes
  /\ crashes' = crashes + 1
  /\ server' = "down"
  /\ lock' = [m \in Mutexes |-> Nobody]
  /\ session' = [t \in Conns |-> Nobody]
  /\ task' = [t \in Conns |-> NoTask]
  /\ published' = "none"
  /\ clean' = TRUE
  /\ UNCHANGED <<pairing, configFile, deviceId, flag, knows, requests, faults>>

\* main.rs: a config.json that does not load is replaced by a new Config, with
\* a new device_id.
LoadedId == IF configFile = Torn THEN crashes ELSE configFile.id

\* Mutant: a new Config is left to IpServer::new to save.
StartLoad_Unsaved ==
  /\ server = "down"
  /\ server' = IF configFile = Torn THEN "configured" ELSE "mainSave"
  /\ deviceId' = LoadedId
  /\ flag' = IF configFile = Torn THEN "notPaired" ELSE configFile.flag
  /\ configFile' = Torn
  /\ UNCHANGED <<pairing, published, lock, session, task, knows, requests, crashes, history>>

\* What was loaded is saved again, and so the file truncated first.
StartLoad ==
  /\ server = "down"
  /\ server' = "mainSave"
  /\ deviceId' = LoadedId
  /\ flag' = IF configFile = Torn THEN "notPaired" ELSE configFile.flag
  /\ configFile' = Torn
  /\ UNCHANGED <<pairing, published, lock, session, task, knows, requests, crashes, history>>

\* The accessory_shape file tells of another shape; configuration_number goes up.
ShapeSave ==
  /\ server = "configured"
  /\ server' = "shapeSave"
  /\ configFile' = Torn
  /\ UNCHANGED <<pairing, memory, lock, session, task, knows, requests, crashes, history>>

\* IpServer::new counts the pairings and saves the flag.
NewSave ==
  /\ server \in {"configured", "shaped"}
  /\ server' = "newSave"
  /\ flag' = IF AnyPairing = {} THEN "notPaired" ELSE "zero"
  /\ configFile' = Torn
  /\ UNCHANGED <<pairing, deviceId, published, lock, session, task, knows, requests, crashes,
                 history>>

\* add_accessory does not find the accessory in the cache of ids.
AccessorySave ==
  /\ server = "created"
  /\ server' = "accessorySave"
  /\ configFile' = Torn
  /\ UNCHANGED <<pairing, memory, lock, session, task, knows, requests, crashes, history>>

StartSaved ==
  /\ server \in StartSaves
  /\ server' = CASE server = "mainSave" -> "configured"
                 [] server = "shapeSave" -> "shaped"
                 [] server = "newSave" -> "created"
                 [] server = "accessorySave" -> "added"
  /\ UNCHANGED <<pairing, memory, lock, session, task, knows, requests, crashes>>

StartFill ==
  /\ StartSaved
  /\ configFile' = [id |-> deviceId, flag |-> flag]
  /\ UNCHANGED history

\* As everywhere, a write that fails goes unseen.
StartFillFails ==
  /\ StartSaved
  /\ StorageFails
  /\ UNCHANGED configFile

\* run_handle serves the connections and announces the service.
StartServer ==
  /\ server \in {"created", "added"}
  /\ server' = "up"
  /\ published' = flag
  /\ UNCHANGED <<pairing, configFile, deviceId, flag, lock, session, task, knows, requests,
                 crashes, history>>

Handle(t) ==
  \/ CheckAdmin(t)
  \/ AddLoad(t)
  \/ AddOtherKey(t)
  \/ Peers(t)
  \/ SaveTruncate(t)
  \/ SaveFill(t)
  \/ SaveOpenFails(t)
  \/ SaveFillFails(t)
  \/ Sign(t)
  \/ Delete(t)
  \/ Emit(t)
  \/ Count(t)
  \/ CountFails(t)
  \/ SetFlag(t)
  \/ ConfigTruncate(t)
  \/ ConfigFill(t)
  \/ ConfigFails(t)
  \/ Announce(t)

Start ==
  \/ StartLoad
  \/ ShapeSave
  \/ NewSave
  \/ AccessorySave
  \/ StartFill
  \/ StartFillFails
  \/ StartServer

Next ==
  \/ \E t \in Conns, c \in Controllers :
       \/ Setup(t, c)
       \/ \E perm \in Permissions : Add(t, c, perm)
       \/ Remove(t, c)
       \/ Verify(t, c)
  \/ \E t \in Conns : Handle(t) \/ Close(t)
  \/ Crash
  \/ Start

Spec == Init /\ [][Next]_vars

-----------------------------------------------------------------------------
(* Properties                                                              *)

Quiet == server = "up" /\ \A t \in Conns : task[t].pc = "idle"

\* Whenever no request is in progress, and no storage call has failed since
\* the start, the status flag says whether there are pairings, and config.json
\* and the mDNS record say the same, in whatever order requests and their
\* events were handled and wherever the program crashed before.
StatusFollowsPairings ==
  Quiet /\ clean =>
    /\ flag = IF AnyPairing = {} THEN "notPaired" ELSE "zero"
    /\ published = flag
    /\ configFile = [id |-> deviceId, flag |-> flag]

Saving == server \in StartSaves \/ \E t \in Conns : At(t, "saveFill")

\* The device id that paired controllers know survives a crash at any moment but one.
\* A config.json that loads has the id of the running program, or of the last one, and
\* no storage call having failed it loads, from the first save of the start on, except
\* between the truncation and the write of one save, of the start or of a pairing
\* listener.  A crash in there makes main.rs draw a new id for a paired accessory.
IdOnFile ==
  /\ configFile # Torn => configFile.id = deviceId
  /\ server # "down" /\ clean => (configFile = Torn <=> Saving)

\* The mutex that a request waits for at its place, unless it holds it.
Awaits(t) ==
  LET pc == task[t].pc
  IN  CASE pc \in {"check", "load", "delete", "count", "saveTruncate"} -> "storage"
        [] pc = "truncate" /\ task[t].kind # "add" -> "storage"
        [] pc \in {"peers", "sign", "config", "announce"} -> "config"
        [] pc = "emit" -> "emitter"
        [] OTHER -> "none"

InProgress(t) == task[t].pc # "idle"

\* No request in progress can go on.
Deadlocked ==
  /\ server = "up"
  /\ \E t \in Conns : InProgress(t)
  /\ \A t \in Conns : ~ENABLED Handle(t)

\* Each of them waits for a mutex that is held.
Stuck ==
  /\ \E t \in Conns : InProgress(t)
  /\ \A t \in Conns : InProgress(t) => Awaits(t) \in Mutexes /\ ~Free(Awaits(t))

\* handle_add of a new controller has storage and waits for config, while the pairing
\* listener of another request has config and waits for storage.
AddMeetsListener ==
  \E t, u \in Conns :
    /\ At(t, "peers") /\ task[t].kind = "add" /\ lock["storage"] = t
    /\ At(u, "saveTruncate") /\ lock["config"] = u

\* Nothing but mutexes blocks a request for ever, and there is one deadlock, of
\* handle_add and the listener.  Every other path through the three mutexes gives one
\* back before it waits for the next, or takes them in the order emitter, config,
\* storage.
OnlyAddMeetsListener == (Deadlocked => Stuck) /\ (Stuck => AddMeetsListener)
=============================================================================
