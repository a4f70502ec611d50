---------------------------- MODULE PairingProofs ----------------------------
(***************************************************************************)
(* Type correctness of Pairing, StatusFollowsPairings and IdOnFile, for any*)
(* number of controllers, connections, requests and crashes.  A request in *)
(* progress is about a controller (OfController) and holds the emitter for *)
(* its listener (Orderly).  Where a flag, the mDNS record or config.json   *)
(* does not follow the pairings there is a request that has yet to bring it*)
(* up to date (Statuses).  The last section is about the mutexes: which a  *)
(* request holds (Owned), and that they can deadlock in one way only.      *)
(***************************************************************************)
EXTENDS Pairing, FiniteSetTheorems, TLAPS

OfController == \A t \in Conns : task[t].pc # "idle" => task[t].of \in Controllers

\* The types of all that a handler may change besides its own task.
RestOK ==
  /\ pairing \in [Controllers -> {"absent", "torn"} \cup Permissions]
  /\ configFile \in [id : 0..MaxCrashes, flag : Flags] \cup {Torn}
  /\ deviceId \in 0..MaxCrashes
  /\ flag \in Flags
  /\ published \in Flags \cup {"none"}
  /\ lock \in [Mutexes -> Conns \cup {Nobody}]
  /\ session \in [Conns -> Controllers \cup {Nobody}]
  /\ server \in {"down", "up"} \cup StartSaves \cup Saved
  /\ knows \subseteq Controllers
  /\ requests \in 0..MaxRequests
  /\ crashes \in 0..MaxCrashes
  /\ faults \in 0..MaxFaults
  /\ clean \in BOOLEAN

TaskOK == task \in [Conns -> Task] /\ OfController

IInv == RestOK /\ TaskOK

LEMMA NoTaskType == NoTask \in Task /\ NoTask.pc = "idle"
BY DEF NoTask, Task, Permissions

LEMMA InitInvariant == Init => IInv
<1> SUFFICES ASSUME Init PROVE IInv
  OBVIOUS
<1>1. TaskOK
  BY NoTaskType DEF Init, TaskOK, OfController
<1>2. RestOK
  BY PairingAssumption DEF Init, RestOK, Flags
<1> QED
  BY <1>1, <1>2 DEF IInv

-----------------------------------------------------------------------------
(* What the operators of the handlers keep.                                *)

Steps == {"idle", "check", "load", "peers", "truncate", "fill", "sign", "delete",
          "emit", "count", "config", "saveTruncate", "saveFill", "announce"}

LEMMA GotoKeeps ==
  ASSUME TaskOK, NEW t \in Conns, NEW pc \in Steps, Goto(t, pc), task[t].pc # "idle"
  PROVE  TaskOK'
<1>1. /\ task[t] \in Task
      /\ task' = [task EXCEPT ![t] = [task[t] EXCEPT !.pc = pc]]
  BY DEF TaskOK, Goto
<1>2. [task[t] EXCEPT !.pc = pc] \in Task /\ [task[t] EXCEPT !.pc = pc].of = task[t].of
  BY <1>1 DEF Task, Steps
<1> QED
  BY <1>1, <1>2 DEF TaskOK, OfController

LEMMA ReplyKeeps == ASSUME TaskOK, NEW t \in Conns, Reply(t) PROVE TaskOK'
BY NoTaskType DEF TaskOK, OfController, Reply

LEMMA LockKeeps ==
  ASSUME RestOK, NEW t \in Conns,
         (\E m \in Mutexes : Take(t, m)) \/ (\E ms \in SUBSET Mutexes : Release(ms))
  PROVE  lock' \in [Mutexes -> Conns \cup {Nobody}]
BY DEF RestOK, Take, Release

LEMMA FaultKeeps ==
  ASSUME RestOK, StorageFails
  PROVE  faults' \in 0..MaxFaults /\ clean' \in BOOLEAN
<1>1. faults' \in 0..MaxFaults
  BY PairingAssumption DEF RestOK, StorageFails
<1>2. clean' \in BOOLEAN
  BY DEF StorageFails
<1> QED
  BY <1>1, <1>2

LEMMA AnswerKeeps ==
  ASSUME RestOK, TaskOK, NEW t \in Conns, task[t].pc # "idle", NEW ms \in SUBSET Mutexes,
         Answer(t, ms)
  PROVE  /\ TaskOK'
         /\ lock' \in [Mutexes -> Conns \cup {Nobody}]
         /\ knows' \subseteq Controllers
<1>1. TaskOK'
  BY ReplyKeeps DEF Answer
<1>2. lock' \in [Mutexes -> Conns \cup {Nobody}]
  BY LockKeeps DEF Answer
<1>3. knows' \subseteq Controllers
  BY DEF Answer, RestOK, TaskOK, OfController
<1> QED
  BY <1>1, <1>2, <1>3

-----------------------------------------------------------------------------
LEMMA RequestKeeps ==
  ASSUME IInv, NEW t \in Conns, NEW kind \in {"setup", "add", "remove"}, NEW c \in Controllers,
         NEW perm \in Permissions, NEW pc \in {"peers", "check"}, Request(t, kind, c, perm, pc)
  PROVE  IInv'
<1> USE PairingAssumption DEF IInv
<1>1. [pc |-> pc, kind |-> kind, of |-> c, perm |-> perm] \in Task
  BY DEF Task
<1>2. TaskOK'
  BY <1>1 DEF Request, TaskOK, OfController
<1>3. requests' \in 0..MaxRequests
  BY DEF Request, RestOK
<1>4. RestOK'
  BY <1>3 DEF Request, RestOK, memory, history
<1> QED
  BY <1>2, <1>4

\* The handlers up to their event.
LEMMA FirstHalfKeeps ==
  ASSUME IInv, NEW t \in Conns,
         \/ CheckAdmin(t) \/ AddLoad(t) \/ AddOtherKey(t) \/ Peers(t) \/ SaveTruncate(t)
         \/ SaveFill(t) \/ SaveOpenFails(t) \/ SaveFillFails(t) \/ Sign(t) \/ Delete(t)
  PROVE  IInv'
<1> USE DEF IInv
<1>1. task[t] \in Task /\ task[t].perm \in Permissions
  BY DEF TaskOK, Task
<1>2. TaskOK'
  <2>1. task[t].pc # "idle"
    BY DEF CheckAdmin, AddLoad, AddOtherKey, Peers, SaveTruncate, SaveFill, SaveOpenFails, SaveFillFails, Sign,
           Delete, At
  <2>2. Reply(t) \/ \E pc \in Steps : Goto(t, pc)
    BY DEF CheckAdmin, AddLoad, AddOtherKey, Peers, SaveTruncate, SaveFill, SaveOpenFails, SaveFillFails, Sign,
           Delete, Steps
  <2> QED
    BY <2>1, <2>2, GotoKeeps, ReplyKeeps
<1>3. lock' \in [Mutexes -> Conns \cup {Nobody}]
  <2>1. \/ UNCHANGED lock
        \/ \E m \in Mutexes : Take(t, m)
        \/ \E ms \in SUBSET Mutexes : Release(ms)
    BY DEF CheckAdmin, AddLoad, AddOtherKey, Peers, SaveTruncate, SaveFill, SaveOpenFails, SaveFillFails, Sign,
           Delete, Mutexes
  <2> QED
    BY <2>1, LockKeeps DEF RestOK
<1>4. pairing' \in [Controllers -> {"absent", "torn"} \cup Permissions]
  BY <1>1 DEF CheckAdmin, AddLoad, AddOtherKey, Peers, SaveTruncate, SaveFill, SaveOpenFails, SaveFillFails, Sign,
              Delete, RestOK
<1>5. faults' \in 0..MaxFaults /\ clean' \in BOOLEAN
  <2>1. StorageFails \/ UNCHANGED history
    BY DEF CheckAdmin, AddLoad, AddOtherKey, Peers, SaveTruncate, SaveFill, SaveOpenFails, SaveFillFails, Sign,
           Delete
  <2> QED
    BY <2>1, FaultKeeps DEF RestOK, history
<1>6. UNCHANGED <<configFile, memory, session, process, knows>>
  BY DEF CheckAdmin, AddLoad, AddOtherKey, Peers, SaveTruncate, SaveFill, SaveOpenFails, SaveFillFails, Sign,
         Delete
<1> QED
  BY <1>2, <1>3, <1>4, <1>5, <1>6 DEF RestOK, memory, process

\* emit(), the listener and the answer.
LEMMA SecondHalfKeeps ==
  ASSUME IInv, NEW t \in Conns,
         \/ Emit(t) \/ Count(t) \/ CountFails(t) \/ SetFlag(t) \/ ConfigTruncate(t)
         \/ ConfigFill(t) \/ ConfigFails(t) \/ Announce(t)
  PROVE  IInv'
<1> USE DEF IInv
<1>1. task[t].pc # "idle"
  BY DEF Emit, Count, CountFails, SetFlag, ConfigTruncate, ConfigFill, ConfigFails,
         ConfigSaved, Announce, At
<1>2. \/ \E ms \in SUBSET Mutexes : Answer(t, ms)
      \/ /\ \E pc \in Steps : Goto(t, pc)
         /\ UNCHANGED knows
         /\ \/ UNCHANGED lock
            \/ \E m \in Mutexes : Take(t, m)
            \/ \E ms \in SUBSET Mutexes : Release(ms)
  BY DEF Emit, Count, CountFails, SetFlag, ConfigTruncate, ConfigFill, ConfigFails,
         ConfigSaved, Announce, Steps, Mutexes
<1>3. TaskOK' /\ lock' \in [Mutexes -> Conns \cup {Nobody}] /\ knows' \subseteq Controllers
  <2>1. CASE \E ms \in SUBSET Mutexes : Answer(t, ms)
    BY <1>1, <2>1, AnswerKeeps
  <2>2. CASE \E pc \in Steps : Goto(t, pc)
    BY <1>1, <1>2, <2>1, <2>2, GotoKeeps, LockKeeps DEF RestOK
  <2> QED
    BY <1>2, <2>1, <2>2
<1>4. /\ configFile' \in [id : 0..MaxCrashes, flag : Flags] \cup {Torn}
      /\ flag' \in Flags
      /\ published' \in Flags \cup {"none"}
  BY DEF Emit, Count, CountFails, SetFlag, ConfigTruncate, ConfigFill, ConfigFails,
         ConfigSaved, Announce, RestOK, memory, Flags
<1>5. faults' \in 0..MaxFaults /\ clean' \in BOOLEAN
  <2>1. StorageFails \/ UNCHANGED history
    BY DEF Emit, Count, CountFails, SetFlag, ConfigTruncate, ConfigFill, ConfigFails,
           Announce
  <2> QED
    BY <2>1, FaultKeeps DEF RestOK, history
<1>6. UNCHANGED <<pairing, deviceId, session, process>>
  BY DEF Emit, Count, CountFails, SetFlag, ConfigTruncate, ConfigFill, ConfigFails,
         ConfigSaved, Announce, memory
<1> QED
  BY <1>3, <1>4, <1>5, <1>6 DEF RestOK, process

\* A verified session, a closed one, a crash, and the two steps of a start.
LEMMA ProcessKeeps ==
  ASSUME IInv,
         \/ \E t \in Conns : Close(t) \/ \E c \in Controllers : Verify(t, c)
         \/ Crash
         \/ Start
  PROVE  IInv'
<1> USE PairingAssumption DEF IInv
<1>1. TaskOK'
  <2>1. task' = task \/ task' = [t \in Conns |-> NoTask]
    BY DEF Close, Verify, Crash, Start, StartLoad, ShapeSave, NewSave, AccessorySave, StartSaved,
           StartFill, StartFillFails, StartServer
  <2> QED
    BY <2>1, NoTaskType DEF TaskOK, OfController
<1>2. CASE \E t \in Conns : Close(t) \/ \E c \in Controllers : Verify(t, c)
  BY <1>1, <1>2 DEF Close, Verify, RestOK, memory, process, history
<1>3. CASE Crash
  <2>1. crashes' \in 0..MaxCrashes
    BY <1>3 DEF Crash, RestOK
  <2> QED
    BY <1>1, <1>3, <2>1 DEF Crash, RestOK
<1>4. CASE Start
  <2>1. deviceId' \in 0..MaxCrashes /\ flag' \in Flags /\ published' \in Flags \cup {"none"}
    BY <1>4 DEF Start, StartLoad, ShapeSave, NewSave, AccessorySave, StartSaved, StartFill,
                StartFillFails, StartServer, LoadedId, RestOK, memory, Flags
  <2>2. configFile' \in [id : 0..MaxCrashes, flag : Flags] \cup {Torn}
    BY <1>4 DEF Start, StartLoad, ShapeSave, NewSave, AccessorySave, StartSaved, StartFill,
                StartFillFails, StartServer, RestOK, memory
  <2>3. server' \in {"down", "up"} \cup StartSaves \cup Saved
    BY <1>4 DEF Start, StartLoad, ShapeSave, NewSave, AccessorySave, StartSaved, StartFill,
                StartFillFails, StartServer, StartSaves, Saved
  <2>4. faults' \in 0..MaxFaults /\ clean' \in BOOLEAN
    <3>1. StorageFails \/ UNCHANGED history
      BY <1>4 DEF Start, StartLoad, ShapeSave, NewSave, AccessorySave, StartFill,
                  StartFillFails, StartServer
    <3> QED
      BY <3>1, FaultKeeps DEF RestOK, history
  <2>5. UNCHANGED <<pairing, lock, session, knows, requests, crashes>>
    BY <1>4 DEF Start, StartLoad, ShapeSave, NewSave, AccessorySave, StartSaved, StartFill,
                StartFillFails, StartServer
  <2> QED
    BY <1>1, <2>1, <2>2, <2>3, <2>4, <2>5 DEF RestOK
<1> QED
  BY <1>2, <1>3, <1>4

LEMMA StepInvariant == IInv /\ [Next]_vars => IInv'
<1> SUFFICES ASSUME IInv, [Next]_vars PROVE IInv'
  OBVIOUS
<1>1. CASE UNCHANGED vars
  BY <1>1 DEF vars, IInv, RestOK, TaskOK, OfController
<1>2. ASSUME NEW t \in Conns, NEW c \in Controllers,
             Setup(t, c) \/ (\E perm \in Permissions : Add(t, c, perm)) \/ Remove(t, c)
      PROVE  IInv'
  BY <1>2, RequestKeeps DEF Setup, Add, Remove, Permissions
<1>3. ASSUME NEW t \in Conns, Handle(t) PROVE IInv'
  BY <1>3, FirstHalfKeeps, SecondHalfKeeps DEF Handle
<1> QED
  BY <1>1, <1>2, <1>3, ProcessKeeps DEF Next

\* Pairings, configuration, mutexes, sessions and requests keep their types for any
\* number of controllers and connections; in particular an answer always concerns a
\* controller, and the device id is always one that was drawn.
THEOREM TypeCorrect == Spec => []TypeOK
<1>1. IInv => TypeOK
  BY DEF IInv, RestOK, TaskOK, TypeOK
<1> QED
  BY <1>1, InitInvariant, StepInvariant, PTL DEF Spec

-----------------------------------------------------------------------------
(* One listener runs at a time, and what the handlers of a kind have done. *)

Listening == {"count", "config", "saveTruncate", "saveFill", "announce"}

\* A listener at work holds the emitter, and a request is where its kind can be.
Orderly ==
  /\ IsFiniteSet(AnyPairing)
  /\ \A t \in Conns :
       /\ task[t].pc \in Listening => lock["emitter"] = t
       /\ task[t].pc \in {"load", "peers", "truncate", "fill", "sign"} => task[t].kind # "remove"
       /\ task[t].pc = "check" => task[t].kind # "setup"
       /\ task[t].pc = "delete" => task[t].kind = "remove"
       /\ task[t].pc # "idle" => server = "up"

\* Where a handler leaves its task.
LEMMA GotoTask ==
  ASSUME TaskOK, NEW t \in Conns, NEW pc, Goto(t, pc)
  PROVE  /\ task'[t].pc = pc /\ task'[t].kind = task[t].kind
         /\ \A u \in Conns \ {t} : task'[u] = task[u]
BY DEF TaskOK, Task, Goto

LEMMA ReplyTask ==
  ASSUME TaskOK, NEW t \in Conns, Reply(t)
  PROVE  task'[t].pc = "idle" /\ \A u \in Conns \ {t} : task'[u] = task[u]
BY DEF TaskOK, Reply, NoTask

\* A step of one request: the emitter is taken only when free, given back by its holder.
LEMMA RequestOrderly ==
  ASSUME IInv, Orderly, NEW t \in Conns, server = "up", UNCHANGED server,
         IsFiniteSet(AnyPairing)',
         \A u \in Conns \ {t} : task'[u] = task[u],
         lock'["emitter"] = lock["emitter"] \/ lock["emitter"] \in {t, Nobody},
         task'[t].pc \in Listening => lock'["emitter"] = t,
         task'[t].pc \in {"load", "peers", "truncate", "fill", "sign"} => task'[t].kind # "remove",
         task'[t].pc = "check" => task'[t].kind # "setup",
         task'[t].pc = "delete" => task'[t].kind = "remove"
  PROVE  Orderly'
<1> SUFFICES ASSUME NEW u \in Conns
             PROVE  /\ task'[u].pc \in Listening => lock'["emitter"] = u
                    /\ task'[u].pc \in {"load", "peers", "truncate", "fill", "sign"} =>
                         task'[u].kind # "remove"
                    /\ task'[u].pc = "check" => task'[u].kind # "setup"
                    /\ task'[u].pc = "delete" => task'[u].kind = "remove"
                    /\ task'[u].pc # "idle" => server' = "up"
  BY DEF Orderly, Listening
<1>1. CASE u = t
  BY <1>1
<1>2. CASE u # t
  <2>1. task'[u] = task[u] /\ u # Nobody
    BY <1>2, PairingAssumption
  <2> QED
    BY <1>2, <2>1 DEF Orderly
<1> QED
  BY <1>1, <1>2

\* What a request does to the pairings.
LEMMA PairingsFinite ==
  ASSUME Orderly, NEW c \in Controllers, NEW p, pairing' = [pairing EXCEPT ![c] = p],
         pairing \in [Controllers -> {"absent", "torn"} \cup Permissions]
  PROVE  IsFiniteSet(AnyPairing)'
<1>1. AnyPairing' \subseteq AnyPairing \cup {c}
  BY DEF AnyPairing
<1>2. IsFiniteSet(AnyPairing \cup {c})
  BY FS_AddElement DEF Orderly
<1>3. \A S : S \subseteq AnyPairing \cup {c} => IsFiniteSet(S)
  BY <1>2, FS_Subset
<1> QED
  BY <1>1, <1>3 DEF AnyPairing

LEMMA ArriveOrderly ==
  ASSUME IInv, Orderly, NEW t \in Conns, NEW kind \in {"setup", "add", "remove"}, NEW c \in Controllers,
         NEW perm \in Permissions, NEW pc \in {"peers", "check"}, Request(t, kind, c, perm, pc),
         pc = "peers" <=> kind = "setup"
  PROVE  Orderly'
<1>1. /\ server = "up" /\ UNCHANGED <<server, lock, pairing>>
      /\ task'[t].pc = pc /\ task'[t].kind = kind /\ \A u \in Conns \ {t} : task'[u] = task[u]
  BY DEF Request, At, IInv, TaskOK
<1>2. IsFiniteSet(AnyPairing)'
  BY <1>1 DEF Orderly, AnyPairing
<1> QED
  BY <1>1, <1>2, RequestOrderly DEF Listening

\* The handlers up to their event hold no emitter, and take none.
LEMMA FirstHalfOrderly ==
  ASSUME IInv, Orderly, NEW t \in Conns,
         \/ CheckAdmin(t) \/ AddLoad(t) \/ AddOtherKey(t) \/ Peers(t) \/ SaveTruncate(t)
         \/ SaveFill(t) \/ SaveOpenFails(t) \/ SaveFillFails(t) \/ Sign(t) \/ Delete(t)
  PROVE  Orderly'
<1> USE DEF IInv
<1>1. /\ server = "up" /\ UNCHANGED server
      /\ task[t].pc \in {"check", "load", "peers", "truncate", "fill", "sign", "delete"}
  BY DEF CheckAdmin, AddLoad, AddOtherKey, Peers, SaveTruncate, SaveFill, SaveOpenFails, SaveFillFails, Sign,
         Delete, At, process
<1>2. task[t].of \in Controllers /\ task[t].kind \in {"setup", "add", "remove"}
  BY <1>1 DEF TaskOK, OfController, Task
<1>3. lock'["emitter"] = lock["emitter"]
  BY DEF CheckAdmin, AddLoad, AddOtherKey, Peers, SaveTruncate, SaveFill, SaveOpenFails, SaveFillFails, Sign,
         Delete, Take, Release, RestOK, Mutexes
<1>4. IsFiniteSet(AnyPairing)'
  <2>1. UNCHANGED pairing \/ \E p : pairing' = [pairing EXCEPT ![task[t].of] = p]
    BY DEF CheckAdmin, AddLoad, AddOtherKey, Peers, SaveTruncate, SaveFill, SaveOpenFails, SaveFillFails, Sign,
           Delete
  <2>2. CASE UNCHANGED pairing
    BY <2>2 DEF Orderly, AnyPairing
  <2> QED
    BY <1>2, <2>1, <2>2, PairingsFinite DEF RestOK
<1>5. CASE Reply(t)
  BY <1>1, <1>3, <1>4, <1>5, ReplyTask, RequestOrderly DEF Listening
<1>6. ASSUME NEW pc, Goto(t, pc), pc \notin Listening,
             pc \in {"load", "peers", "truncate", "fill", "sign"} => task[t].kind # "remove",
             pc # "check", pc = "delete" => task[t].kind = "remove"
      PROVE  Orderly'
  BY <1>1, <1>3, <1>4, <1>6, GotoTask, RequestOrderly
<1>7. CASE CheckAdmin(t)
  <2>1. Reply(t) \/ Goto(t, IF task[t].kind = "add" THEN "load" ELSE "delete")
    BY <1>7 DEF CheckAdmin
  <2>2. task[t].kind # "setup"
    BY <1>7 DEF CheckAdmin, At, Orderly
  <2>3. CASE Goto(t, IF task[t].kind = "add" THEN "load" ELSE "delete")
    <3>1. CASE task[t].kind = "add"
      BY <1>6, <2>3, <3>1 DEF Listening
    <3>2. CASE task[t].kind = "remove"
      BY <1>6, <2>3, <3>2 DEF Listening
    <3> QED
      BY <1>2, <2>2, <3>1, <3>2
  <2> QED
    BY <1>5, <2>1, <2>3
<1>8. CASE AddLoad(t) \/ Peers(t) \/ SaveTruncate(t)
  <2>1. task[t].kind # "remove" /\ \E pc \in {"truncate", "peers", "fill"} : Goto(t, pc)
    BY <1>8 DEF AddLoad, Peers, SaveTruncate, At, Orderly
  <2> QED
    BY <1>6, <2>1 DEF Listening
<1>9. CASE AddOtherKey(t) \/ SaveOpenFails(t)
  BY <1>5, <1>9 DEF AddOtherKey, SaveOpenFails
<1>10. CASE SaveFill(t) \/ SaveFillFails(t) \/ Sign(t) \/ Delete(t)
  <2>1. task[t].pc # "delete" => task[t].kind # "remove"
    BY <1>10 DEF SaveFill, SaveFillFails, Sign, Delete, At, Orderly
  <2>2. Reply(t) \/ \E pc \in {"sign", "emit"} : Goto(t, pc) /\ (pc = "sign" => task[t].pc # "delete")
    BY <1>10 DEF SaveFill, SaveFillFails, Sign, Delete, At
  <2> QED
    BY <1>5, <1>6, <2>1, <2>2 DEF Listening
<1> QED
  BY <1>7, <1>8, <1>9, <1>10

\* emit() takes the emitter, and the answer gives it back.
LEMMA SecondHalfOrderly ==
  ASSUME IInv, Orderly, NEW t \in Conns,
         \/ Emit(t) \/ Count(t) \/ CountFails(t) \/ SetFlag(t) \/ ConfigTruncate(t)
         \/ ConfigFill(t) \/ ConfigFails(t) \/ Announce(t)
  PROVE  Orderly'
<1> USE DEF IInv
<1>1. server = "up" /\ UNCHANGED <<server, pairing>>
  BY DEF Emit, Count, CountFails, SetFlag, ConfigTruncate, ConfigFill, ConfigFails,
         ConfigSaved, Announce, At, process
<1>2. IsFiniteSet(AnyPairing)'
  BY <1>1 DEF Orderly, AnyPairing
<1>3. CASE Emit(t)
  <2>1. lock["emitter"] = Nobody /\ lock'["emitter"] = t /\ Goto(t, "count")
    BY <1>3 DEF Emit, Take, Free, RestOK, Mutexes
  <2> QED
    BY <1>1, <1>2, <2>1, GotoTask, RequestOrderly
<1>4. CASE Answer(t, {"emitter"}) /\ task[t].pc \in Listening
  <2>1. lock["emitter"] = t /\ Reply(t)
    BY <1>4 DEF Orderly, Answer
  <2> QED
    BY <1>1, <1>2, <2>1, ReplyTask, RequestOrderly DEF Listening
<1>5. ASSUME task[t].pc \in Listening, NEW pc \in Listening, Goto(t, pc),
             lock'["emitter"] = lock["emitter"]
      PROVE  Orderly'
  <2>1. lock'["emitter"] = t
    BY <1>5 DEF Orderly
  <2> QED
    BY <1>1, <1>2, <1>5, <2>1, GotoTask, RequestOrderly DEF Listening
<1>6. CASE Count(t)
  BY <1>4, <1>5, <1>6 DEF Count, At, Listening
<1>7. CASE CountFails(t) \/ Announce(t)
  BY <1>4, <1>7 DEF CountFails, Announce, At, Listening
<1>8. CASE SetFlag(t)
  BY <1>5, <1>8 DEF SetFlag, At, Take, RestOK, Mutexes, Listening
<1>9. CASE ConfigTruncate(t)
  BY <1>5, <1>9 DEF ConfigTruncate, At, Take, RestOK, Mutexes, Listening
<1>10. CASE ConfigFill(t) \/ ConfigFails(t)
  <2>1. task[t].pc \in {"saveTruncate", "saveFill"} /\ Goto(t, "announce")
        /\ lock'["emitter"] = lock["emitter"]
    BY <1>10 DEF ConfigFill, ConfigFails, ConfigSaved, At, Release, Mutexes
  <2> QED
    BY <1>5, <2>1 DEF Listening
<1> QED
  BY <1>3, <1>6, <1>7, <1>8, <1>9, <1>10

LEMMA ProcessOrderly ==
  ASSUME IInv, Orderly,
         \/ \E t \in Conns : Close(t) \/ \E c \in Controllers : Verify(t, c)
         \/ Crash
         \/ Start
  PROVE  Orderly'
<1>1. IsFiniteSet(AnyPairing)'
  <2>1. pairing' = pairing
    BY DEF Close, Verify, Crash, Start, StartLoad, ShapeSave, NewSave, AccessorySave, StartSaved,
           StartFill, StartFillFails, StartServer
  <2> QED
    BY <2>1 DEF Orderly, AnyPairing
<1>2. CASE Crash
  BY <1>1, <1>2 DEF Crash, NoTask, Orderly, Listening
<1>3. CASE Start
  <2>1. server # "up" /\ UNCHANGED <<task, lock>>
    BY <1>3 DEF Start, StartLoad, ShapeSave, NewSave, AccessorySave, StartSaved, StartFill,
                StartFillFails, StartServer, StartSaves
  <2>2. \A t \in Conns : task[t].pc = "idle"
    BY <2>1 DEF Orderly
  <2> QED
    BY <1>1, <2>1, <2>2 DEF Orderly, Listening
<1>4. CASE \E t \in Conns : Close(t) \/ \E c \in Controllers : Verify(t, c)
  BY <1>1, <1>4 DEF Close, Verify, process, Orderly
<1> QED
  BY <1>2, <1>3, <1>4

LEMMA StepOrderly == IInv /\ Orderly /\ [Next]_vars => Orderly'
<1> SUFFICES ASSUME IInv, Orderly, [Next]_vars PROVE Orderly'
  OBVIOUS
<1>1. CASE UNCHANGED vars
  BY <1>1 DEF vars, Orderly, AnyPairing
<1>2. ASSUME NEW t \in Conns, NEW c \in Controllers,
             Setup(t, c) \/ (\E perm \in Permissions : Add(t, c, perm)) \/ Remove(t, c)
      PROVE  Orderly'
  BY <1>2, ArriveOrderly DEF Setup, Add, Remove, Permissions
<1>3. ASSUME NEW t \in Conns, Handle(t) PROVE Orderly'
  BY <1>3, FirstHalfOrderly, SecondHalfOrderly DEF Handle
<1> QED
  BY <1>1, <1>2, <1>3, ProcessOrderly DEF Next

LEMMA InitOrderly == Init => Orderly
<1> SUFFICES ASSUME Init PROVE Orderly
  OBVIOUS
<1>1. AnyPairing = {}
  BY DEF Init, AnyPairing
<1> QED
  BY <1>1, FS_EmptySet DEF Init, Orderly, NoTask, Listening

-----------------------------------------------------------------------------
(* What the status flag is, or is about to be.                             *)

Want == IF AnyPairing = {} THEN "notPaired" ELSE "zero"

\* What the event of a request has its listener say.
Says(kind) == IF kind = "remove" THEN "notPaired" ELSE "zero"

\* The request has changed the pairings and its listener has not counted them.
Pending(t) == task[t].pc \in {"fill", "sign", "emit", "count"}

\* The flag, or the one that the listener is about to set, is right, or there is a
\* request whose listener will find that it is not.
FlagOK ==
  \/ \E t \in Conns : Pending(t) /\ Says(task[t].kind) = Want
  \/ \E t \in Conns : task[t].pc = "config" /\ Says(task[t].kind) = Want
  \/ flag = Want /\ \A t \in Conns : task[t].pc # "config"

\* What follows the flag later: the mDNS record, and before it the file.
PublishedOK ==
  \/ \E t \in Conns : task[t].pc \in {"saveTruncate", "saveFill", "announce"}
  \/ published = flag

FileOK ==
  \/ \E t \in Conns : task[t].pc \in {"saveTruncate", "saveFill"}
  \/ configFile = [id |-> deviceId, flag |-> flag]

IdOK ==
  IF \E t \in Conns : task[t].pc = "saveFill"
    THEN configFile = Torn
    ELSE configFile # Torn /\ configFile.id = deviceId

\* The invariant of StatusFollowsPairings and IdOnFile, as long as no call failed.
Statuses == FlagOK /\ PublishedOK /\ FileOK /\ IdOK

\* On its way there a start has saved what it knows, and counted the pairings.
Starting ==
  /\ server \in StartSaves => configFile = Torn
  /\ server \in Saved => configFile = [id |-> deviceId, flag |-> flag]
  /\ server \in {"newSave", "created", "accessorySave", "added"} => flag = Want

Status == clean => Starting /\ (server = "up" => Statuses)

LEMMA NotTorn == \A i, f : [id |-> i, flag |-> f] # Torn /\ [id |-> i, flag |-> f].id = i
BY DEF Torn

\* A request that leaves all that is counted, set and saved alone; if its listener has
\* yet to count, it still has.
LEMMA QuietStatus ==
  ASSUME Statuses, NEW t \in Conns, UNCHANGED <<pairing, flag, deviceId, published, configFile, server>>,
         \A u \in Conns \ {t} : task'[u] = task[u],
         task[t].pc \notin {"config", "saveTruncate", "saveFill", "announce"},
         task'[t].pc \notin {"config", "saveTruncate", "saveFill", "announce"},
         Pending(t) => Pending(t)' /\ task'[t].kind = task[t].kind
  PROVE  Statuses'
<1>1. Want' = Want
  BY DEF Want, AnyPairing
<1>2. FlagOK'
  BY <1>1 DEF Statuses, FlagOK, Pending
<1>3. PublishedOK' /\ FileOK'
  BY DEF Statuses, PublishedOK, FileOK
<1>4. \A u \in Conns : task'[u].pc = "saveFill" <=> task[u].pc = "saveFill"
  OBVIOUS
<1>5. IdOK'
  BY <1>4 DEF Statuses, IdOK
<1> QED
  BY <1>2, <1>3, <1>5 DEF Statuses

LEMMA FirstHalfStatus ==
  ASSUME IInv, Orderly, Statuses, clean', NEW t \in Conns,
         \/ CheckAdmin(t) \/ AddLoad(t) \/ AddOtherKey(t) \/ Peers(t) \/ SaveTruncate(t)
         \/ SaveFill(t) \/ SaveOpenFails(t) \/ SaveFillFails(t) \/ Sign(t) \/ Delete(t)
  PROVE  Statuses'
<1> USE DEF IInv
<1>1. /\ UNCHANGED <<configFile, flag, deviceId, published, server>>
      /\ task[t].pc \in {"check", "load", "peers", "truncate", "fill", "sign", "delete"}
  BY DEF CheckAdmin, AddLoad, AddOtherKey, Peers, SaveTruncate, SaveFill, SaveOpenFails, SaveFillFails, Sign,
         Delete, At, process, memory
<1>2. task[t].of \in Controllers /\ pairing \in [Controllers -> {"absent", "torn"} \cup Permissions]
  BY <1>1 DEF TaskOK, OfController, RestOK
<1>3. ASSUME NEW pc, Goto(t, pc) \/ (pc = "idle" /\ Reply(t)), UNCHANGED pairing,
             pc \in {"idle", "load", "peers", "truncate", "sign", "delete", "emit"},
             Pending(t) => pc \in {"sign", "emit"}
      PROVE  Statuses'
  <2>1. /\ task'[t].pc = pc /\ (Pending(t) => task'[t].kind = task[t].kind)
        /\ \A u \in Conns \ {t} : task'[u] = task[u]
    BY <1>3, GotoTask, ReplyTask
  <2>2. Pending(t) => Pending(t)'
    BY <1>3, <2>1 DEF Pending
  <2> QED
    BY <1>1, <1>3, <2>1, <2>2, QuietStatus
<1>4. ASSUME NEW pc \in {"fill", "sign", "emit"}, Goto(t, pc), Says(task[t].kind) = Want'
      PROVE  Statuses'
  <2>1. /\ task'[t].pc = pc /\ task'[t].kind = task[t].kind
        /\ \A u \in Conns \ {t} : task'[u] = task[u]
    BY <1>4, GotoTask
  <2>2. FlagOK'
    BY <1>4, <2>1 DEF FlagOK, Pending
  <2>3. PublishedOK' /\ FileOK'
    BY <1>1, <2>1 DEF Statuses, PublishedOK, FileOK
  <2>4. \A u \in Conns : task'[u].pc = "saveFill" <=> task[u].pc = "saveFill"
    BY <1>1, <2>1
  <2>5. IdOK'
    BY <1>1, <2>4 DEF Statuses, IdOK
  <2> QED
    BY <2>2, <2>3, <2>5 DEF Statuses
<1>5. CASE CheckAdmin(t)
  BY <1>3, <1>5 DEF CheckAdmin, At, Pending
<1>6. CASE AddLoad(t) \/ AddOtherKey(t) \/ Peers(t)
  BY <1>3, <1>6 DEF AddLoad, AddOtherKey, Peers, At, Pending
<1>7. CASE Sign(t)
  BY <1>3, <1>7 DEF Sign, At, Pending
<1>8. CASE SaveTruncate(t) \/ SaveFill(t)
  <2>1. task[t].kind # "remove"
    BY <1>8 DEF SaveTruncate, SaveFill, At, Orderly
  <2>2. task[t].perm \in Permissions /\ "absent" \notin Permissions
    BY DEF TaskOK, Task, Permissions
  <2>3. pairing'[task[t].of] # "absent"
    BY <1>2, <1>8, <2>2 DEF SaveTruncate, SaveFill
  <2>4. Says(task[t].kind) = Want'
    BY <1>2, <2>1, <2>3 DEF Says, Want, AnyPairing
  <2> QED
    BY <1>4, <1>8, <2>4 DEF SaveTruncate, SaveFill
<1>9. CASE SaveOpenFails(t) \/ SaveFillFails(t)
  BY <1>9 DEF SaveOpenFails, SaveFillFails, StorageFails
<1>10. CASE Delete(t)
  <2>1. CASE pairing[task[t].of] = "absent"
    <3>1. pairing' = pairing /\ Reply(t)
      BY <1>2, <1>10, <2>1 DEF Delete
    <3> QED
      BY <1>3, <1>10, <3>1 DEF Delete, At, Pending
  <2>2. CASE pairing[task[t].of] # "absent"
    <3>1. /\ pairing' = [pairing EXCEPT ![task[t].of] = "absent"] /\ Goto(t, "emit")
          /\ task[t].kind = "remove" /\ task[t].pc = "delete"
      BY <1>10, <2>2 DEF Delete, At, Orderly
    <3>2. CASE AnyPairing' = {}
      <4>1. Says(task[t].kind) = Want'
        BY <3>1, <3>2 DEF Says, Want
      <4> QED
        BY <1>4, <3>1, <4>1
    <3>3. CASE AnyPairing' # {}
      <4>1. Want' = Want
        BY <1>2, <2>2, <3>1, <3>3 DEF Want, AnyPairing
      <4>2. /\ task'[t].pc = "emit" /\ \A u \in Conns \ {t} : task'[u] = task[u]
        BY <3>1, GotoTask
      <4>3. FlagOK'
        BY <1>1, <3>1, <4>1, <4>2 DEF Statuses, FlagOK, Pending
      <4>4. PublishedOK' /\ FileOK'
        BY <1>1, <3>1, <4>2 DEF Statuses, PublishedOK, FileOK
      <4>5. \A u \in Conns : task'[u].pc = "saveFill" <=> task[u].pc = "saveFill"
        BY <3>1, <4>2
      <4>6. IdOK'
        BY <1>1, <4>5 DEF Statuses, IdOK
      <4> QED
        BY <4>3, <4>4, <4>6 DEF Statuses
    <3> QED
      BY <3>2, <3>3
  <2> QED
    BY <2>1, <2>2
<1> QED
  BY <1>5, <1>6, <1>7, <1>8, <1>9, <1>10

\* The listener: it counts what there is, and is the only one at work.
LEMMA SecondHalfStatus ==
  ASSUME IInv, Orderly, Statuses, clean', NEW t \in Conns,
         \/ Emit(t) \/ Count(t) \/ CountFails(t) \/ SetFlag(t) \/ ConfigTruncate(t)
         \/ ConfigFill(t) \/ ConfigFails(t) \/ Announce(t)
  PROVE  Statuses'
<1> USE DEF IInv
<1>1. UNCHANGED <<pairing, deviceId, server>> /\ Want' = Want
  BY DEF Emit, Count, CountFails, SetFlag, ConfigTruncate, ConfigFill, ConfigFails,
         ConfigSaved, Announce, process, memory, Want, AnyPairing
<1>2. task[t].pc \in Listening => \A u \in Conns \ {t} : task[u].pc \notin Listening
  BY DEF Orderly
<1>3. CASE Emit(t)
  <2>1. /\ task[t].pc = "emit" /\ Goto(t, "count") /\ UNCHANGED <<flag, published, configFile>>
    BY <1>3 DEF Emit, At, memory
  <2>2. Pending(t)'
    BY <2>1, GotoTask DEF Pending
  <2> QED
    BY <1>1, <2>1, <2>2, GotoTask, QuietStatus
<1>4. CASE Count(t)
  <2>1. task[t].pc = "count" /\ UNCHANGED <<flag, published, configFile>>
    BY <1>4 DEF Count, At, memory
  <2>2. \A u \in Conns \ {t} : task[u].pc \notin Listening
    BY <1>2, <2>1 DEF Listening
  <2>3. /\ flag = Want \/ \E u \in Conns : Pending(u) /\ Says(task[u].kind) = Want
        /\ published = flag /\ configFile = [id |-> deviceId, flag |-> flag]
    BY <2>1, <2>2 DEF Statuses, FlagOK, PublishedOK, FileOK, Listening
  <2>4. Applies(task[t].kind, Cardinality(AnyPairing)) <=> Says(task[t].kind) = Want
    <3>1. Cardinality(AnyPairing) \in Nat /\ (Cardinality(AnyPairing) = 0 <=> AnyPairing = {})
      BY FS_CardinalityType, FS_EmptySet DEF Orderly
    <3> QED
      BY <3>1 DEF Applies, Says, Want
  <2>5. CASE Goto(t, "config") /\ Says(task[t].kind) = Want
    <3>1. /\ task'[t].pc = "config" /\ task'[t].kind = task[t].kind
          /\ \A u \in Conns \ {t} : task'[u] = task[u]
      BY <2>5, GotoTask
    <3>2. FlagOK'
      BY <1>1, <2>5, <3>1 DEF FlagOK
    <3>3. PublishedOK' /\ FileOK'
      BY <1>1, <2>1, <2>3 DEF PublishedOK, FileOK
    <3>4. IdOK'
      BY <1>1, <2>1, <2>2, <2>3, <3>1, NotTorn DEF IdOK, Listening
    <3> QED
      BY <3>2, <3>3, <3>4 DEF Statuses
  <2>6. CASE Reply(t) /\ Says(task[t].kind) # Want
    <3>1. task'[t].pc = "idle" /\ \A u \in Conns \ {t} : task'[u] = task[u]
      BY <2>6, ReplyTask
    <3>2. FlagOK'
      BY <1>1, <2>1, <2>2, <2>3, <2>6, <3>1 DEF FlagOK, Pending, Listening
    <3>3. PublishedOK' /\ FileOK'
      BY <1>1, <2>1, <2>3 DEF PublishedOK, FileOK
    <3>4. IdOK'
      BY <1>1, <2>1, <2>2, <2>3, <3>1, NotTorn DEF IdOK, Listening
    <3> QED
      BY <3>2, <3>3, <3>4 DEF Statuses
  <2> QED
    BY <1>4, <2>4, <2>5, <2>6 DEF Count, Answer
<1>5. CASE CountFails(t) \/ ConfigFails(t)
  BY <1>5 DEF CountFails, ConfigFails, StorageFails
<1>6. ASSUME task[t].pc \in {"config", "saveTruncate", "saveFill", "announce"}
      PROVE  /\ \A u \in Conns \ {t} : task[u].pc \notin Listening
             /\ task[t].pc # "saveFill" => configFile # Torn /\ configFile.id = deviceId
             /\ \/ \E u \in Conns \ {t} : Pending(u) /\ Says(task[u].kind) = Want
                \/ IF task[t].pc = "config" THEN Says(task[t].kind) = Want ELSE flag = Want
  <2>1. \A u \in Conns \ {t} : task[u].pc \notin Listening
    BY <1>2, <1>6 DEF Listening
  <2> QED
    BY <1>6, <2>1 DEF Statuses, IdOK, FlagOK, Pending, Listening
<1>7. CASE SetFlag(t)
  <2>1. /\ task[t].pc = "config" /\ flag' = Says(task[t].kind) /\ Goto(t, "saveTruncate")
        /\ UNCHANGED <<published, configFile>>
    BY <1>7 DEF SetFlag, At, Says
  <2>2. task'[t].pc = "saveTruncate" /\ \A u \in Conns \ {t} : task'[u] = task[u]
    BY <2>1, GotoTask
  <2>3. FlagOK'
    BY <1>1, <1>6, <2>1, <2>2 DEF FlagOK, Pending, Listening
  <2>4. PublishedOK' /\ FileOK'
    BY <2>2 DEF PublishedOK, FileOK
  <2>5. IdOK'
    BY <1>1, <1>6, <2>1, <2>2 DEF IdOK, Listening
  <2> QED
    BY <2>3, <2>4, <2>5 DEF Statuses
<1>8. CASE ConfigTruncate(t)
  <2>1. /\ task[t].pc = "saveTruncate" /\ Goto(t, "saveFill") /\ configFile' = Torn
        /\ UNCHANGED <<published, flag>>
    BY <1>8 DEF ConfigTruncate, At, memory
  <2>2. task'[t].pc = "saveFill" /\ \A u \in Conns \ {t} : task'[u] = task[u]
    BY <2>1, GotoTask
  <2>3. FlagOK'
    BY <1>1, <1>6, <2>1, <2>2 DEF FlagOK, Pending, Listening
  <2>4. PublishedOK' /\ FileOK' /\ IdOK'
    BY <2>1, <2>2 DEF PublishedOK, FileOK, IdOK
  <2> QED
    BY <2>3, <2>4 DEF Statuses
<1>9. CASE ConfigFill(t)
  <2>1. /\ task[t].pc = "saveFill" /\ Goto(t, "announce")
        /\ configFile' = [id |-> deviceId, flag |-> flag] /\ UNCHANGED flag
    BY <1>9 DEF ConfigFill, ConfigSaved, At
  <2>2. task'[t].pc = "announce" /\ \A u \in Conns \ {t} : task'[u] = task[u]
    BY <2>1, GotoTask
  <2>3. FlagOK'
    BY <1>1, <1>6, <2>1, <2>2 DEF FlagOK, Pending, Listening
  <2>4. PublishedOK' /\ FileOK'
    BY <1>1, <2>1, <2>2 DEF PublishedOK, FileOK
  <2>5. IdOK'
    BY <1>1, <1>6, <2>1, <2>2, NotTorn DEF IdOK, Listening
  <2> QED
    BY <2>3, <2>4, <2>5 DEF Statuses
<1>10. CASE Announce(t)
  <2>1. /\ task[t].pc = "announce" /\ Reply(t) /\ published' = flag /\ UNCHANGED <<flag, configFile>>
    BY <1>10 DEF Announce, Answer, At
  <2>2. task'[t].pc = "idle" /\ \A u \in Conns \ {t} : task'[u] = task[u]
    BY <2>1, ReplyTask
  <2>3. FlagOK'
    BY <1>1, <1>6, <2>1, <2>2 DEF FlagOK, Pending, Listening
  <2>4. PublishedOK'
    BY <2>1 DEF PublishedOK
  <2>5. configFile = [id |-> deviceId, flag |-> flag]
    BY <1>6, <2>1 DEF Statuses, FileOK, Listening
  <2>6. FileOK'
    BY <1>1, <2>1, <2>5 DEF FileOK
  <2>7. IdOK'
    BY <1>1, <1>6, <2>1, <2>2 DEF IdOK, Listening
  <2> QED
    BY <2>3, <2>4, <2>6, <2>7 DEF Statuses
<1> QED
  BY <1>3, <1>4, <1>5, <1>7, <1>8, <1>9, <1>10

LEMMA StepStatus ==
  ASSUME IInv, Orderly, Status, [Next]_vars, server' = "up", clean'
  PROVE  Statuses'
<1>1. ASSUME Statuses, NEW t \in Conns, task[t].pc = "idle", task'[t].pc \in {"idle", "check", "peers"},
             \A u \in Conns \ {t} : task'[u] = task[u],
             UNCHANGED <<pairing, flag, deviceId, published, configFile, server>>
      PROVE  Statuses'
  BY <1>1, QuietStatus DEF Pending
<1>2. CASE UNCHANGED vars
  <2>1. Statuses
    BY <1>2 DEF vars, Status
  <2> QED
    BY <1>2, <2>1 DEF vars, Statuses, FlagOK, PublishedOK, FileOK, IdOK, Pending, Want, AnyPairing
<1>3. ASSUME NEW t \in Conns, NEW c \in Controllers,
             Setup(t, c) \/ (\E perm \in Permissions : Add(t, c, perm)) \/ Remove(t, c)
      PROVE  Statuses'
  <2>1. PICK kind \in {"setup", "add", "remove"}, perm \in Permissions, pc \in {"peers", "check"} :
          Request(t, kind, c, perm, pc)
    BY <1>3 DEF Setup, Add, Remove, Permissions
  <2>2. /\ Statuses /\ task[t].pc = "idle" /\ task'[t].pc = pc
        /\ \A u \in Conns \ {t} : task'[u] = task[u]
        /\ UNCHANGED <<pairing, flag, deviceId, published, configFile, server>>
    BY <2>1 DEF Request, At, memory, history, Status, IInv, TaskOK
  <2> QED
    BY <1>1, <2>2
<1>4. ASSUME NEW t \in Conns, Close(t) \/ \E c \in Controllers : Verify(t, c) PROVE Statuses'
  <2>1. /\ Statuses /\ task[t].pc = "idle" /\ UNCHANGED task
        /\ UNCHANGED <<pairing, flag, deviceId, published, configFile, server>>
    BY <1>4 DEF Close, Verify, At, memory, process, history, Status
  <2> QED
    BY <1>1, <2>1
<1>5. ASSUME NEW t \in Conns, Handle(t) PROVE Statuses'
  <2>1. server = "up" /\ clean
    BY <1>5 DEF Handle, CheckAdmin, AddLoad, AddOtherKey, Peers, SaveTruncate, SaveFill, SaveOpenFails, SaveFillFails,
                Sign, Delete, Emit, Count, CountFails, SetFlag, ConfigTruncate, ConfigFill,
                ConfigFails, ConfigSaved, Announce, StorageFails, At, history
  <2> QED
    BY <1>5, <2>1, FirstHalfStatus, SecondHalfStatus DEF Handle, Status
<1>6. CASE Start
  <2>1. /\ server \in {"created", "added"} /\ clean /\ published' = flag
        /\ UNCHANGED <<pairing, configFile, deviceId, flag, task>>
    BY <1>6 DEF Start, StartLoad, ShapeSave, NewSave, AccessorySave, StartSaved, StartFill,
                StartFillFails, StartServer, StartSaves, history
  <2>2. flag = Want /\ configFile = [id |-> deviceId, flag |-> flag]
    BY <2>1 DEF Status, Starting, Saved
  <2>3. \A t \in Conns : task[t].pc = "idle"
    BY <2>1 DEF Orderly
  <2>4. Want' = Want
    BY <2>1 DEF Want, AnyPairing
  <2>5. FlagOK' /\ PublishedOK' /\ FileOK'
    BY <2>1, <2>2, <2>3, <2>4 DEF FlagOK, PublishedOK, FileOK
  <2>6. IdOK'
    BY <2>1, <2>2, <2>3, NotTorn DEF IdOK
  <2> QED
    BY <2>5, <2>6 DEF Statuses
<1>7. ~Crash
  BY DEF Crash
<1> QED
  BY <1>2, <1>3, <1>4, <1>5, <1>6, <1>7 DEF Next

\* The saves of a start, one after the other.
LEMMA StepStarting ==
  ASSUME IInv, Orderly, Status, [Next]_vars, clean'
  PROVE  Starting'
<1>1. CASE server' \in {"down", "up"}
  BY <1>1 DEF Starting, StartSaves, Saved
<1>2. CASE UNCHANGED <<server, pairing, configFile, deviceId, flag, clean>>
  BY <1>2 DEF Status, Starting, Want, AnyPairing
<1>3. CASE Start
  <2>1. clean /\ UNCHANGED pairing
    BY <1>3 DEF Start, StartLoad, ShapeSave, NewSave, AccessorySave, StartSaved, StartFill,
                StartFillFails, StartServer, StorageFails, history
  <2>2. Want' = Want /\ Starting
    BY <2>1 DEF Want, AnyPairing, Status
  <2>3. CASE StartLoad \/ ShapeSave \/ AccessorySave
    BY <2>2, <2>3 DEF StartLoad, ShapeSave, AccessorySave, memory, Starting, StartSaves, Saved
  <2>4. CASE NewSave
    BY <2>2, <2>4 DEF NewSave, Starting, StartSaves, Saved, Want
  <2>5. CASE StartFill
    <3>1. /\ configFile' = [id |-> deviceId', flag |-> flag'] /\ flag' = flag
          /\ server \in StartSaves /\ server' \in Saved
          /\ server' = "created" => server = "newSave"
          /\ server' = "added" => server = "accessorySave"
      BY <2>5 DEF StartFill, StartSaved, memory, StartSaves, Saved
    <3> QED
      BY <2>2, <3>1 DEF Starting, StartSaves, Saved
  <2>6. CASE StartFillFails
    BY <2>6 DEF StartFillFails, StorageFails
  <2>7. CASE StartServer
    BY <2>7 DEF StartServer, Starting, StartSaves, Saved
  <2> QED
    BY <1>3, <2>3, <2>4, <2>5, <2>6, <2>7 DEF Start
<1>4. CASE UNCHANGED vars
  BY <1>2, <1>4 DEF vars
<1>5. ASSUME NEW t \in Conns, Close(t) \/ \E c \in Controllers : Verify(t, c) PROVE Starting'
  BY <1>1, <1>5 DEF Close, Verify, At, process
<1>6. ASSUME NEW t \in Conns, NEW c \in Controllers,
             Setup(t, c) \/ (\E perm \in Permissions : Add(t, c, perm)) \/ Remove(t, c)
      PROVE  Starting'
  BY <1>1, <1>6 DEF Setup, Add, Remove, Request, At
<1>7. ASSUME NEW t \in Conns, Handle(t) PROVE Starting'
  BY <1>1, <1>7 DEF Handle, CheckAdmin, AddLoad, AddOtherKey, Peers, SaveTruncate, SaveFill,
                    SaveOpenFails, SaveFillFails, Sign, Delete, Emit, Count, CountFails, SetFlag,
                    ConfigTruncate, ConfigFill, ConfigFails, ConfigSaved, Announce, At, process
<1>8. CASE Crash
  BY <1>1, <1>8 DEF Crash
<1> QED
  BY <1>3, <1>4, <1>5, <1>6, <1>7, <1>8 DEF Next

LEMMA StatusHolds == Spec => [](Orderly /\ Status)
<1>1. Init => Status
  BY DEF Init, Status, Starting, StartSaves, Saved
<1>2. IInv /\ Orderly /\ Status /\ [Next]_vars => Status'
  BY StepStatus, StepStarting DEF Status
<1> QED
  BY <1>1, <1>2, InitInvariant, StepInvariant, InitOrderly, StepOrderly, PTL DEF Spec

\* Whenever no request is in progress, the status flag, the mDNS record and config.json
\* say whether there are pairings, for any number of controllers, connections, requests
\* and crashes, as long as no storage call has failed since the start (the pairing
\* listener of server/ip.rs).
THEOREM StatusFollows == Spec => []StatusFollowsPairings
<1>1. Status => StatusFollowsPairings
  BY DEF Status, Statuses, FlagOK, PublishedOK, FileOK, Pending, Want, Quiet, StatusFollowsPairings
<1> QED
  BY <1>1, StatusHolds, PTL

\* Whoever writes config.json writes the id of the program, whatever fails, and only a
\* start that cannot load the file takes another.
LEMMA FileKeepsId == Spec => [](configFile # Torn => configFile.id = deviceId)
<1> DEFINE FileId == configFile # Torn => configFile.id = deviceId
<1>1. Init => FileId
  BY DEF Init
<1>2. ASSUME FileId, [Next]_vars PROVE FileId'
  <2>1. ASSUME configFile' = Torn \/ UNCHANGED <<configFile, deviceId>>
               \/ (configFile' = [id |-> deviceId, flag |-> flag] /\ UNCHANGED deviceId)
        PROVE  FileId'
    BY <1>2, <2>1
  <2> HIDE DEF FileId
  <2>2. CASE UNCHANGED vars
    BY <2>1, <2>2 DEF vars
  <2>3. ASSUME NEW t \in Conns, NEW c \in Controllers,
               Setup(t, c) \/ (\E perm \in Permissions : Add(t, c, perm)) \/ Remove(t, c)
                 \/ Verify(t, c)
        PROVE  FileId'
    BY <2>1, <2>3 DEF Setup, Add, Remove, Request, Verify, memory
  <2>4. ASSUME NEW t \in Conns, Handle(t) \/ Close(t) PROVE FileId'
    BY <2>1, <2>4 DEF Handle, Close, CheckAdmin, AddLoad, AddOtherKey, Peers, SaveTruncate,
                      SaveFill, SaveOpenFails, SaveFillFails, Sign, Delete, Emit, Count,
                      CountFails, SetFlag, ConfigTruncate, ConfigFill, ConfigFails, ConfigSaved,
                      Announce, memory
  <2>5. CASE Crash
    BY <2>1, <2>5 DEF Crash
  <2>6. CASE Start
    BY <2>1, <2>6 DEF Start, StartLoad, ShapeSave, NewSave, AccessorySave, StartSaved, StartFill,
                      StartFillFails, StartServer, memory
  <2> QED
    BY <1>2, <2>2, <2>3, <2>4, <2>5, <2>6 DEF Next
<1> QED
  BY <1>1, <1>2, PTL DEF Spec

\* A config.json that loads has the device id of the program, or of the last one, and no
\* storage call having failed it loads from the first save of the start on, except
\* between the truncation and the write of one save, for any number of controllers,
\* connections, requests and crashes (main.rs, IpServer::new, the pairing listener).
THEOREM IdKept == Spec => []IdOnFile
<1>1. Status /\ IInv => (server # "down" /\ clean => (configFile = Torn <=> Saving))
  <2> SUFFICES ASSUME Status, IInv, server # "down", clean PROVE configFile = Torn <=> Saving
    OBVIOUS
  <2>1. CASE server = "up"
    BY <2>1 DEF Status, Statuses, IdOK, Saving, StartSaves, At
  <2>2. CASE server \in StartSaves
    BY <2>2 DEF Status, Starting, Saving
  <2>3. CASE server \in Saved
    BY <2>3, NotTorn DEF Status, Starting, Saving, Saved, StartSaves, At
  <2> QED
    BY <2>1, <2>2, <2>3 DEF IInv, RestOK
<1>2. (configFile # Torn => configFile.id = deviceId)
        /\ (server # "down" /\ clean => (configFile = Torn <=> Saving)) => IdOnFile
  BY DEF IdOnFile
<1> QED
  BY <1>1, <1>2, StatusHolds, FileKeepsId, InitInvariant, StepInvariant, PTL DEF Spec

-----------------------------------------------------------------------------
(* Who waits for whom.                                                     *)

\* The mutexes that a request holds where it is.
Has(t, m) ==
  LET pc == task[t].pc
  IN  \/ /\ m = "storage"
         /\ \/ pc \in {"fill", "saveFill"}
            \/ pc \in {"peers", "truncate"} /\ task[t].kind = "add"
      \/ m = "config" /\ pc \in {"saveTruncate", "saveFill"}
      \/ m = "emitter" /\ pc \in Listening

\* Every mutex is held by the request that is at a place for it, and by no other.
Owned ==
  /\ \A t \in Conns, m \in Mutexes : lock[m] = t <=> Has(t, m)
  /\ \A t \in Conns : task[t].pc = "load" => task[t].kind = "add"

LEMMA InitOwned == Init => Owned
BY PairingAssumption DEF Init, Owned, Has, NoTask, Listening

\* A request goes on: it keeps a mutex, takes a free one, or gives one back.
LEMMA OneOwns ==
  ASSUME Owned, NEW t \in Conns,
         \A u \in Conns \ {t} : task'[u] = task[u],
         \A m \in Mutexes : \/ lock'[m] = lock[m] /\ (Has(t, m)' <=> Has(t, m))
                            \/ lock[m] = Nobody /\ lock'[m] = t /\ Has(t, m)'
                            \/ Has(t, m) /\ lock'[m] = Nobody /\ ~Has(t, m)',
         task'[t].pc = "load" => task'[t].kind = "add"
  PROVE  Owned'
<1> SUFFICES ASSUME NEW u \in Conns, NEW m \in Mutexes PROVE lock'[m] = u <=> Has(u, m)'
  BY DEF Owned, Mutexes
<1>1. u # Nobody /\ t # Nobody
  BY PairingAssumption
<1>2. CASE u = t
  BY <1>1, <1>2 DEF Owned
<1>3. CASE u # t
  <2>1. Has(u, m)' <=> Has(u, m)
    BY <1>3 DEF Has
  <2>2. (lock[m] = u <=> Has(u, m)) /\ (lock[m] = t <=> Has(t, m))
    BY DEF Owned
  <2> QED
    BY <1>1, <1>3, <2>1, <2>2
<1> QED
  BY <1>2, <1>3

LEMMA HandleOwned ==
  ASSUME IInv, Orderly, Owned, NEW t \in Conns, Handle(t)
  PROVE  Owned'
<1> DEFINE pc == task[t].pc
           Step(m) == \/ lock'[m] = lock[m] /\ (Has(t, m)' <=> Has(t, m))
                      \/ lock[m] = Nobody /\ lock'[m] = t /\ Has(t, m)'
                      \/ Has(t, m) /\ lock'[m] = Nobody /\ ~Has(t, m)'
<1>1. /\ TaskOK /\ lock \in [Mutexes -> Conns \cup {Nobody}]
      /\ "storage" \in Mutexes /\ "config" \in Mutexes /\ "emitter" \in Mutexes
  BY DEF IInv, RestOK, Mutexes
<1>2. SUFFICES /\ Step("storage") /\ Step("config") /\ Step("emitter")
               /\ \A u \in Conns \ {t} : task'[u] = task[u]
               /\ task'[t].pc = "load" => task'[t].kind = "add"
  BY OneOwns DEF Mutexes
<1>3. ASSUME NEW q, Goto(t, q)
      PROVE  /\ task'[t].pc = q /\ task'[t].kind = task[t].kind
             /\ \A u \in Conns \ {t} : task'[u] = task[u]
  BY <1>1, <1>3, GotoTask
<1>4. ASSUME Reply(t)
      PROVE  task'[t].pc = "idle" /\ \A u \in Conns \ {t} : task'[u] = task[u]
  BY <1>1, <1>4, ReplyTask
<1>5. ASSUME NEW m \in Mutexes, Take(t, m)
      PROVE  lock[m] = Nobody /\ lock'[m] = t /\ \A n \in Mutexes \ {m} : lock'[n] = lock[n]
  BY <1>1, <1>5 DEF Take, Free
<1>6. ASSUME NEW ms, Release(ms)
      PROVE  \A m \in Mutexes : lock'[m] = IF m \in ms THEN Nobody ELSE lock[m]
  BY <1>6 DEF Release
<1>7. CASE CheckAdmin(t)
  <2>1. pc = "check" /\ lock' = lock
        /\ (Reply(t) \/ Goto(t, IF task[t].kind = "add" THEN "load" ELSE "delete"))
    BY <1>7 DEF CheckAdmin, At
  <2> QED
    BY <1>3, <1>4, <2>1 DEF Has, Listening
<1>8. CASE AddLoad(t)
  <2>1. /\ pc = "load" /\ Take(t, "storage")
        /\ Goto(t, IF Usable(task[t].of) THEN "truncate" ELSE "peers")
        /\ task[t].kind = "add"
    BY <1>8 DEF AddLoad, At, Owned
  <2> QED
    BY <1>1, <1>3, <1>5, <2>1 DEF Has, Listening
<1>9. CASE AddOtherKey(t)
  <2>1. pc = "load" /\ lock' = lock /\ Reply(t)
    BY <1>9 DEF AddOtherKey, At
  <2> QED
    BY <1>4, <2>1 DEF Has, Listening
<1>10. CASE Peers(t)
  <2>1. pc = "peers" /\ lock' = lock /\ Goto(t, "truncate")
    BY <1>10 DEF Peers, At
  <2> QED
    BY <1>3, <2>1 DEF Has, Listening
<1>11. CASE SaveTruncate(t)
  <2>1. /\ pc = "truncate" /\ Goto(t, "fill")
        /\ IF task[t].kind = "add" THEN lock' = lock ELSE Take(t, "storage")
    BY <1>11 DEF SaveTruncate, At
  <2> QED
    BY <1>1, <1>3, <1>5, <2>1 DEF Has, Listening
<1>12. CASE SaveFill(t)
  <2>1. /\ pc = "fill" /\ Release({"storage"})
        /\ Goto(t, IF task[t].kind = "setup" THEN "sign" ELSE "emit")
    BY <1>12 DEF SaveFill, At
  <2> QED
    BY <1>1, <1>3, <1>6, <2>1 DEF Has, Listening
<1>13. CASE SaveOpenFails(t)
  <2>1. /\ pc = "truncate" /\ Reply(t)
        /\ task[t].kind = "add" \/ lock["storage"] = Nobody
        /\ Release(IF task[t].kind = "add" THEN {"storage"} ELSE {})
    BY <1>13 DEF SaveOpenFails, At, Free
  <2> QED
    BY <1>1, <1>4, <1>6, <2>1 DEF Has, Listening
<1>22. CASE SaveFillFails(t)
  <2>1. /\ pc = "fill" /\ Release({"storage"})
        /\ Goto(t, IF task[t].kind = "setup" THEN "sign" ELSE "emit")
    BY <1>22 DEF SaveFillFails, At
  <2> QED
    BY <1>1, <1>3, <1>6, <2>1 DEF Has, Listening
<1>14. CASE Sign(t)
  <2>1. pc = "sign" /\ lock' = lock /\ Goto(t, "emit")
    BY <1>14 DEF Sign, At
  <2> QED
    BY <1>3, <2>1 DEF Has, Listening
<1>15. CASE Delete(t)
  <2>1. pc = "delete" /\ lock' = lock /\ (Reply(t) \/ Goto(t, "emit"))
    BY <1>15 DEF Delete, At
  <2> QED
    BY <1>3, <1>4, <2>1 DEF Has, Listening
<1>16. CASE Emit(t)
  <2>1. pc = "emit" /\ Take(t, "emitter") /\ Goto(t, "count")
    BY <1>16 DEF Emit, At
  <2> QED
    BY <1>1, <1>3, <1>5, <2>1 DEF Has, Listening
<1>17. CASE Count(t) \/ CountFails(t)
  <2>1. /\ pc = "count"
        /\ \/ Goto(t, "config") /\ lock' = lock
           \/ Release({"emitter"}) /\ Reply(t)
    BY <1>17 DEF Count, CountFails, Answer, At
  <2> QED
    BY <1>1, <1>3, <1>4, <1>6, <2>1 DEF Has, Listening
<1>18. CASE SetFlag(t)
  <2>1. pc = "config" /\ Take(t, "config") /\ Goto(t, "saveTruncate")
    BY <1>18 DEF SetFlag, At
  <2> QED
    BY <1>1, <1>3, <1>5, <2>1 DEF Has, Listening
<1>19. CASE ConfigTruncate(t)
  <2>1. pc = "saveTruncate" /\ Take(t, "storage") /\ Goto(t, "saveFill")
    BY <1>19 DEF ConfigTruncate, At
  <2> QED
    BY <1>1, <1>3, <1>5, <2>1 DEF Has, Listening
<1>20. CASE ConfigFill(t) \/ ConfigFails(t)
  <2>1. /\ pc = "saveFill" \/ (pc = "saveTruncate" /\ lock["storage"] = Nobody)
        /\ Release({"storage", "config"}) /\ Goto(t, "announce")
    BY <1>20 DEF ConfigFill, ConfigFails, ConfigSaved, At, Free
  <2> QED
    BY <1>1, <1>3, <1>6, <2>1 DEF Has, Listening
<1>21. CASE Announce(t)
  <2>1. pc = "announce" /\ Release({"emitter"}) /\ Reply(t)
    BY <1>21 DEF Announce, Answer, At
  <2> QED
    BY <1>1, <1>4, <1>6, <2>1 DEF Has, Listening
<1> QED
  BY <1>7, <1>8, <1>9, <1>10, <1>11, <1>12, <1>13, <1>14, <1>15, <1>16, <1>17, <1>18, <1>19,
     <1>20, <1>21, <1>22 DEF Handle

LEMMA StepOwned == IInv /\ Orderly /\ Owned /\ [Next]_vars => Owned'
<1> SUFFICES ASSUME IInv, Orderly, Owned, [Next]_vars PROVE Owned'
  OBVIOUS
<1>1. ASSUME UNCHANGED <<task, lock>> PROVE Owned'
  BY <1>1 DEF Owned, Has
<1>2. ASSUME NEW t \in Conns, NEW c \in Controllers, NEW kind \in {"setup", "add", "remove"},
             NEW perm \in Permissions, NEW pc \in {"peers", "check"},
             Request(t, kind, c, perm, pc), pc = "peers" <=> kind = "setup"
      PROVE  Owned'
  <2>1. /\ task[t].pc = "idle" /\ lock' = lock
        /\ task'[t].pc = pc /\ task'[t].kind = kind /\ \A u \in Conns \ {t} : task'[u] = task[u]
    BY <1>2 DEF Request, At, IInv, TaskOK
  <2>2. \A m \in Mutexes : Has(t, m)' <=> Has(t, m)
    BY <1>2, <2>1 DEF Has, Listening
  <2> QED
    BY <2>1, <2>2, OneOwns
<1>3. ASSUME NEW t \in Conns, NEW c \in Controllers,
             Setup(t, c) \/ (\E perm \in Permissions : Add(t, c, perm)) \/ Remove(t, c)
      PROVE  Owned'
  BY <1>2, <1>3 DEF Setup, Add, Remove, Permissions
<1>4. ASSUME NEW t \in Conns, Close(t) \/ \E c \in Controllers : Verify(t, c) PROVE Owned'
  BY <1>1, <1>4 DEF Close, Verify
<1>5. CASE Crash
  BY <1>5, PairingAssumption DEF Crash, Owned, Has, NoTask, Listening
<1>6. CASE Start
  BY <1>1, <1>6 DEF Start, StartLoad, ShapeSave, NewSave, AccessorySave, StartSaved, StartFill,
                    StartFillFails, StartServer
<1>7. CASE UNCHANGED vars
  BY <1>1, <1>7 DEF vars
<1> QED
  BY <1>3, <1>4, <1>5, <1>6, <1>7, HandleOwned DEF Next

\* The handlers and the listener can block each other in one way only, for any number
\* of connections: handle_add has storage and waits for config, which the listener of
\* another request has while it waits for storage.  There is no other cycle, and no
\* mutex is left locked by a request that has ended.
THEOREM OneDeadlock == Spec => [](Stuck => AddMeetsListener)
<1>1. IInv /\ Orderly /\ Owned /\ Stuck => AddMeetsListener
  <2> SUFFICES ASSUME IInv, Orderly, Owned, Stuck PROVE AddMeetsListener
    OBVIOUS
  <2>1. \A m \in Mutexes : ~Free(m) => lock[m] \in Conns /\ Has(lock[m], m)
    BY DEF IInv, RestOK, Free, Owned
  <2>2. ASSUME NEW t \in Conns, NEW m \in Mutexes, Has(t, m)
        PROVE  task[t].pc # "idle" /\ Awaits(t) \in Mutexes /\ ~Free(Awaits(t))
    BY <2>2 DEF Has, Listening, Stuck, InProgress
  <2>3. ASSUME ~Free("storage") PROVE AddMeetsListener
    <3> DEFINE t == lock["storage"]
    <3>1. t \in Conns /\ Has(t, "storage") /\ "storage" \in Mutexes
      BY <2>1, <2>3 DEF Mutexes
    <3>2. Awaits(t) \in Mutexes /\ ~Free(Awaits(t))
      BY <2>2, <3>1
    <3> HIDE DEF t
    <3>3. task[t].pc = "peers" /\ task[t].kind = "add" /\ Awaits(t) = "config"
      BY <3>1, <3>2 DEF Has, Awaits, Mutexes
    <3> DEFINE u == lock["config"]
    <3>4. u \in Conns /\ Has(u, "config") /\ "config" \in Mutexes
      BY <2>1, <3>2, <3>3
    <3>5. Awaits(u) \in Mutexes
      BY <2>2, <3>4
    <3>6. lock["config"] = u
      OBVIOUS
    <3> HIDE DEF u
    <3>7. task[u].pc = "saveTruncate"
      BY <3>4, <3>5 DEF Has, Awaits, Mutexes
    <3>8. lock["storage"] = t
      BY DEF t
    <3>9. server = "up"
      BY DEF Orderly, Stuck, InProgress
    <3> QED
      BY <3>1, <3>3, <3>4, <3>6, <3>7, <3>8, <3>9 DEF AddMeetsListener, At
  <2>4. ASSUME ~Free("config") PROVE ~Free("storage")
    <3> DEFINE u == lock["config"]
    <3>1. u \in Conns /\ Has(u, "config") /\ "config" \in Mutexes
      BY <2>1, <2>4 DEF Mutexes
    <3>2. Awaits(u) \in Mutexes /\ ~Free(Awaits(u))
      BY <2>2, <3>1
    <3> HIDE DEF u
    <3> QED
      BY <3>1, <3>2 DEF Has, Awaits, Mutexes
  <2>5. ASSUME ~Free("emitter") PROVE ~Free("storage") \/ ~Free("config")
    <3> DEFINE w == lock["emitter"]
    <3>1. w \in Conns /\ Has(w, "emitter") /\ "emitter" \in Mutexes
      BY <2>1, <2>5 DEF Mutexes
    <3>2. Awaits(w) \in Mutexes /\ ~Free(Awaits(w))
      BY <2>2, <3>1
    <3> HIDE DEF w
    <3> QED
      BY <3>1, <3>2 DEF Has, Awaits, Mutexes, Listening
  <2>6. \E m \in Mutexes : ~Free(m)
    BY DEF Stuck, InProgress
  <2> QED
    BY <2>3, <2>4, <2>5, <2>6 DEF Mutexes
<1> QED
  BY <1>1, InitInvariant, StepInvariant, InitOrderly, StepOrderly, InitOwned, StepOwned, PTL DEF Spec
=============================================================================
