--------------------------- MODULE CameraSettings ---------------------------
(***************************************************************************)
(* The camera profiles of src/src/amcrest.rs: at its start the program     *)
(* brings one profile after the other to the camera (main.rs, then         *)
(* HsvState::resume_recorder in hsv/recording.rs), each a set of keys of   *)
(* one of the camera's configuration tables.  A profile goes there in one  *)
(* of four ways:                                                           *)
(*   bulk:  all keys in one CGI request, read back once                    *)
(*   parts: one CGI request after the other, read back once                *)
(*   each:  key by key over CGI, read back and retried                     *)
(*   rpc:   the whole table is read, edited and written back over RPC2,    *)
(*          read back and retried                                          *)
(* The camera keeps some of what it is told, loses answers, stops          *)
(* reporting a key, and resets other profiles when one changes; somebody   *)
(* else writes to it as well.  A request and its answer are one step: the  *)
(* tables are those of the camera when it handles the request.             *)
(*                                                                         *)
(* The specification carries the prefix Settings in the names that others  *)
(* have too, so that CameraProofs can extend this module as well.          *)
(***************************************************************************)
EXTENDS Integers, Sequences

CONSTANTS Optional,      \* keys a camera may not have, at most one is missing
          Attempts,      \* RPC_CONFIG_ATTEMPTS
          MaxFaults,     \* bound: requests that go wrong
          Foreign,       \* bound: the keys that somebody else writes
          MaxForeign     \* bound: how often

ASSUME SettingsAssumption == Attempts \in Nat \ {0} /\ {MaxFaults, MaxForeign} \subseteq Nat

-----------------------------------------------------------------------------
(* The profiles.  after: the profiles whose failure keeps this one from     *)
(* being tried (the ? of the function they share); login: it begins with a  *)
(* login of its own.                                                        *)

Profile(name, table, via, keys, after, login) ==
    [name |-> name, table |-> table, via |-> via, keys |-> keys, after |-> after, login |-> login]

LiveStream == Profile("live", "Encode", "bulk", <<"extra2.size", "extra2.rate">>, {}, FALSE)
Unused == Profile("unused", "Encode", "rpc", <<"extra1.on">>, {}, TRUE)
\* The tables of the media profile, in the order of their names.
MediaAudio == Profile("audio", "Encode", "each", <<"main.hz">>, {}, FALSE)
MediaImage == Profile("image", "VideoIn", "each", <<"exposure", "denoise">>, {"audio"}, FALSE)
Overlay == Profile("overlay", "VideoWidget", "parts", <<"font", "ptz">>, {}, FALSE)
Recording == Profile("recording", "Encode", "rpc", <<"main.size", "main.hz">>, {}, TRUE)
Snapshot == Profile("snapshot", "Encode", "rpc", <<"snap">>, {}, TRUE)
Rule == Profile("rule", "VideoAnalyseRule", "rpc", <<"rule">>, {}, TRUE)
Smart == Profile("smart", "SmartMotionDetect", "rpc", <<"smart">>, {"rule"}, FALSE)
Motion == Profile("motion", "MotionDetect", "rpc", <<"motion">>, {"rule", "smart"}, FALSE)

\* Mutant: the motion profile is applied before the one of smart motion.
Plan_MotionFirst ==
    <<LiveStream, Unused, MediaAudio, MediaImage, Overlay, Recording, Snapshot, Rule, Motion, Smart>>

\* The order in which the program applies them.
Plan ==
    <<LiveStream, Unused, MediaAudio, MediaImage, Overlay, Recording, Snapshot, Rule, Smart, Motion>>

Steps == DOMAIN Plan
Keys(i) == {Plan[i].keys[j] : j \in DOMAIN Plan[i].keys}
Alien == "alien"     \* a key of the encoder's table that no profile has
AllKeys == (UNION {Keys(i) : i \in Steps}) \cup {Alien}
TableKeys(i) == (UNION {Keys(j) : j \in {j \in Steps : Plan[j].table = Plan[i].table}})
                  \cup (IF Plan[i].table = "Encode" THEN {Alien} ELSE {})

\* What the camera may reset when a profile changes: an encoder write takes the
\* snapshot profile and the detection with it, a rule the detection, and any
\* other the motion profile.
Dependents(i) ==
    CASE Plan[i].name = "snapshot" -> {"smart", "motion"}
      [] Plan[i].name # "snapshot" /\ Plan[i].table = "Encode" -> {"snap", "smart", "motion"}
      [] Plan[i].name = "rule" -> {"smart", "motion"}
      [] OTHER -> {"motion"}

VARIABLES camera,    \* key -> "want", "none" (not reported), or some other value
          selected,  \* the recording configuration: "none", or the value of main.hz
          step,      \* the profile at work
          pc,        \* what it does next
          attempt,
          key,       \* each, parts: the key at work
          copy,      \* the table as it was read
          reported,  \* the keys the first read of the profile found
          outcome,   \* what each profile returned
          faults, foreign,
          fresh,     \* history: no foreign write since this attempt began
          disturbed  \* history: somebody else wrote one of our keys
settingsVars == <<camera, selected, step, pc, attempt, key, copy, reported, outcome, faults,
                  foreign, fresh, disturbed>>

Others == {"other", "foreign"}      \* values that are not the usual one
Values == Others \cup {"want", "none"}

SettingsTypeOK ==
    /\ camera \in [AllKeys -> Values]
    /\ selected \in {"none", "want", "other"}
    /\ step \in 1..(Len(Plan) + 1)
    /\ pc \in {"login", "read", "write", "verify", "reread", "check"}
    /\ attempt \in 1..Attempts
    /\ key \in 1..Len(Plan[IF step \in Steps THEN step ELSE 1].keys)
    /\ copy \in [AllKeys -> Values]
    /\ reported \subseteq AllKeys
    /\ outcome \in [Steps -> {"pending", "ok", "failed", "skipped"}]
    /\ faults \in 0..MaxFaults /\ foreign \in 0..MaxForeign
    /\ fresh \in BOOLEAN /\ disturbed \in BOOLEAN

NoTable == [k \in AllKeys |-> "none"]

\* Where a profile begins.
First(i) == IF i \in Steps /\ Plan[i].login THEN "login" ELSE "read"

\* No recording configuration, no recording profile.
SettingsInit ==
    /\ \E missing \in {{}} \cup {{k} : k \in Optional}, value \in {"want", "other"} :
          camera = [k \in AllKeys |-> IF k \in missing THEN "none" ELSE value]
    /\ selected \in {"none", "want", "other"}
    /\ step = 1 /\ pc = First(1) /\ attempt = 1 /\ key = 1
    /\ copy = NoTable /\ reported = {}
    /\ outcome = [i \in Steps |-> IF Plan[i].name = "recording" /\ selected = "none"
                                     THEN "skipped" ELSE "pending"]
    /\ faults = 0 /\ foreign = 0 /\ fresh = TRUE /\ disturbed = FALSE

-----------------------------------------------------------------------------
Done == step \notin Steps
Via(way) == ~Done /\ Plan[step].via = way
Key == Plan[step].keys[key]

\* The value a profile wants.  The media profile always has 48 kHz, the
\* recording profile what the selected configuration says.
Want(i, k) == IF Plan[i].name = "recording" /\ k = "main.hz" THEN selected ELSE "want"

\* The table of the profile as the camera reports it now.
Table == [k \in AllKeys |-> IF k \in TableKeys(step) THEN camera[k] ELSE "none"]
Reported(table) == {k \in AllKeys : table[k] # "none"}

Fault == faults < MaxFaults /\ faults' = faults + 1
NoFault == UNCHANGED faults

\* The profile returns.  One that fails takes those with it that its caller
\* would have gone on with.
Skipped(i) == {j \in Steps : j > i /\ Plan[i].name \in Plan[j].after}
Return(result) ==
    /\ outcome' = [i \in Steps |->
                     CASE i = step -> result
                       [] i \in Skipped(step) /\ result = "failed" -> "skipped"
                       [] OTHER -> outcome[i]]
    /\ step' = LET rest == {i \in Steps : i > step /\ outcome'[i] = "pending"}
               IN IF rest = {} THEN Len(Plan) + 1 ELSE CHOOSE i \in rest : \A j \in rest : i <= j
    /\ pc' = First(step') /\ attempt' = 1 /\ key' = 1
    /\ copy' = NoTable /\ reported' = {} /\ fresh' = TRUE

Goto(next) == pc' = next /\ UNCHANGED <<step, attempt, key, outcome, fresh>>

\* What is wrong with a table that was read back: keys of the profile that the
\* camera reports with another value.
Unapplied(table, i) == {k \in Keys(i) : table[k] \notin {Want(i, k), "none"}}

\* Mutant: a key that is not reported any more is taken for unsupported.
Refused_Vanished(keys) == {k \in keys : camera[k] \notin {Want(step, k), "none"}}

\* The same against the keys that were reported before the write.
Refused(keys) == {k \in keys : camera[k] # Want(step, k)}

-----------------------------------------------------------------------------
(* The camera handles a setConfig with the values new for the given keys:   *)
(* it keeps them all, or some, and may stop to report a key of the table,   *)
(* one it was told to set or another; when anything changed it may reset    *)
(* profiles that depend on this one.                                        *)

Kept(new, kept, lost, reset) ==
    LET resets == IF reset /\ kept # {}
                    THEN {k \in Dependents(step) : camera[k] # "none"} \ (kept \cup lost)
                    ELSE {}
    IN [k \in AllKeys |->
          CASE k \in kept -> new[k]
            [] k \in lost -> "none"
            [] k \in resets -> "other"
            [] OTHER -> camera[k]]

SetConfig(new, keys, answered) ==
    LET changes == {k \in keys : new[k] # "none" /\ camera[k] # "none" /\ new[k] # camera[k]}
        there == {k \in TableKeys(step) : camera[k] # "none"}
    IN \E kept \in SUBSET changes, lost \in {{}} \cup {{k} : k \in there}, reset \in BOOLEAN :
        /\ kept \cap lost = {}
        /\ IF kept = changes /\ lost = {} /\ answered THEN NoFault ELSE Fault
        /\ camera' = Kept(new, kept, lost, reset)

\* A request that is answered by an error, or not understood.
Fails == Fault /\ UNCHANGED camera

\* rpc_login: both of its requests.
Login ==
    /\ ~Done /\ pc = "login"
    /\ \/ Goto("read") /\ NoFault /\ UNCHANGED <<copy, reported>>
       \/ Fault /\ Return("failed")
    /\ UNCHANGED camera

-----------------------------------------------------------------------------
(* rpc: apply_supported_settings_rpc.                                      *)

\* Mutant: a retry edits the table that was read first.
Again_SameTable ==
    /\ attempt < Attempts
    /\ attempt' = attempt + 1
    /\ pc' = IF copy = NoTable THEN "read" ELSE "write"
    /\ fresh' = TRUE
    /\ UNCHANGED <<step, key, copy, reported, outcome>>

\* Mutant: one attempt more than there are.
Again_OneMore ==
    /\ attempt <= Attempts
    /\ attempt' = attempt + 1
    /\ pc' = "read"
    /\ copy' = NoTable
    /\ fresh' = TRUE
    /\ UNCHANGED <<step, key, reported, outcome>>

\* The next attempt, with a fresh table.
Again ==
    /\ attempt < Attempts
    /\ attempt' = attempt + 1
    /\ pc' = "read"
    /\ copy' = NoTable
    /\ fresh' = TRUE
    /\ UNCHANGED <<step, key, reported, outcome>>

Retry == Again \/ (attempt = Attempts /\ Return("failed"))

\* As wanted; the snapshot profile goes on to check what the camera makes of it.
Applied == IF Plan[step].name = "snapshot" THEN Goto("check") /\ UNCHANGED <<copy, reported>>
                                           ELSE Return("ok")

\* apply_rpc_settings: nothing to update means success.
RpcRead ==
    /\ Via("rpc") /\ pc = "read"
    /\ IF Unapplied(Table, step) = {}
         THEN Applied
         ELSE Goto("write") /\ copy' = Table /\ UNCHANGED reported
    /\ NoFault /\ UNCHANGED camera

\* The whole table goes back, edited.
Edited == [k \in AllKeys |-> IF k \in Keys(step) /\ copy[k] # "none" THEN Want(step, k) ELSE copy[k]]
RpcWrite ==
    /\ Via("rpc") /\ pc = "write"
    /\ \/ SetConfig(Edited, TableKeys(step), TRUE) /\ Goto("verify") /\ UNCHANGED <<copy, reported>>
       \/ SetConfig(Edited, TableKeys(step), FALSE) /\ Retry

RpcVerify ==
    /\ Via("rpc") /\ pc = "verify"
    /\ IF Unapplied(Table, step) = {} THEN Applied ELSE Retry
    /\ NoFault /\ UNCHANGED camera

\* A read failed as often as rpc_get_config tries it.
RpcFails ==
    /\ Via("rpc") /\ pc \in {"read", "verify"}
    /\ Fails
    /\ Retry

\* The end of ensure_snapshot_profile: the main stream it is linked to must
\* have the selected size, and the picture the expected one.
SnapshotCheck ==
    /\ ~Done /\ pc = "check"
    /\ \/ NoFault /\ Return(IF selected = "none" \/ camera["main.size"] = "want"
                              THEN "ok" ELSE "failed")
       \/ Fault /\ Return("failed")
    /\ UNCHANGED camera

-----------------------------------------------------------------------------
(* each: apply_supported_settings_cgi.                                     *)

\* On to the next key that is supported and not as wanted, or Ok.
Continue(from, table) ==
    LET left == {j \in DOMAIN Plan[step].keys :
                    j >= from /\ table[Plan[step].keys[j]] \notin {"want", "none"}}
    IN IF left = {} THEN Return("ok")
       ELSE /\ key' = CHOOSE j \in left : \A l \in left : j <= l
            /\ pc' = "write" /\ attempt' = 1 /\ copy' = table /\ fresh' = TRUE
            /\ UNCHANGED <<step, outcome>>
            /\ reported' = IF from = 1 THEN Reported(table) ELSE reported

EachRead ==
    /\ Via("each") /\ pc = "read"
    /\ Continue(1, Table)
    /\ NoFault /\ UNCHANGED camera

\* The key could not be set or is not as wanted: after a pause the table is
\* read again.
Pause ==
    IF attempt < Attempts THEN Goto("reread") /\ UNCHANGED <<copy, reported>> ELSE Return("failed")

EachWrite ==
    /\ Via("each") /\ pc = "write"
    /\ LET new == [copy EXCEPT ![Key] = "want"]
       IN \/ SetConfig(new, {Key}, TRUE) /\ Goto("verify") /\ UNCHANGED <<copy, reported>>
          \/ SetConfig(new, {Key}, FALSE) /\ Pause

EachVerify ==
    /\ Via("each") /\ pc = "verify"
    /\ IF Refused({Key}) = {} THEN Continue(key + 1, Table) ELSE Pause
    /\ NoFault /\ UNCHANGED camera

EachReread ==
    /\ Via("each") /\ pc = "reread"
    /\ IF Refused({Key}) = {}
         THEN Continue(key + 1, Table)
         ELSE /\ pc' = "write" /\ attempt' = attempt + 1 /\ copy' = Table /\ fresh' = TRUE
              /\ UNCHANGED <<step, key, reported, outcome>>
    /\ NoFault /\ UNCHANGED camera

\* Reading fails: at first and in the pause that is the end of it.
EachFails ==
    /\ Via("each") /\ pc \in {"read", "verify", "reread"}
    /\ Fails
    /\ IF pc = "verify" THEN Pause ELSE Return("failed")

-----------------------------------------------------------------------------
(* bulk: ensure_live_substream with apply_live_profile.  A key that the     *)
(* camera does not report makes it write every time.                        *)

BulkRead ==
    /\ Via("bulk") /\ pc = "read"
    /\ IF Refused(Keys(step)) = {}
         THEN Return("ok")
         ELSE Goto("write") /\ copy' = Table /\ reported' = Reported(Table)
    /\ NoFault /\ UNCHANGED camera

BulkWrite ==
    /\ Via("bulk") /\ pc = "write"
    /\ \/ SetConfig(Edited, Keys(step), TRUE) /\ Goto("verify") /\ UNCHANGED <<copy, reported>>
       \/ SetConfig(Edited, Keys(step), FALSE) /\ Return("failed")

(* parts: ensure_overlay_profile.  What to write is decided by the first    *)
(* read.                                                                    *)

\* The next key that was not as wanted when it was read, or the verification.
NextPart(from, table) ==
    LET left == {j \in DOMAIN Plan[step].keys :
                    j >= from /\ table[Plan[step].keys[j]] \notin {"want", "none"}}
    IN /\ IF left = {} THEN pc' = "verify" /\ UNCHANGED key
                       ELSE pc' = "write" /\ key' = CHOOSE j \in left : \A l \in left : j <= l
       /\ copy' = table
       /\ UNCHANGED <<step, attempt, outcome, fresh>>

PartsRead ==
    /\ Via("parts") /\ pc = "read"
    /\ NextPart(1, Table) /\ reported' = Reported(Table)
    /\ NoFault /\ UNCHANGED camera

PartsWrite ==
    /\ Via("parts") /\ pc = "write"
    /\ \/ SetConfig([copy EXCEPT ![Key] = "want"], {Key}, TRUE)
          /\ NextPart(key + 1, copy) /\ UNCHANGED reported
       \/ SetConfig([copy EXCEPT ![Key] = "want"], {Key}, FALSE) /\ Return("failed")

\* Against the keys the first read reported, for both.
OnceVerify ==
    /\ Via("bulk") \/ Via("parts")
    /\ pc = "verify"
    /\ Return(IF Refused(Keys(step) \cap reported) = {} THEN "ok" ELSE "failed")
    /\ NoFault /\ UNCHANGED camera

OnceFails ==
    /\ Via("bulk") \/ Via("parts")
    /\ pc \in {"read", "verify"}
    /\ Fails
    /\ Return("failed")

-----------------------------------------------------------------------------
\* Somebody else changes a setting, ours or not.
ForeignWrite(k) ==
    /\ ~Done
    /\ foreign < MaxForeign /\ foreign' = foreign + 1
    /\ camera[k] # "none"
    /\ \E value \in Others \ {camera[k]} : camera' = [camera EXCEPT ![k] = value]
    /\ fresh' = FALSE
    /\ disturbed' = (disturbed \/ k # Alien)
    /\ UNCHANGED <<selected, step, pc, attempt, key, copy, reported, outcome, faults>>

Program ==
    /\ \/ Login \/ SnapshotCheck
       \/ RpcRead \/ RpcWrite \/ RpcVerify \/ RpcFails
       \/ EachRead \/ EachWrite \/ EachVerify \/ EachReread \/ EachFails
       \/ BulkRead \/ BulkWrite \/ PartsRead \/ PartsWrite \/ OnceVerify \/ OnceFails
    /\ UNCHANGED <<selected, foreign, disturbed>>

SettingsNext == Program \/ \E k \in Foreign : ForeignWrite(k)

SettingsSpec == SettingsInit /\ [][SettingsNext]_settingsVars

-----------------------------------------------------------------------------
\* When no profile failed and nobody else wrote our settings, every key that the
\* camera reports has the value of the last profile that sets it: profiles that
\* share a table do not undo each other, and one that the camera resets when
\* another changes comes after it.
Setters(k) == {i \in Steps : k \in Keys(i) /\ outcome[i] = "ok"}
ProfilesHold ==
    Done /\ ~disturbed /\ (\A i \in Steps : outcome[i] # "failed")
        => \A k \in AllKeys : \A i \in Setters(k) :
              (\A j \in Setters(k) : j <= i) => camera[k] \in {Want(i, k), "none"}

\* Writing a whole table back never undoes what somebody else set before the
\* attempt began: each attempt edits a table of its own.  (The camera may stop to
\* report the key by itself.)
ForeignKept ==
    [][foreign' = foreign /\ camera'[Alien] \notin {camera[Alien], "none"} => ~fresh]_settingsVars

\* A write that the camera answers with OK and that makes a key vanish is noticed
\* where a profile goes there in requests that are read back once: it returns Ok
\* only when every key its first read reported is still there, whichever of its
\* requests the camera dropped it with (unapplied_reported_settings).  Key by key
\* it is noticed of the key at work, which is not left behind unreported
\* (apply_supported_settings_cgi).  A key that goes with the write of another is
\* skipped there, and over RPC2 every key that is gone is.
VanishNoticed ==
    [][/\ \A i \in Steps :
            outcome[i] = "pending" /\ outcome'[i] = "ok" /\ Plan[i].via \in {"bulk", "parts"}
               => \A k \in Keys(i) \cap reported : camera[k] # "none"
       /\ Via("each") /\ pc \in {"verify", "reread"} /\ outcome'[step] # "failed"
             /\ (key' # key \/ step' # step)
            => camera[Key] # "none"]_settingsVars
=============================================================================
