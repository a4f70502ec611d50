------------------------------ MODULE LiveView ------------------------------
(***************************************************************************)
(* The live-view sessions of src/stream.rs (StreamManager): SetupEndpoints *)
(* prepares a session, SelectedRTPStreamConfiguration starts and ends its  *)
(* stream, and one slot holds the answer to the last setup write for       *)
(* whoever reads next.                                                     *)
(*                                                                         *)
(* Every handler holds the accessory's lock, and start_stream and          *)
(* end_session hold the manager's from their first look at it to their     *)
(* last, so a write is one step.  Only the shutdown comes from outside     *)
(* that lock.  ffmpeg processes and proxies that end by themselves change  *)
(* nothing the manager keeps.                                              *)
(***************************************************************************)
EXTENDS Integers, FiniteSets

CONSTANTS Sessions,   \* HAP session ids; a controller makes its own
          MaxSetups,  \* bound: setup writes that prepare a session
          NoSession

ASSUME LiveViewAssumption ==
  /\ NoSession \notin Sessions
  /\ IsFiniteSet(Sessions)
  /\ MaxSetups \in Nat

VARIABLES sessions,       \* prepared, by id
          children,       \* the setup each video ffmpeg was started from, or 0
          audio_children,
          video_proxies,
          audio_proxies,
          setup_response, \* session and setup of the answer to read
          gauge,          \* metrics: live connections
          phase,          \* of the program
          setups,         \* number of the last setup
          told            \* the controller's: the setup it has the answer to

streams == <<children, audio_children, video_proxies, audio_proxies>>
vars == <<sessions, streams, setup_response, gauge, phase, setups, told>>

Setups == 0..MaxSetups

\* A Session: setup is its number, which stands for its sockets, keys and
\* SSRCs; videoKey and audioKey are what SrtpSession::new makes of the keys.
Session == [setup    : Setups,
            videoKey : BOOLEAN,
            audioKey : {"none", "bad", "good"}]

NotPrepared == [setup |-> 0, videoKey |-> FALSE, audioKey |-> "none"]

Nothing == [s \in Sessions |-> 0]

TypeOK ==
  /\ sessions \in [Sessions -> Session]
  /\ \A m \in {children, audio_children, video_proxies, audio_proxies, told} :
       m \in [Sessions -> Setups]
  /\ setup_response \in [session : Sessions \cup {NoSession}, setup : Setups]
  /\ gauge \in 0..Cardinality(Sessions)
  /\ phase \in {"up", "stopping", "gone"}
  /\ setups \in Setups

NoResponse == [session |-> NoSession, setup |-> 0]

Init ==
  /\ sessions = [s \in Sessions |-> NotPrepared]
  /\ children = Nothing
  /\ audio_children = Nothing
  /\ video_proxies = Nothing
  /\ audio_proxies = Nothing
  /\ setup_response = NoResponse
  /\ gauge = 0
  /\ phase = "up"
  /\ setups = 0
  /\ told = Nothing

Prepared == {s \in Sessions : sessions[s].setup # 0}
Live(m) == Cardinality({s \in Sessions : m[s] # 0})

-----------------------------------------------------------------------------
(* SetupEndpoints.                                                         *)

\* Mutant: a session that is prepared already is kept.
Insert_Keep(s, new) ==
  IF sessions[s].setup # 0 THEN sessions ELSE [sessions EXCEPT ![s] = new]

\* sessions.insert: a second setup replaces the first.
Insert(s, new) == [sessions EXCEPT ![s] = new]

\* handle_setup_write.
SetupWrite(s) ==
  /\ phase # "gone"
  /\ setups < MaxSetups
  /\ \E vk \in BOOLEAN, ak \in {"none", "bad", "good"} :
       sessions' = Insert(s, [setup |-> setups + 1, videoKey |-> vk, audioKey |-> ak])
  /\ setup_response' = [session |-> s, setup |-> setups + 1]
  /\ setups' = setups + 1
  /\ told' = [told EXCEPT ![s] = 0]
  /\ UNCHANGED <<streams, gauge, phase>>

\* A port could not be reserved: the session and the answer stay what they
\* were, and the write succeeds.
SetupWriteFails(s) ==
  /\ phase # "gone"
  /\ told' = [told EXCEPT ![s] = 0]
  /\ UNCHANGED <<sessions, streams, setup_response, gauge, phase, setups>>

\* setup_read.  The controller drops an answer with another session's id;
\* with no answer it reads its own request back.
SetupRead(s) ==
  /\ phase # "gone"
  /\ told' = [told EXCEPT ![s] = IF setup_response.session = s
                                 THEN setup_response.setup
                                 ELSE 0]
  /\ UNCHANGED <<sessions, streams, setup_response, gauge, phase, setups>>

-----------------------------------------------------------------------------
(* SelectedRTPStreamConfiguration.                                         *)

\* Mutant: the audio process is left to itself.
Without_VideoOnly(S) ==
  /\ children' = [s \in Sessions |-> IF s \in S THEN 0 ELSE children[s]]
  /\ video_proxies' = [s \in Sessions |-> IF s \in S THEN 0 ELSE video_proxies[s]]
  /\ UNCHANGED <<audio_children, audio_proxies>>

\* The processes killed and the proxies aborted of the sessions S.
Without(S) ==
  /\ children' = [s \in Sessions |-> IF s \in S THEN 0 ELSE children[s]]
  /\ audio_children' = [s \in Sessions |-> IF s \in S THEN 0 ELSE audio_children[s]]
  /\ video_proxies' = [s \in Sessions |-> IF s \in S THEN 0 ELSE video_proxies[s]]
  /\ audio_proxies' = [s \in Sessions |-> IF s \in S THEN 0 ELSE audio_proxies[s]]

\* The session a start is for: the one it names, or the only one prepared.
Selected(sid) ==
  IF sid # NoSession THEN Prepared \cap {sid}
  ELSE IF Cardinality(Prepared) = 1 THEN Prepared ELSE {}

Taken(s) == [sessions EXCEPT ![s] = NotPrepared]

\* start_stream up to the end: video, and audio where the session has a key.
\* Audio may fail beside video, and runs without a proxy under a bad key.
StartStream(sid) ==
  /\ phase # "gone"
  /\ \E s \in Selected(sid) :
       LET n == sessions[s].setup
       IN  /\ sessions[s].videoKey
           /\ sessions' = Taken(s)
           /\ children' = [children EXCEPT ![s] = n]
           /\ video_proxies' = [video_proxies EXCEPT ![s] = n]
           /\ \E audio \in IF sessions[s].audioKey = "none" THEN {0} ELSE {0, n} :
                /\ audio_children' = [audio_children EXCEPT ![s] = audio]
                /\ audio_proxies' =
                     [audio_proxies EXCEPT
                        ![s] = IF sessions[s].audioKey = "good" THEN audio ELSE 0]
  /\ gauge' = Live(children')
  /\ UNCHANGED <<setup_response, phase, setups, told>>

\* start_stream that returns early, for want of a port, of a key or of
\* ffmpeg: the session is used up and its previous stream is gone.
StartFails(sid) ==
  /\ phase # "gone"
  /\ \E s \in Selected(sid) : sessions' = Taken(s) /\ Without({s})
  /\ gauge' = Live(children')
  /\ UNCHANGED <<setup_response, phase, setups, told>>

\* end_session of the sessions S.
EndSession(S) ==
  /\ Without(S)
  /\ sessions' = [s \in Sessions |-> IF s \in S THEN NotPrepared ELSE sessions[s]]
  /\ gauge' = Live(children')

\* The End and the Suspend command; Resume and Reconfigure do nothing.
End(sid) ==
  /\ phase # "gone"
  /\ EndSession(IF sid = NoSession THEN Sessions ELSE {sid})
  /\ UNCHANGED <<setup_response, phase, setups, told>>

-----------------------------------------------------------------------------
(* main, at ctrl_c and when the server fails: stop_stream and exit.  A     *)
(* start may come between the two; exit kills no child.                    *)

Shutdown ==
  /\ phase = "up"
  /\ phase' = "stopping"
  /\ EndSession(Sessions)
  /\ UNCHANGED <<setup_response, setups, told>>

Exit ==
  /\ phase = "stopping"
  /\ phase' = "gone"
  /\ setup_response' = NoResponse
  /\ UNCHANGED <<sessions, streams, gauge, setups, told>>

Next ==
  \/ \E s \in Sessions : SetupWrite(s) \/ SetupWriteFails(s) \/ SetupRead(s)
  \/ \E sid \in Sessions \cup {NoSession} : StartStream(sid) \/ StartFails(sid) \/ End(sid)
  \/ Shutdown
  \/ Exit

Spec == Init /\ [][Next]_vars

-----------------------------------------------------------------------------
(* Properties                                                              *)

\* What runs for a session is of one setup: a proxy with each video ffmpeg,
\* audio only beside the video of the same setup, on every way out of
\* start_stream and end_session.
StreamsPaired ==
  \A s \in Sessions :
    /\ video_proxies[s] = children[s]
    /\ audio_children[s] \in {0, children[s]}
    /\ audio_proxies[s] \in {0, audio_children[s]}

\* The gauge is the number of video processes kept, also after a start that
\* tore a stream down and then failed.
GaugeCountsStreams == gauge = Live(children)

\* A controller that has read the answer to its setup write gets its stream
\* from the ports and keys of that answer, whatever was set up, failed, read
\* or started by others, or by itself before (handle_setup_write, setup_read,
\* start_stream).
StartsAsTold ==
  \A s \in Sessions :
    children'[s] \notin {0, children[s]} /\ told[s] # 0 => children'[s] = told[s]

StartedAsTold == [][StartsAsTold]_vars
=============================================================================
