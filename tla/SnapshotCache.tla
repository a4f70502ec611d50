---------------------------- MODULE SnapshotCache ----------------------------
(***************************************************************************)
(* The snapshot cache of the camera client (src/src/amcrest.rs).  A        *)
(* background task refreshes the latest camera frame every Refresh units   *)
(* of time; requests of controllers take that frame, scale it with ffmpeg  *)
(* and keep the result per size.  Fetches are serialised by refresh_lock,  *)
(* requests by the mutex of the snapshot handler, which the server         *)
(* (hap/src/transport/http/server.rs) holds across a whole request; both a *)
(* fetch and a scaling end by a timeout.                                   *)
(*                                                                         *)
(* A frame is known by its generation; age[g] is the time since it was     *)
(* fetched and picture[g] its place in the order in which the camera took  *)
(* its pictures.  Time passes only while every task waits for something:   *)
(* steps that wait for nothing, and the saving of an image that            *)
(* --save-snapshots asks for, are taken to last no time.  No controller    *)
(* leaves in the middle of its request.                                    *)
(*                                                                         *)
(* The specification carries the prefix Cache in the names that others     *)
(* have too, so that CameraProofs can extend this module beside LiveView.  *)
(***************************************************************************)
EXTENDS Naturals, Sequences, Functions

CONSTANTS Requests, Sizes,     \* concurrent requests, and the sizes they ask for
          Refresher,           \* the task of spawn_refresher
          Refresh, Dedup, FetchTimeout, ScaleTimeout, MaxAge,
          MaxPictures          \* bound: pictures the camera takes

ASSUME SnapshotAssumption ==
    /\ Refresher \notin Requests
    /\ {Refresh, FetchTimeout, ScaleTimeout, MaxPictures} \subseteq Nat \ {0}
    /\ {Dedup, MaxAge} \subseteq Nat
    /\ Dedup <= MaxAge
    /\ Sizes # {}

VARIABLES latest,              \* generation of the latest frame, 0 for None
          scaled,              \* size -> generation of the cached variant
          queue,               \* tasks at refresh_lock, its holder first
          tasks,               \* task -> where it is and what it holds
          taken,               \* pictures the camera took
          picture, age,        \* generation -> picture, time since the fetch
          interval, due,       \* the refresher's interval, and whether it has ticked
          shown                \* newest picture served so far (history)

cacheVars == <<latest, scaled, queue, tasks, taken, picture, age, interval, due, shown>>

Tasks == Requests \cup {Refresher}
Gens == 1..MaxPictures
Oldest == MaxAge + ScaleTimeout + 1     \* ages are not told apart beyond this

Task == [pc: {"idle", "handler", "lock", "fetch", "arriving", "lookup", "scale",
              "served", "failed"},
         left: Nat,                    \* time until its timeout
         shot: 0..MaxPictures,         \* the picture on its way from the camera
         size: Sizes, raw: 0..MaxPictures, stale: 0..MaxPictures,
         out: 0..MaxPictures, unscaled: BOOLEAN]   \* the answer, and whether scaling failed

\* The lock's queue, the timers and the history keep their types.
CacheTypeOK ==
    /\ latest \in 0..MaxPictures
    /\ scaled \in [Sizes -> 0..MaxPictures]
    /\ queue \in Seq(Tasks) /\ IsInjective(queue)
    /\ tasks \in [Tasks -> Task]
    /\ taken \in 0..MaxPictures /\ shown \in 0..taken
    /\ picture \in [Gens -> 0..taken]
    /\ age \in [Gens -> 0..Oldest]
    /\ interval \in 0..(Refresh - 1) /\ due \in BOOLEAN

Fresh == [pc |-> "idle", left |-> 0, shot |-> 0, size |-> CHOOSE s \in Sizes : TRUE,
          raw |-> 0, stale |-> 0, out |-> 0, unscaled |-> FALSE]

CacheInit ==
    /\ latest = 0
    /\ scaled = [s \in Sizes |-> 0]
    /\ queue = <<>>
    /\ tasks = [t \in Tasks |-> Fresh]
    /\ taken = 0 /\ shown = 0
    /\ picture = [g \in Gens |-> 0]
    /\ age = [g \in Gens |-> Oldest]
    /\ interval = 0 /\ due = TRUE

Set(t, r) == tasks' = [tasks EXCEPT ![t] = r]
Goes(t, pc) == [tasks[t] EXCEPT !.pc = pc]

\* Mutant: an old frame is good enough for ever.
Usable_AnyAge(g) == g # 0

\* A frame that is there and young enough to be served.
Usable(g) == g # 0 /\ age[g] <= MaxAge

-----------------------------------------------------------------------------
(* Refreshing the frame.                                                   *)

Enqueue(t) == queue' = Append(queue, t)
Unlock == queue' = Tail(queue)

\* Mutant: refreshes run side by side.
Holds_NoLock(t) == TRUE

Holds(t) == queue # <<>> /\ Head(queue) = t

\* Mutant: every tick starts a refresh of its own.
RefresherWakes_Twice ==
    /\ due
    /\ due' = FALSE
    /\ Set(Refresher, Goes(Refresher, "lock"))
    /\ Enqueue(Refresher)
    /\ UNCHANGED <<latest, scaled, taken, picture, age, interval, shown>>

\* The refresher's interval has ticked.
RefresherWakes ==
    /\ due /\ tasks[Refresher].pc = "idle"
    /\ due' = FALSE
    /\ Set(Refresher, Goes(Refresher, "lock"))
    /\ Enqueue(Refresher)
    /\ UNCHANGED <<latest, scaled, taken, picture, age, interval, shown>>

\* What refresh returns to its caller: a frame, or nothing when it failed; the
\* caller of a request falls back to the latest frame as long as it is usable.
Refreshed(t, g) ==
    IF t = Refresher THEN Fresh
                     ELSE [Goes(t, "lookup") EXCEPT !.raw = g, !.left = 0, !.shot = 0]
NotRefreshed(t) ==
    IF t # Refresher /\ ~Usable(latest) THEN [Fresh EXCEPT !.pc = "failed"]
                                        ELSE Refreshed(t, latest)

\* Mutant: the frame another task fetched while this one waited is not looked at.
Coalesced_Never == FALSE

\* refresh has the lock: another task may have fetched a frame meanwhile.
Coalesced == latest # 0 /\ age[latest] <= Dedup

Locked(t) ==
    /\ tasks[t].pc = "lock" /\ Holds(t)
    /\ \/ Coalesced /\ Unlock /\ Set(t, Refreshed(t, latest))
       \/ ~Coalesced /\ UNCHANGED queue /\ Set(t, [Goes(t, "fetch") EXCEPT !.left = FetchTimeout])
    /\ UNCHANGED <<latest, scaled, taken, picture, age, interval, due, shown>>

\* The camera takes the picture it will answer with.
Capture(t) ==
    /\ tasks[t].pc = "fetch" /\ taken < MaxPictures
    /\ taken' = taken + 1
    /\ Set(t, [Goes(t, "arriving") EXCEPT !.shot = taken'])
    /\ UNCHANGED <<latest, scaled, queue, picture, age, interval, due, shown>>

\* The picture is there in time and has the envelope of a JPEG: it becomes the
\* frame of the next generation.
Fetched(t) ==
    /\ tasks[t].pc = "arriving"
    /\ latest' = latest + 1
    /\ picture' = [picture EXCEPT ![latest'] = tasks[t].shot]
    /\ age' = [age EXCEPT ![latest'] = 0]
    /\ Set(t, Refreshed(t, latest'))
    /\ Unlock
    /\ UNCHANGED <<scaled, taken, interval, due, shown>>

\* Mutant: the fetch has no timeout.
FetchFails_NoTimeout(t) ==
    /\ tasks[t].pc \in {"fetch", "arriving"} /\ tasks[t].left > 0
    /\ Set(t, NotRefreshed(t))
    /\ Unlock
    /\ UNCHANGED <<latest, scaled, taken, picture, age, interval, due, shown>>

\* The camera refuses, answers with something else, or the timeout fires.
FetchFails(t) ==
    /\ tasks[t].pc \in {"fetch", "arriving"}
    /\ Set(t, NotRefreshed(t))
    /\ Unlock
    /\ UNCHANGED <<latest, scaled, taken, picture, age, interval, due, shown>>

-----------------------------------------------------------------------------
(* A request for a size.                                                   *)

\* A controller asks: the request is in line for the snapshot handler.
Ask(r, s) ==
    /\ tasks[r].pc \in {"idle", "served", "failed"}
    /\ Set(r, [Fresh EXCEPT !.pc = "handler", !.size = s])
    /\ UNCHANGED <<latest, scaled, queue, taken, picture, age, interval, due, shown>>

\* The request has the handler's mutex, until it is answered.
Serving(r) == tasks[r].pc \in {"lock", "fetch", "arriving", "lookup", "scale"}

\* Mutant: requests are handled side by side.
HandlerFree_Always == TRUE

HandlerFree == \A r \in Requests : ~Serving(r)

\* Any of those in line gets the handler, which may refuse (periodic and event
\* snapshots can be off); get: the latest frame if it is usable, else a refresh.
Enter(r) ==
    /\ tasks[r].pc = "handler" /\ HandlerFree
    /\ \/ Set(r, [Fresh EXCEPT !.pc = "failed"]) /\ UNCHANGED queue
       \/ Usable(latest) /\ Set(r, [Goes(r, "lookup") EXCEPT !.raw = latest]) /\ UNCHANGED queue
       \/ ~Usable(latest) /\ Set(r, Goes(r, "lock")) /\ Enqueue(r)
    /\ UNCHANGED <<latest, scaled, taken, picture, age, interval, due, shown>>

\* The answer is frame g, or an error.
Serve(r, g, unscaled) ==
    /\ Set(r, [Fresh EXCEPT !.pc = IF g = 0 THEN "failed" ELSE "served",
                            !.out = g, !.unscaled = unscaled])
    /\ shown' = IF g # 0 /\ picture[g] > shown THEN picture[g] ELSE shown

Hit(r) == scaled[tasks[r].size] = tasks[r].raw

\* The variant of this size is of the same frame, or it is remembered in case
\* the scaling fails.
Lookup(r) ==
    /\ tasks[r].pc = "lookup"
    /\ LET cached == scaled[tasks[r].size]
       IN \/ Hit(r) /\ Serve(r, cached, FALSE)
          \/ /\ ~Hit(r)
             /\ Set(r, [Goes(r, "scale") EXCEPT !.left = ScaleTimeout,
                                                !.stale = IF Usable(cached) THEN cached ELSE 0])
             /\ UNCHANGED shown
    /\ UNCHANGED <<latest, scaled, queue, taken, picture, age, interval, due>>

\* ffmpeg is done: whatever was stored for this size is replaced.
Scaled(r) ==
    /\ tasks[r].pc = "scale"
    /\ scaled' = [scaled EXCEPT ![tasks[r].size] = tasks[r].raw]
    /\ Serve(r, tasks[r].raw, FALSE)
    /\ UNCHANGED <<latest, queue, taken, picture, age, interval, due>>

\* ffmpeg fails, finds a black frame or does not answer in time.
ScaleFails(r) ==
    /\ tasks[r].pc = "scale"
    /\ Serve(r, tasks[r].stale, TRUE)
    /\ UNCHANGED <<latest, scaled, queue, taken, picture, age, interval, due>>

-----------------------------------------------------------------------------
(* Time.                                                                   *)

Waits(t) == \/ tasks[t].pc \in {"idle", "served", "failed"} /\ ~(t = Refresher /\ due)
            \/ tasks[t].pc = "handler" /\ ~HandlerFree
            \/ tasks[t].pc = "lock" /\ ~Holds(t)
            \/ tasks[t].pc \in {"fetch", "arriving", "scale"} /\ tasks[t].left > 0

Min2(a, b) == IF a < b THEN a ELSE b

Tick ==
    /\ \A t \in Tasks : Waits(t)
    /\ tasks' = [t \in Tasks |-> IF tasks[t].left > 0 THEN [tasks[t] EXCEPT !.left = @ - 1]
                                                      ELSE tasks[t]]
    /\ age' = [g \in Gens |-> Min2(age[g] + 1, Oldest)]
    /\ interval' = (interval + 1) % Refresh
    /\ due' = (due \/ interval' = 0)
    /\ UNCHANGED <<latest, scaled, queue, taken, picture, shown>>

Fetches(t) == Locked(t) \/ Capture(t) \/ Fetched(t) \/ FetchFails(t)
Scales(r) == Lookup(r) \/ Scaled(r) \/ ScaleFails(r)

CacheNext ==
    \/ RefresherWakes
    \/ \E t \in Tasks : Fetches(t)
    \/ \E r \in Requests : Enter(r) \/ Scales(r) \/ \E s \in Sizes : Ask(r, s)
    \/ Tick

CacheSpec == CacheInit /\ [][CacheNext]_cacheVars

\* What the runtime gives: time passes, a task that has the lock or a lookup to
\* do goes on, a timeout that is due fires, and a free handler is given to some
\* request in line (the mutex of futures promises none of them its turn).
\* Neither the camera nor ffmpeg has to answer, and requests need not come.
CacheFairness ==
    /\ WF_cacheVars(\E r \in Requests : Enter(r))
    /\ SF_cacheVars(Tick) /\ WF_cacheVars(RefresherWakes)
    /\ \A t \in Tasks : WF_cacheVars(Locked(t)) /\ WF_cacheVars(tasks[t].left = 0 /\ FetchFails(t))
    /\ \A r \in Requests : WF_cacheVars(Lookup(r)) /\ WF_cacheVars(tasks[r].left = 0 /\ ScaleFails(r))

CacheFairSpec == CacheSpec /\ CacheFairness

-----------------------------------------------------------------------------
Answers(r) == tasks[r].pc \notin {"served", "failed"} /\ tasks'[r].pc \in {"served", "failed"}

\* What controllers get never goes back: no answer is an older picture than one
\* that any controller got before it, except when its own scaling failed.  The
\* refresher goes on while a request scales, so this rests on the refreshes
\* being serialised, on the handler's mutex, and on no variant being taken for
\* one of a newer frame.
NeverBackwards ==
    [][\A r \in Requests : Answers(r) /\ tasks'[r].out # 0 /\ ~tasks'[r].unscaled
            => picture[tasks'[r].out] >= shown]_cacheVars

\* What is served was fetched MaxAge ago at most, plus the time its scaling
\* took: this holds for the fallback after a failed refresh and for the variant
\* that replaces a frame that could not be scaled.
AgeBounded ==
    [][\A r \in Requests : Answers(r) /\ tasks'[r].out # 0
            => age'[tasks'[r].out] <= MaxAge + ScaleTimeout]_cacheVars

\* The camera is asked one time for what a request and the refresher both find
\* too old: a frame is replaced only when it is older than Dedup.
FramesSpaced == [][latest' # latest /\ latest # 0 => age[latest] > Dedup]_cacheVars

Quiesces == <>[][\A r \in Requests, s \in Sizes : ~Ask(r, s)]_cacheVars

\* Even when the camera and ffmpeg never answer, the request that has the
\* handler is answered, by an image or an error; and so is every request in
\* line behind it, once no new ones come to overtake it.
Answered ==
    LET Done(r) == tasks[r].pc \in {"served", "failed"}
    IN  /\ \A r \in Requests : Serving(r) ~> Done(r)
        /\ Quiesces => \A r \in Requests : (tasks[r].pc = "handler") ~> Done(r)
=============================================================================
