# amcrust in TLA+

amcrust makes an Amcrest camera a HomeKit Secure Video camera. This directory holds TLA+
models of the parts of it that are hard to get right and hard to test, the TLC runs that
check them on small instances, and TLAPS proofs of the results that hold for every instance.
Paths below are relative to the repository's root; `PROJECT.json` maps every definition that
models code to its lines.

## The system

The program (`src/main.rs`) runs one HAP accessory for one camera. Everything is a tokio
task; tasks share state through async mutexes, atomics and broadcast channels.

| component | state it keeps | operations | talks to |
|---|---|---|---|
| camera client, `src/amcrest.rs` | snapshot cache, digest session | read-compare-write of camera settings, event stream with reconnect, snapshots | camera over HTTP; motion events into a broadcast channel |
| motion, `src/motion.rs` | generation and active flag per kind, `motion_active` | Start/Stop events, safety-net timers | sets `MotionDetected` under the accessory lock; `motion_active` is read by recording streams |
| recording pipeline, `src/hsv/fmp4.rs` | ffmpeg child, generation, init segment, prebuffer | `start`, `stop`, `parse_stream`, `snapshot_and_subscribe` | fragments into a broadcast channel |
| secure-video settings, `src/hsv/recording.rs`, `src/accessory.rs` | flags, selected configuration, `hsv.json` | characteristic writes, `persist`, `sync_recorder`, `resume_recorder` | starts and stops the pipeline, configures the camera |
| HDS sessions, `src/hsv/hds.rs`, `src/accessory.rs` | listener, prepared sessions, shared-secret slot | setup write, accept, identification, hello | keys of the HAP session through the slot |
| HDS data streams, `src/hsv/hds.rs` | `recording_busy`, active stream per connection, a pump per stream | open, close, ack, disconnect; `pump_recording` | recorder (snapshot and channel), `motion_active`, settings (`recording_allowed`) |
| pairings and status flag, `hap/src/transport/http/handler/pairings.rs`, `pair_setup.rs`, `pair_verify.rs`, `hap/src/server/ip.rs` | `pairings/*.json`, `config.json`, mDNS record | Setup, Add, Remove, List, pair-verify | pairing listener through the event emitter |
| HAP connections, `hap/src/transport/tcp.rs`, `http/server.rs` | per-connection session keys, output queue, event subscriptions | decrypt, encrypt, serve, push events | handlers, accessory database |
| live view, `src/stream.rs`, `src/srtp.rs` | sessions, ffmpeg children | setup endpoints, start, reconfigure, stop | camera RTSP |
| codecs, `src/hsv/frame.rs`, `src/hsv/codec.rs`, `src/tlv8.rs`, `hap/src/tlv.rs` | nonce counters, the decoder's tracked values | encode, decode | |
| metrics, `src/metrics.rs` | counters | | HTTP endpoint |
| generated HAP definitions, `hap/src/{characteristic,service,accessory}/generated` | | | |

What makes it hard: a lock is given back between a decision and what is done on it
(`sync_recorder`, `check_admin`, `recording_allowed`); a flag is read and stored in two steps
(motion timers); old tasks outlive what replaced them (parse tasks, pumps); files are truncated
before they are written; one slot carries the secrets of all sessions; ffmpeg, the camera and
the controller fail on their own. `PROJECT.json` lists each of these at its line, under
"hazards", with the properties that would catch it.

## Modules

| module | models | correspondence |
|---|---|---|
| `Recorder` | `src/hsv/fmp4.rs` | `generation`, `config`, `child`, `initSeg`, `prebuffer` are the fields of `RecorderState`; `task[g]` is the parse task of generation g, `proc[g]` its ffmpeg; `sub[s]` is a receiver of the broadcast channel. `Start`, `Stop` and `Subscription` are one step each, as the code holds the lock throughout; `BufferFragment` and `PublishFragment` are two, as the code drops the lock between them |
| `RecordingStream` | the dataSend wire contract | abstract specification: items in number order, chunks completed, silence after the end |
| `DataSend` | open, close, ack, disconnect and the pump in `src/hsv/hds.rs` | `conn[c]` is where `handle_open` of a connection is, `stream[n].pc` where the pump of the n-th accepted stream is; `busy` is `recording_busy` |
| `HdsSession` | setup and identification in `src/hsv/hds.rs`, the slot of `http/server.rs` | a key is the pair of the secret it was derived from and the setup it was derived in; `prepared` is a set of them, as no two are equal; `stale` are the setups older than the TTL; `pending` is the answer slot, `told` the salts that were read |
| `HapConnection` | `hap/src/transport/tcp.rs`, the listener of `http/server.rs`, `write_characteristic`, `set_value` | `conn[c].http` and `deferred` are `SerializedOutput`, `queue` what the transport task has yet to write; `flag` is `event_notifications` of the one characteristic modelled; `sub` is the connection's entry in its event subscriptions; `key` is where the session's keys are: not made, in `session_receiver`, in use |
| `LiveView` | `src/stream.rs` | the maps of `Inner` become functions from session ids; a session, and what runs for it, is named by the number of the setup whose sockets, keys and SSRCs it has; `told` is the controller's |
| `HsvControl` | `src/hsv/recording.rs`, the write handlers of `src/accessory.rs` | `task["inline"]` is the handler that holds the accessory lock, the others are spawned tasks; `persist` is read, truncate, fill, and the last two may fail unseen by the handler; `sync_recorder` is decide, clone, sync |
| `Motion` | `src/motion.rs` | `mapper` is the event task, `timer[n]` the task left by the n-th event; each atomic load and store is a step |
| `SnapshotCache` | the snapshot cache of `src/amcrest.rs` | `tasks[t]` is a request of a controller or the refresher; the mutex of the snapshot handler (`http/server.rs`, 174-176), held across a whole request, is with the request that is past "handler" (`Serving`); `queue` is `refresh_lock`, its holder first; a frame is its generation, with its age since the fetch and the place of its picture in the camera's order; the program's times are constants, of which only `Dedup <= MaxAge` is assumed (1 s and 120 s in the code) |
| `CameraSettings` | the `ensure_*` profiles of `src/amcrest.rs`, in the order of `src/main.rs` and `HsvState::resume_recorder` | a profile is a set of keys of a table and the way it is applied: `bulk` (`live`), `parts` (`overlay`), `each` (media, over CGI) or `rpc` (a whole table read, edited and written back); `camera` is the camera's tables, `copy` the table as it was read, `outcome` what each profile returned |
| `Tlv8` | `src/tlv8.rs`, `hap/src/tlv.rs` | two codecs as operators on sequences of bytes; a round of the loop of `parse` or `decode` is an operator, and the loop a function of the number of rounds |
| `HdsCodec` | `src/hsv/codec.rs` | encoder and decoder as operators; the values that a decoder remembers for back references are passed along; `Compressed` is a peer that writes references |
| `WireFormats` | the readers of `src/hsv/hds.rs`, `src/hsv/frame.rs`, `hap/src/transport/tcp.rs` and of the event stream in `src/amcrest.rs` | `wire` is what the peer has written, cut by `Arrive` anywhere; `buf`, `counter` and `plain` are the reader's buffers and its nonce counter. A cell of ciphertext knows its nonce and its place, and opens only with both |
| `Pairing` | pairing handlers, listener, storage, start | `task[t]` is the request of a connection; `lock` says who holds storage, config and the event emitter; a file write is truncate and fill; `server` is where the start is, which saves `config.json` two to four times (`StartSaves`) |
| `RecorderProofs`, `DataSendProofs`, `MotionProofs`, `HsvControlProofs`, `PairingProofs`, `HapConnectionProofs` | | theorems about the module each is named after |
| `CameraProofs` | | theorems about `LiveView`, `SnapshotCache` and `CameraSettings`; it extends all three, which is why the names of the latter two have the prefixes `Cache` and `Settings` where `LiveView` has the same |
| `TransportProofs` | | theorems about `HdsSession` and about `WireFormats`, with the lemmas about sequences and TLVs that these need |
| `MC*` | | symmetry sets and model values for TLC |

`DataSend` relates to the others at two points: what a pump receives is what `Recorder`
delivers to a `sub`, and `OpenAllowed` is `recording_allowed`, which `HsvControl`'s flags
decide. Both are left open in `DataSend` (any answer, any fragment at any time), so its
results hold whatever the other components do. `WireFormats` composes `Tlv8` with
the framing below it; the codec of data streams is a parameter, for which `MCWireFormats` puts `HdsCodec`. `HdsSession` is the meeting point of three components: the HTTP server's
secret slot, the characteristic's answer slot and the HDS listener.

## Runs

| run | asks | result |
|---|---|---|
| `recorder` | does the prebuffer always belong to the current pipeline; does a stream skip nothing; how much of a replaced pipeline reaches a stream? | holds: at most one fragment |
| `data_send` | is the wire contract kept; how much is sent behind a close; does a stream end without motion; who will clear `recording_busy`? | holds: at most one item; somebody, unless the response to an open could not be written |
| `data_send_one` | is there one stream at a time? | no: see below |
| `motion` | do flag, sensors and per-kind state agree; is a fresh Start kept; does every sensor go off? | holds, the first two unless a timer fires in the middle of something else |
| `hsv_control` | does a handler settle recorder and file; does the camera follow the selected configuration? | the first for a handler that runs alone, the file unless its own write fails; the second but for a configuration that the camera refused |
| `pairing` | do flag, `config.json` and mDNS record follow the pairings; is the device id on file; which handlers wait for each other? | holds while no storage call fails, and but for the moment of a save; only `handle_add` and the listener |
| `hds_session` | is a prepared session used once, never when expired, and not lost; are its keys derived from its own secret; whose answer does a setup read? | holds, the keys unless another PUT arrives between a setup write and its handler |
| `hap_connection` | do events arrive in order, are none lost behind a response, does none cut into one; is the last message of pair-verify sent in plaintext? | holds, the events while no controller turns the characteristic's notifications off, the last unless the transport polls its socket between handler and flush |
| `live_view` | does a stream go where its controller was told; is what runs for a session of one setup? | holds |
| `snapshot_cache` | is an older picture ever served after a newer one; how old may an answer be; how often is the camera asked; is every request answered? | no, unless its own scaling failed; the limit plus the time of scaling; once for all who wait; the one that has the handler, and those in line once no new ones overtake them |
| `camera_settings` | what does Ok of all profiles mean for the camera; whose writes does a retry undo; is a key noticed that the camera stops reporting? | every reported key has the value of the last profile that sets it; nobody's from before the attempt; in profiles that are read back once yes, key by key only of the key at work, over RPC2 no |
| `wire_formats` | does what was sent arrive, however it is cut? | yes, but for the values and characters named below |

Every module has a type invariant. Those of `SnapshotCache` (`CacheTypeOK`), `CameraSettings` (`SettingsTypeOK`)
and `WireFormats` are part of their runs; the others, the limit of the prebuffer (`PrebufferBounded`) and the gauge of
the live view (`GaugeCountsStreams`) are proved, and so in no run.

`data_send_one`, the finding: stream A is closed (busy falls), B is opened (busy rises), A's pump
returns and clears busy again (`src/hsv/hds.rs:422`), C is opened next to B.

What the code does in the cases that the properties leave out, all of them steps of the models:

- Recording: a response to an accepted open that cannot be written leaves `recording_busy` set
  for good (`OpenResponseFails`; no other path does, see `BusyIsHeld`). `start()` is a no-op after
  ffmpeg died, as `child` stays (`ProcessExits`). A fragment is delivered twice to a stream that
  subscribes between its buffering and its publishing, which is why `DeliveredWithoutGap` allows
  one repetition. A write to a controller that stopped reading has no timeout.
- Settings: two handlers that synchronise at once can leave the recorder in the state of the older
  settings; a spawned handler starts the recorder while the camera is being configured. A write of
  `hsv.json` that fails is only logged (`src/hsv/recording.rs`, 158-160) and leaves the file older than the
  settings, or torn; so does a stop between truncation and write, after which the settings are the default
  ones. A configuration that the camera refused stays selected, and selecting another one with the same
  encoder settings then does not go to the camera either.
- Pairings: `handle_add` holds storage and waits for config while the listener holds config and
  waits for storage, and neither ever goes on; `OnlyAddMeetsListener` says that no other two do.
  The event emitter stays locked with them, so that no connection is accepted and no value set any
  more. A stop between the truncation of `config.json` and its write makes the next start draw a
  new device id (`IdOnFile` says that there is no other way to lose it while no write fails). Every
  start goes through that moment two to four times, as it saves what it has loaded again
  (`src/main.rs`, 243 and 331; `src/hap/src/server/ip.rs`). A save that fails behind the `BufWriter` goes unseen
  and leaves a torn file. A truncated pairing file counts as a pairing at the next start.
- HDS sessions: an accept error leaves an advertised port without a listener; a first frame read
  late is refused although its connection was made in time; a PUT of another session that arrives
  between a setup write and its handler makes the keys those of that session; a controller that
  does not ask for a write response may find its answer taken by another.
- HAP connections: the unsubscription of one controller silences the others, which stay subscribed
  (`event_notifications` belongs to the characteristic); listeners of closed connections are never
  removed. When the transport polls its socket after the handler of pair-verify and before
  the answer is written, the answer goes out encrypted and the controller is lost.
- Live view: `exit` kills no child, and only `ctrl_c` and the end of the server are led through
  `stop_stream`. So a start that waits while it runs leaves its ffmpeg behind, SIGTERM those of every
  stream, and either that of the recorder and one that scales. No property is about this. The streams of a controller that vanishes run on; a setup write that fails leaves
  the answer of the last one to be read.
- Snapshots: requests of all controllers wait for each other, fetches, scaling and saving included, as
  the server holds the handler's mutex across the call; the mutex is not a fair one.
- Camera settings: a key that the camera stops reporting with the write of another key is skipped when
  its turn comes in the profiles that go key by key (`src/amcrest.rs`, 680-682, with what 709 read),
  and the profile returns Ok. A change that somebody makes between the read and the write of one attempt
  over RPC2 is lost, as the whole table is written back; the verification over RPC2 looks only at
  the keys that the second read reports, so a key that vanished counts as applied; none of the
  client's requests has a timeout of its own, but for the snapshots. The media and the recording
  profile both set the audio sample rate of the main stream, and the later one wins.
- Codecs: `decode` of `hap/src/tlv.rs` loses a value whose length is a multiple of 255 when another
  tag follows (`TlvSurvives` leaves those out). `from_utf8_lossy` is applied to each chunk of the
  event stream, so a character that is cut in two is garbled, and data with line breaks is cut at
  the first; the code and the action of an event arrive in any case (`EventsSurvive`).

Met while reading, and outside the models: `read_length` of `src/hsv/codec.rs` takes three bytes
for the tags 0x63 and 0x93, where `encode` writes four and `docs/hds-wire-format.md` says 32 bits,
so values above 65535 bytes do not survive; the timestamp rescaler of `src/srtp.rs` jumps when a
packet is older than the first one it saw, or 2^32 ticks after it.

### Bounds

- `recorder`: 2 configurations, 3 generations of 3 fragments, a prebuffer of 2, a channel of 1
  and one stream. Three generations let a parse task outlive two restarts; with three
  fragments both the prebuffer and the channel overflow. Streams do not interact, so one is
  enough.
- `data_send`: one connection and one stream (the safety properties are proved for any number)
  with 2 prebuffered fragments, 3 chunks and numbers modulo 4, so that chunks, numbers and tail
  all wrap or end in every order. Streams share nothing but `busy`, which no pump reads.
  `data_send_one` needs a third stream.
- `motion`: 4 events: a Start whose timer fires, a Start and a Stop of the other kind, and one
  more event to race with.
- `hsv_control`: 3 writes, 2 spawned handlers, 1 crash; three configurations, two of which
  share their encoder settings.
- `snapshot_cache`: two requests, two sizes and the refresher, with pictures up to the second. A
  unit of time is coarser than the code's seconds (10 refresh, 1 dedup, 4 and 4 timeouts, 120
  limit) but keeps their order: a refresh in 2, dedup 0, timeouts 1, limit 3. With two pictures
  each request can hold one while the other is served; with the limit at 3 a refresh fails once
  before a frame is too old. Ages are not told apart beyond the limit plus a scaling.
- `camera_settings`: all ten profiles with one to three keys each, two attempts of the code's
  three, two requests that go wrong (a lost answer, a key not kept, a key that vanishes), one
  write by somebody else to a key of ours or one of its own. Two attempts are one retry, the only
  case a third repeats.
- `wire_formats`: parts of 3 bytes (255), records of 5 (1024), tags of 2 (16), so that values of 0
  to 7 bytes stand for every case around one and two full parts and a record ends inside a part.
  Arrivals of 1, 2, 5, 9 or 60 cells cut every header and join several frames. The samples of
  `MCWireFormats` have, for the codec, integers on both sides of each width, texts and data of 0,
  1, 32, 33, 255 and 256 bytes, containers of 12 to 54 members, repeated values of every kind, and
  empty ones. No sample is on either side of 65535 bytes, where the codec fails (see above).
- `pairing`: 2 controllers, 2 connections, 4 requests, 1 crash, 1 failing storage call.
- `hds_session`: 2 HAP sessions, 2 HDS connections, 3 setups: each session sets up twice in some
  order, and the third finds an answer that nobody has read.
- `hap_connection`: 2 connections, 3 changes of the value, responses of up to 2 parts: one event
  under way, one deferred, and one after the flush, next to another controller that writes. A
  request writes the characteristic once; a controller sends the next when it has the last answer;
  hyper flushes once per response. Every request may be the last of pair-verify while the
  connection is in plaintext.
- `live_view`: 2 sessions, 4 setups: each session is set up again after it was answered and after
  it was started.

### Fairness

- `DataSend`: a pump is a task of its own, `recv()` has a timeout and a write is assumed to end
  (the transport's business); time passes. Controllers owe nothing: no fairness on `ConnStep`.
- `Motion`: the event task finishes the event in hand and a timer's sleep ends. Events need
  not come.
- `SnapshotCache`: time passes (strong fairness of `Tick`: it is enabled only while every task
  waits, and steps that wait for nothing are taken to last no time), a task that holds the lock
  goes on, a timeout that is due fires, and a free handler is taken by some request in line, whichever
  (the mutex of `futures` promises none its turn). Of those in line `Answered` assumes therefore that no
  more requests come (`Quiesces`). Neither the camera nor ffmpeg has to answer, requests need
  not come.

The other specifications state safety only.

## Proofs

Each theorem holds for every value of the constants that the assumption of its module allows;
`PROJECT.json` lists them under "theorems". Every proof module has an inductive invariant,
the lemma that a step keeps it with a step per action, and the temporal theorems at the end.

`RecorderProofs` proves `TypeOK`, `PrebufferIsCurrent`, `PrebufferBounded`,
`DeliveredWithoutGap` and `OneStraggler`. The inductive
invariant of the first three adds one part: a task that is about to publish has made a fragment
(`SendingHasMade`), which types the fragment it sends. `PrebufferIsCurrent` is inductive with it
because the generation only grows and every step that moves it clears the buffers: an older
task cannot pass `Superseded`, and the new generation has made nothing yet
(`CleanGeneration`). The other two are about all that a stream was given, delivered or still in
its queue (`Joined`). `Spliced` is the seam of prebuffer and channel: what a stream was given last of
a generation is the last fragment its parse task published, or the one it is about to publish if
the snapshot had it already (`Awaits`); so the next one follows without a gap, and only that one is
repeated. `Straggling` says that a late fragment is of a replaced generation whose task is not
sending; such a task is superseded when it next looks, so it never sends again.

`DataSendProofs` proves `TypeOK`, `CancelStopsPump`, `BusyIsHeld` and `WireContract`, the
refinement of `RecordingStream`. The inductive invariant is a predicate of one stream's record
(`Good`): a late item is the only one and its pump is on its way to look at cancel
(`LateOnce`); a chunk is outstanding only within an item, the init segment is complete before
the loops, and `endOfStream` is decided only behind it (`InOrder`). Every pump step replaces
one record by a good one, and maps to a step of the contract or to a stutter.

`BusyHeld` needs no more than the types, but an argument of its own: who answers an open holds
`recording_busy`, then the pump it spawned (`HoldersKept`: no step but a cancel or a return
takes a holder away). Both of those clear the flag in the same step, so it is never left set; a
late clear can only make the implication vacuous, and a failed response is the one exception,
by name.

`CameraProofs` proves, of `LiveView`, `TypeOK`, `StreamsPaired`, `StartedAsTold`
and `GaugeCountsStreams`.
The inductive invariant of the first three adds that the answer to read, and the answer a
controller has read, is of the session as it is prepared, if it is (`AnswerIsPrepared`,
`ToldIsPrepared`): only a setup write prepares a session, and it replaces the answer with it;
everything else drops sessions (`WithoutKeeps`). The gauge is compared with the cardinality of
the set of running streams, which each step but `stop_stream` changes by one element at most.

Of `SnapshotCache` it proves `CacheTypeOK` and the three safety properties of its run, from one
invariant (`CacheInv`). The queue is the lock (`LockOK`): it holds each task that waits or
refreshes once, and only its head refreshes; one request has the handler (`OneServing`). So the picture that is arriving is newer than every
frame there is and generations are in the order of pictures (`InOrder`). What a task holds is bounded as
a picture and in time (`Sound`): it looks up, or scales, a frame no older a picture than what has been
shown to anybody, as nobody else is served meanwhile, and the age of that frame, with the time left to scale it, stays within the
limits; time takes from the one what it adds to the other (`TickKeeps`). A task that fetches does so with
a latest frame older than `Dedup`, and nobody else replaces that frame meanwhile.

Of `CameraSettings` it proves all four properties of its run, for any number of attempts, faults and
foreign writes (`SettingsInv`). The profiles are applied in the order of the plan (`InPlan`), and
what the camera resets with one of them belongs to a later one, or over RPC2 to the profile itself
(`ResetLater`); so a step disturbs only the keys of the profile at work and of those to come, and
what the earlier ones brought to the camera stays (`Held`). Of the profile at work the invariant
says which keys are right already (`Begun`) and, where it is read back once, that a key its first
read did not find is still not there (`ReportKept`); with that, and as a write leaves a key it does not set
as it is or drops it (`LeftOrGone`), a key that vanishes is noticed (`VanishNoticed`). The table that is written back is the camera's, but for what somebody else wrote
since the attempt began (`CopyKept`): the key that no profile has, and `ForeignKept` is about, is
written back as it is. The plan of profiles is part of the module, not a parameter; what the
proofs use of it is in the lemmas `PlanSteps` to `ResetLater`.

`TransportProofs` proves, of `HdsSession`, `TypeOK` and all five properties of its run. The inductive invariant
adds that setups expire oldest first (`AgedInOrder`, which types `Age`), that no key is of a
setup to come and that a connection is identified by its key or has none (`KeysPast`,
`Unidentified`), that a key in use is not prepared (`PreparedUnused`, what makes the one use of
a key the last), and that the slot holds the secret of the session whose write nobody has
crossed (`SlotUncrossed`).

Of `WireFormats` it proves the types (`WireTypeOK`) and two of the three round trips, for every set of
samples, every set of cuts, parts of up to 255 bytes, records of up to 65535, and tags of any size. What
is assumed of a sample (`SamplesAssumption`) is what the writers see to: a header has one byte of length, a
payload is within the limit that `encrypt_frame` enforces, and tag 0 of the camera services is left to the
delimiter.

`HdsFraming` is `HdsSurvives` under one hypothesis, `HdsRoundTrips`: the codec gives back each message on its
own. It is a hypothesis as the codec's operators are constants of `WireFormats`; TLC evaluates it for the
codec and the samples of the run (`MCRoundTrips` in `MCWireFormats`). What is proved is the rest: the buffer
and what has yet to arrive are the frames from the counter on (`HdsInv`), so a buffer with four bytes
has the length of the next frame in them, a frame is taken when its last byte has come and not before
(`NextFrame`), it opens with the counter's nonce, and at the end of the stream nothing is left.

`RecordsCarryValues` is `TlvSurvives`, without a hypothesis. Buffer and wire are the records from the counter
on; what was decrypted and has yet to be read, with the chunks to come, are the bodies from the next one
on (`RecordsInv`), though no record knows where a body ends. Each body is then decoded to what it was made of, which is a
theorem about each codec: `ParseBuilds` (`parse` undoes `Writer`, with a delimiter between items of one
tag) and `DecodesEncoded` (`decode` undoes `encode` for what `Decodable` describes). Both follow the loop
round by round: with j parts of an item read, the item at the end of the list, or `buf`, is the first j
parts joined. A part is joined to the last one if that is not empty and a multiple of the limit,
which is why only the last may be short, and why a delimiter is needed.

The induction over the length of what is read is that of `Induct`, which is stated for a set of numbers, since
no backend takes the library's theorem with its operator: a set of numbers that holds 0 and with each
number the next holds all of them. It is proved from the pigeonhole theorem of the library. `PrefixesExist` and
`PartialExists` make of it what the community modules' recursive functions need to exist, and `ParseExists` and
`DecodeExists` do the same for the loops of `Tlv8`.

`HsvControlProofs` proves `TypeOK`, `CameraFollowsSelected` and `AloneSettles`. The types need that a
handler on its way to the camera knows its configuration (`HasConfig`). The camera follows because the
encoder is ahead of the selection only while the one inline handler is between its two steps
(`Follows`); spawned handlers touch neither, and a restart applies what it loaded first. For
`AloneSettles` the invariant says what a handler that is alone has settled at each place on its way
(`Undisturbed`): nobody else is at work, and behind the write of the file and the decision about the
recorder these are what the settings say, the
file if its write went well (`saved`). What was there before does not matter, so it holds after any
race and any crash.

`HapConnectionProofs` proves `TypeOK` and the four properties of its run. `ResponsesWhole` rests on
one fact about the queue: the response in hand is in it once, as a whole, and only while the
controller waits for it (`OneResponse`). For the events, what a controller has heard, what is
queued and what is deferred are one increasing sequence (`Ordered`); the last change that was not
made in silence is in it (`Reaches`); and an event is deferred only behind a response that is
being written, so that the flush moves it on (`Flowing`). `VerifiedInPlain` holds because the keys stay in
`session_receiver` until the transport polls with nothing to write, and a poll between handler
and flush is what `raced` records (`Plain`).

`MotionProofs` proves `TypeOK`, `AgreeUnlessRaced` and `FreshUnlessRaced`. For the types, a
generation is bounded by the events before
the one in hand until that one has moved it (`GenBounded`). No two timers of one kind have the
same generation, and the last Start's has the current one (`Generations`), so an older timer
finds another generation and clears nothing. The flags agree because, while nothing is raced, one
task at a time is part way, and each place on its way says what agrees there
(`Undisturbed`).

`PairingProofs` proves `TypeOK`, `StatusFollowsPairings`, `IdOnFile` and `OneDeadlock`. For the types, a request in
progress is about a controller (`OfController`). Several requests change the pairings at once, each
with a listener behind it; the flag is right, or one of them has yet to count and will find that
it is not (`FlagOK`), and the file and the mDNS record are right or a save is under way
(`FileOK`, `PublishedOK`). A torn `config.json` is that of one save, of a listener (`IdOK`), as config is locked
throughout, or of the start, which before it serves anybody has saved what it knows (`Starting`). `OneDeadlock` is the second half of `OnlyAddMeetsListener`: a request holds exactly the
mutexes that its place implies (`Owned`), so whoever waits for config waits for a listener on its
way to storage, storage is held over a wait by `handle_add` alone, and the emitter by a listener
that waits for one of these; the chain of holders ends in that pair whatever the number of
connections.

Only model-checked:
- the liveness properties `QuietStreamEnds`, `SensorsCleared` and `Answered`, and the first half of
  `OnlyAddMeetsListener` (that a request which can never go on waits for a mutex), which says
  ENABLED: fairness and ENABLED are beyond TLAPS;
- the round trip of `HdsCodec`, whose containers make it recursive (RECURSIVE operators have no backend):
  `HdsRoundTrips`, which `HdsFraming` assumes, is evaluated for the samples of `MCWireFormats`;
- `EventsSurvive`: from the set of lines alone it does not follow. It needs in addition that code
  and action are plain characters and that what follows a line break in the data is not itself an event, which is
  so of the samples and of the camera.

## Not modelled

- The generated HAP definitions (`hap/src/{characteristic,service,accessory}/generated` and the
  tables beside them) are about 66 000 of the repository's 81 500 lines of Rust, and have no
  behaviour of their own. They bound the share of the lines that any model can stand for.
- Metrics (counters nothing else reads), logging, argument parsing, the JSON of accessories and
  characteristics.
- The HTTP digest client and the probing of the camera's capabilities: requests and answers, with
  no state kept. `rpc_get_config` retries a read by itself; such a read that fails in the end is
  one fault in `CameraSettings`. The camera, ffmpeg and the controllers are the environment.
- `amcrust apply-settings` (`src/main.rs`, 498-545) applies the same profiles in an order of its
  own, each reported apart.
- Cryptography: a key is what it is derived from, a ciphertext opens with its nonce and key. SRTP
  contexts and the timestamp rescaler of `src/srtp.rs`, the keyframe scan and the relay of packets
  in `src/stream.rs`.
- The earlier messages of pair-setup and pair-verify, which keep their state in the handler of one
  connection; the report of snapshot deliveries. The HDS codec reads 32-bit floats and lengths above
  65535, but no sample has one.
- The reconnect of the camera's event stream: for the rest of the program it is the loss of events,
  which `Motion` allows at any time.

## The plan

1. A proof of `EventsSurvive`, with an assumption on lines; `HdsCodec` as functions, so that its round trip
   can be proved as those of `Tlv8` are.
2. The media proxy with the timestamp rescaler, as part of `LiveView`.
3. Composition of `DataSend` with `HsvControl`: what a change of `recording_allowed` does to a
   stream that is on.

The runs stay few: where a module needs one, a violated property makes way for the strongest
form of it that holds, as `KeyIsSessionBound`, `IdOnFile` and `OnlyAddMeetsListener` did.
