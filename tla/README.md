# Verification of generic_messenger

TLA+ models of the concurrent core of the messenger, TLC configurations that
check them on small instances, and TLAPS proofs of what matters most for every
size. Paths below are relative to the repository; `discord/` stands for
`src/interface/discord/src/`, `record_v2/` for `src/record_v2/src/`.

## 1. The system

The program is a desktop messenger. The application crate (`record_v2`, an iced
UI) talks to *adapters* (Discord, Steam) through the traits of
`crate/messenger_interface`: queries, text, voice, and event streams. An adapter
has no task of its own. Its work is done inside the futures the application
polls: the event streams (`next()`), the queries, and the calls of the user.
That is the source of most of what is hard here: whoever happens to poll runs the
gateway for everybody, any future may be dropped at any await, and the same
history reaches the UI along two ways, by REST and by gateway events, that are
not ordered with each other.

| Component | State | Operations | Talks to | What is hard | What makes it correct |
|---|---|---|---|---|---|
| Recording windows (`discord/gateways/general/recording.rs`) | the shared event buffer, `front_seq`, `active_starts`, `recording_refs`, one mutex | `start_recording`, `take`, `Drop`, `maybe_record` | fetches open windows, event handlers record into them | a lock-free counter beside a mutex; windows of equal start; trimming under open windows | every window gets exactly what was recorded while it was open; no index leaves the buffer; nothing is kept for nobody |
| Message synchronisation (`discord/text.rs`, `gateways/general/events.rs`, `record_v2/events.rs`, `record_v2/pages/messenger.rs`) | `text_events` (a ring of 4096), a room's `messages` | MESSAGE_CREATE / UPDATE / DELETE, `get_messages`, `OpenChat`, `UpdateChat`, `process_text_event` | REST, gateway, UI | events that overtake the answer of a fetch, and the other way round; awaits between the merge and the UI; a full queue; a poll dropped half-way | the room is never older than what the UI has processed, and in the end shows what the server has |
| Optimistic sends (`record_v2/pages/messenger.rs`, `events.rs`, `state.rs`) | bubbles in `messages`, `pending_sends` | `Send`, `ConfirmPending`, `RemovePending`, `MessageCreated`, `UpdateChat` | REST answer, gateway echo | answer, echo and fetch race; the echo is matched by room, not by message | no bubble is left behind; no message is lost or doubled |
| Stream ownership (`discord/lib.rs`, `messenger_interface/src/stream.rs`, `discord/text.rs`) | strong count of `InnerDiscord`, `active_streams`, `killed` | `poll_next`, `StreamPollGuard`, `owner_dropped`, `kill`, clones and drops of handles | every event stream | two counters read one after the other; parked futures own what they wait for | a backend in use is not killed; an abandoned one ends all its streams |
| Gateway pump (`discord/gateways/polling.rs`, `lazy_arc.rs`, `lib.rs`, `query.rs`) | the cell `gateway`, the receiver lock, `pulled_notification` | `listen`, `get_or_try_init`, `poll_for_events`, teardown, `kill`, `poll_gateway_until` | all streams and queries | who pumps changes at every event; the pumping future may be dropped; connections come and go under the pollers | one pass at a time; one connection at a time; nobody parks while another pumps |
| Voice handshake (`discord/voice.rs`, `gateways/voice.rs`, `gateways/general/events.rs`) | `VoiceGatewayStatus`, `voice_gateway` | `connect`, `disconnect`, VOICE_STATE_UPDATE, VOICE_SERVER_UPDATE, close | app calls, main gateway, voice gateway | two halves in either order; calls that fall between them | the gateway that opens is that of the channel asked for; a closed status leaves none |
| Voice roster (`discord/gateways/general/voice_state.rs`, `discord/query.rs`, `record_v2/events.rs`, `pages/messenger.rs`, `main.rs`) | `voice_states`, `voice_participants`; the rooms of a guild; `calls` | VOICE_STATE_UPDATE, Ready, `house_details`, `GuildRoomsLoaded`, `ParticipantJoined`, `ParticipantLeft`, calls | gateway, UI | two maps with an await between them; a roster read channel by channel and delivered later; a call that copies its room | adapter, rooms and calls show everybody where they are; leaving ends the call |
| Query cache and sidebar lists (`discord/query.rs`, `gateways/general/events.rs`, `record_v2/main.rs`, `events.rs`) | `dm_channels`, `guild_channels`, `channel_id_mappings`, `query_events`; the lists of the sidebar | Ready, CHANNEL_CREATE, `rooms`, `house_details`, `StartUp`, `process_query_event` | REST, gateway, UI | one channel arrives by the cache, by REST and by an event; the snapshot is stored after events have begun | every channel is listed once and can be located, if its type has a location; what is announced is heard and stays, or the stream has ended |
| Login and start-up (`discord/lib.rs` `ensure_token`, `query.rs` `poll_gateway_until`, `record_v2/main.rs`, `auth.rs`, `pages/login.rs`) | `token`, the cached error, `token_lock`; `LoginInfo`; the screen and the registry | `ensure_token`, boot, submit, `Login`, `StartUp`, `SaveCredentials` | every REST call, the file system | many callers at start-up; answers that never come; a kill between the writes of a line of the file | one exchange per password; only verified messengers, or what a kill has left of one, are registered and saved; no login is lost in another way; the start-up ends |
| Voice connection and audio (`discord/gateways/voice/*`) | the connection and its keys, SSRC maps, nonces, the audio manager | voice opcodes, `poll_audio`, `prepare_session`, `pull`, `process`, `send_frame` | UDP, DAVE, audio devices, UI | a microphone acquired over two awaits; sessions rebuilt for every new speaker; a call that ends between check and send | a nonce is never used twice; nothing goes on after the call; who talks is heard |
| Overwrite ring (`crate/overwrite_ring`) | slots, head | `push`, `contains` | nobody yet | the slot is claimed before it is written | an item is found after its push |
| Downloads (`discord/downloaders.rs`) | files | `cached_fetch`, `write_atomic`, sweep | file system | two writers of a file, a crash between write and rename | a file that is there is whole |
| Steam (`src/interface/steam/src`) | the session and its mutex, its update streams, `pending`, the locations of rooms | `connected`, `establish`, `poll_update_once`, `drive_update_for_cache`, `next_text_event`, queries | vendored transport | nobody but the callers reads updates; a timeout drops one half-way; everybody may rebuild the session | one session; no text twice or forgotten; a group room is never mistaken in a session that has shown it |
| UI (`record_v2/main.rs`, `auth.rs`, `pages/*`) | pages, registry of messengers, the state of a call | navigation, call state events | adapters | a call's events may come before the call is stored | the call view follows the call |
| Audio (`crate/audio`) | device streams, effects | input, output, resampling | voice connection | device callbacks | outside the model: data, devices |
| RTP, encryption, REST and rich text, vendored `steam-vent` | - | byte layouts, parsing, transport | - | data transformation | unit tests |

## 2. Modules

| Module | Models | Variables for code state | Steps |
|---|---|---|---|
| `WindowLog` | what recording windows promise: a private log each | `open`, `log`, `taken`, `inflight`, `owed` | `Open`, `Take`, `Close`, `Begin`, `Finish` |
| `Recording` | how one shared buffer keeps that promise | `buffer`, `frontSeq`, `activeStarts`, `recordingRefs`, `lock`, `startSeq` | each critical section is split at its atomic counter operation; the load of `recording_refs` in `maybe_record` takes no lock |
| `RecordingProofs` | proofs about `Recording` | | |
| `ChatSync` | one room between REST, gateway and UI; its windows are `WindowLog`'s, by INSTANCE | `queue` (`text_events`), `view` and `fetched` (`room.messages`), `fpc` and `list` (`get_messages`), `handling` (the event handler) | one action per piece of code between two awaits |
| `ChatSyncProofs` | proofs about `ChatSync` | | |
| `PendingSends` | the optimistic sends of one room | `view`, `pendingSends`, `page`, `chatOpen` | `Send`, `ConfirmPending`, `RemovePending`, `Consume`, `UpdateChat` |
| `StreamOwner` | reference counting of the backend | `activeStreams`, `killed`; the strong count is derived from where each stream is | `poll_next` and `next()` step by step |
| `GatewayPolling` | the receiver lock and the connection cell | `gateway`, `holder`, `conn` (the loaded Arc), `init` (the lock of `LazyArc`), `killed` | `poll_for_events` step by step |
| `VoiceRoster` | who is in which voice channel, from gateway to call view | `states`, `roster` (the two maps), `handling` (suspended handlers), `queue` (`voice_events`), `rooms` (what a fetch has read), `view` (`guild.rooms`), `cpc`, `croom`, `cusers` (calls) | one action per piece of code between two awaits; the fetch reads channel by channel |
| `VoiceRosterProofs` | proofs about `VoiceRoster` | | |
| `SteamSession` | one Steam session shared by queries and the event stream | `cached`, `connecting` (the mutex of `connected`), `secret`, `conn` (`Connected`: alive, queues, the streams' lock, `pending`, the friends cache, `known` (`chat_groups`), `located` (room locations)), `call` (the callers' futures), `attempts`, `listed` (the app shows the group) | `connected()`, `poll_update_once`, `next()` and a query each cut at its awaits and locks |
| `SteamSessionProofs` | proofs about `SteamSession` | | |
| `AudioCall` | the media of a call | `call` (the voice gateway's cell), `linked`, `key`, `nonce`, `speaking`, `named` and `channel` (the SSRC maps), `manager`, `events` (`audio_events`), `stream` | `next`, `prepare_session`, `pull` and `process` cut where the call may change |
| `StartUp` | logging in, loading and the questions of the start-up | `screen`, `button`, `registry`, `file` and `cut` (the whole and the cut lines of `LoginInfo`), `unsaved` (where a save is), `broken` (messengers of cut lines), `step`, `token`, `failed`, `gateway`, `cache`, `query` | one action per message of the app, per await of a question and per write of a line that a load can tell apart; `Crash` |
| `AudioCallProofs` | proofs about `AudioCall` | | |
| `Directory` | conversations and rooms of a guild, from the server to the sidebar | `dm_channels`, `guild_channels`, `mapped` (`channel_id_mappings`), `query_events`, `step`, `stream`, `conversations`, `rooms`, `fetch`; a list is the count of each channel in it | Ready, CHANNEL_CREATE, `rooms()`, `house_details`, the app's messages; `next()` cut at its empty `pop()` and at the yield of `poll_for_events` |
| `VoiceHandshake` | the voice handshake | `status`, `voice`, `opening` (the status mutex kept through the handshake), `passGw` (the gateway a pass has loaded) | app calls, server, handlers |
| `GatewayProofs` | proofs about `GatewayPolling` and `VoiceHandshake` | | |
| `StreamProofs` | proofs about `StreamOwner` and `Directory` | | |
| `AppProofs` | proofs about `StartUp` and `PendingSends` | | |

The last three proof modules extend two components each, so the specifications of
`VoiceHandshake`, `Directory` and `PendingSends` carry a letter: `HInit`, `HNext`, `HSpec`,
`HTypeOK`; `DInit`, ...; `PInit`, ...

Composition: `Recording` implements `WindowLog` (checked and proved), and
`ChatSync` is built on `WindowLog`, so the merge of a fetch is checked against
the abstract windows and holds for the real ones. `GatewayPolling` explains who runs the
handler of `ChatSync`, `VoiceHandshake` and `VoiceRoster`, and where it can be cut
off (their `Cancel`, `EndPass`); `StreamOwner` explains when `Kill` of `GatewayPolling` happens.
`VoiceHandshake` opens the gateways whose media `AudioCall` models (`Open`, `Close`),
`StartUp` asks the questions of which `Directory` models one in full (`AskRooms`), and
`Directory` fills the list of rooms that is fixed in `VoiceRoster`.
They are checked one by one, since their product is beyond TLC.

Data are abstract: a message is the number of its newest revision in `ChatSync`, a
name in `PendingSends`; an endpoint is the channel it was issued for. The server
and the gateway are modelled from how the code uses them and are marked external
in the map: the gateway delivers changes in order, REST answers with the history
of one moment, and the server answers opcode 4 with the two voice updates in
either order.

History variables record what the properties speak about and are read by no
guard: `owed` and `taken` (windows), `seen`, `emitted`, `gap`, `missed`, `partial`
(`ChatSync`), `consumed`, `gap`, `missed`, `mixed` (`PendingSends`), `raced`,
`failed` (`VoiceHandshake`), `cut`, `missed`, `deaf`, `joined` (`VoiceRoster`),
`delivered`, `dropped`, `misrouted` (`SteamSession`; its `shown` also tells whether the app
can click the room), `used`, `reused`, `late`
(`AudioCall`), `exchanges`, `accepted`, `lost` (`StartUp`), `lost` (`Directory`).

## 3. Runs

### What passes

* **Recording** (3 windows, 2 recorders, 2 payloads, 3 recorded events). Three
  windows are needed for one to be trimmed past while two of equal start are
  open; two recorders, since a handler that is being dropped with an old
  connection may overlap the new one. `IInv`: the inductive invariant of the
  proofs, which implies that no index in `take()` and `Drop` underflows
  (`StartsInBuffer`) and that nothing is kept for nobody (`BufferTrim`).
  `ImplementsWindowLog`: refinement.
* **ChatSync** (2 messages, 2 overlapping fetches, 2 revisions, a queue of 2, 3
  changes by the server). `NeverStale`: the room never goes back behind what the
  UI has processed. `Converged`: when all is delivered, a fetched room shows what
  the server has. `FoldFresh`: the merged list contains everything emitted
  before `take()`. The first two except the messages in `missed`: those that fell into a gap the
  code has, which are (a) an event lost by a full queue, (b) an event whose
  handler was dropped at the avatar's await, (c) an event consumed after
  `take()`, or a create consumed after the server's answer, while the list of the
  fetch was not yet in the room. A queue of 2 overflows with 3 changes; three
  changes are a create, an edit and a delete of one message, or any mix of two.
* **PendingSends** (2 sends, 2 messages of others, 1 fetch). `NoGhosts`: a send
  that is over leaves neither bubble nor entry. `ConsumedShown`: no processed
  message is lost except to a fetch answered before it. `OneAtATimeNoRepeats`: no message
  is doubled if sends do not overlap other traffic and no fetch hits a bubble;
  without that condition two quick sends can double one, because the echo takes
  the oldest bubble of the room (`record_v2/events.rs:94`).
* **StreamOwner** (3 streams on one task, as the query, text and voice streams of
  an account are, up to 2 handles). `KilledOnlyUnowned`, and `DroppedEnds`: after the last handle is dropped every
  stream ends.
* **GatewayPolling** (2 pollers, 2 listeners, 2 connections). `NeverReplaced`, and `WokenByPump`: a parked poller goes on, as long as another
  pumps. Two connections are what a teardown and a reconnect need, two pollers one
  that pumps and one that is parked or still on the old connection; `NeverReplaced`
  is proved for any number. `WokenByPump` says no
  more than that: `try_lock` and the registration of `notified()` are
  two steps and the notification precedes the unlock, so a poller can
  park just after the last notification and stay parked beside a free lock until
  somebody pumps again or kills the backend.
* **VoiceHandshake** (2 channels, 3 calls, 3 sessions). `ClosedMeansDown`, and
  `LoneCallOpens`: a call made in quiet gets a gateway whose
  channel, endpoint and session belong together.
* **VoiceRoster** (2 users, one of them logged in, 2 channels, 2 overlapping fetches,
  1 call, a queue of 2, 3 dispatches of which the first two may be a Ready). `RosterFollows`: the adapter's two maps agree,
  and agree with the server except for users whose handler was dropped at the avatar or
  had no member data (`cut`). `Converged`: when all is delivered the rooms show
  who is there; except for those in `missed`, whose last event was lost by a
  full queue, was never sent (who left while the connection was down), or was
  processed while a fetch that had looked already was not in the rooms yet.
  So does a call, except for events between the click and the push of the
  call (`deaf`). `OwnLeaveEndsCall`. A move needs two channels, a fetch that undoes what events did needs two
  fetches; three dispatches are a join, a move and a leave, or a reconnect before the last of them. With
  a Ready as the third dispatch (4 million states), and with two calls for one user
  (180,000 states), the same properties hold; they are not among the runs.
* **SteamSession** (3 calls of the app beside the stream, 1 text of a group, 2 sessions, 2 polls of
  which 1 may be idle, 1 reconnect). `OneSession`: at most one session is alive and
  one caller logs in at a time, with the one-time code only before the first token.
  `NeverTwice`: a text is in one place, and shown once. `Heard`: it is shown, unless a timeout dropped it
  half-processed or its session or the stream ended first. `StreamEnds`: the stream notices at the top of its
  loop and in its backoff that nobody else holds the messenger. `RoutedWithinSession`: in every
  session that has shown a group room to the app, the first or one made after a logoff, what is
  read, written or called in the room goes to the group; it goes astray only in a session newer
  than one that has shown the room, as long as that session has not shown it itself.
  `Wants` says which call each of the three may be: `houses()`, `house_details()` and a click in the
  room, in this order because the app clicks only what it shows, or one or two polls for
  the friends list (`contacts()`) beside the stream. Any of them may fail, or fall back on
  `chat_groups`, or find the session replaced: so the click may come in the session that
  has shown the room, in a newer one that has shown it again or was told by a text of the
  group, and in a newer one that knows nothing. Two sessions are a logoff and a rebuild; the
  bounds on polls and reconnects are the code's own
  constants (100, 10 and 6), made small. Only Steam's logoff ends a session in the model as in the
  code: a dead socket makes the streams silent (`session.rs:463-476`).
* **AudioCall** (2 streams, 2 calls, 1 speaker, 3 session descriptions, 2 frames, 2
  lost senders, 1 retry). `NonceFresh`, `OneLateFrame`, and `SpeakersHeard`: whoever talks in
  a call with keys gets a playback channel or the call ends. Two streams are what a second call needs
  while the first one's stream still holds the manager; an old stream may serve the new call. The
  assumption that frames do not exceed the nonces is stated: 2^32 frames of 20 ms are
  2.7 years. The budget of retries is spent for good once the app drops as many
  senders; the call is then receive-only, which `SpeakersHeard` covers.
* **StartUp** (2 messengers, both saved, so that a file and its prefixes, a file that
  lacks one, and a new submission all occur; 2 questions; 1 poll; 1 kill). `OneExchange`: a password is
  exchanged once whatever comes of it, although REST and the gateway both
  need the token. `CommitVerified` has two halves. `LoginsVerified`: the whole lines of `LoginInfo`
  and the registry are messengers that have answered, the registry with a token; the
  exception are lines that a kill has cut inside their token and the messengers a load makes of
  them, which never answer and are saved again as they are, and each of those is a login counted as
  lost. `LoginsKept`: every login that has answered is registered or in the file, also
  if its questions fail in later runs, unless it is lost by a kill before its line was whole, or
  by a load that stopped before it and a save after that. `StartUpEnds`: login and loading page are
  left even if no gateway sends anything. A line is written in two steps, the name with its colon and the
  token: a name without its colon is skipped by `load` as no line at all, and a line without its
  newline is whole. Two questions are two callers of
  `ensure_token`; 8 polls are 1, since a second poll repeats the first. One kill can fall
  between any two writes, and its file is loaded, refused and saved again.
* **Directory** (2 conversations of which 1 is of a type without a location, 2 rooms of which 1 is
  hidden, 2 fetches, a queue of 1). `Listed`: a channel is in the sidebar once and, unless its type has
  none, has its location; lists are counts, so that a repeat in a cache would come through
  `process_guild_channels` into the rooms, as in the code. `Announced`: a conversation that is in the queue
  when `next()` is at the top of its loop reaches the sidebar and stays there, unless
  the full queue loses it; one that is queued while `next()` is in its poll, after its `pop()` found nothing,
  may instead be left behind by a stream that ends in that poll. One conversation and one
  room exist from the start and one of each is created, so a queue of one overflows, and
  every channel can come by the cache, by REST, by an event or by several of them.

Every counter is capped in a guard by a named constant (`MaxSeq`, `MaxRev`,
`MaxChanges`, `MaxOwners`, `MaxSession`, the set `Conns`). `QueueCap` is the code's own constant,
4096, made small so that overflow happens. Symmetry is used for interchangeable
sets in runs without liveness only. `CHECK_DEADLOCK FALSE` stands where the
system may really be finished: all changes made and delivered (`ChatSync`), all
sends settled (`PendingSends`), all dispatches handled (`VoiceRoster`), all streams ended (`StreamOwner`), the backend
killed and all pollers ended (`GatewayPolling`), all calls made
(`VoiceHandshake`), all callers ended (`SteamSession`), all calls over (`AudioCall`), the start-up done (`StartUp`),
all channels announced (`Directory`); `Recording` is checked for deadlock.

### Fairness

* `StreamOwner`: a poll that runs goes on (weak fairness of its steps); each
  stream that is not being polled is polled again and again although other polls
  get in between (strong fairness of `Upgrade` and `Resume`), as the executor
  polls every subscription that was woken, and a parked one is woken at the latest by
  the heartbeat timer, which ends each pass (`polling.rs:100-117`).
* `GatewayPolling`: weak fairness of the steps of each poller: its future is
  polled when it is ready, the heartbeat timer makes a waiting pass ready, and
  handlers return. Nothing is assumed of the server, of listeners, of cancellation,
  or of a parked poller.
* `SteamSession`: weak fairness of each caller: every await is answered or timed out by the
  250 ms of `poll_update_once`. Strong fairness of `TakeText(Stream)`: `SelectAll` polls its streams
  in turn, so pushes of the others cannot hide a text forever. Nothing of Steam.
  The lock of the streams is not fair and is awaited outside the timeout; a query gives up after
  its polls, so it cannot keep the stream out forever.
* `AudioCall`: weak fairness of the app's messages, of the steps of a stream and of the heartbeat
  that ends a wait (every second, `audio.rs:281-294`); strong fairness of `Packet`: somebody who talks sends
  packet after packet.
* `StartUp`: weak fairness of the app's messages and of every question: requests, connects
  and exchanges are answered or fail, and polls time out. For the polls that is the code
  (`query.rs:84-96`); for requests, exchanges and the gateway's Hello it is an assumption, since the code sets
  no timeout (`general.rs:129-132` waits for Hello as long as it takes), and the comment of
  `StartUpEnds` says so. A single question that is never answered holds up all
  messengers, since the start-up joins them (`main.rs:137`).
* `Directory`: weak fairness of the app's messages, of the requests and of the steps of `next()`: a pass
  ends with the next heartbeat, which wakes those who wait for it. The
  gateway need not hand anything over, and need not close.

### What is violated, and by what

* **ChatSyncResurrection** (`NoResurrection`, `events.rs:327-331`): the window is closed
  after `take()`, the avatars of the page are still fetched, and `UpdateChat`
  then replaces the list: a message whose deletion was processed
  in between is back.

### Where code and documents differ without a run of their own

The models contain these behaviours, and the properties of the passing runs are
worded around them.

* `owner_dropped` across tasks (`lib.rs:369-372` says a race "can only delay
  detection"): with streams polled by different tasks a future that resolves
  between the load of `active_streams` and that of the strong count makes the
  comparison true under an owner. The query, text and voice streams of an account are polled
  in one batch (`record_v2/main.rs:197-215`), where it cannot happen, but the audio stream of a call is
  a task of its own (`record_v2/events.rs:213-219`).
* Teardown (`polling.rs:27-29`): a poller that still works on an old connection clears the
  cell after `listen()` put a new connection there (`polling.rs:124`).
* Switch of voice channels (`gateways/voice.rs:228`): the old gateway is still stored; if the session id
  comes last its handler does not try (`events.rs:173`), and nobody opens the new one.
* Participants (`record_v2/events.rs:235-238`, `query.rs:252-254`): who joins after `house_details` has
  read the roster, with the event processed before `GuildRoomsLoaded`, is missing from the rooms, and
  they are not fetched again.
* Steam rooms after a reconnect (`steam/query.rs:1047-1049` says the stream "transparently rides through
  reconnects"): the new session has no locations, and an open group room is taken for a
  friend's chat until the session has shown it, by `houses()`, by `house_details()` or by a text of the
  group (`steam/query.rs:964-970`).
* The end of the Steam stream (`steam/query.rs:1085` says it ends "only when the app
  drops its last" handle): `note_reconnect` gives up at the seventh rapid failure. A failed
  login ends a query with an error, and the next caller tries again; Discord caches the error.
* A text Steam has pushed is lost when the download of its image outlasts the 250 ms of the
  poll, and a logoff can overtake queued texts.
* New conversations are announced, but `dm_channels` is not extended (`events.rs:447`), so a cache
  read later lacks them; hidden rooms are left out of a fetch and shown by their event.
* `LoginInfo` is cut before it is rewritten (`auth.rs:50-63`), and nothing buffers the writes of a
  line: a kill in between loses logins, and one inside a token leaves `Discord:` or a part of the token,
  which the next load registers (`auth.rs:29-36`) and the next start-up saves again.
* A stream can end with events in its queue: `pop()` finds nothing (`query.rs:428`), another stream's pass queues
  one during the yield (`polling.rs:89`), and this one then reads the close (`polling.rs:121-125`).
* A created channel without a location is announced like any other (`events.rs:429-452`).
* A session rebuilt for a new speaker loses its stop-speaking timer while
  `is_speaking` stays set (`audio.rs:225`).

## 4. Proofs

`RecordingProofs` proves, for any finite sets of windows and recorders, any
payloads and any `MaxSeq`, from `RecordingAssumption` alone:

* `RecordingInvariant`: `Spec => []IInv`. `TypeOK`, `StartsInBuffer` and
  `BufferTrim` are not inductive: that `recording_refs` does not go below zero
  needs the number of windows it counts (`RefsInv`); that a start removed in `Drop`
  is the window's own needs `active_starts` to be the multiset of the starts of the
  listed windows (`StartsInv`); both need to know who holds the mutex
  (`MutexInv`), and a window being registered starts at the end of the buffer
  (`RegisteringInv`). `OwedInv` ties a recorder's debt to windows that are open.
* `RecordingTypeOK`, `RecordingStartsInBuffer`, `RecordingBufferTrim`: its parts.
* `RecordingImplementsWindowLog`: `Spec => WL!Spec`, by the mapping that
  gives window `w` the slots of the buffer from its own start on. The heart of it is that
  trimming the buffer and moving `front_seq` by the same amount changes no
  window's slots, which is where `StartsInBuffer` is needed, and that the
  re-check in `maybe_record` skips a push only when nobody is owed one.

`StreamProofs` proves, for any finite set of streams and any `MaxOwners`, from
`StreamOwnerAssumption`:

* `StreamOwnerTypeOK` and `StreamOwnerNeverOverstated`, however many tasks poll the streams: `active_streams`
  is exactly the number of registered futures (`CountInv`), and those
  are among the futures that hold an Arc.
* `StreamOwnerKilledOnlyUnowned`: if `OneTask`, the backend is never killed under an
  owner. The induction needs that at most one stream is being polled
  (`OnePollInv`), so that the count it has loaded is still the count when it
  compares (`LoadedInv`), and the strong count is then owners + registered futures + its
  own upgrade; so equality means no owners, and none can come back (`KillInv`). Without
  `OneTask` the claim is false (section 3).

`GatewayProofs` proves, for any pollers, listeners and connections, from
`GatewayPollingAssumption`:

* `GatewayPollingTypeOK` and `GatewayPollingLockHeldByPass`: the lock is held
  by the pass that runs, through cancellation, teardown and kill. The two are
  inductive together: that whoever locks has loaded a connection is part of `TypeOK`.
* `GatewayPollingNeverReplaced`, from `InitLockInv`: the init lock of `LazyArc` is held
  by the listener that connects, and while it is held the cell is empty.

`VoiceRosterProofs` proves, for any users, channels, fetches and calls, from
`VoiceRosterAssumption`:

* `VoiceRosterFollows`: `RosterFollows` is not inductive, since it says nothing while a
  handler is suspended. Then the suspended future must bring what `voice_states` and the
  server already say (`HandlingInv`; one dispatch is handled at a time), and whoever was
  not cut is listed or about to be (`CutInv`).
* `VoiceRosterTypeOK`.
* `VoiceRosterConverged`: the end of the way says nothing about the way. `DeliveryInv` follows
  each user who was not missed: what the roster has of them is the last event still
  queued, or, if none is, what every place downstream has been given: the rooms a fetch has
  collected so far, the rooms shown, the copy of each call. A dispatch either queues the new truth
  last or changes nothing for the user (`DispatchPushes`); consuming an event delivers it everywhere
  at once or, while a fetch that has looked is under way, counts the user as missed.
* `VoiceRosterOwnLeaveEndsCall`, from `JoinedInv`: a call the user was last seen joining exists, and no
  room but its own shows the user, so the handler finds it by its room, by its own copy, or because it
  is the only one.

The arms of the `CASE` in `ParticipantJoined` are written to exclude each other: TLC takes the
first that is true, while a proof may assume no more than that some true one is taken.

`ChatSyncProofs` proves, for any messages, fetches, revisions and queue, from
`ChatSyncAssumption`:

* `ChatSyncTypeOK`, with the bound of `text_events`.
* `ChatSyncFoldFresh`: events of one message are emitted, queued and logged in the order of
  their revisions; an open window has missed nothing since it opened; and so the answer
  of the server together with the log is as new as whatever was emitted before `take()`.
* `ChatSyncNeverStale`: a list that is on its way to the room is as new as what was emitted when
  the window was taken, and what the UI processed afterwards is in the gap.
* `ChatSyncConverged`: the room differs from the server only by what is queued, logged or in a
  handler (`Tracks`); with nothing under way nothing is left to differ.
* `ChatSyncUsesWindowLog`: `Spec => Rec!Spec`. A step takes, ends or records into the windows as
  `WindowLog` says, or leaves them alone (`WindowStep`). `RecordingImplementsWindowLog` has it that
  the shared buffer with its reference counts does no more than that, so the two meet there.

`apply_to_messages` is a loop over the log; the model has its closed form (the last event of a
message wins), since a proof by induction over the log is out of reach. `MCChatSync` has the
loop as the code writes it and an `ASSUME` by which TLC compares the two for every log and list
of the instance.

`AppProofs` proves, for any messengers, questions and crashes, from
`StartUpAssumption`:

* `StartUpTypeOK`.
* `StartUpOneExchange`, from two facts: only the login being verified or the start-up asks
  questions, and they exclude each other (`AskedInv`), so nobody replaces a
  question in the middle of its exchange; and an exchange that has begun is under way
  under the token lock, or has left a token or an error that stops the next caller
  (`ExchangeInv`). A kill clears the count with the memory of it: the claim is about
  one run of the app.
* `StartUpCommitVerified`: a question gets past `ensure_token` only with a
  token (`TokenInv`), and only a question that has been answered puts a messenger into
  the registry or a whole line into the file (`AcceptedInv`). What a save has yet to write is registered, from
  its first write on every unbroken entry is written or to be written, and a cut line that nobody
  is writing, like a messenger made from one, is among the lost (`SavedInv`); so a kill after
  any write leaves each login in the file or among the lost.

`AudioCallProofs` proves, for any streams, speakers, calls, keys and frames, from
`AudioCallAssumption`:

* `Kinds`: every step enters, attaches to, leaves or goes on with a session, takes a nonce,
  sends, is a session description or happens elsewhere, so that each part of the
  invariant is checked against those and not against twenty actions.
* `AudioCallNonceFresh`: keys are handed out once (`KeyInv`); what was used under a key still in
  use lies behind its counter (`UsedInv`), also after the counter has wrapped, since there are no
  frames left then; and the bound a session has checked before it
  announces still holds when it takes the nonce, because only the holder of the manager is in
  a session (`HolderInv`, `SpeakInv`). The last is about the bound of the model; the rest
  does not need the manager's lock.
* `AudioCallTypeOK`: no counter passes its bound, the calls still linked have been opened, and the
  queues hold events about a speaker or the microphone (`RestOK`).
* `AudioCallOneLateFrame`: calls are numbered, so the call of a session that has sent a late
  frame does not come back, and every way to another frame checks it again (`LateInv`).

`SteamSessionProofs` proves, for any queries, texts, sessions and budgets, from
`SteamSessionAssumption`:

* `StepKinds`: a step is a logon's (`Rebuild`, `Establish`, `Refused`), takes or moves a text, or
  is a turn of one caller that leaves mutex, texts and locations alone or better (`Mild`), so
  that each part of the invariant is checked against those kinds.
* `SteamSessionTypeOK`: with who may be where (`CallInv`: a caller in a session has one
  that was made, a query is never in the stream's loop) and the budget of reconnects (`AttemptInv`: it
  is exceeded once, by the step that ends the stream).
* `SteamSessionOneSession`, from `ConnInv`: only the session made last can be alive; whoever
  establishes one holds the mutex and saw that one dead, and nothing revives it.
* `SteamSessionNeverTwice`, from `TextInv`: every step leaves each text where it is, forgets it, or
  moves one to another place (`MovesTo`); and a place that is a sequence has it once.
* `SteamSessionRoutedWithinSession`, from `RouteInv`: a session has the group in `chat_groups` only
  with the room's location, by whichever of the two requests it got it, so an answer that shows the room comes
  from a session that knows where it is, also after a failed request (`RoomFine`); no location is
  forgotten; and a call in a room gets a session no older than one that has shown it, since sessions
  are only made newer.

`GatewayProofs` proves, for any channels, calls and `MaxSession`, from
`VoiceHandshakeAssumption`:

* `VoiceHandshakeTypeOK` and `VoiceHandshakeClosedMeansDown`, from `OpeningInv`: whoever opens a voice gateway
  keeps the status mutex, so the status cannot be closed or change meanwhile, and it has both halves.
* `VoiceHandshakeLoneCallOpens`, from `LoneInv`: while no call meets another and nothing breaks, the whole
  system is in one of three phases. `Settled`: nothing is under way and the
  gateway is the server's place. `Joining` a channel: the request is on its way
  (`Asking`), or one or both of its updates are, in either order, and status and pass have exactly what has arrived
  (`Answered`). `Leaving`: the same for the request and the update of a leave. Every
  step goes from one phase to another (`FromSettled`, `FromAsking`, `FromAnswered`, `FromLeaving`),
  or starts a race or fails; at rest only `Settled` is left.

`StreamProofs` proves, for any finite sets of conversations and rooms and any fetches, from
`DirectoryAssumption`:

* `DirectoryTypeOK`, from `ServerInv`, `CacheInv` and `FetchInv`: nothing is dispatched, cached or fetched that does not exist.
* `DirectoryListed`: `Listed` is not inductive, since the lists are filled from the queue, from the
  answer at start-up and from fetches; all three carry only channels with a location, or without one by type
  (`QueueInv`, `StartInv`, `FetchInv`), and a location is never dropped (`Kept`).
  `Added` looks before it pushes. CHANNEL_CREATE does not (`events.rs:444-449`): that the cache
  has no repeats all the same is because a channel still to be announced on a connection is not in the Ready that the
  connection began with and is announced once (`FreshInv`), and Ready replaces the list of a guild.
* `DirectoryAnnouncedKept`: the safety half of `Announced`. The start-up answer replaces the sidebar, and
  may take away what it does not have; but the stream, which empties the queue, starts after it
  (`StreamAfterStore`), and a place in the queue is given up only at its head (`TailQueue`).

`AppProofs` proves, for any finite sets of sends and messages, from `PendingSendsAssumption`:

* `PendingSendsTypeOK`.
* `PendingSendsNoGhosts`: inductive with the types, as `retain` takes out every
  occurrence (`WithoutLists`) and a message event never puts a bubble in (`WithMessageLists`).
* `PendingSendsConsumedShown`, from `GapInv` and `ListInv`: a page has every message processed before it was
  answered, so replacing the list by it takes only messages in the gap.
* `PendingSendsNoRepeats`, from `SoloInv`: of sends one at a time at most one is in flight, the bubble
  is listed only with its entry in `pending_sends`, and while there is one, no message on the wire
  is shown; so whatever replaces the bubble was not there before.

`Without` is `retain` in closed form: the n-th element is the one that stays and has n - 1 such before
it. That it takes out exactly one value and keeps a list free of repeats is proved from that form
(`WithoutLists`); `MCPendingSends` has an `ASSUME` by which TLC compares it with `SelectSeq` on
every list of up to four entries.

Left to TLC: the two closed forms (`apply_to_messages`, `Without`) against the loops they stand for, inductions over
data; and, as out of reach of the prover, the liveness properties (`DroppedEnds`,
`WokenByPump`, `Heard`, `StreamEnds`, `SpeakersHeard`, `StartUpEnds`, `Announced`). Every safety
property of every run is a theorem, but for `NoResurrection`, which is violated.

## 5. Not modelled

* Reactions, `MESSAGE_DELETE_BULK` and pagination in `ChatSync`: a message would have to be
  more than its newest revision, and the product with two fetches is beyond TLC.
* Direct-message rooms in `VoiceRoster`; contacts, profile and houses beyond the question
  asked for them (`StartUp`): they are stored as they come.
* The contents of the handlers in `GatewayPolling`: they are those of `ChatSync`,
  `VoiceHandshake`, `VoiceRoster` and `Directory`. The heartbeat's ACK and resuming a session: the code does neither.
* DAVE's transitions (`voice/events.rs:247-484`): the state machine is the davey library's;
  `AudioCall` assumes it done, so that a packet decodes for a named speaker only. RTP, encryption,
  codecs: data.
* REST parsing, rich text, layout, device callbacks and resampling, image downloads: data and I/O.
* The overwrite ring: no crate of the workspace uses it.
* Names, avatars and histories of Steam, its voice signalling, and the vendored transport.
* The state of a call in the UI (`CallStatusUpdate`, `CallStreamReady` before the call is
  stored) beyond its participants.

## 6. Plan

1. `Recording` / `WindowLog`, `ChatSync`, `PendingSends`, `StreamOwner`, `GatewayPolling`,
   `VoiceHandshake`, `VoiceRoster` - done.
2. `SteamSession`, `AudioCall`, `StartUp`, `Directory` - done.
3. Proofs of every safety property of every component - done.
4. `ChatSync` over `WindowLog`, and the safety half of `Announced` - done.
5. Next: the safety halves of the other liveness properties (what a step may not take away from
   `WokenByPump`, `Heard` and `SpeakersHeard`), and a run for the hazards that have no property yet.
