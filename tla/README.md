# A formal model of the LiveKit server (SpeakNow fork)

TLA+ modules for the parts of this server whose correctness depends on the order
in which goroutines, messages, timers and failures happen, TLC configurations
that check them on small instances, and TLAPS proofs of the invariants that
matter most for every value of the constants.

The definitions keep the names of the Go functions they model; `PROJECT.json`
("map") gives the lines of each. A definition that begins a comment with "A form
of ..." is a wrong variant of the next one: it is what the property next to it in
`PROJECT.json` ("mutants") must be able to tell from the code.

## 1. The system

A node of the SFU accepts signal connections, keeps rooms and their participants,
and forwards media from each publisher to its subscribers.

| Component | State it keeps | Operations | What makes it correct |
|---|---|---|---|
| Room manager and room (`service/roommanager.go`, `rtc/room.go`) | rooms by name, holds, participants, request sources, batched updates | StartSession, getOrCreateRoom, Join, Resume, RemoveParticipant, CloseIfEmpty, Close, DeleteRoom, broadcasts | one room per name, no one is left in a closed room, a session is cleaned up after once and no other with it, clients see who is there |
| Participant (`rtc/participant.go`, `participant_signal.go`, `participant_sdp.go`, `supervisor/`) | state, version, close callbacks, cache of updates sent, pending and published tracks | Close, updateState, AddOnClose, SendParticipantUpdate, AddTrack, onMediaTrack, mutes, permission | states only go up, callbacks run once, a client that resumes is brought up to date; a request and its media meet, lists agree |
| Signal relay (`routing/signal.go`, `service/signal.go`) | queue, sequence numbers, retry deadline | WriteMessage, write, Close, Read | what was accepted is delivered in order and once, or the stream is closed |
| PeerConnection transport (`rtc/transport.go`) | negotiation state, event queue, timers, pending restart, cached candidates | events of the loop, timers, callbacks of pion | negotiation ends; copies agree with the PeerConnection |
| Subscriptions (`rtc/subscriptionmanager.go`, `mediatracksubscriptions.go`, `mediatrackreceiver.go`, `roomtrackmanager.go`, `uptrackmanager.go`) | desired and attached tracks, limit counters, notifiers, publications, subscriber maps | Subscribe, Unsubscribe, reconcile, bind and close callbacks, publish, unpublish, permissions | reconciliation converges, limits hold, nothing hangs on a closed track |
| Receiving side (`sfu/receiver*.go`, `sfu/buffer/`, `sfu/rtpstats/`, `sfu/streamtracker/`) | buffers, forwarder goroutines, extended numbers, NACK queue, trackers and available layers | packets, restarts, NACKs, mutes, reports | every buffer has one reader, numbers and losses are true, the layers listed are the ones that flow |
| Sending side (`sfu/downtrack.go`, `forwarder.go`, `rtpmunger.go`, `sequencer.go`, `utils/rangemap.go`, `rtc/subscribedtrack.go`) | offsets of numbers and timestamps, layer, slots of sent packets, bind state, mutes, settings | WriteRTP, padding, NACK, bind, mute, pause, allocation, close | numbers without reuse or holes of its own, retransmissions are true, what was asked for last is done |
| Bandwidth (`sfu/streamallocator/`, `sfu/ccutils/prober.go`, `sfu/pacer/`, `sfu/bwe/remotebwe/`) | shares, capacity, probe clusters | events of one goroutine | shares fit, paused tracks are told, a probe can end |
| Dynacast (`rtc/dynacast/`) | qualities wanted per codec, committed maximum, timers | notifications, debounce, regression, restart | publishers are asked for the best anyone wants |
| Data (`rtc/participant.go`, `datatrack.go`, `updatatrackmanager.go`, `sfu/datachannel/`) | numbers of messages, cache for joining participants, data tracks with handles | publish, subscribe, replay, RPC | messages arrive in order and once, handles are known |
| Agents (`agent/`, `service/agentservice.go`) | workers, jobs, dispatches | launch, assign, terminate | no job outlives its dispatch |
| Records in Redis (`service/redisstore.go`, `ingress.go`, `egress.go`, `ioservice*.go`) | keys of ingresses and egresses | create, update, report, sweep | a record is found by all its keys and swept in the end |
| Raw recording (`sfu/rawrec/`) | channel, window, target, file, reorder buffer, frame being built | Write, SR, Close, loop, lookups in Redis | files are whole or say that they are not |

Components interact by direct calls made with or without locks held (a close
callback of a down track runs in whatever goroutine closed it), by notifications
sent in goroutines of their own (`go listener.OnStateChange`), by channels
(reconcile channel, event queues, the packets of a recorder) and, between nodes,
by psrpc streams and Redis. The hard behaviours are nearly all of one kind: a
value is read under one lock and acted on under another. "hazards" in
`PROJECT.json` lists them, each at its line, with the properties that would catch
it going wrong.

## 2. Modules

| Module | Models | Checked by |
|---|---|---|
| `MediaTrack` | publications of a track, the tracks a room can resolve, one subscriber's entry in the subscriber map, the closing of a DownTrack | (part of the next) |
| `SubscriptionManager` | one participant's subscriptions: API calls, reconcile worker, goroutines of closing tracks, bind callbacks, notifiers, Close | `MCSubscriptions` |
| `SignalChannel` | what the relay promises: a FIFO of messages that may be closed with the rest lost | refinement |
| `SignalRelay` | one direction of a signal session between nodes: sink, stream, reader | `MCSignalling` |
| `PCOfferer`, `PCAnswerer` | the negotiation of a subscriber and of a publisher PeerConnection with its client | `MCSignalling` |
| `RoomRegistry` | opening and closing the room of one name | `MCRooms`, itself |
| `ParticipantSession` | the sessions of one identity | `MCRooms` |
| `ParticipantBroadcast` | how a room tells one participant of another | `MCRooms` |
| `ParticipantUpdateCache` | what a client knows of others after its connection broke | `MCRooms` |
| `RawAudioWriter`, `RawVideoWriter` | the raw recorders of a track | `MCRecording` |
| `RangeMap` | the map of ranges of offsets; its reference definition is in `MCPackets` | `MCPackets` |
| `DownTrackPackets` | munger, sequencer and padding of a video down track | `MCPackets` |
| `ReceiverStats`, `PacketBuffer` | numbers, losses and reports of a published stream; its buffer with RTX, NACKs and restarts | `MCPackets` |
| `Dynacast` | which quality a publisher is asked for | `MCMedia` |
| `VideoAllocation`, `StreamAllocator` | the layers of one forwarder as operators; the sharing of the capacity among the tracks of a subscriber | `MCMedia` |
| `Probing` | prober, pacer's observer, the estimator's probe controller and the handlers between them | `MCMedia` |
| `StreamTrackers`, `Receiver` | the layers that flow; buffers, forwarder goroutines and restarts of a receiver | `MCMedia` |
| `Publication` | requests, media, queues, mutes, migration, supervisor | `MCNode` |
| `DownTrackBinding`, `SubscribedTrackSettings` | bind, receiver, codec and close of a down track; settings, mutes, blank frames and the layer notifier | `MCNode` |
| `DataMessages`, `DataTracks` | data messages to one receiver and RPC; data tracks of a publisher and their subscriber | `MCNode`, `DataTracks` itself |
| `Agents` | one dispatch with its jobs, workers and the client | `MCNode` |
| `IngressRecords`, `EgressRecords` | one record of each kind in Redis with concurrent calls | `MCNode` |
| `MCLive` | the parts of `MCSignalling`, a registry, a session and an audio writer with fairness | itself |
| `*Proofs` | theorems | TLAPS |

An `MC` module puts modules that belong together but share no state into one
specification: a variable `part` (or `environment`) says which of them a
behaviour is about, and some modules come with several choices of constants. The
state spaces add up, they do not multiply. Fairness is that of the module, for
behaviours of its part. Some modules enumerate scenarios (`...Limits`, `...Env`):
a scenario says which of the environment's actions may happen in a behaviour and
how often, so that pairs and triples of them are explored without their product.

### How state and actions correspond to the code

Steps end where the code gives up a lock, sends on a channel, starts a goroutine
or calls out. What a step reads under one lock and uses under the next is kept in
a variable in between. `Env` selects what the environment does. Several modules
keep a history variable (`excused`, `astray`, `doubled`, `crossed`, ...) that says
that one of the races of section 6 has happened; the properties are then about
the behaviours without it, and section 6 says what happens with it.

* **Subscriptions.** One subscriber, one kind of media (the limits are per kind).
  `wpc`, `wsub`, ... are the reconcile worker, cut inside `subscribe` at the state
  check, the insertion into the subscriber map, the second look at the state, the
  hooking of callbacks, `setSubscribedTrack`, the counter, and the marking of the
  publisher. `phase` is how far the close of a DownTrack has come in
  `handleSubscribedTrackClose`. A delivery of a change notification is one of the
  things that may happen at any time, as the ticker of the worker looks at
  everything anyway. Subscription and SubscribedTrack objects are used again once
  nothing refers to them. `CanSubscribe` is taken to be true; the synchronous and
  one-shot modes are left out. `receiver.IsClosed` is folded into `SetClosing`.
* **Signal relay.** Messages are numbers. The stream is external: FIFO, a Send
  fails with or without the packet arriving (now or later), or succeeds. An
  acknowledgement of an earlier copy may count for a resend with the same content,
  which allows more than psrpc does. `CloseOnFailure` is TRUE on the side of the
  client, FALSE on the media node, as the two callers have it.
* **Negotiation.** A version stands for what an SDP says; the client is external
  and answers what it gets. A break of the link loses what is on its way. The
  resume posts an ICE restart. Candidates of the answerer are pairs of an ICE
  generation and a number. Migration (`previousAnswer`) and one-shot mode are left
  out. `failed` ends the session, as the caller closes the participant.
* **Room registry.** One room name, distinct identities. The record in the store
  is there or not. Timeouts are the choice between `Expired` and `NotExpired`.
  Egress started with a room and psrpc topics are left out.
* **Participant session.** One identity in an open room. A connection joins, and
  is a session then, or resumes one. OnStateChange goroutines of a session that do
  the same are one. Verify and the removal by the join timer are one step.
* **Broadcasts.** One identity with sessions 1..Last and one observer; a broadcast
  is a goroutine cut at version, read, push, send and write. Room.Join holds the
  lock of the room over its response.
* **Update cache.** Keys in the order of their use; of times only whether an entry
  was updated since the last signal of the client.
* **Raw audio.** A packet is its number, time is a small counter in units of the
  code's constants. Calls to Redis set or delete a note, each in its goroutine.
  RED copies, the clock mapping of `saat.go` and the container are left out.
* **Raw video.** A packet is lost when it is published, or overtaken by at most
  `Reorder` later ones. Sequence numbers wrap at 16. The wanted layer is chosen at
  will, PLIs are left out. The check and the send in `Write` are two steps.
* **Down track packets.** Two packets per frame; timestamps count frames. Where a
  source switch finds its next timestamp from clocks it is left open, but it
  always moves forward, as the code makes sure. Whether the codec munger filters a
  packet and which layer is selected is open. Numbers are taken under the lock of
  the forwarder and recorded under that of the sequencer, in two steps. Blank
  frames at the close and the throttling of NACKs are left out.
* **Buffer and statistics.** Numbers wrap at 16 on the wire and are extended as the
  code does; a packet arrives late, twice or never; RTX packets come on a stream of
  their own. A restart of the sender is a new epoch. Skipped numbers (`skippedSeqs`),
  the key frame seeder, the PLI throttle, codec changes, the growth of the bucket,
  frame rates, out-of-band and lite statistics are left out.
* **Dynacast.** Every lock region of a quality and of the manager is an action of
  the goroutine that runs it (`proc`); the ops queue tells the publisher in order.
  ForceQuality and the managers of audio codecs are left out.
* **Allocation.** The methods of the forwarder are operators on a record of its
  fields, each under its lock. The handling of an event by the allocator is one
  step. Which of several orders a sort leaves open is a choice. The restriction of
  temporal layers for H264 is left out.
* **Probing.** A handler calls several components in turn; a `World` is what they
  may change, and each component an operator on it. Amounts (bytes sent, goals,
  settling) are choices.
* **Trackers and receiver.** A tracker decides under its lock what it reports and
  reports afterwards; the manager takes its trackers out of its lock. A restart of a
  receiver is cut at advancing the generation, waking, waiting, restarting, telling
  the down tracks and the end. Bitrates, codec changes, RTCP and recording are left
  out; `OnNewBufferNeeded`, `GetOrCreateBuffer` and `SetCodecWithState` have no
  caller in this repository.
* **Publication.** Calls within one goroutine are a stack; a client's requests, the
  media, mutes, permission and ends of tracks run beside each other. Codecs are only
  the ids they give a track.
* **Binding and settings.** A goroutine is the sequence of steps it has still to do,
  each under one lock; `bindLock` is a variable since CloseWithFlush keeps it.
  Unsupported codecs (bind errors), encrypted Opus and RED, header extensions,
  retransmission and RTCP are left out.
* **Data.** One receiver of reliable messages; publishers resend what the server may
  have missed. Data tracks have one publisher and one subscriber and are numbered by
  publication. `stopReliableByMigrateOut` has no caller.
* **Agents and records.** Redis is external: commands are atomic, transactions lose
  their watch when another call writes, pipelines may be cut. Job requests and their
  answers may be lost.

## 3. Runs

| Run | Question | Distinct states |
|---|---|---|
| `subscription_limit` | does the limit hold for the tracks attached? | 2.6 million |
| `subscriptions` | is a closed track released, is the subscriber map exact, does a close find its own track? | 2.1 million |
| `subscriptions_live` | does reconciliation converge, does Close close everything? | 341 thousand |
| `signalling` | does the relay implement a channel, do the negotiations keep their copies in step and lose no candidate or restart? | 3.6 million |
| `rooms` | are holds exact, is no one left behind, is a replaced session cleaned up alone, do others learn of a departure, do clients see who is there? | 2.4 million |
| `live` | is every accepted message settled, does StartSession return, do closed rooms and participants go, does negotiation end, are restarts and answers given, do writers end? | 65 thousand |
| `recording` | are files whole or marked, notes true, frames whole and built on what is there? | 1.2 million |
| `packets` | are the numbers of both sides exact, are NACKs answered and asked, are losses and reports true, is the range map exact? | 414 thousand |
| `media` | is what publishers are told what is wanted, do the shares fit, are pauses told, can a probe end, are the layers listed true, is every buffer read? | 2.0 million |
| `node` | do publications, down tracks, data messages and tracks, agents and records agree on every side? | 1.2 million |
| `room_leak` | (violation) is a room everybody left closed? | |
| `data_worker_stuck` | (violation) does the reconcile worker of data tracks go on? | |

The properties of a suite are conjunctions of those of its modules, each guarded
by the part it is about: `AudioIsTrue`, `VideoIsWhole` (MCRecording);
`NumbersAreExact`, `NacksAreAnswered`, `StatsAreTrue`, `Agrees` (MCPackets);
`StateMatchesPC`, `NoCandidateLost` (MCSignalling); `CleansUpItsOwn`,
`DepartureIsAnnounced`, `ViewIsTrue` (MCRooms); `ToldIsWanted`, `PausedIsTold`,
`UsageFits`, `ActiveCanEnd`, `LayersAreTrue`, `BuffersAreRead` (MCMedia);
`PublishingAgrees`, `DownTracksAgree`, `DataArrives`, `DataTracksAgree`,
`AgentsAgree`, `RecordsAgree` (MCNode); `WaitsEnd`, `Converges`, `NothingIsOwed`,
`ClosedRoomLeavesTheMap` (MCLive).

Deadlock is not checked: every part may come to rest (clients owe nothing, bounds
run out), and what must not come to rest is a liveness property.

**Bounds.** Two of a kind are enough for the races here, which are between one
actor that has looked and another that changes what it saw: two sessions, two
rooms, two publications of a track ID, two SubscribedTracks, two connections of
an identity, two tasks that broadcast, two goroutines of the prober.

* `subscription_limit`: two tracks, a limit of one, a reconcile channel without room.
* Relay: four messages (two in `live`) and channels of one or two, so that they
  overflow. Negotiation: two breaks of the link, two versions, one forced restart,
  five offers, two candidates, queues of three (`live`: one break, three offers,
  queues of two).
* Rooms: no symmetry is used; sessions of the participant may be timed out by the
  join timer, replaced, resumed or removed. Update cache: three others.
* Recorder: a window of one unit, a channel of two packets, so that both overflow;
  three packets, five units of time (`live`: two and two). Sequence numbers begin
  shortly before they wrap at 16.
* Down track: sequencers of three slots, which are reused, maps of one or two
  ranges, which are pruned, and one sequencer of six for `RecentCanBeSentAgain`,
  larger than the delay of padding. Range map: keys 0..7, two closed ranges, five calls.
* Buffer: at most six packets, overtaken by at most three, each at most twice,
  numbers modulo 16 that begin just before the wrap, a history of 3, a restart
  threshold of 3, a bucket of 3 or 4, two ranges of NACKs, one try.
* Media: Dynacast with two subscribers and a restart, or one with a node that is
  cleared, or two codecs of which one is regressed (`DynacastCases`); two tracks
  of two layers that cost 1 and 3, two events waiting, five calls; three clusters,
  three events waiting, one allocation, two estimates, one reset; one layer with two
  trackers; two layers and three streams of a receiver.
* Node: a publication with two requests and its media; at most two binds and two
  codecs; at most two updates of the settings and one blank frame; one publisher
  with at most four messages and a deduper of three; two data tracks, handles modulo
  3, a reconcile channel of two, three calls; two workers, two jobs, one dispatch;
  three calls at once on an ingress with two rooms, two tries for the five of
  `maxRetries`; two calls at once on an egress.

**Fairness.** Goroutines that can run do run (weak fairness, one condition per
goroutine). Where Go's `select` chooses at random among ready cases a case that
is ready again and again is taken (strong fairness: the tickers of the reconcile
worker and of the recorder). A retried Send ends at the deadline. The idle check
of a room that stays idle succeeds in the end. Nothing is assumed of clients,
publishers, binds, or of anyone calling Close; in the negotiation the client
answers offers it received.

## 4. Proofs

TLAPS proves the following for all values of the constants: sets of tracks,
publications, sessions, connections, rooms, layers, codecs, down tracks and callers,
limits, scenarios, queue sizes, keys and numbers of messages, offers, restarts, tries,
clusters and events. A
theorem names the very definition that a run checks.

* `SubscriptionManagerProofs`: `TypeOK`, `MapHoldsLiveTracks`,
  `ClosedTrackIsReleased`, `LimitRespected` and `CloseFindsOwnTrack`. The first three
  need each other and two more facts (what the worker and the callers hold is a
  track; a callback is known once its track closes): `StructInv` is their conjunction
  and is inductive. The limit needs that the counter is exact: `count` is the number
  of attached subscriptions, plus the closing tracks that have detached and not yet
  uncounted, minus one while the worker is between attaching and counting; and that
  the worker checked the counter before it went on to attach. `CloseFindsOwnTrack`
  needs `OwnInv`: a SubscribedTrack that has not run its close handler
  belongs to the subscription that holds it, or to the one the worker is about to
  give it to.
* `SignallingProofs`, the relay: `Numbering` (which messages queue, packets and reader hold,
  by number) is inductive, and under it every step of the relay is a step of
  `SignalChannel` or a stutter: `ImplementsChannel`, safety part.
* `SignallingProofs`, the negotiations: `StateMatchesPC` of the offerer and `NoCandidateLost` of the
  answerer, each for its module alone and for the suite. The offerer's invariant adds
  that a negotiation under way has a local description, which `doICERestart` sends
  again; the answerer's that the offers are counted, that candidates are cached only
  while a description is owed, and what an offer that waits for the end of gathering
  leaves to be done.
* `RoomProofs`: `TypeOK`, `HoldsExact`, `NoOneIsLeftBehind` of the registry: who is
  a member of a room got it from getOrCreateRoom (`Membership`); with it, both are
  inductive. `DepartureIsAnnounced` of the sessions: `SessionInv` says how far each
  close, removal and notification has come and which news is on its way, and orders
  the sessions by when they joined, so that of the sessions others were told of the
  newest is the one whose departure they learn. `CleansUpItsOwn` is an action
  property; it needs that a session that is being cleaned up after is closed.
* `RangeMapProofs`: `MapSorted` and `Agrees` of the range map. The reference map has an
  entry for every key. The invariant says that the open range and every closed range
  hold the reference's values, that what lies between them is excluded, and that a
  closed range is followed by at least as many changes as there are ranges after it:
  that is why a range that was pruned has been followed by more than the number kept,
  which is when the code may answer "too old".
* `MediaProofs`: `BuffersAreRead` of the receiver and `ActiveCanEnd` of probing. For
  the receiver, where a restart is tells which forwarders there are: those of the
  current generation, those it waits for, or none (`Generations`); a layer between
  AddBuffer and StartBuffer has none (`Readers`); and down tracks hold only the
  current stream (`Streams`). For probing (`ProbeInv`), allocator, pacer and
  estimator have the same probe (`OneProbe`), the prober has one cluster at most
  (`OneCluster`), and a cluster is announced once, when no probe is active
  (`OneStart`); a lemma per component says that it keeps them, and each handler
  follows from those of the components it calls. It is about runs in which no cluster
  is added before another one has started (section 6 has the other ones).
* `MediaProofs`, the layers of a video track: `LayersAreTrue` of the stream trackers and
  `ToldIsWanted` of Dynacast. For the trackers (`TrackInv`), a status that changed is owed exactly one
  report (`ChangeIsOwed`); a layer with no report on its way is listed as its tracker
  last said (`ReportsAreTrue`); a mute is known to every tracker or about to be passed
  on (`MuteIsKnown`); and a tracker that has begun has a worker of its generation
  (`BegunIsWatched`). For Dynacast (`AskedInv`) three links lead from wishes to the
  receivers: the maps hold what clients want, or codec regression is carrying it
  there (`MapsAreWishes`); the maximum of a codec is that of its map or is about to be
  computed, and the manager has it or is about to be told (`MaximaAreRight`); and what
  was told last is what the manager has or it is about to look again
  (`ToldIsCurrent`). The last needs that `update`, which compares the number of codecs
  and then only the codecs it committed, sees every change: a codec never leaves the
  manager's map, so equal numbers mean equal codecs. Both are about behaviours in
  which no report or mute was overtaken (section 6: `crossed`, `raced`, `astray`).
* `RecordingProofs`: `AudioIsTrue` of the audio recorder. Its invariant (`AudioInv`)
  says that packets are in order of arrival, first in the window and then in the
  channel (`InOrder`); that a packet that got into the channel is there, in the window
  or in the file, unless it came before the start or no later than the newest packet
  that fell out of the window (`NoneIsLost`); that this newest one is nowhere
  (`TraceIsTrue`), which is why a mark is never wrong; who may still send (`Senders`);
  and what the last call to Redis will leave (`NotesAreTrue`). It needs no assumption
  on the widths and sizes. The note is only claimed where calls arrive and in order
  (section 6 has the other case); the rest holds whatever Redis does.
* `NodeProofs`: `RecordsAgree` of the records of an ingress and of an egress, for any
  rooms, callers, tries and scenarios. Ingress (`IgInv`): before the create has stored
  the info nobody finds it (`IgFirst`); a transaction that may still write has read
  what is stored, since any write in between breaks its watch (`IgWatches`), which is
  why the list of a room is right (`IgListing`); every state that a call or the store
  holds is one the latest or an earlier session was in, and an error is the last of
  its session, so what an update resets is over (`IgHistory`); the last report of the
  latest session is under way or stored (`IgLast`), for reports that do not overtake
  each other come one by one (`IgOrder`); and what was told is stored, or will be told
  by the call that stored it (`IgTells`). Egress (`EgInv`): what each call has left to
  do and what it has read (`EgCalls`); what the egress has reached was sent before
  (`EgReached`), in order (`EgOrder`); the newest report is stored or under way
  (`EgNewest`), what was told has been stored (`EgTold`), the set of the room has it
  from its create to its sweep (`EgListing`), and what is swept is over (`EgSwept`).
  The races of section 6 are excused as they are in the property.
* `AgentProofs`: `AgentsAgree` of agent jobs, for any workers, jobs and scenarios. The
  invariant (`AgInv`) says what the handler's two tables have to do with each other:
  who is recorded with a job was asked for it, and a job that runs on a registered
  worker is recorded with it, except between the two critical sections that record it
  (`AgRecorded`); that the room knows of every assigned job once its launch is over,
  or its answer was lost (`AgHeard`); that the job of an agent that left is over or
  about to be terminated (`AgOut`), while the job of one that is there runs until the
  deletion has been at it (`AgRuns`); that a job said to have ended does not run,
  unless it was said before the job was recorded (`AgEnded`); and that the deletion,
  having waited for the launches pending at its start, misses none but those that are
  begun afterwards (`AgDeletes`), since a launch for a participant begins only while
  the dispatch is there (`AgLaunches`). A worker that registers has been asked for no
  job (`AgAskedStay`). The cache of the client is an invariant of its own (`AgCache`).

Assumptions: those named in the modules: finite sets, `None` distinct from the
objects, a limit in Nat (`SubscriptionManager`, `MediaTrack`, `RoomRegistry`,
`SignalRelay`), `NegotiationBounds`
(the bounds of the negotiation are natural numbers), `MapBounds` (at least three
keys, a number of ranges), `ConnsAssumption` (finitely many connections, `None` is
not one), `TrackerBounds` (numbers of layers and of trackers), `DynacastNames`
(finitely many codecs, a regression leads to another codec, and goroutines are told
apart by their names), `RecordNames` (the words for "no room" and "no info" are no
names of rooms; an egress is created by the launcher or by the server), `AgentNames`
(the word for "no worker" is no worker's name; job 1, that of the room, is one). TLC evaluates
each of them in a run.

Every inductive invariant was checked by TLC before it was proved.

Model-checked only: every liveness property (under fairness, out of the prover's
reach); `ViewIsTrue`, whose cache is a sequence in order of use folded over, and
`PausedIsTold` and `UsageFits`, whose shares are sums over orders of tracks (both
need induction over data); `NumbersAreExact`, `NacksAreAnswered`, `StatsAreTrue`,
`VideoIsWhole` and the properties of `MCNode` other than `RecordsAgree` and
`AgentsAgree`, which have no proof yet. Of these the numbers of a down track are within reach; the scenarios of the
other parts of `MCNode` would become constants, as those of records and agents are.

## 5. Two disagreements as runs

* `room_leak`: the close callback of a room deletes the map entry of its name. A
  call that finds the closed room still in the map puts a new room in its place;
  the callback then takes that one out. It is in no map: the next call opens
  another room of the same name, and nothing closes the lost one.
* `data_worker_stuck`: reconcileDataTrackSubscription calls
  notifyDataTrackSubscriberHandles with `m.lock` held, which that function locks
  again; the worker waits for itself. It gets there when a client unsubscribes
  before its subscription has a down track.

## 6. Other disagreements met while modelling

They are not runs of the project. Where a property is named, it is a definition of
the named module, and TLC finds it violated by what the code does with the constants
given. Where a history variable is named, the run's properties are about the
behaviours in which it did not happen.

### Rooms, sessions, signalling, subscriptions

| Property or variable | Module, constants | What happens |
|---|---|---|
| `OneSenderPerTrack` | SubscriptionManager, two publications of a track, Env unpublish | `handleSubscribedTrackClose` resets the subscription before it removes the sender, and the worker subscribes again in between |
| `SubscribeIsRecorded` | SubscriptionManager | the worker deletes the still undesired subscription between the two critical sections of SubscribeToTrack |
| `AttachedIsInMap` | SubscriptionManager, two callers | of two concurrent calls one overwrites the subscription of the other |
| `SubscribedToIsExact` | SubscriptionManager | a close comes before `markSubscribedTo` |
| `CachedIsUsable` | SubscriptionManager, Env unpublish, migrate | a transceiver that was stopped stays in the cache |
| `ClosedIsDetached` | SubscriptionManager | a DownTrack closes before `setSubscribedTrack` and stays attached |
| `AnswersPaired` | PCOfferer | the offer is sent twice; the second answer is applied to the restart offer that follows |
| `SilenceIsNoticed` | PCOfferer | the function of an old timer clears the timer of a newer negotiation |
| `CredentialIsCurrent` | PCAnswerer | a restart accepted at the end of gathering leaves the old credential recorded |
| `AnswerIdIsOfOffer` | PCAnswerer | the answer to a deferred restart carries the number of a newer offer |
| `AcceptedIsSettled` | SignalRelay, CloseOnFailure FALSE | on the media node messages are given up without a word |
| `IdleCloseIsIdle` | RoomRegistry | a session takes its hold between the idle check and the close |
| `NothingIsLeft` | RoomRegistry, one admin | the room is stored again after it was deleted |
| `DepartureIsAnnounced` | ParticipantSession, Env with close | RemoveParticipant during another Close broadcasts "present" and, its listener cleared, nobody tells "gone"; so it is checked and proved for sessions that leave, not for those the server closes |
| `EveryFarewellRuns` | ParticipantSession, Env close | Close reads the callbacks between the two halves of AddOnClose |
| `ResumeKeepsToItsSession` | ParticipantSession, Env resume | the request source that is swapped is that of the new session |
| `HidesTheReplaced` | ParticipantBroadcast, two publishers | no one is told of a replaced publisher |
| `HidesWhoLeft` | ParticipantBroadcast, ByIdentity TRUE | the departure was suppressed for a session that never joined |
| `NoGhosts` | ParticipantUpdateCache, Env verify | an old entry was used last, and hides newer departures |

### Recording and packets

| Property or variable | Module, constants | What happens |
|---|---|---|
| `NoteIsTrue` | RawAudioWriter, Env reorder | the deletion of the note overtakes its writing |
| `NothingBeforeTheStart` | RawAudioWriter | packets in the channel are not compared with the start |
| `NoSilentLoss` | RawAudioWriter | the track ends after its target was found and before another packet |
| `NeverPanics` | RawVideoWriter, two layers | one forwarder closes the channel another one sends on |
| `Decodable` | RawVideoWriter | a frame of which no packet came leaves no trace in the assembler; the next delta frame begins cleanly and is written |
| `EveryRecentCanBeSentAgain` | DownTrackPackets, two layers | the second number is recorded first, and the first is "old" |
| `RecentCanBeSentAgain` | DownTrackPackets, Size 3 | padding recorded late clears the slot of the newest packet |
| `PaddingAtBoundary` | DownTrackPackets, Env early | padding of a muted track meets the first packets of a key frame |
| | ReceiverStats | getTSRolloverCount is one cycle short after a silence of a whole range of timestamps; a report whose RTP time goes back across the wrap in the first cycle is extended nearly a cycle ahead; the first Sender Report gets cycle 0 whatever cycle the media is in |
| | ReceiverStats | as many contiguous packets from before the first one as the threshold look like a restart |
| | ReceiverStats | a snapshot taken by NewSnapshotId after the start counts from the highest number with counters of zero; a delta without expected packets drops the other counters; RTPStatsReceiverLite.ToProto passes start and highest numbers as packet counts |
| | PacketBuffer | RTX packets that come before the base is bound are dropped; SendPLI(force) without rtpStats panics |

### Media

| Property or variable | Module, constants | What happens |
|---|---|---|
| `UnmuteTells` | Dynacast | SetMuted(false) of a MediaTrack forces the update before it clears the mute, so the update is suppressed |
| `astray` | Dynacast | a report that is overtaken by a newer one leaves the receivers with the older wish |
| | Dynacast | HandleCodecRegression regresses to nil when Close comes between its lookups |
| `outrun` | StreamAllocator | the Resume event of a track is handled after its next pause |
| `MutedIsIdle` | StreamAllocator, Env pubMute, probe | a probe allocates to a track its publisher muted |
| `ProbingStaysPossible` | Probing | setState(STABLE) resets the estimator; a Complete event that comes later finds the invalid cluster id 0 on both sides and enters a hangover that nothing ends |
| `doubled` | Probing | two pings add two clusters before the first one is started |
| | Probing | congestion of a probe that is handled after the probe was finalized commits the default capacity of 100 Mbps |
| | StreamTrackers | a worker past its check of the generation makes a paused tracker active for good |
| `raced` | StreamTrackers | AddTracker uses a mute it read before the mute changed |
| `crossed` | StreamTrackers | reports overtake each other, and one of a removed tracker adds its layer again |
| | StreamTrackers | SetMaxExpectedSpatialLayer says the reset "will be a no-op in available layers handling"; Reset reports Stopped and removes the layer. bitrateReport says it runs "even if paused"; pausing ends its worker |
| | Receiver | a restart that a buffer detected waits for ever for an idle layer, and restartInProgress stays set |
| `early` | Receiver | AddUpTrack during a restart gives a buffer two forwarders |
| `NothingForeign` | Receiver, Env detect | a detected restart forwards packets of the new stream before the down tracks are told |
| | Receiver | AddDownTrack during Close leaves a down track that is not closed, and may miss OnMaxPublishedLayerChanged |

### Node

| Variable | Module | What happens |
|---|---|---|
| | Publication | a request queued under a later codec's client id or an SDP id of a published track is never taken out of the queue; RemovePublishedTrack's trailing delete can drop a new track with the same sid; setTrackMuted between its two lookups loses a mute when a sid was requested twice; handleMigrateTracks ignores what is queued, and `migrated` stays on what it leaves, so that the fuse waits for the 15 s; a publication that comes between the supervisor's check and its callback still causes a full reconnect; requests that are only queued time out |
| `hasty`, `late` | Publication | OnClose of an old track unqueues a request that waits for a newer track with its id; the goroutine of handleTrackPublished leaves a closed track in the room |
| `late`, `draining`, `overtaken` | DownTrackBinding | the last part of SetReceiver attaches a closed track; DeleteDownTrack between Upgrade's swap and its lock leaves the entry; DetermineCodec of an older bind or restart overtakes a change of codec; a doBind taken before Unbind binds afterwards |
| `negotiated`, `stale`, `unlisted`, `shared`, `ignored` | SubscribedTrackSettings | OnCodecNegotiated asks for HIGH although LOW is wanted; a mute of the publisher read before it changed, or made before the track is listed, is lost; Mute and PubMute at once write blank frames of one generation; an unmute cuts the flush; a mute while paused is ignored. "Publisher mute changes should not trigger notification": handleMute posts one for both |
| | DataMessages | RPC entries are registered after the request is sent, and a quick answer is missed; with both timers past, an error response blocks on a full channel with rpcLock held; rpcPendingAcks keeps an entry whose response came without an ack; a message with only DestinationSids is replayed to a participant it does not name; duplicates by nonce are cached before they are found, and both replayed; the migration cache times out only when another message comes; the deduper takes the nil uuid for seen |
| `excused` | DataTracks | a subscribe between unsubscribe and delete is lost; two of them before the worker ran leave no observer, a late RemoveObserver removes a new one; RemoveParticipant takes a track from the room before it closes it, a participant that closes itself leaves its tracks there; two concurrent subscribes make two entries; notFoundTimeout queues on the channel of media tracks; options sent after the unsubscribe make an entry anew; revoked permission ends no data subscription; handles are reused after 65535 without a look at those in use |
| `afterwards`, `unheard`, `early`, `hasty` | Agents | DeleteAgentDispatch between creation and launch leaves a job running (`room.go` 173-175 says it is avoided); a lost answer leaves an orphan; an agent that leaves before handleNewJobs is never terminated; a job that ended before runningJobs was set stays. JobTerminate does not deregister; the store's dispatch and job records are never deleted; DrainConnections holds its lock for the whole drain; the selection by load may fall back on a worker that was tried |
| `gaveUp`, `moved`, `revived`, `overtaken`, `gone` | IngressRecords | a store that lost all its tries returns nil; DeleteIngress uses a stale room; an update after the delete brings the record back; an older report is dropped and yet told to telemetry; a report leaves the state of a deleted ingress. Without the state key the calls dereference nil; the watch is on all ingresses |
| `first`, `overtaken`, `cut`, `late` | EgressRecords | UpdateEgress before CreateEgress: the room's set never has it; CreateEgress overwrites a newer status and tells the start twice; a pipeline that is cut is never swept; a write after the sweep brings the record back. A room name with "\|" stops CleanEndedEgress every time |

## 7. Plan

1. Proofs: numbers of a down track (`NumbersAreUnique`, `NoHoleOfOurOwn`),
   binding and settings of a down track, data tracks, agents.
2. Transport manager: ICE configuration and fallback; migration.
3. VP8 munger, pacer, bandwidth estimation with transport-wide feedback.
4. Router and node registry; room locks; telemetry statistics workers.
5. Recorder: the clock of `saat.go`, the choice of the wanted layer and PLIs.

## 8. Not modelled, and why

Set-up, configuration, authentication, HTTP handling, conversion to protocol
messages, telemetry export and Prometheus counters have no protocol of their own.
Scores of connection quality, bandwidth estimates and loudness are floating point
arithmetic. Parsing of payloads and RTP extensions and the containers of the
recorder are sequential code on bytes, well within the reach of tests. Fakes and
generated code are left aside. pion, psrpc and Redis are external: they appear as
far as the code relies on them.
