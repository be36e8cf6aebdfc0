# 2P2S: specifications, model checking and proofs

2P2S shares a screen between two peers. A *sharer* encodes its screen and sends
it in UDP packets over a ZeroTier (libzt) network; a *viewer* collects the
packets, repairs losses, and decodes. This directory models the program's
control logic in TLA+, checks small instances with TLC, and proves properties of
six of the modules for every value of their constants with TLAPS.

The repository holds no README and no tests. What it says of itself is in
`src/parameters.me` (the meaning of every metric) and in comments; findings
quote those.

## 1. Inventory of the system

| Part (source) | State it keeps | Operations | Hard behaviour | What makes it correct |
|---|---|---|---|---|
| Viewer sequence layer (`App/src/module/media.js`) | expected number, map of kept packets, loss counter | a packet arrives; the health check promotes; reset | reordering, repeats, wrap at 2^32, full map | every number is released or counted lost, once; bounded map |
| Viewer frame layer (`media.js`, `state.js`) | frame buffer, expiry marks, completed frames, decode position, recovery flags, decoder | a packet is ingested; health check (deadline, cutoff, NACK); flush; decoder output and error; stop | the flush awaits while everything else moves its state | frames reach the decoder in order between recoveries, a fresh decoder gets a key first; what it could decode is kept; given-up frames stay out; the buffer drains |
| NACK/PLI scheduling, retransmission cache (`media.js`) | attempts per packet, budgets, pending NACKs; cached packets | queue and flush NACKs; answer them | budgets, rounds, check and act across an await | limits are kept, requests stop after the cutoff |
| FEC (`media.js`) | parity rows | build parities, recover | elimination over GF(2) | recovers exactly what the rows determine |
| Congestion control, VBV, bad-link mode (`media.js`) | probe time, rates, token bucket, mode | probe, feedback, encode, signals | late answers, 32-bit clocks, refunds | rates stay in range, tokens are neither lost nor made |
| Session life cycle, offline watch (`App/src/main.js`) | epochs, timers, flags for every channel | connect, disconnect, reconnect, offline, online | asynchronous operations that overtake each other | a disconnect ends the session; one owner for each transport; a lost link is sought again |
| Signal messages (`App/src/module/signal.js`) | peer, session and bad-link flags | join, leave, share-ended, poll | messages of an old connection | a session ends once, and with its connection |
| Backend media runtime (`App/src-tauri/src/main.rs`, `module/media.rs`) | socket, peer, inbox, send queue, worker and receive threads | listen, connect, send batch, poll, close | threads and the main thread share flags, queue and descriptor | order and eviction by priority, no lost wakeup, threads end |
| Backend signal runtime (`module/signal.rs`) | listener and connection descriptors, inbox, threads | listen, connect, send, poll, close | two parties close a descriptor | a descriptor is closed once |
| Libzt runtime (`module/runtime.rs`) | the loaded library and network | start, stop | stop while a start is pending; a start that fails half-way | the slot is empty after a disconnect |
| Signalling server (`Gin/main.go`) | hub map, send buffers, Redis records | join, leave, broadcast, pumps | goroutines of two connections with one id | a live member can be found and reached |

How they interact: `main.js` starts two timers. The signal pump polls
`zt_signal_poll` and hands messages to `signal.js`, which starts and stops the
pipelines. The media pump runs `poll_media_packets`: all packets of a batch go
through `handle_incoming_media_packet` (sequence layer, then frame layer), then
`check_rx_health` runs, all in one synchronous block; promise continuations (the
decode flush, the remaining packets of a released run) run after that block.
Frontend code that sends calls `zt_media_send_batch`; the backend queues the batch for
its worker thread. Tauri runs these synchronous commands one at a time on the
main thread, so they interleave with backend threads and not with each other, and
they take effect in the order in which the frontend invoked them.

On the way down, a connect (`connect_channels`) closes what is left of the last
session, starts libzt, waits for an address, opens the signal and the media
channel and starts the two pumps; every one of these steps awaits a command,
and clicks, timers and events run in between. Above the signal connection the two
ends exchange `join`, `share-ended` and the bad-link messages; above the media
channel the sharer probes the round-trip time and the viewer asks for what is
missing.

Behaviours that a test would hardly reach are listed, line by line, under
`hazards` in `PROJECT.json` with the properties that watch over them.

## 2. What is modelled

| Module | Models | Composed with |
|---|---|---|
| `RxFrames` | the viewer's frame layer, from a packet the sequence layer hands over to the decoder's output | sharer and network are its environment |
| `SeqReorder` | the viewer's sequence layer | implements `ReorderWindow` |
| `ReorderWindow` | abstract: a window over plain packet numbers | - |
| `MediaSendQueue` | the backend's send queue, its worker thread and the close of the media runtime | - |
| `BackendRuntimes` | who closes the sockets of both runtimes: main thread, listener thread, receive threads | - |
| `Session` | connect with retries and epochs, reconnect timer, start, disconnect, offline watch, signal pump; a backend of one signal and one media runtime | libzt, peer and user are its environment |
| `SignalLink` | both ends of the signal connection: messages, pump, bad-link mode and its heartbeat, the start of the probes | takes from `Session` that a connect publishes once and a disconnect closes |
| `MediaControl` | probe and feedback, NACK scheduling, the sharer's answers to NACKs, 32-bit clocks | network and both users are its environment |
| `*_proofs` | theorems and proofs | extend their modules |
| `MC*` | instances for TLC | extend their modules |

### RxFrames

A state variable keeps the name of the field it stands for without `rx_`
(`frame_buffer`, `completed_frames`, `expired_frames`, `need_keyframe`,
`awaiting_output`...). `next_decode` and `flush` are `rx_next_decode_frame_id`
and `rx_decode_flush_busy` with the frame being awaited. `net` and `retrans`
are the network and the sharer's answers to NACKs. `phase` says where the
single JavaScript thread is; that is what makes the interleavings the real ones:
in `poll`, `promote` and `loop` nothing of a promise continuation runs, in
`micro` only those run, and in `idle` timers and decoder callbacks do.

One action per handler: `Ingest` (`ingest_ordered_data_packet`,
`try_assemble_frame`, the synchronous part of the flush), `HealthBegin`,
`DropOverdue`, `RepairCutoff`, `Nack`, `HealthEnd` (the parts of
`check_rx_health` in the order of the code), `ResumeDecode` and `ResumeThrows`
(`flush_completed_frames` after its `await`), `DecoderOutput`, `DecoderError`,
`StartViewer` (the start click of a viewer whose stream runs: a keyframe is needed again,
the position and the complete frames stay) and `StopViewer` (`stop_viewer_pipeline` and
`close_decoder`). `FlushRuns` is the
loop of `flush_completed_frames` up to its next await or return.

Abstractions: payloads are gone; a frame is repaired when the parities held
determine the missing packets (`Solvable`, the rank condition the elimination
decides). Clock tests are choices, so every timing is included; the guards on
state that stand beside them are kept. One codec. The NACK budgets are
replaced by "any set of missing packets" with a cap on retransmissions, and
packet counts are at most 16.

### SeqReorder

`expected_seq` and `pending` are `rx_expected_seq` and `rx_reorder_pending`; a
packet is the number the sharer gave it, and `SeqOf` its wrapping number on the
wire. `FirstPacket`, `NextPacket`, `SmallGap`, `LargeGap` and `LatePacket` are
the branches of `pop_ready_packets_by_seq`; `HealthPromotes` is the promotion in
`check_rx_health`; `Reset` is `close_decoder` and `ViewerStarts` the start click, which
forgets position and kept packets while the stream goes on: a packet kept at that
moment is dropped without being counted. `lost` is what
`rx_delta_lost_packets` grew by since the position was last forgotten (`send_feedback` zeroes
the field itself). The adaptive gap threshold and hold time are a constant and a choice. `position`, `ordered`, `released` and
`received` are history for the properties.

### MediaSendQueue

`Enqueue` is `zt_media_send_batch` with `enqueue_media_send_batch`. The worker's
loop is cut where another thread can get in between: after its test of queue and
flag (`deciding`, mutex held), in the wait, before every packet. The close is cut into
the store, the notification, the close of the descriptor and the join. Pacing is
left out; a packet send may fail at any time (`WorkerEndsBatch`). `Reopen` is the
next `start_media_runtime`, which makes a fresh queue, flag and worker; it waits
for the join, which over-orders an asynchronous join but shares no state with it.

### BackendRuntimes

A runtime keeps each descriptor in an atomic that holds it or -1. Main thread,
listener thread and receive threads take it from there, one atomic access at a time,
and that is where the model cuts them. `Takes` is the start of
`zt_signal_close_internal` and `zt_media_close_internal` (the slot is emptied, the flag set);
`CloseSwaps` to `ClosesListen` are its swaps and closes, `Joins` is `join_runtime_threads`,
for which only `zt_stop` waits. `OpensListener`, `OpensConnection` and `OpensMedia` are the
ends of the three commands that open; their connect and bind calls may fail
(`OpenFails`). The listener's steps are the loop of `zt_signal_listen`, the
receiver's those of `spawn_recv_thread` and, for media, of the thread in
`start_media_runtime`, which differ in how they get and give back their descriptor.
`socket` is history: the life of the socket behind each atomic, `again` after a
second close. libzt may reuse a closed number; the model marks the second close and
does not follow it into the socket it hits. `over` marks a connection that was
accepted while the one before was open. Accept and recv return anything at any time.

### Session

The variable `state` has the fields of the `state` object of `module/state.js` by
their names (`connecting`, `manual_disconnect`, `auto_reconnect`, `resetting`,
`epoch`, ... shortened where the field repeats the module's name), `backend`
what libzt and the two runtimes hold. JavaScript handlers are coroutines: an
action is the code between two awaits. `cmds` is the queue of commands that were
invoked and not yet answered, each with the coroutine (`conn`, `disc`, `inval`,
`poll`, `send`, `start`) that awaits it, and `conn.goal`, `disc`, `poll.pc` and `start` say
where that coroutine goes on. The commands are synchronous Tauri commands, so the main
thread runs them in order; an action takes a command's effect together with its
continuation.

`ConnectClicked` and `ReconnectTimerFires` begin `connect_channels`; `ResetDone`
(`sure_libzt_started`), `ZtStarted`, `IpRead`, `WaitTick`, `WaitTimeout`
(`wait_for_libzt_ready`), `SignalListens`, `MediaListens` (share branch of
`create_channels_by_role`), `SignalDialed`, `MediaDialed`, `RetryClosed`,
`RetryWakes` (`connect_viewer_with_retry`) and `FailClosed` (the catch block) are
its parts, `Finished` its `finally`. Every connect, reconnect and start reads the role from
the form (`main.js:911`, `997`), so `Begin` and `StartClicked` choose it; network and peer
address are read once in a connect, so an empty field is a choice there (`ResetDone`,
`CreateChannels`), and `Readiness` lets `has_libzt_net_ready` depend on the node and on the
network's events. `StartClicked` goes to its first await, `StartProbed` (the viewer's
probe, which may throw) or `SharePipelineStarted`; a second click sends another join.
`DisconnectClicked`, `PipelineStopped`,
`DiscClosed`, `ZtStopped` are `disconnect_all`; `EventsPolled`,
`OfflineTimerFires`, `SoftOffline`, `InvalClosed` the offline watch; `PollTick`,
`PollAnswered`, `HandleLine`, `PeerSet`, `FeedbackSent`, `SendAnswered` the signal pump
and its system events. A batch of lines is handled without letting another task in,
except where a line's handler awaits: the peer's address, and for a viewer that has started
the probe of its `connected`; when that probe throws, the rest of the batch is lost.

`zt_start` may fail after it has started the node (`runtime.rs:39`, then `46-47` or `64`).
The slot stays empty and `zt_started` false, so `backend.stray` keeps the node: its events
reach the page, and no `stop_libzt` stops it (`main.js:768` returns at once).

Left out: addresses, ports, delays, messages to the user, and the peer's `share-ended`,
which `SignalLink` has. Whether a transport was
active lately is a choice. A poll that would find nothing is left out.

### SignalLink

`end[p]` has the fields of an end, `inbox[p]` what it has not handled. A message goes
straight into the other end's inbox; a break (`LinkBreaks`, `Disconnects`) takes
a part of what was unread and leaves a `disconnected`. `Enters`, `Leaves`,
`HeartbeatTick`, `HoldLapses` are `set_bad_link_mode`, its heartbeat and its hold
time; `SendsBadLink` suppresses repeats unless forced; `OnJoin`, `OnShareEnded`,
`OnBadLink`, `OnConnected`, `OnDisconnected` are the handlers of `signal.js`.
What the reception statistics say is a choice. `ViewerStarts` and `ViewerProbed` are the
start click before and after the await of its first probe: both channels have to be
open, and the join goes out only if the probe did not throw. `Connects`, `ViewerReconnects` and
`LinkOpens` stand for the connect that `Session` takes apart; the roles are fixed here
and change in `Session`.

### MediaControl

A message carries true times; a handler reads them through `Unsigned` (`>>> 0`)
or `Signed` (`& 0xffffffff`, `| 0`), so the model sees what a cut clock does.
`SendFeedbackReq`, `HandleFeedbackReq`, `HandleFeedback` are probe, answer and
its use; `HealthCheck` and `FlushPendingNacks` the viewer's NACKs; `HandleNack` and
`RetransmitEnds` the two halves of `try_retransmit_packet` around its await. A
message is in the set `net` until it is `MaxDelay` old and may be handled any
number of times in between. Both machines have one clock, since the code
compares their clocks. Left out: what the loss and jitter figures do to the
encoder and to the FEC rate, PLI packets, and the cache's size.

## 3. What is checked

| Run | Instance | Shows |
|---|---|---|
| `rx_frames` | 4 frames, keyframes 1 and 4; frame 1 has two packets and a parity; one retransmission per packet; drop threshold 2 | types; an expired frame has no entry while its mark stands; from one recovery to the next frames reach the decoder in order; a fresh decoder gets a key first; a complete frame with an intact chain from the position or from a complete keyframe is not thrown away outside a recovery |
| `rx_frames_live` | 2 frames, frame 1 of three packets, fair | every entry leaves the frame buffer |
| `rx_frames_ghost` | 2 frames | **violated**: a frame that was assembled is given up at a deadline |
| `seq_reorder` | 7 packets, two copies each, numbers wrap at 32 after the third packet; threshold 2; at most 2 kept | the map is bounded, losses are counted exactly, nothing vanishes, and the layer implements `ReorderWindow` |
| `send_queue` | queue of 2, 4 batches of every priority, fair | urgent batches in front, bulk batches in order, eviction of the lowest, no sleep on work, drained at exit, a stop that is heard ends the worker |
| `send_queue_stop` | the same | **violated**: a close need not end the worker |
| `backend_runtimes` | 2 runtimes of any kind, any number of connections and commands, fair | types; listening and media sockets are closed once; nothing is left open; a listener never holds two connections; `zt_stop` gets its listener and receive threads joined |
| `session` | both roles, chosen anew by every click, 2 clicks on connect and disconnect and any number on start, one fault (peer, listener or node), 1 reconnect of 2 tries, 2 unread events, fair | types and limits; connect is single-flight; an armed timer is current; invalidated transports are closed; an open session is served; a disconnect ends the session; a shown link is real; every connect ends; an endpoint without link and listener gets one, gives up or is disconnected |
| `session_outage` | viewer, one click, two faults, 2 reconnects of one try, fair | **violated**: transports given up in an outage are not restored after it |
| `signal_link` | 2 breaks, sends wait at 2 unread items, fair | types; bad-link mode has its heartbeat; a viewer that watches probes; the sharer learns of the mode and forgets it |
| `media_control` | a clock of 16 values that starts before its sign bit and before its wrap, 4 ticks, one packet, 2 probes | types and limits; no NACK without a timer; the round-trip time is true; no retransmission that is too late |
| `media_control_echo` | the same clock | **violated**: an answer in time is used |

Why the bounds are enough: in `rx_frames` two deltas between two keyframes
give every kind of jump (to a key ahead, over a missing delta with a complete one behind it,
which the jump deletes, over a recovery) and one frame that can be repaired by parity or by
retransmission; a third keyframe adds no new order relation between the suspended frame, the
position and the frames complete. The start click comes at any time while the thread is idle. In `seq_reorder` seven numbers around the wrap give
gaps below, at and above the threshold, two separate runs of kept packets, and a map that
overflows. In `send_queue` two places and four batches give every insertion and eviction.
In `backend_runtimes` one runtime is closed while another is opened or still
runs; a runtime shares nothing with the others but the main thread.
In `session` two epochs give a connect superseded by a disconnect and a session opened
by a newer connect or after a disconnect, each with reconnects and changes of role in
between; two tries give the last one and one before it; an attempt is spent and reset again
by every link that comes up. More faults repeat the same loss after the same recovery; the
run of two of them, with two attempts, is `session_outage`. In `signal_link` two breaks
give a mode entered on one connection and cleared or entered again on the next, and one
more break after it. In `media_control` the clock crosses the sign bit in one half of the runs and
the wrap in the other; the delays are longer than the time-outs, so late answers
occur, and two suspended retransmissions show the check before the await.
TLC visits 2.8 million, 54 thousand, 1.6 million, 9 thousand, 108 thousand, 595
thousand, 494 thousand and 3.1 million states in the passing runs, in the order of the table.

Fairness. `rx_frames_live`: polls recur on a timer and a started block
runs to its end (weak fairness of `BlockStep`); a deadline that is again and again
in the future passes in the end (strong fairness: refreshing an entry moves
its deadline at most to a fixed time after its first packet, and its
packets are finite). Nothing is assumed of the network, the decoder or the user.
`send_queue`: both
threads are scheduled; no spurious wakeup is assumed. `backend_runtimes`: threads
are scheduled, and an accept or recv that blocks returns once its socket is closed,
on which the code relies to end its threads; nothing is assumed of calls on open
sockets, the peer or the user. `session` and
`session_outage`: commands return in the order of their calls, timers fire,
intervals tick, and an encoder flush ends (weak fairness); the wait for libzt has
a deadline (`WaitTimeout`, strongly fair because the address may be asked for
again and again before it). Nothing is assumed of the user, the peer, or the
network: the node need not come back. So `ConnectEnds` takes it that `zt_stop` answers,
which finding 2 shows it need not when a media worker is joined. `LinkRecovers` has two
premises: the form stays filled in, because a refused form is not retried, and no connect is
clicked while a disconnect still flushes the encoder, because that disconnect goes on to close the
new session and nobody opens it again. `signal_link`: pumps read, the
heartbeat's interval and the health check recur, and the sharer's hold time runs
out once no heartbeat renews it; heartbeat and check are strongly fair because the
bound on the inboxes may hold a send up, which the code does not do.

Findings (details in `PROJECT.json`):

1. *Ghost frames.* A parity or a retransmission that arrives after its frame was
   assembled opens a new entry (`media.js:2322`), which is asked for again and
   counted as a deadline drop.
2. *Lost wakeup at close.* `zt_media_close_internal` sets the flag and notifies
   without the queue's mutex; a worker between its test and its wait sleeps for
   ever. `zt_stop` joins the worker while it holds the runtime's lock, on the
   main thread.
3. *A lost restoration.* `handle_libzt_offline` assigns
   `libzt_reonline_need_restore` at every debounced outage (`main.js:555`). Once the
   transports were given up and no start was clicked, a second outage finds no
   session and overwrites the wish to restore the first one.
4. *Deaf in half of the clock.* The probe's request time is kept as a signed
   32-bit number and compared with an unsigned echo (`media.js:2398`): while bit 31 of the
   millisecond clock is set every answer is ignored. There `RttIsTrue` holds for want of answers.

Described, not stated as properties of a run:

- after a small gap is given up (`media.js:2304-2307`) a packet kept inside that gap is
  behind the expected number; promotion passes over it, so it stays in the map and
  counts against its limit until the pipeline stops. The map stays bounded all the
  same (`PendingBound`): the packet that overflows it is itself a candidate;
- `zt_signal_close_internal` closes the connection (`signal.rs:13-15`), which wakes its
  receive thread, and that thread closes the number it was given once more
  (`main.rs:775`), although `main.rs:691` takes it for a live descriptor. By then the
  number may be that of a new socket, since no command but `zt_stop` waits for the
  threads of the runtime it replaces. `BackendRuntimes` reaches it (`again`); listener
  and media threads take theirs by a swap and are safe (`ClosedExactlyOnce`);
- after a decoder error the closed `VideoDecoder` object is reused
  (`media.js:1072`) and every decode throws until the pipeline stops;
- a `join` in a batch that `disconnect_all` overtakes starts the viewer's probe
  timer again, and nothing stops it afterwards (`DisconnectEnds`);
- the screen picker may outlive a disconnect; capture and probe timer then start
  without a session (`SharePipelineStarted`);
- the share branch of `create_channels_by_role` does not look at the epoch and
  relies on the close that the newer coroutine has already queued. What it assigns may come
  after the disconnect's own reset of the flags, so `signal_listening` may stay set on a
  page without a session;
- a listener whose bind or listen fails in its thread (`signal.rs:50-80`) leaves the page
  with `signal_listening` set: the error it pushes does not make a sharer reconnect;
- a listening sharer whose form says viewer when start is clicked is a viewer without a link
  and without a timer; it waits until the user connects (`LinkRecovers` takes its listener
  for what it has);
- a node that `zt_start` started before it failed runs on after every disconnect
  (`backend.stray`); `DisconnectEndsSession` speaks of libzt's slot, the transports and the page;
- after a recovery the viewer requests itself (`media.js:2166`) `awaiting_output` is false, so
  the guard at `media.js:1848` lets a complete delta at the position through before the new
  keyframe; its output even ends the recovery. A jump over a missing frame deletes the
  complete frames before its target (`media.js:1811-1815`). `DecodableIsKept` claims neither;
- urgent batches (priority 2 and above) go to the front (`main.rs:836`), so an endless
  stream of them starves the bulk: the queue promises an order and no delivery;
- `listener_stopped` is pushed only when the runtime it belongs to is gone, so no
  poll ever returns it;
- `try_retransmit_packet` tests the retransmission count before its await and
  counts after it, so two NACKs of one batch both pass;
- deadlines of the viewer's clock are compared with the sharer's;
- when `set_media_peer` fails, which takes a libzt without `sendto`, the bound socket
  stays open and nobody can close it (`MediaPeerFails`).

## 4. What is proved

`MediaSendQueue_proofs`, for all sets of batch shapes, limits and numbers of
batches: `TypeOK`, `UrgentFirst`, `NoStrandedWork` (that is `NoSleepOnWork` and
`DrainedOnExit`), and the action properties `BulkInOrder` and `EvictsLowest`. The
inductive invariant adds that the stop flag is set exactly while a close is under
way (`StopWhileClosing`) and that a worker exits only then (`ExitsOnStop`): an
exited worker excludes another `Enqueue`, which is what keeps its queue empty.
For the order, `OrderInv` says that the bulk batches in the queue are numbered in
rising order (`Rising`), above the last one sent and up to the last one called for
(`Numbered`); removal and insertion anywhere the code inserts keep both. The next
runtime starts with a count of its own, so the proof needs that it starts behind
an empty queue: a joined worker has exited (`JoinedExited`).

`BackendRuntimes_proofs`, for every number of runtimes: `TypeOK`,
`ClosedExactlyOnce` (`ClosedOnce` and `NothingLeaks`) and `OneConnection`, an invariant
of both connections' sockets: none is accepted while another is open, and none is overwritten in `conn_fd`. A descriptor that is taken by a swap is at every
moment in one place: in the atomic, with the main thread, or with the thread that
ends; and its socket is open exactly while it is somewhere. `ListenOwned` and
`MediaOwned` say so, `Connected` bounds the life of a signal connection by that of its
receive thread, and `Fresh` says that the next runtime is unused. A thread's step concerns its own
runtime (`ThreadStep`), a step of a close the one it closes (`ClosingKeeps`), so that each
action has one lemma about one runtime. TLC checked the invariant on the instance of the run
before the proof.

`RxFrames_proofs`, for all numbers of frames, choices of keyframes, packet
counts, parity rows and retransmission limits: `TypeOK`, `ExpiredStaysOut`,
`FeedsInOrder`, `FirstChunkIsKey`, `DecodableIsKept`. Neither `FeedsInOrder` nor
`FirstChunkIsKey` is inductive. The strengthening `DecodeInv` says that

- the position, when there is one, and the suspended frame are newer than
  everything decoded since the last recovery, and no position means that nothing
  was decoded since (`PositionAhead`);
- a decoder without a first chunk is in recovery, suspended at most on a
  keyframe, and has a position only while it is (`FreshDecoder`): this excludes
  a position that a stopped pipeline's flush leaves to a fresh decoder;
- while the flush is suspended the position is its frame, was cleared by a recovery or moved
  to a keyframe (`SuspendedPosition`), so that its late end does not step over a frame
  that could be decoded.

`DecodableIsKept` speaks of chains: a frame that can be decoded is one that has every frame
from the position, or from a complete keyframe at or behind the position, complete up to it.
`FlushKeepsChains` shows that a run of the flush, from any position and over any set of
complete frames, keeps every chain, whether it anchors, jumps, skips or returns; every step of
`Next` either runs a flush, ends one (`ResumeKeeps`), is a recovery or leaves the complete
frames alone. `FlushRunsResult` states once what a run of the flush may do from any position,
and every action's lemma uses it; `EntryInv` and `LoopOverEntries` carry the
frame buffer. The assumptions are the named ones of `RxFrames` on the constants;
TLC evaluates them on every run of that module.

`SeqReorder_proofs`, for every even modulus, every first number, every number of
packets below half the modulus, every smaller threshold and every limit: `TypeOK`, `PendingBound`,
`EveryNumberAccounted` (`LossCounted` and `NothingVanishes`), and the refinement `ImplementsWindow`. The
invariant says that the expected number is the wire form of the position (`Synced`)
and gives the loss count its first packet as a witness (`Counted`). `DistanceIs` is
the argument about wrapping: the distance on the wire is the true one ahead and at least half
the range behind. `Returned` says what a flush does in plain numbers; the invariant
and the refinement both use it. That a kept packet is a candidate of its own
promotion is what keeps `PendingBound`.

`Session_proofs`, for all numbers of attempts, tries, epochs, faults and unread
events: `TypeOK`, `ArmedTimerIsCurrent` and `OneConnectAtATime`. The invariant ties the queue of commands to the
coroutine (`QueueOK`): at most one command belongs to `connect_channels`, only
while it has a goal and is not asleep; an address or a start of libzt is
asked for only before channels are opened (so that a retry counts from zero); and
only a sharer listens. A goal implies `connecting` (`ConnOK`), which is why a
connect that tests `connecting` begins with no command of another in the queue. `Keeps`
says what any handler but `connect_channels` leaves of the state object, with one
lemma for each helper of `main.js`.

`SessionBackend_proofs`, for the same constants: `InvalidatedIsClosed`, `OpenIsServed`,
`DisconnectEndsSession` and `LinkIsReal`, the four that relate what the page holds to
be true to the sockets of the backend. Four coroutines close and open the same two
transports, and nothing but the order of their commands in the one queue decides
what is left. Neither the fields nor `QueueOK` say anything of that order, so
`BackendInv` does:

- the closes of the offline watch are ahead of those of `connect_channels`, and gone when
  it is past its reset (`InvalView`): they never reach a transport it has opened;
- behind everything a superseded attempt may still open there is a close of
  `disconnect_all` (`DiscOrder`), and an attempt that is superseded and still
  publishes has a running disconnect (`DiscOvertakes`);
- each transport is opened over a closed one (`ConnCloses`);
- the answers of the signal pump are in before the reset of `connect_channels` is
  (`PollOrder`), so no event of the old transport counts for the new one;
- the signal pump has one call at a time, and `poll.pc` says which (`PollView`);
- a shown link is up, or its loss is in the inbox, in the lines being handled (those behind
  a probe do not count, since a probe that throws loses them), or will be met by a send; behind every close on its way there is such a send or a
  `set_peer` that leads to one (`LinkOrder`).

`Holds`, `Single`, `AllAhead`, `Followed` and `Preceded` are the only words in which the
invariant speaks of the queue, and `MovedFacts` says what taking the first command and calling
another does to each of them (a step that calls two is two such moves); no later step looks at a position of the queue.
TLC checked `BackendInv` on the instance of the run `session` before the proof.

`SignalLink_proofs`, for all numbers of breaks and all inbox bounds: `TypeOK`,
`BadLinkBeats` (the mode exactly while its heartbeat runs, and only after a start),
`WatcherProbes`. `ModeInv` adds that an end that disconnects has
left the mode. `ProbeInv` replaces the empty inbox of `WatcherProbes` by what is
inductive: a watching viewer without a probe timer still has the `connected` of its
connection to read. `LengthInv` bounds both inboxes together, because answers do not
wait for room.

`MediaControl_proofs`, for every width of the clock and all limits: `TypeOK`,
`PendingHasTimer`, `RttIsTrue`, `NoLateRetransmit`. The invariant adds that the
outstanding probe's request time is the signed cut of its true time
(`ProbeIsKnown`), that every deadline kept or on its way is less than half a turn
of the clock away (`DeadlinesNear`) and that counts plus suspended calls stay
within the limit (`CountsLimited`). The assumptions are those under which a cut clock can
be read at all: time-outs, delays, repair times and the run itself are at most half a turn
(24.8 days).

The named assumptions on the constants are the only ones; TLC evaluates them in the runs.

Only model-checked: liveness (`BufferDrains`, `StopReachesWorker`, `StopReturns`,
`ConnectEnds`, `LinkRecovers`, `SharerLearns`, `SharerForgets`; the prover has no
fairness or ENABLED reasoning). Every invariant and every action property of a passing
run is a theorem; where a run checks a conjunction, so are its parts. No module uses a recursive operator.

## 5. Not modelled

- *Virtual buffer verifier, encoder pacing, adaptive FEC rate*: rates and budgets in bits
  with many tuned thresholds and no second actor; a finite instance would repeat
  the arithmetic.
- *Encoder, capture, motion analysis*: browser calls and pixel arithmetic.
- *FEC elimination and row generator*: bytes; `RxFrames` takes from them that a
  frame is recovered exactly when its parities determine it.
- *Sends on a descriptor that is being closed* (`zt_signal_send` uses the number after
  it released the lock), and the splitting of received bytes into lines.
- *The media inbox*, PLI packets and their rate limits, the size of the
  retransmission cache.
- *Gin signalling server*: nothing in the repository connects to it; so its races
  (`Hub.remove` deletes by client id, `main.go:347`, and an old connection that ends
  removes its successor) have no model.
- *Loading libzt, diagnosis, logs, form and page*: no evolving control state.

## 6. Plan

1. `RxPipeline`: `SeqReorder` and `RxFrames` composed.
