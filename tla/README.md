# SoundSwarm: a verification project

SoundSwarm plays the sound of one laptop on many phones at the same instant. A Go
server captures audio, stamps every 10 ms frame with its capture time and sends it
to each phone over UDP; a C++ client puts frames into a jitter buffer and plays
each at `capture time + global delay` on a clock it keeps in step with the
server's. TCP connections carry everything else: joining, clock probes, jitter
reports, heartbeats and the global delay.

This directory holds TLA+ models of the parts of that program that carry its logic,
their model-checking runs, and proofs that TLAPS checks. Source paths below are
relative to the repository.

## 1. Inventory

| Component | Source | State | Operations | Interacts with |
|---|---|---|---|---|
| Session, heartbeat monitor | `internal/session/manager.go` | map of clients, per-client heartbeat, channel, `WriteFunc`, connection | `AddClient`, `RemoveClient`, `GetClient`, `ForEachClient`, `EvictStaleClients`, `Client.Send` | handlers, HTTP, broadcaster |
| Connection handlers | `internal/server/tcp.go` | one goroutine per connection, one probe goroutine per client, `writeMu` | accept, join, handshake, greeting, read loop, clean-up, `BroadcastToAll` | all managers |
| HTTP server, web page | `internal/server/http.go`, `web/` | WebSocket clients | kick, assign channel, status | session, stream |
| Clock sync (server) | `internal/sync/clock.go` | map of offsets and round-trip times | `InitialHandshake`, `SendPeriodicProbe`, `ProcessPeriodicReply`, `RemoveClient` | handlers |
| Latency equalizer | `internal/sync/latency.go` | last report per client, global delay | `ReportJitter`, `recalculate`, `RemoveClient`, `GlobalDelay` | handlers, broadcaster, stream |
| Audio broadcast | `internal/stream/manager.go` | map of stream clients, queue of 200 packets, payload pool | `AddClient`, `RemoveClient`, `SetChannel`, `SetFrameSize`, `SendAudio`, `broadcastLoop`, `StartReceiver` | pipeline, handlers, HTTP |
| Pipeline, `main` | `cmd/soundswarm-server/main.go` | sample clock | read, stamp, demux, encode, send; broadcaster and frame-size callbacks | capture, stream, latency |
| Capture | `internal/capture/` | ring of samples with mutex and condition, COM objects, `running` | `Start`, `Stop`, `Read`, `captureLoop` | pipeline, `main` |
| Encoder, demuxer | `internal/codec`, `internal/surround` | buffer pool | encode, split, downmix | pipeline |
| Protocol | `internal/protocol`, `client/core/src/protocol.cpp` | none | header and message coding | everybody |
| Discovery, QoS | `internal/discovery`, `stream/qos_windows.go` | handles | register, QR code, flows | `main` |
| Jitter buffer | `client/core/src/jitter_buffer.cpp` | ring of 128 frames, `head_`, `tail_`, read offset, transit window | `push`, `pull`, `setGlobalDelayMs`, `getP95JitterMs` | engine threads |
| Engine | `client/core/src/engine.cpp` | connection flags, last sequence number | `start`, `stop`, message and packet handlers, maintenance loop | network, jitter buffer, decoder, clock |
| Client network | `client/core/src/network.cpp` | two sockets, two threads | connect, disconnect, read loops, send | engine |
| Client clock, decoder | `client/core/src/clock_sync.cpp`, `codec.cpp` | offset; Opus state | set and get; decode, conceal | engine |
| Android, iOS | `client/android`, `client/ios` | native handle, service, network callback | connect, disconnect, reconnect, render | engine |

### What is hard

* **A client lives in four tables** (session, stream, clocks, latency reports), each
  with its own lock, and up to three actors remove it at the same time: its handler,
  an HTTP kick and the heartbeat monitor. No lock covers two tables.
* **The handshake blocks without a deadline.** A peer that stays connected and silent
  must still be got rid of, by a goroutine that closes the connection under the
  blocked one.
* **Delays are broadcast by unordered goroutines**, and dropped for a client whose read
  loop has not begun.
* **The equalizer compares with the previous report**, not with the one its delay was
  computed from; it clamps, eases and ignores small changes, in that order.
* **The jitter buffer has no lock.** Two threads decide with each other's index as it
  was some time ago, and a pull may stop in the middle of a frame that the next pull
  finds too old.
* **Loss, reordering, drift**: concealment counts sequence numbers; the pipeline's clock
  snaps and slews; one congested probe may overwrite a good offset, and the handshake
  takes whatever message comes next for the reply it waits for.
* **Producer and consumer of the capture**: the writer never looks at the reader, and a
  signal wakes only those who already wait.
* **Stopping**: the client engine may be stopped by its own TCP thread, the capture by
  a thread that broadcasts without the lock.

`PROJECT.json` lists each of these at its line under `hazards`, with the property that
covers it or the reason why none does.

### What makes each component correct

* *Control plane*: nothing of a client outlives its handler; whoever is in the session
  has an open connection and a living handler; audio only goes to clients with a
  clock; a silent client is removed, a removed client cleaned up.
* *Latency equalizer*: the delay stays in its range whatever clients are told; it
  rises at once to what is needed, falls by small steps; all clients end with the
  same delay.
* *Jitter buffer*: the threads never share a slot; frames are neither lost, repeated,
  reordered nor cut wrongly; what is played is due.
* *Clock sync*: the offset is off by at most half the round trip it was measured with,
  and the drift since; client and server hold the same one; the handshake ends.
* *Broadcast*: a payload buffer has one user at a time and comes back; each client gets
  its frames in order, under growing sequence numbers; the loop serves what was queued.
* *Engine*: what is concealed was lost, and what was lost is concealed up to the cap;
  `stop` returns and leaves no thread behind, whoever calls it.
* *Capture and its clock*: samples are read in order and once unless the reader was
  lapped; no signal of the writer is lost; `Stop` waits for the capture thread before it
  releases what the thread uses; a frame's timestamp stays near the clock.

## 2. Plan

| Module | Models | Composes with | Abstract specification | Theorems |
|---|---|---|---|---|
| **ControlPlane** (done) | connection handlers, kick, assignment, monitor | four tables in one module | `Roster` | type, three invariants, safety of the refinement, removal wakes the handler |
| **LatencyEqualizer** (done) | equalizer, broadcast, greeting | the handler's phases | | type, range, one delay per change, three action properties |
| **JitterBuffer** (done) | `push`, `pull` | | `FrameQueue` | type, slots, play-out window, refinement |
| **StreamBroadcast** (done) | `SendAudio`, queue, broadcast loop, payload pool, channel selection | the pipeline's layout; the manager's callers | | type, payloads, pool, order, progress of the queue |
| **Capture** (done) | capture thread, ring, `Read`, sample clock, start and shutdown | capture, pipeline and `main` in one module | | type, five safety properties, progress of `Stop` |
| **ClockSync** (done) | probe rounds, choice of the best, periodic correction | server and client in one module | the bound on the error | type, two error bounds, agreement, healing, a handshake that goes on |
| **ClientEngine** (done) | `start`, `stop`, the threads, concealment | engine and network in one module | | type, three invariants, progress of `stop` |
| AndroidClient | network callback against disconnect | an engine per connection | at most one engine is up | no engine survives a disconnect, where it does not |
| **PlayOut** (done) | the capture time a client lets be heard | two clients of ClockSync, LatencyEqualizer, the test of `pull` | | clients play in step, frames on time |
| Wire | header round trip on bounded inputs | | | |

`PlayOut` is the end-to-end claim of the program; it uses the theorems about the modules it
composes. It says nothing of the timestamps of concealed frames, which `ClientEngine` leaves
out as well.

## 3. The modules

### ControlPlane, MCControlPlane, ControlPlaneProofs, Roster

An element of `Clients` is one TCP connection together with the random ID it gets: a
device that reconnects is another element. `pc[c]` is where its handler is; program
points are named for the statement to come. A step is one critical section, one
blocking call, or one read without a lock, so that every interleaving the locks allow
is explored.

| Variable | Code |
|---|---|
| `session`, `fresh`, `chan` | `Session.Clients`, `LastHeartbeat` within the timeout, `Client.ChannelAssign` |
| `stream`, `streamChan` | `stream.Manager.clients`, `ClientStream.ChannelAssign` |
| `clocks`, `reports` | `ClockSync.clients`, `LatencyEqualizer.reports` |
| `open` | connections whose server end is not closed |
| `op`, `target`, `want` | HTTP requests under way |
| `evicting`, `evictClose` | the monitor's local list and the client it is about to close |

`Session.RemoveClient` is two steps, delete and close, for each of its three callers,
and the second happens only if the first found the client. `EvictStaleClients` lists
under the lock and removes after it. `LookupChannel` and `AddStream` separate the
evaluation of the argument `client.ChannelAssign` from the critical section that
stores it. A call on a connection that the server closed fails, a call on an open one
may fail at any time.

`Roster` is what this promises of a client: admitted once, in the audience until it is
dismissed, retired once and for good, and retired in the end if dismissed. It is
checked as a property of the fair specification, through the mapping
`known`/`member`/`audience`/`retired` at the end of `ControlPlane`.

### LatencyEqualizer, MCLatencyEqualizer, LatencyEqualizerProofs

`ReportJitter` and `RemoveClient` are single steps, as both hold the equalizer's lock
throughout; `Needed`, `Eased` and `Recalculated` are the stages of `recalculate`. A
change adds a message to `pending` (the goroutine `go broadcaster`), `BroadcastToAll`
turns it into one element of `sends` per client of the session (the goroutines
`go c.Send`), and `Send` writes it, or drops it while there is no `WriteFunc`.
The handler's greeting is two steps, reading the delay and writing it. `n` numbers
the changes; the code has no such number and it only tells messages of the same delay
apart.

Delays are whole milliseconds where the code has floating point: the half
millisecond below which a change is ignored becomes one unit (`Resolution`). A client
leaves from its read loop; failures before it have no report to remove. That a kicked
client is no longer in the stream, so that `SetFrameSize` has no effect on it, is left
out.

### JitterBuffer, MCJitterBuffer, JitterBufferProofs, FrameQueue

Each thread has a program counter and the index of the other thread it loaded last.
Writing a slot takes two steps, during which its content is `Torn`, and publishing it
a third; copying from a slot lasts from `PullCopy` to `PullCopied`, during which the
other thread runs. Loads and stores of the two indices are acquire and release in the
code, which is why the interleaving of steps is all there is. Time and samples share a
unit. Indices do not wrap: `size_t` does not overflow in the life of a client.

`FrameQueue` is a bounded queue whose first frame is played piece by piece. The
mapping takes the slots from `tail` up to `head` for the queue.

### StreamBroadcast, MCStreamBroadcast, StreamBroadcastProofs

| Variable | Code |
|---|---|
| `next`, `held` | the pipeline's place in the frames of the layout; the buffer `SendAudio` filled |
| `pool`, `content` | `payloadPool` and what is in its buffers |
| `queue`, `packet` | `broadcastChan`, the `broadcastPacket` the loop took from it |
| `phase`, `todo`, `running` | where `broadcastLoop` is, its `activeClients`, `stopChan` not closed |
| `members`, `assign`, `seq` | `Manager.clients`, `ChannelAssign`, `SeqNum` |
| `wire` | the last datagram written to each client |

A step is one critical section, one operation on the channel or the pool, or one
datagram. `todo` holds clients, as `activeClients` holds pointers: a client that is
removed or reassigned after the snapshot is still served. Frames are numbered in the
order they are encoded, and the number stands for the payload, so that a buffer
overwritten too early shows as a datagram whose `data` is another frame than its `n`.
The buffer pool is a fixed set, which `PoolNeverEmpty` justifies. Sequence numbers do
not wrap: 32 bits last for months. A client's address is left out.

### Capture, MCCapture, CaptureProofs

| Variable | Code |
|---|---|
| `ring`, `write`, `read` | `ringBuf`, `ringWrite`, `ringRead` of `WASAPICapture` |
| `running`, `client`, `packets` | the atomic flag, whether the COM objects are held, packets waiting in the device |
| `spc`, `cancelled` | where `main` is between start and `Stop`; the context's cancellation |
| `cpc`, `rpc` | program counters of the capture thread and of the pipeline inside `Read` |
| `base`, `total`, `stamp` | `pipelineStartUs`, `totalSamplesProcessed`, the last timestamp |

A sample is the number of samples written before it, so a frame shows by its content in
which order it was read. Time and samples share a unit. The pipeline holds the ring's
mutex while `rpc` is `park` or `take`, so that `CaptureCopy` can fall between `ReadTest`
and `ReadWait` only where the lock allows it, while `StopBroadcast`, which does not take
the lock, can always do so. The writer laps a slow reader, as in the code: `FrameIntact`
is about frames that were read in time. `StampFrame` is the whole choice between
keeping the time, slewing it and snapping it to the clock. The device's COM calls
succeed or fail; the clock is taken to be steady.

### ClockSync, MCClockSync, ClockSyncProofs

`now` is the client's steady clock and `now + skew` the server's wall clock, so `skew`
is what the offset estimates; it changes by `Drift`, as the clocks run at different
rates or the server's is set. Messages keep their order (TCP) and take any time. A probe
carries a label, the number of drifts at its sending (`mark`), which no step reads: it
lets the bounds say how much drift an estimate cannot know of. `ReadReply` decodes
whatever is next in the connection, as the code does. The client's maintenance thread
sends heartbeats from JOIN_ACCEPT on, the first about two seconds later
(`FirstBeat`); `SlowLink` says whether the handshake may still be under way then.

### ClientEngine, MCClientEngine, ClientEngineProofs

One life of an engine: the application's thread in `start` and `stop` (`app`), the TCP
thread (`tpc`), the UDP thread (`upc`) and the maintenance thread (`mpc`), over two
sockets that are open or closed. Each join is a step that waits for the other thread,
each close a step of its own. `Stopping` are the points of `stop`; a `start` that fails
goes through those that undo what it did. The TCP thread, too, may run `stop`, when it
handles JOIN_REJECT; its join of itself ends the process (`terminated`), as
`std::system_error` is not caught. A blocked `recvfrom` may return when its socket is
closed (`UdpWoken`) or not: that depends on the platform. `received` and `concealed` are
the packets decoded and made up, `late` records that the network has reordered one.

### PlayOut

Two clients, each with its connection to the server (`A` and `B`, instances of ClockSync),
and the equalizer (`Equalizer`, an instance of LatencyEqualizer), each a record with that
module's variables as fields. `Spec` is the conjunction of the three specifications and of
`OneServer`: both connections read one server clock (`ServerTimeNow`), whatever the two
local clocks do. `Due` is `targetCaptureUs` of `pull`, with the delay of
`setGlobalDelayMs` (`DelayOf`): the capture time of what a client lets be heard now, its
output device taken to sound when the caller of `readAudio` says so. `Takes` is the test
with which `pull` accepts a frame. A client is `Settled` when its handler is in the read
loop and no offset is on its way to it.

The module has no run of its own. Its properties follow from those of its parts, which the
runs check, and a product of three specifications is beyond a complete search even with the
smallest bounds; random behaviours of it, with local clocks two units apart and steps of the
clocks, reach settled clients that are out of step by as much as the bound without its
rounding.

## 4. Runs

| Run | Bounds | What it shows |
|---|---|---|
| `ControlPlane_safety` | 2 connections, 1 HTTP request at a time, 2 channels, symmetry | `NoOrphans`, `SessionIsLive`, `StreamedIsSynced` under all interleavings of handlers, kick, assignment and monitor |
| `ControlPlane_liveness` | 1 connection, 2 requests at a time, no symmetry | `MembersHeartbeat`, `RemovedIsForgotten`, and the roster with its liveness |
| `ControlPlane_channels` | 1 connection | violated: an assignment is lost for the stream |
| `LatencyEqualizer_delay` | 2 clients, reports 29, 36, 600, at most 3 changes, symmetry | range, easing, coverage after a significant report, exact rises |
| `LatencyEqualizer_anchor` | the same, and reports of 3 | violated: a client is left with another delay |
| `JitterBuffer_ring` | 2 slots, 4 frames, two lengths, 4 capture times | slots, play-out window, refinement of the queue |
| `StreamBroadcast_queue` | 1 client, a layout of 2 channels, queue of 2, 4 buffers, 4 frames | payloads, pool, order, liveness of the loop |
| `StreamBroadcast_channels` | the same | violated: the stereo mix client gets the left channel |
| `Capture_path` | ring of 5, packets of 3, frames of 2, thresholds 4 and 1, time to 12 | frames intact, no lost signal, no use after release, stamps near the clock, the shutdown ends |
| `ClockSync_offset` | 2 rounds, threshold 1, skews -3 and 2, time to 4, 2 drifts, 2 probes, 1 heartbeat | both error bounds, agreement of client and server, the handshake ends |
| `ClockSync_heartbeat` | 2 rounds, first heartbeat at 5, time to 9, nothing else | violated: a heartbeat is taken for a clock reply |
| `ClientEngine_life` | 4 packets, a cap of 1 | what `stop` leaves behind and waits for, sends before the close, concealment, the end by a rejection |

*Why the bounds are enough.* No step of the control plane reads another connection's
state, except that the monitor handles a list: two connections show the list, one
request can interfere at every point, two requests (in the liveness run) interfere
with each other. The reports of the equalizer lie on both sides of every threshold:
29 and 36 differ by less than 10 ms, across the 30 ms of the frame switch, 600 exceeds
the maximum, and 3, in the violation run, is a significant fall from 29; three
changes are enough for two to overtake each other. Two slots make the ring empty, full
and wrapped around with four frames; the frames' times and lengths make every branch of `pull` happen, within and across
frames. Four frames fill the broadcast queue of two while the loop holds one, and
overflow it; clients of the broadcast share nothing but the packet, so one shows what
each can meet, and the proofs cover any number. The capture's ring is shorter than two
packets, so it wraps inside a packet and the reader is lapped; a packet is no multiple of
a frame, so a frame lies across two; twelve units are four packets, enough for the
pipeline to fall behind by more than the snap threshold, catch up and run ahead. Two
rounds make the choice of the best one; skews of both signs, odd and even sums exercise
the rounding; two drifts exceed the correction threshold. With four packets and a cap of
one there are gaps at, below and above the cap, and late packets. In `ClockSync` and
`Capture` sizes and thresholds are otherwise arbitrary: the proofs cover all of them.

*Deadlock* is checked for the ring. The control plane and the equalizer may stop: each
connection is made once, so a behaviour ends when all have gone. The broadcast ends
with the last frame. Capture ends with the server and the engine with its life; in
`ClockSync` the bounds on clock, drift and messages stop it.

*Fairness* (`ControlPlane!Fairness`). A goroutine that can run does (weak fairness of
`HandlerRuns`, `RequestRuns`); a call on a connection the server has closed returns
(`Unblock`); the monitor's ticker keeps firing (`CollectStale`, `Evict`). Nothing is
assumed of the peer: it may fall silent in any call. `GoStale` is not fair, so
`MembersHeartbeat` is about clients whose heartbeat does time out. In `StreamBroadcast`
the broadcast loop, a goroutine that waits for nothing but packets, keeps running;
pipeline and callers need not. In `Capture` the goroutines and the capture thread are
scheduled (`MainStep`, `CaptureStep`, `PipelineStep`); neither sound nor the signal to
shut down ever need come. In `ClockSync` the handler and the client's TCP thread take
every step they can; ticks, probes and heartbeats need not happen. In `ClientEngine` the
threads are scheduled; user, server and network do nothing they do not have to, and
a close need not wake a blocked `recvfrom`, which is why `StopEnds` names that case.

### Disagreements between code and comments

The four violation runs are the `findings` of `PROJECT.json`:

1. `http.go:249`, "Update both session client and stream manager"; an assignment
   between the two halves of `tcp.go:178` reaches only the session.
2. `latency.go:9`, "the same playback timeline anchor"; messages overtake each other
   or are dropped before the read loop.
3. `stream/manager.go:209`, "send stereo mix to clients with ChannelStereoMix"; such
   clients get every channel of a surround layout instead.
4. `clock.go:5-7`, "robust sync even on noisy WiFi links" by outlier rejection and median:
   the code takes the round with the lowest round trip (`medianInt64` is never called) and
   decodes any message as a reply (`clock.go:159`). A heartbeat has no times; its round
   trip can come out lowest, and the offset is then the server's time itself, off by all
   of the client's clock.

### Other behaviour worth knowing

Met while modelling, and not the subject of a run:

* `clock.go:58` speaks of "all connected clients"; an entry stays when CLOCK_OFFSET cannot
  be sent (`tcp.go:167` undoes only the session).
* `latency.go:7` promises the maximum plus headroom; rises below 10 ms are ignored and
  add up: 29 then 36 ms leaves 49 ms where 56 are needed.
* `manager.go:297` evicts by a list made earlier: a client whose heartbeat arrives in
  between is removed all the same. `SessionIsLive` and `MembersHeartbeat` hold of it: it is
  disconnected like a silent one.
* `latency.go:138`, "restore normal frame size"; not when the limit was crossed by an
  insignificant step: 36, 29, 3 ms leaves large frames.
* `wasapi_windows.go:232` broadcasts without the mutex: a reader between its test and its
  wait sleeps on. `WaiterEnds` is therefore about readers that already wait. The process
  is ending at that point, so only the pipeline's goroutine is lost.
* `wasapi_windows.go:400` writes without looking at the reader: a lapped reader gets new
  samples in the place of old ones. `FrameIntact` is about frames read before that.
* `main.go:243-250`, audio time "must be mathematical"; the snap at `main.go:280` gives one
  frame a time that no count of samples yields. `StepBackBounded` is what remains.
* `engine.cpp:277`: a JOIN_REJECT makes the TCP thread join itself, which ends the process
  (`RejectionTerminates`).
* `network.cpp:227`: where a close does not wake `recvfrom`, as on Linux, `stop` waits
  for one more datagram.
* `engine.cpp:326`: a late packet sets `lastSeqNum_` back, and the next packet conceals
  ones that were received. `ConcealsTheLost` holds until a packet is late.
* `codec.cpp:69`: a missing PCM packet of 10 ms is replaced by some 120 ms.

## 5. Proofs

TLAPS checks the following for every value of the constants, subject to the named
assumptions in each module (`StereoMixAssumption`; `ReportAssumption`,
`DelayAssumption`, `StepAssumption`, `FrameAssumption`; `CapAssumption`,
`TimeAssumption`, `TornAssumption`; `ChannelAssumption`, `BufferAssumption`,
`NoneAssumption`; `LengthAssumption`, `StampAssumption`, `BoundAssumption`;
`RoundsAssumption`, `ClockAssumption`; `SizeAssumption`).

* **ControlPlaneProofs**: `TypeOK`, `NoOrphans`, `SessionIsLive`, `StreamedIsSynced`, and
  that every step is a step of the roster or a stutter (`Promise!Safe`). The inductive
  invariant adds, for every program point, the tables a client can be in there
  (`Placement`), the points at which it has a clock (`Synced`), and that whatever a
  kick or the monitor is about to close has left the session (`ClosersBehind`):
  `SessionIsLive` alone is not inductive, as a close under way could hit a member.
  `RemovalWakesHandler`: a handler blocked in a read whose client somebody removed has a
  closed connection, or the kick or the monitor that removed it is about to close it.
* **LatencyEqualizerProofs**: the type, `ToldInRange`, and the action properties
  `GentleDecrease`, `RaiseIsExact` and `SignificantReportIsCovered`. What a client may
  be told later is in flight now, so the range is proved of every message on its way
  (`InRange`). That the greatest report exists and bounds the others is proved from
  the well-foundedness of the naturals (`BoundedSetHasMax`): the reports are bounded,
  because `push` drops transit times of two seconds and more. `AnchorFollowsChange`: the
  number of a change decides its delay in every message there is (`Numbered`), so that two
  clients last told of the same change play with the same delay. Where `SharedAnchor` fails,
  as `LatencyEqualizer_anchor` shows it can, it is by a broadcast that was overtaken.
* **JitterBufferProofs**: the type, `NoSharedSlot`, `PlayoutWindow`, and that the ring
  implements `FrameQueue` (`ImplementsQueue`). The invariant
  bounds the true indices by what each thread knows of them (`Indices`), says which
  slots hold complete frames (`Filled`) and that a read offset lies inside the first
  frame (`Offset`). The heart is `IndexDistinct`: positions less than a ring apart are
  in different slots: a write to the slot at `head` therefore leaves the queue alone
  (`WriteKeepsHeld`), publishing appends (`PushRefines`) and releasing removes the first
  (`ReleaseIsTail`).
* **StreamBroadcastProofs**: the type, `PayloadIntact`, `PoolNeverEmpty` and
  `WireInOrder`. The invariant says that every buffer has one user and that user's
  frame (`Owned`), that none is lost (`Kept`), that the queue is in order of frames
  (`Ordered`) and that what a client got lies behind what is to come (`Behind`). The
  pool is not empty by counting: `Kept` puts all buffers in the queue or with the
  loop, which have at most `QueueCap + 1`. `QueuedComesNearer`: the queue only grows at its
  end or moves up by one, a packet under way stays until every client selected for it had
  one turn, and each step of the loop brings this about.
* **CaptureProofs**: the type, `NoUseAfterRelease`, `NoSleepOnData`, `FrameIntact`,
  `NotAhead` and `StepBackBounded`, for any sizes and thresholds with `Drift <= Snap` and
  `Slew <= FrameLen + Snap`. The invariant says that the last `RingSize` samples written
  are in the ring (`RingInv`, by `SlotDistinct`), that a reader past its wait has a frame
  (`TakeSafe`), and that the next stamp lies at most one slew before the end of the last
  frame (`Anchored`): `StepBackBounded` needs it, as the base moves after the stamp.
  `StopComesNearer`: from the broadcast of `Stop` on each thread has a number of steps left
  that its own steps lower and no other raises, and the only reader that still goes to sleep
  is one that was between its test and its wait, where `StopBroadcast` does not take the
  mutex.
* **ClockSyncProofs**: the type, `OffsetBounded`, `DriftBounded` and `ClientAgrees`, for
  every number of rounds, delay and drift. The two bounds need that no heartbeat falls into
  the handshake (`~SlowLink`); `ClockSync_heartbeat` shows that they do. The invariant says
  of every probe and reply, wherever it is, that its server time lies in the past up to the
  drift since (`ProbesPast`, `Answering`, `RepliesPast`), and that in the handshake exactly
  the message of this round is under way (`Lockstep`). Two theorems are about slow links as
  well. `SpoiledOffsetHeals`: processing a periodic reply leaves an offset whose error the
  round trip of that reply bounds, and no later step undoes that. `HandshakeNeverStuck`: a
  handshake that a heartbeat disturbs still has a step to take.
* **ClientEngineProofs**: the type, `StopQuiesces`, `SendsOnOpenSocket` and
  `ConcealsTheLost`, for any number of packets and any cap. `Phases` says which threads and
  sockets there are at each point of `start` and `stop`, `ClosedLast` that only the end of
  the maintenance thread or a rejection lets the connection be closed, `Numbers` that
  `lastSeqNum_` is the greatest number until a packet is late. `StopComesNearer` gives the
  thread that `stop` joins a number of steps left that only falls, and `StopIsNotStuck` says
  that the TCP thread can then always go on: `disconnectTCP` leaves it neither a message nor
  a maintenance thread to wait for.
* **PlayOut**: `ClientsPlayInStep` and `FramesPlayOnTime`, from the theorems of
  ClockSyncProofs and LatencyEqualizerProofs, for constants that satisfy those modules'
  assumptions (`Assumptions`) and handshakes without heartbeats. Two settled clients last
  told of the same change let the same audio be heard at every moment, up to half of the sum
  of their round trips, two roundings and the drift since; the global delay cancels out,
  which is why it need not be exact but must be shared. A settled client takes a frame for
  its capture time plus the delay by the server's clock, a frame early and two late at most.

Only model-checked: liveness (`MembersHeartbeat`, `RemovedIsForgotten`, `QueuedIsServed`,
`StopReturns`, `WaiterEnds`, `HandshakeEnds`, `StopEnds`, `RejectionTerminates`, the
fairness part of the roster), which is out of the prover's reach. What is proved of six of
them is the part without fairness, that something can always be done or that every step
helps: `RemovalWakesHandler`, `QueuedComesNearer`, `StopComesNearer` (of the capture and of
the client), `HandshakeNeverStuck`, `StopIsNotStuck`. That these steps are taken is for TLC.

## 6. Not modelled

* Platform calls (COM beyond success and failure, Oboe, qWAVE), discovery, the web page,
  QR codes, flags and logging: no state of the program beyond what the table in
  `PROJECT.json` says.
* Numeric data: encoder, decoder, demuxer and downmix, the header's layout, JSON and its
  escaping.
* In modelled components: the server's own start and stop, the life of the goroutine that
  sends periodic probes, the UDP receiver that follows a client's address, the window of
  transit times behind `getP95JitterMs`, timestamps of concealed frames.
* The Android service's reconnection and user interface, and the iOS wrapper: an engine is
  started and stopped once in `ClientEngine`, as both do.
