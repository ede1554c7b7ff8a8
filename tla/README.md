# A TLA+ verification of live_stream

live_stream is the firmware application of a HiSilicon IP camera: it takes encoded
video from the SoC, fans it out to RTSP, WebRTC, HTTP-FLV, HLS and MJPEG clients,
runs detection on it, and serves a web interface for configuration and upgrades.
This directory holds models of its concurrent, failure-prone and boundary-prone parts,
the TLC configurations that check them on small instances, and TLAPS proofs of the most
important results for all values of the constants.

`PROJECT.json` is the index: components, runs, the source lines behind every
definition, hazards, findings, theorems. Paths below are relative to `src/`.

## 1. Inventory

| Part | State | Operations | What is hard | What makes it correct |
|---|---|---|---|---|
| Frame distribution (`libs/media/src/frame_subscribers.*`, `libs/event/include/multi_reader_queue.h`) | per stream a GOP cache and a bounded shared queue; per subscription a cursor | Write, SubscribeFrames, GetSubscriptionStart, PullFrame, ClearStream, Clear | overflow, slow readers, resets between the two calls that start a client | clients get a decodable stream, memory is bounded |
| Preview clients (`media_streams_impl.cpp`, `flv_clients`, `mjpeg_clients`, `gop_cache`) | track state, client tables | PushFrame, stream state, attach, detach | sinks called outside the lock, resets during a push, configuration generations | no use of a detached sink, header before the tags it describes |
| HLS, buffers, timestamps (`hls_maker.cpp`, `media_buffer*.cpp`, `timestamp_corrector.cpp`, `http_flv_session.cpp`) | segments, reference counts, clocks | append, playlist, acquire, slice, correct, rebase | limits in bytes and count, failing allocations, wrap | playlists name what is served, blocks outlive their users, time advances |
| IO loop (`libs/socket_io/src/event_loop.cpp`) | task queue, timers, fd table, eventfd, timerfd, thread | Start, Stop, Post, AddFd, RemoveFd, RunAfter, RunEvery, CancelTimer | lost wake-ups, stop from inside a callback, fd reuse | serial execution in order, nothing forgotten, cancel is final |
| TCP sessions, statistics (`tcp_session.cpp`, `tcp_server.cpp`, `socket_io_impl.cpp`, `net_stat.cpp`) | connection table, output queues, queue records | accept, read, write, Send, Close, CloseAfterSend, timeouts, Stop, sampling | other threads' sends against close; full queues | byte counts, flush before close, close callback last |
| Control loop, executor, event centre, alarm, config (`libs/event/src`) | queues, handler tables, alarm states, values and a file | Post, Publish, Subscribe, Set, Reset, inject, Stop | callbacks outside locks, verify/apply/save failing separately, kill during save | nothing lost or stranded; values, modules and file agree |
| HTTP, API, authentication (`libs/http`, `libs/http_media`, `libs/auth`) | connections, requests in flight, streams, sessions of users | requests, streams, timeouts, login, password change, uploads | handlers on executors against close; slow password checks between critical sections | one answer per request in order, evicted sessions stay evicted, roles respected |
| RTSP, WebRTC, RTP (`libs/rtsp`, `libs/webrtc`, `libs/media_codec`) | sessions, peers, transports, sequence numbers | SETUP, PLAY, TEARDOWN, offers, handshakes, send timers, close | life time across threads, late callbacks, boundaries of fragments | subscriptions and timers owned by a session, keys bound to the offer, receivers can rebuild frames |
| Upgrade (`libs/system/src/upgrade*.cpp`, `app/platform/linux/upgrade_*.cpp`, `app/tools/sysupgrade`, `libs/http/src/handlers/upgrade_handler.cpp`) | service state, platform flags, package files, status file, flash; two processes | upload, start, cancel, confirm, status, the worker, the helper, power loss | cancel against write, two processes on one status file, interruption between erase and write | only signed images in flash, no running partition erased, truthful status |
| Network, time, operation log (`libs/system/src/network.cpp`, `time.cpp`, `libs/infra/src/operation_log*.cpp`) | settings, interfaces, clock, log files | apply, persist, sync, append, rotate, query | one step of several failing, kill during rotation | settings, platform and store agree; recent records can be queried |
| Device, overlay, vendor adapter (`libs/device`, `libs/hisi_vendor`) | pipeline phase, SDK objects, regions | start, change, restore, stop, capture, tune | any SDK call failing, rebuild against tuner, capture and frames | objects released in order, the pipeline is as it was or as asked |
| AI (`libs/ai`) | tasks, backends, workspaces | start, reconfigure, infer, report | stop while inferring | backend outlives its run, only running tasks report |
| ONVIF, application wiring, web UI, scripts, vendored code | - | - | formatting, straight-line start and stop | - |

How they interact: the vendor adapter's capture threads call the device, which calls
`MediaStreams::PushFrame`; protocol sessions subscribe and are driven by 10 ms timers
on their loop; sockets are served by IO loops, whose callbacks are posted to the
protocol's loop or executor; configuration changes go through `IConfig::Set`, whose
callbacks run in the modules; upgrades run on an executor of their own and, for all but
the web partition, in a second process.

## 2. Modules

| Module | Models | Uses |
|---|---|---|
| `MultiReaderQueue` | the shared queue as a record of items, first and next sequence | Totals |
| `FrameSubscribers`, `FrameSubscribers_proof` | the frame distribution; its proofs | MultiReaderQueue |
| `MediaTracks` | tracks with FLV and MJPEG clients | Totals |
| `HlsMaker` | the HLS segmenter and a player | |
| `MediaBufferPool` | pooled blocks and the references to them | |
| `FlvTimeline` | timestamps from the encoder to an HTTP-FLV client | |
| `LoopQueue` | what a task loop promises: a serial queue that is open or closed | |
| `Totals` | the sum of a sequence, for the byte counts of the queues | |
| `Minimum` | lemmas: a non-empty set of naturals has a least element; what `Total` computes | Totals |
| `Services_proof` | proofs about `Config`, `TimeService`, `Executor`, `ControlLoop`, `EventCenter`, `NetworkService`, `AlarmService`, `OperationLog` | those modules |
| `HttpApi_proof`, `Network_proof`, `Media_proof` | proofs about `AuthService`, `HttpApi` and `HttpServer`; `TcpSessions` and `NetStat`; `MediaBufferPool` and `MediaTracks` | those modules, Minimum |
| `Sessions_proof` | proofs about `RtspServer`, `AiTasks` and `Upgrade` | those modules |
| `EventLoop`, `EventLoop_proof` | the IO loop in the grain of its critical sections and system calls; its proofs | LoopQueue, Minimum |
| `TcpSessions` | sessions, acceptor, callback queue and shutdown on one IO loop | Totals |
| `HttpServer` | connections, requests on executors, timeouts, streams | |
| `AuthService`, `HttpApi` | users, sessions and lock-out; routes, permissions and uploads on top | HttpApi extends AuthService |
| `RtspServer` | RTSP sessions with their subscription, timer and ports | |
| `WebrtcPeers` | peers across the service, the peer host and the video sender | |
| `WebrtcTransport` | SDP, STUN, DTLS and RTCP of one peer | |
| `RtpSending` | from Annex B to RTP packets and decoder configuration records | |
| `Config` | the configuration store | |
| `AlarmService`, `ControlLoop`, `Executor`, `EventCenter`, `NetStat` | the services of libs/event and the network statistics | |
| `NetworkService`, `TimeService`, `OperationLog` | settings with roll-back, the clock, the audit log | |
| `Upgrade` | the service, the platform, the helper process, flash and power | |
| `MppAdapter`, `DevicePipeline` | SDK call sequences; the pipeline above them | DevicePipeline uses MppAdapter |
| `RegionOverlay` | overlay regions and masks | |
| `AiTasks`, `AiDetect` | detection tasks; what the detectors compute | |
| `MCMedia`, `MCEventLoop`, `MCNetwork`, `MCSessions`, `MCServices`, `MCDevice` | the instances of the passing runs, and of the two upgrade findings (`MCDevice`); the other findings run on the module itself | the modules above |

An area run (`MCMedia`, `MCNetwork`, `MCSessions`, `MCServices`, `MCDevice`) checks several modules
at once without multiplying them: one part moves while the others are in their initial states, so
the state space is the sum of the parts'. Each part has its own variables (a prefix per module),
`...Init`, `...Next` and `...Spec`.

### Frame distribution
`MediaStreams` holds its lock around every call, so each operation is one action. A
frame keeps its sequence number, its size and whether it is a keyframe; the payload is
left out. `received` is the history of what each subscription was handed, the cached
GOP first, then pulled frames; it exists for the properties only. `PullFrame` contains
the loop of `PullSharedFrame` that skips delta frames while the subscriber waits.

### Preview clients, HLS, buffers, timestamps
`PushFrame` takes two locks in turn and calls the sinks under neither: in `MediaTracks` one frame is
a sequence of actions, and everything else may happen between them. A client keeps which
parameter sets its last header and its last tag had. In `HlsMaker` sizes are computed with the code's
arithmetic (TS packets per PES, fMP4 boxes, capacity growth) and every allocation may fail; a keyframe that ends a
segment has two attempts to start the next one. In
`MediaBufferPool` a handle is a `MediaBufferRef`; copies, moves, slices and resizes are actions, and the
pool may go away at any moment. `FlvTimeline` keeps the correction state, the 32-bit wrap (a small modulus)
and the rebase per client; a sequence header, at the start and whenever the configuration changes in mid-connection, goes
out before its frame with timestamp 0, outside the rebase.

### IO loop
The loop thread's program counter `pc` follows `Run()`: check, epoll_wait, dispatch,
timers (collect, visit, return), tasks (swap, begin, return). Each critical section is
one action, and so is each of the parts of Post and Stop before and after the unlock
(`notifying` counts threads between the two parts of Post). Stop exists twice: by the owner
(notify, join, clean up) and from a callback (no join). epoll is level triggered: an
event is offered while its source is ready; a batch in `events` holds the fds the
kernel has returned and not the registrations, as in the code.

### TCP sessions, HTTP, authentication
`TcpSessions`: one listener, one IO loop and one callback loop; each write may take any part of
the queue, block or fail. `promised` and `written` are history counters of bytes. `HttpServer`: the callback
loop, the IO loop's timers, executor workers and the control thread meet under one mutex; each of its
critical sections is a step. Control and stream requests have an executor each; `Stop()` stops the one and then the
other, discards what is queued and joins the workers, while accepts and messages already posted still arrive.
`AuthService`: the password check is made between two critical sections, so logins
and changes of several workers interleave there; the configuration (session limits, lock-out, token life time) may change at any
step. `HttpApi` has the route table of all handlers with the
permission each demands.

### RTSP and WebRTC
Threads are lists of critical sections still to run, and calls made outside the locks are steps of
their own. The RTSP send timer takes seven of them for a frame (`TakeStartFrame`, `ReadSubscription`, `PullLiveFrame`,
`CheckSession`, `CheckKeyframe`, `ReadRoute`, `SendRtpPackets`), and a request or `Stop()` may come between any two;
the log entry of a frame remembers what the callback had seen. In `WebrtcPeers` a DTLS timeout waits for the mutex between
firing and `HandleDtlsTimeout`, and the host may refuse to create a session. Subscriptions, timers and sockets are sets of names that record who made them, so an orphan
is visible. `WebrtcTransport` keeps the order of SDP lines and STUN attributes, because the parsers are about
precedence; a digest is known by what it was computed over; DTLS packets count only after ICE, and a handshake
may end in a timeout. `RtpSending` works on bytes: start codes,
trailing zeros and emulation prevention are what its functions are about; presentation times are microseconds and the
RTP clock counts nine ticks in a hundred of them (90 kHz), rounded down.

### Services
`Config`: a `Set` runs verify, apply, commit and save as separate actions, each able to fail,
under `write_mutex_`; `AddScope`, `RemoveScope` and a kill interleave. The file is missing, torn or complete.
`AlarmService` has both clocks the code uses; the system clock can be set, and `amSet` sums what it was set by since a
source's last alarm. `ControlLoop` and `Executor` are
modelled with their condition variables: who waits, who was notified, who holds a task. `EventCenter` has two
publishers working on snapshots. `NetworkService` and `TimeService` have the platform and the store fail at
any step. In `OperationLog` a rotation is one action per rename and a write may leave a partial line.

### Upgrade
API calls are serial (the HTTP control executor has one worker), the worker, the helper
and the power supply interleave with them. Each critical section and each call to the
platform or to flash is an action. A package is its manifest: version, partitions,
reboot, tool, signed. Power loss can hit any step; flash that was erased is blank until
it is written, and tmpfs is empty after boot. The status file is replaced atomically by
one process; two processes that write at the same time share the `.tmp` file, so a mixture can
result, and a rename that finds the other's already done leaves what the other one reported. A write that
fails because `/data` is full is not modelled.

`StartUpgrade` looks at the state alone, and that says "canceled" while the cancelled job is still queued, in the worker
or with its helper. A start accepted in that window can put two jobs to work at once, and with it two writers of the flash and
of the status file. The variable `early` records such starts; `OneFlashWriter` and `StatusTruthful` are about
behaviours without one, everything else about all of them. The run `upgrade_cancel` shows how a cancelled
job goes on to write.

### Device, overlay, AI
`MppAdapter` describes each call of the adapter by the SDK objects it takes and gives back, with the name of
the step that fails as a parameter; `broken` collects objects that lost something they use. `DevicePipeline`
runs Start, Stop and a change with its restore on top, with the tuner, JPEG capture, the encoder's
thread and AI frames as other actors. An AI capture looks at the phase (`AiLook`) and takes the frame later, without a lock; an
image configuration is written control by control and can stop halfway (`Applied`). `RegionOverlay` keeps the overlay's table beside what the hardware
has. `AiTasks` follows a worker through capture, inference and report; `AiDetect` compares the
detectors' arithmetic with reference definitions: block sums and square sums from all four corners of the integral images, and
suppression per class with the cuts to the best detections over all classes.

## 3. Runs

All passing runs explore the full state space of their instance.

| Run | Bounds | States | Shows |
|---|---|---|---|
| `media` | frames: 1 stream, 1 subscription at a time, queue of 2 frames / 4 units, GOP cache of 2 / 5, sizes 1 and 3, 5 frames, 1 reset; tracks: 2 FLV and 1 MJPEG client, 2 parameter sets, 2 resets; HLS: 5 frames (4 with a reset), 2 segments, sizes around a TS packet; pool of 2 blocks and 3 handles; encoder times from -1 to 7, timeline of 3 tags, sequence headers included, with a wrap at 4 | 0.34 M | `SeamlessDelivery`, `GopDecodable`, `FrameQueuesExact`, `TrackClientsServed`, `HlsPlayable`, `BlocksAccounted`, `TimelinePlayable`, liveness `CatchesUp` |
| `loop` | capacity 2; 3 posts, 1 fd and 2 starts without timers, or 2 timers with delays 1 and 2, a clock to 3 and 1 post | 0.37 M | `NoLostWakeup`, `StopIsFinal`, `NoOversleep`, `CancelIsFinal`, refinement `ImplementsLoopQueue`, liveness `LoopProgress` |
| `tcp` | TCP: 2 connections under a limit of 1, output limit 3 bytes / 2 entries, both loops with 2 slots, 4 calls (2 with two connections, 1 with `Stop()` too); HTTP: 1 connection, 3 requests (2 once `Stop()` has been called), pipelining of 1; authentication: 1 user, 2 workers, 2 logins, 2 configurations (one without lock-out), clock to 2; every route for every role | 1.07 M | `OutputExact`, `ConnectionsAgree`, `HttpConnectionsServed`, `SessionsBoundToPassword`, `ApiGuarded` |
| `sessions` | RTSP: 1 connection, 3 requests with a login and without `Stop()` (2 otherwise), 2 frames; WebRTC: 2 peers of 2 clients under a limit of 1, 2 HTTP workers, 3 calls; transport: 5 messages, 3 ports; RTP: frames around a packet size of 6, sequence numbers modulo 5, timestamps modulo 8 | 0.84 M | `RtspSessionsServed`, `PeerResourcesOwned`, `PeerStateTruthful`, `TransportBoundToOffer`, `RtpReceivable` |
| `config` | store: 2 scopes, 2 values, 3 calls, 1 kill, any initial file; alarm: 1 source, 2 rules, both clocks, 3 seconds; loop and executor: 3 to 5 posts, 2 timers, 3 workers, 2 starts; event centre: 2 types, owners and publishers, 3 subscriptions; statistics: 1 connection, clock to 6; network: 2 interfaces, 2 changes; time: 2 zones, 3 calls; log: files of 2 lines, 2 older files, 7 records | 0.67 M | `StoreConsistent`, `AlarmsSound`, `ControlLoopFaithful`, `ExecutorDrains`, `ListenersExact`, `NetReportsHonest`, `NetworkAsConfigured`, `TimeAsConfigured`, `LogKeepsRecent` |
| `upgrade` | upgrade: 5 packages (web, web with reboot, application and web, older application, unsigned), 2 uploads (alone or in three pairings), 2 jobs, 1 power loss or reboot, executor queue of 1; pipeline: 1 or 2 streams, one failing SDK call per operation; overlay: configurations with text and masks, failing regions; AI: 2 tasks, 3 workers per task; detectors: every input of small sets (pictures of 2x2 blocks, boxes of two classes) | 0.62 M | `FlashSafe`, `UpgradeHonest`, `PipelineOrdered`, `PipelineUsersSafe`, `OverlayShown`, `AiTasksOwned`, `DetectionExact` |
| `keyframe_first` | as the frames of `media` | - | violated: see findings |
| `loop_stale_event` | 1 fd registered up to 3 times | - | violated |
| `config_set_ok` | 2 calls | - | violated |
| `tcp_stop` | 1 connection, 2 calls | - | violated |
| `upgrade_cancel` | the same packages | - | violated |
| `upgrade_reboot` | web package with reboot | - | violated |

### Properties and their parts
Most properties of the runs are conjunctions of named parts, each stated and commented in its
module; a run checks every part. `PROJECT.json` pairs each property with one plausible bug in the mapped
code that must violate it; for a conjunction it is a bug against the part in bold, and says nothing
about how sensitive the other parts are.

| Property | Module | Parts |
|---|---|---|
| `FrameQueuesExact` | `FrameSubscribers` | `TypeOK`, `QueueIndexed`, `MemoryBounded`, **`CursorInv`**, `PendingExact` |
| `TrackClientsServed` | `MediaTracks` | `MediaTypeOK`, **`LeaseExact`**, `GopPlayable`, `HeaderMatchesInGeneration`, `NoFlvOnOtherCodec` |
| `HlsPlayable` | `HlsMaker` | `HlsTypeOK`, **`HlsBounded`**, `SegmentsIndependent`, `InitBeforeFmp4`, `ServedIsListed` |
| `BlocksAccounted` | `MediaBufferPool` | `PoolTypeOK`, `BlockOnce`, `RefsPointIntoLiveMemory`, **`BlocksOutlive`**, `PoolFreed` |
| `TimelinePlayable` | `FlvTimeline` | `TimeTypeOK`, `PresentedAfterDecoded`, **`FlvStreamWellFormed`**, `CorrectedAdvances` |
| `LoopProgress` | `EventLoop` | `PostedRuns`, **`StopReturns`** |
| `OutputExact` | `TcpSessions` | `TypeOK`, `PendingBytesExact`, `WriteArmed`, **`FlushedBeforeClose`** |
| `ConnectionsAgree` | `TcpSessions` | `TableAgrees`, **`NothingAfterClose`** |
| `HttpConnectionsServed` | `HttpServer` | `HttpTypeOK`, **`ClientOwned`**, `AnswersInOrder`, `NoneStranded`, `IdleHasTimer` |
| `SessionsBoundToPassword` | `AuthService` | `AuthTypeOK`, `SessionBounds`, `GuessBound`, **`ChangeEvicts`** |
| `ApiGuarded` | `HttpApi` | `FactoryPasswordFirst`, **`RolesRespected`**, `UploadsBounded` |
| `RtspSessionsServed` | `RtspServer` | `RtspTypeOK`, `SubscriptionsOwned`, `SendTimersOwned`, `UdpOwned`, `StartsWithKeyframe`, **`StartBeforeLive`**, `OnlyAuthorized` |
| `PeerResourcesOwned` | `WebrtcPeers` | `WebrtcTypeOK`, `VideoSubscriptionsOwned`, `SendTimersKept`, `SendersExclusive`, `SessionsKnown`, **`ClosedReleases`** |
| `PeerStateTruthful` | `WebrtcPeers` | `ConnectedIsSecure`, **`DtlsTimersKnown`**, `CandidatesDelivered` |
| `TransportBoundToOffer` | `WebrtcTransport` | `TransportTypeOK`, **`FingerprintOfVideo`**, `AnswerIsOffered`, `FeedbackIsOffered`, `PortFoundIfFree`, `KeysBoundToOffer`, `PairAuthenticated`, `KeyframeRequestSeen` |
| `RtpReceivable` | `RtpSending` | `RtpSendTypeOK`, `ReceiverRebuildsUnits`, `MarkerEndsFrame`, `PacketsFit`, **`LossIsVisible`**, `KeyframeSentFirst`, `ConfigMatchesFrame`, `FreshFramesPass` |
| `StoreConsistent` | `Config` | `TypeOK`, `DiskNeverTorn`, **`SavedIsCurrent`**, `AppliedIsCurrent` |
| `AlarmsSound` | `AlarmService` | `AlarmTypeOK`, `EventsBalanced`, `DisabledIsQuiet`, **`HeldLongEnough`**, `RepeatSpaced` |
| `ControlLoopFaithful` | `ControlLoop` | `LoopTypeOK`, `TasksInOrder`, `DrainRunsAll`, **`CancelledNeverFires`**, `TimersKept`, `LoopWakesInTime` |
| `ExecutorDrains` | `Executor` | `ExecutorTypeOK`, `RingIsQueue`, `StopDrains`, **`NoIdleWorker`** |
| `ListenersExact` | `EventCenter` | `CenterTypeOK`, `TokensMatchListeners`, `NoOrphanListener`, **`SubscribedIsCalled`** |
| `NetReportsHonest` | `NetStat` | `NetTypeOK`, `LevelIsPublished`, `ReportsSpaced`, **`BurstNotReported`**, `SessionsCounted` |
| `NetworkAsConfigured` | `NetworkService` | `NetworkTypeOK`, **`InterfacesAsConfigured`**, `NetworkStoreAgrees` |
| `TimeAsConfigured` | `TimeService` | `ClockTypeOK`, `TimeStoreAgrees`, **`SyncTimeHappened`** |
| `LogKeepsRecent` | `OperationLog` | `OperationLogTypeOK`, `QueryNewestFirst`, **`RecentRecordsKept`** |
| `FlashSafe` | `Upgrade` | `TypeOK`, `FlashAuthentic`, **`RunningPartitionIntact`**, `OneFlashWriter` |
| `UpgradeHonest` | `Upgrade` | **`StatusTruthful`**, `DowngradeAllowed` |
| `PipelineOrdered` | `DevicePipeline` | `DeviceTypeOK`, **`ReleasedInOrder`**, `DownHoldsNothing`, `RunningMatchesActive`, `CaptureGivesBack` |
| `PipelineUsersSafe` | `DevicePipeline` | `ImageIsCurrent`, **`NoRebuildDeadlock`**, `SnapshotOnLivePipeline`, `PushOnLiveThread` |
| `OverlayShown` | `RegionOverlay` | `OverlayTypeOK`, `TableIsHardware`, `HandlesOwned`, **`ShownIsApplied`**, `StoppedShowsNothing`, `MaskFits`, `MaskNearlyCovers` |
| `AiTasksOwned` | `AiTasks` | `AiTypeOK`, **`BackendOutlivesRun`**, `NoOrphanTask`, `OffIsQuiet`, `OnlyRunningTasksReport` |
| `DetectionExact` | `AiDetect` | `DetectTypeOK`, **`MotionComparesFresh`**, `LargestRegionsKept`, `NmsIsMaximal`, `BlockSumExact` |

### Bounds
Why the bounds are enough: every queue is small enough to overflow and large enough to
hold two entries in order; two jobs, connections, peers, timers, tasks or scopes are what it takes
for one to meet the leftovers of another; one reset, kill, failed call or power loss at an arbitrary
step is followed by normal operation. Moduli (sequence numbers, timestamps) are small enough to
wrap within a run. Bounds on counters (`MaxPosts`, `MaxSequence`,
`MaxCalls`, `MaxSets`, `MaxJobs`, ...) sit in guards only. Deadlock checking is off because
behaviours end when the bounds are used up, and because a stopped component may stay
stopped; that nobody waits for ever is stated as a property where it matters (`StopReturns`,
`NoRebuildDeadlock`, `NoIdleWorker`, `NoneStranded`). In `loop` the environment
uses many posts or timers but not both (`Scenario` in `MCEventLoop`); the loop thread itself is
never restricted. `HlsScenario` in `MCMedia`, `TcpScenario` and `HttpScenario` in `MCNetwork`,
`RtspScenario` and `PeerScenario` in `MCSessions` and `UpgradeScenario` in `MCDevice` limit combinations in
the same way: more frames without a reset than with one, more calls with one connection than with two, more
requests after a login than before one and while the server runs than around its `Stop()`, a forgotten DTLS
timer or two busy workers, and which two packages are uploaded together. Symmetry is used where actors are interchangeable (workers, clients) and the run has no
liveness property.

### Fairness
`media`: a subscriber's `PullFrame` and `GetSubscriptionStart` are weakly fair: the
sessions' periodic timers call them. Writers are not fair. `loop`: the loop
thread takes its steps (the kernel schedules it, callbacks return), and a Stop or the
notification of a Post, once begun, is completed by the thread that began it. Nobody is assumed
to post, to start or to stop. No other run has a liveness property.

### Findings
Six statements of the repository's docs or comments do not hold of the code; each has a
run and is quoted in `PROJECT.json`:
- `keyframe_first`: between `SubscribeFrames` and `GetSubscriptionStart` a new GOP
  leaves a client without a keyframe to start from;
- `loop_stale_event`: an event of a closed fd reaches the next user of its number;
- `config_set_ok`: retrying a `Set` whose save failed reports success unsaved;
- `tcp_stop`: a full queue at shutdown loses a close callback;
- `upgrade_cancel`: a cancel can succeed while, or before, flash is erased;
- `upgrade_reboot`: a web-only package with reboot leaves `waiting_reboot` on disk.

Some properties of the other modules had to leave a case out because the code does not promise it; where a
document does, it is given. Each such case is named in the comment on the property, and in the note of its hazard:

| Property | What the code does, and the property does not exclude |
|---|---|
| `ClosedReleases`, `ConnectedIsSecure` | a DTLS handshake that ends while its peer is being closed brings the closed peer back (`wrLate`; docs/libs/webrtc.md:182) |
| `SessionsKnown` | `CreatePeer` takes a client's older peer out of the table and then fails on the limit: the older session is closed by nobody (`wrDropped`, webrtc.cpp:203-207) |
| `DtlsTimersKnown` | a DTLS timeout that waited for the mutex forgets the timer a packet has armed meanwhile (`wrRearmed`, webrtc_transport.cpp:158); that timer, or a timeout that fired before the handshake ended, fails the connected session |
| `SubscriptionsOwned`, `SendTimersOwned`, `UdpOwned` | a PLAY or SETUP in progress stores what it makes after `Stop()` has released its session (`rtspRaced`; docs/libs/rtsp.md:71-72) |
| `StartsWithKeyframe` | the first frame after a repeated PLAY may be one the send timer had let pass for the earlier PLAY (rtsp_rtp_sender.cpp:175, 326) |
| `StartBeforeLive` | a callback of the send timer that a PLAY overtakes sends live frames of the new subscription before its start frames (rtsp_session_video_sender.cpp:176, 147) |
| `NoneStranded` | a request of a connection accepted while `Stop()` is under way is discarded with the executor's queue; the connection stays until its timer closes it (http_server.cpp:32) |
| `ChangeEvicts` | a login that checked the old password before its change and registers after it keeps its session (`outdated`, auth.cpp:297); there are fewer of them than workers |
| `ImageIsCurrent` | a refused image configuration stays half applied until the next apply (hisi_mpp_image.cpp:20; docs/libs/device.md:171) |
| `ReleasedInOrder`, `DownHoldsNothing` | a mapped AI frame during a rebuild, and the ISP memory of a failed start (docs/libs/device.md:156) |
| `RepeatSpaced` | the interval is judged on the system clock, so setting it shortens or stretches the elapsed time between alarms (alarm.cpp:562; docs/libs/alarm.md:53-54) |
| `FlvStreamWellFormed` | sequence headers sent in mid-connection have timestamp 0 (http_flv_session.cpp:294); the order is that of the frame tags |
| `HeaderMatchesInGeneration` | FLV configuration generations coincide across a reset |
| `RecentRecordsKept` | a record appended to a partial line is lost for queries (`olMerged`) |
| `CancelledNeverFires`, `SubscribedIsCalled` | a cancel of a running periodic timer returns false and the timer goes on; a listener cancelled during a publication may still be called |
| `NetworkStoreAgrees`, `TimeStoreAgrees` | a store that fails in its save has taken the refused value all the same (`nwRefused`, `tsRefused`) |
| `OneFlashWriter`, `StatusTruthful` | an upgrade accepted while a cancelled one is alive (`early`) |

## 4. Proofs

Each theorem below holds for every value of the constants that satisfies the module's `ASSUME`. The
argument is an inductive invariant: it holds initially, every action keeps it (one lemma per action or group of actions
with the same effect), and it implies the property. TLC checked each of these invariants on a small instance first.

| Theorem (module) | Inductive invariant, and why the property alone is not inductive |
|---|---|
| `SeamlessDeliveryHolds`, `CachesWellFormed` (`FrameSubscribers_proof`) | `Inv`: types, queue numbering, cache shape, `CursorInv`, `SeamlessDelivery`. That the next pulled frame follows the last one needs the cursor to point just behind it unless the subscriber waits for a keyframe; the hand-over from the cache needs the cache to end at the newest frame. |
| `FrameQueuesExactHolds` (same) | `Inv` and `MemoryBounded`: one frame more and the oldest dropped keeps the byte total within the limit, or leaves one frame. `PendingExact` counts a range of sequence numbers between cursor and end. |
| `NoLostWakeupHolds`, `NoOversleepHolds`, `StopIsFinalHolds`, `CancelIsFinalHolds` (`EventLoop_proof`) | `IInv`: types, what is open while running, `ThreadPhase`, `Woken`, `Marked`, `NoOversleep`. `Woken` extends `NoLostWakeup` back to the swap of the queue: a task posted while the loop runs its batch has its wake-up pending already. `Marked`: a cancelled timer still in the table carries the flag that `RunTimers` tests. |
| `RefinesLoopQueue` (same) | under `IInv` every step is a step of `LoopQueue` or a stutter, with `pending <- batch \o tasks`. |
| `OutputExactHolds`, `ConnectionsAgreeHolds` (`Network_proof`) | `TcpInv`: shapes, `Control` (where the loop thread and `StopInternal` are), `Told` (a close callback, posted or delivered, is the last of its connection), each session's own counts, and `Owes`. `Owes` is what makes `FlushedBeforeClose` inductive: counting the bytes that will have been queued when the first i posted tasks have run, each posted `CloseAfterSend` comes after all that was promised before it. |
| `NetReportsHonestHolds` (same) | `NetInv`: the record of a report outlives the cooldown (30 s against 5 s, `net_stat.cpp:26`, `net_stat.h:44`), so that a forgotten peer cannot report too early. |
| `SessionsBoundToPasswordHolds` (`HttpApi_proof`) | `AuthInv`: types, `SessionBounds`, `Secrets` (no login under way has checked a password newer than the user file, and nobody is free of the factory password before it is changed), `ChangeEvicts`, `Guessing`. `ChangeEvicts` counts the sessions of an old password together with the logins that will still open one; a change evicts the first and turns at most the other workers' logins into the second. `Guessing` bounds the guesses by the counted failures plus the workers about to count one, and after a lock-out by the workers already past the check. |
| `ApiGuardedHolds` (same) | `ApiInv` adds `UploadsOwned`: a worker has at most one file. That every route is gated by the right permission is shown table by table (`RoutesSound`) and carried to each request by `GateOfRoute`. |
| `BlocksAccountedHolds` (`Media_proof`) | `PoolInv`: the free list and the used blocks partition the pool, a used block is held by one buffer, both reference counts equal the number of handles and of buffers that exist, references lie in the filled part. Reference counts are cardinalities; repointing one handle moves two of them by one. |
| `StoreConsistentHolds` (`Services_proof`) | `StoreInv`: adds to the property what a save in progress has written (`SaveInProgress`) and what was applied ahead of the commit (`AppliedAhead`). |
| `TimeAsConfiguredHolds` (same) | `TimeInv`: `suppress_config_apply_` is never left set, and a call past the platform has set the time it will report. |
| `ExecutorDrainsHolds` (same) | `ExInv`: the ring holds the accepted tasks in order from `head_`, the busy count is the number of busy workers, and with a worker waiting there are no more tasks than workers woken. |
| `ControlLoopFaithfulHolds` (same) | `ClInv`: executed, batch and queue together are the accepted tasks in order; every timer made is waiting, ready, cancelled or done; the sleep ends by the earliest deadline. |
| `ListenersExactHolds` (same) | `EcInv`: tokens and listeners are in bijection below the next token id, and a publication's snapshot has the listeners still to call. |
| `NetworkAsConfiguredHolds` (same) | `NwInv`: `suppress_config_apply_` is never left set and the tables hold valid configurations; without it a value could reach the store and not the interfaces. The roll-back of a partial apply has a lemma of its own (`UndoPreserves`). |
| `AlarmsSoundHolds` (same) | `AlarmInv`: types, no thread still has both the start and the end of a source's alarm to publish, balanced events, a disabled source is quiet, and where the hold and repeat timers stand on the two clocks: since a source's last alarm the system clock has moved by the time that has passed and by what it was set (`AlarmClocks`). |
| `LogKeepsRecentHolds` (same) | `OlInv`: every line took a number of its own, lines in a file and files among each other are ordered by it, also halfway through a rotation, when one name is free (`OlAhead`). |
| `HttpConnectionsServedHolds` (`HttpApi_proof`) | `HttpInv`: for each connection which of the loop, an executor's task, a timer or a stream will act next; a request handed to an executor is in exactly one of its queue, a worker or the answer on its way back, or was discarded. `HttpLateInv`: whatever is open while `Stop()` works was accepted after it cleared the table, so only such a connection can lose a request. |
| `RtspSessionsServedHolds` (`Sessions_proof`) | `RtspInv`: each subscription, send timer and UDP pair belongs to a session in the table or to the pending section of the one thread that releases or creates it; what the callback of the send timer has read (subscription, start frames sent, keyframe passed) is of the present subscription or an earlier one, never a later one (`RtspNumbers`, `RtspStartInv`), which bounds what a PLAY can overtake to the cases of section 3. |
| `AiTasksOwnedHolds` (same) | `AiInv`: a thread belongs to the current worker of its task or to one being joined, and the backend it runs on is referenced until it reports. |
| `FlashSafeHolds`, `UpgradeHonestHolds` (same) | `UpInv`: `UpFrame` (shapes; what is queued, worked on or with a helper is a job), `UpSafe` (an image is extracted, and a partition opened, for a signed package whose version policy was checked against the version that still runs), `UpSources` (one package at a time in the upload directory, so what the worker burns is what it validated, whatever the HTTP thread validates meanwhile) and, without an early start, `UpOrder` (the last job is the only one alive, and unless cancelled it keeps the service busy: by the worker's state before the handoff, by the status file after it) and `UpBurnt` (what the one writer has verified stays). That a start is refused while a helper runs depends on the status file never reading as finished before the helper is, which is `UpTells`. |
| `TrackClientsServedHolds` (`Media_proof`) | `TracksInv`: leases belong to clients of the call's own stream, so a client's pending count is 0 or 1; `Knows`: same epoch and configuration number mean the same header, except for clients whose header is on its way or whose sink failed (`Owed`); a cached GOP fits its header, and client ids are never used again. |

Assumptions are the `ASSUME`s of the modules, evaluated by TLC in every run: limits and capacities are
positive, sets of workers and handles are finite, and the values a configuration may have include
the default. Byte counts are a recursive function (`Total`); what it computes for appended, removed and prefixed elements is
proved in `Minimum` by taking the least index at which it could differ.

Proving changed the model twice. `OneFlashWriter` and `StatusTruthful` were first stated for behaviours in which `CancelHonoured`
holds; no inductive invariant exists, because three jobs are enough to violate them: a cancelled job that has written
nothing yet meets its successor. TLC confirmed it with `MaxJobs = 3`, hence `early`. `DowngradeAllowed` failed for two
boots because a boot without an application was given the factory's version as the running one.

Only model-checked, and why:
- liveness (`CatchesUp`, `LoopProgress`), which is out of the prover's reach with `ENABLED`;
- `RtpReceivable`, `DetectionExact`, `TimelinePlayable`, `HlsPlayable`, `TransportBoundToOffer` and `OverlayShown`, whose
  definitions are recursive operators, folds or searches over data: what they compute for every input takes an
  induction that the provers do not have;
- `PeerResourcesOwned` and `PeerStateTruthful` of `WebrtcPeers`, `PipelineOrdered` and `PipelineUsersSafe` of
  `DevicePipeline`: their operations are lists of steps put together by folds, whose effect cannot be unfolded
  for every list.

## 5. Not modelled
ONVIF (formatting of requests and responses with almost no state), the NNIE runner and pixel
conversion (layout of accelerator memory), system information (reads of /proc), the application's wiring
(straight-line start and stop), the web UI and scripts. Inside the modelled parts: byte
formats whose content no property is about (FLV, MPEG-TS, MP4 boxes, SOAP, JSON, MTD headers), cryptography, the
vendor SDK, inference, process logs, statistics counters, UDP endpoints and connects of `socket_io`, routes and
`resolv.conf`. `PROJECT.json` lists each component with its reason.

## 6. Plan
Done: every component with state or concurrency of its own has a module, except those of section 5, and the safety
properties of 20 of the modules are proved.

Left, in order:
1. `WebrtcPeers` and `DevicePipeline`, once their step lists are written as one action per step: which thread's pending
   sections account for each subscription, timer, socket and SDK object.
2. `ControlLoop` as a second implementation of `LoopQueue`, by refinement.
3. A failing write of the status file in `Upgrade`.
