# Native LDAC for the WH-1000XM5: a TLA+ verification project

The program streams LDAC from Windows to one headset without the vendor's Bluetooth stack
components. A presence agent in the user's session watches the ACL link, publishes an audio
endpoint while the headset is there, and contains one worker process per playback. The worker
negotiates AVDTP over a profile driver that owns the L2CAP channels and reads PCM from a virtual
audio endpoint. A handoff host exchanges the driver of the headset's AVRCP device while media plays,
and the absolute volume of endpoint and headset follow each other over it. An older installed agent
runs a media process of its own. A newer path ("direct PDO") puts negotiation and channels into
the audio driver itself.

The modules below model the control of this program: who owns the worker, the channels, the
devices and the leases, in which order the owners act, and what is left when one of them fails.

## Inventory

| Component | State it keeps | Operations | Talks to | Hard behaviour | What makes it correct |
|---|---|---|---|---|---|
| lifecycle reducer (`agent/v1_lifecycle.cpp`) | presence, demand, engine, session, attempt budget, generation | one event in, actions out | presence agent | any event in any state; generations wrap | one engine, at most N opens per playback, nothing left from an old connection |
| HFP switch (`v1_hfp_switch_state.cpp`) | phase of a call, deadline | one poll | presence agent | a call begins or ends between two polls | LDAC gives way, and comes back after the call |
| presence agent (`v1_presence_agent.cpp`) | loop with deadlines, stability gate, retry, render tracker | ACL event, polls, deadlines, stop | reducer, worker, endpoint, watcher | four event sources and five deadlines in one thread; every I/O call can fail | record and process agree, only the current connection's worker is authorized |
| engine host and worker (`v1_engine_ready_host.cpp`, `v1_transport_configuration_worker.cpp`) | process, job, events | start, poll, authorize, stop | agent, profile driver | worker dies, expires or fails at any time | no orphan, no second worker |
| streaming session (`v1_transport_pcm_session.cpp`, backends) | AVDTP state, encoder, lease, counters | open, exchange, preflight, write, pause, close | driver, PCM source, headset | headset acts between two writes; endpoint restarts under the encoder; stop at any stage | one stream per packet, media only while streaming, everything taken back |
| candidate workers (`v1_transport_*_session.cpp`) | one bounded session | exchange, finish, report | host, driver | stop before every exchange | what is reported is what is left |
| media process (`tools/transport_probe.c`) | stream, lease, link report | open, exchange, configure, feed, clean up | installed agent, driver, endpoint | commands of the headset between two of its own | success means the stream was taken back |
| legacy agent (`agent/ldac_agent.cpp`) | loop, child, reconnect gate | look at headset and transport, start, stop, reload | media process, driver | separate looks at things that change | one reconnection per disconnect |
| AVDTP source (`protocol/src/avdtp.c`) | stream state, sinks, command under way | begin, handle | sessions | commands that cross, late answers | an answer belongs to its command |
| profile driver (`driver/sys`) | signalling and media channel, requests, inbound server | IOCTLs, completions, indications, PnP | Bluetooth stack, worker | all of these concurrently | never an outbound open, no lost channel, suspend returns |
| AVRCP handoff (`v1_avrcp_handoff_*.cpp`) | events, state file, staged package, PDO | handoff, restore, answer | daily host, handoff host, PnP | two processes, timeouts, answers that come late | an answer belongs to its request; Microsoft's driver comes back |
| AVRCP volume (`avrcp_absolute_volume_state.cpp`, `v1_avrcp_action_mapper.cpp`, `v1_avrcp_windows_sink.cpp`) | volumes, pending echoes, gate, deferred writes | observe either side, lease, session, poll | filter driver, endpoint | echoes of two asynchronous sides | both sides converge, no ping-pong |
| AVRCP filter driver and its host (`avrcp-filter/`, `v1_avrcp_filter_host.cpp`) | trace, sessions, fallback key | record, drain, poll | presence agent, Microsoft's driver | overflow, events of the link before | events belong to their connection, a key is answered once |
| AVRCP observer driver and host (`avrcp-sideband/`) | event queue, generation, pended reader | push, pop, begin and end generation | presence agent without volume sync | overflow, cancelled readers | not modelled, see below |
| daily configuration (`v1_daily_config_ipc.cpp`) | requested, pending, applied revision, file | request, take, mark applied | panel, presence agent | request between take and mark; restarts | an accepted request comes into force |
| monitors (`v1_media_session_monitor.cpp`, `v1_hfp_*_monitor.cpp`) | snapshot, subscriptions | refresh | Windows, presence agent | a change between reading and subscribing | a sleeping watcher has missed nothing |
| virtual audio endpoint (`audio-endpoint/`) | DMA position, PCM ring, leases, jack, link | stream states, notifications, reads, properties | Windows, worker, agent | clock, timer and reader at once; owners that vanish | one owner, reads see one generation |
| direct PDO (`direct-pdo/`) | session, action in progress, two channels, watchdog, arbiter, diagnostic | KS state, work item, disconnects, recovery, preemption, PnP | Bluetooth stack, endpoint driver | work item, callbacks and PnP stop concurrently | KS state and transport converge, one client per channel |
| adaptive bit rate (`engine/src/abr_controller.c`) | quality, warm-up, cooldown, clean run | one window | engines | thresholds | no flapping |
| codecs, DSP, direct engine, panel's window, tools | - | - | - | byte layouts, floating point, scripts | not modelled, see below |

`PROJECT.json` lists the same parts with their files and what of each is modelled, and under
`hazards` the places where this code can go wrong in a way a test would hardly reach.

## Modules

| Module | Stands for |
|---|---|
| `V1Lifecycle` | `ReduceV1Lifecycle` as operators: `Reduce(state, event)` is an answer with a state and actions; one operator per event |
| `LifecycleReducer` | the reducer under every sequence of events, with ledgers of engines and transports that the actions start and stop; `ReducerProofs` |
| `HfpSwitch` | `V1HfpSwitchState::Step` and the adapter that turns its decision into a lifecycle event |
| `LdacAuthority` | abstract specification: one licence to use the headset, bound to one connection, with a budget of opens |
| `PresenceAgent` | the agent's loop with worker, ACL watcher, player, microphone and radio; uses `V1Lifecycle` and `HfpSwitch`, implements `LdacAuthority`; `PresenceProofs` |
| `TransportDriver` | `driver/sys/connection.c` and `device.c`: IOCTLs, completions, indications, the rundown work item, PnP and file clean-up; `TransportDriverProofs` |
| `AvdtpSource` | the initiator of an AVDTP stream, as operators on one record |
| `StreamingSession` | `RunV1TransportPcmBurstOnce` with the daily worker's options beside headset, endpoint and host; uses `AvdtpSource`; `SessionProofs` |
| `BurstWorker` | the discovery, configuration and silence workers and their sessions; uses `AvdtpSource`; `ServicesProofs` |
| `MediaProcess` | `tools/transport_probe.c`: the process of the installed agent, from open to the way back; `ServicesProofs` |
| `WorkerProcesses` | the two beside each other, with the properties that both owe the headset and the host |
| `AbrController` | `engine/src/abr_controller.c`, one action per window; `ServicesProofs` |
| `LegacyAgent` | the supervision loop of `ldac_agent.cpp`; `ServicesProofs` |
| `EndpointLeases` | PCM owner and presence owner contracts, the adapter's link and presence states and their one timer; `ServicesProofs` |
| `EndpointStream` | the render stream's clock, DMA buffer and notifications, and the PCM ring with its reader; `ServicesProofs` |
| `AvrcpVolume` | reducer, gate, mapper, Windows sink and the filter host's poll, with the filter's trace, Microsoft's driver and the headset; `AvrcpVolumeProofs` |
| `AvrcpFilter` | the filter driver's trace and control device, the filter host and its fallback key; `ServicesProofs` |
| `AvrcpHandoffState` | the pure state machine `V1AvrcpHandoffState::Step` |
| `AvrcpHandoff` | daily host, handoff host, their named events, the shared state file and the PDO; `AvrcpHandoffProofs` |
| `DailyConfig` | panel, pipe, file, loop and restarts; `ServicesProofs` |
| `Monitors` | the media, capture and render watchers; `ServicesProofs` |
| `BthChannel` | the owner of one L2CAP channel of the direct-PDO driver, as operators |
| `DirectPdoSession` | its session and the dispatch owner that serializes the session's actions, as operators |
| `DirectPdo` | dispatcher, work item, both channels, disconnects, watchdog, recovery, packets and PnP stop; `DirectPdoProofs` |
| `SharedSignaling` | the arbiter, the diagnostic client, its preemption by the render client and the stop of both; `ServicesProofs` |

The `MC` modules instantiate these for TLC. `MCAvrcpVolume`, `MCAudioEndpoint` and
`MCDailyServices` each hold components that share no state, one of which moves in a behaviour.

### PresenceAgent

`phase` is the place of the single thread in `wmain`'s loop: `wait` is `WaitForMultipleObjects`;
`acl` drains the watcher's queue; `engine` and `event` are the two halves of
`PollContainedEngine`; `hfp`, `stop` and `retry` are the deadlines that follow in the code's order.
A handler is one action and contains all it does: it reduces the event, executes the actions,
publishes, archives, and clears gate, tracker and deadlines. Each call that can fail has a failing
branch that leads to `cleanup` with a cause in `fault`. `worker` holds the process and the host's
handles; the worker's steps, the ACL watcher, the player, the microphone and the stop event
interleave between any two handlers. Time is abstract: an armed deadline may or may not be due
at a wake.

### StreamingSession

The session is one thread: `pc` is the call it is in and each action is that call with every result it
can have. `src` is the AVDTP source, `result` what the run reports, `reader` the driver's handle with its
overlapped peer read, `pcm` the PCM source with its lease, the block read and the encoder; around them
`headset` and `wire`, the `endpoint` stream that plays, and `stop`, the host's two ways to end a
session (graceful and cancel). Audio is known by the
stream epoch it comes from, so a packet that mixes two streams shows. Gains, frames and times are left out: the
limits on retries, restarts and waits are counts, and a session's target length may be reached at any
packet. The daily worker's options are the ones checked (`PauseSuspend`, two gains); the world stops
once the session is over.

### BurstWorker, MediaProcess and LegacyAgent

A candidate worker is `burst`; every exchange is preceded by a look at the stop event and every failure goes through
`Finish`. The layout of the result file is left out.

`MediaProcess` is one thread too. `probe` is its place, label and flags, `speaker` the headset with its
commands, `tap` what it sees of the endpoint and last reported to it, `console` Ctrl+C and the agent's stop
event. A failed exchange does not advance the transaction label; peer commands it does not know abort the exchange; while
it streams it does not read them at all. The system and silence sources are one mode
whose source may fail. Not modelled: the diagnostics option, printing, argument parsing. `ProbeEndsClean` speaks
of the moment before the channels are closed. `AbrController` is checked by itself with the real
thresholds; to the stream a change of quality is an encoder that may refuse.

In `LegacyAgent` the lengths of waits are abstract, and a restarted agent has forgotten its gate. Not
modelled: verification of paths and hashes, logs, the state file, `--once`, and a process that outlives
its termination by five seconds.

### EndpointLeases and EndpointStream

A property request is two steps, under the owner's lock and then under the adapter's, with a place between them in
`call`; time passes in ticks of the adapter's timer. `EndpointStream` knows a byte by the linear position it was
played at, so the ring holds positions; a state change of PortCls is three steps beside the timer, position queries and
the reader. Modelled is the build without the prototype options. Left out: the topology and property tables,
`SetWritePacket` and `GetReadPacket` counters, and the truncation of notification intervals to milliseconds.

### AvrcpVolume and AvrcpFilter

With volume sync on, the presence agent runs the filter host (`v1_presence_agent.cpp:1813-1832`): Microsoft's driver
speaks with the headset, the filter records what completes, the host polls the trace and writes levels through the
filter. `host` is the place of `Poll`: events, deferred volume, deferred level, the callback's volume. Each
step ends where another thread may come in between: `SetWindowsVolume` is two calls of the
endpoint with a notice each, the read-back two calls after that. The state between the two calls, with the new
percentage and the old mute switch, is seen by the callback and may be sent to the headset; it settles with the
second notice. The endpoint's callbacks, the users of both sides, Microsoft's driver and the headset step in between.
Percentages and levels are small ranges converted with the code's own roundings; `headset_preferred` is TRUE,
as production sets it. A vendor's SetAbsoluteVolume is one with CHANGED; the reducer's
`outbound_echo_pending` is left out because nothing reads it.

The agreement is claimed unless one of these has happened (`excuses`): the headset was turned back to the level last
heard of it (`repeat`, the run `find_volume`), or (`other`)

* the trace overruns, with requests that tell no volume; an overrun by volumes alone is no excuse;
* the headset is turned while a level is on its way or deferred, or between a CHANGED and the next registration,
  which tells the change as INTERIM;
* a level is sent across a CHANGED that the host has not taken yet;
* a change of the endpoint is announced while it is bound, and the older volume that was read is published over it
  (`v1_avrcp_windows_sink.cpp:398`, `:438-453`);
* either of the two calls of a set fails, or the endpoint is absent when its volume is set;
* the read-back fails or finds no endpoint;
* a session begins and drops the level its mapper decides on (`Dropped`);
* a session ends with a volume or level deferred, which survives it.

Left out: routing of the pass-through keys, the bound of 128 events on one poll, packets that do not conform. The
endpoint's volume is read in one step when it is bound. A completion that the filter fails to record is like an
overrun. A headset whose capability was lost although its volume was heard leaves the reducer inactive, so that the
PC's volume is not sent (`v1_avrcp_filter_host.cpp:141-154`, `v1_presence_agent.cpp:1788`); that is one of the
overruns.

`AvrcpFilter` has the driver's trace with its capacity (128 in the code, which is also what one drain
takes), the host's sessions, and the one key it injects.

### TransportDriver

The unit of interleaving is a section under `SignalingLock`. `op` is the owner of `OperationLock`
and its step through a shutdown; `request` the requests the device context points to, with the
event each completion sets; `air` what the Bluetooth stack has. A completion that answers its
request before setting its event has two steps, because the application may call again between
them. The inbound server is unregistered by a work item (`rundown`). `lapses` is history:
which of the two things happened that the driver's account of its channels does not survive, a
BRB of a close that failed, or a registration beside a connected channel (below). Assumed of the application:
one request of each kind at a time and nothing beside `CLOSE_CHANNELS` except a read; of
KMDF: the power-managed queue delivers nothing while the device is down and waits for delivered
requests before it stops.

### AvrcpHandoff

`daily` is the part of the presence agent that asks for the observer driver; `host` is the other
process with its state machine; `signalled` and `file` are the named events and the state file,
`pdo` is what PnP runs on the headset's AVRCP device. The file and the event of an answer are
two steps that may each fail, each wait may time out, the PDO may be absent or have a problem, and a PnP call may fail
(`gaveUp` records that a restore ended without Microsoft's driver: the operating system refused it, or the host did not know
which package to delete). Left out: `--once` mode, what runs over a bound
observer, and crashes of either process.

### DirectPdo and SharedSignaling

`owner` is what the dispatcher keeps under its spin lock, `channel` what each channel keeps under its
own; `BthChannel` and `DirectPdoSession` are their transition functions, so that an action of the
module is the call of one of them with what the surrounding code does to the rest. `worker` is the
place of the work item in `NldDirectPdoDispatcherWorker` and the functions it calls; `opening` is the
open request of a channel with the worker that ends it, `closing` the thread that closes under the
`OperationMutex`; `notices` are disconnect callbacks fetched under the channel's lock and not yet
called; `air` says which channels exist. `stopping` is `NldDirectPdoDispatcherStop`, including the two
channel stops it ends with. Left out: the AVDTP commands (an exchange succeeds or fails, and succeeds
only over an open channel), the timer that schedules the watchdog (it may fire whenever it is armed), a
second PnP lifetime, and the wrap of 32-bit generations. The render client has the arbiter to itself here.

`SharedSignaling` is the arbiter's own module: the render dispatcher and the diagnostic worker on one channel, the
preemption of the second by the first, and the PnP stop of both. The tree has no production caller of
the diagnostic's discovery yet (`direct-pdo/README.md:155`, `:171`); its requests come at any time.

## Runs

| Run | Question | Bounds, and why they suffice |
|---|---|---|
| `lifecycle_reducer` | Does the reducer keep its contract under every sequence of events? | Budgets 1 and 3, all four policy combinations, generations wrap at 2. The code compares generations only for equality with the current one, so two values reach every outcome. |
| `presence_daily` | Does the host ever break its own protocol: second worker, second authorization, local stop of an open worker, dead retry, stale gate, lost demand? Is everything released after a disconnect, does playback start, is a played session closed, unless it is kept for a paused player? | The media monitor is on, as in the daily host, and may report Paused. Two connections of one generation, so that a stale value of the first is taken for the second's if nothing cleared it; two queued ACL events: a disconnect and the reconnect behind it. Budget 2: one retry and its exhaustion; `lifecycle_reducer` has larger ones. |
| `presence_hfp` | With calls and a paused player: is only the current connection's worker authorized, and does the host implement `LdacAuthority`? | Budget 2, two connections. |
| `streaming_session` | Is a packet ever made of two streams, or sent to a headset that does not stream? Is what a run leaves what it says it leaves? Does a stop end it? | Two endpoint epochs of either format: a restart in the same and in another format. One command of the headset's own, one format restart, two tries of a media write. At two epochs the limit of rebinds is not reached. |
| `audio_endpoint` | Does the reader get what was played, in order and of one stream? Does a read keep its lease, a lease its holder, a client's end no trace? | Two clients, leases of one and two ticks. A ring of three frames, of which one read takes two, sixteen bytes played in two epochs, a timer up to one interval late: wrap-around, overflow, pause and a late reader occur. |
| `avrcp_volume` | Do the two volumes settle and agree? Does the installed agent reconnect once per disconnect? Has the signaling channel one client? | Three percentages and five levels (two levels are one percentage, and rounding shows); a trace of two, which overflows; two actions of users, links and failing calls. Also checked with two percentages, three levels and three actions (5.5 million states), and by simulation with eight. Two sessions and two edges of the link for the installed agent. |
| `daily_services` | Do candidate workers and the media process leave what they report, and end when told? Does an accepted quality come into force? Does a sleeping watcher know the truth? Are keys of one link kept from the next? Does the bitrate flap? | Two revisions (an accepted one and the one that overtakes it) and restarts; two audio sessions; two connections with one key and a trace of three; one packet, one peer command and one command of the headset's own per process; the real thresholds of the bitrate. |
| `transport_driver` | Does the driver never open a channel itself, never lose one, and never keep its server up beside a channel? | Two channels from the headset, a media open and a media write, one suspend, one late event per completion. The second channel is what an orphan or a stale server needs. |
| `find_shutdown` | A suspend that does not return. | One read. |
| `find_volume` | A turn of the headset that Windows does not follow. | Two percentages, three levels, three actions. |
| `avrcp_handoff` | Is an answer ever taken for another request's, and is the observer ever left behind? | Two connections. The observer is followed through faults of the PDO during these; the state file may be unreadable during the first. |
| `direct_pdo` | Is every channel somebody's, is an open session backed by channels and watched while it streams, does the worker rest only when there is nothing to do, does a PnP stop return and leave nothing? | Two open attempts of five (one retry, one exhaustion), five KS changes (start, pause, start again and stop), one loss, one recovery, one packet: after the loss the session is played again within the bounds. The safety part was also checked with six KS changes and two losses (1.7 million states). |

`CHECK_DEADLOCK FALSE` stands where a bounded world stops: the users, links or counters of these
instances are used up.

The `find_*` runs are expected to end with a violation; `findings` in `PROJECT.json` quotes the
line each one refutes:

* a suspend waits for ever for a read that had claimed its slot when the cancel came by and had not
  been sent yet;
* a headset that is turned back to the level last heard of it, after the PC gave it another one, is not followed.

## Further disagreements

Met on the way, without a run of their own. Where a definition is named it states the claim, and TLC refutes
it on the module's instance.

Presence agent and lifecycle:

* a headset that is connected before the agent starts is not published until it reconnects, since the
  watcher only subscribes to changes and the sink refuses a disconnect of generation 0 (`v1_presence_agent.cpp:2610`,
  `docs/XM5_PHONE_LIKE_PRODUCT_PLAN.md:46`, `:50`; `AttachedHeadsetIsPublished`);
* a playback that ends while the transport is being opened is tolerated without a bound, and the
  worker then streams with no session (`v1_lifecycle.cpp:124`, `docs/MEDIA_EVENT_LIFECYCLE.md:46`, `:74`; `PlaybackEndCloses`);
* a session whose end of playback was attributed to a paused player is kept open, and is not closed either when that
  player leaves afterwards: the tracker has been told of the silence already, so nothing starts the deadline again
  (`v1_presence_agent.cpp:1932-1946`, `docs/MEDIA_EVENT_LIFECYCLE.md:74`; `PlayedSessionCloses` excepts it, `KeptForPause`);
* a call that ends while nothing is played never resumes LDAC: the switch asks for the resume only with
  demand and asks once, and a later playback finds the reducer still suspended, until the headset
  reconnects (`v1_hfp_switch_state.cpp:98`, `v1_lifecycle.cpp:104`, `docs/MEDIA_EVENT_LIFECYCLE.md:86`);
* a media failure is final for the playback, where the document has three or four tries
  (`v1_lifecycle.cpp:275`, `docs/MEDIA_EVENT_LIFECYCLE.md:76`).

Streaming session:

* a packet of the headset whose read completes between the look at it and the cancel of the read is dropped
  (`v1_transport_pcm_session.cpp:1487`, `:2231`);
* the headset's CLOSE that crosses our SUSPEND ends the session as a protocol failure;
* a graceful stop that arrives while a write is tried again ends it as a backend failure, with neither SUSPEND nor
  CLOSE (`v1_transport_pcm_session.cpp:943`);
* a START that is answered too late leaves `cleanup_required` unset, and `EndsAccounted` excepts it; in the same way
  the media process does not ABORT a configuration answered too late;
* with a single gain no epoch is checked, so a packet may hold two streams.

Profile driver:

* the driver sets a completion's event after it answered the request (`connection.c:1896`), so that
  a request may be back with the application while its event is still unset, and `OPEN_SIGNALING` may
  register the server again beside a suspend (`connection.c:813`, `docs/TRANSPORT_ABI.md:16`);
* a registration does not look at the signaling channel (`connection.c:150`), so a server that a suspend left
  registered is declared fresh by the restart although its channel is still connected. The CLOSE whose BRB races
  with the loss of that channel and a new indication then forgets the new one (`connection.c:1400`).
  `NoOrphanChannel` and `ConnectedDrains` except this (`"refreshed" \in lapses`).

Virtual endpoint:

* an accepted link session is lost to another client while its link is up, between the look at the owner and the look at the
  link (`docs/CODE_AUDIT_2026-07-19.md:189`; `LinkSessionHolds`);
* link and presence share one five-second timer that each request starts again, and a query between a presence's
  expiry and the timer reads "unplugged" while the heartbeat after it sends no jack event (`common.cpp:1060`, `:1086`);
* a read that never ends keeps its lease for ever (`nativeldac_pcm_owner_contract.c:22`);
* at 44.1 and 88.2 kHz the position advances by bytes that are not whole frames (`minwavert.cpp:551`), a full ring cuts a frame, and neither
  is counted (`audio-endpoint/README.md:19`); `ConsumedIsWritten` fails with `Rate = 3`. STOP does not
  reset the carry of the clock (`minwavertstream.cpp:1181`).

AVRCP:

* the excuses listed under AvrcpVolume;
* a level kept from an earlier session is written to a new connection before its headset was heard
  (`v1_avrcp_windows_sink.cpp:144`, `v1_avrcp_filter_host.cpp:175-178`; `SpeaksAfterHearing`);
* after a call the filter host's fallback has generation 0, which a new session of the same connection does not restore
  (`v1_avrcp_filter_host.cpp:155`, `docs/MEDIA_EVENT_LIFECYCLE.md:34`); its PLAY is the toggle
  `VK_MEDIA_PLAY_PAUSE`, and a PAUSE seen after Microsoft acted on it counts as a wish to play and is undone (`FallbackIsWanted`);
  a filter device that was removed and came back leaves a dead handle; events of a new connection before the drain are dropped;
* a handoff that failed is staged again by the same request, since the media flag is never taken back inside the loop
  (`v1_avrcp_handoff_host.cpp:392`, `v1_avrcp_handoff_state.cpp:34`; `FailedHandoffIsFinal`);
* a restore request that waited is served after a handoff that was accepted meanwhile, under the
  new session's lease (`v1_avrcp_handoff_ipc.cpp:564`); an activation is attempted after a refused handoff; a restore
  that finds Microsoft's driver bound leaves the staged package in the driver store.

Legacy agent and services:

* a restarted agent forgets its reconnect gate, and a process that ends between the poll of the
  configuration and its graceful stop counts as a restart for the configuration, so no gate is armed; the agent's log says that
  reconnection is blocked until the old transport interface disappears (`ldac_agent.cpp`);
* the capture watcher reads a session's state before it asks for its notifications, and does not look again at a session
  that refused them or would not tell its state; `SleeperIsCurrent` excepts these. A media watcher whose WinRT call throws ends for good;
* a configuration file that is unreadable at the start loses what it promised; `PromiseIsKept` excepts it.

Direct PDO:

* a START or SUSPEND that fails leaves the channels open and the render client in possession of the arbiter, and every
  recovery request is busy until PnP stops the device (`nativeldac_direct_pdo_dispatcher.c:488`, `:769`,
  `direct-pdo/README.md:19-20`, `:112-115`; `FaultIsRecoverable`);
* a media packet that was validated before its stream was closed and opened
  again is written on the new channel, since a channel's generation moves only on PnP start and on a
  loss (`nativeldac_bth_signaling.c:751`, `direct-pdo/README.md:182-184`); for a loss
  `NoWriteAcrossLinks` shows that it is not;
* a disconnect callback ignores which channel it was fetched for, so one that is called after the
  channel was closed and opened again ends the newer session and closes its channels
  (`nativeldac_direct_pdo_dispatcher.c:60`; `direct-pdo/README.md:96-97`: "Stale and duplicate
  disconnects cannot mutate a newer channel"). The channel's own check of the generation keeps it
  from changing the channel directly;
* an expired watchdog asks for the close, and packets are accepted until that close begins
  (`nativeldac_direct_pdo_dispatcher.c:1177`, `direct-pdo/README.md:100-102`);
* the render client is refused although the diagnostic has just released the channel
  (`direct-pdo/README.md:169-172`; `FreeChannelIsTaken`); after a diagnostic close that failed the lease is kept until the PnP
  stop and both clients find the device busy; a second close of a faulted channel counts as success.

## Fairness

* `PresenceAgent`, `Scheduling`: the host's and the worker's threads run, an open attempt ends
  (its I/O has timeouts), an idle worker expires after ten minutes. `Clock`: a poll that is
  asked for again and again, and a deadline that stays armed, are found due some time (strong
  fairness, because other wakes come in between). No failure is ever forced. The liveness
  properties start from `settled`: user and radio leave things alone.
* `StreamingSession`, `BurstWorker`, `MediaProcess`: the process's own thread runs on; each of its waits has a timeout, so
  every call ends with some result. Headset, endpoint and host are never forced.
* `DailyConfig`: a daily instance is started again, its loop takes what is pending, engines end; the loop's mark is strongly
  fair, since a newer request may come in between any number of times.
* `EndpointLeases`: time passes, the timer fires and a request that was begun ends.
* `TransportDriver`: threads, work item and completions run, and requests with a timeout complete.
  A read has none, so it completes only when it is cancelled or its channel is gone. The answer to a headset's
  connection has none either; the Bluetooth stack is assumed to end it.
* `AvrcpHandoff`: each process goes on with what it can do alone, including the daily host's poll of
  an active session.
* `DirectPdo`: work items run on, a callback that was fetched is called, an open that was cancelled is
  answered and a PnP stop goes on. The headset may leave any open unanswered (the driver waits with a
  timeout); disconnects, KS changes, recoveries, the watchdog and the stop itself are never forced.

## Proofs

Every theorem is about the specification of a component's module with arbitrary constants: any number of
connections, requests, retries, stream epochs and bounds, under the assumptions named in the modules (ranges of
numbers, sets that are not empty). Each proof has an inductive invariant, checked by TLC first, a lemma per
action under it, and a theorem that names it; the properties of the runs follow from it.

* `ReducerProofs` has one lemma per event on the reducer's answer, and on top the reducer under
  every sequence of events: `TypeCorrect`, `LifecycleConsistent`, `OpensBounded`, `RetriesStart`,
  `EngineLedgerKept`, `TransportLedgerKept`. The induction runs over `LedgerTypeOK /\ ConsistentLifecycle`;
  an engine is only doubled or lost, and an open only uncounted, in records no event sequence reaches.
  `OpensBounded` rests on `OpensCovered`, which ties the history of opens to the record's own counter while
  the headset is there.
* `PresenceProofs`: `HostIsCoherent`, `HostIsSafe`, `OwnershipIsKept`, `HostKeepsAuthority`. They hold with the media monitor and without. `HostInv` says what
  the host's four records of one connection mean for each other between two handlers: the reducer's lease and
  the handle are those of one process (`Contains`), the gate guards a worker that is ready and not authorized
  (`Guards`), tracker and deferred stop are the demand (`Tracks`), an armed retry is paid for (`Retries`), and
  the watcher's queue alternates and ends with the link (`Announces`), so that a connection it announces finds
  no headset. A handler may break any of them halfway; each is one action and ends in them or in `cleanup`.
  The refinement maps every step to one of `LdacAuthority`'s or to a stutter: an authorization is a new
  licence because the gate's worker has none, and is of the current connection because gate, worker and
  record have one generation.
* `TransportDriverProofs`: `NeverOutbound`, `ChannelsFit`, `ChannelsHold`. `OpenInv` says that the server is armed,
  that is registered or draining, from the moment `OPEN_SIGNALING` saw its ready flag up to the claim. `ChannelInv`
  adds where the two opens are when a channel is in a state: one that is up or being closed has no other on
  its way (`SignalingSide`, `MediaSide`), whoever closes keeps the application out (`OwnerSide`), and before the
  first suspend a registration finds no channel (`FreshSide`). The proof found the two `lapses`: without
  them the sides are not inductive, and TLC shows why.
* `AvrcpHandoffProofs`: `HandoffTypeCorrect`, `ReadyIsAnswered`, `HandoffFits`, `ObserverIsNotForgotten`. The
  answer in the file was given for the generation it names (`AnswersAreTrue`). `HInv` is an argument about
  promises: an observer that is bound, and a handoff that is asked for, is in use (`Engaged`), or a restore
  is posted, or the handoff host is on the way back, which ends only with Microsoft's driver or with the
  operating system's refusal.
* `AvrcpVolumeProofs`: `VolumeTypeCorrect`, `GenerationsAdoptOnce`. `VolumeInv` is the shape of the records, with the
  trace's bound and the roundings' ranges (by division lemmas, for any scale with more levels than
  percentages, as 127 and 100), and `Adopts`: a mapper that took a level unasked has heard the headset in its
  generation, and forgets neither before the next one.
* `DirectPdoProofs`: `ConsistentOwners`, `SessionFits`, `SessionHolds`, `PacketsStayOnTheirLink`. What the tests
  assert of a record after a call is not inductive: the operators keep the stronger `OwnerInv` and
  `ChannelInv`, one lemma per operator. Two calls need the driver around them: a result is only applied
  while an action is active, which the place of the worker tells (`OwnerSide`), and a plain close of an
  offline channel never comes, since the stop takes channels offline after the worker is idle and nothing
  queues it again (`ChannelSide`). `SInv` adds what the worker has already done at each of its places
  (`WorkerSide`), to which link requests, notices and packets belong (`LinkSide`, `PacketSide`), and
  how far the stop is (`StopSide`).
* `SessionProofs`: `RunFits`, `MediaIsOfOneStream`, `RunsEndAccounted`. `RunInv` follows the run: during an exchange
  the headset owes the answer to the source's own command or has given it once, and its stream is what it was
  before or what the answer makes of it (`ExchangeSide`); between exchanges both sides agree (`RestSide`).
  `LeaseSide` and `ReaderSide` say where lease and handle are held, `CleanupSide` what the run has already said
  of a stream it may leave, `PcmSide` that streams only get newer and that what was encoded is of
  the stream the lease is bound to. `SaidSide` counts the headset's commands through wire and read, which keeps the
  counter in its range.

* `ServicesProofs`: eleven theorems about the services beside the session, which share no state; each part has an
  invariant of its own.
  `ReadKeepsIt`, `ConsumerKeepsIt`: only one thread is between the begin and the end of a read (`OneRead`), and
  no other request, expiry or exit takes reading mark or owner from it (`KeepsReader`).
  `QualityStaysAgreed`: what the loop has applied and what it has still to take is never newer than what the
  server accepted last (`InOrder`), so that a revision names one quality. `SleepersAreCurrent`: what a monitor has bound,
  heard and counted at each place of its round is the world's unless its event is set already (`CountsCurrent`,
  `FollowsCurrent`, `SeesEndpoint`). `ChannelStaysWithItsClient`: lease, channel and the two owners
  agree after every lock section (`LeaseIsKept`, `DiagnosticIsKept`). `ReconnectsStayFresh`: a session that ended by
  itself is not heard of yet, or its gate is armed (`OwesAbsence`), and recoveries are paid for by disconnects
  the loop saw, or will never see (`EdgesSuffice`). `KeysFeedTheirConnection`: what the host has heard of and the
  reports on their way are together no more than the connections there were (`HeardInTurn`), so that no key
  that is recorded is older than the connection the trace was emptied for (`TraceIsOurs`), and a key that
  waits for its PLAY has left the trace and was not answered (`PendingIsNew`, `AnsweredAreGone`). That the
  first of several keys exists uses the library's theorem that the numbers are well founded.
  `RingStaysFaithful`, `RingCountsEveryByte`: a byte is named by its distance from the start of the epoch, so that
  writing, overwriting and reading the ring are shifts of one interval modulo the capacity; the bytes counted are
  the interval's ends. `WholeFrames` is a hypothesis of the first and excludes 44.1 and 88.2 kHz, where the code
  cuts frames (see Further disagreements); the second holds at every rate. `BitrateAdaptsSlowly`: the three counters
  are the windows since the last change, as far as a threshold is concerned.
  `ProcessesStayClean`: `BurstInv` ties a candidate worker's result to the last command its source has seen answered
  (`ToldSoFar`) and a full burst to the suspend (`PlayedFirst`); a report of success or of a retry is of a session that is
  over and in that state (`BurstReported`). `ProbeInv`: as long as the media process may still report success, what
  is under way on the channel is its one command or the one answer to it (`AtMostOne`), and the headset that said
  yes to the end of its stream has none (`TakenBack`). After an exchange that went unanswered neither is claimed.

Only model-checked: all liveness, since the prover has no fairness, and `VolumesSettle`, that the two volumes come
to rest and agree. Its type part is `VolumeTypeCorrect`; the agreement would need an invariant of everything that may
be under way between the two endpoint calls, the trace and the air. Every other invariant and every action property
of the runs that pass is also a theorem for all constants.
No module that is proved about uses a recursive operator.

## Not modelled

* The LDAC encoder, limiter and fades: floating point.
* Byte layouts of AVRCP, RTP and LDAC frames, HCI and property structures, the result and state files' JSON.
* The AVRCP observer: its driver's device and queue (`avrcp-sideband/`) and its host (`v1_avrcp_observer_host.cpp`). The agent
  opens it only with volume sync off (`v1_presence_agent.cpp:1540`), where its mapper only observes.
* The direct engine (`engine/windows/ldac_direct_engine.cpp`): it pumps PCM into the media entry that `DirectPdo` models from
  the driver's side.
* The direct-PDO driver's request wrappers (timeouts, transfer owner, profile queries): an exchange that succeeds or fails
  stands for them.
* The vendor's audio sample (topology, property tables, tone generator), the panel's window, build, install and probe
  scripts.
* Crashes of the two AVRCP processes, a second PnP lifetime of the direct-PDO dispatcher, wrap of its 32-bit generations.

WinRT and WASAPI appear as the events and readings they deliver.

## Plan

1. Done: `V1Lifecycle`, `HfpSwitch`, `PresenceAgent` with `LdacAuthority`; `TransportDriver`; `AvrcpHandoff`;
   `BthChannel`, `DirectPdoSession` and `DirectPdo`; their first proofs.
2. Done: `AvdtpSource`, `StreamingSession`, `BurstWorker`, `MediaProcess`, `LegacyAgent`; `EndpointLeases`,
   `EndpointStream`; `AvrcpVolume`, `AvrcpFilter`; `DailyConfig`, `Monitors`, `AbrController`,
   `SharedSignaling`.
3. Done: the inductive invariants of the core modules, with every safety property the runs check of them, and the
   refinement of `LdacAuthority`.
4. Done: the safety of the services around the session (`ServicesProofs`); types and adoption of absolute volume
   (`AvrcpVolumeProofs`).
5. To prove: the agreement of `VolumesSettle`. To model: the direct engine, the transfer owner and request timeouts of the
   direct-PDO driver.
