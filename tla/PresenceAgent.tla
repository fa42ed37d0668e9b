--------------------------- MODULE PresenceAgent ---------------------------
(***************************************************************************)
(* The daily host of Native LDAC: agent/v1_presence_agent.cpp, with the    *)
(* contained worker process it drives through agent/v1_engine_ready_host   *)
(* and the ACL watcher thread that feeds it.                               *)
(*                                                                         *)
(* The host is one thread.  It waits for an ACL event, a stop request or   *)
(* its next deadline; a deadline wakes the handlers of the timeout branch  *)
(* in a fixed order.  "phase" is the host's place in that loop, and every  *)
(* handler is one action.  The worker process, the Bluetooth radio, the    *)
(* audio endpoint and the user run beside it and may step between any two  *)
(* handlers.                                                               *)
(*                                                                         *)
(* Time is abstract: a deadline that is armed may be found due, or not, at *)
(* any wake.  An I/O call that can fail may fail at any call.  The AVRCP   *)
(* control path and the configuration pipe, which the same loop also       *)
(* serves, share no state with what is modelled here except the calls that *)
(* end the agent, and are left out.                                        *)
(***************************************************************************)
EXTENDS V1Lifecycle, HfpSwitch, Sequences

CONSTANTS
    MaximumOpenAttempts,   \* kV1MaximumPcmTransportOpenAttempts
    HfpTransportSwitch,    \* --hfp-transport-switch was given
    MediaMonitor,          \* the GSMTC monitor is ready and may report Paused
    MaxConnects            \* bound: ACL connections the environment makes

ASSUME AgentConstants ==
    /\ MaximumOpenAttempts \in AttemptLimits
    /\ HfpTransportSwitch \in BOOLEAN
    /\ MediaMonitor \in BOOLEAN
    /\ MaxConnects \in Nat \ {0}
    /\ HfpTransportSwitch => MaxConnects <= GenerationLimit

VARIABLES
    phase,          \* where the host's loop is
    fault,          \* why the host gave up, "none" while it has not
    lc,             \* state.lifecycle
    tracker,        \* state.render_tracker
    stopPending,    \* state.render_stop_pending, with its deadline
    retryArmed,     \* transport_retry_deadline # 0
    gate,           \* state.transport_open_stability
    hfp,            \* hfp_shadow_state
    endpoint,       \* the audio endpoint is published as present
    worker,         \* the contained process and the host's handles on it
    acl,            \* the watcher's queue of ACL events
    link,           \* the physical ACL link is up
    connects,       \* history: how often it came up
    player,         \* what the user's player does with the endpoint
    mic,            \* some application captures from the headset
    stopRequested,  \* the daily stop event is set
    settled         \* the user and the radio will not change anything more

hostVars == <<phase, fault, lc, tracker, stopPending, retryArmed, gate, hfp,
              endpoint>>
envVars  == <<link, connects, player, mic, stopRequested, settled>>
vars     == <<hostVars, worker, acl, envVars>>

-----------------------------------------------------------------------------
HostPhase == {"wait",     \* WaitForMultipleObjects
              "acl",      \* draining the watcher's queue
              "engine",   \* PollContainedEngine: handshake and stability gate
              "event",    \* PollContainedEngine: worker events and exit
              "hfp", "stop", "retry",   \* the other deadlines, in their order
              "cleanup", "done"}

Fault == {"none", "sink", "generationZero", "renderQuery", "engineStart",
          "busy", "readyTimeout", "alreadyAuthorized", "authorization",
          "workerDied", "stopFailed", "localStopAfterOpen", "archive",
          "stateFile"}

\* Outcomes of calls the host made at a time when it must not make them.
ProtocolFault == {"busy", "alreadyAuthorized", "localStopAfterOpen"}

WorkerPhase == {"none", "booting", "waiting", "opening", "streaming",
                "parked", "exited"}

Signal == {"ready", "retryable", "failed", "started"}

Worker ==
    [phase      : WorkerPhase,
     generation : 0..GenerationLimit,
     ready_seen : BOOLEAN,       \* ready_observed_
     authorized : BOOLEAN,       \* transport_open_authorized_
     signals    : SUBSET Signal] \* events set and not yet observed

NoWorker ==
    [phase |-> "none", generation |-> 0, ready_seen |-> FALSE,
     authorized |-> FALSE, signals |-> {}]

NewWorker(generation) ==
    [NoWorker EXCEPT !.phase = "booting", !.generation = generation]

\* V1EngineReadyHost::active: there is a process handle, alive or not.
EngineActive == worker.phase # "none"
WorkerAlive  == worker.phase \notin {"none", "exited"}

Gate == [pending : BOOLEAN, observing : BOOLEAN, generation : 0..GenerationLimit]
NoGate == [pending |-> FALSE, observing |-> FALSE, generation |-> 0]

Tracker == [stable : BOOLEAN, candidate : BOOLEAN]
IdleTracker == [stable |-> FALSE, candidate |-> FALSE]

AclEvent == {"Connected", "Disconnected"}
MaxQueue == 2   \* bound: ACL events waiting at a time

TypeOK ==
    /\ phase \in HostPhase
    /\ fault \in Fault
    /\ lc \in LifecycleState
    /\ tracker \in Tracker
    /\ stopPending \in BOOLEAN
    /\ retryArmed \in BOOLEAN
    /\ gate \in Gate
    /\ hfp \in HfpSwitchState(0..GenerationLimit)
    /\ endpoint \in BOOLEAN
    /\ worker \in Worker
    /\ acl \in Seq(AclEvent) /\ Len(acl) <= MaxQueue
    /\ connects \in 0..MaxConnects
    /\ player \in {"absent", "paused", "playing"}
    /\ <<link, mic, stopRequested, settled>> \in
           BOOLEAN \X BOOLEAN \X BOOLEAN \X BOOLEAN

\* The headset may already be connected when the agent is started at logon.
Init ==
    /\ phase = "wait"
    /\ fault = "none"
    /\ lc = InitialState(MaximumOpenAttempts, TRUE, TRUE)
    /\ tracker = IdleTracker
    /\ stopPending = FALSE
    /\ retryArmed = FALSE
    /\ gate = NoGate
    /\ hfp = InitialHfpSwitch
    /\ endpoint = FALSE
    /\ worker = NoWorker
    /\ acl = <<>>
    /\ link \in BOOLEAN
    /\ connects = 0
    /\ player = "absent"
    /\ mic = FALSE
    /\ stopRequested = FALSE
    /\ settled = FALSE

-----------------------------------------------------------------------------
(***************************************************************************)
(* Executing the reducer's answers.                                        *)
(***************************************************************************)
Continue(next) == phase' = next /\ UNCHANGED fault
Fail(cause)    == phase' = "cleanup" /\ fault' = cause

StopMode(acts) ==
    IF "CancelTransport" \in acts THEN "CancelTransport"
    ELSE IF "GracefulStopTransport" \in acts THEN "GracefulTransport"
    ELSE "LocalOnly"

\* The worker can still answer a stop with exit code 0.  Once it has taken the
\* authorization it refuses a stop that does not say what to do with the
\* transport (exit code 10).
Stoppable(mode) ==
    /\ WorkerAlive
    /\ mode = "LocalOnly" => worker.phase \in {"booting", "waiting"}

\* The event StopContainedEngine reduces after a clean stop.
AfterStop(s, mode) ==
    CASE mode = "GracefulTransport" -> Reduce(s, "MediaStopped").state
      [] mode = "CancelTransport"   -> s
      [] mode = "LocalOnly"         -> Reduce(s, "EngineExited").state

\* Mutant: a stop leaves the stability gate as it was.
ExecuteKeepingGate(s, acts) ==
    \/ /\ "StartEngine" \in acts
       /\ ~EngineActive
       /\ worker' = NewWorker(s.acl_generation)
       /\ lc' = s
       /\ UNCHANGED gate
    \/ /\ "StopEngine" \in acts
       /\ EngineActive => Stoppable(StopMode(acts))
       /\ worker' = NoWorker
       /\ lc' = IF EngineActive THEN AfterStop(s, StopMode(acts)) ELSE s
       /\ UNCHANGED gate
    \/ /\ acts \cap {"StartEngine", "StopEngine"} = {}
       /\ lc' = s
       /\ UNCHANGED <<worker, gate>>

\* ExecuteEngineActions returns true; s is the state the reducer answered with.
ExecuteEngineActions(s, acts) ==
    \/ /\ "StartEngine" \in acts
       /\ ~EngineActive
       /\ worker' = NewWorker(s.acl_generation)
       /\ lc' = s
       /\ UNCHANGED gate
    \/ /\ "StopEngine" \in acts
       /\ EngineActive => Stoppable(StopMode(acts))
       /\ worker' = NoWorker
       /\ lc' = IF EngineActive THEN AfterStop(s, StopMode(acts)) ELSE s
       /\ gate' = NoGate
    \/ /\ acts \cap {"StartEngine", "StopEngine"} = {}
       /\ lc' = s
       /\ UNCHANGED <<worker, gate>>

\* ExecuteEngineActions returns false.  A stop that failed has closed the
\* process handle and with it the job that contains the worker.
ExecutionFails(s, acts) ==
    \/ /\ "StartEngine" \in acts
       /\ Fail(IF EngineActive THEN "busy" ELSE "engineStart")
       /\ lc' = s
       /\ UNCHANGED <<worker, gate>>
    \/ /\ "StopEngine" \in acts
       /\ EngineActive
       /\ Fail(IF WorkerAlive /\ ~Stoppable(StopMode(acts))
               THEN "localStopAfterOpen" ELSE "stopFailed")
       /\ worker' = NoWorker
       /\ lc' = s
       /\ gate' = NoGate

\* The place of the loop after the engine poll, and after the HFP poll.
Deadlines(sp, ra) ==
    IF sp THEN "stop" ELSE IF ra THEN "retry" ELSE "wait"
AfterEngine(sp, ra) ==
    IF HfpTransportSwitch THEN "hfp" ELSE Deadlines(sp, ra)

-----------------------------------------------------------------------------
(***************************************************************************)
(* ACL events.                                                             *)
(***************************************************************************)
AclWakes ==
    /\ phase = "wait"
    /\ acl # <<>>
    /\ Continue("acl")
    /\ UNCHANGED <<lc, tracker, stopPending, retryArmed, gate, hfp, endpoint,
                   worker, acl, envVars>>

\* The sink refuses a generation of 0; otherwise the property call may fail,
\* before or after it took effect.
PublishFails(present, generation) ==
    IF generation = 0
    THEN Fail("generationZero") /\ UNCHANGED endpoint
    ELSE Fail("sink") /\ endpoint' \in {endpoint, present}

\* One round of the loop that drains the queue: reduce, execute, archive a
\* cancelled attempt, publish, then forget what belonged to the connection.
HandleAclEvent ==
    /\ phase = "acl"
    /\ acl # <<>>
    /\ acl' = Tail(acl)
    /\ LET connected == Head(acl) = "Connected"
           answer    == Reduce(lc, IF connected THEN "AclConnected"
                                                ELSE "AclDisconnected")
           publishes == answer.actions \cap {"PublishEndpointPresent",
                                             "PublishEndpointAbsent"} # {}
       IN  \/ /\ ExecutionFails(answer.state, answer.actions)
              /\ UNCHANGED <<tracker, stopPending, retryArmed, endpoint>>
           \/ /\ ExecuteEngineActions(answer.state, answer.actions)
              /\ \/ /\ "CancelTransport" \in answer.actions
                    /\ Fail("archive")
                    /\ UNCHANGED endpoint
                 \/ /\ publishes
                    /\ PublishFails(connected, lc'.acl_generation)
              /\ UNCHANGED <<tracker, stopPending, retryArmed>>
           \/ /\ ExecuteEngineActions(answer.state, answer.actions)
              /\ publishes => lc'.acl_generation # 0
              /\ endpoint' = IF publishes THEN connected ELSE endpoint
              /\ tracker' = IdleTracker
              /\ stopPending' = (stopPending /\ connected)
              /\ retryArmed' = (retryArmed /\ connected)
              /\ Continue("acl")
    /\ UNCHANGED <<hfp, envVars>>

AclDrained ==
    /\ phase = "acl"
    /\ acl = <<>>
    /\ Continue("wait")
    /\ UNCHANGED <<lc, tracker, stopPending, retryArmed, gate, hfp, endpoint,
                   worker, acl, envVars>>

-----------------------------------------------------------------------------
(***************************************************************************)
(* The timeout branch.  An ACL event or a stop request that is already     *)
(* there wins over it.                                                     *)
(***************************************************************************)
TimeoutWakes == phase = "wait" /\ acl = <<>> /\ ~stopRequested

\* The render and engine polls are not due, or there is no headset.
SkipRenderPoll ==
    /\ TimeoutWakes
    /\ AfterEngine(stopPending, retryArmed) # "wait"
    /\ Continue(AfterEngine(stopPending, retryArmed))
    /\ UNCHANGED <<lc, tracker, stopPending, retryArmed, gate, hfp, endpoint,
                   worker, acl, envVars>>

\* The state file, which every change is written to, cannot be written: found
\* when the handler that changed something is done.
StateWriteFails ==
    /\ phase \in {"wait", "acl"}
    /\ Fail("stateFile")
    /\ UNCHANGED <<lc, tracker, stopPending, retryArmed, gate, hfp, endpoint,
                   worker, acl, envVars>>

\* The presence heartbeat or the render query fails for good.
PollFails ==
    /\ TimeoutWakes
    /\ Present(lc)
    /\ \E cause \in {"sink", "renderQuery"} : Fail(cause)
    /\ UNCHANGED <<lc, tracker, stopPending, retryArmed, gate, hfp, endpoint,
                   worker, acl, envVars>>

\* The render query failed transiently: this sample is unknown.
RenderUnknown ==
    /\ TimeoutWakes
    /\ Present(lc)
    /\ Continue("engine")
    /\ UNCHANGED <<lc, tracker, stopPending, retryArmed, gate, hfp, endpoint,
                   worker, acl, envVars>>

\* The endpoint's RUN state: some application renders to it.
Rendering == player = "playing"

\* ObserveV1RenderDemand: a change counts once two samples in a row show it.
Confirms(active) == active # tracker.stable /\ tracker.candidate
Observed(active) ==
    IF active = tracker.stable THEN [tracker EXCEPT !.candidate = FALSE]
    ELSE IF tracker.candidate THEN [stable |-> active, candidate |-> FALSE]
    ELSE [tracker EXCEPT !.candidate = TRUE]

RenderUnchanged ==
    /\ TimeoutWakes
    /\ Present(lc)
    /\ ~Confirms(Rendering)
    /\ tracker' = Observed(Rendering)
    /\ Continue("engine")
    /\ UNCHANGED <<lc, stopPending, retryArmed, gate, hfp, endpoint, worker,
                   acl, envVars>>

\* The music came back within the two seconds a stop is given.
RenderResumes ==
    /\ TimeoutWakes
    /\ Present(lc)
    /\ Confirms(Rendering) /\ Rendering /\ stopPending
    /\ tracker' = Observed(Rendering)
    /\ stopPending' = FALSE
    /\ Continue("engine")
    /\ UNCHANGED <<lc, retryArmed, gate, hfp, endpoint, worker, acl, envVars>>

RenderStarts ==
    /\ TimeoutWakes
    /\ Present(lc)
    /\ Confirms(Rendering) /\ Rendering /\ ~stopPending
    /\ tracker' = Observed(Rendering)
    /\ LET answer == Reduce(lc, "RenderStarted")
       IN  \/ ExecuteEngineActions(answer.state, answer.actions)
              /\ Continue("engine")
           \/ ExecutionFails(answer.state, answer.actions)
    /\ UNCHANGED <<stopPending, retryArmed, hfp, endpoint, acl, envVars>>

\* paused_media: the GSMTC snapshot shows a player that may be resumed.
PausedMedia == MediaMonitor /\ player = "paused"

\* A stop of a streaming session is not reduced yet: a paused player keeps its
\* session, any other is given two seconds to come back.
RenderStopDeferred ==
    /\ TimeoutWakes
    /\ Present(lc)
    /\ Confirms(Rendering) /\ ~Rendering
    /\ lc.media_session = "Streaming"
    /\ tracker' = Observed(Rendering)
    /\ stopPending' = (stopPending \/ ~PausedMedia)
    /\ retryArmed' = FALSE
    /\ Continue("engine")
    /\ UNCHANGED <<lc, gate, hfp, endpoint, worker, acl, envVars>>

RenderStops ==
    /\ TimeoutWakes
    /\ Present(lc)
    /\ Confirms(Rendering) /\ ~Rendering
    /\ lc.media_session # "Streaming"
    /\ tracker' = Observed(Rendering)
    /\ LET answer == Reduce(lc, "RenderStopped")
       IN  \/ /\ ExecuteEngineActions(answer.state, answer.actions)
              /\ retryArmed' = FALSE
              /\ Continue("engine")
           \/ /\ ExecutionFails(answer.state, answer.actions)
              /\ UNCHANGED retryArmed
    /\ UNCHANGED <<stopPending, hfp, endpoint, acl, envVars>>

PollRenderDemand ==
    \/ RenderUnchanged \/ RenderResumes \/ RenderStarts
    \/ RenderStopDeferred \/ RenderStops

-----------------------------------------------------------------------------
(***************************************************************************)
(* PollContainedEngine, first half: the worker's handshake and the render  *)
(* stability the transport has to wait for.                                *)
(***************************************************************************)
NoEngineToPoll ==
    /\ phase = "engine"
    /\ ~EngineActive
    /\ Continue(AfterEngine(stopPending, retryArmed))
    /\ UNCHANGED <<lc, tracker, stopPending, retryArmed, gate, hfp, endpoint,
                   worker, acl, envVars>>

\* The reducer's answer to EngineReady: OpenTransport arms the stability gate.
\* Any other answer, StopEngine included, is not executed here.
EngineBecomesReady ==
    /\ phase = "engine"
    /\ EngineActive /\ ~worker.ready_seen
    /\ "ready" \in worker.signals
    /\ worker' = [worker EXCEPT !.ready_seen = TRUE, !.signals = @ \ {"ready"}]
    /\ LET answer == Reduce(lc, "EngineReady")
       IN  /\ lc' = answer.state
           /\ gate' = IF "OpenTransport" \in answer.actions
                      THEN [pending    |-> TRUE,
                            observing  |-> Running(answer.state),
                            generation |-> answer.state.acl_generation]
                      ELSE gate
    /\ Continue("event")
    /\ UNCHANGED <<tracker, stopPending, retryArmed, hfp, endpoint, acl,
                   envVars>>

EngineNotReady ==
    /\ phase = "engine"
    /\ EngineActive /\ ~worker.ready_seen
    /\ "ready" \notin worker.signals
    /\ Continue("event") \/ Fail("readyTimeout")
    /\ UNCHANGED <<lc, tracker, stopPending, retryArmed, gate, hfp, endpoint,
                   worker, acl, envVars>>

\* ObserveV1TransportOpenStability while the answer is not Ready.
ObservedGate ==
    IF gate.generation # lc.acl_generation THEN NoGate
    ELSE [gate EXCEPT !.observing = Running(lc)]

GateWaits ==
    /\ phase = "engine"
    /\ EngineActive /\ worker.ready_seen
    /\ gate' = IF gate.pending THEN ObservedGate ELSE gate
    /\ Continue("event")
    /\ UNCHANGED <<lc, tracker, stopPending, retryArmed, hfp, endpoint, worker,
                   acl, envVars>>

\* Render has been running in one epoch for the required time, and the worker
\* is authorized: a worker can be authorized only once.
GateOpens ==
    /\ phase = "engine"
    /\ EngineActive /\ worker.ready_seen
    /\ gate.pending /\ gate.observing
    /\ gate.generation = lc.acl_generation
    /\ Running(lc)
    /\ gate' = NoGate
    /\ \/ /\ ~worker.authorized
          /\ worker' = [worker EXCEPT !.authorized = TRUE]
          /\ Continue("event")
       \/ /\ Fail(IF worker.authorized THEN "alreadyAuthorized"
                                       ELSE "authorization")
          /\ UNCHANGED worker
    /\ UNCHANGED <<lc, tracker, stopPending, retryArmed, hfp, endpoint, acl,
                   envVars>>

PollEngine == \/ NoEngineToPoll \/ EngineBecomesReady \/ EngineNotReady
              \/ GateWaits \/ GateOpens

-----------------------------------------------------------------------------
(***************************************************************************)
(* PollContainedEngine, second half: one worker event per poll, the gravest*)
(* first, then the exit of the process.                                    *)
(***************************************************************************)
ObserveSignal(signal) ==
    /\ phase = "event"
    /\ signal \in worker.signals
    /\ signal = "failed"  => "retryable" \notin worker.signals
    /\ signal = "started" => worker.signals \cap {"retryable", "failed"} = {}

\* The result of the attempt is archived before the lifecycle hears of it.
ArchiveFails ==
    /\ ObserveSignal("retryable") \/ ObserveSignal("failed")
    /\ Fail("archive")
    /\ UNCHANGED <<lc, tracker, stopPending, retryArmed, gate, hfp, endpoint,
                   worker, acl, envVars>>

OpenRefused ==
    /\ ObserveSignal("retryable")
    /\ LET answer == Reduce(lc, "TransportRetryableFailure")
       IN  \/ /\ ExecuteEngineActions(answer.state, answer.actions)
              /\ retryArmed' = (retryArmed \/
                                "ScheduleTransportRetry" \in answer.actions)
              /\ Continue(AfterEngine(stopPending, retryArmed'))
           \/ /\ ExecutionFails(answer.state, answer.actions)
              /\ UNCHANGED retryArmed
    /\ UNCHANGED <<tracker, stopPending, hfp, endpoint, acl, envVars>>

TransportFails ==
    /\ ObserveSignal("failed")
    /\ LET answer == Reduce(lc, "MediaFailed")
       IN  \/ ExecuteEngineActions(answer.state, answer.actions)
              /\ Continue(AfterEngine(stopPending, retryArmed))
           \/ ExecutionFails(answer.state, answer.actions)
    /\ UNCHANGED <<tracker, stopPending, retryArmed, hfp, endpoint, acl,
                   envVars>>

MediaStarts ==
    /\ ObserveSignal("started")
    /\ lc' = Reduce(lc, "MediaStarted").state
    /\ worker' = [worker EXCEPT !.signals = @ \ {"started"}]
    /\ Continue(AfterEngine(stopPending, retryArmed))
    /\ UNCHANGED <<tracker, stopPending, retryArmed, gate, hfp, endpoint, acl,
                   envVars>>

NoWorkerEvent ==
    /\ phase = "event"
    /\ worker.signals \cap {"retryable", "failed", "started"} = {}
    /\ WorkerAlive
    /\ Continue(AfterEngine(stopPending, retryArmed))
    /\ UNCHANGED <<lc, tracker, stopPending, retryArmed, gate, hfp, endpoint,
                   worker, acl, envVars>>

\* Nobody asked the worker to exit: the agent gives up.
WorkerExitNoticed ==
    /\ phase = "event"
    /\ worker.signals \cap {"retryable", "failed", "started"} = {}
    /\ worker.phase = "exited"
    /\ lc' = Reduce(lc, "EngineExited").state
    /\ worker' = NoWorker
    /\ gate' = NoGate
    /\ Fail("workerDied")
    /\ UNCHANGED <<tracker, stopPending, retryArmed, hfp, endpoint, acl,
                   envVars>>

PollWorker == \/ ArchiveFails \/ OpenRefused \/ TransportFails \/ MediaStarts
              \/ NoWorkerEvent \/ WorkerExitNoticed

-----------------------------------------------------------------------------
(***************************************************************************)
(* The remaining deadlines of the timeout branch.                          *)
(***************************************************************************)
\* What the HFP switch is told about LDAC: any resource of the path counts.
LdacPathActive(s) == Leased(s) \/ s.media_session \in Live

HfpPollNotDue ==
    /\ phase = "hfp"
    /\ Continue(Deadlines(stopPending, retryArmed))
    /\ UNCHANGED <<lc, tracker, stopPending, retryArmed, gate, hfp, endpoint,
                   worker, acl, envVars>>

PollHfp(delay_elapsed) ==
    /\ phase = "hfp"
    /\ LET decision == HfpStep(hfp,
               [generation       |-> lc.acl_generation,
                connected        |-> Present(lc),
                capture_active   |-> mic,
                ldac_path_active |-> LdacPathActive(lc),
                render_demand    |-> Running(lc),
                delay_elapsed    |-> delay_elapsed])
           event  == HfpLifecycleEvent(decision, lc.acl_generation)
           answer == IF event = "none" THEN Answer(lc, {}) ELSE Reduce(lc, event)
       IN  /\ hfp' = decision.switch
           /\ \/ ExecuteEngineActions(answer.state, answer.actions)
                 /\ Continue(Deadlines(stopPending, retryArmed))
              \/ ExecutionFails(answer.state, answer.actions)
    /\ UNCHANGED <<tracker, stopPending, retryArmed, endpoint, acl, envVars>>

\* The stop lasted two seconds: it was a stop.
ClassifyStop ==
    /\ phase = "stop"
    /\ stopPending' = FALSE
    /\ LET answer == Reduce(lc, "RenderStopped")
       IN  \/ /\ ExecuteEngineActions(answer.state, answer.actions)
              /\ retryArmed' = FALSE
              /\ Continue("wait")
           \/ /\ ExecutionFails(answer.state, answer.actions)
              /\ UNCHANGED retryArmed
    /\ UNCHANGED <<tracker, hfp, endpoint, acl, envVars>>

StopNotDue ==
    /\ phase = "stop"
    /\ Continue(Deadlines(FALSE, retryArmed))
    /\ UNCHANGED <<lc, tracker, stopPending, retryArmed, gate, hfp, endpoint,
                   worker, acl, envVars>>

RetryTransport ==
    /\ phase = "retry"
    /\ retryArmed' = FALSE
    /\ LET answer == Reduce(lc, "TransportRetryDue")
       IN  \/ ExecuteEngineActions(answer.state, answer.actions)
              /\ Continue("wait")
           \/ ExecutionFails(answer.state, answer.actions)
    /\ UNCHANGED <<tracker, stopPending, hfp, endpoint, acl, envVars>>

RetryNotDue ==
    /\ phase = "retry"
    /\ Continue("wait")
    /\ UNCHANGED <<lc, tracker, stopPending, retryArmed, gate, hfp, endpoint,
                   worker, acl, envVars>>

RunDeadlines ==
    \/ HfpPollNotDue \/ \E elapsed \in BOOLEAN : PollHfp(elapsed)
    \/ ClassifyStop \/ StopNotDue \/ RetryTransport \/ RetryNotDue

-----------------------------------------------------------------------------
(***************************************************************************)
(* Leaving.                                                                *)
(***************************************************************************)
\* The stop event: end the playback as politely as its state allows.
DailyStop ==
    /\ phase = "wait"
    /\ acl = <<>>
    /\ stopRequested
    /\ IF stopPending \/ Running(lc)
       THEN LET answer == Reduce(lc, "RenderStopped")
            IN  /\ stopPending' = FALSE
                /\ retryArmed' = FALSE
                /\ \/ ExecuteEngineActions(answer.state, answer.actions)
                      /\ Continue("cleanup")
                   \/ ExecutionFails(answer.state, answer.actions)
       ELSE /\ Continue("cleanup")
            /\ UNCHANGED <<lc, stopPending, retryArmed, gate, worker>>
    /\ UNCHANGED <<tracker, hfp, endpoint, acl, envVars>>

\* Every way out of the loop ends here: give back what a connected session
\* holds, withdraw the endpoint, close the engine host.  Closing it, whether a
\* stop came first or not, takes the worker down with its job.
CleanUp ==
    /\ phase = "cleanup"
    /\ phase' = "done"
    /\ UNCHANGED fault
    /\ worker' = NoWorker
    /\ gate' = NoGate
    /\ IF Present(lc)
       THEN /\ lc' = Reduce(lc, "WatcherLeaseExpired").state
            /\ endpoint' \in {FALSE, endpoint}
       ELSE UNCHANGED <<lc, endpoint>>
    /\ acl' = <<>>
    /\ UNCHANGED <<tracker, stopPending, retryArmed, hfp, envVars>>

HostStep == \/ AclWakes \/ HandleAclEvent \/ AclDrained
            \/ SkipRenderPoll \/ RenderUnknown \/ PollRenderDemand
            \/ PollEngine \/ PollWorker \/ RunDeadlines
            \/ DailyStop \/ CleanUp

HostBreaks == StateWriteFails \/ PollFails

-----------------------------------------------------------------------------
(***************************************************************************)
(* The worker process, v1_transport_configuration_worker.cpp as the daily  *)
(* worker builds it.  What it does between being asked to stop and having  *)
(* stopped happens inside the host's synchronous Stop.                     *)
(***************************************************************************)
WorkerStep(from, to, raised) ==
    /\ worker.phase \in from
    /\ worker' = [worker EXCEPT !.phase = to, !.signals = @ \cup raised]
    /\ UNCHANGED <<hostVars, acl, envVars>>

WorkerReady     == WorkerStep({"booting"}, "waiting", {"ready"})
WorkerOpens     == worker.authorized /\ WorkerStep({"waiting"}, "opening", {})
WorkerStreams   == WorkerStep({"opening"}, "streaming", {"started"})

\* The headset refused the very first signaling exchange for lack of resources.
WorkerRefused   == WorkerStep({"opening"}, "parked", {"retryable"})
WorkerOpenFails == WorkerStep({"opening"}, "parked", {"failed"})
WorkerOpenEnds  == WorkerStreams \/ WorkerRefused \/ WorkerOpenFails
WorkerFails     == WorkerStep({"streaming"}, "parked", {"failed"})

\* The headset closed the stream, or the PCM source could not be rebound: the
\* session ends as Cancelled, which sets no event.
WorkerEndsQuietly == WorkerStep({"streaming"}, "parked", {})

\* Nobody wanted the worker for ten minutes.
WorkerExpires   == WorkerStep({"waiting", "parked"}, "exited", {})
WorkerCrashes   == WorkerStep({"booting", "opening", "streaming"}, "exited", {})

WorkerNext == \/ WorkerReady \/ WorkerOpens \/ WorkerOpenEnds \/ WorkerFails
              \/ WorkerEndsQuietly \/ WorkerExpires \/ WorkerCrashes

-----------------------------------------------------------------------------
(***************************************************************************)
(* The radio with its watcher thread, and the user.                        *)
(***************************************************************************)
LinkChanges ==
    /\ ~settled
    /\ phase # "done"
    /\ Len(acl) < MaxQueue
    /\ link \/ connects < MaxConnects
    /\ link' = ~link
    /\ connects' = IF link THEN connects ELSE connects + 1
    /\ acl' = Append(acl, IF link THEN "Disconnected" ELSE "Connected")
    /\ UNCHANGED <<hostVars, worker, player, mic, stopRequested, settled>>

PlayerChanges ==
    /\ ~settled
    /\ player' \in {"absent", "paused", "playing"} \ {player}
    /\ UNCHANGED <<hostVars, worker, acl, link, connects, mic, stopRequested,
                   settled>>

\* Without the transport switch the HFP decisions are counted and dropped.
MicChanges ==
    /\ ~settled
    /\ HfpTransportSwitch
    /\ mic' = ~mic
    /\ UNCHANGED <<hostVars, worker, acl, link, connects, player,
                   stopRequested, settled>>

RequestStop ==
    /\ ~settled
    /\ stopRequested' = TRUE
    /\ UNCHANGED <<hostVars, worker, acl, link, connects, player, mic, settled>>

Settle ==
    /\ ~settled
    /\ ~mic
    /\ settled' = TRUE
    /\ UNCHANGED <<hostVars, worker, acl, link, connects, player, mic,
                   stopRequested>>

Environment == LinkChanges \/ PlayerChanges \/ MicChanges \/ RequestStop \/ Settle

-----------------------------------------------------------------------------
\* Nothing else will happen: the agent is gone, or it waits without a headset.
Rests ==
    /\ settled
    /\ \/ phase = "done"
       \/ phase = "wait" /\ ~Present(lc) /\ acl = <<>> /\ ~stopRequested
    /\ UNCHANGED vars

Next == HostStep \/ HostBreaks \/ WorkerNext \/ Environment \/ Rests

Spec == Init /\ [][Next]_vars

\* The host's thread and the worker's are scheduled; an open attempt is bounded
\* by its timeouts, and an idle worker by its ten minutes.  Nothing has to break.
Scheduling ==
    /\ WF_vars(HostStep)
    /\ WF_vars(WorkerReady)
    /\ WF_vars(WorkerOpens)
    /\ WF_vars(WorkerOpenEnds)
    /\ WF_vars(WorkerExpires)

\* The clock advances: a poll that keeps being asked for is due again and again,
\* and a deadline that stays armed is due some day.
Clock ==
    /\ SF_vars(PollRenderDemand)
    /\ SF_vars(GateOpens)
    /\ SF_vars(PollHfp(TRUE))
    /\ SF_vars(ClassifyStop)
    /\ SF_vars(RetryTransport)

FairSpec == Spec /\ Scheduling /\ Clock

-----------------------------------------------------------------------------
(***************************************************************************)
(* Safety.                                                                 *)
(***************************************************************************)
InLoop == phase \notin {"cleanup", "done"}

\* The host's record agrees with the process it stands for: the reducer thinks
\* that there is an engine exactly when the host holds one, so that no worker
\* is ever orphaned and none is started over another.
LeaseMatchesWorker == InLoop => (Leased(lc) <=> EngineActive)

\* A worker that may touch the headset does so for the connection that is up
\* now, with a session that is still wanted: every path that ends a connection,
\* a playback or the use of LDAC has taken the authorization away.
AuthorizedWorkerIsCurrent ==
    InLoop /\ worker.authorized =>
        /\ Present(lc)
        /\ worker.generation = lc.acl_generation
        /\ lc.media_session \in {"Opening", "Streaming"}
        /\ ~lc.hfp_suspended

\* Whatever order ACL events, polls, deadlines and worker events come in, the
\* host never trips over its own protocol: no second worker over a first
\* (ERROR_BUSY), no second authorization (ERROR_ALREADY_EXISTS), no local stop
\* of a worker that owns a transport (exit code 10).
NoProtocolFault == fault \notin ProtocolFault

\* Back in the wait, the endpoint is published exactly while the headset is
\* present, and without a headset no deadline, gate or worker of the old
\* connection is left to act in the next one.
ConnectionOwnsEverything ==
    phase = "wait" =>
        /\ endpoint <=> Present(lc)
        /\ ~Present(lc) => /\ ~EngineActive
                           /\ ~gate.pending
                           /\ ~stopPending
                           /\ ~retryArmed
                           /\ ~tracker.stable

\* Worker, lease and authority are those of the connection and session that are
\* current, across disconnects, calls and refused opens.
OwnershipInvariant ==
    /\ LeaseMatchesWorker
    /\ AuthorizedWorkerIsCurrent
    /\ ConnectionOwnsEverything

\* The stability gate guards one open: the one the reducer asked for, of the
\* engine that is ready and not yet authorized, in this generation.
GateGuardsOneOpen ==
    InLoop /\ gate.pending =>
        /\ worker.ready_seen /\ ~worker.authorized
        /\ lc.media_session = "Opening"
        /\ gate.generation = lc.acl_generation

\* An armed retry is never a dead or a wrong one: when it fires, the session
\* it was armed for still wants it, and it starts an engine.
ArmedRetryStarts ==
    InLoop /\ retryArmed =>
        "StartEngine" \in Reduce(lc, "TransportRetryDue").actions

\* The demand the reducer works with is the demand that was sampled: a confirmed
\* playback is never lost, and one that ended is kept alive only by a deferred
\* stop or by a player that says it is paused.
DemandFollowsRender ==
    InLoop => /\ tracker.stable => Running(lc)
              /\ stopPending => Running(lc) /\ ~tracker.stable
              /\ Running(lc) /\ ~MediaMonitor => tracker.stable \/ stopPending

\* What holds of the daily host at every instant, whichever of the loop, the worker,
\* the radio and the user acted last.
HostInvariant ==
    /\ TypeOK
    /\ NoProtocolFault
    /\ GateGuardsOneOpen
    /\ ArmedRetryStarts
    /\ DemandFollowsRender

-----------------------------------------------------------------------------
(***************************************************************************)
(* The agent keeps the promise of LdacAuthority.  The worker's licence is  *)
(* read off the host's own record of the process, and a process the host   *)
(* has dropped has no licence whatever it was doing.                       *)
(***************************************************************************)
Licence ==
    IF ~EngineActive THEN "none"
    ELSE IF worker.authorized THEN "open"
    ELSE IF worker.ready_seen THEN "reserved" ELSE "contained"

Authority == INSTANCE LdacAuthority WITH
    Generations <- GenerationLimit, Attempts <- MaximumOpenAttempts,
    up <- Present(lc), generation <- lc.acl_generation,
    licence <- Licence, spent <- lc.open_attempts

\* Every step of the host is a step of LdacAuthority or does not concern it.
KeepsAuthority == Authority!Spec

-----------------------------------------------------------------------------
(***************************************************************************)
(* Liveness, once the user and the radio leave things as they are.         *)
(***************************************************************************)
GivenUp == phase = "done"

\* The headset went away: worker and endpoint follow.
DisconnectReleases ==
    (settled /\ ~link) ~> (GivenUp \/ (~Present(lc) /\ ~EngineActive /\ ~endpoint))

\* The headset is connected: its endpoint can be played to, whether the link
\* came up before the agent or after it.
\* It does not hold (README.md, Further disagreements).
AttachedHeadsetIsPublished == (settled /\ link) ~> (GivenUp \/ endpoint)

\* Somebody plays to a present headset: LDAC streams, or the agent has recorded
\* that it cannot (a faulted session).
PlaybackStarts ==
    (settled /\ Rendering /\ Present(lc) /\ link) ~>
        (GivenUp \/ worker.phase = "streaming" \/ lc.media_session = "Faulted")

\* PollRenderDemand took the end of the playback for a pause: the reducer still has
\* the demand, though nothing is rendered and no stop is deferred.
KeptForPause == Running(lc) /\ ~tracker.stable /\ ~stopPending

\* A session that played is closed, and its worker gone, once the player is gone: the
\* stop that is deferred for two seconds is not lost.  A session that was already kept
\* for a paused player when the player left is excepted: it is never closed
\* (README.md, Further disagreements).
PlayedSessionCloses ==
    (settled /\ player = "absent" /\ lc.media_session = "Streaming" /\ ~KeptForPause) ~>
        (GivenUp \/ ~WorkerAlive)

\* Whatever the session had come to, it is closed once nobody plays.
\* It does not hold (README.md, Further disagreements).
PlaybackEndCloses ==
    (settled /\ player = "absent") ~> (GivenUp \/ ~WorkerAlive)
=============================================================================
