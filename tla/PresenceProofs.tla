--------------------------- MODULE PresenceProofs ---------------------------
(***************************************************************************)
(* What the daily host keeps true, for every budget of opens, every number *)
(* of connections and every generation limit, with and without the HFP     *)
(* switch and the media monitor; and that it implements LdacAuthority.     *)
(*                                                                         *)
(* The invariant ties the four records the host keeps of one connection,   *)
(* the reducer's, the process handle, the stability gate and the deadlines *)
(* with the render tracker, to each other and to the watcher's queue.      *)
(***************************************************************************)
EXTENDS PresenceAgent, ReducerProofs

-----------------------------------------------------------------------------
(***************************************************************************)
(* The inductive invariant.                                                *)
(***************************************************************************)
\* The reducer's record between two handlers: nothing is half stopped, a ready
\* engine is one whose transport opens or plays, and an engine that starts will
\* be let open when it is ready.
AtRest(s) ==
    /\ s.media_session # "Stopping"
    /\ s.engine_lease = "Ready" <=> s.media_session \in {"Opening", "Streaming"}
    /\ s.engine_lease = "Starting" => Present(s) /\ ~s.hfp_suspended
                                        /\ s.open_attempts < s.maximum_open_attempts
    /\ Running(s) => Present(s)

\* The policy the daily host is started with does not change.
Policy(s) ==
    s.tolerate_gaps /\ s.allow_multiple /\ s.maximum_open_attempts = MaximumOpenAttempts

\* What a worker did or said that needs an authorization, it had one for; and it
\* is authorized after its handshake only.
Obeys(w) ==
    /\ w.phase = "none" => w = NoWorker
    /\ w.authorized => w.ready_seen
    /\ w.phase \in {"opening", "streaming", "parked"} => w.authorized
    /\ w.signals \cap {"retryable", "failed", "started"} # {} => w.authorized

\* The host's handles and the reducer's lease are those of one process, which
\* was started for the connection that is up.
Contains(s, w) ==
    /\ Leased(s) <=> w.phase # "none"
    /\ s.engine_lease = "Ready" <=> w.ready_seen
    /\ w.phase # "none" => w.generation = s.acl_generation

Guards(g, s, w) ==
    g.pending => /\ w.ready_seen /\ ~w.authorized
                 /\ s.media_session = "Opening"
                 /\ g.generation = s.acl_generation

\* The demand in the record is the one the tracker and the deferred stop stand for.
Tracks(t, sp, s) ==
    /\ t.stable => Running(s)
    /\ sp => Running(s) /\ ~t.stable
    /\ Running(s) /\ ~MediaMonitor => t.stable \/ sp

\* A retry that is armed is still wanted and still paid for.
Retries(s) ==
    /\ CanStart(s) /\ ~s.hfp_suspended
    /\ s.open_attempts # 0 /\ s.open_attempts < s.maximum_open_attempts

\* The queue alternates and ends with what the link is; a connection it announces
\* finds no headset.
Announces(q, s) ==
    /\ \A i \in 1..Len(q) - 1 : q[i] # q[i + 1]
    /\ IF q = <<>> THEN ~link => ~Present(s)
       ELSE /\ q[Len(q)] = (IF link THEN "Connected" ELSE "Disconnected")
            /\ Head(q) = "Connected" => ~Present(s)

LoopInv ==
    /\ AtRest(lc)
    /\ Contains(lc, worker)
    /\ Guards(gate, lc, worker)
    /\ Tracks(tracker, stopPending, lc)
    /\ retryArmed => Retries(lc)
    /\ phase = "stop" => stopPending
    /\ phase = "retry" => retryArmed
    /\ endpoint <=> Present(lc)
    /\ Announces(acl, lc)

HostInv ==
    /\ TypeOK
    /\ Consistent(lc)
    /\ Policy(lc)
    /\ Obeys(worker)
    /\ NoProtocolFault
    /\ InLoop => LoopInv

-----------------------------------------------------------------------------
(***************************************************************************)
(* The reducer's answers as the host executes them.                        *)
(***************************************************************************)
\* Everything but lease and session is as it was.
SameOccasion(s, t) ==
    /\ t.physical_presence = s.physical_presence
    /\ t.render_demand = s.render_demand
    /\ t.acl_generation = s.acl_generation
    /\ t.open_attempts = s.open_attempts
    /\ t.hfp_suspended = s.hfp_suspended

Good(s) == s \in LifecycleState /\ Consistent(s) /\ Policy(s)

Modes == {"CancelTransport", "GracefulTransport", "LocalOnly"}

\* StopContainedEngine's own event (v1_presence_agent.cpp, MediaStopped after a
\* graceful stop, EngineExited after a local one) ends lease and session and
\* nothing else; a cancelled transport has none.
LEMMA AfterStopEnds ==
    ASSUME NEW s, Good(s), NEW mode \in Modes
    PROVE  /\ Good(AfterStop(s, mode)) /\ SameOccasion(s, AfterStop(s, mode))
           /\ mode = "CancelTransport" => AfterStop(s, mode) = s
           /\ mode = "GracefulTransport" =>
                  AfterStop(s, mode).engine_lease = "Absent"
                  /\ AfterStop(s, mode).media_session = "Stopped"
           /\ mode = "LocalOnly" =>
                  AfterStop(s, mode).engine_lease = "Absent"
                  /\ AfterStop(s, mode).media_session # "Stopping"
                  /\ AfterStop(s, mode).media_session \notin {"Opening", "Streaming"}
<1>1. Sound(s, OnMediaStopped(s)) /\ Sound(s, OnEngineExited(s))
  BY MediaStoppedSound, EngineExitedSound DEF Good
<1>2. CASE mode = "CancelTransport"
  BY <1>2 DEF AfterStop, SameOccasion
<1>3. CASE mode = "GracefulTransport"
  <2>1. /\ Policy(OnMediaStopped(s).state)
        /\ SameOccasion(s, OnMediaStopped(s).state)
        /\ OnMediaStopped(s).state.engine_lease = "Absent"
        /\ OnMediaStopped(s).state.media_session = "Stopped"
    BY DEF OnMediaStopped, Answer, Good, Policy, SameOccasion, LifecycleState
  <2>2. AfterStop(s, mode) = OnMediaStopped(s).state
    BY <1>3, ReduceSwitch DEF AfterStop
  <2> QED
    BY <1>1, <1>3, <2>1, <2>2 DEF Good, Sound
<1>4. CASE mode = "LocalOnly"
  <2>1. /\ Policy(OnEngineExited(s).state)
        /\ SameOccasion(s, OnEngineExited(s).state)
        /\ OnEngineExited(s).state.engine_lease = "Absent"
        /\ OnEngineExited(s).state.media_session \notin Live
    BY DEF OnEngineExited, Answer, Good, Policy, SameOccasion, LifecycleState, Live
  <2>2. AfterStop(s, mode) = OnEngineExited(s).state
    BY <1>4, ReduceSwitch DEF AfterStop
  <2> QED
    BY <1>1, <1>4, <2>1, <2>2 DEF Good, Sound, Live
<1> QED BY <1>2, <1>3, <1>4 DEF Modes

\* No event changes the policy the host was started with.
LEMMA ReduceIsGood ==
    ASSUME NEW s, Good(s), NEW e \in Event
    PROVE  Good(Reduce(s, e).state)
<1>1. Sound(s, Reduce(s, e))
  BY ReduceIsSound DEF Good
<1>2. /\ Reduce(s, e).state.tolerate_gaps = s.tolerate_gaps
      /\ Reduce(s, e).state.allow_multiple = s.allow_multiple
  <2> USE DEF Good, LifecycleState, Answer, Reduce
  <2>1. CASE e \in {"AclConnected", "AclDisconnected", "WatcherLeaseExpired"}
    BY <2>1 DEF OnAclConnected, OnAclDisconnected, Fresh
  <2>2. CASE e \in {"RenderStarted", "RenderStopped"}
    BY <2>2 DEF OnRenderStarted, OnRenderStopped
  <2>3. CASE e \in {"HfpSuspendLdac", "HfpResumeLdac"}
    BY <2>3 DEF OnHfpSuspendLdac, OnHfpResumeLdac
  <2>4. CASE e \in {"EngineReady", "EngineExited", "TransportOpenSuppressed"}
    BY <2>4 DEF OnEngineReady, OnEngineExited, OnTransportOpenSuppressed
  <2>5. CASE e \in {"MediaStarted", "MediaStopped", "MediaFailed"}
    BY <2>5 DEF OnMediaStarted, OnMediaStopped, OnMediaFailed
  <2>6. CASE e \in {"TransportRetryableFailure", "TransportRetryDue"}
    BY <2>6 DEF OnTransportRetryableFailure, OnTransportRetryDue
  <2> QED BY <2>1, <2>2, <2>3, <2>4, <2>5, <2>6 DEF Event
<1> QED BY <1>1, <1>2 DEF Good, Policy, Sound

\* An answer that the host can execute between two handlers.
Fits(s, answer) ==
    LET t == AfterStop(answer.state, StopMode(answer.actions))
    IN  /\ Good(answer.state)
        /\ "StartEngine" \in answer.actions =>
               /\ "StopEngine" \notin answer.actions
               /\ ~Leased(s) /\ answer.state.engine_lease = "Starting"
               /\ AtRest(answer.state)
        /\ "StopEngine" \in answer.actions =>
               /\ Leased(s) /\ ~Leased(t) /\ AtRest(t)
               /\ s.engine_lease = "Ready" => StopMode(answer.actions) # "LocalOnly"
        /\ answer.actions \cap {"StartEngine", "StopEngine"} = {} =>
               /\ AtRest(answer.state)
               /\ answer.state.engine_lease = s.engine_lease
               /\ s.media_session = "Opening" => answer.state.media_session = "Opening"
               /\ Leased(s) => answer.state.acl_generation = s.acl_generation

\* A connection or a disconnection (v1_lifecycle.cpp:74-98).
LEMMA AclFits ==
    ASSUME NEW s, Good(s), AtRest(s), NEW e \in {"AclConnected", "AclDisconnected"}
    PROVE  Fits(s, Reduce(s, e))
<1>1. Good(Reduce(s, e).state)
  BY ReduceIsGood DEF Event
<1> USE DEF Reduce, Answer, Good, Policy, Leased, Present, Running, AtRest, LifecycleState, Fresh
<1>2. CASE e = "AclConnected"
  BY <1>1, <1>2 DEF Fits, OnAclConnected, Consistent, AbsentIsBlank
<1>3. CASE e = "AclDisconnected"
  <2>1. AfterStop(Fresh(s, "Absent"), StopMode(DisconnectActions(s))).engine_lease = "Absent"
        /\ AfterStop(Fresh(s, "Absent"), StopMode(DisconnectActions(s))).media_session = "Stopped"
        /\ AfterStop(Fresh(s, "Absent"), StopMode(DisconnectActions(s))).render_demand = "Idle"
    BY DEF AfterStop, StopMode, OnMediaStopped, OnEngineExited, Live
  <2>2. "StartEngine" \notin DisconnectActions(s)
    BY DEF DisconnectActions, CancelIf, StopIfLeased
  <2>3. "StopEngine" \in DisconnectActions(s) <=> Leased(s)
    BY DEF DisconnectActions, CancelIf, StopIfLeased
  <2>4. s.engine_lease = "Ready" => StopMode(DisconnectActions(s)) = "CancelTransport"
    BY DEF DisconnectActions, CancelIf, StopMode, Live
  <2> QED
    BY <1>1, <1>3, <2>1, <2>2, <2>3, <2>4, ZenonT(60) DEF Fits, OnAclDisconnected
<1> QED BY <1>2, <1>3

\* A demand (v1_lifecycle.cpp:100-122) starts an engine for a connected headset
\* only, and finds a session that a retry is armed for as it wants it.
LEMMA RenderStartedFits ==
    ASSUME NEW s, Good(s), AtRest(s), Present(s),
           NEW answer, answer = OnRenderStarted(s)
    PROVE  /\ Fits(s, answer)
           /\ Present(answer.state) /\ Running(answer.state)
           /\ answer.state.acl_generation = s.acl_generation
           /\ answer.state.open_attempts \in {0, s.open_attempts}
           /\ answer.actions = {} => answer.state.open_attempts = s.open_attempts
           /\ "StopEngine" \notin answer.actions
           /\ Retries(s) => answer.state = s /\ answer.actions = {}
<1>1. Good(answer.state)
  BY ReduceIsGood, ReduceSwitch DEF Event
<1> USE DEF Answer, Good, Policy, Leased, Present, Running, AtRest,
        LifecycleState, OnRenderStarted, RenewsBudget
<1>2. "StopEngine" \notin answer.actions
  OBVIOUS
<1>3. answer.actions \in {{}, {"StartEngine"}}
  OBVIOUS
<1>4. /\ Present(answer.state) /\ Running(answer.state)
      /\ answer.state.acl_generation = s.acl_generation
      /\ answer.state.media_session = s.media_session
      /\ answer.state.open_attempts \in {0, s.open_attempts}
      /\ answer.actions = {} => answer.state.open_attempts = s.open_attempts
  OBVIOUS
<1>5. CASE "StartEngine" \in answer.actions
  BY <1>1, <1>2, <1>3, <1>4, <1>5, LifecycleConstants
     DEF Fits, Retries, CanStart, Consistent, ReadyHasPaid, LiveMediaHasEngine, Live
<1>6. CASE answer.actions = {}
  BY <1>1, <1>4, <1>6 DEF Fits, Retries, CanStart
<1> QED BY <1>3, <1>4, <1>5, <1>6

\* A stop the host may execute: whatever the mode, the engine is gone and what is
\* left of the session can wait; a transport is never left to a local stop.
LEMMA StopFits ==
    ASSUME NEW s, NEW answer, Good(answer.state), Leased(s),
           "StopEngine" \in answer.actions, "StartEngine" \notin answer.actions,
           Running(answer.state) => Present(answer.state),
           StopMode(answer.actions) = "CancelTransport" =>
               /\ ~Leased(answer.state)
               /\ answer.state.media_session \notin {"Opening", "Streaming", "Stopping"},
           s.engine_lease = "Ready" => StopMode(answer.actions) # "LocalOnly"
    PROVE  Fits(s, answer)
<1> DEFINE mode == StopMode(answer.actions)
           t    == AfterStop(answer.state, mode)
<1>1. mode \in Modes
  BY DEF StopMode, Modes
<1>2. /\ SameOccasion(answer.state, t)
      /\ ~Leased(t)
      /\ t.media_session \notin {"Opening", "Streaming", "Stopping"}
  <2> HIDE DEF mode
  <2> QED BY <1>1, AfterStopEnds DEF Modes, Leased, mode
<1>3. AtRest(t)
  BY <1>2 DEF AtRest, SameOccasion, Leased, Running, Present
<1> QED BY <1>2, <1>3 DEF Fits

\* The end of a demand (v1_lifecycle.cpp:124-149) gives back the engine of a
\* session that played, and leaves the one that is being set up alone.
LEMMA RenderStoppedFits ==
    ASSUME NEW s, Good(s), AtRest(s),
           NEW answer, answer = OnRenderStopped(s)
    PROVE  /\ Fits(s, answer)
           /\ Present(answer.state) = Present(s) /\ ~Running(answer.state)
           /\ answer.state.acl_generation = s.acl_generation
           /\ answer.state.open_attempts = s.open_attempts
           /\ "StartEngine" \notin answer.actions
<1>1. Good(answer.state)
  BY ReduceIsGood, ReduceSwitch DEF Event
<1>2. s \in LifecycleState /\ s.tolerate_gaps /\ s.allow_multiple
  BY DEF Good, Policy
<1>3. /\ answer.state.acl_generation = s.acl_generation
      /\ answer.state.open_attempts = s.open_attempts
      /\ Present(answer.state) = Present(s) /\ ~Running(answer.state)
      /\ "StartEngine" \notin answer.actions
  BY <1>2 DEF OnRenderStopped, Answer, LifecycleState, Present, Running,
     StopIfLeased, StopTransport
<1>4. CASE ToleratesGap(s)
  BY <1>1, <1>2, <1>3, <1>4 DEF Fits, OnRenderStopped, Answer, LifecycleState,
     Leased, AtRest, Present, Running
<1>5. CASE ~ToleratesGap(s) /\ Leased(s)
  <2>1. "StopEngine" \in answer.actions
    BY <1>2, <1>5 DEF OnRenderStopped, Answer, StopIfLeased
  <2>2. s.engine_lease = "Ready" => s.media_session = "Streaming" /\ Present(s)
    BY <1>2, <1>5 DEF ToleratesGap, AtRest, Good, Consistent, StreamingIsWanted
  <2>3. StopMode(answer.actions) # "CancelTransport"
    BY <1>2, <1>5, <2>2 DEF OnRenderStopped, Answer, StopIfLeased, StopTransport,
       StopMode, AtRest
  <2>4. s.engine_lease = "Ready" => StopMode(answer.actions) # "LocalOnly"
    BY <1>2, <1>5, <2>2 DEF OnRenderStopped, Answer, StopIfLeased, StopTransport,
       StopMode
  <2> QED BY <1>1, <1>3, <1>5, <2>1, <2>3, <2>4, StopFits
<1>6. CASE ~Leased(s)
  <2>1. /\ answer.actions = {}
        /\ answer.state.engine_lease = s.engine_lease
        /\ answer.state.media_session = s.media_session
    BY <1>2, <1>6 DEF OnRenderStopped, Answer, StopIfLeased, ToleratesGap,
       LifecycleState, AtRest, Leased
  <2> QED BY <1>1, <1>3, <1>6, <2>1 DEF Fits, AtRest, Leased
<1> QED BY <1>3, <1>4, <1>5, <1>6

\* A call (v1_lifecycle.cpp:151-169) takes the engine away, whatever it was doing.
LEMMA HfpSuspendFits ==
    ASSUME NEW s, Good(s), AtRest(s),
           NEW answer, answer = OnHfpSuspendLdac(s)
    PROVE  /\ Fits(s, answer)
           /\ Present(answer.state) = Present(s) /\ Running(answer.state) = Running(s)
           /\ answer.state.acl_generation = s.acl_generation
           /\ answer.state.open_attempts = s.open_attempts
           /\ "StartEngine" \notin answer.actions
<1>1. Good(answer.state)
  BY ReduceIsGood, ReduceSwitch DEF Event
<1>2. s \in LifecycleState
  BY DEF Good
<1>3. /\ answer.state.acl_generation = s.acl_generation
      /\ answer.state.open_attempts = s.open_attempts
      /\ Present(answer.state) = Present(s) /\ Running(answer.state) = Running(s)
      /\ "StartEngine" \notin answer.actions
  BY <1>2 DEF OnHfpSuspendLdac, Answer, LifecycleState, Present, Running,
     StopIfLeased, StopTransport
<1>4. s.engine_lease = "Ready" => Present(s) /\ s.media_session \in Live
  BY DEF Good, Consistent, LiveMediaHasEngine, AtRest, Live
<1>5. CASE Leased(s)
  <2>1. "StopEngine" \in answer.actions
    BY <1>2, <1>5 DEF OnHfpSuspendLdac, Answer, StopIfLeased
  <2>2. StopMode(answer.actions) # "CancelTransport"
    BY <1>2, <1>4, <1>5 DEF OnHfpSuspendLdac, Answer, StopIfLeased, StopTransport,
       StopMode, AtRest, Live
  <2>3. s.engine_lease = "Ready" => StopMode(answer.actions) # "LocalOnly"
    BY <1>2, <1>4, <1>5 DEF OnHfpSuspendLdac, Answer, StopIfLeased, StopTransport,
       StopMode
  <2>4. Running(answer.state) => Present(answer.state)
    BY <1>3 DEF AtRest
  <2> QED BY <1>1, <1>3, <1>5, <2>1, <2>2, <2>3, <2>4, StopFits
<1>6. CASE ~Leased(s)
  <2>1. /\ answer.actions = {}
        /\ answer.state.engine_lease = s.engine_lease
        /\ answer.state.media_session = s.media_session
    BY <1>2, <1>6 DEF OnHfpSuspendLdac, Answer, StopIfLeased, Live,
       LifecycleState, AtRest, Leased
  <2> QED BY <1>1, <1>3, <1>6, <2>1 DEF Fits, AtRest, Leased
<1> QED BY <1>3, <1>5, <1>6

\* The end of a call (v1_lifecycle.cpp:171-182) starts an engine only for a demand
\* that is there, with a fresh budget; a session that was not suspended is as it was.
LEMMA HfpResumeFits ==
    ASSUME NEW s, Good(s), AtRest(s),
           NEW answer, answer = OnHfpResumeLdac(s)
    PROVE  /\ Fits(s, answer)
           /\ Present(answer.state) = Present(s) /\ Running(answer.state) = Running(s)
           /\ answer.state.acl_generation = s.acl_generation
           /\ answer.state.open_attempts \in {0, s.open_attempts}
           /\ answer.actions = {} => answer.state.open_attempts = s.open_attempts
           /\ "StopEngine" \notin answer.actions
           /\ ~s.hfp_suspended => answer.state = s /\ answer.actions = {}
<1>1. Good(answer.state)
  BY ReduceIsGood, ReduceSwitch DEF Event
<1>2. s \in LifecycleState
  BY DEF Good
<1>3. /\ answer.state.acl_generation = s.acl_generation
      /\ Present(answer.state) = Present(s) /\ Running(answer.state) = Running(s)
      /\ answer.state.media_session = s.media_session
      /\ answer.state.open_attempts \in {0, s.open_attempts}
      /\ answer.actions = {} => answer.state.open_attempts = s.open_attempts
      /\ ~answer.state.hfp_suspended
      /\ "StopEngine" \notin answer.actions
  BY <1>2 DEF OnHfpResumeLdac, Answer, LifecycleState, Present, Running
<1>4. ~s.hfp_suspended => answer.state = s /\ answer.actions = {}
  BY <1>2 DEF OnHfpResumeLdac, Answer, LifecycleState
<1>5. CASE "StartEngine" \in answer.actions
  <2>1. CanStart(s) /\ answer.state.engine_lease = "Starting"
        /\ answer.state.open_attempts = 0
    BY <1>2, <1>5 DEF OnHfpResumeLdac, Answer, LifecycleState
  <2>2. answer.state.maximum_open_attempts > 0
    <3>1. answer.state.maximum_open_attempts \in AttemptLimits
      BY <1>1 DEF Good, LifecycleState
    <3>2. answer.state.maximum_open_attempts \in Nat \ {0}
      BY <3>1, LifecycleConstants
    <3> QED BY <3>2
  <2> QED
    BY <1>1, <1>3, <1>4, <1>5, <2>1, <2>2 DEF Fits, AtRest, Leased, CanStart, Running,
       Present
<1>6. CASE "StartEngine" \notin answer.actions
  <2>1. /\ answer.actions = {}
        /\ answer.state.engine_lease = s.engine_lease
        /\ answer.state.open_attempts = s.open_attempts
        /\ answer.state.maximum_open_attempts = s.maximum_open_attempts
    BY <1>2, <1>6 DEF OnHfpResumeLdac, Answer, LifecycleState
  <2> QED BY <1>1, <1>3, <1>4, <2>1 DEF Fits, AtRest, Leased
<1> QED BY <1>3, <1>4, <1>5, <1>6

\* A refused open (v1_lifecycle.cpp:245-260) cancels the transport of the ready
\* engine, and schedules a retry only while that is wanted and paid for.
LEMMA RetryableFailureFits ==
    ASSUME NEW s, Good(s), AtRest(s), s.engine_lease = "Ready",
           NEW answer, answer = OnTransportRetryableFailure(s)
    PROVE  /\ Fits(s, answer)
           /\ StopMode(answer.actions) = "CancelTransport"
           /\ ~Leased(answer.state)
           /\ Present(answer.state) = Present(s) /\ Running(answer.state) = Running(s)
           /\ answer.state.acl_generation = s.acl_generation
           /\ answer.state.open_attempts = s.open_attempts
           /\ "StopEngine" \in answer.actions /\ "StartEngine" \notin answer.actions
           /\ "ScheduleTransportRetry" \in answer.actions => Retries(answer.state)
<1>1. Good(answer.state)
  BY ReduceIsGood, ReduceSwitch DEF Event
<1>2. s \in LifecycleState
  BY DEF Good
<1>3. /\ answer.state.acl_generation = s.acl_generation
      /\ answer.state.open_attempts = s.open_attempts
      /\ answer.state.maximum_open_attempts = s.maximum_open_attempts
      /\ answer.state.hfp_suspended = s.hfp_suspended
      /\ Present(answer.state) = Present(s) /\ Running(answer.state) = Running(s)
      /\ answer.state.engine_lease = "Absent"
      /\ answer.state.media_session = IF MayRetry(s) THEN "Stopped" ELSE "Faulted"
      /\ "StopEngine" \in answer.actions /\ "StartEngine" \notin answer.actions
      /\ StopMode(answer.actions) = "CancelTransport"
      /\ "ScheduleTransportRetry" \in answer.actions <=> MayRetry(s)
  BY <1>2 DEF OnTransportRetryableFailure, Answer, LifecycleState, Present, Running,
     StopMode
<1>4. Fits(s, answer)
  <2>1. Leased(s) /\ ~Leased(answer.state)
    BY <1>3 DEF Leased
  <2> QED BY <1>1, <1>3, <2>1, StopFits DEF AtRest
<1>5. MayRetry(s) => Retries(answer.state)
  BY <1>2, <1>3 DEF MayRetry, Retries, CanStart, Good, Consistent, ReadyHasPaid,
     StreamingIsWanted, Leased, LifecycleState, Present, Running
<1> QED BY <1>3, <1>4, <1>5 DEF Leased

\* A failed session (v1_lifecycle.cpp:275-286) cancels the transport of the ready
\* engine.
LEMMA MediaFailedFits ==
    ASSUME NEW s, Good(s), AtRest(s), s.engine_lease = "Ready",
           NEW answer, answer = OnMediaFailed(s)
    PROVE  /\ Fits(s, answer)
           /\ StopMode(answer.actions) = "CancelTransport"
           /\ ~Leased(answer.state)
           /\ Present(answer.state) = Present(s) /\ Running(answer.state) = Running(s)
           /\ answer.state.acl_generation = s.acl_generation
           /\ answer.state.open_attempts = s.open_attempts
           /\ "StopEngine" \in answer.actions /\ "StartEngine" \notin answer.actions
<1>1. Good(answer.state)
  BY ReduceIsGood, ReduceSwitch DEF Event
<1>2. s \in LifecycleState
  BY DEF Good
<1>3. /\ answer.state.acl_generation = s.acl_generation
      /\ answer.state.open_attempts = s.open_attempts
      /\ Present(answer.state) = Present(s) /\ Running(answer.state) = Running(s)
      /\ answer.state.engine_lease = "Absent"
      /\ answer.state.media_session = "Faulted"
  BY <1>2 DEF OnMediaFailed, Answer, LifecycleState, Present, Running
<1>4. /\ "StopEngine" \in answer.actions /\ "StartEngine" \notin answer.actions
      /\ StopMode(answer.actions) = "CancelTransport"
  BY DEF OnMediaFailed, Answer, StopMode, AtRest, CancelIf, StopIfLeased, Leased
<1>5. Fits(s, answer)
  <2>1. Leased(s) /\ ~Leased(answer.state)
    BY <1>3 DEF Leased
  <2> QED BY <1>1, <1>3, <1>4, <2>1, StopFits DEF AtRest
<1> QED BY <1>3, <1>4, <1>5 DEF Leased

\* The retry timer (v1_lifecycle.cpp:262-273), of a retry that is armed, starts an
\* engine and changes nothing else.
LEMMA RetryDueFits ==
    ASSUME NEW s, Good(s), AtRest(s), Retries(s),
           NEW answer, answer = OnTransportRetryDue(s)
    PROVE  /\ Fits(s, answer)
           /\ Present(answer.state) /\ Running(answer.state)
           /\ answer.state.acl_generation = s.acl_generation
           /\ answer.state.open_attempts = s.open_attempts
           /\ "StopEngine" \notin answer.actions /\ "StartEngine" \in answer.actions
<1>1. Good(answer.state)
  BY ReduceIsGood, ReduceSwitch DEF Event
<1>2. s \in LifecycleState
  BY DEF Good
<1>3. /\ answer.state.acl_generation = s.acl_generation
      /\ answer.state.open_attempts = s.open_attempts
      /\ answer.state.maximum_open_attempts = s.maximum_open_attempts
      /\ answer.state.hfp_suspended = s.hfp_suspended
      /\ answer.state.media_session = s.media_session
      /\ Present(answer.state) /\ Running(answer.state)
      /\ answer.state.engine_lease = "Starting"
      /\ answer.actions = {"StartEngine"}
  BY <1>2 DEF OnTransportRetryDue, Answer, LifecycleState, Present, Running, Retries,
     CanStart
<1>4. Fits(s, answer)
  BY <1>1, <1>3 DEF Fits, AtRest, Retries, CanStart
<1> QED BY <1>3, <1>4

-----------------------------------------------------------------------------
(***************************************************************************)
(* ExecuteEngineActions.                                                   *)
(***************************************************************************)
\* Record, process and gate fit each other.
Tied(s, w, g) ==
    /\ Good(s) /\ AtRest(s)
    /\ w \in Worker /\ Obeys(w)
    /\ g \in Gate
    /\ Contains(s, w)
    /\ Guards(g, s, w)

\* An answer that fits is executed (ExecuteEngineActions, v1_presence_agent.cpp)
\* so that record, process and gate fit again, and the record is the one answered
\* with but for what a stop ends.
LEMMA ExecutionTies ==
    ASSUME Tied(lc, worker, gate), NEW answer, Fits(lc, answer),
           ExecuteEngineActions(answer.state, answer.actions)
    PROVE  /\ Tied(lc', worker', gate')
           /\ SameOccasion(answer.state, lc')
           /\ "StopEngine" \notin answer.actions => lc' = answer.state
           /\ "StopEngine" \in answer.actions =>
                  worker' = NoWorker
                  /\ lc' = AfterStop(answer.state, StopMode(answer.actions))
           /\ "StartEngine" \in answer.actions =>
                  worker' = NewWorker(answer.state.acl_generation)
           /\ answer.actions \cap {"StartEngine", "StopEngine"} = {} =>
                  worker' = worker /\ gate' = gate
<1> DEFINE s == answer.state
           acts == answer.actions
<1>0. Good(s) /\ s.acl_generation \in 0..GenerationLimit
  BY DEF Fits, Good, LifecycleState
<1>1. CASE "StartEngine" \in acts
  <2>1. /\ "StopEngine" \notin acts /\ ~Leased(lc)
        /\ s.engine_lease = "Starting" /\ AtRest(s)
    BY <1>1 DEF Fits
  <2>2. /\ worker' = NewWorker(s.acl_generation) /\ lc' = s /\ gate' = gate
    BY <1>1, <2>1 DEF ExecuteEngineActions
  <2>3. worker = NoWorker
    BY <2>1 DEF Tied, Contains, Obeys
  <2>4. ~gate.pending
    BY <2>3 DEF Tied, Guards, NoWorker
  <2>5. /\ worker' \in Worker /\ Obeys(worker')
        /\ worker'.phase # "none" /\ ~worker'.ready_seen
        /\ worker'.generation = s.acl_generation
    BY <1>0, <2>2 DEF NewWorker, NoWorker, Worker, WorkerPhase, Obeys
  <2>6. Contains(lc', worker')
    BY <2>1, <2>2, <2>5 DEF Contains, Leased
  <2>7. Guards(gate', lc', worker')
    BY <2>2, <2>4 DEF Guards
  <2> QED BY <1>0, <1>1, <2>1, <2>2, <2>5, <2>6, <2>7 DEF Tied, SameOccasion
<1>2. CASE "StopEngine" \in acts
  <2> DEFINE t == AfterStop(s, StopMode(acts))
  <2>1. "StartEngine" \notin acts /\ Leased(lc) /\ ~Leased(t) /\ AtRest(t)
    BY <1>2 DEF Fits
  <2>2. EngineActive
    BY <2>1 DEF Tied, Contains, EngineActive
  <2>3. worker' = NoWorker /\ lc' = t /\ gate' = NoGate
    BY <1>2, <2>1, <2>2 DEF ExecuteEngineActions
  <2>4. Good(t) /\ SameOccasion(s, t)
    <3>1. StopMode(acts) \in Modes
      BY DEF StopMode, Modes
    <3> HIDE DEF acts, s
    <3> QED BY <1>0, <3>1, AfterStopEnds
  <2>5. /\ NoWorker \in Worker /\ Obeys(NoWorker) /\ NoGate \in Gate
        /\ ~NoGate.pending /\ NoWorker.phase = "none" /\ ~NoWorker.ready_seen
    BY LifecycleConstants DEF NoWorker, Worker, WorkerPhase, Obeys, NoGate, Gate
  <2>6. Contains(lc', worker')
    BY <2>1, <2>3, <2>5 DEF Contains, Leased
  <2>7. Guards(gate', lc', worker')
    BY <2>3, <2>5 DEF Guards
  <2> QED BY <1>2, <2>1, <2>3, <2>4, <2>5, <2>6, <2>7 DEF Tied
<1>3. CASE acts \cap {"StartEngine", "StopEngine"} = {}
  <2>1. lc' = s /\ worker' = worker /\ gate' = gate
    BY <1>3 DEF ExecuteEngineActions
  <2>2. /\ AtRest(s)
        /\ s.engine_lease = lc.engine_lease
        /\ lc.media_session = "Opening" => s.media_session = "Opening"
        /\ Leased(lc) => s.acl_generation = lc.acl_generation
    BY <1>3 DEF Fits
  <2>3. Contains(lc', worker')
    BY <2>1, <2>2 DEF Tied, Contains, Leased
  <2>4. Guards(gate', lc', worker')
    BY <2>1, <2>2 DEF Tied, Contains, Guards, Leased
  <2> QED BY <1>0, <1>3, <2>1, <2>2, <2>3, <2>4 DEF Tied, SameOccasion
<1> QED BY <1>1, <1>2, <1>3

\* When an execution fails the host gives up, for a cause that is not its own
\* protocol: there is no worker when it starts one, and a worker that owns a
\* transport is not stopped locally.
LEMMA ExecutionFailsSafely ==
    ASSUME Tied(lc, worker, gate), NEW answer, Fits(lc, answer),
           ExecutionFails(answer.state, answer.actions)
    PROVE  /\ phase' = "cleanup" /\ fault' \in {"engineStart", "stopFailed"}
           /\ lc' = answer.state
           /\ Good(lc')
           /\ worker' \in Worker /\ Obeys(worker')
           /\ gate' \in Gate
           /\ \/ "StartEngine" \in answer.actions /\ worker' = worker
              \/ "StopEngine" \in answer.actions /\ worker' = NoWorker /\ EngineActive
<1>1. CASE "StartEngine" \in answer.actions
  <2>1. "StopEngine" \notin answer.actions /\ ~Leased(lc) /\ Good(answer.state)
    BY <1>1 DEF Fits
  <2>2. ~EngineActive
    BY <2>1 DEF Tied, Contains, EngineActive
  <2> QED BY <1>1, <2>1, <2>2 DEF ExecutionFails, Fail, Tied
<1>2. CASE "StartEngine" \notin answer.actions
  <2>1. /\ "StopEngine" \in answer.actions /\ EngineActive
        /\ phase' = "cleanup"
        /\ fault' = IF WorkerAlive /\ ~Stoppable(StopMode(answer.actions))
                    THEN "localStopAfterOpen" ELSE "stopFailed"
        /\ worker' = NoWorker /\ lc' = answer.state /\ gate' = NoGate
    BY <1>2 DEF ExecutionFails, Fail
  <2>2. Good(answer.state)
        /\ (lc.engine_lease = "Ready" => StopMode(answer.actions) # "LocalOnly")
    BY <2>1 DEF Fits
  <2>3. WorkerAlive => Stoppable(StopMode(answer.actions))
    BY <2>2 DEF Tied, Contains, Obeys, Worker, WorkerPhase, WorkerAlive, Stoppable
  <2>4. NoWorker \in Worker /\ Obeys(NoWorker) /\ NoGate \in Gate
    BY LifecycleConstants DEF NoWorker, Worker, WorkerPhase, Obeys, NoGate, Gate
  <2> QED BY <2>1, <2>2, <2>3, <2>4
<1> QED BY <1>1, <1>2

-----------------------------------------------------------------------------
(***************************************************************************)
(* The invariant is inductive, one lemma for each group of actions.        *)
(***************************************************************************)
\* What the environment owns keeps its type.
EnvType ==
    /\ connects \in 0..MaxConnects
    /\ player \in {"absent", "paused", "playing"}
    /\ <<link, mic, stopRequested, settled>> \in
           BOOLEAN \X BOOLEAN \X BOOLEAN \X BOOLEAN

\* Everything of HostInv except what concerns the loop's place.
Typed == /\ tracker \in Tracker
           /\ stopPending \in BOOLEAN
           /\ retryArmed \in BOOLEAN
           /\ hfp \in HfpSwitchState(0..GenerationLimit)
           /\ endpoint \in BOOLEAN
           /\ acl \in Seq(AclEvent) /\ Len(acl) <= MaxQueue
           /\ EnvType

\* The invariant in the loop, by its parts.
LEMMA LoopParts ==
    ASSUME HostInv, InLoop
    PROVE  /\ phase \in HostPhase /\ fault \in Fault \ ProtocolFault
           /\ Typed
           /\ Tied(lc, worker, gate)
           /\ Tracks(tracker, stopPending, lc)
           /\ retryArmed => Retries(lc)
           /\ phase = "stop" => stopPending
           /\ phase = "retry" => retryArmed
           /\ endpoint <=> Present(lc)
           /\ Announces(acl, lc)
BY DEF HostInv, LoopInv, TypeOK, Typed, EnvType, Tied, Good, NoProtocolFault

\* And back: what a step that stays in the loop has to show.
LEMMA StayingIn ==
    ASSUME phase' \in HostPhase \ {"cleanup", "done"}, fault' \in Fault \ ProtocolFault,
           Typed',
           Tied(lc', worker', gate'),
           Tracks(tracker', stopPending', lc'),
           retryArmed' => Retries(lc'),
           phase' = "stop" => stopPending',
           phase' = "retry" => retryArmed',
           endpoint' <=> Present(lc'),
           Announces(acl, lc)'
    PROVE  HostInv'
BY DEF HostInv, LoopInv, TypeOK, Typed, EnvType, Tied, Good, NoProtocolFault, HostPhase

\* The host gives up (CleanUp follows): nothing but type, consistency and the
\* worker's own obedience has to hold.
LEMMA GivingUp ==
    ASSUME phase' = "cleanup", fault' \in Fault \ ProtocolFault, Typed',
           Good(lc'), worker' \in Worker, Obeys(worker'), gate' \in Gate
    PROVE  HostInv'
BY DEF HostInv, InLoop, TypeOK, Typed, EnvType, Good, NoProtocolFault, HostPhase

\* The host moves on in its loop and nothing else changes.
Moves == UNCHANGED <<fault, lc, tracker, stopPending, retryArmed, gate, hfp, endpoint,
                     worker, acl, envVars>>

\* Such a step keeps the invariant, if the place it reaches is one that is due.
LEMMA MovesKeep ==
    ASSUME HostInv, InLoop, Moves, phase' \in HostPhase \ {"cleanup", "done"},
           phase' = "stop" => stopPending,
           phase' = "retry" => retryArmed
    PROVE  HostInv'
<1>1. /\ Typed' /\ Announces(acl, lc)'
  BY LoopParts DEF Moves, envVars, Typed, EnvType, Announces
<1> QED
  BY <1>1, LoopParts, StayingIn DEF Moves

\* The place after a poll fits the deadlines that are armed.
LEMMA DeadlinesFit ==
    ASSUME NEW sp \in BOOLEAN, NEW ra \in BOOLEAN
    PROVE  /\ Deadlines(sp, ra) \in {"stop", "retry", "wait"}
           /\ AfterEngine(sp, ra) \in {"hfp", "stop", "retry", "wait"}
           /\ Deadlines(sp, ra) = "stop" => sp
           /\ Deadlines(sp, ra) = "retry" => ra
           /\ AfterEngine(sp, ra) = "stop" => sp
           /\ AfterEngine(sp, ra) = "retry" => ra
BY DEF Deadlines, AfterEngine

-----------------------------------------------------------------------------
\* A connection announced at the head of the queue finds no headset, and the one
\* taken off leaves the queue as truthful as it was.
LEMMA QueueHeadTaken ==
    ASSUME acl \in Seq(AclEvent), acl # <<>>, Announces(acl, lc), link \in BOOLEAN,
           NEW s, Present(s) <=> Head(acl) = "Connected"
    PROVE  Announces(Tail(acl), s)
<1> DEFINE q == Tail(acl)
<1>0. /\ Len(acl) \in Nat \ {0}
      /\ Head(acl) = acl[1] /\ Head(acl) \in AclEvent
      /\ q \in Seq(AclEvent)
      /\ Len(q) = Len(acl) - 1
  BY DEF AclEvent
<1>1. /\ \A i \in 1..Len(q) : q[i] = acl[i + 1]
      /\ q # <<>> => Head(q) = q[1]
      /\ q = <<>> <=> Len(q) = 0
  BY <1>0
<1>2. \A i \in 1..Len(q) - 1 : q[i] # q[i + 1]
  BY <1>0, <1>1 DEF Announces
<1>3. acl[Len(acl)] = (IF link THEN "Connected" ELSE "Disconnected")
  BY DEF Announces
<1>4. CASE q = <<>>
  <2>1. Len(acl) = 1
    BY <1>0, <1>1, <1>4
  <2>2. ~link => ~Present(s)
    BY <1>0, <1>3, <2>1
  <2> QED BY <1>2, <1>4, <2>2 DEF Announces
<1>5. CASE q # <<>>
  <2>1. Len(acl) >= 2 /\ Len(q) >= 1
    BY <1>0, <1>1, <1>5
  <2>2. q[Len(q)] = acl[Len(acl)]
    BY <1>0, <1>1, <2>1
  <2>3. acl[1] # acl[2] /\ q[1] = acl[2]
    <3>1. 1 \in 1..Len(acl) - 1
      BY <1>0, <1>1, <2>1
    <3> QED BY <1>0, <1>1, <2>1, <3>1 DEF Announces
  <2>4. Head(q) = "Connected" => ~Present(s)
    BY <1>0, <1>1, <1>5, <2>3
  <2> QED BY <1>2, <1>3, <1>5, <2>2, <2>4 DEF Announces
<1> QED BY <1>4, <1>5

-----------------------------------------------------------------------------
\* The loop goes on: a wake, a poll that found nothing, a deadline that is not due.
GoesOn == \/ AclWakes \/ AclDrained \/ SkipRenderPoll \/ RenderUnknown
          \/ NoEngineToPoll \/ NoWorkerEvent
          \/ EngineNotReady /\ phase' # "cleanup"
          \/ HfpPollNotDue \/ StopNotDue \/ RetryNotDue

\* The loop's own steps keep the invariant: a deadline's place is reached only
\* while the deadline is armed.
LEMMA GoesOnKeeps ==
    ASSUME HostInv, GoesOn
    PROVE  HostInv'
<1>1. InLoop /\ Moves
  BY DEF GoesOn, InLoop, Moves, Continue, AclWakes, AclDrained, SkipRenderPoll,
     TimeoutWakes, RenderUnknown, NoEngineToPoll, EngineNotReady, Fail,
     NoWorkerEvent, HfpPollNotDue, StopNotDue, RetryNotDue
<1>2. stopPending \in BOOLEAN /\ retryArmed \in BOOLEAN
  BY DEF HostInv, TypeOK
<1>3. phase' \in {"acl", "wait", "engine", "event", Deadlines(stopPending, retryArmed),
                  Deadlines(FALSE, retryArmed), AfterEngine(stopPending, retryArmed)}
  BY DEF GoesOn, Continue, AclWakes, AclDrained, SkipRenderPoll,
     RenderUnknown, NoEngineToPoll, EngineNotReady, Fail,
     NoWorkerEvent, HfpPollNotDue, StopNotDue, RetryNotDue
<1>4. /\ phase' \in HostPhase \ {"cleanup", "done"}
      /\ phase' = "stop" => stopPending
      /\ phase' = "retry" => retryArmed
  BY <1>2, <1>3, DeadlinesFit DEF HostPhase
<1> QED BY <1>1, <1>4, MovesKeep

\* A failure that is found between two handlers, or before the handler did anything,
\* changes nothing but the place and the cause.
Breaks == \/ StateWriteFails \/ PollFails \/ ArchiveFails
          \/ EngineNotReady /\ phase' = "cleanup"

\* Such a failure leads to the cleanup with the record as consistent as it was.
LEMMA BreaksKeeps ==
    ASSUME HostInv, Breaks
    PROVE  HostInv'
<1>1. InLoop
  BY DEF Breaks, InLoop, StateWriteFails, PollFails, TimeoutWakes, ArchiveFails,
     ObserveSignal, EngineNotReady
<1>2. /\ phase' = "cleanup"
      /\ fault' \in Fault \ ProtocolFault
      /\ UNCHANGED <<lc, tracker, stopPending, retryArmed, gate, hfp, endpoint,
                     worker, acl, envVars>>
  BY DEF Breaks, StateWriteFails, PollFails, ArchiveFails, EngineNotReady, Continue,
     Fail, Fault, ProtocolFault
<1>3. Typed'
  BY <1>1, <1>2, LoopParts DEF Typed, EnvType, envVars
<1> QED BY <1>1, <1>2, <1>3, LoopParts, GivingUp DEF Tied

-----------------------------------------------------------------------------
\* What the reducer answers to the event at the head of the queue: a connection
\* meets a blank record, a disconnection leaves one, and either is published.
LEMMA AclAnswer ==
    ASSUME NEW s, Good(s), AtRest(s), NEW connected \in BOOLEAN,
           connected => ~Present(s),
           NEW answer,
           answer = Reduce(s, IF connected THEN "AclConnected" ELSE "AclDisconnected")
    PROVE  /\ Fits(s, answer)
           /\ Present(answer.state) <=> connected
           /\ ~Running(answer.state)
           /\ answer.actions \cap {"PublishEndpointPresent",
                                   "PublishEndpointAbsent"} # {}
<1>1. Fits(s, answer)
  BY AclFits
<1>2. s \in LifecycleState
  BY DEF Good
<1>3. CASE connected
  <2>1. answer = OnAclConnected(s)
    BY <1>3, ReduceSwitch
  <2>2. /\ Present(OnAclConnected(s).state) /\ ~Running(OnAclConnected(s).state)
        /\ "PublishEndpointPresent" \in OnAclConnected(s).actions
    BY <1>2, <1>3 DEF OnAclConnected, Answer, Fresh, LifecycleState, Present, Running
  <2> QED BY <1>1, <1>3, <2>1, <2>2
<1>4. CASE ~connected
  <2>1. answer = OnAclDisconnected(s)
    BY <1>4, ReduceSwitch
  <2>2. /\ ~Present(OnAclDisconnected(s).state) /\ ~Running(OnAclDisconnected(s).state)
        /\ "PublishEndpointAbsent" \in OnAclDisconnected(s).actions
    BY <1>2 DEF OnAclDisconnected, DisconnectActions, Answer, Fresh, LifecycleState,
       Present, Running
  <2> QED BY <1>1, <1>4, <2>1, <2>2
<1> QED BY <1>3, <1>4

\* The queue's next event (HandleAclEvent): what belonged to the connection before
\* is forgotten in the same step, or the host gives up.
LEMMA HandleAclEventKeeps ==
    ASSUME HostInv, HandleAclEvent
    PROVE  HostInv'
<1> DEFINE connected == Head(acl) = "Connected"
           answer    == Reduce(lc, IF connected THEN "AclConnected"
                                                ELSE "AclDisconnected")
           publishes == answer.actions \cap {"PublishEndpointPresent",
                                             "PublishEndpointAbsent"} # {}
<1>1. /\ phase = "acl" /\ InLoop /\ acl # <<>> /\ acl' = Tail(acl)
      /\ UNCHANGED <<hfp, envVars>>
  BY DEF HandleAclEvent, InLoop
<1>2. /\ Tied(lc, worker, gate) /\ Typed /\ Tracks(tracker, stopPending, lc)
      /\ Announces(acl, lc)
      /\ retryArmed => Retries(lc)
      /\ fault \in Fault \ ProtocolFault
  BY <1>1, LoopParts
<1>3. connected => ~Present(lc)
  BY <1>1, <1>2 DEF Announces
<1>4. /\ Fits(lc, answer)
      /\ Present(answer.state) <=> connected
      /\ ~Running(answer.state)
      /\ publishes
  <2>1. connected \in BOOLEAN
    OBVIOUS
  <2>2. Good(lc) /\ AtRest(lc)
    BY <1>2 DEF Tied
  <2> HIDE DEF connected
  <2> QED BY <1>3, <2>1, <2>2, AclAnswer
<1>5. tracker' \in Tracker /\ stopPending' \in BOOLEAN /\ retryArmed' \in BOOLEAN
      /\ endpoint' \in BOOLEAN => Typed'
  <2>1. acl' \in Seq(AclEvent) /\ Len(acl') <= MaxQueue
    BY <1>1, <1>2 DEF Typed, MaxQueue
  <2> QED BY <1>1, <1>2, <2>1 DEF Typed, EnvType, envVars
<1>6. ASSUME ExecutionFails(answer.state, answer.actions),
             UNCHANGED <<tracker, stopPending, retryArmed, endpoint>>
      PROVE  HostInv'
  <2>1. /\ phase' = "cleanup" /\ fault' \in Fault \ ProtocolFault
        /\ Good(lc') /\ worker' \in Worker /\ Obeys(worker') /\ gate' \in Gate
    <3> HIDE DEF answer
    <3> QED BY <1>2, <1>4, <1>6, ExecutionFailsSafely DEF Fault, ProtocolFault
  <2>2. Typed'
    BY <1>2, <1>5, <1>6 DEF Typed
  <2> QED BY <2>1, <2>2, GivingUp
<1>7. ASSUME ExecuteEngineActions(answer.state, answer.actions)
      PROVE  Tied(lc', worker', gate') /\ SameOccasion(answer.state, lc')
  <2> HIDE DEF answer
  <2> QED BY <1>2, <1>4, <1>7, ExecutionTies
<1>8. ASSUME ExecuteEngineActions(answer.state, answer.actions),
             \/ "CancelTransport" \in answer.actions /\ Fail("archive")
                /\ UNCHANGED endpoint
             \/ publishes /\ PublishFails(connected, lc'.acl_generation),
             UNCHANGED <<tracker, stopPending, retryArmed>>
      PROVE  HostInv'
  <2>1. /\ phase' = "cleanup" /\ fault' \in Fault \ ProtocolFault
        /\ endpoint' \in BOOLEAN
    <3>1. endpoint \in BOOLEAN /\ connected \in BOOLEAN
      BY <1>2 DEF Typed
    <3> HIDE DEF connected, answer
    <3> QED BY <1>8, <3>1 DEF Fail, PublishFails, Fault, ProtocolFault
  <2>2. Typed'
    BY <1>2, <1>5, <1>8, <2>1 DEF Typed
  <2> QED BY <1>7, <1>8, <2>1, <2>2, GivingUp DEF Tied
<1>9. ASSUME ExecuteEngineActions(answer.state, answer.actions),
             endpoint' = IF publishes THEN connected ELSE endpoint,
             tracker' = IdleTracker,
             stopPending' = (stopPending /\ connected),
             retryArmed' = (retryArmed /\ connected),
             Continue("acl")
      PROVE  HostInv'
  <2>1. /\ Tied(lc', worker', gate')
        /\ Present(lc') <=> connected
        /\ ~Running(lc')
    BY <1>4, <1>7, <1>9 DEF SameOccasion, Present, Running
  <2>2. ~stopPending' /\ ~retryArmed'
    BY <1>2, <1>3, <1>9 DEF Tracks, Tied, AtRest, Retries, CanStart
  <2>3. Tracks(tracker', stopPending', lc')
    BY <1>9, <2>1, <2>2 DEF Tracks, IdleTracker
  <2>4. endpoint' <=> Present(lc')
    BY <1>4, <1>9, <2>1
  <2>5. Typed'
    <3>1. endpoint' \in BOOLEAN
      BY <1>4, <1>9
    <3> QED BY <1>2, <1>5, <1>9, <3>1 DEF Typed, Tracker, IdleTracker
  <2>6. Announces(acl, lc)'
    <3>1. Announces(Tail(acl), lc')
      BY <1>1, <1>2, <2>1, QueueHeadTaken DEF Typed, EnvType
    <3> QED BY <1>1, <3>1 DEF Announces, envVars
  <2>7. phase' = "acl" /\ fault' \in Fault \ ProtocolFault
    BY <1>2, <1>9 DEF Continue
  <2> QED BY <2>1, <2>2, <2>3, <2>4, <2>5, <2>6, <2>7, StayingIn DEF HostPhase
<1> HIDE DEF answer, publishes, connected
<1>10. \/ /\ ExecutionFails(answer.state, answer.actions)
          /\ UNCHANGED <<tracker, stopPending, retryArmed, endpoint>>
       \/ /\ ExecuteEngineActions(answer.state, answer.actions)
          /\ \/ /\ "CancelTransport" \in answer.actions
                /\ Fail("archive")
                /\ UNCHANGED endpoint
             \/ /\ publishes
                /\ PublishFails(connected, lc'.acl_generation)
          /\ UNCHANGED <<tracker, stopPending, retryArmed>>
       \/ /\ ExecuteEngineActions(answer.state, answer.actions)
          /\ endpoint' = IF publishes THEN connected ELSE endpoint
          /\ tracker' = IdleTracker
          /\ stopPending' = (stopPending /\ connected)
          /\ retryArmed' = (retryArmed /\ connected)
          /\ Continue("acl")
  BY DEF HandleAclEvent, answer, publishes, connected
<1> QED BY <1>6, <1>8, <1>9, <1>10

-----------------------------------------------------------------------------
\* What a handler of the timeout branch leaves alone.
Apart == UNCHANGED <<endpoint, acl, envVars>>

\* A handler of the timeout branch that goes on: the connection is the one it found.
LEMMA Handled ==
    ASSUME HostInv, InLoop, Apart, UNCHANGED fault,
           phase' \in HostPhase \ {"cleanup", "done"},
           tracker' \in Tracker, stopPending' \in BOOLEAN, retryArmed' \in BOOLEAN,
           hfp' \in HfpSwitchState(0..GenerationLimit),
           Tied(lc', worker', gate'),
           Present(lc') <=> Present(lc),
           Tracks(tracker', stopPending', lc'),
           retryArmed' => Retries(lc'),
           phase' = "stop" => stopPending',
           phase' = "retry" => retryArmed'
    PROVE  HostInv'
<1>1. /\ Typed /\ Announces(acl, lc)
      /\ fault \in Fault \ ProtocolFault
      /\ endpoint <=> Present(lc)
  BY LoopParts
<1>2. Typed'
  BY <1>1 DEF Apart, Typed, EnvType, envVars
<1>3. Announces(acl, lc)'
  BY <1>1 DEF Apart, Announces, envVars
<1>4. endpoint' <=> Present(lc')
  BY <1>1 DEF Apart
<1> QED BY <1>1, <1>2, <1>3, <1>4, StayingIn

\* A handler whose engine call fails gives up safely, whatever else it changed.
LEMMA HandlerFails ==
    ASSUME HostInv, InLoop, Apart, NEW answer, Fits(lc, answer),
           ExecutionFails(answer.state, answer.actions),
           tracker' \in Tracker, stopPending' \in BOOLEAN, retryArmed' \in BOOLEAN,
           hfp' \in HfpSwitchState(0..GenerationLimit)
    PROVE  HostInv'
<1>1. Typed /\ Tied(lc, worker, gate)
  BY LoopParts
<1>2. Typed'
  BY <1>1 DEF Apart, Typed, EnvType, envVars
<1>3. /\ phase' = "cleanup" /\ fault' \in Fault \ ProtocolFault
      /\ Good(lc') /\ worker' \in Worker /\ Obeys(worker') /\ gate' \in Gate
  BY <1>1, ExecutionFailsSafely DEF Fault, ProtocolFault
<1> QED BY <1>2, <1>3, GivingUp

\* A sample of the tracker is a tracker.
LEMMA ObservedIsTracker ==
    ASSUME tracker \in Tracker, NEW active \in BOOLEAN
    PROVE  /\ Observed(active) \in Tracker
           /\ Confirms(active) => Observed(active).stable = active
           /\ ~Confirms(active) => Observed(active).stable = tracker.stable
BY DEF Tracker, Observed, Confirms

\* The sampled demand is seen to be as it was, or music comes back before the stop
\* was classified: the demand the reducer knows is still the one that is tracked.
LEMMA RenderGoesOnKeeps ==
    ASSUME HostInv, RenderUnchanged \/ RenderResumes
    PROVE  HostInv'
<1>1. /\ InLoop /\ Apart /\ phase' = "engine"
      /\ UNCHANGED <<fault, lc, retryArmed, gate, hfp, worker>>
      /\ tracker' = Observed(Rendering)
  BY DEF RenderUnchanged, RenderResumes, TimeoutWakes, InLoop, Apart, Continue
<1>2. /\ Typed /\ Tied(lc, worker, gate)
      /\ Tracks(tracker, stopPending, lc)
      /\ retryArmed => Retries(lc)
  BY <1>1, LoopParts
<1>3. /\ tracker' \in Tracker
      /\ Confirms(Rendering) => tracker'.stable = Rendering
      /\ ~Confirms(Rendering) => tracker'.stable = tracker.stable
  BY <1>1, <1>2, ObservedIsTracker DEF Typed, Rendering
<1>4. stopPending' \in BOOLEAN /\ Tracks(tracker', stopPending', lc')
  <2>1. CASE RenderUnchanged
    BY <1>1, <1>2, <1>3, <2>1 DEF RenderUnchanged, Tracks, Typed
  <2>2. CASE RenderResumes
    <3>1. stopPending /\ stopPending' = FALSE /\ tracker'.stable
      BY <1>3, <2>2 DEF RenderResumes
    <3> QED BY <1>1, <1>2, <3>1 DEF Tracks
  <2> QED BY <2>1, <2>2
<1> QED
  BY <1>1, <1>2, <1>3, <1>4, Handled DEF Typed, HostPhase

\* Music is confirmed (RenderStarts): the demand is recorded, with an engine if one
\* can be started; an armed retry is left as it was.
LEMMA RenderStartsKeeps ==
    ASSUME HostInv, RenderStarts
    PROVE  HostInv'
<1> DEFINE answer == OnRenderStarted(lc)
<1>1. /\ InLoop /\ Apart /\ UNCHANGED <<stopPending, retryArmed, hfp>>
      /\ Present(lc) /\ Confirms(Rendering) /\ Rendering /\ ~stopPending
      /\ tracker' = Observed(Rendering)
  BY DEF RenderStarts, TimeoutWakes, InLoop, Apart
<1>2. \/ ExecuteEngineActions(answer.state, answer.actions) /\ Continue("engine")
      \/ ExecutionFails(answer.state, answer.actions)
  BY ReduceSwitch DEF RenderStarts
<1>3. /\ Typed /\ Tied(lc, worker, gate)
      /\ Tracks(tracker, stopPending, lc)
      /\ retryArmed => Retries(lc)
  BY <1>1, LoopParts
<1>4. tracker' \in Tracker /\ tracker'.stable
  BY <1>1, <1>3, ObservedIsTracker DEF Typed, Rendering
<1>5. /\ Fits(lc, answer)
      /\ Present(answer.state) /\ Running(answer.state)
      /\ "StopEngine" \notin answer.actions
      /\ Retries(lc) => answer.state = lc /\ answer.actions = {}
  BY <1>1, <1>3, RenderStartedFits DEF Tied
<1> HIDE DEF answer
<1>6. CASE ExecutionFails(answer.state, answer.actions)
  BY <1>1, <1>3, <1>4, <1>5, <1>6, HandlerFails DEF Typed
<1>7. CASE ExecuteEngineActions(answer.state, answer.actions) /\ Continue("engine")
  <2>1. Tied(lc', worker', gate') /\ lc' = answer.state
    BY <1>3, <1>5, <1>7, ExecutionTies
  <2>2. Tracks(tracker', stopPending', lc')
    BY <1>1, <1>4, <1>5, <2>1 DEF Tracks
  <2>3. retryArmed' => Retries(lc')
    BY <1>1, <1>3, <1>5, <2>1
  <2>4. phase' = "engine" /\ fault' = fault
    BY <1>7 DEF Continue
  <2> QED
    BY <1>1, <1>3, <1>4, <1>5, <2>1, <2>2, <2>3, <2>4, Handled DEF Typed, HostPhase
<1> QED BY <1>2, <1>6, <1>7

\* The end of the music while it streams (RenderStopDeferred) is not reduced: the
\* demand stays, on the account of the deferred stop or of a paused player.
LEMMA RenderStopDeferredKeeps ==
    ASSUME HostInv, RenderStopDeferred
    PROVE  HostInv'
<1>1. /\ InLoop /\ Apart /\ UNCHANGED <<fault, lc, gate, hfp, worker>>
      /\ Confirms(Rendering) /\ ~Rendering
      /\ lc.media_session = "Streaming"
      /\ tracker' = Observed(Rendering)
      /\ stopPending' = (stopPending \/ ~PausedMedia)
      /\ ~retryArmed' /\ retryArmed' \in BOOLEAN
      /\ phase' = "engine"
  BY DEF RenderStopDeferred, TimeoutWakes, InLoop, Apart, Continue
<1>2. /\ Typed /\ Tied(lc, worker, gate) /\ Tracks(tracker, stopPending, lc)
  BY <1>1, LoopParts
<1>3. tracker' \in Tracker /\ ~tracker'.stable
  BY <1>1, <1>2, ObservedIsTracker DEF Typed, Rendering
<1>4. stopPending' \in BOOLEAN
  BY <1>1
<1>5. Running(lc)
  BY <1>1, <1>2 DEF Tied, Good, Consistent, StreamingIsWanted
<1>6. Tracks(tracker', stopPending', lc')
  BY <1>1, <1>3, <1>5 DEF Tracks, PausedMedia
<1> QED BY <1>1, <1>2, <1>3, <1>4, <1>6, Handled DEF Typed, HostPhase

\* The end of the demand is reduced, by the poll, by the deferred stop that came due
\* or by the daily stop: demand, deferred stop and armed retry end together.
LEMMA StopReduced ==
    ASSUME HostInv, InLoop, Apart, UNCHANGED hfp,
           NEW answer, answer = OnRenderStopped(lc),
           ExecuteEngineActions(answer.state, answer.actions),
           tracker' \in Tracker, ~tracker'.stable,
           stopPending' = FALSE, retryArmed' = FALSE,
           UNCHANGED fault, phase' \in {"wait", "engine", "cleanup"}
    PROVE  HostInv'
<1>1. /\ Typed /\ Tied(lc, worker, gate) /\ fault \in Fault \ ProtocolFault
  BY LoopParts
<1>2. /\ Fits(lc, answer)
      /\ Present(answer.state) = Present(lc) /\ ~Running(answer.state)
  BY <1>1, RenderStoppedFits DEF Tied
<1>3. Tied(lc', worker', gate') /\ SameOccasion(answer.state, lc')
  BY <1>1, <1>2, ExecutionTies
<1>4. (Present(lc') <=> Present(lc)) /\ ~Running(lc')
  BY <1>2, <1>3 DEF SameOccasion, Present, Running
<1>5. Tracks(tracker', stopPending', lc')
  BY <1>4 DEF Tracks
<1>6. CASE phase' = "cleanup"
  <2>1. Typed'
    BY <1>1 DEF Typed, EnvType, Apart, envVars
  <2> QED BY <1>1, <1>3, <1>6, <2>1, GivingUp DEF Tied
<1>7. CASE phase' # "cleanup"
  <2>1. stopPending' \in BOOLEAN /\ retryArmed' \in BOOLEAN
    OBVIOUS
  <2> QED BY <1>1, <1>3, <1>4, <1>5, <1>7, <2>1, Handled DEF Typed, HostPhase
<1> QED BY <1>6, <1>7

\* The poll finds the music ended before it streamed.
LEMMA RenderStopsKeeps ==
    ASSUME HostInv, RenderStops
    PROVE  HostInv'
<1> DEFINE answer == OnRenderStopped(lc)
<1>1. /\ InLoop /\ Apart /\ UNCHANGED <<stopPending, hfp>>
      /\ Confirms(Rendering) /\ ~Rendering
      /\ tracker' = Observed(Rendering)
  BY DEF RenderStops, TimeoutWakes, InLoop, Apart
<1>2. \/ /\ ExecuteEngineActions(answer.state, answer.actions)
         /\ retryArmed' = FALSE /\ Continue("engine")
      \/ /\ ExecutionFails(answer.state, answer.actions) /\ UNCHANGED retryArmed
  BY ReduceSwitch DEF RenderStops
<1>3. /\ Typed /\ Tied(lc, worker, gate) /\ Tracks(tracker, stopPending, lc)
  BY <1>1, LoopParts
<1>4. tracker' \in Tracker /\ ~tracker'.stable
  BY <1>1, <1>3, ObservedIsTracker DEF Typed, Rendering
<1>5. ~stopPending
  BY <1>1, <1>3 DEF Tracks, Confirms, Typed, Tracker, Rendering
<1>6. Fits(lc, answer)
  BY <1>3, RenderStoppedFits DEF Tied
<1>7. CASE ExecutionFails(answer.state, answer.actions) /\ UNCHANGED retryArmed
  <2> HIDE DEF answer
  <2> QED BY <1>1, <1>3, <1>4, <1>6, <1>7, HandlerFails DEF Typed
<1>8. CASE /\ ExecuteEngineActions(answer.state, answer.actions)
           /\ retryArmed' = FALSE /\ Continue("engine")
  <2>1. stopPending' = FALSE
    BY <1>1, <1>3, <1>5 DEF Typed
  <2>2. phase' = "engine" /\ UNCHANGED fault
    BY <1>8 DEF Continue
  <2>3. answer = OnRenderStopped(lc)
    OBVIOUS
  <2> HIDE DEF answer
  <2> QED BY <1>1, <1>4, <1>8, <2>1, <2>2, <2>3, StopReduced
<1> QED BY <1>2, <1>7, <1>8

-----------------------------------------------------------------------------
\* The worker's handshake (PollContainedEngine): the engine that was started may
\* open, so that the gate is armed for the session the reducer began.
LEMMA EngineBecomesReadyKeeps ==
    ASSUME HostInv, EngineBecomesReady
    PROVE  HostInv'
<1> DEFINE t == OnEngineReady(lc).state
<1>1. /\ InLoop /\ Apart /\ phase' = "event"
      /\ UNCHANGED <<fault, tracker, stopPending, retryArmed, hfp>>
      /\ EngineActive /\ ~worker.ready_seen
      /\ worker' = [worker EXCEPT !.ready_seen = TRUE, !.signals = @ \ {"ready"}]
  BY DEF EngineBecomesReady, InLoop, Apart, Continue
<1>2. /\ Typed /\ Tied(lc, worker, gate)
      /\ Tracks(tracker, stopPending, lc)
      /\ retryArmed => Retries(lc)
  BY <1>1, LoopParts
<1>3. MayOpen(lc) /\ lc \in LifecycleState
  BY <1>1, <1>2 DEF Tied, Contains, Good, Policy, AtRest, MayOpen, EngineActive,
     Leased, LifecycleState
<1>4. /\ t.engine_lease = "Ready" /\ t.media_session = "Opening"
      /\ t.acl_generation = lc.acl_generation
      /\ Present(t) /\ Running(t) = Running(lc)
      /\ "OpenTransport" \in OnEngineReady(lc).actions
  BY <1>3 DEF OnEngineReady, Answer, MayOpen, LifecycleState, Present, Running
<1>5. Good(t)
  <2>1. Good(Reduce(lc, "EngineReady").state)
    BY <1>2, ReduceIsGood DEF Event, Tied
  <2> QED BY <2>1, ReduceSwitch
<1>6. /\ lc' = t
      /\ gate' = [pending |-> TRUE, observing |-> Running(t),
                  generation |-> t.acl_generation]
  BY <1>4, ReduceSwitch DEF EngineBecomesReady
<1> HIDE DEF t
<1>7. /\ worker' \in Worker /\ Obeys(worker')
      /\ worker'.ready_seen /\ ~worker'.authorized /\ worker'.phase = worker.phase
      /\ worker'.generation = worker.generation
  <2>1. worker'.signals \subseteq worker.signals
    BY <1>1, <1>2 DEF Tied, Worker
  <2> QED BY <1>1, <1>2, <2>1 DEF Tied, Worker, Obeys, EngineActive
<1>8. Contains(lc', worker')
  BY <1>1, <1>2, <1>4, <1>6, <1>7 DEF Contains, Leased, Tied, EngineActive
<1>9. gate' \in Gate /\ Guards(gate', lc', worker')
  BY <1>4, <1>5, <1>6, <1>7 DEF Gate, Guards, Running, Good, LifecycleState
<1>10. AtRest(lc')
  BY <1>4, <1>6 DEF AtRest
<1>11. Tied(lc', worker', gate')
  BY <1>5, <1>6, <1>7, <1>8, <1>9, <1>10 DEF Tied
<1>12. Present(lc') <=> Present(lc)
  BY <1>3, <1>4, <1>6 DEF MayOpen
<1>13. Tracks(tracker', stopPending', lc')
  BY <1>1, <1>2, <1>4, <1>6 DEF Tracks
<1>14. ~retryArmed'
  BY <1>1, <1>2, <1>3 DEF Retries, CanStart, MayOpen, Leased, Typed
<1> QED
  BY <1>1, <1>2, <1>11, <1>12, <1>13, <1>14, Handled DEF Typed, HostPhase

\* The gate observes (ObserveV1TransportOpenStability) and is dropped when the
\* connection is another one.
LEMMA GateWaitsKeeps ==
    ASSUME HostInv, GateWaits
    PROVE  HostInv'
<1>1. /\ InLoop /\ Apart /\ phase' = "event"
      /\ UNCHANGED <<fault, lc, tracker, stopPending, retryArmed, hfp, worker>>
      /\ gate' = IF gate.pending THEN ObservedGate ELSE gate
  BY DEF GateWaits, InLoop, Apart, Continue
<1>2. /\ Typed /\ Tied(lc, worker, gate)
      /\ Tracks(tracker, stopPending, lc)
      /\ retryArmed => Retries(lc)
  BY <1>1, LoopParts
<1>3. gate' \in Gate /\ (gate'.pending => gate.pending)
      /\ (gate'.pending => gate'.generation = gate.generation)
  <2>1. gate \in Gate /\ Running(lc) \in BOOLEAN
    BY <1>2 DEF Tied, Running
  <2>2. NoGate \in Gate /\ ~NoGate.pending
    BY LifecycleConstants DEF NoGate, Gate
  <2>3. CASE gate' = gate
    BY <2>1, <2>3
  <2>4. CASE gate' = NoGate
    BY <2>2, <2>4
  <2>5. CASE gate' = [gate EXCEPT !.observing = Running(lc)]
    BY <2>1, <2>5 DEF Gate
  <2> QED BY <1>1, <2>3, <2>4, <2>5 DEF ObservedGate
<1>4. Tied(lc', worker', gate')
  BY <1>1, <1>2, <1>3 DEF Tied, Guards
<1> QED BY <1>1, <1>2, <1>4, Handled DEF Typed, HostPhase

\* The gate opens once: the worker it guards is not authorized yet.
LEMMA GateOpensKeeps ==
    ASSUME HostInv, GateOpens
    PROVE  HostInv'
<1>1. /\ InLoop /\ Apart
      /\ UNCHANGED <<lc, tracker, stopPending, retryArmed, hfp>>
      /\ gate.pending /\ gate' = NoGate
  BY DEF GateOpens, InLoop, Apart
<1>2. /\ Typed /\ Tied(lc, worker, gate)
      /\ Tracks(tracker, stopPending, lc)
      /\ retryArmed => Retries(lc)
  BY <1>1, LoopParts
<1>3. worker.ready_seen /\ ~worker.authorized
  BY <1>1, <1>2 DEF Tied, Guards
<1>4. NoGate \in Gate /\ ~NoGate.pending
  BY LifecycleConstants DEF NoGate, Gate
<1>5. CASE worker' = [worker EXCEPT !.authorized = TRUE] /\ Continue("event")
  <2>1. /\ worker' \in Worker /\ Obeys(worker')
        /\ worker'.phase = worker.phase /\ worker'.ready_seen = worker.ready_seen
        /\ worker'.generation = worker.generation
    <3>1. worker.phase # "none"
      BY <1>2, <1>3 DEF Tied, Obeys, NoWorker
    <3> QED BY <1>2, <1>3, <1>5, <3>1 DEF Tied, Worker, Obeys
  <2>2. Tied(lc', worker', gate')
    BY <1>1, <1>2, <1>4, <2>1 DEF Tied, Contains, Guards
  <2> QED BY <1>1, <1>2, <1>5, <2>2, Handled DEF Typed, HostPhase, Continue
<1>6. CASE Fail("authorization") /\ UNCHANGED worker
  <2>1. Typed'
    BY <1>1, <1>2 DEF Typed, EnvType, Apart, envVars
  <2> QED
    BY <1>1, <1>2, <1>4, <1>6, <2>1, GivingUp DEF Tied, Fail, Fault, ProtocolFault
<1> QED BY <1>3, <1>5, <1>6 DEF GateOpens

-----------------------------------------------------------------------------
\* What a worker said of its transport it said with an authorization: its engine is
\* ready, no gate is pending and no retry is armed.
LEMMA SpokenFor ==
    ASSUME HostInv, InLoop, NEW signal \in {"retryable", "failed", "started"},
           ObserveSignal(signal)
    PROVE  /\ lc.engine_lease = "Ready" /\ worker.authorized
           /\ ~gate.pending /\ ~retryArmed
<1>1. /\ Tied(lc, worker, gate)
      /\ retryArmed => Retries(lc)
  BY LoopParts
<1>2. worker.authorized
  BY <1>1 DEF ObserveSignal, Tied, Obeys
<1>3. lc.engine_lease = "Ready"
  BY <1>1, <1>2 DEF Tied, Obeys, Contains
<1> QED BY <1>1, <1>2, <1>3 DEF Tied, Guards, Retries, CanStart, Leased

\* The headset refused the open (OpenRefused): the worker goes, and a retry is armed
\* only if it is wanted and paid for.
LEMMA OpenRefusedKeeps ==
    ASSUME HostInv, OpenRefused
    PROVE  HostInv'
<1> DEFINE answer == OnTransportRetryableFailure(lc)
<1>1. /\ InLoop /\ Apart /\ ObserveSignal("retryable")
      /\ UNCHANGED <<tracker, stopPending, hfp>>
  BY DEF OpenRefused, ObserveSignal, InLoop, Apart
<1>2. \/ /\ ExecuteEngineActions(answer.state, answer.actions)
         /\ retryArmed' = (retryArmed \/ "ScheduleTransportRetry" \in answer.actions)
         /\ Continue(AfterEngine(stopPending, retryArmed'))
      \/ /\ ExecutionFails(answer.state, answer.actions) /\ UNCHANGED retryArmed
  BY ReduceSwitch DEF OpenRefused
<1>3. /\ Typed /\ Tied(lc, worker, gate) /\ Tracks(tracker, stopPending, lc)
  BY <1>1, LoopParts
<1>4. lc.engine_lease = "Ready" /\ ~retryArmed
  BY <1>1, SpokenFor
<1>5. /\ Fits(lc, answer)
      /\ Present(answer.state) = Present(lc) /\ Running(answer.state) = Running(lc)
      /\ "StopEngine" \in answer.actions /\ StopMode(answer.actions) = "CancelTransport"
      /\ "ScheduleTransportRetry" \in answer.actions => Retries(answer.state)
  BY <1>3, <1>4, RetryableFailureFits DEF Tied
<1> HIDE DEF answer
<1>6. CASE ExecutionFails(answer.state, answer.actions) /\ UNCHANGED retryArmed
  BY <1>1, <1>3, <1>5, <1>6, HandlerFails DEF Typed
<1>7. CASE /\ ExecuteEngineActions(answer.state, answer.actions)
           /\ retryArmed' = (retryArmed \/ "ScheduleTransportRetry" \in answer.actions)
           /\ Continue(AfterEngine(stopPending, retryArmed'))
  <2>1. Tied(lc', worker', gate') /\ lc' = answer.state
    <3>1. /\ Tied(lc', worker', gate')
          /\ lc' = AfterStop(answer.state, "CancelTransport")
      BY <1>3, <1>5, <1>7, ExecutionTies
    <3> QED BY <3>1 DEF AfterStop
  <2>2. Tracks(tracker', stopPending', lc') /\ (Present(lc') <=> Present(lc))
    BY <1>1, <1>3, <1>5, <2>1 DEF Tracks
  <2>3. retryArmed' \in BOOLEAN /\ (retryArmed' => Retries(lc'))
    BY <1>4, <1>5, <1>7, <2>1
  <2>4. /\ phase' \in {"hfp", "stop", "retry", "wait"}
        /\ phase' = "stop" => stopPending'
        /\ phase' = "retry" => retryArmed'
    BY <1>1, <1>3, <1>7, <2>3, DeadlinesFit DEF Continue, Typed
  <2>5. fault' = fault
    BY <1>7 DEF Continue
  <2> QED
    BY <1>1, <1>3, <2>1, <2>2, <2>3, <2>4, <2>5, Handled DEF Typed, HostPhase
<1> QED BY <1>2, <1>6, <1>7

\* The transport failed (TransportFails): the worker goes with its session.
LEMMA TransportFailsKeeps ==
    ASSUME HostInv, TransportFails
    PROVE  HostInv'
<1> DEFINE answer == OnMediaFailed(lc)
<1>1. /\ InLoop /\ Apart /\ ObserveSignal("failed")
      /\ UNCHANGED <<tracker, stopPending, retryArmed, hfp>>
  BY DEF TransportFails, ObserveSignal, InLoop, Apart
<1>2. \/ /\ ExecuteEngineActions(answer.state, answer.actions)
         /\ Continue(AfterEngine(stopPending, retryArmed))
      \/ ExecutionFails(answer.state, answer.actions)
  BY ReduceSwitch DEF TransportFails
<1>3. /\ Typed /\ Tied(lc, worker, gate) /\ Tracks(tracker, stopPending, lc)
  BY <1>1, LoopParts
<1>4. lc.engine_lease = "Ready" /\ ~retryArmed
  BY <1>1, SpokenFor
<1>5. /\ Fits(lc, answer)
      /\ Present(answer.state) = Present(lc) /\ Running(answer.state) = Running(lc)
  BY <1>3, <1>4, MediaFailedFits DEF Tied
<1> HIDE DEF answer
<1>6. CASE ExecutionFails(answer.state, answer.actions)
  BY <1>1, <1>3, <1>5, <1>6, HandlerFails DEF Typed
<1>7. CASE /\ ExecuteEngineActions(answer.state, answer.actions)
           /\ Continue(AfterEngine(stopPending, retryArmed))
  <2>1. Tied(lc', worker', gate') /\ SameOccasion(answer.state, lc')
    BY <1>3, <1>5, <1>7, ExecutionTies
  <2>2. Tracks(tracker', stopPending', lc') /\ (Present(lc') <=> Present(lc))
    BY <1>1, <1>3, <1>5, <2>1 DEF Tracks, SameOccasion, Present, Running
  <2>3. /\ phase' \in {"hfp", "stop", "retry", "wait"}
        /\ phase' = "stop" => stopPending'
        /\ phase' = "retry" => retryArmed'
        /\ fault' = fault
    BY <1>1, <1>3, <1>7, DeadlinesFit DEF Continue, Typed
  <2> QED
    BY <1>1, <1>3, <1>4, <2>1, <2>2, <2>3, Handled DEF Typed, HostPhase
<1> QED BY <1>2, <1>6, <1>7

\* The transport plays (MediaStarts): no gate is pending any more.
LEMMA MediaStartsKeeps ==
    ASSUME HostInv, MediaStarts
    PROVE  HostInv'
<1> DEFINE t == OnMediaStarted(lc).state
<1>1. /\ InLoop /\ Apart /\ ObserveSignal("started")
      /\ UNCHANGED <<tracker, stopPending, retryArmed, gate, hfp>>
      /\ worker' = [worker EXCEPT !.signals = @ \ {"started"}]
      /\ phase' = AfterEngine(stopPending, retryArmed) /\ fault' = fault
  BY DEF MediaStarts, ObserveSignal, InLoop, Apart, Continue
<1>2. /\ Typed /\ Tied(lc, worker, gate) /\ Tracks(tracker, stopPending, lc)
  BY <1>1, LoopParts
<1>3. lc.engine_lease = "Ready" /\ ~gate.pending /\ ~retryArmed /\ worker.authorized
  BY <1>1, SpokenFor
<1>4. lc' = t
  BY ReduceSwitch DEF MediaStarts
<1>5. Good(t)
  <2>1. Good(Reduce(lc, "MediaStarted").state)
    BY <1>2, ReduceIsGood DEF Event, Tied
  <2> QED BY <2>1, ReduceSwitch
<1>6. /\ t.engine_lease = lc.engine_lease /\ t.acl_generation = lc.acl_generation
      /\ Present(t) = Present(lc) /\ Running(t) = Running(lc)
      /\ t.media_session \in {lc.media_session, "Streaming"}
      /\ AtRest(t)
  BY <1>2, <1>3 DEF OnMediaStarted, Answer, Tied, Good, LifecycleState, AtRest,
     Present, Running
<1> HIDE DEF t
<1>7. /\ worker' \in Worker /\ Obeys(worker')
      /\ worker'.phase = worker.phase /\ worker'.ready_seen = worker.ready_seen
      /\ worker'.generation = worker.generation
  <2>1. worker'.signals \subseteq worker.signals
    BY <1>1, <1>2 DEF Tied, Worker
  <2>2. worker.phase # "none"
    BY <1>2, <1>3 DEF Tied, Contains, Leased
  <2> QED BY <1>1, <1>2, <2>1, <2>2 DEF Tied, Worker, Obeys
<1>8. Tied(lc', worker', gate')
  BY <1>1, <1>2, <1>3, <1>4, <1>5, <1>6, <1>7 DEF Tied, Contains, Guards, Leased
<1>9. Tracks(tracker', stopPending', lc') /\ (Present(lc') <=> Present(lc))
  BY <1>1, <1>2, <1>4, <1>6 DEF Tracks
<1>10. /\ phase' \in {"hfp", "stop", "retry", "wait"}
       /\ phase' = "stop" => stopPending'
       /\ phase' = "retry" => retryArmed'
  BY <1>1, <1>2, DeadlinesFit DEF Typed
<1> QED
  BY <1>1, <1>2, <1>3, <1>8, <1>9, <1>10, Handled DEF Typed, HostPhase

\* The worker's exit is noticed (WorkerExitNoticed): the agent gives up.
LEMMA WorkerExitKeeps ==
    ASSUME HostInv, WorkerExitNoticed
    PROVE  HostInv'
<1>1. /\ InLoop /\ Apart /\ UNCHANGED <<tracker, stopPending, retryArmed, hfp>>
      /\ phase' = "cleanup" /\ fault' \in Fault \ ProtocolFault
      /\ lc' = Reduce(lc, "EngineExited").state
      /\ worker' = NoWorker /\ gate' = NoGate
  BY DEF WorkerExitNoticed, InLoop, Apart, Fail, Fault, ProtocolFault
<1>2. Typed /\ Good(lc)
  BY <1>1, LoopParts DEF Tied
<1>3. Typed'
  BY <1>1, <1>2 DEF Typed, EnvType, Apart, envVars
<1>4. Good(lc')
  BY <1>1, <1>2, ReduceIsGood DEF Event
<1>5. NoWorker \in Worker /\ Obeys(NoWorker) /\ NoGate \in Gate
  BY LifecycleConstants DEF NoWorker, Worker, WorkerPhase, Obeys, NoGate, Gate
<1> QED BY <1>1, <1>3, <1>4, <1>5, GivingUp

-----------------------------------------------------------------------------
\* The switch asks LDAC to stop only while some resource of its path is held, and
\* its state keeps its type (V1HfpSwitchState::Step).
LEMMA HfpStepStops ==
    ASSUME NEW G, NEW h \in HfpSwitchState(G),
           NEW input \in [generation : G, connected : BOOLEAN, capture_active : BOOLEAN,
                          ldac_path_active : BOOLEAN, render_demand : BOOLEAN,
                          delay_elapsed : BOOLEAN]
    PROVE  /\ HfpStep(h, input).switch \in HfpSwitchState(G)
           /\ "StopLdac" \in HfpStep(h, input).actions => input.ldac_path_active
<1> DEFINE moved   == input.generation # h.generation
           current == IF moved
                      THEN Reset([h EXCEPT !.generation = input.generation],
                                 input.connected)
                      ELSE h
           ready   == IF current.phase = "Disconnected"
                      THEN [current EXCEPT !.phase = "LdacAvailable"]
                      ELSE current
           closing == ExitIf(h.output /\ (moved \/ ~input.connected))
           gone    == Reset(current, FALSE)
           next    == IF input.capture_active
                      THEN WhileCapturing(ready, input)
                      ELSE WhileReleased(ready, input)
<1>1. current \in HfpSwitchState(G)
  BY DEF HfpSwitchState, HfpPhase, Reset
<1>2. gone \in HfpSwitchState(G)
  <2> HIDE DEF current
  <2> QED BY <1>1 DEF HfpSwitchState, HfpPhase, Reset
<1>3. ready \in HfpSwitchState(G)
  <2> HIDE DEF current
  <2> QED BY <1>1 DEF HfpSwitchState, HfpPhase
<1>4. "StopLdac" \notin closing
  BY DEF ExitIf
<1>5. /\ next.switch \in HfpSwitchState(G)
      /\ "StopLdac" \in next.actions => input.ldac_path_active
      /\ next = [switch |-> next.switch, actions |-> next.actions, stale |-> FALSE]
  <2> HIDE DEF ready
  <2>1. CASE input.capture_active
    BY <1>3, <2>1 DEF WhileCapturing, Decision, HfpSwitchState, HfpPhase
  <2>2. CASE ~input.capture_active
    BY <1>3, <2>2 DEF WhileReleased, Decision, HfpSwitchState, HfpPhase, ExitIf
  <2> QED BY <2>1, <2>2
<1> HIDE DEF current, next, closing, moved, gone
<1>6. HfpStep(h, input) \in
          {[Decision(h, {}) EXCEPT !.stale = TRUE],
           Decision(gone, closing),
           [next EXCEPT !.actions = @ \cup closing]}
  BY DEF HfpStep, current, next, closing, moved, gone
<1>7. CASE HfpStep(h, input) = [Decision(h, {}) EXCEPT !.stale = TRUE]
  BY <1>7 DEF Decision
<1>8. CASE HfpStep(h, input) = Decision(gone, closing)
  BY <1>2, <1>4, <1>8 DEF Decision
<1>9. CASE HfpStep(h, input) = [next EXCEPT !.actions = @ \cup closing]
  <2>1. /\ HfpStep(h, input).switch = next.switch
        /\ HfpStep(h, input).actions = next.actions \cup closing
    BY <1>5, <1>9
  <2> QED BY <1>4, <1>5, <2>1
<1> QED BY <1>6, <1>7, <1>8, <1>9

\* The HFP poll: a call takes the engine away only when there is one, so that an
\* armed retry survives it; the end of a call finds no retry to disturb.
LEMMA PollHfpKeeps ==
    ASSUME HostInv, NEW elapsed \in BOOLEAN, PollHfp(elapsed)
    PROVE  HostInv'
<1> DEFINE input == [generation       |-> lc.acl_generation,
                     connected        |-> Present(lc),
                     capture_active   |-> mic,
                     ldac_path_active |-> LdacPathActive(lc),
                     render_demand    |-> Running(lc),
                     delay_elapsed    |-> elapsed]
           decision == HfpStep(hfp, input)
           event    == HfpLifecycleEvent(decision, lc.acl_generation)
           answer   == IF event = "none" THEN Answer(lc, {}) ELSE Reduce(lc, event)
<1>1. /\ InLoop /\ Apart /\ UNCHANGED <<tracker, stopPending, retryArmed>>
      /\ hfp' = decision.switch
      /\ \/ ExecuteEngineActions(answer.state, answer.actions)
            /\ Continue(Deadlines(stopPending, retryArmed))
         \/ ExecutionFails(answer.state, answer.actions)
  BY DEF PollHfp, InLoop, Apart
<1>2. /\ Typed /\ Tied(lc, worker, gate) /\ Tracks(tracker, stopPending, lc)
      /\ retryArmed => Retries(lc)
  BY <1>1, LoopParts
<1>3. /\ hfp' \in HfpSwitchState(0..GenerationLimit)
      /\ "StopLdac" \in decision.actions => LdacPathActive(lc)
  <2>1. input \in [generation : 0..GenerationLimit, connected : BOOLEAN,
                   capture_active : BOOLEAN, ldac_path_active : BOOLEAN,
                   render_demand : BOOLEAN, delay_elapsed : BOOLEAN]
    <3>1. lc.acl_generation \in 0..GenerationLimit /\ mic \in BOOLEAN
      BY <1>2 DEF Tied, Good, LifecycleState, Typed, EnvType
    <3>2. /\ Present(lc) \in BOOLEAN /\ LdacPathActive(lc) \in BOOLEAN
          /\ Running(lc) \in BOOLEAN
      BY DEF Present, LdacPathActive, Running
    <3> QED BY <3>1, <3>2
  <2>2. input.ldac_path_active = LdacPathActive(lc)
    OBVIOUS
  <2>3. hfp \in HfpSwitchState(0..GenerationLimit)
    BY <1>2 DEF Typed
  <2> HIDE DEF input
  <2> QED BY <1>1, <2>1, <2>2, <2>3, HfpStepStops
<1>4. /\ event \in {"none", "HfpSuspendLdac", "HfpResumeLdac"}
      /\ event = "HfpSuspendLdac" => LdacPathActive(lc)
  <2> HIDE DEF decision
  <2> QED BY <1>3 DEF HfpLifecycleEvent
<1> HIDE DEF event
<1>5. /\ Fits(lc, answer)
      /\ Present(answer.state) <=> Present(lc)
      /\ Running(answer.state) <=> Running(lc)
      /\ retryArmed => answer.state = lc /\ answer.actions = {}
  <2>1. Good(lc) /\ AtRest(lc)
    BY <1>2 DEF Tied
  <2>2. retryArmed => ~LdacPathActive(lc) /\ ~lc.hfp_suspended
    BY <1>2 DEF Retries, CanStart, LdacPathActive, Live
  <2>3. CASE event = "none"
    <3>1. answer.state = lc /\ answer.actions = {}
      BY <2>3 DEF Answer
    <3> HIDE DEF answer
    <3> QED BY <2>1, <3>1 DEF Fits
  <2>4. CASE event = "HfpSuspendLdac"
    <3>1. answer = OnHfpSuspendLdac(lc) /\ ~retryArmed
      BY <1>4, <2>2, <2>4, ReduceSwitch
    <3> HIDE DEF answer
    <3> QED BY <2>1, <3>1, HfpSuspendFits
  <2>5. CASE event = "HfpResumeLdac"
    <3>1. answer = OnHfpResumeLdac(lc)
      BY <2>5, ReduceSwitch
    <3> HIDE DEF answer
    <3> QED BY <2>1, <2>2, <3>1, HfpResumeFits
  <2> QED BY <1>4, <2>3, <2>4, <2>5
<1> HIDE DEF answer, decision
<1>6. CASE ExecutionFails(answer.state, answer.actions)
  BY <1>1, <1>2, <1>3, <1>5, <1>6, HandlerFails DEF Typed
<1>7. CASE ExecuteEngineActions(answer.state, answer.actions)
           /\ Continue(Deadlines(stopPending, retryArmed))
  <2>1. /\ Tied(lc', worker', gate') /\ SameOccasion(answer.state, lc')
        /\ "StopEngine" \notin answer.actions => lc' = answer.state
    BY <1>2, <1>5, <1>7, ExecutionTies
  <2>2. Tracks(tracker', stopPending', lc') /\ (Present(lc') <=> Present(lc))
    BY <1>1, <1>2, <1>5, <2>1 DEF Tracks, SameOccasion, Present, Running
  <2>3. retryArmed' => Retries(lc')
    BY <1>1, <1>2, <1>5, <2>1
  <2>4. /\ phase' \in {"stop", "retry", "wait"}
        /\ phase' = "stop" => stopPending'
        /\ phase' = "retry" => retryArmed'
        /\ fault' = fault
    BY <1>1, <1>2, <1>7, DeadlinesFit DEF Continue, Typed
  <2> QED
    BY <1>1, <1>2, <1>3, <2>1, <2>2, <2>3, <2>4, Handled DEF Typed, HostPhase
<1> QED BY <1>1, <1>6, <1>7

\* The deferred stop comes due (ClassifyStop): it was one.
LEMMA ClassifyStopKeeps ==
    ASSUME HostInv, ClassifyStop
    PROVE  HostInv'
<1> DEFINE answer == OnRenderStopped(lc)
<1>1. /\ InLoop /\ Apart /\ UNCHANGED <<tracker, hfp>>
      /\ phase = "stop" /\ stopPending' = FALSE
  BY DEF ClassifyStop, InLoop, Apart
<1>2. \/ /\ ExecuteEngineActions(answer.state, answer.actions)
         /\ retryArmed' = FALSE /\ Continue("wait")
      \/ /\ ExecutionFails(answer.state, answer.actions) /\ UNCHANGED retryArmed
  BY ReduceSwitch DEF ClassifyStop
<1>3. /\ Typed /\ Tied(lc, worker, gate) /\ Tracks(tracker, stopPending, lc)
      /\ stopPending
  BY <1>1, LoopParts
<1>4. tracker' \in Tracker /\ ~tracker'.stable
  BY <1>1, <1>3 DEF Tracks, Typed
<1>5. Fits(lc, answer)
  BY <1>3, RenderStoppedFits DEF Tied
<1>6. CASE ExecutionFails(answer.state, answer.actions) /\ UNCHANGED retryArmed
  <2> HIDE DEF answer
  <2> QED BY <1>1, <1>3, <1>4, <1>5, <1>6, HandlerFails DEF Typed
<1>7. CASE /\ ExecuteEngineActions(answer.state, answer.actions)
           /\ retryArmed' = FALSE /\ Continue("wait")
  <2>1. phase' = "wait" /\ UNCHANGED fault
    BY <1>7 DEF Continue
  <2>2. answer = OnRenderStopped(lc)
    OBVIOUS
  <2> HIDE DEF answer
  <2> QED BY <1>1, <1>4, <1>7, <2>1, <2>2, StopReduced
<1> QED BY <1>2, <1>6, <1>7

\* The retry comes due (RetryTransport): it starts an engine.
LEMMA RetryTransportKeeps ==
    ASSUME HostInv, RetryTransport
    PROVE  HostInv'
<1> DEFINE answer == OnTransportRetryDue(lc)
<1>1. /\ InLoop /\ Apart /\ UNCHANGED <<tracker, stopPending, hfp>>
      /\ phase = "retry" /\ retryArmed' = FALSE
  BY DEF RetryTransport, InLoop, Apart
<1>2. \/ ExecuteEngineActions(answer.state, answer.actions) /\ Continue("wait")
      \/ ExecutionFails(answer.state, answer.actions)
  BY ReduceSwitch DEF RetryTransport
<1>3. /\ Typed /\ Tied(lc, worker, gate) /\ Tracks(tracker, stopPending, lc)
      /\ Retries(lc)
  BY <1>1, LoopParts
<1>4. /\ Fits(lc, answer)
      /\ Present(answer.state) /\ Running(answer.state)
  BY <1>3, RetryDueFits DEF Tied
<1> HIDE DEF answer
<1>5. CASE ExecutionFails(answer.state, answer.actions)
  BY <1>1, <1>3, <1>4, <1>5, HandlerFails DEF Typed
<1>6. CASE ExecuteEngineActions(answer.state, answer.actions) /\ Continue("wait")
  <2>1. Tied(lc', worker', gate') /\ SameOccasion(answer.state, lc')
    BY <1>3, <1>4, <1>6, ExecutionTies
  <2>2. Tracks(tracker', stopPending', lc') /\ (Present(lc') <=> Present(lc))
    BY <1>1, <1>3, <1>4, <2>1 DEF Tracks, SameOccasion, Present, Running, Retries,
       CanStart
  <2>3. phase' = "wait" /\ fault' = fault
    BY <1>6 DEF Continue
  <2> QED
    BY <1>1, <1>3, <2>1, <2>2, <2>3, Handled DEF Typed, HostPhase
<1> QED BY <1>2, <1>5, <1>6

\* The daily stop ends a playback that is wanted and leaves the loop.
LEMMA DailyStopKeeps ==
    ASSUME HostInv, DailyStop
    PROVE  HostInv'
<1> DEFINE answer == OnRenderStopped(lc)
<1>1. InLoop /\ Apart /\ UNCHANGED <<tracker, hfp>>
  BY DEF DailyStop, InLoop, Apart
<1>2. /\ Typed /\ Tied(lc, worker, gate) /\ fault \in Fault \ ProtocolFault
  BY <1>1, LoopParts
<1>3. \/ /\ stopPending' = FALSE /\ retryArmed' = FALSE
         /\ ExecuteEngineActions(answer.state, answer.actions) /\ Continue("cleanup")
      \/ /\ stopPending' = FALSE /\ retryArmed' = FALSE
         /\ ExecutionFails(answer.state, answer.actions)
      \/ /\ Continue("cleanup")
         /\ UNCHANGED <<lc, stopPending, retryArmed, gate, worker>>
  BY ReduceSwitch DEF DailyStop
<1>4. Fits(lc, answer)
  BY <1>2, RenderStoppedFits DEF Tied
<1> HIDE DEF answer
<1>5. CASE /\ stopPending' = FALSE /\ retryArmed' = FALSE
           /\ ExecuteEngineActions(answer.state, answer.actions) /\ Continue("cleanup")
  <2>1. Tied(lc', worker', gate')
    BY <1>2, <1>4, <1>5, ExecutionTies
  <2>2. Typed'
    BY <1>1, <1>2, <1>5 DEF Typed, EnvType, Apart, envVars
  <2> QED BY <1>2, <1>5, <2>1, <2>2, GivingUp DEF Tied, Continue
<1>6. CASE /\ stopPending' = FALSE /\ retryArmed' = FALSE
           /\ ExecutionFails(answer.state, answer.actions)
  BY <1>1, <1>2, <1>4, <1>6, HandlerFails DEF Typed
<1>7. CASE /\ Continue("cleanup")
           /\ UNCHANGED <<lc, stopPending, retryArmed, gate, worker>>
  <2>1. Typed'
    BY <1>1, <1>2, <1>7 DEF Typed, EnvType, Apart, envVars
  <2> QED BY <1>2, <1>7, <2>1, GivingUp DEF Tied, Continue
<1> QED BY <1>3, <1>5, <1>6, <1>7

\* CleanUp leaves a record without a connection, and no worker.
LEMMA CleanUpKeeps ==
    ASSUME HostInv, CleanUp
    PROVE  HostInv'
<1>1. /\ phase' = "done" /\ UNCHANGED <<fault, tracker, stopPending, retryArmed, hfp,
                                        envVars>>
      /\ worker' = NoWorker /\ gate' = NoGate /\ acl' = <<>>
      /\ \/ lc' = lc /\ endpoint' = endpoint
         \/ /\ lc' = Reduce(lc, "WatcherLeaseExpired").state
            /\ endpoint' \in {FALSE, endpoint}
  BY DEF CleanUp
<1>2. Good(lc) /\ endpoint \in BOOLEAN
  BY DEF HostInv, TypeOK, Good
<1>3. Good(lc')
  BY <1>1, <1>2, ReduceIsGood DEF Event
<1>4. NoWorker \in Worker /\ Obeys(NoWorker) /\ NoGate \in Gate
  BY LifecycleConstants DEF NoWorker, Worker, WorkerPhase, Obeys, NoGate, Gate
<1>5. endpoint' \in BOOLEAN
  BY <1>1, <1>2
<1>6. acl' \in Seq(AclEvent) /\ Len(acl') <= MaxQueue
  BY <1>1 DEF MaxQueue
<1> QED
  BY <1>1, <1>3, <1>4, <1>5, <1>6
     DEF HostInv, TypeOK, InLoop, Good, NoProtocolFault, HostPhase, envVars

-----------------------------------------------------------------------------
\* The worker's own steps do nothing it has no authorization for, and neither begin
\* nor end the process the host holds.
LEMMA WorkerObeys ==
    ASSUME worker \in Worker, Obeys(worker), WorkerNext
    PROVE  /\ UNCHANGED <<hostVars, acl, envVars>>
           /\ worker' \in Worker /\ Obeys(worker')
           /\ worker'.phase # "none" /\ worker.phase # "none"
           /\ worker'.ready_seen = worker.ready_seen
           /\ worker'.authorized = worker.authorized
           /\ worker'.generation = worker.generation
<1>1. UNCHANGED <<hostVars, acl, envVars>>
  BY DEF WorkerNext, WorkerStep, WorkerReady, WorkerOpens, WorkerOpenEnds,
     WorkerStreams, WorkerRefused, WorkerOpenFails, WorkerFails, WorkerEndsQuietly,
     WorkerExpires, WorkerCrashes
<1>2. /\ worker' \in Worker /\ Obeys(worker')
      /\ worker'.phase # "none" /\ worker.phase # "none"
      /\ worker'.ready_seen = worker.ready_seen
      /\ worker'.authorized = worker.authorized
      /\ worker'.generation = worker.generation
  <2> USE DEF WorkerStep, Worker, WorkerPhase, Obeys, Signal
  <2>1. CASE WorkerReady
    BY <2>1 DEF WorkerReady
  <2>2. CASE WorkerOpens
    BY <2>2 DEF WorkerOpens
  <2>3. CASE WorkerOpenEnds
    <3>1. CASE WorkerStreams
      BY <3>1 DEF WorkerStreams
    <3>2. CASE WorkerRefused
      BY <3>2 DEF WorkerRefused
    <3>3. CASE WorkerOpenFails
      BY <3>3 DEF WorkerOpenFails
    <3> QED BY <2>3, <3>1, <3>2, <3>3 DEF WorkerOpenEnds
  <2>4. CASE WorkerFails
    BY <2>4 DEF WorkerFails
  <2>5. CASE WorkerEndsQuietly
    BY <2>5 DEF WorkerEndsQuietly
  <2>6. CASE WorkerExpires
    BY <2>6 DEF WorkerExpires
  <2>7. CASE WorkerCrashes
    BY <2>7 DEF WorkerCrashes
  <2> QED
    BY <2>1, <2>2, <2>3, <2>4, <2>5, <2>6, <2>7 DEF WorkerNext
<1> QED BY <1>1, <1>2

\* So the host finds its process as it left it.
LEMMA WorkerKeeps ==
    ASSUME HostInv, WorkerNext
    PROVE  HostInv'
<1>1. worker \in Worker /\ Obeys(worker)
  BY DEF HostInv, TypeOK
<1>2. UNCHANGED <<hostVars, acl, envVars>>
  BY <1>1, WorkerObeys
<1>3. /\ worker' \in Worker /\ Obeys(worker')
      /\ worker'.phase # "none" /\ worker.phase # "none"
      /\ worker'.ready_seen = worker.ready_seen
      /\ worker'.authorized = worker.authorized
      /\ worker'.generation = worker.generation
  BY <1>1, WorkerObeys
<1>4. CASE InLoop
  <2>1. /\ Typed /\ Tied(lc, worker, gate)
        /\ Tracks(tracker, stopPending, lc)
        /\ retryArmed => Retries(lc)
        /\ phase = "stop" => stopPending
        /\ phase = "retry" => retryArmed
        /\ phase \in HostPhase \ {"cleanup", "done"}
    BY <1>4, LoopParts DEF InLoop
  <2>2. Tied(lc', worker', gate')
    BY <1>2, <1>3, <2>1 DEF Tied, Contains, Guards, hostVars
  <2>3. Apart /\ UNCHANGED <<phase, fault, lc, tracker, stopPending, retryArmed, hfp>>
    BY <1>2 DEF Apart, hostVars
  <2> QED BY <1>4, <2>1, <2>2, <2>3, Handled DEF Typed
<1>5. CASE ~InLoop
  BY <1>2, <1>3, <1>5 DEF HostInv, TypeOK, InLoop, NoProtocolFault, hostVars, envVars
<1> QED BY <1>4, <1>5

\* The link comes up or goes down: the watcher queues the other event than the last,
\* and a connection it queues into an empty queue finds no headset.
LEMMA LinkChangesKeeps ==
    ASSUME HostInv, LinkChanges
    PROVE  HostInv'
<1> DEFINE e == IF link THEN "Disconnected" ELSE "Connected"
<1>1. /\ UNCHANGED <<hostVars, worker, player, mic, stopRequested, settled>>
      /\ Len(acl) < MaxQueue /\ (link \/ connects < MaxConnects)
      /\ link' = ~link /\ connects' = (IF link THEN connects ELSE connects + 1)
      /\ acl' = Append(acl, e)
  BY DEF LinkChanges
<1>2. acl \in Seq(AclEvent) /\ link \in BOOLEAN /\ connects \in 0..MaxConnects
  BY DEF HostInv, TypeOK
<1>3. e \in AclEvent
  BY DEF AclEvent
<1> HIDE DEF e
<1>4. /\ acl' \in Seq(AclEvent) /\ Len(acl') = Len(acl) + 1
      /\ \A i \in 1..Len(acl) : acl'[i] = acl[i]
      /\ acl'[Len(acl')] = e
      /\ Len(acl) \in Nat
  BY <1>1, <1>2, <1>3
<1>5. /\ Len(acl') <= MaxQueue
      /\ connects' \in 0..MaxConnects /\ link' \in BOOLEAN
  BY <1>1, <1>2, <1>4, AgentConstants DEF MaxQueue
<1>6. TypeOK'
  BY <1>1, <1>4, <1>5 DEF HostInv, TypeOK, hostVars
<1>7. ASSUME InLoop PROVE Announces(acl, lc)'
  <2>1. Announces(acl, lc) /\ lc' = lc
    BY <1>1, <1>7, LoopParts DEF hostVars
  <2>2. acl' # <<>> /\ Head(acl') = acl'[1]
    BY <1>4
  <2>3. e = (IF link' THEN "Connected" ELSE "Disconnected")
    BY <1>1, <1>2 DEF e
  <2>4. CASE acl = <<>>
    <3>1. Len(acl) = 0 /\ Len(acl') = 1 /\ Head(acl') = e
      BY <1>4, <2>2, <2>4
    <3>2. e = "Connected" => ~Present(lc')
      BY <2>1, <2>4 DEF Announces, e
    <3>3. \A i \in 1..Len(acl') - 1 : acl'[i] # acl'[i + 1]
      BY <3>1
    <3> QED BY <1>4, <2>2, <2>3, <3>1, <3>2, <3>3 DEF Announces
  <2>5. CASE acl # <<>>
    <3>1. Len(acl) >= 1 /\ Head(acl) = acl[1] /\ Head(acl') = Head(acl)
      BY <1>2, <1>4, <2>2, <2>5
    <3>2. acl[Len(acl)] # e
      BY <2>1, <2>5 DEF Announces, e
    <3>3. \A i \in 1..Len(acl') - 1 : acl'[i] # acl'[i + 1]
      <4> SUFFICES ASSUME NEW i \in 1..Len(acl) PROVE acl'[i] # acl'[i + 1]
        BY <1>4
      <4>1. CASE i = Len(acl)
        BY <1>4, <3>2, <4>1
      <4>2. CASE i # Len(acl)
        <5>1. i \in 1..Len(acl) - 1 /\ i + 1 \in 1..Len(acl)
          BY <1>4, <4>2
        <5>2. acl[i] # acl[i + 1]
          BY <2>1, <5>1 DEF Announces
        <5> QED BY <1>4, <5>1, <5>2
      <4> QED BY <4>1, <4>2
    <3>4. Head(acl') = "Connected" => ~Present(lc')
      BY <2>1, <2>5, <3>1 DEF Announces
    <3> QED BY <1>4, <2>2, <2>3, <3>3, <3>4 DEF Announces
  <2> QED BY <2>4, <2>5
<1> QED
  BY <1>1, <1>6, <1>7 DEF HostInv, LoopInv, InLoop, NoProtocolFault, hostVars

\* What the user does changes nothing the host has recorded.
LEMMA UserKeeps ==
    ASSUME HostInv, PlayerChanges \/ MicChanges \/ RequestStop \/ Settle
    PROVE  HostInv'
<1>1. /\ UNCHANGED <<hostVars, worker, acl, link, connects>>
      /\ player' \in {player, "absent", "paused", "playing"}
      /\ mic' \in {mic, ~mic} /\ stopRequested' \in {stopRequested, TRUE}
      /\ settled' \in {settled, TRUE}
  BY DEF PlayerChanges, MicChanges, RequestStop, Settle
<1>2. TypeOK'
  BY <1>1 DEF HostInv, TypeOK, hostVars
<1>3. Announces(acl, lc) => Announces(acl, lc)'
  BY <1>1 DEF Announces, hostVars
<1> QED
  BY <1>1, <1>2, <1>3 DEF HostInv, LoopInv, InLoop, NoProtocolFault, hostVars

-----------------------------------------------------------------------------
\* The agent starts with no connection, no worker and nothing armed.
LEMMA InitHolds == Init => HostInv
<1> SUFFICES ASSUME Init PROVE HostInv
  OBVIOUS
<1>0. /\ phase = "wait" /\ fault = "none" /\ tracker = IdleTracker
      /\ stopPending = FALSE /\ retryArmed = FALSE /\ gate = NoGate
      /\ hfp = InitialHfpSwitch /\ endpoint = FALSE /\ worker = NoWorker
      /\ acl = <<>> /\ link \in BOOLEAN /\ connects = 0 /\ player = "absent"
      /\ mic = FALSE /\ stopRequested = FALSE /\ settled = FALSE
  BY DEF Init
<1>1. /\ lc.physical_presence = "Absent" /\ lc.render_demand = "Idle"
      /\ lc.engine_lease = "Absent" /\ lc.media_session = "Stopped"
      /\ lc.open_attempts = 0 /\ lc.maximum_open_attempts = MaximumOpenAttempts
      /\ lc.tolerate_gaps = TRUE /\ lc.allow_multiple = TRUE
      /\ lc.hfp_suspended = FALSE
      /\ lc \in LifecycleState
  BY LifecycleConstants, AgentConstants
     DEF Init, InitialState, LifecycleState, MediaSession
<1>2. Consistent(lc)
  <2>1. lc.maximum_open_attempts \in Nat
    <3>1. MaximumOpenAttempts \in Nat \ {0}
      BY LifecycleConstants, AgentConstants
    <3> QED BY <1>1, <3>1
  <2> QED
    BY <1>1, <2>1 DEF Consistent, LiveMediaHasEngine, StreamingIsWanted, AbsentIsBlank,
       ReadyHasPaid, WithinBudget, Present, Running, Leased, Live
<1>3. TypeOK
  <2>1. NoWorker \in Worker /\ NoGate \in Gate /\ IdleTracker \in Tracker
    BY LifecycleConstants
       DEF NoWorker, Worker, WorkerPhase, NoGate, Gate, IdleTracker, Tracker
  <2>2. InitialHfpSwitch \in HfpSwitchState(0..GenerationLimit)
    BY LifecycleConstants DEF InitialHfpSwitch, HfpSwitchState, HfpPhase
  <2>3. /\ acl \in Seq(AclEvent) /\ Len(acl) <= MaxQueue
        /\ connects \in 0..MaxConnects
    BY <1>0, AgentConstants DEF MaxQueue
  <2>4. phase \in HostPhase /\ fault \in Fault
    BY <1>0 DEF HostPhase, Fault
  <2> QED
    BY <1>0, <1>1, <2>1, <2>2, <2>3, <2>4 DEF TypeOK
<1>4. LoopInv
  <2>1. Announces(acl, lc)
    BY <1>0, <1>1 DEF Announces, Present
  <2>2. AtRest(lc) /\ Contains(lc, worker)
    BY <1>0, <1>1 DEF AtRest, Contains, Present, Running, Leased, NoWorker
  <2>3. Guards(gate, lc, worker) /\ Tracks(tracker, stopPending, lc)
    BY <1>0, <1>1 DEF Guards, Tracks, NoGate, IdleTracker, Running
  <2> QED BY <1>0, <1>1, <2>1, <2>2, <2>3 DEF LoopInv, Present
<1> QED
  BY <1>0, <1>1, <1>2, <1>3, <1>4
     DEF HostInv, Policy, Obeys, NoProtocolFault, ProtocolFault, NoWorker

\* Every step of the host, the worker, the radio and the user keeps the invariant.
LEMMA NextKeeps == HostInv /\ [Next]_vars => HostInv'
<1> SUFFICES ASSUME HostInv, [Next]_vars PROVE HostInv'
  OBVIOUS
<1>1. CASE UNCHANGED vars
  BY <1>1 DEF vars, hostVars, envVars, HostInv, TypeOK, LoopInv, InLoop, Announces,
     NoProtocolFault
<1>2. CASE HostStep
  <2>1. CASE PollEngine
    <3>1. CASE NoEngineToPoll \/ EngineNotReady
      <4>1. GoesOn \/ Breaks
        BY <3>1 DEF GoesOn, Breaks
      <4> QED BY <4>1, GoesOnKeeps, BreaksKeeps
    <3> QED
      BY <2>1, <3>1, EngineBecomesReadyKeeps, GateWaitsKeeps, GateOpensKeeps
         DEF PollEngine
  <2>2. CASE PollWorker
    BY <2>2, GoesOnKeeps, BreaksKeeps, OpenRefusedKeeps, TransportFailsKeeps,
       MediaStartsKeeps, WorkerExitKeeps DEF PollWorker, GoesOn, Breaks
  <2>3. CASE RunDeadlines
    BY <2>3, GoesOnKeeps, PollHfpKeeps, ClassifyStopKeeps, RetryTransportKeeps
       DEF RunDeadlines, GoesOn
  <2>4. CASE PollRenderDemand
    BY <2>4, RenderGoesOnKeeps, RenderStartsKeeps, RenderStopDeferredKeeps,
       RenderStopsKeeps DEF PollRenderDemand
  <2> QED
    BY <1>2, <2>1, <2>2, <2>3, <2>4, GoesOnKeeps, HandleAclEventKeeps, DailyStopKeeps,
       CleanUpKeeps DEF HostStep, GoesOn
<1>3. CASE HostBreaks
  BY <1>3, BreaksKeeps DEF HostBreaks, Breaks
<1>4. CASE WorkerNext
  BY <1>4, WorkerKeeps
<1>5. CASE Environment
  BY <1>5, LinkChangesKeeps, UserKeeps DEF Environment
<1>6. CASE Rests
  BY <1>1, <1>6 DEF Rests
<1> QED BY <1>1, <1>2, <1>3, <1>4, <1>5, <1>6 DEF Next

\* The four records the host keeps of one connection agree with each other and with
\* the watcher's queue in every reachable state.
THEOREM HostIsCoherent == Spec => []HostInv
BY InitHolds, NextKeeps, PTL DEF Spec

\* At every instant of the daily host, whichever of the loop, the worker, the radio and
\* the user acted last: it has not tripped over its own protocol, the stability gate
\* guards the one open the reducer asked for, an armed retry starts an engine, and the
\* recorded demand is the one that was sampled (v1_presence_agent.cpp's main loop).
THEOREM HostIsSafe == Spec => []HostInvariant
<1>1. HostInv => HostInvariant
  <2> SUFFICES ASSUME HostInv PROVE HostInvariant
    OBVIOUS
  <2>1. ASSUME InLoop, retryArmed
        PROVE  "StartEngine" \in Reduce(lc, "TransportRetryDue").actions
    <3>1. Retries(lc) /\ lc \in LifecycleState
      BY <2>1, LoopParts DEF Tied, Good
    <3>2. "StartEngine" \in OnTransportRetryDue(lc).actions
      BY <3>1 DEF OnTransportRetryDue, Answer, Retries
    <3> QED BY <3>2, ReduceSwitch
  <2>2. InLoop => Tracks(tracker, stopPending, lc) /\ Guards(gate, lc, worker)
    BY LoopParts DEF Tied
  <2> QED
    BY <2>1, <2>2 DEF HostInv, HostInvariant, GateGuardsOneOpen, ArmedRetryStarts,
       DemandFollowsRender, Tracks, Guards
<1> QED BY <1>1, HostIsCoherent, PTL

\* Worker, lease and authority belong to the connection and the session that are
\* current: the reducer's lease is there exactly when the host holds a process, an
\* authorized worker is the present connection's, and in the wait nothing of a
\* connection that ended is left.
THEOREM OwnershipIsKept == Spec => []OwnershipInvariant
<1>1. HostInv => OwnershipInvariant
  <2> SUFFICES ASSUME HostInv PROVE OwnershipInvariant
    OBVIOUS
  <2>1. LeaseMatchesWorker
    BY LoopParts DEF LeaseMatchesWorker, Tied, Contains, EngineActive
  <2>2. AuthorizedWorkerIsCurrent
    <3> SUFFICES ASSUME InLoop, worker.authorized
                 PROVE  /\ Present(lc)
                        /\ worker.generation = lc.acl_generation
                        /\ lc.media_session \in {"Opening", "Streaming"}
                        /\ ~lc.hfp_suspended
      BY DEF AuthorizedWorkerIsCurrent
    <3>1. Tied(lc, worker, gate)
      BY LoopParts
    <3>2. lc.engine_lease = "Ready" /\ worker.phase # "none"
      BY <3>1 DEF Tied, Contains, Obeys, Leased
    <3>3. lc.media_session \in {"Opening", "Streaming"}
      BY <3>1, <3>2 DEF Tied, AtRest
    <3> QED
      BY <3>1, <3>2, <3>3 DEF Tied, Contains, Good, Consistent, LiveMediaHasEngine,
         StreamingIsWanted, Live
  <2>3. ConnectionOwnsEverything
    <3> SUFFICES ASSUME phase = "wait"
                 PROVE  /\ endpoint <=> Present(lc)
                        /\ ~Present(lc) => /\ ~EngineActive /\ ~gate.pending
                                           /\ ~stopPending /\ ~retryArmed
                                           /\ ~tracker.stable
      BY DEF ConnectionOwnsEverything
    <3>1. /\ Tied(lc, worker, gate) /\ Tracks(tracker, stopPending, lc)
          /\ retryArmed => Retries(lc)
          /\ endpoint <=> Present(lc)
      BY LoopParts DEF InLoop
    <3>2. ASSUME ~Present(lc)
          PROVE  ~EngineActive /\ ~gate.pending /\ ~stopPending /\ ~retryArmed
                 /\ ~tracker.stable
      <4>1. ~Leased(lc) /\ ~Running(lc)
        BY <3>1, <3>2 DEF Tied, Good, Consistent, AbsentIsBlank, AtRest
      <4>2. ~EngineActive /\ ~gate.pending
        BY <3>1, <4>1 DEF Tied, Contains, Guards, EngineActive, Leased
      <4> QED BY <3>1, <3>2, <4>1, <4>2 DEF Tracks, Retries, CanStart
    <3> QED BY <3>1, <3>2
  <2> QED BY <2>1, <2>2, <2>3 DEF OwnershipInvariant
<1> QED BY <1>1, HostIsCoherent, PTL

-----------------------------------------------------------------------------
(***************************************************************************)
(* The host implements LdacAuthority.                                      *)
(***************************************************************************)
\* The licence is read off the worker's record.
LicenceOf(w) ==
    IF w.phase = "none" THEN "none"
    ELSE IF w.authorized THEN "open"
    ELSE IF w.ready_seen THEN "reserved" ELSE "contained"

\* A step, as LdacAuthority sees it.
Grants == Authority!Next \/ UNCHANGED Authority!vars

\* What LdacAuthority sees is in the reducer's record and the worker's.
LEMMA LicenceIsOf == Licence = LicenceOf(worker) /\ Licence' = LicenceOf(worker')
BY DEF Licence, LicenceOf, EngineActive

\* A step that leaves connection, budget and the worker's standing alone grants nothing.
LEMMA GrantsNothing ==
    ASSUME Present(lc') <=> Present(lc), lc'.acl_generation = lc.acl_generation,
           lc'.open_attempts = lc.open_attempts, LicenceOf(worker') = LicenceOf(worker)
    PROVE  Grants
<1>1. Licence' = Licence
  BY LicenceIsOf
<1>2. Present(lc)' = Present(lc)
  BY DEF Present
<1> QED BY <1>1, <1>2 DEF Grants, Authority!vars

\* A worker taken away with nothing else changed is a licence revoked.
LEMMA Revokes ==
    ASSUME Present(lc') <=> Present(lc), lc'.acl_generation = lc.acl_generation,
           lc'.open_attempts = lc.open_attempts, worker' = NoWorker
    PROVE  Grants
<1>1. Licence' = "none"
  BY LicenceIsOf DEF LicenceOf, NoWorker
<1>2. Present(lc)' = Present(lc)
  BY DEF Present
<1>3. CASE Licence = "none"
  BY <1>1, <1>2, <1>3 DEF Grants, Authority!vars
<1>4. CASE Licence # "none"
  BY <1>1, <1>2, <1>4 DEF Grants, Authority!Next, Authority!Revoke
<1> QED BY <1>3, <1>4

\* The end of a connection takes the worker with it, or finds none.
LEMMA Disconnects ==
    ASSUME Present(lc), ~Present(lc'), lc'.acl_generation = lc.acl_generation,
           lc'.open_attempts = 0, worker'.phase = "none"
    PROVE  Grants
<1>1. Licence' = "none"
  BY LicenceIsOf DEF LicenceOf
<1>2. Present(lc)' = FALSE /\ Present(lc) = TRUE
  BY DEF Present
<1> QED BY <1>1, <1>2 DEF Grants, Authority!Next, Authority!Disconnect

\* A handler that keeps the connection: it starts a worker, with the budget it found
\* or a new one, or takes one away, or leaves both as they are.
Frugal(s, answer) ==
    /\ Present(answer.state) <=> Present(s)
    /\ answer.state.acl_generation = s.acl_generation
    /\ "StartEngine" \in answer.actions =>
           Present(s) /\ answer.state.open_attempts \in {0, s.open_attempts}
    /\ "StartEngine" \notin answer.actions =>
           answer.state.open_attempts = s.open_attempts

\* Such an answer, executed, is a step of LdacAuthority.
LEMMA ExecutionGrants ==
    ASSUME Tied(lc, worker, gate), NEW answer, Fits(lc, answer), Frugal(lc, answer),
           ExecuteEngineActions(answer.state, answer.actions)
    PROVE  Grants
<1>1. /\ SameOccasion(answer.state, lc')
      /\ "StopEngine" \in answer.actions => worker' = NoWorker
      /\ "StartEngine" \in answer.actions =>
             worker' = NewWorker(answer.state.acl_generation)
      /\ answer.actions \cap {"StartEngine", "StopEngine"} = {} => worker' = worker
  BY ExecutionTies
<1>2. /\ Present(lc') <=> Present(lc)
      /\ lc'.acl_generation = lc.acl_generation
      /\ lc'.open_attempts = answer.state.open_attempts
  BY <1>1 DEF Frugal, SameOccasion, Present
<1>3. CASE "StartEngine" \in answer.actions
  <2>1. worker.phase = "none" /\ worker' = NewWorker(answer.state.acl_generation)
    BY <1>1, <1>3 DEF Fits, Tied, Contains
  <2>2. Licence = "none" /\ Licence' = "contained"
    BY <2>1, LicenceIsOf DEF LicenceOf, NewWorker, NoWorker
  <2>3. /\ Present(lc) = TRUE /\ Present(lc)' = TRUE
        /\ lc'.open_attempts \in {0, lc.open_attempts}
    BY <1>2, <1>3 DEF Frugal, Present
  <2> QED
    BY <1>2, <2>2, <2>3 DEF Grants, Authority!Next, Authority!Contain
<1>4. CASE "StopEngine" \in answer.actions
  <2>1. "StartEngine" \notin answer.actions
    BY <1>4 DEF Fits
  <2> QED BY <1>1, <1>2, <1>4, <2>1, Revokes DEF Frugal
<1>5. CASE answer.actions \cap {"StartEngine", "StopEngine"} = {}
  BY <1>1, <1>2, <1>5, GrantsNothing DEF Frugal
<1> QED BY <1>3, <1>4, <1>5

\* One whose engine call fails is too: the budget may be new, the worker may be gone.
LEMMA FailureGrants ==
    ASSUME Tied(lc, worker, gate), NEW answer, Fits(lc, answer), Frugal(lc, answer),
           ExecutionFails(answer.state, answer.actions)
    PROVE  Grants
<1>1. /\ lc' = answer.state
      /\ \/ "StartEngine" \in answer.actions /\ worker' = worker
         \/ "StopEngine" \in answer.actions /\ worker' = NoWorker
  BY ExecutionFailsSafely
<1>2. /\ Present(lc') <=> Present(lc)
      /\ lc'.acl_generation = lc.acl_generation
  BY <1>1 DEF Frugal
<1>3. CASE "StopEngine" \in answer.actions /\ worker' = NoWorker
  <2>1. "StartEngine" \notin answer.actions
    BY <1>3 DEF Fits
  <2> QED BY <1>1, <1>2, <1>3, <2>1, Revokes DEF Frugal
<1>4. CASE "StartEngine" \in answer.actions /\ worker' = worker
  <2>1. worker.phase = "none"
    BY <1>4 DEF Fits, Tied, Contains
  <2>2. Licence = "none" /\ Licence' = "none"
    BY <1>4, <2>1, LicenceIsOf DEF LicenceOf
  <2>3. Present(lc)' = Present(lc)
    BY <1>2 DEF Present
  <2>4. CASE lc'.open_attempts = lc.open_attempts
    BY <1>2, <2>2, <2>3, <2>4 DEF Grants, Authority!vars
  <2>5. CASE lc'.open_attempts = 0
    BY <1>2, <2>2, <2>3, <2>5 DEF Grants, Authority!Next, Authority!Renew
  <2> QED BY <1>1, <1>4, <2>4, <2>5 DEF Frugal
<1> QED BY <1>1, <1>3, <1>4

\* The demand's handlers, the deadlines and the worker's events keep the connection and
\* take a new budget only with a new worker.
LEMMA HandlersGrant ==
    ASSUME HostInv,
           \/ RenderStarts \/ RenderStops \/ ClassifyStop \/ RetryTransport \/ DailyStop
           \/ OpenRefused \/ TransportFails \/ \E elapsed \in BOOLEAN : PollHfp(elapsed)
    PROVE  Grants
<1>1. InLoop
  BY DEF RenderStarts, RenderStops, ClassifyStop, RetryTransport, DailyStop,
     OpenRefused, TransportFails, PollHfp, ObserveSignal, TimeoutWakes, InLoop
<1>2. /\ Tied(lc, worker, gate) /\ Good(lc) /\ AtRest(lc)
      /\ Typed
      /\ retryArmed => Retries(lc)
      /\ phase = "retry" => retryArmed
  BY <1>1, LoopParts DEF Tied
<1>3. ASSUME NEW answer, Fits(lc, answer), Frugal(lc, answer),
             \/ ExecuteEngineActions(answer.state, answer.actions)
             \/ ExecutionFails(answer.state, answer.actions)
      PROVE  Grants
  BY <1>2, <1>3, ExecutionGrants, FailureGrants
<1>4. CASE RenderStarts
  <2> DEFINE answer == OnRenderStarted(lc)
  <2>1. Present(lc)
    BY <1>4 DEF RenderStarts
  <2>2. Fits(lc, answer) /\ Frugal(lc, answer)
    <3>1. /\ Fits(lc, answer) /\ Present(answer.state)
          /\ answer.state.acl_generation = lc.acl_generation
          /\ answer.state.open_attempts \in {0, lc.open_attempts}
          /\ answer.actions = {} => answer.state.open_attempts = lc.open_attempts
      BY <1>2, <2>1, RenderStartedFits
    <3>2. answer.actions \in {{}, {"StartEngine"}}
      BY DEF OnRenderStarted, Answer
    <3> HIDE DEF answer
    <3> QED BY <2>1, <3>1, <3>2 DEF Frugal
  <2>3. \/ ExecuteEngineActions(answer.state, answer.actions)
        \/ ExecutionFails(answer.state, answer.actions)
    BY <1>4, ReduceSwitch DEF RenderStarts
  <2> QED BY <1>3, <2>2, <2>3
<1>5. CASE RenderStops \/ ClassifyStop \/ DailyStop
  <2> DEFINE answer == OnRenderStopped(lc)
  <2>1. Fits(lc, answer) /\ Frugal(lc, answer)
    <3>1. /\ Fits(lc, answer) /\ Present(answer.state) = Present(lc)
          /\ answer.state.acl_generation = lc.acl_generation
          /\ answer.state.open_attempts = lc.open_attempts
          /\ "StartEngine" \notin answer.actions
      BY <1>2, RenderStoppedFits
    <3> HIDE DEF answer
    <3> QED BY <3>1 DEF Frugal
  <2>2. \/ ExecuteEngineActions(answer.state, answer.actions)
        \/ ExecutionFails(answer.state, answer.actions)
        \/ UNCHANGED <<lc, worker>>
    BY <1>5, ReduceSwitch DEF RenderStops, ClassifyStop, DailyStop
  <2> QED BY <1>3, <2>1, <2>2, GrantsNothing
<1>6. CASE RetryTransport
  <2> DEFINE answer == OnTransportRetryDue(lc)
  <2>1. Retries(lc)
    BY <1>2, <1>6 DEF RetryTransport
  <2>2. Fits(lc, answer) /\ Frugal(lc, answer)
    <3>1. /\ Fits(lc, answer) /\ Present(answer.state)
          /\ answer.state.acl_generation = lc.acl_generation
          /\ answer.state.open_attempts = lc.open_attempts
      BY <1>2, <2>1, RetryDueFits
    <3>2. Present(lc)
      BY <2>1 DEF Retries, CanStart
    <3> HIDE DEF answer
    <3> QED BY <3>1, <3>2 DEF Frugal
  <2>3. \/ ExecuteEngineActions(answer.state, answer.actions)
        \/ ExecutionFails(answer.state, answer.actions)
    BY <1>6, ReduceSwitch DEF RetryTransport
  <2> QED BY <1>3, <2>2, <2>3
<1>7. CASE OpenRefused
  <2> DEFINE answer == OnTransportRetryableFailure(lc)
  <2>1. lc.engine_lease = "Ready"
    BY <1>1, <1>7, SpokenFor DEF OpenRefused
  <2>2. Fits(lc, answer) /\ Frugal(lc, answer)
    <3>1. /\ Fits(lc, answer) /\ Present(answer.state) = Present(lc)
          /\ answer.state.acl_generation = lc.acl_generation
          /\ answer.state.open_attempts = lc.open_attempts
          /\ "StartEngine" \notin answer.actions
      BY <1>2, <2>1, RetryableFailureFits
    <3> HIDE DEF answer
    <3> QED BY <3>1 DEF Frugal
  <2>3. \/ ExecuteEngineActions(answer.state, answer.actions)
        \/ ExecutionFails(answer.state, answer.actions)
    BY <1>7, ReduceSwitch DEF OpenRefused
  <2> QED BY <1>3, <2>2, <2>3
<1>8. CASE TransportFails
  <2> DEFINE answer == OnMediaFailed(lc)
  <2>1. lc.engine_lease = "Ready"
    BY <1>1, <1>8, SpokenFor DEF TransportFails
  <2>2. Fits(lc, answer) /\ Frugal(lc, answer)
    <3>1. /\ Fits(lc, answer) /\ Present(answer.state) = Present(lc)
          /\ answer.state.acl_generation = lc.acl_generation
          /\ answer.state.open_attempts = lc.open_attempts
          /\ "StartEngine" \notin answer.actions
      BY <1>2, <2>1, MediaFailedFits
    <3> HIDE DEF answer
    <3> QED BY <3>1 DEF Frugal
  <2>3. \/ ExecuteEngineActions(answer.state, answer.actions)
        \/ ExecutionFails(answer.state, answer.actions)
    BY <1>8, ReduceSwitch DEF TransportFails
  <2> QED BY <1>3, <2>2, <2>3
<1>9. CASE \E elapsed \in BOOLEAN : PollHfp(elapsed)
  <2>1. PICK event \in {"none", "HfpSuspendLdac", "HfpResumeLdac"} :
            LET answer == IF event = "none" THEN Answer(lc, {}) ELSE Reduce(lc, event)
            IN  \/ ExecuteEngineActions(answer.state, answer.actions)
                \/ ExecutionFails(answer.state, answer.actions)
    <3> PICK elapsed \in BOOLEAN : PollHfp(elapsed)
      BY <1>9
    <3> DEFINE decision ==
                   HfpStep(hfp, [generation       |-> lc.acl_generation,
                                 connected        |-> Present(lc),
                                 capture_active   |-> mic,
                                 ldac_path_active |-> LdacPathActive(lc),
                                 render_demand    |-> Running(lc),
                                 delay_elapsed    |-> elapsed])
               e == HfpLifecycleEvent(decision, lc.acl_generation)
    <3>1. e \in {"none", "HfpSuspendLdac", "HfpResumeLdac"}
      <4> HIDE DEF decision
      <4> QED BY DEF HfpLifecycleEvent
    <3>2. LET answer == IF e = "none" THEN Answer(lc, {}) ELSE Reduce(lc, e)
          IN  \/ ExecuteEngineActions(answer.state, answer.actions)
              \/ ExecutionFails(answer.state, answer.actions)
      BY DEF PollHfp
    <3> HIDE DEF e
    <3> QED BY <3>1, <3>2
  <2> DEFINE answer == IF event = "none" THEN Answer(lc, {}) ELSE Reduce(lc, event)
  <2>2. Fits(lc, answer) /\ Frugal(lc, answer)
    <3>1. CASE event = "none"
      <4>1. answer.state = lc /\ answer.actions = {}
        BY <3>1 DEF Answer
      <4> HIDE DEF answer
      <4> QED BY <1>2, <4>1 DEF Fits, Frugal
    <3>2. CASE event = "HfpSuspendLdac"
      <4>1. answer = OnHfpSuspendLdac(lc)
        BY <3>2, ReduceSwitch
      <4> HIDE DEF answer
      <4> QED BY <1>2, <4>1, HfpSuspendFits DEF Frugal
    <3>3. CASE event = "HfpResumeLdac"
      <4>1. answer = OnHfpResumeLdac(lc)
        BY <3>3, ReduceSwitch
      <4>2. "StartEngine" \in OnHfpResumeLdac(lc).actions => Present(lc)
        BY DEF OnHfpResumeLdac, Answer, CanStart
      <4>3. OnHfpResumeLdac(lc).actions \in {{}, {"StartEngine"}}
        BY DEF OnHfpResumeLdac, Answer
      <4> HIDE DEF answer
      <4> QED BY <1>2, <4>1, <4>2, <4>3, HfpResumeFits DEF Frugal
    <3> QED BY <3>1, <3>2, <3>3
  <2> QED BY <1>3, <2>1, <2>2
<1> QED BY <1>4, <1>5, <1>6, <1>7, <1>8, <1>9

\* A connection begins with nothing and a disconnection leaves nothing: the queue's
\* events are the connections of LdacAuthority, or tell it nothing new.
LEMMA AclEventsGrant ==
    ASSUME HostInv, HandleAclEvent
    PROVE  Grants
<1> DEFINE connected == Head(acl) = "Connected"
           answer    == Reduce(lc, IF connected THEN "AclConnected"
                                                ELSE "AclDisconnected")
<1>1. phase = "acl" /\ InLoop /\ acl # <<>>
  BY DEF HandleAclEvent, InLoop
<1>2. /\ Tied(lc, worker, gate) /\ Announces(acl, lc) /\ lc \in LifecycleState
      /\ Good(lc) /\ AtRest(lc)
  BY <1>1, LoopParts DEF Tied, Good
<1>3. connected => ~Present(lc)
  BY <1>1, <1>2 DEF Announces
<1>4. \/ ExecutionFails(answer.state, answer.actions)
      \/ ExecuteEngineActions(answer.state, answer.actions)
  BY DEF HandleAclEvent
<1>5. Fits(lc, answer)
  BY <1>2, AclFits
<1>6. ~Present(lc) => ~Leased(lc) /\ worker.phase = "none" /\ lc.open_attempts = 0
  BY <1>2 DEF Good, Consistent, AbsentIsBlank, Tied, Contains
<1>7. CASE connected
  <2>1. answer = OnAclConnected(lc)
    BY <1>7, ReduceSwitch
  <2>2. /\ OnAclConnected(lc).actions = {"PublishEndpointPresent"}
        /\ Present(OnAclConnected(lc).state)
        /\ OnAclConnected(lc).state.open_attempts = 0
        /\ OnAclConnected(lc).state.acl_generation = NextGeneration(lc.acl_generation)
    BY <1>2, <1>3, <1>7 DEF OnAclConnected, Answer, Fresh, LifecycleState, Present
  <2> HIDE DEF answer
  <2>3. lc' = answer.state /\ worker' = worker
    BY <1>4, <2>1, <2>2 DEF ExecutionFails, ExecuteEngineActions
  <2>4. Present(lc) = FALSE /\ Present(lc)' = TRUE
    BY <1>3, <1>7, <2>1, <2>2, <2>3 DEF Present
  <2>5. Licence = "none" /\ Licence' = "none"
    BY <1>3, <1>6, <1>7, <2>3, LicenceIsOf DEF LicenceOf
  <2>6. lc'.open_attempts = 0 /\ lc'.acl_generation = NextGeneration(lc.acl_generation)
    BY <2>1, <2>2, <2>3
  <2> QED
    BY <2>4, <2>5, <2>6 DEF Grants, Authority!Next, Authority!Connect, NextGeneration
<1>8. CASE ~connected
  <2>1. answer = OnAclDisconnected(lc)
    BY <1>8, ReduceSwitch
  <2>2. /\ "StopEngine" \in OnAclDisconnected(lc).actions <=> Leased(lc)
        /\ "StartEngine" \notin OnAclDisconnected(lc).actions
        /\ ~Present(OnAclDisconnected(lc).state)
        /\ OnAclDisconnected(lc).state.open_attempts = 0
        /\ OnAclDisconnected(lc).state.acl_generation = lc.acl_generation
    BY <1>2 DEF OnAclDisconnected, DisconnectActions, CancelIf, StopIfLeased, Answer,
       Fresh, LifecycleState, Present
  <2> HIDE DEF answer
  <2>3. /\ SameOccasion(answer.state, lc')
        /\ worker'.phase = "none"
    <3>1. CASE ExecuteEngineActions(answer.state, answer.actions)
      <4>1. /\ SameOccasion(answer.state, lc')
            /\ "StopEngine" \in answer.actions => worker' = NoWorker
            /\ "StopEngine" \notin answer.actions => worker' = worker
        BY <1>2, <1>5, <2>1, <2>2, <3>1, ExecutionTies
      <4>2. ~Leased(lc) => worker.phase = "none"
        BY <1>2 DEF Tied, Contains
      <4> QED BY <2>1, <2>2, <4>1, <4>2 DEF NoWorker
    <3>2. CASE ExecutionFails(answer.state, answer.actions)
      BY <2>1, <2>2, <3>2 DEF ExecutionFails, NoWorker, SameOccasion
    <3> QED BY <1>4, <3>1, <3>2
  <2>4. /\ ~Present(lc') /\ lc'.open_attempts = 0
        /\ lc'.acl_generation = lc.acl_generation
    BY <2>1, <2>2, <2>3 DEF SameOccasion, Present
  <2>5. CASE Present(lc)
    BY <2>3, <2>4, <2>5, Disconnects
  <2>6. CASE ~Present(lc)
    BY <1>6, <2>3, <2>4, <2>6, GrantsNothing DEF LicenceOf
  <2> QED BY <2>5, <2>6
<1> QED BY <1>7, <1>8

\* The handshake reserves an attempt that is within the budget.
LEMMA HandshakeGrants ==
    ASSUME HostInv, EngineBecomesReady
    PROVE  Grants
<1>1. /\ InLoop /\ EngineActive /\ ~worker.ready_seen
      /\ worker' = [worker EXCEPT !.ready_seen = TRUE, !.signals = @ \ {"ready"}]
      /\ lc' = OnEngineReady(lc).state
  BY ReduceSwitch DEF EngineBecomesReady, InLoop
<1>2. Tied(lc, worker, gate)
  BY <1>1, LoopParts
<1>3. /\ MayOpen(lc) /\ lc \in LifecycleState
      /\ lc.maximum_open_attempts = MaximumOpenAttempts
      /\ lc.engine_lease = "Starting"
  BY <1>1, <1>2 DEF Tied, Contains, Good, Policy, AtRest, MayOpen, EngineActive,
     Leased, LifecycleState
<1>4. /\ Present(lc') /\ lc'.acl_generation = lc.acl_generation
      /\ lc'.open_attempts = lc.open_attempts + 1
      /\ lc.open_attempts < MaximumOpenAttempts
  BY <1>1, <1>3 DEF OnEngineReady, Answer, MayOpen, LifecycleState, Present
<1>5. Licence = "contained" /\ Licence' = "reserved"
  BY <1>1, <1>2, LicenceIsOf DEF LicenceOf, Tied, Worker, Obeys, EngineActive
<1>6. Present(lc) = TRUE /\ Present(lc)' = TRUE
  BY <1>3, <1>4 DEF MayOpen, Present
<1> QED
  BY <1>4, <1>5, <1>6 DEF Grants, Authority!Next, Authority!Reserve

\* The stability gate turns a reserved licence into an open one.
LEMMA GateGrants ==
    ASSUME HostInv, GateOpens
    PROVE  Grants
<1>1. /\ InLoop /\ gate.pending /\ UNCHANGED lc
      /\ \/ worker' = [worker EXCEPT !.authorized = TRUE]
         \/ worker' = worker
  BY DEF GateOpens, InLoop
<1>2. Tied(lc, worker, gate)
  BY <1>1, LoopParts
<1>3. /\ worker.ready_seen /\ ~worker.authorized /\ worker.phase # "none"
      /\ lc.media_session = "Opening"
  BY <1>1, <1>2 DEF Tied, Guards, Obeys, NoWorker
<1>4. CASE worker' = worker
  BY <1>1, <1>4, GrantsNothing
<1>5. CASE worker' = [worker EXCEPT !.authorized = TRUE]
  <2>1. Licence = "reserved" /\ Licence' = "open"
    BY <1>2, <1>3, <1>5, LicenceIsOf DEF LicenceOf, Tied, Worker
  <2>2. Present(lc) = TRUE /\ Present(lc)' = TRUE
    BY <1>1, <1>2, <1>3 DEF Tied, Good, Consistent, LiveMediaHasEngine, Live, Present
  <2> QED BY <1>1, <2>1, <2>2 DEF Grants, Authority!Next, Authority!Open
<1> QED BY <1>1, <1>4, <1>5

\* What the host does when a worker starts to play, is found dead, or when it leaves.
LEMMA EndsGrant ==
    ASSUME HostInv, MediaStarts \/ WorkerExitNoticed \/ CleanUp
    PROVE  Grants
<1>1. lc \in LifecycleState /\ Good(lc)
  BY DEF HostInv, TypeOK, Good
<1>2. CASE MediaStarts
  <2>1. lc' = OnMediaStarted(lc).state
        /\ worker' = [worker EXCEPT !.signals = @ \ {"started"}]
    BY <1>2, ReduceSwitch DEF MediaStarts
  <2>2. /\ Present(lc') <=> Present(lc)
        /\ lc'.acl_generation = lc.acl_generation
        /\ lc'.open_attempts = lc.open_attempts
    BY <1>1, <2>1 DEF OnMediaStarted, Answer, LifecycleState, Present
  <2>3. LicenceOf(worker') = LicenceOf(worker)
    BY <2>1 DEF LicenceOf, HostInv, TypeOK, Worker
  <2> QED BY <2>2, <2>3, GrantsNothing
<1>3. CASE WorkerExitNoticed
  <2>1. lc' = OnEngineExited(lc).state /\ worker' = NoWorker
    BY <1>3, ReduceSwitch DEF WorkerExitNoticed
  <2>2. /\ Present(lc') <=> Present(lc)
        /\ lc'.acl_generation = lc.acl_generation
        /\ lc'.open_attempts = lc.open_attempts
    BY <1>1, <2>1 DEF OnEngineExited, Answer, LifecycleState, Present
  <2> QED BY <2>1, <2>2, Revokes
<1>4. CASE CleanUp
  <2>1. worker' = NoWorker
    BY <1>4 DEF CleanUp
  <2>2. CASE Present(lc)
    <3>1. lc' = OnAclDisconnected(lc).state
      BY <1>4, <2>2, ReduceSwitch DEF CleanUp
    <3>2. /\ ~Present(lc') /\ lc'.acl_generation = lc.acl_generation
          /\ lc'.open_attempts = 0
      BY <1>1, <3>1 DEF OnAclDisconnected, Answer, Fresh, LifecycleState, Present
    <3> QED BY <2>1, <2>2, <3>2, Disconnects DEF NoWorker
  <2>3. CASE ~Present(lc)
    BY <1>4, <2>1, <2>3, Revokes DEF CleanUp
  <2> QED BY <2>2, <2>3
<1> QED BY <1>2, <1>3, <1>4

\* Everything else leaves the reducer's record and the worker's standing alone.
LEMMA OthersGrantNothing ==
    ASSUME HostInv,
           \/ GoesOn \/ Breaks \/ RenderUnchanged \/ RenderResumes \/ RenderStopDeferred
           \/ GateWaits \/ WorkerNext \/ Environment \/ Rests \/ UNCHANGED vars
    PROVE  Grants
<1>1. CASE WorkerNext
  <2>1. worker \in Worker /\ Obeys(worker)
    BY DEF HostInv, TypeOK
  <2>2. lc' = lc /\ LicenceOf(worker') = LicenceOf(worker)
    BY <1>1, <2>1, WorkerObeys DEF LicenceOf, hostVars
  <2> QED BY <2>2, GrantsNothing
<1>2. CASE UNCHANGED <<lc, worker>>
  BY <1>2, GrantsNothing
<1>3. CASE GoesOn
  BY <1>2, <1>3 DEF GoesOn, AclWakes, AclDrained, SkipRenderPoll, RenderUnknown,
     NoEngineToPoll, EngineNotReady, NoWorkerEvent, HfpPollNotDue, StopNotDue,
     RetryNotDue
<1>4. CASE Breaks
  BY <1>2, <1>4 DEF Breaks, StateWriteFails, PollFails, ArchiveFails, EngineNotReady
<1>5. CASE RenderUnchanged \/ RenderResumes \/ RenderStopDeferred \/ GateWaits
  BY <1>2, <1>5 DEF RenderUnchanged, RenderResumes, RenderStopDeferred, GateWaits
<1>6. CASE Environment
  BY <1>2, <1>6 DEF Environment, LinkChanges, PlayerChanges, MicChanges, RequestStop,
     Settle, hostVars
<1>7. CASE Rests \/ UNCHANGED vars
  BY <1>2, <1>7 DEF Rests, vars, hostVars
<1> QED BY <1>1, <1>3, <1>4, <1>5, <1>6, <1>7

\* Every step of the daily host is a step of LdacAuthority or does not concern it.
LEMMA NextGrants == HostInv /\ [Next]_vars => Grants
<1> SUFFICES ASSUME HostInv, [Next]_vars PROVE Grants
  OBVIOUS
<1>1. CASE PollEngine
  <2>1. CASE NoEngineToPoll \/ EngineNotReady \/ GateWaits
    <3>1. GoesOn \/ Breaks \/ GateWaits
      BY <2>1 DEF GoesOn, Breaks
    <3> QED BY <3>1, OthersGrantNothing
  <2> QED BY <1>1, <2>1, HandshakeGrants, GateGrants DEF PollEngine
<1>2. CASE PollWorker
  <2>1. CASE NoWorkerEvent \/ ArchiveFails
    BY <2>1, OthersGrantNothing DEF GoesOn, Breaks
  <2> QED BY <1>2, <2>1, HandlersGrant, EndsGrant DEF PollWorker
<1>3. CASE RunDeadlines
  <2>1. CASE HfpPollNotDue \/ StopNotDue \/ RetryNotDue
    BY <2>1, OthersGrantNothing DEF GoesOn
  <2> QED BY <1>3, <2>1, HandlersGrant DEF RunDeadlines
<1>4. CASE PollRenderDemand
  BY <1>4, HandlersGrant, OthersGrantNothing DEF PollRenderDemand
<1>5. CASE AclWakes \/ AclDrained \/ SkipRenderPoll \/ RenderUnknown
  BY <1>5, OthersGrantNothing DEF GoesOn
<1>6. CASE HostStep
  BY <1>1, <1>2, <1>3, <1>4, <1>5, <1>6, AclEventsGrant, HandlersGrant, EndsGrant
     DEF HostStep
<1>7. CASE HostBreaks
  BY <1>7, OthersGrantNothing DEF HostBreaks, Breaks
<1>8. CASE WorkerNext \/ Environment \/ Rests \/ UNCHANGED vars
  BY <1>8, OthersGrantNothing
<1> QED BY <1>6, <1>7, <1>8 DEF Next

\* The daily host implements LdacAuthority: at most one worker, contained before it is
\* reserved an attempt of the budget and reserved one before it may open, once, and a
\* connection that ends takes the authority with it in the same step.
THEOREM HostKeepsAuthority == Spec => KeepsAuthority
<1>1. Init => Authority!Init
  BY DEF Init, InitialState, Authority!Init, Present, Licence, EngineActive, NoWorker
<1>2. Grants => [Authority!Next]_(Authority!vars)
  BY DEF Grants
<1> QED
  BY <1>1, <1>2, NextGrants, HostIsCoherent, PTL DEF Spec, KeepsAuthority, Authority!Spec
=============================================================================
