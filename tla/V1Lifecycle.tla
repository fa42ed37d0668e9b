---------------------------- MODULE V1Lifecycle ----------------------------
(***************************************************************************)
(* The pure reducer of the presence agent, agent/v1_lifecycle.cpp.         *)
(*                                                                         *)
(* ReduceV1Lifecycle(state, event) updates the lifecycle record and        *)
(* answers the set of actions its host must execute.  Every event is one   *)
(* operator here, from a record to [state |-> ..., actions |-> ...].       *)
(*                                                                         *)
(* completed_media_sessions_for_generation is left out: the reducer only   *)
(* counts with it and nothing ever decides on it.                          *)
(***************************************************************************)
EXTENDS Integers

CONSTANT
    GenerationLimit,     \* The largest acl_generation: UINT64_MAX in the code.
    AttemptLimits        \* The values maximum_open_attempts is configured with.

ASSUME LifecycleConstants ==
    /\ GenerationLimit \in Nat \ {0}
    /\ AttemptLimits \subseteq Nat \ {0}

Event == {"AclConnected", "AclDisconnected", "RenderStarted", "RenderStopped",
          "HfpSuspendLdac", "HfpResumeLdac", "EngineReady", "EngineExited",
          "TransportOpenSuppressed", "MediaStarted", "MediaStopped",
          "TransportRetryableFailure", "TransportRetryDue", "MediaFailed",
          "WatcherLeaseExpired"}

Action == {"PublishEndpointPresent", "PublishEndpointAbsent", "StartEngine",
           "StopEngine", "OpenTransport", "GracefulStopTransport",
           "CancelTransport", "FailMute", "ScheduleTransportRetry"}

MediaSession == {"Stopped", "Opening", "Streaming", "Stopping", "Faulted"}

\* A media session some Bluetooth transport may still belong to.
Live == {"Opening", "Streaming", "Stopping"}

LifecycleState ==
    [physical_presence     : {"Absent", "Present"},
     render_demand         : {"Idle", "Running"},
     engine_lease          : {"Absent", "Starting", "Ready"},
     media_session         : MediaSession,
     acl_generation        : 0..GenerationLimit,
     open_attempts         : Nat,
     maximum_open_attempts : AttemptLimits,
     tolerate_gaps         : BOOLEAN,
     allow_multiple        : BOOLEAN,
     hfp_suspended         : BOOLEAN]

InitialState(attempts, tolerate, multiple) ==
    [physical_presence     |-> "Absent",
     render_demand         |-> "Idle",
     engine_lease          |-> "Absent",
     media_session         |-> "Stopped",
     acl_generation        |-> 0,
     open_attempts         |-> 0,
     maximum_open_attempts |-> attempts,
     tolerate_gaps         |-> tolerate,
     allow_multiple        |-> multiple,
     hfp_suspended         |-> FALSE]

Present(s) == s.physical_presence = "Present"
Running(s) == s.render_demand = "Running"
Leased(s)  == s.engine_lease # "Absent"

Answer(s, acts) == [state |-> s, actions |-> acts]

\* The action sets several events share: give the engine back, if there is
\* one; end the media session as politely as the link still allows.
StopIfLeased(s)  == IF Leased(s) THEN {"StopEngine"} ELSE {}
CancelIf(cond)   == IF cond THEN {"CancelTransport"} ELSE {}
StopTransport(s) == IF Present(s) THEN {"GracefulStopTransport"}
                                  ELSE {"CancelTransport"}

-----------------------------------------------------------------------------
\* Mutant: the generation does not wrap.
UnboundedGeneration(g) == g + 1

NextGeneration(g) == IF g = GenerationLimit THEN 1 ELSE g + 1

\* Mutant: the attempts survive the connection.
FreshKeepingAttempts(s, presence) ==
    [s EXCEPT !.physical_presence = presence,
              !.render_demand = "Idle",
              !.engine_lease = "Absent",
              !.media_session = "Stopped",
              !.hfp_suspended = FALSE]

\* What a session starts from, and what a disconnect leaves behind.
Fresh(s, presence) ==
    [s EXCEPT !.physical_presence = presence,
              !.render_demand = "Idle",
              !.engine_lease = "Absent",
              !.media_session = "Stopped",
              !.open_attempts = 0,
              !.hfp_suspended = FALSE]

OnAclConnected(s) ==
    IF Present(s)
    THEN Answer(s, {})
    ELSE Answer([Fresh(s, "Present") EXCEPT
                     !.acl_generation = NextGeneration(@)],
                {"PublishEndpointPresent"})

\* Mutant: a disconnect forgets the engine.
DisconnectLeavingEngine(s) ==
    {"FailMute", "PublishEndpointAbsent"}
        \cup CancelIf(s.media_session \in Live)

DisconnectActions(s) ==
    {"FailMute", "PublishEndpointAbsent"}
        \cup CancelIf(s.media_session \in Live) \cup StopIfLeased(s)

\* Also WatcherLeaseExpired.
OnAclDisconnected(s) == Answer(Fresh(s, "Absent"), DisconnectActions(s))

-----------------------------------------------------------------------------
\* A demand that was idle, after a session that used up attempts, gets a new
\* budget when the agent may play more than one session per generation.
RenewsBudget(s) ==
    /\ ~Running(s)
    /\ s.allow_multiple
    /\ Present(s)
    /\ ~Leased(s)
    /\ s.media_session = "Stopped"

OnRenderStarted(s) ==
    LET demanded == [s EXCEPT !.render_demand = "Running"]
        budgeted == IF RenewsBudget(s)
                    THEN [demanded EXCEPT !.open_attempts = 0] ELSE demanded
    IN  IF s.hfp_suspended
        THEN Answer(demanded, {})
        ELSE IF Present(s) /\ ~Leased(s) /\ budgeted.open_attempts = 0
             THEN Answer([budgeted EXCEPT !.engine_lease = "Starting"],
                         {"StartEngine"})
             ELSE Answer(budgeted, {})

\* Mutant: a gap is tolerated while streaming as well.
ToleratesAnyGap(s) ==
    /\ s.tolerate_gaps
    /\ s.media_session \notin {"Stopping", "Faulted"}
    /\ Leased(s)

\* Before the transport opens, a bounded gap in the rendering is tolerated.
ToleratesGap(s) ==
    /\ s.tolerate_gaps
    /\ s.media_session \notin {"Streaming", "Stopping", "Faulted"}
    /\ Leased(s)

OnRenderStopped(s) ==
    LET idle   == [s EXCEPT !.render_demand = "Idle"]
        ending == s.media_session \in {"Opening", "Streaming"}
        forget == s.media_session = "Faulted" /\ ~s.allow_multiple
    IN  IF ToleratesGap(s)
        THEN Answer(idle, {})
        ELSE Answer([idle EXCEPT !.media_session =
                         IF ending THEN "Stopping"
                         ELSE IF forget THEN "Stopped" ELSE @],
                    (IF ending THEN StopTransport(s) ELSE {})
                        \cup StopIfLeased(s))

\* Mutant: the suspension is only recorded.
HfpSuspendOnlyRecorded(s) == Answer([s EXCEPT !.hfp_suspended = TRUE], {})

OnHfpSuspendLdac(s) ==
    LET live == s.media_session \in Live
    IN  Answer([s EXCEPT !.hfp_suspended = TRUE,
                         !.media_session = IF live THEN "Stopping" ELSE @],
               (IF live THEN StopTransport(s) ELSE {}) \cup StopIfLeased(s))

\* The demand is there and nothing is playing or being set up.
CanStart(s) ==
    Present(s) /\ Running(s) /\ ~Leased(s) /\ s.media_session = "Stopped"

OnHfpResumeLdac(s) ==
    LET resumed == [s EXCEPT !.hfp_suspended = FALSE]
    IN  IF s.hfp_suspended /\ CanStart(s)
        THEN Answer([resumed EXCEPT !.open_attempts = 0,
                                    !.engine_lease = "Starting"],
                    {"StartEngine"})
        ELSE Answer(resumed, {})

-----------------------------------------------------------------------------
MayOpen(s) ==
    /\ Present(s)
    /\ ~s.hfp_suspended
    /\ Running(s) \/ s.tolerate_gaps
    /\ s.engine_lease = "Starting"
    /\ s.open_attempts < s.maximum_open_attempts

\* Mutant: the first attempt is counted, the others are not.
EngineReadyCountsOnce(s) ==
    IF s.engine_lease = "Ready" /\ s.open_attempts # 0
    THEN Answer(s, {})
    ELSE IF MayOpen(s)
         THEN Answer([s EXCEPT !.engine_lease = "Ready",
                               !.media_session = "Opening",
                               !.open_attempts = 1],
                     {"OpenTransport"})
         ELSE Answer([s EXCEPT !.engine_lease = "Absent"], {"StopEngine"})

OnEngineReady(s) ==
    IF s.engine_lease = "Ready" /\ s.open_attempts # 0
    THEN Answer(s, {})
    ELSE IF MayOpen(s)
         THEN Answer([s EXCEPT !.engine_lease = "Ready",
                               !.media_session = "Opening",
                               !.open_attempts = @ + 1],
                     {"OpenTransport"})
         ELSE Answer([s EXCEPT !.engine_lease = "Absent"], {"StopEngine"})

\* Mutant: the transport of a lost engine is not cancelled.
EngineExitedUncancelled(s) ==
    LET live == s.media_session \in Live
    IN  Answer([s EXCEPT !.engine_lease = "Absent",
                         !.media_session = IF live THEN "Faulted" ELSE @],
               IF live THEN {"FailMute"} ELSE {})

OnEngineExited(s) ==
    LET live == s.media_session \in Live
    IN  Answer([s EXCEPT !.engine_lease = "Absent",
                         !.media_session = IF live THEN "Faulted" ELSE @],
               IF live THEN {"FailMute", "CancelTransport"} ELSE {})

OnTransportOpenSuppressed(s) ==
    Answer([s EXCEPT !.media_session = IF @ = "Opening" THEN "Stopped" ELSE @],
           {})

OnMediaStarted(s) ==
    LET plays == /\ Present(s)
                 /\ ~s.hfp_suspended
                 /\ Running(s)
                 /\ s.engine_lease = "Ready"
                 /\ s.media_session = "Opening"
    IN  Answer(IF plays THEN [s EXCEPT !.media_session = "Streaming"] ELSE s,
               {})

OnMediaStopped(s) ==
    Answer([s EXCEPT !.media_session = "Stopped", !.engine_lease = "Absent"],
           {})

\* Mutant: a retry is scheduled whether or not anybody still plays.
MayRetryUnwanted(s) ==
    /\ Present(s)
    /\ s.media_session = "Opening"
    /\ s.open_attempts < s.maximum_open_attempts

\* An open that was refused before any exchange may be tried again while the
\* demand lasts and the budget is not used up.
MayRetry(s) ==
    /\ Present(s)
    /\ Running(s)
    /\ s.media_session = "Opening"
    /\ s.open_attempts < s.maximum_open_attempts

\* Mutants: the failed engine is left running; the retry is not scheduled.
RetryableFailureLeavingEngine(s) ==
    Answer([s EXCEPT !.engine_lease = "Absent",
                     !.media_session = IF MayRetry(s) THEN "Stopped"
                                                      ELSE "Faulted"],
           {"FailMute", "CancelTransport"}
               \cup (IF MayRetry(s) THEN {"ScheduleTransportRetry"} ELSE {}))

RetryableFailureUnscheduled(s) ==
    Answer([s EXCEPT !.engine_lease = "Absent",
                     !.media_session = IF MayRetry(s) THEN "Stopped"
                                                      ELSE "Faulted"],
           {"FailMute", "CancelTransport", "StopEngine"})

OnTransportRetryableFailure(s) ==
    Answer([s EXCEPT !.engine_lease = "Absent",
                     !.media_session = IF MayRetry(s) THEN "Stopped"
                                                      ELSE "Faulted"],
           {"FailMute", "CancelTransport", "StopEngine"}
               \cup (IF MayRetry(s) THEN {"ScheduleTransportRetry"} ELSE {}))

OnTransportRetryDue(s) ==
    IF /\ CanStart(s)
       /\ s.open_attempts # 0
       /\ s.open_attempts < s.maximum_open_attempts
    THEN Answer([s EXCEPT !.engine_lease = "Starting"], {"StartEngine"})
    ELSE Answer(s, {})

\* Mutant: the engine of a failed session is forgotten.
MediaFailedLeavingEngine(s) ==
    Answer([s EXCEPT !.engine_lease = "Absent", !.media_session = "Faulted"],
           {"FailMute"} \cup CancelIf(s.media_session # "Stopped"))

OnMediaFailed(s) ==
    Answer([s EXCEPT !.engine_lease = "Absent", !.media_session = "Faulted"],
           {"FailMute"} \cup CancelIf(s.media_session # "Stopped")
               \cup StopIfLeased(s))

-----------------------------------------------------------------------------
\* ReduceV1Lifecycle: the switch over the event.
Reduce(s, event) ==
    CASE event = "AclConnected"              -> OnAclConnected(s)
      [] event \in {"AclDisconnected", "WatcherLeaseExpired"}
                                             -> OnAclDisconnected(s)
      [] event = "RenderStarted"             -> OnRenderStarted(s)
      [] event = "RenderStopped"             -> OnRenderStopped(s)
      [] event = "HfpSuspendLdac"            -> OnHfpSuspendLdac(s)
      [] event = "HfpResumeLdac"             -> OnHfpResumeLdac(s)
      [] event = "EngineReady"               -> OnEngineReady(s)
      [] event = "EngineExited"              -> OnEngineExited(s)
      [] event = "TransportOpenSuppressed"   -> OnTransportOpenSuppressed(s)
      [] event = "MediaStarted"              -> OnMediaStarted(s)
      [] event = "MediaStopped"              -> OnMediaStopped(s)
      [] event = "TransportRetryableFailure" -> OnTransportRetryableFailure(s)
      [] event = "TransportRetryDue"         -> OnTransportRetryDue(s)
      [] event = "MediaFailed"               -> OnMediaFailed(s)

-----------------------------------------------------------------------------
(***************************************************************************)
(* What the reducer keeps true of its record, whatever events it is given. *)
(***************************************************************************)

\* A transport is only ever set up, used or torn down on behalf of a Ready
\* engine of a connected headset that has spent an attempt of its budget.
LiveMediaHasEngine(s) ==
    s.media_session \in Live =>
        Present(s) /\ s.engine_lease = "Ready" /\ s.open_attempts > 0

\* Music flows only while somebody wants it and no call owns the headset.
StreamingIsWanted(s) ==
    /\ s.media_session = "Streaming" => Running(s)
    /\ s.media_session \in {"Opening", "Streaming"} => ~s.hfp_suspended

\* Nothing of a connection outlives it.
AbsentIsBlank(s) ==
    ~Present(s) => /\ ~Leased(s)
                   /\ s.media_session \in {"Stopped", "Faulted"}
                   /\ s.open_attempts = 0

\* An engine past its handshake has paid for its open.
ReadyHasPaid(s) == s.engine_lease = "Ready" => s.open_attempts > 0

WithinBudget(s) == s.open_attempts <= s.maximum_open_attempts

Consistent(s) ==
    /\ LiveMediaHasEngine(s)
    /\ StreamingIsWanted(s)
    /\ AbsentIsBlank(s)
    /\ ReadyHasPaid(s)
    /\ WithinBudget(s)
=============================================================================
