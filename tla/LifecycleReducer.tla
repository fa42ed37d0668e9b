-------------------------- MODULE LifecycleReducer --------------------------
(***************************************************************************)
(* The lifecycle reducer fed with an arbitrary sequence of events, the way *)
(* agent/tests/v1_lifecycle_stress_tests.cpp feeds it: late, repeated and  *)
(* contradictory events included.  The properties are the contract its     *)
(* host, V1PresenceAgent, relies on.                                       *)
(***************************************************************************)
EXTENDS V1Lifecycle

VARIABLES
    lifecycle,      \* V1LifecycleState
    lastEvent,      \* the last event reduced, "none" before the first
    lastActions,    \* the actions the last event answered
    opened          \* history: OpenTransport answers since the last occasion

ledgerVars == <<lifecycle, lastEvent, lastActions, opened>>

\* The events that open a fresh occasion to play: a new link, a demand, the
\* end of a call.  Everything else is the machinery reacting to itself.
Occasion == {"AclConnected", "RenderStarted", "HfpResumeLdac"}

LedgerTypeOK ==
    /\ lifecycle \in LifecycleState
    /\ lastEvent \in Event \cup {"none"}
    /\ lastActions \subseteq Action
    /\ opened \in Nat

LedgerInit ==
    /\ lifecycle \in {InitialState(n, t, m) :
                          n \in AttemptLimits, t \in BOOLEAN, m \in BOOLEAN}
    /\ lastEvent = "none"
    /\ lastActions = {}
    /\ opened = 0

Reduces(e) ==
    LET answer == Reduce(lifecycle, e)
    IN  /\ lifecycle' = answer.state
        /\ lastActions' = answer.actions
        /\ lastEvent' = e
        /\ opened' = IF e \in Occasion THEN 0
                     ELSE IF "OpenTransport" \in answer.actions
                          THEN opened + 1 ELSE opened

LedgerNext == \E e \in Event : Reduces(e)

LedgerSpec == LedgerInit /\ [][LedgerNext]_ledgerVars

-----------------------------------------------------------------------------
\* The record is consistent after every event: a live media session has a
\* Ready engine that paid for its open, music is wanted and no call is on,
\* and nothing of a connection outlives it (V1LifecycleState).
ConsistentLifecycle == Consistent(lifecycle)

\* However the worker's failures, the retry timer and the engine's handshake
\* interleave, one occasion to play costs at most maximum_open_attempts
\* transport opens: the headset is never hammered with signaling attempts.
BoundedOpens == opened <= lifecycle.maximum_open_attempts

\* No engine is lost and none is doubled: StartEngine is answered exactly when
\* a free lease is taken, and a lease is given up only together with StopEngine
\* or because the event says that the engine is gone.
KeepsEngineLedger ==
    /\ "StartEngine" \in lastActions' <=>
           ~Leased(lifecycle) /\ lifecycle'.engine_lease = "Starting"
    /\ Leased(lifecycle) /\ ~Leased(lifecycle') =>
           \/ "StopEngine" \in lastActions'
           \/ lastEvent' \in {"EngineExited", "MediaStopped"}

EngineLedger == [][KeepsEngineLedger]_ledgerVars

\* No transport is abandoned: a media session that was opening or streaming
\* ends only with an order to close or cancel its transport, unless the event
\* itself reports that the transport is closed or was never opened.
KeepsTransportLedger ==
    lifecycle.media_session \in {"Opening", "Streaming"}
        /\ lifecycle'.media_session \notin {"Opening", "Streaming"} =>
            \/ lastActions' \cap {"GracefulStopTransport", "CancelTransport"} # {}
            \/ lastEvent' \in {"MediaStopped", "TransportOpenSuppressed"}

TransportLedger == [][KeepsTransportLedger]_ledgerVars

\* A retry is only ever scheduled in a state in which TransportRetryDue, if
\* nothing else happens first, starts an engine again: no dead retry timers.
ScheduledRetryStarts ==
    "ScheduleTransportRetry" \in lastActions =>
        "StartEngine" \in Reduce(lifecycle, "TransportRetryDue").actions

=============================================================================
