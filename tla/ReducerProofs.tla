--------------------------- MODULE ReducerProofs ---------------------------
(***************************************************************************)
(* What ReduceV1Lifecycle keeps true of the record it is given, for every  *)
(* attempt budget and generation limit: each event's operator maps a       *)
(* well-typed, consistent record to one.  One lemma per event, gathered in *)
(* ReduceIsSound; PresenceProofs stands on them, and so does what the      *)
(* reducer keeps true under every sequence of events, at the end.          *)
(***************************************************************************)
EXTENDS LifecycleReducer, TLAPS

\* A reducer answer that keeps the record well typed and consistent.
Sound(s, answer) ==
    /\ answer.state \in LifecycleState
    /\ answer.actions \subseteq Action
    /\ answer.state.maximum_open_attempts = s.maximum_open_attempts
    /\ Consistent(answer.state)

-----------------------------------------------------------------------------
\* AclConnected, AclDisconnected and WatcherLeaseExpired (v1_lifecycle.cpp:74-98)
\* leave a blank record of a connection behind.
LEMMA AclConnectedSound ==
    ASSUME NEW s \in LifecycleState, Consistent(s)
    PROVE  Sound(s, OnAclConnected(s))
<1>1. CASE Present(s)
  BY <1>1 DEF Sound, OnAclConnected, Answer
<1>2. CASE ~Present(s)
  <2> DEFINE t == [Fresh(s, "Present") EXCEPT
                     !.acl_generation = NextGeneration(@)]
  <2>0. NextGeneration(s.acl_generation) \in 0..GenerationLimit
    BY LifecycleConstants DEF NextGeneration, LifecycleState
  <2>1. t \in LifecycleState
    BY <2>0 DEF LifecycleState, Fresh, MediaSession
  <2>2. t.maximum_open_attempts = s.maximum_open_attempts
    BY DEF LifecycleState, Fresh
  <2>3. Consistent(t)
    BY LifecycleConstants DEF LifecycleState, Fresh, MediaSession, Consistent, LiveMediaHasEngine, StreamingIsWanted, AbsentIsBlank, ReadyHasPaid,
       WithinBudget, Present, Live, Leased, Running
  <2> QED BY <1>2, <2>1, <2>2, <2>3 DEF Sound, OnAclConnected, Answer, Action
<1> QED BY <1>1, <1>2

\* A disconnect or an expired watcher (v1_lifecycle.cpp:93-98) leaves a blank
\* record, which is consistent whatever was running.
LEMMA AclDisconnectedSound ==
    ASSUME NEW s \in LifecycleState, Consistent(s)
    PROVE  Sound(s, OnAclDisconnected(s))
<1>1. Fresh(s, "Absent") \in LifecycleState
  BY DEF LifecycleState, Fresh, MediaSession
<1>2. Fresh(s, "Absent").maximum_open_attempts = s.maximum_open_attempts
  BY DEF LifecycleState, Fresh
<1>3. Consistent(Fresh(s, "Absent"))
  BY LifecycleConstants
     DEF Consistent, LiveMediaHasEngine, StreamingIsWanted, AbsentIsBlank,
         ReadyHasPaid, WithinBudget, Present, Running, Leased, Live,
         LifecycleState, Fresh
<1>4. DisconnectActions(s) \subseteq Action
  BY DEF DisconnectActions, CancelIf, StopIfLeased, Action
<1> QED
  BY <1>1, <1>2, <1>3, <1>4 DEF Sound, OnAclDisconnected, Answer

\* A demand (v1_lifecycle.cpp:100-122) takes a free lease at most, and renews the
\* budget only while no session is live.
LEMMA RenderStartedSound ==
    ASSUME NEW s \in LifecycleState, Consistent(s)
    PROVE  Sound(s, OnRenderStarted(s))
<1> USE DEF OnRenderStarted, Answer, RenewsBudget
<1>1. OnRenderStarted(s).state \in LifecycleState
  BY DEF LifecycleState, MediaSession
<1>2. OnRenderStarted(s).state.maximum_open_attempts = s.maximum_open_attempts
  BY DEF LifecycleState
<1>3. Consistent(OnRenderStarted(s).state)
  BY LifecycleConstants
     DEF LifecycleState, MediaSession, Consistent, LiveMediaHasEngine,
         StreamingIsWanted, AbsentIsBlank, ReadyHasPaid, WithinBudget,
         Present, Running, Leased, Live
<1>4. OnRenderStarted(s).actions \subseteq Action
  BY DEF Action
<1> QED
  BY <1>1, <1>2, <1>3, <1>4 DEF Sound

\* The end of a demand (v1_lifecycle.cpp:124-149) never leaves a streaming
\* session behind without a demand.
LEMMA RenderStoppedSound ==
    ASSUME NEW s \in LifecycleState, Consistent(s)
    PROVE  Sound(s, OnRenderStopped(s))
<1> USE DEF OnRenderStopped, Answer, ToleratesGap
<1>1. OnRenderStopped(s).state \in LifecycleState
  BY DEF LifecycleState, MediaSession
<1>2. OnRenderStopped(s).state.maximum_open_attempts = s.maximum_open_attempts
  BY DEF LifecycleState
<1>3. Consistent(OnRenderStopped(s).state)
  BY LifecycleConstants
     DEF LifecycleState, MediaSession, Consistent, LiveMediaHasEngine,
         StreamingIsWanted, AbsentIsBlank, ReadyHasPaid, WithinBudget,
         Present, Running, Leased, Live
<1>4. OnRenderStopped(s).actions \subseteq Action
  BY DEF Action, StopTransport, StopIfLeased
<1> QED
  BY <1>1, <1>2, <1>3, <1>4 DEF Sound

\* A call (v1_lifecycle.cpp:151-169) leaves no session opening or streaming.
LEMMA HfpSuspendSound ==
    ASSUME NEW s \in LifecycleState, Consistent(s)
    PROVE  Sound(s, OnHfpSuspendLdac(s))
<1> USE DEF OnHfpSuspendLdac, Answer
<1>1. OnHfpSuspendLdac(s).state \in LifecycleState
  BY DEF LifecycleState, MediaSession
<1>2. OnHfpSuspendLdac(s).state.maximum_open_attempts = s.maximum_open_attempts
  BY DEF LifecycleState
<1>3. Consistent(OnHfpSuspendLdac(s).state)
  BY LifecycleConstants
     DEF LifecycleState, MediaSession, Consistent, LiveMediaHasEngine,
         StreamingIsWanted, AbsentIsBlank, ReadyHasPaid, WithinBudget,
         Present, Running, Leased, Live
<1>4. OnHfpSuspendLdac(s).actions \subseteq Action
  BY DEF Action, StopTransport, StopIfLeased
<1> QED
  BY <1>1, <1>2, <1>3, <1>4 DEF Sound

\* The end of a call (v1_lifecycle.cpp:171-182) restarts only from a stopped
\* session.
LEMMA HfpResumeSound ==
    ASSUME NEW s \in LifecycleState, Consistent(s)
    PROVE  Sound(s, OnHfpResumeLdac(s))
<1> USE DEF OnHfpResumeLdac, Answer, CanStart
<1>1. OnHfpResumeLdac(s).state \in LifecycleState
  BY DEF LifecycleState, MediaSession
<1>2. OnHfpResumeLdac(s).state.maximum_open_attempts = s.maximum_open_attempts
  BY DEF LifecycleState
<1>3. Consistent(OnHfpResumeLdac(s).state)
  BY LifecycleConstants
     DEF LifecycleState, MediaSession, Consistent, LiveMediaHasEngine,
         StreamingIsWanted, AbsentIsBlank, ReadyHasPaid, WithinBudget,
         Present, Running, Leased, Live
<1>4. OnHfpResumeLdac(s).actions \subseteq Action
  BY DEF Action
<1> QED
  BY <1>1, <1>2, <1>3, <1>4 DEF Sound

\* The handshake (v1_lifecycle.cpp:184-202) is the only event that makes a
\* session live, and it counts the attempt.
LEMMA EngineReadySound ==
    ASSUME NEW s \in LifecycleState, Consistent(s)
    PROVE  Sound(s, OnEngineReady(s))
<1> USE DEF OnEngineReady, Answer, MayOpen
<1>0. s.open_attempts + 1 \in Nat /\ s.open_attempts \in Nat
  BY DEF LifecycleState
<1>1. OnEngineReady(s).state \in LifecycleState
  <2>1. [s EXCEPT !.engine_lease = "Ready", !.media_session = "Opening",
                  !.open_attempts = @ + 1] \in LifecycleState
    BY <1>0 DEF LifecycleState, MediaSession
  <2>2. [s EXCEPT !.engine_lease = "Absent"] \in LifecycleState
    BY DEF LifecycleState
  <2> QED
    BY <2>1, <2>2
<1>2. OnEngineReady(s).state.maximum_open_attempts = s.maximum_open_attempts
  BY DEF LifecycleState
<1>3. Consistent(OnEngineReady(s).state)
  BY LifecycleConstants
     DEF LifecycleState, MediaSession, Consistent, LiveMediaHasEngine,
         StreamingIsWanted, AbsentIsBlank, ReadyHasPaid, WithinBudget,
         Present, Running, Leased, Live
<1>4. OnEngineReady(s).actions \subseteq Action
  BY DEF Action
<1> QED
  BY <1>1, <1>2, <1>3, <1>4 DEF Sound

\* A lost engine (v1_lifecycle.cpp:204-214) leaves no live session.
LEMMA EngineExitedSound ==
    ASSUME NEW s \in LifecycleState, Consistent(s)
    PROVE  Sound(s, OnEngineExited(s))
<1> USE DEF OnEngineExited, Answer
<1>1. OnEngineExited(s).state \in LifecycleState
  BY DEF LifecycleState, MediaSession
<1>2. OnEngineExited(s).state.maximum_open_attempts = s.maximum_open_attempts
  BY DEF LifecycleState
<1>3. Consistent(OnEngineExited(s).state)
  BY LifecycleConstants
     DEF LifecycleState, MediaSession, Consistent, LiveMediaHasEngine,
         StreamingIsWanted, AbsentIsBlank, ReadyHasPaid, WithinBudget,
         Present, Running, Leased, Live
<1>4. OnEngineExited(s).actions \subseteq Action
  BY DEF Action
<1> QED
  BY <1>1, <1>2, <1>3, <1>4 DEF Sound

\* A suppressed open (v1_lifecycle.cpp:216-220) stops the session.
LEMMA OpenSuppressedSound ==
    ASSUME NEW s \in LifecycleState, Consistent(s)
    PROVE  Sound(s, OnTransportOpenSuppressed(s))
<1> USE DEF OnTransportOpenSuppressed, Answer
<1>1. OnTransportOpenSuppressed(s).state \in LifecycleState
  BY DEF LifecycleState, MediaSession
<1>2. OnTransportOpenSuppressed(s).state.maximum_open_attempts = s.maximum_open_attempts
  BY DEF LifecycleState
<1>3. Consistent(OnTransportOpenSuppressed(s).state)
  BY LifecycleConstants
     DEF LifecycleState, MediaSession, Consistent, LiveMediaHasEngine,
         StreamingIsWanted, AbsentIsBlank, ReadyHasPaid, WithinBudget,
         Present, Running, Leased, Live
<1>4. OnTransportOpenSuppressed(s).actions \subseteq Action
  BY DEF Action
<1> QED
  BY <1>1, <1>2, <1>3, <1>4 DEF Sound

\* Streaming (v1_lifecycle.cpp:222-230) starts only where it is wanted.
LEMMA MediaStartedSound ==
    ASSUME NEW s \in LifecycleState, Consistent(s)
    PROVE  Sound(s, OnMediaStarted(s))
<1> USE DEF OnMediaStarted, Answer
<1>1. OnMediaStarted(s).state \in LifecycleState
  BY DEF LifecycleState, MediaSession
<1>2. OnMediaStarted(s).state.maximum_open_attempts = s.maximum_open_attempts
  BY DEF LifecycleState
<1>3. Consistent(OnMediaStarted(s).state)
  BY LifecycleConstants
     DEF LifecycleState, MediaSession, Consistent, LiveMediaHasEngine,
         StreamingIsWanted, AbsentIsBlank, ReadyHasPaid, WithinBudget,
         Present, Running, Leased, Live
<1>4. OnMediaStarted(s).actions \subseteq Action
  BY DEF Action
<1> QED
  BY <1>1, <1>2, <1>3, <1>4 DEF Sound

\* A closed session (v1_lifecycle.cpp:232-243) gives the lease back.
LEMMA MediaStoppedSound ==
    ASSUME NEW s \in LifecycleState, Consistent(s)
    PROVE  Sound(s, OnMediaStopped(s))
<1> USE DEF OnMediaStopped, Answer
<1>1. OnMediaStopped(s).state \in LifecycleState
  BY DEF LifecycleState, MediaSession
<1>2. OnMediaStopped(s).state.maximum_open_attempts = s.maximum_open_attempts
  BY DEF LifecycleState
<1>3. Consistent(OnMediaStopped(s).state)
  BY LifecycleConstants
     DEF LifecycleState, MediaSession, Consistent, LiveMediaHasEngine,
         StreamingIsWanted, AbsentIsBlank, ReadyHasPaid, WithinBudget,
         Present, Running, Leased, Live
<1>4. OnMediaStopped(s).actions \subseteq Action
  BY DEF Action
<1> QED
  BY <1>1, <1>2, <1>3, <1>4 DEF Sound

\* A refused open (v1_lifecycle.cpp:245-260) ends the session, retry or not.
LEMMA RetryableFailureSound ==
    ASSUME NEW s \in LifecycleState, Consistent(s)
    PROVE  Sound(s, OnTransportRetryableFailure(s))
<1> USE DEF OnTransportRetryableFailure, Answer, MayRetry
<1>1. OnTransportRetryableFailure(s).state \in LifecycleState
  BY DEF LifecycleState, MediaSession
<1>2. OnTransportRetryableFailure(s).state.maximum_open_attempts = s.maximum_open_attempts
  BY DEF LifecycleState
<1>3. Consistent(OnTransportRetryableFailure(s).state)
  BY LifecycleConstants
     DEF LifecycleState, MediaSession, Consistent, LiveMediaHasEngine,
         StreamingIsWanted, AbsentIsBlank, ReadyHasPaid, WithinBudget,
         Present, Running, Leased, Live
<1>4. OnTransportRetryableFailure(s).actions \subseteq Action
  BY DEF Action
<1> QED
  BY <1>1, <1>2, <1>3, <1>4 DEF Sound

\* The retry timer (v1_lifecycle.cpp:262-273) takes a free lease at most.
LEMMA RetryDueSound ==
    ASSUME NEW s \in LifecycleState, Consistent(s)
    PROVE  Sound(s, OnTransportRetryDue(s))
<1> USE DEF OnTransportRetryDue, Answer, CanStart
<1>1. OnTransportRetryDue(s).state \in LifecycleState
  BY DEF LifecycleState, MediaSession
<1>2. OnTransportRetryDue(s).state.maximum_open_attempts = s.maximum_open_attempts
  BY DEF LifecycleState
<1>3. Consistent(OnTransportRetryDue(s).state)
  BY LifecycleConstants
     DEF LifecycleState, MediaSession, Consistent, LiveMediaHasEngine,
         StreamingIsWanted, AbsentIsBlank, ReadyHasPaid, WithinBudget,
         Present, Running, Leased, Live
<1>4. OnTransportRetryDue(s).actions \subseteq Action
  BY DEF Action
<1> QED
  BY <1>1, <1>2, <1>3, <1>4 DEF Sound

\* A failed session (v1_lifecycle.cpp:275-286) holds no lease.
LEMMA MediaFailedSound ==
    ASSUME NEW s \in LifecycleState, Consistent(s)
    PROVE  Sound(s, OnMediaFailed(s))
<1> USE DEF OnMediaFailed, Answer
<1>1. OnMediaFailed(s).state \in LifecycleState
  BY DEF LifecycleState, MediaSession
<1>2. OnMediaFailed(s).state.maximum_open_attempts = s.maximum_open_attempts
  BY DEF LifecycleState
<1>3. Consistent(OnMediaFailed(s).state)
  BY LifecycleConstants
     DEF LifecycleState, MediaSession, Consistent, LiveMediaHasEngine,
         StreamingIsWanted, AbsentIsBlank, ReadyHasPaid, WithinBudget,
         Present, Running, Leased, Live
<1>4. OnMediaFailed(s).actions \subseteq Action
  BY DEF Action, CancelIf, StopIfLeased
<1> QED
  BY <1>1, <1>2, <1>3, <1>4 DEF Sound

-----------------------------------------------------------------------------
\* The switch over the event (v1_lifecycle.cpp:73) reaches each event's own case.
LEMMA ReduceSwitch ==
    ASSUME NEW s
    PROVE  /\ Reduce(s, "AclConnected") = OnAclConnected(s)
           /\ Reduce(s, "AclDisconnected") = OnAclDisconnected(s)
           /\ Reduce(s, "WatcherLeaseExpired") = OnAclDisconnected(s)
           /\ Reduce(s, "RenderStarted") = OnRenderStarted(s)
           /\ Reduce(s, "RenderStopped") = OnRenderStopped(s)
           /\ Reduce(s, "HfpSuspendLdac") = OnHfpSuspendLdac(s)
           /\ Reduce(s, "HfpResumeLdac") = OnHfpResumeLdac(s)
           /\ Reduce(s, "EngineReady") = OnEngineReady(s)
           /\ Reduce(s, "EngineExited") = OnEngineExited(s)
           /\ Reduce(s, "TransportOpenSuppressed") = OnTransportOpenSuppressed(s)
           /\ Reduce(s, "MediaStarted") = OnMediaStarted(s)
           /\ Reduce(s, "MediaStopped") = OnMediaStopped(s)
           /\ Reduce(s, "TransportRetryableFailure") = OnTransportRetryableFailure(s)
           /\ Reduce(s, "TransportRetryDue") = OnTransportRetryDue(s)
           /\ Reduce(s, "MediaFailed") = OnMediaFailed(s)
BY DEF Reduce

\* Whatever the event: ReduceV1Lifecycle (v1_lifecycle.cpp:67-289).
LEMMA ReduceIsSound ==
    ASSUME NEW s \in LifecycleState, Consistent(s), NEW e \in Event
    PROVE  Sound(s, Reduce(s, e))
BY AclConnectedSound, AclDisconnectedSound, RenderStartedSound,
   RenderStoppedSound, HfpSuspendSound, HfpResumeSound, EngineReadySound,
   EngineExitedSound, OpenSuppressedSound, MediaStartedSound,
   MediaStoppedSound, RetryableFailureSound, RetryDueSound, MediaFailedSound
   DEF Reduce, Event

-----------------------------------------------------------------------------
(***************************************************************************)
(* The reducer under every sequence of events, by induction over the steps *)
(* of LifecycleReducer.                                                    *)
(***************************************************************************)
\* The induction: types and consistency need each other, because the attempts
\* are only bounded in a consistent record.
Invariant == LedgerTypeOK /\ ConsistentLifecycle

\* The default V1LifecycleState is consistent.
LEMMA InitInvariant == LedgerInit => Invariant
<1> SUFFICES ASSUME LedgerInit PROVE Invariant
  OBVIOUS
<1> PICK n \in AttemptLimits, t \in BOOLEAN, m \in BOOLEAN :
         lifecycle = InitialState(n, t, m)
  BY DEF LedgerInit
<1>1. LedgerTypeOK
  BY LifecycleConstants
     DEF LedgerInit, LedgerTypeOK, LifecycleState, InitialState, MediaSession
<1>2. ConsistentLifecycle
  BY LifecycleConstants
     DEF InitialState, ConsistentLifecycle, Consistent, LiveMediaHasEngine,
         StreamingIsWanted, AbsentIsBlank, ReadyHasPaid, WithinBudget,
         Present, Running, Leased, Live
<1> QED
  BY <1>1, <1>2 DEF Invariant

\* Every event keeps type and consistency.
LEMMA StepInvariant == Invariant /\ [LedgerNext]_ledgerVars => Invariant'
<1> SUFFICES ASSUME Invariant, [LedgerNext]_ledgerVars PROVE Invariant'
  OBVIOUS
<1>1. ASSUME NEW e \in Event, Reduces(e) PROVE Invariant'
  <2>1. Sound(lifecycle, Reduce(lifecycle, e))
    BY ReduceIsSound DEF Invariant, LedgerTypeOK, ConsistentLifecycle
  <2>2. opened' \in Nat
    BY <1>1 DEF Reduces, Invariant, LedgerTypeOK
  <2> QED
    BY <1>1, <2>1, <2>2
       DEF Reduces, Invariant, LedgerTypeOK, ConsistentLifecycle, Sound
<1>2. CASE UNCHANGED ledgerVars
  BY <1>2 DEF ledgerVars, Invariant, LedgerTypeOK, ConsistentLifecycle
<1> QED
  BY <1>1, <1>2 DEF LedgerNext

\* The invariant the other theorems stand on.
LEMMA InvariantHolds == LedgerSpec => []Invariant
BY InitInvariant, StepInvariant, PTL DEF LedgerSpec

\* The record keeps its type: in particular acl_generation wraps inside its
\* width (v1_lifecycle.cpp:80-84) and no attempt counter leaves Nat.
THEOREM TypeCorrect == LedgerSpec => []LedgerTypeOK
BY InvariantHolds, PTL DEF Invariant

\* After every event the record is consistent: a live media session has the
\* Ready engine that paid for it, nothing plays unwanted or during a call, and
\* nothing of a connection outlives it.
THEOREM LifecycleConsistent == LedgerSpec => []ConsistentLifecycle
BY InvariantHolds, PTL DEF Invariant
-----------------------------------------------------------------------------
(***************************************************************************)
(* The two ledgers: nothing the host owns is dropped without an order.     *)
(***************************************************************************)
EngineKept(s, e, answer) ==
    /\ "StartEngine" \in answer.actions <=>
           ~Leased(s) /\ answer.state.engine_lease = "Starting"
    /\ Leased(s) /\ ~Leased(answer.state) =>
           "StopEngine" \in answer.actions \/ e \in {"EngineExited", "MediaStopped"}

TransportKept(s, e, answer) ==
    s.media_session \in {"Opening", "Streaming"}
        /\ answer.state.media_session \notin {"Opening", "Streaming"} =>
            \/ answer.actions \cap {"GracefulStopTransport", "CancelTransport"} # {}
            \/ e \in {"MediaStopped", "TransportOpenSuppressed"}

\* StartEngine and StopEngine keep pace with the lease, event by event.
LEMMA ReduceKeepsEngine ==
    ASSUME NEW s \in LifecycleState, Consistent(s), NEW e \in Event
    PROVE  EngineKept(s, e, Reduce(s, e))
<1> USE DEF EngineKept, Reduce, Answer, LifecycleState, StopIfLeased,
        StopTransport, Leased, Present, Running, Live
<1>1. CASE e \in {"AclDisconnected", "WatcherLeaseExpired"}
  BY <1>1 DEF OnAclDisconnected, DisconnectActions, CancelIf, Fresh
<1>2. CASE e = "AclConnected"
  <2>1. ~Present(s) => ~Leased(s) /\ s.media_session \in {"Stopped", "Faulted"}
    BY DEF Consistent, AbsentIsBlank
  <2> QED
    BY <1>2, <2>1 DEF OnAclConnected, Fresh
<1>3. CASE e = "RenderStarted"
  BY <1>3 DEF OnRenderStarted, RenewsBudget
<1>4. CASE e = "RenderStopped"
  BY <1>4 DEF OnRenderStopped, ToleratesGap
<1>5. CASE e = "HfpSuspendLdac"
  BY <1>5 DEF OnHfpSuspendLdac
<1>6. CASE e = "HfpResumeLdac"
  BY <1>6 DEF OnHfpResumeLdac, CanStart
<1>7. CASE e = "EngineReady"
  BY <1>7 DEF OnEngineReady, MayOpen
<1>8. CASE e = "EngineExited"
  BY <1>8 DEF OnEngineExited
<1>9. CASE e = "TransportOpenSuppressed"
  BY <1>9 DEF OnTransportOpenSuppressed
<1>10. CASE e = "MediaStarted"
  BY <1>10 DEF OnMediaStarted
<1>11. CASE e = "MediaStopped"
  BY <1>11 DEF OnMediaStopped
<1>12. CASE e = "TransportRetryableFailure"
  BY <1>12 DEF OnTransportRetryableFailure, MayRetry
<1>13. CASE e = "TransportRetryDue"
  BY <1>13 DEF OnTransportRetryDue, CanStart
<1>14. CASE e = "MediaFailed"
  BY <1>14 DEF OnMediaFailed, CancelIf
<1> QED
  BY <1>1, <1>2, <1>3, <1>4, <1>5, <1>6, <1>7, <1>8, <1>9, <1>10, <1>11, <1>12, <1>13, <1>14 DEF Event

\* An opening or streaming session is closed, cancelled or reported gone.
LEMMA ReduceKeepsTransport ==
    ASSUME NEW s \in LifecycleState, Consistent(s), NEW e \in Event
    PROVE  TransportKept(s, e, Reduce(s, e))
<1> USE DEF TransportKept, Reduce, Answer, LifecycleState, StopIfLeased,
        StopTransport, Leased, Present, Running, Live
<1>1. CASE e \in {"AclDisconnected", "WatcherLeaseExpired"}
  BY <1>1 DEF OnAclDisconnected, DisconnectActions, CancelIf, Fresh
<1>2. CASE e = "AclConnected"
  <2>1. ~Present(s) => ~Leased(s) /\ s.media_session \in {"Stopped", "Faulted"}
    BY DEF Consistent, AbsentIsBlank
  <2> QED
    BY <1>2, <2>1 DEF OnAclConnected, Fresh
<1>3. CASE e = "RenderStarted"
  BY <1>3 DEF OnRenderStarted, RenewsBudget
<1>4. CASE e = "RenderStopped"
  BY <1>4 DEF OnRenderStopped, ToleratesGap
<1>5. CASE e = "HfpSuspendLdac"
  BY <1>5 DEF OnHfpSuspendLdac
<1>6. CASE e = "HfpResumeLdac"
  BY <1>6 DEF OnHfpResumeLdac, CanStart
<1>7. CASE e = "EngineReady"
  BY <1>7 DEF OnEngineReady, MayOpen
<1>8. CASE e = "EngineExited"
  BY <1>8 DEF OnEngineExited
<1>9. CASE e = "TransportOpenSuppressed"
  BY <1>9 DEF OnTransportOpenSuppressed
<1>10. CASE e = "MediaStarted"
  BY <1>10 DEF OnMediaStarted
<1>11. CASE e = "MediaStopped"
  BY <1>11 DEF OnMediaStopped
<1>12. CASE e = "TransportRetryableFailure"
  BY <1>12 DEF OnTransportRetryableFailure, MayRetry
<1>13. CASE e = "TransportRetryDue"
  BY <1>13 DEF OnTransportRetryDue, CanStart
<1>14. CASE e = "MediaFailed"
  BY <1>14 DEF OnMediaFailed, CancelIf
<1> QED
  BY <1>1, <1>2, <1>3, <1>4, <1>5, <1>6, <1>7, <1>8, <1>9, <1>10, <1>11, <1>12, <1>13, <1>14 DEF Event


\* No engine is lost and none is doubled: the host of ReduceV1Lifecycle can
\* execute its answers one by one and always own exactly the leased engine.
THEOREM EngineLedgerKept == LedgerSpec => EngineLedger
<1>1. Invariant /\ [LedgerNext]_ledgerVars => [KeepsEngineLedger]_ledgerVars
  <2> SUFFICES ASSUME Invariant, NEW e \in Event, Reduces(e)
               PROVE  KeepsEngineLedger
    BY DEF LedgerNext
  <2>1. EngineKept(lifecycle, e, Reduce(lifecycle, e))
    BY ReduceKeepsEngine DEF Invariant, LedgerTypeOK, ConsistentLifecycle
  <2> QED
    BY <2>1 DEF Reduces, EngineKept, KeepsEngineLedger
<1> QED
  BY <1>1, InvariantHolds, PTL DEF LedgerSpec, EngineLedger

\* No transport is abandoned: an opening or streaming session ends with an order
\* to close or cancel, or because it is reported closed or never opened.
THEOREM TransportLedgerKept == LedgerSpec => TransportLedger
<1>1. Invariant /\ [LedgerNext]_ledgerVars => [KeepsTransportLedger]_ledgerVars
  <2> SUFFICES ASSUME Invariant, NEW e \in Event, Reduces(e)
               PROVE  KeepsTransportLedger
    BY DEF LedgerNext
  <2>1. TransportKept(lifecycle, e, Reduce(lifecycle, e))
    BY ReduceKeepsTransport DEF Invariant, LedgerTypeOK, ConsistentLifecycle
  <2> QED
    BY <2>1, SMTT(30) DEF Reduces, TransportKept, KeepsTransportLedger
<1> QED
  BY <1>1, InvariantHolds, PTL DEF LedgerSpec, TransportLedger
-----------------------------------------------------------------------------
(***************************************************************************)
(* The retry budget.                                                       *)
(***************************************************************************)
\* Outside an occasion, an open is counted when it is answered, and no count is
\* lost while the headset stays.
OpensCounted(s, answer) ==
    IF "OpenTransport" \in answer.actions
    THEN Present(s) /\ answer.state.open_attempts = s.open_attempts + 1
    ELSE Present(answer.state) =>
             Present(s) /\ answer.state.open_attempts = s.open_attempts

\* OpenTransport always costs one attempt, and only an occasion refunds any.
LEMMA ReduceCountsOpens ==
    ASSUME NEW s \in LifecycleState, Consistent(s), NEW e \in Event \ Occasion
    PROVE  OpensCounted(s, Reduce(s, e))
<1> USE DEF OpensCounted, Reduce, Answer, LifecycleState, StopIfLeased,
        StopTransport, Leased, Present, Running, Live
<1>1. CASE e \in {"AclDisconnected", "WatcherLeaseExpired"}
  BY <1>1 DEF OnAclDisconnected, DisconnectActions, CancelIf, Fresh
<1>2. CASE e = "RenderStopped"
  BY <1>2 DEF OnRenderStopped, ToleratesGap
<1>3. CASE e = "HfpSuspendLdac"
  BY <1>3 DEF OnHfpSuspendLdac
<1>4. CASE e = "EngineReady"
  BY <1>4 DEF OnEngineReady, MayOpen
<1>5. CASE e = "EngineExited"
  BY <1>5 DEF OnEngineExited
<1>6. CASE e = "TransportOpenSuppressed"
  BY <1>6 DEF OnTransportOpenSuppressed
<1>7. CASE e = "MediaStarted"
  BY <1>7 DEF OnMediaStarted
<1>8. CASE e = "MediaStopped"
  BY <1>8 DEF OnMediaStopped
<1>9. CASE e = "TransportRetryableFailure"
  BY <1>9 DEF OnTransportRetryableFailure, MayRetry
<1>10. CASE e = "TransportRetryDue"
  BY <1>10 DEF OnTransportRetryDue, CanStart
<1>11. CASE e = "MediaFailed"
  BY <1>11 DEF OnMediaFailed, CancelIf
<1> QED
  BY <1>1, <1>2, <1>3, <1>4, <1>5, <1>6, <1>7, <1>8, <1>9, <1>10, <1>11 DEF Event, Occasion

\* The history variable is covered by the record's own counter, which a
\* disconnect resets only because nothing can be opened without a headset.
OpensCovered ==
    /\ Present(lifecycle) => opened <= lifecycle.open_attempts
    /\ BoundedOpens

\* The opens of an occasion are covered by the attempts counted, while those
\* count for this occasion.
LEMMA StepOpens == Invariant /\ OpensCovered /\ [LedgerNext]_ledgerVars => OpensCovered'
<1> SUFFICES ASSUME Invariant, OpensCovered, [LedgerNext]_ledgerVars PROVE OpensCovered'
  OBVIOUS
<1>1. ASSUME NEW e \in Event, Reduces(e) PROVE OpensCovered'
  <2>1. Sound(lifecycle, Reduce(lifecycle, e))
    BY ReduceIsSound DEF Invariant, LedgerTypeOK, ConsistentLifecycle
  <2>2. /\ lifecycle \in LifecycleState /\ lifecycle' \in LifecycleState
        /\ lifecycle'.maximum_open_attempts = lifecycle.maximum_open_attempts
        /\ lifecycle'.open_attempts <= lifecycle'.maximum_open_attempts
        /\ opened \in Nat
    BY <1>1, <2>1 DEF Reduces, Sound, Consistent, WithinBudget, Invariant, LedgerTypeOK
  <2>3. lifecycle'.open_attempts \in Nat /\ lifecycle.open_attempts \in Nat
        /\ lifecycle.maximum_open_attempts \in Nat
    BY <2>2, LifecycleConstants DEF LifecycleState
  <2>4. CASE e \in Occasion
    BY <1>1, <2>2, <2>3, <2>4 DEF Reduces, OpensCovered, BoundedOpens
  <2>5. CASE e \notin Occasion
    <3>1. OpensCounted(lifecycle, Reduce(lifecycle, e))
      BY <2>5, ReduceCountsOpens DEF Invariant, LedgerTypeOK, ConsistentLifecycle
    <3> QED
      BY <1>1, <2>2, <2>3, <2>5, <3>1
         DEF Reduces, OpensCounted, OpensCovered, BoundedOpens
  <2> QED
    BY <2>4, <2>5
<1>2. CASE UNCHANGED ledgerVars
  BY <1>2 DEF ledgerVars, OpensCovered, BoundedOpens
<1> QED
  BY <1>1, <1>2 DEF LedgerNext

\* One occasion to play costs at most maximum_open_attempts transport opens,
\* however failures, retries and handshakes interleave.
THEOREM OpensBounded == LedgerSpec => []BoundedOpens
<1>1. LedgerInit => OpensCovered
  <2> SUFFICES ASSUME LedgerInit PROVE OpensCovered
    OBVIOUS
  <2> PICK n \in AttemptLimits, t \in BOOLEAN, m \in BOOLEAN :
           lifecycle = InitialState(n, t, m)
    BY DEF LedgerInit
  <2> QED
    BY LifecycleConstants
       DEF LedgerInit, InitialState, OpensCovered, BoundedOpens, Present
<1>2. OpensCovered => BoundedOpens
  BY DEF OpensCovered
<1> QED
  BY <1>1, <1>2, StepOpens, InvariantHolds, PTL DEF LedgerSpec

\* A scheduled retry finds CanStart and attempts left.
LEMMA StepRetry == Invariant /\ [LedgerNext]_ledgerVars /\ ScheduledRetryStarts
                       => ScheduledRetryStarts'
<1> SUFFICES ASSUME Invariant, [LedgerNext]_ledgerVars, ScheduledRetryStarts
             PROVE  ScheduledRetryStarts'
  OBVIOUS
<1>1. ASSUME NEW e \in Event, Reduces(e), "ScheduleTransportRetry" \in lastActions'
      PROVE  "StartEngine" \in Reduce(lifecycle', "TransportRetryDue").actions
  <2>1. lifecycle \in LifecycleState /\ Consistent(lifecycle)
    BY DEF Invariant, LedgerTypeOK, ConsistentLifecycle
  <2>2. e = "TransportRetryableFailure"
    BY <1>1, <2>1
       DEF Reduces, Reduce, Answer, Event, OnAclConnected, OnAclDisconnected,
           DisconnectActions, CancelIf, StopIfLeased, StopTransport,
           OnRenderStarted, OnRenderStopped, OnHfpSuspendLdac,
           OnHfpResumeLdac, OnEngineReady, OnEngineExited,
           OnTransportOpenSuppressed, OnMediaStarted, OnMediaStopped,
           OnTransportRetryDue, OnMediaFailed
  <2>3. MayRetry(lifecycle) /\ lifecycle' = [lifecycle EXCEPT !.engine_lease = "Absent",
                                        !.media_session = "Stopped"]
    BY <1>1, <2>2 DEF Reduces, Reduce, Answer, OnTransportRetryableFailure
  <2>4. lifecycle.open_attempts > 0
    BY <2>1, <2>3 DEF MayRetry, Consistent, LiveMediaHasEngine, Live
  <2>5. CanStart(lifecycle') /\ lifecycle'.open_attempts # 0
        /\ lifecycle'.open_attempts < lifecycle'.maximum_open_attempts
    BY <2>1, <2>3, <2>4
       DEF MayRetry, CanStart, Present, Running, Leased, LifecycleState
  <2> QED
    BY <2>5 DEF Reduce, OnTransportRetryDue, Answer
<1>2. CASE UNCHANGED ledgerVars
  BY <1>2 DEF ledgerVars, ScheduledRetryStarts
<1> QED
  BY <1>1, <1>2 DEF LedgerNext, ScheduledRetryStarts

\* A retry is only ever scheduled in a state in which, left alone, it starts an
\* engine: there are no dead retry timers.
THEOREM RetriesStart == LedgerSpec => []ScheduledRetryStarts
<1>1. LedgerInit => ScheduledRetryStarts
  BY DEF LedgerInit, ScheduledRetryStarts
<1> QED
  BY <1>1, StepRetry, InvariantHolds, PTL DEF LedgerSpec
=============================================================================
