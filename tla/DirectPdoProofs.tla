--------------------------- MODULE DirectPdoProofs ---------------------------
(***************************************************************************)
(* The direct-PDO driver, for every bound and number of open attempts: its *)
(* owners stay consistent, a session that counts as open is backed, and a  *)
(* packet stays on the link it was checked on.                             *)
(***************************************************************************)
EXTENDS DirectPdo, TLAPS

(***************************************************************************)
(* What the dispatch owner keeps between two lock sections.                *)
(***************************************************************************)

(* A loss is only recorded while PnP runs; a faulted session has at most its cancel   *)
(* ahead, one that is offline nothing.                                                *)
OwnerInv(s) ==
    /\ s \in DispatchOwner
    /\ s.Generation # 0
    /\ s.RecoveryRequired => s.PnpStarted
    /\ s.TransportState = "Faulted" => s.PendingAction \in {"None", "CancelAndClose"}
    /\ s.TransportState = "Offline" => s.PendingAction = "None"
    /\ OwnerIsConsistent(s)

(* The owner after planning: the session may have got an action, and then a worker. *)
LEMMA PlanAndOwnKeeps ==
    ASSUME NEW s, OwnerInv(s)
    PROVE  OwnerInv(PlanAndOwn(s)) /\ PlanAndOwn(s).ActiveAction = s.ActiveAction
BY DEF OwnerInv, PlanAndOwn, OwnWorker, Plan, NextAction, OwnerIsConsistent, DispatchOwner,
       Actions, Intents

(* The start of the device plans for a session that is closed. *)
LEMMA OnPnpStartKeeps ==
    ASSUME NEW s \in DispatchOwner, OwnerIsConsistent(s), ~s.PnpStarted, ~s.WorkerOwned
    PROVE  OwnerInv(OnPnpStart(s))
<1> DEFINE t == [s EXCEPT !.StopRequested = FALSE, !.PnpStarted = TRUE,
                          !.KsIntent = "Stopped", !.TransportState = "Closed",
                          !.PendingAction = "None", !.RecoveryRequired = FALSE,
                          !.Generation = s.Generation + 1]
<1>1. s.Generation + 1 \in Nat /\ s.Generation + 1 # 0
  BY DEF DispatchOwner
<1>2. OwnerInv(t)
  BY <1>1 DEF OwnerInv, OwnerIsConsistent, DispatchOwner, Actions, Intents
<1>3. OnPnpStart(s) = PlanAndOwn(t)
  BY DEF OnPnpStart, OwnerIsConsistent
<1> QED BY <1>2, <1>3, PlanAndOwnKeeps

(* Taking an action makes the pending one active, or ends the worker. *)
LEMMA TakeActionKeeps ==
    ASSUME NEW s, OwnerInv(s)
    PROVE  OwnerInv(TakeAction(s))
BY ZenonT(60) DEF OwnerInv, TakeAction, OwnerIsConsistent, DispatchOwner, Actions

(* The stop cancels whatever is under way. *)
LEMMA OnPnpStopKeeps ==
    ASSUME NEW s, OwnerInv(s)
    PROVE  OwnerInv(OnPnpStop(s)) /\ OnPnpStop(s).ActiveAction = s.ActiveAction
<1> DEFINE t == OnPnpStop(s)
           stopped == [s EXCEPT !.PnpStarted = FALSE, !.KsIntent = "Stopped",
                                !.RecoveryRequired = FALSE, !.StopRequested = TRUE]
           cancelled == [stopped EXCEPT !.PendingAction = "CancelAndClose"]
<1>1. CASE s.TransportState = "Offline"
  <2>1. t = [stopped EXCEPT !.PendingAction = "None"]
    BY <1>1 DEF OnPnpStop
  <2> QED BY <1>1, <2>1 DEF OwnerInv, OwnerIsConsistent, DispatchOwner, Actions, Intents
<1>2. CASE s.TransportState = "Closed" /\ s.PendingAction = "None"
  <2>1. t = [stopped EXCEPT !.TransportState = "Offline"]
    BY <1>2 DEF OnPnpStop
  <2> QED BY <1>2, <2>1 DEF OwnerInv, OwnerIsConsistent, DispatchOwner, Actions, Intents
<1>3. CASE s.TransportState # "Offline"
           /\ ~(s.TransportState = "Closed" /\ s.PendingAction = "None")
  <2>1. t = IF s.ActiveAction # "None" THEN cancelled
            ELSE OwnWorker(cancelled, "CancelAndClose")
    BY <1>3 DEF OnPnpStop
  <2>2. CASE s.ActiveAction # "None"
    <3>1. t = cancelled  BY <2>1, <2>2
    <3> QED BY <1>3, <2>2, <3>1 DEF OwnerInv, OwnerIsConsistent, DispatchOwner, Actions, Intents
  <2>3. CASE s.ActiveAction = "None"
    <3>1. t = [cancelled EXCEPT !.WorkerOwned = TRUE]
      BY <2>1, <2>3 DEF OwnWorker, OwnerInv, DispatchOwner
    <3> QED BY <1>3, <2>3, <3>1 DEF OwnerInv, OwnerIsConsistent, DispatchOwner, Actions, Intents
  <2> QED BY <2>2, <2>3
<1> QED BY <1>1, <1>2, <1>3

(* A loss cancels the session, or fails it where nothing is to be cancelled. *)
LEMMA OnTransportLostKeeps ==
    ASSUME NEW s, OwnerInv(s)
    PROVE  OwnerInv(OnTransportLost(s)) /\ OnTransportLost(s).ActiveAction = s.ActiveAction
<1> DEFINE t == OnTransportLost(s)
           lost == [s EXCEPT !.RecoveryRequired = TRUE, !.Generation = s.Generation + 1]
           cancelled == [lost EXCEPT !.PendingAction = "CancelAndClose"]
           idle == s.StopRequested \/ ~s.PnpStarted \/ s.TransportState = "Offline"
           nothing == s.TransportState \in {"Closed", "Faulted"} /\ s.PendingAction = "None"
<1>1. s.StopRequested \in BOOLEAN /\ s.PnpStarted \in BOOLEAN /\ s.RecoveryRequired \in BOOLEAN
  BY DEF OwnerInv, DispatchOwner
<1>2. s.Generation + 1 \in Nat /\ s.Generation + 1 # 0
  BY DEF OwnerInv, DispatchOwner
<1>3. CASE idle
  BY <1>1, <1>3 DEF OnTransportLost
<1>4. CASE ~idle /\ s.RecoveryRequired
  <2>1. t = IF s.ActiveAction # "None" THEN s ELSE OwnWorker(s, s.PendingAction)
    BY <1>1, <1>4 DEF OnTransportLost
  <2>2. OwnerInv(OwnWorker(s, s.PendingAction))
    BY DEF OwnerInv, OwnWorker, OwnerIsConsistent, DispatchOwner, Actions
  <2>3. OwnWorker(s, s.PendingAction).ActiveAction = s.ActiveAction
    BY DEF OwnerInv, OwnWorker, DispatchOwner
  <2> QED BY <2>1, <2>2, <2>3
<1>5. CASE ~idle /\ ~s.RecoveryRequired /\ nothing
  <2>1. t = [lost EXCEPT !.TransportState = "Faulted"]
    BY <1>1, <1>5 DEF OnTransportLost
  <2> QED BY <1>2, <1>5, <2>1 DEF OwnerInv, OwnerIsConsistent, DispatchOwner, Actions
<1>6. CASE ~idle /\ ~s.RecoveryRequired /\ ~nothing
  <2>1. t = IF s.ActiveAction # "None" THEN cancelled
            ELSE OwnWorker(cancelled, "CancelAndClose")
    BY <1>1, <1>6 DEF OnTransportLost
  <2>2. CASE s.ActiveAction # "None"
    <3>1. t = cancelled  BY <2>1, <2>2
    <3> QED BY <1>2, <1>6, <2>2, <3>1 DEF OwnerInv, OwnerIsConsistent, DispatchOwner, Actions
  <2>3. CASE s.ActiveAction = "None"
    <3>1. t = [cancelled EXCEPT !.WorkerOwned = TRUE]
      BY <2>1, <2>3 DEF OwnWorker, OwnerInv, DispatchOwner
    <3> QED BY <1>2, <1>6, <2>3, <3>1 DEF OwnerInv, OwnerIsConsistent, DispatchOwner, Actions
  <2> QED BY <2>2, <2>3
<1> QED BY <1>1, <1>3, <1>4, <1>5, <1>6

(* PortCls only moves the intent, and what is planned from it. *)
LEMMA SetKsIntentKeeps ==
    ASSUME NEW s, OwnerInv(s), NEW intent \in Intents
    PROVE  OwnerInv(SetKsIntent(s, intent)) /\ SetKsIntent(s, intent).ActiveAction = s.ActiveAction
<1> DEFINE t == [s EXCEPT !.KsIntent = intent]
<1>1. OwnerInv(t) /\ t.ActiveAction = s.ActiveAction
  BY DEF OwnerInv, OwnerIsConsistent, DispatchOwner
<1>2. OwnerInv(PlanAndOwn(t)) /\ PlanAndOwn(t).ActiveAction = t.ActiveAction
  BY <1>1, PlanAndOwnKeeps
<1> QED BY <1>1, <1>2 DEF SetKsIntent

(* A recovery closes the faulted session for good. *)
LEMMA RetryKeeps ==
    ASSUME NEW s, OwnerInv(s)
    PROVE  OwnerInv(Retry(s)) /\ Retry(s).ActiveAction = s.ActiveAction
<1> DEFINE t == [s EXCEPT !.TransportState = "Closed", !.RecoveryRequired = FALSE,
                          !.Generation = s.Generation + 1]
<1>1. CASE s.TransportState = "Faulted" /\ s.PnpStarted /\ s.PendingAction = "None"
  <2>1. s.Generation + 1 \in Nat /\ s.Generation + 1 # 0
    BY DEF OwnerInv, DispatchOwner
  <2>2. OwnerInv(t) /\ t.ActiveAction = s.ActiveAction
    BY <1>1, <2>1 DEF OwnerInv, OwnerIsConsistent, DispatchOwner, Actions
  <2>3. OwnerInv(PlanAndOwn(t)) /\ PlanAndOwn(t).ActiveAction = t.ActiveAction
    BY <2>2, PlanAndOwnKeeps
  <2> QED BY <2>2, <2>3 DEF Retry
<1>2. CASE ~(s.TransportState = "Faulted" /\ s.PnpStarted /\ s.PendingAction = "None")
  BY <1>2 DEF Retry
<1> QED BY <1>1, <1>2

(* A result counts only if its action is the one pending. *)
LEMMA SessionCompletesKeeps ==
    ASSUME NEW s, OwnerInv(s), s.WorkerOwned, s.ActiveAction = "None",
           NEW action \in Actions \ {"None"}, NEW succeeded \in BOOLEAN
    PROVE  OwnerInv(SessionCompletes(s, action, succeeded))
<1> DEFINE done == [s EXCEPT !.PendingAction = "None"]
           cancelled == action = "CancelAndClose" /\ s.RecoveryRequired
           reached(state) == [done EXCEPT !.TransportState = state]
<1> USE DEF OwnerInv, OwnerIsConsistent
<1>1. CASE action # s.PendingAction
  BY <1>1 DEF SessionCompletes
<1>2. ASSUME action = s.PendingAction
      PROVE  s.TransportState # "Offline" /\ (s.PnpStarted \/ action = "CancelAndClose")
  BY <1>2 DEF DispatchOwner
<1>3. ASSUME NEW state \in {"Closed", "Open", "Streaming", "Faulted", "Offline"},
             action = s.PendingAction, state = "Offline" <=> ~s.PnpStarted,
             s.RecoveryRequired => state = "Faulted"
      PROVE  OwnerInv(reached(state))
  BY <1>3 DEF DispatchOwner, Actions
<1>4. CASE action = s.PendingAction /\ cancelled
  <2>1. SessionCompletes(s, action, succeeded) = reached("Faulted")
    BY <1>4 DEF SessionCompletes
  <2> QED BY <1>3, <1>4, <2>1
<1>5. CASE action = s.PendingAction /\ ~cancelled
  <2>1. ~s.RecoveryRequired
    BY <1>2, <1>5 DEF DispatchOwner, Actions
  <2>2. CASE ~succeeded
    <3> DEFINE state == IF action = "CancelAndClose" /\ ~s.PnpStarted THEN "Offline" ELSE "Faulted"
    <3>1. SessionCompletes(s, action, succeeded) = reached(state)
      BY <1>5, <2>2 DEF SessionCompletes
    <3>2. state \in {"Offline", "Faulted"} /\ (state = "Offline" <=> ~s.PnpStarted)
      BY <1>2, <1>5
    <3> HIDE DEF state
    <3>3. OwnerInv(reached(state))
      BY <1>3, <1>5, <2>1, <3>2
    <3> QED BY <3>1, <3>3
  <2>3. CASE succeeded
    <3> DEFINE state == Reached(s, action)
               t == reached(state)
    <3>1. SessionCompletes(s, action, succeeded) = Plan(t)
      BY <1>5, <2>3 DEF SessionCompletes
    <3>2. /\ state \in {"Open", "Streaming", "Closed", "Offline"}
          /\ state = "Offline" <=> ~s.PnpStarted
      BY <1>2, <1>5 DEF Reached, Actions
    <3> HIDE DEF state
    <3>3. OwnerInv(t)
      BY <1>3, <1>5, <2>1, <3>2, ZenonT(60)
    <3>4. t.WorkerOwned
      BY DEF DispatchOwner
    <3>5. OwnerInv(PlanAndOwn(t))
      BY <3>3, PlanAndOwnKeeps
    <3>6. PlanAndOwn(t) = Plan(t)
      BY <3>3, <3>4 DEF PlanAndOwn, OwnWorker, Plan, DispatchOwner
    <3> QED BY <3>1, <3>5, <3>6
  <2> QED BY <2>2, <2>3
<1> QED BY <1>1, <1>4, <1>5

(* The result of the active action ends it. *)
LEMMA CompleteActionKeeps ==
    ASSUME NEW s, OwnerInv(s), s.ActiveAction # "None", NEW succeeded \in BOOLEAN
    PROVE  OwnerInv(CompleteAction(s, succeeded))
<1> DEFINE idle == [s EXCEPT !.ActiveAction = "None", !.ActiveGeneration = 0]
<1>1. /\ OwnerInv(idle) /\ idle.WorkerOwned /\ idle.ActiveAction = "None"
      /\ s.ActiveAction \in Actions \ {"None"}
  BY DEF OwnerInv, OwnerIsConsistent, DispatchOwner, Actions
<1>2. OwnerInv(SessionCompletes(idle, s.ActiveAction, succeeded))
  BY <1>1, SessionCompletesKeeps
<1> QED BY <1>1, <1>2 DEF CompleteAction

(***************************************************************************)
(* What a channel owner keeps between two lock sections.                   *)
(***************************************************************************)

(* A channel is only on its way offline once PnP has stopped. *)
ChannelInv(c) ==
    /\ c \in ChannelOwner
    /\ c.TargetOffline => ~c.PnpStarted
    /\ ChannelIsConsistent(c)

(* A channel starts with the device. *)
LEMMA ChannelStartedKeeps ==
    ASSUME NEW c, ChannelInv(c), ~c.PnpStarted, c.State = "Offline"
    PROVE  ChannelInv(ChannelStarted(c)) /\ ChannelStarted(c).PnpStarted
<1> DEFINE d == [ResetRequestFlags(c) EXCEPT !.PnpStarted = TRUE, !.State = "Closed",
                                             !.Generation = c.Generation + 1]
<1>1. c.Generation + 1 \in Nat
  BY DEF ChannelInv, ChannelOwner
<1>2. ChannelInv(d) /\ d.PnpStarted
  BY <1>1 DEF ChannelInv, ResetRequestFlags, ChannelIsConsistent, ChannelOwner
<1>3. ChannelStarted(c) = d
  BY DEF ChannelStarted, ResetRequestFlags, ChannelInv, ChannelOwner
<1> QED BY <1>2, <1>3

(* An open that is asked for keeps the channel consistent. *)
LEMMA RequestOpenKeeps ==
    ASSUME NEW c, ChannelInv(c)
    PROVE  ChannelInv(RequestOpen(c).owner) /\ RequestOpen(c).owner.PnpStarted = c.PnpStarted
BY DEF ChannelInv, RequestOpen, Answer, ChannelIsConsistent, ChannelOwner

(* A plain close of a channel that is offline would leave it Closed without PnP. *)
LEMMA RequestCloseKeeps ==
    ASSUME NEW c, ChannelInv(c), NEW target_offline \in BOOLEAN,
           target_offline \/ c.PnpStarted
    PROVE  /\ ChannelInv(RequestClose(c, target_offline).owner)
           /\ target_offline \/ RequestClose(c, target_offline).owner.PnpStarted
<1> DEFINE noted == [c EXCEPT !.CloseRequested = TRUE,
                              !.TargetOffline = c.TargetOffline \/ target_offline,
                              !.PnpStarted = c.PnpStarted /\ ~target_offline]
           asked == RequestClose(c, target_offline)
<1> USE DEF ChannelInv, ChannelIsConsistent, ChannelOwner
<1>1. CASE c.State = "Opening"
  <2>1. asked.owner = noted
    BY <1>1 DEF RequestClose, Answer
  <2> QED BY <1>1, <2>1
<1>2. CASE c.State = "ChannelOpen"
  <2>1. asked.owner = [noted EXCEPT !.State = "Closing"]
    BY <1>2 DEF RequestClose, Answer
  <2> QED BY <1>2, <2>1
<1>3. CASE c.State \in {"Closed", "Faulted", "Offline"}
  <2>1. asked.owner = [ResetRequestFlags(noted) EXCEPT
                         !.State = IF noted.TargetOffline THEN "Offline" ELSE "Closed"]
    BY <1>3 DEF RequestClose, Answer
  <2>2. CASE target_offline
    <3>1. asked.owner = [ResetRequestFlags(noted) EXCEPT !.State = "Offline"]
      BY <2>1, <2>2
    <3> QED BY <2>2, <3>1, ZenonT(60) DEF ResetRequestFlags
  <2>3. CASE ~target_offline
    <3>1. asked.owner = [ResetRequestFlags(noted) EXCEPT !.State = "Closed"]
      BY <2>1, <2>3
    <3> QED BY <2>3, <3>1, ZenonT(60) DEF ResetRequestFlags
  <2> QED BY <2>2, <2>3
<1>4. CASE c.State = "Closing"
  <2>1. asked.owner = noted
    BY <1>4 DEF RequestClose, Answer
  <2> QED BY <1>4, <2>1
<1> QED BY <1>1, <1>2, <1>3, <1>4

(* So does a loss, *)
LEMMA OnRemoteDisconnectKeeps ==
    ASSUME NEW c, ChannelInv(c), NEW generation
    PROVE  /\ ChannelInv(OnRemoteDisconnect(c, generation))
           /\ OnRemoteDisconnect(c, generation).PnpStarted = c.PnpStarted
<1>1. CASE TakesDisconnect(c, generation)
  <2>1. c.Generation + 1 \in Nat /\ c.PnpStarted
    BY <1>1 DEF TakesDisconnect, ChannelInv, ChannelOwner
  <2>2. OnRemoteDisconnect(c, generation) =
          [ResetRequestFlags(c) EXCEPT !.State = "Faulted", !.Generation = c.Generation + 1]
    BY <1>1 DEF OnRemoteDisconnect, ResetRequestFlags, ChannelInv, ChannelOwner
  <2> QED BY <2>1, <2>2 DEF ResetRequestFlags, ChannelInv, ChannelIsConsistent, ChannelOwner
<1>2. CASE ~TakesDisconnect(c, generation)
  BY <1>2 DEF OnRemoteDisconnect
<1> QED BY <1>1, <1>2

(* the end of an open, *)
LEMMA OnOpenCompleteKeeps ==
    ASSUME NEW c, ChannelInv(c), NEW generation, NEW acquired \in BOOLEAN
    PROVE  /\ ChannelInv(OnOpenComplete(c, generation, acquired).owner)
           /\ OnOpenComplete(c, generation, acquired).owner.PnpStarted = c.PnpStarted
BY DEF ChannelInv, OnOpenComplete, Answer, ResetRequestFlags, ChannelIsConsistent, ChannelOwner

(* and the end of a close. *)
LEMMA OnCloseCompleteKeeps ==
    ASSUME NEW c, ChannelInv(c), NEW succeeded \in BOOLEAN
    PROVE  /\ ChannelInv(OnCloseComplete(c, succeeded))
           /\ OnCloseComplete(c, succeeded).PnpStarted = c.PnpStarted
BY DEF ChannelInv, OnCloseComplete, ResetRequestFlags, ChannelIsConsistent, ChannelOwner

(***************************************************************************)
(* The driver: its dispatch owner, its channel owners and its mutexes.     *)
(***************************************************************************)

(* Where the stop takes the channels offline, with the worker idle for good. *)
LastSteps == {"stopSignaling", "stopMedia", "finish", "stopped"}

Places ==
    {"idle", "take", "settle", "open", "openWait", "reset", "retryWait", "discover", "openMedia",
     "mediaWait", "exchange", "graceful", "closeMedia", "closeSignaling", "complete"}

Worker == [pc : Places, ok : BOOLEAN, attempt : Nat, transient : BOOLEAN]

OwnerSide ==
    /\ OwnerInv(owner)
    /\ worker \in Worker
    /\ worker.pc \notin {"idle", "take"} => owner.ActiveAction # "None"
    /\ stopping # "no" => owner.StopRequested
    /\ stopping \in LastSteps => worker.pc = "idle"

ChannelSide ==
    /\ channel \in [Channels -> ChannelOwner]
    /\ \A c \in Channels : ChannelInv(channel[c])
    /\ stopping \notin LastSteps => \A c \in Channels : channel[c].PnpStarted

(* Who holds an OperationMutex to close is where it waits for that. *)
WorkerCloses(c) == IF c = "Media" THEN {"closeMedia"} ELSE {"closeSignaling", "reset"}
StopCloses(c) ==
    IF c = "Media" THEN {"closeMedia", "stopMedia"} ELSE {"closeSignaling", "stopSignaling"}

Holder == [by : {"nobody", "worker", "stop"}, step : {"none", "drain", "brb"}]

MutexSide ==
    /\ closing \in [Channels -> Holder]
    /\ \A c \in Channels :
          /\ closing[c].by = "worker" => worker.pc \in WorkerCloses(c)
          /\ closing[c].by = "stop" => stopping \in StopCloses(c)

IInv == OwnerSide /\ ChannelSide /\ MutexSide

(* The driver starts with the owners apart and no mutex held. *)
LEMMA InitHolds == Init => IInv
<1> SUFFICES ASSUME Init PROVE IInv
  OBVIOUS
<1>1. OwnerSide
  <2>1. InitialOwner \in DispatchOwner /\ OwnerIsConsistent(InitialOwner)
    BY DEF InitialOwner, OwnerIsConsistent, DispatchOwner, Actions, Intents
  <2>2. ~InitialOwner.PnpStarted /\ ~InitialOwner.WorkerOwned
    BY DEF InitialOwner
  <2>3. OwnerInv(owner)
    BY <2>1, <2>2, OnPnpStartKeeps DEF Init
  <2>4. worker = IdleWorker /\ stopping = "no"
    BY DEF Init
  <2>5. IdleWorker \in Worker /\ IdleWorker.pc = "idle"
    BY DEF IdleWorker, Worker, Places
  <2> QED BY <2>3, <2>4, <2>5 DEF OwnerSide, LastSteps
<1>2. ChannelSide
  <2> DEFINE d == ChannelStarted(InitialChannel)
  <2>1. /\ ChannelInv(InitialChannel)
        /\ InitialChannel.State = "Offline" /\ ~InitialChannel.PnpStarted
    BY DEF InitialChannel, ChannelInv, ChannelIsConsistent, ChannelOwner
  <2>2. ChannelInv(d) /\ d.PnpStarted
    BY <2>1, ChannelStartedKeeps
  <2>3. channel = [c \in Channels |-> d]
    BY DEF Init
  <2> HIDE DEF d
  <2> QED BY <2>2, <2>3 DEF ChannelSide, ChannelInv
<1>3. MutexSide
  <2>1. closing = [c \in Channels |-> NotClosing]
    BY DEF Init
  <2> QED BY <2>1 DEF MutexSide, Holder, NotClosing
<1> QED BY <1>1, <1>2, <1>3 DEF IInv

(***************************************************************************)
(* The dispatch owner and the worker.                                      *)
(***************************************************************************)

(* A lock section of another thread, which may queue the worker but never moves it. *)
LEMMA OwnsKeeps ==
    ASSUME OwnerSide, NEW s, OwnerInv(s), s.ActiveAction = owner.ActiveAction, Owns(s),
           stopping' \notin LastSteps, stopping' # "no" => s.StopRequested
    PROVE  OwnerSide'
<1> DEFINE woken == [IdleWorker EXCEPT !.pc = "take"]
<1>1. woken \in Worker /\ woken.pc = "take"
  BY DEF IdleWorker, Worker, Places
<1>2. worker' = worker \/ worker' = woken
  BY DEF Owns, Queued
<1> HIDE DEF woken
<1>3. worker' \in Worker /\ (worker' = worker \/ worker'.pc = "take")
  BY <1>1, <1>2 DEF OwnerSide
<1> QED BY <1>3 DEF Owns, OwnerSide

(* A worker that is under way is not moved by the lock section of another thread. *)
LEMMA WorkerStays ==
    ASSUME OwnerSide, NEW s, Owns(s)
    PROVE  worker.pc \notin {"idle", "take"} => worker' = worker
BY DEF OwnerSide, OwnerInv, OwnerIsConsistent, Owns, Queued

(* The stop is recorded before anything else, *)
LEMMA PnpStopRequestsStop ==
    ASSUME NEW s, OwnerInv(s)
    PROVE  OnPnpStop(s).StopRequested
BY DEF OwnerInv, DispatchOwner, OnPnpStop, OwnWorker

(* and what the worker does keeps that record. *)
LEMMA StopStaysRequested ==
    ASSUME NEW s, OwnerInv(s), s.StopRequested, NEW succeeded \in BOOLEAN
    PROVE  /\ TakeAction(s).StopRequested
           /\ s.ActiveAction # "None" => CompleteAction(s, succeeded).StopRequested
<1> USE DEF OwnerInv, DispatchOwner
<1>1. TakeAction(s).StopRequested
  BY DEF TakeAction
<1>2. ASSUME s.ActiveAction # "None" PROVE CompleteAction(s, succeeded).StopRequested
  BY <1>2 DEF CompleteAction, SessionCompletes, Plan
<1> QED BY <1>1, <1>2

(* A close that the stop has ended is one it had begun. *)
LEMMA StopMovesOn ==
    ASSUME MutexSide, StopEndsClose
    PROVE  /\ UNCHANGED <<owner, worker>> /\ stopping # "no"
           /\ stopping' \notin LastSteps => stopping \notin LastSteps
           /\ stopping' \in LastSteps => stopping \in LastSteps
<1>1. StopTarget \in Channels
  BY DEF StopTarget, Channels
<1>2. stopping \in StopCloses(StopTarget)
  BY <1>1 DEF MutexSide, Holder, StopEndsClose, EndsClose
<1>3. stopping \in {"closeSignaling", "closeMedia", "stopSignaling", "stopMedia"}
  BY <1>2 DEF StopCloses
<1> QED BY <1>3 DEF StopEndsClose, LastSteps

(* A step of the worker that goes on with the action it has. *)
LEMMA WorkerGoesOn ==
    ASSUME OwnerSide, worker.pc \notin {"idle", "take"}, worker' \in Worker,
           UNCHANGED <<owner, stopping>>
    PROVE  OwnerSide'
BY DEF OwnerSide

(* Where a close that has ended leaves the worker. *)
EndedClose ==
    /\ worker'.attempt = worker.attempt
    /\ worker.pc = "closeMedia" => worker'.pc = "closeSignaling" /\ (worker'.ok => worker.ok)
    /\ worker.pc = "closeSignaling" => worker'.pc = "complete" /\ (worker'.ok => worker.ok)
    /\ worker.pc = "reset" =>
          \/ worker'.pc = "complete" /\ ~worker'.ok
          \/ worker'.pc = "retryWait" /\ ~GivesUp

(* The worker ends a close where it waits for one, and goes where EndedClose says. *)
LEMMA WorkerEndsCloseGoesOn ==
    ASSUME OwnerSide, MutexSide, NEW c \in Channels, WorkerEndsClose(c)
    PROVE  /\ worker.pc \in {"closeMedia", "closeSignaling", "reset"}
           /\ worker' \in Worker /\ EndedClose
<1>1. worker.pc \in WorkerCloses(c)
  BY DEF WorkerEndsClose, EndsClose, MutexSide
<1>2. PICK success \in BOOLEAN :
        worker' = CASE worker.pc = "closeMedia" ->
                         [worker EXCEPT !.pc = "closeSignaling", !.ok = @ /\ success]
                    [] worker.pc = "closeSignaling" ->
                         [worker EXCEPT !.pc = "complete", !.ok = @ /\ success]
                    [] worker.pc = "reset" ->
                         IF GivesUp THEN [worker EXCEPT !.pc = "complete", !.ok = FALSE]
                         ELSE [worker EXCEPT !.pc = "retryWait"]
  BY DEF WorkerEndsClose
<1>3. worker \in Worker
  BY DEF OwnerSide
<1>4. CASE worker.pc = "closeMedia"
  <2>1. worker' = [worker EXCEPT !.pc = "closeSignaling", !.ok = @ /\ success]
    BY <1>2, <1>4
  <2> QED BY <1>3, <1>4, <2>1 DEF Worker, Places, EndedClose
<1>5. CASE worker.pc = "closeSignaling"
  <2>1. worker' = [worker EXCEPT !.pc = "complete", !.ok = @ /\ success]
    BY <1>2, <1>5
  <2> QED BY <1>3, <1>5, <2>1 DEF Worker, Places, EndedClose
<1>6. CASE worker.pc = "reset"
  <2>1. worker' = IF GivesUp THEN [worker EXCEPT !.pc = "complete", !.ok = FALSE]
                  ELSE [worker EXCEPT !.pc = "retryWait"]
    BY <1>2, <1>6
  <2> QED BY <1>3, <1>6, <2>1 DEF Worker, Places, EndedClose
<1> QED BY <1>1, <1>4, <1>5, <1>6 DEF WorkerCloses

(* Everything between the taking of an action and its result. *)
WorkerGoes ==
    \/ WaitIsCancelled \/ WaitElapses
    \/ WorkerOpensSignaling \/ SignalingOpens \/ SignalingDoesNotOpen
    \/ WorkerDiscovers \/ WorkerOpensMedia \/ MediaOpens
    \/ WorkerExchanges \/ WorkerClosesStream
    \/ \E c \in Channels : WorkerBeginsClose(c) \/ WorkerEndsClose(c)

(* The worker goes on with its action, *)
LEMMA WorkerGoesKeepsOwner ==
    ASSUME OwnerSide, MutexSide, WorkerGoes
    PROVE  OwnerSide'
<1>1. worker \in Worker
  BY DEF OwnerSide
<1> USE DEF Worker, Places, others
<1>2. CASE WaitIsCancelled
  BY <1>1, <1>2, WorkerGoesOn DEF WaitIsCancelled, Fails
<1>3. CASE WaitElapses
  <2>1. worker.attempt + 1 \in Nat /\ worker.pc \notin {"idle", "take"}
    BY <1>1, <1>3 DEF WaitElapses
  <2>2. worker' = [worker EXCEPT !.pc = "open", !.attempt = worker.attempt + 1]
    BY <1>1, <1>3 DEF WaitElapses
  <2>3. worker' \in Worker
    BY <1>1, <2>1, <2>2
  <2> QED BY <1>3, <2>1, <2>3, WorkerGoesOn DEF WaitElapses
<1>4. CASE WorkerOpensSignaling
  BY <1>1, <1>4, WorkerGoesOn DEF WorkerOpensSignaling
<1>5. CASE SignalingOpens
  BY <1>1, <1>5, WorkerGoesOn DEF SignalingOpens, Goes
<1>6. CASE SignalingDoesNotOpen
  BY <1>1, <1>6, WorkerGoesOn DEF SignalingDoesNotOpen
<1>7. CASE WorkerDiscovers
  BY <1>1, <1>7, WorkerGoesOn DEF WorkerDiscovers, Goes, Fails
<1>8. CASE WorkerOpensMedia
  BY <1>1, <1>8, WorkerGoesOn DEF WorkerOpensMedia, Goes, Fails
<1>9. CASE MediaOpens
  BY <1>1, <1>9, WorkerGoesOn DEF MediaOpens, Goes, Fails
<1>10. CASE WorkerExchanges
  BY <1>1, <1>10, WorkerGoesOn DEF WorkerExchanges
<1>11. CASE WorkerClosesStream
  BY <1>1, <1>11, WorkerGoesOn DEF WorkerClosesStream
<1>12. ASSUME NEW c \in Channels, WorkerBeginsClose(c)
       PROVE  OwnerSide'
  BY <1>1, <1>12, WorkerGoesOn DEF WorkerBeginsClose
<1>13. ASSUME NEW c \in Channels, WorkerEndsClose(c)
       PROVE  OwnerSide'
  <2>1. UNCHANGED <<owner, stopping>>
    BY <1>13 DEF WorkerEndsClose
  <2> QED BY <1>13, <2>1, WorkerEndsCloseGoesOn, WorkerGoesOn
<1> QED BY <1>2, <1>3, <1>4, <1>5, <1>6, <1>7, <1>8, <1>9, <1>10, <1>11, <1>12, <1>13
        DEF WorkerGoes

(* takes one, *)
LEMMA WorkerTakesKeepsOwner ==
    ASSUME OwnerSide, WorkerTakes
    PROVE  OwnerSide'
<1> DEFINE s == TakeAction(owner)
<1>1. /\ OwnerInv(s) /\ owner' = s /\ stopping' = stopping
      /\ stopping # "no" => s.StopRequested
  BY TakeActionKeeps, StopStaysRequested DEF OwnerSide, WorkerTakes, others
<1>2. worker' \in Worker /\ (s.ActiveAction = "None" => worker'.pc = "idle")
  <2>1. CASE s.ActiveAction = "None"
    BY <2>1 DEF WorkerTakes, IdleWorker, Worker, Places
  <2>2. CASE s.ActiveAction # "None"
    <3> DEFINE pc == FirstStep(s.ActiveAction)
    <3>1. s.ActiveAction \in Actions \ {"None"}
      BY <1>1, <2>2 DEF OwnerInv, DispatchOwner
    <3>2. pc \in Places
      BY <3>1 DEF FirstStep, Actions, Places
    <3>3. worker' = [IdleWorker EXCEPT !.pc = pc, !.ok = pc # "complete"]
      BY <2>2 DEF WorkerTakes
    <3> HIDE DEF pc
    <3>4. worker' = [pc |-> pc, ok |-> pc # "complete", attempt |-> 0, transient |-> FALSE]
      BY <3>3 DEF IdleWorker
    <3> QED BY <2>2, <3>2, <3>4 DEF Worker
  <2> QED BY <2>1, <2>2
<1>3. stopping \notin LastSteps
  BY DEF OwnerSide, WorkerTakes
<1> HIDE DEF s
<1> QED BY <1>1, <1>2, <1>3 DEF OwnerSide

(* and reports its result. *)
LEMMA WorkerCompletesKeepsOwner ==
    ASSUME OwnerSide, WorkerCompletes
    PROVE  OwnerSide'
<1> DEFINE s == CompleteAction(owner, worker.ok)
<1>1. owner.ActiveAction # "None" /\ worker.ok \in BOOLEAN /\ stopping \notin LastSteps
  BY DEF OwnerSide, WorkerCompletes, Worker
<1>2. OwnerInv(s) /\ (stopping # "no" => s.StopRequested)
  BY <1>1, CompleteActionKeeps, StopStaysRequested DEF OwnerSide
<1>3. owner' = s /\ stopping' = stopping /\ worker' = [IdleWorker EXCEPT !.pc = "take"]
  BY DEF WorkerCompletes, others
<1>4. worker' \in Worker /\ worker'.pc = "take"
  BY <1>3 DEF IdleWorker, Worker, Places
<1> HIDE DEF s
<1> QED BY <1>1, <1>2, <1>3, <1>4 DEF OwnerSide

(* The callbacks change the owner in one lock section each: a loss, *)
LEMMA HearsDisconnectKeepsOwner ==
    ASSUME OwnerSide, HearsDisconnect, UNCHANGED stopping
    PROVE  OwnerSide'
<1>1. CASE Listens
  <2>1. stopping = "no" /\ Owns(OnTransportLost(owner))
    BY <1>1 DEF OwnerSide, Listens, HearsDisconnect, LosesTransport
  <2> QED BY <2>1, OnTransportLostKeeps, OwnsKeeps DEF OwnerSide, LastSteps
<1>2. CASE ~Listens
  BY <1>2 DEF HearsDisconnect, OwnerSide
<1> QED BY <1>1, <1>2

(* the watchdog, *)
LEMMA WatchdogExpiresKeepsOwner ==
    ASSUME OwnerSide, WatchdogExpires
    PROVE  OwnerSide'
<1>1. UNCHANGED stopping
  BY DEF WatchdogExpires, others
<1>2. CASE Listens
  <2>1. stopping = "no" /\ Owns(OnTransportLost(owner))
    BY <1>2 DEF OwnerSide, Listens, WatchdogExpires, LosesTransport
  <2> QED BY <1>1, <2>1, OnTransportLostKeeps, OwnsKeeps DEF OwnerSide, LastSteps
<1>3. CASE ~Listens
  BY <1>1, <1>3 DEF WatchdogExpires, OwnerSide
<1> QED BY <1>2, <1>3

(* the intent of PortCls, *)
LEMMA SetsIntentKeepsOwner ==
    ASSUME OwnerSide, NEW intent \in Intents, SetsIntent(intent)
    PROVE  OwnerSide'
<1>1. stopping = "no" /\ Owns(SetKsIntent(owner, intent)) /\ UNCHANGED stopping
  BY DEF OwnerSide, Listens, SetsIntent
<1> QED BY <1>1, SetKsIntentKeeps, OwnsKeeps DEF OwnerSide, LastSteps

(* a recovery, *)
LEMMA RequestsRecoveryKeepsOwner ==
    ASSUME OwnerSide, RequestsRecovery
    PROVE  OwnerSide'
<1>1. stopping = "no" /\ Owns(Retry(owner)) /\ UNCHANGED stopping
  BY DEF OwnerSide, Listens, RequestsRecovery, AcceptsRecovery
<1> QED BY <1>1, RetryKeeps, OwnsKeeps DEF OwnerSide, LastSteps

(* and the stop, whose record outlasts it, *)
LEMMA StopBeginsKeepsOwner ==
    ASSUME OwnerSide, StopBegins
    PROVE  OwnerSide'
<1> DEFINE s == OnPnpStop(owner)
<1>1. Owns(s) /\ stopping' \notin LastSteps
  BY DEF StopBegins, LastSteps
<1>2. OwnerInv(s) /\ s.ActiveAction = owner.ActiveAction /\ s.StopRequested
  BY OnPnpStopKeeps, PnpStopRequestsStop DEF OwnerSide
<1> HIDE DEF s
<1> QED BY <1>1, <1>2, OwnsKeeps

(* also while it takes the channels away. *)
LEMMA StopEndsCloseKeepsOwner ==
    ASSUME OwnerSide, MutexSide, StopEndsClose
    PROVE  OwnerSide'
<1>1. UNCHANGED <<owner, worker>> /\ stopping # "no"
      /\ (stopping' \in LastSteps => stopping \in LastSteps)
  BY StopMovesOn
<1> QED BY <1>1 DEF OwnerSide

(***************************************************************************)
(* The channel owners.                                                     *)
(***************************************************************************)

(* One channel changes by an operator that leaves its PnP flag alone. *)
LEMMA ChannelChanges ==
    ASSUME ChannelSide, NEW c \in Channels, NEW d, ChannelInv(d),
           d.PnpStarted = channel[c].PnpStarted, channel' = [channel EXCEPT ![c] = d],
           stopping' \notin LastSteps => stopping \notin LastSteps
    PROVE  ChannelSide'
BY DEF ChannelSide, ChannelInv

(* No channel changes, and the stop does not fall back. *)
LEMMA ChannelRests ==
    ASSUME ChannelSide, UNCHANGED channel,
           stopping' \notin LastSteps => stopping \notin LastSteps
    PROVE  ChannelSide'
BY DEF ChannelSide

(* An open, a close that begins and a close that ends keep the channels consistent. *)
LEMMA OpensKeepsChannel ==
    ASSUME ChannelSide, NEW c \in Channels, Opens(c), UNCHANGED stopping
    PROVE  ChannelSide'
<1>1. ChannelInv(channel[c])
  BY DEF ChannelSide
<1> QED BY <1>1, RequestOpenKeeps, ChannelChanges DEF Opens

(* Only in its last steps does the stop take a channel offline. *)
LEMMA BeginsCloseKeepsChannel ==
    ASSUME ChannelSide, NEW c \in Channels, NEW by, NEW target_offline \in BOOLEAN,
           target_offline <=> stopping \in LastSteps, BeginsClose(c, by, target_offline),
           UNCHANGED stopping
    PROVE  ChannelSide'
<1> DEFINE d == RequestClose(channel[c], target_offline).owner
<1>1. ChannelInv(channel[c]) /\ (target_offline \/ channel[c].PnpStarted)
  BY DEF ChannelSide
<1>2. ChannelInv(d) /\ (target_offline \/ d.PnpStarted)
  BY <1>1, RequestCloseKeeps
<1>3. channel' = [channel EXCEPT ![c] = d]
  BY DEF BeginsClose
<1> HIDE DEF d
<1> QED BY <1>2, <1>3 DEF ChannelSide, ChannelInv

(* A close that ends leaves the channel where it was wanted. *)
LEMMA EndsCloseKeepsChannel ==
    ASSUME ChannelSide, NEW c \in Channels, NEW by, NEW success \in BOOLEAN,
           EndsClose(c, by, success),
           stopping' \notin LastSteps => stopping \notin LastSteps
    PROVE  ChannelSide'
<1>1. ChannelInv(channel[c])
  BY DEF ChannelSide
<1>2. CASE closing[c].step = "brb"
  <2>1. channel' = [channel EXCEPT ![c] = OnCloseComplete(channel[c], success)]
    BY <1>2 DEF EndsClose, ChannelSide
  <2> QED BY <1>1, <2>1, OnCloseCompleteKeeps, ChannelChanges
<1>3. CASE closing[c].step # "brb"
  BY <1>3, ChannelRests DEF EndsClose
<1> QED BY <1>2, <1>3

(* A worker that moves is not the one that the stop has found idle. *)
LEMMA WorkerPrecedesLastSteps ==
    ASSUME OwnerSide, MutexSide, WorkerStep
    PROVE  UNCHANGED stopping /\ stopping \notin LastSteps
<1> USE DEF others, OwnerSide
<1>1. CASE WorkerTakes
  BY <1>1 DEF WorkerTakes
<1>2. CASE WaitIsCancelled
  BY <1>2 DEF WaitIsCancelled
<1>3. CASE WaitElapses
  BY <1>3 DEF WaitElapses
<1>4. CASE WorkerOpensSignaling
  BY <1>4 DEF WorkerOpensSignaling
<1>5. CASE SignalingOpens
  BY <1>5 DEF SignalingOpens
<1>6. CASE SignalingDoesNotOpen
  BY <1>6 DEF SignalingDoesNotOpen
<1>7. CASE WorkerDiscovers
  BY <1>7 DEF WorkerDiscovers
<1>8. CASE WorkerOpensMedia
  BY <1>8 DEF WorkerOpensMedia
<1>9. CASE MediaOpens
  BY <1>9 DEF MediaOpens
<1>10. CASE WorkerExchanges
  BY <1>10 DEF WorkerExchanges
<1>11. CASE WorkerClosesStream
  BY <1>11 DEF WorkerClosesStream
<1>12. ASSUME NEW c \in Channels, WorkerBeginsClose(c)
       PROVE  UNCHANGED stopping /\ stopping \notin LastSteps
  BY <1>12 DEF WorkerBeginsClose
<1>13. ASSUME NEW c \in Channels, WorkerEndsClose(c)
       PROVE  UNCHANGED stopping /\ stopping \notin LastSteps
  BY <1>13, WorkerEndsCloseGoesOn DEF WorkerEndsClose
<1>14. CASE WorkerCompletes
  BY <1>14 DEF WorkerCompletes
<1> QED BY <1>1, <1>2, <1>3, <1>4, <1>5, <1>6, <1>7, <1>8, <1>9, <1>10, <1>11, <1>12, <1>13,
           <1>14 DEF WorkerStep

(* The worker opens and closes channels that are started. *)
LEMMA WorkerStepKeepsChannel ==
    ASSUME OwnerSide, ChannelSide, MutexSide, WorkerStep
    PROVE  ChannelSide'
<1> USE DEF others, links
<1>1. UNCHANGED stopping /\ stopping \notin LastSteps
  BY WorkerPrecedesLastSteps
<1>2. CASE WorkerOpensSignaling
  <2>1. "Signaling" \in Channels
    BY DEF Channels
  <2> QED BY <1>1, <1>2, <2>1, OpensKeepsChannel, ChannelRests DEF WorkerOpensSignaling
<1>3. CASE WorkerOpensMedia
  <2>1. "Media" \in Channels
    BY DEF Channels
  <2> QED BY <1>1, <1>3, <2>1, OpensKeepsChannel, ChannelRests DEF WorkerOpensMedia
<1>4. ASSUME NEW c \in Channels, WorkerBeginsClose(c)
      PROVE  ChannelSide'
  BY <1>1, <1>4, BeginsCloseKeepsChannel DEF WorkerBeginsClose
<1>5. ASSUME NEW c \in Channels, WorkerEndsClose(c)
      PROVE  ChannelSide'
  BY <1>1, <1>5, EndsCloseKeepsChannel DEF WorkerEndsClose
<1>6. CASE UNCHANGED channel
  BY <1>1, <1>6, ChannelRests
<1> QED BY <1>2, <1>3, <1>4, <1>5, <1>6
        DEF WorkerStep, WorkerTakes, WaitIsCancelled, WaitElapses, SignalingOpens,
            SignalingDoesNotOpen, WorkerDiscovers, MediaOpens, WorkerExchanges,
            WorkerClosesStream, WorkerCompletes

(* The open worker completes an open, and a loss it hears of with it. *)
LEMMA OpenCompletesKeepsChannel ==
    ASSUME ChannelSide, NEW c \in Channels, OpenCompletes(c)
    PROVE  ChannelSide'
<1> DEFINE request == opening[c]
           answer == OnOpenComplete(channel[c], request.generation, request.at = "opened")
           told == OnRemoteDisconnect(answer.owner, request.generation)
           lost == answer.action = "None" /\ request.at = "opened" /\ request.lost
           d == IF lost THEN told ELSE answer.owner
<1>1. ChannelInv(channel[c]) /\ (request.at = "opened") \in BOOLEAN
  BY DEF ChannelSide
<1>2. ChannelInv(answer.owner) /\ answer.owner.PnpStarted = channel[c].PnpStarted
  BY <1>1, OnOpenCompleteKeeps
<1> HIDE DEF answer
<1>3. ChannelInv(told) /\ told.PnpStarted = answer.owner.PnpStarted
  BY <1>2, OnRemoteDisconnectKeeps
<1>4. channel' = [channel EXCEPT ![c] = d] /\ UNCHANGED stopping
  BY DEF OpenCompletes, answer
<1> HIDE DEF told, lost
<1> QED BY <1>2, <1>3, <1>4, ChannelChanges

(* It closes what it acquired for nobody. *)
LEMMA OpenWorkerClosesKeepsChannel ==
    ASSUME ChannelSide, NEW c \in Channels, OpenWorkerCloses(c)
    PROVE  ChannelSide'
<1>1. ChannelInv(channel[c])
  BY DEF ChannelSide
<1>2. PICK success \in BOOLEAN :
        channel' = [channel EXCEPT ![c] = OnCloseComplete(channel[c], success)]
  BY DEF OpenWorkerCloses, ChannelSide
<1>3. UNCHANGED stopping
  BY DEF OpenWorkerCloses, others
<1> QED BY <1>1, <1>2, <1>3, OnCloseCompleteKeeps, ChannelChanges

(* The headset takes a channel away. *)
LEMMA HeadsetDisconnectsKeepsChannel ==
    ASSUME ChannelSide, NEW c \in Channels, HeadsetDisconnects(c)
    PROVE  ChannelSide'
<1> DEFINE told == OnRemoteDisconnect(channel[c], channel[c].Generation)
<1>1. ChannelInv(channel[c])
  BY DEF ChannelSide
<1>2. ChannelInv(told) /\ told.PnpStarted = channel[c].PnpStarted
  BY <1>1, OnRemoteDisconnectKeeps
<1>3. channel' = [channel EXCEPT ![c] = told] \/ channel' = [channel EXCEPT ![c] = channel[c]]
  BY DEF HeadsetDisconnects, ChannelSide
<1>4. UNCHANGED stopping
  BY DEF HeadsetDisconnects
<1> HIDE DEF told
<1> QED BY <1>1, <1>2, <1>3, <1>4, ChannelChanges

(* The stop closes the channels, then takes them offline. *)
LEMMA StopStepKeepsChannel ==
    ASSUME ChannelSide, MutexSide, StopStep
    PROVE  ChannelSide'
<1> USE DEF links, others
<1>1. CASE StopBegins
  BY <1>1, ChannelRests DEF StopBegins, LastSteps
<1>2. CASE StopBeginsClose
  <2> DEFINE target_offline == stopping \in {"stopSignaling", "stopMedia"}
  <2>1. StopTarget \in Channels /\ target_offline \in BOOLEAN
    BY DEF StopTarget, Channels
  <2>2. target_offline <=> stopping \in LastSteps
    BY <1>2 DEF StopBeginsClose, LastSteps
  <2> QED BY <1>2, <2>1, <2>2, BeginsCloseKeepsChannel DEF StopBeginsClose
<1>3. CASE StopEndsClose
  <2>1. StopTarget \in Channels
    BY DEF StopTarget, Channels
  <2>2. PICK success \in BOOLEAN : EndsClose(StopTarget, "stop", success)
    BY <1>3 DEF StopEndsClose
  <2> QED BY <1>3, <2>1, <2>2, StopMovesOn, EndsCloseKeepsChannel
<1>4. CASE StopFindsIdle
  BY <1>4, ChannelRests DEF StopFindsIdle, LastSteps
<1>5. CASE StopFinishes
  BY <1>5, ChannelRests DEF StopFinishes, LastSteps
<1> QED BY <1>1, <1>2, <1>3, <1>4, <1>5 DEF StopStep

(***************************************************************************)
(* The mutexes.                                                            *)
(***************************************************************************)

(* The worker and the stop only move from where they hold no mutex. *)
LEMMA MutexRests ==
    ASSUME MutexSide, UNCHANGED closing,
           worker' = worker \/ worker.pc \notin {"closeMedia", "closeSignaling", "reset"},
           \/ stopping' = stopping
           \/ stopping \notin {"closeSignaling", "closeMedia", "stopSignaling", "stopMedia"}
    PROVE  MutexSide'
BY DEF MutexSide, Holder, WorkerCloses, StopCloses

(* A close begins where nobody holds the mutex, *)
LEMMA BeginsCloseKeepsMutex ==
    ASSUME MutexSide, NEW c \in Channels, NEW by \in {"worker", "stop"},
           NEW target_offline \in BOOLEAN, BeginsClose(c, by, target_offline),
           by = "worker" => worker.pc \in WorkerCloses(c),
           by = "stop" => stopping \in StopCloses(c),
           UNCHANGED <<worker, stopping>>
    PROVE  MutexSide'
<1>1. PICK step \in {"drain", "brb"} :
        closing' = [closing EXCEPT ![c] = [by |-> by, step |-> step]]
  BY DEF BeginsClose
<1> QED BY <1>1 DEF MutexSide, Holder, WorkerCloses, StopCloses

(* and ends by giving it back. *)
LEMMA EndsCloseKeepsMutex ==
    ASSUME MutexSide, NEW c \in Channels, NEW by \in {"worker", "stop"}, NEW success \in BOOLEAN,
           EndsClose(c, by, success),
           worker' = worker \/ by = "worker", stopping' = stopping \/ by = "stop"
    PROVE  MutexSide'
<1>1. closing' = [closing EXCEPT ![c] = NotClosing] /\ closing[c].by = by
  BY DEF EndsClose
<1>2. ASSUME NEW e \in Channels, e # c
      PROVE  closing[e].by # by
  <2>1. WorkerCloses(c) \cap WorkerCloses(e) = {} /\ StopCloses(c) \cap StopCloses(e) = {}
    BY <1>2 DEF WorkerCloses, StopCloses, Channels
  <2> QED BY <1>1, <2>1 DEF MutexSide, Holder
<1>3. ASSUME NEW e \in Channels
      PROVE  /\ closing'[e] \in Holder
             /\ closing'[e].by = "worker" => worker'.pc \in WorkerCloses(e)
             /\ closing'[e].by = "stop" => stopping' \in StopCloses(e)
  <2>1. CASE e = c
    BY <1>1, <2>1 DEF MutexSide, Holder, NotClosing
  <2>2. CASE e # c
    <3>1. closing'[e] = closing[e]
      BY <1>1, <2>2 DEF MutexSide, Holder
    <3> QED BY <1>2, <2>2, <3>1 DEF MutexSide, Holder
  <2> QED BY <2>1, <2>2
<1>4. closing' \in [Channels -> Holder]
  BY <1>1 DEF MutexSide, Holder, NotClosing
<1> QED BY <1>3, <1>4 DEF MutexSide, Holder

(* The worker leaves a close only by ending it, *)
LEMMA WorkerStepKeepsMutex ==
    ASSUME OwnerSide, MutexSide, WorkerStep
    PROVE  MutexSide'
<1> USE DEF links, others
<1>1. UNCHANGED stopping
  BY WorkerPrecedesLastSteps
<1>2. CASE WorkerTakes
  BY <1>2, MutexRests DEF WorkerTakes
<1>3. CASE WaitIsCancelled
  BY <1>3, MutexRests DEF WaitIsCancelled
<1>4. CASE WaitElapses
  BY <1>4, MutexRests DEF WaitElapses
<1>5. CASE WorkerOpensSignaling
  BY <1>5, MutexRests DEF WorkerOpensSignaling
<1>6. CASE SignalingOpens
  BY <1>6, MutexRests DEF SignalingOpens
<1>7. CASE SignalingDoesNotOpen
  BY <1>7, MutexRests DEF SignalingDoesNotOpen
<1>8. CASE WorkerDiscovers
  BY <1>8, MutexRests DEF WorkerDiscovers
<1>9. CASE WorkerOpensMedia
  BY <1>9, MutexRests DEF WorkerOpensMedia
<1>10. CASE MediaOpens
  BY <1>10, MutexRests DEF MediaOpens
<1>11. CASE WorkerExchanges
  BY <1>11, MutexRests DEF WorkerExchanges
<1>12. CASE WorkerClosesStream
  BY <1>12, MutexRests DEF WorkerClosesStream
<1>13. ASSUME NEW c \in Channels, WorkerBeginsClose(c)
       PROVE  MutexSide'
  BY <1>1, <1>13, BeginsCloseKeepsMutex DEF WorkerBeginsClose, WorkerCloses
<1>14. ASSUME NEW c \in Channels, WorkerEndsClose(c)
       PROVE  MutexSide'
  BY <1>1, <1>14, EndsCloseKeepsMutex DEF WorkerEndsClose
<1>15. CASE WorkerCompletes
  BY <1>15, MutexRests DEF WorkerCompletes
<1> QED BY <1>2, <1>3, <1>4, <1>5, <1>6, <1>7, <1>8, <1>9, <1>10, <1>11, <1>12, <1>13, <1>14,
           <1>15 DEF WorkerStep

(* and so does the stop. *)
LEMMA StopStepKeepsMutex ==
    ASSUME OwnerSide, MutexSide, StopStep
    PROVE  MutexSide'
<1> USE DEF links, others
<1>1. StopTarget \in Channels
  BY DEF StopTarget, Channels
<1>2. CASE StopBegins
  <2>1. worker.pc \notin {"idle", "take"} => worker' = worker
    BY <1>2, WorkerStays DEF StopBegins
  <2> QED BY <1>2, <2>1, MutexRests DEF StopBegins
<1>3. CASE StopBeginsClose
  <2> DEFINE target_offline == stopping \in {"stopSignaling", "stopMedia"}
  <2>1. stopping \in StopCloses(StopTarget) /\ target_offline \in BOOLEAN
    BY <1>3 DEF StopBeginsClose, StopCloses, StopTarget
  <2>2. BeginsClose(StopTarget, "stop", target_offline) /\ UNCHANGED <<worker, stopping>>
    BY <1>3 DEF StopBeginsClose
  <2> QED BY <1>1, <2>1, <2>2, BeginsCloseKeepsMutex
<1>4. CASE StopEndsClose
  <2>1. UNCHANGED worker
    BY <1>4 DEF StopEndsClose
  <2> QED BY <1>1, <1>4, <2>1, EndsCloseKeepsMutex DEF StopEndsClose
<1>5. CASE StopFindsIdle
  BY <1>5, MutexRests DEF StopFindsIdle
<1>6. CASE StopFinishes
  BY <1>6, MutexRests DEF StopFinishes
<1> QED BY <1>2, <1>3, <1>4, <1>5, <1>6 DEF StopStep

(* A callback may wake the worker. *)
LEMMA CallbackKeepsMutex ==
    ASSUME OwnerSide, MutexSide, UNCHANGED <<closing, stopping>>,
           worker' = worker \/ \E s \in DispatchOwner : Owns(s)
    PROVE  MutexSide'
<1>1. worker.pc \notin {"idle", "take"} => worker' = worker
  BY WorkerStays
<1> QED BY <1>1, MutexRests

(***************************************************************************)
(* The invariant.                                                          *)
(***************************************************************************)

(* Every step keeps the owner and the worker apart from the stop, *)
LEMMA OwnerSideHolds ==
    ASSUME IInv, [Next]_vars
    PROVE  OwnerSide'
<1> USE DEF IInv, links, others
<1>1. CASE WorkerStep
  <2>1. WorkerTakes \/ WorkerGoes \/ WorkerCompletes
    BY <1>1 DEF WorkerStep, WorkerGoes
  <2> QED BY <2>1, WorkerTakesKeepsOwner, WorkerGoesKeepsOwner, WorkerCompletesKeepsOwner
<1>2. CASE StopStep
  <2>1. CASE StopBegins
    BY <2>1, StopBeginsKeepsOwner
  <2>2. CASE StopBeginsClose
    BY <2>2 DEF StopBeginsClose, OwnerSide
  <2>3. CASE StopEndsClose
    BY <2>3, StopEndsCloseKeepsOwner
  <2>4. CASE StopFindsIdle
    <3>1. owner.StopRequested
      BY <2>4 DEF StopFindsIdle, OwnerSide
    <3> QED BY <2>4, <3>1 DEF StopFindsIdle, OwnerSide, LastSteps
  <2>5. CASE StopFinishes
    BY <2>5 DEF StopFinishes, OwnerSide, LastSteps
  <2> QED BY <1>2, <2>1, <2>2, <2>3, <2>4, <2>5 DEF StopStep
<1>3. ASSUME NEW c \in Channels, OpenWorkerReports(c)
      PROVE  OwnerSide'
  BY <1>3, HearsDisconnectKeepsOwner DEF OpenWorkerReports
<1>4. CASE LossIsReported
  BY <1>4, HearsDisconnectKeepsOwner DEF LossIsReported
<1>5. CASE WatchdogExpires
  BY <1>5, WatchdogExpiresKeepsOwner
<1>6. ASSUME NEW intent \in Intents, SetsIntent(intent)
      PROVE  OwnerSide'
  BY <1>6, SetsIntentKeepsOwner
<1>7. CASE RequestsRecovery
  BY <1>7, RequestsRecoveryKeepsOwner
<1>8. CASE UNCHANGED <<owner, worker, stopping>>
  BY <1>8 DEF OwnerSide
<1> QED BY <1>1, <1>2, <1>3, <1>4, <1>5, <1>6, <1>7, <1>8
        DEF Next, OpenIsAnswered, OpenCompletes, OpenWorkerCloses, HeadsetDisconnects,
            ValidatesPacket, WritesPacket, Finished, vars

(* the channels consistent, *)
LEMMA ChannelSideHolds ==
    ASSUME IInv, [Next]_vars
    PROVE  ChannelSide'
<1> USE DEF IInv
<1>1. CASE WorkerStep
  BY <1>1, WorkerStepKeepsChannel
<1>2. CASE StopStep
  BY <1>2, StopStepKeepsChannel
<1>3. ASSUME NEW c \in Channels, OpenCompletes(c) \/ OpenWorkerCloses(c) \/ HeadsetDisconnects(c)
      PROVE  ChannelSide'
  BY <1>3, OpenCompletesKeepsChannel, OpenWorkerClosesKeepsChannel,
     HeadsetDisconnectsKeepsChannel
<1>4. CASE UNCHANGED <<channel, stopping>>
  BY <1>4, ChannelRests
<1> QED BY <1>1, <1>2, <1>3, <1>4
        DEF Next, OpenIsAnswered, OpenWorkerReports, LossIsReported, WatchdogExpires,
            SetsIntent, RequestsRecovery, ValidatesPacket, WritesPacket, Finished, vars,
            links, others

(* and the mutexes with those who wait. *)
LEMMA MutexSideHolds ==
    ASSUME IInv, [Next]_vars
    PROVE  MutexSide'
<1> USE DEF IInv, links, others
<1> DEFINE calls == worker' = worker \/ \E s \in DispatchOwner : Owns(s)
<1>1. CASE WorkerStep
  BY <1>1, WorkerStepKeepsMutex
<1>2. CASE StopStep
  BY <1>2, StopStepKeepsMutex
<1>3. OnTransportLost(owner) \in DispatchOwner /\ Retry(owner) \in DispatchOwner
  BY OnTransportLostKeeps, RetryKeeps DEF OwnerSide, OwnerInv
<1>4. ASSUME NEW reason, LosesTransport(reason) PROVE calls
  BY <1>3, <1>4 DEF LosesTransport
<1>5. HearsDisconnect => calls
  BY <1>4 DEF HearsDisconnect
<1>6. ASSUME NEW c \in Channels, OpenWorkerReports(c)
      PROVE  MutexSide'
  BY <1>5, <1>6, CallbackKeepsMutex DEF OpenWorkerReports
<1>7. CASE LossIsReported
  BY <1>5, <1>7, CallbackKeepsMutex DEF LossIsReported
<1>8. CASE WatchdogExpires
  BY <1>4, <1>8, CallbackKeepsMutex DEF WatchdogExpires
<1>9. ASSUME NEW intent \in Intents, SetsIntent(intent)
      PROVE  MutexSide'
  <2>1. SetKsIntent(owner, intent) \in DispatchOwner
    BY SetKsIntentKeeps DEF OwnerSide, OwnerInv
  <2> QED BY <1>9, <2>1, CallbackKeepsMutex DEF SetsIntent
<1>10. CASE RequestsRecovery
  BY <1>3, <1>10, CallbackKeepsMutex DEF RequestsRecovery
<1>11. CASE UNCHANGED <<closing, worker, stopping>>
  BY <1>11, MutexRests
<1> QED BY <1>1, <1>2, <1>6, <1>7, <1>8, <1>9, <1>10, <1>11
        DEF Next, OpenIsAnswered, OpenCompletes, OpenWorkerCloses, HeadsetDisconnects,
            ValidatesPacket, WritesPacket, Finished, vars

(* What the driver's own tests assert of each owner by itself holds of all three at  *)
(* once after every lock section, whatever order the worker, the stack's callbacks,  *)
(* PortCls and the PnP stop take them in.                                            *)
THEOREM ConsistentOwners == Spec => []Consistent
<1>1. IInv /\ [Next]_vars => IInv'
  BY OwnerSideHolds, ChannelSideHolds, MutexSideHolds DEF IInv
<1>2. IInv => Consistent
  BY DEF IInv, OwnerSide, ChannelSide, OwnerInv, ChannelInv, Consistent
<1> QED BY InitHolds, <1>1, <1>2, PTL DEF Spec

(***************************************************************************)
(* What the dispatch owner plans.                                          *)
(***************************************************************************)

(* Where each planned action starts from. *)
StartsFrom == [Open |-> "Closed", Start |-> "Open", Suspend |-> "Streaming", Close |-> "Open"]

(* What is pending beside an active action is that action or its cancel. *)
PendingFits(s) ==
    /\ s.ActiveAction # "None" => s.PendingAction \in {s.ActiveAction, "CancelAndClose"}
    /\ s.PendingAction \in {"Open", "Start", "Suspend", "Close"} =>
          s.TransportState = StartsFrom[s.PendingAction]

(* An owner with nothing pending has nothing to plan. *)
Planned(s) ==
    /\ PendingFits(s)
    /\ s.PendingAction = "None" /\ s.PnpStarted /\ s.TransportState # "Faulted" =>
          NextAction(s) = "None"

(* What planning moves: at most the pending action, and that only from none. *)
LEMMA PlanAndOwnPlans ==
    ASSUME NEW s, OwnerInv(s), PendingFits(s)
    PROVE  LET t == PlanAndOwn(s)
           IN  /\ Planned(t)
               /\ t.TransportState = s.TransportState /\ t.KsIntent = s.KsIntent
               /\ t.RecoveryRequired = s.RecoveryRequired /\ t.Generation = s.Generation
               /\ s.WorkerOwned => t.WorkerOwned
               /\ s.PendingAction # "None" => t.PendingAction = s.PendingAction
               /\ s.TransportState = "Closed" /\ s.KsIntent = "Stopped" =>
                     t.PendingAction = s.PendingAction
BY DEF OwnerInv, PendingFits, Planned, PlanAndOwn, OwnWorker, Plan, NextAction, StartsFrom,
       OwnerIsConsistent, DispatchOwner, Actions, Intents

(* A loss ends in a cancel or a fault, and nothing else is planned beside it. *)
LEMMA OnTransportLostPlans ==
    ASSUME NEW s, OwnerInv(s), Planned(s), ~s.StopRequested
    PROVE  LET t == OnTransportLost(s)
           IN  /\ Planned(t)
               /\ t.TransportState \in {"Faulted", "Offline"} \/ t.PendingAction = "CancelAndClose"
               /\ s.WorkerOwned => t.WorkerOwned
<1> DEFINE t == OnTransportLost(s)
           lost == [s EXCEPT !.RecoveryRequired = TRUE, !.Generation = s.Generation + 1]
           cancelled == [lost EXCEPT !.PendingAction = "CancelAndClose"]
           idle == ~s.PnpStarted \/ s.TransportState = "Offline"
           nothing == s.TransportState \in {"Closed", "Faulted"} /\ s.PendingAction = "None"
<1> USE DEF Planned, PendingFits
<1>1. s.StopRequested = FALSE /\ s.PnpStarted \in BOOLEAN /\ s.RecoveryRequired \in BOOLEAN
  BY DEF OwnerInv, DispatchOwner
<1>2. CASE idle
  BY <1>1, <1>2 DEF OnTransportLost, OwnerInv, OwnerIsConsistent
<1>3. CASE ~idle /\ s.RecoveryRequired
  <2>1. t = IF s.ActiveAction # "None" THEN s ELSE OwnWorker(s, s.PendingAction)
    BY <1>1, <1>3 DEF OnTransportLost
  <2>2. s.TransportState = "Faulted" \/ s.PendingAction = "CancelAndClose"
    BY <1>3 DEF OwnerInv, OwnerIsConsistent
  <2> QED BY <2>1, <2>2 DEF OwnWorker, NextAction, OwnerInv, DispatchOwner
<1>4. CASE ~idle /\ ~s.RecoveryRequired /\ nothing
  <2>1. t = [lost EXCEPT !.TransportState = "Faulted"]
    BY <1>1, <1>4 DEF OnTransportLost
  <2> QED BY <1>4, <2>1 DEF OwnerInv, OwnerIsConsistent, DispatchOwner, StartsFrom
<1>5. CASE ~idle /\ ~s.RecoveryRequired /\ ~nothing
  <2>1. t = IF s.ActiveAction # "None" THEN cancelled
            ELSE OwnWorker(cancelled, "CancelAndClose")
    BY <1>1, <1>5 DEF OnTransportLost
  <2> QED BY <2>1 DEF OwnWorker, OwnerInv, DispatchOwner
<1> QED BY <1>1, <1>2, <1>3, <1>4, <1>5

(* The stop leaves a session that is offline or about to be cancelled. *)
LEMMA OnPnpStopPlans ==
    ASSUME NEW s, OwnerInv(s), Planned(s)
    PROVE  LET t == OnPnpStop(s)
           IN  /\ Planned(t)
               /\ t.TransportState = "Offline" \/ t.PendingAction = "CancelAndClose"
               /\ t.TransportState \in {s.TransportState, "Offline"} /\ ~t.RecoveryRequired
               /\ s.WorkerOwned => t.WorkerOwned
<1> DEFINE t == OnPnpStop(s)
           stopped == [s EXCEPT !.PnpStarted = FALSE, !.KsIntent = "Stopped",
                                !.RecoveryRequired = FALSE, !.StopRequested = TRUE]
           cancelled == [stopped EXCEPT !.PendingAction = "CancelAndClose"]
<1> USE DEF Planned, PendingFits, OwnerInv, DispatchOwner
<1>1. CASE s.TransportState = "Offline"
  <2>1. t = [stopped EXCEPT !.PendingAction = "None"]
    BY <1>1 DEF OnPnpStop
  <2> QED BY <1>1, <2>1
<1>2. CASE s.TransportState = "Closed" /\ s.PendingAction = "None"
  <2>1. t = [stopped EXCEPT !.TransportState = "Offline"]
    BY <1>2 DEF OnPnpStop
  <2> QED BY <1>2, <2>1
<1>3. CASE s.TransportState # "Offline"
           /\ ~(s.TransportState = "Closed" /\ s.PendingAction = "None")
  <2>1. t = IF s.ActiveAction # "None" THEN cancelled
            ELSE OwnWorker(cancelled, "CancelAndClose")
    BY <1>3 DEF OnPnpStop
  <2> QED BY <2>1 DEF OwnWorker
<1> QED BY <1>1, <1>2, <1>3

(* A new intent plans at most where nothing was pending. *)
LEMMA SetKsIntentPlans ==
    ASSUME NEW s, OwnerInv(s), Planned(s), ~s.StopRequested, NEW intent \in Intents
    PROVE  LET t == SetKsIntent(s, intent)
           IN  /\ Planned(t)
               /\ t.TransportState = s.TransportState /\ t.KsIntent = intent
               /\ t.RecoveryRequired = s.RecoveryRequired /\ t.Generation = s.Generation
               /\ s.WorkerOwned => t.WorkerOwned
               /\ s.PendingAction # "None" => t.PendingAction = s.PendingAction
<1> DEFINE t == [s EXCEPT !.KsIntent = intent]
<1>1. OwnerInv(t) /\ PendingFits(t)
  BY DEF OwnerInv, OwnerIsConsistent, DispatchOwner, Planned, PendingFits
<1>2. /\ t.TransportState = s.TransportState /\ t.KsIntent = intent
      /\ t.RecoveryRequired = s.RecoveryRequired /\ t.Generation = s.Generation
      /\ t.WorkerOwned = s.WorkerOwned /\ t.PendingAction = s.PendingAction
  BY DEF OwnerInv, DispatchOwner
<1>3. SetKsIntent(s, intent) = PlanAndOwn(t)
  BY DEF SetKsIntent
<1> HIDE DEF t
<1> QED BY <1>1, <1>2, <1>3, PlanAndOwnPlans

(* A retry that the driver accepts starts over with nothing to do. *)
LEMMA RetryPlans ==
    ASSUME NEW s, OwnerInv(s), Planned(s), ~s.StopRequested, s.TransportState = "Faulted",
           s.KsIntent = "Stopped", ~s.WorkerOwned, s.ActiveAction = "None",
           s.PendingAction = "None"
    PROVE  LET t == Retry(s)
           IN  /\ Planned(t)
               /\ t.TransportState = "Closed" /\ t.PendingAction = "None" /\ ~t.RecoveryRequired
<1> DEFINE t == [s EXCEPT !.TransportState = "Closed", !.RecoveryRequired = FALSE,
                          !.Generation = s.Generation + 1]
<1>1. s.PnpStarted
  BY DEF OwnerInv, OwnerIsConsistent
<1>2. s.Generation + 1 \in Nat /\ s.Generation + 1 # 0
  BY DEF OwnerInv, DispatchOwner
<1>3. OwnerInv(t) /\ PendingFits(t)
  BY <1>1, <1>2 DEF OwnerInv, OwnerIsConsistent, DispatchOwner, Actions, Planned, PendingFits
<1>4. /\ t.TransportState = "Closed" /\ t.KsIntent = "Stopped" /\ ~t.RecoveryRequired
      /\ t.PendingAction = "None"
  BY DEF OwnerInv, DispatchOwner
<1>5. Retry(s) = PlanAndOwn(t)
  BY <1>1 DEF Retry
<1> HIDE DEF t
<1> QED BY <1>3, <1>4, <1>5, PlanAndOwnPlans

(* The action taken is the pending one, and stays pending until its result. *)
LEMMA TakeActionPlans ==
    ASSUME NEW s, OwnerInv(s), Planned(s), s.WorkerOwned, s.ActiveAction = "None"
    PROVE  LET t == TakeAction(s)
           IN  /\ Planned(t)
               /\ t.TransportState = s.TransportState /\ t.KsIntent = s.KsIntent
               /\ t.RecoveryRequired = s.RecoveryRequired /\ t.Generation = s.Generation
               /\ t.PendingAction = s.PendingAction /\ t.ActiveAction = s.PendingAction
               /\ t.WorkerOwned <=> t.ActiveAction # "None"
BY DEF OwnerInv, Planned, PendingFits, TakeAction, NextAction, DispatchOwner

(* What a result brings: a session that is open only from an action that succeeded and *)
(* that nothing has cancelled, a fault only from one that failed or was to find a loss. *)
Completed(s, succeeded, t) ==
    /\ Planned(t) /\ t.ActiveAction = "None" /\ t.WorkerOwned
    /\ t.TransportState = "Faulted" =>
          s.TransportState = "Faulted" \/ s.RecoveryRequired \/ ~succeeded
    /\ t.RecoveryRequired = s.RecoveryRequired
    /\ t.TransportState \in {"Open", "Streaming"} /\ t.PendingAction # "CancelAndClose" =>
          /\ succeeded /\ s.PendingAction = s.ActiveAction
          /\ s.ActiveAction \in {"Open", "Start", "Suspend"}
          /\ t.TransportState = "Streaming" => s.ActiveAction = "Start"

(* NldDirectPdoDispatchCompleteAction brings what Completed says. *)
LEMMA CompleteActionPlans ==
    ASSUME NEW s, OwnerInv(s), Planned(s), s.ActiveAction # "None", NEW succeeded \in BOOLEAN
    PROVE  Completed(s, succeeded, CompleteAction(s, succeeded))
<1> DEFINE idle == [s EXCEPT !.ActiveAction = "None", !.ActiveGeneration = 0]
           done == [idle EXCEPT !.PendingAction = "None"]
           action == s.ActiveAction
           t == CompleteAction(s, succeeded)
           reached(state) == [done EXCEPT !.TransportState = state]
<1>1. /\ action \in {"Open", "Start", "Suspend", "Close", "CancelAndClose"}
      /\ s.WorkerOwned /\ s.PendingAction \in {action, "CancelAndClose"}
  BY DEF OwnerInv, OwnerIsConsistent, DispatchOwner, Actions, Planned, PendingFits
<1>2. OwnerInv(idle)
  BY DEF OwnerInv, OwnerIsConsistent, DispatchOwner, Actions
<1>3. CASE action # s.PendingAction
  <2>1. t = idle
    BY <1>3 DEF CompleteAction, SessionCompletes, OwnerInv, DispatchOwner
  <2>2. s.PendingAction = "CancelAndClose"
    BY <1>1, <1>3
  <2> QED BY <1>1, <2>1, <2>2 DEF Completed, Planned, PendingFits, OwnerInv, DispatchOwner
<1>4. CASE action = s.PendingAction
  <2>1. t = SessionCompletes(idle, action, succeeded) /\ action = idle.PendingAction
    BY <1>4 DEF CompleteAction, OwnerInv, DispatchOwner
  <2>2. idle.RecoveryRequired = s.RecoveryRequired /\ idle.PnpStarted = s.PnpStarted
    BY DEF OwnerInv, DispatchOwner
  <2>3. ASSUME NEW state \in {"Faulted", "Offline"}, t = reached(state),
               state = "Faulted" => s.RecoveryRequired \/ ~succeeded,
               state = "Offline" => ~s.PnpStarted
        PROVE  Completed(s, succeeded, t)
    BY <1>1, <2>3 DEF Completed, Planned, PendingFits, OwnerInv, DispatchOwner
  <2>4. CASE action = "CancelAndClose" /\ s.RecoveryRequired
    BY <2>1, <2>2, <2>3, <2>4 DEF SessionCompletes
  <2>5. CASE ~(action = "CancelAndClose" /\ s.RecoveryRequired) /\ ~succeeded
    <3>1. t = reached(IF action = "CancelAndClose" /\ ~s.PnpStarted THEN "Offline" ELSE "Faulted")
      BY <2>1, <2>2, <2>5 DEF SessionCompletes
    <3>2. CASE action = "CancelAndClose" /\ ~s.PnpStarted
      BY <2>3, <3>1, <3>2
    <3>3. CASE ~(action = "CancelAndClose" /\ ~s.PnpStarted)
      BY <2>3, <2>5, <3>1, <3>3
    <3> QED BY <3>2, <3>3
  <2>6. CASE ~(action = "CancelAndClose" /\ s.RecoveryRequired) /\ succeeded
    <3> DEFINE state == Reached(idle, action)
               r == reached(state)
    <3>1. t = Plan(r)
      BY <2>1, <2>2, <2>6 DEF SessionCompletes
    <3>2. /\ state \in {"Open", "Streaming", "Closed", "Offline"}
          /\ state \in {"Open", "Streaming"} => action \in {"Open", "Start", "Suspend"}
          /\ state = "Streaming" => action = "Start"
          /\ state = "Offline" <=> action = "CancelAndClose" /\ ~s.PnpStarted
      BY <1>1, <2>2 DEF Reached
    <3> HIDE DEF state
    <3>3. ~s.RecoveryRequired /\ (~s.PnpStarted <=> state = "Offline")
      BY <1>1, <1>4, <2>6, <3>2 DEF OwnerInv, OwnerIsConsistent
    <3>4. /\ r.TransportState = state /\ r.PendingAction = "None" /\ r.ActiveAction = "None"
          /\ r.WorkerOwned /\ r.RecoveryRequired = s.RecoveryRequired
      BY <1>1 DEF OwnerInv, DispatchOwner
    <3>5. OwnerInv(r) /\ PendingFits(r)
      BY <1>1, <3>2, <3>3 DEF OwnerInv, OwnerIsConsistent, DispatchOwner, Actions, PendingFits
    <3>6. PlanAndOwn(r) = Plan(r)
      BY <3>4, <3>5 DEF PlanAndOwn, OwnWorker, Plan, OwnerInv, DispatchOwner
    <3>7. PlanAndOwn(r).ActiveAction = "None"
      BY <3>4, <3>5, PlanAndOwnKeeps
    <3> HIDE DEF r
    <3>8. /\ Planned(t) /\ t.TransportState = state /\ t.WorkerOwned /\ t.ActiveAction = "None"
          /\ t.RecoveryRequired = s.RecoveryRequired
      BY <3>1, <3>4, <3>5, <3>6, <3>7, PlanAndOwnPlans
    <3> QED BY <1>4, <2>6, <3>2, <3>3, <3>8 DEF Completed
  <2> QED BY <2>4, <2>5, <2>6
<1> QED BY <1>3, <1>4

(***************************************************************************)
(* The session: what ties the dispatch owner to the worker, the channels,  *)
(* the stop and the packets.                                               *)
(***************************************************************************)

Device ==
    [started : BOOLEAN, render : BOOLEAN, avdtp : BOOLEAN, retryEvent : BOOLEAN,
     watchdog : Nat, failure : {"None", "RemoteDisconnect", "MediaTimeout", "Backend"}]

Packet == [generation : Nat, lost : BOOLEAN]

Used == [intents : 0 .. MaxIntents, disconnects : 0 .. MaxDisconnects,
         recoveries : 0 .. MaxRecoveries, packets : 0 .. MaxPackets]

FieldSide ==
    /\ device \in Device
    /\ stopping \in {"no", "closeSignaling", "closeMedia", "waitIdle", "stopped"} \cup LastSteps
    /\ opening \in [Channels -> OpenRequest]
    /\ air \in [Channels -> BOOLEAN]
    /\ packet \in Packet
    /\ used \in Used
    /\ notices \in Nat /\ notices <= used.disconnects

OpenSteps ==
    {"settle", "open", "openWait", "reset", "retryWait", "discover", "openMedia", "mediaWait"}

(* Each step belongs to an action, and an action that needs the channels has claimed them. *)
(* An open that closes what it had opened has failed.                                      *)
WorkerSide ==
    /\ owner.WorkerOwned <=> worker.pc # "idle"
    /\ worker.pc \in {"idle", "take"} => owner.ActiveAction = "None"
    /\ worker.pc \in OpenSteps => owner.ActiveAction = "Open"
    /\ worker.pc = "exchange" => owner.ActiveAction \in {"Start", "Suspend"}
    /\ worker.pc = "graceful" => owner.ActiveAction = "Close"
    /\ worker.pc \in {"closeMedia", "closeSignaling"} =>
          \/ owner.ActiveAction \in {"Close", "CancelAndClose"}
          \/ owner.ActiveAction = "Open" /\ ~worker.ok
    /\ worker.attempt <= MaxOpenAttempts
    /\ worker.pc \in {"settle", "retryWait"} => worker.attempt < MaxOpenAttempts
    /\ owner.ActiveAction \in {"Open", "Start", "Suspend"} => device.render

Unanswered == {"sent", "cancelled", "opened", "failed"}

(* What an open request, a close under way and the lower driver's channel say of the *)
(* channel's owner.                                                                  *)
Linked(c) ==
    /\ opening[c].at \in Unanswered <=> channel[c].State = "Opening"
    /\ channel[c].State = "Opening" => opening[c].generation = channel[c].Generation
    /\ channel[c].State = "Closing" <=> opening[c].at = "closing" \/ closing[c].step = "brb"
    /\ closing[c].step = "brb" => Drained(c)
    /\ MutexFree(c) => closing[c].step = "none"
    /\ opening[c].at = "reporting" =>
          \/ channel[c].State = "Faulted"
          \/ channel[c].State \in {"Closed", "Offline"} /\ ~MutexFree(c)
    /\ opening[c].at \in {"sent", "cancelled"} => ~opening[c].lost
    /\ opening[c].lost => ~air[c]
    /\ air[c] => channel[c].ChannelHeld \/ opening[c].at \in {"opened", "closing"}
    /\ ~channel[c].PnpStarted => channel[c].State \in {"Offline", "Opening", "Closing"}

LinkSide == \A c \in Channels : Linked(c)

Gone(c) == channel[c].State = "Offline" /\ Drained(c)

(* The stop takes one channel offline after the other. *)
StopSide ==
    /\ device.started <=> stopping # "stopped"
    /\ \A c \in Channels :
          closing[c].by = "stop" /\ stopping \in {"stopSignaling", "stopMedia"} =>
              ~channel[c].PnpStarted
    /\ stopping \in {"stopMedia", "finish", "stopped"} => Gone("Signaling")
    /\ stopping \in {"finish", "stopped"} => Gone("Media")

(* A channel that is lost moves its generation past the packets validated on it. *)
PacketSide ==
    /\ packet.generation <= channel["Media"].Generation
    /\ packet.lost => packet.generation < channel["Media"].Generation

FaultSide ==
    owner.TransportState = "Faulted" \/ owner.RecoveryRequired => device.failure # "None"

(* No loss is on its way to the dispatcher. *)
Quiet == notices = 0 /\ \A c \in Channels : opening[c].at # "reporting"

(* A session that is open and not to be closed has its channels; one that is being *)
(* opened has those that the worker has opened so far.                             *)
BackedSide ==
    /\ (/\ owner.TransportState \in {"Open", "Streaming"}
        /\ owner.PendingAction \notin {"Close", "CancelAndClose"} /\ Quiet)
       => device.render /\ \A c \in Channels : IsOpen(c)
    /\ owner.PendingAction = "Open" /\ Quiet =>
          /\ worker.pc \in {"discover", "openMedia", "mediaWait"} => IsOpen("Signaling")
          /\ worker.pc = "complete" /\ worker.ok => \A c \in Channels : IsOpen(c)

SInv ==
    /\ IInv
    /\ FieldSide
    /\ Planned(owner)
    /\ WorkerSide
    /\ LinkSide
    /\ StopSide
    /\ PacketSide
    /\ FaultSide
    /\ StreamingIsWatched
    /\ BackedSide

(* The session starts closed, with no worker, no channel and no packet. *)
LEMMA SessionInit == Init => SInv
<1> SUFFICES ASSUME Init PROVE SInv
  OBVIOUS
<1>1. /\ owner.KsIntent = "Stopped" /\ owner.TransportState = "Closed"
      /\ owner.PendingAction = "None" /\ ~owner.RecoveryRequired /\ ~owner.WorkerOwned
      /\ owner.ActiveAction = "None" /\ ~owner.StopRequested
  BY DEF Init, OnPnpStart, InitialOwner, PlanAndOwn, OwnWorker, Plan, NextAction
<1>2. /\ worker.pc = "idle" /\ worker.attempt = 0
      /\ stopping = "no" /\ notices = 0 /\ packet = NoPacket
  BY DEF Init, IdleWorker
<1>3. device \in Device /\ device.started
  BY DEF Init, Device
<1>4. ASSUME NEW c \in Channels
      PROVE  /\ channel[c].State = "Closed" /\ channel[c].PnpStarted
             /\ channel[c].Generation \in Nat
             /\ opening[c].at = "none" /\ opening[c].lost = FALSE /\ air[c] = FALSE
             /\ closing[c].by = "nobody" /\ closing[c].step = "none"
  <2> DEFINE d == ChannelStarted(InitialChannel)
  <2>1. d.State = "Closed" /\ d.PnpStarted /\ d.Generation = 0 + 1
    BY DEF ChannelStarted, InitialChannel, ResetRequestFlags
  <2>2. channel = [e \in Channels |-> d]
    BY DEF Init
  <2> HIDE DEF d
  <2> QED BY <2>1, <2>2 DEF Init, NoRequest, NotClosing
<1>5. IInv
  BY InitHolds
<1>6. FieldSide
  BY <1>2, <1>3, DirectPdoConstants DEF Init, FieldSide, OpenRequest, NoRequest, Packet, NoPacket, Used
<1>7. Planned(owner)
  BY <1>1 DEF Planned, PendingFits, NextAction
<1>8. WorkerSide
  BY <1>1, <1>2, DirectPdoConstants DEF WorkerSide, OpenSteps
<1>9. LinkSide
  BY <1>4 DEF LinkSide, Linked, Unanswered, Drained, MutexFree
<1>10. StopSide
  BY <1>2, <1>3 DEF StopSide
<1>11. PacketSide
  <2>1. channel["Media"].Generation \in Nat
    BY <1>4 DEF Channels
  <2>2. packet.generation = 0 /\ ~packet.lost
    BY <1>2 DEF NoPacket
  <2> QED BY <2>1, <2>2 DEF PacketSide
<1>12. FaultSide /\ StreamingIsWatched /\ BackedSide
  BY <1>1 DEF FaultSide, StreamingIsWatched, Streaming, BackedSide
<1> QED BY <1>5, <1>6, <1>7, <1>8, <1>9, <1>10, <1>11, <1>12 DEF SInv

(***************************************************************************)
(* What the owner plans, and where the worker is in it.                    *)
(***************************************************************************)

SteerSide == Planned(owner) /\ WorkerSide /\ FaultSide /\ StreamingIsWatched

(* What the types of the owner and the worker say of single fields. *)
LEMMA OwnerTyped ==
    ASSUME OwnerSide
    PROVE  owner.WorkerOwned \in BOOLEAN /\ owner.StopRequested \in BOOLEAN
           /\ owner.RecoveryRequired \in BOOLEAN /\ owner.Generation \in Nat
           /\ worker.ok \in BOOLEAN /\ worker.attempt \in Nat /\ worker.pc \in Places
BY DEF OwnerSide, OwnerInv, DispatchOwner, Worker

(* A lock section of another thread may queue the worker. *)
LEMMA OwnsKeepsWorker ==
    ASSUME OwnerSide, WorkerSide, NEW s, OwnerInv(s), s.ActiveAction = owner.ActiveAction,
           owner.WorkerOwned => s.WorkerOwned, Owns(s), device'.render = device.render
    PROVE  WorkerSide'
<1>1. s.WorkerOwned \in BOOLEAN /\ owner' = s
  BY DEF OwnerInv, DispatchOwner, Owns
<1>2. CASE s.WorkerOwned /\ ~owner.WorkerOwned
  <2>1. worker' = [IdleWorker EXCEPT !.pc = "take"]
    BY <1>2 DEF Owns, Queued
  <2>2. worker'.pc = "take" /\ worker'.attempt = 0
    BY <2>1 DEF IdleWorker
  <2>3. worker.pc = "idle"
    BY <1>2 DEF WorkerSide
  <2> QED BY <1>1, <1>2, <2>2, <2>3, DirectPdoConstants DEF WorkerSide, OpenSteps
<1>3. CASE ~(s.WorkerOwned /\ ~owner.WorkerOwned)
  <2>1. worker' = worker
    BY <1>3 DEF Owns, Queued
  <2>2. s.WorkerOwned <=> owner.WorkerOwned
    BY <1>3, OwnerTyped
  <2> QED BY <1>1, <2>1, <2>2 DEF WorkerSide
<1> QED BY <1>2, <1>3

(* The action taken decides the first step, and claims render when it needs the channels. *)
LEMMA WorkerTakesSteers ==
    ASSUME OwnerSide, FieldSide, SteerSide, WorkerTakes
    PROVE  SteerSide'
<1> DEFINE s == TakeAction(owner)
           pc == FirstStep(s.ActiveAction)
<1> USE DEF SteerSide
<1>1. /\ worker.pc = "take" /\ owner.WorkerOwned /\ owner.ActiveAction = "None"
      /\ OwnerInv(owner)
  BY DEF WorkerTakes, WorkerSide, OwnerSide
<1>2. /\ Planned(s)
      /\ s.TransportState = owner.TransportState /\ s.KsIntent = owner.KsIntent
      /\ s.RecoveryRequired = owner.RecoveryRequired /\ s.Generation = owner.Generation
      /\ s.PendingAction = owner.PendingAction /\ s.ActiveAction = owner.PendingAction
      /\ s.WorkerOwned <=> s.ActiveAction # "None"
  BY <1>1, TakeActionPlans
<1>3. s.ActiveAction \in Actions
  BY <1>1, <1>2 DEF OwnerInv, DispatchOwner
<1>4. /\ owner' = s
      /\ worker' = IF s.ActiveAction = "None" THEN IdleWorker
                   ELSE [IdleWorker EXCEPT !.pc = pc, !.ok = pc # "complete"]
      /\ device' = [device EXCEPT
                      !.render = device.render \/ s.ActiveAction \in {"Open", "Start", "Suspend"}]
  BY DEF WorkerTakes, FieldSide, Device
<1>5. /\ s.ActiveAction \in {"Open", "Start", "Suspend"} => device'.render
      /\ device'.failure = device.failure /\ device'.watchdog = device.watchdog
  BY <1>4 DEF FieldSide, Device
<1>6. /\ s.ActiveAction = "Open" => pc = "settle"
      /\ s.ActiveAction \in {"Start", "Suspend"} => pc \in {"exchange", "complete"}
      /\ s.ActiveAction = "Close" => pc = "graceful"
      /\ s.ActiveAction = "CancelAndClose" => pc = "closeMedia"
  BY DEF FirstStep
<1>7. CASE s.ActiveAction = "None"
  <2>1. worker'.pc = "idle" /\ worker'.attempt = 0
    BY <1>4, <1>7 DEF IdleWorker
  <2> HIDE DEF s, pc
  <2>2. WorkerSide'
    BY <1>2, <1>4, <1>7, <2>1, DirectPdoConstants DEF WorkerSide, OpenSteps
  <2> QED BY <1>2, <1>4, <1>5, <2>2 DEF FaultSide, StreamingIsWatched, Streaming
<1>8. CASE s.ActiveAction # "None"
  <2> HIDE DEF s, pc
  <2>1. worker'.pc = pc /\ worker'.attempt = 0
    BY <1>4, <1>8 DEF IdleWorker
  <2>2. WorkerSide'
    BY <1>2, <1>3, <1>4, <1>5, <1>6, <1>8, <2>1, DirectPdoConstants
    DEF WorkerSide, OpenSteps, Actions
  <2> QED BY <1>2, <1>4, <1>5, <2>2 DEF FaultSide, StreamingIsWatched, Streaming
<1> QED BY <1>7, <1>8

(* A START that succeeded arms the watchdog of its generation; a failure leaves a reason. *)
LEMMA WorkerCompletesSteers ==
    ASSUME OwnerSide, FieldSide, SteerSide, WorkerCompletes
    PROVE  SteerSide'
<1> DEFINE s == CompleteAction(owner, worker.ok)
<1> USE DEF SteerSide
<1>1. /\ worker.pc = "complete" /\ OwnerInv(owner) /\ owner.ActiveAction # "None"
      /\ worker.ok \in BOOLEAN
  BY OwnerTyped DEF WorkerCompletes, OwnerSide
<1>2. Completed(owner, worker.ok, s)
  BY <1>1, CompleteActionPlans
<1>3. /\ owner' = s
      /\ device'.failure = IF device.failure = "None" /\ ~worker.ok THEN "Backend" ELSE device.failure
      /\ device'.watchdog = WatchdogAfter(s)
  BY DEF WorkerCompletes, FieldSide, Device
<1>4. worker'.pc = "take" /\ worker'.attempt = 0
  BY DEF WorkerCompletes, IdleWorker
<1> HIDE DEF s
<1>5. WorkerSide'
  BY <1>2, <1>3, <1>4, DirectPdoConstants DEF WorkerSide, OpenSteps, Completed
<1>6. FaultSide'
  BY <1>1, <1>2, <1>3 DEF FaultSide, Completed
<1>7. StreamingIsWatched'
  <2>1. SUFFICES ASSUME s.TransportState = "Streaming", s.PendingAction = "None"
                 PROVE  device'.watchdog = s.Generation
    BY <1>3 DEF StreamingIsWatched, Streaming
  <2>2. worker.ok /\ owner.ActiveAction = "Start"
    BY <1>2, <2>1 DEF Completed
  <2> QED BY <1>3, <2>1, <2>2 DEF WatchdogAfter
<1> QED BY <1>2, <1>3, <1>5, <1>6, <1>7 DEF Completed

(* A loss leaves a reason, and a session that no longer counts as open. *)
LEMMA LosesTransportSteers ==
    ASSUME OwnerSide, FieldSide, SteerSide, Listens,
           NEW reason \in {"RemoteDisconnect", "MediaTimeout"}, LosesTransport(reason)
    PROVE  /\ SteerSide'
           /\ \/ owner'.TransportState \in {"Faulted", "Offline"}
              \/ owner'.PendingAction = "CancelAndClose"
<1> DEFINE s == OnTransportLost(owner)
<1> USE DEF SteerSide
<1>1. OwnerInv(owner) /\ ~owner.StopRequested
  BY DEF OwnerSide, Listens
<1>2. OwnerInv(s) /\ s.ActiveAction = owner.ActiveAction
  BY <1>1, OnTransportLostKeeps
<1>3. /\ Planned(s) /\ (owner.WorkerOwned => s.WorkerOwned)
      /\ s.TransportState \in {"Faulted", "Offline"} \/ s.PendingAction = "CancelAndClose"
  BY <1>1, OnTransportLostPlans
<1>4. Owns(s) /\ owner' = s
  BY DEF LosesTransport, Owns
<1>5. device'.render = device.render /\ device'.failure # "None"
  BY DEF LosesTransport, FieldSide, Device
<1> HIDE DEF s
<1>6. WorkerSide'
  BY <1>2, <1>3, <1>4, <1>5, OwnsKeepsWorker
<1> QED BY <1>3, <1>4, <1>5, <1>6 DEF FaultSide, StreamingIsWatched, Streaming

(* A new intent never leaves a stream that is wanted without its watchdog. *)
LEMMA SetsIntentSteers ==
    ASSUME OwnerSide, FieldSide, SteerSide, NEW intent \in Intents, SetsIntent(intent)
    PROVE  SteerSide'
<1> DEFINE s == SetKsIntent(owner, intent)
<1> USE DEF SteerSide
<1>1. OwnerInv(owner) /\ ~owner.StopRequested
  BY DEF OwnerSide, SetsIntent, Listens
<1>2. OwnerInv(s) /\ s.ActiveAction = owner.ActiveAction
  BY <1>1, SetKsIntentKeeps
<1>3. /\ Planned(s) /\ (owner.WorkerOwned => s.WorkerOwned)
      /\ s.TransportState = owner.TransportState /\ s.KsIntent = intent
      /\ s.RecoveryRequired = owner.RecoveryRequired /\ s.Generation = owner.Generation
      /\ owner.PendingAction # "None" => s.PendingAction = owner.PendingAction
  BY <1>1, SetKsIntentPlans
<1>4. Owns(s) /\ owner' = s
  BY DEF SetsIntent, Owns
<1>5. device'.render = device.render /\ device'.failure = device.failure
  BY DEF SetsIntent, FieldSide, Device
<1> HIDE DEF s
<1>6. WorkerSide'
  BY <1>2, <1>3, <1>4, <1>5, OwnsKeepsWorker
<1>7. StreamingIsWatched'
  <2>1. SUFFICES ASSUME owner.TransportState = "Streaming", intent = "Running",
                        s.PendingAction = "None"
                 PROVE  FALSE
    BY <1>3, <1>4 DEF StreamingIsWatched, Streaming
  <2>2. owner.KsIntent = "Acquired" /\ owner.PendingAction = "None"
    BY <1>3, <2>1 DEF SetsIntent
  <2>3. owner.PnpStarted
    BY <1>1, <2>1, <2>2 DEF OwnerInv, OwnerIsConsistent
  <2> QED BY <2>1, <2>2, <2>3 DEF Planned, NextAction
<1> QED BY <1>3, <1>4, <1>5, <1>6, <1>7 DEF FaultSide

(* A recovery takes the fault and its reason away together. *)
LEMMA RequestsRecoverySteers ==
    ASSUME OwnerSide, FieldSide, SteerSide, RequestsRecovery
    PROVE  SteerSide' /\ owner'.TransportState = "Closed" /\ owner'.PendingAction = "None"
<1> DEFINE s == Retry(owner)
<1> USE DEF SteerSide
<1>1. /\ OwnerInv(owner) /\ ~owner.StopRequested /\ owner.TransportState = "Faulted"
      /\ owner.KsIntent = "Stopped" /\ ~owner.WorkerOwned /\ owner.ActiveAction = "None"
      /\ owner.PendingAction = "None"
  BY DEF OwnerSide, RequestsRecovery, AcceptsRecovery, Listens
<1>2. OwnerInv(s) /\ s.ActiveAction = owner.ActiveAction
  BY <1>1, RetryKeeps
<1>3. /\ Planned(s) /\ s.TransportState = "Closed" /\ s.PendingAction = "None"
      /\ ~s.RecoveryRequired
  BY <1>1, RetryPlans
<1>4. Owns(s) /\ owner' = s
  BY DEF RequestsRecovery, Owns
<1>5. device'.render = device.render
  BY DEF RequestsRecovery, FieldSide, Device
<1> HIDE DEF s
<1>6. WorkerSide'
  BY <1>1, <1>2, <1>4, <1>5, OwnsKeepsWorker
<1> QED BY <1>3, <1>4, <1>6 DEF FaultSide, StreamingIsWatched, Streaming

(* The stop leaves a session that no longer counts as open. *)
LEMMA StopBeginsSteers ==
    ASSUME OwnerSide, FieldSide, SteerSide, StopBegins
    PROVE  /\ SteerSide'
           /\ owner'.TransportState = "Offline" \/ owner'.PendingAction = "CancelAndClose"
<1> DEFINE s == OnPnpStop(owner)
<1> USE DEF SteerSide
<1>1. OwnerInv(owner)
  BY DEF OwnerSide
<1>2. OwnerInv(s) /\ s.ActiveAction = owner.ActiveAction
  BY <1>1, OnPnpStopKeeps
<1>3. /\ Planned(s) /\ (owner.WorkerOwned => s.WorkerOwned)
      /\ s.TransportState = "Offline" \/ s.PendingAction = "CancelAndClose"
      /\ s.TransportState \in {owner.TransportState, "Offline"} /\ ~s.RecoveryRequired
  BY <1>1, OnPnpStopPlans
<1>4. Owns(s) /\ owner' = s
  BY DEF StopBegins, Owns
<1>5. device'.render = device.render /\ device'.failure = device.failure
  BY DEF StopBegins, FieldSide, Device
<1> HIDE DEF s
<1>6. WorkerSide'
  BY <1>2, <1>3, <1>4, <1>5, OwnsKeepsWorker
<1> QED BY <1>3, <1>4, <1>5, <1>6 DEF FaultSide, StreamingIsWatched, Streaming

(* A session that the stop has asked to end is offline or about to be. *)
LEMMA StopCancels ==
    ASSUME OwnerSide, owner.StopRequested
    PROVE  owner.TransportState = "Offline" \/ owner.PendingAction = "CancelAndClose"
BY DEF OwnerSide, OwnerInv, OwnerIsConsistent

(* Who no longer listens has been asked to stop. *)
LEMMA DeafIsStopped ==
    ASSUME OwnerSide, StopSide, ~Listens
    PROVE  owner.StopRequested
BY DEF OwnerSide, StopSide, Listens

(* A disconnect that is heard, or comes after the stop, leaves no session that counts as open. *)
LEMMA HearsDisconnectSteers ==
    ASSUME OwnerSide, FieldSide, StopSide, SteerSide, HearsDisconnect
    PROVE  /\ SteerSide'
           /\ \/ owner'.TransportState \in {"Faulted", "Offline"}
              \/ owner'.PendingAction = "CancelAndClose"
<1>1. CASE Listens
  BY <1>1, LosesTransportSteers DEF HearsDisconnect
<1>2. CASE ~Listens
  <2>1. UNCHANGED <<owner, worker, device>>
    BY <1>2 DEF HearsDisconnect
  <2>2. owner.TransportState = "Offline" \/ owner.PendingAction = "CancelAndClose"
    BY <1>2, StopCancels, DeafIsStopped
  <2> QED BY <2>1, <2>2 DEF SteerSide, Planned, PendingFits, NextAction, WorkerSide, FaultSide,
             StreamingIsWatched, Streaming
<1> QED BY <1>1, <1>2

(* The same of the watchdog. *)
LEMMA WatchdogExpiresSteers ==
    ASSUME OwnerSide, FieldSide, StopSide, SteerSide, WatchdogExpires
    PROVE  /\ SteerSide'
           /\ \/ owner'.TransportState \in {"Faulted", "Offline"}
              \/ owner'.PendingAction = "CancelAndClose"
<1>1. CASE Listens
  BY <1>1, LosesTransportSteers DEF WatchdogExpires
<1>2. CASE ~Listens
  <2>1. UNCHANGED <<owner, worker>> /\ device' = [device EXCEPT !.watchdog = 0]
    BY <1>2 DEF WatchdogExpires
  <2>2. owner.TransportState = "Offline" \/ owner.PendingAction = "CancelAndClose"
    BY <1>2, StopCancels, DeafIsStopped
  <2>3. device'.render = device.render /\ device'.failure = device.failure
    BY <2>1 DEF FieldSide, Device
  <2> QED BY <2>1, <2>2, <2>3 DEF SteerSide, Planned, PendingFits, NextAction, WorkerSide,
             FaultSide, StreamingIsWatched, Streaming
<1> QED BY <1>1, <1>2

(* The worker goes on: only its place changes, and what it remembers of the attempt. *)
LEMMA WorkerMovesSteers ==
    ASSUME OwnerSide, SteerSide, UNCHANGED owner, WorkerSide',
           device'.failure = device.failure, device'.watchdog = device.watchdog
    PROVE  SteerSide'
BY DEF SteerSide, Planned, PendingFits, NextAction, FaultSide, StreamingIsWatched, Streaming

(* The worker by itself changes the device's fields that belong to its own steps only. *)
LEMMA WorkerGoesFrame ==
    ASSUME FieldSide, WorkerGoes
    PROVE  /\ UNCHANGED <<owner, notices>> /\ device'.failure = device.failure
           /\ device'.watchdog = device.watchdog /\ device'.render = device.render
<1> DEFINE frame == /\ UNCHANGED <<owner, notices>> /\ device'.failure = device.failure
                    /\ device'.watchdog = device.watchdog /\ device'.render = device.render
<1> USE DEF others
<1>1. CASE UNCHANGED <<owner, device, notices>>
  BY <1>1
<1>2. CASE WaitIsCancelled \/ SignalingOpens
  BY <1>2 DEF WaitIsCancelled, SignalingOpens, FieldSide, Device
<1>3. ASSUME NEW c \in Channels, WorkerEndsClose(c)
      PROVE  frame
  BY <1>3 DEF WorkerEndsClose, FieldSide, Device
<1>4. CASE WaitElapses
  BY <1>1, <1>4 DEF WaitElapses
<1>5. CASE WorkerOpensSignaling
  BY <1>1, <1>5 DEF WorkerOpensSignaling
<1>6. CASE SignalingDoesNotOpen
  BY <1>1, <1>6 DEF SignalingDoesNotOpen
<1>7. CASE WorkerDiscovers
  BY <1>1, <1>7 DEF WorkerDiscovers
<1>8. CASE WorkerOpensMedia
  BY <1>1, <1>8 DEF WorkerOpensMedia
<1>9. CASE MediaOpens
  BY <1>1, <1>9 DEF MediaOpens
<1>10. CASE WorkerExchanges
  BY <1>1, <1>10 DEF WorkerExchanges
<1>11. CASE WorkerClosesStream
  BY <1>1, <1>11 DEF WorkerClosesStream
<1>12. ASSUME NEW c \in Channels, WorkerBeginsClose(c)
       PROVE  frame
  BY <1>1, <1>12 DEF WorkerBeginsClose
<1> HIDE DEF frame
<1> QED BY <1>2, <1>3, <1>4, <1>5, <1>6, <1>7, <1>8, <1>9, <1>10, <1>11, <1>12 DEF WorkerGoes, frame

(* Every step leads to one that belongs to the same action. *)
LEMMA WorkerGoesSteers ==
    ASSUME OwnerSide, FieldSide, MutexSide, SteerSide, WorkerGoes
    PROVE  SteerSide'
<1> USE DEF SteerSide, OpenSteps
<1>1. /\ worker \in Worker /\ worker.attempt \in Nat /\ MaxOpenAttempts \in Nat
      /\ owner.WorkerOwned \in BOOLEAN
  BY OwnerTyped, DirectPdoConstants DEF OwnerSide
<1>2. /\ UNCHANGED owner /\ device'.failure = device.failure
      /\ device'.watchdog = device.watchdog /\ device'.render = device.render
  BY WorkerGoesFrame
<1>3. CASE WaitIsCancelled
  <2>1. worker'.pc = "complete" /\ worker'.attempt = worker.attempt
    BY <1>1, <1>3 DEF WaitIsCancelled, Fails, Worker
  <2> QED BY <1>2, <1>3, <2>1, WorkerMovesSteers DEF WorkerSide, WaitIsCancelled
<1>4. CASE WaitElapses
  <2>1. worker'.pc = "open" /\ worker'.attempt = worker.attempt + 1
        /\ worker.attempt < MaxOpenAttempts
    BY <1>1, <1>4 DEF WaitElapses, Worker, WorkerSide
  <2>2. worker'.attempt <= MaxOpenAttempts
    BY <1>1, <2>1
  <2>3. worker.pc \in {"settle", "retryWait"}
    BY <1>4 DEF WaitElapses
  <2> QED BY <1>2, <2>1, <2>2, <2>3, WorkerMovesSteers DEF WorkerSide
<1>5. CASE WorkerOpensSignaling
  <2>1. worker.pc = "open" /\ worker'.pc \in {"openWait", "reset"}
        /\ worker'.attempt = worker.attempt
    BY <1>1, <1>5 DEF WorkerOpensSignaling, Worker
  <2> QED BY <1>2, <2>1, WorkerMovesSteers DEF WorkerSide
<1>6. CASE SignalingOpens \/ SignalingDoesNotOpen
  <2>1. CASE SignalingOpens
    <3>1. worker' = [worker EXCEPT !.pc = "discover"] /\ worker.pc = "openWait"
      BY <2>1 DEF SignalingOpens, Goes
    <3>2. worker'.pc = "discover" /\ worker'.attempt = worker.attempt
      BY <1>1, <3>1 DEF Worker
    <3> QED BY <1>2, <3>1, <3>2, WorkerMovesSteers DEF WorkerSide
  <2>2. CASE SignalingDoesNotOpen
    <3>1. worker.pc = "openWait" /\ worker'.pc = "reset" /\ worker'.attempt = worker.attempt
      BY <1>1, <2>2 DEF SignalingDoesNotOpen, Worker
    <3> QED BY <1>2, <3>1, WorkerMovesSteers DEF WorkerSide
  <2> QED BY <1>6, <2>1, <2>2
<1>7. CASE WorkerDiscovers \/ WorkerOpensMedia \/ MediaOpens
  <2>1. /\ worker.pc \in {"discover", "openMedia", "mediaWait"}
        /\ \/ worker'.pc \in {"openMedia", "mediaWait", "complete"}
           \/ worker'.pc = "closeMedia" /\ ~worker'.ok
        /\ worker'.attempt = worker.attempt
    BY <1>1, <1>7 DEF WorkerDiscovers, WorkerOpensMedia, MediaOpens, Goes, Fails, Worker
  <2> QED BY <1>2, <2>1, WorkerMovesSteers DEF WorkerSide
<1>8. CASE WorkerExchanges
  <2>1. worker.pc = "exchange" /\ worker'.pc = "complete" /\ worker'.attempt = worker.attempt
    BY <1>1, <1>8 DEF WorkerExchanges, Worker
  <2> QED BY <1>2, <2>1, WorkerMovesSteers DEF WorkerSide
<1>9. CASE WorkerClosesStream
  <2>1. worker.pc = "graceful" /\ worker'.pc = "closeMedia" /\ worker'.attempt = worker.attempt
    BY <1>1, <1>9 DEF WorkerClosesStream, Worker
  <2> QED BY <1>2, <2>1, WorkerMovesSteers DEF WorkerSide
<1>10. ASSUME NEW c \in Channels, WorkerBeginsClose(c)
       PROVE  SteerSide'
  BY <1>2, <1>10, WorkerMovesSteers DEF WorkerSide, WorkerBeginsClose
<1>11. ASSUME NEW c \in Channels, WorkerEndsClose(c)
       PROVE  SteerSide'
  <2>1. worker.pc \in {"closeMedia", "closeSignaling", "reset"}
    BY <1>11 DEF WorkerEndsClose, EndsClose, MutexSide, WorkerCloses
  <2>2. EndedClose
    BY <1>11, WorkerEndsCloseGoesOn
  <2>3. GivesUp \/ worker.attempt < MaxOpenAttempts
    BY <1>1 DEF GivesUp, WorkerSide
  <2> QED BY <1>2, <2>1, <2>2, <2>3, WorkerMovesSteers DEF WorkerSide, EndedClose
<1> QED BY <1>3, <1>4, <1>5, <1>6, <1>7, <1>8, <1>9, <1>10, <1>11 DEF WorkerGoes

(* The stop gives the claim back when no action needs it. *)
LEMMA StopFinishesSteers ==
    ASSUME OwnerSide, FieldSide, StopSide, SteerSide, StopFinishes
    PROVE  SteerSide'
<1>1. UNCHANGED <<owner, worker>> /\ owner.StopRequested /\ worker.pc = "idle"
  BY DEF StopFinishes, OwnerSide, LastSteps
<1>2. ~owner.WorkerOwned /\ owner.ActiveAction = "None"
  BY <1>1 DEF SteerSide, WorkerSide
<1>3. /\ owner.PendingAction = "None" /\ owner.TransportState = "Offline"
      /\ ~owner.RecoveryRequired
  BY <1>1, <1>2 DEF OwnerSide, OwnerInv, OwnerIsConsistent
<1> QED BY <1>1, <1>2, <1>3 DEF SteerSide, Planned, PendingFits, NextAction, WorkerSide, OpenSteps,
           FaultSide, StreamingIsWatched, Streaming

(* So every step keeps owner, worker, watchdog and reason together. *)
LEMMA SteerSideHolds ==
    ASSUME IInv, FieldSide, StopSide, SteerSide, [Next]_vars
    PROVE  SteerSide'
<1> USE DEF IInv
<1>1. CASE WorkerStep
  <2>1. WorkerTakes \/ WorkerGoes \/ WorkerCompletes
    BY <1>1 DEF WorkerStep, WorkerGoes
  <2> QED BY <2>1, WorkerTakesSteers, WorkerGoesSteers, WorkerCompletesSteers
<1>2. CASE StopBegins
  BY <1>2, StopBeginsSteers
<1>3. CASE StopFinishes
  BY <1>3, StopFinishesSteers
<1>4. CASE HearsDisconnect
  BY <1>4, HearsDisconnectSteers
<1>5. CASE WatchdogExpires
  BY <1>5, WatchdogExpiresSteers
<1>6. ASSUME NEW intent \in Intents, SetsIntent(intent)
      PROVE  SteerSide'
  BY <1>6, SetsIntentSteers
<1>7. CASE RequestsRecovery
  BY <1>7, RequestsRecoverySteers
<1>8. CASE UNCHANGED <<owner, worker, device>>
  BY <1>8 DEF SteerSide, Planned, PendingFits, NextAction, WorkerSide, FaultSide,
     StreamingIsWatched, Streaming
<1> QED BY <1>1, <1>2, <1>3, <1>4, <1>5, <1>6, <1>7, <1>8
        DEF Next, StopStep, StopBeginsClose, StopEndsClose, StopFindsIdle, OpenIsAnswered,
            OpenCompletes, OpenWorkerCloses, OpenWorkerReports, HeadsetDisconnects,
            LossIsReported, ValidatesPacket, WritesPacket, Finished, vars, links

(***************************************************************************)
(* What a channel owner answers.                                           *)
(***************************************************************************)

(* An open is submitted from Closed only. *)
LEMMA RequestOpenAnswers ==
    ASSUME NEW c, ChannelInv(c)
    PROVE  LET a == RequestOpen(c)
           IN  \/ /\ a.action = "SubmitOpen" /\ c.State = "Closed"
                  /\ a.owner.State = "Opening" /\ a.owner.PnpStarted
                  /\ a.owner.Generation = c.Generation
               \/ a.action = "None" /\ a.owner = c
BY DEF ChannelInv, ChannelOwner, RequestOpen, Answer

(* A close cancels the open under way, closes what is open, or has nothing to do but *)
(* to leave the channel where it is wanted.                                          *)
LEMMA RequestCloseAnswers ==
    ASSUME NEW c, ChannelInv(c), NEW target_offline \in BOOLEAN, target_offline \/ c.PnpStarted
    PROVE  LET a == RequestClose(c, target_offline)
               d == a.owner
           IN  /\ d.Generation = c.Generation
               /\ d.PnpStarted <=> c.PnpStarted /\ ~target_offline
               /\ \/ /\ c.State = "Opening" /\ a.action = "CancelOpen"
                     /\ d.State = c.State /\ d.ChannelHeld = c.ChannelHeld
                  \/ /\ c.State = "ChannelOpen" /\ a.action = "SubmitClose"
                     /\ d.State = "Closing" /\ d.ChannelHeld = c.ChannelHeld
                  \/ /\ c.State \in {"Closed", "Faulted", "Offline"} /\ a.action = "None"
                     /\ d.State = IF d.PnpStarted THEN "Closed" ELSE "Offline"
                  \/ /\ c.State = "Closing" /\ a.action = "None"
                     /\ d.State = c.State /\ d.ChannelHeld = c.ChannelHeld
<1> DEFINE t == c.TargetOffline \/ target_offline
           p == c.PnpStarted /\ ~target_offline
           noted == [c EXCEPT !.CloseRequested = TRUE, !.TargetOffline = t, !.PnpStarted = p]
           a == RequestClose(c, target_offline)
<1>1. /\ noted.State = c.State /\ noted.ChannelHeld = c.ChannelHeld
      /\ noted.Generation = c.Generation /\ noted.PnpStarted = p /\ noted.TargetOffline = t
      /\ noted \in ChannelOwner /\ p \in BOOLEAN
      /\ noted.PnpStarted <=> c.PnpStarted /\ ~target_offline
      /\ noted.TargetOffline <=> ~noted.PnpStarted
  BY DEF ChannelInv, ChannelOwner
<1> HIDE DEF t, p
<1>2. CASE c.State = "Opening"
  <2>1. a = Answer(noted, "CancelOpen")
    BY <1>2 DEF RequestClose, ChannelInv, ChannelIsConsistent, t, p
  <2> HIDE DEF noted
  <2> QED BY <1>1, <1>2, <2>1 DEF Answer, ChannelOwner
<1>3. CASE c.State = "ChannelOpen"
  <2>1. a = Answer([noted EXCEPT !.State = "Closing"], "SubmitClose")
    BY <1>3 DEF RequestClose, ChannelInv, ChannelIsConsistent, t, p
  <2> HIDE DEF noted
  <2> QED BY <1>1, <1>3, <2>1 DEF Answer, ChannelOwner
<1>4. CASE c.State \in {"Closed", "Faulted", "Offline"}
  <2>1. a = Answer([ResetRequestFlags(noted) EXCEPT
                      !.State = IF noted.TargetOffline THEN "Offline" ELSE "Closed"], "None")
    BY <1>4 DEF RequestClose, t, p
  <2> DEFINE state == IF noted.TargetOffline THEN "Offline" ELSE "Closed"
             d == [ResetRequestFlags(noted) EXCEPT !.State = state]
  <2>2. state = IF noted.PnpStarted THEN "Closed" ELSE "Offline"
    BY <1>1
  <2> HIDE DEF noted, state
  <2>3. /\ d.State = state /\ d.Generation = noted.Generation
        /\ d.PnpStarted = noted.PnpStarted
    BY <1>1 DEF ResetRequestFlags, ChannelOwner
  <2>4. a.owner = d /\ a.action = "None"
    BY <2>1 DEF Answer, state
  <2> HIDE DEF d
  <2> QED BY <1>1, <1>4, <2>2, <2>3, <2>4
<1>5. CASE c.State = "Closing"
  <2>1. a = Answer(noted, "None")
    BY <1>5 DEF RequestClose, t, p
  <2> HIDE DEF noted
  <2> QED BY <1>1, <1>5, <2>1 DEF Answer, ChannelOwner
<1> QED BY <1>2, <1>3, <1>4, <1>5 DEF ChannelInv, ChannelOwner

(* A loss that is taken moves the generation on. *)
LEMMA OnRemoteDisconnectAnswers ==
    ASSUME NEW c, ChannelInv(c), NEW generation
    PROVE  LET d == OnRemoteDisconnect(c, generation)
           IN  \/ /\ TakesDisconnect(c, generation) /\ c.State = "ChannelOpen"
                  /\ d.State = "Faulted" /\ d.PnpStarted /\ d.Generation = c.Generation + 1
               \/ ~TakesDisconnect(c, generation) /\ d = c
BY DEF ChannelInv, ChannelOwner, TakesDisconnect, OnRemoteDisconnect, ResetRequestFlags

(* The open that the owner waits for is complete. *)
LEMMA OnOpenCompleteAnswers ==
    ASSUME NEW c, ChannelInv(c), c.State = "Opening", NEW acquired \in BOOLEAN
    PROVE  LET a == OnOpenComplete(c, c.Generation, acquired)
               d == a.owner
           IN  /\ d.Generation = c.Generation /\ d.PnpStarted = c.PnpStarted
               /\ \/ /\ acquired /\ a.action = "SubmitClose"
                     /\ d.State = "Closing" /\ d.ChannelHeld
                  \/ /\ acquired /\ a.action = "None" /\ c.PnpStarted
                     /\ d.State = "ChannelOpen" /\ d.ChannelHeld
                  \/ /\ ~acquired /\ a.action = "None"
                     /\ d.State \in {"Offline", "Closed", "Faulted"}
                     /\ ~c.PnpStarted => d.State = "Offline"
BY DEF ChannelInv, ChannelOwner, ChannelIsConsistent, OnOpenComplete, Answer, ResetRequestFlags

(* A close that is complete leaves the channel at rest, offline if the device is stopped. *)
LEMMA OnCloseCompleteAnswers ==
    ASSUME NEW c, ChannelInv(c), c.State = "Closing", NEW succeeded \in BOOLEAN
    PROVE  LET d == OnCloseComplete(c, succeeded)
           IN  /\ d.Generation = c.Generation /\ d.PnpStarted = c.PnpStarted
               /\ d.State \in {"Offline", "Closed", "Faulted"}
               /\ ~c.PnpStarted => d.State = "Offline"
BY DEF ChannelInv, ChannelOwner, OnCloseComplete, ResetRequestFlags

(***************************************************************************)
(* The open requests, the closes and the lower driver's channels.          *)
(***************************************************************************)

LinkTypes == opening \in [Channels -> OpenRequest] /\ air \in [Channels -> BOOLEAN]

LinksHold == LinkTypes /\ LinkSide

(* One channel is touched, the other rests. *)
LEMMA LinkOfOther ==
    ASSUME NEW e \in Channels, Linked(e), channel'[e] = channel[e], opening'[e] = opening[e],
           closing'[e] = closing[e], air'[e] = air[e]
    PROVE  Linked(e)'
BY DEF Linked, Drained, MutexFree

(* Nobody touches a channel. *)
LEMMA LinksRest ==
    ASSUME LinksHold, UNCHANGED links
    PROVE  LinksHold'
BY DEF LinksHold, LinkTypes, LinkSide, Linked, Drained, MutexFree, links

(* What the links of a channel and its owner's consistency say together. *)
LEMMA LinkFacts ==
    ASSUME ChannelSide, MutexSide, LinksHold, NEW c \in Channels
    PROVE  /\ ChannelInv(channel[c]) /\ Linked(c)
           /\ opening[c] \in OpenRequest /\ air[c] \in BOOLEAN /\ closing[c] \in Holder
           /\ channel[c].State \in {"Offline", "Closed", "Opening", "ChannelOpen", "Closing",
                                    "Faulted"}
           /\ channel[c].ChannelHeld <=> channel[c].State \in {"ChannelOpen", "Closing"}
           /\ channel \in [Channels -> ChannelOwner]
BY DEF ChannelSide, MutexSide, LinksHold, LinkTypes, LinkSide, ChannelInv, ChannelIsConsistent,
       ChannelOwner

(* An open that is submitted is the one its owner waits for. *)
LEMMA OpensLinks ==
    ASSUME ChannelSide, MutexSide, LinksHold, NEW c \in Channels, MutexFree(c), Opens(c),
           UNCHANGED <<closing, air>>
    PROVE  LinksHold'
<1> DEFINE a == RequestOpen(channel[c])
<1>1. /\ ChannelInv(channel[c]) /\ Linked(c) /\ opening[c] \in OpenRequest
      /\ channel[c].ChannelHeld <=> channel[c].State \in {"ChannelOpen", "Closing"}
      /\ channel \in [Channels -> ChannelOwner] /\ closing[c] \in Holder
  BY LinkFacts
<1>2. ChannelInv(a.owner)
  BY <1>1, RequestOpenKeeps
<1>3. \/ /\ a.action = "SubmitOpen" /\ channel[c].State = "Closed"
         /\ a.owner.State = "Opening" /\ a.owner.PnpStarted
         /\ a.owner.Generation = channel[c].Generation
      \/ a.action = "None" /\ a.owner = channel[c]
  BY <1>1, RequestOpenAnswers
<1>4. /\ channel' = [channel EXCEPT ![c] = a.owner]
      /\ opening' = IF a.action # "SubmitOpen" THEN opening
                    ELSE [opening EXCEPT ![c] = [at |-> "sent", generation |-> a.owner.Generation,
                                                 lost |-> FALSE]]
  BY DEF Opens
<1> HIDE DEF a
<1>5. CASE a.action # "SubmitOpen"
  <2>1. channel' = channel /\ opening' = opening
    BY <1>1, <1>3, <1>4, <1>5
  <2> QED BY <2>1, LinksRest DEF links
<1>6. CASE a.action = "SubmitOpen"
  <2>1. /\ channel'[c] = a.owner
        /\ opening' = [opening EXCEPT ![c] = [at |-> "sent", generation |-> a.owner.Generation,
                                              lost |-> FALSE]]
    BY <1>1, <1>4, <1>6
  <2>2. /\ opening'[c].at = "sent" /\ opening'[c].generation = a.owner.Generation
        /\ opening'[c].lost = FALSE
    BY <2>1 DEF LinksHold, LinkTypes
  <2>3. opening[c].at = "none" /\ closing[c].step = "none" /\ air[c] = FALSE
    BY <1>1, <1>3, <1>6 DEF Linked, OpenRequest, Unanswered, MutexFree, LinksHold, LinkTypes
  <2>4. Linked(c)'
    BY <1>3, <1>6, <2>1, <2>2, <2>3 DEF Linked, Unanswered, Drained, MutexFree
  <2>5. LinkTypes'
    BY <1>2, <2>1 DEF LinksHold, LinkTypes, OpenRequest, ChannelInv, ChannelOwner
  <2>6. ASSUME NEW e \in Channels, e # c
        PROVE  Linked(e)'
    <3>1. Linked(e) /\ channel'[e] = channel[e] /\ opening'[e] = opening[e]
      BY <1>1, <1>4, <2>1, <2>6 DEF LinksHold, LinkTypes, LinkSide
    <3> QED BY <3>1, LinkOfOther
  <2> QED BY <2>4, <2>5, <2>6 DEF LinksHold, LinkSide
<1> QED BY <1>5, <1>6

(* The lower driver answers the open that is under way. *)
LEMMA OpenIsAnsweredLinks ==
    ASSUME ChannelSide, MutexSide, LinksHold, NEW c \in Channels, OpenIsAnswered(c)
    PROVE  LinksHold'
<1>1. /\ Linked(c) /\ opening[c] \in OpenRequest
      /\ channel[c].ChannelHeld <=> channel[c].State \in {"ChannelOpen", "Closing"}
  BY LinkFacts
<1>2. PICK success \in BOOLEAN :
        /\ opening' = [opening EXCEPT ![c].at = IF success THEN "opened" ELSE "failed"]
        /\ air' = [air EXCEPT ![c] = success]
  BY DEF OpenIsAnswered
<1>3. UNCHANGED <<channel, closing>> /\ opening[c].at \in {"sent", "cancelled"}
  BY DEF OpenIsAnswered
<1>4. /\ opening'[c].at = IF success THEN "opened" ELSE "failed"
      /\ opening'[c].generation = opening[c].generation
      /\ opening'[c].lost = opening[c].lost
      /\ air'[c] = success
  BY <1>1, <1>2 DEF LinksHold, LinkTypes, OpenRequest
<1>5. Linked(c)'
  BY <1>1, <1>3, <1>4 DEF Linked, Unanswered, Drained, MutexFree
<1>6. LinkTypes'
  BY <1>2 DEF LinksHold, LinkTypes, OpenRequest
<1>7. ASSUME NEW e \in Channels, e # c
      PROVE  Linked(e)'
  <2>1. Linked(e) /\ air'[e] = air[e] /\ opening'[e] = opening[e]
    BY <1>2, <1>7 DEF LinksHold, LinkTypes, LinkSide
  <2> QED BY <1>3, <2>1, LinkOfOther
<1> QED BY <1>5, <1>6, <1>7 DEF LinksHold, LinkSide

(* The open worker hands the channel over, closes it, reports its loss, or has none. *)
LEMMA OpenCompletesLinks ==
    ASSUME ChannelSide, MutexSide, LinksHold, NEW c \in Channels, OpenCompletes(c)
    PROVE  LinksHold'
<1> DEFINE request == opening[c]
           a == OnOpenComplete(channel[c], request.generation, request.at = "opened")
           told == OnRemoteDisconnect(a.owner, request.generation)
           lost == a.action = "None" /\ request.at = "opened" /\ request.lost
           d == IF lost THEN told ELSE a.owner
           next == CASE a.action = "SubmitClose" -> [request EXCEPT !.at = "closing"]
                     [] lost /\ stopping = "no" -> [request EXCEPT !.at = "reporting"]
                     [] OTHER -> NoRequest
           opened == request.at = "opened"
<1>1. /\ ChannelInv(channel[c]) /\ Linked(c) /\ request \in OpenRequest
      /\ channel \in [Channels -> ChannelOwner] /\ air[c] \in BOOLEAN
      /\ closing[c] \in Holder
      /\ channel[c].ChannelHeld <=> channel[c].State \in {"ChannelOpen", "Closing"}
  BY LinkFacts
<1>2. /\ request.at \in {"opened", "failed"} /\ channel[c].State = "Opening"
      /\ request.generation = channel[c].Generation /\ closing[c].step # "brb"
      /\ request.lost => ~air[c]
      /\ air[c] => opened
      /\ MutexFree(c) => closing[c].step = "none"
  <2>1. request.at \in {"opened", "failed"}
    BY DEF OpenCompletes
  <2> QED BY <1>1, <2>1 DEF Linked, Unanswered, Drained
<1>3. /\ channel' = [channel EXCEPT ![c] = d] /\ UNCHANGED <<closing, air>>
      /\ opening' = [opening EXCEPT ![c] = next]
  BY DEF OpenCompletes
<1>4. opened \in BOOLEAN
  OBVIOUS
<1>5. ChannelInv(a.owner) /\ a.owner.PnpStarted = channel[c].PnpStarted
  BY <1>1, <1>4, OnOpenCompleteKeeps
<1> DEFINE e == a.owner
<1>6. /\ e.Generation = channel[c].Generation
      /\ \/ /\ opened /\ a.action = "SubmitClose" /\ e.State = "Closing" /\ e.ChannelHeld
         \/ /\ opened /\ a.action = "None" /\ channel[c].PnpStarted
            /\ e.State = "ChannelOpen" /\ e.ChannelHeld
         \/ /\ ~opened /\ a.action = "None" /\ e.State \in {"Offline", "Closed", "Faulted"}
            /\ ~channel[c].PnpStarted => e.State = "Offline"
  <2> HIDE DEF opened
  <2>1. a = OnOpenComplete(channel[c], channel[c].Generation, opened)
    BY <1>2 DEF opened
  <2> HIDE DEF a
  <2> QED BY <1>1, <1>2, <1>4, <2>1, OnOpenCompleteAnswers
<1> HIDE DEF a
<1>7. /\ next.at = IF a.action = "SubmitClose" THEN "closing"
                   ELSE IF lost /\ stopping = "no" THEN "reporting" ELSE "none"
      /\ next.lost => request.lost
      /\ next \in OpenRequest
  BY <1>1 DEF OpenRequest, NoRequest
<1>8. channel'[c] = d /\ opening'[c] = next
  BY <1>1, <1>3 DEF LinksHold, LinkTypes
<1>9. lost => told.State = "Faulted" /\ told.PnpStarted
  BY <1>2, <1>5, <1>6, OnRemoteDisconnectAnswers DEF TakesDisconnect
<1> HIDE DEF next, told
<1>10. Linked(c)'
  <2>1. CASE a.action = "SubmitClose"
    <3>1. channel'[c] = e /\ next.at = "closing"
      BY <1>7, <1>8, <2>1
    <3> QED BY <1>2, <1>3, <1>5, <1>6, <1>7, <1>8, <2>1, <3>1
            DEF Linked, Unanswered, Drained, MutexFree
  <2>2. CASE a.action = "None" /\ lost
    <3>1. channel'[c] = told /\ next.at \in {"reporting", "none"} /\ ~air[c]
      BY <1>2, <1>7, <1>8, <2>2
    <3> QED BY <1>2, <1>3, <1>7, <1>8, <1>9, <2>2, <3>1
            DEF Linked, Unanswered, Drained, MutexFree
  <2>3. CASE a.action = "None" /\ ~lost
    <3>1. channel'[c] = e /\ next.at = "none"
      BY <1>7, <1>8, <2>3
    <3> QED BY <1>2, <1>3, <1>5, <1>6, <1>7, <1>8, <2>3, <3>1
            DEF Linked, Unanswered, Drained, MutexFree
  <2> QED BY <1>6, <2>1, <2>2, <2>3
<1>11. LinkTypes'
  BY <1>3, <1>7 DEF LinksHold, LinkTypes
<1>12. ASSUME NEW f \in Channels, f # c
       PROVE  Linked(f)'
  <2>1. Linked(f) /\ channel'[f] = channel[f] /\ opening'[f] = opening[f]
    BY <1>1, <1>3, <1>12 DEF LinksHold, LinkTypes, LinkSide
  <2> QED BY <1>3, <2>1, LinkOfOther
<1> QED BY <1>10, <1>11, <1>12 DEF LinksHold, LinkSide

(* It ends the close of what it acquired. *)
LEMMA OpenWorkerClosesLinks ==
    ASSUME ChannelSide, MutexSide, LinksHold, NEW c \in Channels, OpenWorkerCloses(c)
    PROVE  LinksHold'
<1>1. /\ ChannelInv(channel[c]) /\ Linked(c) /\ opening[c] \in OpenRequest
      /\ channel \in [Channels -> ChannelOwner] /\ closing[c] \in Holder
  BY LinkFacts
<1>2. PICK success \in BOOLEAN :
        channel' = [channel EXCEPT ![c] = OnCloseComplete(channel[c], success)]
  BY <1>1 DEF OpenWorkerCloses
<1>3. /\ opening[c].at = "closing" /\ UNCHANGED closing
      /\ air' = [air EXCEPT ![c] = FALSE] /\ opening' = [opening EXCEPT ![c] = NoRequest]
  BY DEF OpenWorkerCloses, others
<1>4. /\ channel[c].State = "Closing" /\ closing[c].step # "brb"
      /\ MutexFree(c) => closing[c].step = "none"
  BY <1>1, <1>3 DEF Linked, Drained
<1> DEFINE d == OnCloseComplete(channel[c], success)
<1>5. /\ d.PnpStarted = channel[c].PnpStarted
      /\ d.State \in {"Offline", "Closed", "Faulted"}
      /\ ~channel[c].PnpStarted => d.State = "Offline"
  BY <1>1, <1>4, OnCloseCompleteAnswers
<1>6. channel'[c] = d
  BY <1>1, <1>2
<1>7. opening'[c].at = "none" /\ opening'[c].lost = FALSE /\ air'[c] = FALSE
  BY <1>3 DEF LinksHold, LinkTypes, NoRequest
<1> HIDE DEF d
<1>8. Linked(c)'
  BY <1>3, <1>4, <1>5, <1>6, <1>7 DEF Linked, Unanswered, Drained, MutexFree
<1>9. LinkTypes'
  BY <1>3 DEF LinksHold, LinkTypes, OpenRequest, NoRequest
<1>10. ASSUME NEW e \in Channels, e # c
       PROVE  Linked(e)'
  <2>1. /\ Linked(e) /\ channel'[e] = channel[e] /\ opening'[e] = opening[e]
        /\ air'[e] = air[e]
    BY <1>1, <1>2, <1>3, <1>10 DEF LinksHold, LinkTypes, LinkSide
  <2> QED BY <1>3, <2>1, LinkOfOther
<1> QED BY <1>8, <1>9, <1>10 DEF LinksHold, LinkSide

(* It reports, and is done. *)
LEMMA OpenWorkerReportsLinks ==
    ASSUME ChannelSide, MutexSide, LinksHold, NEW c \in Channels, OpenWorkerReports(c)
    PROVE  LinksHold'
<1>1. Linked(c) /\ opening[c] \in OpenRequest
  BY LinkFacts
<1>2. /\ opening[c].at = "reporting" /\ UNCHANGED <<channel, closing, air>>
      /\ opening' = [opening EXCEPT ![c] = NoRequest]
  BY DEF OpenWorkerReports
<1>3. opening'[c].at = "none" /\ opening'[c].lost = FALSE
  BY <1>2 DEF LinksHold, LinkTypes, NoRequest
<1>4. Linked(c)'
  BY <1>1, <1>2, <1>3 DEF Linked, Unanswered, Drained, MutexFree
<1>5. LinkTypes'
  BY <1>2 DEF LinksHold, LinkTypes, OpenRequest, NoRequest
<1>6. ASSUME NEW e \in Channels, e # c
      PROVE  Linked(e)'
  <2>1. Linked(e) /\ opening'[e] = opening[e]
    BY <1>2, <1>6 DEF LinksHold, LinkTypes, LinkSide
  <2> QED BY <1>2, <2>1, LinkOfOther
<1> QED BY <1>4, <1>5, <1>6 DEF LinksHold, LinkSide

(* A channel the headset has taken away is not in the air, whoever knows of it. *)
LEMMA HeadsetDisconnectsLinks ==
    ASSUME ChannelSide, MutexSide, LinksHold, NEW c \in Channels, HeadsetDisconnects(c)
    PROVE  LinksHold'
<1> DEFINE generation == channel[c].Generation
           told == OnRemoteDisconnect(channel[c], generation)
           taken == Drained(c) /\ TakesDisconnect(channel[c], generation)
           d == IF taken THEN told ELSE channel[c]
<1>1. /\ ChannelInv(channel[c]) /\ Linked(c) /\ opening[c] \in OpenRequest
      /\ channel \in [Channels -> ChannelOwner] /\ air[c] \in BOOLEAN
      /\ channel[c].ChannelHeld <=> channel[c].State \in {"ChannelOpen", "Closing"}
  BY LinkFacts
<1>2. /\ air[c] /\ air' = [air EXCEPT ![c] = FALSE] /\ UNCHANGED closing
      /\ channel' = [channel EXCEPT ![c] = d]
      /\ opening' = [opening EXCEPT ![c].lost = ~Drained(c)]
  BY <1>1 DEF HeadsetDisconnects
<1>3. /\ channel'[c] = d /\ air'[c] = FALSE
      /\ opening'[c].at = opening[c].at /\ opening'[c].generation = opening[c].generation
  BY <1>1, <1>2 DEF LinksHold, LinkTypes, OpenRequest
<1>4. taken => /\ channel[c].State = "ChannelOpen"
               /\ told.State = "Faulted" /\ told.PnpStarted
  BY <1>1, OnRemoteDisconnectAnswers
<1>5. opening[c].at \notin {"sent", "cancelled"}
  BY <1>1, <1>2 DEF Linked, Unanswered
<1>6. LinkTypes'
  <2> DEFINE lost == ~Drained(c)
  <2>1. lost \in BOOLEAN /\ opening' = [opening EXCEPT ![c].lost = lost]
    BY <1>2
  <2> HIDE DEF lost
  <2> QED BY <1>2, <2>1 DEF LinksHold, LinkTypes, OpenRequest
<1>7. taken => Drained(c)
  OBVIOUS
<1> HIDE DEF told, taken
<1>8. Linked(c)'
  BY <1>1, <1>2, <1>3, <1>4, <1>5, <1>7 DEF Linked, Unanswered, Drained, MutexFree
<1>9. ASSUME NEW e \in Channels, e # c
      PROVE  Linked(e)'
  <2>1. /\ Linked(e) /\ channel'[e] = channel[e] /\ opening'[e] = opening[e]
        /\ air'[e] = air[e]
    BY <1>1, <1>2, <1>9 DEF LinksHold, LinkTypes, LinkSide
  <2> QED BY <1>2, <2>1, LinkOfOther
<1> QED BY <1>6, <1>8, <1>9 DEF LinksHold, LinkSide

(* A close that begins waits for the open it cancelled, for its BRB, or for nothing. *)
LEMMA BeginsCloseLinks ==
    ASSUME ChannelSide, MutexSide, LinksHold, NEW c \in Channels, NEW by \in {"worker", "stop"},
           NEW target_offline \in BOOLEAN, target_offline \/ channel[c].PnpStarted,
           BeginsClose(c, by, target_offline), UNCHANGED air
    PROVE  LinksHold'
<1> DEFINE a == RequestClose(channel[c], target_offline)
           d == a.owner
<1>1. /\ ChannelInv(channel[c]) /\ Linked(c) /\ opening[c] \in OpenRequest
      /\ channel \in [Channels -> ChannelOwner] /\ closing[c] \in Holder
      /\ channel[c].ChannelHeld <=> channel[c].State \in {"ChannelOpen", "Closing"}
      /\ air[c] \in BOOLEAN
  BY LinkFacts
<1>2. /\ channel' = [channel EXCEPT ![c] = d] /\ MutexFree(c)
      /\ opening' = IF a.action = "CancelOpen" /\ opening[c].at = "sent"
                    THEN [opening EXCEPT ![c].at = "cancelled"] ELSE opening
      /\ closing' = [closing EXCEPT ![c] =
                       [by |-> by, step |-> IF a.action = "SubmitClose" THEN "brb" ELSE "drain"]]
  BY DEF BeginsClose
<1>3. /\ d.Generation = channel[c].Generation
      /\ d.PnpStarted <=> channel[c].PnpStarted /\ ~target_offline
      /\ \/ /\ channel[c].State = "Opening" /\ a.action = "CancelOpen"
            /\ d.State = channel[c].State /\ d.ChannelHeld = channel[c].ChannelHeld
         \/ /\ channel[c].State = "ChannelOpen" /\ a.action = "SubmitClose"
            /\ d.State = "Closing" /\ d.ChannelHeld = channel[c].ChannelHeld
         \/ /\ channel[c].State \in {"Closed", "Faulted", "Offline"} /\ a.action = "None"
            /\ d.State = IF d.PnpStarted THEN "Closed" ELSE "Offline"
         \/ /\ channel[c].State = "Closing" /\ a.action = "None"
            /\ d.State = channel[c].State /\ d.ChannelHeld = channel[c].ChannelHeld
  BY <1>1, RequestCloseAnswers
<1>4. channel'[c] = d
  BY <1>1, <1>2
<1> HIDE DEF a, d
<1>5. /\ opening'[c].at = IF a.action = "CancelOpen" /\ opening[c].at = "sent"
                          THEN "cancelled" ELSE opening[c].at
      /\ opening'[c].generation = opening[c].generation
      /\ opening'[c].lost = opening[c].lost
      /\ opening' \in [Channels -> OpenRequest]
  BY <1>1, <1>2 DEF LinksHold, LinkTypes, OpenRequest
<1>6. /\ closing'[c].by = by
      /\ closing'[c].step = IF a.action = "SubmitClose" THEN "brb" ELSE "drain"
  BY <1>2 DEF MutexSide
<1>7. closing[c].step = "none"
  BY <1>1, <1>2 DEF Linked
<1>8. Linked(c)'
  <2>1. CASE channel[c].State = "Opening"
    BY <1>1, <1>3, <1>4, <1>5, <1>6, <1>7, <2>1 DEF Linked, Unanswered, Drained, MutexFree
  <2>2. CASE channel[c].State = "ChannelOpen"
    <3>1. opening[c].at = "none"
      BY <1>1, <2>2 DEF Linked, Unanswered, OpenRequest
    <3> QED BY <1>1, <1>3, <1>4, <1>5, <1>6, <1>7, <2>2, <3>1
            DEF Linked, Unanswered, Drained, MutexFree
  <2>3. CASE channel[c].State \in {"Closed", "Faulted", "Offline"}
    <3>1. d.State \in {"Closed", "Offline"} /\ (~d.PnpStarted => d.State = "Offline")
          /\ a.action = "None"
      BY <1>3, <2>3
    <3>2. air[c] = FALSE
      BY <1>1, <1>7, <2>3 DEF Linked, Unanswered
    <3> QED BY <1>1, <1>4, <1>5, <1>6, <1>7, <2>3, <3>1, <3>2
            DEF Linked, Unanswered, Drained, MutexFree
  <2>4. CASE channel[c].State = "Closing"
    BY <1>1, <1>3, <1>4, <1>5, <1>6, <1>7, <2>4 DEF Linked, Unanswered, Drained, MutexFree
  <2> QED BY <1>3, <2>1, <2>2, <2>3, <2>4
<1>9. LinkTypes'
  BY <1>5 DEF LinksHold, LinkTypes
<1>10. ASSUME NEW e \in Channels, e # c
       PROVE  Linked(e)'
  <2>1. /\ Linked(e) /\ channel'[e] = channel[e] /\ opening'[e] = opening[e]
        /\ closing'[e] = closing[e]
    BY <1>1, <1>2, <1>10 DEF LinksHold, LinkTypes, LinkSide, MutexSide
  <2> QED BY <2>1, LinkOfOther
<1> QED BY <1>8, <1>9, <1>10 DEF LinksHold, LinkSide

(* A close that has ended leaves a channel at rest, offline if that was asked. *)
LEMMA EndsCloseLinks ==
    ASSUME ChannelSide, MutexSide, LinksHold, NEW c \in Channels, NEW by, NEW success \in BOOLEAN,
           EndsClose(c, by, success), UNCHANGED opening
    PROVE  /\ LinksHold'
           /\ ~channel[c].PnpStarted => Gone(c)'
           /\ \A e \in Channels \ {c} : channel'[e] = channel[e]
<1> DEFINE d == OnCloseComplete(channel[c], success)
<1>1. /\ ChannelInv(channel[c]) /\ Linked(c) /\ opening[c] \in OpenRequest
      /\ channel \in [Channels -> ChannelOwner] /\ closing[c] \in Holder
      /\ channel[c].ChannelHeld <=> channel[c].State \in {"ChannelOpen", "Closing"}
      /\ air[c] \in BOOLEAN
  BY LinkFacts
<1>2. /\ opening[c].at = "none" /\ closing' = [closing EXCEPT ![c] = NotClosing]
      /\ closing'[c].by = "nobody" /\ closing'[c].step = "none"
  BY DEF EndsClose, Drained, NotClosing, MutexSide
<1>3. CASE closing[c].step = "brb"
  <2>1. channel' = [channel EXCEPT ![c] = d] /\ air' = [air EXCEPT ![c] = FALSE]
    BY <1>1, <1>3 DEF EndsClose
  <2>2. channel[c].State = "Closing"
    BY <1>1, <1>3 DEF Linked
  <2>3. /\ d.PnpStarted = channel[c].PnpStarted
        /\ d.State \in {"Offline", "Closed", "Faulted"}
        /\ ~channel[c].PnpStarted => d.State = "Offline"
    BY <1>1, <2>2, OnCloseCompleteAnswers
  <2>4. channel'[c] = d /\ air'[c] = FALSE
    BY <1>1, <2>1 DEF LinksHold, LinkTypes
  <2> HIDE DEF d
  <2>5. Linked(c)'
    BY <1>1, <1>2, <2>3, <2>4 DEF Linked, Unanswered, Drained, MutexFree
  <2>6. ASSUME NEW e \in Channels, e # c
        PROVE  Linked(e)' /\ channel'[e] = channel[e]
    <3>1. /\ Linked(e) /\ channel'[e] = channel[e] /\ air'[e] = air[e]
          /\ closing'[e] = closing[e]
      BY <1>1, <1>2, <2>1, <2>6 DEF LinksHold, LinkTypes, LinkSide, MutexSide
    <3> QED BY <3>1, LinkOfOther
  <2>7. LinkTypes'
    BY <2>1 DEF LinksHold, LinkTypes
  <2> QED BY <1>2, <2>3, <2>4, <2>5, <2>6, <2>7 DEF LinksHold, LinkSide, Gone, Drained
<1>4. CASE closing[c].step # "brb"
  <2>1. UNCHANGED <<channel, air>>
    BY <1>4 DEF EndsClose
  <2>2. channel[c].State \notin {"Opening", "Closing"}
    BY <1>1, <1>2, <1>4 DEF Linked, Unanswered
  <2>3. Linked(c)'
    BY <1>1, <1>2, <2>1, <2>2 DEF Linked, Unanswered, Drained, MutexFree
  <2>4. ~channel[c].PnpStarted => channel[c].State = "Offline"
    BY <1>1, <2>2 DEF Linked
  <2>5. ASSUME NEW e \in Channels, e # c
        PROVE  Linked(e)'
    <3>1. Linked(e) /\ closing'[e] = closing[e]
      BY <1>2, <2>5 DEF LinksHold, LinkSide, MutexSide
    <3> QED BY <2>1, <3>1, LinkOfOther
  <2>6. LinkTypes'
    BY <2>1 DEF LinksHold, LinkTypes
  <2> QED BY <1>2, <2>1, <2>3, <2>4, <2>5, <2>6 DEF LinksHold, LinkSide, Gone, Drained
<1> QED BY <1>3, <1>4

(* The worker opens and closes with the mutex in hand. *)
LEMMA WorkerStepLinks ==
    ASSUME IInv, LinksHold, WorkerStep
    PROVE  LinksHold'
<1> USE DEF IInv
<1>1. stopping \notin LastSteps
  BY WorkerPrecedesLastSteps
<1>2. "Signaling" \in Channels /\ "Media" \in Channels
  BY DEF Channels
<1>3. CASE WorkerOpensSignaling
  <2>1. CASE Opens("Signaling")
    BY <1>2, <1>3, <2>1, OpensLinks DEF WorkerOpensSignaling
  <2>2. CASE UNCHANGED <<channel, opening>>
    BY <1>3, <2>2, LinksRest DEF WorkerOpensSignaling, links
  <2> QED BY <1>3, <2>1, <2>2 DEF WorkerOpensSignaling
<1>4. CASE WorkerOpensMedia
  <2>1. CASE Opens("Media")
    BY <1>2, <1>4, <2>1, OpensLinks DEF WorkerOpensMedia
  <2>2. CASE UNCHANGED <<channel, opening>>
    BY <1>4, <2>2, LinksRest DEF WorkerOpensMedia, links
  <2> QED BY <1>4, <2>1, <2>2 DEF WorkerOpensMedia
<1>5. ASSUME NEW c \in Channels, WorkerBeginsClose(c)
      PROVE  LinksHold'
  <2>1. channel[c].PnpStarted
    BY <1>1 DEF ChannelSide
  <2> QED BY <1>5, <2>1, BeginsCloseLinks DEF WorkerBeginsClose
<1>6. ASSUME NEW c \in Channels, WorkerEndsClose(c)
      PROVE  LinksHold'
  BY <1>6, EndsCloseLinks DEF WorkerEndsClose
<1>7. CASE UNCHANGED links
  BY <1>7, LinksRest
<1> QED BY <1>3, <1>4, <1>5, <1>6, <1>7
        DEF WorkerStep, WorkerTakes, WaitIsCancelled, WaitElapses, SignalingOpens,
            SignalingDoesNotOpen, WorkerDiscovers, MediaOpens, WorkerExchanges,
            WorkerClosesStream, WorkerCompletes

(* The stop closes only what is started, unless it takes it offline. *)
LEMMA StopBeginsCloseIsAllowed ==
    ASSUME IInv, StopBeginsClose
    PROVE  /\ StopTarget \in Channels
           /\ stopping \in {"stopSignaling", "stopMedia"} \/ channel[StopTarget].PnpStarted
<1>1. StopTarget \in Channels
  BY DEF StopTarget, Channels
<1>2. stopping \in {"closeSignaling", "closeMedia", "stopSignaling", "stopMedia"}
  BY DEF StopBeginsClose
<1> QED BY <1>1, <1>2 DEF IInv, ChannelSide, LastSteps

(* The stop does no more than the worker to a channel. *)
LEMMA StopStepLinks ==
    ASSUME IInv, LinksHold, StopStep
    PROVE  LinksHold'
<1> USE DEF IInv
<1>1. CASE StopBeginsClose
  <2> DEFINE target_offline == stopping \in {"stopSignaling", "stopMedia"}
  <2>1. /\ StopTarget \in Channels /\ target_offline \in BOOLEAN
        /\ target_offline \/ channel[StopTarget].PnpStarted
    BY <1>1, StopBeginsCloseIsAllowed
  <2>2. BeginsClose(StopTarget, "stop", target_offline) /\ UNCHANGED air
    BY <1>1 DEF StopBeginsClose
  <2> HIDE DEF target_offline
  <2> QED BY <2>1, <2>2, BeginsCloseLinks
<1>2. CASE StopEndsClose
  <2>1. StopTarget \in Channels
    BY DEF StopTarget, Channels
  <2>2. PICK success \in BOOLEAN : EndsClose(StopTarget, "stop", success)
    BY <1>2 DEF StopEndsClose
  <2>3. UNCHANGED opening
    BY <1>2 DEF StopEndsClose
  <2> QED BY <2>1, <2>2, <2>3, EndsCloseLinks
<1>3. CASE UNCHANGED links
  BY <1>3, LinksRest
<1> QED BY <1>1, <1>2, <1>3 DEF StopStep, StopBegins, StopFindsIdle, StopFinishes

(* So every step keeps requests, closes, owners and the air together. *)
LEMMA LinksHoldOn ==
    ASSUME IInv, LinksHold, [Next]_vars
    PROVE  LinksHold'
<1> USE DEF IInv
<1>1. CASE WorkerStep
  BY <1>1, WorkerStepLinks
<1>2. CASE StopStep
  BY <1>2, StopStepLinks
<1>3. ASSUME NEW c \in Channels, OpenIsAnswered(c) \/ OpenCompletes(c) \/ OpenWorkerCloses(c)
      PROVE  LinksHold'
  BY <1>3, OpenIsAnsweredLinks, OpenCompletesLinks, OpenWorkerClosesLinks
<1>4. ASSUME NEW c \in Channels, OpenWorkerReports(c) \/ HeadsetDisconnects(c)
      PROVE  LinksHold'
  BY <1>4, OpenWorkerReportsLinks, HeadsetDisconnectsLinks
<1>5. CASE UNCHANGED links
  BY <1>5, LinksRest
<1> QED BY <1>1, <1>2, <1>3, <1>4, <1>5
        DEF Next, LossIsReported, WatchdogExpires, SetsIntent, RequestsRecovery,
            ValidatesPacket, WritesPacket, Finished, vars, links

(***************************************************************************)
(* The fields of the device, the packets and the bounds.                   *)
(***************************************************************************)

(* Only the end of the stop takes the device's start back, and with it its claim, which *)
(* otherwise only a result gives up.                                                    *)
LEMMA DeviceHolds ==
    ASSUME IInv, FieldSide, [Next]_vars
    PROVE  /\ device' \in Device
           /\ StopFinishes \/ device'.started = device.started
           /\ StopFinishes \/ WorkerCompletes \/ (device.render => device'.render)
<1> DEFINE kept == /\ device' \in Device /\ device'.started = device.started
                   /\ device.render => device'.render
<1> USE DEF FieldSide, Device
<1>1. owner.Generation \in Nat /\ OwnerInv(owner)
  BY OwnerTyped DEF IInv, OwnerSide
<1>2. CASE WorkerTakes
  <2> DEFINE claims == device.render \/ TakeAction(owner).ActiveAction \in {"Open", "Start", "Suspend"}
  <2>1. device' = [device EXCEPT !.render = claims] /\ claims \in BOOLEAN
    BY <1>2 DEF WorkerTakes
  <2>2. device.render => claims
    OBVIOUS
  <2> HIDE DEF claims
  <2> QED BY <2>1, <2>2
<1>3. CASE WaitIsCancelled \/ SignalingOpens
  BY <1>3 DEF WaitIsCancelled, SignalingOpens
<1>4. ASSUME NEW c \in Channels, WorkerEndsClose(c) PROVE kept
  <2> DEFINE left == device.avdtp /\ worker.pc # "closeSignaling"
  <2>1. device' = [device EXCEPT !.avdtp = left] /\ left \in BOOLEAN
    BY <1>4 DEF WorkerEndsClose
  <2> HIDE DEF left
  <2> QED BY <2>1
<1>5. CASE WorkerCompletes
  <2> DEFINE s == CompleteAction(owner, worker.ok)
             claimed == device.render /\ channel["Signaling"].State # "Closed"
             reason == IF device.failure = "None" /\ ~worker.ok THEN "Backend" ELSE device.failure
             watched == WatchdogAfter(s)
  <2>1. owner.ActiveAction # "None" /\ worker.ok \in BOOLEAN
    BY <1>5, OwnerTyped DEF IInv, OwnerSide, WorkerCompletes
  <2>2. s.Generation \in Nat
    BY <1>1, <2>1, CompleteActionKeeps DEF OwnerInv, DispatchOwner
  <2> HIDE DEF s
  <2>3. watched \in Nat
    BY <2>2 DEF WatchdogAfter
  <2>4. claimed \in BOOLEAN /\ reason \in {"None", "RemoteDisconnect", "MediaTimeout", "Backend"}
    OBVIOUS
  <2>5. device' = [device EXCEPT !.render = claimed, !.failure = reason, !.watchdog = watched]
    BY <1>5 DEF WorkerCompletes, s
  <2> HIDE DEF claimed, reason, watched
  <2> QED BY <1>5, <2>3, <2>4, <2>5
<1>6. ASSUME NEW reason \in {"RemoteDisconnect", "MediaTimeout"}, LosesTransport(reason)
      PROVE  kept
  BY <1>6 DEF LosesTransport
<1>7. CASE HearsDisconnect
  BY <1>6, <1>7 DEF HearsDisconnect
<1>8. CASE WatchdogExpires
  BY <1>6, <1>8 DEF WatchdogExpires
<1>9. ASSUME NEW intent \in Intents, SetsIntent(intent) PROVE kept
  BY <1>9 DEF SetsIntent
<1>10. CASE RequestsRecovery
  BY <1>10 DEF RequestsRecovery
<1>11. CASE StopBegins
  BY <1>11 DEF StopBegins
<1>12. CASE StopFinishes
  BY <1>12 DEF StopFinishes
<1>13. CASE UNCHANGED device
  BY <1>13
<1>14. \/ kept
       \/ WorkerCompletes /\ device' \in Device /\ device'.started = device.started
       \/ StopFinishes /\ device' \in Device
  <2>1. CASE WorkerStep
    BY <1>2, <1>3, <1>4, <1>5, <1>13, <2>1
    DEF WorkerStep, WaitElapses, WorkerOpensSignaling, SignalingDoesNotOpen, WorkerDiscovers,
        WorkerOpensMedia, MediaOpens, WorkerExchanges, WorkerClosesStream, WorkerBeginsClose
  <2>2. CASE ~WorkerStep
    BY <1>7, <1>8, <1>9, <1>10, <1>11, <1>12, <1>13, <2>2
    DEF Next, StopStep, StopBeginsClose, StopEndsClose, StopFindsIdle, OpenIsAnswered,
        OpenCompletes, OpenWorkerCloses, OpenWorkerReports, HeadsetDisconnects,
        LossIsReported, ValidatesPacket, WritesPacket, Finished, vars
  <2> QED BY <2>1, <2>2
<1> HIDE DEF FieldSide, Device
<1> QED BY <1>14

(* The bounds count what they bound, and each notice is a disconnect that was counted. *)
LEMMA CountsHold ==
    ASSUME FieldSide, [Next]_vars
    PROVE  used' \in Used /\ notices' \in Nat /\ notices' <= used'.disconnects
<1> DEFINE held == used' \in Used /\ notices' \in Nat /\ notices' <= used'.disconnects
<1>1. /\ MaxIntents \in Nat /\ MaxDisconnects \in Nat /\ MaxRecoveries \in Nat
      /\ MaxPackets \in Nat
  BY DirectPdoConstants
<1>2. /\ used \in Used /\ notices \in Nat /\ notices <= used.disconnects
      /\ used.intents \in Nat /\ used.disconnects \in Nat /\ used.recoveries \in Nat
      /\ used.packets \in Nat
  BY <1>1 DEF FieldSide, Used
<1>3. ASSUME NEW c \in Channels, HeadsetDisconnects(c) PROVE held
  <2>1. /\ used.disconnects < MaxDisconnects
        /\ used' = [used EXCEPT !.disconnects = used.disconnects + 1]
    BY <1>2, <1>3 DEF HeadsetDisconnects, Used
  <2>2. notices' = notices + 1 \/ notices' = notices + 0
    BY <1>3 DEF HeadsetDisconnects
  <2>3. used' \in Used /\ used'.disconnects = used.disconnects + 1
    BY <1>1, <1>2, <2>1 DEF Used
  <2> QED BY <1>2, <2>2, <2>3
<1>4. CASE LossIsReported
  <2>1. notices > 0 /\ notices' = notices - 1 /\ used' = used
    BY <1>4 DEF LossIsReported
  <2> QED BY <1>2, <2>1
<1>5. ASSUME NEW intent \in Intents, SetsIntent(intent) PROVE held
  <2>1. /\ used.intents < MaxIntents /\ notices' = notices
        /\ used' = [used EXCEPT !.intents = used.intents + 1]
    BY <1>2, <1>5 DEF SetsIntent, Used
  <2> QED BY <1>1, <1>2, <2>1 DEF Used
<1>6. CASE RequestsRecovery
  <2>1. /\ used.recoveries < MaxRecoveries /\ notices' = notices
        /\ used' = [used EXCEPT !.recoveries = used.recoveries + 1]
    BY <1>2, <1>6 DEF RequestsRecovery, Used
  <2> QED BY <1>1, <1>2, <2>1 DEF Used
<1>7. CASE ValidatesPacket
  <2>1. /\ used.packets < MaxPackets /\ notices' = notices
        /\ used' = [used EXCEPT !.packets = used.packets + 1]
    BY <1>2, <1>7 DEF ValidatesPacket, Used
  <2> QED BY <1>1, <1>2, <2>1 DEF Used
<1>8. CASE UNCHANGED <<used, notices>>
  BY <1>2, <1>8
<1>9. WorkerStep => UNCHANGED <<used, notices>>
  BY DEF WorkerStep, WorkerTakes, WaitIsCancelled, WaitElapses, WorkerOpensSignaling,
         SignalingOpens, SignalingDoesNotOpen, WorkerDiscovers, WorkerOpensMedia, MediaOpens,
         WorkerExchanges, WorkerClosesStream, WorkerBeginsClose, WorkerEndsClose,
         WorkerCompletes, others
<1>10. StopStep => UNCHANGED <<used, notices>>
  BY DEF StopStep, StopBegins, StopBeginsClose, StopEndsClose, StopFindsIdle, StopFinishes, others
<1> HIDE DEF held
<1> QED BY <1>3, <1>4, <1>5, <1>6, <1>7, <1>8, <1>9, <1>10
        DEF Next, OpenIsAnswered, OpenCompletes, OpenWorkerCloses, OpenWorkerReports,
            WatchdogExpires, WritesPacket, Finished, vars, others, held

(* An open and a close that a thread here asks for leave the generation as it is. *)
LEMMA GenerationStays ==
    ASSUME ChannelSide, NEW c \in Channels, NEW d, channel' = [channel EXCEPT ![c] = d],
           d.Generation = channel[c].Generation
    PROVE  channel'["Media"].Generation = channel["Media"].Generation
BY DEF ChannelSide, Channels

(* An open does not move the generation, *)
LEMMA OpensKeepsGeneration ==
    ASSUME ChannelSide, NEW c \in Channels, Opens(c)
    PROVE  channel'["Media"].Generation = channel["Media"].Generation
<1> DEFINE d == RequestOpen(channel[c]).owner
<1>1. ChannelInv(channel[c])
  BY DEF ChannelSide
<1>2. d.Generation = channel[c].Generation
  BY <1>1, RequestOpenAnswers
<1>3. channel' = [channel EXCEPT ![c] = d]
  BY DEF Opens
<1> HIDE DEF d
<1> QED BY <1>2, <1>3, GenerationStays

(* nor does a close that begins, *)
LEMMA BeginsCloseKeepsGeneration ==
    ASSUME ChannelSide, NEW c \in Channels, NEW by, NEW target_offline \in BOOLEAN,
           target_offline \/ channel[c].PnpStarted, BeginsClose(c, by, target_offline)
    PROVE  channel'["Media"].Generation = channel["Media"].Generation
<1> DEFINE d == RequestClose(channel[c], target_offline).owner
<1>1. ChannelInv(channel[c])
  BY DEF ChannelSide
<1>2. d.Generation = channel[c].Generation
  BY <1>1, RequestCloseAnswers
<1>3. channel' = [channel EXCEPT ![c] = d]
  BY DEF BeginsClose
<1> HIDE DEF d
<1> QED BY <1>2, <1>3, GenerationStays

(* nor the answer to its BRB, *)
LEMMA OnCloseCompleteKeepsGeneration ==
    ASSUME NEW c, ChannelInv(c), NEW success \in BOOLEAN
    PROVE  OnCloseComplete(c, success).Generation = c.Generation
BY DEF OnCloseComplete, ResetRequestFlags, ChannelInv, ChannelOwner

(* nor a close that ends; *)
LEMMA EndsCloseKeepsGeneration ==
    ASSUME ChannelSide, NEW c \in Channels, NEW by, NEW success \in BOOLEAN,
           EndsClose(c, by, success)
    PROVE  channel'["Media"].Generation = channel["Media"].Generation
<1> DEFINE d == OnCloseComplete(channel[c], success)
<1>1. ChannelInv(channel[c]) /\ channel \in [Channels -> ChannelOwner]
  BY DEF ChannelSide
<1>2. d.Generation = channel[c].Generation
  BY <1>1, OnCloseCompleteKeepsGeneration
<1>3. CASE closing[c].step = "brb"
  <2>1. channel' = [channel EXCEPT ![c] = d]
    BY <1>1, <1>3 DEF EndsClose
  <2> HIDE DEF d
  <2> QED BY <1>2, <2>1, GenerationStays
<1>4. CASE closing[c].step # "brb"
  BY <1>4 DEF EndsClose
<1> QED BY <1>3, <1>4

(* so the worker never does, *)
LEMMA WorkerStepKeepsGeneration ==
    ASSUME IInv, WorkerStep
    PROVE  channel'["Media"].Generation = channel["Media"].Generation
<1> USE DEF IInv
<1>1. \A c \in Channels : channel[c].PnpStarted
  BY WorkerPrecedesLastSteps DEF ChannelSide
<1>2. "Signaling" \in Channels /\ "Media" \in Channels
  BY DEF Channels
<1>3. CASE WorkerOpensSignaling
  BY <1>2, <1>3, OpensKeepsGeneration DEF WorkerOpensSignaling
<1>4. CASE WorkerOpensMedia
  BY <1>2, <1>4, OpensKeepsGeneration DEF WorkerOpensMedia
<1>5. ASSUME NEW c \in Channels, WorkerBeginsClose(c)
      PROVE  channel'["Media"].Generation = channel["Media"].Generation
  BY <1>1, <1>5, BeginsCloseKeepsGeneration DEF WorkerBeginsClose
<1>6. ASSUME NEW c \in Channels, WorkerEndsClose(c)
      PROVE  channel'["Media"].Generation = channel["Media"].Generation
  BY <1>6, EndsCloseKeepsGeneration DEF WorkerEndsClose
<1>7. CASE UNCHANGED channel
  BY <1>7
<1> QED BY <1>3, <1>4, <1>5, <1>6, <1>7
        DEF WorkerStep, WorkerTakes, WaitIsCancelled, WaitElapses, SignalingOpens,
            SignalingDoesNotOpen, WorkerDiscovers, MediaOpens, WorkerExchanges,
            WorkerClosesStream, WorkerCompletes, links

(* nor does the stop. *)
LEMMA StopStepKeepsGeneration ==
    ASSUME IInv, StopStep
    PROVE  channel'["Media"].Generation = channel["Media"].Generation
<1> USE DEF IInv
<1>1. CASE StopBeginsClose
  <2> DEFINE target_offline == stopping \in {"stopSignaling", "stopMedia"}
  <2>1. /\ StopTarget \in Channels /\ target_offline \in BOOLEAN
        /\ target_offline \/ channel[StopTarget].PnpStarted
    BY <1>1, StopBeginsCloseIsAllowed
  <2>2. BeginsClose(StopTarget, "stop", target_offline)
    BY <1>1 DEF StopBeginsClose
  <2> HIDE DEF target_offline
  <2> QED BY <2>1, <2>2, BeginsCloseKeepsGeneration
<1>2. CASE StopEndsClose
  <2>1. StopTarget \in Channels
    BY DEF StopTarget, Channels
  <2>2. PICK success \in BOOLEAN : EndsClose(StopTarget, "stop", success)
    BY <1>2 DEF StopEndsClose
  <2> QED BY <2>1, <2>2, EndsCloseKeepsGeneration
<1>3. CASE UNCHANGED channel
  BY <1>3
<1> QED BY <1>1, <1>2, <1>3 DEF StopStep, StopBegins, StopFindsIdle, StopFinishes, links

(* A generation never goes back, and a loss that the owner takes moves it on. *)
LEMMA PacketHolds ==
    ASSUME IInv, LinksHold, packet \in Packet, PacketSide, [Next]_vars
    PROVE  packet' \in Packet /\ PacketSide'
<1> DEFINE g == channel["Media"].Generation
           held == packet' \in Packet /\ PacketSide'
<1> USE DEF IInv
<1>1. /\ "Media" \in Channels /\ "Signaling" \in Channels /\ "Media" # "Signaling"
      /\ channel \in [Channels -> ChannelOwner] /\ g \in Nat
      /\ \A c \in Channels : ChannelInv(channel[c])
  BY DEF Channels, ChannelSide, ChannelOwner
<1>2. /\ packet.generation \in Nat /\ packet.lost \in BOOLEAN
      /\ packet.generation <= g /\ (packet.lost => packet.generation < g)
  BY DEF Packet, PacketSide
<1>3. ASSUME UNCHANGED packet, g' = g PROVE held
  BY <1>3 DEF PacketSide
<1>4. ASSUME NEW c \in Channels, NEW d, channel' = [channel EXCEPT ![c] = d],
             d.Generation = channel[c].Generation
      PROVE  g' = g
  BY <1>1, <1>4
<1>7. ASSUME NEW c \in Channels, NEW success \in BOOLEAN
      PROVE  OnCloseComplete(channel[c], success).Generation = channel[c].Generation
  BY <1>1, OnCloseCompleteKeepsGeneration
<1>9. ASSUME NEW c \in Channels, NEW d, NEW generation, ChannelInv(d),
             d.Generation = channel[c].Generation, TakesDisconnect(d, generation),
             channel' = [channel EXCEPT ![c] = OnRemoteDisconnect(d, generation)],
             PacketOutlives(c)
      PROVE  held
  <2>1. OnRemoteDisconnect(d, generation).Generation = channel[c].Generation + 1
    BY <1>9, OnRemoteDisconnectAnswers
  <2>2. CASE c = "Media"
    <3>1. g' = g + 1
      BY <1>1, <1>9, <2>1, <2>2
    <3>2. packet' = [packet EXCEPT !.lost = TRUE] \/ packet' = packet
      BY <1>9 DEF PacketOutlives
    <3>3. packet' \in Packet /\ packet'.generation = packet.generation
      BY <3>2 DEF Packet
    <3> QED BY <1>1, <1>2, <3>1, <3>3 DEF PacketSide
  <2>3. CASE c # "Media"
    <3>1. g' = g /\ packet' = packet
      BY <1>1, <1>9, <2>3 DEF PacketOutlives
    <3> QED BY <1>3, <3>1
  <2> QED BY <2>2, <2>3
<1>10. ASSUME NEW c \in Channels, OpenCompletes(c) PROVE held
  <2> DEFINE a == OnOpenComplete(channel[c], opening[c].generation, opening[c].at = "opened")
             lost == a.action = "None" /\ opening[c].at = "opened" /\ opening[c].lost
             told == OnRemoteDisconnect(a.owner, opening[c].generation)
             acquired == opening[c].at = "opened"
  <2>1. Linked(c) /\ opening[c].at \in {"opened", "failed"} /\ ChannelInv(channel[c])
    BY <1>1, <1>10 DEF LinksHold, LinkSide, OpenCompletes
  <2>2. channel[c].State = "Opening" /\ opening[c].generation = channel[c].Generation
    BY <2>1 DEF Linked, Unanswered
  <2>3. acquired \in BOOLEAN
    OBVIOUS
  <2> HIDE DEF acquired
  <2>4. a = OnOpenComplete(channel[c], channel[c].Generation, acquired)
    BY <2>2 DEF acquired
  <2>5. ChannelInv(a.owner)
    BY <2>1, <2>3, <2>4, OnOpenCompleteKeeps
  <2> HIDE DEF a
  <2>6. /\ a.owner.Generation = channel[c].Generation
        /\ a.action = "None" /\ acquired =>
              a.owner.State = "ChannelOpen" /\ a.owner.ChannelHeld /\ a.owner.PnpStarted
    BY <2>1, <2>2, <2>3, <2>4, OnOpenCompleteAnswers
  <2>7. /\ channel' = [channel EXCEPT ![c] = IF lost THEN told ELSE a.owner]
        /\ IF lost THEN PacketOutlives(c) ELSE UNCHANGED packet
    BY <1>10 DEF OpenCompletes, a, acquired
  <2>8. CASE lost
    <3>1. TakesDisconnect(a.owner, opening[c].generation)
      BY <2>2, <2>6, <2>8 DEF TakesDisconnect, acquired
    <3>2. channel' = [channel EXCEPT ![c] = told] /\ PacketOutlives(c)
      BY <2>7, <2>8
    <3> QED BY <1>9, <2>5, <2>6, <3>1, <3>2
  <2>9. CASE ~lost
    <3>1. channel' = [channel EXCEPT ![c] = a.owner] /\ UNCHANGED packet
      BY <2>7, <2>9
    <3>2. g' = g
      BY <1>4, <2>6, <3>1
    <3> QED BY <1>3, <3>1, <3>2
  <2> QED BY <2>8, <2>9
<1>11. ASSUME NEW c \in Channels, OpenWorkerCloses(c) PROVE held
  <2>1. PICK success \in BOOLEAN :
          channel' = [channel EXCEPT ![c] = OnCloseComplete(channel[c], success)]
    BY <1>1, <1>11 DEF OpenWorkerCloses
  <2>2. g' = g /\ UNCHANGED packet
    BY <1>4, <1>7, <1>11, <2>1 DEF OpenWorkerCloses, others
  <2> QED BY <1>3, <2>2
<1>12. ASSUME NEW c \in Channels, HeadsetDisconnects(c) PROVE held
  <2> DEFINE generation == channel[c].Generation
             taken == Drained(c) /\ TakesDisconnect(channel[c], generation)
             told == OnRemoteDisconnect(channel[c], generation)
  <2>1. /\ channel' = [channel EXCEPT ![c] = IF taken THEN told ELSE channel[c]]
        /\ IF taken THEN PacketOutlives(c) ELSE UNCHANGED packet
    BY <1>1, <1>12 DEF HeadsetDisconnects
  <2>2. CASE taken
    BY <1>1, <1>9, <2>1, <2>2
  <2>3. CASE ~taken
    BY <1>1, <1>3, <2>1, <2>3
  <2> QED BY <2>2, <2>3
<1>13. CASE ValidatesPacket
  <2>1. packet' = [generation |-> g, lost |-> FALSE] /\ g' = g
    BY <1>13 DEF ValidatesPacket, links
  <2> QED BY <1>1, <2>1 DEF Packet, PacketSide
<1>14. CASE WritesPacket
  <2>1. packet' = NoPacket /\ g' = g
    BY <1>14 DEF WritesPacket, links
  <2> QED BY <1>1, <2>1 DEF Packet, PacketSide, NoPacket
<1>15. CASE UNCHANGED <<packet, channel>>
  BY <1>3, <1>15
<1>16. CASE WorkerStep
  <2>1. UNCHANGED packet
    BY <1>16 DEF WorkerStep, WorkerTakes, WaitIsCancelled, WaitElapses, WorkerOpensSignaling,
       SignalingOpens, SignalingDoesNotOpen, WorkerDiscovers, WorkerOpensMedia, MediaOpens,
       WorkerExchanges, WorkerClosesStream, WorkerBeginsClose, WorkerEndsClose,
       WorkerCompletes, others
  <2>2. g' = g
    BY <1>16, WorkerStepKeepsGeneration
  <2> QED BY <1>3, <2>1, <2>2
<1>17. CASE StopStep
  <2>1. UNCHANGED packet
    BY <1>17 DEF StopStep, StopBegins, StopBeginsClose, StopEndsClose, StopFindsIdle,
       StopFinishes, others
  <2>2. g' = g
    BY <1>17, StopStepKeepsGeneration
  <2> QED BY <1>3, <2>1, <2>2
<1> HIDE DEF held
<1> QED BY <1>10, <1>11, <1>12, <1>13, <1>14, <1>15, <1>16, <1>17
        DEF Next, OpenIsAnswered, OpenWorkerReports, LossIsReported, WatchdogExpires, SetsIntent,
            RequestsRecovery, Finished, vars, links, others, held

(***************************************************************************)
(* The stop takes the channels away one after the other.                   *)
(***************************************************************************)

(* The lower driver, its workers and the headset do not start a channel again, and have *)
(* nothing to do with one that is gone.                                                 *)
Callback(c) ==
    OpenIsAnswered(c) \/ OpenCompletes(c) \/ OpenWorkerCloses(c) \/ OpenWorkerReports(c)
    \/ HeadsetDisconnects(c)

(* What is offline stays offline and what is gone stays gone. *)
LEMMA CallbackLeavesOffline ==
    ASSUME IInv, LinksHold, NEW c \in Channels, Callback(c), NEW e \in Channels
    PROVE  /\ ~channel[e].PnpStarted => ~channel'[e].PnpStarted
           /\ Gone(e) => Gone(e)'
           /\ UNCHANGED <<closing, stopping>>
<1> DEFINE left == /\ ~channel[e].PnpStarted => ~channel'[e].PnpStarted
                   /\ Gone(e) => Gone(e)'
                   /\ UNCHANGED <<closing, stopping>>
<1>1. /\ ChannelInv(channel[c]) /\ Linked(c) /\ channel \in [Channels -> ChannelOwner]
      /\ opening \in [Channels -> OpenRequest]
  BY LinkFacts DEF IInv, LinksHold, LinkTypes
<1>2. ASSUME NEW d, channel' = [channel EXCEPT ![c] = d], d.PnpStarted = channel[c].PnpStarted,
             opening[c].at # "none", \A f \in Channels \ {c} : opening'[f] = opening[f],
             UNCHANGED <<closing, stopping>>
      PROVE  left
  BY <1>1, <1>2 DEF Gone, Drained
<1>3. CASE OpenIsAnswered(c) \/ OpenWorkerReports(c)
  <2>1. /\ UNCHANGED <<channel, closing, stopping>> /\ opening[c].at # "none"
        /\ \A f \in Channels \ {c} : opening'[f] = opening[f]
    BY <1>1, <1>3 DEF OpenIsAnswered, OpenWorkerReports, others
  <2> QED BY <2>1 DEF Gone, Drained
<1>4. CASE OpenCompletes(c)
  <2> DEFINE request == opening[c]
             answer == OnOpenComplete(channel[c], request.generation, request.at = "opened")
             told == OnRemoteDisconnect(answer.owner, request.generation)
             lost == answer.action = "None" /\ request.at = "opened" /\ request.lost
             d == IF lost THEN told ELSE answer.owner
  <2>1. ChannelInv(channel[c]) /\ (request.at = "opened") \in BOOLEAN
    BY <1>1
  <2>2. ChannelInv(answer.owner) /\ answer.owner.PnpStarted = channel[c].PnpStarted
    BY <2>1, OnOpenCompleteKeeps
  <2>3. /\ channel' = [channel EXCEPT ![c] = d] /\ UNCHANGED <<closing, stopping>>
        /\ request.at # "none" /\ \A f \in Channels \ {c} : opening'[f] = opening[f]
    BY <1>1, <1>4 DEF OpenCompletes
  <2> HIDE DEF answer
  <2>4. ChannelInv(told) /\ told.PnpStarted = answer.owner.PnpStarted
    BY <2>2, OnRemoteDisconnectKeeps
  <2> HIDE DEF told, lost
  <2>5. d.PnpStarted = channel[c].PnpStarted
    BY <2>2, <2>4
  <2> HIDE DEF d
  <2> QED BY <1>2, <2>3, <2>5
<1>5. CASE OpenWorkerCloses(c)
  <2>1. PICK success \in BOOLEAN :
          channel' = [channel EXCEPT ![c] = OnCloseComplete(channel[c], success)]
    BY <1>1, <1>5 DEF OpenWorkerCloses
  <2>2. OnCloseComplete(channel[c], success).PnpStarted = channel[c].PnpStarted
    BY <1>1, OnCloseCompleteKeeps
  <2>3. /\ opening[c].at # "none" /\ \A f \in Channels \ {c} : opening'[f] = opening[f]
        /\ UNCHANGED <<closing, stopping>>
    BY <1>1, <1>5 DEF OpenWorkerCloses, others
  <2> QED BY <1>2, <2>1, <2>2, <2>3
<1>6. CASE HeadsetDisconnects(c)
  <2> DEFINE generation == channel[c].Generation
             taken == Drained(c) /\ TakesDisconnect(channel[c], generation)
             told == OnRemoteDisconnect(channel[c], generation)
             d == IF taken THEN told ELSE channel[c]
  <2>1. told.PnpStarted = channel[c].PnpStarted
    BY <1>1, OnRemoteDisconnectKeeps
  <2>2. taken => channel[c].State = "ChannelOpen"
    BY <1>1, OnRemoteDisconnectAnswers
  <2>3. /\ channel' = [channel EXCEPT ![c] = d] /\ UNCHANGED <<closing, stopping>>
        /\ opening'[e].at = opening[e].at
    BY <1>1, <1>6 DEF HeadsetDisconnects, OpenRequest
  <2> HIDE DEF told, taken
  <2>4. d.PnpStarted = channel[c].PnpStarted /\ (channel[c].State = "Offline" => d = channel[c])
    BY <2>1, <2>2
  <2> HIDE DEF d
  <2> QED BY <1>1, <2>3, <2>4 DEF Gone, Drained
<1> HIDE DEF left
<1> QED BY <1>3, <1>4, <1>5, <1>6 DEF Callback, left

(* A close that takes a channel offline leaves the other one alone. *)
LEMMA BeginsCloseLeavesOffline ==
    ASSUME ChannelSide, MutexSide, LinksHold, NEW c \in Channels, NEW by,
           NEW target_offline \in BOOLEAN, target_offline \/ channel[c].PnpStarted,
           BeginsClose(c, by, target_offline)
    PROVE  /\ target_offline => ~channel'[c].PnpStarted
           /\ \A e \in Channels \ {c} :
                 channel'[e] = channel[e] /\ closing'[e] = closing[e] /\ (Gone(e) => Gone(e)')
<1> DEFINE a == RequestClose(channel[c], target_offline)
           step == IF a.action = "SubmitClose" THEN "brb" ELSE "drain"
<1>1. ChannelInv(channel[c]) /\ channel \in [Channels -> ChannelOwner]
  BY DEF ChannelSide
<1>2. a.owner.PnpStarted <=> channel[c].PnpStarted /\ ~target_offline
  BY <1>1, RequestCloseAnswers
<1>3. /\ channel' = [channel EXCEPT ![c] = a.owner]
      /\ closing' = [closing EXCEPT ![c] = [by |-> by, step |-> step]]
      /\ opening' = [opening EXCEPT ![c].at = "cancelled"] \/ opening' = opening
  BY DEF BeginsClose
<1> HIDE DEF a, step
<1>4. channel'[c] = a.owner
  BY <1>1, <1>3
<1>5. ASSUME NEW e \in Channels \ {c}
      PROVE  /\ channel'[e] = channel[e] /\ closing'[e] = closing[e]
             /\ opening'[e] = opening[e]
  BY <1>1, <1>3, <1>5 DEF MutexSide, LinksHold, LinkTypes
<1> QED BY <1>2, <1>4, <1>5 DEF Gone, Drained

(* Where a close that the stop has ended takes it. *)
LEMMA StopEndsCloseGoes ==
    ASSUME MutexSide, StopEndsClose
    PROVE  /\ StopTarget \in Channels /\ stopping \in StopCloses(StopTarget)
           /\ \/ stopping = "closeSignaling" /\ stopping' = "closeMedia"
              \/ stopping = "closeMedia" /\ stopping' = "waitIdle"
              \/ stopping = "stopSignaling" /\ stopping' = "stopMedia"
              \/ stopping = "stopMedia" /\ stopping' = "finish"
<1>1. StopTarget \in Channels
  BY DEF StopTarget, Channels
<1>2. stopping \in StopCloses(StopTarget)
  BY <1>1 DEF MutexSide, Holder, StopEndsClose, EndsClose
<1>3. stopping \in {"closeSignaling", "closeMedia", "stopSignaling", "stopMedia"}
  BY <1>2 DEF StopCloses
<1> QED BY <1>1, <1>2, <1>3 DEF StopEndsClose

(* Where the stop goes, and by which step. *)
LEMMA StopGoes ==
    ASSUME IInv, FieldSide, [Next]_vars
    PROVE  \/ UNCHANGED stopping
           \/ StopBegins /\ stopping = "no" /\ stopping' \in {"closeSignaling", "waitIdle"}
           \/ /\ StopEndsClose
              /\ \/ stopping = "closeSignaling" /\ stopping' = "closeMedia"
                 \/ stopping = "closeMedia" /\ stopping' = "waitIdle"
                 \/ stopping = "stopSignaling" /\ stopping' = "stopMedia"
                 \/ stopping = "stopMedia" /\ stopping' = "finish"
           \/ StopFindsIdle /\ stopping = "waitIdle" /\ stopping' = "stopSignaling"
           \/ StopFinishes /\ stopping = "finish" /\ stopping' = "stopped"
<1>1. CASE StopBegins
  BY <1>1 DEF StopBegins
<1>2. CASE StopEndsClose
  BY <1>2, StopEndsCloseGoes DEF IInv
<1>3. CASE StopFindsIdle
  BY <1>3 DEF StopFindsIdle
<1>4. CASE StopFinishes
  BY <1>4 DEF StopFinishes
<1>5. CASE ~StopBegins /\ ~StopEndsClose /\ ~StopFindsIdle /\ ~StopFinishes
  <2>1. WorkerStep => UNCHANGED stopping
    BY WorkerPrecedesLastSteps DEF IInv
  <2>2. StopBeginsClose => UNCHANGED stopping
    BY DEF StopBeginsClose, others
  <2> QED BY <1>5, <2>1, <2>2
          DEF Next, StopStep, OpenIsAnswered, OpenCompletes, OpenWorkerCloses, OpenWorkerReports,
              HeadsetDisconnects, LossIsReported, WatchdogExpires, SetsIntent, RequestsRecovery,
              ValidatesPacket, WritesPacket, Finished, vars, others
<1> QED BY <1>1, <1>2, <1>3, <1>4, <1>5

(* So every step keeps what the stop has achieved. *)
LEMMA StopSideHolds ==
    ASSUME IInv, FieldSide, LinksHold, StopSide, [Next]_vars
    PROVE  StopSide' /\ stopping' \in {"no", "closeSignaling", "closeMedia", "waitIdle"} \cup LastSteps
<1> DEFINE Held(c) == closing[c].by = "stop" /\ stopping \in {"stopSignaling", "stopMedia"}
                         => ~channel[c].PnpStarted
<1>1. /\ stopping' \in {"no", "closeSignaling", "closeMedia", "waitIdle"} \cup LastSteps
      /\ device'.started <=> stopping' # "stopped"
  <2>1. stopping' \in {"no", "closeSignaling", "closeMedia", "waitIdle"} \cup LastSteps
    BY StopGoes DEF FieldSide, LastSteps
  <2>2. CASE StopFinishes
    <3>1. device'.started = FALSE /\ stopping' = "stopped"
      BY <2>2 DEF StopFinishes, FieldSide, Device
    <3> QED BY <2>1, <3>1
  <2>3. CASE ~StopFinishes
    <3>1. device'.started = device.started
      BY <2>3, DeviceHolds
    <3>2. stopping' = "stopped" <=> stopping = "stopped"
      BY <2>3, StopGoes
    <3> QED BY <2>1, <3>1, <3>2 DEF StopSide
  <2> QED BY <2>2, <2>3
<1>2. /\ closing \in [Channels -> Holder] /\ "Signaling" \in Channels /\ "Media" \in Channels
      /\ \A c \in Channels : closing[c].by = "stop" => stopping \in StopCloses(c)
      /\ StopCloses("Media") = {"closeMedia", "stopMedia"}
      /\ StopCloses("Signaling") = {"closeSignaling", "stopSignaling"}
      /\ \A c \in Channels : c = "Signaling" \/ c = "Media"
      /\ \A c \in Channels : Held(c)
  BY DEF IInv, MutexSide, Channels, StopCloses, StopSide
<1>3. CASE stopping' \notin LastSteps
  BY <1>1, <1>3 DEF StopSide, LastSteps
<1>4. CASE stopping' \in LastSteps /\ StopFindsIdle
  <2>1. stopping = "waitIdle" /\ stopping' = "stopSignaling" /\ UNCHANGED closing
    BY <1>4 DEF StopFindsIdle, links
  <2>2. \A c \in Channels : closing'[c].by # "stop"
    BY <1>2, <2>1
  <2> QED BY <1>1, <2>1, <2>2 DEF StopSide
<1>5. CASE StopFinishes
  <2>1. stopping = "finish" /\ stopping' = "stopped" /\ UNCHANGED links
    BY <1>5 DEF StopFinishes
  <2> QED BY <1>1, <2>1 DEF StopSide, Gone, Drained, links
<1>6. CASE stopping' \in LastSteps /\ StopEndsClose
  <2>1. PICK c \in Channels : c = StopTarget
    BY <1>6, StopEndsCloseGoes DEF IInv
  <2>2. /\ stopping \in StopCloses(c)
        /\ \/ c = "Signaling" /\ stopping = "stopSignaling" /\ stopping' = "stopMedia"
           \/ c = "Media" /\ stopping = "stopMedia" /\ stopping' = "finish"
    BY <1>6, <2>1, StopEndsCloseGoes DEF IInv, StopTarget, LastSteps
  <2>3. PICK success \in BOOLEAN : EndsClose(c, "stop", success)
    BY <1>6, <2>1 DEF StopEndsClose
  <2>4. UNCHANGED opening
    BY <1>6 DEF StopEndsClose
  <2>5. closing[c].by = "stop" /\ ~channel[c].PnpStarted
    BY <1>2, <2>2, <2>3 DEF EndsClose
  <2>6. Gone(c)' /\ \A e \in Channels \ {c} : channel'[e] = channel[e]
    BY <2>3, <2>4, <2>5, EndsCloseLinks DEF IInv
  <2>7. \A e \in Channels \ {c} : Gone(e) => Gone(e)'
    BY <2>4, <2>6 DEF Gone, Drained
  <2>8. \A e \in Channels : closing'[e].by # "stop"
    BY <1>2, <2>2, <2>3 DEF EndsClose, NotClosing
  <2>9. \/ c = "Signaling" /\ stopping' = "stopMedia" /\ Gone("Signaling")'
        \/ /\ c = "Media" /\ stopping' = "finish" /\ Gone("Media")' /\ Gone("Signaling")'
    BY <1>2, <2>2, <2>6, <2>7 DEF StopSide
  <2> QED BY <1>1, <2>8, <2>9 DEF StopSide
<1>7. CASE stopping' \in LastSteps /\ StopBeginsClose
  <2> DEFINE target_offline == stopping \in {"stopSignaling", "stopMedia"}
  <2>1. stopping' = stopping
    BY <1>7 DEF StopBeginsClose, others
  <2>2. stopping \in {"stopSignaling", "stopMedia"}
    BY <1>7, <2>1 DEF StopBeginsClose, LastSteps
  <2>3. /\ StopTarget \in Channels /\ target_offline \in BOOLEAN
        /\ target_offline \/ channel[StopTarget].PnpStarted
    BY <1>7, StopBeginsCloseIsAllowed
  <2>4. BeginsClose(StopTarget, "stop", target_offline)
    BY <1>7 DEF StopBeginsClose
  <2>5. target_offline
    BY <2>2
  <2> HIDE DEF target_offline
  <2>6. /\ ~channel'[StopTarget].PnpStarted
        /\ \A e \in Channels \ {StopTarget} :
              channel'[e] = channel[e] /\ closing'[e] = closing[e] /\ (Gone(e) => Gone(e)')
    BY <2>3, <2>4, <2>5, BeginsCloseLeavesOffline DEF IInv
  <2>7. StopTarget = IF stopping = "stopSignaling" THEN "Signaling" ELSE "Media"
    BY <2>2 DEF StopTarget
  <2> QED BY <1>1, <1>2, <2>1, <2>2, <2>3, <2>6, <2>7 DEF StopSide
<1>8. ASSUME stopping' = stopping,
             \A c \in Channels : /\ ~channel[c].PnpStarted => ~channel'[c].PnpStarted
                                 /\ Gone(c) => Gone(c)'
                                 /\ closing'[c] = closing[c]
      PROVE  StopSide'
  <2>1. \A c \in Channels : Held(c)'
    BY <1>2, <1>8
  <2>2. /\ stopping' \in {"stopMedia", "finish", "stopped"} => Gone("Signaling")'
        /\ stopping' \in {"finish", "stopped"} => Gone("Media")'
    BY <1>2, <1>8 DEF StopSide
  <2> QED BY <1>1, <2>1, <2>2 DEF StopSide
<1>9. ASSUME NEW c \in Channels, Callback(c) PROVE StopSide'
  BY <1>8, <1>9, CallbackLeavesOffline
<1>10. CASE stopping' = stopping /\ UNCHANGED links
  <2>1. stopping' = stopping /\ UNCHANGED <<channel, opening, closing>>
    BY <1>10 DEF links
  <2>2. /\ Gone("Signaling") => Gone("Signaling")'
        /\ Gone("Media") => Gone("Media")'
    BY <2>1 DEF Gone, Drained
  <2> QED BY <1>1, <2>1, <2>2 DEF StopSide
<1>11. CASE stopping' \in LastSteps
  <2>1. ~WorkerStep
    BY <1>11, WorkerPrecedesLastSteps DEF IInv
  <2>2. ~StopBegins
    BY <1>11 DEF StopBegins, LastSteps
  <2>3. CASE StopStep
    BY <1>4, <1>5, <1>6, <1>7, <1>11, <2>2, <2>3 DEF StopStep
  <2>4. ASSUME NEW intent \in Intents, SetsIntent(intent)
        PROVE  stopping' = stopping /\ UNCHANGED links
    BY <2>4 DEF SetsIntent
  <2>5. CASE LossIsReported \/ WatchdogExpires \/ RequestsRecovery
    BY <1>10, <2>5 DEF LossIsReported, WatchdogExpires, RequestsRecovery, others
  <2>6. CASE ValidatesPacket \/ WritesPacket \/ Finished \/ UNCHANGED vars
    BY <1>10, <2>6 DEF ValidatesPacket, WritesPacket, Finished, vars, links
  <2> QED BY <1>1, <1>9, <1>10, <2>1, <2>3, <2>4, <2>5, <2>6 DEF Next, Callback
<1> QED BY <1>1, <1>3, <1>11

(***************************************************************************)
(* The session has its channels.                                           *)
(***************************************************************************)

(* A session that is to be cancelled, has failed or is gone need not be backed. *)
LEMMA CancelledIsBacked ==
    ASSUME SteerSide',
           \/ owner'.TransportState \in {"Closed", "Faulted", "Offline"} /\ owner'.PendingAction # "Open"
           \/ owner'.TransportState \in {"Faulted", "Offline"}
           \/ owner'.PendingAction = "CancelAndClose"
    PROVE  BackedSide'
<1>1. owner'.PendingAction = "Open" => owner'.TransportState = "Closed"
  BY DEF SteerSide, Planned, PendingFits, StartsFrom
<1> QED BY <1>1 DEF BackedSide

(* A session that is asked to stop need not be backed. *)
LEMMA StoppingIsBacked ==
    ASSUME OwnerSide', SteerSide', owner'.StopRequested
    PROVE  BackedSide'
<1>1. owner'.TransportState = "Offline" \/ owner'.PendingAction = "CancelAndClose"
  BY DEF OwnerSide, OwnerInv, OwnerIsConsistent
<1> QED BY <1>1, CancelledIsBacked

(* Nobody loses an open channel, nobody moves, and no report is over. *)
LEMMA BackedRests ==
    ASSUME BackedSide, UNCHANGED <<owner, worker>>, device.render => device'.render,
           Quiet' => Quiet, \A c \in Channels : IsOpen(c) => IsOpen(c)'
    PROVE  BackedSide'
<1>1. /\ Quiet' /\ owner'.TransportState \in {"Open", "Streaming"}
         /\ owner'.PendingAction \notin {"Close", "CancelAndClose"}
      => device'.render /\ \A c \in Channels : IsOpen(c)'
  BY DEF BackedSide
<1>2. owner'.PendingAction = "Open" /\ Quiet' =>
          /\ worker'.pc \in {"discover", "openMedia", "mediaWait"} => IsOpen("Signaling")'
          /\ worker'.pc = "complete" /\ worker'.ok => \A c \in Channels : IsOpen(c)'
  BY DEF BackedSide, Channels
<1> QED BY <1>1, <1>2 DEF BackedSide

(* An open request or a close that ends leaves a channel that was not open. *)
LEMMA AnswersKeepBacked ==
    ASSUME IInv, LinksHold, BackedSide, UNCHANGED <<owner, worker, device>>, NEW c \in Channels,
           OpenIsAnswered(c) \/ OpenCompletes(c) \/ OpenWorkerCloses(c)
    PROVE  BackedSide'
<1>1. /\ Linked(c) /\ opening[c] \in OpenRequest /\ opening \in [Channels -> OpenRequest]
      /\ channel \in [Channels -> ChannelOwner]
  BY LinkFacts DEF IInv, LinksHold, LinkTypes
<1>2. /\ notices' = notices /\ opening[c].at # "reporting"
      /\ \A e \in Channels \ {c} : opening'[e] = opening[e]
  BY <1>1 DEF OpenIsAnswered, OpenCompletes, OpenWorkerCloses, others
<1>3. Quiet' => Quiet
  BY <1>2 DEF Quiet
<1>4. ASSUME NEW e \in Channels, IsOpen(e) PROVE IsOpen(e)'
  <2>1. CASE OpenIsAnswered(c)
    BY <1>4, <2>1 DEF OpenIsAnswered, IsOpen
  <2>2. CASE OpenCompletes(c) \/ OpenWorkerCloses(c)
    <3>1. channel[c].State \in {"Opening", "Closing"}
      BY <1>1, <2>2 DEF OpenCompletes, OpenWorkerCloses, Linked, Unanswered
    <3>2. e # c
      BY <1>4, <3>1 DEF IsOpen
    <3>3. channel'[e] = channel[e]
      BY <1>1, <2>2, <3>2 DEF OpenCompletes, OpenWorkerCloses
    <3> QED BY <1>4, <3>3 DEF IsOpen
  <2> QED BY <2>1, <2>2
<1> QED BY <1>3, <1>4, BackedRests

(* A channel that is lost is reported. *)
LEMMA HeadsetDisconnectsKeepsBacked ==
    ASSUME IInv, FieldSide, LinksHold, BackedSide, SteerSide', OwnerSide', NEW c \in Channels,
           HeadsetDisconnects(c)
    PROVE  BackedSide'
<1> DEFINE generation == channel[c].Generation
           taken == Drained(c) /\ TakesDisconnect(channel[c], generation)
<1>1. /\ channel' = [channel EXCEPT ![c] = IF taken THEN OnRemoteDisconnect(channel[c], generation)
                                           ELSE channel[c]]
      /\ notices' = notices + (IF taken /\ stopping = "no" THEN 1 ELSE 0)
      /\ \A e \in Channels : opening'[e].at = opening[e].at
      /\ UNCHANGED <<owner, device, worker, stopping>> /\ notices \in Nat
      /\ channel \in [Channels -> ChannelOwner]
  BY DEF HeadsetDisconnects, FieldSide, OpenRequest, IInv, ChannelSide
<1>2. CASE stopping # "no"
  <2>1. owner'.StopRequested
    BY <1>1, <1>2 DEF OwnerSide
  <2> QED BY <2>1, StoppingIsBacked
<1> HIDE DEF taken
<1>3. CASE taken /\ stopping = "no"
  <2>1. notices' # 0
    BY <1>1, <1>3
  <2> QED BY <2>1 DEF BackedSide, Quiet
<1>4. CASE ~taken
  <2>1. channel' = channel /\ notices' = notices
    BY <1>1, <1>4
  <2>2. Quiet' => Quiet
    BY <1>1, <2>1 DEF Quiet
  <2> QED BY <1>1, <2>1, <2>2, BackedRests DEF IsOpen
<1> QED BY <1>2, <1>3, <1>4

(* A change of the intent plans for a session at rest only. *)
LEMMA SetsIntentKeepsBacked ==
    ASSUME IInv, FieldSide, SteerSide, BackedSide, NEW intent \in Intents, SetsIntent(intent)
    PROVE  BackedSide'
<1> DEFINE s == SetKsIntent(owner, intent)
<1> USE DEF SteerSide
<1>1. OwnerInv(owner) /\ ~owner.StopRequested
  BY DEF IInv, OwnerSide, SetsIntent, Listens
<1>2. /\ Planned(s) /\ s.TransportState = owner.TransportState
      /\ owner.PendingAction # "None" => s.PendingAction = owner.PendingAction
  BY <1>1, SetKsIntentPlans
<1>3. /\ owner' = s /\ worker' = Queued(s) /\ device'.render = device.render
      /\ UNCHANGED <<channel, opening, notices>>
  BY DEF SetsIntent, Owns, FieldSide, Device, links
<1>4. (Quiet' <=> Quiet) /\ \A c \in Channels : IsOpen(c)' <=> IsOpen(c)
  BY <1>3 DEF Quiet, IsOpen
<1>5. worker' = worker \/ worker'.pc = "take"
  BY <1>3 DEF Queued, IdleWorker
<1> HIDE DEF s
<1>6. CASE owner.PendingAction = "None"
  <2>1. owner.ActiveAction = "None"
    BY <1>6 DEF Planned, PendingFits
  <2>2. worker'.pc \in {"idle", "take"}
    BY <1>5, <2>1 DEF IInv, OwnerSide
  <2>3. owner'.TransportState \in {"Open", "Streaming"} /\ Quiet' =>
          device'.render /\ \A c \in Channels : IsOpen(c)'
    BY <1>2, <1>3, <1>4, <1>6 DEF BackedSide
  <2> QED BY <2>2, <2>3 DEF BackedSide
<1>7. CASE owner.PendingAction # "None"
  <2>1. owner'.PendingAction = owner.PendingAction /\ owner'.TransportState = owner.TransportState
    BY <1>2, <1>3, <1>7
  <2>2. (/\ owner'.TransportState \in {"Open", "Streaming"}
         /\ owner'.PendingAction \notin {"Close", "CancelAndClose"} /\ Quiet')
        => device'.render /\ \A c \in Channels : IsOpen(c)'
    BY <1>3, <1>4, <2>1 DEF BackedSide
  <2>3. owner'.PendingAction = "Open" /\ Quiet' =>
          /\ worker'.pc \in {"discover", "openMedia", "mediaWait"} => IsOpen("Signaling")'
          /\ worker'.pc = "complete" /\ worker'.ok => \A c \in Channels : IsOpen(c)'
    BY <1>4, <1>5, <2>1 DEF BackedSide, Channels
  <2> QED BY <2>2, <2>3 DEF BackedSide
<1> QED BY <1>6, <1>7

(* Taking an action moves the worker to its first step, with no channel touched. *)
LEMMA WorkerTakesKeepsBacked ==
    ASSUME IInv, FieldSide, SteerSide, BackedSide, WorkerTakes
    PROVE  BackedSide'
<1> DEFINE s == TakeAction(owner)
           pc == FirstStep(s.ActiveAction)
           claims == device.render \/ s.ActiveAction \in {"Open", "Start", "Suspend"}
<1>1. OwnerInv(owner) /\ owner.WorkerOwned /\ owner.ActiveAction = "None"
  BY DEF IInv, OwnerSide, SteerSide, WorkerSide, WorkerTakes
<1>2. /\ s.TransportState = owner.TransportState /\ s.PendingAction = owner.PendingAction
      /\ s.ActiveAction \in Actions
  BY <1>1, TakeActionPlans DEF SteerSide, OwnerInv, DispatchOwner
<1>3. /\ owner' = s
      /\ worker' = IF s.ActiveAction = "None" THEN IdleWorker
                   ELSE [IdleWorker EXCEPT !.pc = pc, !.ok = pc # "complete"]
      /\ device' = [device EXCEPT !.render = claims]
      /\ UNCHANGED <<channel, opening, notices>>
  BY DEF WorkerTakes, FieldSide, Device, links, others
<1>4. s.ActiveAction # "None" =>
          pc \in {"settle", "exchange", "complete", "graceful", "closeMedia"}
  BY <1>2 DEF FirstStep, Actions
<1>5. device.render => device'.render
  <2>1. device'.render = claims
    BY <1>3 DEF FieldSide, Device
  <2> QED BY <2>1
<1> HIDE DEF s, pc, claims
<1>6. /\ worker'.pc \notin {"discover", "openMedia", "mediaWait"}
      /\ worker'.pc = "complete" => ~worker'.ok
  BY <1>3, <1>4 DEF IdleWorker
<1>7. (Quiet' <=> Quiet) /\ \A c \in Channels : IsOpen(c)' <=> IsOpen(c)
  BY <1>3 DEF Quiet, IsOpen
<1>8. (/\ owner'.TransportState \in {"Open", "Streaming"}
       /\ owner'.PendingAction \notin {"Close", "CancelAndClose"} /\ Quiet')
      => device'.render /\ \A c \in Channels : IsOpen(c)'
  BY <1>2, <1>3, <1>5, <1>7 DEF BackedSide
<1> QED BY <1>6, <1>8 DEF BackedSide

(* A result that leaves a session open is that of an open that has both channels, or of a *)
(* START or SUSPEND that began with them.                                                 *)
LEMMA WorkerCompletesKeepsBacked ==
    ASSUME IInv, FieldSide, SteerSide, BackedSide, WorkerCompletes
    PROVE  BackedSide'
<1> DEFINE s == CompleteAction(owner, worker.ok)
           claimed == device.render /\ channel["Signaling"].State # "Closed"
<1>1. /\ worker.pc = "complete" /\ OwnerInv(owner) /\ owner.ActiveAction # "None"
      /\ worker.ok \in BOOLEAN
  BY OwnerTyped DEF IInv, WorkerCompletes, OwnerSide
<1>2. Completed(owner, worker.ok, s)
  BY <1>1, CompleteActionPlans DEF SteerSide
<1>3. /\ owner' = s /\ UNCHANGED <<channel, opening, notices>>
  BY DEF WorkerCompletes, links, others
<1>4. worker'.pc = "take"
  BY DEF WorkerCompletes, IdleWorker
<1>5. device.render /\ channel["Signaling"].State # "Closed" => device'.render
  <2>1. device'.render = claimed
    BY DEF WorkerCompletes, FieldSide, Device
  <2> QED BY <2>1
<1> HIDE DEF s
<1>6. (Quiet' <=> Quiet) /\ \A c \in Channels : IsOpen(c)' <=> IsOpen(c)
  BY <1>3 DEF Quiet, IsOpen
<1>7. ASSUME owner'.TransportState \in {"Open", "Streaming"},
             owner'.PendingAction \notin {"Close", "CancelAndClose"}, Quiet'
      PROVE  device'.render /\ \A c \in Channels : IsOpen(c)'
  <2>1. /\ worker.ok /\ owner.PendingAction = owner.ActiveAction
        /\ owner.ActiveAction \in {"Open", "Start", "Suspend"}
    BY <1>2, <1>3, <1>7 DEF Completed
  <2>2. device.render
    BY <2>1 DEF SteerSide, WorkerSide
  <2>3. \A c \in Channels : IsOpen(c)
    <3>1. CASE owner.ActiveAction = "Open"
      BY <1>1, <1>6, <1>7, <2>1, <3>1 DEF BackedSide
    <3>2. CASE owner.ActiveAction \in {"Start", "Suspend"}
      <4>1. owner.TransportState \in {"Open", "Streaming"}
        BY <2>1, <3>2 DEF SteerSide, Planned, PendingFits, StartsFrom
      <4> QED BY <1>6, <1>7, <2>1, <3>2, <4>1 DEF BackedSide
    <3> QED BY <2>1, <3>1, <3>2
  <2>4. channel["Signaling"].State # "Closed"
    BY <2>3 DEF Channels, IsOpen
  <2> QED BY <1>5, <1>6, <2>2, <2>3, <2>4
<1> QED BY <1>4, <1>7 DEF BackedSide

(* An open is asked for where no report is under way. *)
LEMMA OpensIsQuiet ==
    ASSUME ChannelSide, MutexSide, LinksHold, MutexFree("Media"), Opens("Media"), UNCHANGED notices
    PROVE  (Quiet' => Quiet) /\ channel'["Signaling"] = channel["Signaling"]
<1> DEFINE a == RequestOpen(channel["Media"])
<1>1. /\ "Media" \in Channels /\ "Signaling" \in Channels /\ "Media" # "Signaling"
      /\ channel \in [Channels -> ChannelOwner] /\ opening \in [Channels -> OpenRequest]
      /\ ChannelInv(channel["Media"]) /\ Linked("Media")
  BY LinkFacts DEF Channels, LinksHold, LinkTypes
<1>2. /\ channel' = [channel EXCEPT !["Media"] = a.owner]
      /\ a.action # "SubmitOpen" => opening' = opening
      /\ \A e \in Channels \ {"Media"} : opening'[e] = opening[e]
  BY <1>1 DEF Opens
<1>3. a.action = "SubmitOpen" => channel["Media"].State = "Closed"
  BY <1>1, RequestOpenAnswers
<1>4. a.action = "SubmitOpen" => opening["Media"].at # "reporting"
  BY <1>1, <1>3 DEF Linked
<1> HIDE DEF a
<1> QED BY <1>1, <1>2, <1>4 DEF Quiet

(* While an action goes on only the worker opens and closes channels, and it closes none *)
(* that the session still counts on.                                                     *)
LEMMA WorkerGoesKeepsBacked ==
    ASSUME IInv, FieldSide, LinksHold, SteerSide, BackedSide, WorkerGoes
    PROVE  BackedSide'
<1> USE DEF SteerSide
<1>1. /\ UNCHANGED <<owner, notices>> /\ device'.render = device.render
  BY WorkerGoesFrame
<1>2. ASSUME worker.pc \notin {"idle", "take"}
      PROVE  /\ owner.PendingAction \in {owner.ActiveAction, "CancelAndClose"}
             /\ owner.PendingAction = "Open" => owner.TransportState = "Closed"
  BY <1>2 DEF IInv, OwnerSide, Planned, PendingFits, StartsFrom
<1>3. ASSUME worker.pc \notin {"idle", "take"}, owner.ActiveAction \in {"Close", "CancelAndClose"}
      PROVE  BackedSide'
  BY <1>1, <1>2, <1>3 DEF BackedSide
<1>4. ASSUME worker.pc \notin {"idle", "take"}, owner.ActiveAction = "Open",
             owner.PendingAction = "Open" /\ Quiet' =>
                /\ worker'.pc \in {"discover", "openMedia", "mediaWait"} => IsOpen("Signaling")'
                /\ worker'.pc = "complete" /\ worker'.ok => \A c \in Channels : IsOpen(c)'
      PROVE  BackedSide'
  BY <1>1, <1>2, <1>4 DEF BackedSide
<1>5. ASSUME UNCHANGED <<channel, opening>>
      PROVE  (Quiet' <=> Quiet) /\ \A c \in Channels : IsOpen(c)' <=> IsOpen(c)
  BY <1>1, <1>5 DEF Quiet, IsOpen
<1>6. /\ worker \in Worker /\ (worker.pc \in OpenSteps => owner.ActiveAction = "Open")
      /\ "Signaling" \in Channels /\ "Media" \in Channels
      /\ \A c \in Channels : c = "Signaling" \/ c = "Media"
  BY DEF IInv, OwnerSide, WorkerSide, Channels
<1> USE DEF OpenSteps
<1>7. CASE WaitIsCancelled
  <2>1. worker.pc \in {"settle", "retryWait"} /\ worker'.pc = "complete" /\ ~worker'.ok
    BY <1>6, <1>7 DEF WaitIsCancelled, Fails, Worker
  <2> QED BY <1>4, <1>6, <2>1
<1>8. CASE WaitElapses
  <2>1. worker.pc \in {"settle", "retryWait"} /\ worker'.pc = "open"
    BY <1>6, <1>8 DEF WaitElapses, Worker
  <2> QED BY <1>4, <1>6, <2>1
<1>9. CASE WorkerOpensSignaling
  <2>1. worker.pc = "open" /\ worker'.pc \in {"openWait", "reset"}
    BY <1>6, <1>9 DEF WorkerOpensSignaling, Worker
  <2> QED BY <1>4, <1>6, <2>1
<1>10. CASE SignalingOpens
  <2>1. /\ worker.pc = "openWait" /\ worker'.pc = "discover" /\ IsOpen("Signaling")
        /\ UNCHANGED <<channel, opening>>
    BY <1>6, <1>10 DEF SignalingOpens, Goes, Worker, links
  <2> QED BY <1>4, <1>5, <1>6, <2>1
<1>11. CASE SignalingDoesNotOpen
  <2>1. worker.pc = "openWait" /\ worker'.pc = "reset"
    BY <1>6, <1>11 DEF SignalingDoesNotOpen, Worker
  <2> QED BY <1>4, <1>6, <2>1
<1>12. CASE WorkerDiscovers
  <2>1. /\ worker.pc = "discover" /\ worker'.pc \in {"openMedia", "closeMedia"}
        /\ UNCHANGED <<channel, opening>>
    BY <1>6, <1>12 DEF WorkerDiscovers, Goes, Fails, Worker, links
  <2>2. owner.PendingAction = "Open" /\ Quiet' => IsOpen("Signaling")'
    BY <1>5, <1>6, <2>1 DEF BackedSide
  <2> QED BY <1>4, <1>6, <2>1, <2>2
<1>13. CASE WorkerOpensMedia
  <2>1. /\ worker.pc = "openMedia" /\ worker'.pc \in {"mediaWait", "closeMedia"}
        /\ MutexFree("Media")
        /\ Opens("Media") \/ UNCHANGED <<channel, opening>>
    BY <1>6, <1>13 DEF WorkerOpensMedia, Goes, Fails, Worker
  <2>2. owner.PendingAction = "Open" /\ Quiet => IsOpen("Signaling")
    BY <2>1 DEF BackedSide
  <2>3. CASE Opens("Media")
    <3>1. (Quiet' => Quiet) /\ channel'["Signaling"] = channel["Signaling"]
      BY <1>1, <1>6, <2>1, <2>3, OpensIsQuiet DEF IInv
    <3> QED BY <1>4, <1>6, <2>1, <2>2, <3>1 DEF IsOpen
  <2>4. CASE UNCHANGED <<channel, opening>>
    BY <1>4, <1>5, <1>6, <2>1, <2>2, <2>4
  <2> QED BY <2>1, <2>3, <2>4
<1>14. CASE MediaOpens
  <2>1. /\ worker.pc = "mediaWait" /\ UNCHANGED <<channel, opening>>
        /\ \/ worker'.pc = "complete" /\ IsOpen("Media")
           \/ worker'.pc = "closeMedia"
    BY <1>6, <1>14 DEF MediaOpens, Goes, Fails, Worker, links
  <2>2. owner.PendingAction = "Open" /\ Quiet' => IsOpen("Signaling")
    BY <1>5, <2>1 DEF BackedSide
  <2>3. owner.PendingAction = "Open" /\ Quiet' /\ worker'.pc = "complete" =>
            \A c \in Channels : IsOpen(c)'
    BY <1>5, <1>6, <2>1, <2>2
  <2> QED BY <1>4, <1>6, <2>1, <2>3
<1>15. CASE WorkerExchanges
  <2>1. worker.pc = "exchange" /\ UNCHANGED <<channel, opening>>
    BY <1>15 DEF WorkerExchanges, links
  <2>2. owner.PendingAction \in {"Start", "Suspend", "CancelAndClose"}
    BY <1>2, <2>1 DEF WorkerSide
  <2> QED BY <1>1, <1>5, <2>1, <2>2 DEF BackedSide
<1>16. CASE WorkerClosesStream
  <2>1. worker.pc = "graceful"
    BY <1>16 DEF WorkerClosesStream
  <2> QED BY <1>3, <2>1 DEF WorkerSide
<1>17. ASSUME NEW c \in Channels, WorkerBeginsClose(c)
       PROVE  BackedSide'
  <2>1. worker.pc \in {"closeMedia", "closeSignaling", "reset"} /\ worker' = worker
    BY <1>17 DEF WorkerBeginsClose
  <2> QED BY <1>3, <1>4, <1>6, <2>1 DEF WorkerSide
<1>18. ASSUME NEW c \in Channels, WorkerEndsClose(c)
       PROVE  BackedSide'
  <2>1. worker.pc \in {"closeMedia", "closeSignaling", "reset"} /\ EndedClose
    BY <1>18, WorkerEndsCloseGoesOn DEF IInv
  <2>2. CASE owner.ActiveAction = "Open"
    <3>1. worker.pc = "reset" \/ ~worker.ok
      BY <2>1, <2>2 DEF WorkerSide
    <3>2. /\ worker'.pc \in {"closeSignaling", "complete", "retryWait"}
          /\ worker'.pc = "complete" => ~worker'.ok
      BY <2>1, <3>1 DEF EndedClose
    <3> QED BY <1>4, <2>1, <2>2, <3>2
  <2> QED BY <1>3, <1>6, <2>1, <2>2 DEF WorkerSide
<1> QED BY <1>7, <1>8, <1>9, <1>10, <1>11, <1>12, <1>13, <1>14, <1>15, <1>16, <1>17, <1>18
        DEF WorkerGoes

(* So every step keeps an open session backed or its loss on the way. *)
LEMMA BackedSideHolds ==
    ASSUME IInv, FieldSide, LinksHold, StopSide, SteerSide, BackedSide, [Next]_vars
    PROVE  BackedSide'
<1>1. OwnerSide' /\ SteerSide'
  BY OwnerSideHolds, SteerSideHolds DEF IInv
<1>2. CASE WorkerStep
  <2>1. WorkerTakes \/ WorkerGoes \/ WorkerCompletes
    BY <1>2 DEF WorkerStep, WorkerGoes
  <2> QED BY <2>1, WorkerTakesKeepsBacked, WorkerGoesKeepsBacked, WorkerCompletesKeepsBacked
<1>3. CASE StopStep
  <2>1. stopping' # "no"
    <3>1. CASE StopBegins \/ StopBeginsClose
      BY <3>1 DEF StopBegins, StopBeginsClose, others
    <3>2. CASE StopEndsClose
      BY <3>2, StopEndsCloseGoes DEF IInv
    <3>3. CASE StopFindsIdle \/ StopFinishes
      BY <3>3 DEF StopFindsIdle, StopFinishes
    <3> QED BY <1>3, <3>1, <3>2, <3>3 DEF StopStep
  <2> QED BY <1>1, <2>1, StoppingIsBacked DEF OwnerSide
<1>4. ASSUME NEW c \in Channels, OpenIsAnswered(c) \/ OpenCompletes(c) \/ OpenWorkerCloses(c)
      PROVE  BackedSide'
  <2>1. UNCHANGED <<owner, worker, device>>
    BY <1>4 DEF OpenIsAnswered, OpenCompletes, OpenWorkerCloses
  <2> QED BY <1>4, <2>1, AnswersKeepBacked
<1>5. ASSUME NEW c \in Channels, HeadsetDisconnects(c)
      PROVE  BackedSide'
  BY <1>1, <1>5, HeadsetDisconnectsKeepsBacked
<1>6. CASE HearsDisconnect
  BY <1>6, HearsDisconnectSteers, CancelledIsBacked DEF IInv
<1>7. CASE WatchdogExpires
  BY <1>7, WatchdogExpiresSteers, CancelledIsBacked DEF IInv
<1>8. ASSUME NEW intent \in Intents, SetsIntent(intent)
      PROVE  BackedSide'
  BY <1>8, SetsIntentKeepsBacked
<1>9. CASE RequestsRecovery
  BY <1>9, RequestsRecoverySteers, CancelledIsBacked DEF IInv
<1>10. CASE ValidatesPacket \/ WritesPacket \/ Finished \/ UNCHANGED vars
  <2>1. UNCHANGED <<owner, worker, device, channel, opening, notices>>
    BY <1>10 DEF ValidatesPacket, WritesPacket, Finished, vars, links
  <2>2. (Quiet' => Quiet) /\ \A c \in Channels : IsOpen(c) => IsOpen(c)'
    BY <2>1 DEF Quiet, IsOpen
  <2> QED BY <2>1, <2>2, BackedRests
<1>11. ASSUME NEW c \in Channels, OpenWorkerReports(c)
       PROVE  BackedSide'
  BY <1>6, <1>11 DEF OpenWorkerReports
<1>12. CASE LossIsReported
  BY <1>6, <1>12 DEF LossIsReported
<1> QED BY <1>2, <1>3, <1>4, <1>5, <1>7, <1>8, <1>9, <1>10, <1>11, <1>12 DEF Next

(* The parts of SInv are inductive together. *)
LEMMA SessionStep == SInv /\ [Next]_vars => SInv'
<1> SUFFICES ASSUME SInv, [Next]_vars PROVE SInv'
  OBVIOUS
<1>1. /\ IInv /\ FieldSide /\ SteerSide /\ LinksHold /\ StopSide /\ PacketSide /\ BackedSide
      /\ packet \in Packet
  BY DEF SInv, SteerSide, LinksHold, LinkTypes, FieldSide
<1>2. IInv'
  BY <1>1, OwnerSideHolds, ChannelSideHolds, MutexSideHolds DEF IInv
<1>3. SteerSide' /\ LinksHold' /\ BackedSide'
  BY <1>1, SteerSideHolds, LinksHoldOn, BackedSideHolds
<1>4. /\ StopSide'
      /\ stopping' \in {"no", "closeSignaling", "closeMedia", "waitIdle"} \cup LastSteps
  BY <1>1, StopSideHolds
<1>5. packet' \in Packet /\ PacketSide'
  BY <1>1, PacketHolds
<1>6. device' \in Device
  BY <1>1, DeviceHolds
<1>7. used' \in Used /\ notices' \in Nat /\ notices' <= used'.disconnects
  BY <1>1, CountsHold
<1>8. FieldSide'
  BY <1>3, <1>4, <1>5, <1>6, <1>7 DEF FieldSide, LinksHold, LinkTypes, LastSteps
<1> QED BY <1>2, <1>3, <1>4, <1>5, <1>8 DEF SInv, SteerSide, LinksHold

(* The owners, the worker, the channels, the stop and the packets fit together after every *)
(* lock section, whatever order the threads of the driver take them in.                    *)
THEOREM SessionFits == Spec => []SInv
BY SessionInit, SessionStep, PTL DEF Spec

(* The types, with the bounds on attempts and notices. *)
LEMMA SessionTyped == SInv => TypeOK
<1> SUFFICES ASSUME SInv PROVE TypeOK
  OBVIOUS
<1>1. owner \in DispatchOwner /\ worker \in Worker /\ channel \in [Channels -> ChannelOwner]
      /\ closing \in [Channels -> Holder]
  BY DEF SInv, IInv, OwnerSide, OwnerInv, ChannelSide, MutexSide
<1>2. FieldSide
  BY DEF SInv
<1>3. worker \in [pc : Places, ok : BOOLEAN, attempt : 0 .. MaxOpenAttempts, transient : BOOLEAN]
  <2>1. worker.attempt \in Nat /\ worker.attempt <= MaxOpenAttempts /\ MaxOpenAttempts \in Nat
    BY <1>1, DirectPdoConstants DEF SInv, WorkerSide, Worker
  <2> QED BY <1>1, <2>1 DEF Worker
<1>4. notices \in 0 .. MaxDisconnects
  <2>1. used.disconnects \in 0 .. MaxDisconnects /\ MaxDisconnects \in Nat
    BY <1>2, DirectPdoConstants DEF FieldSide, Used
  <2> QED BY <1>2, <2>1 DEF FieldSide
<1> QED BY <1>1, <1>2, <1>3, <1>4 DEF TypeOK, FieldSide, Device, Packet, Used, Places, Holder, LastSteps

(* What the runs check of the session follows. *)
LEMMA SessionIsSafe == SInv => SessionInvariant
<1> SUFFICES ASSUME SInv PROVE SessionInvariant
  OBVIOUS
<1>1. IInv /\ Planned(owner) /\ WorkerSide /\ LinkSide /\ StopSide /\ FaultSide /\ BackedSide
  BY DEF SInv
<1>2. NoForgottenChannel
  BY <1>1 DEF NoForgottenChannel, LinkSide, Linked
<1>3. StopLeavesNothing
  <2>1. SUFFICES ASSUME stopping = "stopped"
                 PROVE  /\ owner.TransportState = "Offline" /\ ~owner.WorkerOwned
                        /\ \A c \in Channels : channel[c].State = "Offline" /\ Drained(c) /\ ~air[c]
    BY DEF StopLeavesNothing
  <2>2. owner.StopRequested /\ worker.pc = "idle" /\ OwnerInv(owner)
    BY <1>1, <2>1 DEF IInv, OwnerSide, LastSteps
  <2>3. ~owner.WorkerOwned /\ owner.PendingAction = "None"
    BY <1>1, <2>2 DEF WorkerSide, OwnerInv, OwnerIsConsistent
  <2>4. owner.TransportState = "Offline"
    BY <2>2, <2>3 DEF OwnerInv, OwnerIsConsistent
  <2>5. ASSUME NEW c \in Channels
        PROVE  channel[c].State = "Offline" /\ Drained(c) /\ ~air[c]
    <3>1. Gone(c) /\ Linked(c)
      BY <1>1, <2>1 DEF StopSide, LinkSide, Channels
    <3>2. ~channel[c].ChannelHeld
      BY <1>1, <3>1 DEF IInv, ChannelSide, ChannelInv, ChannelIsConsistent, Gone
    <3> QED BY <3>1, <3>2 DEF Gone, Linked, Drained
  <2> QED BY <2>3, <2>4, <2>5
<1>4. RestIsDone
  <2>1. SUFFICES ASSUME ~owner.WorkerOwned, owner.TransportState \notin {"Faulted", "Offline"}
                 PROVE  owner.TransportState =
                          CASE owner.KsIntent = "Stopped" -> "Closed"
                            [] owner.KsIntent = "Acquired" -> "Open"
                            [] owner.KsIntent = "Running" -> "Streaming"
    BY DEF RestIsDone
  <2>2. OwnerInv(owner) /\ owner.PendingAction = "None"
    BY <1>1, <2>1 DEF IInv, OwnerSide, OwnerInv, OwnerIsConsistent
  <2>3. owner.PnpStarted
    BY <2>1, <2>2 DEF OwnerInv, OwnerIsConsistent
  <2>4. NextAction(owner) = "None"
    BY <1>1, <2>1, <2>2, <2>3 DEF Planned
  <2>5. owner.KsIntent \in Intents /\ owner.TransportState \in {"Closed", "Open", "Streaming"}
    BY <2>1, <2>2 DEF OwnerInv, DispatchOwner
  <2> QED BY <2>3, <2>4, <2>5 DEF NextAction, Intents
<1>5. SessionIsBacked
  BY <1>1 DEF SessionIsBacked, BackedSide, Quiet
<1>6. FaultHasReason
  BY <1>1 DEF FaultHasReason, FaultSide
<1> QED BY <1>2, <1>3, <1>4, <1>5, <1>6, SessionTyped DEF SessionInvariant, SInv

(* A session that counts as open has both channels and its claim, or its loss is on the way; *)
(* a streaming one is watched, a fault has a reason, a worker at rest owes nothing, and the  *)
(* stop leaves no channel behind.                                                            *)
THEOREM SessionHolds == Spec => []SessionInvariant
BY SessionFits, SessionIsSafe, PTL

(* The second check of a packet is enough: a media channel that the headset has taken away *)
(* has moved its generation on, so a packet validated before that is not written after it. *)
THEOREM PacketsStayOnTheirLink == Spec => NoWriteAcrossLinks
<1>1. SInv /\ [Next]_vars => [WritesPacket /\ SendsPacket => ~packet.lost]_vars
  <2>1. SUFFICES ASSUME SInv, WritesPacket, SendsPacket, packet.lost PROVE FALSE
    OBVIOUS
  <2>2. /\ packet.generation < channel["Media"].Generation
        /\ channel["Media"].Generation = packet.generation
        /\ channel["Media"].Generation \in Nat
    BY <2>1 DEF SInv, PacketSide, SendsPacket, IInv, ChannelSide, ChannelOwner, Channels
  <2> QED BY <2>2
<1> QED BY <1>1, SessionFits, PTL DEF Spec, NoWriteAcrossLinks
=============================================================================
