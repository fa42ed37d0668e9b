------------------------------ MODULE DirectPdo ------------------------------
(***************************************************************************)
(* The render path of the direct-PDO driver over one PnP lifetime:         *)
(* direct-pdo/src/nativeldac_direct_pdo_dispatcher.c drives a Signaling    *)
(* and a Media channel (nativeldac_bth_signaling.c) with one work item,    *)
(* while PortCls callbacks, the Bluetooth stack, the watchdog timer, the   *)
(* agent's requests and the PnP stop run on threads of their own.          *)
(*                                                                         *)
(* A step is a section under a spin lock, or what a thread does until the  *)
(* next.  A thread that closes, writes or exchanges commands holds the     *)
(* channel's OperationMutex; only a close spans several steps.             *)
(*                                                                         *)
(* Left out: AVDTP commands (an exchange succeeds or fails), addresses and *)
(* MTUs, the diagnostic client, which nothing calls (render is granted the *)
(* arbiter whenever it asks), and the status and jack notifications.       *)
(***************************************************************************)
EXTENDS BthChannel, DirectPdoSession

CONSTANTS
    MaxOpenAttempts,  \* NLD_DIRECT_PDO_OPEN_MAX_ATTEMPTS, 5 in the code
    MaxIntents,       \* bound: changes of the KS state
    MaxDisconnects,   \* bound: channels the headset takes away
    MaxRecoveries,    \* bound: recovery requests that are accepted
    MaxPackets        \* bound: media packets that pass the first check

ASSUME DirectPdoConstants ==
    /\ MaxOpenAttempts \in Nat \ {0}
    /\ {MaxIntents, MaxDisconnects, MaxRecoveries, MaxPackets} \subseteq Nat

VARIABLES
    owner,     \* Owner: the session and its action
    device,    \* the other fields of the dispatcher's context
    worker,    \* the work item
    stopping,  \* the PnP stop
    channel,   \* the two channel owners
    opening,   \* the NLD_BTH_ASYNC_OPEN_REQUEST of each channel
    closing,   \* who holds the OperationMutex to close, and what it waits for
    air,       \* the L2CAP channels that exist and that a request stands for
    notices,   \* disconnect callbacks fetched and not yet called
    packet,    \* a media packet between its two checks, and (history) whether the
               \* headset has taken the media channel away since the first
    used       \* the bounds spent

vars == <<owner, device, worker, stopping, channel, opening, closing, air, notices, packet,
          used>>

(* The channels, and what the worker leaves alone. *)
links == <<channel, opening, closing, air>>
others == <<stopping, notices, packet, used>>

Channels == {"Signaling", "Media"}

(* opened, failed: the BRB is complete, its worker has not run.  reporting: that worker *)
(* is about to call the disconnect callback.  closing: it closes what it acquired.      *)
(* lost: RemoteDisconnected.                                                            *)
OpenRequest ==
    [at : {"none", "sent", "cancelled", "opened", "failed", "reporting", "closing"},
     generation : Nat, lost : BOOLEAN]

NoRequest == [at |-> "none", generation |-> 0, lost |-> FALSE]

TypeOK ==
    /\ owner \in DispatchOwner
    /\ device \in [started : BOOLEAN,        \* Started
                   render : BOOLEAN,         \* ArbiterGeneration # 0
                   avdtp : BOOLEAN,          \* AvdtpInitialized
                   retryEvent : BOOLEAN,     \* OpenRetryEvent
                   watchdog : Nat,           \* its generation while armed, else 0
                   failure : {"None", "RemoteDisconnect", "MediaTimeout", "Backend"}]
    /\ worker \in [pc : {"idle", "take", "settle", "open", "openWait", "reset", "retryWait",
                         "discover", "openMedia", "mediaWait", "exchange", "graceful",
                         "closeMedia", "closeSignaling", "complete"},
                   ok : BOOLEAN, attempt : 0 .. MaxOpenAttempts, transient : BOOLEAN]
    /\ stopping \in {"no", "closeSignaling", "closeMedia", "waitIdle", "stopSignaling",
                     "stopMedia", "finish", "stopped"}
    /\ channel \in [Channels -> ChannelOwner]
    /\ opening \in [Channels -> OpenRequest]
    /\ closing \in [Channels -> [by : {"nobody", "worker", "stop"},
                                 step : {"none", "drain", "brb"}]]
    /\ air \in [Channels -> BOOLEAN]
    /\ notices \in 0 .. MaxDisconnects
    /\ packet \in [generation : Nat, lost : BOOLEAN]
    /\ used \in [intents : 0 .. MaxIntents, disconnects : 0 .. MaxDisconnects,
                 recoveries : 0 .. MaxRecoveries,
                 packets : 0 .. MaxPackets]

NotClosing == [by |-> "nobody", step |-> "none"]
NoPacket == [generation |-> 0, lost |-> FALSE]
IdleWorker == [pc |-> "idle", ok |-> FALSE, attempt |-> 0, transient |-> FALSE]

(* The adapter has started: NldDirectPdoDispatcherStart after both channels. *)
Init ==
    /\ owner = OnPnpStart(InitialOwner)
    /\ device = [started |-> TRUE, render |-> FALSE, avdtp |-> FALSE, retryEvent |-> FALSE,
                 watchdog |-> 0, failure |-> "None"]
    /\ worker = IdleWorker /\ stopping = "no"
    /\ channel = [c \in Channels |-> ChannelStarted(InitialChannel)]
    /\ opening = [c \in Channels |-> NoRequest]
    /\ closing = [c \in Channels |-> NotClosing]
    /\ air = [c \in Channels |-> FALSE]
    /\ notices = 0 /\ packet = NoPacket
    /\ used = [intents |-> 0, disconnects |-> 0, recoveries |-> 0, packets |-> 0]

(* A work item is queued in the lock section that raised WorkerOwned. *)
Queued(s) == IF s.WorkerOwned /\ ~owner.WorkerOwned
             THEN [IdleWorker EXCEPT !.pc = "take"] ELSE worker

Owns(s) == owner' = s /\ worker' = Queued(s)

Drained(c) == opening[c].at = "none"
MutexFree(c) == closing[c].by = "nobody"
IsOpen(c) == channel[c].State = "ChannelOpen"
Streaming == owner.TransportState = "Streaming" /\ owner.KsIntent = "Running"
-----------------------------------------------------------------------------
(* One channel: nativeldac_bth_signaling.c *)

PacketOutlives(c) ==
    packet' = IF c = "Media" /\ packet # NoPacket THEN [packet EXCEPT !.lost = TRUE] ELSE packet

(* NldBthSignalingOpen, once its request is allocated. *)
Opens(c) ==
    LET asked == RequestOpen(channel[c])
    IN  /\ channel' = [channel EXCEPT ![c] = asked.owner]
        /\ opening' = IF asked.action # "SubmitOpen" THEN opening
                      ELSE [opening EXCEPT ![c] =
                              [at |-> "sent", generation |-> asked.owner.Generation,
                               lost |-> FALSE]]

(* The lower driver completes the open; a cancelled one may have won the race. *)
OpenIsAnswered(c) ==
    /\ opening[c].at \in {"sent", "cancelled"}
    /\ \E success \in BOOLEAN :
         /\ opening' = [opening EXCEPT ![c].at = IF success THEN "opened" ELSE "failed"]
         /\ air' = [air EXCEPT ![c] = success]
    /\ UNCHANGED <<owner, device, worker, channel, closing, others>>

(* NldBthSignalingOpenWorker up to the end of its lock section.  The channel may have *)
(* been lost before the open was seen to complete.  A disconnect callback is there    *)
(* until the stop takes it away.  Transfers are not modelled, and so neither is the    *)
(* transfer owner's refusal of a channel (NldBthTransferOpenChannel), which may fall    *)
(* when one of the channel before is still pending: the channel would be closed again.  *)
OpenCompletes(c) ==
    /\ opening[c].at \in {"opened", "failed"}
    /\ LET request == opening[c]
           answer == OnOpenComplete(channel[c], request.generation, request.at = "opened")
           lost == answer.action = "None" /\ request.at = "opened" /\ request.lost
       IN  /\ channel' = [channel EXCEPT ![c] =
                            IF lost THEN OnRemoteDisconnect(answer.owner, request.generation)
                            ELSE answer.owner]
           /\ IF lost THEN PacketOutlives(c) ELSE UNCHANGED packet
           /\ opening' = [opening EXCEPT ![c] =
                            CASE answer.action = "SubmitClose" -> [request EXCEPT !.at = "closing"]
                              [] lost /\ stopping = "no" -> [request EXCEPT !.at = "reporting"]
                              [] OTHER -> NoRequest]
    /\ UNCHANGED <<owner, device, worker, stopping, closing, air, notices, used>>

(* A CLOSE BRB that fails or times out leaves the channel to the stack for good. *)
OpenWorkerCloses(c) ==
    /\ opening[c].at = "closing"
    /\ air' = [air EXCEPT ![c] = FALSE]
    /\ \E success \in BOOLEAN :
         channel' = [channel EXCEPT ![c] = OnCloseComplete(@, success)]
    /\ opening' = [opening EXCEPT ![c] = NoRequest]
    /\ UNCHANGED <<owner, device, worker, closing, others>>

(* The headset takes a channel away: NldBthSignalingIndicationCallback. *)
HeadsetDisconnects(c) ==
    /\ air[c] /\ used.disconnects < MaxDisconnects
    /\ used' = [used EXCEPT !.disconnects = @ + 1]
    /\ air' = [air EXCEPT ![c] = FALSE]
    /\ LET generation == channel[c].Generation
           taken == Drained(c) /\ TakesDisconnect(channel[c], generation)
       IN  /\ channel' = [channel EXCEPT ![c] =
                            IF taken THEN OnRemoteDisconnect(@, generation) ELSE @]
           /\ IF taken THEN PacketOutlives(c) ELSE UNCHANGED packet
           /\ opening' = [opening EXCEPT ![c].lost = ~Drained(c)]
           /\ notices' = notices + (IF taken /\ stopping = "no" THEN 1 ELSE 0)
    /\ UNCHANGED <<owner, device, worker, stopping, closing>>

(* NldBthSignalingCloseInternal: by takes the mutex and waits for the open it cancelled *)
(* or for its CLOSE BRB.                                                                *)
BeginsClose(c, by, target_offline) ==
    LET asked == RequestClose(channel[c], target_offline)
    IN  /\ MutexFree(c)
        /\ channel' = [channel EXCEPT ![c] = asked.owner]
        /\ opening' = IF asked.action = "CancelOpen" /\ opening[c].at = "sent"
                      THEN [opening EXCEPT ![c].at = "cancelled"] ELSE opening
        /\ closing' = [closing EXCEPT ![c] =
                         [by |-> by, step |-> IF asked.action = "SubmitClose"
                                              THEN "brb" ELSE "drain"]]

(* The rest of it; success is its status.  A CLOSE BRB that fails takes the channel    *)
(* from the driver as one that succeeds does; whether the stack still has it is not    *)
(* followed.                                                                           *)
EndsClose(c, by, success) ==
    /\ closing[c].by = by /\ Drained(c)
    /\ closing' = [closing EXCEPT ![c] = NotClosing]
    /\ IF closing[c].step = "brb"
       THEN /\ air' = [air EXCEPT ![c] = FALSE]
            /\ channel' = [channel EXCEPT ![c] = OnCloseComplete(@, success)]
       ELSE success /\ UNCHANGED <<air, channel>>
-----------------------------------------------------------------------------
(* The work item: NldDirectPdoDispatcherWorker and what it executes *)

Goes(pc) == worker' = [worker EXCEPT !.pc = pc]
Fails(pc) == worker' = [worker EXCEPT !.pc = pc, !.ok = FALSE]

FirstStep(action) ==
    CASE action = "Open" -> "settle"
      [] action \in {"Start", "Suspend"} -> IF device.avdtp THEN "exchange" ELSE "complete"
      [] action = "Close" -> "graceful"
      [] action = "CancelAndClose" -> "closeMedia"

(* TakeAction and, for the actions that use the channels, AcquireRender. *)
WorkerTakes ==
    /\ worker.pc = "take"
    /\ LET s == TakeAction(owner)
           pc == FirstStep(s.ActiveAction)
       IN  /\ owner' = s
           /\ worker' = IF s.ActiveAction = "None" THEN IdleWorker
                        ELSE [IdleWorker EXCEPT !.pc = pc, !.ok = pc # "complete"]
           /\ device' = [device EXCEPT
                           !.render = @ \/ s.ActiveAction \in {"Open", "Start", "Suspend"}]
    /\ UNCHANGED <<others, links>>

(* A wait, to settle or between two attempts, that OpenRetryEvent ends. *)
WaitIsCancelled ==
    /\ worker.pc \in {"settle", "retryWait"} /\ device.retryEvent
    /\ device' = [device EXCEPT !.retryEvent = FALSE]
    /\ Fails("complete")
    /\ UNCHANGED <<owner, others, links>>

WaitElapses ==
    /\ worker.pc \in {"settle", "retryWait"}
    /\ worker' = [worker EXCEPT !.pc = "open", !.attempt = @ + 1]
    /\ UNCHANGED <<owner, device, others, links>>

(* STATUS_DEVICE_BUSY is transient, a request that cannot be allocated is not. *)
WorkerOpensSignaling ==
    /\ worker.pc = "open" /\ MutexFree("Signaling")
    /\ \/ /\ Opens("Signaling")
          /\ worker' = [worker EXCEPT !.pc = IF opening' # opening THEN "openWait" ELSE "reset",
                                      !.transient = TRUE]
       \/ /\ worker' = [worker EXCEPT !.pc = "reset", !.transient = FALSE]
          /\ UNCHANGED <<channel, opening>>
    /\ UNCHANGED <<owner, device, closing, air, others>>

(* WaitForRequestDrain: the open is complete, or has taken too long. *)
SignalingOpens ==
    /\ worker.pc = "openWait" /\ Drained("Signaling") /\ IsOpen("Signaling")
    /\ Goes("discover")
    /\ device' = [device EXCEPT !.avdtp = TRUE]
    /\ UNCHANGED <<owner, others, links>>

SignalingDoesNotOpen ==
    /\ worker.pc = "openWait" /\ ~(Drained("Signaling") /\ IsOpen("Signaling"))
    /\ \E transient \in BOOLEAN :
         /\ transient \/ Drained("Signaling")
         /\ worker' = [worker EXCEPT !.pc = "reset", !.transient = transient]
    /\ UNCHANGED <<owner, device, others, links>>

(* Commands and responses on the signaling channel. *)
Exchanges(success) == MutexFree("Signaling") /\ (success => IsOpen("Signaling"))

WorkerDiscovers ==
    /\ worker.pc = "discover"
    /\ \E success \in BOOLEAN :
         /\ Exchanges(success)
         /\ IF success THEN Goes("openMedia") ELSE Fails("closeMedia")
    /\ UNCHANGED <<owner, device, others, links>>

WorkerOpensMedia ==
    /\ worker.pc = "openMedia" /\ MutexFree("Media")
    /\ \/ /\ Opens("Media")
          /\ IF opening' # opening THEN Goes("mediaWait") ELSE Fails("closeMedia")
       \/ Fails("closeMedia") /\ UNCHANGED <<channel, opening>>
    /\ UNCHANGED <<owner, device, closing, air, others>>

MediaOpens ==
    /\ worker.pc = "mediaWait"
    /\ IF Drained("Media") /\ IsOpen("Media") THEN Goes("complete") ELSE Fails("closeMedia")
    /\ UNCHANGED <<owner, device, others, links>>

(* START or SUSPEND *)
WorkerExchanges ==
    /\ worker.pc = "exchange"
    /\ \E success \in BOOLEAN :
         /\ Exchanges(success)
         /\ worker' = [worker EXCEPT !.pc = "complete", !.ok = success]
    /\ UNCHANGED <<owner, device, others, links>>

(* What CloseSession does first for Close; CancelAndClose skips it. *)
WorkerClosesStream ==
    /\ worker.pc = "graceful"
    /\ \E success \in BOOLEAN :
         /\ device.avdtp => Exchanges(success)
         /\ ~device.avdtp => success
         /\ worker' = [worker EXCEPT !.pc = "closeMedia", !.ok = success]
    /\ UNCHANGED <<owner, device, others, links>>

WorkerBeginsClose(c) ==
    /\ worker.pc \in (IF c = "Media" THEN {"closeMedia"} ELSE {"closeSignaling", "reset"})
    /\ BeginsClose(c, "worker", FALSE)
    /\ UNCHANGED <<owner, device, worker, air, others>>

GivesUp == worker.attempt = MaxOpenAttempts \/ ~worker.transient

(* The rest of CloseSession, and the close between two attempts to open. *)
WorkerEndsClose(c) ==
    /\ \E success \in BOOLEAN :
         /\ EndsClose(c, "worker", success)
         /\ worker' =
              CASE worker.pc = "closeMedia" ->
                     [worker EXCEPT !.pc = "closeSignaling", !.ok = @ /\ success]
                [] worker.pc = "closeSignaling" ->
                     [worker EXCEPT !.pc = "complete", !.ok = @ /\ success]
                [] worker.pc = "reset" ->
                     IF GivesUp
                     THEN [worker EXCEPT !.pc = "complete", !.ok = FALSE]
                     ELSE [worker EXCEPT !.pc = "retryWait"]
    /\ device' = [device EXCEPT !.avdtp = @ /\ worker.pc # "closeSignaling"]
    /\ UNCHANGED <<owner, opening, others>>

(* The watchdog after the result of the active action left the owner as s. *)
WatchdogAfter(s) ==
    CASE owner.ActiveAction = "Start" /\ worker.ok /\ s.TransportState = "Streaming" ->
            s.Generation
      [] owner.ActiveAction \in {"Suspend", "Close", "CancelAndClose"} \/ ~worker.ok -> 0
      [] OTHER -> device.watchdog

(* ReleaseRenderIfClosed and the lock section of the result. *)
WorkerCompletes ==
    /\ worker.pc = "complete"
    /\ LET s == CompleteAction(owner, worker.ok)
       IN  /\ owner' = s
           /\ device' = [device EXCEPT
                           !.render = @ /\ channel["Signaling"].State # "Closed",
                           !.failure = IF @ = "None" /\ ~worker.ok THEN "Backend" ELSE @,
                           !.watchdog = WatchdogAfter(s)]
    /\ worker' = [IdleWorker EXCEPT !.pc = "take"]
    /\ UNCHANGED <<others, links>>

WorkerStep ==
    \/ WorkerTakes \/ WaitIsCancelled \/ WaitElapses
    \/ WorkerOpensSignaling \/ SignalingOpens \/ SignalingDoesNotOpen
    \/ WorkerDiscovers \/ WorkerOpensMedia \/ MediaOpens
    \/ WorkerExchanges \/ WorkerClosesStream
    \/ \E c \in Channels : WorkerBeginsClose(c) \/ WorkerEndsClose(c)
    \/ WorkerCompletes
-----------------------------------------------------------------------------
(* The callbacks: NldDirectPdoDispatcherTransportDisconnected and the others *)

Listens == device.started /\ ~owner.StopRequested

(* The lock section that every loss ends in. *)
LosesTransport(reason) ==
    /\ Owns(OnTransportLost(owner))
    /\ device' = [device EXCEPT !.watchdog = 0,
                                !.failure = IF @ = "None" THEN reason ELSE @]

HearsDisconnect ==
    IF Listens THEN LosesTransport("RemoteDisconnect") ELSE UNCHANGED <<owner, worker, device>>

(* A disconnect of an open channel; the callback ignores which one it was. *)
LossIsReported ==
    /\ notices > 0
    /\ notices' = notices - 1
    /\ HearsDisconnect
    /\ UNCHANGED <<links, stopping, packet, used>>

(* The open worker reports a channel that was lost before it was open, then drains. *)
OpenWorkerReports(c) ==
    /\ opening[c].at = "reporting"
    /\ opening' = [opening EXCEPT ![c] = NoRequest]
    /\ HearsDisconnect
    /\ UNCHANGED <<channel, closing, air, others>>

(* Three seconds without a packet: NldDirectPdoDispatcherCheckMediaWatchdog. *)
WatchdogExpires ==
    /\ device.watchdog # 0 /\ device.watchdog = owner.Generation
    /\ IF Listens THEN LosesTransport("MediaTimeout")
       ELSE device' = [device EXCEPT !.watchdog = 0] /\ UNCHANGED <<owner, worker>>
    /\ UNCHANGED <<links, others>>

(* PortCls moves the render pin by one KS state: NldDirectPdoDispatcherSetIntent. *)
SetsIntent(intent) ==
    /\ used.intents < MaxIntents /\ intent # owner.KsIntent
    /\ "Acquired" \in {intent, owner.KsIntent}
    /\ Listens
    /\ used' = [used EXCEPT !.intents = @ + 1]
    /\ Owns(SetKsIntent(owner, intent))
    /\ device' = IF intent = "Running" THEN device ELSE [device EXCEPT !.watchdog = 0]
    /\ UNCHANGED <<links, stopping, notices, packet>>

(* What NldDirectPdoDispatcherRequestRecovery asks of the driver. *)
AcceptsRecovery ==
    /\ device.failure # "None" /\ Listens
    /\ owner.TransportState = "Faulted" /\ owner.KsIntent = "Stopped"
    /\ ~owner.WorkerOwned /\ owner.ActiveAction = "None" /\ owner.PendingAction = "None"
    /\ ~device.render

RequestsRecovery ==
    /\ AcceptsRecovery /\ used.recoveries < MaxRecoveries
    /\ used' = [used EXCEPT !.recoveries = @ + 1]
    /\ Owns(Retry(owner))
    /\ device' = [device EXCEPT !.failure = "None"]
    /\ UNCHANGED <<links, stopping, notices, packet>>
-----------------------------------------------------------------------------
(* Media packets: NldDirectPdoDispatcherWriteMedia *)

(* The status that the packet is validated against carries the media generation. *)
ValidatesPacket ==
    /\ packet = NoPacket /\ used.packets < MaxPackets
    /\ Listens /\ Streaming /\ IsOpen("Media")
    /\ used' = [used EXCEPT !.packets = @ + 1]
    /\ packet' = [generation |-> channel["Media"].Generation, lost |-> FALSE]
    /\ UNCHANGED <<owner, device, worker, stopping, links, notices>>

SendsPacket == IsOpen("Media") /\ channel["Media"].Generation = packet.generation

(* NldBthSignalingWriteGeneration, under the mutex. *)
WritesPacket ==
    /\ packet # NoPacket /\ MutexFree("Media")
    /\ packet' = NoPacket
    /\ UNCHANGED <<owner, device, worker, stopping, links, notices, used>>
-----------------------------------------------------------------------------
(* PnP stops the device: NldDirectPdoDispatcherStop, then both channels *)

StopBegins ==
    /\ stopping = "no"
    /\ Owns(OnPnpStop(owner))
    /\ device' = [device EXCEPT !.retryEvent = TRUE]
    /\ stopping' = IF owner.ActiveAction # "None" THEN "closeSignaling" ELSE "waitIdle"
    /\ UNCHANGED <<links, notices, packet, used>>

StopTarget == IF stopping \in {"closeSignaling", "stopSignaling"} THEN "Signaling" ELSE "Media"

StopBeginsClose ==
    /\ stopping \in {"closeSignaling", "closeMedia", "stopSignaling", "stopMedia"}
    /\ BeginsClose(StopTarget, "stop", stopping \in {"stopSignaling", "stopMedia"})
    /\ UNCHANGED <<owner, device, worker, air, others>>

StopEndsClose ==
    /\ \E success \in BOOLEAN : EndsClose(StopTarget, "stop", success)
    /\ stopping' = CASE stopping = "closeSignaling" -> "closeMedia"
                     [] stopping = "closeMedia" -> "waitIdle"
                     [] stopping = "stopSignaling" -> "stopMedia"
                     [] stopping = "stopMedia" -> "finish"
    /\ UNCHANGED <<owner, device, worker, opening, notices, packet, used>>

(* IdleEvent: the worker has found nothing left to do. *)
StopFindsIdle ==
    /\ stopping = "waitIdle" /\ worker.pc = "idle"
    /\ stopping' = "stopSignaling"
    /\ UNCHANGED <<owner, device, worker, links, notices, packet, used>>

StopFinishes ==
    /\ stopping = "finish"
    /\ stopping' = "stopped"
    /\ device' = [device EXCEPT !.started = FALSE, !.render = FALSE, !.avdtp = FALSE,
                                !.failure = "None", !.watchdog = 0]
    /\ UNCHANGED <<owner, worker, links, notices, packet, used>>

StopStep ==
    StopBegins \/ StopBeginsClose \/ StopEndsClose \/ StopFindsIdle \/ StopFinishes

(* A stopped device has nothing left to do. *)
Finished == stopping = "stopped" /\ UNCHANGED vars

Next ==
    \/ WorkerStep \/ StopStep \/ Finished
    \/ \E c \in Channels :
          \/ OpenIsAnswered(c) \/ OpenCompletes(c) \/ OpenWorkerCloses(c)
          \/ OpenWorkerReports(c) \/ HeadsetDisconnects(c)
    \/ LossIsReported \/ WatchdogExpires
    \/ \E intent \in Intents : SetsIntent(intent)
    \/ RequestsRecovery \/ ValidatesPacket \/ WritesPacket

Spec == Init /\ [][Next]_vars

(* A thread runs on, and so does a callback that has begun; a cancelled open is  *)
(* answered.  The headset may leave any other open unanswered; whether it comes  *)
(* to a stop, a disconnect or a recovery is open.                                *)
Fairness ==
    /\ WF_vars(WorkerStep)
    /\ \A c \in Channels :
          /\ WF_vars(opening[c].at = "cancelled" /\ OpenIsAnswered(c))
          /\ WF_vars(OpenCompletes(c)) /\ WF_vars(OpenWorkerCloses(c))
          /\ WF_vars(OpenWorkerReports(c))
    /\ WF_vars(LossIsReported)
    /\ WF_vars(StopBeginsClose) /\ WF_vars(StopEndsClose)
    /\ WF_vars(StopFindsIdle) /\ WF_vars(StopFinishes)

FairSpec == Spec /\ Fairness
-----------------------------------------------------------------------------
(* What the driver's own tests assert of each owner by itself holds of the three *)
(* owners together, whatever the threads around them do.                         *)
Consistent == OwnerIsConsistent(owner) /\ \A c \in Channels : ChannelIsConsistent(channel[c])

(* The lower driver never keeps a channel that nobody here will close: the owner holds *)
(* it, or the open worker is about to hand it over or to close it.                     *)
NoForgottenChannel ==
    \A c \in Channels : air[c] => channel[c].ChannelHeld \/ opening[c].at \in {"opened", "closing"}

(* NldDirectPdoDispatcherStop returns with no work item, no open, no channel left. *)
StopLeavesNothing ==
    stopping = "stopped" =>
        /\ owner.TransportState = "Offline" /\ ~owner.WorkerOwned
        /\ \A c \in Channels : channel[c].State = "Offline" /\ Drained(c) /\ ~air[c]

(* A worker that rests has brought the transport where PortCls wants it, or to a fault. *)
RestIsDone ==
    ~owner.WorkerOwned =>
        owner.TransportState \in
            {"Faulted", "Offline",
             CASE owner.KsIntent = "Stopped" -> "Closed" [] owner.KsIntent = "Acquired" -> "Open"
               [] owner.KsIntent = "Running" -> "Streaming"}

(* While media is accepted and nothing is about to change that, the watchdog of this *)
(* very generation is armed: an engine that disappears is noticed.                   *)
StreamingIsWatched ==
    Streaming /\ owner.PendingAction = "None" => device.watchdog = owner.Generation

(* A session that counts as open, with no loss on its way to the dispatcher and no *)
(* action pending, has both of its channels, and the render client its claim.      *)
SessionIsBacked ==
    (/\ owner.TransportState \in {"Open", "Streaming"} /\ owner.PendingAction = "None"
     /\ notices = 0 /\ \A c \in Channels : opening[c].at # "reporting")
    => device.render /\ \A c \in Channels : IsOpen(c)

(* A packet validated on a channel that the headset has taken away since is not written *)
(* on the channel that replaces it.                                                     *)
NoWriteAcrossLinks == [][WritesPacket /\ SendsPacket => ~packet.lost]_vars

(* A fault always has a reason that a recovery request can name. *)
FaultHasReason == owner.TransportState = "Faulted" => device.failure # "None"

(* A session that counts as open is backed by channels and watched, whoever lost or     *)
(* closed one; at rest nothing is owed, and a stopped device keeps nothing.              *)
SessionInvariant ==
    /\ TypeOK
    /\ NoForgottenChannel
    /\ StopLeavesNothing
    /\ RestIsDone
    /\ StreamingIsWatched
    /\ SessionIsBacked
    /\ FaultHasReason

(* A PnP stop returns, whatever the worker and the headset were doing. *)
StopReturns == stopping # "no" ~> stopping = "stopped"

(* The work item always comes to an end. *)
WorkerRests == owner.WorkerOwned ~> ~owner.WorkerOwned

(* Work that was begun ends, the stop's and the work item's. *)
WorkEnds == StopReturns /\ WorkerRests

(* direct-pdo/README.md:19, "fail closed until an explicit retry creates a new         *)
(* generation": with KS stopped, the worker at rest and no channel that was lost or     *)
(* failed to close, the retry is accepted.                                              *)
(* It does not hold (README.md, Further disagreements).                                  *)
FaultIsRecoverable ==
    (/\ owner.TransportState = "Faulted" /\ owner.KsIntent = "Stopped" /\ ~owner.WorkerOwned
     /\ stopping = "no" /\ \A c \in Channels : channel[c].State # "Faulted")
    => AcceptsRecovery
=============================================================================
