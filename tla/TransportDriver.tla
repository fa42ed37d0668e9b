--------------------------- MODULE TransportDriver ---------------------------
(* The profile driver (driver/sys/connection.c, device.c): one signaling and one  *)
(* media L2CAP channel to one headset.  Its parallel IOCTL queue, the completion  *)
(* routines, the stack's indications, the rundown work item, PnP and file clean-up *)
(* interleave at the granularity of SignalingLock sections; OperationLock         *)
(* serializes registration, rundown, CLOSE_CHANNELS and the two shutdowns.        *)
(*                                                                                *)
(* Left out: buffers, MTUs, diagnostics, addresses; a BRB that cannot be allocated *)
(* is one that cannot be sent.  The stack delivers a channel's indications in     *)
(* order.  An application has one request of a kind outstanding at a time.        *)
EXTENDS Naturals, FiniteSets

CONSTANTS
    Slots,        \* the kinds of request the application sends
    MaxConnects,  \* bound: channels the headset opens
    MaxSuspends,  \* bound: PnP suspends
    MaxTails      \* bound: completions of one kind still to set their event

Transfers == {"read", "write", "mediaWrite"}

(* A read waits for the headset.  The other requests are sent with a timeout, but for *)
(* the answer to a connection of the headset's, which the stack is assumed to end.    *)
Timeless == {"read"}

ASSUME SlotsAssumption == Slots \subseteq Transfers \cup {"mediaOpen"}
ASSUME BoundsAssumption == {MaxConnects, MaxSuspends, MaxTails} \subseteq Nat

VARIABLES
    pnp,           \* the PnP callbacks
    shuttingDown,  \* ShuttingDown
    server,        \* the inbound AVDTP server
    rundown,       \* the work item that unregisters the server
    op,            \* what the owner of OperationLock is doing
    sig, media,    \* SignalingState, MediaState
    request,       \* the requests whose pointer the context keeps, and their events
    openPc,        \* OPEN_SIGNALING
    file,          \* the exclusive file handle
    air,           \* the channels that exist in the Bluetooth stack
    lapses,        \* history: a CLOSE BRB failed and left its channel to the stack; a server
                   \* was declared fresh while its channel was up
    connects, suspends

vars == <<pnp, shuttingDown, server, rundown, op, sig, media, request, openPc, file,
          air, lapses, connects, suspends>>

Requests == Slots \cup {"incoming"}

ChannelState == {"Disconnected", "Connecting", "Connected", "Disconnecting"}

(* ok is NT_SUCCESS(SignalingServerRundownStatus), ready the INBOUND_SIGNALING_READY flag. *)
Server == [handle : BOOLEAN, draining : BOOLEAN, ok : BOOLEAN, ready : BOOLEAN]

(* claimed: the pointer is set, the BRB not yet sent.  opened: the stack has opened *)
(* the channel, the completion has not run.  failing: the completion of OPEN_MEDIA   *)
(* has cleared the pointer, not yet reset the channel.  tails: completions that have *)
(* answered the application, which may call again, and have still to set the event.  *)
(* The completion of an incoming channel sets its event before the headset, a radio  *)
(* round trip away, can ask for the next.                                            *)
Request == [at : {"none", "claimed", "sent", "opened", "failing"}, cancelled : BOOLEAN,
            event : BOOLEAN, tails : 0 .. MaxTails]

(* The owner of OperationLock, the step it is at, the requests it cancels and awaits. *)
Operation ==
    [owner : {"free", "file", "pnp", "close"},
     step : {"none", "cancel", "cancelMediaOpen", "waitMediaOpen", "cancelIncoming",
             "waitIncoming", "waitTransfers", "closeMedia", "closingMedia",
             "closeSignaling", "closingSignaling", "release"},
     awaited : SUBSET Requests]

LockFree == op.owner = "free"
NoOp == [owner |-> "free", step |-> "none", awaited |-> {}]

TypeOK ==
    /\ pnp \in {"down", "registering", "started", "suspending", "unregistered", "shutdown",
                "flushing", "failed"}
    /\ shuttingDown \in BOOLEAN
    /\ server \in Server
    /\ rundown \in {"idle", "queued", "unregistered", "failed"}
    /\ op \in Operation
    /\ LockFree <=> op.step = "none"
    /\ sig \in ChannelState /\ media \in ChannelState
    /\ request \in [Requests -> Request]
    /\ openPc \in {"idle", "flush", "check", "register", "claim", "incoming", "reuse", "outbound"}
    /\ file \in {"closed", "open", "owner", "cleanup", "cleaning"}
    /\ air \in [sig : BOOLEAN, media : BOOLEAN]
    /\ lapses \subseteq {"closeFailed", "refreshed"}
    /\ connects \in 0 .. MaxConnects /\ suspends \in 0 .. MaxSuspends

Init ==
    /\ pnp = "down" /\ shuttingDown = TRUE
    /\ server = [handle |-> FALSE, draining |-> FALSE, ok |-> TRUE, ready |-> FALSE]
    /\ rundown = "idle" /\ op = NoOp
    /\ sig = "Disconnected" /\ media = "Disconnected"
    /\ request = [r \in Requests |->
                    [at |-> "none", cancelled |-> FALSE, event |-> TRUE, tails |-> 0]]
    /\ openPc = "idle" /\ file = "closed"
    /\ air = [sig |-> FALSE, media |-> FALSE] /\ lapses = {}
    /\ connects = 0 /\ suspends = 0

PnpStarted == pnp \in {"registering", "started"}
Queued == rundown # "idle"

(* The requests the context has a pointer to. *)
Outstanding == {r \in Requests : request[r].at \in {"claimed", "sent", "opened"}}

Claimed(r) == [request EXCEPT ![r].at = "claimed", ![r].cancelled = FALSE, ![r].event = FALSE]
Answered(r) == [request EXCEPT ![r].at = "none", ![r].tails = @ + 1]
Completed(r) == [request EXCEPT ![r].at = "none", ![r].event = TRUE]

(* RegisterSignalingServer under OperationLock: the server it returns. *)
Registered(success) ==
    IF server.handle \/ success
    THEN [handle |-> TRUE, draining |-> FALSE, ok |-> TRUE, ready |-> TRUE]
    ELSE server

(* Its event: cleared only when a REGISTER BRB is built. *)
ClearsIncoming ==
    IF server.handle THEN request ELSE [request EXCEPT !["incoming"].event = FALSE]

(* It does not look at the channel. *)
NotesRefresh ==
    lapses' = IF ~server'.draining /\ sig \in {"Connected", "Disconnecting"}
              THEN lapses \cup {"refreshed"} ELSE lapses

\* Mutant: the server is not marked as draining.
UnregisteredUndrained(success, preserveReadyFlag) ==
    [server EXCEPT !.handle = @ /\ ~success, !.ready = @ /\ preserveReadyFlag]

(* UnregisterSignalingServer: what it leaves, when its BRB succeeds or not. *)
Unregistered(success, preserveReadyFlag) ==
    [server EXCEPT !.draining = TRUE, !.handle = @ /\ ~success,
                   !.ready = @ /\ preserveReadyFlag]

-----------------------------------------------------------------------------
(* PnP *)

(* SelfManagedIoInit and SelfManagedIoRestart, up to the lock of the registration. *)
PnpStarts ==
    /\ pnp = "down"
    /\ pnp' = "registering" /\ shuttingDown' = FALSE
    /\ UNCHANGED <<server, rundown, op, sig, media, request, openPc, file, air, lapses,
                   connects, suspends>>

PnpRegisters ==
    /\ pnp = "registering" /\ LockFree
    /\ \E success \in BOOLEAN :
         /\ server' = Registered(success)
         /\ request' = ClearsIncoming
         /\ pnp' = IF server'.handle THEN "started" ELSE "failed"
         /\ shuttingDown' = (shuttingDown \/ ~server'.handle)
    /\ NotesRefresh
    /\ UNCHANGED <<rundown, op, sig, media, openPc, file, air, connects, suspends>>

(* SelfManagedIoSuspend, which SelfManagedIoCleanup repeats: refuse, unregister, shut *)
(* down, flush the work item; then the queue stops, with every request completed.     *)
PnpSuspends ==
    /\ pnp = "started" /\ suspends < MaxSuspends
    /\ pnp' = "suspending" /\ shuttingDown' = TRUE /\ suspends' = suspends + 1
    /\ UNCHANGED <<server, rundown, op, sig, media, request, openPc, file, air, lapses,
                   connects>>

PnpUnregisters ==
    /\ pnp = "suspending" /\ LockFree
    /\ pnp' = "unregistered"
    /\ \E success \in BOOLEAN : server' = Unregistered(success, FALSE)
    /\ UNCHANGED <<shuttingDown, rundown, op, sig, media, request, openPc, file, air,
                   lapses, connects, suspends>>

PnpFlushes ==
    /\ pnp = "flushing" /\ ~Queued
    /\ openPc = "idle" /\ \A s \in Slots : request[s].at = "none"
    /\ pnp' = "down"
    /\ UNCHANGED <<shuttingDown, server, rundown, op, sig, media, request, openPc, file, air,
                   lapses, connects, suspends>>

-----------------------------------------------------------------------------
(* The rundown work item *)

RundownUnregisters ==
    /\ rundown = "queued" /\ LockFree
    /\ \E success \in BOOLEAN :
         /\ server' = Unregistered(success, TRUE)
         /\ rundown' = IF server'.handle THEN "failed" ELSE "unregistered"
    /\ UNCHANGED <<pnp, shuttingDown, op, sig, media, request, openPc, file, air, lapses,
                   connects, suspends>>

RundownReports ==
    /\ rundown \in {"unregistered", "failed"}
    /\ rundown' = "idle" /\ server' = [server EXCEPT !.ok = (rundown = "unregistered")]
    /\ UNCHANGED <<pnp, shuttingDown, op, sig, media, request, openPc, file, air, lapses,
                   connects, suspends>>

\* Mutant: the server is drained only by the work item.
QueuesUndrained ==
    /\ rundown' = IF Queued THEN rundown ELSE "queued"
    /\ server' = [server EXCEPT !.ok = IF Queued THEN @ ELSE TRUE]

(* QueueSignalingServerRundownLocked: STATUS_PENDING is a success. *)
QueuesRundown ==
    /\ rundown' = IF Queued THEN rundown ELSE "queued"
    /\ server' = [server EXCEPT !.draining = TRUE, !.ok = IF Queued THEN @ ELSE TRUE]

-----------------------------------------------------------------------------
(* The application: its file handle and its IOCTLs *)

HasFile == file \in {"open", "owner"}

(* The power-managed queue delivers nothing while the device is down; the application *)
(* makes no call beside CLOSE_CHANNELS.                                                *)
UserMay == HasFile /\ op.owner # "close" /\ pnp \notin {"down", "failed"}

OpensFile ==
    /\ file = "closed" /\ \A s \in Slots : request[s].at = "none"
    /\ file' = "open"
    /\ UNCHANGED <<pnp, shuttingDown, server, rundown, op, sig, media, request, openPc, air,
                   lapses, connects, suspends>>

(* A transport IOCTL makes the handle an owner, whatever it returns. *)
IsRefused ==
    /\ UserMay /\ file = "open" /\ file' = "owner"
    /\ UNCHANGED <<pnp, shuttingDown, server, rundown, op, sig, media, request, openPc, air,
                   lapses, connects, suspends>>

(* An IOCTL is dispatched in its caller's thread: the handle is closed between calls, *)
(* with overlapped requests outstanding.                                              *)
ClosesFile ==
    /\ HasFile /\ op.owner # "close" /\ openPc = "idle"
    /\ \A s \in Slots : request[s].at # "claimed"
    /\ file' = IF file = "owner" THEN "cleanup" ELSE "closed"
    /\ UNCHANGED <<pnp, shuttingDown, server, rundown, op, sig, media, request, openPc, air,
                   lapses, connects, suspends>>

MayClaim(s) ==
    CASE s \in {"read", "write"} -> sig = "Connected"
      [] s = "mediaWrite"        -> media = "Connected"
      [] s = "mediaOpen"         -> sig = "Connected" /\ media = "Disconnected"

(* TransferSignaling, WriteMedia, OpenMedia: the section that claims the slot. *)
Claims(s) ==
    /\ UserMay /\ request[s].at = "none" /\ ~shuttingDown /\ MayClaim(s)
    /\ request' = Claimed(s) /\ file' = "owner"
    /\ media' = IF s = "mediaOpen" THEN "Connecting" ELSE media
    /\ UNCHANGED <<pnp, shuttingDown, server, rundown, op, sig, openPc, air, lapses,
                   connects, suspends>>

(* CLOSE_CHANNELS, called with at most a read outstanding. *)
ClosesChannels ==
    /\ UserMay /\ openPc = "idle" /\ LockFree
    /\ \A s \in Slots \ {"read"} : request[s].at = "none"
    /\ op' = [owner |-> "close", step |-> "closeMedia", awaited |-> {}]
    /\ file' = "owner"
    /\ UNCHANGED <<pnp, shuttingDown, server, rundown, sig, media, request, openPc, air,
                   lapses, connects, suspends>>

-----------------------------------------------------------------------------
(* OPEN_SIGNALING *)

OpenStep(from, to) ==
    /\ openPc = from /\ openPc' = to
    /\ UNCHANGED <<pnp, shuttingDown, rundown, op, sig, media, air, connects, suspends>>

OpenStarts ==
    /\ UserMay /\ server.ready
    /\ OpenStep("idle", IF Queued THEN "flush" ELSE "check")
    /\ file' = "owner" /\ UNCHANGED <<server, request, lapses>>

OpenFlushes ==
    /\ ~Queued
    /\ OpenStep("flush", IF server.ok THEN "check" ELSE "idle")
    /\ UNCHANGED <<server, request, file, lapses>>

NeedsServer == PnpStarted /\ ~shuttingDown /\ sig = "Disconnected" /\ ~server.handle

OpenChecks ==
    /\ OpenStep("check", IF NeedsServer THEN "register" ELSE "claim")
    /\ UNCHANGED <<server, request, file, lapses>>

OpenRegisters ==
    /\ LockFree
    /\ \E success \in BOOLEAN :
         /\ server' = Registered(success)
         /\ OpenStep("register", IF server'.handle THEN "claim" ELSE "idle")
    /\ NotesRefresh
    /\ request' = ClearsIncoming /\ UNCHANGED file

AwaitsIncoming ==
    \/ sig = "Connecting" /\ request["incoming"].at \in {"claimed", "sent", "opened"}
    \/ sig = "Disconnected" /\ server.handle /\ ~server.draining

(* The section that decides; "outbound" is the OPEN BRB of the driver's own. *)
OpenClaims ==
    /\ OpenStep("claim",
                IF shuttingDown THEN "idle"
                ELSE IF sig = "Connected" THEN "reuse"
                ELSE IF AwaitsIncoming THEN "incoming"
                ELSE IF server.draining \/ sig # "Disconnected" THEN "idle"
                ELSE "outbound")
    /\ UNCHANGED <<server, request, file, lapses>>

(* The wait for the headset ends with its event or with the caller's timeout. *)
OpenIsAnswered ==
    /\ OpenStep("incoming", IF ~shuttingDown /\ sig = "Connected" THEN "reuse" ELSE "idle")
    /\ UNCHANGED <<server, request, file, lapses>>

(* A connected channel is handed over once the server is run down. *)
OpenReuses ==
    /\ ~Queued
    /\ OpenStep("reuse", "idle")
    /\ UNCHANGED <<server, request, file, lapses>>

Open ==
    \/ OpenStarts \/ OpenFlushes \/ OpenChecks \/ OpenRegisters
    \/ OpenClaims \/ OpenIsAnswered \/ OpenReuses

-----------------------------------------------------------------------------
(* Requests in the stack, and their completion routines *)

Sends(r) ==
    /\ request[r].at = "claimed"
    /\ request' = [request EXCEPT ![r].at = "sent"]
    /\ UNCHANGED <<pnp, shuttingDown, server, rundown, op, sig, media, openPc, file, air,
                   lapses, connects, suspends>>

ResetIfConnecting(state) == IF state = "Connecting" THEN "Disconnected" ELSE state

(* The label fail of the four senders: the event is set before the caller returns. *)
SendFails(r) ==
    /\ request[r].at = "claimed"
    /\ request' = Completed(r)
    /\ sig' = IF r = "incoming" THEN ResetIfConnecting(sig) ELSE sig
    /\ media' = IF r = "mediaOpen" THEN "Disconnected" ELSE media
    /\ UNCHANGED <<pnp, shuttingDown, server, rundown, op, openPc, file, air, lapses,
                   connects, suspends>>

(* TransferCompletion. *)
TransferCompletes(s) ==
    /\ s \in Transfers /\ request[s].at = "sent" /\ request[s].tails < MaxTails
    /\ request' = Answered(s)
    /\ UNCHANGED <<pnp, shuttingDown, server, rundown, op, sig, media, openPc, file, air,
                   lapses, connects, suspends>>

(* The stack opens the channel, whose completion is still to come. *)
StackOpensMedia ==
    /\ request["mediaOpen"].at = "sent" /\ ~air.media /\ air.sig
    /\ request' = [request EXCEPT !["mediaOpen"].at = "opened"]
    /\ air' = [air EXCEPT !.media = TRUE]
    /\ UNCHANGED <<pnp, shuttingDown, server, rundown, op, sig, media, openPc, file,
                   lapses, connects, suspends>>

StackOpensSignaling ==
    /\ request["incoming"].at = "sent" /\ ~air.sig
    /\ request' = [request EXCEPT !["incoming"].at = "opened"]
    /\ air' = [air EXCEPT !.sig = TRUE]
    /\ UNCHANGED <<pnp, shuttingDown, server, rundown, op, sig, media, openPc, file,
                   lapses, connects, suspends>>

(* OpenMediaCompletion: a channel that is no longer awaited, or failed, is reset in a *)
(* section of its own, after the pointer is gone.                                     *)
MediaOpens ==
    /\ request["mediaOpen"].at = "opened" /\ media = "Connecting"
    /\ request["mediaOpen"].tails < MaxTails
    /\ request' = Answered("mediaOpen") /\ media' = "Connected"
    /\ UNCHANGED <<pnp, shuttingDown, server, rundown, op, sig, openPc, file, air, lapses,
                   connects, suspends>>

MediaOpenFails ==
    /\ \/ request["mediaOpen"].at = "sent"
       \/ request["mediaOpen"].at = "opened" /\ media # "Connecting"
    /\ request' = [request EXCEPT !["mediaOpen"].at = "failing"]
    /\ UNCHANGED <<pnp, shuttingDown, server, rundown, op, sig, media, openPc, file, air,
                   lapses, connects, suspends>>

MediaOpenResets ==
    /\ request["mediaOpen"].at = "failing" /\ request["mediaOpen"].tails < MaxTails
    /\ request' = Answered("mediaOpen") /\ media' = "Disconnected"
    /\ UNCHANGED <<pnp, shuttingDown, server, rundown, op, sig, openPc, file, air, lapses,
                   connects, suspends>>

(* IncomingSignalingCompletion. *)
IncomingOpens ==
    /\ request["incoming"].at = "opened"
    /\ request' = Completed("incoming")
    /\ IF sig = "Connecting"
       THEN sig' = "Connected" /\ QueuesRundown
       ELSE UNCHANGED <<sig, server, rundown>>
    /\ UNCHANGED <<pnp, shuttingDown, op, media, openPc, file, air, lapses, connects,
                   suspends>>

IncomingFails ==
    /\ request["incoming"].at = "sent"
    /\ request' = Completed("incoming") /\ sig' = ResetIfConnecting(sig)
    /\ UNCHANGED <<pnp, shuttingDown, server, rundown, op, media, openPc, file, air,
                   lapses, connects, suspends>>

(* The KeSetEvent at the end of a completion routine. *)
SetsEvent(r) ==
    /\ request[r].tails > 0
    /\ request' = [request EXCEPT ![r].tails = @ - 1, ![r].event = TRUE]
    /\ UNCHANGED <<pnp, shuttingDown, server, rundown, op, sig, media, openPc, file, air,
                   lapses, connects, suspends>>

-----------------------------------------------------------------------------
(* The headset *)

(* SendIncomingSignalingResponse accepts; a refusal leaves the driver as it was. *)
RemoteConnects ==
    /\ server.handle /\ ~air.sig /\ connects < MaxConnects
    /\ ~shuttingDown /\ ~server.draining /\ sig = "Disconnected"
    /\ request["incoming"].at = "none"
    /\ request' = Claimed("incoming") /\ sig' = "Connecting" /\ connects' = connects + 1
    /\ UNCHANGED <<pnp, shuttingDown, server, rundown, op, media, openPc, file, air,
                   lapses, suspends>>

SignalingDisconnects ==
    /\ air.sig /\ air' = [air EXCEPT !.sig = FALSE] /\ sig' = "Disconnected"
    /\ UNCHANGED <<pnp, shuttingDown, server, rundown, op, media, request, openPc, file,
                   lapses, connects, suspends>>

MediaDisconnects ==
    /\ air.media /\ air' = [air EXCEPT !.media = FALSE] /\ media' = "Disconnected"
    /\ UNCHANGED <<pnp, shuttingDown, server, rundown, op, sig, request, openPc, file,
                   lapses, connects, suspends>>

-----------------------------------------------------------------------------
(* ConnectionShutdown, and the closing it shares with CLOSE_CHANNELS *)

Shutdown(owner) == [owner |-> owner, step |-> "cancel", awaited |-> Outstanding]

FileCleansUp ==
    /\ file = "cleanup" /\ LockFree
    /\ file' = "cleaning" /\ op' = Shutdown("file") /\ shuttingDown' = TRUE
    /\ UNCHANGED <<pnp, server, rundown, sig, media, request, openPc, air, lapses,
                   connects, suspends>>

PnpShutsDown ==
    /\ pnp = "unregistered" /\ LockFree
    /\ pnp' = "shutdown" /\ op' = Shutdown("pnp") /\ shuttingDown' = TRUE
    /\ UNCHANGED <<server, rundown, sig, media, request, openPc, file, air, lapses,
                   connects, suspends>>

(* WdfRequestCancelSentRequest reaches a request only once it has been sent; it is *)
(* what ends a request that has no timeout.                                        *)
Cancels(from, kinds, to) ==
    /\ op.step = from /\ op' = [op EXCEPT !.step = to]
    /\ request' = [r \in Requests |->
                     IF r \in kinds \cap op.awaited \cap Timeless /\ request[r].at = "sent"
                     THEN [request[r] EXCEPT !.cancelled = TRUE] ELSE request[r]]
    /\ UNCHANGED <<pnp, shuttingDown, server, rundown, sig, media, openPc, file, air,
                   lapses, connects, suspends>>

(* KeWaitForSingleObject without a timeout, for each request of these kinds. *)
Awaits(from, kinds, to) ==
    /\ op.step = from /\ op' = [op EXCEPT !.step = to]
    /\ \A r \in kinds \cap op.awaited : request[r].event
    /\ UNCHANGED <<pnp, shuttingDown, server, rundown, sig, media, request, openPc, file, air,
                   lapses, connects, suspends>>

(* CloseMedia and CloseSignaling: only a connected channel is closed. *)
ClosesMedia ==
    /\ op.step = "closeMedia"
    /\ IF media = "Connected"
       THEN media' = "Disconnecting" /\ op' = [op EXCEPT !.step = "closingMedia"]
       ELSE UNCHANGED media /\ op' = [op EXCEPT !.step = "closeSignaling"]
    /\ UNCHANGED <<pnp, shuttingDown, server, rundown, sig, request, openPc, file, air,
                   lapses, connects, suspends>>

MediaClosed ==
    /\ op.step = "closingMedia" /\ op' = [op EXCEPT !.step = "closeSignaling"]
    /\ media' = "Disconnected"
    /\ \/ air' = [air EXCEPT !.media = FALSE] /\ UNCHANGED lapses
       \/ air.media /\ lapses' = lapses \cup {"closeFailed"} /\ UNCHANGED air
    /\ UNCHANGED <<pnp, shuttingDown, server, rundown, sig, request, openPc, file, connects,
                   suspends>>

ClosesSignaling ==
    /\ op.step = "closeSignaling"
    /\ IF sig = "Connected"
       THEN sig' = "Disconnecting" /\ op' = [op EXCEPT !.step = "closingSignaling"]
       ELSE UNCHANGED sig /\ op' = [op EXCEPT !.step = "release"]
    /\ UNCHANGED <<pnp, shuttingDown, server, rundown, media, request, openPc, file, air,
                   lapses, connects, suspends>>

SignalingClosed ==
    /\ op.step = "closingSignaling" /\ op' = [op EXCEPT !.step = "release"]
    /\ sig' = "Disconnected"
    /\ \/ air' = [air EXCEPT !.sig = FALSE] /\ UNCHANGED lapses
       \/ air.sig /\ lapses' = lapses \cup {"closeFailed"} /\ UNCHANGED air
    /\ UNCHANGED <<pnp, shuttingDown, server, rundown, media, request, openPc, file, connects,
                   suspends>>

(* A shutdown accepts requests again if the device is still started. *)
Releases ==
    /\ op.step = "release" /\ op' = NoOp
    /\ shuttingDown' = (shuttingDown /\ (op.owner = "close" \/ ~PnpStarted))
    /\ file' = IF op.owner = "file" THEN "closed" ELSE file
    /\ pnp' = IF op.owner = "pnp" THEN "flushing" ELSE pnp
    /\ UNCHANGED <<server, rundown, sig, media, request, openPc, air, lapses, connects,
                   suspends>>

(* What the owner of OperationLock does, in the order of the code. *)
OwnerSteps ==
    \/ Cancels("cancel", Transfers, "cancelMediaOpen")
    \/ Cancels("cancelMediaOpen", {"mediaOpen"}, "waitMediaOpen")
    \/ Awaits("waitMediaOpen", {"mediaOpen"}, "cancelIncoming")
    \/ Cancels("cancelIncoming", {"incoming"}, "waitIncoming")
    \/ Awaits("waitIncoming", {"incoming"}, "waitTransfers")
    \/ Awaits("waitTransfers", Transfers, "closeMedia")
    \/ ClosesMedia \/ MediaClosed \/ ClosesSignaling \/ SignalingClosed \/ Releases

-----------------------------------------------------------------------------
Application ==
    \/ OpensFile \/ IsRefused \/ ClosesFile \/ ClosesChannels
    \/ \E s \in Slots : Claims(s)

Pnp == PnpStarts \/ PnpRegisters \/ PnpUnregisters \/ PnpShutsDown \/ PnpFlushes

Rundown == RundownUnregisters \/ RundownReports

Completions(r) ==
    \/ Sends(r) \/ SendFails(r) \/ SetsEvent(r) \/ TransferCompletes(r)
    \/ r = "mediaOpen" /\ (StackOpensMedia \/ MediaOpens \/ MediaOpenFails \/ MediaOpenResets)
    \/ r = "incoming" /\ (StackOpensSignaling \/ IncomingOpens \/ IncomingFails)

Headset == RemoteConnects \/ SignalingDisconnects \/ MediaDisconnects

Next ==
    \/ Application \/ Open \/ Pnp \/ PnpSuspends \/ Rundown \/ FileCleansUp \/ OwnerSteps
    \/ Headset \/ \E r \in Requests : Completions(r)

(* What a thread, a completion, a driver-side timeout or, for the answer to a connection, *)
(* the stack is bound to do.  A read has no timeout: it completes when it is cancelled or *)
(* its channel is gone, else when the headset sends something, which it need not.         *)
Due(r) == r \notin Timeless \/ request[r].at # "sent" \/ request[r].cancelled \/ ~air.sig

Spec ==
    /\ Init /\ [][Next]_vars
    /\ WF_vars(Open) /\ WF_vars(Pnp) /\ WF_vars(Rundown) /\ WF_vars(FileCleansUp)
    /\ WF_vars(OwnerSteps)
    /\ \A r \in Requests : WF_vars(Due(r) /\ Completions(r))

-----------------------------------------------------------------------------
(* OPEN_SIGNALING never makes a connection of its own beside the headset's: *)
(* once the server was registered, it is there or on its way down.          *)
NoOutboundOpen == openPc # "outbound"

(* A channel that exists in the stack is one the driver knows of and would close,      *)
(* unless a CLOSE BRB failed on it, or a restart declared the server fresh beside it: a *)
(* close then resets a channel that the headset has opened meanwhile.                   *)
NoOrphanChannel ==
    lapses = {} =>
        /\ air.sig => \/ sig \in {"Connected", "Disconnecting"}
                      \/ sig = "Connecting" /\ request["incoming"].at = "opened"
        /\ air.media => \/ media \in {"Connected", "Disconnecting"}
                        \/ media = "Connecting" /\ request["mediaOpen"].at = "opened"

(* While a signaling channel is up the server that brought it is run down, or will be: *)
(* its loss is not answered by a new channel before the application asks for one.      *)
(* Until the first suspend no server is declared fresh beside its channel; after it,    *)
(* one that a waiting OPEN_SIGNALING registers behind the suspend's back is, by the      *)
(* restart.                                                                              *)
ConnectedDrains ==
    /\ suspends = 0 => "refreshed" \notin lapses
    /\ (sig = "Connected" /\ "refreshed" \notin lapses) => server.draining

(* The driver accounts for every channel and for the server that brought it, in *)
(* every interleaving of connects, requests, run-downs and suspends.            *)
ChannelsAreAccounted == TypeOK /\ NoOrphanChannel /\ ConnectedDrains

(* OPEN_SIGNALING returns. *)
OpenReturns == openPc # "idle" ~> openPc = "idle"

(* Documented: PnP stop cancels what is pending, waits for it and closes; it ends. *)
ShutdownEnds == op.owner = "pnp" ~> op.owner # "pnp"
=============================================================================
