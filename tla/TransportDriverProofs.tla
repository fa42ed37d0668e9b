------------------------ MODULE TransportDriverProofs ------------------------
(* OPEN_SIGNALING never connects on its own, and no channel is lost, for every set of *)
(* requests and every bound.                                                          *)
EXTENDS TransportDriver, TLAPS

(* A server that is there, or was there and is on its way down. *)
Armed == server.handle \/ server.draining

(* OPEN_SIGNALING starts with the ready flag set, which a registration sets with the *)
(* handle and only an unregistration, which drains, clears the handle.               *)
OpenInv ==
    /\ server \in Server
    /\ server.ready => Armed
    /\ openPc \in {"flush", "check", "register", "claim"} => Armed
    /\ openPc # "outbound"

(* The steps that leave the server and OPEN_SIGNALING alone. *)
LEMMA OthersKeepOpenInv ==
    ASSUME OpenInv, UNCHANGED <<server, openPc>>
    PROVE  OpenInv'
BY DEF OpenInv, Armed

(* Registering leaves a server armed. *)
LEMMA RegisteredArmed ==
    ASSUME server \in Server, NEW success \in BOOLEAN
    PROVE  /\ Registered(success) \in Server
           /\ \/ Registered(success).handle
              \/ Registered(success) = server
BY DEF Registered, Server

(* Unregistering leaves it draining. *)
LEMMA UnregisteredArmed ==
    ASSUME server \in Server, NEW success \in BOOLEAN, NEW preserve \in BOOLEAN
    PROVE  /\ Unregistered(success, preserve) \in Server
           /\ Unregistered(success, preserve).draining
BY DEF Unregistered, Server

(* The work item and the completion that queues it. *)
LEMMA RundownKeepsArmed ==
    ASSUME server \in Server, RundownReports \/ QueuesRundown
    PROVE  /\ server' \in Server
           /\ Armed => Armed'
           /\ server'.ready = server.ready
BY DEF RundownReports, QueuesRundown, Server, Armed

(* PnP registers and unregisters without touching an OPEN_SIGNALING in progress. *)
LEMMA PnpKeepsOpenInv ==
    ASSUME OpenInv, Pnp \/ PnpSuspends
    PROVE  OpenInv'
<1>1. CASE PnpRegisters
  <2>1. PICK success \in BOOLEAN : server' = Registered(success)
    BY <1>1 DEF PnpRegisters
  <2> QED BY <1>1, <2>1, RegisteredArmed DEF PnpRegisters, OpenInv, Armed
<1>2. CASE PnpUnregisters
  <2>1. PICK success \in BOOLEAN : server' = Unregistered(success, FALSE)
    BY <1>2 DEF PnpUnregisters
  <2> QED BY <1>2, <2>1, UnregisteredArmed DEF PnpUnregisters, OpenInv, Armed
<1>3. CASE PnpStarts \/ PnpShutsDown \/ PnpFlushes \/ PnpSuspends
  BY <1>3, OthersKeepOpenInv DEF PnpStarts, PnpShutsDown, PnpFlushes, PnpSuspends
<1> QED BY <1>1, <1>2, <1>3 DEF Pnp

(* The run-down unregisters a server that drains, or reports. *)
LEMMA RundownKeepsOpenInv ==
    ASSUME OpenInv, Rundown
    PROVE  OpenInv'
<1>1. CASE RundownUnregisters
  <2>1. PICK success \in BOOLEAN : server' = Unregistered(success, TRUE)
    BY <1>1 DEF RundownUnregisters
  <2> QED BY <1>1, <2>1, UnregisteredArmed DEF RundownUnregisters, OpenInv, Armed
<1>2. CASE RundownReports
  BY <1>2, RundownKeepsArmed DEF RundownReports, OpenInv
<1> QED BY <1>1, <1>2 DEF Rundown

(* OPEN_SIGNALING itself: the claim goes outbound only with no server at all. *)
LEMMA OpenKeepsOpenInv ==
    ASSUME OpenInv, Open
    PROVE  OpenInv'
<1>1. CASE OpenRegisters
  <2>1. PICK success \in BOOLEAN :
           /\ server' = Registered(success)
           /\ OpenStep("register", IF server'.handle THEN "claim" ELSE "idle")
    BY <1>1 DEF OpenRegisters
  <2> QED BY <2>1, RegisteredArmed DEF OpenStep, OpenInv, Armed
<1>2. CASE OpenClaims
  <2>1. openPc = "claim" /\ server' = server /\ Armed
    BY <1>2 DEF OpenClaims, OpenStep, OpenInv
  <2>2. openPc' \in {"idle", "reuse", "incoming"}
    BY <1>2, <2>1 DEF OpenClaims, OpenStep, OpenInv, Server, Armed, AwaitsIncoming
  <2> QED BY <2>1, <2>2 DEF OpenInv, Armed
<1>3. CASE OpenStarts
  BY <1>3 DEF OpenStarts, OpenStep, OpenInv, Armed
<1>4. CASE OpenFlushes \/ OpenChecks
  BY <1>4 DEF OpenFlushes, OpenChecks, OpenStep, OpenInv, Armed
<1>5. CASE OpenIsAnswered \/ OpenReuses
  BY <1>5 DEF OpenIsAnswered, OpenReuses, OpenStep, OpenInv, Armed
<1> QED BY <1>1, <1>2, <1>3, <1>4, <1>5 DEF Open

(* Of the completions only that of an incoming channel touches the server: it drains. *)
LEMMA CompletionsKeepOpenInv ==
    ASSUME OpenInv, NEW r, Completions(r)
    PROVE  OpenInv'
<1>1. CASE r = "incoming" /\ IncomingOpens
  BY <1>1, RundownKeepsArmed DEF IncomingOpens, OpenInv, Armed
<1>2. CASE \/ Sends(r) \/ SendFails(r) \/ SetsEvent(r) \/ TransferCompletes(r)
           \/ StackOpensMedia \/ MediaOpens \/ MediaOpenFails \/ MediaOpenResets
           \/ StackOpensSignaling \/ IncomingFails
  BY <1>2, OthersKeepOpenInv
     DEF Sends, SendFails, SetsEvent, TransferCompletes, StackOpensMedia, MediaOpens,
         MediaOpenFails, MediaOpenResets, StackOpensSignaling, IncomingFails
<1> QED BY <1>1, <1>2 DEF Completions

(* So an OPEN_SIGNALING that claims the channel never goes on to open one. *)
LEMMA OpenInvHolds == Spec => []OpenInv
<1>1. Init => OpenInv
  BY DEF Init, OpenInv, Server, Armed
<1>2. OpenInv /\ [Next]_vars => OpenInv'
  <2> SUFFICES ASSUME OpenInv, [Next]_vars PROVE OpenInv'
    OBVIOUS
  <2>1. CASE Application
    BY <2>1, OthersKeepOpenInv
       DEF Application, OpensFile, IsRefused, ClosesFile, ClosesChannels, Claims
  <2>2. CASE Pnp \/ PnpSuspends
    BY <2>2, PnpKeepsOpenInv
  <2>3. CASE Rundown
    BY <2>3, RundownKeepsOpenInv
  <2>4. CASE Open
    BY <2>4, OpenKeepsOpenInv
  <2>5. CASE FileCleansUp \/ OwnerSteps
    BY <2>5, OthersKeepOpenInv
       DEF FileCleansUp, OwnerSteps, Cancels, Awaits, ClosesMedia, MediaClosed,
           ClosesSignaling, SignalingClosed, Releases
  <2>6. CASE Headset
    BY <2>6, OthersKeepOpenInv
       DEF Headset, RemoteConnects, SignalingDisconnects, MediaDisconnects
  <2>7. CASE \E r \in Requests : Completions(r)
    BY <2>7, CompletionsKeepOpenInv
  <2>8. CASE UNCHANGED vars
    BY <2>8, OthersKeepOpenInv DEF vars
  <2> QED BY <2>1, <2>2, <2>3, <2>4, <2>5, <2>6, <2>7, <2>8 DEF Next
<1> QED BY <1>1, <1>2, PTL DEF Spec

(* OPEN_SIGNALING (driver/sys/connection.c) reuses or awaits the headset's channel and *)
(* never opens one of its own, whatever requests, suspends and completions interleave.  *)
THEOREM NeverOutbound == Spec => []NoOutboundOpen
<1>1. OpenInv => NoOutboundOpen
  BY DEF OpenInv, NoOutboundOpen
<1> QED BY <1>1, OpenInvHolds, PTL

-----------------------------------------------------------------------------
(* Channels: the driver accounts for each that exists, and for the server that brought *)
(* it.  Of the requests the argument reads only where the two opens are.               *)
Up == {"Connected", "Disconnecting"}
Incoming == request["incoming"].at
MediaOpen == request["mediaOpen"].at

(* A channel that is up, or being closed, has no other on its way: its server drains. *)
(* The headset's channel is the driver's from the indication to the disconnect.       *)
SignalingSide ==
    "refreshed" \notin lapses =>
        /\ (sig \in Up \/ op.step = "closingSignaling") => server.draining /\ Incoming = "none"
        /\ sig = "Connecting" => Incoming \in {"claimed", "sent", "opened"}
        /\ Incoming \in {"claimed", "sent"} => sig = "Connecting" /\ ~air.sig
        /\ (lapses = {} /\ air.sig) => \/ sig \in Up
                                       \/ sig = "Connecting" /\ Incoming = "opened"

(* The media channel is the application's to open: not while it is up or being closed. *)
MediaSide ==
    /\ "mediaOpen" \notin Slots => media = "Disconnected" /\ ~air.media
    /\ ("mediaOpen" \in Slots /\ "closeFailed" \notin lapses) =>
        /\ media = "Connecting" => MediaOpen # "none"
        /\ (media \in Up \/ op.step = "closingMedia") => MediaOpen = "none"
        /\ MediaOpen \in {"claimed", "sent"} => media = "Connecting" /\ ~air.media
        /\ air.media => \/ media \in Up
                        \/ media = "Connecting" /\ MediaOpen = "opened"

(* Whoever closes keeps the application from opening: its call, its handle or PnP. *)
OwnerSide ==
    /\ op.owner = "pnp" => pnp = "shutdown" /\ shuttingDown
    /\ op.owner = "file" => file = "cleaning"

(* Before the first suspend a registration finds no channel: that of PnP comes before *)
(* every other, and OPEN_SIGNALING looks for the channel while there is no server.     *)
FreshSide ==
    suspends = 0 =>
        /\ "refreshed" \notin lapses
        /\ pnp \in {"down", "registering", "started", "failed"}
        /\ pnp # "started" => /\ ~server.handle /\ ~server.ready
                              /\ sig = "Disconnected" /\ openPc = "idle"
        /\ openPc = "register" => ~server.handle /\ sig = "Disconnected"

ChannelInv == TypeOK /\ SignalingSide /\ MediaSide /\ OwnerSide /\ FreshSide

(* Where a request is moved to: the others stay. *)
Moved(r, to) ==
    /\ request' \in [Requests -> Request]
    /\ request'[r].at = to
    /\ \A q \in Requests \ {r} : request'[q].at = request[q].at

(* The requests that stay where they are, whatever becomes of their flags. *)
Unmoved ==
    /\ request' \in [Requests -> Request]
    /\ \A q \in Requests : request'[q].at = request[q].at

(* The claim of a slot. *)
LEMMA ClaimMoves ==
    ASSUME request \in [Requests -> Request], NEW r \in Requests, request' = Claimed(r)
    PROVE  Moved(r, "claimed")
BY ZenonT(60) DEF Claimed, Moved, Request

(* The answer of a completion that has still to set its event. *)
LEMMA AnswerMoves ==
    ASSUME request \in [Requests -> Request], NEW r \in Requests,
           request[r].tails < MaxTails, request' = Answered(r)
    PROVE  Moved(r, "none")
BY BoundsAssumption DEF Answered, Moved, Request

(* A completion that sets it at once. *)
LEMMA CompletionMoves ==
    ASSUME request \in [Requests -> Request], NEW r \in Requests, request' = Completed(r)
    PROVE  Moved(r, "none")
BY DEF Completed, Moved, Request

(* A step of the stack. *)
LEMMA StackMoves ==
    ASSUME request \in [Requests -> Request], NEW r \in Requests,
           NEW to \in {"sent", "opened", "failing"},
           request' = [request EXCEPT ![r].at = to]
    PROVE  Moved(r, to)
BY DEF Moved, Request

(* The KeSetEvent that comes late. *)
LEMMA EventMoves ==
    ASSUME request \in [Requests -> Request], NEW r \in Requests, SetsEvent(r)
    PROVE  Unmoved
<1> DEFINE marked == [request[r] EXCEPT !.tails = @ - 1, !.event = TRUE]
<1>1. request' = [request EXCEPT ![r] = marked]
  BY DEF SetsEvent
<1>2. MaxTails \in Nat /\ request[r] \in Request /\ request[r].tails > 0
  BY BoundsAssumption DEF SetsEvent
<1>3. request[r].tails \in 0 .. MaxTails
  BY <1>2 DEF Request
<1>4. request[r].tails - 1 \in 0 .. MaxTails
  BY <1>2, <1>3
<1>5. marked \in Request /\ marked.at = request[r].at
  BY <1>2, <1>4 DEF Request
<1> QED BY <1>1, <1>5 DEF Unmoved

(* The event that a registration clears. *)
LEMMA ClearMoves ==
    ASSUME request \in [Requests -> Request], request' = ClearsIncoming
    PROVE  Unmoved
<1> DEFINE cleared == [request["incoming"] EXCEPT !.event = FALSE]
<1>1. "incoming" \in Requests
  BY DEF Requests
<1>2. request["incoming"] \in Request
  BY <1>1
<1>3. cleared \in Request /\ cleared.at = request["incoming"].at
  BY <1>2 DEF Request
<1>4. request' = request \/ request' = [request EXCEPT !["incoming"] = cleared]
  BY DEF ClearsIncoming
<1> QED BY <1>1, <1>3, <1>4 DEF Unmoved

(* A cancel marks requests. *)
LEMMA CancelMoves ==
    ASSUME request \in [Requests -> Request], NEW from, NEW kinds, NEW to,
           Cancels(from, kinds, to)
    PROVE  Unmoved
BY ZenonT(60) DEF Cancels, Unmoved, Request

(* What the invariant says of the two opens, for a proof that need not look further. *)
LEMMA OpensAreRequests ==
    /\ "incoming" \in Requests
    /\ "mediaOpen" \in Requests <=> "mediaOpen" \in Slots
    /\ "incoming" \notin Slots
BY SlotsAssumption DEF Requests, Transfers

(* The owner of the lock is at a step of its own, and one that takes it. *)
LEMMA LockStays ==
    ASSUME TypeOK, op' = op
    PROVE  op' \in Operation /\ (LockFree <=> op.step = "none")'
BY DEF TypeOK, LockFree

LEMMA LockTaken ==
    ASSUME op' \in Operation, op'.owner # "free", op'.step # "none"
    PROVE  (LockFree <=> op.step = "none")'
BY DEF LockFree

(* The types hold where each part of the state is left alone or set within its type. *)
LEMMA TypesHold ==
    ASSUME TypeOK,
           pnp' = pnp \/ pnp' \in {"down", "registering", "started", "suspending",
                                   "unregistered", "shutdown", "flushing", "failed"},
           shuttingDown' = shuttingDown \/ shuttingDown' \in BOOLEAN,
           server' = server \/ server' \in Server,
           rundown' = rundown \/ rundown' \in {"idle", "queued", "unregistered", "failed"},
           op' = op \/ (op' \in Operation /\ (LockFree <=> op.step = "none")'),
           sig' = sig \/ sig' \in ChannelState, media' = media \/ media' \in ChannelState,
           request' = request \/ request' \in [Requests -> Request],
           openPc' = openPc \/ openPc' \in {"idle", "flush", "check", "register", "claim",
                                            "incoming", "reuse", "outbound"},
           file' = file \/ file' \in {"closed", "open", "owner", "cleanup", "cleaning"},
           air' = air \/ air' \in [sig : BOOLEAN, media : BOOLEAN],
           lapses' = lapses \/ lapses' \subseteq {"closeFailed", "refreshed"},
           connects' = connects \/ connects' \in 0 .. MaxConnects,
           suspends' = suspends \/ suspends' \in 0 .. MaxSuspends
    PROVE  TypeOK'
<1>1. pnp' \in {"down", "registering", "started", "suspending", "unregistered", "shutdown",
                "flushing", "failed"}
  BY DEF TypeOK
<1>2. shuttingDown' \in BOOLEAN /\ server' \in Server
  BY DEF TypeOK
<1>3. rundown' \in {"idle", "queued", "unregistered", "failed"}
  BY DEF TypeOK
<1>4. op' \in Operation /\ (LockFree <=> op.step = "none")'
  BY LockStays DEF TypeOK
<1>5. sig' \in ChannelState /\ media' \in ChannelState
  BY DEF TypeOK
<1>6. request' \in [Requests -> Request] /\ air' \in [sig : BOOLEAN, media : BOOLEAN]
  BY DEF TypeOK
<1>7. openPc' \in {"idle", "flush", "check", "register", "claim", "incoming", "reuse", "outbound"}
  BY DEF TypeOK
<1>8. file' \in {"closed", "open", "owner", "cleanup", "cleaning"}
  BY DEF TypeOK
<1>9. lapses' \subseteq {"closeFailed", "refreshed"}
  BY DEF TypeOK
<1>10. connects' \in 0 .. MaxConnects /\ suspends' \in 0 .. MaxSuspends
  BY DEF TypeOK
<1> QED BY <1>1, <1>2, <1>3, <1>4, <1>5, <1>6, <1>7, <1>8, <1>9, <1>10 DEF TypeOK

(* The steps that leave the channels, the requests and the server as they are. *)
LEMMA OthersKeepChannelInv ==
    ASSUME ChannelInv, TypeOK',
           UNCHANGED <<server, op, sig, media, request, air, lapses, suspends, pnp>>,
           openPc' # openPc => openPc' # "register" /\ server.ready,
           shuttingDown' = shuttingDown \/ op.owner # "pnp",
           file' = file \/ op.owner # "file"
    PROVE  ChannelInv'
<1>1. SignalingSide' /\ MediaSide'
  BY DEF ChannelInv, SignalingSide, MediaSide, Incoming, MediaOpen
<1>2. OwnerSide'
  BY DEF ChannelInv, OwnerSide
<1>3. FreshSide'
  BY DEF ChannelInv, FreshSide
<1> QED BY <1>1, <1>2, <1>3 DEF ChannelInv

(* The application's calls other than the claim of a request. *)
LEMMA FileKeepsChannelInv ==
    ASSUME ChannelInv, OpensFile \/ IsRefused \/ ClosesFile
    PROVE  ChannelInv'
<1>1. TypeOK'
  <2>1. file' \in {"closed", "open", "owner", "cleanup", "cleaning"}
    BY DEF OpensFile, IsRefused, ClosesFile
  <2>2. /\ TypeOK
        /\ UNCHANGED <<pnp, shuttingDown, server, rundown, op, sig, media, request, openPc,
                       air, lapses, connects, suspends>>
    BY DEF OpensFile, IsRefused, ClosesFile, ChannelInv
  <2>3. (LockFree <=> op.step = "none")'
    BY <2>2, LockStays
  <2> QED BY <2>1, <2>2, <2>3, TypesHold
<1>2. file' = file \/ op.owner # "file"
  BY DEF OpensFile, IsRefused, ClosesFile, UserMay, HasFile, ChannelInv, OwnerSide
<1> QED BY <1>1, <1>2, OthersKeepChannelInv DEF OpensFile, IsRefused, ClosesFile

(* CLOSE_CHANNELS takes the lock with no open of the media channel outstanding. *)
LEMMA CloseKeepsChannelInv ==
    ASSUME ChannelInv, ClosesChannels
    PROVE  ChannelInv'
<1>1. op' \in Operation /\ op'.owner = "close" /\ op'.step = "closeMedia"
  BY DEF ClosesChannels, Operation
<1>2. TypeOK'
  BY <1>1, LockTaken DEF ClosesChannels, ChannelInv, TypeOK
<1>3. SignalingSide' /\ MediaSide'
  BY <1>1 DEF ClosesChannels, ChannelInv, SignalingSide, MediaSide, Incoming, MediaOpen
<1>4. OwnerSide' /\ FreshSide'
  BY <1>1 DEF ClosesChannels, ChannelInv, OwnerSide, FreshSide
<1> QED BY <1>2, <1>3, <1>4 DEF ChannelInv

(* The claim of a slot: of the media open only while nobody closes. *)
LEMMA ClaimKeepsChannelInv ==
    ASSUME ChannelInv, NEW s \in Slots, Claims(s)
    PROVE  ChannelInv'
<1>1. s \in Requests /\ s # "incoming" /\ request \in [Requests -> Request]
  BY OpensAreRequests DEF Requests, ChannelInv, TypeOK
<1>2. Moved(s, "claimed")
  BY <1>1, ClaimMoves DEF Claims
<1>3. Incoming' = Incoming
  BY <1>1, <1>2, OpensAreRequests DEF Moved, Incoming
<1>4. TypeOK'
  <2>1. request' \in [Requests -> Request] /\ media' \in ChannelState /\ file' = "owner"
    BY <1>2 DEF Claims, ChannelInv, TypeOK, Moved, ChannelState
  <2>2. TypeOK /\ op' = op
    BY DEF Claims, ChannelInv
  <2> QED BY <2>1, <2>2, TypesHold DEF Claims
<1>5. SignalingSide'
  BY <1>3 DEF Claims, ChannelInv, SignalingSide
<1>6. MediaSide'
  <2>1. CASE s = "mediaOpen"
    <3>1. media = "Disconnected" /\ media' = "Connecting" /\ MediaOpen' = "claimed"
      BY <2>1, <1>2 DEF Claims, MayClaim, Moved, MediaOpen
    <3>2. op.step # "closingMedia"
      <4>1. op.owner \notin {"file", "pnp", "close"}
        BY DEF Claims, UserMay, HasFile, ChannelInv, OwnerSide
      <4> QED BY <4>1 DEF ChannelInv, TypeOK, LockFree, Operation
    <3> QED BY <2>1, <3>1, <3>2 DEF Claims, ChannelInv, MediaSide, Up
  <2>2. CASE s # "mediaOpen"
    <3>1. "mediaOpen" \in Slots => MediaOpen' = MediaOpen
      BY <2>2, <1>2, OpensAreRequests DEF Moved, MediaOpen
    <3> QED BY <2>2, <3>1 DEF Claims, ChannelInv, MediaSide
  <2> QED BY <2>1, <2>2
<1>7. OwnerSide' /\ FreshSide'
  BY DEF Claims, UserMay, HasFile, ChannelInv, OwnerSide, FreshSide
<1> QED BY <1>4, <1>5, <1>6, <1>7 DEF ChannelInv

(* The application. *)
LEMMA ApplicationKeepsChannelInv ==
    ASSUME ChannelInv, Application
    PROVE  ChannelInv'
BY FileKeepsChannelInv, CloseKeepsChannelInv, ClaimKeepsChannelInv DEF Application

(* PnP starts, suspends, shuts down and flushes without touching a channel. *)
LEMMA PnpMovesKeepChannelInv ==
    ASSUME ChannelInv, PnpStarts \/ PnpSuspends \/ PnpFlushes
    PROVE  ChannelInv'
<1>1. UNCHANGED <<server, rundown, op, sig, media, request, openPc, file, air, lapses, connects>>
  BY DEF PnpStarts, PnpSuspends, PnpFlushes
<1>2. /\ pnp' \in {"registering", "suspending", "down"}
      /\ shuttingDown' \in BOOLEAN /\ suspends' \in 0 .. MaxSuspends
  <2>1. CASE PnpStarts
    BY <2>1 DEF PnpStarts, ChannelInv, TypeOK
  <2>2. CASE PnpSuspends
    <3>1. suspends \in Nat /\ MaxSuspends \in Nat
      BY BoundsAssumption DEF ChannelInv, TypeOK
    <3> QED BY <2>2, <3>1 DEF PnpSuspends
  <2>3. CASE PnpFlushes
    BY <2>3 DEF PnpFlushes, ChannelInv, TypeOK
  <2> QED BY <2>1, <2>2, <2>3
<1>3. TypeOK'
  <2>1. TypeOK /\ (LockFree <=> op.step = "none")'
    BY <1>1, LockStays DEF ChannelInv
  <2> QED BY <1>1, <1>2, <2>1, TypesHold
<1>4. SignalingSide' /\ MediaSide'
  BY <1>1 DEF ChannelInv, SignalingSide, MediaSide, Incoming, MediaOpen
<1>5. OwnerSide'
  BY <1>1 DEF ChannelInv, OwnerSide, PnpStarts, PnpSuspends, PnpFlushes
<1>6. FreshSide'
  <2>1. CASE PnpStarts
    BY <1>1, <2>1 DEF PnpStarts, ChannelInv, FreshSide
  <2>2. CASE PnpSuspends
    BY <2>2 DEF PnpSuspends, ChannelInv, TypeOK, FreshSide
  <2>3. CASE PnpFlushes
    BY <1>1, <2>3 DEF PnpFlushes, ChannelInv, FreshSide
  <2> QED BY <2>1, <2>2, <2>3
<1> QED BY <1>3, <1>4, <1>5, <1>6 DEF ChannelInv

(* A registration beside a channel is noted. *)
LEMMA RegistrationFits ==
    ASSUME ChannelInv, LockFree, NEW success \in BOOLEAN, server' = Registered(success),
           NotesRefresh, request' = ClearsIncoming, UNCHANGED <<sig, media, air>>, op' = op,
           suspends = 0 => sig = "Disconnected"
    PROVE  /\ server' \in Server /\ request' \in [Requests -> Request]
           /\ lapses' \subseteq {"closeFailed", "refreshed"}
           /\ SignalingSide' /\ MediaSide'
           /\ suspends = 0 => "refreshed" \notin lapses'
<1>1. Unmoved
  BY ClearMoves DEF ChannelInv, TypeOK
<1>2. /\ Incoming' = Incoming
      /\ "mediaOpen" \in Slots => MediaOpen' = MediaOpen
  BY <1>1, OpensAreRequests DEF Unmoved, Incoming, MediaOpen
<1>3. server' \in Server
  BY RegisteredArmed DEF ChannelInv, TypeOK
<1>4. lapses \subseteq lapses' /\ lapses' \subseteq {"closeFailed", "refreshed"}
  BY DEF NotesRefresh, ChannelInv, TypeOK
<1>5. op.step = "none"
  BY DEF ChannelInv, TypeOK
<1>6. "refreshed" \notin lapses' /\ sig \in Up => server'.draining
  BY <1>3 DEF NotesRefresh, Up, Server
<1>7. "refreshed" \notin lapses' => lapses' = lapses
  BY <1>4 DEF NotesRefresh
<1>8. SignalingSide'
  BY <1>2, <1>4, <1>5, <1>6, <1>7 DEF ChannelInv, SignalingSide
<1>9. MediaSide'
  BY <1>2, <1>4, <1>5 DEF ChannelInv, MediaSide
<1>10. suspends = 0 => "refreshed" \notin lapses'
  BY DEF NotesRefresh, ChannelInv, FreshSide
<1> QED BY <1>1, <1>3, <1>4, <1>8, <1>9, <1>10 DEF Unmoved

(* The registration of PnP. *)
LEMMA PnpRegistersKeepsChannelInv ==
    ASSUME ChannelInv, PnpRegisters
    PROVE  ChannelInv'
<1>1. PICK success \in BOOLEAN :
         /\ server' = Registered(success)
         /\ request' = ClearsIncoming
         /\ pnp' = IF server'.handle THEN "started" ELSE "failed"
         /\ shuttingDown' = (shuttingDown \/ ~server'.handle)
  BY DEF PnpRegisters
<1>2. /\ LockFree /\ NotesRefresh
      /\ UNCHANGED <<rundown, op, sig, media, openPc, file, air, connects, suspends>>
      /\ suspends = 0 => sig = "Disconnected"
  BY DEF PnpRegisters, ChannelInv, FreshSide
<1>3. /\ server' \in Server /\ request' \in [Requests -> Request]
      /\ lapses' \subseteq {"closeFailed", "refreshed"}
      /\ SignalingSide' /\ MediaSide'
      /\ suspends = 0 => "refreshed" \notin lapses'
  BY <1>1, <1>2, RegistrationFits
<1>4. TypeOK'
  <2>1. TypeOK /\ (LockFree <=> op.step = "none")'
    BY <1>2, LockStays DEF ChannelInv
  <2>2. pnp' \in {"started", "failed"} /\ shuttingDown' \in BOOLEAN
    BY <1>1
  <2> QED BY <1>2, <1>3, <2>1, <2>2, TypesHold
<1>5. OwnerSide'
  BY <1>1, <1>2 DEF ChannelInv, TypeOK, OwnerSide, LockFree
<1>6. FreshSide'
  <2>1. suspends = 0 => ~server.handle /\ ~server.ready /\ sig = "Disconnected" /\ openPc = "idle"
    BY DEF PnpRegisters, ChannelInv, FreshSide
  <2>2. ~server'.handle => server' = server
    BY <1>1, RegisteredArmed DEF ChannelInv, TypeOK
  <2> QED BY <1>1, <1>2, <1>3, <2>1, <2>2 DEF FreshSide
<1> QED BY <1>3, <1>4, <1>5, <1>6 DEF ChannelInv

(* Its unregistration drains. *)
LEMMA PnpUnregistersKeepsChannelInv ==
    ASSUME ChannelInv, PnpUnregisters
    PROVE  ChannelInv'
<1>1. PICK success \in BOOLEAN : server' = Unregistered(success, FALSE)
  BY DEF PnpUnregisters
<1>2. /\ UNCHANGED <<shuttingDown, rundown, op, sig, media, request, openPc, file, air, lapses,
                     connects, suspends>>
      /\ pnp' = "unregistered" /\ pnp = "suspending"
  BY DEF PnpUnregisters
<1>3. server' \in Server /\ server'.draining
  BY <1>1, UnregisteredArmed DEF ChannelInv, TypeOK
<1>4. TypeOK'
  <2>1. TypeOK /\ (LockFree <=> op.step = "none")'
    BY <1>2, LockStays DEF ChannelInv
  <2> QED BY <1>2, <1>3, <2>1, TypesHold
<1>5. SignalingSide' /\ MediaSide'
  BY <1>2, <1>3 DEF ChannelInv, SignalingSide, MediaSide, Incoming, MediaOpen
<1>6. OwnerSide' /\ FreshSide'
  BY <1>2 DEF ChannelInv, OwnerSide, FreshSide
<1> QED BY <1>4, <1>5, <1>6 DEF ChannelInv

(* A shutdown takes the lock, with whatever is outstanding to cancel and to await. *)
LEMMA ShutdownKeepsChannelInv ==
    ASSUME ChannelInv, PnpShutsDown \/ FileCleansUp
    PROVE  ChannelInv'
<1>1. /\ UNCHANGED <<server, rundown, sig, media, request, openPc, air, lapses, connects,
                     suspends>>
      /\ shuttingDown' = TRUE
      /\ pnp' = pnp \/ (pnp' = "shutdown" /\ pnp = "unregistered")
      /\ file' = file \/ file' = "cleaning"
  BY DEF PnpShutsDown, FileCleansUp
<1>2. /\ op' \in Operation /\ op'.step = "cancel"
      /\ \/ op'.owner = "pnp" /\ pnp' = "shutdown"
         \/ op'.owner = "file" /\ file' = "cleaning"
  BY DEF PnpShutsDown, FileCleansUp, Shutdown, Operation, Outstanding
<1>3. TypeOK'
  <2>1. TypeOK /\ (LockFree <=> op.step = "none")'
    BY <1>2, LockTaken DEF ChannelInv
  <2>2. /\ pnp' \in {"down", "registering", "started", "suspending", "unregistered",
                    "shutdown", "flushing", "failed"}
        /\ shuttingDown' \in BOOLEAN
        /\ file' \in {"closed", "open", "owner", "cleanup", "cleaning"}
        /\ op' \in Operation
    BY <1>1, <1>2, <2>1 DEF TypeOK
  <2>3. UNCHANGED <<server, rundown, sig, media, request, openPc, air, lapses, connects,
                    suspends>>
    BY <1>1
  <2> QED BY <2>1, <2>2, <2>3, TypesHold
<1>4. SignalingSide' /\ MediaSide'
  BY <1>1, <1>2 DEF ChannelInv, SignalingSide, MediaSide, Incoming, MediaOpen
<1>5. OwnerSide' /\ FreshSide'
  BY <1>1, <1>2 DEF ChannelInv, OwnerSide, FreshSide
<1> QED BY <1>3, <1>4, <1>5 DEF ChannelInv

(* PnP. *)
LEMMA PnpKeepsChannelInv ==
    ASSUME ChannelInv, Pnp \/ PnpSuspends
    PROVE  ChannelInv'
BY PnpMovesKeepChannelInv, PnpRegistersKeepsChannelInv, PnpUnregistersKeepsChannelInv,
   ShutdownKeepsChannelInv DEF Pnp

(* The work item drains the server it unregisters. *)
LEMMA RundownKeepsChannelInv ==
    ASSUME ChannelInv, Rundown
    PROVE  ChannelInv'
<1>1. UNCHANGED <<pnp, shuttingDown, op, sig, media, request, openPc, file, air, lapses,
                  connects, suspends>>
  BY DEF Rundown, RundownUnregisters, RundownReports
<1>2. /\ server' \in Server /\ rundown' \in {"idle", "unregistered", "failed"}
      /\ server.draining => server'.draining
      /\ server'.handle => server.handle
      /\ server'.ready => server.ready
  <2>1. CASE RundownUnregisters
    <3>1. PICK success \in BOOLEAN : server' = Unregistered(success, TRUE)
      BY <2>1 DEF RundownUnregisters
    <3>2. server \in Server
      BY DEF ChannelInv, TypeOK
    <3> QED BY <2>1, <3>1, <3>2, UnregisteredArmed DEF RundownUnregisters, Unregistered, Server
  <2>2. CASE RundownReports
    BY <2>2 DEF RundownReports, ChannelInv, TypeOK, Server
  <2> QED BY <2>1, <2>2 DEF Rundown
<1>3. TypeOK'
  <2>1. TypeOK /\ (LockFree <=> op.step = "none")'
    BY <1>1, LockStays DEF ChannelInv
  <2>2. rundown' \in {"idle", "queued", "unregistered", "failed"} /\ server' \in Server
    BY <1>2
  <2> QED BY <1>1, <2>1, <2>2, TypesHold
<1>4. SignalingSide' /\ MediaSide'
  BY <1>1, <1>2 DEF ChannelInv, SignalingSide, MediaSide, Incoming, MediaOpen
<1>5. OwnerSide' /\ FreshSide'
  BY <1>1, <1>2 DEF ChannelInv, OwnerSide, FreshSide
<1> QED BY <1>3, <1>4, <1>5 DEF ChannelInv

(* OPEN_SIGNALING where it looks, waits and answers. *)
LEMMA OpenLooksKeepsChannelInv ==
    ASSUME ChannelInv,
           \/ OpenStarts \/ OpenFlushes \/ OpenChecks \/ OpenClaims \/ OpenIsAnswered
           \/ OpenReuses
    PROVE  ChannelInv'
<1>1. UNCHANGED <<pnp, shuttingDown, server, rundown, op, sig, media, request, air, lapses,
                  connects, suspends>>
  BY DEF OpenStarts, OpenFlushes, OpenChecks, OpenClaims, OpenIsAnswered, OpenReuses, OpenStep
<1>2. /\ openPc' \in {"idle", "flush", "check", "register", "claim", "incoming", "reuse", "outbound"}
      /\ openPc' = "register" => NeedsServer
      /\ openPc = "idle" => UserMay /\ server.ready
  BY DEF OpenStarts, OpenFlushes, OpenChecks, OpenClaims, OpenIsAnswered, OpenReuses, OpenStep
<1>3. file' = file \/ (UserMay /\ file' = "owner")
  BY DEF OpenStarts, OpenFlushes, OpenChecks, OpenClaims, OpenIsAnswered, OpenReuses
<1>4. TypeOK'
  <2>1. TypeOK /\ (LockFree <=> op.step = "none")'
    BY <1>1, LockStays DEF ChannelInv
  <2> QED BY <1>1, <1>2, <1>3, <2>1, TypesHold
<1>5. SignalingSide' /\ MediaSide'
  BY <1>1 DEF ChannelInv, SignalingSide, MediaSide, Incoming, MediaOpen
<1>6. OwnerSide'
  BY <1>1, <1>3 DEF ChannelInv, OwnerSide, UserMay, HasFile
<1>7. FreshSide'
  BY <1>1, <1>2 DEF ChannelInv, FreshSide, NeedsServer
<1> QED BY <1>4, <1>5, <1>6, <1>7 DEF ChannelInv

(* Its registration. *)
LEMMA OpenRegistersKeepsChannelInv ==
    ASSUME ChannelInv, OpenRegisters
    PROVE  ChannelInv'
<1>1. PICK success \in BOOLEAN :
         /\ server' = Registered(success)
         /\ OpenStep("register", IF server'.handle THEN "claim" ELSE "idle")
  BY DEF OpenRegisters
<1>2. /\ LockFree /\ NotesRefresh /\ request' = ClearsIncoming /\ openPc = "register"
      /\ UNCHANGED <<pnp, shuttingDown, rundown, op, sig, media, file, air, connects, suspends>>
      /\ openPc' \in {"claim", "idle"}
      /\ suspends = 0 => sig = "Disconnected"
  BY <1>1 DEF OpenRegisters, OpenStep, ChannelInv, FreshSide
<1>3. /\ server' \in Server /\ request' \in [Requests -> Request]
      /\ lapses' \subseteq {"closeFailed", "refreshed"}
      /\ SignalingSide' /\ MediaSide'
      /\ suspends = 0 => "refreshed" \notin lapses'
  BY <1>1, <1>2, RegistrationFits
<1>4. TypeOK'
  <2>1. TypeOK /\ (LockFree <=> op.step = "none")'
    BY <1>2, LockStays DEF ChannelInv
  <2> QED BY <1>2, <1>3, <2>1, TypesHold
<1>5. OwnerSide' /\ FreshSide'
  BY <1>2, <1>3 DEF ChannelInv, OwnerSide, FreshSide
<1> QED BY <1>3, <1>4, <1>5 DEF ChannelInv

(* OPEN_SIGNALING. *)
LEMMA OpenKeepsChannelInv ==
    ASSUME ChannelInv, Open
    PROVE  ChannelInv'
BY OpenLooksKeepsChannelInv, OpenRegistersKeepsChannelInv DEF Open

(* The owner goes on to its next step. *)
LEMMA OwnerGoesOn ==
    ASSUME TypeOK, op.step # "none",
           NEW to \in {"cancelMediaOpen", "waitMediaOpen", "cancelIncoming", "waitIncoming",
                       "waitTransfers", "closeMedia", "closingMedia", "closeSignaling",
                       "closingSignaling", "release"},
           op' = [op EXCEPT !.step = to]
    PROVE  /\ op' \in Operation /\ op'.owner = op.owner /\ op'.step = to
           /\ (LockFree <=> op.step = "none")'
BY DEF TypeOK, LockFree, Operation

(* Cancelling and awaiting end on no channel. *)
LEMMA WaitingKeepsChannelInv ==
    ASSUME ChannelInv, NEW from, NEW kinds,
           NEW to \in {"cancelMediaOpen", "waitMediaOpen", "cancelIncoming", "waitIncoming",
                       "waitTransfers", "closeMedia"},
           from # "none",
           Cancels(from, kinds, to) \/ Awaits(from, kinds, to)
    PROVE  ChannelInv'
<1>1. /\ UNCHANGED <<pnp, shuttingDown, server, rundown, sig, media, openPc, file, air, lapses,
                     connects, suspends>>
      /\ op.step = from /\ op' = [op EXCEPT !.step = to]
  BY DEF Cancels, Awaits
<1>2. /\ op' \in Operation /\ op'.owner = op.owner /\ op'.step = to
      /\ (LockFree <=> op.step = "none")'
  BY <1>1, OwnerGoesOn DEF ChannelInv
<1>3. Unmoved
  <2>1. request \in [Requests -> Request]
    BY DEF ChannelInv, TypeOK
  <2>2. CASE Cancels(from, kinds, to)
    BY <2>1, <2>2, CancelMoves
  <2>3. CASE Awaits(from, kinds, to)
    BY <2>1, <2>3 DEF Awaits, Unmoved
  <2> QED BY <2>2, <2>3
<1>4. /\ Incoming' = Incoming
      /\ "mediaOpen" \in Slots => MediaOpen' = MediaOpen
  BY <1>3, OpensAreRequests DEF Unmoved, Incoming, MediaOpen
<1>5. TypeOK'
  <2>1. TypeOK /\ request' \in [Requests -> Request]
    BY <1>3 DEF Unmoved, ChannelInv
  <2>2. UNCHANGED <<pnp, shuttingDown, server, rundown, sig, media, openPc, file, air, lapses,
                    connects, suspends>>
    BY <1>1
  <2>3. op' \in Operation /\ (LockFree <=> op.step = "none")'
    BY <1>2
  <2> QED BY <2>1, <2>2, <2>3, TypesHold
<1>6. SignalingSide' /\ MediaSide'
  BY <1>1, <1>2, <1>4 DEF ChannelInv, SignalingSide, MediaSide
<1>7. OwnerSide' /\ FreshSide'
  BY <1>1, <1>2 DEF ChannelInv, OwnerSide, FreshSide
<1> QED BY <1>5, <1>6, <1>7 DEF ChannelInv

(* A close of the media channel: no open of it is on its way. *)
LEMMA MediaCloseKeepsChannelInv ==
    ASSUME ChannelInv, ClosesMedia \/ MediaClosed
    PROVE  ChannelInv'
<1>1. /\ UNCHANGED <<pnp, shuttingDown, server, rundown, sig, request, openPc, file, connects,
                     suspends>>
      /\ op.step \in {"closeMedia", "closingMedia"}
      /\ media' \in ChannelState
      /\ lapses \subseteq lapses' /\ lapses' \subseteq lapses \cup {"closeFailed"}
  BY DEF ClosesMedia, MediaClosed, ChannelInv, TypeOK, ChannelState
<1>2. PICK to \in {"closingMedia", "closeSignaling"} : op' = [op EXCEPT !.step = to]
  BY DEF ClosesMedia, MediaClosed
<1>3. /\ op' \in Operation /\ op'.owner = op.owner /\ op'.step = to
      /\ (LockFree <=> op.step = "none")'
  BY <1>1, <1>2, OwnerGoesOn DEF ChannelInv
<1>4. air' \in [sig : BOOLEAN, media : BOOLEAN] /\ air'.sig = air.sig
  BY DEF ClosesMedia, MediaClosed, ChannelInv, TypeOK
<1>5. TypeOK'
  <2>1. TypeOK /\ lapses' \subseteq {"closeFailed", "refreshed"}
    BY <1>1 DEF ChannelInv, TypeOK
  <2>2. /\ UNCHANGED <<pnp, shuttingDown, server, rundown, sig, request, openPc, file,
                       connects, suspends>>
        /\ media' \in ChannelState
    BY <1>1
  <2> QED BY <1>3, <1>4, <2>1, <2>2, TypesHold
<1>6. SignalingSide'
  BY <1>1, <1>3, <1>4 DEF ChannelInv, SignalingSide, Incoming
<1>7. MediaSide'
  <2>1. CASE ClosesMedia
    <3>1. air' = air /\ lapses' = lapses /\ MediaOpen' = MediaOpen
      BY <2>1 DEF ClosesMedia, MediaOpen
    <3>2. CASE media = "Connected"
      <4>1. media' = "Disconnecting"
        BY <2>1, <3>2 DEF ClosesMedia
      <4> QED BY <3>1, <3>2, <4>1 DEF ChannelInv, MediaSide, Up
    <3>3. CASE media # "Connected"
      <4>1. media' = media /\ op'.step = "closeSignaling"
        BY <2>1, <1>2, <3>3 DEF ClosesMedia, ChannelInv, TypeOK, Operation
      <4> QED BY <3>1, <4>1 DEF ChannelInv, MediaSide
    <3> QED BY <3>2, <3>3
  <2>2. CASE MediaClosed
    <3>1. /\ op.step = "closingMedia" /\ op'.step = "closeSignaling"
          /\ ~air'.media \/ "closeFailed" \in lapses'
      BY <2>2, <1>3 DEF MediaClosed, ChannelInv, TypeOK
    <3>2. media' = "Disconnected" /\ MediaOpen' = MediaOpen
      BY <2>2 DEF MediaClosed, MediaOpen
    <3>3. "mediaOpen" \notin Slots => ~air'.media
      BY <2>2 DEF MediaClosed, ChannelInv, TypeOK, MediaSide
    <3> QED BY <1>1, <3>1, <3>2, <3>3 DEF ChannelInv, MediaSide, Up
  <2> QED BY <2>1, <2>2
<1>8. OwnerSide' /\ FreshSide'
  BY <1>1, <1>3 DEF ChannelInv, OwnerSide, FreshSide
<1> QED BY <1>5, <1>6, <1>7, <1>8 DEF ChannelInv

(* A close of the signaling channel: its server drains until the lock is free. *)
LEMMA SignalingCloseKeepsChannelInv ==
    ASSUME ChannelInv, ClosesSignaling \/ SignalingClosed
    PROVE  ChannelInv'
<1>1. /\ UNCHANGED <<pnp, shuttingDown, server, rundown, media, request, openPc, file, connects,
                     suspends>>
      /\ op.step \in {"closeSignaling", "closingSignaling"}
      /\ sig' \in ChannelState
      /\ sig = "Disconnected" => sig' = "Disconnected"
      /\ lapses \subseteq lapses' /\ lapses' \subseteq lapses \cup {"closeFailed"}
  BY DEF ClosesSignaling, SignalingClosed, ChannelInv, TypeOK, ChannelState
<1>2. PICK to \in {"closingSignaling", "release"} : op' = [op EXCEPT !.step = to]
  BY DEF ClosesSignaling, SignalingClosed
<1>3. /\ op' \in Operation /\ op'.owner = op.owner /\ op'.step = to
      /\ (LockFree <=> op.step = "none")'
  BY <1>1, <1>2, OwnerGoesOn DEF ChannelInv
<1>4. air' \in [sig : BOOLEAN, media : BOOLEAN] /\ air'.media = air.media
  BY DEF ClosesSignaling, SignalingClosed, ChannelInv, TypeOK
<1>5. TypeOK'
  <2>1. TypeOK /\ lapses' \subseteq {"closeFailed", "refreshed"}
    BY <1>1 DEF ChannelInv, TypeOK
  <2>2. /\ UNCHANGED <<pnp, shuttingDown, server, rundown, media, request, openPc, file,
                       connects, suspends>>
        /\ sig' \in ChannelState
    BY <1>1
  <2> QED BY <1>3, <1>4, <2>1, <2>2, TypesHold
<1>6. SignalingSide'
  <2>1. CASE ClosesSignaling
    <3>1. air' = air /\ lapses' = lapses /\ Incoming' = Incoming /\ server' = server
      BY <2>1 DEF ClosesSignaling, Incoming
    <3>2. CASE sig = "Connected"
      <4>1. sig' = "Disconnecting"
        BY <2>1, <3>2 DEF ClosesSignaling
      <4> QED BY <3>1, <3>2, <4>1 DEF ChannelInv, SignalingSide, Up
    <3>3. CASE sig # "Connected"
      <4>1. sig' = sig /\ op'.step = "release"
        BY <2>1, <1>2, <3>3 DEF ClosesSignaling, ChannelInv, TypeOK, Operation
      <4> QED BY <3>1, <4>1 DEF ChannelInv, SignalingSide
    <3> QED BY <3>2, <3>3
  <2>2. CASE SignalingClosed
    <3>1. /\ op.step = "closingSignaling" /\ op'.step = "release" /\ sig' = "Disconnected"
          /\ ~air'.sig \/ "closeFailed" \in lapses'
      BY <2>2, <1>3 DEF SignalingClosed, ChannelInv, TypeOK
    <3>2. Incoming' = Incoming
      BY <1>1 DEF Incoming
    <3> QED BY <1>1, <3>1, <3>2 DEF ChannelInv, SignalingSide, Up
  <2> QED BY <2>1, <2>2
<1>7. MediaSide'
  BY <1>1, <1>3, <1>4 DEF ChannelInv, MediaSide, MediaOpen
<1>8. OwnerSide' /\ FreshSide'
  BY <1>1, <1>3 DEF ChannelInv, OwnerSide, FreshSide
<1> QED BY <1>5, <1>6, <1>7, <1>8 DEF ChannelInv

(* The release of the lock. *)
LEMMA ReleaseKeepsChannelInv ==
    ASSUME ChannelInv, Releases
    PROVE  ChannelInv'
<1>1. /\ UNCHANGED <<server, rundown, sig, media, request, openPc, air, lapses, connects,
                     suspends>>
      /\ op' = NoOp /\ op.step = "release"
      /\ file' = file \/ file' = "closed"
      /\ pnp' = pnp \/ (pnp' = "flushing" /\ op.owner = "pnp")
      /\ shuttingDown' \in BOOLEAN
  BY DEF Releases, ChannelInv, TypeOK
<1>2. op' \in Operation /\ op'.owner = "free" /\ op'.step = "none"
  BY <1>1 DEF NoOp, Operation
<1>3. TypeOK'
  <2>1. TypeOK /\ (LockFree <=> op.step = "none")'
    BY <1>2 DEF LockFree, ChannelInv
  <2>2. /\ pnp' \in {"down", "registering", "started", "suspending", "unregistered",
                    "shutdown", "flushing", "failed"}
        /\ file' \in {"closed", "open", "owner", "cleanup", "cleaning"}
    BY <1>1, <2>1 DEF TypeOK
  <2>3. /\ UNCHANGED <<server, rundown, sig, media, request, openPc, air, lapses, connects,
                       suspends>>
        /\ op' \in Operation /\ shuttingDown' \in BOOLEAN
    BY <1>1, <1>2
  <2> QED BY <2>1, <2>2, <2>3, TypesHold
<1>4. SignalingSide' /\ MediaSide'
  BY <1>1, <1>2 DEF ChannelInv, SignalingSide, MediaSide, Incoming, MediaOpen
<1>5. OwnerSide'
  BY <1>2 DEF OwnerSide
<1>6. FreshSide'
  BY <1>1 DEF ChannelInv, FreshSide, OwnerSide
<1> QED BY <1>3, <1>4, <1>5, <1>6 DEF ChannelInv

(* What the owner of the lock does. *)
LEMMA OwnerKeepsChannelInv ==
    ASSUME ChannelInv, OwnerSteps
    PROVE  ChannelInv'
<1>1. CASE \/ Cancels("cancel", Transfers, "cancelMediaOpen")
           \/ Cancels("cancelMediaOpen", {"mediaOpen"}, "waitMediaOpen")
           \/ Cancels("cancelIncoming", {"incoming"}, "waitIncoming")
  BY <1>1, WaitingKeepsChannelInv
<1>2. CASE \/ Awaits("waitMediaOpen", {"mediaOpen"}, "cancelIncoming")
           \/ Awaits("waitIncoming", {"incoming"}, "waitTransfers")
           \/ Awaits("waitTransfers", Transfers, "closeMedia")
  BY <1>2, WaitingKeepsChannelInv
<1> QED BY <1>1, <1>2, MediaCloseKeepsChannelInv, SignalingCloseKeepsChannelInv,
           ReleaseKeepsChannelInv DEF OwnerSteps

(* The headset's indications. *)
LEMMA HeadsetKeepsChannelInv ==
    ASSUME ChannelInv, Headset
    PROVE  ChannelInv'
<1>1. /\ UNCHANGED <<pnp, shuttingDown, server, rundown, op, openPc, file, lapses, suspends>>
      /\ connects \in Nat /\ MaxConnects \in Nat
  BY BoundsAssumption
     DEF Headset, RemoteConnects, SignalingDisconnects, MediaDisconnects, ChannelInv, TypeOK
<1>2. TypeOK /\ (LockFree <=> op.step = "none")' /\ op' \in Operation
  BY <1>1, LockStays DEF ChannelInv
<1>3. OwnerSide'
  BY <1>1 DEF ChannelInv, OwnerSide
<1>4. CASE RemoteConnects
  <2>1. /\ server.handle /\ ~air.sig /\ ~server.draining /\ sig = "Disconnected"
        /\ Incoming = "none"
        /\ request' = Claimed("incoming") /\ sig' = "Connecting"
        /\ connects < MaxConnects /\ connects' = connects + 1
        /\ UNCHANGED <<media, air>>
    BY <1>4 DEF RemoteConnects, Incoming
  <2>2. Moved("incoming", "claimed")
    BY <2>1, ClaimMoves, OpensAreRequests DEF ChannelInv, TypeOK
  <2>3. /\ request' \in [Requests -> Request] /\ Incoming' = "claimed"
        /\ "mediaOpen" \in Slots => MediaOpen' = MediaOpen
    BY <2>2, OpensAreRequests DEF Moved, Incoming, MediaOpen
  <2>4. TypeOK'
    <3>1. connects' \in 0 .. MaxConnects /\ sig' \in ChannelState
      BY <1>1, <2>1 DEF ChannelState
    <3>2. UNCHANGED <<pnp, shuttingDown, server, rundown, openPc, file, lapses, suspends, media,
                      air>>
      BY <1>1, <2>1
    <3>3. request' \in [Requests -> Request]
      BY <2>3
    <3>4. /\ server' \in Server /\ rundown' \in {"idle", "queued", "unregistered", "failed"}
          /\ media' \in ChannelState /\ air' \in [sig : BOOLEAN, media : BOOLEAN]
      BY <1>2, <3>2 DEF TypeOK
    <3> QED BY <1>1, <1>2, <3>1, <3>2, <3>3, <3>4, TypesHold
  <2>5. SignalingSide'
    BY <1>1, <2>1, <2>3 DEF ChannelInv, SignalingSide, Up
  <2>6. MediaSide' /\ FreshSide'
    BY <1>1, <2>1, <2>3 DEF ChannelInv, MediaSide, FreshSide
  <2> QED BY <1>3, <2>4, <2>5, <2>6 DEF ChannelInv
<1>5. CASE SignalingDisconnects
  <2>1. /\ air.sig /\ sig' = "Disconnected" /\ UNCHANGED <<media, request, connects>>
        /\ air' = [air EXCEPT !.sig = FALSE]
    BY <1>5 DEF SignalingDisconnects
  <2>2. air' \in [sig : BOOLEAN, media : BOOLEAN] /\ ~air'.sig /\ air'.media = air.media
    BY <2>1 DEF ChannelInv, TypeOK
  <2>3. TypeOK'
    <3>1. sig' \in ChannelState
      BY <2>1 DEF ChannelState
    <3>2. UNCHANGED <<pnp, shuttingDown, server, rundown, openPc, file, lapses, suspends, media,
                      request, connects>>
      BY <1>1, <2>1
    <3> QED BY <1>2, <2>2, <3>1, <3>2, TypesHold
  <2>4. Incoming' = Incoming /\ MediaOpen' = MediaOpen
    BY <2>1 DEF Incoming, MediaOpen
  <2>5. SignalingSide'
    BY <1>1, <2>1, <2>2, <2>4 DEF ChannelInv, SignalingSide, Up
  <2>6. MediaSide' /\ FreshSide'
    BY <1>1, <2>1, <2>2, <2>4 DEF ChannelInv, MediaSide, FreshSide
  <2> QED BY <1>3, <2>3, <2>5, <2>6 DEF ChannelInv
<1>6. CASE MediaDisconnects
  <2>1. /\ air.media /\ media' = "Disconnected" /\ UNCHANGED <<sig, request, connects>>
        /\ air' = [air EXCEPT !.media = FALSE]
    BY <1>6 DEF MediaDisconnects
  <2>2. air' \in [sig : BOOLEAN, media : BOOLEAN] /\ ~air'.media /\ air'.sig = air.sig
    BY <2>1 DEF ChannelInv, TypeOK
  <2>3. TypeOK'
    <3>1. media' \in ChannelState
      BY <2>1 DEF ChannelState
    <3>2. UNCHANGED <<pnp, shuttingDown, server, rundown, openPc, file, lapses, suspends, sig,
                      request, connects>>
      BY <1>1, <2>1
    <3> QED BY <1>2, <2>2, <3>1, <3>2, TypesHold
  <2>4. Incoming' = Incoming /\ MediaOpen' = MediaOpen
    BY <2>1 DEF Incoming, MediaOpen
  <2>5. MediaSide'
    BY <1>1, <2>1, <2>2, <2>4 DEF ChannelInv, MediaSide, Up
  <2>6. SignalingSide' /\ FreshSide'
    BY <1>1, <2>1, <2>2, <2>4 DEF ChannelInv, SignalingSide, FreshSide
  <2> QED BY <1>3, <2>3, <2>5, <2>6 DEF ChannelInv
<1> QED BY <1>4, <1>5, <1>6 DEF Headset

(* Where the completion of a request other than the two opens leaves the channels. *)
LEMMA TransfersKeepChannelInv ==
    ASSUME ChannelInv, NEW r \in Requests,
           \/ SetsEvent(r) \/ TransferCompletes(r)
           \/ Sends(r) /\ r \notin {"incoming", "mediaOpen"}
    PROVE  ChannelInv'
<1>1. UNCHANGED <<pnp, shuttingDown, server, rundown, op, sig, media, openPc, file, air, lapses,
                  connects, suspends>>
  BY DEF SetsEvent, TransferCompletes, Sends
<1>2. request \in [Requests -> Request]
  BY DEF ChannelInv, TypeOK
<1>3. /\ request' \in [Requests -> Request] /\ Incoming' = Incoming
      /\ "mediaOpen" \in Slots => MediaOpen' = MediaOpen
  <2>1. CASE SetsEvent(r)
    BY <1>2, <2>1, EventMoves, OpensAreRequests DEF Unmoved, Incoming, MediaOpen
  <2>2. CASE TransferCompletes(r)
    <3>1. Moved(r, "none") /\ r \notin {"incoming", "mediaOpen"}
      BY <1>2, <2>2, AnswerMoves DEF TransferCompletes, Transfers
    <3> QED BY <3>1, OpensAreRequests DEF Moved, Incoming, MediaOpen
  <2>3. CASE Sends(r) /\ r \notin {"incoming", "mediaOpen"}
    <3>1. Moved(r, "sent")
      BY <1>2, <2>3, StackMoves DEF Sends
    <3> QED BY <2>3, <3>1, OpensAreRequests DEF Moved, Incoming, MediaOpen
  <2> QED BY <2>1, <2>2, <2>3
<1>4. TypeOK'
  <2>1. TypeOK /\ op' \in Operation /\ (LockFree <=> op.step = "none")'
    BY <1>1, LockStays DEF ChannelInv
  <2>2. request' \in [Requests -> Request]
    BY <1>3
  <2>3. UNCHANGED <<pnp, shuttingDown, server, rundown, sig, media, openPc, file, air, lapses,
                    connects, suspends>>
    BY <1>1
  <2>4. /\ server' \in Server /\ rundown' \in {"idle", "queued", "unregistered", "failed"}
        /\ sig' \in ChannelState /\ media' \in ChannelState
        /\ air' \in [sig : BOOLEAN, media : BOOLEAN]
    BY <2>1, <2>3 DEF TypeOK
  <2> QED BY <1>1, <2>1, <2>2, <2>4, TypesHold
<1>5. SignalingSide' /\ MediaSide'
  BY <1>1, <1>3 DEF ChannelInv, SignalingSide, MediaSide
<1>6. OwnerSide' /\ FreshSide'
  BY <1>1 DEF ChannelInv, OwnerSide, FreshSide
<1> QED BY <1>4, <1>5, <1>6 DEF ChannelInv

(* A step of the open of the media channel concerns that channel only. *)
LEMMA MediaStepKeepsChannelInv ==
    ASSUME ChannelInv, "mediaOpen" \in Slots,
           NEW to \in {"none", "sent", "opened", "failing"}, Moved("mediaOpen", to),
           UNCHANGED <<pnp, shuttingDown, server, rundown, op, sig, openPc, file, lapses,
                       connects, suspends>>,
           media' \in ChannelState, air' \in [sig : BOOLEAN, media : BOOLEAN],
           air'.sig = air.sig, MediaSide'
    PROVE  ChannelInv'
<1>1. TypeOK'
  <2>1. /\ TypeOK /\ request' \in [Requests -> Request] /\ server' \in Server
        /\ sig' \in ChannelState /\ rundown' \in {"idle", "queued", "unregistered", "failed"}
    BY DEF ChannelInv, TypeOK, Moved
  <2> QED BY <2>1, TypesHold
<1>2. Incoming' = Incoming
  BY OpensAreRequests DEF Moved, Incoming
<1>3. SignalingSide'
  BY <1>2 DEF ChannelInv, SignalingSide
<1>4. OwnerSide' /\ FreshSide'
  BY DEF ChannelInv, OwnerSide, FreshSide
<1> QED BY <1>1, <1>3, <1>4 DEF ChannelInv

(* A step of the answer to the headset concerns the signaling channel only. *)
LEMMA SignalingStepKeepsChannelInv ==
    ASSUME ChannelInv,
           NEW to \in {"none", "sent", "opened"}, Moved("incoming", to),
           UNCHANGED <<pnp, shuttingDown, op, media, openPc, file, lapses, connects, suspends>>,
           server' \in Server, rundown' \in {"idle", "queued", "unregistered", "failed"},
           server'.handle = server.handle, server'.ready = server.ready,
           sig' \in ChannelState, air' \in [sig : BOOLEAN, media : BOOLEAN],
           air'.media = air.media, sig = "Disconnected" => sig' = "Disconnected",
           SignalingSide'
    PROVE  ChannelInv'
<1>1. TypeOK'
  <2>1. TypeOK /\ request' \in [Requests -> Request] /\ media' \in ChannelState
    BY DEF ChannelInv, TypeOK, Moved
  <2> QED BY <2>1, TypesHold
<1>2. "mediaOpen" \in Slots => MediaOpen' = MediaOpen
  BY OpensAreRequests DEF Moved, MediaOpen
<1>3. MediaSide'
  BY <1>2 DEF ChannelInv, MediaSide
<1>4. OwnerSide' /\ FreshSide'
  BY DEF ChannelInv, OwnerSide, FreshSide
<1> QED BY <1>1, <1>3, <1>4 DEF ChannelInv

(* The open of the media channel, from the send to the end of its completion. *)
LEMMA MediaOpenKeepsChannelInv ==
    ASSUME ChannelInv, "mediaOpen" \in Requests,
           \/ Sends("mediaOpen") \/ SendFails("mediaOpen") \/ StackOpensMedia
           \/ MediaOpens \/ MediaOpenFails \/ MediaOpenResets
    PROVE  ChannelInv'
<1>1. /\ "mediaOpen" \in Slots /\ request \in [Requests -> Request]
      /\ media \in ChannelState /\ air \in [sig : BOOLEAN, media : BOOLEAN]
      /\ "mediaOpen" # "incoming"
  BY OpensAreRequests DEF ChannelInv, TypeOK
<1>2. UNCHANGED <<pnp, shuttingDown, server, rundown, op, openPc, file, lapses, connects,
                  suspends>>
  BY DEF Sends, SendFails, StackOpensMedia, MediaOpens, MediaOpenFails, MediaOpenResets
<1>3. sig' = sig
  BY <1>1 DEF Sends, SendFails, StackOpensMedia, MediaOpens, MediaOpenFails, MediaOpenResets
<1>4. CASE Sends("mediaOpen")
  <2>1. Moved("mediaOpen", "sent") /\ MediaOpen = "claimed" /\ MediaOpen' = "sent"
    BY <1>1, <1>4, StackMoves DEF Sends, Moved, MediaOpen
  <2>2. media' = media /\ air' = air
    BY <1>4 DEF Sends
  <2>3. MediaSide'
    BY <1>1, <1>2, <2>1, <2>2 DEF ChannelInv, MediaSide
  <2> QED BY <1>1, <1>2, <1>3, <2>1, <2>2, <2>3, MediaStepKeepsChannelInv
<1>5. CASE SendFails("mediaOpen")
  <2>1. Moved("mediaOpen", "none") /\ MediaOpen = "claimed" /\ MediaOpen' = "none"
    BY <1>1, <1>5, CompletionMoves DEF SendFails, Moved, MediaOpen
  <2>2. media' = "Disconnected" /\ air' = air /\ media' \in ChannelState
    BY <1>5 DEF SendFails, ChannelState
  <2>3. MediaSide'
    BY <1>1, <1>2, <2>1, <2>2 DEF ChannelInv, MediaSide, Up
  <2> QED BY <1>1, <1>2, <1>3, <2>1, <2>2, <2>3, MediaStepKeepsChannelInv
<1>6. CASE StackOpensMedia
  <2>1. Moved("mediaOpen", "opened") /\ MediaOpen = "sent" /\ MediaOpen' = "opened"
    BY <1>1, <1>6, StackMoves DEF StackOpensMedia, Moved, MediaOpen
  <2>2. media' = media /\ air' = [air EXCEPT !.media = TRUE]
    BY <1>6 DEF StackOpensMedia
  <2>3. air' \in [sig : BOOLEAN, media : BOOLEAN] /\ air'.sig = air.sig /\ air'.media
    BY <1>1, <2>2
  <2>4. MediaSide'
    BY <1>1, <1>2, <2>1, <2>2, <2>3 DEF ChannelInv, MediaSide, Up
  <2> QED BY <1>1, <1>2, <1>3, <2>1, <2>2, <2>3, <2>4, MediaStepKeepsChannelInv
<1>7. CASE MediaOpens
  <2>1. Moved("mediaOpen", "none") /\ MediaOpen = "opened" /\ MediaOpen' = "none"
    BY <1>1, <1>7, AnswerMoves DEF MediaOpens, Moved, MediaOpen
  <2>2. media' = "Connected" /\ air' = air /\ media' \in ChannelState
    BY <1>7 DEF MediaOpens, ChannelState
  <2>3. MediaSide'
    BY <1>1, <1>2, <2>1, <2>2 DEF ChannelInv, MediaSide, Up
  <2> QED BY <1>1, <1>2, <1>3, <2>1, <2>2, <2>3, MediaStepKeepsChannelInv
<1>8. CASE MediaOpenFails
  <2>1. /\ Moved("mediaOpen", "failing") /\ MediaOpen' = "failing"
        /\ MediaOpen = "sent" \/ (MediaOpen = "opened" /\ media # "Connecting")
    BY <1>1, <1>8, StackMoves DEF MediaOpenFails, Moved, MediaOpen
  <2>2. media' = media /\ air' = air
    BY <1>8 DEF MediaOpenFails
  <2>3. MediaSide'
    BY <1>1, <1>2, <2>1, <2>2 DEF ChannelInv, MediaSide, Up
  <2> QED BY <1>1, <1>2, <1>3, <2>1, <2>2, <2>3, MediaStepKeepsChannelInv
<1>9. CASE MediaOpenResets
  <2>1. Moved("mediaOpen", "none") /\ MediaOpen = "failing" /\ MediaOpen' = "none"
    BY <1>1, <1>9, AnswerMoves DEF MediaOpenResets, Moved, MediaOpen
  <2>2. media' = "Disconnected" /\ air' = air /\ media' \in ChannelState
    BY <1>9 DEF MediaOpenResets, ChannelState
  <2>3. MediaSide'
    BY <1>1, <1>2, <2>1, <2>2 DEF ChannelInv, MediaSide, Up
  <2> QED BY <1>1, <1>2, <1>3, <2>1, <2>2, <2>3, MediaStepKeepsChannelInv
<1> QED BY <1>4, <1>5, <1>6, <1>7, <1>8, <1>9

(* The answer to the headset, from the send to its completion: a channel that comes up *)
(* leaves a server that drains.                                                        *)
LEMMA IncomingKeepsChannelInv ==
    ASSUME ChannelInv,
           \/ Sends("incoming") \/ SendFails("incoming") \/ StackOpensSignaling
           \/ IncomingOpens \/ IncomingFails
    PROVE  ChannelInv'
<1>1. /\ "incoming" \in Requests /\ request \in [Requests -> Request]
      /\ sig \in ChannelState /\ air \in [sig : BOOLEAN, media : BOOLEAN]
      /\ server \in Server /\ rundown \in {"idle", "queued", "unregistered", "failed"}
  BY OpensAreRequests DEF ChannelInv, TypeOK
<1>2. /\ UNCHANGED <<pnp, shuttingDown, op, openPc, file, lapses, connects, suspends>>
      /\ media' = media
  BY DEF Sends, SendFails, StackOpensSignaling, IncomingOpens, IncomingFails
<1>3. CASE Sends("incoming")
  <2>1. Moved("incoming", "sent") /\ Incoming = "claimed" /\ Incoming' = "sent"
    BY <1>1, <1>3, StackMoves DEF Sends, Moved, Incoming
  <2>2. sig' = sig /\ air' = air /\ server' = server /\ rundown' = rundown
    BY <1>3 DEF Sends
  <2>3. SignalingSide'
    BY <1>2, <2>1, <2>2 DEF ChannelInv, SignalingSide
  <2> QED BY <1>1, <1>2, <2>1, <2>2, <2>3, SignalingStepKeepsChannelInv
<1>4. CASE SendFails("incoming")
  <2>1. Moved("incoming", "none") /\ Incoming = "claimed" /\ Incoming' = "none"
    BY <1>1, <1>4, CompletionMoves DEF SendFails, Moved, Incoming
  <2>2. /\ air' = air /\ server' = server /\ rundown' = rundown
        /\ sig' = ResetIfConnecting(sig)
    BY <1>4 DEF SendFails
  <2>3. sig' \in ChannelState /\ (sig = "Disconnected" => sig' = "Disconnected")
    BY <1>1, <2>2 DEF ResetIfConnecting, ChannelState
  <2>4. SignalingSide'
    BY <1>1, <1>2, <2>1, <2>2 DEF ChannelInv, SignalingSide, ResetIfConnecting, Up
  <2> QED BY <1>1, <1>2, <2>1, <2>2, <2>3, <2>4, SignalingStepKeepsChannelInv
<1>5. CASE StackOpensSignaling
  <2>1. Moved("incoming", "opened") /\ Incoming = "sent" /\ Incoming' = "opened"
    BY <1>1, <1>5, StackMoves DEF StackOpensSignaling, Moved, Incoming
  <2>2. /\ sig' = sig /\ server' = server /\ rundown' = rundown
        /\ air' = [air EXCEPT !.sig = TRUE]
    BY <1>5 DEF StackOpensSignaling
  <2>3. air' \in [sig : BOOLEAN, media : BOOLEAN] /\ air'.media = air.media
    BY <1>1, <2>2
  <2>4. SignalingSide'
    BY <1>1, <1>2, <2>1, <2>2 DEF ChannelInv, SignalingSide, Up
  <2> QED BY <1>1, <1>2, <2>1, <2>2, <2>3, <2>4, SignalingStepKeepsChannelInv
<1>6. CASE IncomingOpens
  <2>1. Moved("incoming", "none") /\ Incoming = "opened" /\ Incoming' = "none"
    BY <1>1, <1>6, CompletionMoves DEF IncomingOpens, Moved, Incoming
  <2>2. air' = air
    BY <1>6 DEF IncomingOpens
  <2>3. CASE sig = "Connecting"
    <3>1. sig' = "Connected" /\ sig' \in ChannelState /\ QueuesRundown
      BY <1>6, <2>3 DEF IncomingOpens, ChannelState
    <3>2. /\ server' \in Server /\ server'.draining
          /\ server'.handle = server.handle /\ server'.ready = server.ready
          /\ rundown' \in {"idle", "queued", "unregistered", "failed"}
      BY <1>1, <3>1 DEF QueuesRundown, Server
    <3>3. SignalingSide'
      BY <1>2, <2>1, <2>2, <3>1, <3>2 DEF ChannelInv, SignalingSide, Up
    <3> QED BY <1>1, <1>2, <2>1, <2>2, <2>3, <3>1, <3>2, <3>3, SignalingStepKeepsChannelInv
  <2>4. CASE sig # "Connecting"
    <3>1. sig' = sig /\ server' = server /\ rundown' = rundown
      BY <1>6, <2>4 DEF IncomingOpens
    <3>2. SignalingSide'
      BY <1>2, <2>1, <2>2, <2>4, <3>1 DEF ChannelInv, SignalingSide
    <3> QED BY <1>1, <1>2, <2>1, <2>2, <3>1, <3>2, SignalingStepKeepsChannelInv
  <2> QED BY <2>3, <2>4
<1>7. CASE IncomingFails
  <2>1. Moved("incoming", "none") /\ Incoming = "sent" /\ Incoming' = "none"
    BY <1>1, <1>7, CompletionMoves DEF IncomingFails, Moved, Incoming
  <2>2. /\ air' = air /\ server' = server /\ rundown' = rundown
        /\ sig' = ResetIfConnecting(sig)
    BY <1>7 DEF IncomingFails
  <2>3. sig' \in ChannelState /\ (sig = "Disconnected" => sig' = "Disconnected")
    BY <1>1, <2>2 DEF ResetIfConnecting, ChannelState
  <2>4. SignalingSide'
    BY <1>1, <1>2, <2>1, <2>2 DEF ChannelInv, SignalingSide, ResetIfConnecting, Up
  <2> QED BY <1>1, <1>2, <2>1, <2>2, <2>3, <2>4, SignalingStepKeepsChannelInv
<1> QED BY <1>3, <1>4, <1>5, <1>6, <1>7

(* A send that fails of any other request. *)
LEMMA SendFailsKeepsChannelInv ==
    ASSUME ChannelInv, NEW r \in Requests, SendFails(r), r \notin {"incoming", "mediaOpen"}
    PROVE  ChannelInv'
<1>1. UNCHANGED <<pnp, shuttingDown, server, rundown, op, sig, media, openPc, file, air, lapses,
                  connects, suspends>>
  BY DEF SendFails
<1>2. Moved(r, "none")
  BY CompletionMoves DEF SendFails, ChannelInv, TypeOK
<1>3. /\ request' \in [Requests -> Request] /\ Incoming' = Incoming
      /\ "mediaOpen" \in Slots => MediaOpen' = MediaOpen
  BY <1>2, OpensAreRequests DEF Moved, Incoming, MediaOpen
<1>4. TypeOK'
  <2>1. TypeOK
    BY DEF ChannelInv
  <2>2. /\ server' \in Server /\ rundown' \in {"idle", "queued", "unregistered", "failed"}
        /\ sig' \in ChannelState /\ media' \in ChannelState
        /\ air' \in [sig : BOOLEAN, media : BOOLEAN]
    BY <1>1, <2>1 DEF TypeOK
  <2> QED BY <1>1, <1>3, <2>1, <2>2, TypesHold
<1>5. SignalingSide' /\ MediaSide'
  BY <1>1, <1>3 DEF ChannelInv, SignalingSide, MediaSide
<1>6. OwnerSide' /\ FreshSide'
  BY <1>1 DEF ChannelInv, OwnerSide, FreshSide
<1> QED BY <1>4, <1>5, <1>6 DEF ChannelInv

(* The requests in the stack. *)
LEMMA CompletionsKeepChannelInv ==
    ASSUME ChannelInv, NEW r \in Requests, Completions(r)
    PROVE  ChannelInv'
<1>1. CASE SetsEvent(r) \/ TransferCompletes(r)
  BY <1>1, TransfersKeepChannelInv
<1>2. CASE r = "incoming"
  BY <1>1, <1>2, IncomingKeepsChannelInv DEF Completions
<1>3. CASE r = "mediaOpen"
  BY <1>1, <1>3, MediaOpenKeepsChannelInv DEF Completions
<1>4. CASE r \notin {"incoming", "mediaOpen"}
  BY <1>1, <1>4, TransfersKeepChannelInv, SendFailsKeepsChannelInv DEF Completions
<1> QED BY <1>2, <1>3, <1>4

(* Nothing is there at the beginning. *)
LEMMA ChannelInvInit ==
    ASSUME Init
    PROVE  ChannelInv
<1>1. TypeOK
  <2>1. request \in [Requests -> Request]
    BY BoundsAssumption DEF Init, Request
  <2>2. op \in Operation /\ (LockFree <=> op.step = "none")
    BY DEF Init, NoOp, Operation, LockFree
  <2>3. connects \in 0 .. MaxConnects /\ suspends \in 0 .. MaxSuspends
    BY BoundsAssumption DEF Init
  <2>4. server \in Server /\ air \in [sig : BOOLEAN, media : BOOLEAN]
    BY DEF Init, Server
  <2> QED BY <2>1, <2>2, <2>3, <2>4 DEF Init, TypeOK, ChannelState
<1>2. /\ Incoming = "none"
      /\ "mediaOpen" \in Slots => MediaOpen = "none"
  BY OpensAreRequests DEF Init, Incoming, MediaOpen
<1>3. op.owner = "free" /\ op.step = "none"
  BY DEF Init, NoOp
<1>4. SignalingSide /\ MediaSide
  BY <1>2, <1>3 DEF Init, SignalingSide, MediaSide, Up
<1>5. OwnerSide /\ FreshSide
  BY <1>3 DEF Init, OwnerSide, FreshSide
<1> QED BY <1>1, <1>4, <1>5 DEF ChannelInv

(* The inductive invariant of the channels (driver/sys/connection.c): who holds the    *)
(* lock, where the two opens are and what the server is, beside the channels' states.  *)
THEOREM ChannelsFit == Spec => []ChannelInv
<1>1. ChannelInv /\ [Next]_vars => ChannelInv'
  <2> SUFFICES ASSUME ChannelInv, [Next]_vars PROVE ChannelInv'
    OBVIOUS
  <2>1. CASE Next
    BY <2>1, ApplicationKeepsChannelInv, OpenKeepsChannelInv, PnpKeepsChannelInv,
       RundownKeepsChannelInv, ShutdownKeepsChannelInv, OwnerKeepsChannelInv,
       HeadsetKeepsChannelInv, CompletionsKeepChannelInv DEF Next
  <2>2. CASE UNCHANGED vars
    <3>1. TypeOK /\ UNCHANGED <<pnp, shuttingDown, op, openPc, file, lapses, suspends, connects>>
      BY <2>2 DEF vars, ChannelInv
    <3>2. /\ server' \in Server /\ rundown' \in {"idle", "queued", "unregistered", "failed"}
          /\ sig' \in ChannelState /\ media' \in ChannelState
          /\ request' \in [Requests -> Request] /\ air' \in [sig : BOOLEAN, media : BOOLEAN]
      BY <2>2, <3>1 DEF vars, TypeOK
    <3>3. TypeOK'
      BY <3>1, <3>2, TypesHold
    <3> QED BY <2>2, <3>3, OthersKeepChannelInv DEF vars
  <2> QED BY <2>1, <2>2
<1>2. Init => ChannelInv
  BY ChannelInvInit
<1> QED BY <1>1, <1>2, PTL DEF Spec

(* The driver (driver/sys/connection.c, device.c) loses track of no channel, and runs  *)
(* down the server of one that is up, for every set of requests and every bound on     *)
(* connects, suspends and late completions.                                            *)
THEOREM ChannelsHold == Spec => []ChannelsAreAccounted
<1>1. ChannelInv => ChannelsAreAccounted
  <2> SUFFICES ASSUME ChannelInv PROVE ChannelsAreAccounted
    OBVIOUS
  <2>1. NoOrphanChannel
    BY DEF ChannelInv, SignalingSide, MediaSide, Incoming, MediaOpen, Up, NoOrphanChannel
  <2>2. ConnectedDrains
    BY DEF ChannelInv, SignalingSide, FreshSide, Up, ConnectedDrains
  <2> QED BY <2>1, <2>2 DEF ChannelInv, ChannelsAreAccounted
<1> QED BY <1>1, ChannelsFit, PTL
=============================================================================
