-------------------------- MODULE StreamingSession --------------------------
(***************************************************************************)
(* One run of the worker's streaming session (RunV1TransportPcmBurstOnce)  *)
(* with the daily worker's options, beside the headset, the endpoint whose *)
(* PCM it reads and the host that stops it.  The session is one thread:    *)
(* pc is the call it is in, and each action is one call with every result  *)
(* it can have.  Audio is known by the stream epoch it comes from.         *)
(***************************************************************************)
EXTENDS AvdtpSource, FiniteSets

CONSTANTS
    SingleGain,     \* no stable-volume checks (single_gain_mode)
    PauseSuspend,   \* SUSPEND while the endpoint is silent (pause_suspend)
    SinkLists,      \* the lists of sinks a headset may answer DISCOVER with
    Formats,        \* rates and sample sizes the endpoint may run in
    MaxEpochs,      \* bound: streams started on the endpoint
    MaxCommands,    \* bound: commands of the headset's own
    MaxRestarts,    \* kMaximumPreflightEpochRestarts
    MaxAttempts,    \* kTransientMediaWriteRetries + 1
    Tolerance       \* read timeouts within pcm_timeout_tolerance_ms

ASSUME SessionAssumption ==
    /\ {SingleGain, PauseSuspend} \subseteq BOOLEAN
    /\ SinkLists \subseteq Seq(SinkKinds)
    /\ Formats # {}
    /\ {MaxEpochs, MaxCommands, MaxRestarts, Tolerance} \subseteq Nat
    /\ MaxAttempts \in Nat \ {0}

VARIABLES
    pc, cont,       \* the call in progress, and what an exchange is for
    src, outbound,  \* the AVDTP source, the packet an exchange sends
    result,         \* V1TransportPcmResult and the locals that outlive a step
    reader,         \* the backend's handle and its overlapped peer read
    pcm,            \* the PCM source object, the block read, the encoder
    stop,           \* what the host has asked for
    wire,           \* packets of the headset nobody has read yet
    headset,        \* its stream, the command it owes an answer
    endpoint        \* the virtual endpoint's stream

session == <<pc, cont, src, outbound, result, reader, pcm>>
world == <<stop, wire, headset, endpoint>>
vars == <<session, world>>

Silent == [type |-> "none", label |-> 0, signal |-> "discover", body |-> <<>>]
Exchanges == {"negotiate", "start", "pause_suspend", "resume_start", "suspend", "close"}
Places ==
    {"prepare_first", "preread", "open", "send", "await", "open_media", "started", "silence",
     "observe", "probe", "read", "rebind", "prepare_rebind", "check", "pace", "write",
     "pause", "paused", "pause_probe", "pause_observe", "prepare_pause", "resumed",
     "final_observe", "end", "suspended", "closed", "finish", "done"}

Init ==
    /\ pc = "prepare_first" /\ cont = "negotiate"
    /\ src = NewSource /\ outbound = Silent
    /\ result = [disposition |-> "none", opened |-> FALSE, cleanup |-> FALSE, held |-> FALSE,
                 leases |-> 0, restarts |-> 0, commands |-> 0,
                 peer |-> {}, graceful |-> FALSE, suspended |-> FALSE, closes |-> 0]
    /\ reader = [open |-> FALSE, peer |-> "none", packet |-> Silent]
    /\ pcm = [held |-> FALSE, fifo |-> 0, block |-> 0, encoder |-> {}, bound |-> 0,
              locked |-> CHOOSE f \in Formats : TRUE, preflight |-> TRUE, force |-> FALSE,
              streak |-> 0, attempts |-> 0, then |-> "observe"]
    /\ stop = "none" /\ wire = <<>>
    /\ headset = [stream |-> "idle", link |-> TRUE, asked |-> Silent, said |-> 0, last |-> "idle"]
    /\ endpoint = [active |-> FALSE, epoch |-> 0, format |-> CHOOSE f \in Formats : TRUE]

-----------------------------------------------------------------------------
(* Ways a call leaves the session. *)

(* SetFailure; Finish *)
FailsWith(r, d) == pc' = "finish" /\ result' = [r EXCEPT !.disposition = d]
Fails(d) == FailsWith(result, d)

(* ERROR_CANCELLED of the backend is a failure unless the host cancelled. *)
Broken == IF stop = "cancel" THEN "cancelled" ELSE "backend"

(* graceful_stop = true; break *)
Breaks == pc' = "final_observe" /\ result' = [result EXCEPT !.graceful = TRUE]

(* lease_acquires and lease_releases, as their difference. *)
Acquired(r) == [r EXCEPT !.held = TRUE, !.leases = r.leases + 1]
Released(r) == [r EXCEPT !.held = FALSE, !.leases = r.leases - 1]

(* native_pcm_source_acquire_consumer and native_pcm_source_destroy *)
Leased(p) == [p EXCEPT !.held = TRUE]
Destroyed(p) == [p EXCEPT !.held = FALSE]

(* V1TransportNativePcmSource::Release lets the lease go in every case: what
   the release property does not give back, closing the handle does. *)
Dropped(p) == Destroyed(p)

(* The one interface of the endpoint answers with an active stream. *)
EndpointAnswers == endpoint.active

(* native_pcm_source_get_snapshot: what the endpoint renders now. *)
Snapshot == [format |-> endpoint.format, epoch |-> endpoint.epoch]

(* CancelPeerSignalingRead: a packet whose read completed unseen is lost. *)
ReadCancelled == [reader EXCEPT !.peer = "none", !.packet = Silent]
PeerRead == [reader EXCEPT !.peer = "posted", !.packet = Silent]

(* Starts an exchange of the pending command of s. *)
Asks(s, c) == src' = s /\ cont' = c /\ outbound' = Command(s) /\ pc' = "send"

(* reset_transport_encoder *)
EncoderReset(p, then) == [p EXCEPT !.encoder = {}, !.attempts = 0, !.then = then]

-----------------------------------------------------------------------------
(* PrepareAudiblePcm: audible PCM before any channel is opened. *)

(* Prepare waits for an active stream and takes the consumer's lease. *)
Prepared(p) == [Leased(p) EXCEPT !.fifo = Snapshot.epoch, !.bound = Snapshot.epoch]

PreparesFirst ==
    /\ pc = "prepare_first"
    /\ \/ stop # "none" /\ Fails("cancelled") /\ UNCHANGED pcm
       \/ /\ stop = "none" /\ EndpointAnswers
          /\ pc' = "preread" /\ result' = Acquired(result)
          /\ pcm' = [Prepared(pcm) EXCEPT !.locked = Snapshot.format]
       \/ stop = "none" /\ Fails("backend") /\ UNCHANGED pcm
    /\ UNCHANGED <<cont, src, outbound, reader, world>>

(* The FIFO is emptied when the driver's answer is of another epoch. *)
Blocks == {pcm.fifo, endpoint.epoch} \ {0}

PrereadsData ==
    /\ pc = "preread" /\ stop = "none"
    /\ \E e \in Blocks, audible \in BOOLEAN :
          /\ pcm' = [pcm EXCEPT !.fifo = e, !.block = e]
          /\ pc' = IF audible THEN "open" ELSE "preread"
    /\ UNCHANGED <<cont, src, outbound, result, reader, world>>

PrereadsStopped ==
    /\ pc = "preread" /\ stop = "none" /\ ~endpoint.active
    /\ pcm' = Dropped(pcm)
    /\ \/ FailsWith([result EXCEPT !.held = FALSE], "cleanup")
       \/ result.restarts >= MaxRestarts /\ FailsWith(Released(result), "protocol")
       \/ /\ result.restarts < MaxRestarts
          /\ pc' = "prepare_first"
          /\ result' = [Released(result) EXCEPT !.restarts = result.restarts + 1]
    /\ UNCHANGED <<cont, src, outbound, reader, world>>

PrereadEnds ==
    /\ pc = "preread"
    /\ Fails(IF stop # "none" THEN "cancelled" ELSE "backend")
    /\ UNCHANGED <<cont, src, outbound, reader, pcm, world>>

-----------------------------------------------------------------------------
(* Signaling: OpenSignaling and the exchanges. *)

(* OpenUniqueInterface refuses no interface, several of them, and a driver
   it does not know; OpenSignaling then opens the channel with retries.
   A stop is seen before the open; a graceful one does not cancel it. *)
OpenIsRefused ==
    \/ stop # "none" /\ Fails("cancelled")
    \/ stop # "cancel" /\ Fails("backend")
ReaderOpened == [reader EXCEPT !.open = TRUE]

OpensSignaling ==
    /\ pc = "open"
    /\ \/ /\ stop = "none" /\ headset.link
          /\ result' = [result EXCEPT !.opened = TRUE]
          /\ reader' = ReaderOpened
          /\ Asks(BeginSource(NewSource), "negotiate")
       \/ /\ OpenIsRefused
          /\ UNCHANGED <<cont, src, outbound, reader>>
    /\ UNCHANGED <<pcm, world>>

(* A SUSPEND or CLOSE goes out although a graceful stop is asked for. *)
CancelOnly == cont \in {"pause_suspend", "suspend", "close"}
ExchangeStops == IF CancelOnly THEN stop = "cancel" ELSE stop # "none"

(* The write of ExchangeSignaling; the read that follows awaits the answer. *)
Written(h) == [h EXCEPT !.asked = IF outbound.type = "command" THEN outbound ELSE @]

ExchangeSends ==
    /\ pc = "send"
    /\ \/ ExchangeStops /\ Fails("cancelled") /\ UNCHANGED headset
       \/ /\ ~ExchangeStops /\ headset.link
          /\ pc' = "await"
          /\ headset' = Written(headset)
          /\ UNCHANGED result
    /\ UNCHANGED <<cont, src, outbound, reader, pcm, stop, wire, endpoint>>

(* WaitForIo: a failed transfer, its timeout, a lost link or the cancel event. *)
IoFails == Fails(Broken)

ExchangeFails ==
    /\ pc \in {"send", "await"} /\ IoFails
    /\ UNCHANGED <<cont, src, outbound, reader, pcm, world>>

(* The commands a headset may give while it is being asked: DISCOVER, its
   capabilities and SET_CONFIGURATION, once each and in this order. *)
PeerMayAsk(signal) ==
    /\ result.commands < 3
    /\ CASE signal = "discover"  -> src.state = "discover_sent" /\ "discover" \notin result.peer
         [] signal \in {"all_capabilities", "capabilities"} ->
                src.state = "capabilities_sent" /\ result.peer = {"discover"}
         [] signal = "configure" ->
                src.state = "capabilities_sent" /\ result.peer = {"discover", "capabilities"}
         [] OTHER                -> FALSE
PeerAsked(signal) == IF signal = "all_capabilities" THEN "capabilities" ELSE signal
PeerAnswer(p) ==
    [p EXCEPT !.type = IF p.signal = "configure" THEN "reject" ELSE "accept"]

ExchangeIsAsked ==
    /\ pc = "await" /\ wire # <<>> /\ Head(wire).type = "command"
    /\ LET p == Head(wire)
           counted == [result EXCEPT !.commands = result.commands + 1]
       IN IF PeerMayAsk(p.signal)
            THEN /\ result' = [counted EXCEPT !.peer = result.peer \cup {PeerAsked(p.signal)}]
                 /\ outbound' = PeerAnswer(p) /\ pc' = "send"
            ELSE FailsWith(counted, "protocol") /\ UNCHANGED outbound
    /\ wire' = Tail(wire)
    /\ UNCHANGED <<cont, src, reader, pcm, stop, headset, endpoint>>

Proceeds(s) ==
    IF cont = "negotiate"
      THEN IF Demand(s) = "send" THEN "send" ELSE "open_media"
      ELSE [start |-> "started", pause_suspend |-> "paused", resume_start |-> "resumed",
            suspend |-> "suspended", close |-> "closed"][cont]

ExchangeIsAnswered ==
    /\ pc = "await" /\ wire # <<>> /\ Head(wire).type # "command"
    /\ LET s == HandleSignaling(src, Head(wire))
       IN /\ src' = s
          /\ IF Demand(s) = "error"
               THEN Fails("protocol") /\ UNCHANGED outbound
               ELSE pc' = Proceeds(s) /\ outbound' = Command(s) /\ UNCHANGED result
    /\ wire' = Tail(wire)
    /\ UNCHANGED <<cont, reader, pcm, stop, headset, endpoint>>

OpensMedia ==
    /\ pc = "open_media"
    /\ \/ /\ headset.link /\ headset.stream = "open"
          /\ Asks(StartSource(MediaChannelOpened(src)), "start") /\ UNCHANGED result
       \/ Fails("backend") /\ UNCHANGED <<cont, src, outbound>>
       \/ Fails("protocol") /\ UNCHANGED <<cont, src, outbound>>
    /\ UNCHANGED <<reader, pcm, world>>

StreamsUnreported(r, preflight) ==
    /\ headset.link
    /\ pc' = "silence" /\ result' = [r EXCEPT !.suspended = FALSE] /\ reader' = PeerRead
    /\ pcm' = [EncoderReset(pcm, "observe") EXCEPT !.preflight = preflight]

(* START is accepted: the host is told and the peer read posted. *)
Streams(r, preflight) ==
    LET streaming == [r EXCEPT !.cleanup = TRUE, !.suspended = FALSE]
    IN \/ /\ headset.link
          /\ pc' = "silence" /\ result' = streaming /\ reader' = PeerRead
          /\ pcm' = [EncoderReset(pcm, "observe") EXCEPT !.preflight = preflight]
       \/ FailsWith(streaming, "backend") /\ UNCHANGED <<reader, pcm>>

StreamStarts ==
    /\ pc = "started" /\ Streams(result, TRUE)
    /\ UNCHANGED <<cont, src, outbound, world>>

-----------------------------------------------------------------------------
(* ObservePeerStreamControl, at the top of both loops and before the end. *)

(* SendPeerSignalingResponse of the CLOSE the headset asked for. *)
CloseAccepted(h) == [h EXCEPT !.stream = "idle"]

Observes(next) ==
    LET p == reader.packet
        counted == [result EXCEPT !.commands = result.commands + IF p.type = "command" THEN 1 ELSE 0]
        closes == /\ p.type = "command" /\ p.signal = "close"
                  /\ src.state \in {"streaming", "open"}
                  /\ counted.commands <= 4 /\ "close" \notin result.peer
    IN CASE reader.peer = "posted" ->
              /\ \/ pc' = next /\ UNCHANGED <<result, reader>>
                 \/ Fails("backend") /\ reader' = ReadCancelled
              /\ UNCHANGED headset
         [] reader.peer = "none" ->
              Fails("backend") /\ reader' = ReadCancelled /\ UNCHANGED headset
         [] reader.peer = "done" /\ ~closes ->
              FailsWith(counted, "protocol") /\ reader' = ReadCancelled /\ UNCHANGED headset
         [] reader.peer = "done" /\ closes ->
              /\ reader' = ReadCancelled
              /\ \/ /\ headset.link
                    /\ headset' = CloseAccepted(headset)
                    /\ FailsWith([counted EXCEPT !.peer = result.peer \cup {"close"},
                                                 !.cleanup = FALSE], "cancelled")
                 \/ FailsWith(counted, "backend") /\ UNCHANGED headset

ObservesPeer ==
    /\ \/ pc = "observe" /\ Observes("probe")
       \/ pc = "pause_observe" /\ Observes("prepare_pause")
       \/ pc = "final_observe" /\ Observes("end")
    /\ UNCHANGED <<cont, src, outbound, pcm, stop, wire, endpoint>>

-----------------------------------------------------------------------------
(* The write loop. *)

(* SendBoundarySilence: zero blocks through the encoder that was reset. *)
SendsSilence ==
    /\ pc = "silence"
    /\ \/ stop # "cancel" /\ headset.link /\ pc' = pcm.then /\ UNCHANGED result
       \/ Fails(Broken)
    /\ UNCHANGED <<cont, src, outbound, reader, pcm, world>>

ProbesCancelOnly ==
    /\ pc = "probe"
    /\ IF stop = "cancel"
         THEN Fails("cancelled")
         ELSE /\ pc' = (IF pcm.preflight THEN "check" ELSE IF pcm.force THEN "rebind" ELSE "read")
              /\ UNCHANGED result
    /\ UNCHANGED <<cont, src, outbound, reader, pcm, world>>

ProbesStop ==
    /\ pc = "probe"
    /\ CASE stop = "cancel"   -> Fails("cancelled")
         [] stop = "graceful" -> Breaks
         [] OTHER -> pc' = (IF pcm.preflight THEN "check" ELSE IF pcm.force THEN "rebind" ELSE "read")
                     /\ UNCHANGED result
    /\ UNCHANGED <<cont, src, outbound, reader, pcm, world>>

(* After a streak of timeouts the encoder starts afresh behind silence. *)
ReadsData ==
    /\ pc = "read"
    /\ \E e \in Blocks :
          LET read == [pcm EXCEPT !.fifo = e, !.block = e, !.streak = 0]
          IN IF pcm.streak = 0
               THEN pcm' = read /\ pc' = "check"
               ELSE pcm' = EncoderReset(read, "check") /\ pc' = "silence"
    /\ UNCHANGED <<cont, src, outbound, result, reader, world>>

ReadTimesOut ==
    /\ pc = "read" /\ endpoint.active /\ pcm.streak < Tolerance
    /\ pcm' = [pcm EXCEPT !.streak = pcm.streak + 1]
    /\ pc' = "observe"
    /\ UNCHANGED <<cont, src, outbound, result, reader, world>>

(* The read failed, or the tolerance of its timeouts is exhausted. *)
ReadFails ==
    /\ pc = "read"
    /\ IF stop = "graceful" THEN Breaks ELSE Fails(Broken)
    /\ UNCHANGED <<cont, src, outbound, reader, pcm, world>>

ReadsStoppedUnsuspended ==
    /\ pc = "read" /\ ~endpoint.active /\ stop = "none"
    /\ pc' = "paused" /\ pcm' = [pcm EXCEPT !.streak = 0]
    /\ UNCHANGED <<cont, src, outbound, result, reader, world>>

ReadsStopped ==
    /\ pc = "read" /\ ~endpoint.active
    /\ CASE stop = "none"     -> /\ pc' = IF PauseSuspend THEN "pause" ELSE "rebind"
                                 /\ UNCHANGED result
         [] stop = "graceful" -> Breaks
         [] OTHER             -> Fails("cancelled")
    /\ pcm' = [pcm EXCEPT !.streak = 0]
    /\ UNCHANGED <<cont, src, outbound, reader, world>>

(* The stream was replaced under the session: lease and encoder are renewed. *)
ReleasesForRebind ==
    /\ pc = "rebind"
    /\ pcm' = [Dropped(pcm) EXCEPT !.force = FALSE]
    /\ \/ FailsWith([result EXCEPT !.held = FALSE], "cleanup")
       \/ /\ result.restarts >= MaxRestarts /\ pc' = "final_observe"
          /\ result' = [Released(result) EXCEPT !.graceful = TRUE]
       \/ /\ result.restarts < MaxRestarts /\ pc' = "prepare_rebind"
          /\ result' = [Released(result) EXCEPT !.restarts = result.restarts + 1]
    /\ UNCHANGED <<cont, src, outbound, reader, world>>

PreparesRebind ==
    /\ pc = "prepare_rebind"
    /\ \/ /\ EndpointAnswers
          /\ result' = [Acquired(result) EXCEPT
                           !.disposition = IF stop = "cancel" THEN "cancelled" ELSE @,
                           !.graceful = stop = "graceful" \/ Snapshot.format # pcm.locked]
          /\ pc' = IF stop = "cancel" THEN "finish"
                   ELSE IF stop = "graceful" \/ Snapshot.format # pcm.locked
                     THEN "final_observe" ELSE "silence"
          /\ pcm' = EncoderReset(Prepared(pcm), "observe")
       \/ /\ IF stop = "graceful" THEN Breaks ELSE Fails(Broken)
          /\ UNCHANGED pcm
    /\ UNCHANGED <<cont, src, outbound, reader, world>>

ChecksFormatOnly(next) ==
    \/ /\ Snapshot.format = pcm.locked /\ next /\ UNCHANGED result
    \/ Breaks /\ UNCHANGED pcm

(* CheckStableVolume, before the block is encoded and before it is sent. *)
ChecksStream(next) ==
    \/ /\ SingleGain \/ Snapshot = [format |-> pcm.locked, epoch |-> pcm.bound]
       /\ next /\ UNCHANGED result
    \/ /\ ~SingleGain /\ Snapshot.format = pcm.locked /\ Snapshot.epoch # pcm.bound
       /\ pcm' = [pcm EXCEPT !.force = TRUE, !.preflight = FALSE]
       /\ pc' = "observe" /\ UNCHANGED result
    \/ ~SingleGain /\ Breaks /\ UNCHANGED pcm

(* Several blocks make a packet. *)
Encodes ==
    /\ pcm' = [pcm EXCEPT !.encoder = pcm.encoder \cup {pcm.block}, !.preflight = FALSE,
                          !.attempts = 0]
    /\ pc' \in {"observe", "pace"}

ChecksBlock ==
    /\ pc = "check" /\ ChecksStream(Encodes)
    /\ UNCHANGED <<cont, src, outbound, reader, world>>

(* WaitUntilSample looks at the cancel event only. *)
Paces ==
    /\ pc = "pace"
    /\ CASE stop = "cancel"   -> Fails("cancelled") /\ UNCHANGED pcm
         [] stop = "graceful" -> Breaks /\ UNCHANGED pcm
         [] OTHER             -> ChecksStream(pc' = "write" /\ UNCHANGED pcm)
    /\ UNCHANGED <<cont, src, outbound, reader, world>>

(* WriteMediaWithTransientNotReadyRetry *)
WritesMedia ==
    /\ pc = "write" /\ headset.link
    /\ pc' = "observe" /\ pcm' = [pcm EXCEPT !.attempts = 0]
    /\ UNCHANGED <<cont, src, outbound, result, reader, world>>

WriteIsNotReady ==
    /\ pc = "write"
    /\ IF pcm.attempts + 1 = MaxAttempts \/ stop # "none"
         THEN Fails(Broken) /\ UNCHANGED pcm
         ELSE pcm' = [pcm EXCEPT !.attempts = pcm.attempts + 1] /\ UNCHANGED <<pc, result>>
    /\ UNCHANGED <<cont, src, outbound, reader, world>>

WriteFails ==
    /\ pc = "write" /\ Fails(Broken)
    /\ UNCHANGED <<cont, src, outbound, reader, pcm, world>>

-----------------------------------------------------------------------------
(* suspend_and_wait_for_render *)

(* The driver refuses to cancel the peer read. *)
ReadIsNotCancelled(r) == FailsWith(r, "backend") /\ UNCHANGED <<cont, src, outbound, reader>>

Suspends ==
    /\ pc = "pause"
    /\ \/ /\ reader' = ReadCancelled
          /\ Asks(SuspendSource(src), "pause_suspend")
          /\ UNCHANGED result
       \/ ReadIsNotCancelled(result)
    /\ UNCHANGED <<pcm, world>>

(* SUSPEND is accepted: the consumer's lease goes while the channels stay. *)
PauseBegins ==
    /\ pc = "paused"
    /\ LET suspended == [result EXCEPT !.cleanup = FALSE, !.suspended = TRUE]
       IN \/ FailsWith(suspended, "cleanup") /\ UNCHANGED reader
          \/ /\ headset.link
             /\ pc' = "pause_probe" /\ result' = Released(suspended) /\ reader' = PeerRead
          \/ FailsWith(Released(suspended), "backend") /\ UNCHANGED reader
    /\ pcm' = Dropped(pcm)
    /\ UNCHANGED <<cont, src, outbound, world>>

ProbesPaused ==
    /\ pc = "pause_probe"
    /\ CASE stop = "cancel"   -> Fails("cancelled")
         [] stop = "graceful" -> Breaks
         [] OTHER             -> pc' = "pause_observe" /\ UNCHANGED result
    /\ UNCHANGED <<cont, src, outbound, reader, pcm, world>>

PreparesResume ==
    /\ pc = "prepare_pause" /\ EndpointAnswers
    /\ IF Snapshot.format = pcm.locked
         THEN \/ /\ result' = Acquired(result) /\ reader' = ReadCancelled
                 /\ Asks(StartSource(src), "resume_start")
              \/ ReadIsNotCancelled(Acquired(result))
         ELSE FailsWith(Acquired(result), "protocol") /\ UNCHANGED <<cont, src, outbound, reader>>
    /\ pcm' = Prepared(pcm)
    /\ UNCHANGED world

(* IsPauseResumeWaitError: the endpoint is not there yet. *)
PrepareWaits ==
    /\ pc = "prepare_pause"
    /\ CASE stop = "cancel"   -> Fails("cancelled")
         [] stop = "graceful" -> Breaks
         [] OTHER             -> \/ ~EndpointAnswers /\ pc' = "pause_probe" /\ UNCHANGED result
                                 \/ Fails("backend")
    /\ UNCHANGED <<cont, src, outbound, reader, pcm, world>>

Resumes ==
    /\ pc = "resumed" /\ Streams(result, FALSE)
    /\ UNCHANGED <<cont, src, outbound, world>>

-----------------------------------------------------------------------------
(* The end of the run and Finish. *)

EndsStream ==
    /\ pc = "end"
    /\ \/ /\ reader' = ReadCancelled
          /\ IF stop = "cancel"
               THEN Fails("cancelled") /\ UNCHANGED <<cont, src, outbound>>
               ELSE /\ IF result.suspended THEN Asks(CloseSource(src), "close")
                                           ELSE Asks(SuspendSource(src), "suspend")
                    /\ UNCHANGED result
       \/ ReadIsNotCancelled(result)
    /\ UNCHANGED <<pcm, world>>

EndsSession ==
    /\ pc = "suspended"
    /\ result' = [result EXCEPT !.cleanup = FALSE]
    /\ Asks(CloseSource(src), "close")
    /\ UNCHANGED <<reader, pcm, world>>

SessionClosed ==
    /\ pc = "closed" /\ Fails("cancelled")
    /\ UNCHANGED <<cont, src, outbound, reader, pcm, world>>

(* CloseSignaling cancels the peer read, closes the channels and the handle. *)
ReaderClosed == [ReadCancelled EXCEPT !.open = FALSE]
ClosesSignaling ==
    IF result.opened
      THEN /\ reader' = ReaderClosed
           /\ headset' = [headset EXCEPT !.stream = "idle", !.asked = Silent,
                                         !.last = headset.stream]
           /\ wire' = <<>>
      ELSE UNCHANGED <<reader, headset, wire>>
SignalingClosed ==
    IF result.opened
      THEN {[result EXCEPT !.disposition = d, !.closes = result.closes + 1] :
               d \in {result.disposition, "cleanup"}}
      ELSE {result}

ReleasesLease(r) ==
    IF r.held
      THEN /\ \/ result' = Released(r)
              \/ pcm.held /\ result' = [r EXCEPT !.held = FALSE, !.disposition = "cleanup"]
           /\ pcm' = Dropped(pcm)
      ELSE result' = r /\ UNCHANGED pcm

(* Finish: the channels, then the lease; the run's locals are gone. *)
Finishes ==
    /\ pc = "finish" /\ pc' = "done"
    /\ ClosesSignaling
    /\ \E r \in SignalingClosed : ReleasesLease(r)
    /\ src' = NewSource /\ outbound' = Silent
    /\ UNCHANGED <<cont, stop, endpoint>>

-----------------------------------------------------------------------------
(* The headset, the endpoint, the host.  What they do while Finish closes the
   run changes nothing it does. *)
Runs == pc \notin {"finish", "done"}

Accepts(h, p) ==
    CASE p.signal \in {"discover", "all_capabilities", "capabilities"} -> h
      [] p.signal = "configure" -> [h EXCEPT !.stream = "configured"]
      [] p.signal = "start"     -> [h EXCEPT !.stream = "streaming"]
      [] p.signal \in {"open", "suspend"} -> [h EXCEPT !.stream = "open"]
      [] p.signal = "close"     -> [h EXCEPT !.stream = "idle"]

HeadsetAnswers ==
    /\ Runs /\ headset.asked.type = "command" /\ headset.link
    /\ \E type \in {"accept", "reject"},
          sinks \in (IF headset.asked.signal = "discover" THEN SinkLists ELSE {<<>>}) :
          /\ wire' = Append(wire, [headset.asked EXCEPT !.type = type, !.body = sinks])
          /\ headset' = [(IF type = "accept" THEN Accepts(headset, headset.asked) ELSE headset)
                           EXCEPT !.asked = Silent]
    /\ UNCHANGED <<session, stop, endpoint>>

HeadsetCommands ==
    /\ Runs /\ headset.link /\ reader.open /\ headset.said < MaxCommands
    /\ \E signal \in (IF headset.stream \in {"open", "streaming"} THEN {"close", "suspend"}
                      ELSE {"discover", "capabilities", "configure"}) :
          wire' = Append(wire, [type |-> "command", label |-> 0, signal |-> signal, body |-> <<>>])
    /\ headset' = [headset EXCEPT !.said = headset.said + 1]
    /\ UNCHANGED <<session, stop, endpoint>>

LinkIsLost ==
    /\ Runs /\ headset.link /\ reader.open
    /\ headset' = [headset EXCEPT !.link = FALSE, !.stream = "idle", !.asked = Silent]
    /\ wire' = <<>>
    /\ UNCHANGED <<session, stop, endpoint>>

(* The overlapped read of the backend completes with a packet.  One that
   timed out unseen is as good as posted: the next poll posts it again. *)
PeerReadCompletes ==
    /\ Runs /\ reader.peer = "posted" /\ wire # <<>>
    /\ wire' = Tail(wire)
    /\ reader' = [reader EXCEPT !.peer = "done", !.packet = Head(wire)]
    /\ UNCHANGED <<pc, cont, src, outbound, result, pcm, stop, headset, endpoint>>

RenderStarts ==
    /\ Runs /\ ~endpoint.active /\ endpoint.epoch < MaxEpochs
    /\ \E f \in Formats :
          endpoint' = [active |-> TRUE, epoch |-> endpoint.epoch + 1, format |-> f]
    /\ UNCHANGED <<session, stop, wire, headset>>

RenderStops ==
    /\ Runs /\ endpoint.active
    /\ endpoint' = [endpoint EXCEPT !.active = FALSE]
    /\ UNCHANGED <<session, stop, wire, headset>>

HostStops ==
    /\ Runs
    /\ \/ stop = "none" /\ stop' = "graceful"
       \/ stop # "cancel" /\ stop' = "cancel"
    /\ UNCHANGED <<session, wire, headset, endpoint>>

SessionStep ==
    \/ PreparesFirst \/ PrereadsData \/ PrereadsStopped \/ PrereadEnds
    \/ OpensSignaling \/ ExchangeSends \/ ExchangeFails \/ ExchangeIsAsked \/ ExchangeIsAnswered
    \/ OpensMedia \/ StreamStarts \/ ObservesPeer
    \/ SendsSilence \/ ProbesStop \/ ReadsData \/ ReadTimesOut \/ ReadFails \/ ReadsStopped
    \/ ReleasesForRebind \/ PreparesRebind \/ ChecksBlock \/ Paces
    \/ WritesMedia \/ WriteIsNotReady \/ WriteFails
    \/ Suspends \/ PauseBegins \/ ProbesPaused \/ PreparesResume \/ PrepareWaits \/ Resumes
    \/ EndsStream \/ EndsSession \/ SessionClosed \/ Finishes

Next ==
    \/ SessionStep
    \/ HeadsetAnswers \/ HeadsetCommands \/ LinkIsLost \/ PeerReadCompletes
    \/ RenderStarts \/ RenderStops \/ HostStops

Spec == Init /\ [][Next]_vars
(* The session's thread runs on: every call it makes has a timeout. *)
FairSpec == Spec /\ WF_vars(SessionStep)

-----------------------------------------------------------------------------
(* The types of the state. *)
Packets ==
    [type : {"none", "command", "accept", "reject"}, label : 0..15, signal : Signals,
     body : SinkLists \cup {<<>>}]
TypeOK ==
    /\ pc \in Places /\ cont \in Exchanges
    /\ src \in [state : AvdtpStates, sinks : SinkLists \cup {<<>>}, index : Nat, legacy : BOOLEAN,
               next : 0..15, pending : 0..15, signal : Signals]
    /\ outbound \in Packets
    /\ result \in [disposition : {"none", "cancelled", "backend", "protocol", "cleanup"},
                  opened : BOOLEAN, cleanup : BOOLEAN, held : BOOLEAN, leases : {0, 1},
                  restarts : 0..MaxRestarts, commands : 0..MaxCommands, peer : SUBSET Signals,
                  graceful : BOOLEAN, suspended : BOOLEAN, closes : {0, 1}]
    /\ reader \in [open : BOOLEAN, peer : {"none", "posted", "done"},
                  packet : Packets]
    /\ pcm \in [held : BOOLEAN, fifo : 0..MaxEpochs, block : 0..MaxEpochs,
               encoder : SUBSET (0..MaxEpochs), bound : 0..MaxEpochs, locked : Formats,
               preflight : BOOLEAN, force : BOOLEAN, streak : 0..Tolerance,
               attempts : 0..MaxAttempts, then : Places]
    /\ stop \in {"none", "graceful", "cancel"}
    /\ wire \in Seq(Packets)
    /\ headset \in [stream : {"idle", "configured", "open", "streaming"}, link : BOOLEAN,
                   asked : Packets, said : 0..MaxCommands,
                   last : {"idle", "configured", "open", "streaming"}]
    /\ endpoint \in [active : BOOLEAN, epoch : 0..MaxEpochs, format : Formats]

(* With the stable-volume checks, a packet about to be sent is made of the
   audio of one endpoint stream, the one the lease was taken for: the encoder
   is renewed whenever the stream changes under the session, wherever in the
   loop, the pause or the preparation that happens.  And media is written, and
   silence sent, only while the headset streams; while the session waits in a
   pause the headset is suspended. *)
MediaMatchesStream ==
    /\ pc = "write" /\ ~SingleGain => pcm.encoder = {pcm.bound}
    /\ headset.link =>
         /\ pc \in {"silence", "write", "read", "pace"} => headset.stream = "streaming"
         /\ pc \in {"pause_probe", "pause_observe", "prepare_pause"} => headset.stream = "open"

(* However the run ends: the endpoint's lease is let go and counted, the
   channels were closed exactly once if they were opened, and no overlapped
   read is left behind the closed handle. *)
EndsAtRest ==
    /\ pcm.held => result.held
    /\ pc = "done" =>
        /\ ~result.held /\ ~pcm.held
        /\ result.disposition # "cleanup" => result.leases = 0
        /\ result.closes = (IF result.opened THEN 1 ELSE 0)
        /\ ~reader.open /\ reader.peer = "none"

(* A run whose headset streams when it comes to close the channels says so
   (cleanup_required), unless it never heard the answer to its START; and what
   was said is still said once they are closed. *)
StreamLeftIsReported ==
    /\ pc = "finish" /\ headset.stream = "streaming" => result.cleanup \/ src.state = "start_sent"
    /\ pc = "done" /\ headset.last = "streaming" =>
         result.cleanup \/ cont \in {"start", "resume_start"}

(* Wherever a run is cut, its account of what it leaves is true. *)
EndsAccounted == TypeOK /\ EndsAtRest /\ StreamLeftIsReported

(* Whatever the headset and the endpoint do, a session told to stop ends. *)
StopReturns == stop # "none" ~> pc = "done"
=============================================================================
