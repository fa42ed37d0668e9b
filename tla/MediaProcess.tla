---------------------------- MODULE MediaProcess ----------------------------
(***************************************************************************)
(* The media process that the installed agent starts (tools/transport_probe.c): *)
(* it opens the signaling channel, asks the headset for a sink with LDAC,  *)
(* configures and starts a stream, feeds it from the endpoint until it is  *)
(* told to stop or the endpoint leaves RUN, and takes everything back.     *)
(***************************************************************************)
EXTENDS Integers, Sequences

CONSTANTS
    MaxOpens,          \* --open-attempts
    MaxPeerCommands,   \* LDAC_PROBE_MAX_PEER_COMMANDS
    MaxHeadsetCommands,\* commands of the headset's own: a bound of the model
    MaxPackets         \* packets of a stream with a duration: a bound of the model

ASSUME ProbeAssumption ==
    {MaxOpens, MaxPackets} \subseteq Nat \ {0} /\ {MaxPeerCommands, MaxHeadsetCommands} \subseteq Nat

VARIABLES
    probe,    \* the process: where it is, its exchange, what it has to take back
    speaker,  \* the headset: its stream, and both directions of the signaling channel
    tap,      \* the virtual endpoint: whether it runs, and the link as last reported to it
    console   \* Ctrl+C, the stop event, and whether stop_requested saw the event

probeVars == <<probe, speaker, tap, console>>

\* --discover, --configure, --media-session, --stream-tone, --play-system, --play-endpoint.
Modes == {"query", "configure", "empty", "finite", "system", "endpoint"}
Continuous == {"system", "endpoint"}

Packet(type, label, signal, body) ==
    [type |-> type, label |-> label, signal |-> signal, body |-> body]

ProbeInit ==
    /\ \E mode \in Modes :
         probe = [pc |-> "starts", mode |-> mode, opens |-> 1, asks |-> "discover", label |-> 0,
                  peers |-> 0, sinks |-> <<>>, configured |-> FALSE, started |-> FALSE, result |-> FALSE,
                  available |-> FALSE, reporting |-> FALSE, sent |-> 0, code |-> 0]
    /\ \E sinks \in {<<"ldac">>, <<"other", "ldac">>, <<"invalid">>, <<>>},
          commands \in 0..MaxHeadsetCommands :
         speaker = [link |-> FALSE, state |-> "idle", sinks |-> sinks,
                    hears |-> <<>>, says |-> <<>>, commands |-> commands]
    /\ tap \in [run : BOOLEAN, link : {"unknown"}]
    /\ console = [cancelled |-> FALSE, event |-> FALSE, seen |-> FALSE]

GoesTo(pc) == probe' = [probe EXCEPT !.pc = pc]
OnlyProbe == UNCHANGED <<speaker, tap, console>>

\* stop_requested: it also remembers that it was the event.
Stopping == console.cancelled \/ console.event
LooksForStop ==
    console' = IF ~console.cancelled /\ console.event
               THEN [console EXCEPT !.cancelled = TRUE, !.seen = TRUE] ELSE console

-----------------------------------------------------------------------------
(* One exchange: the command is written while a read is pending, and what the *)
(* headset asks meanwhile is answered first.                                  *)

\* The next command, with the label it has now.
Asking(p, signal) == [p EXCEPT !.pc = "writes", !.asks = signal]

\* A packet is written; a write that failed or timed out may have reached the headset.
Writes(p, packet, next) ==
    \/ /\ p.link
       /\ speaker' = [p EXCEPT !.hears = Append(@, packet)]
       /\ probe' \in {next, [probe EXCEPT !.pc = "unanswered"]}
    \/ speaker' = p /\ GoesTo("unanswered")

WritesSignaling ==
    /\ probe.pc = "writes"
    /\ Writes(speaker, Packet("command", probe.label, probe.asks, <<>>),
              [probe EXCEPT !.pc = "reads"])
    /\ UNCHANGED <<tap, console>>

\* build_peer_command_response: what the headset asks is answered, and the answer to
\* the command waited for again; START, SUSPEND, OPEN and ABORT have no answer.
PeerAnswers == {"discover", "capabilities", "set", "close"}
PeerAnswer(p) == Packet(IF p.signal = "set" THEN "reject" ELSE "accept", p.label, p.signal, <<>>)

ReadsCommand ==
    /\ probe.pc = "reads" /\ speaker.says # <<>> /\ Head(speaker.says).type = "command"
    /\ LET p == Head(speaker.says)
           read == [speaker EXCEPT !.says = Tail(@)]
       IN  IF probe.peers < MaxPeerCommands /\ p.signal \in PeerAnswers
           THEN Writes(read, PeerAnswer(p), [probe EXCEPT !.peers = @ + 1])
           ELSE speaker' = read /\ GoesTo("unanswered")
    /\ UNCHANGED <<tap, console>>

\* No packet in time, the read fails, or Ctrl+C takes it back.
ReadFails == probe.pc = "reads" /\ GoesTo("unanswered") /\ OnlyProbe

\* parse_expected_response: an answer to another command is no answer.
Judged(p) == IF <<p.label, p.signal>> # <<probe.label, probe.asks>> THEN "unexpected" ELSE p.type

\* DISCOVER is sent with 0; the commands after it count from 1, each answer that was
\* read, whatever it says, moves the count on.
Counted(p) == [p EXCEPT !.peers = 0, !.label = IF p.asks = "discover" THEN 1 ELSE (@ + 1) % 16]

\* The next sink that is asked for its capabilities.
NextSink(p) == IF Len(p.sinks) > 1 THEN Asking([p EXCEPT !.sinks = Tail(@)], "capabilities")
               ELSE [p EXCEPT !.pc = "closes"]

\* What a command that was not accepted means to the caller.
Refused(p, how) ==
    CASE p.asks = "capabilities" /\ how = "reject" -> Asking(p, "legacy")
      [] p.asks = "legacy" /\ how = "reject" -> NextSink(p)
      [] p.asks \in {"set", "open", "start"} -> [p EXCEPT !.pc = "cleanup"]
      [] p.asks \in {"suspend", "close"} -> Asking([p EXCEPT !.result = FALSE], "abort")
      [] p.asks = "abort" -> [p EXCEPT !.result = FALSE, !.pc = "released"]
      [] OTHER -> [p EXCEPT !.pc = "closes"]

\* The first sink with LDAC is taken.
SinkAccepted(p, codec) ==
    CASE codec = "ldac" ->
           IF p.mode = "query" THEN [p EXCEPT !.pc = "holds", !.result = TRUE]
           ELSE [p EXCEPT !.pc = IF p.mode \in Continuous THEN "source" ELSE "chooses"]
      [] codec = "other" -> NextSink(p)
      [] OTHER -> [p EXCEPT !.pc = "closes"]

\* Mutant: a stream that was suspended counts as released.
AcceptedEarly(p, body) ==
    CASE p.asks = "discover" -> IF body = <<>> THEN [p EXCEPT !.pc = "closes"]
                                ELSE Asking([p EXCEPT !.sinks = body], "capabilities")
      [] p.asks \in {"capabilities", "legacy"} -> SinkAccepted(p, Head(body))
      [] p.asks = "set" ->
           LET q == [p EXCEPT !.configured = TRUE]
           IN  IF p.mode = "configure" THEN [q EXCEPT !.result = TRUE, !.pc = "cleanup"]
               ELSE Asking(q, "open")
      [] p.asks = "open" -> [p EXCEPT !.pc = "media"]
      [] p.asks = "start" -> [p EXCEPT !.started = TRUE, !.pc = "started"]
      [] OTHER -> [p EXCEPT !.pc = "released"]
Accepted(p, body) ==
    CASE p.asks = "discover" -> IF body = <<>> THEN [p EXCEPT !.pc = "closes"]
                                ELSE Asking([p EXCEPT !.sinks = body], "capabilities")
      [] p.asks \in {"capabilities", "legacy"} -> SinkAccepted(p, Head(body))
      [] p.asks = "set" ->
           LET q == [p EXCEPT !.configured = TRUE]
           IN  IF p.mode = "configure" THEN [q EXCEPT !.result = TRUE, !.pc = "cleanup"]
               ELSE Asking(q, "open")
      [] p.asks = "open" -> [p EXCEPT !.pc = "media"]
      [] p.asks = "start" -> [p EXCEPT !.started = TRUE, !.pc = "started"]
      [] p.asks = "suspend" -> Asking(p, "close")
      [] OTHER -> [p EXCEPT !.pc = "released"]

ReadsAnswer ==
    /\ probe.pc = "reads" /\ speaker.says # <<>> /\ Head(speaker.says).type # "command"
    /\ speaker' = [speaker EXCEPT !.says = Tail(@)]
    /\ LET p == Head(speaker.says)
       IN  probe' = IF Judged(p) = "accept" THEN Accepted(Counted(probe), p.body)
                    ELSE Refused(Counted(probe), Judged(p))
    /\ UNCHANGED <<tap, console>>

Unanswered == probe.pc = "unanswered" /\ probe' = Refused([probe EXCEPT !.peers = 0], "none") /\ OnlyProbe

Exchange == WritesSignaling \/ ReadsCommand \/ ReadFails \/ ReadsAnswer \/ Unanswered

-----------------------------------------------------------------------------
(* From the driver's interface to a chosen configuration                      *)

\* No interface: 3; no driver info: 1; the profile, the remote device or the
\* incoming server not ready: 4.
FindsInterface ==
    /\ probe.pc = "starts"
    /\ \/ GoesTo("opens")
       \/ \E code \in {1, 3, 4} : probe' = [probe EXCEPT !.pc = "over", !.code = code]
    /\ OnlyProbe

\* run_discover: a refused OPEN_SIGNALING may be tried again; without a channel
\* nothing is closed.  Channel data that is not valid closes what was opened.
OpensSignalingChannel ==
    /\ probe.pc = "opens"
    /\ \/ /\ speaker' = [speaker EXCEPT !.link = TRUE]
          /\ probe' \in {Asking([probe EXCEPT !.opens = 1], "discover"), [probe EXCEPT !.pc = "closes"]}
          /\ UNCHANGED console
       \/ /\ probe' = [probe EXCEPT !.pc = "over", !.code = 5]
          /\ UNCHANGED <<speaker, console>>
       \/ /\ probe.opens < MaxOpens
          /\ LooksForStop
          /\ probe' = IF Stopping THEN [probe EXCEPT !.pc = "over", !.code = 5]
                      ELSE [probe EXCEPT !.opens = @ + 1]
          /\ UNCHANGED speaker
    /\ UNCHANGED tap

\* hold_signaling_channel: until its time is over or the event is set; Ctrl+C fails it.
HoldsChannel ==
    /\ probe.pc = "holds"
    /\ \/ GoesTo("closes")
       \/ console.cancelled /\ probe' = [probe EXCEPT !.pc = "closes", !.result = FALSE]
    /\ OnlyProbe

\* A report of the link's state; the endpoint may not take it.
ReportsLink(state) == tap' = [tap EXCEPT !.link = state]

\* The loopback or the endpoint's source is created and its format set.
OpensSource ==
    /\ probe.pc = "source"
    /\ \/ GoesTo("cleanup")
       \/ GoesTo(IF probe.mode = "endpoint" THEN "format" ELSE "chooses")
    /\ OnlyProbe

\* Five seconds for Windows to reopen a running endpoint in the format asked for; a
\* stop ends the wait early.  CONNECTING is the first report; an old endpoint driver
\* takes none, and audio goes on.
AwaitsFormat ==
    /\ probe.pc = "format"
    /\ \/ /\ ReportsLink("connecting")
          /\ \E heard \in BOOLEAN :
                probe' = [probe EXCEPT !.pc = "chooses", !.available = heard, !.reporting = heard]
          /\ UNCHANGED console
       \/ /\ tap.run                             \* five seconds, or a stop
          /\ GoesTo("cleanup") /\ LooksForStop /\ UNCHANGED tap
       \/ GoesTo("cleanup") /\ UNCHANGED <<tap, console>>     \* no snapshot, no token
    /\ UNCHANGED <<speaker>>

\* The rates and the channel mode must match what the headset offers.
Chooses ==
    /\ probe.pc = "chooses"
    /\ probe' \in {Asking(probe, "set"), [probe EXCEPT !.pc = "cleanup"]}
    /\ OnlyProbe

\* OPEN_MEDIA, then START; a loopback that does not start ends it between the two.
OpensMediaChannel ==
    /\ probe.pc = "media"
    /\ probe' \in {[probe EXCEPT !.pc = "cleanup"]}
                    \cup (IF speaker.link THEN {Asking(probe, "start")} ELSE {})
    /\ OnlyProbe

\* The session with no payload ends well at once.
ReportsConnected ==
    /\ probe.pc = "started"
    /\ LET Goes(reporting) ==
             probe' = IF probe.mode = "empty"
                      THEN [probe EXCEPT !.pc = "cleanup", !.result = TRUE]
                      ELSE [probe EXCEPT !.pc = "encoder", !.reporting = reporting]
       IN  IF probe.reporting THEN ReportsLink("connected") /\ \E heard \in BOOLEAN : Goes(heard)
           ELSE Goes(FALSE) /\ UNCHANGED tap
    /\ UNCHANGED <<speaker, console>>

-----------------------------------------------------------------------------
(* The stream                                                                 *)

EndsWell == [probe EXCEPT !.pc = "cleanup", !.result = TRUE]
EndsBadly == [probe EXCEPT !.pc = "cleanup"]

\* An endpoint that has left RUN meanwhile gets no encoder.
CreatesEncoder ==
    /\ probe.pc = "encoder"
    /\ probe' \in {EndsBadly, IF probe.mode = "endpoint" /\ ~tap.run THEN EndsWell
                              ELSE [probe EXCEPT !.pc = "stream"]}
    /\ OnlyProbe

LooksAtStop ==
    /\ probe.pc = "stream"
    /\ LooksForStop
    /\ probe' = IF Stopping THEN EndsWell ELSE [probe EXCEPT !.pc = "feeds"]
    /\ UNCHANGED <<speaker, tap>>

\* An empty endpoint that left RUN ends the stream, an empty one that runs, or a
\* loopback without sound, plays silence.  PCM that does not yet fill a packet goes
\* round; what is left in an endpoint that stopped is still played.
FeedsPcm ==
    /\ probe.pc = "feeds"
    /\ probe' \in {[probe EXCEPT !.pc = "stream"], [probe EXCEPT !.pc = "plays"], EndsBadly}
                    \cup (IF probe.mode = "endpoint" /\ ~tap.run THEN {EndsWell} ELSE {})
    /\ OnlyProbe

\* One packet, at its time; the wait ends early for a stop, the write is still made.  A
\* second that is over reports the link again and adapts the quality
\* (AbrController); a quality the encoder refuses ends the stream.
PlaysPacket ==
    /\ probe.pc = "plays"
    /\ LooksForStop
    /\ LET played == [probe EXCEPT !.pc = "stream", !.sent = @ + 1]
       IN  \/ probe' = EndsBadly /\ UNCHANGED tap
           \/ /\ speaker.link /\ probe.mode \notin Continuous
              /\ probe' = IF probe.sent + 1 < MaxPackets THEN played ELSE EndsWell
              /\ UNCHANGED tap
           \/ /\ speaker.link /\ probe.mode \in Continuous
              /\ GoesTo("stream") /\ UNCHANGED tap
           \/ /\ speaker.link /\ probe.mode \in Continuous
              /\ LET Goes(reporting) ==
                       \E ok \in BOOLEAN :
                          probe' = [(IF ok THEN probe ELSE EndsBadly) EXCEPT
                                      !.pc = IF ok THEN "stream" ELSE @, !.reporting = reporting]
                 IN  IF probe.reporting
                     THEN ReportsLink("connected") /\ \E heard \in BOOLEAN : Goes(heard)
                     ELSE Goes(FALSE) /\ UNCHANGED tap
    /\ UNCHANGED speaker

-----------------------------------------------------------------------------
(* Taking everything back                                                     *)

\* A started stream is suspended and closed, another configured one aborted.
Cleanup ==
    /\ probe.pc = "cleanup"
    /\ probe' = IF ~probe.configured THEN [probe EXCEPT !.pc = "released"]
                ELSE Asking(probe, IF probe.started THEN "suspend" ELSE "abort")
    /\ IF probe.available /\ probe.started THEN ReportsLink("stopping") ELSE UNCHANGED tap
    /\ UNCHANGED <<speaker, console>>

ReportsDisconnected ==
    /\ probe.pc = "released"
    /\ GoesTo("closes")
    /\ IF probe.available THEN ReportsLink("disconnected") ELSE UNCHANGED tap
    /\ UNCHANGED <<speaker, console>>

\* CLOSE_CHANNELS ends the headset's stream with the channels; Ctrl+C, other than the
\* event, has an exit code of its own.
ClosesChannels ==
    /\ probe.pc = "closes"
    /\ \E closed \in BOOLEAN :
         /\ probe' = [probe EXCEPT !.pc = "over",
                        !.code = IF console.cancelled /\ ~console.seen THEN 130
                                 ELSE IF probe.result /\ closed THEN 0 ELSE 5]
         /\ speaker' = IF closed THEN [speaker EXCEPT !.link = FALSE, !.state = "idle"]
                       ELSE speaker
    /\ UNCHANGED <<tap, console>>

-----------------------------------------------------------------------------
(* The headset, the endpoint and whoever stops the process                    *)

\* AVDTP's states; ABORT is accepted in every state.
After(signal) ==
    CASE signal = "set" -> [idle |-> "configured"]
      [] signal = "open" -> [configured |-> "open"]
      [] signal = "start" -> [open |-> "streaming"]
      [] signal = "suspend" -> [streaming |-> "open"]
      [] signal = "close" -> [open |-> "idle", streaming |-> "idle"]
      [] signal = "abort" -> [s \in {"idle", "configured", "open", "streaming"} |-> "idle"]
      [] OTHER -> [s \in {speaker.state} |-> s]

\* What a sink's capabilities say.
Answer(p) == IF p.signal = "discover" THEN speaker.sinks
             ELSE IF p.signal \in {"capabilities", "legacy"} THEN <<Head(probe.sinks)>>
             ELSE <<>>

\* A command is accepted, rejected or, for long enough, not answered.
HeadsetAnswers ==
    /\ speaker.hears # <<>> /\ Head(speaker.hears).type = "command"
    /\ LET p == Head(speaker.hears)
           read == [speaker EXCEPT !.hears = Tail(@)]
           fits == speaker.state \in DOMAIN After(p.signal)
           says(type, body) == Append(speaker.says, Packet(type, p.label, p.signal, body))
       IN  \/ /\ fits
              /\ speaker' = [read EXCEPT !.state = After(p.signal)[speaker.state],
                                         !.says = says("accept", Answer(p))]
           \/ speaker' = [read EXCEPT !.says = says("reject", <<>>)]
    /\ UNCHANGED <<probe, tap, console>>

\* A CLOSE of its own takes effect when it is accepted.
HeadsetHears ==
    /\ speaker.hears # <<>> /\ Head(speaker.hears).type # "command"
    /\ LET p == Head(speaker.hears)
       IN  speaker' = [speaker EXCEPT !.hears = Tail(@),
                         !.state = IF p.signal = "close" THEN "idle" ELSE @]
    /\ UNCHANGED <<probe, tap, console>>

HeadsetAsks ==
    /\ speaker.link /\ speaker.commands > 0
    /\ \E signal \in {"set", "suspend", "close"} :
         /\ signal \in {"suspend", "close"} => speaker.state = "streaming"
         /\ speaker' = [speaker EXCEPT !.says = Append(@, Packet("command", 0, signal, <<>>)),
                          !.commands = @ - 1,
                          !.state = IF signal = "suspend" THEN "open" ELSE @]
    /\ UNCHANGED <<probe, tap, console>>

LinkIsLost ==
    /\ speaker.link /\ probe.pc # "over"
    /\ speaker' = [speaker EXCEPT !.link = FALSE, !.state = "idle", !.hears = <<>>, !.says = <<>>]
    /\ UNCHANGED <<probe, tap, console>>

EndpointChanges ==
    /\ probe.mode = "endpoint"
    /\ probe.pc \in {"source", "started", "feeds"}
    /\ tap' = [tap EXCEPT !.run = ~@]
    /\ UNCHANGED <<probe, speaker, console>>

ConsoleStops ==
    /\ probe.pc \notin {"starts", "over"}
    /\ \/ ~console.cancelled /\ console' = [console EXCEPT !.cancelled = TRUE]
       \/ ~console.event /\ ~console.cancelled /\ console' = [console EXCEPT !.event = TRUE]
    /\ UNCHANGED <<probe, speaker, tap>>

ProbeSteps ==
    \/ FindsInterface \/ OpensSignalingChannel \/ Exchange \/ HoldsChannel
    \/ OpensSource \/ AwaitsFormat \/ Chooses \/ OpensMediaChannel \/ ReportsConnected
    \/ CreatesEncoder \/ LooksAtStop \/ FeedsPcm \/ PlaysPacket
    \/ Cleanup \/ ReportsDisconnected \/ ClosesChannels

ProbeNext ==
    \/ ProbeSteps
    \/ HeadsetAnswers \/ HeadsetHears \/ HeadsetAsks \/ LinkIsLost
    \/ EndpointChanges \/ ConsoleStops

-----------------------------------------------------------------------------
(* What is checked                                                            *)

\* A process that is about to report success has taken its stream back from the
\* headset, whatever the headset asked in between; and one that reports the link to
\* the endpoint has told it that the link is gone: it does not let go of its source
\* with the endpoint connected.
ProbeEndsClean ==
    probe.pc = "closes" =>
        /\ probe.result => speaker.state = "idle"
        /\ probe.available => tap.link = "disconnected"

\* The agent's stop, or Ctrl+C, ends the process wherever it is.
StoppedProbeEnds == Stopping ~> probe.pc = "over"
=============================================================================
