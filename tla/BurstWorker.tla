----------------------------- MODULE BurstWorker -----------------------------
(***************************************************************************)
(* The candidate workers: a process that tells the host it is ready, waits *)
(* to be authorised, runs one bounded session on the driver, reports it by *)
(* one event and then waits to be stopped.  "discovery" asks for the       *)
(* headset's capabilities, "configuration" sets a stream up and closes it, *)
(* "silence" plays a few silent packets in it.  All three have the same    *)
(* shape: every exchange is preceded by a look at the stop event, every    *)
(* failure goes through Finish, which closes the channels.  The daily      *)
(* worker's own session is StreamingSession.                               *)
(***************************************************************************)
EXTENDS AvdtpSource

CONSTANT PacketLimit    \* silent packets of a burst

VARIABLES
    worker,     \* the process: where it is, its events and its exit code
    burst,      \* the session it runs, with its result
    source,     \* the session's avdtp_source
    remote,     \* the headset's end of the stream
    signals     \* the events the host has set

burstVars == <<worker, burst, source, remote, signals>>

Kinds == {"discovery", "configuration", "silence"}
HostSignals == {"stop", "authorize", "graceful", "cancel"}
Reports == {"completed", "retryable", "failed"}

NoBurst(kind) ==
    [kind |-> kind, at |-> "rest", disposition |-> "none", primary |-> "none", stage |-> "none",
     refused |-> FALSE, exchanges |-> 0, signaling |-> FALSE, media |-> FALSE,
     cleanup |-> FALSE, packets |-> 0]

BurstInit ==
    /\ worker = [pc |-> "starts", events |-> {}, code |-> 0]
    /\ burst \in {NoBurst(kind) : kind \in Kinds}
    /\ source = NewSource
    /\ remote = "idle"
    /\ signals = {}

Cancelled == "stop" \in signals

\* Mutant: a cancelled session leaves at once.
LeavesWhenCancelled(b, disposition, stage) ==
    [b EXCEPT !.primary = disposition, !.disposition = disposition, !.stage = stage,
              !.at = IF b.signaling /\ disposition # "cancelled" THEN "finish" ELSE "over"]
\* SetPrimary, then Finish: the first disposition is kept as the primary one.
Fails(b, disposition, stage) ==
    [b EXCEPT !.primary = disposition, !.disposition = disposition, !.stage = stage,
              !.at = IF b.signaling THEN "finish" ELSE "over"]
Broken(b, stage) == Fails(b, IF Cancelled THEN "cancelled" ELSE "backend", stage)

-----------------------------------------------------------------------------
(* The session                                                             *)

OpensSignaling ==
    /\ worker.pc = "runs" /\ burst.at = "rest"
    /\ IF Cancelled
       THEN burst' = Fails(burst, "cancelled", "open") /\ UNCHANGED source
       ELSE \/ /\ burst' = [burst EXCEPT !.signaling = TRUE, !.at = "exchange", !.stage = "negotiate"]
               /\ source' = BeginSource(source)
            \/ \E refused \in BOOLEAN :
                /\ LET b == [burst EXCEPT !.refused = refused]
                   IN  burst' = IF burst.kind = "silence" THEN Fails(b, "backend", "open")
                                ELSE Broken(b, "open")
                /\ UNCHANGED source
    /\ UNCHANGED <<worker, remote, signals>>

\* What the headset makes of a command that reaches it.
Heard(signal) ==
    CASE signal = "configure" -> "configured"
      [] signal \in {"open", "suspend"} -> "open"
      [] signal = "start" -> "streaming"
      [] signal = "close" -> "idle"
      [] OTHER -> remote

\* A look at the stop event, then the command is on its way.
SendsCommand ==
    /\ burst.at = "exchange"
    /\ burst' = IF Cancelled THEN Fails(burst, "cancelled", source.signal)
                ELSE [burst EXCEPT !.at = "answer", !.exchanges = @ + 1, !.stage = source.signal]
    /\ UNCHANGED <<worker, source, remote, signals>>

\* Where the session goes on when a command has been answered.
AfterAnswer(b, s) ==
    CASE s.state = "failed" -> Fails(b, "protocol", b.stage)
      [] b.kind = "discovery" /\ s.state = "configuration_sent" ->
            Fails(b, "succeeded", "capabilities")
      [] Demand(s) = "open_media" -> [b EXCEPT !.at = "media"]
      [] s.state = "streaming" -> [b EXCEPT !.cleanup = TRUE, !.at = "write"]
      [] s.state = "open" -> [b EXCEPT !.cleanup = FALSE, !.at = "close"]
      [] s.state = "closed" -> Fails(b, "succeeded", b.stage)
      [] OTHER -> [b EXCEPT !.at = "exchange"]

\* The answer, a rejection or a packet that is neither; an exchange that fails
\* may have reached the headset.
TakesAnswer ==
    /\ burst.at = "answer"
    /\ \/ \E type \in {"accept", "reject"}, sinks \in {<<"ldac">>, <<"other", "ldac">>, <<"alien">>, <<>>} :
            /\ LET s == HandleSignaling(source, [label |-> source.pending, signal |-> source.signal,
                                                 type |-> type, body |-> sinks])
               IN  source' = s /\ burst' = AfterAnswer(burst, s)
            /\ remote' = IF type = "accept" THEN Heard(source.signal) ELSE remote
       \/ /\ burst' = Fails(burst, "protocol", burst.stage)
          /\ source' = FailSource(source)
          /\ remote' \in {remote, Heard(source.signal)}
       \/ /\ burst' = Broken(burst, burst.stage)
          /\ remote' \in {remote, Heard(source.signal)}
          /\ UNCHANGED source
    /\ UNCHANGED <<worker, signals>>

\* What the backend's device makes of a media channel and of a packet: it
\* succeeds when the driver's answer is whole.
MediaOpened(b) == [b EXCEPT !.media = TRUE]
MediaWritten(b) == [b EXCEPT !.packets = @ + 1]

\* The media channel; only the configuration looks at the stop event first.
OpensMedia ==
    /\ burst.at = "media"
    /\ IF Cancelled /\ burst.kind = "configuration"
       THEN burst' = Fails(burst, "cancelled", "media") /\ UNCHANGED source
       ELSE \/ /\ burst' = [MediaOpened(burst) EXCEPT !.at = "exchange"]
               /\ source' = IF burst.kind = "configuration"
                            THEN CloseSource(MediaChannelOpened(source))
                            ELSE StartSource(MediaChannelOpened(source))
            \/ burst' = Fails(burst, "backend", "media") /\ UNCHANGED source
            \/ /\ burst.kind = "silence"    \* an MTU no packet fits in
               /\ burst' = Fails(MediaOpened(burst), "protocol", "media")
               /\ UNCHANGED source
    /\ UNCHANGED <<worker, remote, signals>>

\* The next silent packet is encoded and written, then the stream suspended.
WritesSilence ==
    /\ burst.at = "write"
    /\ IF burst.packets = PacketLimit
       THEN burst' = [burst EXCEPT !.at = "exchange"] /\ source' = SuspendSource(source)
       ELSE /\ \/ ~Cancelled /\ burst' = MediaWritten(burst)
               \/ Cancelled /\ burst' = Fails(burst, "cancelled", "write")
               \/ ~Cancelled /\ \E d \in {"backend", "protocol"} : burst' = Fails(burst, d, "write")
            /\ UNCHANGED source
    /\ UNCHANGED <<worker, remote, signals>>

ClosesStream ==
    /\ burst.at = "close"
    /\ burst' = [burst EXCEPT !.at = "exchange"]
    /\ source' = CloseSource(source)
    /\ UNCHANGED <<worker, remote, signals>>

\* Finish: the channels are closed; a close that fails hides the disposition
\* but not the primary one.
Finishes ==
    /\ burst.at = "finish"
    /\ \/ burst' = [burst EXCEPT !.at = "over", !.signaling = FALSE, !.media = FALSE]
       \/ burst' = [burst EXCEPT !.at = "over", !.disposition = "cleanup", !.stage = "channels"]
    /\ UNCHANGED <<worker, source, remote, signals>>

SessionSteps ==
    \/ OpensSignaling \/ SendsCommand \/ TakesAnswer \/ OpensMedia
    \/ WritesSilence \/ ClosesStream \/ Finishes

-----------------------------------------------------------------------------
(* The process                                                             *)

SignalsReady ==
    /\ worker.pc = "starts"
    /\ \/ worker' = [worker EXCEPT !.pc = "waits", !.events = {"ready"}]
       \/ worker' = [worker EXCEPT !.pc = "ended", !.code = 4]
    /\ UNCHANGED <<burst, source, remote, signals>>

\* The stop is looked at before the authorisation; ten minutes end the wait.
Authorized ==
    /\ worker.pc = "waits"
    /\ \/ "stop" \in signals /\ worker' = [worker EXCEPT !.pc = "stops"]
       \/ signals \cap {"stop", "authorize"} = {"authorize"} /\ worker' = [worker EXCEPT !.pc = "runs"]
       \/ signals \cap {"stop", "authorize"} = {} /\ worker' = [worker EXCEPT !.pc = "ended", !.code = 5]
    /\ UNCHANGED <<burst, source, remote, signals>>

\* IsStrictlyRetryableOpenFailure: the headset refused the channel, and nothing
\* was exchanged.
IsRetryable(b) ==
    /\ b.disposition = "backend" /\ b.primary = "backend" /\ b.stage = "open"
    /\ b.refused /\ b.exchanges = 0 /\ ~b.signaling

\* The result is written and told by an event; a cancelled one by none.
ReportsResult ==
    /\ worker.pc = "runs" /\ burst.at = "over"
    /\ LET report == CASE burst.disposition = "succeeded" -> {"completed"}
                       [] burst.disposition = "cancelled" -> {}
                       [] OTHER -> IF IsRetryable(burst) THEN {"retryable"} ELSE {"failed"}
       IN  \/ worker' = [worker EXCEPT !.pc = "parked", !.events = @ \cup report]
           \/ \E code \in {6, 7} : \* the result or the event could not be written
                /\ code = 7 => report = {"completed"}
                /\ worker' = [worker EXCEPT !.pc = "parked", !.code = code, !.events = @ \cup {"failed"}]
           \/ /\ report \in {{"retryable"}, {"failed"}}
              /\ worker' = [worker EXCEPT !.pc = "ended", !.code = 8]
    /\ UNCHANGED <<burst, source, remote, signals>>

\* Mutant: the parked worker waits for a graceful stop only.
WaitsForGrace ==
    /\ worker.pc = "parked" /\ {"stop", "graceful"} \subseteq signals
    /\ worker' = [worker EXCEPT !.pc = "stops"]
    /\ UNCHANGED <<burst, source, remote, signals>>
\* The stop it waits for at most ten minutes.
WaitsForStop ==
    /\ worker.pc = "parked"
    /\ worker' = IF "stop" \in signals THEN [worker EXCEPT !.pc = "stops"]
                 ELSE [worker EXCEPT !.pc = "ended", !.code = 9]
    /\ UNCHANGED <<burst, source, remote, signals>>

\* An authorised worker is stopped with a disposition of its transport.
AcknowledgesStop ==
    /\ worker.pc = "stops"
    /\ worker' =
          IF burst.at # "rest" /\ signals \cap {"cancel", "graceful"} = {}
          THEN [worker EXCEPT !.pc = "ended", !.code = 10]
          ELSE [worker EXCEPT !.pc = "ended", !.events = @ \cup {"stopped"}]
    /\ UNCHANGED <<burst, source, remote, signals>>

\* The host authorises a worker that is ready and, at any time, tells it what
\* becomes of its transport before it stops it.
HostAuthorizes ==
    /\ "ready" \in worker.events /\ signals \cap {"authorize", "stop"} = {}
    /\ signals' = signals \cup {"authorize"}
    /\ UNCHANGED <<worker, burst, source, remote>>
HostStops ==
    /\ worker.pc # "ended" /\ "stop" \notin signals
    /\ \/ \E how \in {"graceful", "cancel"} \ signals : signals' = signals \cup {how}
       \/ signals \cap {"graceful", "cancel"} # {} /\ signals' = signals \cup {"stop"}
    /\ UNCHANGED <<worker, burst, source, remote>>

WorkerSteps ==
    \/ SignalsReady \/ Authorized \/ ReportsResult \/ WaitsForStop \/ AcknowledgesStop
BurstNext == WorkerSteps \/ SessionSteps \/ HostAuthorizes \/ HostStops

-----------------------------------------------------------------------------
(* What is checked                                                         *)

\* Whatever step of the session failed or was cancelled: a session that is over
\* holds no channel unless it says that the close failed; a report of completion
\* leaves the headset as it was found; and a retry is offered only when the
\* headset has been told nothing.
BurstEndsClean ==
    /\ signals \subseteq HostSignals /\ worker.events \subseteq Reports \cup {"ready", "stopped"}
    /\ burst.at = "over" =>
            /\ burst.signaling \/ burst.media => burst.disposition = "cleanup"
            /\ "completed" \in worker.events =>
                  remote = "idle" /\ (burst.kind = "silence" => burst.packets = PacketLimit)
            /\ "retryable" \in worker.events =>
                  burst.exchanges = 0 /\ remote = "idle" /\ ~burst.signaling

\* A host that stopped a worker hears of it: the process ends, and unless it could
\* not even start it has reported or acknowledged the stop.
StoppedWorkerEnds ==
    "stop" \in signals ~> worker.pc = "ended" /\ (worker.code = 0 => "stopped" \in worker.events)
=============================================================================
