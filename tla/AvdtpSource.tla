---------------------------- MODULE AvdtpSource ----------------------------
(***************************************************************************)
(* The initiator of an AVDTP stream, protocol/src/avdtp.c: a source        *)
(* remembers the stream's state, the sinks the headset listed and the one  *)
(* being asked, and the command that awaits an answer.  Every operator     *)
(* returns the next source; what the caller must do is Demand of it.       *)
(* A sink is known by what its capabilities hold: "ldac", "other" codecs,  *)
(* "alien" LDAC parameters, or "bad" bytes.                                *)
(***************************************************************************)
EXTENDS Integers, Sequences

SinkKinds == {"ldac", "other", "alien", "bad"}
Signals == {"discover", "all_capabilities", "capabilities", "configure", "open",
            "start", "suspend", "close"}
AvdtpStates ==
    {"idle", "discover_sent", "capabilities_sent", "configuration_sent", "open_sent",
     "waiting_media", "open", "start_sent", "streaming", "suspend_sent", "close_sent",
     "closed", "failed"}

(* avdtp_source_init *)
NewSource ==
    [state |-> "idle", sinks |-> <<>>, index |-> 1, legacy |-> FALSE,
     next |-> 0, pending |-> 0, signal |-> "discover"]

FailSource(s) == [s EXCEPT !.state = "failed"]

(* The label of a command is the next of sixteen. *)
SendCommand(s, signal, state) ==
    [s EXCEPT !.state = state, !.signal = signal,
              !.pending = s.next, !.next = (s.next + 1) % 16]

QueryCurrentSink(s) ==
    [SendCommand(s, "all_capabilities", "capabilities_sent") EXCEPT !.legacy = FALSE]

QueryNextSink(s) ==
    IF s.index >= Len(s.sinks)
      THEN FailSource(s)
      ELSE QueryCurrentSink([s EXCEPT !.index = s.index + 1])

HandleReject(s) ==
    IF s.state # "capabilities_sent" THEN FailSource(s)
    ELSE IF s.signal = "all_capabilities" /\ ~s.legacy
      THEN [SendCommand(s, "capabilities", "capabilities_sent") EXCEPT !.legacy = TRUE]
      ELSE QueryNextSink(s)

HandleCapabilities(s, kind) ==
    IF kind = "other" THEN QueryNextSink(s)
    ELSE IF kind = "ldac" THEN SendCommand(s, "configure", "configuration_sent")
    ELSE FailSource(s)

HandleDiscover(s, sinks) ==
    IF sinks = <<>>
      THEN FailSource(s)
      ELSE QueryCurrentSink([s EXCEPT !.sinks = sinks, !.index = 1])

(* An answer is taken only for the pending label and signal. *)
HandleSignaling(s, p) ==
    IF \/ s.state \in {"failed", "idle", "streaming"}
       \/ p.label # s.pending \/ p.signal # s.signal \/ p.type = "command"
      THEN FailSource(s)
    ELSE IF p.type = "reject" THEN HandleReject(s)
    ELSE CASE s.state = "discover_sent"      -> HandleDiscover(s, p.body)
           [] s.state = "capabilities_sent"  -> HandleCapabilities(s, s.sinks[s.index])
           [] s.state = "configuration_sent" -> SendCommand(s, "open", "open_sent")
           [] s.state = "open_sent"          -> [s EXCEPT !.state = "waiting_media"]
           [] s.state = "start_sent"         -> [s EXCEPT !.state = "streaming"]
           [] s.state = "suspend_sent"       -> [s EXCEPT !.state = "open"]
           [] s.state = "close_sent"         -> [s EXCEPT !.state = "closed"]
           [] OTHER                          -> FailSource(s)

BeginSource(s) ==
    IF s.state = "idle" THEN SendCommand(s, "discover", "discover_sent") ELSE FailSource(s)

MediaChannelOpened(s) ==
    IF s.state = "waiting_media" THEN [s EXCEPT !.state = "open"] ELSE FailSource(s)

StartSource(s) ==
    IF s.state = "open" THEN SendCommand(s, "start", "start_sent") ELSE FailSource(s)

SuspendSource(s) ==
    IF s.state = "streaming" THEN SendCommand(s, "suspend", "suspend_sent") ELSE FailSource(s)

CloseSource(s) ==
    IF s.state = "open" THEN SendCommand(s, "close", "close_sent") ELSE FailSource(s)

(* avdtp_action.kind, read off the state it is returned with. *)
Demand(s) ==
    CASE s.state \in {"discover_sent", "capabilities_sent", "configuration_sent", "open_sent",
                      "start_sent", "suspend_sent", "close_sent"} -> "send"
      [] s.state = "waiting_media" -> "open_media"
      [] s.state = "open"          -> "session_open"
      [] s.state = "streaming"     -> "stream_ready"
      [] s.state = "closed"        -> "session_closed"
      [] OTHER                     -> "error"

(* avdtp_write_single: the command a source has pending. *)
Command(s) == [type |-> "command", label |-> s.pending, signal |-> s.signal, body |-> <<>>]
=============================================================================
