---------------------------- MODULE SessionProofs ----------------------------
(* The streaming session for every bound, every list of sinks and every order of    *)
(* what the headset, the endpoint and the host do: a packet holds the audio of one   *)
(* stream, media goes out only while the headset streams, and every end of the run   *)
(* accounts for what it leaves.                                                       *)
EXTENDS StreamingSession, FiniteSetTheorems, TLAPS

Sources ==
    [state : AvdtpStates, sinks : SinkLists \cup {<<>>}, index : Nat, legacy : BOOLEAN,
     next : 0..15, pending : 0..15, signal : Signals]
Results ==
    [disposition : {"none", "cancelled", "backend", "protocol", "cleanup"},
     opened : BOOLEAN, cleanup : BOOLEAN, held : BOOLEAN, leases : {0, 1},
     restarts : 0..MaxRestarts, commands : 0..MaxCommands, peer : SUBSET Signals,
     graceful : BOOLEAN, suspended : BOOLEAN, closes : {0, 1}]
Readers == [open : BOOLEAN, peer : {"none", "posted", "done"}, packet : Packets]
Pcms ==
    [held : BOOLEAN, fifo : 0..MaxEpochs, block : 0..MaxEpochs,
     encoder : SUBSET (0..MaxEpochs), bound : 0..MaxEpochs, locked : Formats,
     preflight : BOOLEAN, force : BOOLEAN, streak : 0..Tolerance,
     attempts : 0..MaxAttempts, then : Places]
StreamStates == {"idle", "configured", "open", "streaming"}
Headsets ==
    [stream : StreamStates, link : BOOLEAN, asked : Packets, said : 0..MaxCommands,
     last : StreamStates]
Endpoints == [active : BOOLEAN, epoch : 0..MaxEpochs, format : Formats]

-----------------------------------------------------------------------------
(* Where the session is. *)

Early == {"prepare_first", "preread", "open"}
Playing ==
    {"silence", "observe", "probe", "read", "rebind", "prepare_rebind", "check", "pace",
     "write", "pause"}
Pausing == {"pause_probe", "pause_observe", "prepare_pause"}
Ending == {"final_observe", "end"}
Exchanging == {"send", "await"}
Over == {"finish", "done"}

(* Every command that is counted was one of the headset's own. *)
CommandsIn(w) == {i \in DOMAIN w : w[i].type = "command"}
Noticed == IF reader.peer = "done" /\ reader.packet.type = "command" THEN 1 ELSE 0
SaidSide == result.commands + Cardinality(CommandsIn(wire)) + Noticed <= headset.said

(* Where the lease is held, and what the account of it says. *)
LeaseSide ==
    /\ result.held => result.leases = 1
    /\ result.leases = 1 /\ ~result.held => pc \in Over /\ result.disposition = "cleanup"
    /\ pcm.held => result.held
    /\ pc \in Playing \ {"prepare_rebind"} => result.held
    /\ pc \in {"preread", "open", "open_media", "started", "paused", "resumed"} => result.held
    /\ pc \in Exchanging /\ cont \notin {"suspend", "close"} => result.held
    /\ pc \in {"prepare_first", "prepare_rebind"} \cup Pausing => ~result.held
    /\ pc = "done" => ~result.held /\ ~pcm.held

(* The handle, and what was done with it. *)
ReaderSide ==
    /\ pc \in Early => ~result.opened
    /\ ~result.opened => ~reader.open /\ reader.peer = "none" /\ pc \in Early \cup Over
    /\ pc # "done" => result.closes = 0 /\ headset.last = "idle"
    /\ pc = "done" =>
         /\ result.closes = (IF result.opened THEN 1 ELSE 0)
         /\ ~reader.open /\ reader.peer = "none"

(* The commands of a state, the states an exchange is made in, and the headset's stream *)
(* before and after the command is accepted.                                            *)
Sent == [discover_sent |-> {"discover"},
         capabilities_sent |-> {"all_capabilities", "capabilities"},
         configuration_sent |-> {"configure"}, open_sent |-> {"open"},
         start_sent |-> {"start"}, suspend_sent |-> {"suspend"}, close_sent |-> {"close"}]
SentFor == [negotiate |-> {"discover_sent", "capabilities_sent", "configuration_sent", "open_sent"},
            start |-> {"start_sent"}, resume_start |-> {"start_sent"},
            pause_suspend |-> {"suspend_sent"}, suspend |-> {"suspend_sent"},
            close |-> {"close_sent"}]
Before == [idle |-> "idle", discover_sent |-> "idle", capabilities_sent |-> "idle",
           configuration_sent |-> "idle", open_sent |-> "configured", waiting_media |-> "open",
           open |-> "open", start_sent |-> "open", streaming |-> "streaming",
           suspend_sent |-> "streaming", close_sent |-> "open", closed |-> "idle"]
After == [discover_sent |-> "idle", capabilities_sent |-> "idle",
          configuration_sent |-> "configured", open_sent |-> "open",
          start_sent |-> "streaming", suspend_sent |-> "open", close_sent |-> "idle"]

NoAnswers == \A i \in DOMAIN wire : wire[i].type = "command"
Owes == headset.asked.type = "command"

(* During an exchange the headset owes the answer to its command, or has given it once. *)
ExchangeSide ==
    pc \in Exchanging =>
      /\ src.state \in SentFor[cont] /\ src.signal \in Sent[src.state]
      /\ pc = "send" /\ outbound.type = "command" =>
           /\ outbound = Command(src) /\ ~Owes /\ NoAnswers
           /\ headset.link => headset.stream = Before[src.state]
      /\ Owes =>
           /\ headset.link /\ NoAnswers
           /\ headset.asked = Command(src) /\ headset.stream = Before[src.state]
      /\ \A i \in DOMAIN wire : wire[i].type # "command" =>
           /\ headset.link
           /\ wire[i].type \in {"accept", "reject"}
           /\ wire[i].label = src.pending /\ wire[i].signal = src.signal
           /\ headset.stream = IF wire[i].type = "accept" THEN After[src.state]
                                                          ELSE Before[src.state]
           /\ \A j \in DOMAIN wire : wire[j].type # "command" => j = i

(* Between exchanges nothing is owed, and source and headset agree about the stream. *)
RestSide ==
    pc \notin Exchanging \cup Over =>
      /\ ~Owes /\ NoAnswers
      /\ headset.link => headset.stream = Before[src.state]
      /\ pc \in Early => src = NewSource
      /\ pc = "open_media" => src.state = "waiting_media"
      /\ pc \in Playing \cup {"started", "resumed"} => src.state = "streaming"
      /\ pc \in Pausing \cup {"paused", "suspended"} => src.state = "open"
      /\ pc = "closed" => src.state = "closed"
      /\ pc \in Ending => src.state = (IF result.suspended THEN "open" ELSE "streaming")

(* What the run says of a stream it may leave behind. *)
CleanupSide ==
    /\ pc \in Playing => result.cleanup /\ ~result.suspended
    /\ pc \in Ending /\ ~result.suspended => result.cleanup
    /\ pc \in Pausing => result.suspended
    /\ pc \in Exchanging /\ cont \in {"pause_suspend", "suspend"} => result.cleanup
    /\ ~headset.link => headset.stream = "idle"
    /\ "streaming" \in {headset.stream, headset.last} =>
         result.cleanup \/ cont \in {"start", "resume_start"}
    /\ headset.stream = "streaming" =>
         result.cleanup \/ src.state = "start_sent" \/ pc \in {"started", "resumed", "done"}

(* Streams only get newer, and what was encoded is of the stream the lease was taken for. *)
PcmSide ==
    /\ pcm.bound <= pcm.fifo /\ pcm.fifo <= endpoint.epoch /\ pcm.block <= endpoint.epoch
    /\ pc \in {"read", "rebind", "prepare_rebind", "pause", "paused", "pace", "write"} \cup Pausing
         => ~pcm.preflight
    /\ pc \in Exchanging /\ cont = "pause_suspend" => ~pcm.preflight
    /\ pc \in Early \cup {"open_media", "started"} => pcm.preflight
    /\ pc \in Exchanging /\ cont \in {"negotiate", "start"} => pcm.preflight
    /\ pcm.preflight /\ pc \notin {"prepare_first", "preread"} \cup Over => pcm.bound <= pcm.block
    /\ pc = "check" \/ (pc = "silence" /\ pcm.then = "check") => pcm.bound <= pcm.block
    /\ pcm.then \in {"observe", "check"}
    /\ pc \in Playing /\ ~SingleGain => pcm.encoder \subseteq {pcm.bound}
    /\ pc \in {"pace", "write"} => pcm.encoder # {}
    /\ pcm.attempts < MaxAttempts

SignalSide == ExchangeSide /\ RestSide
RunInv ==
    TypeOK /\ SaidSide /\ LeaseSide /\ ReaderSide /\ SignalSide /\ CleanupSide /\ PcmSide

-----------------------------------------------------------------------------
(* Types. *)

LEMMA Typed ==
    TypeOK <=> /\ pc \in Places /\ cont \in Exchanges
               /\ src \in Sources /\ outbound \in Packets /\ result \in Results
               /\ reader \in Readers /\ pcm \in Pcms
               /\ stop \in {"none", "graceful", "cancel"}
               /\ wire \in Seq(Packets) /\ headset \in Headsets /\ endpoint \in Endpoints
BY DEF TypeOK, Sources, Results, Readers, Pcms, Headsets, StreamStates, Endpoints

(* The limits are numbers, and a write has at least one attempt. *)
LEMMA Limits ==
    /\ MaxEpochs \in Nat /\ MaxCommands \in Nat /\ MaxRestarts \in Nat /\ Tolerance \in Nat
    /\ MaxAttempts \in Nat /\ MaxAttempts >= 1
BY SessionAssumption

(* The empty packet, the command of a source and what a read leaves are packets. *)
LEMMA PacketTypes ==
    /\ Silent \in Packets
    /\ \A s \in Sources : Command(s) \in Packets
    /\ reader \in Readers => ReadCancelled \in Readers /\ PeerRead \in Readers
<1>1. Silent \in Packets
  BY DEF Silent, Packets, Signals
<1>2. \A s \in Sources : Command(s) \in Packets
  BY DEF Command, Packets, Sources
<1>3. reader \in Readers => ReadCancelled \in Readers /\ PeerRead \in Readers
  BY <1>1 DEF ReadCancelled, PeerRead, Readers
<1> QED BY <1>1, <1>2, <1>3

(* A packet that is read, and one that is answered. *)
LEMMA WireTypes ==
    ASSUME wire \in Seq(Packets)
    PROVE  /\ \A i \in DOMAIN wire : wire[i] \in Packets
           /\ wire # <<>> => /\ Head(wire) \in Packets /\ Head(wire) = wire[1]
                             /\ 1 \in DOMAIN wire
                             /\ Tail(wire) \in Seq(Packets)
                             /\ \A i \in DOMAIN Tail(wire) :
                                  /\ i \in Nat /\ i + 1 \in DOMAIN wire
                                  /\ Tail(wire)[i] = wire[i + 1]
           /\ \A p \in Packets :
                /\ Append(wire, p) \in Seq(Packets)
                /\ \A i \in DOMAIN Append(wire, p) :
                     \/ i \in DOMAIN wire /\ Append(wire, p)[i] = wire[i]
                     \/ Append(wire, p)[i] = p
<1>1. \A i \in DOMAIN wire : wire[i] \in Packets
  OBVIOUS
<1>2. ASSUME wire # <<>>
      PROVE  /\ Head(wire) \in Packets /\ Head(wire) = wire[1] /\ 1 \in DOMAIN wire
             /\ Tail(wire) \in Seq(Packets)
             /\ \A i \in DOMAIN Tail(wire) :
                  /\ i \in Nat /\ i + 1 \in DOMAIN wire /\ Tail(wire)[i] = wire[i + 1]
  BY <1>2
<1>3. ASSUME NEW p \in Packets
      PROVE  /\ Append(wire, p) \in Seq(Packets)
             /\ \A i \in DOMAIN Append(wire, p) :
                  \/ i \in DOMAIN wire /\ Append(wire, p)[i] = wire[i]
                  \/ Append(wire, p)[i] = p
  OBVIOUS
<1> QED BY <1>1, <1>2, <1>3

-----------------------------------------------------------------------------
(* Counting the headset's commands. *)

LEMMA CommandsAreFinite ==
    ASSUME NEW w \in Seq(Packets)
    PROVE  IsFiniteSet(CommandsIn(w)) /\ Cardinality(CommandsIn(w)) \in Nat
<1>1. CommandsIn(w) \in SUBSET (1..Len(w))
  BY DEF CommandsIn
<1>2. IsFiniteSet(1..Len(w))
  BY FS_Interval
<1>3. IsFiniteSet(CommandsIn(w))
  BY <1>1, <1>2, FS_Subset
<1> QED BY <1>3, FS_CardinalityType

(* A packet that is added counts if it is a command. *)
LEMMA AppendCounts ==
    ASSUME NEW w \in Seq(Packets), NEW p \in Packets
    PROVE  Cardinality(CommandsIn(Append(w, p))) <=
             Cardinality(CommandsIn(w)) + (IF p.type = "command" THEN 1 ELSE 0)
<1>1. CASE p.type = "command"
  <2> DEFINE S == CommandsIn(w)
  <2>1. CommandsIn(Append(w, p)) = S \cup {Len(w) + 1}
    BY <1>1 DEF CommandsIn
  <2>2. IsFiniteSet(S) /\ Cardinality(S) \in Nat
    BY CommandsAreFinite
  <2> HIDE DEF S
  <2>3. Cardinality(S \cup {Len(w) + 1}) =
          IF Len(w) + 1 \in S THEN Cardinality(S) ELSE Cardinality(S) + 1
    BY <2>2, FS_AddElement
  <2>4. Cardinality(CommandsIn(Append(w, p))) <= Cardinality(S) + 1
    BY <2>1, <2>2, <2>3
  <2> QED BY <1>1, <2>4 DEF S
<1>2. CASE p.type # "command"
  <2>1. CommandsIn(Append(w, p)) = CommandsIn(w)
    BY <1>2 DEF CommandsIn
  <2>2. Cardinality(CommandsIn(w)) \in Nat
    BY CommandsAreFinite
  <2> QED BY <1>2, <2>1, <2>2
<1> QED BY <1>1, <1>2

(* A packet that is read no longer counts. *)
LEMMA TailCounts ==
    ASSUME NEW w \in Seq(Packets), w # <<>>
    PROVE  Cardinality(CommandsIn(Tail(w))) + (IF Head(w).type = "command" THEN 1 ELSE 0) <=
             Cardinality(CommandsIn(w))
<1> DEFINE S == CommandsIn(w)
           T == CommandsIn(Tail(w))
           f == [i \in T |-> i + 1]
<1>1. /\ \A i \in T : i \in Nat /\ i + 1 \in S /\ i + 1 # 1
      /\ 1 \in S <=> Head(w).type = "command"
  BY DEF CommandsIn
<1>2. IsFiniteSet(S) /\ Cardinality(S) \in Nat /\ IsFiniteSet(S \ {1})
      /\ Cardinality(S \ {1}) = IF 1 \in S THEN Cardinality(S) - 1 ELSE Cardinality(S)
  BY CommandsAreFinite, FS_RemoveElement
<1>3. f \in Injection(T, S \ {1})
  BY <1>1 DEF Injection, IsInjective
<1>4. Cardinality(T) <= Cardinality(S \ {1}) /\ Cardinality(T) \in Nat
  <2>1. Tail(w) \in Seq(Packets)
    OBVIOUS
  <2> QED BY <1>2, <1>3, <2>1, FS_Injection, CommandsAreFinite
<1> HIDE DEF S, T
<1>5. Cardinality(T) + (IF Head(w).type = "command" THEN 1 ELSE 0) <= Cardinality(S)
  BY <1>1, <1>2, <1>4
<1> QED BY <1>5 DEF S, T

-----------------------------------------------------------------------------
(* The source.  A command goes out from its state; an answer that is taken moves source *)
(* and headset together.                                                                *)

SentStates ==
    {"discover_sent", "capabilities_sent", "configuration_sent", "open_sent", "start_sent",
     "suspend_sent", "close_sent"}

LEMMA SendsCommand ==
    ASSUME NEW s \in Sources, NEW signal \in Signals, NEW state \in SentStates
    PROVE  /\ SendCommand(s, signal, state) \in Sources
           /\ SendCommand(s, signal, state).state = state
           /\ SendCommand(s, signal, state).signal = signal
<1>1. (s.next + 1) % 16 \in 0..15
  BY DEF Sources
<1>2. state \in AvdtpStates
  BY DEF SentStates, AvdtpStates
<1> QED BY <1>1, <1>2 DEF SendCommand, Sources

(* The kind of the capability request is no part of the state. *)
LEMMA LegacyIsAside ==
    ASSUME NEW s \in Sources, NEW legacy \in BOOLEAN
    PROVE  /\ [s EXCEPT !.legacy = legacy] \in Sources
           /\ [s EXCEPT !.legacy = legacy].state = s.state
           /\ [s EXCEPT !.legacy = legacy].signal = s.signal
BY DEF Sources

(* The source's own refusal. *)
LEMMA SourceFails ==
    ASSUME NEW s \in Sources
    PROVE  FailSource(s) \in Sources /\ FailSource(s).state = "failed"
BY DEF FailSource, Sources, AvdtpStates

(* The first capability request and the next one keep the source in its negotiation. *)
LEMMA SinkQueries ==
    ASSUME NEW s \in Sources
    PROVE  /\ QueryCurrentSink(s) \in Sources
           /\ QueryCurrentSink(s).state = "capabilities_sent"
           /\ QueryCurrentSink(s).signal = "all_capabilities"
           /\ QueryNextSink(s) \in Sources
           /\ QueryNextSink(s).state \in {"failed", "capabilities_sent"}
           /\ QueryNextSink(s).state = "capabilities_sent" =>
                QueryNextSink(s).signal = "all_capabilities"
<1>1. "all_capabilities" \in Signals /\ "capabilities_sent" \in SentStates
  BY DEF Signals, SentStates
<1>2. \A t \in Sources :
        /\ QueryCurrentSink(t) \in Sources
        /\ QueryCurrentSink(t).state = "capabilities_sent"
        /\ QueryCurrentSink(t).signal = "all_capabilities"
  <2> SUFFICES ASSUME NEW t \in Sources
               PROVE  /\ QueryCurrentSink(t) \in Sources
                      /\ QueryCurrentSink(t).state = "capabilities_sent"
                      /\ QueryCurrentSink(t).signal = "all_capabilities"
    OBVIOUS
  <2> DEFINE c == SendCommand(t, "all_capabilities", "capabilities_sent")
  <2>1. c \in Sources /\ c.state = "capabilities_sent" /\ c.signal = "all_capabilities"
    BY <1>1, SendsCommand
  <2>2. QueryCurrentSink(t) = [c EXCEPT !.legacy = FALSE]
    BY DEF QueryCurrentSink
  <2> HIDE DEF c
  <2> QED BY <2>1, <2>2, LegacyIsAside
<1>3. [s EXCEPT !.index = s.index + 1] \in Sources
  BY DEF Sources
<1> QED BY <1>2, <1>3, SourceFails DEF QueryNextSink

(* What an answer makes of a source that has a command pending: a failure, or the state *)
(* after it, in which the headset is as the answer says.                                *)
LEMMA SourceIsAnswered ==
    ASSUME NEW s \in Sources, NEW p \in Packets,
           s.state \in SentStates, s.signal \in Sent[s.state], p.type # "command"
    PROVE  LET n == HandleSignaling(s, p) IN
           /\ n \in Sources
           /\ n.state # "failed" =>
                /\ Before[n.state] = IF p.type = "accept" \/ p.type # "reject"
                                       THEN After[s.state] ELSE Before[s.state]
                /\ s.state \in SentFor["negotiate"] =>
                     n.state \in SentFor["negotiate"] \cup {"waiting_media"}
                /\ n.state \in SentFor["negotiate"] => n.signal \in Sent[n.state]
                /\ s.state = "start_sent" => n.state = "streaming"
                /\ s.state = "suspend_sent" => n.state = "open"
                /\ s.state = "close_sent" => n.state = "closed"
<1> DEFINE n == HandleSignaling(s, p)
           Good(t) ==
             /\ t \in Sources
             /\ t.state # "failed" =>
                  /\ Before[t.state] = IF p.type = "accept" \/ p.type # "reject"
                                         THEN After[s.state] ELSE Before[s.state]
                  /\ s.state \in SentFor["negotiate"] =>
                       t.state \in SentFor["negotiate"] \cup {"waiting_media"}
                  /\ t.state \in SentFor["negotiate"] => t.signal \in Sent[t.state]
                  /\ s.state = "start_sent" => t.state = "streaming"
                  /\ s.state = "suspend_sent" => t.state = "open"
                  /\ s.state = "close_sent" => t.state = "closed"
<1> SUFFICES Good(n)
  OBVIOUS
<1>1. Good(FailSource(s))
  BY SourceFails
<1>2. CASE p.label # s.pending \/ p.signal # s.signal
  BY <1>1, <1>2 DEF HandleSignaling
<1>3. CASE p.label = s.pending /\ p.signal = s.signal /\ p.type = "reject"
  <2>1. n = HandleReject(s)
    BY <1>3 DEF HandleSignaling, SentStates
  <2>2. CASE s.state # "capabilities_sent"
    BY <1>1, <2>1, <2>2 DEF HandleReject
  <2>3. CASE s.state = "capabilities_sent"
    <3>1. "capabilities" \in Signals /\ "capabilities_sent" \in SentStates
      BY DEF Signals, SentStates
    <3>2. \/ n = [SendCommand(s, "capabilities", "capabilities_sent") EXCEPT !.legacy = TRUE]
          \/ n = QueryNextSink(s)
      BY <2>1, <2>3 DEF HandleReject
    <3>3. /\ n \in Sources /\ n.state \in {"failed", "capabilities_sent"}
          /\ n.state = "capabilities_sent" => n.signal \in {"all_capabilities", "capabilities"}
      <4> DEFINE c == SendCommand(s, "capabilities", "capabilities_sent")
      <4>1. c \in Sources /\ c.state = "capabilities_sent" /\ c.signal = "capabilities"
        BY <3>1, SendsCommand
      <4> HIDE DEF c
      <4>2. /\ [c EXCEPT !.legacy = TRUE] \in Sources
            /\ [c EXCEPT !.legacy = TRUE].state = "capabilities_sent"
            /\ [c EXCEPT !.legacy = TRUE].signal = "capabilities"
        BY <4>1, LegacyIsAside
      <4>3. n = [c EXCEPT !.legacy = TRUE] \/ n = QueryNextSink(s)
        BY <3>2 DEF c
      <4> HIDE DEF n
      <4> QED BY <4>2, <4>3, SinkQueries
    <3> HIDE DEF n
    <3> QED BY <1>3, <2>3, <3>3 DEF Before, After, Sent, SentFor
  <2> QED BY <2>2, <2>3
<1>4. CASE p.label = s.pending /\ p.signal = s.signal /\ p.type # "reject"
  <2>1. CASE s.state = "discover_sent"
    <3>1. n = HandleDiscover(s, p.body)
      BY <1>4, <2>1 DEF HandleSignaling
    <3>2. [s EXCEPT !.sinks = p.body, !.index = 1] \in Sources
      BY DEF Sources, Packets
    <3>3. /\ n \in Sources /\ n.state \in {"failed", "capabilities_sent"}
          /\ n.state = "capabilities_sent" => n.signal = "all_capabilities"
      BY <3>1, <3>2, SinkQueries, SourceFails DEF HandleDiscover
    <3> HIDE DEF n
    <3> QED BY <1>4, <2>1, <3>3 DEF Before, After, Sent, SentFor
  <2>2. CASE s.state = "capabilities_sent"
    <3>1. n = HandleCapabilities(s, s.sinks[s.index])
      BY <1>4, <2>2 DEF HandleSignaling
    <3>2. "configure" \in Signals /\ "configuration_sent" \in SentStates
      BY DEF Signals, SentStates
    <3>3. /\ n \in Sources /\ n.state \in {"failed", "capabilities_sent", "configuration_sent"}
          /\ n.state = "capabilities_sent" => n.signal = "all_capabilities"
          /\ n.state = "configuration_sent" => n.signal = "configure"
      BY <3>1, <3>2, SinkQueries, SourceFails, SendsCommand DEF HandleCapabilities
    <3> HIDE DEF n
    <3> QED BY <1>4, <2>2, <3>3 DEF Before, After, Sent, SentFor
  <2>3. CASE s.state = "configuration_sent"
    <3>1. n = SendCommand(s, "open", "open_sent")
      BY <1>4, <2>3 DEF HandleSignaling
    <3>2. "open" \in Signals /\ "open_sent" \in SentStates
      BY DEF Signals, SentStates
    <3>3. n \in Sources /\ n.state = "open_sent" /\ n.signal = "open"
      BY <3>1, <3>2, SendsCommand
    <3> HIDE DEF n
    <3> QED BY <1>4, <2>3, <3>3 DEF Before, After, Sent, SentFor
  <2>4. CASE s.state \in {"open_sent", "start_sent", "suspend_sent", "close_sent"}
    <3> DEFINE then == [open_sent |-> "waiting_media", start_sent |-> "streaming",
                        suspend_sent |-> "open", close_sent |-> "closed"]
    <3>1. n = [s EXCEPT !.state = then[s.state]]
      BY <1>4, <2>4 DEF HandleSignaling
    <3>2. then[s.state] \in AvdtpStates
      BY <2>4 DEF AvdtpStates
    <3>3. n \in Sources /\ n.state = then[s.state]
      BY <3>1, <3>2 DEF Sources
    <3> HIDE DEF n
    <3> QED BY <1>4, <2>4, <3>3 DEF Before, After, Sent, SentFor
  <2> QED BY <2>1, <2>2, <2>3, <2>4 DEF SentStates
<1> QED BY <1>2, <1>3, <1>4

(* The commands of the streaming session itself. *)
LEMMA SourceAsks ==
    ASSUME NEW s \in Sources
    PROVE  /\ s.state = "idle" => /\ BeginSource(s) \in Sources
                                  /\ BeginSource(s).state = "discover_sent"
                                  /\ BeginSource(s).signal = "discover"
           /\ s.state = "waiting_media" => /\ MediaChannelOpened(s) \in Sources
                                           /\ MediaChannelOpened(s).state = "open"
           /\ s.state = "open" => /\ StartSource(s) \in Sources /\ CloseSource(s) \in Sources
                                  /\ StartSource(s).state = "start_sent"
                                  /\ StartSource(s).signal = "start"
                                  /\ CloseSource(s).state = "close_sent"
                                  /\ CloseSource(s).signal = "close"
           /\ s.state = "streaming" => /\ SuspendSource(s) \in Sources
                                       /\ SuspendSource(s).state = "suspend_sent"
                                       /\ SuspendSource(s).signal = "suspend"
<1>1. [s EXCEPT !.state = "open"] \in Sources /\ [s EXCEPT !.state = "open"].state = "open"
  BY DEF Sources, AvdtpStates
<1>3. CASE s.state = "idle"
  <2>1. /\ BeginSource(s) \in Sources
        /\ BeginSource(s).state = "discover_sent" /\ BeginSource(s).signal = "discover"
    <3>1. BeginSource(s) = SendCommand(s, "discover", "discover_sent")
      BY <1>3 DEF BeginSource
    <3>2. "discover" \in Signals /\ "discover_sent" \in SentStates
      BY DEF Signals, SentStates
    <3> QED BY <3>1, <3>2, SendsCommand
  <2> QED BY <1>3, <2>1
<1>4. CASE s.state = "waiting_media"
  <2>1. MediaChannelOpened(s) = [s EXCEPT !.state = "open"]
    BY <1>4 DEF MediaChannelOpened
  <2> QED BY <1>1, <1>4, <2>1
<1>5. CASE s.state = "open"
  <2>1. /\ StartSource(s) \in Sources
        /\ StartSource(s).state = "start_sent" /\ StartSource(s).signal = "start"
    <3>1. StartSource(s) = SendCommand(s, "start", "start_sent")
      BY <1>5 DEF StartSource
    <3>2. "start" \in Signals /\ "start_sent" \in SentStates
      BY DEF Signals, SentStates
    <3> QED BY <3>1, <3>2, SendsCommand
  <2>2. /\ CloseSource(s) \in Sources
        /\ CloseSource(s).state = "close_sent" /\ CloseSource(s).signal = "close"
    <3>1. CloseSource(s) = SendCommand(s, "close", "close_sent")
      BY <1>5 DEF CloseSource
    <3>2. "close" \in Signals /\ "close_sent" \in SentStates
      BY DEF Signals, SentStates
    <3> QED BY <3>1, <3>2, SendsCommand
  <2> QED BY <1>5, <2>1, <2>2
<1>6. CASE s.state = "streaming"
  <2>1. /\ SuspendSource(s) \in Sources
        /\ SuspendSource(s).state = "suspend_sent" /\ SuspendSource(s).signal = "suspend"
    <3>1. SuspendSource(s) = SendCommand(s, "suspend", "suspend_sent")
      BY <1>6 DEF SuspendSource
    <3>2. "suspend" \in Signals /\ "suspend_sent" \in SentStates
      BY DEF Signals, SentStates
    <3> QED BY <3>1, <3>2, SendsCommand
  <2> QED BY <1>6, <2>1
<1> QED BY <1>3, <1>4, <1>5, <1>6

(* A new source is idle. *)
LEMMA NewSourceType == NewSource \in Sources /\ NewSource.state = "idle"
BY DEF NewSource, Sources, AvdtpStates, Signals

-----------------------------------------------------------------------------
(* What many steps have in common. *)

Dispositions == {"cancelled", "backend", "protocol", "cleanup"}
Calmed == [pcm EXCEPT !.streak = 0]

(* The count of the headset's commands, where nothing is read or written. *)
LEMMA SaidKeeps ==
    ASSUME TypeOK, SaidSide, wire' = wire, headset'.said = headset.said,
           result'.commands = result.commands, reader' \in {reader, ReadCancelled, PeerRead}
    PROVE  SaidSide'
<1>1. CommandsIn(wire)' = CommandsIn(wire)
  BY DEF CommandsIn
<1>2. Cardinality(CommandsIn(wire)) \in Nat
  BY CommandsAreFinite, Typed
<1>3. Noticed' \in {0, Noticed} /\ Noticed \in {0, 1}
  BY Typed DEF Noticed, ReadCancelled, PeerRead, Readers
<1>4. result.commands \in Nat /\ headset.said \in Nat
  BY Typed, Limits DEF Results, Headsets
<1> QED BY <1>1, <1>2, <1>3, <1>4 DEF SaidSide

(* What a failure leaves the handle as: the read posted, seen, or cancelled. *)
LEMMA ReaderKeeps ==
    ASSUME TypeOK, ReaderSide, reader' \in {reader, ReadCancelled}
    PROVE  reader' \in Readers /\ reader'.open = reader.open
           /\ (reader.peer = "none" => reader'.peer = "none")
BY Typed, PacketTypes DEF ReadCancelled, Readers

LEMMA CalmedKeeps ==
    ASSUME TypeOK, pcm' \in {pcm, Calmed}
    PROVE  /\ pcm' \in Pcms
           /\ pcm'.held = pcm.held /\ pcm'.fifo = pcm.fifo /\ pcm'.block = pcm.block
           /\ pcm'.encoder = pcm.encoder /\ pcm'.bound = pcm.bound
           /\ pcm'.preflight = pcm.preflight /\ pcm'.attempts = pcm.attempts
           /\ pcm'.then = pcm.then
BY Typed, Limits, SMTT(30) DEF Calmed, Pcms

(* A call that fails ends the run, and everything is left for Finish. *)
LEMMA FailureKeeps ==
    ASSUME RunInv, pc \notin Over \cup {"started", "resumed"}, NEW d \in Dispositions, Fails(d),
           UNCHANGED <<cont, src, outbound, world>>,
           reader' \in {reader, ReadCancelled}, pcm' \in {pcm, Calmed}
    PROVE  RunInv'
<1> USE DEF RunInv
<1>1. /\ result' \in Results /\ pc' = "finish"
      /\ result'.held = result.held /\ result'.leases = result.leases
      /\ result'.opened = result.opened /\ result'.cleanup = result.cleanup
      /\ result'.commands = result.commands /\ result'.closes = result.closes
  BY Typed DEF Fails, FailsWith, Results, Dispositions
<1>2. reader' \in Readers /\ reader'.open = reader.open
      /\ (reader.peer = "none" => reader'.peer = "none")
  BY ReaderKeeps
<1>3. /\ pcm' \in Pcms
      /\ pcm'.held = pcm.held /\ pcm'.fifo = pcm.fifo /\ pcm'.block = pcm.block
      /\ pcm'.bound = pcm.bound /\ pcm'.attempts = pcm.attempts /\ pcm'.then = pcm.then
  BY CalmedKeeps
<1>4. TypeOK'
  BY <1>1, <1>2, <1>3, Typed DEF world, Places, TypeOK, Sources, Results, Readers, Pcms,
     Headsets, StreamStates, Endpoints
<1>5. SaidSide'
  BY <1>1, SaidKeeps DEF world
<1>6. LeaseSide'
  BY <1>1, <1>3 DEF LeaseSide, Over, Playing, Pausing, Exchanging
<1>7. ReaderSide'
  BY <1>1, <1>2 DEF ReaderSide, Over, Early, world
<1>8. SignalSide'
  BY <1>1 DEF SignalSide, ExchangeSide, RestSide, Over, Exchanging
<1>9. CleanupSide'
  BY <1>1 DEF CleanupSide, Playing, Pausing, Ending, Exchanging, Over, world
<1>10. PcmSide'
  BY <1>1, <1>3 DEF PcmSide, Early, Playing, Pausing, Over, Exchanging, world
<1> QED BY <1>4, <1>5, <1>6, <1>7, <1>8, <1>9, <1>10

(* A graceful stop leaves the loop or the pause for the last look at the headset. *)
LEMMA BreakKeeps ==
    ASSUME RunInv, pc \in Playing \cup Pausing, Breaks,
           UNCHANGED <<cont, src, outbound, reader, world>>, pcm' \in {pcm, Calmed}
    PROVE  RunInv'
<1> USE DEF RunInv
<1>1. /\ result' \in Results /\ pc' = "final_observe"
      /\ result'.held = result.held /\ result'.leases = result.leases
      /\ result'.opened = result.opened /\ result'.cleanup = result.cleanup
      /\ result'.commands = result.commands /\ result'.closes = result.closes
      /\ result'.suspended = result.suspended
  BY Typed DEF Breaks, Results
<1>2. /\ pcm' \in Pcms
      /\ pcm'.held = pcm.held /\ pcm'.fifo = pcm.fifo /\ pcm'.block = pcm.block
      /\ pcm'.bound = pcm.bound /\ pcm'.attempts = pcm.attempts /\ pcm'.then = pcm.then
      /\ pcm'.preflight = pcm.preflight
  BY CalmedKeeps
<1>3. TypeOK'
  BY <1>1, <1>2, Typed DEF world, Places, TypeOK, Sources, Results, Readers, Pcms,
     Headsets, StreamStates, Endpoints
<1>4. SaidSide'
  BY <1>1, SaidKeeps DEF world
<1>5. LeaseSide'
  BY <1>1, <1>2 DEF LeaseSide, Over, Playing, Pausing, Exchanging
<1>6. ReaderSide'
  BY <1>1 DEF ReaderSide, Over, Early, Playing, Pausing, world
<1>7. SignalSide'
  BY <1>1 DEF SignalSide, ExchangeSide, RestSide, Over, Exchanging, Playing, Pausing, Early,
     Ending, CleanupSide, Owes, NoAnswers, world
<1>8. CleanupSide'
  BY <1>1 DEF CleanupSide, Playing, Pausing, Ending, Exchanging, world
<1>9. PcmSide'
  BY <1>1, <1>2 DEF PcmSide, Early, Playing, Pausing, Over, Exchanging, world
<1> QED BY <1>3, <1>4, <1>5, <1>6, <1>7, <1>8, <1>9

(* A call between two exchanges that reads, encodes, writes or waits. *)
Alike ==
    \/ {pc, pc'} \subseteq {"preread", "open"}
    \/ {pc, pc'} \subseteq Playing \ {"prepare_rebind"}
    \/ {pc, pc'} \subseteq Pausing
    \/ {pc, pc'} \subseteq Ending

LEMMA MoveKeeps ==
    ASSUME RunInv, Alike, UNCHANGED <<cont, src, outbound, result, reader, world>>,
           pcm' \in Pcms, pcm'.held = pcm.held, PcmSide'
    PROVE  RunInv'
<1> USE DEF RunInv
<1>1. pc \in Places /\ pc' \in Places /\ pc' \notin Over \cup Exchanging
      /\ pc \notin Over \cup Exchanging
  BY DEF Alike, Playing, Pausing, Ending, Places, Over, Exchanging
<1>2. TypeOK'
  BY <1>1, Typed, SMTT(30) DEF world, TypeOK, Sources, Results, Readers, Pcms,
     Headsets, StreamStates, Endpoints
<1>3. SaidSide'
  BY SaidKeeps DEF world
<1>4. LeaseSide'
  BY DEF Alike, LeaseSide, Over, Playing, Pausing, Ending, Exchanging
<1>5. ReaderSide'
  BY DEF Alike, ReaderSide, Over, Early, Playing, Pausing, Ending, world
<1>6. SignalSide'
  BY <1>1 DEF Alike, SignalSide, ExchangeSide, RestSide, Over, Exchanging, Playing, Pausing,
     Early, Ending, Owes, NoAnswers, world
<1>7. CleanupSide'
  BY DEF Alike, CleanupSide, Playing, Pausing, Ending, Exchanging, world
<1> QED BY <1>2, <1>3, <1>4, <1>5, <1>6, <1>7

(* An exchange begins from a state in which source and headset agree. *)
LEMMA AsksKeeps ==
    ASSUME RunInv, pc \notin Over \cup Exchanging,
           NEW s \in Sources, NEW c \in Exchanges, Asks(s, c), UNCHANGED world,
           s.state \in SentFor[c], s.signal \in Sent[s.state],
           Before[s.state] = Before[src.state]
    PROVE  /\ SignalSide' /\ pc' = "send" /\ cont' = c
           /\ pc' \in Places /\ cont' \in Exchanges /\ src' \in Sources /\ outbound' \in Packets
<1> USE DEF RunInv
<1>1. /\ src' = s /\ cont' = c /\ outbound' = Command(s) /\ pc' = "send"
      /\ wire' = wire /\ headset' = headset
  BY DEF Asks, world
<1>2. ~Owes /\ NoAnswers /\ (headset.link => headset.stream = Before[src.state])
  BY DEF SignalSide, RestSide
<1>3. ExchangeSide'
  BY <1>1, <1>2 DEF ExchangeSide, Owes, NoAnswers
<1>4. RestSide'
  BY <1>1 DEF RestSide, Exchanging
<1>5. Command(s) \in Packets
  BY PacketTypes
<1> QED BY <1>1, <1>3, <1>4, <1>5 DEF SignalSide, Places

(* The parts that hold at every step into Finish, whatever the call said of the stream. *)
LEMMA FinishSides ==
    ASSUME pc' = "finish"
    PROVE  SignalSide'
BY DEF SignalSide, ExchangeSide, RestSide, Exchanging, Over

(* The type of the rest of the state, put together. *)
LEMMA TypeFrom ==
    ASSUME TypeOK, pc' \in Places, cont' \in Exchanges, src' \in Sources,
           outbound' \in Packets, result' \in Results, reader' \in Readers, pcm' \in Pcms,
           stop' \in {"none", "graceful", "cancel"}, wire' \in Seq(Packets),
           headset' \in Headsets, endpoint' \in Endpoints
    PROVE  TypeOK'
BY DEF TypeOK, Sources, Results, Readers, Pcms, Headsets, StreamStates, Endpoints

-----------------------------------------------------------------------------
(* Before a channel is open. *)

(* The lease is taken where none is held, and given back where one is. *)
LEMMA LeaseTypes ==
    ASSUME TypeOK, LeaseSide
    PROVE  /\ ~result.held /\ pc \notin Over =>
                /\ Acquired(result) \in Results
                /\ Acquired(result).held /\ Acquired(result).leases = 1
           /\ result.held =>
                /\ Released(result) \in Results
                /\ ~Released(result).held /\ Released(result).leases = 0
<1>1. ~result.held /\ pc \notin Over => result.leases = 0
  BY Typed DEF LeaseSide, Results
<1>2. ASSUME ~result.held, pc \notin Over
      PROVE  /\ Acquired(result) \in Results
             /\ Acquired(result).held /\ Acquired(result).leases = 1
  <2>1. result.leases + 1 = 1
    BY <1>1, <1>2
  <2>2. Acquired(result) = [result EXCEPT !.held = TRUE, !.leases = 1]
    BY <2>1 DEF Acquired
  <2> QED BY <2>2, Typed DEF Results
<1>3. ASSUME result.held
      PROVE  /\ Released(result) \in Results
             /\ ~Released(result).held /\ Released(result).leases = 0
  <2>1. result.leases - 1 = 0
    BY <1>3 DEF LeaseSide
  <2>2. Released(result) = [result EXCEPT !.held = FALSE, !.leases = 0]
    BY <2>1 DEF Released
  <2> QED BY <2>2, Typed DEF Results
<1> QED BY <1>2, <1>3

(* What a lease takes over: the stream it finds is the one the audio is of. *)
LEMMA PreparedTypes ==
    ASSUME TypeOK, PcmSide
    PROVE  /\ Prepared(pcm) \in Pcms
           /\ Prepared(pcm) = [pcm EXCEPT !.held = TRUE, !.fifo = endpoint.epoch,
                                          !.bound = endpoint.epoch]
           /\ Dropped(pcm) \in Pcms /\ Dropped(pcm) = [pcm EXCEPT !.held = FALSE]
BY Typed DEF Prepared, Leased, Snapshot, Dropped, Destroyed, Pcms, Endpoints

LEMMA PreparesFirstKeeps == RunInv /\ PreparesFirst => RunInv'
<1> SUFFICES ASSUME RunInv, PreparesFirst PROVE RunInv'
  OBVIOUS
<1> USE DEF RunInv
<1>1. CASE Fails("cancelled") /\ UNCHANGED pcm
  BY <1>1, FailureKeeps DEF PreparesFirst, Dispositions, Over
<1>2. CASE Fails("backend") /\ UNCHANGED pcm
  BY <1>2, FailureKeeps DEF PreparesFirst, Dispositions, Over
<1>3. CASE /\ pc' = "preread" /\ result' = Acquired(result)
           /\ pcm' = [Prepared(pcm) EXCEPT !.locked = Snapshot.format]
  <2>1. /\ pc = "prepare_first" /\ UNCHANGED <<cont, src, outbound, reader, world>>
        /\ wire' = wire /\ headset' = headset /\ endpoint' = endpoint /\ stop' = stop
    BY DEF PreparesFirst, world
  <2>2. result' \in Results /\ result'.held /\ result'.leases = 1
    BY <1>3, <2>1, LeaseTypes DEF LeaseSide, Over
  <2>3. /\ result'.opened = result.opened /\ result'.cleanup = result.cleanup
        /\ result'.commands = result.commands /\ result'.closes = result.closes
    BY <1>3, Typed DEF Acquired, Results
  <2>4. /\ pcm' \in Pcms /\ pcm'.fifo = endpoint.epoch /\ pcm'.bound = endpoint.epoch
        /\ pcm'.block = pcm.block /\ pcm'.then = pcm.then /\ pcm'.attempts = pcm.attempts
        /\ pcm'.preflight = pcm.preflight
    BY <1>3, Typed, PreparedTypes DEF Pcms, Endpoints, Snapshot
  <2>5. TypeOK'
    BY <1>3, <2>1, <2>2, <2>4, Typed, TypeFrom DEF Places
  <2>6. SaidSide'
    BY <2>1, <2>3, SaidKeeps
  <2>7. LeaseSide'
    BY <1>3, <2>2 DEF LeaseSide, Over, Playing, Pausing, Exchanging
  <2>8. ReaderSide'
    BY <1>3, <2>1, <2>3 DEF ReaderSide, Early, Over
  <2>9. SignalSide'
    BY <1>3, <2>1 DEF SignalSide, ExchangeSide, RestSide, Exchanging, Over, Early, Playing,
       Pausing, Ending, Owes, NoAnswers
  <2>10. CleanupSide'
    BY <1>3, <2>1, <2>3 DEF CleanupSide, Playing, Ending, Pausing, Exchanging
  <2>11. PcmSide'
    BY <1>3, <2>1, <2>4, Typed DEF PcmSide, Early, Playing, Pausing, Exchanging, Pcms, Endpoints
  <2> QED BY <2>5, <2>6, <2>7, <2>8, <2>9, <2>10, <2>11
<1> QED BY <1>1, <1>2, <1>3 DEF PreparesFirst

(* A block that is read is of the FIFO's stream or of the endpoint's. *)
LEMMA BlocksFit ==
    ASSUME TypeOK, PcmSide, NEW e \in Blocks
    PROVE  e \in 0..MaxEpochs /\ pcm.fifo <= e /\ e <= endpoint.epoch /\ pcm.bound <= e
BY Typed DEF Blocks, PcmSide, Pcms, Endpoints

LEMMA PrereadsDataKeeps == RunInv /\ PrereadsData => RunInv'
<1> SUFFICES ASSUME RunInv, PrereadsData PROVE RunInv'
  OBVIOUS
<1> USE DEF RunInv
<1>1. PICK e \in Blocks, audible \in BOOLEAN :
        /\ pcm' = [pcm EXCEPT !.fifo = e, !.block = e]
        /\ pc' = IF audible THEN "open" ELSE "preread"
  BY DEF PrereadsData
<1>2. /\ pcm' \in Pcms /\ pcm'.held = pcm.held /\ pcm'.fifo = e /\ pcm'.block = e
      /\ pcm'.bound = pcm.bound /\ pcm'.then = pcm.then /\ pcm'.attempts = pcm.attempts
      /\ pcm'.preflight = pcm.preflight
  BY <1>1, Typed, BlocksFit DEF Pcms
<1>3. PcmSide'
  BY <1>1, <1>2, Typed, BlocksFit DEF PcmSide, PrereadsData, Early, Playing, Pausing, Exchanging, world,
     Pcms, Endpoints
<1> QED BY <1>1, <1>2, <1>3, MoveKeeps DEF PrereadsData, Alike

(* The stream ends before anything was audible: the lease goes, and the run tries again. *)
LEMMA PrereadsStoppedKeeps == RunInv /\ PrereadsStopped => RunInv'
<1> SUFFICES ASSUME RunInv, PrereadsStopped PROVE RunInv'
  OBVIOUS
<1> USE DEF RunInv
<1>1. /\ pc = "preread" /\ result.held /\ result.leases = 1
      /\ UNCHANGED <<cont, src, outbound, reader>>
      /\ wire' = wire /\ headset' = headset /\ endpoint' = endpoint /\ stop' = stop
      /\ pcm' = Dropped(pcm)
  BY DEF PrereadsStopped, world, LeaseSide
<1>2. /\ pcm' \in Pcms /\ ~pcm'.held /\ pcm'.fifo = pcm.fifo /\ pcm'.block = pcm.block
      /\ pcm'.bound = pcm.bound /\ pcm'.then = pcm.then /\ pcm'.attempts = pcm.attempts
      /\ pcm'.preflight = pcm.preflight
  BY <1>1, Typed, PreparedTypes DEF Pcms
<1>3. /\ result' \in Results /\ ~result'.held
      /\ result'.leases = 0 \/ (result'.disposition = "cleanup" /\ pc' = "finish")
      /\ result'.opened = result.opened /\ result'.cleanup = result.cleanup
      /\ result'.commands = result.commands /\ result'.closes = result.closes
      /\ pc' \in {"finish", "prepare_first"}
  <2> DEFINE r == Released(result)
  <2>1. /\ r \in Results /\ ~r.held /\ r.leases = 0
        /\ r.opened = result.opened /\ r.cleanup = result.cleanup
        /\ r.commands = result.commands /\ r.closes = result.closes
        /\ r.restarts = result.restarts
    BY <1>1, Typed, LeaseTypes DEF Released, Results
  <2>2. \/ FailsWith([result EXCEPT !.held = FALSE], "cleanup")
        \/ FailsWith(r, "protocol")
        \/ /\ result.restarts < MaxRestarts /\ pc' = "prepare_first"
           /\ result' = [r EXCEPT !.restarts = result.restarts + 1]
    BY DEF PrereadsStopped
  <2> HIDE DEF r
  <2>3. CASE FailsWith([result EXCEPT !.held = FALSE], "cleanup")
    BY <2>3, Typed DEF FailsWith, Results
  <2>4. CASE FailsWith(r, "protocol")
    BY <2>1, <2>4 DEF FailsWith, Results
  <2>5. CASE /\ result.restarts < MaxRestarts /\ pc' = "prepare_first"
             /\ result' = [r EXCEPT !.restarts = result.restarts + 1]
    <3>1. result.restarts + 1 \in 0..MaxRestarts
      BY <2>5, Typed, Limits DEF Results
    <3> QED BY <2>1, <2>5, <3>1 DEF Results
  <2> QED BY <2>2, <2>3, <2>4, <2>5
<1>4. TypeOK'
  BY <1>1, <1>2, <1>3, Typed, TypeFrom DEF Places
<1>5. SaidSide'
  BY <1>1, <1>3, SaidKeeps
<1>6. LeaseSide'
  BY <1>1, <1>2, <1>3 DEF LeaseSide, Over, Playing, Pausing, Exchanging
<1>7. ReaderSide'
  BY <1>1, <1>3 DEF ReaderSide, Early, Over
<1>8. SignalSide'
  BY <1>1, <1>3 DEF SignalSide, ExchangeSide, RestSide, Exchanging, Over, Early, Playing,
     Pausing, Ending, Owes, NoAnswers
<1>9. CleanupSide'
  BY <1>1, <1>3 DEF CleanupSide, Playing, Ending, Pausing, Exchanging
<1>10. PcmSide'
  BY <1>1, <1>2, <1>3 DEF PcmSide, Early, Playing, Pausing, Exchanging, Over
<1> QED BY <1>4, <1>5, <1>6, <1>7, <1>8, <1>9, <1>10

LEMMA PrereadEndsKeeps == RunInv /\ PrereadEnds => RunInv'
BY FailureKeeps DEF PrereadEnds, Dispositions, Over, RunInv

-----------------------------------------------------------------------------
(* Signaling. *)

LEMMA OpensSignalingKeeps == RunInv /\ OpensSignaling => RunInv'
<1> SUFFICES ASSUME RunInv, OpensSignaling PROVE RunInv'
  OBVIOUS
<1> USE DEF RunInv
<1>1. CASE OpenIsRefused /\ UNCHANGED <<cont, src, outbound, reader>>
  BY <1>1, FailureKeeps DEF OpensSignaling, OpenIsRefused, Dispositions, Over
<1>2. CASE /\ stop = "none" /\ headset.link
           /\ result' = [result EXCEPT !.opened = TRUE] /\ reader' = ReaderOpened
           /\ Asks(BeginSource(NewSource), "negotiate")
  <2> DEFINE s == BeginSource(NewSource)
  <2>1. /\ pc = "open" /\ pcm' = pcm /\ UNCHANGED world /\ result.held
        /\ wire' = wire /\ headset' = headset /\ endpoint' = endpoint /\ stop' = stop
    BY DEF OpensSignaling, world, LeaseSide
  <2>2. s \in Sources /\ s.state = "discover_sent" /\ s.signal = "discover"
    BY NewSourceType, SourceAsks
  <2>3. src = NewSource /\ src.state = "idle"
    BY <2>1, NewSourceType DEF SignalSide, RestSide, Early, Exchanging, Over
  <2>4. /\ SignalSide' /\ pc' = "send" /\ cont' = "negotiate"
        /\ pc' \in Places /\ cont' \in Exchanges /\ src' \in Sources /\ outbound' \in Packets
    <3> HIDE DEF s
    <3>1. Asks(s, "negotiate")
      BY <1>2 DEF s
    <3>2. /\ "discover_sent" \in SentFor["negotiate"] /\ "discover" \in Sent["discover_sent"]
          /\ Before["discover_sent"] = Before["idle"] /\ "negotiate" \in Exchanges
      BY DEF SentFor, Sent, Before, Exchanges
    <3> QED BY <2>1, <2>2, <2>3, <3>1, <3>2, AsksKeeps DEF Over, Exchanging
  <2>5. /\ result' \in Results /\ result'.opened
        /\ result'.held = result.held /\ result'.leases = result.leases
        /\ result'.cleanup = result.cleanup /\ result'.commands = result.commands
        /\ result'.closes = result.closes
    BY <1>2, Typed DEF Results
  <2>6. reader' \in Readers /\ reader'.peer = reader.peer /\ reader'.packet = reader.packet
    BY <1>2, Typed DEF ReaderOpened, Readers
  <2>7. TypeOK'
    BY <2>1, <2>4, <2>5, <2>6, Typed, TypeFrom
  <2>8. SaidSide'
    <3>1. CommandsIn(wire)' = CommandsIn(wire) /\ Noticed' = Noticed
      BY <2>1, <2>6 DEF CommandsIn, Noticed
    <3> QED BY <2>1, <2>5, <3>1 DEF SaidSide
  <2>9. LeaseSide'
    BY <2>1, <2>4, <2>5 DEF LeaseSide, Over, Playing, Pausing, Exchanging
  <2>10. ReaderSide'
    BY <2>1, <2>4, <2>5 DEF ReaderSide, Early, Over
  <2>11. CleanupSide'
    <3>1. headset.stream = "idle" /\ headset.last = "idle"
      BY <2>1, <2>3 DEF CleanupSide, SignalSide, RestSide, ReaderSide, Before, Exchanging, Over
    <3> QED BY <2>1, <2>4, <3>1 DEF CleanupSide, Playing, Ending, Pausing, Exchanging
  <2>12. PcmSide'
    BY <2>1, <2>4 DEF PcmSide, Early, Playing, Pausing, Exchanging, Over
  <2> QED BY <2>4, <2>7, <2>8, <2>9, <2>10, <2>11, <2>12
<1> QED BY <1>1, <1>2 DEF OpensSignaling

(* The command goes out once, and from then on the headset owes its answer. *)
LEMMA ExchangeSendsKeeps == RunInv /\ ExchangeSends => RunInv'
<1> SUFFICES ASSUME RunInv, ExchangeSends PROVE RunInv'
  OBVIOUS
<1> USE DEF RunInv
<1>1. CASE Fails("cancelled") /\ UNCHANGED headset
  BY <1>1, FailureKeeps DEF ExchangeSends, Dispositions, Over, world
<1>2. CASE headset.link /\ pc' = "await" /\ headset' = Written(headset) /\ UNCHANGED result
  <2>1. /\ pc = "send" /\ UNCHANGED <<cont, src, outbound, reader, pcm, stop, wire, endpoint>>
    BY DEF ExchangeSends
  <2>2. /\ headset' \in Headsets /\ headset'.stream = headset.stream
        /\ headset'.link = headset.link /\ headset'.said = headset.said
        /\ headset'.last = headset.last
        /\ headset'.asked = IF outbound.type = "command" THEN outbound ELSE headset.asked
    BY <1>2, Typed DEF Written, Headsets
  <2>3. TypeOK'
    BY <1>2, <2>1, <2>2, Typed, TypeFrom DEF Places
  <2>4. SaidSide'
    BY <1>2, <2>1, <2>2, SaidKeeps
  <2>5. LeaseSide' /\ ReaderSide'
    BY <1>2, <2>1, <2>2
    DEF LeaseSide, ReaderSide, Early, Over, Playing, Pausing, Exchanging
  <2>6. SignalSide'
    <3>1. ExchangeSide
      BY DEF SignalSide
    <3>2. CASE outbound.type = "command"
      BY <1>2, <2>1, <2>2, <3>1, <3>2
      DEF SignalSide, ExchangeSide, RestSide, Exchanging, Owes, NoAnswers
    <3>3. CASE outbound.type # "command"
      BY <1>2, <2>1, <2>2, <3>1, <3>3
      DEF SignalSide, ExchangeSide, RestSide, Exchanging, Owes, NoAnswers
    <3> QED BY <3>2, <3>3
  <2>7. CleanupSide'
    BY <1>2, <2>1, <2>2 DEF CleanupSide, Playing, Ending, Pausing, Exchanging
  <2>8. PcmSide'
    BY <1>2, <2>1 DEF PcmSide, Early, Playing, Pausing, Exchanging, Over
  <2> QED BY <2>3, <2>4, <2>5, <2>6, <2>7, <2>8
<1> QED BY <1>1, <1>2 DEF ExchangeSends

LEMMA ExchangeFailsKeeps == RunInv /\ ExchangeFails => RunInv'
BY FailureKeeps DEF ExchangeFails, IoFails, Broken, Dispositions, Over, RunInv

(* What is left of the wire when a packet is read, and of the count of commands. *)
LEMMA ReadsPacket ==
    ASSUME TypeOK, SaidSide, wire # <<>>, wire' = Tail(wire), reader' = reader,
           headset' = headset
    PROVE  /\ Head(wire).type = "command" =>
                /\ result.commands + 1 \in 0..MaxCommands
                /\ result'.commands = result.commands + 1 => SaidSide'
           /\ result'.commands = result.commands => SaidSide'
<1> DEFINE c == IF Head(wire).type = "command" THEN 1 ELSE 0
<1>1. Cardinality(CommandsIn(Tail(wire))) + c <= Cardinality(CommandsIn(wire))
  BY TailCounts, Typed
<1>2. /\ Cardinality(CommandsIn(wire)) \in Nat /\ Cardinality(CommandsIn(Tail(wire))) \in Nat
  <2>1. Tail(wire) \in Seq(Packets)
    BY WireTypes, Typed
  <2> QED BY <2>1, CommandsAreFinite, Typed
<1>3. CommandsIn(wire)' = CommandsIn(Tail(wire)) /\ Noticed' = Noticed /\ Noticed \in {0, 1}
  BY DEF CommandsIn, Noticed
<1>4. result.commands \in Nat /\ headset.said \in Nat /\ headset.said <= MaxCommands
      /\ MaxCommands \in Nat
  BY Typed, Limits DEF Results, Headsets
<1>5. result.commands + Cardinality(CommandsIn(wire)) + Noticed <= headset.said
  BY DEF SaidSide
<1>6. ASSUME Head(wire).type = "command"
      PROVE  /\ result.commands + 1 \in 0..MaxCommands
             /\ result'.commands = result.commands + 1 => SaidSide'
  <2>1. c = 1
    BY <1>6
  <2>2. result.commands + 1 + Cardinality(CommandsIn(Tail(wire))) + Noticed <= headset.said
    BY <1>1, <1>2, <1>3, <1>4, <1>5, <2>1
  <2>3. result.commands + 1 \in 0..MaxCommands
    BY <1>2, <1>3, <1>4, <2>2
  <2>4. result'.commands = result.commands + 1 => SaidSide'
    BY <1>3, <2>2 DEF SaidSide
  <2> QED BY <2>3, <2>4
<1>7. ASSUME result'.commands = result.commands PROVE SaidSide'
  <2>1. result.commands + Cardinality(CommandsIn(Tail(wire))) + Noticed <= headset.said
    BY <1>1, <1>2, <1>3, <1>4, <1>5, SMTT(30)
  <2> QED BY <1>3, <1>7, <2>1 DEF SaidSide
<1> QED BY <1>6, <1>7

(* Reading a packet leaves at most the answer that was on the wire before. *)
LEMMA ReadsLeaveSignals ==
    ASSUME RunInv, wire # <<>>, wire' = Tail(wire),
           UNCHANGED <<cont, src, headset>>,
           \/ UNCHANGED <<pc, outbound, result>>
           \/ pc = "await" /\ pc' = "send" /\ outbound'.type # "command"
    PROVE  SignalSide'
<1> USE DEF RunInv
<1>1. \A i \in DOMAIN wire' : i \in Nat /\ i + 1 \in DOMAIN wire /\ wire'[i] = wire[i + 1]
  BY WireTypes, Typed
<1>2. NoAnswers => NoAnswers'
  BY <1>1 DEF NoAnswers
<1>3. Owes' = Owes
  BY DEF Owes
<1>4. ASSUME pc \in Exchanging, NEW i \in DOMAIN wire', wire'[i].type # "command"
      PROVE  /\ headset.link /\ wire'[i].type \in {"accept", "reject"}
             /\ wire'[i].label = src.pending /\ wire'[i].signal = src.signal
             /\ headset.stream = IF wire'[i].type = "accept" THEN After[src.state]
                                                             ELSE Before[src.state]
             /\ \A j \in DOMAIN wire' : wire'[j].type # "command" => j = i
  <2>1. i + 1 \in DOMAIN wire /\ wire[i + 1].type # "command" /\ wire'[i] = wire[i + 1]
    BY <1>1, <1>4
  <2>2. \A j \in DOMAIN wire' : wire'[j].type # "command" => j + 1 = i + 1
    BY <1>1, <1>4, <2>1 DEF SignalSide, ExchangeSide
  <2>3. \A j \in DOMAIN wire' : wire'[j].type # "command" => j = i
    BY <1>1, <2>2
  <2> QED BY <1>4, <2>1, <2>3 DEF SignalSide, ExchangeSide
<1>5. ExchangeSide'
  <2>1. CASE UNCHANGED <<pc, outbound, result>>
    BY <1>2, <1>3, <1>4, <2>1 DEF SignalSide, ExchangeSide
  <2>2. CASE pc = "await" /\ pc' = "send" /\ outbound'.type # "command"
    BY <1>2, <1>3, <1>4, <2>2 DEF SignalSide, ExchangeSide, Exchanging
  <2> QED BY <2>1, <2>2
<1>6. RestSide'
  <2>1. CASE UNCHANGED <<pc, outbound, result>>
    <3>1. CASE pc \notin Exchanging \cup Over
      <4>1. ~Owes' /\ NoAnswers' /\ RestSide
        BY <1>2, <1>3, <3>1 DEF SignalSide, RestSide
      <4>2. UNCHANGED <<pc, src, headset, result>>
        BY <2>1
      <4> QED BY <4>1, <4>2 DEF RestSide
    <3>2. CASE pc \in Exchanging \cup Over
      BY <2>1, <3>2 DEF RestSide
    <3> QED BY <3>1, <3>2
  <2>2. CASE pc' = "send"
    BY <2>2 DEF RestSide, Exchanging
  <2> QED BY <2>1, <2>2
<1> QED BY <1>5, <1>6 DEF SignalSide

(* A command of the headset's own is answered in between. *)
LEMMA ExchangeIsAskedKeeps == RunInv /\ ExchangeIsAsked => RunInv'
<1> SUFFICES ASSUME RunInv, ExchangeIsAsked PROVE RunInv'
  OBVIOUS
<1> USE DEF RunInv
<1> DEFINE p == Head(wire)
           counted == [result EXCEPT !.commands = result.commands + 1]
<1>1. /\ pc = "await" /\ wire # <<>> /\ p.type = "command" /\ p \in Packets
      /\ wire' = Tail(wire) /\ Tail(wire) \in Seq(Packets)
      /\ UNCHANGED <<cont, src, reader, pcm, stop, headset, endpoint>>
  BY WireTypes, Typed DEF ExchangeIsAsked
<1>2. result.commands + 1 \in 0..MaxCommands
  BY <1>1, ReadsPacket
<1>3. /\ counted \in Results /\ counted.commands = result.commands + 1
      /\ counted.held = result.held /\ counted.leases = result.leases
      /\ counted.opened = result.opened /\ counted.cleanup = result.cleanup
      /\ counted.closes = result.closes /\ counted.disposition = result.disposition
  BY <1>2, Typed DEF Results
<1>4. \/ /\ result' = [counted EXCEPT !.peer = result.peer \cup {PeerAsked(p.signal)}]
         /\ outbound' = PeerAnswer(p) /\ pc' = "send"
      \/ FailsWith(counted, "protocol") /\ UNCHANGED outbound
  BY <1>1 DEF ExchangeIsAsked
<1> HIDE DEF p, counted
<1>5. /\ result' \in Results /\ result'.commands = result.commands + 1
      /\ result'.held = result.held /\ result'.leases = result.leases
      /\ result'.opened = result.opened /\ result'.cleanup = result.cleanup
      /\ result'.closes = result.closes
      /\ outbound' \in Packets /\ pc' \in {"send", "finish"}
      /\ pc' = "send" => outbound'.type # "command" /\ result'.disposition = result.disposition
  <2>1. CASE /\ result' = [counted EXCEPT !.peer = result.peer \cup {PeerAsked(p.signal)}]
             /\ outbound' = PeerAnswer(p) /\ pc' = "send"
    <3>1. result.peer \cup {PeerAsked(p.signal)} \in SUBSET Signals
      BY <1>1, Typed DEF PeerAsked, Results, Packets, Signals
    <3>2. PeerAnswer(p) \in Packets /\ PeerAnswer(p).type # "command"
      BY <1>1 DEF PeerAnswer, Packets
    <3> QED BY <1>3, <2>1, <3>1, <3>2 DEF Results
  <2>2. CASE FailsWith(counted, "protocol") /\ UNCHANGED outbound
    BY <1>3, <2>2, Typed DEF FailsWith, Results
  <2> QED BY <1>4, <2>1, <2>2
<1>6. TypeOK'
  BY <1>1, <1>5, Typed, TypeFrom DEF Places
<1>7. SaidSide'
  BY <1>1, <1>5, ReadsPacket DEF p
<1>8. LeaseSide' /\ ReaderSide'
  BY <1>1, <1>5
  DEF LeaseSide, ReaderSide, Early, Over, Playing, Pausing, Exchanging
<1>9. SignalSide'
  BY <1>1, <1>5, ReadsLeaveSignals, FinishSides
<1>10. CleanupSide'
  BY <1>1, <1>5 DEF CleanupSide, Playing, Ending, Pausing, Exchanging
<1>11. PcmSide'
  BY <1>1, <1>5 DEF PcmSide, Early, Playing, Pausing, Exchanging, Over
<1> QED BY <1>6, <1>7, <1>8, <1>9, <1>10, <1>11

(* The answer moves the source to where the headset already is, and nothing is owed. *)
LEMMA ExchangeIsAnsweredKeeps == RunInv /\ ExchangeIsAnswered => RunInv'
<1> SUFFICES ASSUME RunInv, ExchangeIsAnswered PROVE RunInv'
  OBVIOUS
<1> USE DEF RunInv
<1> DEFINE p == Head(wire)
           s == HandleSignaling(src, p)
<1>1. /\ pc = "await" /\ wire # <<>> /\ p.type # "command" /\ p \in Packets /\ p = wire[1]
      /\ 1 \in DOMAIN wire /\ wire' = Tail(wire) /\ Tail(wire) \in Seq(Packets) /\ src' = s
      /\ UNCHANGED <<cont, reader, pcm, stop, headset, endpoint>>
  BY WireTypes, Typed DEF ExchangeIsAnswered
<1>2. \/ Demand(s) = "error" /\ Fails("protocol") /\ UNCHANGED outbound
      \/ /\ Demand(s) # "error"
         /\ pc' = Proceeds(s) /\ outbound' = Command(s) /\ UNCHANGED result
  BY DEF ExchangeIsAnswered
<1>3. /\ src.state \in SentFor[cont] /\ src.signal \in Sent[src.state] /\ src \in Sources
      /\ p.type \in {"accept", "reject"} /\ headset.link
      /\ headset.stream = IF p.type = "accept" THEN After[src.state] ELSE Before[src.state]
      /\ \A j \in DOMAIN wire : wire[j].type # "command" => j = 1
      /\ src.state \in SentStates /\ ~Owes
      /\ p.label = src.pending /\ p.signal = src.signal
  <2>1. ExchangeSide /\ pc \in Exchanging
    BY <1>1 DEF SignalSide, Exchanging
  <2>2. src.state \in SentFor[cont] => src.state \in SentStates
    BY Typed DEF SentFor, SentStates, Exchanges
  <2> QED BY <1>1, <2>1, <2>2, Typed DEF ExchangeSide, NoAnswers
<1>4. NoAnswers' /\ ~Owes'
  <2>1. \A i \in DOMAIN wire' : i \in Nat /\ i + 1 \in DOMAIN wire /\ wire'[i] = wire[i + 1]
    BY <1>1, WireTypes, Typed
  <2>2. \A i \in DOMAIN wire' : i \in Nat /\ i # 0
    BY <1>1
  <2>3. \A i \in DOMAIN wire' : i + 1 # 1
    BY <2>2
  <2> QED BY <1>1, <1>3, <2>1, <2>3 DEF NoAnswers, Owes
<1>5. /\ s \in Sources
      /\ s.state # "failed" =>
           /\ Before[s.state] = headset.stream
           /\ src.state \in SentFor["negotiate"] =>
                s.state \in SentFor["negotiate"] \cup {"waiting_media"}
           /\ s.state \in SentFor["negotiate"] => s.signal \in Sent[s.state]
           /\ src.state = "start_sent" => s.state = "streaming"
           /\ src.state = "suspend_sent" => s.state = "open"
           /\ src.state = "close_sent" => s.state = "closed"
  BY <1>1, <1>3, SourceIsAnswered
<1>a. src.state = "start_sent" /\ p.type = "accept" => s.state = "streaming"
  BY <1>3 DEF HandleSignaling, Sources
<1> HIDE DEF p, s
<1>6. Demand(s) # "error" => s.state # "failed"
  BY DEF Demand
<1>b. headset.stream = "streaming" => result.cleanup \/ s.state = "streaming"
  <2>1. CASE src.state = "start_sent"
    BY <1>3, <1>a, <2>1 DEF Before
  <2>2. CASE src.state # "start_sent"
    BY <1>1, <2>2 DEF CleanupSide
  <2> QED BY <2>1, <2>2
<1>7. SaidSide'
  <2>1. result'.commands = result.commands
    BY <1>2, Typed DEF Fails, FailsWith, Results
  <2> QED BY <1>1, <2>1, ReadsPacket
<1>8. CASE Demand(s) = "error" /\ Fails("protocol") /\ UNCHANGED outbound
  <2>1. /\ result' \in Results /\ pc' = "finish"
        /\ result'.held = result.held /\ result'.leases = result.leases
        /\ result'.opened = result.opened /\ result'.cleanup = result.cleanup
        /\ result'.closes = result.closes
    BY <1>8, Typed DEF Fails, FailsWith, Results
  <2>2. TypeOK'
    BY <1>1, <1>5, <1>8, <2>1, Typed, TypeFrom DEF Places
  <2>3. LeaseSide' /\ ReaderSide'
    BY <1>1, <2>1
    DEF LeaseSide, ReaderSide, Early, Over, Playing, Pausing, Exchanging
  <2>4. SignalSide'
    BY <2>1 DEF SignalSide, ExchangeSide, RestSide, Exchanging, Over
  <2>5. CleanupSide'
    <3>1. headset.stream = "streaming" => result.cleanup
      BY <1>8, <1>b DEF Demand
    <3> QED BY <1>1, <2>1, <3>1 DEF CleanupSide, Playing, Ending, Pausing, Exchanging
  <2>6. PcmSide'
    BY <1>1, <2>1 DEF PcmSide, Early, Playing, Pausing, Exchanging, Over
  <2> QED BY <1>7, <2>2, <2>3, <2>4, <2>5, <2>6
<1>9. CASE /\ Demand(s) # "error"
           /\ pc' = Proceeds(s) /\ outbound' = Command(s) /\ UNCHANGED result
  <2>1. \/ cont = "negotiate" /\ pc' = "send" /\ s.state \in SentFor["negotiate"]
        \/ cont = "negotiate" /\ pc' = "open_media" /\ s.state = "waiting_media"
        \/ cont = "start" /\ pc' = "started" /\ s.state = "streaming"
        \/ cont = "pause_suspend" /\ pc' = "paused" /\ s.state = "open"
        \/ cont = "resume_start" /\ pc' = "resumed" /\ s.state = "streaming"
        \/ cont = "suspend" /\ pc' = "suspended" /\ s.state = "open"
        \/ cont = "close" /\ pc' = "closed" /\ s.state = "closed"
    <3>1. CASE cont = "negotiate"
      <4>1. s.state \in SentFor["negotiate"] \cup {"waiting_media"}
        BY <1>3, <1>5, <1>6, <1>9, <3>1
      <4>2. CASE s.state = "waiting_media"
        BY <1>9, <3>1, <4>2 DEF Proceeds, Demand
      <4>3. CASE s.state \in SentFor["negotiate"]
        <5>1. Demand(s) = "send"
          BY <4>3 DEF Demand, SentFor
        <5> QED BY <1>9, <3>1, <4>3, <5>1 DEF Proceeds
      <4> QED BY <4>1, <4>2, <4>3
    <3>2. CASE cont # "negotiate"
      <4>1. cont \in {"start", "pause_suspend", "resume_start", "suspend", "close"}
        BY <3>2, Typed DEF Exchanges
      <4>2. pc' = [start |-> "started", pause_suspend |-> "paused", resume_start |-> "resumed",
                   suspend |-> "suspended", close |-> "closed"][cont]
        BY <1>9, <3>2 DEF Proceeds
      <4>3. s.state # "failed"
        BY <1>6, <1>9
      <4> QED BY <1>3, <1>5, <4>1, <4>2, <4>3 DEF SentFor
    <3> QED BY <3>1, <3>2
  <2>2. TypeOK'
    <3>1. pc' \in Places /\ outbound' \in Packets
      BY <1>5, <1>9, <2>1, PacketTypes DEF Places
    <3> QED BY <1>1, <1>5, <1>9, <3>1, Typed, TypeFrom
  <2>3. LeaseSide' /\ ReaderSide'
    BY <1>1, <1>9, <2>1
    DEF LeaseSide, ReaderSide, Early, Over, Playing, Pausing, Exchanging
  <2>4. headset.stream = Before[s.state]
    BY <1>5, <1>6, <1>9
  <2>5. ExchangeSide'
    <3>1. CASE pc' = "send" /\ cont = "negotiate" /\ s.state \in SentFor["negotiate"]
      BY <1>1, <1>4, <1>5, <1>6, <1>9, <2>4, <3>1 DEF ExchangeSide, Owes, NoAnswers
    <3>2. CASE pc' \notin Exchanging
      BY <3>2 DEF ExchangeSide
    <3> QED BY <2>1, <3>1, <3>2 DEF Exchanging
  <2>6. RestSide'
    BY <1>1, <1>4, <2>1, <2>4
    DEF RestSide, Exchanging, Over, Early, Playing, Pausing, Ending
  <2>7. CleanupSide'
    <3>1. headset.stream = "streaming" => result.cleanup \/ pc' \in {"started", "resumed"}
      <4>1. s.state = "streaming" => cont \in {"start", "resume_start"}
        BY <2>1 DEF SentFor
      <4> QED BY <1>b, <2>1, <4>1 DEF SentFor
    <3> QED BY <1>1, <1>9, <2>1, <3>1 DEF CleanupSide, Playing, Ending, Pausing, Exchanging
  <2>8. PcmSide'
    BY <1>1, <2>1 DEF PcmSide, Early, Playing, Pausing, Exchanging, Over
  <2> QED BY <1>7, <2>2, <2>3, <2>5, <2>6, <2>7, <2>8 DEF SignalSide
<1> QED BY <1>2, <1>8, <1>9

(* The media channel opens on a stream the headset has open, and START goes out. *)
LEMMA OpensMediaKeeps == RunInv /\ OpensMedia => RunInv'
<1> SUFFICES ASSUME RunInv, OpensMedia PROVE RunInv'
  OBVIOUS
<1> USE DEF RunInv
<1>1. CASE \E d \in {"backend", "protocol"} : Fails(d) /\ UNCHANGED <<cont, src, outbound>>
  BY <1>1, FailureKeeps DEF OpensMedia, Dispositions, Over
<1>2. CASE Asks(StartSource(MediaChannelOpened(src)), "start") /\ UNCHANGED result
  <2> DEFINE m == MediaChannelOpened(src)
             s == StartSource(m)
  <2>1. /\ pc = "open_media" /\ reader' = reader /\ pcm' = pcm /\ UNCHANGED world
        /\ wire' = wire /\ headset' = headset /\ endpoint' = endpoint /\ stop' = stop
    BY DEF OpensMedia, world
  <2>2. src.state = "waiting_media" /\ src \in Sources
    BY <2>1, Typed DEF SignalSide, RestSide, Over, Exchanging
  <2>3. s \in Sources /\ s.state = "start_sent" /\ s.signal = "start"
    <3>1. m \in Sources /\ m.state = "open"
      BY <2>2, SourceAsks
    <3> HIDE DEF m
    <3> QED BY <3>1, SourceAsks
  <2>4. /\ SignalSide' /\ pc' = "send" /\ cont' = "start"
        /\ pc' \in Places /\ cont' \in Exchanges /\ src' \in Sources /\ outbound' \in Packets
    <3>1. Asks(s, "start")
      BY <1>2
    <3> HIDE DEF s
    <3>2. /\ "start_sent" \in SentFor["start"] /\ "start" \in Sent["start_sent"]
          /\ Before["start_sent"] = Before["waiting_media"] /\ "start" \in Exchanges
      BY DEF SentFor, Sent, Before, Exchanges
    <3> QED BY <2>1, <2>2, <2>3, <3>1, <3>2, AsksKeeps DEF Over, Exchanging
  <2>5. TypeOK' /\ SaidSide'
    BY <1>2, <2>1, <2>4, Typed, TypeFrom, SaidKeeps
  <2>6. LeaseSide' /\ ReaderSide'
    BY <1>2, <2>1, <2>4
    DEF LeaseSide, ReaderSide, Early, Over, Playing, Pausing, Exchanging
  <2>7. CleanupSide'
    <3>1. src' = s
      BY <1>2 DEF Asks
    <3> HIDE DEF m, s
    <3> QED BY <1>2, <2>1, <2>3, <2>4, <3>1 DEF CleanupSide, Playing, Ending, Pausing, Exchanging
  <2>8. PcmSide'
    BY <2>1, <2>4 DEF PcmSide, Early, Playing, Pausing, Exchanging, Over
  <2> QED BY <2>4, <2>5, <2>6, <2>7, <2>8
<1> QED BY <1>1, <1>2 DEF OpensMedia

-----------------------------------------------------------------------------
(* The stream runs. *)

(* The encoder starts afresh, and nothing else of the audio changes. *)
LEMMA ResetTypes ==
    ASSUME NEW p \in Pcms, NEW then \in {"observe", "check"}
    PROVE  LET r == EncoderReset(p, then) IN
           /\ r \in Pcms /\ r.held = p.held /\ r.fifo = p.fifo /\ r.block = p.block
           /\ r.bound = p.bound /\ r.encoder = {} /\ r.attempts = 0 /\ r.then = then
           /\ r.preflight = p.preflight
<1> DEFINE r == EncoderReset(p, then)
<1>1. {} \in SUBSET (0..MaxEpochs) /\ 0 \in 0..MaxAttempts /\ then \in Places
  BY Limits DEF Places
<1>2. r = [p EXCEPT !.encoder = {}, !.attempts = 0, !.then = then]
  BY DEF EncoderReset
<1>3. r \in Pcms
  BY <1>1, <1>2 DEF Pcms
<1>4. /\ r.held = p.held /\ r.fifo = p.fifo /\ r.block = p.block /\ r.bound = p.bound
      /\ r.encoder = {} /\ r.attempts = 0 /\ r.then = then /\ r.preflight = p.preflight
  BY <1>2 DEF Pcms
<1> QED BY <1>3, <1>4

(* START is accepted, for the first time or after a pause. *)
LEMMA StreamsKeeps ==
    ASSUME RunInv, NEW preflight \in BOOLEAN, Streams(result, preflight),
           pc = (IF preflight THEN "started" ELSE "resumed"),
           UNCHANGED <<cont, src, outbound, world>>
    PROVE  RunInv'
<1> USE DEF RunInv
<1> DEFINE streaming == [result EXCEPT !.cleanup = TRUE, !.suspended = FALSE]
<1>1. /\ streaming \in Results /\ streaming.cleanup /\ ~streaming.suspended
      /\ streaming.held = result.held /\ streaming.leases = result.leases
      /\ streaming.opened = result.opened /\ streaming.commands = result.commands
      /\ streaming.closes = result.closes
  BY Typed DEF Results
<1>2. \/ /\ pc' = "silence" /\ result' = streaming /\ reader' = PeerRead
         /\ pcm' = [EncoderReset(pcm, "observe") EXCEPT !.preflight = preflight]
      \/ FailsWith(streaming, "backend") /\ UNCHANGED <<reader, pcm>>
  BY DEF Streams
<1>3. /\ wire' = wire /\ headset' = headset /\ endpoint' = endpoint /\ stop' = stop
      /\ pc \in {"started", "resumed"} /\ result.opened /\ result.held
  BY DEF world, ReaderSide, LeaseSide, Early, Over
<1> HIDE DEF streaming
<1>4. CASE FailsWith(streaming, "backend") /\ UNCHANGED <<reader, pcm>>
  <2>1. /\ result' \in Results /\ pc' = "finish" /\ result'.cleanup
        /\ result'.held = result.held /\ result'.leases = result.leases
        /\ result'.opened = result.opened /\ result'.commands = result.commands
        /\ result'.closes = result.closes
    BY <1>1, <1>4, Typed DEF FailsWith, Results
  <2>2. TypeOK' /\ SaidSide'
    BY <1>3, <1>4, <2>1, Typed, TypeFrom, SaidKeeps DEF Places
  <2>3. LeaseSide' /\ ReaderSide'
    BY <1>3, <1>4, <2>1
    DEF LeaseSide, ReaderSide, Early, Over, Playing, Pausing, Exchanging
  <2>4. CleanupSide'
    BY <1>3, <2>1 DEF CleanupSide, Playing, Ending, Pausing, Exchanging
  <2>5. PcmSide'
    BY <1>3, <1>4, <2>1 DEF PcmSide, Early, Playing, Pausing, Exchanging, Over
  <2> QED BY <2>1, <2>2, <2>3, <2>4, <2>5, FinishSides
<1>5. CASE /\ pc' = "silence" /\ result' = streaming /\ reader' = PeerRead
           /\ pcm' = [EncoderReset(pcm, "observe") EXCEPT !.preflight = preflight]
  <2>1. /\ pcm' \in Pcms /\ pcm'.held = pcm.held /\ pcm'.fifo = pcm.fifo
        /\ pcm'.block = pcm.block /\ pcm'.bound = pcm.bound /\ pcm'.encoder = {}
        /\ pcm'.attempts = 0 /\ pcm'.then = "observe"
        /\ pcm'.preflight = preflight
    <3> DEFINE r == EncoderReset(pcm, "observe")
    <3>1. /\ r \in Pcms /\ r.held = pcm.held /\ r.fifo = pcm.fifo /\ r.block = pcm.block
          /\ r.bound = pcm.bound /\ r.encoder = {} /\ r.attempts = 0 /\ r.then = "observe"
      BY Typed, ResetTypes
    <3>2. pcm' = [r EXCEPT !.preflight = preflight]
      BY <1>5
    <3> HIDE DEF r
    <3>3. CASE preflight = TRUE
      BY <3>1, <3>2, <3>3 DEF Pcms
    <3>4. CASE preflight = FALSE
      BY <3>1, <3>2, <3>4 DEF Pcms
    <3> QED BY <3>3, <3>4
  <2>2. reader' \in Readers /\ reader'.peer = "posted" /\ reader'.open = reader.open
    BY <1>5, Typed, PacketTypes DEF PeerRead, Readers
  <2>3. TypeOK' /\ SaidSide'
    BY <1>1, <1>3, <1>5, <2>1, <2>2, Typed, TypeFrom, SaidKeeps DEF Places
  <2>4. LeaseSide' /\ ReaderSide'
    BY <1>1, <1>3, <1>5, <2>1, <2>2
    DEF LeaseSide, ReaderSide, Early, Over, Playing, Pausing, Exchanging
  <2>5. SignalSide'
    BY <1>3, <1>5 DEF SignalSide, ExchangeSide, RestSide, Exchanging, Over, Early, Playing,
       Pausing, Ending, Owes, NoAnswers
  <2>6. CleanupSide'
    BY <1>1, <1>3, <1>5 DEF CleanupSide, Playing, Ending, Pausing, Exchanging
  <2>7. PcmSide'
    <3>1. CASE preflight
      BY <1>3, <1>5, <2>1, <3>1, Limits
      DEF PcmSide, Early, Playing, Pausing, Exchanging, Over
    <3>2. CASE ~preflight
      BY <1>3, <1>5, <2>1, <3>2, Limits
      DEF PcmSide, Early, Playing, Pausing, Exchanging, Over
    <3> QED BY <3>1, <3>2
  <2> QED BY <2>3, <2>4, <2>5, <2>6, <2>7
<1> QED BY <1>2, <1>4, <1>5

LEMMA StreamStartsKeeps == RunInv /\ StreamStarts => RunInv'
BY StreamsKeeps DEF StreamStarts

LEMMA ResumesKeeps == RunInv /\ Resumes => RunInv'
BY StreamsKeeps DEF Resumes

(* What the last look at the headset finds: a command that was read ends the run, and a *)
(* CLOSE that is answered closes the headset's stream.                                  *)
LEMMA NoticesKeeps ==
    ASSUME RunInv, pc \notin Over \cup {"started", "resumed"}, pc' = "finish", reader' = ReadCancelled,
           UNCHANGED <<cont, src, outbound, pcm, stop, wire, endpoint>>,
           result' \in Results, result'.commands = result.commands + Noticed,
           result'.held = result.held, result'.leases = result.leases,
           result'.opened = result.opened, result'.closes = result.closes,
           \/ headset' = headset /\ result'.cleanup = result.cleanup
           \/ headset' = CloseAccepted(headset)
    PROVE  RunInv'
<1> USE DEF RunInv
<1>1. reader' \in Readers /\ reader'.open = reader.open /\ reader'.peer = "none"
  BY Typed, PacketTypes DEF ReadCancelled, Readers
<1>2. /\ headset' \in Headsets /\ headset'.said = headset.said /\ headset'.link = headset.link
      /\ headset'.last = headset.last
      /\ headset'.stream \in {headset.stream, "idle"}
      /\ headset'.stream = "idle" \/ result'.cleanup = result.cleanup
      /\ headset.stream = "idle" => headset'.stream = "idle"
  BY Typed DEF CloseAccepted, Headsets, StreamStates
<1>3. TypeOK'
  BY <1>1, <1>2, Typed, TypeFrom DEF Places
<1>4. SaidSide'
  <2>1. CommandsIn(wire)' = CommandsIn(wire) /\ Noticed' = 0
    BY <1>1 DEF CommandsIn, Noticed
  <2>2. /\ Cardinality(CommandsIn(wire)) \in Nat /\ Noticed \in {0, 1}
        /\ result.commands \in Nat /\ headset.said \in Nat
    BY CommandsAreFinite, Typed, Limits DEF Noticed, Results, Headsets
  <2> QED BY <1>2, <2>1, <2>2 DEF SaidSide
<1>5. LeaseSide' /\ ReaderSide'
  BY <1>1, <1>2 DEF LeaseSide, ReaderSide, Early, Over, Playing, Pausing, Exchanging
<1>6. CleanupSide'
  BY <1>2 DEF CleanupSide, ReaderSide, Playing, Ending, Pausing, Exchanging, Over
<1>7. PcmSide'
  BY DEF PcmSide, Early, Playing, Pausing, Exchanging, Over
<1> QED BY <1>3, <1>4, <1>5, <1>6, <1>7, FinishSides

LEMMA ObservesPeerKeeps == RunInv /\ ObservesPeer => RunInv'
<1> SUFFICES ASSUME RunInv, ObservesPeer PROVE RunInv'
  OBVIOUS
<1> USE DEF RunInv
<1>1. PICK next : /\ <<pc, next>> \in {<<"observe", "probe">>, <<"pause_observe", "prepare_pause">>,
                                       <<"final_observe", "end">>}
                  /\ Observes(next)
  BY DEF ObservesPeer
<1>2. /\ UNCHANGED <<cont, src, outbound, pcm, stop, wire, endpoint>>
      /\ pc \in {"observe", "pause_observe", "final_observe"}
  BY <1>1 DEF ObservesPeer
<1> DEFINE p == reader.packet
           counted == [result EXCEPT !.commands =
                         result.commands + IF p.type = "command" THEN 1 ELSE 0]
           closed == [counted EXCEPT !.peer = result.peer \cup {"close"}, !.cleanup = FALSE]
<1>3. \/ pc' = next /\ UNCHANGED <<result, reader, headset>>
      \/ Fails("backend") /\ reader' = ReadCancelled /\ UNCHANGED headset
      \/ /\ reader.peer = "done" /\ reader' = ReadCancelled
         /\ \/ \E d \in {"protocol", "backend"} : FailsWith(counted, d) /\ UNCHANGED headset
            \/ FailsWith(closed, "cancelled") /\ headset' = CloseAccepted(headset)
  <2>1. reader.peer \in {"none", "posted", "done"}
    BY Typed DEF Readers
  <2>2. CASE reader.peer = "none"
    BY <1>1, <2>2 DEF Observes
  <2>3. CASE reader.peer = "posted"
    BY <1>1, <2>3 DEF Observes
  <2>4. CASE reader.peer = "done"
    BY <1>1, <2>4 DEF Observes
  <2> QED BY <2>1, <2>2, <2>3, <2>4
<1>4. CASE pc' = next /\ UNCHANGED <<result, reader, headset>>
  <2>1. PcmSide' /\ Alike
    BY <1>1, <1>2, <1>4
    DEF PcmSide, Early, Playing, Pausing, Ending, Exchanging, Over, Alike
  <2> QED BY <1>2, <1>4, <2>1, MoveKeeps, Typed DEF world
<1>5. CASE Fails("backend") /\ reader' = ReadCancelled /\ UNCHANGED headset
  BY <1>2, <1>5, FailureKeeps DEF Dispositions, Over, world
<1>6. ASSUME reader.peer = "done"
      PROVE  /\ counted \in Results /\ counted.commands = result.commands + Noticed
             /\ counted.held = result.held /\ counted.leases = result.leases
             /\ counted.opened = result.opened /\ counted.closes = result.closes
             /\ counted.cleanup = result.cleanup
  <2> DEFINE n == result.commands + IF p.type = "command" THEN 1 ELSE 0
  <2>1. n = result.commands + Noticed
    BY <1>6 DEF Noticed
  <2>2. n \in 0..MaxCommands
    <3>1. /\ Cardinality(CommandsIn(wire)) \in Nat /\ Noticed \in {0, 1}
          /\ result.commands \in Nat /\ headset.said \in 0..MaxCommands /\ MaxCommands \in Nat
      BY CommandsAreFinite, Typed, Limits DEF Noticed, Results, Headsets
    <3> QED BY <2>1, <3>1 DEF SaidSide
  <2>3. counted = [result EXCEPT !.commands = n]
    OBVIOUS
  <2> HIDE DEF n, counted
  <2> QED BY <2>1, <2>2, <2>3, Typed DEF Results
<1> HIDE DEF counted
<1>7. CASE reader.peer = "done" /\ reader' = ReadCancelled /\ UNCHANGED headset
           /\ \E d \in {"protocol", "backend"} : FailsWith(counted, d)
  <2>1. /\ pc' = "finish" /\ result' \in Results /\ result'.commands = result.commands + Noticed
        /\ result'.held = result.held /\ result'.leases = result.leases
        /\ result'.opened = result.opened /\ result'.closes = result.closes
        /\ result'.cleanup = result.cleanup
    BY <1>6, <1>7 DEF FailsWith, Results
  <2> QED BY <1>2, <1>7, <2>1, NoticesKeeps DEF Over
<1>8. CASE reader.peer = "done" /\ reader' = ReadCancelled
           /\ FailsWith(closed, "cancelled") /\ headset' = CloseAccepted(headset)
  <2>1. result.peer \cup {"close"} \in SUBSET Signals
    BY Typed DEF Results, Signals
  <2>2. /\ closed \in Results /\ closed.commands = counted.commands
        /\ closed.held = counted.held /\ closed.leases = counted.leases
        /\ closed.opened = counted.opened /\ closed.closes = counted.closes
    BY <1>6, <1>8, <2>1 DEF Results
  <2> HIDE DEF closed
  <2>3. /\ pc' = "finish" /\ result' \in Results /\ result'.commands = result.commands + Noticed
        /\ result'.held = result.held /\ result'.leases = result.leases
        /\ result'.opened = result.opened /\ result'.closes = result.closes
    BY <1>6, <1>8, <2>2 DEF FailsWith, Results
  <2> QED BY <1>2, <1>8, <2>3, NoticesKeeps DEF Over
<1> QED BY <1>3, <1>4, <1>5, <1>7, <1>8

-----------------------------------------------------------------------------
(* The write loop. *)

LEMMA BrokenIsFailure == Broken \in Dispositions
BY DEF Broken, Dispositions

LEMMA SendsSilenceKeeps == RunInv /\ SendsSilence => RunInv'
<1> SUFFICES ASSUME RunInv, SendsSilence PROVE RunInv'
  OBVIOUS
<1> USE DEF RunInv
<1>1. CASE Fails(Broken)
  BY <1>1, FailureKeeps, BrokenIsFailure DEF SendsSilence, Over
<1>2. CASE pc' = pcm.then /\ UNCHANGED result
  <2>1. pc' \in {"observe", "check"}
    BY <1>2 DEF PcmSide
  <2>2. PcmSide' /\ Alike
    BY <1>2, <2>1 DEF SendsSilence, PcmSide, Early, Playing, Pausing, Exchanging, Over, Alike,
                      world
  <2> QED BY <1>2, <2>2, MoveKeeps, Typed DEF SendsSilence
<1> QED BY <1>1, <1>2 DEF SendsSilence

LEMMA ProbesStopKeeps == RunInv /\ ProbesStop => RunInv'
<1> SUFFICES ASSUME RunInv, ProbesStop PROVE RunInv'
  OBVIOUS
<1> USE DEF RunInv
<1>1. CASE stop = "cancel"
  BY <1>1, FailureKeeps DEF ProbesStop, Dispositions, Over
<1>2. CASE stop = "graceful"
  BY <1>2, BreakKeeps DEF ProbesStop, Playing
<1>3. CASE stop = "none"
  <2>1. /\ pc = "probe" /\ UNCHANGED result
        /\ UNCHANGED <<cont, src, outbound, reader, pcm, world>>
        /\ pc' = IF pcm.preflight THEN "check" ELSE IF pcm.force THEN "rebind" ELSE "read"
    BY <1>3 DEF ProbesStop
  <2>2. \/ pc' = "check" /\ pcm.preflight
        \/ pc' \in {"rebind", "read"} /\ ~pcm.preflight
    <3>1. pcm.preflight \in BOOLEAN /\ pcm.force \in BOOLEAN
      BY Typed DEF Pcms
    <3>2. CASE pcm.preflight
      BY <2>1, <3>2, Zenon
    <3>3. CASE ~pcm.preflight
      BY <2>1, <3>1, <3>3, Zenon
    <3> QED BY <3>2, <3>3
  <2>3. PcmSide' /\ Alike
    BY <2>1, <2>2 DEF PcmSide, Early, Playing, Pausing, Exchanging, Over, Alike, world
  <2> QED BY <2>1, <2>3, MoveKeeps, Typed
<1> QED BY <1>1, <1>2, <1>3, Typed

LEMMA ReadsDataKeeps == RunInv /\ ReadsData => RunInv'
<1> SUFFICES ASSUME RunInv, ReadsData PROVE RunInv'
  OBVIOUS
<1> USE DEF RunInv
<1>1. PICK e \in Blocks :
        LET read == [pcm EXCEPT !.fifo = e, !.block = e, !.streak = 0]
        IN IF pcm.streak = 0
             THEN pcm' = read /\ pc' = "check"
             ELSE pcm' = EncoderReset(read, "check") /\ pc' = "silence"
  BY DEF ReadsData
<1>2. e \in 0..MaxEpochs /\ pcm.fifo <= e /\ e <= endpoint.epoch /\ pcm.bound <= e
  BY BlocksFit
<1>3. /\ pc = "read" /\ ~pcm.preflight /\ UNCHANGED <<cont, src, outbound, result, reader, world>>
      /\ endpoint' = endpoint
  BY DEF ReadsData, PcmSide, world
<1> DEFINE read == [pcm EXCEPT !.fifo = e, !.block = e, !.streak = 0]
<1>4. /\ read \in Pcms /\ read.held = pcm.held /\ read.fifo = e /\ read.block = e
      /\ read.bound = pcm.bound /\ read.encoder = pcm.encoder /\ read.then = pcm.then
      /\ read.attempts = pcm.attempts /\ read.preflight = pcm.preflight
  <2>1. pcm \in Pcms
    BY Typed
  <2>2. read \in Pcms
    <3>1. 0 \in 0..Tolerance /\ e \in 0..MaxEpochs
      BY <1>2, Limits
    <3> QED BY <2>1, <3>1 DEF Pcms
  <2>3. /\ read.held = pcm.held /\ read.fifo = e /\ read.block = e
        /\ read.bound = pcm.bound /\ read.encoder = pcm.encoder /\ read.then = pcm.then
        /\ read.attempts = pcm.attempts /\ read.preflight = pcm.preflight
    BY <2>1 DEF Pcms
  <2> QED BY <2>2, <2>3
<1>5. \/ pcm' = read /\ pc' = "check"
      \/ pcm' = EncoderReset(read, "check") /\ pc' = "silence"
  BY <1>1
<1> HIDE DEF read
<1>6. CASE pcm' = read /\ pc' = "check"
  <2>1. PcmSide' /\ Alike
    BY <1>2, <1>3, <1>4, <1>6
    DEF PcmSide, Early, Playing, Pausing, Exchanging, Over, Alike
  <2> QED BY <1>3, <1>4, <1>6, <2>1, MoveKeeps
<1>7. CASE pcm' = EncoderReset(read, "check") /\ pc' = "silence"
  <2>1. /\ pcm' \in Pcms /\ pcm'.held = pcm.held /\ pcm'.fifo = e /\ pcm'.block = e
        /\ pcm'.bound = pcm.bound /\ pcm'.encoder = {} /\ pcm'.attempts = 0
        /\ pcm'.then = "check" /\ ~pcm'.preflight
    BY <1>3, <1>4, <1>7, ResetTypes
  <2>2. PcmSide' /\ Alike
    BY <1>2, <1>3, <1>7, <2>1, Limits
    DEF PcmSide, Early, Playing, Pausing, Exchanging, Over, Alike
  <2> QED BY <1>3, <2>1, <2>2, MoveKeeps
<1> QED BY <1>5, <1>6, <1>7

LEMMA ReadTimesOutKeeps == RunInv /\ ReadTimesOut => RunInv'
<1> SUFFICES ASSUME RunInv, ReadTimesOut PROVE RunInv'
  OBVIOUS
<1> USE DEF RunInv
<1>1. pcm.streak + 1 \in 0..Tolerance
  BY Typed, Limits DEF ReadTimesOut, Pcms
<1>2. /\ pcm' \in Pcms /\ pcm'.held = pcm.held /\ pcm'.fifo = pcm.fifo /\ pcm'.block = pcm.block
      /\ pcm'.bound = pcm.bound /\ pcm'.encoder = pcm.encoder
      /\ pcm'.attempts = pcm.attempts /\ pcm'.then = pcm.then
      /\ pcm'.preflight = pcm.preflight
  BY <1>1, Typed DEF ReadTimesOut, Pcms
<1>3. PcmSide' /\ Alike
  BY <1>2 DEF ReadTimesOut, PcmSide, Early, Playing, Pausing, Exchanging, Over, Alike, world
<1> QED BY <1>2, <1>3, MoveKeeps DEF ReadTimesOut

LEMMA ReadFailsKeeps == RunInv /\ ReadFails => RunInv'
<1> SUFFICES ASSUME RunInv, ReadFails PROVE RunInv'
  OBVIOUS
<1>1. CASE Breaks
  BY <1>1, BreakKeeps DEF ReadFails, Playing
<1>2. CASE Fails(Broken)
  BY <1>2, FailureKeeps, BrokenIsFailure DEF ReadFails, Over
<1> QED BY <1>1, <1>2 DEF ReadFails

LEMMA ReadsStoppedKeeps == RunInv /\ ReadsStopped => RunInv'
<1> SUFFICES ASSUME RunInv, ReadsStopped PROVE RunInv'
  OBVIOUS
<1> USE DEF RunInv
<1>1. /\ pc = "read" /\ pcm' = Calmed /\ UNCHANGED <<cont, src, outbound, reader, world>>
  BY DEF ReadsStopped, Calmed
<1>2. CASE Breaks
  BY <1>1, <1>2, BreakKeeps DEF Playing
<1>3. CASE Fails("cancelled")
  BY <1>1, <1>3, FailureKeeps DEF Dispositions, Over
<1>4. CASE pc' \in {"pause", "rebind"} /\ UNCHANGED result
  <2>1. /\ pcm' \in Pcms
        /\ pcm'.held = pcm.held /\ pcm'.fifo = pcm.fifo /\ pcm'.block = pcm.block
        /\ pcm'.encoder = pcm.encoder /\ pcm'.bound = pcm.bound
        /\ pcm'.preflight = pcm.preflight /\ pcm'.attempts = pcm.attempts
        /\ pcm'.then = pcm.then
    BY <1>1, CalmedKeeps
  <2>2. PcmSide' /\ Alike
    BY <1>1, <1>4, <2>1
    DEF PcmSide, Early, Playing, Pausing, Exchanging, Over, Alike, world
  <2> QED BY <1>1, <1>4, <2>1, <2>2, MoveKeeps
<1> QED BY <1>2, <1>3, <1>4 DEF ReadsStopped

(* The stream under the session is not the one of the lease: the lease is given back. *)
LEMMA ReleasesForRebindKeeps == RunInv /\ ReleasesForRebind => RunInv'
<1> SUFFICES ASSUME RunInv, ReleasesForRebind PROVE RunInv'
  OBVIOUS
<1> USE DEF RunInv
<1>1. /\ pc = "rebind" /\ result.held /\ result.leases = 1 /\ ~pcm.preflight
      /\ UNCHANGED <<cont, src, outbound, reader>>
      /\ wire' = wire /\ headset' = headset /\ endpoint' = endpoint /\ stop' = stop
      /\ pcm' = [Dropped(pcm) EXCEPT !.force = FALSE]
  BY DEF ReleasesForRebind, world, LeaseSide, Playing, PcmSide
<1>2. /\ pcm' \in Pcms /\ ~pcm'.held /\ pcm'.fifo = pcm.fifo /\ pcm'.block = pcm.block
      /\ pcm'.bound = pcm.bound /\ pcm'.then = pcm.then /\ pcm'.attempts = pcm.attempts
      /\ ~pcm'.preflight /\ pcm'.encoder = pcm.encoder
  BY <1>1, Typed, PreparedTypes DEF Pcms
<1>3. /\ result' \in Results /\ ~result'.held
      /\ result'.leases = 0 \/ (result'.disposition = "cleanup" /\ pc' = "finish")
      /\ result'.opened = result.opened /\ result'.cleanup = result.cleanup
      /\ result'.commands = result.commands /\ result'.closes = result.closes
      /\ result'.suspended = result.suspended
      /\ pc' \in {"finish", "final_observe", "prepare_rebind"}
  <2> DEFINE r == Released(result)
  <2>1. /\ r \in Results /\ ~r.held /\ r.leases = 0
        /\ r.opened = result.opened /\ r.cleanup = result.cleanup
        /\ r.commands = result.commands /\ r.closes = result.closes
        /\ r.suspended = result.suspended
    BY <1>1, Typed, LeaseTypes DEF Released, Results
  <2>2. \/ FailsWith([result EXCEPT !.held = FALSE], "cleanup")
        \/ pc' = "final_observe" /\ result' = [r EXCEPT !.graceful = TRUE]
        \/ /\ result.restarts < MaxRestarts /\ pc' = "prepare_rebind"
           /\ result' = [r EXCEPT !.restarts = result.restarts + 1]
    BY DEF ReleasesForRebind
  <2> HIDE DEF r
  <2>3. CASE FailsWith([result EXCEPT !.held = FALSE], "cleanup")
    BY <2>3, Typed DEF FailsWith, Results
  <2>4. CASE pc' = "final_observe" /\ result' = [r EXCEPT !.graceful = TRUE]
    BY <2>1, <2>4 DEF Results
  <2>5. CASE /\ result.restarts < MaxRestarts /\ pc' = "prepare_rebind"
             /\ result' = [r EXCEPT !.restarts = result.restarts + 1]
    <3>1. result.restarts + 1 \in 0..MaxRestarts
      BY <2>5, Typed, Limits DEF Results
    <3> QED BY <2>1, <2>5, <3>1 DEF Results
  <2> QED BY <2>2, <2>3, <2>4, <2>5
<1>4. TypeOK' /\ SaidSide'
  BY <1>1, <1>2, <1>3, Typed, TypeFrom, SaidKeeps DEF Places
<1>5. LeaseSide' /\ ReaderSide'
  BY <1>1, <1>2, <1>3 DEF LeaseSide, ReaderSide, Early, Over, Playing, Pausing, Exchanging
<1>6. SignalSide'
  BY <1>1, <1>3 DEF SignalSide, ExchangeSide, RestSide, Exchanging, Over, Early, Playing,
     Pausing, Ending, Owes, NoAnswers, CleanupSide
<1>7. CleanupSide'
  BY <1>1, <1>3 DEF CleanupSide, Playing, Ending, Pausing, Exchanging
<1>8. PcmSide'
  BY <1>1, <1>2, <1>3 DEF PcmSide, Early, Playing, Pausing, Exchanging, Over
<1> QED BY <1>4, <1>5, <1>6, <1>7, <1>8

(* The lease is taken again, and the encoder starts afresh for the stream it finds. *)
LEMMA PreparesRebindKeeps == RunInv /\ PreparesRebind => RunInv'
<1> SUFFICES ASSUME RunInv, PreparesRebind PROVE RunInv'
  OBVIOUS
<1> USE DEF RunInv
<1>1. /\ pc = "prepare_rebind" /\ UNCHANGED <<cont, src, outbound, reader, world>>
      /\ wire' = wire /\ headset' = headset /\ endpoint' = endpoint /\ stop' = stop
      /\ ~pcm.preflight /\ ~result.held
  BY DEF PreparesRebind, world, PcmSide, LeaseSide
<1>2. CASE Breaks /\ UNCHANGED pcm
  BY <1>1, <1>2, BreakKeeps DEF Playing
<1>3. CASE Fails(Broken) /\ UNCHANGED pcm
  BY <1>1, <1>3, FailureKeeps, BrokenIsFailure DEF Over
<1> DEFINE leaves == stop = "graceful" \/ Snapshot.format # pcm.locked
           r == Acquired(result)
<1>4. CASE /\ result' = [r EXCEPT
                 !.disposition = IF stop = "cancel" THEN "cancelled" ELSE @,
                 !.graceful = leaves]
           /\ pc' = IF stop = "cancel" THEN "finish"
                    ELSE IF leaves THEN "final_observe" ELSE "silence"
           /\ pcm' = EncoderReset(Prepared(pcm), "observe")
  <2>1. /\ r \in Results /\ r.held /\ r.leases = 1
        /\ r.opened = result.opened /\ r.cleanup = result.cleanup
        /\ r.commands = result.commands /\ r.closes = result.closes
        /\ r.suspended = result.suspended
    BY <1>1, Typed, LeaseTypes DEF Acquired, Results, Over
  <2>2. pc' \in {"finish", "final_observe", "silence"}
    BY <1>4
  <2>3. leaves \in BOOLEAN
    OBVIOUS
  <2> HIDE DEF r, leaves
  <2>4. /\ result' \in Results /\ result'.held /\ result'.leases = 1
        /\ result'.opened = result.opened /\ result'.cleanup = result.cleanup
        /\ result'.commands = result.commands /\ result'.closes = result.closes
        /\ result'.suspended = result.suspended
    BY <1>4, <2>1, <2>3 DEF Results
  <2>5. /\ pcm' \in Pcms /\ pcm'.fifo = endpoint.epoch /\ pcm'.bound = endpoint.epoch
        /\ pcm'.block = pcm.block /\ pcm'.encoder = {} /\ pcm'.attempts = 0
        /\ pcm'.then = "observe" /\ ~pcm'.preflight
    <3>1. /\ Prepared(pcm) \in Pcms /\ Prepared(pcm).fifo = endpoint.epoch
          /\ Prepared(pcm).bound = endpoint.epoch /\ Prepared(pcm).block = pcm.block
          /\ ~Prepared(pcm).preflight
      BY <1>1, PreparedTypes, Typed DEF Pcms
    <3> QED BY <1>4, <3>1, ResetTypes
  <2>6. TypeOK' /\ SaidSide'
    BY <1>1, <2>2, <2>4, <2>5, Typed, TypeFrom, SaidKeeps DEF Places
  <2>7. LeaseSide' /\ ReaderSide'
    BY <1>1, <2>2, <2>4, <2>5
    DEF LeaseSide, ReaderSide, Early, Over, Playing, Pausing, Exchanging
  <2>8. SignalSide'
    BY <1>1, <2>2, <2>4 DEF SignalSide, ExchangeSide, RestSide, Exchanging, Over, Early,
       Playing, Pausing, Ending, Owes, NoAnswers, CleanupSide
  <2>9. CleanupSide'
    BY <1>1, <2>2, <2>4 DEF CleanupSide, Playing, Ending, Pausing, Exchanging
  <2>10. PcmSide'
    BY <1>1, <2>2, <2>5, Typed, Limits
    DEF PcmSide, Early, Playing, Pausing, Exchanging, Over, Pcms, Endpoints
  <2> QED BY <2>6, <2>7, <2>8, <2>9, <2>10
<1> QED BY <1>2, <1>3, <1>4 DEF PreparesRebind

(* The driver's answer about another stream sends the loop to renew its lease. *)
LEMMA RenewalKeeps ==
    ASSUME RunInv, pc \in {"check", "pace"},
           pcm' = [pcm EXCEPT !.force = TRUE, !.preflight = FALSE], pc' = "observe",
           UNCHANGED <<cont, src, outbound, result, reader, world>>
    PROVE  RunInv'
<1> USE DEF RunInv
<1>1. pcm \in Pcms
  BY Typed
<1>2. /\ pcm' \in Pcms /\ pcm'.held = pcm.held /\ pcm'.fifo = pcm.fifo /\ pcm'.block = pcm.block
      /\ pcm'.bound = pcm.bound /\ pcm'.encoder = pcm.encoder
      /\ pcm'.attempts = pcm.attempts /\ pcm'.then = pcm.then /\ ~pcm'.preflight
  BY <1>1 DEF Pcms
<1>3. PcmSide' /\ Alike
  BY <1>2 DEF PcmSide, Early, Playing, Pausing, Exchanging, Over, Alike, world
<1> QED BY <1>2, <1>3, MoveKeeps

(* A block is encoded only when it is of the lease's stream. *)
LEMMA ChecksBlockKeeps == RunInv /\ ChecksBlock => RunInv'
<1> SUFFICES ASSUME RunInv, ChecksBlock PROVE RunInv'
  OBVIOUS
<1> USE DEF RunInv
<1>1. pc = "check" /\ UNCHANGED <<cont, src, outbound, reader, world>> /\ endpoint' = endpoint
  BY DEF ChecksBlock, world
<1>2. CASE /\ SingleGain \/ Snapshot = [format |-> pcm.locked, epoch |-> pcm.bound]
           /\ Encodes /\ UNCHANGED result
  <2>1. pcm \in Pcms /\ pcm.block \in 0..MaxEpochs
    BY Typed DEF Pcms
  <2>2. SingleGain \/ endpoint.epoch = pcm.bound
    BY <1>2 DEF Snapshot
  <2>3. SingleGain \/ pcm.block = pcm.bound
    BY <1>1, <2>1, <2>2, Typed DEF PcmSide, Pcms, Endpoints
  <2>4. /\ pcm' \in Pcms /\ pcm'.held = pcm.held /\ pcm'.fifo = pcm.fifo
        /\ pcm'.block = pcm.block /\ pcm'.bound = pcm.bound
        /\ pcm'.encoder = pcm.encoder \cup {pcm.block}
        /\ pcm'.attempts = 0 /\ pcm'.then = pcm.then /\ ~pcm'.preflight
    <3>1. pcm.encoder \cup {pcm.block} \in SUBSET (0..MaxEpochs) /\ 0 \in 0..MaxAttempts
      BY <2>1, Limits DEF Pcms
    <3> QED BY <1>2, <2>1, <3>1 DEF Encodes, Pcms
  <2>5. pc' \in {"observe", "pace"}
    BY <1>2 DEF Encodes
  <2>6. PcmSide' /\ Alike
    BY <1>1, <2>3, <2>4, <2>5, Limits
    DEF PcmSide, Early, Playing, Pausing, Exchanging, Over, Alike
  <2> QED BY <1>1, <1>2, <2>4, <2>6, MoveKeeps
<1>3. CASE pcm' = [pcm EXCEPT !.force = TRUE, !.preflight = FALSE]
           /\ pc' = "observe" /\ UNCHANGED result
  BY <1>1, <1>3, RenewalKeeps
<1>4. CASE Breaks /\ UNCHANGED pcm
  BY <1>1, <1>4, BreakKeeps DEF Playing
<1> QED BY <1>2, <1>3, <1>4 DEF ChecksBlock, ChecksStream

LEMMA PacesKeeps == RunInv /\ Paces => RunInv'
<1> SUFFICES ASSUME RunInv, Paces PROVE RunInv'
  OBVIOUS
<1> USE DEF RunInv
<1>1. pc = "pace" /\ UNCHANGED <<cont, src, outbound, reader, world>> /\ endpoint' = endpoint
  BY DEF Paces, world
<1>2. CASE Fails("cancelled") /\ UNCHANGED pcm
  BY <1>1, <1>2, FailureKeeps DEF Dispositions, Over
<1>3. CASE Breaks /\ UNCHANGED pcm
  BY <1>1, <1>3, BreakKeeps DEF Playing
<1>4. CASE pc' = "write" /\ UNCHANGED pcm /\ UNCHANGED result
  <2>1. PcmSide' /\ Alike
    BY <1>1, <1>4 DEF PcmSide, Early, Playing, Pausing, Exchanging, Over, Alike
  <2> QED BY <1>1, <1>4, <2>1, MoveKeeps, Typed
<1>5. CASE pcm' = [pcm EXCEPT !.force = TRUE, !.preflight = FALSE]
           /\ pc' = "observe" /\ UNCHANGED result
  BY <1>1, <1>5, RenewalKeeps
<1> QED BY <1>2, <1>3, <1>4, <1>5 DEF Paces, ChecksStream

(* A write that went out, and one that is tried again. *)
LEMMA AttemptsKeep ==
    ASSUME RunInv, pc = "write", pc' \in {"write", "observe"},
           NEW n \in 0..MaxAttempts, n < MaxAttempts, pcm' = [pcm EXCEPT !.attempts = n],
           UNCHANGED <<cont, src, outbound, result, reader, world>>
    PROVE  RunInv'
<1> USE DEF RunInv
<1>1. pcm \in Pcms
  BY Typed
<1>2. /\ pcm' \in Pcms /\ pcm'.held = pcm.held /\ pcm'.fifo = pcm.fifo /\ pcm'.block = pcm.block
      /\ pcm'.bound = pcm.bound /\ pcm'.encoder = pcm.encoder
      /\ pcm'.attempts = n /\ pcm'.then = pcm.then /\ pcm'.preflight = pcm.preflight
  BY <1>1 DEF Pcms
<1>3. PcmSide' /\ Alike
  BY <1>2 DEF PcmSide, Early, Playing, Pausing, Exchanging, Over, Alike, world
<1> QED BY <1>2, <1>3, MoveKeeps

LEMMA WritesMediaKeeps == RunInv /\ WritesMedia => RunInv'
<1>1. 0 \in 0..MaxAttempts /\ 0 < MaxAttempts
  BY Limits
<1> QED BY <1>1, AttemptsKeep DEF WritesMedia

LEMMA WriteIsNotReadyKeeps == RunInv /\ WriteIsNotReady => RunInv'
<1> SUFFICES ASSUME RunInv, WriteIsNotReady PROVE RunInv'
  OBVIOUS
<1>1. CASE Fails(Broken) /\ UNCHANGED pcm
  BY <1>1, FailureKeeps, BrokenIsFailure DEF WriteIsNotReady, Over
<1>2. CASE /\ pcm.attempts + 1 # MaxAttempts
           /\ pcm' = [pcm EXCEPT !.attempts = pcm.attempts + 1] /\ UNCHANGED <<pc, result>>
  <2>1. pcm.attempts + 1 \in 0..MaxAttempts /\ pcm.attempts + 1 < MaxAttempts
    BY <1>2, Typed, Limits DEF Pcms, PcmSide, RunInv
  <2> QED BY <1>2, <2>1, AttemptsKeep DEF WriteIsNotReady
<1> QED BY <1>1, <1>2 DEF WriteIsNotReady

LEMMA WriteFailsKeeps == RunInv /\ WriteFails => RunInv'
BY FailureKeeps, BrokenIsFailure DEF WriteFails, Over

-----------------------------------------------------------------------------
(* The pause while the endpoint is silent. *)

(* SUSPEND of the pause goes out: the peer's read is cancelled before it. *)
LEMMA SuspendGoesOut ==
    ASSUME RunInv, pc = "pause", reader' = ReadCancelled,
           Asks(SuspendSource(src), "pause_suspend"), UNCHANGED <<result, pcm, world>>
    PROVE  RunInv'
<1> USE DEF RunInv
<1> DEFINE s == SuspendSource(src)
<1>1. /\ pc = "pause" /\ reader' = ReadCancelled /\ Asks(s, "pause_suspend")
      /\ UNCHANGED <<result, pcm, world>>
      /\ wire' = wire /\ headset' = headset /\ endpoint' = endpoint /\ stop' = stop
      /\ result.cleanup /\ ~pcm.preflight
  BY DEF world, CleanupSide, Playing, PcmSide
<1>2. src.state = "streaming" /\ src \in Sources
  BY <1>1, Typed DEF SignalSide, RestSide, Over, Exchanging, Playing
<1>3. s \in Sources /\ s.state = "suspend_sent" /\ s.signal = "suspend"
  BY <1>2, SourceAsks
<1>4. /\ SignalSide' /\ pc' = "send" /\ cont' = "pause_suspend"
      /\ pc' \in Places /\ cont' \in Exchanges /\ src' \in Sources /\ outbound' \in Packets
  <2> HIDE DEF s
  <2>1. /\ "suspend_sent" \in SentFor["pause_suspend"] /\ "suspend" \in Sent["suspend_sent"]
        /\ Before["suspend_sent"] = Before["streaming"] /\ "pause_suspend" \in Exchanges
    BY DEF SentFor, Sent, Before, Exchanges
  <2> QED BY <1>1, <1>2, <1>3, <2>1, AsksKeeps DEF Over, Exchanging
<1>5. reader' \in Readers /\ reader'.open = reader.open /\ reader'.peer = "none"
  BY <1>1, Typed, PacketTypes DEF ReadCancelled, Readers
<1>6. TypeOK' /\ SaidSide'
  BY <1>1, <1>4, <1>5, Typed, TypeFrom, SaidKeeps
<1>7. LeaseSide' /\ ReaderSide'
  BY <1>1, <1>4, <1>5
  DEF LeaseSide, ReaderSide, Early, Over, Playing, Pausing, Exchanging
<1>8. CleanupSide'
  BY <1>1, <1>4 DEF CleanupSide, Playing, Ending, Pausing, Exchanging
<1>9. PcmSide'
  BY <1>1, <1>4 DEF PcmSide, Early, Playing, Pausing, Exchanging, Over
<1> QED BY <1>4, <1>6, <1>7, <1>8, <1>9

LEMMA SuspendsKeeps == RunInv /\ Suspends => RunInv'
<1> SUFFICES ASSUME RunInv, Suspends PROVE RunInv'
  OBVIOUS
<1>1. CASE ReadIsNotCancelled(result) /\ UNCHANGED <<pcm, world>>
  BY <1>1, FailureKeeps DEF Suspends, ReadIsNotCancelled, Fails, Dispositions, Over
<1>2. CASE /\ reader' = ReadCancelled /\ Asks(SuspendSource(src), "pause_suspend")
           /\ UNCHANGED <<result, pcm, world>>
  BY <1>2, SuspendGoesOut DEF Suspends
<1> QED BY <1>1, <1>2 DEF Suspends

(* A lease that is given back is counted, whatever else the run says. *)
LEMMA ReleasedTypes ==
    ASSUME NEW r \in Results, r.leases = 1
    PROVE  /\ Released(r) \in Results /\ ~Released(r).held /\ Released(r).leases = 0
           /\ Released(r).suspended = r.suspended /\ Released(r).opened = r.opened
           /\ Released(r).commands = r.commands /\ Released(r).closes = r.closes
<1>1. r.leases - 1 = 0
  OBVIOUS
<1>2. Released(r) = [r EXCEPT !.held = FALSE, !.leases = 0]
  BY <1>1 DEF Released
<1>3. Released(r) \in Results /\ ~Released(r).held /\ Released(r).leases = 0
  BY <1>2 DEF Results
<1>4. /\ Released(r).suspended = r.suspended /\ Released(r).opened = r.opened
      /\ Released(r).commands = r.commands /\ Released(r).closes = r.closes
  BY <1>2 DEF Results
<1> QED BY <1>3, <1>4

(* SUSPEND is accepted: nothing streams, and the lease is let go however the driver       *)
(* answers.                                                                             *)
LEMMA PauseBeginsKeeps == RunInv /\ PauseBegins => RunInv'
<1> SUFFICES ASSUME RunInv, PauseBegins PROVE RunInv'
  OBVIOUS
<1> USE DEF RunInv
<1> DEFINE suspended == [result EXCEPT !.cleanup = FALSE, !.suspended = TRUE]
<1>1. /\ pc = "paused" /\ pcm' = Dropped(pcm) /\ UNCHANGED <<cont, src, outbound>>
      /\ wire' = wire /\ headset' = headset /\ endpoint' = endpoint /\ stop' = stop
      /\ result.held /\ result.leases = 1 /\ result.opened /\ ~pcm.preflight
  BY DEF PauseBegins, world, LeaseSide, ReaderSide, Early, Over, PcmSide
<1>2. /\ suspended \in Results /\ ~suspended.cleanup /\ suspended.suspended
      /\ suspended.held = result.held /\ suspended.leases = result.leases
      /\ suspended.opened = result.opened /\ suspended.commands = result.commands
      /\ suspended.closes = result.closes
  BY Typed DEF Results
<1> DEFINE r == Released(suspended)
<1>3. \/ FailsWith(suspended, "cleanup") /\ UNCHANGED reader
      \/ pc' = "pause_probe" /\ result' = r /\ reader' = PeerRead
      \/ FailsWith(r, "backend") /\ UNCHANGED reader
  BY DEF PauseBegins
<1> HIDE DEF suspended
<1>4. /\ r \in Results /\ ~r.held /\ r.leases = 0 /\ r.suspended
      /\ r.opened = result.opened /\ r.commands = result.commands
      /\ r.closes = result.closes
  <2>1. suspended.leases = 1
    BY <1>1, <1>2
  <2> QED BY <1>2, <2>1, ReleasedTypes
<1> HIDE DEF r
<1>5. /\ result' \in Results
      /\ result'.opened = result.opened /\ result'.commands = result.commands
      /\ result'.closes = result.closes
      /\ reader' \in {reader, PeerRead} /\ pc' \in {"finish", "pause_probe"}
      /\ result'.held => pc' = "finish" /\ result'.leases = 1
      /\ ~result'.held => result'.leases = 0
      /\ pc' = "pause_probe" => ~result'.held /\ result'.suspended
  <2>1. CASE FailsWith(suspended, "cleanup") /\ UNCHANGED reader
    BY <1>1, <1>2, <2>1 DEF FailsWith, Results
  <2>2. CASE pc' = "pause_probe" /\ result' = r /\ reader' = PeerRead
    BY <1>4, <2>2
  <2>3. CASE FailsWith(r, "backend") /\ UNCHANGED reader
    BY <1>4, <2>3 DEF FailsWith, Results
  <2> QED BY <1>3, <2>1, <2>2, <2>3
<1>6. /\ reader' \in Readers /\ reader'.open = reader.open
  BY <1>5, Typed, PacketTypes DEF PeerRead, Readers
<1>7. /\ pcm' \in Pcms /\ ~pcm'.held /\ pcm'.fifo = pcm.fifo /\ pcm'.block = pcm.block
      /\ pcm'.bound = pcm.bound /\ pcm'.then = pcm.then /\ pcm'.attempts = pcm.attempts
      /\ ~pcm'.preflight /\ pcm'.encoder = pcm.encoder
  BY <1>1, Typed, PreparedTypes DEF Pcms
<1>8. TypeOK' /\ SaidSide'
  BY <1>1, <1>5, <1>6, <1>7, Typed, TypeFrom, SaidKeeps DEF Places
<1>9. LeaseSide' /\ ReaderSide'
  BY <1>1, <1>5, <1>6, <1>7
  DEF LeaseSide, ReaderSide, Early, Over, Playing, Pausing, Exchanging
<1>10. headset.stream # "streaming" /\ headset.last # "streaming"
  BY <1>1 DEF SignalSide, RestSide, CleanupSide, ReaderSide, Before, Exchanging, Over
<1>11. SignalSide'
  BY <1>1, <1>5 DEF SignalSide, ExchangeSide, RestSide, Exchanging, Over, Early, Playing,
     Pausing, Ending, Owes, NoAnswers
<1>12. CleanupSide'
  BY <1>1, <1>5, <1>10 DEF CleanupSide, Playing, Ending, Pausing, Exchanging
<1>13. PcmSide'
  BY <1>1, <1>5, <1>7 DEF PcmSide, Early, Playing, Pausing, Exchanging, Over
<1> QED BY <1>8, <1>9, <1>11, <1>12, <1>13

LEMMA ProbesPausedKeeps == RunInv /\ ProbesPaused => RunInv'
<1> SUFFICES ASSUME RunInv, ProbesPaused PROVE RunInv'
  OBVIOUS
<1>1. pc = "pause_probe" /\ UNCHANGED <<cont, src, outbound, reader, pcm, world>>
  BY DEF ProbesPaused
<1>2. CASE Fails("cancelled")
  BY <1>1, <1>2, FailureKeeps DEF Dispositions, Over
<1>3. CASE Breaks
  BY <1>1, <1>3, BreakKeeps DEF Pausing
<1>4. CASE pc' = "pause_observe" /\ UNCHANGED result
  <2>1. PcmSide' /\ Alike
    BY <1>1, <1>4
    DEF RunInv, PcmSide, Early, Playing, Pausing, Exchanging, Over, Alike, world
  <2> QED BY <1>1, <1>4, <2>1, MoveKeeps, Typed DEF RunInv
<1> QED BY <1>2, <1>3, <1>4 DEF ProbesPaused

LEMMA PrepareWaitsKeeps == RunInv /\ PrepareWaits => RunInv'
<1> SUFFICES ASSUME RunInv, PrepareWaits PROVE RunInv'
  OBVIOUS
<1>1. pc = "prepare_pause" /\ UNCHANGED <<cont, src, outbound, reader, pcm, world>>
  BY DEF PrepareWaits
<1>2. CASE \E d \in {"cancelled", "backend"} : Fails(d)
  BY <1>1, <1>2, FailureKeeps DEF Dispositions, Over
<1>3. CASE Breaks
  BY <1>1, <1>3, BreakKeeps DEF Pausing
<1>4. CASE pc' = "pause_probe" /\ UNCHANGED result
  <2>1. PcmSide' /\ Alike
    BY <1>1, <1>4
    DEF RunInv, PcmSide, Early, Playing, Pausing, Exchanging, Over, Alike, world
  <2> QED BY <1>1, <1>4, <2>1, MoveKeeps, Typed DEF RunInv
<1> QED BY <1>2, <1>3, <1>4 DEF PrepareWaits

(* The endpoint renders again: lease and encoder are of the stream that is found. *)
LEMMA PreparesResumeKeeps == RunInv /\ PreparesResume => RunInv'
<1> SUFFICES ASSUME RunInv, PreparesResume PROVE RunInv'
  OBVIOUS
<1> USE DEF RunInv
<1> DEFINE s == StartSource(src)
           r == Acquired(result)
<1>1. /\ pc = "prepare_pause" /\ UNCHANGED world /\ pcm' = Prepared(pcm)
      /\ wire' = wire /\ headset' = headset /\ endpoint' = endpoint /\ stop' = stop
      /\ ~result.held /\ result.opened /\ result.suspended /\ ~pcm.preflight
  BY DEF PreparesResume, world, LeaseSide, ReaderSide, CleanupSide, PcmSide, Pausing, Early, Over
<1>2. src.state = "open" /\ src \in Sources
  BY <1>1, Typed DEF SignalSide, RestSide, Over, Exchanging, Pausing
<1>3. s \in Sources /\ s.state = "start_sent" /\ s.signal = "start"
  BY <1>2, SourceAsks
<1>4. /\ r \in Results /\ r.held /\ r.leases = 1 /\ r.opened = result.opened
      /\ r.commands = result.commands /\ r.closes = result.closes
      /\ r.cleanup = result.cleanup
  BY <1>1, Typed, LeaseTypes DEF Acquired, Results, Over
<1>5. /\ pcm' \in Pcms /\ pcm'.fifo = endpoint.epoch /\ pcm'.bound = endpoint.epoch
      /\ pcm'.block = pcm.block /\ pcm'.then = pcm.then /\ pcm'.attempts = pcm.attempts
      /\ ~pcm'.preflight
  BY <1>1, Typed, PreparedTypes DEF Pcms
<1>6. \/ result' = r /\ reader' = ReadCancelled /\ Asks(s, "resume_start")
      \/ /\ \E d \in {"protocol", "backend"} : FailsWith(r, d)
         /\ UNCHANGED <<cont, src, outbound, reader>>
  BY DEF PreparesResume, ReadIsNotCancelled
<1> HIDE DEF r, s
<1>7. /\ result' \in Results /\ result'.held /\ result'.leases = 1
      /\ result'.opened = result.opened /\ result'.commands = result.commands
      /\ result'.closes = result.closes /\ result'.cleanup = result.cleanup
      /\ reader' \in {reader, ReadCancelled}
  BY <1>4, <1>6 DEF FailsWith, Results
<1>8. /\ SignalSide'
      /\ \/ pc' = "send" /\ cont' = "resume_start"
         \/ pc' = "finish" /\ cont' = cont
      /\ pc' \in Places /\ cont' \in Exchanges /\ src' \in Sources /\ outbound' \in Packets
  <2>1. CASE Asks(s, "resume_start")
    <3>1. /\ "start_sent" \in SentFor["resume_start"] /\ "start" \in Sent["start_sent"]
          /\ Before["start_sent"] = Before["open"] /\ "resume_start" \in Exchanges
      BY DEF SentFor, Sent, Before, Exchanges
    <3> QED BY <1>1, <1>2, <1>3, <2>1, <3>1, AsksKeeps DEF Over, Exchanging
  <2>2. CASE /\ \E d \in {"protocol", "backend"} : FailsWith(r, d)
             /\ UNCHANGED <<cont, src, outbound, reader>>
    BY <2>2, FinishSides, Typed DEF FailsWith, Places
  <2> QED BY <1>6, <2>1, <2>2
<1>9. reader' \in Readers /\ reader'.open = reader.open
      /\ (reader.peer = "none" => reader'.peer = "none")
  BY <1>7, ReaderKeeps
<1>10. TypeOK' /\ SaidSide'
  BY <1>1, <1>5, <1>7, <1>8, <1>9, Typed, TypeFrom, SaidKeeps
<1>11. LeaseSide' /\ ReaderSide'
  BY <1>1, <1>5, <1>7, <1>8, <1>9
  DEF LeaseSide, ReaderSide, Early, Over, Playing, Pausing, Exchanging
<1>12. CleanupSide'
  <2>1. headset.stream # "streaming"
    BY <1>1, <1>2 DEF SignalSide, RestSide, CleanupSide, Over, Exchanging, Before
  <2> QED BY <1>1, <1>7, <1>8, <2>1 DEF CleanupSide, Playing, Ending, Pausing, Exchanging
<1>13. PcmSide'
  BY <1>1, <1>5, <1>8, Typed
  DEF PcmSide, Early, Playing, Pausing, Exchanging, Over, Pcms, Endpoints
<1> QED BY <1>8, <1>10, <1>11, <1>12, <1>13

-----------------------------------------------------------------------------
(* The end of the run. *)

(* The stream is suspended and closed, unless the host cancels. *)
LEMMA EndsStreamKeeps == RunInv /\ EndsStream => RunInv'
<1> SUFFICES ASSUME RunInv, EndsStream PROVE RunInv'
  OBVIOUS
<1> USE DEF RunInv
<1>1. /\ pc = "end" /\ UNCHANGED <<pcm, world>>
      /\ wire' = wire /\ headset' = headset /\ endpoint' = endpoint /\ stop' = stop
      /\ result.opened /\ src \in Sources
  BY Typed DEF EndsStream, world, ReaderSide, Early, Over
<1>2. CASE Fails("cancelled") /\ reader' = ReadCancelled /\ UNCHANGED <<cont, src, outbound>>
  BY <1>1, <1>2, FailureKeeps DEF Dispositions, Over
<1>3. CASE ReadIsNotCancelled(result)
  BY <1>1, <1>3, FailureKeeps DEF ReadIsNotCancelled, Fails, Dispositions, Over
<1>4. CASE /\ reader' = ReadCancelled /\ UNCHANGED result
           /\ \/ result.suspended /\ Asks(CloseSource(src), "close")
              \/ ~result.suspended /\ Asks(SuspendSource(src), "suspend")
  <2>1. reader' \in Readers /\ reader'.open = reader.open /\ reader'.peer = "none"
    BY <1>4, Typed, PacketTypes DEF ReadCancelled, Readers
  <2>2. /\ SignalSide' /\ pc' = "send"
        /\ cont' \in {"suspend", "close"}
        /\ pc' \in Places /\ cont' \in Exchanges /\ src' \in Sources /\ outbound' \in Packets
        /\ cont' = "suspend" => result.cleanup
        /\ cont' = "close" => "streaming" \notin {headset.stream, headset.last}
    <3>1. CASE result.suspended /\ Asks(CloseSource(src), "close")
      <4> DEFINE s == CloseSource(src)
      <4>1. src.state = "open"
        BY <1>1, <3>1 DEF SignalSide, RestSide, Over, Exchanging, Ending
      <4>2. s \in Sources /\ s.state = "close_sent" /\ s.signal = "close"
        BY <1>1, <4>1, SourceAsks
      <4> HIDE DEF s
      <4>3. /\ "close_sent" \in SentFor["close"] /\ "close" \in Sent["close_sent"]
            /\ Before["close_sent"] = Before["open"] /\ "close" \in Exchanges
        BY DEF SentFor, Sent, Before, Exchanges
      <4>4. Asks(s, "close")
        BY <3>1 DEF s
      <4>5. /\ SignalSide' /\ pc' = "send" /\ cont' = "close"
            /\ pc' \in Places /\ cont' \in Exchanges /\ src' \in Sources /\ outbound' \in Packets
        BY <1>1, <4>1, <4>2, <4>3, <4>4, AsksKeeps DEF Over, Exchanging
      <4>6. headset.stream # "streaming" /\ headset.last # "streaming"
        BY <1>1, <4>1
        DEF SignalSide, RestSide, CleanupSide, ReaderSide, Before, Exchanging, Over
      <4> QED BY <4>5, <4>6
    <3>2. CASE ~result.suspended /\ Asks(SuspendSource(src), "suspend")
      <4> DEFINE s == SuspendSource(src)
      <4>1. src.state = "streaming" /\ result.cleanup
        BY <1>1, <3>2 DEF SignalSide, RestSide, Over, Exchanging, Ending, CleanupSide
      <4>2. s \in Sources /\ s.state = "suspend_sent" /\ s.signal = "suspend"
        BY <1>1, <4>1, SourceAsks
      <4> HIDE DEF s
      <4>3. /\ "suspend_sent" \in SentFor["suspend"] /\ "suspend" \in Sent["suspend_sent"]
            /\ Before["suspend_sent"] = Before["streaming"] /\ "suspend" \in Exchanges
        BY DEF SentFor, Sent, Before, Exchanges
      <4>4. Asks(s, "suspend")
        BY <3>2 DEF s
      <4>5. /\ SignalSide' /\ pc' = "send" /\ cont' = "suspend"
            /\ pc' \in Places /\ cont' \in Exchanges /\ src' \in Sources /\ outbound' \in Packets
        BY <1>1, <4>1, <4>2, <4>3, <4>4, AsksKeeps DEF Over, Exchanging
      <4> QED BY <4>1, <4>5
    <3> QED BY <1>4, <3>1, <3>2
  <2>3. TypeOK' /\ SaidSide'
    BY <1>1, <1>4, <2>1, <2>2, Typed, TypeFrom, SaidKeeps
  <2>4. LeaseSide' /\ ReaderSide'
    BY <1>1, <1>4, <2>1, <2>2
    DEF LeaseSide, ReaderSide, Early, Over, Playing, Pausing, Exchanging
  <2>5. CleanupSide'
    BY <1>1, <1>4, <2>2 DEF CleanupSide, Playing, Ending, Pausing, Exchanging
  <2>6. PcmSide'
    BY <1>1, <2>2 DEF PcmSide, Early, Playing, Pausing, Exchanging, Over
  <2> QED BY <2>2, <2>3, <2>4, <2>5, <2>6
<1> QED BY <1>2, <1>3, <1>4 DEF EndsStream

LEMMA EndsSessionKeeps == RunInv /\ EndsSession => RunInv'
<1> SUFFICES ASSUME RunInv, EndsSession PROVE RunInv'
  OBVIOUS
<1> USE DEF RunInv
<1> DEFINE s == CloseSource(src)
<1>1. /\ pc = "suspended" /\ result' = [result EXCEPT !.cleanup = FALSE] /\ Asks(s, "close")
      /\ UNCHANGED <<reader, pcm, world>>
      /\ wire' = wire /\ headset' = headset /\ endpoint' = endpoint /\ stop' = stop
      /\ result.opened
  BY DEF EndsSession, world, ReaderSide, Early, Over
<1>2. src.state = "open" /\ src \in Sources
  BY <1>1, Typed DEF SignalSide, RestSide, Over, Exchanging
<1>3. s \in Sources /\ s.state = "close_sent" /\ s.signal = "close"
  BY <1>2, SourceAsks
<1>4. /\ SignalSide' /\ pc' = "send" /\ cont' = "close"
      /\ pc' \in Places /\ cont' \in Exchanges /\ src' \in Sources /\ outbound' \in Packets
  <2> HIDE DEF s
  <2>1. /\ "close_sent" \in SentFor["close"] /\ "close" \in Sent["close_sent"]
        /\ Before["close_sent"] = Before["open"] /\ "close" \in Exchanges
    BY DEF SentFor, Sent, Before, Exchanges
  <2> QED BY <1>1, <1>2, <1>3, <2>1, AsksKeeps DEF Over, Exchanging
<1>5. /\ result' \in Results /\ result'.held = result.held /\ result'.leases = result.leases
      /\ result'.opened = result.opened /\ result'.commands = result.commands
      /\ result'.closes = result.closes
  BY <1>1, Typed DEF Results
<1>6. TypeOK' /\ SaidSide'
  BY <1>1, <1>4, <1>5, Typed, TypeFrom, SaidKeeps
<1>7. LeaseSide' /\ ReaderSide'
  BY <1>1, <1>4, <1>5
  DEF LeaseSide, ReaderSide, Early, Over, Playing, Pausing, Exchanging
<1>8. CleanupSide'
  <2>1. headset.stream # "streaming" /\ headset.last # "streaming"
    BY <1>1, <1>2
    DEF SignalSide, RestSide, CleanupSide, ReaderSide, Before, Exchanging, Over
  <2> QED BY <1>1, <1>4, <2>1 DEF CleanupSide, Playing, Ending, Pausing, Exchanging
<1>9. PcmSide'
  BY <1>1, <1>4 DEF PcmSide, Early, Playing, Pausing, Exchanging, Over
<1> QED BY <1>4, <1>6, <1>7, <1>8, <1>9

LEMMA SessionClosedKeeps == RunInv /\ SessionClosed => RunInv'
BY FailureKeeps DEF SessionClosed, Dispositions, Over

(* Nothing is on a wire that is closed. *)
LEMMA WireIsEmpty ==
    ASSUME wire' = <<>>
    PROVE  wire' \in Seq(Packets) /\ Cardinality(CommandsIn(wire)') = 0
<1>1. CommandsIn(wire)' = {}
  BY DEF CommandsIn
<1> QED BY <1>1, FS_EmptySet

(* Finish closes the channels once, if they were opened, and lets the lease go. *)
LEMMA FinishesKeeps == RunInv /\ Finishes => RunInv'
<1> SUFFICES ASSUME RunInv, Finishes PROVE RunInv'
  OBVIOUS
<1> USE DEF RunInv
<1>1. /\ pc = "finish" /\ pc' = "done" /\ src' = NewSource /\ outbound' = Silent
      /\ UNCHANGED <<cont, stop, endpoint>> /\ ClosesSignaling /\ result.closes = 0
      /\ headset.last = "idle"
  BY DEF Finishes, ReaderSide
<1>2. PICK r \in SignalingClosed : ReleasesLease(r)
  BY DEF Finishes
<1>3. /\ r \in Results /\ r.held = result.held /\ r.leases = result.leases
      /\ r.opened = result.opened /\ r.commands = result.commands
      /\ r.cleanup = result.cleanup
      /\ r.disposition \in {result.disposition, "cleanup"}
      /\ r.closes = (IF result.opened THEN 1 ELSE 0)
  <2>1. result \in Results
    BY Typed
  <2>2. CASE result.opened
    <3>1. PICK d \in {result.disposition, "cleanup"} :
            r = [result EXCEPT !.disposition = d, !.closes = result.closes + 1]
      BY <1>2, <2>2 DEF SignalingClosed
    <3>2. result.closes + 1 = 1
      BY <1>1
    <3>3. r = [result EXCEPT !.disposition = d, !.closes = 1]
      BY <3>1, <3>2
    <3> QED BY <2>1, <2>2, <3>3 DEF Results
  <2>3. CASE ~result.opened
    BY <1>1, <1>2, <2>1, <2>3 DEF SignalingClosed
  <2> QED BY <2>2, <2>3
<1>4. /\ result' \in Results /\ ~result'.held
      /\ result'.opened = result.opened /\ result'.commands = result.commands
      /\ result'.cleanup = result.cleanup /\ result'.closes = r.closes
      /\ result'.leases = 1 => result'.disposition = "cleanup"
      /\ pcm' = Dropped(pcm) \/ (pcm' = pcm /\ ~pcm.held)
  <2>1. CASE r.held
    <3>1. pcm' = Dropped(pcm) /\ r.leases = 1
      BY <1>2, <1>3, <2>1 DEF ReleasesLease, LeaseSide
    <3>2. CASE result' = Released(r)
      <4>1. r.leases - 1 = 0
        BY <3>1
      <4>2. Released(r) = [r EXCEPT !.held = FALSE, !.leases = 0]
        BY <4>1 DEF Released
      <4>3. Released(r).cleanup = r.cleanup
        BY <1>3, <4>2 DEF Results
      <4> QED BY <1>3, <3>1, <3>2, <4>3, ReleasedTypes
    <3>3. CASE result' = [r EXCEPT !.held = FALSE, !.disposition = "cleanup"]
      BY <1>3, <3>1, <3>3 DEF Results
    <3> QED BY <1>2, <2>1, <3>2, <3>3 DEF ReleasesLease
  <2>2. CASE ~r.held
    <3>1. result' = r /\ pcm' = pcm
      BY <1>2, <2>2 DEF ReleasesLease
    <3>2. r.leases = 1 => r.disposition = "cleanup"
      BY <1>3, <2>2 DEF LeaseSide
    <3> QED BY <1>3, <2>2, <3>1, <3>2 DEF LeaseSide
  <2> QED BY <2>1, <2>2
<1>5. /\ pcm' \in Pcms /\ ~pcm'.held /\ pcm'.fifo = pcm.fifo /\ pcm'.block = pcm.block
      /\ pcm'.bound = pcm.bound /\ pcm'.then = pcm.then /\ pcm'.attempts = pcm.attempts
  BY <1>4, Typed, PreparedTypes, SMTT(30) DEF Pcms
<1>6. /\ reader' \in Readers /\ ~reader'.open /\ reader'.peer = "none"
      /\ headset' \in Headsets /\ wire' \in Seq(Packets)
      /\ headset'.stream \in {"idle", headset.stream}
      /\ headset'.link = headset.link /\ headset'.said = headset.said
      /\ headset'.last \in {headset.stream, "idle"}
      /\ headset.stream = "idle" => headset'.stream = "idle"
      /\ SaidSide'
  <2>1. /\ result.commands \in Nat /\ headset.said \in Nat /\ Noticed \in {0, 1}
        /\ Cardinality(CommandsIn(wire)) \in Nat
    BY CommandsAreFinite, Typed, Limits DEF Noticed, Results, Headsets
  <2>2. CASE result.opened
    <3>1. /\ reader' = ReaderClosed /\ wire' = <<>>
          /\ headset' = [headset EXCEPT !.stream = "idle", !.asked = Silent,
                                        !.last = headset.stream]
      BY <1>1, <2>2 DEF ClosesSignaling
    <3>2. reader' \in Readers /\ ~reader'.open /\ reader'.peer = "none"
      <4>1. ReadCancelled \in Readers /\ ReadCancelled.peer = "none"
        BY Typed, PacketTypes DEF ReadCancelled, Readers
      <4> QED BY <3>1, <4>1 DEF ReaderClosed, Readers
    <3>3. /\ headset' \in Headsets /\ headset'.stream = "idle" /\ headset'.link = headset.link
          /\ headset'.said = headset.said /\ headset'.last = headset.stream
      BY <3>1, Typed, PacketTypes DEF Headsets, StreamStates
    <3>4. SaidSide'
      <4>1. Noticed' = 0
        BY <3>2 DEF Noticed
      <4> QED BY <1>4, <2>1, <3>1, <3>3, <4>1, WireIsEmpty DEF SaidSide
    <3> QED BY <3>1, <3>2, <3>3, <3>4, WireIsEmpty
  <2>3. CASE ~result.opened
    <3>1. UNCHANGED <<reader, headset, wire>>
      BY <1>1, <2>3 DEF ClosesSignaling
    <3> QED BY <1>1, <1>4, <2>3, <3>1, Typed, SaidKeeps DEF ReaderSide
  <2> QED BY <2>2, <2>3
<1>7. TypeOK'
  BY <1>1, <1>4, <1>5, <1>6, Typed, TypeFrom, NewSourceType, PacketTypes DEF Places
<1>8. LeaseSide' /\ ReaderSide'
  BY <1>1, <1>3, <1>4, <1>5, <1>6
  DEF LeaseSide, ReaderSide, Early, Over, Playing, Pausing, Exchanging
<1>9. SignalSide'
  BY <1>1 DEF SignalSide, ExchangeSide, RestSide, Exchanging, Over
<1>10. CleanupSide'
  BY <1>1, <1>4, <1>6 DEF CleanupSide, Playing, Ending, Pausing, Exchanging
<1>11. PcmSide'
  BY <1>1, <1>5 DEF PcmSide, Early, Playing, Pausing, Exchanging, Over
<1> QED BY <1>6, <1>7, <1>8, <1>9, <1>10, <1>11

-----------------------------------------------------------------------------
(* The headset, the endpoint and the host. *)

(* The terms of the count are numbers. *)
LEMMA CountsAreNumbers ==
    ASSUME TypeOK
    PROVE  /\ result.commands \in Nat /\ headset.said \in Nat /\ Noticed \in {0, 1}
           /\ \A w \in Seq(Packets) : Cardinality(CommandsIn(w)) \in Nat
<1>1. result.commands \in Nat /\ headset.said \in Nat /\ Noticed \in {0, 1}
  BY Typed, Limits DEF Noticed, Results, Headsets
<1>2. \A w \in Seq(Packets) : Cardinality(CommandsIn(w)) \in Nat
  BY CommandsAreFinite
<1> QED BY <1>1, <1>2

(* A command moves the headset's stream as its signal says, when it is accepted. *)
LEMMA AcceptsMoves ==
    ASSUME NEW h \in Headsets, NEW p \in Packets, NEW state \in SentStates,
           p.signal \in Sent[state], h.stream = Before[state]
    PROVE  /\ Accepts(h, p) \in Headsets /\ Accepts(h, p).stream = After[state]
           /\ Accepts(h, p).link = h.link /\ Accepts(h, p).said = h.said
           /\ Accepts(h, p).last = h.last
           /\ After[state] = "streaming" => state = "start_sent"
<1>1. \A t \in StreamStates :
        LET n == [h EXCEPT !.stream = t] IN
        n \in Headsets /\ n.stream = t /\ n.link = h.link /\ n.said = h.said /\ n.last = h.last
  BY DEF Headsets
<1>2. After[state] \in StreamStates /\ (After[state] = "streaming" => state = "start_sent")
  BY DEF SentStates, After, StreamStates
<1>3. \/ Accepts(h, p) = h /\ After[state] = h.stream
      \/ Accepts(h, p) = [h EXCEPT !.stream = After[state]]
  BY DEF SentStates, Sent, Before, After, Accepts
<1> QED BY <1>1, <1>2, <1>3

LEMMA HeadsetAnswersKeeps == RunInv /\ HeadsetAnswers => RunInv'
<1> SUFFICES ASSUME RunInv, HeadsetAnswers PROVE RunInv'
  OBVIOUS
<1> USE DEF RunInv
<1>1. PICK type \in {"accept", "reject"}, sinks \in SinkLists \cup {<<>>} :
        /\ wire' = Append(wire, [headset.asked EXCEPT !.type = type, !.body = sinks])
        /\ headset' = [(IF type = "accept" THEN Accepts(headset, headset.asked) ELSE headset)
                         EXCEPT !.asked = Silent]
  <2>1. PICK type \in {"accept", "reject"},
             sinks \in (IF headset.asked.signal = "discover" THEN SinkLists ELSE {<<>>}) :
          /\ wire' = Append(wire, [headset.asked EXCEPT !.type = type, !.body = sinks])
          /\ headset' = [(IF type = "accept" THEN Accepts(headset, headset.asked) ELSE headset)
                           EXCEPT !.asked = Silent]
    BY DEF HeadsetAnswers
  <2> QED BY <2>1
<1> DEFINE p == [headset.asked EXCEPT !.type = type, !.body = sinks]
           h == IF type = "accept" THEN Accepts(headset, headset.asked) ELSE headset
<1>2. /\ pc \notin Over /\ Owes /\ headset.link /\ UNCHANGED <<session, stop, endpoint>>
      /\ UNCHANGED <<pc, cont, src, outbound, result, reader, pcm>>
  BY DEF HeadsetAnswers, Runs, Over, Owes, session
<1>3. /\ pc \in Exchanging /\ src.state \in SentFor[cont] /\ src.signal \in Sent[src.state]
      /\ NoAnswers /\ headset.asked = Command(src) /\ headset.stream = Before[src.state]
      /\ src.state \in SentStates /\ ~(pc = "send" /\ outbound.type = "command")
  <2>1. pc \in Exchanging
    BY <1>2 DEF SignalSide, RestSide
  <2>2. src.state \in SentFor[cont] => src.state \in SentStates
    BY Typed DEF SentFor, SentStates, Exchanges
  <2> QED BY <1>2, <2>1, <2>2 DEF SignalSide, ExchangeSide
<1>4. /\ p \in Packets /\ p.type = type /\ headset.asked \in Packets
      /\ headset.asked.signal = src.signal /\ p.label = src.pending /\ p.signal = src.signal
  <2>1. /\ headset.asked \in Packets /\ headset.asked.signal = src.signal
        /\ headset.asked.label = src.pending
    BY <1>3, Typed DEF Headsets, Command
  <2>2. p \in Packets /\ p.type = type /\ p.label = src.pending /\ p.signal = src.signal
    BY <2>1 DEF Packets
  <2> QED BY <2>1, <2>2
<1>5. /\ h \in Headsets /\ h.link = headset.link /\ h.said = headset.said
      /\ h.last = headset.last
      /\ h.stream = IF type = "accept" THEN After[src.state] ELSE Before[src.state]
      /\ h.stream = "streaming" => headset.stream = "streaming" \/ src.state = "start_sent"
  <2>1. /\ Accepts(headset, headset.asked) \in Headsets
        /\ Accepts(headset, headset.asked).stream = After[src.state]
        /\ Accepts(headset, headset.asked).link = headset.link
        /\ Accepts(headset, headset.asked).said = headset.said
        /\ Accepts(headset, headset.asked).last = headset.last
        /\ After[src.state] = "streaming" => src.state = "start_sent"
    BY <1>3, <1>4, AcceptsMoves, Typed
  <2>2. CASE type = "accept"
    BY <2>1, <2>2
  <2>3. CASE type = "reject"
    BY <1>3, <2>3, Typed
  <2> QED BY <2>2, <2>3
<1>6. wire' = Append(wire, p) /\ headset' = [h EXCEPT !.asked = Silent]
  BY <1>1
<1> HIDE DEF p, h
<1>7. /\ headset' \in Headsets /\ headset'.link = headset.link /\ headset'.said = headset.said
      /\ headset'.last = headset.last /\ headset'.stream = h.stream /\ headset'.asked = Silent
  BY <1>5, <1>6, PacketTypes DEF Headsets
<1>8. TypeOK'
  <2>1. wire' \in Seq(Packets)
    BY <1>4, <1>6, WireTypes, Typed
  <2> QED BY <1>2, <1>7, <2>1, Typed, TypeFrom
<1>9. SaidSide'
  <2>1. Cardinality(CommandsIn(Append(wire, p))) <= Cardinality(CommandsIn(wire))
    <3>1. Cardinality(CommandsIn(Append(wire, p))) <=
            Cardinality(CommandsIn(wire)) + (IF p.type = "command" THEN 1 ELSE 0)
      BY <1>4, AppendCounts, Typed
    <3>2. Cardinality(CommandsIn(wire)) \in Nat
      BY CommandsAreFinite, Typed
    <3>3. p.type # "command"
      BY <1>4
    <3>4. (IF p.type = "command" THEN 1 ELSE 0) = 0
      BY <3>3
    <3> QED BY <3>1, <3>2, <3>4
  <2>2. /\ CommandsIn(wire)' = CommandsIn(Append(wire, p)) /\ Noticed' = Noticed
        /\ result'.commands = result.commands
    BY <1>2, <1>6 DEF CommandsIn, Noticed
  <2>3. /\ Cardinality(CommandsIn(wire)) \in Nat
        /\ Cardinality(CommandsIn(Append(wire, p))) \in Nat
        /\ Noticed \in {0, 1} /\ result.commands \in Nat /\ headset.said \in Nat
    <3>1. Append(wire, p) \in Seq(Packets)
      BY <1>4, WireTypes, Typed
    <3> QED BY <3>1, CountsAreNumbers, Typed
  <2> QED BY <1>7, <2>1, <2>2, <2>3 DEF SaidSide
<1>10. LeaseSide' /\ ReaderSide'
  BY <1>2, <1>7 DEF LeaseSide, ReaderSide, Early, Over, Playing, Pausing, Exchanging
<1>11. ExchangeSide'
  <2>1. ~Owes'
    BY <1>7 DEF Owes, Silent
  <2>2. \A i \in DOMAIN wire' : wire'[i].type # "command" => wire'[i] = p /\ i = Len(wire) + 1
    BY <1>3, <1>4, <1>6, Typed DEF NoAnswers
  <2>3. ASSUME NEW i \in DOMAIN wire', wire'[i].type # "command"
        PROVE  /\ headset'.link /\ wire'[i].type \in {"accept", "reject"}
               /\ wire'[i].label = src.pending /\ wire'[i].signal = src.signal
               /\ headset'.stream = IF wire'[i].type = "accept" THEN After[src.state]
                                                                ELSE Before[src.state]
               /\ \A j \in DOMAIN wire' : wire'[j].type # "command" => j = i
    BY <1>2, <1>4, <1>5, <1>7, <2>2, <2>3
  <2> QED BY <1>2, <1>3, <2>1, <2>3 DEF ExchangeSide
<1>12. SignalSide'
  BY <1>2, <1>3, <1>11 DEF SignalSide, RestSide
<1>13. CleanupSide'
  <2>1. src.state = "start_sent" => cont \in {"start", "resume_start"}
    BY <1>3, Typed DEF SentFor, Exchanges
  <2> QED BY <1>2, <1>5, <1>7, <2>1
      DEF CleanupSide, Playing, Ending, Pausing, Exchanging
<1>14. PcmSide'
  BY <1>2 DEF PcmSide, Early, Playing, Pausing, Exchanging, Over
<1> QED BY <1>8, <1>9, <1>10, <1>12, <1>13, <1>14

(* A command of the headset's own is no answer. *)
LEMMA HeadsetCommandsKeeps == RunInv /\ HeadsetCommands => RunInv'
<1> SUFFICES ASSUME RunInv, HeadsetCommands PROVE RunInv'
  OBVIOUS
<1> USE DEF RunInv
<1>1. PICK signal \in {"close", "suspend", "discover", "capabilities", "configure"} :
        wire' = Append(wire, [type |-> "command", label |-> 0, signal |-> signal, body |-> <<>>])
  <2>1. PICK signal \in (IF headset.stream \in {"open", "streaming"} THEN {"close", "suspend"}
                         ELSE {"discover", "capabilities", "configure"}) :
          wire' = Append(wire, [type |-> "command", label |-> 0, signal |-> signal,
                                body |-> <<>>])
    BY DEF HeadsetCommands
  <2> QED BY <2>1
<1> DEFINE p == [type |-> "command", label |-> 0, signal |-> signal, body |-> <<>>]
<1>2. p \in Packets /\ p.type = "command" /\ wire' = Append(wire, p)
  BY <1>1 DEF Packets, Signals
<1>3. /\ pc \notin Over /\ headset.link /\ headset.said < MaxCommands
      /\ UNCHANGED <<pc, cont, src, outbound, result, reader, pcm, stop, endpoint>>
      /\ headset' = [headset EXCEPT !.said = headset.said + 1]
  BY DEF HeadsetCommands, Runs, Over, session
<1> HIDE DEF p
<1>4. /\ headset' \in Headsets /\ headset'.link = headset.link
      /\ headset'.said = headset.said + 1 /\ headset'.last = headset.last
      /\ headset'.stream = headset.stream /\ headset'.asked = headset.asked
  <2>1. headset.said + 1 \in 0..MaxCommands
    BY <1>3, Typed, Limits DEF Headsets
  <2> QED BY <1>3, <2>1, Typed DEF Headsets
<1>5. TypeOK'
  <2>1. wire' \in Seq(Packets)
    BY <1>2, WireTypes, Typed
  <2> QED BY <1>3, <1>4, <2>1, Typed, TypeFrom
<1>6. SaidSide'
  <2>1. Cardinality(CommandsIn(Append(wire, p))) <= Cardinality(CommandsIn(wire)) + 1
    <3>1. Cardinality(CommandsIn(Append(wire, p))) <=
            Cardinality(CommandsIn(wire)) + (IF p.type = "command" THEN 1 ELSE 0)
      BY <1>2, AppendCounts, Typed
    <3>2. (IF p.type = "command" THEN 1 ELSE 0) = 1
      BY <1>2
    <3> QED BY <3>1, <3>2
  <2>2. /\ CommandsIn(wire)' = CommandsIn(Append(wire, p)) /\ Noticed' = Noticed
        /\ result'.commands = result.commands
    BY <1>2, <1>3 DEF CommandsIn, Noticed
  <2>3. /\ Cardinality(CommandsIn(wire)) \in Nat
        /\ Cardinality(CommandsIn(Append(wire, p))) \in Nat
        /\ Noticed \in {0, 1} /\ result.commands \in Nat /\ headset.said \in Nat
    <3>1. Append(wire, p) \in Seq(Packets)
      BY <1>2, WireTypes, Typed
    <3> QED BY <3>1, CountsAreNumbers, Typed
  <2> QED BY <1>4, <2>1, <2>2, <2>3 DEF SaidSide
<1>7. LeaseSide' /\ ReaderSide'
  BY <1>3, <1>4 DEF LeaseSide, ReaderSide, Early, Over, Playing, Pausing, Exchanging
<1>8. SignalSide'
  <2>1. \A i \in DOMAIN wire' : wire'[i].type # "command" => i \in DOMAIN wire /\ wire'[i] = wire[i]
    BY <1>2, WireTypes, Typed
  <2>2. NoAnswers => NoAnswers'
    BY <2>1 DEF NoAnswers
  <2>3. Owes' = Owes
    BY <1>4 DEF Owes
  <2>4. ExchangeSide'
    BY <1>3, <1>4, <2>1, <2>2, <2>3 DEF SignalSide, ExchangeSide
  <2>5. RestSide'
    BY <1>3, <1>4, <2>2, <2>3 DEF SignalSide, RestSide
  <2> QED BY <2>4, <2>5 DEF SignalSide
<1>9. CleanupSide'
  BY <1>3, <1>4 DEF CleanupSide, Playing, Ending, Pausing, Exchanging
<1>10. PcmSide'
  BY <1>3 DEF PcmSide, Early, Playing, Pausing, Exchanging, Over
<1> QED BY <1>5, <1>6, <1>7, <1>8, <1>9, <1>10

(* With the link everything on the way is gone, and the headset forgets the stream. *)
LEMMA LinkIsLostKeeps == RunInv /\ LinkIsLost => RunInv'
<1> SUFFICES ASSUME RunInv, LinkIsLost PROVE RunInv'
  OBVIOUS
<1> USE DEF RunInv
<1>1. /\ pc \notin Over /\ wire' = <<>>
      /\ UNCHANGED <<pc, cont, src, outbound, result, reader, pcm, stop, endpoint>>
      /\ headset' = [headset EXCEPT !.link = FALSE, !.stream = "idle", !.asked = Silent]
  BY DEF LinkIsLost, Runs, Over, session
<1>2. /\ headset' \in Headsets /\ ~headset'.link /\ headset'.stream = "idle"
      /\ headset'.said = headset.said /\ headset'.last = headset.last
      /\ headset'.asked = Silent
  BY <1>1, Typed, PacketTypes DEF Headsets, StreamStates
<1>3. TypeOK'
  BY <1>1, <1>2, Typed, TypeFrom, WireIsEmpty
<1>4. SaidSide'
  <2>1. /\ result.commands \in Nat /\ headset.said \in Nat /\ Noticed \in {0, 1}
        /\ Cardinality(CommandsIn(wire)) \in Nat
    BY CommandsAreFinite, Typed, Limits DEF Noticed, Results, Headsets
  <2>2. Noticed' = Noticed /\ result'.commands = result.commands
    BY <1>1 DEF Noticed
  <2> QED BY <1>1, <1>2, <2>1, <2>2, WireIsEmpty DEF SaidSide
<1>5. LeaseSide' /\ ReaderSide'
  BY <1>1, <1>2 DEF LeaseSide, ReaderSide, Early, Over, Playing, Pausing, Exchanging
<1>6. SignalSide'
  <2>1. ~Owes' /\ NoAnswers' /\ DOMAIN wire' = {}
    BY <1>1, <1>2 DEF Owes, NoAnswers, Silent
  <2>2. ExchangeSide'
    BY <1>1, <1>2, <2>1 DEF SignalSide, ExchangeSide
  <2>3. RestSide'
    BY <1>1, <1>2, <2>1 DEF SignalSide, RestSide
  <2> QED BY <2>2, <2>3 DEF SignalSide
<1>7. CleanupSide'
  BY <1>1, <1>2 DEF CleanupSide, Playing, Ending, Pausing, Exchanging
<1>8. PcmSide'
  BY <1>1 DEF PcmSide, Early, Playing, Pausing, Exchanging, Over
<1> QED BY <1>3, <1>4, <1>5, <1>6, <1>7, <1>8

(* The posted read takes the oldest packet; a command in it is noticed later. *)
LEMMA PeerReadCompletesKeeps == RunInv /\ PeerReadCompletes => RunInv'
<1> SUFFICES ASSUME RunInv, PeerReadCompletes PROVE RunInv'
  OBVIOUS
<1> USE DEF RunInv
<1> DEFINE p == Head(wire)
<1>1. /\ pc \notin Over /\ wire # <<>> /\ p \in Packets /\ wire' = Tail(wire)
      /\ Tail(wire) \in Seq(Packets) /\ reader.peer = "posted"
      /\ reader' = [reader EXCEPT !.peer = "done", !.packet = p]
      /\ UNCHANGED <<pc, cont, src, outbound, result, pcm, stop, headset, endpoint>>
  BY WireTypes, Typed DEF PeerReadCompletes, Runs, Over
<1> HIDE DEF p
<1>2. reader' \in Readers /\ reader'.open = reader.open /\ reader'.peer = "done"
      /\ reader'.packet = p
  BY <1>1, Typed DEF Readers
<1>3. TypeOK'
  BY <1>1, <1>2, Typed, TypeFrom
<1>4. SaidSide'
  <2> DEFINE c == IF p.type = "command" THEN 1 ELSE 0
  <2>1. Noticed' = c /\ Noticed = 0
    BY <1>1, <1>2 DEF Noticed
  <2>2. Cardinality(CommandsIn(Tail(wire))) + c <= Cardinality(CommandsIn(wire))
    BY <1>1, TailCounts, Typed DEF p
  <2>3. CommandsIn(wire)' = CommandsIn(Tail(wire))
    BY <1>1 DEF CommandsIn
  <2>4. /\ result.commands \in Nat /\ headset.said \in Nat
        /\ Cardinality(CommandsIn(wire)) \in Nat
        /\ Cardinality(CommandsIn(Tail(wire))) \in Nat /\ c \in {0, 1}
    BY <1>1, CountsAreNumbers, Typed
  <2> HIDE DEF c
  <2>5. result.commands + Cardinality(CommandsIn(Tail(wire))) + c <= headset.said
    BY <2>1, <2>2, <2>4 DEF SaidSide
  <2> QED BY <1>1, <2>1, <2>3, <2>5 DEF SaidSide
<1>5. LeaseSide' /\ ReaderSide'
  BY <1>1, <1>2 DEF LeaseSide, ReaderSide, Early, Over, Playing, Pausing, Exchanging
<1>6. SignalSide'
  BY <1>1, ReadsLeaveSignals
<1>7. CleanupSide'
  BY <1>1 DEF CleanupSide, Playing, Ending, Pausing, Exchanging
<1>8. PcmSide'
  BY <1>1 DEF PcmSide, Early, Playing, Pausing, Exchanging, Over
<1> QED BY <1>3, <1>4, <1>5, <1>6, <1>7, <1>8

LEMMA RenderStartsKeeps == RunInv /\ RenderStarts => RunInv'
<1> SUFFICES ASSUME RunInv, RenderStarts PROVE RunInv'
  OBVIOUS
<1> USE DEF RunInv
<1>1. PICK f \in Formats :
        endpoint' = [active |-> TRUE, epoch |-> endpoint.epoch + 1, format |-> f]
  BY DEF RenderStarts
<1>2. /\ endpoint.epoch < MaxEpochs
      /\ UNCHANGED <<pc, cont, src, outbound, result, reader, pcm, stop, wire, headset>>
  BY DEF RenderStarts, session
<1>3. endpoint' \in Endpoints /\ endpoint.epoch <= endpoint'.epoch
  BY <1>1, <1>2, Typed, Limits DEF Endpoints
<1>4. TypeOK' /\ SaidSide'
  BY <1>2, <1>3, Typed, TypeFrom, SaidKeeps
<1>5. LeaseSide' /\ ReaderSide'
  BY <1>2 DEF LeaseSide, ReaderSide, Early, Over, Playing, Pausing, Exchanging
<1>6. SignalSide'
  BY <1>2 DEF SignalSide, ExchangeSide, RestSide, Owes, NoAnswers
<1>7. CleanupSide'
  BY <1>2 DEF CleanupSide, Playing, Ending, Pausing, Exchanging
<1>8. PcmSide'
  BY <1>2, <1>3, Typed
  DEF PcmSide, Early, Playing, Pausing, Exchanging, Over, Pcms, Endpoints
<1> QED BY <1>4, <1>5, <1>6, <1>7, <1>8

LEMMA RenderStopsKeeps == RunInv /\ RenderStops => RunInv'
<1> SUFFICES ASSUME RunInv, RenderStops PROVE RunInv'
  OBVIOUS
<1> USE DEF RunInv
<1>1. UNCHANGED <<pc, cont, src, outbound, result, reader, pcm, stop, wire, headset>>
  BY DEF RenderStops, session
<1>2. endpoint' \in Endpoints /\ endpoint.epoch = endpoint'.epoch
  BY Typed DEF RenderStops, Endpoints
<1>3. TypeOK' /\ SaidSide'
  BY <1>1, <1>2, Typed, TypeFrom, SaidKeeps
<1>4. LeaseSide' /\ ReaderSide'
  BY <1>1 DEF LeaseSide, ReaderSide, Early, Over, Playing, Pausing, Exchanging
<1>5. SignalSide'
  BY <1>1 DEF SignalSide, ExchangeSide, RestSide, Owes, NoAnswers
<1>6. CleanupSide'
  BY <1>1 DEF CleanupSide, Playing, Ending, Pausing, Exchanging
<1>7. PcmSide'
  BY <1>1, <1>2 DEF PcmSide, Early, Playing, Pausing, Exchanging, Over
<1> QED BY <1>3, <1>4, <1>5, <1>6, <1>7

(* What the host asks for is looked at by the run's own steps only. *)
LEMMA HostStopsKeeps == RunInv /\ (HostStops \/ UNCHANGED vars) => RunInv'
<1> SUFFICES ASSUME RunInv, HostStops \/ UNCHANGED vars PROVE RunInv'
  OBVIOUS
<1> USE DEF RunInv
<1>1. /\ UNCHANGED <<pc, cont, src, outbound, result, reader, pcm, wire, headset, endpoint>>
      /\ stop' \in {"none", "graceful", "cancel"}
  <2>1. CASE HostStops
    BY <2>1 DEF HostStops, session
  <2>2. CASE UNCHANGED vars
    BY <2>2, Typed DEF vars, session, world
  <2> QED BY <2>1, <2>2
<1>2. TypeOK' /\ SaidSide'
  BY <1>1, Typed, TypeFrom, SaidKeeps
<1>3. LeaseSide' /\ ReaderSide'
  BY <1>1 DEF LeaseSide, ReaderSide, Early, Over, Playing, Pausing, Exchanging
<1>4. SignalSide'
  BY <1>1 DEF SignalSide, ExchangeSide, RestSide, Owes, NoAnswers
<1>5. CleanupSide' /\ PcmSide'
  BY <1>1 DEF CleanupSide, PcmSide, Early, Over, Playing, Ending, Pausing, Exchanging
<1> QED BY <1>2, <1>3, <1>4, <1>5

-----------------------------------------------------------------------------
(* The invariant. *)

(* A run begins before anything is held, opened, sent or encoded. *)
LEMMA RunBegins == Init => RunInv
<1> SUFFICES ASSUME Init PROVE RunInv
  OBVIOUS
<1> USE DEF Init
<1>1. (CHOOSE f \in Formats : TRUE) \in Formats
  BY SessionAssumption
<1>2. TypeOK
  <2>1. src \in Sources /\ outbound \in Packets
    BY NewSourceType, PacketTypes
  <2>2. result \in Results
    BY Limits DEF Results
  <2>3. reader \in Readers
    BY PacketTypes DEF Readers
  <2>4. pcm \in Pcms
    <3> DEFINE f == CHOOSE f \in Formats : TRUE
    <3>1. f \in Formats
      BY <1>1
    <3> HIDE DEF f
    <3> QED BY <3>1, Limits DEF Pcms, Places
  <2>5. endpoint \in Endpoints
    <3> DEFINE f == CHOOSE f \in Formats : TRUE
    <3>1. f \in Formats
      BY <1>1
    <3> HIDE DEF f
    <3> QED BY <3>1, Limits DEF Endpoints
  <2>6. headset \in Headsets
    BY PacketTypes, Limits DEF Headsets, StreamStates
  <2>7. pc \in Places /\ cont \in Exchanges /\ stop \in {"none", "graceful", "cancel"}
        /\ wire \in Seq(Packets)
    BY DEF Places, Exchanges
  <2> QED BY <2>1, <2>2, <2>3, <2>4, <2>5, <2>6, <2>7, Typed
<1>3. SaidSide
  <2>1. CommandsIn(wire) = {} /\ Noticed = 0
    BY DEF CommandsIn, Noticed
  <2>2. Cardinality(CommandsIn(wire)) = 0
    BY <2>1, FS_EmptySet
  <2> QED BY <2>1, <2>2 DEF SaidSide
<1>4. LeaseSide /\ ReaderSide
  BY DEF LeaseSide, ReaderSide, Early, Over, Playing, Pausing, Exchanging
<1>5. ~Owes /\ NoAnswers
  BY DEF Owes, NoAnswers, Silent
<1>6. SignalSide
  BY <1>5, NewSourceType DEF SignalSide, ExchangeSide, RestSide, Exchanging, Over, Early,
     Playing, Pausing, Ending, Before
<1>7. CleanupSide
  BY DEF CleanupSide, Playing, Ending, Pausing, Exchanging
<1>8. PcmSide
  BY Limits DEF PcmSide, Early, Playing, Pausing, Exchanging, Over
<1> QED BY <1>2, <1>3, <1>4, <1>6, <1>7, <1>8 DEF RunInv

LEMMA RunKeeps == RunInv /\ [Next]_vars => RunInv'
<1> SUFFICES ASSUME RunInv, [Next]_vars PROVE RunInv'
  OBVIOUS
<1>1. CASE PreparesFirst \/ PrereadsData \/ PrereadsStopped \/ PrereadEnds
  BY <1>1, PreparesFirstKeeps, PrereadsDataKeeps, PrereadsStoppedKeeps, PrereadEndsKeeps
<1>2. CASE OpensSignaling \/ ExchangeSends \/ ExchangeFails \/ ExchangeIsAsked
           \/ ExchangeIsAnswered \/ OpensMedia
  BY <1>2, OpensSignalingKeeps, ExchangeSendsKeeps, ExchangeFailsKeeps, ExchangeIsAskedKeeps,
     ExchangeIsAnsweredKeeps, OpensMediaKeeps
<1>3. CASE StreamStarts \/ ObservesPeer \/ SendsSilence \/ ProbesStop \/ ReadsData
           \/ ReadTimesOut \/ ReadFails \/ ReadsStopped
  BY <1>3, StreamStartsKeeps, ObservesPeerKeeps, SendsSilenceKeeps, ProbesStopKeeps,
     ReadsDataKeeps, ReadTimesOutKeeps, ReadFailsKeeps, ReadsStoppedKeeps
<1>4. CASE ReleasesForRebind \/ PreparesRebind \/ ChecksBlock \/ Paces \/ WritesMedia
           \/ WriteIsNotReady \/ WriteFails
  BY <1>4, ReleasesForRebindKeeps, PreparesRebindKeeps, ChecksBlockKeeps, PacesKeeps,
     WritesMediaKeeps, WriteIsNotReadyKeeps, WriteFailsKeeps
<1>5. CASE Suspends \/ PauseBegins \/ ProbesPaused \/ PreparesResume \/ PrepareWaits \/ Resumes
  BY <1>5, SuspendsKeeps, PauseBeginsKeeps, ProbesPausedKeeps, PreparesResumeKeeps,
     PrepareWaitsKeeps, ResumesKeeps
<1>6. CASE EndsStream \/ EndsSession \/ SessionClosed \/ Finishes
  BY <1>6, EndsStreamKeeps, EndsSessionKeeps, SessionClosedKeeps, FinishesKeeps
<1>7. CASE HeadsetAnswers \/ HeadsetCommands \/ LinkIsLost \/ PeerReadCompletes
  BY <1>7, HeadsetAnswersKeeps, HeadsetCommandsKeeps, LinkIsLostKeeps, PeerReadCompletesKeeps
<1>8. CASE RenderStarts \/ RenderStops \/ HostStops \/ UNCHANGED vars
  BY <1>8, RenderStartsKeeps, RenderStopsKeeps, HostStopsKeeps
<1> QED BY <1>1, <1>2, <1>3, <1>4, <1>5, <1>6, <1>7, <1>8 DEF Next, SessionStep

(* Session, headset and endpoint stay in step: the count of the headset's commands, the  *)
(* lease, the handle, the AVDTP exchange, the report of what is left, and the streams    *)
(* the audio is of.                                                                     *)
THEOREM RunFits == Spec => []RunInv
BY RunBegins, RunKeeps, PTL DEF Spec

(* A packet about to be written holds the audio of the one stream its lease is for, and  *)
(* media goes out only while the headset streams (the write loop of                      *)
(* RunV1TransportPcmBurstOnce), for every order of endpoint, headset and host.           *)
THEOREM MediaIsOfOneStream == Spec => []MediaMatchesStream
<1>1. RunInv => MediaMatchesStream
  <2> SUFFICES ASSUME RunInv PROVE MediaMatchesStream
    OBVIOUS
  <2>1. ASSUME pc = "write", ~SingleGain PROVE pcm.encoder = {pcm.bound}
    BY <2>1 DEF RunInv, PcmSide, Playing
  <2>2. ASSUME headset.link, pc \in {"silence", "write", "read", "pace"}
        PROVE  headset.stream = "streaming"
    BY <2>2 DEF RunInv, SignalSide, RestSide, Playing, Over, Exchanging, Before
  <2>3. ASSUME headset.link, pc \in {"pause_probe", "pause_observe", "prepare_pause"}
        PROVE  headset.stream = "open"
    BY <2>3 DEF RunInv, SignalSide, RestSide, Pausing, Over, Exchanging, Before
  <2> QED BY <2>1, <2>2, <2>3 DEF MediaMatchesStream
<1> QED BY <1>1, RunFits, PTL

(* However the run ends, the lease is let go and counted, the channels are closed once,  *)
(* no read is left behind the handle, and a headset left streaming is reported           *)
(* (Finish of RunV1TransportPcmBurstOnce).                                              *)
THEOREM RunsEndAccounted == Spec => []EndsAccounted
<1>1. RunInv => EndsAccounted
  <2> SUFFICES ASSUME RunInv PROVE EndsAccounted
    OBVIOUS
  <2>1. EndsAtRest
    <3>1. ASSUME pc = "done", result.disposition # "cleanup" PROVE result.leases = 0
      BY <3>1, Typed DEF RunInv, LeaseSide, Results
    <3> QED BY <3>1 DEF RunInv, LeaseSide, ReaderSide, EndsAtRest
  <2>2. StreamLeftIsReported
    BY DEF RunInv, CleanupSide, StreamLeftIsReported
  <2> QED BY <2>1, <2>2 DEF EndsAccounted, RunInv
<1> QED BY <1>1, RunFits, PTL
=============================================================================
