--------------------------- MODULE EndpointStream ---------------------------
(***************************************************************************)
(* The endpoint's one render stream, which plays its DMA buffer by the     *)
(* clock, and the miniport's PCM ring it fills for the user-mode reader.   *)
(* A byte is known by the m_ullLinearPosition it was played at; the ring   *)
(* is the circular buffer with its offsets.  PortCls changes the stream's  *)
(* state one step at a time, and a change is three steps, beside the       *)
(* notification timer, position queries and the reader.                    *)
(***************************************************************************)
EXTENDS Naturals, FiniteSets

CONSTANTS
    Rate,           \* bytes played (m_ulDmaMovementRate) ...
    Unit,           \* ... in this many milliseconds (1000)
    Block,          \* m_PcmBlockAlign
    Capacity,       \* NATIVE_LDAC_PCM_RING_CAPACITY_BYTES
    MaximumRead,    \* NATIVE_LDAC_PCM_MAX_READ_BYTES
    Interval,       \* m_ulNotificationIntervalMs
    Latency,        \* bound: milliseconds the timer's DPC may be late
    MaxPlayed,      \* bound: bytes played before the stream stops
    MaxEpochs       \* bound: changes to RUN

ASSUME StreamAssumption ==
    /\ {Rate, Unit, Block, Capacity, MaximumRead, Interval} \subseteq Nat \ {0}
    /\ {Latency, MaxPlayed, MaxEpochs} \subseteq Nat
    /\ Capacity % Block = 0 /\ MaximumRead % Block = 0 /\ MaximumRead <= Capacity

VARIABLES
    pins,       \* m_ulSystemAllocated
    stream,     \* the CMiniportWaveRTStream
    change,     \* the SetState in progress
    ring        \* the PCM ring and its counters

streamVars == <<pins, stream, change, ring>>

KsStates == <<"stop", "acquire", "pause", "run">>
Rank(k) == CHOOSE i \in 1..4 : KsStates[i] = k
Settled == [at |-> "rest", to |-> "stop"]
NoStream == [exists |-> FALSE, buffer |-> FALSE, ks |-> "stop", timer |-> FALSE, linear |-> 0,
             carry |-> 0, late |-> 0, due |-> 0]
Blank == [i \in 0..Capacity - 1 |-> 0]
EmptyRing == [bytes |-> Blank, r |-> 0, w |-> 0, available |-> 0, written |-> 0, read |-> 0,
              dropped |-> 0, base |-> 0, epoch |-> 0, active |-> FALSE]

StreamInit ==
    /\ pins = 0 /\ stream = NoStream /\ change = Settled
    /\ ring = EmptyRing

---------------------------------------------------------------------------
(* The ring. *)

Lesser(m, n) == IF m < n THEN m ELSE n

\* The totals start anew with the epoch; base is a history of the position.
BeginPcmStream ==
    [ring EXCEPT !.r = 0, !.w = 0, !.available = 0, !.written = 0, !.read = 0, !.dropped = 0,
                 !.base = stream.linear, !.epoch = ring.epoch + 1, !.active = TRUE]
EndPcmStream ==
    [ring EXCEPT !.dropped = ring.dropped + ring.available,
                 !.r = 0, !.w = 0, !.available = 0, !.active = FALSE]

\* The bytes played from position first on, of which only the newest fit and
\* for which the oldest make room.
RoomOfAFullRing(keep) == IF ring.available = Capacity THEN keep ELSE 0
Room(keep) ==
    IF keep > Capacity - ring.available THEN keep - (Capacity - ring.available) ELSE 0
PushPcm(first, count) ==
    LET whole == count - (count % Block)
        keep == Lesser(whole, Capacity)
        from == first + (whole - keep)
        room == Room(keep)
        At(i) == (i + Capacity - ring.w) % Capacity
    IN IF ~ring.active \/ whole = 0 THEN ring
       ELSE [ring EXCEPT
                !.bytes = [i \in 0..Capacity - 1 |->
                    IF At(i) < keep THEN from + At(i) ELSE ring.bytes[i]],
                !.w = (ring.w + keep) % Capacity,
                !.r = (ring.r + room) % Capacity,
                !.available = ring.available - room + keep,
                !.dropped = ring.dropped + (whole - keep) + room,
                !.written = ring.written + whole]

\* What the DMA engine has played since it was last asked: displacement of
\* whole bytes, the rest carried forward.
Displaced == (Rate * stream.late + stream.carry) \div Unit
Updated ==
    [stream EXCEPT !.linear = stream.linear + Displaced,
                   !.carry = (Rate * stream.late + stream.carry) % Unit,
                   !.late = 0]
UpdatesPosition(s) == stream' = s /\ ring' = PushPcm(stream.linear, Displaced)

---------------------------------------------------------------------------
(* The stream's life. *)

\* NewStream: the pin's one instance is taken by the last step of Init.
NewStream ==
    /\ pins = 0
    /\ pins' = 1 /\ stream' = [NoStream EXCEPT !.exists = TRUE]
    /\ UNCHANGED <<change, ring>>

AllocateBufferWithNotification ==
    /\ stream.exists /\ ~stream.buffer /\ stream.ks = "stop" /\ change = Settled
    /\ stream' = [stream EXCEPT !.buffer = TRUE]
    /\ UNCHANGED <<pins, change, ring>>

FreeBufferWithNotification ==
    /\ stream.buffer /\ stream.ks = "stop" /\ change = Settled
    /\ stream' = [stream EXCEPT !.buffer = FALSE]
    /\ UNCHANGED <<pins, change, ring>>

StreamClosed ==
    /\ stream.exists /\ ~stream.buffer /\ stream.ks = "stop" /\ change = Settled
    /\ pins' = pins - 1 /\ stream' = NoStream
    /\ UNCHANGED <<change, ring>>

---------------------------------------------------------------------------
(* SetState: its switch, the end of the PCM stream, and m_KsState last.    *)

Entering(k) ==
    /\ change = Settled /\ stream.buffer
    /\ Rank(k) \in {Rank(stream.ks) - 1, Rank(stream.ks) + 1}
    /\ change' = [at |-> "end", to |-> k]

SetsStop ==
    /\ Entering("stop")
    /\ stream' = [stream EXCEPT !.linear = 0]
    /\ UNCHANGED <<pins, ring>>

SetsAcquire ==
    /\ Entering("acquire")
    /\ UNCHANGED <<pins, stream, ring>>

\* From RUN the timer is cancelled, and what has been played is pushed.
SetsPause ==
    /\ Entering("pause")
    /\ IF stream.ks = "run" THEN UpdatesPosition([Updated EXCEPT !.timer = FALSE])
       ELSE UNCHANGED <<stream, ring>>
    /\ UNCHANGED pins

SetsRun ==
    /\ Entering("run") /\ ring.epoch < MaxEpochs
    /\ ring' = BeginPcmStream
    /\ stream' = [stream EXCEPT !.late = 0, !.timer = TRUE]
    /\ UNCHANGED pins

EndsPcm ==
    /\ change.at = "end"
    /\ ring' = IF stream.ks = "run" /\ change.to # "run" THEN EndPcmStream ELSE ring
    /\ change' = [change EXCEPT !.at = "assign"]
    /\ UNCHANGED <<pins, stream>>

AssignsState ==
    /\ change.at = "assign"
    /\ stream' = [stream EXCEPT !.ks = change.to]
    /\ change' = Settled
    /\ UNCHANGED <<pins, ring>>

---------------------------------------------------------------------------
(* Beside a change of state. *)

\* A millisecond of a stream whose timer runs; due counts towards the next
\* notification and carries what the last one was late.
MillisecondPasses ==
    /\ stream.timer /\ stream.late < Interval + Latency
    /\ stream.linear + Displaced < MaxPlayed
    /\ stream' = [stream EXCEPT !.late = stream.late + 1, !.due = stream.due + 1]
    /\ UNCHANGED <<pins, change, ring>>

\* The position moves whatever m_KsState says.
TimerNotifyRT ==
    /\ stream.timer /\ stream.due >= Interval
    /\ UpdatesPosition([Updated EXCEPT !.due = stream.due - Interval])
    /\ UNCHANGED <<pins, change>>

GetPositions ==
    /\ stream.ks = "run" /\ stream.late > 0
    /\ UpdatesPosition(Updated)
    /\ UNCHANGED <<pins, change>>

\* The part of PropertyHandlerPcmRead under the ring's lock.
PcmRead ==
    /\ ring.available > 0
    /\ \E room \in {Block, MaximumRead} :
        LET count == Lesser(room, ring.available)
        IN ring' = [ring EXCEPT !.r = (ring.r + count) % Capacity,
                                !.available = ring.available - count,
                                !.read = ring.read + count]
    /\ UNCHANGED <<pins, stream, change>>

StreamNext ==
    \/ NewStream \/ AllocateBufferWithNotification \/ FreeBufferWithNotification \/ StreamClosed
    \/ SetsStop \/ SetsAcquire \/ SetsPause \/ SetsRun \/ EndsPcm \/ AssignsState
    \/ MillisecondPasses \/ TimerNotifyRT \/ GetPositions \/ PcmRead

---------------------------------------------------------------------------
\* Every counter is a number and every offset is inside the ring.
StreamTypeOK ==
    /\ pins \in 0..1 /\ stream.exists = (pins = 1)
    /\ stream.linear \in 0..MaxPlayed + Rate /\ stream.carry \in 0..Unit - 1
    /\ ring.r \in 0..Capacity - 1 /\ ring.w \in 0..Capacity - 1
    /\ ring.available \in 0..Capacity /\ ring.w = (ring.r + ring.available) % Capacity

\* The ring holds the newest bytes the stream has played, in order, and every
\* byte of the epoch was read, dropped and counted, or is still there: across
\* wraps, overruns and a read between any two pushes (PushPcm, PcmRead).
RingHoldsNewest ==
    /\ ring.written = ring.read + ring.dropped + ring.available
    /\ \A k \in 0..ring.available - 1 :
        ring.bytes[(ring.r + k) % Capacity] = stream.linear - ring.available + k

\* The rates at which every millisecond plays whole frames, 48 and 96 kHz: at the two
\* others the position also rests between them, and what follows does not hold.
WholeFrames == \E frames \in 1..Rate : Rate = frames * Block * Unit

\* Every byte the stream consumes while its epoch is active is written into
\* the ring, whole frames of it (audio-endpoint/README.md:19).
ConsumedIsWritten ==
    ring.active => /\ stream.linear - ring.base = ring.written
                   /\ stream.linear % Block = 0

\* What is read of an epoch is what was played in it, less what an overflow dropped
\* and counted (PushPcm, PcmRead, EndPcmStream).
RingIsFaithful == StreamTypeOK /\ RingHoldsNewest /\ ConsumedIsWritten
=============================================================================
