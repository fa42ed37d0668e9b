----------------------------- MODULE AvrcpFilter -----------------------------
(***************************************************************************)
(* The AVRCP filter: a driver above Microsoft's that lets every request    *)
(* pass and records it in a bounded trace, and the host that reads the     *)
(* trace for the levels and keys of one connection.  Microsoft executes    *)
(* the keys; the host adds one PLAY when a paused session stays paused.    *)
(* A level's further way is AvrcpVolume.                                   *)
(***************************************************************************)
EXTENDS Integers, Sequences

CONSTANTS
    TraceCapacity,      \* events of the trace
    PlayDelay,          \* ticks Microsoft is given
    MaxConnections,     \* bound: connections
    MaxKeys             \* bound: keys the headset sends

ASSUME FilterAssumption ==
    TraceCapacity \in Nat \ {0} /\ PlayDelay \in Nat

VARIABLES
    filter,     \* the driver: devices, requests below it, the trace
    air,        \* the headset, Microsoft's driver and the media session
    bridge      \* the daily host: handle, session, mapper, fallback

filterVars == <<filter, air, bridge>>

Nobody == [gen |-> 0, from |-> "none", id |-> 0]
NoFallback(gen) == [gen |-> gen, pending |-> FALSE, age |-> 0, key |-> Nobody]

FilterInit ==
    /\ filter = [up |-> FALSE, control |-> FALSE, below |-> "nothing", trace |-> <<>>]
    /\ air \in {[gen |-> 0, link |-> FALSE, sent |-> 0, handed |-> <<>>, news |-> <<>>,
                 playback |-> p, published |-> p] : p \in {"paused", "playing"}}
    /\ bridge = [pc |-> "idle", handle |-> "none", session |-> FALSE, gen |-> 0, heard |-> 0,
                 present |-> FALSE, calling |-> FALSE, media |-> "paused",
                 fallback |-> NoFallback(0), stale |-> FALSE, injected |-> {}]

-----------------------------------------------------------------------------
(* The driver                                                              *)

\* Push: a full trace drops its oldest event.
Traced(f, event) ==
    [f EXCEPT !.trace = Append(IF Len(@) = TraceCapacity THEN Tail(@) ELSE @, event)]
Noise == [type |-> "other", key |-> Nobody]

\* CreateControlDevice, the last step of a device's creation and the only one
\* whose failure shows.
ControlDevice(f, created) ==
    [f EXCEPT !.control = created, !.trace = IF created THEN <<>> ELSE <<Noise>>]

\* EvtDeviceAdd: a filter without its control device lets requests pass unseen.
DeviceAdd ==
    /\ ~filter.up
    /\ \E control \in BOOLEAN :
        filter' = ControlDevice([filter EXCEPT !.up = TRUE], control)
    /\ UNCHANGED <<air, bridge>>

\* EvtSelfManagedIoInit, ...Restart and ...Suspend are recorded.
SelfManagedIo ==
    /\ filter.up
    /\ filter' = Traced(filter, Noise)
    /\ UNCHANGED <<air, bridge>>

\* EvtSelfManagedIoCleanup: the control queue is stopped, then the device goes.
SelfManagedIoCleanup ==
    /\ filter.up /\ filter.below = "nothing"
    /\ filter' = [filter EXCEPT !.up = FALSE, !.control = FALSE, !.trace = <<>>]
    /\ bridge' = [bridge EXCEPT !.handle = IF @ = "live" THEN "dead" ELSE @]
    /\ UNCHANGED air

\* Forward: recorded, then sent on; a request that cannot be tracked is sent on
\* and forgotten, one that cannot be sent is completed at once.
Forward ==
    /\ filter.up /\ filter.below = "nothing"
    /\ \/ filter' = [Traced(filter, Noise) EXCEPT !.below = "tracked"]
       \/ filter' = [Traced(Traced(filter, Noise), Noise) EXCEPT !.below = "untracked"]
       \/ filter' = Traced(Traced(filter, Noise), Noise)
    /\ UNCHANGED <<air, bridge>>

\* The completion routine records a request that was tracked before it is
\* completed to Microsoft's driver.
RequestCompletion(event) ==
    [IF filter.below = "tracked" THEN Traced(filter, event) ELSE filter EXCEPT !.below = "nothing"]

RequestFails ==
    /\ filter.below # "nothing"
    /\ filter' = RequestCompletion(Noise)
    /\ UNCHANGED <<air, bridge>>

-----------------------------------------------------------------------------
(* The headset, Microsoft and the media session                            *)

Connects ==
    /\ ~air.link /\ air.gen < MaxConnections
    /\ air' = [air EXCEPT !.link = TRUE, !.gen = @ + 1, !.news = Append(@, "connected")]
    /\ UNCHANGED <<filter, bridge>>

\* What is below the filter ends with the connection.
Disconnects ==
    /\ air.link
    /\ air' = [air EXCEPT !.link = FALSE, !.news = Append(@, "disconnected")]
    /\ filter' = RequestCompletion(Noise)
    /\ UNCHANGED bridge

\* A PLAY or PAUSE key: the headset sends either, whatever the session does.
HeadsetSends ==
    /\ air.link /\ filter.below # "nothing" /\ air.sent < MaxKeys
    /\ LET key == [gen |-> air.gen, from |-> air.playback, id |-> air.sent + 1]
       IN  /\ filter' = RequestCompletion([type |-> "completion", key |-> key])
           /\ air' = [air EXCEPT !.sent = key.id, !.handed = Append(@, key)]
    /\ UNCHANGED bridge

\* A key turns the session round, if Microsoft takes it.
Other(playback) == IF playback = "paused" THEN "playing" ELSE "paused"
MicrosoftHandles ==
    /\ air.handed # <<>>
    /\ \E playback \in {air.playback, Other(air.playback)} :
        air' = [air EXCEPT !.handed = Tail(@), !.playback = playback]
    /\ UNCHANGED <<filter, bridge>>

\* The media monitor's thread.
MonitorPublishes ==
    /\ air.published # air.playback
    /\ air' = [air EXCEPT !.published = air.playback]
    /\ UNCHANGED <<filter, bridge>>

-----------------------------------------------------------------------------
(* The host                                                                *)

\* EndSession: the mapper keeps its connection, the fallback loses it.
EndSession(b) == [b EXCEPT !.session = FALSE, !.fallback = NoFallback(0), !.pc = "idle"]

\* The watcher's reports count the connections; a lost one ends the session.
HearsLink ==
    /\ bridge.pc = "idle" /\ air.news # <<>>
    /\ bridge' = IF Head(air.news) = "connected"
                 THEN [bridge EXCEPT !.present = TRUE, !.heard = @ + 1]
                 ELSE EndSession([bridge EXCEPT !.present = FALSE, !.calling = FALSE])
    /\ air' = [air EXCEPT !.news = Tail(@)]
    /\ UNCHANGED filter

\* A call takes the transport and gives it back.
Calls ==
    /\ bridge.pc = "idle" /\ bridge.present
    /\ bridge' = [bridge EXCEPT !.calling = ~@]
    /\ UNCHANGED <<filter, air>>

\* A poll, and a drain, take all that the trace can hold.
Keys(trace) == {trace[i].key : i \in DOMAIN trace} \ {Nobody}

\* Mutant: a connection begins with what an earlier one left.
BeginsUndrained ==
    LET handle == IF bridge.handle = "none" /\ filter.control THEN "live" ELSE bridge.handle
    IN  /\ bridge' = IF handle = "none" THEN bridge
                     ELSE [bridge EXCEPT !.handle = handle, !.fallback = NoFallback(bridge.heard),
                            !.session = TRUE, !.gen = bridge.heard, !.media = air.published, !.pc = "polls"]
        /\ UNCHANGED filter

\* Open, once: a handle is kept though its device is gone.  A connection that
\* is new to the mapper begins with an empty trace and a fallback of its own.
BeginSession ==
    LET handle == IF bridge.handle = "none" /\ filter.control THEN "live" ELSE bridge.handle
        fresh == bridge.gen # bridge.heard
        b == [bridge EXCEPT !.handle = handle,
                            !.fallback = IF fresh /\ handle # "none" THEN NoFallback(bridge.heard) ELSE @]
    IN  IF handle = "none" \/ (handle = "dead" /\ fresh)
        THEN bridge' = b /\ UNCHANGED filter
        ELSE /\ bridge' = [b EXCEPT !.session = TRUE, !.gen = bridge.heard, !.media = air.published,
                                    !.pc = "polls"]
             /\ filter' = IF fresh THEN [filter EXCEPT !.trace = <<>>] ELSE filter

\* ReconcileAvrcpFilterHost, up to the poll: the snapshot is read.
Reconcile ==
    /\ bridge.pc = "idle"
    /\ CASE ~bridge.present \/ bridge.calling -> bridge' = EndSession(bridge) /\ UNCHANGED filter
         [] bridge.present /\ ~bridge.calling /\ ~bridge.session -> BeginSession
         [] OTHER -> /\ bridge' = [bridge EXCEPT !.media = air.published, !.pc = "polls"]
                     /\ UNCHANGED filter
    /\ UNCHANGED air

\* ObserveV1AvrcpBootstrapPlayGesture, of the first key that was taken.
Observed(b, keys) ==
    IF \/ keys = {} \/ b.fallback.pending \/ b.media # "paused" \/ b.fallback.gen # b.heard
    THEN b.fallback
    ELSE [b.fallback EXCEPT !.pending = TRUE, !.age = 0,
            !.key = CHOOSE k \in keys : \A l \in keys : k.id <= l.id]

\* The control device takes version, status and event requests while it is there.
Answers == bridge.handle = "live"

\* Poll: the trace is read, then ReconcileV1AvrcpBootstrapPlay decides by the
\* snapshot of before; the PLAY it injects is a key that turns playback round.
Poll ==
    /\ bridge.pc = "polls"
    /\ \/ /\ bridge' = EndSession(bridge)      \* the device is gone or an event is refused
          /\ UNCHANGED <<filter, air>>
       \/ /\ Answers
          /\ LET keys == Keys(filter.trace)
                 f == Observed(bridge, keys)
                 inject == f.pending /\ bridge.media = "paused" /\ f.age = PlayDelay
             IN  /\ filter' = [filter EXCEPT !.trace = <<>>]
                 /\ bridge' = [bridge EXCEPT !.pc = "idle",
                        !.stale = @ \/ \E k \in keys : k.gen < bridge.gen,
                        !.fallback = IF inject \/ (f.pending /\ bridge.media # "paused")
                                     THEN NoFallback(f.gen) ELSE f,
                        !.injected = IF inject THEN @ \cup {[key |-> f.key, at |-> air.playback]} ELSE @]
                 /\ air' = IF inject THEN [air EXCEPT !.playback = Other(@)] ELSE air

TimePassesForKeys ==
    /\ bridge.fallback.pending /\ bridge.fallback.age < PlayDelay
    /\ bridge' = [bridge EXCEPT !.fallback.age = @ + 1]
    /\ UNCHANGED <<filter, air>>

DriverSteps ==
    \/ DeviceAdd \/ SelfManagedIo \/ SelfManagedIoCleanup \/ Forward \/ RequestFails
HostSteps == HearsLink \/ Calls \/ Reconcile \/ Poll
FilterNext ==
    \/ DriverSteps \/ HostSteps \/ HeadsetSends \/ Connects \/ Disconnects
    \/ MicrosoftHandles \/ MonitorPublishes \/ TimePassesForKeys

-----------------------------------------------------------------------------
(* What is checked                                                         *)

\* The mapper of a connection is fed no key of an earlier one, though the trace
\* outlives sessions, calls and connections and names none of them; and no key
\* is answered twice.
FeedsThisConnection ==
    /\ ~bridge.stale
    /\ \A i, j \in bridge.injected : i.key = j.key => i = j

\* A key that paused the session is never undone, and a session that Microsoft
\* has made play is never paused again, by the PLAY of the fallback.
\* It does not hold (README.md, Further disagreements).
FallbackIsWanted ==
    \A i \in bridge.injected : i.key.from = "paused" /\ i.at = "paused"
=============================================================================
