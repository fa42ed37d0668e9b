------------------------------ MODULE AvrcpVolume ------------------------------
(***************************************************************************)
(* Absolute volume between the Windows endpoint and the headset: the       *)
(* volume reducer behind its gate and the action mapper, the Windows sink  *)
(* with its deferred writes, and the filter host of the daily agent, which *)
(* learns of the headset's volume from the trace of the AVRCP filter and   *)
(* writes levels through it.  The host runs on the presence agent's        *)
(* thread; the endpoint's callbacks, the users at either side, Microsoft's *)
(* driver and the headset step between any two calls of its.               *)
(*                                                                         *)
(* Percentages are 0..TopPercent and the headset's levels 0..TopLevel,     *)
(* converted with the code's own roundings.  The reducer's echo flag is    *)
(* left out: nothing reads it.  The keys of the same trace, and the order  *)
(* of its entries over connections, are AvrcpFilter's.                     *)
(***************************************************************************)
EXTENDS Integers, Sequences

CONSTANTS
    TopPercent, \* Windows' loudest percentage: 100 in the code
    TopLevel,   \* the headset's loudest level: 127 in the code
    Capacity,   \* volume events the filter's trace keeps
    MaxStirs    \* how often users, endpoint and links act and calls fail

ASSUME VolumeAssumption ==
    /\ TopPercent \in Nat \ {0} /\ TopLevel \in Nat /\ TopPercent < TopLevel
    /\ Capacity \in Nat \ {0} /\ MaxStirs \in Nat

VARIABLES
    headset,    \* the headset's volume, and whether it will tell a change
    air,        \* the packets between it and Microsoft's driver, each way
    trace,      \* the completions in the filter's trace that tell a volume
    mapper,     \* V1AvrcpControlMapperState with its volume gate and reducer
    sink,       \* the sink's deferred writes and the published volume
    host,       \* the filter host, and where its Poll is
    windows,    \* the endpoint's volume and the callbacks on their way
    link,       \* the generation of the ACL link, and the one the agent counts
    stirs,      \* actions of the environment so far
    answers,    \* levels the headset was given since the last of them
    adopted,    \* levels taken unasked in the generation of the mapper
    excuses     \* what has happened that leaves the two volumes apart

wireVars == <<headset, air, trace>>
agentVars == <<mapper, sink, host, windows, adopted>>
volumeVars == <<wireVars, agentVars, link, stirs, answers, excuses>>

Percents == 0..TopPercent
Levels == 0..TopLevel
None == -1
Volumes == [percent : Percents, muted : BOOLEAN]
NoVolume == [percent |-> 0, muted |-> FALSE, none |-> TRUE]

\* 37 percent is level 47 and level 47 is 37 percent: both round to nearest.
ToLevel(percent) == (percent * TopLevel + TopPercent \div 2) \div TopPercent
ToPercent(level) == (level * TopPercent + TopLevel \div 2) \div TopLevel
Project(volume) == IF volume.muted THEN 0 ELSE ToLevel(volume.percent)
Asked(level) == [percent |-> ToPercent(level), muted |-> level = 0]

-----------------------------------------------------------------------------
(* The reducer, its gate and the mapper                                    *)

Reducer == [active |-> FALSE, synced |-> FALSE, sent |-> 0, heard |-> None,
            pending |-> None]
NoMapper == [acl |-> 0, lease |-> FALSE, sync |-> FALSE, support |-> "unknown",
             known |-> FALSE, win |-> [percent |-> 0, muted |-> TRUE],
             seen |-> FALSE, reducer |-> Reducer]

\* What an observation makes of the mapper: a level to send, a volume to set.
Quietly(m) == [m |-> m, send |-> None, set |-> NoVolume]

Authoritative(m) ==
    [m |-> [m EXCEPT !.reducer.synced = TRUE, !.reducer.sent = Project(m.win)],
     send |-> Project(m.win), set |-> NoVolume]

GateCanSynchronize(m) == m.lease /\ m.sync /\ m.support = "supported" /\ m.known

\* The gate's session begins when the last thing it waited for is there.
ActivateIfAuthorized(m) ==
    IF GateCanSynchronize(m) /\ ~m.reducer.active
    THEN Authoritative([m EXCEPT !.reducer = [Reducer EXCEPT !.active = TRUE]])
    ELSE Quietly(m)

\* Nothing is sent to a headset whose own volume has not been heard.
Filtered(r) == IF r.m.seen THEN r ELSE [r EXCEPT !.send = None]

ObserveCapability(m, supported) ==
    IF supported
    THEN Filtered(ActivateIfAuthorized([m EXCEPT !.support = "supported"]))
    ELSE Quietly([m EXCEPT !.support = "unsupported", !.reducer = Reducer])

\* Mutant: while an echo is awaited every other volume is taken for it.
TakesForEcho(m) ==
    IF m.reducer.pending # None
    THEN Quietly([m EXCEPT !.reducer.pending = None, !.reducer.sent = Project(m.win)])
    ELSE IF m.reducer.synced /\ m.reducer.sent = Project(m.win) THEN Quietly(m)
    ELSE Authoritative(m)

\* The reducer's view of the endpoint: the callback it waits for, a value it
\* sent already, or one the headset must be given.
ReduceWindows(m) ==
    LET level == Project(m.win)
        free == [m EXCEPT !.reducer.pending = None]
    IN  CASE m.reducer.pending = level ->
               Quietly([free EXCEPT !.reducer.sent = level])
          [] m.reducer.pending \notin {None, level} -> Authoritative(free)
          [] m.reducer.pending = None /\ m.reducer.synced /\ m.reducer.sent = level ->
               Quietly(m)
          [] OTHER -> Authoritative(m)

ObserveWindows(m, volume) ==
    LET seen == [m EXCEPT !.known = TRUE, !.win = volume]
    IN  Filtered(IF GateCanSynchronize(seen) /\ m.reducer.active
                 THEN ReduceWindows(seen) ELSE ActivateIfAuthorized(seen))

\* A level the headset changed to, unless it is the one last heard of it.
ReduceXm5(m, level, changed) ==
    IF ~changed \/ m.reducer.heard = level THEN Quietly(m)
    ELSE LET heard == [m EXCEPT !.reducer.heard = level]
         IN  IF Project(m.win) = level THEN Quietly(heard)
             ELSE [m |-> [heard EXCEPT !.reducer.pending = level],
                   send |-> None, set |-> Asked(level)]

\* The first level heard in a generation becomes the endpoint's volume.
ObserveXm5(m, level, changed) ==
    LET r == IF GateCanSynchronize(m) /\ m.reducer.active
             THEN ReduceXm5(m, level, changed) ELSE Quietly(m)
        adopts == m.lease /\ m.sync /\ r.set = NoVolume
                  /\ ~(m.known /\ m.win = Asked(level))
    IN  IF m.seen THEN r
        ELSE [m |-> [r.m EXCEPT !.seen = TRUE, !.reducer.sent = level],
              send |-> None,
              set |-> IF adopts THEN Asked(level) ELSE r.set]

\* Mutant: the end of a session forgets that the headset was heard.
ForgetsHeard(m) ==
    IF m.lease THEN [m EXCEPT !.lease = FALSE, !.seen = FALSE, !.reducer = Reducer] ELSE m

Revoked(m) == IF m.lease THEN [m EXCEPT !.lease = FALSE, !.reducer = Reducer] ELSE m

-----------------------------------------------------------------------------
(* Microsoft's driver and the headset                                      *)

Packet(kind, level, changed) == [kind |-> kind, level |-> level, changed |-> changed]
Ask == Packet("capability", None, FALSE)
Register == Packet("volume", None, FALSE)
Sending == sink.level # None \/ \E i \in DOMAIN air.out : air.out[i].kind = "set"
Sent(level) == [air EXCEPT !.out = Append(@, Packet("set", level, FALSE))]

\* What may leave the two volumes apart is kept as an excuse, the headset's
\* repeated level by its name.
Excused(repeats, other) ==
    excuses' = IF other \/ "other" \in excuses THEN {"other"}
               ELSE IF repeats THEN {"repeat"} ELSE excuses

\* The users, the links, the endpoint and failing calls: at most MaxStirs times.
Stirs == stirs < MaxStirs /\ stirs' = stirs + 1 /\ answers' = 0

\* The headset answers the next packet; a level it is given becomes its volume,
\* and its answer to that is no volume to the host's decoder.
HeadsetAnswers ==
    /\ air.out # <<>>
    /\ LET packet == Head(air.out)
           say(answer) == [out |-> Tail(air.out), in |-> Append(air.in, answer)]
       IN  CASE packet.kind = "capability" ->
                  /\ \E supported \in BOOLEAN : air' = say(Packet("capability", None, supported))
                  /\ UNCHANGED <<headset, answers>>
             [] packet.kind = "volume" ->
                  /\ air' = say(Packet("volume", headset.volume, FALSE))
                  /\ headset' = [headset EXCEPT !.registered = TRUE, !.told = TRUE]
                  /\ UNCHANGED answers
             [] packet.kind = "set" ->
                  /\ air' = [air EXCEPT !.out = Tail(@)]
                  /\ headset' = [headset EXCEPT !.volume = packet.level]
                  /\ answers' = answers + 1
    /\ UNCHANGED <<trace, agentVars, link, stirs, excuses>>

\* A full trace drops its oldest event.
Traced(event) == Append(IF Len(trace) = Capacity THEN Tail(trace) ELSE trace, event)

\* Microsoft's driver reads the next packet through the filter, which records it,
\* and registers for the headset's volume, again after each change.
MicrosoftReads ==
    /\ air.in # <<>>
    /\ LET packet == Head(air.in)
       IN  /\ trace' = Traced(packet)
           /\ air' = [out |-> IF packet.changed THEN Append(air.out, Register) ELSE air.out,
                      in |-> Tail(air.in)]
    /\ UNCHANGED <<headset, agentVars, link, stirs, answers, excuses>>

\* The requests that tell no volume fill the trace, too.
TraceOverruns ==
    /\ Stirs
    /\ trace # <<>>
    /\ trace' = Tail(trace)
    /\ Excused(FALSE, TRUE)
    /\ UNCHANGED <<headset, air, agentVars, link>>

\* The user turns the headset: a registration is spent on telling it.  The change
\* crosses a level on its way, deferred or not, or falls between two
\* registrations and is told as an interim value.
HeadsetTurned(level) ==
    /\ Stirs
    /\ level # headset.volume
    /\ headset' = [headset EXCEPT !.volume = level, !.registered = FALSE]
    /\ air' = IF headset.registered
              THEN [air EXCEPT !.in = Append(@, Packet("volume", level, TRUE))]
              ELSE air
    /\ Excused(FALSE, Sending \/ (headset.told /\ ~headset.registered))
    /\ UNCHANGED <<trace, agentVars, link>>

\* The ACL link comes back; Microsoft's driver asks for the headset's capabilities.
LinkReturns ==
    /\ Stirs
    /\ link' = [link EXCEPT !.acl = @ + 1]
    /\ air' = [out |-> <<Ask>>, in |-> <<>>]
    /\ headset' = [headset EXCEPT !.registered = FALSE, !.told = FALSE]
    /\ UNCHANGED <<trace, agentVars, excuses>>

-----------------------------------------------------------------------------
(* The endpoint                                                            *)

\* A change is announced to the callbacks the sink has registered.
ChangedTo(volume) ==
    IF windows.volume = volume THEN windows
    ELSE [windows EXCEPT !.volume = volume,
                         !.notices = IF windows.endpoint THEN Append(@, volume) ELSE @]

\* The slider and the mute switch are two.
WindowsTurned(volume) ==
    /\ Stirs
    /\ (volume.percent = windows.volume.percent) # (volume.muted = windows.volume.muted)
    /\ windows' = ChangedTo(volume)
    /\ UNCHANGED <<wireVars, mapper, sink, host, adopted, link, excuses>>

\* EnsureVolume, with which each of the sink's operations begins, finds the endpoint
\* gone, with its callbacks, or binds it: the callback is registered, the volume
\* read, and what was read is published.
MayBind == host.session /\ host.bound = NoVolume /\ host.pc \notin {"mute", "read", "query"}
EndpointGoes ==
    /\ Stirs
    /\ MayBind /\ windows.endpoint
    /\ windows' = [windows EXCEPT !.endpoint = FALSE, !.notices = <<>>]
    /\ UNCHANGED <<wireVars, mapper, sink, host, adopted, link, excuses>>

EndpointBinds ==
    /\ IF host.pc = "begun" THEN UNCHANGED <<stirs, answers>> ELSE Stirs
    /\ MayBind /\ ~windows.endpoint
    /\ windows' = [windows EXCEPT !.endpoint = TRUE]
    /\ host' = [host EXCEPT !.bound = windows.volume]
    /\ UNCHANGED <<wireVars, mapper, sink, adopted, link, excuses>>

\* A change that was read too late to be in it, and announced already, is lost.
PublishesBound ==
    /\ host.bound # NoVolume
    /\ sink' = [sink EXCEPT !.published = host.bound]
    /\ host' = [host EXCEPT !.bound = NoVolume]
    /\ Excused(FALSE, windows.volume # host.bound /\ windows.notices = <<>>)
    /\ UNCHANGED <<wireVars, mapper, windows, adopted, link, stirs, answers>>

\* The endpoint's callback thread publishes the next volume.
OnNotify ==
    /\ windows.notices # <<>>
    /\ sink' = [sink EXCEPT !.published = Head(windows.notices)]
    /\ windows' = [windows EXCEPT !.notices = Tail(@)]
    /\ UNCHANGED <<wireVars, mapper, host, adopted, link, stirs, answers, excuses>>

\* The levels are finer than the percentages: two levels may be one percentage.
Agree(volume, level) == Project(volume) = level \/ volume = Asked(level)
VolumesAgree == Agree(windows.volume, headset.volume)

-----------------------------------------------------------------------------
(* The sink                                                                *)

Succeeds == UNCHANGED <<stirs, answers>>

\* A level for the headset, from the sink s: the filter sends it, or the request is
\* refused, or given up when it may have been sent; then it is kept for a retry.
Writes(level, s) ==
    \/ level = None /\ air' = air /\ sink' = s /\ Succeeds
    \/ level # None /\ air' = Sent(level) /\ sink' = [s EXCEPT !.level = None] /\ Succeeds
    \/ level # None /\ air' \in {air, Sent(level)} /\ sink' = [s EXCEPT !.level = level] /\ Stirs

\* A level sent now crosses a change of the headset's that the agent has not taken.
Changes(packets) == \E i \in DOMAIN packets : packets[i].changed /\ packets[i].kind = "volume"
Crosses(level, events) == level # None /\ (Changes(events) \/ Changes(air.in))

\* SetWindowsVolume, up to its first call of the endpoint.
SetsScalar(volume, retries) ==
    /\ windows.endpoint
    /\ windows' = ChangedTo([windows.volume EXCEPT !.percent = volume.percent])
    /\ host' = [host EXCEPT !.pc = "mute", !.set = volume, !.retries = retries]
    /\ UNCHANGED sink
    /\ Succeeds

\* There is no endpoint, or it refuses: the volume is kept for a retry.
FailsToSet(volume, next) ==
    /\ IF windows.endpoint THEN Stirs ELSE Succeeds
    /\ sink' = [sink EXCEPT !.volume = volume]
    /\ host' = [host EXCEPT !.pc = next, !.set = NoVolume]
    /\ UNCHANGED windows

\* The second call, and whether the volume is still to be set.
SetsMute ==
    /\ host.pc = "mute"
    /\ \/ /\ windows' = ChangedTo([windows.volume EXCEPT !.muted = host.set.muted])
          /\ sink' = [sink EXCEPT !.volume = NoVolume]
          /\ host' = [host EXCEPT !.pc = IF host.retries THEN "level" ELSE "readback",
                                  !.set = NoVolume]
          /\ Excused(FALSE, FALSE) /\ Succeeds
       \/ /\ FailsToSet(host.set, IF host.retries THEN "level" ELSE "events")
          /\ Excused(FALSE, TRUE)
    /\ UNCHANGED <<wireVars, mapper, adopted, link>>

-----------------------------------------------------------------------------
(* The filter host's Poll                                                  *)

Polling == host.session /\ host.pc \in {"rest", "events"}

\* One event of the trace is fed to the mapper and what comes of it is begun.
PollEvent ==
    /\ Polling /\ trace # <<>>
    /\ LET event == Head(trace)
           changed == event.kind = "volume" /\ event.changed
           r == IF event.kind = "capability" THEN ObserveCapability(mapper, event.changed)
                ELSE ObserveXm5(mapper, event.level, changed)
       IN  /\ trace' = Tail(trace)
           /\ mapper' = r.m
           /\ \/ /\ r.set = NoVolume
                 /\ Writes(r.send, sink)
                 /\ host' = [host EXCEPT !.pc = "events"]
                 /\ UNCHANGED <<windows, adopted>>
              \/ /\ r.set # NoVolume
                 /\ SetsScalar(r.set, FALSE) \/ FailsToSet(r.set, "events")
                 /\ adopted' = adopted + (IF changed THEN 0 ELSE 1)
                 /\ UNCHANGED air
           /\ Excused(changed /\ mapper.reducer.heard = event.level
                         /\ Project(mapper.win) # event.level,
                      Crosses(r.send, Tail(trace)) \/ sink'.volume # sink.volume)
    /\ UNCHANGED <<headset, link>>

\* QueryWindowsVolume reads the endpoint in two calls as well.
ReadsScalar(next) ==
    \/ /\ windows.endpoint /\ Succeeds
       /\ host' = [host EXCEPT !.pc = next, !.read = windows.volume.percent]
    \/ /\ IF windows.endpoint THEN Stirs ELSE Succeeds
       /\ host' = [host EXCEPT !.pc = "events"]

ReadsBack ==
    /\ host.pc = "readback"
    /\ ReadsScalar("read")
    /\ Excused(FALSE, host'.pc = "events")
    /\ UNCHANGED <<wireVars, mapper, sink, windows, adopted, link>>

\* The volume a set left is observed like any other.
ObservesReadback ==
    /\ host.pc = "read"
    /\ LET r == ObserveWindows(mapper, [percent |-> host.read, muted |-> windows.volume.muted])
       IN  \/ /\ mapper' = r.m
              /\ Writes(r.send, sink)
              /\ Excused(FALSE, Crosses(r.send, trace))
           \/ /\ Stirs
              /\ Excused(FALSE, TRUE)
              /\ UNCHANGED <<mapper, air, sink>>
    /\ host' = [host EXCEPT !.pc = "events", !.read = 0]
    /\ UNCHANGED <<headset, trace, windows, adopted, link>>

\* RetryPendingWrites, with no event left: the deferred volume, then the level.
Drained == Polling /\ trace = <<>>
RetriesVolume ==
    /\ Drained /\ sink.volume # NoVolume /\ windows.endpoint
    /\ SetsScalar(sink.volume, TRUE) \/ FailsToSet(sink.volume, "level")
    /\ UNCHANGED <<wireVars, mapper, adopted, link, excuses>>

VolumeRetried == host.pc = "level" \/ (Drained /\ (sink.volume = NoVolume \/ ~windows.endpoint))
RetriesLevel ==
    /\ VolumeRetried /\ sink.level # None
    /\ Writes(sink.level, sink)
    /\ host' = [host EXCEPT !.pc = "consume"]
    /\ UNCHANGED <<headset, trace, mapper, windows, adopted, link, excuses>>

\* ConsumeWindowsVolumeChange: the callback's latest volume is taken.
Consumes ==
    /\ host.pc = "consume" \/ (VolumeRetried /\ sink.level = None)
    /\ LET r == IF sink.published # NoVolume THEN ObserveWindows(mapper, sink.published)
                ELSE Quietly(mapper)
       IN  /\ mapper' = r.m
           /\ Writes(r.send, [sink EXCEPT !.published = NoVolume])
           /\ Excused(FALSE, Crosses(r.send, trace))
    /\ host' = [host EXCEPT !.pc = "rest"]
    /\ UNCHANGED <<headset, trace, windows, adopted, link>>

-----------------------------------------------------------------------------
(* Sessions of the host                                                    *)

\* Nothing is on its way between the two volumes.
NothingUnderWay ==
    /\ air = [out |-> <<>>, in |-> <<>>] /\ trace = <<>>
    /\ windows.notices = <<>> /\ sink.published = NoVolume
    /\ sink.level = None /\ sink.volume = NoVolume

\* What the mapper would have a session begin with is dropped: a level that the
\* headset does not have, or will not when it has what is on its way, is lost.
Dropped(r) == r.send # None /\ (Sending \/ ~Agree(r.m.win, headset.volume))

\* BeginSession: a generation new to the mapper begins with an empty trace and a
\* mapper of its own; each session has a lease of its own.
SessionBegins ==
    /\ host.pc = "rest" /\ ~host.session /\ link.heard > 0
    /\ LET fresh == mapper.acl # link.heard
           begun == IF fresh THEN [NoMapper EXCEPT !.acl = link.heard] ELSE mapper
       IN  /\ trace' = IF fresh THEN <<>> ELSE trace
           /\ mapper' = ActivateIfAuthorized([begun EXCEPT !.sync = TRUE, !.lease = TRUE]).m
           /\ adopted' = IF fresh THEN 0 ELSE adopted
    /\ host' = [host EXCEPT !.session = TRUE, !.pc = "begun"]
    /\ UNCHANGED <<headset, air, sink, windows, link, stirs, answers, excuses>>

QueriesWindows ==
    /\ host.pc = "begun"
    /\ ReadsScalar("query")
    /\ UNCHANGED <<wireVars, mapper, sink, windows, adopted, link, excuses>>

\* The endpoint's volume is told to the mapper.
SessionPrepared ==
    /\ host.pc = "query"
    /\ \/ LET r == ObserveWindows(mapper, [percent |-> host.read, muted |-> windows.volume.muted])
          IN  mapper' = r.m /\ Excused(FALSE, Dropped(r)) /\ Succeeds
       \/ Stirs /\ UNCHANGED <<mapper, excuses>>
    /\ host' = [host EXCEPT !.pc = "events", !.read = 0]
    /\ UNCHANGED <<wireVars, sink, windows, adopted, link>>

\* EndSession revokes the lease; the deferred writes are kept.
Dismissed ==
    /\ mapper' = Revoked(mapper)
    /\ host' = [host EXCEPT !.session = FALSE, !.pc = "rest"]
    /\ Excused(FALSE, sink.level # None \/ sink.volume # NoVolume)

\* A call takes the transport, or an event cannot be taken from the trace.
SessionEnds ==
    /\ Stirs
    /\ Polling
    /\ Dismissed
    /\ UNCHANGED <<wireVars, sink, windows, adopted, link>>

\* The agent hears of the loss of a link, which ends the session, and of the next.
AgentHears ==
    /\ host.pc = "rest" /\ link.heard < link.acl
    /\ link' = [link EXCEPT !.heard = @ + 1]
    /\ Dismissed
    /\ UNCHANGED <<wireVars, sink, windows, adopted, stirs, answers>>

-----------------------------------------------------------------------------
AvrcpInit ==
    /\ headset \in [volume : Levels, registered : {FALSE}, told : {FALSE}]
    /\ air = [out |-> <<Ask>>, in |-> <<>>]
    /\ trace = <<>>
    /\ mapper = NoMapper
    /\ sink = [level |-> None, volume |-> NoVolume, published |-> NoVolume]
    /\ host = [session |-> FALSE, pc |-> "rest", set |-> NoVolume, read |-> 0, retries |-> FALSE,
             bound |-> NoVolume]
    /\ windows = [volume |-> [percent |-> TopPercent, muted |-> FALSE],
                  notices |-> <<>>, endpoint |-> FALSE]
    /\ link = [acl |-> 1, heard |-> 0]
    /\ stirs = 0 /\ answers = 0 /\ adopted = 0 /\ excuses = {}

WorldSteps ==
    \/ HeadsetAnswers \/ MicrosoftReads \/ TraceOverruns \/ LinkReturns
    \/ \E level \in Levels : HeadsetTurned(level)
    \/ \E volume \in Volumes : WindowsTurned(volume)
    \/ EndpointGoes \/ EndpointBinds \/ PublishesBound \/ OnNotify

\* The agent's thread, unless it is about to publish what it bound.
HostSteps ==
    /\ host.bound = NoVolume
    /\ \/ PollEvent \/ SetsMute \/ ReadsBack \/ ObservesReadback
       \/ RetriesVolume \/ RetriesLevel \/ Consumes
       \/ SessionBegins \/ QueriesWindows \/ SessionPrepared \/ SessionEnds \/ AgentHears

AvrcpNext == WorldSteps \/ HostSteps

AvrcpSpec == AvrcpInit /\ [][AvrcpNext]_volumeVars

-----------------------------------------------------------------------------
(* What is checked                                                         *)

\* The records keep their shape.
VolumeTypeOK ==
    /\ headset \in [volume : Levels, registered : BOOLEAN, told : BOOLEAN]
    /\ Len(trace) <= Capacity
    /\ mapper \in [acl : Nat, lease : BOOLEAN, sync : BOOLEAN,
                   support : {"unknown", "supported", "unsupported"}, known : BOOLEAN,
                   win : Volumes, seen : BOOLEAN,
                   reducer : [active : BOOLEAN, synced : BOOLEAN, sent : Levels,
                              heard : Levels \cup {None}, pending : Levels \cup {None}]]
    /\ sink \in [level : Levels \cup {None}, volume : Volumes \cup {NoVolume},
                 published : Volumes \cup {NoVolume}]
    /\ windows \in [volume : Volumes, notices : Seq(Volumes), endpoint : BOOLEAN]
    /\ host \in [session : BOOLEAN, set : Volumes \cup {NoVolume}, read : Percents,
                 pc : {"rest", "events", "mute", "readback", "read", "level", "consume",
                       "begun", "query"},
                 retries : BOOLEAN, bound : Volumes \cup {NoVolume}]

\* Nothing is on its way and a session is served.
Quiet ==
    /\ host.session /\ host.pc = "rest" /\ host.bound = NoVolume /\ mapper.acl = link.acl
    /\ GateCanSynchronize(mapper) /\ mapper.seen
    /\ NothingUnderWay /\ windows.endpoint /\ headset.registered

\* After the first exchange both sides follow each other: whatever order the
\* users, the callbacks and the channel acted in, once nothing is on its way the
\* headset's level and the endpoint's volume are each other's image.  It may not be
\* after one of the named excuses; README.md says what each of them is.
AgreesWhenQuiet == Quiet /\ excuses = {} => VolumesAgree

\* The same, with a headset that is turned back to the level last heard of it.
FollowsTheHeadset == Quiet /\ excuses \subseteq {"repeat"} => VolumesAgree

\* The headset's level is taken for the endpoint's volume without the headset
\* having been turned once in a generation, whatever sessions begin and end in it.
AdoptsOnce == adopted <= 1

\* The promise of the filter host's comment at its BeginSession, that nothing is written
\* to a headset before its volume was heard in this generation.  It is not checked since
\* it does not hold: a level deferred in an earlier session is written again unasked
\* (RetriesLevel, README.md).
SpeaksAfterHearing ==
    [][Len(air'.out) > Len(air.out) /\ air'.out[Len(air'.out)].kind = "set" =>
           mapper.seen \/ mapper'.seen]_volumeVars

\* The two sides do not answer each other for ever: after the last action of a user
\* or of a link the headset is given no more levels than four for the first exchange
\* and two for each action so far, those deferred or in callbacks included.
SettlesSoon == answers <= 4 + 2 * stirs

\* The exchange between the two sides ends, and ends in agreement.
VolumesSettle == VolumeTypeOK /\ AgreesWhenQuiet /\ SettlesSoon
=============================================================================
