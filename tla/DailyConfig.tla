----------------------------- MODULE DailyConfig -----------------------------
(***************************************************************************)
(* The quality of the daily stream: the panel asks for it over a pipe with *)
(* a revision it derives from the state file, the pipe's thread persists   *)
(* and accepts it, and the daily loop takes the request and marks it       *)
(* applied when no engine runs.  One instance runs at a time; it may die   *)
(* at any point and be started again.                                      *)
(***************************************************************************)
EXTENDS Integers

CONSTANTS
    Qualities,  \* what can be asked for
    Default,    \* the quality of the command line
    MaxRevision \* bound: revisions the panel reaches

ASSUME ConfigAssumption == Default \in Qualities /\ MaxRevision \in Nat

VARIABLES
    file,       \* daily-config.bin: a request, or none
    server,     \* the pipe's thread: requested, applied and pending requests
    daily,      \* the daily loop: what it took, applied and lets the engine play
    shown,      \* the state file, which the panel reads
    asking,     \* the panel's request on its way, or none
    promised    \* the last request that was answered as accepted

configVars == <<file, server, daily, shown, asking, promised>>

NoRequest == [revision |-> -1, quality |-> Default]
Requests == [revision : 0..MaxRevision, quality : Qualities]
Initial == [revision |-> 0, quality |-> Default]

Down == [up |-> FALSE, requested |-> Initial, applied |-> Initial, playing |-> NoRequest]
Closed == [requested |-> Initial, applied |-> Initial, pending |-> NoRequest]

ConfigInit ==
    /\ file = NoRequest /\ asking = NoRequest /\ promised = NoRequest
    /\ server = Closed /\ daily = Down
    /\ shown = [requested |-> 0, applied |-> 0]

Shown(d) == [requested |-> d.requested.revision, applied |-> d.applied.revision]

\* Start: the mutex of the instance, then the persisted request, which counts
\* as applied; a file that cannot be read leaves the default.
DailyStarts ==
    /\ ~daily.up
    /\ \E loaded \in {file, NoRequest} :
        LET request == IF loaded = NoRequest THEN Initial ELSE loaded
        IN  /\ server' = [requested |-> request, applied |-> request, pending |-> NoRequest]
            /\ daily' = [up |-> TRUE, requested |-> request, applied |-> request, playing |-> NoRequest]
            /\ shown' = Shown(daily')
            /\ promised' = IF loaded = NoRequest THEN NoRequest ELSE promised
    /\ UNCHANGED <<file, asking>>

\* The process ends: its memory, its pipe and its mutex with it.
DailyEnds ==
    /\ daily.up
    /\ daily' = Down /\ server' = Closed
    /\ UNCHANGED <<file, shown, asking, promised>>

\* Handle: a revision that is not newer is stale; one that cannot be persisted
\* is refused; the newest accepted one replaces what the loop has not taken.
\* The answer may be lost.
Handle ==
    /\ daily.up /\ asking # NoRequest
    /\ \/ /\ asking.revision > server.requested.revision
          /\ file' = asking
          /\ server' = [server EXCEPT !.requested = asking, !.pending = asking]
          /\ promised' \in {asking, promised}
       \/ UNCHANGED <<file, server, promised>>    \* stale, invalid, or not persisted
    /\ asking' = NoRequest
    /\ UNCHANGED <<daily, shown>>

\* Mutant: whatever was requested last is marked.
MarksNewest(s, revision) == [s EXCEPT !.applied = s.requested]

\* TakeAccepted, then MarkApplied between two engines, then the state file.
MarkApplied(s, revision) ==
    IF revision = s.requested.revision THEN [s EXCEPT !.applied = s.requested] ELSE s

\* Mutant: a request taken while an engine plays is dropped.
DropsWhilePlaying ==
    /\ daily.up /\ server.pending # NoRequest
    /\ daily' = [daily EXCEPT !.requested = IF daily.playing = NoRequest THEN server.pending ELSE @]
    /\ server' = [server EXCEPT !.pending = NoRequest]
    /\ shown' = Shown(daily')
    /\ UNCHANGED <<file, asking, promised>>
LoopTakes ==
    /\ daily.up /\ server.pending # NoRequest
    /\ daily' = [daily EXCEPT !.requested = server.pending]
    /\ server' = [server EXCEPT !.pending = NoRequest]
    /\ shown' = Shown(daily')
    /\ UNCHANGED <<file, asking, promised>>

LoopMarks ==
    /\ daily.up /\ daily.playing = NoRequest
    /\ daily.applied.revision # daily.requested.revision
    /\ server' = MarkApplied(server, daily.requested.revision)
    /\ daily' = IF server.requested.revision = daily.requested.revision
                THEN [daily EXCEPT !.applied = daily.requested] ELSE daily
    /\ shown' = Shown(daily')
    /\ UNCHANGED <<file, asking, promised>>

\* An engine is started with the applied quality and keeps it until it ends.
EngineStarts ==
    /\ daily.up /\ daily.playing = NoRequest
    /\ daily' = [daily EXCEPT !.playing = daily.applied]
    /\ UNCHANGED <<file, server, shown, asking, promised>>
EngineEnds ==
    /\ daily.playing # NoRequest
    /\ daily' = [daily EXCEPT !.playing = NoRequest]
    /\ UNCHANGED <<file, server, shown, asking, promised>>

\* The client sends one request over the pipe and takes one answer.
PanelRequest(revision, quality) == [revision |-> revision, quality |-> quality]

\* The panel counts on from the newest revision of the state file.
PanelAsks(quality) ==
    LET newest == IF shown.requested > shown.applied THEN shown.requested ELSE shown.applied
    IN  /\ asking = NoRequest /\ newest < MaxRevision
        /\ asking' = PanelRequest(newest + 1, quality)
        /\ UNCHANGED <<file, server, daily, shown, promised>>

LoopSteps == LoopTakes \/ LoopMarks
ConfigNext ==
    \/ DailyStarts \/ DailyEnds \/ Handle \/ LoopSteps \/ EngineStarts \/ EngineEnds
    \/ \E quality \in Qualities : PanelAsks(quality)

-----------------------------------------------------------------------------
(* What is checked                                                         *)

\* Pipe and loop never disagree on what is applied, an engine plays that and
\* nothing newer while it runs, what was accepted is on disk before the loop sees
\* it, and a revision names one quality in memory and on disk.
QualityIsAgreed ==
    daily.up =>
        /\ server.applied = daily.applied
        /\ daily.playing \in {NoRequest, daily.applied}
        /\ daily.requested.revision <= server.requested.revision
        /\ server.requested \in {Initial, file}
        /\ \A r \in {daily.requested, daily.applied, server.pending} :
              r.revision = file.revision => r = file

\* A request that was answered as accepted comes into force, or a newer one does,
\* if engines end and processes that die are started again: it is neither lost
\* between the pipe's thread and the loop nor with the process.
PromiseIsKept ==
    \A r \in Requests :
        promised = r ~> \/ promised # r
                        \/ daily.up /\ (daily.applied = r \/ daily.applied.revision > r.revision)
=============================================================================
