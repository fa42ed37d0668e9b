------------------------------ MODULE Monitors ------------------------------
(***************************************************************************)
(* The three watchers of the daily host, each a thread that subscribes to  *)
(* Windows' events, reads what there is, publishes it under a mutex and    *)
(* waits for the next event: "media" follows the current media session,    *)
(* "capture" the calls on the headset's microphone, "render" its call      *)
(* endpoint.  An event sets the same auto-reset refresh event whatever it  *)
(* is about.  The presence agent reads the snapshots only.                 *)
(***************************************************************************)
EXTENDS Integers, FiniteSets

CONSTANTS
    Sessions,   \* audio or media sessions that may exist
    MaxMatching \* bound: endpoints that carry the headset's name

ASSUME MonitorsAssumption == MaxMatching \in Nat

VARIABLES
    monitor,    \* the thread: kind, where it is, subscriptions, snapshot
    refresh,    \* the refresh event
    world       \* the endpoints and sessions of Windows

monitorVars == <<monitor, refresh, world>>

MonitorKinds == {"media", "capture", "render"}
AbsentEndpoint == "absent"

MonitorInit ==
    /\ monitor \in {[kind |-> kind, pc |-> "starts", devices |-> FALSE, manager |-> FALSE,
                     heard |-> {}, deaf |-> {}, todo |-> {}, counted |-> {}, chosen |-> {},
                     identity |-> AbsentEndpoint, active |-> FALSE, ready |-> FALSE, missed |-> FALSE] :
                    kind \in MonitorKinds}
    /\ refresh = FALSE
    /\ world = [named |-> 0, matched |-> 0, sessions |-> {}, active |-> {}]

\* One endpoint with the name, in the headset's container, is the headset's.
Identity(w) ==
    CASE w.matched = 1 /\ w.named = 1 -> "matched"
      [] w.matched > 1 \/ w.named > 1 -> "ambiguous"
      [] w.named = 0 -> AbsentEndpoint
      [] OTHER -> "untrusted"

\* The current media session is one of those that exist.
CurrentSession(w) == IF w.sessions = {} THEN {} ELSE {CHOOSE s \in w.sessions : TRUE}

\* What a snapshot would say of the world.
Actual ==
    CASE monitor.kind = "media" -> [identity |-> AbsentEndpoint, active |-> CurrentSession(world) \cap world.active # {}]
      [] monitor.kind = "capture" -> [identity |-> Identity(world),
            active |-> Identity(world) = "matched" /\ world.active # {}]
      [] OTHER -> [identity |-> Identity(world), active |-> FALSE]

\* Publish: the snapshot and whether it can be relied on.
Published(m, identity, active, ok) ==
    [m EXCEPT !.identity = identity, !.active = active, !.ready = ok, !.pc = "waits"]
PublishesError(m) == [Published(m, AbsentEndpoint, FALSE, FALSE) EXCEPT !.pc = "over"]

\* Run: the device notifications, or the media session manager's.
Registers ==
    /\ monitor.pc = "starts"
    /\ \/ monitor' = [monitor EXCEPT !.devices = TRUE, !.pc = "refresh"]
       \/ monitor' = PublishesError(monitor)
    /\ UNCHANGED <<refresh, world>>

\* Refresh: the bindings are given up and the endpoints enumerated; only the
\* headset's own microphone is bound.
Enumerates ==
    /\ monitor.pc = "refresh" /\ monitor.kind # "media"
    /\ LET m == [monitor EXCEPT !.manager = FALSE, !.heard = {}, !.deaf = {},
                                   !.counted = {}, !.missed = FALSE]
           identity == Identity(world)
       IN  \/ monitor' = Published(m, AbsentEndpoint, FALSE, FALSE)
           \/ monitor' = IF monitor.kind = "capture" /\ identity = "matched"
                         THEN [m EXCEPT !.pc = "binds"]
                         ELSE Published(m, identity, FALSE, TRUE)
    /\ UNCHANGED <<refresh, world>>

\* The manager's notifications come before its sessions are listed.
BindsManager ==
    /\ monitor.pc = "binds"
    /\ \/ Identity(world) = "matched" /\ monitor' = [monitor EXCEPT !.manager = TRUE, !.pc = "lists"]
       \/ monitor' = Published(monitor, "matched", FALSE, FALSE)
    /\ UNCHANGED <<refresh, world>>
ListsSessions ==
    /\ monitor.pc = "lists"
    /\ monitor' = [monitor EXCEPT !.todo = world.sessions, !.pc = "reads"]
    /\ UNCHANGED <<refresh, world>>

\* Each session's state is read, and then its notifications asked for, whether it
\* told its state or not; one that cannot be had at all is passed over.
ReadsState(s) ==
    /\ monitor.pc = "reads" /\ s \in monitor.todo
    /\ \/ monitor' = [monitor EXCEPT !.chosen = {s}, !.pc = "hears",
                                     !.counted = @ \cup ({s} \cap world.active)]
       \/ monitor' = [monitor EXCEPT !.chosen = {s}, !.pc = "hears", !.missed = TRUE]
       \/ monitor' = [monitor EXCEPT !.todo = @ \ {s}, !.missed = TRUE]
    /\ UNCHANGED <<refresh, world>>
Subscribes ==
    /\ monitor.pc = "hears"
    /\ \E heard \in {monitor.chosen, {}} :
        monitor' = [monitor EXCEPT !.heard = @ \cup heard, !.deaf = @ \cup (monitor.chosen \ heard),
                                   !.todo = @ \ monitor.chosen, !.chosen = {}, !.pc = "reads"]
    /\ UNCHANGED <<refresh, world>>
\* Mutant: the refresh event is reset when the refresh is done.
PublishesAndResets ==
    /\ monitor.pc = "reads" /\ monitor.todo = {}
    /\ monitor' = Published(monitor, "matched", monitor.counted # {}, TRUE)
    /\ refresh' = FALSE
    /\ UNCHANGED world
PublishesSessions ==
    /\ monitor.pc = "reads" /\ monitor.todo = {}
    /\ monitor' = Published(monitor, "matched", monitor.counted # {}, TRUE)
    /\ UNCHANGED <<refresh, world>>

\* The media session's notifications come before its state is read.
FollowsSession ==
    /\ monitor.pc = "refresh" /\ monitor.kind = "media"
    /\ \/ monitor' = [monitor EXCEPT !.manager = TRUE, !.chosen = CurrentSession(world),
                                     !.heard = CurrentSession(world), !.pc = "plays"]
       \/ monitor' = PublishesError(monitor)
    /\ UNCHANGED <<refresh, world>>
ReadsPlayback ==
    /\ monitor.pc = "plays"
    /\ \/ monitor' = Published(monitor, AbsentEndpoint, monitor.chosen \cap world.active # {}, TRUE)
       \/ monitor' = PublishesError(monitor)
    /\ UNCHANGED <<refresh, world>>

\* The wait: the refresh event resets itself.
Wakes ==
    /\ monitor.pc = "waits" /\ refresh
    /\ refresh' = FALSE
    /\ monitor' = [monitor EXCEPT !.pc = "refresh"]
    /\ UNCHANGED world

\* Stop: the thread gives its subscriptions up and is joined.
MonitorStops ==
    /\ monitor.pc = "waits"
    /\ monitor' = [monitor EXCEPT !.pc = "over", !.devices = FALSE, !.manager = FALSE, !.heard = {}]
    /\ UNCHANGED <<refresh, world>>

-----------------------------------------------------------------------------
(* Windows: a change is told to who asked for it                           *)

Stays(matched) == monitor.kind = "media" \/ world.matched = matched
EndpointsChange ==
    /\ \E named \in 0..MaxMatching : \E matched \in 0..named :
        /\ <<named, matched>> # <<world.named, world.matched>>
        /\ world' = [world EXCEPT !.named = named, !.matched = matched,
                !.sessions = IF Stays(matched) THEN @ ELSE {},
                !.active = IF Stays(matched) THEN @ ELSE {}]
    /\ refresh' = (refresh \/ (monitor.devices /\ monitor.kind # "media"))
    /\ UNCHANGED monitor

\* A change that falls between the reading of a session's state and its
\* subscription, or that has none, is told to nobody.
Unheard(s) == monitor.kind = "capture" /\ s \in monitor.chosen \cup monitor.deaf

\* A session of the bound microphone, or a media session, comes or goes.
SessionsChange(s) ==
    /\ monitor.kind # "render"
    /\ monitor.kind = "capture" => Identity(world) = "matched"
    /\ world' = [world EXCEPT !.sessions = IF s \in @ THEN @ \ {s} ELSE @ \cup {s}, !.active = @ \ {s}]
    /\ refresh' = (refresh \/ IF monitor.kind = "capture"
                              THEN IF s \in world.sessions THEN s \in monitor.heard ELSE monitor.manager
                              ELSE monitor.devices /\ CurrentSession(world') # CurrentSession(world))
    /\ monitor' = [monitor EXCEPT !.missed = @ \/ Unheard(s)]

\* A session starts or stops.
StateChanges(s) ==
    /\ s \in world.sessions
    /\ world' = [world EXCEPT !.active = IF s \in @ THEN @ \ {s} ELSE @ \cup {s}]
    /\ refresh' = (refresh \/ s \in monitor.heard)
    /\ monitor' = [monitor EXCEPT !.missed = @ \/ Unheard(s)]

MonitorSteps ==
    \/ Registers \/ Enumerates \/ BindsManager \/ ListsSessions \/ Subscribes
    \/ (\E s \in Sessions : ReadsState(s)) \/ PublishesSessions
    \/ FollowsSession \/ ReadsPlayback \/ Wakes
MonitorNext ==
    \/ MonitorSteps \/ MonitorStops \/ EndpointsChange
    \/ \E s \in Sessions : SessionsChange(s) \/ StateChanges(s)

-----------------------------------------------------------------------------
(* What is checked                                                         *)

\* A watcher that is asleep has missed nothing: its snapshot, if it says that it
\* can be relied on, is the state of the world, in whatever order subscriptions,
\* readings and changes fell.  The capture watcher reads a session's state before
\* it asks for its notifications and may miss a change in between, or a session
\* that refused to tell its state or its changes.
SleeperIsCurrent ==
    (monitor.pc = "waits" /\ monitor.ready /\ ~refresh) =>
        (monitor.missed \/ (monitor.active = Actual.active /\ monitor.identity = Actual.identity))
=============================================================================
