----------------------------- MODULE LegacyAgent -----------------------------
(***************************************************************************)
(* The installed agent: a loop that reads its configuration, looks at the  *)
(* headset and at the transport, and runs one media process.  On the       *)
(* legacy path a session that ended by itself may only be followed by one  *)
(* on a transport interface that was gone in between; on the Direct-PDO    *)
(* path a faulted transport is recovered once per disconnect.  The lengths *)
(* of the waits are left out: a wait ends at any time.                     *)
(***************************************************************************)
EXTENDS Integers

CONSTANTS
    MaxEdges,   \* bound: disconnects of the headset
    MaxSessions \* bound: session generations of the transport

ASSUME AgentAssumption == MaxEdges \in Nat /\ MaxSessions \in Nat

VARIABLES
    agent,      \* the agent's loop
    media,      \* the media process: "none", "running" or "ended"
    paired,    \* the public Bluetooth state: connected or not
    transport,  \* the transport, as its driver reports it
    saved,      \* config.json
    told,       \* the named stop event
    owed,       \* a session ended by itself and the interface was never gone since
    edges,      \* disconnects of the headset
    recoveries  \* recoveries that needed a disconnect and were accepted

legacyVars == <<agent, media, paired, transport, saved, told, owed, edges, recoveries>>

\* ParseOptions and UsesDirectPdo: the paths; "unattended" is the legacy path
\* without --wait-for-xm5.
Paths == {"direct", "legacy", "unattended"}

\* ReadAgentConfig: two configurations that play, and "off" for one that is
\* disabled or a file that cannot be read.
Files == {"first", "second", "off"}
Plays(c) == c # "off"

NoFault == "none"
Absent == [state |-> "absent", session |-> 0, reason |-> NoFault]
Unseen == [paired |-> "failed", link |-> "failed"]
NoGate == "open"

NewAgent(path) == [path |-> path, pc |-> "idle", config |-> "first", seen |-> Unseen, info |-> Absent,
                disconnected |-> FALSE, gate |-> NoGate, paired |-> "failed"]

AgentInit ==
    /\ \E path \in Paths : agent = NewAgent(path)
    /\ media = "none" /\ paired = FALSE /\ transport = Absent /\ saved = "first"
    /\ told = FALSE /\ owed = FALSE /\ edges = 1 /\ recoveries = 0

World == <<paired, transport, saved, told>>
Ghosts == <<owed, edges, recoveries>>
----------------------------------------------------------------------------
\* What the loop sees.

\* QueryXm5Connection: the paired device's state, or a failed query.
HeadsetSeen == {IF paired THEN "connected" ELSE "disconnected", "failed"}

\* QueryLdacTransport / QueryDirectPdoTransport: the interface, or a failed
\* query; a legacy interface is only looked for when the headset is connected
\* or the gate waits for it.
LinkSeen ==
    IF agent.path = "direct" \/ agent.paired = "connected" \/ agent.gate # NoGate
    THEN {transport, [Absent EXCEPT !.state = "failed"]}
    ELSE {Absent}

Usable(seen) == seen.state \in {"ready", "open"}

\* CanRecoverDirectPdoTransport
RecoveryAllowed(seen, disconnected) ==
    /\ seen.state = "faulted"
    /\ \/ seen.reason = "timeout"
       \/ disconnected /\ seen.reason \in {"remote", "backend"}

\* Mutant: the interface that is still there counts as the fresh one.
PassesAtOnce(gate, connected, seen) ==
    IF gate = NoGate \/ (connected /\ Usable(seen)) THEN NoGate ELSE gate

\* ObserveLegacyReconnectGate: absence first, then a connected headset and a
\* ready transport.
Gate(gate, connected, seen) ==
    CASE gate = "armed" /\ seen.state = "absent" -> "waiting"
      [] gate = "waiting" /\ connected /\ Usable(seen) -> NoGate
      [] OTHER -> gate

\* PlanDirectPdoPresence
DirectPlan(connected, seen, allowed) ==
    CASE seen.state = "faulted" /\ allowed /\ (seen.reason = "timeout" \/ connected) -> "recover"
      [] Usable(seen) -> "start"
      [] OTHER -> "idle"

\* PlanInstalledPresence: a connected headset whose transport has just changed
\* settles for one more look.
LegacyPlan(connected, seen, changed, gate) ==
    IF connected /\ Usable(seen) /\ ~changed /\ gate = NoGate THEN "start" ELSE "idle"
----------------------------------------------------------------------------
\* The loop.

\* The head of the loop: the stop, then the configuration, then the headset.
\* A configuration that does not play keeps the media process away.
Turns ==
    /\ agent.pc = "idle"
    /\ IF told THEN agent' = [agent EXCEPT !.pc = "ended"]
       ELSE IF ~Plays(saved) THEN agent' = [agent EXCEPT !.config = saved]
       ELSE IF agent.path = "unattended" THEN agent' = [agent EXCEPT !.config = saved, !.pc = "start"]
       ELSE \E seen \in HeadsetSeen : agent' = [agent EXCEPT !.config = saved, !.paired = seen, !.pc = "looking"]
    /\ UNCHANGED <<media, World, Ghosts>>

\* The transport, the gate and what follows from them; every wait goes back to
\* the head of the loop.
Looks ==
    /\ agent.pc = "looking"
    /\ \E seen \in LinkSeen :
        LET now == [paired |-> agent.paired, link |-> seen.state]
            connected == agent.paired = "connected"
            disconnected == agent.disconnected \/ agent.paired = "disconnected"
            direct == agent.path = "direct"
            gate == IF direct THEN agent.gate ELSE Gate(agent.gate, connected, seen)
            plan == IF direct THEN DirectPlan(connected, seen, RecoveryAllowed(seen, disconnected))
                    ELSE LegacyPlan(connected, seen, now # agent.seen, gate)
            becameReady == Usable(seen) /\ agent.seen.link \notin {"ready", "open"}
        IN  agent' = [agent EXCEPT
                !.seen = now, !.gate = gate,
                !.info = IF direct /\ plan # "idle" THEN seen ELSE Absent,
                !.disconnected = disconnected /\ ~becameReady,
                !.pc = plan]
    /\ UNCHANGED <<media, World, Ghosts>>

\* What an accepted recovery forgets.
Recovered(a) == [a EXCEPT !.pc = "idle", !.seen.link = "failed", !.disconnected = FALSE]

\* RequestDirectPdoRecovery: the driver is read again, and takes the request
\* only for the fault that was seen; it may refuse it still.
Recovers ==
    /\ agent.pc = "recover"
    /\ \/ /\ transport = agent.info
          /\ transport' = [transport EXCEPT !.state = "ready", !.reason = NoFault]
          /\ agent' = Recovered(agent)
          /\ recoveries' = IF transport.reason = "timeout" THEN recoveries ELSE recoveries + 1
       \/ /\ agent' = [agent EXCEPT !.pc = "idle"]
          /\ UNCHANGED <<transport, recoveries>>
    /\ UNCHANGED <<media, paired, saved, told, owed, edges>>

\* PlanDirectPdoMediaDemand: a media session that is open pre-arms the engine.
Demanded(runs) == agent.path = "direct" => runs \/ agent.info.state = "open"

\* QueryNativePcmRunState: the pin runs, or it does not or cannot be asked.
PcmRuns == BOOLEAN

\* The process is created suspended, put in the job and resumed.
StartProbe == media' = "running" /\ agent' = [agent EXCEPT !.pc = "running"]

\* No demand, or a start that failed and was undone: tried again after a wait.
Starts ==
    /\ agent.pc = "start"
    /\ \/ (\E runs \in PcmRuns : Demanded(runs)) /\ StartProbe
       \/ agent' = [agent EXCEPT !.pc = "idle"] /\ UNCHANGED media
    /\ UNCHANGED <<World, Ghosts>>

\* The wait of a running session: stop first, then the process, and only after
\* a quiet interval the configuration.
Waits ==
    /\ agent.pc = "running"
    /\ \/ told /\ agent' = [agent EXCEPT !.pc = "stopping"]
       \/ /\ ~told /\ media # "ended" /\ saved # agent.config
          /\ agent' = [agent EXCEPT !.pc = "restarting"]
    /\ UNCHANGED <<media, World, Ghosts>>

\* StopProbeGracefully, FinishProbeOutput: the process ends in time, or is
\* terminated.
StopsMedia ==
    /\ agent.pc \in {"stopping", "restarting"}
    /\ media' = "none"
    /\ agent' = [agent EXCEPT !.pc = IF @ = "stopping" THEN "ended" ELSE "idle"]
    /\ UNCHANGED <<World, Ghosts>>

\* The process ended by itself: ArmLegacyReconnectGate on the watched legacy
\* path, a forgotten view after a refused open (exit code 5) on the other.
HearsEnd ==
    /\ agent.pc = "running" /\ ~told /\ media = "ended"
    /\ media' = "none"
    /\ \/ /\ agent.path = "legacy"
          /\ agent' = [agent EXCEPT !.pc = "idle", !.gate = "armed"]
       \/ /\ agent.path # "legacy"
          /\ \E view \in {agent.seen, Unseen} :
                agent' = [agent EXCEPT !.pc = "idle", !.seen = IF agent.path = "direct" THEN view ELSE @]
    /\ UNCHANGED <<World, Ghosts>>

\* The agent is gone, its job and with it the media process; another start
\* begins with nothing seen and no gate.
Restarts ==
    /\ agent.pc # "idle" \/ told
    /\ agent' = NewAgent(agent.path)
    /\ media' = "none" /\ told' = FALSE /\ owed' = FALSE
    /\ recoveries' = 0 /\ edges' = IF paired THEN 0 ELSE 1
    /\ UNCHANGED <<paired, transport, saved>>

LoopTurns == Turns \/ Looks \/ Recovers \/ Starts \/ Waits \/ StopsMedia \/ HearsEnd \/ Restarts
----------------------------------------------------------------------------
\* The world around it.

\* ldac_direct_engine or transport_probe ends.
MediaEnds ==
    /\ media = "running"
    /\ media' = "ended"
    /\ owed' = (owed \/ (agent.path = "legacy" /\ agent.pc = "running" /\ saved = agent.config
                          /\ ~told /\ transport.state # "absent"))
    /\ UNCHANGED <<agent, World, edges, recoveries>>

HeadsetChanges ==
    /\ paired => edges < MaxEdges
    /\ paired' = ~paired
    /\ edges' = IF paired THEN edges + 1 ELSE edges
    /\ UNCHANGED <<agent, media, transport, saved, told, owed, recoveries>>

\* The transport's driver: an interface that appears begins a session, which
\* opens, faults and goes.
LinkChanges ==
    /\ \/ /\ transport.state = "absent"
          /\ \/ agent.path # "direct" /\ transport' = [transport EXCEPT !.state = "ready"]
             \/ /\ agent.path = "direct" /\ transport.session < MaxSessions
                /\ transport' = [transport EXCEPT !.state = "ready", !.session = @ + 1]
       \/ /\ transport.state # "absent"
          /\ transport' = [transport EXCEPT !.state = "absent", !.reason = NoFault]
       \/ /\ agent.path = "direct" /\ transport.state = "ready"
          /\ transport' = [transport EXCEPT !.state = "open"]
       \/ /\ agent.path = "direct" /\ Usable(transport)
          /\ \E reason \in {"timeout", "remote", "backend", "other"} :
                transport' = [transport EXCEPT !.state = "faulted", !.reason = reason]
    /\ owed' = (owed /\ transport'.state # "absent")
    /\ UNCHANGED <<agent, media, paired, saved, told, edges, recoveries>>

\* The panel saves a configuration; the file is replaced in one step.
PanelSaves ==
    /\ saved' \in Files \ {saved}
    /\ UNCHANGED <<agent, media, paired, transport, told, Ghosts>>

\* SessionEndMonitor and --stop-existing
AsksStop ==
    /\ ~told /\ told' = TRUE
    /\ UNCHANGED <<agent, media, paired, transport, saved, Ghosts>>

AgentNext == LoopTurns \/ MediaEnds \/ HeadsetChanges \/ LinkChanges \/ PanelSaves \/ AsksStop
----------------------------------------------------------------------------
\* After a session of the watched legacy path ended by itself no media process
\* runs until the transport interface has been gone, and a fault of the link
\* is recovered at most once for every disconnect of the headset, however the
\* headset, the link, the panel and the loop's separate looks interleave
\* (ldac_agent.cpp, ObserveLegacyReconnectGate, CanRecoverDirectPdoTransport).
ReconnectsAfresh ==
    /\ owed => media # "running"
    /\ recoveries <= edges
=============================================================================
