--------------------------- MODULE MCDailyServices --------------------------
(***************************************************************************)
(* The small services around the daily session, one of them at a time:     *)
(* they share no state.                                                    *)
(***************************************************************************)
EXTENDS WorkerProcesses, DailyConfig, Monitors, AvrcpFilter, AbrController

CONSTANTS s1, s2

VARIABLE part
services == <<burstVars, configVars, monitorVars, filterVars, probeVars, abr>>
vars == <<services, part>>

Init ==
    /\ BurstInit /\ ConfigInit /\ MonitorInit /\ FilterInit /\ ProbeInit /\ AbrInit
    /\ part \in {"burst", "config", "monitors", "filter", "probe", "abr"}
    /\ part # "burst" => burst.kind = "silence"
    /\ part # "monitors" => monitor.kind = "media"
    /\ part # "filter" => air.playback = "paused"
    /\ part # "probe" => probe.mode = "query" /\ speaker.sinks = <<>>
    /\ speaker.commands = (IF probe.mode = "finite" THEN MaxHeadsetCommands ELSE 0)
    /\ tap.run => probe.mode = "endpoint"
    /\ probe.mode # "query" => speaker.sinks = <<"ldac">>
    /\ part # "abr" => abr.quality = 0

InBurst(A) ==
    part = "burst" /\ A /\ UNCHANGED <<configVars, monitorVars, filterVars, probeVars, abr, part>>
InConfig(A) ==
    part = "config" /\ A /\ UNCHANGED <<burstVars, monitorVars, filterVars, probeVars, abr, part>>
InMonitors(A) ==
    part = "monitors" /\ A /\ UNCHANGED <<burstVars, configVars, filterVars, probeVars, abr, part>>
InFilter(A) ==
    part = "filter" /\ A /\ UNCHANGED <<burstVars, configVars, monitorVars, probeVars, abr, part>>
InProbe(A) ==
    part = "probe" /\ A /\ UNCHANGED <<burstVars, configVars, monitorVars, filterVars, abr, part>>
InAbr(A) ==
    part = "abr" /\ A /\ UNCHANGED <<burstVars, configVars, monitorVars, filterVars, probeVars, part>>

Next ==
    \/ InBurst(BurstNext) \/ InConfig(ConfigNext) \/ InMonitors(MonitorNext)
    \/ InFilter(FilterNext) \/ InProbe(ProbeNext) \/ InAbr(AbrNext)

FairSpec ==
    /\ Init /\ [][Next]_vars
    /\ WF_vars(InBurst(SessionSteps)) /\ WF_vars(InBurst(WorkerSteps)) /\ WF_vars(InProbe(ProbeSteps))
    /\ WF_vars(InConfig(DailyStarts)) /\ WF_vars(InConfig(LoopTakes))
    /\ SF_vars(InConfig(LoopMarks)) /\ WF_vars(InConfig(EngineEnds))
=============================================================================
