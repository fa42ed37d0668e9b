---------------------------- MODULE MCAvrcpVolume ----------------------------
(***************************************************************************)
(* Three percentages, five levels and a few actions of the world; and,     *)
(* each on its own since they share no state with the volume, the          *)
(* installed agent and the two clients of the Direct-PDO signaling channel.*)
(***************************************************************************)
EXTENDS AvrcpVolume, LegacyAgent, SharedSignaling

VARIABLE side
everything == <<volumeVars, legacyVars, sharedVars, side>>

Init ==
    /\ AvrcpInit /\ AgentInit /\ SharedInit
    /\ side \in {"volume", "agent", "signaling"}
    /\ side # "agent" => agent.path = "direct"

Next ==
    \/ side = "volume" /\ AvrcpNext /\ UNCHANGED <<legacyVars, sharedVars, side>>
    \/ side = "agent" /\ AgentNext /\ UNCHANGED <<volumeVars, sharedVars, side>>
    \/ side = "signaling" /\ SharedNext /\ UNCHANGED <<volumeVars, legacyVars, side>>

Spec == Init /\ [][Next]_everything
=============================================================================
