-------------------------- MODULE AvrcpHandoffState --------------------------
(* V1AvrcpHandoffState (agent/v1_avrcp_handoff_state.cpp): which PnP action the   *)
(* handoff host takes next.  An input is the set of the flags that are true in    *)
(* V1AvrcpHandoffInput, a transition the machine and the action it requests.      *)

Phases == {"MicrosoftHeld", "HandoffPending", "ObserverActive", "RestorePending"}

Inputs == {"streaming", "handoffDone", "handoffFailed", "openFailed", "restoreDone", "restoreFailed"}

Actions == {"none", "stage", "notify", "restore", "returned", "degraded"}

Machine == [phase : Phases, handoffUsed : BOOLEAN, restoreUsed : BOOLEAN, degraded : BOOLEAN]

Fresh == [phase |-> "MicrosoftHeld", handoffUsed |-> FALSE, restoreUsed |-> FALSE, degraded |-> FALSE]

Transition(m, action) == [machine |-> m, action |-> action]

Held(m, in) ==
    IF "streaming" \in in
    THEN Transition([m EXCEPT !.phase = "HandoffPending"], "stage")
    ELSE Transition(m, "none")

(* The restart budget counts the outcomes that were taken, not the restarts. *)
Pending(m, in) ==
    CASE m.handoffUsed -> Transition(m, "none")
      [] ~m.handoffUsed /\ "handoffDone" \in in ->
           Transition([m EXCEPT !.phase = "ObserverActive", !.handoffUsed = TRUE], "notify")
      [] ~m.handoffUsed /\ "handoffDone" \notin in /\ "handoffFailed" \in in ->
           Transition([m EXCEPT !.phase = "RestorePending", !.handoffUsed = TRUE], "restore")
      [] OTHER -> Transition(m, "none")

Active(m, in) ==
    IF "streaming" \notin in \/ "openFailed" \in in
    THEN Transition([m EXCEPT !.phase = "RestorePending"], "restore")
    ELSE Transition(m, "none")

Restoring(m, in) ==
    CASE m.restoreUsed -> Transition(m, "none")
      [] ~m.restoreUsed /\ "restoreDone" \in in ->
           Transition([m EXCEPT !.phase = "MicrosoftHeld", !.restoreUsed = TRUE], "returned")
      [] ~m.restoreUsed /\ "restoreDone" \notin in /\ "restoreFailed" \in in ->
           Transition([m EXCEPT !.phase = "MicrosoftHeld", !.restoreUsed = TRUE,
                                !.degraded = TRUE], "degraded")
      [] OTHER -> Transition(m, "none")

Step(m, in) ==
    CASE m.phase = "MicrosoftHeld" -> Held(m, in)
      [] m.phase = "HandoffPending" -> Pending(m, in)
      [] m.phase = "ObserverActive" -> Active(m, in)
      [] m.phase = "RestorePending" -> Restoring(m, in)
=============================================================================
