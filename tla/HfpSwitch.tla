----------------------------- MODULE HfpSwitch -----------------------------
(***************************************************************************)
(* When the headset's microphone is opened, LDAC has to give way to the    *)
(* hands-free profile: agent/v1_hfp_switch_state.cpp decides, and          *)
(* agent/v1_hfp_lifecycle_adapter.cpp turns the decision into a lifecycle  *)
(* event.  Both are pure; this module holds them as operators.             *)
(*                                                                         *)
(* The clock is abstracted: an input says whether the release delay, if    *)
(* one is running, has elapsed.  An acl_generation of 0 means no headset   *)
(* was ever seen.  Generations do not come within half the 64-bit range of *)
(* each other, so that IsNewerGeneration is the order of the numbers.      *)
(***************************************************************************)
EXTENDS Integers

HfpPhase == {"Disconnected", "LdacAvailable", "WaitingForLdacStop",
             "HfpActive", "ReleaseDelay"}

HfpAction == {"StopLdac", "EnterHfpOutput", "ExitHfpOutput", "ResumeLdac"}

\* The fields of V1HfpSwitchState that survive between two steps.
HfpSwitchState(Generation) ==
    [phase : HfpPhase, generation : Generation, output : BOOLEAN]

InitialHfpSwitch == [phase |-> "Disconnected", generation |-> 0, output |-> FALSE]

Decision(h, acts) == [switch |-> h, actions |-> acts, stale |-> FALSE]

IsNewerGeneration(candidate, current) == candidate > current

\* ResetDisconnected, then the phase a connected headset starts in.
Reset(h, connected) ==
    [h EXCEPT !.phase = IF connected THEN "LdacAvailable" ELSE "Disconnected",
              !.output = FALSE]

ExitIf(cond) == IF cond THEN {"ExitHfpOutput"} ELSE {}

\* The microphone is in use: first LDAC has to stop, then HFP gets the output.
WhileCapturing(h, input) ==
    IF input.ldac_path_active
    THEN Decision([h EXCEPT !.phase = "WaitingForLdacStop"],
                  IF h.phase # "WaitingForLdacStop" THEN {"StopLdac"} ELSE {})
    ELSE Decision([h EXCEPT !.phase = "HfpActive", !.output = TRUE],
                  IF h.output THEN {} ELSE {"EnterHfpOutput"})

\* The microphone is free: after two quiet seconds LDAC may come back.
WhileReleased(h, input) ==
    CASE h.phase = "WaitingForLdacStop" ->
             Decision(IF input.ldac_path_active THEN h
                      ELSE [h EXCEPT !.phase = "ReleaseDelay"], {})
      [] h.phase = "HfpActive" ->
             Decision([h EXCEPT !.phase = "ReleaseDelay"], {})
      [] h.phase = "ReleaseDelay" /\ input.delay_elapsed ->
             Decision([h EXCEPT !.phase = "LdacAvailable", !.output = FALSE],
                      ExitIf(h.output) \cup
                      (IF input.render_demand /\ ~input.ldac_path_active
                       THEN {"ResumeLdac"} ELSE {}))
      [] OTHER -> Decision(h, {})

\* V1HfpSwitchState::Step.  A new generation first closes the HFP output of
\* the old one.
HfpStep(h, input) ==
    IF \/ input.generation = 0
       \/ /\ h.generation # 0
          /\ input.generation # h.generation
          /\ ~IsNewerGeneration(input.generation, h.generation)
    THEN [Decision(h, {}) EXCEPT !.stale = TRUE]
    ELSE LET moved   == input.generation # h.generation
             current == IF moved
                        THEN Reset([h EXCEPT !.generation = input.generation],
                                   input.connected)
                        ELSE h
             ready   == IF current.phase = "Disconnected"
                        THEN [current EXCEPT !.phase = "LdacAvailable"]
                        ELSE current
             closing == ExitIf(h.output /\ (moved \/ ~input.connected))
             next    == IF input.capture_active
                        THEN WhileCapturing(ready, input)
                        ELSE WhileReleased(ready, input)
         IN  IF ~input.connected
             THEN Decision(Reset(current, FALSE), closing)
             ELSE [next EXCEPT !.actions = @ \cup closing]

\* PlanV1HfpLifecycle and V1HfpLifecycleEventForCommand: the lifecycle event a
\* decision asks for, "none" if it asks for nothing or came too late.
HfpLifecycleEvent(decision, current_generation) ==
    LET stop   == "StopLdac" \in decision.actions
        resume == "ResumeLdac" \in decision.actions
    IN  IF \/ decision.stale
           \/ decision.switch.generation # current_generation
           \/ stop <=> resume
        THEN "none"
        ELSE IF stop THEN "HfpSuspendLdac" ELSE "HfpResumeLdac"
=============================================================================
