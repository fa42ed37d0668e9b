----------------------------- MODULE BthChannel -----------------------------
(***************************************************************************)
(* The owner of one L2CAP channel of the direct-PDO driver,                *)
(* direct-pdo/src/nativeldac_bth_signaling_contract.c.  Its runtime calls  *)
(* every operator under the channel's spin lock.                           *)
(*                                                                         *)
(* An operator that asks its caller for something answers [owner, action]. *)
(* Generation is an unbounded natural: it wraps to 1 after 2^32 links.     *)
(***************************************************************************)
EXTENDS Naturals

ChannelOwner ==
    [State : {"Offline", "Closed", "Opening", "ChannelOpen", "Closing", "Faulted"},
     Generation : Nat, PnpStarted : BOOLEAN, OpenPending : BOOLEAN, ChannelHeld : BOOLEAN,
     CloseRequested : BOOLEAN, TargetOffline : BOOLEAN]

ResetRequestFlags(c) ==
    [c EXCEPT !.OpenPending = FALSE, !.ChannelHeld = FALSE, !.CloseRequested = FALSE,
              !.TargetOffline = FALSE]

InitialChannel ==
    [State |-> "Offline", Generation |-> 0, PnpStarted |-> FALSE, OpenPending |-> FALSE,
     ChannelHeld |-> FALSE, CloseRequested |-> FALSE, TargetOffline |-> FALSE]

ChannelStarted(c) ==
    IF ~c.PnpStarted /\ c.State = "Offline"
    THEN [ResetRequestFlags(c) EXCEPT !.PnpStarted = TRUE, !.State = "Closed",
                                      !.Generation = @ + 1]
    ELSE c

Answer(c, action) == [owner |-> c, action |-> action]

RequestOpen(c) ==
    IF c.PnpStarted /\ c.State = "Closed" /\ ~c.OpenPending /\ ~c.ChannelHeld
    THEN Answer([c EXCEPT !.State = "Opening", !.OpenPending = TRUE,
                          !.CloseRequested = FALSE, !.TargetOffline = FALSE],
                "SubmitOpen")
    ELSE Answer(c, "None")

(* The request stays noted while an open or a close is under way. *)
RequestClose(c, target_offline) ==
    LET noted == [c EXCEPT !.CloseRequested = TRUE,
                           !.TargetOffline = @ \/ target_offline,
                           !.PnpStarted = @ /\ ~target_offline]
    IN  CASE c.State = "Opening" /\ c.OpenPending -> Answer(noted, "CancelOpen")
          [] c.State = "ChannelOpen" /\ c.ChannelHeld ->
                Answer([noted EXCEPT !.State = "Closing"], "SubmitClose")
          [] c.State \in {"Closed", "Faulted", "Offline"} ->
                Answer([ResetRequestFlags(noted) EXCEPT
                          !.State = IF noted.TargetOffline THEN "Offline" ELSE "Closed"],
                       "None")
          [] OTHER -> Answer(noted, "None")

TakesDisconnect(c, generation) ==
    generation = c.Generation /\ c.PnpStarted /\ c.State = "ChannelOpen" /\ c.ChannelHeld

\* Mutant: the next link has the generation of the lost one.
OnRemoteDisconnectSame(c, generation) ==
    IF TakesDisconnect(c, generation)
    THEN [ResetRequestFlags(c) EXCEPT !.State = "Faulted"]
    ELSE c

OnRemoteDisconnect(c, generation) ==
    IF TakesDisconnect(c, generation)
    THEN [ResetRequestFlags(c) EXCEPT !.State = "Faulted", !.Generation = @ + 1]
    ELSE c

(* acquired: the open succeeded and returned a channel handle. *)
OnOpenComplete(c, generation, acquired) ==
    LET refused == c.CloseRequested \/ c.TargetOffline \/ ~c.PnpStarted
    IN  IF generation # c.Generation \/ ~c.OpenPending \/ c.State # "Opening"
        THEN Answer(c, IF acquired THEN "SubmitClose" ELSE "None")
        ELSE IF acquired
        THEN Answer([c EXCEPT !.OpenPending = FALSE, !.ChannelHeld = TRUE,
                              !.State = IF refused THEN "Closing" ELSE "ChannelOpen"],
                    IF refused THEN "SubmitClose" ELSE "None")
        ELSE Answer([ResetRequestFlags(c) EXCEPT
                       !.State = IF c.TargetOffline \/ ~c.PnpStarted THEN "Offline"
                                 ELSE IF c.CloseRequested THEN "Closed" ELSE "Faulted"], "None")

OnCloseComplete(c, succeeded) ==
    IF c.State # "Closing" THEN c
    ELSE [ResetRequestFlags(c) EXCEPT
            !.State = IF c.TargetOffline \/ ~c.PnpStarted THEN "Offline"
                      ELSE IF succeeded THEN "Closed" ELSE "Faulted"]

(* NldBthSignalingOwnerIsConsistent, what the driver's own tests assert. *)
ChannelIsConsistent(c) ==
    /\ c.OpenPending <=> c.State = "Opening"
    /\ c.ChannelHeld <=> c.State \in {"ChannelOpen", "Closing"}
    /\ ~c.PnpStarted => c.State = "Offline" \/ c.TargetOffline
    /\ c.State = "Offline" => ~c.PnpStarted
=============================================================================
